------------------------------- MODULE Cache -------------------------------
(***************************************************************************)
(* What LocalStore promises the coordinator: a key-value map that may lose *)
(* entries whenever it writes (src/src/storage/local_store.h).  An entry   *)
(* may vanish only while a put makes room; a put that fails has already    *)
(* dropped the old value of its key; a get or del changes nothing else.    *)
(* LocalStore.tla is the detailed store and is checked to implement this.  *)
(***************************************************************************)
CONSTANTS
    Key,
    Value,
    Absent      \* std::nullopt: no entry for the key

ASSUME AbsentAssumption == Absent \notin Value

Contents == [Key -> Value \cup {Absent}]

EmptyCache == [k \in Key |-> Absent]

(* after may be what evictions of keys other than k leave of before. *)
Evicted(before, after, k) ==
    \A j \in Key \ {k} : after[j] \in {before[j], Absent}

(* LocalStore::put returned true *)
PutOk(before, after, k, v) ==
    /\ after[k] = v
    /\ Evicted(before, after, k)
    /\ after \in Contents

(* LocalStore::put returned false *)
PutFailed(before, after, k) ==
    /\ after[k] = Absent
    /\ Evicted(before, after, k)
    /\ after \in Contents

(* LocalStore::del: the entry is gone; it returns whether there was one. *)
Deleted(before, after, k) == after = [before EXCEPT ![k] = Absent]
=============================================================================
