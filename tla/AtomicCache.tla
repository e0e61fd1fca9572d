---------------------------- MODULE AtomicCache ----------------------------
(***************************************************************************)
(* The abstract local store: every call of get, put and del happens at one *)
(* instant, on the contents and with the losses Cache.tla describes.       *)
(* LocalStore.tla implements it.                                           *)
(***************************************************************************)
EXTENDS Cache

VARIABLES
    contents,   \* what the store holds
    answer      \* what the last call returned

AtomicInit ==
    /\ contents = EmptyCache
    /\ answer = Absent

AtomicGet(k) ==
    /\ answer' = contents[k]
    /\ UNCHANGED contents

AtomicPut(k, v) ==
    \/ answer' = TRUE /\ PutOk(contents, contents', k, v)
    \/ answer' = FALSE /\ PutFailed(contents, contents', k)

AtomicDel(k) ==
    /\ answer' = (contents[k] # Absent)
    /\ Deleted(contents, contents', k)

AtomicNext ==
    \E k \in Key :
        \/ AtomicGet(k)
        \/ \E v \in Value : AtomicPut(k, v)
        \/ AtomicDel(k)

AtomicSpec == AtomicInit /\ [][AtomicNext]_<<contents, answer>>
=============================================================================
