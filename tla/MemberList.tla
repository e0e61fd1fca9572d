----------------------------- MODULE MemberList -----------------------------
(***************************************************************************)
(* One node's member list and the hash-ring membership that follows it     *)
(* (membership/member_list.cpp, membership/node_info.h, main.cpp).  A list *)
(* maps each known node to its record; last_state_change is left to the    *)
(* timers of SwimProtocol, which may expire at any moment.                 *)
(***************************************************************************)
EXTENDS Integers

(* NodeState, in the order state_supersedes compares. *)
StateRank == [Alive |-> 0, Suspect |-> 1, Dead |-> 2, Left |-> 3]

State == DOMAIN StateRank

(* add_node and update_state accept a claim when it has a higher           *)
(* incarnation, or the same incarnation and a state that supersedes.       *)
Supersedes(state, inc, info) ==
    \/ inc > info.inc
    \/ inc = info.inc /\ StateRank[state] > StateRank[info.state]

AddNode(list, m, info) ==
    IF m \in DOMAIN list /\ ~Supersedes(info.state, info.inc, list[m])
    THEN list
    ELSE [o \in DOMAIN list \cup {m} |-> IF o = m THEN info ELSE list[o]]

UpdateState(list, m, state, inc) ==
    IF m \in DOMAIN list /\ Supersedes(state, inc, list[m])
    THEN [list EXCEPT ![m].state = state, ![m].inc = inc]
    ELSE list

AlivePeers(list, self) ==
    {m \in DOMAIN list \ {self} : list[m].state = "Alive"}

(* The nodes whose record an accepted change replaced: notify reports them. *)
Notified(old, new) ==
    {m \in DOMAIN new : m \notin DOMAIN old \/ new[m] # old[m]}

(* Mutant of OnChange: a node declared Dead stays on the ring. *)
OnChangeKeepsDead(onRing, old, new) ==
    onRing \cup {m \in Notified(old, new) : new[m].state = "Alive"}

(* The on_change callback of main.cpp: on the ring when Alive, off when    *)
(* Dead or Left, left as it is when Suspect.                               *)
OnChange(onRing, old, new) ==
    (onRing \cup {m \in Notified(old, new) : new[m].state = "Alive"})
      \ {m \in Notified(old, new) : new[m].state \in {"Dead", "Left"}}
=============================================================================
