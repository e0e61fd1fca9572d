-------------------------- MODULE CoordinatorFresh --------------------------
(***************************************************************************)
(* How stale a GET may be in a cluster whose nodes agree on the ring: the  *)
(* coordinator of Coordinator.tla with two history variables, in a cluster *)
(* that has formed and neither changes nor restarts.                       *)
(***************************************************************************)
EXTENDS Coordinator

ASSUME DistinctTokensAssumption == DistinctTokens

VARIABLES
    log,        \* log[k]: the values k has taken at its owner, oldest first
    basis       \* basis[r]: writes acknowledged before r's fetch began

freshVars == <<vars, log, basis>>

FormedRing ==
    [t \in UNION {Tokens[n] : n \in Node} |-> CHOOSE n \in Node : t \in Tokens[n]]

Owner(k) == GetNodeForKey(FormedRing, HashKey[k])

FreshInit ==
    /\ ring = [n \in Node |-> FormedRing]
    /\ NoTraffic
    /\ log = [k \in Key |-> << >>]
    /\ basis = [r \in Client |-> {}]

Writes == {r \in Client : chain[r] # << >> /\ chain[r][1].req.op = "Put"}

(* Distinct writes carry distinct values, so that a value names its write. *)
DistinctWrites ==
    \A r, s \in Writes :
        r # s => chain[r][1].req.value # chain[s][1].req.value

(* The values of the PUTs of k whose client has read the answer Ok. *)
Acked(k) ==
    {chain[r][1].req.value : r \in {s \in Writes :
        /\ chain[s][1].req.key = k
        /\ chain[s][1].pc = "done"
        /\ chain[s][1].resp.status = "Ok"}}

RecordWrites ==
    log' = [k \in Key |->
        IF store'[Owner(k)][k] # store[Owner(k)][k]
        THEN Append(log[k], store'[Owner(k)][k])
        ELSE log[k]]

(* A GET starts from what was acknowledged when it arrived; one that joins *)
(* a fetch under way inherits what its initiator started from.             *)
RecordBasis ==
    basis' = [r \in Client |->
        IF chain[r] = << >> /\ chain'[r] # << >>
        THEN Acked(chain'[r][1].req.key)
        ELSE IF chain[r] # << >> /\ chain[r][1].pc = "route"
                                 /\ chain'[r][1].pc = "wait"
        THEN basis[pending[chain[r][1].node][chain[r][1].req.key][1]]
        ELSE basis[r]]

FreshNext ==
    /\ Arrival \/ Progress \/ Failure
    /\ DistinctWrites'
    /\ RecordWrites
    /\ RecordBasis

FreshSpec == FreshInit /\ [][FreshNext]_freshVars

(* Reads are as fresh as their fetch: a GET that returns a value never     *)
(* returns one that had already been overwritten by a write acknowledged   *)
(* before its fetch began.  Collapsing makes this the best there is: a GET *)
(* that joins an older fetch may miss a write that was acknowledged before *)
(* the GET itself arrived (coordinator.cpp 58-76).                         *)
ReadsAreFresh ==
    \A r \in Client :
        chain[r] # << >> /\ chain[r][1].req.op = "Get"
                         /\ chain[r][1].pc \in {"reply", "done"}
                         /\ chain[r][1].resp.status = "Ok" =>
            LET k == chain[r][1].req.key
                v == chain[r][1].resp.value
            IN  \A w \in basis[r] :
                    \E i, j \in DOMAIN log[k] :
                        i <= j /\ log[k][i] = w /\ log[k][j] = v
=============================================================================
