----------------------------- MODULE EventLoop -----------------------------
(***************************************************************************)
(* The event loop of a node: IoUringContext and its io_uring, the accept   *)
(* callback of the listener, the loops of SWIM, the tasks that the accept  *)
(* callback and the receive loop start, the wait group in which handlers   *)
(* of connections wait for one another, and main from the installation of  *)
(* its signal handlers to its return.  All of it runs on one thread, which *)
(* a signal may interrupt anywhere.  An operation of io_uring is known by  *)
(* whom its completion wakes; what it reads or writes is left out.         *)
(***************************************************************************)
EXTENDS Integers, Sequences, SequencesExt, FiniteSets, Bags

CONSTANTS Frame,     \* bound: the tasks alive at a time
          NoFrame,
          CqSize     \* entries of the completion queue, twice the queue depth

(* The accept callback, recv_loop, and the loops that await timeouts; each *)
(* of the first two has a list of the tasks it started.                    *)
Spawner == {"accept", "recv"}
Loop == Spawner \cup {"timer"}

ASSUME EventLoopAssumption ==
    /\ NoFrame \notin Frame
    /\ Loop \cap Frame = {} /\ "stop" \notin Frame
    /\ CqSize \in Nat \ {0}

VARIABLES pc,        \* where main is
          running,   \* running_
          stopFd,    \* the counter of stop_fd_, 0 or not
          sq,        \* the bag of operations prepared and not yet submitted
          kernel,    \* the bag of those submitted and not yet completed
          cq,        \* completion queue, from the entry processed next
          count,     \* entries processed since the last cq_advance
          frame,     \* frame[f]: a task and whose list it is in
          fetch      \* the task that fetches the value others wait for

vars == <<pc, running, stopFd, sq, kernel, cq, count, frame, fetch>>

(* A task that is suspended awaits an operation itself, or it awaits a     *)
(* Task of its own that does, or it waits in a wait group.  At its end it  *)
(* is done and waits for removal.                                          *)
Suspended == {"own", "callee"}

NoTask == [state |-> "none", list |-> "none"]

(* An operation: the coroutine or callback that its user_data names. *)
Op(owner, leaf) == [owner |-> owner, leaf |-> leaf]

StopOp == Op("stop", "null")
LoopOp(l) == Op(l, "own")

Init ==
    /\ pc = "setup"
    /\ running = FALSE /\ stopFd = 0
    /\ sq = EmptyBag /\ kernel = EmptyBag /\ cq = << >> /\ count = 0
    /\ frame = [f \in Frame |-> NoTask] /\ fetch = NoFrame

-----------------------------------------------------------------------------
(* get_sqe and submit, once for each operation of new.  A submit passes on *)
(* all that is prepared, or it fails, which nobody looks at, and they stay *)
(* prepared; late are those after the last that did not fail.              *)
Submitted(new) ==
    \/ sq' = sq (+) SetToBag(new) /\ UNCHANGED kernel
    \/ \E late \in SUBSET new \ {new} :
         /\ kernel' = kernel (+) sq (+) SetToBag(new \ late)
         /\ sq' = SetToBag(late)

-----------------------------------------------------------------------------
(* main and IoUringContext::run *)

(* listener.start and swim.run: every loop awaits its first operation. *)
StartLoops ==
    /\ pc = "setup"
    /\ pc' = "ready"
    /\ Submitted({LoopOp(l) : l \in Loop})
    /\ UNCHANGED <<running, stopFd, cq, count, frame, fetch>>

(* run() begins: arm_stop_event leaves its read in the submission queue. *)
Run ==
    /\ pc = "ready"
    /\ pc' = "loop"
    /\ running' = TRUE
    /\ sq' = sq (+) SetToBag({StopOp})
    /\ UNCHANGED <<stopFd, kernel, cq, count, frame, fetch>>

LoopHead ==
    /\ pc = "loop"
    /\ pc' = IF running THEN "enter" ELSE "over"
    /\ UNCHANGED <<running, stopFd, sq, kernel, cq, count, frame, fetch>>

(* Mutant of Enter: io_uring_wait_cqe, which does not submit. *)
EnterOnlyWaits ==
    /\ pc = "enter"
    /\ pc' = "wait"
    /\ UNCHANGED <<running, stopFd, sq, kernel, cq, count, frame, fetch>>

(* io_uring_submit_and_wait submits, *)
Enter ==
    /\ pc = "enter"
    /\ pc' = "wait"
    /\ kernel' = kernel (+) sq
    /\ sq' = EmptyBag
    /\ UNCHANGED <<running, stopFd, cq, count, frame, fetch>>

(* or fails for good; *)
EnterFails ==
    /\ pc = "enter"
    /\ pc' = "over"
    /\ UNCHANGED <<running, stopFd, sq, kernel, cq, count, frame, fetch>>

(* then it blocks until there is a completion. *)
Wake ==
    /\ pc = "wait" /\ cq # << >>
    /\ pc' = "batch"
    /\ UNCHANGED <<running, stopFd, sq, kernel, cq, count, frame, fetch>>

(* io_uring_for_each_cqe looks for new entries until it finds none. *)
BatchEnd ==
    /\ pc = "batch" /\ cq = << >>
    /\ pc' = "loop"
    /\ count' = 0
    /\ UNCHANGED <<running, stopFd, sq, kernel, cq, frame, fetch>>

(* main returns: its locals are destroyed, tasks before the io_uring. *)
Return ==
    /\ pc = "over"
    /\ pc' = "exited"
    /\ sq' = EmptyBag /\ kernel' = EmptyBag /\ cq' = << >>
    /\ frame' = [f \in Frame |-> NoTask] /\ fetch' = NoFrame
    /\ UNCHANGED <<running, stopFd, count>>

(* signal_handler.  A wait that it interrupts ends with EINTR, unless a    *)
(* completion comes first.                                                 *)
Signal ==
    /\ pc # "exited"
    /\ running' = FALSE
    /\ stopFd' = 1
    /\ pc' \in IF pc = "wait" THEN {"wait", "loop"} ELSE {pc}
    /\ UNCHANGED <<sq, kernel, cq, count, frame, fetch>>

-----------------------------------------------------------------------------
(* The kernel *)

(* An operation completes.  The read of stop_fd_ waits for stop().         *)
(* Entries of the queue are given back only at the end of a batch; what    *)
(* finds no room stays with the kernel.                                    *)
Complete(op) ==
    /\ count + Len(cq) < CqSize
    /\ BagIn(op, kernel)
    /\ kernel' = kernel (-) SetToBag({op})
    /\ cq' = Append(cq, op)
    /\ IF op = StopOp THEN stopFd = 1 /\ stopFd' = 0 ELSE UNCHANGED stopFd
    /\ UNCHANGED <<pc, running, sq, count, frame, fetch>>

-----------------------------------------------------------------------------
(* process_cqe, for the first entry of the completion queue *)

(* Mutant of Processed: each entry is given back once it is processed. *)
ProcessedAndSeen(new) ==
    /\ pc = "batch"
    /\ cq' = Tail(cq)
    /\ Submitted(new)
    /\ UNCHANGED <<pc, running, stopFd, count>>

(* One completion is taken, and what it wakes submits new. *)
Processed(new) ==
    /\ pc = "batch"
    /\ cq' = Tail(cq)
    /\ count' = count + 1
    /\ Submitted(new)
    /\ UNCHANGED <<pc, running, stopFd>>

ProcessStop ==
    /\ cq # << >> /\ Head(cq) = StopOp
    /\ Processed({})
    /\ UNCHANGED <<frame, fetch>>

(* Mutant of ProcessIdle: accept is submitted again only after a success. *)
IdleNotArmed(l) ==
    /\ cq # << >> /\ Head(cq) = LoopOp(l)
    /\ Processed(IF l = "accept" THEN {} ELSE {LoopOp(l)})
    /\ UNCHANGED <<frame, fetch>>

(* An accept that failed, a timeout, a datagram that starts no task: the   *)
(* loop goes on.                                                           *)
ProcessIdle(l) ==
    /\ cq # << >> /\ Head(cq) = LoopOp(l)
    /\ Processed({LoopOp(l)})
    /\ UNCHANGED <<frame, fetch>>

Fresh == {f \in Frame : frame[f] = NoTask}

(* std::erase_if destroys the tasks of the list that are done. *)
Erased(frames, l) ==
    [f \in Frame |-> IF frames[f].list = l /\ frames[f].state = "done" THEN NoTask
                     ELSE frames[f]]

(* A new connection, or a datagram that is answered: the task is started   *)
(* and runs to its first suspension, the list is cleared of tasks that are *)
(* done, and the loop goes on.                                             *)
ProcessSpawn(l) ==
    /\ cq # << >> /\ Head(cq) = LoopOp(l)
    /\ \E f \in Fresh, state \in Suspended :
         /\ frame' = Erased([frame EXCEPT ![f] = [state |-> state, list |-> l]], l)
         /\ Processed({Op(f, state), LoopOp(l)})
    /\ UNCHANGED fetch

(* A task is resumed where it waits.  Its callee may end, which resumes it *)
(* in turn, before it or another callee awaits an operation again, or the  *)
(* task ends.                                                              *)
ProcessTask(f) ==
    /\ cq # << >> /\ Head(cq).owner = f
    /\ \E state \in Suspended \cup {"done"} :
         /\ f = fetch => state = "callee"
         /\ frame' = [frame EXCEPT ![f].state = state]
         /\ Processed(IF state = "done" THEN {} ELSE {Op(f, state)})
    /\ UNCHANGED fetch

(* A handler has read a GET that another node owns: it proxies it, *)
ProcessInitiate(f) ==
    /\ cq # << >> /\ Head(cq) = Op(f, "callee")
    /\ frame[f].list = "accept"
    /\ fetch = NoFrame
    /\ fetch' = f
    /\ Processed({Op(f, "callee")})
    /\ UNCHANGED frame

(* or waits for the handler that already does. *)
ProcessJoin(f) ==
    /\ cq # << >> /\ Head(cq) = Op(f, "callee")
    /\ frame[f].list = "accept"
    /\ fetch \notin {NoFrame, f}
    /\ frame' = [frame EXCEPT ![f].state = "waiting"]
    /\ Processed({})
    /\ UNCHANGED fetch

Waiters == {f \in Frame : frame[f].state = "waiting"}

(* The fetch is complete: complete() resumes the waiters one after the     *)
(* other, each up to its write_response, and then its caller goes on.      *)
ProcessFetched(f) ==
    /\ cq # << >> /\ Head(cq) = Op(f, "callee")
    /\ fetch = f
    /\ fetch' = NoFrame
    /\ frame' = [g \in Frame |-> IF g \in Waiters THEN [frame[g] EXCEPT !.state = "callee"]
                                 ELSE frame[g]]
    /\ Processed({Op(g, "callee") : g \in Waiters \cup {f}})

Process ==
    \/ ProcessStop
    \/ \E l \in Loop : ProcessIdle(l)
    \/ \E l \in Spawner : ProcessSpawn(l)
    \/ \E f \in Frame : \/ ProcessTask(f) \/ ProcessInitiate(f)
                        \/ ProcessJoin(f) \/ ProcessFetched(f)

Main ==
    \/ StartLoops \/ Run \/ LoopHead \/ Enter \/ EnterFails \/ Wake \/ BatchEnd
    \/ Process \/ Return

Next ==
    \/ Main \/ Signal
    \/ \E op \in BagToSet(kernel) : Complete(op)

Spec == Init /\ [][Next]_vars

(* The thread runs, timeouts expire and the kernel hands them over.  Other *)
(* operations may never complete.                                          *)
Fairness == WF_vars(Main) /\ SF_vars(Complete(LoopOp("timer")))

FairSpec == Spec /\ Fairness

-----------------------------------------------------------------------------
(* Properties *)

InRun == pc \in {"loop", "enter", "wait", "batch"}

(* The variables of the loop have their types, the batch fits the          *)
(* completion queue, and the thread never sleeps on an operation that is   *)
(* only prepared, though the submit of its await_suspend may have failed   *)
(* unseen (awaitable.h 28-35, io_uring_context.cpp 97-108).                *)
TypeOK ==
    /\ pc \in {"setup", "ready", "loop", "enter", "wait", "batch", "over", "exited"}
    /\ running \in BOOLEAN /\ stopFd \in {0, 1}
    /\ \A f \in Frame : /\ frame[f].state \in Suspended \cup {"none", "waiting", "done"}
                        /\ frame[f].list \in Spawner \cup {"none"}
    /\ fetch \in Frame \cup {NoFrame}
    /\ pc = "wait" => sq = EmptyBag
    /\ count + Len(cq) <= CqSize

(* How many times the bag B holds op. *)
Copies(op, B) == IF BagIn(op, B) THEN B[op] ELSE 0

(* How many operations that have not been processed are op. *)
Pending(op) ==
    Copies(op, sq) + Copies(op, kernel)
      + Cardinality({i \in DOMAIN cq : cq[i] = op})

(* Until main returns, nothing is forgotten and nothing dangles: each loop *)
(* and each suspended task has exactly one operation that will resume it,  *)
(* at the coroutine that waits, or waits for a task that has; and no       *)
(* operation refers to a task that is done or destroyed (awaitable.h       *)
(* await_suspend, tcp_listener.cpp 52-69, task.h 15-28, main.cpp 137-142,  *)
(* swim_protocol.cpp 296-301, wait_group.cpp 16-38).                       *)
OneWakerEach ==
    pc \notin {"setup", "exited"} =>
      /\ \A l \in Loop : Pending(LoopOp(l)) = 1
      /\ \A f \in Frame, leaf \in Suspended :
           Pending(Op(f, leaf)) = IF frame[f].state = leaf THEN 1 ELSE 0
      /\ Waiters # {} => fetch # NoFrame
      /\ fetch # NoFrame => frame[fetch].state = "callee"

(* Once stop() is called during run(), run() ends, at whatever point the   *)
(* signal hits it, though completions keep coming while it processes       *)
(* others (io_uring_context.cpp 97-125).                                   *)
StopEnds == InRun /\ ~running ~> pc = "exited"
=============================================================================
