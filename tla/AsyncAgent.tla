----------------------------- MODULE AsyncAgent -----------------------------
(***************************************************************************)
(* One serving agent at work on asynchronous predictions: the handlers of  *)
(* /async/v1/predict, the task processor, the management handlers, the     *)
(* services they share, and the agent process, which may die and restart.  *)
(***************************************************************************)
EXTENDS AsyncPredict, TaskProcessor, TaskControl

CONSTANT MaxCrashes   \* bound of the model: restarts of the agent

ASSUME AsyncAgentAssumption == MaxCrashes \in Nat

VARIABLE crashes      \* restarts so far

vars == <<storeVars, requestVars, processorVars, controlVars, crashes>>

AgentTypeOK ==
    /\ StoreTypeOK /\ RequestTypeOK /\ ProcessorTypeOK /\ ControlTypeOK
    /\ crashes \in 0..MaxCrashes

Init ==
    /\ StoreInit /\ RequestInit /\ ProcessorInit /\ ControlInit
    /\ crashes = 0

-----------------------------------------------------------------------------
InFlight(t) ==
    \/ req[t] \notin {"idle", "done"}
    \/ cancel[t] \in {"delete", "mark"}
    \/ \E a \in Attempt : exec[t][a] # "off"

(* The process dies: handlers, goroutines and lists in memory are lost;    *)
(* redis and the webhook service keep what they have.                      *)
Die ==
    /\ disturbed' = disturbed \cup {t \in Task : InFlight(t)}
    /\ req' = [t \in Task |-> IF req[t] = "idle" THEN "idle" ELSE "done"]
    /\ reply' = [t \in Task |-> IF req[t] \in {"idle", "done"} THEN reply[t] ELSE "lost"]
    /\ exec' = [t \in Task |-> [a \in Attempt |-> "off"]]
    /\ cancel' = [t \in Task |-> IF cancel[t] = "ok" THEN "ok" ELSE "idle"]
    /\ purge' = {}
    /\ UNCHANGED <<recordVars, entryVars, paused, faults, attempts, purged>>

(* The new process starts with nothing in flight.                          *)
Crash ==
    /\ crashes < MaxCrashes
    /\ crashes' = crashes + 1
    /\ Die

Services == StoreStep /\ UNCHANGED <<requestVars, processorVars, controlVars, crashes>>

Arrive(t) == Admit(t) /\ UNCHANGED <<processorVars, controlVars, crashes>>

Handle(t) == RequestStep(t) /\ UNCHANGED <<processorVars, controlVars, crashes>>

Process(t) == ProcessorStep(t) /\ UNCHANGED <<requestVars, controlVars, crashes>>

Control == ControlStep /\ UNCHANGED <<requestVars, processorVars, crashes>>

Next ==
    \/ Services
    \/ \E t \in Task : Arrive(t) \/ Handle(t) \/ Process(t)
    \/ Control
    \/ Crash

Spec == Init /\ [][Next]_vars

(* Handlers run on in their goroutines and every call they make has a      *)
(* timeout; asynq polls the queue, forwards due retries and recovers       *)
(* expired leases.  Nothing is assumed of clients, failures and crashes,   *)
(* nor that a deadline strikes; an attempt asynq has forgotten competes    *)
(* with the entry's own progress.                                          *)
WorkOn(t) ==
    /\ \/ Dequeue(t) \/ RetryDue(t) \/ RecoverLease(t)
       \/ \E a \in Attempt : AttemptStep(t, a)
    /\ UNCHANGED <<requestVars, controlVars, crashes>>

FinishCancel(t) ==
    /\ CancelDelete(t) \/ CancelMark(t)
    /\ UNCHANGED <<requestVars, processorVars, crashes>>

Fairness ==
    \A t \in Task :
        /\ WF_vars(Handle(t))
        /\ WF_vars(WorkOn(t))
        /\ WF_vars(FinishCancel(t))

FairSpec == Spec /\ Fairness

-----------------------------------------------------------------------------
(* Safety.                                                                 *)

(* Every variable has its type; in particular no entry is retried, and no  *)
(* attempt started, more often than asynq.MaxRetry(1) allows.              *)
TypeOK == AgentTypeOK

(* The retry count in redis and the attempts the workers have started stay *)
(* in step through deadlines, crashes and lost leases, so a prediction is  *)
(* sent to the platform at most MaxRetry + 1 times (predict.go:75).        *)
AttemptsMatchRetries ==
    \A t \in Task :
        /\ queue[t] \in {"none", "pending", "retry"} => attempts[t] = retried[t]
        /\ queue[t] \in {"active", "archived"} => attempts[t] = retried[t] + 1
        /\ queue[t] = "archived" => retried[t] = MaxRetry
        /\ \A a \in Attempt : exec[t][a] # "off" => a <= attempts[t]

MayShowCanceled(t) ==
    \/ db[t] = "canceled"
    \/ cancel[t] = "mark"
    \/ \E u \in late : u.task = t /\ u.write = "canceled"

(* A task whose record says canceled, or that some handler is still going  *)
(* to mark so, has left the queue for good: cancelTask deletes the entry   *)
(* before it updates the record (server.go:117), whatever calls of it are  *)
(* lost, late or repeated.                                                 *)
CanceledIsDequeued ==
    \A t \in Task : MayShowCanceled(t) => queue[t] = "gone"

(* A deleted or finished entry never comes back: v1.go:134 enqueues under  *)
(* a fresh id, and the result of an attempt that asynq has given up cannot *)
(* retry the task (processor.go:70).                                       *)
GoneStaysGone == [][\A t \in Task : queue[t] = "gone" => queue'[t] = "gone"]_vars

(* How often the entry of t can still change: each attempt that is left    *)
(* takes it from retry to pending and to active.                           *)
ChangesLeft(t) ==
    LET retriesLeft == 3 * (MaxRetry - retried[t])
    IN  CASE queue[t] = "none"     -> 3 * MaxRetry + 4
          [] queue[t] = "retry"    -> retriesLeft + 4
          [] queue[t] = "pending"  -> retriesLeft + 3
          [] queue[t] = "active"   -> retriesLeft + 2
          [] queue[t] = "archived" -> 1
          [] OTHER                 -> 0

(* An entry never runs in circles: whatever is lost, late or interrupted,  *)
(* each change of an entry, by a worker, the recoverer, the forwarder, a   *)
(* deadline or a deletion, leaves fewer changes for it, so that it goes    *)
(* through 3 * MaxRetry + 4 of them at most (predict.go:75).               *)
EntriesAdvance ==
    [][\A t \in Task :
            <<queue[t], retried[t]>>' # <<queue[t], retried[t]>>
            => ChangesLeft(t)' < ChangesLeft(t)]_vars

(* Unless something failed on the way, a canceled task was never started   *)
(* and a task is never predicted twice: the cancel handler, the worker and *)
(* the request handler cannot both win the entry.                          *)
CanceledNeverRan ==
    \A t \in Task :
        t \notin disturbed /\ (db[t] = "canceled" \/ cancel[t] = "mark") => attempts[t] = 0

UndisturbedRunsOnce ==
    \A t \in Task : t \notin disturbed => attempts[t] <= 1 /\ retried[t] = 0

(* A cancel that was confirmed to the client stays: without a failure no   *)
(* worker, request handler or late result writes over it (server.go:128).  *)
ConfirmedCancelHolds ==
    \A t \in Task : cancel[t] = "ok" /\ t \notin disturbed => db[t] = "canceled"

(* Someone is going to move the record of t on.                            *)
Carrier(t) ==
    \/ req[t] = "enqueue"
    \/ queue[t] = "pending"
    \/ queue[t] = "active" /\ \E a \in Attempt : Attached(t, a)
    \/ cancel[t] = "mark"

(* No task is forgotten: as long as no call about it failed and no         *)
(* delete-all-pending removed it (which leaves the record pending,         *)
(* server.go:178), an unfinished record has a handler, a queue entry or a  *)
(* worker that will move it on.                                            *)
NoOrphan ==
    \A t \in Task :
        t \notin disturbed \cup purged /\ db[t] \in {"pending", "running"} => Carrier(t)

(* The id is given to the client only once the record exists and the entry *)
(* was enqueued, and unless a create was repeated late, the record holds   *)
(* the entry's QueueID (v1.go:146), so that the task can be canceled and   *)
(* checked from then on.                                                   *)
AcceptedIsLinked ==
    \A t \in Task :
        reply[t] = "ok" =>
            /\ db[t] # "none" /\ queue[t] # "none"
            /\ t \in linked \cup disturbed

(* The status column moves only as TaskLifecycle allows.                   *)
Lifecycle == INSTANCE TaskLifecycle WITH Birth <- {"pending"}, status <- db, hurt <- disturbed

LifecycleHolds == Lifecycle!LifecycleSpec

-----------------------------------------------------------------------------
(* Liveness.                                                               *)

(* Once the queue stays unpaused, every entry is worked off or archived,   *)
(* through retries, lost leases and crashes.                               *)
QueueDrains ==
    <>[](~paused) => \A t \in Task :
        queue[t] \in {"pending", "active", "retry"} ~> queue[t] \in {"gone", "archived"}

(* Once the queue stays unpaused, a task that nothing hurts and that no    *)
(* delete-all-pending removes reaches a terminal status.                   *)
UndisturbedSettles ==
    <>[](~paused) => \A t \in Task :
        db[t] = "pending" ~> (db[t] \in Terminal \/ t \in disturbed \cup purged)

-----------------------------------------------------------------------------
(* What the repository's documents say and the code does not do; each is   *)
(* the single property of a run in which TLC refutes it.                   *)

(* README.md:63, async step 6: "If any step failed, it will update the     *)
(* task record status to `failed` and return an error."  asyncPredict      *)
(* takes the entry out of the queue again when the QueueID update fails,   *)
(* but leaves the record pending (v1.go:147-154).                          *)
FailedRequestIsMarked ==
    \A t \in Task : reply[t] = "error" /\ queue[t] # "none" => db[t] = "failed"

=============================================================================
