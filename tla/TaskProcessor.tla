--------------------------- MODULE TaskProcessor ---------------------------
(***************************************************************************)
(* The asynq server and its handler ProcessTaskRunPrediction               *)
(* (worker/processor.go, worker/predict.go).  asynq runs the handler in a  *)
(* goroutine of its own; when the task's deadline passes it gives the      *)
(* entry back to the queue and forgets the goroutine, which runs on: the   *)
(* handler never looks at its context.  So several attempts of one task    *)
(* can be under way, only the last of which asynq still listens to.        *)
(***************************************************************************)
EXTENDS TaskStore

CONSTANTS
    Concurrency,   \* WORKER_CONCURRENCY
    SlowPlatform   \* whether a prediction, of a worker or of a waiting client, may
                   \* outlast TASK_TIMEOUT

ASSUME TaskProcessorAssumption ==
    /\ Concurrency \in Nat \ {0}
    /\ SlowPlatform \in BOOLEAN

Attempt == 1..(MaxRetry + 1)

VARIABLES
    attempts,   \* attempts of a task started so far
    exec        \* the stage of each attempt's goroutine

processorVars == <<attempts, exec>>

Stage == {"off", "start", "predict", "report ok", "report fail", "return ok", "return err"}

ProcessorTypeOK ==
    /\ attempts \in [Task -> 0..(MaxRetry + 1)]
    /\ exec \in [Task -> [Attempt -> Stage]]

ProcessorInit ==
    /\ attempts = [t \in Task |-> 0]
    /\ exec = [t \in Task |-> [a \in Attempt |-> "off"]]

Advance(t, a, stage) == exec' = [exec EXCEPT ![t] = [@ EXCEPT ![a] = stage]]

(* asynq still listens to attempt a of t.                                  *)
Attached(t, a) ==
    /\ queue[t] = "active"
    /\ attempts[t] = a
    /\ exec[t][a] # "off"

Busy == {t \in Task : \E a \in Attempt : Attached(t, a)}

Dequeue_OffByOne(t) ==  \* mutated form: one worker is never used
    /\ ~paused
    /\ queue[t] = "pending"
    /\ Cardinality(Busy) + 1 < Concurrency
    /\ queue' = [queue EXCEPT ![t] = "active"]
    /\ attempts' = [attempts EXCEPT ![t] = @ + 1]
    /\ Advance(t, attempts[t] + 1, "start")
    /\ UNCHANGED <<recordVars, retried, paused, faultVars>>

(* A free worker takes a pending entry.                                    *)
Dequeue(t) ==
    /\ ~paused
    /\ queue[t] = "pending"
    /\ Cardinality(Busy) < Concurrency
    /\ queue' = [queue EXCEPT ![t] = "active"]
    /\ attempts' = [attempts EXCEPT ![t] = @ + 1]
    /\ Advance(t, attempts[t] + 1, "start")
    /\ UNCHANGED <<recordVars, retried, paused, faultVars>>

SetRunning(t, a) ==
    /\ exec[t][a] = "start"
    /\ \/ CallDone(t, "running") /\ Advance(t, a, "predict")
       \/ CallFails(t, "running") /\ Advance(t, a, "return err")
    /\ UNCHANGED <<entryVars, paused, attempts>>

(* The platform answers or reports an error; a panic of its client is      *)
(* turned into an error of the attempt by asynq.                           *)
Predict(t, a) ==
    /\ exec[t][a] = "predict"
    /\ \/ Advance(t, a, "report ok") /\ UNCHANGED faultVars
       \/ Advance(t, a, "report fail") /\ UNCHANGED faultVars
       \/ Fault(t) /\ Advance(t, a, "return err")
    /\ UNCHANGED <<recordVars, entryVars, paused, attempts>>

Report_FailureReturned(t, a) ==  \* mutated form: a failed prediction is handed back to asynq
    /\ \/ /\ exec[t][a] = "report ok"
          /\ \/ CallDone(t, "succeeded") /\ Advance(t, a, "return ok")
             \/ CallFails(t, "succeeded") /\ Advance(t, a, "return err")
       \/ /\ exec[t][a] = "report fail"
          /\ CallDone(t, "failed") \/ CallFails(t, "failed")
          /\ Advance(t, a, "return err")
    /\ UNCHANGED <<entryVars, paused, attempts>>

(* A failed prediction is a finished task; only a failed webhook call is   *)
(* an error to asynq.                                                      *)
Report(t, a) ==
    /\ \/ /\ exec[t][a] = "report ok"
          /\ \/ CallDone(t, "succeeded") /\ Advance(t, a, "return ok")
             \/ CallFails(t, "succeeded") /\ Advance(t, a, "return err")
       \/ /\ exec[t][a] = "report fail"
          /\ \/ CallDone(t, "failed") /\ Advance(t, a, "return ok")
             \/ CallFails(t, "failed") /\ Advance(t, a, "return err")
    /\ UNCHANGED <<entryVars, paused, attempts>>

Finish_AnyAttempt(t, a) ==  \* mutated form: every attempt's result counts
    /\ exec[t][a] \in {"return ok", "return err"}
    /\ Advance(t, a, "off")
    /\ \/ /\ exec[t][a] = "return ok"
          /\ queue' = [queue EXCEPT ![t] = "gone"]
          /\ UNCHANGED retried
       \/ /\ exec[t][a] = "return err"
          /\ HandleFailed(t)
    /\ UNCHANGED <<recordVars, paused, faultVars, attempts>>

(* asynq acts on the result of the attempt it listens to, and on no other; *)
(* losing redis here leaves an active entry that nobody works on.          *)
Finish(t, a) ==
    /\ exec[t][a] \in {"return ok", "return err"}
    /\ Advance(t, a, "off")
    /\ \/ /\ Attached(t, a) /\ exec[t][a] = "return ok"
          /\ queue' = [queue EXCEPT ![t] = "gone"]
          /\ UNCHANGED <<retried, faultVars>>
       \/ /\ Attached(t, a) /\ exec[t][a] = "return err"
          /\ HandleFailed(t)
          /\ UNCHANGED faultVars
       \/ /\ Attached(t, a)
          /\ Fault(t)
          /\ UNCHANGED entryVars
       \/ /\ ~Attached(t, a)
          /\ UNCHANGED <<entryVars, faultVars>>
    /\ UNCHANGED <<recordVars, paused, attempts>>

(* TASK_TIMEOUT passes: the entry goes back, the goroutine runs on.        *)
Deadline(t) ==
    /\ SlowPlatform
    /\ \E a \in Attempt : Attached(t, a)
    /\ HandleFailed(t)
    /\ disturbed' = disturbed \cup {t}
    /\ UNCHANGED <<recordVars, paused, faults, processorVars>>

(* asynq's forwarder: the delay of a retry is over.                        *)
RetryDue(t) ==
    /\ queue[t] = "retry"
    /\ queue' = [queue EXCEPT ![t] = "pending"]
    /\ UNCHANGED <<recordVars, retried, paused, faultVars, processorVars>>

RecoverLease_Requeued(t) ==  \* mutated form: a lost lease is not counted as an attempt
    /\ queue[t] = "active"
    /\ ~ \E a \in Attempt : Attached(t, a)
    /\ queue' = [queue EXCEPT ![t] = "pending"]
    /\ UNCHANGED <<recordVars, retried, paused, faultVars, processorVars>>

(* asynq's recoverer: the lease of an entry nobody works on has expired.   *)
RecoverLease(t) ==
    /\ queue[t] = "active"
    /\ ~ \E a \in Attempt : Attached(t, a)
    /\ HandleFailed(t)
    /\ UNCHANGED <<recordVars, paused, faultVars, processorVars>>

AttemptStep(t, a) == SetRunning(t, a) \/ Predict(t, a) \/ Report(t, a) \/ Finish(t, a)

ProcessorStep(t) ==
    \/ Dequeue(t) \/ Deadline(t) \/ RetryDue(t) \/ RecoverLease(t)
    \/ \E a \in Attempt : AttemptStep(t, a)

=============================================================================
