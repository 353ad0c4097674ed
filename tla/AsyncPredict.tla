---------------------------- MODULE AsyncPredict ----------------------------
(***************************************************************************)
(* The handler of POST /async/v1/predict (api/v1.go, asyncPredict): each   *)
(* request draws a fresh id, so a request and its task share one name.     *)
(* Handlers of different requests run concurrently; between two calls of   *)
(* one handler anything else may happen.                                   *)
(***************************************************************************)
EXTENDS TaskStore

VARIABLES
    req,    \* the next call of the handler
    reply   \* what the client was told; "lost" when the agent died first

requestVars == <<req, reply>>

RequestStage == {"idle", "create", "enqueue", "mark failed", "link", "unlink", "done"}

Reply == {"none", "ok", "error", "full", "lost"}

RequestTypeOK ==
    /\ req \in [Task -> RequestStage]
    /\ reply \in [Task -> Reply]

RequestInit ==
    /\ req = [t \in Task |-> "idle"]
    /\ reply = [t \in Task |-> "none"]

Goto(t, stage) ==
    /\ req' = [req EXCEPT ![t] = stage]
    /\ UNCHANGED reply

Answer(t, r) ==
    /\ req' = [req EXCEPT ![t] = "done"]
    /\ reply' = [reply EXCEPT ![t] = r]

(* The size of the queue is read once, before the record is created; when  *)
(* it cannot be read the request is let through.                           *)
Admit(t) ==
    /\ req[t] = "idle"
    /\ \/ /\ QueueSize >= MaxQueueSize
          /\ Answer(t, "full")
          /\ UNCHANGED faultVars
       \/ /\ QueueSize < MaxQueueSize
          /\ Goto(t, "create")
          /\ UNCHANGED faultVars
       \/ /\ ReadLost
          /\ Goto(t, "create")
    /\ UNCHANGED <<recordVars, entryVars, paused>>

(* CreateNewTask; an answer that is not JSON fails the request as well,    *)
(* although the record exists.                                             *)
Create(t) ==
    /\ req[t] = "create"
    /\ \/ CallDone(t, "create") /\ Goto(t, "enqueue")
       \/ CallFails(t, "create") /\ Answer(t, "error")
    /\ UNCHANGED <<entryVars, paused>>

Enqueue_Unlinked(t) ==  \* mutated form: the QueueID is not recorded
    /\ req[t] = "enqueue"
    /\ \/ Enqueued(t) /\ Answer(t, "ok")
       \/ EnqueueLost(t) /\ Goto(t, "mark failed")
    /\ UNCHANGED <<recordVars, paused>>

Enqueue(t) ==
    /\ req[t] = "enqueue"
    /\ \/ Enqueued(t) /\ Goto(t, "link")
       \/ EnqueueLost(t) /\ Goto(t, "mark failed")
    /\ UNCHANGED <<recordVars, paused>>

MarkFailed(t) ==
    /\ req[t] = "mark failed"
    /\ CallDone(t, "failed") \/ CallFails(t, "failed")
    /\ Answer(t, "error")
    /\ UNCHANGED <<entryVars, paused>>

(* The queue entry exists by now and may already run while its QueueID is  *)
(* being recorded.                                                         *)
Link(t) ==
    /\ req[t] = "link"
    /\ \/ CallDone(t, "link") /\ Answer(t, "ok")
       \/ CallFails(t, "link") /\ Goto(t, "unlink")
    /\ UNCHANGED <<entryVars, paused>>

(* Takes the entry out of the queue again; the record is left as it is.    *)
Unlink(t) ==
    /\ req[t] = "unlink"
    /\ Deleted(t) \/ DeleteFails(t)
    /\ Answer(t, "error")
    /\ UNCHANGED <<recordVars, paused>>

RequestStep(t) == Create(t) \/ Enqueue(t) \/ MarkFailed(t) \/ Link(t) \/ Unlink(t)

=============================================================================
