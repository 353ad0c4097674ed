---------------------------- MODULE SyncPredict ----------------------------
(***************************************************************************)
(* The handlers of POST /v1/predict and /v1/generate (api/v1.go, predict   *)
(* and generate): the client waits while the handler runs the prediction   *)
(* itself.  The record is born running, never gets a QueueID and is in no  *)
(* queue.  The two handlers differ in how the client gets its result:      *)
(* predict reads it back from the webhook service, generate has streamed   *)
(* it by then.                                                             *)
(***************************************************************************)
EXTENDS TaskStore

VARIABLE
    sync   \* the next call of the handler, then what its client was told

SyncDone == {"ok", "error", "lost"}

SyncStage == {"idle", "create", "predict", "record ok", "record fail", "read"} \cup SyncDone

SyncTypeOK == sync \in [Task -> SyncStage]

SyncInit == sync = [t \in Task |-> "idle"]

SyncGoto(t, stage) == sync' = [sync EXCEPT ![t] = stage]

SyncArrive(t) ==
    /\ sync[t] = "idle"
    /\ SyncGoto(t, "create")
    /\ UNCHANGED storeVars

SyncCreate(t) ==
    /\ sync[t] = "create"
    /\ \/ CallDone(t, "create running") /\ SyncGoto(t, "predict")
       \/ CallFails(t, "create running") /\ SyncGoto(t, "error")
    /\ UNCHANGED <<entryVars, paused>>

(* A panic of the platform's client ends the handler: gin recovers it and  *)
(* answers 500, and nobody is left to move the record on.                  *)
SyncRun(t) ==
    /\ sync[t] = "predict"
    /\ \/ SyncGoto(t, "record ok") /\ UNCHANGED faultVars
       \/ SyncGoto(t, "record fail") /\ UNCHANGED faultVars
       \/ Fault(t) /\ SyncGoto(t, "error")
    /\ UNCHANGED <<recordVars, entryVars, paused>>

SyncReport_FallsThrough(t) ==  \* mutated form: a failed prediction is reported like a result
    /\ \/ /\ sync[t] = "record ok"
          /\ \/ /\ CallDone(t, "succeeded")
                /\ SyncGoto(t, "read") \/ SyncGoto(t, "ok")
             \/ CallFails(t, "succeeded") /\ SyncGoto(t, "error")
       \/ /\ sync[t] = "record fail"
          /\ CallDone(t, "failed") \/ CallFails(t, "failed")
          /\ SyncGoto(t, "read")
    /\ UNCHANGED <<entryVars, paused>>

(* That a failed prediction could not be recorded is only logged; a result *)
(* that could not be recorded is an error to the client.                   *)
SyncReport(t) ==
    /\ \/ /\ sync[t] = "record ok"
          /\ \/ /\ CallDone(t, "succeeded")
                /\ SyncGoto(t, "read") \/ SyncGoto(t, "ok")
             \/ CallFails(t, "succeeded") /\ SyncGoto(t, "error")
       \/ /\ sync[t] = "record fail"
          /\ CallDone(t, "failed") \/ CallFails(t, "failed")
          /\ SyncGoto(t, "error")
    /\ UNCHANGED <<entryVars, paused>>

SyncRead(t) ==
    /\ sync[t] = "read"
    /\ \/ cache[t] # "none" /\ SyncGoto(t, "ok") /\ UNCHANGED faultVars
       \/ cache[t] = "none" /\ SyncGoto(t, "error") /\ UNCHANGED faultVars
       \/ ReadLost /\ SyncGoto(t, "error")
    /\ UNCHANGED <<recordVars, entryVars, paused>>

SyncStep(t) == SyncCreate(t) \/ SyncRun(t) \/ SyncReport(t) \/ SyncRead(t)

=============================================================================
