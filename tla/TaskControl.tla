---------------------------- MODULE TaskControl ----------------------------
(***************************************************************************)
(* The management handlers of api/server.go that change state: POST        *)
(* /cancel/{id}, /delete_pending, /pause_queue and /unpause_queue.         *)
(***************************************************************************)
EXTENDS TaskStore

VARIABLES
    cancel,   \* the next call of a cancel handler; "ok" once one succeeded
    purge,    \* tasks a delete-all-pending handler has still to visit
    purged    \* history: tasks whose queue entry that handler removed

controlVars == <<cancel, purge, purged>>

CancelStage == {"idle", "delete", "mark", "ok"}

ControlTypeOK ==
    /\ cancel \in [Task -> CancelStage]
    /\ purge \subseteq Task
    /\ purged \subseteq Task

ControlInit ==
    /\ cancel = [t \in Task |-> "idle"]
    /\ purge = {}
    /\ purged = {}

CancelGoto(t, stage) ==
    /\ cancel' = [cancel EXCEPT ![t] = stage]
    /\ UNCHANGED <<purge, purged>>

(* GetTaskInfoObject supplies the QueueID; without one DeleteTask refuses, *)
(* and without a record there is nothing to delete: either way the handler *)
(* has changed nothing and the client may ask again.                       *)
CancelLookup(t) ==
    /\ cancel[t] = "idle"
    /\ cache[t] # "none" /\ t \in linked
    /\ CancelGoto(t, "delete")
    /\ UNCHANGED storeVars

CancelDelete_ErrorIgnored(t) ==  \* mutated form: the refusal of DeleteTask is ignored
    /\ cancel[t] = "delete"
    /\ Deleted(t) \/ DeleteFails(t)
    /\ CancelGoto(t, "mark")
    /\ UNCHANGED <<recordVars, paused>>

CancelDelete_Unmarked(t) ==  \* mutated form: the record is not updated any more
    /\ cancel[t] = "delete"
    /\ \/ Deleted(t) /\ CancelGoto(t, "ok")
       \/ DeleteFails(t) /\ CancelGoto(t, "idle")
    /\ UNCHANGED <<recordVars, paused>>

CancelDelete(t) ==
    /\ cancel[t] = "delete"
    /\ \/ Deleted(t) /\ CancelGoto(t, "mark")
       \/ DeleteFails(t) /\ CancelGoto(t, "idle")
    /\ UNCHANGED <<recordVars, paused>>

CancelMark(t) ==
    /\ cancel[t] = "mark"
    /\ \/ CallDone(t, "canceled") /\ CancelGoto(t, "ok")
       \/ CallFails(t, "canceled") /\ CancelGoto(t, "idle")
    /\ UNCHANGED <<entryVars, paused>>

(* deleteAllPendingTasks works from one list of the pending records.       *)
PurgeList ==
    /\ purge = {}
    /\ purge' = {t \in Task : db[t] = "pending"}
    /\ UNCHANGED <<storeVars, cancel, purged>>

(* A record that cannot be read, has no QueueID, or whose entry cannot be  *)
(* deleted is skipped; the status of a deleted one is not updated.         *)
PurgeDelete(t) ==
    /\ t \in purge
    /\ purge' = purge \ {t}
    /\ \/ /\ cache[t] # "none" /\ t \in linked
          /\ \/ Deleted(t) /\ purged' = purged \cup {t}
             \/ DeleteFails(t) /\ UNCHANGED purged
       \/ /\ cache[t] = "none" \/ t \notin linked
          /\ UNCHANGED <<entryVars, faultVars, purged>>
       \/ /\ ReadLost
          /\ UNCHANGED <<entryVars, purged>>
    /\ UNCHANGED <<recordVars, paused, cancel>>

PauseQueue ==
    /\ ~paused
    /\ paused' = TRUE
    /\ UNCHANGED <<recordVars, entryVars, faultVars, controlVars>>

UnpauseQueue ==
    /\ paused
    /\ paused' = FALSE
    /\ UNCHANGED <<recordVars, entryVars, faultVars, controlVars>>

CancelStep(t) == CancelLookup(t) \/ CancelDelete(t) \/ CancelMark(t)

ControlStep ==
    \/ \E t \in Task : CancelStep(t) \/ PurgeDelete(t)
    \/ PurgeList \/ PauseQueue \/ UnpauseQueue

=============================================================================
