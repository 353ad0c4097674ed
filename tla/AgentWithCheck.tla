--------------------------- MODULE AgentWithCheck ---------------------------
(***************************************************************************)
(* The whole agent: the asynchronous part of AsyncAgent, the synchronous   *)
(* predictions, and the periodic check (ENABLE_PERIODIC_CHECK,             *)
(* main.go:140), which looks at the records of both.  An id is drawn by    *)
(* one request, so a task is either asynchronous or synchronous.           *)
(***************************************************************************)
EXTENDS AsyncAgent, SyncPredict, StatusCheck

allVars == <<vars, sync, checkVars>>

CheckedInit == Init /\ SyncInit /\ CheckInit

ElsewhereThanStore == <<requestVars, processorVars, controlVars, crashes>>

Asleep(t) == req[t] = "idle" /\ sync[t] = "idle"

AgentStep ==
    /\ \/ Services \/ Control
       \/ \E t \in Task : (Asleep(t) /\ Arrive(t)) \/ Handle(t) \/ Process(t)
    /\ UNCHANGED <<sync, checkVars>>

Sync(t) ==
    /\ (Asleep(t) /\ SyncArrive(t)) \/ SyncStep(t)
    /\ UNCHANGED <<ElsewhereThanStore, checkVars>>

WakeUp_TooEarly ==  \* mutated form: the check does not wait
    /\ Wake
    /\ UNCHANGED <<ElsewhereThanStore, sync>>

(* A handler that was under way when its record was listed needs less than *)
(* TASK_TIMEOUT for its remaining calls: so it is assumed, nothing in the  *)
(* code compares the two.  The same goes for a synchronous prediction      *)
(* unless SlowPlatform: nothing limits one to TASK_TIMEOUT, and a stream   *)
(* lasts as long as its client keeps it waiting.                           *)
WakeUp ==
    /\ Wake
    /\ \A s \in Unsettled : \A t \in listed[s] :
          /\ req[t] \in {"idle", "done"}
          /\ SlowPlatform \/ sync[t] \in {"idle"} \cup SyncDone
    /\ UNCHANGED <<ElsewhereThanStore, sync>>

Check == WakeUp \/ (CheckStep /\ UNCHANGED <<ElsewhereThanStore, sync>>)

Restart ==
    /\ Crash
    /\ sync' = [t \in Task |-> IF sync[t] \in {"idle"} \cup SyncDone THEN sync[t] ELSE "lost"]
    /\ phase' = "idle"
    /\ target' = NoTask
    /\ archived' = {}
    /\ listed' = [s \in Unsettled |-> {}]
    /\ unfinished' = {}

CheckedNext == AgentStep \/ (\E t \in Task : Sync(t)) \/ Check \/ Restart

CheckedSpec == CheckedInit /\ [][CheckedNext]_allVars

(* The ticker starts a check every thirty minutes, and every check ends.   *)
(* A synchronous prediction is bound to end only where it ends within      *)
(* TASK_TIMEOUT: a client that stops reading its stream can hold it for    *)
(* ever (kserve.go:138).                                                   *)
CheckedFairness ==
    /\ \A t \in Task :
        /\ WF_allVars(Handle(t) /\ UNCHANGED <<sync, checkVars>>)
        /\ WF_allVars(WorkOn(t) /\ UNCHANGED <<sync, checkVars>>)
        /\ WF_allVars(FinishCancel(t) /\ UNCHANGED <<sync, checkVars>>)
        /\ WF_allVars(/\ SyncCreate(t) \/ SyncReport(t) \/ SyncRead(t)
                      /\ UNCHANGED <<ElsewhereThanStore, checkVars>>)
        /\ WF_allVars(/\ ~SlowPlatform
                      /\ SyncRun(t)
                      /\ UNCHANGED <<ElsewhereThanStore, checkVars>>)
    /\ WF_allVars(Check)

CheckedFairSpec == CheckedSpec /\ CheckedFairness

-----------------------------------------------------------------------------
(* Every variable of the agent and of the check has its type.              *)
CheckedTypeOK == AgentTypeOK /\ SyncTypeOK /\ CheckTypeOK

(* A synchronous request whose agent died while its client was waiting.    *)
Abandoned == {t \in Task : sync[t] = "lost"}

Hurt == disturbed \cup Abandoned

CanceledOrPurged == purged \cup {t \in Task : cancel[t] \in {"mark", "ok"}}

(* The check never condemns a healthy task: one that no failure hurt, that *)
(* delete-all-pending did not take out of the queue and that nobody has    *)
(* canceled meanwhile - provided every listing fits its one page of        *)
(* MAX_QUEUE_SIZE entries (distributor.go:101) and predictions end within  *)
(* TASK_TIMEOUT.  It takes the wait before the listing (279) and the order *)
(* in which the entries are listed; a synchronous task has no entry at     *)
(* all, only the wait saves it.                                            *)
HealthyTaskSpared ==
    Cardinality(Task) <= MaxQueueSize /\ ~SlowPlatform =>
        \A t \in Task : target = t => t \in Hurt \cup CanceledOrPurged

(* The check is needed for tasks that a failure has hurt, and for those    *)
(* that delete-all-pending took out of the queue (server.go:178), but for  *)
(* no others: any other unfinished record has a handler of either kind, an *)
(* entry, a worker or a cancel that will move it on, whatever the check    *)
(* has overwritten by mistake (distributor.go:102, 312).                   *)
CheckedNoOrphan ==
    \A t \in Task :
        t \notin Hurt \cup purged /\ db[t] \in Unsettled =>
            Carrier(t) \/ sync[t] \in {"predict", "record ok", "record fail"}

(* The check may write over a confirmed cancel (distributor.go:312), but   *)
(* never so that the task would be taken for running or succeeded: what    *)
(* the client has canceled did not run, and the record does not say so.    *)
CheckedCancelHolds ==
    \A t \in Task :
        cancel[t] = "ok" /\ t \notin disturbed =>
            db[t] \in {"canceled", "failed"} /\ attempts[t] = 0

(* With the check and the synchronous predictions running the records      *)
(* still move as TaskLifecycle allows, except those of tasks that were     *)
(* canceled or deleted in bulk: there the check races with the handler.    *)
CheckedLifecycle ==
    INSTANCE TaskLifecycle
        WITH Birth <- {"pending", "running"}, status <- db, hurt <- Hurt \cup CanceledOrPurged

CheckedLifecycleHolds == CheckedLifecycle!LifecycleSpec

(* A client that waited for its result and got one can rely on it: unless  *)
(* a failure hurt the task its record says succeeded, and no check, cancel *)
(* or delete-all-pending has touched it (v1.go:62-74, 217) - provided      *)
(* predictions end within TASK_TIMEOUT: only the wait keeps the check off. *)
SyncResultStands ==
    ~SlowPlatform =>
        \A t \in Task : sync[t] = "ok" /\ t \notin Hurt => db[t] = "succeeded"

(* Whom the check has found among the archived entries.                    *)
GivenUp(t) == t \in archived \/ (phase = "drop" /\ target = t)

(* A task that the check has found archived, and whose record it therefore *)
(* fails and whose entry it drops one call at a time, is not attempted     *)
(* again, whatever workers, cancels and crashes do between the listing and *)
(* those calls (distributor.go:160, 177, 189).                             *)
GivenUpNeverRuns == [][\A t \in Task : GivenUp(t) => attempts'[t] = attempts[t]]_allVars

(* Every record settles: whatever was lost, expired, died or was deleted   *)
(* on the way, once the queue stays unpaused a pending or running row of   *)
(* the database reaches a terminal status.                                 *)
EveryRecordSettles ==
    <>[](~paused) => \A t \in Task : db[t] \in Unsettled ~> db[t] \in Terminal

-----------------------------------------------------------------------------
(* What the comments say and the code does not do; each is the single      *)
(* property of a run in which TLC refutes it.                              *)

(* distributor.go:251-252: "Check if the task ids are not in the task      *)
(* queue [...] If yes, then set the status to `failed`."  Each list is cut *)
(* off after MAX_QUEUE_SIZE entries, and the queue can hold more.          *)
CondemnedIsDequeued ==
    \A t \in Task :
        phase = "fail" /\ target = t => queue[t] \notin {"pending", "retry", "active"}

(* The same comment: "and the status isn't changed".  The record is read   *)
(* before it is written (distributor.go:299, 316), and in between a cancel *)
(* can be confirmed, which the check then overwrites.                      *)
CondemnedIsUnchanged ==
    \A t \in Task : phase = "fail" /\ target = t => db[t] \in Unsettled

(* distributor.go:248: the check is for "tasks remaining in                *)
(* pending/running status in database due to service failures".  It takes  *)
(* a synchronous prediction that outlasts TASK_TIMEOUT for one: such a     *)
(* task is in no queue (312), and nothing bounds it by TASK_TIMEOUT.       *)
OnlyFailuresCondemned ==
    \A t \in Task : target = t => t \in Hurt \cup CanceledOrPurged

=============================================================================
