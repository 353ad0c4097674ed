---------------------------- MODULE StatusCheck ----------------------------
(***************************************************************************)
(* The periodic check (api/server.go, PeriodicCheck): CheckArchivedTasks   *)
(* and CheckTaskStatus of worker/distributor.go, one goroutine that lists  *)
(* records and entries one after the other, and acts on what it listed.    *)
(* Modelled for an agent whose MODEL_NAME is set.                          *)
(***************************************************************************)
EXTENDS TaskStore

CONSTANT NoTask

ASSUME StatusCheckAssumption == NoTask \notin Task

VARIABLES
    phase,        \* what the goroutine does next
    target,       \* the task it has read and is about to write or delete
    archived,     \* archived entries still to be handled
    listed,       \* record ids listed as pending and as running
    unfinished    \* queue ids seen in the queue

checkVars == <<phase, target, archived, listed, unfinished>>

Phase == {"idle", "archived", "drop", "records pending", "records running", "sleep",
          "entries pending", "entries retry", "entries active", "check", "fail",
          "fail in database"}

Unsettled == {"pending", "running"}

CheckTypeOK ==
    /\ phase \in Phase
    /\ target \in Task \cup {NoTask}
    /\ archived \subseteq Task
    /\ listed \in [Unsettled -> SUBSET Task]
    /\ unfinished \subseteq Task

CheckInit ==
    /\ phase = "idle"
    /\ target = NoTask
    /\ archived = {}
    /\ listed = [s \in Unsettled |-> {}]
    /\ unfinished = {}

UnchangedStore == UNCHANGED <<recordVars, entryVars, paused>>

-----------------------------------------------------------------------------
(* CheckArchivedTasks.                                                     *)

CheckBegin_RetryToo ==  \* mutated form: entries that wait for a retry are listed as well
    /\ phase = "idle"
    /\ phase' = "archived"
    /\ \/ ListsEntries("archived", archived') \/ ListsEntries("retry", archived')
    /\ UnchangedStore
    /\ UNCHANGED <<target, listed, unfinished>>

CheckBegin ==
    /\ phase = "idle"
    /\ phase' = "archived"
    /\ ListsEntries("archived", archived')
    /\ UnchangedStore
    /\ UNCHANGED <<target, listed, unfinished>>

(* The record is marked failed whatever its status; an entry whose record  *)
(* cannot be updated is kept for twelve hours, then deleted all the same.  *)
MarkArchived(t) ==
    /\ phase = "archived"
    /\ t \in archived
    /\ archived' = archived \ {t}
    /\ \/ CallDone(t, "failed") /\ phase' = "drop" /\ target' = t
       \/ CallFails(t, "failed") /\ phase' = "drop" /\ target' = t
       \/ CallFails(t, "failed") /\ UNCHANGED <<phase, target>>
    /\ UNCHANGED <<entryVars, paused, listed, unfinished>>

DropArchived(t) ==
    /\ phase = "drop"
    /\ target = t
    /\ Deleted(t) \/ DeleteFails(t)
    /\ phase' = "archived"
    /\ target' = NoTask
    /\ UNCHANGED <<recordVars, paused, archived, listed, unfinished>>

ArchivedDone ==
    /\ phase = "archived"
    /\ archived = {}
    /\ phase' = "records pending"
    /\ UNCHANGED <<storeVars, target, archived, listed, unfinished>>

-----------------------------------------------------------------------------
(* CheckTaskStatus.                                                        *)

(* An answer other than 200 counts as an empty list.                       *)
ListRecords(s, next) ==
    /\ \/ listed' = [listed EXCEPT ![s] = {t \in Task : db[t] = s}] /\ UNCHANGED faultVars
       \/ listed' = [listed EXCEPT ![s] = {}] /\ ReadLost
    /\ phase' = next
    /\ UnchangedStore
    /\ UNCHANGED <<target, archived, unfinished>>

ListRecordsStep ==
    \/ phase = "records pending" /\ ListRecords("pending", "records running")
    \/ phase = "records running" /\ ListRecords("running", "sleep")

(* TASK_TIMEOUT passes, unless nothing was listed.                         *)
Wake ==
    /\ phase = "sleep"
    /\ phase' = "entries pending"
    /\ unfinished' = {}
    /\ UNCHANGED <<storeVars, target, archived, listed>>

ListEntries(state, next) ==
    /\ \E found \in SUBSET Task :
          /\ ListsEntries(state, found)
          /\ unfinished' = unfinished \cup found
    /\ phase' = next
    /\ UnchangedStore
    /\ UNCHANGED <<target, archived, listed>>

ListUnfinished_ActiveFirst ==  \* mutated form: the active entries are listed first
    \/ phase = "entries pending" /\ ListEntries("active", "entries retry")
    \/ phase = "entries retry" /\ ListEntries("retry", "entries active")
    \/ phase = "entries active" /\ ListEntries("pending", "check")

(* ListUnfinishedTasks: pending, retry and active entries, in this order.  *)
ListUnfinished ==
    \/ phase = "entries pending" /\ ListEntries("pending", "entries retry")
    \/ phase = "entries retry" /\ ListEntries("retry", "entries active")
    \/ phase = "entries active" /\ ListEntries("active", "check")

Missing_LinkedOnly(t) ==  \* mutated form: a record without a QueueID is skipped
    t \in linked \ unfinished

(* An empty QueueID is in no list.                                         *)
Missing(t) == t \notin linked \cap unfinished

(* The pending ids are checked before the running ones; the record is read *)
(* here and written by a later call.                                       *)
CheckRecord(s, t) ==
    /\ phase = "check"
    /\ t \in listed[s]
    /\ s = "running" => listed["pending"] = {}
    /\ listed' = [listed EXCEPT ![s] = @ \ {t}]
    /\ \/ /\ cache[t] = s /\ Missing(t)
          /\ phase' = "fail" /\ target' = t
          /\ UNCHANGED faultVars
       \/ /\ cache[t] # "none"
          /\ ~(cache[t] = s /\ Missing(t))
          /\ UNCHANGED <<phase, target, faultVars>>
       \/ /\ cache[t] = "none"
          /\ phase' = "fail in database" /\ target' = t
          /\ UNCHANGED faultVars
       \/ /\ Fault(t)
          /\ phase' = "fail in database" /\ target' = t
    /\ UnchangedStore
    /\ UNCHANGED <<archived, unfinished>>

FailRecord(t, from, write) ==
    /\ phase = from
    /\ target = t
    /\ CallDone(t, write) \/ CallFails(t, write)
    /\ phase' = "check"
    /\ target' = NoTask
    /\ UNCHANGED <<entryVars, paused, archived, listed, unfinished>>

FailMissing(t) == FailRecord(t, "fail", "failed")

FailExpired_Plain(t) ==  \* mutated form: DatabaseOnly is not set
    FailRecord(t, "fail in database", "failed")

FailExpired(t) == FailRecord(t, "fail in database", "failed in database")

CheckDone ==
    /\ phase = "check"
    /\ \A s \in Unsettled : listed[s] = {}
    /\ phase' = "idle"
    /\ unfinished' = {}
    /\ UNCHANGED <<storeVars, target, archived, listed>>

CheckOne(t) ==
    \/ MarkArchived(t) \/ DropArchived(t)
    \/ \E s \in Unsettled : CheckRecord(s, t)
    \/ FailMissing(t) \/ FailExpired(t)

CheckStep ==
    \/ CheckBegin \/ ArchivedDone \/ ListRecordsStep
    \/ ListUnfinished \/ CheckDone
    \/ \E t \in Task : CheckOne(t)

=============================================================================
