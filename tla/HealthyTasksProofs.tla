------------------------- MODULE HealthyTasksProofs -------------------------
(***************************************************************************)
(* The agent with its check: what the check never does to a healthy task,  *)
(* and that the whole implements TaskLifecycle, whatever the number of     *)
(* tasks, failures and restarts.                                           *)
(***************************************************************************)
EXTENDS AgentWithCheckProofs, FiniteSetTheorems

(* A cancel handler at work on a task has a record to work on.             *)
CancelHasRecord == \A t \in Task : t \notin disturbed /\ cancel[t] # "idle" => cache[t] # "none"

(* What is listed exists.                                                  *)
ListedExist == \A s \in Unsettled : \A t \in listed[s] : db[t] # "none"

(* The condition of HealthyTaskSpared.                                     *)
Fits == Cardinality(Task) <= MaxQueueSize /\ ~SlowPlatform

(* The tasks whose shape the check keeps: those no request has been made   *)
(* for, and the asynchronous ones that nobody has taken out of the queue.  *)
Kept(t) == Asleep(t) \/ (Fits /\ sync[t] = "idle" /\ t \notin CanceledOrPurged)

KeptShape ==
    \A t \in Task : t \notin disturbed /\ Kept(t) => Shape(t) /\ t \notin archived /\ target # t

(* The life of a synchronous task; it meets no queue and no other handler. *)
SyncShape(t) ==
    /\ req[t] = "idle" /\ cancel[t] = "idle" /\ t \notin linked
    /\ \A a \in Attempt : exec[t][a] = "off"
    /\ \A u \in late : u.task # t
    /\ cache[t] = db[t]
    /\ t \notin archived /\ target # t
    /\ \/ sync[t] = "create" /\ db[t] = "none"
       \/ sync[t] \in {"predict", "record ok", "record fail"} /\ db[t] = "running"
       \/ sync[t] \in {"read", "ok"} /\ db[t] = "succeeded"
       \/ sync[t] = "error" /\ db[t] \in {"succeeded", "failed"}

SyncShapes == ~SlowPlatform => \A t \in Task : sync[t] # "idle" /\ t \notin Hurt => SyncShape(t)

(* The check has slept and not yet handled all that it had listed.         *)
Woken ==
    phase \in {"entries pending", "entries retry", "entries active", "check", "fail",
               "fail in database"}

(* After the sleep no handler is at work on a listed task any more.        *)
Rested(t) == req[t] = "done" \/ SlowPlatform \/ sync[t] \in SyncDone

ListedRested == Woken => \A s \in Unsettled : \A t \in listed[s] : t \notin Hurt => Rested(t)

(* An entry is in a list the check has read, in one it has still to read,  *)
(* or has left the queue.                                                  *)
Found(t) ==
    \/ queue[t] = "gone"
    \/ /\ queue[t] = "active"
       /\ phase \in {"entries pending", "entries retry", "entries active"} \/ t \in unfinished
    \/ /\ queue[t] = "pending"
       /\ phase = "entries pending" \/ t \in unfinished

ListedFound ==
    Woken => \A s \in Unsettled : \A t \in listed[s] : t \notin disturbed /\ Kept(t) => Found(t)

CheckInv ==
    /\ AgentAndCheckTyped
    /\ CancelHasRecord /\ ListedExist
    /\ KeptShape /\ SyncShapes /\ ListedRested /\ ListedFound

-----------------------------------------------------------------------------
(* How health is lost.                                                     *)

(* What may become of a task in one step: its record does not vanish, a    *)
(* request is made once and answered once, a cancel under way comes to its *)
(* end unless a failure stops it.                                          *)
Onward(t) ==
    /\ db[t] # "none" => db'[t] # "none"
    /\ cache[t] # "none" => cache'[t] # "none" \/ t \in disturbed'
    /\ req'[t] = "idle" => req[t] = "idle"
    /\ req[t] = "done" => req'[t] = "done"
    /\ sync'[t] = "idle" => sync[t] = "idle"
    /\ sync[t] \in SyncDone => sync'[t] = sync[t]
    /\ cancel[t] = "ok" => cancel'[t] = "ok"
    /\ cancel'[t] # "idle" => cancel[t] # "idle" \/ cache'[t] # "none"
    /\ cancel[t] = "mark" /\ cache[t] # "none" =>
          cancel'[t] \in {"mark", "ok"} \/ t \in disturbed'

(* A webhook call removes no record.                                       *)
LEMMA CallKeepsRecords ==
    ASSUME Typed, NEW t \in Task, NEW w \in Write, CallDone(t, w) \/ CallFails(t, w)
    PROVE  /\ db[t] # "none" => db'[t] # "none"
           /\ cache[t] # "none" => cache'[t] # "none"
           /\ disturbed \subseteq disturbed'
<1>1. disturbed \subseteq disturbed'
  BY DEF CallDone, CallFails, CallRefused, CallLost, Lingers, Fault, faultVars
<1>2. CASE CallFails(t, w)
  BY <1>1, <1>2 DEF CallFails, CallRefused, CallLost, recordVars
<1>3. CASE Carry(t, w)
  BY <1>1, <1>3 DEF Carry, After, Write, Creation, Typed
<1> QED BY <1>2, <1>3 DEF CallDone

(* A request handler goes on until it has answered.                        *)
LEMMA RequestOnward ==
    ASSUME IInv, NEW t \in Task, Arrive(t) \/ Handle(t), sync' = sync
    PROVE  Onward(t) /\ disturbed \subseteq disturbed' /\ purged \subseteq purged'
<1>1. Typed /\ UNCHANGED <<cancel, purged>>
  BY TypesOfState DEF IInv, Arrive, Handle, controlVars
<1>2. req[t] # "done" /\ req'[t] # "idle"
  BY <1>1
  DEF Typed, Arrive, Handle, Admit, RequestStep, Create, Enqueue, MarkFailed, Link, Unlink, Goto,
      Answer
<1>3. /\ db[t] # "none" => db'[t] # "none"
      /\ cache[t] # "none" => cache'[t] # "none"
      /\ disturbed \subseteq disturbed'
  <2>1. CASE Create(t) \/ MarkFailed(t) \/ Link(t)
    BY <1>1, <2>1, CallKeepsRecords DEF Create, MarkFailed, Link, Write, Creation
  <2>2. CASE Admit(t) \/ Enqueue(t) \/ Unlink(t)
    BY <2>2
    DEF Admit, ReadLost, faultVars, Enqueue, Enqueued, EnqueueLost, Unlink, Deleted, DeleteFails,
        DeleteRefused, DeleteLost, Fault, recordVars
  <2> QED BY <2>1, <2>2 DEF Arrive, Handle, RequestStep
<1> QED BY <1>1, <1>2, <1>3 DEF Onward

(* The task processor touches records by webhook calls only.               *)
LEMMA ProcessOnward ==
    ASSUME IInv, NEW t \in Task, Process(t), sync' = sync
    PROVE  Onward(t) /\ disturbed \subseteq disturbed' /\ purged \subseteq purged'
<1>1. Typed /\ UNCHANGED <<req, cancel, purged>>
  BY TypesOfState DEF IInv, Process, requestVars, controlVars
<1>2. \/ \E w \in Write : CallDone(t, w) \/ CallFails(t, w)
      \/ UNCHANGED recordVars /\ disturbed \subseteq disturbed'
  BY DEF Process, ProcessorStep, AttemptStep, SetRunning, Predict, Report, Finish, Dequeue,
         Deadline, RetryDue, RecoverLease, Fault, faultVars, Write, Creation
<1>3. /\ db[t] # "none" => db'[t] # "none"
      /\ cache[t] # "none" => cache'[t] # "none"
      /\ disturbed \subseteq disturbed'
  BY <1>1, <1>2, CallKeepsRecords DEF recordVars
<1> QED BY <1>1, <1>3 DEF Onward

(* A cancel that has deleted an entry marks its record, unless a failure   *)
(* keeps it from doing so.                                                 *)
LEMMA ControlOnward ==
    ASSUME IInv, Control, NEW t \in Task, CancelStep(t) \/ PurgeDelete(t), sync' = sync
    PROVE  Onward(t) /\ disturbed \subseteq disturbed' /\ purged \subseteq purged'
<1>1. Typed /\ UNCHANGED <<req, attempts, exec>>
  BY TypesOfState DEF IInv, Control, requestVars, processorVars
<1>2. CASE CancelLookup(t)
  BY <1>1, <1>2
  DEF CancelLookup, CancelGoto, Typed, storeVars, recordVars, faultVars, Onward
<1>3. CASE CancelDelete(t)
  BY <1>1, <1>3
  DEF CancelDelete, CancelGoto, Typed, recordVars, Deleted, DeleteFails, DeleteRefused, DeleteLost,
      Fault, faultVars, Onward
<1>4. CASE PurgeDelete(t)
  BY <1>1, <1>4
  DEF PurgeDelete, ReadLost, Typed, recordVars, Deleted, DeleteFails, DeleteRefused, DeleteLost,
      Fault, faultVars, Onward
<1>5. CASE CancelMark(t)
  <2>1. /\ db[t] # "none" => db'[t] # "none"
        /\ cache[t] # "none" => cache'[t] # "none"
        /\ disturbed \subseteq disturbed'
    BY <1>1, <1>5, CallKeepsRecords DEF CancelMark, Write, Creation
  <2>2. cancel[t] = "mark" /\ cancel'[t] \in {"ok", "idle"} /\ purged' = purged
    BY <1>1, <1>5 DEF CancelMark, CancelGoto, Typed
  <2>3. cache[t] # "none" => cancel'[t] = "ok" \/ t \in disturbed'
    <3>1. CASE CallDone(t, "canceled") /\ CancelGoto(t, "ok")
      BY <1>1, <3>1 DEF CancelGoto, Typed
    <3>2. CASE CallFails(t, "canceled")
      BY <3>2 DEF CallFails, CallRefused, Accepts, Creation, CallLost, Lingers, Fault
    <3> QED BY <1>5, <3>1, <3>2 DEF CancelMark
  <2> QED BY <1>1, <2>1, <2>2, <2>3 DEF Onward
<1> QED BY <1>2, <1>3, <1>4, <1>5 DEF CancelStep

(* A step that does not concern a task takes nothing from it.              *)
LEMMA UntouchedOnward ==
    ASSUME NEW x \in Task, Untouched(x), sync'[x] = sync[x]
    PROVE  Onward(x)
BY DEF Untouched, Onward

(* The webhook service removes a record only by letting it expire.         *)
LEMMA ServicesOnward ==
    ASSUME IInv, Services, sync' = sync
    PROVE  (\A t \in Task : Onward(t)) /\ disturbed \subseteq disturbed' /\ purged \subseteq purged'
<1>1. Typed /\ UNCHANGED <<req, cancel, purged>>
  BY TypesOfState DEF IInv, Services, requestVars, controlVars
<1>2. disturbed \subseteq disturbed'
  BY DEF Services, StoreStep, CarryLate, Expire, Fault, faultVars
<1>3. ASSUME NEW u \in late, CarryLate(u), NEW t \in Task
      PROVE  Onward(t)
  <2>1. u.task \in Task /\ u.write \in Write
    BY <1>1 DEF Typed, LateCall
  <2>2. /\ db[t] # "none" => db'[t] # "none"
        /\ cache[t] # "none" => cache'[t] # "none"
    BY <1>1, <1>3, <2>1 DEF CarryLate, Carry, After, Write, Creation, Typed
  <2> QED BY <1>1, <2>2 DEF Onward
<1>4. ASSUME NEW e \in Task, Expire(e), NEW t \in Task
      PROVE  Onward(t)
  BY <1>1, <1>4 DEF Expire, Fault, Typed, Onward
<1> QED BY <1>1, <1>2, <1>3, <1>4 DEF Services, StoreStep

(* The death of the process hurts whom it was busy with.                   *)
LEMMA DeathOnward ==
    ASSUME IInv, SyncTypeOK, Restart
    PROVE  (\A t \in Task : Onward(t)) /\ disturbed \subseteq disturbed' /\ purged \subseteq purged'
<1>1. Typed /\ Die /\ sync \in [Task -> SyncStage]
  BY TypesOfState DEF IInv, Restart, Crash, SyncTypeOK
<1>2. UNCHANGED <<recordVars, purged>> /\ disturbed' = disturbed \cup {t \in Task : InFlight(t)}
  BY <1>1 DEF Die
<1>3. ASSUME NEW t \in Task
      PROVE  Onward(t)
  <2>1. /\ req'[t] = "idle" => req[t] = "idle"
        /\ req[t] = "done" => req'[t] = "done"
    BY <1>1 DEF Die
  <2>2. /\ cancel[t] = "ok" => cancel'[t] = "ok"
        /\ cancel'[t] # "idle" => cancel[t] # "idle"
        /\ cancel[t] = "mark" => t \in disturbed'
    BY <1>1, <1>2 DEF Die, InFlight
  <2>3. /\ sync'[t] = "idle" => sync[t] = "idle"
        /\ sync[t] \in SyncDone => sync'[t] = sync[t]
    BY <1>1 DEF Restart, SyncDone
  <2> QED BY <1>2, <2>1, <2>2, <2>3 DEF Onward, recordVars
<1> QED BY <1>2, <1>3

(* A synchronous handler goes on until it has told its client something.   *)
LEMMA SyncOnward ==
    ASSUME IInv, SyncTypeOK, NEW t \in Task, Sync(t)
    PROVE  (\A x \in Task : Onward(x)) /\ disturbed \subseteq disturbed' /\ purged \subseteq purged'
<1>1. Typed /\ FaultTypeOK /\ sync \in [Task -> SyncStage]
  BY TypesOfState DEF IInv, TypeOK, AgentTypeOK, StoreTypeOK, SyncTypeOK
<1>2. UNCHANGED ElsewhereThanStore /\ \A x \in Task \ {t} : sync'[x] = sync[x]
  BY <1>1, SyncForm
<1>3. UNCHANGED <<req, cancel, purged>>
  BY <1>2 DEF ElsewhereThanStore, requestVars, controlVars
<1>4. (\A x \in Task \ {t} : Untouched(x)) /\ disturbed \subseteq disturbed'
  BY <1>1, SyncForm, StoreStepLocal
<1>5. /\ db[t] # "none" => db'[t] # "none"
      /\ cache[t] # "none" => cache'[t] # "none"
  BY <1>1, SyncForm, CallKeepsRecords DEF recordVars
<1>6. sync[t] \notin SyncDone /\ sync'[t] # "idle"
  BY <1>1
  DEF Sync, SyncArrive, SyncStep, SyncCreate, SyncRun, SyncReport, SyncRead, SyncGoto, SyncDone
<1>7. Onward(t)
  BY <1>3, <1>5, <1>6 DEF Onward
<1> QED BY <1>2, <1>3, <1>4, <1>7, UntouchedOnward

(* The check removes no record.                                            *)
LEMMA CheckOnward ==
    ASSUME IInv, Check
    PROVE  (\A x \in Task : Onward(x)) /\ disturbed \subseteq disturbed' /\ purged \subseteq purged'
<1>1. Typed /\ FaultTypeOK
  BY TypesOfState DEF IInv, TypeOK, AgentTypeOK, StoreTypeOK
<1>2. CASE WakeUp \/ (CheckReads /\ UNCHANGED <<ElsewhereThanStore, sync>>)
  BY <1>2, <1>1, CheckReadsForm
  DEF Onward, ElsewhereThanStore, requestVars, controlVars, recordVars
<1>3. ASSUME NEW t \in Task, CheckOne(t), UNCHANGED <<ElsewhereThanStore, sync>>
      PROVE  /\ \A x \in Task : Onward(x)
             /\ disturbed \subseteq disturbed' /\ purged \subseteq purged'
  <2>1. UNCHANGED <<req, cancel, purged, sync>>
    BY <1>3 DEF ElsewhereThanStore, requestVars, controlVars
  <2>2. (\A x \in Task \ {t} : Untouched(x)) /\ disturbed \subseteq disturbed'
    BY <1>1, <1>3, CheckOneForm, StoreStepLocal
  <2>3. /\ db[t] # "none" => db'[t] # "none"
        /\ cache[t] # "none" => cache'[t] # "none"
    BY <1>1, <1>3, CheckOneForm, CallKeepsRecords DEF recordVars
  <2>4. Onward(t)
    BY <2>1, <2>3 DEF Onward
  <2> QED BY <2>1, <2>2, <2>4, UntouchedOnward
<1> QED BY <1>2, <1>3 DEF Check, CheckStep, CheckReads

(* So whatever step is taken.                                              *)
LEMMA AlwaysOnward ==
    ASSUME AgentAndCheckTyped, [CheckedNext]_allVars
    PROVE  (\A x \in Task : Onward(x)) /\ disturbed \subseteq disturbed' /\ purged \subseteq purged'
<1> DEFINE Goal == (\A x \in Task : Onward(x)) /\ disturbed \subseteq disturbed'
                   /\ purged \subseteq purged'
<1>1. IInv /\ SyncTypeOK
  BY DEF AgentAndCheckTyped
<1>2. ASSUME NEW t \in Task, UNCHANGED <<sync>>, Arrive(t) \/ Handle(t) \/ Process(t)
      PROVE  Goal
  <2>1. \A x \in Task \ {t} : Untouched(x)
    BY <1>1, <1>2, RequestLocal, ProcessLocal
  <2> QED BY <1>1, <1>2, <2>1, RequestOnward, ProcessOnward, UntouchedOnward
<1>3. CASE Control /\ UNCHANGED sync
  <2>1. CASE PurgeList \/ PauseQueue \/ UnpauseQueue
    <3>1. \A x \in Task : Untouched(x)
      BY <1>1, <1>3, <2>1, ListOrPauseLocal
    <3>2. disturbed \subseteq disturbed' /\ purged \subseteq purged'
      BY <2>1 DEF PurgeList, PauseQueue, UnpauseQueue, storeVars, faultVars, controlVars
    <3> QED BY <1>3, <3>1, <3>2, UntouchedOnward
  <2>2. ASSUME NEW t \in Task, CancelStep(t) \/ PurgeDelete(t)
        PROVE  Goal
    <3>1. \A x \in Task \ {t} : Untouched(x)
      BY <1>1, <1>3, <2>2, ControlLocal
    <3> QED BY <1>1, <1>3, <2>2, <3>1, ControlOnward, UntouchedOnward
  <2> QED BY <1>3, <2>1, <2>2 DEF Control, ControlStep
<1>4. CASE AgentStep
  BY <1>1, <1>2, <1>3, <1>4, ServicesOnward DEF AgentStep
<1>5. CASE UNCHANGED allVars
  <2>1. \A x \in Task : Untouched(x)
    BY <1>5, StutterLocal DEF allVars
  <2>2. UNCHANGED <<disturbed, purged, sync>>
    BY <1>5 DEF allVars, vars, storeVars, faultVars, controlVars
  <2> QED BY <2>1, <2>2, UntouchedOnward
<1> QED
  BY <1>1, <1>4, <1>5, SyncOnward, CheckOnward, DeathOnward DEF CheckedNext

(* Health is lost for good.                                                *)
LEMMA HealthStays ==
    ASSUME AgentAndCheckTyped, CancelHasRecord, [CheckedNext]_allVars, NEW t \in Task
    PROVE  /\ t \notin disturbed' /\ Kept(t)' => t \notin disturbed /\ Kept(t)
           /\ t \notin Hurt' => t \notin Hurt
           /\ t \notin disturbed' /\ t \notin CanceledOrPurged' => t \notin CanceledOrPurged
<1>1. Onward(t) /\ disturbed \subseteq disturbed' /\ purged \subseteq purged'
  BY AlwaysOnward
<1>2. Typed
  BY TypesOfState DEF AgentAndCheckTyped, IInv
<1>3. t \notin Hurt' => t \notin Hurt
  BY <1>1 DEF Onward, Hurt, Abandoned, SyncDone
<1>4. ASSUME t \notin disturbed', t \notin CanceledOrPurged'
      PROVE  t \notin CanceledOrPurged
  BY <1>1, <1>2, <1>4 DEF Onward, CanceledOrPurged, CancelHasRecord, Typed
<1>5. Asleep(t)' => Asleep(t)
  BY <1>1 DEF Onward, Asleep
<1>6. Fits' <=> Fits
  BY DEF Fits
<1> QED BY <1>1, <1>3, <1>4, <1>5, <1>6 DEF Kept, Onward

(* A cancel handler keeps its record, unless a failure takes it away.      *)
LEMMA CancelHasRecordKept ==
    ASSUME AgentAndCheckTyped, CancelHasRecord, [CheckedNext]_allVars
    PROVE  CancelHasRecord'
BY AlwaysOnward DEF Onward, CancelHasRecord

(* Only a listing puts a task into the check's lists.                      *)
LEMMA ListedExistKept ==
    ASSUME AgentAndCheckTyped, ListedExist, [CheckedNext]_allVars
    PROVE  ListedExist'
<1>1. \A t \in Task : db[t] # "none" => db'[t] # "none"
  BY AlwaysOnward DEF Onward
<1>2. listed \in [Unsettled -> SUBSET Task] /\ listed' \in [Unsettled -> SUBSET Task]
  BY CheckedTyping DEF AgentAndCheckTyped, CheckTypeOK
<1>3. ASSUME \A s \in Unsettled : listed'[s] \subseteq listed[s]
      PROVE  ListedExist'
  BY <1>1, <1>2, <1>3 DEF ListedExist
<1>4. CASE listed' = listed
  BY <1>3, <1>4
<1>5. CASE ListRecordsStep
  <2>1. PICK s \in Unsettled : \E next : ListRecords(s, next)
    BY <1>5 DEF ListRecordsStep, Unsettled
  <2>2. listed'[s] \subseteq {t \in Task : db[t] = s}
    BY <1>2, <2>1 DEF ListRecords
  <2>3. \A r \in Unsettled \ {s} : listed'[r] = listed[r]
    BY <1>2, <2>1 DEF ListRecords
  <2>4. s # "none"
    BY DEF Unsettled
  <2> QED BY <1>1, <1>2, <2>2, <2>3, <2>4 DEF ListedExist
<1>6. ASSUME NEW t \in Task, NEW s \in Unsettled, CheckRecord(s, t)
      PROVE  ListedExist'
  <2>1. listed' = [listed EXCEPT ![s] = @ \ {t}]
    BY <1>6 DEF CheckRecord
  <2> QED BY <1>2, <1>3, <2>1
<1>7. CASE Restart
  BY <1>7 DEF Restart, ListedExist
<1>8. \/ listed' = listed \/ ListRecordsStep \/ Restart
      \/ \E t \in Task : \E s \in Unsettled : CheckRecord(s, t)
  BY SyncForm
  DEF CheckedNext, AgentStep, Sync, Check, WakeUp, Wake, CheckStep, CheckBegin, ArchivedDone,
      ListUnfinished, ListEntries, CheckDone, CheckOne, MarkArchived, DropArchived, FailMissing,
      FailExpired, FailRecord, checkVars, allVars
<1> QED BY <1>4, <1>5, <1>6, <1>7, <1>8

-----------------------------------------------------------------------------
(* The check does not condemn a healthy task.                              *)

(* A task in shape that nobody has made a request for has no record.       *)
LEMMA AsleepHasNoRecord ==
    ASSUME IInv, NEW t \in Task, Asleep(t), Shape(t)
    PROVE  db[t] = "none" /\ queue[t] = "none"
BY DEF IInv, NotYetEnqueued, Asleep, Shape, NotQueued, Waiting, Running, Left

(* A listed task whose shape the check keeps has been through its handler  *)
(* when the check awakes, so that its entry names it.                      *)
LEMMA ListedIsLinked ==
    ASSUME CheckInv, Woken, NEW s \in Unsettled, NEW t \in listed[s], t \in Task,
           t \notin disturbed, Kept(t)
    PROVE  /\ Shape(t) /\ Found(t) /\ req[t] = "done" /\ db[t] # "none"
           /\ t \notin CanceledOrPurged /\ Fits
           /\ queue[t] # "none" /\ t \in linked
<1>1. Shape(t) /\ Found(t) /\ db[t] # "none" /\ IInv
  BY DEF CheckInv, KeptShape, ListedFound, ListedExist, AgentAndCheckTyped
<1>2. ~Asleep(t)
  BY <1>1, AsleepHasNoRecord
<1>3. Fits /\ sync[t] = "idle" /\ t \notin CanceledOrPurged
  BY <1>2 DEF Kept
<1>4. t \notin Hurt
  BY <1>3 DEF Hurt, Abandoned
<1>5. req[t] = "done"
  BY <1>3, <1>4 DEF CheckInv, ListedRested, Rested, Fits, SyncDone
<1>6. queue[t] # "none" /\ t \in linked
  BY <1>1, <1>5 DEF Shape, NotQueued, Waiting, Running, Left
<1> QED BY <1>1, <1>3, <1>5, <1>6

(* What the check reads of it: a terminal status, or its entry is in a     *)
(* list.                                                                   *)
LEMMA KeptNotCondemned ==
    ASSUME CheckInv, NEW s \in Unsettled, NEW t \in Task, CheckRecord(s, t),
           t \notin disturbed', Kept(t)
    PROVE  target' # t
<1>1. t \notin disturbed
  BY DEF CheckRecord, faultVars, Fault
<1>2. phase = "check" /\ Woken /\ t \in listed[s]
  BY DEF CheckRecord, Woken
<1>3. /\ Shape(t) /\ Found(t) /\ db[t] # "none"
      /\ t \notin CanceledOrPurged /\ t \in linked
  BY <1>1, <1>2, ListedIsLinked
<1>4. cache[t] = db[t] /\ target # t
  BY <1>1, <1>3 DEF Shape, CheckInv, KeptShape
<1>5. ~(cache[t] = s /\ Missing(t))
  <2>1. CASE queue[t] = "gone"
    <3>1. Left(t)
      BY <1>3, <2>1 DEF Shape, NotQueued, Waiting, Running
    <3>2. db[t] \in {"succeeded", "failed"}
      BY <1>3, <3>1 DEF Left, CanceledOrPurged
    <3> QED BY <1>4, <3>2 DEF Unsettled
  <2>2. CASE t \in unfinished
    BY <1>3, <2>2 DEF Missing
  <2> QED BY <1>2, <1>3, <2>1, <2>2 DEF Found
<1>6. cache[t] # "none" /\ ~Fault(t)
  BY <1>3, <1>4 DEF Fault
<1> QED BY <1>4, <1>5, <1>6 DEF CheckRecord

(* A synchronous task has reported by the time its record is read.         *)
LEMMA SyncNotCondemned ==
    ASSUME CheckInv, ~SlowPlatform, NEW s \in Unsettled, NEW t \in Task, CheckRecord(s, t),
           t \notin Hurt', t \notin Hurt, sync[t] # "idle"
    PROVE  target' # t
<1>1. phase = "check" /\ Woken /\ t \in listed[s]
  BY DEF CheckRecord, Woken
<1>2. SyncShape(t) /\ Rested(t)
  BY <1>1 DEF CheckInv, SyncShapes, ListedRested
<1>3. sync[t] \in {"ok", "error"}
  BY <1>2 DEF SyncShape, Rested, SyncDone, Hurt, Abandoned
<1>4. cache[t] \in {"succeeded", "failed"} /\ target # t
  BY <1>2, <1>3 DEF SyncShape
<1>5. ~Fault(t)
  BY DEF Fault, Hurt
<1> QED BY <1>4, <1>5 DEF CheckRecord, Unsettled

(* Only an archived entry, or a record that is condemned, becomes the      *)
(* check's target.                                                         *)
LEMMA TargetsAreChosen ==
    ASSUME NEW t \in Task, [CheckedNext]_allVars, AgentAndCheckTyped,
           t \notin archived, target # t, queue[t] # "archived",
           \A s \in Unsettled : CheckRecord(s, t) => target' # t
    PROVE  t \notin archived' /\ target' # t
<1>1. CASE UNCHANGED <<archived, target>>
  BY <1>1
<1>2. CASE CheckBegin
  BY <1>2 DEF CheckBegin, ListsEntries, Page
<1>3. CASE \E x \in Task : MarkArchived(x)
  BY <1>3 DEF MarkArchived
<1>4. CASE \E x \in Task : DropArchived(x) \/ FailMissing(x) \/ FailExpired(x)
  BY <1>4, StatusCheckAssumption DEF DropArchived, FailMissing, FailExpired, FailRecord
<1>5. ASSUME NEW s \in Unsettled, NEW x \in Task, CheckRecord(s, x)
      PROVE  t \notin archived' /\ target' # t
  BY <1>5 DEF CheckRecord
<1>6. CASE Restart
  BY <1>6, StatusCheckAssumption DEF Restart
<1>7. \/ UNCHANGED <<archived, target>> \/ CheckBegin \/ Restart
      \/ \E x \in Task : MarkArchived(x) \/ DropArchived(x) \/ FailMissing(x) \/ FailExpired(x)
      \/ \E x \in Task : \E s \in Unsettled : CheckRecord(s, x)
  BY DEF CheckedNext, AgentStep, Sync, Check, WakeUp, Wake, CheckStep, ArchivedDone,
         ListRecordsStep, ListRecords, ListUnfinished, ListEntries, CheckDone, CheckOne, checkVars, allVars
<1> QED BY <1>1, <1>2, <1>3, <1>4, <1>5, <1>6, <1>7

(* A step that only looks, or reads one record, concerns no task.          *)
LEMMA ReadsLocal ==
    ASSUME IInv, UNCHANGED <<ElsewhereThanStore, recordVars, entryVars>>,
           disturbed \subseteq disturbed', NEW x \in Task
    PROVE  Untouched(x)
BY DEF Untouched, ElsewhereThanStore, requestVars, processorVars, controlVars, recordVars,
       entryVars

(* A synchronous handler that takes a step is not idle after it.           *)
LEMMA SyncIsBusy ==
    ASSUME SyncTypeOK, NEW t \in Task, Sync(t)
    PROVE  sync'[t] # "idle"
BY DEF SyncTypeOK, Sync, SyncArrive, SyncStep, SyncCreate, SyncRun, SyncReport, SyncRead, SyncGoto

(* The check leaves the shape of a task alone unless it has chosen it.     *)
LEMMA CheckStepLocal ==
    ASSUME IInv, Check, NEW x \in Task, x \notin archived, target # x
    PROVE  Untouched(x)
<1>1. FaultTypeOK
  BY DEF IInv, TypeOK, AgentTypeOK, StoreTypeOK
<1>2. CASE WakeUp \/ (CheckReads /\ UNCHANGED <<ElsewhereThanStore, sync>>)
  BY <1>1, <1>2, CheckReadsForm, ReadsLocal
<1>3. ASSUME NEW t \in Task, CheckOne(t), UNCHANGED <<ElsewhereThanStore, sync>>
      PROVE  Untouched(x)
  <2>1. CASE t # x
    BY <1>1, <1>3, <2>1, CheckOneForm, StoreStepLocal
  <2>2. CASE t = x
    <3>1. \E s \in Unsettled : CheckRecord(s, x)
      BY <1>3, <2>2
      DEF CheckOne, MarkArchived, DropArchived, FailMissing, FailExpired, FailRecord
    <3>2. UNCHANGED <<recordVars, entryVars>> /\ disturbed \subseteq disturbed'
      BY <3>1 DEF CheckRecord, UnchangedStore, faultVars, Fault
    <3> QED BY <1>3, <3>2, ReadsLocal
  <2> QED BY <2>1, <2>2
<1> QED BY <1>2, <1>3 DEF Check, CheckStep, CheckReads

(* The shapes the check keeps, it keeps.                                   *)
LEMMA KeptShapeKept ==
    ASSUME CheckInv, [CheckedNext]_allVars
    PROVE  KeptShape'
<1>1. AgentAndCheckTyped /\ CancelHasRecord /\ IInv /\ SyncTypeOK
  BY DEF CheckInv, AgentAndCheckTyped
<1>2. SUFFICES ASSUME NEW x \in Task, x \notin disturbed', Kept(x)'
               PROVE  Shape(x)' /\ x \notin archived' /\ target' # x
  BY DEF KeptShape
<1>3. x \notin disturbed /\ Kept(x)
  BY <1>1, <1>2, HealthStays
<1>4. Shape(x) /\ x \notin archived /\ target # x
  BY <1>3 DEF CheckInv, KeptShape
<1>5. {x} \in SUBSET Task /\ ShapesOf({x})
  BY <1>4 DEF ShapesOf
<1>6. Shape(x)'
  <2>1. CASE ShapesOf({x})'
    BY <1>2, <2>1 DEF ShapesOf
  <2>2. CASE Untouched(x)
    BY <1>2, <1>4, <2>2, UntouchedShape
  <2>3. CASE AgentStep \/ Restart
    <3>1. [Next]_vars \/ Die
      BY <2>3, AgentStepIsNext DEF Restart, Crash
    <3> QED BY <1>1, <1>5, <2>1, <3>1, ShapesKept
  <2>4. CASE UNCHANGED allVars
    BY <2>2, <2>4, StutterLocal DEF allVars
  <2>5. ASSUME NEW t \in Task, Sync(t)
        PROVE  Shape(x)'
    <3>1. t # x
      BY <1>1, <1>2, <2>5, SyncIsBusy DEF Kept, Asleep
    <3>2. FaultTypeOK
      BY <1>1 DEF IInv, TypeOK, AgentTypeOK, StoreTypeOK
    <3> QED BY <1>1, <2>2, <2>5, <3>1, <3>2, SyncForm, StoreStepLocal
  <2>6. CASE Check
    BY <1>1, <1>4, <2>2, <2>6, CheckStepLocal
  <2> QED BY <2>3, <2>4, <2>5, <2>6 DEF CheckedNext
<1>7. queue[x] # "archived"
  BY <1>4 DEF Shape, NotQueued, Waiting, Running, Left
<1>8. \A s \in Unsettled : CheckRecord(s, x) => target' # x
  BY <1>2, <1>3, KeptNotCondemned
<1> QED BY <1>1, <1>4, <1>6, <1>7, <1>8, TargetsAreChosen

-----------------------------------------------------------------------------
(* A synchronous task meets nobody but its handler.                        *)

(* A step that does not concern a synchronous task keeps its shape.        *)
LEMMA UntouchedSyncShape ==
    ASSUME NEW t \in Task, SyncShape(t), Untouched(t), sync'[t] = sync[t],
           t \notin archived', target' # t
    PROVE  SyncShape(t)'
BY DEF SyncShape, Untouched

(* No handler of the asynchronous part, no worker, no cancel and no late   *)
(* write works on it; only its record may expire.                          *)
LEMMA AgentLeavesSync ==
    ASSUME IInv, NEW t \in Task, SyncShape(t), sync[t] # "idle", AgentStep
    PROVE  Untouched(t) \/ (Expire(t) /\ Services)
<1>1. Typed /\ queue[t] = "none"
  BY TypesOfState DEF IInv, NotYetEnqueued, SyncShape
<1>2. ASSUME NEW x \in Task, (Asleep(x) /\ Arrive(x)) \/ Handle(x)
      PROVE  Untouched(t)
  <2>1. x # t
    BY <1>2 DEF SyncShape, Asleep, Handle, RequestStep, Create, Enqueue, MarkFailed, Link, Unlink
  <2> QED BY <1>2, <2>1, RequestLocal
<1>3. ASSUME NEW x \in Task, Process(x)
      PROVE  Untouched(t)
  <2>1. x # t
    BY <1>1, <1>3
    DEF SyncShape, Process, ProcessorStep, Dequeue, Deadline, Attached, RetryDue, RecoverLease,
        AttemptStep, SetRunning, Predict, Report, Finish
  <2> QED BY <1>3, <2>1, ProcessLocal
<1>4. CASE Control
  <2>1. ASSUME NEW x \in Task, CancelStep(x) \/ PurgeDelete(x)
        PROVE  Untouched(t)
    <3>1. CASE x # t
      BY <1>4, <2>1, <3>1, ControlLocal
    <3>2. CASE x = t
      <4>1. ~CancelStep(t)
        BY DEF SyncShape, CancelStep, CancelLookup, CancelDelete, CancelMark
      <4>2. /\ UNCHANGED <<recordVars, entryVars, cancel, purged>>
            /\ disturbed \subseteq disturbed'
        BY <2>1, <3>2, <4>1 DEF SyncShape, PurgeDelete, ReadLost, faultVars
      <4> QED
        BY <1>4, <4>2 DEF Control, requestVars, processorVars, recordVars, entryVars, Untouched
    <3> QED BY <3>1, <3>2
  <2> QED BY <1>4, <2>1, ListOrPauseLocal DEF Control, ControlStep
<1>5. CASE Services
  <2>1. ASSUME NEW u \in late, CarryLate(u)
        PROVE  Untouched(t)
    BY <1>5, <2>1, LateLocal DEF SyncShape
  <2>2. ASSUME NEW x \in Task \ {t}, Expire(x)
        PROVE  Untouched(t)
    BY <1>5, <2>2, ExpireLocal
  <2> QED BY <1>5, <2>1, <2>2 DEF Services, StoreStep
<1> QED BY <1>2, <1>3, <1>4, <1>5 DEF AgentStep

(* A handler that gets through to the webhook service records what its     *)
(* stage says.                                                             *)
LEMMA SyncStepShape ==
    ASSUME IInv, SyncTypeOK, NEW t \in Task, SyncShape(t), SyncStep(t), t \notin disturbed',
           UNCHANGED <<ElsewhereThanStore, checkVars>>
    PROVE  SyncShape(t)'
<1>1. Typed /\ sync \in [Task -> SyncStage]
  BY TypesOfState DEF IInv, SyncTypeOK
<1>2. UNCHANGED <<req, cancel, exec, archived, target>>
  BY DEF ElsewhereThanStore, requestVars, controlVars, processorVars, checkVars
<1>3. ASSUME NEW w \in {"create running", "succeeded", "failed"}, Accepts(t, w),
             CallDone(t, w) \/ CallFails(t, w)
      PROVE  /\ ~CallFails(t, w) /\ late' = late
             /\ cache'[t] = After(w, db[t]) /\ db'[t] = After(w, db[t])
             /\ t \notin linked'
  <2>1. ~CallFails(t, w)
    BY <1>3 DEF CallFails, CallRefused, CallLost, Lingers, Fault
  <2>2. Carry(t, w) /\ late' = late
    BY <1>3, <2>1 DEF CallDone, Lingers, Fault
  <2>3. t \notin linked' /\ cache[t] = db[t]
    BY <2>2 DEF Carry, SyncShape
  <2> QED BY <1>1, <2>1, <2>2, <2>3 DEF Carry, Typed
<1>4. CASE SyncCreate(t)
  <2>1. Accepts(t, "create running")
    BY DEF Accepts, Creation
  <2> QED BY <1>1, <1>2, <1>3, <1>4, <2>1 DEF SyncCreate, SyncGoto, SyncShape, After
<1>5. CASE SyncReport(t)
  <2>1. Accepts(t, "succeeded") /\ Accepts(t, "failed")
    BY <1>5 DEF SyncReport, SyncShape, Accepts
  <2> QED BY <1>1, <1>2, <1>3, <1>5, <2>1 DEF SyncReport, SyncGoto, SyncShape, After
<1>6. CASE SyncRun(t) \/ SyncRead(t)
  <2>1. UNCHANGED <<recordVars, entryVars>>
    BY <1>6 DEF SyncRun, SyncRead
  <2> QED
    BY <1>1, <1>2, <1>6, <2>1 DEF SyncRun, SyncRead, SyncGoto, Fault, SyncShape, recordVars
<1> QED BY <1>4, <1>5, <1>6 DEF SyncStep

(* A synchronous task keeps its shape until a failure hurts it.            *)
LEMMA SyncShapesKept ==
    ASSUME CheckInv, [CheckedNext]_allVars
    PROVE  SyncShapes'
<1>1. AgentAndCheckTyped /\ CancelHasRecord /\ IInv /\ SyncTypeOK /\ FaultTypeOK
  BY DEF CheckInv, AgentAndCheckTyped, IInv, TypeOK, AgentTypeOK, StoreTypeOK
<1>2. SUFFICES ASSUME ~SlowPlatform, NEW t \in Task, sync'[t] # "idle", t \notin Hurt'
               PROVE  SyncShape(t)'
  BY DEF SyncShapes
<1>3. t \notin Hurt /\ t \notin disturbed' /\ t \notin disturbed /\ sync'[t] # "lost"
  BY <1>1, <1>2, HealthStays DEF Hurt, Abandoned
<1>4. CASE sync[t] = "idle"
  <2>1. Sync(t)
    BY <1>1, <1>2, <1>4, SyncForm
    DEF CheckedNext, AgentStep, Check, WakeUp, Restart, allVars
  <2>2. Asleep(t) /\ SyncArrive(t) /\ UNCHANGED <<ElsewhereThanStore, checkVars>>
    BY <1>4, <2>1 DEF Sync, SyncStep, SyncCreate, SyncRun, SyncReport, SyncRead
  <2>3. Shape(t) /\ t \notin archived /\ target # t /\ db[t] = "none"
    BY <1>1, <1>3, <2>2, AsleepHasNoRecord DEF CheckInv, KeptShape, Kept
  <2>4. NotQueued(t)
    BY <2>2, <2>3, AsleepHasNoRecord, <1>1 DEF Shape, Waiting, Running, Left
  <2>5. \A a \in Attempt : exec[t][a] = "off"
    BY <2>3, <2>4 DEF Shape, NotQueued
  <2>6. UNCHANGED <<req, cancel, exec, archived, target, cache, db, linked, late>>
    BY <2>2
    DEF ElsewhereThanStore, requestVars, controlVars, processorVars, checkVars, SyncArrive,
        storeVars, recordVars
  <2>7. sync'[t] = "create"
    BY <1>1, <2>2 DEF SyncArrive, SyncGoto, SyncTypeOK
  <2> QED BY <2>2, <2>3, <2>4, <2>5, <2>6, <2>7 DEF SyncShape, Shape, NotQueued, Asleep
<1>5. CASE sync[t] # "idle"
  <2>1. SyncShape(t)
    BY <1>2, <1>3, <1>5 DEF CheckInv, SyncShapes
  <2>2. t \notin archived' /\ target' # t
    <3>1. t \notin archived /\ target # t /\ queue[t] # "archived"
      BY <1>1, <2>1 DEF SyncShape, IInv, NotYetEnqueued
    <3>2. \A s \in Unsettled : CheckRecord(s, t) => target' # t
      BY <1>2, <1>3, <1>5, SyncNotCondemned
    <3> QED BY <1>1, <3>1, <3>2, TargetsAreChosen
  <2>3. ASSUME Untouched(t), sync'[t] = sync[t]
        PROVE  SyncShape(t)'
    BY <2>1, <2>2, <2>3, UntouchedSyncShape
  <2>4. CASE AgentStep
    <3>1. sync' = sync
      BY <2>4 DEF AgentStep
    <3> QED BY <1>1, <1>3, <1>5, <2>1, <2>3, <2>4, <3>1, AgentLeavesSync, ExpireLocal
  <2>5. CASE Sync(t)
    BY <1>1, <1>3, <1>5, <2>1, <2>5, SyncStepShape DEF Sync, Asleep
  <2>6. ASSUME NEW x \in Task \ {t}, Sync(x)
        PROVE  SyncShape(t)'
    <3>1. Untouched(t) /\ sync'[t] = sync[t]
      BY <1>1, <2>6, SyncForm, StoreStepLocal
    <3> QED BY <2>3, <3>1
  <2>7. CASE Check
    <3>1. Untouched(t)
      BY <1>1, <2>1, <2>7, CheckStepLocal DEF SyncShape
    <3>2. sync' = sync
      BY <2>7 DEF Check, WakeUp
    <3> QED BY <2>3, <3>1, <3>2
  <2>8. CASE Restart
    <3>1. Untouched(t)
      BY <1>1, <1>3, <2>8, DeathLocal DEF Restart, Crash
    <3>2. sync'[t] = sync[t]
      BY <1>3, <2>8 DEF Restart
    <3> QED BY <2>3, <3>1, <3>2
  <2>9. CASE UNCHANGED allVars
    <3>1. Untouched(t) /\ sync' = sync
      BY <2>9, StutterLocal DEF allVars
    <3> QED BY <2>3, <3>1
  <2> QED BY <2>4, <2>5, <2>6, <2>7, <2>8, <2>9 DEF CheckedNext
<1> QED BY <1>4, <1>5

-----------------------------------------------------------------------------
(* What the check has listed.                                              *)

(* After the sleep the lists only get shorter.                             *)
LEMMA ListedShrinks ==
    ASSUME AgentAndCheckTyped, [CheckedNext]_allVars, Woken'
    PROVE  /\ WakeUp \/ Woken
           /\ \A s \in Unsettled : listed'[s] \subseteq listed[s]
<1>1. listed \in [Unsettled -> SUBSET Task]
  BY DEF AgentAndCheckTyped, CheckTypeOK
<1>2. CASE UNCHANGED <<phase, listed>>
  BY <1>2 DEF Woken
<1>3. CASE Restart
  BY <1>3 DEF Restart, Woken
<1>4. CASE WakeUp
  BY <1>4 DEF WakeUp, Wake
<1>5. CASE CheckReads
  BY <1>5
  DEF CheckReads, CheckBegin, ArchivedDone, ListRecordsStep, ListRecords, ListUnfinished,
      ListEntries, CheckDone, Woken
<1>6. ASSUME NEW t \in Task, CheckOne(t)
      PROVE  (WakeUp \/ Woken) /\ \A s \in Unsettled : listed'[s] \subseteq listed[s]
  <2>1. CASE MarkArchived(t) \/ DropArchived(t)
    BY <2>1 DEF MarkArchived, DropArchived, Woken
  <2>2. CASE FailMissing(t) \/ FailExpired(t)
    BY <2>2 DEF FailMissing, FailExpired, FailRecord, Woken
  <2>3. ASSUME NEW s \in Unsettled, CheckRecord(s, t)
        PROVE  Woken /\ \A r \in Unsettled : listed'[r] \subseteq listed[r]
    BY <1>1, <2>3 DEF CheckRecord, Woken
  <2> QED BY <1>6, <2>1, <2>2, <2>3 DEF CheckOne
<1>7. UNCHANGED <<phase, listed>> \/ Restart \/ WakeUp \/ CheckReads \/ \E t \in Task : CheckOne(t)
  BY SyncForm DEF CheckedNext, AgentStep, Sync, Check, CheckStep, CheckReads, checkVars, allVars
<1> QED BY <1>2, <1>3, <1>4, <1>5, <1>6, <1>7

(* A task that has a record is awake: somebody has made a request for it.  *)
LEMMA ListedIsAwake ==
    ASSUME CheckInv, NEW t \in Task, db[t] # "none", t \notin disturbed
    PROVE  ~Asleep(t)
BY AsleepHasNoRecord DEF CheckInv, AgentAndCheckTyped, KeptShape, Kept

(* The sleep is long enough for the handlers of the listed tasks to end.   *)
LEMMA ListedRestedKept ==
    ASSUME CheckInv, [CheckedNext]_allVars
    PROVE  ListedRested'
<1>1. AgentAndCheckTyped /\ CancelHasRecord
  BY DEF CheckInv
<1>2. SUFFICES ASSUME Woken', NEW s \in Unsettled, NEW t \in listed'[s], t \notin Hurt'
               PROVE  Rested(t)'
  BY DEF ListedRested
<1>3. (WakeUp \/ Woken) /\ t \in listed[s]
  BY <1>1, <1>2, ListedShrinks
<1>4. t \in Task
  BY <1>1, <1>3 DEF AgentAndCheckTyped, CheckTypeOK
<1>5. t \notin Hurt
  BY <1>1, <1>2, <1>4, HealthStays
<1>6. Rested(t)
  <2>1. CASE Woken
    BY <1>3, <1>5, <2>1 DEF CheckInv, ListedRested
  <2>2. CASE WakeUp
    <3>1. ~Asleep(t)
      BY <1>3, <1>4, <1>5, ListedIsAwake DEF CheckInv, ListedExist, Hurt
    <3> QED BY <1>3, <2>2, <3>1 DEF WakeUp, Asleep, Rested
  <2> QED BY <1>3, <2>1, <2>2
<1> QED BY <1>1, <1>4, <1>6, AlwaysOnward DEF Onward, Rested

(* The entry of a healthy task goes from waiting to active to gone.        *)
LEMMA QueueMoves ==
    ASSUME IInv, AgentStep, NEW t \in Task, Shape(t), Shape(t)', req[t] = "done"
    PROVE  \/ queue'[t] \in {queue[t], "gone"}
           \/ queue[t] = "pending" /\ queue'[t] = "active"
<1>1. Typed /\ queue[t] # "retry" /\ queue'[t] \notin {"retry", "archived"}
  BY TypesOfState DEF IInv, Shape, NotQueued, Waiting, Running, Left
<1>2. ASSUME NEW x \in Task, Arrive(x) \/ Handle(x) \/ Process(x)
      PROVE  \/ queue'[t] \in {queue[t], "gone"}
             \/ queue[t] = "pending" /\ queue'[t] = "active"
  <2>1. CASE x # t
    BY <1>2, <2>1, RequestLocal, ProcessLocal DEF Untouched
  <2>2. CASE x = t
    <3>1. Process(t)
      BY <1>2, <2>2
      DEF Arrive, Admit, Handle, RequestStep, Create, Enqueue, MarkFailed, Link, Unlink
    <3>2. CASE UNCHANGED entryVars
      BY <3>2 DEF entryVars
    <3>3. CASE HandleFailed(t)
      BY <1>1, <3>3 DEF HandleFailed, Typed
    <3>4. CASE Dequeue(t) \/ RetryDue(t)
      BY <1>1, <3>4 DEF Dequeue, RetryDue, Typed
    <3>5. CASE queue' = [queue EXCEPT ![t] = "gone"]
      BY <1>1, <3>5 DEF Typed
    <3> QED
      BY <3>1, <3>2, <3>3, <3>4, <3>5
      DEF Process, ProcessorStep, Deadline, RecoverLease, AttemptStep, SetRunning, Predict, Report,
          Finish
  <2> QED BY <2>1, <2>2
<1>3. CASE Control
  <2>1. ASSUME NEW x \in Task, Deleted(x) \/ DeleteFails(x)
        PROVE  queue'[t] \in {queue[t], "gone"}
    BY <1>1, <2>1, DeleteEffect DEF Typed
  <2>2. CASE UNCHANGED entryVars
    BY <2>2 DEF entryVars
  <2> QED
    BY <1>3, <2>1, <2>2
    DEF Control, ControlStep, CancelStep, CancelLookup, CancelDelete, CancelMark, PurgeDelete,
        PurgeList, PauseQueue, UnpauseQueue, storeVars
<1>4. CASE Services
  BY <1>4 DEF Services, StoreStep, CarryLate, Expire, entryVars
<1> QED BY <1>2, <1>3, <1>4 DEF AgentStep

(* When everything fits one page, a listing finds every entry, or hurts    *)
(* those it does not find.                                                 *)
LEMMA ListingIsComplete ==
    ASSUME Fits, NEW state, NEW found, ListsEntries(state, found), NEW t \in Task,
           queue[t] = state, t \notin disturbed'
    PROVE  t \in found
<1> DEFINE entries == {x \in Task : queue[x] = state}
<1>1. IsFiniteSet(Task) /\ MaxQueueSize \in Nat
  BY TaskStoreAssumption DEF TaskStoreAssumption
<1>2. /\ Cardinality(entries) \in Nat /\ Cardinality(Task) \in Nat
      /\ Cardinality(entries) <= Cardinality(Task)
  <2>1. entries \subseteq Task /\ IsFiniteSet(entries)
    BY <1>1, FS_Subset
  <2> QED BY <1>1, <2>1, FS_Subset, FS_CardinalityType
<1>3. ~(Cardinality(entries) > MaxQueueSize)
  BY <1>1, <1>2 DEF Fits
<1>4. found \in Page(state)
  BY DEF ListsEntries
<1>5. found = entries
  BY <1>3, <1>4 DEF Page
<1> QED BY <1>5

(* Listing from pending to active the check does not miss an entry that    *)
(* moves on meanwhile.                                                     *)
LEMMA ListingFinds ==
    ASSUME ListUnfinished, Fits, UNCHANGED queue, NEW t \in Task, t \notin disturbed', Found(t)
    PROVE  Found(t)'
<1>1. ASSUME NEW state, NEW next, ListEntries(state, next)
      PROVE  /\ phase' = next
             /\ t \in unfinished => t \in unfinished'
             /\ queue[t] = state => t \in unfinished'
  <2>1. PICK found \in SUBSET Task :
            ListsEntries(state, found) /\ unfinished' = unfinished \cup found
    BY <1>1 DEF ListEntries
  <2>2. queue[t] = state => t \in found
    BY <2>1, ListingIsComplete
  <2>3. phase' = next
    BY <1>1 DEF ListEntries
  <2> QED BY <2>1, <2>2, <2>3
<1>2. CASE phase = "entries pending" /\ ListEntries("pending", "entries retry")
  BY <1>1, <1>2 DEF Found
<1>3. CASE phase = "entries retry" /\ ListEntries("retry", "entries active")
  BY <1>1, <1>3 DEF Found
<1>4. CASE phase = "entries active" /\ ListEntries("active", "check")
  BY <1>1, <1>4 DEF Found
<1> QED BY <1>2, <1>3, <1>4 DEF ListUnfinished

(* So the entry of a listed task is found, unless it has left the queue.   *)
LEMMA ListedFoundKept ==
    ASSUME CheckInv, [CheckedNext]_allVars, KeptShape', ListedRested'
    PROVE  ListedFound'
<1>1. AgentAndCheckTyped /\ CancelHasRecord /\ IInv /\ SyncTypeOK /\ FaultTypeOK
  BY DEF CheckInv, AgentAndCheckTyped, IInv, TypeOK, AgentTypeOK, StoreTypeOK
<1>2. SUFFICES ASSUME Woken', NEW s \in Unsettled, NEW t \in listed'[s], t \notin disturbed',
                      Kept(t)', t \in Task
               PROVE  Found(t)'
  <2>1. listed \in [Unsettled -> SUBSET Task] /\ listed' \in [Unsettled -> SUBSET Task]
    BY <1>1, CheckedTyping DEF AgentAndCheckTyped, CheckTypeOK
  <2> QED BY <1>2, <2>1 DEF ListedFound
<1>3. (WakeUp \/ Woken) /\ t \in listed[s]
  BY <1>1, <1>2, ListedShrinks
<1>4. t \notin disturbed /\ Kept(t)
  BY <1>1, <1>2, HealthStays
<1>5. Shape(t) /\ t \notin archived /\ target # t /\ Shape(t)'
  BY <1>2, <1>4 DEF CheckInv, KeptShape
<1>6. CASE WakeUp
  <2>1. UNCHANGED <<req, sync, db, queue>> /\ phase' = "entries pending"
    BY <1>6
    DEF WakeUp, Wake, ElsewhereThanStore, requestVars, storeVars, recordVars, entryVars
  <2>2. ~Asleep(t)
    BY <1>3, <1>4, <1>2, ListedIsAwake DEF CheckInv, ListedExist
  <2>3. sync[t] = "idle" /\ Fits
    BY <1>4, <2>2 DEF Kept
  <2>4. req[t] = "done"
    BY <1>3, <1>6, <2>2, <2>3 DEF WakeUp, Asleep
  <2>5. db[t] # "none"
    BY <1>3 DEF CheckInv, ListedExist
  <2>6. queue[t] \in {"pending", "active", "gone"}
    BY <1>5, <2>4, <2>5 DEF Shape, NotQueued, Waiting, Running, Left
  <2> QED BY <2>1, <2>6 DEF Found
<1>7. CASE Woken /\ ~WakeUp
  <2>1. Found(t) /\ req[t] = "done" /\ Fits /\ sync[t] = "idle" /\ ~Asleep(t)
    BY <1>2, <1>3, <1>4, <1>7, ListedIsLinked DEF Kept, Asleep
  <2>2. CASE AgentStep
    <3>1. UNCHANGED <<phase, unfinished>>
      BY <2>2 DEF AgentStep, checkVars
    <3> QED BY <1>1, <1>2, <1>5, <2>1, <2>2, <3>1, QueueMoves DEF Found
  <2>3. ASSUME UNCHANGED <<phase, unfinished>>, Untouched(t)
        PROVE  Found(t)'
    BY <2>1, <2>3 DEF Untouched, Found
  <2>4. ASSUME NEW x \in Task, Sync(x)
        PROVE  Found(t)'
    <3>1. t # x
      BY <1>1, <1>2, <2>4, SyncIsBusy DEF Kept, Asleep
    <3>2. Untouched(t)
      BY <1>1, <1>2, <2>4, <3>1, SyncForm, StoreStepLocal
    <3>3. UNCHANGED <<phase, unfinished>>
      BY <2>4 DEF Sync, checkVars
    <3> QED BY <2>3, <3>2, <3>3
  <2>5. CASE Check
    <3>1. queue'[t] = queue[t]
      BY <1>1, <1>2, <1>5, <2>5, CheckStepLocal DEF Untouched
    <3>2. CASE ListUnfinished
      <4>1. UNCHANGED queue
        BY <3>2 DEF ListUnfinished, ListEntries, UnchangedStore, entryVars
      <4> QED BY <1>2, <2>1, <3>2, <4>1, ListingFinds
    <3>3. CASE \E x \in Task : CheckOne(x)
      <4>1. /\ phase \in {"check", "fail", "fail in database"}
            /\ phase' \in {"check", "fail", "fail in database"}
            /\ unfinished' = unfinished
        BY <1>2, <1>7, <3>3
        DEF CheckOne, MarkArchived, DropArchived, CheckRecord, FailMissing, FailExpired,
            FailRecord, Woken
      <4> QED BY <2>1, <3>1, <4>1 DEF Found
    <3>4. ~(CheckBegin \/ ArchivedDone \/ ListRecordsStep \/ CheckDone)
      BY <1>2, <1>7
      DEF CheckBegin, ArchivedDone, ListRecordsStep, ListRecords, CheckDone, Woken
    <3> QED BY <1>7, <2>5, <3>2, <3>3, <3>4 DEF Check, CheckStep
  <2>6. ~Restart
    BY <1>2 DEF Restart, Woken
  <2>7. CASE UNCHANGED allVars
    <3>1. Untouched(t)
      BY <1>2, <2>7, StutterLocal DEF allVars
    <3> QED BY <2>3, <2>7, <3>1 DEF allVars, checkVars
  <2> QED BY <2>2, <2>4, <2>5, <2>6, <2>7 DEF CheckedNext
<1> QED BY <1>3, <1>6, <1>7

-----------------------------------------------------------------------------
(* The results.                                                            *)

(* The invariant holds at the start.                                       *)
LEMMA CheckInvInitially == CheckedInit => CheckInv
<1> SUFFICES ASSUME CheckedInit PROVE CheckInv
  OBVIOUS
<1>1. AgentAndCheckTyped
  BY Initially
  DEF CheckedInit, AgentAndCheckTyped, SyncInit, SyncTypeOK, SyncStage, CheckInit, CheckTypeOK,
      Phase
<1>2. CancelHasRecord
  BY DEF CheckedInit, Init, ControlInit, CancelHasRecord
<1>3. ListedExist /\ ListedRested /\ ListedFound
  BY DEF CheckedInit, CheckInit, ListedExist, ListedRested, ListedFound, Woken
<1>4. KeptShape
  BY UndisturbedInitially, StatusCheckAssumption
  DEF CheckedInit, CheckInit, KeptShape, UndisturbedShape, ShapesOf
<1>5. SyncShapes
  BY DEF CheckedInit, SyncInit, SyncShapes
<1> QED BY <1>1, <1>2, <1>3, <1>4, <1>5 DEF CheckInv

(* Every step keeps it.                                                    *)
LEMMA CheckInvInductive == CheckInv /\ [CheckedNext]_allVars => CheckInv'
<1> SUFFICES ASSUME CheckInv, [CheckedNext]_allVars PROVE CheckInv'
  OBVIOUS
<1>1. AgentAndCheckTyped' /\ CancelHasRecord' /\ ListedExist'
  BY CheckedTyping, CancelHasRecordKept, ListedExistKept DEF CheckInv
<1>2. KeptShape' /\ SyncShapes' /\ ListedRested'
  BY KeptShapeKept, SyncShapesKept, ListedRestedKept
<1>3. ListedFound'
  BY <1>2, ListedFoundKept
<1> QED BY <1>1, <1>2, <1>3 DEF CheckInv

(* Healthy tasks have their shapes, and the check has listed them          *)
(* correctly, in every reachable state.                                    *)
THEOREM CheckInvHolds == CheckedSpec => []CheckInv
BY CheckInvInitially, CheckInvInductive, PTL DEF CheckedSpec

(* The check chooses no task that nothing hurt and that nobody canceled or *)
(* deleted, provided a listing fits its page and predictions end within    *)
(* TASK_TIMEOUT (distributor.go:248-321).                                  *)
THEOREM HealthyTasksAreSpared == CheckedSpec => []HealthyTaskSpared
<1>1. CheckInv => HealthyTaskSpared
  <2>1. SUFFICES ASSUME CheckInv, Fits, NEW t \in Task, t \notin Hurt \cup CanceledOrPurged
                 PROVE  target # t
    BY DEF HealthyTaskSpared, Fits
  <2>2. CASE sync[t] = "idle"
    BY <2>1, <2>2 DEF CheckInv, KeptShape, Kept, Hurt
  <2>3. CASE sync[t] # "idle"
    BY <2>1, <2>3 DEF CheckInv, SyncShapes, SyncShape, Fits
  <2> QED BY <2>2, <2>3
<1> QED BY <1>1, CheckInvHolds, PTL

(* The result of a synchronous prediction that its client was given stays  *)
(* in the record: neither the check nor a cancel or a bulk deletion        *)
(* touches it (v1.go:62-74, 217).                                          *)
THEOREM SyncResultsStand == CheckedSpec => []SyncResultStands
<1>1. CheckInv => SyncResultStands
  BY DEF CheckInv, SyncShapes, SyncShape, SyncResultStands
<1> QED BY <1>1, CheckInvHolds, PTL

-----------------------------------------------------------------------------
(* The agent with its check implements TaskLifecycle.                      *)

(* The tasks to which TaskLifecycle promises nothing.                      *)
NotSpared == Hurt \cup CanceledOrPurged

(* A task out of luck stays so.                                            *)
LEMMA NotSparedGrows ==
    ASSUME CheckInv, CheckInv', [CheckedNext]_allVars
    PROVE  NotSpared \subseteq NotSpared' /\ NotSpared' \in SUBSET Task
<1>1. AgentAndCheckTyped /\ AgentAndCheckTyped' /\ CancelHasRecord
  BY DEF CheckInv
<1>2. NotSpared \subseteq Task /\ NotSpared' \subseteq Task
  BY <1>1
  DEF AgentAndCheckTyped, IInv, TypeOK, AgentTypeOK, StoreTypeOK, FaultTypeOK, ControlTypeOK,
      NotSpared, Hurt, Abandoned, CanceledOrPurged
<1> QED BY <1>1, <1>2, HealthStays DEF NotSpared, Hurt

(* Whoever takes the step, one row at most changes.                        *)
LEMMA CheckedStepIsLocal ==
    ASSUME AgentAndCheckTyped, [CheckedNext]_allVars
    PROVE  db' = db \/ \E t \in Task : \A x \in Task \ {t} : db'[x] = db[x]
<1>1. IInv /\ FaultTypeOK
  BY DEF AgentAndCheckTyped, IInv, TypeOK, AgentTypeOK, StoreTypeOK
<1>2. CASE AgentStep
  BY <1>1, <1>2, AgentStepIsNext, StepIsLocal
<1>3. ASSUME NEW t \in Task, Sync(t) \/ (CheckOne(t) /\ UNCHANGED <<ElsewhereThanStore, sync>>)
      PROVE  \A x \in Task \ {t} : db'[x] = db[x]
  BY <1>1, <1>3, SyncForm, CheckOneForm, StoreStepLocal DEF Untouched
<1>4. CASE WakeUp \/ (CheckReads /\ UNCHANGED <<ElsewhereThanStore, sync>>)
  BY <1>1, <1>4, CheckReadsForm DEF recordVars
<1>5. CASE Restart \/ UNCHANGED allVars
  BY <1>5 DEF Restart, Crash, Die, allVars, vars, storeVars, recordVars
<1> QED BY <1>2, <1>3, <1>4, <1>5 DEF CheckedNext, Check, CheckStep, CheckReads

(* The row of a spared task makes a legal move or none.                    *)
LEMMA SparedMoves ==
    ASSUME CheckInv, Fits, [CheckedNext]_allVars, NEW t \in Task, t \notin NotSpared
    PROVE  db'[t] = db[t] \/ <<db[t], db'[t]>> \in CheckedLifecycle!Move
<1> DEFINE Moves == db'[t] = db[t] \/ <<db[t], db'[t]>> \in CheckedLifecycle!Move
<1>1. IInv /\ SyncTypeOK /\ FaultTypeOK /\ Typed /\ sync \in [Task -> SyncStage]
  BY TypesOfState
  DEF CheckInv, AgentAndCheckTyped, IInv, TypeOK, AgentTypeOK, StoreTypeOK, SyncTypeOK
<1>2. /\ t \notin archived /\ target # t
      /\ sync[t] = "idle" => Shape(t)
      /\ sync[t] # "idle" => SyncShape(t)
  BY DEF NotSpared, CheckInv, KeptShape, Kept, SyncShapes, SyncShape, Hurt, Fits
<1>3. Untouched(t) \/ db' = db => Moves
  BY DEF Untouched
<1>4. CASE AgentStep
  <2>1. CASE sync[t] = "idle"
    BY <1>1, <1>2, <1>4, <2>1, AgentStepIsNext, ShapeMoves
    DEF Lifecycle!Move, CheckedLifecycle!Move
  <2>2. CASE sync[t] # "idle"
    BY <1>1, <1>2, <1>3, <1>4, <2>2, AgentLeavesSync DEF Expire
  <2> QED BY <2>1, <2>2
<1>5. CASE Sync(t)
  <2>1. CASE SyncCreate(t)
    BY <1>1, <1>2, <2>1, CallMoves DEF SyncCreate, SyncShape, After, CheckedLifecycle!Move
  <2>2. CASE SyncReport(t)
    BY <1>1, <1>2, <2>2, CallMoves DEF SyncReport, SyncShape, After, CheckedLifecycle!Move
  <2>3. CASE SyncArrive(t) \/ SyncRun(t) \/ SyncRead(t)
    BY <1>3, <2>3 DEF SyncArrive, SyncRun, SyncRead, storeVars, recordVars
  <2> QED BY <1>5, <2>1, <2>2, <2>3 DEF Sync, SyncStep
<1>6. ASSUME NEW x \in Task \ {t}, Sync(x)
      PROVE  Moves
  BY <1>1, <1>3, <1>6, SyncForm, StoreStepLocal
<1>7. CASE Check
  BY <1>1, <1>2, <1>3, <1>7, CheckStepLocal
<1>8. CASE Restart \/ UNCHANGED allVars
  BY <1>3, <1>8 DEF Restart, Crash, Die, allVars, vars, storeVars, recordVars
<1> QED BY <1>4, <1>5, <1>6, <1>7, <1>8 DEF CheckedNext

(* So every step is a step of the lifecycle.                               *)
LEMMA CheckedStepRefines ==
    ASSUME CheckInv, CheckInv', Fits, [CheckedNext]_allVars
    PROVE  [CheckedLifecycle!LifecycleNext]_<<db, NotSpared>>
<1>1. Typed /\ TypeOK' /\ AgentAndCheckTyped
  BY TypesOfState DEF CheckInv, AgentAndCheckTyped, IInv
<1>2. CheckedLifecycle!Hurt
  BY NotSparedGrows DEF CheckedLifecycle!Hurt, NotSpared
<1>3. ASSUME db' = db
      PROVE  CheckedLifecycle!LifecycleNext
  BY <1>2, <1>3 DEF CheckedLifecycle!LifecycleNext
<1>4. ASSUME NEW t \in Task, \A x \in Task \ {t} : db'[x] = db[x]
      PROVE  CheckedLifecycle!LifecycleNext
  <2>1. db' = [db EXCEPT ![t] = db'[t]]
    BY <1>1, <1>4, OneRow
  <2>2. CASE db'[t] = db[t]
    <3>1. db' = db
      BY <1>1, <2>1, <2>2 DEF Typed
    <3> QED BY <1>3, <3>1
  <2>3. CASE t \in NotSpared
    <3>1. db'[t] \in CheckedLifecycle!LifecycleStatus
      BY <1>1
      DEF TypeOK, AgentTypeOK, StoreTypeOK, RecordTypeOK, Status, CheckedLifecycle!LifecycleStatus
    <3>2. CheckedLifecycle!Stray(t)
      BY <2>1, <2>3, <3>1 DEF CheckedLifecycle!Stray, NotSpared
    <3> QED BY <1>2, <3>2 DEF CheckedLifecycle!LifecycleNext
  <2>4. CASE t \notin NotSpared /\ db'[t] # db[t]
    <3>1. <<db[t], db'[t]>> \in CheckedLifecycle!Move
      BY <2>4, SparedMoves
    <3>2. CheckedLifecycle!Progress(t)
      BY <2>1, <3>1 DEF CheckedLifecycle!Progress
    <3> QED BY <1>2, <3>2 DEF CheckedLifecycle!LifecycleNext
  <2> QED BY <2>2, <2>3, <2>4
<1> QED BY <1>1, <1>3, <1>4, CheckedStepIsLocal

(* Where listings fit their page and predictions end within TASK_TIMEOUT,  *)
(* the agent with its check and its synchronous predictions keeps the      *)
(* promise of TaskLifecycle to every task that nothing hurt and that was   *)
(* not canceled or deleted in bulk.                                        *)
THEOREM CheckedAgentRefinesLifecycle == Fits /\ CheckedSpec => CheckedLifecycleHolds
<1>1. CheckedInit => CheckedLifecycle!LifecycleInit
  BY DEF CheckedInit, Init, StoreInit, ControlInit, SyncInit, Hurt, Abandoned, CanceledOrPurged,
         CheckedLifecycle!LifecycleInit
<1>2. CheckInv /\ CheckInv' /\ Fits /\ [CheckedNext]_allVars
      => [CheckedLifecycle!LifecycleNext]_CheckedLifecycle!lifecycleVars
  BY CheckedStepRefines DEF CheckedLifecycle!lifecycleVars, NotSpared
<1>3. Fits => []Fits
  <2>1. Fits => Fits'
    BY DEF Fits
  <2> QED BY <2>1, PTL
<1> QED
  BY <1>1, <1>2, <1>3, CheckInvHolds, PTL
  DEF CheckedSpec, CheckedLifecycleHolds, CheckedLifecycle!LifecycleSpec

=============================================================================
