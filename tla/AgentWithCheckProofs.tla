----------------------- MODULE AgentWithCheckProofs -----------------------
(***************************************************************************)
(* Proofs about AgentWithCheck, for every set of tasks and every bound:    *)
(* the forms a step of the check or of a synchronous handler can take, the *)
(* types, and what AsyncAgent promises of its tasks, which has to hold     *)
(* although synchronous handlers and the check write to the same records   *)
(* and the check deletes entries of the same queue.                        *)
(***************************************************************************)
EXTENDS AgentWithCheck, UndisturbedProofs, FiniteSetTheorems

AgentAndCheckTyped == IInv /\ SyncTypeOK /\ CheckTypeOK

(* To the check and the synchronous handlers a step of the agent is a step *)
(* of AsyncAgent.                                                          *)
LEMMA AgentStepIsNext == AgentStep => Next /\ UNCHANGED <<sync, checkVars>>
BY DEF AgentStep, Next

(* A step that reads, makes one webhook call or deletes one entry keeps    *)
(* the types and the counts.                                               *)
LEMMA StoreStepKeepsIInv ==
    ASSUME IInv, UNCHANGED <<ElsewhereThanStore, paused>>,
           \/ UNCHANGED <<recordVars, entryVars>> /\ FaultTypeOK'
           \/ /\ UNCHANGED entryVars
              /\ \E t \in Task : \E w \in Write : CallDone(t, w) \/ CallFails(t, w)
           \/ UNCHANGED recordVars /\ \E t \in Task : Deleted(t) \/ DeleteFails(t)
    PROVE  IInv'
<1>1. UNCHANGED <<req, reply, attempts, exec, cancel, purge, purged, crashes, paused>>
  BY DEF ElsewhereThanStore, requestVars, processorVars, controlVars
<1>2. RequestTypeOK' /\ ProcessorTypeOK' /\ ControlTypeOK' /\ (crashes \in 0..MaxCrashes)'
      /\ (paused \in BOOLEAN)'
  BY <1>1
  DEF IInv, TypeOK, AgentTypeOK, StoreTypeOK, RequestTypeOK, ProcessorTypeOK, ControlTypeOK
<1>3. RecordTypeOK /\ EntryTypeOK /\ FaultTypeOK
  BY DEF IInv, TypeOK, AgentTypeOK, StoreTypeOK
<1>4. SUFFICES /\ RecordTypeOK' /\ EntryTypeOK' /\ FaultTypeOK'
               /\ AttemptsMatchRetries' /\ NotYetEnqueued'
  BY <1>2 DEF IInv, TypeOK, AgentTypeOK, StoreTypeOK
<1>5. ASSUME UNCHANGED entryVars
      PROVE  EntryTypeOK' /\ AttemptsMatchRetries' /\ NotYetEnqueued'
  BY <1>1, <1>3, <1>5 DEF entryVars, EntryTypeOK, IInv, AttemptsMatchRetries, NotYetEnqueued
<1>6. CASE UNCHANGED <<recordVars, entryVars>> /\ FaultTypeOK'
  BY <1>3, <1>5, <1>6 DEF recordVars, RecordTypeOK
<1>7. ASSUME UNCHANGED entryVars, NEW t \in Task, NEW w \in Write, CallDone(t, w) \/ CallFails(t, w)
      PROVE  /\ RecordTypeOK' /\ EntryTypeOK' /\ FaultTypeOK'
             /\ AttemptsMatchRetries' /\ NotYetEnqueued'
  BY <1>3, <1>5, <1>7, CallTyping
<1>8. ASSUME UNCHANGED recordVars, NEW t \in Task, Deleted(t) \/ DeleteFails(t)
      PROVE  /\ RecordTypeOK' /\ EntryTypeOK' /\ FaultTypeOK'
             /\ AttemptsMatchRetries' /\ NotYetEnqueued'
  <2>1. RecordTypeOK'
    BY <1>3, <1>8 DEF recordVars, RecordTypeOK
  <2>2. EntryTypeOK' /\ FaultTypeOK'
    BY <1>3, <1>8, DeleteTyping
  <2>3. AttemptsMatchRetries' /\ NotYetEnqueued'
    BY <1>1, <1>8, DeleteKeepsCounts DEF IInv, processorVars
  <2> QED BY <2>1, <2>2, <2>3
<1> QED BY <1>6, <1>7, <1>8

(* The synchronous handler of t, or what the check does about t, concerns  *)
(* t only.                                                                 *)
LEMMA StoreStepLocal ==
    ASSUME IInv, UNCHANGED ElsewhereThanStore, NEW t \in Task,
           \/ UNCHANGED <<recordVars, entryVars>> /\ disturbed' \in {disturbed, disturbed \cup {t}}
           \/ UNCHANGED entryVars /\ \E w \in Write : CallDone(t, w) \/ CallFails(t, w)
           \/ UNCHANGED recordVars /\ (Deleted(t) \/ DeleteFails(t))
    PROVE  /\ \A x \in Task \ {t} : Untouched(x)
           /\ disturbed \subseteq disturbed'
<1>1. Typed /\ UNCHANGED <<attempts, exec, req, cancel, purged>>
  BY TypesOfState DEF IInv, ElsewhereThanStore, requestVars, processorVars, controlVars
<1>2. CASE UNCHANGED <<recordVars, entryVars>> /\ disturbed' \in {disturbed, disturbed \cup {t}}
  BY <1>1, <1>2 DEF Untouched, recordVars, entryVars
<1>3. ASSUME UNCHANGED entryVars, NEW w \in Write, CallDone(t, w) \/ CallFails(t, w)
      PROVE  (\A x \in Task \ {t} : Untouched(x)) /\ disturbed \subseteq disturbed'
  <2>1. disturbed \subseteq disturbed'
    BY <1>3 DEF CallDone, CallFails, CallRefused, CallLost, Lingers, Fault, faultVars
  <2> QED BY <1>1, <1>3, <2>1, CallLocal DEF Untouched, entryVars
<1>4. CASE UNCHANGED recordVars /\ (Deleted(t) \/ DeleteFails(t))
  <2>1. /\ disturbed \subseteq disturbed' /\ retried' = retried
        /\ \A x \in Task \ {t} : queue'[x] = queue[x]
    BY <1>1, <1>4, DeleteEffect
    DEF Deleted, DeleteFails, DeleteRefused, DeleteLost, Fault, faultVars, Typed
  <2> QED BY <1>1, <1>4, <2>1 DEF Untouched, recordVars
<1> QED BY <1>2, <1>3, <1>4

(* The forms a step of the check or of a synchronous handler can take.     *)
LEMMA SyncForm ==
    ASSUME FaultTypeOK, NEW t \in Task, Sync(t)
    PROVE  /\ UNCHANGED <<ElsewhereThanStore, checkVars, paused>>
           /\ \A x \in Task \ {t} : SyncTypeOK => sync'[x] = sync[x]
           /\ \/ /\ UNCHANGED <<recordVars, entryVars>>
                 /\ disturbed' \in {disturbed, disturbed \cup {t}}
                 /\ FaultTypeOK'
              \/ UNCHANGED entryVars /\ \E w \in Write : CallDone(t, w) \/ CallFails(t, w)
<1>1. UNCHANGED <<ElsewhereThanStore, checkVars, paused>>
  BY DEF Sync, SyncArrive, SyncStep, SyncCreate, SyncRun, SyncReport, SyncRead, storeVars
<1>2. \A x \in Task \ {t} : SyncTypeOK => sync'[x] = sync[x]
  BY DEF Sync, SyncArrive, SyncStep, SyncCreate, SyncRun, SyncReport, SyncRead, SyncGoto, SyncTypeOK
<1>3. CASE SyncCreate(t) \/ SyncReport(t)
  BY <1>1, <1>2, <1>3 DEF SyncCreate, SyncReport, Write, Creation
<1>4. CASE SyncArrive(t) \/ SyncRun(t) \/ SyncRead(t)
  <2>1. /\ UNCHANGED <<recordVars, entryVars>>
        /\ UNCHANGED faultVars \/ Fault(t) \/ ReadLost
    BY <1>4 DEF SyncArrive, SyncRun, SyncRead, storeVars
  <2>2. disturbed' \in {disturbed, disturbed \cup {t}}
    BY <2>1 DEF Fault, ReadLost, faultVars
  <2>3. FaultTypeOK'
    BY <2>1, FaultTyping, ReadLostTyping DEF FaultTypeOK, faultVars
  <2> QED BY <1>1, <1>2, <2>1, <2>2, <2>3
<1> QED BY <1>3, <1>4 DEF Sync, SyncStep

CheckReads == CheckBegin \/ ArchivedDone \/ ListRecordsStep \/ ListUnfinished \/ CheckDone

(* A step of the check that only looks leaves records and entries alone.   *)
LEMMA CheckReadsForm ==
    ASSUME FaultTypeOK, WakeUp \/ (CheckReads /\ UNCHANGED <<ElsewhereThanStore, sync>>)
    PROVE  /\ UNCHANGED <<ElsewhereThanStore, sync, paused, recordVars, entryVars, target>>
           /\ FaultTypeOK' /\ disturbed \subseteq disturbed'
<1>1. UNCHANGED <<ElsewhereThanStore, sync, paused, recordVars, entryVars, target>>
  BY DEF WakeUp, Wake, CheckReads, CheckBegin, ArchivedDone, ListRecordsStep, ListRecords,
         ListUnfinished, ListEntries, CheckDone, UnchangedStore, storeVars
<1>2. UNCHANGED faultVars \/ ReadLost \/ \E s, found : ListsEntries(s, found)
  BY DEF WakeUp, Wake, CheckReads, CheckBegin, ArchivedDone, ListRecordsStep, ListRecords,
         ListUnfinished, ListEntries, CheckDone, storeVars
<1>3. FaultTypeOK' /\ disturbed \subseteq disturbed'
  BY <1>2, ReadLostTyping, ListTyping DEF FaultTypeOK, faultVars, ReadLost
<1> QED BY <1>1, <1>3

(* A step of the check about one task is a read, one webhook call or one   *)
(* deletion.                                                               *)
LEMMA CheckOneForm ==
    ASSUME FaultTypeOK, NEW t \in Task, CheckOne(t), UNCHANGED <<ElsewhereThanStore, sync>>
    PROVE  /\ UNCHANGED <<ElsewhereThanStore, sync, paused>>
           /\ \/ /\ UNCHANGED <<recordVars, entryVars>>
                 /\ disturbed' \in {disturbed, disturbed \cup {t}}
                 /\ FaultTypeOK'
              \/ UNCHANGED entryVars /\ \E w \in Write : CallDone(t, w) \/ CallFails(t, w)
              \/ UNCHANGED recordVars /\ (Deleted(t) \/ DeleteFails(t))
<1>1. CASE MarkArchived(t) \/ FailMissing(t) \/ FailExpired(t)
  BY <1>1 DEF MarkArchived, FailMissing, FailExpired, FailRecord, Write
<1>2. CASE DropArchived(t)
  BY <1>2 DEF DropArchived
<1>3. CASE \E s \in Unsettled : CheckRecord(s, t)
  <2>1. /\ UNCHANGED <<recordVars, entryVars, paused>>
        /\ UNCHANGED faultVars \/ Fault(t)
    BY <1>3 DEF CheckRecord, UnchangedStore
  <2>2. FaultTypeOK' /\ disturbed' \in {disturbed, disturbed \cup {t}}
    BY <2>1, FaultTyping DEF FaultTypeOK, faultVars, Fault
  <2> QED BY <2>1, <2>2
<1> QED BY <1>1, <1>2, <1>3 DEF CheckOne

(* Every step keeps the types and the agent's counts.                      *)
LEMMA CheckedTyping ==
    ASSUME AgentAndCheckTyped, [CheckedNext]_allVars
    PROVE  AgentAndCheckTyped'
<1>1. FaultTypeOK
  BY DEF AgentAndCheckTyped, IInv, TypeOK, AgentTypeOK, StoreTypeOK
<1>2. CASE AgentStep \/ UNCHANGED allVars
  BY <1>2, AgentStepIsNext, Inductive
  DEF AgentAndCheckTyped, SyncTypeOK, CheckTypeOK, checkVars, allVars
<1>3. ASSUME NEW t \in Task, Sync(t)
      PROVE  AgentAndCheckTyped'
  <2>1. IInv' /\ CheckTypeOK'
    BY <1>1, <1>3, SyncForm, StoreStepKeepsIInv DEF AgentAndCheckTyped, CheckTypeOK, checkVars
  <2>2. SyncTypeOK'
    BY <1>3
    DEF AgentAndCheckTyped, Sync, SyncArrive, SyncStep, SyncCreate, SyncRun, SyncReport, SyncRead,
        SyncGoto, SyncTypeOK, SyncStage, SyncDone
  <2> QED BY <2>1, <2>2 DEF AgentAndCheckTyped
<1>4. CASE WakeUp \/ (CheckReads /\ UNCHANGED <<ElsewhereThanStore, sync>>)
  <2>1. IInv' /\ SyncTypeOK'
    BY <1>1, <1>4, CheckReadsForm, StoreStepKeepsIInv DEF AgentAndCheckTyped, SyncTypeOK
  <2>2. CheckTypeOK'
    <3>1. CheckTypeOK
      BY DEF AgentAndCheckTyped
    <3>2. CASE WakeUp \/ ArchivedDone \/ CheckDone
      BY <3>1, <3>2 DEF WakeUp, Wake, ArchivedDone, CheckDone, CheckTypeOK, Phase
    <3>3. CASE CheckBegin
      BY <3>1, <3>3 DEF CheckBegin, ListsEntries, Page, CheckTypeOK, Phase
    <3>4. CASE ListRecordsStep
      BY <3>1, <3>4 DEF ListRecordsStep, ListRecords, CheckTypeOK, Phase, Unsettled
    <3>5. CASE ListUnfinished
      BY <3>1, <3>5 DEF ListUnfinished, ListEntries, CheckTypeOK, Phase
    <3> QED BY <1>4, <3>2, <3>3, <3>4, <3>5 DEF CheckReads
  <2> QED BY <2>1, <2>2 DEF AgentAndCheckTyped
<1>5. ASSUME NEW t \in Task, CheckOne(t), UNCHANGED <<ElsewhereThanStore, sync>>
      PROVE  AgentAndCheckTyped'
  <2>1. IInv' /\ SyncTypeOK'
    BY <1>1, <1>5, CheckOneForm, StoreStepKeepsIInv DEF AgentAndCheckTyped, SyncTypeOK
  <2>2. CheckTypeOK'
    BY <1>5
    DEF AgentAndCheckTyped, CheckOne, MarkArchived, DropArchived, CheckRecord, FailMissing,
        FailExpired, FailRecord, CheckTypeOK, Phase
  <2> QED BY <2>1, <2>2 DEF AgentAndCheckTyped
<1>6. CASE Restart
  <2>1. IInv'
    BY <1>6, Inductive DEF Restart, Next, AgentAndCheckTyped
  <2>2. SyncTypeOK' /\ CheckTypeOK'
    BY <1>6
    DEF Restart, AgentAndCheckTyped, SyncTypeOK, SyncStage, SyncDone, CheckTypeOK, Phase
  <2> QED BY <2>1, <2>2 DEF AgentAndCheckTyped
<1> QED
  BY <1>2, <1>3, <1>4, <1>5, <1>6 DEF CheckedNext, Check, CheckStep, CheckReads

(* The types hold throughout, and with them the link between retries and   *)
(* attempts on which the agent's own types depend.                         *)
THEOREM AgentAndCheckTypedHolds == CheckedSpec => []AgentAndCheckTyped
<1>1. CheckedInit => AgentAndCheckTyped
  BY Initially
  DEF CheckedInit, AgentAndCheckTyped, SyncInit, SyncTypeOK, SyncStage, CheckInit, CheckTypeOK,
      Phase
<1> QED BY <1>1, CheckedTyping, PTL DEF CheckedSpec

(* Every variable of the agent, of the synchronous handlers and of the     *)
(* check keeps its type, whatever calls fail.                              *)
THEOREM CheckedTypeCorrect == CheckedSpec => []CheckedTypeOK
<1>1. AgentAndCheckTyped => CheckedTypeOK
  BY DEF AgentAndCheckTyped, IInv, TypeOK, CheckedTypeOK
<1> QED BY <1>1, AgentAndCheckTypedHolds, PTL

-----------------------------------------------------------------------------
(* What AsyncAgent promises, kept with the check running.                  *)

(* Neither a synchronous handler nor the check marks a record canceled,    *)
(* and neither touches a cancel handler.                                   *)
LEMMA OthersCancelNothing ==
    ASSUME IInv,
           \/ \E t \in Task : Sync(t)
           \/ Check
    PROVE  /\ cancel' = cancel
           /\ \/ UNCHANGED recordVars
              \/ \E t \in Task : \E w \in Write \ {"canceled"} : CallDone(t, w) \/ CallFails(t, w)
<1>1. FaultTypeOK
  BY DEF IInv, TypeOK, AgentTypeOK, StoreTypeOK
<1>2. ASSUME NEW t \in Task, Sync(t)
      PROVE  /\ UNCHANGED ElsewhereThanStore
             /\ UNCHANGED recordVars
                \/ \E w \in Write \ {"canceled"} : CallDone(t, w) \/ CallFails(t, w)
  BY <1>2
  DEF Sync, SyncArrive, SyncStep, SyncCreate, SyncRun, SyncReport, SyncRead, storeVars, Write,
      Creation
<1>3. CASE WakeUp \/ (CheckReads /\ UNCHANGED <<ElsewhereThanStore, sync>>)
  BY <1>1, <1>3, CheckReadsForm DEF ElsewhereThanStore, controlVars
<1>4. ASSUME NEW t \in Task, CheckOne(t)
      PROVE  UNCHANGED recordVars
             \/ \E w \in Write \ {"canceled"} : CallDone(t, w) \/ CallFails(t, w)
  BY <1>4
  DEF CheckOne, MarkArchived, DropArchived, CheckRecord, FailMissing, FailExpired, FailRecord,
      UnchangedStore, Write
<1> QED
  BY <1>2, <1>3, <1>4 DEF Check, CheckStep, CheckReads, ElsewhereThanStore, controlVars

(* Neither puts an entry into the queue.                                   *)
LEMMA OthersEnqueueNothing ==
    ASSUME IInv, NEW x \in Task,
           \/ \E t \in Task : Sync(t)
           \/ Check
    PROVE  queue'[x] = queue[x] \/ (Deletable(x) /\ queue'[x] = "gone")
<1>1. FaultTypeOK /\ queue \in [Task -> QueueState]
  BY DEF IInv, TypeOK, AgentTypeOK, StoreTypeOK, EntryTypeOK
<1>2. CASE UNCHANGED entryVars
  BY <1>2 DEF entryVars
<1>3. ASSUME NEW t \in Task, Deleted(t) \/ DeleteFails(t)
      PROVE  queue'[x] = queue[x] \/ (Deletable(x) /\ queue'[x] = "gone")
  BY <1>1, <1>3 DEF Deleted, DeleteFails, DeleteRefused, DeleteLost, entryVars
<1>4. CASE \E t \in Task : Sync(t)
  BY <1>1, <1>2, <1>4, SyncForm
<1>5. CASE Check
  <2>1. CASE WakeUp \/ (CheckReads /\ UNCHANGED <<ElsewhereThanStore, sync>>)
    BY <1>1, <1>2, <2>1, CheckReadsForm
  <2>2. ASSUME NEW t \in Task, CheckOne(t), UNCHANGED <<ElsewhereThanStore, sync>>
        PROVE  queue'[x] = queue[x] \/ (Deletable(x) /\ queue'[x] = "gone")
    BY <1>1, <1>2, <1>3, <2>2, CheckOneForm
  <2> QED BY <1>5, <2>1, <2>2 DEF Check, CheckStep, CheckReads
<1> QED BY <1>4, <1>5

(* Every step is one of AsyncAgent, of a synchronous handler or of the     *)
(* check.                                                                  *)
LEMMA WhoseStep ==
    ASSUME [CheckedNext]_allVars
    PROVE  [Next]_vars \/ (\E t \in Task : Sync(t)) \/ Check
BY AgentStepIsNext DEF CheckedNext, Restart, Next, allVars

(* An entry that left the queue never comes back, with the check running.  *)
LEMMA CheckedGoneStep ==
    ASSUME IInv, [CheckedNext]_allVars, NEW x \in Task, queue[x] = "gone"
    PROVE  queue'[x] = "gone"
BY WhoseStep, GoneStep, OthersEnqueueNothing

(* A deleted or finished entry never comes back, although the check        *)
(* deletes entries too (distributor.go:177, DropArchived).                 *)
THEOREM CheckedGoneIsForGood == CheckedSpec => GoneStaysGone
<1>1. /\ AgentAndCheckTyped /\ [CheckedNext]_allVars
      => [\A t \in Task : queue[t] = "gone" => queue'[t] = "gone"]_vars
  BY CheckedGoneStep DEF AgentAndCheckTyped
<1> QED BY <1>1, AgentAndCheckTypedHolds, PTL DEF CheckedSpec, GoneStaysGone

(* Neither a synchronous handler nor the check moves an entry otherwise    *)
(* than by deleting it.                                                    *)
LEMMA OthersMove ==
    ASSUME IInv, NEW x \in Task,
           \/ \E t \in Task : Sync(t)
           \/ Check
    PROVE  EntryMove(x)
<1>1. FaultTypeOK /\ EntryTypeOK
  BY DEF IInv, TypeOK, AgentTypeOK, StoreTypeOK
<1>2. CASE UNCHANGED entryVars
  BY <1>2 DEF entryVars, EntryMove
<1>3. CASE \E t \in Task : Sync(t)
  BY <1>1, <1>2, <1>3, SyncForm
<1>4. CASE Check
  <2>1. CASE WakeUp \/ (CheckReads /\ UNCHANGED <<ElsewhereThanStore, sync>>)
    BY <1>1, <1>2, <2>1, CheckReadsForm
  <2>2. ASSUME NEW t \in Task, CheckOne(t), UNCHANGED <<ElsewhereThanStore, sync>>
        PROVE  EntryMove(x)
    BY <1>1, <1>2, <2>2, CheckOneForm, DeletionMoves
  <2> QED BY <1>4, <2>1, <2>2 DEF Check, CheckStep, CheckReads
<1> QED BY <1>3, <1>4

(* No entry runs in circles, although the check deletes archived entries   *)
(* while attempts at them may still run on (distributor.go:170-178).       *)
THEOREM CheckedEntriesAdvance == CheckedSpec => EntriesAdvance
<1>1. AgentAndCheckTyped /\ AgentAndCheckTyped' /\ [CheckedNext]_allVars
      => [\A t \in Task : <<queue[t], retried[t]>>' # <<queue[t], retried[t]>>
                          => ChangesLeft(t)' < ChangesLeft(t)]_vars
  BY WhoseStep, EntriesMove, OthersMove, MovesAdvance
  DEF AgentAndCheckTyped, IInv, TypeOK, AgentTypeOK, StoreTypeOK
<1> QED BY <1>1, AgentAndCheckTypedHolds, PTL DEF CheckedSpec, EntriesAdvance

(* A task that is, or may yet be, shown as canceled has left the queue for *)
(* good, whatever the check writes and deletes meanwhile.                  *)
THEOREM CheckedCancelsAreDequeued == CheckedSpec => []CanceledIsDequeued
<1>1. CheckedInit => CanceledIsDequeued
  BY DEF CheckedInit, Init, StoreInit, ControlInit, CanceledIsDequeued, MayShowCanceled
<1>2. ASSUME AgentAndCheckTyped, CanceledIsDequeued, [CheckedNext]_allVars
      PROVE  CanceledIsDequeued'
  <2>1. ASSUME NEW x \in Task, MayShowCanceled(x)'
        PROVE  MayShowCanceled(x) \/ queue'[x] = "gone"
    <3>1. CASE [Next]_vars
      BY <1>2, <2>1, <3>1, CanceledStep DEF AgentAndCheckTyped
    <3>2. CASE (\E t \in Task : Sync(t)) \/ Check
      BY <1>2, <2>1, <3>2, OthersCancelNothing, CallKeepsUncanceled, SameRecordsUncanceled
      DEF AgentAndCheckTyped, IInv
    <3> QED BY <1>2, <3>1, <3>2, WhoseStep
  <2> QED BY <1>2, <2>1, CheckedGoneStep DEF CanceledIsDequeued, AgentAndCheckTyped
<1> QED BY <1>1, <1>2, AgentAndCheckTypedHolds, PTL DEF CheckedSpec

(* The retry count and the attempts stay in step with the check running:   *)
(* it deletes archived entries while their last attempt may still run on.  *)
THEOREM CheckedAttemptsBounded == CheckedSpec => []AttemptsMatchRetries
<1>1. AgentAndCheckTyped => AttemptsMatchRetries
  BY DEF AgentAndCheckTyped, IInv
<1> QED BY <1>1, AgentAndCheckTypedHolds, PTL

-----------------------------------------------------------------------------
(* How records are written.                                                *)

(* Only the handler of a request creates a record.                         *)
MayCreate(t, w) ==
    \/ w = "create" /\ req[t] = "create"
    \/ w = "create running" /\ sync[t] = "create"

(* A step that concerns records makes one call, carries out a late one, or *)
(* lets one expire.                                                        *)
RecordWrites ==
    \/ UNCHANGED recordVars /\ disturbed \subseteq disturbed'
    \/ \E t \in Task, w \in Write :
          (CallDone(t, w) \/ CallFails(t, w)) /\ (w \in Creation => MayCreate(t, w))
    \/ \E u \in late : CarryLate(u)
    \/ \E t \in Task : Expire(t)

(* So does every step of the agent with its check.                         *)
LEMMA WhoWritesRecords ==
    ASSUME AgentAndCheckTyped, [CheckedNext]_allVars
    PROVE  RecordWrites
<1>1. IInv /\ FaultTypeOK
  BY DEF AgentAndCheckTyped, IInv, TypeOK, AgentTypeOK, StoreTypeOK
<1>2. CASE UNCHANGED recordVars /\ [Next]_vars
  BY <1>2, DisturbedGrows DEF RecordWrites
<1>3. ASSUME NEW t \in Task, NEW w \in Write \ Creation, CallDone(t, w) \/ CallFails(t, w)
      PROVE  RecordWrites
  BY <1>3 DEF RecordWrites
<1>4. ASSUME [Next]_vars
      PROVE  RecordWrites
  <2>1. ASSUME NEW t \in Task, Arrive(t) \/ Handle(t)
        PROVE  RecordWrites
    <3>1. CASE Create(t)
      BY <3>1 DEF Create, RecordWrites, MayCreate, Write, Creation
    <3>2. CASE ~Create(t)
      BY <1>2, <1>3, <1>4, <2>1, <3>2
      DEF Arrive, Handle, Admit, RequestStep, Enqueue, MarkFailed, Link, Unlink, Write, Creation
    <3> QED BY <3>1, <3>2
  <2>2. ASSUME NEW t \in Task, Process(t)
        PROVE  RecordWrites
    BY <1>2, <1>3, <1>4, <2>2
    DEF Process, ProcessorStep, Dequeue, Deadline, RetryDue, RecoverLease, AttemptStep, SetRunning,
        Predict, Report, Finish, Write, Creation
  <2>3. CASE Control
    BY <1>2, <1>3, <1>4, <2>3
    DEF Control, ControlStep, CancelStep, CancelLookup, CancelDelete, CancelMark, PurgeDelete,
        PurgeList, PauseQueue, UnpauseQueue, storeVars, Write, Creation
  <2>4. CASE Services
    BY <2>4 DEF Services, StoreStep, RecordWrites
  <2>5. CASE Crash \/ UNCHANGED vars
    BY <1>2, <1>4, <2>5 DEF Crash, Die, vars, storeVars
  <2> QED BY <1>4, <2>1, <2>2, <2>3, <2>4, <2>5 DEF Next
<1>5. ASSUME NEW t \in Task, Sync(t)
      PROVE  RecordWrites
  <2>1. CASE SyncCreate(t)
    BY <2>1 DEF SyncCreate, RecordWrites, MayCreate, Write, Creation
  <2>2. CASE SyncReport(t)
    BY <1>3, <2>2 DEF SyncReport, Write, Creation
  <2>3. CASE SyncArrive(t) \/ SyncRun(t) \/ SyncRead(t)
    BY <2>3
    DEF SyncArrive, SyncRun, SyncRead, ReadLost, Fault, storeVars, faultVars, recordVars,
        RecordWrites
  <2> QED BY <1>5, <2>1, <2>2, <2>3 DEF Sync, SyncStep
<1>6. CASE Check
  <2>1. CASE WakeUp \/ (CheckReads /\ UNCHANGED <<ElsewhereThanStore, sync>>)
    BY <1>1, <2>1, CheckReadsForm DEF RecordWrites
  <2>2. ASSUME NEW t \in Task, CheckOne(t), UNCHANGED <<ElsewhereThanStore, sync>>
        PROVE  RecordWrites
    <3>1. CASE MarkArchived(t) \/ FailMissing(t) \/ FailExpired(t)
      BY <1>3, <3>1 DEF MarkArchived, FailMissing, FailExpired, FailRecord, Write, Creation
    <3>2. CASE DropArchived(t) \/ \E s \in Unsettled : CheckRecord(s, t)
      BY <3>2
      DEF DropArchived, Deleted, DeleteFails, DeleteRefused, DeleteLost, CheckRecord,
          UnchangedStore, Fault, faultVars, RecordWrites
    <3> QED BY <2>2, <3>1, <3>2 DEF CheckOne
  <2> QED BY <1>6, <2>1, <2>2 DEF Check, CheckStep, CheckReads
<1> QED BY <1>4, <1>5, <1>6, WhoseStep

(* Failures only ever hit more tasks, and a copy of a call that outlives   *)
(* it belongs to a task that was hit.                                      *)
LateIsHurt == \A u \in late : u.task \in disturbed

(* No step forgets a failure or leaves a copy of a call without one.       *)
LEMMA HurtIsKept ==
    ASSUME AgentAndCheckTyped, [CheckedNext]_allVars
    PROVE  disturbed \subseteq disturbed' /\ (LateIsHurt => LateIsHurt')
<1>1. CASE UNCHANGED recordVars /\ disturbed \subseteq disturbed'
  BY <1>1 DEF recordVars, LateIsHurt
<1>2. CASE \E t \in Task, w \in Write : CallDone(t, w) \/ CallFails(t, w)
  BY <1>2, CallEffect DEF LateIsHurt
<1>3. CASE \E u \in late : CarryLate(u)
  BY <1>3 DEF CarryLate, Fault, faultVars, LateIsHurt
<1>4. CASE \E t \in Task : Expire(t)
  BY <1>4 DEF Expire, Fault, LateIsHurt
<1> QED BY <1>1, <1>2, <1>3, <1>4, WhoWritesRecords DEF RecordWrites

(* The record of a task whose request was answered keeps what it holds as  *)
(* long as no failure hurts the task: its QueueID and, in redis, its life. *)
LEMMA RecordIsKept ==
    ASSUME AgentAndCheckTyped, LateIsHurt, [CheckedNext]_allVars,
           NEW x \in Task, x \notin disturbed'
    PROVE  /\ db[x] # "none" => db'[x] # "none"
           /\ cache[x] # "none" => cache'[x] # "none"
           /\ x \in linked /\ (\A w \in Creation : ~MayCreate(x, w)) => x \in linked'
<1>1. /\ cache \in [Task -> Status \cup {"none"}] /\ db \in [Task -> Status \cup {"none"}]
      /\ late \subseteq LateCall
  BY DEF AgentAndCheckTyped, IInv, TypeOK, AgentTypeOK, StoreTypeOK, RecordTypeOK
<1>2. x \notin disturbed
  BY HurtIsKept
<1>3. CASE UNCHANGED recordVars
  BY <1>3 DEF recordVars
<1>4. ASSUME NEW t \in Task, NEW w \in Write, CallDone(t, w) \/ CallFails(t, w),
             w \in Creation => MayCreate(t, w)
      PROVE  /\ db[x] # "none" => db'[x] # "none"
             /\ cache[x] # "none" => cache'[x] # "none"
             /\ x \in linked /\ (\A v \in Creation : ~MayCreate(x, v)) => x \in linked'
  <2>1. CASE Carry(t, w)
    <3>1. After(w, db[x]) = "none" => db[x] = "none"
      BY DEF After, Write, Creation
    <3>2. After(w, cache[x]) = "none" => cache[x] = "none"
      BY DEF After, Write, Creation
    <3>3. t = x => w \notin Creation \/ ~ \A v \in Creation : ~MayCreate(x, v)
      BY <1>4
    <3>4. x \in linked /\ (\A v \in Creation : ~MayCreate(x, v)) => x \in linked'
      BY <2>1, <3>3 DEF Carry
    <3>5. db'[x] \in {db[x], After(w, db[x])} /\ cache'[x] \in {cache[x], After(w, cache[x])}
      BY <1>1, <2>1 DEF Carry
    <3> QED BY <3>1, <3>2, <3>4, <3>5
  <2>2. CASE db' = db /\ cache' = cache /\ linked' = linked
    BY <2>2
  <2> QED BY <1>4, <2>1, <2>2, CallEffect
<1>5. ASSUME NEW u \in late, CarryLate(u)
      PROVE  cache'[x] = cache[x] /\ db'[x] = db[x] /\ (x \in linked => x \in linked')
  <2>1. u.task # x /\ u.task \in Task
    BY <1>1, <1>2 DEF LateIsHurt, LateCall
  <2> QED BY <1>1, <1>5, <2>1 DEF CarryLate, Carry
<1>6. ASSUME NEW t \in Task, Expire(t)
      PROVE  cache'[x] = cache[x] /\ db'[x] = db[x] /\ linked' = linked
  BY <1>1, <1>6 DEF Expire, Fault
<1> QED BY <1>3, <1>4, <1>5, <1>6, WhoWritesRecords DEF RecordWrites

(* No row of the database vanishes, hurt or not.                           *)
LEMMA RowsStay ==
    ASSUME AgentAndCheckTyped, [CheckedNext]_allVars, NEW x \in Task, db[x] # "none"
    PROVE  db'[x] # "none"
<1>1. db \in [Task -> Status \cup {"none"}] /\ late \subseteq LateCall
  BY DEF AgentAndCheckTyped, IInv, TypeOK, AgentTypeOK, StoreTypeOK, RecordTypeOK
<1>2. ASSUME NEW t \in Task, NEW w \in Write, Carry(t, w)
      PROVE  db'[x] # "none"
  BY <1>1, <1>2 DEF Carry, After, Write, Creation
<1>3. CASE db' = db
  BY <1>3
<1>4. CASE \E t \in Task, w \in Write : CallDone(t, w) \/ CallFails(t, w)
  BY <1>2, <1>3, <1>4, CallEffect
<1>5. CASE \E u \in late : CarryLate(u)
  BY <1>1, <1>2, <1>3, <1>5 DEF CarryLate, LateCall
<1>6. CASE \E t \in Task : Expire(t)
  BY <1>3, <1>6 DEF Expire
<1> QED BY <1>3, <1>4, <1>5, <1>6, WhoWritesRecords DEF RecordWrites, recordVars

-----------------------------------------------------------------------------
(* Accepted tasks, with the check running.                                 *)

(* An id belongs to one request, of one kind.                              *)
OneKind == \A t \in Task : req[t] = "idle" \/ sync[t] = "idle"

LinkedOnceAccepted == \A t \in Task : reply[t] = "ok" => t \in linked \cup disturbed

AcceptedInv == OneKind /\ LateIsHurt /\ HandlerKnows /\ LinkedOnceAccepted

(* Only its own handler moves a request on.                                *)
LEMMA OthersKeepRequests ==
    ASSUME AgentAndCheckTyped, [CheckedNext]_allVars, ~AgentStep, ~Restart
    PROVE  UNCHANGED <<req, reply>>
<1>1. ASSUME NEW t \in Task, Sync(t)
      PROVE  UNCHANGED ElsewhereThanStore
  BY <1>1 DEF Sync
<1>2. CASE Check
  BY <1>2 DEF Check, WakeUp, ElsewhereThanStore, requestVars
<1> QED
  BY <1>1, <1>2 DEF CheckedNext, ElsewhereThanStore, requestVars, allVars, vars

(* No id is ever used for two requests.                                    *)
LEMMA OneKindKept ==
    ASSUME AgentAndCheckTyped, OneKind, [CheckedNext]_allVars
    PROVE  OneKind'
<1>1. req \in [Task -> RequestStage] /\ sync \in [Task -> SyncStage]
  BY DEF AgentAndCheckTyped, IInv, TypeOK, AgentTypeOK, RequestTypeOK, SyncTypeOK
<1>2. CASE AgentStep
  <2>1. ASSUME NEW x \in Task
        PROVE  req'[x] = "idle" \/ sync'[x] = "idle"
    <3>1. CASE UNCHANGED req
      BY <1>2, <2>1, <3>1 DEF AgentStep, OneKind
    <3>2. ASSUME NEW t \in Task, (Asleep(t) /\ Arrive(t)) \/ Handle(t)
          PROVE  req'[x] = "idle" \/ sync'[x] = "idle"
      <4>1. \A y \in Task \ {t} : req'[y] = req[y]
        BY <1>1, <3>2
        DEF Arrive, Handle, Admit, RequestStep, Create, Enqueue, MarkFailed, Link, Unlink, Goto,
            Answer
      <4>2. sync[t] = "idle"
        BY <3>2
        DEF Asleep, Handle, RequestStep, Create, Enqueue, MarkFailed, Link, Unlink, OneKind
      <4> QED BY <1>2, <2>1, <4>1, <4>2 DEF AgentStep, OneKind
    <3>3. (\E t \in Task : (Asleep(t) /\ Arrive(t)) \/ Handle(t)) \/ UNCHANGED req
      BY <1>2 DEF AgentStep, Services, Control, Process, requestVars
    <3> QED BY <3>1, <3>2, <3>3
  <2> QED BY <2>1 DEF OneKind
<1>3. ASSUME NEW t \in Task, Sync(t)
      PROVE  OneKind'
  <2>1. req' = req /\ \A x \in Task \ {t} : sync'[x] = sync[x]
    BY <1>3, SyncForm
    DEF Sync, ElsewhereThanStore, requestVars, AgentAndCheckTyped, IInv, TypeOK, AgentTypeOK,
        StoreTypeOK
  <2>2. req[t] = "idle"
    BY <1>3
    DEF Sync, Asleep, SyncStep, SyncCreate, SyncRun, SyncReport, SyncRead, OneKind
  <2> QED BY <2>1, <2>2 DEF OneKind
<1>4. CASE Check \/ UNCHANGED allVars
  BY <1>4 DEF Check, WakeUp, ElsewhereThanStore, requestVars, allVars, vars, OneKind
<1>5. CASE Restart
  BY <1>1, <1>5 DEF Restart, Crash, Die, OneKind, SyncDone
<1> QED BY <1>2, <1>3, <1>4, <1>5 DEF CheckedNext

(* Nor does the handler lose what it knows.                                *)
LEMMA CheckedHandlerStep ==
    ASSUME AgentAndCheckTyped, HandlerKnows, [CheckedNext]_allVars
    PROVE  HandlerKnows'
<1>1. IInv
  BY DEF AgentAndCheckTyped
<1>2. CASE AgentStep \/ Restart
  BY <1>1, <1>2, HandlerStep, AgentStepIsNext DEF Restart, Next
<1>3. CASE ~AgentStep /\ ~Restart
  <2>1. UNCHANGED <<req, reply>>
    BY <1>3, OthersKeepRequests
  <2>2. \A x \in Task : queue[x] # "none" => queue'[x] # "none"
    BY <1>1, WhoseStep, NothingVanishes, OthersEnqueueNothing
  <2> QED BY <2>1, <2>2, RowsStay DEF HandlerKnows
<1> QED BY <1>2, <1>3

(* The record of an accepted task keeps its QueueID.                       *)
LEMMA LinkedStep ==
    ASSUME AgentAndCheckTyped, AcceptedInv, [CheckedNext]_allVars
    PROVE  LinkedOnceAccepted'
<1>1. SUFFICES ASSUME NEW x \in Task, reply'[x] = "ok", x \notin disturbed'
               PROVE  x \in linked'
  BY DEF LinkedOnceAccepted
<1>2. /\ req \in [Task -> RequestStage] /\ reply \in [Task -> Reply]
      /\ x \notin disturbed /\ LateIsHurt
  BY <1>1, HurtIsKept DEF AgentAndCheckTyped, IInv, TypeOK, AgentTypeOK, RequestTypeOK, AcceptedInv
<1>3. CASE reply[x] = "ok"
  <2>1. x \in linked /\ req[x] = "done" /\ sync[x] = "idle"
    BY <1>2, <1>3 DEF AcceptedInv, LinkedOnceAccepted, HandlerKnows, OneKind
  <2>2. \A w \in Creation : ~MayCreate(x, w)
    BY <2>1 DEF MayCreate
  <2> QED BY <1>1, <1>2, <2>1, <2>2, RecordIsKept
<1>4. CASE reply[x] # "ok"
  <2>1. PICK t \in Task : Arrive(t) \/ Handle(t)
    <3>1. ~Restart
      BY <1>1, <1>4 DEF Restart, Crash, Die
    <3>2. AgentStep
      BY <1>1, <1>4, <3>1, OthersKeepRequests
    <3> QED BY <1>1, <1>4, <3>2 DEF AgentStep, Services, Control, Process, requestVars
  <2>2. t = x /\ Link(x) /\ CallDone(x, "link")
    BY <1>1, <1>2, <1>4, <2>1
    DEF Arrive, Handle, Admit, RequestStep, Create, Enqueue, MarkFailed, Link, Unlink, Goto, Answer
  <2> QED BY <2>2 DEF CallDone, Carry, Creation
<1> QED BY <1>3, <1>4

(* The client learns the id only of a task that has a record, an entry and *)
(* a QueueID to cancel it by, and neither the synchronous handlers nor the *)
(* check take them away (v1.go:146-158).                                   *)
THEOREM CheckedAcceptedAreLinked == CheckedSpec => []AcceptedIsLinked
<1>1. CheckedInit => AcceptedInv
  BY DEF CheckedInit, Init, StoreInit, RequestInit, SyncInit, AcceptedInv, OneKind, LateIsHurt,
         HandlerKnows, LinkedOnceAccepted
<1>2. AgentAndCheckTyped /\ AcceptedInv /\ [CheckedNext]_allVars => AcceptedInv'
  BY OneKindKept, HurtIsKept, CheckedHandlerStep, LinkedStep DEF AcceptedInv
<1>3. AcceptedInv => AcceptedIsLinked
  BY DEF AcceptedInv, HandlerKnows, LinkedOnceAccepted, AcceptedIsLinked
<1> QED BY <1>1, <1>2, <1>3, AgentAndCheckTypedHolds, PTL DEF CheckedSpec

-----------------------------------------------------------------------------
(* The entry of an undisturbed task, with the check running.  Its record   *)
(* is no guide any more: the check and late cancels may write it.          *)

EntryShape(t) ==
    /\ queue[t] \in {"none", "pending", "active", "gone"} /\ retried[t] = 0 /\ attempts[t] <= 1
    /\ queue[t] = "pending" => attempts[t] = 0
    /\ queue[t] = "active" =>
          exec[t][1] \in {"start", "predict", "report ok", "report fail", "return ok"}
    /\ queue[t] # "active" => exec[t][1] = "off"
    /\ \A a \in Attempt : a # 1 => exec[t][a] = "off"
    /\ queue[t] # "none" \/ req[t] = "enqueue" => cache[t] # "none"
    /\ db[t] = "canceled" \/ cancel[t] = "mark" => queue[t] = "gone" /\ attempts[t] = 0

EntryShapes == \A t \in Task : t \notin disturbed => EntryShape(t)

(* A step that at most deletes the entry, and neither removes the record   *)
(* nor marks it canceled, keeps the shape.                                 *)
LEMMA EntryLeftAlone ==
    ASSUME NEW x \in Task, EntryShape(x),
           queue'[x] = queue[x] \/ (queue[x] = "pending" /\ queue'[x] = "gone"),
           retried'[x] = retried[x], attempts'[x] = attempts[x], exec'[x] = exec[x],
           req'[x] = "enqueue" => req[x] = "enqueue" \/ cache'[x] # "none",
           cancel'[x] = "mark" => cancel[x] = "mark" \/ (queue[x] = "pending" /\ queue'[x] = "gone"),
           cache[x] # "none" => cache'[x] # "none",
           db'[x] = "canceled" => db[x] = "canceled" \/ cancel[x] = "mark"
    PROVE  EntryShape(x)'
BY DEF EntryShape

(* So does a step that does not concern the task.                          *)
LEMMA UntouchedEntry ==
    ASSUME NEW x \in Task, EntryShape(x), Untouched(x)
    PROVE  EntryShape(x)'
BY EntryLeftAlone DEF Untouched

(* A call about an undisturbed task that has a record succeeds, and only a *)
(* cancel makes it canceled.                                               *)
LEMMA CallAboutEntry ==
    ASSUME Typed, NEW x \in Task, NEW w \in Write \ {"canceled"},
           CallDone(x, w) \/ CallFails(x, w), x \notin disturbed'
    PROVE  /\ db'[x] = "canceled" => db[x] = "canceled"
           /\ cache[x] # "none" => cache'[x] # "none" /\ CallDone(x, w) /\ ~CallFails(x, w)
           /\ w \in Creation => (CallDone(x, w) => cache'[x] # "none")
<1>1. CallFails(x, w) => CallRefused(x, w)
  BY DEF CallFails, CallLost, Lingers, Fault
<1>2. cache[x] # "none" => ~CallFails(x, w)
  BY <1>1 DEF CallRefused, Accepts
<1>3. CASE CallDone(x, w)
  <2>1. Carry(x, w)
    BY <1>3 DEF CallDone
  <2>2. /\ db'[x] = After(w, db[x])
        /\ cache'[x] \in {cache[x], After(w, cache[x])}
        /\ w \in Creation => cache'[x] = After(w, cache[x])
    BY <2>1 DEF Carry, Typed, Creation
  <2> QED BY <1>2, <1>3, <2>2 DEF After, Write, Creation
<1>4. CASE CallRefused(x, w)
  BY <1>2, <1>4, <1>1 DEF CallRefused, recordVars, CallDone
<1> QED BY <1>1, <1>3, <1>4

(* A deletion takes a waiting entry, or nothing.                           *)
LEMMA DeletionOfEntry ==
    ASSUME Typed, NEW x \in Task, EntryShape(x), Deleted(x) \/ DeleteFails(x)
    PROVE  /\ retried' = retried
           /\ queue'[x] = queue[x] \/ (queue[x] = "pending" /\ queue'[x] = "gone")
           /\ Deleted(x) => queue[x] = "pending" /\ queue'[x] = "gone"
BY DEF Deleted, DeleteFails, DeleteRefused, DeleteLost, Deletable, EntryShape, Typed, entryVars

(* The request handler enqueues an entry that was never worked on.         *)
LEMMA RequestKeepsEntry ==
    ASSUME IInv, NEW x \in Task, EntryShape(x), Arrive(x) \/ Handle(x), x \notin disturbed'
    PROVE  EntryShape(x)'
<1>1. Typed /\ UNCHANGED <<attempts, exec, cancel>>
  BY TypesOfState DEF IInv, Arrive, Handle, processorVars, controlVars
<1>2. CASE Admit(x)
  BY <1>1, <1>2, EntryLeftAlone DEF Admit, recordVars, entryVars, Goto, Answer, Typed
<1>3. CASE Create(x)
  <2>1. CallDone(x, "create") \/ CallFails(x, "create")
    BY <1>3 DEF Create
  <2>2. /\ db'[x] = "canceled" => db[x] = "canceled"
        /\ cache[x] # "none" => cache'[x] # "none"
        /\ CallDone(x, "create") => cache'[x] # "none"
    BY <1>1, <2>1, CallAboutEntry DEF Write, Creation
  <2>3. req'[x] = "enqueue" => cache'[x] # "none"
    BY <1>1, <1>3, <2>2 DEF Create, Goto, Answer, Typed
  <2> QED BY <1>1, <1>3, <2>2, <2>3, EntryLeftAlone DEF Create, entryVars
<1>4. CASE MarkFailed(x) \/ Link(x)
  <2>1. \E w \in Write \ {"canceled"} : CallDone(x, w) \/ CallFails(x, w)
    BY <1>4 DEF MarkFailed, Link, Write
  <2>2. /\ db'[x] = "canceled" => db[x] = "canceled"
        /\ cache[x] # "none" => cache'[x] # "none"
    BY <1>1, <2>1, CallAboutEntry
  <2>3. req'[x] # "enqueue"
    BY <1>1, <1>4 DEF MarkFailed, Link, Goto, Answer, Typed
  <2> QED BY <1>1, <1>4, <2>2, <2>3, EntryLeftAlone DEF MarkFailed, Link, entryVars
<1>5. CASE Unlink(x)
  BY <1>1, <1>5, DeletionOfEntry, EntryLeftAlone DEF Unlink, Answer, Typed, recordVars
<1>6. CASE Enqueue(x)
  <2>1. queue[x] = "none" /\ attempts[x] = 0
    BY <1>6 DEF Enqueue, IInv, NotYetEnqueued, AttemptsMatchRetries, EntryShape
  <2>2. Enqueued(x)
    BY <1>6 DEF Enqueue, EnqueueLost, Fault
  <2>3. queue'[x] = "pending" /\ UNCHANGED <<retried, cache, db>> /\ req'[x] # "enqueue"
    BY <1>1, <1>6, <2>2 DEF Enqueue, Enqueued, Goto, Typed, recordVars
  <2>4. cache[x] # "none"
    BY <1>6 DEF Enqueue, EntryShape
  <2> QED BY <1>1, <2>1, <2>3, <2>4 DEF EntryShape
<1> QED BY <1>2, <1>3, <1>4, <1>5, <1>6 DEF Arrive, Handle, RequestStep

(* The first attempt at a task advances, and no other does.                *)
LEMMA FirstAdvances ==
    ASSUME Typed, NEW x \in Task, NEW stage, Advance(x, 1, stage)
    PROVE  exec'[x][1] = stage /\ \A a \in Attempt : a # 1 => exec'[x][a] = exec[x][a]
<1>1. exec'[x] = [exec[x] EXCEPT ![1] = stage] /\ exec[x] \in [Attempt -> Stage] /\ 1 \in Attempt
  BY DEF Advance, Typed
<1> QED BY <1>1

(* The one attempt goes through to its end.                                *)
LEMMA ProcessKeepsEntry ==
    ASSUME IInv, NEW x \in Task, EntryShape(x), Process(x), x \notin disturbed'
    PROVE  EntryShape(x)'
<1>1. Typed /\ UNCHANGED <<req, cancel>> /\ 1 \in Attempt
  BY TypesOfState DEF IInv, Process, requestVars, controlVars, Typed
<1>2. queue[x] = "active" => attempts[x] = 1 /\ Attached(x, 1)
  <2>1. retried[x] = 0 /\ (queue[x] = "active" => exec[x][1] # "off")
    BY DEF EntryShape
  <2>2. queue[x] = "active" => attempts[x] = retried[x] + 1
    BY DEF IInv, AttemptsMatchRetries
  <2> QED BY <2>1, <2>2 DEF Attached
<1>3. CASE Dequeue(x)
  <2>1. /\ queue[x] = "pending" /\ attempts[x] = 0
        /\ queue'[x] = "active" /\ attempts'[x] = 1 /\ UNCHANGED <<retried, cache, db>>
        /\ Advance(x, 1, "start")
    BY <1>1, <1>3 DEF Dequeue, Typed, EntryShape, recordVars
  <2>2. exec'[x][1] = "start" /\ \A a \in Attempt : a # 1 => exec'[x][a] = exec[x][a]
    BY <1>1, <2>1, FirstAdvances
  <2> QED BY <1>1, <2>1, <2>2 DEF EntryShape
<1>4. ~Deadline(x)
  BY DEF Deadline
<1>5. ~RetryDue(x) /\ ~RecoverLease(x)
  BY <1>1, <1>2 DEF RetryDue, RecoverLease, EntryShape
<1>6. ASSUME NEW a \in Attempt, AttemptStep(x, a)
      PROVE  EntryShape(x)'
  <2>1. a = 1 /\ queue[x] = "active" /\ cache[x] # "none" /\ attempts' = attempts
    BY <1>6 DEF AttemptStep, SetRunning, Predict, Report, Finish, EntryShape
  <2>2. db[x] # "canceled" /\ cancel[x] # "mark"
    BY <2>1 DEF EntryShape
  <2>3. ASSUME UNCHANGED entryVars, cache'[x] # "none", db'[x] # "canceled",
               NEW stage \in {"predict", "report ok", "report fail", "return ok"}, Advance(x, 1, stage)
        PROVE  EntryShape(x)'
    <3>1. exec'[x][1] = stage /\ \A b \in Attempt : b # 1 => exec'[x][b] = exec[x][b]
      BY <1>1, <2>3, FirstAdvances
    <3> QED BY <1>1, <2>1, <2>2, <2>3, <3>1 DEF EntryShape, entryVars
  <2>4. CASE SetRunning(x, a) \/ Report(x, a)
    <3>1. PICK w \in {"running", "succeeded", "failed"} : CallDone(x, w) \/ CallFails(x, w)
      BY <2>4 DEF SetRunning, Report
    <3>2. /\ db'[x] # "canceled" /\ cache'[x] # "none"
      BY <1>1, <2>1, <2>2, <3>1, CallAboutEntry DEF Write
    <3>3. \A v \in {"running", "succeeded", "failed"} : ~CallFails(x, v)
      BY <2>1 DEF CallFails, CallRefused, Accepts, CallLost, Lingers, Fault
    <3>4. \E stage \in {"predict", "return ok"} : Advance(x, 1, stage)
      BY <2>1, <2>4, <3>3 DEF SetRunning, Report
    <3> QED BY <2>3, <2>4, <3>2, <3>4 DEF SetRunning, Report
  <2>5. CASE Predict(x, a)
    <3>1. \E stage \in {"report ok", "report fail"} : Advance(x, 1, stage)
      BY <2>1, <2>5 DEF Predict, Fault
    <3> QED BY <2>1, <2>2, <2>3, <2>5, <3>1 DEF Predict, recordVars
  <2>6. CASE Finish(x, a)
    <3>1. exec[x][1] = "return ok" /\ Attached(x, 1) /\ ~Fault(x)
      BY <1>2, <2>1, <2>6 DEF Finish, EntryShape, Fault
    <3>2. queue' = [queue EXCEPT ![x] = "gone"] /\ retried' = retried /\ UNCHANGED recordVars
          /\ Advance(x, 1, "off")
      BY <2>1, <2>6, <3>1 DEF Finish
    <3>3. queue'[x] = "gone"
      BY <1>1, <3>2 DEF Typed
    <3>4. exec'[x][1] = "off" /\ \A b \in Attempt : b # 1 => exec'[x][b] = exec[x][b]
      BY <1>1, <3>2, FirstAdvances
    <3> QED BY <1>1, <2>1, <2>2, <3>2, <3>3, <3>4 DEF EntryShape, recordVars
  <2> QED BY <1>6, <2>4, <2>5, <2>6 DEF AttemptStep
<1> QED BY <1>3, <1>4, <1>5, <1>6 DEF Process, ProcessorStep

(* A cancel wins the entry before a worker has it, or not at all.          *)
LEMMA ControlKeepsEntry ==
    ASSUME IInv, Control, NEW x \in Task, EntryShape(x), CancelStep(x) \/ PurgeDelete(x),
           x \notin disturbed'
    PROVE  EntryShape(x)'
<1>1. Typed /\ UNCHANGED <<req, attempts, exec>>
  BY TypesOfState DEF IInv, Control, requestVars, processorVars
<1>2. CASE CancelLookup(x)
  BY <1>1, <1>2, EntryLeftAlone
  DEF CancelLookup, CancelGoto, storeVars, recordVars, entryVars, Typed
<1>3. CASE CancelDelete(x)
  BY <1>1, <1>3, DeletionOfEntry, EntryLeftAlone DEF CancelDelete, CancelGoto, recordVars, Typed
<1>4. CASE PurgeDelete(x)
  <2>1. UNCHANGED <<recordVars, cancel>>
    BY <1>4 DEF PurgeDelete
  <2>2. retried' = retried
        /\ (queue'[x] = queue[x] \/ (queue[x] = "pending" /\ queue'[x] = "gone"))
    BY <1>1, <1>4, DeletionOfEntry DEF PurgeDelete, entryVars
  <2> QED BY <1>1, <2>1, <2>2, EntryLeftAlone DEF recordVars
<1>5. CASE CancelMark(x)
  <2>1. cancel[x] = "mark" /\ cancel'[x] # "mark" /\ UNCHANGED entryVars
    BY <1>1, <1>5 DEF CancelMark, CancelGoto, Typed
  <2>2. cache[x] # "none" => cache'[x] # "none"
    <3>1. Carry(x, "canceled") \/ cache' = cache
      BY <1>5, CallEffect DEF CancelMark
    <3> QED BY <1>1, <3>1 DEF Carry, After, Typed, Creation
  <2> QED BY <1>1, <2>1, <2>2, EntryLeftAlone DEF entryVars
<1> QED BY <1>2, <1>3, <1>4, <1>5 DEF CancelStep

(* No synchronous handler and no check works on a task, or revives one.    *)
LEMMA OthersKeepEntry ==
    ASSUME AgentAndCheckTyped, LateIsHurt, [CheckedNext]_allVars, ~AgentStep, ~Restart,
           (\E t \in Task : Sync(t)) \/ Check, NEW x \in Task, EntryShape(x), x \notin disturbed'
    PROVE  EntryShape(x)'
<1>1. IInv /\ FaultTypeOK
  BY DEF AgentAndCheckTyped, IInv, TypeOK, AgentTypeOK, StoreTypeOK
<1>2. UNCHANGED ElsewhereThanStore
  <2>1. ASSUME NEW t \in Task, Sync(t)
        PROVE  UNCHANGED ElsewhereThanStore
    BY <2>1 DEF Sync
  <2>2. CASE Check
    BY <2>2 DEF Check, WakeUp
  <2> QED BY <2>1, <2>2
<1>3. UNCHANGED <<attempts, exec, req, cancel>>
  BY <1>2 DEF ElsewhereThanStore, requestVars, processorVars, controlVars
<1>4. queue'[x] = queue[x] \/ (queue[x] = "pending" /\ queue'[x] = "gone")
  BY <1>1, OthersEnqueueNothing DEF Deletable, EntryShape
<1>5. retried' = retried
  <2>1. CASE UNCHANGED entryVars
    BY <2>1 DEF entryVars
  <2>2. CASE \E t \in Task : Deleted(t) \/ DeleteFails(t)
    BY <2>2, DeleteEffect
  <2>3. CASE \E t \in Task : Sync(t)
    BY <1>1, <2>1, <2>3, SyncForm
  <2>4. CASE WakeUp \/ (CheckReads /\ UNCHANGED <<ElsewhereThanStore, sync>>)
    BY <1>1, <2>1, <2>4, CheckReadsForm
  <2>5. ASSUME NEW t \in Task, CheckOne(t), UNCHANGED <<ElsewhereThanStore, sync>>
        PROVE  retried' = retried
    BY <1>1, <2>1, <2>2, <2>5, CheckOneForm
  <2> QED BY <2>3, <2>4, <2>5 DEF Check, CheckStep, CheckReads
<1>6. cache[x] # "none" => cache'[x] # "none"
  BY RecordIsKept
<1>7. db'[x] = "canceled" => db[x] = "canceled"
  <2>1. CASE UNCHANGED recordVars
    BY <2>1 DEF recordVars
  <2>2. ASSUME NEW t \in Task, NEW w \in Write \ {"canceled"}, CallDone(t, w) \/ CallFails(t, w)
        PROVE  db'[x] = "canceled" => db[x] = "canceled"
    <3>1. Typed
      BY <1>1, TypesOfState DEF IInv
    <3>2. db'[x] \in {db[x], After(w, db[x])}
      BY <2>2, <3>1, CallMoves, CallLocal
    <3> QED BY <2>2, <3>2 DEF After, Write, Creation
  <2> QED BY <1>1, <2>1, <2>2, OthersCancelNothing
<1> QED BY <1>3, <1>4, <1>5, <1>6, <1>7, EntryLeftAlone

(* Every step keeps the shape of every undisturbed entry.                  *)
LEMMA EntryShapesStep ==
    ASSUME AgentAndCheckTyped, LateIsHurt, EntryShapes, [CheckedNext]_allVars
    PROVE  EntryShapes'
<1>1. SUFFICES ASSUME NEW x \in Task, x \notin disturbed'
               PROVE  EntryShape(x)'
  BY DEF EntryShapes
<1>2. IInv /\ x \notin disturbed /\ EntryShape(x)
  BY <1>1, HurtIsKept DEF AgentAndCheckTyped, EntryShapes
<1>3. ASSUME Untouched(x)
      PROVE  EntryShape(x)'
  BY <1>2, <1>3, UntouchedEntry
<1>4. CASE AgentStep
  <2>1. CASE Services
    <3>1. ASSUME NEW u \in late, CarryLate(u)
          PROVE  Untouched(x)
      BY <1>2, <2>1, <3>1, LateLocal DEF LateIsHurt
    <3>2. ASSUME NEW t \in Task, Expire(t)
          PROVE  Untouched(x)
      BY <1>1, <1>2, <2>1, <3>2, ExpireLocal
    <3> QED BY <1>3, <2>1, <3>1, <3>2 DEF Services, StoreStep
  <2>2. CASE Control
    BY <1>1, <1>2, <1>3, <2>2, ControlLocal, ControlKeepsEntry, ListOrPauseLocal
    DEF Control, ControlStep
  <2>3. ASSUME NEW t \in Task, Arrive(t) \/ Handle(t)
        PROVE  EntryShape(x)'
    BY <1>1, <1>2, <1>3, <2>3, RequestLocal, RequestKeepsEntry
  <2>4. ASSUME NEW t \in Task, Process(t)
        PROVE  EntryShape(x)'
    BY <1>1, <1>2, <1>3, <2>4, ProcessLocal, ProcessKeepsEntry
  <2> QED BY <1>4, <2>1, <2>2, <2>3, <2>4 DEF AgentStep
<1>5. CASE Restart
  BY <1>1, <1>2, <1>3, <1>5, DeathLocal DEF Restart, Crash
<1>6. CASE UNCHANGED allVars
  BY <1>3, <1>6, StutterLocal DEF allVars
<1> QED BY <1>1, <1>2, <1>4, <1>5, <1>6, OthersKeepEntry DEF CheckedNext

(* With the check running, too, the entries of undisturbed tasks keep      *)
(* their shape and the copies of calls that linger are of disturbed ones.  *)
THEOREM EntryShapesHold == CheckedSpec => [](LateIsHurt /\ EntryShapes)
<1>1. CheckedInit => LateIsHurt /\ EntryShapes
  <2> SUFFICES ASSUME CheckedInit PROVE LateIsHurt /\ EntryShapes
    OBVIOUS
  <2>1. Typed
    BY Initially, TypesOfState DEF CheckedInit, IInv
  <2>2. late = {}
    BY DEF CheckedInit, Init, StoreInit
  <2>3. ASSUME NEW x \in Task
        PROVE  EntryShape(x)
    <3>1. queue[x] = "none" /\ retried[x] = 0 /\ attempts[x] = 0 /\ req[x] = "idle"
          /\ db[x] = "none" /\ cancel[x] = "idle" /\ \A a \in Attempt : exec[x][a] = "off"
      BY DEF CheckedInit, Init, StoreInit, RequestInit, ProcessorInit, ControlInit
    <3> QED BY <2>1, <3>1 DEF EntryShape, Typed
  <2> QED BY <2>2, <2>3 DEF LateIsHurt, EntryShapes
<1>2. AgentAndCheckTyped /\ LateIsHurt /\ EntryShapes /\ [CheckedNext]_allVars
      => (LateIsHurt /\ EntryShapes)'
  BY HurtIsKept, EntryShapesStep
<1> QED BY <1>1, <1>2, AgentAndCheckTypedHolds, PTL DEF CheckedSpec

(* A task that nothing hurt is predicted at most once, with the check      *)
(* deleting entries and writing records meanwhile.                         *)
THEOREM CheckedTasksRunOnce == CheckedSpec => []UndisturbedRunsOnce
<1>1. EntryShapes => UndisturbedRunsOnce
  BY DEF EntryShapes, EntryShape, UndisturbedRunsOnce
<1> QED BY <1>1, EntryShapesHold, PTL

(* A task whose record says canceled was never started, unless a failure   *)
(* hurt it, with the check running (v1.go:185-203, processor.go:59).       *)
THEOREM CheckedCancelsNeverRan == CheckedSpec => []CanceledNeverRan
<1>1. AgentAndCheckTyped /\ EntryShapes => CanceledNeverRan
  <2>1. SUFFICES ASSUME IInv, EntryShapes, NEW t \in Task, t \notin disturbed,
                        db[t] = "canceled" \/ cancel[t] = "mark"
                 PROVE  attempts[t] = 0
    BY DEF AgentAndCheckTyped, CanceledNeverRan
  <2> QED BY <2>1 DEF EntryShapes, EntryShape
<1> QED BY <1>1, EntryShapesHold, AgentAndCheckTypedHolds, PTL

-----------------------------------------------------------------------------
(* Who cares for an unfinished task, with the check running.               *)

(* The check deletes only entries that were archived when it listed them,  *)
(* and an archived entry can only be deleted.                              *)
ArchivedStay == \A t \in Task : GivenUp(t) => queue[t] \in {"archived", "gone"}

AtWork == {"predict", "record ok", "record fail"}

(* An undisturbed task whose record is not finished is in somebody's care, *)
(* and the one attempt at it has reported before it ends.                  *)
Cared(t) ==
    /\ req[t] \in {"idle", "create", "enqueue", "link", "done"}
    /\ req[t] = "link" => queue[t] # "none"
    /\ sync[t] \in AtWork => cache[t] # "none"
    /\ exec[t][1] = "return ok" => db[t] \in Terminal
    /\ db[t] \in Unsettled => t \in purged \cup Abandoned \/ Carrier(t) \/ sync[t] \in AtWork
    /\ cancel[t] = "ok" => queue[t] = "gone" /\ attempts[t] = 0 /\ db[t] \in {"canceled", "failed"}

AllCared == \A t \in Task : t \notin disturbed => Cared(t)

CareInv == AllCared /\ ArchivedStay /\ OneKind /\ LateIsHurt /\ EntryShapes

(* Every move of an archived entry deletes it.                             *)
LEMMA ArchivedStayKept ==
    ASSUME AgentAndCheckTyped, ArchivedStay, [CheckedNext]_allVars
    PROVE  ArchivedStay'
<1>1. SUFFICES ASSUME NEW x \in Task, GivenUp(x)'
               PROVE  queue'[x] \in {"archived", "gone"}
  BY DEF ArchivedStay
<1>2. IInv /\ queue \in [Task -> QueueState]
  BY DEF AgentAndCheckTyped, IInv, TypeOK, AgentTypeOK, StoreTypeOK, EntryTypeOK
<1>3. CASE GivenUp(x)
  <2>1. queue[x] \in {"archived", "gone"}
    BY <1>3 DEF ArchivedStay
  <2>2. EntryMove(x)
    BY <1>2, WhoseStep, EntriesMove, OthersMove
  <2> QED BY <2>1, <2>2 DEF EntryMove
<1>4. CASE ~GivenUp(x)
  <2>1. ~(\E t \in Task : Sync(t)) /\ ~AgentStep /\ ~Restart /\ ~UNCHANGED allVars
    BY <1>1, <1>4, SyncForm
    DEF AgentAndCheckTyped, IInv, TypeOK, AgentTypeOK, StoreTypeOK, AgentStep, Restart, allVars,
        checkVars, GivenUp
  <2>2. CheckBegin
    BY <1>1, <1>4, <2>1
    DEF CheckedNext, Check, WakeUp, Wake, CheckStep, ArchivedDone, ListRecordsStep, ListRecords,
        ListUnfinished, ListEntries, CheckDone, CheckOne, MarkArchived, DropArchived, CheckRecord,
        FailMissing, FailExpired, FailRecord, GivenUp
  <2>3. queue[x] = "archived" /\ queue' = queue
    BY <1>1, <2>2 DEF CheckBegin, ListsEntries, Page, UnchangedStore, entryVars, GivenUp
  <2> QED BY <2>3
<1> QED BY <1>3, <1>4

(* A step that does not concern the task leaves it in the same care.       *)
LEMMA UntouchedCared ==
    ASSUME NEW x \in Task, Cared(x), Untouched(x), sync'[x] = sync[x]
    PROVE  Cared(x)'
BY DEF Untouched, Cared, Carrier, Attached, Abandoned

(* The request handler hands a task over to its entry.                     *)
LEMMA RequestCares ==
    ASSUME IInv, NEW x \in Task, EntryShape(x), Cared(x), Arrive(x) \/ Handle(x),
           sync[x] = "idle", sync'[x] = "idle", x \notin disturbed'
    PROVE  Cared(x)'
<1>1. Typed /\ UNCHANGED <<attempts, exec, cancel, purged>>
  BY TypesOfState DEF IInv, Arrive, Handle, processorVars, controlVars
<1>2. CASE Admit(x)
  <2>1. /\ UNCHANGED <<recordVars, entryVars>> /\ req[x] = "idle" /\ req'[x] \in {"done", "create"}
    BY <1>1, <1>2 DEF Admit, Goto, Answer, Typed
  <2> QED BY <1>1, <2>1 DEF Cared, Carrier, Attached, Abandoned, AtWork, recordVars, entryVars
<1>3. CASE Create(x)
  <2>1. queue[x] = "none" /\ exec[x][1] = "off" /\ cancel[x] # "ok" /\ UNCHANGED entryVars
    BY <1>3 DEF Create, IInv, NotYetEnqueued, EntryShape, Cared
  <2>2. ~CallFails(x, "create")
    BY <1>3 DEF CallFails, CallRefused, Accepts, Creation, CallLost, Lingers, Fault
  <2>3. req'[x] = "enqueue"
    BY <1>1, <1>3, <2>2 DEF Create, Goto, Typed
  <2> QED BY <1>1, <2>1, <2>3 DEF Cared, Carrier, AtWork, entryVars
<1>4. CASE Enqueue(x)
  <2>1. queue[x] = "none" /\ exec[x][1] = "off" /\ cancel[x] # "ok"
    BY <1>4 DEF Enqueue, IInv, NotYetEnqueued, EntryShape, Cared
  <2>2. Enqueued(x) /\ Goto(x, "link") /\ UNCHANGED recordVars
    BY <1>4 DEF Enqueue, EnqueueLost, Fault
  <2>3. queue'[x] = "pending" /\ req'[x] = "link"
    BY <1>1, <2>2 DEF Enqueued, Goto, Typed
  <2> QED BY <1>1, <2>1, <2>3 DEF Cared, Carrier, AtWork
<1>5. CASE Link(x)
  <2>1. req[x] = "link" /\ queue[x] # "none" /\ cache[x] # "none" /\ UNCHANGED entryVars
    BY <1>5 DEF Link, Cared, EntryShape
  <2>2. CallDone(x, "link") /\ ~CallFails(x, "link")
    BY <1>5, <2>1 DEF Link, CallFails, CallRefused, Accepts, CallLost, Lingers, Fault
  <2>3. db'[x] = db[x] /\ req'[x] = "done"
    BY <1>1, <1>5, <2>2 DEF Link, Answer, CallDone, Carry, After, Typed
  <2> QED BY <1>1, <2>1, <2>3 DEF Cared, Carrier, Attached, Abandoned, AtWork, entryVars
<1>6. ~MarkFailed(x) /\ ~Unlink(x)
  BY DEF Cared, MarkFailed, Unlink
<1> QED BY <1>2, <1>3, <1>4, <1>5, <1>6 DEF Arrive, Handle, RequestStep

(* The worker reports before it lets go of the entry.                      *)
LEMMA ProcessCares ==
    ASSUME IInv, NEW x \in Task, EntryShape(x), Cared(x), Process(x),
           sync'[x] = sync[x], sync[x] \notin AtWork, x \notin disturbed'
    PROVE  Cared(x)'
<1>1. Typed /\ UNCHANGED <<req, cancel, purged>> /\ 1 \in Attempt
  BY TypesOfState DEF IInv, Process, requestVars, controlVars, Typed
<1>2. queue[x] = "active" => attempts[x] = 1 /\ Attached(x, 1)
  <2>1. retried[x] = 0 /\ (queue[x] = "active" => exec[x][1] # "off")
    BY DEF EntryShape
  <2>2. queue[x] = "active" => attempts[x] = retried[x] + 1
    BY DEF IInv, AttemptsMatchRetries
  <2> QED BY <2>1, <2>2 DEF Attached
<1>3. ASSUME queue[x] \in {"pending", "active"}, queue'[x] = "active", attempts'[x] = 1,
             NEW stage \in Stage \ {"off"}, Advance(x, 1, stage),
             stage = "return ok" => db'[x] \in Terminal
      PROVE  Cared(x)'
  <2>1. exec'[x][1] = stage
    BY <1>1, <1>3, FirstAdvances
  <2>2. Carrier(x)'
    BY <1>1, <1>3, <2>1 DEF Carrier, Attached
  <2>3. cancel[x] # "ok"
    BY <1>3 DEF Cared
  <2> QED BY <1>1, <1>3, <2>1, <2>2, <2>3 DEF Cared
<1>4. CASE Dequeue(x)
  <2>1. /\ queue[x] = "pending" /\ queue'[x] = "active" /\ attempts'[x] = 1
        /\ Advance(x, 1, "start")
    BY <1>1, <1>4 DEF Dequeue, Typed, EntryShape
  <2> QED BY <1>3, <2>1 DEF Stage
<1>5. ~Deadline(x)
  BY DEF Deadline
<1>6. ~RetryDue(x) /\ ~RecoverLease(x)
  BY <1>1, <1>2 DEF RetryDue, RecoverLease, EntryShape
<1>7. ASSUME NEW a \in Attempt, AttemptStep(x, a)
      PROVE  Cared(x)'
  <2>1. a = 1 /\ queue[x] = "active" /\ cache[x] # "none" /\ attempts' = attempts
    BY <1>7 DEF AttemptStep, SetRunning, Predict, Report, Finish, EntryShape
  <2>2. \A w \in {"running", "succeeded", "failed"} : ~CallFails(x, w)
    BY <2>1 DEF CallFails, CallRefused, Accepts, CallLost, Lingers, Fault
  <2>3. CASE SetRunning(x, a) \/ Predict(x, a)
    <3>1. UNCHANGED entryVars
          /\ \E stage \in {"predict", "report ok", "report fail"} : Advance(x, 1, stage)
      BY <2>1, <2>2, <2>3 DEF SetRunning, Predict, Fault
    <3> QED BY <1>2, <1>3, <2>1, <3>1 DEF Stage, entryVars
  <2>4. CASE Report(x, a)
    <3>1. PICK w \in {"succeeded", "failed"} : CallDone(x, w)
      BY <2>2, <2>4 DEF Report
    <3>2. db'[x] \in Terminal
      BY <1>1, <3>1 DEF CallDone, Carry, After, Typed, Terminal
    <3>3. UNCHANGED entryVars /\ Advance(x, 1, "return ok")
      BY <2>1, <2>2, <2>4 DEF Report
    <3> QED BY <1>2, <1>3, <2>1, <3>2, <3>3 DEF Stage, entryVars
  <2>5. CASE Finish(x, a)
    <3>1. exec[x][1] = "return ok" /\ Attached(x, 1) /\ ~Fault(x)
      BY <1>2, <2>1, <2>5 DEF Finish, EntryShape, Fault
    <3>2. queue' = [queue EXCEPT ![x] = "gone"] /\ UNCHANGED recordVars /\ Advance(x, 1, "off")
      BY <2>1, <2>5, <3>1 DEF Finish
    <3>3. queue'[x] = "gone" /\ exec'[x][1] = "off"
      BY <1>1, <3>2, FirstAdvances DEF Typed
    <3>4. db'[x] \in Terminal /\ db'[x] \notin Unsettled
      BY <3>1, <3>2 DEF Cared, recordVars, Terminal, Unsettled
    <3>5. cancel[x] # "ok"
      BY <2>1 DEF Cared
    <3> QED BY <1>1, <2>1, <3>2, <3>3, <3>4, <3>5 DEF Cared, recordVars
  <2> QED BY <1>7, <2>3, <2>4, <2>5 DEF AttemptStep
<1> QED BY <1>4, <1>5, <1>6, <1>7 DEF Process, ProcessorStep

(* A cancel or a bulk deletion that takes the entry takes the care of the  *)
(* record with it, or says that it left it.                                *)
LEMMA ControlCares ==
    ASSUME IInv, Control, NEW x \in Task, EntryShape(x), Cared(x), CancelStep(x) \/ PurgeDelete(x),
           sync'[x] = sync[x], x \notin disturbed'
    PROVE  Cared(x)'
<1>1. Typed /\ UNCHANGED <<req, attempts, exec>>
  BY TypesOfState DEF IInv, Control, requestVars, processorVars
<1>2. CASE CancelLookup(x)
  <2>1. UNCHANGED <<recordVars, entryVars, purged>> /\ cancel[x] = "idle" /\ cancel'[x] = "delete"
    BY <1>1, <1>2 DEF CancelLookup, CancelGoto, storeVars, Typed
  <2> QED BY <1>1, <2>1 DEF Cared, Carrier, Attached, Abandoned, recordVars, entryVars
<1>3. ASSUME Deleted(x), UNCHANGED recordVars, cancel'[x] = "mark" \/ x \in purged',
             cancel'[x] = "ok" => cancel[x] = "ok"
      PROVE  Cared(x)'
  <2>1. queue[x] = "pending" /\ queue'[x] = "gone" /\ exec[x][1] = "off"
    BY <1>1, <1>3, DeletionOfEntry DEF EntryShape
  <2>2. cancel'[x] # "ok"
    BY <1>3, <2>1 DEF Cared
  <2> QED BY <1>1, <1>3, <2>1, <2>2 DEF Cared, Carrier, recordVars
<1>4. ASSUME UNCHANGED <<recordVars, entryVars>>, x \in purged => x \in purged',
             cancel'[x] = cancel[x] \/ (cancel[x] = "delete" /\ cancel'[x] = "idle")
      PROVE  Cared(x)'
  BY <1>1, <1>4 DEF Cared, Carrier, Attached, Abandoned, recordVars, entryVars
<1>5. DeleteFails(x) => UNCHANGED entryVars
  BY DEF DeleteFails, DeleteRefused, DeleteLost, Fault
<1>6. CASE CancelDelete(x)
  <2>1. /\ UNCHANGED <<recordVars, purged>>
        /\ \/ Deleted(x) /\ cancel'[x] = "mark"
           \/ DeleteFails(x) /\ cancel[x] = "delete" /\ cancel'[x] = "idle"
    BY <1>1, <1>6 DEF CancelDelete, CancelGoto, Typed
  <2> QED BY <1>3, <1>4, <1>5, <2>1
<1>7. CASE PurgeDelete(x)
  <2>1. /\ UNCHANGED <<recordVars, cancel>> /\ (x \in purged => x \in purged')
        /\ (Deleted(x) /\ x \in purged') \/ UNCHANGED entryVars
    BY <1>5, <1>7 DEF PurgeDelete
  <2> QED BY <1>3, <1>4, <2>1
<1>8. CASE CancelMark(x)
  <2>1. queue[x] = "gone" /\ attempts[x] = 0 /\ cache[x] # "none" /\ UNCHANGED <<entryVars, purged>>
    BY <1>8 DEF CancelMark, CancelGoto, EntryShape
  <2>2. ~CallFails(x, "canceled")
    BY <2>1 DEF CallFails, CallRefused, Accepts, CallLost, Lingers, Fault
  <2>3. CallDone(x, "canceled")
    BY <1>8, <2>2 DEF CancelMark
  <2>4. db'[x] = "canceled" /\ cache'[x] # "none"
    BY <1>1, <2>3 DEF CallDone, Carry, After, Typed
  <2> QED BY <1>1, <2>1, <2>4 DEF Cared, Terminal, Unsettled, entryVars
<1> QED BY <1>2, <1>6, <1>7, <1>8 DEF CancelStep

(* A synchronous handler cares for its task until it has reported.         *)
LEMMA SyncCares ==
    ASSUME IInv, SyncTypeOK, NEW x \in Task, EntryShape(x), Cared(x), req[x] = "idle", Sync(x),
           x \notin disturbed'
    PROVE  Cared(x)'
<1>1. /\ UNCHANGED <<req, attempts, exec, cancel, purged>> /\ Typed
      /\ sync \in [Task -> SyncStage]
  BY TypesOfState
  DEF IInv, Sync, ElsewhereThanStore, requestVars, processorVars, controlVars, SyncTypeOK
<1>2. queue[x] = "none" /\ exec[x][1] = "off" /\ cancel[x] # "ok"
  BY DEF IInv, NotYetEnqueued, EntryShape, Cared
<1>3. ASSUME UNCHANGED <<recordVars, entryVars>>, NEW stage \in SyncStage \ {"lost"},
             SyncGoto(x, stage), sync[x] # "lost", sync[x] \in AtWork <=> stage \in AtWork
      PROVE  Cared(x)'
  <2>1. sync'[x] = stage
    BY <1>1, <1>3 DEF SyncGoto
  <2> QED BY <1>1, <1>2, <1>3, <2>1 DEF Cared, Carrier, Attached, Abandoned, recordVars, entryVars
<1>4. CASE SyncArrive(x)
  BY <1>3, <1>4 DEF SyncArrive, storeVars, SyncStage, AtWork
<1>5. CASE SyncCreate(x)
  <2>1. ~CallFails(x, "create running")
    BY DEF CallFails, CallRefused, Accepts, Creation, CallLost, Lingers, Fault
  <2>2. CallDone(x, "create running") /\ sync'[x] = "predict" /\ UNCHANGED entryVars
    BY <1>1, <1>5, <2>1 DEF SyncCreate, SyncGoto
  <2>3. cache'[x] # "none"
    BY <1>1, <2>2 DEF CallDone, Carry, After, Typed
  <2> QED BY <1>1, <1>2, <2>2, <2>3 DEF Cared, AtWork, entryVars
<1>6. CASE SyncRun(x)
  <2>1. /\ sync[x] = "predict" /\ UNCHANGED <<recordVars, entryVars>>
        /\ SyncGoto(x, "record ok") \/ SyncGoto(x, "record fail")
    BY <1>6 DEF SyncRun, Fault
  <2> QED BY <1>3, <2>1 DEF SyncStage, AtWork
<1>7. CASE SyncReport(x)
  <2>1. cache[x] # "none"
    BY <1>7 DEF SyncReport, Cared, AtWork
  <2>2. \A w \in {"succeeded", "failed"} : ~CallFails(x, w)
    BY <2>1 DEF CallFails, CallRefused, Accepts, CallLost, Lingers, Fault
  <2>3. PICK w \in {"succeeded", "failed"} : CallDone(x, w)
    BY <1>7, <2>2 DEF SyncReport
  <2>4. db'[x] = w
    BY <1>1, <2>3 DEF CallDone, Carry, After, Typed
  <2>5. sync'[x] \in {"read", "ok", "error"} /\ UNCHANGED entryVars
    BY <1>1, <1>7, <2>2 DEF SyncReport, SyncGoto
  <2> QED BY <1>1, <1>2, <2>4, <2>5 DEF Cared, Unsettled, AtWork, entryVars
<1>8. CASE SyncRead(x)
  BY <1>3, <1>8 DEF SyncRead, SyncStage, SyncDone, AtWork
<1> QED BY <1>4, <1>5, <1>6, <1>7, <1>8 DEF Sync, SyncStep

(* What the check writes is final, and it deletes no entry that is waited  *)
(* for.                                                                    *)
LEMMA CheckCares ==
    ASSUME IInv, NEW x \in Task, EntryShape(x), Cared(x), GivenUp(x) => queue[x] \in {"archived", "gone"},
           CheckOne(x), UNCHANGED <<ElsewhereThanStore, sync>>
    PROVE  Cared(x)'
<1>1. UNCHANGED <<req, attempts, exec, cancel, purged, sync>> /\ Typed
  BY TypesOfState DEF IInv, ElsewhereThanStore, requestVars, processorVars, controlVars
<1>2. ASSUME UNCHANGED entryVars, cache[x] # "none" => cache'[x] # "none",
             db'[x] = db[x] \/ db'[x] = "failed"
      PROVE  Cared(x)'
  BY <1>1, <1>2
  DEF Cared, Carrier, Attached, Abandoned, Terminal, Unsettled, entryVars
<1>3. CASE MarkArchived(x) \/ FailMissing(x) \/ FailExpired(x)
  <2>1. PICK w \in {"failed", "failed in database"} : CallDone(x, w) \/ CallFails(x, w)
    BY <1>3 DEF MarkArchived, FailMissing, FailExpired, FailRecord
  <2>2. (db' = db /\ cache' = cache) \/ Carry(x, w)
    BY <2>1, CallEffect
  <2>3. /\ cache[x] # "none" => cache'[x] # "none"
        /\ db'[x] = db[x] \/ db'[x] = "failed"
    BY <1>1, <2>2 DEF Carry, After, Typed
  <2> QED BY <1>2, <1>3, <2>3 DEF MarkArchived, FailMissing, FailExpired, FailRecord
<1>4. CASE \E s \in Unsettled : CheckRecord(s, x)
  BY <1>2, <1>4 DEF CheckRecord, UnchangedStore, recordVars
<1>5. CASE DropArchived(x)
  <2>1. queue[x] = "gone"
    BY <1>5 DEF DropArchived, GivenUp, EntryShape
  <2>2. UNCHANGED <<recordVars, entryVars>>
    BY <1>1, <1>5, <2>1
    DEF DropArchived, Deleted, DeleteFails, DeleteRefused, DeleteLost, Deletable, entryVars
  <2> QED BY <1>2, <2>2 DEF recordVars
<1> QED BY <1>3, <1>4, <1>5 DEF CheckOne

(* Every undisturbed task stays in care.                                   *)
LEMMA CareStep ==
    ASSUME AgentAndCheckTyped, CareInv, [CheckedNext]_allVars
    PROVE  AllCared'
<1>1. SUFFICES ASSUME NEW x \in Task, x \notin disturbed'
               PROVE  Cared(x)'
  BY DEF AllCared
<1>2. /\ IInv /\ SyncTypeOK /\ FaultTypeOK
      /\ x \notin disturbed /\ EntryShape(x) /\ Cared(x)
      /\ req[x] = "idle" \/ sync[x] = "idle"
  BY <1>1, HurtIsKept
  DEF CareInv, AllCared, OneKind, EntryShapes, AgentAndCheckTyped, IInv, TypeOK, AgentTypeOK,
      StoreTypeOK
<1>3. ASSUME Untouched(x), sync'[x] = sync[x]
      PROVE  Cared(x)'
  BY <1>2, <1>3, UntouchedCared
<1>4. CASE AgentStep
  <2>1. sync' = sync
    BY <1>4 DEF AgentStep
  <2>2. CASE Services
    <3>1. ASSUME NEW u \in late, CarryLate(u)
          PROVE  Untouched(x)
      BY <1>2, <2>2, <3>1, LateLocal DEF CareInv, LateIsHurt
    <3>2. ASSUME NEW t \in Task, Expire(t)
          PROVE  Untouched(x)
      BY <1>1, <1>2, <2>2, <3>2, ExpireLocal
    <3> QED BY <1>3, <2>1, <2>2, <3>1, <3>2 DEF Services, StoreStep
  <2>3. CASE Control
    BY <1>1, <1>2, <1>3, <2>1, <2>3, ControlLocal, ControlCares, ListOrPauseLocal
    DEF Control, ControlStep
  <2>4. ASSUME NEW t \in Task, (Asleep(t) /\ Arrive(t)) \/ Handle(t)
        PROVE  Cared(x)'
    <3>1. CASE t = x
      <4>1. sync[x] = "idle"
        BY <1>2, <2>4, <3>1
        DEF Asleep, Handle, RequestStep, Create, Enqueue, MarkFailed, Link, Unlink
      <4> QED BY <1>1, <1>2, <2>1, <2>4, <3>1, <4>1, RequestCares
    <3> QED BY <1>2, <1>3, <2>1, <2>4, <3>1, RequestLocal
  <2>5. ASSUME NEW t \in Task, Process(t)
        PROVE  Cared(x)'
    <3>1. CASE t = x
      <4>1. CASE sync[x] = "idle"
        BY <1>1, <1>2, <2>1, <2>5, <3>1, <4>1, ProcessCares DEF AtWork
      <4>2. CASE req[x] = "idle"
        <5>1. queue[x] = "none" /\ \A a \in Attempt : exec[x][a] = "off"
          BY <1>2, <4>2 DEF IInv, NotYetEnqueued, EntryShape
        <5> QED BY <2>5, <3>1, <5>1
            DEF Process, ProcessorStep, Dequeue, Deadline, RetryDue, RecoverLease, AttemptStep,
                SetRunning, Predict, Report, Finish, Attached
      <4> QED BY <1>2, <4>1, <4>2
    <3> QED BY <1>2, <1>3, <2>1, <2>5, <3>1, ProcessLocal
  <2> QED BY <1>4, <2>2, <2>3, <2>4, <2>5 DEF AgentStep
<1>5. ASSUME NEW t \in Task, Sync(t)
      PROVE  Cared(x)'
  <2>1. CASE t = x
    <3>1. req[x] = "idle"
      BY <1>2, <1>5, <2>1
      DEF Sync, Asleep, SyncStep, SyncCreate, SyncRun, SyncReport, SyncRead
    <3> QED BY <1>1, <1>2, <1>5, <2>1, <3>1, SyncCares
  <2>2. CASE t # x
    BY <1>2, <1>3, <1>5, <2>2, SyncForm, StoreStepLocal
  <2> QED BY <2>1, <2>2
<1>6. CASE Check
  <2>1. CASE WakeUp \/ (CheckReads /\ UNCHANGED <<ElsewhereThanStore, sync>>)
    <3>1. UNCHANGED <<ElsewhereThanStore, sync, recordVars, entryVars>> /\ disturbed \subseteq disturbed'
      BY <1>2, <2>1, CheckReadsForm
    <3> QED BY <1>3, <3>1
        DEF Untouched, ElsewhereThanStore, requestVars, processorVars, controlVars, recordVars,
            entryVars
  <2>2. ASSUME NEW t \in Task, CheckOne(t), UNCHANGED <<ElsewhereThanStore, sync>>
        PROVE  Cared(x)'
    <3>1. CASE t = x
      BY <1>2, <2>2, <3>1, CheckCares DEF CareInv, ArchivedStay
    <3>2. CASE t # x
      BY <1>2, <1>3, <2>2, <3>2, CheckOneForm, StoreStepLocal
    <3> QED BY <3>1, <3>2
  <2> QED BY <1>6, <2>1, <2>2 DEF Check, CheckStep, CheckReads
<1>7. CASE Restart
  <2>1. Untouched(x)
    BY <1>1, <1>2, <1>7, DeathLocal DEF Restart, Crash
  <2>2. sync'[x] = sync[x] \/ (sync'[x] = "lost" /\ x \in Abandoned')
    BY <1>7 DEF Restart, Abandoned
  <2> QED BY <1>2, <1>3, <2>1, <2>2
      DEF Untouched, Cared, Carrier, Attached, Abandoned, AtWork
<1>8. CASE UNCHANGED allVars
  BY <1>3, <1>8, StutterLocal DEF allVars
<1> QED BY <1>4, <1>5, <1>6, <1>7, <1>8 DEF CheckedNext, AgentStep

(* All of it is inductive.                                                 *)
THEOREM CareInvHolds == CheckedSpec => []CareInv
<1>1. CheckedInit => AllCared /\ ArchivedStay /\ OneKind
  <2>1. ASSUME CheckedInit, NEW x \in Task
        PROVE  Cared(x)
    <3>1. 1 \in Attempt
      BY <2>1, Initially, TypesOfState DEF CheckedInit, IInv, Typed
    <3>2. req[x] = "idle" /\ sync[x] = "idle" /\ db[x] = "none" /\ cancel[x] = "idle"
          /\ exec[x][1] = "off"
      BY <2>1, <3>1 DEF CheckedInit, Init, StoreInit, RequestInit, ProcessorInit, ControlInit, SyncInit
    <3> QED BY <3>2 DEF Cared, AtWork, Unsettled
  <2> QED BY <2>1
      DEF AllCared, CheckedInit, Init, RequestInit, CheckInit, ArchivedStay, GivenUp, OneKind
<1>2. AgentAndCheckTyped /\ (LateIsHurt /\ EntryShapes) /\ (LateIsHurt /\ EntryShapes)'
      /\ AllCared /\ ArchivedStay /\ OneKind /\ [CheckedNext]_allVars
      => (AllCared /\ ArchivedStay /\ OneKind)'
  BY CareStep, ArchivedStayKept, OneKindKept DEF CareInv
<1> QED BY <1>1, <1>2, AgentAndCheckTypedHolds, EntryShapesHold, PTL DEF CheckedSpec, CareInv

(* The check is needed for no other tasks than those a failure has hurt    *)
(* and those delete-all-pending took out of the queue: any other           *)
(* unfinished task has somebody who will move it on, for any number of     *)
(* tasks and however long or short a listing's page is                     *)
(* (distributor.go:248-324).                                               *)
THEOREM CheckedTasksAreCaredFor == CheckedSpec => []CheckedNoOrphan
<1>1. CareInv => CheckedNoOrphan
  BY DEF CareInv, AllCared, Cared, CheckedNoOrphan, Hurt, AtWork
<1> QED BY <1>1, CareInvHolds, PTL

(* A confirmed cancel stays, or is overwritten with failed by the check,   *)
(* and the task never ran (server.go:117-128, distributor.go:312).         *)
THEOREM CheckedCancelsHold == CheckedSpec => []CheckedCancelHolds
<1>1. CareInv => CheckedCancelHolds
  BY DEF CareInv, AllCared, Cared, CheckedCancelHolds
<1> QED BY <1>1, CareInvHolds, PTL

(* A worker takes only pending entries, so a task that the check is about  *)
(* to fail because its entry is archived is attempted no more              *)
(* (distributor.go:160-194).                                               *)
THEOREM GivenUpTasksNeverRun == CheckedSpec => GivenUpNeverRuns
<1>1. ASSUME AgentAndCheckTyped, ArchivedStay, [CheckedNext]_allVars,
             NEW t \in Task, GivenUp(t)
      PROVE  attempts'[t] = attempts[t]
  <2>1. queue[t] # "pending" /\ attempts \in [Task -> 0..(MaxRetry + 1)]
    BY <1>1 DEF ArchivedStay, AgentAndCheckTyped, IInv, TypeOK, AgentTypeOK, ProcessorTypeOK
  <2>2. CASE AgentStep
    <3>1. ASSUME NEW u \in Task, Process(u) PROVE attempts'[t] = attempts[t]
      <4>1. Dequeue(u) \/ UNCHANGED attempts
        BY <3>1
        DEF Process, ProcessorStep, AttemptStep, SetRunning, Predict, Report, Finish, Deadline,
            RetryDue, RecoverLease, processorVars
      <4> QED BY <2>1, <3>1, <4>1 DEF Dequeue
    <3>2. (\E u \in Task : Process(u)) \/ UNCHANGED processorVars
      BY <2>2 DEF AgentStep, Services, Control, Arrive, Handle
    <3> QED BY <3>1, <3>2 DEF processorVars
  <2>3. CASE (\E u \in Task : Sync(u)) \/ Check \/ Restart \/ UNCHANGED allVars
    BY <2>3
    DEF Sync, Check, WakeUp, ElsewhereThanStore, Restart, Crash, Die, processorVars, allVars, vars
  <2> QED BY <1>1, <2>2, <2>3 DEF CheckedNext
<1>2. AgentAndCheckTyped /\ CareInv /\ [CheckedNext]_allVars
      => [\A t \in Task : GivenUp(t) => attempts'[t] = attempts[t]]_allVars
  BY <1>1 DEF CareInv
<1> QED
  BY <1>2, AgentAndCheckTypedHolds, CareInvHolds, PTL DEF CheckedSpec, GivenUpNeverRuns

=============================================================================
