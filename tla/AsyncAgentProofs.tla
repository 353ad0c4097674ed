-------------------------- MODULE AsyncAgentProofs --------------------------
(***************************************************************************)
(* Proofs about AsyncAgent, for every set of tasks and every bound.        *)
(***************************************************************************)
EXTENDS AsyncAgent, TLAPS

(* A failure is counted and stays within MaxFaults.                        *)
LEMMA FaultTyping ==
    ASSUME FaultTypeOK, NEW t \in Task, Fault(t)
    PROVE  FaultTypeOK'
BY TaskStoreAssumption DEF Fault, FaultTypeOK, TaskStoreAssumption

(* So does a lost read.                                                    *)
LEMMA ReadLostTyping ==
    ASSUME FaultTypeOK, ReadLost
    PROVE  FaultTypeOK'
BY TaskStoreAssumption DEF ReadLost, FaultTypeOK, TaskStoreAssumption

(* A write carried out by the webhook service keeps the types.             *)
LEMMA CarryTyping ==
    ASSUME cache \in [Task -> Status \cup {"none"}], db \in [Task -> Status \cup {"none"}],
           linked \subseteq Task, NEW t \in Task, NEW w \in Write, Carry(t, w)
    PROVE  /\ cache' \in [Task -> Status \cup {"none"}]
           /\ db' \in [Task -> Status \cup {"none"}]
           /\ linked' \subseteq Task
<1>1. After(w, db[t]) \in Status \cup {"none"} /\ After(w, cache[t]) \in Status \cup {"none"}
  BY DEF After, Write, Creation, Status
<1>2. linked' \in {linked \cup {t}, linked \ {t}, linked}
  BY DEF Carry
<1> QED BY <1>1, <1>2 DEF Carry

(* A listing, also one that cannot be read, keeps the types and heals     *)
(* nothing.                                                                *)
LEMMA ListTyping ==
    ASSUME FaultTypeOK, NEW s, NEW found, ListsEntries(s, found)
    PROVE  FaultTypeOK' /\ disturbed \subseteq disturbed'
BY TaskStoreAssumption DEF ListsEntries, FaultTypeOK, faultVars, TaskStoreAssumption

(* A copy that lingers is a call like any other; its number is that of its *)
(* fault.                                                                  *)
LEMMA LingersTyping ==
    ASSUME late \subseteq LateCall, FaultTypeOK, NEW t \in Task, NEW w \in Write, Lingers(t, w)
    PROVE  late' \subseteq LateCall /\ FaultTypeOK'
<1>1. faults' \in 1..MaxFaults
  BY TaskStoreAssumption DEF Lingers, Fault, FaultTypeOK, TaskStoreAssumption
<1>2. late' \subseteq LateCall
  BY <1>1 DEF Lingers, LateCall
<1> QED BY <1>2, FaultTyping DEF Lingers

(* A webhook call, however it ends, keeps the types of the records and of  *)
(* the fault counter (TaskStore).                                          *)
LEMMA CallTyping ==
    ASSUME RecordTypeOK, FaultTypeOK, NEW t \in Task, NEW w \in Write,
           CallDone(t, w) \/ CallFails(t, w)
    PROVE  RecordTypeOK' /\ FaultTypeOK'
<1>1. CASE CallDone(t, w)
  <2>1. /\ cache' \in [Task -> Status \cup {"none"}] /\ db' \in [Task -> Status \cup {"none"}]
        /\ linked' \subseteq Task
    BY <1>1, CarryTyping DEF CallDone, RecordTypeOK
  <2>2. late' \subseteq LateCall /\ FaultTypeOK'
    <3>1. CASE Lingers(t, w)
      BY <3>1, LingersTyping DEF RecordTypeOK
    <3>2. CASE UNCHANGED <<late, faultVars>>
      BY <3>2 DEF RecordTypeOK, FaultTypeOK, faultVars
    <3> QED BY <1>1, <3>1, <3>2 DEF CallDone
  <2> QED BY <2>1, <2>2 DEF RecordTypeOK
<1>2. CASE CallRefused(t, w)
  BY <1>2 DEF CallRefused, recordVars, faultVars, RecordTypeOK, FaultTypeOK
<1>3. CASE CallLost(t, w)
  <2>1. late' \subseteq LateCall /\ FaultTypeOK'
    BY <1>3, FaultTyping, LingersTyping DEF CallLost, RecordTypeOK
  <2> QED BY <1>3, <2>1 DEF CallLost, RecordTypeOK
<1> QED
  BY <1>1, <1>2, <1>3 DEF CallFails

(* A failed attempt never raises the retry count over MaxRetry.            *)
LEMMA HandleFailedTyping ==
    ASSUME EntryTypeOK, NEW t \in Task, HandleFailed(t)
    PROVE  EntryTypeOK'
BY TaskStoreAssumption DEF EntryTypeOK, HandleFailed, TaskStoreAssumption, QueueState

(* A deletion, successful or not, keeps the types of the queue.            *)
LEMMA DeleteTyping ==
    ASSUME EntryTypeOK, FaultTypeOK, NEW t \in Task, Deleted(t) \/ DeleteFails(t)
    PROVE  EntryTypeOK' /\ FaultTypeOK'
BY TaskStoreAssumption
DEF EntryTypeOK, FaultTypeOK, Deleted, DeleteFails, DeleteRefused, DeleteLost, Fault,
    faultVars, entryVars, QueueState, TaskStoreAssumption

(* A goroutine moves between the stages of an attempt.                     *)
LEMMA AdvanceTyping ==
    ASSUME ProcessorTypeOK, NEW t \in Task, NEW a \in Attempt, NEW stage \in Stage,
           Advance(t, a, stage)
    PROVE  exec' \in [Task -> [Attempt -> Stage]]
BY DEF ProcessorTypeOK, Advance

(* The types hold at the start.                                            *)
LEMMA InitTyping == Init => TypeOK
<1> SUFFICES ASSUME Init PROVE TypeOK
  OBVIOUS
<1>1. StoreTypeOK
  <2>1. RecordTypeOK
    BY DEF Init, StoreInit, RecordTypeOK
  <2>2. EntryTypeOK /\ FaultTypeOK
    BY TaskStoreAssumption
    DEF Init, StoreInit, EntryTypeOK, FaultTypeOK, QueueState, TaskStoreAssumption
  <2>3. paused \in BOOLEAN
    BY DEF Init, StoreInit
  <2> QED BY <2>1, <2>2, <2>3 DEF StoreTypeOK
<1>2. RequestTypeOK /\ ControlTypeOK
  BY DEF Init, RequestInit, ControlInit, RequestTypeOK, ControlTypeOK, RequestStage, Reply,
         CancelStage
<1>3. ProcessorTypeOK
  BY TaskStoreAssumption
  DEF Init, ProcessorInit, ProcessorTypeOK, Stage, TaskStoreAssumption
<1> QED
  BY <1>1, <1>2, <1>3, AsyncAgentAssumption
  DEF Init, TypeOK, AgentTypeOK, AsyncAgentAssumption

(* A request handler keeps the types.                                      *)
LEMMA RequestTyping ==
    ASSUME TypeOK, NEW t \in Task, Arrive(t) \/ Handle(t)
    PROVE  TypeOK'
<1> USE DEF TypeOK, AgentTypeOK, StoreTypeOK
<1>1. UNCHANGED <<processorVars, controlVars, crashes, paused>>
  BY DEF Arrive, Handle, Admit, RequestStep, Create, Enqueue, MarkFailed, Link, Unlink
<1>2. ProcessorTypeOK' /\ ControlTypeOK' /\ (crashes \in 0..MaxCrashes)' /\ (paused \in BOOLEAN)'
  BY <1>1 DEF processorVars, controlVars, ProcessorTypeOK, ControlTypeOK
<1>3. RequestTypeOK'
  BY DEF Arrive, Handle, Admit, RequestStep, Create, Enqueue, MarkFailed, Link, Unlink,
         Goto, Answer, RequestTypeOK, RequestStage, Reply
<1>4. CASE Admit(t)
  BY <1>2, <1>3, <1>4, TaskStoreAssumption
  DEF Admit, ReadLost, faultVars, recordVars, entryVars, RecordTypeOK, EntryTypeOK,
      FaultTypeOK, TaskStoreAssumption
<1>5. CASE Create(t) \/ MarkFailed(t) \/ Link(t)
  <2>1. \E w \in Write : CallDone(t, w) \/ CallFails(t, w)
    BY <1>5 DEF Create, MarkFailed, Link, Write, Creation
  <2>2. RecordTypeOK' /\ FaultTypeOK'
    BY <2>1, CallTyping
  <2>3. EntryTypeOK'
    BY <1>5 DEF Create, MarkFailed, Link, entryVars, EntryTypeOK
  <2> QED BY <1>2, <1>3, <2>2, <2>3
<1>6. CASE Enqueue(t)
  <2>1. EntryTypeOK'
    BY <1>6 DEF Enqueue, Enqueued, EnqueueLost, EntryTypeOK, QueueState
  <2>2. FaultTypeOK'
    <3>1. CASE Enqueued(t)
      BY <3>1 DEF Enqueued, faultVars, FaultTypeOK
    <3>2. CASE EnqueueLost(t)
      BY <3>2, FaultTyping DEF EnqueueLost
    <3> QED BY <1>6, <3>1, <3>2 DEF Enqueue
  <2>3. RecordTypeOK'
    BY <1>6 DEF Enqueue, recordVars, RecordTypeOK
  <2> QED BY <1>2, <1>3, <2>1, <2>2, <2>3
<1>7. CASE Unlink(t)
  <2>1. EntryTypeOK' /\ FaultTypeOK'
    BY <1>7, DeleteTyping DEF Unlink
  <2>2. RecordTypeOK'
    BY <1>7 DEF Unlink, recordVars, RecordTypeOK
  <2> QED BY <1>2, <1>3, <2>1, <2>2
<1> QED BY <1>4, <1>5, <1>6, <1>7 DEF Arrive, Handle, RequestStep

(* A step of an attempt's goroutine keeps the types.                       *)
LEMMA AttemptTyping ==
    ASSUME TypeOK, NEW t \in Task, NEW a \in Attempt, AttemptStep(t, a),
           UNCHANGED <<requestVars, controlVars, crashes>>
    PROVE  TypeOK'
<1> USE DEF TypeOK, AgentTypeOK, StoreTypeOK
<1>1. UNCHANGED <<requestVars, controlVars, crashes, paused, attempts>>
  BY DEF AttemptStep, SetRunning, Predict, Report, Finish
<1>2. RequestTypeOK' /\ ControlTypeOK' /\ (crashes \in 0..MaxCrashes)' /\ (paused \in BOOLEAN)'
  BY <1>1 DEF requestVars, controlVars, RequestTypeOK, ControlTypeOK
<1>3. ProcessorTypeOK'
  <2>1. \E stage \in Stage : Advance(t, a, stage)
    BY DEF AttemptStep, SetRunning, Predict, Report, Finish, Stage
  <2> QED BY <1>1, <2>1, AdvanceTyping DEF ProcessorTypeOK
<1>4. CASE SetRunning(t, a) \/ Report(t, a)
  <2>1. \E w \in Write : CallDone(t, w) \/ CallFails(t, w)
    BY <1>4 DEF SetRunning, Report, Write, Creation
  <2>2. RecordTypeOK' /\ FaultTypeOK'
    BY <2>1, CallTyping
  <2>3. EntryTypeOK'
    BY <1>4 DEF SetRunning, Report, entryVars, EntryTypeOK
  <2> QED BY <1>2, <1>3, <2>2, <2>3
<1>5. CASE Predict(t, a)
  <2>1. RecordTypeOK' /\ EntryTypeOK'
    BY <1>5 DEF Predict, recordVars, entryVars, RecordTypeOK, EntryTypeOK
  <2>2. FaultTypeOK'
    BY <1>5, FaultTyping DEF Predict, faultVars, FaultTypeOK
  <2> QED BY <1>2, <1>3, <2>1, <2>2
<1>6. CASE Finish(t, a)
  <2>1. RecordTypeOK'
    BY <1>6 DEF Finish, recordVars, RecordTypeOK
  <2>2. EntryTypeOK'
    <3>1. CASE HandleFailed(t)
      BY <3>1, HandleFailedTyping
    <3>2. CASE ~HandleFailed(t)
      BY <1>6, <3>2 DEF Finish, entryVars, EntryTypeOK, QueueState
    <3> QED BY <3>1, <3>2
  <2>3. FaultTypeOK'
    BY <1>6, FaultTyping DEF Finish, faultVars, FaultTypeOK
  <2> QED BY <1>2, <1>3, <2>1, <2>2, <2>3
<1> QED BY <1>4, <1>5, <1>6 DEF AttemptStep

(* The task processor keeps the types: no attempt is started beyond        *)
(* MaxRetry + 1, because the attempts are in step with the retries.        *)
LEMMA ProcessTyping ==
    ASSUME TypeOK, AttemptsMatchRetries, NEW t \in Task, Process(t)
    PROVE  TypeOK'
<1> USE DEF TypeOK, AgentTypeOK, StoreTypeOK
<1>1. CASE \E a \in Attempt : AttemptStep(t, a)
  BY <1>1, AttemptTyping DEF Process
<1>2. ASSUME Dequeue(t) \/ Deadline(t) \/ RetryDue(t) \/ RecoverLease(t)
      PROVE  TypeOK'
  <2>1. RequestTypeOK' /\ ControlTypeOK' /\ (crashes \in 0..MaxCrashes)'
    BY DEF Process, requestVars, controlVars, RequestTypeOK, ControlTypeOK
  <2>2. RecordTypeOK' /\ (paused \in BOOLEAN)'
    BY <1>2 DEF Dequeue, Deadline, RetryDue, RecoverLease, recordVars, RecordTypeOK
  <2>3. FaultTypeOK'
    BY <1>2 DEF Dequeue, Deadline, RetryDue, RecoverLease, faultVars, FaultTypeOK
  <2>4. EntryTypeOK'
    <3>1. CASE Dequeue(t) \/ RetryDue(t)
      BY <3>1 DEF Dequeue, RetryDue, EntryTypeOK, QueueState
    <3>2. CASE Deadline(t) \/ RecoverLease(t)
      BY <3>2, HandleFailedTyping DEF Deadline, RecoverLease
    <3> QED BY <1>2, <3>1, <3>2
  <2>5. ProcessorTypeOK'
    <3>1. CASE Dequeue(t)
      <4>1. attempts[t] + 1 \in Attempt
        BY <3>1, TaskStoreAssumption
        DEF Dequeue, AttemptsMatchRetries, Attempt, EntryTypeOK, TaskStoreAssumption
      <4>2. exec' \in [Task -> [Attempt -> Stage]]
        BY <3>1, <4>1, AdvanceTyping DEF Dequeue, Stage
      <4>3. attempts' \in [Task -> 0..(MaxRetry + 1)]
        BY <3>1, <4>1, TaskStoreAssumption
        DEF Dequeue, Attempt, ProcessorTypeOK, TaskStoreAssumption
      <4> QED BY <4>2, <4>3 DEF ProcessorTypeOK
    <3>2. CASE Deadline(t) \/ RetryDue(t) \/ RecoverLease(t)
      BY <3>2 DEF Deadline, RetryDue, RecoverLease, processorVars, ProcessorTypeOK
    <3> QED BY <1>2, <3>1, <3>2
  <2> QED BY <2>1, <2>2, <2>3, <2>4, <2>5
<1> QED BY <1>1, <1>2 DEF Process, ProcessorStep

(* The management handlers keep the types.                                 *)
LEMMA ControlTyping ==
    ASSUME TypeOK, Control
    PROVE  TypeOK'
<1> USE DEF TypeOK, AgentTypeOK, StoreTypeOK
<1>1. RequestTypeOK' /\ ProcessorTypeOK' /\ (crashes \in 0..MaxCrashes)'
  BY DEF Control, requestVars, processorVars, RequestTypeOK, ProcessorTypeOK
<1>2. ControlTypeOK'
  BY DEF Control, ControlStep, CancelStep, CancelLookup, CancelDelete, CancelMark, CancelGoto,
         PurgeDelete, PurgeList, PauseQueue, UnpauseQueue, controlVars, ControlTypeOK, CancelStage
<1>3. (paused \in BOOLEAN)'
  BY DEF Control, ControlStep, CancelStep, CancelLookup, CancelDelete, CancelMark,
         PurgeDelete, PurgeList, PauseQueue, UnpauseQueue, storeVars
<1>4. ASSUME NEW t \in Task, CancelDelete(t) \/ CancelMark(t) \/ PurgeDelete(t)
      PROVE  RecordTypeOK' /\ EntryTypeOK' /\ FaultTypeOK'
  <2>1. CASE CancelMark(t)
    <3>1. RecordTypeOK' /\ FaultTypeOK'
      BY <2>1, CallTyping DEF CancelMark, Write, Creation
    <3>2. EntryTypeOK'
      BY <2>1 DEF CancelMark, entryVars, EntryTypeOK
    <3> QED BY <3>1, <3>2
  <2>2. CASE CancelDelete(t) \/ PurgeDelete(t)
    <3>1. RecordTypeOK'
      BY <2>2 DEF CancelDelete, PurgeDelete, recordVars, RecordTypeOK
    <3>2. \/ Deleted(t) \/ DeleteFails(t)
          \/ UNCHANGED entryVars /\ (UNCHANGED faultVars \/ ReadLost)
      BY <2>2 DEF CancelDelete, PurgeDelete, entryVars, faultVars
    <3>3. EntryTypeOK' /\ FaultTypeOK'
      <4>1. CASE Deleted(t) \/ DeleteFails(t)
        BY <4>1, DeleteTyping
      <4>2. CASE UNCHANGED entryVars /\ (UNCHANGED faultVars \/ ReadLost)
        BY <4>2, ReadLostTyping DEF entryVars, faultVars, EntryTypeOK, FaultTypeOK
      <4> QED BY <3>2, <4>1, <4>2
    <3> QED BY <3>1, <3>3
  <2> QED BY <1>4, <2>1, <2>2
<1>5. ASSUME UNCHANGED <<recordVars, entryVars, faultVars>>
      PROVE  RecordTypeOK' /\ EntryTypeOK' /\ FaultTypeOK'
  BY <1>5 DEF recordVars, entryVars, faultVars, RecordTypeOK, EntryTypeOK, FaultTypeOK
<1>6. \/ \E t \in Task : CancelDelete(t) \/ CancelMark(t) \/ PurgeDelete(t)
      \/ UNCHANGED <<recordVars, entryVars, faultVars>>
  BY DEF Control, ControlStep, CancelStep, CancelLookup, PurgeList, PauseQueue, UnpauseQueue,
         storeVars
<1> QED BY <1>1, <1>2, <1>3, <1>4, <1>5, <1>6

(* The webhook service, with its late and repeated writes, keeps the       *)
(* types.                                                                  *)
LEMMA ServicesTyping ==
    ASSUME TypeOK, Services
    PROVE  TypeOK'
<1> USE DEF TypeOK, AgentTypeOK, StoreTypeOK
<1>1. RequestTypeOK' /\ ProcessorTypeOK' /\ ControlTypeOK' /\ (crashes \in 0..MaxCrashes)'
  BY DEF Services, requestVars, processorVars, controlVars, RequestTypeOK, ProcessorTypeOK,
         ControlTypeOK
<1>2. EntryTypeOK' /\ (paused \in BOOLEAN)'
  BY DEF Services, StoreStep, CarryLate, Expire, entryVars, EntryTypeOK
<1>3. ASSUME NEW u \in late, CarryLate(u)
      PROVE  RecordTypeOK' /\ FaultTypeOK'
  <2>1. u.task \in Task /\ u.write \in Write
    BY DEF RecordTypeOK, LateCall
  <2>2. late' \subseteq LateCall /\ FaultTypeOK'
    BY <1>3, <2>1, FaultTyping DEF CarryLate, RecordTypeOK, FaultTypeOK, faultVars
  <2>3. CASE Carry(u.task, u.write)
    BY <2>1, <2>2, <2>3, CarryTyping DEF RecordTypeOK
  <2>4. CASE UNCHANGED <<cache, db, linked>>
    BY <2>2, <2>4 DEF RecordTypeOK
  <2> QED
    BY <1>3, <2>3, <2>4 DEF CarryLate
<1>4. ASSUME NEW t \in Task, Expire(t)
      PROVE  RecordTypeOK' /\ FaultTypeOK'
  BY <1>4, FaultTyping DEF Expire, RecordTypeOK
<1> QED BY <1>1, <1>2, <1>3, <1>4 DEF Services, StoreStep

(* The death of the process keeps the types.                               *)
LEMMA DeathTyping ==
    ASSUME TypeOK, Die, crashes' \in 0..MaxCrashes
    PROVE  TypeOK'
<1> USE DEF TypeOK, AgentTypeOK, StoreTypeOK
<1>1. RecordTypeOK' /\ EntryTypeOK' /\ (paused \in BOOLEAN)'
  BY DEF Die, recordVars, entryVars, RecordTypeOK, EntryTypeOK
<1>2. FaultTypeOK'
  BY DEF Die, FaultTypeOK
<1>3. RequestTypeOK'
  BY DEF Die, RequestTypeOK, RequestStage, Reply
<1>4. ProcessorTypeOK'
  BY DEF Die, ProcessorTypeOK, Stage
<1>5. ControlTypeOK'
  BY DEF Die, ControlTypeOK, CancelStage
<1> QED BY <1>1, <1>2, <1>3, <1>4, <1>5

(* Every step keeps the types.                                             *)
LEMMA NextTyping ==
    ASSUME TypeOK, AttemptsMatchRetries, [Next]_vars
    PROVE  TypeOK'
<1>1. CASE Next
  <2>1. Crash => Die /\ crashes' \in 0..MaxCrashes
    BY AsyncAgentAssumption DEF Crash, AsyncAgentAssumption, TypeOK, AgentTypeOK
  <2> QED
    BY <1>1, <2>1, ServicesTyping, RequestTyping, ProcessTyping, ControlTyping, DeathTyping DEF Next
<1>2. CASE UNCHANGED vars
  BY <1>2
  DEF vars, storeVars, recordVars, entryVars, faultVars, requestVars, processorVars, controlVars,
      TypeOK, AgentTypeOK, StoreTypeOK, RecordTypeOK, EntryTypeOK, FaultTypeOK, RequestTypeOK,
      ProcessorTypeOK, ControlTypeOK
<1> QED BY <1>1, <1>2

-----------------------------------------------------------------------------
(* The retry count and the attempts stay in step.                          *)

(* An entry that its request handler has still to enqueue does not exist;  *)
(* without this, Enqueue could bring back an entry that was retried or     *)
(* deleted before.                                                         *)
NotYetEnqueued ==
    \A t \in Task : req[t] \in {"idle", "create", "enqueue"} => queue[t] = "none"

IInv == TypeOK /\ AttemptsMatchRetries /\ NotYetEnqueued

(* DeleteTask removes an entry that is not active, or changes nothing.     *)
LEMMA DeleteEffect ==
    ASSUME NEW t \in Task, Deleted(t) \/ DeleteFails(t)
    PROVE  /\ retried' = retried
           /\ \/ queue' = queue
              \/ Deletable(t) /\ queue' = [queue EXCEPT ![t] = "gone"]
BY DEF Deleted, DeleteFails, DeleteRefused, DeleteLost, entryVars

(* A step that may only take deletable entries out of the queue keeps the  *)
(* counts in step.                                                         *)
LEMMA DeleteKeepsCounts ==
    ASSUME TypeOK, AttemptsMatchRetries, NotYetEnqueued, NEW t \in Task,
           Deleted(t) \/ DeleteFails(t), UNCHANGED processorVars,
           \A x \in Task : req'[x] \in {"idle", "create", "enqueue"} => req[x] = req'[x]
    PROVE  AttemptsMatchRetries' /\ NotYetEnqueued'
<1>1. /\ retried' = retried /\ attempts' = attempts /\ exec' = exec
      /\ \/ queue' = queue
         \/ queue[t] \in {"pending", "retry", "archived"} /\ queue' = [queue EXCEPT ![t] = "gone"]
  BY DeleteEffect DEF processorVars, Deletable
<1>2. queue \in [Task -> QueueState]
  BY DEF TypeOK, AgentTypeOK, StoreTypeOK, EntryTypeOK
<1>3. AttemptsMatchRetries'
  BY <1>1, <1>2 DEF AttemptsMatchRetries
<1>4. NotYetEnqueued'
  BY <1>1, <1>2 DEF NotYetEnqueued
<1> QED BY <1>3, <1>4

(* Asynq's verdict on a failed attempt moves the count along with it.      *)
LEMMA FailureKeepsCounts ==
    ASSUME TypeOK, AttemptsMatchRetries, NotYetEnqueued, NEW t \in Task,
           queue[t] = "active", HandleFailed(t), attempts' = attempts, req' = req,
           \A x \in Task : \A a \in Attempt : exec'[x][a] # "off" => exec[x][a] # "off"
    PROVE  AttemptsMatchRetries' /\ NotYetEnqueued'
<1>1. /\ queue \in [Task -> QueueState] /\ retried \in [Task -> 0..MaxRetry]
      /\ attempts \in [Task -> 0..(MaxRetry + 1)] /\ MaxRetry \in Nat
  BY TaskStoreAssumption
  DEF TypeOK, AgentTypeOK, StoreTypeOK, EntryTypeOK, ProcessorTypeOK, TaskStoreAssumption
<1>2. CASE retried[t] < MaxRetry
  <2>1. queue' = [queue EXCEPT ![t] = "retry"] /\ retried' = [retried EXCEPT ![t] = @ + 1]
    BY <1>2 DEF HandleFailed
  <2> QED BY <1>1, <2>1 DEF AttemptsMatchRetries, NotYetEnqueued
<1>3. CASE ~(retried[t] < MaxRetry)
  <2>1. queue' = [queue EXCEPT ![t] = "archived"] /\ retried' = retried /\ retried[t] = MaxRetry
    BY <1>1, <1>3 DEF HandleFailed
  <2> QED BY <1>1, <2>1 DEF AttemptsMatchRetries, NotYetEnqueued
<1> QED BY <1>2, <1>3

(* A request handler starts no attempt, and enqueues only what was never   *)
(* in the queue.                                                           *)
LEMMA RequestKeepsCounts ==
    ASSUME IInv, NEW t \in Task, Arrive(t) \/ Handle(t)
    PROVE  AttemptsMatchRetries' /\ NotYetEnqueued'
<1> USE DEF IInv
<1>1. /\ queue \in [Task -> QueueState] /\ req \in [Task -> RequestStage]
      /\ UNCHANGED processorVars
  BY DEF TypeOK, AgentTypeOK, StoreTypeOK, EntryTypeOK, RequestTypeOK, Arrive, Handle
<1>2. CASE Unlink(t)
  <2>1. \A x \in Task : req'[x] \in {"idle", "create", "enqueue"} => req[x] = req'[x]
    BY <1>1, <1>2 DEF Unlink, Answer
  <2> QED BY <1>1, <1>2, <2>1, DeleteKeepsCounts DEF Unlink
<1>3. CASE Enqueue(t)
  <2>1. /\ queue[t] = "none"
        /\ queue' = queue \/ queue' = [queue EXCEPT ![t] = "pending"]
        /\ retried' = retried /\ attempts' = attempts /\ exec' = exec
        /\ req' \in {[req EXCEPT ![t] = "link"], [req EXCEPT ![t] = "mark failed"]}
    BY <1>1, <1>3
    DEF Enqueue, Enqueued, EnqueueLost, Goto, NotYetEnqueued, processorVars
  <2> QED BY <1>1, <2>1 DEF AttemptsMatchRetries, NotYetEnqueued
<1>4. CASE Admit(t) \/ Create(t) \/ MarkFailed(t) \/ Link(t)
  <2>1. UNCHANGED <<queue, retried, attempts, exec>>
    BY <1>1, <1>4 DEF Admit, Create, MarkFailed, Link, entryVars, processorVars
  <2>2. \A x \in Task : \/ req'[x] \notin {"idle", "create", "enqueue"}
                        \/ req[x] \in {"idle", "create", "enqueue"}
    BY <1>1, <1>4 DEF Admit, Create, MarkFailed, Link, Goto, Answer
  <2> QED BY <2>1, <2>2 DEF AttemptsMatchRetries, NotYetEnqueued
<1> QED BY <1>2, <1>3, <1>4 DEF Arrive, Handle, RequestStep

(* The task processor keeps retries and attempts in step.                  *)
LEMMA ProcessKeepsCounts ==
    ASSUME IInv, NEW t \in Task, Process(t)
    PROVE  AttemptsMatchRetries' /\ NotYetEnqueued'
<1> USE DEF IInv
<1>1. /\ queue \in [Task -> QueueState] /\ retried \in [Task -> 0..MaxRetry]
      /\ attempts \in [Task -> 0..(MaxRetry + 1)] /\ exec \in [Task -> [Attempt -> Stage]]
      /\ MaxRetry \in Nat
  BY TaskStoreAssumption
  DEF TypeOK, AgentTypeOK, StoreTypeOK, EntryTypeOK, ProcessorTypeOK, TaskStoreAssumption
<1>2. req' = req
  BY DEF Process, requestVars
<1>3. CASE Dequeue(t)
  <2>1. /\ queue[t] = "pending" /\ queue' = [queue EXCEPT ![t] = "active"]
        /\ attempts' = [attempts EXCEPT ![t] = @ + 1] /\ retried' = retried
        /\ exec' = [exec EXCEPT ![t] = [@ EXCEPT ![attempts[t] + 1] = "start"]]
    BY <1>3 DEF Dequeue, Advance
  <2>2. \A x \in Task : \A a \in Attempt :
            exec'[x][a] # "off" => a <= attempts'[x]
    BY <1>1, <2>1 DEF AttemptsMatchRetries, Attempt
  <2> QED BY <1>1, <1>2, <2>1, <2>2 DEF AttemptsMatchRetries, NotYetEnqueued
<1>4. CASE RetryDue(t)
  <2>1. /\ queue[t] = "retry" /\ queue' = [queue EXCEPT ![t] = "pending"]
        /\ UNCHANGED <<retried, attempts, exec>>
    BY <1>4 DEF RetryDue, processorVars
  <2> QED BY <1>1, <1>2, <2>1 DEF AttemptsMatchRetries, NotYetEnqueued
<1>5. CASE Deadline(t) \/ RecoverLease(t)
  <2>1. queue[t] = "active" /\ HandleFailed(t) /\ UNCHANGED <<attempts, exec>>
    BY <1>5 DEF Deadline, RecoverLease, Attached, processorVars
  <2> QED BY <1>2, <2>1, FailureKeepsCounts
<1>6. ASSUME NEW a \in Attempt, AttemptStep(t, a)
      PROVE  AttemptsMatchRetries' /\ NotYetEnqueued'
  <2>1. /\ attempts' = attempts
        /\ exec[t][a] # "off"
        /\ \E stage \in Stage : exec' = [exec EXCEPT ![t] = [@ EXCEPT ![a] = stage]]
    BY <1>6 DEF AttemptStep, SetRunning, Predict, Report, Finish, Advance, Stage
  <2>2. \A x \in Task : \A b \in Attempt : exec'[x][b] # "off" => exec[x][b] # "off"
    BY <1>1, <2>1
  <2>3. CASE UNCHANGED entryVars
    BY <1>2, <2>1, <2>2, <2>3 DEF entryVars, AttemptsMatchRetries, NotYetEnqueued
  <2>4. CASE queue[t] = "active" /\ HandleFailed(t)
    BY <1>2, <2>1, <2>2, <2>4, FailureKeepsCounts
  <2>5. CASE queue[t] = "active" /\ queue' = [queue EXCEPT ![t] = "gone"] /\ retried' = retried
    BY <1>1, <1>2, <2>1, <2>2, <2>5 DEF AttemptsMatchRetries, NotYetEnqueued
  <2> QED
    BY <1>6, <2>3, <2>4, <2>5
    DEF AttemptStep, SetRunning, Predict, Report, Finish, Attached
<1> QED BY <1>3, <1>4, <1>5, <1>6 DEF Process, ProcessorStep

(* So does everything else, a crash included.                              *)
LEMMA OthersKeepCounts ==
    ASSUME IInv, Services \/ Control \/ Die \/ UNCHANGED vars
    PROVE  AttemptsMatchRetries' /\ NotYetEnqueued'
<1> USE DEF IInv
<1>1. CASE Services \/ UNCHANGED vars
  <2>1. UNCHANGED <<queue, retried, attempts, exec, req>>
    BY <1>1 DEF Services, StoreStep, CarryLate, Expire, vars, storeVars, entryVars, requestVars,
                processorVars
  <2> QED BY <2>1 DEF AttemptsMatchRetries, NotYetEnqueued
<1>2. CASE Die
  <2>1. UNCHANGED <<queue, retried, attempts>> /\ \A x \in Task : req'[x] \in {"idle", "done"}
    BY <1>2 DEF Die, entryVars
  <2>2. \A x \in Task : \A a \in Attempt : exec'[x][a] = "off"
    BY <1>2 DEF Die
  <2>3. \A x \in Task : req'[x] = "idle" => req[x] = "idle"
    BY <1>2 DEF Die
  <2> QED BY <2>1, <2>2, <2>3 DEF AttemptsMatchRetries, NotYetEnqueued
<1>3. CASE Control
  <2>1. req' = req /\ UNCHANGED processorVars
    BY <1>3 DEF Control, requestVars
  <2>2. CASE UNCHANGED entryVars
    BY <2>1, <2>2 DEF entryVars, processorVars, AttemptsMatchRetries, NotYetEnqueued
  <2>3. ASSUME NEW t \in Task, Deleted(t) \/ DeleteFails(t)
        PROVE  AttemptsMatchRetries' /\ NotYetEnqueued'
    BY <2>1, <2>3, DeleteKeepsCounts
  <2> QED
    BY <1>3, <2>2, <2>3
    DEF Control, ControlStep, CancelStep, CancelLookup, CancelDelete, CancelMark, PurgeDelete,
        PurgeList, PauseQueue, UnpauseQueue, storeVars, entryVars
<1> QED BY <1>1, <1>2, <1>3

(* The invariant holds at the start.                                       *)
LEMMA Initially == Init => IInv
<1> SUFFICES ASSUME Init PROVE IInv
  OBVIOUS
<1>1. AttemptsMatchRetries /\ NotYetEnqueued
  BY DEF Init, StoreInit, RequestInit, ProcessorInit, AttemptsMatchRetries, NotYetEnqueued
<1> QED BY <1>1, InitTyping DEF IInv

(* Every step keeps the invariant.                                         *)
LEMMA Inductive == IInv /\ [Next]_vars => IInv'
<1> SUFFICES ASSUME IInv, [Next]_vars PROVE IInv'
  OBVIOUS
<1>1. TypeOK'
  BY NextTyping DEF IInv
<1>2. AttemptsMatchRetries' /\ NotYetEnqueued'
  BY RequestKeepsCounts, ProcessKeepsCounts, OthersKeepCounts DEF Next, Crash
<1> QED BY <1>1, <1>2 DEF IInv

(* The inductive invariant holds in every reachable state.                 *)
THEOREM IInvHolds == Spec => []IInv
BY Initially, Inductive, PTL DEF Spec

(* Every variable keeps its type, for any set of tasks and any bounds.     *)
THEOREM TypeCorrect == Spec => []TypeOK
BY IInvHolds, PTL DEF IInv

(* Attempts and retries stay in step: a prediction is started at most      *)
(* MaxRetry + 1 times, whatever fails (predict.go:75, v1.go:93).           *)
THEOREM AttemptsBounded == Spec => []AttemptsMatchRetries
BY IInvHolds, PTL DEF IInv

-----------------------------------------------------------------------------
(* What every webhook call does, and what no step undoes.                  *)

(* What any webhook call does to the records.                              *)
LEMMA CallEffect ==
    ASSUME NEW t \in Task, NEW w, CallDone(t, w) \/ CallFails(t, w)
    PROVE  /\ \/ db' = db /\ cache' = cache /\ linked' = linked
              \/ Accepts(t, w) /\ Carry(t, w)
           /\ \A u \in late' : u \in late \/ (u.task = t /\ u.write = w)
           /\ \/ faults' = faults /\ disturbed' = disturbed /\ late' = late
              \/ disturbed' = disturbed \cup {t}
BY DEF CallDone, CallFails, CallRefused, CallLost, Lingers, Fault, recordVars, faultVars

(* No step brings back an entry that has left the queue.                   *)
LEMMA GoneStep ==
    ASSUME IInv, [Next]_vars, NEW x \in Task, queue[x] = "gone"
    PROVE  queue'[x] = "gone"
<1>1. queue \in [Task -> QueueState]
  BY DEF IInv, TypeOK, AgentTypeOK, StoreTypeOK, EntryTypeOK
<1>2. CASE UNCHANGED queue
  BY <1>2
<1>3. ASSUME NEW t \in Task, Deleted(t) \/ DeleteFails(t)
      PROVE  queue'[x] = "gone"
  BY <1>1, <1>3, DeleteEffect
<1>4. ASSUME NEW t \in Task, Handle(t)
      PROVE  queue'[x] = "gone"
  <2>1. CASE Enqueue(t)
    BY <1>1, <2>1 DEF Enqueue, Enqueued, EnqueueLost, IInv, NotYetEnqueued
  <2>2. CASE ~Enqueue(t)
    BY <1>2, <1>3, <1>4, <2>2
    DEF Handle, RequestStep, Create, MarkFailed, Link, Unlink, entryVars
  <2> QED BY <2>1, <2>2
<1>5. ASSUME NEW t \in Task, Process(t)
      PROVE  queue'[x] = "gone"
  <2>1. CASE queue[t] = "gone"
    <3>1. ~Dequeue(t) /\ ~Deadline(t) /\ ~RetryDue(t) /\ ~RecoverLease(t)
      BY <2>1 DEF Dequeue, Deadline, RetryDue, RecoverLease, Attached
    <3>2. UNCHANGED queue
      BY <1>5, <2>1, <3>1
      DEF Process, ProcessorStep, AttemptStep, SetRunning, Predict, Report, Finish, Attached,
          entryVars
    <3> QED BY <1>2, <3>2
  <2>2. CASE queue[t] # "gone"
    BY <1>1, <1>5, <2>2
    DEF Process, ProcessorStep, Dequeue, Deadline, RetryDue, RecoverLease, HandleFailed,
        AttemptStep, SetRunning, Predict, Report, Finish, entryVars
  <2> QED BY <2>1, <2>2
<1>6. CASE Services \/ Crash \/ UNCHANGED vars \/ \E t \in Task : Arrive(t)
  BY <1>2, <1>6
  DEF Services, StoreStep, CarryLate, Expire, Crash, Die, Arrive, Admit, vars, storeVars, entryVars
<1>7. CASE Control
  BY <1>2, <1>3, <1>7
  DEF Control, ControlStep, CancelStep, CancelLookup, CancelDelete, CancelMark, PurgeDelete,
      PurgeList, PauseQueue, UnpauseQueue, storeVars, entryVars
<1> QED BY <1>4, <1>5, <1>6, <1>7 DEF Next

(* A deleted or finished entry never comes back.                           *)
THEOREM GoneIsForGood == Spec => GoneStaysGone
<1>1. IInv /\ [Next]_vars => [\A t \in Task : queue[t] = "gone" => queue'[t] = "gone"]_vars
  BY GoneStep
<1> QED BY <1>1, IInvHolds, PTL DEF Spec, GoneStaysGone

-----------------------------------------------------------------------------
(* Entries advance.                                                        *)

(* The moves of an entry.                                                  *)
EntryMove(x) ==
    \/ UNCHANGED <<queue[x], retried[x]>>
    \/ /\ retried'[x] = retried[x]
       /\ <<queue[x], queue'[x]>> \in
             {<<"none", "pending">>, <<"retry", "pending">>, <<"pending", "active">>,
              <<"active", "archived">>, <<"active", "gone">>, <<"pending", "gone">>,
              <<"retry", "gone">>, <<"archived", "gone">>}
    \/ /\ queue[x] = "active" /\ queue'[x] = "retry"
       /\ retried[x] < MaxRetry /\ retried'[x] = retried[x] + 1

(* An attempt that failed moves its entry on.                              *)
LEMMA FailedMoves ==
    ASSUME EntryTypeOK, NEW t \in Task, queue[t] = "active", HandleFailed(t), NEW x \in Task
    PROVE  EntryMove(x)
<1>1. CASE retried[t] < MaxRetry
  BY <1>1 DEF HandleFailed, EntryTypeOK, EntryMove
<1>2. CASE ~(retried[t] < MaxRetry)
  BY <1>2 DEF HandleFailed, EntryTypeOK, EntryMove
<1> QED BY <1>1, <1>2

(* So does a deletion, if it finds one.                                    *)
LEMMA DeletionMoves ==
    ASSUME EntryTypeOK, NEW t \in Task, Deleted(t) \/ DeleteFails(t), NEW x \in Task
    PROVE  EntryMove(x)
BY DeleteEffect DEF Deletable, EntryTypeOK, EntryMove

(* Every step moves every entry by one of these moves or not at all.       *)
LEMMA EntriesMove ==
    ASSUME IInv, [Next]_vars, NEW x \in Task
    PROVE  EntryMove(x)
<1>1. EntryTypeOK
  BY DEF IInv, TypeOK, AgentTypeOK, StoreTypeOK
<1>2. CASE UNCHANGED entryVars
  BY <1>2 DEF entryVars, EntryMove
<1>3. ASSUME NEW t \in Task, Handle(t)
      PROVE  EntryMove(x)
  <2>1. CASE Enqueue(t)
    <3>1. queue[t] = "none"
      BY <2>1 DEF Enqueue, IInv, NotYetEnqueued
    <3>2. CASE UNCHANGED entryVars
      BY <1>2, <3>2
    <3>3. CASE queue' = [queue EXCEPT ![t] = "pending"] /\ retried' = retried
      BY <1>1, <3>1, <3>3 DEF EntryTypeOK, EntryMove
    <3> QED BY <2>1, <3>2, <3>3 DEF Enqueue, Enqueued, EnqueueLost, entryVars
  <2>2. CASE Unlink(t)
    BY <1>1, <2>2, DeletionMoves DEF Unlink
  <2>3. CASE Create(t) \/ MarkFailed(t) \/ Link(t)
    BY <1>2, <2>3 DEF Create, MarkFailed, Link
  <2> QED BY <1>3, <2>1, <2>2, <2>3 DEF Handle, RequestStep
<1>4. ASSUME NEW t \in Task, Process(t)
      PROVE  EntryMove(x)
  <2>1. CASE Dequeue(t)
    BY <1>1, <2>1 DEF Dequeue, EntryTypeOK, EntryMove
  <2>2. CASE RetryDue(t)
    BY <1>1, <2>2 DEF RetryDue, EntryTypeOK, EntryMove
  <2>3. CASE Deadline(t) \/ RecoverLease(t)
    BY <1>1, <2>3, FailedMoves DEF Deadline, RecoverLease, Attached
  <2>4. ASSUME NEW a \in Attempt, Finish(t, a)
        PROVE  EntryMove(x)
    <3>1. CASE Attached(t, a) /\ queue' = [queue EXCEPT ![t] = "gone"] /\ retried' = retried
      BY <1>1, <3>1 DEF Attached, EntryTypeOK, EntryMove
    <3>2. CASE Attached(t, a) /\ HandleFailed(t)
      BY <1>1, <3>2, FailedMoves DEF Attached
    <3> QED BY <1>2, <2>4, <3>1, <3>2 DEF Finish
  <2>5. ASSUME NEW a \in Attempt, SetRunning(t, a) \/ Predict(t, a) \/ Report(t, a)
        PROVE  EntryMove(x)
    BY <1>2, <2>5 DEF SetRunning, Predict, Report
  <2> QED BY <1>4, <2>1, <2>2, <2>3, <2>4, <2>5 DEF Process, ProcessorStep, AttemptStep
<1>5. CASE Services \/ Crash \/ UNCHANGED vars \/ \E t \in Task : Arrive(t)
  BY <1>2, <1>5
  DEF Services, StoreStep, CarryLate, Expire, Crash, Die, Arrive, Admit, vars, storeVars
<1>6. CASE Control
  BY <1>1, <1>2, <1>6, DeletionMoves
  DEF Control, ControlStep, CancelStep, CancelLookup, CancelDelete, CancelMark, PurgeDelete,
      PurgeList, PauseQueue, UnpauseQueue, storeVars
<1> QED BY <1>3, <1>4, <1>5, <1>6 DEF Next

(* A move leaves fewer changes than there were.                            *)
LEMMA MovesAdvance ==
    ASSUME EntryTypeOK, EntryTypeOK', NEW x \in Task, EntryMove(x),
           <<queue[x], retried[x]>>' # <<queue[x], retried[x]>>
    PROVE  ChangesLeft(x)' < ChangesLeft(x)
<1>1. MaxRetry \in Nat /\ retried[x] \in 0..MaxRetry /\ retried'[x] \in 0..MaxRetry
  BY TaskStoreAssumption DEF EntryTypeOK
<1>2. CASE queue[x] = "active" /\ queue'[x] = "retry" /\ retried'[x] = retried[x] + 1
  <2>1. ChangesLeft(x) = 3 * (MaxRetry - retried[x]) + 2
    BY <1>2 DEF ChangesLeft
  <2>2. ChangesLeft(x)' = 3 * (MaxRetry - retried'[x]) + 4
    BY <1>2 DEF ChangesLeft
  <2> QED BY <1>1, <1>2, <2>1, <2>2
<1>3. CASE retried'[x] = retried[x]
  <2> DEFINE left == 3 * (MaxRetry - retried[x])
  <2>1. left \in Nat /\ left <= 3 * MaxRetry
    BY <1>1
  <2>2. /\ queue[x] = "none" => ChangesLeft(x) = 3 * MaxRetry + 4
        /\ queue[x] = "retry" => ChangesLeft(x) = left + 4
        /\ queue[x] = "pending" => ChangesLeft(x) = left + 3
        /\ queue[x] = "active" => ChangesLeft(x) = left + 2
        /\ queue[x] = "archived" => ChangesLeft(x) = 1
    BY DEF ChangesLeft
  <2>3. /\ queue'[x] = "pending" => ChangesLeft(x)' = left + 3
        /\ queue'[x] = "active" => ChangesLeft(x)' = left + 2
        /\ queue'[x] = "archived" => ChangesLeft(x)' = 1
        /\ queue'[x] = "gone" => ChangesLeft(x)' = 0
    BY <1>3 DEF ChangesLeft
  <2> HIDE DEF left
  <2> QED BY <1>1, <1>3, <2>1, <2>2, <2>3 DEF EntryMove
<1> QED BY <1>2, <1>3 DEF EntryMove

(* No entry runs in circles: every change of it leaves it fewer.           *)
THEOREM EntriesAlwaysAdvance == Spec => EntriesAdvance
<1>1. IInv /\ IInv' /\ [Next]_vars
      => [\A t \in Task : <<queue[t], retried[t]>>' # <<queue[t], retried[t]>>
                          => ChangesLeft(t)' < ChangesLeft(t)]_vars
  BY EntriesMove, MovesAdvance DEF IInv, TypeOK, AgentTypeOK, StoreTypeOK
<1> QED BY <1>1, IInvHolds, PTL DEF Spec, EntriesAdvance

-----------------------------------------------------------------------------
(* Canceled tasks.                                                         *)

(* A call that writes something else than canceled makes no task look      *)
(* canceled.                                                               *)
LEMMA CallKeepsUncanceled ==
    ASSUME TypeOK, NEW t \in Task, NEW w \in Write \ {"canceled"},
           CallDone(t, w) \/ CallFails(t, w), cancel' = cancel,
           NEW x \in Task, MayShowCanceled(x)'
    PROVE  MayShowCanceled(x)
<1>1. db'[x] = "canceled" => db[x] = "canceled"
  <2>1. db' = db \/ db' = [db EXCEPT ![t] = After(w, db[t])]
    BY CallEffect DEF Carry, Creation
  <2>2. After(w, db[t]) = "canceled" => db[t] = "canceled"
    BY DEF After, Write, Creation
  <2>3. db \in [Task -> Status \cup {"none"}]
    BY DEF TypeOK, AgentTypeOK, StoreTypeOK, RecordTypeOK
  <2> QED BY <2>1, <2>2, <2>3
<1>2. \A u \in late' : u.task = x /\ u.write = "canceled" => u \in late
  BY CallEffect
<1> QED BY <1>1, <1>2 DEF MayShowCanceled

(* Nor does a step that leaves the records alone.                          *)
LEMMA SameRecordsUncanceled ==
    ASSUME UNCHANGED recordVars, NEW x \in Task, cancel'[x] = "mark" => cancel[x] = "mark",
           MayShowCanceled(x)'
    PROVE  MayShowCanceled(x)
BY DEF recordVars, MayShowCanceled

(* Only deleting the entry can make a record look canceled.                *)
LEMMA CanceledStep ==
    ASSUME IInv, [Next]_vars, NEW x \in Task, MayShowCanceled(x)'
    PROVE  MayShowCanceled(x) \/ queue'[x] = "gone"
<1>1. /\ queue \in [Task -> QueueState] /\ cancel \in [Task -> CancelStage] /\ TypeOK
      /\ db \in [Task -> Status \cup {"none"}] /\ late \subseteq LateCall
  BY DEF IInv, TypeOK, AgentTypeOK, StoreTypeOK, EntryTypeOK, RecordTypeOK, ControlTypeOK
<1>2. ASSUME NEW t \in Task, Arrive(t) \/ Handle(t)
      PROVE  MayShowCanceled(x)
  <2>1. cancel' = cancel
    BY <1>2 DEF Arrive, Handle, controlVars
  <2>2. \/ UNCHANGED recordVars
        \/ \E w \in Write \ {"canceled"} : CallDone(t, w) \/ CallFails(t, w)
    BY <1>2 DEF Arrive, Handle, Admit, RequestStep, Create, Enqueue, MarkFailed, Link, Unlink,
                Write, Creation
  <2> QED BY <1>1, <2>1, <2>2, CallKeepsUncanceled, SameRecordsUncanceled
<1>3. ASSUME NEW t \in Task, Process(t)
      PROVE  MayShowCanceled(x)
  <2>1. cancel' = cancel
    BY <1>3 DEF Process, controlVars
  <2>2. \/ UNCHANGED recordVars
        \/ \E w \in Write \ {"canceled"} : CallDone(t, w) \/ CallFails(t, w)
    BY <1>3
    DEF Process, ProcessorStep, Dequeue, Deadline, RetryDue, RecoverLease, AttemptStep,
        SetRunning, Predict, Report, Finish, Write, Creation
  <2> QED BY <1>1, <2>1, <2>2, CallKeepsUncanceled, SameRecordsUncanceled
<1>4. ASSUME NEW t \in Task, CancelDelete(t)
      PROVE  MayShowCanceled(x) \/ queue'[x] = "gone"
  <2>1. CASE x = t /\ Deleted(t)
    BY <1>1, <2>1 DEF Deleted
  <2>2. CASE ~(x = t /\ Deleted(t))
    <3>1. UNCHANGED recordVars /\ (cancel'[x] = "mark" => cancel[x] = "mark")
      BY <1>1, <1>4, <2>2 DEF CancelDelete, CancelGoto
    <3> QED BY <3>1, SameRecordsUncanceled
  <2> QED BY <2>1, <2>2
<1>5. ASSUME NEW t \in Task, CancelMark(t)
      PROVE  MayShowCanceled(x)
  <2>1. CASE x = t
    BY <1>5, <2>1 DEF CancelMark, MayShowCanceled
  <2>2. CASE x # t
    <3>1. CallDone(t, "canceled") \/ CallFails(t, "canceled")
      BY <1>5 DEF CancelMark
    <3>2. cancel'[x] = cancel[x]
      BY <1>1, <1>5, <2>2 DEF CancelMark, CancelGoto
    <3>3. db'[x] = db[x]
      <4>1. db' = db \/ Carry(t, "canceled")
        BY <3>1, CallEffect
      <4> QED BY <1>1, <2>2, <4>1 DEF Carry, Creation
    <3>4. \A u \in late' : u.task = x => u \in late
      BY <2>2, <3>1, CallEffect
    <3> QED BY <3>2, <3>3, <3>4 DEF MayShowCanceled
  <2> QED BY <2>1, <2>2
<1>6. CASE Control
  <2>1. ASSUME UNCHANGED recordVars, cancel'[x] = "mark" => cancel[x] = "mark"
        PROVE  MayShowCanceled(x)
    BY <2>1, SameRecordsUncanceled
  <2>2. ASSUME NEW t \in Task, CancelLookup(t) \/ PurgeDelete(t)
        PROVE  MayShowCanceled(x)
    BY <1>1, <2>1, <2>2 DEF CancelLookup, CancelGoto, PurgeDelete, storeVars, recordVars
  <2>3. CASE PurgeList \/ PauseQueue \/ UnpauseQueue
    BY <2>1, <2>3 DEF PurgeList, PauseQueue, UnpauseQueue, storeVars, controlVars, recordVars
  <2> QED BY <1>4, <1>5, <1>6, <2>2, <2>3 DEF Control, ControlStep, CancelStep
<1>7. CASE Services
  <2>1. cancel' = cancel
    BY <1>7 DEF Services, controlVars
  <2>2. ASSUME NEW u \in late, CarryLate(u)
        PROVE  MayShowCanceled(x)
    <3>1. late' \subseteq late
      BY <2>2 DEF CarryLate
    <3>2. CASE db'[x] = db[x]
      BY <2>1, <3>1, <3>2 DEF MayShowCanceled
    <3>3. CASE db'[x] # db[x]
      <4>1. u.task = x /\ db'[x] = After(u.write, db[x])
        <5>1. db' # db
          BY <3>3
        <5>2. Carry(u.task, u.write)
          BY <2>2, <5>1 DEF CarryLate
        <5> QED BY <1>1, <3>3, <5>2 DEF Carry, Creation, LateCall
      <4>2. After(u.write, db[x]) = "canceled" => u.write = "canceled" \/ db[x] = "canceled"
        BY <1>1 DEF After, LateCall, Write, Creation
      <4> QED BY <2>1, <3>1, <4>1, <4>2 DEF MayShowCanceled
    <3> QED BY <3>2, <3>3
  <2>3. ASSUME NEW t \in Task, Expire(t)
        PROVE  MayShowCanceled(x)
    BY <2>1, <2>3 DEF Expire, MayShowCanceled
  <2> QED BY <1>7, <2>2, <2>3 DEF Services, StoreStep
<1>8. CASE Crash
  <2>1. UNCHANGED recordVars /\ (cancel'[x] = "mark" => cancel[x] = "mark")
    BY <1>8 DEF Crash, Die
  <2> QED BY <2>1, SameRecordsUncanceled
<1>9. CASE UNCHANGED vars
  BY <1>9, SameRecordsUncanceled DEF vars, storeVars, controlVars
<1> QED BY <1>2, <1>3, <1>6, <1>7, <1>8, <1>9 DEF Next

(* A task that is, or may yet be, shown as canceled has left the queue for *)
(* good, whatever was lost, late or repeated (server.go:117-124).          *)
THEOREM CanceledTasksAreDequeued == Spec => []CanceledIsDequeued
<1>1. Init => CanceledIsDequeued
  BY DEF Init, StoreInit, ControlInit, CanceledIsDequeued, MayShowCanceled
<1>2. IInv /\ CanceledIsDequeued /\ [Next]_vars => CanceledIsDequeued'
  BY CanceledStep, GoneStep DEF CanceledIsDequeued
<1> QED BY <1>1, <1>2, IInvHolds, PTL DEF Spec

-----------------------------------------------------------------------------
(* Accepted tasks.                                                         *)

(* Records and entries that exist do not vanish without a trace.           *)
LEMMA NothingVanishes ==
    ASSUME IInv, [Next]_vars, NEW x \in Task
    PROVE  /\ db[x] # "none" => db'[x] # "none"
           /\ queue[x] # "none" => queue'[x] # "none"
<1>1. /\ queue \in [Task -> QueueState] /\ db \in [Task -> Status \cup {"none"}]
      /\ late \subseteq LateCall
  BY DEF IInv, TypeOK, AgentTypeOK, StoreTypeOK, EntryTypeOK, RecordTypeOK
<1>3. db[x] # "none" => db'[x] # "none"
  <2>1. \A t \in Task, w \in Write : db[t] # "none" => After(w, db[t]) # "none"
    BY DEF After, Write, Creation
  <2>2. CASE UNCHANGED recordVars \/ UNCHANGED db
    BY <2>2 DEF recordVars
  <2>3. ASSUME NEW t \in Task, NEW w \in Write, CallDone(t, w) \/ CallFails(t, w)
        PROVE  db[x] # "none" => db'[x] # "none"
    <3>1. db' = db \/ db' = [db EXCEPT ![t] = After(w, db[t])]
      BY <2>3, CallEffect DEF Carry, Creation
    <3> QED BY <1>1, <2>1, <3>1
  <2>4. ASSUME NEW u \in late, CarryLate(u)
        PROVE  db[x] # "none" => db'[x] # "none"
    <3>1. u.task \in Task /\ u.write \in Write
      BY <1>1 DEF LateCall
    <3>2. db' = db \/ db' = [db EXCEPT ![u.task] = After(u.write, db[u.task])]
      BY <2>4 DEF CarryLate, Carry, Creation
    <3> QED BY <1>1, <2>1, <3>1, <3>2
  <2>5. ASSUME NEW t \in Task, Arrive(t) \/ Handle(t)
        PROVE  db[x] # "none" => db'[x] # "none"
    BY <2>2, <2>3, <2>5
    DEF Arrive, Handle, Admit, RequestStep, Create, Enqueue, MarkFailed, Link, Unlink, Write,
        Creation
  <2>6. ASSUME NEW t \in Task, Process(t)
        PROVE  db[x] # "none" => db'[x] # "none"
    BY <2>2, <2>3, <2>6
    DEF Process, ProcessorStep, Dequeue, Deadline, RetryDue, RecoverLease, AttemptStep,
        SetRunning, Predict, Report, Finish, Write, Creation
  <2>7. CASE Control
    BY <2>2, <2>3, <2>7
    DEF Control, ControlStep, CancelStep, CancelLookup, CancelDelete, CancelMark, PurgeDelete,
        PurgeList, PauseQueue, UnpauseQueue, storeVars, recordVars, Write, Creation
  <2>8. CASE Services \/ Crash \/ UNCHANGED vars
    BY <2>2, <2>4, <2>8 DEF Services, StoreStep, Expire, Crash, Die, vars, storeVars
  <2> QED BY <2>5, <2>6, <2>7, <2>8 DEF Next
<1>4. queue[x] # "none" => queue'[x] # "none"
  <2>1. CASE UNCHANGED entryVars \/ UNCHANGED queue
    BY <2>1 DEF entryVars
  <2>2. ASSUME NEW t \in Task, \E q \in QueueState \ {"none"} : queue' = [queue EXCEPT ![t] = q]
        PROVE  queue[x] # "none" => queue'[x] # "none"
    BY <1>1, <2>2
  <2>3. ASSUME NEW t \in Task, Deleted(t) \/ DeleteFails(t)
        PROVE  queue[x] # "none" => queue'[x] # "none"
    BY <1>1, <2>3, DeleteEffect
  <2>4. ASSUME NEW t \in Task, HandleFailed(t)
        PROVE  queue[x] # "none" => queue'[x] # "none"
    BY <2>2, <2>4 DEF HandleFailed, QueueState
  <2>5. ASSUME NEW t \in Task, Arrive(t) \/ Handle(t)
        PROVE  queue[x] # "none" => queue'[x] # "none"
    BY <2>1, <2>2, <2>3, <2>5
    DEF Arrive, Handle, Admit, RequestStep, Create, Enqueue, Enqueued, EnqueueLost, MarkFailed,
        Link, Unlink, QueueState
  <2>6. ASSUME NEW t \in Task, Process(t)
        PROVE  queue[x] # "none" => queue'[x] # "none"
    BY <2>1, <2>2, <2>4, <2>6
    DEF Process, ProcessorStep, Dequeue, Deadline, RetryDue, RecoverLease, AttemptStep,
        SetRunning, Predict, Report, Finish, QueueState
  <2>7. CASE Control
    BY <2>1, <2>3, <2>7
    DEF Control, ControlStep, CancelStep, CancelLookup, CancelDelete, CancelMark, PurgeDelete,
        PurgeList, PauseQueue, UnpauseQueue, storeVars
  <2>8. CASE Services \/ Crash \/ UNCHANGED vars
    BY <2>1, <2>8 DEF Services, StoreStep, CarryLate, Expire, Crash, Die, vars, storeVars
  <2> QED BY <2>5, <2>6, <2>7, <2>8 DEF Next
<1> QED BY <1>3, <1>4

(* What the request handler knows at each of its calls.                    *)
HandlerKnows ==
    \A t \in Task :
        /\ req[t] \in {"enqueue", "link"} => db[t] # "none"
        /\ req[t] = "link" => queue[t] # "none"
        /\ reply[t] = "ok" => req[t] = "done" /\ db[t] # "none" /\ queue[t] # "none"

(* Every step keeps what a request handler may rely on at each of its      *)
(* calls.                                                                  *)
LEMMA HandlerStep ==
    ASSUME IInv, HandlerKnows, [Next]_vars
    PROVE  HandlerKnows'
<1>1. /\ req \in [Task -> RequestStage] /\ reply \in [Task -> Reply]
      /\ queue \in [Task -> QueueState] /\ db \in [Task -> Status \cup {"none"}]
  BY DEF IInv, TypeOK, AgentTypeOK, StoreTypeOK, RequestTypeOK, EntryTypeOK, RecordTypeOK
<1>2. ASSUME NEW x \in Task,
             \/ req'[x] = req[x] /\ reply'[x] = reply[x]
             \/ /\ req'[x] \notin {"enqueue", "link"}
                /\ reply'[x] = "ok" => reply[x] = "ok" /\ req'[x] = "done"
      PROVE  /\ req'[x] \in {"enqueue", "link"} => db'[x] # "none"
             /\ req'[x] = "link" => queue'[x] # "none"
             /\ reply'[x] = "ok" => req'[x] = "done" /\ db'[x] # "none" /\ queue'[x] # "none"
  BY <1>2, NothingVanishes DEF HandlerKnows
<1>3. ASSUME NEW t \in Task, Arrive(t) \/ Handle(t)
      PROVE  HandlerKnows'
  <2>1. \A x \in Task \ {t} : req'[x] = req[x] /\ reply'[x] = reply[x]
    BY <1>1, <1>3
    DEF Arrive, Handle, Admit, RequestStep, Create, Enqueue, MarkFailed, Link, Unlink, Goto, Answer
  <2>2. /\ req'[t] \in {"enqueue", "link"} => db'[t] # "none"
        /\ req'[t] = "link" => queue'[t] # "none"
        /\ reply'[t] = "ok" => req'[t] = "done" /\ db'[t] # "none" /\ queue'[t] # "none"
    <3>1. CASE Admit(t) \/ MarkFailed(t) \/ Unlink(t)
      BY <1>1, <1>2, <3>1 DEF Admit, MarkFailed, Unlink, Goto, Answer, HandlerKnows
    <3>2. CASE Create(t)
      <4>1. CASE Answer(t, "error")
        BY <1>1, <1>2, <4>1 DEF Answer
      <4>2. CASE CallDone(t, "create") /\ Goto(t, "enqueue")
        <5>1. db'[t] = "pending" /\ req'[t] = "enqueue" /\ reply'[t] # "ok"
          BY <1>1, <3>2, <4>2
          DEF CallDone, Lingers, Carry, Creation, After, Goto, Create, HandlerKnows
        <5> QED BY <5>1, NothingVanishes DEF HandlerKnows
      <4> QED BY <3>2, <4>1, <4>2 DEF Create
    <3>3. CASE Enqueue(t)
      <4>1. db[t] # "none" /\ reply'[t] # "ok"
        BY <3>3 DEF Enqueue, Goto, HandlerKnows
      <4>2. CASE Enqueued(t)
        <5>1. queue'[t] = "pending"
          BY <1>1, <4>2 DEF Enqueued
        <5> QED BY <4>1, <5>1, NothingVanishes DEF HandlerKnows
      <4>3. CASE Goto(t, "mark failed")
        BY <1>1, <1>2, <3>3, <4>3 DEF Goto, Enqueue, HandlerKnows
      <4> QED BY <3>3, <4>2, <4>3 DEF Enqueue
    <3>4. CASE Link(t)
      <4>1. db[t] # "none" /\ queue[t] # "none"
        BY <3>4 DEF Link, HandlerKnows
      <4>2. CASE CallDone(t, "link") /\ Answer(t, "ok")
        <5>1. req'[t] = "done"
          BY <1>1, <4>2 DEF Answer
        <5> QED BY <4>1, <5>1, NothingVanishes
      <4>3. CASE Goto(t, "unlink")
        BY <1>1, <1>2, <3>4, <4>3 DEF Goto, Link, HandlerKnows
      <4> QED BY <3>4, <4>2, <4>3 DEF Link
    <3> QED BY <1>3, <3>1, <3>2, <3>3, <3>4 DEF Arrive, Handle, RequestStep
  <2> QED BY <1>2, <2>1, <2>2 DEF HandlerKnows
<1>4. ASSUME UNCHANGED requestVars
      PROVE  HandlerKnows'
  BY <1>2, <1>4 DEF requestVars, HandlerKnows
<1>5. CASE Crash
  <2>1. \A x \in Task : /\ req'[x] \notin {"enqueue", "link"}
                        /\ reply'[x] = "ok" => reply[x] = "ok" /\ req'[x] = "done"
    BY <1>1, <1>5 DEF Crash, Die, HandlerKnows
  <2> QED BY <1>2, <2>1 DEF HandlerKnows
<1> QED BY <1>3, <1>4, <1>5 DEF Next, Services, Process, Control, vars

=============================================================================
