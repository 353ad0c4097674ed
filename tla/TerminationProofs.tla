------------------------- MODULE TerminationProofs -------------------------
(***************************************************************************)
(* Proofs about Termination, for every set of tasks and every bound.  As   *)
(* long as ShutdownDistributor has not begun to write, and for good with a *)
(* redis that outlives the agent, its tasks keep the shapes that           *)
(* UndisturbedProofs gives them; what the shutdown promises of the others  *)
(* is carried by invariants of its own.                                    *)
(***************************************************************************)
EXTENDS Termination, UndisturbedProofs, FiniteSetTheorems

EndTypeOK ==
    /\ local \in BOOLEAN
    /\ stopped \in BOOLEAN
    /\ ending \in Ending
    /\ doomed \in [Listed -> SUBSET Task]
    /\ promised \subseteq Task
    /\ victim = {} \/ \E t \in Task : victim = {t}

(* How far the shutdown can have come.                                     *)
Stages ==
    /\ ~local => ending \in {"serving", "drain", "closing", "exited"}
    /\ ending = "serving" => promised = {} /\ doomed = [s \in Listed |-> {}]
    /\ ending \in {"serving", "delay", "list pending", "list retry"} => victim = {}
    /\ victim \cap doomed["pending"] = {}
    /\ ending \in {"drain", "closing", "exited"} => \A s \in Listed : doomed[s] = {}
    /\ ending \in {"closing", "exited"} => Busy = {}
    /\ ending = "exited" => \A t \in Task : cancel[t] # "mark"

(* Until ShutdownDistributor writes, the agent is that of AsyncAgent.      *)
EarlyShape ==
    (ending \in {"serving", "delay", "list pending", "list retry"} \/ ~local) => UndisturbedShape

EndInv == IInv /\ EndTypeOK /\ Stages /\ EarlyShape

-----------------------------------------------------------------------------
(* Which steps of the agent the shutdown still allows.                     *)

(* What the agent does meanwhile it could do in AsyncAgent.                *)
LEMMA AgentStepIsNext == AgentStep => Next /\ UNCHANGED endingVars
BY DEF AgentStep, Request, Answering, Working, Next, Arrive, Handle, Process, Control, ControlStep,
       CancelStep, ProcessorStep

(* Its steps leave the agent alone, but for those of ShutdownDistributor.  *)
LEMMA QuietStep ==
    StopProcessing \/ Terminate \/ DelayOver \/ AllFailed \/ Drained => UNCHANGED vars
BY DEF StopProcessing, Terminate, DelayOver, AllFailed, Drained

(* The steps of ShutdownDistributor keep the types and the counts.         *)
LEMMA ShutdownKeepsIInv ==
    ASSUME IInv, EndTypeOK,
           \/ ListPending \/ ListRetry
           \/ \E t \in Task : DropDoomed(t) \/ \E s \in Listed : FailDoomed(s, t)
    PROVE  IInv'
<1>1. UNCHANGED <<ElsewhereThanStore, paused>>
  BY DEF ListPending, ListRetry, ListDoomed, DropDoomed, FailDoomed
<1>2. UNCHANGED <<req, reply, attempts, exec, cancel, purge, purged, crashes, paused>>
  BY <1>1 DEF ElsewhereThanStore, requestVars, processorVars, controlVars
<1>3. RequestTypeOK' /\ ProcessorTypeOK' /\ ControlTypeOK' /\ (crashes \in 0..MaxCrashes)'
      /\ (paused \in BOOLEAN)'
  BY <1>2
  DEF IInv, TypeOK, AgentTypeOK, StoreTypeOK, RequestTypeOK, ProcessorTypeOK, ControlTypeOK
<1>4. RecordTypeOK /\ EntryTypeOK /\ FaultTypeOK
  BY DEF IInv, TypeOK, AgentTypeOK, StoreTypeOK
<1>5. SUFFICES /\ RecordTypeOK' /\ EntryTypeOK' /\ FaultTypeOK'
               /\ AttemptsMatchRetries' /\ NotYetEnqueued'
  BY <1>3 DEF IInv, TypeOK, AgentTypeOK, StoreTypeOK
<1>6. ASSUME UNCHANGED entryVars
      PROVE  EntryTypeOK' /\ AttemptsMatchRetries' /\ NotYetEnqueued'
  BY <1>2, <1>4, <1>6 DEF entryVars, EntryTypeOK, IInv, AttemptsMatchRetries, NotYetEnqueued
<1>7. CASE ListPending \/ ListRetry
  <2>1. UNCHANGED <<recordVars, entryVars>> /\ \E s, found : ListsEntries(s, found)
    BY <1>7 DEF ListPending, ListRetry, ListDoomed
  <2>2. RecordTypeOK'
    BY <1>4, <2>1 DEF recordVars, RecordTypeOK
  <2>3. FaultTypeOK'
    BY <1>4, <2>1, ListTyping
  <2> QED BY <1>6, <2>1, <2>2, <2>3
<1>8. ASSUME NEW t \in Task, NEW s \in Listed, FailDoomed(s, t)
      PROVE  /\ RecordTypeOK' /\ EntryTypeOK' /\ FaultTypeOK'
             /\ AttemptsMatchRetries' /\ NotYetEnqueued'
  <2>1. "failed" \in Write /\ UNCHANGED entryVars /\ (CallDone(t, "failed") \/ CallFails(t,
  "failed"))
    BY <1>8 DEF FailDoomed, Write
  <2>2. RecordTypeOK' /\ FaultTypeOK'
    BY <1>4, <2>1, CallTyping
  <2> QED BY <1>6, <2>1, <2>2
<1>9. ASSUME NEW t \in Task, DropDoomed(t)
      PROVE  /\ RecordTypeOK' /\ EntryTypeOK' /\ FaultTypeOK'
             /\ AttemptsMatchRetries' /\ NotYetEnqueued'
  <2>1. UNCHANGED recordVars /\ (Deleted(t) \/ DeleteFails(t))
    BY <1>9 DEF DropDoomed
  <2>2. RecordTypeOK'
    BY <1>4, <2>1 DEF recordVars, RecordTypeOK
  <2>3. EntryTypeOK' /\ FaultTypeOK'
    BY <1>4, <2>1, DeleteTyping
  <2>4. AttemptsMatchRetries' /\ NotYetEnqueued'
    BY <1>2, <2>1, DeleteKeepsCounts DEF IInv, processorVars
  <2> QED BY <2>2, <2>3, <2>4
<1> QED BY <1>7, <1>8, <1>9

(* The shutdown's webhook calls and deletions keep the agent's own         *)
(* invariant.                                                              *)
LEMMA TerminationKeepsIInv ==
    ASSUME IInv, EndTypeOK, [TerminationNext]_terminationVars
    PROVE  IInv'
<1>1. CASE AgentStep
  BY <1>1, AgentStepIsNext, Inductive
<1>2. CASE StopProcessing \/ Terminate \/ DelayOver \/ AllFailed \/ Drained
  BY <1>2, QuietStep, Inductive
<1>3. CASE UNCHANGED terminationVars
  BY <1>3, Inductive DEF terminationVars
<1>4. CASE Exit
  <2>1. Die /\ crashes' = crashes
    BY <1>4 DEF Exit
  <2>2. crashes' \in 0..MaxCrashes
    BY <2>1 DEF IInv, TypeOK, AgentTypeOK
  <2> QED BY <2>1, <2>2, DeathTyping, OthersKeepCounts DEF IInv
<1>5. CASE \/ ListPending \/ ListRetry
           \/ \E t \in Task : DropDoomed(t) \/ \E s \in Listed : FailDoomed(s, t)
  BY <1>5, ShutdownKeepsIInv
<1> QED BY <1>1, <1>2, <1>3, <1>4, <1>5 DEF TerminationNext, ShutdownStep

(* Every step keeps the types of the shutdown's variables.                 *)
LEMMA EndTyping ==
    ASSUME EndTypeOK, [TerminationNext]_terminationVars
    PROVE  EndTypeOK'
<1>1. CASE UNCHANGED endingVars
  BY <1>1 DEF endingVars, EndTypeOK
<1>2. CASE StopProcessing \/ Terminate \/ DelayOver \/ AllFailed \/ Drained \/ Exit
  BY <1>2
  DEF EndTypeOK, Ending, StopProcessing, Terminate, DelayOver, AllFailed, Drained, Exit
<1>3. CASE ListPending \/ ListRetry
  BY <1>3 DEF EndTypeOK, Ending, Listed, ListPending, ListRetry, ListDoomed
<1>4. ASSUME NEW t \in Task, NEW s \in Listed, FailDoomed(s, t)
      PROVE  EndTypeOK'
  BY <1>4 DEF EndTypeOK, FailDoomed
<1>5. ASSUME NEW t \in Task, DropDoomed(t)
      PROVE  EndTypeOK'
  BY <1>5 DEF EndTypeOK, DropDoomed
<1> QED
  BY <1>1, <1>2, <1>3, <1>4, <1>5
  DEF TerminationNext, AgentStep, ShutdownStep, terminationVars

(* No worker begins anything once the processor is down.                   *)
LEMMA BusyStaysEmpty ==
    ASSUME IInv, Busy = {}, AgentStep \/ Die \/ UNCHANGED vars,
           ending \in {"closing", "exited"}
    PROVE  Busy' = {}
<1>1. Typed
  BY TypesOfState DEF IInv
<1>2. SUFFICES ASSUME NEW x \in Task, NEW b \in Attempt, Attached(x, b)'
               PROVE  Attached(x, b)
  BY DEF Busy
<1>3. CASE Die \/ UNCHANGED vars
  BY <1>2, <1>3
  DEF Attached, Die, entryVars, vars, storeVars, processorVars
<1>4. CASE AgentStep
  <2>1. CASE UNCHANGED <<exec, attempts>> /\ (queue'[x] = "active" => queue[x] = "active")
    BY <1>2, <2>1 DEF Attached
  <2>2. CASE Services
    BY <2>1, <2>2 DEF Services, StoreStep, CarryLate, Expire, entryVars, processorVars
  <2>3. CASE Request
    BY <1>4, <2>3 DEF Request, TakesRequests
  <2>4. CASE Answering
    <3>1. ASSUME NEW t \in Task, Deleted(t) \/ DeleteFails(t)
          PROVE  queue'[x] = "active" => queue[x] = "active"
      BY <1>1, <3>1, DeleteEffect DEF Typed
    <3>2. UNCHANGED <<exec, attempts>>
      BY <2>4 DEF Answering, Handle, processorVars
    <3>3. queue'[x] = "active" => queue[x] = "active"
      BY <1>1, <2>4, <3>1
      DEF Answering, Handle, RequestStep, Create, Enqueue, Enqueued, EnqueueLost, MarkFailed, Link,
          Unlink, CancelDelete, CancelMark, PurgeDelete, entryVars, Typed
    <3> QED BY <2>1, <3>2, <3>3
  <2>5. ASSUME NEW t \in Task, Working(t)
        PROVE  Attached(x, b)
    <3>1. Deadline(t) \/ \E a \in Attempt : AttemptStep(t, a)
      BY <2>5 DEF Working, TakesEntries
    <3>2. CASE Deadline(t)
      BY <1>1, <1>2, <3>2 DEF Deadline, HandleFailed, Attached, processorVars, Typed
    <3>3. ASSUME NEW a \in Attempt, AttemptStep(t, a)
          PROVE  Attached(x, b)
      <4>1. /\ attempts' = attempts /\ exec[t][a] # "off"
            /\ \E stage : exec' = [exec EXCEPT ![t] = [@ EXCEPT ![a] = stage]]
        BY <3>3 DEF AttemptStep, SetRunning, Predict, Report, Finish, Advance
      <4>2. queue'[x] = "active" => queue[x] = "active"
        BY <1>1, <3>3
        DEF AttemptStep, SetRunning, Predict, Report, Finish, HandleFailed, entryVars, Typed
      <4>3. exec'[x][b] # "off" => exec[x][b] # "off"
        BY <1>1, <4>1 DEF Typed
      <4> QED BY <1>2, <4>1, <4>2, <4>3 DEF Attached
    <3> QED BY <3>1, <3>2, <3>3
  <2> QED BY <1>4, <2>2, <2>3, <2>4, <2>5 DEF AgentStep
<1> QED BY <1>3, <1>4

(* Every step keeps what each stage of the shutdown says about the workers *)
(* and handlers that are left.                                             *)
LEMMA StagesKept ==
    ASSUME IInv, EndTypeOK, Stages, [TerminationNext]_terminationVars
    PROVE  Stages'
<1>1. CASE AgentStep \/ UNCHANGED terminationVars
  <2>1. UNCHANGED endingVars /\ (AgentStep \/ UNCHANGED vars)
    BY <1>1 DEF AgentStep, terminationVars
  <2>2. ending \in {"closing", "exited"} => Busy' = {}
    BY <2>1, BusyStaysEmpty DEF Stages
  <2>3. ending = "exited" => UNCHANGED controlVars
    <3>1. ending = "exited" => ~Request /\ ~Answering
      BY DEF Request, Answering, TakesRequests
    <3> QED
      BY <2>1, <3>1 DEF AgentStep, Services, Working, vars
  <2> QED BY <2>1, <2>2, <2>3 DEF Stages, endingVars, controlVars
<1>2. CASE StopProcessing \/ Terminate \/ DelayOver \/ AllFailed \/ Drained
  <2>1. Busy' = Busy /\ UNCHANGED cancel
    BY <1>2, QuietStep
    DEF vars, storeVars, entryVars, processorVars, controlVars, Busy, Attached
  <2> QED
    BY <1>2, <2>1
    DEF Stages, EndTypeOK, Listed, StopProcessing, Terminate, DelayOver, AllFailed, Drained
<1>3. CASE ListPending \/ ListRetry
  BY <1>3 DEF Stages, EndTypeOK, ListPending, ListRetry, ListDoomed
<1>4. ASSUME NEW t \in Task, DropDoomed(t) \/ \E s \in Listed : FailDoomed(s, t)
      PROVE  Stages'
  <2>1. local /\ ending = "fail" /\ UNCHANGED <<ending, local>>
    BY <1>4 DEF Stages, DropDoomed, FailDoomed
  <2>2. (victim \cap doomed["pending"] = {})'
    <3>1. CASE DropDoomed(t)
      BY <3>1 DEF DropDoomed
    <3>2. CASE FailDoomed("pending", t)
      BY <3>2 DEF EndTypeOK, Listed, FailDoomed
    <3>3. CASE FailDoomed("retry", t)
      BY <3>3 DEF EndTypeOK, Listed, FailDoomed
    <3> QED BY <1>4, <3>1, <3>2, <3>3 DEF Listed
  <2> QED BY <2>1, <2>2 DEF Stages
<1>5. CASE Exit
  <2>1. Die /\ ending = "closing" /\ ending' = "exited" /\ UNCHANGED <<local, doomed, victim>>
    BY <1>5 DEF Exit
  <2>2. Busy' = {} /\ \A t \in Task : cancel'[t] # "mark"
    BY <2>1, BusyStaysEmpty DEF Stages, Die
  <2> QED BY <2>1, <2>2 DEF Stages
<1> QED BY <1>1, <1>2, <1>3, <1>4, <1>5 DEF TerminationNext, ShutdownStep

(* Until ShutdownDistributor writes its first record the agent behaves as  *)
(* if nothing happened.                                                    *)
LEMMA EarlyShapeKept ==
    ASSUME EndInv, [TerminationNext]_terminationVars
    PROVE  EarlyShape'
<1>1. CASE UndisturbedShape /\ ([Next]_vars \/ Die)
  BY <1>1, ShapesKept DEF EndInv, EarlyShape, UndisturbedShape
<1>2. CASE AgentStep \/ UNCHANGED terminationVars
  <2>1. [Next]_vars /\ UNCHANGED <<ending, local>>
    BY <1>2, AgentStepIsNext DEF terminationVars, endingVars
  <2> QED BY <1>1, <2>1 DEF EndInv, EarlyShape
<1>3. CASE StopProcessing \/ Terminate \/ DelayOver \/ AllFailed \/ Drained
  <2>1. [Next]_vars
    BY <1>3, QuietStep
  <2> QED
    BY <1>1, <1>3, <2>1
    DEF EndInv, EarlyShape, StopProcessing, Terminate, DelayOver, AllFailed, Drained
<1>4. CASE Exit
  BY <1>1, <1>4 DEF EndInv, EarlyShape, Exit
<1>5. CASE ListPending \/ ListRetry
  <2>1. UndisturbedShape /\ UNCHANGED <<recordVars, entryVars, ElsewhereThanStore>>
    BY <1>5 DEF EndInv, EarlyShape, ListPending, ListRetry, ListDoomed
  <2>2. disturbed \subseteq disturbed'
    BY <1>5, ListTyping
    DEF EndInv, IInv, TypeOK, AgentTypeOK, StoreTypeOK, ListPending, ListRetry, ListDoomed
  <2>3. \A x \in Task : Untouched(x)
    BY <2>1, <2>2
    DEF Untouched, recordVars, entryVars, ElsewhereThanStore, requestVars, processorVars,
        controlVars
  <2> QED BY <2>1, <2>3, GlobalStep DEF EarlyShape, UndisturbedShape
<1>6. CASE \E t \in Task : DropDoomed(t) \/ \E s \in Listed : FailDoomed(s, t)
  <2>1. ending = "fail" /\ UNCHANGED <<ending, local>>
    BY <1>6 DEF DropDoomed, FailDoomed
  <2>2. local
    BY <2>1 DEF EndInv, Stages
  <2> QED BY <2>1, <2>2 DEF EarlyShape
<1> QED BY <1>2, <1>3, <1>4, <1>5, <1>6 DEF TerminationNext, ShutdownStep

(* Every step keeps the invariant.                                         *)
LEMMA EndInductive == EndInv /\ [TerminationNext]_terminationVars => EndInv'
BY TerminationKeepsIInv, EndTyping, StagesKept, EarlyShapeKept DEF EndInv

(* The invariant holds at the start.                                       *)
LEMMA EndInitially == TerminationInit => EndInv
<1> SUFFICES ASSUME TerminationInit PROVE EndInv
  OBVIOUS
<1>1. IInv /\ UndisturbedShape
  BY Initially, UndisturbedInitially DEF TerminationInit
<1>2. EndTypeOK /\ Stages
  BY DEF TerminationInit, EndTypeOK, Stages, Ending, Listed
<1> QED BY <1>1, <1>2 DEF EndInv, EarlyShape

(* The inductive invariant of the shutdown holds in every reachable state. *)
THEOREM EndInvHolds == TerminationSpec => []EndInv
BY EndInitially, EndInductive, PTL DEF TerminationSpec

(* Every variable of the shutdown keeps its type; ShutdownDistributor has  *)
(* one entry at most between its record and its deletion.                  *)
THEOREM TerminationTypeCorrect == TerminationSpec => []TerminationTypeOK
<1>1. ASSUME victim = {} \/ \E t \in Task : victim = {t}
      PROVE  victim \subseteq Task /\ Cardinality(victim) <= 1
  <2>1. CASE victim = {}
    BY <2>1, FS_EmptySet
  <2>2. ASSUME NEW t \in Task, victim = {t}
        PROVE  victim \subseteq Task /\ Cardinality(victim) <= 1
    <3>1. Cardinality(victim) = 1
      BY <2>2, FS_Singleton
    <3> QED BY <2>2, <3>1
  <2> QED BY <1>1, <2>1, <2>2
<1>2. EndInv => TerminationTypeOK
  BY <1>1 DEF EndInv, EndTypeOK, IInv, TypeOK, TerminationTypeOK
<1> QED BY <1>2, EndInvHolds, PTL

-----------------------------------------------------------------------------
(* Stopping the processor first protects the results.                      *)

(* Nobody writes a result of a task that no worker has started.            *)
NoResult(t) == db[t] # "succeeded" /\ \A u \in late : u.task = t => u.write # "succeeded"

NeverStarted(t) ==
    /\ NoResult(t)
    /\ attempts[t] = 0
    /\ \A a \in Attempt : exec[t][a] = "off"

(* Once stopped, what ShutdownDistributor has listed was never started.    *)
StoppedShape ==
    stopped =>
        /\ \A t \in Task : t \notin disturbed => Shape(t) \/ NeverStarted(t)
        /\ \A t \in Task : t \in doomed["pending"] \cup doomed["retry"] \cup victim
                              => t \in disturbed \/ NeverStarted(t)

(* Only a report of success gives a task a result.                         *)
LEMMA CallGivesNoResult ==
    ASSUME Typed, NEW x \in Task, NoResult(x), NEW t \in Task, NEW w,
           w # "succeeded" \/ t # x, CallDone(t, w) \/ CallFails(t, w)
    PROVE  NoResult(x)'
<1>1. \A u \in late' : u \in late \/ (u.task = t /\ u.write = w)
  BY DEF CallDone, CallFails, CallRefused, CallLost, Lingers, recordVars
<1>2. db'[x] # "succeeded"
  BY DEF CallDone, CallFails, CallRefused, CallLost, Carry, After, recordVars, NoResult, Typed
<1> QED BY <1>1, <1>2 DEF NoResult

(* What was never started stays so when a step concerns another task.      *)
LEMMA UntouchedNeverStarted ==
    ASSUME NEW x \in Task, NeverStarted(x), Untouched(x)
    PROVE  NeverStarted(x)'
BY DEF NeverStarted, NoResult, Untouched

(* A task is started by Dequeue only.                                      *)
LEMMA NeverStartedKept ==
    ASSUME IInv, NEW x \in Task, NeverStarted(x), [Next]_vars \/ Die, ~Dequeue(x)
    PROVE  NeverStarted(x)'
<1>1. Typed
  BY TypesOfState DEF IInv
<1>2. ASSUME UNCHANGED processorVars, NoResult(x)'
      PROVE  NeverStarted(x)'
  BY <1>2 DEF NeverStarted, processorVars
<1>3. ASSUME NEW t \in Task, t # x, \A y \in Task \ {t} : Untouched(y)
      PROVE  NeverStarted(x)'
  BY <1>3, UntouchedNeverStarted
<1>4. CASE UNCHANGED vars
  BY <1>4, StutterLocal, UntouchedNeverStarted
<1>5. CASE Die
  BY <1>5 DEF Die, recordVars, NeverStarted, NoResult
<1>6. CASE Services
  <2>1. ASSUME NEW u \in late, CarryLate(u)
        PROVE  NeverStarted(x)'
    <3>1. u.task = x => u.write # "succeeded"
      BY DEF NeverStarted, NoResult
    <3>2. late' \subseteq late
      BY <2>1 DEF CarryLate
    <3>3. db'[x] # "succeeded"
      BY <1>1, <2>1, <3>1 DEF CarryLate, Carry, After, NeverStarted, NoResult, Typed
    <3> QED BY <1>2, <1>6, <3>2, <3>3 DEF Services, NeverStarted, NoResult
  <2>2. ASSUME NEW t \in Task, Expire(t)
        PROVE  NeverStarted(x)'
    BY <1>2, <1>6, <2>2 DEF Services, Expire, NeverStarted, NoResult
  <2> QED BY <1>6, <2>1, <2>2 DEF Services, StoreStep
<1>7. ASSUME NEW t \in Task, Arrive(t) \/ Handle(t)
      PROVE  NeverStarted(x)'
  <2>1. UNCHANGED processorVars
    BY <1>7 DEF Arrive, Handle
  <2>2. \/ \E w \in {"create", "link", "failed"} : CallDone(t, w) \/ CallFails(t, w)
        \/ UNCHANGED recordVars
    BY <1>7
    DEF Arrive, Handle, Admit, RequestStep, Create, Enqueue, MarkFailed, Link, Unlink
  <2>3. NoResult(x)'
    <3>1. CASE UNCHANGED recordVars
      BY <3>1 DEF recordVars, NeverStarted, NoResult
    <3> QED BY <1>1, <2>2, <3>1, CallGivesNoResult DEF NeverStarted
  <2> QED BY <1>2, <2>1, <2>3
<1>8. ASSUME NEW t \in Task, Process(t)
      PROVE  NeverStarted(x)'
  <2>1. CASE t # x
    BY <1>3, <1>8, <2>1, ProcessLocal
  <2>2. CASE t = x
    <3>1. ~ \E a \in Attempt : AttemptStep(t, a) \/ Attached(t, a)
      BY <2>2
      DEF AttemptStep, SetRunning, Predict, Report, Finish, Attached, NeverStarted
    <3>2. RetryDue(t) \/ RecoverLease(t)
      BY <1>8, <2>2, <3>1 DEF Process, ProcessorStep, Deadline
    <3> QED BY <3>2, <1>2 DEF RetryDue, RecoverLease, recordVars, NeverStarted, NoResult
  <2> QED BY <2>1, <2>2
<1>9. CASE Control
  <2>1. UNCHANGED processorVars
    BY <1>9 DEF Control
  <2>2. \/ \E t \in Task : CallDone(t, "canceled") \/ CallFails(t, "canceled")
        \/ UNCHANGED recordVars
    BY <1>9
    DEF Control, ControlStep, CancelStep, CancelLookup, CancelDelete, CancelMark, PurgeDelete,
        PurgeList, PauseQueue, UnpauseQueue, storeVars
  <2>3. NoResult(x)'
    <3>1. CASE UNCHANGED recordVars
      BY <3>1 DEF recordVars, NeverStarted, NoResult
    <3> QED BY <1>1, <2>2, <3>1, CallGivesNoResult DEF NeverStarted
  <2> QED BY <1>2, <2>1, <2>3
<1> QED BY <1>4, <1>5, <1>6, <1>7, <1>8, <1>9 DEF Next, Crash

(* ShutdownDistributor's writes concern the task it has come to.           *)
LEMMA DoomedLocal ==
    ASSUME IInv, NEW t \in Task, DropDoomed(t) \/ \E s \in Listed : FailDoomed(s, t)
    PROVE  \A x \in Task \ {t} : Untouched(x)
<1>1. Typed /\ UNCHANGED <<attempts, exec, req, cancel, purged>>
  BY TypesOfState
  DEF IInv, DropDoomed, FailDoomed, ElsewhereThanStore, requestVars, processorVars, controlVars
<1>2. CASE \E s \in Listed : FailDoomed(s, t)
  <2>1. UNCHANGED entryVars /\ (CallDone(t, "failed") \/ CallFails(t, "failed"))
    BY <1>2 DEF FailDoomed
  <2> QED BY <1>1, <2>1, CallLocal DEF Untouched, entryVars
<1>3. CASE DropDoomed(t)
  <2>1. UNCHANGED recordVars /\ (Deleted(t) \/ DeleteFails(t))
    BY <1>3 DEF DropDoomed
  <2>2. /\ disturbed \subseteq disturbed' /\ retried' = retried
        /\ \A x \in Task \ {t} : queue'[x] = queue[x]
    BY <1>1, <2>1, DeleteEffect
    DEF Deleted, DeleteFails, DeleteRefused, DeleteLost, Fault, faultVars, Typed
  <2> QED BY <1>1, <2>1, <2>2 DEF Untouched, recordVars
<1> QED BY <1>2, <1>3

(* Listing only reads, but an unread list may hurt.                        *)
LEMMA ListLocal ==
    ASSUME IInv, ListPending \/ ListRetry
    PROVE  \A x \in Task : Untouched(x)
<1>1. disturbed \subseteq disturbed'
  BY ListTyping
  DEF IInv, TypeOK, AgentTypeOK, StoreTypeOK, ListPending, ListRetry, ListDoomed
<1> QED
  BY <1>1
  DEF ListPending, ListRetry, ListDoomed, Untouched, recordVars, entryVars, ElsewhereThanStore,
      requestVars, processorVars, controlVars

(* A task that was hurt once stays so.                                     *)
LEMMA HurtStays ==
    ASSUME [Next]_vars \/ Die
    PROVE  disturbed \subseteq disturbed'
<1>1. CASE UNCHANGED vars \/ Die \/ Services
  BY <1>1 DEF vars, storeVars, faultVars, Die, Services, StoreStep, CarryLate, Expire, Fault
<1>2. ASSUME NEW t \in Task, Arrive(t) \/ Handle(t)
      PROVE  disturbed \subseteq disturbed'
  BY <1>2
  DEF Arrive, Handle, Admit, ReadLost, faultVars, RequestStep, Create, Enqueue, MarkFailed,
      Link, Unlink, CallDone, CallFails, CallRefused, CallLost, Lingers, Enqueued, EnqueueLost,
      Deleted, DeleteFails, DeleteRefused, DeleteLost, Fault
<1>3. ASSUME NEW t \in Task, Process(t)
      PROVE  disturbed \subseteq disturbed'
  BY <1>3
  DEF Process, ProcessorStep, Dequeue, Deadline, RetryDue, RecoverLease, AttemptStep, SetRunning,
      Predict, Report, Finish, CallDone, CallFails, CallRefused, CallLost, Lingers, Fault, faultVars
<1>4. CASE Control
  BY <1>4
  DEF Control, ControlStep, CancelStep, CancelLookup, CancelDelete, CancelMark, PurgeDelete,
      PurgeList, PauseQueue, UnpauseQueue, storeVars, faultVars, ReadLost, Deleted, DeleteFails,
      DeleteRefused, DeleteLost, CallDone, CallFails, CallRefused, CallLost, Lingers, Fault
<1> QED BY <1>1, <1>2, <1>3, <1>4 DEF Next, Crash

(* Once stopped, a result is written over by nobody.                       *)
LEMMA ShapeKeepsResult ==
    ASSUME IInv, NEW x \in Task, Shape(x), [Next]_vars \/ Die
    PROVE  ResultStands(x)
<1>1. SUFFICES ASSUME x \notin disturbed', db[x] = "succeeded"
               PROVE  db'[x] = "succeeded"
  BY DEF ResultStands
<1>2. Typed
  BY TypesOfState DEF IInv
<1>3. /\ exec[x][1] \in {"off", "return ok"} /\ cancel[x] # "mark"
      /\ req[x] \notin {"create", "mark failed"} /\ \A u \in late : u.task # x
  BY <1>1 DEF Shape, NotQueued, Waiting, Running, Left, IInv, NotYetEnqueued
<1>4. ASSUME NEW t \in Task, t # x, \A y \in Task \ {t} : Untouched(y)
      PROVE  db'[x] = "succeeded"
  BY <1>1, <1>4 DEF Untouched
<1>5. CASE UNCHANGED vars \/ Die
  BY <1>1, <1>5 DEF vars, storeVars, recordVars, Die
<1>6. CASE Services
  <2>1. ASSUME NEW u \in late, CarryLate(u)
        PROVE  db'[x] = "succeeded"
    BY <1>3, <1>4, <1>6, <2>1, LateLocal
  <2>2. ASSUME NEW t \in Task, Expire(t)
        PROVE  db'[x] = "succeeded"
    BY <1>1, <2>2 DEF Expire
  <2> QED BY <1>6, <2>1, <2>2 DEF Services, StoreStep
<1>7. ASSUME NEW t \in Task, Arrive(t) \/ Handle(t)
      PROVE  db'[x] = "succeeded"
  <2>1. CASE t = x
    BY <1>1, <1>2, <1>3, <1>7, <2>1
    DEF Arrive, Handle, Admit, RequestStep, Create, Enqueue, MarkFailed, Link, Unlink, CallDone,
        CallFails, CallRefused, CallLost, Carry, After, recordVars, Typed
  <2> QED BY <1>4, <1>7, <2>1, RequestLocal
<1>8. ASSUME NEW t \in Task, Process(t)
      PROVE  db'[x] = "succeeded"
  <2>1. CASE t = x
    <3>1. ASSUME NEW a \in Attempt, AttemptStep(t, a)
          PROVE  Finish(t, a)
      BY <1>3, <2>1, <3>1 DEF AttemptStep, SetRunning, Predict, Report, Shape
    <3> QED
      BY <1>1, <1>8, <2>1, <3>1
      DEF Process, ProcessorStep, Dequeue, Deadline, RetryDue, RecoverLease, Finish, recordVars
  <2> QED BY <1>4, <1>8, <2>1, ProcessLocal
<1>9. CASE Control
  <2>1. ASSUME NEW t \in Task, CancelStep(t) \/ PurgeDelete(t)
        PROVE  db'[x] = "succeeded"
    <3>1. CASE t = x
      BY <1>1, <1>3, <2>1, <3>1
      DEF CancelStep, CancelLookup, CancelDelete, CancelMark, PurgeDelete, storeVars, recordVars
    <3> QED BY <1>4, <1>9, <2>1, <3>1, ControlLocal
  <2>2. CASE PurgeList \/ PauseQueue \/ UnpauseQueue
    BY <1>1, <2>2 DEF PurgeList, PauseQueue, UnpauseQueue, storeVars, recordVars
  <2> QED BY <1>9, <2>1, <2>2 DEF Control, ControlStep
<1> QED BY <1>5, <1>6, <1>7, <1>8, <1>9 DEF Next, Crash

(* Once stopped, the agent's own steps start nothing and write over no     *)
(* result.                                                                 *)
LEMMA StoppedAgent ==
    ASSUME EndInv, StoppedShape, stopped, [Next]_vars \/ Die, attempts' = attempts \/ Die
    PROVE  /\ \A t \in Task : ResultStands(t)
           /\ \A t \in Task : NeverStarted(t) => NeverStarted(t)'
           /\ \A t \in Task : t \notin disturbed' => Shape(t)' \/ NeverStarted(t)'
<1>1. Typed /\ IInv
  BY TypesOfState DEF EndInv, IInv
<1>2. \A t \in Task : ~Dequeue(t)
  <2>1. attempts' = attempts
    BY DEF Die
  <2> QED BY <1>1, <2>1 DEF Typed, Dequeue
<1>3. \A t \in Task : NeverStarted(t) => NeverStarted(t)'
  BY <1>1, <1>2, NeverStartedKept
<1>4. \A t \in Task : t \notin disturbed' => Shape(t)' \/ NeverStarted(t)'
  <2>1. PICK S \in SUBSET Task : S = {t \in Task : ~NeverStarted(t)}
    OBVIOUS
  <2>2. ShapesOf(S)
    BY <2>1 DEF StoppedShape, ShapesOf
  <2>3. ShapesOf(S)'
    BY <1>1, <2>2, ShapesKept
  <2> QED BY <1>3, <2>1, <2>3 DEF ShapesOf
<1>5. ASSUME NEW t \in Task
      PROVE  ResultStands(t)
  <2>1. CASE t \in disturbed \/ NeverStarted(t)
    BY <2>1, HurtStays DEF ResultStands, NeverStarted, NoResult
  <2>2. CASE Shape(t)
    BY <1>1, <2>2, ShapeKeepsResult
  <2> QED BY <2>1, <2>2 DEF StoppedShape
<1> QED BY <1>3, <1>4, <1>5

(* With the processor stopped, the tasks listed for failing are never      *)
(* started, so that no step replaces a result.                             *)
LEMMA StoppedStep ==
    ASSUME EndInv, StoppedShape, [TerminationNext]_terminationVars
    PROVE  StoppedShape' /\ (stopped => \A t \in Task : ResultStands(t))
<1> DEFINE Victims == doomed["pending"] \cup doomed["retry"] \cup victim
<1>1. Typed /\ IInv /\ victim \subseteq Task /\ doomed \in [Listed -> SUBSET Task]
  BY TypesOfState DEF EndInv, IInv, EndTypeOK
<1>2. CASE StopProcessing
  <2>1. UNCHANGED vars /\ UndisturbedShape /\ ~stopped /\ Victims' = {}
    BY <1>2 DEF EndInv, EarlyShape, Stages, StopProcessing, Listed
  <2>2. UndisturbedShape'
    BY <1>1, <2>1, ShapesKept DEF UndisturbedShape
  <2> QED BY <2>1, <2>2 DEF StoppedShape, UndisturbedShape, ShapesOf
<1>3. ASSUME ~stopped, UNCHANGED stopped
      PROVE  StoppedShape'
  BY <1>3 DEF StoppedShape
<1>4. ASSUME stopped, [Next]_vars \/ Die, attempts' = attempts \/ Die, UNCHANGED <<doomed, victim>>
      PROVE  StoppedShape' /\ \A t \in Task : ResultStands(t)
  <2>1. /\ \A t \in Task : ResultStands(t)
        /\ \A t \in Task : NeverStarted(t) => NeverStarted(t)'
        /\ \A t \in Task : t \notin disturbed' => Shape(t)' \/ NeverStarted(t)'
    BY <1>4, StoppedAgent
  <2> QED BY <1>4, <2>1, HurtStays DEF StoppedShape
<1>5. CASE AgentStep \/ UNCHANGED terminationVars
  <2>1. [Next]_vars /\ UNCHANGED endingVars
    BY <1>5, AgentStepIsNext DEF terminationVars
  <2>2. stopped => attempts' = attempts
    <3>1. Services \/ Request \/ Answering => UNCHANGED processorVars
      BY DEF Services, Request, Answering, Arrive, Handle
    <3>2. ASSUME NEW t \in Task, Working(t), stopped
          PROVE  attempts' = attempts
      BY <3>2
      DEF Working, TakesEntries, RetryDue, RecoverLease, Deadline, AttemptStep, SetRunning, Predict,
          Report, Finish, processorVars
    <3> QED BY <1>5, <3>1, <3>2 DEF AgentStep, processorVars, terminationVars, vars
  <2> QED BY <1>3, <1>4, <2>1, <2>2 DEF endingVars
<1>6. CASE Terminate \/ DelayOver \/ AllFailed \/ Drained
  <2>1. UNCHANGED <<vars, stopped, doomed, victim>>
    BY <1>6 DEF Terminate, DelayOver, AllFailed, Drained
  <2> QED BY <1>3, <1>4, <2>1 DEF vars, processorVars
<1>7. CASE Exit
  BY <1>3, <1>4, <1>7 DEF Exit
<1>8. CASE ListPending \/ ListRetry
  <2>1. \A x \in Task : Untouched(x)
    BY <1>1, <1>8, ListLocal
  <2>2. UNCHANGED <<stopped, victim>>
    BY <1>8 DEF ListPending, ListRetry, ListDoomed
  <2>3. \A t \in Task : ResultStands(t)
    BY <2>1 DEF Untouched, ResultStands
  <2>4. ASSUME stopped, NEW t \in Task
        PROVE  /\ t \notin disturbed' => Shape(t)' \/ NeverStarted(t)'
               /\ t \in Victims' => t \in disturbed' \/ NeverStarted(t)'
    <3>1. t \notin disturbed' => Shape(t) \/ NeverStarted(t)
      BY <2>1, <2>4 DEF StoppedShape, Untouched
    <3>2. NeverStarted(t) => NeverStarted(t)'
      BY <2>1, UntouchedNeverStarted
    <3>3. t \notin disturbed' => Shape(t)' \/ NeverStarted(t)'
      BY <2>1, <3>1, <3>2, UntouchedShape
    <3>4. ASSUME t \in Victims', t \notin Victims
          PROVE  queue[t] \in {"pending", "retry"}
      <4>1. PICK s \in Listed, found \in SUBSET Task :
                ListsEntries(s, found) /\ doomed' = [doomed EXCEPT ![s] = found]
        BY <1>8 DEF ListPending, ListRetry, ListDoomed, Listed
      <4>2. t \in found
        BY <1>1, <2>2, <3>4, <4>1 DEF Listed
      <4>3. found \in Page(s)
        BY <4>1, <4>2 DEF ListsEntries
      <4> QED BY <4>2, <4>3 DEF Page, Listed
    <3>5. Shape(t) /\ queue[t] \in {"pending", "retry"} => NeverStarted(t)
      BY DEF Shape, NotQueued, Waiting, Running, Left, NeverStarted, NoResult
    <3>6. t \in Victims => t \in disturbed' \/ NeverStarted(t)
      BY <2>1, <2>4 DEF StoppedShape, Untouched
    <3> QED BY <3>1, <3>2, <3>3, <3>4, <3>5, <3>6
  <2> QED BY <2>2, <2>3, <2>4 DEF StoppedShape
<1>9. ASSUME NEW v \in Task, DropDoomed(v) \/ \E s \in Listed : FailDoomed(s, v)
      PROVE  StoppedShape' /\ (stopped => \A t \in Task : ResultStands(t))
  <2>1. \A x \in Task \ {v} : Untouched(x)
    BY <1>1, <1>9, DoomedLocal
  <2>2. v \in Victims /\ Victims' \subseteq Victims /\ UNCHANGED stopped
    BY <1>1, <1>9 DEF DropDoomed, FailDoomed, Listed
  <2>3. disturbed \subseteq disturbed'
    BY <1>9
    DEF DropDoomed, FailDoomed, Deleted, DeleteFails, DeleteRefused, DeleteLost, CallDone,
        CallFails,
        CallRefused, CallLost, Lingers, Fault, faultVars
  <2>4. NeverStarted(v) => NeverStarted(v)'
    <3>1. UNCHANGED processorVars
      BY <1>9 DEF DropDoomed, FailDoomed, ElsewhereThanStore
    <3>2. CASE DropDoomed(v)
      BY <3>1, <3>2 DEF DropDoomed, recordVars, processorVars, NeverStarted, NoResult
    <3>3. CASE \E s \in Listed : FailDoomed(s, v)
      <4>1. CallDone(v, "failed") \/ CallFails(v, "failed")
        BY <3>3 DEF FailDoomed
      <4> QED BY <1>1, <3>1, <4>1, CallGivesNoResult DEF NeverStarted, processorVars
    <3> QED BY <1>9, <3>2, <3>3
  <2>5. stopped => v \in disturbed' \/ NeverStarted(v)
    BY <2>2, <2>3 DEF StoppedShape
  <2>6. stopped => \A t \in Task : ResultStands(t)
    BY <2>1, <2>5 DEF Untouched, ResultStands, NeverStarted, NoResult
  <2>7. ASSUME stopped, NEW t \in Task
        PROVE  /\ t \notin disturbed' => Shape(t)' \/ NeverStarted(t)'
               /\ t \in Victims' => t \in disturbed' \/ NeverStarted(t)'
    <3>1. CASE t = v
      BY <2>4, <2>5, <2>7, <3>1
    <3>2. CASE t # v
      <4>1. Untouched(t)
        BY <2>1, <3>2
      <4>2. t \notin disturbed' => Shape(t) \/ NeverStarted(t)
        BY <2>3, <2>7 DEF StoppedShape
      <4>3. t \in Victims' => t \in disturbed' \/ NeverStarted(t)
        BY <2>2, <2>3, <2>7 DEF StoppedShape
      <4> QED BY <4>1, <4>2, <4>3, UntouchedShape, UntouchedNeverStarted
    <3> QED BY <3>1, <3>2
  <2> QED BY <2>2, <2>6, <2>7 DEF StoppedShape
<1> QED
  BY <1>2, <1>3, <1>5, <1>6, <1>7, <1>8, <1>9 DEF TerminationNext, ShutdownStep

(* With the processor stopped before the end begins, the shutdown replaces *)
(* no result, however many tasks were queued (main.go:133-141).            *)
THEOREM StoppingProtectsResults == TerminationSpec => StopProtectsResults
<1>1. TerminationInit => StoppedShape
  BY DEF TerminationInit, StoppedShape
<1>2. EndInv /\ StoppedShape /\ [TerminationNext]_terminationVars => StoppedShape'
  BY StoppedStep
<1>3. EndInv /\ StoppedShape /\ [TerminationNext]_terminationVars
      => [stopped => \A t \in Task : ResultStands(t)]_terminationVars
  BY StoppedStep
<1> QED BY <1>1, <1>2, <1>3, EndInvHolds, PTL DEF TerminationSpec, StopProtectsResults

-----------------------------------------------------------------------------
(* What is left when the agent ends.                                       *)

(* A task about which nothing has failed moves towards a terminal status,  *)
(* although ShutdownDistributor writes into its record: what runs is going *)
(* to report, and what is pending in the queue is finished already or one  *)
(* of the tasks K.                                                         *)
Settling(t, K) ==
    /\ req[t] \in {"idle", "create", "enqueue", "link", "done"}
    /\ cache[t] = db[t]
    /\ retried[t] = 0
    /\ \A u \in late : u.task # t
    /\ \A a \in Attempt : a # 1 => exec[t][a] = "off"
    /\ \/ /\ queue[t] = "none" /\ attempts[t] = 0 /\ exec[t][1] = "off"
          /\ t \notin linked /\ cancel[t] = "idle"
          /\ \/ db[t] = "none" /\ req[t] \in {"idle", "create", "done"}
             \/ db[t] \in {"pending"} \cup Terminal /\ req[t] = "enqueue"
       \/ /\ queue[t] = "pending" /\ attempts[t] = 0 /\ exec[t][1] = "off"
          /\ db[t] \in Terminal \/ (db[t] = "pending" /\ t \in K)
       \/ /\ queue[t] = "active" /\ db[t] # "none" /\ attempts[t] = 1
          /\ \/ exec[t][1] \in {"start", "predict", "report ok", "report fail"}
             \/ exec[t][1] = "return ok" /\ db[t] \in Terminal
       \/ /\ queue[t] = "gone" /\ exec[t][1] = "off"
          /\ db[t] \in Terminal \/ (db[t] = "pending" /\ cancel[t] = "mark")

AllSettling == \A t \in Task \ (disturbed \cup purged) : Settling(t, Task \ victim)

PromisedSettling ==
    local => \A t \in promised \ (disturbed \cup purged) :
                req[t] = "done" /\ Settling(t, doomed["pending"])

(* ShutdownDistributor works on tasks that are, or were, in the queue.     *)
DoomedWereQueued ==
    \A t \in Task : t \in victim \/ (\E s \in Listed : t \in doomed[s]) => queue[t] # "none"

LeftInv == DoomedWereQueued /\ AllSettling /\ PromisedSettling

(* A task goes on being settled when a step concerns another task.         *)
LEMMA UntouchedSettling ==
    ASSUME NEW x \in Task, NEW K, Settling(x, K), Untouched(x)
    PROVE  Settling(x, K)'
BY DEF Untouched, Settling

(* It does not matter which other tasks are listed.                        *)
LEMMA SettlingAmong ==
    ASSUME NEW x \in Task, NEW K, NEW L, Settling(x, K), x \in K => x \in L
    PROVE  Settling(x, L)
BY DEF Settling

(* A call about a settling task that is not hurt by it.                    *)
LEMMA CallOfSettling ==
    ASSUME Typed, NEW x \in Task, NEW K, Settling(x, K), db[x] # "none", x \notin disturbed',
           NEW w \in {"running", "succeeded", "failed", "canceled"},
           CallDone(x, w) \/ CallFails(x, w)
    PROVE  /\ CallDone(x, w) /\ ~CallFails(x, w) /\ late' = late
           /\ cache'[x] = w /\ db'[x] = w /\ (x \in linked' <=> x \in linked)
<1>1. w \in Write \ {"create running", "failed in database"} /\ After(w, db[x]) = w
  BY DEF Write, Creation, After
<1>2. /\ CallDone(x, w) /\ late' = late /\ cache'[x] = w /\ db'[x] = w
      /\ x \in linked' <=> x \in linked
  BY <1>1, CallOfUndisturbed DEF Settling
<1> QED BY <1>2 DEF CallDone, CallFails, CallRefused, CallLost, Lingers, Fault

(* The handler of a task that is not hurt enqueues what it has recorded.   *)
LEMMA HandleSettles ==
    ASSUME IInv, NEW x \in Task, NEW K, Settling(x, K), Arrive(x) \/ Handle(x), x \notin disturbed',
           queue[x] = "none" => x \in K
    PROVE  Settling(x, K)'
<1>1. Typed /\ UNCHANGED <<attempts, exec, cancel>>
  BY TypesOfState DEF IInv, Arrive, Handle, processorVars, controlVars
<1>2. CASE Admit(x)
  <2>1. /\ UNCHANGED <<recordVars, entryVars>> /\ req[x] = "idle" /\ queue[x] = "none"
        /\ req'[x] \in {"done", "create"}
    BY <1>1, <1>2 DEF Admit, Goto, Answer, IInv, NotYetEnqueued, Typed
  <2> QED BY <1>1, <2>1 DEF Settling, recordVars, entryVars
<1>3. CASE Create(x)
  <2>1. /\ queue[x] = "none" /\ req[x] = "create" /\ UNCHANGED entryVars
        /\ CallDone(x, "create") \/ CallFails(x, "create")
    BY <1>3 DEF Create, IInv, NotYetEnqueued
  <2>2. cache[x] = db[x]
    BY DEF Settling
  <2>3. /\ CallDone(x, "create") /\ late' = late
        /\ cache'[x] = "pending" /\ db'[x] = "pending" /\ x \notin linked'
    BY <1>1, <2>1, <2>2, CallOfUndisturbed DEF Write, Creation, After
  <2>4. ~CallFails(x, "create")
    BY DEF CallFails, CallRefused, CallLost, Lingers, Fault, Accepts, Creation
  <2>5. req'[x] = "enqueue"
    BY <1>1, <1>3, <2>4 DEF Create, Goto, Typed
  <2> QED BY <1>1, <2>1, <2>3, <2>5 DEF Settling, entryVars
<1>4. CASE Enqueue(x)
  <2>1. /\ queue[x] = "none" /\ req[x] = "enqueue" /\ UNCHANGED <<recordVars, retried>>
        /\ queue'[x] = "pending" /\ req'[x] = "link"
    BY <1>1, <1>4
    DEF Enqueue, Enqueued, EnqueueLost, Fault, Goto, Typed, IInv, NotYetEnqueued
  <2> QED BY <1>1, <2>1 DEF Settling, recordVars
<1>5. CASE Link(x)
  <2>1. /\ queue[x] # "none" /\ db[x] # "none" /\ cache[x] = db[x] /\ UNCHANGED entryVars
        /\ CallDone(x, "link") \/ CallFails(x, "link")
    BY <1>5 DEF Link, Settling, Terminal
  <2>2. /\ CallDone(x, "link") /\ late' = late
        /\ cache'[x] = db[x] /\ db'[x] = db[x]
    BY <1>1, <2>1, CallOfUndisturbed DEF Write, Creation, After
  <2>3. ~CallFails(x, "link")
    BY <2>1 DEF CallFails, CallRefused, CallLost, Lingers, Fault, Accepts
  <2>4. req'[x] = "done"
    BY <1>1, <1>5, <2>3 DEF Link, Answer, Typed
  <2> QED BY <1>1, <2>1, <2>2, <2>4 DEF Settling, entryVars
<1>6. ~MarkFailed(x) /\ ~Unlink(x)
  BY DEF Settling, MarkFailed, Unlink
<1> QED BY <1>2, <1>3, <1>4, <1>5, <1>6 DEF Arrive, Handle, RequestStep

(* An attempt of an unhurt task ends in a report, or hurts it.             *)
LEMMA AttemptSettles ==
    ASSUME IInv, NEW x \in Task, NEW K, Settling(x, K), NEW a \in Attempt, AttemptStep(x, a), Process(x),
           x \notin disturbed'
    PROVE  Settling(x, K)'
<1>1. Typed /\ UNCHANGED <<attempts, req, cancel>>
  BY TypesOfState
  DEF IInv, Process, AttemptStep, SetRunning, Predict, Report, Finish, requestVars, controlVars
<1>2. /\ a = 1 /\ queue[x] = "active" /\ db[x] # "none" /\ attempts[x] = 1 /\ Attached(x, 1)
      /\ \/ exec[x][1] \in {"start", "predict", "report ok", "report fail"}
         \/ exec[x][1] = "return ok" /\ db[x] \in Terminal
  BY <1>1
  DEF Settling, AttemptStep, SetRunning, Predict, Report, Finish, Attached
<1>3. ASSUME NEW stage \in Stage, Advance(x, a, stage)
      PROVE  exec'[x][1] = stage /\ \A b \in Attempt : b # 1 => exec'[x][b] = "off"
  BY <1>1, <1>2, <1>3 DEF Advance, Settling, Typed
<1>4. CASE SetRunning(x, a)
  <2>1. /\ late' = late /\ cache'[x] = "running" /\ db'[x] = "running"
        /\ Advance(x, a, "predict") /\ UNCHANGED entryVars
    BY <1>1, <1>2, <1>4, CallOfSettling DEF SetRunning
  <2>2. exec'[x][1] = "predict" /\ \A b \in Attempt : b # 1 => exec'[x][b] = "off"
    BY <1>3, <2>1 DEF Stage
  <2> QED BY <1>1, <1>2, <2>1, <2>2 DEF Settling, entryVars
<1>5. CASE Predict(x, a)
  <2>1. /\ UNCHANGED <<recordVars, entryVars>>
        /\ exec[x][1] = "predict"
        /\ \E stage \in {"report ok", "report fail"} : Advance(x, a, stage)
    BY <1>2, <1>5 DEF Predict, Fault
  <2>2. /\ exec'[x][1] \in {"report ok", "report fail"}
        /\ \A b \in Attempt : b # 1 => exec'[x][b] = "off"
    BY <1>3, <2>1 DEF Stage
  <2> QED BY <1>1, <1>2, <2>1, <2>2 DEF Settling, recordVars, entryVars
<1>6. CASE Report(x, a)
  <2>1. /\ late' = late /\ cache'[x] = db'[x] /\ db'[x] \in {"succeeded", "failed"}
        /\ Advance(x, a, "return ok") /\ UNCHANGED entryVars
    BY <1>1, <1>2, <1>6, CallOfSettling DEF Report
  <2>2. exec'[x][1] = "return ok" /\ \A b \in Attempt : b # 1 => exec'[x][b] = "off"
    BY <1>3, <2>1 DEF Stage
  <2> QED BY <1>1, <1>2, <2>1, <2>2 DEF Settling, entryVars, Terminal
<1>7. CASE Finish(x, a)
  <2>1. /\ exec[x][1] = "return ok" /\ queue'[x] = "gone" /\ retried' = retried
        /\ UNCHANGED recordVars /\ Advance(x, a, "off")
    BY <1>1, <1>2, <1>7 DEF Finish, Fault, Typed
  <2>2. exec'[x][1] = "off" /\ \A b \in Attempt : b # 1 => exec'[x][b] = "off"
    BY <1>3, <2>1 DEF Stage
  <2> QED BY <1>1, <1>2, <2>1, <2>2 DEF Settling, recordVars
<1> QED BY <1>4, <1>5, <1>6, <1>7 DEF AttemptStep

(* The task processor leaves such a task pending, running or settled.      *)
LEMMA ProcessSettles ==
    ASSUME IInv, NEW x \in Task, NEW K, Settling(x, K), Process(x), x \notin disturbed'
    PROVE  Settling(x, K)'
<1>1. Typed /\ UNCHANGED <<req, cancel>>
  BY TypesOfState DEF IInv, Process, requestVars, controlVars
<1>2. CASE \E a \in Attempt : AttemptStep(x, a)
  BY <1>2, AttemptSettles
<1>3. ~Deadline(x) /\ ~RetryDue(x) /\ ~RecoverLease(x)
  <2>1. queue[x] = "active" => Attached(x, 1) /\ 1 \in Attempt
    BY <1>1 DEF Settling, Attached, Typed
  <2> QED BY <2>1 DEF Deadline, RetryDue, RecoverLease, Settling
<1>4. CASE Dequeue(x)
  <2>1. /\ queue[x] = "pending" /\ queue'[x] = "active" /\ UNCHANGED <<retried, recordVars>>
        /\ attempts[x] = 0 /\ attempts' = [attempts EXCEPT ![x] = @ + 1]
        /\ Advance(x, 1, "start")
    BY <1>1, <1>4 DEF Dequeue, Settling, Typed
  <2>2. attempts'[x] = 1
    BY <1>1, <2>1 DEF Typed
  <2>3. exec'[x][1] = "start" /\ \A b \in Attempt : b # 1 => exec'[x][b] = "off"
    BY <1>1, <2>1 DEF Advance, Settling, Typed
  <2> QED BY <1>1, <2>1, <2>2, <2>3 DEF Settling, recordVars, Terminal
<1> QED BY <1>2, <1>3, <1>4 DEF Process, ProcessorStep

(* A cancel takes a task out of the queue only to mark its record.         *)
LEMMA ControlSettles ==
    ASSUME IInv, NEW x \in Task, NEW K, Settling(x, K), Control, CancelStep(x) \/ PurgeDelete(x),
           x \notin disturbed' \cup purged'
    PROVE  Settling(x, K)'
<1>1. Typed /\ UNCHANGED <<req, attempts, exec>>
  BY TypesOfState DEF IInv, Control, requestVars, processorVars
<1>2. CASE CancelLookup(x)
  <2>1. UNCHANGED <<recordVars, entryVars>> /\ x \in linked /\ cancel[x] = "idle"
    BY <1>2 DEF CancelLookup, storeVars
  <2> QED BY <1>1, <2>1 DEF Settling, recordVars, entryVars
<1>3. CASE CancelDelete(x)
  <2>1. /\ UNCHANGED recordVars /\ cancel[x] = "delete" /\ retried' = retried
        /\ \/ Deletable(x) /\ queue'[x] = "gone" /\ cancel'[x] = "mark"
           \/ queue' = queue
    BY <1>1, <1>3
    DEF CancelDelete, CancelGoto, Deleted, DeleteFails, DeleteRefused, DeleteLost, Fault, entryVars,
        Typed
  <2>2. CASE queue' = queue /\ cancel[x] = "delete"
    BY <1>1, <2>1, <2>2 DEF Settling, recordVars
  <2>3. CASE Deletable(x) /\ queue'[x] = "gone" /\ cancel'[x] = "mark"
    BY <1>1, <2>1, <2>3 DEF Settling, recordVars, Deletable
  <2> QED BY <2>1, <2>2, <2>3
<1>4. CASE CancelMark(x)
  <2>1. UNCHANGED entryVars /\ db[x] # "none" /\ cancel[x] = "mark"
    BY <1>4 DEF CancelMark, Settling, Terminal
  <2>2. late' = late /\ cache'[x] = "canceled" /\ db'[x] = "canceled"
    BY <1>1, <1>4, <2>1, CallOfSettling DEF CancelMark
  <2> QED BY <1>1, <2>1, <2>2 DEF Settling, entryVars, Terminal
<1>5. CASE PurgeDelete(x)
  <2>1. UNCHANGED <<recordVars, entryVars, cancel>>
    BY <1>1, <1>5
    DEF PurgeDelete, Deleted, DeleteFails, DeleteRefused, DeleteLost, Fault, entryVars, Typed
  <2> QED BY <1>1, <2>1 DEF Settling, recordVars, entryVars
<1> QED BY <1>2, <1>3, <1>4, <1>5 DEF CancelStep

(* Whatever the agent does during the shutdown, a task that is not hurt    *)
(* goes on being settled; once answered it needs no handler to.            *)
LEMMA AgentSettles ==
    ASSUME IInv, NEW x \in Task, NEW K, Settling(x, K), [Next]_vars \/ Die,
           req[x] = "done" \/ queue[x] # "none" \/ x \in K, x \notin disturbed' \cup purged'
    PROVE  Settling(x, K)'
<1>1. ASSUME NEW t \in Task, t # x, \A y \in Task \ {t} : Untouched(y)
      PROVE  Settling(x, K)'
  BY <1>1, UntouchedSettling
<1>2. CASE UNCHANGED vars \/ Die
  BY <1>2, StutterLocal, DeathLocal, UntouchedSettling
<1>3. CASE Services
  BY <1>1, <1>3, LateLocal, ExpireLocal DEF Services, StoreStep, Settling
<1>4. ASSUME NEW t \in Task, Arrive(t) \/ Handle(t)
      PROVE  Settling(x, K)'
  <2>1. t # x \/ req[x] # "done"
    BY <1>4
    DEF Arrive, Handle, Admit, RequestStep, Create, Enqueue, MarkFailed, Link, Unlink
  <2> QED BY <1>1, <1>4, <2>1, RequestLocal, HandleSettles
<1>5. ASSUME NEW t \in Task, Process(t)
      PROVE  Settling(x, K)'
  BY <1>1, <1>5, ProcessLocal, ProcessSettles
<1>6. CASE Control
  <2>1. ASSUME NEW t \in Task, CancelStep(t) \/ PurgeDelete(t)
        PROVE  Settling(x, K)'
    BY <1>1, <1>6, <2>1, ControlLocal, ControlSettles
  <2>2. CASE PurgeList \/ PauseQueue \/ UnpauseQueue
    BY <1>6, <2>2, ListOrPauseLocal, UntouchedSettling
  <2> QED BY <1>6, <2>1, <2>2 DEF Control, ControlStep
<1> QED BY <1>2, <1>3, <1>4, <1>5, <1>6 DEF Next, Crash

(* What was deleted in bulk remains so.                                    *)
LEMMA PurgedStays ==
    ASSUME [Next]_vars \/ Die
    PROVE  purged \subseteq purged'
BY DEF Next, Crash, vars, Die, Services, Arrive, Handle, Process, Control, ControlStep, CancelStep,
       CancelLookup, CancelDelete, CancelMark, CancelGoto, PurgeDelete, PurgeList, PauseQueue,
       UnpauseQueue, controlVars

(* A request that was answered stays answered.                             *)
LEMMA AnsweredStays ==
    ASSUME IInv, NEW x \in Task, req[x] = "done", [Next]_vars \/ Die
    PROVE  req'[x] = "done"
<1>1. req \in [Task -> RequestStage]
  BY DEF IInv, TypeOK, AgentTypeOK, RequestTypeOK
<1>2. ASSUME NEW t \in Task, Arrive(t) \/ Handle(t)
      PROVE  req'[x] = "done"
  BY <1>1, <1>2
  DEF Arrive, Handle, Admit, RequestStep, Create, Enqueue, MarkFailed, Link, Unlink, Goto, Answer
<1>3. CASE UNCHANGED req
  BY <1>3
<1> QED
  BY <1>2, <1>3
  DEF Next, Crash, Die, Services, Process, Control, requestVars, vars

(* Writing failed settles the task ShutdownDistributor has come to.        *)
LEMMA FailingSettles ==
    ASSUME IInv, NEW v \in Task, NEW s \in Listed, FailDoomed(s, v), NEW K, Settling(v, K), NEW L,
           v \notin disturbed'
    PROVE  Settling(v, L)'
<1>1. Typed /\ UNCHANGED <<entryVars, attempts, exec, req, cancel>>
  BY TypesOfState
  DEF IInv, FailDoomed, ElsewhereThanStore, requestVars, processorVars, controlVars
<1>2. CallDone(v, "failed") \/ CallFails(v, "failed")
  BY DEF FailDoomed
<1>3. CASE db[v] = "none"
  <2>1. ~Accepts(v, "failed")
    BY <1>3 DEF Settling, Accepts, Creation
  <2>2. UNCHANGED recordVars
    BY <1>2, <2>1 DEF CallDone, CallFails, CallRefused, CallLost, Lingers, Fault
  <2> QED BY <1>1, <1>3, <2>2 DEF Settling, recordVars, entryVars, Terminal
<1>4. CASE db[v] # "none"
  <2>1. /\ late' = late /\ cache'[v] = "failed" /\ db'[v] = "failed"
        /\ v \in linked' <=> v \in linked
    BY <1>1, <1>2, <1>4, CallOfSettling
  <2> QED BY <1>1, <1>4, <2>1 DEF Settling, entryVars, Terminal
<1> QED BY <1>3, <1>4

(* Deleting the entry afterwards leaves it settled, whoever has it by now. *)
LEMMA DroppingSettles ==
    ASSUME IInv, NEW v \in Task, DropDoomed(v), NEW K, Settling(v, K), v \notin K, NEW L
    PROVE  Settling(v, L)'
<1>1. Typed /\ UNCHANGED <<recordVars, attempts, exec, req, cancel>>
  BY TypesOfState
  DEF IInv, DropDoomed, ElsewhereThanStore, requestVars, processorVars, controlVars
<1>2. retried' = retried /\ (queue'[v] = queue[v] \/ (Deletable(v) /\ queue'[v] = "gone"))
  BY <1>1, DeleteEffect DEF DropDoomed, Typed
<1> QED BY <1>1, <1>2 DEF Settling, recordVars, Deletable, Terminal

(* What is listed was in the queue, and what was there leaves a trace.     *)
LEMMA DoomedStayQueued ==
    ASSUME EndInv, DoomedWereQueued, [TerminationNext]_terminationVars
    PROVE  DoomedWereQueued'
<1>1. IInv /\ Typed /\ doomed \in [Listed -> SUBSET Task]
  BY TypesOfState DEF EndInv, IInv, EndTypeOK
<1>2. ASSUME [Next]_vars \/ Die, UNCHANGED <<doomed, victim>>
      PROVE  DoomedWereQueued'
  <2>1. \A t \in Task : queue[t] # "none" => queue'[t] # "none"
    BY <1>1, <1>2, NothingVanishes DEF Die, entryVars
  <2> QED BY <1>2, <2>1 DEF DoomedWereQueued
<1>3. CASE AgentStep \/ UNCHANGED terminationVars
  BY <1>2, <1>3, AgentStepIsNext DEF terminationVars, endingVars
<1>4. CASE StopProcessing \/ Terminate \/ DelayOver \/ AllFailed \/ Drained
  <2>1. [Next]_vars
    BY <1>4, QuietStep
  <2> QED
    BY <1>2, <1>4, <2>1 DEF StopProcessing, Terminate, DelayOver, AllFailed, Drained
<1>5. CASE Exit
  BY <1>2, <1>5 DEF Exit
<1>6. ASSUME NEW s \in Listed, NEW next, ListDoomed(s, next)
      PROVE  DoomedWereQueued'
  <2>1. UNCHANGED <<queue, victim>>
    BY <1>6 DEF ListDoomed, entryVars
  <2>2. PICK found \in SUBSET Task :
          ListsEntries(s, found) /\ doomed' = [doomed EXCEPT ![s] = found]
    BY <1>6 DEF ListDoomed
  <2>3. \A t \in found : queue[t] # "none"
    BY <2>2 DEF ListsEntries, Page, Listed
  <2> QED BY <1>1, <2>1, <2>2, <2>3 DEF DoomedWereQueued
<1>7. ASSUME NEW v \in Task, NEW s \in Listed, FailDoomed(s, v)
      PROVE  DoomedWereQueued'
  <2>1. /\ UNCHANGED queue /\ v \in doomed[s] /\ victim' = {v}
        /\ doomed' = [doomed EXCEPT ![s] = @ \ {v}]
    BY <1>7 DEF FailDoomed, entryVars
  <2> QED BY <1>1, <2>1 DEF DoomedWereQueued
<1>8. ASSUME NEW v \in Task, DropDoomed(v)
      PROVE  DoomedWereQueued'
  <2>1. victim' = {} /\ doomed' = doomed /\ \A t \in Task : queue[t] # "none" => queue'[t] # "none"
    BY <1>1, <1>8, DeleteEffect DEF DropDoomed, Typed
  <2> QED BY <2>1 DEF DoomedWereQueued
<1> QED
  BY <1>3, <1>4, <1>5, <1>6, <1>7, <1>8
  DEF TerminationNext, ShutdownStep, ListPending, ListRetry, Listed

(* Every step of the agent or the shutdown leaves the tasks that are not   *)
(* hurt pending, running or settled, and the promised ones listed.         *)
LEMMA LeftStep ==
    ASSUME EndInv, LeftInv, [TerminationNext]_terminationVars
    PROVE  LeftInv'
<1>1. /\ Typed /\ IInv /\ promised \subseteq Task /\ doomed \in [Listed -> SUBSET Task]
      /\ DoomedWereQueued /\ AllSettling /\ PromisedSettling
  BY TypesOfState DEF EndInv, IInv, EndTypeOK, LeftInv
<1>2. SUFFICES AllSettling' /\ PromisedSettling'
  BY <1>1, DoomedStayQueued DEF LeftInv
<1>3. ASSUME [Next]_vars \/ Die, UNCHANGED <<local, doomed, promised, victim>>
      PROVE  AllSettling' /\ PromisedSettling'
  <2>1. disturbed \subseteq disturbed' /\ purged \subseteq purged'
    BY <1>3, HurtStays, PurgedStays
  <2>2. ASSUME NEW x \in Task \ (disturbed' \cup purged')
        PROVE  Settling(x, Task \ victim)'
    <3>1. Settling(x, Task \ victim) /\ (queue[x] # "none" \/ x \in Task \ victim)
      BY <1>1, <2>1, <2>2 DEF AllSettling, DoomedWereQueued
    <3> DEFINE K == Task \ victim
    <3>2. K' = K
      BY <1>3
    <3>3. \A L : Settling(x, L) /\ (queue[x] # "none" \/ x \in L) => Settling(x, L)'
      BY <1>1, <1>3, <2>2, AgentSettles
    <3> QED BY <1>3, <3>1, <3>2, <3>3 DEF Settling
  <2>3. ASSUME local, NEW x \in promised \ (disturbed' \cup purged')
        PROVE  req'[x] = "done" /\ Settling(x, doomed["pending"])'
    <3>1. Settling(x, doomed["pending"]) /\ req[x] = "done" /\ x \in Task
      BY <1>1, <2>1, <2>3 DEF PromisedSettling
    <3>2. \A L : Settling(x, L) => Settling(x, L)'
      BY <1>1, <1>3, <2>3, <3>1, AgentSettles
    <3>3. req'[x] = "done"
      BY <1>1, <1>3, <3>1, AnsweredStays
    <3> QED BY <1>3, <3>1, <3>2, <3>3 DEF Settling
  <2> QED BY <1>3, <2>2, <2>3 DEF AllSettling, PromisedSettling
<1>4. CASE AgentStep \/ UNCHANGED terminationVars
  BY <1>3, <1>4, AgentStepIsNext DEF terminationVars, endingVars
<1>5. CASE StopProcessing \/ Terminate \/ DelayOver \/ AllFailed \/ Drained
  <2>1. [Next]_vars
    BY <1>5, QuietStep
  <2> QED
    BY <1>3, <1>5, <2>1 DEF StopProcessing, Terminate, DelayOver, AllFailed, Drained
<1>6. CASE Exit
  BY <1>3, <1>6 DEF Exit
<1>7. CASE ListPending \/ ListRetry
  <2>1. /\ UNCHANGED <<local, victim, purged>> /\ \A x \in Task : Untouched(x)
        /\ ListRetry => promised' = promised /\ doomed'["pending"] = doomed["pending"]
    BY <1>1, <1>7, ListLocal
    DEF ListPending, ListRetry, ListDoomed, ElsewhereThanStore, controlVars, Listed
  <2>2. ASSUME NEW x \in Task, Settling(x, Task \ victim)
        PROVE  Settling(x, Task \ victim)'
    BY <2>1, <2>2 DEF Untouched, Settling
  <2>3. AllSettling'
    BY <1>1, <2>1, <2>2 DEF AllSettling, Untouched
  <2>4. CASE ListRetry
    <3>1. ASSUME local, NEW x \in promised \ (disturbed' \cup purged')
          PROVE  req'[x] = "done" /\ Settling(x, doomed["pending"])'
      <4>1. /\ x \in Task /\ req[x] = "done" /\ Settling(x, doomed["pending"]) /\ Untouched(x)
            /\ doomed'["pending"] = doomed["pending"]
        BY <1>1, <2>1, <2>4, <3>1 DEF PromisedSettling, Untouched
      <4>2. Settling(x, doomed'["pending"]) /\ req'[x] = "done"
        BY <4>1 DEF Untouched
      <4>3. \A L : Settling(x, L) => Settling(x, L)'
        BY <4>1, UntouchedSettling
      <4> QED BY <4>2, <4>3 DEF Settling
    <3> QED BY <2>1, <2>3, <2>4, <3>1 DEF PromisedSettling
  <2>5. CASE ListPending
    <3>1. ASSUME NEW x \in promised' \ (disturbed' \cup purged')
          PROVE  req'[x] = "done" /\ Settling(x, doomed["pending"])'
      <4>1. /\ x \in Task /\ req[x] = "done"
            /\ queue[x] = "pending" => x \in doomed'["pending"]
        BY <2>5, <3>1 DEF ListPending
      <4>2. Settling(x, Task \ victim) /\ Untouched(x)
        BY <1>1, <2>1, <3>1, <4>1 DEF AllSettling, Untouched
      <4>3. \A L : (queue[x] = "pending" => x \in L) => Settling(x, L)
        BY <4>2 DEF Settling
      <4>4. \A L : Settling(x, L) => Settling(x, L)'
        BY <4>1, <4>2, UntouchedSettling
      <4>5. req'[x] = "done"
        BY <4>1, <4>2 DEF Untouched
      <4> QED BY <4>1, <4>3, <4>4, <4>5 DEF Settling
    <3> QED BY <2>1, <2>3, <3>1 DEF PromisedSettling
  <2> QED BY <1>7, <2>3, <2>4, <2>5
<1>8. ASSUME NEW v \in Task, DropDoomed(v) \/ \E s \in Listed : FailDoomed(s, v)
      PROVE  AllSettling' /\ PromisedSettling'
  <2>1. UNCHANGED <<local, promised, req, purged>>
    BY <1>8 DEF DropDoomed, FailDoomed, ElsewhereThanStore, requestVars, controlVars
  <2>2. /\ doomed["pending"] \subseteq doomed'["pending"] \cup {v}
        /\ Task \ victim \subseteq (Task \ victim') \cup {v}
    BY <1>1, <1>8 DEF DropDoomed, FailDoomed, Listed
  <2>3. disturbed \subseteq disturbed'
    BY <1>8
    DEF DropDoomed, FailDoomed, Deleted, DeleteFails, DeleteRefused, DeleteLost, CallDone,
        CallFails, CallRefused, CallLost, Lingers, Fault, faultVars
  <2>4. ASSUME NEW x \in Task \ {v}, NEW K, Settling(x, K), NEW L, x \in K => x \in L
        PROVE  Settling(x, L)'
    <3>1. Untouched(x) /\ Settling(x, L)
      BY <1>1, <1>8, <2>4, DoomedLocal, SettlingAmong
    <3> QED BY <3>1, UntouchedSettling
  <2>5. DropDoomed(v) => v \notin Task \ victim /\ v \notin doomed["pending"]
    BY DEF DropDoomed, EndInv, Stages
  <2>6. ASSUME NEW K, Settling(v, K), DropDoomed(v) => v \notin K, v \notin disturbed', NEW L
        PROVE  Settling(v, L)'
    BY <1>1, <1>8, <2>6, FailingSettles, DroppingSettles
  <2>7. ASSUME NEW x \in Task \ (disturbed' \cup purged')
        PROVE  Settling(x, Task \ victim)'
    <3>1. Settling(x, Task \ victim)
      BY <1>1, <2>1, <2>3, <2>7 DEF AllSettling
    <3>2. \A L : x = v \/ (x \in Task \ victim => x \in L) => Settling(x, L)'
      BY <2>4, <2>5, <2>6, <2>7, <3>1
    <3> QED BY <2>2, <3>2 DEF Settling
  <2>8. ASSUME local, NEW x \in promised \ (disturbed' \cup purged')
        PROVE  Settling(x, doomed["pending"])'
    <3>1. Settling(x, doomed["pending"]) /\ x \in Task
      BY <1>1, <2>1, <2>3, <2>8 DEF PromisedSettling
    <3>2. \A L : x = v \/ (x \in doomed["pending"] => x \in L) => Settling(x, L)'
      BY <2>4, <2>5, <2>6, <2>8, <3>1
    <3> QED BY <2>2, <3>2 DEF Settling
  <2> QED BY <1>1, <2>1, <2>3, <2>7, <2>8 DEF AllSettling, PromisedSettling
<1> QED
  BY <1>4, <1>5, <1>6, <1>7, <1>8 DEF TerminationNext, ShutdownStep

(* The invariant of what is left holds in every reachable state.           *)
THEOREM LeftInvHolds == TerminationSpec => []LeftInv
<1>1. TerminationInit => LeftInv
  <2> SUFFICES ASSUME TerminationInit PROVE LeftInv
    OBVIOUS
  <2>1. UndisturbedShape
    BY UndisturbedInitially DEF TerminationInit
  <2>2. ASSUME NEW t \in Task
        PROVE  db[t] = "none" /\ queue[t] = "none" /\ disturbed = {} /\ req[t] = "idle"
    BY DEF TerminationInit, Init, StoreInit, RequestInit
  <2>3. ASSUME NEW t \in Task
        PROVE  Settling(t, Task \ victim)
    <3>1. Shape(t)
      BY <2>1, <2>2 DEF UndisturbedShape, ShapesOf
    <3> QED BY <2>2, <3>1 DEF Shape, NotQueued, Waiting, Running, Left, Settling
  <2>4. AllSettling
    BY <2>3 DEF AllSettling
  <2> QED
    BY <2>4 DEF TerminationInit, LeftInv, DoomedWereQueued, PromisedSettling, Listed
<1>2. EndInv /\ LeftInv /\ [TerminationNext]_terminationVars => LeftInv'
  BY LeftStep
<1> QED BY <1>1, <1>2, EndInvHolds, PTL DEF TerminationSpec

(* When the agent ends nothing is cut off while running, and what is       *)
(* unfinished has not been begun: with a redis that outlives the agent the *)
(* next agent finds it (README.md:81-82), with a local one it came too     *)
(* late for ShutdownDistributor to see (main.go:178).                      *)
THEOREM UnfinishedTasksAreHandedOver == TerminationSpec => []HandedOver
<1>1. ASSUME EndInv, LeftInv, ending \in {"closing", "exited"},
             NEW t \in Task \ (disturbed \cup purged), db[t] \in {"pending", "running"}
      PROVE  /\ db[t] = "pending"
             /\ queue[t] = "pending" \/ req[t] = "enqueue" \/ cancel[t] = "mark"
  <2>1. Settling(t, Task \ victim) /\ Busy = {} /\ 1 \in Attempt
    BY <1>1, TypesOfState DEF EndInv, IInv, Typed, Stages, LeftInv, AllSettling
  <2>2. queue[t] # "active"
    BY <2>1 DEF Settling, Busy, Attached
  <2> QED BY <1>1, <2>1, <2>2 DEF Settling, Terminal
<1>2. EndInv /\ LeftInv => HandedOver
  BY <1>1 DEF HandedOver
<1> QED BY <1>2, EndInvHolds, LeftInvHolds, PTL

(* With a local redis no accepted task whose entry ShutdownDistributor     *)
(* could list in full is left pending or running (distributor.go:201).     *)
THEOREM PromisedTasksAreSettled == TerminationSpec => []PromisedIsSettled
<1>1. ASSUME EndInv, LeftInv, ending = "exited", local,
             NEW t \in promised \ (disturbed \cup purged)
      PROVE  db[t] \notin {"pending", "running"}
  <2>1. /\ t \in Task /\ Settling(t, doomed["pending"]) /\ req[t] = "done"
        /\ Busy = {} /\ cancel[t] # "mark" /\ doomed["pending"] = {} /\ 1 \in Attempt
    BY <1>1, TypesOfState
    DEF EndInv, EndTypeOK, IInv, Typed, Stages, LeftInv, PromisedSettling, Listed
  <2>2. queue[t] # "active"
    BY <2>1 DEF Settling, Busy, Attached
  <2> QED BY <2>1, <2>2 DEF Settling, Terminal
<1>2. EndInv /\ LeftInv => PromisedIsSettled
  BY <1>1 DEF PromisedIsSettled
<1> QED BY <1>2, EndInvHolds, LeftInvHolds, PTL

=============================================================================
