------------------------- MODULE UndisturbedProofs -------------------------
(***************************************************************************)
(* The life of a task that no failure, timeout or crash has hurt.  Its     *)
(* record, queue entry, attempt and cancel handler are always in one of    *)
(* four shapes, after the state of the entry; what AsyncAgent promises of  *)
(* such tasks, and the refinement of TaskLifecycle, follow from them.      *)
(***************************************************************************)
EXTENDS AsyncAgentProofs

NotQueued(t) ==
    /\ queue[t] = "none" /\ attempts[t] = 0 /\ exec[t][1] = "off"
    /\ t \notin linked \cup purged /\ cancel[t] = "idle"
    /\ \/ req[t] \in {"idle", "create", "done"} /\ db[t] = "none"
       \/ req[t] = "enqueue" /\ db[t] = "pending"

Waiting(t) ==
    /\ queue[t] = "pending" /\ attempts[t] = 0 /\ exec[t][1] = "off"
    /\ db[t] = "pending"
    /\ t \notin purged /\ cancel[t] \in {"idle", "delete"}

Running(t) ==
    /\ queue[t] = "active" /\ attempts[t] = 1
    /\ t \notin purged /\ cancel[t] \in {"idle", "delete"}
    /\ \/ exec[t][1] = "start" /\ db[t] = "pending"
       \/ exec[t][1] \in {"predict", "report ok", "report fail"} /\ db[t] = "running"
       \/ exec[t][1] = "return ok" /\ db[t] \in {"succeeded", "failed"}

Left(t) ==
    /\ queue[t] = "gone" /\ exec[t][1] = "off"
    /\ \/ /\ attempts[t] = 1 /\ db[t] \in {"succeeded", "failed"}
          /\ cancel[t] \in {"idle", "delete"}
       \/ attempts[t] = 0 /\ cancel[t] = "mark" /\ db[t] = "pending"
       \/ attempts[t] = 0 /\ cancel[t] = "ok" /\ db[t] = "canceled"
       \/ /\ attempts[t] = 0 /\ t \in purged /\ db[t] = "pending"
          /\ cancel[t] \in {"idle", "delete"}

Shape(t) ==
    /\ NotQueued(t) \/ Waiting(t) \/ Running(t) \/ Left(t)
    /\ cache[t] = db[t]
    /\ retried[t] = 0
    /\ \A u \in late : u.task # t
    /\ \A a \in Attempt : a # 1 => exec[t][a] = "off"
    /\ req[t] \in {"idle", "create", "enqueue", "link", "done"}
    /\ req[t] = "link" => queue[t] # "none"
    /\ req[t] = "done" /\ queue[t] # "none" => t \in linked

ShapesOf(S) == \A t \in S : t \notin disturbed => Shape(t)

UndisturbedShape == ShapesOf(Task)

-----------------------------------------------------------------------------
(* A step that does not concern a task leaves its shape alone.             *)

Untouched(x) ==
    /\ cache'[x] = cache[x] /\ db'[x] = db[x]
    /\ queue'[x] = queue[x] /\ retried'[x] = retried[x]
    /\ attempts'[x] = attempts[x] /\ exec'[x] = exec[x]
    /\ req'[x] = req[x] /\ cancel'[x] = cancel[x]
    /\ x \in linked' <=> x \in linked
    /\ x \in purged' <=> x \in purged
    /\ x \in disturbed => x \in disturbed'
    /\ \A u \in late' : u.task = x => u \in late

(* A task keeps its shape when a step concerns another task.               *)
LEMMA UntouchedShape ==
    ASSUME NEW x \in Task, x \notin disturbed => Shape(x), Untouched(x), x \notin disturbed'
    PROVE  Shape(x)'
BY DEF Untouched, Shape, NotQueued, Waiting, Running, Left

Typed ==
    /\ cache \in [Task -> Status \cup {"none"}] /\ db \in [Task -> Status \cup {"none"}]
    /\ queue \in [Task -> QueueState] /\ retried \in [Task -> 0..MaxRetry]
    /\ attempts \in [Task -> 0..(MaxRetry + 1)] /\ exec \in [Task -> [Attempt -> Stage]]
    /\ req \in [Task -> RequestStage] /\ cancel \in [Task -> CancelStage]
    /\ 1 \in Attempt /\ late \subseteq LateCall

(* The types, in the form the lemmas below use.                            *)
LEMMA TypesOfState == ASSUME TypeOK PROVE Typed
BY TaskStoreAssumption
DEF TypeOK, AgentTypeOK, StoreTypeOK, RecordTypeOK, EntryTypeOK, RequestTypeOK,
    ProcessorTypeOK, ControlTypeOK, Attempt, TaskStoreAssumption, Typed

(* A call about t touches the records of t only.                           *)
LEMMA CallLocal ==
    ASSUME Typed, NEW t \in Task, NEW w, CallDone(t, w) \/ CallFails(t, w)
    PROVE  \A x \in Task \ {t} :
              /\ cache'[x] = cache[x] /\ db'[x] = db[x]
              /\ x \in linked' <=> x \in linked
              /\ x \in disturbed => x \in disturbed'
              /\ \A u \in late' : u.task = x => u \in late
<1>1. CASE CallDone(t, w)
  <2>1. linked' \in {linked \cup {t}, linked \ {t}, linked}
    BY <1>1 DEF CallDone, Carry
  <2>2. \A x \in Task \ {t} : cache'[x] = cache[x] /\ db'[x] = db[x]
    BY <1>1 DEF CallDone, Carry, Typed
  <2> QED BY <1>1, <2>1, <2>2 DEF CallDone, Lingers, Fault, faultVars
<1>2. CASE CallRefused(t, w)
  BY <1>2 DEF CallRefused, recordVars, faultVars
<1>3. CASE CallLost(t, w)
  BY <1>3 DEF CallLost, Lingers, Fault
<1> QED BY <1>1, <1>2, <1>3 DEF CallFails

(* As long as t stays undisturbed, its calls are carried out.              *)
LEMMA CallOfUndisturbed ==
    ASSUME Typed, NEW t \in Task, NEW w \in Write \ {"create running", "failed in database"},
           cache[t] = db[t], w = "create" \/ db[t] # "none",
           CallDone(t, w) \/ CallFails(t, w), t \notin disturbed'
    PROVE  /\ CallDone(t, w) /\ late' = late
           /\ cache'[t] = After(w, db[t]) /\ db'[t] = After(w, db[t])
           /\ t \in linked' <=> (w = "link" \/ (w # "create" /\ t \in linked))
<1>1. Accepts(t, w)
  BY DEF Accepts, Creation
<1>2. ~CallFails(t, w)
  BY <1>1 DEF CallFails, CallRefused, CallLost, Lingers, Fault
<1>3. CallDone(t, w)
  BY <1>2
<1>4. Carry(t, w) /\ late' = late
  BY <1>3 DEF CallDone, Lingers, Fault
<1>5. cache'[t] = After(w, db[t]) /\ db'[t] = After(w, db[t])
  BY <1>4 DEF Carry, Creation, Typed
<1>6. t \in linked' <=> (w = "link" \/ (w # "create" /\ t \in linked))
  BY <1>4 DEF Carry, Creation
<1> QED BY <1>3, <1>4, <1>5, <1>6

(* A step that concerns one task has to keep the shape of that task only.  *)
LEMMA LocalStep ==
    ASSUME NEW S \in SUBSET Task, ShapesOf(S), NEW t \in Task, \A x \in Task \ {t} : Untouched(x),
           t \in S /\ t \notin disturbed' => Shape(t)'
    PROVE  ShapesOf(S)'
BY UntouchedShape DEF ShapesOf

(* A step that concerns no task keeps every shape.                         *)
LEMMA GlobalStep ==
    ASSUME NEW S \in SUBSET Task, ShapesOf(S), \A x \in Task : Untouched(x)
    PROVE  ShapesOf(S)'
BY UntouchedShape DEF ShapesOf

-----------------------------------------------------------------------------
(* A step of the agent concerns one task at most.                          *)

(* A request handler concerns its own task only.                           *)
LEMMA RequestLocal ==
    ASSUME IInv, NEW t \in Task, Arrive(t) \/ Handle(t)
    PROVE  \A x \in Task \ {t} : Untouched(x)
<1>1. Typed /\ UNCHANGED <<attempts, exec, cancel, purged>>
  BY TypesOfState DEF IInv, Arrive, Handle, processorVars, controlVars
<1>2. \A x \in Task \ {t} : req'[x] = req[x]
  BY <1>1 DEF Typed, Arrive, Handle, Admit, RequestStep, Create, Enqueue, MarkFailed, Link, Unlink,
              Goto, Answer
<1>3. \A x \in Task \ {t} : queue'[x] = queue[x] /\ retried'[x] = retried[x]
  <2>1. CASE UNCHANGED entryVars
    BY <2>1 DEF entryVars
  <2>2. CASE Enqueue(t)
    BY <1>1, <2>2 DEF Enqueue, Enqueued, EnqueueLost, Typed
  <2>3. CASE Unlink(t)
    <3>1. Deleted(t) \/ DeleteFails(t)
      BY <2>3 DEF Unlink
    <3> QED BY <1>1, <3>1, DeleteEffect DEF Typed
  <2> QED
    BY <2>1, <2>2, <2>3 DEF Arrive, Handle, Admit, RequestStep, Create, MarkFailed, Link
<1>4. \A x \in Task \ {t} :
         /\ cache'[x] = cache[x] /\ db'[x] = db[x]
         /\ x \in linked' <=> x \in linked
         /\ x \in disturbed => x \in disturbed'
         /\ \A u \in late' : u.task = x => u \in late
  <2>1. CASE \E w \in Write : CallDone(t, w) \/ CallFails(t, w)
    BY <1>1, <2>1, CallLocal
  <2>2. CASE UNCHANGED recordVars /\ (disturbed \subseteq disturbed')
    BY <2>2 DEF recordVars
  <2>3. CASE Create(t) \/ MarkFailed(t) \/ Link(t)
    BY <2>1, <2>3 DEF Create, MarkFailed, Link, Write, Creation
  <2>4. CASE Admit(t) \/ Enqueue(t)
    BY <2>2, <2>4 DEF Admit, ReadLost, faultVars, Enqueue, Enqueued, EnqueueLost, Fault
  <2>5. CASE Unlink(t)
    BY <2>2, <2>5
    DEF Unlink, Deleted, DeleteFails, DeleteRefused, DeleteLost, Fault, faultVars
  <2> QED BY <2>3, <2>4, <2>5 DEF Arrive, Handle, RequestStep
<1> QED BY <1>1, <1>2, <1>3, <1>4 DEF Untouched

(* The goroutine of an attempt concerns its own task only.                 *)
LEMMA AttemptLocal ==
    ASSUME IInv, NEW t \in Task, NEW a \in Attempt, AttemptStep(t, a),
           UNCHANGED <<requestVars, controlVars, crashes>>
    PROVE  \A x \in Task \ {t} : Untouched(x)
<1>1. /\ Typed /\ UNCHANGED <<attempts, req, cancel, purged>>
      /\ exec[t][a] # "off"
      /\ \E stage \in Stage : exec' = [exec EXCEPT ![t] = [@ EXCEPT ![a] = stage]]
  BY TypesOfState
  DEF IInv, AttemptStep, SetRunning, Predict, Report, Finish, Advance, Stage, requestVars,
      controlVars
<1>2. \A x \in Task \ {t} : queue'[x] = queue[x] /\ retried'[x] = retried[x]
  BY <1>1
  DEF AttemptStep, SetRunning, Predict, Report, Finish, HandleFailed, entryVars, Typed
<1>3. \/ \E w \in Write : CallDone(t, w) \/ CallFails(t, w)
      \/ UNCHANGED recordVars /\ (disturbed' = disturbed \/ disturbed' = disturbed \cup {t})
  BY DEF AttemptStep, SetRunning, Predict, Report, Finish, Fault, faultVars, Write, Creation
<1>4. \A x \in Task \ {t} :
         /\ cache'[x] = cache[x] /\ db'[x] = db[x]
         /\ x \in linked' <=> x \in linked
         /\ x \in disturbed => x \in disturbed'
         /\ \A u \in late' : u.task = x => u \in late
  BY <1>1, <1>3, CallLocal DEF recordVars
<1> QED BY <1>1, <1>2, <1>4 DEF Untouched, Typed

(* So does the task processor with an entry.                               *)
LEMMA ProcessLocal ==
    ASSUME IInv, NEW t \in Task, Process(t)
    PROVE  \A x \in Task \ {t} : Untouched(x)
<1>1. Typed /\ UNCHANGED <<req, cancel, purged>>
  BY TypesOfState DEF IInv, Process, requestVars, controlVars
<1>2. CASE \E a \in Attempt : AttemptStep(t, a)
  BY <1>2, AttemptLocal DEF Process
<1>3. CASE Dequeue(t) \/ Deadline(t) \/ RetryDue(t) \/ RecoverLease(t)
  BY <1>1, <1>3
  DEF Typed, Dequeue, Advance, Deadline, RetryDue, RecoverLease, HandleFailed, Untouched,
      recordVars, faultVars, processorVars
<1> QED BY <1>2, <1>3 DEF Process, ProcessorStep

(* So do a cancel and the deletion of one pending entry.                   *)
LEMMA ControlLocal ==
    ASSUME IInv, Control, NEW t \in Task, CancelStep(t) \/ PurgeDelete(t)
    PROVE  \A x \in Task \ {t} : Untouched(x)
<1>1. Typed /\ UNCHANGED <<req, attempts, exec>>
  BY TypesOfState DEF IInv, Control, requestVars, processorVars
<1>2. \A x \in Task \ {t} : cancel'[x] = cancel[x] /\ (x \in purged' <=> x \in purged)
  BY <1>1
  DEF Typed, CancelStep, CancelLookup, CancelDelete, CancelMark, CancelGoto, PurgeDelete
<1>3. CASE CancelMark(t)
  <2>1. UNCHANGED entryVars /\ (CallDone(t, "canceled") \/ CallFails(t, "canceled"))
    BY <1>3 DEF CancelMark
  <2> QED BY <1>1, <1>2, <2>1, CallLocal DEF Untouched, entryVars
<1>4. CASE CancelLookup(t)
  BY <1>1, <1>2, <1>4
  DEF CancelLookup, Untouched, storeVars, recordVars, entryVars, faultVars
<1>5. CASE CancelDelete(t) \/ PurgeDelete(t)
  <2>1. /\ UNCHANGED recordVars /\ disturbed \subseteq disturbed'
        /\ retried' = retried /\ (queue' = queue \/ queue' = [queue EXCEPT ![t] = "gone"])
    BY <1>5, DeleteEffect
    DEF CancelDelete, PurgeDelete, ReadLost, Deleted, DeleteFails, DeleteRefused, DeleteLost, Fault,
        faultVars, entryVars
  <2> QED BY <1>1, <1>2, <2>1 DEF Typed, Untouched, recordVars
<1> QED BY <1>3, <1>4, <1>5 DEF CancelStep

(* Listing for a bulk deletion, pausing and unpausing concern no task.     *)
LEMMA ListOrPauseLocal ==
    ASSUME IInv, Control, PurgeList \/ PauseQueue \/ UnpauseQueue
    PROVE  \A x \in Task : Untouched(x)
BY DEF Control, PurgeList, PauseQueue, UnpauseQueue, storeVars, recordVars, entryVars, faultVars,
       controlVars, requestVars, processorVars, Untouched

(* A late write concerns the task it was meant for.                        *)
LEMMA LateLocal ==
    ASSUME IInv, NEW u \in late, CarryLate(u), Services
    PROVE  u.task \in Task /\ \A x \in Task \ {u.task} : Untouched(x)
<1>1. Typed
  BY TypesOfState DEF IInv
<1>2. u.task \in Task /\ late' \subseteq late /\ disturbed \subseteq disturbed'
  BY <1>1 DEF Typed, LateCall, CarryLate, Fault, faultVars
<1>3. linked' \in {linked \cup {u.task}, linked \ {u.task}, linked}
  BY DEF CarryLate, Carry
<1>4. \A x \in Task \ {u.task} : cache'[x] = cache[x] /\ db'[x] = db[x]
  BY <1>1 DEF CarryLate, Carry, Typed
<1> QED
  BY <1>2, <1>3, <1>4
  DEF CarryLate, Services, Untouched, entryVars, requestVars, processorVars, controlVars

(* An expiry concerns the task whose record it is, and hurts it.           *)
LEMMA ExpireLocal ==
    ASSUME IInv, NEW t \in Task, Expire(t), Services
    PROVE  t \in disturbed' /\ \A x \in Task \ {t} : Untouched(x)
BY TypesOfState
DEF IInv, Typed, Expire, Fault, Services, Untouched, entryVars, requestVars, processorVars,
    controlVars

(* Stuttering concerns no task.                                            *)
LEMMA StutterLocal ==
    ASSUME UNCHANGED vars
    PROVE  \A x \in Task : Untouched(x)
BY DEF vars, storeVars, recordVars, entryVars, faultVars, requestVars, processorVars, controlVars,
       Untouched

(* A task the dying process does not hold is left as it is.                *)
LEMMA DeathLocal ==
    ASSUME IInv, Die, NEW x \in Task, x \notin disturbed'
    PROVE  ~InFlight(x) /\ Untouched(x)
<1>1. Typed
  BY TypesOfState DEF IInv
<1>2. /\ UNCHANGED <<recordVars, entryVars, attempts, purged>>
      /\ disturbed' = disturbed \cup {y \in Task : InFlight(y)}
  BY DEF Die
<1>3. ~InFlight(x)
  BY <1>2
<1>4. req'[x] = req[x] /\ cancel'[x] = cancel[x]
  BY <1>1, <1>3 DEF Die, InFlight, Typed, CancelStage
<1>5. exec'[x] = exec[x]
  <2>1. exec'[x] = [a \in Attempt |-> "off"]
    BY DEF Die
  <2>2. exec[x] \in [Attempt -> Stage] /\ \A a \in Attempt : exec[x][a] = "off"
    BY <1>1, <1>3 DEF InFlight, Typed
  <2> QED BY <2>1, <2>2
<1> QED BY <1>2, <1>3, <1>4, <1>5 DEF Untouched, recordVars, entryVars

-----------------------------------------------------------------------------
(* One lemma per component.                                                *)

(* A request handler keeps the shape of undisturbed tasks.                 *)
LEMMA RequestShape ==
    ASSUME IInv, NEW S \in SUBSET Task, ShapesOf(S), NEW t \in Task, Arrive(t) \/ Handle(t)
    PROVE  ShapesOf(S)'
<1>1. Typed /\ UNCHANGED <<attempts, exec, cancel, purged>>
  BY TypesOfState DEF IInv, Arrive, Handle, processorVars, controlVars
<1>5. \A x \in Task \ {t} : Untouched(x)
  BY RequestLocal
<1>6. ASSUME t \in S, t \notin disturbed'
      PROVE  Shape(t)'
  <2>1. t \notin disturbed
    <3>1. disturbed \subseteq disturbed'
      BY DEF Arrive, Handle, Admit, ReadLost, faultVars, RequestStep, Create, Enqueue, MarkFailed,
             Link, Unlink, CallDone, CallFails, CallRefused, CallLost, Lingers, Enqueued,
             EnqueueLost,
             Deleted, DeleteFails, DeleteRefused, DeleteLost, Fault
    <3> QED BY <1>6, <3>1
  <2>2. Shape(t)
    BY <1>6, <2>1 DEF ShapesOf
  <2>3. CASE Admit(t)
    <3>1. /\ UNCHANGED <<recordVars, entryVars>> /\ req[t] = "idle" /\ queue[t] = "none"
          /\ req'[t] \in {"done", "create"}
      BY <1>1, <2>3 DEF Admit, Goto, Answer, IInv, NotYetEnqueued, Typed
    <3>2. NotQueued(t)'
      BY <1>1, <2>2, <3>1
      DEF Shape, NotQueued, Waiting, Running, Left, recordVars, entryVars
    <3> QED BY <1>1, <2>2, <3>1, <3>2 DEF Shape, recordVars, entryVars
  <2>4. CASE Create(t)
    <3>1. queue[t] = "none" /\ req[t] = "create" /\ UNCHANGED entryVars
      BY <2>4 DEF Create, IInv, NotYetEnqueued
    <3>2. CallDone(t, "create") \/ CallFails(t, "create")
      BY <2>4 DEF Create
    <3>3. /\ CallDone(t, "create") /\ late' = late
          /\ cache'[t] = "pending" /\ db'[t] = "pending"
          /\ t \notin linked'
      BY <1>1, <1>6, <2>2, <3>2, CallOfUndisturbed DEF Shape, Write, Creation, After
    <3>4. req'[t] = "enqueue"
      BY <1>1, <1>6, <2>2, <2>4 DEF Create, Goto, Typed, CallFails, CallRefused, CallLost,
                                    Lingers, Fault, Accepts, Creation
    <3>5. NotQueued(t)'
      BY <1>1, <2>2, <3>1, <3>3, <3>4
      DEF Shape, NotQueued, Waiting, Running, Left, entryVars
    <3> QED BY <1>1, <2>2, <3>1, <3>3, <3>4, <3>5 DEF Shape, entryVars
  <2>5. CASE Enqueue(t)
    <3>1. /\ queue[t] = "none" /\ req[t] = "enqueue" /\ UNCHANGED <<recordVars, retried>>
          /\ queue'[t] = "pending" /\ req'[t] = "link"
      BY <1>1, <1>6, <2>5
      DEF Enqueue, Enqueued, EnqueueLost, Fault, Goto, Typed, IInv, NotYetEnqueued
    <3>2. Waiting(t)'
      BY <1>1, <2>2, <3>1
      DEF Shape, NotQueued, Waiting, Running, Left, recordVars
    <3> QED BY <1>1, <2>2, <3>1, <3>2 DEF Shape, recordVars
  <2>6. CASE Link(t)
    <3>1. queue[t] # "none" /\ req[t] = "link" /\ UNCHANGED entryVars /\ db[t] # "none"
      BY <2>2, <2>6 DEF Link, Shape, NotQueued, Waiting, Running, Left
    <3>2. CallDone(t, "link") \/ CallFails(t, "link")
      BY <2>6 DEF Link
    <3>3. /\ CallDone(t, "link") /\ late' = late
          /\ cache'[t] = db[t] /\ db'[t] = db[t] /\ t \in linked'
      BY <1>1, <1>6, <2>2, <3>1, <3>2, CallOfUndisturbed DEF Shape, Write, Creation, After
    <3>4. req'[t] = "done"
      BY <1>1, <1>6, <2>2, <2>6, <3>1
      DEF Link, Answer, Typed, Shape, CallFails, CallRefused, CallLost, Lingers, Fault, Accepts,
          Creation
    <3>5. Waiting(t)' \/ Running(t)' \/ Left(t)'
      BY <1>1, <2>2, <3>1, <3>3
      DEF Shape, NotQueued, Waiting, Running, Left, entryVars
    <3> QED BY <1>1, <2>2, <3>1, <3>3, <3>4, <3>5 DEF Shape, entryVars
  <2>7. CASE MarkFailed(t) \/ Unlink(t)
    BY <2>2, <2>7 DEF MarkFailed, Unlink, Shape
  <2> QED BY <2>3, <2>4, <2>5, <2>6, <2>7 DEF Arrive, Handle, RequestStep
<1> QED BY <1>5, <1>6, LocalStep

(* So do the services, which only hurt tasks, and the death of the         *)
(* process, which hurts all that is in flight.                             *)
LEMMA OtherShape ==
    ASSUME IInv, NEW S \in SUBSET Task, ShapesOf(S), Services \/ Die \/ UNCHANGED vars
    PROVE  ShapesOf(S)'
<1>1. CASE UNCHANGED vars
  BY <1>1, StutterLocal, GlobalStep
<1>2. CASE Die
  <2>1. ASSUME NEW x \in S, x \notin disturbed'
        PROVE  Shape(x)'
    <3>1. Untouched(x)
      BY <1>2, <2>1, DeathLocal
    <3> QED BY <2>1, <3>1, UntouchedShape DEF ShapesOf
  <2> QED BY <2>1 DEF ShapesOf
<1>3. ASSUME NEW u \in late, CarryLate(u), Services
      PROVE  ShapesOf(S)'
  <2>1. (u.task \in S => u.task \in disturbed) /\ disturbed \subseteq disturbed'
    BY <1>3, LateLocal DEF ShapesOf, Shape, CarryLate, Fault, faultVars
  <2> QED BY <1>3, <2>1, LateLocal, LocalStep
<1>4. ASSUME NEW t \in Task, Expire(t), Services
      PROVE  ShapesOf(S)'
  BY <1>4, ExpireLocal, LocalStep
<1> QED BY <1>1, <1>2, <1>3, <1>4 DEF Services, StoreStep

(* So does the goroutine of an attempt.                                    *)
LEMMA AttemptShape ==
    ASSUME IInv, NEW S \in SUBSET Task, ShapesOf(S), NEW t \in Task, NEW a \in Attempt,
           AttemptStep(t, a),
           UNCHANGED <<requestVars, controlVars, crashes>>
    PROVE  ShapesOf(S)'
<1>1. /\ Typed /\ UNCHANGED <<attempts, req, cancel, purged>>
      /\ exec[t][a] # "off"
      /\ \E stage \in Stage : exec' = [exec EXCEPT ![t] = [@ EXCEPT ![a] = stage]]
  BY TypesOfState
  DEF IInv, AttemptStep, SetRunning, Predict, Report, Finish, Advance, Stage, requestVars,
      controlVars
<1>3. \/ \E w \in Write : CallDone(t, w) \/ CallFails(t, w)
      \/ UNCHANGED recordVars /\ (disturbed' = disturbed \/ disturbed' = disturbed \cup {t})
  BY DEF AttemptStep, SetRunning, Predict, Report, Finish, Fault, faultVars, Write, Creation
<1>5. \A x \in Task \ {t} : Untouched(x)
  BY AttemptLocal
<1>6. ASSUME t \in S, t \notin disturbed'
      PROVE  Shape(t)'
  <2>1. t \notin disturbed
    BY <1>3, <1>6 DEF CallDone, CallFails, CallRefused, CallLost, Lingers, Fault, faultVars
  <2>2. Shape(t)
    BY <1>6, <2>1 DEF ShapesOf
  <2>3. Running(t) /\ a = 1 /\ Attached(t, a) /\ db[t] # "none"
    BY <1>1, <2>2 DEF Shape, NotQueued, Waiting, Running, Left, Attached
  <2>4. ASSUME NEW w \in {"running", "succeeded", "failed"}, CallDone(t, w) \/ CallFails(t, w)
        PROVE  /\ CallDone(t, w) /\ ~CallFails(t, w) /\ late' = late
               /\ cache'[t] = After(w, db[t]) /\ db'[t] = After(w, db[t])
               /\ t \in linked' <=> t \in linked
    <3>1. w \in Write \ {"create running", "failed in database"} /\ w # "create" /\ w # "link"
      BY <2>4 DEF Write, Creation
    <3>2. /\ CallDone(t, w) /\ late' = late
          /\ cache'[t] = After(w, db[t]) /\ db'[t] = After(w, db[t])
          /\ t \in linked' <=> t \in linked
      BY <1>1, <1>6, <2>2, <2>3, <2>4, <3>1, CallOfUndisturbed DEF Shape
    <3>3. ~CallFails(t, w)
      BY <1>6, <3>2 DEF CallDone, CallFails, CallRefused, CallLost, Lingers, Fault
    <3> QED BY <3>2, <3>3
  <2>5. ASSUME NEW stage \in Stage, Advance(t, a, stage)
        PROVE  exec'[t][1] = stage /\ \A b \in Attempt : b # 1 => exec'[t][b] = "off"
    BY <1>1, <2>2, <2>3, <2>5 DEF Advance, Shape, Typed
  <2>6. CASE SetRunning(t, a)
    <3>1. /\ CallDone(t, "running") /\ late' = late
          /\ cache'[t] = "running" /\ db'[t] = "running"
          /\ t \in linked' <=> t \in linked
          /\ Advance(t, a, "predict") /\ UNCHANGED entryVars
      BY <2>4, <2>6 DEF SetRunning, After
    <3>2. exec'[t][1] = "predict" /\ \A b \in Attempt : b # 1 => exec'[t][b] = "off"
      BY <2>5, <3>1 DEF Stage
    <3>3. Running(t)'
      BY <1>1, <2>3, <3>1, <3>2 DEF Running, entryVars
    <3> QED BY <1>1, <2>2, <3>1, <3>2, <3>3 DEF Shape, entryVars
  <2>7. CASE Predict(t, a)
    <3>1. /\ UNCHANGED <<recordVars, entryVars>> /\ exec[t][1] = "predict"
          /\ \E stage \in {"report ok", "report fail"} : Advance(t, a, stage)
      BY <1>6, <2>3, <2>7 DEF Predict, Fault
    <3>2. exec'[t][1] \in {"report ok", "report fail"}
      BY <2>5, <3>1 DEF Stage
    <3>3. \A b \in Attempt : b # 1 => exec'[t][b] = "off"
      BY <2>5, <3>1 DEF Stage
    <3>4. Running(t)'
      BY <1>1, <2>3, <3>1, <3>2 DEF Running, recordVars, entryVars
    <3> QED BY <1>1, <2>2, <3>1, <3>3, <3>4 DEF Shape, recordVars, entryVars
  <2>8. CASE Report(t, a)
    <3>1. /\ \E w \in {"succeeded", "failed"} :
                CallDone(t, w) /\ cache'[t] = w /\ db'[t] = w
          /\ late' = late /\ Advance(t, a, "return ok") /\ UNCHANGED entryVars
          /\ t \in linked' <=> t \in linked
      BY <2>4, <2>8 DEF Report, After
    <3>2. exec'[t][1] = "return ok" /\ \A b \in Attempt : b # 1 => exec'[t][b] = "off"
      BY <2>5, <3>1 DEF Stage
    <3>3. Running(t)'
      BY <1>1, <2>3, <3>1, <3>2 DEF Running, entryVars
    <3> QED BY <1>1, <2>2, <3>1, <3>2, <3>3 DEF Shape, entryVars
  <2>9. CASE Finish(t, a)
    <3>1. /\ exec[t][1] = "return ok" /\ db[t] \in {"succeeded", "failed"}
          /\ queue'[t] = "gone" /\ retried' = retried /\ UNCHANGED recordVars
          /\ Advance(t, a, "off")
      BY <1>1, <1>6, <2>3, <2>9 DEF Finish, Fault, Running, Typed
    <3>2. exec'[t][1] = "off" /\ \A b \in Attempt : b # 1 => exec'[t][b] = "off"
      BY <2>5, <3>1 DEF Stage
    <3>3. Left(t)'
      BY <1>1, <2>3, <3>1, <3>2 DEF Running, Left, recordVars
    <3> QED BY <1>1, <2>2, <2>3, <3>1, <3>2, <3>3 DEF Shape, Running, recordVars
  <2> QED BY <2>6, <2>7, <2>8, <2>9 DEF AttemptStep
<1> QED BY <1>5, <1>6, LocalStep

(* So does the task processor.                                             *)
LEMMA ProcessShape ==
    ASSUME IInv, NEW S \in SUBSET Task, ShapesOf(S), NEW t \in Task, Process(t)
    PROVE  ShapesOf(S)'
<1>1. CASE \E a \in Attempt : AttemptStep(t, a)
  BY <1>1, AttemptShape DEF Process
<1>2. Typed /\ UNCHANGED <<req, cancel, purged>>
  BY TypesOfState DEF IInv, Process, requestVars, controlVars
<1>3. ASSUME Dequeue(t) \/ Deadline(t) \/ RetryDue(t) \/ RecoverLease(t)
      PROVE  ShapesOf(S)'
  <2>1. \A x \in Task \ {t} : Untouched(x)
    BY ProcessLocal
  <2>2. ASSUME t \in S, t \notin disturbed'
        PROVE  Shape(t)'
    <3>1. Shape(t)
      BY <1>3, <2>2
      DEF ShapesOf, Dequeue, Deadline, RetryDue, RecoverLease, faultVars
    <3>2. ~Deadline(t) /\ ~RetryDue(t)
      BY <2>2, <3>1 DEF Deadline, RetryDue, Shape, NotQueued, Waiting, Running, Left
    <3>3. ~RecoverLease(t)
      <4>1. SUFFICES ASSUME queue[t] = "active"
                     PROVE  \E a \in Attempt : Attached(t, a)
        BY DEF RecoverLease
      <4>2. Running(t)
        BY <3>1, <4>1 DEF Shape, NotQueued, Waiting, Running, Left
      <4>3. Attached(t, 1)
        BY <4>2 DEF Attached, Running
      <4> QED BY <1>2, <4>3 DEF Typed
    <3>4. /\ queue[t] = "pending" /\ queue'[t] = "active" /\ retried' = retried
          /\ UNCHANGED recordVars
          /\ attempts[t] = 0 /\ attempts'[t] = 1
          /\ exec' = [exec EXCEPT ![t] = [@ EXCEPT ![1] = "start"]]
      <4>1. Dequeue(t)
        BY <1>3, <3>2, <3>3
      <4>2. attempts[t] = 0
        BY <3>1, <4>1 DEF Dequeue, Shape, NotQueued, Waiting, Running, Left
      <4>3. attempts' = [attempts EXCEPT ![t] = 1]
        BY <1>2, <4>1, <4>2 DEF Dequeue, Typed
      <4>4. exec' = [exec EXCEPT ![t] = [@ EXCEPT ![1] = "start"]]
        BY <4>1, <4>2 DEF Dequeue, Advance
      <4> QED BY <1>2, <4>1, <4>2, <4>3, <4>4 DEF Dequeue, Typed
    <3>5. exec'[t][1] = "start" /\ \A b \in Attempt : b # 1 => exec'[t][b] = "off"
      BY <1>2, <3>1, <3>4 DEF Typed, Shape
    <3>6. Running(t)'
      BY <1>2, <3>1, <3>4, <3>5
      DEF Shape, NotQueued, Waiting, Running, Left, recordVars
    <3> QED BY <1>2, <3>1, <3>4, <3>5, <3>6 DEF Shape, recordVars
  <2> QED BY <2>1, <2>2, LocalStep
<1> QED BY <1>1, <1>3 DEF Process, ProcessorStep

(* So do the management handlers: only the one that deletes an entry goes  *)
(* on to mark its record.                                                  *)
LEMMA ControlShape ==
    ASSUME IInv, NEW S \in SUBSET Task, ShapesOf(S), Control
    PROVE  ShapesOf(S)'
<1>1. Typed /\ UNCHANGED <<req, attempts, exec>>
  BY TypesOfState DEF IInv, Control, requestVars, processorVars
<1>2. CASE PurgeList \/ PauseQueue \/ UnpauseQueue
  <2>1. \A x \in Task : Untouched(x)
    BY <1>2, ListOrPauseLocal
  <2> QED BY <2>1, GlobalStep
<1>3. ASSUME NEW t \in Task, CancelLookup(t)
      PROVE  ShapesOf(S)'
  <2>1. /\ UNCHANGED <<storeVars, purged>> /\ cancel' = [cancel EXCEPT ![t] = "delete"]
        /\ cancel[t] = "idle" /\ t \in linked
    BY <1>3 DEF CancelLookup, CancelGoto
  <2>2. \A x \in Task \ {t} : Untouched(x)
    BY <1>3, ControlLocal DEF CancelStep
  <2>3. ASSUME t \in S, t \notin disturbed'
        PROVE  Shape(t)'
    <3>1. Shape(t) /\ cancel'[t] = "delete" /\ UNCHANGED <<recordVars, entryVars>>
      BY <1>1, <2>1, <2>3 DEF Typed, ShapesOf, storeVars, faultVars
    <3>2. Waiting(t)' \/ Running(t)' \/ Left(t)'
      BY <1>1, <2>1, <3>1
      DEF Shape, NotQueued, Waiting, Running, Left, recordVars, entryVars
    <3> QED BY <1>1, <3>1, <3>2 DEF Shape, recordVars, entryVars
  <2> QED BY <2>2, <2>3, LocalStep
<1>4. ASSUME NEW t \in Task, CancelDelete(t)
      PROVE  ShapesOf(S)'
  <2>1. /\ UNCHANGED <<recordVars, purged>> /\ cancel[t] = "delete"
        /\ retried' = retried /\ (queue' = queue \/ queue' = [queue EXCEPT ![t] = "gone"])
        /\ disturbed' = disturbed \/ disturbed' = disturbed \cup {t}
        /\ \A x \in Task \ {t} : cancel'[x] = cancel[x]
    BY <1>1, <1>4, DeleteEffect
    DEF CancelDelete, CancelGoto, Deleted, DeleteFails, DeleteRefused, DeleteLost, Fault, faultVars,
        Typed
  <2>2. \A x \in Task \ {t} : Untouched(x)
    BY <1>4, ControlLocal DEF CancelStep
  <2>3. ASSUME t \in S, t \notin disturbed'
        PROVE  Shape(t)'
    <3>1. Shape(t)
      BY <2>1, <2>3 DEF ShapesOf
    <3>2. \/ Deletable(t) /\ queue'[t] = "gone" /\ cancel'[t] = "mark"
          \/ UNCHANGED queue /\ cancel'[t] = "idle"
      BY <1>1, <1>4, <2>3
      DEF CancelDelete, CancelGoto, Deleted, DeleteFails, DeleteRefused, DeleteLost, Fault,
          entryVars, Typed
    <3>3. Waiting(t)' \/ Running(t)' \/ Left(t)'
      BY <1>1, <2>1, <3>1, <3>2
      DEF Shape, NotQueued, Waiting, Running, Left, recordVars, Deletable
    <3>4. queue[t] # "none" /\ queue'[t] # "none"
      BY <2>1, <3>1, <3>3 DEF Shape, NotQueued, Waiting, Running, Left
    <3> QED BY <1>1, <2>1, <3>1, <3>3, <3>4 DEF Shape, recordVars
  <2> QED BY <2>2, <2>3, LocalStep
<1>5. ASSUME NEW t \in Task, CancelMark(t)
      PROVE  ShapesOf(S)'
  <2>1. /\ UNCHANGED <<entryVars, purged>> /\ cancel[t] = "mark"
        /\ CallDone(t, "canceled") \/ CallFails(t, "canceled")
        /\ \A x \in Task \ {t} : cancel'[x] = cancel[x]
    BY <1>1, <1>5 DEF CancelMark, CancelGoto, Typed
  <2>2. \A x \in Task \ {t} : Untouched(x)
    BY <1>5, ControlLocal DEF CancelStep
  <2>3. ASSUME t \in S, t \notin disturbed'
        PROVE  Shape(t)'
    <3>1. Shape(t)
      BY <2>1, <2>3
      DEF ShapesOf, CallDone, CallFails, CallRefused, CallLost, Lingers, Fault, faultVars
    <3>2. Left(t) /\ db[t] = "pending" /\ attempts[t] = 0
      BY <2>1, <3>1 DEF Shape, NotQueued, Waiting, Running, Left
    <3>3. /\ CallDone(t, "canceled") /\ late' = late
          /\ cache'[t] = "canceled" /\ db'[t] = "canceled"
          /\ t \in linked' <=> t \in linked
      <4>1. /\ "canceled" \in Write \ {"create running", "failed in database"}
            /\ After("canceled", db[t]) = "canceled"
        BY DEF Write, Creation, After
      <4>2. cache[t] = db[t] /\ db[t] # "none"
        BY <3>1, <3>2 DEF Shape
      <4> QED BY <1>1, <2>1, <2>3, <4>1, <4>2, CallOfUndisturbed
    <3>4. cancel'[t] = "ok"
      BY <1>1, <1>5, <2>3, <3>1, <3>2
      DEF CancelMark, CancelGoto, CallFails, CallRefused, CallLost, Lingers, Fault, Accepts,
          Creation, Shape, Typed
    <3>5. Left(t)'
      BY <1>1, <2>1, <3>2, <3>3, <3>4 DEF Left, entryVars
    <3> QED BY <1>1, <2>1, <3>1, <3>3, <3>5 DEF Shape, entryVars
  <2> QED BY <2>2, <2>3, LocalStep
<1>6. ASSUME NEW t \in Task, PurgeDelete(t)
      PROVE  ShapesOf(S)'
  <2>1. /\ UNCHANGED <<recordVars, cancel>>
        /\ retried' = retried /\ (queue' = queue \/ queue' = [queue EXCEPT ![t] = "gone"])
        /\ disturbed' = disturbed \/ disturbed' = disturbed \cup {t}
        /\ purged' = purged \/ purged' = purged \cup {t}
    BY <1>6, DeleteEffect
    DEF PurgeDelete, ReadLost, Deleted, DeleteFails, DeleteRefused, DeleteLost, Fault, faultVars,
        entryVars
  <2>2. \A x \in Task \ {t} : Untouched(x)
    BY <1>6, ControlLocal
  <2>3. ASSUME t \in S, t \notin disturbed'
        PROVE  Shape(t)'
    <3>1. Shape(t)
      BY <2>1, <2>3 DEF ShapesOf
    <3>2. \/ Deletable(t) /\ queue'[t] = "gone" /\ t \in purged'
          \/ UNCHANGED <<queue, purged>>
      <4>1. \/ Deleted(t) /\ purged' = purged \cup {t}
            \/ DeleteRefused(t) /\ UNCHANGED purged
            \/ UNCHANGED <<entryVars, purged>>
        BY <1>6, <2>3 DEF PurgeDelete, DeleteFails, DeleteLost, Fault
      <4> QED BY <1>1, <4>1 DEF Deleted, DeleteRefused, entryVars, Typed
    <3>3. CASE UNCHANGED <<queue, purged>>
      BY <1>1, <2>1, <3>1, <3>3 DEF Shape, NotQueued, Waiting, Running, Left, recordVars
    <3>4. CASE Deletable(t) /\ queue'[t] = "gone" /\ t \in purged'
      <4>1. Waiting(t)
        BY <3>1, <3>4 DEF Shape, NotQueued, Waiting, Running, Left, Deletable
      <4>2. Left(t)'
        BY <1>1, <2>1, <3>4, <4>1 DEF Waiting, Left, recordVars
      <4> QED BY <1>1, <2>1, <3>1, <3>4, <4>1, <4>2 DEF Shape, Waiting, recordVars
    <3> QED BY <3>2, <3>3, <3>4
  <2> QED BY <2>2, <2>3, LocalStep
<1> QED
  BY <1>2, <1>3, <1>4, <1>5, <1>6 DEF Control, ControlStep, CancelStep

(* For any of the tasks, whatever has happened to the others.              *)
LEMMA ShapesKept ==
    ASSUME IInv, NEW S \in SUBSET Task, ShapesOf(S), [Next]_vars \/ Die
    PROVE  ShapesOf(S)'
BY RequestShape, ProcessShape, ControlShape, OtherShape DEF Next, Crash

(* Every step keeps the shape of undisturbed tasks.                        *)
LEMMA UndisturbedInductive == IInv /\ UndisturbedShape /\ [Next]_vars => UndisturbedShape'
BY ShapesKept DEF UndisturbedShape

(* Every task has its shape at the start.                                  *)
LEMMA UndisturbedInitially == Init => UndisturbedShape
<1> SUFFICES ASSUME Init, NEW t \in Task PROVE Shape(t)
  BY DEF UndisturbedShape, ShapesOf
<1>1. Typed
  BY InitTyping, TypesOfState
<1>2. NotQueued(t)
  BY <1>1 DEF Init, StoreInit, RequestInit, ProcessorInit, ControlInit, NotQueued, Typed
<1> QED
  BY <1>1, <1>2 DEF Init, StoreInit, RequestInit, ProcessorInit, ControlInit, Shape

(* Every undisturbed task has its shape in every reachable state.          *)
THEOREM UndisturbedShapeHolds == Spec => []UndisturbedShape
BY UndisturbedInitially, UndisturbedInductive, IInvHolds, PTL DEF Spec

(* A canceled task that nothing hurt was never started.                    *)
THEOREM CanceledTasksNeverRan == Spec => []CanceledNeverRan
<1>1. UndisturbedShape => CanceledNeverRan
  BY DEF UndisturbedShape, ShapesOf, Shape, NotQueued, Waiting, Running, Left, CanceledNeverRan
<1> QED BY <1>1, UndisturbedShapeHolds, PTL

(* A task in shape has been started once at most.                          *)
LEMMA ShapeRunsOnce == UndisturbedShape => UndisturbedRunsOnce
<1>1. SUFFICES ASSUME UndisturbedShape, NEW t \in Task, t \notin disturbed
               PROVE  attempts[t] <= 1 /\ retried[t] = 0
  BY DEF UndisturbedRunsOnce
<1>2. Shape(t)
  BY <1>1 DEF UndisturbedShape, ShapesOf
<1>3. attempts[t] = 0 \/ attempts[t] = 1
  BY <1>2 DEF Shape, NotQueued, Waiting, Running, Left
<1>4. retried[t] = 0
  BY <1>2 DEF Shape
<1> QED BY <1>3, <1>4

(* A task that nothing hurt is predicted at most once.                     *)
THEOREM UndisturbedTasksRunOnce == Spec => []UndisturbedRunsOnce
BY ShapeRunsOnce, UndisturbedShapeHolds, PTL

(* A confirmed cancel is not written over, unless a failure hurt the task. *)
THEOREM ConfirmedCancelsHold == Spec => []ConfirmedCancelHolds
<1>1. UndisturbedShape => ConfirmedCancelHolds
  BY DEF UndisturbedShape, ShapesOf, Shape, NotQueued, Waiting, Running, Left, ConfirmedCancelHolds
<1> QED BY <1>1, UndisturbedShapeHolds, PTL

(* A task in shape that is unfinished has somebody who will move it on.    *)
LEMMA ShapeIsCarried == IInv /\ UndisturbedShape => NoOrphan
<1>1. ASSUME Typed, UndisturbedShape, NEW t \in Task, t \notin disturbed \cup purged,
             db[t] \in {"pending", "running"}
      PROVE  Carrier(t)
  <2>1. Shape(t)
    BY <1>1 DEF UndisturbedShape, ShapesOf
  <2>2. CASE Running(t)
    <3>1. Attached(t, 1)
      BY <2>2 DEF Running, Attached
    <3> QED BY <1>1, <2>2, <3>1 DEF Carrier, Running, Typed
  <2>3. CASE NotQueued(t) \/ Waiting(t) \/ Left(t)
    BY <1>1, <2>3 DEF NotQueued, Waiting, Left, Carrier
  <2> QED BY <2>1, <2>2, <2>3 DEF Shape
<1> QED BY <1>1, TypesOfState DEF IInv, NoOrphan

(* Every unfinished record of an unhurt task has a handler, an entry or a  *)
(* worker that will move it on, unless delete-all-pending removed it.      *)
THEOREM NoTaskIsForgotten == Spec => []NoOrphan
BY ShapeIsCarried, IInvHolds, UndisturbedShapeHolds, PTL

-----------------------------------------------------------------------------
(* AsyncAgent implements TaskLifecycle.                                    *)

(* Failures that hit tasks are a legal step of the lifecycle.              *)
LEMMA HurtGrows ==
    ASSUME TypeOK', disturbed \subseteq disturbed'
    PROVE  Lifecycle!Hurt
BY DEF TypeOK, AgentTypeOK, StoreTypeOK, FaultTypeOK, Lifecycle!Hurt

(* A step that leaves the status column alone is a step of the lifecycle.  *)
LEMMA HurtOrSame ==
    ASSUME TypeOK', disturbed \subseteq disturbed', db' = db
    PROVE  [Lifecycle!LifecycleNext]_<<db, disturbed>>
BY HurtGrows DEF Lifecycle!LifecycleNext

(* One row changes: the task is hurt, or it makes a legal move.            *)
LEMMA RowRefines ==
    ASSUME TypeOK', NEW t \in Task, disturbed \subseteq disturbed',
           db' = [db EXCEPT ![t] = db'[t]],
           t \in disturbed \/ <<db[t], db'[t]>> \in Lifecycle!Move
    PROVE  [Lifecycle!LifecycleNext]_<<db, disturbed>>
<1>1. Lifecycle!Hurt
  BY HurtGrows
<1>2. db'[t] \in Lifecycle!LifecycleStatus
  BY DEF TypeOK, AgentTypeOK, StoreTypeOK, RecordTypeOK, Status, Lifecycle!LifecycleStatus
<1>3. CASE t \in disturbed
  BY <1>1, <1>2, <1>3 DEF Lifecycle!LifecycleNext, Lifecycle!Stray
<1>4. CASE <<db[t], db'[t]>> \in Lifecycle!Move
  <2>1. Lifecycle!Progress(t)
    BY <1>4 DEF Lifecycle!Progress
  <2> QED BY <1>1, <2>1 DEF Lifecycle!LifecycleNext
<1> QED BY <1>3, <1>4

(* A webhook call leaves a row alone or does what it asks for.             *)
LEMMA CallMoves ==
    ASSUME Typed, NEW t \in Task, NEW w, CallDone(t, w) \/ CallFails(t, w)
    PROVE  db'[t] \in {db[t], After(w, db[t])}
BY DEF CallDone, CallFails, CallRefused, CallLost, Carry, Typed, recordVars

(* The row of a task that has its shape moves as TaskLifecycle allows.     *)
LEMMA ShapeMoves ==
    ASSUME IInv, NEW t \in Task, Shape(t), [Next]_vars
    PROVE  db'[t] = db[t] \/ <<db[t], db'[t]>> \in Lifecycle!Move
<1> DEFINE Moves == db'[t] = db[t] \/ <<db[t], db'[t]>> \in Lifecycle!Move
<1>1. Typed
  BY TypesOfState DEF IInv
<1>2. Untouched(t) \/ db' = db => Moves
  BY DEF Untouched
<1>3. ASSUME NEW x \in Task, Arrive(x) \/ Handle(x)
      PROVE  Moves
  <2>1. CASE x # t
    BY <1>2, <1>3, <2>1, RequestLocal
  <2>2. CASE Create(t)
    <3>1. db[t] = "none"
      BY <2>2 DEF Create, IInv, NotYetEnqueued, Shape, NotQueued, Waiting, Running, Left
    <3> QED BY <1>1, <2>2, <3>1, CallMoves DEF Create, After, Lifecycle!Move
  <2>3. CASE Link(t)
    BY <1>1, <2>3, CallMoves DEF Link, After
  <2>4. CASE Admit(t) \/ Enqueue(t) \/ Unlink(t)
    BY <1>2, <2>4 DEF Admit, Enqueue, Unlink, recordVars
  <2>5. ~MarkFailed(t)
    BY DEF MarkFailed, Shape
  <2> QED BY <1>3, <2>1, <2>2, <2>3, <2>4, <2>5 DEF Arrive, Handle, RequestStep
<1>4. ASSUME NEW x \in Task, Process(x)
      PROVE  Moves
  <2>1. CASE x # t
    BY <1>2, <1>4, <2>1, ProcessLocal
  <2>2. ASSUME NEW a \in Attempt, SetRunning(t, a)
        PROVE  Moves
    <3>1. db[t] = "pending"
      BY <1>1, <2>2 DEF SetRunning, Shape, NotQueued, Waiting, Running, Left
    <3> QED BY <1>1, <2>2, <3>1, CallMoves DEF SetRunning, After, Lifecycle!Move
  <2>3. ASSUME NEW a \in Attempt, Report(t, a)
        PROVE  Moves
    <3>1. db[t] = "running"
      BY <1>1, <2>3 DEF Report, Shape, NotQueued, Waiting, Running, Left
    <3> QED BY <1>1, <2>3, <3>1, CallMoves DEF Report, After, Lifecycle!Move
  <2>4. ASSUME \/ Dequeue(t) \/ Deadline(t) \/ RetryDue(t) \/ RecoverLease(t)
               \/ \E a \in Attempt : Predict(t, a) \/ Finish(t, a)
        PROVE  Moves
    BY <1>2, <2>4
    DEF Dequeue, Deadline, RetryDue, RecoverLease, Predict, Finish, recordVars
  <2> QED BY <1>4, <2>1, <2>2, <2>3, <2>4 DEF Process, ProcessorStep, AttemptStep
<1>5. CASE Control
  <2>1. ASSUME NEW x \in Task, CancelMark(x)
        PROVE  Moves
    <3>1. CASE x # t
      BY <1>2, <1>5, <2>1, <3>1, ControlLocal DEF CancelStep
    <3>2. CASE x = t
      <4>1. db[t] = "pending"
        BY <2>1, <3>2 DEF CancelMark, Shape, NotQueued, Waiting, Running, Left
      <4> QED BY <1>1, <2>1, <3>2, <4>1, CallMoves DEF CancelMark, After, Lifecycle!Move
    <3> QED BY <3>1, <3>2
  <2>2. ASSUME \/ PurgeList \/ PauseQueue \/ UnpauseQueue
               \/ \E x \in Task : CancelLookup(x) \/ CancelDelete(x) \/ PurgeDelete(x)
        PROVE  Moves
    BY <1>2, <2>2
    DEF PurgeList, PauseQueue, UnpauseQueue, CancelLookup, CancelDelete, PurgeDelete, storeVars,
        recordVars
  <2> QED BY <1>5, <2>1, <2>2 DEF Control, ControlStep, CancelStep
<1>6. CASE Services
  <2>1. ASSUME NEW u \in late, CarryLate(u)
        PROVE  Moves
    BY <1>2, <1>6, <2>1, LateLocal DEF Shape
  <2>2. ASSUME NEW x \in Task, Expire(x)
        PROVE  Moves
    BY <1>2, <2>2 DEF Expire
  <2> QED BY <1>6, <2>1, <2>2 DEF Services, StoreStep
<1>7. CASE Crash \/ UNCHANGED vars
  BY <1>2, <1>7 DEF Crash, Die, vars, storeVars, recordVars
<1> QED BY <1>3, <1>4, <1>5, <1>6, <1>7 DEF Next

(* Failures only ever hit more tasks.                                      *)
LEMMA DisturbedGrows ==
    ASSUME [Next]_vars
    PROVE  disturbed \subseteq disturbed'
<1>1. ASSUME NEW t \in Task, Arrive(t) \/ Handle(t)
      PROVE  disturbed \subseteq disturbed'
  BY <1>1
  DEF Arrive, Handle, Admit, ReadLost, RequestStep, Create, Enqueue, MarkFailed, Link, Unlink,
      CallDone, CallFails, CallRefused, CallLost, Lingers, Enqueued, EnqueueLost, Deleted,
      DeleteFails, DeleteRefused, DeleteLost, Fault, faultVars
<1>2. ASSUME NEW t \in Task, Process(t)
      PROVE  disturbed \subseteq disturbed'
  BY <1>2
  DEF Process, ProcessorStep, Dequeue, Deadline, RetryDue, RecoverLease, AttemptStep, SetRunning,
      Predict, Report, Finish, CallDone, CallFails, CallRefused, CallLost, Lingers, Fault, faultVars
<1>3. CASE Control
  BY <1>3
  DEF Control, ControlStep, CancelStep, CancelLookup, CancelDelete, CancelMark, PurgeDelete,
      PurgeList, PauseQueue, UnpauseQueue, ReadLost, CallDone, CallFails, CallRefused, CallLost,
      Lingers, Deleted, DeleteFails, DeleteRefused, DeleteLost, Fault, storeVars, faultVars
<1>4. CASE Services \/ Crash \/ UNCHANGED vars
  BY <1>4 DEF Services, StoreStep, CarryLate, Expire, Fault, Crash, Die, vars, storeVars, faultVars
<1> QED BY <1>1, <1>2, <1>3, <1>4 DEF Next

(* Where one task at most is touched, one row at most changes.             *)
LEMMA OneRow ==
    ASSUME Typed, TypeOK', NEW t \in Task, \A x \in Task \ {t} : db'[x] = db[x]
    PROVE  db' = [db EXCEPT ![t] = db'[t]]
BY DEF Typed, TypeOK, AgentTypeOK, StoreTypeOK, RecordTypeOK

(* A step of the agent changes one row at most.                            *)
LEMMA StepIsLocal ==
    ASSUME IInv, [Next]_vars
    PROVE  db' = db \/ \E t \in Task : \A x \in Task \ {t} : db'[x] = db[x]
<1>1. ASSUME NEW t \in Task, \A x \in Task \ {t} : Untouched(x)
      PROVE  \A x \in Task \ {t} : db'[x] = db[x]
  BY <1>1 DEF Untouched
<1>2. CASE Services
  <2>1. ASSUME NEW u \in late, CarryLate(u)
        PROVE  \E t \in Task : \A x \in Task \ {t} : db'[x] = db[x]
    BY <1>1, <1>2, <2>1, LateLocal
  <2> QED BY <1>2, <2>1 DEF Services, StoreStep, Expire
<1>3. CASE Control
  <2>1. CASE PurgeList \/ PauseQueue \/ UnpauseQueue
    BY <2>1 DEF PurgeList, PauseQueue, UnpauseQueue, storeVars, recordVars
  <2> QED BY <1>1, <1>3, <2>1, ControlLocal DEF Control, ControlStep
<1>4. CASE Crash \/ UNCHANGED vars
  BY <1>4 DEF Crash, Die, vars, storeVars, recordVars
<1> QED BY <1>1, <1>2, <1>3, <1>4, RequestLocal, ProcessLocal DEF Next

(* Every step of the agent is a step of the lifecycle.                     *)
LEMMA StepRefines ==
    ASSUME IInv, TypeOK', UndisturbedShape, [Next]_vars
    PROVE  [Lifecycle!LifecycleNext]_<<db, disturbed>>
<1>1. Typed /\ disturbed \subseteq disturbed'
  BY TypesOfState, DisturbedGrows DEF IInv
<1>2. ASSUME NEW t \in Task, \A x \in Task \ {t} : db'[x] = db[x]
      PROVE  [Lifecycle!LifecycleNext]_<<db, disturbed>>
  <2>1. db' = [db EXCEPT ![t] = db'[t]]
    BY <1>1, <1>2, OneRow
  <2>2. CASE db'[t] = db[t]
    <3>1. db' = db
      BY <1>1, <2>1, <2>2 DEF Typed
    <3> QED BY <1>1, <3>1, HurtOrSame
  <2>3. CASE db'[t] # db[t]
    <3>1. t \in disturbed \/ <<db[t], db'[t]>> \in Lifecycle!Move
      BY <2>3, ShapeMoves DEF UndisturbedShape, ShapesOf
    <3> QED BY <1>1, <2>1, <3>1, RowRefines
  <2> QED BY <2>2, <2>3
<1> QED BY <1>1, <1>2, StepIsLocal, HurtOrSame

(* The agent keeps the promise of TaskLifecycle: the status column of a    *)
(* task that nothing hurt is created pending, runs once, ends once, and is *)
(* canceled only while pending.                                            *)
THEOREM AgentRefinesLifecycle == Spec => LifecycleHolds
<1>1. Init => Lifecycle!LifecycleInit
  BY DEF Init, StoreInit, Lifecycle!LifecycleInit
<1>2. IInv /\ IInv' /\ UndisturbedShape /\ [Next]_vars
      => [Lifecycle!LifecycleNext]_Lifecycle!lifecycleVars
  BY StepRefines DEF IInv, Lifecycle!lifecycleVars
<1> QED
  BY <1>1, <1>2, IInvHolds, UndisturbedShapeHolds, PTL
  DEF Spec, LifecycleHolds, Lifecycle!LifecycleSpec

-----------------------------------------------------------------------------
(* The client learns the id only of a task that has a record, an entry and *)
(* a QueueID to cancel it by (v1.go:146-158).                              *)
THEOREM AcceptedTasksAreLinked == Spec => []AcceptedIsLinked
<1>1. Init => HandlerKnows
  BY DEF Init, RequestInit, HandlerKnows
<1>2. IInv /\ HandlerKnows /\ [Next]_vars => HandlerKnows'
  BY HandlerStep
<1>3. HandlerKnows /\ UndisturbedShape => AcceptedIsLinked
  BY DEF HandlerKnows, UndisturbedShape, ShapesOf, Shape, AcceptedIsLinked
<1> QED BY <1>1, <1>2, <1>3, IInvHolds, UndisturbedShapeHolds, PTL DEF Spec

=============================================================================
