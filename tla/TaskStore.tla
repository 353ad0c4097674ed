----------------------------- MODULE TaskStore -----------------------------
(***************************************************************************)
(* What every part of the serving agent shares: the task records kept by   *)
(* the webhook service (a redis record that may expire, and a database     *)
(* row) and the asynq task queue kept in redis.  Both live outside src/;   *)
(* they are modelled from the way platform/webhook.go, worker/predict.go   *)
(* and worker/distributor.go call them.                                    *)
(*                                                                         *)
(* A call is one atomic step of its caller.  It succeeds, is refused, or   *)
(* is lost: the caller sees an error (SendRequest gave up) although the    *)
(* service may still carry the write out, at once or much later.  As       *)
(* SendRequest repeats a request that got no answer, a write may also be   *)
(* carried out once more after its call has succeeded (WebhookClient).     *)
(***************************************************************************)
EXTENDS Integers, FiniteSets

CONSTANTS
    Task,       \* the ids asyncPredict draws (uuid.New)
    MaxRetry,   \* asynq.MaxRetry(1) in asyncPredict
    MaxQueueSize,  \* MAX_QUEUE_SIZE, also the page size of every listing
    MaxFaults   \* bound of the model: lost calls, panics and expired records

ASSUME TaskStoreAssumption ==
    /\ IsFiniteSet(Task)
    /\ MaxRetry \in Nat
    /\ MaxQueueSize \in Nat
    /\ MaxFaults \in Nat

Status == {"pending", "running", "succeeded", "failed", "canceled"}

Terminal == {"succeeded", "failed", "canceled"}

(* The writes the agent asks for: CreateNewTask for an asynchronous and    *)
(* for a synchronous prediction, the UpdateTaskInfo that records the       *)
(* QueueID, one per status, and the DatabaseOnly one.                      *)
Creation == {"create", "create running"}

Write == Creation \cup {"link", "running", "succeeded", "failed", "canceled",
                      "failed in database"}

QueueState == {"none", "pending", "active", "retry", "archived", "gone"}

VARIABLES
    cache,      \* status in the redis record of a task, "none" when there is none
    db,         \* status in the database row of a task
    linked,     \* tasks whose record holds a QueueID
    late,       \* copies of calls the service has still to carry out
    queue,      \* where asynq keeps the task's queue entry
    retried,    \* the entry's retry count
    paused,     \* the queue is paused
    faults,     \* lost calls so far
    disturbed   \* history: tasks hit by a failure, a timeout or a crash

recordVars == <<cache, db, linked, late>>
entryVars == <<queue, retried>>
faultVars == <<faults, disturbed>>
storeVars == <<recordVars, entryVars, paused, faultVars>>

LateCall == [id : 1..MaxFaults, task : Task, write : Write]

RecordTypeOK ==
    /\ cache \in [Task -> Status \cup {"none"}]
    /\ db \in [Task -> Status \cup {"none"}]
    /\ linked \subseteq Task
    /\ late \subseteq LateCall

EntryTypeOK ==
    /\ queue \in [Task -> QueueState]
    /\ retried \in [Task -> 0..MaxRetry]

FaultTypeOK ==
    /\ faults \in 0..MaxFaults
    /\ disturbed \subseteq Task

StoreTypeOK == RecordTypeOK /\ EntryTypeOK /\ paused \in BOOLEAN /\ FaultTypeOK

StoreInit ==
    /\ cache = [t \in Task |-> "none"]
    /\ db = [t \in Task |-> "none"]
    /\ linked = {}
    /\ late = {}
    /\ queue = [t \in Task |-> "none"]
    /\ retried = [t \in Task |-> 0]
    /\ paused = FALSE
    /\ faults = 0
    /\ disturbed = {}

-----------------------------------------------------------------------------
(* The webhook service.                                                    *)

Fault(t) ==
    /\ faults < MaxFaults
    /\ faults' = faults + 1
    /\ disturbed' = disturbed \cup {t}

(* A read that fails costs a fault too, but leaves every task alone.       *)
ReadLost ==
    /\ faults < MaxFaults
    /\ faults' = faults + 1
    /\ UNCHANGED disturbed

(* An update of a record that has expired is an error, a DatabaseOnly one  *)
(* is not.                                                                 *)
Accepts(t, w) == w \in Creation \cup {"failed in database"} \/ cache[t] # "none"

(* An update with an empty status keeps the old one.                       *)
After(w, old) ==
    CASE w = "create" -> "pending"
      [] w = "create running" -> "running"
      [] w = "link" -> old
      [] w = "failed in database" -> "failed"
      [] OTHER -> w

(* A create replaces the record, and with it the QueueID.                  *)
Carry(t, w) ==
    /\ db' = [db EXCEPT ![t] = After(w, @)]
    /\ cache' = IF w = "failed in database" THEN cache
                ELSE [cache EXCEPT ![t] = After(w, @)]
    /\ linked' = CASE w = "link" -> linked \cup {t}
                   [] w \in Creation -> linked \ {t}
                   [] OTHER -> linked

(* An attempt of SendRequest got no answer; the service may still hold its *)
(* copy of the write.                                                      *)
Lingers(t, w) ==
    /\ Fault(t)
    /\ late' = late \cup {[id |-> faults', task |-> t, write |-> w]}

CallDone(t, w) ==
    /\ Accepts(t, w)
    /\ Carry(t, w)
    /\ UNCHANGED <<late, faultVars>> \/ Lingers(t, w)

CallRefused(t, w) ==
    /\ ~Accepts(t, w)
    /\ UNCHANGED <<recordVars, faultVars>>

(* SendRequest reports an error: the call never arrived, or it arrived and *)
(* only its answer was too late or could not be read.                      *)
CallLost(t, w) ==
    /\ (Fault(t) /\ UNCHANGED late) \/ Lingers(t, w)
    /\ UNCHANGED <<cache, db, linked>>

CallFails(t, w) == CallRefused(t, w) \/ CallLost(t, w)

(* The service gets to a call its client has given up on; a second copy of *)
(* it may remain.                                                          *)
CarryLate(u) ==
    /\ u \in late
    /\ \/ late' = late \ {u} /\ UNCHANGED faultVars
       \/ UNCHANGED late /\ Fault(u.task)
    /\ IF Accepts(u.task, u.write)
       THEN Carry(u.task, u.write)
       ELSE UNCHANGED <<cache, db, linked>>
    /\ UNCHANGED <<entryVars, paused>>

(* The redis record of a task expires, its database row stays.             *)
Expire(t) ==
    /\ cache[t] # "none"
    /\ Fault(t)
    /\ cache' = [cache EXCEPT ![t] = "none"]
    /\ UNCHANGED <<db, linked, late, entryVars, paused>>

StoreStep == (\E u \in late : CarryLate(u)) \/ (\E t \in Task : Expire(t))

-----------------------------------------------------------------------------
(* The asynq queue.                                                        *)

(* Scheduled + Pending + Retry of Inspector.GetQueueInfo; the agent never  *)
(* enqueues with a delay, so no entry is ever scheduled.                   *)
QueueSize == Cardinality({t \in Task : queue[t] \in {"pending", "retry"}})

Enqueued(t) ==
    /\ queue' = [queue EXCEPT ![t] = "pending"]
    /\ UNCHANGED <<retried, faultVars>>

EnqueueLost(t) ==
    /\ Fault(t)
    /\ queue' \in {queue, [queue EXCEPT ![t] = "pending"]}
    /\ UNCHANGED retried

(* Inspector.DeleteTask refuses an active or unknown entry.                *)
Deletable(t) == queue[t] \in {"pending", "retry", "archived"}

Deleted(t) ==
    /\ Deletable(t)
    /\ queue' = [queue EXCEPT ![t] = "gone"]
    /\ UNCHANGED <<retried, faultVars>>

DeleteRefused(t) ==
    /\ ~Deletable(t)
    /\ UNCHANGED <<entryVars, faultVars>>

DeleteLost(t) ==
    /\ Fault(t)
    /\ \/ UNCHANGED queue
       \/ Deletable(t) /\ queue' = [queue EXCEPT ![t] = "gone"]
    /\ UNCHANGED retried

DeleteFails(t) == DeleteRefused(t) \/ DeleteLost(t)

(* What the Inspector lists of the entries in one state: the first page of *)
(* them, or nothing when they cannot be read.  The agent logs the error    *)
(* and goes on as if no entry were in that state, which hurts those that   *)
(* are.                                                                    *)
Page(state) ==
    LET entries == {t \in Task : queue[t] = state}
    IN  {p \in SUBSET entries :
            \/ p = entries /\ Cardinality(p) <= MaxQueueSize
            \/ Cardinality(entries) > MaxQueueSize /\ Cardinality(p) = MaxQueueSize}

ListsEntries(state, found) ==
    \/ found \in Page(state) /\ UNCHANGED faultVars
    \/ /\ found = {}
       /\ faults < MaxFaults
       /\ faults' = faults + 1
       /\ disturbed' = disturbed \cup {t \in Task : queue[t] = state}

HandleFailed_Uncounted(t) ==  \* mutated form: the retry is not counted
    /\ queue' = [queue EXCEPT ![t] = IF retried[t] < MaxRetry THEN "retry" ELSE "archived"]
    /\ UNCHANGED retried

(* A failed attempt is retried until the retry count is used up, then the  *)
(* entry is archived.                                                      *)
HandleFailed(t) ==
    IF retried[t] < MaxRetry
    THEN /\ queue' = [queue EXCEPT ![t] = "retry"]
         /\ retried' = [retried EXCEPT ![t] = @ + 1]
    ELSE /\ queue' = [queue EXCEPT ![t] = "archived"]
         /\ UNCHANGED retried

=============================================================================
