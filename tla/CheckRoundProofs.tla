-------------------------- MODULE CheckRoundProofs --------------------------
(***************************************************************************)
(* A round of the check in which nothing fails settles every lost task,    *)
(* for every number of tasks and whatever else the agent does meanwhile.   *)
(***************************************************************************)
EXTENDS CheckRound, AgentWithCheckProofs

(* While a row is unfinished the redis record, if there is one, agrees.    *)
CacheAgrees == \A t \in Task : db[t] \in Unsettled => cache[t] \in {"none", db[t]}

(* Nobody comes back to a lost task.                                       *)
LostRests == \A t \in lost : AtRest(t)

OnList(t) == t \in listed[db[t]]

(* The round has still to come to the lost task t, and will condemn it.    *)
Ahead(t) ==
    /\ phase # "idle"
    /\ phase = "records running" /\ db[t] = "pending" => t \in listed["pending"]
    /\ phase \in {"sleep", "entries pending", "entries retry", "entries active", "check"} => OnList(t)
    /\ phase \in {"fail", "fail in database"} => target = t \/ OnList(t)
    /\ phase \in {"entries pending", "entries retry", "entries active", "check", "fail",
                  "fail in database"} => t \notin unfinished
    /\ phase = "fail" /\ target = t => cache[t] # "none"

RoundOn == \A t \in lost : db[t] \in Terminal \/ (db[t] \in Unsettled /\ Ahead(t))

RoundInv ==
    /\ AgentAndCheckTyped
    /\ lost \subseteq Task
    /\ CacheAgrees /\ LostRests /\ RoundOn

-----------------------------------------------------------------------------
(* What happens to records.                                                *)

(* Whatever step is taken, a record changes by a write the service accepts *)
(* or by expiring.                                                         *)
LEMMA RecordsChange ==
    ASSUME AgentAndCheckTyped, [CheckedNext]_allVars
    PROVE  \/ UNCHANGED <<cache, db>>
           \/ \E t \in Task, w \in Write : Accepts(t, w) /\ Carry(t, w)
           \/ \E t \in Task : cache' = [cache EXCEPT ![t] = "none"] /\ db' = db
<1>1. late \subseteq LateCall
  BY DEF AgentAndCheckTyped, IInv, TypeOK, AgentTypeOK, StoreTypeOK, RecordTypeOK
<1>2. CASE UNCHANGED recordVars
  BY <1>2 DEF recordVars
<1>3. CASE \E t \in Task, w \in Write : CallDone(t, w) \/ CallFails(t, w)
  BY <1>3, CallEffect
<1>4. CASE \E u \in late : CarryLate(u)
  BY <1>1, <1>4 DEF CarryLate, LateCall
<1>5. CASE \E t \in Task : Expire(t)
  BY <1>5 DEF Expire
<1> QED BY <1>2, <1>3, <1>4, <1>5, WhoWritesRecords DEF RecordWrites

(* The two copies of an unfinished record never disagree: only the update  *)
(* that leaves redis alone (DatabaseOnly) can set them apart, and that one *)
(* writes a terminal status.                                               *)
LEMMA AgreementKept ==
    ASSUME AgentAndCheckTyped, CacheAgrees, [CheckedNext]_allVars
    PROVE  CacheAgrees'
<1>1. /\ cache \in [Task -> Status \cup {"none"}] /\ db \in [Task -> Status \cup {"none"}]
  BY DEF AgentAndCheckTyped, IInv, TypeOK, AgentTypeOK, StoreTypeOK, RecordTypeOK
<1>2. CASE UNCHANGED <<cache, db>>
  BY <1>2 DEF CacheAgrees
<1>3. ASSUME NEW t \in Task, NEW w \in Write, Accepts(t, w), Carry(t, w)
      PROVE  CacheAgrees'
  <2>1. \A x \in Task \ {t} : cache'[x] = cache[x] /\ db'[x] = db[x]
    BY <1>1, <1>3 DEF Carry
  <2>2. db'[t] = After(w, db[t])
    BY <1>1, <1>3 DEF Carry
  <2>3. CASE w = "failed in database"
    BY <2>1, <2>2, <2>3 DEF After, CacheAgrees, Unsettled
  <2>4. CASE w # "failed in database"
    <3>1. cache'[t] = After(w, cache[t])
      BY <1>1, <1>3, <2>4 DEF Carry
    <3>2. CASE w = "link"
      BY <2>1, <2>2, <3>1, <3>2 DEF After, CacheAgrees
    <3>3. CASE w # "link"
      BY <2>1, <2>2, <2>4, <3>1, <3>3 DEF After, CacheAgrees
    <3> QED BY <3>2, <3>3
  <2> QED BY <2>3, <2>4
<1>4. ASSUME NEW t \in Task, cache' = [cache EXCEPT ![t] = "none"], db' = db
      PROVE  CacheAgrees'
  BY <1>1, <1>4 DEF CacheAgrees
<1> QED BY <1>2, <1>3, <1>4, RecordsChange

-----------------------------------------------------------------------------
(* What may become of a lost task while nothing fails.                     *)

NothingFails == faults' = faults /\ crashes' = crashes

(* It stays at rest; its record stays as it is or is settled for good.     *)
Rests(x) ==
    /\ AtRest(x)'
    /\ (db'[x] = db[x] /\ cache'[x] = cache[x]) \/ db'[x] \in Terminal

(* A call that does not fail is carried out or refused, and leaves no copy *)
(* behind.                                                                 *)
LEMMA CallWithoutFault ==
    ASSUME FaultTypeOK, NEW t \in Task, NEW w, CallDone(t, w) \/ CallFails(t, w), faults' = faults
    PROVE  /\ late' = late
           /\ \/ CallDone(t, w) /\ Accepts(t, w) /\ Carry(t, w)
              \/ CallFails(t, w) /\ ~Accepts(t, w) /\ cache' = cache /\ db' = db
<1>1. ~Fault(t)
  BY DEF FaultTypeOK, Fault
<1> QED
  BY <1>1 DEF CallDone, CallFails, CallRefused, CallLost, Lingers, recordVars

(* So a call that writes a terminal status settles the task or leaves its  *)
(* record alone.                                                           *)
LEMMA SettlingCall ==
    ASSUME Typed, FaultTypeOK, NEW t \in Task, NEW w \in {"failed", "canceled", "failed in database"},
           CallDone(t, w) \/ CallFails(t, w), faults' = faults
    PROVE  late' = late /\ ((db'[t] = db[t] /\ cache'[t] = cache[t]) \/ db'[t] \in Terminal)
<1>1. CASE Carry(t, w)
  <2>1. db'[t] = After(w, db[t])
    BY <1>1 DEF Carry, Typed
  <2> QED BY <2>1, CallWithoutFault DEF After, Terminal
<1> QED BY <1>1, CallWithoutFault

(* A deletion takes an entry out of the queue or leaves it where it is.    *)
LEMMA DeletionOfRested ==
    ASSUME Typed, NEW t \in Task, Deleted(t) \/ DeleteFails(t),
           queue[t] \in {"none", "archived", "gone"}
    PROVE  queue'[t] \in {"none", "archived", "gone"}
BY DeleteEffect DEF Typed

(* A step that does not concern a lost task leaves it at rest.             *)
LEMMA UntouchedRests ==
    ASSUME NEW x \in Task, AtRest(x), Untouched(x), sync'[x] = sync[x]
    PROVE  Rests(x)
BY DEF AtRest, HandlerReturned, Untouched, Rests

(* What a step has to leave alone for a lost task to stay at rest.         *)
LEMMA StaysAtRest ==
    ASSUME NEW x \in Task, AtRest(x), queue'[x] \in {"none", "archived", "gone"},
           UNCHANGED <<req, sync, exec, late>>
    PROVE  AtRest(x)'
BY DEF AtRest, HandlerReturned

(* No handler and no worker comes back to it.                              *)
LEMMA AgentLeavesRested ==
    ASSUME IInv, NEW x \in Task, AtRest(x), sync' = sync, faults' = faults,
           \/ \E t \in Task : (Asleep(t) /\ Arrive(t)) \/ Handle(t) \/ Process(t)
           \/ Services
    PROVE  Rests(x)
<1>1. Typed /\ FaultTypeOK
  BY TypesOfState DEF IInv, TypeOK, AgentTypeOK, StoreTypeOK
<1>2. ASSUME NEW t \in Task, (Asleep(t) /\ Arrive(t)) \/ Handle(t) \/ Process(t)
      PROVE  Rests(x)
  <2>1. CASE t # x
    BY <1>2, <2>1, RequestLocal, ProcessLocal, UntouchedRests
  <2>2. CASE t = x
    <3>1. ~Asleep(x)
      BY DEF AtRest, HandlerReturned, Asleep, SyncDone
    <3>2. ~Handle(x)
      BY DEF AtRest, HandlerReturned, Handle, RequestStep, Create, Enqueue, MarkFailed, Link, Unlink
    <3>3. ~Process(x)
      BY DEF AtRest, Process, ProcessorStep, Dequeue, Deadline, RetryDue, RecoverLease, Attached,
             AttemptStep, SetRunning, Predict, Report, Finish
    <3> QED BY <1>2, <2>2, <3>1, <3>2, <3>3
  <2> QED BY <2>1, <2>2
<1>3. CASE Services
  <2>1. ASSUME NEW u \in late, CarryLate(u)
        PROVE  Rests(x)
    <3>1. u.task # x
      BY DEF AtRest
    <3> QED BY <1>3, <2>1, <3>1, LateLocal, UntouchedRests
  <2>2. ~ \E t \in Task : Expire(t)
    BY <1>1 DEF Expire, Fault, FaultTypeOK
  <2> QED BY <1>3, <2>1, <2>2 DEF Services, StoreStep
<1> QED BY <1>2, <1>3

(* A cancel or a bulk deletion removes an archived entry at most, and a    *)
(* cancel that is under way settles the record.                            *)
LEMMA ControlLeavesRested ==
    ASSUME IInv, NEW x \in Task, AtRest(x), sync' = sync, faults' = faults, Control
    PROVE  Rests(x)
<1>1. Typed /\ FaultTypeOK /\ UNCHANGED <<req, exec>>
  BY TypesOfState
  DEF IInv, TypeOK, AgentTypeOK, StoreTypeOK, Control, requestVars, processorVars
<1>2. CASE PurgeList \/ PauseQueue \/ UnpauseQueue
  BY <1>2, ListOrPauseLocal, UntouchedRests
<1>3. ASSUME NEW t \in Task \ {x}, CancelStep(t) \/ PurgeDelete(t)
      PROVE  Rests(x)
  BY <1>3, ControlLocal, UntouchedRests
<1>4. CASE CancelLookup(x)
  BY <1>1, <1>4, StaysAtRest
  DEF CancelLookup, storeVars, recordVars, entryVars, AtRest, Rests
<1>5. CASE CancelDelete(x) \/ PurgeDelete(x)
  <2>1. UNCHANGED recordVars
    BY <1>5 DEF CancelDelete, PurgeDelete
  <2>2. queue'[x] \in {"none", "archived", "gone"}
    BY <1>1, <1>5, DeletionOfRested DEF CancelDelete, PurgeDelete, entryVars, AtRest
  <2> QED BY <1>1, <2>1, <2>2, StaysAtRest DEF recordVars, Rests
<1>6. CASE CancelMark(x)
  <2>1. UNCHANGED entryVars /\ (CallDone(x, "canceled") \/ CallFails(x, "canceled"))
    BY <1>6 DEF CancelMark
  <2>2. late' = late /\ ((db'[x] = db[x] /\ cache'[x] = cache[x]) \/ db'[x] \in Terminal)
    BY <1>1, <2>1, SettlingCall
  <2> QED BY <1>1, <2>1, <2>2, StaysAtRest DEF entryVars, AtRest, Rests
<1> QED BY <1>2, <1>3, <1>4, <1>5, <1>6 DEF Control, ControlStep, CancelStep

(* The check only settles it or drops its archived entry.                  *)
LEMMA CheckLeavesRested ==
    ASSUME IInv, NEW x \in Task, AtRest(x), faults' = faults, Check
    PROVE  Rests(x)
<1>1. Typed /\ FaultTypeOK
  BY TypesOfState DEF IInv, TypeOK, AgentTypeOK, StoreTypeOK
<1>2. CASE WakeUp \/ (CheckReads /\ UNCHANGED <<ElsewhereThanStore, sync>>)
  <2>1. UNCHANGED <<ElsewhereThanStore, sync, recordVars, entryVars>>
    BY <1>1, <1>2, CheckReadsForm
  <2> QED
    BY <2>1, StaysAtRest
    DEF ElsewhereThanStore, requestVars, processorVars, recordVars, entryVars, AtRest, Rests
<1>3. ASSUME NEW t \in Task, t # x, CheckOne(t), UNCHANGED <<ElsewhereThanStore, sync>>
      PROVE  Rests(x)
  BY <1>1, <1>3, CheckOneForm, StoreStepLocal, UntouchedRests
<1>4. CASE CheckOne(x) /\ UNCHANGED <<ElsewhereThanStore, sync>>
  <2>1. UNCHANGED <<req, exec, sync>>
    BY <1>4 DEF ElsewhereThanStore, requestVars, processorVars
  <2>2. CASE MarkArchived(x) \/ FailMissing(x) \/ FailExpired(x)
    <3>1. /\ UNCHANGED entryVars
          /\ \E w \in {"failed", "failed in database"} : CallDone(x, w) \/ CallFails(x, w)
      BY <2>2 DEF MarkArchived, FailMissing, FailExpired, FailRecord
    <3>2. late' = late /\ ((db'[x] = db[x] /\ cache'[x] = cache[x]) \/ db'[x] \in Terminal)
      BY <1>1, <3>1, SettlingCall
    <3> QED BY <2>1, <3>1, <3>2, StaysAtRest DEF entryVars, AtRest, Rests
  <2>3. CASE DropArchived(x)
    <3>1. UNCHANGED recordVars /\ queue'[x] \in {"none", "archived", "gone"}
      BY <1>1, <2>3, DeletionOfRested DEF DropArchived, AtRest
    <3> QED BY <2>1, <3>1, StaysAtRest DEF recordVars, Rests
  <2>4. CASE \E s \in Unsettled : CheckRecord(s, x)
    <3>1. UNCHANGED <<recordVars, entryVars>>
      BY <2>4 DEF CheckRecord, UnchangedStore
    <3> QED BY <2>1, <3>1, StaysAtRest DEF recordVars, entryVars, AtRest, Rests
  <2> QED BY <1>4, <2>2, <2>3, <2>4 DEF CheckOne
<1> QED BY <1>2, <1>3, <1>4 DEF Check, CheckStep, CheckReads

(* So a lost task stays at rest, whatever step is taken.                   *)
LEMMA LostStaysAtRest ==
    ASSUME AgentAndCheckTyped, [CheckedNext]_allVars, NothingFails, NEW x \in Task, AtRest(x)
    PROVE  Rests(x)
<1>1. IInv /\ SyncTypeOK /\ FaultTypeOK /\ faults' = faults
  BY DEF AgentAndCheckTyped, IInv, TypeOK, AgentTypeOK, StoreTypeOK, NothingFails
<1>2. CASE AgentStep
  BY <1>1, <1>2, AgentLeavesRested, ControlLeavesRested DEF AgentStep
<1>3. ASSUME NEW t \in Task, Sync(t)
      PROVE  Rests(x)
  <2>1. t # x
    BY <1>3
    DEF AtRest, HandlerReturned, SyncDone, Asleep, Sync, SyncArrive, SyncStep, SyncCreate, SyncRun,
        SyncReport, SyncRead
  <2>2. Untouched(x) /\ sync'[x] = sync[x]
    BY <1>1, <1>3, <2>1, SyncForm, StoreStepLocal
  <2> QED BY <2>2, UntouchedRests
<1>4. ~Restart
  BY DEF Restart, Crash, NothingFails, AgentAndCheckTyped, IInv, TypeOK, AgentTypeOK
<1>5. CASE UNCHANGED allVars
  <2>1. Untouched(x) /\ sync'[x] = sync[x]
    BY <1>5, StutterLocal DEF allVars
  <2> QED BY <2>1, UntouchedRests
<1> QED BY <1>1, <1>2, <1>3, <1>4, <1>5, CheckLeavesRested DEF CheckedNext

-----------------------------------------------------------------------------
(* The round comes to every lost task.                                     *)

(* A record the round has still to come to, and that the step leaves as it *)
(* is.                                                                     *)
Standing(x) ==
    /\ db[x] \in Unsettled /\ db'[x] = db[x] /\ cache'[x] = cache[x]
    /\ Ahead(x) /\ AtRest(x) /\ AtRest(x)'

(* A step that is not the check's leaves the round where it is.            *)
LEMMA AheadWhileOthersStep ==
    ASSUME NEW x \in Task, Standing(x), UNCHANGED checkVars
    PROVE  Ahead(x)'
BY DEF Standing, Ahead, OnList, checkVars

(* Archived entries are handled first; the records are listed next, and    *)
(* what is lost is among them.                                             *)
LEMMA AheadWhenListed ==
    ASSUME CheckTypeOK, FaultTypeOK, NEW x \in Task, Standing(x), faults' = faults,
           \/ \E t \in Task : MarkArchived(t) \/ DropArchived(t)
           \/ ArchivedDone \/ ListRecordsStep \/ WakeUp
    PROVE  Ahead(x)'
<1>1. CASE \E t \in Task : MarkArchived(t) \/ DropArchived(t)
  <2>1. phase' \in {"archived", "drop"}
    BY <1>1 DEF MarkArchived, DropArchived
  <2> QED BY <2>1 DEF Ahead
<1>2. CASE ArchivedDone
  BY <1>2 DEF ArchivedDone, Ahead
<1>3. CASE ListRecordsStep
  <2>1. ~ReadLost
    BY DEF ReadLost, FaultTypeOK
  <2>2. CASE phase = "records pending" /\ ListRecords("pending", "records running")
    <3>1. phase' = "records running" /\ (db[x] = "pending" => x \in listed'["pending"])
      BY <2>1, <2>2 DEF ListRecords, CheckTypeOK, Unsettled
    <3> QED BY <3>1 DEF Ahead, Standing
  <2>3. CASE phase = "records running" /\ ListRecords("running", "sleep")
    <3>1. phase' = "sleep" /\ listed' = [listed EXCEPT !["running"] = {t \in Task : db[t] = "running"}]
      BY <2>1, <2>3 DEF ListRecords
    <3>2. db[x] = "pending" => x \in listed["pending"]
      BY <2>3 DEF Standing, Ahead
    <3>3. x \in listed'[db[x]]
      BY <3>1, <3>2 DEF Standing, CheckTypeOK, Unsettled
    <3> QED BY <3>1, <3>3 DEF Ahead, OnList, Standing
  <2> QED BY <1>3, <2>2, <2>3 DEF ListRecordsStep
<1>4. CASE WakeUp
  BY <1>4 DEF WakeUp, Wake, Standing, Ahead, OnList
<1> QED BY <1>1, <1>2, <1>3, <1>4

(* The listings of the queue do not find its entry.                        *)
LEMMA AheadWhenQueueIsListed ==
    ASSUME FaultTypeOK, NEW x \in Task, Standing(x), faults' = faults, ListUnfinished
    PROVE  Ahead(x)'
<1>1. PICK state \in {"pending", "retry", "active"} :
         \E next \in {"entries retry", "entries active", "check"} : ListEntries(state, next)
  BY DEF ListUnfinished
<1>2. PICK found \in SUBSET Task : ListsEntries(state, found) /\ unfinished' = unfinished \cup found
  BY <1>1 DEF ListEntries
<1>3. found \in Page(state)
  BY <1>2 DEF ListsEntries, FaultTypeOK
<1>4. x \notin found
  BY <1>3 DEF Page, Standing, AtRest
<1>5. phase \in {"entries pending", "entries retry", "entries active"}
  BY DEF ListUnfinished
<1>6. x \notin unfinished' /\ OnList(x)
  BY <1>2, <1>4, <1>5 DEF Standing, Ahead
<1>7. phase' \in {"entries retry", "entries active", "check"} /\ listed' = listed
  BY <1>1 DEF ListEntries
<1> QED BY <1>6, <1>7 DEF Ahead, OnList, Standing

(* When its record is read it is condemned, and it stays on its list while *)
(* the records of others are read.                                         *)
LEMMA AheadWhenChecked ==
    ASSUME CheckTypeOK, FaultTypeOK, CacheAgrees, NEW x \in Task, Standing(x), faults' = faults,
           NEW s \in Unsettled, NEW t \in Task, CheckRecord(s, t)
    PROVE  Ahead(x)'
<1>1. ~Fault(t)
  BY DEF Fault, FaultTypeOK
<1>2. OnList(x) /\ x \notin unfinished /\ phase = "check" /\ unfinished' = unfinished
  BY DEF CheckRecord, Standing, Ahead
<1>3. CASE t = x /\ s = db[x]
  <2>1. Missing(x) /\ cache[x] \in {"none", s}
    BY <1>2, <1>3 DEF Missing, CacheAgrees
  <2>2. \/ cache[x] = s /\ phase' = "fail" /\ target' = x
        \/ cache[x] = "none" /\ phase' = "fail in database" /\ target' = x
    BY <1>1, <1>3, <2>1 DEF CheckRecord
  <2>3. cache'[x] # "none" \/ phase' # "fail"
    BY <2>2 DEF Standing, Unsettled
  <2> QED BY <1>2, <2>2, <2>3 DEF Ahead
<1>4. CASE t # x \/ s # db[x]
  <2>1. x \in listed'[db[x]]
    BY <1>2, <1>4 DEF CheckRecord, CheckTypeOK, OnList, Standing
  <2>2. phase' \in {"check", "fail", "fail in database"}
    BY <1>2 DEF CheckRecord
  <2>3. phase' = "fail" /\ target' = x => cache[x] # "none"
    BY <1>1, <1>2 DEF CheckRecord, Unsettled
  <2> QED BY <1>2, <2>1, <2>2, <2>3 DEF Ahead, OnList, Standing
<1> QED BY <1>3, <1>4

(* The write that condemns it is carried out.                              *)
LEMMA CondemnedIsSettled ==
    ASSUME Typed, FaultTypeOK, NEW x \in Task, Standing(x), faults' = faults,
           NEW t \in Task, FailMissing(t) \/ FailExpired(t)
    PROVE  Ahead(x)'
<1>1. CASE t = x
  <2>1. PICK w \in {"failed", "failed in database"} : /\ CallDone(x, w) \/ CallFails(x, w)
                                                      /\ w = "failed" => cache[x] # "none"
    BY <1>1 DEF FailMissing, FailExpired, FailRecord, Standing, Ahead
  <2>2. Accepts(x, w)
    BY <2>1 DEF Accepts
  <2>3. Carry(x, w)
    BY <2>1, <2>2, CallWithoutFault
  <2>4. db'[x] = "failed"
    BY <2>3 DEF Carry, After, Typed, Creation
  <2> QED BY <2>4 DEF Standing, Unsettled
<1>2. CASE t # x
  <2>1. phase' = "check" /\ UNCHANGED <<listed, unfinished>>
    BY DEF FailMissing, FailExpired, FailRecord
  <2>2. OnList(x) /\ x \notin unfinished
    BY <1>2 DEF FailMissing, FailExpired, FailRecord, Standing, Ahead
  <2> QED BY <2>1, <2>2 DEF Ahead, OnList, Standing
<1> QED BY <1>1, <1>2

(* So the round does not end before it has condemned every lost task.      *)
LEMMA StaysAhead ==
    ASSUME AgentAndCheckTyped, CacheAgrees, [CheckedNext]_allVars, NothingFails,
           NEW x \in Task, Standing(x)
    PROVE  Ahead(x)'
<1>1. IInv /\ CheckTypeOK /\ FaultTypeOK /\ faults' = faults /\ Typed
  BY TypesOfState
  DEF AgentAndCheckTyped, IInv, TypeOK, AgentTypeOK, StoreTypeOK, NothingFails
<1>2. CASE UNCHANGED checkVars
  BY <1>2, AheadWhileOthersStep
<1>3. ASSUME NEW t \in Task, Sync(t)
      PROVE  UNCHANGED checkVars
  BY <1>1, <1>3, SyncForm DEF checkVars
<1>4. ~Restart
  BY DEF Restart, Crash, NothingFails, AgentAndCheckTyped, IInv, TypeOK, AgentTypeOK
<1>5. ~CheckBegin
  BY DEF CheckBegin, Standing, Ahead
<1>6. ~CheckDone
  BY DEF CheckDone, Standing, Ahead, OnList
<1>7. CASE Check
  BY <1>1, <1>5, <1>6, <1>7, AheadWhenListed, AheadWhenQueueIsListed, AheadWhenChecked,
     CondemnedIsSettled
  DEF Check, CheckStep, CheckOne
<1> QED BY <1>2, <1>3, <1>4, <1>7 DEF CheckedNext, AgentStep, allVars

-----------------------------------------------------------------------------
(* The round as a whole.                                                   *)

(* When a round begins, every lost task is ahead of it.                    *)
LEMMA RoundStarts ==
    ASSUME AgentAndCheckTyped, [CheckedNext]_allVars, NothingFails, RoundBegins
    PROVE  \A x \in Lost : AtRest(x)' /\ db'[x] \in Unsettled /\ Ahead(x)'
<1>1. CheckBegin /\ UNCHANGED <<ElsewhereThanStore, sync, recordVars, entryVars>>
  <2>1. ~Restart
    BY DEF Restart, Crash, NothingFails, AgentAndCheckTyped, IInv, TypeOK, AgentTypeOK
  <2>2. ASSUME NEW t \in Task, Sync(t)
        PROVE  phase' = phase
    BY <2>2, SyncForm DEF checkVars, AgentAndCheckTyped, IInv, TypeOK, AgentTypeOK, StoreTypeOK
  <2>3. Check
    BY <2>1, <2>2 DEF CheckedNext, AgentStep, RoundBegins, checkVars, allVars
  <2>4. CheckBegin /\ UNCHANGED <<ElsewhereThanStore, sync>>
    BY <2>3
    DEF RoundBegins, Check, CheckStep, CheckOne, WakeUp, Wake, MarkArchived, DropArchived,
        ArchivedDone, ListRecordsStep, ListUnfinished, CheckRecord, FailMissing, FailExpired,
        FailRecord, CheckDone
  <2> QED BY <2>4 DEF CheckBegin, UnchangedStore
<1>2. phase' = "archived"
  BY <1>1 DEF CheckBegin
<1>3. UNCHANGED <<req, sync, exec, late, db, queue>>
  BY <1>1 DEF ElsewhereThanStore, requestVars, processorVars, recordVars, entryVars
<1>4. ASSUME NEW x \in Lost
      PROVE  AtRest(x)' /\ db'[x] \in Unsettled
  BY <1>3, StaysAtRest DEF Lost, AtRest
<1> QED BY <1>2, <1>4 DEF Ahead

(* Nothing is lost at the start.                                           *)
LEMMA RoundInitially == RoundInit => RoundInv
<1>1. CheckedInit => AgentAndCheckTyped
  BY Initially
  DEF CheckedInit, AgentAndCheckTyped, SyncInit, SyncTypeOK, SyncStage, CheckInit, CheckTypeOK,
      Phase
<1>2. CheckedInit => CacheAgrees
  BY DEF CheckedInit, Init, StoreInit, CacheAgrees, Unsettled
<1> QED BY <1>1, <1>2 DEF RoundInit, RoundInv, LostRests, RoundOn

(* Every step of the round keeps its invariant.                            *)
LEMMA RoundInductive == RoundInv /\ [RoundNext]_roundVars => RoundInv'
<1> SUFFICES ASSUME RoundInv, [RoundNext]_roundVars
             PROVE  RoundInv'
  OBVIOUS
<1>1. [CheckedNext]_allVars /\ AgentAndCheckTyped /\ CacheAgrees
  BY DEF RoundNext, roundVars, RoundInv
<1>2. AgentAndCheckTyped' /\ CacheAgrees'
  BY <1>1, CheckedTyping, AgreementKept
<1>3. \/ lost' = {}
      \/ NothingFails /\ RoundBegins /\ lost' = Lost
      \/ NothingFails /\ lost' = lost
  BY DEF RoundNext, NoteLost, NothingFails, roundVars, allVars, vars, storeVars, faultVars
<1>4. CASE lost' = {}
  BY <1>2, <1>4 DEF RoundInv, LostRests, RoundOn
<1>5. CASE NothingFails /\ RoundBegins /\ lost' = Lost
  BY <1>1, <1>2, <1>5, RoundStarts DEF RoundInv, LostRests, RoundOn, Lost
<1>6. CASE NothingFails /\ lost' = lost
  <2>1. ASSUME NEW x \in lost
        PROVE  AtRest(x)' /\ (db'[x] \in Terminal \/ (db'[x] \in Unsettled /\ Ahead(x)'))
    <3>1. x \in Task /\ AtRest(x)
      BY DEF RoundInv, LostRests
    <3>2. Rests(x)
      BY <1>1, <1>6, <3>1, LostStaysAtRest
    <3>3. CASE db[x] \in Terminal
      BY <3>2, <3>3 DEF Rests
    <3>4. CASE db[x] \in Unsettled /\ Ahead(x)
      BY <1>1, <1>6, <3>1, <3>2, <3>4, StaysAhead DEF Rests, Standing
    <3> QED BY <3>2, <3>3, <3>4 DEF RoundInv, RoundOn, Rests
  <2> QED BY <1>2, <1>6, <2>1 DEF RoundInv, LostRests, RoundOn
<1> QED BY <1>3, <1>4, <1>5, <1>6

(* A round of the check in which nothing fails settles every task that was *)
(* lost when it began (distributor.go:177-321).                            *)
THEOREM LostTasksAreSettled == RoundSpec => []LostIsSettled
<1>1. RoundInv => LostIsSettled
  BY DEF RoundInv, RoundOn, Ahead, LostIsSettled
<1> QED BY <1>1, RoundInitially, RoundInductive, PTL DEF RoundSpec

(* Every step of a round is one of the agent with its check, so that all   *)
(* that is proved of that agent holds of the round.                        *)
THEOREM RoundIsOfTheAgent == RoundSpec => CheckedSpec
<1>1. RoundInit => CheckedInit
  BY DEF RoundInit
<1>2. [RoundNext]_roundVars => [CheckedNext]_allVars
  BY DEF RoundNext, roundVars
<1> QED BY <1>1, <1>2, PTL DEF RoundSpec, CheckedSpec

=============================================================================
