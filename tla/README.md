# Verification of the serving agent

TLA+ models of the serving agent (`src/`), the TLC runs that check them and the
proofs that TLAPS checks. The agent takes prediction requests over HTTP, runs
them at once or keeps them in an asynq queue, sends them to an ML platform and
keeps a record of each task in a webhook service. What is hard about it is that
one task lives in three places (a queue entry, a redis record with a database
row, a goroutine), that several actors move it (request handler, worker,
management handlers, asynq's own housekeeping, the periodic check, the
shutdown), and that none of the calls between them is atomic or reliable.

## Inventory

| Component | Code | State | Operations | Hard behaviour |
|---|---|---|---|---|
| async request handler | `api/v1.go` `asyncPredict` | position in the handler, reply | check size, create record, enqueue, record QueueID, undo | concurrent handlers; every call can fail or be lost after it took effect |
| synchronous prediction | `api/v1.go` `predict`, `generate` | position in the handler | create, predict, report, read back | no QueueID, in no queue; a panic leaves the record running |
| management handlers | `api/server.go` | position in a cancel; the list a bulk delete works from | cancel, delete pending, pause, unpause | race with the worker for an entry; a step of several fails |
| task processor | `worker/predict.go`, `worker/processor.go` | attempts and their goroutines | set running, predict, report; asynq: dequeue, retry, archive, deadline, lease recovery | deadlines leave goroutines behind; results lost; process dies |
| task distributor | `worker/distributor.go`, `worker/predict.go` | asynq client and inspector | enqueue, delete, list, pause | listings are one page, errors are swallowed |
| periodic check | `worker/distributor.go`, `api/server.go`, `main.go` | lists in memory between the steps | handle archived entries, fail lost records | works from stale lists, reads then writes |
| termination | `main.go`, `ShutdownDistributor` | signal loop, lists | stop, list and fail the queue, drain, close | order of the steps; the agent goes on meanwhile |
| webhook client | `platform/webhook.go` | one request and its body | create, update, read, list | retries of a used-up body, timeouts, late copies |
| platform clients | `platform/kserve.go`, `k8s.go`, `replicate.go`, `runpod.go` | a request, a stream, or a job and its polls | predict, generate | repeated executions; retries against TASK_TIMEOUT; a map shared by all polls; a stream whose reader stalls |
| webhook service, asynq | external | records; entries | | records expire |
| startup checks | `main.go` `PreCheck` | none | | compares timeouts |
| config, logs, metrics, mocks, deployment | `utils/`, ... | none shared | | |

Interaction: a request handler creates the record (webhook), puts the entry
into the queue (asynq) and adds the entry's id to the record. A worker takes the
entry, sets the record running, calls the platform and reports. A synchronous
handler does all of that itself, without a queue entry. A cancel reads the
QueueID from the record, deletes the entry, marks the record. The check compares
the list of unfinished records with the list of unfinished entries and fails the
records in the difference. The shutdown of an agent with a redis of its own
lists the queue, fails the records, deletes the entries, then waits for the
workers.

What makes each part correct: a task runs at most MaxRetry + 1 times, and once
if nothing fails; a canceled task has left the queue and never ran; a confirmed
cancel stays, and so does a result given to a waiting client; the record of a
task that nobody is working on any more does not stay pending; an id that was
handed out names an entry; an entry never runs in circles; the check leaves
healthy tasks alone, gives up only what will not run again, and settles, in one
round, what a failure left behind; every
entry, and with the check every record, settles; a shutdown loses no task of a
shared redis, settles what it could see in its own, and ends; a webhook call is carried
out exactly once unless something goes wrong; a prediction takes bounded time,
if its client reads what it has asked for, and reports no success of its own
making. The hazards behind these are listed,
at their lines, in `PROJECT.json`.

## Modules

    TaskStore        records (webhook service), queue entries (asynq), failures
      |-- AsyncPredict    POST /async/v1/predict
      |-- TaskProcessor   asynq server and ProcessTaskRunPrediction
      |-- TaskControl     cancel, delete pending, pause, unpause
      |-- StatusCheck     CheckArchivedTasks, CheckTaskStatus
      |-- SyncPredict     POST /v1/predict, /v1/generate
    AsyncAgent       AsyncPredict + TaskProcessor + TaskControl + crashes
    AgentWithCheck   AsyncAgent + SyncPredict + StatusCheck
    CheckRound       AgentWithCheck + a history of the current round
    Termination      AsyncAgent + signals, ShutdownDistributor, the two Shutdowns
    WebhookClient    the attempts inside one webhook call
    PlatformClient   one prediction on its way to one of four platforms
    TaskLifecycle    abstract: a record's status     <- AsyncAgent, AgentWithCheck
    ServiceCall      abstract: what a webhook call means   <- WebhookClient
    MC...            instances for TLC
    ...Proofs        proofs (see below)

**TaskStore.** `cache` and `db` are the status in the redis record and in the
database row, `linked` the records with a QueueID, `queue` and `retried` the
entry's state and retry count. A webhook call is one step of its caller:
`CallDone`, `CallRefused` (an update of an expired record) or `CallLost`, where
`SendRequest` gave up although the service may carry the write out at any later
time (`late`, `CarryLate`), so also after newer writes; and a write may be
carried out once more after its call succeeded, because an earlier attempt of it
was still on its way. `Enqueued`, `EnqueueLost`, `Deleted`, `DeleteRefused` and
`DeleteLost` are the same for asynq. `Page` and `ListsEntries` are the listings:
one page of MAX_QUEUE_SIZE entries, or nothing when they cannot be read. The
history variable `disturbed` holds the tasks that a failure, a missed deadline
or a crash has hit; `ReadLost` is a failure that hits no task. A second copy of
a *create* replaces the record, as its first one does; that the service does so,
and does not refuse a known id, is an assumption about a program outside `src/`.

**AsyncPredict.** `req[t]` is the next call of the handler of request `t`; each
request draws a fresh id, so requests and tasks share names. The size check
comes before the creation of the record and lets the request through when the
size cannot be read. The two error paths are `MarkFailed` (after the enqueue)
and `Unlink` (after the QueueID update).

**SyncPredict.** `sync[t]` is the same for a synchronous request. The two
handlers differ only in how the client gets its result: `predict` reads the
record back (`SyncRead`), `generate` has streamed it by then. A failed
prediction that cannot be recorded is only logged, a result that cannot be
recorded is an error to the client; a panic ends the handler with a 500.

**TaskProcessor.** `exec[t][a]` is the stage of the goroutine of attempt `a`.
The handler never looks at its context, so at `Deadline` asynq gives the entry
back and the goroutine runs on (`Attached` is the attempt asynq still listens
to). `Finish` is asynq acting on the result; `RetryDue` and `RecoverLease` are
its forwarder and recoverer. A panic of a platform client is an error return of
the attempt. asynq's automatic removal of archived entries after months is left
out, and so is its rule that a retry delay grows.

**TaskControl.** `cancel[t]` is the next call of a cancel handler; a failed one
may be asked for again. One handler per task is under way at a time.
`deleteAllPendingTasks` works through `purge`, the list it read first.

**AsyncAgent** composes them. `Crash` loses everything in memory and keeps redis
and the webhook service. **StatusCheck** keeps the lists between the steps of
the one goroutine that runs the check; `phase` is its position, `target` the
record it has decided about. **AgentWithCheck** adds it, and the synchronous
handlers, to the agent. There the sleep of TASK_TIMEOUT (`WakeUp`) means: a
request handler that was under way when its record was listed is through, and so
is a synchronous prediction unless `SlowPlatform`. For the request handler that
is an assumption about times: its remaining webhook and redis calls have
timeouts of their own, but `PreCheck` does not compare them with TASK_TIMEOUT.
Attempts are allowed to outlast the sleep, which is weaker than the code.

**CheckRound** adds the history variable `lost` to it: the tasks with an
unfinished record that, when the current round began, no handler, entry, attempt
or delayed write was left to move on (`AtRest`). They are what the check is for
(`distributor.go:248`): a record whose enqueue never happened, a deleted entry
whose cancel could not be recorded, a bulk-deleted task, a synchronous request
whose handler panicked or died. A failing call or a restart during the round
empties `lost`. `LostIsSettled` says what a round is worth: when it ends, all of
them are in a terminal status. It complements `HealthyTaskSpared`: the one says
what the check must leave alone, the other what it must not miss. `CheckedNoOrphan`
lies between them: for which tasks a check is needed at all.

**Termination** is the agent while it ends. `local` chooses between a redis of
its own and a shared one, `stopped` is SIGTSTP, `ending` the position of the
main goroutine. The workers, asynq's housekeeping and the HTTP server go on
until the step that shuts each of them down (`TakesEntries`, `TakesRequests`,
`Answering`, `Working`). `promised` is a history variable: the tasks that were
accepted when ShutdownDistributor read a complete list. asynq's pushing back of
tasks at its ShutdownTimeout is left out: that timeout is TASK_TIMEOUT too and
starts later than the deadline of any attempt it waits for.

**WebhookClient** opens one webhook call: up to `Attempts` attempts of retry-go
with one `*http.Request`. `body` is the reader that the first attempt uses up;
what a later attempt sends depends on whether net/http finds an idle connection
(`Send`) or not (`BodySpent`). `copy` is what became of each attempt's copy at
the service. It implements **ServiceCall**, the contract on which `CallDone`,
`CallRefused`, `CallLost` and `Lingers` of TaskStore rest: without trouble
exactly one copy is carried out or none, and everything else costs a fault.

**PlatformClient** follows one call of `Predict` (or KServe's `Generate`) with
the seconds it takes (`clock`) and the executions the platform may have begun
(`jobs`). `known` is the status in the outputs map that all polls of one job
share. A stream has a loop of its own: `StreamReads` takes the next message, the
end or an error from the platform, within the one timeout of its request;
`ReaderTakes` and `ReaderStalls` are the write of the message to the agent's
client, which has no deadline (`kserve.go:138`; `main.go:112` sets no
WriteTimeout). `held` counts the seconds that client kept the stream waiting. The
clients' `Longest` is what decides `SlowPlatform` in the agent's modules: that
constant is FALSE for a deployment whose TASK_TIMEOUT exceeds it and in which the
clients of `/v1/generate` read on; with a client that may stop reading it is
TRUE, whatever TASK_TIMEOUT is. `PreCheck`, the startup check, is the module's
assumption, and compares less than that.

**TaskLifecycle** says what a client may rely on: none, pending (or running, when
the client waits), running, succeeded or failed, with canceled reachable only
from pending, and terminal statuses final, for every task nothing has hurt.
`AsyncAgent` implements it with `status <- db, hurt <- disturbed`. With the check
running, canceled and bulk-deleted tasks are excepted as well, because the check
can overwrite them, and synchronous ones whose agent died under them.

Assumed of the deployment: one agent per queue (the manifests use one replica),
MODEL_NAME set (otherwise the check does nothing), MAX_QUEUE_SIZE at least 1
(PreCheck). AgentWithCheck is the agent with ENABLE_PERIODIC_CHECK on, AsyncAgent
with its default, off; Termination is without the check.

## Runs

| Run | Instance | Question |
|---|---|---|
| `core_safety` | 1 task, 2 failures, deadlines, 1 restart | do queue, record and attempts stay consistent, does an entry only move forward, and does the status follow the lifecycle? |
| `core_live` | 1 task, 1 failure, deadlines, 1 restart | is every entry worked off, and does an undisturbed task settle? |
| `check` | 1 task of either kind, 1 failure, 1 restart | does the check spare healthy tasks and settle lost ones in one round, is it needed for no others, is a task it gives up left alone, does a cancel or a result given to a client stand, does the lifecycle hold and every record settle? |
| `termination` | 2 tasks, 1 worker, 1 place in the queue, no failure, either redis | what is handed over, settled and protected when the agent ends, and does it end? |
| `webhook_client` | 1 write, 3 attempts | does a call keep its contract, is a refusal final, does it return? |
| `platform_client` | 5 clients, request timeout 3 s, streams of 3 messages, readers that stall for 2 s | how long, how often, how honest, and does it return? |
| `doc_failed_request` | 1 task, 1 failure | README.md:63 against `v1.go:147` |
| `doc_check_page` | 2 tasks, limit 1, no failure | `distributor.go:251` against the page size of the listings |
| `doc_check_cancel` | 1 task, no failure | `distributor.go:251` against the read and the later write |
| `doc_sync_check` | 1 task, no failure, slow platform | `distributor.go:248` against a record without a QueueID |
| `doc_throttled` | 1 job, request timeout 2 s | `replicate.go:170` against `replicate.go:54` |
| `doc_termination` | 1 task, local redis, no failure | README.md:85-86 against the order of the shutdown |

The first six pass. The `doc_` runs end in a violation and are the findings:

- a request whose QueueID update fails is answered with an error while its
  record stays pending;
- once the queue is longer than MAX_QUEUE_SIZE (requests that read the size at
  the same time are all admitted), the listings of the check, cut off at that
  length, make a queued task look lost, and it is set to failed.
  `HealthyTaskSpared` therefore assumes that listings fit their page;
- the check overwrites a cancel that is confirmed between its read and its write;
- the check takes a synchronous prediction that outlasts TASK_TIMEOUT for one
  that a failure left behind, and sets its record to failed while it runs;
- a poll that Replicate throttles ends the prediction; the branch that would
  wait and poll again is unreachable;
- ShutdownDistributor marks a task failed that a worker has finished since it
  was listed. Stopping the processor first (SIGTSTP) prevents it, which is
  `StopProtectsResults`.

**Bounds.** `MaxFaults` bounds the failures, `MaxCrashes` the restarts; MaxRetry
is 1 and Attempts 3 as in the code. Most of what goes wrong concerns one task:
actors meet at its entry and its record, and tasks meet only in the worker pool,
the queue limit, the listings, the pause and the shutdown. So the runs with one
task carry the failures (two of them are needed for a lost call of one actor to
meet a lost or late one of another) and the run with two carries the contention:
one worker and a queue limit that one task reaches, so that one of them waits or
is turned away. Failures together with two tasks multiply the states beyond
reach; there the proofs take over, which hold for all tasks and all failures.
In the `check` run the one worker and the one-entry page are never short, so
contention cannot hide a task from the check; `doc_check_page` has the case in
which it does. Deadlines are switched by `SlowPlatform`. A request timeout of
three seconds gives three polls and pauses of every length the code can make.
`MaxMessages` and `MaxStall` bound a stream: a message can be the first, a middle
or the last one, and its reader can stall for a part of the timeout, past its
end, or (because stalling for ever needs no step) for good.
Deadlock is not checked: the set of requests is finite and the system may stop.

**Fairness.** Weak fairness per task of the handler (`Handle`), of the worker and
asynq (`WorkOn`), of a cancel under way (`FinishCancel`) and of the webhook calls
of a synchronous handler (`SyncCreate`, `SyncReport`, `SyncRead`): each is a
goroutine whose calls all have a timeout, and asynq's pollers run on timers. A
worker never streams, so its predictions end, too. A synchronous prediction
(`SyncRun`) is fair only where `SlowPlatform` is FALSE, which includes that the
readers of streams read on; otherwise it may last for ever. None is assumed of
clients (`Arrive`, starting a cancel, pausing), of failures, crashes and signals,
of late writes, nor that a deadline strikes. `Check` is fair because its ticker
restarts it every thirty minutes and it only makes calls with a timeout. In
Termination the main goroutine (`ShutdownStep`) and the workers are fair, the
HTTP server is not: its Shutdown gives up after five seconds. A webhook call and
a platform call (`Work`) are fair because every attempt, request, read and pause
is bounded by a timer. The client that reads a stream (`Reader`) is not fair, nor
is the platform (`JobEnds`): `PredictReturns` has as its condition that a message
being written is taken, or its reader goes, again and again. A paused queue may
stay paused: the liveness properties assume that it does not, from some point on,
except `TerminationEnds`, which holds either way.

**Progress without fairness.** `EntriesAdvance` gives each entry a measure,
`ChangesLeft`, that every change of it lowers: each
retry costs at most three (to retry, pending and active), and there are at most
four more from being enqueued to being deleted. It bounds the
number of changes however calls fail, answers come late and processes die, and
is the part of `QueueDrains` that needs no fairness: what remains for TLC is that
a change which is possible is eventually made.

**HandedOver** speaks of either redis. With a shared one it says that nothing is
lost. With the agent's own, ShutdownDistributor fails what it lists; what it does
not list, because it was accepted after the list was read (`main.go:178`), is
left as an entry that was never begun, and `PromisedIsSettled` speaks of the rest.

**Mutants.** Each property is paired with a plausible bug of the code it is about
(`..._Unmarked`, `..._AnyAttempt`, ...), written beside the definition it
replaces; under it TLC finds the property violated.

## Proofs

For every set of tasks, retry limit, number of workers, failures and crashes,
request timeout and number of attempts, from the assumptions on the constants
only:

- `AsyncAgentProofs`: what holds whatever fails. `TypeOK` and
  `AttemptsMatchRetries` are not inductive alone: the range of `attempts` needs
  the link to `retried`, and the link needs that a goroutine of an attempt that
  has not been started is off. `IInv` is their conjunction with
  `NotYetEnqueued`: until the handler enqueues it, a task has no queue entry, so
  `Enqueue` cannot bring back one that was retried or deleted before. From it
  follow `GoneStaysGone`, `EntriesAdvance` (`EntriesMove`: a step changes an
  entry in one of a few ways, each of which lowers the measure) and
  `CanceledIsDequeued` (with late writes of canceled included in the invariant:
  they may still come). The module also has the lemmas about what a webhook call
  or a deletion can do to a record or an entry, which the other modules cite.
- `UndisturbedProofs`: for a task that nothing has hurt, `UndisturbedShape` ties
  the handler's position, the record, the entry, the attempts and the cancel
  together, as the race between the worker, the cancel and the QueueID update
  requires. From it follow `CanceledNeverRan`,
  `UndisturbedRunsOnce`, `ConfirmedCancelHolds`, `NoOrphan`, and that the agent
  implements `TaskLifecycle`: every step maps to a legal move, to a task being
  hurt, to any move of a hurt task, or to nothing. The step lemmas are stated for
  an arbitrary set of tasks (`ShapesOf`), because the shutdown and the check
  break the shape of some tasks and leave that of the others. `AcceptedIsLinked`,
  which says something of hurt tasks too, is strengthened by what the handler
  knows at each call.
- `TerminationProofs`: the shutdown's types, `HandedOver`, `StopProtectsResults`,
  `PromisedIsSettled`. `EndInv` says that up to
  ShutdownDistributor's first write, and for ever with a shared redis, the agent
  is in the shape of AsyncAgent, so that `NoOrphan` carries over: at the end
  nobody is left to move a task on but its queue entry. `LeftInv` continues where
  ShutdownDistributor begins to write: a task that nothing has hurt goes on
  towards a terminal status although its record is written by others as well -
  what runs is going to report, what waits is pending or failed already
  (`AllSettling`); a promised one is, besides, listed, running or settled
  (`PromisedSettling`); and what ShutdownDistributor writes was in the queue
  (`DoomedWereQueued`), so no handler is about to enqueue it.
  `StoppedShape` adds that after SIGTSTP whatever is listed was never started.
- `WebhookClientProofs`: `ClientTypeOK`, `RefusalIsFinal` and that the client
  implements `ServiceCall`. The invariant ties the number of failed attempts to
  the copies sent: without trouble there is at most one, of the current attempt.
- `PlatformClientProofs`: `TypeOK`, `DurationBounded`, `ExecutionsBounded` and
  `SuccessIsReal`. The invariant is an account of the seconds: so many per
  request or poll made so far, and the pauses between them; a stream is charged
  one timeout and the seconds its reader has held it, since a read after the
  timeout takes no time (`StreamAccount`).
- `AgentWithCheckProofs`: the types of the agent with its check, and that what
  `AsyncAgent` promises survives them: `GoneStaysGone`, `EntriesAdvance`,
  `AttemptsMatchRetries`, `CanceledIsDequeued`, `AcceptedIsLinked`,
  `UndisturbedRunsOnce` and `CanceledNeverRan` are proved again from
  `CheckedSpec`. The first four come with `IInv`, since the check only deletes
  entries and makes webhook calls; `AcceptedIsLinked` needs besides that no task
  has handlers of both kinds. The last two need more: the check may overwrite
  the record of a task that nothing has hurt, so `UndisturbedShape`, which ties
  the record to the rest, does not survive it. `EntryShapes` does: an account of
  entry, attempts and cancel that asks of the record only that it exists and is
  canceled for none but a deleted task which never ran. `LateIsHurt` goes with
  it: delayed writes are only those of hurt tasks. Of `NoOrphan` and
  `ConfirmedCancelHolds` the check leaves a weaker form, which is proved too:
  `CheckedNoOrphan`, where a synchronous handler can be the one who moves a
  record on, and `CheckedCancelHolds`, where the check may have replaced canceled
  by failed. Their invariant `CareInv` adds to `EntryShapes` who cares for a task
  at each point (`Cared`), and that the check deletes only entries which can no
  longer be anything but archived or gone (`ArchivedStay`); hence also
  `GivenUpNeverRuns`.
- `CheckRoundProofs`: `LostIsSettled`, for every number of tasks. The inductive
  invariant `RoundInv` has three parts: a lost task stays at rest (`LostRests`),
  since deleting, cancelling and a new request need an entry or a fresh id; its
  redis record, if there still is one, agrees with its row (`CacheAgrees`), so
  that the check reads the status it listed; and until its record is terminal the
  round still has it before it (`Ahead`): on the list it was or will be put on,
  not among the entries read, and then as `target` of a write that cannot be
  refused. `RoundIsOfTheAgent` says that every behaviour with the history
  variable is one of the agent; `NoteLost` only assigns it, so it rules none out.
- `HealthyTasksProofs`: `HealthyTaskSpared`, `SyncResultStands` and that the
  agent with its check implements `TaskLifecycle`. The `check` run has one task;
  here there are many, with all failures and restarts. `CheckInv` follows the
  order in which the check lists and reads: a task keeps the shape of `UndisturbedProofs`
  until it is hurt, canceled or bulk-deleted (`KeptShape`), a synchronous one has
  a shape of its own that nobody else touches (`SyncShapes`); after the sleep the
  handler of every listed task is through (`ListedRested`); and since the entries
  are listed from pending to active, the way they move, each is in a list already
  read, in one still to be read, or gone (`ListedFound`). What the check then
  reads of such a task is a terminal status or an entry it has seen. The
  refinement theorem has the condition of `HealthyTaskSpared` as a hypothesis,
  as `doc_check_page` and `doc_sync_check` show it must.

Every invariant and every `[][...]_vars` property of the passing runs is a
theorem. Liveness is model-checked only (`QueueDrains`, `UndisturbedSettles`,
`EveryRecordSettles`, `TerminationEnds`, `EveryCallReturns`, `PredictReturns`): it
rests on fairness, and that is out of the prover's reach. The safe half of each
is proved, though: `EntriesAdvance` and `NoOrphan` for the first two,
`LostIsSettled` for the third, `HandedOver` and `PromisedIsSettled` for the
shutdown, the bounds on attempts, polls and seconds for the two clients.

## Not modelled

- Configuration, logging, metrics, generated mocks, manifests, HTTP parsing.
- The handlers and client calls that only read (`getTask`, `getQueueSize`,
  `listUnfinishedTasks`, the probes, `docs`) change nothing: a read is a success
  or a failure in the step that makes it.
- The start-up check `InitCheck` that README.md:99-100 describes does not exist
  in the code. Reading the configuration and choosing the client is wiring.
- Several agents on one queue: the code supports it only as far as asynq does,
  and the manifests run one.
- The numbers inside results and the cost of a prediction, which no other part
  looks at.

## Plan

- The check together with the shutdown: the process can end between two of the
  check's calls. `Restart` covers that for the check's memory, but not for the
  order of the shutdown's own steps.
