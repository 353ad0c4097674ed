--------------------------- MODULE PlatformClient ---------------------------
(***************************************************************************)
(* One prediction on its way to the ML platform: Predict and Generate of   *)
(* platform/kserve.go, k8s.go, replicate.go and runpod.go, with the time   *)
(* they take.  KServe and k8s run the prediction while the request waits;  *)
(* KServe's Predict repeats the request; its Generate reads a stream and   *)
(* hands each message to its own client before it reads the next.          *)
(* Replicate and RunPod start a job and are asked for its status until it  *)
(* has ended.                                                              *)
(***************************************************************************)
EXTENDS Integers

CONSTANTS
    RequestTimeout,   \* <platform>_REQUEST_TIMEOUT, in seconds
    TaskTimeout,      \* TASK_TIMEOUT
    MaxMessages,      \* bound of the model: messages of one stream
    MaxStall          \* bound of the model: seconds a reader keeps a stream waiting

(* What main.go insists on before it starts anything.                      *)
PreCheck == TaskTimeout >= RequestTimeout

ASSUME PlatformClientAssumption ==
    /\ RequestTimeout \in Nat \ {0}
    /\ TaskTimeout \in Nat
    /\ MaxMessages \in Nat
    /\ MaxStall \in Nat
    /\ PreCheck

Direct == {"kserve", "k8s"}

Polling == {"replicate", "runpod"}

Tries_OneMore ==  \* mutated form: one retry too many
    [k \in Direct |-> IF k = "kserve" THEN 6 ELSE 1]

(* numRetries of kserve.go; k8s sends its request once.                    *)
Tries == [k \in Direct |-> IF k = "kserve" THEN 5 ELSE 1]

JobState == {"none", "working", "succeeded", "failed", "canceled"}

VARIABLES
    kind,       \* the client, "generate" is KServe's streaming one
    stage,      \* the request is posted, the job polled, the stream read, or a
                \* message of it written to the client of the agent
    n,          \* requests that failed, polls that found no end, or messages read
    clock,      \* seconds since the call
    held,       \* of these, how many a client kept the stream waiting
    jobs,       \* executions the platform may have begun for this call
    job,        \* what the platform knows of the execution
    known,      \* the status in the outputs map, which all polls share
    throttled,  \* the last poll was answered 429
    result      \* what Predict returned; "open" while it runs

clientVars == <<kind, stage, n, clock, held, jobs, job, known, throttled, result>>

Kind == Direct \cup Polling \cup {"generate"}

(* The loops of the code: requests but the last, polls, or messages.       *)
Rounds ==
    CASE kind \in Direct -> Tries[kind] - 1
      [] kind \in Polling -> RequestTimeout
      [] kind = "generate" -> MaxMessages

TypeOK ==
    /\ kind \in Kind
    /\ stage \in {"post", "poll", "stream", "write"}
    /\ n \in 0..Rounds
    /\ clock \in Nat
    /\ held \in 0..MaxStall
    /\ jobs \in Nat
    /\ job \in JobState
    /\ known \in JobState
    /\ throttled \in BOOLEAN
    /\ result \in {"open", "ok", "error", "panic"}

Init ==
    /\ kind \in Kind
    /\ stage = "post"
    /\ n = 0 /\ clock = 0 /\ held = 0 /\ jobs = 0
    /\ job = "none" /\ known = "none"
    /\ throttled = FALSE
    /\ result = "open"

(* The http.Client's timeout covers the body of the answer, too.           *)
Seconds == 0..RequestTimeout

-----------------------------------------------------------------------------
(* KServe and k8s: the request is the prediction.                          *)

DirectFails_Doubling(d) ==  \* mutated form: the pause doubles with every retry
    /\ result = "open"
    /\ kind \in Direct
    /\ jobs' \in {jobs, jobs + 1}
    /\ IF n + 1 < Tries[kind]
       THEN n' = n + 1 /\ clock' = clock + d + 2 ^ (n + 1) /\ UNCHANGED result
       ELSE clock' = clock + d /\ result' = "error" /\ UNCHANGED n
    /\ UNCHANGED <<kind, stage, held, job, known, throttled>>

(* No answer, or 502 to 504: the platform may or may not have begun.       *)
DirectFails(d) ==
    /\ result = "open"
    /\ kind \in Direct
    /\ jobs' \in {jobs, jobs + 1}
    /\ IF n + 1 < Tries[kind]
       THEN n' = n + 1 /\ clock' = clock + d + 2 * (n + 1) /\ UNCHANGED result
       ELSE clock' = clock + d /\ result' = "error" /\ UNCHANGED n
    /\ UNCHANGED <<kind, stage, held, job, known, throttled>>

(* A 200 is final, also when its result cannot be read.                    *)
ResultArrives ==
    /\ job' = "succeeded"
    /\ jobs' = jobs + 1
    /\ result' \in {"ok", "error"}

(* So is any other answer.                                                 *)
Refused ==
    /\ job' = "failed"
    /\ jobs' \in {jobs, jobs + 1}
    /\ result' = "error"

DirectAnswers(d) ==
    /\ result = "open"
    /\ kind \in Direct
    /\ clock' = clock + d
    /\ ResultArrives \/ Refused
    /\ UNCHANGED <<kind, stage, n, held, known, throttled>>

-----------------------------------------------------------------------------
(* Replicate and RunPod: a job and its polls.                              *)

(* Without an answer, and with one that is refused or incomplete, the call *)
(* is over although a job may have been created.                           *)
PostFails == jobs' \in {0, 1} /\ result' = "error" /\ UNCHANGED <<stage, known>>

(* Replicate's "urls" is taken for an object unchecked.                    *)
PostJob(d) ==
    /\ result = "open"
    /\ kind \in Polling
    /\ stage = "post"
    /\ clock' = clock + d
    /\ \/ PostFails
       \/ kind = "replicate" /\ jobs' = 1 /\ result' = "panic" /\ UNCHANGED <<stage, known>>
       \/ jobs' = 1 /\ stage' = "poll" /\ known' \in {"none", "working"} /\ UNCHANGED result
    /\ job' = IF jobs' = 1 THEN "working" ELSE "none"
    /\ UNCHANGED <<kind, n, held, throttled>>

(* The platform gets on with it, also when nobody waits any more.          *)
JobEnds ==
    /\ job = "working"
    /\ job' \in {"succeeded", "failed", "canceled"}
    /\ UNCHANGED <<kind, stage, n, clock, held, jobs, known, throttled, result>>

(* sendRequest makes an error of every status above 300, so that of a 429  *)
(* never reaches the branch meant for it.                                  *)
PollFails(d) ==
    /\ clock' = clock + d
    /\ throttled' \in {FALSE, kind = "replicate"}
    /\ result' = "error"
    /\ UNCHANGED <<n, known>>

(* The answer is merged into the map of the earlier ones: one without a    *)
(* status leaves the status of before.                                     *)
PollHeard == known' \in {known, job} /\ UNCHANGED throttled

PollEnds_NotFailed(d) ==  \* mutated form: any end but "failed" is taken for a success
    /\ PollHeard
    /\ clock' = clock + d
    /\ \/ known' \in {"succeeded", "canceled"} /\ result' \in {"ok", "panic"}
       \/ known' \in {"none", "failed"} /\ result' = "error"
    /\ UNCHANGED n

(* The figures of a success are taken for numbers unchecked.               *)
PollEnds(d) ==
    /\ PollHeard
    /\ clock' = clock + d
    /\ \/ known' = "succeeded" /\ result' \in {"ok", "panic"}
       \/ known' \in {"none", "failed"} /\ result' = "error"
    /\ UNCHANGED n

(* Neither client knows the status of a job that was canceled.             *)
PollGoesOn(d) ==
    /\ PollHeard
    /\ known' \in {"working", "canceled"}
    /\ n' = n + 1
    /\ clock' = clock + d + 1
    /\ UNCHANGED result

Poll_OneMore(d) ==  \* mutated form: one poll too many
    /\ result = "open"
    /\ stage = "poll"
    /\ n <= RequestTimeout
    /\ PollFails(d) \/ PollEnds(d) \/ PollGoesOn(d)
    /\ UNCHANGED <<kind, stage, held, jobs, job>>

Poll(d) ==
    /\ result = "open"
    /\ stage = "poll"
    /\ n < RequestTimeout
    /\ PollFails(d) \/ PollEnds(d) \/ PollGoesOn(d)
    /\ UNCHANGED <<kind, stage, held, jobs, job>>

PollsUsedUp_PostedAgain ==  \* mutated form: the job is started once more, for ever
    /\ result = "open"
    /\ stage = "poll"
    /\ n = RequestTimeout
    /\ stage' = "post"
    /\ UNCHANGED <<kind, n, clock, held, jobs, job, known, throttled, result>>

PollsUsedUp ==
    /\ result = "open"
    /\ stage = "poll"
    /\ n = RequestTimeout
    /\ result' = "error"
    /\ UNCHANGED <<kind, stage, n, clock, held, jobs, job, known, throttled>>

-----------------------------------------------------------------------------
(* KServe's Generate: the answer is a stream of messages.                  *)

StreamOpens(d) ==
    /\ result = "open"
    /\ kind = "generate"
    /\ stage = "post"
    /\ clock' = clock + d
    /\ \/ PostFails
       \/ jobs' = 1 /\ stage' = "stream" /\ UNCHANGED <<known, result>>
    /\ job' = IF jobs' = 1 THEN "working" ELSE "none"
    /\ UNCHANGED <<kind, n, held, throttled>>

(* Either a message, or the end of the stream, which the platform writes   *)
(* when the execution has ended.  An error is a stream that breaks off or  *)
(* times out, or a reader found to have gone before the message is read.   *)
StreamGives ==
    \/ n < MaxMessages /\ n' = n + 1 /\ stage' = "write" /\ UNCHANGED result
    \/ job # "working" /\ result' = "ok" /\ UNCHANGED <<n, stage>>
    \/ result' = "error" /\ UNCHANGED <<n, stage>>

StreamReads_TimerRestarted(d) ==  \* mutated form: each message has the whole timeout
    /\ result = "open"
    /\ stage = "stream"
    /\ clock' = clock + d
    /\ StreamGives
    /\ UNCHANGED <<kind, held, jobs, job, known, throttled>>

(* The request's timeout runs from the request to the end of the stream;   *)
(* what has been received before it strikes can be read after it.          *)
StreamReads(d) ==
    /\ result = "open"
    /\ stage = "stream"
    /\ d = 0 \/ clock + d <= RequestTimeout
    /\ clock' = clock + d
    /\ StreamGives
    /\ UNCHANGED <<kind, held, jobs, job, known, throttled>>

(* The message is written to the client of the agent, or that has gone.    *)
ReaderTakes ==
    /\ result = "open"
    /\ stage = "write"
    /\ \/ stage' = "stream" /\ UNCHANGED result
       \/ result' = "error" /\ UNCHANGED stage
    /\ UNCHANGED <<kind, n, clock, held, jobs, job, known, throttled>>

(* A client that does not read: the write has no deadline, and while it    *)
(* blocks nobody looks whether the request has timed out.                  *)
ReaderStalls ==
    /\ result = "open"
    /\ stage = "write"
    /\ held < MaxStall
    /\ held' = held + 1
    /\ clock' = clock + 1
    /\ UNCHANGED <<kind, stage, n, jobs, job, known, throttled, result>>

-----------------------------------------------------------------------------
Work ==
    \/ \E d \in Seconds :
          DirectFails(d) \/ DirectAnswers(d) \/ PostJob(d) \/ Poll(d)
          \/ StreamOpens(d) \/ StreamReads(d)
    \/ PollsUsedUp

Reader == ReaderTakes \/ ReaderStalls

Next == Work \/ JobEnds \/ Reader

Spec == Init /\ [][Next]_clientVars

(* Every request has a timeout and every pause is bounded.  Nothing makes  *)
(* the platform end a job, or a client read what it has asked for.         *)
FairSpec == Spec /\ WF_clientVars(Work)

-----------------------------------------------------------------------------
(* The longest a prediction can take, given RequestTimeout.                *)
Longest ==
    CASE kind = "kserve" -> 5 * RequestTimeout + (2 + 4 + 6 + 8)
      [] kind = "k8s" -> RequestTimeout
      [] kind \in Polling -> RequestTimeout + RequestTimeout * (RequestTimeout + 1)
      [] kind = "generate" -> RequestTimeout + held

(* A prediction is over after Longest seconds.  Only for k8s is that what  *)
(* PreCheck compares with TASK_TIMEOUT (main.go:65): KServe takes up to    *)
(* five times the request timeout, a job its square, and a stream outlasts *)
(* its timeout by just the time its own client kept it waiting, which      *)
(* nothing bounds (kserve.go:138, main.go:112).                            *)
DurationBounded ==
    /\ clock <= Longest
    /\ kind = "k8s" => clock <= TaskTimeout

(* A success is never made up: neither the shared outputs map, which keeps *)
(* what an earlier poll said (replicate.go:141, runpod.go:136), nor an end *)
(* the client does not know makes one of a job that did not succeed.  Of a *)
(* stream it means only that it is complete - not broken off, timed out or *)
(* left by its reader: nobody looks at what its messages say.              *)
SuccessIsReal ==
    result = "ok" =>
        IF kind = "generate" THEN job \notin {"none", "working"} ELSE job = "succeeded"

(* How often the platform may execute one prediction: five times at KServe *)
(* (kserve.go:42), where a request that got no answer may still run while  *)
(* the next is sent, and once everywhere else.                             *)
ExecutionsBounded ==
    /\ jobs <= IF kind = "kserve" THEN 5 ELSE 1
    /\ jobs > 1 => n > 0

(* Predict returns whatever the platform does, and Generate does if its    *)
(* client goes on reading, or goes: one that stays and stops reading holds *)
(* it for ever (kserve.go:138).                                            *)
PredictReturns == []<>(stage # "write" \/ result # "open") => <>(result # "open")

-----------------------------------------------------------------------------
(* replicate.go:170: "Rate limit: Request was throttled", followed by a    *)
(* pause and the next poll.  That branch is never reached: sendRequest has *)
(* made an error of the 429 before (54), and the prediction has failed.    *)
ThrottledIsRetried == throttled => result = "open"

=============================================================================
