------------------------ MODULE PlatformClientProofs ------------------------
(***************************************************************************)
(* For every request timeout: how long a prediction takes at most, how     *)
(* often the platform may execute it, and that a reported success is one.  *)
(* The invariant charges each failed request its timeout and its pause,    *)
(* each poll its timeout and one second, and a stream its one timeout and  *)
(* every second its reader has kept it waiting.                            *)
(***************************************************************************)
EXTENDS PlatformClient, TLAPS

T == RequestTimeout

DirectAccount ==
    kind \in Direct =>
        /\ stage = "post" /\ known = "none" /\ job \in {"none", "succeeded", "failed"}
        /\ result = "open" => clock <= n * T + n * (n + 1) /\ jobs <= n
        /\ result # "open" => clock <= (n + 1) * T + n * (n + 1) /\ jobs <= n + 1

PollAccount ==
    kind \in Polling =>
        /\ jobs <= 1
        /\ stage = "post" => n = 0 /\ clock <= T /\ known = "none"
        /\ stage = "post" /\ result = "open" => clock = 0
        /\ stage = "poll" /\ result = "open" => clock <= T + n * (T + 1)
        /\ stage = "poll" => clock <= T + T * (T + 1)

StreamAccount ==
    kind = "generate" =>
        /\ jobs <= 1
        /\ known = "none"
        /\ clock <= T + held
        /\ stage = "post" /\ result = "open" => clock = 0 /\ n = 0 /\ jobs = 0
        /\ stage # "post" => job # "none"

(* Which client is in which stage.                                         *)
StageOfKind ==
    /\ stage = "poll" => kind \in Polling
    /\ stage \in {"stream", "write"} => kind = "generate"

HonestStatus ==
    /\ known = "succeeded" => job = "succeeded"
    /\ result = "ok" => job \notin {"none", "working"}
    /\ result = "ok" /\ kind # "generate" => job = "succeeded"

IInv == TypeOK /\ StageOfKind /\ DirectAccount /\ PollAccount /\ StreamAccount /\ HonestStatus

(* What the clients' constants are.                                        *)
LEMMA Kinds ==
    /\ Direct \cap Polling = {} /\ "generate" \notin Direct \cup Polling
    /\ Kind = Direct \cup Polling \cup {"generate"}
    /\ \A k \in Direct : Tries[k] \in 1..5 /\ (k # "kserve" => Tries[k] = 1)
    /\ Tries["kserve"] = 5 /\ "kserve" \in Direct
BY DEF Direct, Polling, Kind, Tries

(* What PreCheck and the assumptions say about the two timeouts.           *)
LEMMA Figures ==
    /\ T \in Nat /\ T >= 1 /\ TaskTimeout \in Nat /\ TaskTimeout >= T
    /\ MaxMessages \in Nat /\ MaxStall \in Nat
BY PlatformClientAssumption DEF T, PreCheck

(* How often the loop of each client may run.                              *)
LEMMA RoundsOf ==
    /\ kind \in Direct => Rounds = Tries[kind] - 1
    /\ kind \in Polling => Rounds = T
    /\ kind = "generate" => Rounds = MaxMessages
BY Kinds DEF Rounds, T

(* The invariant holds when Predict is called.                             *)
LEMMA IInvInit == Init => IInv
<1> SUFFICES ASSUME Init PROVE IInv
  OBVIOUS
<1>1. Rounds \in Nat
  BY Kinds, Figures, RoundsOf DEF Init
<1>2. TypeOK
  <2>1. n \in 0..Rounds /\ clock \in Nat /\ jobs \in Nat /\ held \in 0..MaxStall
    BY <1>1, Figures DEF Init
  <2>2. throttled \in BOOLEAN
    BY DEF Init
  <2> QED BY <2>1, <2>2 DEF Init, TypeOK, JobState
<1>3. DirectAccount /\ PollAccount
  BY Figures DEF Init, DirectAccount, PollAccount
<1>4. StreamAccount
  BY Figures DEF Init, StreamAccount
<1> QED BY <1>2, <1>3, <1>4 DEF Init, IInv, HonestStatus, StageOfKind

(* A request that fails and is repeated pays for itself and for the pause. *)
LEMMA DirectStep ==
    ASSUME IInv, NEW d \in Seconds, DirectFails(d) \/ DirectAnswers(d)
    PROVE  IInv'
<1>1. /\ kind \in Direct /\ kind \notin Polling /\ kind # "generate" /\ result = "open"
      /\ UNCHANGED <<kind, stage, held, known, throttled, Rounds>> /\ stage = "post"
      /\ n \in 0..(Tries[kind] - 1) /\ Tries[kind] \in 1..5 /\ Rounds = Tries[kind] - 1
      /\ clock \in Nat /\ jobs \in Nat /\ d \in Nat /\ d <= T /\ T \in Nat
      /\ clock <= n * T + n * (n + 1) /\ jobs <= n
  BY Kinds, Figures, RoundsOf
  DEF DirectFails, DirectAnswers, IInv, TypeOK, Rounds, DirectAccount, Seconds, T
<1>2. CASE DirectFails(d) /\ n + 1 < Tries[kind]
  <2>1. /\ n' = n + 1 /\ clock' = clock + d + 2 * (n + 1) /\ result' = "open"
        /\ job' = job /\ jobs' \in {jobs, jobs + 1}
    BY <1>1, <1>2 DEF DirectFails
  <2>2. n' * T = n * T + T /\ n' * (n' + 1) = n * (n + 1) + 2 * (n + 1)
    BY <1>1, <2>1
  <2>3. clock' <= n' * T + n' * (n' + 1) /\ jobs' <= n'
    BY <1>1, <2>1, <2>2
  <2>4. TypeOK'
    BY <1>1, <1>2, <2>1 DEF IInv, TypeOK
  <2> QED
    BY <1>1, <2>1, <2>3, <2>4
    DEF IInv, StageOfKind, DirectAccount, PollAccount, StreamAccount, HonestStatus
<1>3. CASE (DirectFails(d) /\ ~(n + 1 < Tries[kind])) \/ DirectAnswers(d)
  <2>1. /\ n' = n /\ clock' = clock + d /\ jobs' \in {jobs, jobs + 1}
        /\ result' \in {"ok", "error"} /\ job' \in {job, "succeeded", "failed"}
        /\ result' = "ok" => job' = "succeeded"
    BY <1>1, <1>3 DEF DirectFails, DirectAnswers, ResultArrives, Refused
  <2>2. (n' + 1) * T = n * T + T
    BY <1>1, <2>1
  <2>3. clock' <= (n' + 1) * T + n' * (n' + 1) /\ jobs' <= n' + 1
    BY <1>1, <2>1, <2>2
  <2>4. TypeOK'
    BY <1>1, <2>1 DEF IInv, TypeOK, JobState
  <2>5. known' = "none" /\ job' \in {"none", "succeeded", "failed"}
    BY <1>1, <2>1 DEF IInv, DirectAccount
  <2> QED
    BY <1>1, <2>1, <2>3, <2>4, <2>5
    DEF IInv, StageOfKind, DirectAccount, PollAccount, StreamAccount, HonestStatus
<1> QED BY <1>2, <1>3

(* Posting a job keeps the invariant: at most one job is created.          *)
LEMMA PostStep ==
    ASSUME IInv, NEW d \in Seconds, PostJob(d)
    PROVE  IInv'
<1>1. /\ kind \in Polling /\ kind \notin Direct /\ kind # "generate"
      /\ stage = "post" /\ result = "open"
      /\ UNCHANGED <<kind, n, held, throttled, Rounds>> /\ clock' = clock + d
      /\ n = 0 /\ clock = 0 /\ known = "none" /\ d \in Nat /\ d <= T /\ T \in Nat
      /\ jobs' \in {0, 1} /\ job' \in {"none", "working"}
  BY Kinds, Figures DEF PostJob, PostFails, IInv, PollAccount, Seconds, T, Rounds
<1>2. /\ stage' \in {"post", "poll"} /\ result' \in {"open", "error", "panic"}
      /\ stage' = "post" => result' # "open"
      /\ known' \in {"none", "working"} /\ (stage' = "post" => known' = "none")
  BY <1>1 DEF PostJob, PostFails
<1>3. TypeOK'
  BY <1>1, <1>2 DEF IInv, TypeOK, JobState
<1>4. clock' <= T /\ n' * (T + 1) = 0 /\ T * (T + 1) >= 0
  BY <1>1
<1> QED
  BY <1>1, <1>2, <1>3, <1>4
  DEF IInv, StageOfKind, DirectAccount, PollAccount, StreamAccount, HonestStatus

(* A poll that finds no end pays for itself and for the second after it.   *)
LEMMA PollStep ==
    ASSUME IInv, NEW d \in Seconds, Poll(d)
    PROVE  IInv'
<1>1. /\ kind \in Polling /\ kind \notin Direct /\ kind # "generate"
      /\ stage = "poll" /\ result = "open"
      /\ UNCHANGED <<kind, stage, held, jobs, job, Rounds>> /\ Rounds = T
      /\ n \in Nat /\ n < T /\ clock \in Nat /\ d \in Nat /\ d <= T /\ T \in Nat
      /\ clock <= T + n * (T + 1) /\ jobs <= 1 /\ jobs \in Nat
  BY Kinds, Figures, RoundsOf
  DEF Poll, IInv, TypeOK, Rounds, PollAccount, StageOfKind, Seconds, T
<1>2. (n + 1) * (T + 1) <= T * (T + 1) /\ (n + 1) * (T + 1) = n * (T + 1) + T + 1
  BY <1>1
<1>3. /\ known' \in {known, job} /\ throttled' \in BOOLEAN
      /\ result' \in {"open", "ok", "error", "panic"}
      /\ result' = "ok" => known' = "succeeded"
  BY <1>1 DEF Poll, PollFails, PollEnds, PollGoesOn, PollHeard, IInv, TypeOK
<1>4. \/ n' = n /\ clock' = clock + d /\ result' # "open"
      \/ n' = n + 1 /\ clock' = clock + d + 1 /\ result' = "open"
  BY <1>1 DEF Poll, PollFails, PollEnds, PollGoesOn
<1>5. TypeOK'
  BY <1>1, <1>3, <1>4 DEF IInv, TypeOK
<1>6. clock' <= T + T * (T + 1) /\ (result' = "open" => clock' <= T + n' * (T + 1))
  BY <1>1, <1>2, <1>4
<1>7. HonestStatus'
  BY <1>1, <1>3 DEF IInv, HonestStatus
<1> QED
  BY <1>1, <1>5, <1>6, <1>7 DEF IInv, StageOfKind, DirectAccount, PollAccount, StreamAccount

(* Only a stream's reader makes it last longer than its one timeout.       *)
LEMMA StreamStep ==
    ASSUME IInv,
           \/ \E d \in Seconds : StreamOpens(d) \/ StreamReads(d)
           \/ Reader
    PROVE  IInv'
<1>1. /\ kind = "generate" /\ kind \notin Direct \cup Polling /\ result = "open"
      /\ UNCHANGED <<kind, known, throttled, Rounds>> /\ known = "none"
      /\ Rounds = MaxMessages /\ MaxMessages \in Nat /\ n \in 0..MaxMessages
      /\ clock \in Nat /\ held \in Nat /\ held <= MaxStall /\ MaxStall \in Nat
      /\ T \in Nat /\ clock <= T + held /\ jobs \in Nat /\ jobs <= 1
  BY Kinds, Figures, RoundsOf
  DEF StreamOpens, StreamReads, Reader, ReaderTakes, ReaderStalls, PostFails, IInv, TypeOK,
      StageOfKind, StreamAccount, Rounds
<1>2. CASE \E d \in Seconds : StreamOpens(d)
  <2>1. PICK d \in Seconds : StreamOpens(d)
    BY <1>2
  <2>2. /\ stage = "post" /\ clock = 0 /\ clock' = d /\ d \in Nat /\ d <= T
        /\ n' = n /\ held' = held /\ jobs' \in {0, 1} /\ job' \in {"none", "working"}
        /\ \/ stage' = "post" /\ result' = "error"
           \/ stage' = "stream" /\ result' = "open" /\ job' = "working"
    BY <1>1, <2>1 DEF StreamOpens, PostFails, IInv, StreamAccount, Seconds, T
  <2>3. TypeOK'
    BY <1>1, <2>2 DEF IInv, TypeOK, JobState
  <2> QED
    BY <1>1, <2>2, <2>3
    DEF IInv, StageOfKind, DirectAccount, PollAccount, StreamAccount, HonestStatus
<1>3. CASE \E d \in Seconds : StreamReads(d)
  <2>1. PICK d \in Seconds : StreamReads(d)
    BY <1>3
  <2>2. /\ stage = "stream" /\ d \in Nat /\ (d = 0 \/ clock + d <= T) /\ clock' = clock + d
        /\ UNCHANGED <<held, jobs, job>> /\ job # "none"
        /\ \/ n < MaxMessages /\ n' = n + 1 /\ stage' = "write" /\ result' = "open"
           \/ n' = n /\ stage' = "stream" /\ result' = "error"
           \/ n' = n /\ stage' = "stream" /\ result' = "ok" /\ job # "working"
    BY <1>1, <2>1 DEF StreamReads, StreamGives, IInv, StreamAccount, Seconds, T
  <2>3. TypeOK'
    BY <1>1, <2>2 DEF IInv, TypeOK
  <2>4. clock' <= T + held'
    BY <1>1, <2>2
  <2> QED
    BY <1>1, <2>2, <2>3, <2>4
    DEF IInv, StageOfKind, DirectAccount, PollAccount, StreamAccount, HonestStatus
<1>4. CASE Reader
  <2>1. /\ stage = "write" /\ UNCHANGED <<n, jobs, job>> /\ job # "none"
        /\ stage' \in {"stream", "write"} /\ result' \in {"open", "error"}
        /\ \/ UNCHANGED <<clock, held>>
           \/ held < MaxStall /\ held' = held + 1 /\ clock' = clock + 1
    BY <1>1, <1>4 DEF Reader, ReaderTakes, ReaderStalls, IInv, StreamAccount
  <2>2. TypeOK'
    BY <1>1, <2>1 DEF IInv, TypeOK
  <2>3. clock' <= T + held'
    BY <1>1, <2>1
  <2> QED
    BY <1>1, <2>1, <2>2, <2>3
    DEF IInv, StageOfKind, DirectAccount, PollAccount, StreamAccount, HonestStatus
<1> QED BY <1>2, <1>3, <1>4

(* Every request, answer, poll and message keeps it.                       *)
LEMMA IInvStep == IInv /\ [Next]_clientVars => IInv'
<1> SUFFICES ASSUME IInv, [Next]_clientVars
             PROVE  IInv'
  OBVIOUS
<1>1. CASE PollsUsedUp
  <2>1. kind \in Polling /\ kind \notin Direct /\ kind # "generate" /\ T \in Nat
    BY <1>1, Kinds, Figures DEF PollsUsedUp, IInv, StageOfKind
  <2> QED
    BY <1>1, <2>1
    DEF PollsUsedUp, IInv, TypeOK, Rounds, StageOfKind, DirectAccount, PollAccount,
        StreamAccount, HonestStatus
<1>2. CASE JobEnds
  <2>1. kind \notin Direct /\ result # "ok" /\ known # "succeeded"
    BY <1>2 DEF JobEnds, IInv, DirectAccount, HonestStatus
  <2> QED
    BY <1>2, <2>1
    DEF JobEnds, IInv, TypeOK, Rounds, JobState, StageOfKind, DirectAccount, PollAccount,
        StreamAccount, HonestStatus
<1>3. CASE UNCHANGED clientVars
  BY <1>3
  DEF clientVars, IInv, TypeOK, Rounds, StageOfKind, DirectAccount, PollAccount, StreamAccount,
      HonestStatus
<1> QED
  BY <1>1, <1>2, <1>3, DirectStep, PostStep, PollStep, StreamStep DEF Next, Work

(* Every variable has its type: no loop runs more often than it may.       *)
THEOREM PlatformClientTypeCorrect == Spec => []TypeOK
<1>1. IInv => TypeOK
  BY DEF IInv
<1> QED BY IInvInit, IInvStep, <1>1, PTL DEF Spec

(* How long a prediction can keep a worker or a client, for every setting: *)
(* a stream as long as its reader keeps it waiting, and one timeout more.  *)
THEOREM PredictionsEndInTime == Spec => []DurationBounded
<1>1. IInv => DurationBounded
  <2> SUFFICES ASSUME IInv PROVE DurationBounded
    OBVIOUS
  <2>1. CASE kind \in Direct
    <3>1. /\ n \in 0..(Tries[kind] - 1) /\ Tries[kind] \in 1..5 /\ T \in Nat /\ clock \in Nat
          /\ clock <= (n + 1) * T + n * (n + 1)
      <4>1. n * T <= (n + 1) * T
        BY <2>1, Kinds, Figures, RoundsOf DEF IInv, TypeOK
      <4> QED BY <2>1, <4>1, Kinds, Figures, RoundsOf DEF IInv, TypeOK, DirectAccount
    <3>2. CASE kind = "kserve"
      <4>1. n \in {0, 1, 2, 3, 4}
        BY <3>1, <3>2, Kinds
      <4>2. clock <= 5 * T + 20
        BY <3>1, <4>1
      <4> QED BY <3>2, <4>2 DEF DurationBounded, Longest, Polling, T
    <3>3. CASE kind # "kserve"
      <4>1. n = 0 /\ kind = "k8s"
        BY <2>1, <3>1, <3>3, Kinds DEF Direct
      <4>2. clock <= T /\ clock <= TaskTimeout
        BY <3>1, <4>1, Figures
      <4> QED BY <4>1, <4>2 DEF DurationBounded, Longest, Polling, T
    <3> QED BY <3>2, <3>3
  <2>2. CASE kind \in Polling
    <3>1. clock <= T + T * (T + 1)
      <4>1. T * (T + 1) >= 0
        BY Figures
      <4> QED BY <2>2, <4>1, Kinds, Figures DEF IInv, TypeOK, StageOfKind, PollAccount
    <3>2. kind \notin {"kserve", "k8s", "generate"}
      BY <2>2 DEF Polling
    <3> QED BY <2>2, <3>1, <3>2 DEF DurationBounded, Longest, T
  <2>3. CASE kind = "generate"
    <3>1. clock <= T + held /\ kind \notin Polling /\ kind \notin {"kserve", "k8s"}
      BY <2>3, Kinds DEF IInv, StreamAccount
    <3> QED BY <2>3, <3>1 DEF DurationBounded, Longest, T
  <2> QED BY <2>1, <2>2, <2>3, Kinds DEF IInv, TypeOK
<1> QED BY IInvInit, IInvStep, <1>1, PTL DEF Spec

(* How often the platform may execute one prediction.                      *)
THEOREM PredictionsRunBoundedly == Spec => []ExecutionsBounded
<1>1. IInv => ExecutionsBounded
  <2> SUFFICES ASSUME IInv PROVE ExecutionsBounded
    OBVIOUS
  <2>1. CASE kind \in Direct
    <3>1. n \in 0..(Tries[kind] - 1) /\ Tries[kind] \in 1..5 /\ jobs \in Nat /\ jobs <= n + 1
      BY <2>1, Kinds, RoundsOf DEF IInv, TypeOK, DirectAccount
    <3> QED BY <2>1, <3>1, Kinds DEF ExecutionsBounded
  <2>2. CASE kind \notin Direct
    <3>1. jobs \in Nat /\ jobs <= 1 /\ kind # "kserve"
      BY <2>2, Kinds DEF IInv, TypeOK, PollAccount, StreamAccount
    <3> QED BY <3>1 DEF ExecutionsBounded
  <2> QED BY <2>1, <2>2
<1> QED BY IInvInit, IInvStep, <1>1, PTL DEF Spec

(* A success that Predict returns is the platform's.                       *)
THEOREM SuccessesAreReal == Spec => []SuccessIsReal
<1>1. IInv => SuccessIsReal
  BY DEF IInv, HonestStatus, SuccessIsReal
<1> QED BY IInvInit, IInvStep, <1>1, PTL DEF Spec

=============================================================================
