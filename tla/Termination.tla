---------------------------- MODULE Termination ----------------------------
(***************************************************************************)
(* The end of an agent (main.go, runServer): what SIGTSTP and SIGTERM do   *)
(* to the agent of AsyncAgent.  With a redis of its own the agent first    *)
(* fails what is left in the queue (ShutdownDistributor), while its        *)
(* workers and its HTTP server go on; then it shuts the task processor     *)
(* down, at last the HTTP server.                                          *)
(* asynq's ShutdownTimeout is TASK_TIMEOUT as well and starts later than   *)
(* the deadline of any attempt it waits for, so it never strikes first.    *)
(***************************************************************************)
EXTENDS AsyncAgent

VARIABLES
    local,      \* USE_LOCAL_REDIS and not REDIS_CLUSTER_MODE
    stopped,    \* SIGTSTP came: the processor takes no new entries
    ending,     \* how far the shutdown has come
    doomed,     \* entries ShutdownDistributor has listed and still to fail
    victim,     \* the task whose record it has written and whose entry is next
    promised    \* history: tasks accepted before a complete list was read

endingVars == <<local, stopped, ending, doomed, victim, promised>>

terminationVars == <<vars, endingVars>>

Ending == {"serving", "delay", "list pending", "list retry", "fail", "drain", "closing", "exited"}

Listed == {"pending", "retry"}

TerminationTypeOK ==
    /\ AgentTypeOK
    /\ local \in BOOLEAN
    /\ stopped \in BOOLEAN
    /\ ending \in Ending
    /\ doomed \in [Listed -> SUBSET Task]
    /\ victim \subseteq Task /\ Cardinality(victim) <= 1
    /\ promised \subseteq Task

TerminationInit ==
    /\ Init
    /\ local \in BOOLEAN
    /\ stopped = FALSE
    /\ ending = "serving"
    /\ doomed = [s \in Listed |-> {}]
    /\ victim = {}
    /\ promised = {}

-----------------------------------------------------------------------------
(* Signals.                                                                *)

StopProcessing ==
    /\ ending = "serving"
    /\ ~stopped
    /\ stopped' = TRUE
    /\ UNCHANGED <<vars, local, ending, doomed, victim, promised>>

(* SIGTERM or SIGINT; a signal after it is not looked at any more.         *)
Terminate ==
    /\ ending = "serving"
    /\ ending' = IF local THEN "delay" ELSE "drain"
    /\ UNCHANGED <<vars, local, stopped, doomed, victim, promised>>

-----------------------------------------------------------------------------
(* ShutdownDistributor.                                                    *)

ElsewhereThanStore == <<requestVars, processorVars, controlVars, crashes>>

DelayOver ==
    /\ ending = "delay"
    /\ ending' = "list pending"
    /\ UNCHANGED <<vars, local, stopped, doomed, victim, promised>>

ListDoomed(s, next) ==
    /\ \E found \in SUBSET Task :
          /\ ListsEntries(s, found)
          /\ doomed' = [doomed EXCEPT ![s] = found]
    /\ ending' = next
    /\ UNCHANGED <<recordVars, entryVars, paused, ElsewhereThanStore, local, stopped, victim>>

ListPending ==
    /\ ending = "list pending"
    /\ ListDoomed("pending", "list retry")
    /\ promised' = IF {t \in Task : queue[t] = "pending"} \subseteq doomed'["pending"]
                   THEN {t \in Task : req[t] = "done"}
                   ELSE {}

ListRetry ==
    /\ ending = "list retry"
    /\ ListDoomed("retry", "fail")
    /\ UNCHANGED promised

FailDoomed_Skipped(s, t) ==  \* mutated form: the entry is dropped, its record is not written
    /\ ending = "fail"
    /\ victim = {}
    /\ t \in doomed[s]
    /\ s = "retry" => doomed["pending"] = {}
    /\ doomed' = [doomed EXCEPT ![s] = @ \ {t}]
    /\ victim' = {t}
    /\ UNCHANGED <<storeVars, ElsewhereThanStore, local, stopped, ending, promised>>

FailDoomed_Misspelled(s, t) ==  \* mutated form: a status no client knows
    /\ ending = "fail"
    /\ victim = {}
    /\ t \in doomed[s]
    /\ s = "retry" => doomed["pending"] = {}
    /\ CallDone(t, "cancelled") \/ CallFails(t, "cancelled")
    /\ doomed' = [doomed EXCEPT ![s] = @ \ {t}]
    /\ victim' = {t}
    /\ UNCHANGED <<entryVars, paused, ElsewhereThanStore, local, stopped, ending, promised>>

(* The record is marked failed whatever its status is by now; an error is  *)
(* only logged.                                                            *)
FailDoomed(s, t) ==
    /\ ending = "fail"
    /\ victim = {}
    /\ t \in doomed[s]
    /\ s = "retry" => doomed["pending"] = {}
    /\ CallDone(t, "failed") \/ CallFails(t, "failed")
    /\ doomed' = [doomed EXCEPT ![s] = @ \ {t}]
    /\ victim' = {t}
    /\ UNCHANGED <<entryVars, paused, ElsewhereThanStore, local, stopped, ending, promised>>

(* An entry a worker has taken meanwhile cannot be deleted.                *)
DropDoomed(t) ==
    /\ ending = "fail"
    /\ victim = {t}
    /\ Deleted(t) \/ DeleteFails(t)
    /\ victim' = {}
    /\ UNCHANGED <<recordVars, paused, ElsewhereThanStore, local, stopped, ending, doomed,
                   promised>>

AllFailed ==
    /\ ending = "fail"
    /\ victim = {}
    /\ \A s \in Listed : doomed[s] = {}
    /\ ending' = "drain"
    /\ UNCHANGED <<vars, local, stopped, doomed, victim, promised>>

-----------------------------------------------------------------------------
(* Processor.Shutdown waits for the attempts asynq listens to, the HTTP    *)
(* server's Shutdown for its handlers, but no longer than five seconds.    *)

Drained_QueueToo ==  \* mutated form: the shutdown waits for the whole queue
    /\ ending = "drain"
    /\ Busy = {} /\ QueueSize = 0
    /\ ending' = "closing"
    /\ UNCHANGED <<vars, local, stopped, doomed, victim, promised>>

Drained_AtOnce ==  \* mutated form: the shutdown does not wait for the workers
    /\ ending = "drain"
    /\ ending' = "closing"
    /\ UNCHANGED <<vars, local, stopped, doomed, victim, promised>>

Drained ==
    /\ ending = "drain"
    /\ Busy = {}
    /\ ending' = "closing"
    /\ UNCHANGED <<vars, local, stopped, doomed, victim, promised>>

Exit ==
    /\ ending = "closing"
    /\ Die
    /\ ending' = "exited"
    /\ UNCHANGED <<crashes, local, stopped, doomed, victim, promised>>

ShutdownStep ==
    \/ DelayOver \/ ListPending \/ ListRetry
    \/ \E t \in Task : DropDoomed(t) \/ \E s \in Listed : FailDoomed(s, t)
    \/ AllFailed \/ Drained \/ Exit

-----------------------------------------------------------------------------
(* The agent meanwhile.                                                    *)

(* The HTTP server takes requests until its own shutdown begins.           *)
TakesRequests == ending \notin {"closing", "exited"}

Request ==
    /\ TakesRequests
    /\ \/ \E t \in Task : Arrive(t)
       \/ /\ PurgeList \/ PauseQueue \/ UnpauseQueue \/ \E t \in Task : CancelLookup(t)
          /\ UNCHANGED <<requestVars, processorVars, crashes>>

Answering ==
    /\ ending # "exited"
    /\ \E t \in Task :
          \/ Handle(t)
          \/ /\ CancelDelete(t) \/ CancelMark(t) \/ PurgeDelete(t)
             /\ UNCHANGED <<requestVars, processorVars, crashes>>

(* asynq's forwarder and recoverer outlive Stop, but not Shutdown.         *)
TakesEntries_StopIgnored ==  \* mutated form: SIGTSTP has no effect
    ending \notin {"drain", "closing", "exited"}

TakesEntries == ~stopped /\ ending \notin {"drain", "closing", "exited"}

Working(t) ==
    /\ \/ TakesEntries /\ Dequeue(t)
       \/ ending \notin {"drain", "closing", "exited"} /\ (RetryDue(t) \/ RecoverLease(t))
       \/ ending # "exited" /\ (Deadline(t) \/ \E a \in Attempt : AttemptStep(t, a))
    /\ UNCHANGED <<requestVars, controlVars, crashes>>

AgentStep ==
    /\ Services \/ Request \/ Answering \/ \E t \in Task : Working(t)
    /\ UNCHANGED endingVars

TerminationNext == AgentStep \/ StopProcessing \/ Terminate \/ ShutdownStep

TerminationSpec == TerminationInit /\ [][TerminationNext]_terminationVars

(* The main goroutine goes on, and attempts come to an end.                *)
TerminationFairness ==
    /\ WF_terminationVars(ShutdownStep)
    /\ \A t \in Task : WF_terminationVars(Working(t) /\ UNCHANGED endingVars)

TerminationFairSpec == TerminationSpec /\ TerminationFairness

-----------------------------------------------------------------------------
(* Once the task processor is down no task is cut off while running, and   *)
(* what is neither finished nor hurt waits in the queue, unless a handler  *)
(* or cancel that the HTTP server still waits for has it in hand.  So with *)
(* a redis that outlives the agent no task gets lost (README.md:81-82);    *)
(* with one of its own, whose records ShutdownDistributor writes while     *)
(* workers, cancels and new requests go on, what is left was never begun:  *)
(* by PromisedIsSettled it came after the list was read (main.go:178).     *)
HandedOver ==
    ending \in {"closing", "exited"} =>
        \A t \in Task \ (disturbed \cup purged) :
            db[t] \in {"pending", "running"} =>
                /\ db[t] = "pending"
                /\ queue[t] = "pending" \/ req[t] = "enqueue" \/ cancel[t] = "mark"

(* With a local redis, what had been accepted when ShutdownDistributor     *)
(* read its list - and the list was complete - does not stay unfinished,   *)
(* whichever of the shutdown, a worker and a cancel gets to it first.      *)
PromisedIsSettled ==
    ending = "exited" /\ local =>
        \A t \in promised \ (disturbed \cup purged) : db[t] \notin {"pending", "running"}

(* Stopping the processor first makes the shutdown safe: no entry can be   *)
(* taken by a worker between its being listed and its being failed, so no  *)
(* result is written over.                                                 *)
ResultStands(t) == t \notin disturbed' /\ db[t] = "succeeded" => db'[t] = "succeeded"

StopProtectsResults == [][stopped => \A t \in Task : ResultStands(t)]_terminationVars

(* The agent exits, whatever is still queued and whether or not the queue  *)
(* is paused.                                                              *)
TerminationEnds == ending # "serving" ~> ending = "exited"

-----------------------------------------------------------------------------
(* README.md:85-86: ShutdownDistributor will "wait for the active running  *)
(* task to be finished and set the other tasks (scheduled, pending or      *)
(* retry) in the queue to `failed`".  The workers go on meanwhile: a task  *)
(* that was pending when it was listed can be finished, and its result is  *)
(* then replaced by "failed" (distributor.go:209, 235).                    *)
ResultsSurviveShutdown == [][\A t \in Task : ResultStands(t)]_terminationVars

=============================================================================
