----------------------------- MODULE CheckRound -----------------------------
(***************************************************************************)
(* What one round of the periodic check is good for.  AgentWithCheck with  *)
(* a history variable: the unfinished tasks that, when the current round   *)
(* began, nobody in the agent was going to move on any more.  They are the *)
(* "tasks remaining in pending/running status in database due to service   *)
(* failures" for which the check exists (distributor.go:248).              *)
(***************************************************************************)
EXTENDS AgentWithCheck

VARIABLE lost   \* history: lost tasks when the round began, while nothing failed

roundVars == <<allVars, lost>>

HandlerReturned(t) ==
    \/ req[t] = "done" /\ sync[t] = "idle"
    \/ req[t] = "idle" /\ sync[t] \in SyncDone

(* No handler, entry, attempt or delayed write is left that could move the *)
(* record of t on; only a cancel can be under way.                         *)
AtRest(t) ==
    /\ HandlerReturned(t)
    /\ queue[t] \in {"none", "archived", "gone"}
    /\ \A a \in Attempt : exec[t][a] = "off"
    /\ \A u \in late : u.task # t

Lost == {t \in Task : db[t] \in Unsettled /\ AtRest(t)}

RoundBegins == phase = "idle" /\ phase' # "idle"

(* A call that fails or a restart spoils the round.                        *)
NoteLost ==
    lost' = CASE faults' # faults \/ crashes' # crashes -> {}
              [] faults' = faults /\ crashes' = crashes /\ RoundBegins -> Lost
              [] OTHER -> lost

RoundInit == CheckedInit /\ lost = {}

RoundNext == CheckedNext /\ NoteLost

RoundSpec == RoundInit /\ [][RoundNext]_roundVars

RoundFairSpec == RoundSpec /\ CheckedFairness

-----------------------------------------------------------------------------
(* A round of the check in which nothing fails settles every lost task:    *)
(* when it ends, the record of each task that was lost when it began is in *)
(* a terminal status - whether its entry was archived, its redis record    *)
(* had expired, it never got a QueueID, or it was synchronous and had      *)
(* none, and whatever requests, workers, cancels and delete-all-pending do *)
(* meanwhile (distributor.go:177-321).                                     *)
LostIsSettled == phase = "idle" => \A t \in lost : db[t] \in Terminal

=============================================================================
