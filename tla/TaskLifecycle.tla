--------------------------- MODULE TaskLifecycle ---------------------------
(***************************************************************************)
(* What the agent promises about the status column of the task database.   *)
(* A task is created, runs at most once, ends in one terminal status and   *)
(* stays there; it can be canceled only while it is pending.               *)
(* The promise is void for a task that a failure, a timeout or a crash has *)
(* hurt: its row may change in any way.                                    *)
(***************************************************************************)
CONSTANTS
    Task,
    Birth   \* the status of a new task: pending, or running when its client waits

VARIABLES status, hurt

lifecycleVars == <<status, hurt>>

LifecycleStatus == {"none", "pending", "running", "succeeded", "failed", "canceled"}

(* The legal moves of a task that nothing has hurt.                        *)
Move ==
    { <<"none", s>> : s \in Birth } \cup
    { <<"pending", "running">>, <<"pending", "canceled">>,
      <<"running", "succeeded">>, <<"running", "failed">> }

LifecycleInit ==
    /\ status = [t \in Task |-> "none"]
    /\ hurt = {}

(* Any number of tasks may be hurt, at any time, also by the very step     *)
(* that moves one; a task that already is hurt may show any status next.   *)
Hurt ==
    /\ hurt' \in SUBSET Task
    /\ hurt \subseteq hurt'

Progress(t) ==
    \E m \in Move :
        /\ status[t] = m[1]
        /\ status' = [status EXCEPT ![t] = m[2]]

Stray(t) ==
    /\ t \in hurt
    /\ \E s \in LifecycleStatus : status' = [status EXCEPT ![t] = s]

LifecycleNext ==
    /\ Hurt
    /\ UNCHANGED status \/ \E t \in Task : Progress(t) \/ Stray(t)

LifecycleSpec == LifecycleInit /\ [][LifecycleNext]_lifecycleVars

=============================================================================
