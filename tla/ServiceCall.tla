---------------------------- MODULE ServiceCall ----------------------------
(***************************************************************************)
(* What one webhook call means to its caller and to the records.  This is  *)
(* the contract TaskStore builds on: a call during which nothing goes      *)
(* wrong is carried out exactly once when it succeeds and not at all when  *)
(* it is refused (CallDone and CallRefused without a fault).  Everything   *)
(* else - a repeated write, a copy that outlives its call, a write carried *)
(* out although its caller saw an error - takes trouble on the way, which  *)
(* TaskStore charges as a fault (Lingers, CallLost, CarryLate).            *)
(***************************************************************************)
CONSTANT Copy   \* the copies of the write a call may send

VARIABLES
    outcome,   \* what the caller was told; "open" while it waits
    alive,     \* copies the service may still carry out
    carried,   \* copies it has carried out
    trouble    \* history: an attempt or an answer was lost

contractVars == <<outcome, alive, carried, trouble>>

ContractInit ==
    /\ outcome = "open"
    /\ alive = {}
    /\ carried = {}
    /\ trouble = FALSE

(* Nothing is sent after the caller was told, nor twice without trouble.   *)
SendCopy(c) ==
    /\ outcome = "open"
    /\ trouble \/ alive \cup carried = {}
    /\ c \notin alive \cup carried
    /\ alive' = alive \cup {c}
    /\ UNCHANGED <<outcome, carried, trouble>>

CarryCopy(c) ==
    /\ c \in alive
    /\ alive' = alive \ {c}
    /\ carried' = carried \cup {c}
    /\ UNCHANGED <<outcome, trouble>>

(* The copy is lost on its way, or the service refuses it.                 *)
DropCopy(c) ==
    /\ c \in alive
    /\ alive' = alive \ {c}
    /\ UNCHANGED <<outcome, carried, trouble>>

MeetTrouble ==
    /\ outcome = "open"
    /\ trouble' = TRUE
    /\ UNCHANGED <<outcome, alive, carried>>

Succeed ==
    /\ outcome = "open"
    /\ carried # {}
    /\ trouble \/ (alive = {} /\ \E c \in Copy : carried = {c})
    /\ outcome' = "done"
    /\ UNCHANGED <<alive, carried, trouble>>

Fail ==
    /\ outcome = "open"
    /\ trouble' \in {trouble, TRUE}
    /\ trouble' \/ alive \cup carried = {}
    /\ outcome' = "failed"
    /\ UNCHANGED <<alive, carried>>

ContractNext ==
    \/ \E c \in Copy : SendCopy(c) \/ CarryCopy(c) \/ DropCopy(c)
    \/ MeetTrouble \/ Succeed \/ Fail

ContractSpec == ContractInit /\ [][ContractNext]_contractVars

=============================================================================
