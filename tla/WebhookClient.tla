--------------------------- MODULE WebhookClient ---------------------------
(***************************************************************************)
(* One write of the agent on its way to the webhook service: SendRequest   *)
(* of platform/webhook.go with what CreateNewTask and UpdateTaskInfo make  *)
(* of its result.  SendRequest gives one *http.Request to up to three      *)
(* attempts of retry-go, each with a timeout of its own.  The request's    *)
(* body is a reader, used up by the first attempt that gets to write it.   *)
(***************************************************************************)
EXTENDS Naturals

CONSTANT Attempts   \* the 3 that every caller passes for retries

ASSUME WebhookClientAssumption == Attempts \in Nat \ {0}

Copy == 1..Attempts

VARIABLES
    kind,      \* a POST of CreateNewTask or a PUT of UpdateTaskInfo
    stage,     \* what the caller's goroutine does
    tries,     \* attempts that have failed
    body,      \* the body's reader
    copy,      \* what became of the copy the n-th attempt sent
    answer,    \* what the service answered, as far as the caller got to know
    trouble    \* history: an attempt or an answer was lost

clientVars == <<kind, stage, tries, body, copy, answer, trouble>>

CopyState == {"unsent", "sent", "carried", "refused", "lost"}

ClientTypeOK ==
    /\ kind \in {"create", "update"}
    /\ stage \in {"ready", "waiting", "done", "failed"}
    /\ tries \in 0..Attempts
    /\ body \in {"fresh", "spent"}
    /\ copy \in [Copy -> CopyState]
    /\ answer \in {"none", "carried", "refused"}
    /\ trouble \in BOOLEAN

ClientInit ==
    /\ kind \in {"create", "update"}
    /\ stage = "ready"
    /\ tries = 0
    /\ body = "fresh"
    /\ copy = [c \in Copy |-> "unsent"]
    /\ answer = "none"
    /\ trouble = FALSE

Current == tries + 1

-----------------------------------------------------------------------------
(* The agent's side.                                                       *)

TryAgain_Uncounted ==  \* mutated form: retry.Attempts(0), which retries for ever
    /\ stage' = "ready"
    /\ trouble' = TRUE
    /\ UNCHANGED tries

TryAgain_ErrorDropped ==  \* mutated form: the error of the last attempt is not returned
    /\ tries' = tries + 1
    /\ stage' = IF tries + 1 < Attempts THEN "ready" ELSE "done"
    /\ trouble' = TRUE

TryAgain_OneMore ==  \* mutated form: one attempt too many
    /\ tries' = tries + 1
    /\ stage' = IF tries < Attempts THEN "ready" ELSE "failed"
    /\ trouble' = TRUE

(* retry-go waits and tries again until the attempts are used up.          *)
TryAgain ==
    /\ tries' = tries + 1
    /\ stage' = IF tries + 1 < Attempts THEN "ready" ELSE "failed"
    /\ trouble' = TRUE

(* No connection: the body is left as it is.                               *)
DialFails ==
    /\ stage = "ready"
    /\ TryAgain
    /\ UNCHANGED <<kind, body, copy, answer>>

(* A new connection and a body that has been read: net/http sees less body *)
(* than ContentLength says and sends nothing.                              *)
BodySpent ==
    /\ stage = "ready"
    /\ body = "spent"
    /\ TryAgain
    /\ UNCHANGED <<kind, body, copy, answer>>

(* The first time the body is simply there; later net/http gets a new one  *)
(* from GetBody when it finds an idle connection to reuse.                 *)
Send ==
    /\ stage = "ready"
    /\ copy' = [copy EXCEPT ![Current] = "sent"]
    /\ body' = "spent"
    /\ stage' = "waiting"
    /\ UNCHANGED <<kind, tries, answer, trouble>>

(* Ten seconds pass or the connection breaks, wherever the copy is.        *)
TimesOut ==
    /\ stage = "waiting"
    /\ TryAgain
    /\ UNCHANGED <<kind, body, copy, answer>>

Hear ==
    /\ stage = "waiting"
    /\ copy[Current] \in {"carried", "refused"}
    /\ answer' = copy[Current]
    /\ UNCHANGED <<kind, body, copy>>

Answered_Retried ==  \* mutated form: any status but 200 is retried
    /\ Hear
    /\ \/ answer' = "carried" /\ stage' = "done" /\ UNCHANGED <<tries, trouble>>
       \/ answer' = "refused" /\ TryAgain

(* Any answer ends the call; one other than 200 is an error.               *)
Answered ==
    /\ Hear
    /\ stage' = IF answer' = "carried" THEN "done" ELSE "failed"
    /\ UNCHANGED <<tries, trouble>>

(* CreateNewTask reads the body of the answer, UpdateTaskInfo does not.    *)
Unreadable ==
    /\ Hear
    /\ kind = "create"
    /\ answer' = "carried"
    /\ stage' = "failed"
    /\ trouble' = TRUE
    /\ UNCHANGED tries

-----------------------------------------------------------------------------
(* The other side: a copy is served or lost whatever its sender does.      *)
Serve(c) ==
    /\ copy[c] = "sent"
    /\ \E s \in {"carried", "refused", "lost"} : copy' = [copy EXCEPT ![c] = s]
    /\ UNCHANGED <<kind, stage, tries, body, answer, trouble>>

ClientStep == DialFails \/ BodySpent \/ Send \/ TimesOut \/ Answered \/ Unreadable

ClientNext == ClientStep \/ \E c \in Copy : Serve(c)

ClientSpec == ClientInit /\ [][ClientNext]_clientVars

(* Every attempt has a timeout, the waits between them are bounded.        *)
ClientFairSpec == ClientSpec /\ WF_clientVars(ClientStep)

-----------------------------------------------------------------------------
(* A call keeps the contract that TaskStore builds on: without trouble on  *)
(* the way it is carried out exactly once or not at all, and nothing is    *)
(* sent once the caller has its answer (webhook.go:44-56).                 *)
Contract ==
    INSTANCE ServiceCall
        WITH outcome <- IF stage \in {"ready", "waiting"} THEN "open" ELSE stage,
             alive <- {c \in Copy : copy[c] = "sent"},
             carried <- {c \in Copy : copy[c] = "carried"}

ContractHolds == Contract!ContractSpec

(* The service's word is final: when the caller hears that the write was   *)
(* refused, no later copy of it is ever carried out (webhook.go:50 retries *)
(* errors of Do only, 91 and 120 look at the status afterwards); only a    *)
(* copy whose attempt had timed out before may still be.                   *)
RefusalIsFinal ==
    answer = "refused" => \A c \in Copy : copy[c] = "carried" => c < Current

(* Every call returns, whatever the network does.                          *)
EveryCallReturns == <>(stage \in {"done", "failed"})

=============================================================================
