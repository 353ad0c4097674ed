------------------------ MODULE WebhookClientProofs ------------------------
(***************************************************************************)
(* For every number of attempts: a call of SendRequest keeps the contract  *)
(* of ServiceCall, and a refusal is final.  The invariant says which       *)
(* copies can exist at each stage: those of attempts already made, and no  *)
(* attempt is made twice or after an answer.                               *)
(***************************************************************************)
EXTENDS WebhookClient, TLAPS

Open == stage \in {"ready", "waiting"}

Unmade(first) == \A c \in Copy : c >= first => copy[c] = "unsent"

CopiesInOrder ==
    /\ tries > 0 => trouble
    /\ Open => tries < Attempts /\ answer = "none"
    /\ stage = "ready" => Unmade(Current)
    /\ Unmade(Current + 1)
    /\ stage = "waiting" => copy[Current] # "unsent"
    /\ answer # "none" => ~Open /\ Current \in Copy /\ copy[Current] = answer

ClientInv == ClientTypeOK /\ CopiesInOrder

(* The invariant holds when the call begins.                               *)
LEMMA ClientInvInit == ClientInit => ClientInv
<1> SUFFICES ASSUME ClientInit PROVE ClientInv
  OBVIOUS
<1>1. ClientTypeOK
  <2>1. tries \in 0..Attempts
    BY WebhookClientAssumption DEF ClientInit
  <2>2. copy \in [Copy -> CopyState]
    BY DEF ClientInit, CopyState
  <2> QED BY <2>1, <2>2 DEF ClientInit, ClientTypeOK
<1>2. tries = 0 /\ 0 < Attempts /\ answer = "none" /\ stage = "ready" /\ trouble = FALSE
  BY WebhookClientAssumption DEF ClientInit
<1>3. \A c \in Copy : copy[c] = "unsent"
  BY DEF ClientInit
<1>4. CopiesInOrder
  BY <1>2, <1>3 DEF CopiesInOrder, Open, Unmade
<1> QED BY <1>1, <1>4 DEF ClientInv

(* An attempt fails: whatever its copy does, the next one is not made yet. *)
LEMMA TryAgainKeepsInv ==
    ASSUME ClientInv, Open, TryAgain, UNCHANGED <<kind, copy, answer>>, body' \in {"fresh", "spent"}
    PROVE  ClientInv'
<1>1. tries \in Nat /\ tries < Attempts /\ Attempts \in Nat
  BY WebhookClientAssumption DEF ClientInv, ClientTypeOK, CopiesInOrder
<1>2. tries' = tries + 1 /\ trouble' = TRUE /\ answer' = "none" /\ copy' = copy
  BY DEF TryAgain, ClientInv, CopiesInOrder
<1>3. stage' \in {"ready", "failed"} /\ (stage' = "ready" => tries' < Attempts)
  BY <1>1, <1>2 DEF TryAgain
<1>4. ClientTypeOK'
  BY <1>1, <1>2, <1>3 DEF ClientInv, ClientTypeOK
<1>5. \A c \in Copy : c >= tries' + 1 => copy'[c] = "unsent"
  BY <1>1, <1>2 DEF ClientInv, CopiesInOrder, Unmade, Current
<1>6. CopiesInOrder'
  BY <1>1, <1>2, <1>3, <1>5 DEF CopiesInOrder, Unmade, Current, Open, Copy
<1> QED BY <1>4, <1>6 DEF ClientInv

(* The service, whenever it gets to a copy, keeps it.                      *)
LEMMA ServeKeepsInv ==
    ASSUME ClientInv, NEW c \in Copy, Serve(c)
    PROVE  ClientInv'
<1>1. /\ copy \in [Copy -> CopyState] /\ copy[c] = "sent"
      /\ UNCHANGED <<kind, stage, tries, body, answer, trouble>>
  BY DEF ClientInv, ClientTypeOK, Serve
<1>2. PICK s \in {"carried", "refused", "lost"} : copy' = [copy EXCEPT ![c] = s]
  BY DEF Serve
<1>3. ClientTypeOK'
  BY <1>1, <1>2 DEF ClientInv, ClientTypeOK, CopyState
<1>4. \A d \in Copy : copy[d] = "unsent" => copy'[d] = "unsent"
  BY <1>1, <1>2
<1>5. \A d \in Copy : copy[d] # "unsent" => copy'[d] # "unsent"
  BY <1>1, <1>2
<1>6. \A d \in Copy : copy[d] \in {"carried", "refused"} => copy'[d] = copy[d]
  BY <1>1, <1>2
<1>7. tries \in Nat /\ Attempts \in Nat /\ answer \in {"none", "carried", "refused"}
  BY WebhookClientAssumption DEF ClientInv, ClientTypeOK
<1>8. CopiesInOrder'
  BY <1>1, <1>4, <1>5, <1>6, <1>7 DEF ClientInv, CopiesInOrder, Unmade, Current, Open, Copy
<1> QED BY <1>3, <1>8 DEF ClientInv

(* Every attempt, answer and timeout keeps it.                             *)
LEMMA ClientInvStep == ClientInv /\ [ClientNext]_clientVars => ClientInv'
<1> SUFFICES ASSUME ClientInv, [ClientNext]_clientVars
             PROVE  ClientInv'
  OBVIOUS
<1>1. /\ tries \in Nat /\ Attempts \in Nat
      /\ copy \in [Copy -> CopyState] /\ answer \in {"none", "carried", "refused"}
  BY WebhookClientAssumption DEF ClientInv, ClientTypeOK
<1>2. CASE DialFails \/ BodySpent \/ TimesOut
  BY <1>2, TryAgainKeepsInv DEF DialFails, BodySpent, TimesOut, Open, ClientInv, ClientTypeOK
<1>3. CASE Send
  <2>1. Current \in Copy /\ stage = "ready"
    BY <1>1, <1>3 DEF Send, ClientInv, CopiesInOrder, Open, Current, Copy
  <2>2. copy'[Current] = "sent" /\ \A c \in Copy \ {Current} : copy'[c] = copy[c]
    BY <1>1, <1>3, <2>1 DEF Send
  <2>3. ClientTypeOK'
    BY <1>1, <1>3, <2>1 DEF Send, ClientInv, ClientTypeOK, CopyState
  <2>4. CopiesInOrder'
    BY <1>1, <1>3, <2>1, <2>2
    DEF Send, ClientInv, CopiesInOrder, Unmade, Current, Open, Copy
  <2> QED BY <2>3, <2>4 DEF ClientInv
<1>4. CASE Answered \/ Unreadable
  <2>1. /\ stage = "waiting" /\ answer' = copy[Current] /\ answer' \in {"carried", "refused"}
        /\ stage' \in {"done", "failed"} /\ (trouble => trouble') /\ trouble' \in BOOLEAN
        /\ UNCHANGED <<kind, tries, body, copy>>
    BY <1>4 DEF Answered, Unreadable, Hear, ClientInv, ClientTypeOK
  <2>2. Current \in Copy
    BY <1>1, <2>1 DEF ClientInv, CopiesInOrder, Open, Current, Copy
  <2>3. ClientTypeOK'
    BY <2>1 DEF ClientInv, ClientTypeOK
  <2>4. CopiesInOrder'
    BY <1>1, <2>1, <2>2 DEF ClientInv, CopiesInOrder, Unmade, Current, Open, Copy
  <2> QED BY <2>3, <2>4 DEF ClientInv
<1>5. CASE \E c \in Copy : Serve(c)
  BY <1>5, ServeKeepsInv
<1>6. CASE UNCHANGED clientVars
  BY <1>6 DEF clientVars, ClientInv, ClientTypeOK, CopiesInOrder, Unmade, Current, Open
<1> QED BY <1>2, <1>3, <1>4, <1>5, <1>6 DEF ClientNext, ClientStep

(* Every variable has its type: in particular no more than Attempts copies *)
(* of a write are ever sent.                                               *)
THEOREM WebhookClientTypeCorrect == ClientSpec => []ClientTypeOK
<1>1. ClientInv => ClientTypeOK
  BY DEF ClientInv
<1> QED BY ClientInvInit, ClientInvStep, <1>1, PTL DEF ClientSpec

(* Once the caller has heard a refusal no later copy is carried out.       *)
THEOREM RefusalsAreFinal == ClientSpec => []RefusalIsFinal
<1>1. ClientInv => RefusalIsFinal
  <2> SUFFICES ASSUME ClientInv, answer = "refused", NEW c \in Copy, copy[c] = "carried"
               PROVE  c < Current
    BY DEF RefusalIsFinal
  <2>1. copy[Current] = "refused" /\ Unmade(Current + 1) /\ Current \in Nat
    BY DEF ClientInv, ClientTypeOK, CopiesInOrder, Current
  <2> QED BY <2>1, WebhookClientAssumption DEF Unmade, Copy
<1> QED BY ClientInvInit, ClientInvStep, <1>1, PTL DEF ClientSpec

-----------------------------------------------------------------------------
Alive == {c \in Copy : copy[c] = "sent"}
Carried == {c \in Copy : copy[c] = "carried"}

(* Without trouble there has been one attempt at most.                     *)
LEMMA OneCopyWithoutTrouble ==
    ASSUME ClientInv, ~trouble
    PROVE  Current = 1 /\ \A c \in Copy : c # 1 => copy[c] = "unsent"
BY WebhookClientAssumption DEF ClientInv, ClientTypeOK, CopiesInOrder, Unmade, Current, Copy

(* Every step of the client and the service is a step the contract allows. *)
LEMMA StepKeepsContract ==
    ASSUME ClientInv, [ClientNext]_clientVars
    PROVE  [Contract!ContractNext]_Contract!contractVars
<1> USE DEF Contract!contractVars
<1>1. /\ tries \in Nat /\ Attempts \in Nat
      /\ copy \in [Copy -> CopyState] /\ trouble \in BOOLEAN
      /\ stage \in {"ready", "waiting", "done", "failed"}
  BY WebhookClientAssumption DEF ClientInv, ClientTypeOK
<1>2. CASE DialFails \/ BodySpent \/ TimesOut
  <2>1. Open /\ TryAgain /\ copy' = copy
    BY <1>2 DEF DialFails, BodySpent, TimesOut, Open
  <2>2. trouble' = TRUE /\ stage' \in {"ready", "failed"}
    BY <2>1 DEF TryAgain
  <2> QED BY <2>1, <2>2 DEF Open, Contract!ContractNext, Contract!MeetTrouble, Contract!Fail
<1>3. CASE Send
  <2>1. PICK c \in Copy : c = Current
    BY <1>1, <1>3 DEF Send, ClientInv, CopiesInOrder, Open, Current, Copy
  <2>2. copy[c] = "unsent" /\ copy' = [copy EXCEPT ![c] = "sent"]
    BY <1>1, <1>3, <2>1 DEF Send, ClientInv, CopiesInOrder, Unmade, Current
  <2>3. /\ Alive' = Alive \cup {c} /\ Carried' = Carried
        /\ c \notin Alive \cup Carried
    BY <1>1, <2>2 DEF Alive, Carried
  <2>4. trouble \/ Alive \cup Carried = {}
    BY <2>1, <2>2, OneCopyWithoutTrouble DEF Alive, Carried
  <2>5. Contract!SendCopy(c)
    BY <1>3, <2>3, <2>4 DEF Send, Contract!SendCopy, Alive, Carried
  <2> QED BY <2>5 DEF Contract!ContractNext
<1>4. CASE Answered \/ Unreadable
  <2>1. /\ stage = "waiting" /\ copy' = copy
        /\ copy[Current] \in {"carried", "refused"} /\ Current \in Copy
    BY <1>1, <1>4 DEF Answered, Unreadable, Hear, ClientInv, CopiesInOrder, Open, Current, Copy
  <2>2. CASE stage' = "done"
    <3>1. copy[Current] = "carried" /\ trouble' = trouble
      BY <1>4, <2>2 DEF Answered, Unreadable, Hear
    <3>2. Carried # {}
      BY <2>1, <3>1 DEF Carried
    <3>3. ASSUME ~trouble
          PROVE  Alive = {} /\ Carried = {Current}
      BY <2>1, <3>1, <3>3, OneCopyWithoutTrouble DEF Alive, Carried
    <3>4. Contract!Succeed
      BY <2>1, <2>2, <3>1, <3>2, <3>3 DEF Contract!Succeed, Alive, Carried
    <3> QED BY <3>4 DEF Contract!ContractNext
  <2>3. CASE stage' = "failed"
    <3>1. trouble' = TRUE \/ (trouble' = trouble /\ copy[Current] = "refused")
      BY <1>4, <2>1, <2>3 DEF Answered, Unreadable, Hear
    <3>2. ASSUME ~trouble, copy[Current] = "refused"
          PROVE  Alive \cup Carried = {}
      BY <3>2, OneCopyWithoutTrouble DEF Alive, Carried
    <3>3. Contract!Fail
      BY <1>1, <2>1, <2>3, <3>1, <3>2 DEF Contract!Fail, Alive, Carried
    <3> QED BY <3>3 DEF Contract!ContractNext
  <2> QED BY <1>4, <2>2, <2>3 DEF Answered, Unreadable
<1>5. ASSUME NEW c \in Copy, Serve(c)
      PROVE  Contract!ContractNext
  <2>1. copy[c] = "sent" /\ UNCHANGED <<stage, trouble>>
    BY <1>5 DEF Serve
  <2>2. PICK s \in {"carried", "refused", "lost"} : copy' = [copy EXCEPT ![c] = s]
    BY <1>5 DEF Serve
  <2>3. Alive' = Alive \ {c} /\ c \in Alive
    BY <1>1, <2>1, <2>2 DEF Alive
  <2>4. Carried' = IF s = "carried" THEN Carried \cup {c} ELSE Carried
    BY <1>1, <2>1, <2>2 DEF Carried
  <2>5. Contract!CarryCopy(c) \/ Contract!DropCopy(c)
    BY <2>1, <2>3, <2>4 DEF Contract!CarryCopy, Contract!DropCopy, Alive, Carried
  <2> QED BY <2>5 DEF Contract!ContractNext
<1>6. CASE UNCHANGED clientVars
  BY <1>6 DEF clientVars
<1> QED BY <1>2, <1>3, <1>4, <1>5, <1>6 DEF ClientNext, ClientStep

(* The call is the atomic step, plus faults, that TaskStore takes it for.  *)
THEOREM WebhookCallKeepsContract == ClientSpec => ContractHolds
<1>1. ClientInit => Contract!ContractInit
  BY DEF ClientInit, Contract!ContractInit
<1>2. ClientInv /\ [ClientNext]_clientVars => [Contract!ContractNext]_Contract!contractVars
  BY StepKeepsContract
<1> QED
  BY ClientInvInit, ClientInvStep, <1>1, <1>2, PTL
  DEF ClientSpec, ContractHolds, Contract!ContractSpec

=============================================================================
