----------------------------- MODULE ContactForm -----------------------------
(***************************************************************************)
(* An enquiry's way from the contact form through the website's route and  *)
(* the backend to the email provider, and the answer's way back.  Every    *)
(* hop gives up after its own time, what it started goes on, and only what *)
(* the form is told decides whether the guest's text is cleared.           *)
(***************************************************************************)
EXTENDS Integers, Sequences

CONSTANTS
  Modes,        \* CONTACT_EMAIL_MODE, "off" when what it needs is not complete
  MaxTexts,     \* bound: texts the guest writes
  MaxAttempts   \* bound: times he submits the form

ASSUME FormAssumption ==
  Modes \subseteq {"off", "sandbox", "send"} /\ MaxTexts \in Nat /\ MaxAttempts \in Nat

VARIABLES
  setting,      \* the mode the server runs in
  text,         \* what the form holds: the n-th text, 0 when it is blank
  texts,        \* bound: texts written so far
  pending,      \* the attempt the form waits for, 0 for none
  notice,
  attempts,     \* [text, stage, answer] of every attempt
  copies,       \* how often the provider took a text for delivery
  doubts,       \* how often the guest was told a text is not confirmed
  sure          \* history: texts the form reported as accepted

formVars ==
  <<setting, text, texts, pending, notice, attempts, copies, doubts, sure>>

Notices == {"none", "accepted", "sandbox", "limited", "invalid", "unconfirmed"}

-----------------------------------------------------------------------------
(* The form.                                                               *)

(* Its fields stay open while an attempt is under way.                     *)
Write ==
  /\ texts < MaxTexts /\ texts' = texts + 1 /\ text' = texts + 1
  /\ UNCHANGED <<setting, pending, notice, attempts, copies, doubts, sure>>

FormFree == pending = 0

SubmitForm ==
  /\ FormFree /\ text # 0 /\ Len(attempts) < MaxAttempts
  /\ attempts' = Append(attempts, [text |-> text, stage |-> "way", answer |-> "none"])
  /\ pending' = Len(attempts) + 1
  /\ notice' = "none"
  /\ UNCHANGED <<setting, text, texts, copies, doubts, sure>>

-----------------------------------------------------------------------------
(* The backend.                                                            *)

Stands(i, stage) == i \in DOMAIN attempts /\ attempts[i].stage = stage

AnsweredWith(i, answer) ==
  attempts' = [attempts EXCEPT ![i].stage = "answered", ![i].answer = answer]

(* Refused by the route, the rate limit or the validation, whose rules are *)
(* narrower than the form's.                                               *)
Reject(i) ==
  /\ Stands(i, "way")
  /\ \E answer \in {"413", "429", "400"} : AnsweredWith(i, answer)
  /\ UNCHANGED <<setting, text, texts, pending, notice, copies, doubts, sure>>

Dispatch(i) ==
  /\ Stands(i, "way")
  /\ IF setting = "off" THEN AnsweredWith(i, "503")
     ELSE attempts' = [attempts EXCEPT ![i].stage = "provider"]
  /\ UNCHANGED <<setting, text, texts, pending, notice, copies, doubts, sure>>

(* The provider's 201 and message identifier, in eight seconds.            *)
Outcome(taken, confirmed) ==
  IF ~(taken /\ confirmed) THEN "503"
  ELSE IF setting = "sandbox" THEN "sandbox" ELSE "accepted"

(* A sandbox message is checked and dropped.                               *)
Provider(i) ==
  /\ Stands(i, "provider")
  /\ \E taken, confirmed \in BOOLEAN :
       /\ AnsweredWith(i, Outcome(taken, confirmed))
       /\ copies' = IF taken /\ setting = "send"
                    THEN [copies EXCEPT ![attempts[i].text] = @ + 1] ELSE copies
  /\ UNCHANGED <<setting, text, texts, pending, notice, doubts, sure>>

-----------------------------------------------------------------------------
(* The answer.                                                             *)

(* What the route makes of the backend's answer.                           *)
Bridge(answer) ==
  IF answer \in {"400", "413", "429", "accepted", "sandbox"} THEN answer ELSE "503"

(* What the form makes of the route's.                                     *)
Reading(answer) ==
  CASE answer = "429" -> "limited"
    [] answer = "400" -> "invalid"
    [] answer \in {"accepted", "sandbox"} -> answer
    [] OTHER -> "unconfirmed"

Says(said) ==
  /\ notice' = said /\ pending' = 0
  /\ text' = IF said = "accepted" THEN 0 ELSE text
  /\ doubts' = IF said = "unconfirmed"
               THEN [doubts EXCEPT ![attempts[pending].text] = @ + 1] ELSE doubts
  /\ sure' = IF said = "accepted" THEN sure \cup {attempts[pending].text} ELSE sure

AnswerArrives ==
  /\ Stands(pending, "answered")
  /\ Says(Reading(Bridge(attempts[pending].answer)))
  /\ UNCHANGED <<setting, texts, attempts, copies>>

(* Ten or twelve seconds are over, or a connection is lost: the attempt    *)
(* goes on.                                                                *)
FormGivesUp ==
  /\ pending # 0
  /\ Says("unconfirmed")
  /\ UNCHANGED <<setting, texts, attempts, copies>>

FormInit ==
  /\ setting \in Modes /\ text = 0 /\ texts = 0 /\ pending = 0 /\ notice = "none"
  /\ attempts = <<>> /\ sure = {}
  /\ copies = [t \in 1 .. MaxTexts |-> 0] /\ doubts = [t \in 1 .. MaxTexts |-> 0]

FormNext ==
  \/ Write \/ SubmitForm \/ AnswerArrives \/ FormGivesUp
  \/ \E i \in DOMAIN attempts : Reject(i) \/ Dispatch(i) \/ Provider(i)

FormSpec == FormInit /\ [][FormNext]_formVars

-----------------------------------------------------------------------------
(* Properties.                                                             *)

(* The form, its attempts and the provider's counts are of their kinds.    *)
FormTypeOK ==
  /\ setting \in Modes /\ notice \in Notices /\ text \in 0 .. texts
  /\ texts \in 0 .. MaxTexts /\ pending \in 0 .. Len(attempts)
  /\ copies \in [1 .. MaxTexts -> 0 .. MaxAttempts]
  /\ doubts \in [1 .. MaxTexts -> 0 .. MaxAttempts]

(* The form reports an enquiry as accepted, and is cleared, only when the  *)
(* provider took that very enquiry, to be delivered: neither a sandbox,    *)
(* nor a lost or odd answer, nor another attempt's answer does it.         *)
AcceptedIsTaken == \A t \in sure : copies[t] > 0

(* The hotel gets an enquiry twice only when its guest was told that it is *)
(* not confirmed and sent it again: each further copy had such a notice.   *)
TwiceOnlyInDoubt == \A t \in 1 .. MaxTexts : copies[t] <= doubts[t] + 1

FormSafe == FormTypeOK /\ AcceptedIsTaken /\ TwiceOnlyInDoubt

=============================================================================
