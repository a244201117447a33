------------------------------- MODULE MailJob -------------------------------
(***************************************************************************)
(* What the e-mail service of the firmware promises the console, while the *)
(* UART works: SendEmail (Application/SMTP/smtp.c) is accepted only when   *)
(* no mail is in hand; an accepted mail is begun, gets one definite result *)
(* that is never taken back, and is "success" only when the mail server    *)
(* has taken the mail; then there is room for the next one.                *)
(***************************************************************************)
VARIABLES
  phase,   \* of the mail in hand: "idle" when there is none
  result,  \* of the mail begun last
  taken    \* the mail server took a mail since the last one was begun

vars == <<phase, result, taken>>

Results == {"SUCCESS", "FAIL"}

TypeOK ==
  /\ phase \in {"idle", "requested", "running"}
  /\ result \in Results \cup {"none", "pending"}
  /\ taken \in BOOLEAN

Init == phase = "idle" /\ result = "none" /\ taken = FALSE

Request ==
  phase = "idle" /\ phase' = "requested" /\ UNCHANGED <<result, taken>>

Begin ==
  /\ phase = "requested" /\ phase' = "running"
  /\ result' = "pending" /\ taken' = FALSE

\* Possibly after the task has given the mail up.
ServerTakesMail ==
  ~taken /\ taken' = TRUE /\ UNCHANGED <<phase, result>>

Conclude ==
  /\ phase = "running" /\ result = "pending"
  /\ \/ result' = "SUCCESS" /\ taken
     \/ result' = "FAIL"
  /\ UNCHANGED <<phase, taken>>

End ==
  phase = "running" /\ result \in Results /\ phase' = "idle" /\ UNCHANGED <<result, taken>>

Next == Request \/ Begin \/ ServerTakesMail \/ Conclude \/ End

\* A mail requested is begun, one begun gets its result, one with a result is over.
Progress == WF_vars(Begin) /\ WF_vars(Conclude) /\ WF_vars(End)

Spec == Init /\ [][Next]_vars /\ Progress

=============================================================================
