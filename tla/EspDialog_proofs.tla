-------------------------- MODULE EspDialog_proofs --------------------------
(***************************************************************************)
(* The dialog with the mail server: why a mail that is reported as sent    *)
(* was taken by the server, whatever is lost, late, torn or answered to    *)
(* something else, for every number of recipients and packets.             *)
(*                                                                         *)
(* Stale answers are possible: the greeting of the server may still be on  *)
(* its way, or already in the buffer, when the task has gone on.  The      *)
(* invariant says how far the server can be at each place of the task, and *)
(* which answers may then still be in the buffer or on their way.          *)
(*                                                                         *)
(* From it also follows that EspMail implements MailJob, as long as the    *)
(* UART does not fail and the task is not restarted.                       *)
(***************************************************************************)
EXTENDS EspMail_proofs

Loading == esp.cmd = "load"

SentOk == "SEND OK" \in rx.seen

\* What is heard of the server, and what the ESP32 may be busy with.
Heard ==
  /\ srv.reply = "220" => srv.pos = 0
  /\ srv.reply = "354" => srv.pos = DataStep
  /\ rx.ipd = "220" => srv.pos <= 0 \/ (srv.pos = 1 /\ ~Loading)
  /\ esp.data => esp.cmd = "none"
  /\ esp.link => srv.pos >= 0

\* Waiting for ">": the packet of this step has not been sent.
AtPrompt ==
  pc = "prompt" =>
    /\ step >= 1 /\ (">" \in rx.seen => esp.data)
    /\ step = 1 => srv.pos <= 0 \/ (srv.pos = 1 /\ (Loading => esp.load <= 0))
    /\ step > 1 => /\ esp.cmd \in {"none", "sendMail"} /\ (esp.data => esp.mail)
                   /\ srv.pos <= step - 1
    /\ step > DataStep => srv.pos \in {step - 1, Junk} /\ srv.reply = "none"

\* Waiting for SEND OK: the ESP32 still has the packet ...
StillLoading ==
  /\ Loading /\ esp.load = step /\ (step > 1 => esp.mail)
  /\ ~SentOk
  /\ srv.pos <= step - 1 \/ (step = 1 /\ srv.pos = 1)
  /\ rx.ipd # "354" \/ step # DataStep
  /\ step > DataStep => /\ srv.pos \in {step - 1, Junk} /\ srv.reply = "none"
                        /\ rx.ipd # "250"

\* ... or has done with it.  Whoever hears 354 has got the server into the text,
\* and whoever hears 250 after the last packet has had the mail accepted.
InTextAt354 ==
  step = DataStep /\ rx.ipd = "354" => srv.pos \in {DataStep, Junk} /\ srv.reply = "none"

AcceptedAt250 ==
  step = LastStep /\ "250" \in {rx.ipd, srv.reply} => accepted

TextSent ==
  step > DataStep /\ step < LastStep /\ SentOk
    => srv.pos \in {step, Junk} /\ srv.reply = "none"

AtSendOk ==
  pc = "sendok" =>
    /\ step >= 1 /\ ~esp.data /\ srv.pos <= step
    /\ esp.cmd = "none" \/ StillLoading
    /\ InTextAt354 /\ TextSent /\ AcceptedAt250

AtAnswer ==
  pc = "answer" =>
    /\ step \in 0..DataStep \cup {LastStep}
    /\ step > 0 => esp.cmd = "none" /\ ~esp.data /\ srv.pos <= step
    /\ InTextAt354 /\ AcceptedAt250

Dialog == Heard /\ AtPrompt /\ AtSendOk /\ AtAnswer /\ SuccessMeansAccepted

-----------------------------------------------------------------------------
(* The steps of the task. *)

\* The answers the argument turns on.
LEMMA ExpectedAt ==
  ASSUME NEW k \in Nat
  PROVE  /\ k = 0 => Expected(k) = "220"
         /\ k = DataStep => Expected(k) = "354"
         /\ k = LastStep => Expected(k) = "250"
         /\ Expected(k) = "none" <=> k > DataStep /\ k < LastStep
         /\ k > 0 => Expected(k) # "220"
         /\ k > 0 /\ k # DataStep => Expected(k) # "354"
  <1>1. CASE k = 0
    <2>1. k # 2 /\ k # 3 /\ k # 4 /\ k # DataStep /\ k # LastStep /\ ~(k > DataStep)
      BY <1>1, StepsAreNat
    <2>2. Expected(k) = "220"
      BY <1>1, <2>1, Zenon DEF Expected, Greeting
    <2> QED
      BY <1>1, <2>1, <2>2, StepsAreNat
  <1>2. CASE k = DataStep
    <2>1. k # 0 /\ k # 2 /\ k # 3 /\ k # 4 /\ k # LastStep /\ ~(k > DataStep)
      BY <1>2, StepsAreNat
    <2>2. Expected(k) = "354"
      BY <1>2, <2>1, Zenon DEF Expected, Greeting
    <2> QED
      BY <1>2, <2>1, <2>2, StepsAreNat
  <1>3. CASE k # 0 /\ k # DataStep
    <2>1. \/ Expected(k) = "334" \/ Expected(k) = "235" \/ Expected(k) = "250"
          \/ Expected(k) = "none" /\ k > DataStep /\ k < LastStep
      <3>1. CASE k = 2 \/ k = 3
        <4>1. k # 4 /\ ~(k > DataStep)
          BY <3>1, StepsAreNat
        <4> QED
          BY <1>3, <3>1, <4>1, Zenon DEF Expected, Greeting
      <3>2. CASE k = 4
        <4>1. k # 2 /\ k # 3 /\ ~(k > DataStep)
          BY <3>2, StepsAreNat
        <4> QED
          BY <1>3, <3>2, <4>1, Zenon DEF Expected, Greeting
      <3>3. CASE k > DataStep /\ k < LastStep
        <4>1. k # 2 /\ k # 3 /\ k # 4
          BY <3>3, StepsAreNat
        <4> QED
          BY <1>3, <3>3, <4>1, Zenon DEF Expected, Greeting
      <3>4. CASE k # 2 /\ k # 3 /\ k # 4 /\ ~(k > DataStep /\ k < LastStep)
        BY <1>3, <3>4, Zenon DEF Expected, Greeting
      <3> QED
        BY <3>1, <3>2, <3>3, <3>4
    <2>2. k > DataStep /\ k < LastStep => Expected(k) = "none"
      <3> SUFFICES ASSUME k > DataStep, k < LastStep PROVE Expected(k) = "none"
        OBVIOUS
      <3>1. k # 2 /\ k # 3 /\ k # 4
        BY StepsAreNat
      <3> QED
        BY <1>3, <3>1, Zenon DEF Expected, Greeting
    <2>3. k = LastStep => Expected(k) = "250"
      <3> SUFFICES ASSUME k = LastStep PROVE Expected(k) = "250"
        OBVIOUS
      <3>1. k # 2 /\ k # 3 /\ k # 4 /\ ~(k < LastStep)
        BY StepsAreNat
      <3> QED
        BY <1>3, <3>1, Zenon DEF Expected, Greeting
    <2> QED
      BY <1>3, <2>1, <2>2, <2>3
  <1> QED
    BY <1>1, <1>2, <1>3

LEMMA NothingHeard ==
  ASSUME rx' = Nothing
  PROVE  rx'.ipd = "none" /\ ">" \notin rx'.seen /\ ~SentOk'
  <1>1. rx'.ipd = "none" /\ rx'.seen = {}
    BY DEF Nothing
  <1> QED
    BY <1>1, Zenon DEF SentOk

\* What a transmission does to the ESP32.
LEMMA SendDoes ==
  ASSUME esp \in EspType, NEW cmd \in Cmds \ {"load"}, Send(cmd)
  PROVE  /\ rx' = Nothing /\ esp'.link = esp.link /\ esp'.mail = esp.mail /\ ~esp'.data
         /\ \/ esp.data /\ esp'.cmd = "load" /\ esp'.load = Junk
            \/ ~esp.data /\ esp.cmd # "none" /\ esp'.cmd = esp.cmd /\ esp'.load = esp.load
            \/ ~esp.data /\ esp.cmd = "none" /\ esp'.cmd = cmd
  BY DEF Send, RestartDMA, EspTakes, EspType

LEMMA SendLoadDoes ==
  ASSUME esp \in EspType, NEW load \in Int, SendLoad(load)
  PROVE  /\ rx' = Nothing /\ esp'.link = esp.link /\ esp'.mail = esp.mail /\ ~esp'.data
         /\ esp.data => esp'.cmd = "load" /\ esp'.load = load
  BY DEF SendLoad, RestartDMA, EspTakes, EspType

\* The buffer and the ESP32 after any step of the task.
Buffered == rx' = rx /\ esp' = esp
Emptied  == rx' = Nothing /\ (esp' = esp \/ (esp'.link = esp.link /\ ~esp'.data))

LEMMA TaskBuffered ==
  ASSUME TypeOK, Place, vtaskWifi
  PROVE  srv' = srv /\ (Buffered \/ Emptied)
  <1> USE DEF Buffered, Emptied, buffer, Elsewhere
  <1>1. esp \in EspType
    BY DEF TypeOK
  <1>2. {"AT", "bad", "srvon", "srvoff", "close", "cipstart", "sendMail", "sendWeb"}
          \subseteq Cmds \ {"load"}
    BY DEF Cmds
  <1>3. Junk \in Int /\ Quit \in Int /\ step \in Int
    BY DEF Junk, Quit, TypeOK
  <1>4. CASE ServeGet
    BY <1>1, <1>2, SendDoes, <1>4 DEF ServeGet, Awake
  <1>5. CASE EspReady \/ InitNext \/ InitDone
    BY <1>1, <1>2, SendDoes, <1>5 DEF EspReady, Awake, InitNext, InitDone, RestartDMA
  <1>6. CASE Greet \/ NothingToDo \/ DialogFails
    BY <1>6 DEF Greet, NothingToDo, Awake, DialogFails
  <1>7. CASE WebPacket \/ WebMore \/ WebEnd \/ WebClosed \/ WebDummy
    BY <1>1, <1>2, <1>3, SendDoes, SendLoadDoes, <1>7
       DEF WebPacket, WebMore, WebEnd, WebClosed, WebDummy, RestartDMA
  <1>8. CASE AnswerGood \/ CommandSent
    BY <1>1, <1>2, SendDoes, <1>8 DEF AnswerGood, CommandSent, SendCommand
  <1>9. CASE CommandPrompt \/ SendQuit \/ QuitPrompt
    BY <1>1, <1>2, <1>3, SendDoes, SendLoadDoes, <1>9 DEF CommandPrompt, SendQuit, QuitPrompt
  <1>10. CASE FinishMail \/ ServerStarted
    BY <1>1, <1>2, SendDoes, <1>10 DEF FinishMail, ServerStarted, RestartDMA
  <1>11. CASE ResetDummy \/ ResetMail \/ ResetServer
    BY <1>1, <1>2, SendDoes, <1>11 DEF ResetDummy, ResetMail, ResetServer, ResetOnly
  <1>12. CASE NoMail \/ MailNoticed \/ CannotSend
    BY <1>12 DEF NoMail, MailNoticed, CannotSend
  <1>13. CASE EmailSendStart \/ OpenChannel
    BY <1>1, <1>2, SendDoes, <1>13 DEF EmailSendStart, OpenChannel
  <1> QED
    BY <1>4, <1>5, <1>6, <1>7, <1>8, <1>9, <1>10, <1>11, <1>12, <1>13 DEF vtaskWifi

LEMMA HeardTask ==
  ASSUME TypeOK, Place, Heard, vtaskWifi
  PROVE  Heard'
  <1>1. srv' = srv /\ (Buffered \/ Emptied)
    BY TaskBuffered
  <1> QED
    BY <1>1 DEF Heard, Loading, Buffered, Emptied, Nothing

\* The task goes to a prompt with the next step, only from here.
LEMMA NextCommand ==
  ASSUME TypeOK, Heard, SendCommand(step + 1), srv' = srv, step \in 0..LastStep - 1,
         step = 0 => srv.pos <= 0 \/ (srv.pos = 1 /\ ~Loading),
         step > 0 => esp.cmd = "none" /\ ~esp.data /\ srv.pos <= step,
         step >= DataStep => srv.pos \in {step, Junk} /\ srv.reply = "none"
  PROVE  AtPrompt'
  <1>1. esp \in EspType /\ srv \in SrvType
    BY DEF TypeOK
  <1>2. "sendMail" \in Cmds \ {"load"}
    BY DEF Cmds
  <1>3. Send("sendMail") /\ step' = step + 1
    BY DEF SendCommand
  <1>4. /\ rx' = Nothing /\ esp'.mail = esp.mail /\ ~esp'.data
        /\ \/ esp.data /\ esp'.cmd = "load" /\ esp'.load = Junk
           \/ ~esp.data /\ esp.cmd # "none" /\ esp'.cmd = esp.cmd /\ esp'.load = esp.load
           \/ ~esp.data /\ esp.cmd = "none" /\ esp'.cmd = "sendMail"
    BY <1>1, <1>2, <1>3, SendDoes
  <1>5. ">" \notin rx'.seen
    BY <1>4 DEF Nothing
  <1>6. step' = 1 => srv.pos <= 0 \/ (srv.pos = 1 /\ (Loading' => esp'.load <= 0))
    BY <1>3, <1>4 DEF Loading, Junk
  <1>7. step' > 1 => esp'.cmd \in {"none", "sendMail"} /\ srv.pos <= step' - 1
    BY <1>3, <1>4, <1>1
  <1>8. step' > DataStep => srv.pos \in {step' - 1, Junk} /\ srv.reply = "none"
    BY <1>3, StepsAreNat
  <1> QED
    BY <1>3, <1>4, <1>5, <1>6, <1>7, <1>8 DEF AtPrompt, Junk

LEMMA DialogAnswerGood ==
  ASSUME TypeOK, Dialog, AnswerGood
  PROVE  AtPrompt' /\ AtSendOk' /\ AtAnswer' /\ SuccessMeansAccepted'
  <1> USE DEF Dialog
  <1>1. pc = "answer" /\ rx.ipd = Expected(step) /\ step \in 0..LastStep /\ srv' = srv
        /\ accepted' = accepted
    BY DEF AnswerGood, TypeOK, InDialog, DialogOnly, Elsewhere
  <1>2. pc' \in {"quit", "prompt"}
    BY DEF AnswerGood, SendCommand
  <1>3. AtSendOk' /\ AtAnswer'
    BY <1>2 DEF AtSendOk, AtAnswer
  <1>4. CASE step = LastStep
    <2>1. rx.ipd = "250"
      BY <1>1, <1>4, ExpectedAt
    <2>2. accepted
      BY <1>1, <1>4, <2>1 DEF AtAnswer, AcceptedAt250
    <2>3. pc' = "quit"
      BY <1>4 DEF AnswerGood
    <2> QED
      BY <1>1, <1>3, <2>2, <2>3 DEF SuccessMeansAccepted, AtPrompt
  <1>5. CASE step # LastStep
    <2>1. SendCommand(step + 1) /\ emailState' = "INPROGRESS"
      BY <1>5 DEF AnswerGood
    <2>2. step \in 0..DataStep
      BY <1>1, <1>5 DEF AtAnswer
    <2>3. step = 0 => rx.ipd = "220"
      BY <1>1, ExpectedAt
    <2>4. step = DataStep => rx.ipd = "354"
      BY <1>1, ExpectedAt
    <2>5. step >= DataStep => srv.pos \in {step, Junk} /\ srv.reply = "none"
      BY <1>1, <2>2, <2>4, StepsAreNat DEF AtAnswer, InTextAt354
    <2>6. step > 0 => esp.cmd = "none" /\ ~esp.data /\ srv.pos <= step
      BY <1>1 DEF AtAnswer
    <2>7. step \in 0..LastStep - 1
      BY <2>2, StepsAreNat
    <2>8. AtPrompt'
      BY <1>1, <2>1, <2>3, <2>5, <2>6, <2>7, NextCommand DEF Heard
    <2> QED
      BY <1>3, <2>1, <2>8 DEF SuccessMeansAccepted
  <1> QED
    BY <1>4, <1>5

LEMMA DialogCommandPrompt ==
  ASSUME TypeOK, Dialog, CommandPrompt
  PROVE  AtPrompt' /\ AtSendOk' /\ AtAnswer' /\ SuccessMeansAccepted'
  <1> USE DEF Dialog
  <1>1. esp \in EspType /\ srv \in SrvType /\ step \in Nat
    BY DEF TypeOK
  <1>2. pc = "prompt" /\ pc' = "sendok" /\ ">" \in rx.seen /\ SendLoad(step)
        /\ step' = step /\ srv' = srv /\ emailState' = emailState /\ accepted' = accepted
    BY DEF CommandPrompt, Wait, DialogOnly, Elsewhere
  <1>3. step >= 1 /\ esp.data /\ esp.cmd = "none"
    BY <1>2 DEF AtPrompt, Heard
  <1>4. rx' = Nothing /\ esp'.cmd = "load" /\ esp'.load = step /\ ~esp'.data
        /\ esp'.mail = esp.mail
    BY <1>1, <1>2, <1>3, SendLoadDoes
  <1>5. rx'.ipd = "none" /\ ~SentOk'
    BY <1>4, NothingHeard
  <1>6. srv.pos <= step - 1 \/ (step = 1 /\ srv.pos = 1)
    BY <1>1, <1>2, <1>3 DEF AtPrompt, SrvType
  <1>7. step > 1 => esp'.mail
    BY <1>2, <1>3, <1>4 DEF AtPrompt
  <1>8. step > DataStep => srv.pos \in {step - 1, Junk} /\ srv.reply = "none"
    BY <1>2 DEF AtPrompt
  <1>9. StillLoading'
    BY <1>2, <1>4, <1>5, <1>6, <1>7, <1>8 DEF StillLoading, Loading
  <1>10. InTextAt354' /\ TextSent' /\ AcceptedAt250'
    BY <1>2, <1>5, <1>8, StepsAreNat DEF InTextAt354, TextSent, AcceptedAt250
  <1>11. srv.pos <= step
    BY <1>1, <1>6 DEF SrvType
  <1> QED
    BY <1>2, <1>3, <1>4, <1>9, <1>10, <1>11
       DEF AtPrompt, AtSendOk, AtAnswer, SuccessMeansAccepted

LEMMA DialogCommandSent ==
  ASSUME TypeOK, Dialog, CommandSent
  PROVE  AtPrompt' /\ AtSendOk' /\ AtAnswer' /\ SuccessMeansAccepted'
  <1> USE DEF Dialog
  <1>1. pc = "sendok" /\ step \in 0..LastStep
        /\ srv' = srv /\ emailState' = emailState /\ accepted' = accepted
    <2>1. pc = "sendok" /\ DialogOnly /\ Elsewhere /\ emailState' = emailState
      BY Zenon DEF CommandSent
    <2> QED
      BY <2>1 DEF DialogOnly, Elsewhere, TypeOK, InDialog
  <1>6. SentOk
    BY Zenon DEF CommandSent, SentOk
  <1>2. step >= 1 /\ ~esp.data /\ srv.pos <= step /\ esp.cmd = "none"
        /\ InTextAt354 /\ TextSent /\ AcceptedAt250
    BY <1>1, <1>6 DEF AtSendOk, StillLoading
  <1>3. SuccessMeansAccepted'
    BY <1>1 DEF SuccessMeansAccepted
  <1>0. step \in Nat
    BY DEF TypeOK
  <1>4. CASE Expected(step) = "none"
    <2>1. SendCommand(step + 1) /\ pc' = "prompt"
      BY <1>4 DEF CommandSent, SendCommand
    <2>2. step > DataStep /\ step < LastStep
      BY <1>0, <1>4, ExpectedAt
    <2>3. srv.pos \in {step, Junk} /\ srv.reply = "none"
      BY <1>2, <1>6, <2>2 DEF TextSent
    <2>4. AtPrompt'
      BY <1>1, <1>2, <2>1, <2>2, <2>3, StepsAreNat, NextCommand
    <2> QED
      BY <1>3, <2>1, <2>4 DEF AtSendOk, AtAnswer
  <1>5. CASE Expected(step) # "none"
    <2>1. pc' = "answer" /\ step' = step /\ rx' = rx /\ esp' = esp
      BY <1>5 DEF CommandSent, buffer
    <2>2. step \in 0..DataStep \cup {LastStep}
      <3>1. ~(step > DataStep /\ step < LastStep)
        BY <1>0, <1>5, ExpectedAt
      <3> QED
        BY <1>1, <3>1, StepsAreNat
    <2> QED
      BY <1>1, <1>2, <1>3, <2>1, <2>2
         DEF AtPrompt, AtSendOk, AtAnswer, InTextAt354, AcceptedAt250
  <1> QED
    BY <1>4, <1>5

\* All other steps of the task leave the dialog, begin it or have not come to it.
LEMMA DialogTask ==
  ASSUME TypeOK, Place, Dialog, vtaskWifi
  PROVE  Dialog'
  <1>1. Heard'
    BY HeardTask DEF Dialog
  <1>2. CASE AnswerGood \/ CommandPrompt \/ CommandSent
    BY <1>1, <1>2, DialogAnswerGood, DialogCommandPrompt, DialogCommandSent DEF Dialog
  <1>3. CASE ~(AnswerGood \/ CommandPrompt \/ CommandSent)
    <2>0. \/ ServeGet \/ Greet \/ EspReady \/ NothingToDo \/ InitNext \/ InitDone
          \/ WebPacket \/ WebMore \/ WebEnd \/ WebClosed \/ WebDummy
          \/ DialogFails \/ SendQuit \/ QuitPrompt \/ FinishMail \/ ServerStarted
          \/ ResetDummy \/ ResetMail \/ ResetServer
          \/ NoMail \/ MailNoticed \/ EmailSendStart \/ CannotSend \/ OpenChannel
      BY <1>3 DEF vtaskWifi
    <2>1. pc' \notin {"prompt", "sendok"} /\ (pc' = "answer" => step' = 0)
      <3>1. CASE ServeGet \/ Greet \/ EspReady \/ NothingToDo
        BY <3>1 DEF ServeGet, Greet, Greeting, EspReady, NothingToDo
      <3>2. CASE InitNext \/ InitDone
        BY <3>2 DEF InitNext, InitDone
      <3>3. CASE WebPacket \/ WebMore \/ WebEnd \/ WebClosed \/ WebDummy
        BY <3>3 DEF WebPacket, WebMore, WebEnd, WebClosed, WebDummy, Wait
      <3>4. CASE DialogFails \/ SendQuit \/ QuitPrompt \/ FinishMail \/ ServerStarted
        BY <3>4 DEF DialogFails, SendQuit, QuitPrompt, FinishMail, ServerStarted, Wait
      <3>5. CASE ResetDummy \/ ResetMail \/ ResetServer
        BY <3>5 DEF ResetDummy, ResetMail, ResetServer, Wait
      <3>6. CASE NoMail \/ MailNoticed \/ EmailSendStart \/ CannotSend \/ OpenChannel
        BY <3>6 DEF NoMail, MailNoticed, EmailSendStart, CannotSend, OpenChannel, Sleep
      <3> QED
        BY <2>0, <3>1, <3>2, <3>3, <3>4, <3>5, <3>6
    <2>2. emailState' # "SUCCESS" \/ (emailState' = emailState /\ accepted' = accepted)
      <3> USE DEF history, globals
      <3>1. CASE ServeGet \/ Greet \/ EspReady \/ NothingToDo
        BY <3>1 DEF ServeGet, Greet, EspReady, NothingToDo
      <3>2. CASE InitNext \/ InitDone
        BY <3>2 DEF InitNext, InitDone
      <3>3. CASE WebPacket \/ WebMore \/ WebEnd \/ WebClosed \/ WebDummy
        BY <3>3 DEF WebPacket, WebMore, WebEnd, WebClosed, WebDummy, WebOnly
      <3>4. CASE DialogFails \/ SendQuit \/ QuitPrompt \/ FinishMail \/ ServerStarted
        BY <3>4 DEF DialogFails, SendQuit, QuitPrompt, FinishMail, ServerStarted, DialogOnly
      <3>5. CASE ResetDummy \/ ResetMail \/ ResetServer
        BY <3>5 DEF ResetDummy, ResetMail, ResetServer, ResetOnly
      <3>6. CASE NoMail \/ MailNoticed \/ EmailSendStart \/ CannotSend \/ OpenChannel
        BY <3>6 DEF NoMail, MailNoticed, EmailSendStart, CannotSend, OpenChannel
      <3> QED
        BY <2>0, <3>1, <3>2, <3>3, <3>4, <3>5, <3>6
    <2>3. AtPrompt' /\ AtSendOk'
      BY <2>1 DEF AtPrompt, AtSendOk
    <2>4. AtAnswer'
      BY <2>1, StepsAreNat DEF AtAnswer, InTextAt354, AcceptedAt250
    <2> QED
      BY <1>1, <2>2, <2>3, <2>4 DEF Dialog, SuccessMeansAccepted
  <1> QED
    BY <1>2, <1>3

LEMMA DialogConsole ==
  ASSUME TypeOK, Dialog, SendEmail \/ ConsoleGoesOn \/ CloseWifiTask
  PROVE  Dialog'
  <1> USE DEF Dialog, Heard, Loading, AtPrompt, AtSendOk, AtAnswer, SuccessMeansAccepted
  <1>1. CASE SendEmail \/ SendEmailClaim \/ SendEmailFill
    <2>1. pc' = pc /\ step' = step /\ rx' = rx /\ esp' = esp /\ srv' = srv /\ emailState' = emailState /\ accepted' = accepted
      BY <1>1 DEF SendEmail, SendEmailClaim, SendEmailFill, ConsoleOnly, task, buffer, history
    <2>2. SentOk' = SentOk
      BY <2>1, Zenon DEF SentOk
    <2> QED
      BY <2>1, <2>2 DEF StillLoading, InTextAt354, TextSent, AcceptedAt250
  <1>2. CASE CloseWifiTask
    <2>1. pc' = "dead" /\ rx' = rx /\ esp'.data = FALSE /\ esp'.link = FALSE
          /\ srv'.pos = Junk /\ srv'.reply = "none" /\ emailState' = emailState /\ accepted' = accepted
      BY <1>2 DEF CloseWifiTask, EspOff, globals, history
    <2> QED
      BY <2>1 DEF Junk
  <1>3. CASE CreateWifiTask
    <2>1. pc' = "main" /\ rx' = Nothing /\ esp'.data = FALSE /\ esp'.link = FALSE
          /\ srv' = srv /\ emailState' = emailState /\ accepted' = accepted
      BY <1>3 DEF CreateWifiTask, RestartDMA, EspOff, history
    <2>2. rx'.ipd = "none"
      BY <2>1 DEF Nothing
    <2> QED
      BY <2>1, <2>2
  <1> QED
    BY <1>1, <1>2, <1>3 DEF ConsoleGoesOn

-----------------------------------------------------------------------------
(* What the task hears meanwhile. *)

\* Most of it brings no prompt, no SEND OK and no answer of the server.
LEMMA Quiet ==
  ASSUME TypeOK, Dialog,
         pc' = pc, step' = step, emailState' = emailState, accepted' = accepted,
         esp'.data = esp.data, esp'.mail = esp.mail, esp'.link => esp.link,
         esp'.cmd = "none" \/ (esp'.cmd = esp.cmd /\ esp'.load = esp.load),
         ">" \in rx'.seen => ">" \in rx.seen, SentOk' => SentOk,
         rx'.ipd \in {rx.ipd, "GET", "torn", "none"}, srv'.reply \in {srv.reply, "none"},
         \/ srv'.pos = srv.pos
         \/ srv'.pos = Junk /\ srv'.reply = "none" /\ ~esp'.link
  PROVE  Dialog'
  <1> USE DEF Dialog
  <1>1. srv.pos \in Junk..LastStep /\ step \in Nat
    BY DEF TypeOK, SrvType
  <1>2. Heard'
    BY <1>1 DEF Heard, Loading, Junk
  <1>3. AtPrompt'
    BY <1>1, StepsAreNat DEF AtPrompt, Loading, Junk
  <1>4. InTextAt354 => InTextAt354'
    BY <1>1 DEF InTextAt354
  <1>5. TextSent => TextSent'
    BY <1>1 DEF TextSent
  <1>6. AcceptedAt250 => AcceptedAt250'
    BY <1>1 DEF AcceptedAt250
  <1>7. StillLoading => StillLoading' \/ esp'.cmd = "none"
    BY <1>1, StepsAreNat DEF StillLoading, Loading, Junk
  <1>8. AtSendOk'
    BY <1>1, <1>4, <1>5, <1>6, <1>7 DEF AtSendOk, Junk
  <1>9. AtAnswer'
    BY <1>1, <1>4, <1>6 DEF AtAnswer, Junk
  <1> QED
    BY <1>2, <1>3, <1>8, <1>9 DEF SuccessMeansAccepted

\* Other texts do not bring a prompt or SEND OK.
LEMMA OtherText ==
  ASSUME NEW text, rx'.seen \subseteq rx.seen \cup {text}
  PROVE  /\ text # ">" => (">" \in rx'.seen => ">" \in rx.seen)
         /\ text # "SEND OK" => (SentOk' => SentOk)
  BY Zenon DEF SentOk

LEMMA HearKeeps ==
  ASSUME rx \in RxType, NEW text, NEW code, Hear({text}, code)
  PROVE  /\ rx'.seen \subseteq rx.seen \cup {text}
         /\ rx'.ipd = rx.ipd \/ (rx.ipd = "none" /\ rx'.ipd = code)
  BY DEF Hear, RxType

\* What is left when the ESP32 answers a command.
LEMMA AnswersKeep ==
  ASSUME TypeOK, NEW c, NEW text, NEW e \in EspType, Answers(c, text, e)
  PROVE  /\ esp.cmd = c /\ esp'.cmd = "none" /\ esp'.data = e.data /\ esp'.mail = e.mail
         /\ esp'.link = e.link /\ rx'.ipd = rx.ipd
         /\ text # ">" => (">" \in rx'.seen => ">" \in rx.seen)
         /\ text # "SEND OK" => (SentOk' => SentOk)
  <1>1. Hear({text}, "none") /\ rx \in RxType
    BY DEF Answers, TypeOK
  <1>2. rx'.ipd = rx.ipd
    BY <1>1, HearKeeps
  <1>3. /\ text # ">" => (">" \in rx'.seen => ">" \in rx.seen)
        /\ text # "SEND OK" => (SentOk' => SentOk)
    <2>1. rx'.seen \subseteq rx.seen \cup {text}
      BY <1>1, HearKeeps
    <2> QED
      BY <2>1, OtherText, Zenon
  <1>4. esp.cmd = c /\ esp' = [e EXCEPT !.cmd = "none", !.load = Junk]
    BY DEF Answers
  <1>5. esp'.cmd = "none" /\ esp'.data = e.data /\ esp'.mail = e.mail /\ esp'.link = e.link
    BY <1>4 DEF EspType
  <1> QED
    BY <1>2, <1>3, <1>4, <1>5

LEMMA DialogCommands ==
  ASSUME TypeOK, Dialog, EspBoots \/ EspAnswersCommand \/ EspSilent
  PROVE  Dialog'
  <1>1. esp \in EspType /\ rx \in RxType
    BY DEF TypeOK
  <1>2. /\ srv' = srv /\ emailState' = emailState /\ accepted' = accepted
        /\ pc' = pc /\ step' = step
    BY DEF EspBoots, EspAnswersCommand, EspSilent, Outside, history, globals, task
  <1>3. CASE EspBoots \/ EspAnswersCommand
    <2>1. PICK c \in Cmds, text \in {"ready", "OK", "ERROR", "CLOSED"}, e \in EspType :
            /\ Answers(c, text, e)
            /\ e.data = esp.data /\ e.mail = esp.mail /\ e.link = esp.link
      <3> DEFINE Quiets(c, text, e) == Answers(c, text, e)
                   /\ e.data = esp.data /\ e.mail = esp.mail /\ e.link = esp.link
      <3>1. {"boot", "AT", "bad", "srvon", "srvoff", "close"} \subseteq Cmds
        BY DEF Cmds
      <3>2. CASE EspBoots
        BY <1>1, <3>1, <3>2 DEF EspBoots
      <3>3. \A b \in BOOLEAN :
              LET f == [esp EXCEPT !.server = b]
                  g == [esp EXCEPT !.web = b]
              IN  /\ f \in EspType /\ g \in EspType
                  /\ f.data = esp.data /\ f.mail = esp.mail /\ f.link = esp.link
                  /\ g.data = esp.data /\ g.mail = esp.mail /\ g.link = esp.link
        BY <1>1 DEF EspType
      <3>4. CASE EspAnswersCommand
        BY <1>1, <3>1, <3>3, <3>4 DEF EspAnswersCommand
      <3> QED
        BY <1>3, <3>2, <3>4
    <2>2. text # ">" /\ text # "SEND OK"
      BY Zenon
    <2>3. /\ esp'.cmd = "none" /\ esp'.data = esp.data /\ esp'.mail = esp.mail
          /\ esp'.link = esp.link /\ rx'.ipd = rx.ipd
          /\ ">" \in rx'.seen => ">" \in rx.seen
          /\ SentOk' => SentOk
      BY <2>1, <2>2, AnswersKeep, Zenon
    <2> QED
      BY <1>2, <2>3, Quiet
  <1>4. CASE EspSilent
    <2>1. /\ esp'.cmd = "none" /\ esp'.data = esp.data /\ esp'.mail = esp.mail
          /\ esp'.link = esp.link /\ rx' = rx
      BY <1>1, <1>4 DEF EspSilent, EspType
    <2>2. SentOk' => SentOk
      BY <2>1, Zenon DEF SentOk
    <2> QED
      BY <1>2, <2>1, <2>2, Quiet
  <1> QED
    BY <1>3, <1>4

LEMMA DialogInterrupts ==
  ASSUME TypeOK, Dialog,
         ServerHangsUp \/ BrowserAsks \/ BrowserLeaves \/ UartError \/ RxOverrun
  PROVE  Dialog'
  <1>1. esp \in EspType /\ rx \in RxType /\ srv \in SrvType
    BY DEF TypeOK
  <1>2. emailState' = emailState /\ accepted' = accepted /\ pc' = pc /\ step' = step
    BY DEF ServerHangsUp, BrowserAsks, BrowserLeaves, UartError, RxOverrun, Outside,
           history, globals, task
  <1>3. /\ esp'.data = esp.data /\ esp'.mail = esp.mail
        /\ esp'.link => esp.link
        /\ esp'.cmd = esp.cmd /\ esp'.load = esp.load
    BY <1>1 DEF ServerHangsUp, BrowserAsks, BrowserLeaves, UartError, RxOverrun, EspType
  <1>4. /\ srv'.reply \in {srv.reply, "none"}
        /\ \/ srv'.pos = srv.pos
           \/ srv'.pos = Junk /\ srv'.reply = "none" /\ ~esp'.link
    BY <1>1 DEF ServerHangsUp, BrowserAsks, BrowserLeaves, UartError, RxOverrun, EspType, SrvType
  <1>5. /\ ">" \in rx'.seen => ">" \in rx.seen
        /\ SentOk' => SentOk
        /\ rx'.ipd \in {rx.ipd, "GET", "torn", "none"}
    <2>1. CASE ServerHangsUp \/ BrowserLeaves
      <3>1. Hear({"CLOSED"}, "none")
        BY <2>1 DEF ServerHangsUp, BrowserLeaves
      <3>2. rx'.seen \subseteq rx.seen \cup {"CLOSED"} /\ rx'.ipd = rx.ipd
        BY <1>1, <3>1, HearKeeps
      <3> QED
        BY <3>2, OtherText, Zenon
    <2>2. CASE BrowserAsks
      <3>1. Hear({"GET"}, "GET")
        BY <2>2 DEF BrowserAsks
      <3>2. rx'.seen \subseteq rx.seen \cup {"GET"} /\ rx'.ipd \in {rx.ipd, "GET"}
        BY <1>1, <3>1, HearKeeps
      <3> QED
        BY <3>2, OtherText, Zenon
    <2>3. CASE UartError
      <3>1. \/ rx' = rx
            \/ rx'.seen = rx.seen /\ rx'.ipd = "torn"
            \/ rx'.seen = rx.seen \cup {"GET"} /\ rx'.ipd = "torn"
        BY <1>1, <2>3 DEF UartError, RxType
      <3> QED
        BY <3>1, Zenon DEF SentOk
    <2>4. CASE RxOverrun
      <3>1. rx' = Nothing
        BY <2>4 DEF RxOverrun, RestartDMA
      <3> QED
        BY <3>1, NothingHeard, Zenon
    <2> QED
      BY <2>1, <2>2, <2>3, <2>4
  <1> QED
    BY <1>2, <1>3, <1>4, <1>5, Quiet


\* The greeting comes when the channel is opened, which no step but the first
\* waits for.
LEMMA DialogOpens ==
  ASSUME TypeOK, Dialog, EspOpens
  PROVE  Dialog'
  <1> USE DEF Dialog
  <1>1. esp \in EspType /\ rx \in RxType /\ [esp EXCEPT !.link = TRUE] \in EspType
        /\ step \in Nat
    BY DEF TypeOK, EspType
  <1>2. emailState' = emailState /\ accepted' = accepted /\ pc' = pc /\ step' = step
    BY DEF EspOpens, Outside, history, globals, task
  <1>3. CASE Answers("cipstart", "ERROR", esp) /\ srv' = srv
    <2>1. "ERROR" # ">" /\ "ERROR" # "SEND OK"
      BY Zenon
    <2>2. /\ esp'.cmd = "none" /\ esp'.data = esp.data /\ esp'.mail = esp.mail
          /\ esp'.link = esp.link /\ rx'.ipd = rx.ipd
          /\ ">" \in rx'.seen => ">" \in rx.seen
          /\ SentOk' => SentOk
      BY <1>1, <1>3, <2>1, AnswersKeep, Zenon
    <2> QED
      BY <1>2, <1>3, <2>2, Quiet
  <1>4. CASE /\ ~esp.link /\ Answers("cipstart", "OK", [esp EXCEPT !.link = TRUE])
             /\ srv' = [pos |-> 0, reply |-> "220"]
    <2>1. "OK" # ">"
      BY Zenon
    <2>2. /\ esp.cmd = "cipstart" /\ esp'.cmd = "none" /\ rx'.ipd = rx.ipd
          /\ esp'.data = [esp EXCEPT !.link = TRUE].data
          /\ ">" \in rx'.seen => ">" \in rx.seen
      BY <1>1, <1>4, <2>1, AnswersKeep, Zenon
    <2>3. esp'.data = esp.data /\ srv'.pos = 0 /\ srv'.reply = "220"
      BY <1>1, <1>4, <2>2 DEF EspType
    <2>4. ~esp.data
      BY <2>2 DEF Heard
    <2>5. Heard'
      BY <2>2, <2>3, <2>4 DEF Heard, Loading
    <2>6. AtPrompt'
      <3>1. pc = "prompt" => step = 1 /\ ">" \notin rx.seen
        BY <1>1, <2>2, <2>4 DEF AtPrompt
      <3> QED
        BY <1>2, <2>2, <2>3, <3>1, StepsAreNat DEF AtPrompt
    <2>7. pc # "sendok" /\ (pc = "answer" => ~(step > 0) /\ step \in 0..DataStep \cup {LastStep})
      BY <2>2 DEF AtSendOk, AtAnswer, StillLoading, Loading
    <2>8. AtSendOk' /\ AtAnswer'
      BY <1>2, <2>7, StepsAreNat DEF AtSendOk, AtAnswer, InTextAt354, AcceptedAt250
    <2> QED
      BY <1>2, <2>5, <2>6, <2>8 DEF SuccessMeansAccepted
  <1> QED
    BY <1>3, <1>4 DEF EspOpens

LEMMA DialogPrompts ==
  ASSUME TypeOK, Dialog, EspPrompts
  PROVE  Dialog'
  <1> USE DEF Dialog
  <1>1. esp \in EspType /\ rx \in RxType
    BY DEF TypeOK
  <1>2. emailState' = emailState /\ accepted' = accepted /\ pc' = pc /\ step' = step
        /\ srv' = srv
    BY DEF EspPrompts, Outside, history, globals, task
  <1>3. CASE Answers("sendMail", "ERROR", esp) \/ Answers("sendWeb", "ERROR", esp)
    <2>1. "ERROR" # ">" /\ "ERROR" # "SEND OK"
      BY Zenon
    <2>2. /\ esp'.cmd = "none" /\ esp'.data = esp.data /\ esp'.mail = esp.mail
          /\ esp'.link = esp.link /\ rx'.ipd = rx.ipd
          /\ ">" \in rx'.seen => ">" \in rx.seen
          /\ SentOk' => SentOk
      BY <1>1, <1>3, <2>1, AnswersKeep, Zenon
    <2> QED
      BY <1>2, <2>2, Quiet
  <1>4. ASSUME NEW c \in {"sendMail", "sendWeb"}, NEW m \in BOOLEAN, m <=> c = "sendMail",
               Answers(c, ">", [esp EXCEPT !.data = TRUE, !.mail = m])
        PROVE  Dialog'
    <2> DEFINE e == [esp EXCEPT !.data = TRUE, !.mail = m]
    <2>1. e \in EspType /\ e.data = TRUE /\ e.mail = m /\ e.link = esp.link
      BY <1>1 DEF EspType
    <2> HIDE DEF e
    <2>2. Answers(c, ">", e)
      BY <1>4 DEF e
    <2>3. /\ esp.cmd = c /\ esp'.cmd = "none" /\ esp'.data = TRUE /\ esp'.mail = m
          /\ esp'.link = esp.link /\ rx'.ipd = rx.ipd
      BY <2>1, <2>2, AnswersKeep, Zenon
    <2>4. Heard'
      BY <1>2, <2>3 DEF Heard, Loading
    <2>5. AtPrompt'
      BY <1>2, <1>4, <2>3 DEF AtPrompt, Loading
    <2>6. pc # "sendok" /\ (pc = "answer" => ~(step > 0) /\ step \in 0..DataStep \cup {LastStep})
      BY <2>3 DEF AtSendOk, AtAnswer, StillLoading, Loading
    <2>7. AtSendOk' /\ AtAnswer'
      BY <1>2, <2>6, StepsAreNat DEF AtSendOk, AtAnswer, InTextAt354, AcceptedAt250
    <2> QED
      BY <1>2, <2>4, <2>5, <2>7 DEF SuccessMeansAccepted
  <1>5. CASE Answers("sendMail", ">", [esp EXCEPT !.data = TRUE, !.mail = TRUE])
    BY <1>4, <1>5
  <1>6. CASE Answers("sendWeb", ">", [esp EXCEPT !.data = TRUE, !.mail = FALSE])
    BY <1>4, <1>6
  <1> QED
    BY <1>3, <1>5, <1>6 DEF EspPrompts


\* An answer of the server is heard.
LEMMA DialogReplies ==
  ASSUME TypeOK, Dialog, ServerReplies
  PROVE  Dialog'
  <1> USE DEF Dialog
  <1>1. esp \in EspType /\ rx \in RxType /\ srv \in SrvType /\ step \in Nat
    BY DEF TypeOK
  <1>2. emailState' = emailState /\ accepted' = accepted /\ pc' = pc /\ step' = step
        /\ esp' = esp
    BY DEF ServerReplies, Outside, history, globals, task
  <1>3. esp.link /\ srv.reply # "none" /\ srv'.pos = srv.pos /\ srv'.reply = "none"
    BY <1>1 DEF ServerReplies, SrvType
  <1>4. /\ ">" \in rx'.seen => ">" \in rx.seen
        /\ SentOk' => SentOk
        /\ rx'.ipd = rx.ipd \/ (rx.ipd = "none" /\ rx'.ipd = srv.reply)
    <2>1. CASE rx' = rx
      BY <2>1, Zenon DEF SentOk
    <2>2. CASE Hear({"closing"}, srv.reply)
      <3>1. rx'.seen \subseteq rx.seen \cup {"closing"}
            /\ (rx'.ipd = rx.ipd \/ (rx.ipd = "none" /\ rx'.ipd = srv.reply))
        BY <1>1, <2>2, HearKeeps
      <3> QED
        BY <3>1, OtherText, Zenon
    <2>3. CASE Hear({}, srv.reply)
      <3>1. rx'.seen = rx.seen
            /\ (rx'.ipd = rx.ipd \/ (rx.ipd = "none" /\ rx'.ipd = srv.reply))
        BY <1>1, <2>3 DEF Hear, RxType
      <3> QED
        BY <3>1, Zenon DEF SentOk
    <2> QED
      BY <2>1, <2>2, <2>3 DEF ServerReplies
  <1>5. Heard'
    BY <1>2, <1>3, <1>4 DEF Heard, Loading
  <1>6. AtPrompt'
    BY <1>2, <1>3, <1>4 DEF AtPrompt, Loading
  <1>7. AcceptedAt250 => AcceptedAt250'
    BY <1>2, <1>3, <1>4 DEF AcceptedAt250
  <1>8. InTextAt354 => InTextAt354'
    BY <1>2, <1>3, <1>4 DEF InTextAt354, Heard
  <1>9. TextSent => TextSent'
    BY <1>2, <1>3, <1>4 DEF TextSent
  <1>10. ASSUME StillLoading PROVE StillLoading'
    <2>1. ~(step > DataStep)
      BY <1>3, <1>10 DEF StillLoading
    <2>2. step = DataStep => rx'.ipd # "354"
      BY <1>1, <1>3, <1>4, <1>10, StepsAreNat DEF StillLoading, Heard, SrvType
    <2> QED
      BY <1>2, <1>3, <1>4, <1>10, <2>1, <2>2 DEF StillLoading, Loading
  <1>11. AtSendOk'
    BY <1>2, <1>3, <1>7, <1>8, <1>9, <1>10 DEF AtSendOk
  <1>12. AtAnswer'
    BY <1>2, <1>3, <1>7, <1>8 DEF AtAnswer
  <1> QED
    BY <1>2, <1>5, <1>6, <1>11, <1>12 DEF SuccessMeansAccepted

\* What the server makes of a packet, in the parts of srv.
LEMMA ServerDoes ==
  ASSUME srv \in SrvType, accepted \in BOOLEAN, NEW k \in Junk..LastStep, ServerTakes(k)
  PROVE  /\ accepted => accepted'
         /\ \/ /\ k = srv.pos + 1 /\ k > 0 /\ srv'.pos = k /\ srv'.reply = Expected(k)
               /\ k = LastStep => accepted'
            \/ /\ InText /\ k # srv.pos + 1
               /\ (k = LastStep /\ srv'.pos = k /\ srv'.reply = "250") \/ srv' = srv
            \/ ~InText /\ srv'.pos = srv.pos /\ srv'.reply = "221"
            \/ InText /\ k = LastStep /\ srv'.pos = 0 /\ srv'.reply = "5xx"
            \/ ~InText /\ srv'.pos = srv.pos /\ srv'.reply = "5xx"
  <1> DEFINE reply == Expected(k)
  <1>1. srv' = [pos |-> k, reply |-> reply] => srv'.pos = k /\ srv'.reply = reply
    OBVIOUS
  <1>2. \A r : srv' = [srv EXCEPT !.reply = r] => srv'.pos = srv.pos /\ srv'.reply = r
    BY DEF SrvType
  <1>3. CASE /\ k = srv.pos + 1 /\ k > 0
             /\ srv' = [pos |-> k, reply |-> Expected(k)]
             /\ accepted' = (accepted \/ k = LastStep)
    BY <1>1, <1>3
  <1>4. CASE /\ InText /\ k # srv.pos + 1
             /\ srv' = IF k = LastStep THEN [pos |-> k, reply |-> "250"] ELSE srv
             /\ accepted' = accepted
    BY <1>4
  <1>5. CASE ~InText /\ k = Quit /\ srv' = [srv EXCEPT !.reply = "221"] /\ accepted' = accepted
    BY <1>2, <1>5
  <1>6. CASE /\ InText => k = LastStep
             /\ srv' = [pos |-> IF InText THEN 0 ELSE srv.pos, reply |-> "5xx"]
             /\ accepted' = accepted
    BY <1>6
  <1> QED
    BY <1>3, <1>4, <1>5, <1>6, Zenon DEF ServerTakes

\* The heart of the matter: the ESP32 sends a packet, and the server makes
\* something of it.
LEMMA DialogSends ==
  ASSUME TypeOK, Dialog, EspSends
  PROVE  Dialog'
  <1> USE DEF Dialog
  <1>1. esp \in EspType /\ rx \in RxType /\ srv \in SrvType /\ step \in Nat
        /\ srv.pos \in Junk..LastStep /\ esp.load \in Junk..LastStep
    BY DEF TypeOK, SrvType, EspType
  <1>2. emailState' = emailState /\ pc' = pc /\ step' = step
    BY DEF EspSends, Outside, globals, task
  <1>3. CASE Answers("load", "ERROR", esp) /\ srv' = srv /\ accepted' = accepted
    <2>1. "ERROR" # ">" /\ "ERROR" # "SEND OK"
      BY Zenon
    <2>2. /\ esp'.cmd = "none" /\ esp'.data = esp.data /\ esp'.mail = esp.mail
          /\ esp'.link = esp.link /\ rx'.ipd = rx.ipd
          /\ ">" \in rx'.seen => ">" \in rx.seen
          /\ SentOk' => SentOk
      BY <1>1, <1>3, <2>1, AnswersKeep, Zenon
    <2> QED
      BY <1>2, <1>3, <2>2, Quiet
  <1>4. ASSUME esp.cmd = "load", esp'.cmd = "none", esp'.data = esp.data, esp'.mail = esp.mail,
               esp'.link = esp.link, rx'.ipd = rx.ipd, ">" \in rx'.seen => ">" \in rx.seen,
               \/ ~esp.mail /\ srv' = srv /\ accepted' = accepted
               \/ esp.mail /\ esp.link /\ srv.reply = "none" /\ ServerTakes(esp.load)
        PROVE  Dialog'
    <2>0. Loading /\ ~esp.data /\ esp'.data = FALSE
      BY <1>4, <1>1 DEF Heard, Loading, EspType
    <2>2. \/ ~esp.mail /\ srv' = srv
          \/ /\ srv.pos >= 0 /\ srv.reply = "none"
             /\ \/ /\ esp.load = srv.pos + 1 /\ esp.load > 0 /\ srv'.pos = esp.load
                   /\ srv'.reply = Expected(esp.load)
                   /\ esp.load = LastStep => accepted'
                \/ /\ InText /\ esp.load # srv.pos + 1
                   /\ \/ esp.load = LastStep /\ srv'.pos = LastStep /\ srv'.reply = "250"
                      \/ srv' = srv
                \/ ~InText /\ srv'.pos = srv.pos /\ srv'.reply \in {"221", "5xx"}
                \/ InText /\ esp.load = LastStep /\ srv'.pos = 0 /\ srv'.reply = "5xx"
      <3>1. CASE ~esp.mail /\ srv' = srv
        BY <3>1
      <3>2. CASE esp.link /\ srv.reply = "none" /\ ServerTakes(esp.load)
        <4>1. accepted \in BOOLEAN
          BY DEF TypeOK
        <4>2. srv.pos >= 0
          BY <3>2 DEF Heard
        <4> QED
          BY <1>1, <3>2, <4>1, <4>2, ServerDoes
      <3> QED
        BY <1>4, <3>1, <3>2
    <2>3. Heard'
      <3>1. srv'.reply = "220" => srv'.pos = 0
        BY <1>1, <2>2, ExpectedAt, StepsAreNat DEF Heard
      <3>2. srv'.reply = "354" => srv'.pos = DataStep
        BY <1>1, <2>2, ExpectedAt, StepsAreNat DEF Heard
      <3>3. rx.ipd = "220" => srv'.pos <= 0 \/ srv'.pos = 1
        BY <1>1, <2>0, <2>2, StepsAreNat DEF Heard, InText
      <3>4. esp.link => srv'.pos >= 0
        BY <1>1, <2>2, StepsAreNat DEF Heard
      <3> QED
        BY <1>4, <2>0, <3>1, <3>2, <3>3, <3>4 DEF Heard, Loading
    <2>4. AtPrompt'
      <3>1. pc = "prompt" => step = 1 /\ ">" \notin rx.seen
        BY <1>1, <1>4, <2>0 DEF AtPrompt
      <3>2. pc = "prompt" => srv'.pos <= 0 \/ srv'.pos = 1
        BY <1>1, <2>0, <2>2, <3>1, StepsAreNat DEF AtPrompt, InText
      <3> QED
        BY <1>2, <1>4, <2>0, <3>1, <3>2, StepsAreNat DEF AtPrompt, Loading
    <2>5. AtSendOk'
      <3> SUFFICES ASSUME pc = "sendok"
                   PROVE  /\ srv'.pos <= step
                          /\ step = DataStep => rx.ipd # "354"
                          /\ step > DataStep /\ step < LastStep
                               => srv'.pos \in {step, Junk} /\ srv'.reply = "none"
                          /\ step = LastStep /\ "250" \in {rx.ipd, srv'.reply} => accepted'
        BY <1>2, <1>4, <2>0
           DEF AtSendOk, InTextAt354, TextSent, AcceptedAt250
      <3>1. step >= 1 /\ srv.pos <= step /\ StillLoading
        BY <1>4 DEF AtSendOk
      <3>2. CASE step = 1
        BY <1>1, <2>2, <3>1, <3>2, StepsAreNat DEF StillLoading, InText
      <3>3. CASE step > 1
        <4>1. esp.load = step /\ esp.mail /\ srv.pos <= step - 1 /\ srv.pos >= 0
          BY <1>4, <3>1, <3>3 DEF StillLoading, Heard
        <4>2. step = DataStep => rx.ipd # "354"
          BY <3>1 DEF StillLoading
        <4>3. srv'.pos <= step
          BY <1>1, <2>2, <4>1, StepsAreNat DEF InText
        <4>4. step > DataStep => InText \/ step > LastStep
          BY <1>1, <3>1, <4>1, StepsAreNat DEF StillLoading, InText, Junk
        <4>5. step > DataStep => srv.pos + 1 = step /\ rx.ipd # "250" /\ srv.reply = "none"
          BY <1>1, <3>1, <4>1 DEF StillLoading, Junk
        <4> QED
          <5>1. CASE step < DataStep \/ step = DataStep
            BY <1>1, <4>2, <4>3, <5>1, StepsAreNat
          <5>2. CASE step > DataStep /\ step < LastStep
            <6>1. Expected(step) = "none"
              <7>1. step \in Nat
                BY <1>1
              <7> QED
                BY <5>2, <7>1, ExpectedAt
            <6>2. InText /\ srv.pos + 1 = step /\ esp.load = step /\ step # LastStep
              BY <1>1, <4>1, <4>4, <4>5, <5>2, StepsAreNat
            <6>3. srv'.pos = step /\ srv'.reply = "none"
              BY <2>2, <4>1, <6>1, <6>2
            <6> QED
              BY <1>1, <4>3, <5>2, <6>3, StepsAreNat
          <5>3. CASE step > DataStep /\ step >= LastStep
            <6>0. esp.load = step /\ esp.load \in Junk..LastStep
              BY <1>1, <4>1
            <6>5. step = LastStep
              BY <1>1, <5>3, <6>0, StepsAreNat DEF Junk
            <6>1. step = LastStep /\ InText
              BY <4>4, <5>3, <6>5, StepsAreNat
            <6>2. srv.pos + 1 = LastStep /\ esp.load = LastStep /\ srv.reply = "none"
              BY <4>1, <4>5, <5>3, <6>1
            <6>3. srv'.reply # "250" \/ accepted'
              BY <2>2, <6>1, <6>2
            <6>4. "250" \in {rx.ipd, srv'.reply} => accepted'
              BY <4>5, <5>3, <6>3
            <6> QED
              BY <4>3, <6>1, <6>4, StepsAreNat
          <5> QED
            BY <1>1, <5>1, <5>2, <5>3, StepsAreNat
      <3> QED
        BY <1>1, <3>1, <3>2, <3>3
    <2>6. pc = "answer" => ~(step > 0) /\ step \in 0..DataStep \cup {LastStep}
      BY <1>4 DEF AtAnswer
    <2>7. AtAnswer'
      BY <1>2, <2>6, StepsAreNat DEF AtAnswer, InTextAt354, AcceptedAt250
    <2>8. accepted => accepted'
      BY <1>4 DEF ServerTakes
    <2> QED
      BY <1>2, <2>3, <2>4, <2>5, <2>7, <2>8 DEF SuccessMeansAccepted
  <1>5. ASSUME Answers("load", "SEND OK", esp)
        PROVE  /\ esp.cmd = "load" /\ esp'.cmd = "none" /\ esp'.data = esp.data
               /\ esp'.mail = esp.mail /\ esp'.link = esp.link /\ rx'.ipd = rx.ipd
               /\ ">" \in rx'.seen => ">" \in rx.seen
    <2>1. "SEND OK" # ">"
      BY Zenon
    <2> QED
      BY <1>1, <1>5, <2>1, AnswersKeep, Zenon
  <1>6. CASE Answers("load", "SEND OK", esp) /\ ~esp.mail /\ UNCHANGED <<srv, history>>
    <2>1. srv' = srv /\ accepted' = accepted
      BY <1>6, Zenon DEF history
    <2>2. ~esp.mail
      BY <1>6, Zenon
    <2> QED
      BY <1>4, <1>5, <1>6, <2>1, <2>2, Zenon
  <1>7. CASE /\ esp.mail /\ esp.link /\ srv.reply = "none"
             /\ Answers("load", "SEND OK", esp) /\ ServerTakes(esp.load)
    BY <1>4, <1>5, <1>7, Zenon
  <1> QED
    BY <1>3, <1>6, <1>7, Zenon DEF EspSends, history


-----------------------------------------------------------------------------
LEMMA DialogInductive == (Init => Dialog) /\ (Inv /\ Dialog /\ [Next]_vars => Dialog')
  <1>1. Init => Dialog
    BY DEF Init, Dialog, Heard, AtPrompt, AtSendOk, AtAnswer, SuccessMeansAccepted,
           EspOff, Nothing, Junk
  <1>2. ASSUME Inv, Dialog, [Next]_vars
        PROVE  Dialog'
    <2>1. TypeOK /\ Place
      BY <1>2 DEF Inv
    <2>2. CASE vtaskWifi
      BY <1>2, <2>1, <2>2, DialogTask
    <2>3. CASE SendEmail \/ ConsoleGoesOn \/ CloseWifiTask
      BY <1>2, <2>1, <2>3, DialogConsole
    <2>4. CASE EspBoots \/ EspAnswersCommand \/ EspSilent
      BY <1>2, <2>1, <2>4, DialogCommands
    <2>5. CASE EspOpens \/ EspPrompts \/ EspSends \/ ServerReplies
      BY <1>2, <2>1, <2>5, DialogOpens, DialogPrompts, DialogSends, DialogReplies
    <2>6. CASE ServerHangsUp \/ BrowserAsks \/ BrowserLeaves \/ UartError \/ RxOverrun
      BY <1>2, <2>1, <2>6, DialogInterrupts
    <2>7. CASE UNCHANGED vars
      <3>1. pc' = pc /\ step' = step /\ rx' = rx /\ esp' = esp /\ srv' = srv
            /\ emailState' = emailState /\ accepted' = accepted
        BY <2>7 DEF vars, globals, task, buffer, history
      <3>2. SentOk' = SentOk
        BY <3>1, Zenon DEF SentOk
      <3> QED
        BY <1>2, <3>1, <3>2 DEF Dialog, Heard, Loading, AtPrompt, AtSendOk, StillLoading,
           AtAnswer, InTextAt354, TextSent, AcceptedAt250, SuccessMeansAccepted
    <2> QED
      BY <1>2, <2>2, <2>3, <2>4, <2>5, <2>6, <2>7 DEF Next, EspWorks
  <1> QED
    BY <1>1, <1>2

\* For every number of recipients and packets, and whatever goes wrong on the
\* way - silence, UART errors, torn packets, overruns, restarts of the task: a
\* mail is reported as SMTP_SUCCESS only when the server accepted it.
THEOREM ReportedMeansAccepted == Spec => []SuccessMeansAccepted
  <1>1. Dialog => SuccessMeansAccepted
    BY DEF Dialog
  <1> QED
    BY <1>1, DialogInductive, InvInductive, PTL DEF Spec


-----------------------------------------------------------------------------
(* EspMail implements MailJob as long as nothing stops the UART or the task. *)

PhaseOf(s) == CASE s \in {3, 4} -> "running"
                [] s \in {1, 2} -> "requested"
                [] OTHER -> "idle"

ResultOf(e) == IF e \in {"START", "INPROGRESS"} THEN "pending" ELSE e

LEMMA PhaseIs ==
  ASSUME NEW s \in 0..4
  PROVE  /\ s \in {3, 4} => PhaseOf(s) = "running"
         /\ s \in {1, 2} => PhaseOf(s) = "requested"
         /\ s = 0 => PhaseOf(s) = "idle"
  <1>1. ~(s \in {3, 4} /\ s \in {1, 2}) /\ (s = 0 => ~(s \in {3, 4}) /\ ~(s \in {1, 2}))
    OBVIOUS
  <1> QED
    BY <1>1, Zenon DEF PhaseOf

\* A step of MailJob, in its variables.
JobStep(p, r, t, p1, r1, t1) ==
  \/ p1 = p /\ r1 = r /\ t1 = t
  \/ p = "idle" /\ p1 = "requested" /\ r1 = r /\ t1 = t
  \/ p = "requested" /\ p1 = "running" /\ r1 = "pending" /\ t1 = FALSE
  \/ ~t /\ t1 = TRUE /\ p1 = p /\ r1 = r
  \/ p = "running" /\ r = "pending" /\ ((r1 = "SUCCESS" /\ t) \/ r1 = "FAIL") /\ p1 = p /\ t1 = t
  \/ p = "running" /\ r \in {"SUCCESS", "FAIL"} /\ p1 = "idle" /\ r1 = r /\ t1 = t

LEMMA JobStepIsStep ==
  ASSUME JobStep(PhaseOf(start), ResultOf(emailState), accepted,
                 PhaseOf(start'), ResultOf(emailState'), accepted')
  PROVE  [Job!Next]_(Job!vars)
  BY Zenon DEF JobStep, PhaseOf, ResultOf, Job!Next, Job!vars, Job!Request, Job!Begin,
     Job!ServerTakesMail, Job!Conclude, Job!End, Job!Results

\* A mail has its result when the dialog is over, and not before.
Ending == pc \in {"quit", "qPrompt", "qAnswer"}

ResultInTime ==
  /\ ui # "restarting"
  /\ connectionType = "SMTP" =>
       IF Ending THEN emailState \in {"SUCCESS", "FAIL"} ELSE emailState \in {"START", "INPROGRESS"}

LEMMA ImplementsTask ==
  ASSUME TypeOK, TypeOK', Place, Handshake, Dialog, ResultInTime, vtaskWifi
  PROVE  /\ ResultInTime'
         /\ JobStep(PhaseOf(start), ResultOf(emailState), accepted,
                    PhaseOf(start'), ResultOf(emailState'), accepted')
  <1> DEFINE Goal == /\ ResultInTime'
                     /\ JobStep(PhaseOf(start), ResultOf(emailState), accepted,
                                PhaseOf(start'), ResultOf(emailState'), accepted')
  <1>1. /\ start \in {3, 4} => PhaseOf(start) = "running"
        /\ start \in {1, 2} => PhaseOf(start) = "requested"
        /\ start = 0 => PhaseOf(start) = "idle"
    BY PhaseIs DEF TypeOK
  <1>2. /\ start' \in {3, 4} => PhaseOf(start') = "running"
        /\ start' \in {1, 2} => PhaseOf(start') = "requested"
        /\ start' = 0 => PhaseOf(start') = "idle"
    BY PhaseIs DEF TypeOK
  \* Most steps have nothing to do with the mail.
  <1>3. ASSUME ~Ending, ~Ending', ui' = ui, connectionType' = connectionType,
               start' = start \/ (start = 1 /\ start' = 2),
               emailState' = emailState, accepted' = accepted
        PROVE  Goal
    BY <1>1, <1>2, <1>3 DEF ResultInTime, JobStep
  <1>4. CASE ServeGet \/ Greet \/ EspReady \/ NothingToDo \/ InitNext
             \/ WebPacket \/ WebMore \/ WebEnd \/ WebClosed \/ WebDummy
    BY <1>3, <1>4 DEF ServeGet, Greet, EspReady, NothingToDo, InitNext, WebPacket, WebMore,
       WebEnd, WebClosed, WebDummy, Awake, Wait, WebOnly, Elsewhere, Ending, history, console
  <1>5. CASE CommandPrompt \/ CommandSent \/ ServerStarted
    BY <1>3, <1>5 DEF CommandPrompt, CommandSent, SendCommand, ServerStarted, Wait,
       DialogOnly, Elsewhere, Ending, history, console
  <1>6. CASE NoMail \/ MailNoticed \/ CannotSend \/ OpenChannel
    BY <1>3, <1>6 DEF NoMail, MailNoticed, CannotSend, OpenChannel, AtMailCheck, Sleep,
       Ending, globals, history
  <1>7. CASE ResetDummy \/ ResetMail \/ ResetServer
    BY <1>7 DEF ResetDummy, ResetMail, ResetServer, Wait, Handshake
  <1>8. CASE InitDone
    <2>1. connectionType = "INIT" /\ connectionType' = "HTTP" /\ ui' = ui
          /\ start' = start /\ emailState' = emailState /\ accepted' = accepted
      BY <1>8 DEF InitDone, Place, Elsewhere, history, console
    <2> QED
      BY <1>1, <1>2, <2>1 DEF ResultInTime, JobStep
  <1>9. CASE AnswerGood
    <2>1. pc = "answer" /\ ui' = ui /\ connectionType' = connectionType /\ accepted' = accepted
          /\ start' = (IF step = Greeting THEN 4 ELSE start)
      BY <1>9 DEF AnswerGood, DialogOnly, Elsewhere, console
    <2>2. connectionType = "SMTP" /\ start \in {3, 4} /\ start' \in {3, 4}
      BY <2>1 DEF Place, Handshake, InDialog
    <2>3. emailState \in {"START", "INPROGRESS"}
      BY <2>1, <2>2 DEF ResultInTime, Ending
    <2>4. \/ emailState' = "SUCCESS" /\ pc' = "quit"
          \/ emailState' = "INPROGRESS" /\ pc' = "prompt"
      BY <1>9 DEF AnswerGood, SendCommand
    <2>5. emailState' = "SUCCESS" => accepted
      BY <1>9, <2>1, DialogAnswerGood DEF SuccessMeansAccepted
    <2> QED
      BY <1>1, <1>2, <2>1, <2>2, <2>3, <2>4, <2>5
         DEF ResultInTime, Ending, JobStep, ResultOf
  <1>10. CASE DialogFails
    <2>1. pc \in {"answer", "prompt", "sendok"} /\ pc' = "quit" /\ emailState' = "FAIL"
          /\ ui' = ui /\ connectionType' = connectionType /\ accepted' = accepted /\ start' = start
      BY <1>10 DEF DialogFails, Wait, DialogOnly, Elsewhere, console
    <2>2. connectionType = "SMTP" /\ start \in {3, 4}
      BY <2>1 DEF Place, Handshake, InDialog
    <2>3. emailState \in {"START", "INPROGRESS"}
      BY <2>1, <2>2 DEF ResultInTime, Ending
    <2> QED
      BY <1>1, <1>2, <2>1, <2>2, <2>3 DEF ResultInTime, Ending, JobStep, ResultOf
  <1>11. CASE SendQuit \/ QuitPrompt
    <2>1. Ending /\ Ending' /\ ui' = ui /\ connectionType' = connectionType
          /\ emailState' = emailState /\ accepted' = accepted /\ start' = start
      BY <1>11 DEF SendQuit, QuitPrompt, Wait, Ending, DialogOnly, Elsewhere, console
    <2> QED
      BY <2>1 DEF ResultInTime, JobStep
  <1>12. CASE FinishMail
    <2>1. pc \in {"quit", "qAnswer"} /\ start' = 0 /\ connectionType' = "HTTP" /\ ui' = ui
          /\ emailState' = emailState /\ accepted' = accepted
      BY <1>12 DEF FinishMail, Wait, Elsewhere, console, history
    <2>2. connectionType = "SMTP" /\ start \in {3, 4}
      BY <2>1 DEF Place, Handshake, InDialog
    <2>3. emailState \in {"SUCCESS", "FAIL"}
      BY <2>1, <2>2 DEF ResultInTime, Ending
    <2> QED
      BY <1>1, <1>2, <2>1, <2>2, <2>3 DEF ResultInTime, JobStep, ResultOf
  <1>13. CASE EmailSendStart
    <2>1. start = 2 /\ start' = 3 /\ emailState' = "START" /\ accepted' = FALSE
          /\ pc' = "stopSrv" /\ ui' = ui
      BY <1>13 DEF EmailSendStart, console
    <2> QED
      BY <1>1, <1>2, <2>1 DEF ResultInTime, Ending, JobStep, ResultOf
  <1> QED
    BY <1>4, <1>5, <1>6, <1>7, <1>8, <1>9, <1>10, <1>11, <1>12, <1>13 DEF vtaskWifi

LEMMA ImplementsOther ==
  ASSUME TypeOK, TypeOK', Handshake, ResultInTime, faults = MaxFaults, restarts = MaxRestarts,
         Next \/ UNCHANGED vars, ~vtaskWifi
  PROVE  /\ ResultInTime'
         /\ JobStep(PhaseOf(start), ResultOf(emailState), accepted,
                    PhaseOf(start'), ResultOf(emailState'), accepted')
  <1> USE DEF JobStep
  <1>1. CASE SendEmail \/ SendEmailFill
    BY <1>1 DEF SendEmail, SendEmailFill, ConsoleOnly, task, history, ResultInTime, Ending
  <1>2. CASE SendEmailClaim
    <2>1. start = 0 /\ start' = 1
      BY <1>2 DEF SendEmailClaim, Handshake
    <2>2. PhaseOf(start) = "idle" /\ PhaseOf(start') = "requested"
      BY <2>1, PhaseIs
    <2> QED
      BY <1>2, <2>2 DEF SendEmailClaim, ConsoleOnly, task, history, ResultInTime, Ending
  <1>3. CASE CloseWifiTask \/ CreateWifiTask \/ UartError \/ RxOverrun
    BY <1>3, MailAssumption DEF CloseWifiTask, CreateWifiTask, UartError, RxOverrun, ResultInTime
  <1>4. CASE EspWorks \/ EspSilent \/ ServerReplies \/ ServerHangsUp
             \/ BrowserAsks \/ BrowserLeaves \/ UNCHANGED vars
    <2>1. start' = start /\ emailState' = emailState /\ connectionType' = connectionType
          /\ ui' = ui /\ pc' = pc
      BY <1>4 DEF EspWorks, EspBoots, EspAnswersCommand, EspOpens, EspPrompts, EspSends,
         EspSilent, ServerReplies, ServerHangsUp, BrowserAsks, BrowserLeaves, Outside,
         vars, globals, task, console
    <2>2. accepted' = accepted \/ (~accepted /\ accepted' = TRUE)
      BY <1>4 DEF EspWorks, EspBoots, EspAnswersCommand, EspOpens, EspPrompts, EspSends,
         ServerTakes, EspSilent, ServerReplies, ServerHangsUp, BrowserAsks, BrowserLeaves,
         vars, history, TypeOK
    <2> QED
      BY <2>1, <2>2 DEF ResultInTime, Ending
  <1> QED
    BY <1>1, <1>2, <1>3, <1>4 DEF Next, ConsoleGoesOn

\* As long as neither the UART fails nor the task is restarted, for any number of
\* mails, recipients and packets: every step of the firmware is one that MailJob
\* allows.  A request is accepted only when no mail is in hand; a mail has one
\* result, which is not taken back; and it makes room for the next one only then.
THEOREM ImplementsJob ==
  ASSUME MaxFaults = 0, MaxRestarts = 0
  PROVE  Spec => MailStepsAreJobSteps
  <1>1. Init => ResultInTime /\ Job!Init
    <2>1. PhaseOf(0) = "idle"
      BY PhaseIs
    <2>2. ASSUME Init PROVE Job!Init
      <3>1. PhaseOf(start) = "idle" /\ ResultOf(emailState) = "none" /\ accepted = FALSE
        BY <2>1, <2>2 DEF Init, ResultOf
      <3> QED
        BY <3>1, Zenon DEF Job!Init, PhaseOf, ResultOf
    <2> QED
      BY <2>2 DEF Init, ResultInTime
  <1>2. ASSUME Inv, Dialog, ResultInTime, [Next]_vars
        PROVE  ResultInTime' /\ [Job!Next]_(Job!vars)
    <2>1. TypeOK /\ Place /\ TypeOK' /\ faults = 0 /\ restarts = 0
      BY <1>2, InvInductive DEF Inv, TypeOK
    <2>2. Handshake
      BY <1>2, <2>1 DEF Inv, Calm
    <2>3. ResultInTime' /\ JobStep(PhaseOf(start), ResultOf(emailState), accepted,
                                   PhaseOf(start'), ResultOf(emailState'), accepted')
      BY <1>2, <2>1, <2>2, ImplementsTask, ImplementsOther
    <2> QED
      BY <2>3, JobStepIsStep
  <1> QED
    BY <1>1, <1>2, DialogInductive, InvInductive, PTL DEF Spec, MailStepsAreJobSteps

=============================================================================
