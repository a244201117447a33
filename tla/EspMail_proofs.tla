--------------------------- MODULE EspMail_proofs ---------------------------
(***************************************************************************)
(* Proofs about EspMail, for every number of e-mails, recipients, packets, *)
(* faults and restarts.  The invariant that carries the induction is Inv:  *)
(* TypeOK, the relation between the task's place and its mode (Place), and *)
(* what holds as long as the UART works (Calm).                            *)
(***************************************************************************)
EXTENDS EspMail, TLAPS

\* The dialog and the set-up are left before connectionType is changed, and
\* SendEmail got past its test only if a request was left.
Place ==
  /\ InDialog => connectionType = "SMTP"
  /\ pc = "init" => connectionType = "INIT"
  /\ ui = "passed" => mails < MaxMails
  /\ ui = "filling" => mails # 0

\* No UART error: the reset branch is never entered, and the two rounds that
\* count start up to 2 end in a delay in which SendEmail is done, or has missed its
\* turn.
Handshake ==
  /\ ~resetDMA /\ pc \notin {"dummyWait", "dummy", "rstoff", "rston"}
  /\ connectionType = "SMTP" <=> start \in {3, 4}
  /\ ui = "passed" => start = 0
  /\ ui = "filling" /\ turn # "missed" =>
       start = 1 \/ (start = 2 /\ turn = "due" /\ pc = "main")

\* The parameters the mail in hand was put together from: those of the request that
\* start belongs to; if SendEmail missed its turn, also those of the one before.
OneRequest(m) ==
  \E r \in 1..MaxMails : m \subseteq {r - 1, r} /\ (turn = "missed" \/ m = {r})

Parameters ==
  /\ param = IF ui = "filling" THEN mails - 1 ELSE mails
  /\ start # 0 => mails # 0
  /\ start \in {3, 4} => /\ used \subseteq {mails - 1, mails}
                         /\ turn = "missed" \/ (used = {mails} /\ ui # "filling")
  /\ used = {} \/ OneRequest(used)

\* Before the first mail there is no session with the mail server.
Session == used = {} => srv.pos = Junk /\ esp.cmd # "cipstart" /\ pc # "stopSrv"

Calm == faults = 0 => Handshake /\ Parameters /\ Session /\ OneRequestPerMail

Inv == TypeOK /\ Place /\ Calm

-----------------------------------------------------------------------------
(* The pieces actions are made of. *)

LEMMA StepsAreNat ==
  /\ LastStep \in Nat /\ DataStep \in Nat /\ DataStep >= 6 /\ LastStep > DataStep + 3
  BY MailAssumption DEF LastStep, DataStep

LEMMA ExpectedType ==
  ASSUME NEW k \in Nat
  PROVE  Expected(k) \in Codes \cup {"none"}
  BY Zenon DEF Expected, Codes

\* A step that waits for no answer is not the last one.
LEMMA ExpectedNone ==
  ASSUME NEW k \in 0..LastStep, Expected(k) = "none"
  PROVE  k + 1 \in 0..LastStep
  <1>1. k > DataStep /\ k < LastStep
    BY Zenon DEF Expected
  <1> QED
    BY <1>1, StepsAreNat

LEMMA EspTakesType ==
  ASSUME esp \in EspType, NEW cmd \in Cmds, NEW load \in Junk..LastStep
  PROVE  EspTakes(cmd, load) \in EspType
  <1>1. {"load", "bad"} \subseteq Cmds
    BY DEF Cmds
  <1>2. Junk \in Junk..LastStep
    BY StepsAreNat DEF Junk
  <1>3. \A c \in Cmds, l \in Junk..LastStep :
          [esp EXCEPT !.data = FALSE, !.cmd = c, !.load = l] \in EspType
    BY DEF EspType
  <1>4. \A c \in Cmds : [esp EXCEPT !.cmd = c] \in EspType
    BY DEF EspType
  <1> QED
    BY <1>1, <1>2, <1>3, <1>4 DEF EspTakes

LEMMA NothingType == Nothing \in RxType
  BY DEF Nothing, RxType

LEMMA SendType ==
  ASSUME TypeOK, NEW cmd \in Cmds, Send(cmd)
  PROVE  esp' \in EspType /\ rxOn' \in BOOLEAN /\ rx' \in RxType
  <1>1. Junk \in Junk..LastStep
    BY StepsAreNat DEF Junk
  <1>2. esp' \in EspType
    BY <1>1, EspTakesType DEF TypeOK, Send
  <1> QED
    BY <1>2, NothingType DEF Send, RestartDMA

LEMMA SendLoadType ==
  ASSUME TypeOK, NEW load \in Junk..LastStep, SendLoad(load)
  PROVE  esp' \in EspType /\ rxOn' \in BOOLEAN /\ rx' \in RxType
  <1>1. "load" \in Cmds
    BY DEF Cmds
  <1>2. esp' \in EspType
    BY <1>1, EspTakesType DEF TypeOK, SendLoad
  <1> QED
    BY <1>2, NothingType DEF SendLoad, RestartDMA

LEMMA HearType ==
  ASSUME rx \in RxType, NEW texts \in SUBSET Texts, NEW code \in Codes \cup {"GET", "none"},
         Hear(texts, code)
  PROVE  rx' \in RxType
  BY DEF Hear, RxType

LEMMA AnswersType ==
  ASSUME TypeOK, NEW c, NEW text \in Texts, NEW e \in EspType, Answers(c, text, e)
  PROVE  esp' \in EspType /\ rx' \in RxType
  <1>1. Junk \in Junk..LastStep /\ "none" \in Cmds
    BY StepsAreNat DEF Junk, Cmds
  <1>2. esp' \in EspType
    BY <1>1 DEF Answers, EspType
  <1>3. Hear({text}, "none")
    BY DEF Answers
  <1>4. rx' \in RxType
    BY <1>3, HearType DEF TypeOK, RxType
  <1> QED
    BY <1>2, <1>4

-----------------------------------------------------------------------------
(* Types.  What a step does to the buffer and to the ESP32 comes first. *)

LEMMA TaskBuffer ==
  ASSUME TypeOK, Place, vtaskWifi
  PROVE  esp' \in EspType /\ rxOn' \in BOOLEAN /\ rx' \in RxType
  <1>1. {"AT", "bad", "srvon", "srvoff", "close", "cipstart", "sendMail", "sendWeb"}
          \subseteq Cmds
    BY DEF Cmds
  <1>2. esp \in EspType /\ rxOn \in BOOLEAN /\ rx \in RxType
    BY DEF TypeOK
  <1>3. Junk \in Junk..LastStep /\ Quit \in Junk..LastStep
    BY StepsAreNat DEF Junk, Quit
  <1>4. step \in Junk..LastStep \/ pc # "prompt"
    BY StepsAreNat DEF TypeOK, InDialog, Junk
  <1>5. CASE ServeGet
    BY <1>1, <1>2, SendType, <1>5 DEF ServeGet, buffer
  <1>6. CASE Greet
    BY <1>2, <1>6 DEF Greet, buffer
  <1>7. CASE EspReady
    BY <1>1, <1>2, SendType, <1>7 DEF EspReady, buffer
  <1>8. CASE NothingToDo
    BY <1>2, <1>8 DEF NothingToDo, buffer
  <1>9. CASE InitNext
    BY <1>1, <1>2, SendType, <1>9 DEF InitNext, buffer
  <1>10. CASE InitDone
    BY <1>1, <1>2, SendType, NothingType, <1>10 DEF InitDone, RestartDMA, buffer
  <1>11. CASE WebPacket
    BY <1>1, <1>2, SendType, <1>3, SendLoadType, <1>11 DEF WebPacket, buffer
  <1>12. CASE WebMore
    BY <1>1, <1>2, SendType, <1>12 DEF WebMore, buffer
  <1>13. CASE WebEnd
    BY <1>1, <1>2, SendType, <1>13 DEF WebEnd, buffer
  <1>14. CASE WebClosed
    BY <1>1, <1>2, SendType, NothingType, <1>14 DEF WebClosed, RestartDMA, buffer
  <1>15. CASE WebDummy
    BY <1>1, <1>2, SendType, <1>15 DEF WebDummy, buffer
  <1>16. CASE AnswerGood
    BY <1>1, <1>2, SendType, <1>16 DEF AnswerGood, SendCommand, buffer
  <1>17. CASE CommandPrompt
    BY <1>2, <1>4, SendLoadType, <1>17 DEF CommandPrompt, Wait, buffer
  <1>18. CASE CommandSent
    BY <1>1, <1>2, SendType, <1>18 DEF CommandSent, SendCommand, buffer
  <1>19. CASE DialogFails
    BY <1>2, <1>19 DEF DialogFails, buffer
  <1>20. CASE SendQuit
    BY <1>1, <1>2, SendType, <1>20 DEF SendQuit, buffer
  <1>21. CASE QuitPrompt
    BY <1>1, <1>2, SendType, <1>3, SendLoadType, <1>21 DEF QuitPrompt, buffer
  <1>22. CASE FinishMail
    BY <1>1, <1>2, SendType, <1>22 DEF FinishMail, buffer
  <1>23. CASE ServerStarted
    BY <1>1, <1>2, SendType, NothingType, <1>23 DEF ServerStarted, RestartDMA, buffer
  <1>24. CASE ResetDummy
    BY <1>1, <1>2, SendType, <1>24 DEF ResetDummy, buffer
  <1>25. CASE ResetMail
    BY <1>1, <1>2, SendType, <1>25 DEF ResetMail, buffer
  <1>26. CASE ResetServer
    BY <1>1, <1>2, SendType, <1>26 DEF ResetServer, buffer
  <1>27. CASE NoMail
    BY <1>2, <1>27 DEF NoMail, buffer
  <1>28. CASE MailNoticed
    BY <1>2, <1>28 DEF MailNoticed, buffer
  <1>29. CASE EmailSendStart
    BY <1>1, <1>2, SendType, <1>29 DEF EmailSendStart, buffer
  <1>30. CASE CannotSend
    BY <1>2, <1>30 DEF CannotSend, buffer
  <1>31. CASE OpenChannel
    BY <1>1, <1>2, SendType, <1>31 DEF OpenChannel, buffer
  <1> QED
    BY <1>5, <1>6, <1>7, <1>8, <1>9, <1>10, <1>11, <1>12, <1>13, <1>14, <1>15, <1>16, <1>17, <1>18, <1>19, <1>20, <1>21, <1>22, <1>23, <1>24, <1>25, <1>26, <1>27, <1>28, <1>29, <1>30, <1>31 DEF vtaskWifi

LEMMA EspFlags ==
  ASSUME esp \in EspType, NEW b \in BOOLEAN, NEW c \in BOOLEAN
  PROVE  /\ [esp EXCEPT !.server = b] \in EspType
         /\ [esp EXCEPT !.web = b] \in EspType
         /\ [esp EXCEPT !.link = b] \in EspType
         /\ [esp EXCEPT !.data = b, !.mail = c] \in EspType
  BY DEF EspType

LEMMA EspOffType ==
  /\ EspOff \in EspType /\ [EspOff EXCEPT !.cmd = "boot"] \in EspType
  /\ [pos |-> Junk, reply |-> "none"] \in SrvType
  <1>1. Junk \in Junk..LastStep
    BY StepsAreNat DEF Junk
  <1>2. {"off", "boot"} \subseteq Cmds
    BY DEF Cmds
  <1>3. EspOff \in EspType /\ [EspOff EXCEPT !.cmd = "boot"] \in EspType
    BY <1>1, <1>2 DEF EspOff, EspType
  <1>4. [pos |-> Junk, reply |-> "none"] \in SrvType
    BY <1>1 DEF SrvType
  <1> QED
    BY <1>3, <1>4

\* The ESP32, the mail server, browsers and interrupts.
Outer == EspWorks \/ EspSilent \/ ServerReplies \/ ServerHangsUp
         \/ BrowserAsks \/ BrowserLeaves \/ UartError \/ RxOverrun

LEMMA OuterBuffer ==
  ASSUME TypeOK, Outer
  PROVE  esp' \in EspType /\ rxOn' \in BOOLEAN /\ rx' \in RxType
  <1>1. esp \in EspType /\ rxOn \in BOOLEAN /\ rx \in RxType /\ srv \in SrvType
    BY DEF TypeOK
  <1>2. {"ready", "OK", "ERROR", "CLOSED", "closing", "GET", ">", "SEND OK"} \subseteq Texts
    BY DEF Texts
  <1>3. CASE EspBoots
    BY <1>1, <1>2, AnswersType, <1>3 DEF EspBoots, Outside
  <1>4. CASE EspAnswersCommand
    BY <1>1, <1>2, AnswersType, EspFlags, <1>4 DEF EspAnswersCommand, Outside
  <1>5. CASE EspOpens
    BY <1>1, <1>2, AnswersType, EspFlags, <1>5 DEF EspOpens, Outside
  <1>6. CASE EspPrompts
    BY <1>1, <1>2, AnswersType, EspFlags, <1>6 DEF EspPrompts, Outside
  <1>7. CASE EspSends
    BY <1>1, <1>2, AnswersType, <1>7 DEF EspSends, Outside
  <1>8. CASE EspSilent
    <2>1. Junk \in Junk..LastStep /\ "none" \in Cmds
      BY StepsAreNat DEF Junk, Cmds
    <2>2. esp' \in EspType
      BY <1>1, <1>8, <2>1 DEF EspSilent, EspType
    <2> QED
      BY <1>1, <1>8, <2>2 DEF EspSilent, Outside
  <1>9. CASE ServerReplies
    BY <1>1, <1>2, HearType, <1>9 DEF ServerReplies, Outside, SrvType
  <1>10. CASE ServerHangsUp
    BY <1>1, <1>2, HearType, EspFlags, <1>10 DEF ServerHangsUp, Outside
  <1>11. CASE BrowserAsks
    BY <1>1, <1>2, HearType, EspFlags, <1>11 DEF BrowserAsks, Outside
  <1>12. CASE BrowserLeaves
    BY <1>1, <1>2, HearType, EspFlags, <1>12 DEF BrowserLeaves, Outside
  <1>13. CASE UartError
    <2>1. [rx EXCEPT !.ipd = "torn"] \in RxType
      BY <1>1 DEF RxType
    <2>2. [seen |-> rx.seen \cup {"GET"}, ipd |-> "torn"] \in RxType
      BY <1>1, <1>2 DEF RxType
    <2> QED
      BY <1>1, <1>13, <2>1, <2>2 DEF UartError
  <1>14. CASE RxOverrun
    BY <1>1, <1>2, NothingType, <1>14 DEF RxOverrun, RestartDMA
  <1> QED
    BY <1>3, <1>4, <1>5, <1>6, <1>7, <1>8, <1>9, <1>10, <1>11, <1>12, <1>13, <1>14 DEF Outer, EspWorks

LEMMA ServerTakesType ==
  ASSUME TypeOK, NEW k \in Junk..LastStep, ServerTakes(k)
  PROVE  srv' \in SrvType /\ accepted' \in BOOLEAN /\ delivered' \subseteq SUBSET (0..MaxMails)
  <1>1. {"250", "221", "5xx", "none"} \subseteq Codes \cup {"none"}
    BY DEF Codes
  <1>2. 0 \in Junk..LastStep
    BY StepsAreNat DEF Junk
  <1>3. k > 0 => Expected(k) \in Codes \cup {"none"}
    BY StepsAreNat, ExpectedType DEF Junk
  <1>4. srv \in SrvType /\ accepted \in BOOLEAN /\ used \subseteq 0..MaxMails
        /\ delivered \subseteq SUBSET (0..MaxMails)
    BY DEF TypeOK
  <1>5. srv' \in SrvType
    BY <1>1, <1>2, <1>3, <1>4 DEF ServerTakes, SrvType
  <1>6. accepted' \in BOOLEAN
    BY <1>4 DEF ServerTakes
  <1>7. delivered' \subseteq SUBSET (0..MaxMails)
    BY <1>4 DEF ServerTakes
  <1> QED
    BY <1>5, <1>6, <1>7

LEMMA TaskType ==
  ASSUME TypeOK, Place, vtaskWifi
  PROVE  TypeOK'
  <1> USE MailAssumption DEF TypeOK, InDialog, globals, task, buffer, console, history, budgets
  <1>0. esp' \in EspType /\ rxOn' \in BOOLEAN /\ rx' \in RxType
    BY TaskBuffer
  <1>1. CASE ServeGet
    BY <1>0, <1>1 DEF ServeGet, Awake, Elsewhere
  <1>2. CASE Greet
    BY <1>0, StepsAreNat, <1>2 DEF Greet, Awake, Elsewhere, Greeting
  <1>3. CASE EspReady
    BY <1>0, <1>3 DEF EspReady, Awake, Elsewhere, LastInit
  <1>4. CASE NothingToDo
    BY <1>0, <1>4 DEF NothingToDo, Awake, Elsewhere
  <1>5. CASE InitNext
    BY <1>0, <1>5 DEF InitNext, Elsewhere, LastInit
  <1>6. CASE InitDone
    BY <1>0, <1>6 DEF InitDone, Elsewhere
  <1>7. CASE WebPacket
    BY <1>0, <1>7 DEF WebPacket, Wait, WebOnly, Elsewhere
  <1>8. CASE WebMore
    <2>1. step \in 0..PagePackets /\ step > 0 /\ step' = step /\ pc' = "webPrompt"
      BY <1>8 DEF WebMore, Wait
    <2>2. step' \in 1..PagePackets
      BY <2>1
    <2>3. WebOnly /\ Elsewhere
      BY <1>8 DEF WebMore
    <2> QED
      BY <1>0, <2>1, <2>2, <2>3 DEF WebOnly, Elsewhere
  <1>9. CASE WebEnd
    BY <1>0, <1>9 DEF WebEnd, Wait, WebOnly, Elsewhere
  <1>10. CASE WebClosed
    BY <1>0, <1>10 DEF WebClosed, Wait, WebOnly, Elsewhere
  <1>11. CASE WebDummy
    BY <1>0, <1>11 DEF WebDummy, Wait, WebOnly, Elsewhere
  <1>12. CASE AnswerGood
    <2>1. step \in 0..LastStep /\ start' \in 0..4 /\ emailState' \in {"SUCCESS", "INPROGRESS"}
      BY <1>12 DEF AnswerGood
    <2>2. used' \subseteq 0..MaxMails
      BY <1>12 DEF AnswerGood, SendCommand
    <2>3. (pc' = "quit" /\ step' = step)
          \/ (pc' = "prompt" /\ step' = step + 1 /\ step # LastStep)
      BY <1>12 DEF AnswerGood, SendCommand
    <2>4. pc' \in {"quit", "prompt"} /\ step' \in 0..LastStep
      BY <2>1, <2>3, StepsAreNat
    <2> QED
      BY <1>0, <1>12, <2>1, <2>2, <2>4 DEF AnswerGood, DialogOnly, Elsewhere
  <1>13. CASE CommandPrompt
    BY <1>0, <1>13 DEF CommandPrompt, Wait, DialogOnly, Elsewhere
  <1>14. CASE CommandSent
    <2>1. step \in 0..LastStep
      BY <1>14 DEF CommandSent
    <2>2. used' \subseteq 0..MaxMails
      BY <1>14 DEF CommandSent, SendCommand
    <2>3. (pc' = "answer" /\ step' = step)
          \/ (pc' = "prompt" /\ step' = step + 1 /\ Expected(step) = "none")
      BY <1>14 DEF CommandSent, SendCommand
    <2>4. pc' \in {"answer", "prompt"} /\ step' \in 0..LastStep
      BY <2>1, <2>3, ExpectedNone
    <2>5. step' \in Nat
      BY <2>4, StepsAreNat
    <2>6. UNCHANGED <<start, emailState>> /\ DialogOnly /\ Elsewhere
      BY <1>14 DEF CommandSent
    <2> QED
      BY <1>0, <1>14, <2>2, <2>4, <2>5, <2>6 DEF DialogOnly, Elsewhere
  <1>15. CASE DialogFails
    BY <1>0, <1>15 DEF DialogFails, Wait, DialogOnly, Elsewhere
  <1>16. CASE SendQuit
    BY <1>0, <1>16 DEF SendQuit, Wait, DialogOnly, Elsewhere
  <1>17. CASE QuitPrompt
    BY <1>0, <1>17 DEF QuitPrompt, Wait, DialogOnly, Elsewhere, Quit
  <1>18. CASE FinishMail
    BY <1>0, <1>18 DEF FinishMail, Wait, Elsewhere
  <1>19. CASE ServerStarted
    BY <1>0, <1>19 DEF ServerStarted, Wait, Elsewhere
  <1>20. CASE ResetDummy
    BY <1>0, <1>20 DEF ResetDummy, Wait, ResetOnly, Elsewhere
  <1>21. CASE ResetMail
    <2>1. start' = 0 /\ resetDMA' \in BOOLEAN /\ pc' = "rstoff"
      BY <1>21 DEF ResetMail, Wait
    <2> QED
      BY <1>0, <1>21, <2>1 DEF ResetMail, ResetOnly, Elsewhere
  <1>22. CASE ResetServer
    BY <1>0, <1>22 DEF ResetServer, Wait, ResetOnly, Elsewhere
  <1>23. CASE NoMail
    BY <1>0, <1>23 DEF NoMail, AtMailCheck, Sleep
  <1>24. CASE MailNoticed
    BY <1>0, <1>24 DEF MailNoticed, AtMailCheck, Sleep
  <1>25. CASE EmailSendStart
    <2>1. used' \subseteq 0..MaxMails
      BY <1>25 DEF EmailSendStart
    <2>2. pc' = "stopSrv" /\ start' = 3 /\ connectionType' = "SMTP"
          /\ emailState' = "START" /\ accepted' = FALSE
          /\ UNCHANGED <<param, resetDMA, step, console, srv, delivered, budgets>>
      BY <1>25 DEF EmailSendStart
    <2>3. accepted' \in BOOLEAN
      BY <2>2
    <2> QED
      BY <1>0, <2>1, <2>2, <2>3
  <1>26. CASE CannotSend
    BY <1>0, <1>26 DEF CannotSend, AtMailCheck, Sleep
  <1>27. CASE OpenChannel
    BY <1>0, <1>27 DEF OpenChannel, Sleep
  <1> QED
    BY <1>1, <1>2, <1>3, <1>4, <1>5, <1>6, <1>7, <1>8, <1>9, <1>10, <1>11, <1>12, <1>13, <1>14, <1>15, <1>16, <1>17, <1>18, <1>19, <1>20, <1>21, <1>22, <1>23, <1>24, <1>25, <1>26, <1>27 DEF vtaskWifi

LEMMA OuterType ==
  ASSUME TypeOK, Outer
  PROVE  TypeOK'
  <1> USE DEF globals, task, buffer, console, history, budgets
  <1>0. esp' \in EspType /\ rxOn' \in BOOLEAN /\ rx' \in RxType
    BY OuterBuffer
  <1>1. /\ srv' \in SrvType /\ accepted' \in BOOLEAN /\ used' \subseteq 0..MaxMails
        /\ delivered' \subseteq SUBSET (0..MaxMails)
    <2> USE DEF TypeOK
    <2>1. CASE EspBoots \/ EspAnswersCommand \/ EspPrompts \/ EspSilent
               \/ BrowserAsks \/ BrowserLeaves
      BY <2>1 DEF EspBoots, EspAnswersCommand, EspPrompts, EspSilent, BrowserAsks, BrowserLeaves
    <2>2. CASE EspOpens
      <3>1. [pos |-> 0, reply |-> "220"] \in SrvType
        BY StepsAreNat DEF SrvType, Codes, Junk
      <3> QED
        BY <2>2, <3>1 DEF EspOpens
    <2>3. CASE EspSends
      <3>1. esp.load \in Junk..LastStep
        BY DEF EspType
      <3> QED
        BY <2>3, <3>1, ServerTakesType DEF EspSends
    <2>4. CASE ServerReplies
      BY <2>4 DEF ServerReplies, SrvType
    <2>5. CASE ServerHangsUp
      BY <2>5, EspOffType DEF ServerHangsUp
    <2>6. CASE UartError
      BY <2>6 DEF UartError, SrvType
    <2>7. CASE RxOverrun
      BY <2>7 DEF RxOverrun
    <2> QED
      BY <2>1, <2>2, <2>3, <2>4, <2>5, <2>6, <2>7 DEF Outer, EspWorks
  <1>2. Outside \/ UartError \/ RxOverrun
    BY DEF Outer, EspWorks, EspBoots, EspAnswersCommand, EspOpens, EspPrompts, EspSends,
           EspSilent, ServerReplies, ServerHangsUp, BrowserAsks, BrowserLeaves
  <1>3. faults' \in 0..MaxFaults /\ UNCHANGED restarts
    BY <1>2, MailAssumption DEF Outside, UartError, RxOverrun, TypeOK
  <1>4. UNCHANGED <<connectionType, start, param, emailState, pc, step, ui, turn, mails>>
        /\ resetDMA' \in BOOLEAN
    BY <1>2 DEF Outside, UartError, RxOverrun, TypeOK
  <1> QED
    BY <1>0, <1>1, <1>3, <1>4 DEF TypeOK, InDialog

LEMMA ConsoleType ==
  ASSUME TypeOK, Place, SendEmail \/ ConsoleGoesOn \/ CloseWifiTask
  PROVE  TypeOK'
  <1> USE MailAssumption DEF TypeOK, InDialog, globals, task, buffer, console, history, budgets
  <1>1. CASE SendEmail
    BY <1>1 DEF SendEmail, ConsoleOnly
  <1>2. CASE SendEmailClaim
    <2>1. mails < MaxMails /\ mails \in 0..MaxMails
      BY <1>2 DEF SendEmailClaim, Place
    <2>2. mails + 1 \in 0..MaxMails
      BY <2>1
    <2>3. mails' = mails + 1 /\ start' = 1 /\ ui' = "filling"
          /\ UNCHANGED <<param, turn>> /\ ConsoleOnly
      BY <1>2 DEF SendEmailClaim
    <2> QED
      BY <2>2, <2>3 DEF ConsoleOnly
  <1>3. CASE SendEmailFill
    <2>1. param' \in 0..MaxMails /\ ui' = "idle" /\ turn' \in {"none", "due", "missed"}
          /\ UNCHANGED <<start, mails>> /\ ConsoleOnly
      BY <1>3 DEF SendEmailFill
    <2>2. UNCHANGED <<connectionType, emailState, resetDMA, pc, step, rx, rxOn, esp, srv,
                      accepted, used, delivered, faults, restarts>>
      BY <2>1 DEF ConsoleOnly
    <2> QED
      BY <2>1, <2>2
  <1>4. CASE CloseWifiTask
    <2>1. restarts' \in 0..MaxRestarts
      BY <1>4 DEF CloseWifiTask
    <2>2. rxOn' \in BOOLEAN /\ esp' \in EspType /\ srv' \in SrvType
      BY <1>4, EspOffType DEF CloseWifiTask
    <2>3. ui' = "restarting" /\ pc' = "dead" /\ step' = 0
          /\ UNCHANGED <<globals, rx, turn, mails, history, faults>>
      BY <1>4 DEF CloseWifiTask
    <2> QED
      BY <2>1, <2>2, <2>3
  <1>5. CASE CreateWifiTask
    <2>1. rx' \in RxType /\ rxOn' \in BOOLEAN /\ esp' \in EspType
      BY <1>5, EspOffType, NothingType DEF CreateWifiTask, RestartDMA
    <2>2. ui' = "idle" /\ pc' = "main" /\ start' = 0 /\ UNCHANGED turn
          /\ connectionType' = "INIT"
          /\ UNCHANGED <<param, emailState, resetDMA, step, mails, srv, history, budgets>>
      BY <1>5 DEF CreateWifiTask
    <2> QED
      BY <2>1, <2>2
  <1> QED
    BY <1>1, <1>2, <1>3, <1>4, <1>5 DEF ConsoleGoesOn

LEMMA StutterType ==
  ASSUME TypeOK, UNCHANGED vars
  PROVE  TypeOK'
  BY DEF TypeOK, InDialog, vars, globals, task, buffer, console, history, budgets

LEMMA PlaceTask ==
  ASSUME TypeOK, Place, vtaskWifi
  PROVE  Place'
  <1> USE DEF Place, InDialog, globals, task, console
  <1>1. CASE ServeGet
    BY <1>1 DEF ServeGet, Awake, Elsewhere
  <1>2. CASE Greet
    BY <1>2 DEF Greet, Awake, Elsewhere
  <1>3. CASE EspReady
    BY <1>3 DEF EspReady, Awake, Elsewhere
  <1>4. CASE NothingToDo
    BY <1>4 DEF NothingToDo, Awake, Elsewhere
  <1>5. CASE InitNext
    BY <1>5 DEF InitNext, Elsewhere
  <1>6. CASE InitDone
    BY <1>6 DEF InitDone, Elsewhere
  <1>7. CASE WebPacket
    BY <1>7 DEF WebPacket, Wait, WebOnly, Elsewhere
  <1>8. CASE WebMore
    BY <1>8 DEF WebMore, Wait, WebOnly, Elsewhere
  <1>9. CASE WebEnd
    BY <1>9 DEF WebEnd, Wait, WebOnly, Elsewhere
  <1>10. CASE WebClosed
    BY <1>10 DEF WebClosed, Wait, WebOnly, Elsewhere
  <1>11. CASE WebDummy
    BY <1>11 DEF WebDummy, Wait, WebOnly, Elsewhere
  <1>12. CASE AnswerGood
    BY <1>12 DEF AnswerGood, SendCommand, DialogOnly, Elsewhere
  <1>13. CASE CommandPrompt
    BY <1>13 DEF CommandPrompt, Wait, DialogOnly, Elsewhere
  <1>14. CASE CommandSent
    BY <1>14 DEF CommandSent, SendCommand, DialogOnly, Elsewhere
  <1>15. CASE DialogFails
    BY <1>15 DEF DialogFails, Wait, DialogOnly, Elsewhere
  <1>16. CASE SendQuit
    BY <1>16 DEF SendQuit, Wait, DialogOnly, Elsewhere
  <1>17. CASE QuitPrompt
    BY <1>17 DEF QuitPrompt, Wait, DialogOnly, Elsewhere
  <1>18. CASE FinishMail
    BY <1>18 DEF FinishMail, Wait, Elsewhere
  <1>19. CASE ServerStarted
    BY <1>19 DEF ServerStarted, Wait, Elsewhere
  <1>20. CASE ResetDummy
    BY <1>20 DEF ResetDummy, Wait, ResetOnly, Elsewhere
  <1>21. CASE ResetMail
    BY <1>21 DEF ResetMail, Wait, ResetOnly, Elsewhere
  <1>22. CASE ResetServer
    BY <1>22 DEF ResetServer, Wait, ResetOnly, Elsewhere
  <1>23. CASE NoMail
    BY <1>23 DEF NoMail, AtMailCheck, Sleep
  <1>24. CASE MailNoticed
    BY <1>24 DEF MailNoticed, AtMailCheck, Sleep
  <1>25. CASE EmailSendStart
    BY <1>25 DEF EmailSendStart, AtMailCheck
  <1>26. CASE CannotSend
    BY <1>26 DEF CannotSend, AtMailCheck, Sleep
  <1>27. CASE OpenChannel
    BY <1>27 DEF OpenChannel, Sleep
  <1> QED
    BY <1>1, <1>2, <1>3, <1>4, <1>5, <1>6, <1>7, <1>8, <1>9, <1>10, <1>11, <1>12, <1>13, <1>14, <1>15, <1>16, <1>17, <1>18, <1>19, <1>20, <1>21, <1>22, <1>23, <1>24, <1>25, <1>26, <1>27 DEF vtaskWifi

LEMMA PlaceStep ==
  ASSUME TypeOK, Place, [Next]_vars
  PROVE  Place'
  <1> USE DEF Place, InDialog, globals, task, console
  <1>1. CASE vtaskWifi
    BY <1>1, PlaceTask
  <1>2. CASE SendEmail
    BY <1>2 DEF SendEmail, ConsoleOnly
  <1>3. CASE SendEmailClaim
    BY <1>3 DEF SendEmailClaim, ConsoleOnly, TypeOK
  <1>4. CASE SendEmailFill
    BY <1>4 DEF SendEmailFill, ConsoleOnly
  <1>5. CASE CloseWifiTask
    BY <1>5 DEF CloseWifiTask
  <1>6. CASE CreateWifiTask
    BY <1>6 DEF CreateWifiTask
  <1>7. CASE Outer
    <2>1. Outside \/ UartError \/ RxOverrun
      BY <1>7 DEF Outer, EspWorks, EspBoots, EspAnswersCommand, EspOpens, EspPrompts, EspSends,
             EspSilent, ServerReplies, ServerHangsUp, BrowserAsks, BrowserLeaves
    <2> QED
      BY <2>1 DEF Outside, UartError, RxOverrun
  <1>8. CASE UNCHANGED vars
    BY <1>8 DEF vars
  <1> QED
    BY <1>1, <1>2, <1>3, <1>4, <1>5, <1>6, <1>7, <1>8 DEF Next, ConsoleGoesOn, Outer

LEMMA TypeStep ==
  ASSUME TypeOK, Place, [Next]_vars
  PROVE  TypeOK'
  BY TaskType, OuterType, ConsoleType, StutterType DEF Next, Outer

LEMMA TypeInit ==
  ASSUME Init
  PROVE  TypeOK /\ Place
  <1>1. 0 \in 0..4 /\ 0 \in 0..MaxMails /\ 0 \in 0..MaxFaults /\ 0 \in 0..MaxRestarts
    BY MailAssumption
  <1> QED
    BY <1>1, EspOffType, NothingType DEF Init, TypeOK, Place, InDialog

\* The variables of EspMail always have their types: in particular the task is
\* always within its scripts, and no more e-mails are accepted than were asked for.
THEOREM TypeCorrect == Spec => []TypeOK
  <1>1. Init => TypeOK /\ Place
    BY TypeInit
  <1>2. TypeOK /\ Place /\ [Next]_vars => (TypeOK /\ Place)'
    BY TypeStep, PlaceStep
  <1> QED
    BY <1>1, <1>2, PTL DEF Spec

-----------------------------------------------------------------------------
(* As long as the UART works. *)

LEMMA HandshakeTask ==
  ASSUME TypeOK, Place, Handshake, vtaskWifi
  PROVE  Handshake'
  <1> USE DEF Handshake, Place, InDialog, globals, task, console
  <1>1. CASE ServeGet
    BY <1>1 DEF ServeGet, Awake, Elsewhere
  <1>2. CASE Greet
    BY <1>2 DEF Greet, Awake, Elsewhere
  <1>3. CASE EspReady
    BY <1>3 DEF EspReady, Awake, Elsewhere
  <1>4. CASE NothingToDo
    BY <1>4 DEF NothingToDo, Awake, Elsewhere
  <1>5. CASE InitNext
    BY <1>5 DEF InitNext, Elsewhere
  <1>6. CASE InitDone
    BY <1>6 DEF InitDone, Elsewhere
  <1>7. CASE WebPacket
    BY <1>7 DEF WebPacket, Wait, WebOnly, Elsewhere
  <1>8. CASE WebMore
    BY <1>8 DEF WebMore, Wait, WebOnly, Elsewhere
  <1>9. CASE WebEnd
    BY <1>9 DEF WebEnd, Wait, WebOnly, Elsewhere
  <1>10. CASE WebClosed
    BY <1>10 DEF WebClosed, Wait, WebOnly, Elsewhere
  <1>11. CASE WebDummy
    BY <1>11 DEF WebDummy, Wait, WebOnly, Elsewhere
  <1>12. CASE AnswerGood
    BY <1>12 DEF AnswerGood, SendCommand, DialogOnly, Elsewhere
  <1>13. CASE CommandPrompt
    BY <1>13 DEF CommandPrompt, Wait, DialogOnly, Elsewhere
  <1>14. CASE CommandSent
    BY <1>14 DEF CommandSent, SendCommand, DialogOnly, Elsewhere
  <1>15. CASE DialogFails
    BY <1>15 DEF DialogFails, Wait, DialogOnly, Elsewhere
  <1>16. CASE SendQuit
    BY <1>16 DEF SendQuit, Wait, DialogOnly, Elsewhere
  <1>17. CASE QuitPrompt
    BY <1>17 DEF QuitPrompt, Wait, DialogOnly, Elsewhere
  <1>18. CASE FinishMail
    BY <1>18 DEF FinishMail, Wait, Elsewhere
  <1>19. CASE ServerStarted
    BY <1>19 DEF ServerStarted, Wait, Elsewhere
  <1>20. CASE ResetDummy
    BY <1>20 DEF ResetDummy, Wait, ResetOnly, Elsewhere
  <1>21. CASE ResetMail
    BY <1>21 DEF ResetMail, Wait, ResetOnly, Elsewhere
  <1>22. CASE ResetServer
    BY <1>22 DEF ResetServer, Wait, ResetOnly, Elsewhere
  <1>23. CASE NoMail
    BY <1>23 DEF NoMail, AtMailCheck, Sleep, TypeOK
  <1>24. CASE MailNoticed
    <2>1. ui = "filling" /\ turn' # "missed" => turn' = "due"
      BY <1>24, Zenon DEF MailNoticed, Sleep
    <2>2. start = 1 /\ start' = 2 /\ pc' = "main" /\ pc \in {"check", "rston"}
          /\ UNCHANGED <<connectionType, resetDMA, ui, mails>>
      BY <1>24 DEF MailNoticed, AtMailCheck, Sleep
    <2> QED
      BY <2>1, <2>2
  <1>25. CASE EmailSendStart
    BY <1>25 DEF EmailSendStart, AtMailCheck
  <1>26. CASE CannotSend
    BY <1>26 DEF CannotSend, AtMailCheck, Sleep, TypeOK
  <1>27. CASE OpenChannel
    BY <1>27 DEF OpenChannel, Sleep, TypeOK
  <1> QED
    BY <1>1, <1>2, <1>3, <1>4, <1>5, <1>6, <1>7, <1>8, <1>9, <1>10, <1>11, <1>12, <1>13, <1>14, <1>15, <1>16, <1>17, <1>18, <1>19, <1>20, <1>21, <1>22, <1>23, <1>24, <1>25, <1>26, <1>27 DEF vtaskWifi

\* A turn that was missed stays missed; the mail in hand is not changed by it.
LEMMA OneRequestStays ==
  ASSUME NEW m, NEW n, OneRequest(m), n = m, turn = "missed" => turn' = "missed"
  PROVE  \E r \in 1..MaxMails : n \subseteq {r - 1, r} /\ (turn' = "missed" \/ n = {r})
  BY DEF OneRequest

LEMMA ParametersKept ==
  ASSUME Parameters, UNCHANGED <<param, ui, mails, used>>,
         turn = "missed" => turn' = "missed",
         start' # 0 => start # 0, start' \in {3, 4} => start \in {3, 4}
  PROVE  Parameters'
  <1>1. used' = {} \/ OneRequest(used)'
    BY OneRequestStays DEF Parameters, OneRequest
  <1> QED
    BY <1>1 DEF Parameters

LEMMA TaskKeepsTurn == vtaskWifi => (turn = "missed" => turn' = "missed")
  <1>1. CASE ServeGet \/ Greet \/ EspReady \/ NothingToDo
    BY <1>1 DEF ServeGet, Greet, EspReady, NothingToDo, Awake
  <1>2. CASE NoMail \/ MailNoticed \/ CannotSend \/ OpenChannel
    BY <1>2 DEF NoMail, MailNoticed, CannotSend, OpenChannel, Sleep
  <1>3. CASE ~(ServeGet \/ Greet \/ EspReady \/ NothingToDo
               \/ NoMail \/ MailNoticed \/ CannotSend \/ OpenChannel)
    BY <1>3 DEF vtaskWifi, InitNext, InitDone,
           WebPacket, WebMore, WebEnd, WebClosed, WebDummy, AnswerGood, CommandPrompt,
           CommandSent, DialogFails, SendQuit, QuitPrompt, FinishMail, ServerStarted,
           ResetDummy, ResetMail, ResetServer, EmailSendStart, Elsewhere, ResetOnly,
           console
  <1> QED
    BY <1>1, <1>2, <1>3

LEMMA ParametersTask ==
  ASSUME TypeOK, Place, Handshake, Parameters, vtaskWifi
  PROVE  Parameters'
  <1>1. turn = "missed" => turn' = "missed"
    BY TaskKeepsTurn
  <1>2. CASE EmailSendStart
    <2>1. start = 2 /\ start' = 3 /\ used' = {param} /\ pc # "main"
          /\ UNCHANGED <<param, ui, turn, mails>>
      BY <1>2 DEF EmailSendStart, AtMailCheck, console
    <2>2. mails \in 1..MaxMails
      BY <2>1, MailAssumption DEF Parameters, TypeOK
    <2>3. turn = "missed" \/ ui # "filling"
      BY <2>1 DEF Handshake
    <2>4. param \in {mails - 1, mails} /\ (ui # "filling" => param = mails)
      BY DEF Parameters
    <2>5. used' \subseteq {mails - 1, mails} /\ (turn = "missed" \/ used' = {mails})
      BY <2>1, <2>3, <2>4
    <2>6. OneRequest(used)'
      BY <2>1, <2>2, <2>5 DEF OneRequest
    <2> QED
      BY <2>1, <2>2, <2>3, <2>5, <2>6 DEF Parameters
  <1>3. CASE AnswerGood \/ CommandSent
    <2>1. start \in {3, 4} /\ start' \in {3, 4} /\ UNCHANGED <<param, ui, turn, mails>>
      BY <1>3 DEF AnswerGood, CommandSent, Elsewhere, console, Handshake, Place, InDialog
    <2>2. used' = used \/ used' = used \cup {param}
      BY <1>3 DEF AnswerGood, CommandSent, SendCommand
    <2>3. param \in {mails - 1, mails} /\ (ui # "filling" => param = mails)
      BY DEF Parameters
    <2>4. mails \in 1..MaxMails
      BY <2>1, MailAssumption DEF Parameters, TypeOK
    <2>5. used' \subseteq {mails - 1, mails}
          /\ (turn = "missed" \/ (used' = {mails} /\ ui # "filling"))
      BY <2>1, <2>2, <2>3 DEF Parameters
    <2>6. OneRequest(used)'
      BY <2>1, <2>4, <2>5 DEF OneRequest
    <2> QED
      BY <2>1, <2>3, <2>4, <2>5, <2>6 DEF Parameters
  <1>4. CASE ~(EmailSendStart \/ AnswerGood \/ CommandSent)
    <2>1. UNCHANGED <<param, ui, mails, used>>
      BY <1>4 DEF vtaskWifi, ServeGet, Greet, EspReady, NothingToDo, InitNext, InitDone,
           WebPacket, WebMore, WebEnd, WebClosed, WebDummy, AnswerGood, CommandPrompt,
           CommandSent, DialogFails, SendQuit, QuitPrompt, FinishMail, ServerStarted,
           ResetDummy, ResetMail, ResetServer, NoMail, MailNoticed, EmailSendStart,
           CannotSend, OpenChannel,
           Awake, Sleep, Elsewhere, WebOnly, DialogOnly, ResetOnly, globals, console,
           history
    <2>2. (start' # 0 => start # 0) /\ (start' \in {3, 4} => start \in {3, 4})
      <3>1. CASE MailNoticed \/ FinishMail \/ ResetMail
        BY <3>1 DEF MailNoticed, FinishMail, ResetMail
      <3>2. CASE ~(MailNoticed \/ FinishMail \/ ResetMail)
        <4>1. UNCHANGED start
          BY <1>4, <3>2 DEF vtaskWifi, ServeGet, Greet, EspReady, NothingToDo, InitNext,
             InitDone, WebPacket, WebMore, WebEnd, WebClosed, WebDummy, CommandPrompt,
             DialogFails, SendQuit, QuitPrompt, ServerStarted, ResetDummy, ResetServer,
             NoMail, CannotSend, OpenChannel, WebOnly, globals
        <4> QED
          BY <4>1
      <3> QED
        BY <3>1, <3>2
    <2> QED
      BY <1>1, <2>1, <2>2, ParametersKept
  <1> QED
    BY <1>2, <1>3, <1>4

LEMMA SendNoChannel ==
  ASSUME esp \in EspType, esp.cmd # "cipstart", NEW c, c # "cipstart", Send(c)
  PROVE  esp'.cmd # "cipstart"
  BY DEF Send, EspTakes, EspType

LEMMA SendLoadNoChannel ==
  ASSUME esp \in EspType, esp.cmd # "cipstart", NEW load, SendLoad(load)
  PROVE  esp'.cmd # "cipstart"
  BY DEF SendLoad, EspTakes, EspType

LEMMA SessionTask ==
  ASSUME TypeOK, Session, vtaskWifi
  PROVE  Session'
  <1> USE DEF Session, history
  <1>0. esp \in EspType
    BY DEF TypeOK
  <1>1. CASE ServeGet
    BY <1>0, SendNoChannel, <1>1 DEF ServeGet, Awake, Elsewhere, buffer
  <1>2. CASE Greet
    BY <1>0, SendNoChannel, <1>2 DEF Greet, Awake, Elsewhere, buffer
  <1>3. CASE EspReady
    BY <1>0, SendNoChannel, <1>3 DEF EspReady, Awake, Elsewhere, buffer
  <1>4. CASE NothingToDo
    BY <1>0, SendNoChannel, <1>4 DEF NothingToDo, Awake, Elsewhere, buffer
  <1>5. CASE InitNext
    BY <1>0, SendNoChannel, <1>5 DEF InitNext, Elsewhere, buffer
  <1>6. CASE InitDone
    BY <1>0, SendNoChannel, <1>6 DEF InitDone, Elsewhere, buffer
  <1>7. CASE WebPacket
    BY <1>0, SendLoadNoChannel, <1>7 DEF WebPacket, Wait, WebOnly, Elsewhere, buffer
  <1>8. CASE WebMore
    BY <1>0, SendNoChannel, <1>8 DEF WebMore, Wait, WebOnly, Elsewhere, buffer
  <1>9. CASE WebEnd
    BY <1>0, SendNoChannel, <1>9 DEF WebEnd, Wait, WebOnly, Elsewhere, buffer
  <1>10. CASE WebClosed
    BY <1>0, SendNoChannel, <1>10 DEF WebClosed, Wait, WebOnly, Elsewhere, buffer
  <1>11. CASE WebDummy
    BY <1>0, SendNoChannel, <1>11 DEF WebDummy, Wait, WebOnly, Elsewhere, buffer
  <1>12. CASE AnswerGood
    BY <1>0, SendNoChannel, <1>12 DEF AnswerGood, SendCommand, DialogOnly, Elsewhere, SendCommand, buffer
  <1>13. CASE CommandPrompt
    BY <1>0, SendLoadNoChannel, <1>13 DEF CommandPrompt, Wait, DialogOnly, Elsewhere, buffer
  <1>14. CASE CommandSent
    BY <1>0, SendNoChannel, <1>14 DEF CommandSent, SendCommand, DialogOnly, Elsewhere, SendCommand, buffer
  <1>15. CASE DialogFails
    BY <1>0, SendNoChannel, <1>15 DEF DialogFails, Wait, DialogOnly, Elsewhere, buffer
  <1>16. CASE SendQuit
    BY <1>0, SendNoChannel, <1>16 DEF SendQuit, Wait, DialogOnly, Elsewhere, buffer
  <1>17. CASE QuitPrompt
    BY <1>0, SendLoadNoChannel, <1>17 DEF QuitPrompt, Wait, DialogOnly, Elsewhere, buffer
  <1>18. CASE FinishMail
    BY <1>0, SendNoChannel, <1>18 DEF FinishMail, Wait, Elsewhere, buffer
  <1>19. CASE ServerStarted
    BY <1>0, SendNoChannel, <1>19 DEF ServerStarted, Wait, Elsewhere, buffer
  <1>20. CASE ResetDummy
    BY <1>0, SendNoChannel, <1>20 DEF ResetDummy, Wait, ResetOnly, Elsewhere, buffer
  <1>21. CASE ResetMail
    BY <1>0, SendNoChannel, <1>21 DEF ResetMail, Wait, ResetOnly, Elsewhere, buffer
  <1>22. CASE ResetServer
    BY <1>0, SendNoChannel, <1>22 DEF ResetServer, Wait, ResetOnly, Elsewhere, buffer
  <1>23. CASE NoMail
    BY <1>0, SendNoChannel, <1>23 DEF NoMail, AtMailCheck, Sleep, buffer
  <1>24. CASE MailNoticed
    BY <1>0, SendNoChannel, <1>24 DEF MailNoticed, AtMailCheck, Sleep, buffer
  <1>25. CASE EmailSendStart
    BY <1>0, SendNoChannel, <1>25 DEF EmailSendStart, AtMailCheck, buffer
  <1>26. CASE CannotSend
    BY <1>0, SendNoChannel, <1>26 DEF CannotSend, AtMailCheck, Sleep, buffer
  <1>27. CASE OpenChannel
    BY <1>0, SendNoChannel, <1>27 DEF OpenChannel, Sleep, buffer
  <1> QED
    BY <1>1, <1>2, <1>3, <1>4, <1>5, <1>6, <1>7, <1>8, <1>9, <1>10, <1>11, <1>12, <1>13, <1>14, <1>15, <1>16, <1>17, <1>18, <1>19, <1>20, <1>21, <1>22, <1>23, <1>24, <1>25, <1>26, <1>27 DEF vtaskWifi

LEMMA TaskDelivers == vtaskWifi => UNCHANGED <<delivered, faults>>
  BY DEF vtaskWifi, ServeGet, Greet, EspReady, NothingToDo, InitNext, InitDone,
         WebPacket, WebMore, WebEnd, WebClosed, WebDummy, AnswerGood, CommandPrompt,
         CommandSent, DialogFails, SendQuit, QuitPrompt, FinishMail, ServerStarted,
         ResetDummy, ResetMail, ResetServer, NoMail, MailNoticed, EmailSendStart,
         CannotSend, OpenChannel, Awake, Elsewhere, WebOnly, DialogOnly, ResetOnly,
         history, budgets

\* The console: the request it fills in is the one start will belong to.
LEMMA CalmConsole ==
  ASSUME TypeOK, Place, Handshake, Parameters, Session,
         SendEmail \/ ConsoleGoesOn \/ CloseWifiTask
  PROVE  /\ Handshake' /\ Parameters' /\ Session'
         /\ turn = "missed" => turn' = "missed"
  <1> USE DEF Handshake, Session, globals, task, history
  <1>1. CASE SendEmail \/ CloseWifiTask \/ CreateWifiTask
    <2>1. /\ UNCHANGED <<param, mails, used, turn>> /\ ui # "filling" /\ ui' # "filling"
          /\ start' \in {0, start}
      BY <1>1 DEF SendEmail, CloseWifiTask, CreateWifiTask, ConsoleOnly
    <2>2. used' = {} \/ OneRequest(used)'
      BY <2>1, OneRequestStays DEF Parameters, OneRequest
    <2>3. Parameters'
      BY <2>1, <2>2 DEF Parameters
    <2>4. Handshake' /\ Session'
      BY <1>1 DEF SendEmail, CloseWifiTask, CreateWifiTask, ConsoleOnly, EspOff
    <2> QED
      BY <2>1, <2>3, <2>4
  <1>2. CASE SendEmailClaim
    <2>1. /\ ui = "passed" /\ ui' = "filling" /\ start' = 1 /\ mails' = mails + 1
          /\ UNCHANGED <<param, used, turn>>
      BY <1>2 DEF SendEmailClaim, ConsoleOnly
    <2>2. used' = {} \/ OneRequest(used)'
      BY <2>1, OneRequestStays DEF Parameters, OneRequest
    <2>3. param' = mails' - 1 /\ mails' # 0
      BY <2>1 DEF Parameters, TypeOK
    <2>4. Parameters'
      BY <2>1, <2>2, <2>3 DEF Parameters
    <2>5. Handshake' /\ Session'
      BY <1>2 DEF SendEmailClaim, ConsoleOnly
    <2> QED
      BY <2>1, <2>4, <2>5
  <1>3. CASE SendEmailFill
    <2>1. /\ ui = "filling" /\ ui' = "idle" /\ param' = mails
          /\ turn' = (IF turn = "due" THEN "none" ELSE turn)
          /\ UNCHANGED <<start, mails, used>>
      BY <1>3 DEF SendEmailFill, ConsoleOnly
    <2>2. turn = "missed" => turn' = "missed"
      BY <2>1
    <2>3. used' = {} \/ OneRequest(used)'
      BY <2>1, <2>2, OneRequestStays DEF Parameters, OneRequest
    <2>4. Parameters'
      BY <2>1, <2>2, <2>3 DEF Parameters
    <2>5. Handshake' /\ Session'
      BY <1>3 DEF SendEmailFill, ConsoleOnly
    <2> QED
      BY <2>2, <2>4, <2>5
  <1> QED
    BY <1>1, <1>2, <1>3 DEF ConsoleGoesOn

\* The last packet the mail server takes is the last of a session, and there is
\* no session without a mail.
LEMMA MailTakenIsOne ==
  ASSUME TypeOK, Parameters, Session, OneRequestPerMail, faults = 0,
         NEW k \in Junk..LastStep, ServerTakes(k)
  PROVE  /\ \A m \in delivered' : OneRequest(m)
         /\ srv.pos = Junk => srv'.pos = Junk
  <1>1. srv \in SrvType
    BY DEF TypeOK
  <1>2. srv.pos = Junk => ~InText
    BY StepsAreNat DEF InText, Junk
  <1>3. srv.pos = Junk => srv'.pos = Junk
    BY <1>1, <1>2 DEF ServerTakes, SrvType, Junk
  <1>4. delivered' = delivered
        \/ (k = LastStep /\ k = srv.pos + 1 /\ delivered' = delivered \cup {used})
    BY DEF ServerTakes
  <1>5. CASE k = LastStep /\ k = srv.pos + 1 /\ delivered' = delivered \cup {used}
    <2>1. srv.pos # Junk
      BY <1>5, StepsAreNat DEF Junk
    <2>2. OneRequest(used)
      BY <2>1 DEF Session, Parameters
    <2>3. \A m \in delivered : OneRequest(m)
      BY DEF OneRequestPerMail, OneRequest
    <2> QED
      BY <1>3, <1>5, <2>2, <2>3
  <1> QED
    BY <1>3, <1>4, <1>5 DEF OneRequestPerMail, OneRequest

LEMMA CalmOuter ==
  ASSUME TypeOK, Handshake, Parameters, Session, OneRequestPerMail, faults = 0, Outer,
         faults' = 0
  PROVE  Handshake' /\ Parameters' /\ Session' /\ OneRequestPerMail'
  <1>1. Outer /\ Outside
    <2>1. ~UartError /\ ~RxOverrun
      BY DEF UartError, RxOverrun
    <2> QED
      BY <2>1 DEF Outer, EspWorks, EspBoots, EspAnswersCommand, EspOpens, EspPrompts,
         EspSends, EspSilent, ServerReplies, ServerHangsUp, BrowserAsks, BrowserLeaves
  <1>2. Handshake'
    BY <1>1 DEF Handshake, Outside, globals, task, console
  <1>3. UNCHANGED used /\ (\A m \in delivered' : OneRequest(m))
        /\ (srv.pos = Junk /\ esp.cmd # "cipstart" => srv'.pos = Junk)
    <2>0. \A m \in delivered : OneRequest(m)
      BY DEF OneRequestPerMail, OneRequest
    <2>1. CASE EspBoots \/ EspAnswersCommand \/ EspPrompts \/ EspSilent
               \/ BrowserAsks \/ BrowserLeaves
      BY <2>0, <2>1 DEF EspBoots, EspAnswersCommand, EspPrompts, EspSilent, BrowserAsks,
                  BrowserLeaves, history
    <2>2. CASE EspOpens
      BY <2>0, <2>2 DEF EspOpens, Answers, history
    <2>3. CASE EspSends
      <3>1. esp.load \in Junk..LastStep
        BY DEF TypeOK, EspType
      <3> QED
        BY <2>0, <2>3, <3>1, MailTakenIsOne DEF EspSends, history
    <2>4. CASE ServerReplies
      BY <2>0, <2>4 DEF ServerReplies, history, TypeOK, SrvType
    <2>5. CASE ServerHangsUp
      BY <2>0, <2>5 DEF ServerHangsUp, history
    <2>6. CASE UartError \/ RxOverrun
      BY <2>6 DEF UartError, RxOverrun
    <2> QED
      BY <1>1, <2>1, <2>2, <2>3, <2>4, <2>5, <2>6 DEF Outer, EspWorks
  <1>4. UNCHANGED <<start, param, ui, turn, mails>>
    BY <1>1 DEF Outside, globals, console
  <1>7. Parameters'
    BY <1>3, <1>4, ParametersKept
  <1>8. OneRequestPerMail'
    BY <1>3, <1>4 DEF OneRequestPerMail, OneRequest
  <1>5. esp.cmd # "cipstart" => esp'.cmd # "cipstart"
    <2>1. CASE EspWorks
      BY <2>1 DEF EspWorks, EspBoots, EspAnswersCommand, EspOpens, EspPrompts, EspSends,
                  Answers, TypeOK, EspType
    <2>2. CASE ~EspWorks
      BY <1>1, <2>2 DEF Outer, EspSilent, ServerReplies, ServerHangsUp, BrowserAsks,
                  BrowserLeaves, UartError, RxOverrun, TypeOK, EspType
    <2> QED
      BY <2>1, <2>2
  <1>6. Session'
    BY <1>1, <1>3, <1>5 DEF Session, Outside, task
  <1> QED
    BY <1>2, <1>6, <1>7, <1>8

\* What was delivered stays as good as it was.
LEMMA DeliveredStays ==
  ASSUME OneRequestPerMail, faults = 0, UNCHANGED delivered,
         turn = "missed" => turn' = "missed"
  PROVE  OneRequestPerMail'
  BY DEF OneRequestPerMail

LEMMA CalmStep ==
  ASSUME TypeOK, Place, Calm, [Next]_vars
  PROVE  Calm'
  <1> SUFFICES ASSUME faults' = 0
               PROVE  Handshake' /\ Parameters' /\ Session' /\ OneRequestPerMail'
    BY DEF Calm
  <1>1. faults = 0
    <2>1. faults' = faults \/ faults' = faults + 1
      BY TaskDelivers DEF Next, ConsoleGoesOn, SendEmail, SendEmailClaim, SendEmailFill,
         ConsoleOnly, CloseWifiTask, CreateWifiTask, EspWorks, EspBoots, EspAnswersCommand,
         EspOpens, EspPrompts, EspSends, EspSilent, ServerReplies, ServerHangsUp,
         BrowserAsks, BrowserLeaves, UartError, RxOverrun, Outside, vars, budgets
    <2> QED
      BY <2>1 DEF TypeOK
  <1>2. Handshake /\ Parameters /\ Session /\ OneRequestPerMail
    BY <1>1 DEF Calm
  <1>3. CASE vtaskWifi
    <2>1. UNCHANGED delivered
      BY <1>3, TaskDelivers
    <2> QED
      BY <1>1, <1>2, <1>3, <2>1, HandshakeTask, ParametersTask, SessionTask, TaskKeepsTurn,
         DeliveredStays
  <1>4. CASE SendEmail \/ ConsoleGoesOn \/ CloseWifiTask
    <2>1. UNCHANGED delivered
      BY <1>4 DEF SendEmail, ConsoleGoesOn, SendEmailClaim, SendEmailFill, ConsoleOnly,
                  CloseWifiTask, CreateWifiTask, history
    <2> QED
      BY <1>1, <1>2, <1>4, <2>1, CalmConsole, DeliveredStays
  <1>5. CASE Outer
    BY <1>1, <1>2, <1>5, CalmOuter
  <1>6. CASE UNCHANGED vars
    <2>1. UNCHANGED <<globals, task, console, esp, srv, history>>
      BY <1>6 DEF vars
    <2>2. Parameters'
      BY <1>2, <2>1, ParametersKept DEF globals, console, history
    <2>3. OneRequestPerMail'
      BY <1>1, <1>2, <2>1, DeliveredStays DEF console, history
    <2> QED
      BY <1>2, <2>1, <2>2, <2>3 DEF globals, task, console, history, Handshake, Session
  <1> QED
    BY <1>3, <1>4, <1>5, <1>6 DEF Next, Outer

LEMMA InvInductive == (Init => Inv) /\ (Inv /\ [Next]_vars => Inv')
  <1>1. Init => Calm
    BY DEF Init, Calm, Handshake, Parameters, Session, OneRequestPerMail, EspOff, Junk
  <1> QED
    BY <1>1, TypeInit, TypeStep, PlaceStep, CalmStep DEF Inv

LEMMA InvAlways == Spec => []Inv
  BY InvInductive, PTL DEF Spec

\* For every number of e-mails and every size of a mail: as long as the UART
\* works, connectionType and EmailSendParam.start agree on whether a mail is
\* under way.
THEOREM ModeCorrect == Spec => []ModeMatchesMail
  <1>1. Inv => ModeMatchesMail
    BY DEF Inv, Calm, Handshake, ModeMatchesMail
  <1> QED
    BY <1>1, InvAlways, PTL

\* For every number of e-mails: as long as the UART works, SendEmail changes the
\* parameters of the mail the task is putting together only if it was half done
\* during a whole 20 ms delay of the task, and then two requests that follow one
\* another are mixed, never more.
THEOREM RequestsNotMixed == Spec => []OneRequestPerMail
  <1>1. Inv => OneRequestPerMail
    BY DEF Inv, Calm, OneRequestPerMail
  <1> QED
    BY <1>1, InvAlways, PTL

-----------------------------------------------------------------------------
(* The waits without a timeout. *)

Listening == rxOn \/ resetDMA \/ pc \in {"dummyWait", "dead"}

\* The error that stops reception raises the flag; the reset that lowers it starts
\* reception in the same step or, with no mail in hand, after the first dummy delay.
LEMMA ListeningStep ==
  ASSUME TypeOK, Listening, [Next]_vars
  PROVE  Listening'
  <1> USE DEF Listening, Send, SendLoad, RestartDMA, Wait, buffer, task, globals
  <1>1. CASE vtaskWifi
    <2>1. CASE ServeGet \/ Greet \/ EspReady \/ NothingToDo \/ InitNext \/ InitDone
      BY <2>1 DEF ServeGet, Greet, EspReady, NothingToDo, InitNext, InitDone, Awake
    <2>2. CASE WebPacket \/ WebMore \/ WebEnd \/ WebClosed \/ WebDummy
      BY <2>2 DEF WebPacket, WebMore, WebEnd, WebClosed, WebDummy, WebOnly
    <2>3. CASE AnswerGood \/ CommandPrompt \/ CommandSent \/ DialogFails
      BY <2>3 DEF AnswerGood, CommandPrompt, CommandSent, DialogFails, SendCommand,
                  DialogOnly
    <2>4. CASE SendQuit \/ QuitPrompt \/ FinishMail \/ ServerStarted
      BY <2>4 DEF SendQuit, QuitPrompt, FinishMail, ServerStarted, DialogOnly
    <2>5. CASE ResetDummy \/ ResetMail \/ ResetServer
      BY <2>5 DEF ResetDummy, ResetMail, ResetServer
    <2>6. CASE NoMail \/ MailNoticed \/ EmailSendStart \/ CannotSend \/ OpenChannel
      BY <2>6 DEF NoMail, MailNoticed, EmailSendStart, CannotSend, OpenChannel,
                  AtMailCheck
    <2> QED
      BY <1>1, <2>1, <2>2, <2>3, <2>4, <2>5, <2>6 DEF vtaskWifi
  <1>2. CASE SendEmail \/ ConsoleGoesOn \/ CloseWifiTask
    BY <1>2 DEF SendEmail, ConsoleGoesOn, SendEmailClaim, SendEmailFill, ConsoleOnly,
                CloseWifiTask, CreateWifiTask
  <1>3. CASE Outer
    BY <1>3 DEF Outer, EspWorks, EspBoots, EspAnswersCommand, EspOpens, EspPrompts,
         EspSends, EspSilent, ServerReplies, ServerHangsUp, BrowserAsks, BrowserLeaves,
         UartError, RxOverrun, Outside
  <1>4. CASE UNCHANGED vars
    BY <1>4 DEF vars
  <1> QED
    BY <1>1, <1>2, <1>3, <1>4 DEF Next, Outer

\* The set-up of an ESP32 that answers: it is told nothing before it is ready, and each
\* command finds it idle or busy with an earlier one, whose OK does as well.
Sound == faults = 0 /\ {"silence", "error"} \cap Faults = {}

Answered ==
  connectionType = "INIT" =>
    /\ pc \in {"main", "check", "init", "dead"} /\ ~esp.data
    /\ esp.cmd \in {"off", "boot", "none", "AT", "srvon"}
    /\ pc = "init" =>
         /\ esp.cmd \in {"none", "AT", "srvon"}
         /\ "OK" \in rx.seen \/ esp.cmd \in {"AT", "srvon"}
    /\ pc \in {"main", "check"} =>
         IF "ready" \in rx.seen THEN esp.cmd = "none" ELSE esp.cmd = "boot"

LEMMA AnsweredTask ==
  ASSUME TypeOK, Handshake, Answered, vtaskWifi
  PROVE  Answered'
  <1> SUFFICES ASSUME connectionType' = "INIT" PROVE Answered'
    BY DEF Answered
  <1>1. connectionType = "INIT"
    BY DEF vtaskWifi, ServeGet, Greet, EspReady, NothingToDo, InitNext, InitDone,
         WebPacket, WebMore, WebEnd, WebClosed, WebDummy, AnswerGood, CommandPrompt,
         CommandSent, DialogFails, SendQuit, QuitPrompt, FinishMail, ServerStarted,
         ResetDummy, ResetMail, ResetServer, NoMail, MailNoticed, EmailSendStart,
         CannotSend, OpenChannel, WebOnly, DialogOnly, ResetOnly, globals
  <1>2. /\ pc \in {"main", "check", "init", "dead"} /\ ~resetDMA
        /\ esp \in EspType
    BY <1>1 DEF Answered, Handshake, TypeOK
  <1>3. CASE EspReady
    <2>1. esp.cmd = "none" /\ ~esp.data /\ pc' = "init"
      BY <1>1, <1>3 DEF Answered, EspReady, Awake
    <2>2. esp' = [esp EXCEPT !.cmd = "AT"]
      BY <1>3, <2>1 DEF EspReady, Send, EspTakes
    <2> QED
      BY <1>2, <2>1, <2>2 DEF Answered, EspType
  <1>4. CASE InitNext
    <2>1. ~esp.data /\ esp.cmd \in {"none", "AT", "srvon"} /\ pc' = "init"
      BY <1>1, <1>4 DEF Answered, InitNext
    <2>2. PICK c \in {"AT", "srvon"} : Send(c)
      BY <1>4 DEF InitNext
    <2>3. esp' = IF esp.cmd # "none" THEN esp ELSE [esp EXCEPT !.cmd = c]
      BY <2>1, <2>2 DEF Send, EspTakes
    <2> QED
      BY <1>2, <2>1, <2>3 DEF Answered, EspType
  <1>5. CASE NothingToDo
    BY <1>1, <1>5 DEF NothingToDo, Awake, Answered, buffer
  <1>6. CASE NoMail \/ MailNoticed \/ CannotSend
    BY <1>1, <1>2, <1>6 DEF NoMail, MailNoticed, CannotSend, AtMailCheck, Sleep, Answered,
                            buffer
  <1>7. EspReady \/ InitNext \/ NothingToDo \/ NoMail \/ MailNoticed \/ CannotSend
    BY <1>1, <1>2 DEF vtaskWifi, ServeGet, Greet, InitDone, Awake, Wait,
         WebPacket, WebMore, WebEnd, WebClosed, WebDummy, AnswerGood, CommandPrompt,
         CommandSent, DialogFails, SendQuit, QuitPrompt, FinishMail, ServerStarted,
         ResetDummy, ResetMail, ResetServer, EmailSendStart, OpenChannel
  <1> QED
    BY <1>3, <1>4, <1>5, <1>6, <1>7

LEMMA AnsweredConsole ==
  ASSUME Answered, SendEmail \/ ConsoleGoesOn \/ CloseWifiTask
  PROVE  Answered'
  <1> USE DEF Answered
  <1>1. CASE SendEmail \/ SendEmailClaim \/ SendEmailFill
    BY <1>1 DEF SendEmail, SendEmailClaim, SendEmailFill, ConsoleOnly, task, buffer
  <1>2. CASE CloseWifiTask
    BY <1>2 DEF CloseWifiTask, EspOff, globals
  <1>3. CASE CreateWifiTask
    BY <1>3 DEF CreateWifiTask, EspOff, RestartDMA, Nothing
  <1> QED
    BY <1>1, <1>2, <1>3 DEF ConsoleGoesOn

LEMMA AnsweredOuter ==
  ASSUME TypeOK, Listening, Handshake, Sound, faults' = 0, Answered, Outer
  PROVE  Answered'
  <1>0. ~UartError /\ ~RxOverrun
    BY DEF UartError, RxOverrun, Sound
  <1>1. Outside
    BY <1>0 DEF Outer, EspWorks, EspBoots, EspAnswersCommand, EspOpens, EspPrompts,
       EspSends, EspSilent, ServerReplies, ServerHangsUp, BrowserAsks, BrowserLeaves
  <1> SUFFICES ASSUME connectionType = "INIT" PROVE Answered'
    BY <1>1 DEF Outside, globals, Answered
  <1>2. pc' = pc /\ connectionType' = connectionType /\ (rxOn \/ pc = "dead")
    BY <1>1 DEF Outside, globals, task, Listening, Handshake
  <1>3. esp \in EspType /\ rx \in RxType /\ "silence" \notin Faults /\ "error" \notin Faults
    BY DEF TypeOK, Sound
  <1>4. ~esp.data /\ esp.cmd \in {"off", "boot", "none", "AT", "srvon"}
    BY DEF Answered
  <1>5. CASE EspBoots
    <2>1. esp.cmd = "boot" /\ esp' = [esp EXCEPT !.cmd = "none", !.load = Junk]
      BY <1>5 DEF EspBoots, Answers
    <2>2. rxOn => "ready" \in rx'.seen
      BY <1>5 DEF EspBoots, Answers, Hear
    <2> QED
      BY <1>2, <1>3, <1>4, <2>1, <2>2 DEF Answered, EspType
  <1>6. CASE EspAnswersCommand
    <2>1. esp.cmd \in {"AT", "srvon"} /\ Hear({"OK"}, "none")
      BY <1>3, <1>4, <1>6 DEF EspAnswersCommand, Answers
    <2>2. esp'.cmd = "none" /\ ~esp'.data
      BY <1>3, <1>4, <1>6 DEF EspAnswersCommand, Answers, EspType
    <2>3. rxOn => "OK" \in rx'.seen
      BY <2>1 DEF Hear
    <2> QED
      BY <1>2, <2>1, <2>2, <2>3 DEF Answered
  <1>7. CASE ServerReplies \/ ServerHangsUp \/ BrowserAsks \/ BrowserLeaves
    <2>1. esp'.cmd = esp.cmd /\ esp'.data = esp.data
      BY <1>3, <1>7 DEF ServerReplies, ServerHangsUp, BrowserAsks, BrowserLeaves, EspType
    <2>2. \A t \in {"ready", "OK"} : t \in rx'.seen <=> t \in rx.seen
      BY <1>3, <1>7 DEF ServerReplies, ServerHangsUp, BrowserAsks, BrowserLeaves, Hear,
                        RxType
    <2> QED
      BY <1>2, <2>1, <2>2 DEF Answered
  <1>8. EspBoots \/ EspAnswersCommand \/ ServerReplies \/ ServerHangsUp \/ BrowserAsks
        \/ BrowserLeaves
    BY <1>0, <1>3, <1>4 DEF Outer, EspWorks, EspOpens, EspPrompts, EspSends, EspSilent,
       Answers
  <1> QED
    BY <1>5, <1>6, <1>7, <1>8

LEMMA AnsweredStep ==
  ASSUME Inv, Listening, Sound => Answered, [Next]_vars
  PROVE  Sound' => Answered'
  <1> SUFFICES ASSUME Sound' PROVE Answered'
    OBVIOUS
  <1>1. faults = 0 /\ Sound /\ Answered
    <2>1. faults' = faults \/ faults' = faults + 1
      BY TaskDelivers DEF Next, ConsoleGoesOn, SendEmail, SendEmailClaim, SendEmailFill,
         ConsoleOnly, CloseWifiTask, CreateWifiTask, EspWorks, EspBoots, EspAnswersCommand,
         EspOpens, EspPrompts, EspSends, EspSilent, ServerReplies, ServerHangsUp,
         BrowserAsks, BrowserLeaves, UartError, RxOverrun, Outside, vars, budgets
    <2> QED
      BY <2>1 DEF Inv, TypeOK, Sound
  <1>2. TypeOK /\ Handshake
    BY <1>1 DEF Inv, Calm
  <1>3. CASE UNCHANGED vars
    BY <1>1, <1>3 DEF vars, globals, task, buffer, Answered
  <1> QED
    BY <1>1, <1>2, <1>3, AnsweredTask, AnsweredConsole, AnsweredOuter DEF Next, Outer, Sound

\* For every number of e-mails, faults and restarts: when reception has stopped, the flag of
\* the error is up or the task is in the 200 ms before the transmission that starts it again;
\* and without UART errors the set-up of an ESP32 that answers never waits for an answer
\* that was lost.
THEOREM WaitsAreAnswered == Spec => []NoWaitInVain
  <1>1. Init => Listening /\ Answered
    BY DEF Init, Listening, Answered, EspOff, Nothing
  <1>2. Inv /\ Listening /\ (Sound => Answered) /\ [Next]_vars =>
          Listening' /\ (Sound => Answered)'
    BY ListeningStep, AnsweredStep DEF Inv
  <1>3. Inv /\ Listening /\ (Sound => Answered) => NoWaitInVain
    BY DEF Inv, Calm, Handshake, Listening, Sound, Answered, NoWaitInVain
  <1> QED
    BY <1>1, <1>2, <1>3, InvInductive, PTL DEF Spec

=============================================================================
