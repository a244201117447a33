------------------------------- MODULE EspMail -------------------------------
(***************************************************************************)
(* The task vtaskWifi of Application/Wifi/esp32wroom.c: it brings the      *)
(* ESP32 up, serves web pages through it and, on request of the console    *)
(* (SendEmail, Application/SMTP/smtp.c), sends one e-mail at a time.       *)
(*                                                                         *)
(* The task has a higher priority than the console, so it runs from one    *)
(* vTaskDelay to the next without being overtaken by it: an action of the  *)
(* task is one such run, and pc names the delay where it sleeps.  The TLS  *)
(* threads and lwIP run above both: the console may get no time at all     *)
(* during a delay of the task.  DMA, interrupts, the ESP32 and the mail    *)
(* server act whenever they like.                                          *)
(* A wait with a timeout may end at any moment in which its text is not in *)
(* the buffer; a wait without one ends only when the text is there.        *)
(***************************************************************************)
EXTENDS Integers, Sequences

CONSTANTS
  MaxMails,     \* bound: e-mails the console asks for
  MaxFaults,    \* bound: UART errors and receive-buffer overruns
  MaxRestarts,  \* bound: RestartWifiTask calls of the console
  Recipients,   \* number of bits set in EmailSendParam.recepientsMask
  Packets,      \* number of CIPSEND packets in the body of an e-mail
  PagePackets,  \* bound: packets of a web page
  CanSend,      \* outcomes of the checks of mode and IP in EmailSendStart
  Faults        \* what may go wrong: "silence" (the ESP32 or the mail server
                \* does not answer), "error" (ERROR to a set-up command), "uart"
                \* (a UART error), "uartInit" (also during the set-up), "torn"
                \* (also inside a packet), "overrun" (RecvBuffer fills up)

ASSUME MailAssumption ==
  /\ MaxMails \in Nat /\ MaxFaults \in Nat /\ MaxRestarts \in Nat
  /\ Recipients \in Nat /\ Packets \in Nat \ {0} /\ PagePackets \in Nat
  /\ CanSend \in SUBSET BOOLEAN /\ CanSend # {}
  /\ Faults \subseteq {"silence", "error", "uart", "uartInit", "torn", "overrun"}

VARIABLES
  connectionType,  \* what the task makes of the bytes it receives
  start,           \* EmailSendParam.start
  param,           \* the request the other fields of EmailSendParam belong to
  emailState,      \* emailStatus.state
  resetDMA,        \* set by the UART error interrupt
  pc, step,        \* the delay the task sleeps in; position in a script
  rx, rxOn,        \* RecvBuffer; is the receive DMA running
  ui,              \* the console's place in SendEmail or RestartWifiTask
  turn,            \* history: "due" in a 20 ms delay that found SendEmail half done,
                   \* "missed" for good once it was half done to the end of the delay
  mails,           \* SendEmail calls that were accepted
  esp,             \* the ESP32
  srv,             \* the mail server's side of the session
  accepted,        \* history: a mail was accepted since the last EmailSendStart
  used, delivered, \* history: the requests whose parameters went into the
                   \* mail in hand; those sets, for every accepted mail
  faults, restarts \* budgets used

globals == <<connectionType, start, param, emailState, resetDMA>>
task    == <<pc, step>>
buffer  == <<rx, rxOn>>
console == <<ui, turn, mails>>
history == <<accepted, used, delivered>>
budgets == <<faults, restarts>>
vars == <<globals, task, buffer, console, esp, srv, history, budgets>>

-----------------------------------------------------------------------------
(* The scripts the task walks through. *)

\* The answer the dialog waits for after the greeting (0), EHLO, AUTH LOGIN,
\* login, password, MAIL FROM, one RCPT TO per recipient, DATA, three header
\* packets and the body packets.  "none": the task does not wait for one.
Greeting == 0
DataStep == Recipients + 6
LastStep == DataStep + 3 + Packets

Expected(k) ==
  CASE k = Greeting                      -> "220"
    [] k \in {2, 3}                      -> "334"
    [] k = 4                             -> "235"
    [] k = DataStep                      -> "354"
    [] k > DataStep /\ k < LastStep      -> "none"
    [] OTHER                             -> "250"

\* The set-up commands, from ATE0 (1) to the command of vLoadTime (21), with
\* the settings of DefaultSettingsWIFI: mode AP_STA, no DHCP.  Those in
\* TimedSteps are waited for with a timeout, the host name until OK or ERROR,
\* all the others until OK, for ever.
HostNameStep == 8
ServerStep   == 17   \* vStartServer
TimeStep     == 20   \* vQueryAndLoadTimeFromSNTP; vLoadTime follows if it fails
LastInit     == 21
TimedSteps   == {12, ServerStep, 19, TimeStep}

InDialog == pc \in {"answer", "prompt", "sendok", "quit", "qPrompt", "qAnswer"}

-----------------------------------------------------------------------------
(* RecvBuffer, and what a transmission does to it and to the ESP32. *)

Texts == {"ready", "OK", "ERROR", ">", "SEND OK", "CLOSED", "closing", "GET"}
Codes == {"220", "250", "334", "235", "354", "221", "5xx"}

\* The task only asks which texts are in the buffer and what the first
\* "+IPD," packet in it carries.  A packet the UART cut off is never whole, and
\* the task waits for its remaining bytes without a timeout.
Whole == rx.ipd # "torn"

Nothing == [seen |-> {}, ipd |-> "none"]

\* Seeded fault: the buffer is emptied, the receive DMA is not started.
ClearOnly == rx' = Nothing /\ rxOn' = rxOn

RestartDMA == rx' = Nothing /\ rxOn' = TRUE

Junk == -1
Quit == 0

\* A command that reaches a busy ESP32 is lost; bytes that reach it after the
\* prompt are the packet, whatever the task meant them to be.
EspTakes(cmd, load) ==
  IF esp.data THEN [esp EXCEPT !.data = FALSE, !.cmd = "load",
                      !.load = IF cmd = "load" THEN load ELSE Junk]
  ELSE IF esp.cmd # "none" THEN esp
  ELSE [esp EXCEPT !.cmd = IF cmd = "load" THEN "bad" ELSE cmd]

\* SendToEsp, SendToEsp_DMA: the buffer is emptied before the bytes go out.
Send(cmd) == RestartDMA /\ esp' = EspTakes(cmd, Junk)
SendLoad(load) == RestartDMA /\ esp' = EspTakes("load", load)

Wait(from, to) == pc = from /\ pc' = to

-----------------------------------------------------------------------------
(* vtaskWifi: waking up in the main loop. *)

\* What a wake-up of the main loop, or the end of a wait, leaves alone.
Elsewhere == UNCHANGED <<console, param, srv, budgets>>

\* The 20 ms delay is over, whether or not the console got to run in it.
Awake ==
  /\ pc = "main" /\ turn' = IF turn = "due" THEN "missed" ELSE turn
  /\ UNCHANGED <<ui, mails, param, srv, budgets>>

\* case HTTP_CONNECTION with a whole request in the buffer: the page is sent in
\* step packets; an empty page needs none.
ServeGet ==
  /\ Awake /\ connectionType = "HTTP" /\ "GET" \in rx.seen /\ Whole
  /\ step' \in 0..PagePackets
  /\ IF step' > 0 THEN Send("sendWeb") /\ pc' = "webPrompt"
                  ELSE Send("close") /\ pc' = "webClose"
  /\ UNCHANGED <<connectionType, start, emailState, resetDMA, history>>

\* case SMTP_CONNECTION: any byte at all starts the dialog.
Greet ==
  /\ Awake /\ connectionType = "SMTP" /\ rx # Nothing
  /\ pc' = "answer" /\ step' = Greeting
  /\ UNCHANGED <<connectionType, start, emailState, resetDMA, buffer, esp, history>>

\* Seeded fault: ATE0 does not wait for "ready".
EspReadyAtOnce ==
  /\ Awake /\ connectionType = "INIT"
  /\ Send("AT") /\ pc' = "init" /\ step' = 1
  /\ UNCHANGED <<connectionType, start, emailState, resetDMA, history>>

\* case INIT_CONNECTION: the set-up script begins with ATE0.
EspReady ==
  /\ Awake /\ connectionType = "INIT" /\ "ready" \in rx.seen
  /\ Send("AT") /\ pc' = "init" /\ step' = 1
  /\ UNCHANGED <<connectionType, start, emailState, resetDMA, history>>

NothingToDo ==
  /\ Awake /\ pc' = "check"
  /\ \/ rx = Nothing
     \/ connectionType = "HTTP" /\ "GET" \notin rx.seen
     \/ connectionType = "INIT" /\ "ready" \notin rx.seen
  /\ UNCHANGED <<connectionType, start, emailState, resetDMA, step, buffer, esp, history>>

-----------------------------------------------------------------------------
(* The set-up script. *)

InitWaitOver ==
  \/ "OK" \in rx.seen \/ step \in TimedSteps
  \/ step = HostNameStep /\ "ERROR" \in rx.seen

InitNext ==
  /\ pc = "init" /\ step < LastInit /\ InitWaitOver
  /\ Send(IF step + 1 = ServerStep THEN "srvon" ELSE "AT")
  /\ step' = step + 1
  /\ UNCHANGED <<connectionType, start, emailState, resetDMA, pc, history>>
  /\ Elsewhere

\* The time came from SNTP, or vLoadTime was the last command.
InitDone ==
  /\ pc = "init" /\ InitWaitOver
  /\ step = LastInit \/ (step = TimeStep /\ "OK" \in rx.seen)
  /\ RestartDMA /\ connectionType' = "HTTP"
  /\ pc' = "check" /\ step' = 0
  /\ UNCHANGED <<start, emailState, resetDMA, esp, history>>
  /\ Elsewhere

-----------------------------------------------------------------------------
(* Serving a page: vSendDataHTTP, vCloseConnection, SendDummyData. *)

WebOnly == UNCHANGED <<connectionType, start, emailState, resetDMA, history>>

WebPacket ==
  /\ Wait("webPrompt", "webSent") /\ ">" \in rx.seen /\ SendLoad(Junk)
  /\ step' = step - 1 /\ WebOnly /\ Elsewhere

\* The next packet of the page, after SEND OK.
WebMore ==
  /\ Wait("webSent", "webPrompt") /\ "SEND OK" \in rx.seen /\ step > 0
  /\ Send("sendWeb") /\ UNCHANGED step /\ WebOnly /\ Elsewhere

\* The page is sent or given up; result 2 is the timeout at the prompt.
WebEnd ==
  /\ \/ /\ Wait("webPrompt", "webClose") /\ ">" \notin rx.seen
        /\ {"CLOSED", "ERROR"} \cap rx.seen # {}
     \/ /\ Wait("webPrompt", "webClose2")
        /\ {">", "CLOSED", "ERROR"} \cap rx.seen = {}
     \/ Wait("webSent", "webClose") /\ ("SEND OK" \in rx.seen => step = 0)
  /\ Send("close") /\ UNCHANGED step /\ WebOnly /\ Elsewhere

WebClosed ==
  /\ \/ Wait("webClose", "check")
     \/ Wait("webClose2", "check") /\ "CLOSED" \in rx.seen
     \/ Wait("webDummy", "check")
  /\ RestartDMA /\ step' = 0 /\ UNCHANGED esp
  /\ WebOnly /\ Elsewhere

\* Neither the prompt nor CLOSED came: bytes are sent to unblock the ESP32, each
\* time after a delay.
WebDummy ==
  /\ \/ /\ Wait("webClose2", "webDummyWait") /\ "CLOSED" \notin rx.seen
        /\ UNCHANGED <<buffer, esp>>
     \/ Wait("webDummyWait", "webDummy") /\ Send("bad")
  /\ UNCHANGED step /\ WebOnly /\ Elsewhere

-----------------------------------------------------------------------------
(* The SMTP dialog. *)

\* vSendCommandSMTP, or a packet of vSendDataSMTP, for command k.
SendCommand(k) ==
  /\ Send("sendMail") /\ pc' = "prompt" /\ step' = k
  /\ used' = used \cup {param}

DialogOnly == UNCHANGED <<connectionType, resetDMA, accepted, delivered>>

\* Seeded fault: the code of the answer is not compared.
AnyAnswerGood ==
  /\ pc = "answer" /\ rx.ipd # "none" /\ Whole
  /\ start' = IF step = Greeting THEN 4 ELSE start
  /\ IF step = LastStep
     THEN /\ emailState' = "SUCCESS" /\ pc' = "quit"
          /\ UNCHANGED <<step, buffer, esp, used>>
     ELSE emailState' = "INPROGRESS" /\ SendCommand(step + 1)
  /\ DialogOnly /\ Elsewhere

\* vCheckEmailAnswer saw the code it was called with.
AnswerGood ==
  /\ pc = "answer" /\ rx.ipd = Expected(step)
  /\ start' = IF step = Greeting THEN 4 ELSE start
  /\ IF step = LastStep
     THEN /\ emailState' = "SUCCESS" /\ pc' = "quit"
          /\ UNCHANGED <<step, buffer, esp, used>>
     ELSE emailState' = "INPROGRESS" /\ SendCommand(step + 1)
  /\ DialogOnly /\ Elsewhere

CommandPrompt ==
  /\ Wait("prompt", "sendok") /\ ">" \in rx.seen /\ SendLoad(step)
  /\ UNCHANGED <<start, emailState, step, used>>
  /\ DialogOnly /\ Elsewhere

CommandSent ==
  /\ pc = "sendok" /\ "SEND OK" \in rx.seen
  /\ IF Expected(step) = "none"
     THEN SendCommand(step + 1)
     ELSE pc' = "answer" /\ UNCHANGED <<step, buffer, esp, used>>
  /\ UNCHANGED <<start, emailState>>
  /\ DialogOnly /\ Elsewhere

\* Seeded fault: SMTP_FAIL is not set.
DialogFailsQuietly ==
  /\ \/ Wait("answer", "quit") /\ rx.ipd # Expected(step) /\ Whole
     \/ Wait("prompt", "quit") /\ ">" \notin rx.seen
     \/ Wait("sendok", "quit") /\ "SEND OK" \notin rx.seen
  /\ UNCHANGED <<emailState, start, step, buffer, esp, used>>
  /\ DialogOnly /\ Elsewhere

\* A wrong code, a packet of another channel, CLOSED, ERROR or a timeout.
DialogFails ==
  /\ \/ Wait("answer", "quit") /\ rx.ipd # Expected(step) /\ Whole
     \/ Wait("prompt", "quit") /\ ">" \notin rx.seen
     \/ Wait("sendok", "quit") /\ "SEND OK" \notin rx.seen
  /\ emailState' = "FAIL"
  /\ UNCHANGED <<start, step, buffer, esp, used>>
  /\ DialogOnly /\ Elsewhere

\* GOTO_Email_Quit: "quit" is sent unless the server already said goodbye.
SendQuit ==
  /\ Wait("quit", "qPrompt") /\ ~({"closing", "CLOSED"} \subseteq rx.seen)
  /\ Send("sendMail")
  /\ UNCHANGED <<start, emailState, step, used>>
  /\ DialogOnly /\ Elsewhere

QuitPrompt ==
  /\ Wait("qPrompt", "qAnswer")
  /\ IF ">" \in rx.seen THEN SendLoad(Quit) ELSE UNCHANGED <<buffer, esp>>
  /\ UNCHANGED <<start, emailState, step, used>>
  /\ DialogOnly /\ Elsewhere

\* Seeded fault: start is not reset.
FinishMailKeepingStart ==
  /\ \/ Wait("quit", "srvon") /\ {"closing", "CLOSED"} \subseteq rx.seen
     \/ Wait("qAnswer", "srvon") /\ Whole
  /\ connectionType' = "HTTP" /\ step' = 0
  /\ Send("srvon")
  /\ UNCHANGED <<start, emailState, resetDMA, history>> /\ Elsewhere

\* Seeded fault: connectionType is not reset.
FinishMailKeepingType ==
  /\ \/ Wait("quit", "srvon") /\ {"closing", "CLOSED"} \subseteq rx.seen
     \/ Wait("qAnswer", "srvon") /\ Whole
  /\ start' = 0 /\ step' = 0
  /\ Send("srvon")
  /\ UNCHANGED <<connectionType, emailState, resetDMA, history>> /\ Elsewhere

\* The answer to "quit", if any, changes nothing; the web server is restarted.
FinishMail ==
  /\ \/ Wait("quit", "srvon") /\ {"closing", "CLOSED"} \subseteq rx.seen
     \/ Wait("qAnswer", "srvon") /\ Whole
  /\ start' = 0 /\ connectionType' = "HTTP" /\ step' = 0
  /\ Send("srvon")
  /\ UNCHANGED <<emailState, resetDMA, history>> /\ Elsewhere

ServerStarted ==
  /\ Wait("srvon", "check") /\ RestartDMA
  /\ UNCHANGED <<connectionType, start, emailState, resetDMA, step, esp, history>>
  /\ Elsewhere

-----------------------------------------------------------------------------
(* The rest of the main loop: the reset after a UART error, then the mail. *)

ResetOnly == UNCHANGED <<connectionType, emailState, step, history>> /\ Elsewhere

\* With no mail in hand the ESP32 is first sent dummy bytes, three times after a
\* delay of 200 ms: in the first the flag is down and reception still stopped.
ResetDummy ==
  /\ \/ /\ Wait("check", "dummyWait") /\ resetDMA /\ start = 0
        /\ resetDMA' = FALSE /\ UNCHANGED <<buffer, esp>>
     \/ Wait("dummyWait", "dummy") /\ Send("bad") /\ UNCHANGED resetDMA
  /\ UNCHANGED start /\ ResetOnly

\* The mail in hand is forgotten, connectionType is not; vRestartWifiServer.
ResetMail ==
  /\ \/ Wait("check", "rstoff") /\ resetDMA /\ start # 0 /\ resetDMA' = FALSE
     \/ Wait("dummy", "rstoff") /\ UNCHANGED resetDMA
  /\ start' = 0 /\ Send("srvoff") /\ ResetOnly

ResetServer ==
  /\ Wait("rstoff", "rston") /\ Send("srvon")
  /\ UNCHANGED <<start, resetDMA>> /\ ResetOnly

AtMailCheck == pc = "rston" \/ (pc = "check" /\ ~resetDMA)

\* The last 20 ms delay, in which the console may run, or not.
Sleep ==
  /\ pc' = "main"
  /\ turn' = IF turn # "missed" /\ ui = "filling" THEN "due" ELSE turn

NoMail ==
  /\ AtMailCheck /\ start \notin {1, 2} /\ Sleep
  /\ UNCHANGED <<globals, step, buffer, ui, mails, esp, srv, history, budgets>>

\* Seeded fault: start is counted up without regard to its value.
MailNoticedTwice ==
  /\ AtMailCheck /\ start # 0 /\ start' = start + 1 /\ Sleep
  /\ UNCHANGED <<connectionType, param, emailState, resetDMA, step, buffer,
                 ui, mails, esp, srv, history, budgets>>

MailNoticed ==
  /\ AtMailCheck /\ start = 1 /\ start' = 2 /\ Sleep
  /\ UNCHANGED <<connectionType, param, emailState, resetDMA, step, buffer,
                 ui, mails, esp, srv, history, budgets>>

\* Seeded fault: the mail is begun in the round that notices the request.
EmailSendStartAtOnce ==
  /\ AtMailCheck /\ start \in {1, 2} /\ TRUE \in CanSend
  /\ connectionType' = "SMTP" /\ emailState' = "START" /\ start' = 3
  /\ Send("srvoff") /\ pc' = "stopSrv"
  /\ accepted' = FALSE /\ used' = {param}
  /\ UNCHANGED <<param, resetDMA, step, console, srv, delivered, budgets>>

\* EmailSendStart, up to the wait in vStopServer.
EmailSendStart ==
  /\ AtMailCheck /\ start = 2 /\ TRUE \in CanSend
  /\ connectionType' = "SMTP" /\ emailState' = "START" /\ start' = 3
  /\ Send("srvoff") /\ pc' = "stopSrv"
  /\ accepted' = FALSE /\ used' = {param}
  /\ UNCHANGED <<param, resetDMA, step, console, srv, delivered, budgets>>

\* The mode has no station, or the sender has no address.
CannotSend ==
  /\ AtMailCheck /\ start = 2 /\ FALSE \in CanSend /\ Sleep
  /\ UNCHANGED <<globals, step, buffer, ui, mails, esp, srv, history, budgets>>

\* The rest of EmailSendStart: CIPSTART, then the 20 ms delay.
OpenChannel ==
  /\ pc = "stopSrv" /\ Send("cipstart") /\ Sleep
  /\ UNCHANGED <<globals, step, ui, mails, srv, history, budgets>>

-----------------------------------------------------------------------------
(* The console task: SendEmail and RestartWifiTask. *)

ConsoleOnly == UNCHANGED <<connectionType, emailState, resetDMA, task, buffer,
                           esp, srv, history, budgets>>

\* if(EmailSendParam.start==0): the task may run before the body does.
SendEmail ==
  /\ ui = "idle" /\ start = 0 /\ mails < MaxMails
  /\ ui' = "passed" /\ UNCHANGED <<start, param, turn, mails>> /\ ConsoleOnly

SendEmailClaim ==
  /\ ui = "passed" /\ ui' = "filling"
  /\ start' = 1 /\ mails' = mails + 1 /\ UNCHANGED <<param, turn>> /\ ConsoleOnly

\* whichSender, recepientsMask and id are written after start.
SendEmailFill ==
  /\ ui = "filling" /\ ui' = "idle"
  /\ param' = mails /\ turn' = IF turn = "due" THEN "none" ELSE turn
  /\ UNCHANGED <<start, mails>> /\ ConsoleOnly

EspOff == [cmd |-> "off", load |-> Junk, data |-> FALSE, mail |-> FALSE,
           link |-> FALSE, server |-> FALSE, web |-> FALSE]

\* CloseWifiTask: the task is deleted wherever it sleeps.
CloseWifiTask ==
  /\ ui = "idle" /\ restarts < MaxRestarts /\ restarts' = restarts + 1
  /\ ui' = "restarting" /\ pc' = "dead" /\ step' = 0
  /\ rxOn' = FALSE /\ esp' = EspOff /\ srv' = [pos |-> Junk, reply |-> "none"]
  /\ UNCHANGED <<globals, rx, turn, mails, history, faults>>

\* CreateWifiTask and the first lines of vtaskWifi.
CreateWifiTask ==
  /\ ui = "restarting" /\ ui' = "idle"
  /\ RestartDMA /\ esp' = [EspOff EXCEPT !.cmd = "boot"]
  /\ connectionType' = "INIT" /\ start' = 0 /\ pc' = "main"
  /\ UNCHANGED <<turn, param, emailState, resetDMA, step, mails, srv, history, budgets>>

-----------------------------------------------------------------------------
(* The ESP32, the mail server and a browser, as far as the task hears them. *)

Hear(texts, code) ==
  IF rxOn
  THEN rx' = [seen |-> rx.seen \cup texts,
              ipd  |-> IF rx.ipd = "none" THEN code ELSE rx.ipd]
  ELSE rx' = rx

Outside == UNCHANGED <<globals, task, rxOn, console, budgets>>

\* The ESP32 answers command c with a text and moves to state e.
Answers(c, text, e) ==
  /\ esp.cmd = c /\ Hear({text}, "none")
  /\ esp' = [e EXCEPT !.cmd = "none", !.load = Junk]

EspBoots == Answers("boot", "ready", esp) /\ UNCHANGED <<srv, history>> /\ Outside

EspAnswersCommand ==
  /\ \/ Answers("AT", "OK", esp)
     \/ "error" \in Faults /\ Answers("AT", "ERROR", esp)
     \/ Answers("bad", "ERROR", esp)
     \/ Answers("srvon", "OK", [esp EXCEPT !.server = TRUE])
     \/ Answers("srvoff", "OK", [esp EXCEPT !.server = FALSE])
     \/ Answers("close", "CLOSED", [esp EXCEPT !.web = FALSE])
  /\ UNCHANGED <<srv, history>> /\ Outside

\* CIPSTART: refused, or the session with the mail server begins.
EspOpens ==
  /\ \/ Answers("cipstart", "ERROR", esp) /\ UNCHANGED srv
     \/ /\ ~esp.link /\ Answers("cipstart", "OK", [esp EXCEPT !.link = TRUE])
        /\ srv' = [pos |-> 0, reply |-> "220"]
  /\ UNCHANGED history /\ Outside

EspPrompts ==
  /\ \/ esp.link  /\ Answers("sendMail", ">", [esp EXCEPT !.data = TRUE, !.mail = TRUE])
     \/ ~esp.link /\ Answers("sendMail", "ERROR", esp)
     \/ esp.web   /\ Answers("sendWeb", ">", [esp EXCEPT !.data = TRUE, !.mail = FALSE])
     \/ ~esp.web  /\ Answers("sendWeb", "ERROR", esp)
  /\ UNCHANGED <<srv, history>> /\ Outside

\* What the mail server makes of a packet.  Between DATA and the end mark
\* every packet is text; a mail that lacks a packet is accepted all the same.
InText == srv.pos >= DataStep /\ srv.pos < LastStep

ServerTakes(k) ==
  \/ /\ k = srv.pos + 1 /\ k > 0
     /\ srv' = [pos |-> k, reply |-> Expected(k)]
     /\ accepted' = (accepted \/ k = LastStep)
     /\ delivered' = IF k = LastStep THEN delivered \cup {used} ELSE delivered
  \/ /\ InText /\ k # srv.pos + 1
     /\ srv' = IF k = LastStep THEN [pos |-> k, reply |-> "250"] ELSE srv
     /\ UNCHANGED <<accepted, delivered>>
  \/ /\ ~InText /\ k = Quit /\ srv' = [srv EXCEPT !.reply = "221"]
     /\ UNCHANGED <<accepted, delivered>>
  \/ /\ InText => k = LastStep          \* the server refuses
     /\ srv' = [pos |-> IF InText THEN 0 ELSE srv.pos, reply |-> "5xx"]
     /\ UNCHANGED <<accepted, delivered>>

EspSends ==
  /\ \/ /\ esp.mail /\ esp.link /\ srv.reply = "none"
        /\ Answers("load", "SEND OK", esp) /\ ServerTakes(esp.load)
        /\ UNCHANGED used
     \/ /\ esp.mail /\ ~esp.link /\ Answers("load", "ERROR", esp)
        /\ UNCHANGED <<srv, history>>
     \/ ~esp.mail /\ Answers("load", "SEND OK", esp) /\ UNCHANGED <<srv, history>>
  /\ Outside

EspSilent ==
  /\ "silence" \in Faults /\ esp.cmd \notin {"off", "boot", "none"}
  /\ esp' = [esp EXCEPT !.cmd = "none", !.load = Junk]
  /\ UNCHANGED <<rx, srv, history>> /\ Outside

ServerReplies ==
  /\ esp.link /\ srv.reply # "none"
  /\ \/ Hear(IF srv.reply \in {"221", "5xx"} THEN {"closing"} ELSE {}, srv.reply)
     \/ "silence" \in Faults /\ UNCHANGED rx
  /\ srv' = [srv EXCEPT !.reply = "none"]
  /\ UNCHANGED <<esp, history>> /\ Outside

ServerHangsUp ==
  /\ esp.link /\ srv.reply = "none" /\ Hear({"CLOSED"}, "none")
  /\ esp' = [esp EXCEPT !.link = FALSE]
  /\ srv' = [pos |-> Junk, reply |-> "none"]
  /\ UNCHANGED history /\ Outside

BrowserAsks ==
  /\ esp.server \/ esp.web
  /\ Hear({"GET"}, "GET") /\ esp' = [esp EXCEPT !.web = TRUE]
  /\ UNCHANGED <<srv, history>> /\ Outside

BrowserLeaves ==
  /\ esp.web /\ Hear({"CLOSED"}, "none") /\ esp' = [esp EXCEPT !.web = FALSE]
  /\ UNCHANGED <<srv, history>> /\ Outside

-----------------------------------------------------------------------------
(* Interrupts. *)

\* WIFI_UartErrorService; the HAL has stopped the receive DMA, perhaps inside a
\* packet of the mail server or of a browser.
UartError ==
  /\ rxOn /\ faults < MaxFaults /\ faults' = faults + 1
  /\ "uart" \in Faults /\ (connectionType = "INIT" => "uartInit" \in Faults)
  /\ rxOn' = FALSE /\ resetDMA' = TRUE
  /\ \/ rx' = rx /\ srv' = srv
     \/ /\ "torn" \in Faults /\ rx.ipd = "none" /\ esp.link /\ srv.reply # "none"
        /\ rx' = [rx EXCEPT !.ipd = "torn"] /\ srv' = [srv EXCEPT !.reply = "none"]
     \/ /\ "torn" \in Faults /\ rx.ipd = "none" /\ esp.web /\ srv' = srv
        /\ rx' = [seen |-> rx.seen \cup {"GET"}, ipd |-> "torn"]
  /\ UNCHANGED <<connectionType, start, param, emailState, task, console, esp,
                 history, restarts>>

\* WIFI_RxCallbackService: the buffer is full and is emptied.
RxOverrun ==
  /\ "overrun" \in Faults
  /\ rxOn /\ rx.ipd # "none" /\ faults < MaxFaults /\ faults' = faults + 1
  /\ RestartDMA
  /\ UNCHANGED <<globals, task, console, esp, srv, history, restarts>>

-----------------------------------------------------------------------------
Init ==
  /\ connectionType = "INIT" /\ start = 0 /\ param = 0
  /\ emailState = "none" /\ resetDMA = FALSE
  /\ pc = "main" /\ step = 0 /\ rx = Nothing /\ rxOn = TRUE
  /\ ui = "idle" /\ turn = "none" /\ mails = 0
  /\ esp = [EspOff EXCEPT !.cmd = "boot"] /\ srv = [pos |-> Junk, reply |-> "none"]
  /\ accepted = FALSE /\ used = {} /\ delivered = {}
  /\ faults = 0 /\ restarts = 0

vtaskWifi ==
  \/ ServeGet \/ Greet \/ EspReady \/ NothingToDo \/ InitNext \/ InitDone
  \/ WebPacket \/ WebMore \/ WebEnd \/ WebClosed \/ WebDummy
  \/ AnswerGood \/ CommandPrompt \/ CommandSent \/ DialogFails
  \/ SendQuit \/ QuitPrompt \/ FinishMail \/ ServerStarted
  \/ ResetDummy \/ ResetMail \/ ResetServer
  \/ NoMail \/ MailNoticed \/ EmailSendStart \/ CannotSend \/ OpenChannel

ConsoleGoesOn == SendEmailClaim \/ SendEmailFill \/ CreateWifiTask

EspWorks == EspBoots \/ EspAnswersCommand \/ EspOpens \/ EspPrompts \/ EspSends

Next ==
  \/ vtaskWifi \/ SendEmail \/ ConsoleGoesOn \/ CloseWifiTask
  \/ EspWorks \/ EspSilent \/ ServerReplies \/ ServerHangsUp
  \/ BrowserAsks \/ BrowserLeaves \/ UartError \/ RxOverrun

Spec == Init /\ [][Next]_vars

\* The scheduler runs a task that is ready, and the ESP32 gets on with what it has
\* been told.  The mail server may fall silent at any moment.
FairSpec == Spec /\ WF_vars(vtaskWifi) /\ WF_vars(ConsoleGoesOn) /\ WF_vars(EspWorks)

-----------------------------------------------------------------------------
Cmds == {"off", "boot", "none", "AT", "bad", "srvon", "srvoff", "close",
         "cipstart", "sendMail", "sendWeb", "load"}

EspType == [cmd : Cmds, load : Junk..LastStep, data : BOOLEAN, mail : BOOLEAN,
            link : BOOLEAN, server : BOOLEAN, web : BOOLEAN]

RxType == [seen : SUBSET Texts, ipd : Codes \cup {"GET", "torn", "none"}]

SrvType == [pos : Junk..LastStep, reply : Codes \cup {"none"}]

TypeOK ==
  /\ connectionType \in {"INIT", "HTTP", "SMTP"} /\ start \in 0..4
  /\ param \in 0..MaxMails /\ resetDMA \in BOOLEAN
  /\ emailState \in {"none", "START", "INPROGRESS", "SUCCESS", "FAIL"}
  /\ pc \in {"main", "init", "webPrompt", "webSent", "webClose", "webClose2",
             "webDummyWait", "webDummy", "answer", "prompt", "sendok", "quit", "qPrompt", "qAnswer",
             "srvon", "check", "dummyWait", "dummy", "rstoff", "rston", "stopSrv", "dead"}
  /\ step \in Nat
  /\ InDialog => step \in 0..LastStep
  /\ pc = "init" => step \in 1..LastInit
  /\ pc = "webPrompt" => step \in 1..PagePackets
  /\ pc = "webSent" => step \in 0..PagePackets
  /\ rx \in RxType /\ rxOn \in BOOLEAN
  /\ turn \in {"none", "due", "missed"} /\ mails \in 0..MaxMails
  /\ ui \in {"idle", "passed", "filling", "restarting"}
  /\ esp \in EspType /\ srv \in SrvType
  /\ accepted \in BOOLEAN /\ used \subseteq 0..MaxMails
  /\ delivered \subseteq SUBSET (0..MaxMails)
  /\ faults \in 0..MaxFaults /\ restarts \in 0..MaxRestarts

\* The mail is reported as sent (SMTP_SUCCESS) only when the server has taken
\* every packet of a mail since the last EmailSendStart: no stale answer, late
\* packet or answer to another command is ever taken for the last 250.
SuccessMeansAccepted == emailState = "SUCCESS" => accepted

\* As long as the UART works, the task treats what it receives as the dialog
\* with the mail server exactly while a mail is under way (start is 3 or 4).
\* Otherwise a mail would never be finished, or a web request would be taken
\* for an answer of the mail server.
ModeMatchesMail ==
  faults = 0 => (connectionType = "SMTP" <=> start \in {3, 4})

\* As long as the UART works and the console gets some time in a delay of the task,
\* no mail is put together from the parameters of two requests, or of none:
\* EmailSendParam.start, counted up over two rounds of the main loop, keeps the task
\* from reading what SendEmail is still writing.  The start is not a lock: once the
\* console has been kept off the processor for a whole 20 ms delay between setting it
\* and writing the rest, a mail may mix two requests, but only two that follow one
\* another.
OneRequestPerMail ==
  faults = 0 => \A m \in delivered : \E r \in 1..MaxMails :
                  m \subseteq {r - 1, r} /\ (turn = "missed" \/ m = {r})

\* No wait without a timeout is in vain.  Reception does not stop behind the back of
\* the task: the flag of the error is up until the receive DMA runs again, or has been
\* taken down in the 200 ms before the transmission that starts it again.  And the
\* answer the set-up waits for is in the buffer, or still to come from an ESP32 that is
\* heard and got the command, although a wait with a timeout may have ended before the
\* command before it was answered.  A UART error excepts this: its flag outlives
\* RestartWifiTask, and the reset of the new task then throws "ready" away.
NoWaitInVain ==
  /\ rxOn \/ resetDMA \/ pc \in {"dummyWait", "dead"}
  /\ connectionType = "INIT" /\ faults = 0 /\ {"silence", "error"} \cap Faults = {} =>
       /\ pc = "init" => "OK" \in rx.seen \/ (rxOn /\ esp.cmd \in {"AT", "srvon"})
       /\ pc \in {"main", "check"} =>
            "ready" \in rx.seen \/ (rxOn /\ esp.cmd = "boot")

-----------------------------------------------------------------------------
(* The abstract specification. *)

\* The mail as the console sees it, in EmailSendParam.start and emailStatus.
Job == INSTANCE MailJob WITH
  phase  <- CASE start \in {3, 4} -> "running"
              [] start \in {1, 2} -> "requested"
              [] OTHER -> "idle",
  result <- IF emailState \in {"START", "INPROGRESS"} THEN "pending" ELSE emailState,
  taken  <- accepted

\* Without UART errors, which drop the mail in hand, every step of the system is
\* a step MailJob allows: no second mail is begun before the first is over, and
\* no mail ends without a result, nor with one that still changes.
MailStepsAreJobSteps == Job!Init /\ [][Job!Next]_(Job!vars)


-----------------------------------------------------------------------------
(* Under FairSpec. *)



\* Reception stopped by a UART error is started again.
ReceptionRecovers == []<>rxOn

\* The comment of vtaskWifi on its own start: "if there is no answer to AT,
\* another thread restarts this thread".
RestartedWhenSilent == pc = "init" ~> pc # "init"

=============================================================================
