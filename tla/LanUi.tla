-------------------------------- MODULE LanUi --------------------------------
(***************************************************************************)
(* How the user-interface task (StartDefaultTask, Src/main.c) and the two  *)
(* TLS threads (ETH/ssl_server.c, ETH/ssl_client.c) share the processor    *)
(* time and the memory of the display, with three bits of the event group  *)
(* taskSequence: "main" (0x1), "lan" (0x2) and "sslclient" (0x4).          *)
(*                                                                         *)
(* The user interface waits for "lan" and "sslclient" and clears "main"    *)
(* for one round of work; a TLS thread waits for "main" and clears its own *)
(* bit for one session.  The threads have a high priority: from a wait to  *)
(* the clear after it they are not overtaken by the user interface, which  *)
(* can be overtaken anywhere.                                              *)
(*                                                                         *)
(* The operator of the console is assumed not to start a second server or  *)
(* client beside a running one: the two would share all static data.       *)
(***************************************************************************)
EXTENDS Naturals

CONSTANT MaxClients   \* bound: browsers that connect to the TLS server

ASSUME ClientsAssumption == MaxClients \in Nat

VARIABLES
  bits,         \* the bits that are set
  ui,           \* the user interface: waits for "lan" ("waitLan"), for
                \* "sslclient" ("waitClient"), has passed both ("granted"),
                \* works ("round"); it has deleted itself ("deleted"), or
                \* the whole system has stopped ("halted")
  server,       \* SSL_Server: "off", "net", "setup", "reset", "accept",
                \* "accepted", "handshake", "read", "write", "close"
  client,       \* SSL_Client: "off", "start", "poll", "asked", "session", "exit"
  moj_wsk,      \* the console asks the client for a session
  created,      \* the threads that have been created: their handles are not NULL
  initialized,  \* mbedtls_net_init has run
  connected     \* budget used

vars == <<bits, ui, server, client, moj_wsk, created, initialized, connected>>

Serving == {"handshake", "read", "write", "close"}

Clear(b) == bits' = bits \ {b}
Set(b)   == bits' = bits \cup {b}

-----------------------------------------------------------------------------
(* The main loop of the user interface.  A wait that ends without its bit    *)
(* begins again.                                                             *)

UiOnly == UNCHANGED <<server, client, moj_wsk, created, initialized, connected>>

WaitLan ==
  /\ ui = "waitLan" /\ "lan" \in bits /\ ui' = "waitClient"
  /\ UNCHANGED bits /\ UiOnly

WaitClient ==
  /\ ui = "waitClient" /\ ui' = IF "sslclient" \in bits THEN "granted" ELSE "waitLan"
  /\ UNCHANGED bits /\ UiOnly

BeginRound == ui = "granted" /\ ui' = "round" /\ Clear("main") /\ UiOnly

EndRound == ui = "round" /\ ui' = "waitLan" /\ Set("main") /\ UiOnly

-----------------------------------------------------------------------------
(* The commands of the console, which the user interface runs in its round.  *)

InRound == ui = "round" /\ UNCHANGED <<initialized, connected>>

\* "set"
SetLan ==
  /\ InRound /\ Set("lan")
  /\ UNCHANGED <<ui, server, client, moj_wsk, created>>

\* "sta" and "aa"
Create_ETH_DHCP_HTTPS_Thread ==
  /\ InRound /\ server = "off" /\ server' = "net"
  /\ created' = created \cup {"server"}
  /\ UNCHANGED <<bits, ui, client, moj_wsk>>

CreateClient ==
  /\ InRound /\ client = "off" /\ client' = "start"
  /\ created' = created \cup {"client"}
  /\ UNCHANGED <<bits, ui, server, moj_wsk>>

\* osThreadTerminate with the handle of a thread that is off.  NULL is the caller
\* itself.  A stale handle is freed memory: the heap finds the block freed twice
\* and stops the system, or the block now belongs to the other thread, whose stack
\* has the same size, and that one is deleted.
TerminateOff(thread, other, other_) ==
  \/ thread \notin created /\ ui' = "deleted" /\ other_ = other
  \/ thread \in created /\ ui' = "halted" /\ other_ = other
  \/ thread \in created /\ ui' = ui /\ other # "off" /\ other_ = "off"

\* "ko1" and "ko2", wherever the thread is, and whether there is one or not.
Koniec_SSL_Server_Watek ==
  /\ InRound /\ server' = "off"
  /\ \/ server # "off" /\ UNCHANGED <<ui, client>>
     \/ server = "off" /\ TerminateOff("server", client, client')
  /\ UNCHANGED <<bits, moj_wsk, created>>

Koniec_SSL_client_Watek ==
  /\ InRound /\ client' = "off"
  /\ \/ client # "off" /\ UNCHANGED <<ui, server>>
     \/ client = "off" /\ TerminateOff("client", server, server')
  /\ UNCHANGED <<bits, moj_wsk, created>>

\* "qq"
AskClient ==
  /\ InRound /\ moj_wsk' = TRUE
  /\ UNCHANGED <<bits, ui, server, client, created>>

-----------------------------------------------------------------------------
(* SSL_Server.                                                               *)

ServerOnly == ui # "halted" /\ UNCHANGED <<ui, client, moj_wsk, created>>

\* At exit the thread terminates itself before it comes to the line that sets
\* "lan".
Exited == "off"

To(from, to) == server = from /\ server' \in to

\* The first start of the network ends with "main" set, round or no round.
NetInit ==
  /\ To("net", {"setup"}) /\ initialized' = TRUE
  /\ bits' = IF initialized THEN bits ELSE bits \cup {"main"}
  /\ UNCHANGED connected /\ ServerOnly

\* Certificates, binding, random numbers, configuration.
Setup ==
  To("setup", {"reset", Exited}) /\ UNCHANGED <<bits, initialized, connected>> /\ ServerOnly

\* Seeded fault: the label reset is below the line that sets "lan".
ResetWithoutSet ==
  To("reset", {"accept"}) /\ UNCHANGED <<bits, initialized, connected>> /\ ServerOnly

Reset ==
  To("reset", {"accept"}) /\ Set("lan") /\ UNCHANGED <<initialized, connected>> /\ ServerOnly

Accept ==
  /\ connected < MaxClients /\ connected' = connected + 1
  /\ To("accept", {"accepted", Exited}) /\ UNCHANGED <<bits, initialized>> /\ ServerOnly

\* 100 ticks without "main": the connection is dropped.
TakeLan ==
  /\ IF "main" \in bits THEN To("accepted", {"handshake"}) /\ Clear("lan")
                        ELSE To("accepted", {"reset"}) /\ UNCHANGED bits
  /\ UNCHANGED <<initialized, connected>> /\ ServerOnly

\* After the handshake "lan" is cleared again if "main" is set in time.
Handshake ==
  /\ \/ To("handshake", {"reset"}) /\ UNCHANGED bits
     \/ /\ To("handshake", {"read"})
        /\ bits' = IF "main" \in bits THEN bits \ {"lan"} ELSE bits
  /\ UNCHANGED <<initialized, connected>> /\ ServerOnly

\* A request, an empty one, or an error; mbedtls wants to read again.
Read ==
  To("read", {"read", "write", "close"}) /\ Clear("lan")
  /\ UNCHANGED <<initialized, connected>> /\ ServerOnly

\* All is written, the browser has gone, or there is another error.
Write ==
  To("write", {"close", "reset", Exited})
  /\ UNCHANGED <<bits, initialized, connected>> /\ ServerOnly

CloseNotify ==
  /\ To("close", {"reset"}) /\ (Set("lan") \/ UNCHANGED bits)
  /\ UNCHANGED <<initialized, connected>> /\ ServerOnly

-----------------------------------------------------------------------------
(* SSL_Client. *)

ClientOnly ==
  ui # "halted" /\ UNCHANGED <<ui, server, created, initialized, connected>>

Go(from, to) == client = from /\ client' \in to

Start == Go("start", {"poll", "exit"}) /\ UNCHANGED <<bits, moj_wsk>> /\ ClientOnly

Poll == moj_wsk /\ Go("poll", {"asked"}) /\ UNCHANGED <<bits, moj_wsk>> /\ ClientOnly

\* 100 ticks without "main": all over again, with the request still there.
TakeClient ==
  /\ IF "main" \in bits THEN Go("asked", {"session"}) /\ Clear("sslclient")
                        ELSE Go("asked", {"start"}) /\ UNCHANGED bits
  /\ UNCHANGED moj_wsk /\ ClientOnly

\* The session with the mail server, to its end or to the first error, which
\* comes at once when no server has started the network.
Session == Go("session", {"exit"}) /\ UNCHANGED <<bits, moj_wsk>> /\ ClientOnly

\* Error_Handler only prints, so an error ends here as a success does.
Exit ==
  Go("exit", {"start"}) /\ moj_wsk' = FALSE /\ Set("sslclient") /\ ClientOnly

-----------------------------------------------------------------------------
Init ==
  /\ bits = {"main", "lan", "sslclient"} /\ ui = "waitLan"
  /\ server = "off" /\ client = "off" /\ moj_wsk = FALSE
  /\ created = {} /\ initialized = FALSE /\ connected = 0

UiLoop == WaitLan \/ WaitClient \/ BeginRound \/ EndRound

DBG_Service ==
  \/ SetLan \/ Create_ETH_DHCP_HTTPS_Thread \/ Koniec_SSL_Server_Watek
  \/ CreateClient \/ Koniec_SSL_client_Watek \/ AskClient

ServerWorks ==
  \/ NetInit \/ Setup \/ Reset \/ TakeLan \/ Handshake \/ Read \/ Write \/ CloseNotify

SSL_Client == Start \/ Poll \/ TakeClient \/ Session \/ Exit

Next == UiLoop \/ DBG_Service \/ Accept \/ ServerWorks \/ SSL_Client

Spec == Init /\ [][Next]_vars

\* Each thread is scheduled, and a peer that is connected answers or goes; no
\* browser need ever come.  "Wants to read again" does not repeat for ever.
FairSpec ==
  /\ Spec /\ WF_vars(UiLoop) /\ WF_vars(ServerWorks) /\ WF_vars(SSL_Client)
  /\ SF_vars(Read /\ server' # "read")

-----------------------------------------------------------------------------
TypeOK ==
  /\ bits \subseteq {"main", "lan", "sslclient"}
  /\ ui \in {"waitLan", "waitClient", "granted", "round", "deleted", "halted"}
  /\ server \in {"off", "net", "setup", "reset", "accept", "accepted"} \cup Serving
  /\ client \in {"off", "start", "poll", "asked", "session", "exit"}
  /\ created \subseteq {"server", "client"} /\ moj_wsk \in BOOLEAN
  /\ initialized \in BOOLEAN
  /\ connected \in 0..MaxClients

\* The comment of main.c: the bits make the threads run "not at the same time,
\* only one after another".  No round of the user interface goes on while a TLS
\* thread is in its session.
OneAfterAnother ==
  ui = "round" => server \notin Serving /\ client # "session"

\* While the server waits for a browser the user interface has its bit: no error
\* of a session, and no start after the console terminated a server, leads back
\* to Accept without setting it.
LanIsFree == server \in {"accept", "accepted"} => "lan" \in bits

\* A bit that was clear when its thread ended: a fatal error of the server, or the
\* console, in a session.
Lost ==
  \/ "lan" \notin bits /\ server = "off"
  \/ "sslclient" \notin bits /\ client \notin {"session", "exit"}

\* The user interface goes on for ever, round after round, whatever the threads and
\* their peers do, unless a bit is lost or a thread was terminated that was not
\* there.
UiRunsAgain ==
  []<>(ui = "round") \/ <>[]Lost \/ <>[](ui \in {"deleted", "halted"})

=============================================================================
