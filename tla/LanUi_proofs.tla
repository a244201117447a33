----------------------------- MODULE LanUi_proofs -----------------------------
(***************************************************************************)
(* Theorems about LanUi, for any number of browsers.                       *)
(***************************************************************************)
EXTENDS LanUi, TLAPS

Inv == TypeOK /\ LanIsFree

LEMMA InvInit == Init => Inv
<1> SUFFICES ASSUME Init PROVE Inv
  OBVIOUS
<1>1. connected \in 0..MaxClients
  BY ClientsAssumption DEF Init
<1>2. TypeOK
  BY <1>1, Zenon DEF Init, TypeOK
<1>3. LanIsFree
  BY DEF Init, LanIsFree, Serving
<1> QED
  BY <1>2, <1>3 DEF Inv

\* The steps of the user interface and of the console leave the threads where
\* they are, create them or terminate them, and do not clear "lan".
LEMMA InvUi ==
  ASSUME Inv, UiLoop \/ DBG_Service
  PROVE  Inv'
<1> USE DEF Inv, TypeOK, LanIsFree, Serving
<1>1. CASE WaitLan \/ WaitClient
  BY <1>1 DEF WaitLan, WaitClient, UiOnly
<1>2. CASE BeginRound \/ EndRound
  BY <1>2 DEF BeginRound, EndRound, UiOnly, Clear, Set
<1>3. CASE SetLan
  BY <1>3 DEF SetLan, InRound, Set
<1>4. CASE Create_ETH_DHCP_HTTPS_Thread \/ Koniec_SSL_Server_Watek
  BY <1>4 DEF Create_ETH_DHCP_HTTPS_Thread, Koniec_SSL_Server_Watek, InRound, TerminateOff
<1>5. CASE CreateClient \/ Koniec_SSL_client_Watek \/ AskClient
  BY <1>5 DEF CreateClient, Koniec_SSL_client_Watek, AskClient, InRound, TerminateOff
<1> QED
  BY <1>1, <1>2, <1>3, <1>4, <1>5 DEF UiLoop, DBG_Service

\* Every path back to Accept goes through Reset.
LEMMA InvServer ==
  ASSUME Inv, Accept \/ ServerWorks
  PROVE  Inv'
<1> USE ClientsAssumption
    DEF Inv, TypeOK, LanIsFree, Serving, ServerOnly, To, Exited
<1>1. CASE Accept
  BY <1>1 DEF Accept
<1>2. CASE NetInit \/ Setup
  BY <1>2 DEF NetInit, Setup
<1>3. CASE Reset
  BY <1>3 DEF Reset, Set
<1>4. CASE TakeLan
  BY <1>4 DEF TakeLan, Clear
<1>5. CASE Handshake
  BY <1>5 DEF Handshake
<1>6. CASE Read \/ Write
  BY <1>6 DEF Read, Write, Clear
<1>7. CASE CloseNotify
  BY <1>7 DEF CloseNotify, Set
<1> QED
  BY <1>1, <1>2, <1>3, <1>4, <1>5, <1>6, <1>7 DEF ServerWorks

LEMMA InvClient ==
  ASSUME Inv, SSL_Client
  PROVE  Inv'
<1> USE DEF Inv, TypeOK, LanIsFree, Serving, ClientOnly, Go
<1>1. CASE Start \/ Poll \/ Session
  BY <1>1 DEF Start, Poll, Session
<1>2. CASE TakeClient
  BY <1>2 DEF TakeClient, Clear
<1>3. CASE Exit
  BY <1>3 DEF Exit, Set
<1> QED
  BY <1>1, <1>2, <1>3 DEF SSL_Client

LEMMA InvNext == Inv /\ [Next]_vars => Inv'
<1> SUFFICES ASSUME Inv, [Next]_vars PROVE Inv'
  OBVIOUS
<1>1. CASE UNCHANGED vars
  BY <1>1 DEF Inv, TypeOK, LanIsFree, vars
<1> QED
  BY <1>1, InvUi, InvServer, InvClient DEF Next

LEMMA InvAlways == Spec => []Inv
BY InvInit, InvNext, PTL DEF Spec

-----------------------------------------------------------------------------
\* Every reachable state is well typed.
THEOREM TypeCorrect == Spec => []TypeOK
BY InvAlways, PTL DEF Inv

\* The server never waits for a browser with its bit clear.
THEOREM LanFree == Spec => []LanIsFree
BY InvAlways, PTL DEF Inv

=============================================================================
