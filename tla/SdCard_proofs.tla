---------------------------- MODULE SdCard_proofs ----------------------------
(***************************************************************************)
(* Proofs about SdCard: its type invariant and, by itself inductive, that  *)
(* the bit ACCESS_TO_SDCARD is never lost.                                 *)
(***************************************************************************)
EXTENDS SdCard, TLAPS

\* The bit, the two tasks and the budget keep to their values on every path of
\* GetPageWWW and AVI_test.
THEOREM TypeCorrect == Spec => []TypeOK
<1>1. Init => TypeOK
  <2> SUFFICES ASSUME Init PROVE TypeOK
    OBVIOUS
  <2>1. permit \in BOOLEAN /\ gone \in BOOLEAN
    BY Zenon DEF Init
  <2>2. www = "idle" /\ avi = "none" /\ section = "open" /\ restarts = 0
    BY DEF Init
  <2> QED
    BY <2>1, <2>2, RestartsAssumption DEF TypeOK, Sections
<1>2. TypeOK /\ [Next]_vars => TypeOK'
  <2> SUFFICES ASSUME TypeOK, [Next]_vars PROVE TypeOK'
    OBVIOUS
  <2> USE RestartsAssumption DEF TypeOK, Sections, SetByAvi, GoTo
  <2>1. CASE GetPageWWW
    BY <2>1 DEF GetPageWWW
  <2>2. CASE WifiGoesOn
    BY <2>2 DEF WifiGoesOn, NoPage, PageRead
  <2>3. CASE RestartWifiTask
    BY <2>3 DEF RestartWifiTask
  <2>4. CASE CreateAviTask
    BY <2>4 DEF CreateAviTask
  <2>5. CASE AviGoesOn
    <3>1. CASE AviWaits
      BY <3>1 DEF AviWaits
    <3>2. CASE AviClears
      BY <3>2 DEF AviClears
    <3>3. CASE AviReleases
      BY <3>3 DEF AviReleases
    <3>4. CASE AviFails
      BY <3>4 DEF AviFails
    <3>5. CASE AviFrameOver
      BY <3>5 DEF AviFrameOver
    <3>6. CASE AviEnds
      BY <3>6 DEF AviEnds
    <3> QED
      BY <2>5, <3>1, <3>2, <3>3, <3>4, <3>5, <3>6 DEF AviGoesOn
  <2>6. CASE AviHangs
    BY <2>6 DEF AviHangs
  <2>7. CASE UNCHANGED vars
    BY <2>7 DEF vars
  <2> QED
    BY <2>1, <2>2, <2>3, <2>4, <2>5, <2>6, <2>7 DEF Next
<1> QED
  BY <1>1, <1>2, PTL DEF Spec

\* Whoever finds the bit clear waits for a task that still has to set it: the
\* WiFi task in its page, or the video task at one of its releases.  The two
\* exceptions are in the statement: a WiFi task deleted in its page, a video task
\* that hangs in OnError_Handler or in JPEG_FindFrameOffset.
THEOREM PermitNeverLost == Spec => []PermitIsOwed
<1>1. Init => PermitIsOwed
  BY DEF Init, PermitIsOwed
<1>2. TypeOK /\ PermitIsOwed /\ [Next]_vars => PermitIsOwed'
  <2> SUFFICES ASSUME TypeOK, PermitIsOwed, [Next]_vars PROVE PermitIsOwed'
    OBVIOUS
  <2> USE RestartsAssumption
      DEF TypeOK, PermitIsOwed, PermitHolderGone, AviOwes, SetByAvi, GoTo
  <2>1. CASE GetPageWWW
    BY <2>1 DEF GetPageWWW
  <2>2. CASE WifiGoesOn
    BY <2>2 DEF WifiGoesOn, NoPage, PageRead
  <2>3. CASE RestartWifiTask
    BY <2>3 DEF RestartWifiTask
  <2>4. CASE CreateAviTask
    BY <2>4 DEF CreateAviTask
  <2>5. CASE AviGoesOn
    <3>1. CASE AviWaits
      BY <3>1 DEF AviWaits
    <3>2. CASE AviClears
      BY <3>2 DEF AviClears
    <3>3. CASE AviReleases
      BY <3>3 DEF AviReleases
    <3>4. CASE AviFails
      BY <3>4 DEF AviFails
    <3>5. CASE AviFrameOver
      BY <3>5 DEF AviFrameOver
    <3>6. CASE AviEnds
      BY <3>6 DEF AviEnds
    <3> QED
      BY <2>5, <3>1, <3>2, <3>3, <3>4, <3>5, <3>6 DEF AviGoesOn
  <2>6. CASE AviHangs
    BY <2>6 DEF AviHangs
  <2>7. CASE UNCHANGED vars
    BY <2>7 DEF vars
  <2> QED
    BY <2>1, <2>2, <2>3, <2>4, <2>5, <2>6, <2>7 DEF Next
<1> QED
  BY <1>1, <1>2, TypeCorrect, PTL DEF Spec

=============================================================================
