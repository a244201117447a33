------------------------------- MODULE SdCard -------------------------------
(***************************************************************************)
(* The bit ACCESS_TO_SDCARD of the event group taskSequence                *)
(* (Utilities/StartUp.c): the WiFi task (GetPageWWW) and the video task    *)
(* (AVI_test) take it before they use the SD card.                         *)
(*                                                                         *)
(* To take the bit is to wait until it is set and then to clear it, which  *)
(* are two calls.  The WiFi task has priority 4 and the video task 0, so   *)
(* the video task can be overtaken between the two and the WiFi task       *)
(* cannot; but a task that reads the card sleeps (osMessageGet in SD_read) *)
(* and lets the other one run.                                             *)
(*                                                                         *)
(* The screens and the LAN server use the card without the bit and are not *)
(* modelled here.                                                          *)
(***************************************************************************)
EXTENDS Naturals

CONSTANT
  MaxRestarts   \* bound: RestartWifiTask calls

ASSUME RestartsAssumption == MaxRestarts \in Nat

VARIABLES
  permit,    \* the bit
  www,       \* the WiFi task in GetPageWWW: "idle", "blocked" or "read"
  avi,       \* the video task: "none", waiting for the bit ("wait", "blocked"),
             \* past the wait ("granted"), past the clear ("use"), "extra", "end",
             \* or in one of its endless loops ("stuck")
  section,   \* which of its accesses to the card the video task is at
  gone,      \* history: the WiFi task was deleted while it read the card, and the
             \* bit has not been set since
  restarts   \* budget used

vars == <<permit, www, avi, section, gone, restarts>>

Sections == {"open", "find", "seek", "decode", "input"}

-----------------------------------------------------------------------------
(* xEventGroupSetBits wakes who is blocked.  A woken task has seen the bit   *)
(* whatever becomes of it since; the WiFi task runs, and clears it, at once. *)

SetByAvi ==
  /\ permit' = (www # "blocked") /\ gone' = FALSE
  /\ www' = IF www = "blocked" THEN "read" ELSE www

-----------------------------------------------------------------------------
(* The WiFi task. *)

\* STARTUP_WaitForBits and STARTUP_ClaerBits.
GetPageWWW ==
  /\ www = "idle"
  /\ \/ permit  /\ www' = "read" /\ permit' = FALSE
     \/ ~permit /\ www' = "blocked" /\ permit' = permit
  /\ UNCHANGED <<avi, section, gone, restarts>>

\* 100 ticks without the bit: an empty page.
NoPage ==
  /\ www = "blocked" /\ www' = "idle" /\ UNCHANGED <<permit, avi, section, gone, restarts>>

\* Seeded fault: the page is left without a release.
PageReadKeepingBit ==
  /\ www = "read" /\ www' = "idle" /\ UNCHANGED <<permit, avi, section, gone, restarts>>

\* The file is read, or there was an error, or none was needed.
PageRead ==
  /\ www = "read" /\ www' = "idle"
  /\ permit' = TRUE /\ gone' = FALSE
  /\ avi' = IF avi = "blocked" THEN "granted" ELSE avi
  /\ UNCHANGED <<section, restarts>>

\* CloseWifiTask deletes the task wherever it is.
RestartWifiTask ==
  /\ restarts < MaxRestarts /\ restarts' = restarts + 1
  /\ www' = "idle" /\ gone' = (gone \/ www = "read")
  /\ UNCHANGED <<permit, avi, section>>

-----------------------------------------------------------------------------
(* The video task. *)

CreateAviTask ==
  /\ avi = "none" /\ avi' = "wait" /\ section' = "open"
  /\ UNCHANGED <<permit, www, gone, restarts>>

\* WaitForAccess: the wait (again and again after its 100 ticks), the clear.
AviWaits ==
  /\ \/ avi = "wait" /\ avi' = IF permit THEN "granted" ELSE "blocked"
     \/ avi = "blocked" /\ avi' = "wait"
  /\ UNCHANGED <<permit, www, section, gone, restarts>>

AviClears ==
  /\ avi = "granted" /\ avi' = "use" /\ permit' = FALSE
  /\ UNCHANGED <<www, section, gone, restarts>>

\* The task is at its access s next.
GoTo(s) == avi' = "wait" /\ section' = s

\* Lines 449, 460, 475, 507 and 516.  The next frame is not found yet, found, or
\* there is none (the end of the file); the input is not decoded yet, or is (or
\* two seconds are over).
AviReleases ==
  /\ avi = "use" /\ SetByAvi
  /\ \/ section = "open"   /\ GoTo("find")
     \/ section = "find"   /\ (GoTo("find") \/ GoTo("seek"))
     \/ section = "find"   /\ avi' = "end" /\ UNCHANGED section
     \/ section = "seek"   /\ GoTo("decode")
     \/ section = "decode" /\ GoTo("input")
     \/ section = "input"  /\ GoTo("input")
     \/ section = "input"  /\ avi' = "extra" /\ UNCHANGED section
  /\ UNCHANGED restarts

\* Seeded fault: after f_open fails the task deletes itself at once.
AviGivesUp ==
  /\ avi = "use"
  /\ \/ section = "open" /\ avi' = "none"
     \/ section = "seek" /\ avi' = "extra"
  /\ UNCHANGED <<permit, www, section, gone, restarts>>

\* f_open or f_lseek fails: the bit is released at line 582 or 557.
AviFails ==
  /\ avi = "use"
  /\ \/ section = "open" /\ avi' = "end"
     \/ section = "seek" /\ avi' = "extra"
  /\ UNCHANGED <<permit, www, section, gone, restarts>>

\* The card cannot be read, and the task never comes back: OnError_Handler after
\* an f_read of the first buffers or of the next one, and the search for a frame
\* that reads nothing at the same place again and again (FrameSize is 0).
AviHangs ==
  /\ avi = "use" /\ section \in {"find", "decode", "input"} /\ avi' = "stuck"
  /\ UNCHANGED <<permit, www, section, gone, restarts>>

\* Seeded fault: no release after a frame (one would be right without errors).
AviFrameOverSilently ==
  /\ avi = "extra"
  /\ GoTo("find") \/ (avi' = "end" /\ UNCHANGED section)
  /\ UNCHANGED <<permit, www, gone, restarts>>

\* Line 557, after every frame; then the next frame, or the screen was touched.
AviFrameOver ==
  /\ avi = "extra" /\ SetByAvi
  /\ GoTo("find") \/ (avi' = "end" /\ UNCHANGED section)
  /\ UNCHANGED restarts

\* Line 582; the task deletes itself.
AviEnds ==
  /\ avi = "end" /\ SetByAvi /\ avi' = "none" /\ UNCHANGED <<section, restarts>>

-----------------------------------------------------------------------------
Init ==
  /\ permit = TRUE /\ gone = FALSE
  /\ www = "idle" /\ avi = "none" /\ section = "open" /\ restarts = 0

WifiGoesOn == NoPage \/ PageRead

AviGoesOn ==
  AviWaits \/ AviClears \/ AviReleases \/ AviFails \/ AviFrameOver \/ AviEnds

Next ==
  \/ GetPageWWW \/ WifiGoesOn \/ RestartWifiTask
  \/ CreateAviTask \/ AviGoesOn \/ AviHangs

Spec == Init /\ [][Next]_vars

\* Both tasks get to run: the higher one sleeps, the lower one shares the
\* processor with the tasks of its priority.  Nothing is assumed of AviHangs.
FairSpec == Spec /\ WF_vars(WifiGoesOn) /\ WF_vars(AviGoesOn)

-----------------------------------------------------------------------------
TypeOK ==
  /\ permit \in BOOLEAN /\ www \in {"idle", "blocked", "read"}
  /\ avi \in {"none", "wait", "blocked", "granted", "use", "extra", "end", "stuck"}
  /\ section \in Sections /\ gone \in BOOLEAN /\ restarts \in 0..MaxRestarts

\* While a task that took the bit still has to release it.
AviOwes ==
  avi \in {"use", "extra", "end"}

\* Two ways the bit stays clear for good: the WiFi task was deleted while it
\* read the card, or the video task hangs with the bit.
PermitHolderGone == gone \/ avi = "stuck"

\* These are the only ones: whenever the bit is clear otherwise, some task is
\* going to set it again, on every path of GetPageWWW and AVI_test, also after
\* f_open or f_lseek failed.
PermitIsOwed == permit \/ www = "read" \/ AviOwes \/ PermitHolderGone

\* And the bit is set again, whatever the two tasks do with it meanwhile, unless
\* one of them is gone with it.
PermitComesBack == ~permit ~> (permit \/ PermitHolderGone)

\* The comment of GetPageWWW calls the bit the access to the SD card: the two
\* tasks never use the card at the same time.
OneUser == ~(www = "read" /\ avi = "use")

=============================================================================
