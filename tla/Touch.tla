-------------------------------- MODULE Touch --------------------------------
(***************************************************************************)
(* The table of touch regions (LCD/touch.c) and the service that turns the *)
(* state of the touch controller into PRESSED and RELEASED calls           *)
(* (TouchService in Application/LCD/Screens/SCREEN_Common.c).              *)
(*                                                                         *)
(* A region is the set of points it covers.  Deleting a region only clears *)
(* its index: CheckTouch still finds the points of a deleted region, and   *)
(* then reports index 0, which no screen handles.                          *)
(***************************************************************************)
EXTENDS Integers

CONSTANTS
  Slots,   \* MAX_OPEN_TOUCH_SIMULTANEOUSLY: the slots are 1..Slots
  Ids,     \* the touch identifiers of the screens
  Points,  \* the points of the screen
  Areas    \* the regions the screens define

ASSUME TouchAssumption ==
  /\ Slots \in Nat /\ Ids \subseteq Nat \ {0}
  /\ Areas \subseteq SUBSET Points /\ {} \notin Areas

VARIABLES
  Touch,        \* the table
  touchTemp,    \* the region being defined; {} when there is none
  touchDetect,  \* set by the interrupt of the touch controller
  finger,       \* where the screen is touched, a set of at most one point
  checking,     \* CheckTouch is between clearing touchDetect and its reading
  previous,     \* ID_previousTouchDetect
  unseen,       \* history: the present press has not been read yet
  clean         \* history: since the last DeleteAllTouch, regions were only added

table   == <<Touch, touchTemp, clean>>
service == <<checking, previous>>
vars == <<table, service, touchDetect, finger, unseen>>

Used(i) == Touch[i].index # 0

Find(idx) == {i \in 1..Slots : Touch[i].index = idx}

\* The lowest number in a set of slots.
First(S) == CHOOSE i \in S : \A j \in S : i <= j

-----------------------------------------------------------------------------
(* Operations of the screens, called by the user-interface task. *)

TableOnly == UNCHANGED <<service, touchDetect, finger, unseen>>

\* An element of a screen fills in touchTemp before it calls SetTouch.
FillTouchTemp ==
  /\ touchTemp' \in Areas \cup {{}} /\ UNCHANGED <<Touch, clean>> /\ TableOnly

\* Seeded fault: a second region with the same identifier is accepted.
SetTouchTwice(idx) ==
  /\ touchTemp' = {}
  /\ IF touchTemp # {} /\ Find(0) # {}
     THEN Touch' = [Touch EXCEPT ![First(Find(0))] = [index |-> idx, area |-> touchTemp]]
     ELSE Touch' = Touch
  /\ UNCHANGED clean /\ TableOnly

\* Seeded fault: the last free slot is taken, not the first one.
SetTouchLast(idx) ==
  /\ touchTemp' = {}
  /\ IF touchTemp # {} /\ Find(idx) = {} /\ Find(0) # {}
     THEN \E i \in Find(0) :
            /\ \A j \in Find(0) : j <= i
            /\ Touch' = [Touch EXCEPT ![i] = [index |-> idx, area |-> touchTemp]]
     ELSE Touch' = Touch
  /\ UNCHANGED clean /\ TableOnly

\* Refused (-2) when idx is there already, (-1) when the table is full.
SetTouch(idx) ==
  /\ touchTemp' = {}
  /\ IF touchTemp # {} /\ Find(idx) = {} /\ Find(0) # {}
     THEN Touch' = [Touch EXCEPT ![First(Find(0))] = [index |-> idx, area |-> touchTemp]]
     ELSE Touch' = Touch
  /\ UNCHANGED clean /\ TableOnly

GetTouchToTemp(idx) ==
  /\ touchTemp' = IF Find(idx) # {} THEN Touch[First(Find(idx))].area ELSE touchTemp
  /\ UNCHANGED <<Touch, clean>> /\ TableOnly

\* The slots of S are marked free; their areas stay.
Free(S) ==
  Touch' = [i \in 1..Slots |-> IF i \in S THEN [Touch[i] EXCEPT !.index = 0] ELSE Touch[i]]

DeleteAllTouch ==
  Free(1..Slots) /\ clean' = TRUE /\ UNCHANGED touchTemp /\ TableOnly

DeleteSelectTouch(idx) ==
  Free(Find(idx)) /\ clean' = FALSE /\ UNCHANGED touchTemp /\ TableOnly

DeleteAllTouchWithout(idx) ==
  Free(1..Slots \ Find(idx)) /\ clean' = FALSE /\ UNCHANGED touchTemp /\ TableOnly

-----------------------------------------------------------------------------
(* The touch controller: it interrupts at every change of the finger, and    *)
(* once more whenever it likes.                                              *)

HAL_GPIO_EXTI_Callback ==
  /\ touchDetect' = TRUE
  /\ \/ finger' \in {{p} : p \in Points} /\ unseen' = TRUE
     \/ finger' = {} /\ unseen' = FALSE
     \/ UNCHANGED <<finger, unseen>>
  /\ UNCHANGED <<table, service>>

-----------------------------------------------------------------------------
(* TouchService. *)

Covers(i, f) == f # {} /\ f \subseteq Touch[i].area

\* The search of CheckTouch for finger f: the first slot that covers it, whether
\* it is in use or not.
Search(f) ==
  LET hits == {i \in 1..Slots : Covers(i, f)}
  IN IF hits = {} THEN -1 ELSE Touch[First(hits)].index

\* No interrupt: a region pressed before is released.
NoTouch ==
  /\ ~checking /\ ~touchDetect /\ previous' = -1
  /\ UNCHANGED <<table, checking, touchDetect, finger, unseen>>

\* The flag is cleared before the controller is read, so that a change after the
\* reading sets it again.
CheckTouch ==
  /\ ~checking /\ touchDetect /\ checking' = TRUE /\ touchDetect' = FALSE
  /\ UNCHANGED <<table, previous, finger, unseen>>

\* Seeded fault: the flag is cleared once more after the reading.
ReadTouchThenClear ==
  /\ checking /\ checking' = FALSE /\ touchDetect' = FALSE
  /\ \/ previous' = Search(finger) /\ unseen' = FALSE
     \/ previous' = -1 /\ UNCHANGED unseen     \* the finger came in between
  /\ UNCHANGED <<table, finger>>

\* BSP_TS_GetState and the search: PRESSED or RELEASED.
ReadTouch ==
  /\ checking /\ checking' = FALSE
  /\ previous' = Search(finger) /\ unseen' = FALSE
  /\ UNCHANGED <<table, touchDetect, finger>>

-----------------------------------------------------------------------------
Init ==
  /\ Touch = [i \in 1..Slots |-> [index |-> 0, area |-> {}]]
  /\ touchTemp = {} /\ touchDetect = FALSE /\ finger = {}
  /\ checking = FALSE /\ previous = -1 /\ unseen = FALSE /\ clean = TRUE

Screens ==
  \/ FillTouchTemp \/ DeleteAllTouch
  \/ \E idx \in Ids : \/ SetTouch(idx) \/ GetTouchToTemp(idx)
                      \/ DeleteSelectTouch(idx) \/ DeleteAllTouchWithout(idx)

TouchService == NoTouch \/ CheckTouch \/ ReadTouch

\* The user-interface task works on the table between two calls of TouchService
\* or inside a PRESSED call, the video task (SCREEN_LoadFromAVI) at any time.
Next == Screens \/ TouchService \/ HAL_GPIO_EXTI_Callback

Spec == Init /\ [][Next]_vars

-----------------------------------------------------------------------------
TypeOK ==
  /\ Touch \in [1..Slots -> [index : Ids \cup {0}, area : SUBSET Points]]
  /\ touchTemp \subseteq Points /\ finger \subseteq Points
  /\ touchDetect \in BOOLEAN /\ checking \in BOOLEAN /\ unseen \in BOOLEAN
  /\ clean \in BOOLEAN /\ previous \in Ids \cup {0, -1}

\* No identifier is in two slots, so a screen that moves or deletes a region by
\* its identifier deals with all of it.
UniqueIds ==
  \A i, j \in 1..Slots : Used(i) /\ Touch[i].index = Touch[j].index => i = j

\* On a screen built after DeleteAllTouch, a touch inside a region reports a
\* region, never a deleted one that covers the same point (index 0).
LiveTouchWins ==
  clean => \A p \in Points : (\E i \in 1..Slots : Used(i) /\ Covers(i, {p}))
                               => Search({p}) # 0

\* A press the controller has signalled is not lost between the interrupt and
\* the task: until it is read, the flag is up or a reading is under way.
PressNotLost == unseen => touchDetect \/ checking

=============================================================================
