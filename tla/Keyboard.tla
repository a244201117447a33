------------------------------ MODULE Keyboard ------------------------------
(***************************************************************************)
(* The on-screen keyboard (Application/LCD/Screens/SCREEN_Keyboard.c): the *)
(* text it edits, and what it makes of the samples of a finger that        *)
(* TouchService hands to it (SCREEN_Common.c).                             *)
(*                                                                         *)
(* A contact is what lies between two RELEASED calls.  In it the finger    *)
(* may slide from one element to another, of this screen and of the screen *)
(* that opens the keyboard and is opened by BACK.  Where the signs stand   *)
(* on the display is left out; when it decides where the caret goes, the   *)
(* caret goes anywhere.                                                    *)
(***************************************************************************)
EXTENDS Integers, Sequences

CONSTANTS
  Letters,   \* the keys TOUCH_firstLetter..TOUCH_lastLetter
  Size,      \* SIZE_TXT
  InitText,  \* the text SCREEN_KeyboardSet begins with
  None       \* no element, no key, no sign (0)

\* GetKeySign: the sign of a key depends on the page that is shown.
Signs == [key : Letters, page : 0..3]

ASSUME KeyboardAssumption ==
  /\ Size \in Nat /\ InitText \in Seq(Signs) /\ Len(InitText) < Size
  /\ None \notin Letters /\ None \notin Signs
  /\ Letters \cap {"backspace", "nextSigns", "capital", "otherSigns", "field", "back", "other"} = {}
  /\ None \notin {"backspace", "nextSigns", "capital", "otherSigns", "field", "back", "other"}

Keys      == Letters \cup {"backspace", "nextSigns"}    \* what types or may be held
Shifts    == {"capital", "otherSigns"}
Elements  == Keys \cup Shifts \cup {"field", "back", "other"}
Positions == 0..Size

VARIABLES
  screen,              \* Screen.current: "Keyboard" or "Wifi"
  txt, lenTxt, cursorTxtPos,
  pressCapitalLetter,  \* 0 or 1
  pressAnotherSigns,   \* 0, 1 or 2
  onePress, touchPrevious, HOLD_PRESS_TIME,   \* statics of TOUCH_KeyboardSet
  elapsed,             \* time since holdPressTime: 0 up to 10 ticks, 1 up to
                       \*   700, 2 longer; HOLD_PRESS_TIME is counted likewise
  previous,            \* ID_previousTouchDetect
  typed, repeats,      \* history: the key that typed in this contact, and how
                       \*   often (2 stands for more)
  touched, slid        \* history: the kinds of keys this contact pressed and
                       \*   whether one was refused; whether an earlier one
                       \*   slid off the keys before it was lifted

text    == <<txt, lenTxt, cursorTxtPos>>
page    == <<pressCapitalLetter, pressAnotherSigns>>
statics == <<onePress, touchPrevious, HOLD_PRESS_TIME>>
contact == <<typed, repeats, touched, slid>>
vars    == <<screen, text, page, statics, elapsed, previous, contact>>

-----------------------------------------------------------------------------
(* KEYBOARD_SetChar. *)

Sign(k) == [key |-> k, page |-> IF pressAnotherSigns = 0 THEN pressCapitalLetter
                                ELSE pressAnotherSigns + 1]

\* Seeded faults: the length may reach the size; an empty text is erased; the
\* rest of the text is not moved up.
AcceptsOneMore(k) ==
  IF k = "backspace" THEN lenTxt > 0 /\ (cursorTxtPos < lenTxt => cursorTxtPos # 0)
                     ELSE lenTxt < Size

AcceptsAnyErase(k) == k = "backspace" \/ lenTxt < Size - 1

InsertOver(k) ==
  /\ cursorTxtPos < lenTxt
  /\ txt' = [txt EXCEPT ![cursorTxtPos] = Sign(k)]
  /\ lenTxt' = lenTxt + 1 /\ cursorTxtPos' = cursorTxtPos + 1

\* KEYBOARD_SetChar returns 0 where this does not hold.
Accepts(k) ==
  IF k = "backspace" THEN lenTxt > 0 /\ (cursorTxtPos < lenTxt => cursorTxtPos # 0)
                     ELSE lenTxt < Size - 1

Insert(k) ==
  /\ cursorTxtPos < lenTxt
  /\ txt' = [i \in Positions |->
               CASE i = cursorTxtPos -> Sign(k)
                 [] i \in cursorTxtPos + 1 .. lenTxt -> txt[i - 1]
                 [] i = lenTxt + 1 -> None
                 [] OTHER -> txt[i]]
  /\ lenTxt' = lenTxt + 1 /\ cursorTxtPos' = cursorTxtPos + 1

AppendSign(k) ==
  /\ cursorTxtPos >= lenTxt
  /\ txt' = [txt EXCEPT ![lenTxt] = Sign(k), ![lenTxt + 1] = None]
  /\ lenTxt' = lenTxt + 1 /\ cursorTxtPos' = cursorTxtPos + 1

\* KEYBOARD_CursorPosChange, for a touch of a line and for a line that is gone.
KEYBOARD_CursorPosChange == cursorTxtPos' \in 0..lenTxt'

Remove ==
  /\ cursorTxtPos < lenTxt
  /\ txt' = [i \in Positions |->
               CASE i \in cursorTxtPos - 1 .. lenTxt - 2 -> txt[i + 1]
                 [] i = lenTxt - 1 -> None
                 [] OTHER -> txt[i]]
  /\ lenTxt' = lenTxt - 1
  /\ cursorTxtPos' = cursorTxtPos - 1 \/ KEYBOARD_CursorPosChange

RemoveLast ==
  /\ cursorTxtPos >= lenTxt
  /\ txt' = [txt EXCEPT ![lenTxt - 1] = None]
  /\ lenTxt' = lenTxt - 1 /\ cursorTxtPos' = lenTxt - 1

KEYBOARD_SetChar(k) ==
  /\ Accepts(k)
  /\ IF k = "backspace" THEN Remove \/ RemoveLast ELSE Insert(k) \/ AppendSign(k)
  /\ typed' = k /\ repeats' = IF repeats = 0 THEN 1 ELSE 2

-----------------------------------------------------------------------------
(* TOUCH_KeyboardSet, PRESSED. *)

Touches(kinds) == touched' = touched \cup kinds /\ UNCHANGED slid
NotTyped       == UNCHANGED <<text, typed, repeats>>

\* A key, with onePress not set.  Another key than the one of this contact does
\* nothing, and onePress is set all the same.
\* Seeded fault: the key of the contact is not compared.
FirstPressAny(k) ==
  /\ ~onePress /\ onePress' = TRUE /\ touchPrevious' = k
  /\ k # "nextSigns" /\ Accepts(k) /\ KEYBOARD_SetChar(k) /\ elapsed' = 0
  /\ Touches({"key"}) /\ UNCHANGED <<page, HOLD_PRESS_TIME>>

FirstPress(k) ==
  /\ ~onePress /\ onePress' = TRUE /\ UNCHANGED HOLD_PRESS_TIME
  /\ \/ /\ touchPrevious \notin {None, k}
        /\ NotTyped /\ UNCHANGED <<touchPrevious, elapsed, page>>
        /\ Touches({"key", "refused"})
     \/ /\ touchPrevious \in {None, k} /\ touchPrevious' = k
        /\ \/ /\ k = "nextSigns" /\ pressAnotherSigns # 0        \* the key is there
              /\ pressAnotherSigns' = IF pressAnotherSigns = 1 THEN 2 ELSE 1
              /\ NotTyped /\ elapsed' = 0 /\ Touches({"key"})
              /\ UNCHANGED pressCapitalLetter
           \/ /\ k # "nextSigns" /\ KEYBOARD_SetChar(k) /\ elapsed' = 0
              /\ Touches({"key"}) /\ UNCHANGED page
           \/ /\ k # "nextSigns" /\ ~Accepts(k) /\ NotTyped
              /\ Touches({"key", "refused"}) /\ UNCHANGED <<elapsed, page>>

\* A key, with onePress set: it is let go when the hold time has passed.
\* Seeded fault: the hold time is not waited for.
NextPressSoon(k) ==
  /\ onePress /\ NotTyped
  /\ k # "nextSigns" /\ onePress' = FALSE /\ HOLD_PRESS_TIME' = 1
  /\ Touches({"key"}) /\ UNCHANGED <<touchPrevious, elapsed, page>>

NextPress(k) ==
  /\ onePress /\ NotTyped
  /\ IF k # "nextSigns" /\ elapsed >= HOLD_PRESS_TIME
     THEN onePress' = FALSE /\ HOLD_PRESS_TIME' = 1
     ELSE UNCHANGED <<onePress, HOLD_PRESS_TIME>>
  /\ Touches({"key"}) /\ UNCHANGED <<touchPrevious, elapsed, page>>

KeyPressed(k) == (FirstPress(k) \/ NextPress(k)) /\ UNCHANGED screen

CapitalPressed ==
  /\ pressAnotherSigns = 0                          \* the key is there
  /\ pressCapitalLetter' = IF onePress THEN pressCapitalLetter ELSE 1 - pressCapitalLetter
  /\ UNCHANGED pressAnotherSigns

OtherSignsPressed ==
  /\ pressAnotherSigns' = IF onePress THEN pressAnotherSigns
                          ELSE IF pressAnotherSigns = 0 THEN 1 ELSE 0
  /\ UNCHANGED pressCapitalLetter

ShiftPressed(id) ==
  /\ \/ id = "capital" /\ CapitalPressed
     \/ id = "otherSigns" /\ OtherSignsPressed
  /\ onePress' = TRUE /\ Touches({"shift"})
  /\ NotTyped /\ UNCHANGED <<screen, touchPrevious, HOLD_PRESS_TIME, elapsed>>

\* A line of the white field moves the caret, or does nothing.
FieldPressed ==
  /\ UNCHANGED <<screen, txt, lenTxt, page, statics, elapsed, contact>>
  /\ KEYBOARD_CursorPosChange

BackPressed ==
  screen' = "Wifi" /\ UNCHANGED <<text, page, statics, elapsed, contact>>

\* A finger that is on another element still, or on a region that was deleted.
OtherPressed == UNCHANGED <<screen, text, page, statics, elapsed, contact>>

KeyboardPressed(id) ==
  /\ screen = "Keyboard" /\ previous' = id
  /\ \/ id \in Keys /\ (id = "nextSigns" => pressAnotherSigns # 0) /\ KeyPressed(id)
     \/ id \in Shifts /\ ShiftPressed(id)
     \/ id = "field" /\ FieldPressed
     \/ id = "back" /\ BackPressed
     \/ id = "other" /\ OtherPressed

-----------------------------------------------------------------------------
(* The screen that opens the keyboard, and releasing. *)

\* SCREEN_KeyboardSet with resumeScreen = 0: the text begins anew, the statics of
\* TOUCH_KeyboardSet stay.
SCREEN_KeyboardSet ==
  /\ screen' = "Keyboard"
  /\ txt' = [i \in Positions |-> IF i < Len(InitText) THEN InitText[i + 1] ELSE None]
  /\ lenTxt' = Len(InitText) /\ KEYBOARD_CursorPosChange
  /\ pressCapitalLetter' = 0 /\ pressAnotherSigns' = 0
  /\ UNCHANGED <<statics, elapsed, contact>>

WifiPressed ==
  /\ screen = "Wifi" /\ previous' = "other"
  /\ SCREEN_KeyboardSet \/ OtherPressed

EndOfContact ==
  /\ previous # None /\ previous' = None
  /\ typed' = None /\ repeats' = 0 /\ touched' = {}
  /\ UNCHANGED <<screen, text, page, elapsed>>

SlidOff == slid' = IF touched # {} THEN TRUE ELSE slid

\* TOUCH_KeyboardSet, RELEASED, with the element that was touched last.
\* Seeded faults: the key of the contact, or onePress, is not forgotten.
ReleasedKeepKey ==
  /\ screen = "Keyboard" /\ EndOfContact /\ previous \in Keys
  /\ slid' = FALSE /\ onePress' = FALSE /\ HOLD_PRESS_TIME' = 2 /\ UNCHANGED touchPrevious

ReleasedKeepTime ==
  /\ screen = "Keyboard" /\ EndOfContact /\ previous \in Keys
  /\ slid' = FALSE /\ onePress' = FALSE /\ touchPrevious' = None /\ UNCHANGED HOLD_PRESS_TIME

Released ==
  /\ screen = "Keyboard" /\ EndOfContact
  /\ \/ /\ previous \in Keys /\ slid' = FALSE
        /\ onePress' = FALSE /\ touchPrevious' = None /\ HOLD_PRESS_TIME' = 2
     \/ /\ previous \in Shifts /\ slid' = IF "key" \in touched THEN TRUE ELSE slid
        /\ onePress' = FALSE /\ UNCHANGED <<touchPrevious, HOLD_PRESS_TIME>>
     \/ /\ previous \notin Keys \cup Shifts /\ SlidOff
        /\ UNCHANGED statics

WifiReleased ==
  screen = "Wifi" /\ EndOfContact /\ SlidOff /\ UNCHANGED statics

Tick ==
  /\ elapsed < 2 /\ elapsed' = elapsed + 1
  /\ UNCHANGED <<screen, text, page, statics, previous, contact>>

-----------------------------------------------------------------------------
Init ==
  /\ screen = "Wifi" /\ txt = [i \in Positions |-> None] /\ lenTxt = 0 /\ cursorTxtPos = 0
  /\ pressCapitalLetter = 0 /\ pressAnotherSigns = 0
  /\ onePress = FALSE /\ touchPrevious = None /\ HOLD_PRESS_TIME = 2
  /\ elapsed = 2 /\ previous = None
  /\ typed = None /\ repeats = 0 /\ touched = {} /\ slid = FALSE

Next ==
  \/ \E id \in Elements : KeyboardPressed(id)
  \/ WifiPressed \/ Released \/ WifiReleased \/ Tick

Spec == Init /\ [][Next]_vars

-----------------------------------------------------------------------------
TypeOK ==
  /\ screen \in {"Keyboard", "Wifi"}
  /\ txt \in [Positions -> Signs \cup {None}] /\ lenTxt \in Nat /\ cursorTxtPos \in Nat
  /\ pressCapitalLetter \in 0..1 /\ pressAnotherSigns \in 0..2
  /\ onePress \in BOOLEAN /\ touchPrevious \in Keys \cup {None}
  /\ HOLD_PRESS_TIME \in 1..2 /\ elapsed \in 0..2
  /\ previous \in Elements \cup {None}
  /\ typed \in Keys \cup {None} /\ repeats \in 0..2
  /\ touched \subseteq {"key", "shift", "refused"} /\ slid \in BOOLEAN

\* The text ends in the buffer, with its terminator at its length and no other
\* before it, and the caret is never outside the text.
TextEnds ==
  /\ lenTxt < Size /\ cursorTxtPos <= lenTxt
  /\ \A i \in Positions : txt[i] = None <=> i >= lenTxt

\* The text the display shows is edited one sign at a time and only before the
\* caret: the abstract editor of TextEditor.
Editor == INSTANCE TextEditor WITH
  Limit   <- Size - 1,
  Opening <- InitText,
  before  <- [i \in 1..cursorTxtPos |-> txt[i - 1]],
  after   <- [i \in 1..lenTxt - cursorTxtPos |-> txt[cursorTxtPos + i - 1]]

EditsAtCaret == Editor!Spec

\* A key has edited the text in this step.
Edits == typed' # None /\ <<txt, lenTxt>>' # <<txt, lenTxt>> /\ previous' \in Keys

\* A finger that slides over the keyboard types with one key only, until it is
\* lifted.
OneKeyPerContact == [][Edits => typed \in {None, previous'}]_vars

\* A key that is held repeats its sign only after the long hold time, and then
\* after the short one, unless an earlier contact slid off the keys, or this one
\* also pressed a shift or a key that was refused.
NoEarlyRepeat ==
  [][Edits => /\ typed # None => elapsed > 0
              /\ repeats = 1 /\ ~slid /\ touched = {"key"} => elapsed = 2]_vars

\* No press is lost: a finger put on a letter sets its sign at once, unless an
\* earlier contact slid off the keys.
PressTypes ==
  [][screen = "Keyboard" /\ previous = None /\ previous' \in Letters /\ ~slid
       /\ lenTxt < Size - 1 => lenTxt' = lenTxt + 1]_vars

=============================================================================
