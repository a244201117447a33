--------------------------- MODULE Keyboard_proofs ---------------------------
(***************************************************************************)
(* Proofs about Keyboard: the text and its editor, then the contacts.      *)
(***************************************************************************)
EXTENDS Keyboard, SequenceTheorems, TLAPS

TextInv == TypeOK /\ TextEnds

\* How the statics of TOUCH_KeyboardSet follow the contact.
ContactInv ==
  /\ previous = None => touched = {} /\ typed = None
  /\ typed = None <=> repeats = 0
  /\ typed # None => typed = touchPrevious /\ typed # "nextSigns"
  /\ typed # None => "key" \in touched
  /\ typed # None /\ ~onePress => elapsed > 0
  /\ ~slid /\ touched = {} => ~onePress
  /\ ~slid /\ "key" \notin touched => touchPrevious = None /\ HOLD_PRESS_TIME = 2
  /\ "refused" \in touched => "key" \in touched
  /\ repeats = 0 /\ ~slid /\ touched = {"key"} => touchPrevious = "nextSigns"
  /\ repeats = 1 /\ ~slid /\ touched = {"key"}
       => IF onePress THEN HOLD_PRESS_TIME = 2 ELSE elapsed = 2

-----------------------------------------------------------------------------
(* The text. *)

LEMMA Basics == Size \in Nat \ {0} /\ None \notin Signs /\ None \notin Keys
<1>1. Size \in Nat /\ InitText \in Seq(Signs) /\ Len(InitText) < Size
  BY KeyboardAssumption
<1>2. Len(InitText) \in Nat
  BY <1>1
<1>3. QED BY <1>1, <1>2, KeyboardAssumption DEF Keys

\* Every way to set or erase a sign keeps the text ended in the buffer.
LEMMA SetCharKeepsText ==
  ASSUME TextInv, NEW k \in Keys \ {"nextSigns"}, KEYBOARD_SetChar(k)
  PROVE  /\ txt' \in [Positions -> Signs \cup {None}] /\ lenTxt' \in Nat
         /\ cursorTxtPos' \in Nat /\ TextEnds'
         /\ typed' = k /\ repeats' \in 1..2
<1> USE Basics DEF TextInv
<1>1. lenTxt \in Nat /\ cursorTxtPos \in Nat /\ lenTxt < Size /\ cursorTxtPos <= lenTxt
  BY DEF TypeOK, TextEnds
<1>2. typed' = k /\ repeats' \in 1..2
  BY DEF KEYBOARD_SetChar, TypeOK
<1>3. CASE k = "backspace"
  <2>1. lenTxt > 0 /\ cursorTxtPos > 0 /\ (Remove \/ RemoveLast)
    BY <1>1, <1>3 DEF KEYBOARD_SetChar, Accepts
  <2>2. CASE Remove
    <3>1. /\ lenTxt' = lenTxt - 1 /\ cursorTxtPos' \in 0..lenTxt'
      BY <1>1, <2>1, <2>2 DEF Remove, KEYBOARD_CursorPosChange
    <3>2. txt' \in [Positions -> Signs \cup {None}]
      BY <1>1, <2>1, <2>2 DEF Remove, TypeOK, Positions
    <3>3. \A i \in Positions : txt'[i] = None <=> i >= lenTxt - 1
      BY <1>1, <2>1, <2>2 DEF Remove, TextEnds, Positions
    <3>4. QED BY <1>1, <1>2, <2>1, <3>1, <3>2, <3>3 DEF TextEnds
  <2>3. CASE RemoveLast
    BY <1>1, <1>2, <2>1, <2>3 DEF RemoveLast, TextEnds, TypeOK, Positions
  <2>4. QED BY <2>1, <2>2, <2>3
<1>4. CASE k # "backspace"
  <2>1. lenTxt < Size - 1 /\ (Insert(k) \/ AppendSign(k)) /\ Sign(k) \in Signs
    BY <1>1, <1>4 DEF KEYBOARD_SetChar, Accepts, Sign, Signs, Keys, TypeOK
  <2>2. CASE Insert(k)
    <3>1. txt' \in [Positions -> Signs \cup {None}]
      BY <1>1, <2>1, <2>2 DEF Insert, TypeOK, Positions
    <3>2. \A i \in Positions : txt'[i] = None <=> i >= lenTxt + 1
      BY <1>1, <2>1, <2>2 DEF Insert, TextEnds, Positions
    <3>3. lenTxt' = lenTxt + 1 /\ cursorTxtPos' = cursorTxtPos + 1 /\ cursorTxtPos < lenTxt
      BY <2>2 DEF Insert
    <3>4. QED BY <1>1, <1>2, <2>1, <3>1, <3>2, <3>3 DEF TextEnds
  <2>3. CASE AppendSign(k)
    <3>1. lenTxt' = lenTxt + 1 /\ cursorTxtPos' = cursorTxtPos + 1 /\ cursorTxtPos = lenTxt
      BY <1>1, <2>3 DEF AppendSign
    <3>2. txt' \in [Positions -> Signs \cup {None}]
      BY <1>1, <2>1, <2>3 DEF AppendSign, TypeOK, Positions
    <3>3. txt'[lenTxt] = Sign(k) /\ txt'[lenTxt + 1] = None
      BY <1>1, <2>1, <2>3 DEF AppendSign, TypeOK, Positions
    <3>4. \A i \in Positions : i \notin {lenTxt, lenTxt + 1} => txt'[i] = txt[i]
      BY <2>3 DEF AppendSign, TypeOK
    <3>5. \A i \in Positions : txt'[i] = None <=> i >= lenTxt + 1
      BY <1>1, <2>1, <3>3, <3>4 DEF TextEnds, Positions
    <3>6. QED BY <1>1, <1>2, <2>1, <3>1, <3>2, <3>5 DEF TextEnds
  <2>4. QED BY <2>1, <2>2, <2>3
<1>5. QED BY <1>3, <1>4

\* The opening begins with InitText and its terminator.
LEMMA OpeningKeepsText ==
  ASSUME SCREEN_KeyboardSet
  PROVE  /\ txt' \in [Positions -> Signs \cup {None}] /\ lenTxt' \in Nat
         /\ cursorTxtPos' \in Nat /\ TextEnds'
<1>1. Len(InitText) \in Nat /\ \A i \in 1..Len(InitText) : InitText[i] \in Signs
  BY KeyboardAssumption
<1>2. \A i \in Positions : i < Len(InitText) => i + 1 \in 1..Len(InitText)
  BY <1>1 DEF Positions
<1>3. QED BY <1>1, <1>2, KeyboardAssumption
             DEF SCREEN_KeyboardSet, KEYBOARD_CursorPosChange, TextEnds, Positions

LEMMA TextInit == Init => TextInv
<1> SUFFICES ASSUME Init PROVE TextInv
  OBVIOUS
<1>1. txt \in [Positions -> Signs \cup {None}] /\ \A i \in Positions : txt[i] = None
  BY DEF Init
<1>2. TextEnds
  <2>1. lenTxt = 0 /\ cursorTxtPos = 0
    BY DEF Init
  <2>2. \A i \in Positions : i >= 0
    BY DEF Positions
  <2>3. QED BY <1>1, <2>1, <2>2, Basics DEF TextEnds
<1>3. TypeOK
  <2>1. touched \subseteq {"key", "shift", "refused"}
    BY DEF Init
  <2>2. screen \in {"Keyboard", "Wifi"} /\ lenTxt \in Nat /\ cursorTxtPos \in Nat
    BY DEF Init
  <2>3. /\ pressCapitalLetter \in 0..1 /\ pressAnotherSigns \in 0..2
        /\ HOLD_PRESS_TIME \in 1..2 /\ elapsed \in 0..2 /\ repeats \in 0..2
    BY DEF Init
  <2>4. onePress \in BOOLEAN /\ slid \in BOOLEAN
    BY DEF Init
  <2>5. QED BY <1>1, <2>1, <2>2, <2>3, <2>4 DEF Init, TypeOK
<1>4. QED BY <1>2, <1>3 DEF TextInv

\* A step that leaves the text alone leaves it ended.
LEMMA TextKept ==
  ASSUME TextInv, UNCHANGED <<txt, lenTxt>>, cursorTxtPos' \in 0..lenTxt,
         screen' \in {"Keyboard", "Wifi"},
         pressCapitalLetter' \in 0..1, pressAnotherSigns' \in 0..2,
         onePress' \in BOOLEAN, touchPrevious' \in Keys \cup {None},
         HOLD_PRESS_TIME' \in 1..2, elapsed' \in 0..2, previous' \in Elements \cup {None},
         typed' \in Keys \cup {None}, repeats' \in 0..2,
         touched' \subseteq {"key", "shift", "refused"}, slid' \in BOOLEAN
  PROVE  TextInv'
BY DEF TextInv, TypeOK, TextEnds

\* The types of what a pressed key changes beside the text.
LEMMA KeyTypes ==
  ASSUME TypeOK, NEW k \in Keys, FirstPress(k) \/ NextPress(k)
  PROVE  /\ onePress' \in BOOLEAN /\ touchPrevious' \in Keys \cup {None}
         /\ elapsed' \in 0..2 /\ HOLD_PRESS_TIME' \in 1..2
         /\ pressCapitalLetter' \in 0..1 /\ pressAnotherSigns' \in 0..2
         /\ touched' \subseteq {"key", "shift", "refused"} /\ slid' = slid
<1>1. CASE FirstPress(k)
  <2>1. onePress' \in BOOLEAN
    BY <1>1 DEF FirstPress
  <2>2. touchPrevious' \in Keys \cup {None}
    BY <1>1 DEF FirstPress, TypeOK
  <2>3. elapsed' \in 0..2 /\ HOLD_PRESS_TIME' \in 1..2
    BY <1>1 DEF FirstPress, TypeOK
  <2>4. pressCapitalLetter' \in 0..1
    BY <1>1 DEF FirstPress, TypeOK, page
  <2>5. pressAnotherSigns' \in 0..2
    BY <1>1 DEF FirstPress, TypeOK, page
  <2>6. touched' \subseteq {"key", "shift", "refused"} /\ slid' = slid
    BY <1>1 DEF FirstPress, TypeOK, Touches
  <2>7. QED BY <2>1, <2>2, <2>3, <2>4, <2>5, <2>6
<1>2. CASE NextPress(k)
  <2>1. onePress' \in BOOLEAN
    BY <1>2 DEF NextPress, TypeOK
  <2>2. HOLD_PRESS_TIME' = 1 \/ HOLD_PRESS_TIME' = HOLD_PRESS_TIME
    BY <1>2 DEF NextPress
  <2>3. UNCHANGED <<touchPrevious, elapsed, pressCapitalLetter, pressAnotherSigns, slid>>
    BY <1>2 DEF NextPress, Touches, page
  <2>4. touched' \subseteq {"key", "shift", "refused"}
    BY <1>2 DEF NextPress, TypeOK, Touches
  <2>5. QED BY <2>1, <2>2, <2>3, <2>4 DEF TypeOK
<1>3. QED BY <1>1, <1>2

LEMMA TextStep == TextInv /\ [Next]_vars => TextInv'
<1> SUFFICES ASSUME TextInv, [Next]_vars PROVE TextInv'
  OBVIOUS
<1> USE DEF NotTyped, Touches, text, page, statics, contact
<1>1. TypeOK /\ cursorTxtPos \in 0..lenTxt
  BY DEF TextInv, TypeOK, TextEnds
<1>2. ASSUME NEW k \in Keys, KeyPressed(k), previous' = k PROVE TextInv'
  <2>1. previous' \in Elements \cup {None}
    BY <1>2 DEF Elements
  <2>2. CASE k # "nextSigns" /\ KEYBOARD_SetChar(k) /\ FirstPress(k)
    <3>1. /\ txt' \in [Positions -> Signs \cup {None}] /\ lenTxt' \in Nat
          /\ cursorTxtPos' \in Nat /\ TextEnds' /\ typed' = k /\ repeats' \in 1..2
      BY <2>2, SetCharKeepsText
    <3>2. UNCHANGED screen
      BY <1>2 DEF KeyPressed
    <3>3. QED BY <1>1, <1>2, <2>1, <3>1, <3>2, KeyTypes DEF TextInv, TypeOK, KeyPressed
  <2>3. CASE NotTyped
    BY <1>1, <1>2, <2>1, <2>3, KeyTypes, TextKept DEF KeyPressed, TypeOK
  <2>4. QED BY <1>2, <2>2, <2>3 DEF KeyPressed, FirstPress, NextPress
<1>3. ASSUME NEW id \in Shifts, ShiftPressed(id), previous' = id PROVE TextInv'
  <2>1. previous' \in Elements \cup {None}
    BY <1>3 DEF Elements
  <2>2. pressCapitalLetter' \in 0..1 /\ pressAnotherSigns' \in 0..2
    BY <1>1, <1>3 DEF ShiftPressed, CapitalPressed, OtherSignsPressed, TypeOK
  <2>3. touched' \subseteq {"key", "shift", "refused"}
    BY <1>1, <1>3 DEF ShiftPressed, TypeOK
  <2>4. QED BY <1>1, <1>3, <2>1, <2>2, <2>3, TextKept DEF ShiftPressed, TypeOK
<1>4. ASSUME FieldPressed \/ BackPressed \/ OtherPressed, previous' \in Elements
      PROVE  TextInv'
  <2>1. UNCHANGED <<txt, lenTxt>> /\ cursorTxtPos' \in 0..lenTxt
    BY <1>1, <1>4 DEF FieldPressed, BackPressed, OtherPressed, KEYBOARD_CursorPosChange
  <2>2. QED BY <1>1, <1>4, <2>1, TextKept
               DEF FieldPressed, BackPressed, OtherPressed, TypeOK
<1>5. ASSUME NEW id \in Elements, KeyboardPressed(id) PROVE TextInv'
  BY <1>2, <1>3, <1>4, <1>5 DEF KeyboardPressed
<1>6. CASE WifiPressed
  <2>1. previous' \in Elements
    BY <1>6 DEF WifiPressed, Elements
  <2>2. CASE SCREEN_KeyboardSet
    BY <1>1, <2>1, <2>2, OpeningKeepsText DEF SCREEN_KeyboardSet, TextInv, TypeOK
  <2>3. QED BY <1>4, <1>6, <2>1, <2>2 DEF WifiPressed
<1>7. CASE Released
  <2>1. onePress' \in BOOLEAN
    BY <1>1, <1>7 DEF Released, TypeOK
  <2>2. HOLD_PRESS_TIME' \in 1..2
    <3>1. HOLD_PRESS_TIME' = 2 \/ HOLD_PRESS_TIME' = HOLD_PRESS_TIME
      BY <1>7 DEF Released
    <3>2. QED BY <1>1, <3>1 DEF TypeOK
  <2>3. touchPrevious' \in Keys \cup {None}
    <3>1. touchPrevious' \in {None, touchPrevious}
      BY <1>7 DEF Released
    <3>2. QED BY <1>1, <3>1 DEF TypeOK
  <2>4. slid' \in BOOLEAN
    BY <1>1, <1>7 DEF Released, SlidOff, TypeOK
  <2>5. EndOfContact
    BY <1>7 DEF Released
  <2>6. QED BY <1>1, <2>1, <2>2, <2>3, <2>4, <2>5, TextKept DEF EndOfContact, TypeOK
<1>8. CASE WifiReleased
  <2>1. slid' \in BOOLEAN
    BY <1>1, <1>8 DEF WifiReleased, SlidOff, TypeOK
  <2>2. QED BY <1>1, <1>8, <2>1, TextKept DEF WifiReleased, EndOfContact, TypeOK
<1>9. CASE Tick
  BY <1>1, <1>9, TextKept DEF Tick, TypeOK
<1>10. CASE UNCHANGED vars
  BY <1>1, <1>10, TextKept DEF vars, TypeOK
<1>11. QED BY <1>5, <1>6, <1>7, <1>8, <1>9, <1>10 DEF Next

\* All variables of the keyboard keep their types.
THEOREM TypeCorrect == Spec => []TypeOK
<1>1. TextInv => TypeOK
  BY DEF TextInv
<1>2. QED BY <1>1, TextInit, TextStep, PTL DEF Spec

\* No sequence of keys and caret moves writes outside the buffer, leaves the text
\* without its end, or puts the caret outside it.
THEOREM TextStaysEnded == Spec => []TextEnds
<1>1. TextInv => TextEnds
  BY DEF TextInv
<1>2. QED BY <1>1, TextInit, TextStep, PTL DEF Spec

-----------------------------------------------------------------------------
(* The contacts. *)

LEMMA ContactInit == Init => ContactInv
BY Basics DEF Init, ContactInv

\* What a sample of a key does to the contact.
LEMMA ContactKey ==
  ASSUME TypeOK, ContactInv, NEW k \in Keys, FirstPress(k) \/ NextPress(k), previous' = k
  PROVE  ContactInv'
<1> USE DEF NotTyped, Touches
<1>1. k # None /\ previous' # None /\ repeats \in 0..2 /\ elapsed \in 0..2
      /\ HOLD_PRESS_TIME \in 1..2
  BY Basics DEF TypeOK
<1>2. slid' = slid /\ "key" \in touched' /\ touched \subseteq touched'
  BY DEF FirstPress, NextPress
<1>3. CASE onePress
  <2>1. /\ UNCHANGED <<typed, repeats, touchPrevious, elapsed>>
        /\ touched' = touched \cup {"key"}
        /\ IF k # "nextSigns" /\ elapsed >= HOLD_PRESS_TIME
           THEN onePress' = FALSE /\ HOLD_PRESS_TIME' = 1
           ELSE UNCHANGED <<onePress, HOLD_PRESS_TIME>>
    BY <1>3 DEF FirstPress, NextPress
  <2>2. ~slid /\ touched' = {"key"} => touched = {"key"}
    BY <1>3, <2>1 DEF ContactInv
  <2>3. typed' # None /\ ~onePress' => elapsed' > 0
    <3> SUFFICES ASSUME ~onePress' PROVE elapsed' > 0
      OBVIOUS
    <3>1. elapsed >= HOLD_PRESS_TIME
      BY <1>3, <2>1
    <3>2. QED BY <1>1, <2>1, <3>1
  <2>4. repeats' = 0 /\ ~slid' /\ touched' = {"key"} => touchPrevious' = "nextSigns"
    BY <1>2, <2>1, <2>2 DEF ContactInv
  <2>5. repeats' = 1 /\ ~slid' /\ touched' = {"key"}
          => IF onePress' THEN HOLD_PRESS_TIME' = 2 ELSE elapsed' = 2
    <3> SUFFICES ASSUME repeats = 1, ~slid, touched' = {"key"}
                 PROVE  IF onePress' THEN HOLD_PRESS_TIME' = 2 ELSE elapsed' = 2
      BY <1>2, <2>1
    <3>1. HOLD_PRESS_TIME = 2
      BY <1>3, <2>2 DEF ContactInv
    <3>2. CASE onePress'
      BY <2>1, <3>1, <3>2
    <3>3. CASE ~onePress'
      <4>1. elapsed >= HOLD_PRESS_TIME /\ elapsed' = elapsed
        BY <1>3, <2>1, <3>3
      <4>2. QED BY <1>1, <3>1, <3>3, <4>1
    <3>4. QED BY <3>2, <3>3
  <2>6. QED BY <1>1, <1>2, <2>1, <2>3, <2>4, <2>5 DEF ContactInv
<1>4. CASE ~onePress /\ "refused" \in touched' /\ NotTyped
  <2>1. onePress'
    BY <1>4 DEF FirstPress, NextPress
  <2>2. touchPrevious' = touchPrevious \/ touchPrevious = None
    BY <1>4 DEF FirstPress, NextPress
  <2>3. QED BY <1>1, <1>2, <1>4, <2>1, <2>2, Basics DEF ContactInv
<1>5. CASE /\ ~onePress /\ onePress' /\ k = "nextSigns" /\ NotTyped
           /\ touchPrevious \in {None, k} /\ touchPrevious' = k
  <2>1. typed = None
    BY <1>5, Basics DEF ContactInv
  <2>2. QED BY <1>1, <1>2, <1>5, <2>1 DEF ContactInv
<1>6. CASE /\ ~onePress /\ onePress' /\ k # "nextSigns" /\ KEYBOARD_SetChar(k)
           /\ touchPrevious \in {None, k} /\ touchPrevious' = k
           /\ touched' = touched \cup {"key"} /\ UNCHANGED HOLD_PRESS_TIME
  <2>1. typed' = k /\ repeats' = IF repeats = 0 THEN 1 ELSE 2
    BY <1>6 DEF KEYBOARD_SetChar
  <2>2. repeats' = 1 /\ ~slid /\ touched' = {"key"} => HOLD_PRESS_TIME' = 2
    <3> SUFFICES ASSUME repeats = 0, ~slid, touched' = {"key"} PROVE HOLD_PRESS_TIME = 2
      BY <1>6, <2>1
    <3>1. touched # {"key"}
      <4>1. "nextSigns" # None /\ "nextSigns" # k
        BY <1>6, Basics DEF Keys
      <4>2. touched = {"key"} => touchPrevious = "nextSigns"
        BY DEF ContactInv
      <4>3. QED BY <1>6, <4>1, <4>2
    <3>2. "key" \notin touched
      BY <1>6, <3>1
    <3>3. QED BY <3>2 DEF ContactInv
  <2>3. QED BY <1>1, <1>2, <1>6, <2>1, <2>2 DEF ContactInv
<1>7. QED BY <1>3, <1>4, <1>5, <1>6 DEF FirstPress, NextPress

LEMMA ContactStep == TypeOK /\ ContactInv /\ [Next]_vars => ContactInv'
<1> SUFFICES ASSUME TypeOK, ContactInv, [Next]_vars PROVE ContactInv'
  OBVIOUS
<1>1. ASSUME NEW k \in Keys, KeyPressed(k), previous' = k PROVE ContactInv'
  BY <1>1, ContactKey DEF KeyPressed
<1>2. ASSUME NEW id \in Shifts, ShiftPressed(id), previous' = id PROVE ContactInv'
  <2>1. /\ UNCHANGED <<typed, repeats, touchPrevious, HOLD_PRESS_TIME, elapsed, slid>>
        /\ onePress' /\ touched' = touched \cup {"shift"}
    BY <1>2 DEF ShiftPressed, Touches, NotTyped
  <2>2. previous' # None
    BY <1>2, KeyboardAssumption DEF Shifts
  <2>3. touched' # {} /\ touched' # {"key"} /\ ("key" \in touched' <=> "key" \in touched)
        /\ ("refused" \in touched' <=> "refused" \in touched)
    BY <2>1
  <2>4. QED BY <2>1, <2>2, <2>3 DEF ContactInv
<1>3. ASSUME UNCHANGED <<statics, elapsed, contact>>, previous' \in Elements
      PROVE  ContactInv'
  <2>1. previous' # None
    BY <1>3, KeyboardAssumption DEF Elements, Keys, Shifts
  <2>2. QED BY <1>3, <2>1 DEF ContactInv, statics, contact
<1>4. ASSUME NEW id \in Elements, KeyboardPressed(id) PROVE ContactInv'
  <2>1. CASE FieldPressed \/ BackPressed \/ OtherPressed
    BY <1>3, <1>4, <2>1 DEF KeyboardPressed, FieldPressed, BackPressed, OtherPressed
  <2>2. QED BY <1>1, <1>2, <1>4, <2>1 DEF KeyboardPressed
<1>5. CASE WifiPressed
  BY <1>3, <1>5 DEF WifiPressed, SCREEN_KeyboardSet, OtherPressed, Elements
<1>6. CASE Released
  <2>1. previous' = None /\ typed' = None /\ repeats' = 0 /\ touched' = {} /\ elapsed' = elapsed
    BY <1>6 DEF Released, EndOfContact
  <2>2. CASE slid' = FALSE /\ onePress' = FALSE /\ touchPrevious' = None /\ HOLD_PRESS_TIME' = 2
    BY <2>1, <2>2 DEF ContactInv
  <2>3. CASE /\ slid' = IF "key" \in touched THEN TRUE ELSE slid
             /\ onePress' = FALSE /\ UNCHANGED <<touchPrevious, HOLD_PRESS_TIME>>
    BY <2>1, <2>3 DEF ContactInv
  <2>4. CASE SlidOff /\ UNCHANGED statics
    BY <2>1, <2>4 DEF ContactInv, SlidOff, statics
  <2>5. QED BY <1>6, <2>2, <2>3, <2>4 DEF Released
<1>7. CASE WifiReleased
  BY <1>7 DEF ContactInv, WifiReleased, EndOfContact, SlidOff, statics
<1>8. CASE Tick
  <2>1. elapsed \in 0..1 /\ elapsed' = elapsed + 1
    BY <1>8 DEF Tick, TypeOK
  <2>2. UNCHANGED <<statics, contact, previous>>
    BY <1>8 DEF Tick
  <2>3. QED BY <2>1, <2>2 DEF ContactInv, statics, contact
<1>9. CASE UNCHANGED vars
  BY <1>9 DEF vars, statics, contact, ContactInv
<1>10. QED BY <1>4, <1>5, <1>6, <1>7, <1>8, <1>9 DEF Next

ContactsInv == TextInv /\ ContactInv

LEMMA ContactsInductive == Spec => []ContactsInv
<1>1. Init => ContactsInv
  BY TextInit, ContactInit DEF ContactsInv
<1>2. ContactsInv /\ [Next]_vars => ContactsInv'
  BY TextStep, ContactStep DEF ContactsInv, TextInv
<1>3. QED BY <1>1, <1>2, PTL DEF Spec

\* A step in which a key edits is FirstPress with the key of the contact.
LEMMA EditIsFirstPress ==
  ASSUME ContactsInv, Next, Edits
  PROVE  /\ previous' \in Keys \ {"nextSigns"} /\ ~onePress
         /\ touchPrevious \in {None, previous'} /\ touched' = touched \cup {"key"}
         /\ slid' = slid /\ KEYBOARD_SetChar(previous')
<1>1. PICK id \in Elements : KeyboardPressed(id)
  <2>1. ~Released /\ ~WifiReleased
    BY DEF Edits, Released, WifiReleased, EndOfContact
  <2>2. ~Tick
    BY DEF Edits, Tick, text
  <2>3. ~WifiPressed
    BY KeyboardAssumption DEF Edits, WifiPressed, Keys
  <2>4. QED BY <2>1, <2>2, <2>3 DEF Next
<1>2. previous' = id /\ id \in Keys
  BY <1>1 DEF KeyboardPressed, Edits
<1>3. KeyPressed(id)
  BY <1>1, <1>2, KeyboardAssumption DEF KeyboardPressed, Keys, Shifts
<1>4. ~NotTyped
  BY DEF NotTyped, Edits, text
<1>5. QED BY <1>2, <1>3, <1>4 DEF KeyPressed, FirstPress, NextPress, Touches

\* A finger sliding over the keyboard types with one key, until it is lifted.
THEOREM OneKey == Spec => OneKeyPerContact
<1>1. ContactsInv /\ [Next]_vars => [Edits => typed \in {None, previous'}]_vars
  <2> SUFFICES ASSUME ContactsInv, Next, Edits PROVE typed \in {None, previous'}
    OBVIOUS
  <2>1. touchPrevious \in {None, previous'}
    BY EditIsFirstPress
  <2>2. typed # None => typed = touchPrevious
    BY DEF ContactsInv, ContactInv
  <2>3. QED BY <2>1, <2>2
<1>2. QED BY <1>1, ContactsInductive, PTL DEF Spec, OneKeyPerContact

\* The repetitions of a held key keep the long and then the short hold time.
THEOREM RepeatsWait == Spec => NoEarlyRepeat
<1>1. ContactsInv /\ [Next]_vars
        => [Edits => /\ typed # None => elapsed > 0
                     /\ repeats = 1 /\ ~slid /\ touched = {"key"} => elapsed = 2]_vars
  <2> SUFFICES ASSUME ContactsInv, Next, Edits
               PROVE  /\ typed # None => elapsed > 0
                      /\ repeats = 1 /\ ~slid /\ touched = {"key"} => elapsed = 2
    OBVIOUS
  <2>1. ~onePress
    BY EditIsFirstPress
  <2>2. QED BY <2>1 DEF ContactsInv, ContactInv
<1>2. QED BY <1>1, ContactsInductive, PTL DEF Spec, NoEarlyRepeat

\* A finger put on a letter sets its sign, unless an earlier contact slid off.
THEOREM NoPressIsLost == Spec => PressTypes
<1>1. ContactsInv /\ [Next]_vars
        => [screen = "Keyboard" /\ previous = None /\ previous' \in Letters /\ ~slid
              /\ lenTxt < Size - 1 => lenTxt' = lenTxt + 1]_vars
  <2> SUFFICES ASSUME ContactsInv, Next, screen = "Keyboard", previous = None,
                      previous' \in Letters, ~slid, lenTxt < Size - 1
               PROVE  lenTxt' = lenTxt + 1
    OBVIOUS
  <2> DEFINE k == previous'
  <2>1. k \in Keys /\ k \notin Shifts \cup {"backspace", "nextSigns", "field", "back", "other"}
    BY KeyboardAssumption DEF Keys, Shifts
  <2>2. k # previous
    BY KeyboardAssumption
  <2>3. KeyPressed(k)
    <3>1. ~Released /\ ~WifiReleased /\ ~Tick /\ ~WifiPressed
      BY <2>2 DEF Released, WifiReleased, EndOfContact, Tick, WifiPressed
    <3>2. PICK id \in Elements : KeyboardPressed(id)
      BY <3>1 DEF Next
    <3>3. QED BY <2>1, <3>2 DEF KeyboardPressed
  <2>4. ~onePress /\ touchPrevious = None
    BY DEF ContactsInv, ContactInv
  <2>5. Accepts(k)
    BY <2>1 DEF Accepts
  <2>6. KEYBOARD_SetChar(k)
    BY <2>1, <2>3, <2>4, <2>5 DEF KeyPressed, FirstPress, NextPress
  <2>7. QED BY <2>1, <2>6 DEF KEYBOARD_SetChar, Insert, AppendSign
<1>2. QED BY <1>1, ContactsInductive, PTL DEF Spec, PressTypes

-----------------------------------------------------------------------------
(* The keyboard implements the editor of TextEditor. *)

Start(t, n)   == [i \in 1..n |-> t[i - 1]]
Rest(t, c, n) == [i \in 1..n - c |-> t[c + i - 1]]

LEMMA StartIsSeq ==
  ASSUME NEW t, NEW n \in Nat, \A i \in 0..n - 1 : t[i] \in Signs
  PROVE  /\ Start(t, n) \in Seq(Signs) /\ Len(Start(t, n)) = n
         /\ \A i \in 1..n : Start(t, n)[i] = t[i - 1]
<1>1. \A i \in 1..n : i - 1 \in 0..n - 1
  OBVIOUS
<1>2. Start(t, n) \in [1..n -> Signs]
  BY <1>1 DEF Start
<1>3. QED BY <1>2 DEF Start

LEMMA RestIsSeq ==
  ASSUME NEW t, NEW n \in Nat, NEW c \in 0..n, \A i \in 0..n - 1 : t[i] \in Signs
  PROVE  /\ Rest(t, c, n) \in Seq(Signs) /\ Len(Rest(t, c, n)) = n - c
         /\ \A i \in 1..n - c : Rest(t, c, n)[i] = t[c + i - 1]
<1>1. \A i \in 1..n - c : c + i - 1 \in 0..n - 1
  OBVIOUS
<1>2. n - c \in Nat /\ Rest(t, c, n) \in [1..n - c -> Signs]
  BY <1>1 DEF Rest
<1>3. QED BY <1>2 DEF Rest

\* What stands before the caret and after it is the whole text.
LEMMA Joined ==
  ASSUME NEW t, NEW n \in Nat, NEW c \in 0..n, \A i \in 0..n - 1 : t[i] \in Signs
  PROVE  Start(t, c) \o Rest(t, c, n) = Start(t, n)
<1>1. c \in Nat /\ \A i \in 0..c - 1 : t[i] \in Signs
  OBVIOUS
<1> DEFINE b == Start(t, c)
           a == Rest(t, c, n)
<1>2. /\ b \in Seq(Signs) /\ Len(b) = c /\ \A i \in 1..c : b[i] = t[i - 1]
  BY <1>1, StartIsSeq
<1>3. /\ a \in Seq(Signs) /\ Len(a) = n - c /\ \A i \in 1..n - c : a[i] = t[c + i - 1]
  BY RestIsSeq
<1>4. /\ Start(t, n) \in Seq(Signs) /\ Len(Start(t, n)) = n
      /\ \A i \in 1..n : Start(t, n)[i] = t[i - 1]
  BY StartIsSeq
<1> HIDE DEF b, a
<1>5. /\ b \o a \in Seq(Signs) /\ Len(b \o a) = n
      /\ \A i \in 1..n : (b \o a)[i] = IF i <= c THEN b[i] ELSE a[i - c]
  <2>1. /\ b \o a \in Seq(Signs) /\ Len(b \o a) = Len(b) + Len(a)
        /\ \A i \in 1..Len(b) + Len(a) :
             (b \o a)[i] = IF i <= Len(b) THEN b[i] ELSE a[i - Len(b)]
    BY <1>2, <1>3, ConcatProperties
  <2>2. Len(b) = c /\ Len(b) + Len(a) = n
    BY <1>2, <1>3
  <2>3. QED BY <2>1, <2>2
<1>6. \A i \in 1..n : (b \o a)[i] = t[i - 1]
  <2> TAKE i \in 1..n
  <2>1. CASE i <= c
    <3>1. i \in 1..c
      BY <2>1
    <3>2. (b \o a)[i] = b[i]
      BY <1>5, <2>1
    <3>3. QED BY <1>2, <3>1, <3>2
  <2>2. CASE ~(i <= c)
    <3>1. i - c \in 1..n - c /\ c + (i - c) - 1 = i - 1
      BY <2>2
    <3>2. (b \o a)[i] = a[i - c]
      BY <1>5, <2>2
    <3>3. a[i - c] = t[c + (i - c) - 1]
      BY <1>3, <3>1
    <3>4. QED BY <3>1, <3>2, <3>3
  <2>3. QED BY <2>1, <2>2
<1>7. b \o a = Start(t, n)
  BY <1>4, <1>5, <1>6, SeqEqual
<1>8. QED BY <1>7 DEF b, a

LEMMA EndedText ==
  ASSUME NEW t \in [Positions -> Signs \cup {None}], NEW n \in Nat, n < Size,
         \A i \in Positions : t[i] = None <=> i >= n
  PROVE  \A i \in 0..n - 1 : t[i] \in Signs
<1>1. \A i \in 0..n - 1 : i \in Positions /\ ~(i >= n)
  BY Basics DEF Positions
<1>2. QED BY <1>1

LEMMA TextFacts ==
  ASSUME TextInv
  PROVE  /\ lenTxt \in Nat /\ cursorTxtPos \in 0..lenTxt /\ lenTxt < Size
         /\ \A i \in 0..lenTxt - 1 : txt[i] \in Signs
BY EndedText DEF TextInv, TypeOK, TextEnds

\* Setting a sign adds it before the caret.
LEMMA SetsBeforeCaret ==
  ASSUME TextInv, NEW k \in Letters, lenTxt < Size - 1, Insert(k) \/ AppendSign(k)
  PROVE  /\ Sign(k) \in Signs /\ lenTxt' = lenTxt + 1 /\ cursorTxtPos' = cursorTxtPos + 1
         /\ Start(txt', cursorTxtPos + 1) = Append(Start(txt, cursorTxtPos), Sign(k))
         /\ Rest(txt', cursorTxtPos + 1, lenTxt + 1) = Rest(txt, cursorTxtPos, lenTxt)
<1> DEFINE c == cursorTxtPos
           n == lenTxt
<1>1. /\ n \in Nat /\ c \in 0..n /\ n < Size - 1 /\ Size \in Nat
      /\ \A i \in 0..n - 1 : txt[i] \in Signs
  BY TextFacts, Basics
<1>2. Sign(k) \in Signs
  BY DEF Sign, Signs, TextInv, TypeOK
<1>3. n' = n + 1 /\ c' = c + 1
  BY DEF Insert, AppendSign
<1>4. \A i \in 0..c - 1 : txt'[i] = txt[i]
  <2>1. \A i \in 0..c - 1 : i \in Positions /\ i # c /\ i # n /\ i # n + 1
    BY <1>1 DEF Positions
  <2>2. CASE Insert(k)
    BY <1>1, <2>1, <2>2 DEF Insert
  <2>3. CASE AppendSign(k)
    BY <1>1, <2>1, <2>3 DEF AppendSign, TextInv, TypeOK
  <2>4. QED BY <2>2, <2>3
<1>5. txt'[c] = Sign(k)
  <2>1. c \in Positions /\ c # n + 1
    BY <1>1 DEF Positions
  <2>2. CASE Insert(k)
    BY <1>1, <2>1, <2>2 DEF Insert
  <2>3. CASE AppendSign(k)
    <3>1. c = n
      BY <1>1, <2>3 DEF AppendSign
    <3>2. QED BY <1>1, <2>1, <2>3, <3>1 DEF AppendSign, TextInv, TypeOK
  <2>4. QED BY <2>2, <2>3
<1>6. \A i \in c + 1..n : txt'[i] = txt[i - 1]
  <2>1. \A i \in c + 1..n : i \in Positions /\ i # c
    BY <1>1 DEF Positions
  <2>2. CASE Insert(k)
    BY <1>1, <2>1, <2>2 DEF Insert
  <2>3. CASE AppendSign(k)
    BY <1>1, <2>3 DEF AppendSign
  <2>4. QED BY <2>2, <2>3
<1>7. Rest(txt', c + 1, n + 1) = Rest(txt, c, n)
  <2>1. \A i \in 1..n - c : c + i \in c + 1..n
    BY <1>1
  <2>2. \A i \in 1..n - c : txt'[(c + 1) + i - 1] = txt[c + i - 1]
    <3> TAKE i \in 1..n - c
    <3>1. PICK j \in c + 1..n : j = c + i
      BY <2>1
    <3>2. txt'[j] = txt[j - 1]
      BY <1>6
    <3>3. j = (c + 1) + i - 1 /\ j - 1 = c + i - 1
      BY <1>1, <3>1
    <3>4. QED BY <3>2, <3>3
  <2>3. (n + 1) - (c + 1) = n - c
    BY <1>1
  <2>4. QED BY <2>2, <2>3 DEF Rest
<1>8. Start(txt', c + 1) = Append(Start(txt, c), Sign(k))
  <2> DEFINE b == Start(txt, c)
             new == Start(txt', c + 1)
  <2>1. b \in Seq(Signs) /\ Len(b) = c /\ \A i \in 1..c : b[i] = txt[i - 1]
    <3>1. c \in Nat /\ \A i \in 0..c - 1 : txt[i] \in Signs
      BY <1>1
    <3>2. QED BY <3>1, StartIsSeq
  <2>2. new \in Seq(Signs) /\ Len(new) = c + 1 /\ \A i \in 1..c + 1 : new[i] = txt'[i - 1]
    <3>1. c + 1 \in Nat /\ \A i \in 0..(c + 1) - 1 : txt'[i] \in Signs
      BY <1>1, <1>2, <1>4, <1>5
    <3>2. QED BY <3>1, StartIsSeq
  <2> HIDE DEF b, new
  <2>3. /\ Append(b, Sign(k)) \in Seq(Signs) /\ Len(Append(b, Sign(k))) = Len(b) + 1
        /\ \A i \in 1..Len(b) : Append(b, Sign(k))[i] = b[i]
        /\ Append(b, Sign(k))[Len(b) + 1] = Sign(k)
    BY <1>2, <2>1, AppendProperties
  <2>4. \A i \in 1..c + 1 : new[i] = Append(b, Sign(k))[i]
    <3> TAKE i \in 1..c + 1
    <3>1. CASE i = c + 1
      <4>1. i - 1 = c
        BY <1>1, <3>1
      <4>2. QED BY <1>5, <2>1, <2>2, <2>3, <3>1, <4>1
    <3>2. CASE i # c + 1
      <4>1. i \in 1..c /\ i - 1 \in 0..c - 1
        BY <1>1, <3>2
      <4>2. QED BY <1>4, <2>1, <2>2, <2>3, <4>1
    <3>3. QED BY <3>1, <3>2
  <2>5. Len(new) = Len(Append(b, Sign(k)))
    BY <2>1, <2>2, <2>3
  <2>6. new = Append(b, Sign(k))
    BY <2>2, <2>3, <2>4, <2>5, SeqEqual
  <2>7. QED BY <2>6 DEF b, new
<1>9. QED BY <1>2, <1>3, <1>7, <1>8

\* Erasing a sign takes the one before the caret.
LEMMA ErasesBeforeCaret ==
  ASSUME TextInv, cursorTxtPos > 0, Remove \/ RemoveLast
  PROVE  /\ lenTxt' = lenTxt - 1
         /\ Start(txt', cursorTxtPos - 1) = SubSeq(Start(txt, cursorTxtPos), 1, cursorTxtPos - 1)
         /\ Rest(txt', cursorTxtPos - 1, lenTxt - 1) = Rest(txt, cursorTxtPos, lenTxt)
<1> DEFINE c == cursorTxtPos
           n == lenTxt
<1>1. /\ n \in Nat /\ c \in 1..n /\ n < Size /\ Size \in Nat
      /\ \A i \in 0..n - 1 : txt[i] \in Signs
  BY TextFacts, Basics
<1>2. n' = n - 1
  BY DEF Remove, RemoveLast
<1>3. \A i \in 0..c - 2 : txt'[i] = txt[i]
  <2>1. \A i \in 0..c - 2 : i \in Positions /\ i \notin c - 1 .. n - 2 /\ i # n - 1
    BY <1>1 DEF Positions
  <2>2. CASE Remove
    BY <1>1, <2>1, <2>2 DEF Remove
  <2>3. CASE RemoveLast
    BY <1>1, <2>1, <2>3 DEF RemoveLast, TextInv, TypeOK
  <2>4. QED BY <2>2, <2>3
<1>4. \A i \in c - 1 .. n - 2 : txt'[i] = txt[i + 1]
  <2>1. \A i \in c - 1 .. n - 2 : i \in Positions
    BY <1>1 DEF Positions
  <2>2. CASE Remove
    BY <1>1, <2>1, <2>2 DEF Remove
  <2>3. CASE RemoveLast
    BY <1>1, <2>3 DEF RemoveLast
  <2>4. QED BY <2>2, <2>3
<1>5. Rest(txt', c - 1, n - 1) = Rest(txt, c, n)
  <2>1. \A i \in 1..n - c : (c - 1) + i - 1 \in c - 1 .. n - 2
    BY <1>1
  <2>2. \A i \in 1..n - c : ((c - 1) + i - 1) + 1 = c + i - 1
    BY <1>1
  <2>3. \A i \in 1..n - c : txt'[(c - 1) + i - 1] = txt[c + i - 1]
    <3> TAKE i \in 1..n - c
    <3>1. txt'[(c - 1) + i - 1] = txt[((c - 1) + i - 1) + 1]
      BY <1>4, <2>1
    <3>2. ((c - 1) + i - 1) + 1 = c + i - 1
      BY <2>2
    <3>3. QED BY <3>1, <3>2
  <2>4. (n - 1) - (c - 1) = n - c
    BY <1>1
  <2>5. QED BY <2>3, <2>4 DEF Rest
<1>6. Start(txt', c - 1) = SubSeq(Start(txt, c), 1, c - 1)
  <2> DEFINE b == Start(txt, c)
             new == Start(txt', c - 1)
             old == SubSeq(b, 1, c - 1)
  <2>1. b \in Seq(Signs) /\ Len(b) = c /\ \A i \in 1..c : b[i] = txt[i - 1]
    <3>1. c \in Nat /\ \A i \in 0..c - 1 : txt[i] \in Signs
      BY <1>1
    <3>2. QED BY <3>1, StartIsSeq
  <2>2. new \in Seq(Signs) /\ Len(new) = c - 1 /\ \A i \in 1..c - 1 : new[i] = txt'[i - 1]
    <3>1. c - 1 \in Nat /\ \A i \in 0..(c - 1) - 1 : txt'[i] \in Signs
      BY <1>1, <1>3
    <3>2. QED BY <3>1, StartIsSeq
  <2> HIDE DEF b, new
  <2>3. old \in Seq(Signs) /\ Len(old) = c - 1 /\ \A i \in 1..c - 1 : old[i] = b[i]
    <3>1. \A i \in 1..c - 1 : b[i] \in Signs
      <4>1. \A i \in 1..c - 1 : i \in 1..Len(b)
        BY <1>1, <2>1
      <4>2. QED BY <2>1, <4>1, ElementOfSeq
    <3>2. /\ old \in Seq(Signs)
          /\ Len(old) = IF 1 <= c - 1 THEN (c - 1) - 1 + 1 ELSE 0
          /\ \A i \in 1..(c - 1) - 1 + 1 : old[i] = b[1 + i - 1]
      BY <1>1, <3>1, SubSeqProperties
    <3> HIDE DEF old
    <3>3. Len(old) = c - 1
      BY <1>1, <3>2
    <3>4. \A i \in 1..c - 1 : old[i] = b[i]
      <4> TAKE i \in 1..c - 1
      <4>1. i \in 1..(c - 1) - 1 + 1 /\ 1 + i - 1 = i
        BY <1>1
      <4>2. old[i] = b[1 + i - 1]
        BY <3>2, <4>1
      <4>3. QED BY <4>1, <4>2
    <3>5. QED BY <3>2, <3>3, <3>4
  <2> HIDE DEF old
  <2>4. \A i \in 1..c - 1 : new[i] = old[i]
    <3> TAKE i \in 1..c - 1
    <3>1. i - 1 \in 0..c - 2 /\ i \in 1..c
      BY <1>1
    <3>2. new[i] = txt[i - 1]
      BY <1>3, <2>2, <3>1
    <3>3. old[i] = txt[i - 1]
      BY <2>1, <2>3, <3>1
    <3>4. QED BY <3>2, <3>3
  <2>5. new = old
    BY <2>2, <2>3, <2>4, SeqEqual
  <2>6. QED BY <2>5 DEF b, new, old
<1>7. QED BY <1>2, <1>5, <1>6

\* What the editor sees of a step: the text and the sign before the caret.
LEMMA EditorStep == TextInv /\ TextInv' /\ [Next]_vars
                      => [Editor!Next]_<<Start(txt, cursorTxtPos),
                                         Rest(txt, cursorTxtPos, lenTxt)>>
<1> SUFFICES ASSUME TextInv, TextInv', [Next]_vars
             PROVE  Editor!Next
  OBVIOUS
<1> DEFINE b == Start(txt, cursorTxtPos)
           a == Rest(txt, cursorTxtPos, lenTxt)
           c == cursorTxtPos
           n == lenTxt
<1>1. n \in Nat /\ c \in 0..n /\ n < Size /\ \A i \in 0..n - 1 : txt[i] \in Signs
  BY TextFacts
<1>2. n' \in Nat /\ c' \in 0..n' /\ \A i \in 0..n' - 1 : txt'[i] \in Signs
  <2>1. /\ txt' \in [Positions -> Signs \cup {None}] /\ n' \in Nat /\ c' \in Nat
        /\ n' < Size /\ c' <= n' /\ \A i \in Positions : txt'[i] = None <=> i >= n'
    BY DEF TextInv, TypeOK, TextEnds
  <2>2. \A i \in 0..lenTxt' - 1 : txt'[i] \in Signs
    BY <2>1, EndedText
  <2>3. cursorTxtPos' \in 0..lenTxt'
    BY <2>1
  <2>4. QED BY <2>1, <2>2, <2>3
<1>3. b \o a = Start(txt, n)
  BY <1>1, Joined
<1>4. Start(txt', c') \o Rest(txt', c', n') = Start(txt', n')
  BY <1>2, Joined
<1>5. b \in Seq(Signs) /\ Len(b) = c
  <2>1. c \in Nat /\ \A i \in 0..c - 1 : txt[i] \in Signs
    BY <1>1
  <2>2. QED BY <2>1, StartIsSeq
<1>6. ASSUME UNCHANGED <<txt, lenTxt>> PROVE Editor!Next
  BY <1>3, <1>4, <1>6 DEF Editor!Next, Editor!Move, Editor!Text, Start, Rest
<1>7. ASSUME NEW k \in Keys \ {"nextSigns"}, KEYBOARD_SetChar(k) PROVE Editor!Next
  <2>1. CASE k # "backspace"
    <3>1. k \in Letters /\ n < Size - 1 /\ (Insert(k) \/ AppendSign(k))
      BY <1>7, <2>1 DEF KEYBOARD_SetChar, Accepts, Keys
    <3>2. /\ Sign(k) \in Signs /\ n' = n + 1 /\ c' = c + 1
          /\ Start(txt', c + 1) = Append(b, Sign(k)) /\ Rest(txt', c + 1, n + 1) = a
      BY <3>1, SetsBeforeCaret
    <3>3. Len(b \o a) < Size - 1
      BY <1>1, <1>3, <3>1, StartIsSeq
    <3>4. Start(txt', c') = Append(b, Sign(k)) /\ Rest(txt', c', n') = a
      BY <3>2
    <3>5. QED BY <3>2, <3>3, <3>4 DEF Editor!Next, Editor!Type, Editor!Text, Start, Rest
  <2>2. CASE k = "backspace"
    <3>1. c > 0 /\ (Remove \/ RemoveLast)
      BY <1>1, <1>7, <2>2 DEF KEYBOARD_SetChar, Accepts
    <3>2. /\ n' = n - 1 /\ Start(txt', c - 1) = SubSeq(b, 1, c - 1)
          /\ Rest(txt', c - 1, n - 1) = a
      BY <3>1, ErasesBeforeCaret
    <3>3. b # <<>>
      BY <1>5, <3>1
    <3>4. SubSeq(b, 1, c - 1) \o a = Start(txt', n')
      <4>1. /\ n - 1 \in Nat /\ c - 1 \in 0..n - 1
            /\ \A i \in 0..(n - 1) - 1 : txt'[i] \in Signs
        BY <1>1, <1>2, <3>1, <3>2
      <4>2. Start(txt', c - 1) \o Rest(txt', c - 1, n - 1) = Start(txt', n - 1)
        BY <4>1, Joined
      <4>3. QED BY <3>2, <4>2
    <3>5. Start(txt', c') \o Rest(txt', c', n') = SubSeq(b, 1, Len(b) - 1) \o a
      BY <1>4, <1>5, <3>4
    <3>6. QED BY <3>3, <3>5 DEF Editor!Next, Editor!EraseLine, Editor!Text, Start, Rest
  <2>3. QED BY <2>1, <2>2
<1>8. CASE SCREEN_KeyboardSet
  <2>1. n' = Len(InitText) /\ InitText \in Seq(Signs)
    BY <1>8, KeyboardAssumption DEF SCREEN_KeyboardSet
  <2>2. \A i \in 1..n' : txt'[i - 1] = InitText[i]
    <3> TAKE i \in 1..n'
    <3>1. i - 1 \in Positions /\ i - 1 < Len(InitText) /\ (i - 1) + 1 = i
      BY <1>2, <2>1, KeyboardAssumption DEF Positions
    <3>2. txt'[i - 1] = InitText[(i - 1) + 1]
      BY <1>8, <3>1 DEF SCREEN_KeyboardSet
    <3>3. QED BY <3>1, <3>2
  <2>3. /\ Start(txt', n') \in Seq(Signs) /\ Len(Start(txt', n')) = n'
        /\ \A i \in 1..n' : Start(txt', n')[i] = txt'[i - 1]
    BY <1>2, StartIsSeq
  <2>4. Start(txt', n') = InitText
    BY <2>1, <2>2, <2>3, SeqEqual
  <2>5. QED BY <1>4, <2>4 DEF Editor!Next, Editor!Open, Editor!Text, Start, Rest
<1>9. ASSUME NEW k \in Keys, KeyPressed(k) PROVE Editor!Next
  BY <1>6, <1>7, <1>9 DEF KeyPressed, FirstPress, NextPress, NotTyped, text
<1>10. ASSUME NEW id \in Elements, KeyboardPressed(id) PROVE Editor!Next
  BY <1>6, <1>9, <1>10
     DEF KeyboardPressed, ShiftPressed, NotTyped, FieldPressed, BackPressed, OtherPressed, text
<1>11. QED
  BY <1>6, <1>8, <1>10
     DEF Next, vars, text, WifiPressed, OtherPressed, Released, WifiReleased, EndOfContact, Tick

\* The text the display shows is that of the abstract editor, at every step.
THEOREM Refines == Spec => EditsAtCaret
<1>1. Init => Editor!Init
  <2> SUFFICES ASSUME Init PROVE Editor!Init
    OBVIOUS
  <2>1. cursorTxtPos = 0 /\ lenTxt = 0
    BY DEF Init
  <2>2. /\ [i \in 1..cursorTxtPos |-> txt[i - 1]] = <<>>
        /\ [i \in 1..lenTxt - cursorTxtPos |-> txt[cursorTxtPos + i - 1]] = <<>>
    BY <2>1
  <2>3. QED BY <2>2 DEF Editor!Init
<1>2. QED
  BY <1>1, TextInit, TextStep, EditorStep, PTL
     DEF Spec, EditsAtCaret, Editor!Spec, Start, Rest

=============================================================================
