----------------------------- MODULE TextEditor -----------------------------
(***************************************************************************)
(* What the on-screen keyboard promises: a text with a caret, of limited   *)
(* length, that changes by one sign at a time and only before the caret.   *)
(***************************************************************************)
EXTENDS Integers, Sequences

CONSTANTS
  Signs,     \* what a key can set
  Limit,     \* the length of the longest text
  Opening    \* the text a newly opened keyboard shows

VARIABLES
  before,    \* the text before the caret
  after      \* the text after it

Text == before \o after

\* The keyboard is opened with its text, the caret anywhere in it.
Open  == Text' = Opening
Type  == /\ Len(Text) < Limit
         /\ \E s \in Signs : before' = Append(before, s)
         /\ UNCHANGED after
Erase == /\ before # <<>>
         /\ before' = SubSeq(before, 1, Len(before) - 1) /\ UNCHANGED after
Move  == Text' = Text

\* The sign before the caret is erased and the caret moves, because the text has
\* become one line shorter.
EraseLine == /\ before # <<>>
             /\ Text' = SubSeq(before, 1, Len(before) - 1) \o after

Init == before = <<>> /\ after = <<>>
Next == Open \/ Type \/ Erase \/ Move \/ EraseLine
Spec == Init /\ [][Next]_<<before, after>>

=============================================================================
