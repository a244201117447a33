----------------------------- MODULE MCKeyboard -----------------------------
(* Keyboard for TLC, with a text of one sign at the opening.                 *)
EXTENDS Keyboard

OneSign == <<[key |-> CHOOSE k \in Letters : TRUE, page |-> 0]>>
=============================================================================
