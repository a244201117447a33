----------------------------- MODULE MCFontPool -----------------------------
(* FontPool for TLC: the fonts are interchangeable.                          *)
EXTENDS FontPool, TLC

SameFonts == Permutations(Fonts)
=============================================================================
