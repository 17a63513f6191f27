----------------------------- MODULE MCGapEdits -----------------------------
(* Every text of up to MaxInitial lines over two ids, one field and two      *)
(* lines of prose.                                                           *)
EXTENDS GapEdits

CONSTANT MaxInitial

MCTexts == UNION {[1 .. n -> TextLines] : n \in 1 .. MaxInitial}
=============================================================================
