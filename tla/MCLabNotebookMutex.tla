------------------------- MODULE MCLabNotebookMutex -------------------------
(* Three writers, two of them of one tool, and two status calls.            *)
EXTENDS LabNotebookMutex

CONSTANTS a, b, e, r, s  \* calls and polls

MCTool == [x \in {a, b, e} |-> IF x = e THEN "remove_gap" ELSE "add_gap"]
=============================================================================
