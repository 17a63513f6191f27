---------------------------- MODULE SingleWriter ----------------------------
(***************************************************************************)
(* What LabNotebookMutex promises (mutex.py:7-17): one call at a time is   *)
(* inside its critical section, and while it is, it is the named holder.   *)
(***************************************************************************)
CONSTANTS Calls, Tool, None

VARIABLES
  writer,  \* the call inside its critical section, or None
  named    \* the name status tooling is shown for it, or None

Init == writer = None /\ named = None

Enter(c) ==
  /\ writer = None
  /\ writer' = c
  /\ named' = Tool[c]

Leave ==
  /\ writer # None
  /\ writer' = None
  /\ named' = None

Next == Leave \/ \E c \in Calls : Enter(c)

Spec == Init /\ [][Next]_<<writer, named>>
=============================================================================
