------------------------------ MODULE GapList ------------------------------
(***************************************************************************)
(* What the gap tools promise: one list of gaps with distinct ids, that    *)
(* add_gap appends to at most once per id and remove_gap takes out of, each *)
(* in one step that also fixes its answer (tools.py:992-1000, 1073-1078).  *)
(***************************************************************************)
EXTENDS Naturals, Sequences, SequencesExt

CONSTANTS Calls, GapIds, Fields, None, InitialLists

VARIABLES
  gaps,   \* the open gaps, oldest first
  answer  \* what each call that took effect answers, or None

At(g) == SelectInSeq(gaps, LAMBDA e : e.id = g)

Init == gaps \in InitialLists /\ answer = [c \in Calls |-> None]

Say(c, is, n) ==
  /\ answer[c] = None
  /\ answer' = [answer EXCEPT ![c] = [is |-> is, position |-> n]]

AddNew(c, g, f) ==
  /\ Say(c, "added", Len(gaps) + 1)
  /\ At(g) = 0
  /\ gaps' = Append(gaps, [id |-> g, fields |-> f])

AddAgain(c, g) ==
  /\ Say(c, "already_present", At(g))
  /\ At(g) # 0
  /\ gaps' = gaps

RemoveKnown(c, g) ==
  /\ Say(c, "removed", 0)
  /\ At(g) # 0
  /\ gaps' = RemoveAt(gaps, At(g))

RemoveUnknown(c, g) ==
  /\ Say(c, "absent", 0)
  /\ At(g) = 0
  /\ gaps' = gaps

Next ==
  \E c \in Calls, g \in GapIds :
    \/ \E f \in Fields : AddNew(c, g, f)
    \/ AddAgain(c, g) \/ RemoveKnown(c, g) \/ RemoveUnknown(c, g)

Spec == Init /\ [][Next]_<<gaps, answer>>
=============================================================================
