------------------------------ MODULE GapEdits ------------------------------
(***************************************************************************)
(* A gaps.md that add_gap and remove_gap edit one after the other, whatever *)
(* people wrote into it: what the text helpers do to the list they encode. *)
(***************************************************************************)
EXTENDS GapsText, Integers

CONSTANTS
  Texts,    \* what the file may hold at first
  MaxLines  \* bound: no entry is added to a longer text

ASSUME GapEditsAssumption == Texts \subseteq Seq(TextLines) /\ <<>> \notin Texts

VARIABLE text

Init == text \in Texts

AddGap(g, v) ==
  /\ Len(text) <= MaxLines
  /\ ~Known(text, g)
  /\ text' = AppendEntry(text, FormatGapEntry(g, <<Field(v)>>))

RemoveGap(g) ==
  /\ Known(text, g)
  /\ text' = RemoveEntry(text, g)

Next == \E g \in GapIds : RemoveGap(g) \/ \E v \in Fields : AddGap(g, v)

Spec == Init /\ [][Next]_text

-----------------------------------------------------------------------------
(* The gap list that a text stands for, and what lies around it.           *)

\* The non-blank lines of t that are not inside.
Outside(t, inside) ==
  FoldLeftDomain(LAMBDA s, i : IF t[i] = Blank \/ i \in inside
                               THEN s ELSE Append(s, t[i]),
                 <<>>, t)

\* The non-blank lines that belong to no entry.
Around(t) ==
  LET p == Parse(t)
  IN Outside(t, UNION {p[k].start .. p[k].end - 1 : k \in DOMAIN p})

\* Where header i's entry ends: before the first line that is no field of it.
NextNonField(ls, i) ==
  CHOOSE j \in i + 1 .. Len(ls) + 1 :
    /\ j = Len(ls) + 1 \/ ls[j].is # "field"
    /\ \A k \in i + 1 .. j - 1 : ls[k].is = "field"

-----------------------------------------------------------------------------
(* Properties.                                                             *)

\* The loop of parse_gaps finds one entry per header line, in their order, with
\* the header's id and the fields that directly follow it (gaps.py:94-122).
ParseFindsEveryHeader ==
  LET ls == Lines(text)
      p == Parse(text)
  IN /\ {p[k].start : k \in DOMAIN p} = {i \in 1 .. Len(ls) : ls[i].is = "header"}
     /\ \A k \in DOMAIN p :
          /\ p[k].id = ls[p[k].start].id
          /\ p[k].end = NextNonField(ls, p[k].start)
          /\ \A j \in 1 .. k - 1 : p[j].start < p[k].start

\* Adding an unknown gap appends exactly it to the list, below a blank line, and
\* leaves the lines around the entries (gaps.py:149-160).
AppendAddsOne ==
  \A g \in GapIds, v \in Fields : ~Known(text, g) =>
    LET t == AppendEntry(text, FormatGapEntry(g, <<Field(v)>>))
        start == Last(Parse(t)).start
    IN /\ Gaps(t) = Append(Gaps(text), [id |-> g, fields |-> <<Field(v)>>])
       /\ start > 1 => t[start - 1] = Blank
       /\ Around(t) = Around(text)

\* Removing a gap drops the first entry with its id and nothing else: no other
\* entry gains or loses a field, and the lines around the entries stay
\* (gaps.py:163-181).
RemoveDropsOne ==
  \A g \in GapIds : Known(text, g) =>
    LET t == RemoveEntry(text, g)
    IN /\ Gaps(t) = RemoveAt(Gaps(text), Position(Gaps(text), g))
       /\ Around(t) = Around(text)
=============================================================================
