------------------------------ MODULE GapsText ------------------------------
(***************************************************************************)
(* The text of gaps.md and the pure helpers of storage/gaps.py.  A text is *)
(* the sequence of what lies between its newlines, so it ends in Blank     *)
(* when it ends with a newline, and the empty text is <<Blank>>.           *)
(***************************************************************************)
EXTENDS Naturals, Sequences, SequencesExt

CONSTANTS
  GapIds,   \* hashes of queries
  Fields,   \* the `  - key: value` lines
  Prose,    \* any other line that is not blank
  None

Blank     == [is |-> "blank"]
Header(g) == [is |-> "header", id |-> g]
Field(v)  == [is |-> "field", value |-> v]
Other(x)  == [is |-> "other", text |-> x]

TextLines == {Blank} \cup {Header(g) : g \in GapIds}
               \cup {Field(v) : v \in Fields} \cup {Other(x) : x \in Prose}

EmptyText == <<Blank>>

EndsWithNewline(t) == Len(t) > 1 /\ Last(t) = Blank

\* What parse_gaps keeps of an entry: its id and the lines it spans.
Span == [id : GapIds, start : Nat, end : Nat]

ASSUME GapsTextAssumption == None \notin Span

\* str.splitlines()
Lines(t) == IF Last(t) = Blank THEN Front(t) ELSE t

EndOneLate(ls, i, e) == IF e <= Len(ls) THEN e + 1 ELSE e

EndsAt(ls, i, e) == e

\* The loop of parse_gaps: `current` is the entry it is in the middle of.
Closed(s, ls, i) ==
  IF s.current = None THEN s.out
  ELSE Append(s.out, [s.current EXCEPT !.end = EndsAt(ls, @, i)])

ParseLine(s, ls, i) ==
  IF ls[i].is = "header"
  THEN [out |-> Closed(s, ls, i),
        current |-> [id |-> ls[i].id, start |-> i, end |-> i]]
  ELSE IF ls[i].is = "field" THEN s
  ELSE [out |-> Closed(s, ls, i), current |-> None]

\* parse_gaps: the entries of t, each with the lines it spans.
Parse(t) ==
  LET ls == Lines(t)
  IN Closed(FoldLeftDomain(LAMBDA s, i : ParseLine(s, ls, i),
                           [out |-> <<>>, current |-> None], ls),
            ls, Len(ls) + 1)

\* to_entry: what list_gaps answers for an entry.
Entry(t, g) == [id |-> g.id, fields |-> SubSeq(t, g.start + 1, g.end - 1)]

Gaps(t) == LET p == Parse(t) IN [k \in DOMAIN p |-> Entry(t, p[k])]

Position(es, g) == SelectInSeq(es, LAMBDA e : e.id = g)

Known(t, g) == Position(Parse(t), g) # 0

FormatGapEntry(g, fields) == <<Header(g)>> \o fields

\* append_gap_entry_to_text: one blank line before the entry.
EnsureNewline(t) ==
  IF t # EmptyText /\ ~EndsWithNewline(t) THEN Append(t, Blank) ELSE t

NoBlankLine(t) == t

EnsureBlankLine(t) ==
  IF t = EmptyText \/ (Len(t) > 2 /\ t[Len(t)] = Blank /\ t[Len(t) - 1] = Blank)
  THEN t ELSE Append(t, Blank)

AppendEntry(t, entry) ==
  Front(EnsureBlankLine(EnsureNewline(t))) \o entry \o <<Blank>>

WithoutHeaderOnly(ls, g) ==
  SubSeq(ls, 1, g.start - 1) \o SubSeq(ls, g.start + 1, Len(ls))

\* remove_gap_entry_from_text, step by step: drop the lines ...
Without(ls, g) == SubSeq(ls, 1, g.start - 1) \o SubSeq(ls, g.end, Len(ls))

\* ... collapse every "\n\n\n" ...
Collapse(t) ==
  FoldLeftDomain(LAMBDA s, i : IF i \in 3 .. Len(t) - 1
                                  /\ t[i] = Blank /\ t[i - 1] = Blank
                               THEN s ELSE Append(s, t[i]),
                 <<>>, t)

\* ... and end with a newline.
Joined(ls) == IF ls = <<>> THEN EmptyText ELSE ls

RemoveEntry(t, g) ==
  LET p == Parse(t)
      c == Collapse(Joined(Without(Lines(t), p[Position(p, g)])))
  IN IF EndsWithNewline(c) THEN c ELSE Append(c, Blank)
=============================================================================
