--------------------------- MODULE GapEdits_proofs ---------------------------
(***************************************************************************)
(* What editing gaps.md does to the list it encodes, for every text that   *)
(* people wrote into it, every id and every field.                         *)
(***************************************************************************)
EXTENDS GapEdits, GapsText_proofs

IsText == text \in FileTexts

\* The file always holds a text.
LEMMA TextStaysText == Spec => []IsText
<1>1. Init => IsText
  BY GapEditsAssumption DEF Init, FileTexts, IsText
<1>2. IsText /\ [Next]_text => IsText'
  <2> SUFFICES ASSUME text \in FileTexts, [Next]_text PROVE text' \in FileTexts
    BY DEF IsText
  <2>1. ASSUME NEW g \in GapIds, NEW v \in Fields, AddGap(g, v) PROVE text' \in FileTexts
    <3>1. <<Field(v)>> \in Seq(FieldTexts)
      BY DEF FieldTexts, TextLines, Field
    <3> QED
      BY <2>1, <3>1, AppendEntryIs DEF AddGap
  <2>2. ASSUME NEW g \in GapIds, RemoveGap(g) PROVE text' \in FileTexts
    BY <2>2, RemoveEntryIs DEF RemoveGap
  <2>3. CASE UNCHANGED text
    BY <2>3
  <2> QED
    BY <2>1, <2>2, <2>3 DEF Next
<1> QED
  BY <1>1, <1>2, PTL DEF Spec

-----------------------------------------------------------------------------
(* The loop of parse_gaps.                                                 *)

\* There is one line where the fields after a header end.
LEMMA NextNonFieldIs ==
  ASSUME NEW ls \in Seq(TextLines), NEW i \in 1 .. Len(ls), NEW j \in i + 1 .. Len(ls) + 1,
         j = Len(ls) + 1 \/ ls[j].is # "field",
         \A k \in i + 1 .. j - 1 : ls[k].is = "field"
  PROVE  NextNonField(ls, i) = j
<1> DEFINE n == Len(ls)
           Ends(m) == /\ m = n + 1 \/ ls[m].is # "field"
                      /\ \A k \in i + 1 .. m - 1 : ls[k].is = "field"
<1>1. n \in Nat
  OBVIOUS
<1>2. ASSUME NEW m \in i + 1 .. n + 1, Ends(m) PROVE m = j
  <2>1. CASE m < j
    <3>1. m \in i + 1 .. j - 1 /\ m # n + 1
      BY <1>1, <2>1
    <3> QED
      BY <1>2, <3>1
  <2>2. CASE j < m
    <3>1. j \in i + 1 .. m - 1 /\ j # n + 1
      BY <1>1, <2>2
    <3> QED
      BY <1>2, <3>1
  <2> QED
    BY <1>1, <2>1, <2>2
<1> QED
  BY <1>2 DEF NextNonField

\* The entries of any text are its header lines, in order, with their fields.
LEMMA EveryHeaderIsFound ==
  ASSUME NEW t \in FileTexts
  PROVE  LET ls == Lines(t)
             p == Parse(t)
         IN /\ {p[k].start : k \in DOMAIN p} = {i \in 1 .. Len(ls) : ls[i].is = "header"}
            /\ \A k \in DOMAIN p :
                 /\ p[k].id = ls[p[k].start].id
                 /\ p[k].end = NextNonField(ls, p[k].start)
                 /\ \A j \in 1 .. k - 1 : p[j].start < p[k].start
<1> DEFINE ls == Lines(t)  p == Parse(t)  n == Len(ls)
<1>1. ls \in Seq(TextLines) /\ p = Entries(ls) /\ DOMAIN ls = 1 .. n
  BY LinesType, ParseIs
<1> HIDE DEF ls, p
<1>2. /\ {p[k].start : k \in DOMAIN p} = HeaderLines(ls)
      /\ \A k \in DOMAIN p :
           /\ ls[p[k].start].id = p[k].id
           /\ \A i \in p[k].start + 1 .. p[k].end - 1 : ls[i].is = "field"
           /\ p[k].end <= n => ls[p[k].end].is # "field"
      /\ \A j, k \in DOMAIN p : j < k => p[j].end <= p[k].start
  BY <1>1, SpansAreRight DEF SpansOK
<1>3. HeaderLines(ls) = {i \in 1 .. n : ls[i].is = "header"}
  BY <1>1 DEF HeaderLines
<1>4. \A k \in DOMAIN p :
        /\ p[k].start \in Nat /\ p[k].end \in Nat /\ k \in Nat /\ n \in Nat /\ k >= 1
        /\ 1 <= p[k].start /\ p[k].start <= n /\ p[k].start + 1 <= p[k].end /\ p[k].end <= n + 1
  BY <1>1, EntryBounds
<1>5. DOMAIN p = 1 .. Len(p)
  BY <1>1, EntriesType
<1>6. ASSUME NEW k \in DOMAIN p PROVE p[k].end = NextNonField(ls, p[k].start)
  <2> DEFINE a == p[k].start  b == p[k].end
  <2>1. /\ a \in 1 .. n /\ b \in a + 1 .. n + 1
        /\ b = n + 1 \/ b <= n
    BY <1>4
  <2>2. /\ \A i \in a + 1 .. b - 1 : ls[i].is = "field"
        /\ b <= n => ls[b].is # "field"
    BY <1>2
  <2> HIDE DEF a, b
  <2>3. NextNonField(ls, a) = b
    BY <1>1, <2>1, <2>2, NextNonFieldIs
  <2> QED
    BY <2>3 DEF a, b
<1>7. ASSUME NEW k \in DOMAIN p, NEW j \in 1 .. k - 1 PROVE p[j].start < p[k].start
  <2>1. j \in DOMAIN p /\ j < k
    BY <1>4, <1>5
  <2> DEFINE a == p[j].start  b == p[j].end  c == p[k].start
  <2>2. a \in Nat /\ b \in Nat /\ c \in Nat /\ a + 1 <= b /\ b <= c
    BY <1>2, <1>4, <2>1
  <2> HIDE DEF a, b, c
  <2>3. a < c
    BY <2>2
  <2> QED
    BY <2>3 DEF a, c
<1> QED
  BY <1>2, <1>3, <1>6, <1>7 DEF ls, p

\* The loop of parse_gaps finds one entry per header line, in their order, with
\* the header's id and the fields that directly follow it (gaps.py:94-122).
THEOREM EveryHeaderIsAlwaysFound == Spec => []ParseFindsEveryHeader
<1>1. IsText => ParseFindsEveryHeader
  BY EveryHeaderIsFound DEF ParseFindsEveryHeader, IsText
<1> QED
  BY <1>1, TextStaysText, PTL

-----------------------------------------------------------------------------
(* The edits.                                                              *)

\* What lies around the entries is the rest of the lines.
LEMMA AroundIsRest == ASSUME NEW t \in FileTexts PROVE Around(t) = Rest(t)
<1>1. Parse(t) = Entries(t)
  <2>1. /\ Lines(t) \in Seq(TextLines) /\ Parse(t) = Entries(Lines(t))
        /\ t = Lines(t) \/ t = Append(Lines(t), Blank)
    BY LinesType, ParseIs
  <2>2. Entries(Append(Lines(t), Blank)) = Entries(Lines(t))
    BY <2>1, LineKinds, EntriesOfAppend
  <2> QED
    BY <2>1, <2>2
<1>2. Around(t) = Outside(t, Inside(t))
  BY <1>1 DEF Around, Inside
<1>3. Outside(t, Inside(t)) = Rest(t)
  BY DEF Outside, Rest, KeepOutside, FoldLeftDomain, FoldLeft, MapThenFoldSet
<1> QED
  BY <1>2, <1>3

\* The last entry of what append_gap_entry_to_text answers is below a blank line.
LEMMA AppendedBelowBlank ==
  ASSUME NEW t \in FileTexts, NEW g \in GapIds, NEW v \in Fields
  PROVE  LET r == AppendEntry(t, FormatGapEntry(g, <<Field(v)>>))
             start == Last(Parse(r)).start
         IN start > 1 => r[start - 1] = Blank
<1> DEFINE p == Front(EnsureBlankLine(EnsureNewline(t)))
           fs == <<Field(v)>>
           e == FormatGapEntry(g, fs)
           ls == p \o e
           r == Append(ls, Blank)
           m == Len(p)
           es == Entries(ls)
<1>1. p \in Seq(TextLines) /\ (p # <<>> => p[m] = Blank) /\ m \in Nat
  BY PaddedLines
<1>2. /\ e \in Seq(TextLines) /\ Len(e) = 2 /\ e[1].is = "header" /\ e[2].is = "field"
  <2>1. Header(g) \in TextLines /\ Field(v) \in TextLines
    BY DEF TextLines
  <2> DEFINE h == <<Header(g)>>
  <2>2. /\ h \in Seq(TextLines) /\ Len(h) = 1 /\ h[1] = Header(g)
        /\ fs \in Seq(TextLines) /\ Len(fs) = 1 /\ fs[1] = Field(v)
    BY <2>1
  <2>3. e = h \o fs
    BY DEF FormatGapEntry
  <2> HIDE DEF e, h, fs
  <2>4. e \in Seq(TextLines) /\ Len(e) = 2 /\ e[1] = Header(g) /\ e[1 + 1] = Field(v)
    BY SMTT(30), <2>2, <2>3, ConcatType
  <2> QED
    BY <2>4 DEF Header, Field
<1>3. AppendEntry(t, e) = r
  <2>1. AppendEntry(t, e) = p \o e \o <<Blank>>
    BY DEF AppendEntry
  <2> HIDE DEF p, e
  <2>2. p \o e \in Seq(TextLines) /\ Blank \in TextLines
    BY <1>1, <1>2, LineKinds
  <2> QED
    BY <2>1, <2>2
<1> HIDE DEF p, e
<1>4. /\ ls \in Seq(TextLines) /\ Len(ls) = m + 2
      /\ \A i \in 1 .. m : ls[i] = p[i]
      /\ ls[m + 1].is = "header" /\ ls[m + 2].is = "field"
  <2>1. p \in Seq(TextLines) /\ e \in Seq(TextLines)
    BY <1>1, <1>2
  <2>2. /\ ls \in Seq(TextLines) /\ Len(ls) = m + Len(e)
        /\ \A i \in 1 .. m : ls[i] = p[i]
        /\ \A i \in 1 .. Len(e) : ls[m + i] = e[i]
    BY <2>1, ConcatType
  <2> HIDE DEF ls, m
  <2>3. ls[m + 1] = e[1] /\ ls[m + 2] = e[2]
    BY <1>2, <2>2
  <2> QED
    BY <1>2, <2>2, <2>3
<1> HIDE DEF ls
<1>5. /\ r \in FileTexts /\ Lines(r) = ls
      /\ \A i \in 1 .. m : r[i] = p[i]
  <2>1. r \in FileTexts /\ Lines(r) = ls
    BY <1>4, LinesOfAppend
  <2>2. \A i \in 1 .. Len(ls) : r[i] = ls[i]
    BY <1>4, LineKinds, AppendIs
  <2>3. \A i \in 1 .. m : i \in 1 .. Len(ls)
    BY <1>1, <1>4
  <2> QED
    BY <1>4, <2>1, <2>2, <2>3
<1>6. Parse(r) = es
  BY <1>5, ParseIs
<1> HIDE DEF r
<1>7. es \in Seq(Span) /\ DOMAIN es = 1 .. Len(es) /\ Len(es) \in Nat
  BY <1>4, EntriesType
<1>8. /\ {es[k].start : k \in DOMAIN es} = HeaderLines(ls)
      /\ \A j, k \in DOMAIN es : j < k => es[j].end <= es[k].start
  BY <1>4, SpansAreRight DEF SpansOK
<1>9. \A k \in DOMAIN es :
        /\ es[k].start \in Nat /\ es[k].end \in Nat /\ es[k].start + 1 <= es[k].end
        /\ es[k].start \in HeaderLines(ls)
  BY <1>4, <1>8, EntryBounds
<1>10. \A i \in HeaderLines(ls) : i \in Nat /\ 1 <= i /\ i <= m + 1
  <2> TAKE i \in HeaderLines(ls)
  <2>1. i \in 1 .. m + 2 /\ ls[i].is = "header"
    BY <1>4 DEF HeaderLines
  <2>2. i # m + 2
    BY <1>4, <2>1
  <2> QED
    BY <1>1, <2>1, <2>2
<1>11. m + 1 \in HeaderLines(ls)
  BY <1>1, <1>4 DEF HeaderLines
<1>12. PICK k \in DOMAIN es : es[k].start = m + 1
  BY <1>8, <1>11
<1> DEFINE n == Len(es)  a == es[k].start  b == es[k].end  c == es[n].start
<1>13. n \in DOMAIN es /\ k \in Nat /\ (k = n \/ k < n)
  BY <1>7, <1>12
<1>14. c = m + 1
  <2>1. /\ a \in Nat /\ b \in Nat /\ c \in Nat /\ a = m + 1 /\ a + 1 <= b /\ c <= m + 1
        /\ k < n => b <= c
    BY <1>8, <1>9, <1>10, <1>12, <1>13
  <2>2. k = n => c = a
    OBVIOUS
  <2> HIDE DEF a, b, c, n
  <2> QED
    BY <1>1, <1>13, <2>1, <2>2
<1>15. Last(Parse(r)).start = m + 1
  BY <1>6, <1>14 DEF Last
<1>16. m + 1 > 1 => r[m] = Blank
  <2>1. m + 1 > 1 => m \in 1 .. m /\ p # <<>>
    BY <1>1
  <2> QED
    BY <1>1, <1>5, <2>1
<1>17. m + 1 - 1 = m
  BY <1>1
<1> DEFINE start == Last(Parse(r)).start
<1>18. start = m + 1
  BY <1>15
<1> HIDE DEF start
<1>19. start > 1 => r[start - 1] = Blank
  BY <1>16, <1>17, <1>18
<1>20. start > 1 => AppendEntry(t, e)[start - 1] = Blank
  BY <1>3, <1>19
<1>21. start = Last(Parse(AppendEntry(t, e))).start
  BY <1>3 DEF start
<1> QED
  BY <1>20, <1>21 DEF e

\* Adding an unknown gap appends exactly it to the list, below a blank line, and
\* leaves the lines around the entries (gaps.py:149-160).
THEOREM AddingAddsOne == Spec => []AppendAddsOne
<1>1. IsText => AppendAddsOne
  <2> SUFFICES ASSUME text \in FileTexts, NEW g \in GapIds, NEW v \in Fields
               PROVE  LET t == AppendEntry(text, FormatGapEntry(g, <<Field(v)>>))
                          start == Last(Parse(t)).start
                      IN /\ Gaps(t) = Append(Gaps(text), [id |-> g, fields |-> <<Field(v)>>])
                         /\ start > 1 => t[start - 1] = Blank
                         /\ Around(t) = Around(text)
    BY DEF AppendAddsOne, IsText
  <2> DEFINE t == AppendEntry(text, FormatGapEntry(g, <<Field(v)>>))
  <2>1. <<Field(v)>> \in Seq(FieldTexts)
    BY DEF FieldTexts, TextLines, Field
  <2>2. /\ t \in FileTexts
        /\ Gaps(t) = Append(Gaps(text), [id |-> g, fields |-> <<Field(v)>>])
        /\ Rest(t) = Rest(text)
    BY <2>1, AppendEntryIs
  <2>3. Last(Parse(t)).start > 1 => t[Last(Parse(t)).start - 1] = Blank
    BY AppendedBelowBlank
  <2> HIDE DEF t
  <2>4. Around(t) = Around(text)
    BY <2>2, AroundIsRest
  <2> QED
    BY <2>2, <2>3, <2>4 DEF t
<1> QED
  BY <1>1, TextStaysText, PTL

\* Removing a gap drops the first entry with its id and nothing else: no other
\* entry gains or loses a field, and the lines around the entries stay
\* (gaps.py:163-181).
THEOREM RemovingDropsOne == Spec => []RemoveDropsOne
<1>1. IsText => RemoveDropsOne
  <2> SUFFICES ASSUME text \in FileTexts, NEW g \in GapIds, Known(text, g)
               PROVE  LET t == RemoveEntry(text, g)
                      IN /\ Gaps(t) = RemoveAt(Gaps(text), Position(Gaps(text), g))
                         /\ Around(t) = Around(text)
    BY DEF RemoveDropsOne, IsText
  <2> DEFINE t == RemoveEntry(text, g)
  <2>1. /\ t \in FileTexts
        /\ Gaps(t) = RemoveAt(Gaps(text), Position(Gaps(text), g))
        /\ Rest(t) = Rest(text)
    BY RemoveEntryIs
  <2> HIDE DEF t
  <2>2. Around(t) = Around(text)
    BY <2>1, AroundIsRest
  <2> QED
    BY <2>1, <2>2 DEF t
<1> QED
  BY <1>1, TextStaysText, PTL
=============================================================================
