----------------------------- MODULE Gaps_proofs -----------------------------
(***************************************************************************)
(* Who writes gaps.md, and what the gap tools make of the list, for any    *)
(* calls, texts, ids and fields.                                           *)
(***************************************************************************)
EXTENDS Gaps, GapsText_proofs

Labels == {"idle", "queued", "check", "truncate", "fill", "done", "lost"}
Writing == {"truncate", "fill"}
Editors == {"add_gap", "remove_gap"}

WriterType ==
  /\ pc \in [Calls -> Labels]
  /\ req \in [Calls -> AllRequests \cup {None}]
  /\ lock \in Calls \cup {None}
  /\ \A c \in Calls : pc[c] # "idle" => req[c] \in Requests

\* The mutex belongs to the one gap tool that writes; bootstrap writes without.
OwnerOf(c) ==
  /\ lock = c <=> pc[c] \in Writing /\ req[c].op \in Editors
  /\ pc[c] \in Writing \cup {"check"} => req[c].op \in Editors \cup {"bootstrap"}
  /\ pc[c] = "check" => req[c].op = "bootstrap"

WriterInv == WriterType /\ \A c \in Calls : OwnerOf(c)

\* Nobody writes at first.
LEMMA InitWriter == Init => WriterInv
BY GapsAssumption DEF Init, WriterInv, WriterType, OwnerOf, Labels, Writing, Editors

\* The step of any call and any fault gives the mutex to the tool that writes.
LEMMA NextWriter == WriterInv /\ [Next]_vars => WriterInv'
<1> SUFFICES ASSUME WriterInv, [Next]_vars PROVE WriterInv'
  OBVIOUS
<1> USE DEF WriterInv, WriterType, OwnerOf, Labels, Writing, Editors
<1>1. Requests \subseteq AllRequests /\ None \notin Calls
  BY GapsAssumption
<1>2. ASSUME NEW c \in Calls, NEW r \in Requests, Start(c, r) PROVE WriterInv'
  BY <1>1, <1>2 DEF Start, Goto
<1>3. ASSUME NEW c \in Calls, ListGaps(c) \/ AddAgain(c) \/ RemoveUnknown(c)
      PROVE  WriterInv'
  BY <1>1, <1>3 DEF ListGaps, AddAgain, RemoveUnknown, ThenReturn, Queued, Goto
<1>4. ASSUME NEW c \in Calls, AddNew(c) \/ RemoveKnown(c) PROVE WriterInv'
  <2>1. /\ pc[c] = "queued" /\ lock = None /\ req[c].op \in Editors
        /\ lock' = c /\ pc' = [pc EXCEPT ![c] = "truncate"] /\ req' = req
    BY <1>4 DEF AddNew, RemoveKnown, Queued, MutexFree, ThenWrite, Goto
  <2> QED
    BY <1>1, <2>1
<1>5. ASSUME NEW c \in Calls, MakeDirs(c) \/ CheckFile(c) PROVE WriterInv'
  <2>1. /\ req' = req /\ lock' = lock
        /\ \/ pc[c] = "queued" /\ req[c].op = "bootstrap" /\ pc' = [pc EXCEPT ![c] = "check"]
           \/ pc[c] = "check" /\ \/ pc' = [pc EXCEPT ![c] = "truncate"]
                                 \/ pc' = [pc EXCEPT ![c] = "done"]
    BY <1>5 DEF MakeDirs, CheckFile, Goto
  <2> QED
    BY <1>1, <2>1
<1>6. ASSUME NEW c \in Calls, Truncate(c) PROVE WriterInv'
  BY <1>1, <1>6 DEF Truncate, Goto
<1>7. ASSUME NEW c \in Calls, Fill(c) \/ OpenFails(c) \/ WriteFails(c) PROVE WriterInv'
  <2>1. /\ req' = req /\ Release(c) /\ pc' = [pc EXCEPT ![c] = "done"]
    BY <1>7 DEF Fill, OpenFails, WriteFails, FailedAt, Goto
  <2>2. pc[c] \notin {"idle", "check"}
    BY <1>7 DEF Fill, OpenFails, WriteFails
  <2> QED
    BY <1>1, <2>1, <2>2 DEF Release
<1>8. CASE Crash
  BY <1>1, <1>8 DEF Crash
<1>9. CASE UNCHANGED vars
  BY <1>9 DEF vars
<1> QED
  BY <1>2, <1>3, <1>4, <1>5, <1>6, <1>7, <1>8, <1>9 DEF Next, CallStep

\* A gap tool that fails or dies gives the mutex back (mutex.py:70-75).
THEOREM MutexIsAlwaysGivenBack == Spec => []MutexIsGivenBack
<1>1. WriterInv => MutexIsGivenBack
  BY DEF WriterInv, WriterType, OwnerOf, Writing, MutexIsGivenBack
<1> QED
  BY <1>1, InitWriter, NextWriter, PTL DEF Spec

Editing(c) == pc[c] \in Writing /\ req[c].op \in Editors

\* Two gap tools never write gaps.md at once, however they fail: only bootstrap
\* can get between them (tools.py:1032, 1090, 155-161).
THEOREM OneEditorAtATime ==
  Spec => [](\A c, d \in Calls : Editing(c) /\ Editing(d) => c = d)
<1>1. WriterInv => \A c, d \in Calls : Editing(c) /\ Editing(d) => c = d
  BY DEF WriterInv, OwnerOf, Editing
<1> QED
  BY <1>1, InitWriter, NextWriter, PTL DEF Spec

-----------------------------------------------------------------------------
(* Type correctness.                                                       *)

Outcomes ==
  {"none", "ok", "not_initialized", "missing_argument", "listed", "added",
   "already_present", "removed", "absent", "tool_error", "forbidden"}

Replies == [is : Outcomes, position : Nat, gaps : Seq(Record)]

GapsType ==
  /\ WriterInv
  /\ exists \in BOOLEAN
  /\ file \in FileTexts \cup {NoFile}
  /\ work \in [Calls -> FileTexts]
  /\ result \in [Calls -> Replies]
  /\ window \in [Calls -> SUBSET Seq(Record)]
  /\ faults \in 0 .. MaxFaults
  /\ \A c \in Calls : pc[c] = "fill" => file # NoFile

\* The texts that the constants name.
LEMMA KnownTexts ==
  /\ FirstTexts \subseteq FileTexts \cup {NoFile}
  /\ Placeholder \in FileTexts /\ EmptyText \in FileTexts /\ NoFile \notin FileTexts
  /\ Gaps(EmptyText) = <<>>
<1>1. FirstTexts \subseteq FileTexts \cup {NoFile} /\ Placeholder \in FileTexts /\ NoFile \notin FileTexts
  BY GapsAssumption DEF FileTexts
<1>2. EmptyText \in FileTexts
  <2>1. Blank \in TextLines
    BY LineKinds
  <2> QED
    BY <2>1 DEF EmptyText, FileTexts
<1>3. NoHeader(EmptyText)
  BY LineKinds DEF NoHeader, EmptyText
<1> QED
  BY <1>1, <1>2, <1>3, NothingListedIsNoHeader

\* What a write leaves of the text it goes over.
LEMMA OverIs ==
  ASSUME NEW new \in FileTexts, NEW old \in FileTexts
  PROVE  LET r == Over(new, old)
         IN /\ r \in FileTexts /\ Len(r) \in Nat /\ Len(new) \in Nat /\ Len(new) <= Len(r)
            /\ \A i \in 1 .. Len(new) : r[i] = new[i]
            /\ \A i \in Len(new) + 1 .. Len(r) : i \in 1 .. Len(old) /\ r[i] = old[i]
            /\ Len(old) = 1 => r = new
<1> DEFINE m == Len(new)  n == Len(old)  j == m + 1  b == SubSeq(old, j, n)  r == new \o b
<1>1. /\ new \in Seq(TextLines) /\ old \in Seq(TextLines) /\ m \in Nat /\ n \in Nat /\ m >= 1
      /\ j = m + 1 /\ j \in Int /\ n \in Int /\ new # <<>>
  BY DEF FileTexts
<1>2. Over(new, old) = r
  BY DEF Over
<1>3. /\ b \in Seq(TextLines) /\ Len(b) = IF j <= n THEN n - j + 1 ELSE 0
      /\ \A i \in 1 .. n - j + 1 : b[i] = old[j + i - 1]
  <2>1. \A i \in j .. n : old[i] \in TextLines
    BY <1>1
  <2> QED
    BY <1>1, <2>1, SubSeqProperties
<1> HIDE DEF b
<1>4. /\ r \in Seq(TextLines) /\ Len(r) = m + Len(b)
      /\ \A i \in 1 .. m : r[i] = new[i]
      /\ \A i \in 1 .. Len(b) : r[m + i] = b[i]
      /\ new \o <<>> = new
  <2>1. new \in Seq(TextLines) /\ b \in Seq(TextLines)
    BY <1>1, <1>3
  <2> QED
    BY <2>1, ConcatType
<1> HIDE DEF r, m, n, j
<1>5. Len(r) \in Nat /\ m <= Len(r) /\ r # <<>> /\ (Len(r) > m => j <= n /\ Len(r) = n)
  <2> DEFINE x == Len(r)  y == Len(b)
  <2>1. x = m + y /\ y = IF j <= n THEN n - j + 1 ELSE 0
    BY <1>3, <1>4
  <2> HIDE DEF x, y
  <2>2. x \in Nat /\ m <= x /\ x # 0 /\ (x > m => j <= n /\ x = n)
    BY <1>1, <2>1
  <2> QED
    BY <1>4, <2>2 DEF x
<1>6. ASSUME NEW i \in m + 1 .. Len(r) PROVE i \in 1 .. n /\ r[i] = old[i]
  <2> DEFINE l == i - m
  <2>1. Len(r) > m /\ j <= n /\ Len(r) = n
    BY <1>1, <1>5
  <2>2. /\ i = m + l /\ l \in 1 .. n - j + 1 /\ j + l - 1 = i /\ i \in 1 .. n
    BY <1>1, <2>1
  <2> HIDE DEF l
  <2>3. r[i] = b[l] /\ b[l] = old[j + l - 1]
    BY <1>3, <1>4, <2>1, <2>2
  <2> QED
    BY <2>2, <2>3
<1>7. n = 1 => r = new
  <2>1. n = 1 => Len(b) = 0
    BY <1>1, <1>3
  <2>2. Len(b) = 0 => b = <<>>
    BY <1>3
  <2> QED
    BY <1>4, <2>1, <2>2 DEF r
<1>8. r \in FileTexts
  BY <1>4, <1>5 DEF FileTexts
<1> QED
  BY <1>1, <1>2, <1>4, <1>5, <1>6, <1>7, <1>8 DEF m, n

\* The arguments of a request.
LEMMA RequestType ==
  ASSUME NEW r \in AllRequests
  PROVE  /\ r.op \in {"add_gap", "remove_gap", "list_gaps", "bootstrap", "invalid"}
         /\ r.op = "add_gap" =>
              r.id \in GapIds /\ r.fields \in FieldLines /\ r.fields \in Seq(FieldTexts)
         /\ r.op = "remove_gap" => r.id \in GapIds /\ r = [op |-> "remove_gap", id |-> r.id]
<1>1. \A v \in Fields : Field(v) \in FieldTexts
  BY DEF FieldTexts, TextLines, Field
<1>2. FieldLines \subseteq Seq(FieldTexts)
  <2> SUFFICES ASSUME NEW v \in Fields PROVE <<Field(v)>> \in Seq(FieldTexts)
    BY DEF FieldLines
  <2>1. Field(v) \in FieldTexts
    BY <1>1
  <2> QED
    BY <2>1
<1>3. CASE r \in [op : {"add_gap"}, id : GapIds, fields : FieldLines]
  BY <1>2, <1>3
<1>4. CASE r \in [op : {"remove_gap"}, id : GapIds]
  BY <1>4
<1>5. CASE r \in [op : {"list_gaps", "bootstrap", "invalid"}]
  BY <1>5
<1> QED
  BY <1>3, <1>4, <1>5 DEF AllRequests

\* What the edits write, and what they make of the list.
LEMMA EditIs ==
  ASSUME NEW t \in FileTexts, NEW r \in AllRequests
  PROVE  /\ r.op = "add_gap" =>
              LET w == AppendEntry(t, EntryOf(r))
              IN w \in FileTexts /\ Gaps(w) = Append(Gaps(t), [id |-> r.id, fields |-> r.fields])
         /\ r.op = "remove_gap" /\ Known(t, r.id) =>
              LET w == RemoveEntry(t, r.id)
              IN w \in FileTexts /\ Gaps(w) = RemoveAt(Gaps(t), Position(Gaps(t), r.id))
<1>1. ASSUME r.op = "add_gap"
      PROVE  LET w == AppendEntry(t, EntryOf(r))
             IN w \in FileTexts /\ Gaps(w) = Append(Gaps(t), [id |-> r.id, fields |-> r.fields])
  <2>1. r.id \in GapIds /\ r.fields \in Seq(FieldTexts)
    BY <1>1, RequestType
  <2> QED
    BY <2>1, AppendEntryIs DEF EntryOf
<1>2. ASSUME r.op = "remove_gap", Known(t, r.id)
      PROVE  LET w == RemoveEntry(t, r.id)
             IN w \in FileTexts /\ Gaps(w) = RemoveAt(Gaps(t), Position(Gaps(t), r.id))
  BY <1>2, RemoveEntryIs
<1> QED
  BY <1>1, <1>2

\* The list of a text, and where an id is in it.
LEMMA ListOfText ==
  ASSUME NEW t \in FileTexts
  PROVE  Gaps(t) \in Seq(Record) /\ Len(Gaps(t)) \in Nat /\ \A g : Position(Gaps(t), g) \in Nat
<1>1. Gaps(t) \in Seq(Record)
  BY GapsAreLists
<1>2. Len(Gaps(t)) \in Nat
  BY <1>1
<1> QED
  BY <1>1, <1>2, KnownIsListed

\* What a call answers is of its type.
LEMMA AnswerType ==
  ASSUME result \in [Calls -> Replies], NEW c \in Calls, NEW is \in Outcomes, NEW n \in Nat,
         NEW gs \in Seq(Record), Answer(c, is, n, gs)
  PROVE  result' \in [Calls -> Replies]
BY DEF Answer, Replies

\* Nobody writes at first, and every text is one.
LEMMA InitType == Init => GapsType
<1> SUFFICES ASSUME Init PROVE GapsType
  OBVIOUS
<1>1. WriterInv
  BY InitWriter
<1>2. file \in FileTexts \cup {NoFile} /\ work \in [Calls -> FileTexts]
  BY KnownTexts DEF Init
<1>3. result \in [Calls -> Replies] /\ window \in [Calls -> SUBSET Seq(Record)]
  <2>1. <<>> \in Seq(Record)
    OBVIOUS
  <2> QED
    BY <2>1 DEF Init, Nothing, Replies, Outcomes
<1>4. faults \in 0 .. MaxFaults /\ exists \in BOOLEAN /\ \A c \in Calls : pc[c] # "fill"
  BY GapsAssumption DEF Init
<1> QED
  BY <1>1, <1>2, <1>3, <1>4 DEF GapsType

\* Every step keeps the types, whatever is called and whatever fails.
LEMMA NextType == GapsType /\ [Next]_vars => GapsType'
<1> SUFFICES ASSUME GapsType, [Next]_vars PROVE GapsType'
  OBVIOUS
<1> DEFINE t == TextOf(file)
<1>1. /\ WriterInv' /\ pc \in [Calls -> Labels] /\ \A c \in Calls : pc[c] # "idle" => req[c] \in AllRequests
  BY NextWriter, GapsAssumption DEF GapsType, WriterInv, WriterType
<1>2. t \in FileTexts /\ Gaps(t) \in Seq(Record) /\ NewPosition(t) \in Nat /\ \A g : Position(Gaps(t), g) \in Nat
  <2>1. t \in FileTexts
    BY KnownTexts DEF GapsType, TextOf
  <2> HIDE DEF t
  <2> QED
    BY <2>1, ListOfText DEF NewPosition
<1> HIDE DEF t
<1>3. <<>> \in Seq(Record) /\ 0 \in Nat
  OBVIOUS
<1>4. Committed \in Seq(Record)
  <2>1. CASE \E c \in Calls : pc[c] = "fill"
    <3> DEFINE c == CHOOSE c \in Calls : pc[c] = "fill"
    <3>1. c \in Calls
      BY <2>1
    <3> HIDE DEF c
    <3>2. work[c] \in FileTexts
      BY <3>1 DEF GapsType
    <3> QED
      BY <2>1, <3>2, ListOfText DEF Committed, c
  <2>2. CASE ~ \E c \in Calls : pc[c] = "fill"
    BY <1>2, <2>2 DEF Committed, t
  <2> QED
    BY <2>1, <2>2
<1>5. ASSUME NEW c \in Calls, NEW r \in Requests, Start(c, r) PROVE GapsType'
  <2>1. result' \in [Calls -> Replies]
    <3>1. Rejected(r) \in Outcomes
      BY DEF Rejected, Outcomes
    <3>2. result' = result \/ Answer(c, Rejected(r), 0, <<>>)
      BY <1>5 DEF Start
    <3> QED
      BY <1>3, <3>1, <3>2, AnswerType DEF GapsType
  <2>2. window' \in [Calls -> SUBSET Seq(Record)]
    BY <1>4, <1>5 DEF Start, GapsType
  <2>3. pc[c] = "idle" /\ (pc' = [pc EXCEPT ![c] = "queued"] \/ pc' = [pc EXCEPT ![c] = "done"])
    BY <1>5 DEF Start, Goto
  <2> QED
    BY <1>1, <1>5, <2>1, <2>2, <2>3 DEF Start, GapsType
<1>6. ASSUME NEW c \in Calls, ListGaps(c) \/ AddAgain(c) \/ RemoveUnknown(c) PROVE GapsType'
  <2>1. result' \in [Calls -> Replies]
    <3>1. CASE ListGaps(c)
      BY <1>2, <3>1, AnswerType DEF ListGaps, GapsType, t, Outcomes
    <3>2. CASE AddAgain(c)
      BY <1>2, <1>3, <3>2, AnswerType DEF AddAgain, GapsType, t, Outcomes
    <3>3. CASE RemoveUnknown(c)
      BY <1>2, <1>3, <3>3, AnswerType DEF RemoveUnknown, GapsType, Outcomes
    <3> QED
      BY <1>6, <3>1, <3>2, <3>3
  <2>2. pc' = [pc EXCEPT ![c] = "done"] /\ UNCHANGED <<exists, file, work, window, faults>>
    BY <1>6 DEF ListGaps, AddAgain, RemoveUnknown, ThenReturn, Goto
  <2> QED
    BY <1>1, <2>1, <2>2 DEF GapsType
<1>7. ASSUME NEW c \in Calls, AddNew(c) \/ RemoveKnown(c) PROVE GapsType'
  <2>1. /\ pc[c] = "queued" /\ pc' = [pc EXCEPT ![c] = "truncate"] /\ req[c] \in AllRequests
        /\ UNCHANGED <<exists, file, window, faults>>
    BY <1>1, <1>7 DEF AddNew, RemoveKnown, Queued, ThenWrite, Goto
  <2>2. result' \in [Calls -> Replies] /\ work' \in [Calls -> FileTexts]
    <3>1. CASE AddNew(c)
      <4>1. AppendEntry(t, EntryOf(req[c])) \in FileTexts
        BY <1>2, <2>1, <3>1, EditIs DEF AddNew, Queued
      <4>2. work' \in [Calls -> FileTexts]
        BY <3>1, <4>1 DEF AddNew, ThenWrite, GapsType, t
      <4>3. result' \in [Calls -> Replies]
        BY <1>2, <1>3, <3>1, AnswerType DEF AddNew, GapsType, t, Outcomes
      <4> QED
        BY <4>2, <4>3
    <3>2. CASE RemoveKnown(c)
      <4>1. RemoveEntry(t, req[c].id) \in FileTexts
        BY <1>2, <2>1, <3>2, EditIs DEF RemoveKnown, Queued, t
      <4>2. work' \in [Calls -> FileTexts]
        BY <3>2, <4>1 DEF RemoveKnown, ThenWrite, GapsType, t
      <4>3. result' \in [Calls -> Replies]
        BY <1>3, <3>2, AnswerType DEF RemoveKnown, GapsType, Outcomes
      <4> QED
        BY <4>2, <4>3
    <3> QED
      BY <1>7, <3>1, <3>2
  <2> QED
    BY <1>1, <2>1, <2>2 DEF GapsType
<1>8. ASSUME NEW c \in Calls, MakeDirs(c) PROVE GapsType'
  BY <1>1, <1>8 DEF MakeDirs, Goto, GapsType
<1>9. ASSUME NEW c \in Calls, CheckFile(c) PROVE GapsType'
  <2>1. result' \in [Calls -> Replies]
    BY <1>3, <1>9, AnswerType DEF CheckFile, GapsType, Outcomes
  <2>2. work' \in [Calls -> FileTexts]
    BY <1>9, KnownTexts DEF CheckFile, GapsType
  <2>3. /\ pc' = [pc EXCEPT ![c] = "truncate"] \/ pc' = [pc EXCEPT ![c] = "done"]
        /\ UNCHANGED <<exists, file, window, faults>>
    BY <1>9 DEF CheckFile, Goto
  <2> QED
    BY <1>1, <2>1, <2>2, <2>3 DEF GapsType
<1>10. ASSUME NEW c \in Calls, Truncate(c) PROVE GapsType'
  <2>1. file' \in FileTexts
    BY <1>10, KnownTexts DEF Truncate, Truncated
  <2>2. Gaps(work[c]) \in Seq(Record)
    BY ListOfText DEF GapsType
  <2>3. window' \in [Calls -> SUBSET Seq(Record)]
    BY <1>10, <2>2 DEF Truncate, GapsType
  <2> QED
    BY <1>1, <1>10, <2>1, <2>3, KnownTexts DEF Truncate, Goto, GapsType
<1>11. ASSUME NEW c \in Calls, Fill(c) PROVE GapsType'
  <2>1. file' \in FileTexts
    BY <1>11, OverIs DEF Fill, GapsType
  <2> QED
    BY <1>1, <1>11, <2>1, KnownTexts DEF Fill, Goto, GapsType
<1>12. ASSUME NEW c \in Calls, OpenFails(c) \/ WriteFails(c) PROVE GapsType'
  <2>1. /\ FailedAt(c) /\ faults' \in 0 .. MaxFaults
    <3>1. faults < MaxFaults /\ faults' = faults + 1 /\ MaxFaults \in Nat
      BY <1>12, GapsAssumption DEF OpenFails, WriteFails, Fault
    <3>2. FailedAt(c) /\ faults \in 0 .. MaxFaults
      BY <1>12 DEF OpenFails, WriteFails, GapsType
    <3> QED
      BY <3>1, <3>2
  <2>2. result' \in [Calls -> Replies]
    BY <1>3, <2>1, AnswerType DEF FailedAt, GapsType, Outcomes
  <2>3. file' \in FileTexts \cup {NoFile} /\ (file # NoFile => file' # NoFile)
    <3>1. CASE OpenFails(c)
      BY <3>1 DEF OpenFails, GapsType
    <3>2. CASE WriteFails(c)
      <4> DEFINE w == work[c]
      <4>1. PICK n \in 1 .. Len(w) - 1 : file' = Over(SubSeq(w, 1, n), file)
        BY <3>2 DEF WriteFails
      <4>2. w \in Seq(TextLines) /\ file \in FileTexts
        BY <3>2 DEF WriteFails, GapsType, FileTexts
      <4>3. n \in 0 .. Len(w) /\ n # 0
        BY <4>2
      <4> HIDE DEF w
      <4>4. SubSeq(w, 1, n) \in Seq(TextLines) /\ Len(SubSeq(w, 1, n)) = n
        BY <4>2, <4>3, PrefixType
      <4>5. SubSeq(w, 1, n) \in FileTexts
        BY <4>3, <4>4 DEF FileTexts
      <4>6. file' \in FileTexts
        BY <4>1, <4>2, <4>5, OverIs
      <4> QED
        BY <4>6, KnownTexts
    <3> QED
      BY <1>12, <3>1, <3>2
  <2>4. pc' = [pc EXCEPT ![c] = "done"] /\ UNCHANGED <<exists, work, window>>
    BY <2>1 DEF FailedAt, Goto
  <2> QED
    BY <1>1, <2>1, <2>2, <2>3, <2>4 DEF GapsType
<1>13. CASE Crash
  <2>1. faults' \in 0 .. MaxFaults
    <3>1. faults < MaxFaults /\ faults' = faults + 1 /\ MaxFaults \in Nat /\ faults \in 0 .. MaxFaults
      BY <1>13, GapsAssumption DEF Crash, Fault, GapsType
    <3> QED
      BY <3>1
  <2>2. \A c \in Calls : pc'[c] # "fill"
    BY <1>13 DEF Crash
  <2> QED
    BY <1>1, <1>13, <2>1, <2>2 DEF Crash, GapsType
<1>14. CASE UNCHANGED vars
  BY <1>1, <1>14 DEF vars, GapsType
<1> QED
  BY <1>5, <1>6, <1>7, <1>8, <1>9, <1>10, <1>11, <1>12, <1>13, <1>14 DEF Next, CallStep

\* Type correctness: whatever people wrote into gaps.md, and whatever fails, what
\* the tools write is a text of lines, and what they answer is a list of gaps.
THEOREM GapsTypeIsCorrect == Spec => []TypeOK
<1>1. GapsType => TypeOK
  BY DEF GapsType, WriterInv, WriterType, Labels, TypeOK, FileTexts
<1> QED
  BY <1>1, InitType, NextType, PTL DEF Spec

-----------------------------------------------------------------------------
(* What is read.  A write that fails half way leaves a text that was never *)
(* meant, and bootstrap writes without the mutex: the rest is for runs     *)
(* without the two.  A crash may happen at any time.                       *)

NoBootstrap == \A r \in Requests : r.op # "bootstrap"
NoIOError == "io_error" \notin Adversity

Active == {"queued", "truncate", "fill"}

WholeInv ==
  /\ GapsType
  /\ \A c \in Calls : pc[c] = "fill" => file = EmptyText
  /\ \A c \in Calls : pc[c] \in {"idle", "queued"} => result[c] = Nothing
  /\ \A c \in Calls : pc[c] \in Active => Committed \in window[c]
  /\ ListIsWholeOrEmpty

\* Without bootstrap, whoever writes owns the mutex.
LEMMA WritersOwnTheMutex ==
  ASSUME NoBootstrap, GapsType
  PROVE  \A c \in Calls : pc[c] # "check" /\ (pc[c] \in Writing <=> lock = c)
<1> TAKE c \in Calls
<1>1. OwnerOf(c) /\ (pc[c] # "idle" => req[c] \in Requests)
  BY DEF GapsType, WriterInv, WriterType
<1>2. pc[c] # "idle" => req[c].op # "bootstrap"
  BY <1>1 DEF NoBootstrap
<1> QED
  BY <1>1, <1>2 DEF OwnerOf, Writing

\* Nor does it lose it by a step.
LEMMA WritersStillOwnTheMutex ==
  ASSUME NoBootstrap, GapsType'
  PROVE  \A c \in Calls : pc'[c] # "check" /\ (pc'[c] \in Writing <=> lock' = c)
<1> TAKE c \in Calls
<1>1. OwnerOf(c)' /\ (pc'[c] # "idle" => req'[c] \in Requests)
  BY DEF GapsType, WriterInv, WriterType
<1>2. pc'[c] # "idle" => req'[c].op # "bootstrap"
  BY <1>1 DEF NoBootstrap
<1> QED
  BY <1>1, <1>2 DEF OwnerOf, Writing

\* The gap list is that of the write that has begun, if one has.
LEMMA CommittedIs ==
  ASSUME NoBootstrap, GapsType
  PROVE  /\ \A c \in Calls : pc[c] = "fill" => Committed = Gaps(work[c])
         /\ (\A c \in Calls : pc[c] # "fill") => Committed = Gaps(TextOf(file))
<1>1. ASSUME NEW c \in Calls, pc[c] = "fill" PROVE Committed = Gaps(work[c])
  <2>1. \A d \in Calls : pc[d] = "fill" => d = c
    BY <1>1, WritersOwnTheMutex DEF Writing
  <2>2. (CHOOSE d \in Calls : pc[d] = "fill") = c
    BY <1>1, <2>1
  <2> QED
    BY <1>1, <2>2 DEF Committed
<1> QED
  BY <1>1 DEF Committed

\* After a step the list is what a write in progress writes, or what is on disk.
LEMMA CommittedBecomes ==
  ASSUME NoBootstrap, GapsType'
  PROVE  /\ \A c \in Calls : pc'[c] = "fill" => Committed' = Gaps(work'[c])
         /\ (\A c \in Calls : pc'[c] # "fill") => Committed' = Gaps(TextOf(file'))
<1>1. ASSUME NEW c \in Calls, pc'[c] = "fill" PROVE Committed' = Gaps(work'[c])
  <2>1. \A d \in Calls : pc'[d] = "fill" => d = c
    BY <1>1, WritersStillOwnTheMutex DEF Writing
  <2>2. (CHOOSE d \in Calls : pc'[d] = "fill") = c
    BY <1>1, <2>1
  <2> QED
    BY <1>1, <2>2 DEF Committed
<1> QED
  BY <1>1 DEF Committed, TextOf

\* The list changes when a write begins, at once and to what is being written;
\* otherwise only a crash changes it.
LEMMA CommittedStep ==
  ASSUME NoBootstrap, NoIOError, WholeInv, [Next]_vars
  PROVE  /\ GapsType'
         /\ \A c \in Calls : pc'[c] = "fill" => file' = EmptyText
         /\ \A c \in Calls : Truncate(c) => Committed' = Gaps(work[c])
         /\ (\E c \in Calls : Truncate(c)) \/ Crash \/ Committed' = Committed
         /\ \A c \in Calls : ~OpenFails(c) /\ ~WriteFails(c) /\ ~MakeDirs(c) /\ ~CheckFile(c)
<1>1. GapsType /\ GapsType' /\ pc \in [Calls -> Labels]
  BY NextType DEF WholeInv, GapsType, WriterInv, WriterType
<1>2. \A c \in Calls : ~OpenFails(c) /\ ~WriteFails(c) /\ ~MakeDirs(c) /\ ~CheckFile(c)
  <2> TAKE c \in Calls
  <2>1. ~OpenFails(c) /\ ~WriteFails(c)
    BY DEF OpenFails, WriteFails, Fault, NoIOError
  <2>2. ~CheckFile(c)
    BY <1>1, WritersOwnTheMutex DEF CheckFile
  <2>3. ~MakeDirs(c)
    BY <1>1 DEF MakeDirs, GapsType, WriterInv, WriterType, NoBootstrap
  <2> QED
    BY <2>1, <2>2, <2>3
<1>3. ASSUME NEW c \in Calls, Truncate(c)
      PROVE  Committed' = Gaps(work[c]) /\ \A d \in Calls : pc'[d] = "fill" => file' = EmptyText
  <2>1. pc'[c] = "fill" /\ work' = work /\ file' = EmptyText
    BY <1>1, <1>3 DEF Truncate, Goto, Truncated
  <2> QED
    BY <1>1, <2>1, CommittedBecomes
<1>4. ASSUME NEW c \in Calls, Fill(c)
      PROVE  Committed' = Committed /\ \A d \in Calls : pc'[d] # "fill"
  <2>1. /\ pc[c] = "fill" /\ pc' = [pc EXCEPT ![c] = "done"] /\ file = EmptyText
        /\ work[c] \in FileTexts /\ file' = Over(work[c], EmptyText)
    BY <1>4 DEF Fill, Goto, WholeInv, GapsType
  <2>2. file' = work[c]
    <3>1. Len(EmptyText) = 1
      BY DEF EmptyText
    <3> QED
      BY <2>1, <3>1, KnownTexts, OverIs
  <2>3. \A d \in Calls : pc'[d] # "fill"
    BY <1>1, <2>1, WritersOwnTheMutex DEF Writing
  <2>4. TextOf(file') = work[c]
    BY <2>1, <2>2, KnownTexts DEF TextOf
  <2>5. Committed = Gaps(work[c])
    BY <1>1, <2>1, CommittedIs
  <2>6. Committed' = Gaps(TextOf(file'))
    BY <1>1, <2>3, CommittedBecomes
  <2> QED
    BY <2>3, <2>4, <2>5, <2>6
<1>5. ASSUME file' = file, \A c \in Calls : pc'[c] = "fill" <=> pc[c] = "fill",
             \A c \in Calls : pc[c] = "fill" => work'[c] = work[c]
      PROVE  Committed' = Committed /\ \A c \in Calls : pc'[c] = "fill" => file' = EmptyText
  <2>1. CASE \E c \in Calls : pc[c] = "fill"
    BY <1>1, <1>5, <2>1, CommittedIs, CommittedBecomes DEF WholeInv
  <2>2. CASE \A c \in Calls : pc[c] # "fill"
    BY <1>1, <1>5, <2>2, CommittedIs, CommittedBecomes
  <2> QED
    BY <1>5, <2>1, <2>2 DEF WholeInv
<1>6. ASSUME NEW c \in Calls, NEW r \in Requests, Start(c, r)
      PROVE  Committed' = Committed /\ \A d \in Calls : pc'[d] = "fill" => file' = EmptyText
  <2>1. /\ file' = file /\ work' = work /\ pc[c] = "idle"
        /\ pc' = [pc EXCEPT ![c] = "queued"] \/ pc' = [pc EXCEPT ![c] = "done"]
    BY <1>6 DEF Start, Goto
  <2> QED
    BY <1>1, <1>5, <2>1
<1>7. ASSUME NEW c \in Calls, ListGaps(c) \/ AddAgain(c) \/ RemoveUnknown(c)
      PROVE  Committed' = Committed /\ \A d \in Calls : pc'[d] = "fill" => file' = EmptyText
  <2>1. /\ file' = file /\ work' = work /\ pc[c] = "queued" /\ pc' = [pc EXCEPT ![c] = "done"]
    BY <1>7 DEF ListGaps, AddAgain, RemoveUnknown, Queued, ThenReturn, Goto
  <2> QED
    BY <1>1, <1>5, <2>1
<1>8. ASSUME NEW c \in Calls, AddNew(c) \/ RemoveKnown(c)
      PROVE  Committed' = Committed /\ \A d \in Calls : pc'[d] = "fill" => file' = EmptyText
  <2>1. /\ file' = file /\ \A d \in Calls : d # c => work'[d] = work[d]
        /\ pc[c] = "queued" /\ pc' = [pc EXCEPT ![c] = "truncate"]
    BY <1>8 DEF AddNew, RemoveKnown, Queued, ThenWrite, Goto, WholeInv, GapsType
  <2> QED
    BY <1>1, <1>5, <2>1
<1>9. ASSUME Crash PROVE \A c \in Calls : pc'[c] # "fill"
  BY <1>9 DEF Crash
<1>10. ASSUME UNCHANGED vars
       PROVE  Committed' = Committed /\ \A c \in Calls : pc'[c] = "fill" => file' = EmptyText
  BY <1>5, <1>10 DEF vars
<1>11. \A c \in Calls : pc'[c] = "fill" => file' = EmptyText
  BY <1>2, <1>3, <1>4, <1>6, <1>7, <1>8, <1>9, <1>10 DEF Next, CallStep
<1>12. (\E c \in Calls : Truncate(c)) \/ Crash \/ Committed' = Committed
  BY <1>2, <1>4, <1>6, <1>7, <1>8, <1>10 DEF Next, CallStep
<1> QED
  BY <1>1, <1>2, <1>3, <1>11, <1>12

\* Nobody writes at first, and nobody has been answered.
LEMMA InitWhole == Init => WholeInv
<1> SUFFICES ASSUME Init PROVE WholeInv
  OBVIOUS
<1>1. GapsType
  BY InitType
<1>2. \A c \in Calls : pc[c] = "idle" /\ result[c] = Nothing
  BY DEF Init
<1>3. ListIsWholeOrEmpty
  BY <1>2 DEF ListIsWholeOrEmpty, Listed, Nothing
<1> QED
  BY <1>1, <1>2, <1>3 DEF WholeInv, Active

\* A call in flight has seen the list that there is, and what list_gaps reads is
\* that list, or the empty file of a write under way.
LEMMA NextWhole ==
  ASSUME NoBootstrap, NoIOError
  PROVE  WholeInv /\ [Next]_vars => WholeInv'
<1> SUFFICES ASSUME WholeInv, [Next]_vars PROVE WholeInv'
  OBVIOUS
<1>1. /\ GapsType' /\ \A c \in Calls : pc'[c] = "fill" => file' = EmptyText
      /\ \A c \in Calls : Truncate(c) => Committed' = Gaps(work[c])
      /\ (\E c \in Calls : Truncate(c)) \/ Crash \/ Committed' = Committed
      /\ \A c \in Calls : ~OpenFails(c) /\ ~WriteFails(c) /\ ~MakeDirs(c) /\ ~CheckFile(c)
  BY CommittedStep
<1>2. /\ GapsType /\ pc \in [Calls -> Labels] /\ result \in [Calls -> Replies]
      /\ window \in [Calls -> SUBSET Seq(Record)]
  BY DEF WholeInv, GapsType, WriterInv, WriterType
<1>3. /\ \A c \in Calls : pc[c] \in {"idle", "queued"} => result[c] = Nothing
      /\ \A c \in Calls : pc[c] \in Active => Committed \in window[c]
      /\ \A c \in Calls : Listed(c) => result[c].gaps \in window[c] \cup {<<>>}
      /\ Nothing.is # "listed"
  BY DEF WholeInv, ListIsWholeOrEmpty, Nothing
<1> DEFINE Waiting == \A c \in Calls : pc'[c] \in {"idle", "queued"} => result'[c] = Nothing
           Seen == \A c \in Calls : pc'[c] \in Active => Committed' \in window'[c]
           Whole == \A c \in Calls :
                      result'[c].is = "listed" => result'[c].gaps \in window'[c] \cup {<<>>}
<1>4. ASSUME NEW c \in Calls, NEW r \in Requests, Start(c, r) PROVE Waiting /\ Seen /\ Whole
  <2>1. /\ pc[c] = "idle" /\ window' = [window EXCEPT ![c] = {Committed}]
        /\ \/ pc' = [pc EXCEPT ![c] = "queued"] /\ result' = result
           \/ pc' = [pc EXCEPT ![c] = "done"] /\ Answer(c, Rejected(r), 0, <<>>)
    BY <1>4 DEF Start, Goto
  <2>2. Rejected(r) # "listed"
    BY DEF Rejected
  <2>3. Committed' = Committed
    <3>1. \A d \in Calls : ~Truncate(d)
      BY <1>2, <2>1 DEF Truncate, Goto
    <3>2. ~Crash
      BY <1>2, <2>1 DEF Crash
    <3> QED
      BY <1>1, <3>1, <3>2
  <2>4. result'[c].is # "listed" /\ \A d \in Calls : d # c => result'[d] = result[d]
    BY <1>2, <1>3, <2>1, <2>2 DEF Answer
  <2> QED
    BY <1>2, <1>3, <2>1, <2>3, <2>4 DEF Listed, Active, Labels
<1>5. ASSUME NEW c \in Calls, ListGaps(c) PROVE Waiting /\ Seen /\ Whole
  <2>1. /\ pc[c] = "queued" /\ pc' = [pc EXCEPT ![c] = "done"] /\ window' = window
        /\ Answer(c, "listed", 0, Gaps(TextOf(file))) /\ file' = file /\ work' = work
    BY <1>5 DEF ListGaps, Goto
  <2>2. Committed' = Committed
    <3>1. \A d \in Calls : ~Truncate(d)
      BY <1>2, <2>1 DEF Truncate, Goto
    <3>2. ~Crash
      BY <1>2, <2>1 DEF Crash
    <3> QED
      BY <1>1, <3>1, <3>2
  <2>3. Gaps(TextOf(file)) \in window[c] \cup {<<>>}
    <3>1. CASE \E d \in Calls : pc[d] = "fill"
      <4>1. TextOf(file) = EmptyText
        BY <3>1, KnownTexts DEF WholeInv, TextOf
      <4> QED
        BY <4>1, KnownTexts
    <3>2. CASE \A d \in Calls : pc[d] # "fill"
      BY <1>2, <1>3, <2>1, <3>2, CommittedIs DEF Active
    <3> QED
      BY <3>1, <3>2
  <2>4. result'[c].gaps = Gaps(TextOf(file)) /\ \A d \in Calls : d # c => result'[d] = result[d]
    BY <1>2, <2>1 DEF Answer
  <2> QED
    BY <1>2, <1>3, <2>1, <2>2, <2>3, <2>4 DEF Listed, Active
<1>6. ASSUME NEW c \in Calls, AddAgain(c) \/ RemoveUnknown(c) \/ AddNew(c) \/ RemoveKnown(c)
      PROVE  Waiting /\ Seen /\ Whole
  <2>1. /\ pc[c] = "queued" /\ window' = window
        /\ pc' = [pc EXCEPT ![c] = "done"] \/ pc' = [pc EXCEPT ![c] = "truncate"]
    BY <1>6 DEF AddNew, RemoveKnown, AddAgain, RemoveUnknown, Queued, ThenReturn, ThenWrite, Goto
  <2>2. Committed' = Committed
    <3>1. \A d \in Calls : ~Truncate(d)
      BY <1>2, <2>1 DEF Truncate, Goto
    <3>2. ~Crash
      BY <1>2, <2>1 DEF Crash
    <3> QED
      BY <1>1, <3>1, <3>2
  <2>3. result'[c].is # "listed" /\ \A d \in Calls : d # c => result'[d] = result[d]
    BY <1>2, <1>6 DEF AddNew, RemoveKnown, AddAgain, RemoveUnknown, Answer
  <2> QED
    BY <1>2, <1>3, <2>1, <2>2, <2>3 DEF Listed, Active
<1>7. ASSUME NEW c \in Calls, Truncate(c) PROVE Waiting /\ Seen /\ Whole
  <2>1. /\ pc[c] = "truncate" /\ pc' = [pc EXCEPT ![c] = "fill"] /\ result' = result
        /\ window' = [d \in Calls |-> IF pc[d] \in {"idle", "done"} THEN window[d]
                                      ELSE window[d] \cup {Gaps(work[c])}]
    BY <1>7 DEF Truncate, Goto
  <2>2. Committed' = Gaps(work[c])
    BY <1>1, <1>7
  <2> QED
    BY <1>2, <1>3, <2>1, <2>2 DEF Listed, Active
<1>8. ASSUME NEW c \in Calls, Fill(c) PROVE Waiting /\ Seen /\ Whole
  <2>1. /\ pc[c] = "fill" /\ pc' = [pc EXCEPT ![c] = "done"] /\ result' = result /\ window' = window
    BY <1>8 DEF Fill, Goto
  <2>2. Committed' = Committed
    <3>1. \A d \in Calls : ~Truncate(d)
      BY <1>2, <2>1 DEF Truncate, Goto
    <3>2. ~Crash
      BY <1>2, <2>1 DEF Crash
    <3> QED
      BY <1>1, <3>1, <3>2
  <2> QED
    BY <1>2, <1>3, <2>1, <2>2 DEF Listed, Active
<1>9. ASSUME Crash PROVE Waiting /\ Seen /\ Whole
  <2>1. /\ \A c \in Calls : pc'[c] = IF pc[c] \in {"idle", "done"} THEN pc[c] ELSE "lost"
        /\ result' = result /\ window' = window
    BY <1>9 DEF Crash
  <2> QED
    BY <1>3, <2>1 DEF Listed, Active
<1>10. ASSUME UNCHANGED vars PROVE Waiting /\ Seen /\ Whole
  <2>1. pc' = pc /\ result' = result /\ window' = window /\ Committed' = Committed
    BY <1>10 DEF vars, Committed, TextOf
  <2> QED
    BY <1>3, <2>1 DEF Listed
<1>11. Waiting /\ Seen /\ Whole
  <2> HIDE DEF Waiting, Seen, Whole
  <2> QED
    BY <1>1, <1>4, <1>5, <1>6, <1>7, <1>8, <1>9, <1>10 DEF Next, CallStep
<1> QED
  BY <1>1, <1>11 DEF WholeInv, ListIsWholeOrEmpty, Listed

\* list_gaps never answers a mixture of two lists: without bootstrap and without
\* a write that fails half way, crashes or not, it answers a list there was
\* during the call, or that of a file truncated to be written
\* (tools.py:1063, gaps.py:192-195).
THEOREM ListingsAreWholeOrEmpty ==
  ASSUME NoBootstrap, NoIOError PROVE Spec => []ListIsWholeOrEmpty
<1>1. WholeInv => ListIsWholeOrEmpty
  BY DEF WholeInv
<1>2. WholeInv /\ [Next]_vars => WholeInv'
  BY NextWhole
<1> QED
  BY <1>1, <1>2, InitWhole, PTL DEF Spec

-----------------------------------------------------------------------------
(* No id is listed twice.  Positions in a text survive a write that stops  *)
(* half way or that goes over another one: what is said of header lines,   *)
(* and not of entries, does too.                                           *)

ApartAtFirst ==
  /\ \A f \in FirstTexts : NoTwoAlike(Gaps(TextOf(f)))
  /\ Gaps(Placeholder) = <<>>

OnceInv ==
  /\ GapsType
  /\ HeadersDiffer(TextOf(file))
  /\ \A c \in Calls :
       /\ HeadersDiffer(work[c])
       /\ pc[c] \in Writing /\ req[c].op = "bootstrap" => work[c] = Placeholder
       /\ pc[c] = "fill" /\ req[c].op \in Editors => NoHeader(TextOf(file))

\* One of two texts without a header line goes over the other.
LEMMA OverKeepsHeadersApart ==
  ASSUME NEW new \in FileTexts, NEW old \in FileTexts
  PROVE  /\ HeadersDiffer(new) /\ NoHeader(old) => HeadersDiffer(Over(new, old))
         /\ NoHeader(new) /\ HeadersDiffer(old) => HeadersDiffer(Over(new, old))
         /\ NoHeader(new) /\ NoHeader(old) => NoHeader(Over(new, old))
<1> DEFINE r == Over(new, old)  m == Len(new)
<1>1. /\ Len(r) \in Nat /\ m \in Nat /\ m <= Len(r)
      /\ \A i \in 1 .. m : r[i] = new[i]
      /\ \A i \in m + 1 .. Len(r) : i \in 1 .. Len(old) /\ r[i] = old[i]
  BY OverIs
<1> HIDE DEF r
<1>2. \A i \in 1 .. Len(r) : i \in 1 .. m \/ i \in m + 1 .. Len(r)
  BY <1>1
<1>3. ASSUME NoHeader(old) PROVE \A i \in 1 .. Len(r) : r[i].is = "header" => i \in 1 .. m
  BY <1>1, <1>2, <1>3 DEF NoHeader
<1>4. ASSUME NoHeader(new)
      PROVE  \A i \in 1 .. Len(r) : r[i].is = "header" => i \in 1 .. Len(old) /\ r[i] = old[i]
  BY <1>1, <1>2, <1>4 DEF NoHeader
<1>5. ASSUME HeadersDiffer(new), NoHeader(old) PROVE HeadersDiffer(r)
  BY <1>1, <1>3, <1>5 DEF HeadersDiffer
<1>6. ASSUME NoHeader(new), HeadersDiffer(old) PROVE HeadersDiffer(r)
  BY <1>4, <1>6 DEF HeadersDiffer
<1>7. ASSUME NoHeader(new), NoHeader(old) PROVE NoHeader(r)
  BY <1>4, <1>7 DEF NoHeader
<1> QED
  BY <1>5, <1>6, <1>7 DEF r

\* So does the beginning of a text.
LEMMA BeginningKeepsHeadersApart ==
  ASSUME NEW t \in FileTexts, NEW n \in 1 .. Len(t) - 1
  PROVE  /\ SubSeq(t, 1, n) \in FileTexts
         /\ HeadersDiffer(t) => HeadersDiffer(SubSeq(t, 1, n))
         /\ NoHeader(t) => NoHeader(SubSeq(t, 1, n))
<1>1. t \in Seq(TextLines) /\ n \in 0 .. Len(t) /\ n # 0
  BY DEF FileTexts
<1> DEFINE s == SubSeq(t, 1, n)
<1>2. s \in Seq(TextLines) /\ Len(s) = n /\ \A i \in 1 .. n : s[i] = t[i]
  BY <1>1, PrefixType
<1> HIDE DEF s
<1>3. \A i \in 1 .. n : i \in 1 .. Len(t)
  BY <1>1
<1>4. s \in FileTexts
  BY <1>1, <1>2 DEF FileTexts
<1>5. HeadersDiffer(t) => HeadersDiffer(s)
  BY <1>2, <1>3 DEF HeadersDiffer
<1>6. NoHeader(t) => NoHeader(s)
  BY <1>2, <1>3 DEF NoHeader
<1> QED
  BY <1>4, <1>5, <1>6 DEF s

\* What the edits write has no two header lines alike.
LEMMA EditKeepsHeadersApart ==
  ASSUME NEW t \in FileTexts, NEW r \in AllRequests, HeadersDiffer(t)
  PROVE  /\ r.op = "add_gap" /\ ~Known(t, r.id) => HeadersDiffer(AppendEntry(t, EntryOf(r)))
         /\ r.op = "remove_gap" /\ Known(t, r.id) => HeadersDiffer(RemoveEntry(t, r.id))
<1>1. NoTwoAlike(Gaps(t)) /\ Gaps(t) \in Seq(Record)
  BY ListedOnceIsOneHeader, GapsAreLists
<1>2. ASSUME r.op = "add_gap", ~Known(t, r.id) PROVE HeadersDiffer(AppendEntry(t, EntryOf(r)))
  <2> DEFINE w == AppendEntry(t, EntryOf(r))  e == [id |-> r.id, fields |-> r.fields]
  <2>1. w \in FileTexts /\ Gaps(w) = Append(Gaps(t), e)
    BY <1>2, EditIs
  <2>2. e \in Record
    <3>1. r.id \in GapIds /\ r.fields \in Seq(FieldTexts)
      BY <1>2, RequestType
    <3>2. Seq(FieldTexts) \subseteq Seq(TextLines)
      BY DEF FieldTexts
    <3> QED
      BY <3>1, <3>2 DEF Record
  <2>3. \A i \in DOMAIN Gaps(t) : Gaps(t)[i].id # e.id
    BY <1>2, KnownIsListed
  <2> HIDE DEF w, e
  <2>4. NoTwoAlike(Gaps(w))
    BY <1>1, <2>1, <2>2, <2>3, AppendKeepsIdsApart
  <2> QED
    BY <2>1, <2>4, ListedOnceIsOneHeader DEF w
<1>3. ASSUME r.op = "remove_gap", Known(t, r.id) PROVE HeadersDiffer(RemoveEntry(t, r.id))
  <2> DEFINE w == RemoveEntry(t, r.id)  q == Gaps(t)  k == Position(q, r.id)
  <2>1. w \in FileTexts /\ Gaps(w) = RemoveAt(q, k)
    BY <1>3, EditIs
  <2>2. k \in DOMAIN q
    BY <1>3, KnownIsListed
  <2>3. q \in Seq(Record) /\ NoTwoAlike(q)
    BY <1>1
  <2> HIDE DEF w, k, q
  <2>4. k \in 1 .. Len(q)
    BY <2>2, <2>3
  <2>5. NoTwoAlike(Gaps(w))
    BY <2>1, <2>3, <2>4, RemoveKeepsIdsApart
  <2> QED
    BY <2>1, <2>5, ListedOnceIsOneHeader DEF w
<1> QED
  BY <1>2, <1>3

\* A text without a header line has no two alike.
LEMMA NoHeaderNoneAlike == \A t : NoHeader(t) => HeadersDiffer(t)
BY DEF NoHeader, HeadersDiffer

\* The text the server starts on has no two headers alike.
LEMMA InitOnce == ASSUME ApartAtFirst PROVE Init => OnceInv
<1> SUFFICES ASSUME Init PROVE OnceInv
  OBVIOUS
<1>1. GapsType
  BY InitType
<1>2. NoHeader(EmptyText) /\ HeadersDiffer(EmptyText)
  BY KnownTexts, NothingListedIsNoHeader, NoHeaderNoneAlike
<1>3. HeadersDiffer(TextOf(file))
  <2>1. file \in FirstTexts /\ TextOf(file) \in FileTexts
    BY KnownTexts DEF Init, TextOf
  <2> QED
    BY <2>1, ListedOnceIsOneHeader DEF ApartAtFirst
<1>4. \A c \in Calls : work[c] = EmptyText /\ pc[c] = "idle"
  BY DEF Init
<1> QED
  BY <1>1, <1>2, <1>3, <1>4 DEF OnceInv, Writing

\* Every step keeps the header lines apart, even a write that fails half way or
\* that bootstrap's goes over.
LEMMA NextOnce ==
  ASSUME ApartAtFirst PROVE OnceInv /\ [Next]_vars => OnceInv'
<1> SUFFICES ASSUME OnceInv, [Next]_vars PROVE OnceInv'
  OBVIOUS
<1> DEFINE t == TextOf(file)
           F == HeadersDiffer(TextOf(file'))
           W == \A c \in Calls :
                  /\ HeadersDiffer(work'[c])
                  /\ pc'[c] \in Writing /\ req'[c].op = "bootstrap" => work'[c] = Placeholder
                  /\ pc'[c] = "fill" /\ req'[c].op \in Editors => NoHeader(TextOf(file'))
<1>1. /\ GapsType' /\ GapsType /\ pc \in [Calls -> Labels] /\ work \in [Calls -> FileTexts]
      /\ req \in [Calls -> AllRequests \cup {None}]
      /\ \A c \in Calls : pc[c] # "idle" => req[c] \in AllRequests
      /\ \A c \in Calls : OwnerOf(c)
  BY NextType, GapsAssumption DEF OnceInv, GapsType, WriterInv, WriterType
<1>2. t \in FileTexts
  BY <1>1, KnownTexts DEF GapsType, TextOf
<1>3. /\ HeadersDiffer(t)
      /\ \A c \in Calls :
           /\ HeadersDiffer(work[c])
           /\ pc[c] \in Writing /\ req[c].op = "bootstrap" => work[c] = Placeholder
           /\ pc[c] = "fill" /\ req[c].op \in Editors => NoHeader(t)
  BY DEF OnceInv
<1>4. NoHeader(EmptyText) /\ HeadersDiffer(EmptyText) /\ NoHeader(Placeholder) /\ HeadersDiffer(Placeholder)
  BY KnownTexts, NothingListedIsNoHeader, NoHeaderNoneAlike DEF ApartAtFirst
<1> HIDE DEF t
<1>5. ASSUME NEW c \in Calls, file' = file, work' = work, req' = req,
             \E l \in Labels \ Writing : pc' = [pc EXCEPT ![c] = l]
      PROVE  F /\ W
  BY <1>1, <1>3, <1>5 DEF t, Writing
<1>6. ASSUME NEW c \in Calls, NEW r \in Requests, Start(c, r) PROVE F /\ W
  <2>1. /\ file' = file /\ work' = work /\ pc[c] = "idle" /\ req' = [req EXCEPT ![c] = r]
        /\ pc' = [pc EXCEPT ![c] = "queued"] \/ pc' = [pc EXCEPT ![c] = "done"]
    BY <1>6 DEF Start, Goto
  <2> QED
    BY <1>1, <1>3, <2>1 DEF t, Writing
<1>7. ASSUME NEW c \in Calls, ListGaps(c) \/ AddAgain(c) \/ RemoveUnknown(c) \/ MakeDirs(c) PROVE F /\ W
  <2>1. file' = file /\ work' = work /\ req' = req
    BY <1>7 DEF ListGaps, AddAgain, RemoveUnknown, ThenReturn, MakeDirs
  <2>2. pc' = [pc EXCEPT ![c] = "done"] \/ pc' = [pc EXCEPT ![c] = "check"]
    BY <1>7 DEF ListGaps, AddAgain, RemoveUnknown, ThenReturn, MakeDirs, Goto
  <2> QED
    BY <1>5, <2>1, <2>2 DEF Labels, Writing
<1>8. ASSUME NEW c \in Calls, AddNew(c) \/ RemoveKnown(c) PROVE F /\ W
  <2>1. /\ pc[c] = "queued" /\ pc' = [pc EXCEPT ![c] = "truncate"] /\ req' = req /\ file' = file
        /\ req[c] \in AllRequests /\ req[c].op \in Editors
    BY <1>1, <1>8 DEF AddNew, RemoveKnown, Queued, ThenWrite, Goto, Editors
  <2>2. HeadersDiffer(work'[c]) /\ \A d \in Calls : d # c => work'[d] = work[d]
    <3>1. CASE AddNew(c)
      <4>1. HeadersDiffer(AppendEntry(t, EntryOf(req[c])))
        BY <1>2, <1>3, <2>1, <3>1, EditKeepsHeadersApart DEF AddNew, Queued, t
      <4> QED
        BY <1>1, <3>1, <4>1 DEF AddNew, ThenWrite, t
    <3>2. CASE RemoveKnown(c)
      <4>1. HeadersDiffer(RemoveEntry(t, req[c].id))
        BY <1>2, <1>3, <2>1, <3>2, EditKeepsHeadersApart DEF RemoveKnown, Queued, t
      <4> QED
        BY <1>1, <3>2, <4>1 DEF RemoveKnown, ThenWrite, t
    <3> QED
      BY <1>8, <3>1, <3>2
  <2> QED
    BY <1>1, <1>3, <2>1, <2>2 DEF t, Writing, Editors
<1>9. ASSUME NEW c \in Calls, CheckFile(c) PROVE F /\ W
  <2>1. /\ file' = file /\ req' = req /\ pc[c] = "check"
        /\ \/ pc' = [pc EXCEPT ![c] = "truncate"] /\ work' = [work EXCEPT ![c] = Placeholder]
           \/ pc' = [pc EXCEPT ![c] = "done"] /\ work' = work
    BY <1>9 DEF CheckFile, Goto
  <2> QED
    BY <1>1, <1>3, <1>4, <2>1 DEF t, Writing
<1>10. ASSUME NEW c \in Calls, Truncate(c) PROVE F /\ W
  <2>1. /\ req' = req /\ work' = work /\ pc[c] = "truncate" /\ pc' = [pc EXCEPT ![c] = "fill"]
        /\ TextOf(file') = EmptyText
    BY <1>10, KnownTexts DEF Truncate, Goto, Truncated, TextOf
  <2> QED
    BY <1>1, <1>3, <1>4, <2>1 DEF Writing
<1>11. ASSUME NEW c \in Calls, NEW new \in FileTexts, pc[c] = "fill", file' = Over(new, file),
              HeadersDiffer(new), NoHeader(work[c]) => NoHeader(new),
              work' = work, req' = req, pc' = [pc EXCEPT ![c] = "done"]
       PROVE  F /\ W
  <2>1. file \in FileTexts /\ t = file
    BY <1>1, <1>11 DEF GapsType, t, TextOf
  <2>2. Over(new, file) \in FileTexts /\ TextOf(file') = Over(new, file)
    BY <1>11, <2>1, OverIs, KnownTexts DEF TextOf
  <2>3. req[c].op = "bootstrap" => NoHeader(new)
    BY <1>3, <1>4, <1>11 DEF Writing
  <2>4. req[c].op \in Editors => NoHeader(t)
    BY <1>3, <1>11
  <2>5. req[c].op \in Editors \cup {"bootstrap"}
    BY <1>1, <1>11 DEF OwnerOf, Writing
  <2>6. F
    BY <1>3, <1>11, <2>1, <2>2, <2>3, <2>4, <2>5, OverKeepsHeadersApart
  <2>7. ASSUME NEW d \in Calls, d # c, pc[d] = "fill", req[d].op \in Editors
        PROVE  NoHeader(TextOf(file'))
    <3>1. NoHeader(t)
      BY <1>3, <2>7
    <3>2. req[c].op = "bootstrap"
      BY <1>1, <1>11, <2>5, <2>7 DEF OwnerOf, Writing
    <3> QED
      BY <2>1, <2>2, <2>3, <3>1, <3>2, OverKeepsHeadersApart
  <2> QED
    BY <1>1, <1>3, <1>11, <2>6, <2>7 DEF Writing
<1>12. ASSUME NEW c \in Calls, Fill(c) PROVE F /\ W
  BY <1>1, <1>3, <1>11, <1>12 DEF Fill, Goto
<1>13. ASSUME NEW c \in Calls, OpenFails(c) PROVE F /\ W
  BY <1>5, <1>13 DEF OpenFails, FailedAt, Goto, Labels, Writing
<1>14. ASSUME NEW c \in Calls, WriteFails(c) PROVE F /\ W
  <2>1. work[c] \in FileTexts /\ HeadersDiffer(work[c])
    BY <1>1, <1>3
  <2>2. PICK n \in 1 .. Len(work[c]) - 1 : file' = Over(SubSeq(work[c], 1, n), file)
    BY <1>14 DEF WriteFails
  <2>3. /\ SubSeq(work[c], 1, n) \in FileTexts /\ HeadersDiffer(SubSeq(work[c], 1, n))
        /\ NoHeader(work[c]) => NoHeader(SubSeq(work[c], 1, n))
    BY <2>1, BeginningKeepsHeadersApart
  <2>4. pc[c] = "fill" /\ work' = work /\ req' = req /\ pc' = [pc EXCEPT ![c] = "done"]
    BY <1>14 DEF WriteFails, FailedAt, Goto
  <2> QED
    BY <1>11, <2>2, <2>3, <2>4
<1>15. ASSUME Crash PROVE F /\ W
  BY <1>3, <1>15 DEF Crash, t, Writing
<1>16. ASSUME UNCHANGED vars PROVE F /\ W
  BY <1>3, <1>16 DEF vars, t
<1>17. F /\ W
  <2> HIDE DEF F, W
  <2> QED
    BY <1>6, <1>7, <1>8, <1>9, <1>10, <1>12, <1>13, <1>14, <1>15, <1>16 DEF Next, CallStep
<1> QED
  BY <1>1, <1>17 DEF OnceInv

\* However many calls add a gap at once, whichever of them fail or die, and
\* whenever bootstrap gets between them, no id is listed twice, if the file that
\* people wrote by hand listed none twice (tools.py:995-998, 1031-1040).
THEOREM NoGapIsListedTwice ==
  ASSUME ApartAtFirst PROVE Spec => []NoDuplicateGaps
<1>1. OnceInv => NoDuplicateGaps
  <2> SUFFICES ASSUME OnceInv PROVE NoDuplicateGaps
    OBVIOUS
  <2>1. NoTwoAlike(Committed)
    <3>1. CASE \E c \in Calls : pc[c] = "fill"
      <4> DEFINE c == CHOOSE c \in Calls : pc[c] = "fill"
      <4>1. c \in Calls
        BY <3>1
      <4> HIDE DEF c
      <4>2. work[c] \in FileTexts /\ HeadersDiffer(work[c])
        BY <4>1 DEF OnceInv, GapsType
      <4>3. NoTwoAlike(Gaps(work[c]))
        BY <4>2, ListedOnceIsOneHeader
      <4> QED
        BY <3>1, <4>3 DEF Committed, c
    <3>2. CASE ~ \E c \in Calls : pc[c] = "fill"
      <4>1. TextOf(file) \in FileTexts /\ HeadersDiffer(TextOf(file))
        BY KnownTexts DEF OnceInv, GapsType, TextOf
      <4>2. NoTwoAlike(Gaps(TextOf(file)))
        BY <4>1, ListedOnceIsOneHeader
      <4> QED
        BY <3>2, <4>2 DEF Committed
    <3> QED
      BY <3>1, <3>2
  <2> QED
    BY <2>1 DEF NoTwoAlike, NoDuplicateGaps
<1>2. Init => OnceInv
  BY InitOnce
<1>3. OnceInv /\ [Next]_vars => OnceInv'
  BY NextOnce
<1> QED
  BY <1>1, <1>2, <1>3, PTL DEF Spec

-----------------------------------------------------------------------------
(* The list that the tools implement.  A write takes effect when it begins: *)
(* until then the owner of the mutex knows what the file says.              *)

NoFaults == Adversity = {}

\* What a call that owns the mutex is about to make of the list.
Planned(c) ==
  LET q == Gaps(TextOf(file))
      r == req[c]
  IN \/ /\ r.op = "add_gap" /\ ~Known(TextOf(file), r.id)
        /\ result[c].is = "added" /\ result[c].position = Len(q) + 1
        /\ Gaps(work[c]) = Append(q, [id |-> r.id, fields |-> r.fields])
     \/ /\ r.op = "remove_gap" /\ Known(TextOf(file), r.id)
        /\ result[c].is = "removed" /\ result[c].position = 0
        /\ Gaps(work[c]) = RemoveAt(q, Position(q, r.id))

EditInv == WholeInv /\ \A c \in Calls : pc[c] = "truncate" => Planned(c)

\* Without faults no write fails and nothing dies.
LEMMA NoFaultsNoErrors ==
  ASSUME NoFaults PROVE NoIOError /\ ~Crash
BY DEF NoFaults, NoIOError, Crash, Fault

\* At first nobody has planned anything.
LEMMA InitEdit == Init => EditInv
<1>1. Init => \A c \in Calls : pc[c] # "truncate"
  BY DEF Init
<1> QED
  BY <1>1, InitWhole DEF EditInv

\* The plan is made with the mutex, and carried out before it is given back.
LEMMA NextEdit ==
  ASSUME NoBootstrap, NoFaults PROVE EditInv /\ [Next]_vars => EditInv'
<1> SUFFICES ASSUME EditInv, [Next]_vars PROVE EditInv'
  OBVIOUS
<1> DEFINE t == TextOf(file)
<1>1. WholeInv' /\ NoIOError /\ ~Crash
  BY NextWhole, NoFaultsNoErrors DEF EditInv
<1>2. \A c \in Calls : ~OpenFails(c) /\ ~WriteFails(c) /\ ~MakeDirs(c) /\ ~CheckFile(c)
  BY <1>1, CommittedStep DEF EditInv
<1>3. /\ GapsType /\ GapsType' /\ pc \in [Calls -> Labels] /\ work \in [Calls -> FileTexts]
      /\ result \in [Calls -> Replies] /\ req \in [Calls -> AllRequests \cup {None}]
      /\ \A c \in Calls : pc[c] # "idle" => req[c] \in AllRequests
      /\ t \in FileTexts
  <2>1. GapsType /\ GapsType'
    BY <1>1 DEF EditInv, WholeInv
  <2>2. t \in FileTexts
    BY <2>1, KnownTexts DEF GapsType, TextOf
  <2> QED
    BY <2>1, <2>2, GapsAssumption DEF GapsType, WriterInv, WriterType
<1>4. /\ \A c \in Calls : pc[c] = "truncate" => Planned(c)
      /\ \A c \in Calls : pc[c] \in Writing <=> lock = c
      /\ \A c \in Calls : pc'[c] \in Writing <=> lock' = c
  BY <1>3, WritersOwnTheMutex, WritersStillOwnTheMutex DEF EditInv
<1>5. ASSUME NEW c \in Calls, file' = file, work' = work,
             pc[c] # "truncate", pc'[c] # "truncate",
             \A d \in Calls : d # c => pc'[d] = pc[d] /\ req'[d] = req[d] /\ result'[d] = result[d]
      PROVE  \A d \in Calls : pc'[d] = "truncate" => Planned(d)'
  BY <1>4, <1>5 DEF Planned, TextOf
<1>6. ASSUME NEW c \in Calls, NEW r \in Requests, Start(c, r)
      PROVE  \A d \in Calls : pc'[d] = "truncate" => Planned(d)'
  <2>1. /\ file' = file /\ work' = work /\ pc[c] = "idle"
        /\ pc'[c] \in {"queued", "done"}
        /\ \A d \in Calls : d # c => pc'[d] = pc[d] /\ req'[d] = req[d] /\ result'[d] = result[d]
    BY <1>3, <1>6 DEF Start, Goto, Answer
  <2> QED
    BY <1>5, <2>1
<1>7. ASSUME NEW c \in Calls, ListGaps(c) \/ AddAgain(c) \/ RemoveUnknown(c)
      PROVE  \A d \in Calls : pc'[d] = "truncate" => Planned(d)'
  <2>1. /\ file' = file /\ work' = work /\ pc[c] = "queued" /\ pc'[c] = "done"
        /\ \A d \in Calls : d # c => pc'[d] = pc[d] /\ req'[d] = req[d] /\ result'[d] = result[d]
    BY <1>3, <1>7 DEF ListGaps, AddAgain, RemoveUnknown, Queued, ThenReturn, Goto, Answer
  <2> QED
    BY <1>5, <2>1
<1>8. ASSUME NEW c \in Calls, AddNew(c) \/ RemoveKnown(c)
      PROVE  \A d \in Calls : pc'[d] = "truncate" => Planned(d)'
  <2>1. /\ file' = file /\ req' = req /\ lock' = c /\ pc[c] = "queued" /\ req[c] \in AllRequests
    BY <1>3, <1>8 DEF AddNew, RemoveKnown, Queued, ThenWrite
  <2>2. \A d \in Calls : pc'[d] = "truncate" => d = c
    BY <1>4, <2>1 DEF Writing
  <2>3. Planned(c)'
    <3>1. CASE AddNew(c)
      <4>1. /\ req[c].op = "add_gap" /\ ~Known(t, req[c].id)
            /\ work'[c] = AppendEntry(t, EntryOf(req[c]))
            /\ result'[c].is = "added" /\ result'[c].position = Len(Gaps(t)) + 1
        BY <1>3, <3>1 DEF AddNew, Queued, ThenWrite, Answer, NewPosition
      <4>2. Gaps(work'[c]) = Append(Gaps(t), [id |-> req[c].id, fields |-> req[c].fields])
        <5> HIDE DEF t
        <5> QED
          BY <1>3, <2>1, <4>1, EditIs
      <4>3. TextOf(file') = t
        BY <2>1
      <4> HIDE DEF t
      <4> QED
        BY <2>1, <4>1, <4>2, <4>3 DEF Planned
    <3>2. CASE RemoveKnown(c)
      <4>1. /\ req[c].op = "remove_gap" /\ Known(t, req[c].id)
            /\ work'[c] = RemoveEntry(t, req[c].id)
            /\ result'[c].is = "removed" /\ result'[c].position = 0
        BY <1>3, <3>2 DEF RemoveKnown, Queued, ThenWrite, Answer
      <4>2. Gaps(work'[c]) = RemoveAt(Gaps(t), Position(Gaps(t), req[c].id))
        <5> HIDE DEF t
        <5> QED
          BY <1>3, <2>1, <4>1, EditIs
      <4>3. TextOf(file') = t
        BY <2>1
      <4> HIDE DEF t
      <4> QED
        BY <2>1, <4>1, <4>2, <4>3 DEF Planned
    <3> QED
      BY <1>8, <3>1, <3>2
  <2> QED
    BY <2>2, <2>3
<1>9. ASSUME NEW c \in Calls, Truncate(c) \/ Fill(c)
      PROVE  \A d \in Calls : pc'[d] = "truncate" => Planned(d)'
  <2>1. pc[c] \in Writing /\ pc' \in [Calls -> Labels] /\ pc'[c] # "truncate"
        /\ \A d \in Calls : d # c => pc'[d] = pc[d]
    BY <1>3, <1>9 DEF Truncate, Fill, Goto, Writing, GapsType, WriterInv, WriterType
  <2>2. \A d \in Calls : pc'[d] # "truncate"
    BY <1>4, <2>1 DEF Writing
  <2> QED
    BY <2>2
<1>10. ASSUME UNCHANGED vars PROVE \A d \in Calls : pc'[d] = "truncate" => Planned(d)'
  BY <1>4, <1>10 DEF vars, Planned, TextOf
<1>11. \A d \in Calls : pc'[d] = "truncate" => Planned(d)'
  BY <1>1, <1>2, <1>6, <1>7, <1>8, <1>9, <1>10 DEF Next, CallStep
<1> QED
  BY <1>1, <1>11 DEF EditInv

\* A call that looks a gap up finds it where the list has it.
LEMMA AtIs == \A g : List!At(g) = Position(Committed, g)
BY DEF List!At, Position, SelectInSeq, List!SelectInSeq, Min, List!Min

BarOf(p, r) ==
  IF p \in {"fill", "done"} /\ r.is \in Answers
  THEN [is |-> r.is, position |-> r.position] ELSE None

\* The answers that the list has given, after the step of one call.
LEMMA BarStep ==
  ASSUME NEW c \in Calls,
         \A d \in Calls : d # c => pc'[d] = pc[d] /\ result'[d] = result[d]
  PROVE  /\ AnswerBar[c] = BarOf(pc[c], result[c])
         /\ AnswerBar' = [AnswerBar EXCEPT ![c] = BarOf(pc'[c], result'[c])]
         /\ BarOf(pc'[c], result'[c]) = BarOf(pc[c], result[c]) => AnswerBar' = AnswerBar
<1>1. AnswerBar = [d \in Calls |-> BarOf(pc[d], result[d])]
  BY DEF AnswerBar, BarOf
<1>2. AnswerBar' = [d \in Calls |-> BarOf(pc'[d], result'[d])]
  BY DEF AnswerBar, BarOf
<1> QED
  BY <1>1, <1>2

\* The list begins as the file says it.
LEMMA InitOfList == Init => List!Init
<1> SUFFICES ASSUME Init PROVE List!Init
  OBVIOUS
<1>1. \A c \in Calls : pc[c] = "idle" /\ result[c] = Nothing
  BY DEF Init
<1>2. Committed = Gaps(TextOf(file)) /\ file \in FirstTexts
  BY <1>1 DEF Init, Committed
<1>3. AnswerBar = [c \in Calls |-> None]
  BY <1>1 DEF AnswerBar
<1> QED
  BY <1>2, <1>3 DEF List!Init

\* Every step is one of the list, or leaves it.
LEMMA StepOfList ==
  ASSUME NoBootstrap, NoFaults
  PROVE  EditInv /\ [Next]_vars => [List!Next]_<<Committed, AnswerBar>>
<1> SUFFICES ASSUME EditInv, [Next]_vars
             PROVE  List!Next \/ (Committed' = Committed /\ AnswerBar' = AnswerBar)
  OBVIOUS
<1> DEFINE t == TextOf(file)
<1>1. /\ WholeInv /\ NoIOError /\ ~Crash
      /\ \A c \in Calls : pc[c] = "truncate" => Planned(c)
      /\ \A c \in Calls : pc[c] \in {"idle", "queued"} => result[c] = Nothing
  BY NoFaultsNoErrors DEF EditInv, WholeInv
<1>2. /\ \A c \in Calls : Truncate(c) => Committed' = Gaps(work[c])
      /\ (\E c \in Calls : Truncate(c)) \/ Committed' = Committed
      /\ \A c \in Calls : ~OpenFails(c) /\ ~WriteFails(c) /\ ~MakeDirs(c) /\ ~CheckFile(c)
  BY <1>1, CommittedStep
<1>3. /\ GapsType /\ pc \in [Calls -> Labels] /\ result \in [Calls -> Replies]
      /\ \A c \in Calls : pc[c] # "idle" => req[c] \in AllRequests
      /\ t \in FileTexts
  <2>1. GapsType
    BY <1>1 DEF WholeInv
  <2>2. t \in FileTexts
    BY <2>1, KnownTexts DEF GapsType, TextOf
  <2> QED
    BY <2>1, <2>2, GapsAssumption DEF GapsType, WriterInv, WriterType
<1>4. \A c \in Calls : pc[c] \in Writing <=> lock = c
  BY <1>3, WritersOwnTheMutex
<1>5. Nothing.is \notin Answers
  BY DEF Nothing, Answers
<1>6. lock = None => Committed = Gaps(t)
  BY <1>3, <1>4, CommittedIs, GapsAssumption DEF Writing
<1>7. ASSUME NEW c \in Calls, NEW l, pc' = [pc EXCEPT ![c] = l], l # "fill"
      PROVE  ~ \E d \in Calls : Truncate(d)
  BY <1>3, <1>7 DEF Truncate, Goto
<1>8. ASSUME NEW c \in Calls, NEW r \in Requests, Start(c, r)
      PROVE  Committed' = Committed /\ AnswerBar' = AnswerBar
  <2>1. /\ pc[c] = "idle"
        /\ \/ pc' = [pc EXCEPT ![c] = "queued"] /\ result' = result
           \/ pc' = [pc EXCEPT ![c] = "done"] /\ Answer(c, Rejected(r), 0, <<>>)
    BY <1>8 DEF Start, Goto
  <2>2. Rejected(r) \notin Answers
    BY DEF Rejected, Answers
  <2>3. /\ \A d \in Calls : d # c => pc'[d] = pc[d] /\ result'[d] = result[d]
        /\ pc'[c] = "queued" \/ (pc'[c] = "done" /\ result'[c].is \notin Answers)
    BY <1>3, <2>1, <2>2 DEF Answer
  <2>4. BarOf(pc'[c], result'[c]) = None /\ BarOf(pc[c], result[c]) = None
    BY <2>1, <2>3 DEF BarOf
  <2> QED
    BY <1>2, <1>7, <2>1, <2>3, <2>4, BarStep
<1>9. ASSUME NEW c \in Calls, ListGaps(c) \/ AddNew(c) \/ RemoveKnown(c)
      PROVE  Committed' = Committed /\ AnswerBar' = AnswerBar
  <2>1. /\ pc[c] = "queued"
        /\ \/ pc' = [pc EXCEPT ![c] = "truncate"]
           \/ pc' = [pc EXCEPT ![c] = "done"] /\ Answer(c, "listed", 0, Gaps(t))
        /\ \E is, n, gs : Answer(c, is, n, gs)
    BY <1>9 DEF ListGaps, AddNew, RemoveKnown, Queued, ThenWrite, Goto
  <2>2. /\ \A d \in Calls : d # c => pc'[d] = pc[d] /\ result'[d] = result[d]
        /\ pc'[c] = "truncate" \/ (pc'[c] = "done" /\ result'[c].is = "listed")
    BY <1>3, <2>1 DEF Answer
  <2>3. BarOf(pc'[c], result'[c]) = None /\ BarOf(pc[c], result[c]) = None
    BY <2>1, <2>2 DEF BarOf, Answers
  <2> QED
    BY <1>2, <1>7, <2>1, <2>2, <2>3, BarStep
<1>10. ASSUME NEW c \in Calls, AddAgain(c) PROVE List!Next
  <2> DEFINE g == req[c].id  n == Position(Gaps(t), g)
  <2>1. /\ pc[c] = "queued" /\ req[c].op = "add_gap" /\ lock = None
        /\ Known(t, g) /\ Answer(c, "already_present", n, <<>>)
        /\ pc' = [pc EXCEPT ![c] = "done"]
    BY <1>10 DEF AddAgain, Queued, MutexFree, ThenReturn, Goto
  <2>2. g \in GapIds
    BY <1>3, <2>1, RequestType
  <2>3. Committed = Gaps(t) /\ Committed' = Committed
    BY <1>2, <1>6, <1>7, <2>1
  <2>4. List!At(g) = n /\ n # 0
    BY <1>3, <2>1, <2>3, AtIs, KnownIsListed
  <2>5. /\ \A d \in Calls : d # c => pc'[d] = pc[d] /\ result'[d] = result[d]
        /\ pc'[c] = "done" /\ result'[c].is = "already_present" /\ result'[c].position = n
    BY <1>3, <2>1 DEF Answer
  <2>6. /\ BarOf(pc[c], result[c]) = None
        /\ BarOf(pc'[c], result'[c]) = [is |-> "already_present", position |-> n]
    BY <2>1, <2>5 DEF BarOf, Answers
  <2>7. List!Say(c, "already_present", n)
    BY <2>5, <2>6, BarStep DEF List!Say
  <2> HIDE DEF n, g
  <2>8. List!AddAgain(c, g)
    BY <2>3, <2>4, <2>7 DEF List!AddAgain
  <2> QED
    BY <2>2, <2>8 DEF List!Next
<1>11. ASSUME NEW c \in Calls, RemoveUnknown(c) PROVE List!Next
  <2> DEFINE g == req[c].id
  <2>1. /\ pc[c] = "queued" /\ req[c].op = "remove_gap" /\ lock = None
        /\ ~Known(t, g) /\ Answer(c, "absent", 0, <<>>)
        /\ pc' = [pc EXCEPT ![c] = "done"]
    BY <1>11 DEF RemoveUnknown, Queued, MutexFree, ThenReturn, Goto
  <2>2. g \in GapIds
    BY <1>3, <2>1, RequestType
  <2>3. Committed = Gaps(t) /\ Committed' = Committed
    BY <1>2, <1>6, <1>7, <2>1
  <2>4. List!At(g) = 0
    BY <1>3, <2>1, <2>3, AtIs, KnownIsListed
  <2>5. /\ \A d \in Calls : d # c => pc'[d] = pc[d] /\ result'[d] = result[d]
        /\ pc'[c] = "done" /\ result'[c].is = "absent" /\ result'[c].position = 0
    BY <1>3, <2>1 DEF Answer
  <2>6. /\ BarOf(pc[c], result[c]) = None
        /\ BarOf(pc'[c], result'[c]) = [is |-> "absent", position |-> 0]
    BY <2>1, <2>5 DEF BarOf, Answers
  <2>7. List!Say(c, "absent", 0)
    BY <2>5, <2>6, BarStep DEF List!Say
  <2> HIDE DEF g
  <2>8. List!RemoveUnknown(c, g)
    BY <2>3, <2>4, <2>7 DEF List!RemoveUnknown
  <2> QED
    BY <2>2, <2>8 DEF List!Next
<1>12. ASSUME NEW c \in Calls, Truncate(c) PROVE List!Next
  <2> DEFINE r == req[c]  g == r.id  q == Gaps(t)
  <2>1. /\ pc[c] = "truncate" /\ pc' = [pc EXCEPT ![c] = "fill"] /\ result' = result
        /\ Committed' = Gaps(work[c]) /\ r \in AllRequests
    BY <1>2, <1>3, <1>12 DEF Truncate, Goto
  <2>2. Committed = q
    <3>1. \A d \in Calls : pc[d] # "fill"
      BY <1>4, <2>1 DEF Writing
    <3> QED
      BY <1>3, <3>1, CommittedIs
  <2>3. Planned(c)
    BY <1>1, <2>1
  <2>4. /\ \A d \in Calls : d # c => pc'[d] = pc[d] /\ result'[d] = result[d]
        /\ pc'[c] = "fill" /\ result'[c] = result[c]
    BY <1>3, <2>1
  <2>5. CASE r.op = "add_gap"
    <3>1. /\ ~Known(t, g) /\ result[c].is = "added" /\ result[c].position = Len(q) + 1
          /\ Gaps(work[c]) = Append(q, [id |-> g, fields |-> r.fields])
          /\ g \in GapIds /\ r.fields \in FieldLines
      BY <2>1, <2>3, <2>5, RequestType DEF Planned
    <3>2. List!At(g) = 0
      BY <1>3, <2>2, <3>1, AtIs, KnownIsListed
    <3>3. /\ BarOf(pc[c], result[c]) = None
          /\ BarOf(pc'[c], result'[c]) = [is |-> "added", position |-> Len(q) + 1]
      BY <2>1, <2>4, <3>1 DEF BarOf, Answers
    <3>4. List!Say(c, "added", Len(q) + 1)
      BY <2>4, <3>3, BarStep DEF List!Say
    <3> HIDE DEF r, g, q
    <3>5. List!AddNew(c, g, r.fields)
      BY <2>1, <2>2, <3>1, <3>2, <3>4 DEF List!AddNew
    <3> QED
      BY <3>1, <3>5 DEF List!Next
  <2>6. CASE r.op # "add_gap"
    <3>1. /\ Known(t, g) /\ result[c].is = "removed" /\ result[c].position = 0
          /\ Gaps(work[c]) = RemoveAt(q, Position(q, g))
          /\ g \in GapIds
      BY <2>1, <2>3, <2>6, RequestType DEF Planned
    <3>2. List!At(g) = Position(q, g) /\ List!At(g) # 0
      BY <1>3, <2>2, <3>1, AtIs, KnownIsListed
    <3>3. /\ BarOf(pc[c], result[c]) = None
          /\ BarOf(pc'[c], result'[c]) = [is |-> "removed", position |-> 0]
      BY <2>1, <2>4, <3>1 DEF BarOf, Answers
    <3>4. List!Say(c, "removed", 0)
      BY <2>4, <3>3, BarStep DEF List!Say
    <3> HIDE DEF r, g, q
    <3>5. List!RemoveKnown(c, g)
      BY <2>1, <2>2, <3>1, <3>2, <3>4 DEF List!RemoveKnown, List!RemoveAt, RemoveAt
    <3> QED
      BY <3>1, <3>5 DEF List!Next
  <2> QED
    BY <2>5, <2>6
<1>13. ASSUME NEW c \in Calls, Fill(c) PROVE Committed' = Committed /\ AnswerBar' = AnswerBar
  <2>1. pc[c] = "fill" /\ pc' = [pc EXCEPT ![c] = "done"] /\ result' = result
    BY <1>13 DEF Fill, Goto
  <2>2. BarOf(pc'[c], result'[c]) = BarOf(pc[c], result[c])
    BY <1>3, <2>1 DEF BarOf
  <2>3. \A d \in Calls : d # c => pc'[d] = pc[d] /\ result'[d] = result[d]
    BY <1>3, <2>1
  <2> QED
    BY <1>2, <1>7, <2>1, <2>2, <2>3, BarStep
<1>14. ASSUME UNCHANGED vars PROVE Committed' = Committed /\ AnswerBar' = AnswerBar
  BY <1>14 DEF vars, Committed, TextOf, AnswerBar
<1> QED
  BY <1>1, <1>2, <1>8, <1>9, <1>10, <1>11, <1>12, <1>13, <1>14 DEF Next, CallStep

\* Over truncated files and racing calls, the gap tools implement the list:
\* every step is one step of it or none, answers and positions included
\* (tools.py:992-1000, 1073-1078).
THEOREM GapToolsImplementTheList ==
  ASSUME NoBootstrap, NoFaults PROVE Spec => ImplementsGapList
<1>1. Init => EditInv /\ List!Init
  BY InitEdit, InitOfList
<1>2. EditInv /\ [Next]_vars => EditInv'
  BY NextEdit
<1>3. EditInv /\ [Next]_vars => [List!Next]_<<Committed, AnswerBar>>
  BY StepOfList
<1> QED
  BY <1>1, <1>2, <1>3, PTL DEF Spec, ImplementsGapList, List!Spec

-----------------------------------------------------------------------------
(* What has been answered for is kept.                                     *)

KeptInv ==
  /\ EditInv
  /\ \A c \in Calls :
       /\ result[c].is \in {"added", "already_present"} /\ pc[c] \in {"fill", "done"}
       /\ \A d \in Calls : pc[d] # "idle" => req[d] # [op |-> "remove_gap", id |-> req[c].id]
       => \E i \in DOMAIN Committed : Committed[i].id = req[c].id

\* Every step keeps in the list what nobody asked to remove.
LEMMA NextKept ==
  ASSUME NoBootstrap, NoFaults PROVE KeptInv /\ [Next]_vars => KeptInv'
<1> SUFFICES ASSUME KeptInv, [Next]_vars PROVE KeptInv'
  OBVIOUS
<1> DEFINE t == TextOf(file)
           Kept(g) == \E i \in DOMAIN Committed : Committed[i].id = g
           Due(c) == result[c].is \in {"added", "already_present"} /\ pc[c] \in {"fill", "done"}
           Due2(c) == result'[c].is \in {"added", "already_present"} /\ pc'[c] \in {"fill", "done"}
           Asked(g) == \E d \in Calls : pc[d] # "idle" /\ req[d] = [op |-> "remove_gap", id |-> g]
<1>1. /\ EditInv' /\ EditInv /\ WholeInv /\ NoIOError /\ ~Crash
      /\ \A c \in Calls : pc[c] = "truncate" => Planned(c)
      /\ \A c \in Calls : pc[c] \in {"idle", "queued"} => result[c] = Nothing
      /\ \A c \in Calls : Due(c) /\ ~Asked(req[c].id) => Kept(req[c].id)
      BY NextEdit, NoFaultsNoErrors DEF KeptInv, EditInv, WholeInv
<1>2. /\ \A c \in Calls : Truncate(c) => Committed' = Gaps(work[c])
      /\ (\E c \in Calls : Truncate(c)) \/ Committed' = Committed
      /\ \A c \in Calls : ~OpenFails(c) /\ ~WriteFails(c) /\ ~MakeDirs(c) /\ ~CheckFile(c)
  BY <1>1, CommittedStep
<1>3. /\ GapsType /\ pc \in [Calls -> Labels] /\ result \in [Calls -> Replies]
      /\ req \in [Calls -> AllRequests \cup {None}]
      /\ \A c \in Calls : pc[c] # "idle" => req[c] \in AllRequests
      /\ t \in FileTexts
  <2>1. GapsType
    BY <1>1 DEF WholeInv
  <2>2. t \in FileTexts
    BY <2>1, KnownTexts DEF GapsType, TextOf
  <2> QED
    BY <2>1, <2>2, GapsAssumption DEF GapsType, WriterInv, WriterType
<1>4. \A c \in Calls : pc[c] \in Writing <=> lock = c
  BY <1>3, WritersOwnTheMutex
<1>5. lock = None => Committed = Gaps(t)
  BY <1>3, <1>4, CommittedIs, GapsAssumption DEF Writing
<1> DEFINE Goal == \A c \in Calls :
             Due2(c) /\ (\A d \in Calls : pc'[d] # "idle" => req'[d] # [op |-> "remove_gap", id |-> req'[c].id])
             => \E i \in DOMAIN Committed' : Committed'[i].id = req'[c].id
<1> SUFFICES Goal
  BY <1>1 DEF KeptInv
<1>6. ASSUME NEW c \in Calls, NEW l, pc' = [pc EXCEPT ![c] = l], l # "fill"
      PROVE  Committed' = Committed
  BY <1>2, <1>3, <1>6 DEF Truncate, Goto
<1>7. ASSUME NEW c \in Calls, Committed' = Committed, req' = req, Due2(c) => Due(c),
             pc'[c] # "idle",
             \A d \in Calls : d # c => pc'[d] = pc[d] /\ result'[d] = result[d]
      PROVE  Goal
  BY <1>1, <1>7
<1>8. ASSUME NEW c \in Calls, NEW r \in Requests, Start(c, r) PROVE Goal
  <2>1. /\ pc[c] = "idle" /\ req' = [req EXCEPT ![c] = r] /\ result[c] = Nothing
        /\ \/ pc' = [pc EXCEPT ![c] = "queued"] /\ result' = result
           \/ pc' = [pc EXCEPT ![c] = "done"] /\ Answer(c, Rejected(r), 0, <<>>)
    BY <1>1, <1>8 DEF Start, Goto
  <2>2. Rejected(r) \notin {"added", "already_present"} /\ Nothing.is = "none"
    BY DEF Rejected, Nothing
  <2>3. Committed' = Committed
    BY <1>6, <2>1
  <2>4. ~Due2(c) /\ \A d \in Calls : d # c => (Due2(d) <=> Due(d)) /\ req'[d] = req[d]
    BY <1>3, <2>1, <2>2 DEF Answer
  <2>5. \A d \in Calls : pc[d] # "idle" => d # c /\ pc'[d] = pc[d]
    BY <1>3, <2>1
  <2> QED
    BY <1>1, <2>3, <2>4, <2>5
<1>9. ASSUME NEW c \in Calls, ListGaps(c) \/ RemoveUnknown(c) \/ AddNew(c) \/ RemoveKnown(c)
      PROVE  Goal
  <2>1. /\ req' = req /\ \E is, n, gs : Answer(c, is, n, gs)
        /\ \/ pc' = [pc EXCEPT ![c] = "truncate"]
           \/ /\ pc' = [pc EXCEPT ![c] = "done"]
              /\ \E is \in {"listed", "absent"} : \E n, gs : Answer(c, is, n, gs)
    BY <1>9 DEF ListGaps, RemoveUnknown, AddNew, RemoveKnown, ThenReturn, ThenWrite, Goto
  <2>2. \A d \in Calls : d # c => pc'[d] = pc[d] /\ result'[d] = result[d]
    BY <1>3, <2>1 DEF Answer
  <2>3. Committed' = Committed
    BY <1>6, <2>1
  <2>4. pc'[c] = "truncate" \/ (pc'[c] = "done" /\ result'[c].is \in {"listed", "absent"})
    <3>1. ASSUME NEW is \in {"listed", "absent"}, NEW n, NEW gs, Answer(c, is, n, gs)
          PROVE  result'[c].is \in {"listed", "absent"}
      BY <1>3, <3>1 DEF Answer
    <3> QED
      BY <1>3, <2>1, <3>1
  <2> QED
    BY <1>7, <2>1, <2>2, <2>3, <2>4
<1>10. ASSUME NEW c \in Calls, AddAgain(c) PROVE Goal
  <2>1. /\ req' = req /\ pc' = [pc EXCEPT ![c] = "done"] /\ lock = None
        /\ Known(t, req[c].id) /\ \E n, gs : Answer(c, "already_present", n, gs)
    BY <1>10 DEF AddAgain, Queued, MutexFree, ThenReturn, Goto
  <2>2. Committed' = Committed /\ Committed = Gaps(t)
    BY <1>5, <1>6, <2>1
  <2>3. Kept(req[c].id)
    BY <1>3, <2>1, <2>2, KnownIsListed
  <2>4. \A d \in Calls : d # c => pc'[d] = pc[d] /\ result'[d] = result[d]
    BY <1>3, <2>1 DEF Answer
  <2> QED
    BY <1>1, <2>1, <2>2, <2>3, <2>4
<1>11. ASSUME NEW c \in Calls, Truncate(c) PROVE Goal
  <2> DEFINE r == req[c]  g == r.id  q == Gaps(t)  k == Position(q, g)
  <2>1. /\ pc[c] = "truncate" /\ pc' = [pc EXCEPT ![c] = "fill"] /\ result' = result /\ req' = req
        /\ Committed' = Gaps(work[c]) /\ r \in AllRequests
    BY <1>2, <1>3, <1>11 DEF Truncate, Goto
  <2>2. Committed = q /\ q \in Seq(Record)
    <3>1. \A d \in Calls : pc[d] # "fill"
      BY <1>4, <2>1 DEF Writing
    <3> QED
      BY <1>3, <3>1, CommittedIs, ListOfText
  <2>3. Planned(c)
    BY <1>1, <2>1
  <2>4. \A d \in Calls : d # c => (Due2(d) <=> Due(d))
    BY <1>3, <2>1
  <2>5. CASE r.op = "add_gap"
    <3> DEFINE e == [id |-> g, fields |-> r.fields]  p == Append(q, e)
    <3>1. Committed' = p
      BY <2>1, <2>3, <2>5 DEF Planned
    <3>2. e \in Record
      <4>1. g \in GapIds /\ r.fields \in Seq(FieldTexts)
        BY <2>1, <2>5, RequestType
      <4>2. Seq(FieldTexts) \subseteq Seq(TextLines)
        BY DEF FieldTexts
      <4> QED
        BY <4>1, <4>2 DEF Record
    <3>3. e.id = g
      OBVIOUS
    <3> HIDE DEF e, q
    <3>4. /\ DOMAIN p = 1 .. Len(q) + 1 /\ DOMAIN q = 1 .. Len(q) /\ Len(q) \in Nat
          /\ p[Len(q) + 1] = e /\ \A i \in 1 .. Len(q) : p[i] = q[i]
      BY <2>2, <3>2, AppendIs
    <3> HIDE DEF p, g, r
    <3>5. \E i \in DOMAIN p : p[i].id = g
      BY <3>3, <3>4
    <3>6. \A h : Kept(h) => \E i \in DOMAIN p : p[i].id = h
      BY <2>2, <3>4
    <3> QED
      BY <1>1, <2>1, <2>4, <3>1, <3>5, <3>6 DEF g, r
  <2>6. CASE r.op # "add_gap"
    <3> DEFINE p == RemoveAt(q, k)
    <3>1. /\ Committed' = p /\ Known(t, g) /\ result[c].is = "removed" /\ r.op = "remove_gap"
      BY <2>1, <2>3, <2>6 DEF Planned
    <3>2. k \in 1 .. Len(q) /\ q[k].id = g
      <4>1. k \in 0 .. Len(q) /\ IsPosition(q, g, k)
        <5> HIDE DEF q, g
        <5> QED
          BY <2>2, PositionIs
      <4>2. k # 0
        BY <1>3, <3>1, KnownIsListed
      <4> QED
        BY <4>1, <4>2 DEF IsPosition
    <3>3. r = [op |-> "remove_gap", id |-> g]
      BY <2>1, <3>1, RequestType
    <3>4. Asked(g)
      BY <2>1, <3>3
    <3> HIDE DEF q, k
    <3>5. /\ p \in Seq(Record) /\ Len(p) = Len(q) - 1 /\ Len(q) \in Nat
          /\ \A i \in 1 .. k - 1 : p[i] = q[i]
          /\ \A i \in k .. Len(q) - 1 : p[i] = q[i + 1]
      <4>1. q \in Seq(Record) /\ k \in 1 .. Len(q)
        BY <2>2, <3>2
      <4>2. /\ p \in Seq(Record) /\ Len(p) = Len(q) - 1
            /\ \A i \in 1 .. k - 1 : p[i] = q[i]
            /\ \A i \in k .. Len(q) - 1 : p[i] = q[i + 1]
        BY <4>1, RemoveAtIs
      <4> QED
        BY <4>1, <4>2
    <3> HIDE DEF p, g, r
    <3>6. ASSUME NEW h, h # g, Kept(h) PROVE \E i \in DOMAIN p : p[i].id = h
      <4>1. PICK i \in DOMAIN q : q[i].id = h
        BY <2>2, <3>6
      <4>2. i \in 1 .. Len(q) /\ i # k
        BY <2>2, <3>2, <3>6, <4>1
      <4>3. CASE i < k
        <5>1. i \in 1 .. k - 1 /\ i \in 1 .. Len(q) - 1
          BY <3>2, <3>5, <4>2, <4>3
        <5>2. p[i] = q[i] /\ i \in DOMAIN p
          BY <3>5, <5>1
        <5> QED
          BY <4>1, <5>2
      <4>4. CASE i > k
        <5> DEFINE j == i - 1
        <5>1. j \in k .. Len(q) - 1 /\ j + 1 = i /\ j \in 1 .. Len(q) - 1
          BY <3>2, <3>5, <4>2, <4>4
        <5> HIDE DEF j
        <5>2. p[j] = q[i] /\ j \in DOMAIN p
          BY <3>5, <5>1
        <5> QED
          BY <4>1, <5>2
      <4> QED
        BY <3>2, <4>2, <4>3, <4>4
    <3>7. ~Due2(c)
      BY <2>1, <3>1
    <3> SUFFICES ASSUME NEW d \in Calls, Due2(d), ~Asked(req[d].id)
                 PROVE  \E i \in DOMAIN p : p[i].id = req[d].id
      BY <2>1, <3>1
    <3>8. Kept(req[d].id) /\ req[d].id # g
      BY <1>1, <2>4, <3>4, <3>7
    <3> QED
      BY <3>6, <3>8
  <2> QED
    BY <2>5, <2>6
<1>12. ASSUME NEW c \in Calls, Fill(c) PROVE Goal
  <2>1. pc[c] = "fill" /\ pc' = [pc EXCEPT ![c] = "done"] /\ result' = result /\ req' = req
    BY <1>12 DEF Fill, Goto
  <2>2. Committed' = Committed
    BY <1>6, <2>1
  <2>3. Due2(c) => Due(c)
    BY <1>3, <2>1
  <2>4. \A d \in Calls : d # c => pc'[d] = pc[d] /\ result'[d] = result[d]
    BY <1>3, <2>1
  <2> QED
    BY <1>7, <2>1, <2>2, <2>3, <2>4
<1>13. ASSUME UNCHANGED vars PROVE Goal
  <2>1. Committed' = Committed /\ req' = req /\ pc' = pc /\ result' = result
    BY <1>13 DEF vars, Committed, TextOf
  <2> QED
    BY <1>1, <2>1
<1> HIDE DEF Goal
<1> QED
  BY <1>1, <1>2, <1>8, <1>9, <1>10, <1>11, <1>12, <1>13 DEF Next, CallStep

\* A gap that add_gap has answered for is in gaps.md, whenever nobody is writing
\* it and nobody asked to remove that gap (README.md:18, tools.py:127-133).
THEOREM AnsweredGapsAreKept ==
  ASSUME NoBootstrap, NoFaults PROVE Spec => []GapsAreKept
<1>1. KeptInv => GapsAreKept
  <2> SUFFICES ASSUME KeptInv, \A c \in Calls : pc[c] # "fill", NEW c \in Calls,
                      result[c].is \in {"added", "already_present"}, pc[c] = "done",
                      \A d \in Calls : req[d] # [op |-> "remove_gap", id |-> req[c].id]
               PROVE  Known(TextOf(file), req[c].id)
    BY DEF GapsAreKept
  <2>1. GapsType /\ TextOf(file) \in FileTexts
    BY KnownTexts DEF KeptInv, EditInv, WholeInv, GapsType, TextOf
  <2>2. Committed = Gaps(TextOf(file))
    BY <2>1, CommittedIs
  <2>3. \E i \in DOMAIN Committed : Committed[i].id = req[c].id
    BY DEF KeptInv
  <2> QED
    BY <2>1, <2>2, <2>3, KnownIsListed
<1>2. Init => KeptInv
  <2>1. Init => EditInv
    BY InitEdit
  <2>2. Init => \A c \in Calls : pc[c] = "idle"
    BY DEF Init
  <2> QED
    BY <2>1, <2>2 DEF KeptInv
<1>3. KeptInv /\ [Next]_vars => KeptInv'
  BY NextKept
<1> QED
  BY <1>1, <1>2, <1>3, PTL DEF Spec
=============================================================================
