--------------------------- MODULE GapsText_proofs ---------------------------
(***************************************************************************)
(* What parse_gaps finds and what the edits make of it, for every text.    *)
(***************************************************************************)
EXTENDS GapsText, Integers, WellFoundedInduction, SequenceTheorems, TLAPS

-----------------------------------------------------------------------------
(* Induction: a set of naturals, and folds along a sequence.               *)

Less == {ss \in Nat \X Nat : ss[1] < ss[2]}

\* There is no infinite descent in Nat.
LEMMA LessIsWellFounded == IsWellFoundedOn(Less, Nat)
BY NatLessThanWellFounded DEF OpToRel, Less

\* A set with 0 and every successor is Nat.
LEMMA SetInduction ==
  ASSUME NEW S \in SUBSET Nat, 0 \in S, \A n \in S : n + 1 \in S
  PROVE  S = Nat
<1> SUFFICES ASSUME Nat \ S # {} PROVE FALSE
  OBVIOUS
<1>1. PICK n \in Nat \ S : \A m \in Nat \ S : ~(<<m, n>> \in Less)
  <2> HIDE DEF Less
  <2> QED BY LessIsWellFounded, WFMin
<1>2. \A m \in Nat \ S : ~ (m < n)
  BY <1>1 DEF Less
<1>3. n # 0
  OBVIOUS
<1>4. n - 1 \in S
  BY <1>2, <1>3
<1>5. n - 1 + 1 \in S
  BY <1>4
<1> QED
  BY <1>5

\* g is the fold of op from base over the sets of the first n numbers.
IsFold(g, D, base, op, n) ==
  /\ g \in [SUBSET (1 .. n) -> D]
  /\ g[{}] = base
  /\ \A s \in SUBSET (1 .. n) : s # {} => g[s] = op[Max(s)][g[s \ {Max(s)}]]

\* A nonempty finite set of numbers has a maximum, which folds start from.
LEMMA MaxOf ==
  ASSUME NEW n \in Nat, NEW s \in SUBSET (1 .. n), s # {}
  PROVE  Max(s) \in s /\ \A i \in s : i <= Max(s)
<1> DEFINE U == {m \in Nat : \A r \in SUBSET (1 .. m) : r # {} => \E x \in r : \A y \in r : x >= y}
<1>1. 0 \in U
  <2>1. 1 .. 0 = {}
    OBVIOUS
  <2> QED
    BY <2>1
<1>2. ASSUME NEW m \in U PROVE m + 1 \in U
  <2> SUFFICES ASSUME NEW r \in SUBSET (1 .. m + 1), r # {} PROVE \E x \in r : \A y \in r : x >= y
    OBVIOUS
  <2>1. CASE m + 1 \in r
    BY <2>1
  <2>2. CASE m + 1 \notin r
    <3>1. r \in SUBSET (1 .. m)
      BY <2>2
    <3> QED
      BY <3>1
  <2> QED
    BY <2>1, <2>2
<1>3. U = Nat
  <2> HIDE DEF U
  <2>1. U \in SUBSET Nat
    BY DEF U
  <2> QED
    BY <1>1, <1>2, <2>1, SetInduction
<1>4. \E x \in s : \A y \in s : x >= y
  BY <1>3
<1> QED
  BY <1>4 DEF Max

\* Every fold over a typed operation exists.
LEMMA FoldExists ==
  ASSUME NEW n \in Nat, NEW D, NEW base \in D, NEW op \in [1 .. n -> [D -> D]]
  PROVE  \E g : IsFold(g, D, base, op, n)
<1> DEFINE U == {m \in Nat : m <= n => \E g : IsFold(g, D, base, op, m)}
<1>1. 0 \in U
  <2>1. 1 .. 0 = {}
    OBVIOUS
  <2>2. IsFold([s \in SUBSET (1 .. 0) |-> base], D, base, op, 0)
    BY <2>1 DEF IsFold
  <2> QED
    BY <2>2
<1>2. ASSUME NEW m \in U PROVE m + 1 \in U
  <2> SUFFICES ASSUME m + 1 <= n PROVE \E g : IsFold(g, D, base, op, m + 1)
    OBVIOUS
  <2>1. PICK h : IsFold(h, D, base, op, m)
    OBVIOUS
  <2> DEFINE g == [s \in SUBSET (1 .. m + 1) |->
                     IF m + 1 \in s THEN op[m + 1][h[s \ {m + 1}]] ELSE h[s]]
  <2>2. /\ \A s \in SUBSET (1 .. m + 1) : s \ {m + 1} \in SUBSET (1 .. m)
        /\ m + 1 \in Nat /\ m + 1 \in 1 .. n /\ op[m + 1] \in [D -> D]
    OBVIOUS
  <2>3. \A s \in SUBSET (1 .. m + 1) : h[s \ {m + 1}] \in D
    BY <2>1, <2>2 DEF IsFold
  <2>4. g \in [SUBSET (1 .. m + 1) -> D]
    <3> SUFFICES ASSUME NEW s \in SUBSET (1 .. m + 1)
                 PROVE  (IF m + 1 \in s THEN op[m + 1][h[s \ {m + 1}]] ELSE h[s]) \in D
      OBVIOUS
    <3>1. CASE m + 1 \in s
      BY <2>2, <2>3, <3>1
    <3>2. CASE m + 1 \notin s
      <4>1. s \ {m + 1} = s
        BY <3>2
      <4> QED
        BY <2>3, <3>2, <4>1
    <3> QED
      BY <3>1, <3>2
  <2>5. g[{}] = base
    BY <2>1 DEF IsFold
  <2>6. ASSUME NEW s \in SUBSET (1 .. m + 1), s # {} PROVE g[s] = op[Max(s)][g[s \ {Max(s)}]]
    <3>1. Max(s) \in s /\ \A i \in s : i <= Max(s)
      BY <2>2, <2>6, MaxOf
    <3>2. CASE m + 1 \in s
      <4>1. Max(s) = m + 1
        <5>1. m + 1 <= Max(s) /\ Max(s) \in 1 .. m + 1
          BY <3>1, <3>2
        <5> HIDE DEF Max
        <5> QED
          BY <2>2, <5>1
      <4> HIDE DEF Max
      <4>2. g[s] = op[m + 1][h[s \ {m + 1}]]
        BY <3>2
      <4>3. g[s \ {m + 1}] = h[s \ {m + 1}]
        BY <2>2
      <4> QED
        BY <4>1, <4>2, <4>3
    <3>3. CASE m + 1 \notin s
      <4>1. s \in SUBSET (1 .. m) /\ s \ {Max(s)} \in SUBSET (1 .. m + 1) /\ m + 1 \notin s \ {Max(s)}
        <5>1. s \ {m + 1} = s
          BY <3>3
        <5> QED
          BY <2>2, <3>3, <5>1
      <4>2. g[s] = h[s] /\ g[s \ {Max(s)}] = h[s \ {Max(s)}]
        BY <3>3, <4>1
      <4>3. h[s] = op[Max(s)][h[s \ {Max(s)}]]
        BY <2>1, <2>6, <4>1 DEF IsFold
      <4> QED
        BY <4>2, <4>3
    <3> QED
      BY <3>2, <3>3
  <2>7. IsFold(g, D, base, op, m + 1)
    <3> HIDE DEF g
    <3> QED
      BY <2>4, <2>5, <2>6 DEF IsFold
  <2> QED
    BY <2>7
<1>3. U = Nat
  <2> HIDE DEF U
  <2>1. U \in SUBSET Nat
    BY DEF U
  <2> QED
    BY <1>1, <1>2, <2>1, SetInduction
<1>4. n \in U
  <2> HIDE DEF U
  <2> QED
    BY <1>3
<1> QED
  BY <1>4

\* What unfolding a fold leaves: the operation is applied to values of D only.
LEMMA FoldEquation ==
  ASSUME NEW n \in Nat, NEW D, NEW base \in D, NEW op \in [1 .. n -> [D -> D]]
  PROVE  \E g :
           /\ g = [s \in SUBSET (1 .. n) |->
                     IF s = {} THEN base ELSE op[Max(s)][g[s \ {Max(s)}]]]
           /\ \A s \in SUBSET (1 .. n) : s # {} =>
                g[s \ {Max(s)}] \in D /\ Max(s) \in 1 .. n
<1>1. PICK g : IsFold(g, D, base, op, n)
  BY FoldExists
<1>2. \A s \in SUBSET (1 .. n) : s # {} =>
        /\ s \ {Max(s)} \in SUBSET (1 .. n)
        /\ Max(s) \in 1 .. n
  <2> TAKE s \in SUBSET (1 .. n)
  <2> HAVE s # {}
  <2>1. Max(s) \in s
    BY MaxOf
  <2> QED
    BY <2>1
<1>3. \A s \in SUBSET (1 .. n) : s # {} => g[s \ {Max(s)}] \in D
  BY <1>1, <1>2 DEF IsFold
<1>4. g = [s \in SUBSET (1 .. n) |-> g[s]] /\ g[{}] = base
  BY <1>1 DEF IsFold
<1>5. \A s \in SUBSET (1 .. n) : g[s] = IF s = {} THEN base ELSE op[Max(s)][g[s \ {Max(s)}]]
  BY <1>1, <1>4 DEF IsFold
<1> QED
  BY <1>2, <1>3, <1>4, <1>5

\* it takes the largest number last, where what it has so far is in D.
MaxLast(it, D, base, op, n) ==
  /\ it[{}] = base
  /\ \A s \in SUBSET (1 .. n) : s # {} /\ it[s \ {Max(s)}] \in D =>
       it[s] = op[Max(s)][it[s \ {Max(s)}]]

IsScan(f, D, base, op, n) ==
  f \in [0 .. n -> D] /\ f[0] = base /\ \A i \in 1 .. n : f[i] = op[i][f[i - 1]]

\* A fold is a scan over the numbers in order.
LEMMA FoldScan ==
  ASSUME NEW n \in Nat, NEW D, NEW base \in D, NEW op \in [1 .. n -> [D -> D]],
         NEW it, MaxLast(it, D, base, op, n)
  PROVE  \E f : IsScan(f, D, base, op, n) /\ it[1 .. n] = f[n]
<1>0. /\ it[{}] = base
      /\ \A s \in SUBSET (1 .. n) : s # {} /\ it[s \ {Max(s)}] \in D =>
           it[s] = op[Max(s)][it[s \ {Max(s)}]]
  BY DEF MaxLast
<1>1. \A i \in 1 .. n : it[1 .. i - 1] \in D => it[1 .. i] = op[i][it[1 .. i - 1]]
  <2> TAKE i \in 1 .. n
  <2>1. i \in 1 .. i /\ i \in Nat /\ 1 .. i \in SUBSET (1 .. n) /\ 1 .. i # {}
    <3>1. i \in 1 .. i /\ i \in Nat /\ 1 .. i \in SUBSET (1 .. n)
      OBVIOUS
    <3> QED
      BY <3>1
  <2>2. Max(1 .. i) = i
    <3>1. Max(1 .. i) \in 1 .. i /\ i <= Max(1 .. i)
      BY <2>1, MaxOf
    <3> HIDE DEF Max
    <3> QED
      BY <2>1, <3>1
  <2>3. (1 .. i) \ {i} = 1 .. i - 1
    BY <2>1
  <2> QED
    BY <1>0, <2>1, <2>2, <2>3
<1> DEFINE f == [i \in 0 .. n |-> it[1 .. i]]
           T == {m \in Nat : m <= n => it[1 .. m] \in D}
<1>2. it[1 .. 0] = base
  <2>1. 1 .. 0 = {}
    OBVIOUS
  <2> QED
    BY <1>0, <2>1
<1>3. T = Nat
  <2>1. 0 \in T
    BY <1>2
  <2>2. ASSUME NEW m \in T PROVE m + 1 \in T
    <3> SUFFICES ASSUME m + 1 <= n PROVE it[1 .. m + 1] \in D
      OBVIOUS
    <3>1. m + 1 \in 1 .. n /\ m + 1 - 1 = m /\ it[1 .. m] \in D
      OBVIOUS
    <3>2. op[m + 1][it[1 .. m]] \in D
      BY <3>1
    <3> QED
      BY <1>1, <3>1, <3>2
  <2>3. T \in SUBSET Nat
    OBVIOUS
  <2> HIDE DEF T
  <2> QED
    BY <2>1, <2>2, <2>3, SetInduction
<1>4. f \in [0 .. n -> D]
  BY <1>3
<1>5. f[0] = base /\ f[n] = it[1 .. n]
  BY <1>2
<1>6. \A i \in 1 .. n : f[i] = op[i][f[i - 1]]
  <2> TAKE i \in 1 .. n
  <2>1. i - 1 \in Nat /\ i - 1 <= n /\ i - 1 \in 0 .. n /\ i \in 0 .. n
    OBVIOUS
  <2>2. it[1 .. i - 1] \in D
    BY <1>3, <2>1
  <2> QED
    BY <1>1, <2>1, <2>2
<1> HIDE DEF f
<1> QED
  BY <1>4, <1>5, <1>6 DEF IsScan

\* A set of sequences with the empty one and every extension has them all.
LEMMA SeqInduction ==
  ASSUME NEW S, NEW Q \in SUBSET Seq(S), <<>> \in Q,
         \A s \in Q, e \in S : Append(s, e) \in Q
  PROVE  Q = Seq(S)
<1> DEFINE U == {n \in Nat : \A s \in Seq(S) : Len(s) = n => s \in Q}
<1>1. 0 \in U
  OBVIOUS
<1>2. ASSUME NEW n \in U PROVE n + 1 \in U
  <2> SUFFICES ASSUME NEW s \in Seq(S), Len(s) = n + 1 PROVE s \in Q
    OBVIOUS
  <2>1. PICK r \in Seq(S), e \in S : s = Append(r, e)
    <3>1. s # <<>>
      BY DEF U
    <3> HIDE DEF U
    <3> QED
      BY <3>1, SequenceEmptyOrAppend
  <2>2. Len(r) = n
    BY <2>1
  <2> QED
    BY <2>1, <2>2
<1>3. U = Nat
  <2>1. U \in SUBSET Nat
    OBVIOUS
  <2> HIDE DEF U
  <2> QED
    BY <1>1, <1>2, <2>1, SetInduction
<1>4. \A s \in Seq(S) : s \in Q
  <2> TAKE s \in Seq(S)
  <2>1. Len(s) \in U
    <3> HIDE DEF U
    <3> QED
      BY <1>3
  <2> QED
    BY <2>1
<1> QED
  BY <1>4

-----------------------------------------------------------------------------
(* The loop of parse_gaps.                                                 *)

State == [out : Seq(Span), current : Span \cup {None}]
Before == [out |-> <<>>, current |-> None]

Loop(ls) == FoldLeftDomain(LAMBDA s, i : ParseLine(s, ls, i), Before, ls)

Until(e, n) == [e EXCEPT !.end = n]

\* What an entry of parse_gaps is.
LEMMA SpanType ==
  ASSUME NEW e \in Span
  PROVE  e.id \in GapIds /\ e.start \in Nat /\ e.end \in Nat
BY DEF Span

\* Ending an entry elsewhere leaves an entry.
LEMMA UntilType ==
  ASSUME NEW e \in Span, NEW n \in Nat
  PROVE  /\ Until(e, n) \in Span
         /\ Until(e, n).id = e.id /\ Until(e, n).start = e.start /\ Until(e, n).end = n
         /\ \A m \in Nat : Until(Until(e, n), m) = Until(e, m)
<1>1. e = [id |-> e.id, start |-> e.start, end |-> e.end] /\ e.id \in GapIds /\ e.start \in Nat
  BY DEF Span
<1>2. \A m : Until(e, m) = [id |-> e.id, start |-> e.start, end |-> m]
  BY <1>1 DEF Until
<1>3. Until(e, n) = [id |-> e.id, start |-> e.start, end |-> n]
  BY <1>2
<1>4. \A m : Until(Until(e, n), m) = [id |-> e.id, start |-> e.start, end |-> m]
  <2> DEFINE f == Until(e, n)
  <2>1. f = [id |-> e.id, start |-> e.start, end |-> n]
    BY <1>3
  <2> HIDE DEF f
  <2>2. \A m : Until(f, m) = [id |-> e.id, start |-> e.start, end |-> m]
    BY <2>1 DEF Until
  <2> QED
    BY <2>2 DEF f
<1> QED
  BY <1>1, <1>2, <1>3, <1>4 DEF Span

\* What the loop of parse_gaps keeps.
LEMMA StateType ==
  ASSUME NEW s \in State
  PROVE  s.out \in Seq(Span) /\ s.current \in Span \cup {None}
BY DEF State

\* What it keeps before the first line.
LEMMA BeforeType == Before \in State /\ Before.out = <<>> /\ Before.current = None
BY DEF Before, State

\* The kinds of lines.
LEMMA LineKinds ==
  /\ Blank \in TextLines /\ Blank.is = "blank"
  /\ \A x \in TextLines : x.is = "header" => x.id \in GapIds
  /\ \A x \in TextLines : x.is \in {"blank", "header", "field", "other"}
BY DEF TextLines, Blank, Header, Field, Other

\* Adding to a sequence, and replacing its last element.
LEMMA AppendIs ==
  ASSUME NEW S, NEW q \in Seq(S), NEW e \in S
  PROVE  /\ Append(q, e) \in Seq(S) /\ Len(Append(q, e)) = Len(q) + 1 /\ Len(q) \in Nat
         /\ Append(q, e) # <<>>
         /\ DOMAIN Append(q, e) = 1 .. Len(q) + 1 /\ DOMAIN q = 1 .. Len(q)
         /\ Append(q, e)[Len(q) + 1] = e
         /\ \A i \in 1 .. Len(q) : Append(q, e)[i] = q[i]
  OBVIOUS

\* One line of the loop keeps the type of its state.
LEMMA StepType ==
  ASSUME NEW ls \in Seq(TextLines), NEW i \in 1 .. Len(ls), NEW s \in State
  PROVE  ParseLine(s, ls, i) \in State
<1>1. ls[i] \in TextLines /\ i \in Nat
  OBVIOUS
<1>2. Closed(s, ls, i) \in Seq(Span)
  <2>1. s.out \in Seq(Span) /\ s.current \in Span \cup {None}
    BY DEF State
  <2>2. s.current # None => [s.current EXCEPT !.end = i] \in Span
    BY <1>1, <2>1 DEF Span
  <2> QED
    BY <2>1, <2>2 DEF Closed, EndsAt, Until
<1> QED
  BY <1>1, <1>2 DEF ParseLine, State, Span, TextLines, Header, Blank, Other, Field

\* The loop reads the lines one by one, from the first.
LEMMA LoopScan ==
  ASSUME NEW ls \in Seq(TextLines)
  PROVE  \E f \in [0 .. Len(ls) -> State] :
           /\ f[0] = Before
           /\ \A i \in 1 .. Len(ls) : f[i] = ParseLine(f[i - 1], ls, i)
           /\ Loop(ls) = f[Len(ls)]
<1> DEFINE n == Len(ls)
           op == [i \in 1 .. n |-> [s \in State |-> ParseLine(s, ls, i)]]
           sq == [i \in DOMAIN ls |-> i]
           Equation(h) == h = [s \in SUBSET (DOMAIN sq) |->
                                 IF s = {} THEN Before
                                 ELSE ParseLine(h[s \ {Max(s)}], ls, sq[Max(s)])]
           it == CHOOSE h : Equation(h)
<1>1. n \in Nat /\ DOMAIN sq = 1 .. n /\ \A i \in 1 .. n : sq[i] = i
  OBVIOUS
<1>2. Loop(ls) = it[1 .. n]
  <2>1. Loop(ls) = it[DOMAIN sq]
    BY DEF Loop, FoldLeftDomain, FoldLeft, MapThenFoldSet
  <2> HIDE DEF it
  <2> QED
    BY <1>1, <2>1
<1> HIDE DEF sq
<1>3. /\ op \in [1 .. n -> [State -> State]]
      /\ \A i \in 1 .. n, s \in State : op[i][s] = ParseLine(s, ls, i)
  BY StepType
<1>4. Before \in State
  BY DEF Before, State
<1> HIDE DEF op
<1>5. \E h : Equation(h)
  <2>1. PICK g :
          /\ g = [s \in SUBSET (1 .. n) |->
                    IF s = {} THEN Before ELSE op[Max(s)][g[s \ {Max(s)}]]]
          /\ \A s \in SUBSET (1 .. n) : s # {} =>
               g[s \ {Max(s)}] \in State /\ Max(s) \in 1 .. n
    BY <1>1, <1>3, <1>4, FoldEquation
  <2>2. \A s \in SUBSET (1 .. n) : s # {} =>
          op[Max(s)][g[s \ {Max(s)}]] = ParseLine(g[s \ {Max(s)}], ls, sq[Max(s)])
    <3> HIDE DEF Max
    <3> QED
      BY <1>1, <1>3, <2>1
  <2>3. Equation(g)
    <3> HIDE DEF Max
    <3> QED
      BY <1>1, <2>1, <2>2, Zenon
  <2> QED
    BY <2>3
<1>6. Equation(it)
  <2> HIDE DEF Equation
  <2> QED
    BY <1>5
<1> HIDE DEF it
<1>7. \A s \in SUBSET (1 .. n) : s # {} => Max(s) \in 1 .. n
  <2> TAKE s \in SUBSET (1 .. n)
  <2> HAVE s # {}
  <2>1. Max(s) \in s
    BY <1>1, MaxOf
  <2> QED
    BY <2>1
<1>8. /\ it[{}] = Before
      /\ \A s \in SUBSET (1 .. n) : s # {} => it[s] = ParseLine(it[s \ {Max(s)}], ls, sq[Max(s)])
  BY <1>1, <1>6
<1> HIDE DEF Equation
<1> HIDE DEF n
<1>9. MaxLast(it, State, Before, op, n)
  <2> SUFFICES ASSUME NEW s \in SUBSET (1 .. n), s # {}, it[s \ {Max(s)}] \in State
               PROVE  it[s] = op[Max(s)][it[s \ {Max(s)}]]
    BY <1>8 DEF MaxLast
  <2>1. Max(s) \in 1 .. n
    BY <1>7
  <2>2. sq[Max(s)] = Max(s)
    BY <1>1, <2>1
  <2>3. it[s] = ParseLine(it[s \ {Max(s)}], ls, Max(s))
    BY <1>8, <2>2
  <2> QED
    BY <1>3, <2>1, <2>3
<1>10. PICK f : IsScan(f, State, Before, op, n) /\ it[1 .. n] = f[n]
  BY <1>1, <1>3, <1>4, <1>9, FoldScan
<1>11. /\ f \in [0 .. n -> State] /\ f[0] = Before
       /\ \A i \in 1 .. n : f[i] = op[i][f[i - 1]] /\ f[i - 1] \in State
  BY <1>1, <1>10 DEF IsScan
<1> QED
  BY <1>2, <1>3, <1>10, <1>11 DEF n

\* One more line is one more step of the loop.
LEMMA LoopOfAppend ==
  ASSUME NEW ls \in Seq(TextLines), NEW x \in TextLines
  PROVE  Loop(Append(ls, x)) = ParseLine(Loop(ls), Append(ls, x), Len(ls) + 1)
<1> DEFINE n == Len(ls)
           lx == Append(ls, x)
<1>1. lx \in Seq(TextLines) /\ n \in Nat /\ Len(lx) = n + 1 /\ \A i \in 1 .. n : lx[i] = ls[i]
  OBVIOUS
<1>2. PICK f \in [0 .. n -> State] :
        f[0] = Before /\ (\A i \in 1 .. n : f[i] = ParseLine(f[i - 1], ls, i)) /\ Loop(ls) = f[n]
  BY LoopScan
<1>3. PICK g \in [0 .. n + 1 -> State] :
        /\ g[0] = Before /\ Loop(lx) = g[n + 1]
        /\ \A i \in 1 .. n + 1 : g[i] = ParseLine(g[i - 1], lx, i)
  <2> HIDE DEF lx
  <2> QED
    BY <1>1, LoopScan
<1> HIDE DEF lx
<1> DEFINE T == {m \in Nat : m <= n => g[m] = f[m]}
<1>4. T = Nat
  <2>1. 0 \in T
    BY <1>2, <1>3
  <2>2. ASSUME NEW m \in T PROVE m + 1 \in T
    <3> SUFFICES ASSUME m + 1 <= n PROVE g[m + 1] = f[m + 1]
      OBVIOUS
    <3>1. m + 1 \in 1 .. n /\ m + 1 \in 1 .. n + 1 /\ m + 1 - 1 = m /\ g[m] = f[m]
      BY <1>1
    <3>2. g[m + 1] = ParseLine(f[m], lx, m + 1) /\ f[m + 1] = ParseLine(f[m], ls, m + 1)
      BY <1>2, <1>3, <3>1
    <3> QED
      BY <1>1, <3>1, <3>2 DEF ParseLine, Closed, EndsAt
  <2>3. T \in SUBSET Nat
    OBVIOUS
  <2> HIDE DEF T
  <2> QED
    BY <2>1, <2>2, <2>3, SetInduction
<1>5. g[n] = f[n] /\ n + 1 \in 1 .. n + 1 /\ n + 1 - 1 = n
  BY <1>1, <1>4
<1> QED
  BY <1>2, <1>3, <1>5 DEF lx

\* The loop over no lines.
LEMMA LoopOfNothing == Loop(<<>>) = Before
<1>1. <<>> \in Seq(TextLines) /\ Len(<<>>) = 0
  OBVIOUS
<1> QED
  BY <1>1, LoopScan

\* Closed entries end at the latest line seen, the open one begins before.
LoopOK(s, n) ==
  /\ s \in State
  /\ \A k \in DOMAIN s.out : s.out[k].start \in 1 .. s.out[k].end - 1 /\ s.out[k].end <= n
  /\ s.current # None => s.current \in Span /\ s.current.start \in 1 .. n

\* What the loop knows of the entry it is in the middle of.
LEMMA LoopInvariant ==
  ASSUME NEW ls \in Seq(TextLines) PROVE LoopOK(Loop(ls), Len(ls))
<1> DEFINE Q == {l \in Seq(TextLines) : LoopOK(Loop(l), Len(l))}
<1>1. <<>> \in Q
  <2>1. Before.out = <<>> /\ Before.current = None /\ Before \in State /\ DOMAIN <<>> = {}
        /\ Len(<<>>) = 0 /\ <<>> \in Seq(TextLines)
    BY BeforeType
  <2> QED
    BY <2>1, LoopOfNothing DEF LoopOK
<1>2. ASSUME NEW l \in Q, NEW x \in TextLines PROVE Append(l, x) \in Q
  <2> DEFINE n == Len(l)  s == Loop(l)  lx == Append(l, x)
  <2>1. lx \in Seq(TextLines) /\ n \in Nat /\ Len(lx) = n + 1 /\ lx[n + 1] = x
    OBVIOUS
  <2>2. LoopOK(s, n) /\ Loop(lx) = ParseLine(s, lx, n + 1)
    BY LoopOfAppend
  <2> HIDE DEF s, lx, n, Q
  <2>3. LoopOK(ParseLine(s, lx, n + 1), n + 1)
    <3>1. /\ ParseLine(s, lx, n + 1) \in State /\ s \in State
          /\ s.out \in Seq(Span) /\ s.current \in Span \cup {None}
      <4>1. s \in State
        BY <2>2 DEF LoopOK
      <4>2. n + 1 \in 1 .. Len(lx)
        BY <2>1
      <4> QED
        BY <2>1, <4>1, <4>2, StepType, StateType
    <3> DEFINE o == Closed(s, lx, n + 1)
    <3>2. \A k \in DOMAIN o : o[k].start \in 1 .. o[k].end - 1 /\ o[k].end <= n + 1
      <4>1. \A k \in DOMAIN s.out : s.out[k] \in Span
        BY <3>1
      <4>2. \A k \in DOMAIN s.out : s.out[k].start \in 1 .. s.out[k].end - 1 /\ s.out[k].end <= n + 1
        BY <2>1, <2>2, <4>1, SpanType DEF LoopOK
      <4>3. CASE s.current = None
        BY <4>2, <4>3 DEF Closed
      <4>4. CASE s.current # None
        <5> DEFINE e == Until(s.current, n + 1)
        <5>1. o = Append(s.out, e)
          BY <4>4 DEF Closed, EndsAt, Until
        <5>2. s.current \in Span /\ s.current.start \in 1 .. n
          BY <2>2, <4>4 DEF LoopOK
        <5>3. e \in Span /\ e.start \in 1 .. n /\ e.end = n + 1
          BY <2>1, <5>2, UntilType
        <5> HIDE DEF e, o
        <5>4. /\ DOMAIN o = 1 .. Len(s.out) + 1 /\ DOMAIN s.out = 1 .. Len(s.out)
              /\ o[Len(s.out) + 1] = e /\ \A k \in 1 .. Len(s.out) : o[k] = s.out[k]
              /\ Len(s.out) \in Nat
          BY <3>1, <5>1, <5>3, AppendIs
        <5>5. /\ e.end \in Nat /\ e.start \in Nat
              /\ \A k \in DOMAIN s.out : s.out[k].end \in Nat /\ s.out[k].start \in Nat
          BY <4>1, <5>3, SpanType
        <5>6. \A k \in DOMAIN o : k = Len(s.out) + 1 \/ k \in DOMAIN s.out
          BY <5>4
        <5> QED
          BY SMTT(30), <2>1, <4>2, <5>3, <5>4, <5>5, <5>6
      <4> QED
        BY <4>3, <4>4
    <3> HIDE DEF o
    <3>3. CASE x.is = "header"
      <4> DEFINE h == [id |-> x.id, start |-> n + 1, end |-> n + 1]
      <4>1. ParseLine(s, lx, n + 1) = [out |-> o, current |-> h]
        BY <2>1, <3>3 DEF ParseLine, o
      <4>2. h \in Span /\ h.start = n + 1
        BY <2>1, <3>3, LineKinds DEF Span
      <4> HIDE DEF h
      <4> QED
        BY <2>1, <3>1, <3>2, <4>1, <4>2 DEF LoopOK
    <3>4. CASE x.is = "field"
      <4>1. ParseLine(s, lx, n + 1) = s
        BY <2>1, <3>4 DEF ParseLine
      <4>2. \A k \in DOMAIN s.out : s.out[k] \in Span
        BY <3>1
      <4> QED
        BY <2>1, <2>2, <3>1, <4>1, <4>2, SpanType DEF LoopOK
    <3>5. CASE x.is \notin {"header", "field"}
      <4>1. ParseLine(s, lx, n + 1) = [out |-> o, current |-> None]
        BY <2>1, <3>5 DEF ParseLine, o
      <4> QED
        BY <3>1, <3>2, <4>1 DEF LoopOK
    <3> QED
      BY <3>3, <3>4, <3>5
  <2> QED
    BY <2>1, <2>2, <2>3 DEF s, n, lx, Q
<1>3. Q \in SUBSET Seq(TextLines)
  OBVIOUS
<1>4. Q = Seq(TextLines)
  <2> HIDE DEF Q
  <2> QED
    BY <1>1, <1>2, <1>3, SeqInduction
<1> QED
  BY <1>4

-----------------------------------------------------------------------------
(* The entries of a list of lines, one line at a time.                     *)

Entries(ls) == Closed(Loop(ls), ls, Len(ls) + 1)

\* The last entry goes on to the last line.
Open(ls) == Entries(ls) # <<>> /\ Last(Entries(ls)).end = Len(ls) + 1

\* parse_gaps answers the entries of the lines.
LEMMA ParseIs == \A t : Parse(t) = Entries(Lines(t))
BY DEF Parse, Entries, Loop, Before

\* Entries are a sequence of spans.
LEMMA EntriesType ==
  ASSUME NEW ls \in Seq(TextLines)
  PROVE  /\ Entries(ls) \in Seq(Span)
         /\ \A k \in DOMAIN Entries(ls) :
              /\ Entries(ls)[k].start \in 1 .. Len(ls)
              /\ Entries(ls)[k].end \in Entries(ls)[k].start + 1 .. Len(ls) + 1
         /\ Open(ls) <=> Loop(ls).current # None
<1> DEFINE n == Len(ls)  s == Loop(ls)  es == Entries(ls)
<1>1. LoopOK(s, n) /\ n \in Nat
  BY LoopInvariant
<1>2. es = Closed(s, ls, n + 1) /\ (Open(ls) <=> es # <<>> /\ es[Len(es)].end = n + 1)
  BY DEF Entries, Open, Last
<1> HIDE DEF s, n, es
<1>3. CASE s.current = None
  <2>1. es = s.out
    BY <1>2, <1>3 DEF Closed
  <2>2. es \in Seq(Span) /\ \A k \in DOMAIN es :
           /\ es[k].start \in 1 .. n
           /\ es[k].end \in es[k].start + 1 .. n
    <3>1. es \in Seq(Span)
      BY <1>1, <2>1, StateType DEF LoopOK
    <3>2. \A k \in DOMAIN es : es[k] \in Span
      BY <3>1
    <3>3. \A k \in DOMAIN es : es[k].start \in 1 .. es[k].end - 1 /\ es[k].end <= n
      BY <1>1, <2>1 DEF LoopOK
    <3> QED
      BY <1>1, <3>1, <3>2, <3>3, SpanType
  <2>3. ~Open(ls)
    BY <1>1, <1>2, <2>2
  <2> QED
    BY <1>1, <1>3, <2>2, <2>3 DEF es, s, n
<1>4. CASE s.current # None
  <2> DEFINE e == Until(s.current, n + 1)
  <2>1. e \in Span /\ e.start \in 1 .. n /\ e.end = n + 1 /\ s.out \in Seq(Span)
    <3>1. s.current \in Span /\ s.current.start \in 1 .. n /\ s.out \in Seq(Span)
      BY <1>1, <1>4, StateType DEF LoopOK
    <3> QED
      BY <1>1, <3>1, UntilType
  <2>2. es = Append(s.out, e)
    BY <1>2, <1>4 DEF Closed, EndsAt, Until
  <2> HIDE DEF e
  <2>3. /\ es \in Seq(Span) /\ es # <<>> /\ es[Len(es)] = e
        /\ DOMAIN es = 1 .. Len(s.out) + 1 /\ DOMAIN s.out = 1 .. Len(s.out)
        /\ es[Len(s.out) + 1] = e /\ \A k \in 1 .. Len(s.out) : es[k] = s.out[k]
        /\ Len(s.out) \in Nat
    BY <2>1, <2>2, AppendIs
  <2>4. \A k \in DOMAIN es :
           /\ es[k].start \in 1 .. n
           /\ es[k].end \in es[k].start + 1 .. n + 1
    <3>1. \A k \in DOMAIN s.out : s.out[k] \in Span
      BY <2>1
    <3>2. \A k \in DOMAIN s.out : s.out[k].start \in 1 .. s.out[k].end - 1 /\ s.out[k].end <= n
      BY <1>1 DEF LoopOK
    <3>3. \A k \in DOMAIN s.out : s.out[k].start \in 1 .. n /\ s.out[k].end \in s.out[k].start + 1 .. n + 1
      BY <1>1, <3>1, <3>2, SpanType
    <3>4. \A k \in DOMAIN es : k = Len(s.out) + 1 \/ k \in DOMAIN s.out
      BY <2>3
    <3>5. e.start \in 1 .. n /\ e.end \in e.start + 1 .. n + 1
      BY <1>1, <2>1
    <3> SUFFICES ASSUME NEW k \in DOMAIN es
                 PROVE  es[k].start \in 1 .. n /\ es[k].end \in es[k].start + 1 .. n + 1
      OBVIOUS
    <3>6. CASE k = Len(s.out) + 1
      BY <2>3, <3>5, <3>6
    <3>7. CASE k \in DOMAIN s.out
      <4>1. es[k] = s.out[k]
        BY <2>3, <3>7
      <4> QED
        BY <3>3, <3>7, <4>1
    <3> QED
      BY <3>4, <3>6, <3>7
  <2> QED
    BY <1>2, <1>4, <2>1, <2>3, <2>4 DEF es, s, n
<1> QED
  BY <1>3, <1>4

\* The same, for one entry.
LEMMA EntryBounds ==
  ASSUME NEW ls \in Seq(TextLines), NEW k \in DOMAIN Entries(ls)
  PROVE  LET e == Entries(ls)[k]
         IN /\ e \in Span /\ e.id \in GapIds /\ e.start \in Nat /\ e.end \in Nat
            /\ 1 <= e.start /\ e.start <= Len(ls)
            /\ e.start + 1 <= e.end /\ e.end <= Len(ls) + 1
            /\ Len(ls) \in Nat /\ k \in Nat /\ k >= 1 /\ k <= Len(Entries(ls))
            /\ Len(Entries(ls)) \in Nat
<1> DEFINE es == Entries(ls)  e == es[k]  n == Len(ls)
<1>1. es \in Seq(Span) /\ e.start \in 1 .. n /\ e.end \in e.start + 1 .. n + 1 /\ n \in Nat
  BY EntriesType
<1>2. k \in 1 .. Len(es) /\ Len(es) \in Nat
  BY <1>1
<1> HIDE DEF es
<1>3. e \in Span
  BY <1>1, <1>2
<1> HIDE DEF e
<1>4. e.id \in GapIds /\ e.start \in Nat /\ e.end \in Nat
  BY <1>3, SpanType
<1> QED
  BY <1>1, <1>2, <1>3, <1>4 DEF e, es, n

\* No lines, no entries.
LEMMA EntriesOfNothing == Entries(<<>>) = <<>> /\ ~Open(<<>>)
BY LoopOfNothing DEF Entries, Open, Closed, Before

\* What one more line makes of the entries.
LEMMA EntriesOfAppend ==
  ASSUME NEW ls \in Seq(TextLines), NEW x \in TextLines
  PROVE  LET n == Len(ls)  es == Entries(ls)
         IN /\ x.is = "header" =>
                 Entries(Append(ls, x)) = Append(es, [id |-> x.id, start |-> n + 1, end |-> n + 2])
            /\ x.is = "field" /\ Open(ls) =>
                 Entries(Append(ls, x)) = [es EXCEPT ![Len(es)].end = n + 2]
            /\ x.is # "header" /\ (x.is = "field" => ~Open(ls)) =>
                 Entries(Append(ls, x)) = es
            /\ Open(Append(ls, x)) <=> x.is = "header" \/ (x.is = "field" /\ Open(ls))
<1> DEFINE n == Len(ls)  s == Loop(ls)  es == Entries(ls)
           lx == Append(ls, x)  sx == Loop(lx)  ex == Entries(lx)
<1>1. LoopOK(s, n) /\ n \in Nat /\ Len(lx) = n + 1 /\ lx[n + 1] = x /\ lx \in Seq(TextLines)
  BY LoopInvariant
<1>2. sx = ParseLine(s, lx, n + 1)
  BY LoopOfAppend
<1>3. es = Closed(s, ls, n + 1) /\ ex = Closed(sx, lx, n + 2)
  BY <1>1 DEF Entries
<1>4. (Open(ls) <=> s.current # None) /\ (Open(lx) <=> sx.current # None)
  <2> HIDE DEF lx
  <2> QED
    BY <1>1, EntriesType DEF s, sx
<1>5. Closed(s, lx, n + 1) = es
  BY <1>3 DEF Closed, EndsAt, Until
<1>6. x.is = "header" => x.id \in GapIds
  BY LineKinds
<1>7. CASE x.is = "header"
  <2> DEFINE e == [id |-> x.id, start |-> n + 1, end |-> n + 1]
  <2>1. sx = [out |-> es, current |-> e]
    BY <1>1, <1>2, <1>5, <1>7 DEF ParseLine
  <2>2. e \in Span /\ e # None
    BY <1>1, <1>6, <1>7, GapsTextAssumption DEF Span
  <2>3. Until(e, n + 2) = [id |-> x.id, start |-> n + 1, end |-> n + 2]
    BY DEF Until
  <2>4. ex = Append(es, Until(e, n + 2)) /\ Open(lx)
    <3> HIDE DEF e, sx, ex, es, lx
    <3> QED
      BY <1>3, <1>4, <2>1, <2>2 DEF Closed, EndsAt, Until
  <2> HIDE DEF e, n, es, ex, lx
  <2>5. ex = Append(es, [id |-> x.id, start |-> n + 1, end |-> n + 2]) /\ Open(lx)
    BY <2>3, <2>4
  <2> QED
    BY <1>7, <2>5 DEF n, es, ex, lx
<1>8. CASE x.is = "field"
  <2>1. sx = s
    BY <1>1, <1>2, <1>8 DEF ParseLine
  <2>2. CASE s.current = None
    <3>1. ex = es
      BY <1>3, <2>1, <2>2 DEF Closed
    <3> QED
      BY <1>4, <1>8, <2>1, <2>2, <3>1
  <2>3. CASE s.current # None
    <3>1. es = Append(s.out, Until(s.current, n + 1))
      BY <1>3, <2>3 DEF Closed, EndsAt, Until
    <3>2. ex = Append(s.out, Until(s.current, n + 2))
      BY <1>3, <2>1, <2>3 DEF Closed, EndsAt, Until
    <3>3. s.current \in Span /\ s.out \in Seq(Span)
      BY <1>1, <2>3 DEF LoopOK, State
    <3>4. ex = [es EXCEPT ![Len(es)].end = n + 2]
      <4> HIDE DEF ex, es, s, n
      <4> DEFINE o == s.out  c == s.current
      <4>1. es = Append(o, Until(c, n + 1)) /\ ex = Append(o, Until(c, n + 2))
            /\ c \in Span /\ o \in Seq(Span) /\ n \in Nat
        BY <1>1, <3>1, <3>2, <3>3
      <4> HIDE DEF o, c
      <4>2. Until(c, n + 1) \in Span /\ Until(c, n + 2) \in Span
            /\ Until(Until(c, n + 1), n + 2) = Until(c, n + 2)
        BY <4>1, UntilType
      <4> DEFINE r == [es EXCEPT ![Len(es)].end = n + 2]
      <4>3. es \in Seq(Span) /\ Len(es) = Len(o) + 1 /\ es[Len(es)] = Until(c, n + 1)
            /\ \A i \in 1 .. Len(o) : es[i] = o[i]
        BY <4>1, <4>2
      <4>4. r = [es EXCEPT ![Len(es)] = Until(c, n + 2)]
        <5>1. r = [es EXCEPT ![Len(es)] = Until(@, n + 2)]
          BY DEF Until
        <5> QED
          BY <4>2, <4>3, <5>1
      <4>5. r \in Seq(Span) /\ Len(r) = Len(es) /\ r[Len(es)] = Until(c, n + 2)
            /\ \A i \in 1 .. Len(o) : r[i] = es[i]
        BY <4>2, <4>3, <4>4
      <4>6. ex \in Seq(Span) /\ Len(ex) = Len(o) + 1 /\ ex[Len(o) + 1] = Until(c, n + 2)
            /\ \A i \in 1 .. Len(o) : ex[i] = o[i]
        BY <4>1, <4>2
      <4>7. \A i \in 1 .. Len(ex) : ex[i] = r[i]
        <5> HIDE DEF r
        <5> QED
          BY <4>1, <4>3, <4>5, <4>6
      <4> HIDE DEF r
      <4>8. ex = r
        BY <4>3, <4>5, <4>6, <4>7, SeqEqual
      <4> QED
        BY <4>8 DEF r
    <3> QED
      BY <1>4, <1>8, <2>1, <2>3, <3>4
  <2> QED
    BY <2>2, <2>3
<1>9. CASE x.is \notin {"header", "field"}
  <2>1. sx = [out |-> es, current |-> None]
    BY <1>1, <1>2, <1>5, <1>9 DEF ParseLine
  <2>2. ex = es /\ ~Open(lx)
    BY <1>3, <1>4, <2>1 DEF Closed
  <2> QED
    BY <1>9, <2>2
<1> QED
  BY <1>7, <1>8, <1>9

-----------------------------------------------------------------------------
(* One entry per header line, with the fields that directly follow it.     *)

HeaderLines(ls) == {i \in DOMAIN ls : ls[i].is = "header"}

SpansOK(ls) ==
  LET es == Entries(ls)  n == Len(ls)
  IN /\ {es[k].start : k \in DOMAIN es} = HeaderLines(ls)
     /\ \A k \in DOMAIN es :
          /\ ls[es[k].start].id = es[k].id
          /\ \A i \in es[k].start + 1 .. es[k].end - 1 : ls[i].is = "field"
          /\ es[k].end <= n => ls[es[k].end].is # "field"
     /\ \A j, k \in DOMAIN es : j < k => es[j].end <= es[k].start

\* Every entry spans a header line and the fields right below it, and every
\* header line has its entry.
LEMMA SpansAreRight ==
  ASSUME NEW ls \in Seq(TextLines) PROVE SpansOK(ls)
<1> DEFINE Q == {c \in Seq(TextLines) : SpansOK(c)}
<1>1. <<>> \in Q
  BY EntriesOfNothing DEF SpansOK, HeaderLines
<1>2. ASSUME NEW c \in Q, NEW x \in TextLines PROVE Append(c, x) \in Q
  <2> DEFINE cx == Append(c, x)  n == Len(c)  es == Entries(c)  ex == Entries(cx)
  <2>1. /\ cx \in Seq(TextLines) /\ Len(cx) = n + 1 /\ n \in Nat /\ cx[n + 1] = x
        /\ \A i \in 1 .. n : cx[i] = c[i]
        /\ DOMAIN c = 1 .. n /\ DOMAIN cx = 1 .. n + 1
    OBVIOUS
  <2>2. /\ es \in Seq(Span)
        /\ \A k \in DOMAIN es : es[k].start \in 1 .. n /\ es[k].end \in es[k].start + 1 .. n + 1
        /\ Open(c) <=> es # <<>> /\ es[Len(es)].end = n + 1
    BY EntriesType DEF Open, Last
  <2>3. /\ x.is = "header" => ex = Append(es, [id |-> x.id, start |-> n + 1, end |-> n + 2])
        /\ x.is = "field" /\ Open(c) => ex = [es EXCEPT ![Len(es)].end = n + 2]
        /\ x.is # "header" /\ (x.is = "field" => ~Open(c)) => ex = es
    BY EntriesOfAppend
  <2>4. /\ {es[k].start : k \in DOMAIN es} = HeaderLines(c)
        /\ \A k \in DOMAIN es :
             /\ c[es[k].start].id = es[k].id
             /\ \A i \in es[k].start + 1 .. es[k].end - 1 : c[i].is = "field"
             /\ es[k].end <= n => c[es[k].end].is # "field"
        /\ \A j, k \in DOMAIN es : j < k => es[j].end <= es[k].start
    BY DEF SpansOK
  <2>5. HeaderLines(cx) = HeaderLines(c) \cup (IF x.is = "header" THEN {n + 1} ELSE {})
    BY <2>1 DEF HeaderLines
  <2>6. DOMAIN es = 1 .. Len(es) /\ Len(es) \in Nat
    BY <2>2
  <2>7. x.is = "header" => x.id \in GapIds
    BY DEF TextLines, Header, Blank, Field, Other
  <2>0. /\ {ex[k].start : k \in DOMAIN ex} = HeaderLines(cx)
        /\ \A k \in DOMAIN ex :
             /\ cx[ex[k].start].id = ex[k].id
             /\ \A i \in ex[k].start + 1 .. ex[k].end - 1 : cx[i].is = "field"
             /\ ex[k].end <= n + 1 => cx[ex[k].end].is # "field"
        /\ \A j, k \in DOMAIN ex : j < k => ex[j].end <= ex[k].start
        => cx \in Q
    BY <2>1 DEF SpansOK
  <2> SUFFICES cx \in Q
    OBVIOUS
  <2> HIDE DEF cx, n, es, ex, Q
  <2>8. CASE x.is = "header"
    <3> DEFINE h == [id |-> x.id, start |-> n + 1, end |-> n + 2]
    <3>1. ex = Append(es, h) /\ h \in Span /\ h.id = x.id /\ h.start = n + 1 /\ h.end = n + 2
      BY <2>1, <2>3, <2>7, <2>8 DEF Span
    <3> HIDE DEF h
    <3>2. ex \in Seq(Span) /\ DOMAIN ex = 1 .. Len(es) + 1 /\ ex[Len(es) + 1] = h
          /\ \A k \in 1 .. Len(es) : ex[k] = es[k]
      BY <2>2, <3>1
    <3>3. {ex[k].start : k \in DOMAIN ex} = HeaderLines(cx)
      <4>1. {ex[k].start : k \in DOMAIN ex} = {es[k].start : k \in DOMAIN es} \cup {n + 1}
        BY <2>6, <3>1, <3>2
      <4> QED
        BY <2>4, <2>5, <2>8, <4>1
    <3>4. ASSUME NEW k \in DOMAIN ex
          PROVE  /\ cx[ex[k].start].id = ex[k].id
                 /\ \A i \in ex[k].start + 1 .. ex[k].end - 1 : cx[i].is = "field"
                 /\ ex[k].end <= n + 1 => cx[ex[k].end].is # "field"
      <4>1. CASE k = Len(es) + 1
        BY <2>1, <3>1, <3>2, <4>1
      <4>2. CASE k # Len(es) + 1
        <5>1. k \in DOMAIN es /\ ex[k] = es[k]
          BY <2>6, <3>2, <4>2
        <5>2. es[k].start \in 1 .. n /\ es[k].end \in es[k].start + 1 .. n + 1
          BY <2>2, <5>1
        <5>3. es[k].end = n + 1 => cx[es[k].end].is # "field"
          BY <2>1, <2>8
        <5>4. \A i \in es[k].start + 1 .. es[k].end - 1 : i \in 1 .. n
          BY <2>1, <5>2
        <5> QED
          BY <2>1, <2>4, <5>1, <5>2, <5>3, <5>4
      <4> QED
        BY <4>1, <4>2
    <3>5. \A j, k \in DOMAIN ex : j < k => ex[j].end <= ex[k].start
      BY <2>2, <2>4, <2>6, <3>1, <3>2
    <3> QED
      BY <2>1, <3>3, <3>4, <3>5, <2>0
  <2>9. CASE x.is = "field" /\ Open(c)
    <3>1. ex = [es EXCEPT ![Len(es)].end = n + 2] /\ Len(es) > 0 /\ es[Len(es)].end = n + 1
      BY <2>2, <2>3, <2>6, <2>9
    <3>2. /\ DOMAIN ex = DOMAIN es
          /\ \A k \in DOMAIN es : ex[k].start = es[k].start /\ ex[k].id = es[k].id
          /\ \A k \in DOMAIN es : k # Len(es) => ex[k].end = es[k].end
          /\ ex[Len(es)].end = n + 2
      <4>1. es[Len(es)] \in Span
        BY <2>2, <2>6, <3>1
      <4> QED
        BY <2>6, <3>1, <4>1 DEF Span
    <3>3. {ex[k].start : k \in DOMAIN ex} = HeaderLines(cx)
      BY <2>4, <2>5, <2>9, <3>2
    <3>4. ASSUME NEW k \in DOMAIN ex
          PROVE  /\ cx[ex[k].start].id = ex[k].id
                 /\ \A i \in ex[k].start + 1 .. ex[k].end - 1 : cx[i].is = "field"
                 /\ ex[k].end <= n + 1 => cx[ex[k].end].is # "field"
      <4>1. k \in DOMAIN es /\ es[k].start \in 1 .. n /\ es[k].end \in es[k].start + 1 .. n + 1
        BY <2>2, <3>2
      <4>0. es[k].start \in Nat
        BY <4>1
      <4>2. \A i \in es[k].start + 1 .. es[k].end - 1 : i \in 1 .. n /\ cx[i].is = "field"
        BY <2>1, <2>4, <4>1
      <4>3. CASE k = Len(es)
        <5>1. \A i \in ex[k].start + 1 .. ex[k].end - 1 : i = n + 1 \/ i \in es[k].start + 1 .. es[k].end - 1
          <6>1. ex[k].start = es[k].start /\ ex[k].end = n + 2 /\ es[k].end = n + 1
            BY <3>1, <3>2, <4>1, <4>3
          <6>2. n \in Nat
            BY <2>1
          <6> QED
            BY <4>0, <6>1, <6>2
        <5> QED
          BY <2>1, <2>4, <2>9, <3>2, <4>1, <4>2, <4>3, <5>1
      <4>4. CASE k # Len(es)
        <5>1. es[k].end <= es[Len(es)].start /\ es[Len(es)].start \in 1 .. n
          BY <2>2, <2>4, <2>6, <3>1, <4>1, <4>4
        <5>2. ex[k].start = es[k].start /\ ex[k].end = es[k].end /\ ex[k].id = es[k].id
          BY <3>2, <4>1, <4>4
        <5>3. n \in Nat /\ es[k].end \in 1 .. n
          BY <2>1, <4>0, <4>1, <5>1
        <5>4. cx[es[k].start] = c[es[k].start] /\ cx[es[k].end] = c[es[k].end]
          BY <2>1, <4>1, <5>3
        <5>5. c[es[k].start].id = es[k].id /\ c[es[k].end].is # "field"
          BY <2>4, <4>1, <5>3
        <5> QED
          BY <4>2, <5>2, <5>4, <5>5
      <4> QED
        BY <4>3, <4>4
    <3>5. \A j, k \in DOMAIN ex : j < k => ex[j].end <= ex[k].start
      BY <2>4, <2>6, <3>2
    <3> QED
      BY <2>1, <3>3, <3>4, <3>5, <2>0
  <2>10. CASE x.is # "header" /\ (x.is = "field" => ~Open(c))
    <3>1. ex = es
      BY <2>3, <2>10
    <3>2. {ex[k].start : k \in DOMAIN ex} = HeaderLines(cx)
      BY <2>4, <2>5, <2>10, <3>1
    <3>3. ASSUME NEW k \in DOMAIN ex
          PROVE  /\ cx[ex[k].start].id = ex[k].id
                 /\ \A i \in ex[k].start + 1 .. ex[k].end - 1 : cx[i].is = "field"
                 /\ ex[k].end <= n + 1 => cx[ex[k].end].is # "field"
      <4>1. k \in DOMAIN es /\ es[k].start \in 1 .. n /\ es[k].end \in es[k].start + 1 .. n + 1
        BY <2>2, <3>1
      <4>2. \A i \in es[k].start + 1 .. es[k].end - 1 : i \in 1 .. n /\ cx[i].is = "field"
        BY <2>1, <2>4, <4>1
      <4>3. es[k].end = n + 1 => x.is # "field"
        <5> SUFFICES ASSUME es[k].end = n + 1, x.is = "field" PROVE FALSE
          OBVIOUS
        <5>1. k # Len(es)
          BY <2>2, <2>10, <4>1
        <5>2. es[k].end <= es[Len(es)].start /\ es[Len(es)].start \in 1 .. n
          BY <2>2, <2>4, <2>6, <4>1, <5>1
        <5> QED
          BY <2>1, <5>2
      <4> QED
        BY <2>1, <2>4, <3>1, <4>1, <4>2, <4>3
    <3> QED
      BY <2>1, <2>4, <3>1, <3>2, <3>3, <2>0
  <2> QED
    BY <2>8, <2>9, <2>10
<1>3. Q \in SUBSET Seq(TextLines)
  OBVIOUS
<1>4. Q = Seq(TextLines)
  <2> HIDE DEF Q
  <2> QED
    BY <1>1, <1>2, <1>3, SeqInduction
<1> QED
  BY <1>4

-----------------------------------------------------------------------------
(* The gap list of a list of lines.                                        *)

Record == [id : GapIds, fields : Seq(TextLines)]

ListOf(ls) == [k \in DOMAIN Entries(ls) |-> Entry(ls, Entries(ls)[k])]

FileTexts == {t \in Seq(TextLines) : t # <<>>}

\* What lies between a and b.
LEMMA Between ==
  ASSUME NEW S, NEW q \in Seq(S), NEW a \in Nat, NEW b \in Nat, a + 1 <= b, b <= Len(q) + 1
  PROVE  /\ SubSeq(q, a + 1, b - 1) \in Seq(S) /\ Len(SubSeq(q, a + 1, b - 1)) = b - a - 1
         /\ \A i \in 1 .. b - a - 1 : SubSeq(q, a + 1, b - 1)[i] = q[a + i]
<1> DEFINE m == a + 1  n == b - 1  r == SubSeq(q, m, n)
<1>1. m \in Int /\ n \in Int /\ Len(q) \in Nat /\ m >= 1 /\ n <= Len(q) /\ n - m + 1 = b - a - 1
      /\ n - m + 1 \in Nat /\ \A i \in Int : m + i - 1 = a + i
  OBVIOUS
<1>2. \A i \in m .. n : q[i] \in S
  BY <1>1
<1>3. /\ r \in Seq(S) /\ Len(r) = IF m <= n THEN n - m + 1 ELSE 0
      /\ \A i \in 1 .. n - m + 1 : r[i] = q[m + i - 1]
  BY <1>1, <1>2, SubSeqProperties
<1> HIDE DEF r, m, n
<1>4. Len(r) = b - a - 1
  <2>1. m <= n \/ n - m + 1 = 0
    BY <1>1
  <2> QED
    BY <1>1, <1>3, <2>1
<1>5. \A i \in 1 .. b - a - 1 : r[i] = q[a + i]
  <2> TAKE i \in 1 .. b - a - 1
  <2>1. i \in 1 .. n - m + 1 /\ m + i - 1 = a + i
    BY DEF m, n
  <2> QED
    BY <1>3, <2>1
<1> QED
  BY <1>3, <1>4, <1>5 DEF r, m, n

\* The first m lines.
LEMMA PrefixType ==
  ASSUME NEW S, NEW q \in Seq(S), NEW m \in 0 .. Len(q)
  PROVE  /\ SubSeq(q, 1, m) \in Seq(S) /\ Len(SubSeq(q, 1, m)) = m
         /\ \A i \in 1 .. m : SubSeq(q, 1, m)[i] = q[i]
<1>1. 1 \in Int /\ m \in Int /\ m >= 0 /\ Len(q) \in Nat
  OBVIOUS
<1>2. \A i \in 1 .. m : q[i] \in S
  BY <1>1
<1> DEFINE r == SubSeq(q, 1, m)
<1>3. /\ r \in Seq(S) /\ Len(r) = IF 1 <= m THEN m - 1 + 1 ELSE 0
      /\ \A i \in 1 .. m - 1 + 1 : r[i] = q[1 + i - 1]
  BY <1>1, <1>2, SubSeqProperties
<1> HIDE DEF r
<1> QED
  BY <1>1, <1>3 DEF r

\* splitlines() leaves every line, but for the blank one after the last newline.
LEMMA LinesType ==
  ASSUME NEW t \in FileTexts
  PROVE  /\ Lines(t) \in Seq(TextLines)
         /\ Len(Lines(t)) \in {Len(t), Len(t) - 1}
         /\ \A i \in 1 .. Len(Lines(t)) : Lines(t)[i] = t[i]
         /\ Last(t) = Blank => t = Append(Lines(t), Blank)
         /\ Last(t) # Blank => t = Lines(t)
<1>1. t \in Seq(TextLines) /\ Len(t) \in Nat /\ Len(t) > 0
  BY DEF FileTexts
<1>2. CASE Last(t) = Blank
  <2> DEFINE r == SubSeq(t, 1, Len(t) - 1)
  <2>1. r \in Seq(TextLines) /\ Len(r) = Len(t) - 1 /\ \A i \in 1 .. Len(r) : r[i] = t[i]
    <3>1. Len(t) - 1 \in 0 .. Len(t)
      BY <1>1
    <3> QED
      BY <1>1, <3>1, PrefixType
  <2>2. Lines(t) = r
    BY <1>2 DEF Lines, Front
  <2>3. t = Append(r, Blank)
    <3>1. Blank \in TextLines /\ t[Len(t)] = Blank
      BY <1>2 DEF Last, TextLines
    <3> HIDE DEF r
    <3>2. /\ Append(r, Blank) \in Seq(TextLines) /\ Len(Append(r, Blank)) = Len(t)
          /\ \A i \in 1 .. Len(t) : Append(r, Blank)[i] = t[i]
      BY <1>1, <2>1, <3>1
    <3> QED
      BY <1>1, <3>2, SeqEqual
  <2> QED
    BY <1>2, <2>1, <2>2, <2>3
<1>3. CASE Last(t) # Blank
  BY <1>1, <1>3 DEF Lines
<1> QED
  BY <1>2, <1>3

\* The fields of an entry are the lines after its header.
LEMMA EntryIs ==
  ASSUME NEW ls \in Seq(TextLines), NEW k \in DOMAIN Entries(ls)
  PROVE  LET e == Entries(ls)[k]  r == Entry(ls, e)
         IN /\ e \in Span /\ r \in Record /\ r.id = e.id
            /\ Len(r.fields) = e.end - e.start - 1
            /\ \A i \in 1 .. e.end - e.start - 1 : r.fields[i] = ls[e.start + i]
<1> DEFINE e == Entries(ls)[k]  n == Len(ls)
<1>1. /\ e \in Span /\ e.id \in GapIds /\ n \in Nat /\ e.start \in Nat /\ e.end \in Nat
      /\ 1 <= e.start /\ e.start <= n /\ e.start + 1 <= e.end /\ e.end <= n + 1
  BY EntryBounds
<1> DEFINE a == e.start  b == e.end  f == SubSeq(ls, a + 1, b - 1)
<1>2. f \in Seq(TextLines) /\ Len(f) = b - a - 1 /\ \A i \in 1 .. b - a - 1 : f[i] = ls[a + i]
  <2> HIDE DEF a, b
  <2>1. a \in Nat /\ b \in Nat /\ a + 1 <= b /\ b <= Len(ls) + 1
    BY <1>1 DEF a, b
  <2> QED
    BY <2>1, Between
<1>3. Entry(ls, e) = [id |-> e.id, fields |-> f]
  BY DEF Entry
<1> HIDE DEF e, a, b, f
<1>4. Entry(ls, e) \in Record /\ Entry(ls, e).id = e.id /\ Entry(ls, e).fields = f
  BY <1>1, <1>2, <1>3 DEF Record
<1> QED
  BY <1>1, <1>2, <1>4 DEF e, a, b

\* The list is a sequence of records.
LEMMA ListType ==
  ASSUME NEW ls \in Seq(TextLines)
  PROVE  /\ ListOf(ls) \in Seq(Record) /\ Len(ListOf(ls)) = Len(Entries(ls))
         /\ \A k \in 1 .. Len(Entries(ls)) : ListOf(ls)[k].id = Entries(ls)[k].id
<1>1. Entries(ls) \in Seq(Span) /\ DOMAIN Entries(ls) = 1 .. Len(Entries(ls)) /\ Len(Entries(ls)) \in Nat
  BY EntriesType
<1>2. \A k \in DOMAIN Entries(ls) : Entry(ls, Entries(ls)[k]) \in Record /\ Entry(ls, Entries(ls)[k]).id = Entries(ls)[k].id
  BY EntryIs
<1>3. ListOf(ls) \in [1 .. Len(Entries(ls)) -> Record]
  BY <1>1, <1>2 DEF ListOf
<1>4. ListOf(ls) \in Seq(Record) /\ Len(ListOf(ls)) = Len(Entries(ls))
  BY <1>1, <1>3
<1> QED
  BY <1>1, <1>2, <1>4 DEF ListOf

\* Two records are one when their fields are.
LEMMA RecordsEqual ==
  ASSUME NEW r \in Record, NEW q \in Record, r.id = q.id, Len(r.fields) = Len(q.fields),
         \A i \in 1 .. Len(r.fields) : r.fields[i] = q.fields[i]
  PROVE  r = q
<1>1. r.fields \in Seq(TextLines) /\ q.fields \in Seq(TextLines)
  BY DEF Record
<1>2. r.fields = q.fields
  BY <1>1, SeqEqual
<1> QED
  BY <1>2 DEF Record

\* What follows the last line of an entry does not change what it lists.
LEMMA EntryOfPrefix ==
  ASSUME NEW ls \in Seq(TextLines), NEW u \in Seq(TextLines), NEW k \in DOMAIN Entries(ls),
         Len(u) >= Len(ls), \A i \in 1 .. Len(ls) : u[i] = ls[i]
  PROVE  Entry(u, Entries(ls)[k]) = Entry(ls, Entries(ls)[k])
<1> DEFINE e == Entries(ls)[k]  n == Len(ls)
<1>1. /\ e \in Span /\ e.id \in GapIds /\ n \in Nat /\ e.start \in Nat /\ e.end \in Nat
      /\ 1 <= e.start /\ e.start <= n /\ e.start + 1 <= e.end /\ e.end <= n + 1
  BY EntryBounds
<1> DEFINE a == e.start  b == e.end
           f == SubSeq(ls, a + 1, b - 1)  v == SubSeq(u, a + 1, b - 1)
<1>2. f = v
  <2> HIDE DEF a, b
  <2>1. a \in Nat /\ b \in Nat /\ a + 1 <= b /\ b <= n + 1 /\ b <= Len(u) + 1 /\ a >= 1 /\ n \in Nat
    <3>1. Len(u) \in Nat
      OBVIOUS
    <3> QED
      BY <1>1, <3>1 DEF a, b
  <2>2. f \in Seq(TextLines) /\ Len(f) = b - a - 1 /\ \A i \in 1 .. b - a - 1 : f[i] = ls[a + i]
    BY <2>1, Between
  <2>3. v \in Seq(TextLines) /\ Len(v) = b - a - 1 /\ \A i \in 1 .. b - a - 1 : v[i] = u[a + i]
    BY <2>1, Between
  <2> HIDE DEF f, v
  <2>4. \A i \in 1 .. b - a - 1 : f[i] = v[i]
    <3>1. \A i \in 1 .. b - a - 1 : a + i \in 1 .. n
      BY <2>1
    <3> QED
      BY <2>2, <2>3, <3>1
  <2> QED
    BY <2>2, <2>3, <2>4, SeqEqual
<1> QED
  BY <1>2 DEF Entry

\* list_gaps reads the list of the lines.
LEMMA GapsAreListed ==
  ASSUME NEW t \in FileTexts PROVE Gaps(t) = ListOf(Lines(t))
<1>1. t \in Seq(TextLines) /\ Lines(t) \in Seq(TextLines) /\ Len(t) >= Len(Lines(t))
      /\ \A i \in 1 .. Len(Lines(t)) : t[i] = Lines(t)[i]
  <2>1. Len(t) \in Nat
    BY DEF FileTexts
  <2> QED
    BY <2>1, LinesType DEF FileTexts
<1>2. \A k \in DOMAIN Entries(Lines(t)) : Entry(t, Entries(Lines(t))[k]) = Entry(Lines(t), Entries(Lines(t))[k])
  BY <1>1, EntryOfPrefix
<1> QED
  BY <1>2, ParseIs DEF Gaps, ListOf

\* What one more line makes of the list.
LEMMA ListOfAppend ==
  ASSUME NEW ls \in Seq(TextLines), NEW x \in TextLines
  PROVE  LET l == ListOf(ls)  lx == ListOf(Append(ls, x))
         IN /\ x.is = "header" => lx = Append(l, [id |-> x.id, fields |-> <<>>])
            /\ x.is = "field" /\ Open(ls) =>
                 /\ l # <<>>
                 /\ lx = [l EXCEPT ![Len(l)].fields = Append(@, x)]
            /\ x.is # "header" /\ (x.is = "field" => ~Open(ls)) => lx = l
<1> DEFINE a == Append(ls, x)  n == Len(ls)  l == ListOf(ls)  lx == ListOf(a)
           es == Entries(ls)  ex == Entries(a)
<1>1. /\ a \in Seq(TextLines) /\ n \in Nat /\ Len(a) = n + 1 /\ a[n + 1] = x
      /\ \A i \in 1 .. n : a[i] = ls[i]
  OBVIOUS
<1>2. /\ es \in Seq(Span) /\ Len(es) \in Nat /\ DOMAIN es = 1 .. Len(es)
      /\ \A k \in DOMAIN es : es[k].start \in 1 .. n /\ es[k].end \in es[k].start + 1 .. n + 1
      /\ Open(ls) => es # <<>> /\ es[Len(es)].end = n + 1
  BY EntriesType DEF Open, Last
<1>0. \A k \in DOMAIN es : es[k].start \in Nat /\ es[k].end \in Nat
  BY EntryBounds
<1>3. /\ x.is = "header" => ex = Append(es, [id |-> x.id, start |-> n + 1, end |-> n + 2])
      /\ x.is = "field" /\ Open(ls) => ex = [es EXCEPT ![Len(es)].end = n + 2]
      /\ x.is # "header" /\ (x.is = "field" => ~Open(ls)) => ex = es
  BY EntriesOfAppend
<1>4. /\ l \in Seq(Record) /\ Len(l) = Len(es)
      /\ lx \in Seq(Record) /\ Len(lx) = Len(ex)
  <2> HIDE DEF a
  <2> QED
    BY <1>1, ListType
<1> HIDE DEF a
<1>5. \A k \in DOMAIN es : Entry(a, es[k]) = Entry(ls, es[k])
  BY <1>1, EntryOfPrefix
<1>6. /\ \A k \in DOMAIN es : l[k] = Entry(ls, es[k])
      /\ \A k \in DOMAIN ex : lx[k] = Entry(a, ex[k])
  BY DEF ListOf
<1>7. x.is = "header" => x.id \in GapIds
  BY DEF TextLines, Header, Blank, Field, Other
<1>8. \A k \in DOMAIN ex :
        LET r == Entry(a, ex[k])
        IN /\ r \in Record /\ r.id = ex[k].id /\ Len(r.fields) = ex[k].end - ex[k].start - 1
           /\ \A i \in 1 .. ex[k].end - ex[k].start - 1 : r.fields[i] = a[ex[k].start + i]
  BY <1>1, EntryIs
<1>9. \A k \in DOMAIN es :
        LET r == Entry(ls, es[k])
        IN /\ r \in Record /\ r.id = es[k].id /\ Len(r.fields) = es[k].end - es[k].start - 1
           /\ \A i \in 1 .. es[k].end - es[k].start - 1 : r.fields[i] = ls[es[k].start + i]
  BY EntryIs
<1> HIDE DEF l, lx, es, ex, n
<1>10. CASE x.is = "header"
  <2> DEFINE h == [id |-> x.id, start |-> n + 1, end |-> n + 2]
             q == [id |-> x.id, fields |-> <<>>]
  <2>1. ex = Append(es, h) /\ h \in Span /\ h.id = x.id /\ h.start = n + 1 /\ h.end = n + 2
    BY <1>1, <1>3, <1>7, <1>10 DEF Span
  <2> HIDE DEF h
  <2>2. ex \in Seq(Span) /\ DOMAIN ex = 1 .. Len(es) + 1 /\ Len(ex) = Len(es) + 1 /\ ex[Len(es) + 1] = h
        /\ \A k \in 1 .. Len(es) : ex[k] = es[k]
    BY <1>2, <2>1
  <2>3. lx[Len(es) + 1] = q
    <3>1. q \in Record /\ q.id = x.id /\ Len(q.fields) = 0
      BY <1>7, <1>10 DEF Record
    <3> HIDE DEF q
    <3>2. Len(es) + 1 \in DOMAIN ex
      BY <1>2, <2>2
    <3> DEFINE r == Entry(a, ex[Len(es) + 1])
    <3>3. r \in Record /\ r.id = x.id /\ Len(r.fields) = 0
      BY <1>1, <1>8, <2>1, <2>2, <3>2
    <3>4. lx[Len(es) + 1] = r
      BY <1>6, <3>2
    <3> HIDE DEF r
    <3>5. r = q
      BY <3>1, <3>3, RecordsEqual
    <3> QED
      BY <3>4, <3>5
  <2>4. q \in Record
    BY <1>7, <1>10 DEF Record
  <2> HIDE DEF q
  <2>5. \A k \in 1 .. Len(es) : lx[k] = l[k]
    BY <1>2, <1>5, <1>6, <2>2
  <2> DEFINE v == Append(l, q)
  <2>6. v \in Seq(Record) /\ Len(v) = Len(es) + 1 /\ v[Len(es) + 1] = q /\ \A k \in 1 .. Len(es) : v[k] = l[k]
    BY <1>4, <2>4
  <2> HIDE DEF v
  <2>7. \A k \in 1 .. Len(lx) : lx[k] = v[k]
    <3>1. Len(lx) = Len(es) + 1 /\ \A k \in 1 .. Len(lx) : k = Len(es) + 1 \/ k \in 1 .. Len(es)
      BY <1>2, <1>4, <2>2
    <3> QED
      BY <2>3, <2>5, <2>6, <3>1
  <2>8. lx = v
    BY <1>4, <2>2, <2>6, <2>7, SeqEqual
  <2> QED
    BY <1>10, <2>8 DEF v, q, l, lx, a
<1>11. CASE x.is = "field" /\ Open(ls)
  <2> DEFINE m == Len(es)
  <2>1. ex = [es EXCEPT ![m].end = n + 2] /\ m \in 1 .. m /\ es[m].end = n + 1 /\ m \in Nat
    BY <1>2, <1>3, <1>11
  <2>2. /\ DOMAIN ex = DOMAIN es /\ Len(ex) = m
        /\ ex[m].start = es[m].start /\ ex[m].id = es[m].id /\ ex[m].end = n + 2
        /\ \A k \in DOMAIN es : k # m => ex[k] = es[k]
    <3>1. es[m] \in Span
      BY <1>2, <2>1
    <3>2. ex \in Seq(Span) /\ Len(ex) = m
      <4>1. [es[m] EXCEPT !.end = n + 2] \in Span
        <5>1. [es[m] EXCEPT !.end = n + 2] = Until(es[m], n + 2) /\ n + 2 \in Nat
          BY <1>1 DEF Until
        <5> QED
          BY <3>1, <5>1, UntilType
      <4>2. ex = [es EXCEPT ![m] = [es[m] EXCEPT !.end = n + 2]]
        BY <1>2, <2>1
      <4> QED
        BY <1>2, <2>1, <4>1, <4>2
    <3> QED
      BY <1>2, <2>1, <3>1, <3>2 DEF Span
  <2> HIDE DEF m
  <2> DEFINE f == Append(l[m].fields, x)
             q == [l[m] EXCEPT !.fields = f]
  <2>3. m \in DOMAIN es /\ m \in DOMAIN ex /\ l[m] = Entry(ls, es[m]) /\ lx[m] = Entry(a, ex[m])
        /\ es[m].start \in 1 .. n
    BY <1>2, <1>6, <2>1, <2>2 DEF m
  <2> DEFINE p == es[m].start
  <2>14. p \in Nat /\ p \in 1 .. n /\ n \in Nat
    BY <1>0, <1>1, <2>3
  <2> HIDE DEF p
  <2>4. /\ l[m] \in Record /\ l[m].id = es[m].id /\ Len(l[m].fields) = n - p
        /\ \A i \in 1 .. n - p : l[m].fields[i] = ls[p + i]
    <3>1. es[m].end = n + 1 /\ n + 1 - p - 1 = n - p
      BY <2>1, <2>14
    <3>2. /\ l[m] \in Record /\ l[m].id = es[m].id /\ Len(l[m].fields) = n + 1 - p - 1
          /\ \A i \in 1 .. n + 1 - p - 1 : l[m].fields[i] = ls[p + i]
      <4>1. /\ l[m] \in Record /\ l[m].id = es[m].id /\ Len(l[m].fields) = es[m].end - p - 1
            /\ \A i \in 1 .. es[m].end - p - 1 : l[m].fields[i] = ls[p + i]
        BY <1>9, <2>3, Zenon DEF p
      <4>2. es[m].end - p - 1 = n + 1 - p - 1
        BY <2>14, <3>1
      <4> QED
        BY <4>1, <4>2, Zenon
    <3> QED
      BY <3>1, <3>2
  <2>5. /\ lx[m] \in Record /\ lx[m].id = es[m].id /\ Len(lx[m].fields) = n + 1 - p
        /\ \A i \in 1 .. n + 1 - p : lx[m].fields[i] = a[p + i]
    <3>1. ex[m].end = n + 2 /\ ex[m].start = p /\ n + 2 - p - 1 = n + 1 - p
      BY <2>2, <2>14 DEF p
    <3>2. /\ lx[m] \in Record /\ lx[m].id = es[m].id /\ Len(lx[m].fields) = n + 2 - p - 1
          /\ \A i \in 1 .. n + 2 - p - 1 : lx[m].fields[i] = a[p + i]
      <4>1. /\ lx[m] \in Record /\ lx[m].id = ex[m].id /\ Len(lx[m].fields) = ex[m].end - ex[m].start - 1
            /\ \A i \in 1 .. ex[m].end - ex[m].start - 1 : lx[m].fields[i] = a[ex[m].start + i]
        BY <1>8, <2>3, Zenon
      <4>2. ex[m].end - ex[m].start - 1 = n + 2 - p - 1 /\ ex[m].id = es[m].id /\ ex[m].start = p
        BY <2>2, <2>14, <3>1
      <4>3. \A i : a[ex[m].start + i] = a[p + i]
        BY <4>2, Zenon
      <4> QED
        BY <4>1, <4>2, <4>3, Zenon
    <3> QED
      BY <3>1, <3>2
  <2>6. /\ f \in Seq(TextLines) /\ Len(f) = n + 1 - p /\ f[n + 1 - p] = x
        /\ \A i \in 1 .. n - p : f[i] = ls[p + i]
    <3>1. l[m].fields \in Seq(TextLines)
      BY <2>4 DEF Record
    <3> DEFINE lf == l[m].fields
    <3>2. lf \in Seq(TextLines) /\ Len(lf) = n - p /\ \A i \in 1 .. n - p : lf[i] = ls[p + i]
      BY <2>4, <3>1
    <3> HIDE DEF lf
    <3>3. /\ Append(lf, x) \in Seq(TextLines) /\ Len(Append(lf, x)) = n - p + 1
          /\ Append(lf, x)[n - p + 1] = x /\ \A i \in 1 .. n - p : Append(lf, x)[i] = ls[p + i]
      BY <3>2, AppendIs
    <3>4. n - p + 1 = n + 1 - p
      BY <2>14
    <3> QED
      BY <3>3, <3>4, Zenon DEF lf
  <2> HIDE DEF f
  <2>7. q \in Record /\ q.id = es[m].id /\ q.fields = f
    BY <2>4, <2>6 DEF Record
  <2> HIDE DEF q
  <2>8. lx[m] = q
    <3>1. \A i \in 1 .. n + 1 - p : lx[m].fields[i] = q.fields[i]
      <4> TAKE i \in 1 .. n + 1 - p
      <4>1. CASE i = n + 1 - p
        <5>1. p + i = n + 1
          BY <1>1, <2>3, <2>14, <4>1
        <5> QED
          BY <1>1, <2>5, <2>6, <2>7, <4>1, <5>1
      <4>2. CASE i # n + 1 - p
        <5>1. i \in 1 .. n - p /\ p + i \in 1 .. n
          BY <2>14, <4>2
        <5> QED
          BY <1>1, <2>5, <2>6, <2>7, <5>1
      <4> QED
        BY <4>1, <4>2
    <3> QED
      BY <2>5, <2>6, <2>7, <3>1, RecordsEqual
  <2> DEFINE v == [l EXCEPT ![m] = q]
  <2>9. v \in Seq(Record) /\ Len(v) = m /\ v[m] = q /\ \A k \in 1 .. m : k # m => v[k] = l[k]
    BY <1>4, <2>1, <2>7 DEF m
  <2>10. \A k \in 1 .. m : k # m => lx[k] = l[k]
    BY <1>2, <1>5, <1>6, <2>2 DEF m
  <2> HIDE DEF v
  <2>0. \A k \in 1 .. Len(lx) : lx[k] = v[k]
    BY <1>4, <2>2, <2>8, <2>9, <2>10
  <2>12. lx = v
    BY <1>4, <2>2, <2>9, <2>0, SeqEqual
  <2>13. l # <<>> /\ m = Len(l) /\ lx = [l EXCEPT ![m].fields = Append(@, x)]
    BY <1>4, <2>1, <2>12 DEF v, q, f, m
  <2> QED
    BY <1>11, <2>13 DEF l, lx, a
<1>12. CASE x.is # "header" /\ (x.is = "field" => ~Open(ls))
  <2>1. ex = es
    BY <1>3, <1>12
  <2>2. \A k \in 1 .. Len(lx) : lx[k] = l[k]
    BY <1>2, <1>4, <1>5, <1>6, <2>1
  <2>3. lx = l
    BY <1>4, <2>1, <2>2, SeqEqual
  <2> QED
    BY <1>12, <2>3 DEF l, lx, a
<1> QED
  BY <1>10, <1>11, <1>12

-----------------------------------------------------------------------------
(* What the list leaves out: the non-blank lines around the entries.       *)

Inside(ls) == UNION {Entries(ls)[k].start .. Entries(ls)[k].end - 1 : k \in DOMAIN Entries(ls)}

KeepOutside(s, ls, i) == IF ls[i] = Blank \/ i \in Inside(ls) THEN s ELSE Append(s, ls[i])

Rest(ls) == FoldLeftDomain(LAMBDA s, i : KeepOutside(s, ls, i), <<>>, ls)

\* One line of the walk around the entries.
LEMMA KeepOutsideType ==
  ASSUME NEW ls \in Seq(TextLines), NEW i \in 1 .. Len(ls), NEW s \in Seq(TextLines)
  PROVE  KeepOutside(s, ls, i) \in Seq(TextLines)
<1>1. ls[i] \in TextLines
  OBVIOUS
<1> QED
  BY <1>1 DEF KeepOutside

\* The walk around the entries reads the lines one by one.
LEMMA RestScan ==
  ASSUME NEW ls \in Seq(TextLines)
  PROVE  \E f \in [0 .. Len(ls) -> Seq(TextLines)] :
           /\ f[0] = <<>>
           /\ \A i \in 1 .. Len(ls) : f[i] = KeepOutside(f[i - 1], ls, i)
           /\ Rest(ls) = f[Len(ls)]
<1> DEFINE n == Len(ls)
           op == [i \in 1 .. n |-> [s \in Seq(TextLines) |-> KeepOutside(s, ls, i)]]
           sq == [i \in DOMAIN ls |-> i]
           Equation(h) == h = [s \in SUBSET (DOMAIN sq) |->
                                 IF s = {} THEN <<>>
                                 ELSE KeepOutside(h[s \ {Max(s)}], ls, sq[Max(s)])]
           it == CHOOSE h : Equation(h)
<1>1. n \in Nat /\ DOMAIN sq = 1 .. n /\ \A i \in 1 .. n : sq[i] = i
  OBVIOUS
<1>2. Rest(ls) = it[1 .. n]
  <2>1. Rest(ls) = it[DOMAIN sq]
    BY DEF Rest, KeepOutside, FoldLeftDomain, FoldLeft, MapThenFoldSet
  <2> HIDE DEF it
  <2> QED
    BY <1>1, <2>1
<1> HIDE DEF sq
<1>3. /\ op \in [1 .. n -> [Seq(TextLines) -> Seq(TextLines)]]
      /\ \A i \in 1 .. n, s \in Seq(TextLines) : op[i][s] = KeepOutside(s, ls, i)
  BY KeepOutsideType
<1>4. <<>> \in Seq(TextLines)
  OBVIOUS
<1> HIDE DEF op
<1>5. \E h : Equation(h)
  <2>1. PICK g :
          /\ g = [s \in SUBSET (1 .. n) |->
                    IF s = {} THEN <<>> ELSE op[Max(s)][g[s \ {Max(s)}]]]
          /\ \A s \in SUBSET (1 .. n) : s # {} =>
               g[s \ {Max(s)}] \in Seq(TextLines) /\ Max(s) \in 1 .. n
    BY <1>1, <1>3, <1>4, FoldEquation
  <2>2. \A s \in SUBSET (1 .. n) : s # {} =>
          op[Max(s)][g[s \ {Max(s)}]] = KeepOutside(g[s \ {Max(s)}], ls, sq[Max(s)])
    <3> HIDE DEF Max
    <3> QED
      BY <1>1, <1>3, <2>1
  <2>3. Equation(g)
    <3> HIDE DEF Max
    <3> QED
      BY <1>1, <2>1, <2>2, Zenon
  <2> QED
    BY <2>3
<1>6. Equation(it)
  <2> HIDE DEF Equation
  <2> QED
    BY <1>5
<1> HIDE DEF it
<1>7. \A s \in SUBSET (1 .. n) : s # {} => Max(s) \in 1 .. n
  <2> TAKE s \in SUBSET (1 .. n)
  <2> HAVE s # {}
  <2>1. Max(s) \in s
    BY <1>1, MaxOf
  <2> QED
    BY <2>1
<1>8. /\ it[{}] = <<>>
      /\ \A s \in SUBSET (1 .. n) : s # {} => it[s] = KeepOutside(it[s \ {Max(s)}], ls, sq[Max(s)])
  BY <1>1, <1>6
<1> HIDE DEF Equation
<1> HIDE DEF n
<1>9. MaxLast(it, Seq(TextLines), <<>>, op, n)
  <2> SUFFICES ASSUME NEW s \in SUBSET (1 .. n), s # {}, it[s \ {Max(s)}] \in Seq(TextLines)
               PROVE  it[s] = op[Max(s)][it[s \ {Max(s)}]]
    BY <1>8 DEF MaxLast
  <2>1. Max(s) \in 1 .. n
    BY <1>7
  <2>2. sq[Max(s)] = Max(s)
    BY <1>1, <2>1
  <2>3. it[s] = KeepOutside(it[s \ {Max(s)}], ls, Max(s))
    BY <1>8, <2>2
  <2> QED
    BY <1>3, <2>1, <2>3
<1>10. PICK f : IsScan(f, Seq(TextLines), <<>>, op, n) /\ it[1 .. n] = f[n]
  <2> DEFINE D == Seq(TextLines)  base == <<>>
  <2>1. n \in Nat /\ base \in D /\ op \in [1 .. n -> [D -> D]] /\ MaxLast(it, D, base, op, n)
    BY <1>1, <1>3, <1>4, <1>9
  <2> HIDE DEF D, base
  <2>2. \E f : IsScan(f, D, base, op, n) /\ it[1 .. n] = f[n]
    BY <2>1, FoldScan
  <2> QED
    BY <2>2 DEF D, base
<1>11. /\ f \in [0 .. n -> Seq(TextLines)] /\ f[0] = <<>>
       /\ \A i \in 1 .. n : f[i] = op[i][f[i - 1]] /\ f[i - 1] \in Seq(TextLines)
  <2> DEFINE D == Seq(TextLines)
  <2>1. /\ f \in [0 .. n -> D] /\ f[0] = <<>>
        /\ \A i \in 1 .. n : f[i] = op[i][f[i - 1]]
    BY <1>10 DEF IsScan
  <2>2. \A i \in 1 .. n : i - 1 \in 0 .. n
    BY <1>1
  <2> HIDE DEF D
  <2>3. \A i \in 1 .. n : f[i - 1] \in D
    BY <2>1, <2>2
  <2> QED
    BY <2>1, <2>3 DEF D
<1> QED
  BY <1>2, <1>3, <1>10, <1>11 DEF n

\* A line is inside when it is inside one of the entries.
LEMMA InsideIs ==
  ASSUME NEW ls \in Seq(TextLines), NEW i
  PROVE  /\ i \in Inside(ls) <=>
              \E k \in DOMAIN Entries(ls) : i \in Entries(ls)[k].start .. Entries(ls)[k].end - 1
         /\ i \in Inside(ls) => i \in 1 .. Len(ls)
<1>1. i \in Inside(ls) <=>
        \E k \in DOMAIN Entries(ls) : i \in Entries(ls)[k].start .. Entries(ls)[k].end - 1
  BY DEF Inside
<1>2. ASSUME NEW k \in DOMAIN Entries(ls), i \in Entries(ls)[k].start .. Entries(ls)[k].end - 1
      PROVE  i \in 1 .. Len(ls)
  <2> DEFINE a == Entries(ls)[k].start  b == Entries(ls)[k].end
  <2>1. a \in Nat /\ b \in Nat /\ 1 <= a /\ b <= Len(ls) + 1 /\ Len(ls) \in Nat
    BY EntryBounds
  <2>2. i \in a .. b - 1
    BY <1>2
  <2> HIDE DEF a, b
  <2> QED
    BY <2>1, <2>2
<1> QED
  BY <1>1, <1>2

\* One more line is inside an entry when it is a header or adds a field to one.
LEMMA InsideStep ==
  ASSUME NEW ls \in Seq(TextLines), NEW x \in TextLines
  PROVE  /\ \A i \in 1 .. Len(ls) : i \in Inside(Append(ls, x)) <=> i \in Inside(ls)
         /\ Len(ls) + 1 \in Inside(Append(ls, x)) <=> x.is = "header" \/ (x.is = "field" /\ Open(ls))
<1> DEFINE lx == Append(ls, x)  n == Len(ls)  es == Entries(ls)  ex == Entries(lx)
<1>1. lx \in Seq(TextLines) /\ n \in Nat /\ Len(lx) = n + 1
  BY AppendIs
<1>2. /\ es \in Seq(Span) /\ Len(es) \in Nat /\ DOMAIN es = 1 .. Len(es)
      /\ Open(ls) <=> es # <<>> /\ es[Len(es)].end = n + 1
  BY EntriesType DEF Open, Last
<1>3. \A k \in DOMAIN es :
        /\ es[k] \in Span /\ es[k].start \in Nat /\ es[k].end \in Nat
        /\ 1 <= es[k].start /\ es[k].start <= n /\ es[k].start + 1 <= es[k].end /\ es[k].end <= n + 1
  BY EntryBounds
<1>4. /\ x.is = "header" => ex = Append(es, [id |-> x.id, start |-> n + 1, end |-> n + 2])
      /\ x.is = "field" /\ Open(ls) => ex = [es EXCEPT ![Len(es)].end = n + 2]
      /\ x.is # "header" /\ (x.is = "field" => ~Open(ls)) => ex = es
  BY EntriesOfAppend
<1>5. /\ \A i : i \in Inside(ls) <=> \E k \in DOMAIN es : i \in es[k].start .. es[k].end - 1
      /\ \A i : i \in Inside(lx) <=> \E k \in DOMAIN ex : i \in ex[k].start .. ex[k].end - 1
  BY DEF Inside
<1>6. x.is = "header" => x.id \in GapIds
  BY LineKinds
<1> HIDE DEF lx, n, es, ex
<1>7. CASE x.is = "header"
  <2> DEFINE h == [id |-> x.id, start |-> n + 1, end |-> n + 2]
  <2>1. ex = Append(es, h) /\ h \in Span /\ h.start = n + 1 /\ h.end = n + 2
    BY <1>1, <1>4, <1>6, <1>7 DEF Span
  <2> HIDE DEF h
  <2>2. /\ DOMAIN ex = 1 .. Len(es) + 1 /\ ex[Len(es) + 1] = h
        /\ \A k \in 1 .. Len(es) : ex[k] = es[k]
    BY <1>2, <2>1, AppendIs
  <2>3. \A i : i \in h.start .. h.end - 1 <=> i = n + 1
    BY <1>1, <2>1
  <2>4. \A i : i \in Inside(lx) <=> i \in Inside(ls) \/ i = n + 1
    <3> TAKE i
    <3>1. (\E k \in DOMAIN ex : i \in ex[k].start .. ex[k].end - 1)
            <=> (\E k \in DOMAIN es : i \in es[k].start .. es[k].end - 1) \/ i \in h.start .. h.end - 1
      <4>1. \A k \in DOMAIN ex : k = Len(es) + 1 \/ k \in DOMAIN es
        BY <1>2, <2>2
      <4>2. Len(es) + 1 \in DOMAIN ex /\ \A k \in DOMAIN es : k \in DOMAIN ex
        BY <1>2, <2>2
      <4>3. \A k \in DOMAIN es : ex[k] = es[k]
        BY <1>2, <2>2
      <4> QED
        BY <2>2, <4>1, <4>2, <4>3, Zenon
    <3> QED
      BY <1>5, <2>3, <3>1, Zenon
  <2> QED
    BY <1>1, <1>7, <2>4 DEF lx, n
<1>8. CASE x.is = "field" /\ Open(ls)
  <2> DEFINE m == Len(es)
  <2>1. ex = [es EXCEPT ![m].end = n + 2] /\ m \in DOMAIN es /\ es[m].end = n + 1
    BY <1>2, <1>4, <1>8
  <2>2. /\ DOMAIN ex = DOMAIN es
        /\ ex[m].start = es[m].start /\ ex[m].end = n + 2
        /\ \A k \in DOMAIN es : k # m => ex[k] = es[k]
    <3>1. es[m] \in Span
      BY <1>3, <2>1
    <3> QED
      BY <1>2, <2>1, <3>1 DEF Span
  <2> HIDE DEF m
  <2>3. \A i : i \in ex[m].start .. ex[m].end - 1 <=> i \in es[m].start .. es[m].end - 1 \/ i = n + 1
    <3> DEFINE a == es[m].start
    <3>1. a \in Nat /\ a <= n /\ n \in Nat
      BY <1>1, <1>3, <2>1
    <3> HIDE DEF a
    <3>2. \A i : i \in a .. n + 2 - 1 <=> i \in a .. n + 1 - 1 \/ i = n + 1
      BY <3>1
    <3>3. ex[m].start = a /\ ex[m].end = n + 2 /\ es[m].start = a /\ es[m].end = n + 1
      BY <2>1, <2>2 DEF a
    <3> QED
      BY <1>1, <3>1, <3>2, <3>3
  <2>4. \A i : i \in Inside(lx) <=> i \in Inside(ls) \/ i = n + 1
    BY <1>5, <2>1, <2>2, <2>3, Zenon
  <2> QED
    BY <1>1, <1>8, <2>4 DEF lx, n
<1>9. CASE x.is # "header" /\ (x.is = "field" => ~Open(ls))
  <2>1. \A i : i \in Inside(lx) <=> i \in Inside(ls)
    BY <1>4, <1>5, <1>9, Zenon
  <2>2. n + 1 \notin Inside(ls)
    <3>1. ~(n + 1 \in 1 .. n)
      BY <1>1
    <3> QED
      BY <3>1, InsideIs DEF n
  <2> QED
    BY <1>9, <2>1, <2>2 DEF lx, n
<1> QED
  BY <1>7, <1>8, <1>9

\* A line goes to the rest unless it is blank or inside an entry.
LEMMA RestStep ==
  ASSUME NEW ls \in Seq(TextLines), NEW x \in TextLines
  PROVE  /\ Rest(ls) \in Seq(TextLines)
         /\ Rest(Append(ls, x)) = IF x = Blank \/ x.is = "header" \/ (x.is = "field" /\ Open(ls))
                                  THEN Rest(ls) ELSE Append(Rest(ls), x)
<1> DEFINE n == Len(ls)
           lx == Append(ls, x)
<1>1. lx \in Seq(TextLines) /\ n \in Nat /\ Len(lx) = n + 1 /\ lx[n + 1] = x /\ \A i \in 1 .. n : lx[i] = ls[i]
  BY AppendIs
<1>2. PICK f \in [0 .. n -> Seq(TextLines)] :
        f[0] = <<>> /\ (\A i \in 1 .. n : f[i] = KeepOutside(f[i - 1], ls, i)) /\ Rest(ls) = f[n]
  BY RestScan
<1>3. PICK g \in [0 .. n + 1 -> Seq(TextLines)] :
        /\ g[0] = <<>> /\ Rest(lx) = g[n + 1]
        /\ \A i \in 1 .. n + 1 : g[i] = KeepOutside(g[i - 1], lx, i)
  <2> HIDE DEF lx
  <2> QED
    BY <1>1, RestScan
<1>4. /\ \A i \in 1 .. n : i \in Inside(lx) <=> i \in Inside(ls)
      /\ n + 1 \in Inside(lx) <=> x.is = "header" \/ (x.is = "field" /\ Open(ls))
  BY InsideStep
<1> HIDE DEF lx
<1> DEFINE T == {m \in Nat : m <= n => g[m] = f[m]}
<1>5. T = Nat
  <2>1. 0 \in T
    BY <1>2, <1>3
  <2>2. ASSUME NEW m \in T PROVE m + 1 \in T
    <3> SUFFICES ASSUME m + 1 <= n PROVE g[m + 1] = f[m + 1]
      OBVIOUS
    <3>1. m + 1 \in 1 .. n /\ m + 1 \in 1 .. n + 1 /\ m + 1 - 1 = m /\ g[m] = f[m]
      BY <1>1
    <3>2. g[m + 1] = KeepOutside(f[m], lx, m + 1) /\ f[m + 1] = KeepOutside(f[m], ls, m + 1)
      BY <1>2, <1>3, <3>1
    <3> QED
      BY <1>1, <1>4, <3>1, <3>2 DEF KeepOutside
  <2>3. T \in SUBSET Nat
    OBVIOUS
  <2> HIDE DEF T
  <2> QED
    BY <2>1, <2>2, <2>3, SetInduction
<1>6. g[n] = f[n] /\ n + 1 \in 1 .. n + 1 /\ n + 1 - 1 = n /\ n \in 0 .. n
  BY <1>1, <1>5
<1>7. Rest(lx) = KeepOutside(Rest(ls), lx, n + 1) /\ Rest(ls) \in Seq(TextLines)
  <2>1. g[n + 1] = KeepOutside(g[n], lx, n + 1)
    BY <1>1, <1>3, <1>6
  <2>2. f[n] \in Seq(TextLines)
    BY <1>6
  <2> QED
    BY <1>2, <1>3, <1>6, <2>1, <2>2, Zenon
<1> QED
  BY <1>1, <1>4, <1>7 DEF KeepOutside, lx

\* No lines, no rest.
LEMMA RestOfNothing == Rest(<<>>) = <<>>
<1>1. <<>> \in Seq(TextLines) /\ Len(<<>>) = 0
  OBVIOUS
<1> QED
  BY <1>1, RestScan

-----------------------------------------------------------------------------
(* The list is a function of the lines read one by one.                    *)

\* No lines, no list.
LEMMA ListOfNothing == ListOf(<<>>) = <<>> /\ ~Open(<<>>) /\ <<>> \in Seq(TextLines)
BY EntriesOfNothing DEF ListOf

\* What one more line does to the list.
LEMMA ListStep ==
  ASSUME NEW ls \in Seq(TextLines), NEW x \in TextLines
  PROVE  LET l == ListOf(ls)  lx == ListOf(Append(ls, x))
         IN /\ l \in Seq(Record) /\ lx \in Seq(Record) /\ Append(ls, x) \in Seq(TextLines)
            /\ x.is = "header" =>
                 [id |-> x.id, fields |-> <<>>] \in Record /\ lx = Append(l, [id |-> x.id, fields |-> <<>>])
            /\ x.is = "field" /\ Open(ls) =>
                 /\ l # <<>>
                 /\ [l[Len(l)] EXCEPT !.fields = Append(@, x)] \in Record
                 /\ lx = [l EXCEPT ![Len(l)].fields = Append(@, x)]
            /\ x.is # "header" /\ (x.is = "field" => ~Open(ls)) => lx = l
            /\ Open(Append(ls, x)) <=> x.is = "header" \/ (x.is = "field" /\ Open(ls))
<1> DEFINE l == ListOf(ls)  lx == ListOf(Append(ls, x))
<1>1. Append(ls, x) \in Seq(TextLines)
  OBVIOUS
<1>2. l \in Seq(Record) /\ lx \in Seq(Record)
  BY <1>1, ListType
<1>3. x.is = "header" => [id |-> x.id, fields |-> <<>>] \in Record
  BY LineKinds DEF Record
<1>4. l # <<>> => [l[Len(l)] EXCEPT !.fields = Append(@, x)] \in Record
  <2> HAVE l # <<>>
  <2>1. l[Len(l)] \in Record
    BY <1>2
  <2> HIDE DEF l
  <2> QED
    BY SMTT(30), <2>1 DEF Record
<1>5. x.is = "field" /\ Open(ls) => l # <<>> /\ lx = [l EXCEPT ![Len(l)].fields = Append(@, x)]
  BY ListOfAppend
<1>6. /\ x.is = "header" => lx = Append(l, [id |-> x.id, fields |-> <<>>])
      /\ x.is # "header" /\ (x.is = "field" => ~Open(ls)) => lx = l
  BY ListOfAppend
<1>7. Open(Append(ls, x)) <=> x.is = "header" \/ (x.is = "field" /\ Open(ls))
  BY EntriesOfAppend
<1> HIDE DEF l, lx
<1> QED
  BY <1>1, <1>2, <1>3, <1>4, <1>5, <1>6, <1>7 DEF l, lx

\* Texts that whatever follows makes the same list of.
Alike(a, b) == ListOf(a) = ListOf(b) /\ Rest(a) = Rest(b) /\ (Open(a) <=> Open(b))

\* Two texts that are alike stay so when they get the same line.
LEMMA AlikeStep ==
  ASSUME NEW a \in Seq(TextLines), NEW b \in Seq(TextLines), NEW x \in TextLines, Alike(a, b)
  PROVE  Alike(Append(a, x), Append(b, x))
<1>1. ListOf(a) = ListOf(b) /\ Rest(a) = Rest(b) /\ (Open(a) <=> Open(b))
  BY DEF Alike
<1> DEFINE ax == Append(a, x)  bx == Append(b, x)
<1>2. Open(ax) <=> Open(bx)
  BY <1>1, ListStep
<1>3. Rest(ax) = Rest(bx)
  <2> DEFINE Out(c) == x = Blank \/ x.is = "header" \/ (x.is = "field" /\ Open(c))
  <2>1. /\ Rest(ax) = IF Out(a) THEN Rest(a) ELSE Append(Rest(a), x)
        /\ Rest(bx) = IF Out(b) THEN Rest(b) ELSE Append(Rest(b), x)
    BY RestStep
  <2> QED
    BY <1>1, <2>1
<1>4. CASE x.is = "header"
  <2>1. /\ ListOf(ax) = Append(ListOf(a), [id |-> x.id, fields |-> <<>>])
        /\ ListOf(bx) = Append(ListOf(b), [id |-> x.id, fields |-> <<>>])
    BY <1>4, ListStep
  <2> QED
    BY <1>1, <1>2, <1>3, <2>1 DEF Alike
<1>5. CASE x.is = "field" /\ Open(a)
  <2>1. /\ ListOf(ax) = [ListOf(a) EXCEPT ![Len(ListOf(a))].fields = Append(@, x)]
        /\ ListOf(bx) = [ListOf(b) EXCEPT ![Len(ListOf(b))].fields = Append(@, x)]
    BY <1>1, <1>5, ListStep
  <2> QED
    BY <1>1, <1>2, <1>3, <2>1 DEF Alike
<1>6. CASE x.is # "header" /\ (x.is = "field" => ~Open(a))
  <2>1. ListOf(ax) = ListOf(a) /\ ListOf(bx) = ListOf(b)
    BY <1>1, <1>6, ListStep
  <2> QED
    BY <1>1, <1>2, <1>3, <2>1 DEF Alike
<1> QED
  BY <1>4, <1>5, <1>6

\* A blank line ends an entry and is not listed.
LEMMA BlankStep ==
  ASSUME NEW a \in Seq(TextLines)
  PROVE  /\ Append(a, Blank) \in Seq(TextLines)
         /\ ListOf(Append(a, Blank)) = ListOf(a)
         /\ Rest(Append(a, Blank)) = Rest(a)
         /\ ~Open(Append(a, Blank))
<1>1. Blank \in TextLines /\ Blank.is = "blank"
  BY LineKinds
<1>2. Rest(Append(a, Blank)) = Rest(a)
  BY <1>1, RestStep
<1>3. Append(a, Blank) \in Seq(TextLines) /\ ListOf(Append(a, Blank)) = ListOf(a) /\ ~Open(Append(a, Blank))
  BY <1>1, ListStep
<1> QED
  BY <1>2, <1>3

\* Two sequences, one after the other.
LEMMA ConcatType ==
  ASSUME NEW S, NEW a \in Seq(S), NEW b \in Seq(S)
  PROVE  /\ a \o b \in Seq(S) /\ Len(a \o b) = Len(a) + Len(b) /\ Len(a) \in Nat /\ Len(b) \in Nat
         /\ \A i \in 1 .. Len(a) : (a \o b)[i] = a[i]
         /\ \A i \in 1 .. Len(b) : (a \o b)[Len(a) + i] = b[i]
         /\ \A e \in S : a \o Append(b, e) = Append(a \o b, e)
         /\ a \o <<>> = a
  OBVIOUS

\* The last of two sequences is the last of the second.
LEMMA LastOfConcat ==
  ASSUME NEW S, NEW a \in Seq(S), NEW b \in Seq(S), b # <<>>, NEW r \in S
  PROVE  /\ a \o b # <<>> /\ (a \o b)[Len(a \o b)] = b[Len(b)] /\ b[Len(b)] \in S
         /\ [a \o b EXCEPT ![Len(a \o b)] = r] = a \o [b EXCEPT ![Len(b)] = r]
<1> DEFINE ab == a \o b  m == Len(a)  n == Len(b)
           br == [b EXCEPT ![n] = r]  abr == [ab EXCEPT ![Len(ab)] = r]  c == a \o br
<1>1. /\ ab \in Seq(S) /\ Len(ab) = m + n /\ m \in Nat /\ n \in Nat /\ n > 0
      /\ \A i \in 1 .. m : ab[i] = a[i]
      /\ \A i \in 1 .. n : ab[m + i] = b[i]
  BY ConcatType
<1>2. br \in Seq(S) /\ Len(br) = n /\ br[n] = r /\ \A i \in 1 .. n : i # n => br[i] = b[i]
  OBVIOUS
<1> HIDE DEF ab, br
<1>3. abr \in Seq(S) /\ Len(abr) = m + n /\ abr[m + n] = r /\ \A i \in 1 .. m + n : i # m + n => abr[i] = ab[i]
  BY <1>1
<1>4. /\ c \in Seq(S) /\ Len(c) = m + n
      /\ \A i \in 1 .. m : c[i] = a[i]
      /\ \A i \in 1 .. n : c[m + i] = br[i]
  <2>1. /\ c \in Seq(S) /\ Len(c) = m + Len(br)
        /\ \A i \in 1 .. m : c[i] = a[i]
        /\ \A i \in 1 .. Len(br) : c[m + i] = br[i]
    <3>1. br \in Seq(S)
      BY <1>2
    <3> QED
      BY <3>1, ConcatType
  <2> QED
    BY <1>2, <2>1
<1> HIDE DEF abr, c
<1>5. \A i \in 1 .. m + n : abr[i] = c[i]
  <2> TAKE i \in 1 .. m + n
  <2>1. CASE i \in 1 .. m
    <3>1. i # m + n
      BY <1>1, <2>1
    <3> QED
      BY <1>1, <1>3, <1>4, <2>1, <3>1
  <2>2. CASE i \notin 1 .. m
    <3> DEFINE k == i - m
    <3>1. k \in 1 .. n /\ i = m + k /\ (k = n <=> i = m + n)
      BY <1>1, <2>2
    <3> HIDE DEF k
    <3>2. c[i] = br[k] /\ ab[i] = b[k]
      BY <1>1, <1>4, <3>1
    <3> QED
      BY <1>2, <1>3, <3>1, <3>2
  <2> QED
    BY <2>1, <2>2
<1>6. abr = c
  BY <1>3, <1>4, <1>5, SeqEqual
<1>7. ab # <<>> /\ ab[Len(ab)] = b[n] /\ b[n] \in S
  BY <1>1
<1> QED
  BY <1>6, <1>7 DEF abr, c, br, ab

\* The lists of two halves of a text make up its list, unless fields are cut off.
LEMMA ListOfConcat ==
  ASSUME NEW a \in Seq(TextLines), NEW b \in Seq(TextLines),
         Open(a) => b = <<>> \/ b[1].is # "field"
  PROVE  /\ ListOf(a \o b) = ListOf(a) \o ListOf(b)
         /\ Open(a \o b) <=> IF b = <<>> THEN Open(a) ELSE Open(b)
<1> DEFINE Cut(c) == Open(a) /\ c # <<>> /\ c[1].is = "field"
           Fits(c) == /\ ListOf(a \o c) = ListOf(a) \o ListOf(c)
                      /\ Open(a \o c) <=> IF c = <<>> THEN Open(a) ELSE Open(c)
           Q == {c \in Seq(TextLines) : ~Cut(c) => Fits(c)}
<1>1. <<>> \in Q
  <2>1. ListOf(a) \in Seq(Record) /\ a \o <<>> = a
    BY ListType
  <2>2. ListOf(a) \o <<>> = ListOf(a)
    BY <2>1
  <2> QED
    BY <2>1, <2>2, ListOfNothing
<1>2. ASSUME NEW c \in Q, NEW x \in TextLines PROVE Append(c, x) \in Q
  <2> DEFINE cx == Append(c, x)  ac == a \o c  acx == a \o cx
  <2>1. /\ cx \in Seq(TextLines) /\ ac \in Seq(TextLines) /\ cx # <<>> /\ c \in Seq(TextLines)
        /\ acx = Append(ac, x) /\ (c # <<>> => cx[1] = c[1]) /\ (c = <<>> => cx[1] = x)
    <3>1. c \in Seq(TextLines)
      OBVIOUS
    <3>2. cx \in Seq(TextLines) /\ cx # <<>>
      BY <3>1, AppendIs
    <3>4. c # <<>> => cx[1] = c[1]
      BY <3>1
    <3>5. c = <<>> => cx[1] = x
      OBVIOUS
    <3>3. ac \in Seq(TextLines) /\ acx = Append(ac, x)
      BY <3>1, ConcatType
    <3> QED
      BY <3>1, <3>2, <3>3, <3>4, <3>5
  <2> SUFFICES ASSUME ~Cut(cx) PROVE Fits(cx)
    BY <2>1
  <2>2. Fits(c)
    <3>1. ~Cut(c)
      BY <2>1
    <3> QED
      BY <3>1
  <2>3. x.is = "field" => (Open(ac) <=> Open(c))
    <3>1. c = <<>> /\ x.is = "field" => ~Open(a)
      BY <2>1
    <3> QED
      BY <2>2, <3>1, ListOfNothing
  <2> DEFINE l == ListOf(c)  al == ListOf(ac)  k == [id |-> x.id, fields |-> <<>>]
  <2>4. /\ ListOf(a) \in Seq(Record) /\ l \in Seq(Record) /\ al = ListOf(a) \o l
    BY <2>1, <2>2, ListType
  <2>5. /\ x.is = "header" => k \in Record /\ ListOf(cx) = Append(l, k)
        /\ x.is = "field" /\ Open(c) =>
             /\ l # <<>>
             /\ [l[Len(l)] EXCEPT !.fields = Append(@, x)] \in Record
             /\ ListOf(cx) = [l EXCEPT ![Len(l)].fields = Append(@, x)]
        /\ x.is # "header" /\ (x.is = "field" => ~Open(c)) => ListOf(cx) = l
        /\ Open(cx) <=> x.is = "header" \/ (x.is = "field" /\ Open(c))
    BY <2>1, ListStep
  <2>6. /\ x.is = "header" => ListOf(Append(ac, x)) = Append(al, k)
        /\ x.is = "field" /\ Open(ac) => ListOf(Append(ac, x)) = [al EXCEPT ![Len(al)].fields = Append(@, x)]
        /\ x.is # "header" /\ (x.is = "field" => ~Open(ac)) => ListOf(Append(ac, x)) = al
        /\ Open(Append(ac, x)) <=> x.is = "header" \/ (x.is = "field" /\ Open(ac))
    BY <2>1, ListStep
  <2>7. Open(acx) <=> Open(cx)
    BY <2>1, <2>3, <2>5, <2>6
  <2> HIDE DEF cx, acx, ac, l, al, k, Q
  <2>8. ListOf(acx) = ListOf(a) \o ListOf(cx)
    <3>1. CASE x.is = "header"
      <4>1. k \in Record /\ ListOf(cx) = Append(l, k) /\ ListOf(acx) = Append(ListOf(a) \o l, k)
        BY <2>1, <2>4, <2>5, <2>6, <3>1
      <4>2. ListOf(a) \o Append(l, k) = Append(ListOf(a) \o l, k)
        BY <2>4, <4>1, ConcatType
      <4> QED
        BY <4>1, <4>2
    <3>2. CASE x.is = "field" /\ Open(c)
      <4> DEFINE r == [l[Len(l)] EXCEPT !.fields = Append(@, x)]
      <4>1. r \in Record /\ l # <<>> /\ ListOf(cx) = [l EXCEPT ![Len(l)] = r]
        BY <2>5, <3>2
      <4>2. ListOf(acx) = [al EXCEPT ![Len(al)] = [al[Len(al)] EXCEPT !.fields = Append(@, x)]]
        BY <2>1, <2>3, <2>6, <3>2
      <4>3. al[Len(al)] = l[Len(l)]
        BY <2>4, <4>1, LastOfConcat
      <4>4. ListOf(acx) = [al EXCEPT ![Len(al)] = r]
        BY <4>2, <4>3
      <4> HIDE DEF r
      <4> QED
        BY <2>4, <4>1, <4>4, LastOfConcat
    <3>3. CASE x.is # "header" /\ (x.is = "field" => ~Open(c))
      BY <2>1, <2>3, <2>4, <2>5, <2>6, <3>3
    <3> QED
      BY <3>1, <3>2, <3>3
  <2> QED
    BY <2>1, <2>7, <2>8 DEF cx, acx
<1>3. Q \in SUBSET Seq(TextLines)
  OBVIOUS
<1>4. Q = Seq(TextLines)
  <2> HIDE DEF Q
  <2> QED
    BY <1>1, <1>2, <1>3, SeqInduction
<1> QED
  BY <1>4

\* So do the rests.
LEMMA RestOfConcat ==
  ASSUME NEW a \in Seq(TextLines), NEW b \in Seq(TextLines),
         Open(a) => b = <<>> \/ b[1].is # "field"
  PROVE  Rest(a \o b) = Rest(a) \o Rest(b)
<1> DEFINE Cut(c) == Open(a) /\ c # <<>> /\ c[1].is = "field"
           Q == {c \in Seq(TextLines) : ~Cut(c) => Rest(a \o c) = Rest(a) \o Rest(c)}
<1>1. <<>> \in Q
  <2>1. <<>> \in Seq(TextLines) /\ Rest(a) \in Seq(TextLines)
    BY ListOfNothing, RestStep, LineKinds
  <2>2. a \o <<>> = a /\ Rest(a) \o <<>> = Rest(a)
    BY <2>1, ConcatType
  <2> QED
    BY <2>1, <2>2, RestOfNothing
<1>2. ASSUME NEW c \in Q, NEW x \in TextLines PROVE Append(c, x) \in Q
  <2> DEFINE cx == Append(c, x)  ac == a \o c  acx == a \o cx
  <2>1. c \in Seq(TextLines)
    OBVIOUS
  <2>2. cx \in Seq(TextLines) /\ cx # <<>>
    BY <2>1, AppendIs
  <2>3. c # <<>> => cx[1] = c[1]
    BY <2>1
  <2>4. c = <<>> => cx[1] = x
    OBVIOUS
  <2>5. ac \in Seq(TextLines) /\ acx = Append(ac, x)
    BY <2>1, ConcatType
  <2> SUFFICES ASSUME ~Cut(cx) PROVE Rest(acx) = Rest(a) \o Rest(cx)
    BY <2>2
  <2>6. ~Cut(c) /\ Rest(ac) = Rest(a) \o Rest(c)
    BY <2>2, <2>3
  <2>7. Open(ac) <=> IF c = <<>> THEN Open(a) ELSE Open(c)
    BY <2>1, <2>6, ListOfConcat
  <2>8. x.is = "field" => (Open(ac) <=> Open(c))
    BY <2>2, <2>4, <2>7, ListOfNothing
  <2>9. /\ Rest(a) \in Seq(TextLines) /\ Rest(c) \in Seq(TextLines)
        /\ Rest(cx) = IF x = Blank \/ x.is = "header" \/ (x.is = "field" /\ Open(c))
                      THEN Rest(c) ELSE Append(Rest(c), x)
        /\ Rest(Append(ac, x)) = IF x = Blank \/ x.is = "header" \/ (x.is = "field" /\ Open(ac))
                                 THEN Rest(ac) ELSE Append(Rest(ac), x)
    BY <2>1, <2>5, RestStep
  <2> HIDE DEF cx, acx, ac, Q
  <2>10. Append(Rest(a) \o Rest(c), x) = Rest(a) \o Append(Rest(c), x)
    <3> DEFINE ra == Rest(a)  rc == Rest(c)
    <3>1. ra \in Seq(TextLines) /\ rc \in Seq(TextLines)
      BY <2>9
    <3> HIDE DEF ra, rc
    <3>2. ra \o Append(rc, x) = Append(ra \o rc, x)
      BY <3>1, ConcatType
    <3> QED
      BY <3>2 DEF ra, rc
  <2> QED
    BY <2>5, <2>6, <2>8, <2>9, <2>10
<1>3. Q \in SUBSET Seq(TextLines)
  OBVIOUS
<1>4. Q = Seq(TextLines)
  <2> HIDE DEF Q
  <2> QED
    BY <1>1, <1>2, <1>3, SeqInduction
<1> QED
  BY <1>4

-----------------------------------------------------------------------------
(* A text of gaps.md lists what its lines list.                            *)

\* splitlines() changes neither the list nor the rest.
LEMMA LinesAreAlike ==
  ASSUME NEW t \in FileTexts
  PROVE  ListOf(Lines(t)) = ListOf(t) /\ Rest(Lines(t)) = Rest(t)
<1>1. /\ Lines(t) \in Seq(TextLines)
      /\ t = Lines(t) \/ t = Append(Lines(t), Blank)
  BY LinesType
<1> QED
  BY <1>1, BlankStep

\* What list_gaps answers for a text is the list of its lines.
LEMMA GapsAreLists ==
  ASSUME NEW t \in FileTexts
  PROVE  Gaps(t) = ListOf(t) /\ Gaps(t) \in Seq(Record) /\ t \in Seq(TextLines)
<1>1. t \in Seq(TextLines)
  BY DEF FileTexts
<1> QED
  BY <1>1, GapsAreListed, LinesAreAlike, ListType

\* Where the first entry with id g is, or 0.
IsPosition(q, g, n) ==
  \/ n = 0 /\ \A i \in 1 .. Len(q) : q[i].id # g
  \/ n \in 1 .. Len(q) /\ q[n].id = g /\ \A i \in 1 .. n - 1 : q[i].id # g

\* Position finds the first entry with an id, and 0 when there is none.
LEMMA PositionIs ==
  ASSUME NEW S, NEW q \in Seq(S), NEW g
  PROVE  IsPosition(q, g, Position(q, g)) /\ Position(q, g) \in 0 .. Len(q)
<1> DEFINE I == {i \in 1 .. Len(q) : q[i].id = g}
<1>1. Position(q, g) = IF I # {} THEN Min(I) ELSE 0
  BY DEF Position, SelectInSeq
<1>2. Len(q) \in Nat
  OBVIOUS
<1>3. CASE I = {}
  BY <1>1, <1>2, <1>3 DEF IsPosition
<1>4. CASE I # {}
  <2>1. \E m \in I : \A i \in I : m <= i
    <3> DEFINE U == {m \in Nat : (\E i \in 1 .. m : i \in I) =>
                                    \E i \in I : \A j \in I : i <= j}
    <3>1. 0 \in U
      OBVIOUS
    <3>2. ASSUME NEW m \in U PROVE m + 1 \in U
      <4>1. CASE \E i \in 1 .. m : i \in I
        <5>1. m \in Nat /\ m + 1 \in Nat
          OBVIOUS
        <5>2. \E i \in I : \A j \in I : i <= j
          <6> HIDE DEF I
          <6> QED
            BY <4>1
        <5> HIDE DEF I
        <5> QED
          BY <5>1, <5>2
      <4>2. CASE ~\E i \in 1 .. m : i \in I
        <5>1. \A j \in I : m + 1 <= j
          <6> TAKE j \in I
          <6>1. j \in Nat /\ j >= 1 /\ j \notin 1 .. m
            BY <1>2, <4>2
          <6> QED
            BY <6>1
        <5>2. \A i \in 1 .. m + 1 : i \in 1 .. m \/ i = m + 1
          OBVIOUS
        <5> HIDE DEF I
        <5> QED
          BY <4>2, <5>1, <5>2
      <4> QED
        BY <4>1, <4>2
    <3>3. U = Nat
      <4>1. U \in SUBSET Nat
        OBVIOUS
      <4> HIDE DEF U
      <4> QED
        BY <3>1, <3>2, <4>1, SetInduction
    <3>4. Len(q) \in U
      <4> HIDE DEF U
      <4> QED
        BY <1>2, <3>3
    <3>5. \E i \in 1 .. Len(q) : i \in I
      BY <1>4
    <3> QED
      BY <3>4, <3>5
  <2>2. Min(I) \in I /\ \A i \in I : Min(I) <= i
    <3> HIDE DEF I
    <3> QED
      BY <2>1 DEF Min
  <2> DEFINE n == Min(I)
  <2>3. n \in 1 .. Len(q) /\ q[n].id = g /\ Position(q, g) = n
    <3> HIDE DEF n
    <3>1. n \in I
      BY <2>2 DEF n
    <3> QED
      BY <1>1, <1>4, <3>1 DEF n
  <2>4. \A i \in 1 .. n - 1 : q[i].id # g
    <3>1. n \in I /\ \A i \in I : n <= i
      BY <2>2
    <3> HIDE DEF n
    <3> QED
      BY <1>2, <3>1
  <2> HIDE DEF n
  <2> QED
    BY <1>2, <2>3, <2>4 DEF IsPosition
<1> QED
  BY <1>3, <1>4

\* There is one position of an id in entries with the same ids.
LEMMA PositionIsOne ==
  ASSUME NEW S, NEW T, NEW p \in Seq(S), NEW q \in Seq(T), NEW g, Len(p) = Len(q),
         \A i \in 1 .. Len(q) : p[i].id = q[i].id
  PROVE  Position(p, g) = Position(q, g)
<1> DEFINE m == Position(p, g)  n == Position(q, g)
<1>1. /\ IsPosition(p, g, m) /\ m \in 0 .. Len(q)
      /\ IsPosition(q, g, n) /\ n \in 0 .. Len(q) /\ Len(q) \in Nat
  BY PositionIs
<1> HIDE DEF m, n
<1>2. IsPosition(q, g, m)
  <2>1. \A i \in 1 .. m - 1 : i \in 1 .. Len(q)
    BY <1>1
  <2> QED
    BY <1>1, <2>1 DEF IsPosition
<1>3. m = n
  <2>1. m # 0 /\ n # 0 => ~(m < n) /\ ~(n < m)
    BY <1>1, <1>2 DEF IsPosition
  <2>2. m = 0 <=> n = 0
    BY <1>1, <1>2 DEF IsPosition
  <2> QED
    BY <1>1, <2>1, <2>2
<1> QED
  BY <1>3 DEF m, n

\* parse_gaps and list_gaps find an id at one position.
LEMMA ParsePosition ==
  ASSUME NEW t \in FileTexts, NEW g
  PROVE  Position(Parse(t), g) = Position(Gaps(t), g)
<1>1. Lines(t) \in Seq(TextLines) /\ Parse(t) = Entries(Lines(t)) /\ Gaps(t) = ListOf(Lines(t))
  BY LinesType, ParseIs, GapsAreListed
<1> QED
  BY <1>1, EntriesType, ListType, PositionIsOne

-----------------------------------------------------------------------------
(* append_gap_entry_to_text.                                               *)

FieldTexts == {x \in TextLines : x.is = "field"}

\* All but the last line.
LEMMA FrontOfAppend ==
  ASSUME NEW ls \in Seq(TextLines), NEW x \in TextLines
  PROVE  Front(Append(ls, x)) = ls
<1> DEFINE a == Append(ls, x)  f == SubSeq(a, 1, Len(a) - 1)
<1>1. a \in Seq(TextLines) /\ Len(a) = Len(ls) + 1 /\ Len(ls) \in Nat /\ \A i \in 1 .. Len(ls) : a[i] = ls[i]
  BY AppendIs
<1> HIDE DEF a
<1>2. f \in Seq(TextLines) /\ Len(f) = Len(ls) /\ \A i \in 1 .. Len(ls) : f[i] = ls[i]
  <2>1. Len(a) - 1 \in 0 .. Len(a) /\ Len(a) - 1 = Len(ls)
    BY <1>1
  <2> QED
    BY <1>1, <2>1, PrefixType
<1> HIDE DEF f
<1>3. f = ls
  BY <1>1, <1>2, SeqEqual
<1> QED
  BY <1>3 DEF Front, f, a

\* splitlines() of a text that ends with a newline.
LEMMA LinesOfAppend ==
  ASSUME NEW ls \in Seq(TextLines)
  PROVE  Append(ls, Blank) \in FileTexts /\ Lines(Append(ls, Blank)) = ls
<1>1. Append(ls, Blank) \in FileTexts /\ Last(Append(ls, Blank)) = Blank
  BY LineKinds DEF FileTexts, Last
<1> QED
  BY <1>1, LineKinds, FrontOfAppend DEF Lines

\* What the entry is appended to: the text, and a blank line.
LEMMA PaddedLines ==
  ASSUME NEW t \in FileTexts
  PROVE  LET p == Front(EnsureBlankLine(EnsureNewline(t)))
         IN /\ p \in Seq(TextLines)
            /\ ListOf(p) = ListOf(t) /\ Rest(p) = Rest(t)
            /\ p # <<>> => p[Len(p)] = Blank
            /\ \/ t = Append(p, Blank)
               \/ p = t
               \/ p = Append(t, Blank)
<1> DEFINE u == EnsureNewline(t)  p == Front(EnsureBlankLine(u))
           Two(s) == Len(s) > 2 /\ s[Len(s)] = Blank /\ s[Len(s) - 1] = Blank
<1>1. t \in Seq(TextLines) /\ t # <<>> /\ Blank \in TextLines
  BY LineKinds DEF FileTexts
<1>2. /\ u \in Seq(TextLines) /\ u # <<>> /\ ListOf(u) = ListOf(t) /\ Rest(u) = Rest(t)
      /\ u = t \/ (u = Append(t, Blank) /\ t # EmptyText)
      /\ u[Len(u)] = Blank
  <2>1. CASE t = EmptyText
    BY <1>1, <2>1 DEF EnsureNewline, EmptyText
  <2>2. CASE t # EmptyText /\ EndsWithNewline(t)
    BY <1>1, <2>2 DEF EnsureNewline, EndsWithNewline, Last
  <2>3. CASE t # EmptyText /\ ~EndsWithNewline(t)
    <3>1. u = Append(t, Blank)
      BY <2>3 DEF EnsureNewline
    <3>2. /\ Append(t, Blank) \in Seq(TextLines) /\ Append(t, Blank) # <<>>
          /\ Append(t, Blank)[Len(Append(t, Blank))] = Blank
      BY <1>1
    <3> HIDE DEF u
    <3> QED
      BY <1>1, <2>3, <3>1, <3>2, BlankStep
  <2> QED
    BY <2>1, <2>2, <2>3
<1> HIDE DEF u
<1>3. \A s \in Seq(TextLines) : s # <<>> /\ s[Len(s)] = Blank =>
        LET f == Front(s)
        IN f \in Seq(TextLines) /\ s = Append(f, Blank) /\ ListOf(f) = ListOf(s) /\ Rest(f) = Rest(s)
  <2> TAKE s \in Seq(TextLines)
  <2> HAVE s # <<>> /\ s[Len(s)] = Blank
  <2>1. s \in FileTexts /\ Last(s) = Blank
    BY DEF FileTexts, Last
  <2>2. Lines(s) = Front(s)
    BY <2>1 DEF Lines
  <2> QED
    BY <2>1, <2>2, LinesType, LinesAreAlike
<1>4. CASE u = EmptyText
  <2>1. p = Front(u) /\ u = t
    <3>1. t # EmptyText => Len(Append(t, Blank)) # Len(EmptyText)
      BY <1>1 DEF EmptyText
    <3> QED
      BY <1>2, <1>4, <3>1 DEF EnsureBlankLine
  <2>2. p \in Seq(TextLines) /\ u = Append(p, Blank) /\ ListOf(p) = ListOf(u) /\ Rest(p) = Rest(u)
    BY <1>2, <1>3, <2>1
  <2>3. p = <<>>
    <3>1. u = Append(<<>>, Blank) /\ <<>> \in Seq(TextLines)
      BY <1>4 DEF EmptyText
    <3> QED
      BY <1>1, <2>1, <3>1, FrontOfAppend
  <2> QED
    BY <2>1, <2>2, <2>3 DEF u
<1>5. CASE u # EmptyText /\ Two(u)
  <2>1. p = Front(u)
    BY <1>5 DEF EnsureBlankLine
  <2>2. p \in Seq(TextLines) /\ u = Append(p, Blank) /\ ListOf(p) = ListOf(u) /\ Rest(p) = Rest(u)
    BY <1>2, <1>3, <2>1
  <2> HIDE DEF p
  <2>3. p # <<>> /\ p[Len(p)] = Blank
    <3>1. Len(u) = Len(p) + 1 /\ Len(p) \in Nat /\ \A i \in 1 .. Len(p) : u[i] = p[i]
      BY <1>1, <2>2, AppendIs
    <3>2. Len(p) > 1 /\ Len(u) - 1 = Len(p)
      BY <1>5, <3>1
    <3>3. Len(p) \in 1 .. Len(p)
      BY <3>1, <3>2
    <3> QED
      BY <1>5, <2>2, <3>1, <3>2, <3>3
  <2>4. t = Append(p, Blank) \/ p = t
    <3>1. CASE u = Append(t, Blank)
      BY <1>1, <2>1, <3>1, FrontOfAppend
    <3> QED
      BY <1>2, <2>2, <3>1
  <2> QED
    BY <1>2, <2>2, <2>3, <2>4 DEF p, u
<1>6. CASE u # EmptyText /\ ~Two(u)
  <2>1. p = u
    <3>1. EnsureBlankLine(u) = Append(u, Blank)
      BY <1>6 DEF EnsureBlankLine
    <3> QED
      BY <1>1, <1>2, <3>1, FrontOfAppend
  <2> HIDE DEF p
  <2> QED
    BY <1>2, <2>1 DEF p, u
<1> QED
  BY <1>4, <1>5, <1>6

\* The lines of a new entry list it alone.
LEMMA ListOfEntry ==
  ASSUME NEW g \in GapIds, NEW fs \in Seq(FieldTexts)
  PROVE  LET e == FormatGapEntry(g, fs)
         IN /\ e \in Seq(TextLines) /\ e # <<>> /\ e[1] = Header(g)
            /\ ListOf(e) = <<[id |-> g, fields |-> fs]>> /\ Rest(e) = <<>> /\ Open(e)
<1> DEFINE h == <<Header(g)>>
           Q == {f \in Seq(FieldTexts) : ListOf(h \o f) = <<[id |-> g, fields |-> f]>> /\ Rest(h \o f) = <<>> /\ Open(h \o f)}
<1>1. /\ Header(g) \in TextLines /\ Header(g).is = "header" /\ Header(g).id = g
      /\ FieldTexts \in SUBSET TextLines
  BY DEF TextLines, Header, FieldTexts
<1>2. h = Append(<<>>, Header(g)) /\ h \in Seq(TextLines) /\ h # <<>> /\ Len(h) = 1 /\ h[1] = Header(g)
  BY <1>1
<1>3. \A f \in Seq(FieldTexts) : f \in Seq(TextLines)
  BY <1>1
<1>4. <<>> \in Q
  <2>1. h \o <<>> = h
    BY <1>2, ConcatType
  <2>2. ListOf(h) = Append(<<>>, [id |-> g, fields |-> <<>>]) /\ Rest(h) = <<>> /\ Open(h)
    <3>1. <<>> \in Seq(TextLines) /\ ListOf(<<>>) = <<>>
      BY ListOfNothing
    <3> DEFINE x == Header(g)
    <3> HIDE DEF h, x
    <3>2. x \in TextLines /\ x.is = "header" /\ x.id = g /\ h = Append(<<>>, x)
      BY <1>1, <1>2 DEF x
    <3>3. /\ ListOf(Append(<<>>, x)) = Append(ListOf(<<>>), [id |-> x.id, fields |-> <<>>])
          /\ Open(Append(<<>>, x))
      BY <3>1, <3>2, ListStep
    <3>4. Rest(Append(<<>>, x)) = <<>>
      BY <3>1, <3>2, RestStep, RestOfNothing
    <3> QED
      BY <3>1, <3>2, <3>3, <3>4
  <2>3. Append(<<>>, [id |-> g, fields |-> <<>>]) = <<[id |-> g, fields |-> <<>>]>>
    OBVIOUS
  <2> HIDE DEF h
  <2> QED
    BY <2>1, <2>2, <2>3
<1> HIDE DEF h
<1>5. ASSUME NEW f \in Q, NEW x \in FieldTexts PROVE Append(f, x) \in Q
  <2> DEFINE fx == Append(f, x)  r == [id |-> g, fields |-> f]  q == [id |-> g, fields |-> fx]
             hf == h \o f  hx == h \o fx
  <2>1. f \in Seq(FieldTexts) /\ fx \in Seq(FieldTexts) /\ x \in TextLines /\ x.is = "field"
    BY <1>1, AppendIs DEF FieldTexts
  <2>2. hf \in Seq(TextLines) /\ hx = Append(hf, x)
    BY <1>2, <1>3, <2>1, ConcatType
  <2>3. ListOf(hf) = <<r>> /\ Rest(hf) = <<>> /\ Open(hf)
    OBVIOUS
  <2> HIDE DEF hf, hx
  <2>7. Rest(hx) = <<>>
    BY <2>1, <2>2, <2>3, RestStep
  <2>4. ListOf(hx) = [ListOf(hf) EXCEPT ![Len(ListOf(hf))].fields = Append(@, x)] /\ Open(hx)
    BY <2>1, <2>2, <2>3, ListStep
  <2>5. [<<r>> EXCEPT ![1].fields = Append(@, x)] = <<q>> /\ Len(<<r>>) = 1
    <3>1. [r EXCEPT !.fields = Append(@, x)] = q
      <4>1. r.fields = f /\ \A y : [r EXCEPT !.fields = y] = [id |-> g, fields |-> y]
        OBVIOUS
      <4> HIDE DEF r, Q
      <4> QED
        BY <4>1
    <3>2. [<<r>> EXCEPT ![1].fields = Append(@, x)] = [<<r>> EXCEPT ![1] = q]
      BY <3>1
    <3> HIDE DEF r, q
    <3> QED
      BY <3>2
  <2> HIDE DEF r, q
  <2>6. ListOf(hx) = <<q>>
    BY <2>3, <2>4, <2>5
  <2> HIDE DEF fx
  <2> QED
    BY <2>1, <2>4, <2>6, <2>7 DEF fx, hx, q
<1>6. Q = Seq(FieldTexts)
  <2>1. Q \in SUBSET Seq(FieldTexts)
    OBVIOUS
  <2> HIDE DEF Q
  <2> QED
    BY <1>4, <1>5, <2>1, SeqInduction
<1>7. fs \in Q
  <2> HIDE DEF Q
  <2> QED
    BY <1>6
<1> DEFINE e == h \o fs
<1>8. e \in Seq(TextLines) /\ e # <<>> /\ e[1] = Header(g)
  <2>1. 1 \in 1 .. Len(h)
    BY <1>2
  <2> QED
    BY <1>2, <1>3, <2>1, ConcatType
<1> HIDE DEF e
<1> QED
  BY <1>7, <1>8 DEF FormatGapEntry, e, h

\* Adding an entry adds it to the list, and nothing else.
LEMMA AppendEntryIs ==
  ASSUME NEW t \in FileTexts, NEW g \in GapIds, NEW fs \in Seq(FieldTexts)
  PROVE  LET r == AppendEntry(t, FormatGapEntry(g, fs))
         IN /\ r \in FileTexts
            /\ Gaps(r) = Append(Gaps(t), [id |-> g, fields |-> fs])
            /\ Rest(r) = Rest(t)
<1> DEFINE p == Front(EnsureBlankLine(EnsureNewline(t)))
           e == FormatGapEntry(g, fs)
           k == [id |-> g, fields |-> fs]
           r == p \o e \o <<Blank>>
<1>1. p \in Seq(TextLines) /\ ListOf(p) = ListOf(t) /\ Rest(p) = Rest(t)
  BY PaddedLines
<1>2. /\ e \in Seq(TextLines) /\ e # <<>> /\ e[1].is = "header" /\ ListOf(e) = <<k>> /\ Rest(e) = <<>>
  <2>1. e \in Seq(TextLines) /\ e # <<>> /\ e[1] = Header(g) /\ ListOf(e) = <<k>> /\ Rest(e) = <<>>
    BY ListOfEntry
  <2> HIDE DEF e, k
  <2> QED
    BY <2>1 DEF Header
<1> HIDE DEF p, e
<1>3. p \o e \in Seq(TextLines) /\ r = Append(p \o e, Blank)
  BY <1>1, <1>2, LineKinds
<1>4. ListOf(p \o e) = ListOf(p) \o <<k>> /\ Rest(p \o e) = Rest(p)
  <2>1. Rest(p) \o <<>> = Rest(p)
    BY <1>1, LineKinds, RestStep, ConcatType
  <2> QED
    BY <1>1, <1>2, <2>1, ListOfConcat, RestOfConcat
<1>5. r \in FileTexts /\ ListOf(r) = ListOf(p \o e) /\ Rest(r) = Rest(p \o e)
  BY <1>3, BlankStep, LinesOfAppend
<1>6. ListOf(t) \in Seq(Record) /\ Gaps(t) = ListOf(t) /\ Gaps(r) = ListOf(r)
  BY <1>5, GapsAreLists
<1>7. Gaps(r) = Append(Gaps(t), k)
  <2> HIDE DEF k, r
  <2> QED
    BY <1>1, <1>4, <1>5, <1>6
<1> QED
  BY <1>1, <1>4, <1>5, <1>7 DEF AppendEntry, p, e

-----------------------------------------------------------------------------
(* remove_gap_entry_from_text: the lines of the entry go ...               *)

\* A sequence cut before i and before j.
IsCut(S, q, i, j) ==
  LET a == SubSeq(q, 1, i - 1)  m == SubSeq(q, i, j - 1)  b == SubSeq(q, j, Len(q))
  IN /\ a \in Seq(S) /\ m \in Seq(S) /\ b \in Seq(S)
     /\ Len(a) = i - 1 /\ Len(m) = j - i /\ Len(b) = Len(q) - j + 1
     /\ \A k \in 1 .. j - i : m[k] = q[i + k - 1]
     /\ \A k \in 1 .. Len(q) - j + 1 : b[k] = q[j + k - 1]
     /\ q = a \o (m \o b)

\* Any sequence can be cut so.
LEMMA ThreeParts ==
  ASSUME NEW S, NEW q \in Seq(S), NEW i \in Nat, NEW j \in Nat, 1 <= i, i <= j, j <= Len(q) + 1
  PROVE  IsCut(S, q, i, j)
<1> DEFINE n == Len(q)
           a == SubSeq(q, 1, i - 1)  m == SubSeq(q, i, j - 1)  b == SubSeq(q, j, n)
           r == m \o b  c == a \o r
<1>1. n \in Nat /\ i \in Int /\ j \in Int /\ i - 1 \in 0 .. n /\ i - 1 \in Int /\ j - 1 \in Int /\ n \in Int
  OBVIOUS
<1>2. a \in Seq(S) /\ Len(a) = i - 1 /\ \A k \in 1 .. i - 1 : a[k] = q[k]
  BY <1>1, PrefixType
<1>3. m \in Seq(S) /\ Len(m) = j - i /\ \A k \in 1 .. j - i : m[k] = q[i + k - 1]
  <2>1. \A k \in i .. j - 1 : q[k] \in S
    BY <1>1
  <2>2. /\ m \in Seq(S) /\ Len(m) = IF i <= j - 1 THEN j - 1 - i + 1 ELSE 0
        /\ \A k \in 1 .. j - 1 - i + 1 : m[k] = q[i + k - 1]
    BY <1>1, <2>1, SubSeqProperties
  <2> HIDE DEF m
  <2>3. j - 1 - i + 1 = j - i /\ (i <= j - 1 \/ j - i = 0)
    BY <1>1
  <2> QED
    BY <2>2, <2>3
<1>4. b \in Seq(S) /\ Len(b) = n - j + 1 /\ \A k \in 1 .. n - j + 1 : b[k] = q[j + k - 1]
  <2>1. \A k \in j .. n : q[k] \in S
    BY <1>1
  <2>2. /\ b \in Seq(S) /\ Len(b) = IF j <= n THEN n - j + 1 ELSE 0
        /\ \A k \in 1 .. n - j + 1 : b[k] = q[j + k - 1]
    BY <1>1, <2>1, SubSeqProperties
  <2> HIDE DEF b
  <2>3. j <= n \/ n - j + 1 = 0
    BY <1>1
  <2> QED
    BY <2>2, <2>3
<1> HIDE DEF a, m, b
<1>5. /\ r \in Seq(S) /\ Len(r) = n - i + 1
      /\ \A k \in 1 .. n - i + 1 : r[k] = q[i + k - 1]
  <2>1. /\ r \in Seq(S) /\ Len(r) = Len(m) + Len(b)
        /\ \A k \in 1 .. Len(m) : r[k] = m[k]
        /\ \A k \in 1 .. Len(b) : r[Len(m) + k] = b[k]
    <3>1. m \in Seq(S) /\ b \in Seq(S)
      BY <1>3, <1>4
    <3> QED
      BY <3>1, ConcatType
  <2>2. Len(r) = n - i + 1
    BY <1>1, <1>3, <1>4, <2>1
  <2> HIDE DEF r
  <2>3. ASSUME NEW k \in 1 .. n - i + 1 PROVE r[k] = q[i + k - 1]
    <3>1. CASE k \in 1 .. j - i
      BY <1>3, <2>1, <3>1
    <3>2. CASE k \notin 1 .. j - i
      <4> DEFINE l == k - (j - i)
      <4>1. l \in 1 .. n - j + 1 /\ k = j - i + l /\ j + l - 1 = i + k - 1
        BY <1>1, <3>2
      <4> HIDE DEF l
      <4>2. r[k] = b[l]
        BY <1>3, <1>4, <2>1, <4>1
      <4> QED
        BY <1>4, <4>1, <4>2
    <3> QED
      BY <3>1, <3>2
  <2> QED
    BY <2>1, <2>2, <2>3
<1> HIDE DEF r
<1>6. /\ c \in Seq(S) /\ Len(c) = Len(a) + Len(r)
      /\ \A k \in 1 .. Len(a) : c[k] = a[k]
      /\ \A k \in 1 .. Len(r) : c[Len(a) + k] = r[k]
  <2>1. a \in Seq(S) /\ r \in Seq(S)
    BY <1>2, <1>5
  <2> QED
    BY <2>1, ConcatType
<1> HIDE DEF c
<1>7. Len(c) = n
  BY <1>1, <1>2, <1>5, <1>6
<1>8. ASSUME NEW k \in 1 .. n PROVE c[k] = q[k]
  <2>1. CASE k \in 1 .. i - 1
    BY <1>2, <1>6, <2>1
  <2>2. CASE k \notin 1 .. i - 1
    <3> DEFINE l == k - (i - 1)
    <3>1. l \in 1 .. n - i + 1 /\ k = i - 1 + l /\ i + l - 1 = k
      BY <1>1, <2>2
    <3> HIDE DEF l
    <3>2. c[k] = r[l]
      BY <1>2, <1>5, <1>6, <3>1
    <3> QED
      BY <1>5, <3>1, <3>2
  <2> QED
    BY <2>1, <2>2
<1>9. c = q
  BY <1>6, <1>7, <1>8, SeqEqual
<1> QED
  BY <1>2, <1>3, <1>4, <1>9 DEF a, m, b, c, r, IsCut

\* The entries before the lines of entry k.
LEMMA EntriesBefore ==
  ASSUME NEW ls \in Seq(TextLines), NEW k \in DOMAIN Entries(ls)
  PROVE  Len(Entries(SubSeq(ls, 1, Entries(ls)[k].start - 1))) = k - 1
<1> DEFINE Q == {c \in Seq(TextLines) :
                   \A l \in DOMAIN Entries(c) :
                     Len(Entries(SubSeq(c, 1, Entries(c)[l].start - 1))) = l - 1}
<1>1. <<>> \in Q
  BY EntriesOfNothing
<1>2. ASSUME NEW c \in Q, NEW x \in TextLines PROVE Append(c, x) \in Q
  <2> DEFINE cx == Append(c, x)  n == Len(c)  es == Entries(c)  ex == Entries(cx)
  <2>1. c \in Seq(TextLines) /\ n \in Nat /\ \A l \in DOMAIN es : Len(Entries(SubSeq(c, 1, es[l].start - 1))) = l - 1
    OBVIOUS
  <2>2. cx \in Seq(TextLines) /\ Len(cx) = n + 1 /\ \A i \in 1 .. n : cx[i] = c[i]
    BY <2>1, AppendIs
  <2>3. /\ x.is = "header" => ex = Append(es, [id |-> x.id, start |-> n + 1, end |-> n + 2])
        /\ x.is = "field" /\ Open(c) => ex = [es EXCEPT ![Len(es)].end = n + 2]
        /\ x.is # "header" /\ (x.is = "field" => ~Open(c)) => ex = es
    BY <2>1, EntriesOfAppend
  <2>4. es \in Seq(Span) /\ Len(es) \in Nat /\ DOMAIN es = 1 .. Len(es)
    BY <2>1, EntriesType
  <2>5. \A l \in DOMAIN es : es[l] \in Span /\ es[l].start \in Nat /\ 1 <= es[l].start /\ es[l].start <= n
    BY <2>1, EntryBounds
  <2> SUFFICES \A l \in DOMAIN ex : Len(Entries(SubSeq(cx, 1, ex[l].start - 1))) = l - 1
    BY <2>2
  <2>6. \A s \in Nat : s <= n => SubSeq(cx, 1, s) = SubSeq(c, 1, s)
    <3> TAKE s \in Nat
    <3> HAVE s <= n
    <3> HIDE DEF cx, n
    <3>1. /\ SubSeq(c, 1, s) \in Seq(TextLines) /\ Len(SubSeq(c, 1, s)) = s
          /\ \A i \in 1 .. s : SubSeq(c, 1, s)[i] = c[i]
      <4>1. s \in 0 .. Len(c)
        BY DEF n
      <4> QED
        BY <2>1, <4>1, PrefixType
    <3>2. /\ SubSeq(cx, 1, s) \in Seq(TextLines) /\ Len(SubSeq(cx, 1, s)) = s
          /\ \A i \in 1 .. s : SubSeq(cx, 1, s)[i] = cx[i]
      <4>1. s \in 0 .. Len(cx)
        BY <2>1, <2>2
      <4> QED
        BY <2>2, <4>1, PrefixType
    <3>3. \A i \in 1 .. s : i \in 1 .. n
      BY <2>1
    <3> QED
      BY <2>2, <3>1, <3>2, <3>3, SeqEqual
  <2>7. SubSeq(c, 1, n) = c
    <3>1. n \in 0 .. Len(c)
      BY <2>1
    <3> QED
      BY <2>1, <3>1, PrefixType, SeqEqual
  <2>8. x.is = "header" => x.id \in GapIds
    BY LineKinds
  <2> HIDE DEF cx, n, es, ex, Q
  <2>9. \A l \in DOMAIN es : Len(Entries(SubSeq(cx, 1, es[l].start - 1))) = l - 1
    <3> TAKE l \in DOMAIN es
    <3> DEFINE s == es[l].start - 1
    <3>1. s \in Nat /\ s <= n
      BY <2>1, <2>5
    <3> HIDE DEF s
    <3>2. SubSeq(cx, 1, s) = SubSeq(c, 1, s)
      BY <2>6, <3>1
    <3> QED
      BY <2>1, <3>2 DEF s
  <2>10. CASE x.is = "header"
    <3> DEFINE h == [id |-> x.id, start |-> n + 1, end |-> n + 2]
    <3>1. ex = Append(es, h) /\ h \in Span /\ h.start = n + 1
      BY <2>1, <2>3, <2>8, <2>10 DEF Span
    <3> HIDE DEF h
    <3>2. /\ DOMAIN ex = 1 .. Len(es) + 1 /\ ex[Len(es) + 1] = h
          /\ \A l \in 1 .. Len(es) : ex[l] = es[l]
      BY <2>4, <3>1, AppendIs
    <3>3. Len(Entries(SubSeq(cx, 1, h.start - 1))) = Len(es) + 1 - 1
      <4>1. h.start - 1 = n /\ Len(es) + 1 - 1 = Len(es)
        BY <2>1, <2>4, <3>1
      <4>2. SubSeq(cx, 1, n) = c
        BY <2>1, <2>6, <2>7
      <4> QED
        BY <4>1, <4>2 DEF es
    <3>4. \A l \in DOMAIN ex : l = Len(es) + 1 \/ l \in DOMAIN es
      BY <2>4, <3>2
    <3> QED
      BY <2>4, <2>9, <3>2, <3>3, <3>4
  <2>11. CASE x.is = "field" /\ Open(c)
    <3> DEFINE m == Len(es)
    <3>1. ex = [es EXCEPT ![m].end = n + 2] /\ DOMAIN ex = DOMAIN es
      BY <2>3, <2>4, <2>11
    <3>2. \A l \in DOMAIN es : ex[l].start = es[l].start
      BY <2>4, <2>5, <3>1 DEF Span
    <3> QED
      BY <2>9, <3>1, <3>2
  <2>12. CASE x.is # "header" /\ (x.is = "field" => ~Open(c))
    BY <2>3, <2>9, <2>12
  <2> QED
    BY <2>10, <2>11, <2>12
<1>3. Q \in SUBSET Seq(TextLines)
  OBVIOUS
<1>4. Q = Seq(TextLines)
  <2> HIDE DEF Q
  <2> QED
    BY <1>1, <1>2, <1>3, SeqInduction
<1> QED
  BY <1>4

\* What RemoveAt leaves of two sequences with one element between them.
LEMMA RemoveBetween ==
  ASSUME NEW S, NEW a \in Seq(S), NEW b \in Seq(S), NEW e \in S
  PROVE  RemoveAt(a \o (<<e>> \o b), Len(a) + 1) = a \o b
<1> DEFINE m == Len(a)  n == Len(b)  q == a \o (<<e>> \o b)
           i == m + 1  j == m + 2
           x == SubSeq(q, 1, i - 1)  y == SubSeq(q, j, Len(q))  eb == <<e>> \o b
<1>1. m \in Nat /\ n \in Nat /\ i \in Nat /\ j \in Nat /\ 1 <= i /\ i <= j /\ i - 1 = m /\ i + 1 = j
  OBVIOUS
<1>2. eb \in Seq(S) /\ Len(eb) = n + 1 /\ eb[1] = e /\ \A k \in 1 .. n : eb[1 + k] = b[k]
  <2>1. <<e>> \in Seq(S) /\ Len(<<e>>) = 1 /\ <<e>>[1] = e /\ 1 \in 1 .. 1
    OBVIOUS
  <2> HIDE DEF eb
  <2>2. /\ eb \in Seq(S) /\ Len(eb) = 1 + n
        /\ \A k \in 1 .. Len(<<e>>) : eb[k] = <<e>>[k]
        /\ \A k \in 1 .. n : eb[Len(<<e>>) + k] = b[k]
    BY <2>1, ConcatType DEF eb
  <2> QED
    BY <1>1, <2>1, <2>2
<1>3. /\ q \in Seq(S) /\ Len(q) = m + (n + 1)
      /\ \A k \in 1 .. m : q[k] = a[k]
      /\ \A k \in 1 .. n + 1 : q[m + k] = eb[k]
  <2> HIDE DEF eb
  <2>1. q = a \o eb
    BY DEF eb
  <2>2. eb \in Seq(S) /\ Len(eb) = n + 1
    BY <1>2
  <2>3. /\ a \o eb \in Seq(S) /\ Len(a \o eb) = m + Len(eb)
        /\ \A k \in 1 .. m : (a \o eb)[k] = a[k]
        /\ \A k \in 1 .. Len(eb) : (a \o eb)[m + k] = eb[k]
    <3>1. eb \in Seq(S)
      BY <1>2
    <3> QED
      BY <3>1, ConcatType
  <2> HIDE DEF q
  <2> QED
    BY <2>1, <2>2, <2>3
<1> HIDE DEF eb, q
<1>4. x \in Seq(S) /\ Len(x) = m /\ \A k \in 1 .. m : x[k] = q[k]
  <2>1. m \in 0 .. Len(q) /\ i - 1 = m
    BY <1>1, <1>3
  <2> QED
    BY <1>3, <2>1, PrefixType
<1>5. x = a
  <2> HIDE DEF x
  <2> QED
    BY <1>3, <1>4, SeqEqual
<1>6. y = b
  <2>1. j <= Len(q) + 1
    BY <1>1, <1>3
  <2>2. y \in Seq(S) /\ Len(y) = Len(q) - j + 1 /\ \A k \in 1 .. Len(q) - j + 1 : y[k] = q[j + k - 1]
    <3>1. IsCut(S, q, i, j)
      BY <1>1, <1>3, <2>1, ThreeParts
    <3> QED
      BY <3>1 DEF IsCut
  <2>3. Len(q) - j + 1 = n
    BY <1>1, <1>3
  <2> HIDE DEF y
  <2>4. \A k \in 1 .. n : y[k] = b[k]
    <3> TAKE k \in 1 .. n
    <3>1. j + k - 1 = m + (1 + k) /\ 1 + k \in 1 .. n + 1
      BY <1>1
    <3> QED
      BY <1>2, <1>3, <2>2, <2>3, <3>1
  <2> QED
    BY <2>2, <2>3, <2>4, SeqEqual
<1>7. RemoveAt(q, i) = x \o y
  BY <1>1 DEF RemoveAt
<1> QED
  BY <1>5, <1>6, <1>7 DEF q, eb

\* Taking the lines of entry k out of a text takes it out of the list, and
\* leaves the rest.
LEMMA WithoutIs ==
  ASSUME NEW ls \in Seq(TextLines), NEW k \in DOMAIN Entries(ls)
  PROVE  LET w == Without(ls, Entries(ls)[k])
         IN /\ w \in Seq(TextLines)
            /\ ListOf(w) = RemoveAt(ListOf(ls), k)
            /\ Rest(w) = Rest(ls)
<1> DEFINE e == Entries(ls)[k]  i == e.start  j == e.end  n == Len(ls)
           a == SubSeq(ls, 1, i - 1)  m == SubSeq(ls, i, j - 1)  b == SubSeq(ls, j, n)
<1>1. /\ i \in Nat /\ j \in Nat /\ n \in Nat /\ k \in Nat
      /\ 1 <= i /\ i <= n /\ i + 1 <= j /\ j <= n + 1 /\ e.id \in GapIds
  BY EntryBounds
<1>2. /\ ls[i].id = e.id
      /\ \A l \in i + 1 .. j - 1 : ls[l].is = "field"
      /\ j <= n => ls[j].is # "field"
  BY SpansAreRight DEF SpansOK
<1>3. ls[i].is = "header"
  <2>1. i \in HeaderLines(ls)
    BY SpansAreRight DEF SpansOK
  <2> QED
    BY <2>1 DEF HeaderLines
<1>4. Len(Entries(a)) = k - 1
  BY EntriesBefore
<1>5. Without(ls, e) = a \o b
  BY DEF Without
<1> DEFINE g == e.id
<1> HIDE DEF e, i, j, g
<1>6. /\ a \in Seq(TextLines) /\ m \in Seq(TextLines) /\ b \in Seq(TextLines)
      /\ Len(m) = j - i /\ Len(b) = n - j + 1
      /\ \A l \in 1 .. j - i : m[l] = ls[i + l - 1]
      /\ \A l \in 1 .. n - j + 1 : b[l] = ls[j + l - 1]
      /\ ls = a \o (m \o b)
  <2>1. i \in Nat /\ j \in Nat /\ 1 <= i /\ i <= j /\ j <= Len(ls) + 1
    BY <1>1
  <2>2. IsCut(TextLines, ls, i, j)
    BY <2>1, ThreeParts
  <2> QED
    BY <2>2 DEF IsCut
<1> HIDE DEF a, m, b
<1>7. b = <<>> \/ b[1].is # "field"
  <2>1. b # <<>> => 1 \in 1 .. n - j + 1 /\ j <= n /\ j + 1 - 1 = j
    BY <1>1, <1>6
  <2> QED
    BY <1>2, <1>6, <2>1
<1> DEFINE fs == SubSeq(m, 2, Len(m))
<1>8. fs \in Seq(FieldTexts) /\ m = FormatGapEntry(g, fs) /\ g \in GapIds
  <2>1. m[1] = Header(g) /\ g \in GapIds
    <3>1. 1 \in 1 .. j - i /\ i + 1 - 1 = i
      BY <1>1
    <3>2. m[1] = ls[i]
      BY <1>6, <3>1
    <3>3. \A x \in TextLines : x.is = "header" => x = Header(x.id)
      BY DEF TextLines, Header, Blank, Field, Other
    <3>4. ls[i] \in TextLines
      BY <1>1
    <3> QED
      BY <1>1, <1>2, <1>3, <3>2, <3>3, <3>4 DEF g
  <2>2. \A l \in 2 .. Len(m) : m[l] \in FieldTexts
    <3> TAKE l \in 2 .. Len(m)
    <3>1. l \in 1 .. j - i /\ i + l - 1 \in i + 1 .. j - 1 /\ i + l - 1 \in 1 .. n
      BY <1>1, <1>6
    <3>2. m[l] = ls[i + l - 1]
      BY <1>6, <3>1
    <3>3. ls[i + l - 1].is = "field"
      BY <1>2, <3>1
    <3>4. ls[i + l - 1] \in TextLines
      BY <3>1
    <3> QED
      BY <3>2, <3>3, <3>4 DEF FieldTexts
  <2> DEFINE h == <<Header(g)>>  q == h \o fs
  <2>3. Len(m) \in Nat /\ Len(m) >= 1 /\ Len(m) \in Int /\ 2 \in Int
    BY <1>1, <1>6
  <2>4. /\ fs \in Seq(FieldTexts) /\ Len(fs) = IF 2 <= Len(m) THEN Len(m) - 2 + 1 ELSE 0
        /\ \A l \in 1 .. Len(m) - 2 + 1 : fs[l] = m[2 + l - 1]
    BY <2>2, <2>3, SubSeqProperties
  <2> HIDE DEF fs
  <2>5. Len(fs) = Len(m) - 1 /\ \A l \in 1 .. Len(m) - 1 : fs[l] = m[1 + l]
    <3>1. Len(fs) = Len(m) - 1 /\ Len(m) - 2 + 1 = Len(m) - 1
      <4> DEFINE z == Len(m)  y == Len(fs)
      <4>1. z \in Nat /\ z >= 1 /\ y = IF 2 <= z THEN z - 2 + 1 ELSE 0
        BY <2>3, <2>4
      <4> HIDE DEF z, y
      <4>2. y = z - 1 /\ z - 2 + 1 = z - 1
        BY <4>1
      <4> QED
        BY <4>2 DEF z, y
    <3>2. \A l \in 1 .. Len(m) - 1 : 2 + l - 1 = 1 + l
      BY <2>3
    <3> QED
      BY <2>4, <3>1, <3>2
  <2>6. h \in Seq(TextLines) /\ fs \in Seq(TextLines) /\ Len(h) = 1 /\ h[1] = Header(g)
    <3>1. Header(g) \in TextLines
      BY <2>1 DEF TextLines
    <3>2. fs \in Seq(TextLines)
      BY <2>4 DEF FieldTexts
    <3> QED
      BY <3>1, <3>2
  <2>7. /\ q \in Seq(TextLines) /\ Len(q) = Len(h) + Len(fs)
        /\ \A l \in 1 .. Len(h) : q[l] = h[l]
        /\ \A l \in 1 .. Len(fs) : q[Len(h) + l] = fs[l]
    <3> HIDE DEF h
    <3>1. h \in Seq(TextLines) /\ fs \in Seq(TextLines)
      BY <2>6
    <3> QED
      BY <3>1, ConcatType
  <2> HIDE DEF h, q
  <2>8. Len(q) = Len(m)
    BY <2>3, <2>5, <2>6, <2>7
  <2>9. \A l \in 1 .. Len(m) : q[l] = m[l]
    <3> TAKE l \in 1 .. Len(m)
    <3>1. CASE l = 1
      BY <2>1, <2>6, <2>7, <3>1
    <3>2. CASE l # 1
      <4> DEFINE r == l - 1
      <4>1. r \in 1 .. Len(m) - 1 /\ l = 1 + r
        BY <2>3, <3>2
      <4> HIDE DEF r
      <4> QED
        BY <2>5, <2>6, <2>7, <4>1
    <3> QED
      BY <3>1, <3>2
  <2>10. q = m
    BY <1>6, <2>7, <2>8, <2>9, SeqEqual
  <2> QED
    BY <2>1, <2>4, <2>10 DEF FormatGapEntry, q, h
<1> HIDE DEF fs
<1> DEFINE r == [id |-> g, fields |-> fs]
<1>9. ListOf(m) = <<r>> /\ Rest(m) = <<>> /\ Open(m) /\ m # <<>> /\ m[1] = Header(g)
  BY <1>8, ListOfEntry
<1>10. ListOf(m \o b) = <<r>> \o ListOf(b) /\ Rest(m \o b) = <<>> \o Rest(b)
  <2>1. m \in Seq(TextLines) /\ b \in Seq(TextLines)
    BY <1>6
  <2>2. ListOf(m \o b) = ListOf(m) \o ListOf(b)
    BY <1>7, <2>1, ListOfConcat
  <2>3. Rest(m \o b) = Rest(m) \o Rest(b)
    BY <1>7, <2>1, RestOfConcat
  <2> QED
    BY <1>9, <2>2, <2>3
<1> DEFINE mb == m \o b
<1>11. mb \in Seq(TextLines) /\ mb # <<>> /\ mb[1] = Header(g)
  <2>1. /\ mb \in Seq(TextLines) /\ Len(mb) = Len(m) + Len(b) /\ Len(m) \in Nat /\ Len(b) \in Nat
        /\ \A l \in 1 .. Len(m) : mb[l] = m[l]
    <3>1. m \in Seq(TextLines) /\ b \in Seq(TextLines)
      BY <1>6
    <3> QED
      BY <3>1, ConcatType
  <2>2. Len(m) >= 1
    BY <1>6, <1>9
  <2>3. 1 \in 1 .. Len(m) /\ Len(mb) # 0
    BY <2>1, <2>2
  <2> HIDE DEF mb
  <2> QED
    BY <1>9, <2>1, <2>3
<1> HIDE DEF mb
<1>12. ListOf(ls) = ListOf(a) \o ListOf(mb) /\ Rest(ls) = Rest(a) \o Rest(mb)
  <2>1. mb[1].is # "field"
    BY <1>11 DEF Header
  <2>2. ls = a \o mb
    BY <1>6 DEF mb
  <2> QED
    BY SMTT(30), <1>6, <1>11, <2>1, <2>2, ListOfConcat, RestOfConcat
<1>13. ListOf(a \o b) = ListOf(a) \o ListOf(b) /\ Rest(a \o b) = Rest(a) \o Rest(b)
  BY <1>6, <1>7, ListOfConcat, RestOfConcat
<1> HIDE DEF r
<1>14. /\ ListOf(a) \in Seq(Record) /\ ListOf(b) \in Seq(Record) /\ Len(ListOf(a)) = k - 1 /\ r \in Record
       /\ Rest(b) \in Seq(TextLines)
  <2>1. r \in Record
    <3>1. fs \in Seq(TextLines)
      BY <1>8 DEF FieldTexts
    <3> QED
      BY <1>8, <3>1 DEF r, Record
  <2> QED
    BY <1>4, <1>6, <2>1, ListType, RestStep, LineKinds
<1>15. RemoveAt(ListOf(ls), k) = ListOf(a \o b)
  <2> DEFINE la == ListOf(a)  lb == ListOf(b)
  <2>1. la \in Seq(Record) /\ lb \in Seq(Record) /\ r \in Record
    BY <1>14
  <2>2. ListOf(ls) = la \o (<<r>> \o lb)
    BY <1>10, <1>12 DEF mb
  <2>3. Len(la) + 1 = k
    BY <1>1, <1>14
  <2> HIDE DEF la, lb
  <2>4. RemoveAt(la \o (<<r>> \o lb), Len(la) + 1) = la \o lb
    BY <2>1, RemoveBetween
  <2> QED
    BY <1>13, <2>2, <2>3, <2>4 DEF la, lb
<1>16. <<>> \o Rest(b) = Rest(b)
  BY <1>14
<1>17. a \o b \in Seq(TextLines)
  BY <1>6
<1> QED
  BY <1>5, <1>10, <1>12, <1>13, <1>15, <1>16, <1>17 DEF e, mb

-----------------------------------------------------------------------------
(* ... and blank lines after blank lines.                                  *)

CollapseLine(s, ls, i) ==
  IF i \in 3 .. Len(ls) - 1 /\ ls[i] = Blank /\ ls[i - 1] = Blank THEN s ELSE Append(s, ls[i])

\* One line of the walk that collapses blank lines.
LEMMA CollapseType ==
  ASSUME NEW ls \in Seq(TextLines), NEW i \in 1 .. Len(ls), NEW s \in Seq(TextLines)
  PROVE  CollapseLine(s, ls, i) \in Seq(TextLines)
<1>1. ls[i] \in TextLines
  OBVIOUS
<1> QED
  BY <1>1 DEF CollapseLine

\* The walk reads the lines one by one.
LEMMA CollapseScan ==
  ASSUME NEW ls \in Seq(TextLines)
  PROVE  \E f \in [0 .. Len(ls) -> Seq(TextLines)] :
           /\ f[0] = <<>>
           /\ \A i \in 1 .. Len(ls) : f[i] = CollapseLine(f[i - 1], ls, i)
           /\ Collapse(ls) = f[Len(ls)]
<1> DEFINE n == Len(ls)
           op == [i \in 1 .. n |-> [s \in Seq(TextLines) |-> CollapseLine(s, ls, i)]]
           sq == [i \in DOMAIN ls |-> i]
           Equation(h) == h = [s \in SUBSET (DOMAIN sq) |->
                                 IF s = {} THEN <<>>
                                 ELSE CollapseLine(h[s \ {Max(s)}], ls, sq[Max(s)])]
           it == CHOOSE h : Equation(h)
<1>1. n \in Nat /\ DOMAIN sq = 1 .. n /\ \A i \in 1 .. n : sq[i] = i
  OBVIOUS
<1>2. Collapse(ls) = it[1 .. n]
  <2>1. Collapse(ls) = it[DOMAIN sq]
    BY DEF Collapse, CollapseLine, FoldLeftDomain, FoldLeft, MapThenFoldSet
  <2> HIDE DEF it
  <2> QED
    BY <1>1, <2>1
<1> HIDE DEF sq
<1>3. /\ op \in [1 .. n -> [Seq(TextLines) -> Seq(TextLines)]]
      /\ \A i \in 1 .. n, s \in Seq(TextLines) : op[i][s] = CollapseLine(s, ls, i)
  BY CollapseType
<1>4. <<>> \in Seq(TextLines)
  OBVIOUS
<1> HIDE DEF op
<1>5. \E h : Equation(h)
  <2>1. PICK g :
          /\ g = [s \in SUBSET (1 .. n) |->
                    IF s = {} THEN <<>> ELSE op[Max(s)][g[s \ {Max(s)}]]]
          /\ \A s \in SUBSET (1 .. n) : s # {} =>
               g[s \ {Max(s)}] \in Seq(TextLines) /\ Max(s) \in 1 .. n
    BY <1>1, <1>3, <1>4, FoldEquation
  <2>2. \A s \in SUBSET (1 .. n) : s # {} =>
          op[Max(s)][g[s \ {Max(s)}]] = CollapseLine(g[s \ {Max(s)}], ls, sq[Max(s)])
    <3> HIDE DEF Max
    <3> QED
      BY <1>1, <1>3, <2>1
  <2>3. Equation(g)
    <3> HIDE DEF Max
    <3> QED
      BY <1>1, <2>1, <2>2, Zenon
  <2> QED
    BY <2>3
<1>6. Equation(it)
  <2> HIDE DEF Equation
  <2> QED
    BY <1>5
<1> HIDE DEF it
<1>7. \A s \in SUBSET (1 .. n) : s # {} => Max(s) \in 1 .. n
  <2> TAKE s \in SUBSET (1 .. n)
  <2> HAVE s # {}
  <2>1. Max(s) \in s
    BY <1>1, MaxOf
  <2> QED
    BY <2>1
<1>8. /\ it[{}] = <<>>
      /\ \A s \in SUBSET (1 .. n) : s # {} => it[s] = CollapseLine(it[s \ {Max(s)}], ls, sq[Max(s)])
  BY <1>1, <1>6
<1> HIDE DEF Equation
<1> HIDE DEF n
<1>9. MaxLast(it, Seq(TextLines), <<>>, op, n)
  <2> SUFFICES ASSUME NEW s \in SUBSET (1 .. n), s # {}, it[s \ {Max(s)}] \in Seq(TextLines)
               PROVE  it[s] = op[Max(s)][it[s \ {Max(s)}]]
    BY <1>8 DEF MaxLast
  <2>1. Max(s) \in 1 .. n
    BY <1>7
  <2>2. sq[Max(s)] = Max(s)
    BY <1>1, <2>1
  <2>3. it[s] = CollapseLine(it[s \ {Max(s)}], ls, Max(s))
    BY <1>8, <2>2
  <2> QED
    BY <1>3, <2>1, <2>3
<1>10. PICK f : IsScan(f, Seq(TextLines), <<>>, op, n) /\ it[1 .. n] = f[n]
  <2> DEFINE D == Seq(TextLines)  base == <<>>
  <2>1. n \in Nat /\ base \in D /\ op \in [1 .. n -> [D -> D]] /\ MaxLast(it, D, base, op, n)
    BY <1>1, <1>3, <1>4, <1>9
  <2> HIDE DEF D, base
  <2>2. \E f : IsScan(f, D, base, op, n) /\ it[1 .. n] = f[n]
    BY <2>1, FoldScan
  <2> QED
    BY <2>2 DEF D, base
<1>11. /\ f \in [0 .. n -> Seq(TextLines)] /\ f[0] = <<>>
       /\ \A i \in 1 .. n : f[i] = op[i][f[i - 1]] /\ f[i - 1] \in Seq(TextLines)
  <2> DEFINE D == Seq(TextLines)
  <2>1. /\ f \in [0 .. n -> D] /\ f[0] = <<>>
        /\ \A i \in 1 .. n : f[i] = op[i][f[i - 1]]
    BY <1>10 DEF IsScan
  <2>2. \A i \in 1 .. n : i - 1 \in 0 .. n
    BY <1>1
  <2> HIDE DEF D
  <2>3. \A i \in 1 .. n : f[i - 1] \in D
    BY <2>1, <2>2
  <2> QED
    BY <2>1, <2>3 DEF D
<1> QED
  BY <1>2, <1>3, <1>10, <1>11 DEF n

\* One more line of a text.
LEMMA PrefixStep ==
  ASSUME NEW S, NEW q \in Seq(S), NEW m \in Nat, m + 1 <= Len(q)
  PROVE  /\ SubSeq(q, 1, m) \in Seq(S) /\ q[m + 1] \in S
         /\ SubSeq(q, 1, m + 1) = Append(SubSeq(q, 1, m), q[m + 1])
<1> DEFINE a == SubSeq(q, 1, m)  b == SubSeq(q, 1, m + 1)  c == Append(a, q[m + 1])
<1>1. m \in 0 .. Len(q) /\ m + 1 \in 0 .. Len(q) /\ m + 1 \in 1 .. Len(q) /\ q[m + 1] \in S
  OBVIOUS
<1>2. a \in Seq(S) /\ Len(a) = m /\ \A i \in 1 .. m : a[i] = q[i]
  BY <1>1, PrefixType
<1>3. b \in Seq(S) /\ Len(b) = m + 1 /\ \A i \in 1 .. m + 1 : b[i] = q[i]
  BY <1>1, PrefixType
<1> HIDE DEF a, b
<1>4. /\ c \in Seq(S) /\ Len(c) = m + 1 /\ c[m + 1] = q[m + 1]
      /\ \A i \in 1 .. m : c[i] = a[i]
  BY <1>1, <1>2, AppendIs
<1> HIDE DEF c
<1>5. \A i \in 1 .. m + 1 : b[i] = c[i]
  <2> TAKE i \in 1 .. m + 1
  <2>1. i \in 1 .. m \/ i = m + 1
    OBVIOUS
  <2> QED
    BY <1>2, <1>3, <1>4, <2>1
<1>6. b = c
  BY <1>3, <1>4, <1>5, SeqEqual
<1> QED
  BY <1>1, <1>2, <1>6 DEF a, b, c

\* Collapsing blank lines leaves the list and the rest.
LEMMA CollapseIs ==
  ASSUME NEW t \in FileTexts
  PROVE  Collapse(t) \in FileTexts /\ Alike(Collapse(t), t)
<1> DEFINE n == Len(t)  p(m) == SubSeq(t, 1, m)
<1>1. t \in Seq(TextLines) /\ t # <<>> /\ n \in Nat /\ n # 0
  BY DEF FileTexts
<1>2. PICK f \in [0 .. n -> Seq(TextLines)] :
        /\ f[0] = <<>>
        /\ \A i \in 1 .. n : f[i] = CollapseLine(f[i - 1], t, i)
        /\ Collapse(t) = f[n]
  BY <1>1, CollapseScan
<1> DEFINE Good(m) == Alike(f[m], p(m)) /\ (m # 0 => f[m] # <<>>)
           Q == {m \in Nat : m <= n => Good(m)}
<1>3. 0 \in Q
  <2>1. p(0) = <<>>
    BY <1>1
  <2> QED
    BY <1>2, <2>1 DEF Alike
<1>4. ASSUME NEW m \in Q PROVE m + 1 \in Q
  <2> SUFFICES ASSUME m + 1 <= n PROVE Good(m + 1)
    OBVIOUS
  <2> DEFINE a == p(m)  b == p(m + 1)  x == t[m + 1]
  <2>1. m \in Nat /\ m <= n /\ Good(m) /\ m \in 0 .. n /\ m + 1 \in 0 .. n /\ m + 1 \in 1 .. n /\ m + 1 - 1 = m
    BY <1>1
  <2>2. a \in Seq(TextLines) /\ x \in TextLines /\ b = Append(a, x)
    BY <1>1, <2>1, PrefixStep
  <2> DEFINE fm == f[m]  fn == f[m + 1]
  <2>3. fm \in Seq(TextLines) /\ Alike(fm, a) /\ fn = CollapseLine(fm, t, m + 1) /\ (m # 0 => fm # <<>>)
    BY <1>2, <2>1
  <2> SUFFICES Alike(fn, b) /\ fn # <<>>
    OBVIOUS
  <2> HIDE DEF fm, fn, b
  <2>4. CASE m + 1 \in 3 .. n - 1 /\ x = Blank /\ t[m] = Blank
    <3>1. fn = fm
      BY <2>1, <2>3, <2>4 DEF CollapseLine
    <3> DEFINE l == m - 1  c == p(l)
    <3>2. l \in Nat /\ l + 1 = m /\ m <= n /\ m # 0
      BY <1>1, <2>1, <2>4
    <3> HIDE DEF l
    <3>3. c \in Seq(TextLines) /\ SubSeq(t, 1, l + 1) = Append(c, t[l + 1])
      BY <1>1, <3>2, PrefixStep
    <3> HIDE DEF c
    <3>4. a = Append(c, Blank)
      BY <2>4, <3>2, <3>3
    <3> HIDE DEF a
    <3>5. ~Open(a)
      BY <3>3, <3>4, BlankStep
    <3>6. ListOf(b) = ListOf(a) /\ Rest(b) = Rest(a) /\ ~Open(b)
      BY <2>2, <2>4, BlankStep
    <3> QED
      BY <2>3, <3>1, <3>2, <3>5, <3>6 DEF Alike
  <2>5. CASE ~(m + 1 \in 3 .. n - 1 /\ x = Blank /\ t[m] = Blank)
    <3>1. fn = Append(fm, x)
      BY <2>1, <2>3, <2>5 DEF CollapseLine
    <3> HIDE DEF a, x
    <3>2. Alike(fn, b)
      BY <2>2, <2>3, <3>1, AlikeStep
    <3>3. fn # <<>>
      BY <2>2, <2>3, <3>1, AppendIs
    <3> QED
      BY <3>2, <3>3
  <2> QED
    BY <2>4, <2>5
<1>5. Q = Nat
  <2> HIDE DEF Q
  <2>1. Q \in SUBSET Nat
    BY DEF Q
  <2> QED
    BY <1>3, <1>4, <2>1, SetInduction
<1>6. Good(n)
  <2> HIDE DEF Good
  <2> QED
    BY <1>1, <1>5
<1>7. p(n) = t
  <2>1. n \in 0 .. Len(t)
    BY <1>1
  <2>2. p(n) \in Seq(TextLines) /\ Len(p(n)) = n /\ \A i \in 1 .. n : p(n)[i] = t[i]
    BY <1>1, <2>1, PrefixType
  <2> QED
    BY <1>1, <2>2, SeqEqual
<1>8. n \in 0 .. n
  BY <1>1
<1> HIDE DEF p
<1> QED
  BY <1>1, <1>2, <1>6, <1>7, <1>8 DEF FileTexts

\* remove_gap_entry_from_text drops the first entry with the id, and nothing
\* else, from the list.
LEMMA RemoveEntryIs ==
  ASSUME NEW t \in FileTexts, NEW g, Known(t, g)
  PROVE  LET r == RemoveEntry(t, g)
         IN /\ r \in FileTexts
            /\ Gaps(r) = RemoveAt(Gaps(t), Position(Gaps(t), g))
            /\ Rest(r) = Rest(t)
<1> DEFINE p == Parse(t)  k == Position(p, g)  ls == Lines(t)
           w == Without(ls, p[k])  j == Joined(w)  c == Collapse(j)
           r == RemoveEntry(t, g)
<1>1. ls \in Seq(TextLines) /\ ListOf(ls) = ListOf(t) /\ Rest(ls) = Rest(t) /\ Gaps(t) = ListOf(t)
  BY LinesType, LinesAreAlike, GapsAreLists
<1>2. p = Entries(ls)
  BY ParseIs
<1>3. k = Position(Gaps(t), g)
  BY ParsePosition
<1>4. k \in DOMAIN Entries(ls)
  <2>1. Entries(ls) \in Seq(Span) /\ DOMAIN Entries(ls) = 1 .. Len(Entries(ls))
    BY <1>1, EntriesType
  <2>2. k \in 0 .. Len(Entries(ls)) /\ k # 0
    BY <1>2, <2>1, PositionIs DEF Known
  <2> QED
    BY <2>1, <2>2
<1>5. r = IF EndsWithNewline(c) THEN c ELSE Append(c, Blank)
  BY DEF RemoveEntry
<1> HIDE DEF k, r, ls
<1>6. w \in Seq(TextLines) /\ ListOf(w) = RemoveAt(ListOf(ls), k) /\ Rest(w) = Rest(ls)
  BY <1>1, <1>2, <1>4, WithoutIs
<1> HIDE DEF p, w
<1>7. j \in FileTexts /\ ListOf(j) = ListOf(w) /\ Rest(j) = Rest(w)
  <2>1. CASE w = <<>>
    <3>1. <<>> \in Seq(TextLines) /\ Append(<<>>, Blank) = EmptyText
      BY DEF EmptyText
    <3>2. /\ EmptyText \in Seq(TextLines)
          /\ ListOf(EmptyText) = ListOf(<<>>) /\ Rest(EmptyText) = Rest(<<>>)
      BY <3>1, BlankStep
    <3>3. j = EmptyText /\ EmptyText # <<>>
      BY <2>1 DEF Joined, EmptyText
    <3> QED
      BY <2>1, <3>2, <3>3 DEF FileTexts
  <2>2. CASE w # <<>>
    BY <1>6, <2>2 DEF Joined, FileTexts
  <2> QED
    BY <2>1, <2>2
<1> HIDE DEF j
<1>8. c \in FileTexts /\ ListOf(c) = ListOf(j) /\ Rest(c) = Rest(j)
  BY <1>7, CollapseIs DEF Alike
<1> HIDE DEF c
<1>9. r \in FileTexts /\ ListOf(r) = ListOf(c) /\ Rest(r) = Rest(c)
  <2>1. c \in Seq(TextLines) /\ Blank \in TextLines
    BY <1>8, LineKinds DEF FileTexts
  <2>2. Append(c, Blank) \in FileTexts
    BY <2>1, AppendIs DEF FileTexts
  <2>3. ListOf(Append(c, Blank)) = ListOf(c) /\ Rest(Append(c, Blank)) = Rest(c)
    BY <2>1, BlankStep
  <2> QED
    BY <1>5, <1>8, <2>2, <2>3
<1>10. Gaps(r) = ListOf(r)
  BY <1>9, GapsAreLists
<1> QED
  BY <1>1, <1>3, <1>6, <1>7, <1>8, <1>9, <1>10 DEF r

-----------------------------------------------------------------------------
(* The ids of a list.                                                      *)

NoTwoAlike(q) == \A i, j \in DOMAIN q : q[i].id = q[j].id => i = j

\* The same of a text, whose list may be cut short by a failing write.
HeadersDiffer(t) ==
  \A i, j \in 1 .. Len(t) :
    t[i].is = "header" /\ t[j].is = "header" /\ t[i].id = t[j].id => i = j

NoHeader(t) == \A i \in 1 .. Len(t) : t[i].is # "header"

\* What list_gaps answers is made of the header lines.
LEMMA GapsAreHeaders ==
  ASSUME NEW t \in FileTexts
  PROVE  /\ DOMAIN Gaps(t) = DOMAIN Entries(t)
         /\ \A k \in DOMAIN Entries(t) :
              /\ Entries(t)[k].start \in HeaderLines(t)
              /\ Gaps(t)[k].id = t[Entries(t)[k].start].id
         /\ \A i \in HeaderLines(t) : \E k \in DOMAIN Entries(t) : Entries(t)[k].start = i
         /\ \A j, k \in DOMAIN Entries(t) : Entries(t)[j].start = Entries(t)[k].start => j = k
<1>1. t \in Seq(TextLines) /\ Gaps(t) = ListOf(t)
  BY GapsAreLists
<1>2. DOMAIN Gaps(t) = DOMAIN Entries(t) /\ \A k \in DOMAIN Entries(t) : Gaps(t)[k].id = Entries(t)[k].id
  BY <1>1 DEF ListOf, Entry
<1>3. /\ {Entries(t)[k].start : k \in DOMAIN Entries(t)} = HeaderLines(t)
      /\ \A k \in DOMAIN Entries(t) : t[Entries(t)[k].start].id = Entries(t)[k].id
      /\ \A j, k \in DOMAIN Entries(t) : j < k => Entries(t)[j].end <= Entries(t)[k].start
  BY <1>1, SpansAreRight DEF SpansOK
<1>4. ASSUME NEW j \in DOMAIN Entries(t), NEW k \in DOMAIN Entries(t),
             Entries(t)[j].start = Entries(t)[k].start
      PROVE  j = k
  <2> DEFINE a == Entries(t)[j].start  b == Entries(t)[j].end
             c == Entries(t)[k].start  d == Entries(t)[k].end
  <2>1. /\ a \in Nat /\ b \in Nat /\ c \in Nat /\ d \in Nat /\ j \in Nat /\ k \in Nat
        /\ a + 1 <= b /\ c + 1 <= d
    BY <1>1, EntryBounds
  <2>2. (j < k => b <= c) /\ (k < j => d <= a) /\ a = c
    BY <1>3, <1>4
  <2> HIDE DEF a, b, c, d
  <2> QED
    BY <2>1, <2>2
<1> QED
  BY <1>2, <1>3, <1>4

\* No id is listed twice exactly when no id has two header lines.
LEMMA ListedOnceIsOneHeader ==
  ASSUME NEW t \in FileTexts
  PROVE  NoTwoAlike(Gaps(t)) <=> HeadersDiffer(t)
<1> DEFINE es == Entries(t)  q == Gaps(t)
<1>1. /\ DOMAIN q = DOMAIN es
      /\ \A k \in DOMAIN es : es[k].start \in HeaderLines(t) /\ q[k].id = t[es[k].start].id
      /\ \A i \in HeaderLines(t) : \E k \in DOMAIN es : es[k].start = i
      /\ \A j, k \in DOMAIN es : es[j].start = es[k].start => j = k
  BY GapsAreHeaders
<1>2. HeaderLines(t) = {i \in 1 .. Len(t) : t[i].is = "header"}
  BY DEF HeaderLines
<1> HIDE DEF es, q
<1>3. HeadersDiffer(t) <=> \A i, j \in HeaderLines(t) : t[i].id = t[j].id => i = j
  BY <1>2 DEF HeadersDiffer
<1>4. ASSUME HeadersDiffer(t) PROVE NoTwoAlike(q)
  BY <1>1, <1>3, <1>4 DEF NoTwoAlike
<1>5. ASSUME NoTwoAlike(q) PROVE HeadersDiffer(t)
  <2> SUFFICES ASSUME NEW i \in HeaderLines(t), NEW j \in HeaderLines(t), t[i].id = t[j].id
               PROVE  i = j
    BY <1>3
  <2>1. PICK k \in DOMAIN es, l \in DOMAIN es : es[k].start = i /\ es[l].start = j
    BY <1>1
  <2>2. q[k].id = q[l].id
    BY <1>1, <2>1
  <2> QED
    BY <1>1, <1>5, <2>1, <2>2 DEF NoTwoAlike
<1> QED
  BY <1>4, <1>5 DEF q

\* Nothing is listed exactly when there is no header line.
LEMMA NothingListedIsNoHeader ==
  ASSUME NEW t \in FileTexts
  PROVE  Gaps(t) = <<>> <=> NoHeader(t)
<1>1. Gaps(t) \in Seq(Record)
  BY GapsAreLists
<1>2. Gaps(t) = <<>> <=> DOMAIN Gaps(t) = {}
  BY <1>1
<1>3. NoHeader(t) <=> HeaderLines(t) = {}
  <2>1. DOMAIN t = 1 .. Len(t)
    BY GapsAreLists
  <2>2. HeaderLines(t) = {} <=> \A i \in DOMAIN t : t[i].is # "header"
    BY DEF HeaderLines
  <2> QED
    BY <2>1, <2>2 DEF NoHeader
<1>4. DOMAIN Gaps(t) = {} <=> HeaderLines(t) = {}
  BY GapsAreHeaders
<1> QED
  BY <1>2, <1>3, <1>4

\* A known gap is a listed one.
LEMMA KnownIsListed ==
  ASSUME NEW t \in FileTexts, NEW g
  PROVE  /\ Known(t, g) <=> \E i \in DOMAIN Gaps(t) : Gaps(t)[i].id = g
         /\ Known(t, g) => Position(Gaps(t), g) \in DOMAIN Gaps(t)
         /\ Known(t, g) <=> Position(Gaps(t), g) # 0
         /\ Position(Gaps(t), g) \in Nat
<1> DEFINE q == Gaps(t)  n == Position(q, g)
<1>1. Known(t, g) <=> n # 0
  BY ParsePosition DEF Known
<1>2. q \in Seq(Record) /\ DOMAIN q = 1 .. Len(q) /\ Len(q) \in Nat
  <2>1. q \in Seq(Record)
    BY GapsAreLists
  <2> HIDE DEF q
  <2> QED
    BY <2>1
<1>3. n \in 0 .. Len(q) /\ IsPosition(q, g, n)
  <2>1. q \in Seq(Record)
    BY <1>2
  <2> HIDE DEF q
  <2> QED
    BY <2>1, PositionIs
<1> HIDE DEF q, n
<1> QED
  BY <1>1, <1>2, <1>3 DEF IsPosition, q, n

\* A sequence without its element k.
LEMMA RemoveAtIs ==
  ASSUME NEW S, NEW q \in Seq(S), NEW k \in 1 .. Len(q)
  PROVE  /\ RemoveAt(q, k) \in Seq(S) /\ Len(RemoveAt(q, k)) = Len(q) - 1
         /\ \A i \in 1 .. k - 1 : RemoveAt(q, k)[i] = q[i]
         /\ \A i \in k .. Len(q) - 1 : RemoveAt(q, k)[i] = q[i + 1]
<1> DEFINE n == Len(q)  j == k + 1
           a == SubSeq(q, 1, k - 1)  b == SubSeq(q, j, n)  r == a \o b
<1>1. /\ n \in Nat /\ k \in Nat /\ j \in Nat /\ 1 <= k /\ k <= j /\ k <= n /\ j <= n + 1
      /\ j = k + 1 /\ n = Len(q)
  OBVIOUS
<1>2. RemoveAt(q, k) = r
  BY DEF RemoveAt
<1>3. IsCut(S, q, k, j)
  BY <1>1, ThreeParts
<1>4. /\ a \in Seq(S) /\ b \in Seq(S) /\ Len(a) = k - 1 /\ Len(b) = n - j + 1
      /\ \A i \in 1 .. n - j + 1 : b[i] = q[j + i - 1]
  BY <1>3 DEF IsCut
<1>5. \A i \in 1 .. k - 1 : a[i] = q[i]
  <2>1. k - 1 \in 0 .. Len(q)
    BY <1>1
  <2> QED
    BY <2>1, PrefixType
<1> HIDE DEF a, b
<1>6. /\ r \in Seq(S) /\ Len(r) = Len(a) + Len(b)
      /\ \A i \in 1 .. Len(a) : r[i] = a[i]
      /\ \A i \in 1 .. Len(b) : r[Len(a) + i] = b[i]
  <2>1. a \in Seq(S) /\ b \in Seq(S)
    BY <1>4
  <2> QED
    BY <2>1, ConcatType
<1> HIDE DEF r, n, j
<1>7. Len(r) = n - 1
  <2> DEFINE x == Len(a)  y == Len(b)  z == Len(r)
  <2>1. x = k - 1 /\ y = n - j + 1 /\ z = x + y
    BY <1>4, <1>6
  <2> HIDE DEF x, y, z
  <2>2. z = n - 1
    BY <1>1, <2>1
  <2> QED
    BY <2>2 DEF z
<1>8. \A i \in 1 .. k - 1 : r[i] = q[i]
  BY <1>4, <1>5, <1>6
<1>9. \A i \in k .. n - 1 : r[i] = q[i + 1]
  <2> TAKE i \in k .. n - 1
  <2> DEFINE l == i - (k - 1)
  <2>1. l \in 1 .. n - j + 1 /\ i = k - 1 + l /\ j + l - 1 = i + 1
    <3>1. i \in Int /\ k <= i /\ i <= n - 1
      BY <1>1
    <3> QED
      BY <1>1, <3>1
  <2> HIDE DEF l
  <2>2. r[i] = b[l]
    BY <1>4, <1>6, <2>1
  <2> QED
    BY <1>4, <2>1, <2>2
<1> QED
  BY <1>2, <1>6, <1>7, <1>8, <1>9 DEF n

\* Adding an id that is not listed lists none twice.
LEMMA AppendKeepsIdsApart ==
  ASSUME NEW q \in Seq(Record), NEW r \in Record, NoTwoAlike(q),
         \A i \in DOMAIN q : q[i].id # r.id
  PROVE  NoTwoAlike(Append(q, r))
<1> DEFINE p == Append(q, r)
<1>1. /\ DOMAIN p = 1 .. Len(q) + 1 /\ DOMAIN q = 1 .. Len(q) /\ Len(q) \in Nat
      /\ p[Len(q) + 1] = r /\ \A i \in 1 .. Len(q) : p[i] = q[i]
  BY AppendIs
<1> HIDE DEF p
<1> QED
  BY <1>1 DEF NoTwoAlike, p

\* Nor does taking an entry out of the list.
LEMMA RemoveKeepsIdsApart ==
  ASSUME NEW q \in Seq(Record), NEW k \in 1 .. Len(q), NoTwoAlike(q)
  PROVE  NoTwoAlike(RemoveAt(q, k))
<1> DEFINE p == RemoveAt(q, k)  up(i) == IF i < k THEN i ELSE i + 1
<1>1. /\ p \in Seq(Record) /\ Len(p) = Len(q) - 1 /\ Len(q) \in Nat /\ DOMAIN q = 1 .. Len(q)
      /\ k \in 1 .. Len(q) /\ DOMAIN p = 1 .. Len(p)
      /\ \A i \in 1 .. k - 1 : p[i] = q[i]
      /\ \A i \in k .. Len(q) - 1 : p[i] = q[i + 1]
  BY RemoveAtIs
<1> HIDE DEF p
<1>2. \A i \in DOMAIN p : up(i) \in DOMAIN q /\ p[i] = q[up(i)]
  BY <1>1
<1>3. \A i, j \in DOMAIN p : up(i) = up(j) => i = j
  BY <1>1
<1> QED
  BY <1>2, <1>3 DEF NoTwoAlike, p
=============================================================================
