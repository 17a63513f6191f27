-------------------------- MODULE Proposals_proofs --------------------------
(***************************************************************************)
(* Proofs about the proposal tools, for every set of calls, requests,      *)
(* notebooks, ids and faults.                                              *)
(***************************************************************************)
EXTENDS Proposals, SequenceTheorems, WellFoundedInduction, TLAPS

Writing == {"tmp", "rename"}
Mutators == {"write_proposal", "update_proposal_status", "supersede_proposal"}
Walkers == {"update_proposal_status", "supersede_proposal", "read_proposal",
            "list_proposals"}

\* Where a call is agrees with what it was asked and what it has found.
ControlOf(c) ==
  /\ pc[c] # "idle" => req[c] \in AllRequests
  /\ pc[c] = "walk" => req[c].op \in Walkers
  /\ pc[c] = "reread" => req[c].op = "read_proposal"
  /\ pc[c] \in {"queued"} \cup Writing => req[c].op \in Mutators
  /\ pc[c] \in {"reread", "queued"} \cup Writing /\ req[c].op # "write_proposal"
       => \A i \in Sought(req[c]) : WalkedTo(c, i) # {}

Control == \A c \in Calls : ControlOf(c)

\* The mutex is owned by the one call that has files left to write.
OwnerOf(c) ==
  /\ (lock = c) <=> (pc[c] \in Writing)
  /\ (work[c] # <<>>) <=> (pc[c] \in Writing)
  /\ pc[c] = "rename" => tmp[Head(work[c]).path] = Head(work[c]).doc

Owner == \A c \in Calls : OwnerOf(c)

IInv == TypeOK /\ Control /\ Owner

-----------------------------------------------------------------------------
(* Lemmas about the operators.                                             *)

\* Every nonempty set of paths has a first one in sorted order
\* (tools.py:224, 251, 364).
LEMMA FirstIsMember ==
  ASSUME NEW S \in SUBSET Paths, S # {}
  PROVE  First(S) \in S
<1> DEFINE T == {Rank[p] : p \in S}
<1>1. T \subseteq Nat /\ T # {}
  BY ProposalsAssumption
<1>2. PICK x \in T : \A y \in T : <<y, x>> \notin OpToRel(<, Nat)
  <2> HIDE DEF T
  <2> QED BY NatLessThanWellFounded, <1>1, WFMin
<1>3. \A y \in T : ~(y < x)
  BY <1>1, <1>2, Zenon DEF OpToRel
<1>4. \A y \in T : x <= y
  BY SMTT(30), <1>1, <1>3
<1>5. PICK p \in S : Rank[p] = x
  OBVIOUS
<1> QED
  BY <1>4, <1>5 DEF First

\* A request carries the arguments of its tool.
LEMMA RequestShape ==
  ASSUME NEW r \in AllRequests
  PROVE  /\ r.op = "write_proposal" => r.doc \in Docs
         /\ r.op = "update_proposal_status" =>
              r.id \in Ids /\ r.status \in Statuses /\ r.test \in Tests \cup {None}
         /\ r.op = "supersede_proposal" => r.old \in Ids /\ r.new \in Ids
         /\ r.op = "read_proposal" => r.id \in Ids
BY DEF AllRequests, WriteRequests, StatusRequests, SupersedeRequests,
       ReadRequests, ListRequests, BadRequests

\* A request is for one of the six operations.
LEMMA RequestOps ==
  ASSUME NEW r \in AllRequests
  PROVE  r.op \in Mutators \cup Walkers \cup {"invalid"}
BY DEF AllRequests, WriteRequests, StatusRequests, SupersedeRequests,
       ReadRequests, ListRequests, BadRequests, Mutators, Walkers

\* A handler looks up ids, or nothing in particular.
LEMMA SoughtType ==
  ASSUME NEW r \in AllRequests
  PROVE  Sought(r) \subseteq Ids \cup {None}
BY RequestShape DEF Sought

\* A walk that matched something names a path it matched.
LEMMA PathOfFound ==
  ASSUME NEW c \in Calls, NEW i, WalkedTo(c, i) # {}
  PROVE  PathOf(c, i) \in Paths /\ <<i, PathOf(c, i)>> \in found[c]
BY DEF WalkedTo, PathOf

\* A proposal is routed to a path of the notebook.
LEMMA TargetIsPath ==
  ASSUME NEW d \in Docs
  PROVE  Target(d) \in Paths
BY DEF Target, Paths, Docs, Route, Dirs

\* Replacing lifecycle fields or links keeps a proposal and its id.
LEMMA LifecycleEdit ==
  ASSUME NEW d \in Docs, NEW s \in Statuses, NEW t \in Tests \cup {None}
  PROVE  LET n == [d EXCEPT !.status = s, !.test = IF t = None THEN @ ELSE t]
         IN  n \in Docs /\ KeyOf(n) = KeyOf(d)
BY DEF Docs, KeyOf

\* So does replacing a link.
LEMMA LinkEdit ==
  ASSUME NEW d \in Docs, NEW i \in Ids
  PROVE  /\ [d EXCEPT !.superseded_by = i] \in Docs
         /\ KeyOf([d EXCEPT !.superseded_by = i]) = KeyOf(d)
         /\ [d EXCEPT !.supersedes = i] \in Docs
         /\ KeyOf([d EXCEPT !.supersedes = i]) = KeyOf(d)
BY DEF Docs, KeyOf

-----------------------------------------------------------------------------
(* What a critical section plans to write.                                 *)

\* A write_proposal that is not refused writes its proposal at a path where
\* no other file holds the same id; if a file is there it has that id or it
\* is being created (tools.py:329-366).
LEMMA WritePlanShape ==
  ASSUME NEW r \in WriteRequests, WriteError(r) = "ok"
  PROVE  \E p \in Paths :
           /\ WritePlan(r) = <<[path |-> p, doc |-> r.doc]>>
           /\ r.mode = "create" => p = Target(r.doc) /\ Holders(KeyOf(r.doc)) = {}
           /\ r.mode = "update" => p \in Holders(KeyOf(r.doc))
                                   /\ p.dir = Route(r.doc)
<1>1. r.doc \in Docs /\ r.mode \in {"create", "update"}
  BY DEF WriteRequests
<1>2. CASE r.mode = "create"
  <2>1. Target(r.doc) \in Paths
    BY <1>1, TargetIsPath
  <2>2. Holders(KeyOf(r.doc)) = {}
    BY <1>2 DEF WriteError, Here, Elsewhere
  <2> QED
    BY <1>2, <2>1, <2>2 DEF WritePlan
<1>3. CASE r.mode = "update"
  <2>1. Here(r.doc) # {} /\ Here(r.doc) \in SUBSET Paths
    BY <1>3 DEF WriteError, Here, Holders
  <2>2. First(Here(r.doc)) \in Here(r.doc)
    BY <2>1, FirstIsMember
  <2> QED
    BY <1>3, <2>1, <2>2 DEF WritePlan, Here
<1> QED
  BY <1>1, <1>2, <1>3

\* An update_proposal_status plans one commit that keeps the file's id
\* (tools.py:594-608).
LEMMA StatusPlanShape ==
  ASSUME NEW c \in Calls, NEW r \in StatusRequests, WalkedTo(c, r.id) # {},
         files[PathOf(c, r.id)] \in Docs
  PROVE  \E p \in Paths, d \in Docs :
           /\ StatusPlan(c, r) = <<[path |-> p, doc |-> d]>>
           /\ files[p] \in Docs /\ KeyOf(d) = KeyOf(files[p])
<1> DEFINE p == PathOf(c, r.id)
           d == [files[p] EXCEPT !.status = r.status,
                                 !.test = IF r.test = None THEN @ ELSE r.test]
<1>1. p \in Paths
  BY PathOfFound
<1>2. d \in Docs /\ KeyOf(d) = KeyOf(files[p])
  <2>1. r.status \in Statuses /\ r.test \in Tests \cup {None}
    BY DEF StatusRequests
  <2> QED
    BY <2>1, LifecycleEdit
<1>3. StatusPlan(c, r) = <<[path |-> p, doc |-> d]>>
  BY DEF StatusPlan
<1> QED
  BY <1>1, <1>2, <1>3

\* A supersede_proposal plans a commit for each of the two files, each keeping
\* its file's id (tools.py:682-703).
LEMMA SupersedePlanShape ==
  ASSUME NEW c \in Calls, NEW r \in SupersedeRequests,
         \A i \in {r.old, r.new} : WalkedTo(c, i) # {} /\ files[PathOf(c, i)] \in Docs
  PROVE  \E o, n \in Paths, d, e \in Docs :
           /\ SupersedePlan(c, r) = <<[path |-> o, doc |-> d], [path |-> n, doc |-> e]>>
           /\ files[o] \in Docs /\ KeyOf(d) = KeyOf(files[o])
           /\ files[n] \in Docs /\ KeyOf(e) = KeyOf(files[n])
<1> DEFINE o == PathOf(c, r.old)
           n == PathOf(c, r.new)
           d == [files[o] EXCEPT !.superseded_by = r.new]
           e == [files[n] EXCEPT !.supersedes = r.old]
<1>1. o \in Paths /\ n \in Paths
  BY PathOfFound
<1>2. d \in Docs /\ KeyOf(d) = KeyOf(files[o]) /\ e \in Docs /\ KeyOf(e) = KeyOf(files[n])
  <2>1. r.old \in Ids /\ r.new \in Ids
    BY DEF SupersedeRequests
  <2> QED
    BY <2>1, LinkEdit
<1>3. SupersedePlan(c, r) = <<[path |-> o, doc |-> d], [path |-> n, doc |-> e]>>
  BY DEF SupersedePlan
<1> QED
  BY <1>1, <1>2, <1>3

\* The commits a call queued for the mutex is about to land.  Each keeps the
\* id of the file it replaces, or adds an id that no file holds.
LEMMA PlanShape ==
  ASSUME IInv, NEW c \in Calls, pc[c] = "queued", Verdict(c, req[c]) = "ok"
  PROVE  LET w == Plan(c, req[c]) IN
         /\ w \in Seq(Commits) /\ w # <<>>
         /\ \A n \in 1 .. Len(w) :
              \/ w[n].path \in Holders(KeyOf(w[n].doc))
              \/ Holders(KeyOf(w[n].doc)) = {} /\ Len(w) = 1
<1> DEFINE r == req[c]
<1>1. r \in AllRequests /\ r.op \in Mutators
  BY DEF IInv, Control, ControlOf
<1>2. CASE r.op = "write_proposal"
  <2>1. r \in WriteRequests
    BY <1>1, <1>2 DEF AllRequests, WriteRequests, StatusRequests,
       SupersedeRequests, ReadRequests, ListRequests, BadRequests
  <2>2. WriteError(r) = "ok"
    BY <1>2 DEF Verdict
  <2>3. PICK p \in Paths :
          /\ WritePlan(r) = <<[path |-> p, doc |-> r.doc]>>
          /\ r.mode = "create" => p = Target(r.doc) /\ Holders(KeyOf(r.doc)) = {}
          /\ r.mode = "update" => p \in Holders(KeyOf(r.doc)) /\ p.dir = Route(r.doc)
    BY <2>1, <2>2, WritePlanShape
  <2>4. r.doc \in Docs /\ r.mode \in {"create", "update"}
    BY <2>1 DEF WriteRequests
  <2> QED
    BY <1>2, <2>3, <2>4 DEF Plan, Commits
<1>3. CASE r.op = "update_proposal_status"
  <2>1. r \in StatusRequests
    BY <1>1, <1>3 DEF AllRequests, WriteRequests, StatusRequests,
       SupersedeRequests, ReadRequests, ListRequests, BadRequests
  <2>2. WalkedTo(c, r.id) # {} /\ files[PathOf(c, r.id)] \in Docs
    BY <1>3 DEF IInv, Control, ControlOf, Sought, Verdict
  <2>3. PICK p \in Paths, d \in Docs :
          /\ StatusPlan(c, r) = <<[path |-> p, doc |-> d]>>
          /\ files[p] \in Docs /\ KeyOf(d) = KeyOf(files[p])
    BY <2>1, <2>2, StatusPlanShape
  <2> QED
    BY <1>3, <2>3 DEF Plan, Commits, Holders, Held
<1>4. CASE r.op = "supersede_proposal"
  <2>1. r \in SupersedeRequests
    BY <1>1, <1>4 DEF AllRequests, WriteRequests, StatusRequests,
       SupersedeRequests, ReadRequests, ListRequests, BadRequests
  <2>2. \A i \in {r.old, r.new} : WalkedTo(c, i) # {} /\ files[PathOf(c, i)] \in Docs
    BY <1>4 DEF IInv, Control, ControlOf, Sought, Verdict
  <2>3. PICK o, n \in Paths, d, e \in Docs :
          /\ SupersedePlan(c, r) = <<[path |-> o, doc |-> d], [path |-> n, doc |-> e]>>
          /\ files[o] \in Docs /\ KeyOf(d) = KeyOf(files[o])
          /\ files[n] \in Docs /\ KeyOf(e) = KeyOf(files[n])
    BY <2>1, <2>2, SupersedePlanShape
  <2> QED
    BY <1>4, <2>3 DEF Plan, Commits, Holders, Held
<1> QED
  BY <1>1, <1>2, <1>3, <1>4 DEF Mutators

-----------------------------------------------------------------------------
(* The inductive invariant.                                                *)

\* The file a lookup found is a path of the notebook when it is read again.
LEMMA RereadPath ==
  ASSUME IInv, NEW c \in Calls, pc[c] = "reread"
  PROVE  PathOf(c, req[c].id) \in Paths
<1>1. req[c].op = "read_proposal" /\ WalkedTo(c, req[c].id) # {}
  BY DEF IInv, Control, ControlOf, Sought
<1> QED
  BY <1>1, PathOfFound

\* A call with files left to write has a next one.
LEMMA HeadOfWork ==
  ASSUME IInv, NEW c \in Calls, pc[c] \in Writing
  PROVE  /\ Head(work[c]) \in Commits
         /\ Tail(work[c]) \in Seq(Commits)
         /\ (Len(work[c]) > 1) <=> (Tail(work[c]) # <<>>)
<1>1. work[c] \in Seq(Commits) /\ work[c] # <<>>
  BY DEF IInv, TypeOK, Owner, OwnerOf, Commits
<1>2. /\ Head(work[c]) \in Commits /\ Tail(work[c]) \in Seq(Commits)
      /\ Len(Tail(work[c])) = Len(work[c]) - 1
  BY <1>1, HeadTailProperties
<1>3. Len(work[c]) \in Nat
  BY <1>1, LenProperties
<1>4. (Tail(work[c]) # <<>>) <=> (Len(Tail(work[c])) # 0)
  BY <1>2, EmptySeq
<1>5. Len(work[c]) # 0
  BY <1>1, EmptySeq
<1>6. (Len(work[c]) > 1) <=> (Len(Tail(work[c])) # 0)
  <2> DEFINE l == Len(work[c])
             m == Len(Tail(work[c]))
  <2>1. l \in Nat /\ l # 0 /\ m = l - 1
    BY <1>2, <1>3, <1>5
  <2> HIDE DEF l, m
  <2>2. (l > 1) <=> (m # 0)
    BY <2>1
  <2> QED
    BY <2>2 DEF l, m
<1> QED
  BY <1>2, <1>4, <1>6, Zenon

\* The paths a write tool reports are paths of the notebook.
LEMMA ReportedPaths ==
  ASSUME IInv, NEW c \in Calls, pc[c] \in Writing
  PROVE  Reported(c) \subseteq Paths
<1>1. req[c] \in AllRequests /\ req[c].op \in Mutators
  BY DEF IInv, Control, ControlOf, Writing
<1>2. CASE req[c].op = "write_proposal"
  BY <1>1, <1>2, RequestShape, TargetIsPath DEF Reported
<1>3. CASE req[c].op # "write_proposal"
  <2>1. \A i \in Sought(req[c]) : WalkedTo(c, i) # {}
    BY <1>3 DEF IInv, Control, ControlOf
  <2> QED
    BY <1>3, <2>1, PathOfFound DEF Reported
<1> QED
  BY <1>2, <1>3

\* An answer is a well-typed result.
LEMMA AnswerType ==
  ASSUME TypeOK, NEW c \in Calls, NEW is \in Errors \cup {"ok"},
         NEW ps \in SUBSET Paths, NEW d \in Docs \cup {None},
         Answer(c, is, ps, d)
  PROVE  result' \in [Calls -> Results] /\ pc' \in [Calls -> Labels]
BY DEF TypeOK, Answer, Goto, Results, Labels

\* So is an error.
LEMMA FailType ==
  ASSUME TypeOK, NEW c \in Calls, NEW is \in Errors, Fail(c, is)
  PROVE  result' \in [Calls -> Results] /\ pc' \in [Calls -> Labels]
<1>1. Answer(c, is, {}, None)
  BY DEF Fail
<1> QED
  BY <1>1, AnswerType

\* A write cut short leaves a well-typed set of siblings.
LEMMA TornType ==
  ASSUME TypeOK, NEW c \in Calls, NEW t \in Torn(c)
  PROVE  t \in [Paths -> Docs \cup {NoFile, Malformed}]
BY DEF TypeOK, Torn

\* The calls start outside the critical section.
LEMMA InitIInv == Init => IInv
BY ProposalsAssumption, EmptySeq
DEF Init, IInv, TypeOK, Control, ControlOf, Owner, OwnerOf, Writing, Nothing, Labels, Results

\* No step of any call, fault or editor breaks the invariant.
LEMMA NextIInv == IInv /\ [Next]_vars => IInv'
<1> SUFFICES ASSUME IInv, [Next]_vars PROVE IInv'
  OBVIOUS
<1>1. ASSUME Bootstrap
      PROVE  IInv'
  <2>1. TypeOK'
    BY <1>1 DEF IInv, TypeOK, Labels, Bootstrap, call
  <2>2. Control'
    BY ZenonT(60), <1>1 DEF IInv, TypeOK, Control, ControlOf, WalkedTo, Sought, Walkers, Bootstrap, call
  <2>3. Owner'
    BY <1>1 DEF IInv, TypeOK, Owner, OwnerOf, Bootstrap, call
  <2> QED
    BY <2>1, <2>2, <2>3 DEF IInv
<1>2. ASSUME NEW c \in Calls, NEW r \in Requests, Start(c, r)
      PROVE  IInv'
  <2>1. TypeOK'
    <3>1. r \in AllRequests /\ Sought(r) \X Listing(r) \subseteq (Ids \cup {None}) \X Paths
      BY ProposalsAssumption, SoughtType DEF Listing
    <3>2. result' \in [Calls -> Results] /\ pc' \in [Calls -> Labels]
      <4>1. CASE Rejected(r) # "ok"
        <5>1. Rejected(r) \in Errors
          BY <4>1 DEF Rejected, Errors
        <5> QED
          BY <1>2, <4>1, <5>1, FailType DEF IInv, Start
      <4>2. CASE Rejected(r) = "ok"
        BY <1>2, <4>2 DEF IInv, TypeOK, Start, Goto, Labels
      <4> QED
        BY <4>1, <4>2
    <3>3. /\ req' \in [Calls -> AllRequests \cup {None}]
          /\ before' \in [Calls -> SUBSET Paths]
      BY <1>2, <3>1 DEF IInv, TypeOK, Start
    <3>4. todo' \in [Calls -> SUBSET ((Ids \cup {None}) \X Paths)]
      BY <1>2, <3>1 DEF IInv, TypeOK, Start
    <3> QED
      BY <1>2, <3>2, <3>3, <3>4 DEF IInv, TypeOK, Start, disk
  <2>2. Control'
    <3> SUFFICES ASSUME NEW e \in Calls PROVE ControlOf(e)'
      BY DEF Control
    <3>1. req' = [req EXCEPT ![c] = r] /\ found' = found /\ r \in AllRequests
      BY <1>2, ProposalsAssumption DEF Start
    <3>2. /\ pc' = [pc EXCEPT ![c] = pc'[c]]
          /\ pc'[c] \in {"reply", "walk", "queued"}
          /\ pc'[c] = "queued" => r.op = "write_proposal"
          /\ pc'[c] = "walk" => r.op \notin {"write_proposal", "invalid"}
      BY <1>2 DEF IInv, TypeOK, Start, Rejected, Fail, Answer, Goto
    <3>3. CASE e = c
      BY <3>1, <3>2, <3>3, RequestOps
      DEF IInv, TypeOK, ControlOf, Writing, Mutators, Walkers
    <3>4. CASE e # c
      BY ZenonT(60), <3>1, <3>2, <3>4 DEF IInv, TypeOK, Control, ControlOf, WalkedTo, Sought
    <3> QED
      BY <3>3, <3>4
  <2>3. Owner'
    BY <1>2, ProposalsAssumption DEF IInv, TypeOK, Owner, OwnerOf, Start, disk, Fail, Answer, Goto, Rejected, Errors, Mutators, Walkers, Writing
  <2> QED
    BY <2>1, <2>2, <2>3 DEF IInv
<1>3. ASSUME NEW c \in Calls, NEW i \in Ids \cup {None}, NEW p \in Paths, WalkFile(c, i, p)
      PROVE  IInv'
  <2>1. TypeOK'
    BY <1>3 DEF IInv, TypeOK, Labels, WalkFile, disk, Writing
  <2>2. Control'
    <3> SUFFICES ASSUME NEW e \in Calls PROVE ControlOf(e)'
      BY DEF Control
    <3>1. /\ pc' = pc /\ req' = req
          /\ \A j : WalkedTo(e, j) \subseteq WalkedTo(e, j)'
      BY <1>3 DEF IInv, TypeOK, WalkFile, WalkedTo
    <3> QED
      BY <3>1 DEF IInv, Control, ControlOf, Sought
  <2>3. Owner'
    BY <1>3 DEF IInv, TypeOK, Owner, OwnerOf, WalkFile, disk, Writing
  <2> QED
    BY <2>1, <2>2, <2>3 DEF IInv
<1>4. ASSUME NEW c \in Calls, LookupFails(c)
      PROVE  IInv'
  <2>1. TypeOK'
    BY <1>4, FailType DEF IInv, TypeOK, Labels, LookupFails, WalkOver, Lookup, disk, Errors
  <2>2. Control'
    BY ZenonT(60), <1>4 DEF IInv, TypeOK, Control, ControlOf, WalkedTo, Sought, Walkers, LookupFails, WalkOver, Lookup, disk, Fail, Answer, Goto, Errors, Writing
  <2>3. Owner'
    BY <1>4 DEF IInv, TypeOK, Owner, OwnerOf, LookupFails, WalkOver, Lookup, disk, Fail, Answer, Goto, Errors, Writing
  <2> QED
    BY <2>1, <2>2, <2>3 DEF IInv
<1>5. ASSUME NEW c \in Calls, LookupSucceeds(c)
      PROVE  IInv'
  <2>1. TypeOK'
    BY <1>5 DEF IInv, TypeOK, Labels, LookupSucceeds, WalkOver, Lookup, disk, Goto, Writing, Mutators, Walkers
  <2>2. Control'
    <3> SUFFICES ASSUME NEW e \in Calls PROVE ControlOf(e)'
      BY DEF Control
    <3>1. req' = req /\ found' = found
          /\ pc' = [pc EXCEPT ![c] = IF req[c].op = "read_proposal"
                                     THEN "reread" ELSE "queued"]
      BY <1>5 DEF LookupSucceeds, Goto
    <3>2. req[c] \in AllRequests /\ req[c].op \in Walkers \ {"list_proposals"}
      BY <1>5 DEF IInv, Control, ControlOf, LookupSucceeds, WalkOver
    <3>3. \A i \in Sought(req[c]) : WalkedTo(c, i) # {}
      BY <1>5 DEF LookupSucceeds, Lookup
    <3>4. CASE e = c
      BY ZenonT(60), <3>1, <3>2, <3>3, <3>4
      DEF IInv, TypeOK, ControlOf, WalkedTo, Sought, Writing, Mutators, Walkers
    <3>5. CASE e # c
      BY <3>1, <3>2, <3>5 DEF IInv, TypeOK, Control, ControlOf, WalkedTo, Sought
    <3> QED
      BY <3>4, <3>5
  <2>3. Owner'
    BY <1>5 DEF IInv, TypeOK, Owner, OwnerOf, LookupSucceeds, WalkOver, Lookup, disk, Goto, Writing, Mutators, Walkers
  <2> QED
    BY <2>1, <2>2, <2>3 DEF IInv
<1>6. ASSUME NEW c \in Calls, ListDone(c)
      PROVE  IInv'
  <2>1. TypeOK'
    BY <1>6, AnswerType DEF IInv, TypeOK, ListDone, WalkOver, disk, WalkedTo
  <2>2. Control'
    BY ZenonT(60), <1>6 DEF IInv, TypeOK, Control, ControlOf, WalkedTo, Sought, Walkers, ListDone, WalkOver, disk, Answer, Goto, WalkedTo, Writing
  <2>3. Owner'
    BY <1>6 DEF IInv, TypeOK, Owner, OwnerOf, ListDone, WalkOver, disk, Answer, Goto, WalkedTo, Writing
  <2> QED
    BY <2>1, <2>2, <2>3 DEF IInv
<1>7. ASSUME NEW c \in Calls, Reread(c)
      PROVE  IInv'
  <2>1. TypeOK'
    BY <1>7, RereadPath, AnswerType, FailType DEF IInv, TypeOK, Reread, disk, Errors
  <2>2. Control'
    <3> SUFFICES ASSUME NEW e \in Calls PROVE ControlOf(e)'
      BY DEF Control
    <3>1. req' = req /\ found' = found /\ pc' = [pc EXCEPT ![c] = "reply"]
      BY <1>7 DEF Reread, Fail, Answer, Goto
    <3>2. req[c] \in AllRequests
      BY <1>7 DEF IInv, Control, ControlOf, Reread
    <3> QED
      BY <3>1, <3>2 DEF IInv, TypeOK, Control, ControlOf, WalkedTo, Sought, Writing
  <2>3. Owner'
    BY <1>7 DEF IInv, TypeOK, Owner, OwnerOf, Reread, disk, Fail, Answer, Goto, Errors, Writing
  <2> QED
    BY <2>1, <2>2, <2>3 DEF IInv
<1>8. ASSUME NEW c \in Calls, Refuse(c)
      PROVE  IInv'
  <2>1. TypeOK'
    BY <1>8, FailType DEF IInv, TypeOK, Refuse, Verdict, WriteError, disk, Errors
  <2>2. Control'
    BY ZenonT(60), <1>8 DEF IInv, TypeOK, Control, ControlOf, WalkedTo, Sought, Walkers, Refuse, Verdict, WriteError, disk, Fail, Answer, Goto, Errors, Writing
  <2>3. Owner'
    BY <1>8 DEF IInv, TypeOK, Owner, OwnerOf, Refuse, Verdict, WriteError, disk, Fail, Answer, Goto, Errors, Writing
  <2> QED
    BY <2>1, <2>2, <2>3 DEF IInv
<1>9. ASSUME NEW c \in Calls, Enter(c)
      PROVE  IInv'
  <2>1. TypeOK'
    BY <1>9, PlanShape DEF IInv, TypeOK, Labels, Enter, MutexFree, disk, Goto, Writing
  <2>2. Control'
    BY ZenonT(60), <1>9 DEF IInv, TypeOK, Control, ControlOf, WalkedTo, Sought, Walkers, Enter, MutexFree, disk, Goto, Writing
  <2>3. Owner'
    <3> SUFFICES ASSUME NEW e \in Calls PROVE OwnerOf(e)'
      BY DEF Owner
    <3>1. lock = None /\ lock' = c /\ pc' = [pc EXCEPT ![c] = "tmp"] /\ tmp' = tmp
      BY <1>9 DEF Enter, MutexFree, Goto, disk
    <3>2. work' = [work EXCEPT ![c] = Plan(c, req[c])] /\ Plan(c, req[c]) # <<>>
      BY <1>9, PlanShape DEF Enter
    <3> QED
      BY <3>1, <3>2, ProposalsAssumption DEF IInv, TypeOK, Owner, OwnerOf, Writing
  <2> QED
    BY <2>1, <2>2, <2>3 DEF IInv
<1>10. ASSUME NEW c \in Calls, WriteTmp(c)
      PROVE  IInv'
  <2>1. TypeOK'
    BY <1>10, HeadOfWork DEF IInv, TypeOK, Labels, WriteTmp, Goto, Writing, Commits
  <2>2. Control'
    BY ZenonT(60), <1>10 DEF IInv, TypeOK, Control, ControlOf, WalkedTo, Sought, Walkers, WriteTmp, Goto, Writing, Commits
  <2>3. Owner'
    BY <1>10, HeadOfWork DEF IInv, TypeOK, Owner, OwnerOf, WriteTmp, Goto, Writing, Commits
  <2> QED
    BY <2>1, <2>2, <2>3 DEF IInv
<1>11. ASSUME NEW c \in Calls, Rename(c)
      PROVE  IInv'
  <2>1. TypeOK'
    <3>1. Head(work[c]) \in Commits /\ Tail(work[c]) \in Seq(Commits)
      BY <1>11, HeadOfWork DEF Rename, Writing
    <3>2. tmp[Head(work[c]).path] \in Docs
      BY <1>11, <3>1 DEF IInv, Owner, OwnerOf, Rename, Commits
    <3>3. /\ files' \in [Paths -> Docs \cup {NoFile, Malformed}]
          /\ tmp' \in [Paths -> Docs \cup {NoFile, Malformed}]
          /\ work' \in [Calls -> Seq(Commits)]
      BY <1>11, <3>1, <3>2 DEF IInv, TypeOK, Rename, Commits
    <3>4. /\ result' \in [Calls -> Results] /\ pc' \in [Calls -> Labels]
          /\ lock' \in Calls \cup {None}
      <4>1. Reported(c) \subseteq Paths
        BY <1>11, ReportedPaths DEF Rename, Writing
      <4>2. CASE Len(work[c]) > 1
        BY <1>11, <4>2 DEF IInv, TypeOK, Rename, Goto, Labels
      <4>3. CASE ~(Len(work[c]) > 1)
        <5>1. Answer(c, "ok", Reported(c), None) /\ lock' = None
          BY <1>11, <4>3 DEF Rename, Release
        <5> QED
          BY <4>1, <5>1, AnswerType DEF IInv
      <4> QED
        BY <4>2, <4>3
    <3> QED
      BY <1>11, <3>3, <3>4 DEF IInv, TypeOK, Rename
  <2>2. Control'
    <3> SUFFICES ASSUME NEW e \in Calls PROVE ControlOf(e)'
      BY DEF Control
    <3>1. req' = req /\ found' = found /\ pc[c] = "rename"
          /\ pc' = [pc EXCEPT ![c] = IF Len(work[c]) > 1 THEN "tmp" ELSE "reply"]
      BY <1>11 DEF Rename, Answer, Goto
    <3> QED
      BY <3>1 DEF IInv, TypeOK, Control, ControlOf, WalkedTo, Sought, Writing
  <2>3. Owner'
    <3> SUFFICES ASSUME NEW e \in Calls PROVE OwnerOf(e)'
      BY DEF Owner
    <3>1. pc[c] = "rename" /\ lock = c /\ \A d \in Calls \ {c} : pc[d] \notin Writing
      BY <1>11 DEF IInv, Owner, OwnerOf, Rename, Writing
    <3>2. /\ work' = [work EXCEPT ![c] = Tail(work[c])]
          /\ (Len(work[c]) > 1) <=> (Tail(work[c]) # <<>>)
      BY <1>11, HeadOfWork DEF Rename, Writing
    <3>3. CASE Len(work[c]) > 1
      <4>1. pc' = [pc EXCEPT ![c] = "tmp"] /\ lock' = lock
        BY <1>11, <3>3 DEF Rename, Goto
      <4> QED
        <5>1. CASE e = c
          BY <3>1, <3>2, <3>3, <4>1, <5>1 DEF IInv, TypeOK, OwnerOf, Writing
        <5>2. CASE e # c
          <6>1. pc'[e] = pc[e] /\ work'[e] = work[e] /\ pc[e] \notin Writing
            BY <3>1, <3>2, <4>1, <5>2 DEF IInv, TypeOK
          <6> QED
            BY <3>1, <4>1, <6>1, <5>2 DEF IInv, Owner, OwnerOf, Writing
        <5> QED
          BY <5>1, <5>2
    <3>4. CASE ~(Len(work[c]) > 1)
      <4>1. pc' = [pc EXCEPT ![c] = "reply"] /\ lock' = None
        BY <1>11, <3>4 DEF Rename, Answer, Goto, Release
      <4> QED
        <5>1. CASE e = c
          BY <3>1, <3>2, <3>4, <4>1, <5>1, ProposalsAssumption
          DEF IInv, TypeOK, OwnerOf, Writing
        <5>2. CASE e # c
          <6>1. pc'[e] = pc[e] /\ work'[e] = work[e] /\ pc[e] \notin Writing
            BY <3>1, <3>2, <4>1, <5>2 DEF IInv, TypeOK
          <6> QED
            BY <4>1, <6>1, ProposalsAssumption DEF IInv, Owner, OwnerOf, Writing
        <5> QED
          BY <5>1, <5>2
    <3> QED
      BY <3>3, <3>4
  <2> QED
    BY <2>1, <2>2, <2>3 DEF IInv
<1>12. ASSUME NEW c \in Calls, Reply(c)
      PROVE  IInv'
  <2>1. TypeOK'
    BY <1>12 DEF IInv, TypeOK, Labels, Reply, disk, Goto, Writing
  <2>2. Control'
    BY ZenonT(60), <1>12 DEF IInv, TypeOK, Control, ControlOf, WalkedTo, Sought, Walkers, Reply, disk, Goto, Writing
  <2>3. Owner'
    BY <1>12 DEF IInv, TypeOK, Owner, OwnerOf, Reply, disk, Goto, Writing
  <2> QED
    BY <2>1, <2>2, <2>3 DEF IInv
<1>13. ASSUME NEW c \in Calls, CommitFails(c)
      PROVE  IInv'
  <2>1. TypeOK'
    <3>1. /\ result' \in [Calls -> Results] /\ pc' \in [Calls -> Labels]
      BY <1>13, FailType DEF IInv, CommitFails, Errors
    <3>2. faults' \in 0 .. MaxFaults
      BY <1>13, ProposalsAssumption DEF IInv, TypeOK, CommitFails, Fault
    <3>3. work' \in [Calls -> Seq(Commits)] /\ tmp' \in [Paths -> Docs \cup {NoFile, Malformed}]
      <4>1. work' \in [Calls -> Seq(Commits)]
        BY <1>13, EmptySeq DEF IInv, TypeOK, CommitFails
      <4>2. Unlink(c) /\ TypeOK
        BY <1>13 DEF CommitFails, IInv
      <4>3. \A t \in Torn(c) : \A p : /\ t \in [Paths -> Docs \cup {NoFile, Malformed}]
                                     /\ [t EXCEPT ![p] = NoFile] \in [Paths -> Docs \cup {NoFile, Malformed}]
        BY <4>2, TornType
      <4> QED
        BY <4>1, <4>2, <4>3 DEF Unlink
    <3> QED
      BY <1>13, <3>1, <3>2, <3>3 DEF IInv, TypeOK, CommitFails, Release
  <2>2. Control'
    <3> SUFFICES ASSUME NEW e \in Calls PROVE ControlOf(e)'
      BY DEF Control
    <3>1. /\ req' = req /\ found' = found /\ pc[c] \in Writing
          /\ pc' = [pc EXCEPT ![c] = "reply"]
      BY <1>13 DEF CommitFails, Fail, Answer, Goto, Writing
    <3> QED
      BY <3>1 DEF IInv, TypeOK, Control, ControlOf, WalkedTo, Sought, Writing
  <2>3. Owner'
    <3>1. /\ pc[c] \in Writing /\ lock' = None
          /\ pc' = [pc EXCEPT ![c] = "reply"] /\ work' = [work EXCEPT ![c] = <<>>]
      BY <1>13 DEF CommitFails, Release, Fail, Answer, Goto, Writing
    <3> QED
      BY <3>1, ProposalsAssumption DEF IInv, TypeOK, Owner, OwnerOf, Writing
  <2> QED
    BY <2>1, <2>2, <2>3 DEF IInv
<1>14. ASSUME Crash
      PROVE  IInv'
  <2>1. TypeOK'
    <3>1. tmp' \in [Paths -> Docs \cup {NoFile, Malformed}]
      BY <1>14, TornType DEF Crash, IInv, TypeOK
    <3> QED
      BY <1>14, <3>1, ProposalsAssumption, EmptySeq DEF IInv, TypeOK, Labels, Crash, Fault
  <2>2. Control'
    BY <1>14 DEF IInv, TypeOK, Control, ControlOf, WalkedTo, Sought, Walkers, Crash, Fault, Writing
  <2>3. Owner'
    BY <1>14, ProposalsAssumption DEF IInv, TypeOK, Owner, OwnerOf, Crash, Fault, Writing
  <2> QED
    BY <2>1, <2>2, <2>3 DEF IInv
<1>15. ASSUME NEW p \in Paths, Edit(p)
      PROVE  IInv'
  <2>1. TypeOK'
    BY <1>15, ProposalsAssumption DEF IInv, TypeOK, Labels, Edit, Fault, Held, call, Writing
  <2>2. Control'
    BY ZenonT(60), <1>15 DEF IInv, TypeOK, Control, ControlOf, WalkedTo, Sought, Walkers, Edit, Fault, Held, call, Writing
  <2>3. Owner'
    BY <1>15 DEF IInv, TypeOK, Owner, OwnerOf, Edit, Fault, Held, call, Writing
  <2> QED
    BY <2>1, <2>2, <2>3 DEF IInv
<1>16. CASE UNCHANGED vars
  <2>1. TypeOK'
    BY <1>16 DEF IInv, TypeOK, vars, disk, call
  <2>2. Control'
    BY <1>16 DEF IInv, Control, ControlOf, WalkedTo, Sought, vars, disk, call
  <2>3. Owner'
    BY <1>16 DEF IInv, Owner, OwnerOf, vars, disk, call
  <2> QED
    BY <2>1, <2>2, <2>3 DEF IInv
<1>17. ASSUME NEW c \in Calls, ReadFails(c)
      PROVE  IInv'
  <2>1. /\ pc[c] \notin Writing /\ pc[c] # "idle" /\ pc' = [pc EXCEPT ![c] = "reply"]
        /\ UNCHANGED <<exists, files, tmp, req, todo, found, work, before, lock>>
    BY <1>17 DEF ReadFails, Fail, Answer, Goto, Writing, disk
  <2>2. TypeOK'
    <3>1. /\ result' \in [Calls -> Results] /\ pc' \in [Calls -> Labels]
      BY <1>17, FailType DEF IInv, ReadFails, Errors
    <3>2. faults' \in 0 .. MaxFaults
      BY <1>17, ProposalsAssumption DEF IInv, TypeOK, ReadFails, Fault
    <3> QED
      BY <2>1, <3>1, <3>2 DEF IInv, TypeOK
  <2>3. Control'
    BY <2>1 DEF IInv, TypeOK, Control, ControlOf, WalkedTo, Sought, Writing
  <2>4. Owner'
    BY <2>1 DEF IInv, TypeOK, Owner, OwnerOf, Writing
  <2> QED
    BY <2>2, <2>3, <2>4 DEF IInv
<1> QED
  BY <1>1, <1>2, <1>3, <1>4, <1>5, <1>6, <1>7, <1>8, <1>9, <1>10, <1>11, <1>12,
     <1>13, <1>14, <1>15, <1>16, <1>17 DEF Next, CallStep

\* Every variable keeps its type: above all, what the tools put on disk is a
\* whole proposal or nothing (tools.py, markdown.py:99-116).
THEOREM TypeCorrect == Spec => []TypeOK
<1>1. IInv => TypeOK
  BY DEF IInv
<1> QED
  BY <1>1, InitIInv, NextIInv, PTL DEF Spec

-----------------------------------------------------------------------------
(* One file per id.                                                        *)

\* Landing commit w leaves no second file with its id, ...
Alone(w) == \A q \in Holders(KeyOf(w.doc)) : q = w.path

\* ... and so does landing any two commits of one critical section.
SafeWork ==
  \A c \in Calls : \A m, n \in 1 .. Len(work[c]) :
    /\ Alone(work[c][n])
    /\ KeyOf(work[c][m].doc) = KeyOf(work[c][n].doc)
         => work[c][m].path = work[c][n].path

UniqueInv == IInv /\ UniqueIds /\ SafeWork

\* UniqueIds says that no two files hold one id.
LEMMA UniqueHolder ==
  ASSUME UniqueIds, NEW k, NEW p \in Holders(k), NEW q \in Holders(k)
  PROVE  p = q
BY DEF UniqueIds, Holders

\* A critical section that starts with unique ids plans a safe commit.
LEMMA PlanIsSafe ==
  ASSUME IInv, UniqueIds, NEW c \in Calls, pc[c] = "queued",
         Verdict(c, req[c]) = "ok"
  PROVE  LET w == Plan(c, req[c]) IN
         \A m, n \in 1 .. Len(w) :
           /\ Alone(w[n])
           /\ KeyOf(w[m].doc) = KeyOf(w[n].doc) => w[m].path = w[n].path
<1> DEFINE w == Plan(c, req[c])
<1>1. \A n \in 1 .. Len(w) :
        \/ w[n].path \in Holders(KeyOf(w[n].doc))
        \/ Holders(KeyOf(w[n].doc)) = {} /\ Len(w) = 1
  BY PlanShape
<1>2. SUFFICES ASSUME NEW m \in 1 .. Len(w), NEW n \in 1 .. Len(w)
               PROVE  /\ Alone(w[n])
                      /\ KeyOf(w[m].doc) = KeyOf(w[n].doc) => w[m].path = w[n].path
  OBVIOUS
<1>3. Alone(w[n])
  BY <1>1, UniqueHolder DEF Alone
<1>4. ASSUME KeyOf(w[m].doc) = KeyOf(w[n].doc) PROVE w[m].path = w[n].path
  <2>1. CASE Len(w) = 1
    BY <2>1
  <2>2. CASE Len(w) # 1
    BY <1>1, <1>4, <2>2, UniqueHolder
  <2> QED
    BY <2>1, <2>2
<1> QED
  BY <1>3, <1>4

\* A rename adds one holder at most, for the id it commits.
LEMMA RenameHolders ==
  ASSUME IInv, NEW c \in Calls, Rename(c)
  PROVE  \A k : \A q \in Holders(k)' :
           \/ q \in Holders(k)
           \/ q = Head(work[c]).path /\ k = KeyOf(Head(work[c]).doc)
<1>1. Head(work[c]) \in Commits
  BY HeadOfWork DEF Rename, Writing
<1>2. files' = [files EXCEPT ![Head(work[c]).path] = Head(work[c]).doc]
  BY DEF Rename, IInv, Owner, OwnerOf
<1> QED
  BY <1>1, <1>2 DEF Holders, Held, KeyOf, IInv, TypeOK, Commits

\* A rename keeps ids unique and what is left to land safe.
LEMMA RenameUnique ==
  ASSUME UniqueInv, NEW c \in Calls, Rename(c)
  PROVE  UniqueIds' /\ SafeWork'
<1> DEFINE w == work[c]
           h == Head(w)
<1>1. w \in Seq(Commits) /\ w # <<>> /\ Len(w) \in Nat \ {0}
  BY EmptySeq DEF UniqueInv, IInv, TypeOK, Owner, OwnerOf, Rename, Writing
<1>2. /\ h = w[1] /\ 1 \in 1 .. Len(w)
      /\ Tail(w) \in Seq(Commits) /\ Len(Tail(w)) = Len(w) - 1
      /\ \A n \in 1 .. Len(Tail(w)) : Tail(w)[n] = w[n + 1] /\ n + 1 \in 1 .. Len(w)
  BY <1>1, HeadTailProperties
<1>3. \A k : \A q \in Holders(k)' : q \in Holders(k) \/ (q = h.path /\ k = KeyOf(h.doc))
  BY RenameHolders DEF UniqueInv
<1>4. Alone(h)
  BY <1>2 DEF UniqueInv, SafeWork
<1>5. \A k : \A p, q \in Holders(k)' : p = q
  BY <1>3, <1>4, UniqueHolder DEF Alone, UniqueInv
<1>6. UniqueIds'
  BY <1>5 DEF UniqueIds, Holders
<1>7. SafeWork'
  <2> SUFFICES ASSUME NEW e \in Calls,
                      NEW m \in 1 .. Len(work'[e]), NEW n \in 1 .. Len(work'[e])
               PROVE  /\ \A k : k = KeyOf(work'[e][n].doc) =>
                            \A q \in Holders(k)' : q = work'[e][n].path
                      /\ KeyOf(work'[e][m].doc) = KeyOf(work'[e][n].doc)
                           => work'[e][m].path = work'[e][n].path
    BY DEF SafeWork, Alone, KeyOf, Holders, Held
  <2>1. e = c
    <3>1. \A d \in Calls \ {c} : work[d] = <<>> /\ work'[d] = work[d]
      BY DEF UniqueInv, IInv, TypeOK, Owner, OwnerOf, Rename, Writing
    <3> QED
      BY <3>1
  <2>2. work'[e] = Tail(w)
    BY <2>1 DEF UniqueInv, IInv, TypeOK, Rename
  <2>3. work'[e][m] = w[m + 1] /\ work'[e][n] = w[n + 1]
        /\ m + 1 \in 1 .. Len(w) /\ n + 1 \in 1 .. Len(w)
    BY <1>2, <2>2
  <2>4. KeyOf(w[m + 1].doc) = KeyOf(w[n + 1].doc) => w[m + 1].path = w[n + 1].path
    BY <2>3 DEF UniqueInv, SafeWork
  <2>5. \A k : k = KeyOf(w[n + 1].doc) => \A q \in Holders(k)' : q = w[n + 1].path
    <3>1. Alone(w[n + 1])
      BY <2>3 DEF UniqueInv, SafeWork
    <3>2. KeyOf(h.doc) = KeyOf(w[n + 1].doc) => h.path = w[n + 1].path
      BY SMTT(30), <1>2, <2>3 DEF UniqueInv, SafeWork
    <3> QED
      BY <1>3, <3>1, <3>2 DEF Alone
  <2> QED
    BY <2>3, <2>4, <2>5
<1> QED
  BY <1>6, <1>7

\* Steps that land nothing and plan nothing keep both.
LEMMA QuietUnique ==
  ASSUME UniqueInv,
         \A p \in Paths : files'[p] = files[p] \/ files'[p] \notin Docs,
         \A e \in Calls : work'[e] = work[e] \/ work'[e] = <<>>
  PROVE  UniqueIds' /\ SafeWork'
<1>1. \A k : Holders(k)' \subseteq Holders(k)
  BY DEF Holders, Held
<1>2. UniqueIds'
  BY <1>1, UniqueHolder DEF UniqueInv, UniqueIds, Holders, Held
<1>3. SafeWork'
  <2> SUFFICES ASSUME NEW e \in Calls,
                      NEW m \in 1 .. Len(work'[e]), NEW n \in 1 .. Len(work'[e])
               PROVE  /\ \A k : k = KeyOf(work'[e][n].doc) =>
                            \A q \in Holders(k)' : q = work'[e][n].path
                      /\ KeyOf(work'[e][m].doc) = KeyOf(work'[e][n].doc)
                           => work'[e][m].path = work'[e][n].path
    BY DEF SafeWork, Alone, KeyOf, Holders, Held
  <2>1. work'[e] = work[e]
    OBVIOUS
  <2> QED
    BY SMTT(30), <1>1, <2>1 DEF UniqueInv, SafeWork, Alone
<1> QED
  BY <1>2, <1>3

\* Entering the critical section lands nothing and plans safe commits.
LEMMA EnterUnique ==
  ASSUME UniqueInv, NEW c \in Calls, Enter(c)
  PROVE  UniqueIds' /\ SafeWork'
<1>1. files' = files /\ work' = [work EXCEPT ![c] = Plan(c, req[c])]
  BY DEF Enter, disk
<1>2. UniqueIds' /\ \A k : Holders(k)' = Holders(k)
  BY <1>1 DEF UniqueInv, UniqueIds, Holders, Held
<1>3. \A e \in Calls : work'[e] = IF e = c THEN Plan(c, req[c]) ELSE work[e]
  BY <1>1 DEF UniqueInv, IInv, TypeOK
<1>4. SafeWork'
  <2> SUFFICES ASSUME NEW e \in Calls,
                      NEW m \in 1 .. Len(work'[e]), NEW n \in 1 .. Len(work'[e])
               PROVE  /\ \A k : k = KeyOf(work'[e][n].doc) =>
                            \A q \in Holders(k)' : q = work'[e][n].path
                      /\ KeyOf(work'[e][m].doc) = KeyOf(work'[e][n].doc)
                           => work'[e][m].path = work'[e][n].path
    BY DEF SafeWork, Alone, KeyOf, Holders, Held
  <2>1. CASE e = c
    <3>1. pc[c] = "queued" /\ Verdict(c, req[c]) = "ok"
      BY DEF Enter
    <3>2. work'[e] = Plan(c, req[c])
      BY <1>3, <2>1
    <3> DEFINE w == Plan(c, req[c])
    <3>3. /\ Alone(w[n])
          /\ KeyOf(w[m].doc) = KeyOf(w[n].doc) => w[m].path = w[n].path
      BY <3>1, <3>2, PlanIsSafe DEF UniqueInv
    <3> HIDE DEF w
    <3> QED
      BY <1>2, <3>2, <3>3 DEF Alone, w
  <2>2. CASE e # c
    <3>1. work'[e] = work[e]
      BY <1>3, <2>2
    <3>2. /\ Alone(work[e][n])
          /\ KeyOf(work[e][m].doc) = KeyOf(work[e][n].doc)
               => work[e][m].path = work[e][n].path
      BY <3>1 DEF UniqueInv, SafeWork
    <3> QED
      BY <1>2, <3>1, <3>2 DEF Alone
  <2> QED
    BY <2>1, <2>2
<1> QED
  BY <1>2, <1>4

\* The step of any call, fault or editor keeps ids unique.
LEMMA NextUnique == UniqueInv /\ [Next]_vars => UniqueInv'
<1> SUFFICES ASSUME UniqueInv, [Next]_vars PROVE UniqueIds' /\ SafeWork'
  BY NextIInv DEF UniqueInv
<1>1. CASE UNCHANGED <<files, work>>
  BY <1>1, QuietUnique
<1>2. CASE \E c \in Calls : Enter(c)
  BY <1>2, EnterUnique
<1>3. CASE \E c \in Calls : Rename(c)
  BY <1>3, RenameUnique
<1>4. CASE \E c \in Calls : CommitFails(c) \/ ReadFails(c)
  <2>1. files' = files /\ \A e \in Calls : work'[e] = work[e] \/ work'[e] = <<>>
    BY <1>4 DEF CommitFails, ReadFails, disk, UniqueInv, IInv, TypeOK
  <2> QED
    BY <2>1, QuietUnique
<1>5. CASE Crash
  <2>1. files' = files /\ \A e \in Calls : work'[e] = <<>>
    BY <1>5 DEF Crash, disk
  <2> QED
    BY <2>1, QuietUnique
<1>6. CASE \E p \in Paths : Edit(p)
  <2>1. work' = work /\ \A q \in Paths : files'[q] = files[q] \/ files'[q] = Malformed
    BY <1>6 DEF Edit, call, UniqueInv, IInv, TypeOK
  <2> QED
    BY <2>1, QuietUnique, ProposalsAssumption
<1>7. ASSUME NEW c \in Calls, CallStep(c), ~Enter(c), ~Rename(c)
      PROVE  UNCHANGED <<files, work>>
  BY <1>7 DEF CallStep, WalkFile, LookupFails, LookupSucceeds, ListDone, Reread,
              Refuse, WriteTmp, Reply, disk
<1>8. ASSUME NEW c \in Calls, NEW r \in Requests, Start(c, r)
      PROVE  UNCHANGED <<files, work>>
  BY <1>8 DEF Start, disk
<1>9. CASE Bootstrap \/ UNCHANGED vars
  BY <1>1, <1>9 DEF Bootstrap, call, vars, disk
<1> QED
  BY <1>1, <1>2, <1>3, <1>4, <1>5, <1>6, <1>7, <1>8, <1>9 DEF Next

\* What a notebook must be like when the server starts.
NotebookIsUnique(f) ==
  \A p, q \in Paths : Held(f, p) /\ Held(f, q) /\ KeyOf(f[p]) = KeyOf(f[q]) => p = q

\* However many calls race, fail half way or die, and however the ids are
\* spelled, a notebook that starts with one file per id keeps one file per id
\* (tools.py:277-291, 322-366).
THEOREM UniqueIdsAlways ==
  ASSUME \A f \in Notebooks : NotebookIsUnique(f)
  PROVE  Spec => []UniqueIds
<1>1. Init => UniqueInv
  <2> SUFFICES ASSUME Init PROVE UniqueIds /\ SafeWork
    BY InitIInv DEF UniqueInv
  <2>1. UniqueIds
    BY DEF Init, NotebookIsUnique, UniqueIds, Held
  <2>2. SafeWork
    BY EmptySeq DEF Init, SafeWork
  <2> QED
    BY <2>1, <2>2
<1>2. UniqueInv => UniqueIds
  BY DEF UniqueInv
<1> QED
  BY <1>1, <1>2, NextUnique, PTL DEF Spec
=============================================================================
