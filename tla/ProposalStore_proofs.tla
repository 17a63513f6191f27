------------------------ MODULE ProposalStore_proofs ------------------------
(***************************************************************************)
(* What the proposal tools answer, for every set of calls, requests and    *)
(* ids: a file keeps the key its name folds to, however often it is        *)
(* rewritten, so what a walk has read of a file stays true of it.  Then:   *)
(* the tools implement ProposalStore, under every failed write and restart.*)
(***************************************************************************)
EXTENDS ProposalsRefine, Proposals_proofs, FiniteSetTheorems

\* A proposal at the path that its kind, proposer and id call for.
Fits(p, d) == p.dir = Route(d) /\ Fold[p.name] = KeyOf(d)

WorkFits ==
  \A c \in Calls : \A n \in 1 .. Len(work[c]) : Fits(work[c][n].path, work[c][n].doc)

\* What a walk for an id matched has a name that folds to its key.
FoundFits ==
  \A c \in Calls : \A i \in Ids \cup {None}, p \in Paths : <<i, p>> \in found[c] =>
    pc[c] # "idle" /\ (req[c].op # "list_proposals" => Fold[p.name] = Fold[i])

RequestsMade == \A c \in Calls : pc[c] # "idle" => req[c] \in Requests

RoutedInv ==
  /\ IInv
  /\ RoutedByKind
  /\ WorkFits
  /\ FoundFits
  /\ RequestsMade

NotebookIsRouted(f) == \A p \in Paths : Held(f, p) => Fits(p, f[p])

\* What the proofs below need of the constants.
Constants ==
  /\ Requests \subseteq AllRequests
  /\ Notebooks \subseteq [Paths -> Docs \cup {NoFile}]
  /\ NoFile \notin Docs /\ Malformed \notin Docs /\ NoFile # Malformed
  /\ None \notin Calls \cup Docs

\* The named assumption says so.
LEMMA ConstantsHold == Constants
  BY ProposalsAssumption, Zenon DEF Constants

-----------------------------------------------------------------------------
\* Replacing lifecycle fields keeps a proposal where it is.
LEMMA LifecycleFits ==
  ASSUME NEW d \in Docs, NEW p \in Paths, Fits(p, d),
         NEW s \in Statuses, NEW t \in Tests \cup {None}
  PROVE  Fits(p, [d EXCEPT !.status = s, !.test = IF t = None THEN @ ELSE t])
  BY DEF Docs, Fits, Route, KeyOf

\* So does replacing a link.
LEMMA LinkFits ==
  ASSUME NEW d \in Docs, NEW p \in Paths, Fits(p, d), NEW i \in Ids
  PROVE  /\ Fits(p, [d EXCEPT !.superseded_by = i])
         /\ Fits(p, [d EXCEPT !.supersedes = i])
  BY DEF Docs, Fits, Route, KeyOf

\* A write's request is that of its tool.
LEMMA RequestIs ==
  ASSUME NEW r \in AllRequests
  PROVE  /\ r.op = "write_proposal" => r \in WriteRequests
         /\ r.op = "update_proposal_status" => r \in StatusRequests
         /\ r.op = "supersede_proposal" => r \in SupersedeRequests
  BY DEF AllRequests, WriteRequests, StatusRequests, SupersedeRequests, ReadRequests,
         ListRequests, BadRequests

\* A critical section plans commits that fit the paths they are for.
LEMMA PlanFits ==
  ASSUME RoutedInv, NEW c \in Calls, pc[c] = "queued", Verdict(c, req[c]) = "ok"
  PROVE  LET w == Plan(c, req[c]) IN \A n \in 1 .. Len(w) : Fits(w[n].path, w[n].doc)
<1> DEFINE r == req[c]
<1>1. r \in AllRequests /\ r.op \in Mutators
  BY DEF RoutedInv, IInv, Control, ControlOf
<1>2. \A p \in Paths : files[p] \in Docs => Fits(p, files[p])
  BY DEF RoutedInv, RoutedByKind, Held, Fits
<1>3. CASE r.op = "write_proposal"
  <2>1. r \in WriteRequests /\ WriteError(r) = "ok"
    BY <1>1, <1>3, RequestIs DEF Verdict
  <2>2. PICK p \in Paths :
          /\ WritePlan(r) = <<[path |-> p, doc |-> r.doc]>>
          /\ r.mode = "create" => p = Target(r.doc) /\ Holders(KeyOf(r.doc)) = {}
          /\ r.mode = "update" => p \in Holders(KeyOf(r.doc)) /\ p.dir = Route(r.doc)
    BY <2>1, WritePlanShape
  <2>3. r.mode \in {"create", "update"}
    BY <2>1 DEF WriteRequests
  <2>4. Fits(p, r.doc)
    <3>1. CASE r.mode = "create"
      BY <2>2, <3>1 DEF Fits, Target, KeyOf
    <3>2. CASE r.mode = "update"
      BY <1>2, <2>2, <3>2 DEF Fits, Holders, Held
    <3> QED
      BY <2>3, <3>1, <3>2
  <2> QED
    BY <1>3, <2>2, <2>4 DEF Plan
<1>4. CASE r.op = "update_proposal_status"
  <2> DEFINE p == PathOf(c, r.id)
             d == [files[p] EXCEPT !.status = r.status,
                                   !.test = IF r.test = None THEN @ ELSE r.test]
  <2>1. r.id \in Ids /\ r.status \in Statuses /\ r.test \in Tests \cup {None}
    BY <1>1, <1>4, RequestShape
  <2>2. WalkedTo(c, r.id) # {} /\ files[p] \in Docs
    BY <1>4 DEF RoutedInv, IInv, Control, ControlOf, Sought, Verdict
  <2>3. p \in Paths
    BY <2>2, PathOfFound
  <2>4. Fits(p, d)
    BY <1>2, <2>1, <2>2, <2>3, LifecycleFits
  <2>5. Plan(c, r) = <<[path |-> p, doc |-> d]>>
    BY <1>4 DEF Plan, StatusPlan
  <2> HIDE DEF p, d
  <2> QED
    BY <2>4, <2>5
<1>5. CASE r.op = "supersede_proposal"
  <2> DEFINE o == PathOf(c, r.old)
             n == PathOf(c, r.new)
             d == [files[o] EXCEPT !.superseded_by = r.new]
             e == [files[n] EXCEPT !.supersedes = r.old]
  <2>1. r.old \in Ids /\ r.new \in Ids
    BY <1>1, <1>5, RequestShape
  <2>2. /\ WalkedTo(c, r.old) # {} /\ files[o] \in Docs
        /\ WalkedTo(c, r.new) # {} /\ files[n] \in Docs
    BY <1>5 DEF RoutedInv, IInv, Control, ControlOf, Sought, Verdict
  <2>3. o \in Paths /\ n \in Paths
    BY <2>2, PathOfFound
  <2>4. Fits(o, d) /\ Fits(n, e)
    BY <1>2, <2>1, <2>2, <2>3, LinkFits
  <2>5. Plan(c, r) = <<[path |-> o, doc |-> d], [path |-> n, doc |-> e]>>
    BY <1>5 DEF Plan, SupersedePlan
  <2> HIDE DEF o, n, d, e
  <2> QED
    BY <2>4, <2>5
<1> QED
  BY <1>1, <1>3, <1>4, <1>5 DEF Mutators

-----------------------------------------------------------------------------
(* What a step may do.                                                     *)

\* A call that has started keeps its arguments and never becomes idle.
LEMMA StartedStays ==
  ASSUME IInv, [Next]_vars, NEW e \in Calls, pc[e] # "idle"
  PROVE  pc'[e] # "idle" /\ req'[e] = req[e] /\ before'[e] = before[e]
<1>1. ASSUME NEW c \in Calls, NEW r \in Requests, Start(c, r)
      PROVE  pc'[e] = pc[e] /\ req'[e] = req[e] /\ before'[e] = before[e]
  <2>1. e # c
    BY <1>1 DEF Start
  <2> QED
    BY <1>1, <2>1 DEF Start, Fail, Answer, Goto, IInv, TypeOK
<1>2. ASSUME NEW c \in Calls, CallStep(c)
      PROVE  pc'[e] # "idle" /\ req'[e] = req[e] /\ before'[e] = before[e]
  BY <1>2 DEF CallStep, WalkFile, LookupFails, LookupSucceeds, ListDone, Reread, Refuse,
     Enter, WriteTmp, Rename, Reply, Fail, Answer, Goto, IInv, TypeOK
<1>3. ASSUME NEW c \in Calls, CommitFails(c) \/ ReadFails(c)
      PROVE  pc'[e] # "idle" /\ req'[e] = req[e] /\ before'[e] = before[e]
  BY <1>3 DEF CommitFails, ReadFails, Fail, Answer, Goto, IInv, TypeOK
<1>4. CASE Crash
  BY <1>4 DEF Crash
<1>5. CASE Bootstrap \/ (\E p \in Paths : Edit(p)) \/ UNCHANGED vars
  BY <1>5 DEF Bootstrap, Edit, call, vars
<1> QED
  BY <1>1, <1>2, <1>3, <1>4, <1>5 DEF Next

\* Only Start takes a call out of idle.
LEMMA OnlyStartStarts ==
  ASSUME IInv, [Next]_vars, NEW e \in Calls, pc[e] = "idle", pc'[e] # "idle"
  PROVE  \E r \in Requests : Start(e, r)
<1>1. ASSUME NEW c \in Calls, NEW r \in Requests, Start(c, r)
      PROVE  c = e
  BY <1>1 DEF Start, Fail, Answer, Goto, IInv, TypeOK
<1>2. ASSUME NEW c \in Calls, CallStep(c)
      PROVE  FALSE
  BY <1>2 DEF CallStep, WalkFile, WalkOver, LookupFails, LookupSucceeds, ListDone, Reread,
     Refuse, Enter, WriteTmp, Rename, Reply, Fail, Answer, Goto, IInv, TypeOK
<1>3. ASSUME NEW c \in Calls, CommitFails(c) \/ ReadFails(c)
      PROVE  FALSE
  BY <1>3 DEF CommitFails, ReadFails, Fail, Answer, Goto, IInv, TypeOK
<1>4. CASE Crash
  BY <1>4 DEF Crash
<1>5. CASE Bootstrap \/ (\E p \in Paths : Edit(p)) \/ UNCHANGED vars
  BY <1>5 DEF Bootstrap, Edit, call, vars
<1> QED
  BY <1>1, <1>2, <1>3, <1>4, <1>5 DEF Next

\* Files change in a commit or under an editor, ...
LEMMA FilesChangeBy ==
  ASSUME [Next]_vars
  PROVE  \/ files' = files
         \/ \E c \in Calls : Rename(c)
         \/ \E p \in Paths : Edit(p)
BY DEF Next, CallStep, Bootstrap, Start, WalkFile, LookupFails, LookupSucceeds, ListDone,
   Reread, Refuse, Enter, WriteTmp, Reply, CommitFails, ReadFails, Crash, disk, vars

\* ... what is left to land in a critical section, ...
LEMMA WorkChangesBy ==
  ASSUME IInv, [Next]_vars
  PROVE  \/ \A e \in Calls : work'[e] \in {work[e], <<>>}
         \/ \E c \in Calls : Enter(c) \/ Rename(c)
<1>1. CASE \E c \in Calls : CommitFails(c) \/ ReadFails(c)
  BY <1>1 DEF CommitFails, ReadFails, IInv, TypeOK
<1>2. CASE Crash
  BY <1>2 DEF Crash
<1>3. CASE work' = work
  BY <1>3
<1> QED
  BY <1>1, <1>2, <1>3 DEF Next, CallStep, Bootstrap, Start, WalkFile, LookupFails,
     LookupSucceeds, ListDone, Reread, Refuse, WriteTmp, Reply, Edit, disk, call, vars

\* ... and what a call has found in its walk.
LEMMA FoundChangesBy ==
  ASSUME [Next]_vars
  PROVE  \/ found' = found
         \/ \E c \in Calls, i \in Ids \cup {None}, p \in Paths : WalkFile(c, i, p)
BY DEF Next, CallStep, Bootstrap, Start, LookupFails, LookupSucceeds, ListDone,
   Reread, Refuse, Enter, WriteTmp, Rename, Reply, CommitFails, ReadFails, Crash, Edit, disk, call, vars

\* A rename lands the commit at the head of what is left, and leaves the rest.
LEMMA RenameLands ==
  ASSUME IInv, NEW c \in Calls, Rename(c)
  PROVE  /\ Head(work[c]) \in Commits /\ 1 \in 1 .. Len(work[c])
         /\ Head(work[c]) = work[c][1]
         /\ files' = [files EXCEPT ![Head(work[c]).path] = Head(work[c]).doc]
         /\ \A e \in Calls : \A n \in 1 .. Len(work'[e]) :
              \E m \in 1 .. Len(work[e]) : work'[e][n] = work[e][m]
<1> DEFINE w == work[c]
<1>1. w \in Seq(Commits) /\ w # <<>> /\ Len(w) \in Nat \ {0}
  BY EmptySeq DEF IInv, TypeOK, Owner, OwnerOf, Rename, Writing
<1>2. /\ Head(w) = w[1] /\ Head(w) \in Commits /\ 1 \in 1 .. Len(w)
      /\ \A n \in 1 .. Len(Tail(w)) : Tail(w)[n] = w[n + 1] /\ n + 1 \in 1 .. Len(w)
  BY <1>1, HeadTailProperties
<1>3. files' = [files EXCEPT ![Head(w).path] = Head(w).doc]
  BY DEF Rename, IInv, Owner, OwnerOf
<1>4. work' = [work EXCEPT ![c] = Tail(w)]
  BY DEF Rename
<1>5. ASSUME NEW e \in Calls, NEW n \in 1 .. Len(work'[e])
      PROVE  \E m \in 1 .. Len(work[e]) : work'[e][n] = work[e][m]
  <2>1. CASE e = c
    <3>1. work'[e] = Tail(w)
      BY <1>4, <2>1 DEF IInv, TypeOK
    <3> QED
      BY <1>2, <2>1, <3>1
  <2>2. CASE e # c
    <3>1. work'[e] = work[e]
      BY <1>4, <2>2 DEF IInv, TypeOK
    <3> QED
      BY <3>1
  <2> QED
    BY <2>1, <2>2
<1> QED
  BY <1>2, <1>3, <1>5

-----------------------------------------------------------------------------
(* Where proposals lie.                                                    *)

\* The step of any call, fault or editor keeps every file where it belongs.
LEMMA NextRouted == RoutedInv /\ [Next]_vars => RoutedInv'
<1> SUFFICES ASSUME RoutedInv, [Next]_vars PROVE RoutedInv'
  OBVIOUS
<1>1. IInv /\ IInv'
  BY NextIInv DEF RoutedInv
<1>2. \A p \in Paths : files[p] \in Docs => Fits(p, files[p])
  BY DEF RoutedInv, RoutedByKind, Held, Fits
<1>3. RequestsMade'
  <2> SUFFICES ASSUME NEW e \in Calls, pc'[e] # "idle" PROVE req'[e] \in Requests
    BY DEF RequestsMade
  <2>1. CASE pc[e] # "idle"
    BY <1>1, <2>1, StartedStays DEF RoutedInv, RequestsMade
  <2>2. CASE pc[e] = "idle"
    BY <1>1, <2>2, OnlyStartStarts DEF Start, IInv, TypeOK
  <2> QED
    BY <2>1, <2>2
<1>4. \A p \in Paths : files'[p] \in Docs => Fits(p, files'[p])
  <2>1. CASE files' = files
    BY <1>2, <2>1
  <2>2. ASSUME NEW c \in Calls, Rename(c)
        PROVE  \A p \in Paths : files'[p] \in Docs => Fits(p, files'[p])
    <3>1. Fits(Head(work[c]).path, Head(work[c]).doc)
      BY <1>1, <2>2, RenameLands DEF RoutedInv, WorkFits
    <3> QED
      BY ZenonT(40), <1>1, <1>2, <2>2, <3>1, RenameLands DEF IInv, TypeOK
  <2>3. ASSUME NEW q \in Paths, Edit(q)
        PROVE  \A p \in Paths : files'[p] \in Docs => Fits(p, files'[p])
    BY <1>1, <1>2, <2>3, ConstantsHold DEF Edit, IInv, TypeOK, Constants
  <2> QED
    BY <2>1, <2>2, <2>3, FilesChangeBy
<1>5. RoutedByKind'
  BY <1>4 DEF RoutedByKind, Held, Fits
<1>6. WorkFits'
  <2> SUFFICES ASSUME NEW e \in Calls, NEW n \in 1 .. Len(work'[e])
               PROVE  Fits(work'[e][n].path, work'[e][n].doc)
    BY DEF WorkFits, Fits, KeyOf, Route
  <2>1. CASE \A d \in Calls : work'[d] \in {work[d], <<>>}
    BY <2>1 DEF RoutedInv, WorkFits
  <2>2. ASSUME NEW c \in Calls, Enter(c) PROVE Fits(work'[e][n].path, work'[e][n].doc)
    <3>1. /\ work' = [work EXCEPT ![c] = Plan(c, req[c])]
          /\ pc[c] = "queued" /\ Verdict(c, req[c]) = "ok"
      BY <2>2 DEF Enter
    <3>2. \A m \in 1 .. Len(Plan(c, req[c])) :
             Fits(Plan(c, req[c])[m].path, Plan(c, req[c])[m].doc)
      BY <3>1, PlanFits
    <3>3. work'[e] = IF e = c THEN Plan(c, req[c]) ELSE work[e]
      BY <1>1, <3>1 DEF IInv, TypeOK
    <3> QED
      BY <3>2, <3>3 DEF RoutedInv, WorkFits
  <2>3. ASSUME NEW c \in Calls, Rename(c) PROVE Fits(work'[e][n].path, work'[e][n].doc)
    BY <1>1, <2>3, RenameLands DEF RoutedInv, WorkFits
  <2> QED
    BY <1>1, <2>1, <2>2, <2>3, WorkChangesBy
<1>7. FoundFits'
  <2> SUFFICES ASSUME NEW e \in Calls, NEW i \in Ids \cup {None}, NEW p \in Paths,
                      <<i, p>> \in found'[e]
               PROVE  pc'[e] # "idle" /\ (req'[e].op # "list_proposals" => Fold[p.name] = Fold[i])
    BY DEF FoundFits
  <2>1. CASE <<i, p>> \in found[e]
    BY <1>1, <2>1, StartedStays DEF RoutedInv, FoundFits
  <2>2. CASE <<i, p>> \notin found[e]
    <3>1. PICK c \in Calls, j \in Ids \cup {None}, q \in Paths : WalkFile(c, j, q)
      BY <2>2, FoundChangesBy
    <3>2. /\ c = e /\ j = i /\ q = p
          /\ Matches(req[e], i, files[p])
      BY <1>1, <2>2, <3>1 DEF WalkFile, IInv, TypeOK
    <3>3. pc'[e] = "walk" /\ req'[e] = req[e]
      BY <3>1, <3>2 DEF WalkFile
    <3> QED
      BY <1>2, <3>2, <3>3 DEF Matches, IdMatches, Fits
  <2> QED
    BY <2>1, <2>2
<1> QED
  BY <1>1, <1>3, <1>5, <1>6, <1>7 DEF RoutedInv

\* A server starts on a notebook whose files lie where they belong.
LEMMA InitRouted ==
  ASSUME \A f \in Notebooks : NotebookIsRouted(f)
  PROVE  Init => RoutedInv
<1> SUFFICES ASSUME Init PROVE RoutedInv
  OBVIOUS
<1>1. IInv
  BY InitIInv
<1>2. RoutedByKind
  BY DEF Init, NotebookIsRouted, RoutedByKind, Fits
<1>3. WorkFits
  BY EmptySeq DEF Init, WorkFits
<1>4. FoundFits /\ RequestsMade
  BY DEF Init, FoundFits, RequestsMade
<1> QED
  BY <1>1, <1>2, <1>3, <1>4 DEF RoutedInv

\* However a proposal is created, updated and linked, and however calls race,
\* fail or die, its file stays in the directory its kind and proposer route it
\* to, under a name that is its id up to case (tools.py:176-189, 333-364).
THEOREM RoutedByKindAlways ==
  ASSUME \A f \in Notebooks : NotebookIsRouted(f)
  PROVE  Spec => []RoutedByKind
<1>1. RoutedInv => RoutedByKind
  BY DEF RoutedInv
<1> QED
  BY <1>1, InitRouted, NextRouted, PTL DEF Spec

-----------------------------------------------------------------------------
(* What reads and listings answer.                                         *)

Unfiltered(r) ==
  r.op = "list_proposals" /\ r.dir = None /\ r.status = None /\ r.kind = None

\* Files that a started call was to read, or has read, are still there.
SeenStays(c) ==
  pc[c] # "idle" =>
    /\ \A p \in before[c] : files[p] # NoFile
    /\ \A i \in Ids \cup {None}, p \in Paths : <<i, p>> \in found[c] => files[p] # NoFile

\* A call has no answer before it has one.
AnswerIsLast(c) == result[c].is # "none" => pc[c] \in {"reply", "done", "lost"}

\* An unfiltered walk has still to read, or has matched, all there was.
WalkIsWhole(c) ==
  pc[c] = "walk" /\ Unfiltered(req[c]) =>
    \A p \in before[c] : <<None, p>> \in todo[c] \cup found[c]

ListIsWhole(c) ==
  /\ Answered(c, "list_proposals", "ok")
  /\ req[c].dir = None /\ req[c].status = None /\ req[c].kind = None
  => before[c] \subseteq result[c].paths

ReadIsRight(c) ==
  Answered(c, "read_proposal", "ok") => KeyOf(result[c].doc) = Fold[req[c].id]

AnswerOf(c) == AnswerIsLast(c) /\ WalkIsWhole(c) /\ ListIsWhole(c) /\ ReadIsRight(c)

AnswersInv ==
  /\ RoutedInv
  /\ \A c \in Calls : SeenStays(c) /\ AnswerOf(c)

\* Call e keeps all it has but its place, or does nothing at all.
Keeps(e) ==
  /\ req'[e] = req[e] /\ todo'[e] = todo[e] /\ found'[e] = found[e]
  /\ result'[e] = result[e] /\ before'[e] = before[e]
  /\ pc'[e] \in {pc[e], "lost"}

\* A step of one call leaves the others as they are.
LEMMA OthersKeep ==
  ASSUME IInv, NEW c \in Calls, NEW e \in Calls, e # c,
         CallStep(c) \/ CommitFails(c) \/ ReadFails(c) \/ \E r \in Requests : Start(c, r)
  PROVE  Keeps(e)
<1>1. ASSUME NEW r \in Requests, Start(c, r) PROVE Keeps(e)
  BY <1>1 DEF Keeps, Start, Fail, Answer, Goto, IInv, TypeOK
<1>2. CASE CommitFails(c) \/ ReadFails(c)
  BY <1>2 DEF Keeps, CommitFails, ReadFails, Fail, Answer, Goto, IInv, TypeOK
<1>3. ASSUME NEW i \in Ids \cup {None}, NEW p \in Paths, WalkFile(c, i, p) PROVE Keeps(e)
  BY <1>3 DEF Keeps, WalkFile, IInv, TypeOK
<1>4. CASE LookupFails(c) \/ LookupSucceeds(c) \/ ListDone(c) \/ Reread(c)
  BY <1>4 DEF Keeps, LookupFails, LookupSucceeds, ListDone, Reread, Fail, Answer, Goto,
     IInv, TypeOK
<1>5. CASE Refuse(c) \/ Enter(c) \/ WriteTmp(c) \/ Rename(c) \/ Reply(c)
  BY <1>5 DEF Keeps, Refuse, Enter, WriteTmp, Rename, Reply, Fail, Answer, Goto, IInv, TypeOK
<1> QED
  BY <1>1, <1>2, <1>3, <1>4, <1>5 DEF CallStep

\* So do bootstrap, an editor and a restart.
LEMMA AllKeep ==
  ASSUME IInv, Bootstrap \/ Crash \/ (\E p \in Paths : Edit(p)) \/ UNCHANGED vars,
         NEW e \in Calls
  PROVE  Keeps(e)
BY DEF Keeps, Bootstrap, Crash, Edit, vars, call, IInv, TypeOK

\* No file is ever removed.
LEMMA FilesStay ==
  ASSUME IInv, [Next]_vars, NEW p \in Paths, files[p] # NoFile
  PROVE  files'[p] # NoFile
<1>1. ASSUME NEW c \in Calls, Rename(c) PROVE files'[p] # NoFile
  <2>1. Head(work[c]) \in Commits /\ files' = [files EXCEPT ![Head(work[c]).path] = Head(work[c]).doc]
    BY <1>1, RenameLands
  <2> QED
    BY <2>1, ConstantsHold DEF IInv, TypeOK, Commits, Constants
<1>2. ASSUME NEW q \in Paths, Edit(q) PROVE files'[p] # NoFile
  BY <1>2, ConstantsHold DEF Edit, IInv, TypeOK, Constants
<1> QED
  BY <1>1, <1>2, FilesChangeBy

\* What a walk newly matches is a file.
LEMMA WalkFindsFiles ==
  ASSUME IInv, NEW c \in Calls, NEW i \in Ids \cup {None}, NEW p \in Paths, WalkFile(c, i, p),
         <<i, p>> \in found'[c], <<i, p>> \notin found[c]
  PROVE  files[p] # NoFile
BY ConstantsHold DEF WalkFile, Matches, Shown, IInv, TypeOK, Constants

\* What a call has seen stays, whatever is written meanwhile.
LEMMA NextSeen ==
  ASSUME IInv, [Next]_vars, NEW e \in Calls, SeenStays(e), FoundFits
  PROVE  SeenStays(e)'
<1> SUFFICES ASSUME pc'[e] # "idle"
             PROVE  /\ \A p \in before'[e] : files'[p] # NoFile
                    /\ \A i \in Ids \cup {None}, p \in Paths :
                         <<i, p>> \in found'[e] => files'[p] # NoFile
  BY DEF SeenStays
<1>1. ASSUME NEW p \in before'[e] PROVE files'[p] # NoFile
  <2>1. CASE pc[e] # "idle"
    <3>1. p \in Paths /\ files[p] # NoFile
      BY <1>1, <2>1, StartedStays DEF SeenStays, IInv, TypeOK
    <3> QED
      BY <3>1, FilesStay
  <2>2. CASE pc[e] = "idle"
    BY <1>1, <2>2, OnlyStartStarts DEF Start, disk, IInv, TypeOK
  <2> QED
    BY <2>1, <2>2
<1>2. ASSUME NEW i \in Ids \cup {None}, NEW p \in Paths, <<i, p>> \in found'[e]
      PROVE  files'[p] # NoFile
  <2>1. CASE <<i, p>> \in found[e]
    <3>1. files[p] # NoFile
      BY <2>1 DEF SeenStays, FoundFits
    <3> QED
      BY <3>1, FilesStay
  <2>2. CASE <<i, p>> \notin found[e]
    <3>1. PICK c \in Calls, j \in Ids \cup {None}, q \in Paths : WalkFile(c, j, q)
      BY <1>2, <2>2, FoundChangesBy
    <3>2. c = e /\ j = i /\ q = p
      BY <1>2, <2>2, <3>1 DEF WalkFile, IInv, TypeOK
    <3>3. files[p] # NoFile
      BY <1>2, <2>2, <3>1, <3>2, WalkFindsFiles
    <3> QED
      BY <3>3, FilesStay
  <2> QED
    BY <2>1, <2>2
<1> QED
  BY <1>1, <1>2

\* A call that does nothing keeps its answer.
LEMMA KeepsAnswer ==
  ASSUME NEW e \in Calls, AnswerOf(e), Keeps(e)
  PROVE  AnswerOf(e)'
BY DEF AnswerOf, AnswerIsLast, WalkIsWhole, ListIsWhole, ReadIsRight, Answered, Unfiltered,
   Keeps, KeyOf

\* A call that starts is to walk over all there is.
LEMMA StartAnswers ==
  ASSUME IInv, NEW e \in Calls, AnswerOf(e), NEW r \in Requests, Start(e, r)
  PROVE  AnswerOf(e)'
<1>1. /\ pc[e] = "idle" /\ result[e].is = "none" /\ req'[e] = r
      /\ before'[e] = {p \in Paths : files[p] # NoFile}
  BY DEF Start, AnswerOf, AnswerIsLast, IInv, TypeOK
<1>2. CASE Rejected(r) # "ok"
  <2>1. Fail(e, Rejected(r)) /\ Rejected(r) \in Errors
    BY <1>2 DEF Start, Rejected, Errors
  <2>2. pc'[e] = "reply" /\ result'[e].is # "ok"
    BY <2>1 DEF Fail, Answer, Goto, IInv, TypeOK, Errors
  <2> QED
    BY <2>2 DEF AnswerOf, AnswerIsLast, WalkIsWhole, ListIsWhole, ReadIsRight, Answered
<1>3. CASE Rejected(r) = "ok"
  <2>1. result'[e].is = "none" /\ todo'[e] = Sought(r) \X Listing(r)
    BY <1>1, <1>3 DEF Start, IInv, TypeOK
  <2>2. Unfiltered(r) => \A p \in before'[e] : <<None, p>> \in todo'[e]
    BY <1>1, <2>1 DEF Unfiltered, Sought, Listing
  <2> QED
    BY <1>1, <2>1, <2>2 DEF AnswerOf, AnswerIsLast, WalkIsWhole, ListIsWhole, ReadIsRight,
       Answered
<1> QED
  BY <1>2, <1>3

\* A walk drops no file it has read that an unfiltered listing shows.
LEMMA WalkAnswers ==
  ASSUME IInv, NEW e \in Calls, SeenStays(e), AnswerOf(e),
         NEW i \in Ids \cup {None}, NEW p \in Paths, WalkFile(e, i, p)
  PROVE  AnswerOf(e)'
<1>1. /\ pc[e] = "walk" /\ pc' = pc /\ req' = req /\ result' = result /\ before' = before
      /\ todo'[e] = todo[e] \ {<<i, p>>} /\ found[e] \subseteq found'[e]
      /\ Matches(req[e], i, files[p]) => <<i, p>> \in found'[e]
  BY DEF WalkFile, IInv, TypeOK
<1>2. ASSUME Unfiltered(req[e]), NEW q \in before[e]
      PROVE  <<None, q>> \in todo'[e] \cup found'[e]
  <2>1. <<None, q>> \in todo[e] \cup found[e] /\ files[q] # NoFile /\ q \in Paths
    BY <1>1, <1>2 DEF AnswerOf, WalkIsWhole, SeenStays, IInv, TypeOK
  <2>2. CASE <<None, q>> = <<i, p>>
    <3>1. q = p /\ i = None /\ files[p] \in Docs \cup {Malformed}
      BY <2>1, <2>2 DEF IInv, TypeOK
    <3>2. Matches(req[e], i, files[p])
      BY <1>2, <3>1 DEF Unfiltered, Matches, Shown
    <3> QED
      BY <1>1, <3>1, <3>2
  <2>3. CASE <<None, q>> # <<i, p>>
    BY <1>1, <2>1, <2>3
  <2> QED
    BY <2>2, <2>3
<1> QED
  BY <1>1, <1>2 DEF AnswerOf, AnswerIsLast, WalkIsWhole, ListIsWhole, ReadIsRight, Answered,
     KeyOf

\* A listing answers with all its walk matched.
LEMMA ListAnswers ==
  ASSUME IInv, NEW e \in Calls, AnswerOf(e), ListDone(e)
  PROVE  AnswerOf(e)'
<1>1. /\ pc[e] = "walk" /\ todo[e] = {} /\ req' = req /\ before' = before
      /\ req[e].op = "list_proposals" /\ pc'[e] = "reply"
      /\ result'[e].is = "ok" /\ result'[e].paths = WalkedTo(e, None)
  BY DEF ListDone, WalkOver, Answer, Goto, IInv, TypeOK
<1>2. Unfiltered(req[e]) => before[e] \subseteq WalkedTo(e, None)
  BY <1>1 DEF AnswerOf, WalkIsWhole, WalkedTo, IInv, TypeOK
<1> QED
  BY <1>1, <1>2 DEF AnswerOf, AnswerIsLast, WalkIsWhole, ListIsWhole, ReadIsRight, Answered,
     Unfiltered

\* A read answers with what lies at a path whose name folds to the key asked.
LEMMA ReadAnswers ==
  ASSUME RoutedInv, NEW e \in Calls, AnswerOf(e), Reread(e)
  PROVE  AnswerOf(e)'
<1> DEFINE p == PathOf(e, req[e].id)
<1>1. /\ pc[e] = "reread" /\ req' = req /\ pc'[e] = "reply"
      /\ req[e].op = "read_proposal" /\ req[e] \in AllRequests
  BY DEF Reread, Fail, Answer, Goto, RoutedInv, IInv, TypeOK, Control, ControlOf
<1>2. req[e].id \in Ids /\ WalkedTo(e, req[e].id) # {}
  BY <1>1, RequestShape DEF RoutedInv, IInv, Control, ControlOf, Sought
<1>3. p \in Paths /\ <<req[e].id, p>> \in found[e]
  BY <1>2, PathOfFound
<1>4. Fold[p.name] = Fold[req[e].id]
  BY <1>1, <1>2, <1>3 DEF RoutedInv, FoundFits
<1>5. result'[e].is = "ok" => files[p] \in Docs /\ result'[e].doc = files[p]
  <2>1. CASE files[p] \in Docs
    BY <2>1 DEF Reread, Answer, RoutedInv, IInv, TypeOK
  <2>2. CASE files[p] \notin Docs
    BY <2>2 DEF Reread, Fail, Answer, RoutedInv, IInv, TypeOK
  <2> QED
    BY <2>1, <2>2
<1>6. result'[e].is = "ok" => KeyOf(result'[e].doc) = Fold[req[e].id]
  BY <1>3, <1>4, <1>5 DEF RoutedInv, RoutedByKind, Held
<1> HIDE DEF p
<1> QED
  BY <1>1, <1>6 DEF AnswerOf, AnswerIsLast, WalkIsWhole, ListIsWhole, ReadIsRight, Answered,
     KeyOf

\* No other step of a call answers a read or a listing with a success.
LEMMA WriteAnswers ==
  ASSUME IInv, NEW e \in Calls, AnswerOf(e),
         \/ LookupFails(e) \/ LookupSucceeds(e) \/ Refuse(e) \/ Enter(e) \/ WriteTmp(e)
         \/ Rename(e) \/ Reply(e) \/ CommitFails(e) \/ ReadFails(e)
  PROVE  AnswerOf(e)'
<1>1. /\ req' = req /\ before' = before /\ pc'[e] # "walk" /\ pc[e] # "idle"
      /\ result'[e].is # "none" => pc'[e] \in {"reply", "done", "lost"}
      /\ \/ result'[e] = result[e]
         \/ result'[e].is # "ok"
         \/ pc[e] = "rename"
  <2>1. CASE LookupFails(e)
    BY <2>1 DEF LookupFails, WalkOver, Lookup, Fail, Answer, Goto, IInv, TypeOK, AnswerOf,
       AnswerIsLast
  <2>2. CASE LookupSucceeds(e)
    BY <2>2 DEF LookupSucceeds, WalkOver, Goto, IInv, TypeOK, AnswerOf, AnswerIsLast
  <2>3. CASE Refuse(e)
    BY <2>3 DEF Refuse, Fail, Answer, Goto, IInv, TypeOK, AnswerOf, AnswerIsLast
  <2>4. CASE Enter(e) \/ WriteTmp(e) \/ Reply(e)
    BY <2>4 DEF Enter, WriteTmp, Reply, Goto, IInv, TypeOK, AnswerOf, AnswerIsLast
  <2>5. CASE Rename(e)
    BY <2>5 DEF Rename, Answer, Goto, IInv, TypeOK, AnswerOf, AnswerIsLast
  <2>6. CASE CommitFails(e) \/ ReadFails(e)
    BY <2>6 DEF CommitFails, ReadFails, Fail, Answer, Goto, IInv, TypeOK, AnswerOf, AnswerIsLast
  <2> QED
    BY <2>1, <2>2, <2>3, <2>4, <2>5, <2>6
<1>2. pc[e] = "rename" => req[e].op \in Mutators
  BY DEF IInv, Control, ControlOf, Writing
<1> QED
  BY <1>1, <1>2 DEF AnswerOf, AnswerIsLast, WalkIsWhole, ListIsWhole, ReadIsRight, Answered,
     KeyOf, Mutators

\* Every step leaves every answer a right one.
LEMMA NextAnswers == AnswersInv /\ [Next]_vars => AnswersInv'
<1> SUFFICES ASSUME AnswersInv, [Next]_vars PROVE AnswersInv'
  OBVIOUS
<1>1. RoutedInv /\ RoutedInv' /\ IInv /\ FoundFits
  BY NextRouted DEF AnswersInv, RoutedInv
<1>2. ASSUME NEW e \in Calls PROVE SeenStays(e)' /\ AnswerOf(e)'
  <2>1. SeenStays(e) /\ AnswerOf(e)
    BY DEF AnswersInv
  <2>2. SeenStays(e)'
    BY <1>1, <2>1, NextSeen
  <2>3. CASE \E r \in Requests : Start(e, r)
    BY <1>1, <2>1, <2>2, <2>3, StartAnswers
  <2>4. CASE CallStep(e) \/ CommitFails(e) \/ ReadFails(e)
    BY <1>1, <2>1, <2>2, <2>4, WalkAnswers, ListAnswers, ReadAnswers, WriteAnswers DEF CallStep
  <2>5. CASE Keeps(e)
    BY <2>1, <2>2, <2>5, KeepsAnswer
  <2>6. \/ \E r \in Requests : Start(e, r)
        \/ CallStep(e) \/ CommitFails(e) \/ ReadFails(e)
        \/ Keeps(e)
    BY <1>1, OthersKeep, AllKeep DEF Next
  <2> QED
    BY <2>3, <2>4, <2>5, <2>6
<1> QED
  BY <1>1, <1>2 DEF AnswersInv

\* Nothing is asked or answered at first.
LEMMA InitAnswers ==
  ASSUME \A f \in Notebooks : NotebookIsRouted(f)
  PROVE  Init => AnswersInv
<1> SUFFICES ASSUME Init PROVE AnswersInv
  OBVIOUS
<1>1. RoutedInv
  BY InitRouted
<1>2. \A e \in Calls : pc[e] = "idle" /\ result[e].is = "none"
  BY DEF Init, Nothing
<1> QED
  BY <1>1, <1>2 DEF AnswersInv, SeenStays, AnswerOf, AnswerIsLast, WalkIsWhole, ListIsWhole,
     ReadIsRight, Answered

\* What read_proposal returns has the id asked for, although the file is read
\* a second time after any number of other writes (tools.py:411-428).
THEOREM ReadAlwaysReturnsTheIdAsked ==
  ASSUME \A f \in Notebooks : NotebookIsRouted(f)
  PROVE  Spec => []ReadReturnsTheIdAsked
<1>1. AnswersInv => ReadReturnsTheIdAsked
  BY DEF AnswersInv, AnswerOf, ReadIsRight, ReadReturnsTheIdAsked
<1> QED
  BY <1>1, InitAnswers, NextAnswers, PTL DEF Spec

\* An unfiltered listing shows every file that was there when it started,
\* whatever was written, broken or lost meanwhile (tools.py:467-492).
THEOREM ListNeverMissesAnything ==
  ASSUME \A f \in Notebooks : NotebookIsRouted(f)
  PROVE  Spec => []ListMissesNothing
<1>1. AnswersInv => ListMissesNothing
  BY DEF AnswersInv, AnswerOf, ListIsWhole, ListMissesNothing
<1> QED
  BY <1>1, InitAnswers, NextAnswers, PTL DEF Spec

-----------------------------------------------------------------------------
(* What the storage leaves behind.                                         *)

\* Only a rename or an editor changes a file, and a rename lands what the
\* owner of the mutex planned.
LEMMA LandsWhatWasPlanned ==
  ASSUME IInv, [Next]_vars, NEW p \in Paths, files'[p] # files[p]
  PROVE  \/ Edit(p)
         \/ \E c \in Calls :
              /\ lock = c /\ work[c] # <<>>
              /\ Head(work[c]) = [path |-> p, doc |-> files'[p]]
<1>1. ASSUME NEW c \in Calls, Rename(c)
      PROVE  /\ lock = c /\ work[c] # <<>>
             /\ Head(work[c]) = [path |-> p, doc |-> files'[p]]
  <2>1. /\ Head(work[c]) \in Commits
        /\ files' = [files EXCEPT ![Head(work[c]).path] = Head(work[c]).doc]
    BY <1>1, RenameLands
  <2>2. p = Head(work[c]).path /\ files'[p] = Head(work[c]).doc
    BY <2>1 DEF IInv, TypeOK, Commits
  <2>3. lock = c /\ work[c] # <<>>
    BY <1>1 DEF Rename, IInv, Owner, OwnerOf, Writing
  <2> QED
    BY <2>1, <2>2, <2>3 DEF Commits
<1>2. ASSUME NEW q \in Paths, Edit(q)
      PROVE  Edit(p)
  BY <1>2 DEF Edit, IInv, TypeOK
<1> QED
  BY <1>1, <1>2, FilesChangeBy

\* Whatever failed writes, failed clean-ups and crashes leave in the .tmp
\* siblings, a file only ever takes on a whole text planned inside the mutex
\* (markdown.py:106-116).
THEOREM LeftoversAreNeverRenamed == Spec => LeftoversNeverLand
<1> DEFINE A == \A p \in Paths : files'[p] # files[p] =>
                  \/ Edit(p)
                  \/ \E c \in Calls :
                       /\ lock = c /\ work[c] # <<>>
                       /\ Head(work[c]) = [path |-> p, doc |-> files'[p]]
<1>1. IInv /\ [Next]_vars => A
  BY LandsWhatWasPlanned
<1>2. Spec => [][A]_vars
  <2> HIDE DEF A
  <2> QED
    BY <1>1, InitIInv, NextIInv, PTL DEF Spec
<1> QED
  BY <1>2 DEF LeftoversNeverLand

-----------------------------------------------------------------------------
(* What lookups and creates answer while nobody edits the files by hand.   *)

WholeFiles == \A p \in Paths : files[p] \in Docs \cup {NoFile}

IsCreate(r) == r.op = "write_proposal" /\ r.mode = "create"

\* A walk has still to read, or has matched, what there was for its ids; what
\* it reported missing was not there.
MissingFits(c) ==
  /\ pc[c] = "walk" /\ req[c].op # "list_proposals" =>
       \A i \in Sought(req[c]), p \in before[c] :
         Fold[p.name] = Fold[i] => <<i, p>> \in todo[c] \cup found[c]
  /\ result[c].is = "not_found" /\ req[c].op # "write_proposal" =>
       \E i \in Sought(req[c]) : \A p \in before[c] : Fold[p.name] # Fold[i]

\* A create that is in its critical section writes an id that is not there, and
\* leaves it there.
CreateFits(c) ==
  /\ pc[c] \in Writing /\ IsCreate(req[c]) =>
       /\ Holders(KeyOf(req[c].doc)) = {}
       /\ work[c] = <<[path |-> Target(req[c].doc), doc |-> req[c].doc]>>
  /\ Created(c) => Holders(KeyOf(req[c].doc)) # {}

NotAmbiguous(c) == result[c].is # "ambiguous_id"

SureInv ==
  /\ AnswersInv /\ UniqueInv /\ WholeFiles /\ OneCreateWins
  /\ \A c \in Calls : MissingFits(c) /\ CreateFits(c) /\ NotAmbiguous(c)

\* No step of a tool leaves a file that does not parse.
LEMMA NextWhole ==
  ASSUME IInv, WholeFiles, [Next]_vars, "edit" \notin Adversity
  PROVE  WholeFiles'
<1>1. ASSUME NEW c \in Calls, Rename(c) PROVE WholeFiles'
  BY <1>1, RenameLands DEF WholeFiles, IInv, TypeOK, Commits
<1>2. ~\E p \in Paths : Edit(p)
  BY DEF Edit, Fault
<1>3. CASE files' = files
  BY <1>3 DEF WholeFiles
<1> QED
  BY <1>1, <1>2, <1>3, FilesChangeBy

\* The proposals of a key are the files whose name folds to it.
LEMMA HoldersByName ==
  ASSUME RoutedByKind, WholeFiles, NEW k
  PROVE  Holders(k) = {p \in Paths : files[p] # NoFile /\ Fold[p.name] = k}
BY ConstantsHold DEF RoutedByKind, WholeFiles, Holders, Held, Constants

\* So an id that is there stays there.
LEMMA HeldStays ==
  ASSUME RoutedInv, WholeFiles, [Next]_vars, "edit" \notin Adversity,
         NEW p \in Paths, files[p] \in Docs
  PROVE  files'[p] \in Docs /\ KeyOf(files'[p]) = KeyOf(files[p])
<1>1. IInv /\ RoutedByKind /\ RoutedByKind' /\ WholeFiles'
  BY NextRouted, NextWhole DEF RoutedInv
<1>2. files'[p] # NoFile
  BY <1>1, FilesStay, ConstantsHold DEF Constants
<1> QED
  BY <1>1, <1>2 DEF WholeFiles, RoutedByKind, Held, KeyOf

\* What a walk for an id matched is a proposal with that id.
LEMMA WalkedHolds ==
  ASSUME AnswersInv, WholeFiles, NEW c \in Calls, pc[c] # "idle",
         req[c].op # "list_proposals", NEW i \in Ids
  PROVE  WalkedTo(c, i) \subseteq Holders(Fold[i])
<1>1. RoutedByKind
  BY DEF AnswersInv, RoutedInv
<1>2. \A p \in WalkedTo(c, i) : p \in Paths /\ files[p] # NoFile /\ Fold[p.name] = Fold[i]
  BY DEF AnswersInv, RoutedInv, FoundFits, SeenStays, WalkedTo
<1> QED
  BY <1>1, <1>2, HoldersByName

\* A lookup is for ids.
LEMMA LookupIds ==
  ASSUME NEW r \in AllRequests, r.op # "list_proposals"
  PROVE  Sought(r) \subseteq Ids
BY RequestShape DEF Sought

\* With one file per id a walk never matches two.
LEMMA LookupIsSure ==
  ASSUME AnswersInv, UniqueIds, WholeFiles, NEW c \in Calls, pc[c] = "walk",
         req[c].op # "list_proposals"
  PROVE  Lookup(c) # "ambiguous_id"
<1>1. req[c] \in AllRequests
  BY DEF AnswersInv, RoutedInv, IInv, Control, ControlOf
<1>2. Sought(req[c]) \subseteq Ids
  BY <1>1, LookupIds
<1>3. ASSUME NEW i \in Sought(req[c]), WalkedTo(c, i) # {}
      PROVE  ~(Cardinality(WalkedTo(c, i)) > 1)
  <2>1. i \in Ids /\ WalkedTo(c, i) \subseteq Holders(Fold[i])
    BY <1>2, WalkedHolds
  <2>2. PICK p \in WalkedTo(c, i) : TRUE
    BY <1>3
  <2>3. WalkedTo(c, i) = {p}
    BY <2>1, <2>2, UniqueHolder
  <2>4. Cardinality(WalkedTo(c, i)) = 1
    BY <2>3, FS_Singleton
  <2> QED
    BY <2>4
<1>4. \A i \in Sought(req[c]) :
        WalkedTo(c, i) = {} \/ ~(Cardinality(WalkedTo(c, i)) > 1)
  BY <1>3
<1> QED
  BY <1>4 DEF Lookup

\* A call that does nothing keeps what it is sure of.
LEMMA KeepsMissing ==
  ASSUME NEW e \in Calls, MissingFits(e), NotAmbiguous(e), Keeps(e)
  PROVE  MissingFits(e)' /\ NotAmbiguous(e)'
BY DEF MissingFits, NotAmbiguous, Keeps, Sought

\* A call that starts is to walk over all there is for its ids.
LEMMA StartMissing ==
  ASSUME IInv, NEW e \in Calls, MissingFits(e), NotAmbiguous(e), AnswerIsLast(e),
         NEW r \in Requests, Start(e, r)
  PROVE  MissingFits(e)' /\ NotAmbiguous(e)'
<1>1. /\ pc[e] = "idle" /\ result[e].is = "none" /\ req'[e] = r
      /\ before'[e] = {p \in Paths : files[p] # NoFile}
  BY DEF Start, AnswerIsLast, IInv, TypeOK
<1>2. CASE Rejected(r) # "ok"
  <2>1. Fail(e, Rejected(r)) /\ Rejected(r) \notin {"not_found", "ambiguous_id"}
    BY <1>2 DEF Start, Rejected
  <2>2. pc'[e] = "reply" /\ result'[e].is \notin {"not_found", "ambiguous_id"}
    BY <2>1 DEF Fail, Answer, Goto, IInv, TypeOK
  <2> QED
    BY <2>2 DEF MissingFits, NotAmbiguous
<1>3. CASE Rejected(r) = "ok"
  <2>1. result'[e].is = "none" /\ todo'[e] = Sought(r) \X Listing(r)
    BY <1>1, <1>3 DEF Start, IInv, TypeOK
  <2>2. r.op # "list_proposals" =>
          \A i \in Sought(r), p \in before'[e] : <<i, p>> \in todo'[e]
    BY <1>1, <2>1 DEF Listing
  <2>3. Sought(req[e])' = Sought(r)
    BY <1>1 DEF Sought
  <2> QED
    BY <1>1, <2>1, <2>2, <2>3 DEF MissingFits, NotAmbiguous
<1> QED
  BY <1>2, <1>3

\* A walk passes over no file that holds an id it is for.
LEMMA WalkMissing ==
  ASSUME RoutedInv, WholeFiles, NEW e \in Calls, SeenStays(e), MissingFits(e),
         NotAmbiguous(e), NEW i \in Ids \cup {None}, NEW p \in Paths, WalkFile(e, i, p)
  PROVE  MissingFits(e)' /\ NotAmbiguous(e)'
<1>1. /\ pc[e] = "walk" /\ pc' = pc /\ req' = req /\ result' = result /\ before' = before
      /\ todo'[e] = todo[e] \ {<<i, p>>} /\ found[e] \subseteq found'[e]
      /\ Matches(req[e], i, files[p]) => <<i, p>> \in found'[e]
  BY DEF WalkFile, RoutedInv, IInv, TypeOK
<1>2. ASSUME req[e].op # "list_proposals", NEW j \in Sought(req[e]), NEW q \in before[e],
             Fold[q.name] = Fold[j]
      PROVE  <<j, q>> \in todo'[e] \cup found'[e]
  <2>1. <<j, q>> \in todo[e] \cup found[e] /\ files[q] # NoFile /\ q \in Paths
    BY <1>1, <1>2 DEF MissingFits, SeenStays, RoutedInv, IInv, TypeOK
  <2>2. CASE j = i /\ q = p
    <3>1. files[q] \in Docs /\ KeyOf(files[q]) = Fold[q.name]
      BY <2>1 DEF WholeFiles, RoutedInv, RoutedByKind, Held
    <3>2. Matches(req[e], i, files[p])
      BY <1>2, <2>2, <3>1 DEF Matches, IdMatches
    <3> QED
      BY <1>1, <2>2, <3>2
  <2>3. CASE j # i \/ q # p
    BY <1>1, <2>1, <2>3
  <2> QED
    BY <2>2, <2>3
<1>3. Sought(req[e])' = Sought(req[e])
  BY <1>1 DEF Sought
<1> QED
  BY <1>1, <1>2, <1>3 DEF MissingFits, NotAmbiguous

\* A lookup that fails reports an id that was not there.
LEMMA LookupMissing ==
  ASSUME AnswersInv, UniqueIds, WholeFiles, NEW e \in Calls, MissingFits(e), LookupFails(e)
  PROVE  MissingFits(e)' /\ NotAmbiguous(e)'
<1>1. /\ pc[e] = "walk" /\ todo[e] = {} /\ req[e].op # "list_proposals"
      /\ req' = req /\ before' = before
      /\ result'[e].is = Lookup(e) /\ pc'[e] = "reply"
  BY DEF LookupFails, WalkOver, Fail, Answer, Goto, AnswersInv, RoutedInv, IInv, TypeOK
<1>2. Lookup(e) # "ambiguous_id"
  BY <1>1, LookupIsSure
<1>3. ASSUME Lookup(e) = "not_found"
      PROVE  \E i \in Sought(req[e]) : \A p \in before[e] : Fold[p.name] # Fold[i]
  <2>1. PICK i \in Sought(req[e]) : WalkedTo(e, i) = {}
    BY <1>3 DEF Lookup
  <2>2. before[e] \subseteq Paths
    BY DEF AnswersInv, RoutedInv, IInv, TypeOK
  <2>3. \A p \in before[e] : Fold[p.name] # Fold[i]
    BY <1>1, <2>1, <2>2 DEF MissingFits, WalkedTo
  <2> QED
    BY <2>3
<1>4. Sought(req[e])' = Sought(req[e])
  BY <1>1 DEF Sought
<1> QED
  BY <1>1, <1>2, <1>3, <1>4 DEF MissingFits, NotAmbiguous

\* No other step of a call reports a missing or an ambiguous id.
LEMMA OtherMissing ==
  ASSUME IInv, NEW e \in Calls, MissingFits(e), NotAmbiguous(e),
         \/ LookupSucceeds(e) \/ ListDone(e) \/ Reread(e) \/ Refuse(e) \/ Enter(e)
         \/ WriteTmp(e) \/ Rename(e) \/ Reply(e) \/ CommitFails(e) \/ ReadFails(e)
  PROVE  MissingFits(e)' /\ NotAmbiguous(e)'
<1>1. /\ req' = req /\ before' = before /\ pc'[e] # "walk"
      /\ \/ result'[e] = result[e]
         \/ result'[e].is \notin {"not_found", "ambiguous_id"}
         \/ result'[e].is = "not_found" /\ req[e].op = "write_proposal"
  <2>1. CASE LookupSucceeds(e) \/ ListDone(e) \/ Reread(e)
    BY <2>1 DEF LookupSucceeds, ListDone, Reread, Fail, Answer, Goto, IInv, TypeOK
  <2>2. CASE Refuse(e)
    <3>1. Fail(e, Verdict(e, req[e])) /\ req' = req /\ before' = before
      BY <2>2 DEF Refuse
    <3>2. \/ Verdict(e, req[e]) \notin {"not_found", "ambiguous_id"}
          \/ Verdict(e, req[e]) = "not_found" /\ req[e].op = "write_proposal"
      BY DEF Verdict, WriteError
    <3> QED
      BY <3>1, <3>2 DEF Fail, Answer, Goto, IInv, TypeOK
  <2>3. CASE Enter(e) \/ WriteTmp(e) \/ Reply(e)
    BY <2>3 DEF Enter, WriteTmp, Reply, Goto, IInv, TypeOK
  <2>4. CASE Rename(e)
    BY <2>4 DEF Rename, Answer, Goto, IInv, TypeOK
  <2>5. CASE CommitFails(e) \/ ReadFails(e)
    BY <2>5 DEF CommitFails, ReadFails, Fail, Answer, Goto, IInv, TypeOK
  <2> QED
    BY <2>1, <2>2, <2>3, <2>4, <2>5
<1>2. Sought(req[e])' = Sought(req[e])
  BY <1>1 DEF Sought
<1> QED
  BY <1>1, <1>2 DEF MissingFits, NotAmbiguous

\* Every step of every call leaves lookups sure.
LEMMA NextMissing ==
  ASSUME SureInv, [Next]_vars, NEW e \in Calls
  PROVE  MissingFits(e)' /\ NotAmbiguous(e)'
<1>1. /\ AnswersInv /\ RoutedInv /\ IInv /\ UniqueIds /\ WholeFiles
      /\ MissingFits(e) /\ NotAmbiguous(e) /\ SeenStays(e) /\ AnswerIsLast(e)
  BY DEF SureInv, AnswersInv, AnswerOf, RoutedInv, UniqueInv
<1>2. CASE \E r \in Requests : Start(e, r)
  BY <1>1, <1>2, StartMissing
<1>3. CASE CallStep(e) \/ CommitFails(e) \/ ReadFails(e)
  BY <1>1, <1>3, WalkMissing, LookupMissing, OtherMissing DEF CallStep
<1>4. CASE Keeps(e)
  BY <1>1, <1>4, KeepsMissing
<1> QED
  BY <1>1, <1>2, <1>3, <1>4, OthersKeep, AllKeep DEF Next

\* Only the rename of its file makes a create a success.
LEMMA CreatedBy ==
  ASSUME IInv, [Next]_vars, NEW e \in Calls, AnswerIsLast(e), Created(e)', ~Created(e)
  PROVE  Rename(e) /\ IsCreate(req[e]) /\ req' = req
<1>1. /\ req'[e] # None /\ req'[e].op = "write_proposal" /\ req'[e].mode = "create"
      /\ result'[e].is = "ok"
  BY DEF Created, Answered
<1>2. ~Keeps(e)
  BY <1>1 DEF Keeps, Created, Answered
<1>3. ASSUME NEW r \in Requests, Start(e, r) PROVE FALSE
  <2>1. result[e].is = "none"
    BY <1>3 DEF Start, AnswerIsLast
  <2>2. Rejected(r) # "ok" => result'[e].is # "ok"
    BY <1>3 DEF Start, Fail, Answer, IInv, TypeOK
  <2> QED
    BY <1>1, <1>3, <2>1, <2>2 DEF Start
<1>4. CASE CommitFails(e) \/ ReadFails(e)
  BY <1>1, <1>4 DEF CommitFails, ReadFails, Fail, Answer, IInv, TypeOK
<1>5. CASE CallStep(e)
  <2>1. req' = req
    BY <1>5 DEF CallStep, WalkFile, LookupFails, LookupSucceeds, ListDone, Reread, Refuse,
       Enter, WriteTmp, Rename, Reply
  <2>2. result'[e] # result[e] /\ req[e].op = "write_proposal"
    BY <1>1, <2>1 DEF Created, Answered
  <2>3. CASE LookupFails(e)
    BY <1>1, <2>3 DEF LookupFails, Lookup, Fail, Answer, IInv, TypeOK
  <2>4. CASE ListDone(e) \/ Reread(e)
    BY <2>2, <2>4 DEF ListDone, Reread, IInv, Control, ControlOf
  <2>5. CASE Refuse(e)
    BY <1>1, <2>5 DEF Refuse, Fail, Answer, IInv, TypeOK
  <2>6. Rename(e)
    BY <1>5, <2>2, <2>3, <2>4, <2>5 DEF CallStep, WalkFile, LookupSucceeds, Enter, WriteTmp,
       Reply
  <2> QED
    BY <1>1, <2>1, <2>6 DEF IsCreate
<1> QED
  BY <1>2, <1>3, <1>4, <1>5, OthersKeep, AllKeep DEF Next

\* While a call is in its critical section only its own commits land, and no
\* other call enters.
LEMMA OnlyOwnerLands ==
  ASSUME IInv, NEW e \in Calls, pc[e] \in Writing, NEW c \in Calls, Rename(c) \/ Enter(c)
  PROVE  c = e /\ Rename(e)
BY ConstantsHold DEF IInv, Owner, OwnerOf, Rename, Enter, MutexFree, Writing, Constants

\* A create that enters its critical section has an id that is not there.
LEMMA EnterCreates ==
  ASSUME IInv, NEW e \in Calls, Enter(e), IsCreate(req[e])
  PROVE  /\ Holders(KeyOf(req[e].doc)) = {}
         /\ work'[e] = <<[path |-> Target(req[e].doc), doc |-> req[e].doc]>>
         /\ files' = files /\ req' = req
<1> DEFINE r == req[e]
<1>1. /\ pc[e] = "queued" /\ Verdict(e, r) = "ok" /\ files' = files /\ req' = req
      /\ work'[e] = Plan(e, r)
  BY DEF Enter, disk, IInv, TypeOK
<1>2. WriteError(r) = "ok" /\ Plan(e, r) = WritePlan(r)
  BY <1>1 DEF IsCreate, Verdict, Plan
<1>3. Holders(KeyOf(r.doc)) = {}
  BY <1>2 DEF IsCreate, WriteError, Here, Elsewhere
<1>4. WritePlan(r) = <<[path |-> Target(r.doc), doc |-> r.doc]>>
  BY DEF IsCreate, WritePlan
<1> QED
  BY <1>1, <1>2, <1>3, <1>4

\* A create stays alone with its id until it lands, and its id stays after.
LEMMA NextCreates ==
  ASSUME SureInv, [Next]_vars, "edit" \notin Adversity, NEW e \in Calls
  PROVE  CreateFits(e)'
<1>1. /\ IInv /\ RoutedInv /\ WholeFiles /\ CreateFits(e) /\ AnswerIsLast(e)
  BY DEF SureInv, AnswersInv, AnswerOf, RoutedInv
<1>2. ASSUME pc'[e] \in Writing, IsCreate(req'[e])
      PROVE  /\ req' = req \/ req'[e] = req[e]
             /\ files' = files
             /\ Holders(KeyOf(req[e].doc)) = {}
             /\ work'[e] = <<[path |-> Target(req[e].doc), doc |-> req[e].doc]>>
  <2>1. pc[e] # "idle"
    <3>1. ASSUME NEW r \in Requests, Start(e, r) PROVE pc'[e] \notin Writing
      BY <1>1, <3>1 DEF Start, Fail, Answer, Goto, Writing, IInv, TypeOK
    <3> QED
      BY <1>1, <1>2, <3>1, OnlyStartStarts DEF Writing
  <2>2. req'[e] = req[e]
    BY <1>1, <2>1, StartedStays
  <2>3. CASE pc[e] \notin Writing
    <3>1. ~Keeps(e) /\ ~(\E r \in Requests : Start(e, r))
      BY <1>2, <2>1, <2>3 DEF Keeps, Writing, Start
    <3>2. CallStep(e) \/ CommitFails(e) \/ ReadFails(e)
      BY <1>1, <3>1, OthersKeep, AllKeep DEF Next
    <3>3. Enter(e)
      BY <1>1, <1>2, <2>3, <3>2 DEF CallStep, CommitFails, ReadFails, WalkFile, LookupFails,
         LookupSucceeds, ListDone, Reread, Refuse, WriteTmp, Rename, Reply, Fail, Answer,
         Goto, Writing, IInv, TypeOK
    <3> QED
      BY <1>1, <1>2, <2>2, <3>3, EnterCreates
  <2>4. CASE pc[e] \in Writing
    <3>1. /\ Holders(KeyOf(req[e].doc)) = {}
          /\ work[e] = <<[path |-> Target(req[e].doc), doc |-> req[e].doc]>>
      BY <1>1, <1>2, <2>2, <2>4 DEF CreateFits
    <3>2. ~Rename(e)
      <4> SUFFICES ASSUME Rename(e) PROVE FALSE
        OBVIOUS
      <4>1. Len(work[e]) = 1
        BY <3>1
      <4>2. pc' = [pc EXCEPT ![e] = IF Len(work[e]) > 1 THEN "tmp" ELSE "reply"]
        BY DEF Rename, Answer, Goto
      <4> QED
        BY <1>1, <1>2, <4>1, <4>2 DEF Writing, IInv, TypeOK
    <3>3. files' = files
      <4>1. ~\E p \in Paths : Edit(p)
        BY DEF Edit, Fault
      <4> QED
        BY <1>1, <2>4, <3>2, <4>1, FilesChangeBy, OnlyOwnerLands
    <3>4. work'[e] = work[e]
      <4>1. work'[e] # <<>>
        BY <1>1, <1>2, NextIInv DEF IInv, Owner, OwnerOf
      <4> QED
        BY <1>1, <2>4, <3>2, <4>1, WorkChangesBy, OnlyOwnerLands
    <3> QED
      BY <2>2, <3>1, <3>3, <3>4
  <2> QED
    BY <2>3, <2>4
<1>3. ASSUME Created(e)'
      PROVE  \E p \in Paths : files'[p] \in Docs /\ KeyOf(files'[p]) = KeyOf(req'[e].doc)
  <2>1. CASE Created(e)
    <3>1. pc[e] # "idle"
      BY <1>1, <2>1 DEF AnswerIsLast, Created, Answered
    <3>2. req'[e] = req[e]
      BY <1>1, <3>1, StartedStays
    <3>3. PICK p \in Paths : files[p] \in Docs /\ KeyOf(files[p]) = KeyOf(req[e].doc)
      BY <1>1, <2>1 DEF CreateFits, Holders, Held
    <3>4. files'[p] \in Docs /\ KeyOf(files'[p]) = KeyOf(files[p])
      BY <1>1, <3>3, HeldStays
    <3> QED
      BY <3>2, <3>3, <3>4
  <2>2. CASE ~Created(e)
    <3>1. Rename(e) /\ IsCreate(req[e]) /\ req' = req
      BY <1>1, <1>3, <2>2, CreatedBy
    <3>2. work[e] = <<[path |-> Target(req[e].doc), doc |-> req[e].doc]>>
      BY <1>1, <3>1 DEF CreateFits, Rename, Writing
    <3>3. Head(work[e]).path = Target(req[e].doc) /\ Head(work[e]).doc = req[e].doc
      BY <3>2
    <3>4. /\ files' = [files EXCEPT ![Target(req[e].doc)] = req[e].doc]
          /\ Target(req[e].doc) \in Paths /\ req[e].doc \in Docs
      BY <1>1, <3>1, <3>3, RenameLands DEF Commits
    <3>5. files'[Target(req[e].doc)] = req[e].doc
      BY <1>1, <3>4 DEF IInv, TypeOK
    <3> QED
      BY <3>1, <3>4, <3>5
  <2> QED
    BY <2>1, <2>2
<1>4. ASSUME pc'[e] \in Writing, IsCreate(req'[e])
      PROVE  /\ \A p \in Paths : ~(files'[p] \in Docs /\ KeyOf(files'[p]) = KeyOf(req'[e].doc))
             /\ work'[e] = <<[path |-> Target(req'[e].doc), doc |-> req'[e].doc]>>
  <2>1. /\ req'[e] = req[e] /\ files' = files /\ Holders(KeyOf(req[e].doc)) = {}
        /\ work'[e] = <<[path |-> Target(req[e].doc), doc |-> req[e].doc]>>
    BY <1>2, <1>4
  <2> QED
    BY <2>1 DEF Holders, Held
<1> QED
  BY <1>3, <1>4 DEF CreateFits, IsCreate, Holders, Held, KeyOf, Target, Route

\* Two creates of one id are never both answered with a success.
LEMMA NextOneWins ==
  ASSUME SureInv, [Next]_vars
  PROVE  OneCreateWins'
<1>1. IInv /\ OneCreateWins /\ \A e \in Calls : CreateFits(e) /\ AnswerIsLast(e)
  BY DEF SureInv, AnswersInv, AnswerOf, RoutedInv
<1>2. ASSUME NEW c \in Calls, NEW e \in Calls, Created(c)', ~Created(c), Created(e)', c # e
      PROVE  KeyOf(req'[c].doc) # KeyOf(req'[e].doc)
  <2>1. Rename(c) /\ IsCreate(req[c]) /\ req' = req
    BY <1>1, <1>2, CreatedBy
  <2>2. Holders(KeyOf(req[c].doc)) = {}
    BY <1>1, <2>1 DEF CreateFits, Rename, Writing
  <2>3. Created(e)
    <3>1. Keeps(e)
      BY <1>1, <1>2, <2>1, OthersKeep DEF CallStep
    <3> QED
      BY <1>2, <3>1 DEF Keeps, Created, Answered
  <2>4. Holders(KeyOf(req[e].doc)) # {}
    BY <1>1, <2>3 DEF CreateFits
  <2> QED
    BY <2>1, <2>2, <2>4
<1>3. ASSUME NEW c \in Calls, Created(c) PROVE req'[c] = req[c]
  BY <1>1, <1>3, StartedStays DEF AnswerIsLast, Created, Answered
<1> QED
  BY <1>1, <1>2, <1>3 DEF OneCreateWins, KeyOf

\* Nothing breaks what lookups and creates are sure of.
LEMMA NextSure ==
  ASSUME "edit" \notin Adversity
  PROVE  SureInv /\ [Next]_vars => SureInv'
<1> SUFFICES ASSUME SureInv, [Next]_vars PROVE SureInv'
  OBVIOUS
<1>1. AnswersInv' /\ UniqueInv'
  BY NextAnswers, NextUnique DEF SureInv
<1>2. WholeFiles'
  BY NextWhole DEF SureInv, UniqueInv
<1>3. OneCreateWins'
  BY NextOneWins
<1>4. \A c \in Calls : MissingFits(c)' /\ NotAmbiguous(c)' /\ CreateFits(c)'
  BY NextMissing, NextCreates
<1> QED
  BY <1>1, <1>2, <1>3, <1>4 DEF SureInv

\* A server starts sure of everything, for it has answered nothing.
LEMMA InitSure ==
  ASSUME \A f \in Notebooks : NotebookIsUnique(f) /\ NotebookIsRouted(f)
  PROVE  Init => SureInv
<1> SUFFICES ASSUME Init PROVE SureInv
  OBVIOUS
<1>1. AnswersInv
  BY InitAnswers
<1>2. UniqueInv
  <2>1. IInv
    BY InitIInv
  <2>2. UniqueIds
    BY DEF Init, NotebookIsUnique, UniqueIds, Held
  <2>3. SafeWork
    BY EmptySeq DEF Init, SafeWork
  <2> QED
    BY <2>1, <2>2, <2>3 DEF UniqueInv
<1>3. WholeFiles
  BY ConstantsHold DEF Init, WholeFiles, Constants
<1>4. \A e \in Calls : pc[e] = "idle" /\ result[e].is = "none"
  BY DEF Init, Nothing
<1> QED
  BY <1>1, <1>2, <1>3, <1>4 DEF SureInv, OneCreateWins, Created, Answered, MissingFits,
     CreateFits, NotAmbiguous, Writing

\* While nobody edits the files by hand, no lookup over a notebook with one
\* file per id is answered ambiguous_id, although its walk reads one file at a
\* time while others create, rewrite and link proposals (tools.py:224-233).
THEOREM LookupsAreNeverAmbiguous ==
  ASSUME "edit" \notin Adversity,
         \A f \in Notebooks : NotebookIsUnique(f) /\ NotebookIsRouted(f)
  PROVE  Spec => []NeverAmbiguous
<1>1. SureInv => NeverAmbiguous
  BY DEF SureInv, NotAmbiguous, NeverAmbiguous
<1> QED
  BY <1>1, InitSure, NextSure, PTL DEF Spec

\* While nobody edits the files by hand, a lookup reports an id missing only
\* if no file had it when the lookup started (tools.py:224-233, 402, 581,
\* 663-668).
THEOREM NotFoundIsAlwaysHonest ==
  ASSUME "edit" \notin Adversity,
         \A f \in Notebooks : NotebookIsUnique(f) /\ NotebookIsRouted(f)
  PROVE  Spec => []NotFoundIsHonest
<1>1. SureInv => NotFoundIsHonest
  BY DEF SureInv, MissingFits, NotFoundIsHonest, AnswersInv, RoutedInv, RoutedByKind, Holders
<1> QED
  BY <1>1, InitSure, NextSure, PTL DEF Spec

\* Of any number of concurrent creates of one id, however it is spelled and
\* wherever it is routed, at most one is answered with a success
\* (tools.py:287-291, 329-366).
THEOREM OneCreateAlwaysWins ==
  ASSUME "edit" \notin Adversity,
         \A f \in Notebooks : NotebookIsUnique(f) /\ NotebookIsRouted(f)
  PROVE  Spec => []OneCreateWins
<1>1. SureInv => OneCreateWins
  BY DEF SureInv
<1> QED
  BY <1>1, InitSure, NextSure, PTL DEF Spec

\* While nobody edits the files by hand, a create never lands on a file that is
\* there (tools.py:271-272, 345-360).
THEOREM CreatesNeverReplaceAnything ==
  ASSUME "edit" \notin Adversity,
         \A f \in Notebooks : NotebookIsUnique(f) /\ NotebookIsRouted(f)
  PROVE  Spec => CreateNeverReplaces
<1>1. SureInv /\ [Next]_vars =>
        [\A c \in Calls :
           pc[c] = "rename" /\ Created(c)' => files[Head(work[c]).path] = NoFile]_vars
  <2> SUFFICES ASSUME SureInv, [Next]_vars, NEW c \in Calls, pc[c] = "rename", Created(c)'
               PROVE  files[Head(work[c]).path] = NoFile
    OBVIOUS
  <2>1. /\ IInv /\ RoutedByKind /\ WholeFiles /\ CreateFits(c) /\ AnswerIsLast(c)
    BY DEF SureInv, AnswersInv, AnswerOf, RoutedInv
  <2>2. ~Created(c)
    BY <2>1 DEF AnswerIsLast, Created, Answered
  <2>3. Rename(c) /\ IsCreate(req[c])
    BY <2>1, <2>2, CreatedBy
  <2>4. /\ Holders(KeyOf(req[c].doc)) = {}
        /\ work[c] = <<[path |-> Target(req[c].doc), doc |-> req[c].doc]>>
    BY <2>1, <2>3 DEF CreateFits, Writing
  <2>5. Head(work[c]).path = Target(req[c].doc) /\ Head(work[c]) \in Commits
    BY <2>1, <2>3, <2>4, RenameLands
  <2>6. Target(req[c].doc) \in Paths /\ Target(req[c].doc).name = req[c].doc.id
    BY <2>5 DEF Commits, Target
  <2>7. files[Target(req[c].doc)] \notin Docs
    BY <2>1, <2>4, <2>6 DEF RoutedByKind, Held, Holders, KeyOf
  <2> QED
    BY <2>1, <2>5, <2>6, <2>7 DEF WholeFiles
<1> QED
  BY <1>1, InitSure, NextSure, PTL DEF Spec, CreateNeverReplaces

-----------------------------------------------------------------------------
(* The tools implement ProposalStore.                                      *)

Submitted == {r.doc : r \in Asked("write_proposal")}

HoldersIn(f, k) == {p \in Paths : f[p] \in Docs /\ KeyOf(f[p]) = k}

\* The store that the files of f stand for.
BarOf(f) ==
  [k \in Keys |->
     IF HoldersIn(f, k) = {} THEN None
     ELSE LET p == CHOOSE p \in HoldersIn(f, k) : TRUE
          IN [path |-> p, doc |-> f[p]]]

\* Over the files f, commit w adds a proposal ...
Adds(f, w) ==
  HoldersIn(f, KeyOf(w.doc)) = {} /\ w.path = Target(w.doc) /\ w.doc \in Submitted

\* ... or changes one as the caller of a tool asked: ...
Changes(f, w) ==
  LET d == f[w.path]
      k == KeyOf(w.doc)
  IN
  /\ w.path \in HoldersIn(f, k)
  /\ \/ w.doc \in Submitted /\ Route(w.doc) = w.path.dir
     \/ \E r \in Asked("update_proposal_status") :
          /\ Fold[r.id] = k
          /\ w.doc = [d EXCEPT !.status = r.status,
                               !.test = IF r.test = None THEN @ ELSE r.test]
     \/ \E r \in Asked("supersede_proposal") :
          \/ /\ Fold[r.old] = k /\ HoldersIn(f, Fold[r.new]) # {}
             /\ w.doc = [d EXCEPT !.superseded_by = r.new]
          \/ /\ Fold[r.new] = k /\ HoldersIn(f, Fold[r.old]) # {}
             /\ w.doc = [d EXCEPT !.supersedes = r.old]

\* The commits left to land do so one by one, each on a file of its own.
LandIn(f, w) ==
  /\ \A n \in 1 .. Len(w) : (Adds(f, w[n]) /\ Len(w) = 1) \/ Changes(f, w[n])
  /\ \A m, n \in 1 .. Len(w) : w[m].path = w[n].path => m = n

\* Two proposals are linked, and not one with itself under another spelling.
NoSelfLinks ==
  \A r \in Requests :
    r.op = "supersede_proposal" /\ r.old # r.new => Fold[r.old] # Fold[r.new]

Apart(c) ==
  pc[c] \in {"walk", "queued"} /\ req[c].op = "supersede_proposal" =>
    Fold[req[c].old] # Fold[req[c].new]

StoreInv ==
  /\ SureInv
  /\ \A c \in Calls : Apart(c) /\ LandIn(files, work[c])

-----------------------------------------------------------------------------
(* The mapping.                                                            *)

\* The mapping depends on the files alone.
LEMMA BarIs == StoreBar = BarOf(files) /\ StoreBar' = BarOf(files')
BY DEF StoreBar, BarOf, HoldersIn, Holders, Held

UniqueIn(f) == \A k : \A p, q \in HoldersIn(f, k) : p = q

\* Unique ids are what UniqueIds says.
LEMMA UniqueIs == (UniqueIds => UniqueIn(files)) /\ (UniqueIds' => UniqueIn(files'))
BY DEF UniqueIds, UniqueIn, HoldersIn, Held, KeyOf

\* The entry of an id is its file.
LEMMA EntryIs ==
  ASSUME NEW f, UniqueIn(f), NEW k \in Keys, NEW p \in HoldersIn(f, k)
  PROVE  BarOf(f)[k] = [path |-> p, doc |-> f[p]]
<1>1. (CHOOSE q \in HoldersIn(f, k) : TRUE) = p
  BY DEF UniqueIn
<1> QED
  BY <1>1 DEF BarOf

\* A file that is written under the id it had, or under a new one, is an entry
\* of the store that is set.
LEMMA LandedEntry ==
  ASSUME NEW f, NEW g, NEW p \in Paths, NEW d \in Docs,
         g[p] = d, \A q \in Paths : q # p => g[q] = f[q],
         UniqueIn(f), UniqueIn(g),
         f[p] \in Docs => KeyOf(f[p]) = KeyOf(d)
  PROVE  BarOf(g) = [BarOf(f) EXCEPT ![KeyOf(d)] = [path |-> p, doc |-> d]]
<1> DEFINE b == BarOf(f)
<1>1. KeyOf(d) \in Keys
  BY DataAssumption DEF KeyOf, Docs
<1>2. UniqueIn(f) /\ UniqueIn(g) /\ \A q \in Paths : q # p => g[q] = f[q]
  OBVIOUS
<1>3. BarOf(g)[KeyOf(d)] = [path |-> p, doc |-> d]
  <2>1. p \in HoldersIn(g, KeyOf(d))
    BY <1>2 DEF HoldersIn
  <2>2. BarOf(g)[KeyOf(d)] = [path |-> p, doc |-> g[p]]
    BY <1>1, <1>2, <2>1, EntryIs
  <2> QED
    BY <1>2, <2>2
<1>4. ASSUME NEW k \in Keys, k # KeyOf(d) PROVE BarOf(g)[k] = b[k]
  <2>1. HoldersIn(g, k) = HoldersIn(f, k)
    BY <1>2, <1>4 DEF HoldersIn
  <2>2. CASE HoldersIn(f, k) = {}
    BY <2>1, <2>2 DEF BarOf
  <2>3. CASE HoldersIn(f, k) # {}
    <3>1. PICK q \in HoldersIn(f, k) : TRUE
      BY <2>3
    <3>2. q # p /\ q \in Paths
      BY <1>4, <3>1 DEF HoldersIn
    <3>3. q \in HoldersIn(g, k)
      BY <2>1
    <3>4. BarOf(g)[k] = [path |-> q, doc |-> g[q]] /\ b[k] = [path |-> q, doc |-> f[q]]
      BY <1>2, <3>1, <3>3, EntryIs
    <3> QED
      BY <1>2, <3>2, <3>4
  <2> QED
    BY <2>2, <2>3
<1>5. BarOf(g) = [k \in Keys |-> BarOf(g)[k]] /\ b = [k \in Keys |-> b[k]]
  BY DEF BarOf
<1> HIDE DEF b
<1>6. BarOf(g) = [b EXCEPT ![KeyOf(d)] = [path |-> p, doc |-> d]]
  BY <1>1, <1>3, <1>4, <1>5
<1> QED
  BY <1>6 DEF b

\* Every entry is a proposal at a path.
LEMMA BarType ==
  ASSUME NEW f \in [Paths -> Docs \cup {NoFile, Malformed}]
  PROVE  BarOf(f) \in [Keys -> [path : Paths, doc : Docs] \cup {None}]
<1> SUFFICES ASSUME NEW k \in Keys, HoldersIn(f, k) # {}
             PROVE  BarOf(f)[k] \in [path : Paths, doc : Docs]
  BY DEF BarOf
<1>1. (CHOOSE p \in HoldersIn(f, k) : TRUE) \in HoldersIn(f, k)
  OBVIOUS
<1> QED
  BY <1>1 DEF BarOf, HoldersIn

-----------------------------------------------------------------------------
(* What a critical section plans.                                          *)

\* A new lifecycle is the status asked for, and the test status if there is one.
LEMMA LifecycleChanges ==
  ASSUME NEW f, NEW r \in Asked("update_proposal_status"), NEW p \in HoldersIn(f, Fold[r.id])
  PROVE  LET n == [f[p] EXCEPT !.status = r.status,
                               !.test = IF r.test = None THEN @ ELSE r.test]
         IN  Changes(f, [path |-> p, doc |-> n])
<1> DEFINE n == [f[p] EXCEPT !.status = r.status,
                             !.test = IF r.test = None THEN @ ELSE r.test]
           w == [path |-> p, doc |-> n]
<1>1. p \in Paths /\ f[p] \in Docs /\ KeyOf(f[p]) = Fold[r.id]
  BY DEF HoldersIn
<1>2. KeyOf(n) = Fold[r.id]
  BY <1>1 DEF Docs, KeyOf
<1>3. w.path = p /\ w.doc = n
  OBVIOUS
<1>4. \E x \in Asked("update_proposal_status") :
        /\ Fold[x.id] = KeyOf(n)
        /\ n = [f[p] EXCEPT !.status = x.status,
                            !.test = IF x.test = None THEN @ ELSE x.test]
  BY <1>2
<1> HIDE DEF n, w
<1>5. Changes(f, w)
  BY <1>2, <1>3, <1>4 DEF Changes
<1> QED
  BY <1>5 DEF w, n

\* The two links of a supersede_proposal are between proposals that are there.
LEMMA LinkChanges ==
  ASSUME NEW f, NEW r \in Asked("supersede_proposal"),
         NEW o \in HoldersIn(f, Fold[r.old]), NEW p \in HoldersIn(f, Fold[r.new])
  PROVE  /\ Changes(f, [path |-> o, doc |-> [f[o] EXCEPT !.superseded_by = r.new]])
         /\ Changes(f, [path |-> p, doc |-> [f[p] EXCEPT !.supersedes = r.old]])
<1> DEFINE m == [f[o] EXCEPT !.superseded_by = r.new]
           n == [f[p] EXCEPT !.supersedes = r.old]
           u == [path |-> o, doc |-> m]
           w == [path |-> p, doc |-> n]
<1>1. /\ f[o] \in Docs /\ KeyOf(f[o]) = Fold[r.old]
      /\ f[p] \in Docs /\ KeyOf(f[p]) = Fold[r.new]
  BY DEF HoldersIn
<1>2. KeyOf(m) = Fold[r.old] /\ KeyOf(n) = Fold[r.new]
  BY <1>1 DEF Docs, KeyOf
<1>3. u.path = o /\ u.doc = m /\ w.path = p /\ w.doc = n
  OBVIOUS
<1>4. /\ m = [f[o] EXCEPT !.superseded_by = r.new]
      /\ n = [f[p] EXCEPT !.supersedes = r.old]
  OBVIOUS
<1> HIDE DEF m, n, u, w
<1>5. Changes(f, u)
  BY <1>2, <1>3, <1>4 DEF Changes
<1>6. Changes(f, w)
  BY <1>2, <1>3, <1>4 DEF Changes
<1> QED
  BY <1>5, <1>6 DEF u, w, m, n

\* A single commit lands on its own.
LEMMA OneLands ==
  ASSUME NEW f, NEW p, NEW d, LET w == [path |-> p, doc |-> d] IN Adds(f, w) \/ Changes(f, w)
  PROVE  LandIn(f, <<[path |-> p, doc |-> d]>>)
<1> DEFINE w == [path |-> p, doc |-> d]
<1> HIDE DEF w
<1>1. Len(<<w>>) = 1 /\ <<w>>[1] = w
  OBVIOUS
<1>2. Adds(f, w) \/ Changes(f, w)
  BY DEF w
<1>3. LandIn(f, <<w>>)
  BY <1>1, <1>2 DEF LandIn
<1> QED
  BY <1>3 DEF w

\* Two changes of two files land one after the other.
LEMMA TwoLand ==
  ASSUME NEW f, NEW u, NEW w, Changes(f, u), Changes(f, w), u.path # w.path
  PROVE  LandIn(f, <<u, w>>)
<1>1. Len(<<u, w>>) = 2 /\ <<u, w>>[1] = u /\ <<u, w>>[2] = w
  OBVIOUS
<1> QED
  BY <1>1 DEF LandIn

\* The files of an id now.
LEMMA HoldersAre == \A k : HoldersIn(files, k) = Holders(k)
BY DEF HoldersIn, Holders, Held

\* A critical section plans commits that land.
LEMMA PlanLands ==
  ASSUME StoreInv, NEW c \in Calls, pc[c] = "queued", Verdict(c, req[c]) = "ok"
  PROVE  LandIn(files, Plan(c, req[c]))
<1> DEFINE r == req[c]
<1>1. /\ AnswersInv /\ RoutedInv /\ IInv /\ UniqueIds /\ WholeFiles /\ Apart(c)
  BY DEF StoreInv, SureInv, UniqueInv, AnswersInv, RoutedInv
<1>2. r \in AllRequests /\ r.op \in Mutators /\ r \in Requests
  BY <1>1 DEF RoutedInv, IInv, Control, ControlOf, RequestsMade
<1>3. CASE r.op = "write_proposal"
  <2>1. r \in WriteRequests /\ WriteError(r) = "ok" /\ r.mode \in {"create", "update"}
    BY <1>2, <1>3, RequestIs DEF Verdict, WriteRequests
  <2>2. PICK p \in Paths :
          /\ WritePlan(r) = <<[path |-> p, doc |-> r.doc]>>
          /\ r.mode = "create" => p = Target(r.doc) /\ Holders(KeyOf(r.doc)) = {}
          /\ r.mode = "update" => p \in Holders(KeyOf(r.doc)) /\ p.dir = Route(r.doc)
    BY <2>1, WritePlanShape
  <2>3. r.doc \in Submitted
    BY <1>2, <1>3 DEF Submitted, Asked
  <2> DEFINE w == [path |-> p, doc |-> r.doc]
  <2>4. w.path = p /\ w.doc = r.doc
    OBVIOUS
  <2> HIDE DEF w
  <2>5. Adds(files, w) \/ Changes(files, w)
    BY <2>1, <2>2, <2>3, <2>4, HoldersAre DEF Adds, Changes
  <2>6. LandIn(files, <<[path |-> p, doc |-> r.doc]>>)
    BY <2>5, OneLands DEF w
  <2> QED
    BY <1>3, <2>2, <2>6 DEF Plan
<1>4. CASE r.op = "update_proposal_status"
  <2> DEFINE p == PathOf(c, r.id)
             d == [files[p] EXCEPT !.status = r.status,
                                   !.test = IF r.test = None THEN @ ELSE r.test]
  <2>1. r.id \in Ids /\ r \in Asked("update_proposal_status")
    BY <1>2, <1>4, RequestShape DEF Asked
  <2>2. WalkedTo(c, r.id) # {} /\ files[p] \in Docs
    BY <1>1, <1>4 DEF IInv, Control, ControlOf, Sought, Verdict
  <2>3. p \in HoldersIn(files, Fold[r.id])
    BY <1>1, <1>4, <2>1, <2>2, PathOfFound, WalkedHolds, HoldersAre DEF WalkedTo
  <2>4. Plan(c, r) = <<[path |-> p, doc |-> d]>>
    BY <1>4 DEF Plan, StatusPlan
  <2> HIDE DEF p
  <2>5. Changes(files, [path |-> p, doc |-> d])
    BY <2>1, <2>3, LifecycleChanges
  <2> HIDE DEF d
  <2> QED
    BY <2>4, <2>5, OneLands
<1>5. CASE r.op = "supersede_proposal"
  <2> DEFINE o == PathOf(c, r.old)
             n == PathOf(c, r.new)
             d == [files[o] EXCEPT !.superseded_by = r.new]
             e == [files[n] EXCEPT !.supersedes = r.old]
  <2>1. /\ r.old \in Ids /\ r.new \in Ids /\ Fold[r.old] # Fold[r.new]
        /\ r \in Asked("supersede_proposal")
    BY <1>1, <1>2, <1>5, RequestShape DEF Apart, Asked
  <2>2. /\ WalkedTo(c, r.old) # {} /\ files[o] \in Docs
        /\ WalkedTo(c, r.new) # {} /\ files[n] \in Docs
    BY <1>1, <1>5 DEF IInv, Control, ControlOf, Sought, Verdict
  <2>3. /\ o \in Paths /\ o \in WalkedTo(c, r.old)
        /\ n \in Paths /\ n \in WalkedTo(c, r.new)
    BY <2>2, PathOfFound DEF WalkedTo
  <2>4. Plan(c, r) = <<[path |-> o, doc |-> d], [path |-> n, doc |-> e]>>
    BY <1>5 DEF Plan, SupersedePlan
  <2>5. /\ WalkedTo(c, r.old) \subseteq Holders(Fold[r.old])
        /\ WalkedTo(c, r.new) \subseteq Holders(Fold[r.new])
    BY <1>1, <1>5, <2>1, WalkedHolds
  <2>6. o \in HoldersIn(files, Fold[r.old]) /\ n \in HoldersIn(files, Fold[r.new])
    BY <2>3, <2>5, HoldersAre
  <2> HIDE DEF o, n
  <2>7. o # n
    BY <2>1, <2>6 DEF HoldersIn
  <2>8. Changes(files, [path |-> o, doc |-> d]) /\ Changes(files, [path |-> n, doc |-> e])
    BY <2>1, <2>6, LinkChanges
  <2> HIDE DEF d, e
  <2> DEFINE u == [path |-> o, doc |-> d]
             w == [path |-> n, doc |-> e]
  <2>9. u.path = o /\ w.path = n
    OBVIOUS
  <2> HIDE DEF u, w
  <2>10. LandIn(files, <<u, w>>)
    BY <2>7, <2>8, <2>9, TwoLand DEF u, w
  <2> QED
    BY <2>4, <2>10 DEF u, w
<1> QED
  BY <1>2, <1>3, <1>4, <1>5 DEF Mutators

-----------------------------------------------------------------------------
(* Every step is one of the store, or none.                                *)

\* The next commit of a call lands on the file its entry is about.
LEMMA HeadLands ==
  ASSUME StoreInv, NEW c \in Calls, Rename(c)
  PROVE  LET h == Head(work[c]) IN
         /\ h.path \in Paths /\ h.doc \in Docs
         /\ Adds(files, h) \/ Changes(files, h)
         /\ files[h.path] \in Docs => KeyOf(files[h.path]) = KeyOf(h.doc)
         /\ files' = [files EXCEPT ![h.path] = h.doc]
<1> DEFINE h == Head(work[c])
<1>1. IInv /\ RoutedByKind
  BY DEF StoreInv, SureInv, UniqueInv, AnswersInv, RoutedInv
<1>2. h \in Commits /\ 1 \in 1 .. Len(work[c]) /\ h = work[c][1]
      /\ files' = [files EXCEPT ![h.path] = h.doc]
  BY <1>1, RenameLands
<1>3. Adds(files, h) \/ Changes(files, h)
  BY <1>2 DEF StoreInv, LandIn
<1> HIDE DEF h
<1>4. h.path \in Paths /\ h.doc \in Docs
  BY <1>2 DEF Commits
<1>5. ASSUME files[h.path] \in Docs PROVE KeyOf(files[h.path]) = KeyOf(h.doc)
  <2>1. CASE Adds(files, h)
    BY <1>1, <1>4, <1>5, <2>1 DEF Adds, RoutedByKind, Held, Target, KeyOf
  <2>2. CASE Changes(files, h)
    BY <2>2 DEF Changes, HoldersIn
  <2> QED
    BY <1>3, <2>1, <2>2
<1> QED
  BY <1>2, <1>3, <1>4, <1>5 DEF h

\* Landing it sets that entry and no other.
LEMMA RenameSets ==
  ASSUME StoreInv, SureInv', NEW c \in Calls, Rename(c)
  PROVE  LET h == Head(work[c]) IN
         StoreBar' = [StoreBar EXCEPT ![KeyOf(h.doc)] = [path |-> h.path, doc |-> h.doc]]
<1> DEFINE h == Head(work[c])
<1>1. /\ h.path \in Paths /\ h.doc \in Docs
      /\ files[h.path] \in Docs => KeyOf(files[h.path]) = KeyOf(h.doc)
      /\ files' = [files EXCEPT ![h.path] = h.doc]
  BY HeadLands
<1>2. UniqueIn(files) /\ UniqueIn(files')
  BY UniqueIs DEF StoreInv, SureInv, UniqueInv
<1>3. files \in [Paths -> Docs \cup {NoFile}]
  BY DEF StoreInv, SureInv, UniqueInv, IInv, TypeOK, WholeFiles
<1> HIDE DEF h
<1>4. BarOf(files') = [BarOf(files) EXCEPT ![KeyOf(h.doc)] = [path |-> h.path, doc |-> h.doc]]
  <2>1. PICK p \in Paths, d \in Docs : p = h.path /\ d = h.doc
    BY <1>1
  <2>2. PICK g : g = files'
    OBVIOUS
  <2>3. /\ g[p] = d /\ \A q \in Paths : q # p => g[q] = files[q]
        /\ UniqueIn(g)
        /\ files[p] \in Docs => KeyOf(files[p]) = KeyOf(d)
    BY <1>1, <1>2, <1>3, <2>1, <2>2
  <2>4. BarOf(g) = [BarOf(files) EXCEPT ![KeyOf(d)] = [path |-> p, doc |-> d]]
    BY SMTT(30), <1>2, <2>3, LandedEntry
  <2> QED
    BY <2>1, <2>2, <2>4
<1> QED
  BY <1>4, BarIs DEF h

\* The step is one of the tools' promises.
LEMMA RenameImplements ==
  ASSUME StoreInv, SureInv', NEW c \in Calls, Rename(c)
  PROVE  Store!StoreNext
<1> DEFINE h == Head(work[c])
           k == KeyOf(h.doc)
<1>1. /\ h.path \in Paths /\ h.doc \in Docs
      /\ Adds(files, h) \/ Changes(files, h)
  BY HeadLands
<1>2. StoreBar' = [StoreBar EXCEPT ![k] = [path |-> h.path, doc |-> h.doc]]
  BY RenameSets
<1>3. UniqueIn(files) /\ StoreBar = BarOf(files)
  BY UniqueIs, BarIs DEF StoreInv, SureInv, UniqueInv
<1> HIDE DEF h
<1>4. k \in Keys /\ k = Store!KeyOf(h.doc)
  BY <1>1, DataAssumption DEF KeyOf, Docs, Store!KeyOf
<1>5. CASE Adds(files, h)
  <2>1. StoreBar[k] = None
    BY <1>3, <1>4, <1>5 DEF Adds, BarOf
  <2>2. h.path = Store!Target(h.doc) /\ h.doc \in Submitted
    BY <1>5 DEF Adds, Target, Route, Store!Target, Store!Route
  <2>3. Store!Add(h.doc)
    BY <1>2, <1>4, <2>1, <2>2 DEF Store!Add, Store!Has
  <2> QED
    BY <2>2, <2>3 DEF Store!StoreNext, Submitted
<1>6. CASE Changes(files, h)
  <2> DEFINE d == files[h.path]
  <2>1. h.path \in HoldersIn(files, k) /\ d \in Docs
    BY <1>6 DEF Changes, HoldersIn
  <2>2. StoreBar[k] = [path |-> h.path, doc |-> d]
    BY <1>3, <1>4, <2>1, EntryIs
  <2>3. StoreBar[k] \in Commits
    BY <1>1, <2>1, <2>2 DEF Commits
  <2>4. Store!Has(k) /\ StoreBar[k].path = h.path /\ StoreBar[k].doc = d
    BY <2>2, <2>3, EntryAssumption DEF Store!Has
  <2>5. Store!Put(k, h.doc)
    BY <1>2, <2>4 DEF Store!Put
  <2> HIDE DEF d, k
  <2>6. CASE h.doc \in Submitted /\ Route(h.doc) = h.path.dir
    <3>1. Store!Rewrite(h.doc)
      BY <1>4, <2>4, <2>5, <2>6 DEF Store!Rewrite, Store!Route, Route
    <3> QED
      BY <2>6, <3>1 DEF Store!StoreNext, Submitted
  <2>7. ASSUME NEW r \in Asked("update_proposal_status"), Fold[r.id] = k,
               h.doc = [d EXCEPT !.status = r.status,
                                 !.test = IF r.test = None THEN @ ELSE r.test]
        PROVE  Store!StoreNext
    <3>1. Store!SetLifecycle(k, r.status, r.test)
      BY <2>4, <2>5, <2>7 DEF Store!SetLifecycle
    <3> QED
      BY <2>7, <3>1 DEF Store!StoreNext
  <2>8. \A i : HoldersIn(files, Fold[i]) # {} /\ i \in Ids => Store!Has(Fold[i])
    <3> SUFFICES ASSUME NEW i \in Ids, NEW q \in HoldersIn(files, Fold[i])
                 PROVE  Store!Has(Fold[i])
      OBVIOUS
    <3>1. Fold[i] \in Keys /\ q \in Paths /\ files[q] \in Docs
      BY DataAssumption DEF HoldersIn
    <3>2. StoreBar[Fold[i]] = [path |-> q, doc |-> files[q]]
      BY <1>3, <3>1, EntryIs
    <3>3. StoreBar[Fold[i]] \in Commits
      BY <3>1, <3>2 DEF Commits
    <3> QED
      BY <3>3, EntryAssumption DEF Store!Has
  <2>9. ASSUME NEW r \in Asked("supersede_proposal"),
               \/ /\ Fold[r.old] = k /\ HoldersIn(files, Fold[r.new]) # {}
                  /\ h.doc = [d EXCEPT !.superseded_by = r.new]
               \/ /\ Fold[r.new] = k /\ HoldersIn(files, Fold[r.old]) # {}
                  /\ h.doc = [d EXCEPT !.supersedes = r.old]
        PROVE  Store!StoreNext
    <3>1. r.old \in Ids /\ r.new \in Ids
      BY ProposalsAssumption, RequestShape DEF Asked
    <3>2. \/ Store!SetSupersededBy(Fold[r.old], r.new)
          \/ Store!SetSupersedes(Fold[r.new], r.old)
      BY <2>4, <2>5, <2>8, <2>9, <3>1 DEF Store!SetSupersededBy, Store!SetSupersedes
    <3> QED
      BY <3>2 DEF Store!StoreNext
  <2> QED
    BY <1>6, <2>6, <2>7, <2>9 DEF Changes, d, k
<1> QED
  BY <1>1, <1>5, <1>6

-----------------------------------------------------------------------------
(* The invariant of the argument.                                          *)

\* A supersede_proposal that is under way links two proposals.
LEMMA NextApart ==
  ASSUME StoreInv, [Next]_vars, NoSelfLinks, NEW e \in Calls
  PROVE  Apart(e)'
<1> SUFFICES ASSUME pc'[e] \in {"walk", "queued"}, req'[e].op = "supersede_proposal"
             PROVE  Fold[req'[e].old] # Fold[req'[e].new]
  BY DEF Apart
<1>1. IInv /\ Apart(e)
  BY DEF StoreInv, SureInv, UniqueInv
<1>2. ASSUME NEW r \in Requests, Start(e, r) PROVE Fold[req'[e].old] # Fold[req'[e].new]
  <2>1. req'[e] = r
    BY <1>1, <1>2 DEF Start, IInv, TypeOK
  <2>2. Rejected(r) = "ok"
    BY <1>1, <1>2 DEF Start, Fail, Answer, Goto, IInv, TypeOK
  <2>3. r.old # r.new
    BY <2>1, <2>2 DEF Rejected
  <2> QED
    BY <2>1, <2>3 DEF NoSelfLinks
<1>3. CASE pc[e] # "idle" /\ pc[e] \in {"walk", "queued"}
  <2>1. req'[e] = req[e]
    BY <1>1, <1>3, StartedStays
  <2> QED
    BY <1>1, <1>3, <2>1 DEF Apart
<1>4. CASE pc[e] \notin {"walk", "queued"}
  <2>1. CASE pc[e] = "idle"
    BY <1>1, <1>2, <2>1, OnlyStartStarts
  <2>2. CASE pc[e] # "idle"
    <3>1. ~Keeps(e) /\ ~(\E r \in Requests : Start(e, r))
      BY <1>4, <2>2 DEF Keeps, Start
    <3>2. CallStep(e) \/ CommitFails(e) \/ ReadFails(e)
      BY <1>1, <3>1, OthersKeep, AllKeep DEF Next
    <3>3. pc'[e] \notin {"walk", "queued"}
      BY <1>1, <1>4, <3>2 DEF CallStep, CommitFails, ReadFails, WalkFile, WalkOver, LookupFails,
         LookupSucceeds, ListDone, Reread, Refuse, Enter, WriteTmp, Rename, Reply, Fail,
         Answer, Goto, IInv, TypeOK
    <3> QED
      BY <3>3
  <2> QED
    BY <2>1, <2>2
<1> QED
  BY <1>3, <1>4

\* The id of a proposal that is there stays there.
LEMMA HoldersInGrow ==
  ASSUME StoreInv, [Next]_vars, "edit" \notin Adversity
  PROVE  \A k : HoldersIn(files, k) # {} => HoldersIn(files', k) # {}
<1>1. RoutedInv /\ WholeFiles
  BY DEF StoreInv, SureInv, AnswersInv
<1>2. \A p \in Paths : files[p] \in Docs =>
        files'[p] \in Docs /\ KeyOf(files'[p]) = KeyOf(files[p])
  BY <1>1, HeldStays
<1> QED
  BY <1>2 DEF HoldersIn

\* The commits that are left after a rename still land.
LEMMA RestLands ==
  ASSUME StoreInv, [Next]_vars, "edit" \notin Adversity, NEW c \in Calls, Rename(c)
  PROVE  LandIn(files', Tail(work[c]))
<1> DEFINE w == work[c]
           h == Head(w)
<1>1. IInv /\ LandIn(files, w)
  BY DEF StoreInv, SureInv, UniqueInv
<1>2. w \in Seq(Commits) /\ w # <<>> /\ Len(w) \in Nat \ {0}
  BY <1>1, EmptySeq DEF IInv, TypeOK, Owner, OwnerOf, Rename, Writing
<1>3. /\ h = w[1] /\ 1 \in 1 .. Len(w) /\ Len(Tail(w)) = Len(w) - 1
      /\ \A n \in 1 .. Len(Tail(w)) : Tail(w)[n] = w[n + 1] /\ n + 1 \in 1 .. Len(w)
  BY <1>2, HeadTailProperties
<1>4. /\ files' = [files EXCEPT ![h.path] = h.doc] /\ h.path \in Paths
      /\ files \in [Paths -> Docs \cup {NoFile, Malformed}]
  BY <1>1, RenameLands DEF IInv, TypeOK, Commits
<1>5. \A k : HoldersIn(files, k) # {} => HoldersIn(files', k) # {}
  BY HoldersInGrow
<1> HIDE DEF h, w
<1>6. ASSUME NEW n \in 1 .. Len(Tail(w)) PROVE Changes(files', Tail(w)[n])
  <2> DEFINE x == w[n + 1]
  <2>1. n + 1 \in 1 .. Len(w) /\ Len(w) # 1 /\ n + 1 # 1 /\ Tail(w)[n] = x
    BY <1>2, <1>3, <1>6
  <2>2. Changes(files, x) /\ x.path # h.path
    BY <1>1, <1>3, <2>1 DEF LandIn
  <2> HIDE DEF x
  <2>3. files'[x.path] = files[x.path] /\ x.path \in Paths
    BY <1>4, <2>2 DEF Changes, HoldersIn
  <2>4. x.path \in HoldersIn(files', KeyOf(x.doc))
    BY <2>2, <2>3 DEF Changes, HoldersIn
  <2>5. Changes(files', x)
    BY ZenonT(40), <1>5, <2>2, <2>3, <2>4 DEF Changes
  <2> QED
    BY <2>1, <2>5
<1>7. \A m, n \in 1 .. Len(Tail(w)) : Tail(w)[m].path = Tail(w)[n].path => m = n
  <2> SUFFICES ASSUME NEW m \in 1 .. Len(Tail(w)), NEW n \in 1 .. Len(Tail(w)),
                      Tail(w)[m].path = Tail(w)[n].path
               PROVE  m = n
    OBVIOUS
  <2>1. w[m + 1].path = w[n + 1].path /\ m + 1 \in 1 .. Len(w) /\ n + 1 \in 1 .. Len(w)
    BY <1>3
  <2>2. m + 1 = n + 1
    BY <1>1, <2>1 DEF LandIn
  <2>3. m \in Int /\ n \in Int
    BY <1>2, <1>3
  <2> QED
    BY <2>2, <2>3
<1> QED
  BY <1>6, <1>7 DEF LandIn, w

\* Nothing is left to land by a call that has nothing left to land.
LEMMA NothingLands == \A f : LandIn(f, <<>>)
BY EmptySeq DEF LandIn

\* Every step leaves every call with commits that land.
LEMMA NextLands ==
  ASSUME StoreInv, [Next]_vars, "edit" \notin Adversity, NEW e \in Calls
  PROVE  LandIn(files', work'[e])
<1>1. IInv /\ LandIn(files, work[e])
  BY DEF StoreInv, SureInv, UniqueInv
<1>2. ASSUME NEW c \in Calls, Rename(c) PROVE LandIn(files', work'[e])
  <2>1. CASE e = c
    <3>1. work'[e] = Tail(work[c])
      BY <1>1, <1>2, <2>1 DEF Rename, IInv, TypeOK
    <3> QED
      BY <1>2, <3>1, RestLands
  <2>2. CASE e # c
    <3>1. work'[e] = work[e]
      BY <1>1, <1>2, <2>2 DEF Rename, IInv, TypeOK
    <3>2. pc[e] \notin Writing
      BY <1>1, <1>2, <2>2, OnlyOwnerLands
    <3>3. work[e] = <<>>
      BY <1>1, <3>2 DEF IInv, Owner, OwnerOf
    <3> QED
      BY <3>1, <3>3, NothingLands
  <2> QED
    BY <2>1, <2>2
<1>3. ASSUME NEW c \in Calls, Enter(c) PROVE LandIn(files', work'[e])
  <2>1. /\ pc[c] = "queued" /\ Verdict(c, req[c]) = "ok" /\ files' = files
        /\ work' = [work EXCEPT ![c] = Plan(c, req[c])]
    BY <1>3 DEF Enter, disk
  <2>2. LandIn(files, Plan(c, req[c]))
    BY <2>1, PlanLands
  <2>3. work'[e] = IF e = c THEN Plan(c, req[c]) ELSE work[e]
    BY <1>1, <2>1 DEF IInv, TypeOK
  <2> QED
    BY <1>1, <2>1, <2>2, <2>3
<1>4. CASE files' = files /\ work'[e] \in {work[e], <<>>}
  BY <1>1, <1>4, NothingLands
<1>5. ~\E p \in Paths : Edit(p)
  BY DEF Edit, Fault
<1> QED
  BY <1>1, <1>2, <1>3, <1>4, <1>5, FilesChangeBy, WorkChangesBy

\* Nothing breaks the invariant.
LEMMA NextStore ==
  ASSUME "edit" \notin Adversity, NoSelfLinks
  PROVE  StoreInv /\ [Next]_vars => StoreInv'
<1> SUFFICES ASSUME StoreInv, [Next]_vars PROVE StoreInv'
  OBVIOUS
<1>1. SureInv'
  BY NextSure DEF StoreInv
<1>2. \A e \in Calls : Apart(e)' /\ LandIn(files', work'[e])
  BY NextApart, NextLands
<1> QED
  BY <1>1, <1>2 DEF StoreInv

\* A server that starts has nothing to land.
LEMMA InitStore ==
  ASSUME \A f \in Notebooks : NotebookIsUnique(f) /\ NotebookIsRouted(f)
  PROVE  Init => StoreInv
<1> SUFFICES ASSUME Init PROVE StoreInv
  OBVIOUS
<1>1. SureInv
  BY InitSure
<1>2. \A e \in Calls : work[e] = <<>> /\ pc[e] = "idle"
  BY DEF Init
<1> QED
  BY <1>1, <1>2, NothingLands DEF StoreInv, Apart

\* However many calls race, fail half way or die, the tools do to the notebook
\* what the store does and nothing else: a step that changes a file adds one
\* proposal, rewrites one, or replaces the lifecycle or one link of one, as it
\* is at that moment, so no change that another call made in between is lost
\* (tools.py:329-366, 594-608, 682-704).
THEOREM ProposalsImplementTheStore ==
  ASSUME "edit" \notin Adversity, NoSelfLinks,
         \A f \in Notebooks : NotebookIsUnique(f) /\ NotebookIsRouted(f)
  PROVE  Spec => ImplementsStore
<1>1. Init => Store!StoreInit
  <2>1. IInv => StoreBar \in [Keys -> [path : Paths, doc : Docs] \cup {None}]
    BY BarType, BarIs DEF IInv, TypeOK
  <2>2. IInv => Store!StoreInit
    BY <2>1 DEF Store!StoreInit, Store!StoreTypeOK, Store!Entries, Store!Paths, Store!Docs,
                Store!Dirs, Paths, Docs, Dirs
  <2> QED
    BY <2>2, InitIInv
<1>2. StoreInv /\ [Next]_vars =>
        [files' # files => Store!StoreNext \/ UNCHANGED StoreBar]_vars
  <2> SUFFICES ASSUME StoreInv, [Next]_vars, files' # files
               PROVE  Store!StoreNext
    OBVIOUS
  <2>1. SureInv'
    BY NextSure DEF StoreInv
  <2>2. ~\E p \in Paths : Edit(p)
    BY DEF Edit, Fault
  <2>3. PICK c \in Calls : Rename(c)
    BY <2>2, FilesChangeBy
  <2> QED
    BY <2>1, <2>3, RenameImplements
<1> QED
  BY <1>1, <1>2, InitStore, NextStore, PTL DEF Spec, ImplementsStore

-----------------------------------------------------------------------------
(* Duplicates left by earlier versions.                                    *)

\* Two files of different subdirs hold one id.
Twins(p, q) ==
  /\ Held(files, p) /\ Held(files, q)
  /\ Fold[p.name] = Fold[q.name]
  /\ p.dir # q.dir

LookingUp(c) ==
  /\ pc[c] \in {"walk", "queued"} \cup Writing
  /\ req[c].op \in {"update_proposal_status", "supersede_proposal"}

\* A walk has still to read, or has matched, every twin of the ids it is for.
TwinsSeen(c) ==
  LookingUp(c) => \A i \in Sought(req[c]), p, q \in Paths :
    Twins(p, q) /\ Fold[p.name] = Fold[i] => <<i, p>> \in todo[c] \cup found[c]

\* A lookup that succeeded matched one file of each id.
OneFound(c) ==
  LookingUp(c) /\ pc[c] # "walk" =>
    /\ todo[c] = {}
    /\ \A i \in Sought(req[c]), p, q \in Paths :
         <<i, p>> \in found[c] /\ <<i, q>> \in found[c] => p = q

\* The commits w make no twins, nor do they touch any.
NoTwinIn(w) ==
  \A n \in 1 .. Len(w) :
    /\ \A q \in Paths :
         Held(files, q) /\ Fold[q.name] = Fold[w[n].path.name] => q.dir = w[n].path.dir
    /\ \A m \in 1 .. Len(w) :
         Fold[w[m].path.name] = Fold[w[n].path.name] => w[m].path.dir = w[n].path.dir

FrozenInv ==
  /\ RoutedInv
  /\ \A c \in Calls : TwinsSeen(c) /\ OneFound(c) /\ NoTwinIn(work[c])

\* No step of a tool, fault or editor makes twins.
LEMMA NoNewTwins ==
  ASSUME FrozenInv, [Next]_vars, NEW p \in Paths, NEW q \in Paths, Twins(p, q)'
  PROVE  Twins(p, q)
<1>1. IInv
  BY DEF FrozenInv, RoutedInv
<1>2. /\ files'[p] \in Docs /\ files'[q] \in Docs
      /\ Fold[p.name] = Fold[q.name] /\ p.dir # q.dir
  BY DEF Twins, Held
<1>3. ASSUME NEW c \in Calls, Rename(c) PROVE files[p] \in Docs /\ files[q] \in Docs
  <2> DEFINE w == work[c][1]
  <2>1. /\ w \in Commits /\ 1 \in 1 .. Len(work[c])
        /\ files' = [files EXCEPT ![w.path] = w.doc]
    BY <1>1, <1>3, RenameLands
  <2>2. \A s \in Paths : files[s] \in Docs /\ Fold[s.name] = Fold[w.path.name] => s.dir = w.path.dir
    BY <2>1 DEF FrozenInv, NoTwinIn, Held
  <2>3. \A s \in Paths : s # w.path => files'[s] = files[s]
    BY <1>1, <2>1 DEF IInv, TypeOK
  <2> HIDE DEF w
  <2>4. p # w.path
    BY <1>2, <2>2, <2>3
  <2>5. q # w.path
    BY <1>2, <2>2, <2>3
  <2> QED
    BY <1>2, <2>3, <2>4, <2>5
<1>4. ASSUME NEW s \in Paths, Edit(s) PROVE files[p] \in Docs /\ files[q] \in Docs
  BY <1>1, <1>2, <1>4, ConstantsHold DEF Edit, IInv, TypeOK, Constants
<1>5. files[p] \in Docs /\ files[q] \in Docs
  BY <1>2, <1>3, <1>4, FilesChangeBy
<1> QED
  BY <1>2, <1>5 DEF Twins, Held

\* A call that looks something up has just started, reads one more file, or
\* has already looked up what it is looking up.
LEMMA StillLooking ==
  ASSUME IInv, [Next]_vars, NEW e \in Calls, LookingUp(e)'
  PROVE  \/ \E r \in Requests : Start(e, r)
         \/ \E i \in Ids \cup {None}, p \in Paths : WalkFile(e, i, p)
         \/ /\ LookingUp(e) /\ req'[e] = req[e]
            /\ todo'[e] = todo[e] /\ found'[e] = found[e]
            /\ \/ pc'[e] = pc[e]
               \/ pc[e] # "walk"
               \/ LookupSucceeds(e)
<1>1. CASE Keeps(e)
  BY <1>1 DEF Keeps, LookingUp, Writing
<1>2. CASE \E r \in Requests : Start(e, r)
  BY <1>2
<1>3. CASE CallStep(e)
  <2>1. CASE \E i \in Ids \cup {None}, p \in Paths : WalkFile(e, i, p)
    BY <2>1
  <2>2. CASE LookupFails(e) \/ ListDone(e) \/ Reread(e) \/ Refuse(e) \/ Reply(e)
    <3>1. pc'[e] \in {"reply", "done"}
      BY <2>2 DEF LookupFails, ListDone, Reread, Refuse, Reply, Fail, Answer, Goto, IInv, TypeOK
    <3> QED
      BY <3>1 DEF LookingUp, Writing
  <2>3. CASE LookupSucceeds(e) \/ Enter(e) \/ WriteTmp(e) \/ Rename(e)
    <3>1. /\ req' = req /\ todo' = todo /\ found' = found
          /\ pc[e] \in {"walk", "queued", "tmp", "rename"}
          /\ pc[e] = "walk" => LookupSucceeds(e)
      BY <2>3 DEF LookupSucceeds, WalkOver, Enter, WriteTmp, Rename
    <3> QED
      BY <3>1 DEF LookingUp, Writing
  <2> QED
    BY <1>3, <2>1, <2>2, <2>3 DEF CallStep
<1>4. CASE CommitFails(e) \/ ReadFails(e)
  BY <1>4 DEF CommitFails, ReadFails, Fail, Answer, Goto, LookingUp, Writing, IInv, TypeOK
<1> QED
  BY <1>1, <1>2, <1>3, <1>4, OthersKeep, AllKeep DEF Next

\* No walk misses a twin, for it never gets a new one.
LEMMA NextTwinsSeen ==
  ASSUME FrozenInv, [Next]_vars, NEW e \in Calls
  PROVE  TwinsSeen(e)'
<1>1. IInv /\ TwinsSeen(e) /\ RoutedByKind
  BY DEF FrozenInv, RoutedInv
<1>2. SUFFICES ASSUME LookingUp(e)', NEW i \in Sought(req'[e]), NEW p \in Paths, NEW q \in Paths,
                      Twins(p, q)', Fold[p.name] = Fold[i]
               PROVE  <<i, p>> \in todo'[e] \cup found'[e]
  BY DEF TwinsSeen
<1>3. Twins(p, q) /\ files[p] \in Docs /\ KeyOf(files[p]) = Fold[i]
  BY <1>1, <1>2, NoNewTwins DEF Twins, Held, RoutedByKind
<1>4. ASSUME NEW r \in Requests, Start(e, r) PROVE <<i, p>> \in todo'[e]
  <2>1. req'[e] = r /\ files[p] # NoFile
    BY <1>1, <1>3, <1>4, ConstantsHold DEF Start, IInv, TypeOK, Constants
  <2>2. r.op # "list_proposals" /\ pc'[e] # "reply"
    BY <1>2, <2>1 DEF LookingUp, Writing
  <2>3. Rejected(r) = "ok"
    BY <1>1, <1>4, <2>2 DEF Start, Fail, Answer, Goto, IInv, TypeOK
  <2>4. todo'[e] = Sought(r) \X Listing(r)
    BY <1>1, <1>4, <2>3 DEF Start, IInv, TypeOK
  <2> QED
    BY <1>2, <2>1, <2>2, <2>4 DEF Listing
<1>5. ASSUME NEW j \in Ids \cup {None}, NEW s \in Paths, WalkFile(e, j, s)
      PROVE  <<i, p>> \in todo'[e] \cup found'[e]
  <2>1. /\ req'[e] = req[e] /\ LookingUp(e)
        /\ todo'[e] = todo[e] \ {<<j, s>>}
        /\ found'[e] = IF Matches(req[e], j, files[s]) THEN found[e] \cup {<<j, s>>} ELSE found[e]
    BY <1>1, <1>2, <1>5 DEF WalkFile, LookingUp, IInv, TypeOK
  <2>2. <<i, p>> \in todo[e] \cup found[e]
    BY <1>1, <1>2, <1>3, <2>1 DEF TwinsSeen
  <2>3. Matches(req[e], i, files[p])
    BY <1>3, <2>1 DEF LookingUp, Matches, IdMatches
  <2> QED
    BY <2>1, <2>2, <2>3
<1>6. CASE LookingUp(e) /\ req'[e] = req[e] /\ todo'[e] = todo[e] /\ found'[e] = found[e]
  BY <1>1, <1>2, <1>3, <1>6 DEF TwinsSeen
<1> QED
  BY <1>1, <1>2, <1>4, <1>5, <1>6, StillLooking

\* A lookup that succeeds matched one file of each id.
LEMMA NextOneFound ==
  ASSUME FrozenInv, [Next]_vars, NEW e \in Calls, IsFiniteSet(Paths)
  PROVE  OneFound(e)'
<1>1. IInv /\ OneFound(e)
  BY DEF FrozenInv, RoutedInv
<1>2. SUFFICES ASSUME LookingUp(e)', pc'[e] # "walk"
               PROVE  /\ todo'[e] = {}
                      /\ \A i \in Sought(req'[e]), p, q \in Paths :
                           <<i, p>> \in found'[e] /\ <<i, q>> \in found'[e] => p = q
  BY DEF OneFound
<1>3. ASSUME NEW r \in Requests, Start(e, r) PROVE FALSE
  <2>1. pc'[e] \in {"reply", "walk", "queued"} /\ req'[e] = r
        /\ (pc'[e] = "queued" => r.op = "write_proposal")
    BY <1>1, <1>3 DEF Start, Fail, Answer, Goto, IInv, TypeOK
  <2> QED
    BY <1>2, <2>1 DEF LookingUp, Writing
<1>4. ~\E i \in Ids \cup {None}, p \in Paths : WalkFile(e, i, p)
  BY <1>2 DEF WalkFile
<1>5. CASE LookupSucceeds(e)
  <2>1. /\ todo'[e] = {} /\ req'[e] = req[e] /\ found'[e] = found[e]
        /\ \A i \in Sought(req[e]) :
             WalkedTo(e, i) # {} /\ ~(Cardinality(WalkedTo(e, i)) > 1)
    BY <1>5 DEF LookupSucceeds, WalkOver, Lookup
  <2>2. ASSUME NEW i \in Sought(req[e]), NEW p \in Paths, NEW q \in Paths,
               <<i, p>> \in found[e], <<i, q>> \in found[e]
        PROVE  p = q
    <3> DEFINE S == WalkedTo(e, i)
    <3>1. S \in SUBSET Paths /\ p \in S /\ q \in S /\ ~(Cardinality(S) > 1)
      BY <2>1, <2>2 DEF WalkedTo
    <3> HIDE DEF S
    <3>2. IsFiniteSet(S)
      BY <3>1, FS_Subset
    <3>3. Cardinality(S) \in Nat /\ Cardinality(S) # 0
      BY <3>1, <3>2, FS_CardinalityType, FS_EmptySet
    <3>4. Cardinality(S) = 1
      BY <3>1, <3>3
    <3>5. \E x : S = {x}
      BY <3>2, <3>4, FS_Singleton
    <3> QED
      BY <3>1, <3>5
  <2> QED
    BY <2>1, <2>2
<1>6. CASE /\ LookingUp(e) /\ req'[e] = req[e]
           /\ todo'[e] = todo[e] /\ found'[e] = found[e]
           /\ pc[e] # "walk"
  BY <1>1, <1>6 DEF OneFound
<1> QED
  BY <1>1, <1>2, <1>3, <1>4, <1>5, <1>6, StillLooking

\* A critical section makes no twins and touches none.
LEMMA PlanHasNoTwin ==
  ASSUME FrozenInv, NEW c \in Calls, pc[c] = "queued", Verdict(c, req[c]) = "ok"
  PROVE  NoTwinIn(Plan(c, req[c]))
<1> DEFINE r == req[c]  w == Plan(c, req[c])
<1>1. /\ IInv /\ RoutedInv /\ r \in AllRequests /\ r.op \in Mutators
      /\ \A p \in Paths : files[p] \in Docs => Fold[p.name] = KeyOf(files[p])
  BY DEF FrozenInv, RoutedInv, IInv, Control, ControlOf, RoutedByKind, Held
<1>2. CASE r.op = "write_proposal"
  <2>1. r \in WriteRequests /\ WriteError(r) = "ok"
    BY <1>1, <1>2, RequestIs DEF Verdict
  <2>2. PICK p \in Paths : w = <<[path |-> p, doc |-> r.doc]>>
    BY <1>2, <2>1, WritePlanShape DEF Plan
  <2> HIDE DEF w
  <2>3. Len(w) = 1 /\ w[1].path = p /\ w[1].doc = r.doc
    BY <2>2
  <2>4. Fold[p.name] = KeyOf(r.doc) /\ p.dir = Route(r.doc)
    <3>1. \A n \in 1 .. Len(w) : Fits(w[n].path, w[n].doc)
      BY <1>1, PlanFits DEF w
    <3> QED
      BY <2>3, <3>1 DEF Fits
  <2>5. Elsewhere(r.doc) = {}
    BY <2>1 DEF WriteError
  <2>6. ASSUME NEW q \in Paths, Held(files, q), Fold[q.name] = Fold[p.name] PROVE q.dir = p.dir
    BY <1>1, <2>4, <2>5, <2>6 DEF Elsewhere, Holders, Held
  <2>7. \A n \in 1 .. Len(w) : n = 1
    BY <2>3
  <2>8. NoTwinIn(w)
    BY <2>3, <2>6, <2>7 DEF NoTwinIn
  <2> QED
    BY <2>8 DEF w
<1>3. CASE r.op # "write_proposal"
  <2>1. LookingUp(c) /\ pc[c] # "walk" /\ TwinsSeen(c) /\ OneFound(c)
    BY <1>1, <1>3 DEF LookingUp, Mutators, FrozenInv
  <2>2. ASSUME NEW i \in Sought(r)
        PROVE  /\ PathOf(c, i) \in Paths /\ <<i, PathOf(c, i)>> \in found[c]
               /\ Fold[PathOf(c, i).name] = Fold[i] /\ Held(files, PathOf(c, i))
    <3>1. WalkedTo(c, i) # {} /\ files[PathOf(c, i)] \in Docs /\ i \in Ids \cup {None}
      BY <1>1, <1>3, SoughtType DEF IInv, Control, ControlOf, Verdict
    <3>2. PathOf(c, i) \in Paths /\ <<i, PathOf(c, i)>> \in found[c]
      BY <3>1, PathOfFound
    <3> QED
      BY <1>1, <2>1, <3>1, <3>2 DEF RoutedInv, FoundFits, Held, LookingUp
  <2>3. ASSUME NEW i \in Sought(r), NEW q \in Paths, Held(files, q),
               Fold[q.name] = Fold[PathOf(c, i).name]
        PROVE  q.dir = PathOf(c, i).dir
    <3> SUFFICES ASSUME q.dir # PathOf(c, i).dir PROVE FALSE
      OBVIOUS
    <3>1. Twins(q, PathOf(c, i)) /\ Fold[q.name] = Fold[i]
      BY <2>2, <2>3 DEF Twins
    <3>2. <<i, q>> \in todo[c] \cup found[c]
      BY <2>1, <2>2, <3>1 DEF TwinsSeen
    <3>3. q = PathOf(c, i)
      BY <2>1, <2>2, <3>2 DEF OneFound
    <3> QED
      BY <3>3
  <2>4. \A n \in 1 .. Len(w) : \E i \in Sought(r) : w[n].path = PathOf(c, i)
    <3>1. CASE r.op = "update_proposal_status"
      <4>1. r.id \in Sought(r)
        BY <3>1 DEF Sought
      <4>2. Len(w) = 1 /\ w[1].path = PathOf(c, r.id)
        BY <3>1 DEF Plan, StatusPlan
      <4> HIDE DEF w
      <4> QED
        BY <4>1, <4>2
    <3>2. CASE r.op = "supersede_proposal"
      <4>1. r.old \in Sought(r) /\ r.new \in Sought(r)
        BY <3>2 DEF Sought
      <4>2. Len(w) = 2 /\ w[1].path = PathOf(c, r.old) /\ w[2].path = PathOf(c, r.new)
        BY <3>2 DEF Plan, SupersedePlan
      <4> HIDE DEF w
      <4> QED
        BY <4>1, <4>2
    <3> QED
      BY <1>1, <1>3, <3>1, <3>2 DEF Mutators
  <2> HIDE DEF w
  <2>5. NoTwinIn(w)
    <3> SUFFICES ASSUME NEW n \in 1 .. Len(w)
                 PROVE  /\ \A q \in Paths : Held(files, q) /\ Fold[q.name] = Fold[w[n].path.name]
                             => q.dir = w[n].path.dir
                        /\ \A m \in 1 .. Len(w) : Fold[w[m].path.name] = Fold[w[n].path.name]
                             => w[m].path.dir = w[n].path.dir
      BY DEF NoTwinIn
    <3>1. \A q \in Paths : Held(files, q) /\ Fold[q.name] = Fold[w[n].path.name]
            => q.dir = w[n].path.dir
      BY <2>3, <2>4
    <3>2. \A m \in 1 .. Len(w) : w[m].path \in Paths /\ Held(files, w[m].path)
      BY <2>2, <2>4
    <3> QED
      BY <3>1, <3>2
  <2> QED
    BY <2>5 DEF w
<1> QED
  BY <1>2, <1>3

\* What is left of a critical section goes on making no twins.
LEMMA NextNoTwin ==
  ASSUME FrozenInv, [Next]_vars, NEW e \in Calls
  PROVE  NoTwinIn(work[e])'
<1>1. IInv /\ NoTwinIn(work[e])
  BY DEF FrozenInv, RoutedInv
<1>2. SUFFICES ASSUME NEW n \in 1 .. Len(work'[e])
               PROVE  /\ \A q \in Paths :
                           files'[q] \in Docs /\ Fold[q.name] = Fold[work'[e][n].path.name]
                             => q.dir = work'[e][n].path.dir
                      /\ \A m \in 1 .. Len(work'[e]) :
                           Fold[work'[e][m].path.name] = Fold[work'[e][n].path.name]
                             => work'[e][m].path.dir = work'[e][n].path.dir
  BY DEF NoTwinIn, Held
<1>3. ASSUME NEW c \in Calls, Rename(c)
      PROVE  /\ \A q \in Paths :
                  files'[q] \in Docs /\ Fold[q.name] = Fold[work'[e][n].path.name]
                    => q.dir = work'[e][n].path.dir
             /\ \A m \in 1 .. Len(work'[e]) :
                  Fold[work'[e][m].path.name] = Fold[work'[e][n].path.name]
                    => work'[e][m].path.dir = work'[e][n].path.dir
  <2>1. \A m \in 1 .. Len(work'[e]) : \E l \in 1 .. Len(work[e]) : work'[e][m] = work[e][l]
    BY <1>1, <1>3, RenameLands
  <2>2. c = e
    <3>1. work[e] # <<>>
      <4> SUFFICES ASSUME work[e] = <<>> PROVE FALSE
        OBVIOUS
      <4>1. Len(work[e]) = 0
        BY EmptySeq
      <4> QED
        BY <2>1, <4>1
    <3>2. pc[e] \in Writing
      BY <1>1, <3>1 DEF IInv, Owner, OwnerOf
    <3> QED
      BY <1>1, <1>3, <3>2, OnlyOwnerLands
  <2> DEFINE w == work[e]
  <2>3. /\ w[1] \in Commits /\ 1 \in 1 .. Len(w)
        /\ files' = [files EXCEPT ![w[1].path] = w[1].doc]
    BY <1>1, <1>3, <2>2, RenameLands
  <2>4. \A q \in Paths : q = w[1].path \/ files'[q] = files[q]
    BY <1>1, <2>3 DEF IInv, TypeOK
  <2>5. \A k \in 1 .. Len(w) :
          /\ \A q \in Paths : files[q] \in Docs /\ Fold[q.name] = Fold[w[k].path.name]
               => q.dir = w[k].path.dir
          /\ \A l \in 1 .. Len(w) : Fold[w[l].path.name] = Fold[w[k].path.name]
               => w[l].path.dir = w[k].path.dir
    BY <1>1 DEF NoTwinIn, Held
  <2> HIDE DEF w
  <2>6. \A k \in 1 .. Len(w) : \A q \in Paths :
          files'[q] \in Docs /\ Fold[q.name] = Fold[w[k].path.name] => q.dir = w[k].path.dir
    BY <2>3, <2>4, <2>5
  <2>7. \A m \in 1 .. Len(work'[e]) : \E l \in 1 .. Len(w) : work'[e][m] = w[l]
    BY <2>1 DEF w
  <2>8. PICK k \in 1 .. Len(w) : work'[e][n] = w[k]
    BY <2>7
  <2>9. \A q \in Paths : files'[q] \in Docs /\ Fold[q.name] = Fold[work'[e][n].path.name]
          => q.dir = work'[e][n].path.dir
    BY <2>6, <2>8
  <2>10. ASSUME NEW m \in 1 .. Len(work'[e]),
                Fold[work'[e][m].path.name] = Fold[work'[e][n].path.name]
         PROVE  work'[e][m].path.dir = work'[e][n].path.dir
    <3>1. PICK l \in 1 .. Len(w) : work'[e][m] = w[l]
      BY <2>7
    <3> QED
      BY <2>5, <2>8, <2>10, <3>1
  <2> QED
    BY <2>9, <2>10
<1>4. ASSUME \A q \in Paths : files'[q] \in Docs => files[q] \in Docs,
             \A d \in Calls : work'[d] \in {work[d], <<>>}
      PROVE  /\ \A q \in Paths :
                  files'[q] \in Docs /\ Fold[q.name] = Fold[work'[e][n].path.name]
                    => q.dir = work'[e][n].path.dir
             /\ \A m \in 1 .. Len(work'[e]) :
                  Fold[work'[e][m].path.name] = Fold[work'[e][n].path.name]
                    => work'[e][m].path.dir = work'[e][n].path.dir
  <2>1. work'[e] = work[e]
    <3> SUFFICES ASSUME work'[e] = <<>> PROVE FALSE
      BY <1>4
    <3>1. Len(work'[e]) = 0
      BY EmptySeq
    <3> QED
      BY <1>2, <3>1
  <2> QED
    BY <1>1, <1>4, <2>1 DEF NoTwinIn, Held
<1>5. \/ \A q \in Paths : files'[q] \in Docs => files[q] \in Docs
      \/ \E c \in Calls : Rename(c)
  <2>1. ASSUME NEW s \in Paths, Edit(s)
        PROVE  \A q \in Paths : files'[q] \in Docs => files[q] \in Docs
    BY <1>1, <2>1, ConstantsHold DEF Edit, IInv, TypeOK, Constants
  <2> QED
    BY <2>1, FilesChangeBy
<1>6. ASSUME NEW c \in Calls, Enter(c)
      PROVE  /\ \A q \in Paths :
                  files'[q] \in Docs /\ Fold[q.name] = Fold[work'[e][n].path.name]
                    => q.dir = work'[e][n].path.dir
             /\ \A m \in 1 .. Len(work'[e]) :
                  Fold[work'[e][m].path.name] = Fold[work'[e][n].path.name]
                    => work'[e][m].path.dir = work'[e][n].path.dir
  <2>1. /\ pc[c] = "queued" /\ Verdict(c, req[c]) = "ok" /\ files' = files
        /\ work'[e] = IF e = c THEN Plan(c, req[c]) ELSE work[e]
    BY <1>1, <1>6 DEF Enter, disk, IInv, TypeOK
  <2>2. NoTwinIn(work'[e])
    BY <1>1, <2>1, PlanHasNoTwin
  <2> QED
    BY <2>1, <2>2 DEF NoTwinIn, Held
<1> QED
  BY <1>1, <1>3, <1>4, <1>5, <1>6, WorkChangesBy

\* No step of any call, fault or editor breaks the invariant.
LEMMA NextFrozen ==
  ASSUME IsFiniteSet(Paths)
  PROVE  FrozenInv /\ [Next]_vars => FrozenInv'
<1> SUFFICES ASSUME FrozenInv, [Next]_vars PROVE FrozenInv'
  OBVIOUS
<1>1. RoutedInv'
  BY NextRouted DEF FrozenInv
<1>2. \A e \in Calls : TwinsSeen(e)' /\ OneFound(e)' /\ NoTwinIn(work[e])'
  BY NextTwinsSeen, NextOneFound, NextNoTwin
<1> QED
  BY <1>1, <1>2 DEF FrozenInv

\* Nothing is looked up or left to land at first.
LEMMA InitFrozen ==
  ASSUME \A f \in Notebooks : NotebookIsRouted(f)
  PROVE  Init => FrozenInv
<1> SUFFICES ASSUME Init PROVE FrozenInv
  OBVIOUS
<1>1. RoutedInv
  BY InitRouted
<1>2. \A e \in Calls : pc[e] = "idle" /\ work[e] = <<>>
  BY DEF Init
<1>3. \A e \in Calls : TwinsSeen(e) /\ OneFound(e)
  BY <1>2 DEF TwinsSeen, OneFound, LookingUp, Writing
<1>4. NoTwinIn(<<>>)
  BY EmptySeq DEF NoTwinIn
<1> QED
  BY <1>1, <1>2, <1>3, <1>4 DEF FrozenInv

\* Proposals of one id that earlier versions left in two subdirs stay as they
\* are, whatever is asked for, raced, broken by hand or restarted: no tool
\* writes to either (tools.py:335-344, 583-588, 669-674).
THEOREM DuplicatesStayFrozen ==
  ASSUME IsFiniteSet(Paths), \A f \in Notebooks : NotebookIsRouted(f)
  PROVE  Spec => DuplicatesAreFrozen
<1>1. FrozenInv /\ [Next]_vars =>
        [\A p \in Paths :
           /\ Held(files, p) /\ \E q \in Holders(KeyOf(files[p])) : q.dir # p.dir
           /\ Held(files', p)
           => files'[p] = files[p]]_vars
  <2> SUFFICES ASSUME FrozenInv, [Next]_vars, NEW p \in Paths, Held(files, p),
                      NEW q \in Holders(KeyOf(files[p])), q.dir # p.dir, Held(files', p)
               PROVE  files'[p] = files[p]
    OBVIOUS
  <2>1. IInv /\ RoutedByKind
    BY DEF FrozenInv, RoutedInv
  <2>2. q \in Paths /\ Held(files, q) /\ Fold[q.name] = Fold[p.name]
    BY <2>1 DEF Holders, RoutedByKind
  <2>3. ASSUME NEW c \in Calls, Rename(c) PROVE files'[p] = files[p]
    <3> DEFINE w == work[c][1]
    <3>1. /\ w \in Commits /\ 1 \in 1 .. Len(work[c])
          /\ files' = [files EXCEPT ![w.path] = w.doc]
      BY <2>1, <2>3, RenameLands
    <3>2. p # w.path
      BY <2>2, <3>1 DEF FrozenInv, NoTwinIn
    <3> HIDE DEF w
    <3> QED
      BY <2>1, <3>1, <3>2 DEF IInv, TypeOK
  <2>4. ASSUME NEW s \in Paths, Edit(s) PROVE files'[p] = files[p]
    BY <2>1, <2>4, ConstantsHold DEF Edit, Held, IInv, TypeOK, Constants
  <2> QED
    BY <2>3, <2>4, FilesChangeBy
<1> QED
  BY <1>1, InitFrozen, NextFrozen, PTL DEF Spec, DuplicatesAreFrozen

-----------------------------------------------------------------------------
(* The two sides of a link.                                                *)

\* Only supersede_proposal is asked to say what a proposal supersedes.
LinksComeFromSupersede == \A r \in Asked("write_proposal") : r.doc.supersedes = None

\* Over the files f, commit w leaves what its proposal supersedes, ...
KeepsLink(f, w) == w.doc.supersedes = f[w.path].supersedes

\* ... the old side of request r is linked, ...
OldLinked(f, r) == \E q \in HoldersIn(f, Fold[r.old]) : f[q].superseded_by = r.new

\* ... and commit w links the old side, or the new side, of r.
OldSide(f, w, r) ==
  KeepsLink(f, w) /\ w.doc.superseded_by = r.new /\ Fold[w.path.name] = Fold[r.old]

NewSide(w, r) == w.doc.supersedes = r.old /\ Fold[w.path.name] = Fold[r.new]

\* What is left to land, for each of the three tools: the old side of a link is
\* landed, or it comes first.
LandsLinks(f, r, w) ==
  \/ r.op = "write_proposal" /\ Len(w) = 1 /\ w[1].doc.supersedes = None
  \/ r.op = "update_proposal_status" /\ Len(w) = 1 /\ KeepsLink(f, w[1])
  \/ /\ r.op = "supersede_proposal"
     /\ \/ Len(w) = 2 /\ OldSide(f, w[1], r) /\ NewSide(w[2], r)
        \/ Len(w) = 1 /\ OldLinked(f, r) /\ NewSide(w[1], r)

LinkInv ==
  /\ RoutedInv
  /\ \A c \in Calls : pc[c] \in Writing => LandsLinks(files, req[c], work[c])

\* A critical section links the old side of a pair before the new one.
LEMMA PlanLandsLinks ==
  ASSUME LinkInv, LinksComeFromSupersede, NEW c \in Calls, pc[c] = "queued",
         Verdict(c, req[c]) = "ok"
  PROVE  LandsLinks(files, req[c], Plan(c, req[c]))
<1> DEFINE r == req[c]  w == Plan(c, req[c])
<1>1. IInv /\ RoutedInv /\ r \in AllRequests /\ r.op \in Mutators /\ r \in Requests
  BY DEF LinkInv, RoutedInv, IInv, Control, ControlOf, RequestsMade
<1>2. ASSUME r.op # "write_proposal", NEW i \in Sought(r)
      PROVE  /\ PathOf(c, i) \in Paths /\ files[PathOf(c, i)] \in Docs
             /\ Fold[PathOf(c, i).name] = Fold[i]
  <2>1. WalkedTo(c, i) # {} /\ files[PathOf(c, i)] \in Docs /\ i \in Ids \cup {None}
    BY <1>1, <1>2, SoughtType DEF IInv, Control, ControlOf, Verdict
  <2>2. PathOf(c, i) \in Paths /\ <<i, PathOf(c, i)>> \in found[c]
    BY <2>1, PathOfFound
  <2>3. r.op # "list_proposals"
    BY <1>1 DEF Mutators
  <2> QED
    BY <1>1, <2>1, <2>2, <2>3 DEF RoutedInv, FoundFits
<1>3. CASE r.op = "write_proposal"
  <2>1. r \in WriteRequests /\ WriteError(r) = "ok" /\ r \in Asked("write_proposal")
    BY <1>1, <1>3, RequestIs DEF Verdict, Asked
  <2>2. PICK p \in Paths : w = <<[path |-> p, doc |-> r.doc]>>
    BY <1>3, <2>1, WritePlanShape DEF Plan
  <2> HIDE DEF w
  <2>3. Len(w) = 1 /\ w[1].doc = r.doc
    BY <2>2
  <2>4. LandsLinks(files, r, w)
    BY <1>3, <2>1, <2>3 DEF LandsLinks, LinksComeFromSupersede
  <2> QED
    BY <2>4 DEF w
<1>4. CASE r.op = "update_proposal_status"
  <2> DEFINE p == PathOf(c, r.id)
             d == [files[p] EXCEPT !.status = r.status,
                                   !.test = IF r.test = None THEN @ ELSE r.test]
  <2>1. p \in Paths /\ files[p] \in Docs
    BY <1>2, <1>4 DEF Sought
  <2>2. d.supersedes = files[p].supersedes
    BY <2>1 DEF Docs
  <2>3. w = <<[path |-> p, doc |-> d]>>
    BY <1>4 DEF Plan, StatusPlan
  <2> HIDE DEF p, d, w
  <2>4. Len(w) = 1 /\ w[1].path = p /\ w[1].doc = d
    BY <2>3
  <2>5. LandsLinks(files, r, w)
    BY <1>4, <2>2, <2>4 DEF LandsLinks, KeepsLink
  <2> QED
    BY <2>5 DEF w
<1>5. CASE r.op = "supersede_proposal"
  <2> DEFINE o == PathOf(c, r.old)
             n == PathOf(c, r.new)
             d == [files[o] EXCEPT !.superseded_by = r.new]
             e == [files[n] EXCEPT !.supersedes = r.old]
  <2>1. /\ o \in Paths /\ files[o] \in Docs /\ Fold[o.name] = Fold[r.old]
        /\ n \in Paths /\ files[n] \in Docs /\ Fold[n.name] = Fold[r.new]
    BY <1>2, <1>5 DEF Sought
  <2>2. /\ d.supersedes = files[o].supersedes /\ d.superseded_by = r.new
        /\ e.supersedes = r.old
    BY <2>1 DEF Docs
  <2>3. w = <<[path |-> o, doc |-> d], [path |-> n, doc |-> e]>>
    BY <1>5 DEF Plan, SupersedePlan
  <2> HIDE DEF o, n, d, e, w
  <2>4. Len(w) = 2 /\ w[1].path = o /\ w[1].doc = d /\ w[2].path = n /\ w[2].doc = e
    BY <2>3
  <2>5. OldSide(files, w[1], r) /\ NewSide(w[2], r)
    BY <2>1, <2>2, <2>4 DEF OldSide, NewSide, KeepsLink
  <2>6. LandsLinks(files, r, w)
    BY <1>5, <2>4, <2>5 DEF LandsLinks
  <2> QED
    BY <2>6 DEF w
<1> QED
  BY <1>1, <1>3, <1>4, <1>5 DEF Mutators

\* What is left of a critical section stays so, after one more file.
LEMMA RenameLinks ==
  ASSUME LinkInv, NEW e \in Calls, Rename(e), pc'[e] \in Writing
  PROVE  LandsLinks(files', req'[e], work'[e])
<1> DEFINE w == work[e]  r == req[e]  f == files'
<1>1. IInv /\ RoutedInv /\ LandsLinks(files, r, w)
  BY DEF LinkInv, RoutedInv, Rename, Writing
<1>2. /\ w[1] \in Commits /\ Fits(w[1].path, w[1].doc)
      /\ f = [files EXCEPT ![w[1].path] = w[1].doc]
  <2>1. /\ Head(w) = w[1] /\ Head(w) \in Commits /\ 1 \in 1 .. Len(w)
        /\ f = [files EXCEPT ![Head(w).path] = Head(w).doc]
    BY <1>1, RenameLands
  <2>2. Fits(w[1].path, w[1].doc)
    BY <1>1, <2>1 DEF RoutedInv, WorkFits
  <2> QED
    BY <2>1, <2>2
<1>3. w \in Seq(Commits) /\ work'[e] = Tail(w) /\ req'[e] = r
  BY <1>1 DEF Rename, IInv, TypeOK, Commits
<1>4. Len(w) > 1
  BY <1>1 DEF Rename, Answer, Goto, Writing, IInv, TypeOK
<1>5. files \in [Paths -> Docs \cup {NoFile, Malformed}]
  BY <1>1 DEF IInv, TypeOK
<1> HIDE DEF w, r, f
<1>6. /\ r.op = "supersede_proposal"
      /\ Len(w) = 2 /\ OldSide(files, w[1], r) /\ NewSide(w[2], r)
  BY <1>1, <1>4 DEF LandsLinks
<1>7. Len(Tail(w)) = 1 /\ Tail(w)[1] = w[2]
  <2>1. w # <<>>
    BY <1>6, EmptySeq
  <2>2. /\ Len(Tail(w)) = Len(w) - 1
        /\ \A i \in 1 .. Len(Tail(w)) : Tail(w)[i] = w[i + 1]
    BY <1>3, <2>1, HeadTailProperties
  <2>3. Len(Tail(w)) = 1
    BY <1>6, <2>2
  <2>4. Tail(w)[1] = w[1 + 1]
    BY <2>2, <2>3
  <2> QED
    BY <2>3, <2>4
<1>8. /\ w[1].path \in Paths /\ f[w[1].path] = w[1].doc /\ w[1].doc \in Docs
      /\ KeyOf(w[1].doc) = Fold[r.old] /\ w[1].doc.superseded_by = r.new
  BY <1>2, <1>5, <1>6 DEF Commits, Fits, OldSide
<1>9. OldLinked(f, r)
  BY <1>8 DEF OldLinked, HoldersIn
<1>10. LandsLinks(f, r, Tail(w))
  BY <1>6, <1>7, <1>9 DEF LandsLinks
<1> QED
  BY <1>3, <1>10 DEF f

\* No step of any call, failure or restart breaks the invariant.
LEMMA NextLinks ==
  ASSUME LinksComeFromSupersede, "edit" \notin Adversity
  PROVE  LinkInv /\ [Next]_vars => LinkInv'
<1> SUFFICES ASSUME LinkInv, [Next]_vars PROVE LinkInv'
  OBVIOUS
<1>1. IInv /\ IInv' /\ RoutedInv /\ RoutedInv'
  BY NextRouted DEF LinkInv, RoutedInv
<1>2. ASSUME NEW e \in Calls, pc'[e] \in Writing
      PROVE  LandsLinks(files', req'[e], work'[e])
  <2>1. pc[e] # "idle"
    <3>1. ASSUME NEW r \in Requests, Start(e, r) PROVE pc'[e] \notin Writing
      BY <1>1, <3>1 DEF Start, Fail, Answer, Goto, Writing, IInv, TypeOK
    <3> QED
      BY <1>1, <1>2, <3>1, OnlyStartStarts DEF Writing
  <2>2. req'[e] = req[e]
    BY <1>1, <2>1, StartedStays
  <2>3. ASSUME NEW c \in Calls, Rename(c) PROVE LandsLinks(files', req'[e], work'[e])
    <3>1. c = e
      <4>1. CASE pc[e] \in Writing
        BY <1>1, <2>3, <4>1, OnlyOwnerLands
      <4>2. CASE c # e
        BY <1>1, <1>2, <2>3, <4>1, <4>2, OthersKeep DEF CallStep, Keeps, Writing
      <4> QED
        BY <4>1, <4>2
    <3> QED
      BY <1>2, <2>3, <3>1, RenameLinks
  <2>4. ASSUME NEW c \in Calls, Enter(c) PROVE LandsLinks(files', req'[e], work'[e])
    <3>1. /\ pc[c] = "queued" /\ Verdict(c, req[c]) = "ok" /\ files' = files
          /\ work'[e] = IF e = c THEN Plan(c, req[c]) ELSE work[e]
          /\ pc'[e] = IF e = c THEN "tmp" ELSE pc[e]
      BY <1>1, <2>4 DEF Enter, Goto, disk, IInv, TypeOK
    <3>2. CASE e = c
      BY <2>2, <3>1, <3>2, PlanLandsLinks
    <3>3. CASE e # c
      BY <1>2, <2>2, <3>1, <3>3 DEF LinkInv
    <3> QED
      BY <3>2, <3>3
  <2>5. CASE ~\E c \in Calls : Enter(c) \/ Rename(c)
    <3>1. files' = files
      BY <2>5, FilesChangeBy DEF Edit, Fault
    <3>2. work'[e] \in {work[e], <<>>}
      BY <1>1, <2>5, WorkChangesBy
    <3>3. work'[e] # <<>>
      BY <1>1, <1>2 DEF IInv, Owner, OwnerOf
    <3>4. work[e] = work'[e] /\ pc[e] \in Writing
      BY <1>1, <3>2, <3>3 DEF IInv, Owner, OwnerOf
    <3> QED
      BY <2>2, <3>1, <3>4 DEF LinkInv
  <2> QED
    BY <2>3, <2>4, <2>5
<1> QED
  BY <1>1, <1>2 DEF LinkInv, LandsLinks, OldLinked, KeepsLink, OldSide, NewSide, HoldersIn, KeyOf

\* A proposal only comes to supersede another once that other says so too:
\* wherever a supersede_proposal fails or dies, no proposal claims to supersede
\* one that is not marked as superseded by it (tools.py:636-638, 695-701).
THEOREM OldSideAlwaysFirst ==
  ASSUME LinksComeFromSupersede, "edit" \notin Adversity,
         \A f \in Notebooks : NotebookIsRouted(f)
  PROVE  Spec => OldSideFirst
<1>1. Init => LinkInv
  <2>1. Init => \A c \in Calls : pc[c] \notin Writing
    BY DEF Init, Writing
  <2> QED
    BY <2>1, InitRouted DEF LinkInv
<1>2. LinkInv /\ [Next]_vars =>
        [\A p \in Paths :
           /\ Held(files, p) /\ Held(files', p)
           /\ files'[p].supersedes \notin {files[p].supersedes, None}
           => \E q \in Holders(Fold[files'[p].supersedes]) :
                /\ files[q].superseded_by # None
                /\ Fold[files[q].superseded_by] = KeyOf(files[p])]_vars
  <2> SUFFICES ASSUME LinkInv, [Next]_vars, NEW p \in Paths, Held(files, p), Held(files', p),
                      files'[p].supersedes \notin {files[p].supersedes, None}
               PROVE  \E q \in Holders(Fold[files'[p].supersedes]) :
                        /\ files[q].superseded_by # None
                        /\ Fold[files[q].superseded_by] = KeyOf(files[p])
    OBVIOUS
  <2>1. PICK c \in Calls : Rename(c)
    BY FilesChangeBy DEF Edit, Fault
  <2> DEFINE w == work[c]  r == req[c]
  <2>2. /\ IInv /\ RoutedInv /\ RoutedByKind /\ r \in AllRequests
        /\ LandsLinks(files, r, w)
    BY <2>1 DEF LinkInv, RoutedInv, IInv, Control, ControlOf, Rename, Writing
  <2>3. w[1] \in Commits /\ files' = [files EXCEPT ![w[1].path] = w[1].doc]
    BY <2>1, <2>2, RenameLands
  <2>4. p = w[1].path /\ files'[p] = w[1].doc
    BY <2>2, <2>3 DEF IInv, TypeOK, Commits
  <2> HIDE DEF w, r
  <2>5. r.op = "supersede_proposal" /\ OldLinked(files, r) /\ NewSide(w[1], r)
    BY <2>2, <2>4 DEF LandsLinks, KeepsLink, OldSide
  <2>6. PICK q \in Holders(Fold[r.old]) : files[q].superseded_by = r.new
    BY <2>5 DEF OldLinked, HoldersIn, Holders, Held
  <2>7. r.new \in Ids /\ r.new # None
    BY <2>2, <2>5, RequestShape, DataAssumption
  <2>8. files'[p].supersedes = r.old /\ KeyOf(files[p]) = Fold[r.new]
    BY <2>2, <2>4, <2>5 DEF NewSide, RoutedByKind
  <2> QED
    BY <2>6, <2>7, <2>8
<1> QED
  BY <1>1, <1>2, NextLinks, PTL DEF Spec, OldSideFirst
=============================================================================
