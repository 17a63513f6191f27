------------------------------ MODULE Proposals ------------------------------
(***************************************************************************)
(* The proposal tools (tools.py) over the markdown storage (markdown.py).  *)
(* A call runs on the event loop up to its first await; its walk reads one *)
(* file per await, so other calls interleave with it; its commit runs on a *)
(* worker thread inside the single-writer mutex, and lands each file by    *)
(* writing a `.tmp` sibling and renaming it.                               *)
(***************************************************************************)
EXTENDS ProposalData, Sequences

CONSTANTS
  Calls,      \* tool calls, each made once
  Requests,   \* the arguments calls are made with
  Notebooks,  \* the files a notebook may hold when the server starts
  Rank,       \* Rank[p]: place of path p in sorted(root.rglob("*.md"))
  NoFile,     \* no file at a path
  Malformed,  \* a file whose frontmatter does not parse
  Adversity,  \* which of "io_error", "crash", "edit" happen
  MaxFaults   \* how many of them, together

WriteRequests     == [op : {"write_proposal"}, mode : {"create", "update"},
                      doc : {d \in Docs : Valid(d)}]
StatusRequests    == [op : {"update_proposal_status"}, id : Ids,
                      status : Statuses, test : Tests \cup {None}]
SupersedeRequests == [op : {"supersede_proposal"}, old : Ids, new : Ids]
ReadRequests      == [op : {"read_proposal"}, id : Ids]
ListRequests      == [op : {"list_proposals"}, dir : Dirs \cup {None},
                      status : Statuses \cup {None},
                      kind : Kinds \cup {OtherKind, None}]
BadRequests       == [op : {"invalid"}]  \* arguments that fail validation

AllRequests == WriteRequests \cup StatusRequests \cup SupersedeRequests
                 \cup ReadRequests \cup ListRequests \cup BadRequests

ASSUME ProposalsAssumption ==
  /\ Requests \subseteq AllRequests
  /\ Notebooks \subseteq [Paths -> Docs \cup {NoFile}]
  /\ Rank \in [Paths -> Nat]
  /\ \A p, q \in Paths : Rank[p] = Rank[q] => p = q
  /\ NoFile \notin Docs /\ Malformed \notin Docs /\ NoFile # Malformed
  /\ None \notin Calls /\ None \notin Docs
  /\ MaxFaults \in Nat

VARIABLES
  exists,  \* the notebook directory exists
  files,   \* files[p]: what the .md file at p holds
  tmp,     \* tmp[p]: what the .md.tmp sibling of p holds
  lock,    \* the call that owns LabNotebookMutex, or None
  pc,      \* where each call is
  req,     \* its arguments
  todo,    \* <<id, path>> pairs its walk has still to read
  found,   \* <<id, path>> pairs its walk matched
  work,    \* the commits its critical section has still to land
  result,  \* what it will answer
  before,  \* history: the paths that had a file when it started
  faults   \* faults so far

disk == <<exists, files, tmp>>
call == <<pc, req, todo, found, work, result, before>>
vars == <<disk, call, lock, faults>>

Nothing == [is |-> "none", paths |-> {}, doc |-> None]

Errors == {"not_initialized", "invalid", "self_reference", "not_found",
           "ambiguous_id", "id_conflict", "already_exists", "parse_error",
           "tool_error"}

Held(f, p) == f[p] \in Docs
Holders(k) == {p \in Paths : Held(files, p) /\ KeyOf(files[p]) = k}

Labels  == {"idle", "walk", "reread", "queued", "tmp", "rename", "reply",
            "done", "lost"}
Commits == [path : Paths, doc : Docs]
Results == [is : Errors \cup {"none", "ok"}, paths : SUBSET Paths,
            doc : Docs \cup {None}]

TypeOK ==
  /\ exists \in BOOLEAN
  /\ files \in [Paths -> Docs \cup {NoFile, Malformed}]
  /\ tmp \in [Paths -> Docs \cup {NoFile, Malformed}]
  /\ lock \in Calls \cup {None}
  /\ pc \in [Calls -> Labels]
  /\ req \in [Calls -> AllRequests \cup {None}]
  /\ todo \in [Calls -> SUBSET ((Ids \cup {None}) \X Paths)]
  /\ found \in [Calls -> SUBSET ((Ids \cup {None}) \X Paths)]
  /\ work \in [Calls -> Seq(Commits)]
  /\ result \in [Calls -> Results]
  /\ before \in [Calls -> SUBSET Paths]
  /\ faults \in 0 .. MaxFaults

Init ==
  /\ exists \in BOOLEAN
  /\ files \in Notebooks
  /\ ~exists => \A p \in Paths : files[p] = NoFile
  /\ tmp = [p \in Paths |-> NoFile]
  /\ lock = None
  /\ pc = [c \in Calls |-> "idle"]
  /\ req = [c \in Calls |-> None]
  /\ todo = [c \in Calls |-> {}]
  /\ found = [c \in Calls |-> {}]
  /\ work = [c \in Calls |-> <<>>]
  /\ result = [c \in Calls |-> Nothing]
  /\ before = [c \in Calls |-> {}]
  /\ faults = 0

Goto(c, l) == pc' = [pc EXCEPT ![c] = l]

Answer(c, is, ps, d) ==
  /\ result' = [result EXCEPT ![c] = [is |-> is, paths |-> ps, doc |-> d]]
  /\ Goto(c, "reply")

Fail(c, is) == Answer(c, is, {}, None)

-----------------------------------------------------------------------------
(* The event loop: from the request to the first await.                    *)

Bootstrap ==
  /\ ~exists
  /\ exists' = TRUE
  /\ UNCHANGED <<files, tmp, call, lock, faults>>

\* The ids a handler looks up; list_proposals walks once, for no id.
Sought(r) ==
  CASE r.op \in {"update_proposal_status", "read_proposal"} -> {r.id}
    [] r.op = "supersede_proposal" -> {r.old, r.new}
    [] r.op = "list_proposals" -> {None}
    [] OTHER -> {}

\* sorted(root.rglob("*.md")), less the subdirs `system` filters out.
Listing(r) ==
  {p \in Paths : /\ files[p] # NoFile
                 /\ r.op = "list_proposals" => r.dir \in {None, p.dir}}

Rejected(r) ==
  IF ~exists THEN "not_initialized"
  ELSE IF r.op = "invalid" THEN "invalid"
  ELSE IF r.op = "supersede_proposal" /\ r.old = r.new THEN "self_reference"
  ELSE "ok"

Start(c, r) ==
  /\ pc[c] = "idle"
  /\ req' = [req EXCEPT ![c] = r]
  /\ before' = [before EXCEPT ![c] = {p \in Paths : files[p] # NoFile}]
  /\ IF Rejected(r) # "ok"
     THEN Fail(c, Rejected(r)) /\ todo' = todo
     ELSE /\ Goto(c, IF r.op = "write_proposal" THEN "queued" ELSE "walk")
          /\ todo' = [todo EXCEPT ![c] = Sought(r) \X Listing(r)]
          /\ result' = result
  /\ UNCHANGED <<disk, found, work, lock, faults>>

-----------------------------------------------------------------------------
(* The walk: one parse_doc per file, in sorted order; the two walks of     *)
(* supersede_proposal run under asyncio.gather.                            *)

IdMatchesExactly(d, i) == d.id = i

IdMatches(d, i) == KeyOf(d) = Fold[i]

ShownIfParsed(r, f) ==
  f \in Docs /\ r.status \in {None, f.status} /\ r.kind \in {None, f.kind}

Shown(r, f) ==
  \/ f = Malformed
  \/ f \in Docs /\ r.status \in {None, f.status} /\ r.kind \in {None, f.kind}

Matches(r, i, f) ==
  IF r.op = "list_proposals" THEN Shown(r, f)
  ELSE f \in Docs /\ IdMatches(f, i)

WalkFile(c, i, p) ==
  /\ pc[c] = "walk"
  /\ <<i, p>> \in todo[c]
  /\ \A q \in Paths : <<i, q>> \in todo[c] => Rank[p] <= Rank[q]
  /\ todo' = [todo EXCEPT ![c] = @ \ {<<i, p>>}]
  /\ found' = IF Matches(req[c], i, files[p])
              THEN [found EXCEPT ![c] = @ \cup {<<i, p>>}] ELSE found
  /\ UNCHANGED <<disk, pc, req, work, result, before, lock, faults>>

WalkedTo(c, i) == {p \in Paths : <<i, p>> \in found[c]}
PathOf(c, i) == CHOOSE p \in Paths : <<i, p>> \in found[c]
WalkOver(c) == pc[c] = "walk" /\ todo[c] = {}

LookupAny(c) ==
  IF \E i \in Sought(req[c]) : WalkedTo(c, i) = {} THEN "not_found" ELSE "ok"

Lookup(c) ==
  IF \E i \in Sought(req[c]) : WalkedTo(c, i) = {} THEN "not_found"
  ELSE IF \E i \in Sought(req[c]) : Cardinality(WalkedTo(c, i)) > 1
  THEN "ambiguous_id" ELSE "ok"

LookupFails(c) ==
  /\ WalkOver(c)
  /\ req[c].op # "list_proposals"
  /\ Lookup(c) # "ok"
  /\ Fail(c, Lookup(c))
  /\ UNCHANGED <<disk, req, todo, found, work, before, lock, faults>>

LookupSucceeds(c) ==
  /\ WalkOver(c)
  /\ req[c].op # "list_proposals"
  /\ Lookup(c) = "ok"
  /\ Goto(c, IF req[c].op = "read_proposal" THEN "reread" ELSE "queued")
  /\ UNCHANGED <<disk, req, todo, found, work, result, before, lock, faults>>

ListDone(c) ==
  /\ WalkOver(c)
  /\ req[c].op = "list_proposals"
  /\ Answer(c, "ok", WalkedTo(c, None), None)
  /\ UNCHANGED <<disk, req, todo, found, work, before, lock, faults>>

\* read_proposal parses the file it found a second time.
Reread(c) ==
  LET p == PathOf(c, req[c].id) IN
  /\ pc[c] = "reread"
  /\ IF files[p] \in Docs THEN Answer(c, "ok", {p}, files[p])
     ELSE Fail(c, "parse_error")
  /\ UNCHANGED <<disk, req, todo, found, work, before, lock, faults>>

-----------------------------------------------------------------------------
(* The critical section, on a worker thread: everything up to the first    *)
(* file write happens as one step, since no other writer can take a step.  *)

First(S) == CHOOSE p \in S : \A q \in S : Rank[p] <= Rank[q]

HereAnyId(d) == {p \in Paths : Held(files, p) /\ p.dir = Route(d)}

Here(d) == {p \in Holders(KeyOf(d)) : p.dir = Route(d)}

ElsewhereIgnored(d) == {}

Elsewhere(d) == {p \in Holders(KeyOf(d)) : p.dir # Route(d)}

WriteErrorOverwriting(r) ==
  IF Elsewhere(r.doc) # {} THEN "id_conflict"
  ELSE IF r.mode = "update" /\ Here(r.doc) = {} THEN "not_found"
  ELSE "ok"

WriteError(r) ==
  IF Elsewhere(r.doc) # {} THEN "id_conflict"
  ELSE IF r.mode = "create" /\ Here(r.doc) # {} THEN "already_exists"
  ELSE IF r.mode = "update" /\ Here(r.doc) = {} THEN "not_found"
  ELSE "ok"

WritePlan(r) ==
  <<[path |-> IF r.mode = "create" THEN Target(r.doc) ELSE First(Here(r.doc)),
     doc |-> r.doc]>>

StatusPlanUnset(c, r) ==
  LET p == PathOf(c, r.id) IN
  <<[path |-> p,
     doc |-> [files[p] EXCEPT !.status = r.status, !.test = r.test]]>>

StatusPlan(c, r) ==
  LET p == PathOf(c, r.id) IN
  <<[path |-> p,
     doc |-> [files[p] EXCEPT !.status = r.status,
                              !.test = IF r.test = None THEN @ ELSE r.test]]>>

SupersedePlanNewFirst(c, r) ==
  LET o == PathOf(c, r.old)
      n == PathOf(c, r.new)
  IN <<[path |-> n, doc |-> [files[n] EXCEPT !.supersedes = r.old]],
       [path |-> o, doc |-> [files[o] EXCEPT !.superseded_by = r.new]]>>

\* Both files are read before either is written.
SupersedePlan(c, r) ==
  LET o == PathOf(c, r.old)
      n == PathOf(c, r.new)
  IN <<[path |-> o, doc |-> [files[o] EXCEPT !.superseded_by = r.new]],
       [path |-> n, doc |-> [files[n] EXCEPT !.supersedes = r.old]]>>

Plan(c, r) ==
  IF r.op = "write_proposal" THEN WritePlan(r)
  ELSE IF r.op = "update_proposal_status" THEN StatusPlan(c, r)
  ELSE SupersedePlan(c, r)

Verdict(c, r) ==
  IF r.op = "write_proposal" THEN WriteError(r)
  ELSE IF \A i \in Sought(r) : files[PathOf(c, i)] \in Docs THEN "ok"
  ELSE "parse_error"

NoMutex(c) == TRUE

MutexFree(c) == lock = None

\* An early return inside the with block: the mutex is taken and released.
Refuse(c) ==
  /\ pc[c] = "queued"
  /\ MutexFree(c)
  /\ Verdict(c, req[c]) # "ok"
  /\ Fail(c, Verdict(c, req[c]))
  /\ UNCHANGED <<disk, req, todo, found, work, before, lock, faults>>

Enter(c) ==
  /\ pc[c] = "queued"
  /\ MutexFree(c)
  /\ Verdict(c, req[c]) = "ok"
  /\ lock' = c
  /\ work' = [work EXCEPT ![c] = Plan(c, req[c])]
  /\ Goto(c, "tmp")
  /\ UNCHANGED <<disk, req, todo, found, result, before, faults>>

ReleaseForgotten == UNCHANGED lock

Release == lock' = None

WriteTmpIfNone(c) ==
  LET w == Head(work[c]) IN
  /\ pc[c] = "tmp"
  /\ tmp' = IF tmp[w.path] = NoFile THEN [tmp EXCEPT ![w.path] = w.doc] ELSE tmp
  /\ Goto(c, "rename")
  /\ UNCHANGED <<exists, files, req, todo, found, work, result, before, lock,
                 faults>>

\* commit_doc_text: tmp.write_text ...
WriteTmp(c) ==
  LET w == Head(work[c]) IN
  /\ pc[c] = "tmp"
  /\ tmp' = [tmp EXCEPT ![w.path] = w.doc]
  /\ Goto(c, "rename")
  /\ UNCHANGED <<exists, files, req, todo, found, work, result, before, lock,
                 faults>>

\* What a call reports: write_proposal names the target, not the file written.
Reported(c) ==
  LET r == req[c] IN
  IF r.op = "write_proposal" THEN {Target(r.doc)}
  ELSE {PathOf(c, i) : i \in Sought(r)}

\* ... os.replace; after the last file the mutex is released.
Rename(c) ==
  LET p == Head(work[c]).path IN
  /\ pc[c] = "rename"
  /\ files' = [files EXCEPT ![p] = tmp[p]]
  /\ tmp' = [tmp EXCEPT ![p] = NoFile]
  /\ work' = [work EXCEPT ![c] = Tail(@)]
  /\ IF Len(work[c]) > 1
     THEN Goto(c, "tmp") /\ UNCHANGED <<result, lock>>
     ELSE Answer(c, "ok", Reported(c), None) /\ Release
  /\ UNCHANGED <<exists, req, todo, found, before, faults>>

Reply(c) ==
  /\ pc[c] = "reply"
  /\ Goto(c, "done")
  /\ UNCHANGED <<disk, req, todo, found, work, result, before, lock, faults>>

-----------------------------------------------------------------------------
(* What goes wrong.                                                        *)

Fault(kind) ==
  /\ kind \in Adversity
  /\ faults < MaxFaults
  /\ faults' = faults + 1

\* What a write cut short leaves of the sibling: all that was there, or a part
\* of the text.
Torn(c) ==
  LET p == Head(work[c]).path IN
  {tmp} \cup (IF pc[c] = "tmp" THEN {[tmp EXCEPT ![p] = Malformed]} ELSE {})

\* Best-effort: an OSError of the unlink itself is suppressed.
Unlink(c) ==
  LET p == Head(work[c]).path IN
  \E t \in Torn(c) : tmp' \in {[t EXCEPT ![p] = NoFile], t}

\* The mutex is released; call_tool answers the exception, as "tool_error" or
\* as "forbidden", which are one here.
CommitFails(c) ==
  /\ Fault("io_error")
  /\ pc[c] \in {"tmp", "rename"}
  /\ Unlink(c)
  /\ work' = [work EXCEPT ![c] = <<>>]
  /\ Release
  /\ Fail(c, "tool_error")
  /\ UNCHANGED <<exists, files, req, todo, found, before>>

\* A file cannot be read: walks and critical sections catch ValueError only.
ReadFails(c) ==
  /\ Fault("io_error")
  /\ \/ pc[c] = "walk" /\ todo[c] # {}
     \/ pc[c] = "reread"
     \/ pc[c] = "queued" /\ MutexFree(c) /\ \E p \in Paths : files[p] # NoFile
  /\ Fail(c, "tool_error")
  /\ UNCHANGED <<disk, req, todo, found, work, before, lock>>

\* The process dies and is restarted: calls in flight are never answered.
Crash ==
  /\ Fault("crash")
  /\ pc' = [c \in Calls |-> IF pc[c] \in {"idle", "done"} THEN pc[c] ELSE "lost"]
  /\ work' = [c \in Calls |-> <<>>]
  /\ lock' = None
  /\ tmp' \in IF lock = None THEN {tmp} ELSE Torn(lock)
  /\ UNCHANGED <<exists, files, req, todo, found, result, before>>

\* Somebody's editor breaks the frontmatter of a file; no other edit is made.
Edit(p) ==
  /\ Fault("edit")
  /\ Held(files, p)
  /\ files' = [files EXCEPT ![p] = Malformed]
  /\ UNCHANGED <<exists, tmp, call, lock>>

-----------------------------------------------------------------------------
CallStep(c) ==
  \/ \E i \in Ids \cup {None}, p \in Paths : WalkFile(c, i, p)
  \/ LookupFails(c) \/ LookupSucceeds(c) \/ ListDone(c) \/ Reread(c)
  \/ Refuse(c) \/ Enter(c) \/ WriteTmp(c) \/ Rename(c) \/ Reply(c)

Next ==
  \/ Bootstrap
  \/ \E c \in Calls, r \in Requests : Start(c, r)
  \/ \E c \in Calls : CallStep(c)
  \/ \E c \in Calls : CommitFails(c) \/ ReadFails(c)
  \/ Crash
  \/ \E p \in Paths : Edit(p)

Spec == Init /\ [][Next]_vars

\* The event loop and the worker threads keep running a call once it started.
Fairness == \A c \in Calls : WF_vars(CallStep(c))

FairSpec == Spec /\ Fairness

-----------------------------------------------------------------------------
(* Properties.                                                             *)

\* No two files hold proposals whose ids differ only in case, wherever they
\* are routed: the uniqueness walk and the write are one critical section
\* (tools.py:329-366).
UniqueIds ==
  \A p, q \in Paths :
    Held(files, p) /\ Held(files, q) /\ KeyOf(files[p]) = KeyOf(files[q])
      => p = q

\* However a proposal is rewritten, its file stays in the directory its kind
\* and proposer route it to, under a name that is its id up to case
\* (tools.py:176-189, 333-364).
RoutedByKind ==
  \A p \in Paths : Held(files, p) =>
    p.dir = Route(files[p]) /\ Fold[p.name] = KeyOf(files[p])

Answered(c, op, is) == req[c] # None /\ req[c].op = op /\ result[c].is = is

Created(c) == Answered(c, "write_proposal", "ok") /\ req[c].mode = "create"

\* Of concurrent creates of one id, at most one succeeds (tools.py:287-291).
OneCreateWins ==
  \A c, e \in Calls :
    Created(c) /\ Created(e) /\ KeyOf(req[c].doc) = KeyOf(req[e].doc) => c = e

\* No lookup is answered ambiguous_id, although its walk reads one file at a
\* time while other calls commit (tools.py:224-233).
NeverAmbiguous == \A c \in Calls : result[c].is # "ambiguous_id"

\* A proposal that was on disk when a lookup started is not reported missing
\* (tools.py:224-233, 402, 581, 663-668).
NotFoundIsHonest ==
  \A c \in Calls :
    result[c].is = "not_found" /\ req[c].op # "write_proposal" =>
    \E i \in Sought(req[c]) : before[c] \cap Holders(Fold[i]) = {}

\* What read_proposal returns has the id asked for, although the file it found
\* is read again after other calls may have rewritten it (tools.py:411-428).
ReadReturnsTheIdAsked ==
  \A c \in Calls : Answered(c, "read_proposal", "ok") =>
    KeyOf(result[c].doc) = Fold[req[c].id]

\* An unfiltered listing shows every file that was there when it started, the
\* ones that do not parse included (tools.py:467-492).
ListMissesNothing ==
  \A c \in Calls :
    /\ Answered(c, "list_proposals", "ok")
    /\ req[c].dir = None /\ req[c].status = None /\ req[c].kind = None
    => before[c] \subseteq result[c].paths

\* A file only takes on the whole text the owner of the mutex planned for it:
\* whatever a failed write, a failed clean-up or a crash left in the .tmp
\* sibling is never renamed onto it by a later call (markdown.py:106-116).
LeftoversNeverLand ==
  [][\A p \in Paths : files'[p] # files[p] =>
       \/ Edit(p)
       \/ \E c \in Calls :
            /\ lock = c /\ work[c] # <<>>
            /\ Head(work[c]) = [path |-> p, doc |-> files'[p]]]_vars

\* A proposal only comes to supersede another when that other already says it
\* is superseded by it, so a supersede_proposal that stops half way leaves at
\* most the old side linked (tools.py:636-638, 695-701).
OldSideFirst ==
  [][\A p \in Paths :
       /\ Held(files, p) /\ Held(files', p)
       /\ files'[p].supersedes \notin {files[p].supersedes, None}
       => \E q \in Holders(Fold[files'[p].supersedes]) :
            /\ files[q].superseded_by # None
            /\ Fold[files[q].superseded_by] = KeyOf(files[p])]_vars

\* Proposals of one id left in two subdirs by earlier versions are never
\* written to: every tool refuses the id (tools.py:335-344, 583-588, 669-674).
DuplicatesAreFrozen ==
  [][\A p \in Paths :
       /\ Held(files, p) /\ \E q \in Holders(KeyOf(files[p])) : q.dir # p.dir
       /\ Held(files', p)
       => files'[p] = files[p]]_vars

\* A call that started is answered, unless the process dies (mutex.py:65-75,
\* asyncio.to_thread throughout tools.py).
EveryCallAnswered ==
  \A c \in Calls : pc[c] \notin {"idle", "lost"} ~> pc[c] \in {"done", "lost"}

\* No proposal supersedes itself (tools.py:649-655: old_id and new_id must
\* differ, for a self-reference would create a self-loop).
NoSelfLink ==
  \A p \in Paths : Held(files, p) /\ files[p].supersedes # None =>
    Fold[files[p].supersedes] # KeyOf(files[p])

\* A create never lands on a file that is already there (tools.py:271-272:
\* "rejects with already_exists if the target path already has a proposal").
CreateNeverReplaces ==
  [][\A c \in Calls :
       pc[c] = "rename" /\ Created(c)' => files[Head(work[c]).path] = NoFile]_vars
=============================================================================
