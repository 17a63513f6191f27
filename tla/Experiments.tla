----------------------------- MODULE Experiments -----------------------------
(***************************************************************************)
(* write_experiment, read_experiment and list_experiments (tools.py) over  *)
(* the file system.  No mutex: write_doc runs on a worker thread, writes   *)
(* the `.tmp` sibling of the run's file and renames it.  Two writes of one *)
(* run share that sibling, and a thread that has it open keeps writing to  *)
(* the same inode after the other one has renamed it.                      *)
(***************************************************************************)
EXTENDS ExperimentData, Naturals, FiniteSets

CONSTANTS
  Calls,      \* tool calls, each made once
  Requests,   \* the arguments they are made with
  FirstRuns,  \* the records a notebook may hold at first, by path
  Garbled,    \* what a read of a mixture of records may answer
  Adversity,  \* which of "io_error", "crash" happen
  MaxFaults   \* how many of them, together

WriteRequests == [op : {"write_experiment"}, pid : Pids,
                  at : Writable \cup {None}, body : Bodies]
ReadRequests  == [op : {"read_experiment"}, pid : Pids, at : Spellings]
ListRequests  == [op : {"list_experiments"}, pid : Pids \cup {None}]
BadRequests   == [op : {"invalid"}]  \* arguments that fail validation

AllRequests == WriteRequests \cup ReadRequests \cup ListRequests \cup BadRequests

ASSUME ExperimentsAssumption ==
  /\ Requests \subseteq AllRequests
  /\ FirstRuns \subseteq [Paths -> Docs \cup {None}]
  /\ \A runs \in FirstRuns, p \in Paths :
       p.name.fmt = "micro" /\ runs[p] # None =>
         runs[p].pid = p.pid /\ runs[p].at = p.name.at
  /\ \A runs \in FirstRuns, p \in Paths :
       p.name.fmt = "legacy" /\ runs[p] # None =>
         runs[p].pid = p.pid /\ Second[runs[p].at] = p.name.at
  /\ Calls \cap Paths = {}
  /\ None \notin Calls \cup Docs \cup Paths \cup [path : Paths, doc : Docs]
  /\ Garbled \notin Docs \cup {None}
  /\ MaxFaults \in Nat

\* An inode is named after the call that created it, or the path it was at.
Inodes == Calls \cup Paths

VARIABLES
  exists,      \* the notebook directory exists
  file,        \* file[p]: the inode at p, or None
  tmp,         \* tmp[p]: the inode of its .tmp sibling, or None
  data,        \* data[i]: what each half of inode i holds, None if unwritten
  pc,          \* where each call is
  req,         \* its arguments
  path,        \* the path it reads or writes, or None
  fd,          \* the inode it has open for writing, or None
  todo,        \* the directories its listing has still to scan
  listed,      \* the paths its listing has seen
  result,      \* what it answers
  before,      \* history: the paths that had a file when it started
  overlapped,  \* history: writes that met another write of their run
  faults       \* faults so far

vars == <<exists, file, tmp, data, pc, req, path, fd, todo, listed, result,
          before, overlapped, faults>>

Halves == {1, 2}

Nothing == [is |-> "none", doc |-> None]

Writing == {"head", "tail", "replace"}

Present == {p \in Paths : file[p] # None}

Blank == [h \in Halves |-> None]

WholeOf(d) == [h \in Halves |-> d]

TypeOK ==
  /\ exists \in BOOLEAN
  /\ file \in [Paths -> Inodes \cup {None}]
  /\ tmp \in [Paths -> Inodes \cup {None}]
  /\ data \in [Inodes -> [Halves -> Docs \cup {None}]]
  /\ pc \in [Calls -> {"idle", "open", "cleanup", "parse", "scan", "done",
                         "lost"} \cup Writing]
  /\ req \in [Calls -> AllRequests \cup {None}]
  /\ path \in [Calls -> Paths \cup {None}]
  /\ fd \in [Calls -> Inodes \cup {None}]
  /\ todo \in [Calls -> SUBSET Pids]
  /\ listed \in [Calls -> SUBSET Paths]
  /\ result \in [Calls -> [is : {"none", "ok", "not_initialized", "invalid",
                                 "invalid_value", "not_found", "parse_error",
                                 "tool_error"},
                           doc : Docs \cup {Garbled, None}]]
  /\ before \in [Calls -> SUBSET Paths]
  /\ overlapped \subseteq Calls
  /\ faults \in 0 .. MaxFaults

Init ==
  /\ exists \in BOOLEAN
  /\ \E runs \in FirstRuns :
       /\ ~exists => \A p \in Paths : runs[p] = None
       /\ file = [p \in Paths |-> IF runs[p] = None THEN None ELSE p]
       /\ data = [i \in Inodes |-> IF i \in Paths THEN WholeOf(runs[i]) ELSE Blank]
  /\ tmp = [p \in Paths |-> None]
  /\ pc = [c \in Calls |-> "idle"]
  /\ req = [c \in Calls |-> None]
  /\ path = [c \in Calls |-> None]
  /\ fd = [c \in Calls |-> None]
  /\ todo = [c \in Calls |-> {}]
  /\ listed = [c \in Calls |-> {}]
  /\ result = [c \in Calls |-> Nothing]
  /\ before = [c \in Calls |-> {}]
  /\ overlapped = {}
  /\ faults = 0

Goto(c, l) == pc' = [pc EXCEPT ![c] = l]

Say(c, is, d) == result' = [result EXCEPT ![c] = [is |-> is, doc |-> d]]

Answer(c, is, d) == Say(c, is, d) /\ Goto(c, "done")

-----------------------------------------------------------------------------
(* The event loop: from the request to asyncio.to_thread.                  *)

Bootstrap ==
  /\ ~exists
  /\ exists' = TRUE
  /\ UNCHANGED <<file, tmp, data, pc, req, path, fd, todo, listed, result,
                 before, overlapped, faults>>

Rejected(r) ==
  IF ~exists THEN "not_initialized"
  ELSE IF r.op = "invalid" THEN "invalid"
  ELSE IF r.op = "read_experiment" /\ r.at \notin Readable THEN "invalid_value"
  ELSE "ok"

Begin(c, r) ==
  /\ pc[c] = "idle"
  /\ req' = [req EXCEPT ![c] = r]
  /\ before' = [before EXCEPT ![c] = Present]
  /\ UNCHANGED <<exists, file, tmp, data, fd, listed, overlapped, faults>>

Reject(c, r) ==
  /\ Begin(c, r)
  /\ Rejected(r) # "ok"
  /\ Answer(c, Rejected(r), None)
  /\ UNCHANGED <<path, todo>>

\* run_timestamp defaults to the clock.
StartWrite(c, r) ==
  /\ Begin(c, r)
  /\ r.op = "write_experiment" /\ Rejected(r) = "ok"
  /\ \E t \in Times :
       /\ r.at # None => t = Utc[r.at]
       /\ path' = [path EXCEPT ![c] = Target(r.pid, t)]
  /\ Goto(c, "open")
  /\ UNCHANGED <<todo, result>>

\* The file is looked for here and read in a worker thread, later.
StartRead(c, r) ==
  LET p == Found(Present, r.pid, Utc[r.at]) IN
  /\ Begin(c, r)
  /\ r.op = "read_experiment" /\ Rejected(r) = "ok"
  /\ path' = [path EXCEPT ![c] = p]
  /\ IF p = None THEN Answer(c, "not_found", None)
     ELSE Goto(c, "parse") /\ UNCHANGED result
  /\ UNCHANGED todo

StartList(c, r) ==
  /\ Begin(c, r)
  /\ r.op = "list_experiments" /\ Rejected(r) = "ok"
  /\ todo' = [todo EXCEPT ![c] = IF r.pid = None THEN Pids ELSE {r.pid}]
  /\ Goto(c, "scan")
  /\ UNCHANGED <<path, result>>

-----------------------------------------------------------------------------
(* write_doc, on a worker thread.                                          *)

StoredAsAsked(c) == [pid |-> req[c].pid, at |-> req[c].at, body |-> req[c].body]

Stored(c) == [pid |-> req[c].pid, at |-> path[c].name.at, body |-> req[c].body]

SiblingOfTheSecond(p) == [p EXCEPT !.name.at = Second[@]]

\* target.with_name(target.name + ".tmp"): the whole file name stays in it.
Sibling(p) == p

Rivals(c) == {d \in Calls \ {c} : pc[d] \in Writing /\ path[d] = path[c]}

\* open(tmp, "w"): the sibling is created, or the one that is there truncated.
OpenTmp(c) ==
  LET p == Sibling(path[c])
      i == IF tmp[p] = None THEN c ELSE tmp[p]
  IN
  /\ pc[c] = "open"
  /\ tmp' = [tmp EXCEPT ![p] = i]
  /\ data' = [data EXCEPT ![i] = Blank]
  /\ fd' = [fd EXCEPT ![c] = i]
  /\ overlapped' = IF Rivals(c) = {} THEN overlapped
                   ELSE overlapped \cup Rivals(c) \cup {c}
  /\ Goto(c, "head")
  /\ UNCHANGED <<exists, file, req, path, todo, listed, result, before, faults>>

AfterTail == "replace"

AfterHeadAlready == "replace"

AfterHead == "tail"

\* The text is written from the start of the inode the call has open, in more
\* than one write when it is longer than the buffer.
WriteHalf(c, from, half, to) ==
  /\ pc[c] = from
  /\ data' = [data EXCEPT ![fd[c]] = [@ EXCEPT ![half] = Stored(c)]]
  /\ Goto(c, to)
  /\ UNCHANGED <<exists, file, tmp, req, path, fd, todo, listed, result, before,
                 overlapped, faults>>

WriteHead(c) == WriteHalf(c, "head", 1, AfterHead)

WriteTail(c) == WriteHalf(c, "tail", 2, AfterTail)

\* An exception in the middle of a write goes on after the clean-up; call_tool
\* answers it, as "tool_error" or "forbidden", which are one here.
Raise(c) == Say(c, "tool_error", None) /\ Goto(c, "cleanup")

\* os.replace: it fails when another write of the run took the sibling away.
Replace(c) ==
  LET p == path[c] IN
  /\ pc[c] = "replace"
  /\ fd' = [fd EXCEPT ![c] = None]
  /\ IF tmp[Sibling(p)] = None
     THEN Raise(c) /\ UNCHANGED <<file, tmp>>
     ELSE /\ Answer(c, "ok", None)
          /\ file' = [file EXCEPT ![p] = tmp[Sibling(p)]]
          /\ tmp' = [tmp EXCEPT ![Sibling(p)] = None]
  /\ UNCHANGED <<exists, data, req, path, todo, listed, before, overlapped, faults>>

\* The sibling goes, whoever made it; or the unlink fails too, which is
\* suppressed.
CleanUp(c) ==
  /\ pc[c] = "cleanup"
  /\ tmp' \in {[tmp EXCEPT ![Sibling(path[c])] = None], tmp}
  /\ Goto(c, "done")
  /\ UNCHANGED <<exists, file, data, req, path, fd, todo, listed, result, before,
                 overlapped, faults>>

-----------------------------------------------------------------------------
(* read_experiment: what the file holds when it is parsed.                 *)

Whole(i) == \E d \in Docs : data[i] = WholeOf(d)

Parse(c) ==
  LET i == file[path[c]] IN
  /\ pc[c] = "parse"
  /\ IF Whole(i) THEN Answer(c, "ok", data[i][1])
     ELSE \/ Answer(c, "parse_error", None)
          \/ data[i][1] # None /\ Answer(c, "ok", Garbled)
  /\ UNCHANGED <<exists, file, tmp, data, req, path, fd, todo, listed, before,
                 overlapped, faults>>

(* list_experiments: one directory after the other.                        *)

InDirMicroOnly(pid) == {p \in Present : p.pid = pid /\ p.name.fmt = "micro"}

InDir(pid) == {p \in Present : p.pid = pid}

Scan(c, pid) ==
  /\ pc[c] = "scan" /\ pid \in todo[c]
  /\ todo' = [todo EXCEPT ![c] = @ \ {pid}]
  /\ listed' = [listed EXCEPT ![c] = @ \cup InDir(pid)]
  /\ UNCHANGED <<exists, file, tmp, data, pc, req, path, fd, result, before,
                 overlapped, faults>>

ScanDone(c) ==
  /\ pc[c] = "scan" /\ todo[c] = {}
  /\ Answer(c, "ok", None)
  /\ UNCHANGED <<exists, file, tmp, data, req, path, fd, todo, listed, before,
                 overlapped, faults>>

-----------------------------------------------------------------------------
(* What goes wrong.                                                        *)

Fault(kind) ==
  /\ kind \in Adversity
  /\ faults < MaxFaults
  /\ faults' = faults + 1

\* The directory cannot be made: nothing is cleaned up.
MkdirFails(c) ==
  /\ Fault("io_error")
  /\ pc[c] = "open"
  /\ Answer(c, "tool_error", None)
  /\ UNCHANGED <<exists, file, tmp, data, req, path, fd, todo, listed, before,
                 overlapped>>

\* The sibling cannot be opened, filled or renamed.
WriteFails(c) ==
  /\ Fault("io_error")
  /\ pc[c] \in {"open"} \cup Writing
  /\ fd' = [fd EXCEPT ![c] = None]
  /\ Raise(c)
  /\ UNCHANGED <<exists, file, tmp, data, req, path, todo, listed, before,
                 overlapped>>

\* The process dies and is restarted: calls in flight are never answered.
Crash ==
  /\ Fault("crash")
  /\ pc' = [c \in Calls |-> IF pc[c] \in {"idle", "done"} THEN pc[c] ELSE "lost"]
  /\ fd' = [c \in Calls |-> None]
  /\ UNCHANGED <<exists, file, tmp, data, req, path, todo, listed, result, before,
                 overlapped>>

-----------------------------------------------------------------------------
Start(c, r) ==
  Reject(c, r) \/ StartWrite(c, r) \/ StartRead(c, r) \/ StartList(c, r)

CallStep(c) ==
  \/ OpenTmp(c) \/ WriteHead(c) \/ WriteTail(c) \/ Replace(c) \/ CleanUp(c) \/ Parse(c)
  \/ (\E pid \in Pids : Scan(c, pid)) \/ ScanDone(c)

Next ==
  \/ Bootstrap
  \/ \E c \in Calls, r \in Requests : Start(c, r)
  \/ \E c \in Calls : CallStep(c) \/ MkdirFails(c) \/ WriteFails(c)
  \/ Crash

Spec == Init /\ [][Next]_vars

-----------------------------------------------------------------------------
(* The log of records the files stand for.                                 *)

RecordAt(p) ==
  IF file[p] = None THEN None
  ELSE IF Whole(file[p]) THEN data[file[p]][1] ELSE Garbled

LogBar == [p \in Paths |-> RecordAt(p)]

WritingBar ==
  [c \in Calls |-> IF pc[c] \in Writing THEN [path |-> path[c], doc |-> Stored(c)]
                   ELSE None]

Effect(is, d) == [is |-> is, doc |-> d]

\* A run under its old name never changes: its read is over when it is found.
AnswerBar ==
  [c \in Calls |->
     IF pc[c] = "idle" THEN None
     ELSE IF req[c].op = "read_experiment" THEN
       IF path[c] # None /\ path[c].name.fmt = "legacy"
         THEN Effect("read", RecordAt(path[c]))
       ELSE IF result[c].is = "ok" THEN Effect("read", result[c].doc)
       ELSE IF result[c].is = "parse_error" THEN Effect("read", Garbled)
       ELSE IF result[c].is = "not_found" THEN Effect("not_found", None)
       ELSE None
     ELSE IF path[c] = None \/ result[c].is = "none" THEN None
     ELSE IF result[c].is = "ok" THEN Effect("recorded", None)
     ELSE Effect("failed", None)]

Log == INSTANCE ExperimentLog WITH
         log <- LogBar, writing <- WritingBar, answer <- AnswerBar,
         FirstLogs <- FirstRuns \cup {[p \in Paths |-> None]}

-----------------------------------------------------------------------------
(* Properties.                                                             *)

\* Through shared siblings, threads that write to an inode another call has
\* renamed, failures and crashes, the tools implement the log of records: a
\* write that meets no other write of its run is all or nothing, and a read
\* answers what was there (tools.py:839-847, 898-931, markdown.py:106-116).
ImplementsExperimentLog == Log!Spec

\* A record lies at the path its frontmatter names, however its timestamp was
\* spelled and whoever it collided with (tools.py:839-846).
RecordsLieWhereTheySay ==
  \A p \in Paths, h \in Halves :
    /\ file[p] # None /\ p.name.fmt = "micro" /\ data[file[p]][h] # None
    => data[file[p]][h].pid = p.pid /\ data[file[p]][h].at = p.name.at

\* What read_experiment answers is of the run asked for: the very run when it
\* had a file of its own as the read started, and one of v0.1.0 of the same
\* second otherwise, although the file is read later, while other calls write
\* (tools.py:777-793, 898-931).
ReadAnswersTheRunAsked ==
  \A c \in Calls :
    LET d == result[c].doc
        t == Utc[req[c].at]
    IN /\ pc[c] = "done" /\ req[c].op = "read_experiment"
       /\ result[c].is = "ok" /\ d # Garbled
       => /\ d.pid = req[c].pid
          /\ Second[d.at] = Second[t]
          /\ Micro(req[c].pid, t) \in before[c] => d.at = t

\* A listing misses no run that had a file when it started, in either format
\* or none, and shows none that has no file (tools.py:956-986).
ListingIsComplete ==
  \A c \in Calls :
    pc[c] = "done" /\ req[c].op = "list_experiments" /\ result[c].is = "ok" =>
      /\ {p \in before[c] : req[c].pid \in {None, p.pid}} \subseteq listed[c]
      /\ listed[c] \subseteq Present

\* Records of v0.1.0 are never written to, not even by a run of the same second
\* (tools.py:723-726).
LegacyIsNeverWritten ==
  [][\A p \in Paths : p.name.fmt # "micro" => LogBar'[p] = LogBar[p]]_vars
=============================================================================
