-------------------------------- MODULE Gaps --------------------------------
(***************************************************************************)
(* add_gap, remove_gap, list_gaps and bootstrap (tools.py) over the one    *)
(* file gaps.md.  The first two read, modify and write it on a worker      *)
(* thread inside the single-writer mutex; list_gaps reads it and bootstrap *)
(* creates it without.  A write truncates the file and then fills it.      *)
(***************************************************************************)
EXTENDS GapsText, Integers

CONSTANTS
  Calls,        \* tool calls, each made once
  Requests,     \* the arguments they are made with
  FirstTexts,   \* what gaps.md may hold at first; NoFile if nothing
  NoFile,
  Placeholder,  \* what bootstrap writes
  Adversity,    \* which of "io_error", "crash" happen
  MaxFaults     \* how many of them, together

FieldLines == {<<Field(v)>> : v \in Fields}

AllRequests ==
  [op : {"add_gap"}, id : GapIds, fields : FieldLines]
    \cup [op : {"remove_gap"}, id : GapIds]
    \cup [op : {"list_gaps", "bootstrap", "invalid"}]

ASSUME GapsAssumption ==
  /\ Requests \subseteq AllRequests
  /\ FirstTexts \subseteq Seq(TextLines) \cup {NoFile}
  /\ Placeholder \in Seq(TextLines) /\ Placeholder # <<>>
  /\ <<>> \notin FirstTexts
  /\ NoFile \notin Seq(TextLines)
  /\ None \notin Calls
  /\ MaxFaults \in Nat

VARIABLES
  exists,  \* the notebook directory exists
  file,    \* the text of gaps.md, or NoFile
  lock,    \* the call that owns LabNotebookMutex, or None
  pc,      \* where each call is
  req,     \* its arguments
  work,    \* the text it is about to write
  result,  \* what it will answer
  window,  \* history: the gap lists there have been since it started
  faults   \* faults so far

vars == <<exists, file, lock, pc, req, work, result, window, faults>>

Nothing == [is |-> "none", position |-> 0, gaps |-> <<>>]

TextOf(f) == IF f = NoFile THEN EmptyText ELSE f

\* The gap list: what a write that has begun is writing, else what is on disk.
Committed ==
  IF \E c \in Calls : pc[c] = "fill"
  THEN Gaps(work[CHOOSE c \in Calls : pc[c] = "fill"]) ELSE Gaps(TextOf(file))

EntryWithoutId(r) == FormatGapEntry(None, r.fields)

EntryOf(r) == FormatGapEntry(r.id, r.fields)

Init ==
  /\ exists \in BOOLEAN
  /\ file \in FirstTexts
  /\ ~exists => file = NoFile
  /\ lock = None
  /\ pc = [c \in Calls |-> "idle"]
  /\ req = [c \in Calls |-> None]
  /\ work = [c \in Calls |-> EmptyText]
  /\ result = [c \in Calls |-> Nothing]
  /\ window = [c \in Calls |-> {}]
  /\ faults = 0

Goto(c, l) == pc' = [pc EXCEPT ![c] = l]

Answer(c, is, n, gs) ==
  result' = [result EXCEPT ![c] = [is |-> is, position |-> n, gaps |-> gs]]

Rejected(r) ==
  IF r.op = "bootstrap" THEN "ok"
  ELSE IF ~exists THEN "not_initialized"
  ELSE IF r.op = "invalid" THEN "missing_argument" ELSE "ok"

\* The event loop: from the request to asyncio.to_thread.
Start(c, r) ==
  /\ pc[c] = "idle"
  /\ req' = [req EXCEPT ![c] = r]
  /\ window' = [window EXCEPT ![c] = {Committed}]
  /\ IF Rejected(r) = "ok" THEN Goto(c, "queued") /\ UNCHANGED result
     ELSE Goto(c, "done") /\ Answer(c, Rejected(r), 0, <<>>)
  /\ UNCHANGED <<exists, file, lock, work, faults>>

-----------------------------------------------------------------------------
(* list_gaps: one read of the file.                                        *)

ListGaps(c) ==
  /\ pc[c] = "queued" /\ req[c].op = "list_gaps"
  /\ Answer(c, "listed", 0, Gaps(TextOf(file)))
  /\ Goto(c, "done")
  /\ UNCHANGED <<exists, file, lock, req, work, window, faults>>

-----------------------------------------------------------------------------
(* add_gap and remove_gap: the mutex is taken, the file read and the text  *)
(* to write computed in one step, for no other writer can intervene.       *)

NoMutex(c) == TRUE

MutexFree(c) == lock = None

Queued(c, op) == pc[c] = "queued" /\ req[c].op = op /\ MutexFree(c)

ThenWrite(c, text) ==
  /\ lock' = c
  /\ work' = [work EXCEPT ![c] = text]
  /\ Goto(c, "truncate")
  /\ UNCHANGED <<exists, file, req, window, faults>>

ThenReturn(c) ==
  /\ Goto(c, "done")
  /\ UNCHANGED <<exists, file, lock, req, work, window, faults>>

PositionBefore(t) == Len(Gaps(t))

NewPosition(t) == Len(Gaps(t)) + 1

AddNew(c) ==
  LET t == TextOf(file) IN
  /\ Queued(c, "add_gap")
  /\ ~Known(t, req[c].id)
  /\ Answer(c, "added", NewPosition(t), <<>>)
  /\ ThenWrite(c, AppendEntry(t, EntryOf(req[c])))

AddAgain(c) ==
  LET t == TextOf(file) IN
  /\ Queued(c, "add_gap")
  /\ Known(t, req[c].id)
  /\ Answer(c, "already_present", Position(Gaps(t), req[c].id), <<>>)
  /\ ThenReturn(c)

RemoveKnown(c) ==
  LET t == TextOf(file) IN
  /\ Queued(c, "remove_gap")
  /\ Known(t, req[c].id)
  /\ Answer(c, "removed", 0, <<>>)
  /\ ThenWrite(c, RemoveEntry(t, req[c].id))

RemoveUnknown(c) ==
  /\ Queued(c, "remove_gap")
  /\ ~Known(TextOf(file), req[c].id)
  /\ Answer(c, "absent", 0, <<>>)
  /\ ThenReturn(c)

-----------------------------------------------------------------------------
(* bootstrap, as far as gaps.md goes: the directories, then the file.      *)

MakeDirs(c) ==
  /\ pc[c] = "queued" /\ req[c].op = "bootstrap"
  /\ exists' = TRUE
  /\ Goto(c, "check")
  /\ UNCHANGED <<file, lock, req, work, result, window, faults>>

CheckFile(c) ==
  /\ pc[c] = "check"
  /\ IF file = NoFile
     THEN Goto(c, "truncate") /\ work' = [work EXCEPT ![c] = Placeholder]
     ELSE Goto(c, "done") /\ UNCHANGED work
  /\ Answer(c, "ok", 0, <<>>)
  /\ UNCHANGED <<exists, file, lock, req, window, faults>>

-----------------------------------------------------------------------------
(* Path.write_text: open for writing, which truncates, then write.         *)

NotTruncated(f) == f

Truncated(f) == EmptyText

Truncate(c) ==
  /\ pc[c] = "truncate"
  /\ file' = Truncated(TextOf(file))
  /\ Goto(c, "fill")
  /\ window' = [d \in Calls |-> IF pc[d] \in {"idle", "done"} THEN window[d]
                                ELSE window[d] \cup {Gaps(work[c])}]
  /\ UNCHANGED <<exists, lock, req, work, result, faults>>

\* A write goes to the start of the file: what lies beyond it stays.
Over(new, old) == new \o SubSeq(old, Len(new) + 1, Len(old))

ReleaseForgotten(c) == UNCHANGED lock

Release(c) == lock' = IF lock = c THEN None ELSE lock

Fill(c) ==
  /\ pc[c] = "fill"
  /\ file' = Over(work[c], file)
  /\ Release(c)
  /\ Goto(c, "done")
  /\ UNCHANGED <<exists, req, work, result, window, faults>>

-----------------------------------------------------------------------------
Fault(kind) ==
  /\ kind \in Adversity
  /\ faults < MaxFaults
  /\ faults' = faults + 1

\* An EACCES is a PermissionError, which call_tool reports as "forbidden".
FailedAt(c) ==
  /\ Release(c)
  /\ \E is \in {"tool_error", "forbidden"} : Answer(c, is, 0, <<>>)
  /\ Goto(c, "done")
  /\ UNCHANGED <<exists, req, work, window>>

\* The file cannot be opened, to read or to write.
OpenFails(c) ==
  /\ Fault("io_error")
  /\ \/ pc[c] = "truncate"
     \/ pc[c] = "queued" /\ (req[c].op = "list_gaps" \/ MutexFree(c))
  /\ FailedAt(c)
  /\ UNCHANGED file

\* The disk fills up before everything is written.
WriteFails(c) ==
  /\ Fault("io_error")
  /\ pc[c] = "fill"
  /\ \E n \in 1 .. Len(work[c]) - 1 : file' = Over(SubSeq(work[c], 1, n), file)
  /\ FailedAt(c)

\* The process dies and is restarted: calls in flight are never answered.
Crash ==
  /\ Fault("crash")
  /\ pc' = [c \in Calls |-> IF pc[c] \in {"idle", "done"} THEN pc[c] ELSE "lost"]
  /\ lock' = None
  /\ UNCHANGED <<exists, file, req, work, result, window>>

CallStep(c) ==
  \/ ListGaps(c) \/ AddNew(c) \/ AddAgain(c) \/ RemoveKnown(c)
  \/ RemoveUnknown(c) \/ MakeDirs(c) \/ CheckFile(c) \/ Truncate(c) \/ Fill(c)

Next ==
  \/ \E c \in Calls, r \in Requests : Start(c, r)
  \/ \E c \in Calls : CallStep(c) \/ OpenFails(c) \/ WriteFails(c)
  \/ Crash

Spec == Init /\ [][Next]_vars

-----------------------------------------------------------------------------
(* Properties.                                                             *)

TypeOK ==
  /\ exists \in BOOLEAN
  /\ file = NoFile \/ (file \in Seq(TextLines) /\ file # <<>>)
  /\ lock \in Calls \cup {None}
  /\ pc \in [Calls -> {"idle", "queued", "check", "truncate", "fill", "done",
                       "lost"}]
  /\ \A c \in Calls : req[c] \in AllRequests \cup {None}
  /\ \A c \in Calls : work[c] \in Seq(TextLines) /\ work[c] # <<>>
  /\ faults \in 0 .. MaxFaults

\* However many calls add a gap at once, and whichever of them fail or die, no
\* id is listed twice (tools.py:995-998, 1031-1040).
NoDuplicateGaps ==
  \A i, j \in DOMAIN Committed : Committed[i].id = Committed[j].id => i = j

\* The mutex is held only by the call that is writing gaps.md: one that fails
\* gives it back (mutex.py:70-75).
MutexIsGivenBack == lock # None => pc[lock] \in {"truncate", "fill"}

Listed(c) == result[c].is = "listed"

\* A listing is a list there was during the call, or empty because a write was
\* under way: never a mixture of two (tools.py:1063, gaps.py:192-195).
ListIsWholeOrEmpty ==
  \A c \in Calls : Listed(c) => result[c].gaps \in window[c] \cup {<<>>}

\* A listing is a list there was during the call (gaps.py:193-194: no rename is
\* needed, for "the mutex covers the read-modify-write").
ListIsWhole == \A c \in Calls : Listed(c) => result[c].gaps \in window[c]

\* A gap that add_gap has answered for is in gaps.md, whenever nobody is writing
\* it and nobody asked to remove that gap (README.md:18, tools.py:127-133).
GapsAreKept ==
  (\A c \in Calls : pc[c] # "fill") =>
    \A c \in Calls :
      /\ result[c].is \in {"added", "already_present"} /\ pc[c] = "done"
      /\ \A d \in Calls : req[d] # [op |-> "remove_gap", id |-> req[c].id]
      => Known(TextOf(file), req[c].id)

Answers == {"added", "already_present", "removed", "absent"}

AnswerBar ==
  [c \in Calls |->
     IF pc[c] \in {"fill", "done"} /\ result[c].is \in Answers
     THEN [is |-> result[c].is, position |-> result[c].position] ELSE None]

List == INSTANCE GapList WITH
          gaps <- Committed, answer <- AnswerBar, Fields <- FieldLines,
          InitialLists <- {Gaps(TextOf(f)) : f \in FirstTexts}

\* Over truncated files and racing calls, the gap tools implement the list:
\* every step is one step of it or none, answers and positions included.
ImplementsGapList == List!Spec
=============================================================================
