# A verification of ebony-enriching

ebony-enriching is an MCP server over a lab notebook: a directory of markdown
files that several agents read and write through thirteen tools. These TLA+
modules model the tools that change the notebook, with the interleavings, failed
writes and crashes they can meet, and the server that dispatches them to worker
threads, and say what the notebook promises in spite of it all. TLC checks small
instances; TLAPS proves the safety properties, action properties and refinements
that those runs show, for every number of calls, every notebook and every set of
ids, under the hypotheses that each theorem names.

Paths such as `tools.py:329` are under `src/ebony_enriching/`.

## The system

| Part | State | Operations | What makes it correct |
|---|---|---|---|
| Proposal tools (`tools.py` 174-713) | `proposals/<subdir>/<id>.md` | write_proposal, update_proposal_status, supersede_proposal, read_proposal, list_proposals | one file per id up to case, in the subdir its kind routes to; no lost update; truthful lookups |
| Markdown storage (`storage/markdown.py`) | the `.tmp` sibling of a file being written | parse_doc, commit_doc_text, write_doc | a file is old or new, never half written; what a failure leaves in a tmp sibling is never renamed |
| Single-writer mutex (`mutex.py`) | `_lock`, `_holder_lock`, `_holder` | acquire, holder, locked | one writer, correctly named, never stuck |
| Gap tools (`tools.py` 992-1109, `storage/gaps.py`) | `gaps.md` | add_gap, remove_gap, list_gaps | one list of distinct gaps; edits touch one entry |
| Bootstrap (`tools.py` 123-171) | the directories and placeholder files | bootstrap | idempotent, destroys nothing |
| Experiment tools (`tools.py` 716-986) | `experiments/<id>/<timestamp>.md` | write_experiment, read_experiment, list_experiments | a write that meets no other write of its run is all or nothing; a record lies where it says; a read returns what was there |
| Dispatch (`server.py` 60-132, `tools.py` 1467-1485, `permissions.py`) | the scope | call_tool, dispatch, list_tools | nothing is written beyond the scope; what is listed can be called; every failure is one answer |
| Worker pool (`asyncio.to_thread`) | a queue and a bounded number of threads | submit, run, cancel | the owner of the mutex always has a thread; the event loop is never held up |
| App, schema, config, transport | configuration | start-up | |

How they interact. A request runs as a coroutine on one event loop until its
first `await`. A lookup by id walks the notebook and awaits one file at a time,
so other requests run between two files. What changes a file runs on a worker
thread (`asyncio.to_thread`) inside `with app.mutex.acquire(...)`; the threads
are really concurrent, with each other and with the event loop. The only other
shared state is the disk. Reads never take the mutex, and neither does bootstrap
nor write_experiment. The threads come from one bounded pool: a call that waits
for the mutex occupies one of them, and a call that is cancelled leaves its
thread to run on. status alone takes a lock on the event loop itself.

What is hard to test here: a walk that overlaps renames, a check made before the
mutex and used inside it, the two writes of supersede_proposal, a write that
fails or a process that dies at any point, gaps.md while it is truncated, two
experiment writes that share a tmp sibling, waiters that fill the thread pool,
and what people write into the files by hand. `PROJECT.json` lists each hazard at its
line with the properties about it.

## The modules

| Module | Models |
|---|---|
| `ProposalData` | ids and the keys they fold to, paths, documents, routing (`schema.py`, `_proposal_target_path`, `_id_matches`) |
| `Proposals` | the five proposal tools over the markdown storage |
| `ProposalStore` | abstract: a store of whole proposals that changes by one create, rewrite, status change or link at a time |
| `ProposalsRefine` | the mapping under which `Proposals` implements `ProposalStore` |
| `Proposals_proofs` | type correctness and the uniqueness of ids, proved |
| `ProposalStore_proofs` | routing, listings, lookups, creates, duplicates and links, and that `Proposals` implements `ProposalStore`, proved |
| `SingleWriter` | abstract: one named writer at a time |
| `LabNotebookMutex` | mutex.py with its two locks, and status |
| `LabNotebookMutex_proofs` | its invariants and that it implements `SingleWriter`, proved |
| `GapsText` | the text helpers of storage/gaps.py |
| `GapsText_proofs` | what those helpers do to the list of any text: lemmas |
| `GapEdits` | a gaps.md edited one call after the other: what the edits do to the list it stands for |
| `GapEdits_proofs` | that parsing, appending and removing are right for every text, proved |
| `GapList` | abstract: a list of gaps and the answers calls get |
| `Gaps` | the gap tools and bootstrap racing over gaps.md |
| `Gaps_proofs` | types, the mutex, whole listings, distinct gaps, and that `Gaps` implements `GapList`, proved |
| `ExperimentData` | instants, their spellings and the file names they become (`tools.py` 716-802) |
| `ExperimentLog` | abstract: a log of records, one per file name |
| `Experiments` | the experiment tools over a file system with inodes, and the mapping to `ExperimentLog` |
| `Experiments_proofs` | its types, where records lie, listings and lookups, and that it implements `ExperimentLog`, proved |
| `Permissions` | scopes, the registry of tools, the start-up that picks the scope |
| `Server` | event loop, dispatch, error envelope and worker pool around `LabNotebookMutex` |
| `Server_proofs` | its invariants, and that the mutex under it still implements `SingleWriter`, proved |
| `MC*` | instances for TLC |

### Proposals

`files[p]` is what the `.md` file at path `p` holds (a document, `Malformed` or
`NoFile`), `tmp[p]` its tmp sibling, `lock` the mutex. Each call is made once,
with arguments from `Requests`; its `pc` follows the code:

- `Start` is the handler up to its first await, with its early returns and the
  sorted listing of the walk. (The two walks of supersede_proposal take their
  listings in this one step; in the code the second may list a little later.)
- `WalkFile` is one iteration of a walk: one file, in sorted order; supersede's
  two walks interleave, as under `asyncio.gather`.
- `LookupFails`, `LookupSucceeds`, `ListDone`, `Reread` are what follows the walk.
- `Enter` and `Refuse` are the critical section up to the first write, as one
  step: no other writer can move meanwhile, and readers change nothing.
- `WriteTmp`, `Rename` are the two halves of commit_doc_text, once per file; the
  mutex is given back with the last one.
- `CommitFails` is a write or rename that raises, the write after any part of its
  text (`Torn`). The mutex is released and the exception answered. The tmp sibling
  is unlinked, or stays: the unlink is best-effort, and an OSError of its own is
  suppressed (`Unlink`, `storage/markdown.py:114`).
- `ReadFails` is a file that cannot be read, in a walk, a second reading or a
  critical section: the handlers catch ValueError only.
- `tool_error` stands for what call_tool answers to an exception; it is `forbidden`
  if that is a PermissionError (`Server` tells them apart).
- `Crash` loses every call in flight and the mutex, and leaves tmp files.
- `Edit` is an editor that breaks the frontmatter of a file, the one change by
  hand that is modelled: nobody repairs a file, renames it or gives it another id
  while calls run. What people did before is in the first notebooks.

Ids are spellings; `Fold` maps each to its casefolded key. A document keeps its
id, kind, proposer, status, test status, text and the two link fields; test_cost,
title and dates would behave like `test` or `text` and are left out. Paths are
case-sensitive, as on Linux.

`ProposalsRefine` maps the files a call has renamed so far to the store as they
are, so each rename is one step of the store; tmp files, walks and the mutex
vanish. The store changes only as some request asks: by a proposal submitted, by
the status and test status of an update (a test status that is not given is kept),
by one side of a link. That a status change starts from the file's present content,
and not from what the lookup saw, is what makes this hold: no update is lost.

### LabNotebookMutex

A thread may be preempted between `_lock.acquire()`, the setting of the name
under `_holder_lock`, the body, the clearing of the name and `_lock.release()`.
The body returns or raises. A poll is a status call: it looks at `locked`, then
takes `_holder_lock` and reads the name. In `Proposals` and `Gaps` the mutex is
one variable; `ImplementsSingleWriter` is what entitles them to that.

### GapsText, GapEdits and Gaps

A text is the sequence of pieces between its newlines; a piece is blank, a gap's
header, a field line or anything else. `Parse` is parse_gaps' loop as a fold;
`AppendEntry` and `RemoveEntry` are the two pure edits with their blank-line
rules. `GapEdits` says of them, without the loop, what they do: one entry for each
header line, up to the first line that is no field; an edit changes one entry of
the list, and none of the non-blank lines around the entries. `Gaps` adds the tools: `AddNew`, `AddAgain`,
`RemoveKnown`, `RemoveUnknown` take the mutex, read and compute in one step;
`Truncate` and `Fill` are the two effects of `Path.write_text`; `ListGaps` reads
without the mutex; `MakeDirs`, `CheckFile` are bootstrap. A write goes to the
start of the file, so of two overlapping ones the longer one's tail stays
(`Over`, in whole lines). `OpenFails`, `WriteFails` (any part of the text is
written) and `Crash` are the faults. The mapping to `GapList` takes a write to
happen at its truncation.

### ExperimentData, Experiments and ExperimentLog

A path is a proposal's directory and a name: in the current format (to the
microsecond), in the one of v0.1.0 (to the second), or a stray that is neither.
An instant has several spellings, some of which only pydantic accepts and some
`fromisoformat` too; `Found` is the lookup with its fall-back to the old name.

Two writes of one run share a `.tmp` sibling, and a thread that has it open goes
on writing to the same file after another has renamed it. So `file[p]` and
`tmp[p]` point to inodes, and `data[i]` is what each half of inode `i` holds:
`OpenTmp` creates the sibling or truncates the one that is there, `WriteHead` and
`WriteTail` write to the inode the call has open, wherever it is by now,
`Replace` renames whatever the sibling is (and fails when it has gone). A failure
goes on after a step of its own, `CleanUp`, which unlinks the sibling, though another
thread may have made it meanwhile, or fails to. `StartRead` looks for the file and `Parse` reads it
later; `Scan` lists one directory. `MkdirFails`, `WriteFails` and `Crash` are the
faults.

`ExperimentLog` has no tmp files, inodes or threads. A write that no other write
of its run overlaps lands whole or fails and changes nothing; only writes that
overlap may garble the record or make each other fail; a read answers what the
log holds at one instant of the read. Under the mapping the rename is what
records, and a read of a file under its old name counts as over when it is
found, as no write reaches such a file.

### Permissions and Server

`Permissions` is `ServerScope(raw, token)`, what a server does with `EBONY_SCOPE`
and `EBONY_INTERNAL_TOKEN`, and the two places that compare scopes: `Listed` and
`Forbidden`.

`Server` extends `LabNotebookMutex` and gives its threads a pool to come from.
`Dispatch` is call_tool up to the handler's first await, `Resume` what follows a
job; either may answer, submit a plain job, submit the job that takes the mutex, in
the order the tool's handler allows, or raise. `Envelope` is what call_tool makes of
an exception, from dispatch or from a handler, before its first await or after a
job: a KeyError is `unknown_tool`, a PermissionError `forbidden`, anything else
`tool_error`. The history variable `entered` holds the calls whose handler was
reached. (The two lookups of supersede_proposal run under one `asyncio.gather` and
may have two jobs in the pool at once; here a call has one job at a time.)
`TakeJob` gives the head of the queue a free thread, `RunPlainJob` runs a job
that needs no mutex, and `MutexStep` and `RunBody` are the steps of
`LabNotebookMutex` in a thread. `Cancel` is a client going away: a job without a
thread is skipped, one with a thread runs on. A status call keeps the event loop
until it has answered, and may wait for `_holder_lock` meanwhile. What the jobs do
to the notebook is the business of the other modules.

## The runs

| Run | Instance | Shows |
|---|---|---|
| `proposals_core` | 3 calls from 9 requests, 3 notebooks, one failed write or crash | unique ids, routing, one create wins, no ambiguous or dishonest lookup, reads return the id asked for, leftovers of failed writes never land, the old side of a link first, creates replace nothing; implements `ProposalStore` |
| `proposals_odd` | 2 calls, two faults (a failed write or read, an editor that breaks a file), notebooks with duplicate ids and unknown kinds | duplicates are never written to; an unfiltered listing misses nothing; every call is answered |
| `gap_edits` | every text of up to 5 lines over 6 kinds of line, then edits up to 9 lines and beyond by one entry | parsing finds each header with its fields, appending adds one entry below a blank line, removing drops one; the rest stays |
| `gaps_refine` | 3 calls, 4 first texts | implements `GapList`; a listing is a real list or empty; answered gaps are kept |
| `gaps_faults` | 3 calls with bootstraps, two faults | no gap twice; the mutex is given back |
| `experiments_log` | 3 calls from 8 requests, 2 notebooks, one fault | implements `ExperimentLog`; a record lies at the path it names; a read answers the run asked for; listings are complete; records of v0.1.0 are never written to |
| `server` | 3 calls that want the mutex on 2 threads, one of them after a lookup, one status call, one cancellation, 6 start-up environments | the holder is the writer and what status shows is current, `SingleWriter`, the owner has a thread, nothing is written beyond the scope, a handler is reached if and only if its tool is listed; every call is answered, status never blocks |

Runs that TLC must find violated, each one a disagreement between the code and
what it says of itself (`findings` in PROJECT.json quotes the text):

| Run | What happens |
|---|---|
| `proposals_selflink` | supersede_proposal(`Foo`, `foo`) makes a proposal supersede itself: the check compares spellings |
| `proposals_clobber` | a create overwrites a malformed file at its target |
| `mutex_status` | status can say locked with no holder |
| `gaps_torn_listing` | list_gaps reads the truncated file and answers no gaps |
| `gaps_bootstrap_race` | bootstrap overwrites the gaps.md an add_gap has just created |

Some more behaviours are visible in the models without a run of their own.
write_proposal(update) of `foo` rewrites `Foo.md` and reports the path of a
`foo.md` that does not exist (`Reported`, `tools.py:375`). remove_gap collapses
blank lines anywhere in gaps.md and not only "introduced by the removal"
(`Collapse`, `storage/gaps.py:176`). A write of gaps.md that fails or dies after
the truncation loses gaps that earlier calls were answered for (`GapsAreKept`
with the faults of `Gaps_faults.cfg`), although `README.md:22` promises atomicity.
A write or rename that fails together with the unlink after it leaves its tmp
sibling on disk (`Unlink`, `CleanUp`), although `storage/markdown.py:102-103` says
that "failures don't leave orphans"; it is never renamed (`LeftoversNeverLand`).
A second write_experiment of a run replaces the first without a word, although
`README.md:18` calls the notebook append-only. A write at exactly a whole second
hides a v0.1.0 record of that second from the timestamp it is listed by (`Found`),
although `tools.py:725-726` says that such files remain readable:
`ReadAnswersTheRunAsked` says which record is answered, not that each can be. A
file whose name is no timestamp is listed by its stem, which read_experiment
refuses (`tools.py:978`), although `tools.py:942-943` sends readers there. A
run_timestamp that is a number, as a string, can be written but not read by that
spelling (`Writable`, `Readable`). While a critical section hangs, enough calls
that wait for the mutex fill the pool, and reads wait with them: the liveness of
`EveryCallAnswered` is conditional on bodies that end, that of
`StatusNeverBlocks` is not. A PermissionError of the file system is answered as
`forbidden`, like a call beyond the scope, and a KeyError of a handler as
`unknown_tool` (`Envelope`); `ListedIsCallable` is about which handlers are reached.

Bounds and why they suffice. Two keys, one of them with two spellings, give every
relation two ids can have: equal, equal up to case, different. One proposer and
two kinds (one schema kind) give two subdirs, so a proposal can be here or
elsewhere. Three calls are the two that race and a third that observes or adds a
second change; a call is made once because a later call is one more call. One
fault is enough to interrupt any one write, and in `proposals_odd` two let a
write fail in a notebook that somebody breaks. The notebooks are empty, with one
proposal and with two; notebooks that versions before 0.1.2 could leave are a run
of their own, since uniqueness does not hold there from the start. For gaps.md,
`gap_edits` takes every text a person could have written up to five lines, blank
lines and stray fields included, so the concurrent runs need only texts that
differ in how they end and in what they list. For experiments, two instants that
share a second make current and old names collide, several spellings include one
that only pydantic reads, and of the two notebooks one is empty and one holds a
v0.1.0 and a stray file. For the server, three calls that want the mutex outnumber two
threads, so the pool is full and a job waits; the environments reach every scope,
the cap of a missing or empty token and a setting that keeps the server from
starting. The tools of that run are all known ones: names outside the registry
are covered by the theorem `ListedIsAlwaysCallable`. `MaxFaults`, `MaxLines`,
`MaxInitial`, `MaxJobs` and `MaxCancels` are the bounds on counters. Calls are
interchangeable, so `proposals_core`, `gaps_refine`, `gaps_faults` and
`experiments_log` use symmetry; the runs with liveness (`proposals_odd`, `server`)
do not. Deadlock checking is off because every behaviour ends when each call has
been made.

Fairness. `Proposals` assumes weak fairness of each call's own steps once it has
started: the event loop runs ready coroutines and the operating system runs ready
threads. `Server` assumes the same of `Resume`, `TakeJob`, `RunPlainJob`,
`MutexStep` and `StatusGoesOn`, and nothing of `RunBody`, which may hang in the
file system: `EveryCallAnswered` says that bodies which end are enough. Faults,
edits, cancellations and new calls are not fair. Nothing is assumed about
the order in which a `threading.Lock` is granted; with finitely many calls weak
fairness is enough for each to get it.

## What is proved

For any finite or infinite sets of calls, ids, kinds, texts, instants and
threads (a theorem that needs a finite one says so), under the named assumptions
of the modules (`DataAssumption`, `ProposalsAssumption`, `EntryAssumption`,
`MutexAssumption`, `GapsTextAssumption`, `GapsAssumption`, `GapEditsAssumption`,
`ExperimentDataAssumption`, `ExperimentsAssumption`, `PermissionsAssumption`,
`ServerAssumption`), TLAPS checks the following.

Proposals:

- `TypeCorrect`: Spec => []TypeOK. Among others, a rename always moves a whole
  document. TypeOK is not inductive alone; `IInv` adds `Control` (a call's place
  agrees with its request, and a call past its lookup has found at least one path
  for every id it sought) and `Owner` (the mutex is owned by the one call with
  files left to write, and before a rename that call's tmp file holds the
  document the rename is to land).
- `UniqueIdsAlways`: from notebooks with one file per key, Spec => []UniqueIds.
  A call past its check would break UniqueIds if another created the same id
  meanwhile. By `Owner` no other call can; `SafeWork` adds that each commit a
  call has left is alone (no other path holds its key) and that two of its
  commits with one key go to one path. `Rename` then keeps a key's holders
  within one path.
- `RoutedByKindAlways`, `ReadAlwaysReturnsTheIdAsked`: from notebooks whose files
  lie where their kind routes them. `RoutedInv` adds to `IInv` that every commit
  left and every path found fit the kind and key of their document, so a file
  that is read again after others rewrote it still holds the id asked for.
- `ListNeverMissesAnything`, from such notebooks. `AnswersInv` relates a walk to
  its history: what was seen stays, and what was there when the walk started and
  parses all along is behind it or still ahead.
- `LeftoversAreNeverRenamed`, without any assumption on the notebook: by `Owner`,
  whose tmp file is written anew in the critical section before it is renamed, what
  lands is what was planned, whatever was in the sibling before.
- `LookupsAreNeverAmbiguous`, `NotFoundIsAlwaysHonest`, `OneCreateAlwaysWins`,
  `CreatesNeverReplaceAnything`: from unique and routed notebooks in
  which no editor breaks a file ("edit" not in `Adversity`). `SureInv` joins `AnswersInv` with
  uniqueness and with files that always parse. Without the last, a create does
  replace a file: that is the run `proposals_clobber`.
- `DuplicatesStayFrozen`: from routed notebooks, under every fault, edits included.
  The hazard is a lookup that reads only one of two files of an id. `FrozenInv`
  says that no step makes such twins (`NoNewTwins`), so both were there when a
  walk that meets them started; that a walk has them still to read or has matched
  them (`TwinsSeen`), so a lookup with a single match met none; and that what a
  critical section has left touches no twin. Paths must be finitely many, for a
  lookup counts its matches.
- `OldSideAlwaysFirst`: from routed notebooks without such edits, when only
  supersede_proposal is asked to set links (`LinksComeFromSupersede`: a
  write_proposal may submit any `supersedes`, and the code takes it). `LinkInv` says of a
  critical section under way that the old side comes first in what is left, or is
  marked on disk. By `Owner` nobody rewrites it in between; an editor could.
- `ProposalsImplementTheStore`: from the same notebooks, when nobody asks to
  supersede an id by another spelling of itself, `Proposals` implements
  `ProposalStore`. `StoreInv` adds to `SureInv` that the commits a call has left
  go to different files (`Apart`) and that each, when it lands, adds or changes
  one proposal and leaves the rest of it as the file has it (`LandIn`). Each
  rename is then one step of the store, everything else a stutter. The excluded
  request is the run `proposals_selflink`.

The mutex and the server:

- `MutexTypeCorrect`, `HolderNamesTheWriterAlways`, `HolderShownIsCurrentAlways`:
  the invariants of `LabNotebookMutex`, for any number of threads and polls. The
  invariant ties both locks to the program counters of their owners.
- `MutexImplementsSingleWriter`: the mutex implements `SingleWriter`. Setting the
  name is the abstract entry, clearing it the abstract exit, the rest stutters.
- `ServerRunsTheMutex`: every behaviour of `Server` is one of `LabNotebookMutex`,
  so `ServerHolderNamesTheWriter` and `ServerImplementsSingleWriter` follow from
  the two above although threads are now scarce and calls are cancelled.
- `ServerTypeCorrect`, `OwnerAlwaysHasAThread`, `ListedIsAlwaysCallable`,
  `NothingIsWrittenBeyondScope`, from one invariant (`ServerInvariance`) that
  relates a call's place to the queue, to the running set and to the mutex, and
  says that a call is past dispatch if and only if its tool is listed, and that one
  with a job, or one that wrote, was.

The text of gaps.md (`GapsText_proofs`, `GapEdits_proofs`), for every text, id and
field:

- `EveryHeaderIsAlwaysFound`: parse_gaps finds the header lines, all of them and
  in order, each with the fields that directly follow it. The loop is a fold; its
  invariant (`SpansOK`) says of each prefix of the lines that the closed entries
  and the open one are the headers of that prefix.
- `AddingAddsOne`, `RemovingDropsOne`: the two edits do to the list what their
  names say, and keep the lines around the entries. An appended entry cannot lend
  its fields to the entry before it, nor a removed one leave fields behind, because
  fields that follow no header belong to nothing; collapsing blank lines only
  moves entries. Most lemmas are about how the entries of a text follow from those
  of its parts (`AppendEntryIs`, `RemoveEntryIs`, `CollapseIs`).

The theorems on induction of the library take an operator as a parameter, which
the provers here cannot instantiate. `SetInduction` and `SeqInduction` get round
that: they state induction for a set of numbers, or of sequences, and follow from
the well-foundedness of the natural numbers (a least number outside the set).
`FoldScan` gives a fold over a sequence as the last element of a chain of states.

The gap tools (`Gaps_proofs`):

- `GapsTypeIsCorrect`, `MutexIsAlwaysGivenBack` and `OneEditorAtATime`, under all
  faults and with bootstrap. `WriterInv` ties the mutex to the one call between its
  check and the end of its write.
- `NoGapIsListedTwice`, under all faults and with bootstrap, if no first text
  lists an id twice and the placeholder lists none (`ApartAtFirst`). Half-written
  texts make this delicate: `OnceInv` speaks of header lines, not of entries,
  since a write over another one keeps a tail of lines. It says that no two
  headers on disk are alike, that a text to be written has none alike either, and
  that a tool fills a file that has no header at all: it has truncated it, and
  only bootstrap can have written since.
- `ListingsAreWholeOrEmpty`, with crashes, without bootstrap (`NoBootstrap`) and
  without writes that fail half way (`NoIOError`). `WholeInv` adds to the types
  that a file which is being filled is empty and that the committed list is in the
  window of every call under way. The two hypotheses are needed: half a write,
  and two at once, are lists that never were.
- `GapToolsImplementTheList` and `AnsweredGapsAreKept`, without bootstrap and
  without faults. `EditInv` adds to `WholeInv` that between a call's plan and its
  truncation the plan still fits the file; with `AddingAddsOne` and its like for
  the text, each truncation is then one step of `GapList`, with the answer and
  the position it gives, and everything else a stutter. `KeptInv` adds that what
  was answered for is in the committed list. These hypotheses are needed as well:
  a fault after the truncation loses the list, and the run `gaps_bootstrap_race`
  shows what bootstrap does.

Experiments, with failures and crashes:

- `ExperimentsTypeCorrect`, `RecordsAlwaysLieWhereTheySay`, `LegacyStaysAsItIs`.
  The invariant says to which paths an inode may belong: whoever has it open,
  wherever it was renamed to, writes the record of that one path.
- `ListingsAreAlwaysComplete`: no step takes a file away, so what a listing was to
  show when it started is listed, or in a directory that it has yet to scan
  (`SeenInv`).
- `ReadsAlwaysAnswerTheRunAsked`: a read finds its file in one step and parses it in
  a later one. `ReadInv` says that the path found is of the run asked for, or of its
  second and then the run had no file of its own when the read started, and that
  files of v0.1.0 keep the record they came with. Nothing is said of a read that
  answers the mixture two overlapping writes may leave.
- `ExperimentsImplementTheLog`: `Experiments` implements `ExperimentLog`.
  `LogInv` adds that a sibling is not a record yet (`SiblingsAreNoRecords`), that
  two writes of one run under way at once are both marked overlapped
  (`RivalsOverlap`), and that one which is not marked has an inode to itself,
  which holds as much of its record as it has written (`AloneIsWhole`).

Only model-checked is liveness: `EveryCallAnswered` of the proposal tools and of
the server, and `StatusNeverBlocks`. They rest on fairness, with which the prover
does not deal. What a `violation` run refutes is of course not proved either.

## Not modelled

The transport, the allow-lists, reading of configuration and the command line
(start-up plumbing without state); the path-component rules of `schema.py` (ids
here are valid by construction); YAML itself; case-insensitive filesystems; the
placeholders other than gaps.md; dates before the year 1000, whose file names
depend on the C library; two server processes on one notebook, which the mutex
does not cover and the code does not claim to.

## Plan

1. Done: the proposal tools, the mutex, the gap tools, the experiment tools, the
   server with its scopes and its worker pool; the proofs listed above.
2. Done: every safety and action property of the passing runs as a theorem, the
   three refinements of the tools and that of the mutex.
3. Left: properties for the hazards that have none yet (`PROJECT.json` says why);
   a list for `Gaps` to implement under crashes, that may lose its gaps when a
   writer dies.
