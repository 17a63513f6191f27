------------------------------- MODULE Server -------------------------------
(***************************************************************************)
(* The server around the tools: one event loop that dispatches calls and   *)
(* runs their handlers between awaits, the bounded pool of worker threads  *)
(* behind asyncio.to_thread that runs their jobs first come, first served, *)
(* and the mutex, which some jobs acquire inside their thread.  What the   *)
(* jobs do to the notebook is in Proposals, Gaps and Experiments.          *)
(***************************************************************************)
EXTENDS LabNotebookMutex, Permissions, Sequences, FiniteSets

CONSTANTS
  Threads,    \* worker threads
  Failures,   \* what handlers and their jobs may raise
  Envs,       \* start-up environments: EBONY_SCOPE and EBONY_INTERNAL_TOKEN
  MaxJobs,    \* files a lookup parses
  MaxCancels  \* calls that are cancelled

ASSUME ServerAssumption ==
  /\ Threads \in Nat \ {0} /\ MaxJobs \in Nat /\ MaxCancels \in Nat
  /\ Failures \subseteq {"KeyError", "PermissionError", "OSError"}
  /\ Envs \subseteq [raw : Settings \cup {"unset", ""}, token : Tokens]

VARIABLES
  env,      \* the environment the server started in
  at,       \* where each call is
  job,      \* the kind of its last job
  jobs,     \* how many it had
  raised,   \* what that job raised
  queue,    \* calls whose job waits for a thread, the oldest first
  running,  \* calls whose job has a thread
  answer,   \* what each call is answered
  entered,  \* history: the calls whose handler was entered
  written,  \* history: the calls whose writing job ran
  cancels   \* cancellations so far

poolVars == <<queue, running>>

serverVars ==
  <<env, at, job, jobs, raised, queue, running, answer, entered, written, cancels>>

\* Tools whose last job holds the mutex, those that parse one file per job,
\* and those with one job that needs no mutex.
Lockers ==
  {"write_proposal", "update_proposal_status", "supersede_proposal", "add_gap",
   "remove_gap"}

Walkers ==
  {"read_proposal", "list_proposals", "update_proposal_status", "supersede_proposal"}

OneJob ==
  {"bootstrap", "write_experiment", "read_experiment", "list_experiments", "list_gaps"}

Outcomes == {"none"} \cup Failures

scope == ServerScope(env.raw, env.token)

ServerTypeOK ==
  /\ TypeOK
  /\ env \in Envs
  /\ at \in [Calls -> {"idle", "queued", "running", "resumed", "answered", "cancelled"}]
  /\ job \in [Calls -> {"none", "plain", "locked"}]
  /\ jobs \in [Calls -> Nat]
  /\ raised \in [Calls -> Outcomes]
  /\ queue \in Seq(Calls)
  /\ running \subseteq Calls
  /\ answer \in [Calls -> {"none", "result", "unknown_tool", "forbidden", "tool_error"}]
  /\ entered \subseteq Calls
  /\ written \subseteq Calls
  /\ cancels \in 0 .. MaxCancels

ServerInit ==
  /\ Init
  /\ env \in Envs
  /\ at = [c \in Calls |-> "idle"]
  /\ job = [c \in Calls |-> "none"]
  /\ jobs = [c \in Calls |-> 0]
  /\ raised = [c \in Calls |-> "none"]
  /\ queue = <<>>
  /\ running = {}
  /\ answer = [c \in Calls |-> "none"]
  /\ entered = {}
  /\ written = {}
  /\ cancels = 0

-----------------------------------------------------------------------------
(* The event loop.  A status call keeps it from Look to ReadHolder, though  *)
(* it may have to wait for _holder_lock in between.                         *)

LoopIsFree == \A r \in Polls : eye[r] \notin {"looked", "reading"}

Answer(c, a) ==
  /\ answer' = [answer EXCEPT ![c] = a]
  /\ at' = [at EXCEPT ![c] = "answered"]
  /\ UNCHANGED <<job, jobs, queue>>
  /\ UNCHANGED vars

\* asyncio.to_thread
Submit(c, kind) ==
  /\ at' = [at EXCEPT ![c] = "queued"]
  /\ job' = [job EXCEPT ![c] = kind]
  /\ jobs' = [jobs EXCEPT ![c] = @ + 1]
  /\ queue' = Append(queue, c)
  /\ UNCHANGED answer

SubmitPlain(c) ==
  /\ \/ Tool[c] \in OneJob /\ job[c] = "none"
     \/ Tool[c] \in Walkers /\ job[c] # "locked" /\ jobs[c] < MaxJobs
  /\ Submit(c, "plain")
  /\ UNCHANGED vars

\* The job will wait for the mutex, once it has a thread.
SubmitLocked(c) ==
  /\ Tool[c] \in Lockers
  /\ job[c] = IF Tool[c] \in Walkers THEN "plain" ELSE "none"
  /\ Submit(c, "locked")
  /\ Call(c)

EnvelopeBare(e) == e

\* call_tool's except clauses, for what dispatch and the handlers raise alike.
Envelope(e) ==
  CASE e = "KeyError" -> "unknown_tool"
    [] e = "PermissionError" -> "forbidden"
    [] OTHER -> "tool_error"

\* A handler runs up to its next await, or raises.  "result" is any reply of its
\* own, the error objects of the other modules included.
RunHandler(c) ==
  \/ Answer(c, "result") \/ SubmitPlain(c) \/ SubmitLocked(c)
  \/ \E e \in Failures : Answer(c, Envelope(e))

Dispatch(c) ==
  /\ at[c] = "idle" /\ LoopIsFree /\ scope # "invalid"
  /\ \/ /\ Tool[c] \notin Tools
        /\ Answer(c, Envelope("KeyError")) /\ UNCHANGED entered
     \/ /\ Tool[c] \in Tools /\ Forbidden(Tool[c], scope)
        /\ Answer(c, Envelope("PermissionError")) /\ UNCHANGED entered
     \/ /\ Tool[c] \in Tools /\ ~Forbidden(Tool[c], scope)
        /\ RunHandler(c) /\ entered' = entered \cup {c}
  /\ UNCHANGED <<env, raised, running, written, cancels>>

Resume(c) ==
  /\ at[c] = "resumed" /\ LoopIsFree
  /\ IF raised[c] = "none" THEN RunHandler(c) ELSE Answer(c, Envelope(raised[c]))
  /\ raised' = [raised EXCEPT ![c] = "none"]
  /\ UNCHANGED <<env, running, entered, written, cancels>>

\* The client goes away.  The work item of a job without a thread stays in the
\* queue and is skipped when its turn comes; a job that has a thread goes on.
Cancel(c) ==
  /\ at[c] \in {"queued", "running", "resumed"} /\ LoopIsFree
  /\ cancels < MaxCancels
  /\ cancels' = cancels + 1
  /\ at' = [at EXCEPT ![c] = "cancelled"]
  /\ UNCHANGED <<env, job, jobs, raised, answer, entered, written>>
  /\ UNCHANGED poolVars /\ UNCHANGED vars

Status(r) ==
  /\ LoopIsFree /\ scope # "invalid"
  /\ Look(r)
  /\ UNCHANGED serverVars

StatusGoesOn(r) == PollStep(r) /\ UNCHANGED serverVars

-----------------------------------------------------------------------------
(* The worker threads.                                                      *)

TakeJob(c) ==
  /\ queue # <<>> /\ c = Head(queue)
  /\ Cardinality(running) < Threads
  /\ queue' = Tail(queue)
  /\ IF at[c] = "cancelled" THEN UNCHANGED <<running, at>>
     ELSE /\ running' = running \cup {c}
          /\ at' = [at EXCEPT ![c] = "running"]
  /\ UNCHANGED <<env, job, jobs, raised, answer, entered, written, cancels>>
  /\ UNCHANGED vars

\* The thread is free again, and the loop is told unless the call is cancelled.
EndJob(c) ==
  /\ running' = running \ {c}
  /\ at' = [at EXCEPT ![c] = IF @ = "cancelled" THEN @ ELSE "resumed"]

RunPlainJob(c) ==
  /\ c \in running /\ job[c] = "plain"
  /\ raised' \in {[raised EXCEPT ![c] = e] : e \in Outcomes}
  /\ written' = IF Tool[c] \in WriteTools \cap OneJob THEN written \cup {c} ELSE written
  /\ EndJob(c)
  /\ UNCHANGED <<env, job, jobs, queue, answer, entered, cancels>> /\ UNCHANGED vars

HasTurn(c) == at[c] \in {"queued", "running"}

HasThread(c) == c \in running

AcquireInThread(c) ==
  /\ HasThread(c)
  /\ Acquire(c)
  /\ UNCHANGED serverVars

NameHolder(c) ==
  /\ EnterHolderLock(c, "owns", "naming") \/ SetHolder(c)
  /\ UNCHANGED serverVars

RunBody(c) ==
  /\ \E e \in Outcomes :
       /\ EndBody(c, e # "none")
       /\ raised' = [raised EXCEPT ![c] = e]
  /\ written' = written \cup {c}
  /\ UNCHANGED <<env, at, job, jobs, answer, entered, cancels>> /\ UNCHANGED poolVars

UnnameHolder(c) ==
  /\ EnterHolderLock(c, "leaving", "clearing") \/ ClearHolder(c)
  /\ UNCHANGED serverVars

ReleaseInThread(c) ==
  /\ Release(c)
  /\ EndJob(c)
  /\ UNCHANGED <<env, job, jobs, raised, queue, answer, entered, written, cancels>>

MutexStep(c) ==
  AcquireInThread(c) \/ NameHolder(c) \/ UnnameHolder(c) \/ ReleaseInThread(c)

-----------------------------------------------------------------------------
ServerNext ==
  \/ \E c \in Calls :
       \/ Dispatch(c) \/ Resume(c) \/ Cancel(c)
       \/ TakeJob(c) \/ RunPlainJob(c) \/ RunBody(c) \/ MutexStep(c)
  \/ \E r \in Polls : Status(r) \/ StatusGoesOn(r)

ServerSpec == ServerInit /\ [][ServerNext]_<<vars, serverVars>>

\* The loop and every thread that can run do.  Nothing is assumed of RunBody: a
\* critical section may hang in the file system.
ServerFairness ==
  /\ \A c \in Calls :
       /\ WF_<<vars, serverVars>>(Resume(c))
       /\ WF_<<vars, serverVars>>(TakeJob(c))
       /\ WF_<<vars, serverVars>>(RunPlainJob(c))
       /\ WF_<<vars, serverVars>>(MutexStep(c))
  /\ \A r \in Polls : WF_<<vars, serverVars>>(StatusGoesOn(r))

FairServerSpec == ServerSpec /\ ServerFairness

-----------------------------------------------------------------------------
(* Properties.                                                             *)

\* Whoever owns the mutex has a worker thread to go on with, though its call
\* be cancelled: calls that wait for it cannot take the last one from it
\* (mutex.py:23-34).
OwnerHasAThread ==
  /\ \A c \in Calls : pc[c] \in Owning => c \in running
  /\ Cardinality(running) <= Threads

\* No tool that writes has run on a server that has no token, or one that was
\* asked to be read-only (permissions.py:22-28, server.py:73-75).
NothingWrittenBeyondScope ==
  written # {} =>
    /\ env.token = "secret"
    /\ env.raw \in Settings => Lowered[env.raw] # "read_only"

\* The tools a client is shown are those whose handler its call reaches:
\* dispatch refuses the others, before anything of them runs, whatever the
\* answer says that call_tool makes of an exception (tools.py:1467-1485).
ListedIsCallable ==
  \A c \in Calls : at[c] = "answered" =>
    /\ Tool[c] \in Listed(scope) <=> c \in entered
    /\ answer[c] = "result" \/ job[c] # "none" => c \in entered

\* As long as critical sections end, every call is answered: through a pool
\* that calls waiting for the mutex can fill, cancelled calls that own the
\* mutex, and jobs that raise (tools.py:368, mutex.py:70-75).
EveryCallAnswered ==
  (\A c \in Calls : []<>(pc[c] # "body")) =>
    \A c \in Calls : (at[c] # "idle") ~> (at[c] \in {"answered", "cancelled"})

\* Though a critical section hangs and every thread waits for it, status is
\* answered and the event loop is never held up (tools.py:1115-1129,
\* mutex.py:28-34).
StatusNeverBlocks ==
  /\ \A r \in Polls : (eye[r] = "looked") ~> (eye[r] = "done")
  /\ []<>LoopIsFree
=============================================================================
