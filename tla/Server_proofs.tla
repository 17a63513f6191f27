---------------------------- MODULE Server_proofs ----------------------------
(***************************************************************************)
(* Theorems of Server, for any number of calls, polls and threads and any  *)
(* environment.  The server only adds guards to the steps of the mutex, so *)
(* the theorems of LabNotebookMutex hold of it as they stand.              *)
(***************************************************************************)
EXTENDS Server, LabNotebookMutex_proofs, FiniteSetTheorems

all == <<vars, serverVars>>

\* Only a call whose locked job was submitted has to do with the mutex.
MutexIsForLockedJobs ==
  \A c \in Calls :
    /\ pc[c] # "idle" => job[c] = "locked"
    /\ job[c] = "locked" => Tool[c] \in Lockers

\* A call that got as far as a job was let through by dispatch, and it was
\* answered as the registry and the scope have it.
Admitted(c) ==
  /\ at[c] = "idle" => job[c] = "none" /\ c \notin entered
  /\ at[c] \in {"queued", "running", "resumed", "cancelled"} => job[c] # "none"
  /\ job[c] # "none" => scope \in Scopes /\ Tool[c] \in Listed(scope)
  /\ at[c] # "idle" => (Tool[c] \in Listed(scope) <=> c \in entered)

OnlyListedRun ==
  /\ \A c \in Calls : Admitted(c)
  /\ \A c \in written : Tool[c] \in WriteTools /\ job[c] # "none"

\* A call waits once in the queue, or has a thread, or is elsewhere; only one
\* that is cancelled is still there without waiting for it.
WorkIsPending ==
  /\ \A i \in 1 .. Len(queue) : at[queue[i]] \in {"queued", "cancelled"}
  /\ \A i, j \in 1 .. Len(queue) : queue[i] = queue[j] => i = j
  /\ \A c \in running : at[c] \in {"running", "cancelled"}

ServerInv ==
  /\ IInv
  /\ ServerTypeOK
  /\ IsFiniteSet(running)
  /\ MutexIsForLockedJobs
  /\ OwnerHasAThread
  /\ WorkIsPending
  /\ OnlyListedRun
  /\ ListedIsCallable

-----------------------------------------------------------------------------
\* Every step of the server is a step of the mutex, or leaves it alone.
LEMMA StepOfMutex == [ServerNext]_all => [Next]_vars
<1> SUFFICES ASSUME [ServerNext]_all PROVE [Next]_vars
  OBVIOUS
<1>1. ASSUME NEW c \in Calls, RunHandler(c)
      PROVE  Call(c) \/ UNCHANGED vars
  BY <1>1 DEF RunHandler, Answer, SubmitPlain, SubmitLocked
<1>2. ASSUME NEW c \in Calls, Dispatch(c) \/ Resume(c)
      PROVE  Call(c) \/ UNCHANGED vars
  BY <1>1, <1>2 DEF Dispatch, Resume, Answer
<1>3. ASSUME NEW c \in Calls, Cancel(c) \/ TakeJob(c) \/ RunPlainJob(c)
      PROVE  UNCHANGED vars
  BY <1>3 DEF Cancel, TakeJob, RunPlainJob
<1>4. ASSUME NEW c \in Calls, RunBody(c) \/ MutexStep(c)
      PROVE  CallStep(c)
  <2>1. CASE RunBody(c)
    <3>1. PICK e \in Outcomes : EndBody(c, e # "none")
      BY <2>1 DEF RunBody
    <3> QED
      BY <3>1 DEF CallStep
  <2>2. CASE MutexStep(c)
    BY <2>2 DEF MutexStep, AcquireInThread, NameHolder, UnnameHolder,
                ReleaseInThread, CallStep
  <2> QED
    BY <1>4, <2>1, <2>2
<1>5. ASSUME NEW r \in Polls, Status(r) \/ StatusGoesOn(r)
      PROVE  Look(r) \/ PollStep(r)
  BY <1>5 DEF Status, StatusGoesOn
<1>6. CASE UNCHANGED all
  BY <1>6 DEF all
<1> QED
  BY <1>2, <1>3, <1>4, <1>5, <1>6 DEF ServerNext, Next

\* The mutex inside the server behaves as mutex.py does on its own.
THEOREM ServerRunsTheMutex == ServerSpec => Spec
<1>1. ServerInit => Init
  BY DEF ServerInit
<1> QED
  BY <1>1, StepOfMutex, PTL DEF ServerSpec, Spec, all

\* Inside the pool, too, one call at a time is inside the mutex, and it is the
\* one that is named (mutex.py:28-34).
THEOREM ServerHolderNamesTheWriter == ServerSpec => []HolderNamesTheWriter
  BY ServerRunsTheMutex, HolderNamesTheWriterAlways, PTL

\* The server implements the single writer (mutex.py:7-17).
THEOREM ServerImplementsSingleWriter == ServerSpec => ImplementsSingleWriter
  BY ServerRunsTheMutex, MutexImplementsSingleWriter, PTL

-----------------------------------------------------------------------------
\* The numbers of a server.
LEMMA Bounds == Threads \in Nat \ {0} /\ MaxCancels \in Nat
  BY ServerAssumption, Zenon

\* The invariant holds initially.
LEMMA InitServerInv == ServerInit => ServerInv
<1> SUFFICES ASSUME ServerInit PROVE ServerInv
  OBVIOUS
<1>1. IInv /\ TypeOK
  BY InitIInv DEF ServerInit, IInv
<1>2. ServerTypeOK
  BY <1>1, Bounds DEF ServerInit, ServerTypeOK, Outcomes
<1>3. IsFiniteSet(running) /\ Cardinality(running) = 0
  BY FS_EmptySet DEF ServerInit
<1>4. MutexIsForLockedJobs /\ OnlyListedRun /\ ListedIsCallable
  BY DEF ServerInit, Init, MutexIsForLockedJobs, OnlyListedRun, Admitted,
         ListedIsCallable
<1>5. OwnerHasAThread
  BY <1>3, Bounds DEF ServerInit, Init, OwnerHasAThread, Owning
<1>6. WorkIsPending
  BY DEF ServerInit, WorkIsPending
<1> QED
  BY <1>1, <1>2, <1>3, <1>4, <1>5, <1>6 DEF ServerInv

\* A tool is listed under a scope exactly if it is not forbidden.
LEMMA ListedIffNotForbidden ==
  ASSUME NEW n \in Tools, NEW s \in Scopes
  PROVE  n \in Listed(s) <=> ~Forbidden(n, s)
  BY DEF Listed, Forbidden, ScopeTier, ToolScope, Scopes

\* The environment decides the scope: one of the three, or no server.
LEMMA ScopeType == scope \in Scopes \cup {"invalid"}
  BY DEF scope, ServerScope, Requested, EffectiveScope, Scopes

\* An exception is answered as one of three errors.
LEMMA EnvelopeType ==
  ASSUME NEW e PROVE Envelope(e) \in {"unknown_tool", "forbidden", "tool_error"}
  BY DEF Envelope

\* What a handler does up to its next await keeps the types of what it changes.
LEMMA HandlerTypes ==
  ASSUME ServerTypeOK, NEW c \in Calls,
         RunHandler(c) \/ \E a \in {"unknown_tool", "forbidden", "tool_error"} : Answer(c, a)
  PROVE  /\ at' \in [Calls -> {"idle", "queued", "running", "resumed", "answered", "cancelled"}]
         /\ job' \in [Calls -> {"none", "plain", "locked"}]
         /\ jobs' \in [Calls -> Nat]
         /\ queue' \in Seq(Calls)
         /\ answer' \in [Calls -> {"none", "result", "unknown_tool", "forbidden", "tool_error"}]
<1>1. CASE \E a \in {"result", "unknown_tool", "forbidden", "tool_error"} : Answer(c, a)
  BY <1>1 DEF Answer, ServerTypeOK
<1>2. CASE \E kind \in {"plain", "locked"} : Submit(c, kind)
  BY <1>2 DEF Submit, ServerTypeOK
<1> QED
  BY <1>1, <1>2, EnvelopeType DEF RunHandler, SubmitPlain, SubmitLocked

\* The variables of the server keep their types.
LEMMA ServerTypeStep == ServerInv /\ [ServerNext]_all => ServerTypeOK'
<1> SUFFICES ASSUME ServerInv, [ServerNext]_all PROVE ServerTypeOK'
  OBVIOUS
<1>t. TypeOK'
  BY NextIInv, StepOfMutex DEF ServerInv, IInv
<1>s. ServerTypeOK
  BY DEF ServerInv
<1>1. ASSUME NEW c \in Calls, Dispatch(c) PROVE ServerTypeOK'
  <2>1. RunHandler(c) \/ \E a \in {"unknown_tool", "forbidden", "tool_error"} : Answer(c, a)
    BY <1>1, EnvelopeType DEF Dispatch
  <2> QED
    BY <1>1, <1>t, <1>s, <2>1, HandlerTypes DEF Dispatch, ServerTypeOK
<1>2. ASSUME NEW c \in Calls, Resume(c) PROVE ServerTypeOK'
  <2>1. RunHandler(c) \/ \E a \in {"unknown_tool", "forbidden", "tool_error"} : Answer(c, a)
    BY <1>2, EnvelopeType DEF Resume
  <2> QED
    BY <1>2, <1>t, <1>s, <2>1, HandlerTypes DEF Resume, ServerTypeOK, Outcomes
<1>3. ASSUME NEW c \in Calls, Cancel(c) PROVE ServerTypeOK'
  BY <1>3, <1>t, <1>s, Bounds DEF Cancel, ServerTypeOK, poolVars
<1>4. ASSUME NEW c \in Calls, TakeJob(c) PROVE ServerTypeOK'
  BY <1>4, <1>t, <1>s DEF TakeJob, ServerTypeOK
<1>5. ASSUME NEW c \in Calls, RunPlainJob(c) PROVE ServerTypeOK'
  BY <1>5, <1>t, <1>s DEF RunPlainJob, EndJob, ServerTypeOK
<1>6. ASSUME NEW c \in Calls, RunBody(c) PROVE ServerTypeOK'
  BY <1>6, <1>t, <1>s DEF RunBody, poolVars, ServerTypeOK
<1>7. ASSUME NEW c \in Calls, ReleaseInThread(c) PROVE ServerTypeOK'
  BY <1>7, <1>t, <1>s DEF ReleaseInThread, EndJob, ServerTypeOK
<1>8. ASSUME UNCHANGED serverVars PROVE ServerTypeOK'
  BY <1>8, <1>t, <1>s DEF serverVars, ServerTypeOK
<1> QED
  BY <1>1, <1>2, <1>3, <1>4, <1>5, <1>6, <1>7, <1>8
  DEF ServerNext, MutexStep, AcquireInThread, NameHolder, UnnameHolder, Status,
      StatusGoesOn, all

-----------------------------------------------------------------------------
\* A call enters the mutex with a locked job, and keeps that job.
LEMMA LockedJobsStep == ServerInv /\ [ServerNext]_all => MutexIsForLockedJobs'
<1> SUFFICES ASSUME ServerInv, [ServerNext]_all PROVE MutexIsForLockedJobs'
  OBVIOUS
<1>s. ServerTypeOK /\ MutexIsForLockedJobs /\ pc \in [Calls -> Labels]
  BY DEF ServerInv, ServerTypeOK, TypeOK
<1> USE DEF MutexIsForLockedJobs
<1>1. ASSUME NEW c \in Calls, RunHandler(c) PROVE MutexIsForLockedJobs'
  <2>1. CASE \E a : Answer(c, a)
    BY <1>s, <2>1 DEF Answer, vars
  <2>2. CASE SubmitPlain(c)
    <3>1. job[c] # "locked"
      BY <2>2 DEF SubmitPlain
    <3> QED
      BY <1>s, <2>2, <3>1 DEF SubmitPlain, Submit, ServerTypeOK, vars
  <2>3. CASE SubmitLocked(c)
    BY <1>s, <2>3 DEF SubmitLocked, Submit, ServerTypeOK, Call, Goto
  <2> QED
    BY <1>1, <2>1, <2>2, <2>3 DEF RunHandler
<1>2. ASSUME NEW c \in Calls, Dispatch(c) \/ Resume(c) PROVE MutexIsForLockedJobs'
  BY <1>1, <1>2, <1>s DEF Dispatch, Resume, Answer, vars
<1>3. ASSUME NEW c \in Calls, Cancel(c) \/ TakeJob(c) \/ RunPlainJob(c)
      PROVE  MutexIsForLockedJobs'
  BY <1>3, <1>s DEF Cancel, TakeJob, RunPlainJob, vars
<1>4. ASSUME NEW c \in Calls, NEW from, NEW to, from # "idle",
             Goto(c, from, to), UNCHANGED job
      PROVE  MutexIsForLockedJobs'
  BY <1>4, <1>s DEF Goto
<1>5. ASSUME NEW c \in Calls, RunBody(c) \/ MutexStep(c)
      PROVE  MutexIsForLockedJobs'
  BY <1>4, <1>5 DEF RunBody, EndBody, MutexStep, AcquireInThread, Acquire,
     NameHolder, EnterHolderLock, SetHolder, UnnameHolder, ClearHolder,
     ReleaseInThread, Release, serverVars
<1>6. ASSUME UNCHANGED <<pc, job>> PROVE MutexIsForLockedJobs'
  BY <1>6, <1>s
<1> QED
  BY <1>2, <1>3, <1>5, <1>6
  DEF ServerNext, Status, Look, StatusGoesOn, PollStep, EnterHolderLockToRead,
      ReadHolder, serverVars, vars, all

\* Threads are taken one at a time, and only when one is free; no step but its
\* own release takes one away from the owner of the mutex.
LEMMA ThreadsStep ==
  ServerInv /\ [ServerNext]_all => OwnerHasAThread' /\ IsFiniteSet(running)'
<1> SUFFICES ASSUME ServerInv, [ServerNext]_all
             PROVE  OwnerHasAThread' /\ IsFiniteSet(running)'
  OBVIOUS
<1>s. /\ IsFiniteSet(running) /\ MutexIsForLockedJobs /\ OwnerHasAThread
      /\ pc \in [Calls -> Labels] /\ Cardinality(running) \in Nat
  BY FS_CardinalityType DEF ServerInv, ServerTypeOK, TypeOK
<1> USE DEF OwnerHasAThread
<1>1. ASSUME UNCHANGED <<pc, running>> PROVE OwnerHasAThread' /\ IsFiniteSet(running)'
  BY <1>1, <1>s
<1>2. ASSUME NEW c \in Calls, Call(c), UNCHANGED running
      PROVE  OwnerHasAThread' /\ IsFiniteSet(running)'
  BY <1>2, <1>s DEF Call, Goto, Owning
<1>3. ASSUME NEW c \in Calls, Dispatch(c) \/ Resume(c)
      PROVE  OwnerHasAThread' /\ IsFiniteSet(running)'
  BY <1>1, <1>2, <1>3 DEF Dispatch, Resume, RunHandler, Answer, SubmitPlain,
     SubmitLocked, vars
<1>4. ASSUME NEW c \in Calls, TakeJob(c)
      PROVE  OwnerHasAThread' /\ IsFiniteSet(running)'
  <2>1. CASE UNCHANGED running
    BY <1>1, <1>4, <2>1 DEF TakeJob, vars
  <2>2. CASE running' = running \cup {c}
    <3>1. /\ IsFiniteSet(running \cup {c})
          /\ Cardinality(running \cup {c}) <= Cardinality(running) + 1
      <4>1. /\ IsFiniteSet(running \cup {c})
            /\ \/ Cardinality(running \cup {c}) = Cardinality(running)
               \/ Cardinality(running \cup {c}) = Cardinality(running) + 1
        BY <1>s, FS_AddElement, Zenon
      <4> QED
        BY <1>s, <4>1
    <3>2. Cardinality(running \cup {c}) \in Nat /\ Cardinality(running) < Threads
      BY <1>4, <3>1, FS_CardinalityType DEF TakeJob
    <3>3. Cardinality(running)' <= Threads
      BY <1>s, <2>2, <3>1, <3>2, Bounds
    <3>4. \A d \in Calls : pc'[d] \in Owning => d \in running'
      BY <1>4, <1>s, <2>2 DEF TakeJob, vars
    <3> QED
      BY <2>2, <3>1, <3>3, <3>4
  <2> QED
    BY <1>4, <2>1, <2>2 DEF TakeJob
<1>5. ASSUME NEW c \in Calls, running' = running \ {c}
      PROVE  IsFiniteSet(running)' /\ Cardinality(running)' <= Threads
  <2>1. /\ IsFiniteSet(running \ {c})
        /\ Cardinality(running \ {c}) <= Cardinality(running)
    <3>1. /\ IsFiniteSet(running \ {c})
          /\ \/ Cardinality(running \ {c}) = Cardinality(running)
             \/ Cardinality(running \ {c}) = Cardinality(running) - 1
      BY <1>s, FS_RemoveElement, Zenon
    <3> QED
      BY <1>s, <3>1
  <2>2. Cardinality(running \ {c}) \in Nat
    BY <2>1, FS_CardinalityType
  <2> QED
    BY <1>5, <1>s, <2>1, <2>2, Bounds
<1>6. ASSUME NEW c \in Calls, RunPlainJob(c)
      PROVE  OwnerHasAThread' /\ IsFiniteSet(running)'
  <2>1. pc[c] = "idle" /\ pc' = pc /\ running' = running \ {c}
    BY <1>6, <1>s DEF RunPlainJob, EndJob, MutexIsForLockedJobs, vars
  <2> QED
    BY <1>5, <1>s, <2>1 DEF Owning
<1>7. ASSUME NEW c \in Calls, ReleaseInThread(c)
      PROVE  OwnerHasAThread' /\ IsFiniteSet(running)'
  <2>1. Goto(c, "releasing", "done") /\ running' = running \ {c}
    BY <1>7 DEF ReleaseInThread, Release, EndJob
  <2> QED
    BY <1>5, <1>s, <2>1 DEF Goto, Owning
<1>8. ASSUME NEW c \in Calls, AcquireInThread(c)
      PROVE  OwnerHasAThread' /\ IsFiniteSet(running)'
  BY <1>8, <1>s DEF AcquireInThread, HasThread, Acquire, Goto, serverVars
<1>9. ASSUME NEW c \in Calls, NEW from \in Owning, NEW to \in Owning,
             Goto(c, from, to), UNCHANGED running
      PROVE  OwnerHasAThread' /\ IsFiniteSet(running)'
  BY <1>9, <1>s DEF Goto
<1>10. ASSUME NEW c \in Calls, NameHolder(c) \/ RunBody(c) \/ UnnameHolder(c)
       PROVE  OwnerHasAThread' /\ IsFiniteSet(running)'
  BY <1>9, <1>10 DEF NameHolder, EnterHolderLock, SetHolder, RunBody, EndBody,
     AfterBody, UnnameHolder, ClearHolder, poolVars, serverVars, Owning
<1> QED
  BY <1>1, <1>3, <1>4, <1>6, <1>7, <1>8, <1>10
  DEF ServerNext, MutexStep, Cancel, poolVars, Status, Look, StatusGoesOn,
      PollStep, EnterHolderLockToRead, ReadHolder, serverVars, vars, all

-----------------------------------------------------------------------------
\* The queue and the threads hold the calls that wait for their job.
LEMMA PendingStep == ServerInv /\ [ServerNext]_all => WorkIsPending'
<1> SUFFICES ASSUME ServerInv, [ServerNext]_all PROVE WorkIsPending'
  OBVIOUS
<1>s. /\ at \in [Calls -> {"idle", "queued", "running", "resumed", "answered", "cancelled"}]
      /\ queue \in Seq(Calls) /\ running \subseteq Calls
      /\ WorkIsPending /\ OwnerHasAThread
  BY DEF ServerInv, ServerTypeOK
<1> USE DEF WorkIsPending
<1>1. ASSUME NEW c \in Calls, NEW a, at[c] \in {"idle", "resumed"},
             at' = [at EXCEPT ![c] = a], UNCHANGED <<queue, running>>
      PROVE  WorkIsPending'
  BY <1>1, <1>s
<1>2. ASSUME NEW c \in Calls, at[c] \in {"idle", "resumed"},
             at' = [at EXCEPT ![c] = "queued"], queue' = Append(queue, c),
             UNCHANGED running
      PROVE  WorkIsPending'
  BY <1>2, <1>s
<1>3. ASSUME NEW c \in Calls, Dispatch(c) \/ Resume(c) PROVE WorkIsPending'
  BY <1>1, <1>2, <1>3 DEF Dispatch, Resume, RunHandler, Answer, SubmitPlain,
     SubmitLocked, Submit
<1>4. ASSUME NEW c \in Calls, Cancel(c) PROVE WorkIsPending'
  BY <1>4, <1>s DEF Cancel, poolVars
<1>5. ASSUME NEW c \in Calls, TakeJob(c) PROVE WorkIsPending'
  <2>1. /\ queue # <<>> /\ c = queue[1] /\ queue' = Tail(queue)
        /\ at[c] \in {"queued", "cancelled"}
    BY <1>5, <1>s DEF TakeJob
  <2>2. /\ Len(queue') = Len(queue) - 1
        /\ \A i \in 1 .. Len(queue') :
             i + 1 \in 1 .. Len(queue) /\ queue'[i] = queue[i + 1] /\ queue'[i] # c
    BY <2>1, <1>s
  <2>3. \/ at' = at /\ running' = running
        \/ at' = [at EXCEPT ![c] = "running"] /\ running' = running \cup {c}
    BY <1>5 DEF TakeJob
  <2>4. \A d \in running' : at'[d] \in {"running", "cancelled"}
    BY <2>3, <1>s
  <2>5. \A i \in 1 .. Len(queue') : at'[queue'[i]] \in {"queued", "cancelled"}
    BY <2>2, <2>3, <1>s
  <2>6. \A i, j \in 1 .. Len(queue') : queue'[i] = queue'[j] => i = j
    <3> SUFFICES ASSUME NEW i \in 1 .. Len(queue'), NEW j \in 1 .. Len(queue'),
                        queue'[i] = queue'[j]
                 PROVE  i = j
      OBVIOUS
    <3>1. i + 1 = j + 1
      BY <2>2, <1>s
    <3> QED
      BY <3>1
  <2> QED
    BY <2>4, <2>5, <2>6
<1>6. ASSUME NEW c \in Calls, EndJob(c), at[c] \in {"running", "cancelled"},
             UNCHANGED queue
      PROVE  WorkIsPending'
  BY <1>6, <1>s DEF EndJob
<1>7. ASSUME NEW c \in Calls, RunPlainJob(c) \/ ReleaseInThread(c)
      PROVE  WorkIsPending'
  <2>1. c \in running
    BY <1>7, <1>s DEF RunPlainJob, ReleaseInThread, Release, Goto,
       OwnerHasAThread, Owning
  <2> QED
    BY <1>6, <1>7, <1>s, <2>1 DEF RunPlainJob, ReleaseInThread
<1>8. ASSUME UNCHANGED <<at, queue, running>> PROVE WorkIsPending'
  BY <1>8, <1>s
<1> QED
  BY <1>3, <1>4, <1>5, <1>7, <1>8
  DEF ServerNext, MutexStep, AcquireInThread, NameHolder, UnnameHolder, RunBody,
      poolVars, Status, StatusGoesOn, serverVars, all

-----------------------------------------------------------------------------
\* A handler starts only after dispatch let its tool through.
LEMMA DispatchAdmits ==
  ASSUME NEW c \in Calls, Dispatch(c)
  PROVE  \/ /\ scope \in Scopes /\ Tool[c] \in Listed(scope) /\ RunHandler(c)
              /\ entered' = entered \cup {c}
         \/ /\ Tool[c] \notin Listed(scope) /\ UNCHANGED entered
            /\ \E a \in {"unknown_tool", "forbidden", "tool_error"} : Answer(c, a)
<1>1. scope \in Scopes
  BY ScopeType DEF Dispatch
<1>2. CASE Tool[c] \notin Tools
  BY <1>2, EnvelopeType DEF Dispatch, Listed
<1>3. CASE Tool[c] \in Tools /\ Forbidden(Tool[c], scope)
  BY <1>1, <1>3, ListedIffNotForbidden, EnvelopeType DEF Dispatch
<1>4. CASE Tool[c] \in Tools /\ ~Forbidden(Tool[c], scope)
  BY <1>1, <1>4, ListedIffNotForbidden DEF Dispatch
<1> QED
  BY <1>2, <1>3, <1>4

\* What is admitted stays admitted, and answered as the registry has it.
LEMMA AdmittedStep ==
  ServerInv /\ [ServerNext]_all => OnlyListedRun' /\ ListedIsCallable'
<1> SUFFICES ASSUME ServerInv, [ServerNext]_all
             PROVE  OnlyListedRun' /\ ListedIsCallable'
  OBVIOUS
<1>s. /\ ServerTypeOK /\ MutexIsForLockedJobs /\ OnlyListedRun /\ ListedIsCallable
      /\ pc \in [Calls -> Labels] /\ written \subseteq Calls
  BY DEF ServerInv, ServerTypeOK, TypeOK
<1>p. WorkIsPending /\ OwnerHasAThread
  BY DEF ServerInv
<1> DEFINE Good == OnlyListedRun /\ ListedIsCallable
<1>e. ASSUME UNCHANGED env PROVE scope' = scope
  BY <1>e DEF scope
<1>1. ASSUME NEW c \in Calls, NEW kind \in {"plain", "locked"}, Submit(c, kind),
             scope \in Scopes, Tool[c] \in Listed(scope), entered' = entered \cup {c},
             UNCHANGED <<env, written>>
      PROVE  Good'
  <2>1. OnlyListedRun'
    BY <1>1, <1>e, <1>s DEF Submit, OnlyListedRun, Admitted, ServerTypeOK
  <2>2. ListedIsCallable'
    BY <1>1, <1>e, <1>s DEF Submit, ListedIsCallable, ServerTypeOK
  <2> QED
    BY <2>1, <2>2
<1>2. ASSUME NEW c \in Calls, NEW a, Answer(c, a), UNCHANGED <<env, written>>,
             \/ Tool[c] \in Listed(scope) /\ entered' = entered \cup {c}
             \/ /\ Tool[c] \notin Listed(scope) /\ UNCHANGED entered /\ c \notin entered
                /\ job[c] = "none" /\ a # "result"
      PROVE  Good'
  <2>1. OnlyListedRun'
    BY <1>2, <1>e, <1>s DEF Answer, OnlyListedRun, Admitted, ServerTypeOK
  <2>2. ListedIsCallable'
    BY <1>2, <1>e, <1>s DEF Answer, ListedIsCallable, ServerTypeOK
  <2> QED
    BY <2>1, <2>2
<1>3. ASSUME NEW c \in Calls, RunHandler(c), scope \in Scopes, Tool[c] \in Listed(scope),
             entered' = entered \cup {c}, UNCHANGED <<env, written>>
      PROVE  Good'
  BY <1>1, <1>2, <1>3 DEF RunHandler, SubmitPlain, SubmitLocked
<1>4. ASSUME NEW c \in Calls, Dispatch(c) PROVE Good'
  <2>1. job[c] = "none" /\ c \notin entered /\ UNCHANGED <<env, written>>
    BY <1>4, <1>s DEF Dispatch, OnlyListedRun, Admitted
  <2>2. CASE /\ scope \in Scopes /\ Tool[c] \in Listed(scope) /\ RunHandler(c)
             /\ entered' = entered \cup {c}
    BY <1>3, <2>1, <2>2
  <2>3. CASE /\ Tool[c] \notin Listed(scope) /\ UNCHANGED entered
             /\ \E a \in {"unknown_tool", "forbidden", "tool_error"} : Answer(c, a)
    BY <1>2, <2>1, <2>3
  <2> QED
    BY <1>4, <2>2, <2>3, DispatchAdmits
<1>5. ASSUME NEW c \in Calls, Resume(c) PROVE Good'
  <2>1. /\ job[c] # "none" /\ scope \in Scopes /\ Tool[c] \in Listed(scope)
        /\ entered' = entered \cup {c} /\ UNCHANGED <<env, written>>
    BY <1>5, <1>s DEF Resume, OnlyListedRun, Admitted
  <2>2. RunHandler(c) \/ \E a : Answer(c, a)
    BY <1>5 DEF Resume
  <2> QED
    BY <1>2, <1>3, <2>1, <2>2
<1>6. ASSUME NEW c \in Calls,
             at[c] \in {"queued", "running", "resumed", "cancelled"},
             at'[c] \in {"queued", "running", "resumed", "cancelled"},
             \A d \in Calls \ {c} : at'[d] = at[d],
             UNCHANGED <<env, job, answer, entered>>,
             written' = written \/ (written' = written \cup {c} /\ Tool[c] \in WriteTools)
      PROVE  Good'
  <2>1. OnlyListedRun'
    BY <1>6, <1>e, <1>s DEF OnlyListedRun, Admitted, ServerTypeOK
  <2>2. ListedIsCallable'
    BY <1>6, <1>e, <1>s DEF ListedIsCallable, ServerTypeOK
  <2> QED
    BY <2>1, <2>2
<1>13. ASSUME UNCHANGED serverVars PROVE Good'
  <2>1. OnlyListedRun'
    BY <1>13, <1>e, <1>s DEF OnlyListedRun, Admitted, serverVars
  <2>2. ListedIsCallable'
    BY <1>13, <1>e, <1>s DEF ListedIsCallable, serverVars
  <2> QED
    BY <2>1, <2>2
<1> HIDE DEF Good
<1>7. ASSUME NEW c \in Calls, Cancel(c) PROVE Good'
  <2>1. at'[c] = "cancelled" /\ \A d \in Calls \ {c} : at'[d] = at[d]
    BY <1>7, <1>s DEF Cancel, ServerTypeOK
  <2> QED
    BY <1>6, <1>7, <2>1 DEF Cancel
<1>8. ASSUME NEW c \in Calls, TakeJob(c) PROVE Good'
  <2>1. at[c] \in {"queued", "cancelled"}
    BY <1>8, <1>p, <1>s DEF TakeJob, WorkIsPending, ServerTypeOK
  <2> QED
    <3>1. /\ at'[c] \in {"running", "cancelled"}
          /\ \A d \in Calls \ {c} : at'[d] = at[d]
      BY <1>8, <1>s, <2>1 DEF TakeJob, ServerTypeOK
    <3> QED
      BY <1>6, <1>8, <2>1, <3>1 DEF TakeJob
<1>9. ASSUME NEW c \in Calls, EndJob(c), c \in running,
             UNCHANGED <<env, job, answer, entered>>,
             written' = written \/ (written' = written \cup {c} /\ Tool[c] \in WriteTools)
      PROVE  Good'
  <2>1. at[c] \in {"running", "cancelled"}
    BY <1>9, <1>p DEF WorkIsPending
  <2>2. at'[c] \in {"resumed", "cancelled"} /\ \A d \in Calls \ {c} : at'[d] = at[d]
    BY <1>9, <1>s DEF EndJob, ServerTypeOK
  <2> QED
    BY <1>6, <1>9, <2>1, <2>2
<1>10. ASSUME NEW c \in Calls, RunPlainJob(c) PROVE Good'
  BY <1>9, <1>10 DEF RunPlainJob
<1>11. ASSUME NEW c \in Calls, ReleaseInThread(c) PROVE Good'
  <2>1. c \in running
    BY <1>11, <1>p DEF ReleaseInThread, Release, Goto, OwnerHasAThread, Owning
  <2> QED
    BY <1>9, <1>11, <2>1 DEF ReleaseInThread
<1>12. ASSUME NEW c \in Calls, RunBody(c) PROVE Good'
  <2>1. pc[c] = "body"
    BY <1>12 DEF RunBody, EndBody, Goto
  <2>2. at[c] \in {"running", "cancelled"}
    BY <1>p, <2>1 DEF OwnerHasAThread, Owning, WorkIsPending
  <2>3. Tool[c] \in WriteTools
    BY <1>s, <2>1 DEF MutexIsForLockedJobs, Lockers, WriteTools
  <2> QED
    BY <1>6, <1>12, <2>2, <2>3 DEF RunBody
<1>14. Good'
  BY <1>4, <1>5, <1>7, <1>8, <1>10, <1>11, <1>12, <1>13
  DEF ServerNext, MutexStep, AcquireInThread, NameHolder, UnnameHolder, Status,
      StatusGoesOn, all
<1> QED
  BY <1>14 DEF Good

-----------------------------------------------------------------------------
\* The invariant always holds.
THEOREM ServerInvariance == ServerSpec => []ServerInv
<1>1. ServerInv /\ [ServerNext]_all => ServerInv'
  <2> SUFFICES ASSUME ServerInv, [ServerNext]_all PROVE ServerInv'
    OBVIOUS
  <2>1. IInv'
    BY NextIInv, StepOfMutex DEF ServerInv
  <2> QED
    BY <2>1, ServerTypeStep, LockedJobsStep, ThreadsStep, PendingStep, AdmittedStep
    DEF ServerInv
<1> QED
  BY <1>1, InitServerInv, PTL DEF ServerSpec, all

\* Every variable of the server keeps its type.
THEOREM ServerTypeCorrect == ServerSpec => []ServerTypeOK
<1>1. ServerInv => ServerTypeOK
  BY DEF ServerInv
<1> QED
  BY <1>1, ServerInvariance, PTL

\* Whoever owns the mutex has a worker thread, and no more threads are in use
\* than there are (mutex.py:23-34).
THEOREM OwnerAlwaysHasAThread == ServerSpec => []OwnerHasAThread
<1>1. ServerInv => OwnerHasAThread
  BY DEF ServerInv
<1> QED
  BY <1>1, ServerInvariance, PTL

\* What list_tools shows and what dispatch lets through agree under every scope,
\* for every name a client may send (tools.py:1467-1485).
THEOREM ListedIsAlwaysCallable == ServerSpec => []ListedIsCallable
<1>1. ServerInv => ListedIsCallable
  BY DEF ServerInv
<1> QED
  BY <1>1, ServerInvariance, PTL

\* Without a token, or on a server asked to be read-only, nothing that writes
\* ever runs (permissions.py:22-28).
THEOREM NothingIsWrittenBeyondScope == ServerSpec => []NothingWrittenBeyondScope
<1>1. ServerInv => NothingWrittenBeyondScope
  <2> SUFFICES ASSUME ServerInv, NEW c \in written
               PROVE  /\ env.token = "secret"
                      /\ env.raw \in Settings => Lowered[env.raw] # "read_only"
    BY DEF NothingWrittenBeyondScope
  <2>1. Tool[c] \in WriteTools /\ scope \in Scopes /\ Tool[c] \in Listed(scope)
    BY DEF ServerInv, ServerTypeOK, OnlyListedRun, Admitted
  <2>2. env.token \in Tokens
    BY ServerAssumption DEF ServerInv, ServerTypeOK
  <2>3. scope # "read_only"
    BY <2>1 DEF Listed, ToolScope, ScopeTier, ReadTools, WriteTools
  <2>4. HasToken(env.token) /\ Requested(env.raw) # "read_only"
    BY <2>1, <2>3 DEF scope, Scopes, ServerScope, EffectiveScope
  <2> QED
    BY <2>2, <2>4, PermissionsAssumption DEF HasToken, Tokens, Requested, Scopes
<1> QED
  BY <1>1, ServerInvariance, PTL
=============================================================================
