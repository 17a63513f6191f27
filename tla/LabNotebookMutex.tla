-------------------------- MODULE LabNotebookMutex --------------------------
(***************************************************************************)
(* mutex.py, step by step: `_lock`, the `_holder_lock` that guards the     *)
(* holder's name, the worker threads that acquire it and the status calls  *)
(* that look at it from the event loop.  A thread may be preempted between *)
(* any two steps.                                                          *)
(***************************************************************************)
CONSTANTS
  Calls,  \* tool calls that take the mutex, each once
  Polls,  \* status calls, each made once
  Names,  \* holder names
  Tool,   \* Tool[c]: the name call c acquires the mutex under
  None

ASSUME MutexAssumption ==
  /\ Tool \in [Calls -> Names]
  /\ Calls \cap Polls = {}
  /\ None \notin Calls \cup Polls /\ None \notin Names

VARIABLES
  lock,        \* the call that owns _lock
  holderLock,  \* the call or poll that owns _holder_lock
  holder,      \* _holder
  pc,          \* where each call is
  eye,         \* where each poll is
  sawLocked,   \* the `locked` each poll answers
  sawHolder,   \* the `holder` each poll answers
  seen         \* history: the names of the calls inside during each poll

vars == <<lock, holderLock, holder, pc, eye, sawLocked, sawHolder, seen>>

Owning == {"owns", "naming", "body", "leaving", "clearing", "releasing"}
Labels == {"idle", "waiting", "done"} \cup Owning

TypeOK ==
  /\ lock \in Calls \cup {None}
  /\ holderLock \in Calls \cup Polls \cup {None}
  /\ holder \in Names \cup {None}
  /\ pc \in [Calls -> Labels]
  /\ eye \in [Polls -> {"idle", "looked", "reading", "done"}]
  /\ sawLocked \in [Polls -> BOOLEAN]
  /\ sawHolder \in [Polls -> Names \cup {None}]
  /\ seen \in [Polls -> SUBSET Names]

Init ==
  /\ lock = None
  /\ holderLock = None
  /\ holder = None
  /\ pc = [c \in Calls |-> "idle"]
  /\ eye = [r \in Polls |-> "idle"]
  /\ sawLocked = [r \in Polls |-> FALSE]
  /\ sawHolder = [r \in Polls |-> None]
  /\ seen = [r \in Polls |-> {}]

\* Inside: between setting the holder's name and clearing it.
Inside(c) == pc[c] \in {"body", "leaving", "clearing"}

Goto(c, from, to) == pc[c] = from /\ pc' = [pc EXCEPT ![c] = to]

-----------------------------------------------------------------------------
(* acquire(holder_name), around the body of a with statement.              *)

Call(c) ==
  /\ Goto(c, "idle", "waiting")
  /\ UNCHANGED <<lock, holderLock, holder, eye, sawLocked, sawHolder, seen>>

NotTaken(l) == TRUE

Free(l) == l = None

Acquire(c) ==
  /\ Goto(c, "waiting", "owns")
  /\ Free(lock)
  /\ lock' = c
  /\ UNCHANGED <<holderLock, holder, eye, sawLocked, sawHolder, seen>>

EnterHolderLock(c, from, to) ==
  /\ Goto(c, from, to)
  /\ Free(holderLock)
  /\ holderLock' = c
  /\ UNCHANGED <<lock, holder, eye, sawLocked, sawHolder, seen>>

\* The name is set and _holder_lock released: nobody sees it half done.
SetHolder(c) ==
  /\ Goto(c, "naming", "body")
  /\ holder' = Tool[c]
  /\ holderLock' = None
  /\ seen' = [r \in Polls |-> IF eye[r] \in {"looked", "reading"}
                              THEN seen[r] \cup {Tool[c]} ELSE seen[r]]
  /\ UNCHANGED <<lock, eye, sawLocked, sawHolder>>

AfterBodyNoFinally(raised) == IF raised THEN "done" ELSE "leaving"

\* `finally`: the same whether the body returned or raised.
AfterBody(raised) == "leaving"

EndBody(c, raised) ==
  /\ Goto(c, "body", AfterBody(raised))
  /\ UNCHANGED <<lock, holderLock, holder, eye, sawLocked, sawHolder, seen>>

KeepHolder == UNCHANGED holder

Clear == holder' = None

ClearHolder(c) ==
  /\ Goto(c, "clearing", "releasing")
  /\ Clear
  /\ holderLock' = None
  /\ UNCHANGED <<lock, eye, sawLocked, sawHolder, seen>>

Release(c) ==
  /\ Goto(c, "releasing", "done")
  /\ lock' = None
  /\ UNCHANGED <<holderLock, holder, eye, sawLocked, sawHolder, seen>>

CallStep(c) ==
  \/ Acquire(c)
  \/ EnterHolderLock(c, "owns", "naming") \/ SetHolder(c)
  \/ \E raised \in BOOLEAN : EndBody(c, raised)
  \/ EnterHolderLock(c, "leaving", "clearing") \/ ClearHolder(c)
  \/ Release(c)

-----------------------------------------------------------------------------
(* status: {"locked": mutex.locked, "holder": mutex.holder}, in this order. *)

Look(r) ==
  /\ eye[r] = "idle"
  /\ eye' = [eye EXCEPT ![r] = "looked"]
  /\ sawLocked' = [sawLocked EXCEPT ![r] = (lock # None)]
  /\ seen' = [seen EXCEPT ![r] = {Tool[c] : c \in {d \in Calls : Inside(d)}}]
  /\ UNCHANGED <<lock, holderLock, holder, pc, sawHolder>>

ReadableIfUnlocked == Free(lock)

Readable == Free(holderLock)

EnterHolderLockToRead(r) ==
  /\ eye[r] = "looked"
  /\ Readable
  /\ holderLock' = r
  /\ eye' = [eye EXCEPT ![r] = "reading"]
  /\ UNCHANGED <<lock, holder, pc, sawLocked, sawHolder, seen>>

ReadHolder(r) ==
  /\ eye[r] = "reading"
  /\ sawHolder' = [sawHolder EXCEPT ![r] = holder]
  /\ holderLock' = None
  /\ eye' = [eye EXCEPT ![r] = "done"]
  /\ UNCHANGED <<lock, holder, pc, sawLocked, seen>>

PollStep(r) == EnterHolderLockToRead(r) \/ ReadHolder(r)

-----------------------------------------------------------------------------
Next ==
  \/ \E c \in Calls : Call(c) \/ CallStep(c)
  \/ \E r \in Polls : Look(r) \/ PollStep(r)

Spec == Init /\ [][Next]_vars

-----------------------------------------------------------------------------
(* Properties.                                                             *)

\* While a call is in its critical section, the holder is its name and no
\* other call is inside; with nobody inside there is no holder
\* (mutex.py:65-75).
HolderNamesTheWriter ==
  /\ \A c, d \in Calls : Inside(c) /\ Inside(d) => c = d
  /\ \A c \in Calls : Inside(c) => holder = Tool[c]
  /\ (\A c \in Calls : ~Inside(c)) => holder = None

\* A holder that a status call answers was inside at some time during that
\* call: it is never left over from an earlier one (mutex.py:77-81).
HolderShownIsCurrent ==
  \A r \in Polls : eye[r] = "done" /\ sawHolder[r] # None =>
    sawHolder[r] \in seen[r]

\* status never shows a locked mutex with no holder (mutex.py:58-61: the
\* holder's own lock is there since "otherwise there's a race").
LockedHasHolder ==
  \A r \in Polls : eye[r] = "done" /\ sawLocked[r] => sawHolder[r] # None

Writer == IF \E c \in Calls : Inside(c)
          THEN CHOOSE c \in Calls : Inside(c) ELSE None

SW == INSTANCE SingleWriter WITH writer <- Writer, named <- holder

\* The mutex implements the single writer: each step is a step of it or none.
ImplementsSingleWriter == SW!Spec
=============================================================================
