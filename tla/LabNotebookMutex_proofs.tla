---------------------- MODULE LabNotebookMutex_proofs ----------------------
(***************************************************************************)
(* Theorems of LabNotebookMutex, for any number of calls and of polls.     *)
(***************************************************************************)
EXTENDS LabNotebookMutex, TLAPS

\* Who owns _lock and who owns _holder_lock is where the program counters are.
LockOwner ==
  \A c \in Calls : lock = c <=> pc[c] \in Owning

HolderLockOwner ==
  /\ \A c \in Calls : holderLock = c <=> pc[c] \in {"naming", "clearing"}
  /\ \A r \in Polls : holderLock = r <=> eye[r] = "reading"

\* A poll has seen the name of every call that was inside since it began.
PollsAreAware ==
  \A r \in Polls, c \in Calls :
    eye[r] \in {"looked", "reading"} /\ Inside(c) => Tool[c] \in seen[r]

IInv ==
  /\ TypeOK
  /\ LockOwner
  /\ HolderLockOwner
  /\ HolderNamesTheWriter
  /\ PollsAreAware
  /\ HolderShownIsCurrent

\* The invariant holds initially.
LEMMA InitIInv == Init => IInv
  BY MutexAssumption
  DEF Init, IInv, TypeOK, LockOwner, HolderLockOwner, HolderNamesTheWriter,
      PollsAreAware, HolderShownIsCurrent, Inside, Owning, Labels

\* Every step preserves the invariant, whoever takes it.
LEMMA NextIInv == IInv /\ [Next]_vars => IInv'
<1> SUFFICES ASSUME IInv, [Next]_vars PROVE IInv'
  OBVIOUS
<1> USE MutexAssumption
    DEF IInv, TypeOK, LockOwner, HolderLockOwner, HolderNamesTheWriter,
        PollsAreAware, HolderShownIsCurrent, Inside, Owning, Labels, Goto, Free
<1>1. ASSUME NEW c \in Calls, Call(c) PROVE IInv'
  BY <1>1 DEF Call
<1>2. ASSUME NEW c \in Calls, Acquire(c) PROVE IInv'
  BY <1>2 DEF Acquire
<1>3. ASSUME NEW c \in Calls, EnterHolderLock(c, "owns", "naming") PROVE IInv'
  BY <1>3 DEF EnterHolderLock
<1>4. ASSUME NEW c \in Calls, SetHolder(c) PROVE IInv'
  BY <1>4 DEF SetHolder
<1>5. ASSUME NEW c \in Calls, NEW raised \in BOOLEAN, EndBody(c, raised)
      PROVE IInv'
  BY <1>5 DEF EndBody, AfterBody
<1>6. ASSUME NEW c \in Calls, EnterHolderLock(c, "leaving", "clearing")
      PROVE IInv'
  BY <1>6 DEF EnterHolderLock
<1>7. ASSUME NEW c \in Calls, ClearHolder(c) PROVE IInv'
  BY <1>7 DEF ClearHolder, Clear
<1>8. ASSUME NEW c \in Calls, Release(c) PROVE IInv'
  BY <1>8 DEF Release
<1>9. ASSUME NEW r \in Polls, Look(r) PROVE IInv'
  BY <1>9 DEF Look
<1>10. ASSUME NEW r \in Polls, EnterHolderLockToRead(r) PROVE IInv'
  BY <1>10 DEF EnterHolderLockToRead, Readable
<1>11. ASSUME NEW r \in Polls, ReadHolder(r) PROVE IInv'
  BY <1>11 DEF ReadHolder
<1>12. CASE UNCHANGED vars
  BY <1>12 DEF vars
<1> QED
  BY <1>1, <1>2, <1>3, <1>4, <1>5, <1>6, <1>7, <1>8, <1>9, <1>10, <1>11, <1>12
  DEF Next, CallStep, PollStep

\* The invariant always holds.
THEOREM Invariance == Spec => []IInv
  BY InitIInv, NextIInv, PTL DEF Spec

\* Every variable of mutex.py keeps its type.
THEOREM MutexTypeCorrect == Spec => []TypeOK
<1>1. IInv => TypeOK
  BY DEF IInv
<1> QED
  BY <1>1, Invariance, PTL

\* One call at a time is inside the mutex, and it is the one that is named
\* (mutex.py:65-75).
THEOREM HolderNamesTheWriterAlways == Spec => []HolderNamesTheWriter
<1>1. IInv => HolderNamesTheWriter
  BY DEF IInv
<1> QED
  BY <1>1, Invariance, PTL

\* No status call is shown a holder that left before the call began
\* (mutex.py:77-81).
THEOREM HolderShownIsCurrentAlways == Spec => []HolderShownIsCurrent
<1>1. IInv => HolderShownIsCurrent
  BY DEF IInv
<1> QED
  BY <1>1, Invariance, PTL

\* The writer of the abstract specification is the one call inside.
LEMMA WriterIs ==
  ASSUME HolderNamesTheWriter, NEW c \in Calls
  PROVE  Inside(c) => Writer = c
  BY DEF HolderNamesTheWriter, Writer

\* Nobody inside, no writer.
LEMMA NoWriter ==
  (\A c \in Calls : ~Inside(c)) => Writer = None
  BY DEF Writer

\* The mutex implements the single writer it promises (mutex.py:7-17).
THEOREM MutexImplementsSingleWriter == Spec => ImplementsSingleWriter
<1>1. Init => SW!Init
  <2> SUFFICES ASSUME Init PROVE SW!Init
    OBVIOUS
  <2>1. \A c \in Calls : ~Inside(c)
    BY DEF Init, Inside
  <2> QED
    BY <2>1, NoWriter DEF Init, SW!Init
<1>2. IInv /\ IInv' /\ [Next]_vars => [SW!Next]_<<Writer, holder>>
  <2> SUFFICES ASSUME IInv, IInv', [Next]_vars
               PROVE  [SW!Next]_<<Writer, holder>>
    OBVIOUS
  <2>1. ASSUME NEW c \in Calls, SetHolder(c) PROVE SW!Enter(c)
    <3>1. Inside(c)' /\ \A d \in Calls : ~Inside(d)
      BY <2>1 DEF SetHolder, Goto, Inside, IInv, TypeOK, HolderLockOwner,
                  LockOwner, Owning
    <3>2. Writer = None
      BY <3>1, NoWriter
    <3>3. Writer' = c
      BY <3>1, WriterIs DEF IInv, Writer, HolderNamesTheWriter
    <3> QED
      BY <2>1, <3>2, <3>3 DEF SetHolder, SW!Enter
  <2>2. ASSUME NEW c \in Calls, ClearHolder(c) PROVE SW!Leave
    <3>1. Inside(c) /\ (\A d \in Calls : ~Inside(d))'
      BY <2>2 DEF ClearHolder, Goto, Inside, IInv, TypeOK, LockOwner, Owning
    <3>2. Writer = c
      BY <3>1, WriterIs DEF IInv
    <3>3. Writer' = None
      BY <3>1 DEF Writer
    <3> QED
      BY <2>2, <3>2, <3>3, MutexAssumption DEF ClearHolder, Clear, SW!Leave
  <2>3. ASSUME holder' = holder, \A d \in Calls : Inside(d)' = Inside(d)
        PROVE  UNCHANGED <<Writer, holder>>
    BY <2>3 DEF Writer
  <2>4. ASSUME NEW c \in Calls,
               \/ Call(c) \/ Acquire(c) \/ EnterHolderLock(c, "owns", "naming")
               \/ \E raised \in BOOLEAN : EndBody(c, raised)
               \/ EnterHolderLock(c, "leaving", "clearing") \/ Release(c)
        PROVE  holder' = holder /\ \A d \in Calls : Inside(d)' = Inside(d)
    BY <2>4 DEF Call, Acquire, EnterHolderLock, EndBody, AfterBody, Release,
                Goto, Inside, IInv, TypeOK
  <2>5. ASSUME NEW r \in Polls, Look(r) \/ PollStep(r)
        PROVE  holder' = holder /\ \A d \in Calls : Inside(d)' = Inside(d)
    BY <2>5 DEF Look, PollStep, EnterHolderLockToRead, Readable, ReadHolder, Inside
  <2>6. ASSUME UNCHANGED vars
        PROVE  holder' = holder /\ \A d \in Calls : Inside(d)' = Inside(d)
    BY <2>6 DEF vars, Inside
  <2> QED
    BY <2>1, <2>2, <2>3, <2>4, <2>5, <2>6 DEF Next, CallStep, SW!Next
<1> QED
  BY <1>1, <1>2, Invariance, PTL DEF Spec, ImplementsSingleWriter, SW!Spec
=============================================================================
