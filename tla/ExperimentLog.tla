---------------------------- MODULE ExperimentLog ---------------------------
(***************************************************************************)
(* What the experiment tools promise, with no tmp files, inodes or worker  *)
(* threads in sight: a log of records, one per file name.  A write that no *)
(* other write of the same run overlaps lands whole, or fails and changes  *)
(* nothing; only writes that overlap may garble a record.  A read answers  *)
(* what the log holds at one instant of the read (tools.py:796-802).       *)
(***************************************************************************)
EXTENDS ExperimentData

CONSTANTS
  Calls,
  Garbled,   \* a mixture of several records
  FirstLogs  \* the logs a notebook may start with

VARIABLES
  log,         \* log[p]: the record at p, Garbled, or None
  writing,     \* writing[c]: the path and record c is writing, or None
  overlapped,  \* the writes that another write of their run overlapped
  answer       \* what each call answers, once it has taken effect

Init ==
  /\ log \in FirstLogs
  /\ writing = [c \in Calls |-> None]
  /\ overlapped = {}
  /\ answer = [c \in Calls |-> None]

Writers(p) == {c \in Calls : writing[c] # None /\ writing[c].path = p}

Say(c, is, d) ==
  /\ answer[c] = None
  /\ answer' = [answer EXCEPT ![c] = [is |-> is, doc |-> d]]

Begin(c, d) ==
  LET p == Target(d.pid, d.at) IN
  /\ writing[c] = None /\ answer[c] = None
  /\ writing' = [writing EXCEPT ![c] = [path |-> p, doc |-> d]]
  /\ overlapped' = IF Writers(p) = {} THEN overlapped
                   ELSE overlapped \cup Writers(p) \cup {c}
  /\ UNCHANGED <<log, answer>>

Land(c) ==
  /\ writing[c] # None /\ c \notin overlapped
  /\ log' = [log EXCEPT ![writing[c].path] = writing[c].doc]
  /\ writing' = [writing EXCEPT ![c] = None]
  /\ Say(c, "recorded", None)
  /\ UNCHANGED overlapped

Fail(c) ==
  /\ writing' = [writing EXCEPT ![c] = None]
  /\ Say(c, "failed", None)
  /\ UNCHANGED <<log, overlapped>>

\* An overlapped write does to its record what it likes, but never removes it.
Collide(c) ==
  /\ c \in overlapped /\ writing[c] # None
  /\ \E x \in Docs \cup {Garbled} : log' = [log EXCEPT ![writing[c].path] = x]
  /\ \/ UNCHANGED <<writing, answer>>
     \/ writing' = [writing EXCEPT ![c] = None] /\ Say(c, "recorded", None)
  /\ UNCHANGED overlapped

Read(c, pid, t) ==
  LET p == Found({q \in Paths : log[q] # None}, pid, t) IN
  /\ IF p = None THEN Say(c, "not_found", None) ELSE Say(c, "read", log[p])
  /\ UNCHANGED <<log, writing, overlapped>>

Restart ==
  /\ writing' = [c \in Calls |-> None]
  /\ UNCHANGED <<log, overlapped, answer>>

Next ==
  \/ \E c \in Calls, d \in Docs : Begin(c, d)
  \/ \E c \in Calls : Land(c) \/ Fail(c) \/ Collide(c)
  \/ \E c \in Calls, pid \in Pids, t \in Times : Read(c, pid, t)
  \/ Restart

Spec == Init /\ [][Next]_<<log, writing, overlapped, answer>>
=============================================================================
