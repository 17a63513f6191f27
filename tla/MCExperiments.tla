---------------------------- MODULE MCExperiments ----------------------------
(* Small instances of Experiments: a whole second and an instant within it,  *)
(* the second of them spelled in three ways.                                 *)
EXTENDS Experiments, TLC

CONSTANTS a, b, e  \* calls

MCTimes     == {"30.0", "30.5"}
MCSecond    == [t \in MCTimes |-> "30.0"]
MCSpellings == {"30.0+00:00", "30.5+00:00", "30.5+02:00", "1700000030.5"}
MCWritable  == MCSpellings
MCReadable  == MCSpellings \ {"1700000030.5"}
MCUtc       == [s \in MCSpellings |-> IF s = "30.0+00:00" THEN "30.0" ELSE "30.5"]

Write(pid, at, body) == [op |-> "write_experiment", pid |-> pid, at |-> at, body |-> body]
Read(pid, at)        == [op |-> "read_experiment", pid |-> pid, at |-> at]
List(pid)            == [op |-> "list_experiments", pid |-> pid]

Empty == [p \in Paths |-> None]

\* A file of v0.1.0 and one whose name is no timestamp.
Old ==
  [Empty EXCEPT
     ![Legacy("foo", "30.0")] = [pid |-> "foo", at |-> "30.5", body |-> "x"],
     ![[pid |-> "foo", name |-> [fmt |-> "stray", at |-> None]]] =
       [pid |-> "foo", at |-> "30.0", body |-> "y"]]

LogRuns == {Empty, Old}

LogRequests ==
  {Write("foo", "30.5+02:00", "x"), Write("foo", None, "y"),
   Write("bar", "30.0+00:00", "x"),
   Read("foo", "30.5+02:00"), Read("foo", "30.0+00:00"),
   Read("foo", "1700000030.5"), List("foo"), List(None)}

Symmetric == Permutations(Calls)
=============================================================================
