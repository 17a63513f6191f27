--------------------------- MODULE ExperimentData ---------------------------
(***************************************************************************)
(* The vocabulary of the experiment half of the lab notebook: instants,    *)
(* the ways callers spell them, the file names they are formatted to and   *)
(* the records the files hold.                                             *)
(***************************************************************************)
CONSTANTS
  Pids,       \* proposal ids that pass _validate_id
  Times,      \* UTC instants, to the microsecond
  Second,     \* Second[t]: t without its microseconds
  Spellings,  \* run_timestamp strings
  Writable,   \* those pydantic reads as a datetime
  Readable,   \* those datetime.fromisoformat reads
  Utc,        \* Utc[s]: the instant s names; a naive one is taken as UTC
  Bodies,     \* input, result and links_to_proposal
  None

ASSUME ExperimentDataAssumption ==
  /\ Second \in [Times -> Times]
  /\ \A t \in Times : Second[Second[t]] = Second[t]
  /\ Writable \subseteq Spellings /\ Readable \subseteq Spellings
  /\ Utc \in [Spellings -> Times]
  /\ None \notin Pids \cup Times \cup Spellings

\* A stem in the current format, in the one of v0.1.0, or in neither.
Names == [fmt : {"micro"}, at : Times]
           \cup [fmt : {"legacy"}, at : {Second[t] : t \in Times}]
           \cup [fmt : {"stray"}, at : {None}]

Paths == [pid : Pids, name : Names]

\* ExperimentRecord, as write_experiment stores it.
Docs == [pid : Pids, at : Times, body : Bodies]

\* _timestamp_to_filename: always the current format.
Micro(pid, t) == [pid |-> pid, name |-> [fmt |-> "micro", at |-> t]]

Legacy(pid, t) == [pid |-> pid, name |-> [fmt |-> "legacy", at |-> Second[t]]]

TargetInSeconds(pid, t) == Legacy(pid, t)

Target(pid, t) == Micro(pid, t)

\* Where read_experiment finds a run, among the paths that have a file.
FoundLegacyFirst(present, pid, t) ==
  IF Legacy(pid, t) \in present THEN Legacy(pid, t)
  ELSE IF Micro(pid, t) \in present THEN Micro(pid, t)
  ELSE None

Found(present, pid, t) ==
  IF Micro(pid, t) \in present THEN Micro(pid, t)
  ELSE IF Legacy(pid, t) \in present THEN Legacy(pid, t)
  ELSE None
=============================================================================
