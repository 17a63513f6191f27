---------------------------- MODULE ProposalData ----------------------------
(***************************************************************************)
(* The vocabulary of the proposal half of the lab notebook: ids, the       *)
(* frontmatter of a proposal, the directory a proposal is routed to and    *)
(* the path of its file.  Strings are abstracted to members of small sets; *)
(* what the tools tell apart is kept: the spelling of an id and its        *)
(* casefolded key, schema-related kinds and the others, the lifecycle      *)
(* fields, the two supersede links, and one field for everything else.     *)
(***************************************************************************)
EXTENDS Naturals, FiniteSets

CONSTANTS
  Ids,          \* proposal ids, as callers spell them
  Keys,         \* casefolded ids
  Fold,         \* Fold[i] is the key of id i
  Proposers,    \* names allowed in `proposed_by`
  Kinds,        \* the members of ProposalKind
  SchemaKinds,  \* the kinds routed to proposals/schema
  OtherKind,    \* a hand-written kind that is not in the enum
  Statuses,     \* the members of ProposalStatus
  Tests,        \* a value stands for a (test_status, test_cost) pair
  Texts,        \* title, body and every field no tool interprets
  None          \* Python's None: an absent link, filter or optional argument

ASSUME DataAssumption ==
  /\ Fold \in [Ids -> Keys]
  /\ SchemaKinds \subseteq Kinds
  /\ OtherKind \notin Kinds
  /\ None \notin Ids \cup Keys \cup Tests \cup Statuses \cup Kinds \cup Proposers
  /\ None # "schema"

Dirs == Proposers \cup {"schema"}

Paths == [dir : Dirs, name : Ids]

\* ProposalPage: the frontmatter fields the tools read or write.
Docs == [id : Ids, kind : Kinds \cup {OtherKind}, by : Proposers,
         status : Statuses, test : Tests, text : Texts,
         supersedes : Ids \cup {None}, superseded_by : Ids \cup {None}]

KeyOf(d) == Fold[d.id]

\* Frontmatter PROPOSAL_ADAPTER accepts.
Valid(d) == d.kind \in Kinds

Route(d) == IF d.kind \in SchemaKinds THEN "schema" ELSE d.by

TargetByProposer(d) == [dir |-> d.by, name |-> d.id]

Target(d) == [dir |-> Route(d), name |-> d.id]
=============================================================================
