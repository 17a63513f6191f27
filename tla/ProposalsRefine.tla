--------------------------- MODULE ProposalsRefine ---------------------------
(* The tools over files, tmp siblings, walks and a mutex implement the map  *)
(* from casefolded ids to proposals of ProposalStore.                       *)
EXTENDS Proposals

ASSUME EntryAssumption == None \notin Commits

StoreBar ==
  [k \in Keys |->
     IF Holders(k) = {} THEN None
     ELSE LET p == CHOOSE p \in Holders(k) : TRUE
          IN [path |-> p, doc |-> files[p]]]

Asked(op) == {r \in Requests : r.op = op}

Store == INSTANCE ProposalStore
           WITH store <- StoreBar,
                Submissions <- {r.doc : r \in Asked("write_proposal")},
                StatusUpdates <- Asked("update_proposal_status"),
                Supersessions <- Asked("supersede_proposal")

\* Every step of every tool is one step of the abstract store or none: one
\* proposal is added, rewritten or has its lifecycle or one link replaced, and
\* no update of another call is lost in between (tools.py:329-366, 594-608,
\* 682-704; README "enforce storage correctness").
\* This is Store!StoreSpec: a step that changes no file cannot change StoreBar.
ImplementsStore ==
  /\ Store!StoreInit
  /\ [][files' # files => Store!StoreNext \/ UNCHANGED StoreBar]_vars
=============================================================================
