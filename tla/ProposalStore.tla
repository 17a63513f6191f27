---------------------------- MODULE ProposalStore ---------------------------
(***************************************************************************)
(* What the proposal tools promise, with no files, locks, walks or crashes *)
(* in sight: a map from casefolded ids to proposals in which a proposal,   *)
(* once there, never disappears and never changes directory, and which     *)
(* changes one proposal at a time, by adding it, rewriting it whole, or    *)
(* replacing its lifecycle fields or one of its links and nothing else.    *)
(***************************************************************************)
EXTENDS ProposalData

CONSTANTS
  Submissions,    \* the proposals callers write
  StatusUpdates,  \* the [id, status, test] they ask for
  Supersessions   \* the [old, new] they ask for

VARIABLE store   \* store[k]: None, or where proposal k lives and what it says

Entries == [path : Paths, doc : Docs]

StoreTypeOK == store \in [Keys -> Entries \cup {None}]

Has(k) == store[k] # None

StoreInit == StoreTypeOK

Add(d) ==
  /\ ~Has(KeyOf(d))
  /\ store' = [store EXCEPT ![KeyOf(d)] = [path |-> Target(d), doc |-> d]]

Put(k, d) ==
  /\ Has(k)
  /\ store' = [store EXCEPT ![k] = [path |-> store[k].path, doc |-> d]]

Rewrite(d) ==
  /\ Has(KeyOf(d))
  /\ Route(d) = store[KeyOf(d)].path.dir
  /\ Put(KeyOf(d), d)

\* With no test status, the one that is there is kept.
SetLifecycle(k, s, t) ==
  /\ Has(k)
  /\ Put(k, [store[k].doc EXCEPT !.status = s,
                                 !.test = IF t = None THEN @ ELSE t])

SetSupersededBy(k, i) ==
  /\ Has(k) /\ Has(Fold[i])
  /\ Put(k, [store[k].doc EXCEPT !.superseded_by = i])

SetSupersedes(k, i) ==
  /\ Has(k) /\ Has(Fold[i])
  /\ Put(k, [store[k].doc EXCEPT !.supersedes = i])

StoreNext ==
  \/ \E d \in Submissions : Add(d) \/ Rewrite(d)
  \/ \E r \in StatusUpdates : SetLifecycle(Fold[r.id], r.status, r.test)
  \/ \E r \in Supersessions : \/ SetSupersededBy(Fold[r.old], r.new)
                              \/ SetSupersedes(Fold[r.new], r.old)

StoreSpec == StoreInit /\ [][StoreNext]_store
=============================================================================
