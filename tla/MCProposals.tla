----------------------------- MODULE MCProposals -----------------------------
(* Small instances of Proposals: two keys, three spellings, one proposer,   *)
(* one kind of each routing.                                                *)
EXTENDS ProposalsRefine, TLC

CONSTANTS a, b, e  \* calls

MCIds   == {"Foo", "foo", "bar"}
MCKeys  == {"foo", "bar"}
MCFold  == [i \in MCIds |-> IF i = "bar" THEN "bar" ELSE "foo"]
MCKinds == {"link", "schema_drift"}
MCSchemaKinds == {"schema_drift"}

\* sorted() compares the paths as strings: "cogitate" < "schema", and
\* "Foo" < "bar" < "foo".
MCRank ==
  [p \in Paths |-> (IF p.dir = "schema" THEN 3 ELSE 0)
                   + (IF p.name = "Foo" THEN 0 ELSE IF p.name = "bar" THEN 1 ELSE 2)]

Doc(i, k, text) ==
  [id |-> i, kind |-> k, by |-> "cogitate", status |-> "proposed",
   test |-> "untested", text |-> text, supersedes |-> None,
   superseded_by |-> None]

Write(m, d)        == [op |-> "write_proposal", mode |-> m, doc |-> d]
Update(i, s, t)    == [op |-> "update_proposal_status", id |-> i, status |-> s,
                       test |-> t]
Supersede(o, n)    == [op |-> "supersede_proposal", old |-> o, new |-> n]
Read(i)            == [op |-> "read_proposal", id |-> i]
List(dir, s, k)    == [op |-> "list_proposals", dir |-> dir, status |-> s,
                       kind |-> k]

\* The notebook with these <<dir, name, doc>> files.
Notebook(S) ==
  [p \in Paths |->
     IF \E x \in S : x[1] = p.dir /\ x[2] = p.name
     THEN (CHOOSE x \in S : x[1] = p.dir /\ x[2] = p.name)[3] ELSE NoFile]

FooFile  == <<"cogitate", "Foo", Doc("Foo", "link", "v0")>>
foo2File == <<"cogitate", "foo", Doc("foo", "link", "v0")>>
fooDrift == <<"schema", "foo", Doc("foo", "schema_drift", "v0")>>
barFile  == <<"cogitate", "bar", Doc("bar", "link", "v0")>>
barByHand == <<"cogitate", "bar", Doc("bar", "homemade", "v0")>>

Empty   == Notebook({})
HasFoo  == Notebook({FooFile})
HasBoth == Notebook({FooFile, barFile})

\* Left by versions before 0.1.2: one id in two subdirs, or twice in one.
Duplicated   == Notebook({FooFile, fooDrift})
CaseVariants == Notebook({FooFile, foo2File})

CoreNotebooks == {Empty, HasFoo, HasBoth}
CoreRequests ==
  {Write("create", Doc("Foo", "link", "v1")),
   Write("create", Doc("foo", "schema_drift", "v1")),
   Write("update", Doc("foo", "link", "v1")),
   Write("update", Doc("bar", "link", "v1")),
   Update("Foo", "validated", None),
   Update("foo", "validated", "tested"),
   Supersede("Foo", "bar"), Supersede("bar", "foo"), Read("Foo")}

OddNotebooks ==
  {HasFoo, Notebook({FooFile, barByHand}), Duplicated, CaseVariants}
OddRequests ==
  {Write("create", Doc("Foo", "link", "v1")),
   Write("create", Doc("foo", "schema_drift", "v1")),
   Write("update", Doc("foo", "link", "v1")),
   Update("Foo", "validated", None), Supersede("Foo", "bar"),
   Supersede("Foo", "Foo"), Read("Foo"), [op |-> "invalid"],
   List(None, None, None), List("cogitate", "proposed", "homemade")}

SelfLinkRequests == {Supersede("Foo", "foo")}
ClobberRequests == {Write("create", Doc("Foo", "link", "v1"))}

Symmetric == Permutations(Calls)
=============================================================================
