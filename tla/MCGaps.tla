------------------------------- MODULE MCGaps -------------------------------
(* Small instances of Gaps: two ids, one field, one line of prose.           *)
EXTENDS Gaps

CONSTANTS a, b, e  \* calls

Add(g)    == [op |-> "add_gap", id |-> g, fields |-> <<Field("why")>>]
Drop(g)   == [op |-> "remove_gap", id |-> g]
ListAll   == [op |-> "list_gaps"]
Boot      == [op |-> "bootstrap"]
BadCall   == [op |-> "invalid"]

MCPlaceholder == <<Other("p"), Blank>>

OneGap == <<Other("p"), Blank, Header("g"), Field("why"), Blank>>

\* Written by hand: no newline at the end, the second gap below the first.
TwoGaps == <<Header("g"), Field("why"), Header("h")>>

AllTexts  == {NoFile, MCPlaceholder, OneGap, TwoGaps}
RaceTexts == {NoFile}

GapRequests   == {Add("g"), Add("h"), Drop("g"), Drop("h"), ListAll, BadCall}
FaultRequests == {Add("g"), Add("h"), Drop("g"), ListAll, Boot}
RaceRequests  == {Add("g"), Boot}

Symmetric == Permutations(Calls)
=============================================================================
