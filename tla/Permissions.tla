----------------------------- MODULE Permissions -----------------------------
(***************************************************************************)
(* permissions.py, the registry and the scope filter of tools.py, and the  *)
(* start-up of server.py that decides which tools a server offers.         *)
(***************************************************************************)
EXTENDS Naturals

CONSTANTS
  Settings,  \* values of EBONY_SCOPE, besides "" and "unset"
  Lowered    \* Lowered[s]: the value in lower case

ASSUME PermissionsAssumption ==
  /\ Lowered \in [Settings -> STRING]
  /\ Settings \cap {"unset", ""} = {}

ScopeTier == [read_only |-> 0, read_write |-> 1, remove_destructive |-> 2]

Scopes == {"read_only", "read_write", "remove_destructive"}

\* EBONY_INTERNAL_TOKEN: an empty one counts as unset.
Tokens == {"unset", "", "secret"}

HasTokenIfSet(token) == token # "unset"

HasToken(token) == token \notin {"unset", ""}

Requested(raw) ==
  LET s == IF raw \in {"unset", ""} THEN "read_write" ELSE Lowered[raw] IN
  IF s \in Scopes THEN s ELSE "invalid"

EffectiveScope(requested, token) ==
  IF HasToken(token) THEN requested ELSE "read_only"

\* A server with an invalid setting does not start.
ServerScope(raw, token) ==
  IF Requested(raw) = "invalid" THEN "invalid"
  ELSE EffectiveScope(Requested(raw), token)

ReadTools ==
  {"status", "read_proposal", "list_proposals", "read_experiment",
   "list_experiments", "list_gaps"}

WriteTools ==
  {"bootstrap", "write_proposal", "update_proposal_status",
   "supersede_proposal", "write_experiment", "add_gap", "remove_gap"}

Tools == ReadTools \cup WriteTools

ToolScope(name) == IF name \in ReadTools THEN "read_only" ELSE "read_write"

ListedBelow(scope) == {n \in Tools : ScopeTier[ToolScope(n)] < ScopeTier[scope]}

Listed(scope) == {n \in Tools : ScopeTier[ToolScope(n)] <= ScopeTier[scope]}

Forbidden(name, scope) == ScopeTier[ToolScope(name)] > ScopeTier[scope]
=============================================================================
