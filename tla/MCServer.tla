------------------------------- MODULE MCServer ------------------------------
(* Two threads for three calls that want the mutex, one of them after a      *)
(* lookup, and a status call.                                                *)
EXTENDS Server

CONSTANTS a, b, e, r  \* calls and a poll

MCNames == Tools \cup {"no_such_tool"}

MCTool ==
  [c \in {a, b, e} |->
     CASE c = a -> "update_proposal_status" [] c = b -> "add_gap"
       [] c = e -> "remove_gap"]

MCSettings == {"read_only", "READ_WRITE", "remove_destructive", "none"}

MCLowered == [s \in MCSettings |-> IF s = "READ_WRITE" THEN "read_write" ELSE s]

Env(raw, token) == [raw |-> raw, token |-> token]

MCEnvs ==
  {Env("unset", "secret"), Env("READ_WRITE", ""), Env("remove_destructive", "unset"),
   Env("read_only", "secret"), Env("", "unset"), Env("none", "secret")}
=============================================================================
