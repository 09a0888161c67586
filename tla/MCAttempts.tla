----------------------------- MODULE MCAttempts -----------------------------
(* A small instance of Attempts for TLC. *)
EXTENDS Attempts

\* Two provider/model ids, and a name that is none.
MCName == {"p/a", "p/b", "blank"}
MCWellFormed == {"p/a", "p/b"}

\* Among them policies that are empty, repeat a model or name a malformed one.
MCPolicies == UNION {[1 .. n -> MCName] : n \in 0 .. 2}
=============================================================================
