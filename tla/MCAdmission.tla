----------------------------- MODULE MCAdmission -----------------------------
(* Small instances of Admission for TLC. *)
EXTENDS Admission, TLC

CONSTANTS r1, r2, r3

MCRequest == {r1, r2, r3}

\* Two tokens with one jti and different lifetimes, one without scopes, one that
\* is not valid yet, one that the caller did not sign.
MCToken == {"short", "long", "scopeless", "early", "forged"}
MCJti == {"j1", "j2"}
MCJtiOf == [t \in MCToken |-> IF t \in {"short", "long"} THEN "j1" ELSE "j2"]
MCStartOf == [t \in MCToken |-> IF t = "early" THEN 1 ELSE 0]
MCExpOf == [t \in MCToken |-> IF t = "short" THEN 1 ELSE 2]
MCGenuine == MCToken \ {"forged"}
MCScope == {"ai:execute"}
MCScopesOf == [t \in MCToken |-> IF t = "scopeless" THEN {} ELSE MCScope]

Symmetry == Permutations(MCRequest)
=============================================================================
