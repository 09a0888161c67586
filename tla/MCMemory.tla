------------------------------ MODULE MCMemory ------------------------------
(* A small instance of MemoryExecute for TLC. *)
EXTENDS MemoryExecute, TLC

CONSTANTS r1, r2, r3

MCRequest == {r1, r2, r3}

\* a and b carry one key, a and c share a task; no check lets x through.
MCBody == {"a", "b", "c", "x"}
MCSound == {"a", "b", "c"}
MCKey == {"k1", "k2"}
MCKeyOf == [b \in MCBody |-> IF b = "c" THEN "k2" ELSE "k1"]
MCTask == {"extract", "bio"}
MCTaskOf == [b \in MCBody |-> IF b = "b" THEN "bio" ELSE "extract"]
MCLimit == [t \in MCTask |-> IF t = "bio" THEN 0 ELSE 1]
MCBudget == [t \in MCTask |-> 1]
MCModels == [t \in MCTask |-> IF t = "bio" THEN <<"m1">> ELSE <<"m1", "m2">>]
MCNormalize == [t \in MCTask |-> [o \in {"clean", "raw"} |-> IF t = "bio" THEN "clean" ELSE o]]
MCValid == [t \in MCTask |-> {"clean"}]

\* Two tokens with one jti and different lifetimes.  In the development mode a
\* call that comes with neither valid goes on without one.
MCToken == {"short", "long"}
MCJtiOf == [t \in MCToken |-> "shared"]
MCExpOf == [t \in MCToken |-> IF t = "short" THEN 1 ELSE 2]
MCJti == {"shared"}
MCTokensOf == [r \in MCRequest |-> MCToken]

Symmetry == Permutations(MCRequest)
=============================================================================
