------------------------------ MODULE MCExecute ------------------------------
(* Small instances of Execute for TLC. *)
EXTENDS ExecuteProperties, TLC

CONSTANTS r1, r2, r3, c1, m1, m2

MCRequest == {r1, r2, r3}
TwoRequests == {r1, r2}
MCClientId == {c1}
MCRequestId == MCRequest \cup MCClientId

\* Bodies b and c carry one key, bodies a and b share a task and its budget.
\* That task has no normalizer and c's has one: a raw reply fails the first and
\* is repaired for the second.
MCBody == {"a", "b", "c"}
MCKey == {"k1", "k2"}
MCKeyOf == [b \in MCBody |-> IF b = "a" THEN "k1" ELSE "k2"]
MCTask == {"extract", "bio"}
MCTaskOf == [b \in MCBody |-> IF b = "c" THEN "bio" ELSE "extract"]

MCOutput == {"clean", "raw"}
MCNormalize == [t \in MCTask |-> [o \in MCOutput |-> IF t = "bio" THEN "clean" ELSE o]]
MCValid == [t \in MCTask |-> {"clean"}]

MCModels == [t \in MCTask |-> IF t = "bio" THEN <<m1>> ELSE <<m1, m2>>]

MCDay == 0 .. MaxClock
MCDayOf == [c \in 0 .. MaxClock |-> c]

Limited == [t \in MCTask |-> 2]
OneAMinute == [t \in MCTask |-> 1]
Unlimited == [t \in MCTask |-> 0]
MCBudget == [t \in MCTask |-> 1]
OneDollar == {1}
MCCost == {None, 1}

\* Every call its own body and key, all of one task.
RateBody == {"a", "b", "c"}
RateKeyOf == [b \in RateBody |-> b]
RateTaskOf == [b \in RateBody |-> "bio"]

Symmetry == Permutations(MCRequest)
=============================================================================
