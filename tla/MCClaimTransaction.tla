------------------------- MODULE MCClaimTransaction -------------------------
(* A small instance of ClaimTransaction for TLC: four calls, of which two    *)
(* carry one body, three one key, and two the same request id, across keys. *)
EXTENDS ClaimTransaction, TLC

MCClaimant == 1 .. 4
MCBody == {"a", "b", "c"}
MCKey == {"k1", "k2"}
MCTask == {"t"}
MCKeyOf == [b \in MCBody |-> IF b = "c" THEN "k2" ELSE "k1"]
MCTaskOf == [b \in MCBody |-> "t"]
MCRequestId == {"i1", "i2", "i3"}
MCBodyFor == 1 :> "a" @@ 2 :> "a" @@ 3 :> "b" @@ 4 :> "c"
MCIdFor == 1 :> "i1" @@ 2 :> "i2" @@ 3 :> "i3" @@ 4 :> "i1"
Zero == [t \in MCTask |-> 0]
MCDayOf == [c \in {0} |-> 0]
=============================================================================
