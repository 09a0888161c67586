------------------------------- MODULE OnceOnly -------------------------------
(***************************************************************************)
(* What the router promises its callers about an Idempotency-Key, without   *)
(* tables, workers, providers or crashes: a key is bound to one body, is    *)
(* settled with one response at most, and every caller is told the truth    *)
(* about it at the moment it is answered.                                   *)
(***************************************************************************)
CONSTANTS Key, Body, KeyOf, Response, Request, None

VARIABLES
    bound,      \* the body each key is bound to, None before the first claim
    settled,    \* the response each key was settled with, or None
    told        \* what each call was told: its body, a code, a response

onceVars == <<bound, settled, told>>

\* Refusals that say nothing about the key.
Unrelated == {"REQUEST_ID_COLLISION", "RATE_LIMITED", "INTERNAL_ERROR"}

Init ==
    /\ bound = [k \in Key |-> None]
    /\ settled = [k \in Key |-> None]
    /\ told = [r \in Request |-> None]

\* The first call that carries a key binds it.
Bind(k) ==
    /\ bound[k] = None
    /\ \E b \in Body : /\ KeyOf[b] = k
                       /\ bound' = [bound EXCEPT ![k] = b]
    /\ UNCHANGED <<settled, told>>

Settle(k) ==
    /\ bound[k] # None
    /\ settled[k] = None
    /\ settled'[k] \in Response
    /\ settled' = [settled EXCEPT ![k] = settled'[k]]
    /\ UNCHANGED <<bound, told>>

\* An answer is given once, and each answer is true when it is given.
Say(r, b, code, p) ==
    /\ told[r] = None
    /\ told' = [told EXCEPT ![r] = [body |-> b, code |-> code, response |-> p]]
    /\ UNCHANGED <<bound, settled>>

SayResult(r, b) ==
    /\ bound[KeyOf[b]] = b
    /\ settled[KeyOf[b]] # None
    /\ Say(r, b, "OK", settled[KeyOf[b]])

SayConflict(r, b) ==
    /\ bound[KeyOf[b]] \notin {None, b}
    /\ Say(r, b, "IDEMPOTENCY_CONFLICT", None)

SayInProgress(r, b) ==
    /\ bound[KeyOf[b]] = b
    /\ settled[KeyOf[b]] = None
    /\ Say(r, b, "REQUEST_IN_PROGRESS", None)

SayUnrelated(r, b) == \E code \in Unrelated : Say(r, b, code, None)

Next ==
    \/ \E k \in Key : Bind(k) \/ Settle(k)
    \/ \E r \in Request, b \in Body :
          SayResult(r, b) \/ SayConflict(r, b) \/ SayInProgress(r, b) \/ SayUnrelated(r, b)

Spec == Init /\ [][Next]_onceVars
=============================================================================
