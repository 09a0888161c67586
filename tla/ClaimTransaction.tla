-------------------------- MODULE ClaimTransaction --------------------------
(***************************************************************************)
(* PostgresStore.claim statement by statement: SELECT the key's row, INSERT *)
(* the request row, INSERT the key row, COMMIT; on an IntegrityError roll   *)
(* back and read the key's row again.  The tables of PostgresStore hold     *)
(* what is committed.  A statement that inserts a value of a unique column  *)
(* another transaction has inserted but not committed waits for that        *)
(* transaction to end; PostgreSQL does this, it is modelled from how claim  *)
(* relies on it.                                                            *)
(*                                                                          *)
(* Execute takes the whole method for one atomic step: AtomicClaim below is *)
(* that step, and the transactions are shown to implement it.  The clock    *)
(* stands still: a claim lasts no time.                                     *)
(***************************************************************************)
EXTENDS PostgresStore

CONSTANTS
    Claimant,      \* calls of claim
    BodyFor,       \* the body each call claims for
    IdFor,         \* and the request id it brings
    MaxFailures    \* bound: transactions the database aborts

ASSUME ClaimAssumption ==
    /\ BodyFor \in [Claimant -> Body]
    /\ IdFor \in [Claimant -> RequestId]
    /\ None \notin Claimant
    /\ MaxFailures \in Nat

VARIABLES
    stage,         \* the next statement of each call
    newRequest,    \* whose uncommitted insert holds a request_id, or None
    newKey,        \* whose uncommitted insert holds a key, or None
    refusedBy,     \* the constraint an IntegrityError named
    outcome,       \* what the method returned or raised
    failures

claimVars == <<stage, newRequest, newKey, refusedBy, outcome, failures>>
vars == <<storeVars, claimVars>>

\* A claim returns None, returns the existing record, or raises.
Outcome == {"claimed", "existing", "RequestIdConflict", "IntegrityError", "failed"}
Stage == {"select", "insertRequest", "insertKey", "commit", "reread", "end"}
Constraint == {"uq_ai_requests_request_id", "uq_ai_idempotency_product_key"}

ASSUME NoneIsNoOutcome == None \notin Outcome \cup Constraint

KeyOfCall(c) == KeyOf[BodyFor[c]]

TypeOK ==
    /\ StoreTypeOK
    /\ stage \in [Claimant -> Stage]
    /\ newRequest \in [RequestId -> Claimant \cup {None}]
    /\ newKey \in [Key -> Claimant \cup {None}]
    /\ refusedBy \in [Claimant -> Constraint \cup {None}]
    /\ outcome \in [Claimant -> Outcome \cup {None}]
    /\ failures \in 0 .. MaxFailures

Init ==
    /\ StoreInit
    /\ stage = [c \in Claimant |-> "select"]
    /\ newRequest = [i \in RequestId |-> None]
    /\ newKey = [k \in Key |-> None]
    /\ refusedBy = [c \in Claimant |-> None]
    /\ outcome = [c \in Claimant |-> None]
    /\ failures = 0

Goto(c, from, to) ==
    /\ stage[c] = from
    /\ stage' = [stage EXCEPT ![c] = to]

End(c, from, result) ==
    /\ Goto(c, from, "end")
    /\ outcome' = [outcome EXCEPT ![c] = result]

\* Fault: only the statement that failed is undone.
ReleaseKeyOnly(c) ==
    /\ newKey' = [k \in Key |-> IF newKey[k] = c THEN None ELSE newKey[k]]
    /\ UNCHANGED newRequest

\* The transaction ends: what it inserted is committed or gone, and who waited
\* for it goes on.
Release(c) ==
    /\ newRequest' = [i \in RequestId |-> IF newRequest[i] = c THEN None ELSE newRequest[i]]
    /\ newKey' = [k \in Key |-> IF newKey[k] = c THEN None ELSE newKey[k]]

\* FOR UPDATE locks a row that exists; a row that does not cannot be locked.
Select(c) ==
    /\ IF Claimed(KeyOfCall(c))
         THEN End(c, "select", "existing")
         ELSE Goto(c, "select", "insertRequest") /\ UNCHANGED outcome
    /\ UNCHANGED <<storeVars, newRequest, newKey, refusedBy, failures>>

Refuse(c, from, constraint) ==
    /\ Goto(c, from, "reread")
    /\ refusedBy' = [refusedBy EXCEPT ![c] = constraint]
    /\ Release(c)

\* session.flush()
InsertRequest(c) ==
    LET i == IdFor[c] IN
    /\ newRequest[i] = None
    /\ \/ /\ ~RequestIdTaken(i)
          /\ Goto(c, "insertRequest", "insertKey")
          /\ newRequest' = [newRequest EXCEPT ![i] = c]
          /\ UNCHANGED <<newKey, refusedBy>>
       \/ /\ RequestIdTaken(i)
          /\ Refuse(c, "insertRequest", "uq_ai_requests_request_id")
    /\ UNCHANGED <<storeVars, outcome, failures>>

\* Fault: the key's unique constraint is missing.
InsertKeyUnconstrained(c) ==
    /\ Goto(c, "insertKey", "commit")
    /\ newKey' = [newKey EXCEPT ![KeyOfCall(c)] = c]
    /\ UNCHANGED <<storeVars, newRequest, refusedBy, outcome, failures>>

InsertKey(c) ==
    LET k == KeyOfCall(c) IN
    /\ newKey[k] = None
    /\ \/ /\ ~Claimed(k)
          /\ Goto(c, "insertKey", "commit")
          /\ newKey' = [newKey EXCEPT ![k] = c]
          /\ UNCHANGED <<newRequest, refusedBy>>
       \/ /\ Claimed(k)
          /\ Refuse(c, "insertKey", "uq_ai_idempotency_product_key")
    /\ UNCHANGED <<storeVars, outcome, failures>>

Commit(c) ==
    /\ End(c, "commit", "claimed")
    /\ InsertClaim(BodyFor[c], IdFor[c])
    /\ Release(c)
    /\ UNCHANGED <<refusedBy, failures>>

\* Fault: the error is taken for a collision without reading the row again.
RereadNothing(c) ==
    /\ End(c, "reread", IF refusedBy[c] = "uq_ai_requests_request_id"
                          THEN "RequestIdConflict" ELSE "existing")
    /\ UNCHANGED <<storeVars, newRequest, newKey, refusedBy, failures>>

\* except IntegrityError
Reread(c) ==
    /\ End(c, "reread",
           CASE Claimed(KeyOfCall(c)) -> "existing"
             [] ~Claimed(KeyOfCall(c)) /\ refusedBy[c] = "uq_ai_requests_request_id" ->
                  "RequestIdConflict"
             [] OTHER -> "IntegrityError")
    /\ UNCHANGED <<storeVars, newRequest, newKey, refusedBy, failures>>

\* The connection or the server goes away before the commit.
Fail(c) ==
    /\ failures < MaxFailures
    /\ failures' = failures + 1
    /\ \E from \in Stage \ {"end"} : End(c, from, "failed")
    /\ Release(c)
    /\ UNCHANGED <<storeVars, refusedBy>>

Step(c) ==
    Select(c) \/ InsertRequest(c) \/ InsertKey(c) \/ Commit(c) \/ Reread(c)

Terminating == (\A c \in Claimant : stage[c] = "end") /\ UNCHANGED vars

Next ==
    \/ \E c \in Claimant : Step(c) \/ Fail(c)
    \/ Terminating

\* A transaction that can go on does; one that waits for another has no step.
Spec == Init /\ [][Next]_vars /\ \A c \in Claimant : WF_vars(Step(c))

-----------------------------------------------------------------------------
(* The method as one step, in the terms Execute uses. *)
AtomicClaim(c) ==
    LET k == KeyOf[BodyFor[c]] IN
    /\ outcome[c] = None
    /\ \/ /\ Claimed(k)
          /\ outcome' = [outcome EXCEPT ![c] = "existing"]
          /\ UNCHANGED storeVars
       \/ /\ ~Claimed(k) /\ RequestIdTaken(IdFor[c])
          /\ outcome' = [outcome EXCEPT ![c] = "RequestIdConflict"]
          /\ UNCHANGED storeVars
       \/ /\ ~Claimed(k) /\ ~RequestIdTaken(IdFor[c])
          /\ outcome' = [outcome EXCEPT ![c] = "claimed"]
          /\ InsertClaim(BodyFor[c], IdFor[c])
       \/ /\ outcome' = [outcome EXCEPT ![c] = "failed"]
          /\ UNCHANGED storeVars

\* A transaction holds its request id from that insert to its end and its key
\* from the next one, and while it does neither is committed: no two calls stand
\* before a commit that must fail, and none that ended keeps others waiting.
Held(c) ==
    /\ \A i \in RequestId : newRequest[i] = c <=>
          stage[c] \in {"insertKey", "commit"} /\ IdFor[c] = i
    /\ \A k \in Key : newKey[k] = c <=> stage[c] = "commit" /\ KeyOfCall(c) = k
    /\ stage[c] \in {"insertKey", "commit"} => ~RequestIdTaken(IdFor[c])
    /\ stage[c] = "commit" => ~Claimed(KeyOfCall(c))
    /\ stage[c] = "reread" =>
          \/ refusedBy[c] = "uq_ai_requests_request_id" /\ RequestIdTaken(IdFor[c])
          \/ refusedBy[c] = "uq_ai_idempotency_product_key" /\ Claimed(KeyOfCall(c))
    /\ stage[c] = "end" <=> outcome[c] # None

InsertsHeld == \A c \in Claimant : Held(c)

\* What every statement preserves.
Inductive == TypeOK /\ InsertsHeld

\* Every change of the committed tables and every return of the method is that
\* of an atomic claim: two callers never both claim a key or a request id, an
\* unhandled IntegrityError never comes out, and a refusal tells the truth.
ClaimIsAtomic == [][\E c \in Claimant : AtomicClaim(c)]_<<storeVars, outcome>>

\* The transactions never wait for each other in a circle: every claim returns.
EveryClaimReturns == \A c \in Claimant : <>(outcome[c] # None)
=============================================================================
