------------------------- MODULE ClaimTransactionProofs -------------------------
(***************************************************************************)
(* claim's transactions implement one atomic step, for any number of calls, *)
(* keys, request ids and lost connections: the reason Execute may take the  *)
(* whole method for one step.                                               *)
(***************************************************************************)
EXTENDS ClaimTransaction, TLAPS

LEMMA InitInductive == Init => Inductive
  BY StoreAssumption, ClaimAssumption
  DEF Init, StoreInit, Inductive, TypeOK, StoreTypeOK, InsertsHeld, Held, Stage, Time

LEMMA CallTypes ==
  ASSUME NEW c \in Claimant
  PROVE  KeyOfCall(c) \in Key /\ IdFor[c] \in RequestId /\ BodyFor[c] \in Body
         /\ c # None
  BY StoreAssumption, ClaimAssumption DEF KeyOfCall

\* What a call holds is left alone by a step of another call that commits nothing.
LEMMA HeldKept ==
  ASSUME NEW d \in Claimant, Held(d),
         stage'[d] = stage[d], refusedBy'[d] = refusedBy[d],
         outcome'[d] = outcome[d],
         \A i \in RequestId : newRequest'[i] = d <=> newRequest[i] = d,
         \A k \in Key : newKey'[k] = d <=> newKey[k] = d,
         UNCHANGED <<keyRow, requestRow>>
  PROVE  Held(d)'
  BY DEF Held, Claimed, RequestIdTaken, KeyOfCall

LEMMA ReleaseTypes ==
  ASSUME TypeOK, NEW c \in Claimant, Release(c)
  PROVE  /\ newRequest' \in [RequestId -> Claimant \cup {None}]
         /\ newKey' \in [Key -> Claimant \cup {None}]
         /\ \A i \in RequestId : newRequest'[i] # c
         /\ \A k \in Key : newKey'[k] # c
         /\ \A d \in Claimant \ {c} :
               /\ \A i \in RequestId : newRequest'[i] = d <=> newRequest[i] = d
               /\ \A k \in Key : newKey'[k] = d <=> newKey[k] = d
  BY ClaimAssumption DEF TypeOK, Release

LEMMA SelectInductive ==
  ASSUME Inductive, NEW c \in Claimant, Select(c)
  PROVE  Inductive'
<1> DEFINE to == IF Claimed(KeyOfCall(c)) THEN "end" ELSE "insertRequest"
<1>1. /\ stage[c] = "select"
      /\ stage' = [stage EXCEPT ![c] = to]
      /\ outcome' = IF Claimed(KeyOfCall(c))
                      THEN [outcome EXCEPT ![c] = "existing"] ELSE outcome
      /\ UNCHANGED <<storeVars, newRequest, newKey, refusedBy, failures>>
  BY DEF Select, End, Goto
<1>2. TypeOK'
  BY <1>1 DEF Inductive, TypeOK, StoreTypeOK, Stage, Outcome, storeVars, tables
<1>3. Held(c)'
  BY <1>1, CallTypes, NoneIsNoOutcome
  DEF Inductive, TypeOK, InsertsHeld, Held, Claimed, RequestIdTaken, KeyOfCall,
      Outcome, storeVars, tables
<1>4. ASSUME NEW d \in Claimant, d # c PROVE Held(d)'
  BY <1>1, <1>4, HeldKept DEF Inductive, TypeOK, InsertsHeld, storeVars, tables
<1> QED BY <1>2, <1>3, <1>4 DEF Inductive, InsertsHeld

LEMMA RefuseInductive ==
  ASSUME Inductive, NEW c \in Claimant,
         NEW from \in {"insertRequest", "insertKey"}, NEW constraint \in Constraint,
         Refuse(c, from, constraint),
         constraint = "uq_ai_requests_request_id" => RequestIdTaken(IdFor[c]),
         constraint = "uq_ai_idempotency_product_key" => Claimed(KeyOfCall(c)),
         UNCHANGED <<storeVars, outcome, failures>>
  PROVE  Inductive'
<1>1. /\ stage[c] = from
      /\ stage' = [stage EXCEPT ![c] = "reread"]
      /\ refusedBy' = [refusedBy EXCEPT ![c] = constraint]
      /\ UNCHANGED <<clock, keyRow, requestRow, usage, spent>>
  BY DEF Refuse, Goto, storeVars, tables
<1>2. Release(c) BY DEF Refuse
<1>3. TypeOK'
  BY <1>1, <1>2, ReleaseTypes DEF Inductive, TypeOK, StoreTypeOK, Stage
<1>4. Held(c)'
  BY <1>1, <1>2, CallTypes, ReleaseTypes
  DEF Inductive, TypeOK, InsertsHeld, Held, Claimed, RequestIdTaken, KeyOfCall, Constraint
<1>5. ASSUME NEW d \in Claimant, d # c PROVE Held(d)'
  BY <1>1, <1>2, <1>5, HeldKept, ReleaseTypes DEF Inductive, TypeOK, InsertsHeld
<1> QED BY <1>3, <1>4, <1>5 DEF Inductive, InsertsHeld

LEMMA InsertRequestInductive ==
  ASSUME Inductive, NEW c \in Claimant, InsertRequest(c)
  PROVE  Inductive'
<1> DEFINE i == IdFor[c]
<1>1. CASE /\ ~RequestIdTaken(i)
           /\ Goto(c, "insertRequest", "insertKey")
           /\ newRequest' = [newRequest EXCEPT ![i] = c]
           /\ UNCHANGED <<newKey, refusedBy>>
  <2>1. /\ stage[c] = "insertRequest" /\ newRequest[i] = None /\ i \in RequestId
        /\ stage' = [stage EXCEPT ![c] = "insertKey"]
        /\ UNCHANGED <<clock, keyRow, requestRow, usage, spent, outcome, failures>>
    BY <1>1, CallTypes DEF InsertRequest, Goto, storeVars, tables
  <2>2. TypeOK' BY <1>1, <2>1 DEF Inductive, TypeOK, StoreTypeOK, Stage
  <2>3. Held(c)'
    BY <1>1, <2>1, CallTypes
    DEF Inductive, TypeOK, InsertsHeld, Held, Claimed, RequestIdTaken, KeyOfCall
  <2>4. ASSUME NEW d \in Claimant, d # c PROVE Held(d)'
    <3>1. \A j \in RequestId : newRequest'[j] = d <=> newRequest[j] = d
      BY <1>1, <2>1, <2>4, CallTypes DEF Inductive, TypeOK
    <3> QED BY <1>1, <2>1, <2>4, <3>1, HeldKept DEF Inductive, TypeOK, InsertsHeld
  <2> QED BY <2>2, <2>3, <2>4 DEF Inductive, InsertsHeld
<1>2. CASE /\ RequestIdTaken(i)
           /\ Refuse(c, "insertRequest", "uq_ai_requests_request_id")
  BY <1>2, RefuseInductive DEF InsertRequest, Constraint
<1> QED BY <1>1, <1>2 DEF InsertRequest

LEMMA InsertKeyInductive ==
  ASSUME Inductive, NEW c \in Claimant, InsertKey(c)
  PROVE  Inductive'
<1> DEFINE k == KeyOfCall(c)
<1>1. CASE /\ ~Claimed(k)
           /\ Goto(c, "insertKey", "commit")
           /\ newKey' = [newKey EXCEPT ![k] = c]
           /\ UNCHANGED <<newRequest, refusedBy>>
  <2>1. /\ stage[c] = "insertKey" /\ newKey[k] = None /\ k \in Key
        /\ stage' = [stage EXCEPT ![c] = "commit"]
        /\ UNCHANGED <<clock, keyRow, requestRow, usage, spent, outcome, failures>>
    BY <1>1, CallTypes DEF InsertKey, Goto, storeVars, tables
  <2>2. TypeOK' BY <1>1, <2>1 DEF Inductive, TypeOK, StoreTypeOK, Stage
  <2>3. Held(c)'
    BY <1>1, <2>1, CallTypes
    DEF Inductive, TypeOK, InsertsHeld, Held, Claimed, RequestIdTaken, KeyOfCall
  <2>4. ASSUME NEW d \in Claimant, d # c PROVE Held(d)'
    <3>1. \A l \in Key : newKey'[l] = d <=> newKey[l] = d
      BY <1>1, <2>1, <2>4, CallTypes DEF Inductive, TypeOK
    <3> QED BY <1>1, <2>1, <2>4, <3>1, HeldKept DEF Inductive, TypeOK, InsertsHeld
  <2> QED BY <2>2, <2>3, <2>4 DEF Inductive, InsertsHeld
<1>2. CASE /\ Claimed(k)
           /\ Refuse(c, "insertKey", "uq_ai_idempotency_product_key")
  BY <1>2, RefuseInductive DEF InsertKey, Constraint
<1> QED BY <1>1, <1>2 DEF InsertKey

\* The step that inserts what a call holds: nobody else held it.
LEMMA CommitInductive ==
  ASSUME Inductive, NEW c \in Claimant, Commit(c)
  PROVE  Inductive'
<1> PICK now \in Now :
       requestRow' = [requestRow EXCEPT ![IdFor[c]] =
                         [task |-> TaskOf[BodyFor[c]], digest |-> BodyFor[c],
                          created |-> now, status |-> "pending", output |-> None]]
  BY DEF Commit, InsertClaim
<1> DEFINE k == KeyOfCall(c)
           i == IdFor[c]
           kr == [digest |-> BodyFor[c], request_id |-> i, response |-> None]
           rr == [task |-> TaskOf[BodyFor[c]], digest |-> BodyFor[c],
                  created |-> now, status |-> "pending", output |-> None]
<1>1. k \in Key /\ i \in RequestId /\ BodyFor[c] \in Body
  BY CallTypes
<1>2. kr \in KeyRow /\ rr \in RequestRow
  BY <1>1, StoreAssumption DEF KeyRow, RequestRow, Now
<1>3. /\ keyRow' = [keyRow EXCEPT ![k] = kr]
      /\ requestRow' = [requestRow EXCEPT ![i] = rr]
      /\ UNCHANGED <<clock, usage, spent, refusedBy, failures>>
  BY DEF Commit, InsertClaim, KeyOfCall
<1>4. /\ stage[c] = "commit"
      /\ stage' = [stage EXCEPT ![c] = "end"]
      /\ outcome' = [outcome EXCEPT ![c] = "claimed"]
      /\ Release(c)
  BY DEF Commit, End, Goto
<1>5. kr # None /\ rr # None BY <1>2, NoneAssumption
<1> HIDE DEF k, i, kr, rr
<1>6. TypeOK'
  <2>1. StoreTypeOK'
    BY <1>1, <1>2, <1>3 DEF Inductive, TypeOK, StoreTypeOK
  <2>2. /\ newRequest' \in [RequestId -> Claimant \cup {None}]
        /\ newKey' \in [Key -> Claimant \cup {None}]
    BY <1>4, ReleaseTypes DEF Inductive
  <2> QED BY <2>1, <2>2, <1>3, <1>4 DEF Inductive, TypeOK, Stage, Outcome
<1>7. Held(c)'
  BY <1>4, ReleaseTypes, NoneIsNoOutcome DEF Inductive, TypeOK, Held, Outcome
<1>8. newRequest[i] = c /\ newKey[k] = c
  BY <1>1, <1>4 DEF Inductive, InsertsHeld, Held, i, k
<1>9. ASSUME NEW d \in Claimant, d # c PROVE Held(d)'
  <2>1. /\ stage'[d] = stage[d] /\ outcome'[d] = outcome[d]
        /\ refusedBy'[d] = refusedBy[d]
        /\ \A j \in RequestId : newRequest'[j] = d <=> newRequest[j] = d
        /\ \A l \in Key : newKey'[l] = d <=> newKey[l] = d
    BY <1>3, <1>4, <1>9, ReleaseTypes DEF Inductive, TypeOK
  <2>2. Held(d) BY DEF Inductive, InsertsHeld
  <2>3. /\ stage[d] \in {"insertKey", "commit"} => IdFor[d] # i
        /\ stage[d] = "commit" => KeyOfCall(d) # k
    BY <1>1, <1>8, <1>9, <2>2 DEF Held
  <2>4. \A j \in RequestId : RequestIdTaken(j)' <=> RequestIdTaken(j) \/ j = i
    BY <1>1, <1>3, <1>5 DEF RequestIdTaken, Inductive, TypeOK, StoreTypeOK
  <2>5. \A l \in Key : Claimed(l)' <=> Claimed(l) \/ l = k
    BY <1>1, <1>3, <1>5 DEF Claimed, Inductive, TypeOK, StoreTypeOK
  <2>6. IdFor[d] \in RequestId /\ KeyOfCall(d) \in Key BY CallTypes
  <2>7. /\ RequestIdTaken(IdFor[d])' <=> RequestIdTaken(IdFor[d]) \/ IdFor[d] = i
        /\ Claimed(KeyOfCall(d))' <=> Claimed(KeyOfCall(d)) \/ KeyOfCall(d) = k
    BY <2>4, <2>5, <2>6 DEF RequestIdTaken, Claimed, KeyOfCall
  <2>8. KeyOfCall(d)' = KeyOfCall(d) BY DEF KeyOfCall
  <2> QED BY <2>1, <2>2, <2>3, <2>7, <2>8 DEF Held
<1> QED BY <1>6, <1>7, <1>9 DEF Inductive, InsertsHeld

LEMMA RereadInductive ==
  ASSUME Inductive, NEW c \in Claimant, Reread(c)
  PROVE  Inductive'
<1>1. PICK told \in Outcome :
        /\ stage[c] = "reread"
        /\ stage' = [stage EXCEPT ![c] = "end"]
        /\ outcome' = [outcome EXCEPT ![c] = told]
        /\ UNCHANGED <<clock, keyRow, requestRow, usage, spent, newRequest, newKey,
                       refusedBy, failures>>
  <2>1. CASE Claimed(KeyOfCall(c))
    BY <2>1 DEF Reread, End, Goto, Outcome, storeVars, tables
  <2>2. CASE ~Claimed(KeyOfCall(c)) /\ refusedBy[c] = "uq_ai_requests_request_id"
    BY <2>2 DEF Reread, End, Goto, Outcome, storeVars, tables
  <2>3. CASE ~Claimed(KeyOfCall(c)) /\ refusedBy[c] # "uq_ai_requests_request_id"
    BY <2>3 DEF Reread, End, Goto, Outcome, storeVars, tables
  <2> QED BY <2>1, <2>2, <2>3
<1>2. TypeOK' BY <1>1 DEF Inductive, TypeOK, StoreTypeOK, Stage
<1>3. Held(c)'
  BY <1>1, NoneIsNoOutcome
  DEF Inductive, TypeOK, InsertsHeld, Held, Claimed, RequestIdTaken, KeyOfCall
<1>4. ASSUME NEW d \in Claimant, d # c PROVE Held(d)'
  BY <1>1, <1>4, HeldKept DEF Inductive, TypeOK, InsertsHeld
<1> QED BY <1>2, <1>3, <1>4 DEF Inductive, InsertsHeld

LEMMA FailInductive ==
  ASSUME Inductive, NEW c \in Claimant, Fail(c)
  PROVE  Inductive'
<1>1. /\ stage[c] # "end"
      /\ stage' = [stage EXCEPT ![c] = "end"]
      /\ outcome' = [outcome EXCEPT ![c] = "failed"]
      /\ failures' = failures + 1 /\ failures < MaxFailures
      /\ Release(c)
      /\ UNCHANGED <<clock, keyRow, requestRow, usage, spent, refusedBy>>
  BY DEF Fail, End, Goto, Stage, storeVars, tables
<1>2. failures' \in 0 .. MaxFailures
  BY <1>1, ClaimAssumption DEF Inductive, TypeOK
<1>3. TypeOK'
  BY <1>1, <1>2, ReleaseTypes DEF Inductive, TypeOK, StoreTypeOK, Stage, Outcome
<1>4. Held(c)'
  BY <1>1, ReleaseTypes, NoneIsNoOutcome DEF Inductive, TypeOK, Held, Outcome
<1>5. ASSUME NEW d \in Claimant, d # c PROVE Held(d)'
  BY <1>1, <1>5, HeldKept, ReleaseTypes DEF Inductive, TypeOK, InsertsHeld
<1> QED BY <1>3, <1>4, <1>5 DEF Inductive, InsertsHeld

LEMMA StutterInductive ==
  ASSUME Inductive, UNCHANGED vars
  PROVE  Inductive'
  BY DEF Inductive, TypeOK, StoreTypeOK, InsertsHeld, Held, Claimed, RequestIdTaken,
         KeyOfCall, vars, claimVars, storeVars, tables

LEMMA NextInductive == Inductive /\ [Next]_vars => Inductive'
<1> SUFFICES ASSUME Inductive, [Next]_vars PROVE Inductive'
  OBVIOUS
<1>1. CASE \E c \in Claimant : Select(c) BY <1>1, SelectInductive
<1>2. CASE \E c \in Claimant : InsertRequest(c) BY <1>2, InsertRequestInductive
<1>3. CASE \E c \in Claimant : InsertKey(c) BY <1>3, InsertKeyInductive
<1>4. CASE \E c \in Claimant : Commit(c) BY <1>4, CommitInductive
<1>5. CASE \E c \in Claimant : Reread(c) BY <1>5, RereadInductive
<1>6. CASE \E c \in Claimant : Fail(c) BY <1>6, FailInductive
<1>7. CASE UNCHANGED vars BY <1>7, StutterInductive
<1> QED BY <1>1, <1>2, <1>3, <1>4, <1>5, <1>6, <1>7 DEF Next, Step, Terminating

\* The uncommitted inserts are what the unique constraints make of them: held by
\* one call each, of values no committed row has.  (claim)
THEOREM InductiveHolds == Spec => []Inductive
  BY InitInductive, NextInductive, PTL DEF Spec

-----------------------------------------------------------------------------
(* Every step is that of an atomic claim, or invisible *)

\* A refused call is told what the committed tables say.
LEMMA RereadAtomic ==
  ASSUME Inductive, NEW c \in Claimant, Reread(c)
  PROVE  AtomicClaim(c)
<1> DEFINE k == KeyOfCall(c)
<1>1. /\ stage[c] = "reread" /\ outcome[c] = None /\ UNCHANGED storeVars
      /\ \/ refusedBy[c] = "uq_ai_requests_request_id" /\ RequestIdTaken(IdFor[c])
         \/ refusedBy[c] = "uq_ai_idempotency_product_key" /\ Claimed(k)
  BY DEF Reread, End, Goto, Inductive, InsertsHeld, Held
<1>2. CASE Claimed(k)
  BY <1>1, <1>2 DEF Reread, End, AtomicClaim, KeyOfCall
<1>3. CASE ~Claimed(k)
  BY <1>1, <1>3 DEF Reread, End, AtomicClaim, KeyOfCall
<1> QED BY <1>2, <1>3

LEMMA StepAtomic ==
  ASSUME Inductive, [Next]_vars
  PROVE  (\E c \in Claimant : AtomicClaim(c)) \/ UNCHANGED <<storeVars, outcome>>
<1>1. ASSUME NEW c \in Claimant, Select(c)
      PROVE  AtomicClaim(c) \/ UNCHANGED <<storeVars, outcome>>
  <2>1. outcome[c] = None
    BY <1>1 DEF Select, End, Goto, Inductive, InsertsHeld, Held
  <2> QED BY <1>1, <2>1 DEF Select, End, AtomicClaim, KeyOfCall
<1>2. ASSUME NEW c \in Claimant, InsertRequest(c) \/ InsertKey(c)
      PROVE  UNCHANGED <<storeVars, outcome>>
  BY <1>2 DEF InsertRequest, InsertKey
<1>3. ASSUME NEW c \in Claimant, Commit(c) PROVE AtomicClaim(c)
  <2>1. /\ outcome[c] = None /\ ~RequestIdTaken(IdFor[c]) /\ ~Claimed(KeyOfCall(c))
    BY <1>3 DEF Commit, End, Goto, Inductive, InsertsHeld, Held
  <2> QED BY <1>3, <2>1 DEF Commit, End, AtomicClaim, KeyOfCall
<1>4. ASSUME NEW c \in Claimant, Fail(c) PROVE AtomicClaim(c)
  <2>1. outcome[c] = None
    BY <1>4 DEF Fail, End, Goto, Stage, Inductive, InsertsHeld, Held
  <2> QED BY <1>4, <2>1 DEF Fail, End, AtomicClaim
<1>5. CASE UNCHANGED vars BY <1>5 DEF vars, claimVars
<1> QED BY <1>1, <1>2, <1>3, <1>4, <1>5, RereadAtomic DEF Next, Step, Terminating

\* claim is one atomic step: Execute may take it for one.  (PostgresStore.claim)
THEOREM ClaimIsAtomicHolds == Spec => ClaimIsAtomic
  BY InductiveHolds, StepAtomic, PTL DEF Spec, ClaimIsAtomic
=============================================================================
