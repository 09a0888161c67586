---------------------------- MODULE MeteringProofs ----------------------------
(***************************************************************************)
(* What the router pays for and whom it lets past, proved on top of the     *)
(* invariant of ExecuteProofs: MeteredOnce, ResponseAccounted,              *)
(* LedgerMatchesUsage, ExhaustedBudgetStopsCalls, RateWindowBound and       *)
(* InProgressIsTrue.                                                        *)
(***************************************************************************)
EXTENDS ExecuteProofs, FoldProofs

-----------------------------------------------------------------------------
(* Usage rows and responses *)

\* A request row is that of the key its digest is of.
RequestsNamed ==
    \A i \in RequestId : RequestIdTaken(i) =>
        /\ Claimed(KeyOf[requestRow[i].digest])
        /\ keyRow[KeyOf[requestRow[i].digest]].request_id = i
        /\ requestRow[i].task = TaskOf[requestRow[i].digest]

UsageNamed ==
    \A u \in usage : /\ RequestIdTaken(u.request_id)
                     /\ requestRow[u.request_id].task = u.task

AttemptsApart ==
    \A u, v \in usage : (u.request_id = v.request_id /\ u.attempts = v.attempts) => u = v

\* An owner has metered nothing before its first try, and only earlier attempts
\* while it tries.
AttemptsSoFar ==
    \A r \in Request, u \in usage : (Owns(r) /\ u.request_id = IdOf(r)) =>
        /\ pc[r] \notin {"rate", "budget"}
        /\ pc[r] \in {"call", "usage"} => u.attempts < attempt[r]

ResponseFits == \A r \in Request : pc[r] = "store" => Accounted(response[r], TaskFor(r))

Metering ==
    /\ RequestsNamed
    /\ UsageNamed
    /\ AttemptsApart
    /\ AttemptsSoFar
    /\ ResponseFits
    /\ ResponseAccounted

LEMMA MeteringImplies ==
  ASSUME Inductive, Metering
  PROVE  MeteredOnce
<1>1. ASSUME NEW u \in usage
      PROVE  /\ u.request_id \in RequestId
             /\ RequestIdTaken(u.request_id)
             /\ requestRow[u.request_id].task = u.task
             /\ keyRow[KeyOfUsage(u)].request_id = u.request_id
  BY DEF Inductive, TypeOK, StoreTypeOK, UsageRow, Metering, RequestsNamed, UsageNamed,
         KeyOfUsage
<1> QED BY <1>1 DEF MeteredOnce, Metering, AttemptsApart

LEMMA InitMetering == Init => Metering
  BY DEF Init, StoreInit, Metering, RequestsNamed, UsageNamed, AttemptsApart, AttemptsSoFar,
         ResponseFits, ResponseAccounted, RequestIdTaken, Claimed

\* A response stays accounted for while nothing is metered under its request id.
LEMMA AccountedKept ==
  ASSUME NEW p, NEW t, Accounted(p, t),
         \A u \in usage' : u.request_id = p.request_id => u \in usage,
         usage \subseteq usage'
  PROVE  Accounted(p, t)'
<1>1. {u \in usage' : u.request_id = p.request_id} = {u \in usage : u.request_id = p.request_id}
  OBVIOUS
<1> QED BY <1>1 DEF Accounted

\* A step that writes no table keeps the invariant if its handler's tries go up
\* and the response it builds is accounted for.
LEMMA QuietKeeps ==
  ASSUME Inductive, Metering, TypeOK', UNCHANGED <<keyRow, requestRow, usage>>,
         \A s \in Request : Owns(s)' =>
            /\ Owns(s) /\ call'[s] = call[s]
            /\ pc'[s] \in {"rate", "budget"} => pc[s] \in {"rate", "budget"}
            /\ pc'[s] \in {"call", "usage"} =>
                  \/ pc[s] \in {"rate", "budget"}
                  \/ pc[s] \in {"call", "usage"} /\ attempt[s] <= attempt'[s]
            /\ pc'[s] = "store" =>
                  \/ pc[s] = "store" /\ response'[s] = response[s]
                  \/ Accounted(response'[s], TaskFor(s))
  PROVE  Metering'
<1>1. RequestsNamed' /\ UsageNamed' /\ AttemptsApart' /\ ResponseAccounted'
  BY DEF Metering, RequestsNamed, UsageNamed, AttemptsApart, ResponseAccounted, Accounted,
         RequestIdTaken, Claimed
<1>2. AttemptsSoFar'
  <2>1. ASSUME NEW s \in Request, NEW u \in usage, Owns(s)', u.request_id = IdOf(s)'
        PROVE  /\ pc'[s] \notin {"rate", "budget"}
               /\ pc'[s] \in {"call", "usage"} => u.attempts < attempt'[s]
    <3>1. /\ u.attempts \in Nat /\ attempt[s] \in Nat /\ attempt'[s] \in Nat
          /\ IdOf(s)' = IdOf(s)
      BY <2>1 DEF Inductive, TypeOK, StoreTypeOK, UsageRow, IdOf
    <3>2. /\ pc[s] \notin {"rate", "budget"}
          /\ pc[s] \in {"call", "usage"} => u.attempts < attempt[s]
      BY <2>1, <3>1 DEF Metering, AttemptsSoFar
    <3> QED BY <2>1, <3>1, <3>2
  <2> QED BY <2>1 DEF AttemptsSoFar
<1>3. ResponseFits'
  <2>1. ASSUME NEW s \in Request, pc'[s] = "store"
        PROVE  Accounted(response'[s], TaskFor(s)) /\ TaskFor(s)' = TaskFor(s)
    <3>1. Owns(s)' BY <2>1 DEF Owns, Owning
    <3> QED BY <2>1, <3>1 DEF Metering, ResponseFits, TaskFor, BodyOf
  <2> QED BY <2>1 DEF ResponseFits, Accounted
<1> QED BY <1>1, <1>2, <1>3 DEF Metering

\* A handler that returns owns nothing afterwards, and the others stay where
\* they are.
LEMMA FinishMeters ==
  ASSUME Inductive, Metering, TypeOK', NEW r \in Request, NEW from, NEW code, NEW p,
         Finish(r, from, code, p), UNCHANGED storeVars
  PROVE  Metering'
<1>1. /\ pc' = [pc EXCEPT ![r] = "done"] /\ pc \in [Request -> Location]
      /\ attempt' = [attempt EXCEPT ![r] = 0] /\ attempt \in [Request -> Nat]
      /\ response' = [response EXCEPT ![r] = None] /\ DOMAIN response = Request
      /\ UNCHANGED <<call, keyRow, requestRow, usage>>
  BY DEF Finish, Goto, Inductive, TypeOK, storeVars, tables
<1>2. ASSUME NEW s \in Request, Owns(s)'
      PROVE  /\ Owns(s) /\ pc'[s] = pc[s] /\ attempt'[s] = attempt[s]
             /\ response'[s] = response[s]
             /\ attempt[s] \in Nat
  BY <1>1, <1>2 DEF Owns, Owning
<1> QED BY <1>1, <1>2, QuietKeeps

\* A handler moves on without a response of its own.
LEMMA MoveMeters ==
  ASSUME Inductive, Metering, TypeOK', NEW r \in Request, NEW from \in Location, NEW to,
         Goto(r, from, to),
         <<from, to>> \in {<<"idle", "lookup">>, <<"lookup", "claim">>, <<"rate", "budget">>,
                           <<"budget", "call">>, <<"call", "usage">>, <<"call", "call">>},
         to \in {"budget", "call", "usage"} => call' = call,
         \A s \in Request \ {r} : call'[s] = call[s] /\ attempt'[s] = attempt[s],
         attempt[r] <= attempt'[r],
         UNCHANGED <<keyRow, requestRow, usage, response>>
  PROVE  Metering'
<1>1. pc' = [pc EXCEPT ![r] = to] /\ pc[r] = from /\ pc \in [Request -> Location]
      /\ attempt \in [Request -> Nat]
  BY DEF Goto, Inductive, TypeOK
<1>2. ASSUME NEW s \in Request, s # r, Owns(s)'
      PROVE  /\ Owns(s) /\ pc'[s] = pc[s] /\ attempt'[s] = attempt[s]
             /\ call'[s] = call[s] /\ attempt[s] \in Nat
  BY <1>1, <1>2 DEF Owns
<1>3. ASSUME Owns(r)'
      PROVE  /\ Owns(r) /\ call'[r] = call[r]
             /\ pc'[r] = "budget" => pc[r] = "rate"
             /\ pc'[r] \in {"call", "usage"} => pc[r] \in {"budget", "call"}
             /\ pc'[r] \in {"budget", "call", "usage"}
  BY <1>1, <1>3 DEF Owns, Owning
<1> QED BY <1>2, <1>3, QuietKeeps

\* A claim takes a request id under which nothing was metered.
LEMMA ClaimKeyMeters ==
  ASSUME Inductive, Metering, NEW r \in Request, ClaimKey(r)
  PROVE  Metering'
<1> PICK now \in Now :
       requestRow' = [requestRow EXCEPT ![IdOf(r)] =
                         [task |-> TaskFor(r), digest |-> BodyOf(r), created |-> now,
                          status |-> "pending", output |-> None]]
  BY DEF ClaimKey, InsertClaim, TaskFor
<1> DEFINE K == KeyFor(r)
           I == IdOf(r)
           row == [digest |-> BodyOf(r), request_id |-> I, response |-> None]
           req == [task |-> TaskFor(r), digest |-> BodyOf(r), created |-> now,
                   status |-> "pending", output |-> None]
<1>1. /\ K \in Key /\ I \in RequestId /\ BodyOf(r) \in Body
      /\ KeyOf[BodyOf(r)] = K /\ TaskOf[BodyOf(r)] = TaskFor(r)
      /\ keyRow[K] = None /\ requestRow[I] = None
  BY CallTypes
  DEF Inductive, ClaimKey, Goto, KeyIsFree, Claimed, RequestIdTaken, KeyFor, TaskFor
<1>2. /\ pc[r] = "claim" /\ pc' = [pc EXCEPT ![r] = "rate"]
      /\ keyRow' = [keyRow EXCEPT ![K] = row]
      /\ requestRow' = [requestRow EXCEPT ![I] = req]
      /\ UNCHANGED <<usage, call, attempt, response>>
  BY DEF ClaimKey, Goto, InsertClaim, KeyFor, TaskFor
<1>3. /\ pc \in [Request -> Location] /\ TypeOK /\ LocalsOK
      /\ keyRow \in [Key -> KeyRow \cup {None}]
      /\ requestRow \in [RequestId -> RequestRow \cup {None}]
      /\ usage \subseteq UsageRow
  BY DEF Inductive, TypeOK, StoreTypeOK
<1>4. row # None
  <2>1. row \in KeyRow BY <1>1 DEF KeyRow
  <2> QED BY <2>1, NoneAssumption
<1>5. /\ keyRow'[K] = row /\ requestRow'[I] = req
      /\ \A k \in Key \ {K} : keyRow'[k] = keyRow[k]
      /\ \A i \in RequestId \ {I} : requestRow'[i] = requestRow[i]
  BY <1>1, <1>2, <1>3
<1>6. /\ row.request_id = I /\ row.response = None
      /\ req.digest = BodyOf(r) /\ req.task = TaskFor(r)
  OBVIOUS
<1>7. ASSUME NEW u \in usage
      PROVE  /\ u.request_id \in RequestId \ {I}
             /\ requestRow'[u.request_id] = requestRow[u.request_id]
  <2>1. u.request_id \in RequestId BY <1>3 DEF UsageRow
  <2>2. requestRow[u.request_id] # None BY DEF Metering, UsageNamed, RequestIdTaken
  <2> QED BY <2>1, <2>2, <1>1, <1>5
<1> HIDE DEF K, I, row, req
<1>8. RequestsNamed'
  <2>1. ASSUME NEW i \in RequestId, RequestIdTaken(i)'
        PROVE  /\ keyRow'[KeyOf[requestRow'[i].digest]] # None
               /\ keyRow'[KeyOf[requestRow'[i].digest]].request_id = i
               /\ requestRow'[i].task = TaskOf[requestRow'[i].digest]
    <3>1. CASE i = I BY <3>1, <1>1, <1>4, <1>5, <1>6
    <3>2. CASE i # I
      <4> DEFINE k == KeyOf[requestRow[i].digest]
      <4>1. /\ requestRow'[i] = requestRow[i] /\ requestRow[i] \in RequestRow
            /\ RequestIdTaken(i)
        BY <2>1, <3>2, <1>3, <1>5 DEF RequestIdTaken
      <4>2. /\ k \in Key /\ keyRow[k] # None /\ keyRow[k].request_id = i
            /\ requestRow[i].task = TaskOf[requestRow[i].digest]
        BY <4>1, StoreAssumption DEF RequestRow, Metering, RequestsNamed, Claimed
      <4>3. keyRow'[k] = keyRow[k] BY <4>2, <1>1, <1>5
      <4> QED BY <4>1, <4>2, <4>3
    <3> QED BY <3>1, <3>2
  <2> QED BY <2>1 DEF RequestsNamed, Claimed
<1>9. UsageNamed' BY <1>2, <1>7 DEF Metering, UsageNamed, RequestIdTaken
<1>10. AttemptsApart' BY <1>2 DEF Metering, AttemptsApart
<1>11. AttemptsSoFar'
  <2>1. ASSUME NEW s \in Request, NEW u \in usage, Owns(s)', u.request_id = IdOf(s)'
        PROVE  Owns(s) /\ pc'[s] = pc[s] /\ u.request_id = IdOf(s) /\ attempt'[s] = attempt[s]
    <3>1. IdOf(s)' = IdOf(s) BY <1>2 DEF IdOf
    <3>2. s # r BY <2>1, <3>1, <1>7 DEF I
    <3> QED BY <2>1, <3>1, <3>2, <1>2, <1>3 DEF Owns
  <2> QED BY <2>1, <1>2 DEF Metering, AttemptsSoFar
<1>12. ResponseFits'
  <2>1. ASSUME NEW s \in Request, pc'[s] = "store"
        PROVE  Accounted(response[s], TaskFor(s)) /\ TaskFor(s)' = TaskFor(s)
               /\ response'[s] = response[s]
    BY <2>1, <1>2, <1>3 DEF Metering, ResponseFits, TaskFor, BodyOf
  <2> QED BY <2>1, <1>2 DEF ResponseFits, Accounted
<1>13. ResponseAccounted'
  <2>1. ASSUME NEW k \in Key, Claimed(k)', keyRow'[k].response # None
        PROVE  keyRow'[k] = keyRow[k] /\ Accounted(keyRow[k].response, TaskOf[keyRow[k].digest])
    <3>1. k # K BY <2>1, <1>5, <1>6
    <3> QED BY <2>1, <3>1, <1>5 DEF Claimed, Metering, ResponseAccounted
  <2> QED BY <2>1, <1>2 DEF ResponseAccounted, Accounted
<1> QED BY <1>8, <1>9, <1>10, <1>11, <1>12, <1>13 DEF Metering

\* put stores a response that is accounted for, and keeps what the request row
\* is of.
LEMMA StoreMeters ==
  ASSUME Inductive, Metering, NEW r \in Request, Store(r)
  PROVE  Metering'
<1> DEFINE K == KeyFor(r)
           I == IdOf(r)
           row == [digest |-> BodyOf(r), request_id |-> I, response |-> response[r]]
<1>1. /\ K \in Key /\ I \in RequestId /\ Claimed(K)
      /\ RequestIdTaken(I)
      /\ keyRow[K] = [digest |-> BodyOf(r), request_id |-> I, response |-> None]
      /\ keyRow' = [keyRow EXCEPT ![K] = row]
      /\ requestRow' = [requestRow EXCEPT ![I] = Answered(requestRow[I], response[r])]
      /\ pc[r] = "store" /\ pc' = [pc EXCEPT ![r] = "reply"]
      /\ response[r] \in Response
      /\ UNCHANGED <<call, attempt, response>>
  BY StoreEffect
<1>2. /\ pc \in [Request -> Location] /\ TypeOK /\ LocalsOK
      /\ keyRow \in [Key -> KeyRow \cup {None}]
      /\ requestRow \in [RequestId -> RequestRow \cup {None}]
      /\ usage \subseteq UsageRow
      /\ usage' = usage
  BY DEF Inductive, TypeOK, StoreTypeOK, Store, Put
<1>3. /\ keyRow'[K] = row
      /\ \A k \in Key \ {K} : keyRow'[k] = keyRow[k]
      /\ \A i \in RequestId \ {I} : requestRow'[i] = requestRow[i]
      /\ requestRow'[I] = Answered(requestRow[I], response[r])
  BY <1>1, <1>2
<1>4. row # None
  <2>1. BodyOf(r) \in Body BY <1>1, <1>2, CallTypes
  <2>2. row \in KeyRow BY <2>1, <1>1 DEF KeyRow
  <2> QED BY <2>2, NoneAssumption
<1>5. ASSUME NEW i \in RequestId
      PROVE  /\ RequestIdTaken(i)' <=> RequestIdTaken(i)
             /\ RequestIdTaken(i) => /\ requestRow'[i].digest = requestRow[i].digest
                                     /\ requestRow'[i].task = requestRow[i].task
  <2>1. CASE i # I BY <2>1, <1>3 DEF RequestIdTaken
  <2>2. CASE i = I
    <3>1. requestRow[I] \in RequestRow BY <1>1, <1>2 DEF RequestIdTaken
    <3>2. Answered(requestRow[I], response[r]) \in RequestRow
      BY <3>1, <1>1 DEF Answered, RequestRow, Response
    <3>3. /\ Answered(requestRow[I], response[r]).digest = requestRow[I].digest
          /\ Answered(requestRow[I], response[r]).task = requestRow[I].task
      BY <3>1 DEF Answered, RequestRow
    <3> QED BY <2>2, <3>2, <3>3, <1>1, <1>3, NoneAssumption DEF RequestIdTaken
  <2> QED BY <2>1, <2>2
<1>6. ASSUME NEW k \in Key, keyRow[k] # None
      PROVE  /\ keyRow'[k] # None
             /\ keyRow'[k].request_id = keyRow[k].request_id
  BY <1>1, <1>3, <1>4, <1>6
<1>7. TaskFor(r) = TaskOf[row.digest] /\ row.response = response[r] BY DEF TaskFor
<1> HIDE DEF K, I, row
<1>8. RequestsNamed'
  <2>1. ASSUME NEW i \in RequestId, RequestIdTaken(i)'
        PROVE  /\ keyRow'[KeyOf[requestRow'[i].digest]] # None
               /\ keyRow'[KeyOf[requestRow'[i].digest]].request_id = i
               /\ requestRow'[i].task = TaskOf[requestRow'[i].digest]
    <3> DEFINE k == KeyOf[requestRow[i].digest]
    <3>1. /\ RequestIdTaken(i) /\ requestRow[i] \in RequestRow
          /\ requestRow'[i].digest = requestRow[i].digest
          /\ requestRow'[i].task = requestRow[i].task
      BY <2>1, <1>2, <1>5 DEF RequestIdTaken
    <3>2. /\ k \in Key /\ keyRow[k] # None /\ keyRow[k].request_id = i
          /\ requestRow[i].task = TaskOf[requestRow[i].digest]
      BY <3>1, StoreAssumption DEF RequestRow, Metering, RequestsNamed, Claimed
    <3> QED BY <3>1, <3>2, <1>6
  <2> QED BY <2>1 DEF RequestsNamed, Claimed
<1>9. UsageNamed'
  BY <1>2, <1>5 DEF Metering, UsageNamed, UsageRow
<1>10. AttemptsApart' BY <1>2 DEF Metering, AttemptsApart
<1>11. AttemptsSoFar'
  <2>1. ASSUME NEW s \in Request, Owns(s)'
        PROVE  Owns(s) /\ pc'[s] = pc[s] /\ IdOf(s)' = IdOf(s) /\ attempt'[s] = attempt[s]
    BY <2>1, <1>1, <1>2 DEF Owns, Owning, IdOf
  <2> QED BY <2>1, <1>2 DEF Metering, AttemptsSoFar
<1>12. ResponseFits'
  <2>1. ASSUME NEW s \in Request, pc'[s] = "store"
        PROVE  Accounted(response[s], TaskFor(s)) /\ TaskFor(s)' = TaskFor(s)
               /\ response'[s] = response[s]
    BY <2>1, <1>1, <1>2 DEF Metering, ResponseFits, TaskFor, BodyOf
  <2> QED BY <2>1, <1>2 DEF ResponseFits, Accounted
<1>13. ResponseAccounted'
  <2>1. ASSUME NEW k \in Key, Claimed(k)', keyRow'[k].response # None
        PROVE  Accounted(keyRow'[k].response, TaskOf[keyRow'[k].digest])
    <3>1. CASE k = K
      BY <3>1, <1>1, <1>3, <1>7 DEF Metering, ResponseFits
    <3>2. CASE k # K
      BY <2>1, <3>2, <1>3 DEF Claimed, Metering, ResponseAccounted
    <3> QED BY <3>1, <3>2
  <2> QED BY <2>1, <1>2 DEF ResponseAccounted, Accounted
<1> QED BY <1>8, <1>9, <1>10, <1>11, <1>12, <1>13 DEF Metering

\* The loop goes on to its next model, or ends without one that answered.
LEMMA TryOrEndMeters ==
  ASSUME Inductive, Metering, TypeOK', NEW r \in Request, NEW from \in {"budget", "call"},
         NEW n \in Nat, from = "call" => attempt[r] <= n,
         TryOrEnd(r, from, n, "provider_unavailable", None),
         UNCHANGED <<keyRow, requestRow, usage, call>>
  PROVE  Metering'
<1> DEFINE built == Build(r, "provider_unavailable", None, None)
<1>1. /\ pc \in [Request -> Location] /\ pc[r] = from
      /\ attempt \in [Request -> Nat] /\ DOMAIN response = Request
  BY DEF Inductive, TypeOK, TryOrEnd, Goto
<1>2. Accounted(built, TaskFor(r)) BY DEF Build, Accounted
<1> HIDE DEF built
<1>3. CASE /\ Goto(r, from, "call")
           /\ attempt' = [attempt EXCEPT ![r] = n]
           /\ UNCHANGED response
  <2>1. ASSUME NEW s \in Request, s # r
        PROVE  pc'[s] = pc[s] /\ attempt'[s] = attempt[s] /\ attempt[s] \in Nat
    BY <1>1, <1>3, <2>1 DEF Goto
  <2>2. pc'[r] = "call" /\ attempt'[r] = n BY <1>1, <1>3 DEF Goto
  <2>3. Owns(r) BY <1>1 DEF Owns, Owning
  <2> QED BY <1>1, <1>3, <2>1, <2>2, <2>3, QuietKeeps DEF Owns
<1>4. CASE /\ Goto(r, from, "store")
           /\ response' = [response EXCEPT ![r] = built]
           /\ UNCHANGED attempt
  <2>1. ASSUME NEW s \in Request, s # r
        PROVE  /\ pc'[s] = pc[s] /\ response'[s] = response[s]
               /\ attempt'[s] = attempt[s] /\ attempt[s] \in Nat
    BY <1>1, <1>4, <2>1 DEF Goto
  <2>2. pc'[r] = "store" /\ response'[r] = built BY <1>1, <1>4 DEF Goto
  <2>3. Owns(r) BY <1>1 DEF Owns, Owning
  <2> QED BY <1>2, <1>4, <2>1, <2>2, <2>3, QuietKeeps DEF Owns
<1> QED BY <1>3, <1>4 DEF TryOrEnd, built

\* A call whose budget is spent has metered nothing and says so.
LEMMA CheckBudgetMeters ==
  ASSUME Inductive, Metering, TypeOK', NEW r \in Request, CheckBudget(r)
  PROVE  Metering'
<1> DEFINE built == Build(r, "budget_exhausted", None, None)
<1>1. /\ pc \in [Request -> Location] /\ pc[r] = "budget"
      /\ attempt \in [Request -> Nat] /\ DOMAIN response = Request
      /\ UNCHANGED <<keyRow, requestRow, usage, call>>
  BY DEF Inductive, TypeOK, CheckBudget, storeVars, tables
<1>2. CASE TryOrEnd(r, "budget", 1, "provider_unavailable", None)
  BY <1>1, <1>2, TryOrEndMeters
<1>3. CASE /\ Goto(r, "budget", "store")
           /\ response' = [response EXCEPT ![r] = built]
           /\ UNCHANGED attempt
  <2>1. Owns(r) BY <1>1 DEF Owns, Owning
  <2>2. \A u \in usage : u.request_id # IdOf(r)
    BY <1>1, <2>1 DEF Metering, AttemptsSoFar
  <2>3. built.request_id = IdOf(r) /\ built.status = "budget_exhausted"
        /\ built.output = None /\ built.model = None
    BY DEF Build
  <2> HIDE DEF built
  <2>4. Accounted(built, TaskFor(r)) BY <2>2, <2>3 DEF Accounted
  <2>5. ASSUME NEW s \in Request, s # r
        PROVE  /\ pc'[s] = pc[s] /\ response'[s] = response[s]
               /\ attempt'[s] = attempt[s] /\ attempt[s] \in Nat
    BY <1>1, <1>3, <2>5 DEF Goto
  <2>6. pc'[r] = "store" /\ response'[r] = built BY <1>1, <1>3 DEF Goto
  <2> QED BY <1>1, <1>3, <2>1, <2>4, <2>5, <2>6, QuietKeeps DEF Owns
<1> QED BY <1>2, <1>3 DEF CheckBudget

\* An owner's request row is that of its body, its task and its id.
LEMMA OwnerNamed ==
  ASSUME Inductive, Metering, NEW r \in Request, Owns(r)
  PROVE  /\ KeyFor(r) \in Key /\ IdOf(r) \in RequestId
         /\ RequestIdTaken(IdOf(r))
         /\ requestRow[IdOf(r)].digest = BodyOf(r)
         /\ requestRow[IdOf(r)].task = TaskFor(r)
         /\ keyRow[KeyFor(r)].response = None
         /\ \A k \in Key : Claimed(k) /\ keyRow[k].request_id = IdOf(r) => k = KeyFor(r)
<1>1. /\ KeyFor(r) \in Key /\ IdOf(r) \in RequestId /\ BodyOf(r) \in Body
  BY CallTypes DEF Inductive, Owns, Owning
<1>2. keyRow[KeyFor(r)] = [digest |-> BodyOf(r), request_id |-> IdOf(r), response |-> None]
  BY DEF Inductive, SingleOwner
<1>3. [digest |-> BodyOf(r), request_id |-> IdOf(r), response |-> None] \in KeyRow
  BY <1>1 DEF KeyRow
<1>4. Claimed(KeyFor(r)) BY <1>2, <1>3, NoneAssumption DEF Claimed
<1>5. RequestIdTaken(IdOf(r)) /\ requestRow[IdOf(r)].digest = BodyOf(r)
  BY <1>1, <1>2, <1>4 DEF Inductive, TablesAgree
<1>6. requestRow[IdOf(r)].task = TaskFor(r)
  BY <1>1, <1>5 DEF Metering, RequestsNamed, TaskFor
<1>7. ASSUME NEW k \in Key, Claimed(k), keyRow[k].request_id = IdOf(r)
      PROVE  k = KeyFor(r)
  BY <1>5, <1>7 DEF Inductive, TablesAgree, KeyFor
<1> QED BY <1>1, <1>2, <1>5, <1>6, <1>7

\* The reply of the attempt being made is metered, the first of its number, and
\* the response then built, if any, tells of it.
LEMMA RecordUsageMeters ==
  ASSUME Inductive, Metering, TypeOK', NEW r \in Request, RecordUsage(r)
  PROVE  Metering'
<1>0. PICK now \in Now : InsertUsage(UsageOf(r, now)) BY DEF RecordUsage
<1> DEFINE I == IdOf(r)
           w == UsageOf(r, now)
           output == Normalize[TaskFor(r)][result[r].output]
           model == ModelsFor(r)[attempt[r]]
           done == Build(r, "completed", output, model)
           failed == Build(r, "review", output, None)
<1>1. /\ pc[r] = "usage" /\ Owns(r)
      /\ usage' = usage \cup {w}
      /\ UNCHANGED <<keyRow, requestRow, call>>
      /\ \/ /\ output \in Valid[TaskFor(r)]
            /\ pc' = [pc EXCEPT ![r] = "store"]
            /\ response' = [response EXCEPT ![r] = done]
            /\ attempt' = attempt
         \/ /\ pc' = [pc EXCEPT ![r] = "call"]
            /\ attempt' = [attempt EXCEPT ![r] = attempt[r] + 1]
            /\ response' = response
         \/ /\ pc' = [pc EXCEPT ![r] = "store"]
            /\ response' = [response EXCEPT ![r] = failed]
            /\ attempt' = attempt
  BY <1>0 DEF RecordUsage, InsertUsage, TryOrEnd, Goto, Owns, Owning
<1>2. /\ pc \in [Request -> Location] /\ attempt \in [Request -> Nat]
      /\ response \in [Request -> Response \cup {None}]
      /\ usage \subseteq UsageRow /\ TypeOK /\ LocalsOK
  BY DEF Inductive, TypeOK, StoreTypeOK
<1>3. /\ I \in RequestId /\ RequestIdTaken(I)
      /\ requestRow[I].task = TaskFor(r)
      /\ keyRow[KeyFor(r)].response = None
      /\ \A k \in Key : Claimed(k) /\ keyRow[k].request_id = I => k = KeyFor(r)
  BY <1>1, OwnerNamed
<1>4. /\ w.request_id = I /\ w.task = TaskFor(r) /\ w.model = model
      /\ w.attempts = attempt[r] /\ attempt[r] \in Nat
  BY <1>2 DEF UsageOf
<1>5. \A u \in usage : u.attempts \in Nat /\ (u.request_id = I => u.attempts < attempt[r])
  BY <1>1, <1>2 DEF Metering, AttemptsSoFar, UsageRow
<1>6. /\ done.request_id = I /\ done.status = "completed"
      /\ done.output = output /\ done.model = model
      /\ failed.request_id = I /\ failed.status = "review"
      /\ failed.output = None /\ failed.model = None
  BY DEF Build
<1> HIDE DEF I, w, output, model, done, failed
<1>7. \A s \in Request \ {r} : /\ pc'[s] = pc[s] /\ attempt'[s] = attempt[s]
                               /\ response'[s] = response[s]
                               /\ Owns(s) => IdOf(s) # I
  BY <1>1, <1>2 DEF Inductive, SingleOwner, I
<1>8. RequestsNamed' BY <1>1 DEF Metering, RequestsNamed, RequestIdTaken, Claimed
<1>9. UsageNamed' BY <1>1, <1>3, <1>4 DEF Metering, UsageNamed, RequestIdTaken
<1>10. AttemptsApart'
  <2>1. ASSUME NEW u \in usage', NEW v \in usage',
               u.request_id = v.request_id, u.attempts = v.attempts
        PROVE  u = v
    <3>1. CASE u \in usage /\ v \in usage BY <2>1, <3>1 DEF Metering, AttemptsApart
    <3>2. CASE u = w \/ v = w BY <2>1, <3>2, <1>1, <1>4, <1>5
    <3> QED BY <3>1, <3>2, <1>1
  <2> QED BY <2>1 DEF AttemptsApart
<1>11. AttemptsSoFar'
  <2>1. ASSUME NEW s \in Request, NEW u \in usage', Owns(s)', u.request_id = IdOf(s)'
        PROVE  /\ pc'[s] \notin {"rate", "budget"}
               /\ pc'[s] \in {"call", "usage"} => u.attempts < attempt'[s]
    <3>1. IdOf(s)' = IdOf(s) BY <1>1 DEF IdOf
    <3>2. CASE s # r
      <4>1. Owns(s) BY <2>1, <3>2, <1>7 DEF Owns
      <4>2. u \in usage BY <4>1, <2>1, <3>1, <3>2, <1>1, <1>4, <1>7
      <4> QED BY <4>1, <4>2, <2>1, <3>1, <3>2, <1>7 DEF Metering, AttemptsSoFar
    <3>3. CASE s = r
      <4>1. u.attempts \in Nat /\ u.attempts <= attempt[r]
        BY <2>1, <3>1, <3>3, <1>1, <1>4, <1>5 DEF I
      <4> QED BY <4>1, <3>3, <1>1, <1>2, <1>4
    <3> QED BY <3>2, <3>3
  <2> QED BY <2>1 DEF AttemptsSoFar
<1>12. ASSUME NEW p, NEW t, Accounted(p, t), p.request_id # I PROVE Accounted(p, t)'
  <2>1. \A u \in usage' : u.request_id = p.request_id => u \in usage BY <1>1, <1>4, <1>12
  <2>2. usage \subseteq usage' BY <1>1
  <2> QED BY <1>12, <2>1, <2>2, AccountedKept
<1>13. ResponseFits'
  <2>1. ASSUME NEW s \in Request, pc'[s] = "store"
        PROVE  Accounted(response[s], TaskFor(s))'
    <3>1. TaskFor(s)' = TaskFor(s) BY <1>1 DEF TaskFor, BodyOf
    <3>2. CASE s # r
      <4>1. pc[s] = "store" /\ response'[s] = response[s] BY <2>1, <3>2, <1>7
      <4>2. Owns(s) BY <4>1 DEF Owns, Owning
      <4>3. response[s].request_id # I BY <4>1, <4>2, <3>2, <1>2, <1>7 DEF LocalsOK
      <4>4. Accounted(response[s], TaskFor(s)) BY <4>1 DEF Metering, ResponseFits
      <4>5. Accounted(response[s], TaskFor(s))' BY <1>12, <4>3, <4>4, <4>1, <3>1 DEF Accounted
      <4> QED BY <4>5
    <3>3. CASE s = r
      <4>1. \A u \in usage' : u.request_id = I => u.attempts <= w.attempts
        BY <1>1, <1>4, <1>5
      <4>2. w \in usage' BY <1>1
      <4>3. CASE output \in Valid[TaskFor(r)] /\ response'[r] = done
        BY <4>1, <4>2, <4>3, <3>1, <3>3, <1>4, <1>6 DEF Accounted
      <4>4. CASE response'[r] = failed
        BY <4>2, <4>4, <3>1, <3>3, <1>4, <1>6 DEF Accounted
      <4> QED BY <4>3, <4>4, <2>1, <3>3, <1>1, <1>2
    <3> QED BY <3>2, <3>3
  <2> QED BY <2>1 DEF ResponseFits
<1>14. ResponseAccounted'
  <2>1. ASSUME NEW k \in Key, Claimed(k)', keyRow'[k].response # None
        PROVE  Accounted(keyRow[k].response, TaskOf[keyRow[k].digest])'
    <3>1. Claimed(k) /\ keyRow'[k] = keyRow[k] /\ keyRow[k].response # None
      BY <2>1, <1>1 DEF Claimed
    <3>2. keyRow[k].response.request_id = keyRow[k].request_id
      BY <3>1 DEF Inductive, TablesAgree
    <3>3. keyRow[k].response.request_id # I BY <3>1, <3>2, <1>3
    <3>4. Accounted(keyRow[k].response, TaskOf[keyRow[k].digest])
      BY <3>1 DEF Metering, ResponseAccounted
    <3>5. PICK p, t : p = keyRow[k].response /\ t = TaskOf[keyRow[k].digest] OBVIOUS
    <3>6. Accounted(p, t)' BY <3>3, <3>4, <3>5, <1>12
    <3>7. keyRow'[k].response = p /\ TaskOf[keyRow'[k].digest] = t BY <3>1, <3>5
    <3> QED BY <3>6, <3>7 DEF Accounted
  <2> QED BY <2>1 DEF ResponseAccounted
<1> QED BY <1>8, <1>9, <1>10, <1>11, <1>13, <1>14 DEF Metering

LEMMA NextMetering == Inductive /\ Inductive' /\ Metering /\ [Next]_vars => Metering'
<1> SUFFICES ASSUME Inductive, Inductive', Metering, [Next]_vars PROVE Metering'
  OBVIOUS
<1>0. /\ TypeOK' /\ pc \in [Request -> Location] /\ attempt \in [Request -> Nat]
      /\ DOMAIN call = Request
  BY DEF Inductive, TypeOK
<1>1. CASE UNCHANGED vars \/ (Tick /\ UNCHANGED handlerVars)
  <2>1. UNCHANGED <<keyRow, requestRow, usage, pc, call, attempt, response>>
    BY <1>1 DEF vars, storeVars, tables, handlerVars, Tick
  <2> QED BY <1>0, <2>1, QuietKeeps DEF Owns
<1>2. ASSUME NEW r \in Request, Arrive(r) PROVE Metering'
  <2>1. /\ Goto(r, "idle", "lookup") /\ "idle" \in Location
        /\ \A s \in Request \ {r} : call'[s] = call[s]
        /\ UNCHANGED <<keyRow, requestRow, usage, attempt, response>>
    BY <1>2, <1>0 DEF Arrive, storeVars, tables, Location
  <2> QED BY <1>0, <2>1, MoveMeters
<1>3. ASSUME NEW r \in Request, NEW from, AnswerFromRow(r, from) PROVE Metering'
  <2>1. PICK code, p : Finish(r, from, code, p) /\ UNCHANGED storeVars
    BY <1>3 DEF AnswerFromRow
  <2> QED BY <1>0, <2>1, FinishMeters
<1>4. ASSUME NEW r \in Request, LookupMiss(r) PROVE Metering'
  <2>1. /\ Goto(r, "lookup", "claim") /\ "lookup" \in Location
        /\ UNCHANGED <<keyRow, requestRow, usage, call, attempt, response>>
    BY <1>4 DEF LookupMiss, storeVars, tables, Location, Live
  <2> QED BY <1>0, <2>1, MoveMeters
<1>5. ASSUME NEW r \in Request, CheckRate(r) PROVE Metering'
  <2>1. CASE Goto(r, "rate", "budget") /\ UNCHANGED <<call, attempt, result, response, answer>>
    <3>1. "rate" \in Location /\ UNCHANGED <<keyRow, requestRow, usage>>
      BY <1>5 DEF CheckRate, storeVars, tables, Location, Live
    <3> QED BY <1>0, <2>1, <3>1, MoveMeters
  <2>2. CASE Finish(r, "rate", "RATE_LIMITED", None)
    BY <1>0, <1>5, <2>2, FinishMeters DEF CheckRate
  <2> QED BY <1>5, <2>1, <2>2 DEF CheckRate
<1>6. ASSUME NEW r \in Request, ProviderReplies(r) PROVE Metering'
  <2>1. /\ Goto(r, "call", "usage") /\ "call" \in Location
        /\ UNCHANGED <<keyRow, requestRow, usage, call, attempt, response>>
    BY <1>6 DEF ProviderReplies, storeVars, tables, Location, Live
  <2> QED BY <1>0, <2>1, MoveMeters
<1>7. ASSUME NEW r \in Request, ProviderFails(r) PROVE Metering'
  <2>1. /\ attempt[r] \in Nat
        /\ TryOrEnd(r, "call", attempt[r] + 1, "provider_unavailable", None)
        /\ UNCHANGED <<keyRow, requestRow, usage, call>>
    BY <1>7, <1>0 DEF ProviderFails, storeVars, tables
  <2> QED BY <1>0, <2>1, TryOrEndMeters
<1>8. ASSUME NEW r \in Request, ClaimCollides(r) \/ Reply(r) \/ Abort(r) PROVE Metering'
  <2>1. PICK from, code, p : Finish(r, from, code, p) /\ UNCHANGED storeVars
    BY <1>8 DEF ClaimCollides, Reply, Abort
  <2> QED BY <1>0, <2>1, FinishMeters
<1> QED
  BY <1>0, <1>1, <1>2, <1>3, <1>4, <1>5, <1>6, <1>7, <1>8, ClaimKeyMeters, CheckBudgetMeters,
     RecordUsageMeters, StoreMeters
  DEF Next, Handle, Lookup, Claim, Terminating

LEMMA MeteringHolds == Spec => [](Inductive /\ Metering)
  BY InitInductive, InitMetering, NextInductive, NextMetering, PTL DEF Spec

\* record_usage under claim: however calls interleave and wherever they die, all
\* that is metered for a key is metered under one request row, one row for each
\* attempt.
THEOREM MeteredOnceHolds == Spec => []MeteredOnce
<1>1. Inductive /\ Metering => MeteredOnce BY MeteringImplies
<1> QED BY <1>1, MeteringHolds, PTL

\* execute, record_usage and put: what a stored response tells fits what was
\* metered for it, at the moment it is stored and ever after.
THEOREM ResponseAccountedHolds == Spec => []ResponseAccounted
<1>1. Metering => ResponseAccounted BY DEF Metering
<1> QED BY <1>1, MeteringHolds, PTL

-----------------------------------------------------------------------------
(* The ledger *)

\* The ledgers, if each row is charged to the day that charged says.
ChargedTo(charged, t, d) == {u \in usage : u.task = t /\ charged[u] = d}

Adding(charged) ==
    /\ charged \in [usage -> Day]
    /\ \A u \in usage : charged[u] \in DaysFrom(u.created)
    /\ \A t \in Task, d \in Day : spent[t][d] = Total(ChargedTo(charged, t, d))

LedgerOK == IsFiniteSet(usage) /\ \E charged : Adding(charged)

LEMMA InitLedger == Init => LedgerOK
<1> SUFFICES ASSUME Init PROVE LedgerOK OBVIOUS
<1> DEFINE nothing == [u \in {} |-> 0]
<1>1. usage = {} /\ \A t \in Task, d \in Day : spent[t][d] = 0
  BY DEF Init, StoreInit
<1>2. \A t \in Task, d \in Day : ChargedTo(nothing, t, d) = {} BY <1>1 DEF ChargedTo
<1>3. nothing \in [usage -> Day] BY <1>1
<1> HIDE DEF nothing
<1>4. Adding(nothing) BY <1>1, <1>2, <1>3, TotalEmpty DEF Adding
<1> QED BY <1>1, <1>4, FS_EmptySet DEF LedgerOK

\* No other step touches usage rows or ledger.
LEMMA OnlyRecordUsagePays ==
  ASSUME [Next]_vars
  PROVE  UNCHANGED <<usage, spent>> \/ \E r \in Request : RecordUsage(r)
<1>1. ASSUME NEW r \in Request,
             Arrive(r) \/ Lookup(r) \/ Claim(r) \/ CheckRate(r) \/ CheckBudget(r)
      PROVE  UNCHANGED <<usage, spent>>
  BY <1>1 DEF Arrive, Lookup, AnswerFromRow, LookupMiss, Claim, ClaimKey, InsertClaim,
              ClaimCollides, CheckRate, CheckBudget, storeVars, tables
<1>2. ASSUME NEW r \in Request,
             ProviderReplies(r) \/ ProviderFails(r) \/ Store(r) \/ Reply(r) \/ Abort(r)
      PROVE  UNCHANGED <<usage, spent>>
  BY <1>2 DEF ProviderReplies, ProviderFails, Store, Put, Reply, Abort, storeVars, tables
<1> QED BY <1>1, <1>2 DEF Next, Handle, Tick, Terminating, vars, storeVars, tables

\* What record_usage writes, and that both readings were taken in the step.
LEMMA RecordUsageWrites ==
  ASSUME Inductive, NEW r \in Request, RecordUsage(r)
  PROVE  \E w \in UsageRow, today \in Day :
            /\ w.request_id = IdOf(r) /\ w.attempts = attempt[r] /\ pc[r] = "usage"
            /\ w.created \in Now /\ today \in TodayFrom(w.created)
            /\ usage' = usage \cup {w}
            /\ spent' = [spent EXCEPT ![w.task][today] = @ + w.cost]
<1>1. pc[r] = "usage" /\ TypeOK /\ LocalsOK BY DEF RecordUsage, Inductive
<1>2. PICK now \in Now : InsertUsage(UsageOf(r, now)) BY DEF RecordUsage
<1>3. PICK w : w = UsageOf(r, now) OBVIOUS
<1>4. w \in UsageRow BY <1>1, <1>3, UsageTyped
<1>5. w.request_id = IdOf(r) /\ w.attempts = attempt[r] /\ w.created = now
  BY <1>3 DEF UsageOf
<1>6. PICK today \in TodayFrom(w.created) :
         /\ usage' = usage \cup {w}
         /\ spent' = [spent EXCEPT ![w.task][today] = @ + w.cost]
  BY <1>2, <1>3 DEF InsertUsage
<1>7. today \in Day BY StoreAssumption DEF TodayFrom, Now
<1> QED BY <1>1, <1>4, <1>5, <1>6, <1>7

\* Two readings of one step are as far apart as two clocks.
LEMMA ReadingsNear ==
  ASSUME Inductive, NEW stamp \in Now
  PROVE  TodayFrom(stamp) \subseteq DaysFrom(stamp)
<1>1. clock \in Int /\ Skew \in Nat /\ Time \subseteq Int
  BY StoreAssumption DEF Inductive, TypeOK, StoreTypeOK, Time
<1>2. ASSUME NEW n \in Now, stamp <= n
      PROVE  n \in Time /\ n <= stamp + 2 * Skew
  BY <1>1, <1>2 DEF Now
<1> QED BY <1>2 DEF TodayFrom, DaysFrom

\* The row of the attempt at hand is a new one: the sum of the day it is charged
\* to grows by its cost, which is what the upsert adds, and no other sum changes.
LEMMA RecordUsageLedger ==
  ASSUME Inductive, Metering, LedgerOK, NEW r \in Request, RecordUsage(r)
  PROVE  LedgerOK'
<1>1. PICK w \in UsageRow, today \in Day :
         /\ w.request_id = IdOf(r) /\ w.attempts = attempt[r] /\ pc[r] = "usage"
         /\ w.created \in Now /\ today \in TodayFrom(w.created)
         /\ usage' = usage \cup {w}
         /\ spent' = [spent EXCEPT ![w.task][today] = @ + w.cost]
  BY RecordUsageWrites
<1>2. w \notin usage
  <2>1. Owns(r) BY <1>1 DEF Owns, Owning
  <2>2. attempt[r] \in Nat BY DEF Inductive, TypeOK
  <2> QED BY <1>1, <2>1, <2>2 DEF Metering, AttemptsSoFar
<1>3. /\ usage \subseteq UsageRow /\ spent \in [Task -> [Day -> Nat]]
  BY DEF Inductive, TypeOK, StoreTypeOK
<1>4. w.task \in Task /\ w.cost \in Nat
  BY <1>1 DEF UsageRow
<1>5. IsFiniteSet(usage') BY <1>1, FS_AddElement DEF LedgerOK
<1>6. PICK old : Adding(old) BY DEF LedgerOK
<1>7. PICK new : /\ new \in [usage' -> Day] /\ new[w] = today
                  /\ \A u \in usage : new[u] = old[u]
  <2> DEFINE to == [u \in usage' |-> IF u = w THEN today ELSE old[u]]
  <2>1. /\ to \in [usage' -> Day] /\ to[w] = today
        /\ \A u \in usage : to[u] = old[u]
    BY <1>1, <1>2, <1>6 DEF Adding
  <2> QED BY <2>1
<1>8. ASSUME NEW u \in usage' PROVE new[u] \in DaysFrom(u.created)
  <2>1. CASE u = w BY <2>1, <1>1, <1>7, ReadingsNear
  <2>2. CASE u \in usage BY <2>2, <1>6, <1>7 DEF Adding
  <2> QED BY <2>1, <2>2, <1>1
<1>9. ASSUME NEW t \in Task, NEW d \in Day
      PROVE  spent'[t][d] = Total({u \in usage' : u.task = t /\ new[u] = d})
  <2> DEFINE X == ChargedTo(old, t, d)
             Y == {u \in usage' : u.task = t /\ new[u] = d}
  <2>1. IsFiniteSet(X) BY FS_Subset DEF LedgerOK, ChargedTo
  <2>2. Priced(X) BY <1>3 DEF Priced, ChargedTo, UsageRow
  <2>3. w \notin X /\ w.cost \in Int BY <1>2, <1>4 DEF ChargedTo
  <2>4. spent[t][d] = Total(X) /\ spent[t][d] \in Nat BY <1>3, <1>6 DEF Adding
  <2>5. CASE w.task = t /\ today = d
    <3>1. Y = X \cup {w} BY <1>1, <1>7, <2>5 DEF ChargedTo
    <3>2. spent'[t][d] = spent[t][d] + w.cost BY <1>1, <1>3, <2>5
    <3> HIDE DEF X, Y
    <3>3. Total(X \cup {w}) = Total(X) + w.cost BY <2>1, <2>2, <2>3, TotalAdd
    <3> QED BY <2>4, <3>1, <3>2, <3>3 DEF Y
  <2>6. CASE ~(w.task = t /\ today = d)
    <3>1. Y = X BY <1>1, <1>7, <2>6 DEF ChargedTo
    <3>2. spent'[t][d] = spent[t][d] BY <1>1, <1>3, <1>4, <2>6
    <3> QED BY <2>4, <3>1, <3>2
  <2> QED BY <2>5, <2>6
<1>10. Adding(new)' BY <1>7, <1>8, <1>9 DEF Adding, ChargedTo, DaysFrom
<1> QED BY <1>5, <1>10 DEF LedgerOK

LEMMA NextLedger == Inductive /\ Metering /\ LedgerOK /\ [Next]_vars => LedgerOK'
<1> SUFFICES ASSUME Inductive, Metering, LedgerOK, [Next]_vars PROVE LedgerOK'
  OBVIOUS
<1>1. CASE UNCHANGED <<usage, spent>> BY <1>1 DEF LedgerOK, Adding, ChargedTo
<1>2. CASE \E r \in Request : RecordUsage(r) BY <1>2, RecordUsageLedger
<1> QED BY <1>1, <1>2, OnlyRecordUsagePays

\* record_usage: however many calls meter at once and wherever midnight falls
\* between the stamp of a usage row and the date its charge goes to, the ledgers
\* of a task hold every row's cost once.
THEOREM LedgerMatchesUsageHolds == Spec => []LedgerMatchesUsage
<1>1. LedgerOK => LedgerMatchesUsage
  BY DEF LedgerOK, LedgerMatchesUsage, Adding, ChargedTo
<1> QED BY <1>1, InitLedger, NextLedger, MeteringHolds, PTL DEF Spec

-----------------------------------------------------------------------------
(* A spent budget *)

\* The day has come for every worker: no clock will tell a day before it again.
Begun(d) ==
    \E a \in Time : DayOf[a] = d /\ \A n \in Time : clock - Skew <= n => a <= n

\* Some worker's clock may have told a day after it.
Over(d) ==
    \E a, n \in Time : DayOf[a] = d /\ a <= n /\ n <= clock + Skew /\ DayOf[n] # d

\* The call has yet to check a budget that is spent, or got past the check when
\* some clock told that the day was over, or makes no more calls.
StoppedOn(r, d) ==
    \/ /\ pc[r] \in {"lookup", "claim", "rate", "budget"}
       /\ Begun(d)
       /\ spent[TaskFor(r)][d] >= Budget[TaskFor(r)]
    \/ pc[r] \in {"call", "usage"} /\ Over(d)
    \/ pc[r] \in {"store", "reply", "done"}

LEMMA ClockAdvances ==
  ASSUME Inductive, [Next]_vars
  PROVE  clock \in Nat /\ clock' \in Nat /\ clock <= clock'
<1>1. clock \in Nat BY DEF Inductive, TypeOK, StoreTypeOK, Time
<1>2. CASE clock' = clock BY <1>1, <1>2
<1>3. CASE Tick BY <1>1, <1>3 DEF Tick
<1>4. ASSUME NEW r \in Request,
             Arrive(r) \/ Lookup(r) \/ Claim(r) \/ CheckRate(r) \/ CheckBudget(r)
      PROVE  clock' = clock
  BY <1>4 DEF Arrive, Lookup, AnswerFromRow, LookupMiss, Claim, ClaimKey, InsertClaim,
              ClaimCollides, CheckRate, CheckBudget, storeVars, tables
<1>5. ASSUME NEW r \in Request, ProviderReplies(r) \/ ProviderFails(r) \/ RecordUsage(r)
                               \/ Store(r) \/ Reply(r) \/ Abort(r)
      PROVE  clock' = clock
  BY <1>5 DEF ProviderReplies, ProviderFails, RecordUsage, InsertUsage, Store, Put, Reply, Abort,
              storeVars, tables
<1> QED BY <1>2, <1>3, <1>4, <1>5 DEF Next, Handle, Terminating, vars, storeVars, tables

\* The ledger only grows.
LEMMA LedgerGrows ==
  ASSUME Inductive, [Next]_vars, NEW t \in Task, NEW d \in Day
  PROVE  /\ spent[t][d] \in Nat /\ spent'[t][d] \in Nat
         /\ spent[t][d] <= spent'[t][d]
<1>1. spent \in [Task -> [Day -> Nat]] /\ spent[t][d] \in Nat
  BY DEF Inductive, TypeOK, StoreTypeOK
<1>2. CASE UNCHANGED spent BY <1>1, <1>2
<1>3. ASSUME NEW r \in Request, RecordUsage(r)
      PROVE  spent'[t][d] \in Nat /\ spent[t][d] <= spent'[t][d]
  <2>1. PICK w \in UsageRow, today \in Day :
           spent' = [spent EXCEPT ![w.task][today] = @ + w.cost]
    BY <1>3, RecordUsageWrites
  <2>2. w.task \in Task /\ w.cost \in Nat BY <2>1 DEF UsageRow
  <2>3. spent[w.task][today] \in Nat BY <1>1, <2>2
  <2>4. CASE w.task = t /\ today = d
    <3>1. spent'[t][d] = spent[t][d] + w.cost BY <1>1, <2>1, <2>2, <2>4
    <3> QED BY <1>1, <2>2, <3>1
  <2>5. CASE ~(w.task = t /\ today = d)
    <3>1. spent'[t][d] = spent[t][d] BY <1>1, <2>1, <2>2, <2>5
    <3> QED BY <3>1, <1>1
  <2> QED BY <2>4, <2>5
<1> QED BY <1>1, <1>2, <1>3, OnlyRecordUsagePays

\* A day that has come has come for good, and one that is over stays over.
LEMMA DaysAdvance ==
  ASSUME Inductive, [Next]_vars, NEW d \in Day
  PROVE  (Begun(d) => Begun(d)') /\ (Over(d) => Over(d)')
<1>1. clock \in Nat /\ clock' \in Nat /\ clock <= clock' BY ClockAdvances
<1>2. Skew \in Nat BY StoreAssumption
<1>3. ASSUME NEW n \in Time
      PROVE  /\ clock' - Skew <= n => clock - Skew <= n
             /\ n <= clock + Skew => n <= clock' + Skew
  <2>1. PICK before, after \in Int : before = clock /\ after = clock'
    BY <1>1
  <2>2. n \in Int /\ before <= after BY <1>1, <2>1 DEF Time
  <2>3. /\ after - Skew <= n => before - Skew <= n
        /\ n <= before + Skew => n <= after + Skew
    BY <1>2, <2>2
  <2> QED BY <2>1, <2>3
<1> QED BY <1>3 DEF Begun, Over

\* A day that every clock tells has come, and is not over.
LEMMA TodayBegun ==
  ASSUME Inductive, NEW d \in Day, Today = {d}
  PROVE  Begun(d) /\ ~Over(d)
<1>1. /\ clock \in Time /\ Skew \in Nat /\ MaxClock \in Nat /\ Time = 0 .. MaxClock
      /\ clock \in Int
  BY StoreAssumption DEF Inductive, TypeOK, StoreTypeOK, Time
<1>2. \A n \in Now : DayOf[n] = d BY DEF Today
<1>3. clock \in Now BY <1>1 DEF Now
<1>4. Begun(d)
  <2>1. CASE clock - Skew >= 0
    <3>1. clock - Skew \in Now BY <1>1, <2>1 DEF Now
    <3>2. clock - Skew \in Time /\ DayOf[clock - Skew] = d BY <3>1, <1>2 DEF Now
    <3> QED BY <3>2 DEF Begun
  <2>2. CASE clock - Skew < 0
    <3>1. 0 \in Now BY <1>1, <2>2 DEF Now
    <3>2. 0 \in Time /\ DayOf[0] = d BY <3>1, <1>2 DEF Now
    <3>3. \A n \in Time : 0 <= n BY <1>1
    <3> QED BY <3>2, <3>3 DEF Begun
  <2> QED BY <1>1, <2>1, <2>2
<1>5. ASSUME NEW a \in Time, NEW n \in Time,
             DayOf[a] = d, a <= n, n <= clock + Skew, DayOf[n] # d
      PROVE  FALSE
  <2>1. n \notin Now BY <1>2, <1>5
  <2>2. n <= clock BY <2>1, <1>1, <1>5 DEF Now
  <2>3. DayOf[clock] = d BY <1>2, <1>3
  <2> QED BY <1>1, <1>5, <2>2, <2>3, DaysPass
<1> QED BY <1>4, <1>5 DEF Over

\* What a step does to one call: it is another's, or takes it along the handler.
Paths ==
    {<<"lookup", "claim">>, <<"claim", "rate">>, <<"rate", "budget">>, <<"budget", "store">>,
     <<"call", "usage">>, <<"call", "call">>, <<"call", "store">>, <<"usage", "call">>,
     <<"usage", "store">>, <<"store", "reply">>}

\* The one step from the budget to a provider found money on the day it was told.
Passes(r) ==
    /\ pc[r] = "budget" /\ pc'[r] = "call"
    /\ \E today \in Today : ~BudgetExhausted(TaskFor(r), today)
    /\ UNCHANGED <<clock, spent>>

LEMMA Along ==
  ASSUME Inductive, [Next]_vars, NEW r \in Request, pc[r] # "idle"
  PROVE  /\ call'[r] = call[r]
         /\ \/ pc'[r] = pc[r]
            \/ pc'[r] = "done"
            \/ <<pc[r], pc'[r]>> \in Paths
            \/ Passes(r)
<1> DEFINE Good == /\ call'[r] = call[r]
                   /\ \/ pc'[r] = pc[r] \/ pc'[r] = "done"
                      \/ <<pc[r], pc'[r]>> \in Paths \/ Passes(r)
<1>0. DOMAIN pc = Request /\ DOMAIN call = Request BY DEF Inductive, TypeOK
<1>1. CASE UNCHANGED vars \/ (Tick /\ UNCHANGED handlerVars)
  BY <1>1 DEF vars, storeVars, handlerVars
<1>2. ASSUME NEW s \in Request, Arrive(s) PROVE Good
  BY <1>0, <1>2 DEF Arrive, Goto
<1>3. ASSUME NEW s \in Request, NEW from, NEW code, NEW p, Finish(s, from, code, p) PROVE Good
  BY <1>0, <1>3 DEF Finish, Goto
<1>4. ASSUME NEW s \in Request, NEW from, NEW to, Goto(s, from, to), <<from, to>> \in Paths,
             UNCHANGED call
      PROVE  Good
  BY <1>0, <1>4 DEF Goto
<1>5. ASSUME NEW s \in Request, CheckBudget(s) PROVE Good
  <2>1. CASE Goto(s, "budget", "store") BY <1>4, <1>5, <2>1 DEF CheckBudget, Paths
  <2>2. CASE /\ \E today \in Today : ~BudgetExhausted(TaskFor(s), today)
             /\ Goto(s, "budget", "call")
    <3>1. UNCHANGED <<call, clock, spent>> BY <1>5 DEF CheckBudget, storeVars, tables
    <3> QED BY <1>0, <2>2, <3>1 DEF Goto, Passes
  <2> QED BY <1>5, <2>1, <2>2 DEF CheckBudget, TryOrEnd
<1>6. ASSUME NEW s \in Request,
             LookupMiss(s) \/ ClaimKey(s) \/ ProviderReplies(s) \/ ProviderFails(s)
             \/ RecordUsage(s) \/ Store(s)
      PROVE  Good
  <2>1. UNCHANGED call
    BY <1>6 DEF LookupMiss, ClaimKey, ProviderReplies, ProviderFails, RecordUsage, Store
  <2>2. \E from, to : Goto(s, from, to) /\ <<from, to>> \in Paths
    BY <1>6 DEF LookupMiss, ClaimKey, ProviderReplies, ProviderFails, RecordUsage, Store,
                TryOrEnd, Paths
  <2> QED BY <1>4, <2>1, <2>2
<1>7. ASSUME NEW s \in Request, CheckRate(s) PROVE Good
  <2>1. CASE Goto(s, "rate", "budget") /\ UNCHANGED call BY <1>4, <2>1 DEF Paths
  <2>2. CASE Finish(s, "rate", "RATE_LIMITED", None) BY <1>3, <2>2
  <2> QED BY <1>7, <2>1, <2>2 DEF CheckRate
<1>8. ASSUME NEW s \in Request, NEW from, AnswerFromRow(s, from) PROVE Good
  BY <1>3, <1>8 DEF AnswerFromRow
<1>9. ASSUME NEW s \in Request, ClaimCollides(s) \/ Reply(s) \/ Abort(s) PROVE Good
  BY <1>3, <1>9 DEF ClaimCollides, Reply, Abort
<1> QED
  BY <1>1, <1>2, <1>5, <1>6, <1>7, <1>8, <1>9 DEF Next, Handle, Lookup, Claim, Terminating

LEMMA StaysStopped ==
  ASSUME Inductive, [Next]_vars, NEW r \in Request, NEW d \in Day, StoppedOn(r, d)
  PROVE  StoppedOn(r, d)'
<1>1. pc[r] # "idle" BY DEF StoppedOn
<1>2. /\ call'[r] = call[r]
      /\ \/ pc'[r] = pc[r] \/ pc'[r] = "done"
         \/ <<pc[r], pc'[r]>> \in Paths \/ Passes(r)
  BY <1>1, Along
<1>3. TaskFor(r)' = TaskFor(r) /\ TaskFor(r) \in Task
  BY <1>1, <1>2, CallTypes DEF TaskFor, BodyOf, Inductive
<1>4. PICK t \in Task : t = TaskFor(r) BY <1>3
<1>5. /\ spent[t][d] \in Nat /\ spent'[t][d] \in Nat /\ spent[t][d] <= spent'[t][d]
      /\ Budget[t] \in Int
  BY LedgerGrows, StoreAssumption
<1>6. CASE pc'[r] = "done" BY <1>6 DEF StoppedOn
<1>7. CASE pc[r] \in {"store", "reply", "done"}
  BY <1>2, <1>7 DEF StoppedOn, Paths, Passes
<1>8. CASE pc[r] \in {"call", "usage"} /\ Over(d)
  <2>1. Over(d)' BY <1>8, DaysAdvance
  <2> QED BY <1>2, <1>8, <2>1 DEF StoppedOn, Paths, Passes
<1>9. CASE /\ pc[r] \in {"lookup", "claim", "rate", "budget"} /\ Begun(d)
           /\ spent[t][d] >= Budget[t]
  <2>1. CASE Passes(r)
    <3>1. PICK n \in Now : ~BudgetExhausted(t, DayOf[n])
      BY <1>4, <2>1 DEF Passes, Today
    <3>2. n \in Time /\ clock - Skew <= n /\ n <= clock + Skew BY DEF Now
    <3>3. DayOf[n] # d BY <3>1, <1>9 DEF BudgetExhausted
    <3>4. Over(d) BY <3>2, <3>3, <1>9 DEF Begun, Over
    <3>5. Over(d)' BY <3>4, DaysAdvance
    <3> QED BY <2>1, <3>5 DEF StoppedOn, Passes
  <2>2. CASE pc'[r] = "store" BY <2>2 DEF StoppedOn
  <2>3. CASE pc'[r] \in {"lookup", "claim", "rate", "budget"}
    <3>1. spent'[t][d] >= Budget[t] BY <1>5, <1>9
    <3>2. Begun(d)' BY <1>9, DaysAdvance
    <3> QED BY <1>3, <1>4, <2>3, <3>1, <3>2 DEF StoppedOn
  <2> QED BY <1>2, <1>6, <1>9, <2>1, <2>2, <2>3 DEF Paths
<1> QED BY <1>4, <1>7, <1>8, <1>9 DEF StoppedOn

\* budget_exhausted before the loop, record_usage in it: once a day's ledger
\* has reached the budget, a call that has yet to look at it calls no provider
\* while every clock tells that day, however many calls are under way, wherever
\* midnight falls and however far the workers' clocks are apart.
THEOREM ExhaustedBudgetStopsCallsHolds == Spec => ExhaustedBudgetStopsCalls
<1>1. ASSUME NEW r \in Request, NEW d \in Day
      PROVE  Spec => []( (/\ pc[r] \in {"lookup", "claim", "rate", "budget"}
                          /\ Today = {d}
                          /\ spent[TaskFor(r)][d] >= Budget[TaskFor(r)])
                         => [](pc[r] = "call" => Today # {d}) )
  <2>1. Inductive /\ [Next]_vars /\ StoppedOn(r, d) => StoppedOn(r, d)'
    BY StaysStopped
  <2>2. Inductive => ((/\ pc[r] \in {"lookup", "claim", "rate", "budget"}
                       /\ Today = {d}
                       /\ spent[TaskFor(r)][d] >= Budget[TaskFor(r)]) => StoppedOn(r, d))
    BY TodayBegun DEF StoppedOn
  <2>3. Inductive /\ StoppedOn(r, d) => (pc[r] = "call" => Today # {d})
    BY TodayBegun DEF StoppedOn
  <2> QED BY InductiveHolds, <2>1, <2>2, <2>3, PTL DEF Spec
<1> QED BY <1>1 DEF ExhaustedBudgetStopsCalls

-----------------------------------------------------------------------------
(***************************************************************************)
(* The rate: a claim writes its request row before the check counts the     *)
(* rows of the window, so calls claimed in one window count one another,    *)
(* and of those in the window that ends now too few for the limit got past. *)
(***************************************************************************)

Taken == {i \in RequestId : RequestIdTaken(i)}

\* What is counted stays finite, and no count of those who passed exceeds a limit.
RateOK == IsFiniteSet(Taken) /\ RateWindowBound

LEMMA ClockIsNow == TypeOK => clock \in Now
<1> SUFFICES ASSUME TypeOK PROVE clock \in Now OBVIOUS
<1>1. clock \in Time /\ clock \in Int /\ Skew \in Nat
  BY StoreAssumption DEF TypeOK, StoreTypeOK, Time
<1>2. clock - Skew <= clock /\ clock <= clock + Skew BY <1>1
<1> QED BY <1>1, <1>2 DEF Now

LEMMA PassedIsTaken == ASSUME TypeOK, NEW t PROVE PassedRate(t) \subseteq Taken
  BY ClockIsNow DEF PassedRate, RecentRequests, Taken, RequestIdTaken

LEMMA InitRate == Init => RateOK
<1> SUFFICES ASSUME Init PROVE RateOK OBVIOUS
<1>1. Taken = {} BY DEF Init, StoreInit, Taken, RequestIdTaken
<1>2. TypeOK BY InitInductive DEF Inductive
<1>3. \A t \in Task : PassedRate(t) = {} BY <1>1, <1>2, PassedIsTaken
<1>4. IsFiniteSet({}) /\ Cardinality({}) = 0 BY FS_EmptySet
<1>5. \A t \in Task : RateLimit[t] > 0 => Cardinality(PassedRate(t)) < RateLimit[t]
  BY <1>3, <1>4, StoreAssumption
<1> QED BY <1>1, <1>4, <1>5 DEF RateOK, RateWindowBound

\* A set of taken requests is finite, and the smaller the fewer.
LEMMA FewerPassed ==
  ASSUME IsFiniteSet(Taken), NEW S, S \subseteq Taken
  PROVE  /\ IsFiniteSet(S) /\ Cardinality(S) \in Nat
         /\ \A T \in SUBSET S : Cardinality(T) \in Nat /\ Cardinality(T) <= Cardinality(S)
<1>1. IsFiniteSet(S) BY FS_Subset
<1>2. ASSUME NEW T \in SUBSET S
      PROVE  Cardinality(T) \in Nat /\ Cardinality(T) <= Cardinality(S)
  <2>1. IsFiniteSet(T) /\ Cardinality(T) <= Cardinality(S) BY <1>1, FS_Subset
  <2> QED BY <2>1, FS_CardinalityType
<1> QED BY <1>1, <1>2, FS_CardinalityType

\* The bound survives a step after which nobody new has passed.
LEMMA NobodyNew ==
  ASSUME TypeOK, RateOK, IsFiniteSet(Taken'),
         \A t \in Task : PassedRate(t)' \subseteq PassedRate(t)
  PROVE  RateOK'
<1>1. ASSUME NEW t \in Task, RateLimit[t] > 0
      PROVE  Cardinality(PassedRate(t)') < RateLimit[t]
  <2> DEFINE old == PassedRate(t)
             new == PassedRate(t)'
  <2>1. old \subseteq Taken BY PassedIsTaken
  <2>2. new \in SUBSET old OBVIOUS
  <2> HIDE DEF old, new
  <2>3. /\ Cardinality(old) \in Nat /\ Cardinality(new) \in Nat
        /\ Cardinality(new) <= Cardinality(old)
    BY <2>1, <2>2, FewerPassed DEF RateOK
  <2>4. Cardinality(old) < RateLimit[t] BY <1>1 DEF RateOK, RateWindowBound, old
  <2>5. RateLimit[t] \in Int BY StoreAssumption
  <2>6. Cardinality(new) < RateLimit[t] BY <2>3, <2>4, <2>5
  <2> QED BY <2>6 DEF new
<1> QED BY <1>1 DEF RateOK, RateWindowBound

\* The clocks only advance: what each of them finds recent after a step, each of
\* them found recent before.
LEMMA LaterReading ==
  ASSUME TypeOK, TypeOK', clock <= clock', NEW now \in Now
  PROVE  \E later \in Now' : now <= later
<1>1. now \in Time /\ now <= clock + Skew BY DEF Now
<1>2. clock \in Time /\ clock' \in Time BY DEF TypeOK, StoreTypeOK
<1>3. now \in Int /\ clock \in Int /\ clock' \in Int /\ Skew \in Nat
  BY <1>1, <1>2, StoreAssumption DEF Time
<1>4. PICK n, before, after \in Int : n = now /\ before = clock /\ after = clock'
  BY <1>3
<1>5. n <= before + Skew /\ before <= after BY <1>1, <1>4
<1>6. CASE after - Skew <= n
  <2>1. n <= after + Skew BY <1>3, <1>5
  <2>2. now \in Now' BY <1>1, <1>4, <1>6, <2>1 DEF Now
  <2> QED BY <2>2, <1>3
<1>7. CASE ~(after - Skew <= n)
  <2>1. n <= after /\ after - Skew <= after /\ after <= after + Skew BY <1>3, <1>7
  <2>2. clock' \in Now' BY <1>2, <1>4, <2>1 DEF Now
  <2> QED BY <1>4, <2>1, <2>2
<1> QED BY <1>6, <1>7

\* Nobody new has passed if a request row was there with its task and time, and
\* is settled only by one that had passed; or is new, pending and nobody's who
\* has.
LEMMA NobodyNewIf ==
  ASSUME TypeOK, TypeOK', RateOK, IsFiniteSet(Taken'), clock <= clock',
         \A i \in RequestId : RequestIdTaken(i)' =>
            \/ /\ RequestIdTaken(i)
               /\ requestRow'[i].task = requestRow[i].task
               /\ requestRow'[i].created = requestRow[i].created
               /\ \/ requestRow'[i].status = requestRow[i].status
                  \/ \E r \in Request : pc[r] \in PastRate /\ IdOf(r) = i
            \/ /\ requestRow'[i].status = "pending"
               /\ \A r \in Request : pc'[r] \in PastRate => IdOf(r)' # i,
         \A r \in Request : pc'[r] \in PastRate =>
            pc[r] \in PastRate /\ call'[r] = call[r]
  PROVE  RateOK'
<1>1. ASSUME NEW t \in Task, NEW i \in PassedRate(t)' PROVE i \in PassedRate(t)
  <2>1. i \in RequestId /\ \A later \in Now' : i \in RecentRequests(t, later)'
    BY DEF PassedRate
  <2>2. \/ requestRow'[i].status # "pending"
        \/ \E r \in Request : pc'[r] \in PastRate /\ IdOf(r)' = i
    BY DEF PassedRate
  <2>3. ASSUME NEW later \in Now'
        PROVE  /\ RequestIdTaken(i)' /\ requestRow'[i].task = t
               /\ requestRow'[i].created > later - Window
    BY <2>1 DEF RecentRequests, RequestIdTaken
  <2>4. RequestIdTaken(i)'
    <3>1. clock \in Now BY ClockIsNow
    <3> QED BY <3>1, <2>3, LaterReading
  <2>5. /\ RequestIdTaken(i)
        /\ requestRow'[i].task = requestRow[i].task
        /\ requestRow'[i].created = requestRow[i].created
        /\ \/ requestRow'[i].status = requestRow[i].status
           \/ \E r \in Request : pc[r] \in PastRate /\ IdOf(r) = i
    BY <2>1, <2>2, <2>4
  <2>6. ASSUME NEW now \in Now PROVE i \in RecentRequests(t, now)
    <3>1. PICK later \in Now' : now <= later BY LaterReading
    <3>2. requestRow[i].created \in Int
      <4>1. requestRow[i] \in RequestRow
        BY <2>1, <2>5 DEF TypeOK, StoreTypeOK, RequestIdTaken
      <4> QED BY <4>1 DEF RequestRow, Time
    <3>3. now \in Int /\ later \in Int /\ Window \in Int
      BY StoreAssumption DEF Now, Time
    <3>4. requestRow[i].created > now - Window BY <2>3, <2>5, <3>1, <3>2, <3>3
    <3> QED BY <2>1, <2>3, <2>5, <3>1, <3>4 DEF RecentRequests, RequestIdTaken
  <2>7. \/ requestRow[i].status # "pending"
        \/ \E r \in Request : pc[r] \in PastRate /\ IdOf(r) = i
    BY <2>2, <2>5 DEF IdOf
  <2> QED BY <2>1, <2>6, <2>7 DEF PassedRate
<1> QED BY <1>1, NobodyNew

\* The same, for a step that writes no request row.
LEMMA QuietRate ==
  ASSUME TypeOK, TypeOK', RateOK, clock <= clock', requestRow' = requestRow,
         \A r \in Request : pc'[r] \in PastRate =>
            pc[r] \in PastRate /\ call'[r] = call[r]
  PROVE  RateOK'
<1>1. Taken' = Taken BY DEF Taken, RequestIdTaken
<1>2. IsFiniteSet(Taken') BY <1>1 DEF RateOK
<1> QED BY <1>2, NobodyNewIf DEF RequestIdTaken

\* Whoever has passed the check has a request row.
LEMMA PastTaken ==
  ASSUME Inductive, NEW r \in Request, pc[r] \in PastRate
  PROVE  RequestIdTaken(IdOf(r))
<1>1. /\ KeyFor(r) \in Key /\ IdOf(r) \in RequestId /\ BodyOf(r) \in Body
  BY CallTypes DEF Inductive, PastRate
<1>2. PICK p \in Response \cup {None} :
        keyRow[KeyFor(r)] = [digest |-> BodyOf(r), request_id |-> IdOf(r), response |-> p]
  BY DEF Inductive, SingleOwner, StoredBeforeReply, TypeOK, Owns, Owning, PastRate
<1>3. [digest |-> BodyOf(r), request_id |-> IdOf(r), response |-> p] \in KeyRow
  BY <1>1 DEF KeyRow
<1>4. Claimed(KeyFor(r)) BY <1>2, <1>3, NoneAssumption DEF Claimed
<1> QED BY <1>1, <1>2, <1>4 DEF Inductive, TablesAgree

LEMMA ClaimKeyRate ==
  ASSUME Inductive, Inductive', RateOK, NEW r \in Request, ClaimKey(r)
  PROVE  RateOK'
<1> DEFINE I == IdOf(r)
<1>1. PICK now \in Now :
      /\ I \in RequestId /\ requestRow[I] = None
      /\ pc' = [pc EXCEPT ![r] = "rate"] /\ call' = call /\ clock' = clock
      /\ requestRow' = [requestRow EXCEPT ![I] =
            [task |-> TaskFor(r), digest |-> BodyOf(r), created |-> now,
             status |-> "pending", output |-> None]]
  BY CallTypes
  DEF Inductive, ClaimKey, Goto, InsertClaim, RequestIdTaken, TaskFor
<1>2. /\ TypeOK /\ TypeOK' /\ pc \in [Request -> Location] /\ clock \in Int
      /\ requestRow \in [RequestId -> RequestRow \cup {None}]
  BY DEF Inductive, TypeOK, StoreTypeOK, Time
<1>3. /\ requestRow'[I].status = "pending"
      /\ \A i \in RequestId \ {I} : requestRow'[i] = requestRow[i]
  BY <1>1, <1>2
<1>4. IsFiniteSet(Taken')
  <2>1. Taken' \subseteq Taken \cup {I} BY <1>3 DEF Taken, RequestIdTaken
  <2>2. IsFiniteSet(Taken \cup {I}) BY FS_AddElement DEF RateOK
  <2> QED BY <2>1, <2>2, FS_Subset
<1>5. ASSUME NEW s \in Request, pc'[s] \in PastRate
      PROVE  pc[s] \in PastRate /\ call'[s] = call[s] /\ IdOf(s)' # I
  <2>1. pc[s] \in PastRate BY <1>1, <1>2, <1>5 DEF PastRate
  <2>2. requestRow[IdOf(s)] # None BY <2>1, PastTaken DEF RequestIdTaken
  <2>3. IdOf(s)' = IdOf(s) BY <1>1 DEF IdOf
  <2> QED BY <1>1, <2>1, <2>2, <2>3
<1> HIDE DEF I
<1> QED BY <1>1, <1>2, <1>3, <1>4, <1>5, NobodyNewIf DEF RequestIdTaken

LEMMA StoreRate ==
  ASSUME Inductive, Inductive', RateOK, NEW r \in Request, Store(r)
  PROVE  RateOK'
<1> DEFINE I == IdOf(r)
           row == requestRow[I]
<1>1. /\ I \in RequestId /\ RequestIdTaken(I) /\ response[r] \in Response
      /\ requestRow' = [requestRow EXCEPT ![I] = Answered(row, response[r])]
      /\ pc[r] = "store" /\ pc' = [pc EXCEPT ![r] = "reply"]
      /\ call' = call
  BY StoreEffect
<1>2. /\ TypeOK /\ TypeOK' /\ pc \in [Request -> Location]
      /\ requestRow \in [RequestId -> RequestRow \cup {None}]
      /\ clock \in Int /\ clock' = clock
  BY DEF Inductive, TypeOK, StoreTypeOK, Time, Store, Put
<1>3. row \in RequestRow BY <1>1, <1>2 DEF RequestIdTaken
<1>4. /\ Answered(row, response[r]).task = row.task
      /\ Answered(row, response[r]).created = row.created
  BY <1>3 DEF Answered, RequestRow
<1>5. /\ requestRow'[I] = Answered(row, response[r])
      /\ \A i \in RequestId \ {I} : requestRow'[i] = requestRow[i]
  BY <1>1, <1>2
<1>6. IsFiniteSet(Taken')
  <2>1. Taken' \subseteq Taken BY <1>1, <1>5 DEF Taken, RequestIdTaken
  <2> QED BY <2>1, FS_Subset DEF RateOK
<1>7. \A s \in Request : pc'[s] \in PastRate => pc[s] \in PastRate /\ call'[s] = call[s]
  BY <1>1, <1>2 DEF PastRate
<1>8. pc[r] \in PastRate /\ IdOf(r) = I BY <1>1 DEF PastRate
<1>9. ASSUME NEW i \in RequestId, RequestIdTaken(i)'
      PROVE  /\ RequestIdTaken(i)
             /\ requestRow'[i].task = requestRow[i].task
             /\ requestRow'[i].created = requestRow[i].created
             /\ \/ requestRow'[i].status = requestRow[i].status
                \/ \E s \in Request : pc[s] \in PastRate /\ IdOf(s) = i
  <2>1. CASE i = I BY <2>1, <1>1, <1>4, <1>5, <1>8
  <2>2. CASE i # I
    <3>1. requestRow'[i] = requestRow[i] BY <2>2, <1>5
    <3> QED BY <3>1, <1>9 DEF RequestIdTaken
  <2> QED BY <2>1, <2>2
<1> HIDE DEF I, row
<1> QED BY <1>2, <1>6, <1>7, <1>9, NobodyNewIf

\* The check itself: whoever it lets past was counted, with everyone before.
LEMMA CheckRatePasses ==
  ASSUME Inductive, Inductive', Metering, RateOK, NEW r \in Request, NEW now \in Now,
         Goto(r, "rate", "budget"), AllowRateLimit(TaskFor(r), now),
         UNCHANGED <<clock, requestRow, call>>
  PROVE  RateOK'
<1>1. /\ pc[r] = "rate" /\ pc' = [pc EXCEPT ![r] = "budget"]
      /\ pc \in [Request -> Location]
  BY DEF Goto, Inductive, TypeOK
<1>2. requestRow[IdOf(r)].task = TaskFor(r)
  <2>1. Owns(r) BY <1>1 DEF Owns, Owning
  <2> QED BY <2>1, OwnerNamed
<1>3. Taken' = Taken BY DEF Taken, RequestIdTaken
<1>4. Now' = Now BY DEF Now
<1>5. ASSUME NEW t \in Task, RateLimit[t] > 0
      PROVE  Cardinality(PassedRate(t)') < RateLimit[t]
  <2> DEFINE new == PassedRate(t)'
  <2>1. ASSUME NEW i \in new
        PROVE  i \in RequestId /\ \A time \in Now : i \in RecentRequests(t, time)
    BY <1>4, <2>1 DEF PassedRate, RecentRequests
  <2>2. RateLimit[t] \in Int BY StoreAssumption
  <2>3. CASE t = TaskFor(r)
    <3>1. Cardinality(RecentRequests(t, now)) < RateLimit[t]
      BY <2>3, <1>5 DEF AllowRateLimit
    <3>2. RecentRequests(t, now) \subseteq Taken
      BY DEF RecentRequests, Taken, RequestIdTaken
    <3>3. new \in SUBSET RecentRequests(t, now) BY <2>1
    <3> HIDE DEF new
    <3>4. /\ Cardinality(new) \in Nat /\ Cardinality(RecentRequests(t, now)) \in Nat
          /\ Cardinality(new) <= Cardinality(RecentRequests(t, now))
      BY <3>2, <3>3, FewerPassed DEF RateOK
    <3>5. Cardinality(new) < RateLimit[t] BY <2>2, <3>1, <3>4
    <3> QED BY <3>5 DEF new
  <2>4. CASE t # TaskFor(r)
    <3>1. ASSUME NEW i \in new PROVE i \in PassedRate(t)
      <4>1. i \in RequestId /\ requestRow[i].task = t
        BY <2>1, ClockIsNow DEF RecentRequests, Inductive
      <4>2. i # IdOf(r) BY <4>1, <2>4, <1>2
      <4>3. \/ requestRow[i].status # "pending"
            \/ \E s \in Request : pc'[s] \in PastRate /\ IdOf(s) = i
        BY DEF PassedRate, IdOf
      <4>4. ASSUME NEW s \in Request, pc'[s] \in PastRate, IdOf(s) = i
            PROVE  pc[s] \in PastRate
        BY <4>2, <4>4, <1>1
      <4> QED BY <2>1, <4>3, <4>4 DEF PassedRate
    <3> DEFINE old == PassedRate(t)
    <3>2. new \in SUBSET old /\ old \subseteq Taken
      BY <3>1, PassedIsTaken DEF Inductive
    <3>3. Cardinality(old) < RateLimit[t] BY <1>5 DEF RateOK, RateWindowBound
    <3> HIDE DEF new, old
    <3>4. /\ Cardinality(new) \in Nat /\ Cardinality(old) \in Nat
          /\ Cardinality(new) <= Cardinality(old)
      BY <3>2, FewerPassed DEF RateOK
    <3>5. Cardinality(new) < RateLimit[t] BY <2>2, <3>3, <3>4
    <3> QED BY <3>5 DEF new
  <2> QED BY <2>3, <2>4
<1> QED BY <1>3, <1>5 DEF RateOK, RateWindowBound

\* A handler that moves between locations on one side of the check passes nothing.
LEMMA MoveRate ==
  ASSUME TypeOK, TypeOK', RateOK, NEW r \in Request, NEW from, NEW to, Goto(r, from, to),
         to \in PastRate => from \in PastRate /\ call' = call,
         \A s \in Request \ {r} : call'[s] = call[s],
         UNCHANGED <<clock, requestRow>>
  PROVE  RateOK'
<1>1. pc' = [pc EXCEPT ![r] = to] /\ pc[r] = from /\ pc \in [Request -> Location]
      /\ clock \in Int
  BY DEF Goto, TypeOK, StoreTypeOK, Time
<1>2. \A s \in Request : pc'[s] \in PastRate => pc[s] \in PastRate /\ call'[s] = call[s]
  BY <1>1
<1> QED BY <1>1, <1>2, QuietRate

LEMMA FinishRate ==
  ASSUME TypeOK, TypeOK', RateOK, NEW r \in Request, NEW from, NEW code, NEW p,
         Finish(r, from, code, p), UNCHANGED storeVars
  PROVE  RateOK'
<1>1. /\ Goto(r, from, "done") /\ "done" \notin PastRate
      /\ UNCHANGED <<call, clock, requestRow>>
  BY DEF Finish, PastRate, storeVars, tables
<1> QED BY <1>1, MoveRate

LEMMA NextRate == Inductive /\ Inductive' /\ Metering /\ RateOK /\ [Next]_vars => RateOK'
<1> SUFFICES ASSUME Inductive, Inductive', Metering, RateOK, [Next]_vars PROVE RateOK'
  OBVIOUS
<1>0. TypeOK /\ TypeOK' /\ clock \in Int /\ DOMAIN call = Request
  BY DEF Inductive, TypeOK, StoreTypeOK, Time
<1>1. CASE UNCHANGED vars \/ (Tick /\ UNCHANGED handlerVars)
  <2>1. UNCHANGED <<requestRow, pc, call>> /\ clock <= clock'
    BY <1>0, <1>1 DEF vars, storeVars, tables, handlerVars, Tick
  <2> QED BY <1>0, <2>1, QuietRate
<1>2. ASSUME NEW r \in Request, Arrive(r) PROVE RateOK'
  <2>1. /\ Goto(r, "idle", "lookup") /\ "lookup" \notin PastRate
        /\ \A s \in Request \ {r} : call'[s] = call[s]
        /\ UNCHANGED <<clock, requestRow>>
    BY <1>2, <1>0 DEF Arrive, storeVars, tables, PastRate
  <2> QED BY <1>0, <2>1, MoveRate
<1>3. ASSUME NEW r \in Request, NEW from, AnswerFromRow(r, from) PROVE RateOK'
  <2>1. PICK code, p : Finish(r, from, code, p) /\ UNCHANGED storeVars
    BY <1>3 DEF AnswerFromRow
  <2> QED BY <1>0, <2>1, FinishRate
<1>4. ASSUME NEW r \in Request, LookupMiss(r) PROVE RateOK'
  <2>1. /\ Goto(r, "lookup", "claim") /\ "claim" \notin PastRate
        /\ UNCHANGED <<call, clock, requestRow>>
    BY <1>4 DEF LookupMiss, storeVars, tables, PastRate
  <2> QED BY <1>0, <2>1, MoveRate
<1>5. ASSUME NEW r \in Request, CheckRate(r) PROVE RateOK'
  <2>1. CASE /\ \E now \in Now : AllowRateLimit(TaskFor(r), now)
             /\ Goto(r, "rate", "budget") /\ UNCHANGED call
    <3>1. UNCHANGED <<clock, requestRow>> BY <1>5 DEF CheckRate, storeVars, tables
    <3> QED BY <2>1, <3>1, CheckRatePasses
  <2>2. CASE Finish(r, "rate", "RATE_LIMITED", None)
    BY <1>0, <1>5, <2>2, FinishRate DEF CheckRate
  <2> QED BY <1>5, <2>1, <2>2 DEF CheckRate
<1>6. ASSUME NEW r \in Request, NEW from \in {"budget", "call", "usage"},
             NEW to \in {"call", "usage", "store"}, Goto(r, from, to),
             UNCHANGED <<clock, requestRow, call>>
      PROVE  RateOK'
  <2>1. from \in PastRate BY DEF PastRate
  <2> QED BY <1>0, <1>6, <2>1, MoveRate
<1>7. ASSUME NEW r \in Request,
             CheckBudget(r) \/ ProviderReplies(r) \/ ProviderFails(r) \/ RecordUsage(r)
      PROVE  RateOK'
  <2>1. UNCHANGED <<clock, requestRow, call>>
    BY <1>7 DEF CheckBudget, ProviderReplies, ProviderFails, RecordUsage, InsertUsage,
                storeVars, tables
  <2>2. \E from \in {"budget", "call", "usage"}, to \in {"call", "usage", "store"} :
           Goto(r, from, to)
    BY <1>7 DEF CheckBudget, ProviderReplies, ProviderFails, RecordUsage, TryOrEnd
  <2> QED BY <1>6, <2>1, <2>2
<1>8. ASSUME NEW r \in Request, ClaimCollides(r) \/ Reply(r) \/ Abort(r) PROVE RateOK'
  <2>1. PICK from, code, p : Finish(r, from, code, p) /\ UNCHANGED storeVars
    BY <1>8 DEF ClaimCollides, Reply, Abort
  <2> QED BY <1>0, <2>1, FinishRate
<1> QED
  BY <1>1, <1>2, <1>3, <1>4, <1>5, <1>7, <1>8, ClaimKeyRate, StoreRate
  DEF Next, Handle, Lookup, Claim, Terminating

\* claim and allow_rate_limit, two calls with an await between them: no matter
\* how those of different handlers interleave or how far the workers' clocks are
\* apart, of the requests claimed within the window that ends now fewer have got
\* past the limit than it says.  (Of those claimed before it, nothing is said.)
THEOREM RateWindowBoundHolds == Spec => []RateWindowBound
<1>1. RateOK => RateWindowBound BY DEF RateOK
<1> QED BY <1>1, InitRate, NextRate, MeteringHolds, PTL DEF Spec

-----------------------------------------------------------------------------
(***************************************************************************)
(* Stranded keys: a claim that is not settled is its claimant's, who is at  *)
(* work or was lost; where nobody is lost, a key in progress is in hand.    *)
(***************************************************************************)

LEMMA StaysExplained ==
  ASSUME StrandedByLossOnly, keyRow' = keyRow,
         \A s \in Request : Owns(s) \/ Lost(s) => /\ Owns(s)' \/ Lost(s)'
                                                  /\ call'[s] = call[s]
  PROVE  StrandedByLossOnly'
  BY DEF StrandedByLossOnly, Claimed, BodyOf, IdOf

\* A handler that moves takes its claim along, unless it is lost there.
LEMMA MoveExplained ==
  ASSUME Inductive, StrandedByLossOnly, NEW r \in Request, NEW from, NEW to,
         Goto(r, from, to), from # "done",
         from \in Owning => call'[r] = call[r] /\ (to \in Owning \/ Lost(r)'),
         \A s \in Request \ {r} : call'[s] = call[s] /\ answer'[s] = answer[s],
         keyRow' = keyRow
  PROVE  StrandedByLossOnly'
<1>1. pc[r] = from /\ pc' = [pc EXCEPT ![r] = to] /\ pc \in [Request -> Location]
  BY DEF Goto, Inductive, TypeOK
<1>2. ~Lost(r) BY <1>1 DEF Lost, Inductive, LocalsOK
<1>3. ASSUME NEW s \in Request, Owns(s) \/ Lost(s)
      PROVE  (Owns(s)' \/ Lost(s)') /\ call'[s] = call[s]
  <2>1. CASE s = r BY <2>1, <1>1, <1>2, <1>3 DEF Owns
  <2>2. CASE s # r BY <2>2, <1>1, <1>3 DEF Owns, Lost
  <2> QED BY <2>1, <2>2
<1> QED BY <1>3, StaysExplained

LEMMA FinishExplained ==
  ASSUME Inductive, StrandedByLossOnly, NEW r \in Request, NEW from \in Live,
         NEW code \in Code, NEW p \in Response \cup {None}, Finish(r, from, code, p),
         from \in Owning => code \in {"RATE_LIMITED", "INTERNAL_ERROR"}, UNCHANGED storeVars
  PROVE  StrandedByLossOnly'
<1>1. /\ answer \in [Request -> Answer \cup {None}] /\ keyRow' = keyRow
      /\ answer' = [answer EXCEPT ![r] = [code |-> code, response |-> p]]
      /\ Goto(r, from, "done") /\ call' = call
  BY DEF Finish, Inductive, TypeOK, storeVars, tables
<1>2. [code |-> code, response |-> p] # None BY NoneIsNoRecord DEF Answer
<1>3. from # "done" BY DEF Live
<1>4. from \in Owning => Lost(r)'
  <2>1. answer'[r] = [code |-> code, response |-> p] BY <1>1
  <2> QED BY <2>1, <1>2 DEF Lost
<1> QED BY <1>1, <1>3, <1>4, MoveExplained

LEMMA ClaimKeyExplained ==
  ASSUME Inductive, StrandedByLossOnly, NEW r \in Request, ClaimKey(r)
  PROVE  StrandedByLossOnly'
<1>1. /\ pc[r] = "claim" /\ pc' = [pc EXCEPT ![r] = "rate"] /\ UNCHANGED <<call, answer>>
      /\ pc \in [Request -> Location]
      /\ keyRow \in [Key -> KeyRow \cup {None}]
      /\ keyRow' = [keyRow EXCEPT ![KeyFor(r)] =
                       [digest |-> BodyOf(r), request_id |-> IdOf(r), response |-> None]]
  BY DEF ClaimKey, Goto, InsertClaim, KeyFor, Inductive, TypeOK, StoreTypeOK
<1>2. \A s \in Request : /\ BodyOf(s)' = BodyOf(s) /\ IdOf(s)' = IdOf(s)
                         /\ Owns(s) \/ Lost(s) => Owns(s)' \/ Lost(s)'
  BY <1>1 DEF BodyOf, IdOf, Owns, Owning, Lost
<1>3. Owns(r)' BY <1>1 DEF Owns, Owning
<1>4. ASSUME NEW k \in Key, Claimed(k)', keyRow'[k].response = None
      PROVE  \E s \in Request : /\ Owns(s)' \/ Lost(s)'
                                /\ BodyOf(s)' = keyRow'[k].digest
                                /\ IdOf(s)' = keyRow'[k].request_id
  <2>1. CASE k = KeyFor(r) BY <2>1, <1>1, <1>2, <1>3
  <2>2. CASE k # KeyFor(r)
    <3>1. keyRow'[k] = keyRow[k] BY <2>2, <1>1
    <3>2. Claimed(k) /\ keyRow[k].response = None BY <3>1, <1>4 DEF Claimed
    <3> QED BY <3>1, <3>2, <1>2 DEF StrandedByLossOnly
  <2> QED BY <2>1, <2>2
<1> QED BY <1>4 DEF StrandedByLossOnly

LEMMA StoreExplained ==
  ASSUME Inductive, StrandedByLossOnly, NEW r \in Request, Store(r)
  PROVE  StrandedByLossOnly'
<1> DEFINE row == [digest |-> BodyOf(r), request_id |-> IdOf(r), response |-> response[r]]
<1>1. /\ pc[r] = "store" /\ pc' = [pc EXCEPT ![r] = "reply"]
      /\ KeyFor(r) \in Key /\ response[r] \in Response
      /\ keyRow' = [keyRow EXCEPT ![KeyFor(r)] = row]
      /\ call' = call
  BY StoreEffect
<1>2. /\ pc \in [Request -> Location] /\ keyRow \in [Key -> KeyRow \cup {None}]
      /\ answer' = answer
  BY DEF Inductive, TypeOK, StoreTypeOK, Store
<1>3. \A s \in Request : BodyOf(s)' = BodyOf(s) /\ IdOf(s)' = IdOf(s)
  BY <1>1 DEF BodyOf, IdOf
<1>4. \A s \in Request \ {r} : Owns(s) \/ Lost(s) => Owns(s)' \/ Lost(s)'
  BY <1>1, <1>2 DEF Owns, Lost
<1>5. ~Lost(r) BY <1>1 DEF Lost, Inductive, LocalsOK
<1>6. ASSUME NEW k \in Key, Claimed(k)', keyRow'[k].response = None
      PROVE  \E s \in Request : /\ Owns(s)' \/ Lost(s)'
                                /\ BodyOf(s)' = keyRow'[k].digest
                                /\ IdOf(s)' = keyRow'[k].request_id
  <2>1. k # KeyFor(r)
    <3>1. row.response = response[r] /\ response[r] # None BY <1>1, NoneAssumption
    <3> HIDE DEF row
    <3> QED BY <3>1, <1>1, <1>2, <1>6
  <2>2. keyRow'[k] = keyRow[k] BY <2>1, <1>1, <1>2
  <2>3. Claimed(k) /\ keyRow[k].response = None BY <2>2, <1>6 DEF Claimed
  <2>4. PICK s \in Request : /\ Owns(s) \/ Lost(s)
                             /\ BodyOf(s) = keyRow[k].digest
                             /\ IdOf(s) = keyRow[k].request_id
    BY <2>3 DEF StrandedByLossOnly
  <2>5. KeyOf[keyRow[k].digest] = k BY <2>3 DEF Inductive, TablesAgree
  <2>6. s # r BY <2>1, <2>4, <2>5 DEF KeyFor
  <2> QED BY <2>2, <2>4, <2>6, <1>3, <1>4
<1> QED BY <1>6 DEF StrandedByLossOnly

LEMMA NextExplained ==
  ASSUME Inductive, StrandedByLossOnly, [Next]_vars
  PROVE  StrandedByLossOnly'
<1>0. DOMAIN call = Request BY DEF Inductive, TypeOK
<1>1. CASE UNCHANGED vars \/ (Tick /\ UNCHANGED handlerVars)
  <2>1. UNCHANGED <<keyRow, pc, call, answer>>
    BY <1>1 DEF vars, storeVars, tables, handlerVars, Tick
  <2> QED BY <2>1, StaysExplained DEF Owns, Lost
<1>2. ASSUME NEW r \in Request, Arrive(r) PROVE StrandedByLossOnly'
  <2>1. /\ Goto(r, "idle", "lookup") /\ "idle" \notin Owning
        /\ \A s \in Request \ {r} : call'[s] = call[s]
        /\ UNCHANGED <<keyRow, answer>>
    BY <1>2, <1>0 DEF Arrive, storeVars, tables, Owning
  <2> QED BY <2>1, MoveExplained
<1>3. ASSUME NEW r \in Request, LookupMiss(r) PROVE StrandedByLossOnly'
  <2>1. /\ Goto(r, "lookup", "claim") /\ "lookup" \notin Owning
        /\ UNCHANGED <<call, answer, keyRow>>
    BY <1>3 DEF LookupMiss, storeVars, tables, Owning
  <2> QED BY <2>1, MoveExplained
<1>4. ASSUME NEW r \in Request, NEW from \in {"lookup", "claim"}, AnswerFromRow(r, from)
      PROVE  StrandedByLossOnly'
  <2>1. r \in Request /\ pc[r] # "idle" BY <1>4 DEF AnswerFromRow
  <2>2. keyRow[KeyFor(r)].response \in Response \cup {None}
    <3>1. KeyFor(r) \in Key BY <2>1, CallTypes DEF Inductive
    <3> QED BY <3>1, <1>4 DEF AnswerFromRow, Claimed, KeyRow, Inductive, TypeOK, StoreTypeOK
  <2>3. PICK code \in Code, p \in Response \cup {None} :
           Finish(r, from, code, p) /\ UNCHANGED storeVars
    BY <1>4, <2>2 DEF AnswerFromRow, Code
  <2>4. from \in Live /\ from \notin Owning BY DEF Live, Owning
  <2> QED BY <2>3, <2>4, FinishExplained
<1>5. ASSUME NEW r \in Request, CheckRate(r) PROVE StrandedByLossOnly'
  <2>1. CASE Finish(r, "rate", "RATE_LIMITED", None)
    <3>1. UNCHANGED storeVars /\ "rate" \in Live /\ "RATE_LIMITED" \in Code
      BY <1>5 DEF CheckRate, Live, Code
    <3> QED BY <2>1, <3>1, FinishExplained
  <2>2. CASE Goto(r, "rate", "budget") /\ UNCHANGED <<call, answer>>
    <3>1. keyRow' = keyRow /\ "budget" \in Owning
      BY <1>5 DEF CheckRate, storeVars, tables, Owning
    <3> QED BY <2>2, <3>1, MoveExplained
  <2> QED BY <1>5, <2>1, <2>2 DEF CheckRate
<1>6. ASSUME NEW r \in Request,
             CheckBudget(r) \/ ProviderReplies(r) \/ ProviderFails(r) \/ RecordUsage(r)
      PROVE  StrandedByLossOnly'
  <2>1. UNCHANGED <<keyRow, call, answer>>
    BY <1>6 DEF CheckBudget, ProviderReplies, ProviderFails, RecordUsage, InsertUsage,
                storeVars, tables
  <2>2. PICK from \in Owning, to \in Owning : Goto(r, from, to)
    BY <1>6 DEF CheckBudget, ProviderReplies, ProviderFails, RecordUsage, TryOrEnd, Owning
  <2>3. from # "done" BY DEF Owning
  <2> QED BY <2>1, <2>2, <2>3, MoveExplained
<1>7. ASSUME NEW r \in Request, ClaimCollides(r) PROVE StrandedByLossOnly'
  <2>1. /\ Finish(r, "claim", "REQUEST_ID_COLLISION", None) /\ UNCHANGED storeVars
        /\ "claim" \in Live /\ "claim" \notin Owning /\ "REQUEST_ID_COLLISION" \in Code
    BY <1>7 DEF ClaimCollides, Live, Owning, Code
  <2> QED BY <2>1, FinishExplained
<1>8. ASSUME NEW r \in Request, Reply(r) PROVE StrandedByLossOnly'
  <2>1. /\ Finish(r, "reply", "OK", response[r]) /\ UNCHANGED storeVars
        /\ "reply" \in Live /\ "reply" \notin Owning /\ "OK" \in Code
        /\ response[r] \in Response \cup {None}
    BY <1>8 DEF Reply, Live, Owning, Code, Inductive, TypeOK
  <2> QED BY <2>1, FinishExplained
<1>9. ASSUME NEW r \in Request, Abort(r) PROVE StrandedByLossOnly'
  <2>1. PICK from \in Live : Finish(r, from, "INTERNAL_ERROR", None) BY <1>9 DEF Abort
  <2>2. UNCHANGED storeVars /\ "INTERNAL_ERROR" \in Code BY <1>9 DEF Abort, Code
  <2> QED BY <2>1, <2>2, FinishExplained
<1> QED
  BY <1>1, <1>2, <1>3, <1>4, <1>5, <1>6, <1>7, <1>8, <1>9, ClaimKeyExplained, StoreExplained
  DEF Next, Handle, Lookup, Claim, Terminating

\* claim, execute and put: a claimed key without a response has its claimant at
\* work, refused for its rate or dead, for any number of calls and crashes.
THEOREM StrandedByLossOnlyHolds == Spec => []StrandedByLossOnly
<1>1. Init => StrandedByLossOnly BY DEF Init, StoreInit, StrandedByLossOnly, Claimed
<1>2. Inductive /\ StrandedByLossOnly /\ [Next]_vars => StrandedByLossOnly'
  BY NextExplained
<1> QED BY <1>1, <1>2, InductiveHolds, PTL DEF Spec

\* No handler dies, and no task has a rate limit.
NoHandlerLost == MaxAborts = 0 /\ \A t \in Task : RateLimit[t] <= 0

NobodyLost == \A r \in Request : ~Lost(r)

LEMMA NextNobodyLost ==
  ASSUME NoHandlerLost, Inductive, NobodyLost, [Next]_vars
  PROVE  NobodyLost'
<1>0. answer \in [Request -> Answer \cup {None}] /\ aborts \in Nat
  BY DEF Inductive, TypeOK
<1>1. ASSUME answer' = answer PROVE NobodyLost' BY <1>1 DEF NobodyLost, Lost
<1>2. ASSUME NEW r \in Request, NEW from, NEW code, NEW p, Finish(r, from, code, p),
             code \notin {"RATE_LIMITED", "INTERNAL_ERROR"}
      PROVE  NobodyLost'
  <2>1. answer' = [answer EXCEPT ![r] = [code |-> code, response |-> p]]
    BY <1>2 DEF Finish
  <2> QED BY <2>1, <1>0, <1>2 DEF NobodyLost, Lost
<1>3. ASSUME NEW r \in Request, CheckRate(r) PROVE NobodyLost'
  <2>1. pc[r] = "rate" /\ pc[r] # "idle" BY <1>3 DEF CheckRate
  <2>2. TaskFor(r) \in Task BY <2>1, CallTypes DEF Inductive
  <2>3. ~(RateLimit[TaskFor(r)] > 0) BY <2>2, StoreAssumption DEF NoHandlerLost
  <2>4. answer' = answer BY <1>3, <2>3 DEF CheckRate, AllowRateLimit
  <2> QED BY <2>4, <1>1
<1>4. ASSUME NEW r \in Request, NEW from, AnswerFromRow(r, from) PROVE NobodyLost'
  <2>1. PICK code, p : /\ code \in {"IDEMPOTENCY_CONFLICT", "OK", "REQUEST_IN_PROGRESS"}
                       /\ Finish(r, from, code, p)
    BY <1>4 DEF AnswerFromRow
  <2> QED BY <2>1, <1>2
<1>5. ASSUME NEW r \in Request, ClaimCollides(r) \/ Reply(r) PROVE NobodyLost'
  <2>1. PICK code, from, p : /\ code \in {"REQUEST_ID_COLLISION", "OK"}
                             /\ Finish(r, from, code, p)
    BY <1>5 DEF ClaimCollides, Reply
  <2> QED BY <2>1, <1>2
<1>6. ASSUME NEW r \in Request,
             LookupMiss(r) \/ ClaimKey(r) \/ CheckBudget(r) \/ ProviderReplies(r)
               \/ ProviderFails(r) \/ RecordUsage(r) \/ Store(r) \/ Arrive(r)
      PROVE  NobodyLost'
  <2>1. answer' = answer
    BY <1>6 DEF LookupMiss, ClaimKey, CheckBudget, ProviderReplies, ProviderFails,
                RecordUsage, Store, Arrive
  <2> QED BY <2>1, <1>1
<1>7. ASSUME NEW r \in Request PROVE ~Abort(r) BY <1>0 DEF Abort, NoHandlerLost
<1>8. UNCHANGED vars \/ Terminating \/ (Tick /\ UNCHANGED handlerVars) => answer' = answer
  BY DEF Terminating, vars, handlerVars
<1> QED
  BY <1>1, <1>3, <1>4, <1>5, <1>6, <1>7, <1>8 DEF Next, Handle, Lookup, Claim

LEMMA InProgressStep ==
  ASSUME Inductive, StrandedByLossOnly, NobodyLost, [Next]_vars,
         NEW r \in Request, Answers(r, "REQUEST_IN_PROGRESS")
  PROVE  \E s \in Request : Owns(s) /\ KeyFor(s) = KeyFor(r)
<1>1. answer \in [Request -> Answer \cup {None}] BY DEF Inductive, TypeOK
<1>2. PICK s \in Request, code \in Code, p \in Response \cup {None} : Tells(s, code, p)
  <2>1. answer' # answer BY DEF Answers
  <2>2. ~Silent /\ ~(\E s \in Request : ClaimKey(s) \/ Store(s))
    BY <2>1 DEF Silent, ClaimKey, Store
  <2> QED BY <2>1, <2>2, StepKinds
<1>3. s = r /\ code = "REQUEST_IN_PROGRESS"
  BY <1>1, <1>2 DEF Answers, Tells
<1>4. /\ KeyFor(r) \in Key /\ Claimed(KeyFor(r)) /\ SameDigest(r)
      /\ keyRow[KeyFor(r)].response = None
  BY <1>2, <1>3, CallTypes DEF Tells, Inductive
<1> QED BY <1>4 DEF StrandedByLossOnly, NobodyLost, SameDigest, KeyFor

\* claim, execute and put: "Request is already in progress" is the truth where
\* no handler dies and no call is refused for its rate, the two ways a key is
\* left claimed with nobody working for it.
THEOREM InProgressIsTrueHolds ==
  ASSUME NoHandlerLost
  PROVE  Spec => InProgressIsTrue
<1>1. Init => NobodyLost BY DEF Init, NobodyLost, Lost
<1>2. Inductive /\ NobodyLost /\ [Next]_vars => NobodyLost' BY NextNobodyLost
<1>3. Inductive /\ StrandedByLossOnly /\ NobodyLost /\ [Next]_vars =>
        [\A r \in Request : Answers(r, "REQUEST_IN_PROGRESS") =>
            \E s \in Request : Owns(s) /\ KeyFor(s) = KeyFor(r)]_vars
  BY InProgressStep
<1> QED
  BY <1>1, <1>2, <1>3, StrandedByLossOnlyHolds, InductiveHolds, PTL DEF Spec, InProgressIsTrue
=============================================================================
