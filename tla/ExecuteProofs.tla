----------------------------- MODULE ExecuteProofs -----------------------------
(***************************************************************************)
(* Proofs about the handler over PostgreSQL, for any number of calls, keys, *)
(* bodies, models and crashes, any budget, rate limit and clock.            *)
(***************************************************************************)
EXTENDS ExecuteProperties, TLAPS

-----------------------------------------------------------------------------
(* Types and local variables *)

LEMMA InitTypes == Init => TypeOK /\ LocalsOK
  BY StoreAssumption, ExecuteAssumption
  DEF Init, StoreInit, TypeOK, StoreTypeOK, LocalsOK, Time, Location, Live

\* What the functions of a call return when the call has arrived.
LEMMA CallTypes ==
  ASSUME TypeOK, LocalsOK, NEW r \in Request, pc[r] # "idle"
  PROVE  /\ call[r] \in [body : Body, id : RequestId]
         /\ BodyOf(r) \in Body
         /\ IdOf(r) \in RequestId
         /\ KeyFor(r) \in Key
         /\ TaskFor(r) \in Task
         /\ ModelsFor(r) \in Seq(Model)
  BY StoreAssumption, ExecuteAssumption
  DEF TypeOK, LocalsOK, BodyOf, IdOf, KeyFor, TaskFor, ModelsFor

LEMMA FinishTypes ==
  ASSUME TypeOK, LocalsOK, NEW r \in Request, NEW from \in Live,
         NEW code \in Code, NEW p \in Response \cup {None},
         Finish(r, from, code, p), UNCHANGED storeVars, aborts' \in Nat
  PROVE  TypeOK' /\ LocalsOK'
<1>1. TypeOK'
  BY DEF TypeOK, StoreTypeOK, Finish, Goto, Location, Answer, storeVars, tables, Time
<1>2. LocalsOK'
  BY DEF TypeOK, StoreTypeOK, LocalsOK, Finish, Goto, Live, ModelsFor, TaskFor, BodyOf, IdOf
<1> QED BY <1>1, <1>2

LEMMA BuildType ==
  ASSUME TypeOK, LocalsOK, NEW r \in Request, pc[r] # "idle",
         NEW status \in TerminalStatus, NEW output \in Output \cup {None},
         NEW model \in Model \cup {None}
  PROVE  /\ Build(r, status, output, model) \in Response
         /\ Build(r, status, output, model).request_id = IdOf(r)
  BY CallTypes DEF Build, Response

LEMMA TryOrEndTypes ==
  ASSUME TypeOK, LocalsOK, NEW r \in Request, NEW from \in Live,
         NEW n \in Nat \ {0}, NEW status \in TerminalStatus,
         NEW output \in Output \cup {None},
         TryOrEnd(r, from, n, status, output),
         UNCHANGED <<call, answer, aborts>>, StoreTypeOK',
         result' \in [Request -> [output : Output, cost : Cost] \cup {None}],
         \A s \in Request \ {r} : result'[s] = result[s]
  PROVE  TypeOK' /\ LocalsOK'
<1>1. ModelsFor(r) \in Seq(Model) /\ Build(r, status, output, None) \in Response
      /\ Build(r, status, output, None).request_id = IdOf(r)
  <2>1. pc[r] # "idle" BY DEF TryOrEnd, Goto, Live
  <2>2. ModelsFor(r) \in Seq(Model) BY <2>1, CallTypes
  <2>3. None \in Model \cup {None} OBVIOUS
  <2> QED BY <2>1, <2>2, <2>3, BuildType
<1>2. CASE /\ n <= Len(ModelsFor(r))
           /\ Goto(r, from, "call")
           /\ attempt' = [attempt EXCEPT ![r] = n]
           /\ UNCHANGED response
  <2>1. TypeOK' BY <1>2 DEF TypeOK, Goto, Location, Live
  <2>2. LocalsOK'
    BY <1>1, <1>2 DEF TypeOK, LocalsOK, Goto, Live, ModelsFor, TaskFor, BodyOf, IdOf
  <2> QED BY <2>1, <2>2
<1>3. CASE /\ n > Len(ModelsFor(r))
           /\ Goto(r, from, "store")
           /\ response' = [response EXCEPT ![r] = Build(r, status, output, None)]
           /\ UNCHANGED attempt
  <2>1. TypeOK' BY <1>1, <1>3 DEF TypeOK, Goto, Location, Live
  <2>2. LocalsOK'
    BY <1>1, <1>3, NoneAssumption
    DEF TypeOK, LocalsOK, Goto, Live, ModelsFor, TaskFor, BodyOf, IdOf
  <2> QED BY <2>1, <2>2
<1> QED BY <1>2, <1>3 DEF TryOrEnd

\* A step that only moves a handler on, to a location without locals to check.
LEMMA MoveTypes ==
  ASSUME TypeOK, LocalsOK, NEW r \in Request, NEW from \in Live,
         NEW to \in {"claim", "rate", "budget"},
         Goto(r, from, to), StoreTypeOK',
         UNCHANGED <<call, attempt, result, response, answer, aborts>>
  PROVE  TypeOK' /\ LocalsOK'
<1>1. TypeOK' BY DEF TypeOK, Goto, Location, Live
<1>2. LocalsOK'
  BY DEF TypeOK, LocalsOK, Goto, Live, ModelsFor, TaskFor, BodyOf, IdOf
<1> QED BY <1>1, <1>2

LEMMA InsertClaimTypes ==
  ASSUME StoreTypeOK, NEW b \in Body, NEW i \in RequestId, InsertClaim(b, i)
  PROVE  StoreTypeOK'
  BY StoreAssumption
  DEF StoreTypeOK, InsertClaim, Now, KeyRow, RequestRow, TerminalStatus, Time

LEMMA PutTypes ==
  ASSUME StoreTypeOK, NEW k \in Key, NEW p \in Response, Put(k, p)
  PROVE  StoreTypeOK'
<1>1. CASE ~Claimed(k)
  BY <1>1 DEF StoreTypeOK, Put, Time
<1>2. CASE Claimed(k)
  <2>1. keyRow[k] \in KeyRow /\ keyRow[k].request_id \in RequestId
    BY <1>2 DEF StoreTypeOK, Claimed, KeyRow
  <2>2. keyRow' \in [Key -> KeyRow \cup {None}]
    BY <1>2, <2>1 DEF StoreTypeOK, Put, KeyRow
  <2>3. ASSUME NEW row \in RequestRow PROVE Answered(row, p) \in RequestRow
    BY DEF Answered, RequestRow, Response
  <2>4. requestRow' \in [RequestId -> RequestRow \cup {None}]
    BY <1>2, <2>1, <2>3 DEF StoreTypeOK, Put, RequestIdTaken
  <2> QED BY <1>2, <2>2, <2>4 DEF StoreTypeOK, Put, Time
<1> QED BY <1>1, <1>2

LEMMA InsertUsageTypes ==
  ASSUME StoreTypeOK, NEW row \in UsageRow, InsertUsage(row)
  PROVE  StoreTypeOK'
<1>1. PICK today \in TodayFrom(row.created) :
         /\ usage' = usage \cup {row}
         /\ spent' = [spent EXCEPT ![row.task][today] = @ + row.cost]
         /\ UNCHANGED <<clock, keyRow, requestRow>>
  BY DEF InsertUsage
<1>2. today \in Day BY StoreAssumption DEF TodayFrom, Now
<1>3. row.task \in Task /\ row.cost \in Nat BY DEF UsageRow
<1>4. spent \in [Task -> [Day -> Nat]] BY DEF StoreTypeOK
<1>5. spent' \in [Task -> [Day -> Nat]] BY <1>1, <1>2, <1>3, <1>4
<1> QED BY <1>1, <1>5 DEF StoreTypeOK, Time

LEMMA AbsentStoreTypes ==
  ASSUME StoreTypeOK, UNCHANGED storeVars
  PROVE  StoreTypeOK'
  BY DEF StoreTypeOK, storeVars, tables, Time

LEMMA AnswerFromRowTypes ==
  ASSUME TypeOK, LocalsOK, NEW r \in Request, NEW from \in {"lookup", "claim"},
         AnswerFromRow(r, from)
  PROVE  TypeOK' /\ LocalsOK'
<1> DEFINE row == keyRow[KeyFor(r)]
<1>1. from \in Live /\ UNCHANGED storeVars /\ aborts' \in Nat
  BY DEF AnswerFromRow, Live, TypeOK
<1>2. KeyFor(r) \in Key BY CallTypes DEF AnswerFromRow
<1>3. row.response \in Response \cup {None}
  BY <1>2 DEF AnswerFromRow, Claimed, TypeOK, StoreTypeOK, KeyRow
<1>4. PICK code \in Code, p \in Response \cup {None} : Finish(r, from, code, p)
  BY <1>3 DEF AnswerFromRow, Code
<1> QED BY <1>1, <1>4, FinishTypes

LEMMA UsageTyped ==
  ASSUME TypeOK, LocalsOK, NEW r \in Request, pc[r] = "usage", NEW now \in Now
  PROVE  UsageOf(r, now) \in UsageRow
<1>1. /\ pc[r] # "idle" /\ result[r] \in [output : Output, cost : Cost]
      /\ attempt[r] \in 1 .. Len(ModelsFor(r))
  BY DEF TypeOK, LocalsOK
<1>2. TaskFor(r) \in Task /\ IdOf(r) \in RequestId /\ ModelsFor(r) \in Seq(Model)
  BY <1>1, CallTypes
<1>3. ModelsFor(r)[attempt[r]] \in Model /\ attempt[r] \in Nat \ {0} BY <1>1, <1>2
<1>4. CostOf(result[r].cost) \in Nat BY <1>1, ExecuteAssumption DEF CostOf
<1>5. now \in Time BY DEF Now
<1> QED BY <1>2, <1>3, <1>4, <1>5 DEF UsageOf, UsageRow

LEMMA RecordUsageTypes ==
  ASSUME TypeOK, LocalsOK, NEW r \in Request, RecordUsage(r)
  PROVE  TypeOK' /\ LocalsOK'
<1> DEFINE output == Normalize[TaskFor(r)][result[r].output]
<1>1. /\ pc[r] = "usage" /\ pc[r] # "idle" /\ "usage" \in Live
      /\ result[r] \in [output : Output, cost : Cost]
      /\ attempt[r] \in 1 .. Len(ModelsFor(r))
  BY DEF RecordUsage, Live, TypeOK, LocalsOK
<1>2. TaskFor(r) \in Task /\ IdOf(r) \in RequestId /\ ModelsFor(r) \in Seq(Model)
  BY <1>1, CallTypes
<1>3. ModelsFor(r)[attempt[r]] \in Model BY <1>1, <1>2
<1>4. output \in Output BY <1>1, <1>2, ExecuteAssumption
<1>5. PICK now \in Now : InsertUsage(UsageOf(r, now)) BY DEF RecordUsage
<1>6. StoreTypeOK' BY <1>1, <1>5, UsageTyped, InsertUsageTypes DEF TypeOK
<1>7. /\ result' \in [Request -> [output : Output, cost : Cost] \cup {None}]
       /\ \A s \in Request \ {r} : result'[s] = result[s]
  BY DEF RecordUsage, TypeOK
<1>8. CASE /\ Goto(r, "usage", "store")
            /\ response' = [response EXCEPT ![r] =
                   Build(r, "completed", output, ModelsFor(r)[attempt[r]])]
            /\ UNCHANGED attempt
  <2>1. /\ Build(r, "completed", output, ModelsFor(r)[attempt[r]]) \in Response
        /\ Build(r, "completed", output, ModelsFor(r)[attempt[r]]).request_id = IdOf(r)
    <3>1. /\ "completed" \in TerminalStatus
          /\ output \in Output \cup {None}
          /\ ModelsFor(r)[attempt[r]] \in Model \cup {None}
      BY <1>3, <1>4 DEF TerminalStatus
    <3> QED BY <1>1, <3>1, BuildType, SMTT(30)
  <2> HIDE DEF output
  <2>2. TypeOK' BY <1>6, <1>7, <1>8, <2>1 DEF RecordUsage, TypeOK, Goto, Location, Live
  <2>3. LocalsOK'
    BY <1>7, <1>8, <2>1, NoneAssumption
    DEF RecordUsage, TypeOK, LocalsOK, Goto, Live, ModelsFor, TaskFor, BodyOf, IdOf
  <2> QED BY <2>2, <2>3
<1>9. CASE TryOrEnd(r, "usage", attempt[r] + 1, "review", output)
  <2>1. /\ "review" \in TerminalStatus
        /\ output \in Output \cup {None}
        /\ attempt[r] + 1 \in Nat \ {0}
        /\ UNCHANGED <<call, answer, aborts>>
    BY <1>1, <1>4 DEF TerminalStatus, RecordUsage
  <2> HIDE DEF output
  <2> QED BY <1>1, <1>6, <1>7, <1>9, <2>1, TryOrEndTypes
<1> QED BY <1>8, <1>9 DEF RecordUsage

LEMMA CheckBudgetTypes ==
  ASSUME TypeOK, LocalsOK, NEW r \in Request, CheckBudget(r)
  PROVE  TypeOK' /\ LocalsOK'
<1>1. /\ pc[r] # "idle" /\ "budget" \in Live
      /\ UNCHANGED <<storeVars, call, result, answer, aborts>>
  BY DEF CheckBudget, Live
<1>2. StoreTypeOK' BY <1>1, AbsentStoreTypes DEF TypeOK
<1>3. CASE /\ Goto(r, "budget", "store")
           /\ response' = [response EXCEPT ![r] = Build(r, "budget_exhausted", None, None)]
           /\ UNCHANGED attempt
  <2>1. /\ Build(r, "budget_exhausted", None, None) \in Response
        /\ Build(r, "budget_exhausted", None, None).request_id = IdOf(r)
    <3>1. "budget_exhausted" \in TerminalStatus BY DEF TerminalStatus
    <3> QED BY <1>1, <3>1, BuildType
  <2>2. TypeOK' BY <1>1, <1>2, <1>3, <2>1 DEF TypeOK, Goto, Location, Live
  <2>3. LocalsOK'
    BY <1>1, <1>3, <2>1, NoneAssumption
    DEF TypeOK, LocalsOK, Goto, Live, ModelsFor, TaskFor, BodyOf, IdOf
  <2> QED BY <2>2, <2>3
<1>4. CASE TryOrEnd(r, "budget", 1, "provider_unavailable", None)
  <2>1. /\ "provider_unavailable" \in TerminalStatus
        /\ None \in Output \cup {None}
        /\ 1 \in Nat \ {0}
        /\ result' \in [Request -> [output : Output, cost : Cost] \cup {None}]
        /\ \A s \in Request \ {r} : result'[s] = result[s]
    BY <1>1 DEF TerminalStatus, TypeOK
  <2> QED BY <1>1, <1>2, <1>4, <2>1, TryOrEndTypes
<1> QED BY <1>3, <1>4 DEF CheckBudget

LEMMA ProviderFailsTypes ==
  ASSUME TypeOK, LocalsOK, NEW r \in Request, ProviderFails(r)
  PROVE  TypeOK' /\ LocalsOK'
<1>1. /\ "call" \in Live /\ "provider_unavailable" \in TerminalStatus
      /\ None \in Output \cup {None}
      /\ attempt[r] + 1 \in Nat \ {0}
      /\ UNCHANGED <<storeVars, call, answer, aborts>>
      /\ result' \in [Request -> [output : Output, cost : Cost] \cup {None}]
      /\ \A s \in Request \ {r} : result'[s] = result[s]
  BY DEF ProviderFails, Live, TerminalStatus, TypeOK
<1>2. StoreTypeOK' BY <1>1, AbsentStoreTypes DEF TypeOK
<1> QED BY <1>1, <1>2, TryOrEndTypes DEF ProviderFails

LEMMA NextTypes == TypeOK /\ LocalsOK /\ [Next]_vars => TypeOK' /\ LocalsOK'
<1> SUFFICES ASSUME TypeOK, LocalsOK, [Next]_vars PROVE TypeOK' /\ LocalsOK'
  OBVIOUS
<1>1. CASE UNCHANGED vars
  BY <1>1 DEF vars, storeVars, tables, handlerVars, TypeOK, StoreTypeOK, Time, LocalsOK,
              ModelsFor, TaskFor, BodyOf, IdOf
<1>2. ASSUME NEW r \in Request, Arrive(r) PROVE TypeOK' /\ LocalsOK'
  <2>1. PICK b \in Body, i \in ClientId \cup {r} :
           /\ Goto(r, "idle", "lookup")
           /\ call' = [call EXCEPT ![r] = [body |-> b, id |-> i]]
           /\ UNCHANGED <<storeVars, attempt, result, response, answer, aborts>>
    BY <1>2 DEF Arrive
  <2>2. i \in RequestId BY ExecuteAssumption
  <2>3. StoreTypeOK' BY <2>1, AbsentStoreTypes DEF TypeOK
  <2>4. TypeOK' BY <2>1, <2>2, <2>3 DEF TypeOK, Goto, Location, Live
  <2>5. call'[r] # None BY <2>1, <2>2, NoneIsNoRecord DEF TypeOK
  <2>6. LocalsOK'
    BY <2>1, <2>5 DEF TypeOK, LocalsOK, Goto, ModelsFor, TaskFor, BodyOf, IdOf
  <2> QED BY <2>4, <2>6
<1>3. ASSUME NEW r \in Request, Lookup(r) PROVE TypeOK' /\ LocalsOK'
  <2>1. CASE AnswerFromRow(r, "lookup") BY <2>1, AnswerFromRowTypes
  <2>2. CASE LookupMiss(r)
    BY <2>2, MoveTypes, AbsentStoreTypes DEF LookupMiss, TypeOK, Live
  <2> QED BY <1>3, <2>1, <2>2 DEF Lookup
<1>4. ASSUME NEW r \in Request, Claim(r) PROVE TypeOK' /\ LocalsOK'
  <2>1. CASE AnswerFromRow(r, "claim") BY <2>1, AnswerFromRowTypes
  <2>2. CASE ClaimKey(r)
    <3>1. /\ pc[r] # "idle" /\ "claim" \in Live
          /\ UNCHANGED <<call, attempt, result, response, answer, aborts>>
      BY <2>2 DEF ClaimKey, Goto, Live
    <3>2. StoreTypeOK'
      BY <2>2, <3>1, CallTypes, InsertClaimTypes DEF ClaimKey, TypeOK
    <3> QED BY <2>2, <3>1, <3>2, MoveTypes DEF ClaimKey
  <2>3. CASE ClaimCollides(r)
    BY <2>3, FinishTypes DEF ClaimCollides, Live, Code, TypeOK
  <2> QED BY <1>4, <2>1, <2>2, <2>3 DEF Claim
<1>5. ASSUME NEW r \in Request, CheckRate(r) PROVE TypeOK' /\ LocalsOK'
  <2>1. CASE Goto(r, "rate", "budget") /\ UNCHANGED <<call, attempt, result, response, answer>>
    BY <1>5, <2>1, MoveTypes, AbsentStoreTypes DEF CheckRate, TypeOK, Live
  <2>2. CASE Finish(r, "rate", "RATE_LIMITED", None)
    BY <1>5, <2>2, FinishTypes DEF CheckRate, Live, Code, TypeOK
  <2> QED BY <1>5, <2>1, <2>2 DEF CheckRate
<1>6. ASSUME NEW r \in Request, ProviderReplies(r) PROVE TypeOK' /\ LocalsOK'
  <2>1. PICK o \in Output, c \in Cost :
           /\ Goto(r, "call", "usage")
           /\ result' = [result EXCEPT ![r] = [output |-> o, cost |-> c]]
           /\ UNCHANGED <<storeVars, call, attempt, response, answer, aborts>>
    BY <1>6 DEF ProviderReplies
  <2>2. StoreTypeOK' BY <2>1, AbsentStoreTypes DEF TypeOK
  <2>3. TypeOK' BY <2>1, <2>2 DEF TypeOK, Goto, Location, Live
  <2>4. result'[r] # None BY <2>1, NoneIsNoRecord DEF TypeOK
  <2>5. LocalsOK'
    BY <2>1, <2>4 DEF TypeOK, LocalsOK, Goto, ModelsFor, TaskFor, BodyOf, IdOf
  <2> QED BY <2>3, <2>5
<1>7. ASSUME NEW r \in Request, Store(r) PROVE TypeOK' /\ LocalsOK'
  <2>1. /\ pc[r] # "idle" /\ response[r] \in Response
        /\ UNCHANGED <<call, attempt, result, response, answer, aborts>>
    BY <1>7 DEF Store, Goto, TypeOK, LocalsOK
  <2>2. StoreTypeOK' BY <1>7, <2>1, CallTypes, PutTypes DEF Store, TypeOK
  <2>3. TypeOK' BY <1>7, <2>1, <2>2 DEF Store, TypeOK, Goto, Location, Live
  <2>4. LocalsOK'
    BY <1>7, <2>1 DEF Store, TypeOK, LocalsOK, Goto, ModelsFor, TaskFor, BodyOf, IdOf
  <2> QED BY <2>3, <2>4
<1>8. ASSUME NEW r \in Request, Reply(r) PROVE TypeOK' /\ LocalsOK'
  <2>1. response[r] \in Response \cup {None} /\ aborts' \in Nat
    BY <1>8 DEF Reply, TypeOK
  <2> QED BY <1>8, <2>1, FinishTypes DEF Reply, Live, Code
<1>9. ASSUME NEW r \in Request, Abort(r) PROVE TypeOK' /\ LocalsOK'
  <2>1. PICK from \in Live : Finish(r, from, "INTERNAL_ERROR", None)
    BY <1>9 DEF Abort
  <2>2. aborts' \in Nat /\ "INTERNAL_ERROR" \in Code BY <1>9 DEF Abort, TypeOK, Code
  <2> QED BY <1>9, <2>1, <2>2, FinishTypes DEF Abort
<1>10. CASE Tick /\ UNCHANGED handlerVars
  <2>1. StoreTypeOK' BY <1>10, StoreAssumption DEF Tick, tables, TypeOK, StoreTypeOK, Time
  <2> QED BY <1>10, <2>1 DEF handlerVars, TypeOK, LocalsOK, ModelsFor, TaskFor, BodyOf, IdOf
<1> QED
  BY <1>1, <1>2, <1>3, <1>4, <1>5, <1>6, <1>7, <1>8, <1>9, <1>10,
     CheckBudgetTypes, ProviderFailsTypes, RecordUsageTypes
  DEF Next, Handle, Terminating

\* Every variable keeps its type, and every local variable the handler's code
\* reads has been assigned.
THEOREM TypeCorrect == Spec => [](TypeOK /\ LocalsOK)
  BY InitTypes, NextTypes, PTL DEF Spec

-----------------------------------------------------------------------------
(* Ownership, the tables and the answers *)

LEMMA InitInductive == Init => Inductive
  BY InitTypes
  DEF Init, StoreInit, Inductive, SingleOwner, Owns, Owning, StoredBeforeReply,
      TablesAgree, Claimed, ReplayFaithful

\* A step that changes no row keeps the invariant if no handler becomes an owner
\* or comes to reply, and a result that is told is the one in the row.
LEMMA RowsKept ==
  ASSUME Inductive, TypeOK', LocalsOK', UNCHANGED <<keyRow, requestRow>>,
         \A s \in Request :
            /\ Owns(s)' => Owns(s) /\ call'[s] = call[s]
            /\ pc'[s] = "reply" =>
                  pc[s] = "reply" /\ call'[s] = call[s] /\ response'[s] = response[s]
            /\ \/ answer[s] # None /\ answer'[s] = answer[s] /\ call'[s] = call[s]
               \/ answer'[s] = None
               \/ answer'[s] # None /\ answer'[s].code # "OK"
               \/ /\ call'[s] = call[s]
                  /\ Claimed(KeyFor(s))
                  /\ SameDigest(s)
                  /\ keyRow[KeyFor(s)].response = answer'[s].response
                  /\ answer'[s].response # None
  PROVE  Inductive'
<1>1. SingleOwner'
  BY DEF Inductive, SingleOwner, Owns, KeyFor, BodyOf, IdOf
<1>2. StoredBeforeReply'
  BY DEF Inductive, StoredBeforeReply, KeyFor, BodyOf, IdOf
<1>3. TablesAgree'
  BY DEF Inductive, TablesAgree, Claimed, RequestIdTaken
<1>4. ReplayFaithful'
  BY DEF Inductive, ReplayFaithful, Claimed, SameDigest, KeyFor, BodyOf
<1> QED BY <1>1, <1>2, <1>3, <1>4 DEF Inductive

\* A handler returns, with a result that is the one in its key's row.
LEMMA FinishKeeps ==
  ASSUME Inductive, TypeOK', LocalsOK', NEW r \in Request, NEW from \in Live,
         NEW code \in Code, NEW p \in Response \cup {None},
         Finish(r, from, code, p), UNCHANGED storeVars,
         code = "OK" => /\ Claimed(KeyFor(r))
                        /\ SameDigest(r)
                        /\ keyRow[KeyFor(r)].response = p
                        /\ p # None
  PROVE  Inductive'
<1>1. UNCHANGED <<keyRow, requestRow, call>> BY DEF Finish, storeVars, tables
<1>2. /\ pc' = [pc EXCEPT ![r] = "done"]
      /\ answer' = [answer EXCEPT ![r] = [code |-> code, response |-> p]]
      /\ response' = [response EXCEPT ![r] = None]
      /\ pc \in [Request -> Location]
      /\ answer \in [Request -> Answer \cup {None}]
      /\ response \in [Request -> Response \cup {None}]
  BY DEF Finish, Goto, Inductive, TypeOK
<1>3. ASSUME NEW s \in Request
      PROVE  /\ Owns(s)' => Owns(s)
             /\ pc'[s] = "reply" => pc[s] = "reply" /\ response'[s] = response[s]
  BY <1>2 DEF Owns, Owning
<1>4. answer'[r] = [code |-> code, response |-> p] /\ answer'[r] # None
  <2>1. [code |-> code, response |-> p] \in Answer BY DEF Answer
  <2> QED BY <1>2, <2>1, NoneIsNoRecord
<1>5. ASSUME NEW s \in Request \ {r} PROVE answer'[s] = answer[s]
  BY <1>2
<1> QED BY <1>1, <1>3, <1>4, <1>5, RowsKept

LEMMA AnswerFromRowKeeps ==
  ASSUME Inductive, TypeOK', LocalsOK', NEW r \in Request,
         NEW from \in {"lookup", "claim"}, AnswerFromRow(r, from)
  PROVE  Inductive'
<1> DEFINE row == keyRow[KeyFor(r)]
<1>1. from \in Live /\ UNCHANGED storeVars BY DEF AnswerFromRow, Live
<1>2. KeyFor(r) \in Key BY CallTypes DEF AnswerFromRow, Inductive
<1>3. row.response \in Response \cup {None}
  BY <1>2 DEF AnswerFromRow, Claimed, Inductive, TypeOK, StoreTypeOK, KeyRow
<1>4. PICK code \in Code, p \in Response \cup {None} :
         /\ Finish(r, from, code, p)
         /\ code = "OK" => /\ Claimed(KeyFor(r))
                           /\ SameDigest(r)
                           /\ row.response = p
                           /\ p # None
  BY <1>3 DEF AnswerFromRow, Code
<1> QED BY <1>1, <1>4, FinishKeeps

\* A handler moves on between two locations without touching a row: it must own
\* its key already if it owns it afterwards.
LEMMA MoveKeeps ==
  ASSUME Inductive, TypeOK', LocalsOK', NEW r \in Request,
         NEW from \in Location, NEW to \in Location \ {"reply"},
         Goto(r, from, to), to \in Owning => from \in Owning,
         UNCHANGED <<keyRow, requestRow, call, answer>>,
         \A s \in Request \ {r} : response'[s] = response[s]
  PROVE  Inductive'
<1>1. pc' = [pc EXCEPT ![r] = to] /\ pc[r] = from /\ pc \in [Request -> Location]
  BY DEF Goto, Inductive, TypeOK
<1>2. ASSUME NEW s \in Request
      PROVE  /\ Owns(s)' => Owns(s)
             /\ pc'[s] = "reply" => pc[s] = "reply" /\ response'[s] = response[s]
  BY <1>1 DEF Owns
<1> QED BY <1>2, RowsKept

LEMMA TryOrEndKeeps ==
  ASSUME Inductive, TypeOK', LocalsOK', NEW r \in Request, NEW from \in Owning,
         NEW n, NEW status, NEW output, TryOrEnd(r, from, n, status, output),
         UNCHANGED <<keyRow, requestRow, call, answer>>
  PROVE  Inductive'
<1>1. /\ from \in Location
      /\ {"call", "store"} \subseteq Location \ {"reply"}
      /\ response \in [Request -> Response \cup {None}]
  BY DEF Owning, Location, Live, Inductive, TypeOK
<1>2. CASE Goto(r, from, "call") /\ UNCHANGED response
  BY <1>1, <1>2, MoveKeeps
<1>3. CASE /\ Goto(r, from, "store")
           /\ response' = [response EXCEPT ![r] = Build(r, status, output, None)]
  <2>1. \A s \in Request \ {r} : response'[s] = response[s] BY <1>1, <1>3
  <2> QED BY <1>1, <1>3, <2>1, MoveKeeps
<1> QED BY <1>2, <1>3 DEF TryOrEnd

\* The two steps that write rows.  A claim writes at a key and a request id that
\* nobody's row, claim or answer depends on yet.
LEMMA ClaimKeyKeeps ==
  ASSUME Inductive, TypeOK', LocalsOK', NEW r \in Request, ClaimKey(r)
  PROVE  Inductive'
<1> PICK now \in Now :
       requestRow' = [requestRow EXCEPT ![IdOf(r)] =
                         [task |-> TaskFor(r), digest |-> BodyOf(r), created |-> now,
                          status |-> "pending", output |-> None]]
  BY DEF ClaimKey, InsertClaim, TaskFor
<1> DEFINE K == KeyFor(r)
           I == IdOf(r)
           row == [digest |-> BodyOf(r), request_id |-> I, response |-> None]
           req == [task |-> TaskFor(r), digest |-> BodyOf(r), created |-> now,
                   status |-> "pending", output |-> None]
<1>1. /\ K \in Key /\ I \in RequestId /\ BodyOf(r) \in Body /\ KeyOf[BodyOf(r)] = K
      /\ keyRow[K] = None /\ requestRow[I] = None
  BY CallTypes DEF Inductive, ClaimKey, Goto, KeyIsFree, Claimed, RequestIdTaken, KeyFor
<1>2. /\ pc' = [pc EXCEPT ![r] = "rate"]
      /\ keyRow' = [keyRow EXCEPT ![K] = row]
      /\ requestRow' = [requestRow EXCEPT ![I] = req]
      /\ UNCHANGED <<call, attempt, result, response, answer>>
  BY DEF ClaimKey, Goto, InsertClaim, KeyFor, TaskFor
<1>3. /\ pc \in [Request -> Location] /\ pc[r] = "claim"
      /\ keyRow \in [Key -> KeyRow \cup {None}]
      /\ requestRow \in [RequestId -> RequestRow \cup {None}]
      /\ TypeOK /\ LocalsOK
  BY DEF Inductive, TypeOK, StoreTypeOK, ClaimKey, Goto
<1>4. row # None /\ req # None
  <2>1. keyRow'[K] = row /\ requestRow'[I] = req BY <1>1, <1>2, <1>3
  <2>2. row \in KeyRow BY <1>1 DEF KeyRow
  <2>3. TaskFor(r) \in Task /\ now \in Time
    BY <1>3, CallTypes DEF Now
  <2>4. req \in RequestRow BY <1>1, <2>3 DEF RequestRow
  <2> QED BY <2>2, <2>4, NoneAssumption
<1>5. ASSUME NEW k \in Key \ {K} PROVE keyRow'[k] = keyRow[k]
  BY <1>2, <1>3
<1>6. ASSUME NEW k \in Key, Claimed(k)
      PROVE  /\ keyRow'[k] = keyRow[k]
             /\ keyRow[k].request_id \in RequestId
             /\ keyRow[k].request_id # I
             /\ requestRow'[keyRow[k].request_id] = requestRow[keyRow[k].request_id]
  <2>1. k # K BY <1>1, <1>6 DEF Claimed
  <2>2. keyRow[k].request_id \in RequestId BY <1>3, <1>6 DEF Claimed, KeyRow
  <2>3. keyRow[k].request_id # I
    BY <1>1, <1>6 DEF Inductive, TablesAgree, RequestIdTaken
  <2> QED BY <1>2, <1>3, <1>5, <2>1, <2>2, <2>3
<1>7. ASSUME NEW s \in Request, pc[s] # "idle", Claimed(KeyFor(s))
      PROVE  /\ KeyFor(s) \in Key
             /\ KeyFor(s) # K
             /\ keyRow'[KeyFor(s)] = keyRow[KeyFor(s)]
  BY <1>1, <1>3, <1>6, <1>7, CallTypes DEF Claimed
<1>8. ASSUME NEW s \in Request, pc[s] # "idle",
             keyRow[KeyFor(s)].request_id = IdOf(s),
             keyRow[KeyFor(s)].digest = BodyOf(s), Claimed(KeyFor(s))
      PROVE  IdOf(s) # I
  BY <1>6, <1>7, <1>8
<1>9. ASSUME NEW s \in Request, NEW p \in Response \cup {None}, pc[s] # "idle",
             keyRow[KeyFor(s)] =
                [digest |-> BodyOf(s), request_id |-> IdOf(s), response |-> p]
      PROVE  Claimed(KeyFor(s))
  <2>1. [digest |-> BodyOf(s), request_id |-> IdOf(s), response |-> p] \in KeyRow
    BY <1>3, <1>9, CallTypes DEF KeyRow
  <2> QED BY <1>9, <2>1, NoneAssumption DEF Claimed
<1>10. SingleOwner'
  <2>1. ASSUME NEW s \in Request, s # r, Owns(s)
        PROVE  /\ keyRow'[KeyFor(s)] = [digest |-> BodyOf(s), request_id |-> IdOf(s),
                                        response |-> None]
               /\ KeyFor(s) # K /\ IdOf(s) # I
    <3>1. /\ pc[s] # "idle"
          /\ keyRow[KeyFor(s)] = [digest |-> BodyOf(s), request_id |-> IdOf(s),
                                  response |-> None]
      BY <2>1 DEF Inductive, SingleOwner, Owns, Owning
    <3>2. Claimed(KeyFor(s)) BY <3>1, <1>9
    <3> QED BY <3>1, <3>2, <1>7, <1>8
  <2>2. keyRow'[K] = row BY <1>1, <1>2, <1>3
  <2>3. ASSUME NEW s \in Request
        PROVE  /\ KeyFor(s)' = KeyFor(s) /\ IdOf(s)' = IdOf(s) /\ BodyOf(s)' = BodyOf(s)
               /\ s # r => (Owns(s)' <=> Owns(s))
    BY <1>2, <1>3 DEF KeyFor, IdOf, BodyOf, Owns
  <2> HIDE DEF K, I
  <2>4. ASSUME NEW s \in Request, Owns(s)'
        PROVE  keyRow'[KeyFor(s)'] = [digest |-> BodyOf(s)', request_id |-> IdOf(s)',
                                      response |-> None]
    BY <2>1, <2>2, <2>3, <2>4 DEF K, I
  <2>5. ASSUME NEW s \in Request, Owns(s)', NEW u \in Request \ {s}, Owns(u)'
        PROVE  KeyFor(u)' # KeyFor(s)' /\ IdOf(u)' # IdOf(s)'
    <3>1. CASE s = r BY <3>1, <2>1, <2>3, <2>5 DEF K, I
    <3>2. CASE u = r BY <3>2, <2>1, <2>3, <2>5 DEF K, I
    <3>3. CASE s # r /\ u # r
      BY <3>3, <2>3, <2>5 DEF Inductive, SingleOwner
    <3> QED BY <3>1, <3>2, <3>3
  <2> QED BY <2>4, <2>5 DEF SingleOwner
<1>11. StoredBeforeReply'
  <2>1. ASSUME NEW s \in Request, pc'[s] = "reply"
        PROVE  keyRow'[KeyFor(s)] = [digest |-> BodyOf(s), request_id |-> IdOf(s),
                                     response |-> response[s]]
    <3>1. pc[s] = "reply" /\ response[s] \in Response \cup {None}
      BY <2>1, <1>2, <1>3 DEF TypeOK
    <3>2. keyRow[KeyFor(s)] = [digest |-> BodyOf(s), request_id |-> IdOf(s),
                               response |-> response[s]]
      BY <3>1 DEF Inductive, StoredBeforeReply
    <3> QED BY <3>1, <3>2, <1>7, <1>9
  <2> QED BY <2>1, <1>2 DEF StoredBeforeReply, KeyFor, BodyOf, IdOf
<1>12. TablesAgree'
  <2>1. ASSUME NEW k \in Key, k # K, Claimed(k)' PROVE Claimed(k)
    BY <2>1, <1>5 DEF Claimed
  <2>2. keyRow'[K] = row /\ requestRow'[I] = req BY <1>1, <1>2, <1>3
  <2>3. /\ KeyOf[row.digest] = K /\ req.digest = row.digest /\ row.request_id = I
        /\ row.response = None /\ req.status = "pending" /\ req.output = None
    BY <1>1
  <2> HIDE DEF K, I, row, req
  <2>4. ASSUME NEW k \in Key, Claimed(k)'
        PROVE  LET row2 == keyRow'[k]
                   req2 == requestRow'[row2.request_id] IN
               /\ KeyOf[row2.digest] = k
               /\ requestRow'[row2.request_id] # None
               /\ req2.digest = row2.digest
               /\ IF row2.response = None
                    THEN req2.status = "pending" /\ req2.output = None
                    ELSE /\ req2.status = row2.response.status
                         /\ req2.output = row2.response.output
                         /\ row2.response.request_id = row2.request_id
    <3>1. CASE k = K BY <3>1, <2>2, <2>3, <1>4
    <3>2. CASE k # K
      BY <3>2, <2>1, <2>4, <1>6 DEF Inductive, TablesAgree, RequestIdTaken
    <3> QED BY <3>1, <3>2
  <2> QED BY <2>4 DEF TablesAgree, Claimed, RequestIdTaken
<1>13. ReplayFaithful'
  <2>1. ASSUME NEW s \in Request, answer[s] # None, answer[s].code = "OK"
        PROVE  /\ Claimed(KeyFor(s)) /\ SameDigest(s)
               /\ keyRow[KeyFor(s)].response = answer[s].response
               /\ answer[s].response # None
               /\ keyRow'[KeyFor(s)] = keyRow[KeyFor(s)]
    BY <2>1, <1>3, <1>7 DEF Inductive, ReplayFaithful, LocalsOK, SameDigest
  <2> QED BY <2>1, <1>2 DEF ReplayFaithful, Claimed, SameDigest, KeyFor, BodyOf
<1> QED BY <1>10, <1>11, <1>12, <1>13 DEF Inductive

\* What an owner's put writes: its own key's row, and the request row it made.
LEMMA StoreEffect ==
  ASSUME Inductive, NEW r \in Request, Store(r)
  PROVE  /\ KeyFor(r) \in Key /\ IdOf(r) \in RequestId
         /\ Owns(r)
         /\ response[r] \in Response /\ response[r].request_id = IdOf(r)
         /\ Claimed(KeyFor(r)) /\ RequestIdTaken(IdOf(r))
         /\ keyRow[KeyFor(r)] = [digest |-> BodyOf(r), request_id |-> IdOf(r),
                                 response |-> None]
         /\ keyRow' = [keyRow EXCEPT ![KeyFor(r)] =
               [digest |-> BodyOf(r), request_id |-> IdOf(r), response |-> response[r]]]
         /\ requestRow' = [requestRow EXCEPT ![IdOf(r)] =
               Answered(requestRow[IdOf(r)], response[r])]
         /\ pc[r] = "store" /\ pc' = [pc EXCEPT ![r] = "reply"]
         /\ UNCHANGED <<call, attempt, result, response, answer>>
<1>1. /\ pc[r] = "store" /\ pc' = [pc EXCEPT ![r] = "reply"] /\ Owns(r)
      /\ UNCHANGED <<call, attempt, result, response, answer>>
      /\ Put(KeyFor(r), response[r])
      /\ TypeOK /\ LocalsOK
  BY DEF Store, Goto, Owns, Owning, Inductive
<1>2. KeyFor(r) \in Key /\ IdOf(r) \in RequestId /\ BodyOf(r) \in Body
  BY <1>1, CallTypes
<1>3. response[r] \in Response /\ response[r].request_id = IdOf(r)
  BY <1>1 DEF TypeOK, LocalsOK
<1>4. keyRow[KeyFor(r)] = [digest |-> BodyOf(r), request_id |-> IdOf(r), response |-> None]
  BY <1>1 DEF Inductive, SingleOwner
<1>5. Claimed(KeyFor(r))
  <2>1. keyRow[KeyFor(r)] \in KeyRow BY <1>2, <1>4 DEF KeyRow
  <2> QED BY <2>1, NoneAssumption DEF Claimed
<1>6. RequestIdTaken(IdOf(r))
  BY <1>2, <1>4, <1>5 DEF Inductive, TablesAgree
<1>7. keyRow' = [keyRow EXCEPT ![KeyFor(r)] = [@ EXCEPT !.response = response[r]]]
  BY <1>1, <1>5 DEF Put
<1>8. keyRow' = [keyRow EXCEPT ![KeyFor(r)] =
         [digest |-> BodyOf(r), request_id |-> IdOf(r), response |-> response[r]]]
  <2>1. [keyRow[KeyFor(r)] EXCEPT !.response = response[r]] =
           [digest |-> BodyOf(r), request_id |-> IdOf(r), response |-> response[r]]
    BY <1>4
  <2> QED BY <1>7, <2>1
<1>9. requestRow' = [requestRow EXCEPT ![IdOf(r)] =
         Answered(requestRow[IdOf(r)], response[r])]
  BY <1>1, <1>4, <1>5, <1>6 DEF Put
<1> QED BY <1>1, <1>2, <1>3, <1>4, <1>5, <1>6, <1>8, <1>9

LEMMA StoreKeeps ==
  ASSUME Inductive, TypeOK', LocalsOK', NEW r \in Request, Store(r)
  PROVE  Inductive'
<1> DEFINE K == KeyFor(r)
           I == IdOf(r)
           row == [digest |-> BodyOf(r), request_id |-> I, response |-> response[r]]
<1>1. /\ K \in Key /\ I \in RequestId /\ Owns(r)
      /\ response[r] \in Response /\ response[r] # None
      /\ response[r].request_id = I
      /\ Claimed(K) /\ RequestIdTaken(I)
      /\ keyRow[K] = [digest |-> BodyOf(r), request_id |-> I, response |-> None]
      /\ keyRow' = [keyRow EXCEPT ![K] = row]
      /\ requestRow' = [requestRow EXCEPT ![I] = Answered(requestRow[I], response[r])]
      /\ pc[r] = "store" /\ pc' = [pc EXCEPT ![r] = "reply"]
      /\ UNCHANGED <<call, attempt, result, response, answer>>
  BY StoreEffect, NoneAssumption
<1>2. /\ pc \in [Request -> Location] /\ TypeOK /\ LocalsOK
      /\ keyRow \in [Key -> KeyRow \cup {None}]
      /\ requestRow \in [RequestId -> RequestRow \cup {None}]
  BY DEF Inductive, TypeOK, StoreTypeOK
<1>3. /\ keyRow'[K] = row
      /\ \A k \in Key \ {K} : keyRow'[k] = keyRow[k]
      /\ \A i \in RequestId \ {I} : requestRow'[i] = requestRow[i]
      /\ requestRow'[I] = Answered(requestRow[I], response[r])
  BY <1>1, <1>2
<1>4. ASSUME NEW s \in Request
      PROVE  /\ KeyFor(s)' = KeyFor(s) /\ IdOf(s)' = IdOf(s) /\ BodyOf(s)' = BodyOf(s)
             /\ s # r => pc'[s] = pc[s] /\ (Owns(s)' <=> Owns(s))
  BY <1>1, <1>2 DEF KeyFor, IdOf, BodyOf, Owns
<1>5. ~Owns(r)' /\ pc'[r] = "reply" BY <1>1, <1>2 DEF Owns, Owning
<1> HIDE DEF K, I, row
<1>6. ASSUME NEW s \in Request, pc[s] # "idle" PROVE KeyFor(s) \in Key
  BY <1>2, <1>6, CallTypes
<1>7. SingleOwner'
  <2>1. ASSUME NEW s \in Request, Owns(s)'
        PROVE  /\ s # r /\ Owns(s) /\ KeyFor(s) # K /\ KeyFor(s) \in Key
    <3>1. s # r /\ Owns(s) BY <2>1, <1>4, <1>5
    <3>2. KeyFor(s) # K BY <3>1, <1>1 DEF Inductive, SingleOwner, K
    <3>3. pc[s] # "idle" BY <3>1 DEF Owns, Owning
    <3> QED BY <3>1, <3>2, <3>3, <1>6
  <2>2. ASSUME NEW s \in Request, Owns(s)'
        PROVE  keyRow'[KeyFor(s)'] = [digest |-> BodyOf(s)', request_id |-> IdOf(s)',
                                      response |-> None]
    BY <2>1, <2>2, <1>3, <1>4 DEF Inductive, SingleOwner
  <2>3. ASSUME NEW s \in Request, Owns(s)', NEW u \in Request \ {s}, Owns(u)'
        PROVE  KeyFor(u)' # KeyFor(s)' /\ IdOf(u)' # IdOf(s)'
    BY <2>1, <2>3, <1>4 DEF Inductive, SingleOwner
  <2> QED BY <2>2, <2>3 DEF SingleOwner
<1>8. StoredBeforeReply'
  <2>1. ASSUME NEW s \in Request, pc'[s] = "reply"
        PROVE  keyRow'[KeyFor(s)] = [digest |-> BodyOf(s), request_id |-> IdOf(s),
                                     response |-> response[s]]
    <3>1. CASE s = r BY <3>1, <1>3 DEF K, I, row
    <3>2. CASE s # r
      <4>1. pc[s] = "reply" BY <2>1, <3>2, <1>4
      <4>2. keyRow[KeyFor(s)] = [digest |-> BodyOf(s), request_id |-> IdOf(s),
                                 response |-> response[s]]
        BY <4>1 DEF Inductive, StoredBeforeReply
      <4>3. response[s] # None BY <4>1, <1>2 DEF LocalsOK
      <4>4. KeyFor(s) # K BY <4>2, <4>3, <1>1
      <4>5. KeyFor(s) \in Key BY <4>1, <1>6
      <4> QED BY <4>2, <4>4, <4>5, <1>3
    <3> QED BY <3>1, <3>2
  <2> QED BY <2>1, <1>1, <1>4 DEF StoredBeforeReply
<1>9. TablesAgree'
  <2>1. ASSUME NEW k \in Key, Claimed(k)'
        PROVE  LET row2 == keyRow'[k]
                   req2 == requestRow'[row2.request_id] IN
               /\ KeyOf[row2.digest] = k
               /\ requestRow'[row2.request_id] # None
               /\ req2.digest = row2.digest
               /\ IF row2.response = None
                    THEN req2.status = "pending" /\ req2.output = None
                    ELSE /\ req2.status = row2.response.status
                         /\ req2.output = row2.response.output
                         /\ row2.response.request_id = row2.request_id
    <3>1. CASE k = K
      <4>1. /\ requestRow[I] \in RequestRow
            /\ requestRow[I].digest = BodyOf(r)
            /\ KeyOf[BodyOf(r)] = K
        BY <1>1, <1>2 DEF Inductive, TablesAgree, RequestIdTaken
      <4>2. Answered(requestRow[I], response[r]) \in RequestRow
        BY <4>1, <1>1 DEF Answered, RequestRow, Response
      <4>3. /\ Answered(requestRow[I], response[r]).digest = BodyOf(r)
            /\ Answered(requestRow[I], response[r]).status = response[r].status
            /\ Answered(requestRow[I], response[r]).output = response[r].output
        BY <4>1 DEF Answered, RequestRow
      <4>4. keyRow'[k] = row /\ requestRow'[row.request_id] # None
        BY <3>1, <4>2, <1>3, NoneAssumption DEF row
      <4> QED BY <3>1, <4>1, <4>3, <4>4, <1>1, <1>3 DEF row
    <3>2. CASE k # K
      <4>1. keyRow'[k] = keyRow[k] /\ Claimed(k)
        BY <3>2, <2>1, <1>3 DEF Claimed
      <4>2. keyRow[k].request_id \in RequestId
        BY <4>1, <1>2 DEF Claimed, KeyRow
      <4>3. keyRow[k].request_id # I
        BY <3>2, <4>1, <1>1 DEF Inductive, TablesAgree
      <4>4. requestRow'[keyRow[k].request_id] = requestRow[keyRow[k].request_id]
        BY <4>2, <4>3, <1>3
      <4> QED BY <4>1, <4>4 DEF Inductive, TablesAgree, RequestIdTaken
    <3> QED BY <3>1, <3>2
  <2> QED BY <2>1 DEF TablesAgree, Claimed, RequestIdTaken
<1>10. ReplayFaithful'
  <2>1. ASSUME NEW s \in Request, answer[s] # None, answer[s].code = "OK"
        PROVE  /\ Claimed(KeyFor(s)) /\ SameDigest(s)
               /\ keyRow[KeyFor(s)].response = answer[s].response
               /\ answer[s].response # None
               /\ keyRow'[KeyFor(s)] = keyRow[KeyFor(s)]
    <3>1. /\ Claimed(KeyFor(s)) /\ SameDigest(s)
          /\ keyRow[KeyFor(s)].response = answer[s].response
          /\ answer[s].response # None
      BY <2>1 DEF Inductive, ReplayFaithful, SameDigest
    <3>2. KeyFor(s) # K BY <3>1, <1>1
    <3>3. KeyFor(s) \in Key BY <2>1, <1>2, <1>6 DEF LocalsOK
    <3> QED BY <3>1, <3>2, <3>3, <1>3
  <2> QED BY <2>1, <1>1, <1>4 DEF ReplayFaithful, Claimed, SameDigest
<1> QED BY <1>7, <1>8, <1>9, <1>10 DEF Inductive

LEMMA NextInductive == Inductive /\ [Next]_vars => Inductive'
<1> SUFFICES ASSUME Inductive, [Next]_vars PROVE Inductive'
  OBVIOUS
<1>0. TypeOK /\ LocalsOK /\ TypeOK' /\ LocalsOK'
  BY NextTypes DEF Inductive
<1>1. CASE UNCHANGED vars
  <2>1. UNCHANGED <<keyRow, requestRow, pc, call, response, answer>>
    BY <1>1 DEF vars, storeVars, tables, handlerVars
  <2> QED
    BY <2>1, <1>0 DEF Inductive, SingleOwner, StoredBeforeReply, TablesAgree, ReplayFaithful,
       Owns, KeyFor, BodyOf, IdOf, Claimed, RequestIdTaken, SameDigest
<1>2. ASSUME NEW r \in Request, Arrive(r) PROVE Inductive'
  <2>1. PICK b \in Body, i \in ClientId \cup {r} :
           /\ Goto(r, "idle", "lookup")
           /\ call' = [call EXCEPT ![r] = [body |-> b, id |-> i]]
           /\ UNCHANGED <<storeVars, attempt, result, response, answer, aborts>>
    BY <1>2 DEF Arrive
  <2>2. /\ pc[r] = "idle" /\ pc' = [pc EXCEPT ![r] = "lookup"]
        /\ UNCHANGED <<keyRow, requestRow, response, answer>>
        /\ pc \in [Request -> Location] /\ DOMAIN call = Request
    BY <2>1, <1>0 DEF Goto, storeVars, tables, TypeOK
  <2>3. \A s \in Request \ {r} : pc'[s] = pc[s] /\ call'[s] = call[s]
    BY <2>1, <2>2
  <2>4. answer[r] = None BY <2>2, <1>0 DEF LocalsOK
  <2>5. ASSUME NEW s \in Request
        PROVE  /\ Owns(s)' => Owns(s) /\ call'[s] = call[s]
               /\ pc'[s] = "reply" =>
                     pc[s] = "reply" /\ call'[s] = call[s] /\ response'[s] = response[s]
               /\ answer[s] # None => answer'[s] = answer[s] /\ call'[s] = call[s]
               /\ answer[s] = None => answer'[s] = None
    BY <2>2, <2>3, <2>4 DEF Owns, Owning
  <2> QED BY <1>0, <2>2, <2>5, RowsKept
<1>3. ASSUME NEW r \in Request, Lookup(r) PROVE Inductive'
  <2>1. CASE LookupMiss(r)
    <3>1. /\ Goto(r, "lookup", "claim") /\ "lookup" \in Location
          /\ "claim" \in Location \ {"reply"} /\ "claim" \notin Owning
          /\ UNCHANGED <<keyRow, requestRow, call, answer, response>>
      BY <2>1 DEF LookupMiss, Location, Live, Owning, storeVars, tables
    <3> QED BY <1>0, <3>1, MoveKeeps
  <2> QED BY <1>0, <1>3, <2>1, AnswerFromRowKeeps DEF Lookup
<1>4. ASSUME NEW r \in Request, Claim(r) PROVE Inductive'
  <2>1. CASE ClaimCollides(r)
    BY <1>0, <2>1, FinishKeeps DEF ClaimCollides, Live, Code
  <2> QED BY <1>0, <1>4, <2>1, AnswerFromRowKeeps, ClaimKeyKeeps DEF Claim
<1>5. ASSUME NEW r \in Request, CheckRate(r) PROVE Inductive'
  <2>1. CASE Goto(r, "rate", "budget") /\ UNCHANGED <<call, attempt, result, response, answer>>
    <3>1. /\ "rate" \in Location /\ "budget" \in Location \ {"reply"} /\ "rate" \in Owning
          /\ UNCHANGED <<keyRow, requestRow, call, answer, response>>
      BY <1>5, <2>1 DEF CheckRate, Location, Live, Owning, storeVars, tables
    <3> QED BY <1>0, <2>1, <3>1, MoveKeeps
  <2>2. CASE Finish(r, "rate", "RATE_LIMITED", None)
    BY <1>0, <1>5, <2>2, FinishKeeps DEF CheckRate, Live, Code
  <2> QED BY <1>5, <2>1, <2>2 DEF CheckRate
<1>6. ASSUME NEW r \in Request, CheckBudget(r) PROVE Inductive'
  <2>1. /\ UNCHANGED <<keyRow, requestRow, call, answer>> /\ "budget" \in Owning
        /\ "budget" \in Location /\ "store" \in Location \ {"reply"}
    BY <1>6 DEF CheckBudget, Owning, Location, Live, storeVars, tables
  <2>2. CASE /\ Goto(r, "budget", "store")
             /\ response' = [response EXCEPT ![r] = Build(r, "budget_exhausted", None, None)]
    <3>1. \A s \in Request \ {r} : response'[s] = response[s] BY <2>2, <1>0 DEF TypeOK
    <3> QED BY <1>0, <2>1, <2>2, <3>1, MoveKeeps
  <2>3. CASE TryOrEnd(r, "budget", 1, "provider_unavailable", None)
    BY <1>0, <2>1, <2>3, TryOrEndKeeps
  <2> QED BY <1>6, <2>2, <2>3 DEF CheckBudget
<1>7. ASSUME NEW r \in Request, ProviderReplies(r) PROVE Inductive'
  <2>1. /\ Goto(r, "call", "usage") /\ "call" \in Owning /\ "call" \in Location
        /\ "usage" \in Location \ {"reply"}
        /\ UNCHANGED <<keyRow, requestRow, call, answer, response>>
    BY <1>7 DEF ProviderReplies, Owning, Location, Live, storeVars, tables
  <2> QED BY <1>0, <2>1, MoveKeeps
<1>8. ASSUME NEW r \in Request, ProviderFails(r) PROVE Inductive'
  <2>1. UNCHANGED <<keyRow, requestRow, call, answer>> /\ "call" \in Owning
    BY <1>8 DEF ProviderFails, Owning, storeVars, tables
  <2> QED BY <1>0, <1>8, <2>1, TryOrEndKeeps DEF ProviderFails
<1>9. ASSUME NEW r \in Request, RecordUsage(r) PROVE Inductive'
  <2> DEFINE output == Normalize[TaskFor(r)][result[r].output]
             built == Build(r, "completed", output, ModelsFor(r)[attempt[r]])
  <2>1. /\ UNCHANGED <<keyRow, requestRow, call, answer>> /\ "usage" \in Owning
        /\ "usage" \in Location /\ "store" \in Location \ {"reply"}
    BY <1>9 DEF RecordUsage, InsertUsage, Owning, Location, Live
  <2>2. \/ Goto(r, "usage", "store") /\ response' = [response EXCEPT ![r] = built]
        \/ TryOrEnd(r, "usage", attempt[r] + 1, "review", output)
    BY <1>9 DEF RecordUsage
  <2> HIDE DEF output, built
  <2>3. CASE Goto(r, "usage", "store") /\ response' = [response EXCEPT ![r] = built]
    <3>1. \A s \in Request \ {r} : response'[s] = response[s] BY <2>3, <1>0 DEF TypeOK
    <3> QED BY <1>0, <2>1, <2>3, <3>1, MoveKeeps
  <2>4. CASE TryOrEnd(r, "usage", attempt[r] + 1, "review", output)
    BY <1>0, <2>1, <2>4, TryOrEndKeeps
  <2> QED BY <2>2, <2>3, <2>4
<1>10. ASSUME NEW r \in Request, Reply(r) PROVE Inductive'
  <2>1. /\ Finish(r, "reply", "OK", response[r]) /\ UNCHANGED storeVars
        /\ pc[r] = "reply" /\ pc[r] # "idle" /\ response[r] \in Response
        /\ "reply" \in Live /\ "OK" \in Code
    BY <1>10, <1>0 DEF Reply, Finish, Goto, TypeOK, LocalsOK, Live, Code
  <2>2. keyRow[KeyFor(r)] = [digest |-> BodyOf(r), request_id |-> IdOf(r),
                             response |-> response[r]]
    BY <2>1 DEF Inductive, StoredBeforeReply
  <2>3. keyRow[KeyFor(r)] \in KeyRow BY <1>0, <2>1, <2>2, CallTypes DEF KeyRow
  <2>4. /\ Claimed(KeyFor(r)) /\ SameDigest(r)
        /\ keyRow[KeyFor(r)].response = response[r] /\ response[r] # None
    BY <2>1, <2>2, <2>3, NoneAssumption DEF Claimed, SameDigest
  <2> QED BY <1>0, <2>1, <2>4, FinishKeeps
<1>11. ASSUME NEW r \in Request, Abort(r) PROVE Inductive'
  <2>1. PICK from \in Live : Finish(r, from, "INTERNAL_ERROR", None)
    BY <1>11 DEF Abort
  <2>2. UNCHANGED storeVars /\ "INTERNAL_ERROR" \in Code BY <1>11 DEF Abort, Code
  <2> QED BY <1>0, <2>1, <2>2, FinishKeeps
<1>12. CASE Tick /\ UNCHANGED handlerVars
  <2>1. UNCHANGED <<keyRow, requestRow, pc, call, response, answer>>
    BY <1>12 DEF Tick, tables, handlerVars
  <2> QED
    BY <2>1, <1>0 DEF Inductive, SingleOwner, StoredBeforeReply, TablesAgree, ReplayFaithful,
       Owns, KeyFor, BodyOf, IdOf, Claimed, RequestIdTaken, SameDigest
<1> QED
  BY <1>0, <1>1, <1>2, <1>3, <1>4, <1>5, <1>6, <1>7, <1>8, <1>9, <1>10, <1>11, <1>12,
     StoreKeeps
  DEF Next, Handle, Terminating

\* In every reachable state the invariant holds: each key has one owner at most,
\* its row and its request row agree, and who was told a result was told the one
\* that is stored.
THEOREM InductiveHolds == Spec => []Inductive
  BY InitInductive, NextInductive, PTL DEF Spec

\* claim and put: however the calls interleave and wherever they die, a key has
\* one owner, whose row is its own.
THEOREM SingleOwnerHolds == Spec => []SingleOwner
<1>1. Inductive => SingleOwner BY DEF Inductive
<1> QED BY <1>1, InductiveHolds, PTL

\* A replay returns the stored response, and only for the stored digest.
THEOREM ReplayFaithfulHolds == Spec => []ReplayFaithful
<1>1. Inductive => ReplayFaithful BY DEF Inductive
<1> QED BY <1>1, InductiveHolds, PTL

\* ai_idempotency_keys and ai_requests never contradict each other.
THEOREM TablesAgreeHolds == Spec => []TablesAgree
<1>1. Inductive => TablesAgree BY DEF Inductive
<1> QED BY <1>1, InductiveHolds, PTL

-----------------------------------------------------------------------------
(* What a step does to the rows and to what the callers were told *)

\* Nothing that a caller can see changes.
Silent ==
    /\ UNCHANGED <<keyRow, answer>>
    /\ \A s \in Request : answer[s] # None => call'[s] = call[s]

\* Call r is told code and p, and that is true of its key's row.
Tells(r, code, p) ==
    LET row == keyRow[KeyFor(r)] IN
    /\ UNCHANGED <<keyRow, call>>
    /\ pc[r] # "idle"
    /\ answer[r] = None
    /\ answer' = [answer EXCEPT ![r] = [code |-> code, response |-> p]]
    /\ \/ /\ code = "OK" /\ p # None
          /\ Claimed(KeyFor(r)) /\ SameDigest(r) /\ row.response = p
       \/ /\ code = "IDEMPOTENCY_CONFLICT" /\ p = None
          /\ Claimed(KeyFor(r)) /\ ~SameDigest(r)
       \/ /\ code = "REQUEST_IN_PROGRESS" /\ p = None
          /\ Claimed(KeyFor(r)) /\ SameDigest(r) /\ row.response = None
       \/ /\ code \in {"REQUEST_ID_COLLISION", "RATE_LIMITED", "INTERNAL_ERROR"}
          /\ p = None

LEMMA FinishTells ==
  ASSUME Inductive, NEW r \in Request, NEW from \in Live, NEW code, NEW p,
         Finish(r, from, code, p)
  PROVE  /\ pc[r] # "idle" /\ answer[r] = None /\ UNCHANGED call
         /\ answer' = [answer EXCEPT ![r] = [code |-> code, response |-> p]]
  BY DEF Finish, Goto, Inductive, LocalsOK, Live

LEMMA StepKinds ==
  ASSUME Inductive, [Next]_vars
  PROVE  \/ Silent
         \/ \E r \in Request : ClaimKey(r) \/ Store(r)
         \/ \E r \in Request, code \in Code, p \in Response \cup {None} : Tells(r, code, p)
<1> DEFINE Kinds == \/ Silent
                    \/ \E r \in Request : ClaimKey(r) \/ Store(r)
                    \/ \E r \in Request, code \in Code, p \in Response \cup {None} :
                          Tells(r, code, p)
<1>0. TypeOK /\ LocalsOK BY DEF Inductive
<1>1. ASSUME UNCHANGED vars \/ (Tick /\ UNCHANGED handlerVars) PROVE Silent
  BY <1>1 DEF Silent, vars, storeVars, tables, handlerVars, Tick
<1>2. ASSUME NEW r \in Request, Arrive(r) PROVE Silent
  BY <1>2, <1>0 DEF Silent, Arrive, Goto, storeVars, tables, TypeOK, LocalsOK
<1>3. ASSUME NEW r \in Request, NEW from \in {"lookup", "claim"}, AnswerFromRow(r, from)
      PROVE  Kinds
  <2> DEFINE row == keyRow[KeyFor(r)]
  <2>1. from \in Live /\ UNCHANGED keyRow /\ Claimed(KeyFor(r))
    BY <1>3 DEF AnswerFromRow, Live, storeVars, tables
  <2>2. KeyFor(r) \in Key BY <1>0, <1>3, CallTypes DEF AnswerFromRow
  <2>3. row.response \in Response \cup {None}
    BY <1>0, <2>1, <2>2 DEF Claimed, TypeOK, StoreTypeOK, KeyRow
  <2>4. CASE ~SameDigest(r) /\ Finish(r, from, "IDEMPOTENCY_CONFLICT", None)
    <3>1. Tells(r, "IDEMPOTENCY_CONFLICT", None) BY <2>1, <2>4, FinishTells DEF Tells
    <3> QED BY <3>1 DEF Code
  <2>5. CASE /\ SameDigest(r) /\ row.response # None
             /\ Finish(r, from, "OK", row.response)
    <3>1. Tells(r, "OK", row.response) BY <2>1, <2>5, FinishTells DEF Tells
    <3> QED BY <2>3, <3>1 DEF Code
  <2>6. CASE /\ SameDigest(r) /\ row.response = None
             /\ Finish(r, from, "REQUEST_IN_PROGRESS", None)
    <3>1. Tells(r, "REQUEST_IN_PROGRESS", None) BY <2>1, <2>6, FinishTells DEF Tells
    <3> QED BY <3>1 DEF Code
  <2> QED BY <1>3, <2>4, <2>5, <2>6 DEF AnswerFromRow
<1>4. ASSUME NEW r \in Request, NEW from \in Live,
             NEW code \in {"REQUEST_ID_COLLISION", "RATE_LIMITED", "INTERNAL_ERROR"},
             Finish(r, from, code, None), UNCHANGED storeVars
      PROVE  Kinds
  <2>1. Tells(r, code, None)
    BY <1>4, FinishTells DEF Tells, storeVars, tables
  <2> QED BY <2>1 DEF Code
<1>5. ASSUME NEW r \in Request, Lookup(r) PROVE Kinds
  <2>1. CASE LookupMiss(r) BY <2>1 DEF LookupMiss, Silent, storeVars, tables
  <2> QED BY <1>3, <1>5, <2>1 DEF Lookup
<1>6. ASSUME NEW r \in Request, Claim(r) PROVE Kinds
  <2>1. CASE ClaimCollides(r) BY <1>4, <2>1 DEF ClaimCollides, Live
  <2> QED BY <1>3, <1>6, <2>1 DEF Claim
<1>7. ASSUME NEW r \in Request, CheckRate(r) PROVE Kinds
  <2>1. CASE Finish(r, "rate", "RATE_LIMITED", None)
    BY <1>4, <1>7, <2>1 DEF CheckRate, Live
  <2>2. CASE UNCHANGED <<call, answer>>
    BY <1>7, <2>2 DEF CheckRate, Silent, storeVars, tables
  <2> QED BY <1>7, <2>1, <2>2 DEF CheckRate
<1>8. ASSUME NEW r \in Request,
             CheckBudget(r) \/ ProviderReplies(r) \/ ProviderFails(r) \/ RecordUsage(r)
      PROVE  Silent
  BY <1>8 DEF CheckBudget, ProviderReplies, ProviderFails, RecordUsage, InsertUsage,
              Silent, storeVars, tables
<1>9. ASSUME NEW r \in Request, Reply(r) PROVE Kinds
  <2>1. /\ Finish(r, "reply", "OK", response[r]) /\ UNCHANGED keyRow
        /\ pc[r] = "reply" /\ pc[r] # "idle" /\ response[r] \in Response
        /\ "reply" \in Live
    BY <1>9, <1>0 DEF Reply, Finish, Goto, TypeOK, LocalsOK, Live, storeVars, tables
  <2>2. keyRow[KeyFor(r)] = [digest |-> BodyOf(r), request_id |-> IdOf(r),
                             response |-> response[r]]
    BY <2>1 DEF Inductive, StoredBeforeReply
  <2>3. keyRow[KeyFor(r)] \in KeyRow BY <1>0, <2>1, <2>2, CallTypes DEF KeyRow
  <2>4. Tells(r, "OK", response[r])
    BY <2>1, <2>2, <2>3, FinishTells, NoneAssumption DEF Tells, Claimed, SameDigest
  <2> QED BY <2>1, <2>4 DEF Code
<1>10. ASSUME NEW r \in Request, Abort(r) PROVE Kinds
  <2>1. PICK from \in Live : Finish(r, from, "INTERNAL_ERROR", None)
    BY <1>10 DEF Abort
  <2>2. UNCHANGED storeVars BY <1>10 DEF Abort
  <2> QED BY <1>4, <2>1, <2>2
<1> HIDE DEF Kinds
<1>11. ASSUME NEW r \in Request, ClaimKey(r) \/ Store(r) \/ Silent PROVE Kinds
  BY <1>11 DEF Kinds
<1>12. Silent => Kinds BY DEF Kinds
<1>13. Kinds
  BY <1>1, <1>2, <1>5, <1>6, <1>7, <1>8, <1>9, <1>10, <1>11, <1>12
  DEF Next, Handle, Terminating
<1> QED BY <1>13 DEF Kinds

LEMMA RowsAreFinalStep ==
  ASSUME Inductive, [Next]_vars, NEW k \in Key, Claimed(k)
  PROVE  /\ keyRow'[k] # None
         /\ keyRow'[k].digest = keyRow[k].digest
         /\ keyRow'[k].request_id = keyRow[k].request_id
         /\ keyRow[k].response # None => keyRow'[k] = keyRow[k]
<1>1. keyRow \in [Key -> KeyRow \cup {None}] BY DEF Inductive, TypeOK, StoreTypeOK
<1>2. CASE UNCHANGED keyRow BY <1>2 DEF Claimed
<1>3. ASSUME NEW r \in Request, ClaimKey(r) PROVE keyRow'[k] = keyRow[k]
  BY <1>1, <1>3 DEF ClaimKey, InsertClaim, KeyIsFree, Claimed, KeyFor
<1>4. ASSUME NEW r \in Request, Store(r), k # KeyFor(r) PROVE keyRow'[k] = keyRow[k]
  BY <1>1, <1>4, StoreEffect
<1>5. ASSUME NEW r \in Request, Store(r), k = KeyFor(r)
      PROVE  /\ keyRow[k].response = None
             /\ keyRow'[k] # None
             /\ keyRow'[k].digest = keyRow[k].digest
             /\ keyRow'[k].request_id = keyRow[k].request_id
  <2> DEFINE row == [digest |-> BodyOf(r), request_id |-> IdOf(r), response |-> response[r]]
  <2>1. /\ keyRow[k] = [digest |-> BodyOf(r), request_id |-> IdOf(r), response |-> None]
        /\ keyRow'[k] = row /\ pc[r] # "idle" /\ response[r] \in Response
    BY <1>1, <1>5, StoreEffect
  <2>2. row \in KeyRow BY <2>1, CallTypes DEF KeyRow, Inductive
  <2> QED BY <2>1, <2>2, NoneAssumption
<1> QED BY <1>2, <1>3, <1>4, <1>5, StepKinds DEF Silent, Tells, Claimed

\* No step rebinds or removes a key's row, or replaces a stored response.
THEOREM RowsAreFinalHolds == Spec => RowsAreFinal
<1>1. Inductive /\ [Next]_vars =>
        [\A k \in Key : Claimed(k) =>
            /\ keyRow'[k] # None
            /\ keyRow'[k].digest = keyRow[k].digest
            /\ keyRow'[k].request_id = keyRow[k].request_id
            /\ keyRow[k].response # None => keyRow'[k] = keyRow[k]]_vars
  BY RowsAreFinalStep
<1> QED BY <1>1, InductiveHolds, PTL DEF Spec, RowsAreFinal

-----------------------------------------------------------------------------
(* The handler implements OnceOnly *)

\* What the refinement mapping of ExecuteProperties shows of one key and call.
Bound(k) == IF Claimed(k) THEN keyRow[k].digest ELSE None
Settled(k) == IF Claimed(k) THEN keyRow[k].response ELSE None
Told(r) == IF answer[r] = None THEN None
           ELSE [body |-> BodyOf(r), code |-> answer[r].code,
                 response |-> answer[r].response]

LEMMA SilentStutters ==
  ASSUME Silent
  PROVE  UNCHANGED <<[k \in Key |-> Bound(k)], [k \in Key |-> Settled(k)],
                     [r \in Request |-> Told(r)]>>
  BY DEF Silent, Bound, Settled, Told, Claimed, BodyOf

LEMMA ClaimBinds ==
  ASSUME Inductive, NEW r \in Request, ClaimKey(r)
  PROVE  \E k \in Key : Once!Bind(k)
<1> DEFINE row == [digest |-> BodyOf(r), request_id |-> IdOf(r), response |-> None]
<1>1. /\ keyRow \in [Key -> KeyRow \cup {None}]
      /\ TypeOK /\ LocalsOK /\ pc[r] # "idle"
  BY DEF Inductive, TypeOK, StoreTypeOK, ClaimKey, Goto
<1>2. KeyFor(r) \in Key /\ BodyOf(r) \in Body /\ KeyOf[BodyOf(r)] = KeyFor(r)
      /\ IdOf(r) \in RequestId
  BY <1>1, CallTypes DEF KeyFor
<1>3. /\ keyRow[KeyFor(r)] = None
      /\ keyRow' = [keyRow EXCEPT ![KeyFor(r)] = row]
      /\ UNCHANGED <<call, answer>>
  BY DEF ClaimKey, KeyIsFree, Claimed, InsertClaim, KeyFor
<1>4. row # None
  <2>1. row \in KeyRow BY <1>2 DEF KeyRow
  <2> QED BY <2>1, NoneAssumption
<1>5. Bound(KeyFor(r)) = None BY <1>3 DEF Bound, Claimed
<1>6. ASSUME NEW k \in Key
      PROVE  /\ Bound(k)' = IF k = KeyFor(r) THEN BodyOf(r) ELSE Bound(k)
             /\ Settled(k)' = Settled(k)
  <2>1. CASE k = KeyFor(r)
    <3>1. keyRow'[k] = row /\ keyRow[k] = None BY <2>1, <1>1, <1>3
    <3> QED BY <2>1, <3>1, <1>4 DEF Bound, Settled, Claimed
  <2>2. CASE k # KeyFor(r)
    <3>1. keyRow'[k] = keyRow[k] BY <2>2, <1>1, <1>3
    <3> QED BY <2>2, <3>1 DEF Bound, Settled, Claimed
  <2> QED BY <2>1, <2>2
<1>7. \A s \in Request : Told(s)' = Told(s) BY <1>3 DEF Told, BodyOf
<1>8. PICK k \in Key : k = KeyFor(r) BY <1>2
<1>9. Once!Bind(k) BY <1>2, <1>5, <1>6, <1>7, <1>8 DEF Once!Bind, Bound, Settled, Told
<1> QED BY <1>9

LEMMA StoreSettles ==
  ASSUME Inductive, NEW r \in Request, Store(r)
  PROVE  \E k \in Key : Once!Settle(k)
<1> DEFINE K == KeyFor(r)
           row == [digest |-> BodyOf(r), request_id |-> IdOf(r), response |-> response[r]]
<1>1. /\ keyRow \in [Key -> KeyRow \cup {None}]
      /\ TypeOK /\ LocalsOK /\ pc[r] # "idle"
      /\ K \in Key /\ response[r] \in Response /\ IdOf(r) \in RequestId
      /\ keyRow[K] = [digest |-> BodyOf(r), request_id |-> IdOf(r), response |-> None]
      /\ keyRow' = [keyRow EXCEPT ![K] = row]
      /\ Claimed(K)
      /\ UNCHANGED <<call, answer>>
  BY StoreEffect DEF Inductive, TypeOK, StoreTypeOK
<1>2. BodyOf(r) \in Body BY <1>1, CallTypes
<1>3. row # None
  <2>1. row \in KeyRow BY <1>1, <1>2 DEF KeyRow
  <2> QED BY <2>1, NoneAssumption
<1>4. Bound(K) # None
  <2>1. Bound(K) = BodyOf(r) BY <1>1 DEF Bound
  <2> QED BY <2>1, <1>2, NoneIsNoBody
<1>5. Settled(K) = None BY <1>1 DEF Settled
<1>6. ASSUME NEW k \in Key
      PROVE  /\ Settled(k)' = IF k = K THEN response[r] ELSE Settled(k)
             /\ Bound(k)' = Bound(k)
  <2>1. CASE k = K
    <3>1. keyRow'[k] = row BY <2>1, <1>1
    <3> QED BY <2>1, <3>1, <1>1, <1>3 DEF Bound, Settled, Claimed
  <2>2. CASE k # K
    <3>1. keyRow'[k] = keyRow[k] BY <2>2, <1>1
    <3> QED BY <2>2, <3>1 DEF Bound, Settled, Claimed
  <2> QED BY <2>1, <2>2
<1>7. \A s \in Request : Told(s)' = Told(s) BY <1>1 DEF Told, BodyOf
<1>8. PICK k \in Key : k = K BY <1>1
<1>9. Once!Settle(k)
  BY <1>1, <1>4, <1>5, <1>6, <1>7, <1>8 DEF Once!Settle, Bound, Settled, Told
<1> QED BY <1>9

LEMMA TellsSays ==
  ASSUME Inductive, NEW r \in Request, NEW code \in Code,
         NEW p \in Response \cup {None}, Tells(r, code, p)
  PROVE  \E s \in Request, b \in Body :
            \/ Once!SayResult(s, b) \/ Once!SayConflict(s, b)
            \/ Once!SayInProgress(s, b) \/ Once!SayUnrelated(s, b)
<1>0. PICK b : b = BodyOf(r) OBVIOUS
<1>1. /\ answer \in [Request -> Answer \cup {None}]
      /\ TypeOK /\ LocalsOK /\ pc[r] # "idle" /\ answer[r] = None
      /\ answer' = [answer EXCEPT ![r] = [code |-> code, response |-> p]]
      /\ UNCHANGED <<keyRow, call>>
  BY DEF Inductive, TypeOK, Tells
<1>2. b \in Body /\ KeyOf[b] = KeyFor(r) /\ KeyFor(r) \in Key
  BY <1>0, <1>1, CallTypes DEF KeyFor
<1>3. answer'[r] = [code |-> code, response |-> p] /\ answer'[r] # None
  <2>1. [code |-> code, response |-> p] \in Answer BY DEF Answer
  <2> QED BY <1>1, <2>1, NoneIsNoRecord
<1>4. ASSUME NEW s \in Request
      PROVE  Told(s)' = IF s = r THEN [body |-> b, code |-> code, response |-> p]
                                 ELSE Told(s)
  <2>1. CASE s = r BY <2>1, <1>0, <1>1, <1>3 DEF Told, BodyOf
  <2>2. CASE s # r
    <3>1. answer'[s] = answer[s] BY <2>2, <1>1
    <3> QED BY <2>2, <3>1, <1>1 DEF Told, BodyOf
  <2> QED BY <2>1, <2>2
<1>5. \A k \in Key : Bound(k)' = Bound(k) /\ Settled(k)' = Settled(k)
  BY <1>1 DEF Bound, Settled, Claimed
<1>6. Told(r) = None BY <1>1 DEF Told
<1>7. Once!Say(r, b, code, p)
  BY <1>4, <1>5, <1>6 DEF Once!Say, Bound, Settled, Told
<1>8. Claimed(KeyFor(r)) =>
         /\ Bound(KeyFor(r)) = keyRow[KeyFor(r)].digest
         /\ keyRow[KeyFor(r)].digest \in Body
         /\ Settled(KeyFor(r)) = keyRow[KeyFor(r)].response
  BY <1>1, <1>2 DEF Bound, Settled, Claimed, TypeOK, StoreTypeOK, KeyRow
<1>9. CASE /\ code = "OK" /\ p # None
           /\ Claimed(KeyFor(r)) /\ SameDigest(r) /\ keyRow[KeyFor(r)].response = p
  <2>1. Bound(KeyOf[b]) = b /\ Settled(KeyOf[b]) = p
    BY <1>0, <1>2, <1>8, <1>9 DEF SameDigest
  <2>2. Once!SayResult(r, b)
    BY <1>2, <1>7, <1>9, <2>1 DEF Once!SayResult, Once!Say, Bound, Settled
  <2> QED BY <1>2, <2>2
<1>10. CASE /\ code = "IDEMPOTENCY_CONFLICT" /\ p = None
            /\ Claimed(KeyFor(r)) /\ ~SameDigest(r)
  <2>1. Bound(KeyOf[b]) \notin {None, b}
    BY <1>0, <1>2, <1>8, <1>10, NoneIsNoBody DEF SameDigest
  <2>2. Once!SayConflict(r, b)
    BY <1>2, <1>7, <1>10, <2>1 DEF Once!SayConflict, Bound, Settled
  <2> QED BY <1>2, <2>2
<1>11. CASE /\ code = "REQUEST_IN_PROGRESS" /\ p = None
            /\ Claimed(KeyFor(r)) /\ SameDigest(r) /\ keyRow[KeyFor(r)].response = None
  <2>1. Bound(KeyOf[b]) = b /\ Settled(KeyOf[b]) = None
    BY <1>0, <1>2, <1>8, <1>11 DEF SameDigest
  <2>2. Once!SayInProgress(r, b)
    BY <1>2, <1>7, <1>11, <2>1 DEF Once!SayInProgress, Bound, Settled
  <2> QED BY <1>2, <2>2
<1>12. CASE code \in {"REQUEST_ID_COLLISION", "RATE_LIMITED", "INTERNAL_ERROR"} /\ p = None
  <2>1. Once!SayUnrelated(r, b) BY <1>7, <1>12 DEF Once!SayUnrelated, Once!Unrelated
  <2> QED BY <1>2, <2>1
<1> QED BY <1>9, <1>10, <1>11, <1>12 DEF Tells

LEMMA InitRefines == Init => Once!Init
  BY DEF Init, StoreInit, Once!Init, Claimed

LEMMA NextRefines ==
  Inductive /\ [Next]_vars => [Once!Next]_(Once!onceVars)
<1> SUFFICES ASSUME Inductive, [Next]_vars PROVE [Once!Next]_(Once!onceVars)
  OBVIOUS
<1>1. CASE Silent
  BY <1>1, SilentStutters DEF Once!onceVars, Bound, Settled, Told
<1>2. ASSUME NEW r \in Request, ClaimKey(r) PROVE Once!Next
  BY <1>2, ClaimBinds DEF Once!Next
<1>3. ASSUME NEW r \in Request, Store(r) PROVE Once!Next
  BY <1>3, StoreSettles DEF Once!Next
<1>4. ASSUME NEW r \in Request, NEW code \in Code, NEW p \in Response \cup {None},
             Tells(r, code, p)
      PROVE  Once!Next
  BY <1>4, TellsSays DEF Once!Next
<1> QED BY <1>1, <1>2, <1>3, <1>4, StepKinds

\* Whatever the workers, the provider and the database do, callers see OnceOnly:
\* a key is bound once, settled once at most, and every answer about it is true.
THEOREM Refinement == Spec => ImplementsOnceOnly
  BY InitRefines, NextRefines, InductiveHolds, PTL
  DEF Spec, ImplementsOnceOnly, Once!Spec

=============================================================================
