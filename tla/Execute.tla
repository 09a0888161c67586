------------------------------- MODULE Execute -------------------------------
(***************************************************************************)
(* POST /api/v1/internal/ai/execute over PostgreSQL: the handler from its   *)
(* idempotency lookup to its answer.  Every call runs in a coroutine of one *)
(* of several workers; between two awaits it runs alone, and at each await  *)
(* (one store method or one provider call) the others may run.  So a step   *)
(* is one await and the code up to the next one.                            *)
(*                                                                          *)
(* The refusals that come before the lookup (401, 403, 400, 422) touch no   *)
(* table named here and end the call: a call that Arrives has passed them.  *)
(***************************************************************************)
EXTENDS PostgresStore, Sequences

CONSTANTS
    Request,        \* calls of the endpoint; a call's own name is the fresh
                    \* request id the middleware draws for it
    ClientId,       \* X-Request-ID values callers choose
    OrderedModels,  \* ordered_models: the models to try, per task
    Cost,           \* what a provider may report a reply to cost, None included
    Normalize,      \* normalize_output, per task
    Valid,          \* validate_candidate: the outputs it accepts, per task
    MaxAborts       \* bound: handlers that die before they answer

ASSUME ExecuteAssumption ==
    /\ Request \subseteq RequestId
    /\ ClientId \subseteq RequestId
    /\ OrderedModels \in [Task -> Seq(Model)]
    /\ Cost \subseteq Nat \cup {None}
    /\ Normalize \in [Task -> [Output -> Output]]
    /\ Valid \in [Task -> SUBSET Output]
    /\ MaxAborts \in Nat

VARIABLES
    pc,         \* where each call is
    call,       \* [body, id] of each call that arrived
    attempt,    \* the model being tried, counted from 1
    result,     \* [output, cost] the provider returned, until it is recorded
    response,   \* the response the handler built, from then on
    answer,     \* what the caller was told
    aborts

handlerVars == <<pc, call, attempt, result, response, answer, aborts>>
vars == <<storeVars, handlerVars>>

Live == {"lookup", "claim", "rate", "budget", "call", "usage", "store", "reply"}
Location == Live \cup {"idle", "done"}

\* Where a handler holds the claim of its key and has not settled it.
Owning == {"rate", "budget", "call", "usage", "store"}
Owns(r) == pc[r] \in Owning

Code == {"OK", "IDEMPOTENCY_CONFLICT", "REQUEST_IN_PROGRESS",
         "REQUEST_ID_COLLISION", "RATE_LIMITED", "INTERNAL_ERROR"}
Answer == [code : Code, response : Response \cup {None}]

ASSUME NoneIsNoBody == None \notin Body

ASSUME NoneIsNoRecord ==
    /\ None \notin [body : Body, id : RequestId]
    /\ None \notin [output : Output, cost : Cost]
    /\ None \notin Answer

BodyOf(r) == call[r].body
IdOf(r) == call[r].id
KeyFor(r) == KeyOf[BodyOf(r)]
TaskFor(r) == TaskOf[BodyOf(r)]
ModelsFor(r) == OrderedModels[TaskFor(r)]

TypeOK ==
    /\ StoreTypeOK
    /\ pc \in [Request -> Location]
    /\ call \in [Request -> [body : Body, id : RequestId] \cup {None}]
    /\ attempt \in [Request -> Nat]
    /\ result \in [Request -> [output : Output, cost : Cost] \cup {None}]
    /\ response \in [Request -> Response \cup {None}]
    /\ answer \in [Request -> Answer \cup {None}]
    /\ aborts \in Nat

Init ==
    /\ StoreInit
    /\ pc = [r \in Request |-> "idle"]
    /\ call = [r \in Request |-> None]
    /\ attempt = [r \in Request |-> 0]
    /\ result = [r \in Request |-> None]
    /\ response = [r \in Request |-> None]
    /\ answer = [r \in Request |-> None]
    /\ aborts = 0

-----------------------------------------------------------------------------
Goto(r, from, to) ==
    /\ pc[r] = from
    /\ pc' = [pc EXCEPT ![r] = to]

\* The handler leaves location from for good: code and response go to the
\* caller, and its local variables with it.
Finish(r, from, code, p) ==
    /\ Goto(r, from, "done")
    /\ answer' = [answer EXCEPT ![r] = [code |-> code, response |-> p]]
    /\ attempt' = [attempt EXCEPT ![r] = 0]
    /\ result' = [result EXCEPT ![r] = None]
    /\ response' = [response EXCEPT ![r] = None]
    /\ UNCHANGED call

\* A call with a validated body.  The middleware keeps the caller's
\* X-Request-ID or draws a fresh one.
Arrive(r) ==
    \E b \in Body, i \in ClientId \cup {r} :
        /\ Goto(r, "idle", "lookup")
        /\ call' = [call EXCEPT ![r] = [body |-> b, id |-> i]]
        /\ UNCHANGED <<storeVars, attempt, result, response, answer, aborts>>

\* Fault: a key answers whatever body it comes with.
SameKeyWillDo(r) == Claimed(KeyFor(r))

\* What a row found for the key, by the lookup or by the claim, answers.
SameDigest(r) == keyRow[KeyFor(r)].digest = BodyOf(r)

AnswerFromRow(r, from) ==
    LET row == keyRow[KeyFor(r)] IN
    /\ pc[r] = from
    /\ Claimed(KeyFor(r))
    /\ \/ /\ ~SameDigest(r)
          /\ Finish(r, from, "IDEMPOTENCY_CONFLICT", None)
       \/ /\ SameDigest(r)
          /\ row.response # None
          /\ Finish(r, from, "OK", row.response)
       \/ /\ SameDigest(r)
          /\ row.response = None
          /\ Finish(r, from, "REQUEST_IN_PROGRESS", None)
    /\ UNCHANGED <<storeVars, aborts>>

LookupMiss(r) ==
    /\ Goto(r, "lookup", "claim")
    /\ ~Claimed(KeyFor(r))
    /\ UNCHANGED <<storeVars, call, attempt, result, response, answer, aborts>>

Lookup(r) == AnswerFromRow(r, "lookup") \/ LookupMiss(r)

\* Fault: claim trusts the lookup and replaces whatever row is there now.
AnyKeyIsFree(r) == TRUE

\* Fault: a claim that has no response yet can be taken over.
UnsettledKeyIsFree(r) ==
    Claimed(KeyFor(r)) => keyRow[KeyFor(r)].response = None

KeyIsFree(r) == ~Claimed(KeyFor(r))

ClaimKey(r) ==
    /\ Goto(r, "claim", "rate")
    /\ KeyIsFree(r)
    /\ ~RequestIdTaken(IdOf(r))
    /\ InsertClaim(BodyOf(r), IdOf(r))
    /\ UNCHANGED <<call, attempt, result, response, answer, aborts>>

ClaimCollides(r) ==
    /\ pc[r] = "claim"
    /\ KeyIsFree(r)
    /\ RequestIdTaken(IdOf(r))
    /\ Finish(r, "claim", "REQUEST_ID_COLLISION", None)
    /\ UNCHANGED <<storeVars, aborts>>

Claim(r) == AnswerFromRow(r, "claim") \/ ClaimKey(r) \/ ClaimCollides(r)

\* A refused call keeps its claim: nothing is deleted or settled.
CheckRate(r) ==
    /\ pc[r] = "rate"
    /\ \E now \in Now :
          \/ /\ AllowRateLimit(TaskFor(r), now)
             /\ Goto(r, "rate", "budget")
             /\ UNCHANGED <<call, attempt, result, response, answer>>
          \/ /\ ~AllowRateLimit(TaskFor(r), now)
             /\ Finish(r, "rate", "RATE_LIMITED", None)
    /\ UNCHANGED <<storeVars, aborts>>

\* Fault: the last output is returned whatever became of it.
BuildKeepingOutput(r, status, output, model) ==
    [request_id |-> IdOf(r), status |-> status, output |-> output, model |-> model]

\* The response the handler will store and return: its output is dropped
\* unless the run completed, and the model named only then.
Build(r, status, output, model) ==
    [request_id |-> IdOf(r), status |-> status,
     output |-> IF status = "completed" THEN output ELSE None, model |-> model]

\* The loop over ordered_models goes on to model n, or ends with the status and
\* the output of the last try.
TryOrEnd(r, from, n, status, output) ==
    \/ /\ n <= Len(ModelsFor(r))
       /\ Goto(r, from, "call")
       /\ attempt' = [attempt EXCEPT ![r] = n]
       /\ UNCHANGED response
    \/ /\ n > Len(ModelsFor(r))
       /\ Goto(r, from, "store")
       /\ response' = [response EXCEPT ![r] = Build(r, status, output, None)]
       /\ UNCHANGED attempt

\* Fault: an exhausted budget is refused like an exceeded rate.
RefuseOverBudget(r) ==
    /\ pc[r] = "budget"
    /\ \E today \in Today :
          \/ /\ BudgetExhausted(TaskFor(r), today)
             /\ Finish(r, "budget", "RATE_LIMITED", None)
          \/ /\ ~BudgetExhausted(TaskFor(r), today)
             /\ TryOrEnd(r, "budget", 1, "provider_unavailable", None)
             /\ UNCHANGED <<call, result, answer>>
    /\ UNCHANGED <<storeVars, aborts>>

\* Fault: a run over budget is answered at once, past the put.
AnswerOverBudget(r) ==
    /\ pc[r] = "budget"
    /\ \E today \in Today :
          \/ /\ BudgetExhausted(TaskFor(r), today)
             /\ Finish(r, "budget", "OK", Build(r, "budget_exhausted", None, None))
          \/ /\ ~BudgetExhausted(TaskFor(r), today)
             /\ TryOrEnd(r, "budget", 1, "provider_unavailable", None)
             /\ UNCHANGED <<call, result, answer>>
    /\ UNCHANGED <<storeVars, aborts>>

CheckBudget(r) ==
    /\ pc[r] = "budget"
    /\ \E today \in Today :
          \/ /\ BudgetExhausted(TaskFor(r), today)
             /\ Goto(r, "budget", "store")
             /\ response' = [response EXCEPT ![r] = Build(r, "budget_exhausted", None, None)]
             /\ UNCHANGED attempt
          \/ /\ ~BudgetExhausted(TaskFor(r), today)
             /\ TryOrEnd(r, "budget", 1, "provider_unavailable", None)
    /\ UNCHANGED <<storeVars, call, result, answer, aborts>>

\* provider.complete returns a parsed reply.
ProviderReplies(r) ==
    \E o \in Output, c \in Cost :
        /\ Goto(r, "call", "usage")
        /\ result' = [result EXCEPT ![r] = [output |-> o, cost |-> c]]
        /\ UNCHANGED <<storeVars, call, attempt, response, answer, aborts>>

\* Fault: a failed call is retried from the budget check, without end.
RetryFromBudget(r) ==
    /\ Goto(r, "call", "budget")
    /\ UNCHANGED <<storeVars, call, attempt, result, response, answer, aborts>>

\* provider.complete raises ProviderError: no answer, or a reply that is cut
\* off, empty or not JSON.  The latter were billed and are not recorded.
ProviderFails(r) ==
    /\ pc[r] = "call"
    /\ TryOrEnd(r, "call", attempt[r] + 1, "provider_unavailable", None)
    /\ UNCHANGED <<storeVars, call, result, answer, aborts>>

\* Fault: the attempts of a call are counted from zero.
UsageFromZero(r, now) ==
    [request_id |-> IdOf(r), task |-> TaskFor(r),
     model |-> ModelsFor(r)[attempt[r]], attempts |-> attempt[r] - 1,
     cost |-> CostOf(result[r].cost), created |-> now]

\* Fault: the attempt is left out and the column's default, 1, is stored.
UsageDefaultAttempt(r, now) ==
    [request_id |-> IdOf(r), task |-> TaskFor(r),
     model |-> ModelsFor(r)[attempt[r]], attempts |-> 1,
     cost |-> CostOf(result[r].cost), created |-> now]

UsageOf(r, now) ==
    [request_id |-> IdOf(r), task |-> TaskFor(r),
     model |-> ModelsFor(r)[attempt[r]], attempts |-> attempt[r],
     cost |-> CostOf(result[r].cost), created |-> now]

\* The reply is metered before it is judged: whatever the verdict, it counts.
RecordUsage(r) ==
    LET output == Normalize[TaskFor(r)][result[r].output] IN
    /\ pc[r] = "usage"
    /\ \E now \in Now : InsertUsage(UsageOf(r, now))
    /\ \/ /\ output \in Valid[TaskFor(r)]
          /\ Goto(r, "usage", "store")
          /\ response' = [response EXCEPT ![r] =
                 Build(r, "completed", output, ModelsFor(r)[attempt[r]])]
          /\ UNCHANGED attempt
       \/ /\ output \notin Valid[TaskFor(r)]
          /\ TryOrEnd(r, "usage", attempt[r] + 1, "review", output)
    /\ result' = [result EXCEPT ![r] = None]
    /\ UNCHANGED <<call, answer, aborts>>

\* Fault: a run without a result is answered but not kept, to be tried again.
StoreIfCompleted(r) ==
    /\ Goto(r, "store", "reply")
    /\ IF response[r].status = "completed" THEN Put(KeyFor(r), response[r])
                                           ELSE UNCHANGED storeVars
    /\ UNCHANGED <<call, attempt, result, response, answer, aborts>>

Store(r) ==
    /\ Goto(r, "store", "reply")
    /\ Put(KeyFor(r), response[r])
    /\ UNCHANGED <<call, attempt, result, response, answer, aborts>>

Reply(r) ==
    /\ Finish(r, "reply", "OK", response[r])
    /\ UNCHANGED <<storeVars, aborts>>

\* A handler dies where it awaits: its worker stops, or the database or a
\* library raises what execute does not catch.  What it committed stays.
Abort(r) ==
    /\ aborts < MaxAborts
    /\ aborts' = aborts + 1
    /\ \E from \in Live : Finish(r, from, "INTERNAL_ERROR", None)
    /\ UNCHANGED storeVars

Handle(r) ==
    \/ Lookup(r) \/ Claim(r) \/ CheckRate(r) \/ CheckBudget(r)
    \/ ProviderReplies(r) \/ ProviderFails(r) \/ RecordUsage(r)
    \/ Store(r) \/ Reply(r)

\* Every call has been answered: the system may rest.
Terminating ==
    /\ \A r \in Request : pc[r] = "done"
    /\ UNCHANGED vars

Next ==
    \/ \E r \in Request : Arrive(r) \/ Handle(r) \/ Abort(r)
    \/ Tick /\ UNCHANGED handlerVars
    \/ Terminating

Spec == Init /\ [][Next]_vars

\* A handler that can go on does, and a provider call returns or fails: it is
\* given 45 seconds.
FairSpec == Spec /\ \A r \in Request : WF_vars(Handle(r))

=============================================================================
