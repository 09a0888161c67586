---------------------------- MODULE MemoryExecute ----------------------------
(***************************************************************************)
(* The endpoint over MemoryStore: one process, no database.  The store's    *)
(* methods are coroutines that never wait, so the event loop can switch     *)
(* calls at one place only, where a handler awaits its provider.  A step is *)
(* therefore everything up to the first provider call (Begin), or everything*)
(* from a provider's return to the next provider call or the answer.        *)
(*                                                                          *)
(* There is no claim: isinstance(store, PostgresStore) skips it.  A key is  *)
(* first seen when a handler puts its response, and put replaces.  The      *)
(* store dies with its process (Restart), and the calls in flight with it.  *)
(***************************************************************************)
EXTENDS Integers, Sequences, FiniteSets, Costs

CONSTANTS
    Request,        \* calls of the endpoint; each is its own request id
    Key, Task,      \* (product_id, idempotency_key), (product_id, task)
    Body, KeyOf, TaskOf,
    Sound,          \* bodies that pass the checks between token and lookup
    Token, JtiOf, ExpOf,    \* tokens that verify until their exp
    TokensOf,       \* the tokens each call may be sent with
    Bypass,         \* calls that fail authentication go on: the development mode
    Jti,            \* (iss, jti) pairs
    Model, OrderedModels,
    Output, Normalize, Valid,
    Cost, Budget, RateLimit, Window,
    None,           \* Python's None, an absent entry
    MaxClock,       \* bound: the last tick of the clock
    MaxRestarts     \* bound: restarts of the process

Time == 0 .. MaxClock

ASSUME MemoryAssumption ==
    /\ KeyOf \in [Body -> Key] /\ TaskOf \in [Body -> Task] /\ Sound \subseteq Body
    /\ JtiOf \in [Token -> Jti] /\ ExpOf \in [Token -> Nat]
    /\ TokensOf \in [Request -> SUBSET Token] /\ Bypass \in BOOLEAN
    /\ OrderedModels \in [Task -> Seq(Model)]
    /\ Normalize \in [Task -> [Output -> Output]]
    /\ Valid \in [Task -> SUBSET Output]
    /\ Cost \subseteq Nat /\ Budget \in [Task -> Int] /\ RateLimit \in [Task -> Int]
    /\ Window \in Nat \ {0} /\ MaxClock \in Nat /\ MaxRestarts \in Nat
    /\ None \notin Request \cup Body \cup Token \cup Output \cup Model \cup Int

VARIABLES
    clock, restarts,
    records,        \* MemoryStore.records, by (product, key)
    usage,          \* MemoryStore.usage, each row with the call that added it
    replayed,       \* MemoryStore.replayed_jtis: the expiry of each claimed jti
    times,          \* MemoryStore.request_times, by (product, task), each
                    \* timestamp with the call that left it
    pc, attempt, answer,
    call,           \* [body, token, life] of each call that was not refused
                    \* for its token
    acceptedAt, passedAt, before    \* history, read by the properties only:
                    \* when a call's token was accepted, when it got past the
                    \* rate limit, and which calls had been answered by then

storeVars == <<records, usage, replayed, times>>
history == <<acceptedAt, passedAt, before>>
vars == <<clock, restarts, storeVars, pc, call, attempt, answer, history>>

Response ==
    [request_id : Request, output : Output \cup {None}, model : Model \cup {None},
     status : {"completed", "review", "budget_exhausted", "provider_unavailable"}]

Code == {"OK", "UNAUTHORIZED", "REFUSED", "IDEMPOTENCY_CONFLICT", "RATE_LIMITED", "INTERNAL_ERROR"}

\* None is no entry of the store, no call and no answer.
ASSUME NoneIsNoEntry ==
    /\ None \notin [digest : Body, response : Response]
    /\ None \notin [body : Body, token : Token, life : Nat]
    /\ None \notin [code : Code, response : Response \cup {None}]

TypeOK ==
    /\ clock \in Time /\ restarts \in 0 .. MaxRestarts
    /\ records \in [Key -> [digest : Body, response : Response] \cup {None}]
    /\ usage \subseteq [call : Request, task : Task, attempts : Nat \ {0}, cost : Nat]
    /\ replayed \in [Jti -> Nat \cup {None}]
    /\ times \in [Task -> SUBSET [call : Request, at : Time]]
    /\ pc \in [Request -> {"idle", "call", "done"}]
    /\ call \in [Request -> [body : Body, token : Token, life : Nat] \cup {None}]
    /\ attempt \in [Request -> Nat]
    /\ answer \in [Request -> [code : Code, response : Response \cup {None}] \cup {None}]
    /\ acceptedAt \in [Request -> Time \cup {None}]
    /\ passedAt \in [Request -> Time \cup {None}]
    /\ before \in [Request -> SUBSET Request]

EmptyStore ==
    /\ records = [k \in Key |-> None]
    /\ usage = {}
    /\ replayed = [j \in Jti |-> None]
    /\ times = [t \in Task |-> {}]

Init ==
    /\ clock = 0 /\ restarts = 0
    /\ EmptyStore
    /\ pc = [r \in Request |-> "idle"]
    /\ call = [r \in Request |-> None]
    /\ attempt = [r \in Request |-> 0]
    /\ answer = [r \in Request |-> None]
    /\ acceptedAt = [r \in Request |-> None]
    /\ passedAt = [r \in Request |-> None]
    /\ before = [r \in Request |-> {}]

-----------------------------------------------------------------------------
(* The store *)

\* Fault: an entry goes one tick too early.
KeptTooShort(expiry) == expiry > clock + 1

\* claim_jti keeps the entries that expire after now, and drops the rest.
Kept(expiry) == expiry > clock

Unexpired ==
    [j \in Jti |-> IF replayed[j] # None /\ Kept(replayed[j]) THEN replayed[j] ELSE None]

\* allow_rate_limit: the timestamps of the last minute.
Recent(t) == {stamp \in times[t] : stamp.at > clock - Window}

\* Fault: one call more than the limit.
AllowedOneMore(t) == Cardinality(Recent(t)) <= RateLimit[t]

Allowed(t) == Cardinality(Recent(t)) < RateLimit[t]

WithNow(r, t) == Recent(t) \cup {[call |-> r, at |-> clock]}

\* Fault: a refused call is counted like one let through.
CountEveryCall(r, t) ==
    IF RateLimit[t] <= 0 THEN times ELSE [times EXCEPT ![t] = WithNow(r, t)]

\* What allow_rate_limit leaves: a refused call is not counted.
Counted(r, t) ==
    IF RateLimit[t] <= 0 THEN times
    ELSE [times EXCEPT ![t] = IF Allowed(t) THEN WithNow(r, t) ELSE Recent(t)]

Spent(t) == Total({u \in usage : u.task = t})

\* Fault: the last dollar can be spent twice.
SpentTooMuch(t) == Spent(t) > Budget[t]

BudgetExhausted(t) == Spent(t) >= Budget[t]

-----------------------------------------------------------------------------
(* The handler *)

BodyOf(r) == call[r].body
KeyFor(r) == KeyOf[BodyOf(r)]
TaskFor(r) == TaskOf[BodyOf(r)]

Say(r, code, p) ==
    /\ pc' = [pc EXCEPT ![r] = "done"]
    /\ answer' = [answer EXCEPT ![r] = [code |-> code, response |-> p]]
    /\ attempt' = [attempt EXCEPT ![r] = 0]

Build(r, status, output, model) ==
    [request_id |-> r, status |-> status, model |-> model,
     output |-> IF status = "completed" THEN output ELSE None]

\* Fault: only a completed run is put, so that the others can be tried again.
PutCompleted(r, b, p) ==
    /\ records' = IF p.status = "completed"
                    THEN [records EXCEPT ![KeyOf[b]] = [digest |-> b, response |-> p]]
                    ELSE records
    /\ Say(r, "OK", p)

\* Fault: the key is put without its response, as a claim would.
PutDigestOnly(r, b, p) ==
    /\ records' = [records EXCEPT ![KeyOf[b]] = [digest |-> b, response |-> None]]
    /\ Say(r, "OK", p)

\* put replaces whatever is there, and the answer follows without an await.
PutAndSay(r, b, p) ==
    /\ records' = [records EXCEPT ![KeyOf[b]] = [digest |-> b, response |-> p]]
    /\ Say(r, "OK", p)

\* The loop over ordered_models goes on to model n, or ends with what the last
\* try left.
TryOrEnd(r, b, n, status) ==
    \/ /\ n <= Len(OrderedModels[TaskOf[b]])
       /\ pc' = [pc EXCEPT ![r] = "call"]
       /\ attempt' = [attempt EXCEPT ![r] = n]
       /\ UNCHANGED <<records, answer>>
    \/ /\ n > Len(OrderedModels[TaskOf[b]])
       /\ PutAndSay(r, b, Build(r, status, None, None))

\* Past the rate limit: the budget, then the first model.
Run(r, b) ==
    /\ passedAt' = [passedAt EXCEPT ![r] = clock]
    /\ before' = [before EXCEPT ![r] = {s \in Request : answer[s] # None}]
    /\ \/ /\ BudgetExhausted(TaskOf[b])
          /\ PutAndSay(r, b, Build(r, "budget_exhausted", None, None))
       \/ /\ ~BudgetExhausted(TaskOf[b])
          /\ TryOrEnd(r, b, 1, "provider_unavailable")

Refuse(r, code, p) ==
    /\ Say(r, code, p)
    /\ UNCHANGED <<records, passedAt, before>>

\* Fault: a key answers whatever body it comes with.
ReplayAnyBody(r, b) ==
    /\ records[KeyOf[b]] # None
    /\ Refuse(r, "OK", records[KeyOf[b]].response)
    /\ UNCHANGED times

\* What a key that has a record answers: its response is never None here.
Replay(r, b) ==
    /\ records[KeyOf[b]] # None
    /\ \/ /\ records[KeyOf[b]].digest # b
          /\ Refuse(r, "IDEMPOTENCY_CONFLICT", None)
       \/ /\ records[KeyOf[b]].digest = b
          /\ Refuse(r, "OK", records[KeyOf[b]].response)
    /\ UNCHANGED times

\* After authentication: the checks of the body, the lookup, the rate limit.
Admit(r, b) ==
    \/ /\ b \notin Sound
       /\ Refuse(r, "REFUSED", None)
       /\ UNCHANGED times
    \/ /\ b \in Sound
       /\ Replay(r, b)
    \/ /\ b \in Sound
       /\ records[KeyOf[b]] = None
       /\ times' = Counted(r, TaskOf[b])
       /\ \/ /\ RateLimit[TaskOf[b]] > 0
             /\ ~Allowed(TaskOf[b])
             /\ Refuse(r, "RATE_LIMITED", None)
          \/ /\ RateLimit[TaskOf[b]] > 0 => Allowed(TaskOf[b])
             /\ Run(r, b)

Enter(r, b, tok) ==
    /\ call' = [call EXCEPT ![r] = [body |-> b, token |-> tok, life |-> restarts]]
    /\ Admit(r, b)

\* authenticate returned None.
Unidentified(r, b, tok) ==
    /\ IF Bypass THEN Enter(r, b, tok)
                 ELSE Refuse(r, "UNAUTHORIZED", None) /\ UNCHANGED <<times, call>>
    /\ UNCHANGED acceptedAt

\* A call with token tok and body b, from its arrival to its first provider call
\* or its answer.  The jti is spent whatever the call is then answered.
Begin(r) ==
    /\ pc[r] = "idle"
    /\ \E b \in Body, tok \in TokensOf[r] :
          /\ \/ /\ ExpOf[tok] <= clock
                /\ Unidentified(r, b, tok)
                /\ UNCHANGED replayed
             \/ /\ ExpOf[tok] > clock
                /\ Unexpired[JtiOf[tok]] # None
                /\ replayed' = Unexpired
                /\ Unidentified(r, b, tok)
             \/ /\ ExpOf[tok] > clock
                /\ Unexpired[JtiOf[tok]] = None
                /\ replayed' = [Unexpired EXCEPT ![JtiOf[tok]] = ExpOf[tok]]
                /\ acceptedAt' = [acceptedAt EXCEPT ![r] = clock]
                /\ Enter(r, b, tok)
    /\ UNCHANGED <<clock, restarts, usage>>

\* provider.complete returns: its usage is recorded, the reply repaired and
\* judged, and the run ends or goes on, all without an await.
ProviderReplies(r) ==
    /\ pc[r] = "call"
    /\ \E o \in Output, c \in Cost :
          LET output == Normalize[TaskFor(r)][o] IN
          /\ usage' = usage \cup
                {[call |-> r, task |-> TaskFor(r), attempts |-> attempt[r], cost |-> c]}
          /\ \/ /\ output \in Valid[TaskFor(r)]
                /\ PutAndSay(r, BodyOf(r), Build(r, "completed", output,
                                              OrderedModels[TaskFor(r)][attempt[r]]))
             \/ /\ output \notin Valid[TaskFor(r)]
                /\ TryOrEnd(r, BodyOf(r), attempt[r] + 1, "review")
    /\ UNCHANGED <<clock, restarts, replayed, times, call, history>>

ProviderFails(r) ==
    /\ pc[r] = "call"
    /\ TryOrEnd(r, BodyOf(r), attempt[r] + 1, "provider_unavailable")
    /\ UNCHANGED <<clock, restarts, usage, replayed, times, call, history>>

\* The process stops and starts again: an empty store, and no answer for the
\* calls in flight.
Restart ==
    /\ restarts < MaxRestarts
    /\ restarts' = restarts + 1
    /\ records' = [k \in Key |-> None]
    /\ usage' = {}
    /\ replayed' = [j \in Jti |-> None]
    /\ times' = [t \in Task |-> {}]
    /\ pc' = [r \in Request |-> IF pc[r] = "call" THEN "done" ELSE pc[r]]
    /\ attempt' = [r \in Request |-> 0]
    /\ answer' = [r \in Request |-> IF pc[r] = "call"
                     THEN [code |-> "INTERNAL_ERROR", response |-> None] ELSE answer[r]]
    /\ UNCHANGED <<clock, call, history>>

Tick ==
    /\ clock < MaxClock
    /\ clock' = clock + 1
    /\ UNCHANGED <<restarts, storeVars, pc, call, attempt, answer, history>>

Terminating == (\A r \in Request : pc[r] = "done") /\ UNCHANGED vars

Next ==
    \/ \E r \in Request : Begin(r) \/ ProviderReplies(r) \/ ProviderFails(r)
    \/ Restart
    \/ Tick
    \/ Terminating

Spec == Init /\ [][Next]_vars

-----------------------------------------------------------------------------
(* Properties.  A life is what lies between two restarts; what the store     *)
(* promises, it promises for one life.                                       *)

SameLife(r, s) == call[r].life = call[s].life
Ran(r) == passedAt[r] # None
ToldResult(r) == answer[r] # None /\ answer[r].code = "OK"

\* Once a caller was told a result, no later call with its key is run, whatever
\* its body: a key is run twice only by calls that arrived before the first was
\* answered.  (execute's lookup, and put before the answer)
RerunsOverlap ==
    \A r, s \in Request :
        (Ran(s) /\ r \in before[s] /\ ToldResult(r) /\ SameLife(r, s))
        => KeyFor(r) # KeyFor(s)

\* What a key answers changes only through a run that was in flight when the
\* first answer was given: without such an overlap every caller is told the
\* same response, or that the key belongs to the other body.
AnswersDifferOnlyByOverlap ==
    \A r, s \in Request :
        (/\ ToldResult(r) /\ ToldResult(s) /\ SameLife(r, s)
         /\ KeyFor(r) = KeyFor(s)
         /\ BodyOf(r) # BodyOf(s) \/ answer[r].response # answer[s].response)
        => \E p, q \in Request :
              /\ p # q /\ Ran(p) /\ Ran(q)
              /\ KeyFor(p) = KeyFor(r) /\ KeyFor(q) = KeyFor(r)
              /\ p \notin before[q] /\ q \notin before[p]
              /\ SameLife(p, r) /\ SameLife(q, r)

\* The rate limit is exact in one process: in no window do more calls get past
\* it than it says, though the list is pruned as it is read.
RateWindowBound ==
    \A t \in Task, c \in Time : RateLimit[t] > 0 =>
        Cardinality({r \in Request : /\ Ran(r) /\ TaskFor(r) = t
                                     /\ call[r].life = restarts
                                     /\ passedAt[r] \in (c - Window + 1) .. c}) <= RateLimit[t]

\* And a call is refused only when as many others got past it in the minute
\* before: neither itself nor refused calls count.
RefusedAtLimit ==
    [][\A r \in Request :
          (answer[r] = None /\ answer'[r] # None /\ answer'[r].code = "RATE_LIMITED") =>
             LET t == TaskOf[call'[r].body] IN
             Cardinality({s \in Request : /\ Ran(s) /\ TaskFor(s) = t
                                          /\ call[s].life = restarts
                                          /\ passedAt[s] > clock - Window}) = RateLimit[t]]_vars

\* A jti is accepted again in one life only from the exp of the token it was
\* accepted with.
OncePerJti ==
    \A r, s \in Request :
        (/\ r # s /\ acceptedAt[r] # None /\ acceptedAt[s] # None
         /\ SameLife(r, s)
         /\ JtiOf[call[r].token] = JtiOf[call[s].token])
        => \/ acceptedAt[s] >= ExpOf[call[r].token]
           \/ acceptedAt[r] >= ExpOf[call[s].token]

\* No call reaches a provider when the answered calls of its task have cost
\* what the budget allows: only runs in flight together overspend it.
OverspentOnlyTogether ==
    \A s \in Request : (\E u \in usage : u.call = s) =>
        Total({u \in usage : u.task = TaskFor(s) /\ u.call \in before[s]}) < Budget[TaskFor(s)]
=============================================================================
