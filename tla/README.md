# A TLA+ model of the Edufurther AI Router

The router is a small FastAPI service. One endpoint,
`POST /api/v1/internal/ai/execute` (`src/app/main.py`), takes a task from a
product's backend, asks a language model, checks the reply and returns it. What
makes it more than a proxy is what it promises around that call: an
`Idempotency-Key` runs once and replays afterwards, spending stays within a daily
budget, calls stay within a rate, a service token is used once, and the tables
that hold all this stay consistent while several workers serve calls at once and
any of them may die. These promises are what the modules here state, check with
TLC and prove with TLAPS.

Paths below are relative to the repository; `main.py`, `store.py`, `ai_router.py`,
`providers.py` are `src/app/main.py`, `src/app/infra/store.py`,
`src/app/domain/ai_router.py` and `src/app/infra/providers.py`.

## 1. The system

| Component | State | Operations | Modelled in |
|---|---|---|---|
| Execute handler (`main.py`, `execute`) | the locals of a running coroutine | lookup, claim, rate check, budget check, provider call, usage, store, reply | `Execute` |
| Admission (`authenticate`, first half of `execute`) | `service_jti_replays` | verify a token, claim its jti, refuse a call | `Admission` |
| `PostgresStore` (`store.py`) | `ai_idempotency_keys`, `ai_requests`, `ai_usage`, `ai_budget_periods`, `service_jti_replays` | `get`, `claim`, `put`, `record_usage`, `budget_exhausted`, `allow_rate_limit`, `claim_jti` | `PostgresStore`, `ClaimTransaction`, `Admission` |
| `MemoryStore` (`store.py`) | dictionaries of one process, gone with it | the same methods but `claim` | `MemoryExecute` |
| Model routing (`ordered_models`, `TaskRoutingPolicy`) | settings | which models a task is sent to, which settings let the process start | `Routing`, `Attempts`; a constant elsewhere |
| Task registry and output rules (`ai_router.py`) | none | `normalize_output`, `validate_candidate` and the validators, the bio clean-up | `Reply`, `BioText`; two constants elsewhere |
| Provider adapter (`providers.py`) | none | `complete`: a reply, or `ProviderError`; `_parse_output` | `Reply`; steps of `Execute`, `MemoryExecute`, `Attempts` |
| Telemetry (`observability.py`) | a Langfuse client, the handles of a trace and its generations | `start`, `start_generation`, `finish` of both, `flush` | `Attempts` |
| Settings, schemas, problems, migrations | configuration | | constants, in part |
| Session factory, health, scripts, evaluations, CI | none at run time | | not modelled, section 6 |

How they meet: a call passes the request-id middleware, then admission, then the
handler. The handler awaits one store method or one provider call at a time. Calls
run in coroutines of several worker processes, so at every `await` any other call
may run; workers share nothing but the database. Every method of `PostgresStore` is
a transaction of its own, therefore the handler as a whole is *not* atomic: lookup,
claim, counting, charging and storing are separate commits. Over `MemoryStore`, which
development uses, the same handler has a single point where it gives way, the provider
call, and no claim. Inside the handler a list of models is tried in turn; each reply
is parsed, repaired and judged, and every try is told to Langfuse as it goes.

What is hard about it, and where (the full list, each at its line, is under
`hazards` in `PROJECT.json`):

* *Interleaving.* Two workers claim one key; calls insert their rows and then count
  them; calls pass the budget check together and are charged later.
* *Stale state.* The lookup's result is used after the await of `claim`; a token is
  verified before its jti is claimed; the day is read at the budget check and
  again when the reply is charged; a row's time is its writer's, taken before the
  statement that inserts it.
* *Crash and lost answers.* A worker dies with a key claimed; an answer is lost and
  the caller retries with the key.
* *Partial failure.* Models fail, are rejected and succeed in any order; the
  response tells only of the last one, the usage rows of all of them.
* *Protocol order.* The rate limit is checked after the claim; the jti is spent
  before scope, task, header and size are looked at; request ids come from callers.
* *Boundaries.* The count includes the caller; the budget is compared with `>=`; a
  reply without a price is charged zero; a repaired bio may grow past its cap.
* *Rewrites in sequence.* The clean-up of a bio is seven substitutions, each of which
  may produce what an earlier one removes.

What makes each component correct:

* handler: one owner per key, one response per key, replays tell that response,
  the models are paid once per key, everyone is answered and every key settles, or it
  is known which loss stranded it;
* store: the two tables of a request agree, the ledgers add up, `claim` is atomic
  and deadlock-free, nothing committed is rebound;
* admission: a jti is accepted once while its token is valid, whatever the call is
  answered afterwards, and only the entitled are admitted;
* limits: of the calls claimed within a window fewer than the limit get past it, a spent
  budget stops the calls that have yet to check it;
* memory store: the same promises for one life of the process, but for runs of one key
  that overlap;
* routing and attempts: a run asks the models its settings name, each once and in
  order, answers by the last of them, and is answered whatever the telemetry does;
* replies: an object is read out of what surrounds it or not at all; the clean-up keeps
  every word and leaves nothing it was to remove; a rejection has a reason.

## 2. The modules

| Module | What it is |
|---|---|
| `PostgresStore` | the tables and one operator per transaction |
| `Execute` | the handler over `PostgresStore`, one action per await |
| `ExecuteProperties` | what is claimed of `Execute`, and its refinement of `OnceOnly` |
| `OnceOnly` | the abstract promise to callers: no tables, workers or crashes |
| `ClaimTransaction` | `PostgresStore.claim` statement by statement, and the atomic step it implements |
| `Admission` | `authenticate`, `claim_jti` and the refusals that come before the lookup |
| `MemoryExecute` | the whole endpoint over `MemoryStore`, with restarts |
| `Routing` | a task's settings, which of them load, and `ordered_models` |
| `Attempts` | one run of the loop over those models, with every Langfuse call in it |
| `BioText` | `_clean_bio_text` and `_validate_bio` on sequences of character classes |
| `Reply` | one model reply: `_parse_output`, `normalize_output`, `validate_candidate` |
| `Costs` | what usage rows have cost together |
| `MCExecute`, `MCAdmission`, `MCClaimTransaction`, `MCMemory`, `MCAttempts`, `MCReply` | small instances for TLC |
| `ExecuteProofs`, `MeteringProofs`, `AdmissionProofs`, `ClaimTransactionProofs`, `MemoryProofs`, `AttemptsProofs`, `ReplyProofs` | theorems and proofs |
| `FoldProofs` | lemmas they share: least counterexamples, and sums over usage rows |

```
PostgresStore <- Execute <- ExecuteProperties <- MCExecute
      ^                       |         ^------- ExecuteProofs <- MeteringProofs
      |                       | INSTANCE
      |                       v
      |                    OnceOnly
      +--- ClaimTransaction <- MCClaimTransaction, ClaimTransactionProofs
Admission     <- MCAdmission, AdmissionProofs
MemoryExecute <- MCMemory, MemoryProofs
Routing <- Attempts <- MCAttempts, AttemptsProofs
BioText <- Reply    <- MCReply, ReplyProofs
Costs   <- ExecuteProperties, MemoryExecute
Costs   <- FoldProofs <- MeteringProofs, MemoryProofs, AttemptsProofs, ReplyProofs
```

Each module's map to the source, definition by definition, is in `PROJECT.json`.

### PostgresStore

`keyRow`, `requestRow`, `usage` and `spent` are `ai_idempotency_keys` (by
`(product_id, idempotency_key)`), `ai_requests` (by its unique `request_id`),
`ai_usage` and the `spent_usd` of `ai_budget_periods` (by task and day); `clock` is
the time of day, by which the workers set their clocks. `InsertClaim`, `Put`,
`InsertUsage` are the writes,
`Claimed`, `RequestIdTaken`, `BudgetExhausted`, `RecentRequests`/`AllowRateLimit`
the reads. Abstractions:

* A body is a value that fixes its key and its task; its digest is the body itself,
  since `digest` hashes the whole payload in sorted order.
* Money is an integer, since only sums and comparisons matter; `CostOf` is the
  conversion `estimated_cost_usd or 0`.
* Time is read by the workers, never by the database. `created_at` is a default that the
  ORM evaluates in Python when it flushes the row (`models.py:20`), and the start of the
  rate window is another `datetime.now(UTC)` (`store.py:242`), each before the statement
  it goes into and on the worker's own clock. So a step that stamps or counts takes any
  time of `Now`, which lies up to `Skew` ticks before or after `clock`.
* The day is read apart from all that, by `date.today()`, where the worker runs: `DayOf`
  tells the day of each tick there, and the table keeps no day of a usage row.
  `Today` is what the budget check may read. `record_usage` flushes its row and reads the
  day next, so `InsertUsage` charges any day of `TodayFrom(created)`: that of the stamp or
  of a later reading.

### Execute

`pc` says what a call awaits next: `lookup` (`store.get`), `claim`, `rate`
(`allow_rate_limit`), `budget` (`budget_exhausted`), `call` (`provider.complete`),
`usage` (`record_usage`), `store` (`put`), `reply`. A step is one await and the code
up to the next, so the guard of each action is the condition the code evaluates on
the value awaited:

| Code | Action |
|---|---|
| middleware, validated body | `Arrive` |
| `store.get` and the three answers that a found row gives | `Lookup` |
| `store.claim`, its record or its `RequestIdConflict` | `Claim` |
| `allow_rate_limit`, 429 | `CheckRate` |
| `budget_exhausted`, and the response of that branch | `CheckBudget` |
| `provider.complete` returns / raises `ProviderError` | `ProviderReplies`, `ProviderFails` |
| `record_usage`, then normalise and validate, then `break` or the next model | `RecordUsage` |
| `store.put` | `Store` |
| `return ExecuteResponse(**response)` | `Reply` |
| worker death, or an exception `execute` does not catch | `Abort` |

A call's own name is the request id the middleware draws (`uuid4`, unique); a
caller may send one of `ClientId` instead, so collisions are those of
caller-chosen ids. `Normalize`, `Valid` and `OrderedModels` are constants: pure
functions of the task's rules and the settings. `Abort` can happen at every await,
ends the call with `INTERNAL_ERROR` (which stands for a 500 and for a lost
connection) and leaves what was committed; it also covers a `put` that PostgreSQL
refuses. A cost may be `None`, a reply may be rejected, a fallback may follow both
an error and a rejection, as in the loop.

### ClaimTransaction

`claim` runs `SELECT ... FOR UPDATE`, `INSERT` of the request row, `flush`, `INSERT`
of the key row and `COMMIT`; on `IntegrityError` it rolls back, reads the key again
and returns the winner's record, raises `RequestIdConflict` or re-raises. The tables
hold committed rows; `newRequest` and `newKey` say which call's *uncommitted* insert
holds a unique value. An insert of such a value waits for that transaction to end:
this is PostgreSQL's behaviour and the reason there could be a deadlock. `Fail` is
a lost connection before the commit. `AtomicClaim` is the method as `Execute` takes
it.

### Admission

A call arrives with a token or none and at most one other defect (task not
allowed, header and body disagree, source too large). `Verify` is everything up to
the claim of the jti; `Genuine` are the tokens whose key, signature, issuer, subject
and audience are the registered caller's, `StartOf` is the later of a token's `nbf` and
`iat`. `ClaimJti` is the store's transaction
(`DELETE` what has expired, `INSERT ... ON CONFLICT DO NOTHING`) and the refusals
that follow it without another await (`Verdict`). Expiry is compared with a clock
that ticks between the two steps. `Bypass` is the development mode.

### MemoryExecute

The methods of `MemoryStore` are coroutines that never suspend, so calls can only
change places where a handler awaits its provider. A step is therefore everything up
to the first provider call (`Begin`: token, jti, the checks of the body, lookup, rate
limit, budget) or everything from a provider's return to the next provider call or
the answer (`ProviderReplies`, `ProviderFails`). `execute` asks for a claim only of a
`PostgresStore`; here a key is first seen when a response is put, and `put` replaces.
`Restart` empties the store and takes the calls in flight with it; a *life* is what lies
between two restarts, and each call that was let in remembers the one it belongs to. With
`Bypass`, the development mode (`main.py:147`), a call that fails authentication goes on
all the same; a token whose jti is spent or that has expired then keeps nobody out.

`acceptedAt`, `passedAt` and `before` are history: when a call's jti was accepted, when
it got past the rate limit, and who had been answered by then. Only properties read
them. `claim_jti` keeps the entries with `expiry > now`, `allow_rate_limit` those of the
last window, and writes the pruned list back even when it refuses, as `Counted` does. A list
of timestamps is the set of its stamps: a call leaves at most one, which is named after it, and the
code asks of the list only which entries are recent and how many they are.

### Routing and Attempts

`Setting` is what a deployment may write for one task: a policy or none, an entry in
`TASK_MODELS` or none, `PRIMARY_MODEL` and `FALLBACK_MODEL`, either of which may be empty.
`Loads` is the validation of `TaskRoutingPolicy`, without which the process does not
start; only policies are validated. `Candidates` and `OrderedModels` are `ordered_models`.

`Attempts` is one run over `OrderedModels(setting)` from the start of its trace to its
answer:

| Code | Action |
|---|---|
| `tracer.start` | `StartTrace` |
| `budget_exhausted` and its response | `CheckBudget` |
| head of the loop, `start_generation`; or the end of the list | `NextModel` |
| `provider.complete` returns / raises `ProviderError` | `ProviderReplies`, `ProviderFails` |
| `record_usage`, the verdict, `generation.finish` | `RecordUsage` |
| `trace.finish` with its `flush` | `FinishTrace` |
| `store.put`, the answer | `Put` |

What Langfuse has been told (`span`, `generations`) is kept apart from the handles the run
holds (`handle`, `reference`, `held`), since the two differ where a client call raised. Each
call of the client may raise, and is caught where the code catches it; each store call may
raise, and nothing catches that (`Die`). `raised` records where the client did.

### BioText and Reply

A bio is a sequence of *kinds* of characters, the ones that the regular expressions tell
apart, twenty-four of them: letters, digits, dashes, emoji, the zero-width joiner, blanks
(space and tab), the line feed, all other whitespace, commas, dots, exclamation marks and
other punctuation, and each character `_MARKUP` is about. Other whitespace (`\r`, the no-break
space) is a kind of its own since `strip()` and `\s` take it while `[ \t]` and `$` do not.
`Rewrite(1..7)` are the substitutions of `_clean_bio_text` in their order, each stated as the
set of positions it removes (`Without`) or the pieces it puts; `HasMarkup` is `_MARKUP`,
alternative by alternative, and `GoodBio` is `_validate_bio`.

A reply's content is a sequence of tokens: prose, fences, brackets, single braces, JSON
scalars and whole objects; `Nothing` is the token that none of them is, for what could not be
read. `Unfenced`, `Json`, `Braced` and `Loads` are `_parse_output`. Of an
object the model keeps which fields it has and of what kind each value is, which is all
that the validators ask. The steps are those of the code: `Parse` or one of its three
errors, `Normalize`, the seven rewrites, `Validate`.

`Clean`, the rules of a bio and `Loads` were compared with `_clean_bio_text`, `_validate_bio`
and `_parse_output` themselves on several thousand inputs each; they agree. The one place
where `Json` is known to differ is a nested list of five tokens or more around an object,
which `json.loads` reads and `Json` does not; its comment says so, and the run's contents
are shorter.

### Faults

A definition introduced by a comment that begins with "Fault" is a plausible bug of
the definition that follows it. No specification uses it. Put in that definition's
place, it must make TLC find the property violated that guards against it; the
pairs are under `mutants` in `PROJECT.json`. Every property of every passing run
has one, so each is known to be able to fail.

## 3. What the runs check

| Run | Instance | Question |
|---|---|---|
| `safety` | 3 calls, 2 keys, 3 bodies (two share a key), 2 tasks, 2 models, 1 caller-chosen request id, a budget of one reply, 1 crash; 245,000 states | what tables and callers may see; refinement of `OnceOnly` |
| `progress` | 2 calls, 3 bodies, 2 keys, 2 days, budget of one reply; 31,000 states | answers, settlement, the budget over midnight |
| `limits` | 3 calls with keys of their own, one task, limit 2 a minute of 2 ticks, workers' clocks up to a tick off, clock 0..2, a day each tick, replies with and without a price; 1,504,000 states | rate window and ledgers |
| `rate_own` | the same, limit 1 | expected violation, see section 5 |
| `rate_strands` | the same, limit 2 | expected violation, see section 5 |
| `admission` | 3 calls, 5 tokens (2 with one jti and different lifetimes, one without scopes, one not valid yet, one forged), all defects, clock 0..3; 624,000 states | who is admitted and how often a jti is accepted |
| `admission_scope` | the same, scope registered | expected violation, see section 5 |
| `memory` | 3 calls, 2 keys, 3 bodies and 1 that the checks refuse, 2 tasks, 2 models, 2 tokens with one jti and different lifetimes, development bypass on, limit 1, a budget of one reply, window 2, clock 0..2, 1 restart; 1,940,000 states | what a key, a limit, a jti and a budget promise without a claim |
| `reply` | contents of up to 4 tokens in every order, objects of every shape for every task, bios of up to 3 characters of every kind and up to 7 of those that interact, a cap of 5; 738,000 states | what is read, what the clean-up does, what is rejected |
| `reply_verified` | the same | expected violation, see section 5 |
| `attempts` | 3 names of which one is malformed, every setting over them with policies of length 0 to 2, every place where client, model or store may fail; 298,000 states | which models are tried, what is answered, what the trace says |
| `claim_transaction` | 4 calls, 3 bodies, 2 keys, 3 request ids, one shared across keys, 1 lost connection; 1,500 states | atomicity and absence of deadlock |

The properties, in words:

* `SingleOwner`: between its claim and its `put` a handler is the only one of its
  key and the key's row is its own.
* `TablesAgree`: the key row and the request row of a call tell one story after
  every commit.
* `ReplayFaithful`: whoever is told a result is told the response its key was
  settled with, for its own body.
* `RowsAreFinal`: no step rebinds or removes a key's row or replaces a response.
* `MeteredOnce`: every metered reply of a key belongs to one request, each attempt
  once: the models are paid once per key, crashes and retries included.
* `ResponseAccounted`: the stored response fits what was metered and carries a valid
  output or none.
* `StrandedByLossOnly`: a claimed key without a response has its claimant at work, or that
  very call was refused for its rate (finding 2) or died: nothing else strands a key.
* `RateWindowBound`: at any time, of the calls that claimed their keys within the window
  that ends then, by every worker's clock, fewer than `RateLimit` have got past the check.
  That is what the count of rows by `created_at` bounds, and no more: of calls that wait a
  window or longer between their claim and their count it bounds nothing (section 5).
* `LedgerMatchesUsage`: a task's ledgers share out its usage rows: each row is charged to one
  day, that of its `created_at` or of a reading soon after, and the ledger of a day is what
  was charged to it. No charge is lost or made twice, across midnight or between workers.
* `InProgressIsTrue`: `REQUEST_IN_PROGRESS` is said only while someone works on the
  key (without crashes and rate limits, which break it by design and by finding 2).
* `ExhaustedBudgetStopsCalls`: once a day's budget is spent and every worker's clock tells
  that day, a call that has yet to check it does not reach a provider until some clock
  tells another. Calls past the check may overspend: the code does not reserve.
* `EveryCallAnswered`, `ClaimsSettle`: liveness, see below.
* `ImplementsOnceOnly`: the handler over the tables implements `OnceOnly` under the
  mapping `bound` = digest of the key's row, `settled` = its response, `told` = the
  answers.
* `OncePerJti`, `SpentUntilExpiry`, `AdmittedIsEntitled`: a jti is accepted again only
  after the token it was accepted with has expired; an acceptance stays spent until
  then even if the call was refused; nothing is admitted without a verified token,
  the scopes asked for and an acceptance of its own.
* `RerunsOverlap`, `AnswersDifferOnlyByOverlap` (memory): once a caller was told a result, no
  later call runs its key; whoever is told something else was told so through a run that
  overlapped. That is what is left of `SingleOwner` and `ReplayFaithful` without a claim.
* `RateWindowBound`, `RefusedAtLimit` (memory): here the limit is exact, in both
  directions: a call is refused only when as many others got past in the window.
* `OncePerJti` (memory): as in admission, for one life of the process.
* `OverspentOnlyTogether`: no call reaches a provider when the calls answered before it
  have already cost the budget.
* `TriedAsConfigured`: a run tries what its settings name, each once, in their order, the
  fallback last unless the policy lists it, all of them unless one completes; the primary
  model only for a task without an entry of its own.
* `ResponseExplained`: the response is the last try's verdict, whatever the telemetry did.
* `TraceAgrees`: what Langfuse was told contradicts neither tries nor response; what is
  missing or left open, the client or an exception of the store took away.
* `AnsweredUnlessStoreRaises`: every run is answered, and by a 500 only where a store call
  raised.
* `ReadsNoPart`, `WrappedIsRead`: the object that is read is not a part of a larger one, nor
  one of two; the one object of a reply is read whatever prose, fence, bracket or scalar
  surrounds it, unless the reply was cut off.
* `WordsKept`, `TidyAfterOnePass`: the clean-up keeps every word, mark and line in order and
  joins two words only where nothing but emoji stood between them; no rewrite would find
  anything in its result, but for two that take commas: the fifth, and the sixth where the
  bio had whitespace other than blanks and line feeds (section 5).
* `RejectionExplained`: a repaired bio is sent to review only for having no words, for its
  length, or for markup that the bio shows as well when all that the repair may take (blanks,
  commas, dashes, emoji, joiners) is left out of it (`ShowsMarkup` of `KeptOf`). The repair
  can uncover markup, and the property says which; it makes none of anything else.
* `ClaimIsAtomic`, `EveryClaimReturns`: each statement of `claim` is a step of
  `AtomicClaim` or invisible, and no set of claims waits in a circle.

### Bounds, and why they are enough

Three calls are the smallest number with an owner, a racer and a later retry of one
key, or two racers and a bystander that shares a task's budget or a request id. Two
models reach every order of failure, rejection and success with a fallback; the task
with one model reaches the loop's end directly. A budget of one reply is spent by the
first and found spent by the second. `MaxAborts` is 1: a second crash only ends
another call earlier. In `limits` a window of two of the three ticks
both holds and forgets, and with a `Skew` of one tick stamps, counts and days are taken in
every order around it: calls claim and count a window apart, and a row is stamped on one
day and charged to the next. `progress` needs one midnight. In `admission` the clock passes the
expiry of both tokens of the shared jti. `ClaimTransaction` has enough calls for three
to want one key and, across keys, two to want one request id, which is what a cycle
of waits would need.

In `memory` two calls of one key can overlap while a third comes later, the shared jti is
bought with either of its tokens, and the window of two ticks out of three both holds and
forgets; one restart separates two lives. In `attempts` a list has up to three models, so that
there is a first, a middle and a last, and the names include one that no policy may hold and
the empty one. In `reply` four tokens are enough for two objects with something between and
around them; three characters of every kind try every alternative of every rule, and the longer
bios are over the kinds that one rewrite hands to another or to a rule: five are
enough for a rewrite to meet the work of two others. The cap of five is reached and passed.

TLC ends in seconds to two minutes on each. Calls are symmetric in
`safety`, `limits`, `admission` and `memory`; the runs with liveness use no symmetry. Deadlock is checked in
every run: the systems rest only when every call has been answered (`Terminating`).

### Fairness

`FairSpec` asks weak fairness of each handler (`Handle(r)`) and of nothing else: not
of arrivals, of the clock or of crashes. An event loop resumes every coroutine whose
await is done; database calls return or raise; a provider call is given 45 seconds
(`providers.py`, the `timeout` of `acompletion`) and then raises. `progress` has no
aborts and no rate limit, since both leave a key claimed for good (`StrandedByLossOnly`): `ClaimsSettle` says
what holds of the calls that are neither. In `ClaimTransaction` each call's transaction
is weakly fair; one that waits for another has no step enabled, so the absence of
deadlock is a result and not an assumption. In `Attempts` the run as a whole is weakly fair,
for the same reasons as a handler: a model call ends by its timeout, and the loop over a
finite list is why that is enough for an answer.

## 4. What is proved

Every invariant and every action property of the passing runs is a theorem, for every value of
the constants, under the named assumptions of the modules. Those give each constant its type
and keep `None` apart from values (`StoreAssumption`, `NoneAssumption`, `ExecuteAssumption`,
`NoneIsNoBody`, `NoneIsNoRecord`, `ClaimAssumption`, `NoneIsNoOutcome`, `AdmissionAssumption`,
`MemoryAssumption`, `NoneIsNoEntry`, `RoutingAssumption`, `BioAssumption`), and three say a little
more: `DaysPass`, that the clock is that of a calendar, in which a day that is over does not
come back; `PoliciesAssumption`, that a routing policy is a list of strings; and
`ReplyAssumption`, that a reply's content is a sequence of the tokens `IsToken` lists. `Valid` and
`Normalize` are arbitrary; calls, keys, bodies, models, contents and texts are of any
number and length, and the sets among them not necessarily finite.

`ExecuteProofs`

* `TypeCorrect`: `Spec => [](TypeOK /\ LocalsOK)`.
* `InductiveHolds`: the inductive invariant, `Inductive`, which no run checks by itself: its parts
  are properties of their own or device of the proof. `SingleOwner` alone is not inductive: the
  claim of a key is safe only if a request row that exists is nobody else's, which is
  `TablesAgree`; `TablesAgree` survives `put` only because the writer owns the row, which is
  `SingleOwner`; and a reply is faithful only if the row holds the response between `put`
  and the answer (`StoredBeforeReply`) and is never replaced afterwards. Together they are
  preserved by each of the handler's steps, by crashes and by the clock.
* `SingleOwnerHolds`, `ReplayFaithfulHolds`, `TablesAgreeHolds`: its parts.
* `RowsAreFinalHolds`: an action property, from the same invariant. `put` itself has no
  check that protects a stored response; ownership does.
* `Refinement`: `Spec => ImplementsOnceOnly`. Every step is one of three kinds, shown in
  `StepKinds`: silent (it changes neither key rows nor answers), `ClaimKey` (which is
  `Bind`) or `Store` (`Settle`), or one that answers a call (`SayResult`, `SayConflict`,
  `SayInProgress`, `SayUnrelated`).

`ClaimTransactionProofs`

* `InductiveHolds`: `InsertsHeld`, for any number of concurrent calls. An uncommitted
  insert is held by one call and its value is in no committed row, so a commit never
  fails, and whoever was refused was refused by a row that is still there.
* `ClaimIsAtomicHolds`: `Spec => ClaimIsAtomic`. It is why `Execute` may take
  `claim` for one step.

`AdmissionProofs`

* `InductiveHolds`, `SpentUntilExpiryHolds`, `OncePerJtiHolds`, `AdmittedIsEntitledHolds`.
  The argument is that an acceptance leaves `replay[jti] = exp`, that the purge removes a
  row only when its `exp` is *before* now, and that an insert needs the row to be absent.

`MeteringProofs`, on top of `Inductive`

* `MeteredOnceHolds`, `ResponseAccountedHolds`. A request row belongs to the key its digest
  is of and a key has one request id (`RequestsNamed`), so it is enough that usage rows are of
  taken request ids (`UsageNamed`) and that no attempt of one is metered twice
  (`AttemptsApart`). That holds because the owner of a request has metered only attempts before
  the one it is at (`AttemptsSoFar`), and nobody else meters for it. The response fits when it
  is built (`ResponseFits`) and nothing is metered for its request afterwards.
* `LedgerMatchesUsageHolds`. The invariant is a charging itself: some map from the usage rows to
  days, each near its row's stamp, of which the ledgers are the sums (`Adding`). A step of
  `record_usage` extends the map by the day it read (`ReadingsNear`: that day is in reach of the
  stamp); its row is a new one, since the attempt was not metered before (`AttemptsSoFar`), and a
  sum over a finite set grows by what is added (`TotalAdd`).
* `ExhaustedBudgetStopsCallsHolds`. A ledger only grows (`LedgerGrows`) and a day, once some
  clock has told it, comes and goes for good (`Begun`, `Over`, `DaysAdvance`). A call that has
  yet to check a spent budget is told that day at its check and stops, or is told another, and
  then by that clock the day is over (`StoppedOn`). Here the proof needs `DaysPass`, which
  the model had only in the constants of its runs.
* `RateWindowBoundHolds`. The check inserts first and counts afterwards. A call whose claim lies
  in the window that ends now, by every clock, lies in the one it counts, whichever clock it
  takes (`LaterReading`), and so do all that passed before it; so it finds fewer than the limit,
  itself included (`CheckRatePasses`). Any other step, the clock's included, lets nobody new
  past (`NobodyNewIf`). A call whose claim is older is none the property counts, and nothing is
  shown of it. The invariant adds only that the taken requests are finitely many, which makes
  their subsets countable.
* `StrandedByLossOnlyHolds`. A handler that moves takes its claim along or is lost there
  (`MoveExplained`); `put` writes the row of the key its writer owns, so the claims of others
  keep their claimants, for which the tables must agree on whose key a digest is.
* `InProgressIsTrueHolds`, under the hypothesis `NoHandlerLost` (no crashes, no rate limits) under
  which alone it is true, by finding 2 and by design: then nobody is lost (`NobodyLost`), and
  what a claim without a response has left by `StrandedByLossOnly` is a claimant at work.

`MemoryProofs`

* `RerunsOverlapHolds`, `AnswersDifferOnlyByOverlapHolds`. A record is what some run of this life
  put and told (`RecordsFromRuns`); whoever was told a result was told a run's, and the
  key has a record for the rest of the life (`AnswersFromRuns`). A later call therefore meets a
  record and is not run, and two answers that differ come from two runs neither of which
  had been answered when the other began.
* `OncePerJtiHolds`: while a token lives, its jti's entry is its `exp` (`JtisKept`).
* `MemoryTypeOK`.
* `MemoryRateWindowBound`, `RefusedAtLimitHolds`: the stamps are those of calls that got past the
  limit when they say, and none that is still young enough to count has been pruned
  (`StampsOfCalls`), so the recent stamps are as many as the calls of the window, whether the
  call that counts them is let through or refused.
* `OverspentOnlyTogetherHolds`: a call that passed the check was solvent against all that its task
  had cost (`Solvent`); who had been answered by then meters nothing more, so what those
  calls cost stays what it was (`Budgeted`).

`AttemptsProofs`

* `TracedHolds`, and from it `TraceAgreesHolds` and `ResponseExplainedHolds`, for any settings and
  any number of models. The invariant says where the run is and what its variables then
  hold (`RunOK`), what the span can be (`SpanOK`), that a held generation is the last one, open,
  and of the try that runs (`HeldOK`), and what was told of the tries so far (`GenerationsOK`).
  Two pairs of lemmas on sequences carry it: a try that begins (`ToldOfNewTry`,
  `MissingOfNewTry`) and a try that is judged (`ToldOfJudgedTry`, `MissingOfJudgedTry`).
* `TriedAsConfiguredHolds`. What `ordered_models` makes of a list is its names without empty ones
  and repetitions, in the order of their first places (`KeptOf`, for lists of any length); a
  run asks no more than these, goes on only from a try that is not completed and ends without a
  completed one only when it has asked them all (`Asking`).
* `AttemptsTypeOK`.

`ReplyProofs`

* `ReplyTypeOK`, `ReadsNoPartHolds`, `WrappedIsReadHolds`. `Unfenced` is a middle part of the content
  with nothing but fences outside (`Inner`), `Braced` a middle part of that; what is read is
  `Loads` of the content from `Parse` on (`Read`), so both properties are facts of `Loads`.
* `RejectionExplainedHolds`, `WordsKeptHolds`. After *n* rewrites every character of the text comes
  from one of the original (`Keeps`): in the same order, a word, mark or inner line end
  from itself, and a comma or blank perhaps from a dash. Each rewrite is such a map too,
  and the maps compose. Two neighbours that were none have nothing but emoji between them
  (`Touch`; for the first rewrite `Near`). The length grows by one for each run of dashes and never
  again, and dashes and emoji are gone once their rewrite ran (`Repaired`, the invariant). A rejected
  bio then has markup, no word or too many characters. Markup is made of words (`MarkIsWord`), and
  what is next to one of its characters, or before it on its line, is so in `KeptOf` too, but
  for the whitespace after it, which the repair may take (`BeforeKept`, `OpensLineKept`): markup
  shows in what is kept (`MarkupShows`). Since a text is determined by which positions of
  another it leaves out (`ThinsUnique`), bio and repair have the same `KeptOf`.
* `TidyAfterOnePassHolds`. What the third, fourth, sixth and seventh rewrite leave nothing of, no later
  one brings back (`Tidied`): whatever follows a blank that stays, stays (`BlankStays`), a
  rewrite that takes the end of a line takes all that is loose there, and the last one takes
  line ends only with what is outside of them. The sixth is tidy for bios without whitespace
  of another kind (`Plain`), which no rewrite brings in (`PlainStays`).

`FoldProofs`

* Sums (`Total`), `ordered_models` and concatenations are folds, that is, recursive functions over
  the subsets of a set. The provers cannot use an induction theorem, whose parameter is an
  operator, so these facts are proved by a least counterexample: the order of proper
  inclusion on the finite subsets is well-founded, hence among the sets for which the fact fails
  one is least (`LeastSet`, `LeastNat`), and it cannot be.

Only model-checked: liveness (`EveryCallAnswered`, `ClaimsSettle`, `EveryClaimReturns`,
`AnsweredUnlessStoreRaises`), since fairness and `ENABLED` are beyond the prover. The findings are
counterexamples on small instances and need no proof.

## 5. Where code and documents disagree

1. *The rate limit counts the caller.* `claim` has inserted the caller's row when
   `allow_rate_limit` counts rows and asks `count < limit` (`store.py:251`). With a limit
   of *n* a minute *n - 1* calls pass, with a limit of one none does. The test of the
   limit runs on `MemoryStore`, which counts differently. Run `rate_own`.
2. *A rate-limited call strands its key.* The 429 (`main.py:224`) leaves the key claimed
   and nobody will settle it: the retry the integration guide asks for is answered
   `409 REQUEST_IN_PROGRESS` for good. Run `rate_strands`.
3. *`403 INSUFFICIENT_SCOPE` is unreachable as registered.* With the required scope in
   the caller's registration, as `docs/authentication.md` asks, a token without it is
   answered 401 by `authenticate` (`main.py:102`). Run `admission_scope`.
4. *A `verified` key of value null passes.* `validate_candidate` looks for the key by its value
   (`ai_router.py:315`), its docstring says that the key is rejected "for every task,
   always" (line 308). The two bio tasks are not concerned: they accept no second key. Run
   `reply_verified`.

What the models showed besides, and no document denies:

* A bio of exactly the maximal length with a dash in it grows by one when the dash becomes
  a comma and a space, and is sent to review for its length.
* The repair can uncover markup, and the bio is then rejected for it: "🎓 1. Graduate" becomes
  a numbered item once the emoji is gone, "1 . I moved" once the blank before the dot is,
  a hyphen behind an emoji becomes a bullet, and two underscores around one become bold.
* A second clean-up can still find commas: of a run of commas the fifth rewrite removes every
  second one ("a— — —b" becomes "a,, b"); and "I stayed —" before `\r` keeps a comma that the
  sixth stops short of, since `$` does not match there, and that only a second pass takes
  once `strip()` has removed the `\r`. The no-break space does the same.
* The rate limit goes by the time of the claim. Calls that wait a window or more between their
  claim and their count (a slow pool, a stopped process) find no row in the window, not even
  their own, and all pass at once, whatever the limit.
* Two words with nothing but an emoji between them are joined.
* An object that begins after the last closing brace, as when a reply is cut off in a second
  object, is dropped, and the first is read.
* If `get_trace_url` raises, the span that was just started is never ended.
* A trace ends with the response's status before `put`; if `put` then raises, a trace that says
  `completed` belongs to a call answered 500.
* `.env.example:10-12` says that the fallback is always last and that without it a task has a
  single attempt; both hold for a task without a policy, and the first only if
  the fallback is not in the list already.

## 6. What is not modelled

* Prompts and transport (`providers.py` but for `_parse_output` and the errors of `complete`):
  a reply is a content, a cost and a finish reason, whoever sent it.
* What telemetry sends along (names, tokens, costs, metadata): data no step depends on.
* `Settings` beyond the models: parsing the environment; limits, budgets, scopes and the
  bypass are constants. Field lengths of the API schemas and the layout of problems: data.
* Health and readiness: two endpoints without state. The session factory: rewriting a URL.
* Migrations: run by hand; of their content the tables and unique constraints are modelled.
* Scripts and evaluations: sequential tools. `evaluations/run.py` validates outputs as they
  are, without the repair that the router makes first.
* CI and review workflows: glue around external services.

## 7. Plan

Done: all components that keep state or decide an answer, their runs, and a proof of every
safety property. What is left:

1. `Admission` composed with `Execute`, so that one call's whole path over PostgreSQL is in one
   run, as it is over the memory store; admission's invariant would carry over.
2. The safety half of liveness: that a handler's step is always enabled (`Handle` as a disjunction
   of guards that cover every location), and a measure that each of its steps decreases.
3. Crashes in `ClaimTransaction` together with those of `Execute`.
