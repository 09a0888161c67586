--------------------------- MODULE ExecuteProperties ---------------------------
(***************************************************************************)
(* What is claimed of the handler over PostgreSQL: properties of its states, *)
(* of its steps and of its runs, and the abstract promise it implements.    *)
(***************************************************************************)
EXTENDS Execute, Costs

-----------------------------------------------------------------------------
(* Safety *)

\* At most one handler works for a key, and while it does the key's row is its
\* own: its body, its request id, no response yet.  (claim, put)
SingleOwner ==
    \A r \in Request : Owns(r) =>
        /\ keyRow[KeyFor(r)] =
              [digest |-> BodyOf(r), request_id |-> IdOf(r), response |-> None]
        /\ \A s \in Request \ {r} : Owns(s) => /\ KeyFor(s) # KeyFor(r)
                                               /\ IdOf(s) # IdOf(r)

\* Whoever is told a result, by its own run or by a replay, is told the one
\* response its key was settled with, for its own body.
ReplayFaithful ==
    \A r \in Request :
        (answer[r] # None /\ answer[r].code = "OK") =>
            /\ Claimed(KeyFor(r))
            /\ keyRow[KeyFor(r)].digest = BodyOf(r)
            /\ keyRow[KeyFor(r)].response = answer[r].response
            /\ answer[r].response # None

\* ai_idempotency_keys and ai_requests tell one story: each key row names a
\* request row of its own with its digest, and that row is pending exactly
\* until the response is there, whose status and output it then shows.
TablesAgree ==
    \A k \in Key : Claimed(k) =>
        LET row == keyRow[k]
            req == requestRow[row.request_id] IN
        /\ KeyOf[row.digest] = k
        /\ RequestIdTaken(row.request_id)
        /\ req.digest = row.digest
        /\ IF row.response = None
             THEN req.status = "pending" /\ req.output = None
             ELSE /\ req.status = row.response.status
                  /\ req.output = row.response.output
                  /\ row.response.request_id = row.request_id

\* The router pays for a key once: every metered provider reply of a key
\* belongs to one request row, and none of its attempts is metered twice.
KeyOfUsage(u) == KeyOf[requestRow[u.request_id].digest]

MeteredOnce ==
    \A u \in usage :
        /\ RequestIdTaken(u.request_id)
        /\ requestRow[u.request_id].task = u.task
        /\ \A v \in usage : KeyOfUsage(u) = KeyOfUsage(v) =>
              /\ u.request_id = v.request_id
              /\ u.attempts = v.attempts => u = v

\* The days a usage row stamped at the time t may be charged to: two readings in
\* one transaction are as far apart as the clocks may be.
DaysFrom(t) == {DayOf[n] : n \in {n \in Time : t <= n /\ n <= t + 2 * Skew}}

\* The ledgers of a task's days share out its usage rows: each row is charged to
\* one day, that of its stamp or of a reading soon after, and the ledger of a day
\* is what the rows charged to it add up to.  No charge is lost or made twice
\* between the two tables, across midnight or among calls that meter at once.
LedgerMatchesUsage ==
    \E charged \in [usage -> Day] :
        /\ \A u \in usage : charged[u] \in DaysFrom(u.created)
        /\ \A t \in Task, d \in Day :
              spent[t][d] = Total({u \in usage : u.task = t /\ charged[u] = d})

\* What a response tells fits what was spent on it: a completed one carries a
\* valid, repaired output of the model it names, whose reply is metered; one
\* refused for budget cost nothing; and only a completed one carries an output.
Accounted(p, t) ==
    LET metered == {u \in usage : u.request_id = p.request_id} IN
    CASE p.status = "completed" ->
            /\ p.output \in Valid[t]
            /\ \E u \in metered : u.model = p.model
                                  /\ \A v \in metered : v.attempts <= u.attempts
      [] p.status = "budget_exhausted" ->
            metered = {} /\ p.output = None /\ p.model = None
      [] p.status = "review" ->
            metered # {} /\ p.output = None /\ p.model = None
      [] OTHER -> p.output = None /\ p.model = None

\* Every stored response is accounted for.  (execute, record_usage, put)
ResponseAccounted ==
    \A k \in Key : (Claimed(k) /\ keyRow[k].response # None) =>
        Accounted(keyRow[k].response, TaskOf[keyRow[k].digest])

\* The requests claimed within the window that ends now, by every worker's clock,
\* that got past the rate limit: settled, or run on.
PastRate == {"budget", "call", "usage", "store", "reply"}

PassedRate(t) ==
    {i \in RequestId :
        /\ \A now \in Now : i \in RecentRequests(t, now)
        /\ \/ requestRow[i].status # "pending"
           \/ \E r \in Request : pc[r] \in PastRate /\ IdOf(r) = i}

\* At any time, of the calls of a task that claimed their keys within the window
\* that ends then, fewer than the limit have got past it, however their claims and
\* counts interleave.  This is all the count bounds.  It goes by the time of the
\* claim, not of the count: a call that waits a window or more in between counts
\* neither itself nor those that waited with it, and of such calls any number may
\* get past at once.
RateWindowBound ==
    \A t \in Task : RateLimit[t] > 0 => Cardinality(PassedRate(t)) < RateLimit[t]

\* The calls that end with their claim unsettled: refused for their rate, which the
\* code checks after the claim, or dead.
Lost(r) == answer[r] # None /\ answer[r].code \in {"RATE_LIMITED", "INTERNAL_ERROR"}

\* A key without a response is never left for any other reason: the call that made
\* its claim is at work or was lost.  No conflict, collision, spent budget, failed
\* provider or rejected output strands a key, and a loser of the race for it does
\* not take its winner's response away.  (claim, execute, put)
StrandedByLossOnly ==
    \A k \in Key : (Claimed(k) /\ keyRow[k].response = None) =>
        \E r \in Request : /\ Owns(r) \/ Lost(r)
                           /\ BodyOf(r) = keyRow[k].digest
                           /\ IdOf(r) = keyRow[k].request_id

-----------------------------------------------------------------------------
(* The inductive invariant behind the safety properties *)

\* The local variables of a handler are there where its code reads them.
LocalsOK ==
    \A r \in Request :
        /\ pc[r] # "idle" => call[r] # None
        /\ pc[r] \in {"call", "usage"} => attempt[r] \in 1 .. Len(ModelsFor(r))
        /\ pc[r] = "usage" => result[r] # None
        /\ pc[r] \in {"store", "reply"} =>
              response[r] # None /\ response[r].request_id = IdOf(r)
        /\ answer[r] # None => pc[r] = "done"

\* After its put, and until it answers, a handler finds its response in the row.
StoredBeforeReply ==
    \A r \in Request : pc[r] = "reply" =>
        keyRow[KeyFor(r)] =
            [digest |-> BodyOf(r), request_id |-> IdOf(r), response |-> response[r]]

\* Together with the types, what every step preserves: a handler past its claim
\* owns its key's row, tables and answers follow the rows.
Inductive ==
    /\ TypeOK
    /\ LocalsOK
    /\ SingleOwner
    /\ StoredBeforeReply
    /\ TablesAgree
    /\ ReplayFaithful

-----------------------------------------------------------------------------
(* What a step may never do *)

\* A key's row is never rebound or removed, and its response never replaced.
RowsAreFinal ==
    [][\A k \in Key : Claimed(k) =>
          /\ keyRow'[k] # None
          /\ keyRow'[k].digest = keyRow[k].digest
          /\ keyRow'[k].request_id = keyRow[k].request_id
          /\ keyRow[k].response # None => keyRow'[k] = keyRow[k]]_vars

\* REQUEST_IN_PROGRESS ("Request is already in progress") is answered only
\* while some handler is working for the key.
Answers(r, code) == answer[r] = None /\ answer'[r] # None /\ answer'[r].code = code

InProgressIsTrue ==
    [][\A r \in Request : Answers(r, "REQUEST_IN_PROGRESS") =>
          \E s \in Request : Owns(s) /\ KeyFor(s) = KeyFor(r)]_vars

\* A call is refused for its rate only when as many other calls of its task as
\* the limit allows were made in the window.
RefusedAtLimit ==
    [][\A r \in Request : Answers(r, "RATE_LIMITED") =>
          Cardinality(RecentRequests(TaskFor(r), clock) \ {IdOf(r)})
              >= RateLimit[TaskFor(r)]]_vars

-----------------------------------------------------------------------------
(* Liveness *)

\* Every call is answered.
EveryCallAnswered == \A r \in Request : pc[r] = "lookup" ~> answer[r] # None

\* A claimed key is settled, so that a retry gets a result.
ClaimsSettle == \A k \in Key : Claimed(k) ~> (Claimed(k) /\ keyRow[k].response # None)

\* Once the budget of a day is spent and every worker's clock tells that day, a
\* call that has yet to check it does not reach a provider on that day: not until
\* some worker's clock tells the next.
ExhaustedBudgetStopsCalls ==
    \A r \in Request, d \in Day :
        []( (/\ pc[r] \in {"lookup", "claim", "rate", "budget"}
             /\ Today = {d}
             /\ spent[TaskFor(r)][d] >= Budget[TaskFor(r)])
            => [](pc[r] = "call" => Today # {d}) )

-----------------------------------------------------------------------------
(* The promise to callers that the handler implements *)

Once == INSTANCE OnceOnly WITH
    bound <- [k \in Key |-> IF Claimed(k) THEN keyRow[k].digest ELSE None],
    settled <- [k \in Key |-> IF Claimed(k) THEN keyRow[k].response ELSE None],
    told <- [r \in Request |->
                IF answer[r] = None THEN None
                ELSE [body |-> BodyOf(r), code |-> answer[r].code,
                      response |-> answer[r].response]]

ImplementsOnceOnly == Once!Spec
=============================================================================
