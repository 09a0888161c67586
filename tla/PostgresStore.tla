---------------------------- MODULE PostgresStore ----------------------------
(***************************************************************************)
(* The durable store of the AI Router: PostgresStore and the tables it      *)
(* keeps.  Every method of the class is one database transaction, so each   *)
(* is one operator here: a state function for a method that only reads, an  *)
(* action on the tables for a method that writes.                           *)
(*                                                                          *)
(* Key stands for (product_id, idempotency_key), Task for (product_id,      *)
(* task), Body for the whole validated request payload.  A body fixes its   *)
(* key and its task, and its digest is the body itself (SHA-256 over the    *)
(* sorted JSON of every field of the payload).                              *)
(*                                                                          *)
(* Here and in the modules that extend this one, a definition introduced by *)
(* the word "Fault" is a plausible bug of the definition below it.  No      *)
(* specification uses it: put in that definition's place, it must break the *)
(* property that guards against it (PROJECT.json pairs them).               *)
(***************************************************************************)
EXTENDS Integers, FiniteSets

CONSTANTS
    Key,          \* (product_id, idempotency_key) pairs
    Task,         \* (product_id, task) pairs
    Body,         \* request payloads
    KeyOf,        \* the key a body carries
    TaskOf,       \* the task a body asks for
    RequestId,    \* X-Request-ID values, sent by callers or drawn by the router
    Model,        \* provider/model names
    Output,       \* what a model may reply, after parsing
    None,         \* SQL NULL, an absent row, Python's None
    Budget,       \* settings.budget_for, per task
    RateLimit,    \* settings.rate_limit_for, per task
    Window,       \* the rate limit's minute, in clock ticks
    MaxClock,     \* bound: the last tick of the clock
    Skew,         \* bound: by how many ticks a worker may stamp or count early or late
    Day,          \* calendar days
    DayOf         \* the day each tick falls on where the workers run

Time == 0 .. MaxClock

TerminalStatus == {"completed", "review", "budget_exhausted", "provider_unavailable"}

Response ==
    [request_id : RequestId, status : TerminalStatus,
     output : Output \cup {None}, model : Model \cup {None}]

KeyRow == [digest : Body, request_id : RequestId, response : Response \cup {None}]

RequestRow ==
    [task : Task, digest : Body, created : Time,
     status : TerminalStatus \cup {"pending"}, output : Output \cup {None}]

UsageRow ==
    [request_id : RequestId, task : Task, model : Model, attempts : Nat \ {0},
     cost : Nat, created : Time]

ASSUME StoreAssumption ==
    /\ KeyOf \in [Body -> Key]
    /\ TaskOf \in [Body -> Task]
    /\ Budget \in [Task -> Int]
    /\ RateLimit \in [Task -> Int]
    /\ Window \in Nat \ {0}
    /\ MaxClock \in Nat
    /\ Skew \in Nat
    /\ DayOf \in [Time -> Day]

\* The clock is that of a calendar: a day that is over does not come back.
ASSUME DaysPass ==
    \A a, b, c \in Time : (a <= b /\ b <= c /\ DayOf[a] = DayOf[c]) => DayOf[b] = DayOf[c]

\* None is no value of a column.
ASSUME NoneAssumption ==
    None \notin Response \cup KeyRow \cup RequestRow \cup Output \cup Model \cup Int

VARIABLES
    clock,        \* the time of day, by which the workers set theirs
    keyRow,       \* ai_idempotency_keys, by (product_id, idempotency_key)
    requestRow,   \* ai_requests, by request_id
    usage,        \* ai_usage
    spent         \* ai_budget_periods.spent_usd, by task and period_start

tables == <<keyRow, requestRow, usage, spent>>
storeVars == <<clock, tables>>

StoreTypeOK ==
    /\ clock \in Time
    /\ keyRow \in [Key -> KeyRow \cup {None}]
    /\ requestRow \in [RequestId -> RequestRow \cup {None}]
    /\ usage \in SUBSET UsageRow
    /\ spent \in [Task -> [Day -> Nat]]

StoreInit ==
    /\ clock = 0
    /\ keyRow = [k \in Key |-> None]
    /\ requestRow = [i \in RequestId |-> None]
    /\ usage = {}
    /\ spent = [t \in Task |-> [d \in Day |-> 0]]

\* datetime.now(UTC): created_at and the start of the rate window are read by the
\* worker that writes or counts, from its own clock and some time before the
\* statement they go into.
Now == {t \in Time : clock - Skew <= t /\ t <= clock + Skew}

\* date.today() is another reading, a day where the worker runs; TodayFrom(t) is
\* what it may tell a worker that has read t before.
Today == {DayOf[now] : now \in Now}
TodayFrom(t) == {DayOf[now] : now \in {n \in Now : t <= n}}

-----------------------------------------------------------------------------
(* claim: an IntegrityError means that another claimant committed first, so
   what the caller then learns is what it would have learned by starting after
   that commit: the method is atomic at its own commit or at the other's.     *)

\* The insert of both rows, which happens when the key is unclaimed and the
\* request id unused.
InsertClaim(b, i) ==
    /\ keyRow' = [keyRow EXCEPT ![KeyOf[b]] =
                     [digest |-> b, request_id |-> i, response |-> None]]
    /\ \E now \in Now :
          requestRow' = [requestRow EXCEPT ![i] =
                            [task |-> TaskOf[b], digest |-> b, created |-> now,
                             status |-> "pending", output |-> None]]
    /\ UNCHANGED <<clock, usage, spent>>

Claimed(k) == keyRow[k] # None

\* RequestIdConflict: the unique constraint on ai_requests.request_id refused.
RequestIdTaken(i) == requestRow[i] # None

\* Fault: the request row is left pending.
PutKeyOnly(k, p) ==
    /\ keyRow' = [keyRow EXCEPT ![k].response = p]
    /\ UNCHANGED <<clock, requestRow, usage, spent>>

\* put: locks the key's row and the request row it names, and updates both.
Answered(row, p) == [row EXCEPT !.status = p.status, !.output = p.output]

Put(k, p) ==
    LET i == keyRow[k].request_id IN
    /\ IF Claimed(k) THEN keyRow' = [keyRow EXCEPT ![k].response = p]
                     ELSE UNCHANGED keyRow
    /\ IF Claimed(k) /\ RequestIdTaken(i)
         THEN requestRow' = [requestRow EXCEPT ![i] = Answered(@, p)]
         ELSE UNCHANGED requestRow
    /\ UNCHANGED <<clock, usage, spent>>

\* record_usage: the usage row, stamped as it is flushed, and then the ledger of
\* today, in one transaction.  A provider that reports no cost is charged zero.
CostOf(c) == IF c = None THEN 0 ELSE c

\* Fault: ON CONFLICT sets the day's spending instead of adding to it.
InsertUsageOverwriting(row) ==
    /\ usage' = usage \cup {row}
    /\ \E today \in TodayFrom(row.created) :
          spent' = [spent EXCEPT ![row.task][today] = row.cost]
    /\ UNCHANGED <<clock, keyRow, requestRow>>

InsertUsage(row) ==
    /\ usage' = usage \cup {row}
    /\ \E today \in TodayFrom(row.created) :
          spent' = [spent EXCEPT ![row.task][today] = @ + row.cost]
    /\ UNCHANGED <<clock, keyRow, requestRow>>

\* Fault: the last dollar of the budget can be spent twice.
BudgetExceeded(t, today) == spent[t][today] > Budget[t]

BudgetExhausted(t, today) == spent[t][today] >= Budget[t]

\* The count includes the caller's own row, inserted by its claim, unless the
\* window has passed since.
RecentRequests(t, now) ==
    {i \in RequestId : /\ requestRow[i] # None
                       /\ requestRow[i].task = t
                       /\ requestRow[i].created > now - Window}

\* Fault: calls still running are not counted.
AllowCountingSettled(t, now) ==
    RateLimit[t] > 0 =>
        Cardinality({i \in RecentRequests(t, now) : requestRow[i].status # "pending"})
            < RateLimit[t]

AllowRateLimit(t, now) ==
    RateLimit[t] > 0 => Cardinality(RecentRequests(t, now)) < RateLimit[t]

Tick ==
    /\ clock < MaxClock
    /\ clock' = clock + 1
    /\ UNCHANGED tables
=============================================================================
