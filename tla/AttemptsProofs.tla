----------------------------- MODULE AttemptsProofs -----------------------------
(***************************************************************************)
(* Proofs about one run of execute, for any settings, any number of models   *)
(* and a Langfuse client that raises wherever it can: what the trace tells,  *)
(* what the response tells, and that the models tried are those of the       *)
(* settings, in their order.                                                *)
(***************************************************************************)
EXTENDS Attempts, FoldProofs

Asked == {Models[n] : n \in Nat}
Try == [model : Asked, verdict : Verdict \cup {"open"}]
Generation == [attempt : Nat, model : Asked, status : Verdict \cup {"open"}]

Types ==
    /\ pc \in {"trace", "budget", "next", "call", "usage", "finish", "store", "done"}
    /\ span \in {"none", "open"} \cup Status
    /\ handle \in BOOLEAN /\ reference \in BOOLEAN /\ held \in BOOLEAN
    /\ tries \in Seq(Try) /\ generations \in Seq(Generation)

\* Where the run is, and what its variables then hold.
RunOK ==
    /\ \A n \in 1 .. Attempt : tries[n].model = Models[n]
    /\ pc \in {"trace", "budget"} =>
          tries = <<>> /\ generations = <<>> /\ status = "provider_unavailable"
    /\ pc \in {"trace", "budget", "next", "call", "usage"} =>
          response = None /\ completed = None
    /\ pc \in {"call", "usage"} => Attempt > 0 /\ tries[Attempt].verdict = "open"
    /\ pc = "next" =>
          \/ tries = <<>> /\ status = "provider_unavailable"
          \/ /\ Attempt > 0
             /\ \/ tries[Attempt].verdict = "error" /\ status = "provider_unavailable"
                \/ tries[Attempt].verdict = "review" /\ status = "review"
    /\ pc \in {"finish", "store"} => response.status \in Status

\* The span: there if a handle or a reference is, ended with the response's
\* status, and open without a handle only where the client raised.
SpanOK ==
    /\ pc = "trace" => span = "none" /\ ~handle /\ ~reference /\ raised = {}
    /\ handle \/ reference => span # "none" /\ \A x \in raised : x.at # "start"
    /\ span \in Status => pc \in {"store", "done"} /\ response.status = span
    /\ span = "open" /\ ~handle => RaisedAt("start", 0)
    /\ span = "open" /\ pc = "store" => RaisedAt("start", 0) \/ RaisedAt("end", Attempt)
    /\ span = "open" /\ pc = "done" =>
          \/ RaisedAt("start", 0)
          \/ RaisedAt("end", Attempt)
          \/ answer = "INTERNAL_ERROR"

\* The generation of the try that runs is the last one, and held.
Holding(gs, n, h) ==
    /\ \A i \in 1 .. Len(gs) : gs[i].attempt = n => h /\ i = Len(gs)
    /\ h => Len(gs) > 0 /\ gs[Len(gs)].attempt = n /\ gs[Len(gs)].status = "open"

HeldOK == pc \in {"call", "usage"} => Holding(generations, Attempt, held)

\* What TraceAgrees says of one generation, of tries ts, usage us and raised rs.
ToldOf(g, ts, us, rs) ==
    /\ g.attempt \in 1 .. Len(ts)
    /\ g.model = ts[g.attempt].model
    /\ g.status \in {ts[g.attempt].verdict, "open"}
    /\ (g.status = "open" /\ ts[g.attempt].verdict # "open") =>
          [at |-> "finish", attempt |-> g.attempt] \in rs
    /\ g.status \in {"completed", "review"} =>
          [attempts |-> g.attempt, model |-> g.model] \in us

Told(gs, ts, us, rs) == \A i \in 1 .. Len(gs) : ToldOf(gs[i], ts, us, rs)

Missing(gs, last, rs) ==
    \A n \in 1 .. last :
        \/ [at |-> "generation", attempt |-> n] \in rs
        \/ \E i \in 1 .. Len(gs) : gs[i].attempt = n

GenerationsOK ==
    /\ Told(generations, tries, usage, raised)
    /\ handle => Missing(generations, Attempt, raised)

Traced == Types /\ RunOK /\ SpanOK /\ HeldOK /\ GenerationsOK /\ ResponseExplained

LEMMA TracedImplies == Traced => TraceAgrees
<1> SUFFICES ASSUME Traced PROVE TraceAgrees OBVIOUS
<1>1. DOMAIN tries = 1 .. Attempt /\ DOMAIN generations = 1 .. Len(generations)
  BY DEF Traced, Types, Attempt
<1>2. (span = "open" /\ pc = "done") =>
          \/ RaisedAt("start", 0)
          \/ RaisedAt("end", Attempt)
          \/ answer = "INTERNAL_ERROR"
  BY DEF Traced, SpanOK
<1>3. span \in Status => pc \in {"store", "done"} /\ response.status = span
  BY DEF Traced, SpanOK
<1>4. GenerationsOK BY DEF Traced
<1> QED
  BY <1>1, <1>2, <1>3, <1>4
  DEF GenerationsOK, Told, ToldOf, Missing, TraceAgrees, RaisedAt, Attempt

LEMMA InitTraced == Init => Traced
<1> SUFFICES ASSUME Init PROVE Traced OBVIOUS
<1>1. /\ tries = <<>> /\ generations = <<>> /\ Len(tries) = 0 /\ Len(generations) = 0
      /\ pc = "trace" /\ span = "none" /\ handle = FALSE /\ reference = FALSE
      /\ held = FALSE /\ raised = {} /\ response = None /\ completed = None
      /\ status = "provider_unavailable"
  BY DEF Init
<1>2. Types
  <2>1. <<>> \in Seq(Try) /\ <<>> \in Seq(Generation) OBVIOUS
  <2> QED BY <1>1, <2>1 DEF Types
<1>3. RunOK /\ SpanOK /\ HeldOK /\ GenerationsOK /\ ResponseExplained
  BY <1>1 DEF RunOK, SpanOK, HeldOK, GenerationsOK, Told, Missing, ResponseExplained, Attempt, Status
<1> QED BY <1>2, <1>3 DEF Traced

\* The models of a run are those of its settings throughout.
LEMMA SameModels ==
  ASSUME setting' = setting
  PROVE  Models' = Models /\ Asked' = Asked /\ Try' = Try /\ Generation' = Generation
  BY DEF Models, Asked, Try, Generation

LEMMA StartTraceTraces ==
  ASSUME Traced, StartTrace
  PROVE  Traced'
<1>1. /\ pc = "trace" /\ pc' = "budget"
      /\ UNCHANGED <<setting, tries, status, completed, usage, response, answer,
                     generations, held>>
  BY DEF StartTrace, telemetry
<1>2. /\ span = "none" /\ ~handle /\ ~reference /\ raised = {} /\ Attempt = 0
      /\ tries = <<>> /\ generations = <<>> /\ response = None /\ completed = None
      /\ status = "provider_unavailable"
  BY <1>1 DEF Traced, SpanOK, RunOK, Attempt
<1>3. \/ UNCHANGED telemetry
      \/ span' = "open" /\ handle' = TRUE /\ reference' = TRUE /\ raised' = raised
      \/ /\ span' \in {"none", "open"} /\ raised' = {[at |-> "start", attempt |-> 0]}
         /\ UNCHANGED <<handle, reference>>
  BY <1>2 DEF StartTrace, Raise
<1>4. Types' BY <1>1, <1>3, SameModels DEF Traced, Types, telemetry
<1>5. RunOK' BY <1>1, <1>2 DEF RunOK, Attempt
<1>6. SpanOK' BY <1>1, <1>2, <1>3 DEF SpanOK, RaisedAt, telemetry, Status
<1>7. HeldOK' /\ GenerationsOK' BY <1>1, <1>2 DEF HeldOK, GenerationsOK, Told, Missing, Attempt
<1>8. ResponseExplained' BY <1>1, <1>2 DEF ResponseExplained
<1> QED BY <1>4, <1>5, <1>6, <1>7, <1>8 DEF Traced

\* A run that dies tells nobody anything.
LEMMA DieTraces ==
  ASSUME Traced, Die, pc \in {"budget", "usage", "store"}, UNCHANGED <<setting, client>>
  PROVE  Traced'
<1>1. /\ pc' = "done" /\ answer' = "INTERNAL_ERROR"
      /\ UNCHANGED <<setting, tries, status, completed, usage, response, span, handle,
                     reference, generations, held, raised>>
      /\ Models' = Models
  BY SameModels DEF Die, telemetry
<1>2. Types' BY <1>1, SameModels DEF Traced, Types
<1>3. RunOK' BY <1>1 DEF Traced, RunOK, Attempt
<1>4. SpanOK' BY <1>1 DEF Traced, SpanOK, RaisedAt
<1>5. HeldOK' BY <1>1 DEF HeldOK
<1>6. GenerationsOK' BY <1>1 DEF Traced, GenerationsOK, Attempt, RaisedAt
<1>7. ResponseExplained' BY <1>1 DEF Traced, ResponseExplained, Attempt
<1> QED BY <1>2, <1>3, <1>4, <1>5, <1>6, <1>7 DEF Traced

LEMMA CheckBudgetTraces ==
  ASSUME Traced, CheckBudget
  PROVE  Traced'
<1>1. pc = "budget" /\ UNCHANGED <<setting, client>> BY DEF CheckBudget
<1>2. /\ tries = <<>> /\ generations = <<>> /\ response = None /\ completed = None
      /\ status = "provider_unavailable" /\ Attempt = 0 /\ span \notin Status
  BY <1>1 DEF Traced, RunOK, Attempt, SpanOK
<1>3. CASE /\ pc' \in {"finish", "next"}
           /\ UNCHANGED <<tries, status, completed, usage, answer, telemetry>>
           /\ \/ response' = Build("budget_exhausted", None) /\ pc' = "finish"
              \/ response' = response /\ pc' = "next"
  <2>1. /\ UNCHANGED <<tries, status, completed, usage, answer, span, handle, reference,
                       generations, held, raised>>
    BY <1>3 DEF telemetry
  <2>2. Types' BY <1>1, <1>3, <2>1, SameModels DEF Traced, Types
  <2>3. pc' = "finish" => /\ response'.status = "budget_exhausted"
                          /\ response'.output = None /\ response'.model = None
                          /\ response'.traced = reference
    BY <1>3 DEF Build
  <2>4. RunOK' BY <1>2, <1>3, <2>1, <2>3 DEF RunOK, Attempt, Status
  <2>5. SpanOK' BY <1>1, <1>2, <1>3, <2>1 DEF Traced, SpanOK, RaisedAt
  <2>6. HeldOK' /\ GenerationsOK' BY <1>2, <1>3, <2>1 DEF HeldOK, GenerationsOK, Told, Missing, Attempt
  <2>7. reference => span # "none" /\ \A x \in raised : x.at # "start"
    BY DEF Traced, SpanOK
  <2>8. tries' = <<>> /\ span' = span /\ raised' = raised BY <1>2, <2>1
  <2>9. ResponseExplained'
    <3>1. CASE response' = None BY <3>1 DEF ResponseExplained
    <3>2. CASE response' # None
      <4>1. pc' = "finish" BY <1>2, <1>3, <3>2
      <4>2. response'.traced => span' # "none" /\ \A x \in raised' : x.at # "start"
        BY <4>1, <2>3, <2>7, <2>8
      <4>3. /\ response'.status = "budget_exhausted" /\ tries' = <<>>
            /\ response'.output = None /\ response'.model = None
        BY <4>1, <2>3, <2>8
      <4> QED BY <4>2, <4>3 DEF ResponseExplained
    <3> QED BY <3>1, <3>2
  <2> QED BY <2>2, <2>4, <2>5, <2>6, <2>9 DEF Traced
<1> QED BY <1>1, <1>3, DieTraces DEF CheckBudget

\* What the span's part of the invariant needs of a step of the run itself: the
\* client may have raised, but not at the start.
LEMMA SpanKept ==
  ASSUME Traced, UNCHANGED <<span, handle, reference>>,
         raised \subseteq raised', \A x \in raised' \ raised : x.at # "start",
         pc \in {"next", "call", "usage"}, pc' \in {"next", "call", "usage", "finish"}
  PROVE  /\ SpanOK'
         /\ reference => span # "none" /\ \A x \in raised' : x.at # "start"
<1>1. span \notin Status /\ ~ span' \in Status BY DEF Traced, SpanOK
<1>2. handle \/ reference => span # "none" /\ \A x \in raised' : x.at # "start"
  BY DEF Traced, SpanOK
<1>3. span = "open" /\ ~handle => RaisedAt("start", 0)' BY DEF Traced, SpanOK, RaisedAt
<1> QED BY <1>1, <1>2, <1>3 DEF SpanOK

\* A try begins, with its generation or without.
LEMMA ToldOfNewTry ==
  ASSUME NEW ts \in Seq(Try), NEW gs \in Seq(Generation), NEW us, NEW rs, NEW rs2,
         Told(gs, ts, us, rs), rs \subseteq rs2, NEW model \in Asked,
         NEW ts2, ts2 = Append(ts, [model |-> model, verdict |-> "open"]),
         NEW gs2,
         \/ gs2 = gs
         \/ gs2 = Append(gs, [attempt |-> Len(ts) + 1, model |-> model, status |-> "open"])
  PROVE  Told(gs2, ts2, us, rs2)
<1>1. PICK n, try, new :
        /\ n = Len(ts) + 1
        /\ try = [model |-> model, verdict |-> "open"]
        /\ new = [attempt |-> n, model |-> model, status |-> "open"]
  OBVIOUS
<1>2. n \in Nat /\ try \in Try /\ new \in Generation BY <1>1 DEF Try, Generation
<1>3. /\ Len(ts2) = n /\ ts2[n] = try
      /\ \A k \in 1 .. Len(ts) : ts2[k] = ts[k] /\ k \in 1 .. Len(ts2)
      /\ n \in 1 .. Len(ts2)
  BY <1>1, <1>2
<1>4. ASSUME NEW g, ToldOf(g, ts, us, rs)
      PROVE  ToldOf(g, ts2, us, rs2)
  <2>1. g.attempt \in 1 .. Len(ts) BY <1>4 DEF ToldOf
  <2>2. ts2[g.attempt] = ts[g.attempt] /\ g.attempt \in 1 .. Len(ts2) BY <1>3, <2>1
  <2> QED BY <1>4, <2>2 DEF ToldOf
<1>5. ToldOf(new, ts2, us, rs2) BY <1>1, <1>3 DEF ToldOf
<1>6. ASSUME NEW i \in 1 .. Len(gs2)
      PROVE  (i \in 1 .. Len(gs) /\ gs2[i] = gs[i]) \/ gs2[i] = new
  <2>1. CASE gs2 = Append(gs, new) BY <1>2, <2>1
  <2> QED BY <1>1, <2>1
<1> QED BY <1>4, <1>5, <1>6 DEF Told

LEMMA MissingOfNewTry ==
  ASSUME NEW n \in Nat, NEW gs \in Seq(Generation), NEW rs, NEW rs2, rs \subseteq rs2,
         Missing(gs, n, rs), NEW model \in Asked, NEW gs2,
         \/ gs2 = gs /\ [at |-> "generation", attempt |-> n + 1] \in rs2
         \/ gs2 = Append(gs, [attempt |-> n + 1, model |-> model, status |-> "open"])
  PROVE  Missing(gs2, n + 1, rs2)
<1>1. ASSUME NEW k \in 1 .. n
      PROVE  \/ [at |-> "generation", attempt |-> k] \in rs2
             \/ \E i \in 1 .. Len(gs2) : gs2[i].attempt = k
  <2>1. CASE [at |-> "generation", attempt |-> k] \in rs BY <2>1
  <2>2. ASSUME NEW i \in 1 .. Len(gs), gs[i].attempt = k
        PROVE  \E j \in 1 .. Len(gs2) : gs2[j].attempt = k
    <3>1. i \in 1 .. Len(gs2) /\ gs2[i] = gs[i] OBVIOUS
    <3> QED BY <2>2, <3>1
  <2> QED BY <2>1, <2>2 DEF Missing
<1>2. \/ [at |-> "generation", attempt |-> n + 1] \in rs2
      \/ \E i \in 1 .. Len(gs2) : gs2[i].attempt = n + 1
  <2>1. CASE gs2 = Append(gs, [attempt |-> n + 1, model |-> model, status |-> "open"])
    <3>1. Len(gs) + 1 \in 1 .. Len(gs2) /\ gs2[Len(gs) + 1].attempt = n + 1 BY <2>1
    <3> QED BY <3>1
  <2> QED BY <2>1
<1>3. \A k \in 1 .. n + 1 : k \in 1 .. n \/ k = n + 1 OBVIOUS
<1> QED BY <1>1, <1>2, <1>3 DEF Missing

\* A try is judged; its generation, the last one if it has any, ends or the
\* client raised.
LEMMA ToldOfJudgedTry ==
  ASSUME NEW ts \in Seq(Try), NEW gs \in Seq(Generation), NEW us, NEW us2, NEW rs, NEW rs2,
         Told(gs, ts, us, rs), rs \subseteq rs2, us \subseteq us2, Len(ts) > 0,
         ts[Len(ts)].verdict = "open",
         NEW v \in Verdict,
         v # "error" => [attempts |-> Len(ts), model |-> ts[Len(ts)].model] \in us2,
         NEW ts2, ts2 = [ts EXCEPT ![Len(ts)].verdict = v],
         NEW gs2,
         \/ gs2 = gs /\ \A i \in 1 .. Len(gs) : gs[i].attempt # Len(ts)
         \/ gs2 = gs /\ [at |-> "finish", attempt |-> Len(ts)] \in rs2
         \/ /\ gs2 = [gs EXCEPT ![Len(gs)].status = v]
            /\ Len(gs) > 0 /\ gs[Len(gs)].attempt = Len(ts)
            /\ \A i \in 1 .. Len(gs) : gs[i].attempt = Len(ts) => i = Len(gs)
  PROVE  Told(gs2, ts2, us2, rs2)
<1>1. PICK n : n = Len(ts) OBVIOUS
<1>2. /\ n \in Nat /\ n > 0 /\ Len(ts2) = n
      /\ \A k \in 1 .. n : ts[k] \in Try
      /\ \A k \in 1 .. n : k # n => ts2[k] = ts[k]
      /\ ts2[n] = [ts[n] EXCEPT !.verdict = v]
  BY <1>1
<1>3. ts2[n].verdict = v /\ ts2[n].model = ts[n].model BY <1>2 DEF Try
<1>4. ASSUME NEW g, ToldOf(g, ts, us, rs), g.attempt # n
      PROVE  ToldOf(g, ts2, us2, rs2)
  <2>1. g.attempt \in 1 .. n BY <1>1, <1>4 DEF ToldOf
  <2>2. ts2[g.attempt] = ts[g.attempt] BY <1>2, <1>4, <2>1
  <2> QED BY <1>1, <1>2, <1>4, <2>1, <2>2 DEF ToldOf
<1>5. ASSUME NEW g, ToldOf(g, ts, us, rs), g.attempt = n,
             [at |-> "finish", attempt |-> n] \in rs2
      PROVE  ToldOf(g, ts2, us2, rs2)
  <2>1. g.status = "open" BY <1>1, <1>5 DEF ToldOf
  <2> QED BY <1>1, <1>2, <1>3, <1>5, <2>1 DEF ToldOf
<1>6. ASSUME NEW i \in 1 .. Len(gs), gs2 = [gs EXCEPT ![Len(gs)].status = v],
             i = Len(gs), gs[i].attempt = n
      PROVE  ToldOf(gs2[i], ts2, us2, rs2)
  <2>1. gs[i] \in Generation /\ gs2[i] = [gs[i] EXCEPT !.status = v] BY <1>6
  <2>2. gs2[i].attempt = n /\ gs2[i].model = gs[i].model /\ gs2[i].status = v
    BY <1>6, <2>1 DEF Generation
  <2>3. gs[i].model = ts[n].model BY <1>6 DEF Told, ToldOf
  <2>4. v # "open" BY DEF Verdict
  <2>5. v \in {"completed", "review"} => [attempts |-> n, model |-> ts[n].model] \in us2
    BY <1>1
  <2> QED BY <1>2, <1>3, <2>2, <2>3, <2>4, <2>5 DEF ToldOf
<1>7. \A i \in 1 .. Len(gs) : ToldOf(gs[i], ts, us, rs) BY DEF Told
<1>8. CASE /\ gs2 = gs
           /\ \/ \A i \in 1 .. Len(gs) : gs[i].attempt # Len(ts)
              \/ [at |-> "finish", attempt |-> Len(ts)] \in rs2
  <2>1. ASSUME NEW i \in 1 .. Len(gs) PROVE ToldOf(gs[i], ts2, us2, rs2)
    <3>1. CASE gs[i].attempt # n BY <1>4, <1>7, <3>1
    <3>2. CASE gs[i].attempt = n BY <1>1, <1>5, <1>7, <1>8, <3>2
    <3> QED BY <3>1, <3>2
  <2> QED BY <1>8, <2>1 DEF Told
<1>9. CASE /\ gs2 = [gs EXCEPT ![Len(gs)].status = v]
           /\ Len(gs) > 0 /\ gs[Len(gs)].attempt = Len(ts)
           /\ \A i \in 1 .. Len(gs) : gs[i].attempt = Len(ts) => i = Len(gs)
  <2>1. Len(gs2) = Len(gs) /\ \A i \in 1 .. Len(gs) : i # Len(gs) => gs2[i] = gs[i]
    BY <1>9
  <2>2. ASSUME NEW i \in 1 .. Len(gs) PROVE ToldOf(gs2[i], ts2, us2, rs2)
    <3>1. CASE i = Len(gs) BY <1>1, <1>6, <1>9, <3>1
    <3>2. CASE i # Len(gs) BY <1>1, <1>4, <1>7, <1>9, <2>1, <3>2
    <3> QED BY <3>1, <3>2
  <2> QED BY <2>1, <2>2 DEF Told
<1> QED BY <1>8, <1>9

LEMMA MissingOfJudgedTry ==
  ASSUME NEW n \in Nat, NEW gs \in Seq(Generation), NEW rs, NEW rs2, rs \subseteq rs2,
         Missing(gs, n, rs), NEW v, NEW gs2,
         gs2 = gs \/ gs2 = [gs EXCEPT ![Len(gs)].status = v]
  PROVE  Missing(gs2, n, rs2)
<1>1. ASSUME NEW i \in 1 .. Len(gs)
      PROVE  i \in 1 .. Len(gs2) /\ gs2[i].attempt = gs[i].attempt
  <2>1. gs[i] \in Generation OBVIOUS
  <2> QED BY <2>1 DEF Generation
<1> QED BY <1>1 DEF Missing

LEMMA HoldingOfNewTry ==
  ASSUME NEW ts \in Seq(Try), NEW gs \in Seq(Generation), NEW us, NEW rs, NEW h,
         Told(gs, ts, us, rs), NEW model \in Asked, NEW gs2,
         \/ gs2 = gs /\ h = FALSE
         \/ /\ gs2 = Append(gs, [attempt |-> Len(ts) + 1, model |-> model, status |-> "open"])
            /\ h = TRUE
  PROVE  Holding(gs2, Len(ts) + 1, h)
<1>1. PICK n, new : /\ n = Len(ts) + 1
                    /\ new = [attempt |-> n, model |-> model, status |-> "open"]
  OBVIOUS
<1>2. n \in Nat /\ new \in Generation BY <1>1 DEF Generation
<1>3. \A i \in 1 .. Len(gs) : gs[i].attempt # n
  <2>1. \A i \in 1 .. Len(gs) : gs[i].attempt \in 1 .. Len(ts) BY DEF Told, ToldOf
  <2> QED BY <1>1, <2>1
<1>4. CASE gs2 = gs /\ h = FALSE BY <1>1, <1>3, <1>4 DEF Holding
<1>5. CASE gs2 = Append(gs, new) /\ h = TRUE
  <2>1. /\ Len(gs) \in Nat /\ Len(gs2) = Len(gs) + 1 /\ gs2[Len(gs2)] = new
        /\ \A i \in 1 .. Len(gs) : gs2[i] = gs[i]
        /\ \A i \in 1 .. Len(gs2) : i \in 1 .. Len(gs) \/ i = Len(gs2)
    BY <1>2, <1>5
  <2> QED BY <1>1, <1>3, <1>5, <2>1 DEF Holding
<1> QED BY <1>1, <1>4, <1>5

\* The next model's try, with its generation or without.
LEMMA TryTraces ==
  ASSUME Traced, pc = "next", pc' = "call", Attempt < Len(Models),
         tries' = Append(tries, [model |-> Models[Attempt + 1], verdict |-> "open"]),
         StartGeneration(Attempt + 1, Models[Attempt + 1]),
         UNCHANGED <<setting, client, status, completed, usage, response, answer, span,
                     handle, reference>>
  PROVE  Traced'
<1>1. PICK n, model : n = Len(tries) + 1 /\ model = Models[n] OBVIOUS
<1>2. /\ tries \in Seq(Try) /\ generations \in Seq(Generation) /\ Len(tries) \in Nat
      /\ n \in Nat /\ model \in Asked
      /\ tries' = Append(tries, [model |-> model, verdict |-> "open"])
      /\ Attempt = Len(tries)
  BY <1>1 DEF Traced, Types, Attempt, Asked
<1>3. /\ [model |-> model, verdict |-> "open"] \in Try
      /\ [attempt |-> n, model |-> model, status |-> "open"] \in Generation
  BY <1>2 DEF Try, Generation
<1>4. /\ Attempt' = n /\ tries' \in Seq(Try) /\ n > 0
      /\ tries'[n].model = Models[n] /\ tries'[n].verdict = "open"
      /\ \A k \in 1 .. Len(tries) : tries'[k] = tries[k]
  BY <1>1, <1>2, <1>3 DEF Attempt
<1>5. Models' = Models /\ Try' = Try /\ Generation' = Generation BY SameModels
<1>6. /\ raised \subseteq raised' /\ \A x \in raised' \ raised : x.at # "start"
      /\ held' \in BOOLEAN
      /\ \/ /\ generations' = generations /\ held' = FALSE
            /\ handle => [at |-> "generation", attempt |-> n] \in raised'
         \/ /\ held' = TRUE
            /\ generations' = Append(generations,
                                    [attempt |-> n, model |-> model, status |-> "open"])
  <2>1. StartGeneration(n, model) BY <1>1, <1>2
  <2>2. CASE ~handle /\ held' = FALSE /\ UNCHANGED <<generations, raised>>
    BY <2>2
  <2>3. CASE /\ held' = TRUE
             /\ generations' = Append(generations,
                                     [attempt |-> n, model |-> model, status |-> "open"])
             /\ UNCHANGED raised
    BY <2>3
  <2>4. CASE /\ held' = FALSE /\ UNCHANGED generations
             /\ raised' = raised \cup {[at |-> "generation", attempt |-> n]}
    <3>1. \A x \in raised' \ raised : x = [at |-> "generation", attempt |-> n] BY <2>4
    <3>2. \A x \in raised' \ raised : x.at # "start" BY <3>1
    <3>3. raised \subseteq raised' /\ [at |-> "generation", attempt |-> n] \in raised' BY <2>4
    <3> QED BY <2>4, <3>2, <3>3
  <2> QED BY <2>1, <2>2, <2>3, <2>4 DEF StartGeneration
<1>7. Types'
  <2>1. generations' \in Seq(Generation)
    <3>1. CASE generations' = generations BY <1>2, <3>1
    <3>2. CASE generations' = Append(generations,
                                     [attempt |-> n, model |-> model, status |-> "open"])
      BY <1>2, <1>3, <3>2
    <3> QED BY <1>6, <3>1, <3>2
  <2>2. span' \in {"none", "open"} \cup Status /\ handle' \in BOOLEAN /\ reference' \in BOOLEAN
    BY DEF Traced, Types
  <2> QED BY <1>4, <1>5, <1>6, <2>1, <2>2 DEF Types, Status
<1>8. RunOK'
  <2>1. \A k \in 1 .. Len(tries) : tries[k].model = Models[k]
    BY <1>2 DEF Traced, RunOK
  <2>2. \A k \in 1 .. n : tries'[k].model = Models[k] BY <1>1, <1>2, <1>4, <2>1
  <2>3. response = None /\ completed = None BY DEF Traced, RunOK
  <2>4. \A k \in 1 .. Attempt' : tries'[k].model = Models'[k] BY <1>4, <1>5, <2>2
  <2> QED BY <1>4, <2>3, <2>4 DEF RunOK
<1>9. SpanOK' BY <1>6, SpanKept
<1>10. Told(generations, tries, usage, raised) BY DEF Traced, GenerationsOK
<1>11. HeldOK'
  <2>1. Holding(generations', Len(tries) + 1, held') BY <1>1, <1>2, <1>6, <1>10, HoldingOfNewTry
  <2> QED BY <1>1, <1>4, <2>1 DEF HeldOK
<1>12. GenerationsOK'
  <2>1. Told(generations', tries', usage, raised')
    BY <1>1, <1>2, <1>6, <1>10, ToldOfNewTry
  <2>2. handle => Missing(generations', Len(tries) + 1, raised')
    <3>1. handle => Missing(generations, Len(tries), raised)
      BY <1>2 DEF Traced, GenerationsOK
    <3> QED BY <1>1, <1>2, <1>6, <3>1, MissingOfNewTry
  <2> QED BY <1>1, <1>4, <2>1, <2>2 DEF GenerationsOK
<1>13. ResponseExplained' BY DEF Traced, RunOK, ResponseExplained
<1> QED BY <1>7, <1>8, <1>9, <1>11, <1>12, <1>13 DEF Traced

\* A verdict on the try that runs, and its generation with it.
LEMMA JudgeTraces ==
  ASSUME Traced, pc \in {"call", "usage"}, pc' \in {"next", "finish"}, NEW v \in Verdict,
         Judge(v), FinishGeneration(v), usage \subseteq usage',
         v # "error" => [attempts |-> Attempt, model |-> Models[Attempt]] \in usage',
         UNCHANGED <<setting, span, handle, reference, held>>
  PROVE  /\ Types' /\ HeldOK' /\ GenerationsOK'
         /\ Attempt' = Attempt /\ Attempt > 0 /\ Models' = Models
         /\ \A k \in 1 .. Attempt : tries'[k].model = Models[k]
         /\ tries'[Attempt].verdict = v
         /\ raised \subseteq raised' /\ \A x \in raised' \ raised : x.at # "start"
<1>1. PICK n : n = Len(tries) OBVIOUS
<1>2. /\ tries \in Seq(Try) /\ generations \in Seq(Generation)
      /\ n \in Nat /\ n > 0 /\ Attempt = n /\ tries[n].verdict = "open"
      /\ tries' = [tries EXCEPT ![n].verdict = v]
      /\ \A k \in 1 .. n : tries[k].model = Models[k]
  BY <1>1 DEF Traced, Types, RunOK, Attempt, Judge
<1>3. /\ Told(generations, tries, usage, raised) /\ Holding(generations, n, held)
      /\ handle => Missing(generations, n, raised)
  BY <1>2 DEF Traced, GenerationsOK, HeldOK
<1>4. Models' = Models /\ Try' = Try /\ Generation' = Generation BY SameModels
<1>5. /\ raised \subseteq raised' /\ \A x \in raised' \ raised : x.at # "start"
      /\ \/ generations' = generations /\ ~held
         \/ generations' = generations /\ [at |-> "finish", attempt |-> n] \in raised'
         \/ held /\ generations' = [generations EXCEPT ![Len(generations)].status = v]
  <2>1. CASE ~held /\ UNCHANGED <<generations, raised>> BY <2>1
  <2>2. CASE /\ held
             /\ generations' = [generations EXCEPT ![Len(generations)].status = v]
             /\ UNCHANGED raised
    BY <2>2
  <2>3. CASE held /\ Raise("finish") /\ UNCHANGED generations
    <3>1. raised' = raised \cup {[at |-> "finish", attempt |-> n]} BY <1>2, <2>3 DEF Raise
    <3>2. \A x \in raised' \ raised : x = [at |-> "finish", attempt |-> n] BY <3>1
    <3>3. \A x \in raised' \ raised : x.at # "start" BY <3>2
    <3>4. raised \subseteq raised' /\ [at |-> "finish", attempt |-> n] \in raised' BY <3>1
    <3> QED BY <2>3, <3>3, <3>4
  <2> QED BY <2>1, <2>2, <2>3 DEF FinishGeneration
<1>6. /\ tries' \in Seq(Try) /\ Len(tries') = n
      /\ \A k \in 1 .. n : tries'[k].model = Models[k]
      /\ tries'[n].verdict = v
  <2>1. \A k \in 1 .. n : tries[k] \in Try BY <1>1, <1>2
  <2>2. [tries[n] EXCEPT !.verdict = v] \in Try BY <1>2, <2>1 DEF Try
  <2>3. tries' \in Seq(Try) /\ Len(tries') = n BY <1>1, <1>2, <2>2
  <2>4. tries'[n] = [tries[n] EXCEPT !.verdict = v] BY <1>1, <1>2
  <2>5. \A k \in 1 .. n : k # n => tries'[k] = tries[k] BY <1>1, <1>2
  <2>6. tries'[n].verdict = v /\ tries'[n].model = tries[n].model
    BY <1>2, <2>1, <2>4 DEF Try
  <2> QED BY <1>2, <2>3, <2>5, <2>6
<1>7. Attempt' = n BY <1>6 DEF Attempt
<1>8. generations' \in Seq(Generation)
  <2>1. CASE generations' = generations BY <1>2, <2>1
  <2>2. CASE held /\ generations' = [generations EXCEPT ![Len(generations)].status = v]
    <3>1. Len(generations) \in 1 .. Len(generations) BY <1>2, <1>3, <2>2 DEF Holding
    <3>2. \A g \in Generation : [g EXCEPT !.status = v] \in Generation BY DEF Generation
    <3>3. PICK m : m = Len(generations) OBVIOUS
    <3>4. m \in 1 .. Len(generations) /\ generations[m] \in Generation BY <1>2, <3>1, <3>3
    <3>5. generations' = [generations EXCEPT ![m] = [generations[m] EXCEPT !.status = v]]
      BY <2>2, <3>3
    <3>6. [generations[m] EXCEPT !.status = v] \in Generation BY <3>2, <3>4
    <3> QED BY <1>2, <3>4, <3>5, <3>6
  <2> QED BY <1>5, <2>1, <2>2
<1>9. Types'
  <2>1. /\ span' \in {"none", "open"} \cup Status /\ handle' \in BOOLEAN
        /\ reference' \in BOOLEAN /\ held' \in BOOLEAN
    BY DEF Traced, Types
  <2> QED BY <1>4, <1>6, <1>8, <2>1 DEF Types, Status
<1>10. HeldOK' BY DEF HeldOK
<1>11. Told(generations', tries', usage', raised')
  <2>1. v # "error" => [attempts |-> n, model |-> tries[n].model] \in usage' BY <1>2
  <2>2. \/ generations' = generations /\ \A i \in 1 .. Len(generations) :
                                            generations[i].attempt # Len(tries)
        \/ generations' = generations /\ [at |-> "finish", attempt |-> Len(tries)] \in raised'
        \/ /\ generations' = [generations EXCEPT ![Len(generations)].status = v]
           /\ Len(generations) > 0 /\ generations[Len(generations)].attempt = Len(tries)
           /\ \A i \in 1 .. Len(generations) :
                 generations[i].attempt = Len(tries) => i = Len(generations)
    BY <1>1, <1>3, <1>5 DEF Holding
  <2>3. /\ raised \subseteq raised' /\ usage \subseteq usage' /\ Len(tries) > 0
        /\ tries[Len(tries)].verdict = "open"
        /\ tries' = [tries EXCEPT ![Len(tries)].verdict = v]
        /\ v # "error" => [attempts |-> Len(tries), model |-> tries[Len(tries)].model] \in usage'
    BY <1>1, <1>2, <1>5, <2>1
  <2> QED BY ONLY <1>2, <1>3, <2>2, <2>3, ToldOfJudgedTry, ZenonT(60)
<1>12. handle' => Missing(generations', n, raised')
  BY <1>2, <1>3, <1>5, MissingOfJudgedTry
<1>13. GenerationsOK' BY <1>7, <1>11, <1>12 DEF GenerationsOK
<1> QED BY <1>2, <1>4, <1>5, <1>6, <1>7, <1>9, <1>10, <1>13

LEMMA ProviderRepliesTraces ==
  ASSUME Traced, ProviderReplies
  PROVE  Traced'
<1>1. /\ pc = "call" /\ pc' = "usage"
      /\ UNCHANGED <<setting, tries, status, completed, usage, response, span, handle,
                     reference, generations, held, raised>>
      /\ Models' = Models
  BY SameModels DEF ProviderReplies, telemetry
<1>2. Types' BY <1>1, SameModels DEF Traced, Types
<1>3. RunOK' BY <1>1 DEF Traced, RunOK, Attempt
<1>4. SpanOK' BY <1>1, SpanKept
<1>5. HeldOK' BY <1>1 DEF Traced, HeldOK, Attempt
<1>6. GenerationsOK' BY <1>1 DEF Traced, GenerationsOK, Attempt
<1>7. ResponseExplained' BY <1>1 DEF Traced, RunOK, ResponseExplained
<1> QED BY <1>2, <1>3, <1>4, <1>5, <1>6, <1>7 DEF Traced

LEMMA ProviderFailsTraces ==
  ASSUME Traced, ProviderFails
  PROVE  Traced'
<1>1. /\ pc = "call" /\ pc' = "next" /\ Judge("error") /\ FinishGeneration("error")
      /\ status' = "provider_unavailable"
      /\ UNCHANGED <<setting, completed, usage, response, span, handle, reference, held>>
      /\ "error" \in Verdict
  BY DEF ProviderFails, Verdict
<1>2. /\ Types' /\ HeldOK' /\ GenerationsOK'
      /\ Attempt' = Attempt /\ Attempt > 0 /\ Models' = Models
      /\ \A k \in 1 .. Attempt : tries'[k].model = Models[k]
      /\ tries'[Attempt].verdict = "error"
      /\ raised \subseteq raised' /\ \A x \in raised' \ raised : x.at # "start"
  BY <1>1, JudgeTraces
<1>3. response = None /\ completed = None BY <1>1 DEF Traced, RunOK
<1>4. RunOK' BY <1>1, <1>2, <1>3 DEF RunOK
<1>5. SpanOK' BY <1>1, <1>2, SpanKept
<1>6. ResponseExplained' BY <1>1, <1>3 DEF ResponseExplained
<1> QED BY <1>2, <1>4, <1>5, <1>6 DEF Traced

LEMMA RecordUsageTraces ==
  ASSUME Traced, RecordUsage
  PROVE  Traced'
<1>1. pc = "usage" /\ UNCHANGED <<setting, client>> BY DEF RecordUsage
<1>2. CASE Die BY <1>1, <1>2, DieTraces
<1>3. ASSUME NEW v \in {"completed", "review"}, Judge(v), FinishGeneration(v),
             usage' = usage \cup {[attempts |-> Attempt, model |-> Models[Attempt]]},
             UNCHANGED <<answer, span, handle, reference, held>>,
             pc' \in {"next", "finish"}
      PROVE  /\ Types' /\ HeldOK' /\ GenerationsOK'
             /\ Attempt' = Attempt /\ Attempt > 0 /\ Models' = Models
             /\ \A k \in 1 .. Attempt : tries'[k].model = Models[k]
             /\ tries'[Attempt].verdict = v
             /\ SpanOK'
             /\ reference => span # "none" /\ \A x \in raised' : x.at # "start"
  <2>1. v \in Verdict /\ usage \subseteq usage'
        /\ [attempts |-> Attempt, model |-> Models[Attempt]] \in usage'
    BY <1>3 DEF Verdict
  <2>2. /\ Types' /\ HeldOK' /\ GenerationsOK'
        /\ Attempt' = Attempt /\ Attempt > 0 /\ Models' = Models
        /\ \A k \in 1 .. Attempt : tries'[k].model = Models[k]
        /\ tries'[Attempt].verdict = v
        /\ raised \subseteq raised' /\ \A x \in raised' \ raised : x.at # "start"
    BY <1>1, <1>3, <2>1, JudgeTraces
  <2> QED BY <1>1, <1>3, <2>2, SpanKept
<1>4. CASE /\ usage' = usage \cup {[attempts |-> Attempt, model |-> Models[Attempt]]}
           /\ Judge("completed") /\ status' = "completed" /\ completed' = Models[Attempt]
           /\ FinishGeneration("completed")
           /\ response' = Build("completed", Models[Attempt])
           /\ pc' = "finish"
           /\ UNCHANGED <<answer, span, handle, reference, held>>
  <2>1. /\ Types' /\ HeldOK' /\ GenerationsOK'
        /\ Attempt' = Attempt /\ Attempt > 0 /\ Models' = Models
        /\ \A k \in 1 .. Attempt : tries'[k].model = Models[k]
        /\ tries'[Attempt].verdict = "completed"
        /\ SpanOK'
        /\ reference => span # "none" /\ \A x \in raised' : x.at # "start"
    BY <1>3, <1>4
  <2>2. /\ response'.status = "completed" /\ response'.output = Attempt
        /\ response'.model = Models[Attempt] /\ response'.traced = reference
    BY <1>4 DEF Build
  <2>3. RunOK' BY <1>4, <2>1, <2>2 DEF RunOK, Status
  <2>4. tries' # <<>>
    <3>1. Attempt' > 0 BY <2>1
    <3> QED BY <3>1 DEF Attempt
  <2>5. tries'[Attempt'].model = Models[Attempt] /\ tries'[Attempt'].verdict = "completed"
    <3>1. Attempt \in Nat BY DEF Traced, Types, Attempt
    <3>2. Attempt \in 1 .. Attempt BY <2>1, <3>1
    <3> QED BY <2>1, <3>2
  <2>6. ResponseExplained' BY <1>4, <2>1, <2>2, <2>4, <2>5 DEF ResponseExplained
  <2> QED BY <2>1, <2>3, <2>6 DEF Traced
<1>5. CASE /\ usage' = usage \cup {[attempts |-> Attempt, model |-> Models[Attempt]]}
           /\ Judge("review") /\ status' = "review"
           /\ FinishGeneration("review")
           /\ pc' = "next"
           /\ UNCHANGED <<completed, response>>
           /\ UNCHANGED <<answer, span, handle, reference, held>>
  <2>1. /\ Types' /\ HeldOK' /\ GenerationsOK'
        /\ Attempt' = Attempt /\ Attempt > 0 /\ Models' = Models
        /\ \A k \in 1 .. Attempt : tries'[k].model = Models[k]
        /\ tries'[Attempt].verdict = "review"
        /\ SpanOK'
    BY <1>3, <1>5
  <2>2. response = None /\ completed = None BY <1>1 DEF Traced, RunOK
  <2>3. RunOK' BY <1>5, <2>1, <2>2 DEF RunOK
  <2>4. ResponseExplained' BY <1>5, <2>2 DEF ResponseExplained
  <2> QED BY <2>1, <2>3, <2>4 DEF Traced
<1> QED BY <1>2, <1>4, <1>5 DEF RecordUsage

\* The end of the list: the response is the last try's, or that of a run that had
\* no model to try.
LEMMA NextModelTraces ==
  ASSUME Traced, NextModel
  PROVE  Traced'
<1>1. /\ pc = "next" /\ UNCHANGED <<setting, client, status, completed, usage, answer, span,
                                   handle, reference>>
  BY DEF NextModel
<1>2. CASE /\ Attempt < Len(Models) /\ pc' = "call" /\ UNCHANGED response
           /\ LET n == Attempt + 1 IN
              /\ tries' = Append(tries, [model |-> Models[n], verdict |-> "open"])
              /\ StartGeneration(n, Models[n])
  BY <1>1, <1>2, TryTraces
<1>3. CASE /\ response' = Build(status, completed) /\ pc' = "finish"
           /\ UNCHANGED <<tries, generations, held, raised>>
  <2>1. /\ response'.status = status /\ response'.model = completed
        /\ response'.output = IF status = "completed" THEN Attempt ELSE None
        /\ response'.traced = reference
    BY <1>3 DEF Build
  <2>2. /\ completed = None /\ \A k \in 1 .. Attempt : tries[k].model = Models[k]
        /\ \/ tries = <<>> /\ status = "provider_unavailable"
           \/ /\ Attempt > 0
              /\ \/ tries[Attempt].verdict = "error" /\ status = "provider_unavailable"
                 \/ tries[Attempt].verdict = "review" /\ status = "review"
    BY <1>1 DEF Traced, RunOK
  <2>3. Models' = Models /\ Attempt' = Attempt BY <1>1, <1>3, SameModels DEF Attempt
  <2>4. Types' BY <1>1, <1>3, SameModels DEF Traced, Types
  <2>5. RunOK' BY <1>3, <2>1, <2>2, <2>3 DEF RunOK, Status
  <2>6. SpanOK' /\ (reference => span # "none" /\ \A x \in raised' : x.at # "start")
    BY <1>1, <1>3, SpanKept
  <2>7. HeldOK' BY <1>3 DEF HeldOK
  <2>8. GenerationsOK' BY <1>1, <1>3, <2>3 DEF Traced, GenerationsOK
  <2>9. ResponseExplained'
    <3>1. tries = <<>> \/ (tries # <<>> /\ tries[Attempt].verdict \in {"error", "review"})
      <4>1. Attempt > 0 => tries # <<>> BY DEF Attempt
      <4> QED BY <2>2, <4>1
    <3>2. response'.output = None /\ response'.model = None BY <2>1, <2>2
    <3>3. CASE tries = <<>>
      BY <1>1, <1>3, <2>1, <2>2, <2>3, <2>6, <3>2, <3>3 DEF ResponseExplained, Attempt
    <3>4. CASE tries # <<>> /\ tries[Attempt].verdict \in {"error", "review"}
      <4>1. response'.status = IF tries[Attempt].verdict = "error"
                                 THEN "provider_unavailable" ELSE tries[Attempt].verdict
        BY <2>1, <2>2, <3>4
      <4> QED BY <1>1, <1>3, <2>1, <2>3, <2>6, <3>2, <3>4, <4>1 DEF ResponseExplained
    <3> QED BY <3>1, <3>3, <3>4
  <2> QED BY <2>4, <2>5, <2>6, <2>7, <2>8, <2>9 DEF Traced
<1> QED BY <1>2, <1>3 DEF NextModel

LEMMA FinishTraceTraces ==
  ASSUME Traced, FinishTrace
  PROVE  Traced'
<1>1. /\ pc = "finish" /\ pc' = "store"
      /\ UNCHANGED <<setting, tries, status, completed, usage, response, answer,
                     handle, reference, generations, held>>
      /\ Models' = Models /\ Attempt' = Attempt
  BY SameModels DEF FinishTrace, Attempt
<1>2. /\ response.status \in Status /\ \A k \in 1 .. Attempt : tries[k].model = Models[k]
      /\ span \notin Status /\ span \in {"none", "open"} \cup Status
      /\ handle \/ reference => span # "none" /\ \A x \in raised : x.at # "start"
      /\ span = "open" /\ ~handle => RaisedAt("start", 0)
  BY <1>1 DEF Traced, Types, RunOK, SpanOK
<1>3. /\ raised \subseteq raised' /\ \A x \in raised' \ raised : x.at # "start"
      /\ \/ handle /\ span' = response.status
         \/ ~handle /\ span' = span
         \/ handle /\ span' = span /\ RaisedAt("end", Attempt)'
  <2>1. CASE /\ span' = IF handle THEN response.status ELSE span
             /\ UNCHANGED raised
    BY <2>1
  <2>2. CASE handle /\ Raise("end") /\ UNCHANGED span
    <3>1. raised' = raised \cup {[at |-> "end", attempt |-> Attempt]} BY <2>2 DEF Raise
    <3>2. \A x \in raised' \ raised : x = [at |-> "end", attempt |-> Attempt] BY <3>1
    <3>3. \A x \in raised' \ raised : x.at # "start" BY <3>2
    <3>4. RaisedAt("end", Attempt)' BY <1>1, <3>1 DEF RaisedAt
    <3> QED BY <2>2, <3>1, <3>3, <3>4
  <2> QED BY <2>1, <2>2 DEF FinishTrace
<1>4. Types'
  <2>1. span' \in {"none", "open"} \cup Status BY <1>2, <1>3
  <2> QED BY <1>1, <2>1, SameModels DEF Traced, Types, Status
<1>5. RunOK' BY <1>1, <1>2 DEF RunOK
<1>6. handle \/ reference => span' # "none" /\ \A x \in raised' : x.at # "start"
  BY <1>2, <1>3 DEF Status
<1>7. SpanOK'
  <2>1. RaisedAt("start", 0) => RaisedAt("start", 0)' BY <1>3 DEF RaisedAt
  <2>2. span' \in Status => response.status = span' BY <1>2, <1>3
  <2>3. span' = "open" => RaisedAt("start", 0)' \/ RaisedAt("end", Attempt)'
    BY <1>2, <1>3, <2>1 DEF Status
  <2>4. span' = "open" /\ ~handle => RaisedAt("start", 0)' BY <1>2, <1>3, <2>1
  <2> QED BY <1>1, <1>6, <2>2, <2>3, <2>4 DEF SpanOK
<1>8. HeldOK' BY <1>1 DEF HeldOK
<1>9. GenerationsOK'
  <2>1. /\ Told(generations, tries, usage, raised)
        /\ handle => Missing(generations, Attempt, raised)
    BY DEF Traced, GenerationsOK
  <2>2. Told(generations, tries, usage, raised') BY <1>3, <2>1 DEF Told, ToldOf
  <2>3. handle => Missing(generations, Attempt, raised') BY <1>3, <2>1 DEF Missing
  <2> QED BY <1>1, <2>2, <2>3 DEF GenerationsOK
<1>10. ResponseExplained'
  <2>1. ResponseExplained BY DEF Traced
  <2>2. span # "none" => span' # "none" BY <1>2, <1>3 DEF Status
  <2> QED BY <1>1, <1>3, <2>1, <2>2 DEF ResponseExplained
<1> QED BY <1>4, <1>5, <1>7, <1>8, <1>9, <1>10 DEF Traced

LEMMA PutTraces ==
  ASSUME Traced, Put
  PROVE  Traced'
<1>1. pc = "store" /\ UNCHANGED <<setting, client>> BY DEF Put
<1>2. CASE Die BY <1>1, <1>2, DieTraces
<1>3. CASE /\ pc' = "done"
           /\ UNCHANGED <<tries, status, completed, usage, response, telemetry>>
  <2>1. /\ UNCHANGED <<span, handle, reference, generations, held, raised>>
        /\ Models' = Models /\ Attempt' = Attempt
    BY <1>1, <1>3, SameModels DEF telemetry, Attempt
  <2>2. Types' BY <1>1, <1>3, <2>1, SameModels DEF Traced, Types
  <2>3. RunOK' BY <1>3, <2>1 DEF Traced, RunOK
  <2>4. SpanOK' BY <1>1, <1>3, <2>1 DEF Traced, SpanOK, RaisedAt
  <2>5. HeldOK' BY <1>3 DEF HeldOK
  <2>6. GenerationsOK' BY <1>3, <2>1 DEF Traced, GenerationsOK
  <2>7. ResponseExplained' BY <1>3, <2>1 DEF Traced, ResponseExplained
  <2> QED BY <2>2, <2>3, <2>4, <2>5, <2>6, <2>7 DEF Traced
<1> QED BY <1>1, <1>2, <1>3 DEF Put

LEMMA NextTraced == Traced /\ [Next]_vars => Traced'
<1> SUFFICES ASSUME Traced, [Next]_vars PROVE Traced' OBVIOUS
<1>1. CASE UNCHANGED vars
  <2>1. /\ UNCHANGED <<setting, pc, tries, status, completed, usage, response, answer,
                      span, handle, reference, generations, held, raised>>
        /\ Models' = Models /\ Attempt' = Attempt
    BY <1>1, SameModels DEF vars, run, telemetry, Attempt
  <2>2. Types' BY <2>1, SameModels DEF Traced, Types
  <2>3. RunOK' BY <2>1 DEF Traced, RunOK
  <2>4. SpanOK' BY <2>1 DEF Traced, SpanOK, RaisedAt
  <2>5. HeldOK' /\ GenerationsOK' BY <2>1 DEF Traced, HeldOK, GenerationsOK
  <2>6. ResponseExplained' BY <2>1 DEF Traced, ResponseExplained
  <2> QED BY <2>2, <2>3, <2>4, <2>5, <2>6 DEF Traced
<1>2. CASE StartTrace BY <1>2, StartTraceTraces
<1>3. CASE CheckBudget BY <1>3, CheckBudgetTraces
<1>4. CASE NextModel BY <1>4, NextModelTraces
<1>5. CASE ProviderReplies BY <1>5, ProviderRepliesTraces
<1>6. CASE ProviderFails BY <1>6, ProviderFailsTraces
<1>7. CASE RecordUsage BY <1>7, RecordUsageTraces
<1>8. CASE FinishTrace BY <1>8, FinishTraceTraces
<1>9. CASE Put BY <1>9, PutTraces
<1> QED
  BY <1>1, <1>2, <1>3, <1>4, <1>5, <1>6, <1>7, <1>8, <1>9 DEF Next, Step, Terminating

\* The inductive invariant: where the run is, what Langfuse was told by then, and the
\* generation of the try that runs.
THEOREM TracedHolds == Spec => []Traced
<1> QED BY InitTraced, NextTraced, PTL DEF Spec

\* Whatever calls of the client raise, Langfuse's account of a run contradicts
\* neither its tries nor its response, and what it lacks the client took away or
\* an exception from the store.
THEOREM TraceAgreesHolds == Spec => []TraceAgrees
<1> QED BY TracedHolds, TracedImplies, PTL

\* The response follows from the tries alone.
THEOREM ResponseExplainedHolds == Spec => []ResponseExplained
<1>1. Traced => ResponseExplained BY DEF Traced
<1> QED BY TracedHolds, <1>1, PTL

-----------------------------------------------------------------------------
(* ordered_models, by least counterexample: what a fold over a list keeps *)

Keep(kept, m) == IF m = "" \/ Contains(kept, m) THEN kept ELSE Append(kept, m)

\* g folds Keep over the first indices of w.
FoldsKeep(g, w, S) ==
    g = [s \in SUBSET S |-> IF s = {} THEN <<>> ELSE Keep(g[s \ {Max(s)}], w[Max(s)])]

Kept(w) ==
    FoldLeft(LAMBDA kept, m : IF m = "" \/ Contains(kept, m) THEN kept ELSE Append(kept, m),
             <<>>, w)

LEMMA OrderedKept ==
    ASSUME NEW s PROVE OrderedModels(s) = Kept(Append(Candidates(s), s.fallback))
BY DEF OrderedModels, Kept

LEMMA KeptDef ==
    ASSUME NEW w PROVE Kept(w) = (CHOOSE g : FoldsKeep(g, w, DOMAIN w))[DOMAIN w]
BY DEF Kept, FoldLeft, MapThenFoldSet, FoldsKeep, Keep

LEMMA FoldExists ==
    ASSUME NEW w, NEW N \in Nat
    PROVE  \E g : FoldsKeep(g, w, 1 .. N)
<1> DEFINE C == {n \in 0 .. N : ~\E g : FoldsKeep(g, w, 1 .. n)}
<1>1. SUFFICES ASSUME C # {} PROVE FALSE
  OBVIOUS
<1>2. PICK n \in C : \A k \in C : n <= k
  <2>1. C \in SUBSET Nat
    OBVIOUS
  <2> HIDE DEF C
  <2> QED BY <1>1, <2>1, LeastNat
<1>3. CASE n = 0
  <2> DEFINE g == [s \in SUBSET (1 .. 0) |-> <<>>]
  <2>1. \A s \in SUBSET (1 .. 0) : s = {}
    OBVIOUS
  <2>2. FoldsKeep(g, w, 1 .. 0)
    BY <2>1 DEF FoldsKeep
  <2> QED BY <1>2, <1>3, <2>2
<1>4. CASE n # 0
  <2>1. n - 1 \in 0 .. N /\ n - 1 \notin C
    BY <1>2, <1>4
  <2>2. PICK g : FoldsKeep(g, w, 1 .. n - 1)
    BY <2>1
  <2> DEFINE Then(s) == Keep(g[s \ {Max(s)}], w[Max(s)])
             h == [s \in SUBSET (1 .. n) |->
                      IF s = {} THEN <<>> ELSE IF n \notin s THEN g[s] ELSE Then(s)]
  <2>3. \A s \in SUBSET (1 .. n) : n \in s => Max(s) = n
    <3> TAKE s \in SUBSET (1 .. n)
    <3> HAVE n \in s
    <3>1. s \in SUBSET Nat /\ \A k \in s : k <= n
      OBVIOUS
    <3> QED BY <3>1, MaxIs
  <2>4. \A s \in SUBSET (1 .. n) : n \notin s => s \in SUBSET (1 .. n - 1)
    OBVIOUS
  <2>5. \A s \in SUBSET (1 .. n - 1) : g[s] = IF s = {} THEN <<>> ELSE Then(s)
    BY <2>2 DEF FoldsKeep
  <2>6. \A s \in SUBSET (1 .. n) : h[s \ {Max(s)}] = g[s \ {Max(s)}]
    <3> TAKE s \in SUBSET (1 .. n)
    <3>1. PICK x : x = s \ {Max(s)}
      OBVIOUS
    <3>2. x \in SUBSET (1 .. n - 1)
      BY <2>3, <2>4, <3>1
    <3>3. x \in SUBSET (1 .. n) /\ n \notin x
      BY <3>2
    <3>4. h[x] = g[x]
      BY <2>5, <3>2, <3>3
    <3> QED BY <3>1, <3>4
  <2>7. \A s \in SUBSET (1 .. n) : h[s] = IF s = {} THEN <<>> ELSE Keep(h[s \ {Max(s)}], w[Max(s)])
    BY <2>4, <2>5, <2>6
  <2>8. h = [s \in SUBSET (1 .. n) |-> h[s]]
    OBVIOUS
  <2> HIDE DEF h
  <2>9. FoldsKeep(h, w, 1 .. n)
    BY <2>7, <2>8 DEF FoldsKeep
  <2> QED BY <1>2, <2>9
<1> QED BY <1>3, <1>4

\* So the fold is the end of a chain that keeps one element after the other.
LEMMA FoldPrefixes ==
    ASSUME NEW S, NEW w \in Seq(S)
    PROVE  \E p : /\ p[0] = <<>>
                  /\ \A n \in 1 .. Len(w) : p[n] = Keep(p[n - 1], w[n])
                  /\ p[Len(w)] = Kept(w)
<1>1. Len(w) \in Nat /\ DOMAIN w = 1 .. Len(w)
  OBVIOUS
<1>2. PICK g : g = CHOOSE f : FoldsKeep(f, w, 1 .. Len(w))
  OBVIOUS
<1>3. FoldsKeep(g, w, 1 .. Len(w))
  BY <1>1, <1>2, FoldExists
<1> DEFINE p == [n \in 0 .. Len(w) |-> g[1 .. n]]
<1>4. p[0] = <<>>
  <2>1. 1 .. 0 = {} /\ 1 .. 0 \in SUBSET (1 .. Len(w)) /\ 0 \in 0 .. Len(w)
    BY <1>1
  <2> QED BY <1>3, <2>1 DEF FoldsKeep
<1>5. ASSUME NEW n \in 1 .. Len(w)
      PROVE  p[n] = Keep(p[n - 1], w[n])
  <2>1. 1 .. n \in SUBSET (1 .. Len(w)) /\ 1 .. n # {} /\ n \in 0 .. Len(w) /\ n - 1 \in 0 .. Len(w)
    <3>1. n \in 1 .. n /\ \A k \in 1 .. n : k \in 1 .. Len(w)
      BY <1>1
    <3>2. 1 .. n \subseteq 1 .. Len(w) /\ 1 .. n # {}
      BY <3>1
    <3>3. n \in 0 .. Len(w) /\ n - 1 \in 0 .. Len(w)
      BY <1>1
    <3> QED BY <3>2, <3>3
  <2>2. Max(1 .. n) = n
    <3>1. 1 .. n \in SUBSET Nat /\ n \in 1 .. n /\ \A k \in 1 .. n : k <= n
      OBVIOUS
    <3> QED BY <3>1, MaxIs
  <2>3. (1 .. n) \ {n} = 1 .. n - 1
    BY <1>1
  <2>4. g[1 .. n] = Keep(g[(1 .. n) \ {Max(1 .. n)}], w[Max(1 .. n)])
    BY <1>3, <2>1 DEF FoldsKeep
  <2> QED BY <2>1, <2>2, <2>3, <2>4
<1>6. p[Len(w)] = Kept(w)
  BY <1>1, <1>2, KeptDef
<1> HIDE DEF p
<1> QED BY <1>4, <1>5, <1>6

\* The place of m in w: where it comes first.
PlaceIn(w, m) == CHOOSE i \in DOMAIN w : w[i] = m /\ \A j \in DOMAIN w : w[j] = m => i <= j

LEMMA PlaceFirst ==
    ASSUME NEW S, NEW w \in Seq(S), NEW i \in DOMAIN w
    PROVE  /\ PlaceIn(w, w[i]) \in DOMAIN w /\ w[PlaceIn(w, w[i])] = w[i]
           /\ \A j \in DOMAIN w : w[j] = w[i] => PlaceIn(w, w[i]) <= j
<1> DEFINE Places == {j \in DOMAIN w : w[j] = w[i]}
<1>1. Places \in SUBSET Nat /\ Places # {}
  OBVIOUS
<1>2. PICK m \in Places : \A k \in Places : m <= k
  <2> HIDE DEF Places
  <2> QED BY <1>1, LeastNat
<1>3. m \in DOMAIN w /\ w[m] = w[i] /\ \A j \in DOMAIN w : w[j] = w[i] => m <= j
  BY <1>2
<1> HIDE DEF Places
<1> QED BY <1>3 DEF PlaceIn

\* ms is what is kept of the first n elements of w: all of them but "", each
\* once, by where they come first.
KeptOf(w, ms, n) ==
    /\ ms \in Seq(ToSet(w) \ {""})
    /\ ToSet(ms) = {w[i] : i \in 1 .. n} \ {""}
    /\ IsInjective(ms)
    /\ \A b \in DOMAIN ms : \A a \in 1 .. b - 1 : PlaceIn(w, ms[a]) < PlaceIn(w, ms[b])

LEMMA KeepOne ==
    ASSUME NEW S, NEW w \in Seq(S), NEW n \in 1 .. Len(w), NEW ms, KeptOf(w, ms, n - 1)
    PROVE  KeptOf(w, Keep(ms, w[n]), n)
<1>1. DOMAIN w = 1 .. Len(w) /\ Len(w) \in Nat
  OBVIOUS
<1>2. /\ ms \in Seq(ToSet(w) \ {""}) /\ ToSet(ms) = {w[i] : i \in 1 .. n - 1} \ {""}
      /\ IsInjective(ms)
      /\ \A b \in DOMAIN ms : \A a \in 1 .. b - 1 : PlaceIn(w, ms[a]) < PlaceIn(w, ms[b])
  BY DEF KeptOf
<1>3. {w[i] : i \in 1 .. n} = {w[i] : i \in 1 .. n - 1} \cup {w[n]}
  <2>1. \A i : i \in 1 .. n <=> i \in 1 .. n - 1 \/ i = n
    BY <1>1
  <2> QED BY <2>1
<1>0. PICK T : T = ToSet(w) \ {""}
  OBVIOUS
<1>4. ms \in Seq(T) /\ DOMAIN ms = 1 .. Len(ms) /\ Len(ms) \in Nat
  <2>1. ms \in Seq(T)
    BY <1>0, <1>2
  <2> QED BY <2>1
<1>5. Contains(ms, w[n]) <=> w[n] \in ToSet(ms)
  BY <1>4 DEF Contains, ToSet
<1>6. CASE w[n] = "" \/ w[n] \in ToSet(ms)
  <2>1. Keep(ms, w[n]) = ms
    BY <1>5, <1>6 DEF Keep
  <2>2. {w[i] : i \in 1 .. n} \ {""} = {w[i] : i \in 1 .. n - 1} \ {""}
    BY <1>2, <1>3, <1>6
  <2> QED BY <1>2, <2>1, <2>2 DEF KeptOf
<1>7. CASE w[n] # "" /\ w[n] \notin ToSet(ms)
  <2>0. PICK L : L = Len(ms) /\ L \in Nat /\ DOMAIN ms = 1 .. L
    BY <1>4
  <2>1. PICK x : x = w[n] /\ x \in T /\ x \notin ToSet(ms) /\ x # ""
    BY <1>0, <1>1, <1>7 DEF ToSet
  <2>2. PICK new : new = Append(ms, x)
    OBVIOUS
  <2>3. Keep(ms, w[n]) = new
    BY <1>5, <1>7, <2>1, <2>2 DEF Keep
  <2>4. /\ new \in Seq(ToSet(w) \ {""}) /\ Len(new) = L + 1 /\ DOMAIN new = 1 .. L + 1
        /\ new[L + 1] = x /\ \A k \in 1 .. L : new[k] = ms[k]
    <3>1. ms \in Seq(T) /\ x \in T /\ Len(ms) = L /\ L \in Nat
      BY <1>4, <2>0, <2>1
    <3>2. new \in Seq(T) /\ Len(new) = L + 1
      BY <2>2, <3>1
    <3>3. DOMAIN new = 1 .. L + 1
      BY <3>1, <3>2
    <3>4. new[L + 1] = x /\ \A k \in 1 .. L : new[k] = ms[k]
      BY <2>2, <3>1
    <3> QED BY <1>0, <3>2, <3>3, <3>4
  <2>5. /\ DOMAIN new = 1 .. L + 1 /\ new[L + 1] = x
         /\ \A k \in 1 .. L : new[k] = ms[k]
    BY <2>4
  <2>6. L \in Nat /\ DOMAIN ms = 1 .. L
    BY <2>0
  <2>7. ToSet(new) = ToSet(ms) \cup {x}
    <3>1. \A k : k \in 1 .. L + 1 <=> k \in 1 .. L \/ k = L + 1
      BY <2>0
    <3>2. ToSet(new) = {new[k] : k \in 1 .. L + 1} /\ ToSet(ms) = {ms[k] : k \in 1 .. L}
      BY <1>4, <2>0, <2>4 DEF ToSet
    <3> QED BY <2>4, <3>1, <3>2
  <2>8. ToSet(new) = {w[i] : i \in 1 .. n} \ {""}
    BY <1>2, <1>3, <2>1, <2>7
  <2>9. \A k \in 1 .. L : ms[k] \in ToSet(ms) /\ ms[k] # x
    <3>1. ASSUME NEW k \in 1 .. L
          PROVE  ms[k] \in ToSet(ms)
      BY <2>6 DEF ToSet
    <3> QED BY <2>1, <3>1
  <2>10. IsInjective(new)
    <3>1. ASSUME NEW a \in 1 .. L + 1, NEW b \in 1 .. L + 1, new[a] = new[b]
          PROVE  a = b
      <4>1. CASE a \in 1 .. L /\ b \in 1 .. L
        BY <1>2, <2>5, <2>6, <3>1, <4>1 DEF IsInjective
      <4>2. CASE a = L + 1 \/ b = L + 1
        BY <2>5, <2>6, <2>9, <3>1, <4>2
      <4> QED BY <2>6, <4>1, <4>2
    <3> QED BY <2>5, <3>1 DEF IsInjective
  <2>11. ASSUME NEW k \in 1 .. L
        PROVE  PlaceIn(w, ms[k]) < PlaceIn(w, x)
    <3>1. PICK i \in 1 .. n - 1 : w[i] = ms[k]
      BY <1>2, <2>9
    <3>2. i \in DOMAIN w /\ n \in DOMAIN w
      BY <1>1
    <3>3. PlaceIn(w, ms[k]) <= i /\ PlaceIn(w, ms[k]) \in Nat
      BY <1>1, <3>1, <3>2, PlaceFirst
    <3>4. PlaceIn(w, x) \in DOMAIN w /\ w[PlaceIn(w, x)] = x
      BY <2>1, <3>2, PlaceFirst
    <3>5. \A j \in 1 .. n - 1 : w[j] # x
      BY <1>2, <2>1
    <3>6. PlaceIn(w, x) \notin 1 .. n - 1
      BY <3>4, <3>5
    <3>7. PICK a, c : a = PlaceIn(w, ms[k]) /\ c = PlaceIn(w, x)
      OBVIOUS
    <3>8. a \in Nat /\ a <= i /\ c \in 1 .. Len(w) /\ c \notin 1 .. n - 1
      BY <1>1, <3>3, <3>4, <3>6, <3>7
    <3>9. a < c
      BY <1>1, <3>8
    <3> QED BY <3>7, <3>9
  <2>12. \A b \in 1 .. L + 1 : \A a \in 1 .. b - 1 : PlaceIn(w, new[a]) < PlaceIn(w, new[b])
    <3>1. ASSUME NEW b \in 1 .. L + 1, NEW a \in 1 .. b - 1
          PROVE  PlaceIn(w, new[a]) < PlaceIn(w, new[b])
      <4>1. a \in 1 .. L /\ new[a] = ms[a]
        BY <2>5, <2>6
      <4>2. CASE b = L + 1
        BY <2>5, <2>11, <4>1, <4>2
      <4>3. CASE b \in 1 .. L
        BY <1>2, <2>5, <2>6, <4>1, <4>3
      <4> QED BY <2>6, <4>2, <4>3
    <3> QED BY <3>1
  <2> QED BY <2>3, <2>4, <2>8, <2>10, <2>12 DEF KeptOf
<1> QED BY <1>6, <1>7

\* ordered_models keeps all that the settings name but "", each once and where
\* it comes first.
LEMMA KeptWhole ==
    ASSUME NEW S, NEW w \in Seq(S)
    PROVE  KeptOf(w, Kept(w), Len(w))
<1>1. PICK p : /\ p[0] = <<>> /\ p[Len(w)] = Kept(w)
               /\ \A n \in 1 .. Len(w) : p[n] = Keep(p[n - 1], w[n])
  BY FoldPrefixes
<1>2. Len(w) \in Nat
  OBVIOUS
<1> DEFINE C == {n \in 0 .. Len(w) : ~KeptOf(w, p[n], n)}
<1>3. SUFFICES ASSUME C # {} PROVE FALSE
  BY <1>1, <1>2
<1>4. PICK n \in C : \A k \in C : n <= k
  <2>1. C \in SUBSET Nat
    BY <1>2
  <2> HIDE DEF C
  <2> QED BY <1>3, <2>1, LeastNat
<1>5. CASE n = 0
  <2>1. ToSet(<<>>) = {} /\ {w[i] : i \in 1 .. 0} = {}
    BY DEF ToSet
  <2>2. /\ <<>> \in Seq(ToSet(w) \ {""}) /\ IsInjective(<<>>)
        /\ \A b \in DOMAIN <<>> : FALSE
    BY DEF IsInjective
  <2>3. KeptOf(w, <<>>, 0)
    BY <2>1, <2>2 DEF KeptOf
  <2> QED BY <1>1, <1>4, <1>5, <2>3
<1>6. CASE n # 0
  <2>1. n \in 1 .. Len(w) /\ n - 1 \in 0 .. Len(w) /\ n - 1 \notin C
    BY <1>2, <1>4, <1>6
  <2>2. KeptOf(w, p[n - 1], n - 1)
    BY <2>1
  <2>3. KeptOf(w, Keep(p[n - 1], w[n]), n)
    BY <2>1, <2>2, KeepOne
  <2> QED BY <1>1, <1>4, <2>1, <2>3
<1> QED BY <1>5, <1>6

-----------------------------------------------------------------------------
(* The models of a run *)

Configured == setting \in Setting(Policies) /\ Loads(setting)

\* A run asks no more models than there are, goes on only from a try that is not
\* completed, and ends without a completed one only when it has asked them all.
Asking ==
    /\ Attempt <= Len(Models)
    /\ \A k \in 1 .. Attempt - 1 : tries[k].verdict # "completed"
    /\ (response # None /\ response.status \in {"review", "provider_unavailable"})
          => Attempt = Len(Models)

\* What a run wants is a list of names, and its models are what is kept of it.
LEMMA ModelsWanted ==
    ASSUME Configured
    PROVE  /\ Wanted \in Seq(Name \cup {""}) /\ Models \in Seq(Name)
           /\ KeptOf(Wanted, Models, Len(Wanted))
<1>1. /\ setting.fallback \in Name \cup {""} /\ setting.primary \in Name \cup {""}
      /\ setting.task \in Name \cup {"", None} /\ setting.policy \in Policies \cup {None}
  BY DEF Configured, Setting
<1>2. PICK N : N = Name \cup {""}
  OBVIOUS
<1>3. \A m \in N : <<m>> \in Seq(N)
  OBVIOUS
<1>4. Candidates(setting) \in Seq(N)
  <2>1. CASE setting.policy # None
    <3>1. Candidates(setting) = setting.policy
      BY <2>1 DEF Candidates
    <3> QED BY <1>1, <1>2, <2>1, <3>1, PoliciesAssumption
  <2>2. CASE setting.policy = None /\ setting.task # None
    <3>1. Candidates(setting) = <<setting.task>>
      BY <2>2 DEF Candidates
    <3>2. setting.task \in N
      BY <1>1, <1>2, <2>2
    <3> QED BY <1>3, <3>1, <3>2
  <2>3. CASE setting.policy = None /\ setting.task = None
    <3>1. Candidates(setting) = <<setting.primary>>
      BY <2>3 DEF Candidates
    <3>2. setting.primary \in N
      BY <1>1, <1>2
    <3> QED BY <1>3, <3>1, <3>2
  <2> QED BY <2>1, <2>2, <2>3
<1>5. Wanted \in Seq(N)
  <2>1. \A c \in Seq(N), m \in N : Append(c, m) \in Seq(N)
    OBVIOUS
  <2>2. setting.fallback \in N
    BY <1>1, <1>2
  <2> QED BY <1>4, <2>1, <2>2 DEF Wanted
<1>6. Models = Kept(Wanted)
  BY OrderedKept DEF Models, Wanted
<1>7. KeptOf(Wanted, Models, Len(Wanted))
  BY <1>5, <1>6, KeptWhole
<1>8. PICK w, ms, T : w = Wanted /\ ms = Models /\ T = ToSet(w) \ {""}
  OBVIOUS
<1>9. w \in Seq(N) /\ ms \in Seq(T)
  BY <1>5, <1>7, <1>8 DEF KeptOf
<1>10. T \subseteq Name
  <2>1. \A i \in DOMAIN w : w[i] \in N
    BY <1>9
  <2> QED BY <1>2, <1>8, <2>1 DEF ToSet
<1>11. ms \in Seq(Name)
  BY <1>9, <1>10
<1> QED BY <1>2, <1>5, <1>7, <1>8, <1>11

\* The types that Types leaves out.
Rest ==
    /\ client \in BOOLEAN
    /\ status \in Status /\ completed \in Name \cup {None}
    /\ usage \subseteq [attempts : Nat \ {0}, model : Name]
    /\ response \in Response \cup {None}
    /\ answer \in {"OK", "INTERNAL_ERROR", None}
    /\ raised \subseteq [at : Site, attempt : Nat]

LEMMA BuildTyped ==
    ASSUME NEW last \in Status, NEW model \in Name \cup {None}, Attempt \in Nat,
           reference \in BOOLEAN
    PROVE  Build(last, model) \in Response /\ Build(last, model).status = last
<1>1. (IF last = "completed" THEN Attempt ELSE None) \in Nat \cup {None}
  OBVIOUS
<1> QED BY <1>1 DEF Build, Response

LEMMA RaiseTyped ==
    ASSUME NEW site \in Site, NEW n \in Nat, Rest
    PROVE  raised \cup {[at |-> site, attempt |-> n]} \subseteq [at : Site, attempt : Nat]
BY DEF Rest

LEMMA FinishGenerationTyped ==
    ASSUME Rest, Attempt \in Nat, NEW v, FinishGeneration(v)
    PROVE  raised' \subseteq [at : Site, attempt : Nat]
<1>1. "finish" \in Site
  BY DEF Site
<1> QED BY <1>1, RaiseTyped DEF FinishGeneration, Raise, Rest

\* What a verdict on the last try leaves of the tries before it.
LEMMA JudgeKeeps ==
    ASSUME Types, NEW v, Judge(v)
    PROVE  Attempt' = Attempt /\ \A k \in 1 .. Attempt - 1 : tries'[k] = tries[k]
<1>1. PICK n : n = Len(tries)
  OBVIOUS
<1>2. tries \in Seq(Try) /\ tries' = [tries EXCEPT ![n].verdict = v]
  BY <1>1 DEF Types, Judge, Attempt
<1>3. Len(tries') = n /\ \A k \in 1 .. n - 1 : tries'[k] = tries[k]
  BY <1>1, <1>2
<1> QED BY <1>1, <1>3 DEF Attempt

LEMMA Finite ==
    ASSUME Traced, Configured
    PROVE  /\ Attempt \in Nat /\ Len(Models) \in Nat /\ \A n \in 1 .. Len(Models) : Models[n] \in Name
           /\ reference \in BOOLEAN /\ DOMAIN tries = 1 .. Attempt
<1>1. Models \in Seq(Name)
  BY ModelsWanted
<1>2. PICK ms : ms = Models
  OBVIOUS
<1>3. Len(ms) \in Nat /\ \A n \in 1 .. Len(ms) : ms[n] \in Name
  BY <1>1, <1>2
<1> QED BY <1>2, <1>3 DEF Traced, Types, Attempt

\* A step on which the tries stay as they are, and the response with them or not
\* for want of a model.
LEMMA AskingKept ==
    ASSUME Asking, UNCHANGED <<setting, tries>>,
           \/ response' = response
           \/ response'.status \notin {"review", "provider_unavailable"}
           \/ Attempt = Len(Models)
    PROVE  Asking'
<1>1. Models' = Models /\ Attempt' = Attempt
  BY DEF Models, Attempt
<1> QED BY <1>1 DEF Asking

LEMMA NextModelAsks ==
    ASSUME Traced, Configured, Asking, Rest, NextModel
    PROVE  Asking' /\ Rest'
<1>1. /\ pc = "next" /\ UNCHANGED <<setting, client, status, completed, usage, answer,
                                    reference>>
  BY DEF NextModel
<1>2. /\ Attempt \in Nat /\ Len(Models) \in Nat /\ reference \in BOOLEAN
      /\ \A n \in 1 .. Len(Models) : Models[n] \in Name
  BY Finite
<1>3. response = None /\ (Attempt > 0 => tries[Attempt].verdict # "completed")
  BY <1>1, <1>2 DEF Traced, RunOK, Attempt
<1>4. Models' = Models
  BY <1>1, SameModels
<1>5. CASE /\ Attempt < Len(Models) /\ response' = response
           /\ tries' = Append(tries, [model |-> Models[Attempt + 1], verdict |-> "open"])
           /\ StartGeneration(Attempt + 1, Models[Attempt + 1])
  <2>1. Attempt' = Attempt + 1 /\ \A k \in 1 .. Attempt : tries'[k] = tries[k]
    <3>1. PICK new : new = [model |-> Models[Attempt + 1], verdict |-> "open"]
      OBVIOUS
    <3>2. tries \in Seq(Try) /\ tries' = Append(tries, new)
      BY <1>5, <3>1 DEF Traced, Types
    <3>3. Len(tries') = Len(tries) + 1 /\ \A k \in 1 .. Len(tries) : tries'[k] = tries[k]
      BY <3>2
    <3> QED BY <3>3 DEF Attempt
  <2>2. \A k \in 1 .. Attempt : tries[k].verdict # "completed"
    BY <1>2, <1>3 DEF Asking
  <2>3. \A k \in 1 .. Attempt' - 1 : tries'[k].verdict # "completed"
    BY <1>2, <2>1, <2>2
  <2>4. Attempt' <= Len(Models')
    BY <1>2, <1>4, <1>5, <2>1
  <2>4a. response' = None
    BY <1>3, <1>5
  <2>4b. Asking'
    BY <2>3, <2>4, <2>4a DEF Asking
  <2>5. raised' \subseteq [at : Site, attempt : Nat]
    <3>1. "generation" \in Site /\ Attempt + 1 \in Nat
      BY <1>2 DEF Site
    <3> QED BY <1>5, <3>1, RaiseTyped DEF StartGeneration, Rest
  <2>6. Rest'
    BY <1>1, <1>5, <2>5 DEF Rest
  <2> QED BY <2>4b, <2>6
<1>6. CASE /\ Attempt >= Len(Models) /\ response' = Build(status, completed)
           /\ UNCHANGED <<tries, generations, held, raised>>
  <2>1. Attempt = Len(Models)
    BY <1>2, <1>6 DEF Asking
  <2>2. Asking'
    BY <1>1, <1>6, <2>1, AskingKept
  <2>3. response' \in Response
    BY <1>2, <1>6, BuildTyped DEF Rest
  <2>4. Rest'
    BY <1>1, <1>6, <2>3 DEF Rest
  <2> QED BY <2>2, <2>4
<1> QED BY <1>5, <1>6 DEF NextModel

LEMMA RecordUsageAsks ==
    ASSUME Traced, Configured, Asking, Rest, RecordUsage
    PROVE  Asking' /\ Rest'
<1>1. pc = "usage" /\ UNCHANGED <<setting, client>>
  BY DEF RecordUsage
<1>2. /\ Attempt \in Nat /\ Len(Models) \in Nat /\ reference \in BOOLEAN
      /\ Attempt > 0 /\ Models[Attempt] \in Name
  BY <1>1, Finite DEF Traced, RunOK, Asking
<1>3. response = None
  BY <1>1 DEF Traced, RunOK
<1>4. Models' = Models
  BY <1>1, SameModels
<1>5. ASSUME NEW v, Judge(v),
             response' = None \/ response'.status \notin {"review", "provider_unavailable"}
      PROVE  Asking'
  <2>1. Attempt' = Attempt /\ \A k \in 1 .. Attempt - 1 : tries'[k] = tries[k]
    BY <1>5, JudgeKeeps DEF Traced
  <2> QED BY <1>4, <1>5, <2>1 DEF Asking
<1>6. CASE Die
  <2>1. UNCHANGED <<tries, status, completed, usage, response, raised>>
        /\ answer' = "INTERNAL_ERROR"
    BY <1>6 DEF Die, telemetry
  <2> QED BY <1>1, <2>1, AskingKept DEF Rest
<1>7. ASSUME usage' = usage \cup {[attempts |-> Attempt, model |-> Models[Attempt]]},
             NEW v, FinishGeneration(v)
      PROVE  /\ usage' \subseteq [attempts : Nat \ {0}, model : Name]
             /\ raised' \subseteq [at : Site, attempt : Nat]
  <2>1. [attempts |-> Attempt, model |-> Models[Attempt]] \in [attempts : Nat \ {0}, model : Name]
    BY <1>2
  <2> QED BY <1>2, <1>7, <2>1, FinishGenerationTyped DEF Rest
<1>8. CASE /\ usage' = usage \cup {[attempts |-> Attempt, model |-> Models[Attempt]]}
           /\ Judge("completed") /\ status' = "completed" /\ completed' = Models[Attempt]
           /\ FinishGeneration("completed") /\ answer' = answer
           /\ response' = Build("completed", Models[Attempt])
  <2>1. response' \in Response /\ response'.status = "completed"
    BY <1>2, <1>8, BuildTyped DEF Status
  <2>2. Asking'
    BY <1>5, <1>8, <2>1
  <2>3. Rest'
    BY <1>1, <1>2, <1>7, <1>8, <2>1 DEF Rest, Status
  <2> QED BY <2>2, <2>3
<1>9. CASE /\ usage' = usage \cup {[attempts |-> Attempt, model |-> Models[Attempt]]}
           /\ Judge("review") /\ status' = "review" /\ FinishGeneration("review")
           /\ UNCHANGED <<answer, completed, response>>
  <2>1. Asking'
    BY <1>3, <1>5, <1>9
  <2>2. Rest'
    BY <1>1, <1>7, <1>9 DEF Rest, Status
  <2> QED BY <2>1, <2>2
<1> QED BY <1>6, <1>8, <1>9 DEF RecordUsage

LEMMA NextAsks ==
    Traced /\ Configured /\ Asking /\ Rest /\ [Next]_vars => Configured' /\ Asking' /\ Rest'
<1> SUFFICES ASSUME Traced, Configured, Asking, Rest, [Next]_vars
             PROVE  Configured' /\ Asking' /\ Rest'
  OBVIOUS
<1>0. /\ setting' = setting /\ client' = client /\ Attempt \in Nat /\ Len(Models) \in Nat
      /\ reference \in BOOLEAN /\ Models' = Models
  <2>1. setting' = setting /\ client' = client
    BY DEF Next, Step, Terminating, vars, StartTrace, CheckBudget, NextModel, ProviderReplies,
           ProviderFails, RecordUsage, FinishTrace, Put
  <2> QED BY <2>1, Finite, SameModels
<1>1. Configured'
  BY <1>0 DEF Configured
<1>2. CASE UNCHANGED vars
  <2>1. /\ UNCHANGED <<setting, client, tries, status, completed, usage, response, answer>>
        /\ UNCHANGED raised
    BY <1>2 DEF vars, run, telemetry
  <2>2. Asking'
    BY <2>1, AskingKept
  <2>3. Rest'
    BY <2>1 DEF Rest
  <2> QED BY <1>1, <2>2, <2>3
<1>3. CASE StartTrace
  <2>1. UNCHANGED <<tries, status, completed, usage, response, answer>>
    BY <1>3 DEF StartTrace
  <2>2. raised' \subseteq [at : Site, attempt : Nat]
    <3>1. "start" \in Site
      BY DEF Site
    <3>2. raised' = raised \/ Raise("start")
      BY <1>3 DEF StartTrace, telemetry
    <3> QED BY <1>0, <3>1, <3>2, RaiseTyped DEF Raise, Rest
  <2> QED BY <1>0, <1>1, <2>1, <2>2, AskingKept DEF Rest
<1>4. CASE CheckBudget
  <2>1. \/ Die
        \/ /\ response' = Build("budget_exhausted", None) \/ response' = response
           /\ UNCHANGED <<tries, status, completed, usage, answer, telemetry>>
    BY <1>4 DEF CheckBudget
  <2>2. /\ UNCHANGED <<tries, status, completed, usage, raised>>
        /\ answer' \in {answer, "INTERNAL_ERROR"}
        /\ response' = Build("budget_exhausted", None) \/ response' = response
    BY <2>1 DEF Die, telemetry
  <2>3. /\ Build("budget_exhausted", None) \in Response
        /\ Build("budget_exhausted", None).status = "budget_exhausted"
    BY <1>0, BuildTyped DEF Status
  <2>4. response' \in Response \cup {None}
    BY <2>2, <2>3 DEF Rest
  <2>5. Asking'
    BY <1>0, <2>2, <2>3, AskingKept
  <2> QED BY <1>0, <1>1, <2>2, <2>4, <2>5 DEF Rest
<1>5. CASE NextModel
  BY <1>1, <1>5, NextModelAsks
<1>6. CASE ProviderReplies
  BY <1>0, <1>1, <1>6, AskingKept DEF ProviderReplies, telemetry, Rest
<1>7. CASE ProviderFails
  <2>1. /\ Judge("error") /\ FinishGeneration("error") /\ status' = "provider_unavailable"
        /\ UNCHANGED <<completed, usage, response, answer>> /\ pc = "call"
    BY <1>7 DEF ProviderFails
  <2>2. Attempt' = Attempt /\ \A k \in 1 .. Attempt - 1 : tries'[k] = tries[k]
    BY <2>1, JudgeKeeps DEF Traced
  <2>3. Asking'
    BY <1>0, <2>1, <2>2 DEF Asking
  <2>4. raised' \subseteq [at : Site, attempt : Nat]
    BY <1>0, <2>1, FinishGenerationTyped
  <2>5. Rest'
    BY <1>0, <2>1, <2>4 DEF Rest, Status
  <2> QED BY <1>1, <2>3, <2>5
<1>8. CASE RecordUsage
  BY <1>1, <1>8, RecordUsageAsks
<1>9. CASE FinishTrace
  <2>1. UNCHANGED <<tries, status, completed, usage, response, answer>>
    BY <1>9 DEF FinishTrace
  <2>2. raised' \subseteq [at : Site, attempt : Nat]
    <3>1. "end" \in Site
      BY DEF Site
    <3>2. raised' = raised \/ Raise("end")
      BY <1>9 DEF FinishTrace
    <3> QED BY <1>0, <3>1, <3>2, RaiseTyped DEF Raise, Rest
  <2> QED BY <1>0, <1>1, <2>1, <2>2, AskingKept DEF Rest
<1>10. CASE Put
  <2>1. UNCHANGED <<tries, status, completed, usage, response, raised>>
        /\ answer' \in {"OK", "INTERNAL_ERROR"}
    BY <1>10 DEF Put, Die, telemetry
  <2> QED BY <1>0, <1>1, <2>1, AskingKept DEF Rest
<1> QED
  BY <1>2, <1>1, <1>3, <1>4, <1>5, <1>6, <1>7, <1>8, <1>9, <1>10 DEF Next, Step, Terminating

LEMMA InitAsks == Init => Configured /\ Asking /\ Rest
<1> SUFFICES ASSUME Init PROVE Configured /\ Asking /\ Rest
  OBVIOUS
<1>1. /\ setting \in Setting(Policies) /\ Loads(setting) /\ client \in BOOLEAN
      /\ tries = <<>> /\ status = "provider_unavailable" /\ completed = None
      /\ usage = {} /\ response = None /\ answer = None /\ raised = {}
  BY DEF Init
<1>2. Configured /\ Rest
  BY <1>1 DEF Configured, Rest, Status
<1>3. Models \in Seq(Name)
  BY <1>2, ModelsWanted
<1>4. Attempt = 0
  BY <1>1 DEF Attempt
<1>5. Len(Models) \in Nat
  BY <1>3
<1>6. Asking
  BY <1>1, <1>4, <1>5 DEF Asking
<1> QED BY <1>2, <1>6

LEMMA AsksHolds == Spec => [](Traced /\ Configured /\ Asking /\ Rest)
BY TracedHolds, InitAsks, NextAsks, PTL DEF Spec

\* The models tried are the first ones of the run's.
LEMMA TriedAre ==
    ASSUME Traced, Configured, Asking
    PROVE  /\ DOMAIN Tried = 1 .. Attempt /\ \A n \in 1 .. Attempt : Tried[n] = Models[n]
           /\ Attempt \in Nat /\ Len(Models) \in Nat /\ Attempt <= Len(Models)
           /\ DOMAIN Models = 1 .. Len(Models)
<1>1. Attempt \in Nat /\ DOMAIN tries = 1 .. Attempt
  BY Finite
<1>2. \A n \in 1 .. Attempt : tries[n].model = Models[n]
  BY DEF Traced, RunOK
<1>3. DOMAIN Tried = 1 .. Attempt /\ \A n \in 1 .. Attempt : Tried[n] = Models[n]
  BY <1>1, <1>2 DEF Tried
<1>4. Models \in Seq(Name)
  BY ModelsWanted
<1>5. Len(Models) \in Nat /\ DOMAIN Models = 1 .. Len(Models)
  BY <1>4
<1>6. Attempt <= Len(Models)
  BY DEF Asking
<1> QED BY <1>1, <1>3, <1>5, <1>6

LEMMA AsksImply == Traced /\ Configured /\ Asking => TriedAsConfigured
<1> SUFFICES ASSUME Traced, Configured, Asking PROVE TriedAsConfigured
  OBVIOUS
<1>1. /\ DOMAIN Tried = 1 .. Attempt /\ \A n \in 1 .. Attempt : Tried[n] = Models[n]
      /\ Attempt \in Nat /\ Len(Models) \in Nat /\ Attempt <= Len(Models)
      /\ DOMAIN Models = 1 .. Len(Models)
  BY TriedAre
<1>2. PICK w : w = Wanted
  OBVIOUS
<1>3. PICK ms : ms = Models
  BY SMTT(30)
<1>4. PICK ts : ts = Tried
  OBVIOUS
<1>5. PICK L \in Nat : L = Len(Models)
  BY <1>1
<1>6. PICK a \in Nat : a = Attempt
  BY <1>1
<1>7. /\ DOMAIN ts = 1 .. a /\ \A n \in 1 .. a : ts[n] = ms[n]
      /\ DOMAIN ms = 1 .. L /\ a <= L
  BY <1>1, <1>3, <1>4, <1>5, <1>6
<1>8. \A n \in 1 .. a : n \in 1 .. L
  BY <1>7
<1>9. w \in Seq(Name \cup {""}) /\ KeptOf(w, ms, Len(w))
  BY <1>2, <1>3, ModelsWanted
<1>10. /\ ToSet(ms) = ToSet(w) \ {""} /\ IsInjective(ms)
       /\ \A b \in DOMAIN ms : \A k \in 1 .. b - 1 : PlaceIn(w, ms[k]) < PlaceIn(w, ms[b])
  <2>0. PICK N : N = Name \cup {""}
    OBVIOUS
  <2>0a. w \in Seq(N)
    BY <1>9, <2>0
  <2>1. DOMAIN w = 1 .. Len(w)
    BY <2>0a
  <2>2. PICK D : D = DOMAIN w
    OBVIOUS
  <2>3. ToSet(w) = {w[i] : i \in D}
    BY <2>2 DEF ToSet
  <2>4. ToSet(ms) = {w[i] : i \in D} \ {""}
    BY <1>9, <2>1, <2>2 DEF KeptOf
  <2>5. ToSet(ms) = ToSet(w) \ {""}
    BY <2>3, <2>4
  <2> QED BY <1>9, <2>5 DEF KeptOf
<1>11. \A m : Place(m) = PlaceIn(w, m)
  BY <1>2 DEF Place, PlaceIn
<1>12. IsInjective(ts)
  <2>1. \A i, j \in 1 .. L : ms[i] = ms[j] => i = j
    BY <1>7, <1>10 DEF IsInjective
  <2> QED BY <1>7, <1>8, <2>1 DEF IsInjective
<1>13. ASSUME NEW n \in 1 .. a
       PROVE  /\ ts[n] \in ToSet(w) \ {""}
              /\ \A k \in 1 .. n - 1 : Place(ts[k]) < Place(ts[n]) /\ tries[k].verdict # "completed"
  <2>1. ts[n] = ms[n] /\ n \in DOMAIN ms /\ ms[n] \in ToSet(ms)
    BY <1>7, <1>8 DEF ToSet
  <2>2. ASSUME NEW k \in 1 .. n - 1
        PROVE  Place(ts[k]) < Place(ts[n]) /\ tries[k].verdict # "completed"
    <3>1. k \in 1 .. a /\ k \in 1 .. a - 1
      OBVIOUS
    <3>2. ts[k] = ms[k]
      BY <1>7, <3>1
    <3>3. tries[k].verdict # "completed"
      BY <1>6, <3>1 DEF Asking
    <3>4. PlaceIn(w, ms[k]) < PlaceIn(w, ms[n])
      BY <1>10, <2>1
    <3> QED BY <1>11, <2>1, <3>2, <3>3, <3>4
  <2> QED BY <1>10, <2>1, <2>2
<1>14. ASSUME response # None, response.status \in {"review", "provider_unavailable"}
       PROVE  ToSet(ts) = ToSet(w) \ {""}
  <2>1. a = L
    BY <1>5, <1>6, <1>14 DEF Asking
  <2>2. ToSet(ts) = ToSet(ms)
    BY <1>7, <2>1 DEF ToSet
  <2> QED BY <1>10, <2>2
<1>15. ASSUME setting.primary \in ToSet(ts)
       PROVE  \/ setting.policy = None /\ setting.task = None
              \/ setting.primary \in {setting.task, setting.fallback}
              \/ setting.policy # None /\ Contains(setting.policy, setting.primary)
  <2>1. PICK n \in 1 .. a : setting.primary = ts[n]
    BY <1>7, <1>15 DEF ToSet
  <2>2. PICK i \in DOMAIN w : w[i] = setting.primary
    BY <1>13, <2>1 DEF ToSet
  <2>3. CASE setting.policy = None /\ setting.task = None
    BY <2>3
  <2>4. CASE setting.policy = None /\ setting.task # None
    <3>1. PICK t : t = setting.task
      OBVIOUS
    <3>2. PICK f : f = setting.fallback
      OBVIOUS
    <3>3. w = Append(<<t>>, f)
      BY <1>2, <2>4, <3>1, <3>2 DEF Wanted, Candidates
    <3>4. w[i] \in {t, f}
      BY <2>2, <3>3
    <3> QED BY <2>2, <3>1, <3>2, <3>4
  <2>5. CASE setting.policy # None
    <3>1. w = Append(setting.policy, setting.fallback)
      BY <1>2, <2>5 DEF Wanted, Candidates
    <3>2. PICK N : N = Name \cup {""}
      OBVIOUS
    <3>3. PICK c \in Seq(N) : c = setting.policy
      BY <2>5, <3>2, PoliciesAssumption DEF Configured, Setting
    <3>4. PICK f : f = setting.fallback
      OBVIOUS
    <3>5. w = Append(c, f)
      BY <3>1, <3>3, <3>4
    <3>6. (i \in 1 .. Len(c) /\ w[i] = c[i]) \/ w[i] = f
      BY <3>5
    <3> QED BY <2>2, <2>5, <3>3, <3>4, <3>6 DEF Contains
  <2> QED BY <2>3, <2>4, <2>5
<1>16. /\ IsInjective(Tried)
       /\ \A n \in DOMAIN Tried :
             /\ Tried[n] \in ToSet(Wanted) \ {""}
             /\ \A k \in 1 .. n - 1 : Place(Tried[k]) < Place(Tried[n]) /\ tries[k].verdict # "completed"
  BY <1>2, <1>4, <1>7, <1>12, <1>13
<1>17. (response # None /\ response.status \in {"review", "provider_unavailable"})
       => ToSet(Tried) = ToSet(Wanted) \ {""}
  BY <1>2, <1>4, <1>14
<1>18. setting.primary \in ToSet(Tried) =>
          \/ setting.policy = None /\ setting.task = None
          \/ setting.primary \in {setting.task, setting.fallback}
          \/ setting.policy # None /\ Contains(setting.policy, setting.primary)
  BY <1>4, <1>15
<1> QED BY <1>16, <1>17, <1>18 DEF TriedAsConfigured

\* A run asks what its task's settings name and nothing else, none twice and in
\* their order, and gives up only when it has asked them all, whatever the
\* settings and however many names they hold.  (ordered_models and the loop of
\* execute)
THEOREM TriedAsConfiguredHolds == Spec => []TriedAsConfigured
BY AsksHolds, AsksImply, PTL

LEMMA SeqOver ==
    ASSUME NEW T, NEW U, NEW s \in Seq(T), \A n \in 1 .. Len(s) : s[n] \in U
    PROVE  s \in Seq(U)
<1>1. s = [n \in 1 .. Len(s) |-> s[n]] /\ Len(s) \in Nat
  OBVIOUS
<1>2. s \in [1 .. Len(s) -> U]
  BY <1>1
<1> QED BY <1>1, <1>2

LEMMA AsksTyped == Traced /\ Configured /\ Asking /\ Rest => TypeOK
<1> SUFFICES ASSUME Traced, Configured, Asking, Rest PROVE TypeOK
  OBVIOUS
<1>1. /\ Attempt \in Nat /\ Len(Models) \in Nat /\ reference \in BOOLEAN
      /\ \A n \in 1 .. Len(Models) : Models[n] \in Name
      /\ Attempt <= Len(Models)
  BY Finite DEF Asking
<1>2. \A n \in 1 .. Attempt : tries[n].model \in Name
  <2>1. \A n \in 1 .. Attempt : n \in 1 .. Len(Models)
    BY <1>1
  <2>2. \A n \in 1 .. Attempt : tries[n].model = Models[n]
    BY DEF Traced, RunOK
  <2> QED BY <1>1, <2>1, <2>2
<1>3. PICK V : V = Verdict \cup {"open"}
  OBVIOUS
<1>4. PICK A : A = Asked
  OBVIOUS
<1>5. tries \in Seq([model : Name, verdict : V])
  <2>1. PICK T : T = [model : A, verdict : V]
    OBVIOUS
  <2>2. PICK ts \in Seq(T) : ts = tries
    BY <1>3, <1>4, <2>1 DEF Traced, Types, Try
  <2>3. \A n \in 1 .. Len(ts) : ts[n] \in T
    OBVIOUS
  <2>4. \A n \in 1 .. Len(ts) : ts[n].model \in Name
    BY <1>2, <2>2 DEF Attempt
  <2>5. \A n \in 1 .. Len(ts) : ts[n] \in [model : Name, verdict : V]
    BY <2>1, <2>3, <2>4
  <2>6. PICK U : U = [model : Name, verdict : V]
    OBVIOUS
  <2>7. ts \in Seq(U)
    BY <2>5, <2>6, SeqOver
  <2> QED BY <2>2, <2>6, <2>7
<1>6. generations \in Seq([attempt : Nat \ {0}, model : Name, status : V])
  <2>1. PICK T : T = [attempt : Nat, model : A, status : V]
    OBVIOUS
  <2>2. PICK gs \in Seq(T) : gs = generations
    BY <1>3, <1>4, <2>1 DEF Traced, Types, Generation
  <2>3. \A n \in 1 .. Len(gs) : gs[n] \in T
    OBVIOUS
  <2>4. ASSUME NEW n \in 1 .. Len(gs)
        PROVE  gs[n].attempt \in Nat \ {0} /\ gs[n].model \in Name
    <3>1. ToldOf(gs[n], tries, usage, raised)
      BY <2>2 DEF Traced, GenerationsOK, Told
    <3>2. gs[n].attempt \in 1 .. Attempt /\ gs[n].model = tries[gs[n].attempt].model
      BY <3>1 DEF ToldOf, Attempt
    <3> QED BY <1>1, <1>2, <3>2
  <2>5. \A n \in 1 .. Len(gs) : gs[n] \in [attempt : Nat \ {0}, model : Name, status : V]
    BY <2>1, <2>3, <2>4
  <2>6. PICK U : U = [attempt : Nat \ {0}, model : Name, status : V]
    OBVIOUS
  <2>7. gs \in Seq(U)
    BY <2>5, <2>6, SeqOver
  <2> QED BY <2>2, <2>6, <2>7
<1>7. Loads(setting) /\ Types
  BY DEF Configured, Traced
<1>8. /\ pc \in {"trace", "budget", "next", "call", "usage", "finish", "store", "done"}
      /\ span \in {"none", "open"} \cup Status
      /\ handle \in BOOLEAN /\ held \in BOOLEAN
  BY <1>7 DEF Types
<1> QED BY <1>1, <1>3, <1>5, <1>6, <1>7, <1>8 DEF TypeOK, Rest

\* Every variable of a run keeps its type: an attempt is counted from one, and
\* what the tries, the generations, the usage and the response name are models of
\* the settings.
THEOREM AttemptsTypeOK == Spec => []TypeOK
BY AsksHolds, AsksTyped, PTL
=============================================================================
