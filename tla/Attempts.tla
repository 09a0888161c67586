------------------------------ MODULE Attempts ------------------------------
(***************************************************************************)
(* One run of execute, from the rate limit to its answer, with what Execute *)
(* leaves out: which models the settings give it, and the Langfuse calls    *)
(* woven into it.  Any call of the Langfuse client may raise, where its     *)
(* caller catches it; any store method may raise, and nothing catches it.   *)
(*                                                                          *)
(* span and generations are what Langfuse was told; handle and held are the *)
(* handles the run goes on with, which it has not got where the client      *)
(* raised.                                                                  *)
(***************************************************************************)
EXTENDS Routing

CONSTANT Policies   \* policies a deployment may write

ASSUME PoliciesAssumption == Policies \subseteq Seq(Name \cup {""})

VARIABLES
    setting,        \* the settings of the run's task
    client,         \* LangfuseTracer has one
    pc,
    span,           \* "none", "open" or, once ended, the status it was ended with
    handle,         \* TraceHandle.span is there
    reference,      \* TraceHandle.reference is there
    generations,    \* [attempt, model, status] of each, status "open" until it is ended
    held,           \* GenerationHandle.generation is there
    tries,          \* [model, verdict] of each model tried, the last "open" while it runs
    status, completed,      \* the status of the last try and completed_model
    usage,          \* attempts whose usage is recorded, with their models
    response, answer,
    raised          \* history: where the client raised

run == <<pc, tries, status, completed, usage, response, answer>>
telemetry == <<span, handle, reference, generations, held, raised>>
vars == <<setting, client, run, telemetry>>

Status == {"completed", "review", "provider_unavailable", "budget_exhausted"}
Verdict == {"completed", "review", "error"}
Site == {"start", "generation", "finish", "end"}

Response ==
    [status : Status, output : Nat \cup {None}, model : Name \cup {None}, traced : BOOLEAN]

TypeOK ==
    /\ Loads(setting) /\ client \in BOOLEAN
    /\ pc \in {"trace", "budget", "next", "call", "usage", "finish", "store", "done"}
    /\ span \in {"none", "open"} \cup Status
    /\ handle \in BOOLEAN /\ reference \in BOOLEAN /\ held \in BOOLEAN
    /\ generations \in Seq([attempt : Nat \ {0}, model : Name, status : Verdict \cup {"open"}])
    /\ tries \in Seq([model : Name, verdict : Verdict \cup {"open"}])
    /\ status \in Status /\ completed \in Name \cup {None}
    /\ usage \subseteq [attempts : Nat \ {0}, model : Name]
    /\ response \in Response \cup {None}
    /\ answer \in {"OK", "INTERNAL_ERROR", None}
    /\ raised \subseteq [at : Site, attempt : Nat]

\* LangfuseTracer's client: telemetry is on, both keys are set, and it can be
\* made.
Init ==
    /\ setting \in Setting(Policies) /\ Loads(setting)
    /\ \E enabled, keyed, fails \in BOOLEAN : client = (enabled /\ keyed /\ ~fails)
    /\ pc = "trace"
    /\ span = "none" /\ handle = FALSE /\ reference = FALSE
    /\ generations = <<>> /\ held = FALSE /\ raised = {}
    /\ tries = <<>> /\ status = "provider_unavailable" /\ completed = None
    /\ usage = {}
    /\ response = None /\ answer = None

Models == OrderedModels(setting)
Attempt == Len(tries)

-----------------------------------------------------------------------------
(* The tracer *)

Raise(site) == raised' = raised \cup {[at |-> site, attempt |-> Attempt]}

\* LangfuseTracer.start: create_trace_id, start_span and get_trace_url, any of
\* which may raise.  If the last one does, the span is there and its handle is
\* not.
StartTrace ==
    /\ pc = "trace"
    /\ pc' = "budget"
    /\ \/ /\ ~client
          /\ UNCHANGED telemetry
       \/ /\ client
          /\ span' = "open" /\ handle' = TRUE /\ reference' = TRUE
          /\ UNCHANGED <<generations, held, raised>>
       \/ /\ client
          /\ span' \in {"none", "open"}
          /\ Raise("start")
          /\ UNCHANGED <<handle, reference, generations, held>>
    /\ UNCHANGED <<setting, client, tries, status, completed, usage, response, answer>>

\* Fault: the attempts are counted from zero.
StartGenerationFromZero(n, model) ==
    /\ held' = handle
    /\ generations' = IF ~handle THEN generations
          ELSE Append(generations, [attempt |-> n - 1, model |-> model, status |-> "open"])
    /\ UNCHANGED raised

\* TraceHandle.start_generation, for attempt n.
StartGeneration(n, model) ==
    \/ /\ ~handle
       /\ held' = FALSE
       /\ UNCHANGED <<generations, raised>>
    \/ /\ handle
       /\ held' = TRUE
       /\ generations' = Append(generations, [attempt |-> n, model |-> model, status |-> "open"])
       /\ UNCHANGED raised
    \/ /\ handle
       /\ held' = FALSE
       /\ raised' = raised \cup {[at |-> "generation", attempt |-> n]}
       /\ UNCHANGED generations

\* GenerationHandle.finish: update, then end; if either raises the generation
\* is not ended.
FinishGeneration(verdict) ==
    \/ /\ ~held
       /\ UNCHANGED <<generations, raised>>
    \/ /\ held
       /\ generations' = [generations EXCEPT ![Len(generations)].status = verdict]
       /\ UNCHANGED raised
    \/ /\ held
       /\ Raise("finish")
       /\ UNCHANGED generations

-----------------------------------------------------------------------------
(* The run *)

\* The response, whose output is told by the attempt it came from.
Build(last, model) ==
    [status |-> last, output |-> IF last = "completed" THEN Attempt ELSE None,
     model |-> model, traced |-> reference]

\* An exception that leaves execute: no answer but a 500, and neither trace
\* nor generation is finished.
Die ==
    /\ pc' = "done"
    /\ answer' = "INTERNAL_ERROR"
    /\ UNCHANGED <<tries, status, completed, usage, response, telemetry>>

CheckBudget ==
    /\ pc = "budget"
    /\ \/ Die
       \/ /\ response' = Build("budget_exhausted", None)
          /\ pc' = "finish"
          /\ UNCHANGED <<tries, status, completed, usage, answer, telemetry>>
       \/ /\ pc' = "next"
          /\ UNCHANGED <<tries, status, completed, usage, response, answer, telemetry>>
    /\ UNCHANGED <<setting, client>>

\* The head of the loop over ordered_models, and what follows its end.
NextModel ==
    /\ pc = "next"
    /\ \/ /\ Attempt < Len(Models)
          /\ LET n == Attempt + 1 IN
             /\ tries' = Append(tries, [model |-> Models[n], verdict |-> "open"])
             /\ StartGeneration(n, Models[n])
          /\ pc' = "call"
          /\ UNCHANGED response
       \/ /\ Attempt >= Len(Models)
          /\ response' = Build(status, completed)
          /\ pc' = "finish"
          /\ UNCHANGED <<tries, generations, held, raised>>
    /\ UNCHANGED <<setting, client, status, completed, usage, answer, span, handle, reference>>

Judge(verdict) == tries' = [tries EXCEPT ![Attempt].verdict = verdict]

ProviderReplies ==
    /\ pc = "call"
    /\ pc' = "usage"
    /\ UNCHANGED <<setting, client, tries, status, completed, usage, response, answer, telemetry>>

\* Fault: the status of an earlier try outlives a failed one.
FailQuietly ==
    /\ pc = "call"
    /\ pc' = "next"
    /\ Judge("error")
    /\ FinishGeneration("error")
    /\ UNCHANGED <<setting, client, status, completed, usage, response, answer>>
    /\ UNCHANGED <<span, handle, reference, held>>

\* Fault: a failed attempt is left to the trace to close.
FailUnfinished ==
    /\ pc = "call"
    /\ pc' = "next"
    /\ Judge("error")
    /\ status' = "provider_unavailable"
    /\ UNCHANGED <<setting, client, completed, usage, response, answer, telemetry>>

\* provider.complete raises ProviderError.
ProviderFails ==
    /\ pc = "call"
    /\ pc' = "next"
    /\ Judge("error")
    /\ status' = "provider_unavailable"
    /\ FinishGeneration("error")
    /\ UNCHANGED <<setting, client, completed, usage, response, answer>>
    /\ UNCHANGED <<span, handle, reference, held>>

\* record_usage, then the verdict on the reply: break, or the next model.
RecordUsage ==
    /\ pc = "usage"
    /\ \/ Die
       \/ /\ usage' = usage \cup {[attempts |-> Attempt, model |-> Models[Attempt]]}
          /\ \/ /\ Judge("completed")
                /\ status' = "completed" /\ completed' = Models[Attempt]
                /\ FinishGeneration("completed")
                /\ response' = Build("completed", Models[Attempt])
                /\ pc' = "finish"
             \/ /\ Judge("review")
                /\ status' = "review"
                /\ FinishGeneration("review")
                /\ pc' = "next"
                /\ UNCHANGED <<completed, response>>
          /\ UNCHANGED <<answer, span, handle, reference, held>>
    /\ UNCHANGED <<setting, client>>

\* Fault: what the client raises is not caught here.
FinishTraceUncaught ==
    /\ pc = "finish"
    /\ \/ /\ pc' = "store"
          /\ span' = IF handle THEN response.status ELSE span
          /\ UNCHANGED <<answer, raised>>
       \/ /\ handle
          /\ Raise("end")
          /\ pc' = "done"
          /\ answer' = "INTERNAL_ERROR"
          /\ UNCHANGED span
    /\ UNCHANGED <<setting, client, tries, status, completed, usage, response>>
    /\ UNCHANGED <<handle, reference, generations, held>>

\* TraceHandle.finish and flush; what flush raises is caught as well.
FinishTrace ==
    /\ pc = "finish"
    /\ pc' = "store"
    /\ \/ /\ span' = IF handle THEN response.status ELSE span
          /\ UNCHANGED raised
       \/ /\ handle
          /\ Raise("end")
          /\ UNCHANGED span
    /\ UNCHANGED <<setting, client, tries, status, completed, usage, response, answer>>
    /\ UNCHANGED <<handle, reference, generations, held>>

\* store.put and the answer.
Put ==
    /\ pc = "store"
    /\ \/ Die
       \/ /\ pc' = "done"
          /\ answer' = "OK"
          /\ UNCHANGED <<tries, status, completed, usage, response, telemetry>>
    /\ UNCHANGED <<setting, client>>

Terminating == pc = "done" /\ UNCHANGED vars

Step ==
    \/ StartTrace \/ CheckBudget \/ NextModel \/ ProviderReplies \/ ProviderFails
    \/ RecordUsage \/ FinishTrace \/ Put

Next == Step \/ Terminating

Spec == Init /\ [][Next]_vars /\ WF_vars(Step)

-----------------------------------------------------------------------------
(* Properties *)

Tried == [n \in DOMAIN tries |-> tries[n].model]
Wanted == Append(Candidates(setting), setting.fallback)
Place(m) == CHOOSE i \in DOMAIN Wanted :
                Wanted[i] = m /\ \A j \in DOMAIN Wanted : Wanted[j] = m => i <= j

\* A run tries what its task's settings name and nothing else, none twice, in
\* their order, the fallback last unless the policy names it; it stops early only
\* with a completed reply, and a run without one has asked them all.  The primary
\* model is asked only for a task that has no entry of its own, and an entry that
\* is empty is one.  (ordered_models and the loop; .env.example:10-16)
TriedAsConfigured ==
    /\ IsInjective(Tried)
    /\ \A n \in DOMAIN Tried :
          /\ Tried[n] \in ToSet(Wanted) \ {""}
          /\ \A k \in 1 .. n - 1 : Place(Tried[k]) < Place(Tried[n]) /\ tries[k].verdict # "completed"
    /\ (response # None /\ response.status \in {"review", "provider_unavailable"})
       => ToSet(Tried) = ToSet(Wanted) \ {""}
    /\ setting.primary \in ToSet(Tried) =>
          \/ setting.policy = None /\ setting.task = None
          \/ setting.primary \in {setting.task, setting.fallback}
          \/ setting.policy # None /\ Contains(setting.policy, setting.primary)

\* The response is what budget and models made of it, whatever became of the
\* telemetry: the last try's verdict, an output and a model only of a completed
\* try, provider_unavailable where there was no model to try; and it refers to a
\* trace only if there is one.  (execute, main.py:236-318)
ResponseExplained ==
    response # None =>
        LET last == IF tries = <<>> THEN "error" ELSE tries[Attempt].verdict IN
        /\ \/ response.status = "budget_exhausted" /\ tries = <<>>
           \/ response.status = IF last = "error" THEN "provider_unavailable" ELSE last
        /\ IF last = "completed"
             THEN response.output = Attempt /\ response.model = tries[Attempt].model
             ELSE response.output = None /\ response.model = None
        /\ response.traced => span # "none" /\ \A x \in raised : x.at # "start"

\* What Langfuse was told agrees with the run.  A generation is of the attempt
\* and model its try was of, ends with that try's verdict, and is open only
\* while its try runs, where the client raised or where the run died; only what
\* was metered is not an error.  The trace ends once the response is built, with its
\* status.  A missing generation, like an open span, is the client's doing.
RaisedAt(site, n) == [at |-> site, attempt |-> n] \in raised

TraceAgrees ==
    /\ \A i \in DOMAIN generations :
          LET g == generations[i]
              try == tries[g.attempt] IN
          /\ g.attempt \in DOMAIN tries
          /\ g.model = try.model
          /\ g.status \in {try.verdict, "open"}
          /\ (g.status = "open" /\ try.verdict # "open") => RaisedAt("finish", g.attempt)
          /\ g.status \in {"completed", "review"} =>
                [attempts |-> g.attempt, model |-> g.model] \in usage
    /\ handle => \A n \in DOMAIN tries :
          \/ RaisedAt("generation", n)
          \/ \E i \in DOMAIN generations : generations[i].attempt = n
    /\ span \in Status => pc \in {"store", "done"} /\ response.status = span
    /\ (span = "open" /\ pc = "done") =>
          \/ RaisedAt("start", 0)
          \/ RaisedAt("end", Attempt)
          \/ answer = "INTERNAL_ERROR"

\* Every run is answered, however many models fail and wherever the client
\* raises; only the store can take the answer away, which it does without a
\* trace having ended or with the trace telling the response that was to be.
AnsweredUnlessStoreRaises ==
    /\ <>(answer # None)
    /\ [][answer' = "INTERNAL_ERROR" => /\ pc \in {"budget", "usage", "store"}
                                        /\ raised' = raised]_vars
=============================================================================
