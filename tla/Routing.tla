------------------------------- MODULE Routing -------------------------------
(***************************************************************************)
(* Which models a task is sent to: the settings of a task, what Settings    *)
(* accepts of them when the process starts, and ordered_models.             *)
(***************************************************************************)
EXTENDS Integers, SequencesExt

CONSTANTS
    Name,       \* model names a deployment may write, "" not among them
    WellFormed, \* those that are a provider/model id
    None        \* a setting that is absent

ASSUME RoutingAssumption ==
    WellFormed \subseteq Name /\ "" \notin Name /\ None \notin Name \cup {""}

MaxPolicy == 8      \* Field(max_length=8)

\* One task's settings.  Only the models of a policy are validated: the other
\* three take any string, the empty one being their default.
Setting(policies) ==
    [policy : policies \cup {None}, task : Name \cup {"", None},
     primary : Name \cup {""}, fallback : Name \cup {""}]

\* TaskRoutingPolicy: with any other policy the process does not start.
ValidPolicy(models) ==
    /\ Len(models) \in 1 .. MaxPolicy
    /\ ToSet(models) \subseteq WellFormed
    /\ IsInjective(models)

Loads(s) == s.policy # None => ValidPolicy(s.policy)

\* An entry in TASK_MODELS counts even when it is empty.
Candidates(s) ==
    CASE s.policy # None -> s.policy
      [] s.policy = None /\ s.task # None -> <<s.task>>
      [] OTHER -> <<s.primary>>

\* Fault: the fallback is appended after the duplicates were removed.
FallbackAppended(s) ==
    SelectSeq(Append(Candidates(s), s.fallback), LAMBDA m : m # "")

\* The candidates and then the fallback, each where it first comes and once,
\* without empty names.
OrderedModels(s) ==
    FoldLeft(LAMBDA kept, m : IF m = "" \/ Contains(kept, m) THEN kept ELSE Append(kept, m),
             <<>>, Append(Candidates(s), s.fallback))
=============================================================================
