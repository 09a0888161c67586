------------------------------ MODULE MemoryProofs ------------------------------
(***************************************************************************)
(* Proofs about the endpoint over MemoryStore, for any number of calls, keys,*)
(* tokens, models and restarts: what becomes of a key without a claim, that  *)
(* a jti is accepted once, that the rate limit is exact in both directions,  *)
(* and who may overspend a budget.                                           *)
(***************************************************************************)
EXTENDS MemoryExecute, FoldProofs, FunctionTheorems

-----------------------------------------------------------------------------
(* The inductive invariant *)

Entry == [digest : Body, response : Response]
Called == [body : Body, token : Token, life : Nat]

\* The types this part of the argument needs: usage and the rate limit's stamps play
\* no part in it.
Types ==
    /\ clock \in Nat /\ restarts \in Nat
    /\ records \in [Key -> Entry \cup {None}]
    /\ replayed \in [Jti -> Nat \cup {None}]
    /\ pc \in [Request -> {"idle", "call", "done"}]
    /\ call \in [Request -> Called \cup {None}]
    /\ attempt \in [Request -> Nat]
    /\ answer \in [Request -> [code : Code, response : Response \cup {None}] \cup {None}]
    /\ acceptedAt \in [Request -> Nat \cup {None}]
    /\ passedAt \in [Request -> Nat \cup {None}]
    /\ before \in [Request -> SUBSET Request]

\* What a call's place says of what is known about it.
Placed(r) ==
    /\ answer[r] # None => pc[r] = "done"
    /\ pc[r] = "idle" => call[r] = None /\ before[r] = {}
    /\ call[r] # None => call[r].life <= restarts
    /\ Ran(r) \/ ToldResult(r) \/ acceptedAt[r] # None => call[r] # None
    /\ pc[r] = "call" => /\ Ran(r) /\ call[r].life = restarts
                         /\ attempt[r] \in 1 .. Len(OrderedModels[TaskFor(r)])
    /\ \A s \in before[r] : pc[s] = "done"

\* p is a run whose caller was told what body b with response q is told.
Told(p, b, q, life) ==
    /\ Ran(p) /\ ToldResult(p)
    /\ BodyOf(p) = b /\ answer[p].response = q /\ call[p].life = life

RecordsFromRuns ==
    \A k \in Key : records[k] # None =>
        /\ KeyOf[records[k].digest] = k
        /\ \E p \in Request : Told(p, records[k].digest, records[k].response, restarts)

AnswersFromRuns ==
    \A r \in Request : ToldResult(r) =>
        /\ \E p \in Request : Told(p, BodyOf(r), answer[r].response, call[r].life)
        /\ call[r].life = restarts => records[KeyFor(r)] # None

\* While a token lives, its jti holds its expiry.
JtisKept ==
    \A r \in Request : acceptedAt[r] # None =>
        /\ acceptedAt[r] <= clock
        /\ (call[r].life = restarts /\ ExpOf[call[r].token] > clock) =>
              replayed[JtiOf[call[r].token]] = ExpOf[call[r].token]

Keys ==
    /\ Types
    /\ \A r \in Request : Placed(r)
    /\ RecordsFromRuns
    /\ AnswersFromRuns
    /\ RerunsOverlap

Jtis == JtisKept /\ OncePerJti

LEMMA InitMemory == Init => Keys /\ Jtis
  BY MemoryAssumption
  DEF Init, EmptyStore, Keys, Jtis, Types, Placed, RecordsFromRuns, AnswersFromRuns,
      RerunsOverlap, JtisKept, OncePerJti, Ran, ToldResult, Time

\* Two callers of a key told differently were told by two runs, and neither began
\* after the other was answered.
LEMMA KeysImply ==
  ASSUME Keys
  PROVE  AnswersDifferOnlyByOverlap
<1> SUFFICES ASSUME NEW r \in Request, NEW s \in Request,
                    ToldResult(r), ToldResult(s), SameLife(r, s), KeyFor(r) = KeyFor(s),
                    BodyOf(r) # BodyOf(s) \/ answer[r].response # answer[s].response
             PROVE  \E p, q \in Request :
                       /\ p # q /\ Ran(p) /\ Ran(q)
                       /\ KeyFor(p) = KeyFor(r) /\ KeyFor(q) = KeyFor(r)
                       /\ p \notin before[q] /\ q \notin before[p]
                       /\ SameLife(p, r) /\ SameLife(q, r)
  BY DEF AnswersDifferOnlyByOverlap
<1>1. PICK p \in Request : Told(p, BodyOf(r), answer[r].response, call[r].life)
  BY DEF Keys, AnswersFromRuns
<1>2. PICK q \in Request : Told(q, BodyOf(s), answer[s].response, call[s].life)
  BY DEF Keys, AnswersFromRuns
<1>3. /\ p # q /\ Ran(p) /\ Ran(q) /\ ToldResult(p) /\ ToldResult(q)
      /\ KeyFor(p) = KeyFor(r) /\ KeyFor(q) = KeyFor(r)
      /\ SameLife(p, r) /\ SameLife(q, r) /\ SameLife(p, q) /\ SameLife(q, p)
  BY <1>1, <1>2 DEF Told, KeyFor, SameLife
<1>4. p \notin before[q] /\ q \notin before[p] BY <1>3 DEF Keys, RerunsOverlap
<1> QED BY <1>3, <1>4

-----------------------------------------------------------------------------
(* What the step of a call does *)

Alone(r) ==
    /\ pc[r] # "done" /\ restarts' = restarts /\ clock' = clock
    /\ \A s \in Request \ {r} :
          /\ pc'[s] = pc[s] /\ call'[s] = call[s] /\ attempt'[s] = attempt[s]
          /\ answer'[s] = answer[s] /\ acceptedAt'[s] = acceptedAt[s]
          /\ passedAt'[s] = passedAt[s] /\ before'[s] = before[s]

\* The call is known from now on, with its body b.
Known(r, b) == /\ b \in Body /\ call'[r] \in Called
               /\ call'[r].body = b /\ call'[r].life = restarts

\* It puts a response and tells it; it tells a stored one; it is refused; or it
\* waits for a provider.
Puts(r, b) ==
    /\ Known(r, b) /\ passedAt'[r] # None
    /\ \E p \in Response :
          /\ records' = [records EXCEPT ![KeyOf[b]] = [digest |-> b, response |-> p]]
          /\ pc'[r] = "done" /\ answer'[r] = [code |-> "OK", response |-> p]

Replays(r, b) ==
    /\ Known(r, b) /\ passedAt'[r] = passedAt[r]
    /\ records' = records /\ records[KeyOf[b]] # None /\ records[KeyOf[b]].digest = b
    /\ pc'[r] = "done"
    /\ answer'[r] = [code |-> "OK", response |-> records[KeyOf[b]].response]

Refuses(r) ==
    /\ records' = records /\ passedAt'[r] = passedAt[r]
    /\ pc'[r] = "done"
    /\ answer'[r].code # "OK"
    /\ \/ call'[r] = call[r] /\ acceptedAt'[r] = acceptedAt[r]
       \/ call'[r] \in Called /\ call'[r].life = restarts

Waits(r, b) ==
    /\ Known(r, b) /\ passedAt'[r] # None
    /\ records' = records
    /\ pc'[r] = "call" /\ answer'[r] = answer[r]
    /\ attempt'[r] \in 1 .. Len(OrderedModels[TaskOf[b]])

Tells(r) == Refuses(r) \/ \E b \in Body : Puts(r, b) \/ Replays(r, b) \/ Waits(r, b)

\* A run begins only for a key without a record.
Begins(r) ==
    \/ before'[r] = before[r] /\ (pc[r] = "call" => call'[r] = call[r])
    \/ /\ pc[r] = "idle" /\ before'[r] = {s \in Request : answer[s] # None}
       /\ call'[r] \in Called /\ call'[r].life = restarts
       /\ records[KeyOf[call'[r].body]] = None

\* A step keeps its variables' types, and of the others' nothing but the records
\* changes.
Locally(r) ==
    /\ records' \in [Key -> Entry \cup {None}]
    /\ pc' \in [Request -> {"idle", "call", "done"}]
    /\ attempt' \in [Request -> Nat]
    /\ answer' \in [Request -> [code : Code, response : Response \cup {None}] \cup {None}]
    /\ \A s \in Request \ {r} :
          pc'[s] = pc[s] /\ attempt'[s] = attempt[s] /\ answer'[s] = answer[s]

LEMMA SayLocally ==
  ASSUME Types, NEW r \in Request, NEW code \in Code, NEW p \in Response \cup {None},
         Say(r, code, p), records' \in [Key -> Entry \cup {None}]
  PROVE  /\ Locally(r)
         /\ pc'[r] = "done" /\ answer'[r] = [code |-> code, response |-> p]
  BY DEF Types, Say, Locally

LEMMA PutTells ==
  ASSUME Types, NEW r \in Request, NEW b \in Body, NEW p \in Response, PutAndSay(r, b, p),
         Known(r, b), passedAt'[r] # None
  PROVE  Locally(r) /\ Puts(r, b)
<1>1. [digest |-> b, response |-> p] \in Entry BY DEF Entry
<1>2. /\ records' = [records EXCEPT ![KeyOf[b]] = [digest |-> b, response |-> p]]
      /\ records' \in [Key -> Entry \cup {None}]
      /\ Say(r, "OK", p) /\ "OK" \in Code
  BY <1>1, MemoryAssumption DEF PutAndSay, Types, Code
<1>3. Locally(r) /\ pc'[r] = "done" /\ answer'[r] = [code |-> "OK", response |-> p]
  BY <1>2, SayLocally
<1> QED BY <1>2, <1>3 DEF Puts

LEMMA TryOrEndTells ==
  ASSUME Types, NEW r \in Request, NEW b \in Body, NEW n \in Nat \ {0},
         NEW status \in {"review", "provider_unavailable"}, TryOrEnd(r, b, n, status),
         Known(r, b), passedAt'[r] # None
  PROVE  Locally(r) /\ (Puts(r, b) \/ Waits(r, b))
<1>1. CASE PutAndSay(r, b, Build(r, status, None, None))
  <2>1. Build(r, status, None, None) \in Response BY DEF Build, Response
  <2> QED BY <1>1, <2>1, PutTells
<1>2. CASE /\ n <= Len(OrderedModels[TaskOf[b]])
           /\ pc' = [pc EXCEPT ![r] = "call"]
           /\ attempt' = [attempt EXCEPT ![r] = n]
           /\ UNCHANGED <<records, answer>>
  <2>1. OrderedModels[TaskOf[b]] \in Seq(Model) BY MemoryAssumption
  <2>2. Locally(r) BY <1>2 DEF Types, Locally
  <2> QED BY <1>2, <2>1, <2>2 DEF Types, Waits
<1> QED BY <1>1, <1>2 DEF TryOrEnd

LEMMA RunTells ==
  ASSUME Types, NEW r \in Request, NEW b \in Body, Run(r, b), Known(r, b)
  PROVE  /\ Locally(r) /\ (Puts(r, b) \/ Waits(r, b))
         /\ passedAt' \in [Request -> Nat \cup {None}]
         /\ before' \in [Request -> SUBSET Request]
         /\ before'[r] = {s \in Request : answer[s] # None}
         /\ \A s \in Request \ {r} : passedAt'[s] = passedAt[s] /\ before'[s] = before[s]
<1>1. /\ passedAt' \in [Request -> Nat \cup {None}] /\ before' \in [Request -> SUBSET Request]
      /\ before'[r] = {s \in Request : answer[s] # None}
      /\ \A s \in Request \ {r} : passedAt'[s] = passedAt[s] /\ before'[s] = before[s]
      /\ passedAt'[r] # None
  BY MemoryAssumption DEF Run, Types
<1>2. CASE PutAndSay(r, b, Build(r, "budget_exhausted", None, None))
  <2>1. Build(r, "budget_exhausted", None, None) \in Response BY DEF Build, Response
  <2> QED BY <1>1, <1>2, <2>1, PutTells
<1>3. CASE TryOrEnd(r, b, 1, "provider_unavailable")
  BY <1>1, <1>3, TryOrEndTells
<1> QED BY <1>1, <1>2, <1>3 DEF Run

LEMMA RefuseTells ==
  ASSUME Types, NEW r \in Request, NEW code \in Code, NEW p \in Response \cup {None},
         Refuse(r, code, p)
  PROVE  /\ Locally(r) /\ records' = records
         /\ pc'[r] = "done" /\ answer'[r] = [code |-> code, response |-> p]
         /\ passedAt' = passedAt /\ before' = before
<1>1. Say(r, code, p) /\ records' \in [Key -> Entry \cup {None}] BY DEF Refuse, Types
<1> QED BY <1>1, SayLocally DEF Refuse

\* What a call let in with body b does until it waits or answers.
LEMMA AdmitTells ==
  ASSUME Types, NEW r \in Request, NEW b \in Body, Admit(r, b), Known(r, b), pc[r] = "idle"
  PROVE  /\ Locally(r) /\ Tells(r) /\ Begins(r)
         /\ passedAt' \in [Request -> Nat \cup {None}]
         /\ before' \in [Request -> SUBSET Request]
         /\ \A s \in Request \ {r} : passedAt'[s] = passedAt[s] /\ before'[s] = before[s]
<1>1. KeyOf[b] \in Key /\ records[KeyOf[b]] \in Entry \cup {None}
  BY MemoryAssumption DEF Types
<1>2. ASSUME NEW code \in Code \ {"OK"}, Refuse(r, code, None)
      PROVE  /\ Locally(r) /\ Refuses(r) /\ Begins(r)
             /\ passedAt' = passedAt /\ before' = before
  <2>1. code \in Code /\ None \in Response \cup {None} OBVIOUS
  <2>2. /\ Locally(r) /\ records' = records
        /\ pc'[r] = "done" /\ answer'[r] = [code |-> code, response |-> None]
        /\ passedAt' = passedAt /\ before' = before
    BY <1>2, <2>1, RefuseTells
  <2> QED BY <2>2, <1>2 DEF Refuses, Begins, Known
<1>3. CASE /\ records[KeyOf[b]] # None /\ records[KeyOf[b]].digest = b
           /\ Refuse(r, "OK", records[KeyOf[b]].response)
  <2>1. "OK" \in Code /\ records[KeyOf[b]].response \in Response \cup {None}
    BY <1>1, <1>3 DEF Entry, Code
  <2> QED BY <1>3, <2>1, RefuseTells DEF Replays, Begins, Tells, Types
<1>4. CASE records[KeyOf[b]] = None /\ Run(r, b)
  BY <1>4, RunTells DEF Begins, Tells, Known
<1>5. {"REFUSED", "IDEMPOTENCY_CONFLICT", "RATE_LIMITED"} \subseteq Code \ {"OK"} BY DEF Code
<1>6. \/ \E code \in Code \ {"OK"} : Refuse(r, code, None)
      \/ /\ records[KeyOf[b]] # None /\ records[KeyOf[b]].digest = b
         /\ Refuse(r, "OK", records[KeyOf[b]].response)
      \/ records[KeyOf[b]] = None /\ Run(r, b)
  BY <1>5 DEF Admit, Replay
<1>7. CASE \E code \in Code \ {"OK"} : Refuse(r, code, None)
  <2>1. /\ Locally(r) /\ Refuses(r) /\ Begins(r)
        /\ passedAt' = passedAt /\ before' = before
    BY <1>2, <1>7
  <2> QED BY <2>1 DEF Tells, Types
<1> QED BY <1>3, <1>4, <1>6, <1>7

LEMMA BeginTells ==
  ASSUME Types, NEW r \in Request, Begin(r), \A s \in Request : Placed(s)
  PROVE  Types' /\ Alone(r) /\ Tells(r) /\ Begins(r)
<1>1. PICK b \in Body, tok \in TokensOf[r] :
        \/ /\ Refuse(r, "UNAUTHORIZED", None)
           /\ \/ UNCHANGED replayed
              \/ replayed' = Unexpired
           /\ UNCHANGED <<call, acceptedAt>>
        \/ /\ \/ UNCHANGED replayed
              \/ replayed' = Unexpired
              \/ replayed' = [Unexpired EXCEPT ![JtiOf[tok]] = ExpOf[tok]]
           /\ call' = [call EXCEPT ![r] = [body |-> b, token |-> tok, life |-> restarts]]
           /\ acceptedAt' = acceptedAt \/ acceptedAt' = [acceptedAt EXCEPT ![r] = clock]
           /\ Admit(r, b)
  BY DEF Begin, Unidentified, Enter
<1>2. /\ pc[r] = "idle" /\ UNCHANGED <<clock, restarts>> BY DEF Begin
<1>3. tok \in Token /\ JtiOf[tok] \in Jti /\ ExpOf[tok] \in Nat BY MemoryAssumption
<1>4. Unexpired \in [Jti -> Nat \cup {None}] BY DEF Unexpired, Types
<1>5. CASE /\ Refuse(r, "UNAUTHORIZED", None)
           /\ UNCHANGED replayed \/ replayed' = Unexpired
           /\ UNCHANGED <<call, acceptedAt>>
  <2>1. /\ Locally(r) /\ records' = records
        /\ pc'[r] = "done" /\ answer'[r] = [code |-> "UNAUTHORIZED", response |-> None]
        /\ passedAt' = passedAt /\ before' = before
    <3>1. "UNAUTHORIZED" \in Code BY DEF Code
    <3> QED BY <1>5, <3>1, RefuseTells
  <2>2. Types' BY <1>2, <1>4, <1>5, <2>1 DEF Types, Locally
  <2>3. Alone(r) BY <1>2, <1>5, <2>1 DEF Alone, Locally
  <2>4. Refuses(r) /\ Begins(r) BY <1>2, <1>5, <2>1 DEF Refuses, Begins
  <2> QED BY <2>2, <2>3, <2>4 DEF Tells
<1>6. CASE /\ \/ UNCHANGED replayed
              \/ replayed' = Unexpired
              \/ replayed' = [Unexpired EXCEPT ![JtiOf[tok]] = ExpOf[tok]]
           /\ call' = [call EXCEPT ![r] = [body |-> b, token |-> tok, life |-> restarts]]
           /\ acceptedAt' = acceptedAt \/ acceptedAt' = [acceptedAt EXCEPT ![r] = clock]
           /\ Admit(r, b)
  <2>1. [body |-> b, token |-> tok, life |-> restarts] \in Called
    BY <1>3 DEF Called, Types
  <2>2. Known(r, b) BY <1>6, <2>1 DEF Known, Types
  <2>3. /\ Locally(r) /\ Tells(r) /\ Begins(r)
        /\ passedAt' \in [Request -> Nat \cup {None}]
        /\ before' \in [Request -> SUBSET Request]
        /\ \A s \in Request \ {r} : passedAt'[s] = passedAt[s] /\ before'[s] = before[s]
    BY <1>2, <1>6, <2>2, AdmitTells
  <2>4. Types' BY <1>2, <1>3, <1>4, <1>6, <2>1, <2>3 DEF Types, Locally
  <2>5. Alone(r) BY <1>2, <1>6, <2>3 DEF Alone, Locally, Types
  <2> QED BY <2>3, <2>4, <2>5
<1> QED BY <1>1, <1>5, <1>6

LEMMA ProviderTells ==
  ASSUME Types, NEW r \in Request, ProviderReplies(r) \/ ProviderFails(r),
         \A s \in Request : Placed(s)
  PROVE  Types' /\ Alone(r) /\ Tells(r) /\ Begins(r)
<1> DEFINE b == BodyOf(r)
<1>1. /\ pc[r] = "call"
      /\ UNCHANGED <<clock, restarts, replayed, call, acceptedAt, passedAt, before>>
  BY DEF ProviderReplies, ProviderFails, history
<1>2. /\ call[r] \in Called /\ call[r].life = restarts /\ passedAt[r] # None
      /\ b \in Body /\ TaskFor(r) = TaskOf[b] /\ TaskOf[b] \in Task
      /\ OrderedModels[TaskOf[b]] \in Seq(Model)
      /\ attempt[r] \in 1 .. Len(OrderedModels[TaskOf[b]])
  <2>1. Placed(r) OBVIOUS
  <2>2. call[r] \in Called /\ call[r].life = restarts /\ passedAt[r] # None
        /\ attempt[r] \in 1 .. Len(OrderedModels[TaskOf[b]])
    BY <1>1, <2>1 DEF Placed, Ran, Types, TaskFor
  <2>3. b \in Body BY <2>2 DEF Called, BodyOf
  <2> QED BY <2>2, <2>3, MemoryAssumption DEF TaskFor
<1>3. Known(r, b) BY <1>1, <1>2 DEF Known, BodyOf
<1>4. Locally(r) /\ (Puts(r, b) \/ Waits(r, b))
  <2>1. CASE ProviderFails(r)
    BY <2>1, <1>1, <1>2, <1>3, TryOrEndTells DEF ProviderFails
  <2>2. CASE ProviderReplies(r)
    <3>1. PICK o \in Output :
            LET output == Normalize[TaskFor(r)][o] IN
            \/ PutAndSay(r, b, Build(r, "completed", output,
                                     OrderedModels[TaskFor(r)][attempt[r]]))
            \/ TryOrEnd(r, b, attempt[r] + 1, "review")
      BY <2>2 DEF ProviderReplies
    <3> DEFINE output == Normalize[TaskFor(r)][o]
               model == OrderedModels[TaskFor(r)][attempt[r]]
    <3>2. CASE PutAndSay(r, b, Build(r, "completed", output, model))
      <4>1. output \in Output /\ model \in Model BY <1>2, MemoryAssumption
      <4> HIDE DEF output, model
      <4>2. Build(r, "completed", output, model) \in Response BY <4>1 DEF Build, Response
      <4> QED BY <3>2, <4>2, <1>1, <1>2, <1>3, PutTells
    <3>3. CASE TryOrEnd(r, b, attempt[r] + 1, "review")
      BY <3>3, <1>1, <1>2, <1>3, TryOrEndTells
    <3> QED BY <3>1, <3>2, <3>3
  <2> QED BY <2>1, <2>2
<1>5. Types' BY <1>1, <1>4 DEF Types, Locally
<1>6. Alone(r) BY <1>1, <1>4 DEF Alone, Locally
<1>7. Begins(r) BY <1>1 DEF Begins
<1> QED BY <1>2, <1>4, <1>5, <1>6, <1>7 DEF Tells

-----------------------------------------------------------------------------
(* Keys: the steps of a call *)

LEMMA PlacedKept ==
  ASSUME Keys, NEW r \in Request, Alone(r), Tells(r), Begins(r)
  PROVE  \A s \in Request : Placed(s)'
<1>1. Placed(r) /\ pc[r] # "done" /\ answer[r] = None /\ restarts' = restarts
  BY DEF Keys, Placed, Alone
<1>2. ASSUME NEW s \in Request, pc[s] = "done" PROVE pc'[s] = "done"
  BY <1>1, <1>2 DEF Alone
<1>3. ASSUME NEW s \in before'[r] PROVE pc'[s] = "done"
  <2>1. CASE before'[r] = before[r]
    <3>1. s \in Request BY <2>1 DEF Keys, Types
    <3> QED BY <2>1, <3>1, <1>1, <1>2 DEF Placed
  <2>2. CASE before'[r] = {x \in Request : answer[x] # None}
    BY <2>2, <1>2 DEF Keys, Placed
  <2> QED BY <2>1, <2>2 DEF Begins
<1>4. /\ call'[r] # None => call'[r].life <= restarts'
      /\ Ran(r)' \/ ToldResult(r)' \/ acceptedAt'[r] # None => call'[r] # None
      /\ answer'[r] # None => pc'[r] = "done"
      /\ pc'[r] # "idle"
      /\ pc'[r] = "call" => /\ Ran(r)' /\ call'[r].life = restarts'
                            /\ attempt'[r] \in 1 .. Len(OrderedModels[TaskFor(r)'])
  <2>1. restarts \in Nat BY DEF Keys, Types
  <2>2. CASE Refuses(r)
    <3>1. ~ToldResult(r)' BY <2>2 DEF Refuses, ToldResult
    <3>2. CASE call'[r] = call[r] /\ acceptedAt'[r] = acceptedAt[r]
      BY <3>1, <3>2, <2>2, <1>1 DEF Refuses, Placed, Ran
    <3>3. CASE call'[r] \in Called /\ call'[r].life = restarts
      BY <3>3, <2>1, <2>2, <1>1, NoneIsNoEntry DEF Refuses, Called
    <3> QED BY <3>2, <3>3, <2>2 DEF Refuses
  <2>3. ASSUME NEW b \in Body, Puts(r, b) \/ Replays(r, b)
        PROVE  pc'[r] = "done" /\ call'[r] # None /\ call'[r].life = restarts
    BY <2>3, NoneIsNoEntry DEF Puts, Replays, Known, Called
  <2>4. ASSUME NEW b \in Body, Waits(r, b)
        PROVE  /\ pc'[r] = "call" /\ call'[r] # None /\ call'[r].life = restarts
               /\ answer'[r] = None /\ Ran(r)'
               /\ attempt'[r] \in 1 .. Len(OrderedModels[TaskFor(r)'])
    BY <2>4, <1>1, NoneIsNoEntry DEF Waits, Known, Called, Ran, TaskFor, BodyOf
  <2> QED BY <2>1, <2>2, <2>3, <2>4, <1>1 DEF Tells
<1>5. Placed(r)' BY <1>3, <1>4 DEF Placed
<1>6. ASSUME NEW s \in Request, s # r PROVE Placed(s)'
  <2>1. /\ pc'[s] = pc[s] /\ call'[s] = call[s] /\ attempt'[s] = attempt[s]
        /\ answer'[s] = answer[s] /\ acceptedAt'[s] = acceptedAt[s]
        /\ passedAt'[s] = passedAt[s] /\ before'[s] = before[s]
    BY <1>6 DEF Alone
  <2>2. Placed(s) BY DEF Keys
  <2>3. ASSUME NEW x \in before[s] PROVE pc'[x] = "done"
    <3>1. x \in Request BY DEF Keys, Types
    <3> QED BY <3>1, <2>2, <1>2 DEF Placed
  <2> QED BY <2>1, <2>2, <2>3, <1>1 DEF Placed, Ran, ToldResult, TaskFor, BodyOf
<1> QED BY <1>5, <1>6

\* What someone was told stays told.
LEMMA ToldKept ==
  ASSUME Keys, NEW r \in Request, Alone(r), NEW p \in Request, ToldResult(p)
  PROVE  /\ p # r /\ call'[p] = call[p] /\ answer'[p] = answer[p] /\ ToldResult(p)'
         /\ \A b, q, l : Told(p, b, q, l) => Told(p, b, q, l)'
<1>1. p # r BY DEF Keys, Placed, Alone, ToldResult
<1> QED BY <1>1 DEF Alone, Told, ToldResult, Ran, BodyOf

LEMMA CallKeepsKeys ==
  ASSUME Keys, Types', NEW r \in Request, Alone(r), Tells(r), Begins(r)
  PROVE  Keys'
<1>0. DOMAIN records = Key BY DEF Keys, Types
<1>1. \A s \in Request : Placed(s)' BY PlacedKept
<1>2. restarts' = restarts /\ Placed(r) /\ pc[r] # "done" BY DEF Keys, Alone
<1>3. ASSUME NEW b \in Body, Known(r, b)
      PROVE  KeyOf[b] \in Key /\ BodyOf(r)' = b /\ KeyFor(r)' = KeyOf[b]
             /\ call'[r].life = restarts
  BY <1>3, MemoryAssumption DEF Known, BodyOf, KeyFor
<1>4. \/ records' = records
      \/ \E b \in Body, p \in Response :
            /\ Known(r, b)
            /\ records' = [records EXCEPT ![KeyOf[b]] = [digest |-> b, response |-> p]]
            /\ Told(r, b, p, restarts)'
  <2>1. ASSUME NEW b \in Body, Puts(r, b)
        PROVE  \E p \in Response :
            /\ records' = [records EXCEPT ![KeyOf[b]] = [digest |-> b, response |-> p]]
            /\ Told(r, b, p, restarts)'
    <3>1. PICK p \in Response :
            /\ records' = [records EXCEPT ![KeyOf[b]] = [digest |-> b, response |-> p]]
            /\ pc'[r] = "done" /\ answer'[r] = [code |-> "OK", response |-> p]
      BY <2>1 DEF Puts
    <3>2. Known(r, b) /\ passedAt'[r] # None BY <2>1 DEF Puts
    <3>3. ToldResult(r)'
      <4>1. answer'[r].code = "OK" BY <3>1
      <4>2. [code |-> "OK", response |-> p] \in
               [code : Code, response : Response \cup {None}]
        BY DEF Code
      <4>3. answer'[r] # None BY <3>1, <4>2, NoneIsNoEntry
      <4> QED BY <4>1, <4>3 DEF ToldResult
    <3>4. /\ BodyOf(r)' = b /\ call'[r].life = restarts' /\ answer'[r].response = p
          /\ Ran(r)'
      BY <3>1, <3>2, <1>2, <1>3 DEF Ran
    <3> QED BY <3>1, <3>3, <3>4 DEF Told
  <2> QED BY <2>1 DEF Tells, Refuses, Replays, Waits, Puts
<1>5. \A k \in Key : records[k] # None => records'[k] # None
  <2>1. ASSUME NEW b \in Body, NEW p \in Response,
               records' = [records EXCEPT ![KeyOf[b]] = [digest |-> b, response |-> p]]
        PROVE  \A k \in Key : records[k] # None => records'[k] # None
    <3>1. [digest |-> b, response |-> p] # None BY NoneIsNoEntry
    <3> QED BY <2>1, <3>1, <1>0
  <2> QED BY <2>1, <1>4 DEF Known
<1>6. RecordsFromRuns'
  <2>1. ASSUME NEW k \in Key, records'[k] # None
        PROVE  /\ KeyOf[records'[k].digest] = k
               /\ \E p \in Request :
                     Told(p, records[k].digest, records[k].response, restarts)'
    <3>1. CASE records'[k] = records[k]
      <4>1. /\ KeyOf[records[k].digest] = k
            /\ \E p \in Request : Told(p, records[k].digest, records[k].response, restarts)
        BY <2>1, <3>1 DEF Keys, RecordsFromRuns
      <4>2. PICK p \in Request : Told(p, records[k].digest, records[k].response, restarts)
        BY <4>1
      <4>3. ToldResult(p) BY <4>2 DEF Told
      <4>4. Told(p, records[k].digest, records[k].response, restarts)'
        <5>1. /\ call'[p] = call[p] /\ answer'[p] = answer[p] /\ ToldResult(p)'
              /\ passedAt'[p] = passedAt[p]
          BY <4>3, ToldKept DEF Alone
        <5> QED BY <3>1, <4>2, <5>1, <1>2 DEF Told, Ran, BodyOf
      <4> QED BY <3>1, <4>1, <4>4
    <3>2. ASSUME NEW b \in Body, NEW p \in Response, Known(r, b), k = KeyOf[b],
                 records' = [records EXCEPT ![KeyOf[b]] = [digest |-> b, response |-> p]],
                 Told(r, b, p, restarts)'
          PROVE  /\ KeyOf[records'[k].digest] = k
                 /\ Told(r, records[k].digest, records[k].response, restarts)'
      <4>1. records'[k] = [digest |-> b, response |-> p] BY <3>2, <1>0
      <4>2. records'[k].digest = b /\ records'[k].response = p BY <4>1
      <4>3. KeyOf[records'[k].digest] = k BY <3>2, <4>2
      <4> QED BY <3>2, <4>2, <4>3 DEF Told
    <3>3. \/ records'[k] = records[k]
          \/ \E b \in Body, p \in Response :
                /\ Known(r, b) /\ k = KeyOf[b]
                /\ records' = [records EXCEPT ![KeyOf[b]] = [digest |-> b, response |-> p]]
                /\ Told(r, b, p, restarts)'
      BY <1>0, <1>4
    <3> QED BY <3>1, <3>2, <3>3
  <2> QED BY <2>1 DEF RecordsFromRuns
<1>7. AnswersFromRuns'
  <2>1. ASSUME NEW s \in Request, ToldResult(s)'
        PROVE  /\ \E p \in Request : Told(p, BodyOf(s), answer[s].response, call[s].life)'
               /\ call'[s].life = restarts' => records'[KeyFor(s)'] # None
    <3>1. CASE s # r
      <4>1. ToldResult(s) /\ call'[s] = call[s] /\ answer'[s] = answer[s]
        BY <2>1, <3>1 DEF Alone, ToldResult
      <4>2. PICK p \in Request : Told(p, BodyOf(s), answer[s].response, call[s].life)
        BY <4>1 DEF Keys, AnswersFromRuns
      <4>3. Told(p, BodyOf(s), answer[s].response, call[s].life)'
        <5>1. ToldResult(p) BY <4>2 DEF Told
        <5> QED BY <4>1, <4>2, <5>1, ToldKept DEF Told, BodyOf
      <4>4. call[s].life = restarts => records'[KeyFor(s)] # None
        <5>1. BodyOf(s) \in Body
          BY <4>1 DEF Keys, Placed, Types, Called, BodyOf
        <5>2. KeyFor(s) \in Key BY <5>1, MemoryAssumption DEF KeyFor
        <5> QED BY <4>1, <5>2, <1>5 DEF Keys, AnswersFromRuns
      <4> QED BY <4>1, <4>3, <4>4, <1>2 DEF KeyFor, BodyOf
    <3>2. ASSUME NEW b \in Body, Replays(r, b), s = r
          PROVE  /\ \E p \in Request : Told(p, BodyOf(s), answer[s].response, call[s].life)'
                 /\ records'[KeyFor(s)'] # None
      <4>1. /\ Known(r, b) /\ records' = records /\ records[KeyOf[b]] # None
            /\ records[KeyOf[b]].digest = b
            /\ answer'[r].response = records[KeyOf[b]].response
        BY <3>2 DEF Replays
      <4>2. KeyOf[b] \in Key /\ BodyOf(r)' = b /\ KeyFor(r)' = KeyOf[b]
            /\ call'[r].life = restarts
        BY <4>1, <1>3
      <4>3. PICK p \in Request : Told(p, b, records[KeyOf[b]].response, restarts)
        BY <4>1, <4>2 DEF Keys, RecordsFromRuns
      <4>4. ToldResult(p) BY <4>3 DEF Told
      <4>5. p # r /\ call'[p] = call[p] /\ answer'[p] = answer[p] /\ ToldResult(p)'
            /\ passedAt'[p] = passedAt[p]
        BY <4>4, ToldKept DEF Alone
      <4>6. Told(p, BodyOf(s), answer[s].response, call[s].life)'
        BY <3>2, <4>1, <4>2, <4>3, <4>5 DEF Told, BodyOf, Ran
      <4> QED BY <3>2, <4>1, <4>2, <4>6
    <3>3. ASSUME NEW b \in Body, Puts(r, b), s = r
          PROVE  /\ \E p \in Request : Told(p, BodyOf(s), answer[s].response, call[s].life)'
                 /\ records'[KeyFor(s)'] # None
      <4>0. PICK p \in Response :
              /\ records' = [records EXCEPT ![KeyOf[b]] = [digest |-> b, response |-> p]]
              /\ answer'[r] = [code |-> "OK", response |-> p]
        BY <3>3 DEF Puts
      <4>1. /\ records' = [records EXCEPT ![KeyOf[b]] = [digest |-> b, response |-> p]]
            /\ answer'[r].response = p
        BY <4>0
      <4>2. /\ KeyOf[b] \in Key /\ BodyOf(r)' = b /\ KeyFor(r)' = KeyOf[b]
            /\ call'[r].life = restarts /\ Ran(r)'
        BY <3>3, <1>3 DEF Puts, Ran
      <4>3. Told(r, BodyOf(s), answer[s].response, call[s].life)'
        BY <2>1, <3>3, <4>1, <4>2 DEF Told
      <4>4. records'[KeyOf[b]] # None
        BY <4>1, <4>2, NoneIsNoEntry DEF Keys, Types
      <4> QED BY <3>3, <4>2, <4>3, <4>4
    <3>4. s = r => ~Refuses(r) /\ \A b \in Body : ~Waits(r, b)
      BY <2>1, <1>2 DEF ToldResult, Refuses, Waits, Placed
    <3> QED BY <3>1, <3>2, <3>3, <3>4 DEF Tells
  <2> QED BY <2>1 DEF AnswersFromRuns
<1>8. RerunsOverlap'
  <2>1. ASSUME NEW s \in Request, NEW t \in Request, Ran(t)', s \in before'[t],
               ToldResult(s)', SameLife(s, t)'
        PROVE  KeyFor(s)' # KeyFor(t)'
    <3>1. CASE t # r
      <4>1. Ran(t) /\ s \in before[t] /\ call'[t] = call[t]
        BY <2>1, <3>1 DEF Alone, Ran
      <4>2. pc[s] = "done" BY <4>1 DEF Keys, Placed
      <4>3. ToldResult(s) /\ call'[s] = call[s]
        BY <2>1, <4>2, <1>2 DEF Alone, ToldResult
      <4> QED BY <2>1, <4>1, <4>3 DEF Keys, RerunsOverlap, SameLife, KeyFor, BodyOf
    <3>2. CASE t = r /\ before'[r] = before[r] /\ (pc[r] = "call" => call'[r] = call[r])
      <4>1. pc[r] = "call" /\ Ran(r)
        BY <2>1, <3>2, <1>2 DEF Placed, Keys, Types
      <4>2. pc[s] = "done" BY <2>1, <3>2, <1>2 DEF Placed
      <4>3. ToldResult(s) /\ call'[s] = call[s]
        BY <2>1, <4>2, <1>2 DEF Alone, ToldResult
      <4> QED BY <2>1, <3>2, <4>1, <4>3 DEF Keys, RerunsOverlap, SameLife, KeyFor, BodyOf
    <3>3. CASE /\ t = r /\ before'[r] = {x \in Request : answer[x] # None}
               /\ call'[r].life = restarts
               /\ records[KeyOf[call'[r].body]] = None
      <4>1. pc[s] = "done" BY <2>1, <3>3 DEF Keys, Placed
      <4>2. ToldResult(s) /\ call'[s] = call[s]
        BY <2>1, <4>1, <1>2 DEF Alone, ToldResult
      <4>3. records[KeyFor(s)] # None
        BY <2>1, <3>3, <4>2 DEF Keys, AnswersFromRuns, SameLife
      <4> QED BY <3>3, <4>2, <4>3 DEF KeyFor, BodyOf
    <3> QED BY <3>1, <3>2, <3>3 DEF Begins
  <2> QED BY <2>1 DEF RerunsOverlap
<1> QED BY <1>1, <1>6, <1>7, <1>8 DEF Keys

-----------------------------------------------------------------------------
(* Keys: the other steps *)

LEMMA RestartKeepsKeys ==
  ASSUME Keys, Restart
  PROVE  Keys'
<1>1. /\ restarts \in Nat /\ restarts' = restarts + 1
      /\ records' = [k \in Key |-> None]
      /\ UNCHANGED <<call, acceptedAt, passedAt, before, clock>>
      /\ \A r \in Request :
            /\ pc'[r] = IF pc[r] = "call" THEN "done" ELSE pc[r]
            /\ answer'[r] = IF pc[r] = "call"
                              THEN [code |-> "INTERNAL_ERROR", response |-> None] ELSE answer[r]
  BY DEF Keys, Types, Restart, history
<1>2. Types' BY <1>1 DEF Keys, Types, Restart, Code
<1>3. ASSUME NEW r \in Request
      PROVE  ToldResult(r)' <=> ToldResult(r) /\ answer'[r] = answer[r]
  BY <1>1 DEF ToldResult, Keys, Placed
<1>4. ASSUME NEW r \in Request PROVE Placed(r)'
  <2>1. Placed(r) /\ before[r] \subseteq Request /\ pc[r] \in {"idle", "call", "done"}
    BY DEF Keys, Types
  <2>2. call[r] # None => call[r].life \in Nat BY <2>1 DEF Keys, Types, Called
  <2> QED BY <1>1, <1>3, <2>1, <2>2 DEF Placed, Ran
<1>5. RecordsFromRuns' BY <1>1 DEF RecordsFromRuns
<1>6. AnswersFromRuns'
  <2>1. ASSUME NEW r \in Request, ToldResult(r)'
        PROVE  /\ \E p \in Request : Told(p, BodyOf(r), answer[r].response, call[r].life)'
               /\ call'[r].life # restarts'
    <3>1. ToldResult(r) /\ answer'[r] = answer[r] BY <2>1, <1>3
    <3>2. PICK p \in Request : Told(p, BodyOf(r), answer[r].response, call[r].life)
      BY <3>1 DEF Keys, AnswersFromRuns
    <3>3. ToldResult(p)' /\ answer'[p] = answer[p]
      BY <3>2, <1>1, <1>3 DEF Told, ToldResult, Keys, Placed
    <3>4. Told(p, BodyOf(r), answer[r].response, call[r].life)'
      BY <3>1, <3>2, <3>3, <1>1 DEF Told, Ran, BodyOf
    <3>5. call[r] \in Called /\ call[r].life <= restarts
      BY <3>1 DEF Keys, Types, Placed
    <3>6. call[r].life \in Nat BY <3>5 DEF Called
    <3> QED BY <3>4, <3>5, <3>6, <1>1
  <2> QED BY <2>1 DEF AnswersFromRuns
<1>7. RerunsOverlap'
  BY <1>1, <1>3 DEF Keys, RerunsOverlap, Ran, SameLife, KeyFor, BodyOf
<1> QED BY <1>2, <1>4, <1>5, <1>6, <1>7 DEF Keys

LEMMA NextKeys == Keys /\ [Next]_vars => Keys'
<1> SUFFICES ASSUME Keys, [Next]_vars PROVE Keys' OBVIOUS
<1>1. CASE UNCHANGED vars \/ Tick
  <2>1. /\ UNCHANGED <<restarts, records, replayed, pc, call, attempt, answer, acceptedAt,
                       passedAt, before>>
        /\ clock' \in Nat
    BY <1>1 DEF vars, storeVars, history, Tick, Keys, Types
  <2> QED
    BY <2>1 DEF Keys, Types, Placed, RecordsFromRuns, AnswersFromRuns, RerunsOverlap, Told,
                Ran, ToldResult, SameLife, KeyFor, TaskFor, BodyOf
<1>2. ASSUME NEW r \in Request, Begin(r) \/ ProviderReplies(r) \/ ProviderFails(r)
      PROVE  Keys'
  <2>1. Types' /\ Alone(r) /\ Tells(r) /\ Begins(r)
    BY <1>2, BeginTells, ProviderTells DEF Keys
  <2> QED BY <2>1, CallKeepsKeys
<1> QED BY <1>1, <1>2, RestartKeepsKeys DEF Next, Terminating

-----------------------------------------------------------------------------
(* Jtis *)

\* A step that accepts no token, and drops no entry that has not expired.
LEMMA QuietJtis ==
  ASSUME Keys, Jtis, UNCHANGED acceptedAt,
         \A r \in Request : acceptedAt[r] # None => call'[r] = call[r],
         clock' \in Nat, clock <= clock', restarts' \in Nat, restarts <= restarts',
         restarts' = restarts =>
            \A j \in Jti : (replayed[j] \in Nat /\ replayed[j] > clock) => replayed'[j] = replayed[j]
  PROVE  Jtis'
<1>1. OncePerJti' BY DEF Jtis, OncePerJti, SameLife
<1>2. ASSUME NEW r \in Request, acceptedAt[r] # None
      PROVE  /\ acceptedAt[r] <= clock'
             /\ (call'[r].life = restarts' /\ ExpOf[call'[r].token] > clock') =>
                   replayed'[JtiOf[call'[r].token]] = ExpOf[call'[r].token]
  <2>1. call[r] \in Called /\ call[r].life <= restarts /\ acceptedAt[r] \in Nat
    BY <1>2 DEF Keys, Types, Placed
  <2>2. /\ call[r].life \in Nat /\ ExpOf[call[r].token] \in Nat
        /\ JtiOf[call[r].token] \in Jti /\ clock \in Nat /\ restarts \in Nat
    BY <2>1, MemoryAssumption DEF Called, Keys, Types
  <2>3. /\ acceptedAt[r] <= clock
        /\ (call[r].life = restarts /\ ExpOf[call[r].token] > clock) =>
              replayed[JtiOf[call[r].token]] = ExpOf[call[r].token]
    BY <1>2 DEF Jtis, JtisKept
  <2>4. call'[r] = call[r] BY <1>2
  <2> QED BY <2>1, <2>2, <2>3, <2>4
<1> QED BY <1>1, <1>2 DEF Jtis, JtisKept

\* Claiming a jti: it was free, so whoever had it in this life had a token that
\* has expired.
LEMMA AcceptJtis ==
  ASSUME Keys, Jtis, NEW r \in Request, NEW b \in Body, NEW tok \in Token,
         acceptedAt[r] = None, UNCHANGED <<clock, restarts>>,
         ExpOf[tok] > clock, Unexpired[JtiOf[tok]] = None,
         replayed' = [Unexpired EXCEPT ![JtiOf[tok]] = ExpOf[tok]],
         call' = [call EXCEPT ![r] = [body |-> b, token |-> tok, life |-> restarts]],
         acceptedAt' = [acceptedAt EXCEPT ![r] = clock]
  PROVE  Jtis'
<1>1. /\ clock \in Nat /\ JtiOf[tok] \in Jti /\ ExpOf[tok] \in Nat
      /\ acceptedAt'[r] = clock /\ call'[r].token = tok /\ call'[r].life = restarts
      /\ replayed'[JtiOf[tok]] = ExpOf[tok]
      /\ \A s \in Request \ {r} : acceptedAt'[s] = acceptedAt[s] /\ call'[s] = call[s]
      /\ \A j \in Jti \ {JtiOf[tok]} : replayed'[j] = Unexpired[j]
  BY MemoryAssumption DEF Keys, Types, Unexpired
<1>2. \A j \in Jti : (replayed[j] \in Nat /\ replayed[j] > clock) => Unexpired[j] = replayed[j]
  BY MemoryAssumption DEF Unexpired, Kept
<1>3. ASSUME NEW s \in Request, s # r, acceptedAt[s] # None
      PROVE  /\ acceptedAt[s] <= clock /\ ExpOf[call[s].token] \in Nat
             /\ JtiOf[call[s].token] \in Jti
             /\ (call[s].life = restarts /\ ExpOf[call[s].token] > clock) =>
                   /\ replayed[JtiOf[call[s].token]] = ExpOf[call[s].token]
                   /\ Unexpired[JtiOf[call[s].token]] = ExpOf[call[s].token]
                   /\ JtiOf[call[s].token] # JtiOf[tok]
  <2>1. call[s] \in Called BY <1>3 DEF Keys, Types, Placed
  <2>2. JtiOf[call[s].token] \in Jti /\ ExpOf[call[s].token] \in Nat
    BY <2>1, MemoryAssumption DEF Called
  <2>3. /\ acceptedAt[s] <= clock
        /\ (call[s].life = restarts /\ ExpOf[call[s].token] > clock) =>
              replayed[JtiOf[call[s].token]] = ExpOf[call[s].token]
    BY <1>3 DEF Jtis, JtisKept
  <2>4. None \notin Nat BY MemoryAssumption
  <2> QED BY <2>2, <2>3, <2>4, <1>2
<1>4. JtisKept'
  <2>1. ASSUME NEW s \in Request, acceptedAt'[s] # None
        PROVE  /\ acceptedAt'[s] <= clock
               /\ (call'[s].life = restarts /\ ExpOf[call'[s].token] > clock) =>
                     replayed'[JtiOf[call'[s].token]] = ExpOf[call'[s].token]
    <3>1. CASE s = r BY <3>1, <1>1
    <3>2. CASE s # r BY <2>1, <3>2, <1>1, <1>3
    <3> QED BY <3>1, <3>2
  <2> QED BY <2>1 DEF JtisKept
<1>5. OncePerJti'
  <2>1. ASSUME NEW s \in Request, s # r, acceptedAt'[s] # None, call'[s].life = restarts,
               JtiOf[call'[s].token] = JtiOf[tok]
        PROVE  clock >= ExpOf[call'[s].token]
    BY <2>1, <1>1, <1>3
  <2>2. ASSUME NEW s \in Request, NEW t \in Request, s # t,
               acceptedAt'[s] # None, acceptedAt'[t] # None, call'[s].life = call'[t].life,
               JtiOf[call'[s].token] = JtiOf[call'[t].token]
        PROVE  \/ acceptedAt'[t] >= ExpOf[call'[s].token]
               \/ acceptedAt'[s] >= ExpOf[call'[t].token]
    <3>1. CASE s = r BY <2>1, <2>2, <3>1, <1>1
    <3>2. CASE t = r BY <2>1, <2>2, <3>2, <1>1
    <3>3. CASE s # r /\ t # r
      BY <2>2, <3>3, <1>1 DEF Jtis, OncePerJti, SameLife
    <3> QED BY <3>1, <3>2, <3>3
  <2> QED BY <2>2 DEF OncePerJti, SameLife
<1> QED BY <1>4, <1>5 DEF Jtis

LEMMA NextJtis == Keys /\ Jtis /\ [Next]_vars => Jtis'
<1> SUFFICES ASSUME Keys, Jtis, [Next]_vars PROVE Jtis' OBVIOUS
<1>1. clock \in Nat /\ restarts \in Nat BY DEF Keys, Types
<1>2. CASE UNCHANGED vars \/ Tick
  <2>1. /\ UNCHANGED <<restarts, replayed, call, acceptedAt>>
        /\ clock' \in Nat /\ clock <= clock'
    BY <1>1, <1>2 DEF vars, storeVars, history, Tick
  <2> QED BY <1>1, <2>1, QuietJtis
<1>3. CASE Restart
  <2>1. /\ UNCHANGED <<clock, call, acceptedAt>> /\ restarts' = restarts + 1
    BY <1>3 DEF Restart, history
  <2> QED BY <1>1, <2>1, QuietJtis
<1>4. ASSUME NEW r \in Request, ProviderReplies(r) \/ ProviderFails(r) PROVE Jtis'
  <2>1. UNCHANGED <<clock, restarts, replayed, call, acceptedAt>>
    BY <1>4 DEF ProviderReplies, ProviderFails, history
  <2> QED BY <1>1, <2>1, QuietJtis
<1>5. ASSUME NEW r \in Request, Begin(r) PROVE Jtis'
  <2>1. /\ UNCHANGED <<clock, restarts>> /\ pc[r] = "idle" BY <1>5 DEF Begin
  <2>2. PICK b \in Body, tok \in TokensOf[r] :
          \/ /\ replayed' = replayed \/ replayed' = Unexpired
             /\ UNCHANGED acceptedAt
             /\ call' = call \/ call' = [call EXCEPT ![r] =
                                   [body |-> b, token |-> tok, life |-> restarts]]
          \/ /\ ExpOf[tok] > clock
             /\ Unexpired[JtiOf[tok]] = None
             /\ replayed' = [Unexpired EXCEPT ![JtiOf[tok]] = ExpOf[tok]]
             /\ call' = [call EXCEPT ![r] = [body |-> b, token |-> tok, life |-> restarts]]
             /\ acceptedAt' = [acceptedAt EXCEPT ![r] = clock]
    BY <1>5 DEF Begin, Unidentified, Enter
  <2>3. tok \in Token BY MemoryAssumption
  <2>4. acceptedAt[r] = None BY <2>1 DEF Keys, Placed
  <2>5. CASE /\ replayed' = replayed \/ replayed' = Unexpired
             /\ UNCHANGED acceptedAt
             /\ call' = call \/ call' = [call EXCEPT ![r] =
                                   [body |-> b, token |-> tok, life |-> restarts]]
    <3>1. \A j \in Jti : (replayed[j] \in Nat /\ replayed[j] > clock) => replayed'[j] = replayed[j]
      BY <2>5, MemoryAssumption DEF Unexpired, Kept
    <3>2. \A s \in Request : acceptedAt[s] # None => call'[s] = call[s]
      BY <2>4, <2>5 DEF Keys, Types
    <3> QED BY <1>1, <2>1, <2>5, <3>1, <3>2, QuietJtis
  <2> QED BY <2>1, <2>2, <2>3, <2>4, <2>5, AcceptJtis
<1> QED BY <1>2, <1>3, <1>4, <1>5 DEF Next, Terminating

LEMMA MemoryHolds == Spec => [](Keys /\ Jtis)
  BY InitMemory, NextKeys, NextJtis, PTL DEF Spec

\* execute's lookup and MemoryStore.put, without a claim: a key is run again only
\* by a call that arrived before the earlier run was answered.
THEOREM RerunsOverlapHolds == Spec => []RerunsOverlap
<1>1. Keys => RerunsOverlap BY DEF Keys
<1> QED BY <1>1, MemoryHolds, PTL

\* What a key answers in one life of the process differs only between runs that
\* overlapped, though put replaces what is there.
THEOREM AnswersDifferOnlyByOverlapHolds == Spec => []AnswersDifferOnlyByOverlap
<1>1. Keys => AnswersDifferOnlyByOverlap BY KeysImply
<1> QED BY <1>1, MemoryHolds, PTL

\* claim_jti, which drops what has expired as it looks: in one life a jti is
\* accepted again only from the expiry of the token that had it.
THEOREM OncePerJtiHolds == Spec => []OncePerJti
<1>1. Jtis => OncePerJti BY DEF Jtis
<1> QED BY <1>1, MemoryHolds, PTL

-----------------------------------------------------------------------------
(* What a step does to the rate limit's stamps, the usage and the history *)

\* A call is answered without being counted; it is refused for the rate; or it
\* gets past it, and then waits for a provider only with budget left.
Unmetered(r) ==
    /\ times' = times /\ passedAt' = passedAt /\ before' = before
    /\ pc'[r] = "done" /\ answer'[r].code # "RATE_LIMITED"

TurnedAway(r, b) ==
    /\ Known(r, b) /\ RateLimit[TaskOf[b]] > 0 /\ ~Allowed(TaskOf[b])
    /\ times' = Counted(r, TaskOf[b]) /\ passedAt' = passedAt /\ before' = before
    /\ pc'[r] = "done"

Passes(r, b) ==
    /\ Known(r, b) /\ (RateLimit[TaskOf[b]] > 0 => Allowed(TaskOf[b]))
    /\ times' = Counted(r, TaskOf[b]) /\ passedAt' = [passedAt EXCEPT ![r] = clock]
    /\ \/ pc'[r] = "done" /\ answer'[r].code = "OK"
       \/ pc'[r] = "call" /\ answer' = answer /\ ~BudgetExhausted(TaskOf[b])

Metered(r) == Unmetered(r) \/ \E b \in Body : TurnedAway(r, b) \/ Passes(r, b)

LEMMA SayDone ==
  ASSUME Types, NEW r \in Request, NEW code, NEW p, Say(r, code, p)
  PROVE  pc'[r] = "done" /\ answer'[r].code = code
<1>1. answer'[r] = [code |-> code, response |-> p] /\ pc'[r] = "done" BY DEF Types, Say
<1> QED BY <1>1

LEMMA AdmitMeters ==
  ASSUME Types, NEW r \in Request, NEW b \in Body, Admit(r, b), Known(r, b)
  PROVE  Metered(r)
<1>1. ASSUME NEW code \in {"OK", "REFUSED", "IDEMPOTENCY_CONFLICT"}, NEW p, Refuse(r, code, p),
             times' = times
      PROVE  Unmetered(r)
  <2>1. Say(r, code, p) /\ passedAt' = passedAt /\ before' = before BY <1>1 DEF Refuse
  <2> QED BY <1>1, <2>1, SayDone DEF Unmetered
<1>2. CASE /\ times' = Counted(r, TaskOf[b])
           /\ RateLimit[TaskOf[b]] > 0 /\ ~Allowed(TaskOf[b])
           /\ Refuse(r, "RATE_LIMITED", None)
  <2>1. Say(r, "RATE_LIMITED", None) /\ passedAt' = passedAt /\ before' = before
    BY <1>2 DEF Refuse
  <2>2. pc'[r] = "done" BY <2>1, SayDone
  <2>3. TurnedAway(r, b) BY <1>2, <2>1, <2>2 DEF TurnedAway
  <2> QED BY <2>3 DEF Metered
<1>3. CASE /\ times' = Counted(r, TaskOf[b])
           /\ RateLimit[TaskOf[b]] > 0 => Allowed(TaskOf[b])
           /\ Run(r, b)
  <2>1. ASSUME NEW p, PutAndSay(r, b, p) PROVE pc'[r] = "done" /\ answer'[r].code = "OK"
    BY <2>1, SayDone DEF PutAndSay
  <2>2. \/ pc'[r] = "done" /\ answer'[r].code = "OK"
        \/ pc'[r] = "call" /\ answer' = answer /\ ~BudgetExhausted(TaskOf[b])
    <3>1. CASE PutAndSay(r, b, Build(r, "budget_exhausted", None, None))
      BY <2>1, <3>1
    <3>2. CASE ~BudgetExhausted(TaskOf[b]) /\ TryOrEnd(r, b, 1, "provider_unavailable")
      <4>1. CASE PutAndSay(r, b, Build(r, "provider_unavailable", None, None))
        BY <2>1, <4>1
      <4>2. CASE pc' = [pc EXCEPT ![r] = "call"] /\ UNCHANGED <<records, answer>>
        BY <3>2, <4>2 DEF Types
      <4> QED BY <3>2, <4>1, <4>2 DEF TryOrEnd
    <3> QED BY <1>3, <3>1, <3>2 DEF Run
  <2>3. Passes(r, b) BY <1>3, <2>2 DEF Passes, Run
  <2> QED BY <2>3 DEF Metered
<1>4. \/ \E code \in {"OK", "REFUSED", "IDEMPOTENCY_CONFLICT"}, p \in {None, records[KeyOf[b]].response} :
            Refuse(r, code, p) /\ times' = times
      \/ /\ times' = Counted(r, TaskOf[b])
         /\ RateLimit[TaskOf[b]] > 0 /\ ~Allowed(TaskOf[b])
         /\ Refuse(r, "RATE_LIMITED", None)
      \/ /\ times' = Counted(r, TaskOf[b])
         /\ RateLimit[TaskOf[b]] > 0 => Allowed(TaskOf[b])
         /\ Run(r, b)
  BY DEF Admit, Replay
<1> QED BY <1>1, <1>2, <1>3, <1>4 DEF Metered

LEMMA BeginMeters ==
  ASSUME Keys, NEW r \in Request, Begin(r)
  PROVE  /\ Alone(r) /\ Metered(r) /\ pc[r] = "idle" /\ usage' = usage
         /\ acceptedAt' = acceptedAt \/ acceptedAt' = [acceptedAt EXCEPT ![r] = clock]
<1>1. Alone(r) BY BeginTells DEF Keys
<1>2. pc[r] = "idle" /\ usage' = usage BY DEF Begin
<1>3. PICK b \in Body, tok \in TokensOf[r] :
        \/ /\ Refuse(r, "UNAUTHORIZED", None)
           /\ UNCHANGED <<times, acceptedAt>>
        \/ /\ call' = [call EXCEPT ![r] = [body |-> b, token |-> tok, life |-> restarts]]
           /\ acceptedAt' = acceptedAt \/ acceptedAt' = [acceptedAt EXCEPT ![r] = clock]
           /\ Admit(r, b)
  BY DEF Begin, Unidentified, Enter
<1>4. CASE /\ Refuse(r, "UNAUTHORIZED", None)
           /\ UNCHANGED <<times, acceptedAt>>
  <2>1. Say(r, "UNAUTHORIZED", None) /\ passedAt' = passedAt /\ before' = before
    BY <1>4 DEF Refuse
  <2>2. pc'[r] = "done" /\ answer'[r].code = "UNAUTHORIZED" BY <2>1, SayDone DEF Keys
  <2>3. Unmetered(r) BY <1>4, <2>1, <2>2 DEF Unmetered
  <2> QED BY <1>1, <1>2, <1>4, <2>3 DEF Metered
<1>5. CASE /\ call' = [call EXCEPT ![r] = [body |-> b, token |-> tok, life |-> restarts]]
           /\ acceptedAt' = acceptedAt \/ acceptedAt' = [acceptedAt EXCEPT ![r] = clock]
           /\ Admit(r, b)
  <2>1. [body |-> b, token |-> tok, life |-> restarts] \in Called
    BY MemoryAssumption DEF Called, Keys, Types
  <2>2. Known(r, b) BY <1>5, <2>1 DEF Known, Keys, Types
  <2> QED BY <1>1, <1>2, <1>5, <2>2, AdmitMeters DEF Keys
<1> QED BY <1>3, <1>4, <1>5

\* A provider's return adds a row at most, and no answer for the rate.
LEMMA ProviderMeters ==
  ASSUME Keys, NEW r \in Request, ProviderReplies(r) \/ ProviderFails(r)
  PROVE  /\ Alone(r) /\ pc[r] = "call"
         /\ UNCHANGED <<clock, restarts, times, call, acceptedAt, passedAt, before>>
         /\ answer'[r] = answer[r] \/ answer'[r].code = "OK"
         /\ \/ usage' = usage
            \/ \E c \in Cost : usage' = usage \cup
                  {[call |-> r, task |-> TaskFor(r), attempts |-> attempt[r], cost |-> c]}
<1>1. Alone(r) BY ProviderTells DEF Keys
<1>2. /\ pc[r] = "call"
      /\ UNCHANGED <<clock, restarts, times, call, acceptedAt, passedAt, before>>
      /\ \/ usage' = usage
         \/ \E c \in Cost : usage' = usage \cup
               {[call |-> r, task |-> TaskFor(r), attempts |-> attempt[r], cost |-> c]}
  BY DEF ProviderReplies, ProviderFails, history
<1>3. \/ \E p : PutAndSay(r, BodyOf(r), p)
      \/ answer' = answer
  BY DEF ProviderReplies, ProviderFails, TryOrEnd
<1>4. ASSUME NEW p, PutAndSay(r, BodyOf(r), p) PROVE answer'[r].code = "OK"
  BY <1>4, SayDone DEF PutAndSay, Keys
<1> QED BY <1>1, <1>2, <1>3, <1>4


-----------------------------------------------------------------------------
(* The types that Types leaves out *)

Row == [call : Request, task : Task, attempts : Nat \ {0}, cost : Nat]

Rest ==
    /\ clock \in Time /\ restarts \in 0 .. MaxRestarts
    /\ usage \subseteq Row
    /\ times \in [Task -> SUBSET [call : Request, at : Time]]
    /\ acceptedAt \in [Request -> Time \cup {None}]
    /\ passedAt \in [Request -> Time \cup {None}]

LEMMA CountedTyped ==
  ASSUME Rest, NEW r \in Request, NEW t \in Task
  PROVE  Counted(r, t) \in [Task -> SUBSET [call : Request, at : Time]]
<1>1. Recent(t) \subseteq [call : Request, at : Time] BY DEF Rest, Recent
<1>2. [call |-> r, at |-> clock] \in [call : Request, at : Time] BY DEF Rest
<1>3. WithNow(r, t) \subseteq [call : Request, at : Time] BY <1>1, <1>2 DEF WithNow
<1> QED BY <1>1, <1>3 DEF Counted, Rest

LEMMA NextRest == Keys /\ Rest /\ [Next]_vars => Rest'
<1> SUFFICES ASSUME Keys, Rest, [Next]_vars PROVE Rest' OBVIOUS
<1>1. CASE UNCHANGED vars \/ Tick
  BY <1>1, MemoryAssumption DEF vars, storeVars, history, Tick, Rest, Time
<1>2. CASE Restart
  BY <1>2, MemoryAssumption DEF Restart, history, Rest
<1>3. ASSUME NEW r \in Request, ProviderReplies(r) \/ ProviderFails(r) PROVE Rest'
  <2>1. /\ UNCHANGED <<clock, restarts, times, acceptedAt, passedAt>> /\ pc[r] = "call"
        /\ \/ usage' = usage
           \/ \E c \in Cost : usage' = usage \cup
                 {[call |-> r, task |-> TaskFor(r), attempts |-> attempt[r], cost |-> c]}
    BY <1>3, ProviderMeters
  <2>2. attempt[r] \in Nat \ {0} /\ TaskFor(r) \in Task
    <3>1. Placed(r) BY DEF Keys
    <3>2. attempt[r] \in 1 .. Len(OrderedModels[TaskFor(r)]) /\ call[r] # None
      BY <2>1, <3>1 DEF Placed
    <3>3. call[r] \in Called BY <3>2 DEF Keys, Types
    <3>4. call[r].body \in Body BY <3>3 DEF Called
    <3>5. TaskFor(r) \in Task BY <3>4, MemoryAssumption DEF TaskFor, BodyOf
    <3>6. OrderedModels[TaskFor(r)] \in Seq(Model) BY <3>5, MemoryAssumption
    <3> QED BY <3>2, <3>5, <3>6
  <2>3. ASSUME NEW c \in Cost
        PROVE  [call |-> r, task |-> TaskFor(r), attempts |-> attempt[r], cost |-> c] \in Row
    <3>1. c \in Nat BY MemoryAssumption
    <3> QED BY <2>2, <3>1 DEF Row
  <2>4. usage' \subseteq Row BY <2>1, <2>3 DEF Rest
  <2> QED BY <2>1, <2>4 DEF Rest
<1>4. ASSUME NEW r \in Request, Begin(r) PROVE Rest'
  <2>1. /\ Alone(r) /\ Metered(r) /\ usage' = usage
        /\ acceptedAt' = acceptedAt \/ acceptedAt' = [acceptedAt EXCEPT ![r] = clock]
    BY <1>4, BeginMeters
  <2>2. ASSUME NEW b \in Body
        PROVE  Counted(r, TaskOf[b]) \in [Task -> SUBSET [call : Request, at : Time]]
    BY MemoryAssumption, CountedTyped
  <2>3. times' \in [Task -> SUBSET [call : Request, at : Time]]
    BY <2>1, <2>2 DEF Metered, Unmetered, TurnedAway, Passes, Rest
  <2>4. passedAt' \in [Request -> Time \cup {None}]
    BY <2>1 DEF Metered, Unmetered, TurnedAway, Passes, Rest
  <2>5. acceptedAt' \in [Request -> Time \cup {None}]
    BY <2>1 DEF Rest
  <2> QED BY <2>1, <2>3, <2>4, <2>5 DEF Rest, Alone
<1> QED BY <1>1, <1>2, <1>3, <1>4 DEF Next, Terminating

LEMMA InitRest == Init => Rest
  BY MemoryAssumption DEF Init, EmptyStore, Rest, Time

LEMMA RestHolds == Spec => []Rest
<1>1. Spec => []Keys BY MemoryHolds, PTL
<1> QED BY <1>1, InitRest, NextRest, PTL DEF Spec

\* Every variable keeps its type: an attempt is recorded only for a model of the
\* task's list, so a row of the usage has at least one.
THEOREM MemoryTypeOK == Spec => []TypeOK
<1>1. Keys /\ Rest => TypeOK
  BY DEF Keys, Types, Rest, TypeOK, Entry, Called, Row
<1> QED BY <1>1, MemoryHolds, RestHolds, PTL

-----------------------------------------------------------------------------
(* The rate limit *)

\* The calls of this life that got past the limit of task t after the clock's
\* last Window.
Passed(t) == {r \in Request : /\ Ran(r) /\ TaskFor(r) = t /\ call[r].life = restarts
                              /\ passedAt[r] > clock - Window}

\* A stamp is of a call that got past the limit then; and one young enough to
\* count has not been pruned.
StampsOfCalls ==
    /\ \A t \in Task : IsFiniteSet(times[t])
    /\ \A r \in Request : Ran(r) => passedAt[r] <= clock
    /\ \A t \in Task : \A e \in times[t] :
          /\ Ran(e.call) /\ TaskFor(e.call) = t /\ call[e.call].life = restarts
          /\ passedAt[e.call] = e.at
    /\ \A t \in Task : \A r \in Passed(t) :
          RateLimit[t] > 0 => [call |-> r, at |-> passedAt[r]] \in times[t]

PassedWithin(t, c) ==
    {r \in Request : /\ Ran(r) /\ TaskFor(r) = t /\ call[r].life = restarts
                     /\ passedAt[r] \in (c - Window + 1) .. c}

Bounded ==
    \A t \in Task, c \in Time : RateLimit[t] > 0 =>
        IsFiniteSet(PassedWithin(t, c)) /\ Cardinality(PassedWithin(t, c)) <= RateLimit[t]

Rated == StampsOfCalls /\ Bounded

LEMMA BoundedImplies == Bounded => RateWindowBound
  BY DEF Bounded, RateWindowBound, PassedWithin

\* The stamps that count are as many as the calls.
LEMMA StampsCount ==
  ASSUME Keys, Rest, StampsOfCalls, NEW t \in Task, RateLimit[t] > 0
  PROVE  /\ IsFiniteSet(Passed(t)) /\ Cardinality(Passed(t)) = Cardinality(Recent(t))
         /\ Cardinality(Passed(t)) \in Nat
<1> DEFINE f == [e \in Recent(t) |-> e.call]
<1>1. IsFiniteSet(Recent(t)) BY FS_Subset DEF StampsOfCalls, Recent
<1>2. ASSUME NEW e \in Recent(t)
      PROVE  e.call \in Passed(t) /\ e = [call |-> e.call, at |-> passedAt[e.call]]
  <2>1. e \in times[t] /\ e.at > clock - Window BY DEF Recent
  <2>2. e \in [call : Request, at : Time] BY <2>1 DEF Rest
  <2>3. /\ Ran(e.call) /\ TaskFor(e.call) = t /\ call[e.call].life = restarts
        /\ passedAt[e.call] = e.at
    BY <2>1 DEF StampsOfCalls
  <2>4. e.call \in Passed(t) BY <2>1, <2>2, <2>3 DEF Passed
  <2> QED BY <2>2, <2>3, <2>4
<1>3. ASSUME NEW r \in Passed(t)
      PROVE  \E e \in Recent(t) : f[e] = r
  <2> DEFINE e == [call |-> r, at |-> passedAt[r]]
  <2>1. e \in times[t] /\ passedAt[r] > clock - Window BY DEF StampsOfCalls, Passed
  <2>2. e \in Recent(t) BY <2>1 DEF Recent
  <2>3. f[e] = r BY <2>2
  <2> QED BY <2>2, <2>3
<1>4. f \in Bijection(Recent(t), Passed(t))
  <2>1. f \in [Recent(t) -> Passed(t)] BY <1>2
  <2>2. \A a, b \in Recent(t) : f[a] = f[b] => a = b BY <1>2
  <2>3. f \in Injection(Recent(t), Passed(t)) BY <2>1, <2>2, Fun_IsInj
  <2>4. f \in Surjection(Recent(t), Passed(t)) BY <2>1, <1>3, Fun_IsSurj
  <2> QED BY <2>3, <2>4 DEF Bijection
<1>5. ExistsBijection(Recent(t), Passed(t)) BY <1>4 DEF ExistsBijection
<1> QED BY <1>1, <1>5, FS_Bijection, FS_CardinalityType

\* A step that lets no call past the limit and drops no stamp that counts.
LEMMA QuietRated ==
  ASSUME Keys, Rest, Rated, Rest', UNCHANGED <<passedAt, restarts>>, clock <= clock',
         \A s \in Request : Ran(s) => call'[s] = call[s],
         \A t \in Task : times'[t] \in {times[t], Recent(t)}
  PROVE  Rated'
<1>0. clock \in Int /\ clock' \in Int /\ Window \in Int
  BY MemoryAssumption DEF Rest, Time
<1>1. ASSUME NEW s \in Request
      PROVE  /\ Ran(s)' <=> Ran(s)
             /\ Ran(s) => /\ passedAt[s] \in Int /\ passedAt'[s] = passedAt[s]
                          /\ call'[s] = call[s] /\ TaskFor(s)' = TaskFor(s)
  BY DEF Ran, TaskFor, BodyOf, Rest, Time
<1>2. ASSUME NEW t \in Task PROVE Passed(t)' \subseteq Passed(t)
  <2>1. ASSUME NEW s \in Passed(t)' PROVE s \in Passed(t)
    <3>1. /\ s \in Request /\ Ran(s)' /\ TaskFor(s)' = t /\ call'[s].life = restarts'
          /\ passedAt'[s] > clock' - Window
      BY <2>1 DEF Passed
    <3>2. /\ Ran(s) /\ TaskFor(s) = t /\ call[s].life = restarts /\ passedAt[s] \in Int
          /\ passedAt'[s] = passedAt[s]
      BY <1>1, <3>1
    <3>3. passedAt[s] > clock - Window BY <1>0, <3>1, <3>2
    <3> QED BY <3>1, <3>2, <3>3 DEF Passed
  <2> QED BY <2>1
<1>3. ASSUME NEW t \in Task, NEW c \in Time PROVE PassedWithin(t, c)' = PassedWithin(t, c)
  BY <1>1 DEF PassedWithin
<1>4. Bounded' BY <1>3 DEF Bounded, Rated
<1>5. \A t \in Task : IsFiniteSet(times'[t]) /\ times'[t] \subseteq times[t]
  BY FS_Subset DEF Rated, StampsOfCalls, Recent
<1>6. \A r \in Request : Ran(r)' => passedAt'[r] <= clock'
  BY <1>0, <1>1 DEF Rated, StampsOfCalls
<1>7. ASSUME NEW t \in Task, NEW e \in times'[t]
      PROVE  /\ Ran(e.call)' /\ TaskFor(e.call)' = t /\ call'[e.call].life = restarts'
             /\ passedAt'[e.call] = e.at
  <2>1. e \in times[t] BY <1>5
  <2>2. e.call \in Request BY <2>1 DEF Rest
  <2>3. /\ Ran(e.call) /\ TaskFor(e.call) = t /\ call[e.call].life = restarts
        /\ passedAt[e.call] = e.at
    BY <2>1 DEF Rated, StampsOfCalls
  <2> QED BY <1>1, <2>2, <2>3
<1>8. ASSUME NEW t \in Task, NEW r \in Passed(t)', RateLimit[t] > 0
      PROVE  [call |-> r, at |-> passedAt'[r]] \in times'[t]
  <2>1. r \in Passed(t) BY <1>2
  <2>2. passedAt'[r] = passedAt[r] /\ passedAt[r] > clock - Window
    BY <2>1 DEF Passed
  <2>3. [call |-> r, at |-> passedAt[r]] \in times[t]
    BY <1>8, <2>1 DEF Rated, StampsOfCalls
  <2>4. [call |-> r, at |-> passedAt[r]] \in Recent(t)
    BY <2>2, <2>3 DEF Recent
  <2> QED BY <2>2, <2>3, <2>4
<1>9. StampsOfCalls' BY <1>5, <1>6, <1>7, <1>8 DEF StampsOfCalls
<1> QED BY <1>4, <1>9 DEF Rated

\* A call that gets past the limit of task t: those it is counted with are fewer
\* than the limit says.
LEMMA PassRated ==
  ASSUME Keys, Rest, Rated, Rest', NEW r \in Request, NEW b \in Body, Passes(r, b),
         Alone(r), ~Ran(r)
  PROVE  Rated'
<1> DEFINE t == TaskOf[b]
<1>0. /\ clock \in Int /\ Window \in Int /\ Window > 0 /\ clock' = clock /\ restarts' = restarts
      /\ t \in Task /\ RateLimit[t] \in Int
  BY MemoryAssumption DEF Rest, Time, Alone
<1>1. /\ Ran(r)' /\ TaskFor(r)' = t /\ call'[r].life = restarts /\ passedAt'[r] = clock
      /\ passedAt' = [passedAt EXCEPT ![r] = clock] /\ times' = Counted(r, t)
      /\ RateLimit[t] > 0 => Allowed(t)
  <2>1. passedAt' = [passedAt EXCEPT ![r] = clock] /\ passedAt'[r] = clock
    BY DEF Passes, Rest
  <2>2. clock # None BY <1>0, MemoryAssumption
  <2> QED BY <2>1, <2>2 DEF Passes, Known, TaskFor, BodyOf, Ran
<1>2. ASSUME NEW s \in Request, s # r
      PROVE  /\ Ran(s)' <=> Ran(s)
             /\ TaskFor(s)' = TaskFor(s) /\ call'[s] = call[s] /\ passedAt'[s] = passedAt[s]
             /\ Ran(s) => passedAt[s] \in Int
  BY <1>2 DEF Alone, Ran, TaskFor, BodyOf, Rest, Time
<1> HIDE DEF t
<1>3. \A u \in Task \ {t} : times'[u] = times[u]
  BY <1>1 DEF Counted, Rest
<1>4. /\ RateLimit[t] > 0 => times'[t] = WithNow(r, t)
      /\ ~(RateLimit[t] > 0) => times'[t] = times[t]
  BY <1>0, <1>1 DEF Counted, Rest
<1>5. \A u \in Task : IsFiniteSet(times'[u])
  <2>1. IsFiniteSet(WithNow(r, t))
    BY <1>0, FS_Subset, FS_AddElement DEF WithNow, Recent, Rated, StampsOfCalls
  <2> QED BY <1>3, <1>4, <2>1 DEF Rated, StampsOfCalls
<1>6. \A s \in Request : Ran(s)' => passedAt'[s] <= clock'
  BY <1>0, <1>1, <1>2 DEF Rated, StampsOfCalls
<1>7. ASSUME NEW u \in Task, NEW e \in times'[u]
      PROVE  /\ Ran(e.call)' /\ TaskFor(e.call)' = u /\ call'[e.call].life = restarts'
             /\ passedAt'[e.call] = e.at
  <2>1. CASE e \in times[u]
    <3>1. /\ Ran(e.call) /\ TaskFor(e.call) = u /\ call[e.call].life = restarts
          /\ passedAt[e.call] = e.at
      BY <2>1 DEF Rated, StampsOfCalls
    <3>2. e.call \in Request /\ e.call # r BY <2>1, <3>1 DEF Rest
    <3> QED BY <1>0, <1>2, <3>1, <3>2
  <2>2. CASE u = t /\ e = [call |-> r, at |-> clock]
    <3>1. e.call = r /\ e.at = clock BY <2>2
    <3> QED BY <1>0, <1>1, <2>2, <3>1
  <2> QED BY <1>3, <1>4, <1>7, <2>1, <2>2 DEF WithNow, Recent
<1>8. ASSUME NEW u \in Task, NEW s \in Passed(u)', RateLimit[u] > 0
      PROVE  [call |-> s, at |-> passedAt'[s]] \in times'[u]
  <2>1. /\ s \in Request /\ Ran(s)' /\ TaskFor(s)' = u /\ call'[s].life = restarts'
        /\ passedAt'[s] > clock' - Window
    BY DEF Passed
  <2>2. CASE s = r
    <3>1. u = t /\ passedAt'[s] = clock BY <1>1, <2>1, <2>2
    <3> QED BY <1>4, <1>8, <2>2, <3>1 DEF WithNow
  <2>3. CASE s # r
    <3>1. s \in Passed(u) /\ passedAt'[s] = passedAt[s] /\ passedAt[s] > clock - Window
      BY <1>0, <1>2, <2>1, <2>3 DEF Passed
    <3>2. [call |-> s, at |-> passedAt[s]] \in times[u]
      BY <1>8, <3>1 DEF Rated, StampsOfCalls
    <3>3. [call |-> s, at |-> passedAt[s]] \in Recent(u)
      BY <3>1, <3>2 DEF Recent
    <3> QED BY <1>3, <1>4, <1>8, <3>1, <3>2, <3>3 DEF WithNow
  <2> QED BY <2>2, <2>3
<1>9. StampsOfCalls' BY <1>5, <1>6, <1>7, <1>8 DEF StampsOfCalls
<1>10. ASSUME NEW u \in Task, NEW c \in Time, RateLimit[u] > 0
       PROVE  /\ IsFiniteSet(PassedWithin(u, c)')
              /\ Cardinality(PassedWithin(u, c)') <= RateLimit[u]
  <2>0. IsFiniteSet(PassedWithin(u, c)) /\ Cardinality(PassedWithin(u, c)) <= RateLimit[u]
    BY <1>10 DEF Rated, Bounded
  <2>1. CASE ~(u = t /\ clock \in (c - Window + 1) .. c)
    <3>1. PassedWithin(u, c)' = PassedWithin(u, c)
      <4>1. r \notin PassedWithin(u, c) /\ r \notin PassedWithin(u, c)'
        BY <1>1, <2>1 DEF PassedWithin
      <4>2. \A s \in Request \ {r} : s \in PassedWithin(u, c)' <=> s \in PassedWithin(u, c)
        BY <1>0, <1>2 DEF PassedWithin
      <4> QED BY <4>1, <4>2 DEF PassedWithin
    <3> QED BY <2>0, <3>1
  <2>2. CASE u = t /\ clock \in (c - Window + 1) .. c
    <3>1. PassedWithin(u, c)' = PassedWithin(u, c) \cup {r}
      <4>1. r \in PassedWithin(u, c)'
        BY <1>0, <1>1, <2>2 DEF PassedWithin
      <4>2. \A s \in Request \ {r} : s \in PassedWithin(u, c)' <=> s \in PassedWithin(u, c)
        BY <1>0, <1>2 DEF PassedWithin
      <4> QED BY <4>1, <4>2 DEF PassedWithin
    <3>2. r \notin PassedWithin(u, c) BY DEF PassedWithin
    <3>3. PassedWithin(u, c) \subseteq Passed(u)
      BY <1>0, <2>2 DEF PassedWithin, Passed, Rest, Time
    <3>4. /\ IsFiniteSet(Passed(u)) /\ Cardinality(Passed(u)) = Cardinality(Recent(u))
          /\ Cardinality(Passed(u)) \in Nat
      BY <1>10, StampsCount DEF Rated
    <3>5. Cardinality(PassedWithin(u, c)) <= Cardinality(Passed(u))
      BY <3>3, <3>4, FS_Subset
    <3>6. Cardinality(Recent(u)) < RateLimit[u]
      BY <1>1, <1>10, <2>2 DEF Allowed
    <3>7. Cardinality(PassedWithin(u, c)) \in Nat BY <2>0, FS_CardinalityType
    <3>8. Cardinality(PassedWithin(u, c) \cup {r}) = Cardinality(PassedWithin(u, c)) + 1
      BY <2>0, <3>2, FS_AddElement
    <3>9. RateLimit[u] \in Int BY <1>0, <2>2
    <3>10. IsFiniteSet(PassedWithin(u, c) \cup {r}) BY <2>0, FS_AddElement
    <3> QED BY <3>1, <3>4, <3>5, <3>6, <3>7, <3>8, <3>9, <3>10
  <2> QED BY <2>1, <2>2
<1>11. Bounded' BY <1>10 DEF Bounded
<1> QED BY <1>9, <1>11 DEF Rated

LEMMA RestartRated ==
  ASSUME Keys, Rest, Rated, Restart
  PROVE  Rated'
<1>1. /\ restarts \in Nat /\ restarts' = restarts + 1 /\ times' = [t \in Task |-> {}]
      /\ UNCHANGED <<clock, call, passedAt>>
  BY DEF Keys, Types, Restart, history
<1>2. ASSUME NEW r \in Request, Ran(r)' PROVE call'[r].life # restarts'
  <2>1. Ran(r) /\ Placed(r) BY <1>1, <1>2 DEF Ran, Keys
  <2>2. call[r] # None /\ call[r].life <= restarts BY <2>1 DEF Placed
  <2>3. call[r] \in Called BY <2>2 DEF Keys, Types
  <2>4. call[r].life \in Nat BY <2>3 DEF Called
  <2> QED BY <1>1, <2>2, <2>4
<1>3. \A t \in Task : Passed(t)' = {} /\ \A c \in Time : PassedWithin(t, c)' = {}
  BY <1>2 DEF Passed, PassedWithin
<1>4. Bounded'
  <2>1. IsFiniteSet({}) /\ Cardinality({}) = 0 BY FS_EmptySet
  <2>2. \A t \in Task : RateLimit[t] \in Int BY MemoryAssumption
  <2> QED BY <1>3, <2>1, <2>2 DEF Bounded
<1>5. /\ \A t \in Task : times'[t] = {} /\ IsFiniteSet(times'[t])
      /\ \A t \in Task : Passed(t)' = {}
  BY <1>1, <1>3, FS_EmptySet
<1>6. \A r \in Request : Ran(r)' => passedAt'[r] <= clock'
  BY <1>1 DEF Rated, StampsOfCalls, Ran
<1> QED BY <1>4, <1>5, <1>6 DEF Rated, StampsOfCalls

LEMMA NextRated == Keys /\ Rest /\ Rated /\ [Next]_vars => Rated'
<1> SUFFICES ASSUME Keys, Rest, Rated, [Next]_vars PROVE Rated' OBVIOUS
<1>0. Rest' /\ clock \in Int BY NextRest DEF Rest, Time
<1>1. CASE UNCHANGED vars \/ Tick
  <2>1. UNCHANGED <<restarts, times, call, passedAt>> /\ clock <= clock'
    BY <1>0, <1>1 DEF vars, storeVars, history, Tick
  <2> QED BY <1>0, <2>1, QuietRated
<1>2. CASE Restart
  BY <1>2, RestartRated
<1>3. ASSUME NEW r \in Request, ProviderReplies(r) \/ ProviderFails(r) PROVE Rated'
  <2>1. UNCHANGED <<clock, restarts, times, call, passedAt>>
    BY <1>3, ProviderMeters
  <2> QED BY <1>0, <2>1, QuietRated
<1>4. ASSUME NEW r \in Request, Begin(r) PROVE Rated'
  <2>1. Alone(r) /\ Metered(r) /\ pc[r] = "idle" BY <1>4, BeginMeters
  <2>2. Placed(r) /\ ~Ran(r) BY <2>1 DEF Keys, Placed
  <2>3. ASSUME passedAt' = passedAt, \A t \in Task : times'[t] \in {times[t], Recent(t)}
        PROVE  Rated'
    BY <1>0, <2>1, <2>2, <2>3, QuietRated DEF Alone
  <2>4. CASE Unmetered(r)
    BY <2>3, <2>4 DEF Unmetered
  <2>5. ASSUME NEW b \in Body, TurnedAway(r, b) PROVE Rated'
    <3>1. \A t \in Task : times'[t] \in {times[t], Recent(t)}
      BY <2>5 DEF TurnedAway, Counted, Rest
    <3> QED BY <2>3, <2>5, <3>1 DEF TurnedAway
  <2>6. ASSUME NEW b \in Body, Passes(r, b) PROVE Rated'
    BY <1>0, <2>1, <2>2, <2>6, PassRated
  <2> QED BY <2>1, <2>4, <2>5, <2>6 DEF Metered
<1> QED BY <1>1, <1>2, <1>3, <1>4 DEF Next, Terminating

LEMMA InitRated == Init => Rated
<1> SUFFICES ASSUME Init PROVE Rated OBVIOUS
<1>1. /\ \A r \in Request : ~Ran(r)
      /\ \A t \in Task : times[t] = {}
  BY DEF Init, EmptyStore, Ran
<1>2. IsFiniteSet({}) /\ Cardinality({}) = 0 BY FS_EmptySet
<1>3. StampsOfCalls BY <1>1, <1>2 DEF StampsOfCalls, Passed
<1>4. \A t \in Task, c \in Time : PassedWithin(t, c) = {} BY <1>1 DEF PassedWithin
<1>5. \A t \in Task : RateLimit[t] \in Int BY MemoryAssumption
<1>6. Bounded BY <1>2, <1>4, <1>5 DEF Bounded
<1> QED BY <1>3, <1>6 DEF Rated

LEMMA RatedHolds == Spec => [](Keys /\ Rest /\ Rated)
<1>1. Spec => []Keys BY MemoryHolds, PTL
<1> QED BY <1>1, RestHolds, InitRated, NextRated, PTL DEF Spec

\* MemoryStore.allow_rate_limit is exact in one life of the process: no minute
\* sees more calls get past it than it says, whatever it prunes as it looks.
THEOREM MemoryRateWindowBound == Spec => []RateWindowBound
<1>1. Rated => RateWindowBound BY BoundedImplies DEF Rated
<1> QED BY <1>1, RatedHolds, PTL

\* A call that is refused for its rate finds exactly the limit of its task let
\* through in the minute before.
LEMMA RefusedStep == Keys /\ Rest /\ Rated /\ [Next]_vars =>
    \A r \in Request :
        (answer[r] = None /\ answer'[r] # None /\ answer'[r].code = "RATE_LIMITED") =>
           LET t == TaskOf[call'[r].body] IN Cardinality(Passed(t)) = RateLimit[t]
<1> SUFFICES ASSUME Keys, Rest, Rated, [Next]_vars, NEW r \in Request,
                    answer[r] = None, answer'[r] # None, answer'[r].code = "RATE_LIMITED"
             PROVE  Cardinality(Passed(TaskOf[call'[r].body])) = RateLimit[TaskOf[call'[r].body]]
  OBVIOUS
<1>1. ASSUME NEW b \in Body, TurnedAway(r, b)
      PROVE  Cardinality(Passed(TaskOf[call'[r].body])) = RateLimit[TaskOf[call'[r].body]]
  <2> DEFINE t == TaskOf[b]
  <2>1. /\ TaskOf[call'[r].body] = t /\ t \in Task /\ RateLimit[t] \in Int
        /\ RateLimit[t] > 0 /\ ~Allowed(t)
    BY <1>1, MemoryAssumption DEF TurnedAway, Known
  <2> HIDE DEF t
  <2>2. /\ IsFiniteSet(Passed(t)) /\ Cardinality(Passed(t)) = Cardinality(Recent(t))
        /\ Cardinality(Passed(t)) \in Nat
    BY <2>1, StampsCount DEF Rated
  <2>3. Cardinality(Passed(t)) >= RateLimit[t] BY <2>1, <2>2 DEF Allowed
  <2>4. Passed(t) = PassedWithin(t, clock)
    <3>1. clock \in Int /\ Window \in Int BY MemoryAssumption DEF Rest, Time
    <3>2. \A s \in Request : Ran(s) => passedAt[s] \in Int /\ passedAt[s] <= clock
      BY DEF Rated, StampsOfCalls, Rest, Time, Ran
    <3> QED BY <3>1, <3>2 DEF Passed, PassedWithin
  <2>5. Cardinality(PassedWithin(t, clock)) <= RateLimit[t]
    BY <2>1 DEF Rated, Bounded, Rest
  <2> QED BY <2>1, <2>2, <2>3, <2>4, <2>5
<1>2. ASSUME NEW s \in Request, Begin(s) PROVE s = r /\ \E b \in Body : TurnedAway(r, b)
  <2>1. Alone(s) /\ Metered(s) BY <1>2, BeginMeters
  <2>2. s = r BY <2>1 DEF Alone
  <2>3. ~Unmetered(r) BY DEF Unmetered
  <2>4. \A b \in Body : ~Passes(r, b) BY DEF Passes
  <2> QED BY <2>1, <2>2, <2>3, <2>4 DEF Metered
<1>3. ASSUME NEW s \in Request, ProviderReplies(s) \/ ProviderFails(s) PROVE FALSE
  <2>1. Alone(s) /\ (answer'[s] = answer[s] \/ answer'[s].code = "OK") BY <1>3, ProviderMeters
  <2> QED BY <2>1 DEF Alone
<1>4. CASE Restart
  <2>1. pc[r] = "call" /\ answer'[r] = [code |-> "INTERNAL_ERROR", response |-> None]
    BY <1>4 DEF Restart
  <2> QED BY <2>1
<1>5. CASE UNCHANGED vars \/ Tick
  BY <1>5 DEF vars, Tick
<1> QED BY <1>1, <1>2, <1>3, <1>4, <1>5 DEF Next, Terminating

\* MemoryStore.allow_rate_limit counts neither the call it judges nor those it
\* refused: a refusal means the minute before is full.
THEOREM RefusedAtLimitHolds == Spec => RefusedAtLimit
<1>1. Keys /\ Rest /\ Rated /\ [Next]_vars =>
        [\A r \in Request :
          (answer[r] = None /\ answer'[r] # None /\ answer'[r].code = "RATE_LIMITED") =>
             LET t == TaskOf[call'[r].body] IN
             Cardinality({s \in Request : /\ Ran(s) /\ TaskFor(s) = t
                                          /\ call[s].life = restarts
                                          /\ passedAt[s] > clock - Window}) = RateLimit[t]]_vars
  BY RefusedStep DEF Passed
<1> QED BY <1>1, RatedHolds, PTL DEF Spec, RefusedAtLimit

-----------------------------------------------------------------------------
(* The budget *)

\* What the calls answered before s began have cost its task.
Settled(s) == {u \in usage : u.task = TaskFor(s) /\ u.call \in before[s]}

Solvent(s) == Total(Settled(s)) < Budget[TaskFor(s)]

Budgeted ==
    /\ IsFiniteSet(usage)
    /\ \A u \in usage : pc[u.call] # "idle"
    /\ \A s \in Request : pc[s] = "call" \/ (\E u \in usage : u.call = s) => Solvent(s)

LEMMA BudgetedImplies == Budgeted => OverspentOnlyTogether
  BY DEF Budgeted, Solvent, Settled, OverspentOnlyTogether

\* A call that gets past the budget check is solvent: what the answered calls
\* cost is no more than what all of the task's calls did.
LEMMA PassBudgeted ==
  ASSUME Keys, Rest, Budgeted, NEW r \in Request, NEW b \in Body, Known(r, b),
         ~BudgetExhausted(TaskOf[b]), usage' = usage
  PROVE  Solvent(r)'
<1> DEFINE t == TaskOf[b]
           spent == {u \in usage : u.task = t}
<1>1. TaskFor(r)' = t /\ t \in Task /\ Budget[t] \in Int
  BY MemoryAssumption DEF Known, TaskFor, BodyOf
<1>2. IsFiniteSet(spent) /\ \A u \in spent : u.cost \in Nat
  BY FS_Subset DEF Budgeted, Rest, Row
<1>3. Total(spent) < Budget[t] \/ Total(spent) \notin Int
  BY <1>1 DEF BudgetExhausted, Spent
<1>4. Total(spent) \in Int
  BY <1>2, TotalInt DEF Priced
<1>5. Settled(r)' \in SUBSET spent
  BY <1>1 DEF Settled
<1>6. PICK S \in SUBSET spent : S = Settled(r)'
  BY <1>5
<1> HIDE DEF spent, t
<1>7. Total(S) <= Total(spent) /\ Total(S) \in Int
  <2>1. IsFiniteSet(S) /\ Priced(S) BY <1>2, <1>6, FS_Subset DEF Priced
  <2> QED BY <1>2, <1>6, <2>1, TotalMono, TotalInt
<1>8. Total(S) < Budget[t] BY <1>1, <1>3, <1>4, <1>7
<1> QED BY <1>1, <1>6, <1>8 DEF Solvent

\* A step after which the rows that count against a call are those before.
LEMMA SolventKept ==
  ASSUME NEW s \in Request, Solvent(s), Settled(s)' = Settled(s), TaskFor(s)' = TaskFor(s)
  PROVE  Solvent(s)'
  BY DEF Solvent

LEMMA NextBudgeted == Keys /\ Rest /\ Budgeted /\ [Next]_vars => Budgeted'
<1> SUFFICES ASSUME Keys, Rest, Budgeted, [Next]_vars PROVE Budgeted' OBVIOUS
<1>1. CASE UNCHANGED vars \/ Tick
  BY <1>1 DEF vars, storeVars, history, Tick, Budgeted, Solvent, Settled, TaskFor, BodyOf
<1>2. CASE Restart
  <2>1. usage' = {} /\ \A s \in Request : pc'[s] # "call" BY <1>2 DEF Restart
  <2> QED BY <2>1, FS_EmptySet DEF Budgeted
<1>3. ASSUME NEW r \in Request, ProviderReplies(r) \/ ProviderFails(r) PROVE Budgeted'
  <2>1. /\ Alone(r) /\ pc[r] = "call"
        /\ UNCHANGED <<call, before>>
        /\ \/ usage' = usage
           \/ \E c \in Cost : usage' = usage \cup
                 {[call |-> r, task |-> TaskFor(r), attempts |-> attempt[r], cost |-> c]}
    BY <1>3, ProviderMeters
  <2>2. PICK new : /\ usage' = usage \cup new /\ IsFiniteSet(new) /\ \A u \in new : u.call = r
    <3>1. CASE usage' = usage BY <3>1, FS_EmptySet
    <3>2. CASE \E c \in Cost : usage' = usage \cup
                 {[call |-> r, task |-> TaskFor(r), attempts |-> attempt[r], cost |-> c]}
      <4>1. PICK c \in Cost : usage' = usage \cup
                 {[call |-> r, task |-> TaskFor(r), attempts |-> attempt[r], cost |-> c]}
        BY <3>2
      <4>2. PICK row : row = [call |-> r, task |-> TaskFor(r), attempts |-> attempt[r], cost |-> c]
        OBVIOUS
      <4>3. row.call = r BY <4>2
      <4>4. usage' = usage \cup {row} BY <4>1, <4>2
      <4>5. IsFiniteSet({row}) BY FS_Singleton
      <4> QED BY <4>3, <4>4, <4>5
    <3> QED BY <2>1, <3>1, <3>2
  <2>3. IsFiniteSet(usage') BY <2>2, FS_Union DEF Budgeted
  <2>4. \A s \in Request : r \notin before[s] BY <2>1 DEF Keys, Placed
  <2>5. ASSUME NEW s \in Request PROVE Settled(s)' = Settled(s) /\ TaskFor(s)' = TaskFor(s)
    BY <2>1, <2>2, <2>4 DEF Settled, TaskFor, BodyOf
  <2>6. pc'[r] # "idle" /\ \A s \in Request \ {r} : pc'[s] = pc[s]
    BY <2>1, <1>3, ProviderTells DEF Alone, Tells, Puts, Replays, Refuses, Waits, Keys
  <2>7. \A u \in usage' : pc'[u.call] # "idle"
    BY <2>2, <2>6 DEF Budgeted, Rest, Row
  <2>8. ASSUME NEW s \in Request, pc'[s] = "call" \/ \E u \in usage' : u.call = s
        PROVE  Solvent(s)'
    <3>1. pc[s] = "call" \/ \E u \in usage : u.call = s BY <2>1, <2>2, <2>6, <2>8
    <3>2. Solvent(s) BY <3>1 DEF Budgeted
    <3> QED BY <2>5, <3>2, SolventKept
  <2> QED BY <2>3, <2>7, <2>8 DEF Budgeted
<1>4. ASSUME NEW r \in Request, Begin(r) PROVE Budgeted'
  <2>1. Alone(r) /\ Metered(r) /\ pc[r] = "idle" /\ usage' = usage
    BY <1>4, BeginMeters
  <2>2. \A u \in usage : u.call \in Request /\ u.call # r
    BY <2>1 DEF Budgeted, Rest, Row
  <2>3. \A u \in usage' : pc'[u.call] # "idle"
    BY <2>1, <2>2 DEF Alone, Budgeted
  <2>4. ASSUME NEW s \in Request, pc'[s] = "call" \/ \E u \in usage' : u.call = s
        PROVE  Solvent(s)'
    <3>1. CASE s # r
      <4>1. pc[s] = "call" \/ \E u \in usage : u.call = s BY <2>1, <2>4, <3>1 DEF Alone
      <4>2. Solvent(s) BY <4>1 DEF Budgeted
      <4>3. Settled(s)' = Settled(s) /\ TaskFor(s)' = TaskFor(s)
        BY <2>1, <3>1 DEF Alone, Settled, TaskFor, BodyOf
      <4> QED BY <4>2, <4>3, SolventKept
    <3>2. CASE s = r
      <4>1. pc'[r] = "call" BY <2>1, <2>2, <2>4, <3>2
      <4>2. PICK b \in Body : Passes(r, b)
        BY <2>1, <4>1 DEF Metered, Unmetered, TurnedAway
      <4>3. Known(r, b) /\ ~BudgetExhausted(TaskOf[b]) BY <4>1, <4>2 DEF Passes
      <4> QED BY <2>1, <3>2, <4>3, PassBudgeted
    <3> QED BY <3>1, <3>2
  <2> QED BY <2>1, <2>3, <2>4 DEF Budgeted
<1> QED BY <1>1, <1>2, <1>3, <1>4 DEF Next, Terminating

LEMMA InitBudgeted == Init => Budgeted
  BY FS_EmptySet DEF Init, EmptyStore, Budgeted

\* The budget over MemoryStore: what was answered before a call began did not
\* exhaust the budget of the task it is run for; only calls in flight together can.
THEOREM OverspentOnlyTogetherHolds == Spec => []OverspentOnlyTogether
<1>1. Spec => []Keys BY MemoryHolds, PTL
<1>2. Spec => []Budgeted
  BY <1>1, RestHolds, InitBudgeted, NextBudgeted, PTL DEF Spec
<1> QED BY <1>2, BudgetedImplies, PTL
=============================================================================
