---------------------------- MODULE AdmissionProofs ----------------------------
(***************************************************************************)
(* Proofs about admission, for any number of calls, tokens, jtis and scopes *)
(* and any clock.                                                           *)
(***************************************************************************)
EXTENDS Admission, TLAPS

LEMMA InitInductive == Init => Inductive
  BY AdmissionAssumption
  DEF Init, Inductive, TypeOK, LocalsOK, SpentUntilExpiry, Location, Status

\* What the token of a call that was verified, or accepted, is.
LEMMA VerifiedToken ==
  ASSUME Inductive, NEW r \in Request, pc[r] = "claim" \/ acceptedAt[r] # None
  PROVE  /\ call[r] # None
         /\ TokenOf(r) \in Token
         /\ JtiOf[TokenOf(r)] \in Jti
         /\ ExpOf[TokenOf(r)] \in Nat
<1>1. call[r] # None /\ TokenOf(r) \in Genuine
  BY DEF Inductive, LocalsOK
<1> QED BY <1>1, AdmissionAssumption

LEMMA VerdictType ==
  ASSUME NEW r \in Request, NEW identified \in BOOLEAN
  PROVE  Verdict(r, identified) \in Status \ {None}
  BY AdmissionAssumption DEF Verdict, Status

\* What a call that is not identified is answered.
LEMMA RefusalType ==
  ASSUME NEW r \in Request
  PROVE  (IF Bypass THEN Verdict(r, FALSE) ELSE 401) \in Status \ {None}
<1>1. 401 \in Status \ {None} BY AdmissionAssumption DEF Status
<1>2. Verdict(r, FALSE) \in Status \ {None} BY VerdictType
<1> QED BY <1>1, <1>2

LEMMA ArriveInductive ==
  ASSUME Inductive, NEW r \in Request, Arrive(r)
  PROVE  Inductive'
<1>1. TypeOK' BY DEF Inductive, TypeOK, Arrive, Location
<1>2. LocalsOK'
  BY AdmissionAssumption DEF Inductive, TypeOK, LocalsOK, Arrive, TokenOf
<1>3. SpentUntilExpiry'
  BY DEF Inductive, TypeOK, LocalsOK, SpentUntilExpiry, Arrive, TokenOf
<1> QED BY <1>1, <1>2, <1>3 DEF Inductive

\* A step that ends a call, or sends its verified token on to the claim.
LEMMA VerifyInductive ==
  ASSUME Inductive, NEW r \in Request, Verify(r)
  PROVE  Inductive'
<1>1. CASE /\ TokenOf(r) # None
           /\ Verified(TokenOf(r))
           /\ pc' = [pc EXCEPT ![r] = "claim"]
           /\ UNCHANGED <<clock, replay, call, acceptedAt, status>>
  <2>1. TypeOK' BY <1>1 DEF Inductive, TypeOK, Location
  <2>2. LocalsOK'
    BY <1>1 DEF Verify, Verified, Inductive, TypeOK, LocalsOK, TokenOf
  <2>3. SpentUntilExpiry' BY <1>1 DEF Inductive, SpentUntilExpiry, TokenOf
  <2> QED BY <2>1, <2>2, <2>3 DEF Inductive
<1>2. CASE Reject(r)
  <2> DEFINE code == IF Bypass THEN Verdict(r, FALSE) ELSE 401
  <2> HIDE DEF code
  <2>1. /\ code \in Status \ {None} /\ Finish(r, code)
        /\ UNCHANGED <<clock, replay, call, acceptedAt>>
        /\ pc[r] = "verify"
    BY <1>2, RefusalType DEF Verify, Reject, code
  <2>2. TypeOK' BY <2>1 DEF Inductive, TypeOK, Finish, Location
  <2>3. LocalsOK' BY <2>1 DEF Inductive, TypeOK, LocalsOK, Finish, TokenOf
  <2>4. SpentUntilExpiry' BY <2>1 DEF Inductive, SpentUntilExpiry, TokenOf
  <2> QED BY <2>2, <2>3, <2>4 DEF Inductive
<1> QED BY <1>1, <1>2 DEF Verify

\* A purge leaves the rows whose tokens have not expired.
LEMMA PurgeKeeps ==
  ASSUME TypeOK, NEW j \in Jti
  PROVE  /\ Purged[j] \in Nat \cup {None}
         /\ Purged[j] = None => replay[j] = None \/ replay[j] < clock
         /\ Purged[j] # None => Purged[j] = replay[j]
  BY AdmissionAssumption DEF TypeOK, Purged

\* The claim of a jti that is free: whoever was accepted with it before was
\* accepted with a token that has expired.
LEMMA FreeJtiExpired ==
  ASSUME Inductive, NEW r \in Request, pc[r] = "claim",
         Purged[JtiOf[TokenOf(r)]] = None,
         NEW s \in Request, acceptedAt[s] # None,
         JtiOf[TokenOf(s)] = JtiOf[TokenOf(r)]
  PROVE  clock > ExpOf[TokenOf(s)]
<1>1. JtiOf[TokenOf(r)] \in Jti /\ ExpOf[TokenOf(s)] \in Nat
  BY VerifiedToken
<1>2. \/ replay[JtiOf[TokenOf(r)]] = None
      \/ replay[JtiOf[TokenOf(r)]] < clock
  BY <1>1, PurgeKeeps DEF Inductive
<1>3. \/ replay[JtiOf[TokenOf(s)]] = ExpOf[TokenOf(s)]
      \/ clock > ExpOf[TokenOf(s)]
  BY DEF Inductive, SpentUntilExpiry
<1>4. None # ExpOf[TokenOf(s)] BY <1>1, AdmissionAssumption
<1>5. clock \in Nat BY AdmissionAssumption DEF Inductive, TypeOK
<1> QED BY <1>1, <1>2, <1>3, <1>4, <1>5

LEMMA ClaimJtiInductive ==
  ASSUME Inductive, NEW r \in Request, ClaimJti(r)
  PROVE  Inductive'
<1> DEFINE j == JtiOf[TokenOf(r)]
<1>1. /\ pc[r] = "claim" /\ call[r] # None /\ TokenOf(r) \in Genuine
      /\ CallerScopes \subseteq ScopesOf[TokenOf(r)]
      /\ j \in Jti /\ ExpOf[TokenOf(r)] \in Nat
  BY VerifiedToken DEF ClaimJti, Inductive, LocalsOK
<1>2. UNCHANGED <<clock, call>> /\ clock \in Nat
  BY AdmissionAssumption DEF ClaimJti, Inductive, TypeOK
<1>3. acceptedAt[r] = None BY <1>1 DEF Inductive, LocalsOK
<1>4. CASE /\ Purged[j] = None
           /\ replay' = [Purged EXCEPT ![j] = ExpOf[TokenOf(r)]]
           /\ acceptedAt' = [acceptedAt EXCEPT ![r] = clock]
           /\ Finish(r, Verdict(r, TRUE))
  <2>1. Verdict(r, TRUE) \in Status \ {None} BY VerdictType
  <2>2. Purged \in [Jti -> Nat \cup {None}] BY PurgeKeeps DEF Purged, Inductive
  <2>3. TypeOK'
    BY <1>1, <1>2, <1>4, <2>1, <2>2 DEF Inductive, TypeOK, Finish, Location
  <2>4. LocalsOK'
    BY <1>1, <1>2, <1>4, <2>1 DEF Inductive, TypeOK, LocalsOK, Finish, TokenOf
  <2>5. ASSUME NEW s \in Request, acceptedAt'[s] # None
        PROVE  \/ replay'[JtiOf[TokenOf(s)]] = ExpOf[TokenOf(s)]
               \/ clock > ExpOf[TokenOf(s)]
    <3>1. CASE s = r BY <1>1, <1>4, <2>2, <3>1
    <3>2. CASE s # r /\ JtiOf[TokenOf(s)] = j
      <4>1. acceptedAt[s] # None BY <1>4, <2>5, <3>2 DEF Inductive, TypeOK
      <4> QED BY <1>1, <1>4, <3>2, <4>1, FreeJtiExpired
    <3>3. CASE s # r /\ JtiOf[TokenOf(s)] # j
      <4>1. acceptedAt[s] # None BY <1>4, <2>5, <3>3 DEF Inductive, TypeOK
      <4>2. JtiOf[TokenOf(s)] \in Jti /\ ExpOf[TokenOf(s)] \in Nat
        BY <4>1, VerifiedToken
      <4>3. replay'[JtiOf[TokenOf(s)]] = Purged[JtiOf[TokenOf(s)]]
        BY <1>4, <2>2, <3>3, <4>2
      <4>4. \/ replay[JtiOf[TokenOf(s)]] = ExpOf[TokenOf(s)]
            \/ clock > ExpOf[TokenOf(s)]
        BY <4>1 DEF Inductive, SpentUntilExpiry
      <4>5. None # ExpOf[TokenOf(s)] BY <4>2, AdmissionAssumption
      <4> QED BY <1>2, <4>2, <4>3, <4>4, <4>5, PurgeKeeps DEF Inductive
    <3> QED BY <3>1, <3>2, <3>3
  <2>6. SpentUntilExpiry' BY <1>2, <2>5 DEF SpentUntilExpiry, TokenOf
  <2> QED BY <2>3, <2>4, <2>6 DEF Inductive
<1>5. CASE /\ Purged[j] # None
           /\ replay' = Purged
           /\ Finish(r, IF Bypass THEN Verdict(r, FALSE) ELSE 401)
           /\ UNCHANGED acceptedAt
  <2> DEFINE code == IF Bypass THEN Verdict(r, FALSE) ELSE 401
  <2> HIDE DEF code
  <2>1. /\ code \in Status \ {None} /\ Finish(r, code)
        /\ replay' = Purged
        /\ UNCHANGED acceptedAt
    BY <1>5, RefusalType DEF code
  <2>2. Purged \in [Jti -> Nat \cup {None}] BY PurgeKeeps DEF Purged, Inductive
  <2>3. TypeOK'
    BY <1>2, <2>1, <2>2 DEF Inductive, TypeOK, Finish, Location
  <2>4. LocalsOK'
    BY <1>1, <1>2, <2>1 DEF Inductive, TypeOK, LocalsOK, Finish, TokenOf
  <2>5. ASSUME NEW s \in Request, acceptedAt[s] # None
        PROVE  \/ Purged[JtiOf[TokenOf(s)]] = ExpOf[TokenOf(s)]
               \/ clock > ExpOf[TokenOf(s)]
    <3>1. JtiOf[TokenOf(s)] \in Jti /\ ExpOf[TokenOf(s)] \in Nat
      BY <2>5, VerifiedToken
    <3>2. \/ replay[JtiOf[TokenOf(s)]] = ExpOf[TokenOf(s)]
          \/ clock > ExpOf[TokenOf(s)]
      BY <2>5 DEF Inductive, SpentUntilExpiry
    <3>3. None # ExpOf[TokenOf(s)] BY <3>1, AdmissionAssumption
    <3> QED BY <1>2, <3>1, <3>2, <3>3, PurgeKeeps DEF Inductive
  <2>6. SpentUntilExpiry' BY <1>2, <1>5, <2>5 DEF SpentUntilExpiry, TokenOf
  <2> QED BY <2>3, <2>4, <2>6 DEF Inductive
<1> QED BY <1>4, <1>5 DEF ClaimJti

LEMMA TickInductive ==
  ASSUME Inductive, Tick
  PROVE  Inductive'
<1>1. TypeOK' BY AdmissionAssumption DEF Inductive, TypeOK, Tick
<1>2. LocalsOK'
  BY AdmissionAssumption DEF Inductive, TypeOK, LocalsOK, Tick, TokenOf
<1>3. ASSUME NEW s \in Request, acceptedAt[s] # None
      PROVE  \/ replay[JtiOf[TokenOf(s)]] = ExpOf[TokenOf(s)]
             \/ clock' > ExpOf[TokenOf(s)]
  <2>1. ExpOf[TokenOf(s)] \in Nat BY <1>3, VerifiedToken
  <2>2. clock \in Nat /\ clock' = clock + 1
    BY AdmissionAssumption DEF Inductive, TypeOK, Tick
  <2> QED BY <1>3, <2>1, <2>2 DEF Inductive, SpentUntilExpiry
<1>4. SpentUntilExpiry' BY <1>3 DEF Tick, SpentUntilExpiry, TokenOf
<1> QED BY <1>1, <1>2, <1>4 DEF Inductive

LEMMA StutterInductive ==
  ASSUME Inductive, UNCHANGED vars
  PROVE  Inductive'
  BY DEF Inductive, TypeOK, LocalsOK, SpentUntilExpiry, vars, TokenOf

LEMMA NextInductive == Inductive /\ [Next]_vars => Inductive'
<1> SUFFICES ASSUME Inductive, [Next]_vars PROVE Inductive'
  OBVIOUS
<1>1. CASE \E r \in Request : Arrive(r) BY <1>1, ArriveInductive
<1>2. CASE \E r \in Request : Verify(r) BY <1>2, VerifyInductive
<1>3. CASE \E r \in Request : ClaimJti(r) BY <1>3, ClaimJtiInductive
<1>4. CASE Tick BY <1>4, TickInductive
<1>5. CASE UNCHANGED vars BY <1>5, StutterInductive
<1> QED BY <1>1, <1>2, <1>3, <1>4, <1>5 DEF Next, Terminating

\* The table, the clock and every call are of their types, a verified token is
\* its caller's, and an acceptance holds its jti.  (authenticate, claim_jti)
THEOREM InductiveHolds == Spec => []Inductive
  BY InitInductive, NextInductive, PTL DEF Spec

\* A call that was refused after its token was accepted has spent it: its jti is
\* in service_jti_replays until the token expires.  (claim_jti)
THEOREM SpentUntilExpiryHolds == Spec => []SpentUntilExpiry
<1>1. Inductive => SpentUntilExpiry BY DEF Inductive
<1> QED BY <1>1, InductiveHolds, PTL

-----------------------------------------------------------------------------
(* One acceptance per jti *)

LEMMA AcceptanceKept ==
  ASSUME Inductive, [Next]_vars, NEW s \in Request, acceptedAt[s] # None
  PROVE  acceptedAt'[s] = acceptedAt[s] /\ TokenOf(s)' = TokenOf(s)
<1>1. pc[s] = "done" BY DEF Inductive, LocalsOK
<1>2. CASE \E r \in Request : Arrive(r)
  BY <1>1, <1>2 DEF Arrive, Inductive, TypeOK, TokenOf
<1>3. CASE \E r \in Request : Verify(r)
  BY <1>1, <1>3 DEF Verify, Reject, TokenOf
<1>4. CASE \E r \in Request : ClaimJti(r)
  BY <1>1, <1>4 DEF ClaimJti, Inductive, TypeOK, TokenOf
<1>5. CASE Tick \/ UNCHANGED vars BY <1>5 DEF Tick, vars, TokenOf
<1> QED BY <1>2, <1>3, <1>4, <1>5 DEF Next, Terminating

\* Only the claim of its jti accepts a call, and then every earlier acceptance of
\* that jti is past its exp.
LEMMA AcceptedLast ==
  ASSUME Inductive, [Next]_vars,
         NEW s \in Request, acceptedAt[s] = None, acceptedAt'[s] # None,
         NEW q \in Request, q # s, acceptedAt'[q] # None,
         (JtiOf[TokenOf(q)] = JtiOf[TokenOf(s)])'
  PROVE  (acceptedAt[s] > ExpOf[TokenOf(q)])'
<1>1. ClaimJti(s) /\ Purged[JtiOf[TokenOf(s)]] = None
  <2>1. CASE \E r \in Request : Arrive(r) BY <2>1 DEF Arrive
  <2>2. CASE \E r \in Request : Verify(r) BY <2>2 DEF Verify, Reject
  <2>3. CASE \E r \in Request : ClaimJti(r)
    BY <2>3 DEF ClaimJti, Inductive, TypeOK
  <2>4. CASE Tick \/ UNCHANGED vars BY <2>4 DEF Tick, vars
  <2> QED BY <2>1, <2>2, <2>3, <2>4 DEF Next, Terminating
<1>2. /\ acceptedAt' = [acceptedAt EXCEPT ![s] = clock]
      /\ UNCHANGED call
      /\ pc[s] = "claim"
  BY <1>1 DEF ClaimJti
<1>3. acceptedAt[q] # None /\ acceptedAt'[s] = clock
  BY <1>2 DEF Inductive, TypeOK
<1>4. JtiOf[TokenOf(q)] = JtiOf[TokenOf(s)] /\ TokenOf(q)' = TokenOf(q)
  BY <1>2 DEF TokenOf
<1>5. clock > ExpOf[TokenOf(q)]
  BY <1>1, <1>2, <1>3, <1>4, FreeJtiExpired
<1> QED BY <1>3, <1>4, <1>5

\* Whatever the order of verifications, claims and purges, a jti is accepted again
\* only when the token it was accepted with before has expired.  (claim_jti)
THEOREM OncePerJtiHolds == Spec => []OncePerJti
<1>1. Init => OncePerJti
  BY DEF Init, OncePerJti
<1>2. ASSUME Inductive, OncePerJti, [Next]_vars PROVE OncePerJti'
  <2> SUFFICES ASSUME NEW r \in Request, NEW s \in Request, r # s,
                      acceptedAt'[r] # None, acceptedAt'[s] # None,
                      (JtiOf[TokenOf(r)] = JtiOf[TokenOf(s)])'
               PROVE  \/ (acceptedAt[s] > ExpOf[TokenOf(r)])'
                      \/ (acceptedAt[r] > ExpOf[TokenOf(s)])'
    BY DEF OncePerJti
  <2>1. CASE acceptedAt[s] = None BY <1>2, <2>1, AcceptedLast
  <2>2. CASE acceptedAt[r] = None BY <1>2, <2>2, AcceptedLast
  <2>3. CASE acceptedAt[r] # None /\ acceptedAt[s] # None
    <3>1. /\ acceptedAt'[r] = acceptedAt[r] /\ TokenOf(r)' = TokenOf(r)
          /\ acceptedAt'[s] = acceptedAt[s] /\ TokenOf(s)' = TokenOf(s)
      BY <1>2, <2>3, AcceptanceKept
    <3> QED BY <1>2, <2>3, <3>1 DEF OncePerJti
  <2> QED BY <2>1, <2>2, <2>3
<1> QED BY <1>1, <1>2, InductiveHolds, PTL DEF Spec

-----------------------------------------------------------------------------
(* Who is admitted *)

\* Nothing is admitted that the registered caller did not sign with the scopes
\* asked of it and that did not use up a jti.  (authenticate, execute)
THEOREM AdmittedIsEntitledHolds == Spec => []AdmittedIsEntitled
<1>1. Init => AdmittedIsEntitled
  BY AdmissionAssumption DEF Init, AdmittedIsEntitled
<1>2. ASSUME Inductive, Inductive', AdmittedIsEntitled, [Next]_vars
      PROVE  AdmittedIsEntitled'
  <2> SUFFICES ASSUME NEW s \in Request, status'[s] = 200, ~Bypass
               PROVE  /\ TokenOf(s)' \in Genuine
                      /\ CallerScopes \subseteq ScopesOf[TokenOf(s)']
                      /\ RequiredScope # None => RequiredScope \in ScopesOf[TokenOf(s)']
                      /\ call'[s].defect = "none"
                      /\ acceptedAt'[s] # None
    BY DEF AdmittedIsEntitled
  <2>1. CASE status[s] = 200
    <3>1. acceptedAt[s] # None /\ pc[s] = "done"
      BY <1>2, <2>1 DEF AdmittedIsEntitled, Inductive, LocalsOK
    <3>2. call'[s] = call[s]
      <4>1. CASE \E r \in Request : Arrive(r)
        BY <1>2, <3>1, <4>1 DEF Arrive, Inductive, TypeOK
      <4>2. CASE \E r \in Request : Verify(r) BY <4>2 DEF Verify, Reject
      <4>3. CASE \E r \in Request : ClaimJti(r) BY <4>3 DEF ClaimJti
      <4>4. CASE Tick \/ UNCHANGED vars BY <4>4 DEF Tick, vars
      <4> QED BY <1>2, <4>1, <4>2, <4>3, <4>4 DEF Next, Terminating
    <3> QED BY <1>2, <2>1, <3>1, <3>2, AcceptanceKept DEF AdmittedIsEntitled, TokenOf
  <2>2. CASE status[s] # 200
    <3>1. ClaimJti(s) /\ Purged[JtiOf[TokenOf(s)]] = None
      <4>1. CASE \E r \in Request : Arrive(r) BY <2>2, <4>1 DEF Arrive
      <4>2. CASE \E r \in Request : Verify(r)
        <5>1. PICK r \in Request : Verify(r) BY <4>2
        <5>2. status' = status \/ status' = [status EXCEPT ![r] = 401]
          BY <5>1 DEF Verify, Reject, Finish
        <5> QED BY <1>2, <2>2, <5>2 DEF Inductive, TypeOK
      <4>3. CASE \E r \in Request : ClaimJti(r)
        <5>1. PICK r \in Request : ClaimJti(r) BY <4>3
        <5>2. CASE /\ Purged[JtiOf[TokenOf(r)]] = None
                   /\ Finish(r, Verdict(r, TRUE))
          <6>1. PICK code : status' = [status EXCEPT ![r] = code]
            BY <5>2 DEF Finish
          <6>2. status \in [Request -> Status] BY <1>2 DEF Inductive, TypeOK
          <6>3. r = s BY <2>2, <6>1, <6>2
          <6> QED BY <5>1, <5>2, <6>3
        <5>3. CASE Finish(r, IF Bypass THEN Verdict(r, FALSE) ELSE 401)
          <6>1. status' = [status EXCEPT ![r] = 401] BY <5>3 DEF Finish
          <6> QED BY <1>2, <2>2, <6>1 DEF Inductive, TypeOK
        <5> QED BY <5>1, <5>2, <5>3 DEF ClaimJti
      <4>4. CASE Tick \/ UNCHANGED vars BY <2>2, <4>4 DEF Tick, vars
      <4> QED BY <1>2, <4>1, <4>2, <4>3, <4>4 DEF Next, Terminating
    <3>2. /\ UNCHANGED call /\ TokenOf(s)' = TokenOf(s)
          /\ acceptedAt'[s] = clock
          /\ Verdict(s, TRUE) = 200
      <4>1. /\ UNCHANGED call
            /\ acceptedAt' = [acceptedAt EXCEPT ![s] = clock]
            /\ status' = [status EXCEPT ![s] = Verdict(s, TRUE)]
        BY <3>1 DEF ClaimJti, Finish
      <4> QED BY <1>2, <4>1 DEF Inductive, TypeOK, TokenOf
    <3>3. /\ ~ScopeMissing(s)
          /\ call[s].defect \notin {"task", "header", "size"}
      BY <3>2 DEF Verdict
    <3>4. call[s] # None /\ TokenOf(s) \in Genuine
          /\ CallerScopes \subseteq ScopesOf[TokenOf(s)]
      BY <1>2, <3>1 DEF ClaimJti, Inductive, LocalsOK
    <3>5. call[s].defect = "none"
      BY <1>2, <3>3, <3>4 DEF Inductive, TypeOK, Defect
    <3>6. TokenOf(s) # None BY <3>4, AdmissionAssumption
    <3>7. clock # None BY <1>2, AdmissionAssumption DEF Inductive, TypeOK
    <3> QED BY <3>2, <3>3, <3>4, <3>5, <3>6, <3>7 DEF ScopeMissing
  <2> QED BY <2>1, <2>2
<1>3. Spec => []Inductive BY InductiveHolds
<1> QED BY <1>1, <1>2, <1>3, PTL DEF Spec
=============================================================================
