------------------------------ MODULE Admission ------------------------------
(***************************************************************************)
(* What a call must pass before the handler looks its key up: authenticate  *)
(* (token, claims, scopes, one use of its jti) and the refusals of execute  *)
(* that follow it.  The jti is claimed in service_jti_replays, which every  *)
(* worker shares, in one transaction that first purges expired rows.        *)
(*                                                                          *)
(* One await separates the verification of a token from the claim of its    *)
(* jti: time passes and other calls run between the two steps.              *)
(***************************************************************************)
EXTENDS Naturals

CONSTANTS
    Request,        \* calls of the endpoint
    Token,          \* bearer tokens callers may send
    Jti,            \* (iss, jti) pairs
    Scope,
    None,           \* no token, no required scope
    JtiOf,          \* of a token: its jti,
    StartOf,        \*   the later of its nbf and its iat,
    ExpOf,          \*   its exp,
    ScopesOf,       \*   its scopes,
    Genuine,        \* and those whose key, signature and claims are the caller's
    CallerScopes,   \* the registered caller's scopes
    RequiredScope,  \* settings.service_jwt_required_scope, or None
    Bypass,         \* development, unauthenticated calls allowed
    MaxClock        \* bound: the last tick of the clock

Defect == {"none", "task", "header", "size"}

ASSUME AdmissionAssumption ==
    /\ JtiOf \in [Token -> Jti]
    /\ StartOf \in [Token -> Nat]
    /\ ExpOf \in [Token -> Nat]
    /\ ScopesOf \in [Token -> SUBSET Scope]
    /\ Genuine \subseteq Token
    /\ CallerScopes \subseteq Scope
    /\ RequiredScope \in Scope \cup {None}
    /\ None \notin Token \cup Scope \cup Nat
    /\ None \notin [token : Token \cup {None}, defect : Defect]
    /\ Bypass \in BOOLEAN
    /\ MaxClock \in Nat

VARIABLES
    clock,
    replay,      \* service_jti_replays: expires_at of each claimed jti, or None
    pc,
    call,        \* [token, defect]: what a call sent, and what else is wrong with it
    acceptedAt,  \* when the call's token was accepted, or None
    status       \* the HTTP status of a refusal, 200 once admitted

vars == <<clock, replay, pc, call, acceptedAt, status>>

Location == {"idle", "verify", "claim", "done"}
Status == {None, 200, 400, 401, 403, 422}

TypeOK ==
    /\ clock \in 0 .. MaxClock
    /\ replay \in [Jti -> Nat \cup {None}]
    /\ pc \in [Request -> Location]
    /\ call \in [Request -> [token : Token \cup {None}, defect : Defect] \cup {None}]
    /\ acceptedAt \in [Request -> 0 .. MaxClock \cup {None}]
    /\ status \in [Request -> Status]

Init ==
    /\ clock = 0
    /\ replay = [j \in Jti |-> None]
    /\ pc = [r \in Request |-> "idle"]
    /\ call = [r \in Request |-> None]
    /\ acceptedAt = [r \in Request |-> None]
    /\ status = [r \in Request |-> None]

TokenOf(r) == call[r].token

Arrive(r) ==
    \E tok \in Token \cup {None}, d \in Defect :
        /\ pc[r] = "idle"
        /\ pc' = [pc EXCEPT ![r] = "verify"]
        /\ call' = [call EXCEPT ![r] = [token |-> tok, defect |-> d]]
        /\ UNCHANGED <<clock, replay, acceptedAt, status>>

Finish(r, code) ==
    /\ pc' = [pc EXCEPT ![r] = "done"]
    /\ status' = [status EXCEPT ![r] = code]

\* Fault: the signature is not verified.
VerifiedUnsigned(tok) ==
    /\ tok \in Token
    /\ StartOf[tok] <= clock /\ clock < ExpOf[tok]
    /\ CallerScopes \subseteq ScopesOf[tok]

\* jwt.decode and the comparisons with the registered caller.
Verified(tok) ==
    /\ tok \in Genuine
    /\ StartOf[tok] <= clock /\ clock < ExpOf[tok]
    /\ CallerScopes \subseteq ScopesOf[tok]

\* Fault: the scope is looked up in the registry, not in the token.
ScopeUnregistered(r) == CallerScopes # {} /\ RequiredScope \notin CallerScopes

\* The checks of execute on an accepted identity and on the body, in order.
ScopeMissing(r) ==
    RequiredScope # None /\ TokenOf(r) # None /\ RequiredScope \notin ScopesOf[TokenOf(r)]

Verdict(r, identified) ==
    IF (identified /\ ScopeMissing(r)) \/ call[r].defect = "task" THEN 403
    ELSE CASE call[r].defect = "header" -> 400
           [] call[r].defect = "size" -> 422
           [] OTHER -> 200

Reject(r) ==
    /\ Finish(r, IF Bypass THEN Verdict(r, FALSE) ELSE 401)
    /\ UNCHANGED <<clock, replay, call, acceptedAt>>

Verify(r) ==
    /\ pc[r] = "verify"
    /\ \/ /\ TokenOf(r) # None
          /\ Verified(TokenOf(r))
          /\ pc' = [pc EXCEPT ![r] = "claim"]
          /\ UNCHANGED <<clock, replay, call, acceptedAt, status>>
       \/ /\ TokenOf(r) = None \/ ~Verified(TokenOf(r))
          /\ Reject(r)

\* Fault: the purge drops every row, not only expired ones.
PurgeAll == [j \in Jti |-> None]

\* Fault: a row is purged at the instant its token expires.
PurgeAtExpiry ==
    [j \in Jti |-> IF replay[j] # None /\ replay[j] <= clock THEN None ELSE replay[j]]

\* DELETE ... WHERE expires_at < now()
Purged == [j \in Jti |-> IF replay[j] # None /\ replay[j] < clock THEN None ELSE replay[j]]

\* claim_jti: purge, then insert unless the jti is there.
ClaimJti(r) ==
    LET j == JtiOf[TokenOf(r)] IN
    /\ pc[r] = "claim"
    /\ \/ /\ Purged[j] = None
          /\ replay' = [Purged EXCEPT ![j] = ExpOf[TokenOf(r)]]
          /\ acceptedAt' = [acceptedAt EXCEPT ![r] = clock]
          /\ Finish(r, Verdict(r, TRUE))
       \/ /\ Purged[j] # None
          /\ replay' = Purged
          /\ Finish(r, IF Bypass THEN Verdict(r, FALSE) ELSE 401)
          /\ UNCHANGED acceptedAt
    /\ UNCHANGED <<clock, call>>

Tick ==
    /\ clock < MaxClock
    /\ clock' = clock + 1
    /\ UNCHANGED <<replay, pc, call, acceptedAt, status>>

Terminating == (\A r \in Request : pc[r] = "done") /\ UNCHANGED vars

Next ==
    \/ \E r \in Request : Arrive(r) \/ Verify(r) \/ ClaimJti(r)
    \/ Tick
    \/ Terminating

Spec == Init /\ [][Next]_vars

-----------------------------------------------------------------------------
\* A jti is accepted once as long as the token it was first accepted with is
\* valid, by whichever workers its calls run on: a second acceptance comes
\* after that token's exp, from a call that verified a token before and was
\* held up, or from another token with the same jti.
OncePerJti ==
    \A r, s \in Request :
        (/\ r # s
         /\ acceptedAt[r] # None /\ acceptedAt[s] # None
         /\ JtiOf[TokenOf(r)] = JtiOf[TokenOf(s)])
        => \/ acceptedAt[s] > ExpOf[TokenOf(r)]
           \/ acceptedAt[r] > ExpOf[TokenOf(s)]

\* Nothing is admitted that a registered caller did not sign with the scopes
\* asked of it, nor with a body the handler refuses; and each admission has
\* used up a jti of its own.
AdmittedIsEntitled ==
    \A r \in Request : (status[r] = 200 /\ ~Bypass) =>
        /\ TokenOf(r) \in Genuine
        /\ CallerScopes \subseteq ScopesOf[TokenOf(r)]
        /\ RequiredScope # None => RequiredScope \in ScopesOf[TokenOf(r)]
        /\ call[r].defect = "none"
        /\ acceptedAt[r] # None

\* An acceptance holds its jti, with its own exp, until that exp has passed, also
\* when the call was then refused: a retry needs a new token.
SpentUntilExpiry ==
    \A r \in Request : acceptedAt[r] # None =>
        \/ replay[JtiOf[TokenOf(r)]] = ExpOf[TokenOf(r)]
        \/ clock > ExpOf[TokenOf(r)]

\* A token on its way to its claim was verified, and what was verified or
\* accepted was a caller's own.
LocalsOK ==
    \A r \in Request :
        /\ pc[r] # "idle" => call[r] # None
        /\ pc[r] = "claim" \/ acceptedAt[r] # None =>
              /\ TokenOf(r) \in Genuine
              /\ CallerScopes \subseteq ScopesOf[TokenOf(r)]
        /\ acceptedAt[r] # None => pc[r] = "done" /\ acceptedAt[r] <= clock
        /\ status[r] # None => pc[r] = "done"

\* What every step preserves.
Inductive == TypeOK /\ LocalsOK /\ SpentUntilExpiry

\* A token without the required scope is answered 403 INSUFFICIENT_SCOPE; 401 is
\* for a token that is invalid, expired, used or not valid yet when it comes.
\* (docs/authentication.md)
MissingScopeIs403 ==
    \A r \in Request :
        (/\ status[r] = 401
         /\ TokenOf(r) \in Genuine
         /\ RequiredScope \notin ScopesOf[TokenOf(r)])
        => \/ StartOf[TokenOf(r)] > 0 \/ ExpOf[TokenOf(r)] <= clock
           \/ \E s \in Request \ {r} : call[s] # None /\ TokenOf(s) = TokenOf(r)
=============================================================================
