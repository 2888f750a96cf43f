--------------------------- MODULE TokenRotation ----------------------------
(***************************************************************************)
(* AuthService.refreshToken with the SessionService and storage calls it   *)
(* makes.  A refresh request is a process; every await of the method ends  *)
(* one of its actions.  Around the requests sessions are revoked, seconds  *)
(* pass, awaited calls throw and processes die.                            *)
(*                                                                         *)
(* A refresh token is its claims: a JWT without jti whose iat is in whole  *)
(* seconds, so two tokens minted for a session in the same second with the *)
(* same lifetime are the same token and have the same hash.                *)
(***************************************************************************)
EXTENDS Integers, FiniteSets

CONSTANTS Requests,       \* refresh requests, each running once
          Sessions,       \* login sessions of one user
          RefreshTtls,    \* refresh token lifetimes, one per delivery mode
          LockTtls,       \* lock lifetimes: base plus jitter
          ReuseDetection, \* config.jwt.refreshToken.reuseDetection
          StorageFaults,  \* the transient storage may fail and hide it
          MaxRequest,     \* bound: seconds between a request's first and last step
          MaxStart,       \* bound: second in which the last request arrives
          MaxTime,        \* bound: second at which the clock stops
          MaxVersion,     \* bound: updates of a session row by revocations
          NoToken         \* what a request holds before it has a token

Token == [sid: Sessions, iat: Nat, ttl: RefreshTtls]

ASSUME RotationAssumption ==
    /\ RefreshTtls \subseteq Nat \ {0}
    /\ LockTtls \subseteq Nat \ {0}
    /\ ReuseDetection \in BOOLEAN
    /\ StorageFaults \in BOOLEAN
    /\ MaxRequest \in Nat /\ MaxStart \in Nat /\ MaxTime \in Nat /\ MaxVersion \in Nat
    /\ NoToken \notin Token

VARIABLES now,      \* the clock, in seconds
          sess,     \* session rows: token hash, isRevoked, version
          lock,     \* lock[s]: when the key session-refresh:<s> expires, 0 if absent
          marks,    \* keys used-token:<hash>, with who set them and when
          issued,   \* refresh tokens handed to clients
          req       \* the requests' local state

vars == <<now, sess, lock, marks, issued, req>>

Session == [rt: Token, revoked: BOOLEAN, version: Nat]

Mark == [token: Token, by: Requests, at: Nat, until: Nat]

Critical == {"checkUsed", "reuseRead", "reuseMint", "validate", "recheck", "mark",
             "mint", "update", "release"}

Active == Critical \cup {"fallback", "acquire"}

PC == Active \cup {"idle", "done", "crashed"}

Outcome == {"none", "tokens", "SESSION_NOT_FOUND", "RATE_LIMIT_LOGIN", "TOKEN_INVALID",
            "INTERNAL_ERROR"}

Request == [pc: PC, token: Token \cup {NoToken}, sid: Sessions, ttl: RefreshTtls,
            minted: Token \cup {NoToken}, outcome: Outcome, started: Nat, reuse: BOOLEAN,
            revokedAtLock: BOOLEAN]
-----------------------------------------------------------------------------
(* What the code computes from a token, a key or a row. *)

Exp(t) == t.iat + t.ttl

JwtValid(t) == now < Exp(t)

Marked(t) == \E m \in marks : m.token = t /\ now < m.until

\* Mutant: the key is set whether or not it is there.
LockIgnored(s) == FALSE

LockTaken(s) == now < lock[s]

findByRefreshToken(t) == {s \in Sessions : sess[s].rt = t /\ ~sess[s].revoked}

\* Mutant: the resolved lifetime is lost.
MintWithoutTtl(s, ttl) == [sid |-> s, iat |-> now, ttl |-> 0]

generateRefreshToken(s, ttl) == [sid |-> s, iat |-> now, ttl |-> ttl]
-----------------------------------------------------------------------------
Init ==
    /\ now = 0
    /\ \E ttl \in RefreshTtls :
         sess = [s \in Sessions |-> [rt |-> [sid |-> s, iat |-> 0, ttl |-> ttl],
                                     revoked |-> FALSE, version |-> 1]]
    /\ lock = [s \in Sessions |-> 0]
    /\ marks = {}
    /\ issued = {sess[s].rt : s \in Sessions}
    /\ \E s \in Sessions, ttl \in RefreshTtls :
         req = [r \in Requests |->
                  [pc |-> "idle", token |-> NoToken, sid |-> s, ttl |-> ttl,
                   minted |-> NoToken, outcome |-> "none", started |-> 0, reuse |-> FALSE,
                   revokedAtLock |-> FALSE]]

\* A request moves on; a failing one goes where its error path leads.
GoTo(r, label) == req' = [req EXCEPT ![r].pc = label]

FailTo(r, label, code) == req' = [req EXCEPT ![r].pc = label, ![r].outcome = code]

-----------------------------------------------------------------------------
(* Mutants: mistakes in the definitions below that the properties must notice. *)

\* Any live session will do.
FallbackToAnySession(r) ==
    /\ req[r].pc = "fallback"
    /\ \E s \in Sessions :
         /\ ~sess[s].revoked
         /\ req' = [req EXCEPT ![r].pc = "acquire", ![r].sid = s]
    /\ UNCHANGED <<now, sess, lock, marks, issued>>

\* The lock key has no lifetime.
AcquireForever(r) ==
    /\ req[r].pc = "acquire"
    /\ LET s == req[r].sid
       IN  IF LockTaken(s)
             THEN FailTo(r, "done", "RATE_LIMIT_LOGIN") /\ UNCHANGED lock
             ELSE /\ lock' = [lock EXCEPT ![s] = MaxTime + 1]
                  /\ req' = [req EXCEPT
                               ![r].pc = IF ReuseDetection THEN "checkUsed" ELSE "validate",
                               ![r].revokedAtLock = sess[s].revoked]
    /\ UNCHANGED <<now, sess, marks, issued>>

\* The markers are not looked at before the token is validated.
CheckUsedNever(r) ==
    /\ req[r].pc = "checkUsed"
    /\ GoTo(r, "validate")
    /\ UNCHANGED <<now, sess, lock, marks, issued>>

\* An expired token is looked up again.
ValidateAgain(r) ==
    /\ req[r].pc = "validate"
    /\ GoTo(r, IF JwtValid(req[r].token) THEN "recheck" ELSE "checkUsed")
    /\ UNCHANGED <<now, sess, lock, marks, issued>>

\* The session is not read again under the lock.
RecheckNothing(r) ==
    /\ req[r].pc = "recheck"
    /\ GoTo(r, IF ReuseDetection THEN "mark" ELSE "mint")
    /\ UNCHANGED <<now, sess, lock, marks, issued>>

\* A marker is set without looking for one.
MarkUsedAgain(r) ==
    /\ req[r].pc = "mark"
    /\ marks' = marks \cup {[token |-> req[r].token, by |-> r, at |-> now,
                             until |-> now + req[r].ttl]}
    /\ GoTo(r, "mint")
    /\ UNCHANGED <<now, sess, lock, issued>>

\* A marker lives as long as a lock.
MarkUsedBriefly(r) ==
    /\ req[r].pc = "mark"
    /\ ~Marked(req[r].token)
    /\ \E ttl \in LockTtls :
         marks' = marks \cup {[token |-> req[r].token, by |-> r, at |-> now,
                                  until |-> now + ttl]}
    /\ GoTo(r, "mint")
    /\ UNCHANGED <<now, sess, lock, issued>>

\* Only the access token's hash is stored.
UpdateAccessHashOnly(r) ==
    /\ req[r].pc = "update"
    /\ sess' = [sess EXCEPT ![req[r].sid].version = @ + 1]
    /\ FailTo(r, "release", "tokens")
    /\ UNCHANGED <<now, lock, marks, issued>>

\* The row that was read under the lock is saved as a whole.
SaveWholeRow(r) ==
    /\ req[r].pc = "update"
    /\ sess' = [sess EXCEPT ![req[r].sid].rt = req[r].minted, ![req[r].sid].revoked = FALSE,
                            ![req[r].sid].version = @ + 1]
    /\ FailTo(r, "release", "tokens")
    /\ UNCHANGED <<now, lock, marks, issued>>
-----------------------------------------------------------------------------
(* A refresh request. *)

\* The request arrives with a token some client was given and looks its session up by hash.
Lookup(r) ==
    /\ req[r].pc = "idle"
    /\ now <= MaxStart
    /\ \E t \in issued, ttl \in RefreshTtls :
         LET arrived == [req[r] EXCEPT !.token = t, !.ttl = ttl, !.started = now]
         IN  \/ \E s \in findByRefreshToken(t) :
                  req' = [req EXCEPT ![r] = [arrived EXCEPT !.pc = "acquire", !.sid = s]]
             \/ /\ findByRefreshToken(t) = {}
                /\ req' = [req EXCEPT ![r] = [arrived EXCEPT !.pc = "fallback"]]
    /\ UNCHANGED <<now, sess, lock, marks, issued>>

\* No row has that hash: the session the token names is used if it is alive.
Fallback(r) ==
    /\ req[r].pc = "fallback"
    /\ LET s == req[r].token.sid
       IN  IF sess[s].revoked
             THEN FailTo(r, "done", "SESSION_NOT_FOUND")
             ELSE req' = [req EXCEPT ![r].pc = "acquire", ![r].sid = s]
    /\ UNCHANGED <<now, sess, lock, marks, issued>>

\* acquireRefreshLock: set-if-absent with a lifetime; a failed storage call looks like a taken lock.
Acquire(r) ==
    /\ req[r].pc = "acquire"
    /\ LET s == req[r].sid
       IN  \/ /\ ~LockTaken(s)
              /\ \E ttl \in LockTtls :
                   /\ lock' = [lock EXCEPT ![s] = now + ttl]
                   /\ req' = [req EXCEPT
                                ![r].pc = IF ReuseDetection THEN "checkUsed" ELSE "validate",
                                ![r].revokedAtLock = sess[s].revoked]
           \/ /\ LockTaken(s) \/ StorageFaults
              /\ FailTo(r, "done", "RATE_LIMIT_LOGIN")
              /\ UNCHANGED lock
    /\ UNCHANGED <<now, sess, marks, issued>>

\* isRefreshTokenUsed; the database adapter answers "no such key" when its read fails.
CheckUsed(r) ==
    /\ req[r].pc = "checkUsed"
    /\ \/ /\ Marked(req[r].token)
          /\ req' = [req EXCEPT ![r].pc = "reuseRead", ![r].reuse = TRUE]
       \/ /\ ~Marked(req[r].token) \/ StorageFaults
          /\ GoTo(r, "validate")
    /\ UNCHANGED <<now, sess, lock, marks, issued>>

\* A used token: the session is read again and the token's own expiry is checked.
ReuseRead(r) ==
    /\ req[r].pc = "reuseRead"
    /\ IF sess[req[r].sid].revoked
         THEN FailTo(r, "release", "SESSION_NOT_FOUND")
         ELSE IF JwtValid(req[r].token) THEN GoTo(r, "reuseMint")
                                        ELSE FailTo(r, "release", "TOKEN_INVALID")
    /\ UNCHANGED <<now, sess, lock, marks, issued>>

\* The user is loaded and a pair is generated for the session as it was read.
ReuseMint(r) ==
    /\ req[r].pc = "reuseMint"
    /\ req' = [req EXCEPT ![r].pc = "update",
                          ![r].minted = generateRefreshToken(req[r].sid, req[r].ttl)]
    /\ UNCHANGED <<now, sess, lock, marks, issued>>

\* An unused token: validateRefreshToken.
Validate(r) ==
    /\ req[r].pc = "validate"
    /\ IF JwtValid(req[r].token) THEN GoTo(r, "recheck")
                                 ELSE FailTo(r, "release", "TOKEN_INVALID")
    /\ UNCHANGED <<now, sess, lock, marks, issued>>

\* The session is read again under the lock.
Recheck(r) ==
    /\ req[r].pc = "recheck"
    /\ IF sess[req[r].sid].revoked
         THEN FailTo(r, "release", "SESSION_NOT_FOUND")
         ELSE GoTo(r, IF ReuseDetection THEN "mark" ELSE "mint")
    /\ UNCHANGED <<now, sess, lock, marks, issued>>

\* markRefreshTokenAsUsed: set-if-absent for the lifetime of a token minted by this request.
MarkUsed(r) ==
    /\ req[r].pc = "mark"
    /\ LET t == req[r].token
       IN  \/ /\ ~Marked(t)
              /\ marks' = marks \cup {[token |-> t, by |-> r, at |-> now,
                                       until |-> now + req[r].ttl]}
              /\ GoTo(r, "mint")
           \/ /\ Marked(t) \/ StorageFaults
              /\ FailTo(r, "release", "TOKEN_INVALID")
              /\ UNCHANGED marks
    /\ UNCHANGED <<now, sess, lock, issued>>

\* generateTokenPair in the same family.
Mint(r) ==
    /\ req[r].pc = "mint"
    /\ req' = [req EXCEPT ![r].pc = "update",
                          ![r].minted = generateRefreshToken(req[r].sid, req[r].ttl)]
    /\ UNCHANGED <<now, sess, lock, marks, issued>>

\* updateTokens: UPDATE by id, whatever the row says by now; the ORM increments version.
UpdateTokens(r) ==
    /\ req[r].pc = "update"
    /\ sess' = [sess EXCEPT ![req[r].sid].rt = req[r].minted,
                            ![req[r].sid].version = @ + 1]
    /\ FailTo(r, "release", "tokens")
    /\ UNCHANGED <<now, lock, marks, issued>>

\* The finally block deletes the lock key, whoever set it, and the answer goes out.
Release(r) ==
    /\ req[r].pc = "release"
    /\ \/ lock' = [lock EXCEPT ![req[r].sid] = 0]
       \/ StorageFaults /\ UNCHANGED lock
    /\ issued' = IF req[r].outcome = "tokens" THEN issued \cup {req[r].minted} ELSE issued
    /\ GoTo(r, "done")
    /\ UNCHANGED <<now, sess, marks>>

\* An awaited call throws: inside the lock the finally block still runs.
Throw(r) ==
    /\ req[r].pc \in Active \ {"release"}
    /\ FailTo(r, IF req[r].pc \in Critical THEN "release" ELSE "done", "INTERNAL_ERROR")
    /\ UNCHANGED <<now, sess, lock, marks, issued>>

\* The process serving the request dies; nothing runs, the lock key stays (so too if the delete
\* of the lock key itself throws).
Crash(r) ==
    /\ req[r].pc \in Active
    /\ GoTo(r, "crashed")
    /\ UNCHANGED <<now, sess, lock, marks, issued>>

-----------------------------------------------------------------------------
(* Around the requests. *)

\* revokeSession: logout, an administrator, the user's session list.
RevokeSession(s) ==
    /\ sess[s].version < MaxVersion
    /\ sess' = [sess EXCEPT ![s].revoked = TRUE, ![s].version = @ + 1]
    /\ UNCHANGED <<now, lock, marks, issued, req>>

\* revokeAllUserSessions: one UPDATE over the user's rows that are not revoked.
RevokeAllUserSessions ==
    /\ \E s \in Sessions : ~sess[s].revoked
    /\ sess' = [s \in Sessions |->
                  IF sess[s].revoked THEN sess[s]
                  ELSE [sess[s] EXCEPT !.revoked = TRUE, !.version = @ + 1]]
    /\ UNCHANGED <<now, lock, marks, issued, req>>

\* A second passes; no request outlives MaxRequest.
Tick ==
    /\ now < MaxTime
    /\ \A r \in Requests : req[r].pc \in Active => now < req[r].started + MaxRequest
    /\ now' = now + 1
    /\ UNCHANGED <<sess, lock, marks, issued, req>>

\* The clock has stopped and nobody is at work: the bounded model ends here.
Quiescent ==
    /\ now = MaxTime
    /\ \A r \in Requests : req[r].pc \notin Active
    /\ UNCHANGED vars

Step(r) ==
    \/ Fallback(r) \/ Acquire(r) \/ CheckUsed(r) \/ ReuseRead(r) \/ ReuseMint(r)
    \/ Validate(r) \/ Recheck(r) \/ MarkUsed(r) \/ Mint(r) \/ UpdateTokens(r) \/ Release(r)

Next ==
    \/ \E r \in Requests : Lookup(r) \/ Step(r) \/ Throw(r) \/ Crash(r)
    \/ \E s \in Sessions : RevokeSession(s)
    \/ RevokeAllUserSessions
    \/ Tick
    \/ Quiescent

Spec == Init /\ [][Next]_vars

\* A request that is being served takes its next step and time goes on; nothing makes a
\* client send one, a session be revoked, a call throw or a process die.
FairSpec ==
    /\ Spec
    /\ \A r \in Requests : WF_vars(Step(r))
    /\ WF_vars(Tick)
-----------------------------------------------------------------------------
(* Parameters under which the lock and the markers do what they are for. *)

\* No request outlives its lock.
ExclusiveLock == \A l \in LockTtls : MaxRequest < l

\* All tokens live equally long, as in every delivery mode but hybrid.
UniformTtl == \A a, b \in RefreshTtls : a = b
-----------------------------------------------------------------------------
(* Properties. *)

\* Every variable has its type and every row carries a token of its own session.
TypeOK ==
    /\ now \in Nat
    /\ sess \in [Sessions -> Session]
    /\ lock \in [Sessions -> Nat]
    /\ marks \subseteq Mark
    /\ issued \subseteq Token
    /\ req \in [Requests -> Request]

\* Between acquiring and releasing the refresh lock a request is alone on its session, as long
\* as no request outlives the lock's lifetime (the delete in the finally block checks no owner).
MutualExclusion ==
    ExclusiveLock =>
        \A r1, r2 \in Requests :
            /\ req[r1].pc \in Critical /\ req[r2].pc \in Critical
            /\ req[r1].sid = req[r2].sid
            => r1 = r2

\* No refresh token is exchanged twice while it is valid, by any number of requests, even when
\* locks expire under their holders or storage fails: markRefreshTokenAsUsed alone decides it.
SpentOnce ==
    UniformTtl =>
        \A m1, m2 \in marks :
            /\ m1.token = m2.token
            /\ m1.at < Exp(m1.token) /\ m2.at < Exp(m2.token)
            => m1 = m2

\* A used-token marker outlives the token it marks, so a token whose marker is gone is expired
\* ("Token reuse markers ... Matches refresh token TTL", concepts/storage.md).
MarkOutlivesToken == \A m \in marks : Exp(m.token) <= m.until

\* A session that was revoked before the request got the lock gives it no tokens: the reads of
\* the session under the lock, on both paths, stand between the revocation and new tokens.
RevokedBeforeLockYieldsNothing ==
    \A r \in Requests : req[r].revokedAtLock => req[r].outcome # "tokens"

\* The session a request works on is the one its token names, so the branch of refreshToken
\* for a token of a different session (revoke and audit) is never taken.
TheftBranchUnreachable ==
    \A r \in Requests : req[r].pc \in Critical => req[r].sid = req[r].token.sid

\* A client that presents a valid token is never told TOKEN_INVALID: requests of one session
\* are serialised, and a token spent earlier takes the reuse path instead of failing.
NoSpuriousReject ==
    ExclusiveLock /\ ~StorageFaults =>
        \A r \in Requests : req[r].outcome = "TOKEN_INVALID" => ~JwtValid(req[r].token)

\* When a request that got tokens is about to answer, the session row holds exactly them.
ReturnedTokensAreStored ==
    ExclusiveLock =>
        \A r \in Requests :
            req[r].pc = "release" /\ req[r].outcome = "tokens"
                => sess[req[r].sid].rt = req[r].minted

\* Presenting a used token ends the session ("the entire session and its token family are
\* invalidated immediately", concepts/rate-limiting.md).
ReuseInvalidatesSession ==
    \A r \in Requests :
        req[r].reuse /\ req[r].outcome = "tokens" => sess[req[r].sid].revoked

\* A revoked session stays revoked and its version only grows: updateTokens of a request that
\* read the row before the revocation does not bring it back.
RevocationIsFinal ==
    [][\A s \in Sessions :
         /\ sess[s].revoked => sess'[s].revoked
         /\ sess'[s] # sess[s] => sess'[s].version > sess[s].version]_vars

\* Every request that is being served is answered or dies with its process.
RequestsFinish ==
    \A r \in Requests : req[r].pc \in Active ~> req[r].pc \in {"done", "crashed"}

\* A lock key that a dead process left behind does not block the session's refreshes forever.
AbandonedLockFrees ==
    \A s \in Sessions : LockTaken(s) ~> ~LockTaken(s)

\* The protocol keeps the promise of SessionLineage when no request outlives its lock.
Lineage ==
    INSTANCE SessionLineage WITH
        Spenders <- Requests,
        current <- [s \in Sessions |-> sess[s].rt],
        revoked <- {s \in Sessions : sess[s].revoked},
        spent <- {[token |-> m.token, by |-> m.by] :
                     m \in {k \in marks : k.at < Exp(k.token)}}

KeepsLineage == Lineage!LineageSpec
=============================================================================
