------------------------ MODULE TokenRotation_proofs ------------------------
(***************************************************************************)
(* Theorems about TokenRotation, for every value of its constants.         *)
(***************************************************************************)
EXTENDS TokenRotation, TLAPS

(* Type correctness.                                                       *)

LEMMA MintType ==
    ASSUME now \in Nat, NEW s \in Sessions, NEW ttl \in RefreshTtls
    PROVE  generateRefreshToken(s, ttl) \in Token
  BY DEF generateRefreshToken, Token

\* A request that has started holds the token it was sent, one that writes or answers a minted one.
HoldsTokens ==
    \A r \in Requests :
        /\ req[r].pc # "idle" => req[r].token \in Token
        /\ req[r].pc = "update" \/ req[r].outcome = "tokens" => req[r].minted \in Token

TypeInv == TypeOK /\ HoldsTokens

\* A request moved to a well-typed local state that holds its tokens.
LEMMA Moved ==
    ASSUME TypeInv, NEW r \in Requests, NEW q \in Request, req' = [req EXCEPT ![r] = q],
           q.pc # "idle" => q.token \in Token,
           q.pc = "update" \/ q.outcome = "tokens" => q.minted \in Token
    PROVE  req' \in [Requests -> Request] /\ HoldsTokens'
  BY DEF TypeInv, TypeOK, HoldsTokens

LEMMA TypeInvariant == Spec => []TypeInv
  <1>1. Init => TypeInv
    <2> SUFFICES ASSUME Init PROVE TypeInv
      OBVIOUS
    <2>1. PICK ttl \in RefreshTtls :
            sess = [s \in Sessions |-> [rt |-> [sid |-> s, iat |-> 0, ttl |-> ttl],
                                        revoked |-> FALSE, version |-> 1]]
      BY DEF Init
    <2>2. PICK s0 \in Sessions, ttl0 \in RefreshTtls :
            req = [r \in Requests |->
                     [pc |-> "idle", token |-> NoToken, sid |-> s0, ttl |-> ttl0,
                      minted |-> NoToken, outcome |-> "none", started |-> 0,
                      reuse |-> FALSE, revokedAtLock |-> FALSE]]
      BY DEF Init
    <2>3. sess \in [Sessions -> Session] /\ issued \subseteq Token
      BY <2>1 DEF Init, Session, Token
    <2>4. req \in [Requests -> Request]
      BY <2>2 DEF Request, PC, Outcome
    <2>5. now \in Nat /\ lock \in [Sessions -> Nat] /\ marks \subseteq Mark
      BY DEF Init
    <2>6. HoldsTokens
      BY <2>2 DEF HoldsTokens
    <2> QED BY <2>3, <2>4, <2>5, <2>6 DEF TypeInv, TypeOK
  <1>2. TypeInv /\ [Next]_vars => TypeInv'
    <2> SUFFICES ASSUME TypeInv, [Next]_vars PROVE TypeInv'
      OBVIOUS
    <2> USE RotationAssumption DEF TypeInv, TypeOK, HoldsTokens
    <2>1. ASSUME NEW r \in Requests, Lookup(r) PROVE TypeInv'
      <3>1. PICK t \in issued, ttl \in RefreshTtls :
              LET arrived == [req[r] EXCEPT !.token = t, !.ttl = ttl, !.started = now]
              IN  \/ \E s \in findByRefreshToken(t) :
                       req' = [req EXCEPT ![r] = [arrived EXCEPT !.pc = "acquire", !.sid = s]]
                  \/ /\ findByRefreshToken(t) = {}
                     /\ req' = [req EXCEPT ![r] = [arrived EXCEPT !.pc = "fallback"]]
        BY <2>1 DEF Lookup
      <3>2. t \in Token /\ req[r] \in Request
        OBVIOUS
      <3> DEFINE arrived == [req[r] EXCEPT !.token = t, !.ttl = ttl, !.started = now]
      <3> DEFINE Arrival(q) == /\ q \in Request
                               /\ q.pc \in {"acquire", "fallback"} /\ q.token = t
                               /\ q.outcome = req[r].outcome /\ q.minted = req[r].minted
      <3>3. /\ \A s \in Sessions : Arrival([arrived EXCEPT !.pc = "acquire", !.sid = s])
            /\ Arrival([arrived EXCEPT !.pc = "fallback"])
        BY <3>2 DEF Request, PC, Active
      <3>4. \E q : Arrival(q) /\ req' = [req EXCEPT ![r] = q]
        BY <3>1, <3>3 DEF findByRefreshToken
      <3>5. PICK q : Arrival(q) /\ req' = [req EXCEPT ![r] = q]
        BY <3>4
      <3>6. req' \in [Requests -> Request] /\ req'[r] = q
            /\ \A p \in Requests \ {r} : req'[p] = req[p]
        BY <3>5
      <3> HIDE DEF arrived
      <3> QED BY <2>1, <3>2, <3>5, <3>6 DEF Lookup
    <2>2. ASSUME NEW r \in Requests, Fallback(r) PROVE TypeInv'
      <3>1. req[r].pc = "fallback" /\ req[r] \in Request
        BY <2>2 DEF Fallback
      <3>2. CASE FailTo(r, "done", "SESSION_NOT_FOUND")
        BY <2>2, <3>1, <3>2 DEF Fallback, FailTo, Request, PC, Outcome
      <3>3. CASE req' = [req EXCEPT ![r].pc = "acquire", ![r].sid = req[r].token.sid]
        <4>1. req[r].token.sid \in Sessions
          BY <3>1 DEF Token
        <4>2. PICK s \in Sessions : req' = [req EXCEPT ![r].pc = "acquire", ![r].sid = s]
          BY <3>3, <4>1
        <4> QED BY <2>2, <3>1, <4>2 DEF Fallback, Request, PC, Active
      <3> QED BY <2>2, <3>2, <3>3 DEF Fallback
    <2>3. ASSUME NEW r \in Requests, Acquire(r) PROVE TypeInv'
      <3>1. CASE FailTo(r, "done", "RATE_LIMIT_LOGIN") /\ UNCHANGED lock
        BY <2>3, <3>1 DEF Acquire, FailTo, Request, PC, Outcome
      <3>2. CASE \E ttl \in LockTtls :
                   /\ lock' = [lock EXCEPT ![req[r].sid] = now + ttl]
                   /\ req' = [req EXCEPT
                                ![r].pc = IF ReuseDetection THEN "checkUsed" ELSE "validate",
                                ![r].revokedAtLock = sess[req[r].sid].revoked]
        <4>1. PICK ttl \in LockTtls : lock' = [lock EXCEPT ![req[r].sid] = now + ttl]
          BY <3>2
        <4>2. lock' \in [Sessions -> Nat]
          <5>1. ttl \in Nat /\ now + ttl \in Nat
            OBVIOUS
          <5> QED BY <4>1, <5>1
        <4>3. sess[req[r].sid].revoked \in BOOLEAN
          BY DEF Request, Session
        <4>4. PICK label \in {"checkUsed", "validate"} :
                req' = [req EXCEPT ![r].pc = label,
                                   ![r].revokedAtLock = sess[req[r].sid].revoked]
          BY <3>2
        <4>5. req[r].pc = "acquire"
          BY <2>3 DEF Acquire
        <4>6. label \in PC /\ label \notin {"idle", "update"}
          BY <4>4 DEF PC, Active, Critical
        <4> DEFINE q == [req[r] EXCEPT !.pc = label,
                                       !.revokedAtLock = sess[req[r].sid].revoked]
        <4>7. q \in Request /\ q.pc = label /\ q.token = req[r].token
              /\ q.outcome = req[r].outcome /\ q.minted = req[r].minted
          <5>1. req[r] \in Request
            OBVIOUS
          <5> HIDE DEF TypeInv, TypeOK, HoldsTokens
          <5> QED BY <4>3, <4>6, <5>1 DEF Request
        <4>8. req[r].token \in Token
              /\ (req[r].outcome = "tokens" => req[r].minted \in Token)
          BY <4>5
        <4>9. req' = [req EXCEPT ![r] = q]
          BY <4>4
        <4> HIDE DEF q
        <4>10. req' \in [Requests -> Request] /\ HoldsTokens'
          BY <4>6, <4>7, <4>8, <4>9, Moved
        <4> QED BY <2>3, <4>2, <4>10 DEF Acquire
      <3> QED BY <2>3, <3>1, <3>2 DEF Acquire
    <2>4. ASSUME NEW r \in Requests, CheckUsed(r) PROVE TypeInv'
      BY <2>4 DEF CheckUsed, GoTo, Request, PC, Active, Critical
    <2>5. ASSUME NEW r \in Requests, ReuseRead(r) PROVE TypeInv'
      BY <2>5 DEF ReuseRead, GoTo, FailTo, Request, PC, Active, Critical, Outcome
    <2>6. ASSUME NEW r \in Requests, ReuseMint(r) PROVE TypeInv'
      <3>1. generateRefreshToken(req[r].sid, req[r].ttl) \in Token
        BY MintType DEF Request
      <3>2. PICK t \in Token : req' = [req EXCEPT ![r].pc = "update", ![r].minted = t]
        BY <2>6, <3>1 DEF ReuseMint
      <3> DEFINE q == [req[r] EXCEPT !.pc = "update", !.minted = t]
      <3>3. q \in Request /\ q.minted \in Token /\ q.token = req[r].token
        <4>1. req[r] \in Request /\ t \in Token /\ "update" \in PC
          BY <3>2 DEF PC, Active, Critical
        <4> HIDE DEF TypeInv, TypeOK, HoldsTokens
        <4> QED BY <4>1 DEF Request
      <3>4. req[r].token \in Token
        BY <2>6 DEF ReuseMint
      <3>5. req' = [req EXCEPT ![r] = q]
        BY <3>2
      <3> HIDE DEF q
      <3>6. req' \in [Requests -> Request] /\ HoldsTokens'
        BY <3>3, <3>4, <3>5, Moved
      <3> QED BY <2>6, <3>6 DEF ReuseMint
    <2>7. ASSUME NEW r \in Requests, Validate(r) PROVE TypeInv'
      BY <2>7 DEF Validate, GoTo, FailTo, Request, PC, Active, Critical, Outcome
    <2>8. ASSUME NEW r \in Requests, Recheck(r) PROVE TypeInv'
      <3>1. CASE sess[req[r].sid].revoked
        BY <2>8, <3>1 DEF Recheck, FailTo, Request, PC, Active, Critical, Outcome
      <3>2. CASE ~sess[req[r].sid].revoked
        <4>1. PICK label \in {"mark", "mint"} : GoTo(r, label)
          BY <2>8, <3>2 DEF Recheck
        <4> QED BY <2>8, <4>1 DEF Recheck, GoTo, Request, PC, Active, Critical
      <3> QED BY <3>1, <3>2
    <2>9. ASSUME NEW r \in Requests, MarkUsed(r) PROVE TypeInv'
      BY <2>9 DEF MarkUsed, GoTo, FailTo, Request, PC, Active, Critical, Outcome, Mark
    <2>10. ASSUME NEW r \in Requests, Mint(r) PROVE TypeInv'
      <3>1. generateRefreshToken(req[r].sid, req[r].ttl) \in Token
        BY MintType DEF Request
      <3>2. PICK t \in Token : req' = [req EXCEPT ![r].pc = "update", ![r].minted = t]
        BY <2>10, <3>1 DEF Mint
      <3> DEFINE q == [req[r] EXCEPT !.pc = "update", !.minted = t]
      <3>3. q \in Request /\ q.minted \in Token /\ q.token = req[r].token
        <4>1. req[r] \in Request /\ t \in Token /\ "update" \in PC
          BY <3>2 DEF PC, Active, Critical
        <4> HIDE DEF TypeInv, TypeOK, HoldsTokens
        <4> QED BY <4>1 DEF Request
      <3>4. req[r].token \in Token
        BY <2>10 DEF Mint
      <3>5. req' = [req EXCEPT ![r] = q]
        BY <3>2
      <3> HIDE DEF q
      <3>6. req' \in [Requests -> Request] /\ HoldsTokens'
        BY <3>3, <3>4, <3>5, Moved
      <3> QED BY <2>10, <3>6 DEF Mint
    <2>11. ASSUME NEW r \in Requests, UpdateTokens(r) PROVE TypeInv'
      BY <2>11 DEF UpdateTokens, FailTo, Request, PC, Active, Critical, Outcome, Session
    <2>12. ASSUME NEW r \in Requests, Release(r) PROVE TypeInv'
      BY <2>12 DEF Release, GoTo, Request, PC
    <2>13. ASSUME NEW r \in Requests, Throw(r) PROVE TypeInv'
      <3>1. PICK label \in {"release", "done"} : FailTo(r, label, "INTERNAL_ERROR")
        BY <2>13 DEF Throw
      <3>2. req[r].pc # "idle"
        BY <2>13 DEF Throw, Active, Critical
      <3> DEFINE q == [req[r] EXCEPT !.pc = label, !.outcome = "INTERNAL_ERROR"]
      <3>3. req[r] \in Request /\ req' = [req EXCEPT ![r] = q]
        BY <3>1 DEF FailTo
      <3>4. q \in Request /\ q.token = req[r].token
        BY <3>1, <3>3 DEF Request, PC, Active, Critical, Outcome
      <3>5. q.pc # "update" /\ q.outcome # "tokens"
        BY <3>1, <3>3 DEF Request
      <3> HIDE DEF q
      <3>6. req' \in [Requests -> Request] /\ HoldsTokens'
        BY <3>2, <3>3, <3>4, <3>5, Moved
      <3> QED BY <2>13, <3>6 DEF Throw
    <2>14. ASSUME NEW r \in Requests, Crash(r) PROVE TypeInv'
      <3>1. req[r].pc # "idle"
        BY <2>14 DEF Crash, Active, Critical
      <3> QED BY <2>14, <3>1 DEF Crash, GoTo, Request, PC
    <2>15. ASSUME NEW s \in Sessions, RevokeSession(s) PROVE TypeInv'
      BY <2>15 DEF RevokeSession, Session
    <2>16. CASE RevokeAllUserSessions
      <3>1. \A s \in Sessions : [sess[s] EXCEPT !.revoked = TRUE, !.version = @ + 1] \in Session
        <4> TAKE s \in Sessions
        <4>1. sess[s] \in Session /\ sess[s].version + 1 \in Nat
          BY DEF Session
        <4> QED BY <4>1 DEF Session
      <3>2. sess' \in [Sessions -> Session]
        BY <2>16, <3>1 DEF RevokeAllUserSessions
      <3> QED BY <2>16, <3>2 DEF RevokeAllUserSessions
    <2>17. CASE Tick
      BY <2>17 DEF Tick
    <2>18. CASE UNCHANGED vars
      BY <2>18 DEF vars
    <2> QED BY <2>1, <2>2, <2>3, <2>4, <2>5, <2>6, <2>7, <2>8, <2>9, <2>10, <2>11, <2>12,
               <2>13, <2>14, <2>15, <2>16, <2>17, <2>18 DEF Next, Step, Quiescent
  <1> QED BY <1>1, <1>2, PTL DEF Spec

\* Every variable keeps its type, whatever requests, revocations, faults and time do.
THEOREM TypeCorrect == Spec => []TypeOK
  <1>1. TypeInv => TypeOK
    BY DEF TypeInv
  <1> QED BY <1>1, TypeInvariant, PTL
-----------------------------------------------------------------------------
(* What the steps leave alone. *)

\* The steps of a request other than arriving, taking the lock and giving it back.
Inner(r) ==
    \/ CheckUsed(r) \/ ReuseRead(r) \/ ReuseMint(r) \/ Validate(r) \/ Recheck(r)
    \/ MarkUsed(r) \/ Mint(r) \/ UpdateTokens(r) \/ Throw(r) \/ Crash(r)

\* They keep the lock, the clock and what the request was asked to do.
LEMMA InnerFrame ==
    ASSUME TypeOK, NEW r \in Requests, Inner(r)
    PROVE  /\ UNCHANGED <<now, lock, issued>>
           /\ \A p \in Requests \ {r} : req'[p] = req[p]
           /\ req'[r].sid = req[r].sid /\ req'[r].token = req[r].token
           /\ req'[r].started = req[r].started /\ req'[r].ttl = req[r].ttl
           /\ req'[r].revokedAtLock = req[r].revokedAtLock
           /\ req[r].pc \in Active
           /\ req'[r].pc \in Critical => req[r].pc \in Critical
           /\ req'[r].pc \notin {"idle", "fallback", "acquire"}
  <1> USE DEF TypeOK, Request
  <1>1. CASE CheckUsed(r)
    BY <1>1 DEF CheckUsed, GoTo, Active, Critical
  <1>2. CASE ReuseRead(r)
    BY <1>2 DEF ReuseRead, GoTo, FailTo, Active, Critical
  <1>3. CASE ReuseMint(r)
    BY <1>3 DEF ReuseMint, Active, Critical
  <1>4. CASE Validate(r)
    BY <1>4 DEF Validate, GoTo, FailTo, Active, Critical
  <1>5. CASE Recheck(r)
    BY <1>5 DEF Recheck, GoTo, FailTo, Active, Critical
  <1>6. CASE MarkUsed(r)
    BY <1>6 DEF MarkUsed, GoTo, FailTo, Active, Critical
  <1>7. CASE Mint(r)
    BY <1>7 DEF Mint, Active, Critical
  <1>8. CASE UpdateTokens(r)
    BY <1>8 DEF UpdateTokens, FailTo, Active, Critical
  <1>9. CASE Throw(r)
    BY <1>9 DEF Throw, FailTo, Active, Critical
  <1>10. CASE Crash(r)
    BY <1>10 DEF Crash, GoTo, Active, Critical
  <1> QED BY <1>1, <1>2, <1>3, <1>4, <1>5, <1>6, <1>7, <1>8, <1>9, <1>10 DEF Inner

\* An arriving request holds an issued token and is at most found a session with that token.
LEMMA LookupFrame ==
    ASSUME TypeOK, NEW r \in Requests, Lookup(r)
    PROVE  /\ UNCHANGED <<now, sess, lock, marks, issued>>
           /\ req[r].pc = "idle"
           /\ \A p \in Requests \ {r} : req'[p] = req[p]
           /\ req'[r].token \in issued /\ req'[r].started = now /\ req'[r].sid \in Sessions
           /\ \/ req'[r].pc = "fallback"
              \/ req'[r].pc = "acquire" /\ sess[req'[r].sid].rt = req'[r].token
           /\ req'[r].outcome = req[r].outcome /\ req'[r].minted = req[r].minted
           /\ req'[r].revokedAtLock = req[r].revokedAtLock
  <1>1. PICK t \in issued, ttl \in RefreshTtls :
          LET arrived == [req[r] EXCEPT !.token = t, !.ttl = ttl, !.started = now]
          IN  \/ \E s \in findByRefreshToken(t) :
                   req' = [req EXCEPT ![r] = [arrived EXCEPT !.pc = "acquire", !.sid = s]]
              \/ /\ findByRefreshToken(t) = {}
                 /\ req' = [req EXCEPT ![r] = [arrived EXCEPT !.pc = "fallback"]]
    BY DEF Lookup
  <1> DEFINE arrived == [req[r] EXCEPT !.token = t, !.ttl = ttl, !.started = now]
  <1>2. req[r] \in Request /\ req \in [Requests -> Request]
    BY DEF TypeOK
  <1>3. CASE \E s \in findByRefreshToken(t) :
               req' = [req EXCEPT ![r] = [arrived EXCEPT !.pc = "acquire", !.sid = s]]
    <2>1. PICK s \in Sessions :
            /\ sess[s].rt = t
            /\ req' = [req EXCEPT ![r] = [arrived EXCEPT !.pc = "acquire", !.sid = s]]
      BY <1>3 DEF findByRefreshToken
    <2>2. req'[r] = [arrived EXCEPT !.pc = "acquire", !.sid = s]
          /\ \A p \in Requests \ {r} : req'[p] = req[p]
      BY <1>2, <2>1
    <2> QED BY <1>2, <2>1, <2>2 DEF Lookup, Request
  <1>4. CASE req' = [req EXCEPT ![r] = [arrived EXCEPT !.pc = "fallback"]]
    <2>1. req'[r] = [arrived EXCEPT !.pc = "fallback"]
          /\ \A p \in Requests \ {r} : req'[p] = req[p]
      BY <1>2, <1>4
    <2> QED BY <1>2, <2>1 DEF Lookup, Request
  <1> QED BY <1>1, <1>3, <1>4

\* A request whose hash is not in the table ends, or goes on with the session its token names.
LEMMA FallbackFrame ==
    ASSUME TypeOK, NEW r \in Requests, Fallback(r)
    PROVE  /\ UNCHANGED <<now, sess, lock, marks, issued>>
           /\ req[r].pc = "fallback"
           /\ \A p \in Requests \ {r} : req'[p] = req[p]
           /\ req'[r].pc = "done" \/ (req'[r].pc = "acquire" /\ req'[r].sid = req[r].token.sid)
           /\ req'[r].started = req[r].started /\ req'[r].token = req[r].token
           /\ req'[r].minted = req[r].minted /\ req'[r].revokedAtLock = req[r].revokedAtLock
           /\ req'[r].outcome \in {req[r].outcome, "SESSION_NOT_FOUND"}
  <1>1. req[r] \in Request /\ req \in [Requests -> Request]
    BY DEF TypeOK
  <1>2. CASE FailTo(r, "done", "SESSION_NOT_FOUND")
    BY <1>1, <1>2 DEF Fallback, FailTo, Request
  <1>3. CASE req' = [req EXCEPT ![r].pc = "acquire", ![r].sid = req[r].token.sid]
    BY <1>1, <1>3 DEF Fallback, Request
  <1> QED BY <1>2, <1>3 DEF Fallback

\* What happens is an arrival, a step towards or out of the lock, an inner step, or none of them.
LEMMA NextCases ==
    ASSUME [Next]_vars
    PROVE  \/ \E r \in Requests : \/ Lookup(r) \/ Fallback(r) \/ Acquire(r)
                                  \/ Inner(r) \/ Release(r)
           \/ \E s \in Sessions : RevokeSession(s)
           \/ RevokeAllUserSessions
           \/ Tick
           \/ UNCHANGED vars
  BY DEF Next, Step, Inner, Quiescent
-----------------------------------------------------------------------------
(* The lock. *)

\* A request at work is within its time, and under the lock the lock key outlives it.
LockInv ==
    /\ \A r \in Requests :
         /\ req[r].pc \in Active => req[r].started <= now /\ now <= req[r].started + MaxRequest
         /\ req[r].pc \in Critical => req[r].started + MaxRequest < lock[req[r].sid]
    /\ MutualExclusion

LEMMA LockInvariant ==
    ASSUME ExclusiveLock
    PROVE  Spec => []LockInv
  <1>1. Init => LockInv
    BY DEF Init, LockInv, MutualExclusion, Active, Critical
  <1>2. TypeInv /\ LockInv /\ [Next]_vars => LockInv'
    <2> SUFFICES ASSUME TypeInv, LockInv, [Next]_vars PROVE LockInv'
      OBVIOUS
    <2>t. TypeOK
      BY DEF TypeInv
    <2> USE ExclusiveLock, RotationAssumption, <2>t DEF TypeOK, LockInv, MutualExclusion, ExclusiveLock, Request
    <2>1. ASSUME NEW r \in Requests, Lookup(r) PROVE LockInv'
      BY <2>1, LookupFrame DEF Active, Critical
    <2>2. ASSUME NEW r \in Requests, Fallback(r) PROVE LockInv'
      BY <2>2, FallbackFrame DEF Active, Critical
    <2>3. ASSUME NEW r \in Requests, Acquire(r) PROVE LockInv'
      <3>1. CASE FailTo(r, "done", "RATE_LIMIT_LOGIN") /\ UNCHANGED lock
        BY <2>3, <3>1 DEF Acquire, FailTo, Active, Critical
      <3>2. CASE ~LockTaken(req[r].sid) /\ lock' # lock
        <4>1. PICK ttl \in LockTtls : lock' = [lock EXCEPT ![req[r].sid] = now + ttl]
          BY <2>3, <3>2 DEF Acquire
        <4>2. /\ \A p \in Requests \ {r} : req'[p] = req[p]
              /\ req'[r].sid = req[r].sid /\ req'[r].started = req[r].started
              /\ req[r].pc \in Active /\ UNCHANGED now
          BY <2>3 DEF Acquire, Active, FailTo
        <4>3. lock[req[r].sid] <= now
          BY <3>2 DEF LockTaken
        <4>4. \A p \in Requests \ {r} : req[p].pc \in Critical => req[p].sid # req[r].sid
          BY <4>3 DEF Critical, Active
        <4>5. lock'[req[r].sid] > req[r].started + MaxRequest
          BY <4>1, <4>2
        <4>6. \A s \in Sessions \ {req[r].sid} : lock'[s] = lock[s]
          BY <4>1
        <4> QED BY <4>2, <4>4, <4>5, <4>6
      <3> QED BY <2>3, <3>1, <3>2 DEF Acquire, LockTaken
    <2>4. ASSUME NEW r \in Requests, Inner(r) PROVE LockInv'
      BY <2>4, InnerFrame DEF Active
    <2>5. ASSUME NEW r \in Requests, Release(r) PROVE LockInv'
      <3>1. /\ \A p \in Requests \ {r} : req'[p] = req[p]
            /\ req[r].pc = "release" /\ req'[r].pc = "done" /\ UNCHANGED now
        BY <2>5 DEF Release, GoTo
      <3>2. \A s \in Sessions \ {req[r].sid} : lock'[s] = lock[s]
        BY <2>5 DEF Release
      <3>3. \A p \in Requests \ {r} : req[p].pc \in Critical => req[p].sid # req[r].sid
        BY <3>1 DEF Critical
      <3> QED BY <3>1, <3>2, <3>3 DEF Active, Critical
    <2>6. ASSUME NEW s \in Sessions, RevokeSession(s) PROVE LockInv'
      BY <2>6 DEF RevokeSession
    <2>7. CASE RevokeAllUserSessions
      BY <2>7 DEF RevokeAllUserSessions
    <2>8. CASE Tick
      BY <2>8 DEF Tick
    <2>9. CASE UNCHANGED vars
      BY <2>9 DEF vars
    <2> QED BY <2>1, <2>2, <2>3, <2>4, <2>5, <2>6, <2>7, <2>8, <2>9, NextCases
  <1> QED BY <1>1, <1>2, TypeInvariant, PTL DEF Spec

\* When no request outlives its lock, two requests are never under the lock of one session.
THEOREM MutualExclusionHolds ==
    ASSUME ExclusiveLock
    PROVE  Spec => []MutualExclusion
  <1>1. LockInv => MutualExclusion
    BY DEF LockInv
  <1> QED BY <1>1, LockInvariant, PTL
-----------------------------------------------------------------------------
(* The session a request works on. *)

\* A row holds tokens of its own session, and a found session is the one the token names.
OwnSession ==
    /\ \A s \in Sessions : sess[s].rt.sid = s
    /\ \A r \in Requests :
         /\ req[r].pc \in Critical \cup {"acquire"} => req[r].sid = req[r].token.sid
         /\ req[r].pc = "update" => req[r].minted.sid = req[r].sid

LEMMA OwnSessionInvariant == Spec => []OwnSession
  <1>1. Init => OwnSession
    BY DEF Init, OwnSession, Critical
  <1>2. TypeInv /\ OwnSession /\ [Next]_vars => OwnSession'
    <2> SUFFICES ASSUME TypeInv, OwnSession, [Next]_vars PROVE OwnSession'
      OBVIOUS
    <2>t. TypeOK
      BY DEF TypeInv
    <2> USE <2>t DEF TypeOK, OwnSession, Request
    <2>1. ASSUME NEW r \in Requests, Lookup(r) PROVE OwnSession'
      <3>1. req'[r].pc \in Critical \cup {"acquire"} => req'[r].sid = req'[r].token.sid
        BY <2>1, LookupFrame DEF Critical
      <3>2. req'[r].pc # "update"
        BY <2>1, LookupFrame
      <3> QED BY <2>1, <3>1, <3>2, LookupFrame
    <2>2. ASSUME NEW r \in Requests, Fallback(r) PROVE OwnSession'
      BY <2>2, FallbackFrame DEF Critical
    <2>3. ASSUME NEW r \in Requests, Acquire(r) PROVE OwnSession'
      BY <2>3 DEF Acquire, FailTo, Critical
    <2>4. ASSUME NEW r \in Requests, Inner(r) PROVE OwnSession'
      <3>1. CASE UpdateTokens(r)
        <4>1. /\ req[r].minted.sid = req[r].sid /\ req[r].sid \in Sessions
              /\ req[r].minted \in Token
          BY <3>1 DEF UpdateTokens, TypeInv, HoldsTokens
        <4>2. \A s \in Sessions : sess'[s].rt = IF s = req[r].sid THEN req[r].minted
                                                                 ELSE sess[s].rt
          BY <3>1 DEF UpdateTokens, Session
        <4>3. \A s \in Sessions : sess'[s].rt.sid = s
          BY <4>1, <4>2
        <4>4. req'[r].pc = "release"
          BY <3>1 DEF UpdateTokens, FailTo
        <4> QED BY <2>4, <4>3, <4>4, InnerFrame
      <3>2. CASE ReuseMint(r) \/ Mint(r)
        <4>1. UNCHANGED sess /\ req'[r].minted.sid = req[r].sid
          BY <3>2 DEF ReuseMint, Mint, generateRefreshToken
        <4>2. req'[r].minted.sid = req'[r].sid
          BY <2>4, <4>1, InnerFrame
        <4>3. req'[r].pc \in Critical \cup {"acquire"} => req'[r].sid = req'[r].token.sid
          BY <2>4, InnerFrame
        <4> QED BY <2>4, <4>1, <4>2, <4>3, InnerFrame
      <3>3. CASE ~UpdateTokens(r) /\ ~ReuseMint(r) /\ ~Mint(r)
        <4>1. UNCHANGED sess /\ req'[r].pc # "update"
          BY <2>4, <3>3 DEF Inner, CheckUsed, ReuseRead, Validate, Recheck, MarkUsed, Throw,
                            Crash, GoTo, FailTo
        <4> QED BY <2>4, <4>1, InnerFrame
      <3> QED BY <3>1, <3>2, <3>3
    <2>5. ASSUME NEW r \in Requests, Release(r) PROVE OwnSession'
      BY <2>5 DEF Release, GoTo, Critical
    <2>6. ASSUME NEW s \in Sessions, RevokeSession(s) PROVE OwnSession'
      BY <2>6 DEF RevokeSession, Session
    <2>7. CASE RevokeAllUserSessions
      BY <2>7 DEF RevokeAllUserSessions, Session
    <2>8. CASE Tick
      BY <2>8 DEF Tick
    <2>9. CASE UNCHANGED vars
      BY <2>9 DEF vars
    <2> QED BY <2>1, <2>2, <2>3, <2>4, <2>5, <2>6, <2>7, <2>8, <2>9, NextCases
  <1> QED BY <1>1, <1>2, TypeInvariant, PTL DEF Spec

\* The different-session branch of refreshToken is dead code: a row found by hash, or by the
\* token's own claim, is always a row of the token's session.
THEOREM TheftBranchIsDead == Spec => []TheftBranchUnreachable
  <1>1. OwnSession => TheftBranchUnreachable
    BY DEF OwnSession, TheftBranchUnreachable
  <1> QED BY <1>1, OwnSessionInvariant, PTL
-----------------------------------------------------------------------------
(* Spending a token. *)

\* No token comes from the future.
Dates ==
    /\ \A t \in issued : t.iat <= now
    /\ \A r \in Requests :
         /\ req[r].pc # "idle" => req[r].token.iat <= now
         /\ req[r].pc = "update" \/ req[r].outcome = "tokens" => req[r].minted.iat <= now

\* A marker was set in the past, outlives its token, and was the only one while the token lived.
MarksInv ==
    /\ \A m \in marks : m.at <= now
    /\ MarkOutlivesToken
    /\ \A m1, m2 \in marks :
         /\ m1.token = m2.token
         /\ m1.at < Exp(m1.token) /\ m2.at < Exp(m2.token)
         => m1 = m2

LEMMA DatesInvariant == Spec => []Dates
  <1>1. Init => Dates
    <2> SUFFICES ASSUME Init PROVE Dates
      OBVIOUS
    <2>1. \A t \in issued : t.iat = 0
      BY DEF Init
    <2>2. \A r \in Requests : req[r].pc = "idle" /\ req[r].outcome = "none"
      BY DEF Init
    <2> QED BY <2>1, <2>2 DEF Dates, Init
  <1>2. TypeInv /\ TypeInv' /\ Dates /\ [Next]_vars => Dates'
    <2> SUFFICES ASSUME TypeInv, TypeInv', Dates, [Next]_vars PROVE Dates'
      OBVIOUS
    <2>t. TypeOK /\ HoldsTokens
      BY DEF TypeInv
    <2> USE <2>t DEF TypeOK, Dates, Request
    <2>1. ASSUME NEW r \in Requests, Lookup(r) PROVE Dates'
      BY <2>1, LookupFrame
    <2>2. ASSUME NEW r \in Requests, Fallback(r) PROVE Dates'
      BY <2>2, FallbackFrame
    <2>3. ASSUME NEW r \in Requests, Acquire(r) PROVE Dates'
      BY <2>3 DEF Acquire, FailTo
    <2>4. ASSUME NEW r \in Requests, Inner(r) PROVE Dates'
      <3>1. CASE ReuseMint(r) \/ Mint(r)
        <4>1. req'[r].minted.iat = now
          BY <3>1 DEF ReuseMint, Mint, generateRefreshToken
        <4> QED BY <2>4, <4>1, InnerFrame DEF Active, Critical
      <3>2. CASE ~ReuseMint(r) /\ ~Mint(r)
        <4>1. /\ req'[r].minted = req[r].minted
              /\ req'[r].pc = "update" \/ req'[r].outcome = "tokens"
                   => req[r].pc = "update" \/ req[r].outcome = "tokens"
          BY <2>4, <3>2 DEF Inner, CheckUsed, ReuseRead, Validate, Recheck, MarkUsed,
                            UpdateTokens, Throw, Crash, GoTo, FailTo
        <4> QED BY <2>4, <4>1, InnerFrame DEF Active, Critical
      <3> QED BY <3>1, <3>2
    <2>5. ASSUME NEW r \in Requests, Release(r) PROVE Dates'
      BY <2>5 DEF Release, GoTo
    <2>6. ASSUME NEW s \in Sessions, RevokeSession(s) PROVE Dates'
      BY <2>6 DEF RevokeSession
    <2>7. CASE RevokeAllUserSessions
      BY <2>7 DEF RevokeAllUserSessions
    <2>8. CASE Tick
      <3>1. /\ \A t \in issued : t.iat \in Nat
            /\ \A r \in Requests :
                 /\ req[r].pc # "idle" => req[r].token.iat \in Nat
                 /\ req[r].pc = "update" \/ req[r].outcome = "tokens"
                      => req[r].minted.iat \in Nat
        BY DEF HoldsTokens, Token
      <3> QED BY <2>8, <3>1 DEF Tick
    <2>9. CASE UNCHANGED vars
      BY <2>9 DEF vars
    <2> QED BY <2>1, <2>2, <2>3, <2>4, <2>5, <2>6, <2>7, <2>8, <2>9, NextCases
  <1> QED BY <1>1, <1>2, TypeInvariant, PTL DEF Spec

LEMMA MarksInvariant ==
    ASSUME UniformTtl
    PROVE  Spec => []MarksInv
  <1>1. Init => MarksInv
    BY DEF Init, MarksInv, MarkOutlivesToken
  <1>2. TypeInv /\ Dates /\ MarksInv /\ [Next]_vars => MarksInv'
    <2> SUFFICES ASSUME TypeInv, Dates, MarksInv, [Next]_vars PROVE MarksInv'
      OBVIOUS
    <2>t. TypeOK /\ HoldsTokens
      BY DEF TypeInv
    <2>1. CASE UNCHANGED marks
      <3>1. now' >= now /\ now \in Nat /\ now' \in Nat
        <4>1. now' = now \/ now' = now + 1
          BY NextCases, LookupFrame, InnerFrame, <2>t
             DEF Fallback, Acquire, Release, RevokeSession, RevokeAllUserSessions, Tick, vars
        <4> QED BY <2>t, <4>1 DEF TypeOK
      <3>2. \A m \in marks : m.at \in Nat
        BY <2>t DEF TypeOK, Mark
      <3> QED BY <2>1, <3>1, <3>2 DEF MarksInv, MarkOutlivesToken, Exp
    <2>2. CASE marks' # marks
      <3>1. PICK r \in Requests : MarkUsed(r)
        BY <2>2, NextCases, LookupFrame, <2>t
           DEF Inner, Fallback, Acquire, Release, RevokeSession, RevokeAllUserSessions, Tick,
               vars, CheckUsed, ReuseRead, ReuseMint, Validate, Recheck, Mint, UpdateTokens,
               Throw, Crash
      <3> DEFINE t == req[r].token
                 m0 == [token |-> t, by |-> r, at |-> now, until |-> now + req[r].ttl]
      <3>2. ~Marked(t) /\ marks' = marks \cup {m0} /\ now' = now
        BY <2>2, <3>1 DEF MarkUsed
      <3>3. /\ t \in Token /\ t.iat \in Nat /\ t.ttl \in Nat /\ t.iat <= now
            /\ now \in Nat /\ req[r].ttl = t.ttl
        BY <3>1, <2>t, RotationAssumption
           DEF TypeOK, HoldsTokens, Token, Dates, MarkUsed, Request, UniformTtl
      <3>4. m0.at = now /\ m0.token = t /\ Exp(t) <= m0.until /\ Exp(t) \in Nat
        BY <3>3 DEF Exp
      <3>5. \A m \in marks : m.token = t => Exp(t) <= now
        <4> TAKE m \in marks
        <4> HAVE m.token = t
        <4>1. m.until <= now /\ Exp(t) <= m.until
          BY <3>2, <3>3, <2>t DEF Marked, TypeOK, Mark, MarksInv, MarkOutlivesToken
        <4>2. m.until \in Nat
          BY <2>t DEF TypeOK, Mark
        <4> QED BY <3>3, <3>4, <4>1, <4>2
      <3> HIDE DEF m0, t
      <3> QED BY <3>2, <3>3, <3>4, <3>5 DEF MarksInv, MarkOutlivesToken, Exp
    <2> QED BY <2>1, <2>2
  <1> QED BY <1>1, <1>2, TypeInvariant, DatesInvariant, PTL DEF Spec

\* Without hybrid delivery a token is exchanged at most once while it is valid: neither locks
\* nor the number of requests matter.
THEOREM TokensAreSpentOnce ==
    ASSUME UniformTtl
    PROVE  Spec => []SpentOnce
  <1>1. MarksInv => SpentOnce
    BY DEF MarksInv, SpentOnce
  <1> QED BY <1>1, MarksInvariant, PTL

\* Without hybrid delivery the used-token marker outlives the token it marks.
THEOREM MarkersOutliveTokens ==
    ASSUME UniformTtl
    PROVE  Spec => []MarkOutlivesToken
  <1>1. MarksInv => MarkOutlivesToken
    BY DEF MarksInv
  <1> QED BY <1>1, MarksInvariant, PTL
-----------------------------------------------------------------------------
(* Revocation. *)

\* A request whose session was revoked when it got the lock never reaches a step that yields
\* tokens; no request has an answer before the step that gives it.
RevokedInv ==
    \A r \in Requests :
        /\ req[r].pc \in {"idle", "fallback", "acquire"}
             => ~req[r].revokedAtLock /\ req[r].outcome # "tokens"
        /\ req[r].pc \in Critical \ {"release"} => req[r].outcome # "tokens"
        /\ req[r].revokedAtLock =>
             /\ sess[req[r].sid].revoked
             /\ req[r].pc \notin {"reuseMint", "mark", "mint", "update"}
             /\ req[r].outcome # "tokens"

LEMMA RevokedInvariant == Spec => []RevokedInv
  <1>1. Init => RevokedInv
    BY DEF Init, RevokedInv, Critical
  <1>2. TypeInv /\ RevokedInv /\ [Next]_vars => RevokedInv'
    <2> SUFFICES ASSUME TypeInv, RevokedInv, [Next]_vars PROVE RevokedInv'
      OBVIOUS
    <2>t. TypeOK
      BY DEF TypeInv
    <2> USE <2>t DEF TypeOK, RevokedInv, Request
    <2>1. ASSUME NEW r \in Requests, Lookup(r) PROVE RevokedInv'
      BY <2>1, LookupFrame DEF Critical
    <2>2. ASSUME NEW r \in Requests, Fallback(r) PROVE RevokedInv'
      BY <2>2, FallbackFrame DEF Critical
    <2>3. ASSUME NEW r \in Requests, Acquire(r) PROVE RevokedInv'
      <3>1. /\ \A p \in Requests \ {r} : req'[p] = req[p]
            /\ req[r].pc = "acquire" /\ UNCHANGED sess
        BY <2>3 DEF Acquire, FailTo
      <3>2. req[r].revokedAtLock = FALSE /\ req[r].outcome # "tokens"
        BY <3>1
      <3>3. /\ req'[r].sid = req[r].sid /\ req'[r].outcome # "tokens"
            /\ req'[r].pc \in {"done", "checkUsed", "validate"}
            /\ req'[r].revokedAtLock => sess[req[r].sid].revoked
        BY <2>3, <3>2 DEF Acquire, FailTo
      <3> QED BY <3>1, <3>3 DEF Critical
    <2>4. ASSUME NEW r \in Requests, Inner(r) PROVE RevokedInv'
      <3> DEFINE Kept == /\ \A s \in Sessions : sess[s].revoked => sess'[s].revoked
                         /\ req[r].revokedAtLock =>
                              /\ req'[r].pc \notin {"reuseMint", "mark", "mint", "update"}
                              /\ req'[r].outcome # "tokens"
                         /\ req'[r].pc \in Critical \ {"release"} => req'[r].outcome # "tokens"
      <3>1. ASSUME CheckUsed(r) PROVE Kept
        BY <3>1 DEF CheckUsed, GoTo, Critical
      <3>2. ASSUME ReuseRead(r) PROVE Kept
        BY <3>2 DEF ReuseRead, GoTo, FailTo, Critical
      <3>3. ASSUME ReuseMint(r) PROVE Kept
        BY <3>3 DEF ReuseMint, Critical
      <3>4. ASSUME Validate(r) PROVE Kept
        BY <3>4 DEF Validate, GoTo, FailTo, Critical
      <3>5. ASSUME Recheck(r) PROVE Kept
        BY <3>5 DEF Recheck, GoTo, FailTo, Critical
      <3>6. ASSUME MarkUsed(r) PROVE Kept
        BY <3>6 DEF MarkUsed, GoTo, FailTo, Critical
      <3>7. ASSUME Mint(r) PROVE Kept
        BY <3>7 DEF Mint, Critical
      <3>8. ASSUME UpdateTokens(r) PROVE Kept
        BY <3>8 DEF UpdateTokens, FailTo, Session, Critical
      <3>9. ASSUME Throw(r) PROVE Kept
        BY <3>9 DEF Throw, FailTo, Critical
      <3>10. ASSUME Crash(r) PROVE Kept
        BY <3>10 DEF Crash, GoTo, Critical
      <3>11. Kept
        <4> HIDE DEF Kept
        <4> QED BY <2>4, <3>1, <3>2, <3>3, <3>4, <3>5, <3>6, <3>7, <3>8, <3>9, <3>10 DEF Inner
      <3> QED BY <2>4, <3>11, InnerFrame
    <2>5. ASSUME NEW r \in Requests, Release(r) PROVE RevokedInv'
      BY <2>5 DEF Release, GoTo, Critical
    <2>6. ASSUME NEW s \in Sessions, RevokeSession(s) PROVE RevokedInv'
      BY <2>6 DEF RevokeSession, Session
    <2>7. CASE RevokeAllUserSessions
      BY <2>7 DEF RevokeAllUserSessions, Session
    <2>8. CASE Tick
      BY <2>8 DEF Tick
    <2>9. CASE UNCHANGED vars
      BY <2>9 DEF vars
    <2> QED BY <2>1, <2>2, <2>3, <2>4, <2>5, <2>6, <2>7, <2>8, <2>9, NextCases
  <1> QED BY <1>1, <1>2, TypeInvariant, PTL DEF Spec

\* Revocation before the lock is honoured on the ordinary path and on the reuse path.
THEOREM RevocationBeatsRefresh == Spec => []RevokedBeforeLockYieldsNothing
  <1>1. RevokedInv => RevokedBeforeLockYieldsNothing
    BY DEF RevokedInv, RevokedBeforeLockYieldsNothing
  <1> QED BY <1>1, RevokedInvariant, PTL

\* No step brings a revoked session back or changes a row without advancing its version.
THEOREM RevocationStays == Spec => RevocationIsFinal
  <1> DEFINE A == \A s \in Sessions :
                    /\ sess[s].revoked => sess'[s].revoked
                    /\ sess'[s] # sess[s] => sess'[s].version > sess[s].version
  <1>1. TypeInv /\ [Next]_vars => [A]_vars
    <2> SUFFICES ASSUME TypeInv, [Next]_vars PROVE A
      BY DEF vars
    <2>1. TypeOK
      BY DEF TypeInv
    <2>2. CASE \E r \in Requests : UpdateTokens(r)
      <3>1. PICK r \in Requests : UpdateTokens(r)
        BY <2>2
      <3>2. req[r].sid \in Sessions /\ req[r].minted \in Token
        BY <2>1, <3>1 DEF TypeInv, TypeOK, HoldsTokens, Request, UpdateTokens
      <3>3. \A s \in Sessions :
              /\ sess'[s].revoked = sess[s].revoked
              /\ sess'[s].version = IF s = req[r].sid THEN sess[s].version + 1
                                                     ELSE sess[s].version
              /\ s # req[r].sid => sess'[s] = sess[s]
        BY <2>1, <3>1, <3>2 DEF UpdateTokens, TypeOK, Session
      <3>4. \A s \in Sessions : sess[s].version \in Nat
        BY <2>1 DEF TypeOK, Session
      <3> QED BY <3>3, <3>4
    <2>3. CASE \E s \in Sessions : RevokeSession(s)
      BY <2>1, <2>3 DEF RevokeSession, TypeOK, Session
    <2>4. CASE RevokeAllUserSessions
      <3> SUFFICES ASSUME NEW s \in Sessions
                   PROVE  /\ sess[s].revoked => sess'[s].revoked
                          /\ sess'[s] # sess[s] => sess'[s].version > sess[s].version
        OBVIOUS
      <3>1. sess[s] \in Session /\ sess[s].version \in Nat
        BY <2>1 DEF TypeOK, Session
      <3>2. CASE sess[s].revoked
        BY <2>4, <3>2 DEF RevokeAllUserSessions
      <3>3. CASE ~sess[s].revoked
        <4>1. sess'[s] = [sess[s] EXCEPT !.revoked = TRUE, !.version = @ + 1]
          BY <2>4, <3>3 DEF RevokeAllUserSessions
        <4>2. sess'[s].version = sess[s].version + 1
          BY <3>1, <4>1 DEF Session
        <4> QED BY <3>1, <3>3, <4>2
      <3> QED BY <3>2, <3>3
    <2>5. CASE UNCHANGED sess
      BY <2>5
    <2> QED BY <2>1, <2>2, <2>3, <2>4, <2>5, NextCases, LookupFrame
            DEF Inner, CheckUsed, ReuseRead, ReuseMint, Validate, Recheck, MarkUsed, Mint,
                Throw, Crash, Fallback, Acquire, Release, Tick, vars
  <1>2. RevocationIsFinal <=> [][A]_vars
    BY PTL DEF RevocationIsFinal
  <1> QED BY <1>1, <1>2, TypeInvariant, PTL DEF Spec
-----------------------------------------------------------------------------
(* The row of the session a request is at. *)

\* The row is no younger than the token about to replace it, and the answer about to go out
\* is what the row says.
RowInv ==
    /\ \A s \in Sessions : sess[s].rt.iat <= now
    /\ \A r \in Requests :
         /\ req[r].pc = "update" => sess[req[r].sid].rt.iat <= req[r].minted.iat
         /\ req[r].pc = "release" /\ req[r].outcome = "tokens"
              => sess[req[r].sid].rt = req[r].minted

\* A step that leaves every token in the rows and every minted token alone.
LEMMA RowAlone ==
    ASSUME TypeInv, RowInv, \A s \in Sessions : sess'[s].rt = sess[s].rt, now' = now,
           NEW r \in Requests, \A p \in Requests \ {r} : req'[p] = req[p],
           req'[r].pc # "update", ~(req'[r].pc = "release" /\ req'[r].outcome = "tokens")
    PROVE  RowInv'
  <1>1. ASSUME NEW p \in Requests, p # r
        PROVE  /\ req'[p].pc = "update" => sess'[req'[p].sid].rt.iat <= req'[p].minted.iat
               /\ req'[p].pc = "release" /\ req'[p].outcome = "tokens"
                    => sess'[req'[p].sid].rt = req'[p].minted
    <2>1. req'[p] = req[p] /\ req[p].sid \in Sessions
      BY <1>1 DEF TypeInv, TypeOK, Request
    <2> QED BY <2>1 DEF RowInv
  <1> QED BY <1>1 DEF RowInv

LEMMA RowInvariant ==
    ASSUME ExclusiveLock
    PROVE  Spec => []RowInv
  <1>1. Init => RowInv
    BY DEF Init, RowInv
  <1>2. TypeInv /\ LockInv /\ Dates /\ RowInv /\ [Next]_vars => RowInv'
    <2> SUFFICES ASSUME TypeInv, LockInv, Dates, RowInv, [Next]_vars
                 PROVE  RowInv'
      OBVIOUS
    <2>t. TypeOK /\ now \in Nat /\ \A p \in Requests : req[p] \in Request
      BY DEF TypeInv, TypeOK
    <2>1. ASSUME NEW r \in Requests, Lookup(r) PROVE RowInv'
      <3>1. /\ UNCHANGED <<now, sess>> /\ \A p \in Requests \ {r} : req'[p] = req[p]
            /\ req'[r].pc \in {"fallback", "acquire"}
        BY <2>t, <2>1, LookupFrame
      <3> QED BY <3>1, RowAlone
    <2>2. ASSUME NEW r \in Requests, Fallback(r) PROVE RowInv'
      <3>1. /\ UNCHANGED <<now, sess>> /\ \A p \in Requests \ {r} : req'[p] = req[p]
            /\ req'[r].pc \in {"done", "acquire"}
        BY <2>t, <2>2, FallbackFrame
      <3> QED BY <3>1, RowAlone
    <2>3. ASSUME NEW r \in Requests, Acquire(r) PROVE RowInv'
      <3>1. /\ UNCHANGED <<now, sess>> /\ \A p \in Requests \ {r} : req'[p] = req[p]
            /\ req'[r].pc \in {"done", "checkUsed", "validate"}
        BY <2>t, <2>3 DEF Acquire, FailTo, Request, TypeOK
      <3> QED BY <3>1, RowAlone
    <2>4. ASSUME NEW r \in Requests, Inner(r) PROVE RowInv'
      <3>f. /\ now' = now /\ \A p \in Requests \ {r} : req'[p] = req[p]
            /\ req'[r].sid = req[r].sid /\ req[r].sid \in Sessions
        BY <2>t, <2>4, InnerFrame DEF Request
      <3>1. CASE UpdateTokens(r)
        <4>1. /\ req[r].pc = "update" /\ req'[r].pc = "release" /\ req'[r].minted = req[r].minted
              /\ req[r].minted \in Token /\ req[r].minted.iat <= now
          BY <2>t, <3>1 DEF UpdateTokens, FailTo, TypeInv, TypeOK, HoldsTokens, Request, Dates
        <4>2. \A s \in Sessions : sess'[s].rt = IF s = req[r].sid THEN req[r].minted
                                                                 ELSE sess[s].rt
          BY <2>t, <3>1 DEF UpdateTokens, TypeOK, Session
        <4>3. \A p \in Requests \ {r} : req[p].pc \in Critical => req[p].sid # req[r].sid
          BY <4>1 DEF LockInv, MutualExclusion, ExclusiveLock, Critical
        <4>4. \A s \in Sessions : sess'[s].rt.iat <= now'
          BY <3>f, <4>1, <4>2 DEF RowInv
        <4>5. ASSUME NEW p \in Requests
              PROVE  /\ req'[p].pc = "update" => sess'[req'[p].sid].rt.iat <= req'[p].minted.iat
                     /\ req'[p].pc = "release" /\ req'[p].outcome = "tokens"
                          => sess'[req'[p].sid].rt = req'[p].minted
          <5>1. CASE p = r
            BY <3>f, <4>1, <4>2, <5>1
          <5>2. CASE p # r
            <6>1. req'[p] = req[p] /\ req[p].sid \in Sessions
              BY <2>t, <3>f, <5>2 DEF Request
            <6>2. req[p].pc \in {"update", "release"} => sess'[req[p].sid].rt = sess[req[p].sid].rt
              BY <4>2, <4>3, <5>2, <6>1 DEF Critical
            <6> QED BY <6>1, <6>2 DEF RowInv
          <5> QED BY <5>1, <5>2
        <4> QED BY <4>4, <4>5 DEF RowInv
      <3>2. CASE ReuseMint(r) \/ Mint(r)
        <4>1. sess' = sess /\ req'[r].pc = "update" /\ req'[r].minted.iat = now
          BY <2>t, <3>2 DEF ReuseMint, Mint, generateRefreshToken, TypeOK, Request
        <4>2. ASSUME NEW p \in Requests, p # r
              PROVE  /\ req'[p].pc = "update" => sess'[req'[p].sid].rt.iat <= req'[p].minted.iat
                     /\ req'[p].pc = "release" /\ req'[p].outcome = "tokens"
                          => sess'[req'[p].sid].rt = req'[p].minted
          BY <3>f, <4>1, <4>2 DEF RowInv
        <4> QED BY <3>f, <4>1, <4>2 DEF RowInv
      <3>3. CASE ~UpdateTokens(r) /\ ~ReuseMint(r) /\ ~Mint(r)
        <4>1. /\ sess' = sess /\ req'[r].pc # "update"
              /\ ~(req'[r].pc = "release" /\ req'[r].outcome = "tokens")
          BY <2>t, <2>4, <3>3
             DEF Inner, CheckUsed, ReuseRead, Validate, Recheck, MarkUsed, Throw, Crash, GoTo,
                 FailTo, TypeOK, Request
        <4> QED BY <3>f, <4>1, RowAlone
      <3> QED BY <3>1, <3>2, <3>3
    <2>5. ASSUME NEW r \in Requests, Release(r) PROVE RowInv'
      <3>1. /\ UNCHANGED <<now, sess>> /\ \A p \in Requests \ {r} : req'[p] = req[p]
            /\ req'[r].pc = "done"
        BY <2>t, <2>5 DEF Release, GoTo, TypeOK, Request
      <3> QED BY <3>1, RowAlone
    <2>6. CASE (\E s \in Sessions : RevokeSession(s)) \/ RevokeAllUserSessions
      <3>1. UNCHANGED <<now, req>> /\ \A s \in Sessions : sess'[s].rt = sess[s].rt
        <4>1. \A s \in Sessions : sess[s] \in Session
          BY <2>t DEF TypeOK
        <4>2. CASE \E s \in Sessions : RevokeSession(s)
          BY <2>t, <4>1, <4>2 DEF RevokeSession, TypeOK, Session
        <4>3. CASE RevokeAllUserSessions
          <5>1. \A s \in Sessions :
                  sess'[s] \in {sess[s], [sess[s] EXCEPT !.revoked = TRUE, !.version = @ + 1]}
            BY <4>3 DEF RevokeAllUserSessions
          <5> QED BY <4>1, <4>3, <5>1 DEF RevokeAllUserSessions, Session
        <4> QED BY <2>6, <4>2, <4>3
      <3>2. \A p \in Requests : req[p].sid \in Sessions
        BY <2>t DEF Request
      <3> QED BY <3>1, <3>2 DEF RowInv
    <2>7. CASE Tick
      <3>1. \A s \in Sessions : sess[s].rt.iat \in Nat
        BY <2>t DEF TypeOK, Session, Token
      <3> QED BY <2>t, <2>7, <3>1 DEF Tick, RowInv
    <2>8. CASE UNCHANGED vars
      BY <2>8 DEF vars, RowInv
    <2> QED BY <2>1, <2>2, <2>3, <2>4, <2>5, <2>6, <2>7, <2>8, NextCases
  <1> QED BY <1>1, <1>2, TypeInvariant, LockInvariant, DatesInvariant, PTL DEF Spec

\* When no request outlives its lock, the tokens an answer carries are those of the row.
THEOREM AnswersMatchTheRow ==
    ASSUME ExclusiveLock
    PROVE  Spec => []ReturnedTokensAreStored
  <1>1. RowInv => ReturnedTokensAreStored
    BY DEF RowInv, ReturnedTokensAreStored
  <1> QED BY <1>1, RowInvariant, PTL
-----------------------------------------------------------------------------
(* Rejecting a token. *)

\* Past the check for a marker the token has none, as long as storage answers truly; and
\* TOKEN_INVALID is said of an expired token, which stays expired.
Truthful(q) ==
    /\ q.pc \in {"idle", "fallback", "acquire"} \cup (Critical \ {"release"})
         => q.outcome # "TOKEN_INVALID"
    /\ q.pc = "mark" => ReuseDetection
    /\ q.pc \in {"validate", "recheck", "mark"} /\ ReuseDetection => ~Marked(q.token)
    /\ q.outcome = "TOKEN_INVALID" => ~JwtValid(q.token)

RejectInv == \A r \in Requests : Truthful(req[r])

\* A step of one request that sets no marker.
LEMMA NoNewMark ==
    ASSUME RejectInv, UNCHANGED <<now, marks>>, NEW r \in Requests,
           \A p \in Requests \ {r} : req'[p] = req[p], Truthful(req'[r])
    PROVE  RejectInv'
  <1>1. \A p \in Requests : Truthful(req'[p])
    BY DEF RejectInv, Truthful
  <1> QED BY <1>1 DEF RejectInv, Truthful, Marked, JwtValid

LEMMA RejectInvariant ==
    ASSUME ExclusiveLock, ~StorageFaults
    PROVE  Spec => []RejectInv
  <1>1. Init => RejectInv
    BY DEF Init, RejectInv, Truthful
  <1>2. TypeInv /\ LockInv /\ OwnSession /\ RejectInv /\ [Next]_vars => RejectInv'
    <2> SUFFICES ASSUME TypeInv, LockInv, OwnSession, RejectInv, [Next]_vars PROVE RejectInv'
      OBVIOUS
    <2>t. /\ TypeOK /\ now \in Nat /\ req \in [Requests -> Request]
          /\ \A p \in Requests : req[p] \in Request
      BY DEF TypeInv, TypeOK
    <2>r. \A p \in Requests : Truthful(req[p])
      BY DEF RejectInv, Truthful
    <2>1. ASSUME NEW r \in Requests, Lookup(r) PROVE RejectInv'
      <3>1. /\ UNCHANGED <<now, marks>> /\ \A p \in Requests \ {r} : req'[p] = req[p]
            /\ req[r].pc = "idle" /\ req'[r].pc \in {"fallback", "acquire"}
            /\ req'[r].outcome = req[r].outcome
        BY <2>t, <2>1, LookupFrame
      <3>2. Truthful(req'[r])
        BY <2>r, <3>1 DEF Truthful
      <3> QED BY <3>1, <3>2, NoNewMark
    <2>2. ASSUME NEW r \in Requests, Fallback(r) PROVE RejectInv'
      <3>1. /\ UNCHANGED <<now, marks>> /\ \A p \in Requests \ {r} : req'[p] = req[p]
            /\ req[r].pc = "fallback" /\ req'[r].pc \in {"done", "acquire"}
            /\ req'[r].outcome \in {req[r].outcome, "SESSION_NOT_FOUND"}
        BY <2>t, <2>2, FallbackFrame
      <3>2. Truthful(req'[r])
        BY <2>r, <3>1 DEF Truthful
      <3> QED BY <3>1, <3>2, NoNewMark
    <2>3. ASSUME NEW r \in Requests, Acquire(r) PROVE RejectInv'
      <3>1. /\ UNCHANGED <<now, marks>> /\ \A p \in Requests \ {r} : req'[p] = req[p]
            /\ req[r].pc = "acquire" /\ req'[r].pc \in {"done", "checkUsed", "validate"}
            /\ req'[r].pc = "validate" => ~ReuseDetection
            /\ req'[r].outcome \in {req[r].outcome, "RATE_LIMIT_LOGIN"}
        BY <2>t, <2>3 DEF Acquire, FailTo, Request
      <3>2. Truthful(req'[r])
        BY <2>r, <3>1 DEF Truthful
      <3> QED BY <3>1, <3>2, NoNewMark
    <2>4. ASSUME NEW r \in Requests, Inner(r) PROVE RejectInv'
      <3>f. /\ now' = now /\ \A p \in Requests \ {r} : req'[p] = req[p]
            /\ req'[r].sid = req[r].sid /\ req'[r].token = req[r].token
        BY <2>t, <2>4, InnerFrame
      <3>1. CASE MarkUsed(r)
        <4>1. /\ req[r].pc = "mark" /\ ~Marked(req[r].token)
              /\ req'[r].pc = "mint" /\ req'[r].outcome = req[r].outcome
          BY <2>t, <2>r, <3>1 DEF MarkUsed, GoTo, FailTo, Request, Truthful
        <4>2. marks' = marks \cup {[token |-> req[r].token, by |-> r, at |-> now,
                                    until |-> now + req[r].ttl]}
          BY <2>r, <3>1, <4>1 DEF MarkUsed, Truthful
        <4>3. ASSUME NEW p \in Requests, p # r, req[p].pc \in {"validate", "recheck", "mark"},
                     ReuseDetection
              PROVE  ~Marked(req[p].token)'
          <5>1. req[p].token # req[r].token
            BY <4>1, <4>3 DEF LockInv, MutualExclusion, ExclusiveLock, OwnSession, Critical
          <5>2. ~Marked(req[p].token)
            BY <2>r, <4>3 DEF Truthful
          <5> QED BY <3>f, <4>2, <4>3, <5>1, <5>2 DEF Marked
        <4>4. ASSUME NEW p \in Requests PROVE Truthful(req[p])'
          <5>1. CASE p = r
            BY <2>r, <3>f, <4>1, <5>1 DEF Truthful, JwtValid, Critical
          <5>2. CASE p # r
            <6>1. req'[p] = req[p] /\ Truthful(req[p])
              BY <2>r, <3>f, <5>2
            <6>2. req'[p].pc \in {"validate", "recheck", "mark"} /\ ReuseDetection
                  => ~Marked(req[p].token)'
              BY <4>3, <5>2, <6>1
            <6> QED BY <3>f, <6>1, <6>2 DEF Truthful, JwtValid
          <5> QED BY <5>1, <5>2
        <4> QED BY <4>4 DEF RejectInv, Truthful
      <3>2. CASE ~MarkUsed(r)
        <4>1. marks' = marks /\ Truthful(req'[r])
          <5>1. CASE CheckUsed(r)
            BY <2>t, <2>r, <5>1 DEF CheckUsed, GoTo, Truthful, Request, Critical
          <5>2. CASE ReuseRead(r)
            BY <2>t, <2>r, <5>2 DEF ReuseRead, GoTo, FailTo, Truthful, Request, Critical, JwtValid
          <5>3. CASE ReuseMint(r)
            BY <2>t, <2>r, <5>3 DEF ReuseMint, Truthful, Request, Critical
          <5>4. CASE Validate(r)
            BY <2>t, <2>r, <5>4 DEF Validate, GoTo, FailTo, Truthful, Request, Critical, JwtValid
          <5>5. CASE Recheck(r)
            BY <2>t, <2>r, <5>5 DEF Recheck, GoTo, FailTo, Truthful, Request, Critical
          <5>6. CASE Mint(r)
            BY <2>t, <2>r, <5>6 DEF Mint, Truthful, Request, Critical
          <5>7. CASE UpdateTokens(r)
            BY <2>t, <2>r, <5>7 DEF UpdateTokens, FailTo, Truthful, Request, Critical
          <5>8. CASE Throw(r)
            BY <2>t, <2>r, <5>8 DEF Throw, FailTo, Truthful, Request, Critical
          <5>9. CASE Crash(r)
            BY <2>t, <2>r, <5>9 DEF Crash, GoTo, Truthful, Request, Critical
          <5> QED BY <2>4, <3>2, <5>1, <5>2, <5>3, <5>4, <5>5, <5>6, <5>7, <5>8, <5>9 DEF Inner
        <4> QED BY <3>f, <4>1, NoNewMark
      <3> QED BY <3>1, <3>2
    <2>5. ASSUME NEW r \in Requests, Release(r) PROVE RejectInv'
      <3>1. /\ UNCHANGED <<now, marks>> /\ \A p \in Requests \ {r} : req'[p] = req[p]
            /\ req'[r].pc = "done" /\ req'[r].outcome = req[r].outcome
            /\ req'[r].token = req[r].token
        BY <2>t, <2>5 DEF Release, GoTo, Request
      <3>2. Truthful(req'[r])
        BY <2>r, <3>1 DEF Truthful, Critical
      <3> QED BY <3>1, <3>2, NoNewMark
    <2>6. CASE (\E s \in Sessions : RevokeSession(s)) \/ RevokeAllUserSessions
      BY <2>6 DEF RevokeSession, RevokeAllUserSessions, RejectInv, Truthful, Marked, JwtValid
    <2>7. CASE Tick
      <3>1. now' = now + 1 /\ UNCHANGED <<marks, req>>
        BY <2>7 DEF Tick
      <3>2. \A p \in Requests : Marked(req[p].token)' => Marked(req[p].token)
        BY <2>t, <3>1 DEF Marked, TypeOK, Mark
      <3>3. ASSUME NEW p \in Requests, req[p].token \in Token, JwtValid(req[p].token)'
            PROVE  JwtValid(req[p].token)
        <4>1. req[p].token.iat \in Nat /\ req[p].token.ttl \in Nat
          BY <3>3, RotationAssumption DEF Token
        <4> QED BY <2>t, <3>1, <3>3, <4>1 DEF JwtValid, Exp
      <3>4. \A p \in Requests : req[p].outcome = "TOKEN_INVALID" => req[p].token \in Token
        BY DEF TypeInv, HoldsTokens, RejectInv, Truthful
      <3>5. \A p \in Requests : req[p].outcome = "TOKEN_INVALID" => ~JwtValid(req[p].token)'
        BY <2>r, <3>3, <3>4 DEF Truthful
      <3> QED BY <3>1, <3>2, <3>5 DEF RejectInv, Truthful
    <2>8. CASE UNCHANGED vars
      BY <2>8 DEF vars, RejectInv, Truthful, Marked, JwtValid
    <2> QED BY <2>1, <2>2, <2>3, <2>4, <2>5, <2>6, <2>7, <2>8, NextCases
  <1> QED BY <1>1, <1>2, TypeInvariant, LockInvariant, OwnSessionInvariant, PTL DEF Spec

\* When no request outlives its lock and storage answers truly, only an expired token is
\* answered with TOKEN_INVALID.
THEOREM OnlyExpiredTokensAreInvalid == Spec => []NoSpuriousReject
  <1>1. CASE ExclusiveLock /\ ~StorageFaults
    <2>1. RejectInv => NoSpuriousReject
      BY DEF RejectInv, Truthful, NoSpuriousReject
    <2> QED BY <1>1, <2>1, RejectInvariant, PTL
  <1>2. CASE ~(ExclusiveLock /\ ~StorageFaults)
    <2>1. NoSpuriousReject
      BY <1>2 DEF NoSpuriousReject
    <2> QED BY <2>1, PTL
  <1> QED BY <1>1, <1>2
-----------------------------------------------------------------------------
(* Refreshing implements SessionLineage. *)

\* What the refinement mapping of Lineage substitutes.
Current == [s \in Sessions |-> sess[s].rt]

Revoked == {s \in Sessions : sess[s].revoked}

Spent == {[token |-> m.token, by |-> m.by] : m \in {k \in marks : k.at < Exp(k.token)}}

\* A step that leaves the rows' tokens, the revoked sessions and the markers alone.
LEMMA NothingSpent ==
    ASSUME Current' = Current, Revoked \subseteq Revoked', Spent' = Spent
    PROVE  Lineage!LineageNext
  BY DEF Current, Revoked, Spent, Lineage!LineageNext, Lineage!Revoke

LEMMA KeepingRows ==
    ASSUME TypeOK, \A s \in Sessions : sess'[s].rt = sess[s].rt /\ (sess[s].revoked => sess'[s].revoked),
           marks' = marks
    PROVE  Lineage!LineageNext
  <1>1. Current' = Current /\ Revoked \subseteq Revoked'
    BY DEF Current, Revoked
  <1>2. Spent' = Spent
    BY DEF Spent, Exp
  <1> QED BY <1>1, <1>2, NothingSpent

\* Without hybrid delivery and with locks that outlive their requests, every refresh keeps
\* the promise of SessionLineage: one current token that never gets older, a token spent at
\* most once while it lives, revocation for good.
THEOREM RotationKeepsLineage ==
    ASSUME ExclusiveLock, UniformTtl
    PROVE  Spec => KeepsLineage
  <1>1. Init => Lineage!LineageInit
    <2> SUFFICES ASSUME Init PROVE Lineage!LineageInit
      OBVIOUS
    <2>1. \A s \in Sessions : sess[s].rt.sid = s /\ ~sess[s].revoked
      BY DEF Init
    <2>2. marks = {}
      BY DEF Init
    <2> QED BY <2>1, <2>2 DEF Lineage!LineageInit
  <1>2. TypeInv /\ OwnSession /\ Dates /\ MarksInv /\ RowInv /\ [Next]_vars
        => [Lineage!LineageNext]_(Lineage!lineageVars)
    <2> SUFFICES ASSUME TypeInv, OwnSession, Dates, MarksInv, RowInv, [Next]_vars
                 PROVE  Lineage!LineageNext
      OBVIOUS
    <2>t. TypeOK /\ now \in Nat /\ \A p \in Requests : req[p] \in Request
      BY DEF TypeInv, TypeOK
    <2>1. ASSUME NEW r \in Requests, UpdateTokens(r) PROVE Lineage!LineageNext
      <3>0. PICK s0 \in Sessions : s0 = req[r].sid
        BY <2>t DEF Request
      <3>1. /\ req[r].pc = "update" /\ s0 \in Sessions /\ marks' = marks
            /\ req[r].minted.sid = s0 /\ sess[s0].rt.iat <= req[r].minted.iat
            /\ req[r].minted \in Token
        BY <2>t, <2>1, <3>0 DEF UpdateTokens, OwnSession, RowInv, Request, TypeInv, HoldsTokens
      <3>2. \A s \in Sessions : /\ sess'[s].rt = IF s = s0 THEN req[r].minted ELSE sess[s].rt
                                /\ sess'[s].revoked = sess[s].revoked
        BY <2>t, <2>1, <3>0 DEF UpdateTokens, TypeOK, Session
      <3>3. Spent' = Spent /\ Revoked' = Revoked
        BY <3>1, <3>2 DEF Spent, Exp, Revoked
      <3>4. /\ sess[s0].rt.iat \in Nat /\ req[r].minted.iat \in Nat
        BY <2>t, <3>1 DEF TypeOK, Session, Token
      <3>5. /\ Current'[s0] = req[r].minted /\ Current[s0] = sess[s0].rt
            /\ \A s \in Sessions \ {s0} : Current'[s] = Current[s]
        BY <3>1, <3>2 DEF Current
      <3>6. /\ Current'[s0].sid = s0 /\ Current'[s0].iat >= Current[s0].iat
            /\ \A s \in Sessions \ {s0} : Current'[s] = Current[s]
            /\ Revoked' = Revoked /\ Spent' = Spent
        BY <3>1, <3>3, <3>4, <3>5
      <3>7. Lineage!Renew(s0)
        BY <3>6 DEF Lineage!Renew, Spent, Revoked, Current
      <3> QED BY <3>1, <3>7 DEF Lineage!LineageNext
    <2>2. ASSUME NEW r \in Requests, MarkUsed(r), marks' # marks PROVE Lineage!LineageNext
      <3> DEFINE t == req[r].token
                 m0 == [token |-> t, by |-> r, at |-> now, until |-> now + req[r].ttl]
                 x0 == [token |-> t, by |-> r]
      <3>1. ~Marked(t) /\ marks' = marks \cup {m0} /\ sess' = sess
        BY <2>2 DEF MarkUsed
      <3>2. t \in Token /\ Exp(t) \in Nat
        <4>1. req[r].token \in Token
          BY <2>2 DEF MarkUsed, TypeInv, HoldsTokens
        <4>2. req[r].token.iat \in Nat /\ req[r].token.ttl \in Nat
          BY <4>1, RotationAssumption DEF Token
        <4> QED BY <4>1, <4>2 DEF Exp
      <3>3. m0.token = t /\ m0.by = r /\ m0.at = now
        OBVIOUS
      <3> HIDE DEF m0
      <3>4. CASE now < Exp(t)
        <4>1. Spent' = Spent \cup {x0}
          BY <3>1, <3>3, <3>4 DEF Spent, Exp
        <4>2. ASSUME NEW m \in marks PROVE m.token # t
          <5>1. SUFFICES ASSUME m.token = t PROVE FALSE
            OBVIOUS
          <5>2. m.until <= now /\ Exp(t) <= m.until /\ m.until \in Nat
            BY <2>t, <3>1, <5>1 DEF Marked, MarksInv, MarkOutlivesToken, TypeOK, Mark
          <5> QED BY <2>t, <3>2, <3>4, <5>2
        <4>3. ~ \E x \in Spent : x.token = t
          BY <4>2 DEF Spent
        <4>4. Current' = Current /\ Revoked' = Revoked
          BY <3>1 DEF Current, Revoked
        <4>5. Lineage!Spend(t, r)
          BY <4>1, <4>3, <4>4 DEF Lineage!Spend, Spent, Current, Revoked
        <4>6. x0 \in Spent' /\ x0.by = r /\ x0.token = t
          BY <4>1
        <4> QED BY <4>5, <4>6 DEF Lineage!LineageNext, Spent
      <3>5. CASE ~(now < Exp(t))
        <4>1. Spent' = Spent
          BY <3>1, <3>3, <3>5 DEF Spent, Exp
        <4>2. Current' = Current /\ Revoked' = Revoked
          BY <3>1 DEF Current, Revoked
        <4> QED BY <4>1, <4>2, NothingSpent
      <3> QED BY <3>4, <3>5
    <2>3. ASSUME NEW s \in Sessions, RevokeSession(s) PROVE Lineage!LineageNext
      <3>1. marks' = marks /\ \A x \in Sessions : /\ sess'[x].rt = sess[x].rt
                                                  /\ sess[x].revoked => sess'[x].revoked
        BY <2>t, <2>3 DEF RevokeSession, TypeOK, Session
      <3> QED BY <2>t, <3>1, KeepingRows
    <2>4. CASE RevokeAllUserSessions
      <3>1. \A s \in Sessions : sess[s] \in Session
        BY <2>t DEF TypeOK
      <3>2. \A s \in Sessions :
              sess'[s] \in {sess[s], [sess[s] EXCEPT !.revoked = TRUE, !.version = @ + 1]}
        BY <2>4 DEF RevokeAllUserSessions
      <3>3. marks' = marks /\ \A x \in Sessions : /\ sess'[x].rt = sess[x].rt
                                                  /\ sess[x].revoked => sess'[x].revoked
        BY <2>4, <3>1, <3>2 DEF RevokeAllUserSessions, Session
      <3> QED BY <2>t, <3>3, KeepingRows
    <2>5. CASE UNCHANGED <<sess, marks>>
      BY <2>t, <2>5, KeepingRows
    <2> QED BY <2>t, <2>1, <2>2, <2>3, <2>4, <2>5, NextCases, LookupFrame, FallbackFrame
            DEF Inner, CheckUsed, ReuseRead, ReuseMint, Validate, Recheck, MarkUsed, Mint,
                Throw, Crash, Acquire, Release, Tick, vars
  <1> QED BY <1>1, <1>2, TypeInvariant, OwnSessionInvariant, DatesInvariant, MarksInvariant,
             RowInvariant, PTL DEF Spec, KeepsLineage, Lineage!LineageSpec
=============================================================================
