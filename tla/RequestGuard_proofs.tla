------------------------- MODULE RequestGuard_proofs -------------------------
(***************************************************************************)
(* Theorems about RequestGuard, for any requests, sessions, keys and       *)
(* lifetimes.                                                              *)
(***************************************************************************)
EXTENDS RequestGuard, TLAPS

\* A request goes on: one of its own steps, or the database fails under its read.
GoesOn(r) == Step(r) \/ DatabaseError(r)

\* What a request does and what happens around it, one action per alternative.
LEMMA NextCases ==
    ASSUME [Next]_vars
    PROVE  \/ \E r \in Requests : Arrive(r)
           \/ \E r \in Requests : GoesOn(r)
           \/ \E s \in Sessions : Refresh(s)
           \/ \E s \in Sessions : RevokeSession(s)
           \/ CleanupExpiredSessions
           \/ DeleteUserSessions
           \/ DeleteUserRow
           \/ DeactivateUser
           \/ \E k \in Keys : WithdrawKey(k)
           \/ Tick
           \/ UNCHANGED vars
  BY DEF Next, Quiescent, GoesOn
-----------------------------------------------------------------------------
(* Types. *)

\* A request beyond the check of its token has one, and one that is not decided has no outcome.
HoldsToken ==
    \A r \in Requests :
        /\ req[r].pc \in {"read", "readPlain", "revalidate"} => req[r].jwt \in AccessToken
        /\ req[r].pc # "done" => req[r].outcome = "none"

TypeInv == TypeOK /\ HoldsToken

\* What happens around the requests, as far as the types go.
LEMMA AroundTyped ==
    ASSUME TypeOK, UNCHANGED req,
           \/ \E s \in Sessions : Refresh(s)
           \/ \E s \in Sessions : RevokeSession(s)
           \/ CleanupExpiredSessions \/ DeleteUserSessions \/ DeleteUserRow \/ DeactivateUser
           \/ \E k \in Keys : WithdrawKey(k)
           \/ Tick
    PROVE  TypeOK'
  <1> USE GuardAssumption DEF TypeOK
  <1>1. ASSUME NEW s \in Sessions, Refresh(s) PROVE TypeOK'
    <2>1. [sid |-> s, exp |-> now + AccessTtl] \in AccessToken
      BY DEF AccessToken
    <2> QED BY <1>1, <2>1 DEF Refresh, Changed, Session
  <1>2. ASSUME NEW s \in Sessions, RevokeSession(s) PROVE TypeOK'
    BY <1>2 DEF RevokeSession, Changed, Session
  <1>3. CASE CleanupExpiredSessions
    <2>1. \A s \in Sessions : [sess[s] EXCEPT !.present = FALSE] \in Session
      BY DEF Session
    <2>2. sess' \in [Sessions -> Session]
      BY <1>3, <2>1 DEF CleanupExpiredSessions
    <2>3. changes' \in [Sessions -> Nat]
      BY <1>3 DEF CleanupExpiredSessions
    <2> QED BY <1>3, <2>2, <2>3 DEF CleanupExpiredSessions
  <1>4. CASE DeleteUserSessions
    <2>1. \A s \in Sessions : [sess[s] EXCEPT !.present = FALSE] \in Session
      BY DEF Session
    <2>2. sess' \in [Sessions -> Session]
      BY <1>4, <2>1 DEF DeleteUserSessions
    <2>3. changes' \in [Sessions -> Nat]
      BY <1>4 DEF DeleteUserSessions
    <2> QED BY <1>4, <2>2, <2>3 DEF DeleteUserSessions
  <1>5. CASE DeleteUserRow
    BY <1>5 DEF DeleteUserRow
  <1>6. CASE DeactivateUser
    BY <1>6 DEF DeactivateUser
  <1>7. ASSUME NEW k \in Keys, WithdrawKey(k) PROVE TypeOK'
    BY <1>7 DEF WithdrawKey
  <1>8. CASE Tick
    BY <1>8 DEF Tick
  <1> QED BY <1>1, <1>2, <1>3, <1>4, <1>5, <1>6, <1>7, <1>8

\* The requests as a step of one of them leaves them.
LEMMA StepTyped ==
    ASSUME TypeInv, NEW r \in Requests, GoesOn(r)
    PROVE  /\ TypeInv' /\ UNCHANGED <<now, sess, changes, user, usable, tokens>>
           /\ \A p \in Requests \ {r} : req'[p] = req[p]
           /\ req[r].pc \notin {"idle", "done"} /\ req'[r].pc # "idle"
           /\ req'[r].jwt = req[r].jwt /\ req'[r].key = req[r].key
           /\ req'[r].late = req[r].late /\ req'[r].keyLate = req[r].keyLate
           /\ req'[r].public = req[r].public /\ req'[r].store = req[r].store
           /\ req'[r].keyAllowed = req[r].keyAllowed
  <1> USE DEF TypeInv, TypeOK, HoldsToken, Request, PC, Outcome, Refuse, Fail, Grant
  <1>1. CASE ValidateKey(r)
    BY <1>1 DEF ValidateKey, KeyRefused
  <1>2. CASE ReadOwner(r)
    BY <1>2 DEF ReadOwner, KeyRefused
  <1>3. CASE ReadKeyUser(r)
    BY <1>3 DEF ReadKeyUser
  <1>4. CASE ValidateJwt(r)
    <2>1. CASE Refuse(r) \/ Fail(r)
      BY <1>4, <2>1 DEF ValidateJwt
    <2>2. CASE /\ req[r].jwt # NoCredential
               /\ \E label \in {"read", "readPlain"} : req' = [req EXCEPT ![r].pc = label]
      <3>1. req[r].jwt \in AccessToken
        BY <2>2
      <3>2. PICK label \in {"read", "readPlain"} : req' = [req EXCEPT ![r].pc = label]
        BY <2>2
      <3>3. req[r].pc = "jwt" /\ UNCHANGED <<now, sess, changes, user, usable, tokens, failed>>
        BY <1>4 DEF ValidateJwt
      <3> QED BY <3>1, <3>2, <3>3
    <2>3. Refuse(r) \/ Fail(r) \/ req' = [req EXCEPT ![r].pc = "read"]
                               \/ req' = [req EXCEPT ![r].pc = "readPlain"]
      BY <1>4 DEF ValidateJwt
    <2>4. Refuse(r) \/ req[r].jwt # NoCredential
      BY <1>4 DEF ValidateJwt
    <2> QED BY <2>1, <2>2, <2>3, <2>4
  <1>5. CASE ReadContext(r)
    <2>1. /\ sess[req[r].jwt.sid].version \in Nat
          /\ changes[req[r].jwt.sid] \in Nat
      BY <1>5 DEF ReadContext, AccessToken, Session
    <2> QED BY <1>5, <2>1 DEF ReadContext
  <1>6. CASE ReadContextPlain(r)
    BY <1>6 DEF ReadContextPlain
  <1>7. CASE Revalidate(r)
    BY <1>7 DEF Revalidate
  <1>8. CASE DatabaseError(r)
    BY <1>8 DEF DatabaseError, KeyRefused
  <1> QED BY <1>1, <1>2, <1>3, <1>4, <1>5, <1>6, <1>7, <1>8 DEF GoesOn, Step

\* A request as it arrives.
LEMMA ArriveTyped ==
    ASSUME TypeInv, NEW r \in Requests, Arrive(r)
    PROVE  /\ TypeInv' /\ UNCHANGED <<now, sess, changes, user, usable, tokens>>
           /\ \A p \in Requests \ {r} : req'[p] = req[p]
           /\ req'[r].pc \in {"key", "jwt"} /\ req'[r].outcome = "none"
           /\ req'[r].pc = "jwt" <=> req'[r].key = NoCredential
           /\ req'[r].late => \/ user # "active"
                              \/ req'[r].jwt # NoCredential
                                   /\ ~(SessionLive(req'[r].jwt.sid) /\ JwtValid(req'[r].jwt))
           /\ req'[r].keyLate => user # "active" \/ req'[r].key \notin usable
  <1> USE DEF TypeInv, TypeOK, HoldsToken, Request
  <1>1. PICK public, store, keyAllowed \in BOOLEAN,
             key \in Keys \cup {NoCredential}, jwt \in tokens \cup {NoCredential} :
          req' = [req EXCEPT ![r] =
                    [@ EXCEPT !.pc = IF key # NoCredential THEN "key" ELSE "jwt",
                              !.public = public, !.store = store, !.keyAllowed = keyAllowed,
                              !.key = key, !.jwt = jwt,
                              !.late = \/ user # "active"
                                       \/ jwt # NoCredential
                                            /\ ~(SessionLive(jwt.sid) /\ JwtValid(jwt)),
                              !.keyLate = user # "active" \/ key \notin usable]]
    BY DEF Arrive
  <1>2. UNCHANGED <<now, sess, changes, user, usable, tokens, failed>> /\ req[r].outcome = "none"
    BY DEF Arrive
  <1> DEFINE late == \/ user # "active"
                     \/ jwt # NoCredential /\ ~(SessionLive(jwt.sid) /\ JwtValid(jwt))
             keyLate == user # "active" \/ key \notin usable
             label == IF key # NoCredential THEN "key" ELSE "jwt"
             q == [req[r] EXCEPT !.pc = label, !.public = public, !.store = store,
                                 !.keyAllowed = keyAllowed, !.key = key, !.jwt = jwt,
                                 !.late = late, !.keyLate = keyLate]
  <1>3. req' = [req EXCEPT ![r] = q]
    BY <1>1
  <1>4. /\ late \in BOOLEAN /\ keyLate \in BOOLEAN
        /\ label \in {"key", "jwt"} /\ label \in PC
        /\ jwt \in AccessToken \cup {NoCredential}
    BY DEF PC
  <1>5. /\ q \in Request /\ q.pc = label /\ q.outcome = "none" /\ q.jwt = jwt /\ q.key = key
        /\ q.late = late /\ q.keyLate = keyLate
        /\ q.pc = "jwt" <=> q.key = NoCredential
    <2>1. req[r] \in Request
      OBVIOUS
    <2> HIDE DEF late, keyLate, label, TypeInv, TypeOK, HoldsToken
    <2>2. q.late = late /\ q.keyLate = keyLate
      BY <2>1
    <2>3. q.pc = label /\ q.jwt = jwt /\ q.key = key /\ q.outcome = "none"
      BY <1>2, <2>1
    <2>4. q \in Request
      BY <1>4, <2>1
    <2>5. label = "jwt" <=> key = NoCredential
      BY DEF label
    <2> QED BY <2>2, <2>3, <2>4, <2>5
  <1> HIDE DEF q
  <1>6. req' \in [Requests -> Request] /\ req'[r] = q
        /\ \A p \in Requests \ {r} : req'[p] = req[p]
    BY <1>3, <1>5
  <1>7. TypeInv'
    BY <1>2, <1>4, <1>5, <1>6
  <1> QED BY <1>2, <1>4, <1>5, <1>6, <1>7

LEMMA TypeInvariant == Spec => []TypeInv
  <1>1. Init => TypeInv
    <2> SUFFICES ASSUME Init PROVE TypeInv
      OBVIOUS
    <2>1. AccessTtl \in Nat /\ MaxLifetime \in Nat
      BY GuardAssumption
    <2>2. sess \in [Sessions -> Session] /\ tokens \subseteq AccessToken
      BY <2>1 DEF Init, Session, AccessToken
    <2>3. req \in [Requests -> Request] /\ HoldsToken
      BY DEF Init, Request, PC, Outcome, HoldsToken
    <2> QED BY <2>2, <2>3 DEF Init, TypeInv, TypeOK
  <1>2. TypeInv /\ [Next]_vars => TypeInv'
    <2> SUFFICES ASSUME TypeInv, [Next]_vars PROVE TypeInv'
      OBVIOUS
    <2>1. ASSUME NEW r \in Requests, Arrive(r) PROVE TypeInv'
      BY <2>1, ArriveTyped
    <2>2. ASSUME NEW r \in Requests, GoesOn(r) PROVE TypeInv'
      BY <2>2, StepTyped
    <2>3. CASE UNCHANGED req /\ TypeOK'
      BY <2>3 DEF TypeInv, HoldsToken
    <2>4. CASE UNCHANGED vars
      BY <2>4 DEF vars, TypeInv, TypeOK, HoldsToken
    <2>5. TypeOK
      BY DEF TypeInv
    <2>6. CASE \/ \E s \in Sessions : Refresh(s)
               \/ \E s \in Sessions : RevokeSession(s)
               \/ CleanupExpiredSessions \/ DeleteUserSessions \/ DeleteUserRow
               \/ DeactivateUser \/ (\E k \in Keys : WithdrawKey(k)) \/ Tick
      <3>1. UNCHANGED req
        BY <2>6 DEF Refresh, RevokeSession, CleanupExpiredSessions, DeleteUserSessions,
                    DeleteUserRow, DeactivateUser, WithdrawKey, Tick
      <3> QED BY <2>3, <2>5, <2>6, <3>1, AroundTyped
    <2> QED BY <2>1, <2>2, <2>4, <2>6, NextCases
  <1> QED BY <1>1, <1>2, PTL DEF Spec

\* Every variable has its type.
THEOREM TypeCorrect == Spec => []TypeOK
  <1>1. TypeInv => TypeOK
    BY DEF TypeInv
  <1> QED BY <1>1, TypeInvariant, PTL
-----------------------------------------------------------------------------
(* The version column. *)

\* The version of a row that is there counts its writes, and so does the version a request read.
VersionInv ==
    /\ \A s \in Sessions : sess[s].present => sess[s].version = changes[s] + 1
    /\ \A r \in Requests : req[r].pc = "revalidate" => req[r].version = req[r].readAt + 1

LEMMA VersionInvariant == Spec => []VersionInv
  <1>1. Init => VersionInv
    BY DEF Init, VersionInv
  <1>2. TypeInv /\ VersionInv /\ [Next]_vars => VersionInv'
    <2> SUFFICES ASSUME TypeInv, VersionInv, [Next]_vars PROVE VersionInv'
      OBVIOUS
    <2>t. TypeOK /\ HoldsToken
      BY DEF TypeInv
    <2> USE DEF VersionInv
    <2>1. ASSUME NEW r \in Requests, Arrive(r) PROVE VersionInv'
      BY <2>1, ArriveTyped
    <2>2. ASSUME NEW r \in Requests, GoesOn(r) PROVE VersionInv'
      <3>1. req'[r].pc = "revalidate" => req'[r].version = req'[r].readAt + 1
        <4> USE <2>t DEF TypeOK, Request, Refuse, Fail, Grant
        <4>1. CASE ValidateKey(r)
          BY <4>1 DEF ValidateKey, KeyRefused
        <4>2. CASE ReadOwner(r)
          BY <4>2 DEF ReadOwner, KeyRefused
        <4>3. CASE ReadKeyUser(r)
          BY <4>3 DEF ReadKeyUser
        <4>4. CASE ValidateJwt(r)
          BY <4>4 DEF ValidateJwt
        <4>5. CASE ReadContext(r)
          <5>1. req[r].jwt.sid \in Sessions
            BY <4>5 DEF ReadContext, HoldsToken, AccessToken
          <5> QED BY <4>5, <5>1 DEF ReadContext, SessionLive
        <4>6. CASE ReadContextPlain(r)
          BY <4>6 DEF ReadContextPlain
        <4>7. CASE Revalidate(r)
          BY <4>7 DEF Revalidate
        <4>8. CASE DatabaseError(r)
          BY <4>8 DEF DatabaseError, KeyRefused
        <4> QED BY <2>2, <4>1, <4>2, <4>3, <4>4, <4>5, <4>6, <4>7, <4>8 DEF GoesOn, Step
      <3> QED BY <2>2, <3>1, StepTyped
    <2>3. ASSUME NEW s \in Sessions, Refresh(s) PROVE VersionInv'
      BY <2>t, <2>3 DEF Refresh, Changed, TypeOK, Session
    <2>4. ASSUME NEW s \in Sessions, RevokeSession(s) PROVE VersionInv'
      BY <2>t, <2>4 DEF RevokeSession, Changed, TypeOK, Session
    <2>5. CASE CleanupExpiredSessions
      BY <2>t, <2>5 DEF CleanupExpiredSessions, TypeOK, Session
    <2>6. CASE DeleteUserSessions
      BY <2>t, <2>6 DEF DeleteUserSessions, TypeOK, Session
    <2>7. CASE DeleteUserRow \/ DeactivateUser \/ (\E k \in Keys : WithdrawKey(k)) \/ Tick
      BY <2>7 DEF DeleteUserRow, DeactivateUser, WithdrawKey, Tick
    <2>8. CASE UNCHANGED vars
      BY <2>8 DEF vars
    <2> QED BY <2>1, <2>2, <2>3, <2>4, <2>5, <2>6, <2>7, <2>8, NextCases
  <1> QED BY <1>1, <1>2, TypeInvariant, PTL DEF Spec

\* A request admitted by its token was admitted on a row nobody touched between the guard's reads.
THEOREM RowIsUnchangedWhileChecked == Spec => UnchangedWhileChecked
  <1> DEFINE A == \A r \in Requests :
                    /\ req[r].pc = "revalidate" /\ req'[r].outcome = "jwt"
                    => /\ changes[req[r].jwt.sid] = req[r].readAt
                       /\ ~sess[req[r].jwt.sid].revoked
  <1>1. TypeInv /\ VersionInv /\ [Next]_vars => [A]_vars
    <2> SUFFICES ASSUME TypeInv, VersionInv, [Next]_vars,
                        NEW r \in Requests, req[r].pc = "revalidate", req'[r].outcome = "jwt"
                 PROVE  /\ changes[req[r].jwt.sid] = req[r].readAt
                        /\ ~sess[req[r].jwt.sid].revoked
      OBVIOUS
    <2>1. TypeOK /\ req[r].outcome = "none" /\ req[r].jwt.sid \in Sessions
      BY DEF TypeInv, HoldsToken, AccessToken
    <2>2. Revalidate(r)
      <3>1. req'[r] # req[r]
        BY <2>1
      <3>2. Arrive(r) \/ GoesOn(r)
        <4>1. ASSUME NEW p \in Requests, Arrive(p) \/ GoesOn(p) PROVE p = r
          BY <3>1, <4>1, ArriveTyped, StepTyped
        <4>2. req' # req
          BY <3>1
        <4> QED BY <4>1, <4>2, NextCases DEF Refresh, RevokeSession, CleanupExpiredSessions,
                   DeleteUserSessions, DeleteUserRow, DeactivateUser, WithdrawKey, Tick, vars
      <3>3. ~DatabaseError(r)
        BY <2>1 DEF DatabaseError, KeyRefused, Refuse, Fail, TypeOK, Request
      <3> QED BY <3>2, <3>3 DEF GoesOn, Arrive, Step, ValidateKey, ReadOwner, ReadKeyUser,
                          ValidateJwt, ReadContext, ReadContextPlain
    <2>3. /\ sess[req[r].jwt.sid].present /\ ~sess[req[r].jwt.sid].revoked
          /\ sess[req[r].jwt.sid].version = req[r].version
      BY <2>1, <2>2 DEF Revalidate, Refuse, TypeOK, Request
    <2>4. changes[req[r].jwt.sid] + 1 = req[r].readAt + 1
      BY <2>1, <2>3 DEF VersionInv
    <2> QED BY <2>1, <2>3, <2>4 DEF TypeOK, Request
  <1>2. Spec => [][A]_vars
    BY <1>1, TypeInvariant, VersionInvariant, PTL DEF Spec
  <1> QED BY <1>2 DEF UnchangedWhileChecked
-----------------------------------------------------------------------------
(* Credentials that were dead on arrival. *)

DeadToken(t) == user # "active" \/ ~(SessionLive(t.sid) /\ JwtValid(t))

\* What was dead stays dead, and each check that a request passes rules one reason out.
DeadInv ==
    \A r \in Requests :
        /\ req[r].pc = "idle" => ~req[r].late /\ ~req[r].keyLate
        /\ req[r].late /\ req[r].jwt # NoCredential => DeadToken(req[r].jwt)
        /\ req[r].late /\ req[r].pc \in {"read", "readPlain"}
             => user # "active" \/ ~SessionLive(req[r].jwt.sid)
        /\ req[r].keyLate => user # "active" \/ req[r].key \notin usable
        /\ req[r].keyLate /\ req[r].pc = "owner" => user # "active"
        /\ req[r].pc = "revalidate" \/ req[r].outcome = "jwt" => ~req[r].late
        /\ req[r].pc = "keyUser" \/ req[r].outcome = "key" => ~req[r].keyLate

\* Nothing that happens around the requests brings a credential back to life.
LEMMA NothingRevives ==
    ASSUME TypeOK,
           \/ \E s \in Sessions : Refresh(s)
           \/ \E s \in Sessions : RevokeSession(s)
           \/ CleanupExpiredSessions \/ DeleteUserSessions \/ DeleteUserRow \/ DeactivateUser
           \/ \E k \in Keys : WithdrawKey(k)
           \/ Tick
    PROVE  /\ user # "active" => user' # "active"
           /\ \A s \in Sessions : SessionLive(s)' => SessionLive(s)
           /\ \A t \in AccessToken : JwtValid(t)' => JwtValid(t)
           /\ usable' \subseteq usable
           /\ UNCHANGED req
  <1> DEFINE Goal == /\ user # "active" => user' # "active"
                     /\ \A s \in Sessions : SessionLive(s)' => SessionLive(s)
                     /\ \A t \in AccessToken : JwtValid(t)' => JwtValid(t)
                     /\ usable' \subseteq usable
                     /\ UNCHANGED req
  <1> USE DEF TypeOK, SessionLive, Expired, JwtValid
  <1>1. ASSUME NEW s \in Sessions, Refresh(s) PROVE Goal
    BY <1>1 DEF Refresh, Session
  <1>2. ASSUME NEW s \in Sessions, RevokeSession(s) PROVE Goal
    BY <1>2 DEF RevokeSession, Session
  <1>3. ASSUME CleanupExpiredSessions PROVE Goal
    <2>1. UNCHANGED <<now, user, usable, tokens, req>>
      BY <1>3 DEF CleanupExpiredSessions
    <2>2. ASSUME NEW s \in Sessions, SessionLive(s)' PROVE sess'[s] = sess[s]
      <3>1. sess'[s].present
        BY <2>2
      <3>2. ~[sess[s] EXCEPT !.present = FALSE].present
        BY DEF Session
      <3> QED BY <1>3, <3>1, <3>2 DEF CleanupExpiredSessions
    <2> QED BY <2>1, <2>2
  <1>4. ASSUME DeleteUserSessions PROVE Goal
    BY <1>4 DEF DeleteUserSessions, Session
  <1>5. ASSUME DeleteUserRow PROVE Goal
    BY <1>5 DEF DeleteUserRow
  <1>6. ASSUME DeactivateUser PROVE Goal
    BY <1>6 DEF DeactivateUser
  <1>7. ASSUME NEW k \in Keys, WithdrawKey(k) PROVE Goal
    BY <1>7 DEF WithdrawKey
  <1>8. ASSUME Tick PROVE Goal
    BY <1>8 DEF Tick, Session, AccessToken
  <1>9. Goal
    <2> HIDE DEF Goal
    <2> QED BY <1>1, <1>2, <1>3, <1>4, <1>5, <1>6, <1>7, <1>8
  <1> QED BY <1>9

LEMMA DeadInvariant == Spec => []DeadInv
  <1>1. Init => DeadInv
    <2> SUFFICES ASSUME Init PROVE DeadInv
      OBVIOUS
    <2>1. \A r \in Requests : /\ req[r].pc = "idle" /\ req[r].outcome = "none"
                             /\ req[r].late = FALSE /\ req[r].keyLate = FALSE
      BY DEF Init
    <2> QED BY <2>1 DEF DeadInv
  <1>2. TypeInv /\ DeadInv /\ [Next]_vars => DeadInv'
    <2> SUFFICES ASSUME TypeInv, DeadInv, [Next]_vars PROVE DeadInv'
      OBVIOUS
    <2>t. TypeOK /\ HoldsToken
      BY DEF TypeInv
    <2>1. ASSUME NEW r \in Requests, Arrive(r) PROVE DeadInv'
      BY <2>1, ArriveTyped DEF DeadInv, DeadToken, SessionLive, Expired, JwtValid
    <2>2. ASSUME NEW r \in Requests, GoesOn(r) PROVE DeadInv'
      <3> DEFINE Passed ==
            /\ req[r].late /\ req'[r].pc \in {"read", "readPlain"}
                 => user # "active" \/ ~SessionLive(req[r].jwt.sid)
            /\ req[r].keyLate /\ req'[r].pc = "owner" => user # "active"
            /\ req'[r].pc = "revalidate" \/ req'[r].outcome = "jwt" => ~req[r].late
            /\ req'[r].pc = "keyUser" \/ req'[r].outcome = "key" => ~req[r].keyLate
      <3>0. req[r].outcome = "none"
        BY <2>t, <2>2, StepTyped DEF HoldsToken
      <3>p. Passed
        <4> USE <2>t, <3>0 DEF TypeOK, Request, DeadInv, DeadToken, Refuse, Fail, Grant
        <4>1. CASE ValidateKey(r)
          BY <4>1 DEF ValidateKey, KeyRefused
        <4>2. CASE ReadOwner(r)
          BY <4>2 DEF ReadOwner, KeyRefused
        <4>3. CASE ReadKeyUser(r)
          BY <4>3 DEF ReadKeyUser
        <4>4. CASE ValidateJwt(r)
          BY <4>4 DEF ValidateJwt
        <4>5. CASE ReadContext(r)
          BY <4>5 DEF ReadContext
        <4>6. CASE ReadContextPlain(r)
          BY <4>6 DEF ReadContextPlain, SessionLive
        <4>7. CASE Revalidate(r)
          BY <4>7 DEF Revalidate
        <4>8. CASE DatabaseError(r)
          BY <4>8 DEF DatabaseError, KeyRefused
        <4> QED BY <2>2, <4>1, <4>2, <4>3, <4>4, <4>5, <4>6, <4>7, <4>8 DEF GoesOn, Step
      <3>1. /\ \A s \in Sessions : SessionLive(s)' = SessionLive(s)
            /\ UNCHANGED <<now, sess, user, usable>>
        BY <2>2, StepTyped DEF SessionLive, Expired
      <3>2. \A p \in Requests \ {r} : req'[p] = req[p]
        BY <2>2, StepTyped
      <3>3. /\ req'[r].pc # "idle" /\ req'[r].jwt = req[r].jwt /\ req'[r].key = req[r].key
            /\ req'[r].late = req[r].late /\ req'[r].keyLate = req[r].keyLate
        BY <2>2, StepTyped
      <3> QED BY <3>p, <3>1, <3>2, <3>3 DEF DeadInv, DeadToken, SessionLive, Expired, JwtValid
    <2>3. CASE \/ \E s \in Sessions : Refresh(s)
               \/ \E s \in Sessions : RevokeSession(s)
               \/ CleanupExpiredSessions \/ DeleteUserSessions \/ DeleteUserRow
               \/ DeactivateUser \/ (\E k \in Keys : WithdrawKey(k)) \/ Tick
      <3>1. /\ user # "active" => user' # "active"
            /\ \A s \in Sessions : SessionLive(s)' => SessionLive(s)
            /\ \A t \in AccessToken : JwtValid(t)' => JwtValid(t)
            /\ usable' \subseteq usable
            /\ UNCHANGED req
        BY <2>t, <2>3, NothingRevives
      <3>2. \A r \in Requests :
              /\ req[r].jwt # NoCredential => req[r].jwt \in AccessToken
              /\ req[r].pc \in {"read", "readPlain"} => req[r].jwt \in AccessToken
        BY <2>t DEF TypeOK, Request, HoldsToken
      <3>3. \A t \in AccessToken : DeadToken(t) => DeadToken(t)'
        BY <3>1 DEF DeadToken, AccessToken
      <3>4. \A t \in AccessToken : ~SessionLive(t.sid) => ~SessionLive(t.sid)'
        BY <3>1 DEF AccessToken
      <3> QED BY <3>1, <3>2, <3>3, <3>4 DEF DeadInv
    <2>4. CASE UNCHANGED vars
      BY <2>4 DEF vars, DeadInv, DeadToken, SessionLive, Expired, JwtValid
    <2> QED BY <2>1, <2>2, <2>3, <2>4, NextCases
  <1> QED BY <1>1, <1>2, TypeInvariant, PTL DEF Spec

\* Nobody gets in with what was dead when the request arrived.
THEOREM DeadStaysOut == Spec => []DeadCredentialsAreRefused
  <1>1. DeadInv => DeadCredentialsAreRefused
    BY DEF DeadInv, DeadCredentialsAreRefused
  <1> QED BY <1>1, DeadInvariant, PTL
-----------------------------------------------------------------------------
(* What a route demands. *)

\* Where its route lets a request be.  The key path needs a key, and a token is read without a
\* context store on public routes only.  On a protected route the key path goes on only where keys
\* are allowed, the token is looked at only without a header key, and the reads of the session
\* need the context store.
OnRoute(q) ==
    /\ q.pc \in {"key", "owner", "keyUser"} => q.key # NoCredential
    /\ q.pc = "readPlain" => ~q.store /\ q.jwt # NoCredential
    /\ ~q.public =>
         /\ q.pc # "readPlain" /\ q.outcome # "anonymous"
         /\ q.pc \in {"owner", "keyUser"} \/ q.outcome = "key" => q.keyAllowed
         /\ q.pc \in {"jwt", "read", "revalidate"} \/ q.outcome = "jwt" => q.key = NoCredential
         /\ q.pc \in {"read", "revalidate"} \/ q.outcome = "jwt" => q.store

RouteInv == \A r \in Requests : OnRoute(req[r])

\* A public route turns a request down only for what is thrown outside of a try.
Uncaught(r) ==
    req[r].public /\ req[r].outcome = "denied" =>
        /\ user # "active" \/ r \in failed
        /\ \/ req[r].key # NoCredential /\ ~req[r].keyLate
           \/ ~req[r].store /\ req[r].jwt # NoCredential

\* One step of a request leaves it where its route lets it be, and turns it down on a public route
\* only where nothing catches what is thrown.
LEMMA StepOnRoute ==
    ASSUME TypeInv, DeadInv, RouteInv, NEW r \in Requests, GoesOn(r)
    PROVE  /\ RouteInv'
           /\ Uncaught(r)'
  <1> DEFINE Turned == req[r].public /\ req'[r].outcome = "denied" =>
                         /\ user # "active" \/ r \in failed'
                         /\ \/ req[r].key # NoCredential /\ ~req[r].keyLate
                            \/ ~req[r].store /\ req[r].jwt # NoCredential
  <1>0. req[r].outcome = "none" /\ OnRoute(req[r])
    BY StepTyped DEF TypeInv, HoldsToken, RouteInv
  <1>1. OnRoute(req'[r]) /\ Turned
    <2> USE <1>0 DEF TypeInv, TypeOK, Request, OnRoute, Refuse, Fail, Grant
    <2>1. CASE ValidateKey(r)
      BY <2>1 DEF ValidateKey, KeyRefused
    <2>2. CASE ReadOwner(r)
      BY <2>2 DEF ReadOwner, KeyRefused
    <2>3. CASE ReadKeyUser(r)
      BY <2>3 DEF ReadKeyUser, DeadInv
    <2>4. CASE ValidateJwt(r)
      BY <2>4 DEF ValidateJwt
    <2>5. CASE ReadContext(r)
      BY <2>5 DEF ReadContext
    <2>6. CASE ReadContextPlain(r)
      BY <2>6 DEF ReadContextPlain
    <2>7. CASE Revalidate(r)
      BY <2>7 DEF Revalidate
    <2>8. CASE DatabaseError(r)
      BY <2>8 DEF DatabaseError, KeyRefused, DeadInv
    <2> QED BY <2>1, <2>2, <2>3, <2>4, <2>5, <2>6, <2>7, <2>8 DEF GoesOn, Step
  <1>2. /\ \A p \in Requests \ {r} : req'[p] = req[p]
        /\ req'[r].public = req[r].public /\ req'[r].store = req[r].store
        /\ req'[r].key = req[r].key /\ req'[r].keyLate = req[r].keyLate
        /\ req'[r].jwt = req[r].jwt /\ user' = user
    BY StepTyped
  <1>3. RouteInv'
    <2> SUFFICES ASSUME NEW p \in Requests PROVE OnRoute(req'[p])
      BY DEF RouteInv
    <2>1. CASE p = r
      BY <2>1, <1>1
    <2>2. CASE p # r
      BY <2>2, <1>2 DEF RouteInv
    <2> QED BY <2>1, <2>2
  <1>4. Uncaught(r)'
    BY <1>1, <1>2 DEF Uncaught
  <1> QED BY <1>3, <1>4

LEMMA RouteInvariant == Spec => []RouteInv
  <1>1. Init => RouteInv
    <2> SUFFICES ASSUME Init PROVE RouteInv
      OBVIOUS
    <2>1. \A r \in Requests : req[r].pc = "idle" /\ req[r].outcome = "none"
      BY DEF Init
    <2> QED BY <2>1 DEF RouteInv, OnRoute
  <1>2. TypeInv /\ DeadInv /\ RouteInv /\ [Next]_vars => RouteInv'
    <2> SUFFICES ASSUME TypeInv, DeadInv, RouteInv, [Next]_vars PROVE RouteInv'
      OBVIOUS
    <2>1. ASSUME NEW r \in Requests, Arrive(r) PROVE RouteInv'
      BY <2>1, ArriveTyped DEF RouteInv, OnRoute
    <2>2. ASSUME NEW r \in Requests, GoesOn(r) PROVE RouteInv'
      BY <2>2, StepOnRoute
    <2>3. CASE UNCHANGED req
      BY <2>3 DEF RouteInv
    <2> QED BY <2>1, <2>2, <2>3, NextCases DEF Refresh, RevokeSession, CleanupExpiredSessions,
               DeleteUserSessions, DeleteUserRow, DeactivateUser, WithdrawKey, Tick, vars
  <1> QED BY <1>1, <1>2, TypeInvariant, DeadInvariant, PTL DEF Spec

\* Nobody passes a protected route unidentified, by a key it does not take, or by a token when the
\* header carries a key.
THEOREM ProtectedRoutesAskForOne == Spec => []ProtectedNeedsOneCredential
  <1>1. RouteInv => ProtectedNeedsOneCredential
    BY DEF RouteInv, OnRoute, ProtectedNeedsOneCredential
  <1> QED BY <1>1, RouteInvariant, PTL

\* A public route turns a request down only for what is thrown outside of a try, and then only if
\* the user has vanished or the database has failed; never for a key that was bad on arrival.
THEOREM PublicRoutesStayOpen == Spec => []PublicRouteFailsOnlyUncaught
  <1> DEFINE Inv == \A r \in Requests : Uncaught(r)
  <1>1. Init => Inv
    BY DEF Init, Uncaught
  <1>2. TypeInv /\ DeadInv /\ RouteInv /\ Inv /\ [Next]_vars => Inv'
    <2> SUFFICES ASSUME TypeInv, DeadInv, RouteInv, Inv, [Next]_vars PROVE Inv'
      OBVIOUS
    <2>1. ASSUME NEW r \in Requests, Arrive(r) PROVE Inv'
      <3>1. /\ \A p \in Requests \ {r} : req'[p] = req[p]
            /\ user' = user /\ req'[r].outcome = "none"
        BY <2>1, ArriveTyped
      <3>2. failed' = failed
        BY <2>1 DEF Arrive
      <3> QED BY <3>1, <3>2 DEF Uncaught
    <2>2. ASSUME NEW r \in Requests, GoesOn(r) PROVE Inv'
      <3>1. /\ \A p \in Requests \ {r} : req'[p] = req[p]
            /\ user' = user /\ failed \subseteq failed'
        <4>1. failed \subseteq failed'
          BY <2>2 DEF GoesOn, Step, ValidateKey, ReadOwner, ReadKeyUser, ValidateJwt,
                      ReadContext, ReadContextPlain, Revalidate, DatabaseError
        <4> QED BY <2>2, <4>1, StepTyped
      <3>2. \A p \in Requests \ {r} : Uncaught(p)'
        BY <3>1 DEF Uncaught
      <3>3. Uncaught(r)'
        BY <2>2, StepOnRoute
      <3> QED BY <3>2, <3>3
    <2>3. CASE \/ \E s \in Sessions : Refresh(s)
               \/ \E s \in Sessions : RevokeSession(s)
               \/ CleanupExpiredSessions \/ DeleteUserSessions \/ DeleteUserRow
               \/ DeactivateUser \/ (\E k \in Keys : WithdrawKey(k)) \/ Tick
      <3>1. (user # "active" => user' # "active") /\ UNCHANGED req
        BY <2>3, NothingRevives DEF TypeInv
      <3>2. UNCHANGED failed
        BY <2>3 DEF Refresh, RevokeSession, CleanupExpiredSessions, DeleteUserSessions,
                    DeleteUserRow, DeactivateUser, WithdrawKey, Tick
      <3> QED BY <3>1, <3>2 DEF Uncaught
    <2>4. CASE UNCHANGED vars
      BY <2>4 DEF vars, Uncaught
    <2> QED BY <2>1, <2>2, <2>3, <2>4, NextCases
  <1>3. Inv => PublicRouteFailsOnlyUncaught
    BY DEF Uncaught, PublicRouteFailsOnlyUncaught
  <1> QED BY <1>1, <1>2, <1>3, TypeInvariant, DeadInvariant, RouteInvariant, PTL DEF Spec
=============================================================================
