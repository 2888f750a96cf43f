---------------------------- MODULE RequestGuard ----------------------------
(***************************************************************************)
(* How a request of the NestJS package is authenticated: AuthGuard with    *)
(* ApiKeyService.validateKey, JwtService.validateAccessToken and the two   *)
(* session reads of SessionService.  Requests interleave with each other,  *)
(* with refreshes, revocations, deletions and the clock.  One user owns    *)
(* all sessions and keys.                                                  *)
(***************************************************************************)
EXTENDS Integers

CONSTANTS Requests,   \* requests to guarded routes, each served once
          Sessions,   \* the user's session rows
          Keys,       \* the user's API keys
          AccessTtl,  \* access token lifetime
          MaxLifetime,\* config.session.maxLifetime
          MaxTime,    \* bound: second at which the clock stops
          MaxChanges, \* bound: updates of one session row
          NoCredential

ASSUME GuardAssumption ==
    /\ AccessTtl \in Nat \ {0} /\ MaxLifetime \in Nat \ {0}
    /\ MaxTime \in Nat /\ MaxChanges \in Nat \ {0}
    /\ NoCredential \notin Keys

VARIABLES now,     \* the clock, in seconds
          sess,    \* session rows: present, isRevoked, version, expiresAt
          changes, \* changes[s]: how often the row of s was written or deleted
          user,    \* the user row: "active", "inactive" or "deleted"
          usable,  \* keys that are active, unexpired and allowed from the caller's address
          tokens,  \* access tokens handed out
          req,     \* the requests' local state
          failed   \* requests under one of whose reads the database failed

vars == <<now, sess, changes, user, usable, tokens, req, failed>>

AccessToken == [sid: Sessions, exp: Nat]

Session == [present: BOOLEAN, revoked: BOOLEAN, version: Nat, expiresAt: Nat]

Outcome == {"none", "jwt", "key", "anonymous", "denied"}

PC == {"idle", "key", "owner", "keyUser", "jwt", "read", "readPlain", "revalidate", "done"}

Request == [pc: PC, public: BOOLEAN, store: BOOLEAN, keyAllowed: BOOLEAN,
            key: Keys \cup {NoCredential}, jwt: AccessToken \cup {NoCredential},
            version: Nat, readAt: Nat, outcome: Outcome,
            late: BOOLEAN, keyLate: BOOLEAN]
-----------------------------------------------------------------------------
JwtValid(t) == now < t.exp

Expired(s) == sess[s].expiresAt < now

SessionLive(s) == sess[s].present /\ ~sess[s].revoked /\ ~Expired(s)

\* Strict guards refuse; optional authentication lets the request through unidentified.
Refuse(r) == req' = [req EXCEPT ![r].pc = "done",
                                ![r].outcome = IF req[r].public THEN "anonymous" ELSE "denied"]

Fail(r) == req' = [req EXCEPT ![r].pc = "done", ![r].outcome = "denied"]

Grant(r, by) == req' = [req EXCEPT ![r].pc = "done", ![r].outcome = by]

\* Mutant: the lifetime is subtracted.
BornExpired ==
    /\ now = 0
    /\ sess = [s \in Sessions |-> [present |-> TRUE, revoked |-> FALSE, version |-> 1,
                                   expiresAt |-> now - MaxLifetime]]
    /\ changes = [s \in Sessions |-> 0]
    /\ user = "active"
    /\ usable = Keys
    /\ tokens = {[sid |-> s, exp |-> AccessTtl] : s \in Sessions}
    /\ req = [r \in Requests |->
                [pc |-> "idle", public |-> FALSE, store |-> TRUE, keyAllowed |-> FALSE,
                 key |-> NoCredential, jwt |-> NoCredential, version |-> 0, readAt |-> 0,
                 outcome |-> "none", late |-> FALSE, keyLate |-> FALSE]]
    /\ failed = {}

Init ==
    /\ now = 0
    /\ sess = [s \in Sessions |-> [present |-> TRUE, revoked |-> FALSE, version |-> 1,
                                   expiresAt |-> MaxLifetime]]
    /\ changes = [s \in Sessions |-> 0]
    /\ user = "active"
    /\ usable = Keys
    /\ tokens = {[sid |-> s, exp |-> AccessTtl] : s \in Sessions}
    /\ req = [r \in Requests |->
                [pc |-> "idle", public |-> FALSE, store |-> TRUE, keyAllowed |-> FALSE,
                 key |-> NoCredential, jwt |-> NoCredential, version |-> 0, readAt |-> 0,
                 outcome |-> "none", late |-> FALSE, keyLate |-> FALSE]]
    /\ failed = {}
-----------------------------------------------------------------------------
(* Mutants: mistakes in the definitions below that the properties must notice. *)

KeyRefusedSoftly(r) == req' = [req EXCEPT ![r].pc = "jwt"]

KeyRefusedHard(r) == Fail(r)

\* expiresAt is not looked at.
ReadContextOfAnyAge(r) ==
    /\ req[r].pc = "read"
    /\ LET s == req[r].jwt.sid
       IN  IF sess[s].present /\ ~sess[s].revoked /\ user = "active"
             THEN req' = [req EXCEPT ![r].pc = "revalidate", ![r].version = sess[s].version,
                                     ![r].readAt = changes[s]]
             ELSE Refuse(r)
    /\ UNCHANGED <<now, sess, changes, user, usable, tokens, failed>>

\* isRevoked is read again, the version is not compared.
RevalidateRevokedOnly(r) ==
    /\ req[r].pc = "revalidate"
    /\ LET s == req[r].jwt.sid
       IN  IF sess[s].present /\ ~sess[s].revoked THEN Grant(r, "jwt") ELSE Refuse(r)
    /\ UNCHANGED <<now, sess, changes, user, usable, tokens, failed>>

\* The guard waits for the version it has read to come back.
RevalidatePatiently(r) ==
    /\ req[r].pc = "revalidate"
    /\ LET s == req[r].jwt.sid
       IN  IF sess[s].version = req[r].version THEN Grant(r, "jwt") ELSE UNCHANGED req
    /\ UNCHANGED <<now, sess, changes, user, usable, tokens, failed>>
-----------------------------------------------------------------------------
(* The guard. *)

\* canActivate: the route's metadata, the request's context store, its header key and its token.
\* late, keyLate: the session or the user, and the key or the user, were already unusable.
Arrive(r) ==
    /\ req[r].pc = "idle"
    /\ \E public, store, keyAllowed \in BOOLEAN,
          key \in Keys \cup {NoCredential}, jwt \in tokens \cup {NoCredential} :
         req' = [req EXCEPT ![r] =
                   [@ EXCEPT !.pc = IF key # NoCredential THEN "key" ELSE "jwt",
                             !.public = public, !.store = store, !.keyAllowed = keyAllowed,
                             !.key = key, !.jwt = jwt,
                             !.late = \/ user # "active"
                                      \/ jwt # NoCredential
                                           /\ ~(SessionLive(jwt.sid) /\ JwtValid(jwt)),
                             !.keyLate = user # "active" \/ key \notin usable]]
    /\ UNCHANGED <<now, sess, changes, user, usable, tokens, failed>>

\* An unusable key is denied on a protected route; a public one goes on to the token.
KeyRefused(r) ==
    IF req[r].public THEN req' = [req EXCEPT ![r].pc = "jwt"] ELSE Fail(r)

\* tryApiKeyAuth and the key lookup of validateKey.
ValidateKey(r) ==
    /\ req[r].pc = "key"
    /\ IF ~req[r].public /\ ~req[r].keyAllowed THEN Fail(r)
       ELSE IF req[r].key \notin usable THEN KeyRefused(r)
       ELSE req' = [req EXCEPT ![r].pc = "owner"]
    /\ UNCHANGED <<now, sess, changes, user, usable, tokens, failed>>

\* validateKey reads the key's owner.
ReadOwner(r) ==
    /\ req[r].pc = "owner"
    /\ IF user # "active" THEN KeyRefused(r) ELSE req' = [req EXCEPT ![r].pc = "keyUser"]
    /\ UNCHANGED <<now, sess, changes, user, usable, tokens, failed>>

\* getUserForAuthContext throws for a missing or inactive user, outside the try of tryApiKeyAuth.
ReadKeyUser(r) ==
    /\ req[r].pc = "keyUser"
    /\ IF user # "active" THEN Fail(r) ELSE Grant(r, "key")
    /\ UNCHANGED <<now, sess, changes, user, usable, tokens, failed>>

\* validateAccessToken; without a context store a strict guard stops here.
ValidateJwt(r) ==
    /\ req[r].pc = "jwt"
    /\ IF req[r].jwt = NoCredential \/ ~JwtValid(req[r].jwt) THEN Refuse(r)
       ELSE IF req[r].store THEN req' = [req EXCEPT ![r].pc = "read"]
       ELSE IF req[r].public THEN req' = [req EXCEPT ![r].pc = "readPlain"]
       ELSE Fail(r)
    /\ UNCHANGED <<now, sess, changes, user, usable, tokens, failed>>

\* findAuthContextBySessionId: session and user in one query.
ReadContext(r) ==
    /\ req[r].pc = "read"
    /\ LET s == req[r].jwt.sid
       IN  IF SessionLive(s) /\ user = "active"
             THEN req' = [req EXCEPT ![r].pc = "revalidate", ![r].version = sess[s].version,
                                     ![r].readAt = changes[s]]
             ELSE Refuse(r)
    /\ UNCHANGED <<now, sess, changes, user, usable, tokens, failed>>

\* Without a context store the same read decides alone, and what it throws is not caught.
ReadContextPlain(r) ==
    /\ req[r].pc = "readPlain"
    /\ LET s == req[r].jwt.sid
       IN  IF sess[s].present /\ user # "active" THEN Fail(r)
           ELSE IF SessionLive(s) THEN Grant(r, "jwt") ELSE Refuse(r)
    /\ UNCHANGED <<now, sess, changes, user, usable, tokens, failed>>

\* findByIdLight: the row must be there, unrevoked and of the version read before.
Revalidate(r) ==
    /\ req[r].pc = "revalidate"
    /\ LET s == req[r].jwt.sid
       IN  IF sess[s].present /\ sess[s].version = req[r].version /\ ~sess[s].revoked
             THEN Grant(r, "jwt") ELSE Refuse(r)
    /\ UNCHANGED <<now, sess, changes, user, usable, tokens, failed>>

\* The read that r is about to make throws.  tryApiKeyAuth catches what validateKey throws, and
\* tryAttachAuthContext what it reads with a context store; getUserForAuthContext and the read
\* without a store are outside of any try.
DatabaseError(r) ==
    /\ \/ /\ \/ req[r].pc = "key" /\ (req[r].public \/ req[r].keyAllowed)
             \/ req[r].pc = "owner"
          /\ KeyRefused(r)
       \/ req[r].pc \in {"keyUser", "readPlain"} /\ Fail(r)
       \/ req[r].pc \in {"read", "revalidate"} /\ Refuse(r)
    /\ failed' = failed \cup {r}
    /\ UNCHANGED <<now, sess, changes, user, usable, tokens>>
-----------------------------------------------------------------------------
(* What happens around the requests. *)

Changed(s) == changes' = [changes EXCEPT ![s] = @ + 1]

\* A refresh that passed its checks updates the row and hands out tokens; it reads no expiresAt.
Refresh(s) ==
    /\ sess[s].present /\ changes[s] < MaxChanges
    /\ sess' = [sess EXCEPT ![s].version = @ + 1]
    /\ Changed(s)
    /\ tokens' = tokens \cup {[sid |-> s, exp |-> now + AccessTtl]}
    /\ UNCHANGED <<now, user, usable, req, failed>>

RevokeSession(s) ==
    /\ sess[s].present /\ changes[s] < MaxChanges
    /\ sess' = [sess EXCEPT ![s].revoked = TRUE, ![s].version = @ + 1]
    /\ Changed(s)
    /\ UNCHANGED <<now, user, usable, tokens, req, failed>>

\* cleanupExpiredSessions, called by the application.
CleanupExpiredSessions ==
    /\ \E s \in Sessions : sess[s].present /\ Expired(s)
    /\ sess' = [s \in Sessions |-> IF Expired(s) THEN [sess[s] EXCEPT !.present = FALSE]
                                                 ELSE sess[s]]
    /\ changes' = [s \in Sessions |-> IF sess[s].present /\ Expired(s) THEN changes[s] + 1
                                                                       ELSE changes[s]]
    /\ UNCHANGED <<now, user, usable, tokens, req, failed>>

\* deleteUser removes the sessions first.
DeleteUserSessions ==
    /\ user # "deleted" /\ \E s \in Sessions : sess[s].present
    /\ sess' = [s \in Sessions |-> [sess[s] EXCEPT !.present = FALSE]]
    /\ changes' = [s \in Sessions |-> IF sess[s].present THEN changes[s] + 1 ELSE changes[s]]
    /\ UNCHANGED <<now, user, usable, tokens, req, failed>>

\* ... and the user row last, which takes the keys with it.
DeleteUserRow ==
    /\ user # "deleted" /\ \A s \in Sessions : ~sess[s].present
    /\ user' = "deleted"
    /\ usable' = {}
    /\ UNCHANGED <<now, sess, changes, tokens, req, failed>>

\* The application clears isActive, which the toolkit only reads.
DeactivateUser ==
    /\ user = "active"
    /\ user' = "inactive"
    /\ UNCHANGED <<now, sess, changes, usable, tokens, req, failed>>

\* A key is revoked, deleted, expires or is confined to other addresses.
WithdrawKey(k) ==
    /\ k \in usable
    /\ usable' = usable \ {k}
    /\ UNCHANGED <<now, sess, changes, user, tokens, req, failed>>

Tick ==
    /\ now < MaxTime
    /\ now' = now + 1
    /\ UNCHANGED <<sess, changes, user, usable, tokens, req, failed>>

\* The clock has stopped and every request was answered: the bounded model ends here.
Quiescent ==
    /\ now = MaxTime
    /\ \A r \in Requests : req[r].pc = "done"
    /\ UNCHANGED vars

Step(r) ==
    \/ ValidateKey(r) \/ ReadOwner(r) \/ ReadKeyUser(r)
    \/ ValidateJwt(r) \/ ReadContext(r) \/ ReadContextPlain(r) \/ Revalidate(r)

Next ==
    \/ \E r \in Requests : Arrive(r) \/ Step(r) \/ DatabaseError(r)
    \/ \E s \in Sessions : Refresh(s) \/ RevokeSession(s)
    \/ CleanupExpiredSessions \/ DeleteUserSessions \/ DeleteUserRow \/ DeactivateUser
    \/ \E k \in Keys : WithdrawKey(k)
    \/ Tick
    \/ Quiescent

Spec == Init /\ [][Next]_vars

\* A request that was accepted is served; nothing makes anything else happen.
FairSpec == Spec /\ \A r \in Requests : WF_vars(Step(r))
-----------------------------------------------------------------------------
(* Properties. *)

\* Every variable has its type.
TypeOK ==
    /\ now \in Nat
    /\ sess \in [Sessions -> Session]
    /\ changes \in [Sessions -> Nat]
    /\ user \in {"active", "inactive", "deleted"}
    /\ usable \subseteq Keys
    /\ tokens \subseteq AccessToken
    /\ req \in [Requests -> Request]
    /\ failed \subseteq Requests

\* A request admitted by its token was admitted on a row nobody wrote or deleted between the two
\* reads of the guard, and the session was not revoked: what the version column is for.
UnchangedWhileChecked ==
    [][\A r \in Requests :
         /\ req[r].pc = "revalidate" /\ req'[r].outcome = "jwt"
         => /\ changes[req[r].jwt.sid] = req[r].readAt
            /\ ~sess[req[r].jwt.sid].revoked]_vars

\* Nobody gets in with what was dead on arrival: a session that was revoked, deleted or past its
\* expiresAt, however often it was refreshed ("Session expiry is a hard ceiling"), an expired
\* token, a withdrawn key, or anything of a user who was gone.
DeadCredentialsAreRefused ==
    \A r \in Requests :
        /\ req[r].outcome = "jwt" => ~req[r].late
        /\ req[r].outcome = "key" => ~req[r].keyLate

\* On a protected route a key in the header rules the token out, and nobody passes unidentified.
ProtectedNeedsOneCredential ==
    \A r \in Requests :
        ~req[r].public =>
            /\ req[r].outcome # "anonymous"
            /\ req[r].outcome = "jwt" => req[r].key = NoCredential /\ req[r].store
            /\ req[r].outcome = "key" => req[r].keyAllowed

\* Optional authentication stands in the way of a public route only where nothing catches what it
\* throws: under a key that was good on arrival, whose user is then read once more, or under a
\* token without a context store; and then only if the user has vanished or the database failed.
\* A caller whose key is unusable and who has no token always gets through.
PublicRouteFailsOnlyUncaught ==
    \A r \in Requests :
        req[r].public /\ req[r].outcome = "denied" =>
            /\ user # "active" \/ r \in failed
            /\ \/ req[r].key # NoCredential /\ ~req[r].keyLate
               \/ ~req[r].store /\ req[r].jwt # NoCredential

\* "When the header is present it is the only credential considered"; on a public route, without
\* a valid key, "the request proceeds unauthenticated. Public routes are never made to fail by a
\* stray key" (guides/api-keys.md).
KeyIdentifiesOrIsIgnored ==
    \A r \in Requests :
        req[r].public /\ req[r].key # NoCredential => req[r].outcome \in {"none", "key", "anonymous"}

\* Every request the guard has taken up is decided.
RequestsAreDecided ==
    \A r \in Requests : req[r].pc # "idle" ~> req[r].pc = "done"
=============================================================================
