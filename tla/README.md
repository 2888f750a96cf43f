# A verification project for nauth-toolkit

TLA+ models of the parts of nauth-toolkit whose correctness depends on the order of steps, the
TLC runs that check them, and theorems that TLAPS proves about them. Paths below are relative to
the repository; `core` stands for `packages/core/src`.

## 1. The system

nauth-toolkit is an authentication library for Node services. A request reaches a framework
adapter (NestJS, Express, Fastify), is authenticated by a guard or handlers, and is served by
services that keep all state in two places: relational tables (users, sessions, challenges,
verification codes, devices, keys) through TypeORM, and a *transient storage* of keys with
lifetimes (memory, Redis, or a database table) for locks, markers and counters. Several
processes serve one database. Services keep almost nothing in memory between awaits, so every
`await` is a point at which another request, or another process, may act.

### Components

| Component | State | Operations | Interacts with | What makes it correct |
|---|---|---|---|---|
| Refresh token rotation (`core/services/auth.service.ts` `refreshToken`) | none of its own | one long method | session rows, lock keys, used-token markers, JWTs | a token is exchanged once; a revoked session gets nothing; the stored hash is the returned token's; a good token is not refused |
| Session service | session rows: hashes, isRevoked, version, expiresAt, lastActivityAt | create, find, update tokens, revoke (one, all, by device, by family), clean up | everything | revocation is final; the version changes with every write; at most maxConcurrent live sessions |
| Guard and handlers (`packages/nestjs/src/guards/auth.guard.ts`, `core/handlers`) | context of the request | canActivate | JWT, session, user, API keys | nothing dead gets in; what was checked has not changed when the request is admitted |
| API keys | key rows | create, revoke, delete, validate, record usage | guard, user | a withdrawn key, or one of a user who is gone, identifies nobody |
| Login and session creation | none of its own | login, determineAuthResponse, createSuccessResponse | user, challenges, sessions, devices | a locked account gets no session; limits hold |
| User administration | user rows | disable, enable, delete, update | sessions, everything by cascade | a disabled user is out |
| JWT service | keys | generate, validate, decode, hash | all of the above | a token is valid exactly for its lifetime |
| Challenge sessions | challenge rows: attempts, isCompleted, expiresAt | create or reuse, validate, increment, consume | login, verification, MFA | one answer consumes a challenge; at most maxAttempts tries |
| Authentication flow | none, a function of the context | evaluate | login, challenges | each context has exactly the state that the priority of the rules gives |
| Lockout, rate limits | counters and lock keys with lifetimes | record, check, lock, reset | login, verification | at most so many failures per window; locks end |
| Verification codes, password reset | code rows: attempts, usedAt | send, verify, consume | email, SMS, user | a code works once, within its attempts and lifetime |
| MFA, trusted devices, adaptive MFA | device rows, backup codes, challenge keys | setup, verify, remove | challenges, flow | a factor is not skipped; a backup code works once |
| Social sign-in | state and redirect keys | create, consume, link | storage, user | a state works once; accounts are not mixed up |
| Transient storage | keys with lifetimes | get, set (nx), del, incr, expire | all of the above | set-if-absent has one winner |
| Client SDK | tokens per tab, the refresh in flight | refreshOnce, request, challenge routing | the server | the newest tokens are the ones kept |
| OIDC provider | grants and artifacts in the storage | upsert, consume, revoke | storage, sessions | an artifact is consumed once |

Hooks, audit, telemetry, geolocation, client information, CSRF and token delivery, password
hashing, email, SMS and reCAPTCHA providers, configuration, templates, migrations, the Angular
package, examples and docs are listed in `PROJECT.json` with the reason they are not modelled.

### What is hard here

Two tabs refreshing at once; a lock that expires under its holder; a storage adapter that hides
failures; a row read before and updated after an await; a session revoked, refreshed or deleted
between the guard's two reads; limits enforced by count-then-insert; an administrator disabling an
account in the middle of a login, or before a challenge is answered; a challenge session found,
validated and saved by several requests at once; whole rows written back as they were read;
counters in three adapters with three notions of one step; a reset racing a login; two tabs telling
each other of tokens and users. `PROJECT.json` lists these and others, each at its line, with the
properties that watch them.

## 2. The modules

| Module | Models |
|---|---|
| `SessionLineage` | the abstract promise: per session one current token that never gets older, tokens spent at most once, revocation for good |
| `TokenRotation` | `refreshToken` await by await, and what goes on around it |
| `MCTokenRotation` | its instances for TLC |
| `TokenRotation_proofs` | theorems about it |
| `RequestGuard` | the NestJS guard with API keys and optional authentication |
| `RequestGuard_proofs` | theorems about it |
| `LoginSessions`, `MCLoginSessions` | from the account lock check of a login to the session row, against disableUser and enableUser |
| `LoginSessions_proofs` | theorems about it |
| `AuthFlow` | the rules that decide which challenge a sign-in owes: operators on a user, a configuration and the facts of a sign-in |
| `SignIn`, `MCSignIn` | logins, challenge sessions and answers to challenges until tokens are issued; composed with `AuthFlow` |
| `SignIn_proofs` | theorems about it |
| `Recovery`, `MCRecovery` | passwords, the lockout of an address, reset codes; over each adapter of the transient storage |
| `Recovery_proofs`, `RecoveryLimits_proofs`, `RecoveryTries_proofs` | theorems about it; the second bounds the passwords that are tested, the third the codes |
| `ClientTokens`, `MCClientTokens` | tokens and user of the client SDK in the tabs of a browser |
| `ClientTokens_proofs` | theorems about it |

### TokenRotation

`sess` is the session table (the refresh hash, `isRevoked`, `version`); `lock` the keys
`session-refresh:<id>` with the second at which each expires; `marks` the keys
`used-token:<hash>`, kept for ever together with who set them and when, so that properties can
look back (a key that has expired is no longer `Marked`); `issued` the tokens clients hold; `req`
the local variables of each request. A hash is identified with what was hashed: a refresh token
is its claims `[sid, iat, ttl]`, with `iat` in whole seconds, as the JWT has no unique id. So two
mints in one second give one token. `MarkOutlivesToken` and `SpentOnce` are claimed for one refresh
lifetime (`UniformTtl`). With hybrid delivery, where cookie and JSON requests have different
ones, a marker set by a short-lived request expires before the long-lived token it marks, although
`nauth-docs/docs/concepts/storage.md:107` says that it "Matches refresh token TTL": with
`RefreshTtls` of two values TLC finds `MarkOutlivesToken` violated.

Each action is the code between two awaits: `Lookup` and `Fallback` (find the session by hash, or
by the claim when another tab has rotated the hash), `Acquire`, `CheckUsed`, then either
`ReuseRead` and `ReuseMint` (a used token of a live session gets a new pair) or `Validate`,
`Recheck`, `MarkUsed`, `Mint`, then `UpdateTokens` and `Release`. `Throw` may hit any await: inside
the lock the finally block (`Release`) still runs. `Crash` ends a request without it.
`RevokeSession` and `RevokeAllUserSessions` stand for logout, administrators, password changes. A
deleted row reads like a revoked one; nor does the code notice that a row was deleted just before
its update (`session.service.ts:535` then affects no row and the tokens, good for nothing, are
returned all the same), which is the update of a revoked row here: `ReturnedTokensAreStored` speaks
of rows that are still there. With `StorageFaults` the transient storage may fail as the database
adapter lets it: a set looks refused, a read looks absent, a delete does nothing. `revokedAtLock`
and `reuse` are history: nothing branches on them.

### RequestGuard

`sess`, `user`, `usable` (API keys that are active, unexpired and allowed from the caller's
address) and `tokens` are the world; `req` is a request with its route (public or protected, open
to keys or not), its context store (present or not) and its credentials. `ValidateKey`,
`ReadOwner`, `ReadKeyUser` are the awaits of the key path; `ValidateJwt`, `ReadContext` and
`Revalidate` those of the token path; `ReadContextPlain` is the path without a context store. The
world changes between any two of them: `Refresh`, `RevokeSession`, `CleanupExpiredSessions`, the
two ends of deleteUser, `DeactivateUser` (an application clears `isActive`; the toolkit only
reads it), `WithdrawKey`, `Tick`. `DatabaseError` makes the read that a request is about to do
throw, and does what the code around it does: tryApiKeyAuth catches validateKey but not
getUserForAuthContext (`auth.guard.ts:142`), tryAttachAuthContext catches its reads under a context
store but not the one without (259). `late`, `keyLate`, `readAt`, `changes` and `failed` are
history.

So a public route can fail, under a key that was good on arrival, against the comments at
`auth.guard.ts:80-82`, 103-104 and 281 and `guides/api-keys.md:22`. The run `guard_public` shows it;
`PublicRouteFailsOnlyUncaught` says that nothing else fails one.

### LoginSessions

`rows` is the session table of one user in the order of insertion, `activity` the `lastActivityAt`
of each row, of which the code only uses the order: `clock` counts the writes of it (`Touch`), so
no two rows have the same (of equal dates the database may return either first; the model takes
writes to be at different times, which is part of `TypeOK`). `Older` are the live sessions before
one in that order, `Excess` is how many must go for one more to fit. A login reads the user and its
lock (`Authenticate`). It goes on to its session at once, or it owes a challenge, a free choice
here, and goes on when that is answered (`Answer`), which may be at any later time and looks at no
lock. Then it ends the sessions of its device (`FindDevice`, `RevokeDevice`, whose failure is
swallowed), enforces the limit (`Count`, `Evict`), inserts the row (`Save`) and stores the final
hashes (`UpdateTokens`). `DisableLock` and `DisableRevoke` are the two writes of disableUser, the
second of which may fail unnoticed. Calls of it overlap freely with each other and with enableUser:
`revoking` counts those between their two writes, `revoked` says that one has revoked since the
lock was last set. The run has one call of disableUser against an enableUser, the theorems any
number. `epoch`, `overlapped`, `kept` and `stale` are history: which disabling a login had seen,
whether another login was between its first read of the table and its insert, whether the device
revocation failed, whether the order changed after the ids to evict were chosen.

`session.disallowMultipleSessions` is not in the model because it is not in effect: its only use
(`auth.service.ts:1101`) follows the returns of login, although `config.interface.ts:1316-1318`
says that a login ends all other sessions.

### AuthFlow

One operator per fact of the context (`EmailVerificationRequired`, `MFASetupRequired`, ...), one
for the rules (`Matches`), the order of the states (`Priorities`), and `EvaluateState`, which
takes the first that matches. `ChallengeOf` and `Outcome` are stateToResponse. The risk score is
an input with the values its decision can have, and the one of an engine that fails.

### SignIn

`rows` is the challenge session table of one user in the order of creation, `user` the columns a
sign-in looks at, `blocked` the adaptive engine's block, `call` the requests with their local
variables. A request is a login (by password, by provider, or the sign-up: `Login`,
`PasswordExpired`) or an answer (`Respond`). Each handler of respondToChallenge goes its own way
through `UseCode`, `SetPhone`, `ReadUser`, `SaveUser`, `Count`, and all end in `Consume` and
`Complete` (validateAndConsumeSession) and then in `Decide` (determineAuthResponse), which asks
`AuthFlow` and either ends the request or goes on to createChallengeSession: `FindOpen`,
`Replace`, `Tidy`, `Insert`, and `Send`. `Expire` and `Others` change the world in between.

How a sign-in began matters later (a social sign-in owes no email verification, a sign-up may
skip MFA setup). The code hands it on in the session's metadata, and not for each challenge:
`Kept` is what each creation stores, `Recalled` what each handler reads. Because an open session
is handed out again with the metadata of its creator, the answers of a login can be judged as if it
had begun another way. `needed` is, for each request, what its own sign-in has owed in every
state since the request arrived; `kin` are the ways of signing in that its session was handed
to. `EveryFactorProven` asks for all of `needed` but what `Excused` lists: with a social sign-in
among `kin` the proof of the address and, unless social sign-ins need it, MFA; with the sign-up the
MFA setup that a sign-up may skip. That this is excused is a disagreement with the documentation,
which the run `signin_handed` shows: `LoginsOweTheirOwnFactors` asks for `needed` as a whole.
`raced`, `rolledBack`, `spent`, `guesses` and `late` are history too.

A request holds two snapshots of the user: `snap`, read on arrival with the challenge session, by
which handleMFAVerification judges, and `read`, read by the MFA provider, which its save writes
back.

What is simplified: codes sent by email or SMS are right or wrong answers; resendCode only sends;
the two deletes of the clean-up are one step; the validation inside updateMetadata is one with
the one that consumes; whether a device is trusted is an input; a user with MFA enabled has a
device; the block cannot change within one decision; the grace period does not end during a run;
the configuration does not change, so the save of a found session with another `maxAttempts`
(`challenge.service.ts:139-141`) does not occur; account locks are in `LoginSessions`, wrong
passwords in `Recovery`. A `save` of TypeORM writes the columns that
differ from the database back to what was read, and inserts a row that is gone.

### Recovery

`kv` is the transient storage: the failures counted for an address, its lock, and the reset
requests counted for the user, each with its lifetime; `user` the password and the lock of the
account, `codes` the rows of reset codes, `sessions` the passwords with which live sessions were
opened. A login goes through `CheckLock`, `DropLock` (a database read deletes what it found
expired, by name), `ReadUser`, then `Unlock`, `Open`, `Clear`, or it counts a failure: `Incr` and,
by adapter, `IncrFound`, `IncrExpire` (Redis), `IncrInsert` (database), then `Counted`, `SetLock`
and `Clear`. A request for a code is counted the same way, then `Invalidate` and `Issue`. A
confirmation is `Find`, `Tried` or `Matched`, `Load`, `FindAgain`, `Spend`, `Save`, `Revoke`; the
administrator's flow spends the code before it loads the user. `Crash` ends a request anywhere,
`SetLock` may fail unnoticed in the database adapter, `Expire`, `ExpireCode` and `Disable` happen
beside. `past` remembers what was tested and spent, and which overlaps have happened.

What is simplified: passwords and codes are numbers, and codes do not collide; disableUser is one
step (its two are in `LoginSessions`); a lock outlives the call that follows its setting; challenges
and MFA are in `SignIn`, so a right password opens a session; conditions of delivery and
failures to send are left out; an administrator's reset does not revoke sessions before the
code is confirmed (the option's default). A reset link carries a long random token that is found by
its hash, without attempts or a limit (`password-reset.service.ts:507`, 533-539): only the short
codes are modelled. An identifier of a type that is not allowed (`auth.service.ts:601-613`) counts
a failure without testing a password and so only locks earlier: it is left out.

The comment at `auth.service.ts:3240` says that a code is consumed "atomically". The code finds the
row, then saves it: `OneUseOfOneCode` holds but for confirmations that run between each
other's two steps, which it names.

### ClientTokens

`store` is what the tabs of a browser share: the refresh token (its login and its number) and the
user. `tab` is what each holds in memory: the user, the refresh in flight, the storage events it
has not handled. `server` is the server as the SDK sees it: per session, whether it lives, the
number of its current token, the tokens spent, the edition of the user's profile. A user is a login
and an edition. A call is one of login, refreshTokens, logout (logoutAll does the same here) and
profile (getProfile, and updateProfile, which changes the edition; another device may, too); every
await ends a step. That is exact for storage adapters that
really wait; with the browser's own storage some steps within one tab cannot be interleaved, and
the handler of one storage event has read the user and put it in place before the next one runs, as
`ReadEvent` and `TakeUser` have it: two reads of one tab in flight would need an adapter that waits.
`Fail` loses or refuses a request, `RevokeSession` ends a session elsewhere, `Reload` loads a
page anew. `troubled`, `expected` and `missed` are history: whether calls have overlapped in a
way the SDK does not protect against, who should be signed in, and which tabs cannot know the
stored user.

A tab gets into `missed` in two ways, and out of it when it next reads the user with nobody writing.
It read the user between the two writes of another call: the documentation of the client
(`nauth-docs/docs/frontend-sdk/concepts/token-management.md:231-232`) has tokens and user stored
before the other tabs are told, the code tells them when it has stored the tokens and stores the
user afterwards; the run `client_order` shows a tab that stays signed out. Or another tab stored a
fetched profile that differs from the user stored before: getProfile and updateProfile
(`client.ts:668-681`) end with setUser, with nobody told. They do so whatever has become of the
session meanwhile, so a profile answered before a logout may put the user back after it: a profile
that overlaps another kind of call counts as trouble in `RefreshesKeepTheSession`.

## 3. The runs

| Run | Expect | What it shows |
|---|---|---|
| `rotation` | pass | With no request outliving its lock: mutual exclusion per session, no tokens for a session revoked before the lock, the foreign-session branch is dead, a valid token is never refused as invalid, the row holds what is returned, revocation is final, and `TokenRotation` implements `SessionLineage`. |
| `rotation_overrun` | pass | With locks expiring under their holders, hidden storage failures and crashes: tokens are still spent once, markers outlive tokens, revocation before the lock still wins, requests finish, and abandoned locks go away. |
| `rotation_reuse` | violation | A used token is answered with new tokens; the docs say the session is invalidated. |
| `guard` | pass | Nothing that was dead when the request arrived gets in, a protected route takes one credential, a public route fails only where the guard catches nothing (a vanished user or a database error after a good key, or without a context store), nothing was written between the guard's reads, and every request is decided. |
| `guard_public` | violation | On a public route a good key makes the request fail when the read of its user throws; nor does a bad key rule out the token. |
| `logins` | pass | A login that nothing overlapped restores the limit, is alone on its device, and evicts the least recently active; only sign-ins that had read the user before the lock, in flight or by a challenge answered later, survive disableUser. |
| `logins_disabled` | violation | A login in flight, or a challenge answered later, outlives disableUser. |
| `signin` | pass | Nobody gets tokens without the factors that the own sign-in owed all along, but for what a shared session excuses; sessions are completed once, and are not duplicated, except by overlaps; wrong MFA answers are counted; a backup code is accepted once unless its list was written back. |
| `signin_handed` | violation | A password login that is handed a social sign-in's session gets tokens without the MFA setup it owes. |
| `recovery` | pass | Guesses of passwords and codes stay within limits that name the overlaps, crashes and hidden failures that stretch them; a code works once; a new password and a lock stand; old passwords keep no session; counters expire. |
| `client` | pass | Refreshes overlapping in one tab leave the tokens of the live session stored, and after a logout nothing; tabs show the stored user once their events are handled, unless they read it too early or a fetched profile replaced it. |
| `client_order` | violation | A tab that is told of a login reads the user before it is stored, and stays signed out. |

The five violations are disagreements of the code with its documentation, listed in `PROJECT.json`
under findings with the lines quoted. `guard_public` and `logins_disabled` stand for two each; the
trace TLC prints is of the shorter one.

Several properties of `signin`, `recovery` and `client` name their exceptions, such as `raced` or
the `races` of `Recovery`. Each exception is an overlap or a failure that the code does allow and
that does break the unconditional property: it was checked by leaving the exception out.

**Bounds.** Rotation: two requests, because each property speaks of at most two and a third only
repeats one of them; two sessions where their separation matters, one otherwise; a token lifetime
of two seconds within three or four, so that tokens, locks and markers are met before, at and after
their expiry; row versions up to three, which allow a revocation on both sides of an update. Guard:
one request, since requests share no state that they write; three seconds around a session lifetime
of one and an access token lifetime of two, and two writes to the row, so that either of the two
reads may see either. Logins: two logins over three sessions with a limit of two, one of the
sessions on the device of a login, one refresh and one disabling (two are beyond TLC in this
instance, so overlapping calls of disableUser are left to the theorem `LockedOut`). The bounds are
`MaxRequest`, `MaxStart`, `MaxTime`, `MaxVersion`, `MaxChanges`, `MaxTouches`, `MaxDisables`.
Sign-in: two requests at once, four in all, four sessions and two attempts: enough for a session
that two sign-ins share, one that is replaced, and an answer that comes late; three users under
three configurations, so that each challenge occurs and each is the last before tokens. Recovery:
two requests at once and one event (expiry, crash, fault or lock), up to seven requests where only
guesses are made, so that both limits, of two, are reached and passed; the bound of
`TriesAreCounted` was also checked with three requests at once, and with a limit of four, where it
is reached. Client: two tabs, two calls at once, three in all after a login that may already be
there, one fault; in `client_order` one call and no fault. `signin_handed` takes one request fewer
than `signin`. Their bounds are `MaxRows`, `MaxStarts`, `LoginOrigins`, `MaxEvents`, `MaxCodes`,
`MaxFaults` and the scenarios' `starts`. The runs of these three modules have deadlock checking
off, as all requests may have been used up. `MaxRequest` is also the assumption of the lock:
`ExclusiveLock` says that it is shorter than the lock's lifetime. The runs of `LoginSessions` have
it off since all logins, refreshes and disablings may have been used up. Symmetry is used only
where the properties are safety properties and do not tell the permuted values apart.

**Fairness.** A request that a process has begun to serve takes its next step (weak fairness
of the `Step` of each request): the event loop runs every pending continuation. Time goes on
(weak fairness of `Tick`). Nothing makes a client call, a call throw, a process die, a session
end or an administrator act. For a request that was killed, `Crash` is its last step.

## 4. The proofs

`TokenRotation_proofs` proves for every value of the constants, with any set of requests,
sessions and lifetimes and with or without storage faults:

| Theorem | Assumes | Says |
|---|---|---|
| `TypeCorrect` | | `TypeOK` always holds |
| `MutualExclusionHolds` | `ExclusiveLock` | at most one request inside the lock of a session |
| `TheftBranchIsDead` | | a request works on the session its token names |
| `TokensAreSpentOnce` | `UniformTtl` | no token is spent twice while valid |
| `MarkersOutliveTokens` | `UniformTtl` | a marker expires no earlier than the token it marks |
| `RevocationBeatsRefresh` | | a session revoked before the lock gives no tokens |
| `RevocationStays` | | no step brings a revoked session back |
| `AnswersMatchTheRow` | `ExclusiveLock` | the row holds the tokens that are about to be returned |
| `OnlyExpiredTokensAreInvalid` | | `NoSpuriousReject`, which has `ExclusiveLock` and `~StorageFaults` as premises |
| `RotationKeepsLineage` | `ExclusiveLock`, `UniformTtl` | `TokenRotation` implements `SessionLineage` |

The invariants are conjunctions of small parts. `TypeInv` adds to `TypeOK` that a request beyond
`idle` holds a token and one about to write holds a minted one: without that the
type of a row is not inductive. Exclusion needs `LockInv`: a request inside the critical section
entered it at a time for which its session's key is still alive, because the section ends within
`MaxRequest` of the request's start and the key lives longer; only then does the unconditional
delete in the finally block remove one's own lock. `OwnSession` says that the sessions found by
hash and by claim agree, because a row carries only tokens of its own session. `Dates` says that
no token or marker is from the future; with it and `UniformTtl`, `MarksInv` gives that a marker
set now outlives a token minted earlier, hence a second marker cannot be set while the token is
valid: the proof uses the set-if-absent of the marker and nothing about the lock. `RevokedInv`
carries "revoked at the lock" past each step up to the read that stops the request. `RowInv`
says that the row is no younger than the token about to replace it and, from the update to the
release, holds what was minted: exclusion keeps other updates out in between. `RejectInv` says that
past the check for a marker the token still has none; only a request of the same session could
set one, and exclusion keeps it out until the release.

The refinement maps `current` to the rows' tokens, `revoked` to the revoked rows and `spent` to the
markers set before their token expired. `UpdateTokens` is then a renewal (`RowInv`: the new
token is no older; `OwnSession`: it is the session's), the first marker of a live token a
spending (`MarksInv`: it is the only one), a revocation a revocation, and every other step a
stutter.

`RequestGuard_proofs` does the same for the guard, with any requests, sessions, keys and lifetimes:

| Theorem | Says |
|---|---|
| `TypeCorrect` | `TypeOK` always holds |
| `RowIsUnchangedWhileChecked` | a token admits only if nobody wrote or deleted the row between the two reads |
| `DeadStaysOut` | `DeadCredentialsAreRefused` always holds |
| `ProtectedRoutesAskForOne` | `ProtectedNeedsOneCredential`: a protected route admits one credential it takes, and nobody without |
| `PublicRoutesStayOpen` | `PublicRouteFailsOnlyUncaught`: a public route is denied only after a good key, or with a token and no context store, and only if the user vanished or a read failed |

`VersionInv` says that the version of a row that is there counts its writes, and that a request
about to compare versions read one of that kind: equal versions then mean no write, and a deleted
row never comes back. `DeadInv` says for each place of a request which reasons for refusal the
checks so far have ruled out, and `NothingRevives` that no action around the requests makes a dead
session, token, key or user usable again. `RouteInv` says where on its way a request on a protected
route can be, given its credentials and the route: past the key path only if the route takes keys,
at the token only without a key in the header. On any route it has the key path need a key,
and the read that nothing catches a token and no context store; `DeadInv` adds for
`PublicRoutesStayOpen` that the second read of the key's user needs a key that was good on arrival.

`ClientTokens_proofs` proves for any tabs and calls:

| Theorem | Says |
|---|---|
| `TypeCorrect` | `TypeOK` always holds |
| `TabsShowTheStoredUser` | `TabsAgree` always holds |
| `TheSessionIsKept` | `RefreshesKeepTheSession` always holds |

`AgreeInv` adds to `TabsAgree` who will still tell a tab: a call that is about to write the user
(`Tells`), the tab's own call (`OwnTab`), and the value a storage event has read (`Reads`). A
profile that is stored tells nobody; all tabs but its own are then `missed`, unless it is the user
that was stored before. `KeepInv` follows the session through calls that are under way. `Meetings`
says that calls which overlap, refreshes of one tab and profiles apart, know it; so a login or a
logout that met nobody finds what it has done so far untouched (`Undisturbed`), and can finish it.
`Kept` says that while there was no trouble the store holds the login the user completed, and that
a refresh on its way started from that token or has been answered with its successor: the tab has
one refresh in flight (`Flights`), and the others wait for it; `ProfileKept` says that a profile on
its way is that of the stored login, so storing it changes no more than the edition.

`SignIn_proofs` proves every property of the `signin` run, for any number of requests, any
configurations, users, backup codes and limits, under the assumption `SignInAssumption` (the
scenarios and the origins of logins have their types, there are finitely many requests, the bounds
are numbers, and a backup code is none of the other answers):

| Theorem | Says |
|---|---|
| `TypeCorrect` | `TypeOK` always holds |
| `CodesAreSpentOnce` | `BackupCodesAreSingleUse`: a backup code is accepted once, unless a save restored the list |
| `LateAnswersFail` | `LateAnswersGetNothing`: an answer to a session completed before gets nothing |
| `OneOpenSession` | `OneOpenSessionUnlessRaced`: one open session and one budget of attempts per challenge |
| `WrongAnswersAreCounted` | `GuessesAreCounted`: with n requests, at most n - 1 wrong answers beyond the limit |
| `FactorsAreProven` | `EveryFactorProven`: tokens only for whoever passed all that the own sign-in owed throughout, but for what a shared session excuses |

The module first says once what a step may do to the request that takes it (`Alike`, `GoesOn`,
`Ends`, and a `Shape` lemma for each group of actions), so that the invariants need not open the
actions again. `TypeInv` adds to `TypeOK` that a request which works on a session has the number
of one that exists (`Fits`). `CodesInv` says that a code once accepted is no longer in the user's
row, and that a request about to save a backup code has read it there: a second acceptance then
has read an older row, which is what `rolledBack` remembers. `LateInv` says that the session of a late
answer is closed and stays closed, so its second validation fails. `OneInv` says that at most one
request is between finding no usable session and inserting one, and that such a request has seen
all open sessions: `OneOpenSessionUnlessRaced` alone does not survive the insertion. `GuessInv`
bounds the attempts of an open session together with the requests that have been admitted to it
(`Busy`), because the limit is only looked at on admission. `FactorInv` ties what a request owed in
every state (`needed`) to the user it has read, and says that the way of signing in it is judged by
is no more lenient than those of `kin` taken together (`OriginOK`): what it owes and is not
asked for is then in `Excused`;
the proof then follows the rules of `AuthFlow`
down to the state `AUTHENTICATED`.

`Recovery_proofs`, `RecoveryLimits_proofs` and `RecoveryTries_proofs` prove every property of the
`recovery` run, for any number of requests, codes, limits and scenarios, under `RecoveryAssumption`
(the scenarios have their type, there is a finite number of requests and room for a code, the
bounds are numbers, and `MaxFailures` is not 0, which the code reads as 5):

| Theorem | Says |
|---|---|
| `TypeCorrect` | `TypeOK` always holds |
| `RowsStand` | `RowWritesStand`: no older row is saved over the newest password or the lock, unless writers overlapped |
| `OldPasswordsAreOut` | `OldPasswordsOpenNothing`: after a reset no session of an earlier password lives, late logins apart |
| `OneCodeOneUse` | `OneUseOfOneCode`: a code works once, and one code is unused, unless two requests overlapped |
| `CountersEnd` | `CountersExpire`: each counter has a lifetime, the gaps of Redis apart |
| `GuessesAreLimited` | `GuessesMeetTheLock`: with n requests, n - 1 wrong passwords beyond the limit, in the database 2(n - 1) |
| `TriesCount` | `TriesAreCounted`: the limit m holds for the wrong codes tested, if tests overlap (m + n over n) - 1 does; one more for each request that dies |

Each step is first sorted by what it leaves alone: the user's row and the sessions (`Harmless`),
the rows of codes (`ForCodes`), the storage (`ForKeys`); an invariant then looks only at the few
steps that remain. `RowInv` says that whoever is about to save the whole row (`HoldsRow`) holds it
as it is, as long as no overlap is remembered, and that a lock is only lifted by a request that
read a temporary one. `OldInv` adds to the property that a login about to open a session has
checked the present password. `SpendInv` says that a code about to be spent has not been spent
and has one request at it, `IssueInv` that a request between invalidating and inserting is alone
and sees no unused code. `KeysInv` says that a request which found its counter in Redis still finds it
at INCR, unless the loss of the key is remembered.

`GuessesAreLimited` counts requests by what they are about to do: test a password (`Readers`),
count a failure (`Counting`, of which `Inserting` do so by an insert), lock the address
(`Lockers`); one request has one role at most. `Tally` says that a failure at or above the limit
belongs to a request that will lock, and `Tested` bounds the passwords tested by the counter,
the roles and the failures that the database may lose to colliding inserts (`Slack`: at most one per
other request, because the first insert ends the chance). Once the address is locked nobody
becomes a reader, so the readers there are use the bound up. Without `Tally` the property is not
inductive: a counter could be cleared while nobody locks.

`TriesCount` has to find what gets smaller when a late write sets the attempts of a code back. Give
each request that is about to write the attempts it has read, and every other request those of the
row; for each number below the limit count the requests that have it or a smaller one (`Profile`).
A write makes the first of these counts that changes smaller, because the writer leaves its number,
or everybody leaves the row's (`WriteFalls`). The counts rise with the number (`Rising`), and a
profile has a rank among such functions in the order of the first difference (`Rank`). The
invariant (`Room`) says that the tests made and the rank are together at most the number of those
functions less one, plus the requests still to write and those that died. It must say so for each
set of those requests, since any of them may die or write last. That the functions are at most (m +
n over n) is proved from the module's definition of `choose`, by the triangle of Pascal
(`RisingBound`). Without overlap the attempts count the tests themselves (`InTurn`). The invariant
was checked by TLC first, on scenarios of confirmations with two requests.

`LoginSessions_proofs` proves every property of the `logins` run, for any number of logins,
devices, sessions, refreshes and calls of disableUser, and any limit, under `LoginAssumption`:

| Theorem | Says |
|---|---|
| `TypeInvariant` | `TypeOK` always holds |
| `LockedOut` | `OnlyEarlierSignInsSurviveDisabling`: after a disableUser has revoked, only sign-ins that read the user before the lock can have a session, in flight or by a challenge answered later |
| `DeviceReplaced` | `SoloLoginReplacesDevice`: the session of a login that nothing overlapped is the only one of its device |
| `LimitRestored` | `SoloLoginRestoresLimit`: a login that nothing overlapped leaves at most the limit of live sessions |
| `OldestEvicted` | `EvictsLeastRecentlyActive`: what a login evicts was active before everything it spares |

`Locks` says that while the account is locked no login on its way to a session, or with a challenge
to answer, has read the user since the last lock, so an insert after a revocation is one of an
earlier sign-in, whichever of several overlapping calls of disableUser revoked. `Pairs` says
that of two logins between their first read of the session table and their insert each knows that
it is overlapped, and `DeviceFree` that such a login, if it is not, has ended the live sessions of
its device or has all of them on its list: without `Pairs` another insert could come between.
`Evictions` says of a login that nothing overlapped that the live sessions without those on its
list, or after their revocation the live sessions, are fewer than the limit (`RoomFor`), and that
those on its list are the oldest (`OldestOf`). That the list is long enough is a fact about
orders, `RankBound`: of n things of which no two are equal, at most n - e have e or more below
them, because their ranks are different numbers from e to n - 1.

Only model-checked: the liveness properties. `RequestsFinish`, `AbandonedLockFrees` and
`RequestsAreDecided` stay with TLC, since TLAPS does not reason about fairness and ENABLED.
`AuthFlow` is operators without state; what is proved of them is what
`FactorsAreProven` uses.

## 5. What the models leave out

Signatures, hashing and key material work as intended (a token cannot be forged, a hash does not
collide). A SQL statement is atomic, and set-if-absent has one winner. Clocks of the processes
agree, and time is in whole seconds. Audit records, logs, cookies and the wording of errors are
left out, except which error code a refresh ends with. The handlers of the Express and Fastify
adapters do the same reads as the guard; what they do with a refusal is not modelled.

**Not modelled.** Social sign-in, the OIDC provider and the trusted devices' table are state
machines too, but small and nearly sequential, or driven by services outside the repository; what
they change in a sign-in is an input of `SignIn`. The Angular client wraps the client SDK; its
interceptor has a refresh of its own in flight. Password hashing, code arithmetic, WebAuthn,
risk scores, templates, configuration and the wiring of frameworks hold no state between
requests. `PROJECT.json` says so of each component.

## 6. What could come next

`ClientTokens` with the states of `TokenRotation` for its server;
the state store of social sign-in and the OIDC storage adapter.
