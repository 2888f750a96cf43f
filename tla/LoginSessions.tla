--------------------------- MODULE LoginSessions ----------------------------
(***************************************************************************)
(* From a verified password to a session: the account lock check of        *)
(* AuthService.login, AuthChallengeHelperService.createSuccessResponse and *)
(* SessionService.createSession with its limit, the answer to a challenge  *)
(* that comes in between (respondToChallenge), against disableUser and     *)
(* enableUser, refreshes and revocations.  One user; each login is a       *)
(* process that ends an action at every await that matters here.           *)
(***************************************************************************)
EXTENDS Integers, Sequences, FiniteSets

CONSTANTS Logins,        \* logins of the user, each running once
          Devices,       \* device tokens of trusted devices
          NoDevice,      \* a login without a device token
          MaxConcurrent, \* config.session.maxConcurrent, 0 when it is not set
          Before,        \* devices of the sessions that exist before the logins, oldest
                         \* first: more than the limit if that was lowered
          MaxTouches,    \* bound: refreshes of sessions
          MaxDisables,   \* bound: calls of disableUser
          Nobody         \* owner of the sessions that exist before

ASSUME LoginAssumption ==
    /\ MaxConcurrent \in Nat /\ MaxTouches \in Nat /\ MaxDisables \in Nat
    /\ NoDevice \notin Devices /\ Nobody \notin Logins
    /\ Before \in Seq(Devices \cup {NoDevice})
    /\ IsFiniteSet(Logins)

VARIABLES locked,  \* user.isLocked with lockedUntil NULL
          rows,    \* session rows by id, in the order of insertion
          activity,\* lastActivityAt of the rows
          clock,   \* counts the writes of lastActivityAt
          login,   \* the logins' local state
          revoking,\* calls of disableUser that have set the lock and not yet revoked
          revoked, \* some call has revoked the sessions since the lock was last set
          disables,\* how often disableUser set the lock
          touches  \* how often a refresh touched a session

vars == <<locked, rows, activity, clock, login, revoking, revoked, disables, touches>>

Ids == DOMAIN rows

\* over: isRevoked, or expiresAt has passed; stored: the hashes are those of tokens of this row.
Row == [device: Devices \cup {NoDevice}, over: BOOLEAN, stored: BOOLEAN,
        owner: Logins \cup {Nobody}]

PC == {"idle", "challenge", "findDevice", "revokeDevice", "count", "evict", "save", "update", "done"}

Outcome == {"none", "tokens", "ACCOUNT_LOCKED", "error"}
-----------------------------------------------------------------------------
IsLive(s) == ~rows[s].over

Live == {s \in Ids : IsLive(s)}

RevokeRows(ids) == rows' = [s \in Ids |-> [rows[s] EXCEPT !.over = @ \/ s \in ids]]

\* Mutant: the time of the last write is written again.
TouchLate(s) ==
    /\ activity' = [activity EXCEPT ![s] = clock]
    /\ UNCHANGED clock

\* lastActivityAt of one row is set to now.
Touch(s) ==
    /\ activity' = [activity EXCEPT ![s] = clock + 1]
    /\ clock' = clock + 1

Older(s) == {t \in Live : activity[t] < activity[s]}

\* How many sessions must go for one more to be within the limit.
Excess == Cardinality(Live) - MaxConcurrent + 1

\* Logins between their first read of the session table and their insert.
Creating == {l \in Logins : login[l].pc \in {"revokeDevice", "count", "evict", "save"}}

GoTo(l, label) == login' = [login EXCEPT ![l].pc = label]

Finish(l, outcome) == login' = [login EXCEPT ![l].pc = "done", ![l].outcome = outcome]

\* The first read of l: it and the logins that are already creating a session overlap.
Overlapping(l) ==
    [k \in Logins |->
       [login[k] EXCEPT !.overlapped = @ \/ (k \in Creating \ {l} \/ (k = l /\ Creating \ {l} # {}))]]

\* Whoever has chosen sessions to evict chose them by an order that no longer holds.
OrderChanged == [l \in Logins |-> [login[l] EXCEPT !.stale = @ \/ login[l].pc = "evict"]]

Init ==
    /\ locked = FALSE
    /\ rows = [s \in DOMAIN Before |->
                 [device |-> Before[s], over |-> FALSE, stored |-> TRUE, owner |-> Nobody]]
    /\ activity = [s \in DOMAIN Before |-> s]
    /\ clock = Len(Before)
    /\ login = [l \in Logins |->
                  [pc |-> "idle", device |-> NoDevice, ids |-> {}, row |-> 0,
                   outcome |-> "none", epoch |-> 0, overlapped |-> FALSE, kept |-> FALSE,
                   stale |-> FALSE]]
    /\ revoking = 0 /\ revoked = FALSE
    /\ disables = 0
    /\ touches = 0

\* l goes on to its session on the device the request names; e is its epoch.
Proceed(l, e) ==
    \E d \in Devices \cup {NoDevice} :
        login' = [login EXCEPT ![l].pc = IF d = NoDevice THEN "count" ELSE "findDevice",
                               ![l].device = d, ![l].epoch = e]
-----------------------------------------------------------------------------
(* Mutants: mistakes in the definitions below that the properties must notice. *)

\* The account lock is not looked at.
AuthenticateUnlocked(l) ==
    /\ login[l].pc = "idle"
    /\ \/ login' = [login EXCEPT ![l].pc = "challenge", ![l].epoch = disables]
       \/ Proceed(l, disables)
    /\ UNCHANGED <<locked, rows, activity, clock, revoking, revoked, disables, touches>>

\* One session of the device is looked up instead of all.
FindOneOfDevice(l) ==
    /\ login[l].pc = "findDevice"
    /\ LET found == {s \in Live : rows[s].device = login[l].device}
       IN  login' = [Overlapping(l) EXCEPT
                       ![l].pc = IF found = {} THEN "count" ELSE "revokeDevice",
                       ![l].ids = IF found = {} THEN {} ELSE {CHOOSE s \in found : TRUE}]
    /\ UNCHANGED <<locked, rows, activity, clock, revoking, revoked, disables, touches>>

\* The new session is not counted.
CountWithoutOwn(l) ==
    /\ login[l].pc = "count"
    /\ LET over == Excess - 1 > 0
       IN  login' = [Overlapping(l) EXCEPT
                       ![l].pc = IF over THEN "evict" ELSE "save",
                       ![l].ids = IF over THEN {s \in Live : Cardinality(Older(s)) < Excess - 1}
                                          ELSE {}]
    /\ UNCHANGED <<locked, rows, activity, clock, revoking, revoked, disables, touches>>

\* The sessions are ordered from the most recently active.
CountNewestFirst(l) ==
    /\ login[l].pc = "count"
    /\ LET over == Excess > 0
       IN  login' = [Overlapping(l) EXCEPT
                       ![l].pc = IF over THEN "evict" ELSE "save",
                       ![l].ids = IF over
                                    THEN {s \in Live : Cardinality(Live \ Older(s)) <= Excess}
                                    ELSE {}]
    /\ UNCHANGED <<locked, rows, activity, clock, revoking, revoked, disables, touches>>
-----------------------------------------------------------------------------
(* A login. *)

\* The user is read and the lock checked on what was read; then a challenge may be due.
Authenticate(l) ==
    /\ login[l].pc = "idle"
    /\ IF locked THEN Finish(l, "ACCOUNT_LOCKED")
       ELSE \/ login' = [login EXCEPT ![l].pc = "challenge", ![l].epoch = disables]
            \/ Proceed(l, disables)
    /\ UNCHANGED <<locked, rows, activity, clock, revoking, revoked, disables, touches>>

\* The challenge is answered, at any later time: the answer is right and nothing more is due,
\* or the challenge session is at its end.  The lock is not looked at.
Answer(l) ==
    /\ login[l].pc = "challenge"
    /\ Proceed(l, login[l].epoch) \/ Finish(l, "error")
    /\ UNCHANGED <<locked, rows, activity, clock, revoking, revoked, disables, touches>>

\* revokeUserSessionsByDeviceId reads the live sessions of the device ...
FindDevice(l) ==
    /\ login[l].pc = "findDevice"
    /\ LET found == {s \in Live : rows[s].device = login[l].device}
       IN  login' = [Overlapping(l) EXCEPT
                       ![l].pc = IF found = {} THEN "count" ELSE "revokeDevice",
                       ![l].ids = found]
    /\ UNCHANGED <<locked, rows, activity, clock, revoking, revoked, disables, touches>>

\* ... and revokes them by id; if that throws, the login goes on.
RevokeDevice(l) ==
    /\ login[l].pc = "revokeDevice"
    /\ \/ RevokeRows(login[l].ids) /\ GoTo(l, "count")
       \/ /\ login' = [login EXCEPT ![l].pc = "count", ![l].kept = TRUE]
          /\ UNCHANGED rows
    /\ UNCHANGED <<locked, activity, clock, revoking, revoked, disables, touches>>

\* createSession reads the ids of the live sessions, least recently active first.
Count(l) ==
    /\ login[l].pc = "count"
    /\ LET over == MaxConcurrent > 0 /\ Excess > 0
       IN  login' = [Overlapping(l) EXCEPT
                       ![l].pc = IF over THEN "evict" ELSE "save",
                       ![l].ids = IF over THEN {s \in Live : Cardinality(Older(s)) < Excess}
                                          ELSE {}]
    /\ UNCHANGED <<locked, rows, activity, clock, revoking, revoked, disables, touches>>

Evict(l) ==
    /\ login[l].pc = "evict"
    /\ RevokeRows(login[l].ids)
    /\ GoTo(l, "save")
    /\ UNCHANGED <<locked, activity, clock, revoking, revoked, disables, touches>>

\* The row is inserted with the hashes of temporary tokens.
Save(l) ==
    /\ login[l].pc = "save"
    /\ rows' = Append(rows, [device |-> login[l].device, over |-> FALSE, stored |-> FALSE,
                             owner |-> l])
    /\ activity' = Append(activity, clock + 1) /\ clock' = clock + 1
    /\ login' = [login EXCEPT ![l].pc = "update", ![l].row = Len(rows) + 1]
    /\ UNCHANGED <<locked, revoking, revoked, disables, touches>>

\* updateTokens stores the hashes of the tokens that name the row, which are then returned.
UpdateTokens(l) ==
    /\ login[l].pc = "update"
    /\ rows' = [rows EXCEPT ![login[l].row].stored = TRUE]
    /\ Touch(login[l].row)
    /\ login' = [OrderChanged EXCEPT ![l].pc = "done", ![l].outcome = "tokens"]
    /\ UNCHANGED <<locked, revoking, revoked, disables, touches>>

\* An awaited call throws, or the process dies.
Throw(l) ==
    /\ login[l].pc \notin {"idle", "challenge", "done"}
    /\ Finish(l, "error")
    /\ UNCHANGED <<locked, rows, activity, clock, revoking, revoked, disables, touches>>
-----------------------------------------------------------------------------
(* Around the logins. *)

\* disableUser sets the permanent lock ...
DisableLock ==
    /\ disables < MaxDisables
    /\ locked' = TRUE
    /\ revoking' = revoking + 1 /\ revoked' = FALSE
    /\ disables' = disables + 1
    /\ UNCHANGED <<rows, activity, clock, login, touches>>

\* ... and then revokes the user's sessions; if that throws, it reports success all the same.
DisableRevoke ==
    /\ revoking > 0
    /\ \/ RevokeRows(Ids) /\ revoked' = TRUE
       \/ UNCHANGED <<rows, revoked>>
    /\ revoking' = revoking - 1
    /\ UNCHANGED <<locked, activity, clock, login, disables, touches>>

\* enableUser takes the lock away, also from a disableUser that is yet to revoke.
EnableUser ==
    /\ locked
    /\ locked' = FALSE
    /\ UNCHANGED <<rows, activity, clock, login, revoking, revoked, disables, touches>>

\* A refresh of a live session sets its lastActivityAt; a login may have read the old one.
Refresh(s) ==
    /\ IsLive(s) /\ rows[s].stored /\ touches < MaxTouches
    /\ Touch(s)
    /\ touches' = touches + 1
    /\ login' = OrderChanged
    /\ UNCHANGED <<locked, rows, revoking, revoked, disables>>

\* Logout, or the session's expiresAt passes.
EndSession(s) ==
    /\ IsLive(s)
    /\ RevokeRows({s})
    /\ UNCHANGED <<locked, activity, clock, login, revoking, revoked, disables, touches>>

Step(l) ==
    \/ FindDevice(l) \/ RevokeDevice(l) \/ Count(l) \/ Evict(l) \/ Save(l) \/ UpdateTokens(l)

Next ==
    \/ \E l \in Logins : Authenticate(l) \/ Answer(l) \/ Step(l) \/ Throw(l)
    \/ DisableLock \/ DisableRevoke \/ EnableUser
    \/ \E s \in Ids : Refresh(s) \/ EndSession(s)

Spec == Init /\ [][Next]_vars

-----------------------------------------------------------------------------
(* Properties. *)

\* Every variable has its type; no two rows were last active at the same time.
TypeOK ==
    /\ locked \in BOOLEAN
    /\ rows \in Seq(Row)
    /\ clock \in Nat /\ activity \in [Ids -> 0..clock]
    /\ \A s, t \in Ids : s # t => activity[s] # activity[t]
    /\ login \in [Logins -> [pc: PC, device: Devices \cup {NoDevice}, ids: SUBSET Ids,
                             row: Nat, outcome: Outcome, epoch: Nat, overlapped: BOOLEAN,
                             kept: BOOLEAN, stale: BOOLEAN]]
    /\ revoking \in Nat /\ revoked \in BOOLEAN
    /\ disables \in Nat /\ touches \in Nat

\* A login that no other login overlapped leaves at most maxConcurrent live sessions, and so
\* undoes what overlapping logins before it had left above the limit.
SoloLoginRestoresLimit ==
    [][\A l \in Logins :
         MaxConcurrent > 0 /\ login[l].pc = "save" /\ login'[l].pc = "update"
         => login[l].overlapped \/ Cardinality(Live') <= MaxConcurrent]_vars

\* A login with a device token that no other login overlapped is the only one of its device.
SoloLoginReplacesDevice ==
    [][\A l \in Logins :
         /\ login[l].device # NoDevice /\ login[l].pc = "save" /\ login'[l].pc = "update"
         => \/ login[l].overlapped \/ login[l].kept
            \/ {s \in Live' : rows'[s].device = login[l].device} = {login'[l].row}]_vars

\* The limit ends the sessions that were idle longest: what a login evicts was active before
\* everything it spares, unless another login or a refresh came in after its read.
EvictsLeastRecentlyActive ==
    [][\A l \in Logins :
         login[l].pc = "evict" /\ login'[l].pc = "save"
         => \/ login[l].overlapped \/ login[l].stale
            \/ \A s \in Live \ Live', t \in Live' : activity[s] < activity[t]]_vars

\* Once a disableUser has revoked the sessions, only sign-ins that had read the user before
\* the lock can have one: those in flight when it was set, and those that were then given a
\* challenge, whose answer opens a session however late it comes.
OnlyEarlierSignInsSurviveDisabling ==
    locked /\ revoked =>
        \A s \in Live : rows[s].owner # Nobody /\ login[rows[s].owner].epoch < disables

\* disableUser "immediately revokes all active sessions" (services/admin-auth-service.md), and
\* "locked accounts cannot login until unlocked" (user-response.dto.ts).
DisabledUserIsSignedOut == locked /\ revoked => Live = {}
=============================================================================
