------------------------------ MODULE Recovery -------------------------------
(* The password of one user, as one network address sees it: logins and the   *)
(* lockout of the address after failed ones, requests for a reset code, and   *)
(* confirmations that exchange a code for a new password                      *)
(* (core/src/services/auth.service.ts, admin-auth.service.ts,                 *)
(* password-reset.service.ts, auth-service-internal-helpers.ts,               *)
(* core/src/storage/account-lockout-storage.service.ts), with the transient   *)
(* storage they count in, in each of its three adapters.                      *)
(*                                                                            *)
(* A call is one request; calls run concurrently and may die between steps.   *)
(* A step is one access to the database or the storage between two awaits.    *)
(* Passwords are numbered in the order in which they are set; a reset code is *)
(* the number of its row, and 0 is a wrong password or a wrong code.          *)
EXTENDS Naturals, FiniteSets, Combinatorics

CONSTANTS
    Calls,          \* requests that may be in progress at the same time
    Scenarios,      \* adapter, what clients send and how often, lock and code to start with
    MaxFailures,    \* config.lockout.maxAttempts
    MaxTries,       \* config.password.passwordReset.maxAttempts, and the admin's
    MaxRequests,    \* config.password.passwordReset.rateLimitMax
    MaxCodes,       \* bound: reset codes ever issued
    MaxEvents       \* bound: expiries, crashes, faults and administrator's locks

VARIABLES
    cfg,        \* the scenario
    kv,         \* the transient storage: the address's counter and lock, the user's counter
    user,       \* the user's row: the password and the lock
    latest,     \* the number of the newest password
    codes,      \* the rows of reset codes
    sessions,   \* the passwords that live sessions were opened with
    call,       \* the requests
    starts,     \* requests started
    events,     \* events so far
    past        \* what the properties remember

vars == << cfg, kv, user, latest, codes, sessions, call, starts, events, past >>

Keys == {"failed", "lock", "resets"}
Rows == 1 .. MaxCodes
Kinds == {"login", "request", "confirm"}

(***************************************************************************)
(* A key of the storage: its number, 0 when there is none, and its         *)
(* lifetime.  The database keeps a row whose time is over until somebody   *)
(* deletes it; in Redis and in memory such a key is gone.                  *)
(***************************************************************************)
Entry == [n : Nat, ttl : {"none", "running", "over"}]
Absent == [n |-> 0, ttl |-> "none"]

\* "temporary" is a lock with a date that has passed: the next login lifts it.
User == [pw : Nat, lock : {"none", "temporary", "permanent"}]
NoUser == [pw |-> 0, lock |-> "none"]

Code == [st : {"none", "unused", "used"}, admin : BOOLEAN, attempts : Nat, expired : BOOLEAN]
NoCode == [st |-> "none", admin |-> FALSE, attempts |-> 0, expired |-> FALSE]

Scenario == [adapter : {"memory", "redis", "database"}, sends : SUBSET Kinds,
             lock : {"none", "temporary"}, code : BOOLEAN, admin : BOOLEAN, starts : Nat]

ASSUME RecoveryAssumption ==
    /\ Scenarios \subseteq Scenario
    /\ IsFiniteSet(Calls) /\ Calls # {}
    /\ MaxFailures \in Nat \ {0}   \* the code reads 0 as 5
    /\ MaxTries \in Nat /\ MaxEvents \in Nat
    /\ MaxCodes \in Nat \ {0}

(***************************************************************************)
(* A request: where it is, the password or code it was sent with, whether  *)
(* its new password passes the policy, the user as it last read it, the    *)
(* counter it increments, whether it found no such counter, the number it  *)
(* has from the storage or from a code's row, and that row.                *)
(***************************************************************************)
Call == [pc : {"idle", "checkLock", "dropLock", "readUser", "incr", "incrFound", "incrExpire",
               "incrInsert", "counted", "setLock", "clear", "unlock", "open", "invalidate",
               "issue", "find", "tried", "matched", "load", "findAgain", "spend", "save",
               "revoke"},
         kind : Kinds \cup {"none"}, admin : BOOLEAN, given : Nat, strong : BOOLEAN,
         snap : User, key : Keys \cup {"none"}, fresh : BOOLEAN, n : Nat,
         row : Rows \cup {0}]

Idle == [pc |-> "idle", kind |-> "none", admin |-> FALSE, given |-> 0, strong |-> FALSE,
         snap |-> NoUser, key |-> "none", fresh |-> FALSE, n |-> 0, row |-> 0]

(***************************************************************************)
(* What the properties remember: the wrong passwords tested since the last *)
(* fresh start, the wrong codes tested against each row, how often a row   *)
(* was spent, whether the administrator has locked the user, and which     *)
(* overlaps and failures have happened.                                    *)
(***************************************************************************)
Races == {"tries", "spends", "requests", "rowWrites", "lateLogin", "lostLock", "lostKey",
          "crash"}

Past == [tested : Nat, tries : [Rows -> Nat], spent : [Rows -> Nat], disabled : BOOLEAN,
         races : SUBSET Races]

Nothing == [tested |-> 0, tries |-> [i \in Rows |-> 0], spent |-> [i \in Rows |-> 0],
            disabled |-> FALSE, races |-> {}]

\* Every variable has its type.
TypeOK ==
    /\ cfg \in Scenario
    /\ kv \in [Keys -> Entry]
    /\ user \in User
    /\ latest \in Nat
    /\ codes \in [Rows -> Code]
    /\ sessions \subseteq 1 .. latest
    /\ call \in [Calls -> Call]
    /\ starts \in Nat
    /\ events \in Nat
    /\ past \in Past

Init ==
    /\ cfg \in Scenarios
    /\ kv = [k \in Keys |-> Absent]
    /\ user = [pw |-> 1, lock |-> cfg.lock]
    /\ latest = 1
    /\ codes = [i \in Rows |-> IF i = 1 /\ cfg.code
                                 THEN [NoCode EXCEPT !.st = "unused", !.admin = cfg.admin]
                                 ELSE NoCode]
    /\ sessions = {1}
    /\ call = [c \in Calls |-> Idle]
    /\ starts = 0
    /\ events = 0
    /\ past = Nothing

-----------------------------------------------------------------------------
(***************************************************************************)
(* How a request goes on.                                                  *)
(***************************************************************************)
At(c, pc) == call[c].pc = pc

GoTo(c, pc) == call' = [call EXCEPT ![c].pc = pc]

End(c) == call' = [call EXCEPT ![c] = Idle]

Others(c, pcs) == {d \in Calls \ {c} : call[d].pc \in pcs}

Remember(races) == past' = [past EXCEPT !.races = @ \cup races]

\* The flags that hold.
Flags(flags) == {r \in DOMAIN flags : flags[r]}

Start(c, kind, pc, admin, given, strong) ==
    /\ At(c, "idle")
    /\ kind \in cfg.sends
    /\ starts < cfg.starts
    /\ starts' = starts + 1
    /\ call' = [call EXCEPT ![c] = [Idle EXCEPT !.pc = pc, !.kind = kind, !.admin = admin,
                                                !.given = given, !.strong = strong]]
    /\ UNCHANGED << cfg, kv, user, latest, codes, sessions, events, past >>

\* Requests that will save the whole row of the user as they have read it.
Holding(c) ==
    \/ call[c].pc \in {"unlock", "findAgain", "save"}
    \/ call[c].pc = "spend" /\ ~call[c].admin

RowRaces(c) == IF \E d \in Calls \ {c} : Holding(d) THEN {"rowWrites"} ELSE {}

(***************************************************************************)
(* The storage.  A key that another request removes or sets while one is   *)
(* in the middle of counting it or dropping it is remembered.              *)
(***************************************************************************)
Live(k) == kv[k].n > 0 /\ kv[k].ttl # "over"

Removing(k, c) ==
    IF \E d \in Calls \ {c} : At(d, "incrFound") /\ call[d].key = k THEN {"lostKey"} ELSE {}

-----------------------------------------------------------------------------
(***************************************************************************)
(* login.  isAccountLocked reads the lock; the database adapter deletes,   *)
(* in a second call and by name, a row it found to be over.                *)
(***************************************************************************)
Login(c) ==
    \E given \in {0, 1, user.pw} : Start(c, "login", "checkLock", FALSE, given, FALSE)

\* Mutant: the lock is not looked at.
CheckLockNever(c) ==
    /\ At(c, "checkLock")
    /\ GoTo(c, "readUser")
    /\ UNCHANGED << cfg, kv, user, latest, codes, sessions, starts, events, past >>

CheckLock(c) ==
    /\ At(c, "checkLock")
    /\ IF Live("lock") THEN End(c)
       ELSE GoTo(c, IF kv["lock"].n > 0 THEN "dropLock" ELSE "readUser")
    /\ UNCHANGED << cfg, kv, user, latest, codes, sessions, starts, events, past >>

DropLock(c) ==
    /\ At(c, "dropLock")
    /\ kv' = [kv EXCEPT !["lock"] = Absent]
    /\ Remember(IF Live("lock") THEN {"lostLock"} ELSE {})
    /\ GoTo(c, "readUser")
    /\ UNCHANGED << cfg, user, latest, codes, sessions, starts, events >>

\* findUserByIdentifier, and what each kind of request does with the row: a login
\* verifies the password and looks at the lock, a request or a confirmation looks
\* at the lock later or not at all.
ReadUser(c) ==
    /\ At(c, "readUser")
    /\ LET k == [call[c] EXCEPT !.snap = user]
           right == k.given = user.pw
       IN  \/ /\ k.kind = "login" /\ right
              /\ \/ user.lock = "permanent" /\ End(c)
                 \/ /\ user.lock = "temporary"
                    /\ call' = [call EXCEPT ![c] = [k EXCEPT !.pc = "unlock"]]
                 \/ /\ user.lock = "none"
                    /\ call' = [call EXCEPT ![c] = [k EXCEPT !.pc = "open"]]
              /\ UNCHANGED past
           \/ /\ k.kind = "login" /\ ~right
              /\ call' = [call EXCEPT ![c] = [@ EXCEPT !.pc = "incr", !.key = "failed"]]
              /\ past' = [past EXCEPT !.tested = @ + 1]
           \/ /\ k.kind = "request"
              /\ \/ user.lock = "permanent" /\ End(c)
                 \/ /\ user.lock # "permanent"
                    /\ call' = [call EXCEPT ![c] = [@ EXCEPT !.pc = "incr", !.key = "resets"]]
              /\ UNCHANGED past
           \/ /\ k.kind = "confirm"
              /\ call' = [call EXCEPT ![c] = [k EXCEPT !.pc = "find"]]
              /\ UNCHANGED past
    /\ UNCHANGED << cfg, kv, user, latest, codes, sessions, starts, events >>

\* The lock's date has passed: the whole row is saved as it was read, without the lock.
Unlock(c) ==
    /\ At(c, "unlock")
    /\ user' = [call[c].snap EXCEPT !.lock = "none"]
    /\ Remember(RowRaces(c))
    /\ GoTo(c, "open")
    /\ UNCHANGED << cfg, kv, latest, codes, sessions, starts, events >>

\* createSession; then the address's counter is cleared (resetOnSuccess).
Open(c) ==
    /\ At(c, "open")
    /\ sessions' = sessions \cup {call[c].snap.pw}
    /\ GoTo(c, "clear")
    /\ UNCHANGED << cfg, kv, user, latest, codes, starts, events, past >>

\* resetFailedAttempts: after a login, or after the address has been locked.
Clear(c) ==
    /\ At(c, "clear")
    /\ kv' = [kv EXCEPT !["failed"] = Absent]
    /\ past' = [past EXCEPT !.tested = IF call[c].key = "failed" THEN @ ELSE 0,
                            !.races = @ \cup Removing("failed", c)]
    /\ End(c)
    /\ UNCHANGED << cfg, user, latest, codes, sessions, starts, events >>

-----------------------------------------------------------------------------
(***************************************************************************)
(* incr(key, ttl).  In memory it is one step; Redis is asked whether the   *)
(* key exists, told to increment it, and, if it did not exist and the      *)
(* answer is 1, told when it expires; the database updates a row it has    *)
(* locked, or inserts one, which fails if another has inserted it since.   *)
(***************************************************************************)
Incremented(k) ==
    IF Live(k) THEN [kv[k] EXCEPT !.n = @ + 1] ELSE [n |-> 1, ttl |-> "running"]

Incr(c) ==
    /\ At(c, "incr")
    /\ LET k == call[c].key
       IN  \/ /\ cfg.adapter = "redis"
              /\ call' = [call EXCEPT ![c] = [@ EXCEPT !.pc = "incrFound", !.fresh = ~Live(k)]]
              /\ UNCHANGED kv
           \/ /\ cfg.adapter = "database" /\ ~Live(k)
              /\ GoTo(c, "incrInsert")
              /\ UNCHANGED kv
           \/ /\ cfg.adapter = "memory" \/ (cfg.adapter = "database" /\ Live(k))
              /\ kv' = [kv EXCEPT ![k] = Incremented(k)]
              /\ call' = [call EXCEPT ![c] = [@ EXCEPT !.pc = "counted", !.n = kv'[k].n]]
    /\ UNCHANGED << cfg, user, latest, codes, sessions, starts, events, past >>

\* Redis: INCR creates a key without a lifetime.
IncrFound(c) ==
    /\ At(c, "incrFound")
    /\ LET k == call[c].key
           n == kv[k].n + 1
       IN  /\ kv' = [kv EXCEPT ![k].n = n]
           /\ call' = [call EXCEPT ![c] =
                [@ EXCEPT !.pc = IF call[c].fresh /\ n = 1 THEN "incrExpire" ELSE "counted",
                          !.fresh = FALSE, !.n = n]]
    /\ UNCHANGED << cfg, user, latest, codes, sessions, starts, events, past >>

IncrExpire(c) ==
    /\ At(c, "incrExpire")
    /\ LET k == call[c].key
       IN  kv' = IF Live(k) THEN [kv EXCEPT ![k].ttl = "running"] ELSE kv
    /\ GoTo(c, "counted")
    /\ UNCHANGED << cfg, user, latest, codes, sessions, starts, events, past >>

\* Mutant: the row is inserted without an expiry.
IncrInsertForever(c) ==
    /\ At(c, "incrInsert")
    /\ LET k == call[c].key
       IN  IF Live(k) THEN End(c) /\ UNCHANGED kv
           ELSE /\ kv' = [kv EXCEPT ![k] = [n |-> 1, ttl |-> "none"]]
                /\ call' = [call EXCEPT ![c] = [@ EXCEPT !.pc = "counted", !.n = 1]]
    /\ UNCHANGED << cfg, user, latest, codes, sessions, starts, events, past >>

\* Database: the row is inserted with its expiry; if there is one by now, incr throws
\* and the request with it.
IncrInsert(c) ==
    /\ At(c, "incrInsert")
    /\ LET k == call[c].key
       IN  IF Live(k) THEN End(c) /\ UNCHANGED kv
           ELSE /\ kv' = [kv EXCEPT ![k] = Incremented(k)]
                /\ call' = [call EXCEPT ![c] = [@ EXCEPT !.pc = "counted", !.n = 1]]
    /\ UNCHANGED << cfg, user, latest, codes, sessions, starts, events, past >>

\* handleFailedLogin locks the address at the limit; requestReset refuses above its own.
Counted(c) ==
    /\ At(c, "counted")
    /\ \/ /\ call[c].key = "failed"
          /\ IF call[c].n >= MaxFailures THEN GoTo(c, "setLock") ELSE End(c)
       \/ /\ call[c].key = "resets"
          /\ IF call[c].n > MaxRequests THEN End(c) ELSE GoTo(c, "invalidate")
    /\ UNCHANGED << cfg, kv, user, latest, codes, sessions, starts, events, past >>

\* lockIpAddress: the lock is set, then the counter cleared.  The database adapter
\* hides a failure to set it.
SetLock(c) ==
    /\ At(c, "setLock")
    /\ \/ /\ kv' = [kv EXCEPT !["lock"] = [n |-> 1, ttl |-> "running"]]
          /\ UNCHANGED << events, past >>
       \/ /\ cfg.adapter = "database" /\ events < MaxEvents
          /\ events' = events + 1
          /\ Remember({"lostLock"})
          /\ UNCHANGED kv
    /\ GoTo(c, "clear")
    /\ UNCHANGED << cfg, user, latest, codes, sessions, starts >>

-----------------------------------------------------------------------------
(***************************************************************************)
(* forgotPassword and the administrator's resetPassword: the codes that    *)
(* are still unused are invalidated, then a new one is stored and sent.    *)
(***************************************************************************)
RequestReset(c) ==
    /\ Cardinality({i \in Rows : codes[i].st # "none"})
         + Cardinality({d \in Calls : call[d].kind = "request"}) < MaxCodes
    /\ \/ ~cfg.admin /\ Start(c, "request", "readUser", FALSE, 0, FALSE)
       \/ cfg.admin /\ Start(c, "request", "invalidate", TRUE, 0, FALSE)

Invalidate(c) ==
    /\ At(c, "invalidate")
    /\ codes' = [i \in Rows |-> IF codes[i].st = "unused" /\ codes[i].admin = call[c].admin
                                  THEN [codes[i] EXCEPT !.st = "used"] ELSE codes[i]]
    /\ GoTo(c, "issue")
    /\ Remember(IF Others(c, {"issue"}) # {} THEN {"requests"} ELSE {})
    /\ UNCHANGED << cfg, kv, user, latest, sessions, starts, events >>

NextRow == {i \in Rows : codes[i].st = "none" /\ \A j \in Rows : j < i => codes[j].st # "none"}

Issue(c) ==
    /\ At(c, "issue")
    /\ \E i \in NextRow :
         codes' = [codes EXCEPT ![i] = [NoCode EXCEPT !.st = "unused", !.admin = call[c].admin]]
    /\ End(c)
    /\ UNCHANGED << cfg, kv, user, latest, sessions, starts, events, past >>

-----------------------------------------------------------------------------
(***************************************************************************)
(* confirmForgotPassword checks the code, the lock and the new password    *)
(* before it spends the code; confirmResetPassword, the administrator's    *)
(* flow, spends the code first.                                            *)
(***************************************************************************)
Confirm(c) ==
    \E given \in {0} \cup {i \in Rows : codes[i].st # "none"}, strong \in BOOLEAN :
        Start(c, "confirm", "readUser", cfg.admin, given, strong)

Newest(admin) ==
    {i \in Rows : /\ codes[i].st = "unused" /\ codes[i].admin = admin
                  /\ \A j \in Rows : codes[j].st = "unused" /\ codes[j].admin = admin => j <= i}

\* Mutant: the limit is reached one try later.
TriesLeftOneMore(i) == codes[i].attempts <= MaxTries

TriesLeft(i) == codes[i].attempts < MaxTries

\* assertValidCode: the newest unused code, not expired and with tries left, must match.
AssertValidCode(c, onMatch) ==
    IF \E i \in Newest(call[c].admin) : ~codes[i].expired /\ TriesLeft(i)
    THEN \E i \in Newest(call[c].admin) :
           LET match == call[c].given = i
           IN  /\ call' = [call EXCEPT ![c] = [@ EXCEPT !.pc = IF match THEN onMatch ELSE "tried",
                                                       !.row = i, !.n = codes[i].attempts]]
               /\ past' = [past EXCEPT
                    !.tries[i] = IF match THEN @ ELSE @ + 1,
                    !.races = @ \cup Flags(
                       [tries |-> ~match /\ \E d \in Others(c, {"tried"}) : call[d].row = i,
                        spends |-> match /\ onMatch = "spend"
                                     /\ \E d \in Others(c, {"spend"}) : call[d].row = i])]
    ELSE End(c) /\ UNCHANGED past

Find(c) ==
    /\ At(c, "find")
    /\ AssertValidCode(c, IF call[c].admin THEN "spend" ELSE "matched")
    /\ UNCHANGED << cfg, kv, user, latest, codes, sessions, starts, events >>

\* Mutant: the tries that are left are counted down, from none.
TriedDown(c) ==
    /\ At(c, "tried")
    /\ codes' = [codes EXCEPT ![call[c].row].attempts = @ - 1]
    /\ End(c)
    /\ UNCHANGED << cfg, kv, user, latest, sessions, starts, events, past >>

\* A wrong code: the attempts that were read are written back plus one.
Tried(c) ==
    /\ At(c, "tried")
    /\ codes' = [codes EXCEPT ![call[c].row].attempts = call[c].n + 1]
    /\ End(c)
    /\ UNCHANGED << cfg, kv, user, latest, sessions, starts, events, past >>

\* The lock as it was read before the code was checked.
Matched(c) ==
    /\ At(c, "matched")
    /\ IF call[c].snap.lock = "permanent" THEN End(c) ELSE GoTo(c, "load")
    /\ UNCHANGED << cfg, kv, user, latest, codes, sessions, starts, events, past >>

\* Mutant: the row that was read at the start is the one to save.
LoadNothing(c) ==
    /\ At(c, "load")
    /\ call' = [call EXCEPT ![c] =
         IF call[c].strong
         THEN [call[c] EXCEPT !.pc = IF call[c].admin THEN "save" ELSE "findAgain"]
         ELSE Idle]
    /\ UNCHANGED << cfg, kv, user, latest, codes, sessions, starts, events, past >>

\* updateUserPassword reads the row it will save and applies the password policy.
Load(c) ==
    /\ At(c, "load")
    /\ call' = [call EXCEPT ![c] =
         IF call[c].strong
         THEN [call[c] EXCEPT !.pc = IF call[c].admin THEN "save" ELSE "findAgain",
                              !.snap = user]
         ELSE Idle]
    /\ UNCHANGED << cfg, kv, user, latest, codes, sessions, starts, events, past >>

\* consumeValidCode, first half: the code is checked again.
FindAgain(c) ==
    /\ At(c, "findAgain")
    /\ AssertValidCode(c, "spend")
    /\ UNCHANGED << cfg, kv, user, latest, codes, sessions, starts, events >>

\* Mutant: the code is not marked as used.
SpendNothing(c) ==
    /\ At(c, "spend")
    /\ past' = [past EXCEPT !.spent[call[c].row] = @ + 1]
    /\ GoTo(c, IF call[c].admin THEN "load" ELSE "save")
    /\ UNCHANGED << cfg, kv, user, latest, codes, sessions, starts, events >>

\* consumeValidCode, second half: the row that was found is saved as used.
Spend(c) ==
    /\ At(c, "spend")
    /\ codes' = [codes EXCEPT ![call[c].row].st = "used"]
    /\ past' = [past EXCEPT !.spent[call[c].row] = @ + 1]
    /\ GoTo(c, IF call[c].admin THEN "load" ELSE "save")
    /\ UNCHANGED << cfg, kv, user, latest, sessions, starts, events >>

\* The row is saved as it was read, with the new password.
Save(c) ==
    /\ At(c, "save")
    /\ latest' = latest + 1
    /\ user' = [call[c].snap EXCEPT !.pw = latest']
    /\ Remember(RowRaces(c))
    /\ GoTo(c, "revoke")
    /\ UNCHANGED << cfg, kv, codes, sessions, starts, events >>

\* Mutant: the sessions live on.
RevokeNothing(c) ==
    /\ At(c, "revoke")
    /\ End(c)
    /\ UNCHANGED << cfg, kv, user, latest, codes, sessions, starts, events, past >>

\* revokeAllUserSessions.
Revoke(c) ==
    /\ At(c, "revoke")
    /\ sessions' = {}
    /\ Remember(IF \E d \in Others(c, {"unlock", "open"}) : call[d].snap.pw # user.pw
                THEN {"lateLogin"} ELSE {})
    /\ End(c)
    /\ UNCHANGED << cfg, kv, user, latest, codes, starts, events >>

-----------------------------------------------------------------------------
(***************************************************************************)
(* Around the requests.                                                    *)
(***************************************************************************)
Event == events < MaxEvents /\ events' = events + 1

\* A key's time is over.  A lock lasts longer than the call that follows the setting of it.
Expire(k) ==
    /\ Event
    /\ kv[k].ttl = "running"
    /\ k = "lock" => ~ \E c \in Calls : At(c, "clear") /\ call[c].key = "failed"
    /\ kv' = [kv EXCEPT ![k] = IF cfg.adapter = "database" THEN [@ EXCEPT !.ttl = "over"]
                               ELSE Absent]
    /\ past' = [past EXCEPT !.tested = IF k = "resets" THEN @ ELSE 0,
                            !.races = @ \cup (IF \E d \in Calls : At(d, "incrFound")
                                                                  /\ call[d].key = k
                                              THEN {"lostKey"} ELSE {})]
    /\ UNCHANGED << cfg, user, latest, codes, sessions, call, starts >>

ExpireCode(i) ==
    /\ Event
    /\ codes[i].st = "unused" /\ ~codes[i].expired
    /\ codes' = [codes EXCEPT ![i].expired = TRUE]
    /\ UNCHANGED << cfg, kv, user, latest, sessions, call, starts, past >>

\* disableUser: the lock columns are updated and the sessions revoked.
Disable ==
    /\ Event
    /\ "confirm" \in cfg.sends /\ ~past.disabled
    /\ user' = [user EXCEPT !.lock = "permanent"]
    /\ sessions' = {}
    /\ past' = [past EXCEPT !.disabled = TRUE,
                            !.races = @ \cup (IF \E d \in Calls : Holding(d) THEN {"rowWrites"}
                                              ELSE {})]
    /\ UNCHANGED << cfg, kv, latest, codes, call, starts >>

\* The process serving the request dies, or an awaited call throws.
Crash(c) ==
    /\ Event
    /\ ~At(c, "idle")
    /\ Remember({"crash"})
    /\ End(c)
    /\ UNCHANGED << cfg, kv, user, latest, codes, sessions, starts >>

Step(c) ==
    \/ CheckLock(c) \/ DropLock(c) \/ ReadUser(c) \/ Unlock(c) \/ Open(c) \/ Clear(c)
    \/ Incr(c) \/ IncrFound(c) \/ IncrExpire(c) \/ IncrInsert(c) \/ Counted(c) \/ SetLock(c)
    \/ Invalidate(c) \/ Issue(c)
    \/ Find(c) \/ Tried(c) \/ Matched(c) \/ Load(c) \/ FindAgain(c) \/ Spend(c) \/ Save(c)
    \/ Revoke(c)

Next ==
    \/ \E c \in Calls : Login(c) \/ RequestReset(c) \/ Confirm(c) \/ Step(c) \/ Crash(c)
    \/ \E k \in Keys : Expire(k)
    \/ \E i \in Rows : ExpireCode(i)
    \/ Disable

Spec == Init /\ [][Next]_vars

-----------------------------------------------------------------------------
\* The wrong codes tested against a reset code stay within the limit m as long as tests
\* do not overlap and the requests live to write the attempts back.  When tests overlap,
\* a late write sets the attempts back; with n requests at a time that allows at most
\* (m + n over n) - 1 tests, and so many are possible.  Each request that dies may test
\* one more.
TriesAreCounted ==
    LET n == Cardinality(Calls)
    IN  \A i \in Rows :
          past.tries[i] <=
              (IF "tries" \in past.races THEN choose(MaxTries + n, n) - 1 ELSE MaxTries)
                + (IF "crash" \in past.races THEN MaxEvents ELSE 0)

\* A reset code sets a password once, and asking for a code invalidates the ones before
\* it, unless two confirmations, or two requests, run between each other's two steps.
OneUseOfOneCode ==
    /\ "spends" \in past.races \/ \A i \in Rows : past.spent[i] <= 1
    /\ "requests" \in past.races
         \/ \A i, j \in Rows : /\ codes[i].st = "unused" /\ codes[j].st = "unused"
                               /\ codes[i].admin = codes[j].admin
                               => i = j

\* The newest password and the administrator's lock stand: nothing that was read before
\* they were written is written over them, unless two writers of the row overlapped.
RowWritesStand ==
    "rowWrites" \notin past.races =>
        /\ user.pw = latest
        /\ past.disabled => user.lock = "permanent"

\* Once a reset is through, no session lives that was opened with an earlier password,
\* except of a login that had checked it before the reset revoked the sessions.
OldPasswordsOpenNothing ==
    \/ past.races \cap {"lateLogin", "crash"} # {}
    \/ \E c \in Calls : At(c, "revoke")
    \/ sessions \subseteq {user.pw}

\* The passwords an address may try before it is locked: the limit, those of the requests
\* that were past the check of the lock, and in the database those whose counting collided;
\* unless the lock was lost or a request died before it had counted.
GuessesMeetTheLock ==
    LET others == Cardinality(Calls) - 1
    IN  past.races \cap {"lostLock", "crash"} = {} =>
            past.tested <= MaxFailures + (IF cfg.adapter = "database" THEN 2 * others ELSE others)

\* A counter always has a lifetime, so that a limit is lifted in the end, except while
\* Redis is between INCR and EXPIRE, or if the request died there, or if the key went
\* away between EXISTS and INCR.
CountersExpire ==
    \A k \in {"failed", "resets"} :
        kv[k].n > 0 /\ kv[k].ttl = "none" =>
            \/ \E c \in Calls : At(c, "incrExpire") /\ call[c].key = k
            \/ cfg.adapter = "redis" /\ past.races \cap {"lostKey", "crash"} # {}
==============================================================================
