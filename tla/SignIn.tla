------------------------------- MODULE SignIn -------------------------------
(* Signing in a user step by step: logins, the challenge sessions they open   *)
(* or share, and the answers to challenges that lead to the next challenge or *)
(* to tokens (core/src/services/auth.service.ts, challenge.service.ts,        *)
(* auth-challenge-helper.service.ts, auth-service-internal-helpers.ts and the *)
(* services for email, phone and MFA codes they call).                        *)
(*                                                                            *)
(* A call is one request of a client; requests run concurrently, on one or    *)
(* several processes, and every step of the model is one access to the        *)
(* database between two awaits of the handler.  Rows are the challenge        *)
(* sessions of one user in the order of their creation.                       *)
EXTENDS AuthFlow, FiniteSets

CONSTANTS
    Calls,          \* requests that may be in progress at the same time
    Codes,          \* the backup codes the user may own
    Scenarios,      \* the configurations of the library, each with a user to start with
    MaxAttempts,    \* config.challenge.maxAttempts
    MaxRows,        \* bound: challenge sessions ever created
    MaxStarts,      \* bound: requests ever started
    LoginOrigins,   \* bound: the ways of signing in that logins take
    MaxEvents       \* bound: sessions that expire and changes made by others

VARIABLES
    cfg,        \* the configuration
    user,       \* the user's columns in the database
    blocked,    \* the adaptive engine's block on the user
    rows,       \* the challenge sessions
    call,       \* the requests
    starts,     \* requests started
    events,     \* expiries and changes by others so far
    \* What the properties remember of the past:
    needed,     \* per call: what the user owed in every state since it started
    raced,      \* two logins or answers have looked for an open challenge at once
    rolledBack, \* a save of the user's row restored or dropped another's backup codes
    spent       \* per backup code: how often it has been accepted

hist == << needed, raced, rolledBack, spent >>
vars == << cfg, user, blocked, rows, call, starts, events, hist >>

Risks == {"allow", "require_mfa", "block_signin", "error"}
Origins == [social : BOOLEAN, signup : BOOLEAN]
Password == [social |-> FALSE, signup |-> FALSE]
Ids == 1 .. MaxRows

User == [mustChange : BOOLEAN, aged : BOOLEAN, email : BOOLEAN,
         phone : {"none", "unverified", "verified"},
         mfa : BOOLEAN, exempt : BOOLEAN, inGrace : BOOLEAN, codes : SUBSET Codes]

Config == [method : {"none", "email", "phone", "both"}, mfa : BOOLEAN,
           enforcement : {"OPTIONAL", "REQUIRED", "ADAPTIVE"},
           grace : BOOLEAN, skipForSignup : BOOLEAN, mfaForSocial : BOOLEAN,
           remember : {"never", "user_opt_in", "always"}, bypass : BOOLEAN]

ASSUME SignInAssumption ==
    /\ Scenarios \subseteq [cfg : Config, user : User]
    /\ LoginOrigins \subseteq Origins
    /\ MaxAttempts \in Nat
    /\ MaxRows \in Nat
    /\ IsFiniteSet(Calls)
    /\ Codes \cap {"right", "wrong", "phone", "none"} = {}

(***************************************************************************)
(* A challenge session: its name, the failed attempts, whether it is past  *)
(* its expiry, and the way of signing in that its metadata keep.  The rest *)
(* is remembered for the properties: how the sign-ins began that were      *)
(* handed the session ("owners"), and with them those that were handed the *)
(* sessions it came from ("kin"); and the wrong answers tested against it. *)
(***************************************************************************)
Row == [st : {"unused", "open", "done", "deleted"}, name : Challenges \cup {"none"},
        attempts : Nat, expired : BOOLEAN, origin : Origins,
        owners : SUBSET Origins, kin : SUBSET Origins, guesses : Nat]

NoRow == [st |-> "unused", name |-> "none", attempts |-> 0, expired |-> FALSE,
          origin |-> Password, owners |-> {}, kin |-> {}, guesses |-> 0]

Answers == {"right", "wrong", "phone"} \cup Codes

(***************************************************************************)
(* A request: where it is, the way of signing in that the handler goes by, *)
(* whether it presents a trusted device, the session and the answer it was *)
(* sent with, the user as read when it arrived or decided, the user read   *)
(* to be saved, the attempts as last read, the challenge it has passed or  *)
(* opens, and how it ended.  For the properties it remembers how its own   *)
(* sign-in began ("own"), with it the others that were handed the sessions *)
(* it went through ("kin"), and whether its session was completed or       *)
(* deleted before the request arrived, or completed before the request     *)
(* validated it to complete it ("late").                                   *)
(***************************************************************************)
Call == [pc : {"idle", "verify", "decide", "readUser", "saveUser", "useCode", "setPhone",
               "count", "consume", "complete", "find", "replace", "tidy", "insert",
               "send", "done"},
         origin : Origins, own : Origins, kin : SUBSET Origins, trusted : BOOLEAN,
         row : Ids \cup {0}, name : Challenges \cup {"none"},
         answer : Answers \cup {"none"}, snap : User, read : User, attempts : Nat,
         passed : Challenges \cup {"none"}, late : BOOLEAN,
         out : {"none", "tokens", "challenge", "rejected"}]

NoUser == [mustChange |-> FALSE, aged |-> FALSE, email |-> FALSE, phone |-> "none",
           mfa |-> FALSE, exempt |-> FALSE, inGrace |-> FALSE, codes |-> {}]

Idle == [pc |-> "idle", origin |-> Password, own |-> Password, kin |-> {}, trusted |-> FALSE,
         row |-> 0, name |-> "none", answer |-> "none", snap |-> NoUser, read |-> NoUser,
         attempts |-> 0,
         passed |-> "none", late |-> FALSE, out |-> "none"]

\* Every variable has its type.
TypeOK ==
    /\ cfg \in Config
    /\ user \in User
    /\ blocked \in BOOLEAN
    /\ rows \in [Ids -> Row]
    /\ call \in [Calls -> Call]
    /\ starts \in Nat
    /\ events \in Nat
    /\ needed \in [Calls -> SUBSET (Challenges \cup {"BLOCKED"})]
    /\ raced \in BOOLEAN
    /\ rolledBack \in BOOLEAN
    /\ spent \in [Codes -> Nat]

Init ==
    /\ \E s \in Scenarios : cfg = s.cfg /\ user = s.user
    /\ blocked = FALSE
    /\ rows = [i \in Ids |-> NoRow]
    /\ call = [c \in Calls |-> Idle]
    /\ starts = 0
    /\ events = 0
    /\ needed = [c \in Calls |-> {}]
    /\ raced = FALSE
    /\ rolledBack = FALSE
    /\ spent = [k \in Codes |-> 0]

-----------------------------------------------------------------------------
(***************************************************************************)
(* How a request goes on.                                                  *)
(***************************************************************************)
\* A request that has ended keeps only what the properties look at.
Ended(k, out) ==
    IF out = "rejected" THEN [Idle EXCEPT !.pc = "done", !.out = out]
    ELSE [Idle EXCEPT !.pc = "done", !.out = out, !.passed = k.passed, !.late = k.late,
                      !.kin = IF out = "tokens" THEN k.kin ELSE {}]

Reject(c) == call' = [call EXCEPT ![c] = Ended(@, "rejected")]

GoTo(c, pc) == call' = [call EXCEPT ![c].pc = pc]

Free(c) == call[c].pc \in {"idle", "done"} /\ starts < MaxStarts

\* Mutant: completed sessions are admitted.
AdmissibleAgain(i) ==
    /\ rows[i].st \in {"open", "done"}
    /\ ~rows[i].expired
    /\ rows[i].attempts < MaxAttempts

\* validateSession: the session exists, has not expired, is not completed and has
\* attempts left.
Admissible(i) ==
    /\ rows[i].st = "open"
    /\ ~rows[i].expired
    /\ rows[i].attempts < MaxAttempts

(***************************************************************************)
(* A login with the right password or provider token, or the sign-up: the  *)
(* user is read, an expired password is turned into a password that must   *)
(* be changed, and the flow is decided on what was read.                   *)
(***************************************************************************)
Login(c) ==
    /\ Free(c)
    /\ \E o \in LoginOrigins, trusted \in BOOLEAN :
        /\ o.signup => starts = 0 /\ ~user.mfa /\ ~user.aged   \* the user is new
        /\ cfg.remember = "never" => ~trusted
        /\ call' = [call EXCEPT ![c] =
             [Idle EXCEPT !.pc = IF user.aged /\ o = Password THEN "verify" ELSE "decide",
                          !.origin = o, !.own = o, !.kin = {o}, !.trusted = trusted,
                          !.snap = user]]
    /\ starts' = starts + 1
    /\ UNCHANGED << cfg, user, blocked, rows, events, raced, rolledBack, spent >>

PasswordExpired(c) ==
    /\ call[c].pc = "verify"
    /\ user' = [user EXCEPT !.mustChange = TRUE]
    /\ call' = [call EXCEPT ![c].snap.mustChange = TRUE, ![c].pc = "decide"]
    /\ UNCHANGED << cfg, blocked, rows, starts, events, raced, rolledBack, spent >>

(***************************************************************************)
(* determineAuthResponse.  After a login and after MFA verification it     *)
(* judges the user as read when the request arrived, after the other       *)
(* challenges the user read again; MFA counts as done after verification   *)
(* and after setup.                                                        *)
(***************************************************************************)
MFADone(k) == k.passed \in {"MFA_REQUIRED", "MFA_SETUP_REQUIRED"}

Judged(k) == IF k.passed \in {"none", "MFA_REQUIRED"} THEN k.snap ELSE user

\* Mutant: MFA is skipped after every challenge.
ContextAfterAny(k, risk) == [social |-> k.origin.social, signup |-> k.origin.signup,
                             trusted |-> k.trusted, skipMFA |-> k.passed # "none",
                             risk |-> risk, blocked |-> blocked]

Context(k, risk) == [social |-> k.origin.social, signup |-> k.origin.signup,
                     trusted |-> k.trusted, skipMFA |-> MFADone(k),
                     risk |-> risk, blocked |-> blocked]

Decide(c) ==
    LET k == call[c]
        u == Judged(k)
    IN  /\ k.pc = "decide"
        /\ \E risk \in IF cfg.enforcement = "ADAPTIVE" THEN Risks ELSE {"allow"} :
            LET x == Context(k, risk)
                state == EvaluateState(u, cfg, x)
            IN  /\ blocked' = Blocked(u, cfg, x)
                /\ call' = [call EXCEPT ![c] =
                      IF Outcome(state) = "challenge"
                      THEN [@ EXCEPT !.pc = "find", !.name = ChallengeOf(state),
                                     !.snap = u, !.row = 0, !.answer = "none"]
                      ELSE Ended(@, Outcome(state))]
        /\ UNCHANGED << cfg, user, rows, starts, events, raced, rolledBack, spent >>

-----------------------------------------------------------------------------
(***************************************************************************)
(* createChallengeSession: the newest session of that name that is not     *)
(* completed is handed out again while it is usable; otherwise it is       *)
(* deleted, expired and completed sessions are cleaned up (at most every   *)
(* five minutes in one process), and a new session is inserted.            *)
(***************************************************************************)
\* The newest of the sessions S, if there are any.
Newest(S) == {i \in S : \A j \in S : j <= i}

OpenRows(name) == {i \in Ids : rows[i].st = "open" /\ rows[i].name = name}

Creating(c, name) == call[c].name = name /\ call[c].pc \in {"replace", "tidy", "insert"}

\* The code of a new challenge is sent at once, except to a number just collected.
Sends(k) ==
    \/ k.name = "VERIFY_EMAIL"
    \/ k.name = "VERIFY_PHONE" /\ k.answer # "phone" /\ k.snap.phone # "none"

Hand(c, i) ==
    call' = [call EXCEPT ![c] = IF Sends(@) THEN [@ EXCEPT !.pc = "send", !.row = i]
                                ELSE Ended(@, "challenge")]

FindOpen(c) ==
    LET k == call[c]
        open == OpenRows(k.name)
    IN  /\ k.pc = "find"
        /\ \/ /\ open = {}
              /\ GoTo(c, "tidy")
              /\ UNCHANGED rows
           \/ \E i \in Newest(open) :
                 /\ Admissible(i)
                 /\ Hand(c, i)
                 /\ rows' = [rows EXCEPT ![i].owners = @ \cup {k.own}, ![i].kin = @ \cup k.kin]
           \/ \E i \in Newest(open) :
                 /\ ~Admissible(i)
                 /\ call' = [call EXCEPT ![c].pc = "replace", ![c].row = i]
                 /\ UNCHANGED rows
        /\ raced' = (raced \/ \E d \in Calls \ {c} : Creating(d, k.name))
        /\ UNCHANGED << cfg, user, blocked, starts, events, rolledBack, spent >>

\* Mutant: the unusable session stays.
ReplaceNothing(c) ==
    /\ call[c].pc = "replace"
    /\ GoTo(c, "tidy")
    /\ UNCHANGED << cfg, user, blocked, rows, starts, events, raced, rolledBack, spent >>

Replace(c) ==
    /\ call[c].pc = "replace"
    /\ rows' = [rows EXCEPT ![call[c].row].st = "deleted"]
    /\ GoTo(c, "tidy")
    /\ UNCHANGED << cfg, user, blocked, starts, events, raced, rolledBack, spent >>

Tidied(r) == IF r.st = "done" \/ (r.st = "open" /\ r.expired)
             THEN [r EXCEPT !.st = "deleted"] ELSE r

Tidy(c) ==
    /\ call[c].pc = "tidy"
    /\ rows' \in {rows, [i \in Ids |-> Tidied(rows[i])]}
    /\ GoTo(c, "insert")
    /\ UNCHANGED << cfg, user, blocked, starts, events, raced, rolledBack, spent >>

\* What the new session's metadata keep of the way of signing in.
Kept(name, o) ==
    CASE name = "MFA_REQUIRED"       -> Password
      [] name = "MFA_SETUP_REQUIRED" -> [o EXCEPT !.signup = FALSE]
      [] OTHER                       -> o

NextId(i) == rows[i].st = "unused" /\ \A j \in 1 .. i - 1 : rows[j].st # "unused"

Insert(c) ==
    LET k == call[c]
    IN  /\ k.pc = "insert"
        /\ \E i \in Ids :
             /\ NextId(i)
             /\ rows' = [rows EXCEPT ![i] = [NoRow EXCEPT !.st = "open", !.name = k.name,
                                                         !.origin = Kept(k.name, k.origin),
                                                         !.owners = {k.own},
                                                         !.kin = k.kin]]
             /\ Hand(c, i)
        /\ UNCHANGED << cfg, user, blocked, starts, events, raced, rolledBack, spent >>

\* Sending may fail (rate limit, resend delay, already verified): the login fails
\* although the session exists.
Send(c) ==
    /\ call[c].pc = "send"
    /\ \E out \in {"challenge", "rejected"} : call' = [call EXCEPT ![c] = Ended(@, out)]
    /\ UNCHANGED << cfg, user, blocked, rows, starts, events, raced, rolledBack, spent >>

-----------------------------------------------------------------------------
(***************************************************************************)
(* respondToChallenge.  The session is validated and read together with    *)
(* its user; the handler of its challenge takes over.                      *)
(***************************************************************************)
AnswersTo(name) ==
    CASE name = "VERIFY_PHONE" -> {"right", "wrong", "phone"}
      [] name = "MFA_REQUIRED" -> {"right", "wrong"} \cup Codes
      [] OTHER                 -> {"right", "wrong"}

\* The way of signing in that the handler takes from the session's metadata.
Recalled(r) ==
    CASE r.name \in {"VERIFY_EMAIL", "VERIFY_PHONE"} -> r.origin
      [] r.name = "MFA_SETUP_REQUIRED"              -> Password
      [] OTHER                                      -> [r.origin EXCEPT !.signup = FALSE]

\* Where the handler begins.  A wrong MFA answer is counted next, a right one from
\* a device has passed.
FirstStep(name, a) ==
    CASE name = "VERIFY_EMAIL"                  -> "useCode"
      [] name = "VERIFY_PHONE" /\ a = "phone"   -> "setPhone"
      [] name = "VERIFY_PHONE" /\ a # "phone"   -> "useCode"
      [] name = "FORCE_CHANGE_PASSWORD"         -> "readUser"
      [] name = "MFA_REQUIRED" /\ a = "right"   -> "consume"
      [] name = "MFA_REQUIRED" /\ a \in Codes   -> "readUser"
      [] name = "MFA_SETUP_REQUIRED" /\ a = "right" -> "readUser"
      [] OTHER                                  -> "count"

\* The request with answer a to session i, when it is admitted; it goes on with the sign-in
\* that began in the way own.
Started(i, own, a, trusted) ==
    LET r == rows[i]
        first == FirstStep(r.name, a)
    IN  [pc |-> first, origin |-> Recalled(r), own |-> own, kin |-> r.kin,
         trusted |-> trusted, row |-> i, name |-> r.name, answer |-> a, snap |-> user,
         read |-> NoUser, attempts |-> 0,
         passed |-> IF first = "consume" THEN r.name ELSE "none",
         late |-> r.st \in {"done", "deleted"}, out |-> "none"]

\* A code for a phone number is not even tried without a number.
Admitted(k) ==
    /\ Admissible(k.row)
    /\ k.pc = "useCode" /\ k.name = "VERIFY_PHONE" => user.phone # "none"

RespondWith(c, i, own, a, trusted) ==
    LET k == Started(i, own, a, trusted)
    IN  /\ cfg.remember = "never" => ~trusted
        /\ call' = [call EXCEPT ![c] = IF Admitted(k) THEN k ELSE Ended(k, "rejected")]
        /\ rows' = IF Admitted(k) /\ k.pc = "count"
                   THEN [rows EXCEPT ![i].guesses = @ + 1] ELSE rows

Respond(c) ==
    /\ Free(c)
    /\ \E i \in Ids, trusted \in BOOLEAN :
         \E own \in rows[i].owners, a \in AnswersTo(rows[i].name) :
             RespondWith(c, i, own, a, trusted)
    /\ starts' = starts + 1
    /\ UNCHANGED << cfg, user, blocked, events, raced, rolledBack, spent >>

\* verifyEmailWithCode, verifyPhoneWithCodeBySub: a code that is not found leaves
\* the attempts of the session as they are.
UseCode(c) ==
    LET k == call[c]
    IN  /\ k.pc = "useCode"
        /\ \/ /\ k.answer = "wrong"
              /\ Reject(c)
              /\ UNCHANGED user
           \/ /\ k.answer = "right"
              /\ user' = IF k.name = "VERIFY_EMAIL" THEN [user EXCEPT !.email = TRUE]
                                                   ELSE [user EXCEPT !.phone = "verified"]
              /\ call' = [call EXCEPT ![c].pc = "consume", ![c].passed = k.name]
        /\ UNCHANGED << cfg, blocked, rows, starts, events, raced, rolledBack, spent >>

\* setPhoneAndSendVerification: another number starts unverified, the same number
\* changes nothing, a number in use is refused; the challenge is handed out again.
SetPhone(c) ==
    /\ call[c].pc = "setPhone"
    /\ \/ Reject(c) /\ UNCHANGED user
       \/ /\ user' \in {[user EXCEPT !.phone = "unverified"]}
                      \cup (IF user.phone = "none" THEN {} ELSE {user})
          /\ GoTo(c, "find")
    /\ UNCHANGED << cfg, blocked, rows, starts, events, raced, rolledBack, spent >>

(***************************************************************************)
(* The handlers that save the whole user: updateUserPassword, the removal  *)
(* of a used backup code, enableMFAForUser.  They read the user, hash or   *)
(* compare, and write every column back as it was read.                    *)
(***************************************************************************)
\* Mutant: a wrong backup code is not counted.
ReadUserUncounted(c) ==
    LET k == call[c]
    IN  /\ k.pc = "readUser"
        /\ \/ /\ \/ k.name = "FORCE_CHANGE_PASSWORD" /\ k.answer = "wrong"
                 \/ k.answer \in Codes \ user.codes
              /\ Reject(c)
              /\ rows' = [rows EXCEPT ![k.row].guesses = @ + 1]
           \/ /\ k.answer \in {"right"} \cup user.codes
              /\ call' = [call EXCEPT ![c].read = user, ![c].pc = "saveUser"]
              /\ UNCHANGED rows
        /\ UNCHANGED << cfg, user, blocked, starts, events, raced, rolledBack, spent >>

ReadUser(c) ==
    LET k == call[c]
    IN  /\ k.pc = "readUser"
        /\ \/ /\ k.name = "FORCE_CHANGE_PASSWORD" /\ k.answer = "wrong"
              /\ Reject(c)
              /\ UNCHANGED rows
           \/ /\ k.answer \in Codes \ user.codes
              /\ GoTo(c, "count")
              /\ rows' = [rows EXCEPT ![k.row].guesses = @ + 1]
           \/ /\ k.answer \in {"right"} \cup user.codes
              /\ call' = [call EXCEPT ![c].read = user, ![c].pc = "saveUser"]
              /\ UNCHANGED rows
        /\ UNCHANGED << cfg, user, blocked, starts, events, raced, rolledBack, spent >>

\* Mutant: a used backup code stays in the list.
SavedWithCode(k) ==
    CASE k.name = "FORCE_CHANGE_PASSWORD" -> [k.read EXCEPT !.mustChange = FALSE, !.aged = FALSE]
      [] k.name = "MFA_REQUIRED"          -> k.read
      [] k.name = "MFA_SETUP_REQUIRED"    -> [k.read EXCEPT !.mfa = TRUE]

Saved(k) ==
    CASE k.name = "FORCE_CHANGE_PASSWORD" -> [k.read EXCEPT !.mustChange = FALSE, !.aged = FALSE]
      [] k.name = "MFA_REQUIRED"          -> [k.read EXCEPT !.codes = @ \ {k.answer}]
      [] k.name = "MFA_SETUP_REQUIRED"    -> [k.read EXCEPT !.mfa = TRUE]

SaveUser(c) ==
    LET k == call[c]
    IN  /\ k.pc = "saveUser"
        /\ user' = Saved(k)
        /\ call' = [call EXCEPT ![c].pc = "consume", ![c].passed = k.name, ![c].read = NoUser]
        /\ rolledBack' = (rolledBack \/ user.codes # k.read.codes)
        /\ spent' = IF k.answer \in Codes THEN [spent EXCEPT ![k.answer] = @ + 1] ELSE spent
        /\ UNCHANGED << cfg, blocked, rows, starts, events, raced >>

\* Mutant: the attempts are counted down.
CountDown(c) ==
    /\ call[c].pc = "count"
    /\ rows' = [rows EXCEPT ![call[c].row].attempts = @ - 1]
    /\ Reject(c)
    /\ UNCHANGED << cfg, user, blocked, starts, events, raced, rolledBack, spent >>

\* incrementAttempts: one statement of the database; the answer was wrong.
Count(c) ==
    /\ call[c].pc = "count"
    /\ rows' = [rows EXCEPT ![call[c].row].attempts =
                              IF rows[call[c].row].st = "deleted" THEN @ ELSE @ + 1]
    /\ Reject(c)
    /\ UNCHANGED << cfg, user, blocked, starts, events, raced, rolledBack, spent >>

(***************************************************************************)
(* validateAndConsumeSession: the session is validated, and then saved as  *)
(* completed with every column as it was read; a session deleted meanwhile *)
(* is inserted again.                                                      *)
(***************************************************************************)
Consume(c) ==
    LET k == call[c]
    IN  /\ k.pc = "consume"
        /\ IF Admissible(k.row)
           THEN call' = [call EXCEPT ![c].pc = "complete", ![c].attempts = rows[k.row].attempts]
           ELSE Reject(c)
        /\ UNCHANGED << cfg, user, blocked, rows, starts, events, raced, rolledBack, spent >>

BeforeConsuming(k) == k.pc \in {"readUser", "saveUser", "useCode", "count", "consume"}

Complete(c) ==
    LET k == call[c]
    IN  /\ k.pc = "complete"
        /\ rows' = [rows EXCEPT ![k.row].st = "done", ![k.row].attempts = k.attempts]
        /\ call' = [d \in Calls |->
                      IF d = c THEN [k EXCEPT !.pc = "decide"]
                      ELSE IF call[d].row = k.row /\ BeforeConsuming(call[d])
                           THEN [call[d] EXCEPT !.late = TRUE] ELSE call[d]]
        /\ UNCHANGED << cfg, user, blocked, starts, events, raced, rolledBack, spent >>

-----------------------------------------------------------------------------
(***************************************************************************)
(* What happens beside the requests: sessions expire, an administrator     *)
(* sets a password that must be changed, the user enables MFA in a session *)
(* elsewhere, the block ends.                                              *)
(***************************************************************************)
Expire(i) ==
    /\ events < MaxEvents
    /\ rows[i].st = "open" /\ ~rows[i].expired
    /\ rows' = [rows EXCEPT ![i].expired = TRUE]
    /\ events' = events + 1
    /\ UNCHANGED << cfg, user, blocked, call, starts, raced, rolledBack, spent >>

Others ==
    /\ events < MaxEvents
    /\ events' = events + 1
    /\ \/ /\ user' = [user EXCEPT !.mustChange = TRUE, !.aged = FALSE]
          /\ UNCHANGED blocked
       \/ /\ ~user.mfa
          /\ user' = [user EXCEPT !.mfa = TRUE]
          /\ UNCHANGED blocked
       \/ /\ blocked
          /\ blocked' = FALSE
          /\ UNCHANGED user
    /\ UNCHANGED << cfg, rows, call, starts, raced, rolledBack, spent >>

(***************************************************************************)
(* What a request owes that began in one of the ways o, from the           *)
(* configuration f and the database alone.                                 *)
(***************************************************************************)
Owed(f, u, blk, o, trusted) ==
    {ch \in Challenges \cup {"BLOCKED"} :
        \/ ch = "BLOCKED" /\ blk
        \/ ch = "FORCE_CHANGE_PASSWORD" /\ u.mustChange
        \/ ch = "VERIFY_EMAIL" /\ f.method \in {"email", "both"} /\ ~o.social /\ ~u.email
        \/ ch = "VERIFY_PHONE" /\ f.method \in {"phone", "both"} /\ u.phone # "verified"
        \/ /\ f.mfa /\ ~u.exempt
           /\ o.social => f.mfaForSocial
           /\ \/ /\ ch = "MFA_REQUIRED" /\ u.mfa
                 /\ trusted => ~f.bypass /\ f.enforcement # "ADAPTIVE"
              \/ /\ ch = "MFA_SETUP_REQUIRED" /\ ~u.mfa
                 /\ f.enforcement # "OPTIONAL"
                 /\ ~(f.grace /\ u.inGrace)
                 /\ o.signup => ~f.skipForSignup}

OwedBy(f, u, blk, k) == Owed(f, u, blk, k.own, k.trusted)

\* Remembered: what a running request has owed in every state since its start.
Remember ==
    needed' = [c \in Calls |->
        CASE call'[c].out \in {"challenge", "rejected"} \/ call'[c].pc = "idle" -> {}
          [] call'[c].out = "tokens" -> needed[c]
          [] call'[c].out = "none" /\ call'[c].pc # "idle" /\ call[c].pc \in {"idle", "done"} ->
                 OwedBy(cfg, user', blocked', call'[c])
          [] call'[c].out = "none" /\ call[c].pc \notin {"idle", "done"} ->
                 needed[c] \cap OwedBy(cfg, user', blocked', call'[c])]

Step(c) ==
    \/ Login(c) \/ PasswordExpired(c) \/ Decide(c)
    \/ FindOpen(c) \/ Replace(c) \/ Tidy(c) \/ Insert(c) \/ Send(c)
    \/ Respond(c) \/ UseCode(c) \/ SetPhone(c) \/ ReadUser(c) \/ SaveUser(c)
    \/ Count(c) \/ Consume(c) \/ Complete(c)

Next ==
    /\ (\E c \in Calls : Step(c)) \/ (\E i \in Ids : Expire(i)) \/ Others
    /\ Remember

Spec == Init /\ [][Next]_vars

-----------------------------------------------------------------------------
(***************************************************************************)
(* A request is never let through with a factor it owed all along: whoever *)
(* gets tokens has, in that request, passed each challenge that its own    *)
(* sign-in owed in every state since the request arrived, whatever other   *)
(* logins, answers and administrators did meanwhile.  Setting MFA up       *)
(* counts as passing MFA.  (All handlers of respondToChallenge end in      *)
(* determineAuthResponse, which judges a user that may be stale.)  The     *)
(* exception is Excused: when a session it went through had been handed to *)
(* a social sign-in as well, the proof of the address and, unless social   *)
(* sign-ins need it, MFA; to the sign-up as well, the MFA setup that a     *)
(* sign-up may skip.  A change of password, the phone and the block are    *)
(* never lost.                                                             *)
(***************************************************************************)
Passes(k) == IF MFADone(k) THEN {"MFA_REQUIRED", "MFA_SETUP_REQUIRED"} ELSE {k.passed}

Excused(f, kin) ==
    {ch \in Challenges :
        \/ ch = "VERIFY_EMAIL" /\ \E o \in kin : o.social
        \/ /\ ch \in {"MFA_REQUIRED", "MFA_SETUP_REQUIRED"}
           /\ ~f.mfaForSocial /\ \E o \in kin : o.social
        \/ ch = "MFA_SETUP_REQUIRED" /\ f.skipForSignup /\ \E o \in kin : o.signup}

EveryFactorProven ==
    \A c \in Calls : call[c].out = "tokens" =>
        needed[c] \subseteq Passes(call[c]) \cup Excused(cfg, call[c].kin)

(***************************************************************************)
(* "`REQUIRED`: All users must set up MFA. Login returns                   *)
(* `MFA_SETUP_REQUIRED` until they do" (guides/mfa/how-mfa-works.md, which *)
(* exempts social logins only): a login owes its own factors, whoever      *)
(* opened the session that createChallengeSession hands it.                *)
(***************************************************************************)
LoginsOweTheirOwnFactors ==
    \A c \in Calls : call[c].out = "tokens" => needed[c] \subseteq Passes(call[c])

(***************************************************************************)
(* A challenge session is completed once, except by answers that overlap   *)
(* between validating and saving: an answer whose session another one      *)
(* completed before it validated the session the second time gets neither  *)
(* tokens nor a further challenge for it.                                  *)
(***************************************************************************)
LateAnswersGetNothing ==
    \A c \in Calls : call[c].late /\ call[c].passed # "none"
                        => call[c].out \notin {"tokens", "challenge"} /\ call[c].pc # "decide"

(***************************************************************************)
(* As long as no two requests looked for an open session of the same       *)
(* challenge at once, there is at most one such session, and with it one   *)
(* budget of attempts: a login never leaves an older session open beside   *)
(* the one it hands out (createChallengeSession).                          *)
(***************************************************************************)
OneOpenSessionUnlessRaced ==
    ~raced => \A name \in Challenges : Cardinality(OpenRows(name)) <= 1

(***************************************************************************)
(* No wrong MFA answer escapes the count: those tested against an open     *)
(* session are its attempts and those about to be counted, so that with n  *)
(* requests at once at most n - 1 are tested beyond the limit.             *)
(***************************************************************************)
Counting(i) == {c \in Calls : call[c].pc = "count" /\ call[c].row = i}

GuessesAreCounted ==
    \A i \in Ids : rows[i].st = "open" =>
        /\ rows[i].guesses = rows[i].attempts + Cardinality(Counting(i))
        /\ rows[i].guesses <= MaxAttempts + Cardinality(Calls) - 1

(***************************************************************************)
(* A backup code is accepted once, unless some request wrote the list of   *)
(* codes back as it was before another had changed it.                     *)
(***************************************************************************)
BackupCodesAreSingleUse ==
    ~rolledBack => \A k \in Codes : spent[k] <= 1
=============================================================================
