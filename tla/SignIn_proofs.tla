---------------------------- MODULE SignIn_proofs ----------------------------
(***************************************************************************)
(* Theorems about SignIn, for every value of its constants.                *)
(***************************************************************************)
EXTENDS SignIn, FiniteSetTheorems, TLAPS

(* Type correctness. *)

\* Where a request works on a challenge session.
OnRow == {"readUser", "saveUser", "useCode", "setPhone", "count", "consume", "complete",
          "replace"}

Savers == {"FORCE_CHANGE_PASSWORD", "MFA_REQUIRED", "MFA_SETUP_REQUIRED"}

\* What a request knows where it is: a session that has been created, a challenge that
\* saves the user, a backup code only for MFA, and an outcome only at its end.
Fits(k, R) ==
    /\ k.pc \in OnRow => k.row \in Ids /\ R[k.row].st # "unused"
    /\ k.pc \in {"readUser", "saveUser"} => k.name \in Savers
    /\ k.pc \in {"readUser", "saveUser"} /\ k.answer \in Codes => k.name = "MFA_REQUIRED"
    /\ k.out # "none" => k.pc = "done"

TypeInv == TypeOK /\ \A c \in Calls : Fits(call[c], rows)

\* Rows once created stay created.
Keeps == \A i \in Ids : rows[i].st # "unused" => rows'[i].st # "unused"

\* A request moved to a local state that fits.
LEMMA Moved ==
    ASSUME TypeInv, rows' \in [Ids -> Row], Keeps,
           NEW c \in Calls, NEW q \in Call, Fits(q, rows'), call' = [call EXCEPT ![c] = q]
    PROVE  call' \in [Calls -> Call] /\ \A d \in Calls : Fits(call'[d], rows')
  <1>1. call' \in [Calls -> Call]
    BY DEF TypeInv, TypeOK
  <1>2. ASSUME NEW d \in Calls PROVE Fits(call'[d], rows')
    <2>1. CASE d = c
      BY <2>1 DEF TypeInv, TypeOK
    <2>2. CASE d # c
      <3>1. call'[d] = call[d] /\ Fits(call[d], rows)
        BY <2>2 DEF TypeInv, TypeOK
      <3> QED BY <3>1 DEF Fits, Keeps
    <2> QED BY <2>1, <2>2
  <1> QED BY <1>1, <1>2

LEMMA IdleType == Idle \in Call
  BY DEF Idle, Call, Password, Origins, NoUser, User

LEMMA EndedType ==
    ASSUME NEW k \in Call, NEW out \in {"tokens", "challenge", "rejected"}, NEW R
    PROVE  /\ Ended(k, out) \in Call
           /\ Fits(Ended(k, out), R)
           /\ Ended(k, out).out = out /\ Ended(k, out).pc = "done"
           /\ out # "rejected" => Ended(k, out).passed = k.passed /\ Ended(k, out).late = k.late
           /\ out = "tokens" => Ended(k, out).kin = k.kin
           /\ out = "rejected" => ~Ended(k, out).late
  <1> DEFINE q == Ended(k, out)
  <1>1. CASE out = "rejected"
    <2>1. q = [Idle EXCEPT !.pc = "done", !.out = out]
      BY <1>1 DEF Ended
    <2>2. q \in Call
      BY <1>1, <2>1, IdleType DEF Call
    <2>3. q.pc = "done" /\ q.out = out /\ ~q.late
      BY <1>1, <2>1 DEF Idle
    <2> QED BY <1>1, <2>2, <2>3 DEF Fits, OnRow
  <1>2. CASE out # "rejected"
    <2> DEFINE kin == IF out = "tokens" THEN k.kin ELSE {}
    <2>1. q = [Idle EXCEPT !.pc = "done", !.out = out, !.passed = k.passed, !.late = k.late,
                           !.kin = kin]
      BY <1>2 DEF Ended
    <2>2. /\ k.passed \in Challenges \cup {"none"} /\ k.late \in BOOLEAN
          /\ kin \in SUBSET Origins /\ (out = "tokens" => kin = k.kin)
      BY DEF Call
    <2> HIDE DEF kin
    <2>2a. q \in Call
      <3>1. PICK p : p = [Idle EXCEPT !.pc = "done", !.out = out]
        OBVIOUS
      <3>2. p \in Call
        <4>1. PICK r : r = [Idle EXCEPT !.pc = "done"]
          OBVIOUS
        <4>2. r \in Call
          BY <4>1, IdleType DEF Call
        <4>3. p = [r EXCEPT !.out = out]
          BY <3>1, <4>1 DEF Idle
        <4> QED BY <4>2, <4>3 DEF Call
      <3>3. q = [p EXCEPT !.passed = k.passed, !.late = k.late, !.kin = kin]
        BY <2>1, <3>1 DEF Idle
      <3> HIDE DEF q
      <3> QED BY <2>2, <3>2, <3>3 DEF Call
    <2>3. q.pc = "done" /\ q.out = out /\ q.passed = k.passed /\ q.late = k.late /\ q.kin = kin
      BY <1>2, <2>1 DEF Idle
    <2> QED BY <1>2, <2>2, <2>2a, <2>3 DEF Fits, OnRow
  <1> QED BY <1>1, <1>2

\* What a request has owed is a set of challenges.
LEMMA RememberType ==
    ASSUME TypeOK, call' \in [Calls -> Call], Remember
    PROVE  needed' \in [Calls -> SUBSET (Challenges \cup {"BLOCKED"})]
  <1>1. \A u, blk, k : OwedBy(cfg, u, blk, k) \subseteq Challenges \cup {"BLOCKED"}
    BY DEF OwedBy, Owed
  <1>2. ASSUME NEW c \in Calls
        PROVE  needed'[c] \in SUBSET (Challenges \cup {"BLOCKED"})
    <2>1. call'[c].out \in {"none", "tokens", "challenge", "rejected"}
      BY DEF Call
    <2>2. needed[c] \in SUBSET (Challenges \cup {"BLOCKED"})
      BY DEF TypeOK
    <2> QED BY <1>1, <2>1, <2>2 DEF Remember
  <1> QED BY <1>2 DEF Remember

\* What a step leaves behind, as far as types go.
WellTyped ==
    /\ cfg' = cfg
    /\ user' \in User
    /\ blocked' \in BOOLEAN
    /\ rows' \in [Ids -> Row]
    /\ call' \in [Calls -> Call]
    /\ starts' \in Nat
    /\ events' \in Nat
    /\ raced' \in BOOLEAN
    /\ rolledBack' \in BOOLEAN
    /\ spent' \in [Codes -> Nat]
    /\ \A c \in Calls : Fits(call'[c], rows')

\* A session that is changed in place stays created.
LEMMA RowChanged ==
    ASSUME TypeOK, NEW i \in Ids, NEW r \in Row, r.st # "unused",
           rows' = [rows EXCEPT ![i] = r]
    PROVE  rows' \in [Ids -> Row] /\ Keeps
  BY DEF TypeOK, Keeps

LEMMA StartType ==
    ASSUME TypeInv, NEW c \in Calls, Login(c) \/ PasswordExpired(c) \/ Decide(c)
    PROVE  WellTyped
  <1> USE DEF TypeInv, TypeOK, WellTyped
  <1>1. CASE Login(c)
    <2>1. PICK o \in LoginOrigins, trusted \in BOOLEAN :
            call' = [call EXCEPT ![c] =
             [Idle EXCEPT !.pc = IF user.aged /\ o = Password THEN "verify" ELSE "decide",
                          !.origin = o, !.own = o, !.kin = {o}, !.trusted = trusted,
                          !.snap = user]]
      BY <1>1 DEF Login
    <2> DEFINE q == [Idle EXCEPT !.pc = IF user.aged /\ o = Password THEN "verify" ELSE "decide",
                          !.origin = o, !.own = o, !.kin = {o}, !.trusted = trusted,
                          !.snap = user]
    <2>2. q \in Call
      <3>1. o \in Origins /\ {o} \in SUBSET Origins
        BY SignInAssumption
      <3> DEFINE pc == IF user.aged /\ o = Password THEN "verify" ELSE "decide"
      <3>2. pc \in {"verify", "decide"} /\ user \in User /\ NoUser \in User
        BY DEF NoUser, User
      <3>3. q = [Idle EXCEPT !.pc = pc, !.origin = o, !.own = o, !.kin = {o}, !.trusted = trusted,
                             !.snap = user]
        OBVIOUS
      <3> HIDE DEF pc, TypeInv, q
      <3> QED BY <3>1, <3>2, <3>3 DEF Call, Idle
    <2>2a. Fits(q, rows)
      BY DEF Idle, Fits, OnRow
    <2>3. rows' = rows /\ Keeps
      BY <1>1 DEF Login, Keeps
    <2>4. call' \in [Calls -> Call] /\ \A d \in Calls : Fits(call'[d], rows')
      BY <2>1, <2>2, <2>2a, <2>3, Moved
    <2>5. /\ UNCHANGED << cfg, user, blocked, rows, events, raced, rolledBack, spent >>
          /\ starts' = starts + 1
      BY <1>1 DEF Login
    <2> QED BY <2>4, <2>5
  <1>2. CASE PasswordExpired(c)
    <2> DEFINE q == [call[c] EXCEPT !.snap.mustChange = TRUE, !.pc = "decide"]
    <2>1. call[c] \in Call
      OBVIOUS
    <2>2. q \in Call
      <3>1. [call[c].snap EXCEPT !.mustChange = TRUE] \in User
        BY <2>1 DEF Call, User
      <3> QED BY <2>1, <3>1 DEF Call
    <2>2a. Fits(q, rows)
      BY <1>2, <2>1 DEF PasswordExpired, Call, Fits, OnRow
    <2>3. rows' = rows /\ Keeps /\ call' = [call EXCEPT ![c] = q]
      BY <1>2 DEF PasswordExpired, Keeps
    <2>4. call' \in [Calls -> Call] /\ \A d \in Calls : Fits(call'[d], rows')
      BY <2>2, <2>2a, <2>3, Moved
    <2>5. user' \in User
      BY <1>2 DEF PasswordExpired, User
    <2> QED BY <1>2, <2>4, <2>5 DEF PasswordExpired
  <1>3. CASE Decide(c)
    <2>1. PICK risk :
            LET x == Context(call[c], risk)
                state == EvaluateState(Judged(call[c]), cfg, x)
            IN  /\ blocked' = Blocked(Judged(call[c]), cfg, x)
                /\ call' = [call EXCEPT ![c] =
                      IF Outcome(state) = "challenge"
                      THEN [@ EXCEPT !.pc = "find", !.name = ChallengeOf(state),
                                     !.snap = Judged(call[c]), !.row = 0, !.answer = "none"]
                      ELSE Ended(@, Outcome(state))]
      BY <1>3 DEF Decide
    <2> DEFINE x == Context(call[c], risk)
               state == EvaluateState(Judged(call[c]), cfg, x)
               q == IF Outcome(state) = "challenge"
                    THEN [call[c] EXCEPT !.pc = "find", !.name = ChallengeOf(state),
                                     !.snap = Judged(call[c]), !.row = 0, !.answer = "none"]
                    ELSE Ended(call[c], Outcome(state))
    <2>2. call[c] \in Call /\ Judged(call[c]) \in User
      BY DEF Judged, Call
    <2>3. blocked' \in BOOLEAN
      BY <2>1 DEF Blocked, BlockedByRisk, Context
    <2>4. Outcome(state) \in {"tokens", "challenge", "rejected"}
      BY DEF Outcome
    <2>5. ChallengeOf(state) \in Challenges \cup {"none"}
      BY DEF ChallengeOf, Challenges
    <2>6. call[c].pc = "decide"
      BY <1>3 DEF Decide
    <2> HIDE DEF state
    <2>7. q \in Call /\ Fits(q, rows)
      <3>1. CASE Outcome(state) = "challenge"
        <4> DEFINE p == [call[c] EXCEPT !.pc = "find", !.name = ChallengeOf(state),
                                     !.snap = Judged(call[c]), !.row = 0, !.answer = "none"]
        <4>1. p \in Call
          BY <2>2, <2>5 DEF Call
        <4>2. Fits(p, rows)
          BY <2>2, <2>6, <4>1 DEF Fits, OnRow, Call
        <4> QED BY <3>1, <4>1, <4>2
      <3>2. CASE Outcome(state) # "challenge"
        BY <3>2, <2>2, <2>4, EndedType
      <3> QED BY <3>1, <3>2
    <2>8. rows' = rows /\ Keeps /\ call' = [call EXCEPT ![c] = q]
      BY <1>3, <2>1 DEF Decide, Keeps, state
    <2>9. call' \in [Calls -> Call] /\ \A d \in Calls : Fits(call'[d], rows')
      BY <2>7, <2>8, Moved
    <2> QED BY <1>3, <2>3, <2>9 DEF Decide
  <1> QED BY <1>1, <1>2, <1>3

\* A request that goes on elsewhere, on the session it already has if any.
LEMMA WentOn ==
    ASSUME TypeInv, rows' \in [Ids -> Row], Keeps, NEW c \in Calls,
           NEW pc \in {"tidy", "insert", "consume", "find", "count"}, GoTo(c, pc),
           pc \in {"consume", "count"} => call[c].pc \in OnRow,
           call[c].pc # "done"
    PROVE  call' \in [Calls -> Call] /\ \A d \in Calls : Fits(call'[d], rows')
  <1> DEFINE q == [call[c] EXCEPT !.pc = pc]
  <1>1. call[c] \in Call /\ Fits(call[c], rows)
    BY DEF TypeInv, TypeOK
  <1>2. q \in Call
    BY <1>1 DEF Call
  <1>3. q.pc = pc /\ q.row = call[c].row /\ q.out = call[c].out
    BY <1>1 DEF Call
  <1>4. Fits(q, rows')
    BY <1>1, <1>3 DEF Fits, OnRow, Keeps
  <1>5. call' = [call EXCEPT ![c] = q]
    BY DEF GoTo
  <1> QED BY <1>2, <1>4, <1>5, Moved

\* A request that ends.
LEMMA WentOut ==
    ASSUME TypeInv, rows' \in [Ids -> Row], Keeps, NEW c \in Calls,
           NEW out \in {"tokens", "challenge", "rejected"},
           call' = [call EXCEPT ![c] = Ended(@, out)]
    PROVE  call' \in [Calls -> Call] /\ \A d \in Calls : Fits(call'[d], rows')
  <1>1. call[c] \in Call
    BY DEF TypeInv, TypeOK
  <1>2. Ended(call[c], out) \in Call /\ Fits(Ended(call[c], out), rows')
    BY <1>1, EndedType
  <1>3. call' = [call EXCEPT ![c] = Ended(call[c], out)]
    OBVIOUS
  <1> QED BY <1>2, <1>3, Moved

\* A request that is handed a session.
LEMMA WasHanded ==
    ASSUME TypeInv, rows' \in [Ids -> Row], Keeps, NEW c \in Calls, NEW i \in Ids,
           Hand(c, i), call[c].pc # "done"
    PROVE  call' \in [Calls -> Call] /\ \A d \in Calls : Fits(call'[d], rows')
  <1>1. call[c] \in Call /\ Fits(call[c], rows)
    BY DEF TypeInv, TypeOK
  <1>2. CASE Sends(call[c])
    <2> DEFINE q == [call[c] EXCEPT !.pc = "send", !.row = i]
    <2>1. q \in Call
      BY <1>1 DEF Call
    <2>2. q.pc = "send" /\ q.out = call[c].out
      BY <1>1 DEF Call
    <2>3. Fits(q, rows')
      BY <1>1, <2>2 DEF Fits, OnRow
    <2>4. call' = [call EXCEPT ![c] = q]
      BY <1>2 DEF Hand
    <2> QED BY <2>1, <2>3, <2>4, Moved
  <1>3. CASE ~Sends(call[c])
    <2>1. call' = [call EXCEPT ![c] = Ended(@, "challenge")]
      BY <1>3 DEF Hand
    <2> QED BY <2>1, WentOut
  <1> QED BY <1>2, <1>3

LEMMA CreateType ==
    ASSUME TypeInv, NEW c \in Calls,
           FindOpen(c) \/ Replace(c) \/ Tidy(c) \/ Insert(c) \/ Send(c)
    PROVE  WellTyped
  <1>1. call[c] \in Call /\ Fits(call[c], rows)
    BY DEF TypeInv, TypeOK
  <1>2. CASE FindOpen(c)
    <2> DEFINE open == OpenRows(call[c].name)
    <2>1. /\ call[c].pc = "find"
          /\ UNCHANGED << cfg, user, blocked, starts, events, rolledBack, spent >>
          /\ raced' \in BOOLEAN
      BY <1>2 DEF FindOpen
    <2>2. CASE GoTo(c, "tidy") /\ UNCHANGED rows
      <3>1. Keeps /\ rows' \in [Ids -> Row]
        BY <2>2 DEF Keeps, TypeInv, TypeOK
      <3>2. call' \in [Calls -> Call] /\ \A d \in Calls : Fits(call'[d], rows')
        BY <2>1, <2>2, <3>1, WentOn
      <3> QED BY <2>1, <3>1, <3>2 DEF WellTyped, TypeInv, TypeOK
    <2>3. ASSUME NEW i \in Newest(open), Hand(c, i),
                 rows' = [rows EXCEPT ![i].owners = @ \cup {call[c].own}, ![i].kin = @ \cup call[c].kin]
          PROVE  WellTyped
      <3>1. i \in Ids /\ rows[i] \in Row /\ rows[i].st = "open"
        BY DEF Newest, OpenRows, TypeInv, TypeOK
      <3>2. [rows[i] EXCEPT !.owners = @ \cup {call[c].own}, !.kin = @ \cup call[c].kin] \in Row
        BY <1>1, <3>1 DEF Row, Call
      <3>3. [rows[i] EXCEPT !.owners = @ \cup {call[c].own}, !.kin = @ \cup call[c].kin].st # "unused"
        BY <3>1 DEF Row
      <3>4. rows' = [rows EXCEPT ![i] = [rows[i] EXCEPT !.owners = @ \cup {call[c].own}, !.kin = @ \cup call[c].kin]]
        BY <2>3
      <3>5. Keeps /\ rows' \in [Ids -> Row]
        BY <3>1, <3>2, <3>3, <3>4, RowChanged DEF TypeInv
      <3>6. call' \in [Calls -> Call] /\ \A d \in Calls : Fits(call'[d], rows')
        BY <2>1, <2>3, <3>1, <3>5, WasHanded
      <3> QED BY <2>1, <3>5, <3>6 DEF WellTyped, TypeInv, TypeOK
    <2>4. ASSUME NEW i \in Newest(open), UNCHANGED rows,
                 call' = [call EXCEPT ![c].pc = "replace", ![c].row = i]
          PROVE  WellTyped
      <3> DEFINE q == [call[c] EXCEPT !.pc = "replace", !.row = i]
      <3>1. i \in Ids /\ rows[i].st = "open"
        BY DEF Newest, OpenRows
      <3>2. q \in Call
        BY <1>1, <3>1 DEF Call
      <3>3. q.pc = "replace" /\ q.row = i /\ q.out = call[c].out
        BY <1>1 DEF Call
      <3>4. Fits(q, rows')
        BY <1>1, <2>1, <2>4, <3>1, <3>3 DEF Fits, OnRow
      <3>5. Keeps /\ rows' \in [Ids -> Row]
        BY <2>4 DEF Keeps, TypeInv, TypeOK
      <3>6. call' = [call EXCEPT ![c] = q]
        BY <2>4
      <3>7. call' \in [Calls -> Call] /\ \A d \in Calls : Fits(call'[d], rows')
        BY <3>2, <3>4, <3>5, <3>6, Moved
      <3> QED BY <2>1, <3>5, <3>7 DEF WellTyped, TypeInv, TypeOK
    <2> QED BY <1>2, <2>2, <2>3, <2>4 DEF FindOpen
  <1>3. CASE Replace(c)
    <2> DEFINE i == call[c].row
    <2>1. i \in Ids /\ rows[i] \in Row /\ rows[i].st # "unused"
      BY <1>1, <1>3 DEF Replace, Fits, OnRow, TypeInv, TypeOK
    <2>2. [rows[i] EXCEPT !.st = "deleted"] \in Row
      BY <2>1 DEF Row
    <2>3. [rows[i] EXCEPT !.st = "deleted"].st # "unused"
      BY <2>1 DEF Row
    <2>4. rows' = [rows EXCEPT ![i] = [rows[i] EXCEPT !.st = "deleted"]]
      BY <1>3 DEF Replace
    <2>5. Keeps /\ rows' \in [Ids -> Row]
      BY <2>1, <2>2, <2>3, <2>4, RowChanged DEF TypeInv
    <2>6. call' \in [Calls -> Call] /\ \A d \in Calls : Fits(call'[d], rows')
      BY <1>3, <2>5, WentOn DEF Replace
    <2> QED BY <1>3, <2>5, <2>6 DEF Replace, WellTyped, TypeInv, TypeOK
  <1>4. CASE Tidy(c)
    <2>1. \A i \in Ids : rows[i] \in Row
      BY DEF TypeInv, TypeOK
    <2>2. ASSUME NEW i \in Ids
          PROVE  /\ Tidied(rows[i]) \in Row
                 /\ rows[i].st # "unused" => Tidied(rows[i]).st # "unused"
      BY <2>1 DEF Tidied, Row
    <2>3. Keeps /\ rows' \in [Ids -> Row]
      BY <1>4, <2>1, <2>2 DEF Tidy, Keeps, TypeInv, TypeOK
    <2>4. call' \in [Calls -> Call] /\ \A d \in Calls : Fits(call'[d], rows')
      BY <1>4, <2>3, WentOn DEF Tidy
    <2> QED BY <1>4, <2>3, <2>4 DEF Tidy, WellTyped, TypeInv, TypeOK
  <1>5. CASE Insert(c)
    <2>1. PICK i \in Ids :
            /\ rows' = [rows EXCEPT ![i] = [NoRow EXCEPT !.st = "open", !.name = call[c].name,
                                        !.origin = Kept(call[c].name, call[c].origin),
                                        !.owners = {call[c].own}, !.kin = call[c].kin]]
            /\ Hand(c, i)
      BY <1>5 DEF Insert
    <2> DEFINE r == [NoRow EXCEPT !.st = "open", !.name = call[c].name,
                                        !.origin = Kept(call[c].name, call[c].origin),
                                        !.owners = {call[c].own}, !.kin = call[c].kin]
    <2>2. Kept(call[c].name, call[c].origin) \in Origins
      BY <1>1 DEF Kept, Call, Origins, Password
    <2>3. r \in Row /\ r.st # "unused"
      BY <1>1, <2>2 DEF NoRow, Row, Call
    <2>4. Keeps /\ rows' \in [Ids -> Row]
      BY <2>1, <2>3, RowChanged DEF TypeInv
    <2>5. call' \in [Calls -> Call] /\ \A d \in Calls : Fits(call'[d], rows')
      BY <1>5, <2>1, <2>4, WasHanded DEF Insert
    <2> QED BY <1>5, <2>4, <2>5 DEF Insert, WellTyped, TypeInv, TypeOK
  <1>6. CASE Send(c)
    <2>1. Keeps /\ rows' \in [Ids -> Row]
      BY <1>6 DEF Send, Keeps, TypeInv, TypeOK
    <2>2. call' \in [Calls -> Call] /\ \A d \in Calls : Fits(call'[d], rows')
      BY <1>6, <2>1, WentOut DEF Send
    <2> QED BY <1>6, <2>1, <2>2 DEF Send, WellTyped, TypeInv, TypeOK
  <1> QED BY <1>2, <1>3, <1>4, <1>5, <1>6

LEMMA StartedType ==
    ASSUME TypeInv, NEW i \in Ids, NEW trusted \in BOOLEAN, NEW own \in rows[i].owners,
           NEW a \in AnswersTo(rows[i].name)
    PROVE  /\ Started(i, own, a, trusted) \in Call
           /\ rows[i].st # "unused" => Fits(Started(i, own, a, trusted), rows)
           /\ Started(i, own, a, trusted).pc \in {"useCode", "setPhone", "readUser", "consume", "count"}
  <1>1. rows[i] \in Row /\ user \in User
    BY DEF TypeInv, TypeOK
  <1>2. a \in Answers
    BY DEF AnswersTo, Answers
  <1>3. Recalled(rows[i]) \in Origins
    BY <1>1 DEF Recalled, Row, Origins, Password
  <1>4. FirstStep(rows[i].name, a) \in {"useCode", "setPhone", "readUser", "consume", "count"}
    BY DEF FirstStep
  <1>5. Started(i, own, a, trusted) \in Call
    <2>2. /\ own \in Origins /\ rows[i].kin \in SUBSET Origins /\ NoUser \in User
          /\ rows[i].name \in Challenges \cup {"none"}
          /\ (rows[i].st \in {"done", "deleted"}) \in BOOLEAN
      BY <1>1 DEF Row, NoUser, User
    <2> QED BY <1>1, <1>2, <1>3, <1>4, <2>2 DEF Started, Call
  <1>6. /\ Started(i, own, a, trusted).pc = FirstStep(rows[i].name, a)
        /\ Started(i, own, a, trusted).row = i /\ Started(i, own, a, trusted).name = rows[i].name
        /\ Started(i, own, a, trusted).answer = a /\ Started(i, own, a, trusted).out = "none"
    BY DEF Started
  <1>7. FirstStep(rows[i].name, a) = "readUser"
          => rows[i].name \in Savers /\ (a \in Codes => rows[i].name = "MFA_REQUIRED")
    BY SignInAssumption DEF FirstStep, Savers, AnswersTo
  <1> QED BY <1>4, <1>5, <1>6, <1>7 DEF Fits, OnRow

LEMMA AnswerType ==
    ASSUME TypeInv, NEW c \in Calls, Respond(c) \/ UseCode(c) \/ SetPhone(c)
    PROVE  WellTyped
  <1>1. call[c] \in Call /\ Fits(call[c], rows)
    BY DEF TypeInv, TypeOK
  <1>2. CASE Respond(c)
    <2>0. PICK i \in Ids, trusted \in BOOLEAN :
             \E own \in rows[i].owners, a \in AnswersTo(rows[i].name) :
                RespondWith(c, i, own, a, trusted)
      BY <1>2 DEF Respond
    <2>1. PICK own \in rows[i].owners, a \in AnswersTo(rows[i].name) :
             RespondWith(c, i, own, a, trusted)
      BY <2>0
    <2> DEFINE k == Started(i, own, a, trusted)
    <2>k. /\ k.row = i /\ k \in Call /\ (rows[i].st # "unused" => Fits(k, rows))
          /\ call' = [call EXCEPT ![c] = IF Admitted(k) THEN k ELSE Ended(k, "rejected")]
          /\ rows' = IF Admitted(k) /\ k.pc = "count"
                   THEN [rows EXCEPT ![i].guesses = @ + 1] ELSE rows
      BY <2>1, StartedType DEF Started, RespondWith
    <2> HIDE DEF k
    <2>2. rows[i] \in Row
      BY DEF TypeInv, TypeOK
    <2>3. Keeps /\ rows' \in [Ids -> Row]
      <3>1. CASE Admitted(k) /\ k.pc = "count"
        <4> DEFINE r == [rows[i] EXCEPT !.guesses = @ + 1]
        <4>1. r \in Row /\ r.st = rows[i].st
          BY <2>2 DEF Row
        <4>2. rows[i].st # "unused" /\ rows' = [rows EXCEPT ![i] = r]
          BY <2>k, <3>1 DEF Admitted, Admissible
        <4> QED BY <4>1, <4>2, RowChanged DEF TypeInv
      <3>2. CASE ~(Admitted(k) /\ k.pc = "count")
        BY <2>k, <3>2 DEF Keeps, TypeInv, TypeOK
      <3> QED BY <3>1, <3>2
    <2>4. call' \in [Calls -> Call] /\ \A d \in Calls : Fits(call'[d], rows')
      <3>1. CASE Admitted(k)
        <4>1. Fits(k, rows')
          <5>1. Fits(k, rows)
            BY <2>k, <3>1 DEF Admitted, Admissible
          <5> QED BY <2>3, <5>1 DEF Fits, Keeps
        <4>2. call' = [call EXCEPT ![c] = k]
          BY <2>k, <3>1
        <4> QED BY <2>k, <2>3, <4>1, <4>2, Moved
      <3>2. CASE ~Admitted(k)
        <4>1. Ended(k, "rejected") \in Call /\ Fits(Ended(k, "rejected"), rows')
          BY <2>k, EndedType
        <4>2. call' = [call EXCEPT ![c] = Ended(k, "rejected")]
          BY <2>k, <3>2
        <4> QED BY <2>3, <4>1, <4>2, Moved
      <3> QED BY <3>1, <3>2
    <2>5. /\ UNCHANGED << cfg, user, blocked, events, raced, rolledBack, spent >>
          /\ starts' = starts + 1
      BY <1>2 DEF Respond
    <2> QED BY <2>3, <2>4, <2>5 DEF WellTyped, TypeInv, TypeOK
  <1>3. CASE UseCode(c)
    <2>1. /\ call[c].pc = "useCode"
          /\ UNCHANGED << cfg, blocked, rows, starts, events, raced, rolledBack, spent >>
          /\ Keeps /\ rows' \in [Ids -> Row]
      BY <1>3 DEF UseCode, Keeps, TypeInv, TypeOK
    <2>2. CASE Reject(c) /\ UNCHANGED user
      <3>1. call' \in [Calls -> Call] /\ \A d \in Calls : Fits(call'[d], rows')
        BY <2>1, <2>2, WentOut DEF Reject
      <3> QED BY <2>1, <2>2, <3>1 DEF WellTyped, TypeInv, TypeOK
    <2>3. CASE /\ user' = IF call[c].name = "VERIFY_EMAIL" THEN [user EXCEPT !.email = TRUE]
                                                   ELSE [user EXCEPT !.phone = "verified"]
               /\ call' = [call EXCEPT ![c].pc = "consume", ![c].passed = call[c].name]
      <3>1. user' \in User
        <4>1. user \in User
          BY DEF TypeInv, TypeOK
        <4> QED BY <2>3, <4>1 DEF User
      <3> DEFINE q == [call[c] EXCEPT !.pc = "consume", !.passed = call[c].name]
      <3>2. q \in Call
        BY <1>1 DEF Call
      <3>3. q.pc = "consume" /\ q.row = call[c].row /\ q.out = call[c].out
        BY <1>1 DEF Call
      <3>4. Fits(q, rows')
        BY <1>1, <2>1, <3>3 DEF Fits, OnRow, Keeps
      <3>5. call' = [call EXCEPT ![c] = q]
        BY <2>3
      <3>6. call' \in [Calls -> Call] /\ \A d \in Calls : Fits(call'[d], rows')
        BY <2>1, <3>2, <3>4, <3>5, Moved
      <3> QED BY <2>1, <3>1, <3>6 DEF WellTyped, TypeInv, TypeOK
    <2> QED BY <1>3, <2>2, <2>3 DEF UseCode
  <1>4. CASE SetPhone(c)
    <2>1. /\ call[c].pc = "setPhone"
          /\ UNCHANGED << cfg, blocked, rows, starts, events, raced, rolledBack, spent >>
          /\ Keeps /\ rows' \in [Ids -> Row]
      BY <1>4 DEF SetPhone, Keeps, TypeInv, TypeOK
    <2>2. CASE Reject(c) /\ UNCHANGED user
      <3>1. call' \in [Calls -> Call] /\ \A d \in Calls : Fits(call'[d], rows')
        BY <2>1, <2>2, WentOut DEF Reject
      <3> QED BY <2>1, <2>2, <3>1 DEF WellTyped, TypeInv, TypeOK
    <2>3. CASE /\ user' \in {[user EXCEPT !.phone = "unverified"]}
                      \cup (IF user.phone = "none" THEN {} ELSE {user})
               /\ GoTo(c, "find")
      <3>1. user' \in User
        <4>1. user \in User
          BY DEF TypeInv, TypeOK
        <4> QED BY <2>3, <4>1 DEF User
      <3>2. call' \in [Calls -> Call] /\ \A d \in Calls : Fits(call'[d], rows')
        BY <2>1, <2>3, WentOn
      <3> QED BY <2>1, <3>1, <3>2 DEF WellTyped, TypeInv, TypeOK
    <2> QED BY <1>4, <2>2, <2>3 DEF SetPhone
  <1> QED BY <1>2, <1>3, <1>4

LEMMA SaveType ==
    ASSUME TypeInv, NEW c \in Calls, ReadUser(c) \/ SaveUser(c)
    PROVE  WellTyped
  <1>1. call[c] \in Call /\ Fits(call[c], rows) /\ user \in User
    BY DEF TypeInv, TypeOK
  <1>2. CASE ReadUser(c)
    <2> DEFINE i == call[c].row
    <2>1. /\ call[c].pc = "readUser"
          /\ UNCHANGED << cfg, user, blocked, starts, events, raced, rolledBack, spent >>
      BY <1>2 DEF ReadUser
    <2>2. i \in Ids /\ rows[i] \in Row /\ rows[i].st # "unused"
      BY <1>1, <2>1 DEF Fits, OnRow, TypeInv, TypeOK
    <2>3. CASE Reject(c) /\ UNCHANGED rows
      <3>1. Keeps /\ rows' \in [Ids -> Row]
        BY <2>3 DEF Keeps, TypeInv, TypeOK
      <3>2. call' \in [Calls -> Call] /\ \A d \in Calls : Fits(call'[d], rows')
        BY <2>3, <3>1, WentOut DEF Reject
      <3> QED BY <2>1, <3>1, <3>2 DEF WellTyped, TypeInv, TypeOK
    <2>4. CASE GoTo(c, "count") /\ rows' = [rows EXCEPT ![i].guesses = @ + 1]
      <3> DEFINE r == [rows[i] EXCEPT !.guesses = @ + 1]
      <3>1. r \in Row /\ r.st # "unused" /\ rows' = [rows EXCEPT ![i] = r]
        BY <2>2, <2>4 DEF Row
      <3>2. Keeps /\ rows' \in [Ids -> Row]
        BY <2>2, <3>1, RowChanged DEF TypeInv
      <3>3. call' \in [Calls -> Call] /\ \A d \in Calls : Fits(call'[d], rows')
        BY <2>1, <2>4, <3>2, WentOn DEF OnRow
      <3> QED BY <2>1, <3>2, <3>3 DEF WellTyped, TypeInv, TypeOK
    <2>5. CASE /\ call' = [call EXCEPT ![c].read = user, ![c].pc = "saveUser"]
               /\ UNCHANGED rows
      <3> DEFINE q == [call[c] EXCEPT !.read = user, !.pc = "saveUser"]
      <3>1. q \in Call
        BY <1>1 DEF Call
      <3>2. /\ q.pc = "saveUser" /\ q.row = i /\ q.out = call[c].out
            /\ q.name = call[c].name /\ q.answer = call[c].answer
        BY <1>1 DEF Call
      <3>3. Fits(q, rows')
        BY <1>1, <2>1, <2>5, <3>2 DEF Fits, OnRow
      <3>4. Keeps /\ rows' \in [Ids -> Row]
        BY <2>5 DEF Keeps, TypeInv, TypeOK
      <3>5. call' = [call EXCEPT ![c] = q]
        BY <2>5
      <3>6. call' \in [Calls -> Call] /\ \A d \in Calls : Fits(call'[d], rows')
        BY <3>1, <3>3, <3>4, <3>5, Moved
      <3> QED BY <2>1, <3>4, <3>6 DEF WellTyped, TypeInv, TypeOK
    <2> QED BY <1>2, <2>3, <2>4, <2>5 DEF ReadUser
  <1>3. CASE SaveUser(c)
    <2> DEFINE q == [call[c] EXCEPT !.pc = "consume", !.passed = call[c].name, !.read = NoUser]
    <2>1. /\ call[c].pc = "saveUser" /\ user' = Saved(call[c])
          /\ call' = [call EXCEPT ![c] = q]
          /\ rolledBack' \in BOOLEAN
          /\ spent' = IF call[c].answer \in Codes
                      THEN [spent EXCEPT ![call[c].answer] = @ + 1] ELSE spent
          /\ UNCHANGED << cfg, blocked, rows, starts, events, raced >>
      BY <1>3 DEF SaveUser
    <2>2. user' \in User
      <3>1. call[c].read \in User /\ call[c].name \in Savers
        BY <1>1, <2>1 DEF Call, Fits
      <3> QED BY <2>1, <3>1 DEF Saved, Savers, User
    <2>3. q \in Call
      <3>1. NoUser \in User
        BY DEF NoUser, User
      <3> QED BY <1>1, <3>1 DEF Call
    <2>4. q.pc = "consume" /\ q.row = call[c].row /\ q.out = call[c].out
      BY <1>1 DEF Call
    <2>5. Fits(q, rows')
      BY <1>1, <2>1, <2>4 DEF Fits, OnRow
    <2>6. Keeps /\ rows' \in [Ids -> Row]
      BY <2>1 DEF Keeps, TypeInv, TypeOK
    <2>7. call' \in [Calls -> Call] /\ \A d \in Calls : Fits(call'[d], rows')
      BY <2>1, <2>3, <2>5, <2>6, Moved
    <2>8. spent' \in [Codes -> Nat]
      BY <2>1 DEF TypeInv, TypeOK
    <2> QED BY <2>1, <2>2, <2>6, <2>7, <2>8 DEF WellTyped, TypeInv, TypeOK
  <1> QED BY <1>2, <1>3

LEMMA CompleteType ==
    ASSUME TypeInv, NEW c \in Calls, Count(c) \/ Consume(c) \/ Complete(c)
    PROVE  WellTyped
  <1> DEFINE i == call[c].row
  <1>1. call[c] \in Call /\ Fits(call[c], rows)
    BY DEF TypeInv, TypeOK
  <1>2. i \in Ids /\ rows[i] \in Row /\ rows[i].st # "unused"
    BY <1>1 DEF Count, Consume, Complete, Fits, OnRow, TypeInv, TypeOK
  <1>3. CASE Count(c)
    <2> DEFINE r == [rows[i] EXCEPT !.attempts = IF rows[i].st = "deleted" THEN @ ELSE @ + 1]
    <2>1. r \in Row /\ r.st # "unused"
      BY <1>2 DEF Row
    <2>2. rows' = [rows EXCEPT ![i] = r]
      BY <1>3 DEF Count
    <2>3. Keeps /\ rows' \in [Ids -> Row]
      BY <1>2, <2>1, <2>2, RowChanged DEF TypeInv
    <2>4. call' \in [Calls -> Call] /\ \A d \in Calls : Fits(call'[d], rows')
      BY <1>3, <2>3, WentOut DEF Count, Reject
    <2> QED BY <1>3, <2>3, <2>4 DEF Count, WellTyped, TypeInv, TypeOK
  <1>4. CASE Consume(c)
    <2>1. /\ call[c].pc = "consume"
          /\ UNCHANGED << cfg, user, blocked, rows, starts, events, raced, rolledBack, spent >>
          /\ Keeps /\ rows' \in [Ids -> Row]
      BY <1>4 DEF Consume, Keeps, TypeInv, TypeOK
    <2>2. CASE Reject(c)
      <3>1. call' \in [Calls -> Call] /\ \A d \in Calls : Fits(call'[d], rows')
        BY <2>1, <2>2, WentOut DEF Reject
      <3> QED BY <2>1, <3>1 DEF WellTyped, TypeInv, TypeOK
    <2>3. CASE call' = [call EXCEPT ![c].pc = "complete", ![c].attempts = rows[i].attempts]
      <3> DEFINE q == [call[c] EXCEPT !.pc = "complete", !.attempts = rows[i].attempts]
      <3>0. rows[i].attempts \in Nat
        BY <1>2 DEF Row
      <3>1. q \in Call
        BY <1>1, <3>0 DEF Call
      <3>2. q.pc = "complete" /\ q.row = i /\ q.out = call[c].out
        BY <1>1 DEF Call
      <3>3. Fits(q, rows')
        BY <1>1, <1>2, <2>1, <3>2 DEF Fits, OnRow
      <3>4. call' = [call EXCEPT ![c] = q]
        BY <2>3
      <3>5. call' \in [Calls -> Call] /\ \A d \in Calls : Fits(call'[d], rows')
        BY <2>1, <3>1, <3>3, <3>4, Moved
      <3> QED BY <2>1, <3>5 DEF WellTyped, TypeInv, TypeOK
    <2> QED BY <1>4, <2>2, <2>3 DEF Consume
  <1>5. CASE Complete(c)
    <2> DEFINE r == [rows[i] EXCEPT !.st = "done", !.attempts = call[c].attempts]
    <2>1. r \in Row /\ r.st # "unused"
      BY <1>1, <1>2 DEF Row, Call
    <2>2. rows' = [rows EXCEPT ![i] = r]
      BY <1>5 DEF Complete
    <2>3. Keeps /\ rows' \in [Ids -> Row]
      BY <1>2, <2>1, <2>2, RowChanged DEF TypeInv
    <2>4. ASSUME NEW d \in Calls
          PROVE  call'[d] \in Call /\ Fits(call'[d], rows')
      <3>1. call[d] \in Call /\ Fits(call[d], rows)
        BY DEF TypeInv, TypeOK
      <3>2. CASE call'[d] = [call[c] EXCEPT !.pc = "decide"] /\ d = c
        <4> DEFINE q == [call[c] EXCEPT !.pc = "decide"]
        <4>1. q \in Call
          BY <1>1 DEF Call
        <4>2. q.pc = "decide" /\ q.out = call[c].out
          BY <1>1 DEF Call
        <4> HIDE DEF q
        <4>3. Fits(q, rows')
          BY <1>1, <1>5, <4>2 DEF Fits, OnRow, Complete
        <4> QED BY <3>2, <4>1, <4>3 DEF q
      <3>3. CASE call'[d] = [call[d] EXCEPT !.late = TRUE]
        <4> DEFINE q == [call[d] EXCEPT !.late = TRUE]
        <4>1. q \in Call
          BY <3>1 DEF Call
        <4>2. /\ q.pc = call[d].pc /\ q.out = call[d].out /\ q.row = call[d].row
              /\ q.name = call[d].name /\ q.answer = call[d].answer
          BY <3>1 DEF Call
        <4> HIDE DEF q
        <4>3. Fits(q, rows')
          BY <2>3, <3>1, <4>2 DEF Fits, Keeps
        <4> QED BY <3>3, <4>1, <4>3 DEF q
      <3>4. CASE call'[d] = call[d]
        BY <2>3, <3>1, <3>4 DEF Fits, Keeps
      <3> QED BY <1>5, <3>2, <3>3, <3>4 DEF Complete
    <2>5. call' \in [Calls -> Call]
      BY <1>5, <2>4 DEF Complete
    <2> QED BY <1>5, <2>3, <2>4, <2>5 DEF Complete, WellTyped, TypeInv, TypeOK
  <1> QED BY <1>3, <1>4, <1>5

LEMMA StepType ==
    ASSUME TypeInv, NEW c \in Calls, Step(c)
    PROVE  WellTyped
  BY StartType, CreateType, AnswerType, SaveType, CompleteType DEF Step

LEMMA BesideType ==
    ASSUME TypeInv, (\E i \in Ids : Expire(i)) \/ Others
    PROVE  WellTyped
  <1>1. CASE \E i \in Ids : Expire(i)
    <2>1. PICK i \in Ids : Expire(i)
      BY <1>1
    <2> DEFINE r == [rows[i] EXCEPT !.expired = TRUE]
    <2>2. r \in Row /\ r.st # "unused" /\ rows' = [rows EXCEPT ![i] = r]
      <3>1. rows[i] \in Row
        BY DEF TypeInv, TypeOK
      <3> QED BY <2>1, <3>1 DEF Expire, Row
    <2>3. Keeps /\ rows' \in [Ids -> Row]
      BY <2>2, RowChanged DEF TypeInv
    <2>4. \A c \in Calls : Fits(call[c], rows) => Fits(call[c], rows')
      BY <2>3 DEF Keeps, Fits
    <2>5. /\ UNCHANGED << cfg, user, blocked, call, starts, raced, rolledBack, spent >>
          /\ events' = events + 1
      BY <2>1 DEF Expire
    <2> QED BY <2>3, <2>4, <2>5 DEF WellTyped, TypeInv, TypeOK
  <1>2. CASE Others
    <2>1. user' \in User /\ blocked' \in BOOLEAN
      <3>1. user \in User /\ blocked \in BOOLEAN
        BY DEF TypeInv, TypeOK
      <3> QED BY <1>2, <3>1 DEF Others, User
    <2> QED BY <1>2, <2>1 DEF Others, WellTyped, TypeInv, TypeOK
  <1> QED BY <1>1, <1>2

LEMMA TypeStep ==
    TypeInv /\ [Next]_vars => TypeInv'
  <1> SUFFICES ASSUME TypeInv, [Next]_vars PROVE TypeInv'
    OBVIOUS
  <1>1. CASE Next
    <2>1. WellTyped
      BY <1>1, StepType, BesideType DEF Next
    <2>2. needed' \in [Calls -> SUBSET (Challenges \cup {"BLOCKED"})]
      BY <1>1, <2>1, RememberType DEF Next, WellTyped, TypeInv
    <2> QED BY <2>1, <2>2 DEF WellTyped, TypeInv, TypeOK
  <1>2. CASE UNCHANGED vars
    BY <1>2 DEF vars, hist, TypeInv, TypeOK
  <1> QED BY <1>1, <1>2

LEMMA TypeInvariant == Spec => []TypeInv
  <1>1. Init => TypeInv
    <2> SUFFICES ASSUME Init PROVE TypeInv
      OBVIOUS
    <2>1. cfg \in Config /\ user \in User
      BY SignInAssumption DEF Init
    <2>2. NoRow \in Row
      BY DEF NoRow, Row, Password, Origins
    <2>3. Fits(Idle, rows)
      BY DEF Fits, OnRow, Idle
    <2> QED BY <2>1, <2>2, <2>3, IdleType DEF Init, TypeInv, TypeOK
  <1> QED BY <1>1, TypeStep, PTL DEF Spec

(***************************************************************************)
(* Every variable keeps its type.                                          *)
(***************************************************************************)
THEOREM TypeCorrect == Spec => []TypeOK
  <1>1. TypeInv => TypeOK
    BY DEF TypeInv
  <1> QED BY <1>1, TypeInvariant, PTL

-----------------------------------------------------------------------------
(* How one step changes the requests and the sessions. *)

\* What Complete leaves of the other requests.
Alike(k, q) ==
    /\ q.pc = k.pc /\ q.origin = k.origin /\ q.own = k.own /\ q.kin = k.kin
    /\ q.trusted = k.trusted /\ q.row = k.row /\ q.name = k.name /\ q.answer = k.answer
    /\ q.snap = k.snap /\ q.read = k.read
    /\ q.attempts = k.attempts /\ q.passed = k.passed /\ q.out = k.out

\* A step of one request changes another only by completing its session.
LEMMA Elsewhere ==
    ASSUME TypeInv, NEW c \in Calls, Step(c), NEW d \in Calls, d # c
    PROVE  /\ Alike(call[d], call'[d])
           /\ \/ call'[d].late = call[d].late
              \/ /\ Complete(c)
                 /\ call[d].row = call[c].row
                 /\ BeforeConsuming(call[d])
  <1>1. call[d] \in Call /\ call \in [Calls -> Call]
    BY DEF TypeInv, TypeOK
  <1>2. CASE Complete(c)
    <2>1. CASE /\ call[d].row = call[c].row /\ BeforeConsuming(call[d])
               /\ call'[d] = [call[d] EXCEPT !.late = TRUE]
      BY <1>1, <1>2, <2>1 DEF Alike, Call
    <2>2. CASE call'[d] = call[d]
      BY <2>2 DEF Alike
    <2> QED BY <1>2, <2>1, <2>2 DEF Complete
  <1>3. CASE ~Complete(c)
    <2>1. call'[d] = call[d]
      <3>1. CASE Login(c) \/ PasswordExpired(c) \/ Decide(c)
        BY <1>1, <3>1 DEF Login, PasswordExpired, Decide
      <3>2. CASE FindOpen(c) \/ Replace(c) \/ Tidy(c) \/ Insert(c) \/ Send(c)
        BY <1>1, <3>2 DEF FindOpen, Replace, Tidy, Insert, Send, Hand, GoTo
      <3>3. CASE Respond(c) \/ UseCode(c) \/ SetPhone(c) \/ ReadUser(c) \/ SaveUser(c)
        BY <1>1, <3>3 DEF Respond, RespondWith, UseCode, SetPhone, ReadUser, SaveUser,
                          Reject, GoTo
      <3>4. CASE Count(c) \/ Consume(c)
        BY <1>1, <3>4 DEF Count, Consume, Reject
      <3> QED BY <1>3, <3>1, <3>2, <3>3, <3>4 DEF Step
    <2> QED BY <2>1 DEF Alike
  <1> QED BY <1>2, <1>3

\* The fields that a running request keeps for good, and those it mostly keeps.
Lasting(k, q) ==
    /\ q.origin = k.origin /\ q.own = k.own /\ q.kin = k.kin /\ q.trusted = k.trusted
    /\ q.out = k.out /\ q.late = k.late

GoesOn(k, q) ==
    Lasting(k, q) /\ q.name = k.name /\ q.answer = k.answer /\ q.snap = k.snap
    /\ q.passed = k.passed

Ends(k, q, outs) ==
    /\ q.pc = "done"
    /\ q.out \in outs
    /\ q.out # "rejected" => q.passed = k.passed /\ q.late = k.late
    /\ q.out = "tokens" => q.kin = k.kin
    /\ q.out = "rejected" => ~q.late

LEMMA EndsShape ==
    ASSUME TypeInv, NEW c \in Calls, NEW out \in {"tokens", "challenge", "rejected"},
           call' = [call EXCEPT ![c] = Ended(@, out)]
    PROVE  Ends(call[c], call'[c], {out})
  <1>1. call[c] \in Call /\ call'[c] = Ended(call[c], out)
    BY DEF TypeInv, TypeOK
  <1>2. PICK q : q = Ended(call[c], out)
    OBVIOUS
  <1>3. /\ q.out = out /\ q.pc = "done"
        /\ out # "rejected" => q.passed = call[c].passed /\ q.late = call[c].late
        /\ out = "tokens" => q.kin = call[c].kin
        /\ out = "rejected" => ~q.late
    BY <1>1, <1>2, EndedType
  <1> QED BY <1>1, <1>2, <1>3 DEF Ends

LEMMA HandShape ==
    ASSUME TypeInv, NEW c \in Calls, NEW i \in Ids, Hand(c, i)
    PROVE  \/ Ends(call[c], call'[c], {"challenge"})
           \/ GoesOn(call[c], call'[c]) /\ call'[c].pc = "send"
  <1>1. CASE Sends(call[c])
    <2>1. call[c] \in Call /\ call'[c] = [call[c] EXCEPT !.pc = "send", !.row = i]
      BY <1>1 DEF Hand, TypeInv, TypeOK
    <2> QED BY <2>1 DEF GoesOn, Lasting, Call
  <1>2. CASE ~Sends(call[c])
    BY <1>2, EndsShape DEF Hand
  <1> QED BY <1>1, <1>2

\* How a request begins, and the first half of what it does.
LEMMA LoginShape ==
    ASSUME TypeInv, NEW c \in Calls
    PROVE  LET k == call[c]
               q == call'[c]
           IN  /\ Login(c) =>
                    /\ k.pc \in {"idle", "done"} /\ q.pc \in {"verify", "decide"}
                    /\ q.origin \in LoginOrigins /\ q.own = q.origin /\ q.kin = {q.origin}
                    /\ q.snap = user /\ q.name = "none" /\ q.row = 0 /\ q.answer = "none"
                    /\ q.passed = "none" /\ q.out = "none" /\ ~q.late
               /\ PasswordExpired(c) =>
                    /\ k.pc = "verify" /\ q.pc = "decide" /\ q.row = k.row
                    /\ Lasting(k, q) /\ q.name = k.name /\ q.answer = k.answer
                    /\ q.passed = k.passed
                    /\ q.snap = [k.snap EXCEPT !.mustChange = TRUE]
               /\ Decide(c) =>
                    /\ k.pc = "decide"
                    /\ \/ Ends(k, q, {"tokens", "rejected"})
                       \/ /\ Lasting(k, q) /\ q.pc = "find" /\ q.row = 0
                          /\ q.answer = "none" /\ q.snap = Judged(k)
                          /\ q.passed = k.passed
  <1> DEFINE k == call[c]
             q == call'[c]
  <1>1. k \in Call
    BY DEF TypeInv, TypeOK
  <1>2. ASSUME Login(c)
        PROVE  /\ k.pc \in {"idle", "done"} /\ q.pc \in {"verify", "decide"}
               /\ q.origin \in LoginOrigins /\ q.own = q.origin /\ q.kin = {q.origin}
               /\ q.snap = user /\ q.name = "none" /\ q.row = 0 /\ q.answer = "none"
               /\ q.passed = "none" /\ q.out = "none" /\ ~q.late
    <2>1. PICK o \in LoginOrigins, trusted \in BOOLEAN :
            call' = [call EXCEPT ![c] =
             [Idle EXCEPT !.pc = IF user.aged /\ o = Password THEN "verify" ELSE "decide",
                          !.origin = o, !.own = o, !.kin = {o}, !.trusted = trusted,
                          !.snap = user]]
      BY <1>2 DEF Login
    <2>2. q = [Idle EXCEPT !.pc = IF user.aged /\ o = Password THEN "verify" ELSE "decide",
                          !.origin = o, !.own = o, !.kin = {o}, !.trusted = trusted,
                          !.snap = user]
      BY <2>1 DEF TypeInv, TypeOK
    <2>3. k.pc \in {"idle", "done"}
      BY <1>2 DEF Login, Free
    <2> QED BY <2>2, <2>3 DEF Idle
  <1>3. ASSUME PasswordExpired(c)
        PROVE  /\ k.pc = "verify" /\ q.pc = "decide" /\ q.row = k.row
               /\ Lasting(k, q) /\ q.name = k.name /\ q.answer = k.answer
               /\ q.passed = k.passed
               /\ q.snap = [k.snap EXCEPT !.mustChange = TRUE]
    <2>1. PICK s : s = [k.snap EXCEPT !.mustChange = TRUE]
      OBVIOUS
    <2>2. q = [k EXCEPT !.snap = s, !.pc = "decide"]
      BY <1>3, <2>1 DEF PasswordExpired, TypeInv, TypeOK
    <2>3. k.pc = "verify"
      BY <1>3 DEF PasswordExpired
    <2>4. /\ q.pc = "decide" /\ q.snap = s /\ q.row = k.row /\ q.name = k.name
          /\ q.answer = k.answer /\ q.passed = k.passed
      BY <1>1, <2>2 DEF Call
    <2>5. Lasting(k, q)
      BY <1>1, <2>2 DEF Call, Lasting
    <2> QED BY <2>1, <2>3, <2>4, <2>5
  <1>4. ASSUME Decide(c)
        PROVE  /\ k.pc = "decide"
               /\ \/ Ends(k, q, {"tokens", "rejected"})
                  \/ /\ Lasting(k, q) /\ q.pc = "find" /\ q.row = 0
                     /\ q.answer = "none" /\ q.snap = Judged(k)
                     /\ q.passed = k.passed
    <2>1. PICK state :
            call' = [call EXCEPT ![c] =
                      IF Outcome(state) = "challenge"
                      THEN [@ EXCEPT !.pc = "find", !.name = ChallengeOf(state),
                                     !.snap = Judged(call[c]), !.row = 0, !.answer = "none"]
                      ELSE Ended(@, Outcome(state))]
      BY <1>4 DEF Decide
    <2>2. Outcome(state) \in {"challenge", "tokens", "rejected"}
      BY DEF Outcome
    <2>3. CASE Outcome(state) = "challenge"
      <3>1. q = [k EXCEPT !.pc = "find", !.name = ChallengeOf(state),
                                     !.snap = Judged(call[c]), !.row = 0, !.answer = "none"]
        BY <2>1, <2>3 DEF TypeInv, TypeOK
      <3> QED BY <1>1, <1>4, <3>1 DEF Decide, Call, Lasting
    <2>4. CASE Outcome(state) # "challenge"
      <3>1. call' = [call EXCEPT ![c] = Ended(@, Outcome(state))]
        BY <2>1, <2>4
      <3>2. Ends(k, q, {Outcome(state)})
        BY <2>2, <3>1, EndsShape
      <3> QED BY <1>4, <2>2, <2>4, <3>2 DEF Decide, Ends
    <2> QED BY <2>3, <2>4
  <1> QED BY <1>2, <1>3, <1>4

LEMMA CreateShape ==
    ASSUME TypeInv, NEW c \in Calls
    PROVE  LET k == call[c]
               q == call'[c]
           IN  /\ FindOpen(c) =>
                    /\ k.pc = "find"
                    /\ \/ Ends(k, q, {"challenge"})
                       \/ GoesOn(k, q) /\ q.pc \in {"send", "tidy", "replace"}
               /\ Replace(c) => k.pc = "replace" /\ q.pc = "tidy" /\ GoesOn(k, q)
               /\ Tidy(c) => k.pc = "tidy" /\ q.pc = "insert" /\ GoesOn(k, q)
               /\ Insert(c) =>
                    /\ k.pc = "insert"
                    /\ \/ Ends(k, q, {"challenge"})
                       \/ GoesOn(k, q) /\ q.pc = "send"
               /\ Send(c) => k.pc = "send" /\ Ends(k, q, {"challenge", "rejected"})
  <1> DEFINE k == call[c]
             q == call'[c]
  <1>1. k \in Call /\ call \in [Calls -> Call]
    BY DEF TypeInv, TypeOK
  <1>2. ASSUME FindOpen(c)
        PROVE  /\ k.pc = "find"
               /\ \/ Ends(k, q, {"challenge"})
                  \/ GoesOn(k, q) /\ q.pc \in {"send", "tidy", "replace"}
    <2>1. k.pc = "find"
      BY <1>2 DEF FindOpen
    <2>2. CASE GoTo(c, "tidy")
      BY <1>1, <2>1, <2>2 DEF GoTo, GoesOn, Lasting, Call
    <2>3. ASSUME NEW i \in Newest(OpenRows(k.name)), Hand(c, i)
          PROVE  \/ Ends(k, q, {"challenge"})
                 \/ GoesOn(k, q) /\ q.pc \in {"send", "tidy", "replace"}
      <3>1. i \in Ids
        BY DEF Newest, OpenRows
      <3> QED BY <2>3, <3>1, HandShape
    <2>4. ASSUME NEW i, call' = [call EXCEPT ![c].pc = "replace", ![c].row = i]
          PROVE  GoesOn(k, q) /\ q.pc \in {"send", "tidy", "replace"}
      <3>1. q = [k EXCEPT !.pc = "replace", !.row = i]
        BY <1>1, <2>4
      <3> QED BY <1>1, <3>1 DEF GoesOn, Lasting, Call
    <2> QED BY <1>2, <2>1, <2>2, <2>3, <2>4 DEF FindOpen
  <1>3. Replace(c) => k.pc = "replace" /\ q.pc = "tidy" /\ GoesOn(k, q)
    BY <1>1 DEF Replace, GoTo, GoesOn, Lasting, Call
  <1>4. Tidy(c) => k.pc = "tidy" /\ q.pc = "insert" /\ GoesOn(k, q)
    BY <1>1 DEF Tidy, GoTo, GoesOn, Lasting, Call
  <1>5. Insert(c) => /\ k.pc = "insert"
                     /\ \/ Ends(k, q, {"challenge"})
                        \/ GoesOn(k, q) /\ q.pc = "send"
    BY HandShape DEF Insert
  <1>6. Send(c) => k.pc = "send" /\ Ends(k, q, {"challenge", "rejected"})
    <2>1. ASSUME NEW out \in {"challenge", "rejected"}, call' = [call EXCEPT ![c] = Ended(@, out)]
          PROVE  Ends(k, q, {"challenge", "rejected"})
      <3>1. Ends(k, q, {out})
        BY <2>1, EndsShape
      <3> QED BY <3>1 DEF Ends
    <2> QED BY <2>1 DEF Send
  <1> QED BY <1>2, <1>3, <1>4, <1>5, <1>6

LEMMA AnswerShape ==
    ASSUME TypeInv, NEW c \in Calls
    PROVE  LET k == call[c]
               q == call'[c]
           IN  /\ Respond(c) =>
                    /\ k.pc \in {"idle", "done"}
                    /\ \/ Ends(k, q, {"rejected"}) /\ UNCHANGED rows
                       \/ \E i \in Ids, trusted \in BOOLEAN :
                            \E own \in rows[i].owners, a \in AnswersTo(rows[i].name) :
                              /\ Admissible(i)
                              /\ q = Started(i, own, a, trusted)
                              /\ rows' = IF q.pc = "count"
                                         THEN [rows EXCEPT ![i].guesses = @ + 1] ELSE rows
               /\ UseCode(c) =>
                    /\ k.pc = "useCode"
                    /\ \/ Ends(k, q, {"rejected"})
                       \/ /\ Lasting(k, q) /\ q.pc = "consume" /\ q.row = k.row
                          /\ q.snap = k.snap
               /\ SetPhone(c) =>
                    /\ k.pc = "setPhone"
                    /\ \/ Ends(k, q, {"rejected"})
                       \/ GoesOn(k, q) /\ q.pc = "find"
               /\ ReadUser(c) =>
                    /\ k.pc = "readUser"
                    /\ \/ Ends(k, q, {"rejected"}) /\ UNCHANGED rows
                       \/ /\ GoesOn(k, q) /\ q.pc = "count" /\ q.row = k.row
                          /\ rows' = [rows EXCEPT ![k.row].guesses = @ + 1]
                       \/ /\ GoesOn(k, q) /\ q.pc = "saveUser" /\ q.row = k.row
                          /\ q.read = user
                          /\ k.answer \in {"right"} \cup user.codes
                          /\ UNCHANGED rows
               /\ SaveUser(c) =>
                    /\ k.pc = "saveUser" /\ q.pc = "consume" /\ q.row = k.row
                    /\ Lasting(k, q) /\ q.snap = k.snap
  <1> DEFINE k == call[c]
             q == call'[c]
  <1>1. k \in Call /\ call \in [Calls -> Call]
    BY DEF TypeInv, TypeOK
  <1>2. ASSUME Respond(c)
        PROVE  /\ k.pc \in {"idle", "done"}
               /\ \/ Ends(k, q, {"rejected"}) /\ UNCHANGED rows
                  \/ \E i \in Ids, trusted \in BOOLEAN :
                       \E own \in rows[i].owners, a \in AnswersTo(rows[i].name) :
                         /\ Admissible(i)
                         /\ q = Started(i, own, a, trusted)
                         /\ rows' = IF q.pc = "count"
                                    THEN [rows EXCEPT ![i].guesses = @ + 1] ELSE rows
    <2>0. PICK i \in Ids, trusted \in BOOLEAN :
             \E own \in rows[i].owners, a \in AnswersTo(rows[i].name) :
                RespondWith(c, i, own, a, trusted)
      BY <1>2 DEF Respond
    <2>1. PICK own \in rows[i].owners, a \in AnswersTo(rows[i].name) :
             RespondWith(c, i, own, a, trusted)
      BY <2>0
    <2> DEFINE m == Started(i, own, a, trusted)
    <2>2. /\ k.pc \in {"idle", "done"}
          /\ q = IF Admitted(m) THEN m ELSE Ended(m, "rejected")
          /\ rows' = IF Admitted(m) /\ m.pc = "count"
                     THEN [rows EXCEPT ![i].guesses = @ + 1] ELSE rows
          /\ m.row = i
      BY <1>1, <1>2, <2>1 DEF Respond, Free, RespondWith, Started
    <2>3. m \in Call
      BY StartedType
    <2>4. CASE Admitted(m)
      <3>1. q = Started(i, own, a, trusted) /\ Admissible(i)
        BY <2>2, <2>4 DEF Admitted
      <3> QED BY <2>2, <2>4, <3>1
    <2>5. CASE ~Admitted(m)
      <3>1. Ends(k, q, {"rejected"})
        BY <2>2, <2>3, <2>5, EndedType DEF Ends
      <3> QED BY <2>2, <2>5, <3>1
    <2> QED BY <2>4, <2>5
  <1>3. ASSUME UseCode(c)
        PROVE  /\ k.pc = "useCode"
               /\ \/ Ends(k, q, {"rejected"})
                  \/ /\ Lasting(k, q) /\ q.pc = "consume" /\ q.row = k.row
                     /\ q.snap = k.snap
    <2>1. CASE Reject(c)
      BY <1>3, <2>1, EndsShape DEF Reject, UseCode
    <2>2. CASE call' = [call EXCEPT ![c].pc = "consume", ![c].passed = k.name]
      <3>1. q = [k EXCEPT !.pc = "consume", !.passed = k.name]
        BY <1>1, <2>2
      <3> QED BY <1>1, <1>3, <3>1 DEF UseCode, Lasting, Call
    <2> QED BY <1>3, <2>1, <2>2 DEF UseCode
  <1>4. ASSUME SetPhone(c)
        PROVE  /\ k.pc = "setPhone"
               /\ \/ Ends(k, q, {"rejected"})
                  \/ GoesOn(k, q) /\ q.pc = "find"
    <2>1. CASE Reject(c)
      BY <1>4, <2>1, EndsShape DEF Reject, SetPhone
    <2>2. CASE GoTo(c, "find")
      BY <1>1, <1>4, <2>2 DEF SetPhone, GoTo, GoesOn, Lasting, Call
    <2> QED BY <1>4, <2>1, <2>2 DEF SetPhone
  <1>5. ASSUME ReadUser(c)
        PROVE  /\ k.pc = "readUser"
               /\ \/ Ends(k, q, {"rejected"}) /\ UNCHANGED rows
                  \/ /\ GoesOn(k, q) /\ q.pc = "count" /\ q.row = k.row
                     /\ rows' = [rows EXCEPT ![k.row].guesses = @ + 1]
                  \/ /\ GoesOn(k, q) /\ q.pc = "saveUser" /\ q.row = k.row
                     /\ q.read = user
                     /\ k.answer \in {"right"} \cup user.codes
                     /\ UNCHANGED rows
    <2>1. CASE Reject(c) /\ UNCHANGED rows
      BY <1>5, <2>1, EndsShape DEF Reject, ReadUser
    <2>2. CASE GoTo(c, "count") /\ rows' = [rows EXCEPT ![k.row].guesses = @ + 1]
      BY <1>1, <1>5, <2>2 DEF ReadUser, GoTo, GoesOn, Lasting, Call
    <2>3. CASE /\ k.answer \in {"right"} \cup user.codes
               /\ call' = [call EXCEPT ![c].read = user, ![c].pc = "saveUser"]
               /\ UNCHANGED rows
      <3>1. q = [k EXCEPT !.read = user, !.pc = "saveUser"]
        BY <1>1, <2>3
      <3> QED BY <1>1, <1>5, <2>3, <3>1 DEF ReadUser, GoesOn, Lasting, Call
    <2> QED BY <1>5, <2>1, <2>2, <2>3 DEF ReadUser
  <1>6. ASSUME SaveUser(c)
        PROVE  /\ k.pc = "saveUser" /\ q.pc = "consume" /\ q.row = k.row
               /\ Lasting(k, q) /\ q.snap = k.snap
    <2>1. q = [k EXCEPT !.pc = "consume", !.passed = k.name, !.read = NoUser]
      BY <1>1, <1>6 DEF SaveUser
    <2> QED BY <1>1, <1>6, <2>1 DEF SaveUser, Lasting, Call
  <1> QED BY <1>2, <1>3, <1>4, <1>5, <1>6

LEMMA CompleteShape ==
    ASSUME TypeInv, NEW c \in Calls
    PROVE  LET k == call[c]
               q == call'[c]
           IN  /\ Count(c) => k.pc = "count" /\ Ends(k, q, {"rejected"})
               /\ Consume(c) =>
                    /\ k.pc = "consume"
                    /\ \/ Ends(k, q, {"rejected"})
                       \/ /\ Admissible(k.row) /\ GoesOn(k, q) /\ q.pc = "complete"
                          /\ q.row = k.row
               /\ Complete(c) =>
                    /\ k.pc = "complete" /\ q.pc = "decide" /\ GoesOn(k, q) /\ q.row = k.row
  <1> DEFINE k == call[c]
             q == call'[c]
  <1>1. k \in Call /\ call \in [Calls -> Call]
    BY DEF TypeInv, TypeOK
  <1>2. Count(c) => k.pc = "count" /\ Ends(k, q, {"rejected"})
    BY EndsShape DEF Count, Reject
  <1>3. ASSUME Consume(c)
        PROVE  /\ k.pc = "consume"
               /\ \/ Ends(k, q, {"rejected"})
                  \/ /\ Admissible(k.row) /\ GoesOn(k, q) /\ q.pc = "complete"
                     /\ q.row = k.row
    <2>1. CASE Reject(c)
      BY <1>3, <2>1, EndsShape DEF Reject, Consume
    <2>2. CASE /\ Admissible(k.row)
               /\ call' = [call EXCEPT ![c].pc = "complete", ![c].attempts = rows[k.row].attempts]
      <3>1. q = [k EXCEPT !.pc = "complete", !.attempts = rows[k.row].attempts]
        BY <1>1, <2>2
      <3> QED BY <1>1, <1>3, <2>2, <3>1 DEF Consume, GoesOn, Lasting, Call
    <2> QED BY <1>3, <2>1, <2>2 DEF Consume
  <1>4. ASSUME Complete(c)
        PROVE  k.pc = "complete" /\ q.pc = "decide" /\ GoesOn(k, q) /\ q.row = k.row
    <2>1. q = [k EXCEPT !.pc = "decide"]
      BY <1>1, <1>4 DEF Complete
    <2> QED BY <1>1, <1>4, <2>1 DEF Complete, GoesOn, Lasting, Call
  <1> QED BY <1>2, <1>3, <1>4

-----------------------------------------------------------------------------
(* Backup codes. *)

\* A backup code that is about to be accepted is in the list as it was read.
Knows(k) == k.pc = "saveUser" /\ k.answer \in Codes => k.answer \in k.read.codes

\* Unless the list was ever rolled back, an accepted code has left it.
CodesInv ==
    /\ \A c \in Calls : Knows(call[c])
    /\ ~rolledBack => \A a \in Codes : spent[a] = 0 \/ (spent[a] = 1 /\ a \notin user.codes)

LEMMA KnowsStep ==
    ASSUME TypeInv, CodesInv, NEW c \in Calls, Step(c)
    PROVE  \A d \in Calls : Knows(call'[d])
  <1>1. ASSUME NEW d \in Calls, d # c PROVE Knows(call'[d])
    <2>1. Alike(call[d], call'[d])
      BY <1>1, Elsewhere
    <2> QED BY <2>1 DEF Alike, Knows, CodesInv
  <1>2. CASE Login(c) \/ PasswordExpired(c) \/ Decide(c)
    <2>1. call'[c].pc # "saveUser"
      BY <1>2, LoginShape DEF Ends
    <2> QED BY <1>1, <2>1 DEF Knows
  <1>3. CASE FindOpen(c) \/ Replace(c) \/ Tidy(c) \/ Insert(c) \/ Send(c)
    <2>1. call'[c].pc # "saveUser"
      BY <1>3, CreateShape DEF Ends
    <2> QED BY <1>1, <2>1 DEF Knows
  <1>4. CASE Respond(c)
    <2>1. call'[c].pc # "saveUser"
      BY <1>4, AnswerShape, StartedType DEF Ends
    <2> QED BY <1>1, <2>1 DEF Knows
  <1>5. CASE UseCode(c) \/ SetPhone(c) \/ SaveUser(c)
    <2>1. call'[c].pc # "saveUser"
      BY <1>5, AnswerShape DEF Ends
    <2> QED BY <1>1, <2>1 DEF Knows
  <1>6. CASE ReadUser(c)
    <2>1. \/ call'[c].pc # "saveUser"
          \/ /\ call'[c].read = user /\ call'[c].answer = call[c].answer
             /\ call[c].answer \in {"right"} \cup user.codes
      BY <1>6, AnswerShape DEF Ends, GoesOn
    <2> QED BY <1>1, <2>1, SignInAssumption DEF Knows
  <1>7. CASE Count(c) \/ Consume(c) \/ Complete(c)
    <2>1. call'[c].pc # "saveUser"
      BY <1>7, CompleteShape DEF Ends
    <2> QED BY <1>1, <2>1 DEF Knows
  <1> QED BY <1>2, <1>3, <1>4, <1>5, <1>6, <1>7 DEF Step

LEMMA CodesStep ==
    TypeInv /\ CodesInv /\ [Next]_vars => CodesInv'
  <1> SUFFICES ASSUME TypeInv, CodesInv, [Next]_vars PROVE CodesInv'
    OBVIOUS
  <1>0. user \in User
    BY DEF TypeInv, TypeOK
  <1>1. ASSUME NEW c \in Calls, SaveUser(c) PROVE CodesInv'
    <2> DEFINE k == call[c]
    <2>1. /\ k \in Call /\ k.pc = "saveUser" /\ user' = Saved(k)
          /\ rolledBack' = (rolledBack \/ user.codes # k.read.codes)
          /\ spent' = IF k.answer \in Codes THEN [spent EXCEPT ![k.answer] = @ + 1] ELSE spent
      BY <1>1 DEF SaveUser, TypeInv, TypeOK
    <2>2. k.read \in User /\ k.name \in Savers
      BY <2>1 DEF Call, TypeInv, Fits
    <2>3. \A d \in Calls : Knows(call'[d])
      BY <1>1, KnowsStep DEF Step
    <2>4. ASSUME ~rolledBack', NEW a \in Codes
          PROVE  spent'[a] = 0 \/ (spent'[a] = 1 /\ a \notin user'.codes)
      <3>1. ~rolledBack /\ user.codes = k.read.codes
        BY <2>1, <2>4
      <3>2. spent[a] = 0 \/ (spent[a] = 1 /\ a \notin user.codes)
        BY <3>1 DEF CodesInv
      <3>3. user'.codes = IF k.name = "MFA_REQUIRED" THEN k.read.codes \ {k.answer}
                          ELSE k.read.codes
        BY <2>1, <2>2 DEF Saved, Savers, User
      <3>4. CASE k.answer = a
        <4>1. a \in user.codes /\ k.name = "MFA_REQUIRED"
          BY <2>1, <3>1, <3>4 DEF CodesInv, Knows, TypeInv, Fits
        <4>2. spent'[a] = 1
          BY <2>1, <3>2, <3>4, <4>1 DEF TypeInv, TypeOK
        <4> QED BY <3>3, <3>4, <4>1, <4>2
      <3>5. CASE k.answer # a
        <4>1. spent'[a] = spent[a]
          BY <2>1, <3>5 DEF TypeInv, TypeOK
        <4> QED BY <3>1, <3>2, <3>3, <4>1
      <3> QED BY <3>4, <3>5
    <2> QED BY <2>3, <2>4 DEF CodesInv
  <1>2. ASSUME NEW c \in Calls, Step(c), ~SaveUser(c) PROVE CodesInv'
    <2>1. \A d \in Calls : Knows(call'[d])
      BY <1>2, KnowsStep
    <2>2. UNCHANGED << rolledBack, spent >> /\ user'.codes = user.codes
      <3>1. CASE Login(c) \/ PasswordExpired(c) \/ Decide(c)
        BY <1>0, <3>1 DEF Login, PasswordExpired, Decide, User
      <3>2. CASE FindOpen(c) \/ Replace(c) \/ Tidy(c) \/ Insert(c) \/ Send(c)
        BY <3>2 DEF FindOpen, Replace, Tidy, Insert, Send
      <3>3. CASE Respond(c) \/ ReadUser(c) \/ Count(c) \/ Consume(c) \/ Complete(c)
        BY <3>3 DEF Respond, ReadUser, Count, Consume, Complete
      <3>4. CASE UseCode(c)
        BY <1>0, <3>4 DEF UseCode, User
      <3>5. CASE SetPhone(c)
        BY <1>0, <3>5 DEF SetPhone, User
      <3> QED BY <1>2, <3>1, <3>2, <3>3, <3>4, <3>5 DEF Step
    <2> QED BY <2>1, <2>2 DEF CodesInv
  <1>3. CASE (\E i \in Ids : Expire(i)) \/ Others
    <2>1. UNCHANGED << call, rolledBack, spent >> /\ user'.codes = user.codes
      BY <1>0, <1>3 DEF Expire, Others, User
    <2> QED BY <2>1 DEF CodesInv
  <1>4. CASE UNCHANGED vars
    BY <1>4 DEF vars, hist, CodesInv
  <1> QED BY <1>1, <1>2, <1>3, <1>4 DEF Next

(***************************************************************************)
(* A backup code is accepted once, unless some request wrote the list of   *)
(* codes back as it was before another had changed it (the list is read    *)
(* and saved as a whole, without a condition on what is stored).           *)
(***************************************************************************)
THEOREM CodesAreSpentOnce == Spec => []BackupCodesAreSingleUse
  <1>1. Init => CodesInv
    <2> SUFFICES ASSUME Init PROVE CodesInv
      OBVIOUS
    <2> QED BY DEF Init, CodesInv, Knows, Idle
  <1>2. TypeInv /\ CodesInv => BackupCodesAreSingleUse
    BY DEF CodesInv, BackupCodesAreSingleUse
  <1>3. Spec => []TypeInv
    BY TypeInvariant, PTL
  <1> QED BY <1>1, <1>2, <1>3, CodesStep, PTL DEF Spec

-----------------------------------------------------------------------------
(* Late answers. *)

Closed == {"done", "deleted"}

\* A late answer has not yet validated its session the second time, and the session
\* will not be open again.
LateFits(k, R) == k.late => BeforeConsuming(k) /\ R[k.row].st \in Closed

LateInv == \A c \in Calls : LateFits(call[c], rows)

LEMMA SessionsStayClosed ==
    ASSUME TypeInv, NEW c \in Calls, Step(c), NEW i \in Ids, rows[i].st \in Closed
    PROVE  rows'[i].st \in Closed
  <1>1. rows[i] \in Row /\ rows \in [Ids -> Row]
    BY DEF TypeInv, TypeOK
  <1>2. CASE Login(c) \/ PasswordExpired(c) \/ Decide(c)
    BY <1>2 DEF Login, PasswordExpired, Decide
  <1>3. CASE FindOpen(c)
    <2>1. CASE UNCHANGED rows
      BY <2>1
    <2>2. ASSUME NEW j, rows' = [rows EXCEPT ![j].owners = @ \cup {call[c].own}, ![j].kin = @ \cup call[c].kin]
          PROVE  rows'[i].st \in Closed
      BY <1>1, <2>2 DEF Row
    <2> QED BY <1>3, <2>1, <2>2 DEF FindOpen
  <1>4. CASE Replace(c)
    BY <1>1, <1>4 DEF Replace, Row, Closed
  <1>5. CASE Tidy(c)
    BY <1>1, <1>5 DEF Tidy, Tidied, Row, Closed
  <1>6. CASE Insert(c)
    <2>1. PICK j \in Ids : NextId(j) /\ \E r : rows' = [rows EXCEPT ![j] = r]
      BY <1>6 DEF Insert
    <2>2. i # j
      BY <2>1 DEF NextId, Closed
    <2> QED BY <1>1, <2>1, <2>2
  <1>7. CASE Send(c) \/ UseCode(c) \/ SetPhone(c) \/ SaveUser(c) \/ Consume(c)
    BY <1>7 DEF Send, UseCode, SetPhone, SaveUser, Consume
  <1>8. CASE Respond(c)
    <2>1. CASE UNCHANGED rows
      BY <2>1
    <2>2. ASSUME NEW j \in Ids, rows' = [rows EXCEPT ![j].guesses = @ + 1]
          PROVE  rows'[i].st \in Closed
      BY <1>1, <2>2 DEF Row
    <2> QED BY <1>8, <2>1, <2>2, AnswerShape
  <1>9. CASE ReadUser(c)
    <2>1. CASE UNCHANGED rows
      BY <2>1
    <2>2. ASSUME NEW j, rows' = [rows EXCEPT ![j].guesses = @ + 1]
          PROVE  rows'[i].st \in Closed
      BY <1>1, <2>2 DEF Row
    <2> QED BY <1>9, <2>1, <2>2, AnswerShape
  <1>10. CASE Count(c)
    BY <1>1, <1>10 DEF Count, Row
  <1>11. CASE Complete(c)
    BY <1>1, <1>11 DEF Complete, Row, Closed
  <1> QED BY <1>2, <1>3, <1>4, <1>5, <1>6, <1>7, <1>8, <1>9, <1>10, <1>11 DEF Step

LEMMA LateStep ==
    TypeInv /\ LateInv /\ [Next]_vars => LateInv'
  <1> SUFFICES ASSUME TypeInv, LateInv, [Next]_vars PROVE LateInv'
    OBVIOUS
  <1>1. ASSUME NEW c \in Calls, Step(c) PROVE LateInv'
    <2> DEFINE k == call[c]
               q == call'[c]
    <2>0. /\ k \in Call /\ LateFits(k, rows) /\ Fits(k, rows)
          /\ \A i \in Ids : rows[i].st \in Closed => rows'[i].st \in Closed
      BY <1>1, SessionsStayClosed DEF LateInv, TypeInv, TypeOK
    <2>1. ASSUME NEW d \in Calls, d # c PROVE LateFits(call'[d], rows')
      <3>1. Alike(call[d], call'[d]) /\ Fits(call[d], rows) /\ LateFits(call[d], rows)
        BY <1>1, <2>1, Elsewhere DEF LateInv, TypeInv
      <3>2. BeforeConsuming(call'[d]) <=> BeforeConsuming(call[d])
        BY <3>1 DEF Alike, BeforeConsuming
      <3>3. BeforeConsuming(call[d]) => call[d].row \in Ids
        BY <3>1 DEF BeforeConsuming, Fits, OnRow
      <3>4. CASE call'[d].late = call[d].late
        BY <2>0, <3>1, <3>2, <3>3, <3>4 DEF LateFits, Alike
      <3>5. CASE Complete(c) /\ call[d].row = call[c].row /\ BeforeConsuming(call[d])
        <4>1. rows'[call[c].row].st = "done"
          BY <2>0, <3>5 DEF Complete, Fits, OnRow, TypeInv, TypeOK, Row
        <4> QED BY <3>1, <3>2, <3>5, <4>1 DEF LateFits, Alike, Closed
      <3> QED BY <1>1, <2>1, <3>4, <3>5, Elsewhere
    <2>2. ASSUME Lasting(k, q), ~BeforeConsuming(k) PROVE LateFits(q, rows')
      BY <2>0, <2>2 DEF LateFits, Lasting
    <2>3. ASSUME Ends(k, q, {"tokens", "challenge", "rejected"}), ~BeforeConsuming(k) \/ q.out = "rejected"
          PROVE  LateFits(q, rows')
      BY <2>0, <2>3 DEF LateFits, Ends
    <2>4. ASSUME Lasting(k, q), q.row = k.row, BeforeConsuming(k), BeforeConsuming(q)
          PROVE  LateFits(q, rows')
      <3>1. k.row \in Ids
        BY <2>0, <2>4 DEF BeforeConsuming, Fits, OnRow
      <3> QED BY <2>0, <2>4, <3>1 DEF LateFits, Lasting
    <2>5. LateFits(q, rows')
      <3>1. CASE Login(c)
        BY <3>1, LoginShape DEF LateFits
      <3>2. CASE PasswordExpired(c)
        BY <2>2, <3>2, LoginShape DEF BeforeConsuming
      <3>3. CASE Decide(c)
        BY <2>2, <2>3, <3>3, LoginShape DEF Ends, BeforeConsuming
      <3>4. CASE FindOpen(c) \/ Replace(c) \/ Tidy(c) \/ Insert(c)
        BY <2>2, <2>3, <3>4, CreateShape DEF GoesOn, Ends, BeforeConsuming
      <3>5. CASE Send(c)
        BY <2>2, <2>3, <3>5, CreateShape DEF Ends, BeforeConsuming
      <3>6. CASE Respond(c)
        <4>1. ASSUME NEW i \in Ids, NEW trusted, NEW own, NEW a, Admissible(i),
                     q = Started(i, own, a, trusted)
              PROVE  LateFits(q, rows')
          <5>1. q.late = (rows[i].st \in {"done", "deleted"})
            BY <4>1 DEF Started
          <5> QED BY <4>1, <5>1 DEF Admissible, LateFits
        <4>2. CASE Ends(k, q, {"rejected"})
          BY <4>2 DEF Ends, LateFits
        <4> QED BY <3>6, <4>1, <4>2, AnswerShape
      <3>7. CASE UseCode(c)
        BY <2>3, <2>4, <3>7, AnswerShape DEF Ends, BeforeConsuming
      <3>8. CASE SetPhone(c)
        BY <2>2, <2>3, <3>8, AnswerShape DEF Ends, GoesOn, BeforeConsuming
      <3>9. CASE ReadUser(c)
        BY <2>3, <2>4, <3>9, AnswerShape DEF Ends, GoesOn, BeforeConsuming
      <3>10. CASE SaveUser(c)
        BY <2>4, <3>10, AnswerShape DEF BeforeConsuming
      <3>11. CASE Count(c)
        BY <2>3, <3>11, CompleteShape DEF Ends
      <3>12. CASE Consume(c)
        <4>1. CASE Ends(k, q, {"rejected"})
          BY <4>1 DEF Ends, LateFits
        <4>2. CASE Admissible(k.row) /\ GoesOn(k, q)
          <5>1. ~k.late
            BY <2>0, <4>2 DEF LateFits, Admissible, Closed
          <5> QED BY <4>2, <5>1 DEF GoesOn, Lasting, LateFits
        <4> QED BY <3>12, <4>1, <4>2, CompleteShape
      <3>13. CASE Complete(c)
        BY <2>2, <3>13, CompleteShape DEF GoesOn, BeforeConsuming
      <3> QED BY <1>1, <3>1, <3>2, <3>3, <3>4, <3>5, <3>6, <3>7, <3>8, <3>9, <3>10, <3>11,
                 <3>12, <3>13 DEF Step
    <2> QED BY <2>1, <2>5 DEF LateInv
  <1>2. CASE \E i \in Ids : Expire(i)
    <2>1. PICK i \in Ids : Expire(i)
      BY <1>2
    <2>2. \A j \in Ids : rows'[j].st = rows[j].st
      BY <2>1 DEF Expire, TypeInv, TypeOK, Row
    <2>3. \A c \in Calls : BeforeConsuming(call[c]) => call[c].row \in Ids
      BY DEF BeforeConsuming, TypeInv, Fits, OnRow
    <2> QED BY <2>1, <2>2, <2>3 DEF Expire, LateInv, LateFits
  <1>3. CASE Others
    BY <1>3 DEF Others, LateInv
  <1>4. CASE UNCHANGED vars
    BY <1>4 DEF vars, LateInv
  <1> QED BY <1>1, <1>2, <1>3, <1>4 DEF Next

(***************************************************************************)
(* A challenge session is completed once, except by answers that overlap   *)
(* between validating and saving: an answer whose session another one      *)
(* completed before it validated the session the second time gets neither  *)
(* tokens nor a further challenge (validateAndConsumeSession).             *)
(***************************************************************************)
THEOREM LateAnswersFail == Spec => []LateAnswersGetNothing
  <1>1. Init => LateInv
    <2> SUFFICES ASSUME Init PROVE LateInv
      OBVIOUS
    <2> QED BY DEF Init, LateInv, LateFits, Idle
  <1>2. TypeInv /\ LateInv => LateAnswersGetNothing
    BY DEF TypeInv, Fits, LateInv, LateFits, BeforeConsuming, LateAnswersGetNothing
  <1>3. Spec => []TypeInv
    BY TypeInvariant, PTL
  <1> QED BY <1>1, <1>2, <1>3, LateStep, PTL DEF Spec

-----------------------------------------------------------------------------
(* Open sessions. *)

Names == Challenges \cup {"none"}

\* Without a race, one request at a time creates a session of a name; the others are
\* closed when it is about to insert, and at most the one it replaces is open before.
OneInv ==
    ~raced => \A name \in Names :
        /\ \A c, d \in Calls : Creating(c, name) /\ Creating(d, name) => c = d
        /\ \A i, j \in OpenRows(name) : i = j
        /\ \A c \in Calls : Creating(c, name) =>
             \/ OpenRows(name) = {}
             \/ call[c].pc = "replace" /\ OpenRows(name) \subseteq {call[c].row}

\* Only an insertion opens a session.
LEMMA SessionsOpenOnce ==
    ASSUME TypeInv, NEW c \in Calls, Step(c), ~Insert(c), NEW i \in Ids, rows'[i].st = "open"
    PROVE  rows[i].st = "open" /\ rows'[i].name = rows[i].name
  <1>1. rows[i] \in Row /\ rows \in [Ids -> Row]
    BY DEF TypeInv, TypeOK
  <1>2. CASE UNCHANGED rows
    BY <1>2
  <1>3. CASE FindOpen(c)
    <2>1. ASSUME NEW j, rows' = [rows EXCEPT ![j].owners = @ \cup {call[c].own}, ![j].kin = @ \cup call[c].kin]
          PROVE  rows[i].st = "open" /\ rows'[i].name = rows[i].name
      BY <1>1, <2>1 DEF Row
    <2> QED BY <1>2, <1>3, <2>1 DEF FindOpen
  <1>4. CASE Replace(c)
    BY <1>1, <1>4 DEF Replace, Row
  <1>5. CASE Tidy(c)
    BY <1>1, <1>5 DEF Tidy, Tidied, Row
  <1>6. CASE Respond(c) \/ ReadUser(c)
    <2>1. ASSUME NEW j, rows' = [rows EXCEPT ![j].guesses = @ + 1]
          PROVE  rows[i].st = "open" /\ rows'[i].name = rows[i].name
      BY <1>1, <2>1 DEF Row
    <2> QED BY <1>2, <1>6, <2>1, AnswerShape
  <1>7. CASE Count(c)
    BY <1>1, <1>7 DEF Count, Row
  <1>8. CASE Complete(c)
    BY <1>1, <1>8 DEF Complete, Row
  <1>9. CASE \/ Login(c) \/ PasswordExpired(c) \/ Decide(c) \/ Send(c) \/ UseCode(c)
             \/ SetPhone(c) \/ SaveUser(c) \/ Consume(c)
    BY <1>2, <1>9 DEF Login, PasswordExpired, Decide, Send, UseCode, SetPhone, SaveUser, Consume
  <1> QED BY <1>3, <1>4, <1>5, <1>6, <1>7, <1>8, <1>9 DEF Step

\* A step that neither opens a session of a name nor begins to create one.
LEMMA OneKept ==
    ASSUME NEW name, NEW c \in Calls,
           \A d \in Calls \ {c} : Alike(call[d], call'[d]),
           OpenRows(name)' \subseteq OpenRows(name),
           \A a, b \in Calls : Creating(a, name) /\ Creating(b, name) => a = b,
           \A i, j \in OpenRows(name) : i = j,
           \A a \in Calls : Creating(a, name) =>
             \/ OpenRows(name) = {}
             \/ call[a].pc = "replace" /\ OpenRows(name) \subseteq {call[a].row},
           Creating(c, name)' => /\ Creating(c, name)
                                 /\ OpenRows(name)' = {}
    PROVE  /\ \A a, b \in Calls : Creating(a, name)' /\ Creating(b, name)' => a = b
           /\ \A i, j \in OpenRows(name)' : i = j
           /\ \A a \in Calls : Creating(a, name)' =>
                \/ OpenRows(name)' = {}
                \/ call'[a].pc = "replace" /\ OpenRows(name)' \subseteq {call'[a].row}
  <1>1. \A d \in Calls \ {c} : /\ Creating(d, name)' <=> Creating(d, name)
                               /\ call'[d].pc = call[d].pc /\ call'[d].row = call[d].row
    BY DEF Alike, Creating
  <1>2. \A a \in Calls : Creating(a, name)' => Creating(a, name)
    BY <1>1
  <1> HIDE DEF Creating, OpenRows
  <1> QED BY <1>1, <1>2

LEMMA OneStep ==
    TypeInv /\ OneInv /\ [Next]_vars => OneInv'
  <1> SUFFICES ASSUME TypeInv, OneInv, [Next]_vars PROVE OneInv'
    OBVIOUS
  <1>1. ASSUME NEW c \in Calls, Step(c), ~raced', NEW name \in Names
        PROVE  /\ \A a, b \in Calls : Creating(a, name)' /\ Creating(b, name)' => a = b
               /\ \A i, j \in OpenRows(name)' : i = j
               /\ \A a \in Calls : Creating(a, name)' =>
                    \/ OpenRows(name)' = {}
                    \/ call'[a].pc = "replace" /\ OpenRows(name)' \subseteq {call'[a].row}
    <2> DEFINE k == call[c]
               q == call'[c]
    <2>1. ~raced
      <3>1. CASE FindOpen(c)
        BY <1>1, <3>1 DEF FindOpen
      <3>2. CASE ~FindOpen(c)
        BY <1>1, <3>2 DEF Step, Login, PasswordExpired, Decide, Replace, Tidy, Insert, Send, Respond,
                   UseCode, SetPhone, ReadUser, SaveUser, Count, Consume, Complete
      <3> QED BY <3>1, <3>2
    <2>2. /\ \A a, b \in Calls : Creating(a, name) /\ Creating(b, name) => a = b
          /\ \A i, j \in OpenRows(name) : i = j
          /\ \A a \in Calls : Creating(a, name) =>
               \/ OpenRows(name) = {}
               \/ call[a].pc = "replace" /\ OpenRows(name) \subseteq {call[a].row}
      BY <2>1 DEF OneInv
    <2>3. \A d \in Calls \ {c} : Alike(call[d], call'[d])
      BY <1>1, Elsewhere
    <2>4. \A d \in Calls \ {c} : Creating(d, name)' <=> Creating(d, name)
      BY <2>3 DEF Alike, Creating
    <2>5. ~Insert(c) => OpenRows(name)' \subseteq OpenRows(name)
      BY <1>1, SessionsOpenOnce DEF OpenRows
    <2>6. ASSUME ~Insert(c), Creating(c, name)' => Creating(c, name) /\ OpenRows(name)' = {}
          PROVE  /\ \A a, b \in Calls : Creating(a, name)' /\ Creating(b, name)' => a = b
                 /\ \A i, j \in OpenRows(name)' : i = j
                 /\ \A a \in Calls : Creating(a, name)' =>
                      \/ OpenRows(name)' = {}
                      \/ call'[a].pc = "replace" /\ OpenRows(name)' \subseteq {call'[a].row}
      BY <2>2, <2>3, <2>5, <2>6, OneKept
    <2>7. CASE Insert(c)
      <3>1. PICK i \in Ids : rows' = [rows EXCEPT ![i] = [NoRow EXCEPT !.st = "open", !.name = k.name,
                                                         !.origin = Kept(k.name, k.origin),
                                                         !.owners = {k.own}, !.kin = k.kin]]
        BY <2>7 DEF Insert
      <3>2. \A j \in Ids : rows'[j] = IF j = i THEN [NoRow EXCEPT !.st = "open", !.name = k.name,
                                                         !.origin = Kept(k.name, k.origin),
                                                         !.owners = {k.own}, !.kin = k.kin] ELSE rows[j]
        BY <3>1 DEF TypeInv, TypeOK
      <3>3. rows'[i].name = k.name /\ \A j \in Ids \ {i} : rows'[j] = rows[j]
        BY <3>2 DEF NoRow
      <3>4. ~Creating(c, name)'
        BY <2>7, CreateShape DEF Creating, Ends
      <3>5. CASE k.name = name
        <4>1. Creating(c, name) /\ k.pc # "replace"
          BY <2>7, <3>5 DEF Insert, Creating
        <4>2. OpenRows(name) = {} /\ \A a \in Calls : ~Creating(a, name)'
          BY <2>2, <2>4, <3>4, <4>1
        <4>3. OpenRows(name)' \subseteq {i}
          BY <3>3, <4>2 DEF OpenRows
        <4> QED BY <4>2, <4>3
      <3>6. CASE k.name # name
        <4>1. OpenRows(name)' \subseteq OpenRows(name)
          BY <3>3, <3>6 DEF OpenRows
        <4> QED BY <2>2, <2>3, <3>4, <4>1, OneKept
      <3> QED BY <3>5, <3>6
    <2>8. CASE FindOpen(c) /\ k.name = name
      <3>1. \A d \in Calls \ {c} : ~Creating(d, name)'
        BY <1>1, <2>4, <2>8 DEF FindOpen
      <3>2. k.pc = "find" /\ ~Insert(c)
        BY <2>8 DEF FindOpen, Insert
      <3>3. CASE OpenRows(name) = {}
        BY <2>5, <3>1, <3>2, <3>3
      <3>4. ASSUME NEW i \in Newest(OpenRows(name)), Hand(c, i)
            PROVE  ~Creating(c, name)'
        <4>1. i \in Ids
          BY DEF Newest, OpenRows
        <4> QED BY <3>4, <4>1, HandShape DEF Ends, Creating
      <3>5. ASSUME NEW i \in Newest(OpenRows(name)),
                   call' = [call EXCEPT ![c].pc = "replace", ![c].row = i]
            PROVE  q.pc = "replace" /\ OpenRows(name)' \subseteq {q.row}
        <4>1. i \in OpenRows(name)
          BY DEF Newest
        <4>2. OpenRows(name)' \subseteq {i}
          BY <2>2, <2>5, <3>2, <4>1
        <4>3. k \in Call /\ q = [k EXCEPT !.pc = "replace", !.row = i]
          BY <3>5 DEF TypeInv, TypeOK
        <4> QED BY <4>2, <4>3 DEF Call
      <3> QED BY <2>2, <2>5, <2>8, <3>1, <3>2, <3>3, <3>4, <3>5 DEF FindOpen
    <2>9. CASE FindOpen(c) /\ k.name # name
      <3>1. ~Creating(c, name)' /\ ~Insert(c)
        BY <2>9, CreateShape DEF Creating, Ends, GoesOn, FindOpen, Insert
      <3> QED BY <2>6, <3>1
    <2>10. CASE Replace(c)
      <3>1. ~Insert(c) /\ k.pc = "replace" /\ GoesOn(k, q)
        BY <2>10, CreateShape DEF Replace, Insert
      <3>2. ASSUME Creating(c, name)' PROVE Creating(c, name) /\ OpenRows(name)' = {}
        <4>1. Creating(c, name)
          BY <3>1, <3>2 DEF Creating, GoesOn
        <4>2. OpenRows(name) \subseteq {k.row}
          BY <2>2, <4>1
        <4>3. k.row \in Ids /\ rows'[k.row].st = "deleted"
          BY <2>10, <3>1 DEF Replace, TypeInv, TypeOK, Fits, OnRow, Row
        <4>4. k.row \notin OpenRows(name)'
          BY <4>3 DEF OpenRows
        <4> QED BY <2>5, <3>1, <4>1, <4>2, <4>4
      <3> QED BY <2>6, <3>1, <3>2
    <2>11. CASE Tidy(c)
      <3>1. ~Insert(c) /\ k.pc = "tidy" /\ GoesOn(k, q)
        BY <2>11, CreateShape DEF Tidy, Insert
      <3>2. ASSUME Creating(c, name)' PROVE Creating(c, name) /\ OpenRows(name)' = {}
        BY <2>2, <2>5, <3>1, <3>2 DEF Creating, GoesOn
      <3> QED BY <2>6, <3>1, <3>2
    <2>12. CASE ~(Insert(c) \/ FindOpen(c) \/ Replace(c) \/ Tidy(c))
      <3>1. q.pc \notin {"replace", "tidy", "insert"}
        <4>1. CASE Login(c) \/ PasswordExpired(c) \/ Decide(c)
          BY <4>1, LoginShape DEF Ends
        <4>2. CASE Send(c)
          BY <4>2, CreateShape DEF Ends
        <4>3. CASE Respond(c)
          BY <4>3, AnswerShape, StartedType DEF Ends
        <4>4. CASE UseCode(c) \/ SetPhone(c) \/ ReadUser(c) \/ SaveUser(c)
          BY <4>4, AnswerShape DEF Ends
        <4>5. CASE Count(c) \/ Consume(c) \/ Complete(c)
          BY <4>5, CompleteShape DEF Ends
        <4> QED BY <1>1, <2>12, <4>1, <4>2, <4>3, <4>4, <4>5 DEF Step
      <3>2. ~Creating(c, name)'
        BY <3>1 DEF Creating
      <3> QED BY <2>6, <2>12, <3>2
    <2> QED BY <2>7, <2>8, <2>9, <2>10, <2>11, <2>12
  <1>2. CASE \E c \in Calls : Step(c)
    BY <1>1, <1>2 DEF OneInv
  <1>3. CASE \E i \in Ids : Expire(i)
    <2>1. PICK i \in Ids : Expire(i)
      BY <1>3
    <2>2. \A j \in Ids : rows'[j].st = rows[j].st /\ rows'[j].name = rows[j].name
      BY <2>1 DEF Expire, TypeInv, TypeOK, Row
    <2>3. \A name : OpenRows(name)' = OpenRows(name)
      BY <2>2 DEF OpenRows
    <2> QED BY <2>1, <2>3 DEF Expire, OneInv, Creating
  <1>4. CASE Others \/ UNCHANGED vars
    <2>1. UNCHANGED << rows, call, raced >>
      BY <1>4 DEF Others, vars, hist
    <2> QED BY <2>1 DEF OneInv, Creating, OpenRows
  <1> QED BY <1>2, <1>3, <1>4 DEF Next

(***************************************************************************)
(* As long as no two requests looked for an open session of the same       *)
(* challenge at once, there is at most one such session: a login never     *)
(* leaves an older session open beside the one it hands out                *)
(* (createChallengeSession).                                               *)
(***************************************************************************)
THEOREM OneOpenSession == Spec => []OneOpenSessionUnlessRaced
  <1>1. Init => OneInv
    <2> SUFFICES ASSUME Init PROVE OneInv
      OBVIOUS
    <2>1. \A name : OpenRows(name) = {}
      BY DEF Init, OpenRows, NoRow
    <2>2. \A name : \A c \in Calls : ~Creating(c, name)
      BY DEF Init, Creating, Idle
    <2> QED BY <2>1, <2>2 DEF OneInv
  <1>2. OneInv => OneOpenSessionUnlessRaced
    <2> SUFFICES ASSUME OneInv, ~raced, NEW name \in Challenges
                 PROVE  Cardinality(OpenRows(name)) <= 1
      BY DEF OneOpenSessionUnlessRaced
    <2>1. \A i, j \in OpenRows(name) : i = j
      BY DEF OneInv, Names
    <2>2. CASE OpenRows(name) = {}
      BY <2>2, FS_EmptySet
    <2>3. ASSUME NEW i \in OpenRows(name) PROVE Cardinality(OpenRows(name)) <= 1
      <3>1. OpenRows(name) = {i}
        BY <2>1
      <3>2. Cardinality({i}) = 1
        BY FS_Singleton
      <3> QED BY <3>1, <3>2
    <2> QED BY <2>2, <2>3
  <1> QED BY <1>1, <1>2, TypeInvariant, OneStep, PTL DEF Spec

-----------------------------------------------------------------------------
(* Wrong answers and attempts. *)

\* A wrong answer tested against session i and not yet counted, and an answer that is
\* or may become one.
IsCounting(k, i) == k.pc = "count" /\ k.row = i

IsBusy(k, i) == k.pc \in {"count", "readUser"} /\ k.row = i

Busy(i) == {c \in Calls : IsBusy(call[c], i)}

\* Admission leaves an attempt free, so the requests that were admitted together can
\* exceed the limit by all of them but one.
GuessInv ==
    \A i \in Ids : rows[i].st = "open" =>
        /\ rows[i].guesses = rows[i].attempts + Cardinality(Counting(i))
        /\ rows[i].attempts + Cardinality(Busy(i)) <= MaxAttempts + Cardinality(Calls) - 1

\* What a step does to an open session, from request k to request q.
Untouched(k, q, i) ==
    /\ rows[i].st = "open"
    /\ rows'[i].attempts = rows[i].attempts /\ rows'[i].guesses = rows[i].guesses
    /\ IsCounting(q, i) <=> IsCounting(k, i)
    /\ IsBusy(q, i) => IsBusy(k, i)

Opened(k, q, i) ==
    /\ rows[i].st = "unused" /\ rows'[i].attempts = 0 /\ rows'[i].guesses = 0
    /\ ~IsBusy(q, i)

Tested(k, q, i) ==
    /\ rows[i].st = "open" /\ rows[i].attempts < MaxAttempts
    /\ rows'[i].attempts = rows[i].attempts
    /\ ~IsBusy(k, i)
    /\ rows'[i].guesses = rows[i].guesses + (IF IsCounting(q, i) THEN 1 ELSE 0)

Failed(k, q, i) ==
    /\ rows[i].st = "open"
    /\ rows'[i].attempts = rows[i].attempts /\ rows'[i].guesses = rows[i].guesses + 1
    /\ IsBusy(k, i) /\ ~IsCounting(k, i) /\ IsCounting(q, i)

Counted(k, q, i) ==
    /\ rows[i].st = "open"
    /\ rows'[i].attempts = rows[i].attempts + 1 /\ rows'[i].guesses = rows[i].guesses
    /\ IsCounting(k, i) /\ ~IsBusy(q, i)

LEMMA GuessShape ==
    ASSUME TypeInv, NEW c \in Calls, Step(c), NEW i \in Ids, rows'[i].st = "open"
    PROVE  LET k == call[c]
               q == call'[c]
           IN  \/ Untouched(k, q, i) \/ Opened(k, q, i) \/ Tested(k, q, i)
               \/ Failed(k, q, i) \/ Counted(k, q, i)
  <1> DEFINE k == call[c]
             q == call'[c]
  <1>1. /\ rows[i] \in Row /\ rows \in [Ids -> Row] /\ k \in Call /\ Fits(k, rows)
        /\ rows[i].attempts \in Nat /\ rows[i].guesses \in Nat
    BY DEF TypeInv, TypeOK, Row
  <1>2. ASSUME rows'[i] = rows[i], q.pc \notin {"count", "readUser"},
               k.pc # "count" \/ k.row # i
        PROVE  Untouched(k, q, i)
    BY <1>2 DEF Untouched, IsCounting, IsBusy
  <1>3. CASE Login(c) \/ PasswordExpired(c) \/ Decide(c)
    <2>1. q.pc \notin {"count", "readUser"} /\ k.pc # "count"
      BY <1>3, LoginShape DEF Ends
    <2>2. rows' = rows
      BY <1>3 DEF Login, PasswordExpired, Decide
    <2> QED BY <1>2, <2>1, <2>2
  <1>4. CASE FindOpen(c)
    <2>1. q.pc \notin {"count", "readUser"} /\ k.pc # "count"
      BY <1>4, CreateShape DEF Ends
    <2>2. CASE UNCHANGED rows
      BY <1>2, <2>1, <2>2
    <2>3. ASSUME NEW j, rows' = [rows EXCEPT ![j].owners = @ \cup {call[c].own}, ![j].kin = @ \cup call[c].kin]
          PROVE  Untouched(k, q, i)
      BY <1>1, <2>1, <2>3 DEF Row, Untouched, IsCounting, IsBusy
    <2> QED BY <1>4, <2>2, <2>3 DEF FindOpen
  <1>5. CASE Replace(c)
    <2>1. q.pc \notin {"count", "readUser"} /\ k.pc # "count"
      BY <1>5, CreateShape
    <2>2. rows'[i] = rows[i]
      BY <1>1, <1>5 DEF Replace, Row
    <2> QED BY <1>2, <2>1, <2>2
  <1>6. CASE Tidy(c)
    <2>1. q.pc \notin {"count", "readUser"} /\ k.pc # "count"
      BY <1>6, CreateShape
    <2>2. rows'[i] = rows[i]
      BY <1>1, <1>6 DEF Tidy, Tidied, Row
    <2> QED BY <1>2, <2>1, <2>2
  <1>7. CASE Insert(c)
    <2>1. q.pc \notin {"count", "readUser"} /\ k.pc # "count"
      BY <1>7, CreateShape DEF Ends
    <2>2. PICK j \in Ids : /\ NextId(j)
                           /\ rows' = [rows EXCEPT ![j] = [NoRow EXCEPT !.st = "open", !.name = k.name,
                                                         !.origin = Kept(k.name, k.origin),
                                                         !.owners = {k.own}, !.kin = k.kin]]
      BY <1>7 DEF Insert
    <2>3. CASE i = j
      <3>1. rows'[i] = [NoRow EXCEPT !.st = "open", !.name = k.name,
                                                         !.origin = Kept(k.name, k.origin),
                                                         !.owners = {k.own}, !.kin = k.kin]
        BY <1>1, <2>2, <2>3
      <3>2. rows'[i].attempts = 0 /\ rows'[i].guesses = 0
        BY <3>1 DEF NoRow
      <3> QED BY <2>1, <2>2, <2>3, <3>2 DEF NextId, Opened, IsBusy
    <2>4. CASE i # j
      <3>1. rows'[i] = rows[i]
        BY <1>1, <2>2, <2>4
      <3> QED BY <1>2, <2>1, <3>1
    <2> QED BY <2>3, <2>4
  <1>8. CASE Send(c)
    <2>1. q.pc \notin {"count", "readUser"} /\ k.pc # "count" /\ rows' = rows
      BY <1>8, CreateShape DEF Ends, Send
    <2> QED BY <1>2, <2>1
  <1>9. CASE Respond(c)
    <2>1. k.pc \in {"idle", "done"}
      BY <1>9, AnswerShape
    <2>2. CASE Ends(k, q, {"rejected"}) /\ UNCHANGED rows
      BY <1>2, <2>1, <2>2 DEF Ends
    <2>3. ASSUME NEW j \in Ids, NEW trusted, NEW own, NEW a, Admissible(j),
                 q = Started(j, own, a, trusted),
                 rows' = IF q.pc = "count" THEN [rows EXCEPT ![j].guesses = @ + 1] ELSE rows
          PROVE  Untouched(k, q, i) \/ Tested(k, q, i)
      <3>1. q.row = j
        BY <2>3 DEF Started
      <3>2. CASE j = i
        <4>1. rows[i].st = "open" /\ rows[i].attempts < MaxAttempts
          BY <2>3, <3>2 DEF Admissible
        <4>2. /\ rows'[i].attempts = rows[i].attempts
              /\ rows'[i].guesses = rows[i].guesses + (IF IsCounting(q, i) THEN 1 ELSE 0)
          <5>1. CASE q.pc = "count"
            <6>1. rows'[i] = [rows[i] EXCEPT !.guesses = @ + 1]
              BY <1>1, <2>3, <3>2, <5>1
            <6> QED BY <1>1, <3>1, <3>2, <5>1, <6>1 DEF IsCounting, Row
          <5>2. CASE q.pc # "count"
            BY <1>1, <2>3, <5>2 DEF IsCounting
          <5> QED BY <5>1, <5>2
        <4>3. ~IsBusy(k, i)
          BY <2>1 DEF IsBusy
        <4> QED BY <4>1, <4>2, <4>3 DEF Tested
      <3>3. CASE j # i
        <4>1. rows'[i] = rows[i]
          BY <1>1, <2>3, <3>3
        <4> QED BY <2>1, <3>1, <3>3, <4>1 DEF Untouched, IsCounting, IsBusy
      <3> QED BY <3>2, <3>3
    <2>4. CASE ~(Ends(k, q, {"rejected"}) /\ UNCHANGED rows)
      <3>0. \/ Ends(k, q, {"rejected"}) /\ UNCHANGED rows
            \/ \E j \in Ids, trusted \in BOOLEAN :
                 \E own \in rows[j].owners, a \in AnswersTo(rows[j].name) :
                   /\ Admissible(j)
                   /\ q = Started(j, own, a, trusted)
                   /\ rows' = IF q.pc = "count"
                              THEN [rows EXCEPT ![j].guesses = @ + 1] ELSE rows
        BY <1>9, AnswerShape
      <3> HIDE DEF k, q
      <3>1. PICK j \in Ids, trusted \in BOOLEAN :
              \E own \in rows[j].owners, a \in AnswersTo(rows[j].name) :
                /\ Admissible(j)
                /\ q = Started(j, own, a, trusted)
                /\ rows' = IF q.pc = "count"
                           THEN [rows EXCEPT ![j].guesses = @ + 1] ELSE rows
        BY <2>4, <3>0
      <3>2. PICK own \in rows[j].owners, a \in AnswersTo(rows[j].name) :
              /\ Admissible(j) /\ q = Started(j, own, a, trusted)
              /\ rows' = IF q.pc = "count"
                         THEN [rows EXCEPT ![j].guesses = @ + 1] ELSE rows
        BY <3>1
      <3> USE DEF k, q
      <3>3. Untouched(k, q, i) \/ Tested(k, q, i)
        BY <2>3, <3>2
      <3> QED BY <3>3
    <2> QED BY <2>2, <2>4
  <1>10. CASE UseCode(c) \/ SetPhone(c) \/ SaveUser(c)
    <2>1. q.pc \notin {"count", "readUser"} /\ k.pc # "count"
      BY <1>10, AnswerShape DEF Ends
    <2>2. rows' = rows
      BY <1>10 DEF UseCode, SetPhone, SaveUser
    <2> QED BY <1>2, <2>1, <2>2
  <1>11. CASE ReadUser(c)
    <2>1. k.pc = "readUser"
      BY <1>11, AnswerShape
    <2>2. CASE q.pc \notin {"count", "readUser"} /\ UNCHANGED rows
      BY <1>2, <2>1, <2>2
    <2>3. CASE /\ GoesOn(k, q) /\ q.pc = "count" /\ q.row = k.row
               /\ rows' = [rows EXCEPT ![k.row].guesses = @ + 1]
      <3>1. CASE k.row = i
        <4>1. rows'[i] = [rows[i] EXCEPT !.guesses = @ + 1]
          BY <1>1, <2>3, <3>1
        <4>2. /\ rows'[i].st = rows[i].st /\ rows'[i].attempts = rows[i].attempts
              /\ rows'[i].guesses = rows[i].guesses + 1
          BY <1>1, <4>1 DEF Row
        <4> QED BY <2>1, <2>3, <3>1, <4>2 DEF Failed, IsBusy, IsCounting
      <3>2. CASE k.row # i
        <4>1. rows'[i] = rows[i]
          BY <1>1, <2>3, <3>2
        <4> QED BY <2>1, <2>3, <3>2, <4>1 DEF Untouched, IsBusy, IsCounting
      <3> QED BY <3>1, <3>2
    <2> QED BY <1>11, <2>2, <2>3, AnswerShape DEF Ends
  <1>12. CASE Count(c)
    <2>1. k.pc = "count" /\ q.pc = "done"
      BY <1>12, CompleteShape DEF Ends
    <2>2. CASE k.row = i
      <3>1. rows'[i] = [rows[i] EXCEPT !.attempts = IF rows[i].st = "deleted" THEN @ ELSE @ + 1]
        BY <1>1, <1>12, <2>2 DEF Count
      <3>2. /\ rows'[i].st = rows[i].st /\ rows'[i].guesses = rows[i].guesses
            /\ rows[i].st = "open" => rows'[i].attempts = rows[i].attempts + 1
        BY <1>1, <3>1 DEF Row
      <3> QED BY <2>1, <2>2, <3>2 DEF Counted, IsBusy, IsCounting
    <2>3. CASE k.row # i
      <3>1. rows'[i] = rows[i]
        BY <1>1, <1>12, <2>3 DEF Count
      <3> QED BY <1>2, <2>1, <2>3, <3>1
    <2> QED BY <2>2, <2>3
  <1>13. CASE Consume(c)
    <2>1. q.pc \notin {"count", "readUser"} /\ k.pc # "count" /\ rows' = rows
      BY <1>13, CompleteShape DEF Ends, Consume
    <2> QED BY <1>2, <2>1
  <1>14. CASE Complete(c)
    <2>1. q.pc \notin {"count", "readUser"} /\ k.pc # "count"
      BY <1>14, CompleteShape
    <2>2. rows'[i] = rows[i]
      BY <1>1, <1>14 DEF Complete, Row
    <2> QED BY <1>2, <2>1, <2>2
  <1> QED BY <1>3, <1>4, <1>5, <1>6, <1>7, <1>8, <1>9, <1>10, <1>11, <1>12, <1>13, <1>14 DEF Step

\* A set that may gain or lose one element.
LEMMA OneElement ==
    ASSUME NEW S, IsFiniteSet(S), NEW T, NEW x, T \ {x} = S \ {x}
    PROVE  /\ IsFiniteSet(T) /\ Cardinality(T) \in Nat /\ Cardinality(S) \in Nat
           /\ (x \in T <=> x \in S) => Cardinality(T) = Cardinality(S)
           /\ x \in T /\ x \notin S => Cardinality(T) = Cardinality(S) + 1
           /\ x \notin T /\ x \in S => Cardinality(T) = Cardinality(S) - 1
  <1>1. CASE x \in T /\ x \notin S
    <2>1. T = S \cup {x}
      BY <1>1
    <2> QED BY <1>1, <2>1, FS_AddElement, FS_CardinalityType
  <1>2. CASE x \notin T /\ x \in S
    <2>1. T = S \ {x}
      BY <1>2
    <2> QED BY <1>2, <2>1, FS_RemoveElement, FS_CardinalityType
  <1>3. CASE x \in T <=> x \in S
    <2>1. T = S
      BY <1>3
    <2> QED BY <1>3, <2>1, FS_CardinalityType
  <1> QED BY <1>1, <1>2, <1>3

LEMMA GuessStep ==
    TypeInv /\ GuessInv /\ [Next]_vars => GuessInv'
  <1> SUFFICES ASSUME TypeInv, GuessInv, [Next]_vars PROVE GuessInv'
    OBVIOUS
  <1>1. ASSUME NEW c \in Calls, Step(c), NEW i \in Ids, rows'[i].st = "open"
        PROVE  /\ rows'[i].guesses = rows'[i].attempts + Cardinality(Counting(i)')
               /\ rows'[i].attempts + Cardinality(Busy(i)') <= MaxAttempts + Cardinality(Calls) - 1
    <2> DEFINE k == call[c]
               q == call'[c]
    <2>1. \A d \in Calls \ {c} : Alike(call[d], call'[d])
      BY <1>1, Elsewhere
    <2>2. PICK before : before = Counting(i)
      OBVIOUS
    <2>3. PICK after : after = Counting(i)'
      OBVIOUS
    <2>4. PICK busy : busy = Busy(i)
      OBVIOUS
    <2>5. PICK busier : busier = Busy(i)'
      OBVIOUS
    <2>6. /\ after \ {c} = before \ {c} /\ busier \ {c} = busy \ {c}
          /\ c \in before <=> IsCounting(k, i)
          /\ c \in after <=> IsCounting(q, i)
          /\ c \in busy <=> IsBusy(k, i)
          /\ c \in busier <=> IsBusy(q, i)
          /\ before \subseteq Calls /\ busy \subseteq Calls /\ busier \subseteq Calls
      BY <2>1, <2>2, <2>3, <2>4, <2>5 DEF Alike, Counting, Busy, IsCounting, IsBusy
    <2>7. /\ IsFiniteSet(before) /\ IsFiniteSet(busy) /\ IsFiniteSet(busier)
          /\ Cardinality(busier) <= Cardinality(Calls)
          /\ Cardinality(Calls) \in Nat
      BY <2>6, SignInAssumption, FS_Subset, FS_CardinalityType
    <2>8. /\ Cardinality(after) \in Nat /\ Cardinality(before) \in Nat
          /\ (IsCounting(k, i) <=> IsCounting(q, i)) => Cardinality(after) = Cardinality(before)
          /\ ~IsCounting(k, i) /\ IsCounting(q, i) => Cardinality(after) = Cardinality(before) + 1
          /\ IsCounting(k, i) /\ ~IsCounting(q, i) => Cardinality(after) = Cardinality(before) - 1
      BY <2>6, <2>7, OneElement
    <2>9. /\ Cardinality(busier) \in Nat /\ Cardinality(busy) \in Nat
          /\ (IsBusy(k, i) <=> IsBusy(q, i)) => Cardinality(busier) = Cardinality(busy)
          /\ IsBusy(k, i) /\ ~IsBusy(q, i) => Cardinality(busier) = Cardinality(busy) - 1
      BY <2>6, <2>7, OneElement
    <2>10. /\ IsCounting(k, i) => IsBusy(k, i)
           /\ IsCounting(q, i) => IsBusy(q, i)
      BY DEF IsCounting, IsBusy
    <2>11. rows[i].attempts \in Nat /\ rows[i].guesses \in Nat /\ MaxAttempts \in Nat
      BY SignInAssumption DEF TypeInv, TypeOK, Row
    <2>12. rows[i].st = "open" =>
             /\ rows[i].guesses = rows[i].attempts + Cardinality(before)
             /\ rows[i].attempts + Cardinality(busy) <= MaxAttempts + Cardinality(Calls) - 1
      BY <2>2, <2>4 DEF GuessInv
    <2>13. /\ rows'[i].guesses = rows'[i].attempts + Cardinality(after)
           /\ rows'[i].attempts + Cardinality(busier) <= MaxAttempts + Cardinality(Calls) - 1
      <3>1. CASE Untouched(k, q, i)
        <4>1. Cardinality(after) = Cardinality(before)
          BY <2>8, <3>1 DEF Untouched
        <4>2. Cardinality(busier) <= Cardinality(busy)
          BY <2>9, <3>1 DEF Untouched
        <4>3. /\ rows[i].st = "open" /\ rows'[i].attempts = rows[i].attempts
              /\ rows'[i].guesses = rows[i].guesses
          BY <3>1 DEF Untouched
        <4> HIDE DEF k, q
        <4> QED BY <2>7, <2>9, <2>11, <2>12, <4>1, <4>2, <4>3
      <3>2. CASE Opened(k, q, i)
        <4>1. \A d \in Calls : ~IsBusy(call[d], i)
          BY <3>2 DEF Opened, IsBusy, TypeInv, Fits, OnRow
        <4>2. busier = {} /\ after = {}
          BY <2>6, <2>10, <3>2, <4>1, <2>2, <2>4 DEF Opened, Busy, Counting, IsBusy, IsCounting
        <4>3. Cardinality(Calls) # 0
          BY SignInAssumption, FS_EmptySet
        <4> QED BY <2>7, <2>11, <3>2, <4>2, <4>3, FS_EmptySet DEF Opened
      <3>3. CASE Tested(k, q, i)
        BY <2>7, <2>8, <2>9, <2>10, <2>11, <2>12, <3>3 DEF Tested
      <3>4. CASE Failed(k, q, i)
        BY <2>8, <2>9, <2>10, <2>11, <2>12, <3>4 DEF Failed
      <3>5. CASE Counted(k, q, i)
        BY <2>8, <2>9, <2>10, <2>11, <2>12, <3>5 DEF Counted
      <3> QED BY <1>1, <3>1, <3>2, <3>3, <3>4, <3>5, GuessShape
    <2> QED BY <2>3, <2>5, <2>13
  <1>2. CASE \E c \in Calls : Step(c)
    BY <1>1, <1>2 DEF GuessInv
  <1>3. CASE \E i \in Ids : Expire(i)
    <2>1. PICK i \in Ids : Expire(i)
      BY <1>3
    <2>2. \A j \in Ids : /\ rows'[j].st = rows[j].st /\ rows'[j].guesses = rows[j].guesses
                         /\ rows'[j].attempts = rows[j].attempts
      BY <2>1 DEF Expire, TypeInv, TypeOK, Row
    <2>3. \A j \in Ids : Counting(j)' = Counting(j) /\ Busy(j)' = Busy(j)
      BY <2>1 DEF Expire, Counting, Busy
    <2> QED BY <2>2, <2>3 DEF GuessInv
  <1>4. CASE Others \/ UNCHANGED vars
    <2>1. UNCHANGED << rows, call >>
      BY <1>4 DEF Others, vars
    <2> QED BY <2>1 DEF GuessInv, Counting, Busy
  <1> QED BY <1>2, <1>3, <1>4 DEF Next

(***************************************************************************)
(* No wrong MFA answer escapes the count, and with n requests at once at   *)
(* most n - 1 wrong answers are tested beyond the limit of a session       *)
(* (validateSession looks at the attempts before, incrementAttempts        *)
(* counts them after the test).                                            *)
(***************************************************************************)
THEOREM WrongAnswersAreCounted == Spec => []GuessesAreCounted
  <1>1. Init => GuessInv
    <2> SUFFICES ASSUME Init PROVE GuessInv
      OBVIOUS
    <2> QED BY DEF Init, GuessInv, NoRow
  <1>2. TypeInv /\ GuessInv => GuessesAreCounted
    <2> SUFFICES ASSUME TypeInv, GuessInv, NEW i \in Ids, rows[i].st = "open"
                 PROVE  /\ rows[i].guesses = rows[i].attempts + Cardinality(Counting(i))
                        /\ rows[i].guesses <= MaxAttempts + Cardinality(Calls) - 1
      BY DEF GuessesAreCounted
    <2>1. Counting(i) \subseteq Busy(i) /\ Busy(i) \subseteq Calls
      BY DEF Counting, Busy, IsBusy
    <2>2. /\ Cardinality(Counting(i)) <= Cardinality(Busy(i))
          /\ Cardinality(Counting(i)) \in Nat /\ Cardinality(Busy(i)) \in Nat
          /\ Cardinality(Calls) \in Nat
      BY <2>1, SignInAssumption, FS_Subset, FS_CardinalityType
    <2>3. rows[i].attempts \in Nat
      BY DEF TypeInv, TypeOK, Row
    <2> QED BY <2>2, <2>3, SignInAssumption DEF GuessInv
  <1> QED BY <1>1, <1>2, TypeInvariant, GuessStep, PTL DEF Spec

-----------------------------------------------------------------------------
(* Factors that are owed. *)

\* A way of signing in that is no more lenient than all of those in S.
OriginOK(o, S) ==
    /\ o.social => \E p \in S : p.social
    /\ o.signup => \E p \in S : p.signup

\* What a running request has always owed it owes now, and by the user it has read.
FactorFits(k, N, f, u, b) ==
    /\ k.pc = "done" => k.out # "none"
    /\ k.pc \notin {"idle", "done"} =>
         /\ OriginOK(k.origin, k.kin)
         /\ N \subseteq OwedBy(f, u, b, k)
         /\ N \subseteq OwedBy(f, k.snap, TRUE, k)
    /\ k.out = "tokens" => N \subseteq Passes(k) \cup Excused(f, k.kin)

FactorInv ==
    /\ \A c \in Calls : FactorFits(call[c], needed[c], cfg, user, blocked)
    /\ \A i \in Ids : OriginOK(rows[i].origin, rows[i].kin)

\* A sign-in that ends with tokens meets none of the conditions of a challenge.
LEMMA TokensOweNothing ==
    ASSUME NEW u, NEW f, NEW x, Outcome(EvaluateState(u, f, x)) = "tokens"
    PROVE  /\ ~u.mustChange
           /\ ~EmailVerificationRequired(u, f, x)
           /\ ~PhoneCollectionNeeded(u, f)
           /\ ~PhoneVerificationRequired(u, f)
           /\ ~MFASetupRequired(u, f, x)
           /\ ~MFAVerificationRequired(u, f, x)
           /\ ~Blocked(u, f, x)
  <1> DEFINE P(i) == Matches(Priorities[i], u, f, x)
             First(i) == P(i) /\ \A j \in 1 .. i - 1 : ~P(j)
             first == CHOOSE i \in 1 .. 9 : First(i)
  <1>1. P(9)
    BY DEF Matches, Priorities
  <1> HIDE DEF P
  <1>2. \E i \in 1 .. 9 : First(i)
    <2>1. First(1) \/ First(2) \/ First(3) \/ First(4) \/ First(5) \/ First(6) \/ First(7)
            \/ First(8) \/ First(9)
      BY <1>1
    <2> QED BY <2>1
  <1>3. first \in 1 .. 9 /\ First(first)
    BY <1>2
  <1>4. EvaluateState(u, f, x) = Priorities[first]
    BY DEF EvaluateState, P
  <1>5. first \in {7, 9}
    <2>1. Outcome(Priorities[first]) = "tokens"
      BY <1>4
    <2> HIDE DEF first
    <2> QED BY <1>3, <2>1 DEF Outcome, Priorities
  <1>6. /\ ~P(1) /\ ~P(2) /\ ~P(3) /\ ~P(4) /\ ~P(5) /\ ~P(6)
        /\ P(7) \/ ~P(8)
    <2> HIDE DEF first
    <2> QED BY <1>3, <1>5
  <1>7. /\ P(1) = u.mustChange
        /\ P(2) = EmailVerificationRequired(u, f, x)
        /\ P(3) = PhoneCollectionNeeded(u, f)
        /\ P(4) = PhoneVerificationRequired(u, f)
        /\ P(5) = MFASetupRequired(u, f, x)
        /\ P(6) = MFAVerificationRequired(u, f, x)
        /\ P(7) => ~Blocked(u, f, x)
        /\ P(8) = Blocked(u, f, x)
    BY DEF P, Matches, Priorities
  <1> QED BY <1>6, <1>7

\* The decision on a user lets a request through only if it has passed what it owes by
\* that user and by the block.
LEMMA TokensOnlyAfterAll ==
    ASSUME NEW u \in User, NEW f, NEW k, NEW risk, NEW N,
           OriginOK(k.origin, k.kin),
           N \subseteq OwedBy(f, u, TRUE, k),
           N \subseteq OwedBy(f, user, blocked, k) \/ N \subseteq OwedBy(f, u, blocked, k),
           Outcome(EvaluateState(u, f, Context(k, risk))) = "tokens"
    PROVE  N \subseteq Passes(k) \cup Excused(f, k.kin)
  <1> DEFINE x == Context(k, risk)
  <1>1. /\ ~u.mustChange
        /\ ~EmailVerificationRequired(u, f, x)
        /\ ~PhoneCollectionNeeded(u, f)
        /\ ~PhoneVerificationRequired(u, f)
        /\ ~MFASetupRequired(u, f, x)
        /\ ~MFAVerificationRequired(u, f, x)
        /\ ~Blocked(u, f, x)
    BY TokensOweNothing
  <1>2. /\ x.social = k.origin.social /\ x.signup = k.origin.signup
        /\ x.trusted = k.trusted /\ x.skipMFA = MFADone(k)
        /\ x.risk = risk /\ x.blocked = blocked
    BY DEF Context
  <1> HIDE DEF x
  <1> SUFFICES ASSUME NEW ch \in N, ch \notin Excused(f, k.kin) PROVE ch \in Passes(k)
    OBVIOUS
  <1>3. ch \in Owed(f, u, TRUE, k.own, k.trusted)
    BY DEF OwedBy
  <1>4. ch \in Challenges \cup {"BLOCKED"}
    BY <1>3 DEF Owed
  <1>5. /\ ch = "VERIFY_EMAIL" => ~x.social
        /\ ch \in {"MFA_REQUIRED", "MFA_SETUP_REQUIRED"} => (x.social => f.mfaForSocial)
        /\ ch = "MFA_SETUP_REQUIRED" => (x.signup => ~f.skipForSignup)
    BY <1>2 DEF Excused, OriginOK, Challenges
  <1>6. CASE ch = "BLOCKED"
    <2>1. blocked
      BY <1>6 DEF OwedBy, Owed
    <2> QED BY <1>1, <1>2, <2>1 DEF Blocked
  <1>7. CASE ch = "FORCE_CHANGE_PASSWORD"
    <2>1. u.mustChange
      BY <1>3, <1>7 DEF Owed
    <2> QED BY <1>1, <2>1
  <1>8. CASE ch = "VERIFY_EMAIL"
    <2>1. f.method \in {"email", "both"} /\ ~u.email
      BY <1>3, <1>8 DEF Owed
    <2> QED BY <1>1, <1>5, <1>8, <2>1 DEF EmailVerificationRequired
  <1>9. CASE ch = "VERIFY_PHONE"
    <2>1. f.method \in {"phone", "both"} /\ u.phone # "verified"
      BY <1>3, <1>9 DEF Owed
    <2>2. u.phone \in {"none", "unverified", "verified"}
      BY DEF User
    <2> QED BY <1>1, <2>1, <2>2 DEF PhoneCollectionNeeded, PhoneVerificationRequired
  <1>10. CASE ch = "MFA_SETUP_REQUIRED"
    <2>1. /\ f.mfa /\ ~u.exempt /\ ~u.mfa
          /\ f.enforcement # "OPTIONAL"
          /\ ~(f.grace /\ u.inGrace)
      BY <1>3, <1>10 DEF Owed
    <2> QED BY <1>1, <1>5, <1>10, <2>1 DEF MFASetupRequired, SocialExempt, GracePeriodActive
  <1>11. CASE ch = "MFA_REQUIRED"
    <2>1. /\ f.mfa /\ ~u.exempt /\ u.mfa
          /\ k.trusted => ~f.bypass /\ f.enforcement # "ADAPTIVE"
      BY <1>3, <1>11 DEF Owed
    <2>2. x.social => f.mfaForSocial
      BY <1>5, <1>11
    <2>3. CASE MFADone(k)
      BY <1>11, <2>3 DEF Passes
    <2>4. CASE ~MFADone(k)
      <3>1. MFAApplies(u, f, x)
        BY <1>2, <2>1, <2>2, <2>4 DEF MFAApplies, SocialExempt
      <3>2. ~x.blocked /\ ~(f.enforcement = "ADAPTIVE" /\ x.risk = "block_signin")
        BY <1>1, <3>1 DEF Blocked, BlockedByRisk
      <3>3. MFAVerificationRequired(u, f, x)
        BY <1>2, <2>1, <3>1, <3>2 DEF MFAVerificationRequired, DeviceTrusted
      <3> QED BY <1>1, <3>3
    <2> QED BY <2>3, <2>4
  <1> QED BY <1>4, <1>6, <1>7, <1>8, <1>9, <1>10, <1>11 DEF Challenges

\* What a request owes grows with the block and with a password that must be changed.
LEMMA OwedMore ==
    ASSUME NEW f, NEW u \in User, NEW b, NEW k
    PROVE  /\ OwedBy(f, u, b, k) \subseteq OwedBy(f, u, TRUE, k)
           /\ OwedBy(f, u, b, k) \subseteq OwedBy(f, [u EXCEPT !.mustChange = TRUE], b, k)
  <1> DEFINE v == [u EXCEPT !.mustChange = TRUE]
  <1>1. /\ v.mustChange /\ v.email = u.email /\ v.phone = u.phone /\ v.exempt = u.exempt
        /\ v.mfa = u.mfa /\ v.inGrace = u.inGrace
    BY DEF User
  <1> HIDE DEF v
  <1>2. \A o, t : /\ Owed(f, u, b, o, t) \subseteq Owed(f, u, TRUE, o, t)
                  /\ Owed(f, u, b, o, t) \subseteq Owed(f, v, b, o, t)
    BY <1>1 DEF Owed
  <1>3. /\ OwedBy(f, u, b, k) \subseteq OwedBy(f, u, TRUE, k)
        /\ OwedBy(f, u, b, k) \subseteq OwedBy(f, v, b, k)
    BY <1>2 DEF OwedBy
  <1> QED BY <1>3 DEF v

\* A running request that keeps running.
LEMMA StillFits ==
    ASSUME TypeInv, FactorInv, Remember, cfg' = cfg, NEW d \in Calls,
           call[d].pc \notin {"idle", "done"}, call'[d].pc \notin {"idle", "done"},
           call'[d].origin = call[d].origin, call'[d].own = call[d].own, call'[d].kin = call[d].kin,
           call'[d].trusted = call[d].trusted, call'[d].out = call[d].out,
           call'[d].snap \in {call[d].snap, user, [call[d].snap EXCEPT !.mustChange = TRUE]}
    PROVE  FactorFits(call'[d], needed'[d], cfg', user', blocked')
  <1> DEFINE k == call[d]
             q == call'[d]
             N == needed[d]
  <1>1. /\ k.out = "none" /\ k.snap \in User /\ user \in User
        /\ OriginOK(k.origin, k.kin)
        /\ N \subseteq OwedBy(cfg, user, blocked, k)
        /\ N \subseteq OwedBy(cfg, k.snap, TRUE, k)
    BY DEF TypeInv, TypeOK, Fits, FactorInv, FactorFits, Call
  <1>2. needed'[d] = N \cap OwedBy(cfg, user', blocked', q)
    BY <1>1 DEF Remember
  <1>3. N \subseteq OwedBy(cfg, q.snap, TRUE, k)
    BY <1>1, OwedMore
  <1>4. N \subseteq OwedBy(cfg, q.snap, TRUE, q)
    BY <1>3 DEF OwedBy
  <1>5. needed'[d] \subseteq OwedBy(cfg', user', blocked', q)
    BY <1>2
  <1> HIDE DEF N
  <1> QED BY <1>1, <1>2, <1>4, <1>5 DEF FactorFits

\* A request that the step does not touch.
LEMMA OtherFits ==
    ASSUME TypeInv, FactorInv, Remember, cfg' = cfg, NEW d \in Calls, Alike(call[d], call'[d])
    PROVE  FactorFits(call'[d], needed'[d], cfg', user', blocked')
  <1> DEFINE k == call[d]
             q == call'[d]
  <1>1. CASE k.pc \notin {"idle", "done"}
    BY <1>1, StillFits DEF Alike
  <1>2. CASE k.pc \in {"idle", "done"}
    <2>1. /\ q.pc = k.pc /\ q.out = k.out /\ Passes(q) = Passes(k)
          /\ k.out # "none" => k.pc = "done"
          /\ k.out \in {"none", "tokens", "challenge", "rejected"}
          /\ k.pc = "done" => k.out # "none"
          /\ q.kin = k.kin
          /\ k.out = "tokens" => needed[d] \subseteq Passes(k) \cup Excused(cfg, k.kin)
      BY DEF Alike, Passes, MFADone, TypeInv, TypeOK, Fits, FactorInv, FactorFits, Call
    <2>2. q.out = "tokens" => needed'[d] = needed[d]
      BY <1>2, <2>1 DEF Remember
    <2> QED BY <1>2, <2>1, <2>2 DEF FactorFits
  <1> QED BY <1>1, <1>2

\* A request that ends without tokens.
LEMMA EndFits ==
    ASSUME NEW d \in Calls, NEW k, Ends(k, call'[d], {"challenge", "rejected"})
    PROVE  FactorFits(call'[d], needed'[d], cfg', user', blocked')
  BY DEF Ends, FactorFits

\* A request that starts with the user as stored.
LEMMA StartFits ==
    ASSUME TypeInv, Remember, cfg' = cfg, user' = user, blocked' = blocked, NEW d \in Calls,
           call[d].pc \in {"idle", "done"}, call'[d].pc \notin {"idle", "done"},
           call'[d].out = "none", call'[d].snap = user,
           OriginOK(call'[d].origin, call'[d].kin)
    PROVE  FactorFits(call'[d], needed'[d], cfg', user', blocked')
  <1>1. needed'[d] = OwedBy(cfg, user', blocked', call'[d])
    BY DEF Remember
  <1>2. user \in User
    BY DEF TypeInv, TypeOK
  <1>3. needed'[d] \subseteq OwedBy(cfg, user, TRUE, call'[d])
    <2>1. needed'[d] = OwedBy(cfg, user, blocked, call'[d])
      BY <1>1 DEF OwedBy
    <2> QED BY <1>2, <2>1, OwedMore
  <1> QED BY <1>1, <1>3 DEF FactorFits

\* The sessions keep nothing more lenient than the sign-ins they were handed to.
LEMMA OriginStep ==
    ASSUME TypeInv, FactorInv, NEW c \in Calls, Step(c), NEW i \in Ids
    PROVE  OriginOK(rows'[i].origin, rows'[i].kin)
  <1> DEFINE k == call[c]
  <1>1. /\ rows[i] \in Row /\ rows \in [Ids -> Row] /\ OriginOK(rows[i].origin, rows[i].kin)
        /\ k.pc \notin {"idle", "done"} => OriginOK(k.origin, k.kin)
    BY DEF TypeInv, TypeOK, FactorInv, FactorFits
  <1>2. CASE rows'[i].origin = rows[i].origin /\ rows[i].kin \subseteq rows'[i].kin
    BY <1>1, <1>2 DEF OriginOK
  <1>3. CASE UNCHANGED rows
    BY <1>2, <1>3
  <1>4. CASE FindOpen(c)
    <2>1. ASSUME NEW j, rows' = [rows EXCEPT ![j].owners = @ \cup {k.own}, ![j].kin = @ \cup k.kin]
          PROVE  rows'[i].origin = rows[i].origin /\ rows[i].kin \subseteq rows'[i].kin
      BY <1>1, <2>1 DEF Row
    <2> QED BY <1>2, <1>3, <1>4, <2>1 DEF FindOpen
  <1>5. CASE Insert(c)
    <2>1. k.pc = "insert"
      BY <1>5 DEF Insert
    <2>2. PICK j \in Ids : rows' = [rows EXCEPT ![j] = [NoRow EXCEPT !.st = "open", !.name = k.name,
                                                         !.origin = Kept(k.name, k.origin),
                                                         !.owners = {k.own}, !.kin = k.kin]]
      BY <1>5 DEF Insert
    <2>3. CASE i = j
      <3>1. rows'[i] = [NoRow EXCEPT !.st = "open", !.name = k.name,
                                                         !.origin = Kept(k.name, k.origin),
                                                         !.owners = {k.own}, !.kin = k.kin]
        BY <1>1, <2>2, <2>3
      <3>2. rows'[i].origin = Kept(k.name, k.origin) /\ rows'[i].kin = k.kin
        BY <3>1 DEF NoRow
      <3>3. k.origin \in Origins
        BY DEF TypeInv, TypeOK, Call
      <3> QED BY <1>1, <2>1, <3>2, <3>3 DEF Kept, Password, OriginOK, Origins
    <2>4. CASE i # j
      BY <1>1, <2>2, <2>4
    <2> QED BY <2>3, <2>4
  <1>6. CASE Replace(c)
    BY <1>1, <1>2, <1>6 DEF Replace, Row
  <1>7. CASE Tidy(c)
    BY <1>1, <1>2, <1>7 DEF Tidy, Tidied, Row
  <1>8. CASE Respond(c) \/ ReadUser(c)
    <2>1. ASSUME NEW j, rows' = [rows EXCEPT ![j].guesses = @ + 1]
          PROVE  rows'[i].origin = rows[i].origin /\ rows[i].kin \subseteq rows'[i].kin
      BY <1>1, <2>1 DEF Row
    <2> QED BY <1>2, <1>3, <1>8, <2>1, AnswerShape
  <1>9. CASE Count(c) \/ Complete(c)
    BY <1>1, <1>2, <1>9 DEF Count, Complete, Row
  <1>10. CASE \/ Login(c) \/ PasswordExpired(c) \/ Decide(c) \/ Send(c) \/ UseCode(c)
             \/ SetPhone(c) \/ SaveUser(c) \/ Consume(c)
    BY <1>3, <1>10 DEF Login, PasswordExpired, Decide, Send, UseCode, SetPhone, SaveUser, Consume
  <1> QED BY <1>4, <1>5, <1>6, <1>7, <1>8, <1>9, <1>10 DEF Step

LEMMA OwnFits ==
    ASSUME TypeInv, FactorInv, Remember, NEW c \in Calls, Step(c)
    PROVE  FactorFits(call'[c], needed'[c], cfg', user', blocked')
  <1> DEFINE k == call[c]
             q == call'[c]
  <1>1. cfg' = cfg
    BY StepType DEF WellTyped
  <1>2. CASE Login(c)
    <2>1. user' = user /\ blocked' = blocked
      BY <1>2 DEF Login
    <2>2. OriginOK(q.origin, q.kin)
      BY <1>2, LoginShape DEF OriginOK
    <2> QED BY <1>1, <1>2, <2>1, <2>2, LoginShape, StartFits
  <1>3. CASE PasswordExpired(c)
    BY <1>1, <1>3, LoginShape, StillFits DEF Lasting
  <1>4. CASE Decide(c)
    <2>1. k.pc = "decide"
      BY <1>4, LoginShape
    <2>2. CASE /\ Lasting(k, q) /\ q.pc = "find" /\ q.snap = Judged(k)
      BY <1>1, <2>1, <2>2, StillFits DEF Lasting, Judged
    <2>3. CASE Ends(k, q, {"tokens", "rejected"})
      <3>1. CASE q.out = "rejected"
        BY <2>3, <3>1 DEF Ends, FactorFits
      <3>2. CASE q.out = "tokens"
        <4>1. PICK risk : call' = [call EXCEPT ![c] =
                 IF Outcome(EvaluateState(Judged(k), cfg, Context(k, risk))) = "challenge"
                 THEN [@ EXCEPT !.pc = "find",
                           !.name = ChallengeOf(EvaluateState(Judged(k), cfg, Context(k, risk))),
                                     !.snap = Judged(k), !.row = 0, !.answer = "none"]
                 ELSE Ended(@, Outcome(EvaluateState(Judged(k), cfg, Context(k, risk))))]
          BY <1>4 DEF Decide
        <4> DEFINE out == Outcome(EvaluateState(Judged(k), cfg, Context(k, risk)))
        <4>2. k \in Call
          BY DEF TypeInv, TypeOK
        <4>3. out \in {"challenge", "tokens", "rejected"}
          BY DEF Outcome
        <4>4. out # "challenge"
          <5>1. ASSUME out = "challenge" PROVE q.pc = "find"
            <6>1. q = [k EXCEPT !.pc = "find",
                           !.name = ChallengeOf(EvaluateState(Judged(k), cfg, Context(k, risk))),
                                     !.snap = Judged(k), !.row = 0, !.answer = "none"]
              BY <4>1, <5>1 DEF TypeInv, TypeOK
            <6> QED BY <4>2, <6>1 DEF Call
          <5> QED BY <2>3, <5>1 DEF Ends
        <4>5. call' = [call EXCEPT ![c] = Ended(@, out)]
          BY <4>1, <4>4
        <4>6. q.out = out
          <5>1. Ends(k, q, {out})
            BY <4>3, <4>5, EndsShape
          <5> QED BY <5>1 DEF Ends
        <4>7. /\ k.snap \in User /\ user \in User /\ Judged(k) \in {k.snap, user}
              /\ OriginOK(k.origin, k.kin)
              /\ needed[c] \subseteq OwedBy(cfg, user, blocked, k)
              /\ needed[c] \subseteq OwedBy(cfg, k.snap, TRUE, k)
          BY <2>1, <4>2 DEF TypeInv, TypeOK, FactorInv, FactorFits, Judged, Call
        <4>8. needed[c] \subseteq OwedBy(cfg, Judged(k), TRUE, k)
          BY <4>7, OwedMore
        <4>9. needed[c] \subseteq Passes(k) \cup Excused(cfg, k.kin)
          BY <3>2, <4>6, <4>7, <4>8, TokensOnlyAfterAll
        <4>10. needed'[c] = needed[c]
          BY <3>2 DEF Remember
        <4>11. Passes(q) = Passes(k) /\ q.kin = k.kin
          BY <2>3, <3>2 DEF Ends, Passes, MFADone
        <4> QED BY <1>1, <2>3, <4>9, <4>10, <4>11 DEF Ends, FactorFits
      <3> QED BY <2>3, <3>1, <3>2 DEF Ends
    <2> QED BY <1>4, <2>2, <2>3, LoginShape
  <1>5. ASSUME k.pc \notin {"idle", "done"}, q.pc \notin {"idle", "done"}, Lasting(k, q),
               q.snap \in {k.snap, user}
        PROVE  FactorFits(call'[c], needed'[c], cfg', user', blocked')
    BY <1>1, <1>5, StillFits DEF Lasting
  <1>6. ASSUME Ends(k, q, {"challenge", "rejected"})
        PROVE  FactorFits(call'[c], needed'[c], cfg', user', blocked')
    BY <1>6, EndFits
  <1>7. CASE FindOpen(c) \/ Replace(c) \/ Tidy(c) \/ Insert(c) \/ Send(c)
    BY <1>5, <1>6, <1>7, CreateShape DEF GoesOn, Ends
  <1>8. CASE Respond(c)
    <2>1. user' = user /\ blocked' = blocked /\ k.pc \in {"idle", "done"}
      BY <1>8 DEF Respond, Free
    <2>2. ASSUME NEW i \in Ids, NEW trusted \in BOOLEAN, NEW own \in rows[i].owners,
                 NEW a \in AnswersTo(rows[i].name), q = Started(i, own, a, trusted)
          PROVE  FactorFits(call'[c], needed'[c], cfg', user', blocked')
      <3>1. q.pc \notin {"idle", "done"}
        BY <2>2, StartedType
      <3>2. q.out = "none" /\ q.snap = user /\ q.kin = rows[i].kin
            /\ q.origin = Recalled(rows[i])
        BY <2>2 DEF Started
      <3>3. OriginOK(q.origin, q.kin)
        <4>1. rows[i].origin \in Origins /\ OriginOK(rows[i].origin, rows[i].kin)
          BY DEF TypeInv, TypeOK, Row, FactorInv
        <4> QED BY <3>2, <4>1 DEF Recalled, Password, OriginOK, Origins
      <3> QED BY <1>1, <2>1, <2>2, <3>1, <3>2, <3>3, StartFits
    <2>3. CASE Ends(k, q, {"rejected"})
      BY <1>6, <2>3 DEF Ends
    <2> QED BY <1>8, <2>2, <2>3, AnswerShape
  <1>9. CASE UseCode(c) \/ SetPhone(c) \/ ReadUser(c) \/ SaveUser(c)
    BY <1>5, <1>6, <1>9, AnswerShape DEF GoesOn, Ends
  <1>10. CASE Count(c) \/ Consume(c) \/ Complete(c)
    BY <1>5, <1>6, <1>10, CompleteShape DEF GoesOn, Ends
  <1> QED BY <1>2, <1>3, <1>4, <1>7, <1>8, <1>9, <1>10 DEF Step

LEMMA FactorStep ==
    TypeInv /\ FactorInv /\ [Next]_vars => FactorInv'
  <1> SUFFICES ASSUME TypeInv, FactorInv, [Next]_vars PROVE FactorInv'
    OBVIOUS
  <1>1. ASSUME NEW c \in Calls, Step(c), Remember PROVE FactorInv'
    <2>1. cfg' = cfg
      BY <1>1, StepType DEF WellTyped
    <2>2. ASSUME NEW d \in Calls
          PROVE  FactorFits(call'[d], needed'[d], cfg', user', blocked')
      <3>1. CASE d = c
        BY <1>1, <3>1, OwnFits
      <3>2. CASE d # c
        BY <1>1, <2>1, <3>2, Elsewhere, OtherFits
      <3> QED BY <3>1, <3>2
    <2> QED BY <1>1, <2>2, OriginStep DEF FactorInv
  <1>2. ASSUME (\E i \in Ids : Expire(i)) \/ Others, Remember PROVE FactorInv'
    <2>1. cfg' = cfg /\ call' = call
      BY <1>2 DEF Expire, Others
    <2>2. \A d \in Calls : FactorFits(call'[d], needed'[d], cfg', user', blocked')
      BY <1>2, <2>1, OtherFits DEF Alike
    <2>3. \A i \in Ids : rows'[i].origin = rows[i].origin /\ rows'[i].kin = rows[i].kin
      BY <1>2 DEF Expire, Others, TypeInv, TypeOK, Row
    <2> QED BY <2>2, <2>3 DEF FactorInv
  <1>3. CASE UNCHANGED vars
    BY <1>3 DEF vars, hist, FactorInv
  <1> QED BY <1>1, <1>2, <1>3 DEF Next

(***************************************************************************)
(* Whoever gets tokens has, in that request, passed each challenge that    *)
(* its own sign-in owed in every state since the request arrived, whatever *)
(* other logins, answers and administrators did meanwhile                  *)
(* (determineAuthResponse judges a user that may be stale), but for what   *)
(* Excused names: the way of signing in comes from the metadata of a       *)
(* session shared by several logins, so that one handed a session of a     *)
(* social sign-in may get by without the proof of its address and without  *)
(* MFA, one handed a session of the sign-up without the MFA setup.         *)
(***************************************************************************)
THEOREM FactorsAreProven == Spec => []EveryFactorProven
  <1>1. Init => FactorInv
    <2> SUFFICES ASSUME Init PROVE FactorInv
      OBVIOUS
    <2> QED BY DEF Init, FactorInv, FactorFits, OriginOK, NoRow, Password, Idle
  <1>2. FactorInv => EveryFactorProven
    BY DEF FactorInv, FactorFits, EveryFactorProven
  <1> QED BY <1>1, <1>2, TypeInvariant, FactorStep, PTL DEF Spec
=============================================================================
