--------------------------- MODULE Recovery_proofs ---------------------------
(***************************************************************************)
(* Theorems about Recovery, for every value of its constants.              *)
(***************************************************************************)
EXTENDS Recovery, TLAPS

(* Type correctness. *)

Counters == {"failed", "resets"}

\* What a request knows where it is: a code's row, a counter, or a password that has
\* been set.
Fits(k, newest) ==
    /\ k.pc \in {"tried", "spend"} => k.row \in Rows
    /\ k.pc \in {"incr", "incrFound", "incrExpire", "incrInsert", "counted"} => k.key \in Counters
    /\ k.pc \in {"unlock", "open"} => k.snap.pw \in 1 .. newest

TypeInv ==
    /\ TypeOK
    /\ user.pw \in 1 .. latest
    /\ \A c \in Calls : Fits(call[c], latest)

LEMMA IdleType == Idle \in Call /\ \A n : Fits(Idle, n)
  BY DEF Idle, Call, NoUser, User, Fits

\* A request moved to a local state that fits.
LEMMA Moved ==
    ASSUME TypeInv, latest' = latest, NEW c \in Calls, NEW q \in Call, Fits(q, latest),
           call' = [call EXCEPT ![c] = q]
    PROVE  call' \in [Calls -> Call] /\ \A d \in Calls : Fits(call'[d], latest')
  BY DEF TypeInv, TypeOK

LEMMA WentOut ==
    ASSUME TypeInv, latest' = latest, NEW c \in Calls, End(c)
    PROVE  call' \in [Calls -> Call] /\ \A d \in Calls : Fits(call'[d], latest')
  BY Moved, IdleType DEF End

LEMMA WentOn ==
    ASSUME TypeInv, latest' = latest, NEW c \in Calls,
           NEW pc \in {"checkLock", "dropLock", "readUser", "clear", "setLock", "invalidate",
                       "issue", "load", "findAgain", "save", "revoke", "counted", "incrInsert",
                       "open"},
           GoTo(c, pc),
           pc \in {"counted", "incrInsert"} => call[c].key \in Counters,
           pc = "open" => call[c].snap.pw \in 1 .. latest
    PROVE  call' \in [Calls -> Call] /\ \A d \in Calls : Fits(call'[d], latest')
  <1> DEFINE q == [call[c] EXCEPT !.pc = pc]
  <1>1. call[c] \in Call
    BY DEF TypeInv, TypeOK
  <1>2. q \in Call /\ q.pc = pc /\ q.key = call[c].key /\ q.snap = call[c].snap
    BY <1>1 DEF Call
  <1>3. Fits(q, latest)
    BY <1>2 DEF Fits
  <1>4. call' = [call EXCEPT ![c] = q]
    BY DEF GoTo
  <1> HIDE DEF q
  <1> QED BY <1>2, <1>3, <1>4, Moved

\* What a step leaves behind.
WellTyped ==
    /\ cfg' = cfg
    /\ kv' \in [Keys -> Entry]
    /\ user' \in User
    /\ latest' \in Nat
    /\ codes' \in [Rows -> Code]
    /\ sessions' \subseteq 1 .. latest'
    /\ call' \in [Calls -> Call]
    /\ starts' \in Nat
    /\ events' \in Nat
    /\ past' \in Past
    /\ user'.pw \in 1 .. latest'
    /\ \A c \in Calls : Fits(call'[c], latest')

LEMMA AbsentType == Absent \in Entry
  BY DEF Absent, Entry

LEMMA RememberType ==
    ASSUME TypeInv, NEW R \in SUBSET Races, Remember(R)
    PROVE  past' \in Past
  BY DEF TypeInv, TypeOK, Remember, Past

LEMMA StartType ==
    ASSUME TypeInv, NEW c \in Calls, Login(c) \/ RequestReset(c) \/ Confirm(c)
    PROVE  WellTyped
  <1>1. ASSUME NEW kind \in Kinds, NEW pc \in {"checkLock", "readUser", "invalidate"},
               NEW admin \in BOOLEAN, NEW given \in Nat, NEW strong \in BOOLEAN,
               Start(c, kind, pc, admin, given, strong)
        PROVE  WellTyped
    <2>1. PICK q : q = [Idle EXCEPT !.pc = pc, !.kind = kind, !.admin = admin,
                                                !.given = given, !.strong = strong]
      OBVIOUS
    <2>2. q = [pc |-> pc, kind |-> kind, admin |-> admin, given |-> given, strong |-> strong,
               snap |-> NoUser, key |-> "none", fresh |-> FALSE, n |-> 0, row |-> 0]
      BY <2>1 DEF Idle
    <2>3. q \in Call
      BY <2>2 DEF Call, NoUser, User
    <2>4. Fits(q, latest)
      BY <2>2 DEF Fits
    <2>5. /\ call' = [call EXCEPT ![c] = q]
          /\ starts' = starts + 1
          /\ UNCHANGED << cfg, kv, user, latest, codes, sessions, events, past >>
      BY <1>1, <2>1 DEF Start
    <2>6. call' \in [Calls -> Call] /\ \A d \in Calls : Fits(call'[d], latest')
      BY <2>3, <2>4, <2>5, Moved
    <2> QED BY <2>5, <2>6 DEF WellTyped, TypeInv, TypeOK
  <1>2. CASE Login(c)
    <2>1. user.pw \in Nat
      BY DEF TypeInv, TypeOK, User
    <2> QED BY <1>1, <1>2, <2>1 DEF Login, Kinds
  <1>3. CASE RequestReset(c)
    BY <1>1, <1>3 DEF RequestReset, Kinds
  <1>4. CASE Confirm(c)
    <2>1. cfg.admin \in BOOLEAN /\ Rows \subseteq Nat
      BY DEF TypeInv, TypeOK, Scenario, Rows
    <2> QED BY <1>1, <1>4, <2>1 DEF Confirm, Kinds
  <1> QED BY <1>2, <1>3, <1>4

LEMMA LoginType ==
    ASSUME TypeInv, NEW c \in Calls,
           CheckLock(c) \/ DropLock(c) \/ ReadUser(c) \/ Unlock(c) \/ Open(c) \/ Clear(c)
    PROVE  WellTyped
  <1>1. call[c] \in Call /\ Fits(call[c], latest)
    BY DEF TypeInv, TypeOK
  <1>2. CASE CheckLock(c)
    <2>1. call' \in [Calls -> Call] /\ \A d \in Calls : Fits(call'[d], latest')
      BY <1>2, WentOut, WentOn DEF CheckLock
    <2> QED BY <1>2, <2>1 DEF CheckLock, WellTyped, TypeInv, TypeOK
  <1>3. CASE DropLock(c)
    <2>1. call' \in [Calls -> Call] /\ \A d \in Calls : Fits(call'[d], latest')
      BY <1>3, WentOn DEF DropLock
    <2>2. past' \in Past
      BY <1>3, RememberType DEF DropLock, Races
    <2> QED BY <1>3, <2>1, <2>2, AbsentType DEF DropLock, WellTyped, TypeInv, TypeOK
  <1>4. CASE ReadUser(c)
    <2>1. /\ latest' = latest
          /\ UNCHANGED << cfg, kv, user, latest, codes, sessions, starts, events >>
      BY <1>4 DEF ReadUser
    <2>2. user \in User /\ user.pw \in 1 .. latest /\ NoUser \in User
      BY DEF TypeInv, TypeOK, NoUser, User
    <2>3. ASSUME NEW pc \in {"unlock", "open", "find"},
                 call' = [call EXCEPT ![c] = [[call[c] EXCEPT !.snap = user] EXCEPT !.pc = pc]]
          PROVE  call' \in [Calls -> Call] /\ \A d \in Calls : Fits(call'[d], latest')
      <3>1. PICK q : q = [[call[c] EXCEPT !.snap = user] EXCEPT !.pc = pc]
        OBVIOUS
      <3>2. q \in Call /\ q.pc = pc /\ q.snap = user
        BY <1>1, <2>2, <3>1 DEF Call
      <3>3. Fits(q, latest)
        BY <2>2, <3>2 DEF Fits
      <3> QED BY <2>1, <2>3, <3>1, <3>2, <3>3, Moved
    <2>4. ASSUME NEW key \in Counters,
                 call' = [call EXCEPT ![c] = [@ EXCEPT !.pc = "incr", !.key = key]]
          PROVE  call' \in [Calls -> Call] /\ \A d \in Calls : Fits(call'[d], latest')
      <3>1. PICK q : q = [call[c] EXCEPT !.pc = "incr", !.key = key]
        OBVIOUS
      <3>2. q \in Call /\ q.pc = "incr" /\ q.key = key
        BY <1>1, <3>1 DEF Call, Counters, Keys
      <3>3. Fits(q, latest)
        BY <3>2 DEF Fits
      <3> QED BY <2>1, <2>4, <3>1, <3>2, <3>3, Moved
    <2>5. ASSUME End(c)
          PROVE  call' \in [Calls -> Call] /\ \A d \in Calls : Fits(call'[d], latest')
      BY <2>1, <2>5, WentOut
    <2>6. past' \in Past
      <3>1. past \in Past /\ [past EXCEPT !.tested = @ + 1] \in Past
        BY DEF TypeInv, TypeOK, Past
      <3>2. past' \in {past, [past EXCEPT !.tested = @ + 1]}
        BY <1>4 DEF ReadUser
      <3> QED BY <3>1, <3>2
    <2>7. call' \in [Calls -> Call] /\ \A d \in Calls : Fits(call'[d], latest')
      BY <1>4, <2>3, <2>4, <2>5 DEF ReadUser, Counters
    <2> QED BY <2>1, <2>6, <2>7 DEF WellTyped, TypeInv, TypeOK
  <1>5. CASE Unlock(c)
    <2>1. call[c].snap \in User /\ call[c].snap.pw \in 1 .. latest
      BY <1>1, <1>5 DEF Unlock, At, Fits, Call
    <2>2. user' \in User /\ user'.pw \in 1 .. latest
      BY <1>5, <2>1 DEF Unlock, User
    <2>3. call' \in [Calls -> Call] /\ \A d \in Calls : Fits(call'[d], latest')
      BY <1>5, <2>1, WentOn DEF Unlock
    <2>4. past' \in Past
      BY <1>5, RememberType DEF Unlock, Races, RowRaces
    <2> QED BY <1>5, <2>2, <2>3, <2>4 DEF Unlock, WellTyped, TypeInv, TypeOK
  <1>6. CASE Open(c)
    <2>1. call[c].snap.pw \in 1 .. latest
      BY <1>1, <1>6 DEF Open, At, Fits
    <2>2. call' \in [Calls -> Call] /\ \A d \in Calls : Fits(call'[d], latest')
      BY <1>6, WentOn DEF Open
    <2> QED BY <1>6, <2>1, <2>2 DEF Open, WellTyped, TypeInv, TypeOK
  <1>7. CASE Clear(c)
    <2>1. call' \in [Calls -> Call] /\ \A d \in Calls : Fits(call'[d], latest')
      BY <1>7, WentOut DEF Clear
    <2>2. past' \in Past
      <3>1. past \in Past /\ Removing("failed", c) \subseteq Races
        BY DEF TypeInv, TypeOK, Removing, Races
      <3>2. past.tested \in Nat
        BY <3>1 DEF Past
      <3> QED BY <1>7, <3>1, <3>2 DEF Clear, Past
    <2> QED BY <1>7, <2>1, <2>2, AbsentType DEF Clear, WellTyped, TypeInv, TypeOK
  <1> QED BY <1>2, <1>3, <1>4, <1>5, <1>6, <1>7

LEMMA CountType ==
    ASSUME TypeInv, NEW c \in Calls,
           \/ Incr(c) \/ IncrFound(c) \/ IncrExpire(c) \/ IncrInsert(c) \/ Counted(c)
           \/ SetLock(c)
    PROVE  WellTyped
  <1>1. call[c] \in Call /\ Fits(call[c], latest)
    BY DEF TypeInv, TypeOK
  <1>2. /\ kv \in [Keys -> Entry]
        /\ \A k \in Keys : kv[k] \in Entry /\ kv[k].n \in Nat
        /\ Counters \subseteq Keys
    BY DEF TypeInv, TypeOK, Entry, Counters, Keys
  <1>3. ASSUME NEW k \in Keys PROVE Incremented(k) \in Entry /\ Incremented(k).n \in Nat
    BY <1>2 DEF Incremented, Entry
  <1>4. ASSUME NEW q \in Call, q.key \in Counters, q.pc \in {"incrFound", "incrExpire", "counted"},
               latest' = latest, call' = [call EXCEPT ![c] = q]
        PROVE  call' \in [Calls -> Call] /\ \A d \in Calls : Fits(call'[d], latest')
    <2>1. Fits(q, latest)
      BY <1>4 DEF Fits
    <2> QED BY <1>4, <2>1, Moved
  <1>5. CASE Incr(c)
    <2>1. call[c].key \in Counters /\ UNCHANGED << cfg, user, latest, codes, sessions, starts, events, past >>
      BY <1>1, <1>5 DEF Incr, At, Fits
    <2>2. CASE call' = [call EXCEPT ![c] = [@ EXCEPT !.pc = "incrFound", !.fresh = ~Live(call[c].key)]]
               /\ UNCHANGED kv
      <3>1. PICK q : q = [call[c] EXCEPT !.pc = "incrFound", !.fresh = ~Live(call[c].key)]
        OBVIOUS
      <3>2. Live(call[c].key) \in BOOLEAN
        BY DEF Live
      <3>3. q \in Call /\ q.pc = "incrFound" /\ q.key = call[c].key
        BY <1>1, <3>1, <3>2 DEF Call
      <3>4. call' \in [Calls -> Call] /\ \A d \in Calls : Fits(call'[d], latest')
        BY <1>4, <2>1, <2>2, <3>1, <3>3
      <3> QED BY <2>1, <2>2, <3>4 DEF WellTyped, TypeInv, TypeOK
    <2>3. CASE GoTo(c, "incrInsert") /\ UNCHANGED kv
      <3>1. call' \in [Calls -> Call] /\ \A d \in Calls : Fits(call'[d], latest')
        BY <2>1, <2>3, WentOn
      <3> QED BY <2>1, <2>3, <3>1 DEF WellTyped, TypeInv, TypeOK
    <2>4. CASE /\ kv' = [kv EXCEPT ![call[c].key] = Incremented(call[c].key)]
               /\ call' = [call EXCEPT ![c] = [@ EXCEPT !.pc = "counted", !.n = kv'[call[c].key].n]]
      <3>1. kv' \in [Keys -> Entry] /\ kv'[call[c].key].n \in Nat
        BY <1>2, <1>3, <2>1, <2>4
      <3>2. PICK q : q = [call[c] EXCEPT !.pc = "counted", !.n = kv'[call[c].key].n]
        OBVIOUS
      <3>3. q \in Call /\ q.pc = "counted" /\ q.key = call[c].key
        BY <1>1, <3>1, <3>2 DEF Call
      <3>4. call' \in [Calls -> Call] /\ \A d \in Calls : Fits(call'[d], latest')
        BY <1>4, <2>1, <2>4, <3>2, <3>3
      <3> QED BY <2>1, <3>1, <3>4 DEF WellTyped, TypeInv, TypeOK
    <2> QED BY <1>5, <2>2, <2>3, <2>4 DEF Incr
  <1>6. CASE IncrFound(c)
    <2> DEFINE n == kv[call[c].key].n + 1
               pc == IF call[c].fresh /\ n = 1 THEN "incrExpire" ELSE "counted"
    <2>1. call[c].key \in Counters /\ UNCHANGED << cfg, user, latest, codes, sessions, starts, events, past >>
      BY <1>1, <1>6 DEF IncrFound, At, Fits
    <2>2. n \in Nat /\ pc \in {"incrExpire", "counted"}
      BY <1>2, <2>1
    <2>3. /\ kv' = [kv EXCEPT ![call[c].key].n = n]
          /\ call' = [call EXCEPT ![c] = [@ EXCEPT !.pc = pc, !.fresh = FALSE, !.n = n]]
      BY <1>6 DEF IncrFound
    <2> HIDE DEF n, pc
    <2>4. kv' \in [Keys -> Entry]
      BY <1>2, <2>1, <2>2, <2>3 DEF Entry
    <2>5. PICK q : q = [call[c] EXCEPT !.pc = pc, !.fresh = FALSE, !.n = n]
      OBVIOUS
    <2>6. q \in Call /\ q.pc = pc /\ q.key = call[c].key
      BY <1>1, <2>2, <2>5 DEF Call
    <2>7. call' \in [Calls -> Call] /\ \A d \in Calls : Fits(call'[d], latest')
      BY <1>4, <2>1, <2>2, <2>3, <2>5, <2>6
    <2> QED BY <2>1, <2>4, <2>7 DEF WellTyped, TypeInv, TypeOK
  <1>7. CASE IncrExpire(c)
    <2>1. call[c].key \in Counters /\ UNCHANGED << cfg, user, latest, codes, sessions, starts, events, past >>
      BY <1>1, <1>7 DEF IncrExpire, At, Fits
    <2>2. kv' \in [Keys -> Entry]
      BY <1>2, <1>7, <2>1 DEF IncrExpire, Entry
    <2>3. call' \in [Calls -> Call] /\ \A d \in Calls : Fits(call'[d], latest')
      BY <1>7, <2>1, WentOn DEF IncrExpire
    <2> QED BY <2>1, <2>2, <2>3 DEF WellTyped, TypeInv, TypeOK
  <1>8. CASE IncrInsert(c)
    <2>1. call[c].key \in Counters /\ UNCHANGED << cfg, user, latest, codes, sessions, starts, events, past >>
      BY <1>1, <1>8 DEF IncrInsert, At, Fits
    <2>2. CASE End(c) /\ UNCHANGED kv
      <3>1. call' \in [Calls -> Call] /\ \A d \in Calls : Fits(call'[d], latest')
        BY <2>1, <2>2, WentOut
      <3> QED BY <2>1, <2>2, <3>1 DEF WellTyped, TypeInv, TypeOK
    <2>3. CASE /\ kv' = [kv EXCEPT ![call[c].key] = Incremented(call[c].key)]
               /\ call' = [call EXCEPT ![c] = [@ EXCEPT !.pc = "counted", !.n = 1]]
      <3>1. kv' \in [Keys -> Entry]
        BY <1>2, <1>3, <2>1, <2>3
      <3>2. PICK q : q = [call[c] EXCEPT !.pc = "counted", !.n = 1]
        OBVIOUS
      <3>3. q \in Call /\ q.pc = "counted" /\ q.key = call[c].key
        BY <1>1, <3>2 DEF Call
      <3>4. call' \in [Calls -> Call] /\ \A d \in Calls : Fits(call'[d], latest')
        BY <1>4, <2>1, <2>3, <3>2, <3>3
      <3> QED BY <2>1, <3>1, <3>4 DEF WellTyped, TypeInv, TypeOK
    <2> QED BY <1>8, <2>2, <2>3 DEF IncrInsert
  <1>9. CASE Counted(c)
    <2>1. call' \in [Calls -> Call] /\ \A d \in Calls : Fits(call'[d], latest')
      BY <1>9, WentOut, WentOn DEF Counted
    <2> QED BY <1>9, <2>1 DEF Counted, WellTyped, TypeInv, TypeOK
  <1>10. CASE SetLock(c)
    <2>1. call' \in [Calls -> Call] /\ \A d \in Calls : Fits(call'[d], latest')
      BY <1>10, WentOn DEF SetLock
    <2>2. kv' \in [Keys -> Entry]
      BY <1>2, <1>10 DEF SetLock, Entry
    <2>3. past' \in Past /\ events' \in Nat
      BY <1>10, RememberType DEF SetLock, Races, TypeInv, TypeOK
    <2> QED BY <1>10, <2>1, <2>2, <2>3 DEF SetLock, WellTyped, TypeInv, TypeOK
  <1> QED BY <1>5, <1>6, <1>7, <1>8, <1>9, <1>10

LEMMA IssueType ==
    ASSUME TypeInv, NEW c \in Calls, Invalidate(c) \/ Issue(c)
    PROVE  WellTyped
  <1>1. /\ call[c] \in Call /\ call[c].admin \in BOOLEAN
        /\ codes \in [Rows -> Code]
        /\ NoCode \in Code
    BY DEF TypeInv, TypeOK, Call, NoCode, Code
  <1>2. CASE Invalidate(c)
    <2>1. call' \in [Calls -> Call] /\ \A d \in Calls : Fits(call'[d], latest')
      BY <1>2, WentOn DEF Invalidate
    <2>2. ASSUME NEW i \in Rows PROVE [codes[i] EXCEPT !.st = "used"] \in Code
      BY <1>1 DEF Code
    <2>3. codes' \in [Rows -> Code]
      BY <1>1, <1>2, <2>2 DEF Invalidate
    <2>4. past' \in Past
      BY <1>2, RememberType DEF Invalidate, Races
    <2> QED BY <1>2, <2>1, <2>3, <2>4 DEF Invalidate, WellTyped, TypeInv, TypeOK
  <1>3. CASE Issue(c)
    <2>1. call' \in [Calls -> Call] /\ \A d \in Calls : Fits(call'[d], latest')
      BY <1>3, WentOut DEF Issue
    <2>2. [NoCode EXCEPT !.st = "unused", !.admin = call[c].admin] \in Code
      BY <1>1 DEF Code
    <2>3. codes' \in [Rows -> Code]
      BY <1>1, <1>3, <2>2 DEF Issue
    <2> QED BY <1>3, <2>1, <2>3 DEF Issue, WellTyped, TypeInv, TypeOK
  <1> QED BY <1>2, <1>3

\* What a check of a code does: it refuses, or it looks at row i, which is unused and has
\* tries left.
Checked(c, onMatch, i) ==
    LET match == call[c].given = i
    IN  /\ i \in Newest(call[c].admin) /\ TriesLeft(i)
        /\ call' = [call EXCEPT ![c] = [@ EXCEPT !.pc = IF match THEN onMatch ELSE "tried",
                                                !.row = i, !.n = codes[i].attempts]]
        /\ \E R \in SUBSET Races :
             /\ past' = [past EXCEPT !.tries[i] = IF match THEN @ ELSE @ + 1, !.races = @ \cup R]
             /\ match /\ onMatch = "spend" /\ (\E d \in Others(c, {"spend"}) : call[d].row = i)
                  => "spends" \in R
             /\ ~match /\ (\E d \in Others(c, {"tried"}) : call[d].row = i) => "tries" \in R

LEMMA CheckShape ==
    ASSUME NEW c \in Calls, NEW onMatch, AssertValidCode(c, onMatch)
    PROVE  \/ End(c) /\ UNCHANGED past
           \/ \E i \in Rows : Checked(c, onMatch, i)
  <1>1. CASE \E i \in Newest(call[c].admin) : ~codes[i].expired /\ TriesLeft(i)
    <2> DEFINE F(i) == Flags(
                       [tries |-> ~(call[c].given = i) /\ \E d \in Others(c, {"tried"}) : call[d].row = i,
                        spends |-> call[c].given = i /\ onMatch = "spend"
                                     /\ \E d \in Others(c, {"spend"}) : call[d].row = i])
    <2>1. PICK i \in Newest(call[c].admin) :
               /\ call' = [call EXCEPT ![c] = [@ EXCEPT !.pc = IF call[c].given = i THEN onMatch ELSE "tried",
                                                       !.row = i, !.n = codes[i].attempts]]
               /\ past' = [past EXCEPT !.tries[i] = IF call[c].given = i THEN @ ELSE @ + 1,
                                       !.races = @ \cup F(i)]
      BY <1>1 DEF AssertValidCode
    <2>2. /\ F(i) \subseteq Races
          /\ call[c].given = i /\ onMatch = "spend" /\ (\E d \in Others(c, {"spend"}) : call[d].row = i)
                  => "spends" \in F(i)
          /\ ~(call[c].given = i) /\ (\E d \in Others(c, {"tried"}) : call[d].row = i)
                  => "tries" \in F(i)
      BY DEF Flags, Races
    <2>3. i \in Rows
      BY DEF Newest
    <2>4. TriesLeft(i)
      <3>1. PICK j \in Newest(call[c].admin) : TriesLeft(j)
        BY <1>1
      <3>2. i <= j /\ j <= i /\ i \in Nat /\ j \in Nat
        BY RecoveryAssumption DEF Newest, Rows
      <3>3. i = j
        BY <3>2
      <3> QED BY <3>1, <3>3
    <2> HIDE DEF F
    <2> QED BY <2>1, <2>2, <2>3, <2>4 DEF Checked
  <1>2. CASE ~ \E i \in Newest(call[c].admin) : ~codes[i].expired /\ TriesLeft(i)
    BY <1>2 DEF AssertValidCode
  <1> QED BY <1>1, <1>2

LEMMA CheckedType ==
    ASSUME TypeInv, latest' = latest, NEW c \in Calls, NEW onMatch \in {"matched", "spend"},
           AssertValidCode(c, onMatch)
    PROVE  call' \in [Calls -> Call] /\ (\A d \in Calls : Fits(call'[d], latest')) /\ past' \in Past
  <1>1. CASE End(c) /\ UNCHANGED past
    BY <1>1, WentOut DEF TypeInv, TypeOK
  <1>2. ASSUME NEW i \in Rows, Checked(c, onMatch, i)
        PROVE  call' \in [Calls -> Call] /\ (\A d \in Calls : Fits(call'[d], latest')) /\ past' \in Past
    <2> DEFINE pc == IF call[c].given = i THEN onMatch ELSE "tried"
    <2>1. /\ call[c] \in Call /\ codes[i].attempts \in Nat
          /\ past \in Past /\ past.tries \in [Rows -> Nat]
      BY DEF TypeInv, TypeOK, Code, Past
    <2>2. PICK q : q = [call[c] EXCEPT !.pc = pc, !.row = i, !.n = codes[i].attempts]
      OBVIOUS
    <2>3. q \in Call /\ q.pc \in {"matched", "spend", "tried"} /\ q.row = i
      BY <2>1, <2>2 DEF Call
    <2>4. Fits(q, latest)
      BY <2>3 DEF Fits
    <2>5. call' = [call EXCEPT ![c] = q]
      BY <1>2, <2>2 DEF Checked
    <2>6. PICK R \in SUBSET Races :
               past' = [past EXCEPT !.tries[i] = IF call[c].given = i THEN @ ELSE @ + 1, !.races = @ \cup R]
      BY <1>2 DEF Checked
    <2>7. past' \in Past
      <3> DEFINE n == IF call[c].given = i THEN past.tries[i] ELSE past.tries[i] + 1
      <3>1. n \in Nat
        BY <2>1
      <3>2. past' = [past EXCEPT !.tries[i] = n, !.races = @ \cup R]
        BY <2>6
      <3> HIDE DEF n
      <3> QED BY <2>1, <3>1, <3>2 DEF Past
    <2> QED BY <2>3, <2>4, <2>5, <2>7, Moved
  <1> QED BY <1>1, <1>2, CheckShape

LEMMA ConfirmType ==
    ASSUME TypeInv, NEW c \in Calls,
           \/ Find(c) \/ Tried(c) \/ Matched(c) \/ Load(c) \/ FindAgain(c) \/ Spend(c) \/ Save(c)
           \/ Revoke(c)
    PROVE  WellTyped
  <1>1. call[c] \in Call /\ Fits(call[c], latest)
    BY DEF TypeInv, TypeOK
  <1>2. CASE Find(c)
    <2>1. call' \in [Calls -> Call] /\ (\A d \in Calls : Fits(call'[d], latest')) /\ past' \in Past
      BY <1>2, CheckedType DEF Find
    <2> QED BY <1>2, <2>1 DEF Find, WellTyped, TypeInv, TypeOK
  <1>3. CASE FindAgain(c)
    <2>1. call' \in [Calls -> Call] /\ (\A d \in Calls : Fits(call'[d], latest')) /\ past' \in Past
      BY <1>3, CheckedType DEF FindAgain
    <2> QED BY <1>3, <2>1 DEF FindAgain, WellTyped, TypeInv, TypeOK
  <1>4. CASE Tried(c)
    <2>1. call[c].row \in Rows /\ call[c].n + 1 \in Nat
      BY <1>1, <1>4 DEF Tried, At, Fits, Call
    <2>2. codes' \in [Rows -> Code]
      BY <1>4, <2>1 DEF Tried, TypeInv, TypeOK, Code
    <2>3. call' \in [Calls -> Call] /\ \A d \in Calls : Fits(call'[d], latest')
      BY <1>4, WentOut DEF Tried
    <2> QED BY <1>4, <2>2, <2>3 DEF Tried, WellTyped, TypeInv, TypeOK
  <1>5. CASE Matched(c)
    <2>1. call' \in [Calls -> Call] /\ \A d \in Calls : Fits(call'[d], latest')
      BY <1>5, WentOut, WentOn DEF Matched
    <2> QED BY <1>5, <2>1 DEF Matched, WellTyped, TypeInv, TypeOK
  <1>6. CASE Load(c)
    <2>1. CASE call[c].strong
      <3> DEFINE pc == IF call[c].admin THEN "save" ELSE "findAgain"
      <3>1. PICK q : q = [call[c] EXCEPT !.pc = pc, !.snap = user]
        OBVIOUS
      <3>2. q \in Call /\ q.pc \in {"save", "findAgain"}
        BY <1>1, <3>1 DEF Call, TypeInv, TypeOK
      <3>3. Fits(q, latest)
        BY <3>2 DEF Fits
      <3>4. call' = [call EXCEPT ![c] = q] /\ latest' = latest
        BY <1>6, <2>1, <3>1 DEF Load
      <3>5. call' \in [Calls -> Call] /\ \A d \in Calls : Fits(call'[d], latest')
        BY <3>2, <3>3, <3>4, Moved
      <3> QED BY <1>6, <3>5 DEF Load, WellTyped, TypeInv, TypeOK
    <2>2. CASE ~call[c].strong
      <3>1. End(c) /\ latest' = latest
        BY <1>6, <2>2 DEF Load, End
      <3>2. call' \in [Calls -> Call] /\ \A d \in Calls : Fits(call'[d], latest')
        BY <3>1, WentOut
      <3> QED BY <1>6, <3>2 DEF Load, WellTyped, TypeInv, TypeOK
    <2> QED BY <2>1, <2>2
  <1>7. CASE Spend(c)
    <2>1. call[c].row \in Rows
      BY <1>1, <1>7 DEF Spend, At, Fits
    <2>2. codes' \in [Rows -> Code]
      BY <1>7, <2>1 DEF Spend, TypeInv, TypeOK, Code
    <2>3. past \in Past /\ past.spent \in [Rows -> Nat]
      BY DEF TypeInv, TypeOK, Past
    <2>4. past' \in Past
      BY <1>7, <2>1, <2>3 DEF Spend, Past
    <2>5. call' \in [Calls -> Call] /\ \A d \in Calls : Fits(call'[d], latest')
      BY <1>7, WentOn DEF Spend
    <2> QED BY <1>7, <2>2, <2>4, <2>5 DEF Spend, WellTyped, TypeInv, TypeOK
  <1>8. CASE Save(c)
    <2>1. latest \in Nat /\ latest' = latest + 1 /\ call[c].snap \in User
      BY <1>1, <1>8 DEF Save, TypeInv, TypeOK, Call
    <2>2. user' \in User /\ user'.pw = latest'
      BY <1>8, <2>1 DEF Save, User
    <2>3. past' \in Past
      BY <1>8, RememberType DEF Save, Races, RowRaces
    <2>4. sessions' \subseteq 1 .. latest' /\ latest' \in 1 .. latest'
      BY <1>8, <2>1 DEF Save, TypeInv, TypeOK
    <2>5. PICK q : q = [call[c] EXCEPT !.pc = "revoke"]
      OBVIOUS
    <2>6. q \in Call /\ q.pc = "revoke"
      BY <1>1, <2>5 DEF Call
    <2>7. call' = [call EXCEPT ![c] = q]
      BY <1>8, <2>5 DEF Save, GoTo
    <2>8. call' \in [Calls -> Call]
      BY <2>6, <2>7 DEF TypeInv, TypeOK
    <2>9. ASSUME NEW d \in Calls PROVE Fits(call'[d], latest')
      <3>1. CASE d = c
        BY <2>6, <2>7, <3>1 DEF Fits, TypeInv, TypeOK
      <3>2. CASE d # c
        <4>1. call'[d] = call[d] /\ Fits(call[d], latest)
          BY <2>7, <3>2 DEF TypeInv, TypeOK
        <4> QED BY <2>1, <4>1 DEF Fits
      <3> QED BY <3>1, <3>2
    <2> QED BY <1>8, <2>1, <2>2, <2>3, <2>4, <2>8, <2>9 DEF Save, WellTyped, TypeInv, TypeOK
  <1>9. CASE Revoke(c)
    <2>1. call' \in [Calls -> Call] /\ \A d \in Calls : Fits(call'[d], latest')
      BY <1>9, WentOut DEF Revoke
    <2>2. past' \in Past
      BY <1>9, RememberType DEF Revoke, Races
    <2> QED BY <1>9, <2>1, <2>2 DEF Revoke, WellTyped, TypeInv, TypeOK
  <1> QED BY <1>2, <1>3, <1>4, <1>5, <1>6, <1>7, <1>8, <1>9

LEMMA BesideType ==
    ASSUME TypeInv,
           \/ \E c \in Calls : Crash(c)
           \/ \E k \in Keys : Expire(k)
           \/ \E i \in Rows : ExpireCode(i)
           \/ Disable
    PROVE  WellTyped
  <1>1. ASSUME NEW c \in Calls, Crash(c) PROVE WellTyped
    <2>1. call' \in [Calls -> Call] /\ \A d \in Calls : Fits(call'[d], latest')
      BY <1>1, WentOut DEF Crash
    <2>2. past' \in Past
      BY <1>1, RememberType DEF Crash, Races
    <2> QED BY <1>1, <2>1, <2>2 DEF Crash, Event, WellTyped, TypeInv, TypeOK
  <1>2. ASSUME NEW k \in Keys, Expire(k) PROVE WellTyped
    <2>1. kv' \in [Keys -> Entry]
      <3>1. kv \in [Keys -> Entry] /\ [kv[k] EXCEPT !.ttl = "over"] \in Entry
        BY DEF TypeInv, TypeOK, Entry
      <3> QED BY <1>2, <3>1, AbsentType DEF Expire
    <2>2. past' \in Past
      <3> DEFINE n == IF k = "resets" THEN past.tested ELSE 0
                 R == IF \E d \in Calls : At(d, "incrFound") /\ call[d].key = k
                      THEN {"lostKey"} ELSE {}
      <3>1. past' = [past EXCEPT !.tested = n, !.races = @ \cup R]
        BY <1>2 DEF Expire
      <3>2. past \in Past /\ n \in Nat /\ R \in SUBSET Races
        BY DEF TypeInv, TypeOK, Past, Races
      <3> HIDE DEF n, R
      <3> QED BY <3>1, <3>2 DEF Past
    <2>3. events' = events + 1 /\ UNCHANGED << cfg, user, latest, codes, sessions, call, starts >>
      BY <1>2 DEF Expire, Event
    <2> QED BY <2>1, <2>2, <2>3 DEF WellTyped, TypeInv, TypeOK
  <1>3. ASSUME NEW i \in Rows, ExpireCode(i) PROVE WellTyped
    <2>1. codes' \in [Rows -> Code]
      BY <1>3 DEF ExpireCode, TypeInv, TypeOK, Code
    <2> QED BY <1>3, <2>1 DEF ExpireCode, Event, WellTyped, TypeInv, TypeOK
  <1>4. CASE Disable
    <2>1. user' \in User /\ user'.pw = user.pw
      BY <1>4 DEF Disable, TypeInv, TypeOK, User
    <2>2. past' \in Past
      <3>1. PICK R : /\ past' = [past EXCEPT !.disabled = TRUE, !.races = @ \cup R]
                     /\ R \in {{"rowWrites"}, {}}
        BY <1>4 DEF Disable
      <3> QED BY <3>1 DEF Past, Races, TypeInv, TypeOK
    <2> QED BY <1>4, <2>1, <2>2 DEF Disable, Event, WellTyped, TypeInv, TypeOK
  <1> QED BY <1>1, <1>2, <1>3, <1>4

LEMMA TypeStep == TypeInv /\ [Next]_vars => TypeInv'
  <1> SUFFICES ASSUME TypeInv, [Next]_vars PROVE TypeInv'
    OBVIOUS
  <1>1. CASE Next
    <2>1. ASSUME NEW c \in Calls, Step(c) PROVE WellTyped
      BY <2>1, LoginType, CountType, IssueType, ConfirmType DEF Step
    <2>2. WellTyped
      BY <1>1, <2>1, StartType, BesideType DEF Next
    <2> QED BY <2>2 DEF WellTyped, TypeInv, TypeOK
  <1>2. CASE UNCHANGED vars
    BY <1>2 DEF vars, TypeInv, TypeOK
  <1> QED BY <1>1, <1>2

LEMMA TypeInvariant == Spec => []TypeInv
  <1>1. Init => TypeInv
    <2> SUFFICES ASSUME Init PROVE TypeInv
      OBVIOUS
    <2>1. cfg \in Scenario /\ cfg.lock \in {"none", "temporary"} /\ cfg.admin \in BOOLEAN
      BY RecoveryAssumption DEF Init, Scenario
    <2>2. NoCode \in Code /\ [NoCode EXCEPT !.st = "unused", !.admin = cfg.admin] \in Code
      BY <2>1 DEF NoCode, Code
    <2>3. codes \in [Rows -> Code]
      BY <2>2 DEF Init
    <2>4. past \in Past
      BY DEF Init, Nothing, Past
    <2>5. user \in User /\ user.pw \in 1 .. latest
      BY <2>1 DEF Init, User
    <2>6. call \in [Calls -> Call] /\ \A c \in Calls : Fits(call[c], latest)
      BY IdleType DEF Init
    <2> QED BY <2>1, <2>3, <2>4, <2>5, <2>6, AbsentType DEF Init, TypeInv, TypeOK
  <1> QED BY <1>1, TypeStep, PTL DEF Spec

(***************************************************************************)
(* Every variable keeps its type.                                          *)
(***************************************************************************)
THEOREM TypeCorrect == Spec => []TypeOK
  <1>1. TypeInv => TypeOK
    BY DEF TypeInv
  <1> QED BY <1>1, TypeInvariant, PTL

-----------------------------------------------------------------------------
(* Who reads and writes the user's row. *)

LEMMA Put ==
    ASSUME TypeInv, NEW c \in Calls, NEW q, call' = [call EXCEPT ![c] = q]
    PROVE  call'[c] = q /\ \A d \in Calls \ {c} : call'[d] = call[d]
  BY DEF TypeInv, TypeOK

LEMMA Left ==
    ASSUME TypeInv, NEW c \in Calls, End(c)
    PROVE  call'[c] = Idle /\ \A d \in Calls \ {c} : call'[d] = call[d]
  BY DEF End, TypeInv, TypeOK

LEMMA Went ==
    ASSUME TypeInv, NEW c \in Calls, NEW pc, GoTo(c, pc)
    PROVE  /\ call'[c].pc = pc
           /\ call'[c].snap = call[c].snap /\ call'[c].admin = call[c].admin
           /\ call'[c].key = call[c].key /\ call'[c].row = call[c].row
           /\ call'[c].fresh = call[c].fresh
           /\ \A d \in Calls \ {c} : call'[d] = call[d]
  <1>1. call[c] \in Call /\ call \in [Calls -> Call]
    BY DEF TypeInv, TypeOK
  <1>2. PICK q : q = [call[c] EXCEPT !.pc = pc]
    OBVIOUS
  <1>3. call'[c] = q /\ \A d \in Calls \ {c} : call'[d] = call[d]
    BY <1>1, <1>2 DEF GoTo
  <1>4. /\ q.pc = pc /\ q.snap = call[c].snap /\ q.admin = call[c].admin
        /\ q.key = call[c].key /\ q.row = call[c].row /\ q.fresh = call[c].fresh
    BY <1>1, <1>2 DEF Call
  <1> QED BY <1>2, <1>3, <1>4

\* A request that holds the user's row as it has read it.
HoldsRow(k) == k.pc \in {"unlock", "findAgain", "save"} \/ (k.pc = "spend" /\ ~k.admin)

\* A step that leaves the row alone, and the sessions.
Harmless(c) ==
    /\ UNCHANGED << cfg, user, latest, sessions >>
    /\ past'.disabled = past.disabled
    /\ past.races \subseteq past'.races
    /\ \A d \in Calls \ {c} : call'[d] = call[d]
    /\ call[c].pc = "revoke" => "crash" \in past'.races
    /\ HoldsRow(call'[c]) => \/ call'[c].snap = user
                             \/ HoldsRow(call[c]) /\ call'[c].snap = call[c].snap
    /\ call'[c].pc = "unlock" => call'[c].snap.lock = "temporary"
    /\ call'[c].pc \in {"unlock", "open"} => call'[c].snap.pw = user.pw

LEMMA Remembered ==
    ASSUME TypeInv, NEW R, Remember(R)
    PROVE  /\ past'.disabled = past.disabled /\ past'.spent = past.spent
           /\ past'.tries = past.tries /\ past'.races = past.races \cup R
  BY DEF TypeInv, TypeOK, Remember, Past

LEMMA HarmlessStart ==
    ASSUME TypeInv, NEW c \in Calls, Login(c) \/ RequestReset(c) \/ Confirm(c)
    PROVE  Harmless(c)
  <1>1. ASSUME NEW kind, NEW pc \in {"checkLock", "readUser", "invalidate"},
               NEW admin, NEW given, NEW strong, Start(c, kind, pc, admin, given, strong)
        PROVE  Harmless(c)
    <2>1. PICK q : q = [Idle EXCEPT !.pc = pc, !.kind = kind, !.admin = admin,
                                    !.given = given, !.strong = strong]
      OBVIOUS
    <2>2. q.pc = pc
      BY <2>1 DEF Idle
    <2>3. call'[c] = q /\ \A d \in Calls \ {c} : call'[d] = call[d]
      BY <1>1, <2>1, Put DEF Start
    <2>4. call[c].pc = "idle" /\ UNCHANGED << cfg, user, latest, sessions, past >>
      BY <1>1 DEF Start, At
    <2> QED BY <2>2, <2>3, <2>4 DEF Harmless, HoldsRow
  <1>2. CASE Login(c)
    BY <1>1, <1>2 DEF Login
  <1>3. CASE RequestReset(c)
    BY <1>1, <1>3 DEF RequestReset
  <1>4. CASE Confirm(c)
    BY <1>1, <1>4 DEF Confirm
  <1> QED BY <1>2, <1>3, <1>4

LEMMA HarmlessLogin ==
    ASSUME TypeInv, NEW c \in Calls, CheckLock(c) \/ DropLock(c) \/ ReadUser(c) \/ Clear(c)
    PROVE  Harmless(c)
  <1>1. call[c] \in Call
    BY DEF TypeInv, TypeOK
  <1>2. CASE CheckLock(c)
    BY <1>2, Went, Left DEF CheckLock, At, Harmless, HoldsRow, Idle
  <1>3. CASE DropLock(c)
    BY <1>3, Went, Remembered DEF DropLock, At, Harmless, HoldsRow
  <1>4. CASE ReadUser(c)
    <2>1. /\ call[c].pc = "readUser"
          /\ UNCHANGED << cfg, kv, user, latest, codes, sessions, starts, events >>
          /\ past'.disabled = past.disabled /\ past'.races = past.races
      BY <1>4 DEF ReadUser, At, TypeInv, TypeOK, Past
    <2>2. ASSUME End(c) PROVE Harmless(c)
      BY <2>1, <2>2, Left DEF Harmless, HoldsRow, Idle
    <2>3. ASSUME NEW pc \in {"unlock", "open", "find"}, pc = "unlock" => user.lock = "temporary",
                 call' = [call EXCEPT ![c] = [[call[c] EXCEPT !.snap = user] EXCEPT !.pc = pc]]
          PROVE  Harmless(c)
      <3>1. PICK q : q = [[call[c] EXCEPT !.snap = user] EXCEPT !.pc = pc]
        OBVIOUS
      <3>2. q.pc = pc /\ q.snap = user
        BY <1>1, <3>1 DEF Call
      <3>3. call'[c] = q /\ \A d \in Calls \ {c} : call'[d] = call[d]
        BY <2>3, <3>1, Put
      <3> QED BY <2>1, <2>3, <3>2, <3>3 DEF Harmless, HoldsRow
    <2>4. ASSUME NEW key, call' = [call EXCEPT ![c] = [@ EXCEPT !.pc = "incr", !.key = key]]
          PROVE  Harmless(c)
      <3>1. PICK q : q = [call[c] EXCEPT !.pc = "incr", !.key = key]
        OBVIOUS
      <3>2. q.pc = "incr"
        BY <1>1, <3>1 DEF Call
      <3>3. call'[c] = q /\ \A d \in Calls \ {c} : call'[d] = call[d]
        BY <2>4, <3>1, Put
      <3> QED BY <2>1, <3>2, <3>3 DEF Harmless, HoldsRow
    <2> QED BY <1>4, <2>2, <2>3, <2>4 DEF ReadUser
  <1>5. CASE Clear(c)
    <2>1. past'.disabled = past.disabled /\ past.races \subseteq past'.races
      BY <1>5 DEF Clear, TypeInv, TypeOK, Past
    <2> QED BY <1>5, <2>1, Left DEF Clear, At, Harmless, HoldsRow, Idle
  <1> QED BY <1>2, <1>3, <1>4, <1>5

LEMMA HarmlessCount ==
    ASSUME TypeInv, NEW c \in Calls,
           \/ Incr(c) \/ IncrFound(c) \/ IncrExpire(c) \/ IncrInsert(c) \/ Counted(c)
           \/ SetLock(c) \/ Invalidate(c) \/ Issue(c)
    PROVE  Harmless(c)
  <1>1. call[c] \in Call
    BY DEF TypeInv, TypeOK
  <1>2. ASSUME NEW q, call' = [call EXCEPT ![c] = q], call[c].pc # "revoke",
               q.pc \in {"incrFound", "incrExpire", "counted"},
               UNCHANGED << cfg, user, latest, sessions, past >>
        PROVE  Harmless(c)
    <2>1. call'[c] = q /\ \A d \in Calls \ {c} : call'[d] = call[d]
      BY <1>2, Put
    <2> QED BY <1>2, <2>1 DEF Harmless, HoldsRow
  <1>3. CASE Incr(c)
    <2>1. call[c].pc = "incr" /\ UNCHANGED << cfg, user, latest, sessions, past >>
      BY <1>3 DEF Incr, At
    <2>2. ASSUME GoTo(c, "incrInsert") PROVE Harmless(c)
      BY <2>1, <2>2, Went DEF Harmless, HoldsRow
    <2>3. ASSUME NEW fresh, call' = [call EXCEPT ![c] = [@ EXCEPT !.pc = "incrFound", !.fresh = fresh]]
          PROVE  Harmless(c)
      <3>1. PICK q : q = [call[c] EXCEPT !.pc = "incrFound", !.fresh = fresh]
        OBVIOUS
      <3>2. q.pc = "incrFound"
        BY <1>1, <3>1 DEF Call
      <3> QED BY <1>2, <2>1, <2>3, <3>1, <3>2
    <2>4. ASSUME NEW n, call' = [call EXCEPT ![c] = [@ EXCEPT !.pc = "counted", !.n = n]]
          PROVE  Harmless(c)
      <3>1. PICK q : q = [call[c] EXCEPT !.pc = "counted", !.n = n]
        OBVIOUS
      <3>2. q.pc = "counted"
        BY <1>1, <3>1 DEF Call
      <3> QED BY <1>2, <2>1, <2>4, <3>1, <3>2
    <2> QED BY <1>3, <2>2, <2>3, <2>4 DEF Incr
  <1>4. CASE IncrFound(c)
    <2> DEFINE n == kv[call[c].key].n + 1
               pc == IF call[c].fresh /\ n = 1 THEN "incrExpire" ELSE "counted"
    <2>1. /\ call[c].pc = "incrFound" /\ UNCHANGED << cfg, user, latest, sessions, past >>
          /\ call' = [call EXCEPT ![c] = [@ EXCEPT !.pc = pc, !.fresh = FALSE, !.n = n]]
      BY <1>4 DEF IncrFound, At
    <2>2. pc \in {"incrExpire", "counted"}
      OBVIOUS
    <2> HIDE DEF n, pc
    <2>3. PICK q : q = [call[c] EXCEPT !.pc = pc, !.fresh = FALSE, !.n = n]
      OBVIOUS
    <2>4. q.pc = pc
      BY <1>1, <2>3 DEF Call
    <2> QED BY <1>2, <2>1, <2>2, <2>3, <2>4
  <1>5. CASE IncrExpire(c)
    BY <1>5, Went DEF IncrExpire, At, Harmless, HoldsRow
  <1>6. CASE IncrInsert(c)
    <2>1. call[c].pc = "incrInsert" /\ UNCHANGED << cfg, user, latest, sessions, past >>
      BY <1>6 DEF IncrInsert, At
    <2>2. ASSUME End(c) PROVE Harmless(c)
      BY <2>1, <2>2, Left DEF Harmless, HoldsRow, Idle
    <2>3. ASSUME call' = [call EXCEPT ![c] = [@ EXCEPT !.pc = "counted", !.n = 1]]
          PROVE  Harmless(c)
      <3>1. PICK q : q = [call[c] EXCEPT !.pc = "counted", !.n = 1]
        OBVIOUS
      <3>2. q.pc = "counted"
        BY <1>1, <3>1 DEF Call
      <3> QED BY <1>2, <2>1, <2>3, <3>1, <3>2
    <2> QED BY <1>6, <2>2, <2>3 DEF IncrInsert
  <1>7. CASE Counted(c)
    BY <1>7, Went, Left DEF Counted, At, Harmless, HoldsRow, Idle
  <1>8. CASE SetLock(c)
    <2>1. past'.disabled = past.disabled /\ past.races \subseteq past'.races
      BY <1>8, Remembered DEF SetLock
    <2> QED BY <1>8, <2>1, Went DEF SetLock, At, Harmless, HoldsRow
  <1>9. CASE Invalidate(c)
    <2>1. past'.disabled = past.disabled /\ past.races \subseteq past'.races
      BY <1>9, Remembered DEF Invalidate
    <2> QED BY <1>9, <2>1, Went DEF Invalidate, At, Harmless, HoldsRow
  <1>10. CASE Issue(c)
    BY <1>10, Left DEF Issue, At, Harmless, HoldsRow, Idle
  <1> QED BY <1>3, <1>4, <1>5, <1>6, <1>7, <1>8, <1>9, <1>10

LEMMA HarmlessCheck ==
    ASSUME TypeInv, NEW c \in Calls, NEW onMatch \in {"matched", "spend"},
           AssertValidCode(c, onMatch), call[c].pc # "revoke",
           onMatch = "spend" => HoldsRow(call[c]) \/ call[c].admin,
           UNCHANGED << cfg, user, latest, sessions >>
    PROVE  Harmless(c)
  <1>1. CASE End(c) /\ UNCHANGED past
    BY <1>1, Left DEF Harmless, HoldsRow, Idle
  <1>2. ASSUME NEW i \in Rows, Checked(c, onMatch, i) PROVE Harmless(c)
    <2> DEFINE pc == IF call[c].given = i THEN onMatch ELSE "tried"
    <2>1. call[c] \in Call
      BY DEF TypeInv, TypeOK
    <2>2. PICK q : q = [call[c] EXCEPT !.pc = pc, !.row = i, !.n = codes[i].attempts]
      OBVIOUS
    <2>3. q.pc \in {onMatch, "tried"} /\ q.snap = call[c].snap /\ q.admin = call[c].admin
      BY <2>1, <2>2 DEF Call
    <2>4. call'[c] = q /\ \A d \in Calls \ {c} : call'[d] = call[d]
      <3>1. call' = [call EXCEPT ![c] = q]
        BY <1>2, <2>2 DEF Checked
      <3> QED BY <3>1, Put
    <2>5. past'.disabled = past.disabled /\ past.races \subseteq past'.races
      BY <1>2 DEF Checked, TypeInv, TypeOK, Past
    <2> QED BY <2>3, <2>4, <2>5 DEF Harmless, HoldsRow
  <1> QED BY <1>1, <1>2, CheckShape

LEMMA HarmlessConfirm ==
    ASSUME TypeInv, NEW c \in Calls,
           \/ Find(c) \/ Tried(c) \/ Matched(c) \/ Load(c) \/ FindAgain(c) \/ Spend(c) \/ Crash(c)
    PROVE  Harmless(c)
  <1>1. call[c] \in Call
    BY DEF TypeInv, TypeOK
  <1>2. CASE Find(c)
    BY <1>2, HarmlessCheck DEF Find, At
  <1>3. CASE FindAgain(c)
    BY <1>3, HarmlessCheck DEF FindAgain, At, HoldsRow
  <1>4. CASE Tried(c)
    BY <1>4, Left DEF Tried, At, Harmless, HoldsRow, Idle
  <1>5. CASE Matched(c)
    BY <1>5, Left, Went DEF Matched, At, Harmless, HoldsRow, Idle
  <1>6. CASE Load(c)
    <2>1. call[c].pc = "load" /\ UNCHANGED << cfg, user, latest, sessions, past >>
      BY <1>6 DEF Load, At
    <2>2. CASE call[c].strong
      <3> DEFINE pc == IF call[c].admin THEN "save" ELSE "findAgain"
      <3>1. PICK q : q = [call[c] EXCEPT !.pc = pc, !.snap = user]
        OBVIOUS
      <3>2. q.pc = pc /\ q.snap = user
        BY <1>1, <3>1 DEF Call
      <3>3. call'[c] = q /\ \A d \in Calls \ {c} : call'[d] = call[d]
        BY <1>6, <2>2, <3>1, Put DEF Load
      <3> QED BY <2>1, <3>2, <3>3 DEF Harmless, HoldsRow
    <2>3. CASE ~call[c].strong
      <3>1. End(c)
        BY <1>6, <2>3 DEF Load, End
      <3> QED BY <2>1, <3>1, Left DEF Harmless, HoldsRow, Idle
    <2> QED BY <2>2, <2>3
  <1>7. CASE Spend(c)
    <2>1. past'.disabled = past.disabled /\ past'.races = past.races
      BY <1>7 DEF Spend, TypeInv, TypeOK, Past
    <2> QED BY <1>7, <2>1, Went DEF Spend, At, Harmless, HoldsRow
  <1>8. CASE Crash(c)
    BY <1>8, Left, Remembered DEF Crash, Harmless, HoldsRow, Idle
  <1> QED BY <1>2, <1>3, <1>4, <1>5, <1>6, <1>7, <1>8

Writes(c) == Unlock(c) \/ Open(c) \/ Save(c) \/ Revoke(c)

LEMMA HarmlessOrWrites ==
    ASSUME TypeInv, NEW c \in Calls,
           Login(c) \/ RequestReset(c) \/ Confirm(c) \/ Step(c) \/ Crash(c)
    PROVE  Harmless(c) \/ Writes(c)
  BY HarmlessStart, HarmlessLogin, HarmlessCount, HarmlessConfirm DEF Step, Writes

-----------------------------------------------------------------------------
(* What was written to the user's row stands. *)

RowInv ==
    /\ \A c \in Calls : call[c].pc = "unlock" => call[c].snap.lock = "temporary"
    /\ "rowWrites" \notin past.races =>
         /\ user.pw = latest
         /\ past.disabled => user.lock = "permanent"
         /\ \A c \in Calls : HoldsRow(call[c]) => call[c].snap = user

LEMMA RowRaced ==
    ASSUME TypeInv, NEW c \in Calls, Remember(RowRaces(c)), "rowWrites" \notin past'.races
    PROVE  \A d \in Calls \ {c} : ~HoldsRow(call[d])
  BY Remembered DEF RowRaces, Holding, HoldsRow

LEMMA BesidePast ==
    ASSUME TypeInv,
           (\E k \in Keys : Expire(k)) \/ (\E i \in Rows : ExpireCode(i)) \/ UNCHANGED vars
    PROVE  /\ past'.disabled = past.disabled /\ past'.spent = past.spent
           /\ past.races \subseteq past'.races
  <1>1. ASSUME NEW k \in Keys, Expire(k)
        PROVE  /\ past'.disabled = past.disabled /\ past'.spent = past.spent
               /\ past.races \subseteq past'.races
    <2> DEFINE n == IF k = "resets" THEN past.tested ELSE 0
               R == IF \E d \in Calls : At(d, "incrFound") /\ call[d].key = k
                    THEN {"lostKey"} ELSE {}
    <2>1. past' = [past EXCEPT !.tested = n, !.races = @ \cup R]
      BY <1>1 DEF Expire
    <2> HIDE DEF n, R
    <2> QED BY <2>1 DEF TypeInv, TypeOK, Past
  <1> QED BY <1>1 DEF ExpireCode, vars

LEMMA RowStep == TypeInv /\ RowInv /\ [Next]_vars => RowInv'
  <1> SUFFICES ASSUME TypeInv, RowInv, [Next]_vars PROVE RowInv'
    OBVIOUS
  <1>1. ASSUME NEW c \in Calls, Harmless(c) PROVE RowInv'
    <2>1. ASSUME NEW d \in Calls
          PROVE  /\ call'[d].pc = "unlock" => call'[d].snap.lock = "temporary"
                 /\ "rowWrites" \notin past'.races /\ HoldsRow(call'[d]) => call'[d].snap = user'
      BY <1>1 DEF Harmless, RowInv
    <2> QED BY <1>1, <2>1 DEF Harmless, RowInv
  <1>2. ASSUME NEW c \in Calls, Unlock(c) PROVE RowInv'
    <2>1. /\ call'[c].pc = "open" /\ \A d \in Calls \ {c} : call'[d] = call[d]
          /\ past'.disabled = past.disabled /\ past.races \subseteq past'.races
          /\ latest' = latest /\ call[c].pc = "unlock"
      BY <1>2, Went, Remembered DEF Unlock, At
    <2>2. call[c].snap \in User /\ user' = [call[c].snap EXCEPT !.lock = "none"]
      BY <1>2 DEF Unlock, TypeInv, TypeOK, Call
    <2>3. "rowWrites" \notin past'.races => \A d \in Calls \ {c} : ~HoldsRow(call[d])
      BY <1>2, RowRaced DEF Unlock
    <2>4. "rowWrites" \notin past'.races => call[c].snap = user /\ call[c].snap.lock = "temporary"
      BY <2>1 DEF RowInv, HoldsRow
    <2>5. user'.pw = call[c].snap.pw
      BY <2>2 DEF User
    <2> QED BY <2>1, <2>3, <2>4, <2>5 DEF RowInv, HoldsRow
  <1>3. ASSUME NEW c \in Calls, Open(c) PROVE RowInv'
    <2>1. /\ call'[c].pc = "clear" /\ \A d \in Calls \ {c} : call'[d] = call[d]
          /\ UNCHANGED << user, latest, past >>
      BY <1>3, Went DEF Open
    <2> QED BY <2>1 DEF RowInv, HoldsRow
  <1>4. ASSUME NEW c \in Calls, Save(c) PROVE RowInv'
    <2>1. /\ call'[c].pc = "revoke" /\ \A d \in Calls \ {c} : call'[d] = call[d]
          /\ past'.disabled = past.disabled /\ past.races \subseteq past'.races
          /\ call[c].pc = "save"
      BY <1>4, Went, Remembered DEF Save, At
    <2>2. call[c].snap \in User /\ user' = [call[c].snap EXCEPT !.pw = latest']
      BY <1>4 DEF Save, TypeInv, TypeOK, Call
    <2>3. user'.pw = latest' /\ user'.lock = call[c].snap.lock
      BY <2>2 DEF User
    <2>4. "rowWrites" \notin past'.races => \A d \in Calls \ {c} : ~HoldsRow(call[d])
      BY <1>4, RowRaced DEF Save
    <2>5. "rowWrites" \notin past'.races => call[c].snap = user
      BY <2>1 DEF RowInv, HoldsRow
    <2> QED BY <2>1, <2>3, <2>4, <2>5 DEF RowInv, HoldsRow
  <1>5. ASSUME NEW c \in Calls, Revoke(c) PROVE RowInv'
    <2>1. /\ call'[c] = Idle /\ \A d \in Calls \ {c} : call'[d] = call[d]
          /\ past'.disabled = past.disabled /\ past.races \subseteq past'.races
          /\ UNCHANGED << user, latest >>
      BY <1>5, Left, Remembered DEF Revoke
    <2> QED BY <2>1 DEF RowInv, HoldsRow, Idle
  <1>6. CASE (\E k \in Keys : Expire(k)) \/ (\E i \in Rows : ExpireCode(i)) \/ UNCHANGED vars
    <2>1. UNCHANGED << user, latest, call >>
      BY <1>6 DEF Expire, ExpireCode, vars
    <2>2. past'.disabled = past.disabled /\ past.races \subseteq past'.races
      BY <1>6, BesidePast
    <2> QED BY <2>1, <2>2 DEF RowInv
  <1>7. CASE Disable
    <2>1. /\ UNCHANGED << latest, call >> /\ past.races \subseteq past'.races
          /\ "rowWrites" \notin past'.races => \A d \in Calls : ~HoldsRow(call[d])
      BY <1>7 DEF Disable, TypeInv, TypeOK, Past, Holding, HoldsRow
    <2>2. user'.pw = user.pw /\ user'.lock = "permanent"
      BY <1>7 DEF Disable, TypeInv, TypeOK, User
    <2> QED BY <2>1, <2>2 DEF RowInv
  <1> QED BY <1>1, <1>2, <1>3, <1>4, <1>5, <1>6, <1>7, HarmlessOrWrites DEF Next, Writes

(***************************************************************************)
(* The newest password and the administrator's lock stand: whoever saves   *)
(* the whole row as it was read (updateUserPassword, the lifting of an old *)
(* lock) undoes nothing, unless two writers of the row overlapped.         *)
(***************************************************************************)
THEOREM RowsStand == Spec => []RowWritesStand
  <1>1. Init => RowInv
    BY DEF Init, Idle, Nothing, HoldsRow, RowInv
  <1>2. RowInv => RowWritesStand
    BY DEF RowInv, RowWritesStand
  <1> QED BY <1>1, <1>2, RowStep, TypeInvariant, PTL DEF Spec

-----------------------------------------------------------------------------
(* Which passwords the live sessions were opened with. *)

OldInv ==
    \/ past.races \cap {"lateLogin", "crash"} # {}
    \/ \E c \in Calls : call[c].pc = "revoke"
    \/ /\ sessions \subseteq {user.pw}
       /\ \A c \in Calls : call[c].pc \in {"unlock", "open"} => call[c].snap.pw = user.pw

LEMMA OldStep == TypeInv /\ OldInv /\ [Next]_vars => OldInv'
  <1> SUFFICES ASSUME TypeInv, OldInv, [Next]_vars PROVE OldInv'
    OBVIOUS
  <1>1. ASSUME past.races \subseteq past'.races, past.races \cap {"lateLogin", "crash"} # {}
        PROVE  OldInv'
    BY <1>1 DEF OldInv
  <1>2. ASSUME NEW c \in Calls, Harmless(c) PROVE OldInv'
    <2>1. CASE \E d \in Calls : call[d].pc = "revoke"
      <3>1. PICK d \in Calls : call[d].pc = "revoke"
        BY <2>1
      <3> QED BY <1>2, <3>1 DEF Harmless, OldInv
    <2>2. CASE /\ sessions \subseteq {user.pw}
               /\ \A d \in Calls : call[d].pc \in {"unlock", "open"} => call[d].snap.pw = user.pw
      <3>1. ASSUME NEW d \in Calls, call'[d].pc \in {"unlock", "open"} PROVE call'[d].snap.pw = user'.pw
        BY <1>2, <2>2, <3>1 DEF Harmless
      <3> QED BY <1>2, <2>2, <3>1 DEF Harmless, OldInv
    <2> QED BY <1>1, <1>2, <2>1, <2>2 DEF Harmless, OldInv
  <1>3. ASSUME NEW c \in Calls, Unlock(c) \/ Open(c) PROVE OldInv'
    <2>1. /\ call[c].pc \in {"unlock", "open"} /\ call'[c].pc \in {"open", "clear"}
          /\ call'[c].snap = call[c].snap
          /\ \A d \in Calls \ {c} : call'[d] = call[d]
          /\ past.races \subseteq past'.races
          /\ sessions' \subseteq sessions \cup {call[c].snap.pw}
          /\ user'.pw \in {user.pw, call[c].snap.pw}
      <3>1. CASE Unlock(c)
        <4>1. call[c].snap \in User /\ user' = [call[c].snap EXCEPT !.lock = "none"]
          BY <3>1 DEF Unlock, TypeInv, TypeOK, Call
        <4>2. user'.pw = call[c].snap.pw
          BY <4>1 DEF User
        <4> QED BY <3>1, <4>2, Went, Remembered DEF Unlock, At
      <3>2. CASE Open(c)
        BY <3>2, Went DEF Open, At
      <3> QED BY <1>3, <3>1, <3>2
    <2>2. CASE \E d \in Calls : call[d].pc = "revoke"
      BY <2>1, <2>2 DEF OldInv
    <2>3. CASE /\ sessions \subseteq {user.pw}
               /\ \A d \in Calls : call[d].pc \in {"unlock", "open"} => call[d].snap.pw = user.pw
      <3>1. call[c].snap.pw = user.pw /\ user'.pw = user.pw
        BY <2>1, <2>3
      <3> QED BY <2>1, <2>3, <3>1 DEF OldInv
    <2> QED BY <1>1, <2>1, <2>2, <2>3 DEF OldInv
  <1>4. ASSUME NEW c \in Calls, Save(c) PROVE OldInv'
    <2>1. call'[c].pc = "revoke"
      BY <1>4, Went DEF Save
    <2> QED BY <2>1 DEF OldInv
  <1>5. ASSUME NEW c \in Calls, Revoke(c) PROVE OldInv'
    <2>1. /\ call'[c] = Idle /\ \A d \in Calls \ {c} : call'[d] = call[d]
          /\ user' = user /\ sessions' = {}
      BY <1>5, Left DEF Revoke
    <2>2. CASE \E d \in Others(c, {"unlock", "open"}) : call[d].snap.pw # user.pw
      BY <1>5, <2>2, Remembered DEF Revoke, OldInv
    <2>3. CASE ~ \E d \in Others(c, {"unlock", "open"}) : call[d].snap.pw # user.pw
      BY <2>1, <2>3 DEF Others, OldInv, Idle
    <2> QED BY <2>2, <2>3
  <1>6. CASE (\E k \in Keys : Expire(k)) \/ (\E i \in Rows : ExpireCode(i)) \/ UNCHANGED vars \/ Disable
    <2>1. CASE Disable
      <3>1. call' = call /\ past.races \subseteq past'.races /\ sessions' = {}
        BY <2>1 DEF Disable, TypeInv, TypeOK, Past
      <3>2. user'.pw = user.pw
        BY <2>1 DEF Disable, TypeInv, TypeOK, User
      <3> QED BY <1>1, <3>1, <3>2 DEF OldInv
    <2>2. CASE ~Disable
      <3>1. UNCHANGED << call, user, sessions >>
        BY <1>6, <2>2 DEF Expire, ExpireCode, vars
      <3>2. past.races \subseteq past'.races
        BY <1>6, <2>2, BesidePast
      <3> QED BY <1>1, <3>1, <3>2 DEF OldInv
    <2> QED BY <2>1, <2>2
  <1> QED BY <1>2, <1>3, <1>4, <1>5, <1>6, HarmlessOrWrites DEF Next, Writes

(***************************************************************************)
(* Once a reset is through, no session lives that was opened with an       *)
(* earlier password, except of a login that had checked it before the      *)
(* reset revoked the sessions (updateUserPassword saves, then revokes).    *)
(***************************************************************************)
THEOREM OldPasswordsAreOut == Spec => []OldPasswordsOpenNothing
  <1>1. Init => OldInv
    BY DEF Init, Idle, OldInv
  <1>2. OldInv => OldPasswordsOpenNothing
    BY DEF OldInv, OldPasswordsOpenNothing, At
  <1> QED BY <1>1, <1>2, OldStep, TypeInvariant, PTL DEF Spec

-----------------------------------------------------------------------------
(* Which steps touch the rows of codes, and which the storage. *)

Incrs == {"incrFound", "incrExpire"}

ForCodes(c) ==
    /\ UNCHANGED codes
    /\ past'.spent = past.spent /\ past'.tries = past.tries /\ past.races \subseteq past'.races
    /\ \A d \in Calls \ {c} : call'[d] = call[d]
    /\ call'[c].pc \notin {"spend", "issue", "tried"}

ForKeys(c) ==
    /\ UNCHANGED << kv, cfg >>
    /\ past.races \subseteq past'.races
    /\ \A d \in Calls \ {c} : call'[d] = call[d]
    /\ call[c].pc \notin Incrs /\ call'[c].pc \notin Incrs

LEMMA PlainStart ==
    ASSUME TypeInv, NEW c \in Calls, Login(c) \/ RequestReset(c) \/ Confirm(c)
    PROVE  ForCodes(c) /\ ForKeys(c)
  <1>1. ASSUME NEW kind, NEW pc \in {"checkLock", "readUser", "invalidate"},
               NEW admin, NEW given, NEW strong, Start(c, kind, pc, admin, given, strong)
        PROVE  ForCodes(c) /\ ForKeys(c)
    <2>1. PICK q : q = [Idle EXCEPT !.pc = pc, !.kind = kind, !.admin = admin,
                                    !.given = given, !.strong = strong]
      OBVIOUS
    <2>2. q.pc = pc
      BY <2>1 DEF Idle
    <2>3. call'[c] = q /\ \A d \in Calls \ {c} : call'[d] = call[d]
      BY <1>1, <2>1, Put DEF Start
    <2>4. call[c].pc = "idle" /\ UNCHANGED << cfg, kv, codes, past >>
      BY <1>1 DEF Start, At
    <2> QED BY <2>2, <2>3, <2>4 DEF ForCodes, ForKeys, Incrs
  <1>2. CASE Login(c)
    BY <1>1, <1>2 DEF Login
  <1>3. CASE RequestReset(c)
    BY <1>1, <1>3 DEF RequestReset
  <1>4. CASE Confirm(c)
    BY <1>1, <1>4 DEF Confirm
  <1> QED BY <1>2, <1>3, <1>4

LEMMA PlainSteps ==
    ASSUME TypeInv, NEW c \in Calls,
           \/ CheckLock(c) \/ ReadUser(c) \/ Unlock(c) \/ Open(c) \/ Counted(c)
           \/ Matched(c) \/ Load(c) \/ Save(c) \/ Revoke(c)
    PROVE  ForCodes(c) /\ ForKeys(c)
  <1>1. call[c] \in Call
    BY DEF TypeInv, TypeOK
  <1>2. CASE CheckLock(c)
    BY <1>2, Went, Left DEF CheckLock, At, ForCodes, ForKeys, Incrs, Idle
  <1>3. CASE ReadUser(c)
    <2>1. /\ call[c].pc = "readUser" /\ UNCHANGED << cfg, kv, codes >>
          /\ past'.spent = past.spent /\ past'.tries = past.tries /\ past'.races = past.races
      BY <1>3 DEF ReadUser, At, TypeInv, TypeOK, Past
    <2>2. ASSUME End(c) PROVE ForCodes(c) /\ ForKeys(c)
      BY <2>1, <2>2, Left DEF ForCodes, ForKeys, Incrs, Idle
    <2>3. ASSUME NEW pc \in {"unlock", "open", "find"},
                 call' = [call EXCEPT ![c] = [[call[c] EXCEPT !.snap = user] EXCEPT !.pc = pc]]
          PROVE  ForCodes(c) /\ ForKeys(c)
      <3>1. PICK q : q = [[call[c] EXCEPT !.snap = user] EXCEPT !.pc = pc]
        OBVIOUS
      <3>2. q.pc = pc
        BY <1>1, <3>1 DEF Call
      <3>3. call'[c] = q /\ \A d \in Calls \ {c} : call'[d] = call[d]
        BY <2>3, <3>1, Put
      <3> QED BY <2>1, <2>3, <3>2, <3>3 DEF ForCodes, ForKeys, Incrs
    <2>4. ASSUME NEW key, call' = [call EXCEPT ![c] = [@ EXCEPT !.pc = "incr", !.key = key]]
          PROVE  ForCodes(c) /\ ForKeys(c)
      <3>1. PICK q : q = [call[c] EXCEPT !.pc = "incr", !.key = key]
        OBVIOUS
      <3>2. q.pc = "incr"
        BY <1>1, <3>1 DEF Call
      <3>3. call'[c] = q /\ \A d \in Calls \ {c} : call'[d] = call[d]
        BY <2>4, <3>1, Put
      <3> QED BY <2>1, <3>2, <3>3 DEF ForCodes, ForKeys, Incrs
    <2> QED BY <1>3, <2>2, <2>3, <2>4 DEF ReadUser
  <1>4. CASE Unlock(c)
    BY <1>4, Went, Remembered DEF Unlock, At, ForCodes, ForKeys, Incrs
  <1>5. CASE Open(c)
    BY <1>5, Went DEF Open, At, ForCodes, ForKeys, Incrs
  <1>6. CASE Counted(c)
    BY <1>6, Went, Left DEF Counted, At, ForCodes, ForKeys, Incrs, Idle
  <1>7. CASE Matched(c)
    BY <1>7, Went, Left DEF Matched, At, ForCodes, ForKeys, Incrs, Idle
  <1>8. CASE Load(c)
    <2>1. call[c].pc = "load" /\ UNCHANGED << cfg, kv, codes, past >>
      BY <1>8 DEF Load, At
    <2>2. CASE call[c].strong
      <3> DEFINE pc == IF call[c].admin THEN "save" ELSE "findAgain"
      <3>1. PICK q : q = [call[c] EXCEPT !.pc = pc, !.snap = user]
        OBVIOUS
      <3>2. q.pc = pc
        BY <1>1, <3>1 DEF Call
      <3>3. call'[c] = q /\ \A d \in Calls \ {c} : call'[d] = call[d]
        BY <1>8, <2>2, <3>1, Put DEF Load
      <3> QED BY <2>1, <3>2, <3>3 DEF ForCodes, ForKeys, Incrs
    <2>3. CASE ~call[c].strong
      <3>1. End(c)
        BY <1>8, <2>3 DEF Load, End
      <3> QED BY <2>1, <3>1, Left DEF ForCodes, ForKeys, Incrs, Idle
    <2> QED BY <2>2, <2>3
  <1>9. CASE Save(c)
    BY <1>9, Went, Remembered DEF Save, At, ForCodes, ForKeys, Incrs
  <1>10. CASE Revoke(c)
    BY <1>10, Left, Remembered DEF Revoke, At, ForCodes, ForKeys, Incrs, Idle
  <1> QED BY <1>2, <1>3, <1>4, <1>5, <1>6, <1>7, <1>8, <1>9, <1>10

LEMMA CountSteps ==
    ASSUME TypeInv, NEW c \in Calls,
           \/ DropLock(c) \/ Clear(c) \/ Incr(c) \/ IncrFound(c) \/ IncrExpire(c)
           \/ IncrInsert(c) \/ SetLock(c) \/ Crash(c)
    PROVE  ForCodes(c)
  <1>1. call[c] \in Call
    BY DEF TypeInv, TypeOK
  <1>2. ASSUME NEW q, call' = [call EXCEPT ![c] = q], q.pc \in {"incrFound", "incrExpire", "counted"},
               UNCHANGED << codes, past >>
        PROVE  ForCodes(c)
    <2>1. call'[c] = q /\ \A d \in Calls \ {c} : call'[d] = call[d]
      BY <1>2, Put
    <2> QED BY <1>2, <2>1 DEF ForCodes
  <1>3. CASE DropLock(c)
    BY <1>3, Went, Remembered DEF DropLock, ForCodes
  <1>4. CASE Clear(c)
    <2>1. /\ past'.spent = past.spent /\ past'.tries = past.tries
          /\ past.races \subseteq past'.races
      BY <1>4 DEF Clear, TypeInv, TypeOK, Past
    <2> QED BY <1>4, <2>1, Left DEF Clear, ForCodes, Idle
  <1>5. CASE Incr(c)
    <2>1. UNCHANGED << codes, past >>
      BY <1>5 DEF Incr
    <2>2. ASSUME GoTo(c, "incrInsert") PROVE ForCodes(c)
      BY <2>1, <2>2, Went DEF ForCodes
    <2>3. ASSUME NEW fresh, call' = [call EXCEPT ![c] = [@ EXCEPT !.pc = "incrFound", !.fresh = fresh]]
          PROVE  ForCodes(c)
      <3>1. PICK q : q = [call[c] EXCEPT !.pc = "incrFound", !.fresh = fresh]
        OBVIOUS
      <3>2. q.pc = "incrFound"
        BY <1>1, <3>1 DEF Call
      <3> QED BY <1>2, <2>1, <2>3, <3>1, <3>2
    <2>4. ASSUME NEW n, call' = [call EXCEPT ![c] = [@ EXCEPT !.pc = "counted", !.n = n]]
          PROVE  ForCodes(c)
      <3>1. PICK q : q = [call[c] EXCEPT !.pc = "counted", !.n = n]
        OBVIOUS
      <3>2. q.pc = "counted"
        BY <1>1, <3>1 DEF Call
      <3> QED BY <1>2, <2>1, <2>4, <3>1, <3>2
    <2> QED BY <1>5, <2>2, <2>3, <2>4 DEF Incr
  <1>6. CASE IncrFound(c)
    <2> DEFINE n == kv[call[c].key].n + 1
               pc == IF call[c].fresh /\ n = 1 THEN "incrExpire" ELSE "counted"
    <2>1. /\ UNCHANGED << codes, past >>
          /\ call' = [call EXCEPT ![c] = [@ EXCEPT !.pc = pc, !.fresh = FALSE, !.n = n]]
      BY <1>6 DEF IncrFound
    <2>2. pc \in {"incrExpire", "counted"}
      OBVIOUS
    <2> HIDE DEF n, pc
    <2>3. PICK q : q = [call[c] EXCEPT !.pc = pc, !.fresh = FALSE, !.n = n]
      OBVIOUS
    <2>4. q.pc = pc
      BY <1>1, <2>3 DEF Call
    <2> QED BY <1>2, <2>1, <2>2, <2>3, <2>4
  <1>7. CASE IncrExpire(c)
    BY <1>7, Went DEF IncrExpire, ForCodes
  <1>8. CASE IncrInsert(c)
    <2>1. UNCHANGED << codes, past >>
      BY <1>8 DEF IncrInsert
    <2>2. ASSUME End(c) PROVE ForCodes(c)
      BY <2>1, <2>2, Left DEF ForCodes, Idle
    <2>3. ASSUME call' = [call EXCEPT ![c] = [@ EXCEPT !.pc = "counted", !.n = 1]]
          PROVE  ForCodes(c)
      <3>1. PICK q : q = [call[c] EXCEPT !.pc = "counted", !.n = 1]
        OBVIOUS
      <3>2. q.pc = "counted"
        BY <1>1, <3>1 DEF Call
      <3> QED BY <1>2, <2>1, <2>3, <3>1, <3>2
    <2> QED BY <1>8, <2>2, <2>3 DEF IncrInsert
  <1>9. CASE SetLock(c)
    <2>1. /\ past'.spent = past.spent /\ past'.tries = past.tries
          /\ past.races \subseteq past'.races
      BY <1>9, Remembered DEF SetLock
    <2> QED BY <1>9, <2>1, Went DEF SetLock, ForCodes
  <1>10. CASE Crash(c)
    BY <1>10, Left, Remembered DEF Crash, ForCodes, Idle
  <1> QED BY <1>3, <1>4, <1>5, <1>6, <1>7, <1>8, <1>9, <1>10

LEMMA CheckSteps ==
    ASSUME TypeInv, NEW c \in Calls, NEW onMatch \in {"matched", "spend"}, NEW i \in Rows,
           Checked(c, onMatch, i)
    PROVE  /\ call'[c].pc = IF call[c].given = i THEN onMatch ELSE "tried"
           /\ call'[c].row = i
           /\ \A d \in Calls \ {c} : call'[d] = call[d]
           /\ past'.spent = past.spent /\ past.races \subseteq past'.races
           /\ call'[c].pc = "spend" /\ "spends" \notin past'.races =>
                \A d \in Others(c, {"spend"}) : call[d].row # i
  <1> DEFINE pc == IF call[c].given = i THEN onMatch ELSE "tried"
  <1>1. call[c] \in Call
    BY DEF TypeInv, TypeOK
  <1>2. PICK q : q = [call[c] EXCEPT !.pc = pc, !.row = i, !.n = codes[i].attempts]
    OBVIOUS
  <1>3. q.pc = pc /\ q.row = i
    BY <1>1, <1>2 DEF Call
  <1>4. call' = [call EXCEPT ![c] = q]
    BY <1>2 DEF Checked
  <1>5. call'[c] = q /\ \A d \in Calls \ {c} : call'[d] = call[d]
    BY <1>4, Put
  <1>6. PICK R \in SUBSET Races :
          /\ past' = [past EXCEPT !.tries[i] = IF call[c].given = i THEN @ ELSE @ + 1, !.races = @ \cup R]
          /\ call[c].given = i /\ onMatch = "spend" /\ (\E d \in Others(c, {"spend"}) : call[d].row = i)
                  => "spends" \in R
    BY DEF Checked
  <1>7. past'.spent = past.spent /\ past'.races = past.races \cup R
    BY <1>6 DEF TypeInv, TypeOK, Past
  <1> QED BY <1>3, <1>5, <1>6, <1>7

LEMMA CheckTries ==
    ASSUME TypeInv, NEW c \in Calls, NEW onMatch \in {"matched", "spend"}, NEW i \in Rows,
           Checked(c, onMatch, i)
    PROVE  /\ call'[c].n = codes[i].attempts
           /\ codes[i].st = "unused" /\ TriesLeft(i)
           /\ past'.tries = [past.tries EXCEPT ![i] = IF call[c].given = i THEN @ ELSE @ + 1]
           /\ call'[c].pc = "tried" /\ "tries" \notin past'.races =>
                \A d \in Others(c, {"tried"}) : call[d].row # i
  <1> DEFINE pc == IF call[c].given = i THEN onMatch ELSE "tried"
  <1>1. call[c] \in Call
    BY DEF TypeInv, TypeOK
  <1>2. PICK q : q = [call[c] EXCEPT !.pc = pc, !.row = i, !.n = codes[i].attempts]
    OBVIOUS
  <1>3. q.pc = pc /\ q.n = codes[i].attempts
    BY <1>1, <1>2 DEF Call
  <1>4. call' = [call EXCEPT ![c] = q] /\ codes[i].st = "unused" /\ TriesLeft(i)
    BY <1>2 DEF Checked, Newest
  <1>5. call'[c] = q
    BY <1>4, Put
  <1>6. PICK R \in SUBSET Races :
          /\ past' = [past EXCEPT !.tries[i] = IF call[c].given = i THEN @ ELSE @ + 1, !.races = @ \cup R]
          /\ ~(call[c].given = i) /\ (\E d \in Others(c, {"tried"}) : call[d].row = i) => "tries" \in R
    BY DEF Checked
  <1>7. /\ past'.races = past.races \cup R
        /\ past'.tries = [past.tries EXCEPT ![i] = IF call[c].given = i THEN @ ELSE @ + 1]
    BY <1>6 DEF TypeInv, TypeOK, Past
  <1> QED BY <1>3, <1>4, <1>5, <1>6, <1>7

LEMMA CodeSteps ==
    ASSUME TypeInv, NEW c \in Calls,
           \/ Find(c) \/ FindAgain(c) \/ Tried(c) \/ Spend(c) \/ Invalidate(c) \/ Issue(c)
    PROVE  ForKeys(c)
  <1>1. ASSUME NEW onMatch \in {"matched", "spend"}, AssertValidCode(c, onMatch),
               UNCHANGED << kv, cfg >>, call[c].pc \notin Incrs
        PROVE  ForKeys(c)
    <2>1. CASE End(c) /\ UNCHANGED past
      BY <1>1, <2>1, Left DEF ForKeys, Incrs, Idle
    <2>2. ASSUME NEW i \in Rows, Checked(c, onMatch, i) PROVE ForKeys(c)
      BY <1>1, <2>2, CheckSteps DEF ForKeys, Incrs
    <2> QED BY <1>1, <2>1, <2>2, CheckShape
  <1>2. CASE Find(c)
    BY <1>1, <1>2 DEF Find, At, Incrs
  <1>3. CASE FindAgain(c)
    BY <1>1, <1>3 DEF FindAgain, At, Incrs
  <1>4. CASE Tried(c)
    BY <1>4, Left DEF Tried, At, ForKeys, Incrs, Idle
  <1>5. CASE Spend(c)
    <2>1. past'.races = past.races
      BY <1>5 DEF Spend, TypeInv, TypeOK, Past
    <2> QED BY <1>5, <2>1, Went DEF Spend, At, ForKeys, Incrs
  <1>6. CASE Invalidate(c)
    BY <1>6, Went, Remembered DEF Invalidate, At, ForKeys, Incrs
  <1>7. CASE Issue(c)
    BY <1>7, Left DEF Issue, At, ForKeys, Incrs, Idle
  <1> QED BY <1>2, <1>3, <1>4, <1>5, <1>6, <1>7

-----------------------------------------------------------------------------
(* One use of a code, and one unused code. *)

Spending(k, i) == k.pc = "spend" /\ k.row = i

SpendInv ==
    "spends" \notin past.races =>
      \A i \in Rows :
        /\ past.spent[i] = 0 \/ (past.spent[i] = 1 /\ codes[i].st = "used")
        /\ \A c \in Calls : Spending(call[c], i) => past.spent[i] = 0
        /\ \A c, d \in Calls : Spending(call[c], i) /\ Spending(call[d], i) => c = d

IssueInv ==
    "requests" \notin past.races =>
      /\ \A c, d \in Calls : call[c].pc = "issue" /\ call[d].pc = "issue" => c = d
      /\ \A c \in Calls, i \in Rows :
           call[c].pc = "issue" /\ codes[i].st = "unused" => codes[i].admin # call[c].admin
      /\ \A i, j \in Rows :
           codes[i].st = "unused" /\ codes[j].st = "unused" /\ codes[i].admin = codes[j].admin => i = j

\* The same codes as before, for all that SpendInv and IssueInv look at.
SameCodes == \A i \in Rows : codes'[i].st = codes[i].st /\ codes'[i].admin = codes[i].admin

LEMMA CodesLeft ==
    ASSUME SpendInv, IssueInv, SameCodes,
           past'.spent = past.spent, past.races \subseteq past'.races, NEW c \in Calls,
           \A d \in Calls \ {c} : call'[d] = call[d],
           call'[c].pc \notin {"spend", "issue"}
    PROVE  SpendInv' /\ IssueInv'
  <1>1. ASSUME NEW d \in Calls, NEW i \in Rows, Spending(call'[d], i) PROVE Spending(call[d], i)
    BY <1>1 DEF Spending
  <1>2. ASSUME NEW d \in Calls, call'[d].pc = "issue" PROVE call[d].pc = "issue" /\ call'[d] = call[d]
    BY <1>2
  <1>3. SpendInv'
    BY <1>1 DEF SpendInv, SameCodes
  <1>4. IssueInv'
    BY <1>2 DEF IssueInv, SameCodes
  <1> QED BY <1>3, <1>4

LEMMA CodesOf ==
    ASSUME TypeInv, NEW c \in Calls, Tried(c) \/ (\E i \in Rows : ExpireCode(i))
    PROVE  SameCodes
  <1>1. CASE Tried(c)
    <2>1. call[c].row \in Rows
      BY <1>1 DEF Tried, At, TypeInv, Fits
    <2> QED BY <1>1, <2>1 DEF Tried, SameCodes, TypeInv, TypeOK, Code
  <1>2. CASE \E i \in Rows : ExpireCode(i)
    BY <1>2 DEF ExpireCode, SameCodes, TypeInv, TypeOK, Code
  <1> QED BY <1>1, <1>2

LEMMA CodesStep == TypeInv /\ SpendInv /\ IssueInv /\ [Next]_vars => SpendInv' /\ IssueInv'
  <1> SUFFICES ASSUME TypeInv, SpendInv, IssueInv, [Next]_vars PROVE SpendInv' /\ IssueInv'
    OBVIOUS
  <1>1. ASSUME NEW c \in Calls, ForCodes(c) PROVE SpendInv' /\ IssueInv'
    BY <1>1, CodesLeft DEF ForCodes, SameCodes
  <1>2. ASSUME NEW c \in Calls, NEW onMatch \in {"matched", "spend"}, AssertValidCode(c, onMatch),
               UNCHANGED codes
        PROVE  SpendInv' /\ IssueInv'
    <2>1. CASE End(c) /\ UNCHANGED past
      BY <1>2, <2>1, Left, CodesLeft DEF Idle, SameCodes
    <2>2. ASSUME NEW i \in Rows, Checked(c, onMatch, i) PROVE SpendInv' /\ IssueInv'
      <3>1. /\ call'[c].pc = IF call[c].given = i THEN onMatch ELSE "tried"
            /\ call'[c].row = i
            /\ \A d \in Calls \ {c} : call'[d] = call[d]
            /\ past'.spent = past.spent /\ past.races \subseteq past'.races
            /\ call'[c].pc = "spend" /\ "spends" \notin past'.races =>
                 \A d \in Others(c, {"spend"}) : call[d].row # i
        BY <1>2, <2>2, CheckSteps
      <3>2. CASE call'[c].pc # "spend"
        BY <1>2, <3>1, <3>2, CodesLeft DEF SameCodes
      <3>3. CASE call'[c].pc = "spend"
        <4>1. IssueInv'
          <5>1. \A d \in Calls : call'[d].pc = "issue" => call[d].pc = "issue" /\ call'[d] = call[d]
            BY <3>1, <3>3
          <5> QED BY <1>2, <3>1, <5>1 DEF IssueInv
        <4>2. codes[i].st = "unused"
          BY <2>2 DEF Checked, Newest
        <4>3. ASSUME "spends" \notin past'.races PROVE SpendInv'
          <5>1. \A d \in Calls \ {c} : ~Spending(call[d], i)
            BY <3>1, <3>3, <4>3 DEF Others, Spending
          <5>2. past.spent[i] = 0
            BY <3>1, <4>2, <4>3 DEF SpendInv
          <5>3. ASSUME NEW d \in Calls, NEW j \in Rows, Spending(call'[d], j)
                PROVE  (d = c /\ j = i) \/ (d # c /\ j # i /\ Spending(call[d], j))
            BY <3>1, <5>1, <5>3 DEF Spending
          <5> QED BY <1>2, <3>1, <4>3, <5>2, <5>3 DEF SpendInv
        <4> QED BY <4>1, <4>3 DEF SpendInv
      <3> QED BY <3>2, <3>3
    <2> QED BY <1>2, <2>1, <2>2, CheckShape
  <1>3. ASSUME NEW c \in Calls, Find(c) \/ FindAgain(c) PROVE SpendInv' /\ IssueInv'
    BY <1>2, <1>3 DEF Find, FindAgain
  <1>4. ASSUME NEW c \in Calls, Tried(c) PROVE SpendInv' /\ IssueInv'
    <2>1. /\ call'[c] = Idle /\ \A d \in Calls \ {c} : call'[d] = call[d]
          /\ past' = past
      BY <1>4, Left DEF Tried
    <2> QED BY <1>4, <2>1, CodesOf, CodesLeft DEF Idle
  <1>5. ASSUME NEW c \in Calls, Spend(c) PROVE SpendInv' /\ IssueInv'
    <2>1. /\ call[c].pc = "spend" /\ call[c].row \in Rows
          /\ call'[c].pc \in {"load", "save"}
          /\ \A d \in Calls \ {c} : call'[d] = call[d]
      BY <1>5, Went DEF Spend, At, TypeInv, Fits
    <2>2. /\ past'.races = past.races
          /\ past'.spent = [past.spent EXCEPT ![call[c].row] = @ + 1]
          /\ past.spent \in [Rows -> Nat]
      BY <1>5, <2>1 DEF Spend, TypeInv, TypeOK, Past
    <2>3. /\ codes'[call[c].row].st = "used"
          /\ \A i \in Rows : codes'[i].admin = codes[i].admin
          /\ \A i \in Rows \ {call[c].row} : codes'[i].st = codes[i].st
      BY <1>5, <2>1 DEF Spend, TypeInv, TypeOK, Code
    <2>4. IssueInv'
      <3>1. \A d \in Calls : call'[d].pc = "issue" => call[d].pc = "issue" /\ call'[d] = call[d]
        BY <2>1
      <3>2. \A i \in Rows : codes'[i].st = "unused" => codes[i].st = "unused"
        BY <2>3
      <3> QED BY <2>2, <2>3, <3>1, <3>2 DEF IssueInv
    <2>5. ASSUME "spends" \notin past.races PROVE SpendInv'
      <3>1. past.spent[call[c].row] = 0
        BY <2>1, <2>5 DEF SpendInv, Spending
      <3>2. ASSUME NEW d \in Calls, NEW j \in Rows, Spending(call'[d], j)
            PROVE  Spending(call[d], j) /\ j # call[c].row
        <4>1. d # c /\ call'[d] = call[d]
          BY <2>1, <3>2 DEF Spending
        <4> QED BY <2>1, <2>5, <3>2, <4>1 DEF SpendInv, Spending
      <3>3. past'.spent[call[c].row] = 1
        BY <2>1, <2>2, <3>1
      <3>4. \A i \in Rows \ {call[c].row} : past'.spent[i] = past.spent[i]
        BY <2>2
      <3> QED BY <2>2, <2>3, <2>5, <3>2, <3>3, <3>4 DEF SpendInv
    <2> QED BY <2>2, <2>4, <2>5 DEF SpendInv
  <1>6. ASSUME NEW c \in Calls, Invalidate(c) PROVE SpendInv' /\ IssueInv'
    <2>1. /\ call[c].pc = "invalidate" /\ call'[c].pc = "issue" /\ call'[c].admin = call[c].admin
          /\ \A d \in Calls \ {c} : call'[d] = call[d]
          /\ past'.spent = past.spent /\ past.races \subseteq past'.races
      BY <1>6, Went, Remembered DEF Invalidate, At
    <2>2. "requests" \notin past'.races => Others(c, {"issue"}) = {}
      BY <1>6, Remembered DEF Invalidate
    <2>3. ASSUME NEW i \in Rows
          PROVE  /\ codes'[i].admin = codes[i].admin
                 /\ codes'[i].st \in {codes[i].st, "used"}
                 /\ codes'[i].st = "unused" => codes[i].st = "unused" /\ codes[i].admin # call[c].admin
                 /\ codes[i].st = "used" => codes'[i].st = "used"
      BY <1>6 DEF Invalidate, TypeInv, TypeOK, Code
    <2>4. SpendInv'
      <3>1. ASSUME NEW d \in Calls, NEW i \in Rows, Spending(call'[d], i) PROVE Spending(call[d], i)
        BY <2>1, <3>1 DEF Spending
      <3> QED BY <2>1, <2>3, <3>1 DEF SpendInv
    <2>5. ASSUME "requests" \notin past'.races PROVE IssueInv'
      <3>1. ASSUME NEW d \in Calls, call'[d].pc = "issue" PROVE d = c
        BY <2>1, <2>2, <2>5, <3>1 DEF Others
      <3> QED BY <2>1, <2>3, <2>5, <3>1 DEF IssueInv
    <2> QED BY <2>4, <2>5 DEF IssueInv
  <1>7. ASSUME NEW c \in Calls, Issue(c) PROVE SpendInv' /\ IssueInv'
    <2>1. /\ call[c].pc = "issue" /\ call'[c] = Idle /\ past' = past
          /\ \A d \in Calls \ {c} : call'[d] = call[d]
      BY <1>7, Left DEF Issue, At
    <2>2. PICK i \in NextRow :
            codes' = [codes EXCEPT ![i] = [NoCode EXCEPT !.st = "unused", !.admin = call[c].admin]]
      BY <1>7 DEF Issue
    <2>3. /\ i \in Rows /\ codes[i].st = "none"
          /\ codes'[i].st = "unused" /\ codes'[i].admin = call[c].admin
          /\ \A j \in Rows \ {i} : codes'[j] = codes[j]
      BY <2>2 DEF NextRow, NoCode, TypeInv, TypeOK
    <2>4. ASSUME NEW d \in Calls PROVE call'[d].pc \in {"issue", "spend"} => d # c /\ call'[d] = call[d]
      BY <2>1 DEF Idle
    <2>5. ASSUME "spends" \notin past.races PROVE SpendInv'
      <3>1. past.spent[i] = 0
        BY <2>3, <2>5 DEF SpendInv
      <3>2. ASSUME NEW d \in Calls, NEW j \in Rows, Spending(call'[d], j) PROVE Spending(call[d], j)
        BY <2>4, <3>2 DEF Spending
      <3> QED BY <2>1, <2>3, <2>5, <3>1, <3>2 DEF SpendInv
    <2>6. ASSUME "requests" \notin past.races PROVE IssueInv'
      <3>1. \A d \in Calls : call'[d].pc # "issue"
        BY <2>1, <2>4, <2>6 DEF IssueInv
      <3>2. \A j \in Rows \ {i} : codes[j].st = "unused" => codes[j].admin # call[c].admin
        BY <2>1, <2>6 DEF IssueInv
      <3>3. ASSUME NEW j \in Rows, NEW k \in Rows, codes'[j].st = "unused", codes'[k].st = "unused",
                   codes'[j].admin = codes'[k].admin
            PROVE  j = k
        <4>1. CASE j # i /\ k # i
          BY <2>3, <2>6, <3>3, <4>1 DEF IssueInv
        <4>2. CASE j = i \/ k = i
          BY <2>3, <3>2, <3>3, <4>2
        <4> QED BY <4>1, <4>2
      <3> QED BY <3>1, <3>3 DEF IssueInv
    <2> QED BY <2>1, <2>5, <2>6 DEF SpendInv, IssueInv
  <1>8. CASE (\E k \in Keys : Expire(k)) \/ (\E i \in Rows : ExpireCode(i)) \/ UNCHANGED vars \/ Disable
    <2>1. call' = call /\ past'.spent = past.spent /\ past.races \subseteq past'.races
      <3>1. CASE Disable
        BY <3>1 DEF Disable, TypeInv, TypeOK, Past
      <3>2. CASE ~Disable
        BY <1>8, <3>2, BesidePast DEF Expire, ExpireCode, vars
      <3> QED BY <3>1, <3>2
    <2>2. SameCodes
      <3>1. CASE \E i \in Rows : ExpireCode(i)
        BY <3>1 DEF ExpireCode, SameCodes, TypeInv, TypeOK, Code
      <3>2. CASE ~ \E i \in Rows : ExpireCode(i)
        BY <1>8, <3>2 DEF Expire, Disable, vars, SameCodes
      <3> QED BY <3>1, <3>2
    <2>3. SpendInv'
      BY <2>1, <2>2 DEF SpendInv, SameCodes
    <2>4. IssueInv'
      BY <2>1, <2>2 DEF IssueInv, SameCodes
    <2> QED BY <2>3, <2>4
  <1>9. ASSUME NEW c \in Calls, Step(c) PROVE SpendInv' /\ IssueInv'
    BY <1>1, <1>3, <1>4, <1>5, <1>6, <1>7, <1>9, PlainSteps, CountSteps DEF Step
  <1>10. ASSUME NEW c \in Calls, Login(c) \/ RequestReset(c) \/ Confirm(c) \/ Crash(c)
         PROVE  SpendInv' /\ IssueInv'
    BY <1>1, <1>10, PlainStart, CountSteps
  <1> QED BY <1>8, <1>9, <1>10 DEF Next

(***************************************************************************)
(* A reset code sets a password once, and asking for a code invalidates    *)
(* the ones before it, unless two confirmations, or two requests, run      *)
(* between each other's two steps (consumeValidCode checks, then saves;    *)
(* requestReset invalidates, then inserts).                                *)
(***************************************************************************)
THEOREM OneCodeOneUse == Spec => []OneUseOfOneCode
  <1>1. Init => SpendInv /\ IssueInv
    <2> SUFFICES ASSUME Init PROVE SpendInv /\ IssueInv
      OBVIOUS
    <2>1. /\ \A c \in Calls : call[c].pc = "idle"
          /\ \A i \in Rows : past.spent[i] = 0
          /\ \A i \in Rows : codes[i].st = "unused" => i = 1
      BY DEF Init, Idle, Nothing, NoCode
    <2> QED BY <2>1 DEF SpendInv, IssueInv, Spending
  <1>2. SpendInv /\ IssueInv => OneUseOfOneCode
    <2> SUFFICES ASSUME SpendInv, IssueInv PROVE OneUseOfOneCode
      OBVIOUS
    <2>1. "spends" \in past.races \/ \A i \in Rows : past.spent[i] <= 1
      BY DEF SpendInv
    <2> QED BY <2>1 DEF IssueInv, OneUseOfOneCode
  <1> QED BY <1>1, <1>2, CodesStep, TypeInvariant, PTL DEF Spec

-----------------------------------------------------------------------------
(* The lifetime of the counters. *)

KeysInv ==
    /\ CountersExpire
    /\ \A c \in Calls :
         /\ call[c].pc \in Incrs => cfg.adapter = "redis"
         /\ call[c].pc = "incrFound" /\ ~call[c].fresh /\ kv[call[c].key].n = 0
              => "lostKey" \in past.races

\* A step of c at key k, that leaves the other keys alone, in one of the ways that preserve
\* the invariant.
AtKey(c, k) ==
    /\ \A j \in Keys \ {k} : kv'[j] = kv[j]
    /\ cfg' = cfg
    /\ past.races \subseteq past'.races
    /\ \A d \in Calls \ {c} : call'[d] = call[d]
    /\ call[c].pc = "incrExpire" =>
         call[c].key = k /\ (kv'[k].n = 0 \/ kv'[k].ttl # "none")
    /\ call'[c].pc \in Incrs => cfg.adapter = "redis"
    /\ call'[c].pc = "incrFound" /\ ~call'[c].fresh => kv'[call'[c].key].n # 0
    /\ kv'[k].n = 0 =>
         \/ kv[k].n = 0 \/ k \notin Counters \/ "lostKey" \in past'.races
         \/ \A d \in Calls \ {c} : ~(call[d].pc = "incrFound" /\ call[d].key = k)
    /\ kv'[k].n > 0 /\ kv'[k].ttl = "none" =>
         \/ k \notin Counters
         \/ kv[k].n > 0 /\ kv[k].ttl = "none"
         \/ call'[c].pc = "incrExpire" /\ call'[c].key = k
         \/ cfg.adapter = "redis" /\ "lostKey" \in past'.races

LEMMA KeysStep == TypeInv /\ KeysInv /\ [Next]_vars => KeysInv'
  <1> SUFFICES ASSUME TypeInv, KeysInv, [Next]_vars PROVE KeysInv'
    OBVIOUS
  <1> USE DEF At
  <1>1. /\ kv \in [Keys -> Entry] /\ Counters \subseteq Keys
        /\ \A k \in Keys : kv[k].n \in Nat
        /\ \A c \in Calls : call[c] \in Call /\ (call[c].pc \in Incrs \cup {"incr", "incrInsert"} => call[c].key \in Counters)
    BY DEF TypeInv, TypeOK, Entry, Counters, Keys, Incrs, Fits
  <1>2. ASSUME NEW c \in Calls, ForKeys(c) PROVE KeysInv'
    <2>1. ASSUME NEW d \in Calls
          PROVE  /\ call'[d].pc \in Incrs => d # c /\ call'[d] = call[d]
                 /\ call[d].pc \in Incrs => d # c /\ call'[d] = call[d]
      BY <1>2 DEF ForKeys
    <2>2. CountersExpire'
      BY <1>2, <2>1 DEF ForKeys, KeysInv, CountersExpire, Incrs
    <2> QED BY <1>2, <2>1, <2>2 DEF ForKeys, KeysInv, Incrs
  <1>3. ASSUME NEW c \in Calls, NEW k \in Keys, AtKey(c, k)
        PROVE  KeysInv'
    <2>1. \A j \in Keys \ {k} : kv'[j] = kv[j]
      BY <1>3 DEF AtKey
    <2>2. ASSUME NEW d \in Calls, d # c, call'[d].pc = "incrFound", ~call'[d].fresh,
                 kv'[call'[d].key].n = 0
          PROVE  "lostKey" \in past'.races
      <3>1. call'[d] = call[d] /\ call[d].key \in Counters
        BY <1>1, <1>3, <2>2 DEF Incrs, AtKey
      <3>2. CASE call[d].key # k \/ kv[k].n = 0
        <4>1. kv[call[d].key].n = 0
          BY <1>1, <2>1, <2>2, <3>1, <3>2
        <4> QED BY <1>3, <2>2, <3>1, <4>1 DEF KeysInv, AtKey
      <3>3. CASE call[d].key = k /\ kv[k].n # 0
        BY <1>3, <2>2, <3>1, <3>3 DEF AtKey
      <3> QED BY <3>2, <3>3
    <2>3. ASSUME NEW j \in Counters, kv'[j].n > 0, kv'[j].ttl = "none"
          PROVE  \/ \E d \in Calls : call'[d].pc = "incrExpire" /\ call'[d].key = j
                 \/ cfg'.adapter = "redis" /\ past'.races \cap {"lostKey", "crash"} # {}
      <3>1. ASSUME kv[j].n > 0, kv[j].ttl = "none"
            PROVE  \/ \E d \in Calls : call'[d].pc = "incrExpire" /\ call'[d].key = j
                   \/ cfg'.adapter = "redis" /\ past'.races \cap {"lostKey", "crash"} # {}
        <4>1. CASE \E d \in Calls : call[d].pc = "incrExpire" /\ call[d].key = j
          <5>1. PICK d \in Calls : call[d].pc = "incrExpire" /\ call[d].key = j
            BY <4>1
          <5>2. d # c
            BY <1>3, <2>3, <5>1 DEF AtKey
          <5> QED BY <1>3, <5>1, <5>2 DEF AtKey
        <4>2. CASE cfg.adapter = "redis" /\ past.races \cap {"lostKey", "crash"} # {}
          BY <1>3, <4>2 DEF AtKey
        <4> QED BY <3>1, <4>1, <4>2 DEF KeysInv, CountersExpire, Counters
      <3>2. CASE j # k
        BY <1>1, <2>1, <2>3, <3>1, <3>2
      <3>3. CASE j = k
        BY <1>3, <2>3, <3>1, <3>3 DEF AtKey
      <3> QED BY <3>2, <3>3
    <2>4. CountersExpire'
      BY <2>3 DEF CountersExpire, Counters
    <2>5. ASSUME NEW d \in Calls
          PROVE  /\ call'[d].pc \in Incrs => cfg'.adapter = "redis"
                 /\ call'[d].pc = "incrFound" /\ ~call'[d].fresh /\ kv'[call'[d].key].n = 0
                      => "lostKey" \in past'.races
      <3>1. CASE d = c
        BY <1>3, <3>1 DEF AtKey
      <3>2. CASE d # c
        BY <1>3, <2>2, <3>2 DEF KeysInv, AtKey
      <3> QED BY <3>1, <3>2
    <2> QED BY <2>4, <2>5 DEF KeysInv
  <1>4. ASSUME NEW c \in Calls, DropLock(c) PROVE KeysInv'
    <2>1. /\ call[c].pc = "dropLock" /\ call'[c].pc = "readUser" /\ cfg' = cfg
          /\ \A d \in Calls \ {c} : call'[d] = call[d]
          /\ past.races \subseteq past'.races
          /\ kv' = [kv EXCEPT !["lock"] = Absent]
      BY <1>4, Went, Remembered DEF DropLock
    <2>2. "lock" \in Keys \ Counters
      BY DEF Keys, Counters
    <2>3. AtKey(c, "lock")
      BY <1>1, <2>1, <2>2 DEF Incrs, AtKey
    <2> QED BY <1>3, <2>2, <2>3
  <1>5. ASSUME NEW c \in Calls, Clear(c) PROVE KeysInv'
    <2>1. /\ call[c].pc = "clear" /\ call'[c].pc = "idle" /\ cfg' = cfg
          /\ \A d \in Calls \ {c} : call'[d] = call[d]
          /\ kv' = [kv EXCEPT !["failed"] = Absent] /\ "failed" \in Keys
      BY <1>5, Left DEF Clear, Idle, Keys
    <2>2. past'.races = past.races \cup Removing("failed", c)
      BY <1>5 DEF Clear, TypeInv, TypeOK, Past
    <2>3. "lostKey" \in past'.races
            \/ \A d \in Calls \ {c} : ~(call[d].pc = "incrFound" /\ call[d].key = "failed")
      BY <2>2 DEF Removing
    <2>4. kv'["failed"].n = 0
      BY <1>1, <2>1 DEF Absent
    <2>5. \A j \in Keys \ {"failed"} : kv'[j] = kv[j]
      BY <1>1, <2>1
    <2>6. AtKey(c, "failed")
      BY <2>1, <2>2, <2>3, <2>4, <2>5 DEF Incrs, AtKey
    <2> QED BY <1>3, <2>1, <2>6
  <1>6. ASSUME NEW c \in Calls, Incr(c) PROVE KeysInv'
    <2> DEFINE k == call[c].key
    <2>1. /\ call[c].pc = "incr" /\ k \in Counters /\ k \in Keys
          /\ UNCHANGED << cfg, past >>
      BY <1>1, <1>6 DEF Incr
    <2>2. ASSUME call' = [call EXCEPT ![c] = [@ EXCEPT !.pc = "incrFound", !.fresh = ~Live(k)]],
                 cfg.adapter = "redis", UNCHANGED kv
          PROVE  KeysInv'
      <3>1. PICK q : q = [call[c] EXCEPT !.pc = "incrFound", !.fresh = ~Live(k)]
        OBVIOUS
      <3>2. q.pc = "incrFound" /\ q.key = k /\ q.fresh = ~Live(k)
        BY <1>1, <3>1 DEF Call
      <3>3. call'[c] = q /\ \A d \in Calls \ {c} : call'[d] = call[d]
        BY <2>2, <3>1, Put
      <3>4. ~q.fresh => kv[k].n # 0
        <4>1. CASE Live(k)
          BY <4>1 DEF Live
        <4>2. CASE ~Live(k)
          BY <3>2, <4>2, Zenon
        <4> QED BY <4>1, <4>2
      <3> HIDE DEF k
      <3>5. AtKey(c, k)
        BY <1>1, <2>1, <2>2, <3>2, <3>3, <3>4 DEF AtKey
      <3> QED BY <1>3, <2>1, <3>5
    <2>3. ASSUME GoTo(c, "incrInsert"), UNCHANGED kv PROVE KeysInv'
      <3>1. call'[c].pc = "incrInsert" /\ \A d \in Calls \ {c} : call'[d] = call[d]
        BY <2>3, Went
      <3> HIDE DEF k
      <3>2. AtKey(c, k)
        BY <1>1, <2>1, <2>3, <3>1 DEF Incrs, AtKey
      <3> QED BY <1>3, <2>1, <3>2
    <2>4. ASSUME kv' = [kv EXCEPT ![k] = Incremented(k)],
                 call' = [call EXCEPT ![c] = [@ EXCEPT !.pc = "counted", !.n = kv'[k].n]]
          PROVE  KeysInv'
      <3>1. PICK q : q = [call[c] EXCEPT !.pc = "counted", !.n = kv'[k].n]
        OBVIOUS
      <3>2. q.pc = "counted"
        BY <1>1, <3>1 DEF Call
      <3>3. call'[c] = q /\ \A d \in Calls \ {c} : call'[d] = call[d]
        BY <2>4, <3>1, Put
      <3>4. /\ kv'[k] = Incremented(k) /\ Incremented(k).n > 0
            /\ Incremented(k).ttl = "none" => kv[k].n > 0 /\ kv[k].ttl = "none"
        BY <1>1, <2>1, <2>4 DEF Incremented, Live, Entry
      <3>5. \A j \in Keys \ {k} : kv'[j] = kv[j]
        BY <1>1, <2>1, <2>4
      <3> HIDE DEF k
      <3>6. AtKey(c, k)
        BY <2>1, <3>2, <3>3, <3>4, <3>5 DEF Incrs, AtKey
      <3> QED BY <1>3, <2>1, <3>6
    <2> QED BY <1>6, <2>2, <2>3, <2>4 DEF Incr
  <1>7. ASSUME NEW c \in Calls, IncrFound(c) PROVE KeysInv'
    <2> DEFINE k == call[c].key
               n == kv[k].n + 1
               pc == IF call[c].fresh /\ n = 1 THEN "incrExpire" ELSE "counted"
    <2>1. /\ call[c].pc = "incrFound" /\ k \in Counters /\ k \in Keys /\ cfg.adapter = "redis"
          /\ UNCHANGED << cfg, past >>
          /\ kv' = [kv EXCEPT ![k].n = n]
          /\ call' = [call EXCEPT ![c] = [@ EXCEPT !.pc = pc, !.fresh = FALSE, !.n = n]]
      BY <1>1, <1>7 DEF IncrFound, Incrs, KeysInv
    <2>2. /\ pc \in {"incrExpire", "counted"}
          /\ pc = "counted" => kv[k].n > 0 \/ "lostKey" \in past.races
      BY <1>1, <2>1 DEF KeysInv
    <2>3. kv'[k].n > 0 /\ kv'[k].ttl = kv[k].ttl /\ kv' = [kv EXCEPT ![k] = [@ EXCEPT !.n = n]]
      BY <1>1, <2>1 DEF Entry
    <2> HIDE DEF n, pc
    <2>4. PICK q : q = [call[c] EXCEPT !.pc = pc, !.fresh = FALSE, !.n = n]
      OBVIOUS
    <2>5. q.pc = pc /\ q.key = k
      BY <1>1, <2>4 DEF Call
    <2>6. call'[c] = q /\ \A d \in Calls \ {c} : call'[d] = call[d]
      BY <2>1, <2>4, Put
    <2>7. \A j \in Keys \ {k} : kv'[j] = kv[j]
      BY <1>1, <2>3
    <2>8. /\ call[c].pc = "incrFound" /\ cfg.adapter = "redis" /\ k \in Keys
          /\ UNCHANGED << cfg, past >> /\ kv'[k].n > 0 /\ kv'[k].ttl = kv[k].ttl
          /\ call'[c].pc = pc /\ call'[c].key = k
          /\ \A d \in Calls \ {c} : call'[d] = call[d]
          /\ kv'[k].n # 0
      BY <1>1, <2>1, <2>3, <2>5, <2>6
    <2> HIDE DEF k
    <2>9. AtKey(c, k)
      BY <2>2, <2>7, <2>8 DEF Incrs, AtKey
    <2> QED BY <1>3, <2>8, <2>9
  <1>8. ASSUME NEW c \in Calls, IncrExpire(c) PROVE KeysInv'
    <2> DEFINE k == call[c].key
    <2>1. /\ call[c].pc = "incrExpire" /\ k \in Counters /\ k \in Keys
          /\ UNCHANGED << cfg, past >>
          /\ kv' = IF Live(k) THEN [kv EXCEPT ![k].ttl = "running"] ELSE kv
          /\ call'[c].pc = "counted" /\ \A d \in Calls \ {c} : call'[d] = call[d]
      BY <1>1, <1>8, Went DEF IncrExpire, Incrs
    <2>2. /\ kv'[k].n = kv[k].n
          /\ kv'[k].n = 0 \/ kv'[k].ttl # "none"
          /\ kv' \in {kv, [kv EXCEPT ![k] = [@ EXCEPT !.ttl = "running"]]}
      BY <1>1, <2>1 DEF Live, Entry
    <2>3. call[c].key = k /\ \A j \in Keys \ {k} : kv'[j] = kv[j]
      BY <1>1, <2>2
    <2> HIDE DEF k
    <2>4. AtKey(c, k)
      BY <1>1, <2>1, <2>2, <2>3 DEF Incrs, AtKey
    <2> QED BY <1>3, <2>1, <2>4
  <1>9. ASSUME NEW c \in Calls, IncrInsert(c) PROVE KeysInv'
    <2> DEFINE k == call[c].key
    <2>1. /\ call[c].pc = "incrInsert" /\ k \in Counters /\ k \in Keys
          /\ UNCHANGED << cfg, past >>
      BY <1>1, <1>9 DEF IncrInsert
    <2>2. ASSUME End(c), UNCHANGED kv PROVE KeysInv'
      <3>1. call'[c].pc = "idle" /\ \A d \in Calls \ {c} : call'[d] = call[d]
        BY <2>2, Left DEF Idle
      <3> HIDE DEF k
      <3>2. AtKey(c, k)
        BY <1>1, <2>1, <2>2, <3>1 DEF Incrs, AtKey
      <3> QED BY <1>3, <2>1, <3>2
    <2>3. ASSUME kv' = [kv EXCEPT ![k] = Incremented(k)],
                 call' = [call EXCEPT ![c] = [@ EXCEPT !.pc = "counted", !.n = 1]]
          PROVE  KeysInv'
      <3>1. PICK q : q = [call[c] EXCEPT !.pc = "counted", !.n = 1]
        OBVIOUS
      <3>2. q.pc = "counted"
        BY <1>1, <3>1 DEF Call
      <3>3. call'[c] = q /\ \A d \in Calls \ {c} : call'[d] = call[d]
        BY <2>3, <3>1, Put
      <3>4. /\ kv'[k] = Incremented(k) /\ Incremented(k).n > 0
            /\ Incremented(k).ttl = "none" => kv[k].n > 0 /\ kv[k].ttl = "none"
        BY <1>1, <2>1, <2>3 DEF Incremented, Live, Entry
      <3>5. \A j \in Keys \ {k} : kv'[j] = kv[j]
        BY <1>1, <2>1, <2>3
      <3> HIDE DEF k
      <3>6. AtKey(c, k)
        BY <2>1, <3>2, <3>3, <3>4, <3>5 DEF Incrs, AtKey
      <3> QED BY <1>3, <2>1, <3>6
    <2> QED BY <1>9, <2>2, <2>3 DEF IncrInsert
  <1>10. ASSUME NEW c \in Calls, SetLock(c) PROVE KeysInv'
    <2>1. /\ call[c].pc = "setLock" /\ call'[c].pc = "clear" /\ cfg' = cfg
          /\ \A d \in Calls \ {c} : call'[d] = call[d]
          /\ past.races \subseteq past'.races
          /\ kv' \in {kv, [kv EXCEPT !["lock"] = [n |-> 1, ttl |-> "running"]]}
      BY <1>10, Went, Remembered DEF SetLock
    <2>2. "lock" \in Keys \ Counters
      BY DEF Keys, Counters
    <2>3. AtKey(c, "lock")
      BY <1>1, <2>1, <2>2 DEF Incrs, AtKey
    <2> QED BY <1>3, <2>2, <2>3
  <1>11. ASSUME NEW c \in Calls, Crash(c) PROVE KeysInv'
    <2>1. /\ call'[c].pc = "idle" /\ \A d \in Calls \ {c} : call'[d] = call[d]
          /\ UNCHANGED << cfg, kv >> /\ past'.races = past.races \cup {"crash"}
      BY <1>11, Left, Remembered DEF Crash, Idle
    <2>2. CountersExpire'
      <3>1. \A k \in {"failed", "resets"} : kv[k].n > 0 /\ kv[k].ttl = "none" => cfg.adapter = "redis"
        BY DEF KeysInv, CountersExpire, Incrs
      <3> QED BY <2>1, <3>1 DEF CountersExpire
    <2> QED BY <2>1, <2>2 DEF KeysInv, Incrs
  <1>12. ASSUME NEW k \in Keys, Expire(k) PROVE KeysInv'
    <2> DEFINE R == IF \E d \in Calls : call[d].pc = "incrFound" /\ call[d].key = k
                    THEN {"lostKey"} ELSE {}
               n == IF k = "resets" THEN past.tested ELSE 0
    <2>1. /\ UNCHANGED << cfg, call >>
          /\ past' = [past EXCEPT !.tested = n, !.races = @ \cup R]
          /\ kv' = [kv EXCEPT ![k] = IF cfg.adapter = "database" THEN [@ EXCEPT !.ttl = "over"]
                                     ELSE Absent]
      BY <1>12 DEF Expire
    <2> HIDE DEF n
    <2>2. past'.races = past.races \cup R
      BY <2>1 DEF TypeInv, TypeOK, Past
    <2>3. /\ \A j \in Keys \ {k} : kv'[j] = kv[j]
          /\ kv'[k].n = 0 \/ kv'[k].ttl # "none"
      BY <1>1, <2>1 DEF Entry, Absent
    <2>4. CountersExpire'
      BY <1>1, <2>1, <2>2, <2>3 DEF KeysInv, CountersExpire, Counters
    <2>5. ASSUME NEW d \in Calls, call[d].pc = "incrFound", ~call[d].fresh, kv'[call[d].key].n = 0
          PROVE  "lostKey" \in past'.races
      <3>1. CASE call[d].key = k
        BY <2>2, <2>5, <3>1
      <3>2. CASE call[d].key # k
        BY <1>1, <2>2, <2>3, <2>5, <3>2 DEF KeysInv, Incrs
      <3> QED BY <3>1, <3>2
    <2> QED BY <2>1, <2>4, <2>5 DEF KeysInv
  <1>13. CASE (\E i \in Rows : ExpireCode(i)) \/ Disable \/ UNCHANGED vars
    <2>1. UNCHANGED << cfg, kv, call >>
      BY <1>13 DEF ExpireCode, Disable, vars
    <2>2. past.races \subseteq past'.races
      BY <1>13 DEF ExpireCode, Disable, vars, TypeInv, TypeOK, Past
    <2>3. CountersExpire'
      BY <2>1, <2>2 DEF KeysInv, CountersExpire
    <2> QED BY <2>1, <2>2, <2>3 DEF KeysInv
  <1>14. ASSUME NEW c \in Calls, Step(c) PROVE KeysInv'
    BY <1>2, <1>4, <1>5, <1>6, <1>7, <1>8, <1>9, <1>10, <1>14, PlainSteps, CodeSteps DEF Step
  <1>15. ASSUME NEW c \in Calls, Login(c) \/ RequestReset(c) \/ Confirm(c) PROVE KeysInv'
    BY <1>2, <1>15, PlainStart
  <1> QED BY <1>11, <1>12, <1>13, <1>14, <1>15 DEF Next

(***************************************************************************)
(* A counter always has a lifetime, so that a limit is lifted in the end,  *)
(* except while Redis is between INCR and EXPIRE, or if the request died   *)
(* there, or if the key went away between EXISTS and INCR (the adapters'   *)
(* incr).                                                                  *)
(***************************************************************************)
THEOREM CountersEnd == Spec => []CountersExpire
  <1>1. Init => KeysInv
    BY DEF Init, Absent, Idle, KeysInv, CountersExpire, Incrs, Keys
  <1>2. KeysInv => CountersExpire
    BY DEF KeysInv
  <1> QED BY <1>1, <1>2, KeysStep, TypeInvariant, PTL DEF Spec
=============================================================================
