------------------------ MODULE RecoveryLimits_proofs ------------------------
(***************************************************************************)
(* How many wrong passwords and wrong codes Recovery tests, for every      *)
(* value of its constants: theorems that count requests.                   *)
(***************************************************************************)
EXTENDS Recovery_proofs, FiniteSetTheorems

(* The requests in a role. *)

One(b) == IF b THEN 1 ELSE 0

\* A set of requests that changes by one member at most.
LEMMA OneMember ==
    ASSUME NEW S, NEW T, NEW c, IsFiniteSet(S), T \ {c} = S \ {c}
    PROVE  /\ IsFiniteSet(T) /\ Cardinality(T) \in Nat /\ Cardinality(S) \in Nat
           /\ Cardinality(T) = Cardinality(S) + One(c \in T) - One(c \in S)
  <1> DEFINE R == S \ {c}
  <1>1. IsFiniteSet(R) /\ Cardinality(R) = Cardinality(S) - One(c \in S)
    <2>1. /\ IsFiniteSet(S \ {c})
          /\ Cardinality(S \ {c}) = IF c \in S THEN Cardinality(S) - 1 ELSE Cardinality(S)
      BY FS_RemoveElement
    <2>2. Cardinality(S) \in Nat
      BY FS_CardinalityType
    <2> QED BY <2>1, <2>2 DEF One
  <1>2. c \notin R /\ (c \in T => T = R \cup {c}) /\ (c \notin T => T = R)
    OBVIOUS
  <1> HIDE DEF R
  <1>3. IsFiniteSet(T) /\ Cardinality(T) = Cardinality(R) + One(c \in T)
    <2>1. CASE c \in T
      BY <1>1, <1>2, <2>1, FS_AddElement DEF One
    <2>2. CASE c \notin T
      <3>1. Cardinality(R) \in Nat
        BY <1>1, FS_CardinalityType
      <3> QED BY <1>1, <1>2, <2>2, <3>1 DEF One
    <2> QED BY <2>1, <2>2
  <1>4. Cardinality(T) \in Nat /\ Cardinality(S) \in Nat
    BY <1>3, FS_CardinalityType
  <1> QED BY <1>1, <1>3, <1>4 DEF One

\* Three sets of requests that have none in common.
LEMMA Apart ==
    ASSUME NEW U, IsFiniteSet(U), NEW R \in SUBSET U, NEW S \in SUBSET U, NEW T \in SUBSET U,
           R \cap S = {}, R \cap T = {}, S \cap T = {}
    PROVE  Cardinality(R) + Cardinality(S) + Cardinality(T) <= Cardinality(U)
  <1>1. IsFiniteSet(R) /\ IsFiniteSet(S) /\ IsFiniteSet(T)
    BY FS_Subset
  <1>2. /\ Cardinality(R) \in Nat /\ Cardinality(S) \in Nat /\ Cardinality(T) \in Nat
        /\ Cardinality(U) \in Nat
    BY <1>1, FS_CardinalityType
  <1>3. IsFiniteSet(R \cup S) /\ Cardinality(R \cup S) = Cardinality(R) + Cardinality(S)
    <2>1. Cardinality(R \cap S) = 0
      BY FS_EmptySet
    <2>2. /\ IsFiniteSet(R \cup S)
          /\ Cardinality(R \cup S) = Cardinality(R) + Cardinality(S) - Cardinality(R \cap S)
      BY <1>1, FS_Union
    <2> QED BY <1>2, <2>1, <2>2
  <1>4. Cardinality((R \cup S) \cup T) = Cardinality(R) + Cardinality(S) + Cardinality(T)
    <2>1. (R \cup S) \cap T = {}
      OBVIOUS
    <2>2. Cardinality((R \cup S) \cap T) = 0
      BY <2>1, FS_EmptySet
    <2>3. Cardinality((R \cup S) \cup T) =
            Cardinality(R \cup S) + Cardinality(T) - Cardinality((R \cup S) \cap T)
      BY <1>1, <1>3, FS_Union
    <2> QED BY <1>2, <1>3, <2>2, <2>3
  <1>5. (R \cup S) \cup T \in SUBSET U
    OBVIOUS
  <1> QED BY <1>4, <1>5, FS_Subset

\* Past the check of the lock and not yet at the password.
Reads(k) == k.pc \in {"dropLock", "readUser"} /\ k.kind = "login"

\* A wrong password is tested and not yet counted; in the database, by an insert.
Counts(k) == k.pc \in {"incr", "incrFound", "incrInsert"} /\ k.key = "failed"
Inserts(k) == k.pc = "incrInsert" /\ k.key = "failed"

\* It has reached the limit, and will lock the address and clear the counter.
Locks(k) ==
    /\ k.key = "failed"
    /\ \/ k.pc \in {"counted", "incrExpire"} /\ k.n >= MaxFailures
       \/ k.pc \in {"setLock", "clear"}

Readers == {c \in Calls : Reads(call[c])}
Counting == {c \in Calls : Counts(call[c])}
Inserting == {c \in Calls : Inserts(call[c])}
Lockers == {c \in Calls : Locks(call[c])}

Sizes ==
    /\ IsFiniteSet(Readers) /\ IsFiniteSet(Counting) /\ IsFiniteSet(Inserting)
    /\ IsFiniteSet(Lockers)
    /\ Cardinality(Readers) \in Nat /\ Cardinality(Counting) \in Nat
    /\ Cardinality(Inserting) \in Nat /\ Cardinality(Lockers) \in Nat
    /\ Cardinality(Calls) \in Nat /\ Cardinality(Calls) > 0
    /\ Cardinality(Readers) + Cardinality(Counting) + Cardinality(Lockers) <= Cardinality(Calls)
    /\ Cardinality(Inserting) <= Cardinality(Counting)

LEMMA SizesHold == Sizes
  <1>1. /\ IsFiniteSet(Calls) /\ Cardinality(Calls) \in Nat /\ Cardinality(Calls) # 0
    BY RecoveryAssumption, FS_CardinalityType, FS_EmptySet
  <1>2. /\ Readers \in SUBSET Calls /\ Counting \in SUBSET Calls /\ Lockers \in SUBSET Calls
        /\ Inserting \in SUBSET Counting
    BY DEF Readers, Counting, Inserting, Lockers, Counts, Inserts
  <1>3. IsFiniteSet(Readers) /\ IsFiniteSet(Counting) /\ IsFiniteSet(Lockers)
    BY <1>1, <1>2, FS_Subset
  <1>4. IsFiniteSet(Inserting) /\ Cardinality(Inserting) <= Cardinality(Counting)
    BY <1>2, <1>3, FS_Subset
  <1>5. Readers \cap Counting = {} /\ Readers \cap Lockers = {} /\ Counting \cap Lockers = {}
    BY DEF Readers, Counting, Lockers, Reads, Counts, Locks
  <1>6. Cardinality(Readers) + Cardinality(Counting) + Cardinality(Lockers) <= Cardinality(Calls)
    BY <1>1, <1>2, <1>5, Apart
  <1>7. /\ Cardinality(Readers) \in Nat /\ Cardinality(Counting) \in Nat
        /\ Cardinality(Inserting) \in Nat /\ Cardinality(Lockers) \in Nat
    BY <1>3, <1>4, FS_CardinalityType
  <1> QED BY <1>1, <1>3, <1>4, <1>6, <1>7 DEF Sizes

\* A step of one request changes each role by that request.
LEMMA RoleStep ==
    ASSUME NEW c \in Calls, \A d \in Calls \ {c} : call'[d] = call[d]
    PROVE  /\ Sizes /\ Sizes'
           /\ Cardinality(Readers') =
                Cardinality(Readers) + One(Reads(call'[c])) - One(Reads(call[c]))
           /\ Cardinality(Counting') =
                Cardinality(Counting) + One(Counts(call'[c])) - One(Counts(call[c]))
           /\ Cardinality(Inserting') =
                Cardinality(Inserting) + One(Inserts(call'[c])) - One(Inserts(call[c]))
           /\ Cardinality(Lockers') =
                Cardinality(Lockers) + One(Locks(call'[c])) - One(Locks(call[c]))
  <1>1. Sizes
    BY SizesHold
  <1>2. Sizes'
    BY SizesHold, PTL
  <1>3. /\ Readers' \ {c} = Readers \ {c} /\ Counting' \ {c} = Counting \ {c}
        /\ Inserting' \ {c} = Inserting \ {c} /\ Lockers' \ {c} = Lockers \ {c}
    BY DEF Readers, Counting, Inserting, Lockers
  <1>4. /\ c \in Readers <=> Reads(call[c])
        /\ c \in Counting <=> Counts(call[c])
        /\ c \in Inserting <=> Inserts(call[c])
        /\ c \in Lockers <=> Locks(call[c])
        /\ c \in Readers' <=> Reads(call'[c])
        /\ c \in Counting' <=> Counts(call'[c])
        /\ c \in Inserting' <=> Inserts(call'[c])
        /\ c \in Lockers' <=> Locks(call'[c])
    BY DEF Readers, Counting, Inserting, Lockers
  <1>5. Cardinality(Readers') = Cardinality(Readers) + One(c \in Readers') - One(c \in Readers)
    BY <1>1, <1>3, OneMember DEF Sizes
  <1>6. Cardinality(Counting') = Cardinality(Counting) + One(c \in Counting') - One(c \in Counting)
    BY <1>1, <1>3, OneMember DEF Sizes
  <1>7. Cardinality(Inserting') =
          Cardinality(Inserting) + One(c \in Inserting') - One(c \in Inserting)
    BY <1>1, <1>3, OneMember DEF Sizes
  <1>8. Cardinality(Lockers') = Cardinality(Lockers) + One(c \in Lockers') - One(c \in Lockers)
    BY <1>1, <1>3, OneMember DEF Sizes
  <1> QED BY <1>1, <1>2, <1>4, <1>5, <1>6, <1>7, <1>8 DEF One
-----------------------------------------------------------------------------
(* Wrong passwords. *)

Calm == past.races \cap {"lostLock", "crash"} = {}

\* The failures counted against the address.
Count == IF Live("failed") THEN kv["failed"].n ELSE 0

\* Failures that nobody counts: in the database, of requests that found no row and came
\* second when they inserted one.
Slack == IF cfg.adapter = "database" THEN Cardinality(Calls) - 1 ELSE 0

\* While the address is locked only requests past the check test a password; before that,
\* every wrong password is counted, about to be counted, or lost.
Tested ==
    IF Live("lock")
    THEN past.tested + Cardinality(Readers) <= MaxFailures - 1 + Cardinality(Calls) + Slack
    ELSE IF Count = 0
    THEN past.tested <= Cardinality(Counting)
    ELSE past.tested + Cardinality(Inserting) <= Count + Cardinality(Counting) + Slack

\* Every failure at or above the limit belongs to a request that will lock the address, and
\* the address stays locked until that request has cleared the counter.
Tally ==
    Calm => /\ Tested
            /\ Count <= MaxFailures - 1 + Cardinality(Lockers)
            /\ \A c \in Calls : call[c].pc = "clear" /\ call[c].key = "failed" => Live("lock")

\* A request counts its own kind of failure, and only a database runs out of time with a
\* row left behind.
Fit(k) ==
    /\ k.pc \in {"checkLock", "dropLock", "readUser", "unlock", "open"} => k.key = "none"
    /\ k.pc = "setLock" => k.key = "failed"
    /\ k.pc = "incrInsert" => cfg.adapter = "database"
    /\ k.pc = "incrFound" => cfg.adapter = "redis"

CallsFit ==
    /\ \A c \in Calls : Fit(call[c])
    /\ cfg.adapter # "database" => kv["failed"].ttl # "over"

GuessInv == CallsFit /\ Tally

LEMMA GuessTypes ==
    ASSUME TypeInv
    PROVE  /\ kv["failed"] \in Entry /\ kv["lock"] \in Entry /\ Count \in Nat
           /\ kv["failed"].n \in Nat /\ past.tested \in Nat /\ MaxFailures \in Nat \ {0}
           /\ cfg.adapter \in {"memory", "redis", "database"}
           /\ {"failed", "lock"} \subseteq Keys
  <1>1. {"failed", "lock"} \subseteq Keys /\ kv \in [Keys -> Entry] /\ past \in Past
    BY DEF TypeInv, TypeOK, Keys
  <1>2. kv["failed"] \in Entry /\ kv["lock"] \in Entry
    BY <1>1
  <1>3. kv["failed"].n \in Nat
    BY <1>2 DEF Entry
  <1> QED BY <1>1, <1>2, <1>3, RecoveryAssumption
          DEF Count, TypeInv, TypeOK, Past, Scenario

\* A step of one request that leaves the roles and the address's keys alone.
Quiet(c) ==
    /\ kv'["failed"] = kv["failed"] /\ kv'["lock"] = kv["lock"] /\ cfg' = cfg
    /\ past'.tested = past.tested /\ past.races \subseteq past'.races
    /\ \A d \in Calls \ {c} : call'[d] = call[d]
    /\ ~Counts(call[c]) /\ ~Locks(call[c])
    /\ ~Counts(call'[c]) /\ ~Locks(call'[c])
    /\ Reads(call'[c]) => Reads(call[c])
    /\ call'[c].pc = "clear" => call'[c].key # "failed"
    /\ Fit(call'[c])

LEMMA SameKeys ==
    ASSUME kv'["failed"] = kv["failed"], kv'["lock"] = kv["lock"], cfg' = cfg
    PROVE  /\ Live("failed")' = Live("failed") /\ Live("lock")' = Live("lock")
           /\ Count' = Count /\ Slack' = Slack
  BY DEF Live, Count, Slack

\* The invariant after a step of one request, from what becomes of the roles, the counter
\* and the lock.
LEMMA GuessStep ==
    ASSUME TypeInv, TypeInv', GuessInv, NEW c \in Calls,
           \A d \in Calls \ {c} : call'[d] = call[d],
           cfg' = cfg, past.races \subseteq past'.races, Fit(call'[c]),
           cfg.adapter # "database" => kv'["failed"].ttl # "over",
           Calm' /\ Tally => Tested' /\ Count' <= MaxFailures - 1 + Cardinality(Lockers'),
           Calm' => (Live("lock") => Live("lock")'),
           Calm' /\ call'[c].pc = "clear" /\ call'[c].key = "failed" => Live("lock")'
    PROVE  GuessInv'
  <1>1. Calm' => Calm
    BY DEF Calm
  <1>2. CallsFit'
    <2>1. ASSUME NEW d \in Calls PROVE Fit(call[d])'
      BY DEF GuessInv, CallsFit, Fit
    <2> QED BY <2>1 DEF GuessInv, CallsFit
  <1>3. Tally'
    BY <1>1 DEF GuessInv, Tally
  <1> QED BY <1>2, <1>3 DEF GuessInv

LEMMA QuietStep ==
    ASSUME TypeInv, TypeInv', GuessInv, NEW c \in Calls, Quiet(c)
    PROVE  GuessInv'
  <1> DEFINE r == Cardinality(Readers)
             k == Cardinality(Counting)
             i == Cardinality(Inserting)
             l == Cardinality(Lockers)
  <1>1. /\ Live("failed")' = Live("failed") /\ Live("lock")' = Live("lock")
        /\ Count' = Count /\ Slack' = Slack /\ past'.tested = past.tested
    BY SameKeys DEF Quiet
  <1>2. ~Inserts(call[c]) /\ ~Inserts(call'[c])
    BY DEF Quiet, Counts, Inserts
  <1>3. r' <= r /\ k' = k /\ i' = i /\ l' = l /\ r \in Nat /\ r' \in Nat
    BY <1>2, RoleStep DEF Quiet, One, Sizes
  <1>4. past.tested \in Nat /\ Cardinality(Calls) \in Nat /\ Slack \in Int
        /\ MaxFailures \in Nat
    BY GuessTypes, SizesHold DEF Sizes, Slack
  <1> HIDE DEF r, k, i, l
  <1>5. Calm' /\ Tally => Tested' /\ Count' <= MaxFailures - 1 + Cardinality(Lockers')
    <2>1. Calm' => Calm
      BY DEF Calm, Quiet
    <2> QED BY <1>1, <1>3, <1>4, <2>1 DEF Tally, Tested, r, k, i, l
  <1>6. cfg.adapter # "database" => kv'["failed"].ttl # "over"
    BY DEF Quiet, GuessInv, CallsFit
  <1> QED BY <1>1, <1>5, <1>6, GuessStep DEF Quiet

LEMMA Gone ==
    ASSUME TypeInv, NEW c \in Calls, End(c) \/ \E pc : GoTo(c, pc)
    PROVE  /\ \A d \in Calls \ {c} : call'[d] = call[d]
           /\ End(c) => call'[c] = Idle
           /\ \A pc : GoTo(c, pc) =>
                /\ call'[c].pc = pc /\ call'[c].key = call[c].key
                /\ call'[c].kind = call[c].kind /\ call'[c].n = call[c].n
  <1>1. ASSUME NEW pc, GoTo(c, pc)
        PROVE  /\ call'[c].pc = pc /\ call'[c].key = call[c].key
               /\ call'[c].kind = call[c].kind /\ call'[c].n = call[c].n
    <2>1. PICK q : q = [call[c] EXCEPT !.pc = pc]
      OBVIOUS
    <2>2. call'[c] = q
      BY <1>1, <2>1, Put DEF GoTo
    <2>3. call[c] \in Call
      BY DEF TypeInv, TypeOK
    <2> QED BY <2>1, <2>2, <2>3 DEF Call
  <1> QED BY <1>1, Left, Went

\* A request that ends takes no role.
LEMMA IdleRole ==
    /\ ~Reads(Idle) /\ ~Counts(Idle) /\ ~Inserts(Idle) /\ ~Locks(Idle) /\ Fit(Idle)
    /\ Idle.pc = "idle"
  BY DEF Idle, Reads, Counts, Inserts, Locks, Fit

LEMMA QuietStart ==
    ASSUME TypeInv, NEW c \in Calls, Login(c) \/ RequestReset(c) \/ Confirm(c)
    PROVE  Quiet(c)
  <1>1. ASSUME NEW kind, NEW pc, NEW admin, NEW given, NEW strong,
               Start(c, kind, pc, admin, given, strong),
               \/ pc \in {"checkLock", "invalidate"}
               \/ pc = "readUser" /\ kind # "login"
        PROVE  Quiet(c)
    <2>1. PICK q : q = [Idle EXCEPT !.pc = pc, !.kind = kind, !.admin = admin,
                                    !.given = given, !.strong = strong]
      OBVIOUS
    <2>2. q.pc = pc /\ q.kind = kind /\ q.key = "none"
      BY <2>1 DEF Idle
    <2>3. call'[c] = q /\ \A d \in Calls \ {c} : call'[d] = call[d]
      BY <1>1, <2>1, Put DEF Start
    <2>4. call[c].pc = "idle" /\ UNCHANGED << cfg, kv, past >>
      BY <1>1 DEF Start, At
    <2> QED BY <1>1, <2>2, <2>3, <2>4 DEF Quiet, Reads, Counts, Locks, Fit
  <1>2. CASE Login(c)
    BY <1>1, <1>2 DEF Login
  <1>3. CASE RequestReset(c)
    BY <1>1, <1>3 DEF RequestReset
  <1>4. CASE Confirm(c)
    BY <1>1, <1>4 DEF Confirm
  <1> QED BY <1>2, <1>3, <1>4

\* The steps of a reset or a confirmation, and those of a login with the right password.
LEMMA QuietSteps ==
    ASSUME TypeInv, GuessInv, NEW c \in Calls,
           \/ Unlock(c) \/ Open(c) \/ Invalidate(c) \/ Issue(c) \/ Tried(c) \/ Matched(c)
           \/ Spend(c) \/ Save(c) \/ Revoke(c)
    PROVE  Quiet(c)
  <1> USE DEF At
  <1>1. past.races \subseteq past'.races /\ past'.tested = past.tested
    <2>1. past'.races = past.races \/ \E R : past'.races = past.races \cup R
      BY Remembered DEF Unlock, Open, Invalidate, Issue, Tried, Matched, Spend, Save, Revoke,
                        TypeInv, TypeOK, Past
    <2>2. past'.tested = past.tested
      BY DEF Unlock, Open, Invalidate, Issue, Tried, Matched, Spend, Save, Revoke, Remember,
             TypeInv, TypeOK, Past
    <2> QED BY <2>1, <2>2
  <1>2. UNCHANGED << kv, cfg >>
    BY DEF Unlock, Open, Invalidate, Issue, Tried, Matched, Spend, Save, Revoke
  <1>3. ASSUME End(c), call[c].pc \in {"issue", "tried", "matched", "revoke"} PROVE Quiet(c)
    BY <1>1, <1>2, <1>3, Gone, IdleRole DEF Quiet, Reads, Counts, Locks
  <1>4. ASSUME NEW pc, GoTo(c, pc),
               call[c].pc \in {"unlock", "open", "invalidate", "matched", "spend", "save"},
               \/ pc \in {"issue", "load", "save", "revoke"}
               \/ pc \in {"open", "clear"} /\ call[c].pc \in {"unlock", "open"}
        PROVE  Quiet(c)
    <2>1. /\ call'[c].pc = pc /\ call'[c].key = call[c].key
          /\ \A d \in Calls \ {c} : call'[d] = call[d]
      BY <1>4, Gone
    <2>2. call[c].pc \in {"unlock", "open"} => call[c].key = "none"
      BY DEF GuessInv, CallsFit, Fit
    <2> QED BY <1>1, <1>2, <1>4, <2>1, <2>2 DEF Quiet, Reads, Counts, Locks, Fit
  <1> QED BY <1>3, <1>4
          DEF Unlock, Open, Invalidate, Issue, Tried, Matched, Spend, Save, Revoke

LEMMA QuietCheck ==
    ASSUME TypeInv, NEW c \in Calls, Find(c) \/ FindAgain(c) \/ Load(c)
    PROVE  Quiet(c)
  <1> USE DEF At
  <1>1. UNCHANGED << kv, cfg >> /\ call[c].pc \in {"find", "findAgain", "load"}
    BY DEF Find, FindAgain, Load
  <1>2. ASSUME NEW q, call' = [call EXCEPT ![c] = q],
               q.pc \in {"tried", "matched", "spend", "save", "findAgain", "idle"},
               past'.tested = past.tested, past.races \subseteq past'.races
        PROVE  Quiet(c)
    <2>1. call'[c] = q /\ \A d \in Calls \ {c} : call'[d] = call[d]
      BY <1>2, Put
    <2> QED BY <1>1, <1>2, <2>1 DEF Quiet, Reads, Counts, Locks, Fit
  <1>3. call[c] \in Call
    BY DEF TypeInv, TypeOK
  <1>4. ASSUME NEW onMatch \in {"matched", "spend"}, AssertValidCode(c, onMatch) PROVE Quiet(c)
    <2>1. CASE End(c) /\ UNCHANGED past
      BY <1>2, <2>1, IdleRole DEF End
    <2>2. ASSUME NEW i \in Rows, Checked(c, onMatch, i) PROVE Quiet(c)
      <3> DEFINE pc == IF call[c].given = i THEN onMatch ELSE "tried"
      <3>1. PICK q : q = [call[c] EXCEPT !.pc = pc, !.row = i, !.n = codes[i].attempts]
        OBVIOUS
      <3>2. q.pc = pc
        BY <1>3, <3>1 DEF Call
      <3>3. call' = [call EXCEPT ![c] = q]
        BY <2>2, <3>1 DEF Checked
      <3>4. past'.tested = past.tested /\ past.races \subseteq past'.races
        BY <2>2 DEF Checked, TypeInv, TypeOK, Past
      <3> QED BY <1>2, <3>2, <3>3, <3>4
    <2> QED BY <1>4, <2>1, <2>2, CheckShape
  <1>5. CASE Load(c)
    <2>1. UNCHANGED past
      BY <1>5 DEF Load
    <2>2. CASE ~call[c].strong
      BY <1>2, <1>5, <2>1, <2>2, IdleRole DEF Load
    <2>3. CASE call[c].strong
      <3> DEFINE pc == IF call[c].admin THEN "save" ELSE "findAgain"
      <3>1. PICK q : q = [call[c] EXCEPT !.pc = pc, !.snap = user]
        OBVIOUS
      <3>2. q.pc = pc
        BY <1>3, <3>1 DEF Call
      <3> QED BY <1>2, <1>5, <2>1, <2>3, <3>1, <3>2 DEF Load
    <2> QED BY <2>2, <2>3
  <1> QED BY <1>4, <1>5 DEF Find, FindAgain
\* Numbers that the steps below calculate with.
LEMMA GuessNumbers ==
    ASSUME TypeInv
    PROVE  /\ Sizes /\ Slack \in Nat /\ Count \in Nat /\ past.tested \in Nat
           /\ MaxFailures \in Nat \ {0}
           /\ Live("failed") => Count = kv["failed"].n /\ Count > 0
           /\ ~Live("failed") => Count = 0
           /\ cfg.adapter = "database" => Slack = Cardinality(Calls) - 1
  BY GuessTypes, SizesHold DEF Sizes, Slack, Count, Live

\* Without a database nobody inserts.
LEMMA NoInserts ==
    ASSUME GuessInv, cfg.adapter # "database"
    PROVE  Cardinality(Inserting) = 0
  <1>1. Inserting = {}
    BY DEF GuessInv, CallsFit, Fit, Inserting, Inserts
  <1> QED BY <1>1, FS_EmptySet

\* A request that counts a failure: the counter goes up by one, and at the limit the request
\* will lock.
LEMMA CountedOne ==
    ASSUME TypeInv, GuessInv, NEW c \in Calls, \A d \in Calls \ {c} : call'[d] = call[d],
           cfg' = cfg, past' = past, Live("lock")' = Live("lock"),
           Counts(call[c]), Count' = Count + 1,
           Count = 0 => Inserts(call[c]) \/ cfg.adapter # "database",
           Inserts(call[c]) => Count = 0 /\ cfg.adapter = "database",
           call'[c].key = "failed", call'[c].pc \in {"counted", "incrExpire"},
           call'[c].n = Count + 1
    PROVE  Calm' /\ Tally => Tested' /\ Count' <= MaxFailures - 1 + Cardinality(Lockers')
  <1> DEFINE r == Cardinality(Readers)
             k == Cardinality(Counting)
             i == Cardinality(Inserting)
             l == Cardinality(Lockers)
  <1>1. Sizes /\ Sizes'
    BY RoleStep
  <1>2. /\ ~Reads(call[c]) /\ ~Reads(call'[c]) /\ ~Counts(call'[c]) /\ ~Inserts(call'[c])
        /\ ~Locks(call[c]) /\ (Locks(call'[c]) <=> Count + 1 >= MaxFailures)
    BY DEF Reads, Counts, Inserts, Locks
  <1>3. /\ r' = r /\ k' = k - 1 /\ i' = i - One(Inserts(call[c]))
        /\ l' = l + One(Count + 1 >= MaxFailures)
    BY <1>1, <1>2, RoleStep DEF One, Sizes
  <1>4. /\ Count \in Nat /\ past.tested \in Nat /\ MaxFailures \in Nat /\ Slack \in Nat
        /\ cfg.adapter = "database" => Slack = Cardinality(Calls) - 1
    BY GuessNumbers
  <1>5. Slack' = Slack /\ past'.tested = past.tested /\ Count' # 0
    BY <1>4 DEF Slack
  <1>6. cfg.adapter # "database" => i = 0
    BY NoInserts
  <1>7. /\ r \in Nat /\ k \in Nat /\ i \in Nat /\ l \in Nat /\ i <= k /\ k <= Cardinality(Calls)
        /\ Cardinality(Calls) \in Nat
    BY <1>1 DEF Sizes
  <1>8. Calm' => Calm
    BY DEF Calm
  <1>9. Tally /\ Calm => (Tested <=>
          IF Live("lock")
          THEN past.tested + r <= MaxFailures - 1 + Cardinality(Calls) + Slack
          ELSE IF Count = 0 THEN past.tested <= k
          ELSE past.tested + i <= Count + k + Slack)
    BY DEF Tested
  <1>10. Tested' <=>
          IF Live("lock")
          THEN past.tested + r' <= MaxFailures - 1 + Cardinality(Calls) + Slack
          ELSE past.tested + i' <= Count + 1 + k' + Slack
    BY <1>5 DEF Tested
  <1>11. Tally /\ Calm => Tested /\ Count <= MaxFailures - 1 + l
    BY DEF Tally
  <1> HIDE DEF r, k, i, l
  <1>12. Tally /\ Calm => Tested'
    BY <1>3, <1>4, <1>6, <1>7, <1>9, <1>10, <1>11 DEF One
  <1>13. Tally /\ Calm => Count' <= MaxFailures - 1 + l'
    BY <1>3, <1>4, <1>7, <1>11 DEF One
  <1> QED BY <1>8, <1>12, <1>13 DEF l

LEMMA GuessLogin ==
    ASSUME TypeInv, TypeInv', GuessInv, NEW c \in Calls,
           CheckLock(c) \/ DropLock(c) \/ ReadUser(c) \/ Clear(c)
    PROVE  GuessInv'
  <1> USE DEF At
  <1> DEFINE r == Cardinality(Readers)
             k == Cardinality(Counting)
             i == Cardinality(Inserting)
             l == Cardinality(Lockers)
             N == Cardinality(Calls)
  <1>0. /\ Slack \in Nat /\ Count \in Nat /\ past.tested \in Nat /\ MaxFailures \in Nat \ {0}
        /\ r \in Nat /\ k \in Nat /\ i \in Nat /\ l \in Nat /\ N \in Nat /\ r <= N
        /\ Fit(call[c]) /\ call[c] \in Call /\ kv \in [Keys -> Entry]
        /\ "failed" \in Keys /\ "lock" \in Keys
        /\ cfg.adapter # "database" => kv["failed"].ttl # "over"
    BY GuessNumbers, GuessTypes DEF Sizes, GuessInv, CallsFit, TypeInv, TypeOK
  <1> HIDE DEF r, k, i, l, N
  <1>1. CASE CheckLock(c)
    <2>1. call[c].pc = "checkLock" /\ UNCHANGED << kv, cfg, past >>
      BY <1>1 DEF CheckLock
    <2>2. CASE End(c)
      <3>1. Quiet(c)
        BY <2>1, <2>2, Gone, IdleRole DEF Quiet, Reads, Counts, Locks
      <3> QED BY <3>1, QuietStep
    <2>3. ASSUME NEW pc \in {"dropLock", "readUser"}, GoTo(c, pc), ~Live("lock") PROVE GuessInv'
      <3>1. /\ call'[c].pc = pc /\ call'[c].key = "none"
            /\ \A d \in Calls \ {c} : call'[d] = call[d]
        BY <1>0, <2>1, <2>3, Gone DEF Fit
      <3>2. k' = k /\ i' = i /\ l' = l
        BY <2>1, <3>1, RoleStep DEF One, Sizes, Counts, Inserts, Locks, k, i, l
      <3>3. /\ ~Live("lock")' /\ Count' = Count /\ Slack' = Slack /\ past'.tested = past.tested
            /\ Calm' = Calm
        BY <2>1, <2>3, SameKeys DEF Calm
      <3>4. Calm' /\ Tally => Tested' /\ Count' <= MaxFailures - 1 + Cardinality(Lockers')
        BY <2>3, <3>2, <3>3 DEF Tally, Tested, k, i, l
      <3> QED BY <1>0, <2>1, <2>3, <3>1, <3>4, GuessStep DEF Fit
    <2> QED BY <1>1, <2>2, <2>3 DEF CheckLock
  <1>2. CASE DropLock(c)
    <2>1. /\ call[c].pc = "dropLock" /\ cfg' = cfg /\ kv' = [kv EXCEPT !["lock"] = Absent]
          /\ GoTo(c, "readUser") /\ past'.tested = past.tested
          /\ past.races \subseteq past'.races /\ (Live("lock") => "lostLock" \in past'.races)
      BY <1>2 DEF DropLock, Remember, TypeInv, TypeOK, Past
    <2>2. /\ call'[c].pc = "readUser" /\ call'[c].key = "none" /\ call'[c].kind = call[c].kind
          /\ \A d \in Calls \ {c} : call'[d] = call[d]
      BY <1>0, <2>1, Gone DEF Fit
    <2>3. k' = k /\ i' = i /\ l' = l
      BY <2>1, <2>2, RoleStep DEF One, Sizes, Counts, Inserts, Locks, k, i, l
    <2>4. kv'["failed"] = kv["failed"] /\ kv'["lock"].n = 0
      BY <1>0, <2>1 DEF Absent
    <2>5. /\ ~Live("lock")' /\ Count' = Count /\ Slack' = Slack
          /\ Calm' => Calm /\ ~Live("lock")
      BY <2>1, <2>4 DEF Calm, Live, Count, Slack
    <2>6. Calm' /\ Tally => Tested' /\ Count' <= MaxFailures - 1 + Cardinality(Lockers')
      BY <2>1, <2>3, <2>5 DEF Tally, Tested, k, i, l
    <2> QED BY <1>0, <2>1, <2>2, <2>4, <2>5, <2>6, GuessStep DEF Fit
  <1>3. CASE ReadUser(c)
    <2>1. /\ call[c].pc = "readUser" /\ UNCHANGED << kv, cfg >> /\ past'.races = past.races
          /\ call[c].key = "none"
      BY <1>0, <1>3 DEF ReadUser, TypeInv, TypeOK, Past, Fit
    <2>2. ASSUME NEW q, call' = [call EXCEPT ![c] = q], past' = past,
                 \/ q.pc \in {"idle", "unlock", "open", "find"} /\ q.key = "none"
                 \/ q.pc = "incr" /\ q.key = "resets"
          PROVE  GuessInv'
      <3>1. call'[c] = q /\ \A d \in Calls \ {c} : call'[d] = call[d]
        BY <2>2, Put
      <3>2. Quiet(c)
        BY <2>1, <2>2, <3>1 DEF Quiet, Reads, Counts, Locks, Fit
      <3> QED BY <3>2, QuietStep
    <2>3. ASSUME call[c].kind = "login", past' = [past EXCEPT !.tested = @ + 1],
                 call' = [call EXCEPT ![c] = [@ EXCEPT !.pc = "incr", !.key = "failed"]]
          PROVE  GuessInv'
      <3>1. PICK q : q = [call[c] EXCEPT !.pc = "incr", !.key = "failed"]
        OBVIOUS
      <3>2. q.pc = "incr" /\ q.key = "failed"
        BY <1>0, <3>1 DEF Call
      <3>3. call'[c] = q /\ \A d \in Calls \ {c} : call'[d] = call[d]
        BY <2>3, <3>1, Put
      <3>4. r' = r - 1 /\ k' = k + 1 /\ i' = i /\ l' = l
        BY <2>1, <2>3, <3>2, <3>3, RoleStep
           DEF One, Sizes, Reads, Counts, Inserts, Locks, r, k, i, l
      <3>5. /\ Live("lock")' = Live("lock") /\ Count' = Count /\ Slack' = Slack
            /\ past'.tested = past.tested + 1 /\ Calm' = Calm
        BY <2>1, <2>3, SameKeys DEF Calm, TypeInv, TypeOK, Past
      <3>6. Calm' /\ Tally => Tested' /\ Count' <= MaxFailures - 1 + Cardinality(Lockers')
        BY <1>0, <3>4, <3>5 DEF Tally, Tested, r, k, i, l
      <3> QED BY <1>0, <2>1, <3>2, <3>3, <3>5, <3>6, GuessStep DEF Fit
    <2>4. ASSUME NEW pc \in {"unlock", "open", "find"}, past' = past,
                 call' = [call EXCEPT ![c] = [[call[c] EXCEPT !.snap = user] EXCEPT !.pc = pc]]
          PROVE  GuessInv'
      <3>1. PICK q : q = [[call[c] EXCEPT !.snap = user] EXCEPT !.pc = pc]
        OBVIOUS
      <3>2. q.pc = pc /\ q.key = "none"
        BY <1>0, <2>1, <3>1 DEF Call
      <3> QED BY <2>2, <2>4, <3>1, <3>2
    <2>5. ASSUME call' = [call EXCEPT ![c] = [@ EXCEPT !.pc = "incr", !.key = "resets"]], past' = past
          PROVE  GuessInv'
      <3>1. PICK q : q = [call[c] EXCEPT !.pc = "incr", !.key = "resets"]
        OBVIOUS
      <3>2. q.pc = "incr" /\ q.key = "resets"
        BY <1>0, <3>1 DEF Call
      <3> QED BY <2>2, <2>5, <3>1, <3>2
    <2>6. ASSUME End(c), past' = past PROVE GuessInv'
      BY <2>2, <2>6 DEF End, Idle
    <2> QED BY <1>3, <2>3, <2>4, <2>5, <2>6 DEF ReadUser
  <1>4. CASE Clear(c)
    <2>1. /\ call[c].pc = "clear" /\ cfg' = cfg /\ kv' = [kv EXCEPT !["failed"] = Absent]
          /\ End(c) /\ past.races \subseteq past'.races
          /\ past'.tested = IF call[c].key = "failed" THEN past.tested ELSE 0
      BY <1>4 DEF Clear, TypeInv, TypeOK, Past
    <2>2. call'[c] = Idle /\ \A d \in Calls \ {c} : call'[d] = call[d]
      BY <2>1, Gone
    <2>3. r' = r /\ k' = k /\ i' = i /\ l' = l - One(call[c].key = "failed")
      BY <2>1, <2>2, IdleRole, RoleStep
         DEF One, Sizes, Reads, Counts, Inserts, Locks, r, k, i, l
    <2>4. kv'["lock"] = kv["lock"] /\ kv'["failed"].n = 0 /\ kv'["failed"].ttl # "over"
      BY <1>0, <2>1 DEF Absent
    <2>5. /\ Live("lock")' = Live("lock") /\ Count' = 0 /\ Slack' = Slack /\ (Calm' => Calm)
      BY <2>1, <2>4 DEF Calm, Live, Count, Slack
    <2>6. l' \in Nat
      BY <2>2, RoleStep DEF Sizes, l
    <2>7. Calm /\ Tally /\ call[c].key = "failed" => Live("lock")
      BY <2>1 DEF Tally
    <2>8. Calm' /\ Tally => Tested' /\ Count' <= MaxFailures - 1 + Cardinality(Lockers')
      <3>1. Calm' /\ Tally => Tested'
        BY <1>0, <2>1, <2>3, <2>5, <2>7 DEF Tally, Tested, r, k, i, N
      <3>2. Count' <= MaxFailures - 1 + l'
        <4>1. MaxFailures - 1 \in Nat
          BY <1>0
        <4> QED BY <2>5, <2>6, <4>1
      <3> QED BY <3>1, <3>2 DEF l
    <2> QED BY <2>1, <2>2, <2>4, <2>5, <2>8, IdleRole, GuessStep
  <1> QED BY <1>1, <1>2, <1>3, <1>4

LEMMA GuessCount ==
    ASSUME TypeInv, TypeInv', GuessInv, NEW c \in Calls,
           \/ Incr(c) \/ IncrFound(c) \/ IncrExpire(c) \/ IncrInsert(c) \/ Counted(c)
           \/ SetLock(c)
    PROVE  GuessInv'
  <1> USE DEF At
  <1> DEFINE r == Cardinality(Readers)
             k == Cardinality(Counting)
             i == Cardinality(Inserting)
             l == Cardinality(Lockers)
             N == Cardinality(Calls)
             key == call[c].key
  <1>0. /\ Slack \in Nat /\ Count \in Nat /\ past.tested \in Nat /\ MaxFailures \in Nat \ {0}
        /\ r \in Nat /\ k \in Nat /\ i \in Nat /\ l \in Nat /\ N \in Nat
        /\ r + k + l <= N /\ i <= k
        /\ Live("failed") => Count = kv["failed"].n /\ Count > 0
        /\ ~Live("failed") => Count = 0
        /\ cfg.adapter = "database" => Slack = N - 1
        /\ Fit(call[c]) /\ call[c] \in Call /\ kv \in [Keys -> Entry]
        /\ "failed" \in Keys /\ "lock" \in Keys /\ kv["failed"].n \in Nat
        /\ cfg.adapter # "database" => kv["failed"].ttl # "over"
        /\ kv["failed"] \in Entry
    BY GuessNumbers, GuessTypes DEF Sizes, GuessInv, CallsFit, TypeInv, TypeOK
  <1>00. call[c].pc \in {"incr", "incrFound", "incrExpire", "incrInsert", "counted"} =>
           key = "failed" \/ key = "resets"
    BY DEF TypeInv, Fits, Counters
  <1> HIDE DEF r, k, i, l, N, key
  \* The counter of reset requests.
  <1>1. ASSUME NEW q, call' = [call EXCEPT ![c] = q],
               q.pc \in {"incrFound", "incrInsert", "incrExpire", "counted", "idle", "invalidate"},
               q.key \in {"resets", "none"}, Fit(q), key = "resets",
               kv'["failed"] = kv["failed"], kv'["lock"] = kv["lock"], cfg' = cfg, past' = past
        PROVE  GuessInv'
    <2>1. call'[c] = q /\ \A d \in Calls \ {c} : call'[d] = call[d]
      BY <1>1, Put
    <2>2. Quiet(c)
      BY <1>1, <2>1 DEF Quiet, Reads, Counts, Locks, key
    <2> QED BY <2>2, QuietStep
  \* A failure is counted.
  <1>2. ASSUME NEW q, call' = [call EXCEPT ![c] = q], q.pc \in {"counted", "incrExpire"},
               q.key = "failed", q.n = Count + 1, Count' = Count + 1,
               Counts(call[c]), cfg' = cfg, past' = past, kv'["lock"] = kv["lock"],
               Count = 0 => Inserts(call[c]) \/ cfg.adapter # "database",
               Inserts(call[c]) => Count = 0 /\ cfg.adapter = "database",
               cfg.adapter # "database" => kv'["failed"].ttl # "over"
        PROVE  GuessInv'
    <2>1. call'[c] = q /\ \A d \in Calls \ {c} : call'[d] = call[d]
      BY <1>2, Put
    <2>2. Live("lock")' = Live("lock")
      BY <1>2 DEF Live
    <2>3. Calm' /\ Tally => Tested' /\ Count' <= MaxFailures - 1 + Cardinality(Lockers')
      BY <1>2, <2>1, <2>2, CountedOne
    <2> QED BY <1>2, <2>1, <2>2, <2>3, GuessStep DEF Fit
  \* Nothing is counted.
  <1>3. ASSUME \A d \in Calls \ {c} : call'[d] = call[d], cfg' = cfg, past' = past,
               Count' = Count, Live("lock")' = Live("lock"),
               kv'["failed"].ttl # "over" \/ kv'["failed"] = kv["failed"], Fit(call'[c]),
               call'[c].pc # "clear",
               Reads(call'[c]) <=> Reads(call[c]), Locks(call'[c]) <=> Locks(call[c]),
               \/ /\ Counts(call'[c]) <=> Counts(call[c])
                  /\ Inserts(call'[c]) <=> Inserts(call[c])
               \/ /\ Counts(call'[c]) <=> Counts(call[c])
                  /\ ~Inserts(call[c]) /\ Inserts(call'[c]) /\ Count = 0
               \/ /\ Counts(call[c]) /\ ~Counts(call'[c]) /\ Inserts(call[c]) /\ ~Inserts(call'[c])
                  /\ Count # 0
        PROVE  GuessInv'
    <2>1. /\ r' = r /\ l' = l
          /\ \/ k' = k /\ i' = i
             \/ k' = k /\ Count = 0
             \/ k' = k - 1 /\ i' = i - 1 /\ Count # 0
      BY <1>3, RoleStep DEF One, Sizes, r, k, i, l
    <2>2. Slack' = Slack /\ Calm' = Calm /\ past'.tested = past.tested
      BY <1>3 DEF Slack, Calm
    <2>3. Calm' /\ Tally => Tested' /\ Count' <= MaxFailures - 1 + Cardinality(Lockers')
      BY <1>0, <1>3, <2>1, <2>2 DEF Tally, Tested, r, k, i, l
    <2>4. cfg.adapter # "database" => kv'["failed"].ttl # "over"
      BY <1>0, <1>3
    <2> QED BY <1>3, <2>3, <2>4, GuessStep
  <1>4. CASE Incr(c)
    <2>1. call[c].pc = "incr" /\ UNCHANGED << cfg, past >>
      BY <1>4 DEF Incr
    <2>2. ASSUME cfg.adapter = "redis", UNCHANGED kv,
                 call' = [call EXCEPT ![c] = [@ EXCEPT !.pc = "incrFound", !.fresh = ~Live(key)]]
          PROVE  GuessInv'
      <3>1. PICK q : q = [call[c] EXCEPT !.pc = "incrFound", !.fresh = ~Live(key)]
        OBVIOUS
      <3>2. q.pc = "incrFound" /\ q.key = key /\ Fit(q)
        BY <1>0, <2>2, <3>1 DEF Call, Fit, key
      <3>3. call' = [call EXCEPT ![c] = q]
        BY <2>2, <3>1
      <3>4. call'[c] = q /\ \A d \in Calls \ {c} : call'[d] = call[d]
        BY <3>3, Put
      <3>5. CASE key = "resets"
        BY <1>1, <2>1, <2>2, <3>2, <3>3, <3>5
      <3>6. CASE key = "failed"
        <4>1. Count' = Count /\ Live("lock")' = Live("lock")
          BY <2>1, <2>2, SameKeys
        <4>2. /\ ~Reads(q) /\ ~Reads(call[c]) /\ ~Locks(q) /\ ~Locks(call[c])
              /\ Counts(q) /\ Counts(call[c]) /\ ~Inserts(q) /\ ~Inserts(call[c])
          BY <2>1, <3>2, <3>6 DEF Reads, Counts, Inserts, Locks, key
        <4> QED BY <1>3, <2>1, <2>2, <3>2, <3>4, <4>1, <4>2
      <3> QED BY <1>00, <2>1, <3>5, <3>6
    <2>3. ASSUME cfg.adapter = "database", ~Live(key), GoTo(c, "incrInsert"), UNCHANGED kv
          PROVE  GuessInv'
      <3>1. /\ call'[c].pc = "incrInsert" /\ call'[c].key = key /\ Fit(call'[c])
            /\ \A d \in Calls \ {c} : call'[d] = call[d]
        BY <2>3, Gone DEF Fit, key
      <3>2. CASE key = "resets"
        <4>1. Quiet(c)
          BY <2>1, <2>3, <3>1, <3>2 DEF Quiet, Reads, Counts, Locks, key
        <4> QED BY <4>1, QuietStep
      <3>3. CASE key = "failed"
        <4>1. Count' = Count /\ Live("lock")' = Live("lock") /\ Count = 0
          BY <1>0, <2>1, <2>3, <3>3, SameKeys
        <4>2. /\ ~Reads(call'[c]) /\ ~Reads(call[c]) /\ ~Locks(call'[c]) /\ ~Locks(call[c])
              /\ Counts(call'[c]) /\ Counts(call[c]) /\ Inserts(call'[c]) /\ ~Inserts(call[c])
          BY <2>1, <3>1, <3>3 DEF Reads, Counts, Inserts, Locks, key
        <4> QED BY <1>3, <2>1, <2>3, <3>1, <4>1, <4>2
      <3> QED BY <1>00, <2>1, <3>2, <3>3
    <2>4. ASSUME cfg.adapter = "memory" \/ (cfg.adapter = "database" /\ Live(key)),
                 kv' = [kv EXCEPT ![key] = Incremented(key)],
                 call' = [call EXCEPT ![c] = [@ EXCEPT !.pc = "counted", !.n = kv'[key].n]]
          PROVE  GuessInv'
      <3>1. PICK q : q = [call[c] EXCEPT !.pc = "counted", !.n = kv'[key].n]
        OBVIOUS
      <3>2. q.pc = "counted" /\ q.key = key /\ q.n = kv'[key].n /\ Fit(q)
        BY <1>0, <3>1 DEF Call, Fit, key
      <3>3. call' = [call EXCEPT ![c] = q]
        BY <2>4, <3>1
      <3>4. CASE key = "resets"
        <4>1. kv'["failed"] = kv["failed"] /\ kv'["lock"] = kv["lock"]
          BY <1>0, <2>4, <3>4
        <4> QED BY <1>1, <2>1, <3>2, <3>3, <3>4, <4>1
      <3>5. CASE key = "failed"
        <4>1. kv'["failed"] = Incremented("failed") /\ kv'["lock"] = kv["lock"]
          BY <1>0, <2>4, <3>5
        <4>2. kv'["failed"].n = Count + 1 /\ kv'["failed"].ttl # "over"
          BY <1>0, <4>1 DEF Incremented, Live, Entry
        <4>3. Count' = Count + 1
          BY <1>0, <4>2 DEF Count, Live
        <4>4. Counts(call[c]) /\ ~Inserts(call[c]) /\ (Count = 0 => cfg.adapter # "database")
          BY <1>0, <2>1, <2>4, <3>5 DEF Counts, Inserts, key
        <4> QED BY <1>2, <2>1, <3>2, <3>3, <3>5, <4>1, <4>2, <4>3, <4>4
      <3> QED BY <1>00, <2>1, <3>4, <3>5
    <2> QED BY <1>4, <2>2, <2>3, <2>4 DEF Incr, key
  <1>5. CASE IncrFound(c)
    <2> DEFINE n == kv[key].n + 1
               pc == IF call[c].fresh /\ n = 1 THEN "incrExpire" ELSE "counted"
    <2>1. /\ call[c].pc = "incrFound" /\ UNCHANGED << cfg, past >> /\ cfg.adapter = "redis"
          /\ kv' = [kv EXCEPT ![key].n = n]
          /\ call' = [call EXCEPT ![c] = [@ EXCEPT !.pc = pc, !.fresh = FALSE, !.n = n]]
      BY <1>0, <1>5 DEF IncrFound, Fit, key
    <2>2. pc \in {"incrExpire", "counted"}
      OBVIOUS
    <2> HIDE DEF pc
    <2>3. PICK q : q = [call[c] EXCEPT !.pc = pc, !.fresh = FALSE, !.n = n]
      OBVIOUS
    <2>4. q.pc = pc /\ q.key = key /\ q.n = n /\ Fit(q)
      BY <1>0, <2>2, <2>3 DEF Call, Fit, key
    <2>5. call' = [call EXCEPT ![c] = q]
      BY <2>1, <2>3
    <2>6. CASE key = "resets"
      <3>1. kv'["failed"] = kv["failed"] /\ kv'["lock"] = kv["lock"]
        BY <1>0, <2>1, <2>6
      <3>2. q.pc \in {"incrFound", "incrInsert", "incrExpire", "counted", "idle", "invalidate"}
            /\ q.key \in {"resets", "none"}
        BY <2>2, <2>4, <2>6
      <3> QED BY <1>1, <2>1, <2>4, <2>5, <2>6, <3>1, <3>2
    <2>7. CASE key = "failed"
      <3>1. /\ kv'["failed"].n = n /\ kv'["failed"].ttl = kv["failed"].ttl
            /\ kv'["lock"] = kv["lock"]
        BY <1>0, <2>1, <2>7 DEF Entry
      <3>2. kv["failed"].ttl # "over" /\ Count = kv["failed"].n
        BY <1>0, <2>1 DEF Count, Live
      <3>3. Count' = Count + 1 /\ n = Count + 1
        BY <1>0, <2>7, <3>1, <3>2 DEF Count, Live
      <3>4. Counts(call[c]) /\ ~Inserts(call[c]) /\ cfg.adapter # "database"
        BY <2>1, <2>7 DEF Counts, Inserts, key
      <3> QED BY <1>2, <2>1, <2>2, <2>4, <2>5, <2>7, <3>1, <3>2, <3>3, <3>4
    <2> QED BY <1>00, <2>1, <2>6, <2>7
  <1>6. CASE IncrExpire(c)
    <2>1. /\ call[c].pc = "incrExpire" /\ UNCHANGED << cfg, past >> /\ GoTo(c, "counted")
          /\ kv' = IF Live(key) THEN [kv EXCEPT ![key].ttl = "running"] ELSE kv
      BY <1>6 DEF IncrExpire, key
    <2>2. /\ call'[c].pc = "counted" /\ call'[c].key = key /\ call'[c].n = call[c].n
          /\ \A d \in Calls \ {c} : call'[d] = call[d]
      BY <2>1, Gone DEF key
    <2>3. Fit(call'[c])
      BY <2>2 DEF Fit
    <2>4. CASE key = "resets"
      <3>1. kv'["failed"] = kv["failed"] /\ kv'["lock"] = kv["lock"]
        BY <1>0, <2>1, <2>4
      <3>2. Quiet(c)
        BY <2>1, <2>2, <2>3, <2>4, <3>1 DEF Quiet, Reads, Counts, Locks, key
      <3> QED BY <3>2, QuietStep
    <2>5. CASE key = "failed"
      <3>1. /\ kv'["failed"].n = kv["failed"].n /\ kv'["lock"] = kv["lock"]
            /\ \/ Live("failed") /\ kv'["failed"].ttl = "running"
               \/ kv'["failed"] = kv["failed"]
        BY <1>0, <2>1, <2>5 DEF Entry
      <3>2. Count' = Count /\ Live("lock")' = Live("lock")
        BY <3>1 DEF Count, Live
      <3>3. /\ ~Reads(call'[c]) /\ ~Reads(call[c]) /\ ~Counts(call'[c]) /\ ~Counts(call[c])
            /\ ~Inserts(call'[c]) /\ ~Inserts(call[c]) /\ (Locks(call'[c]) <=> Locks(call[c]))
        BY <2>1, <2>2, <2>5 DEF Reads, Counts, Inserts, Locks, key
      <3> QED BY <1>3, <2>1, <2>2, <2>3, <3>1, <3>2, <3>3
    <2> QED BY <1>00, <2>1, <2>4, <2>5
  <1>7. CASE IncrInsert(c)
    <2>1. call[c].pc = "incrInsert" /\ UNCHANGED << cfg, past >> /\ cfg.adapter = "database"
      BY <1>0, <1>7 DEF IncrInsert, Fit
    <2>2. ASSUME Live(key), End(c), UNCHANGED kv PROVE GuessInv'
      <3>1. call'[c] = Idle /\ \A d \in Calls \ {c} : call'[d] = call[d]
        BY <2>2, Gone
      <3>2. CASE key = "resets"
        BY <1>1, <2>1, <2>2, <3>2, IdleRole DEF End, Idle
      <3>3. CASE key = "failed"
        <4>1. Count' = Count /\ Live("lock")' = Live("lock") /\ Count # 0
          BY <1>0, <2>1, <2>2, <3>3, SameKeys
        <4>2. /\ ~Reads(call[c]) /\ ~Locks(call[c]) /\ Counts(call[c]) /\ Inserts(call[c])
          BY <2>1, <3>3 DEF Reads, Counts, Inserts, Locks, key
        <4> QED BY <1>3, <2>1, <2>2, <3>1, <4>1, <4>2, IdleRole
      <3> QED BY <1>00, <2>1, <3>2, <3>3
    <2>3. ASSUME ~Live(key), kv' = [kv EXCEPT ![key] = Incremented(key)],
                 call' = [call EXCEPT ![c] = [@ EXCEPT !.pc = "counted", !.n = 1]]
          PROVE  GuessInv'
      <3>1. PICK q : q = [call[c] EXCEPT !.pc = "counted", !.n = 1]
        OBVIOUS
      <3>2. q.pc = "counted" /\ q.key = key /\ q.n = 1 /\ Fit(q)
        BY <1>0, <3>1 DEF Call, Fit, key
      <3>3. call' = [call EXCEPT ![c] = q]
        BY <2>3, <3>1
      <3>4. CASE key = "resets"
        <4>1. kv'["failed"] = kv["failed"] /\ kv'["lock"] = kv["lock"]
          BY <1>0, <2>3, <3>4
        <4> QED BY <1>1, <2>1, <3>2, <3>3, <3>4, <4>1
      <3>5. CASE key = "failed"
        <4>1. kv'["failed"] = Incremented("failed") /\ kv'["lock"] = kv["lock"]
          BY <1>0, <2>3, <3>5
        <4>2. kv'["failed"].n = 1 /\ kv'["failed"].ttl # "over" /\ Count = 0
          BY <1>0, <2>3, <3>5, <4>1 DEF Incremented
        <4>3. Count' = 1
          BY <4>2 DEF Count, Live
        <4>4. Counts(call[c]) /\ Inserts(call[c])
          BY <2>1, <3>5 DEF Counts, Inserts, key
        <4>5. q.pc \in {"counted", "incrExpire"} /\ q.n = Count + 1 /\ Count' = Count + 1
          BY <3>2, <4>2, <4>3
        <4> QED BY <1>2, <2>1, <3>2, <3>3, <3>5, <4>1, <4>2, <4>4, <4>5
      <3> QED BY <1>00, <2>1, <3>4, <3>5
    <2> QED BY <1>7, <2>2, <2>3 DEF IncrInsert, key
  <1>8. CASE Counted(c)
    <2>1. call[c].pc = "counted" /\ UNCHANGED << kv, cfg, past >>
      BY <1>8 DEF Counted
    <2>2. Count' = Count /\ Live("lock")' = Live("lock")
      BY <2>1, SameKeys
    <2>3. ASSUME key = "failed", call[c].n >= MaxFailures, GoTo(c, "setLock") PROVE GuessInv'
      <3>1. /\ call'[c].pc = "setLock" /\ call'[c].key = "failed"
            /\ \A d \in Calls \ {c} : call'[d] = call[d]
        BY <2>3, Gone DEF key
      <3>2. /\ ~Reads(call'[c]) /\ ~Reads(call[c]) /\ ~Counts(call'[c]) /\ ~Counts(call[c])
            /\ ~Inserts(call'[c]) /\ ~Inserts(call[c]) /\ Locks(call'[c]) /\ Locks(call[c])
        BY <2>1, <2>3, <3>1 DEF Reads, Counts, Inserts, Locks, key
      <3> QED BY <1>3, <2>1, <2>2, <3>1, <3>2 DEF Fit
    <2>4. ASSUME key = "resets" \/ ~(call[c].n >= MaxFailures), End(c) PROVE GuessInv'
      <3>1. call'[c] = Idle /\ \A d \in Calls \ {c} : call'[d] = call[d]
        BY <2>4, Gone
      <3>2. ~Reads(call[c]) /\ ~Counts(call[c]) /\ ~Inserts(call[c]) /\ ~Locks(call[c])
        BY <2>1, <2>4 DEF Reads, Counts, Inserts, Locks, key
      <3> QED BY <1>3, <2>1, <2>2, <3>1, <3>2, IdleRole
    <2>5. ASSUME key = "resets", GoTo(c, "invalidate") PROVE GuessInv'
      <3>1. /\ call'[c].pc = "invalidate" /\ call'[c].key = "resets"
            /\ \A d \in Calls \ {c} : call'[d] = call[d]
        BY <2>5, Gone DEF key
      <3>2. Quiet(c)
        BY <2>1, <2>5, <3>1 DEF Quiet, Reads, Counts, Locks, Fit, key
      <3> QED BY <3>2, QuietStep
    <2> QED BY <1>8, <2>3, <2>4, <2>5 DEF Counted, key
  <1>9. CASE SetLock(c)
    <2>1. /\ call[c].pc = "setLock" /\ cfg' = cfg /\ GoTo(c, "clear") /\ key = "failed"
      BY <1>0, <1>9 DEF SetLock, Fit, key
    <2>2. /\ call'[c].pc = "clear" /\ call'[c].key = "failed" /\ Fit(call'[c])
          /\ \A d \in Calls \ {c} : call'[d] = call[d]
      BY <2>1, Gone DEF Fit, key
    <2>3. ASSUME kv' = [kv EXCEPT !["lock"] = [n |-> 1, ttl |-> "running"]], past' = past
          PROVE  GuessInv'
      <3>1. r' = r /\ k' = k /\ i' = i /\ l' = l
        BY <2>1, <2>2, RoleStep
           DEF One, Sizes, Reads, Counts, Inserts, Locks, key, r, k, i, l
      <3>2. kv'["failed"] = kv["failed"] /\ kv'["lock"].n = 1 /\ kv'["lock"].ttl = "running"
        BY <1>0, <2>3
      <3>3. /\ Live("lock")' /\ Count' = Count /\ Slack' = Slack /\ Calm' = Calm
            /\ past'.tested = past.tested
        BY <2>1, <2>3, <3>2 DEF Live, Count, Slack, Calm
      <3>4. Calm' /\ Tally => Tested' /\ Count' <= MaxFailures - 1 + Cardinality(Lockers')
        BY <1>0, <3>1, <3>3 DEF Tally, Tested, r, k, i, l, N
      <3> QED BY <1>0, <2>1, <2>2, <2>3, <3>2, <3>3, <3>4, GuessStep
    <2>4. ASSUME Remember({"lostLock"}), kv' = kv PROVE GuessInv'
      <3>1. past'.races = past.races \cup {"lostLock"}
        BY <2>4, Remembered
      <3>2. ~Calm'
        BY <3>1 DEF Calm
      <3> QED BY <1>0, <2>1, <2>2, <2>4, <3>1, <3>2, GuessStep
    <2> QED BY <1>9, <2>3, <2>4 DEF SetLock
  <1> QED BY <1>4, <1>5, <1>6, <1>7, <1>8, <1>9

\* What happens around the requests.
LEMMA GuessBeside ==
    ASSUME TypeInv, TypeInv', GuessInv,
           \/ \E k \in Keys : Expire(k)
           \/ \E i \in Rows : ExpireCode(i)
           \/ Disable
           \/ UNCHANGED vars
    PROVE  GuessInv'
  <1>1. call' = call /\ cfg' = cfg /\ past.races \subseteq past'.races
    <2>1. ASSUME NEW k \in Keys, Expire(k) PROVE past.races \subseteq past'.races
      BY <2>1 DEF Expire, TypeInv, TypeOK, Past
    <2>2. ASSUME Disable PROVE past.races \subseteq past'.races
      BY <2>2 DEF Disable, TypeInv, TypeOK, Past
    <2> QED BY <2>1, <2>2 DEF Expire, ExpireCode, Disable, vars
  <1>2. /\ Readers' = Readers /\ Counting' = Counting /\ Inserting' = Inserting
        /\ Lockers' = Lockers /\ Slack' = Slack /\ (Calm' => Calm)
    BY <1>1 DEF Readers, Counting, Inserting, Lockers, Slack, Calm
  <1>3. /\ Slack \in Nat /\ Count \in Nat /\ past.tested \in Nat /\ MaxFailures \in Nat \ {0}
        /\ Sizes /\ kv \in [Keys -> Entry] /\ {"failed", "lock"} \subseteq Keys
    BY GuessNumbers, GuessTypes DEF TypeInv, TypeOK
  <1>4. ASSUME kv'["failed"] = kv["failed"], kv'["lock"] = kv["lock"],
               past'.tested = past.tested
        PROVE  GuessInv'
    <2>1. /\ Live("failed")' = Live("failed") /\ Live("lock")' = Live("lock")
          /\ Count' = Count
      BY <1>1, <1>4, SameKeys
    <2>2. Tally'
      BY <1>1, <1>2, <1>4, <2>1 DEF GuessInv, Tally, Tested
    <2>3. CallsFit'
      BY <1>1, <1>4 DEF GuessInv, CallsFit, Fit
    <2> QED BY <2>2, <2>3 DEF GuessInv
  <1>5. ASSUME NEW k \in Keys, Expire(k) PROVE GuessInv'
    <2>1. /\ kv' = [kv EXCEPT ![k] = IF cfg.adapter = "database" THEN [@ EXCEPT !.ttl = "over"]
                                     ELSE Absent]
          /\ k = "lock" => ~ \E c \in Calls : call[c].pc = "clear" /\ call[c].key = "failed"
          /\ past'.tested = IF k = "resets" THEN past.tested ELSE 0
      BY <1>5 DEF Expire, At, TypeInv, TypeOK, Past
    <2>2. CASE k = "resets"
      BY <1>3, <1>4, <2>1, <2>2
    <2>3. CASE k # "resets"
      <3>1. k \in {"failed", "lock"} /\ past'.tested = 0
        BY <2>1, <2>3 DEF Keys
      <3>2. /\ kv'[k].n = 0 \/ kv'[k].ttl = "over"
            /\ cfg.adapter # "database" => kv'[k].ttl = "none"
            /\ \A j \in Keys \ {k} : kv'[j] = kv[j]
        BY <1>3, <2>1 DEF Absent, Entry
      <3>3. ~Live(k)'
        BY <3>2 DEF Live
      <3>4. /\ k = "failed" => Live("lock")' = Live("lock") /\ Count' = 0
            /\ k = "lock" => ~Live("lock")' /\ Count' = Count
        BY <1>3, <3>2, <3>3 DEF Live, Count
      <3>5. Tally'
        <4>1. ASSUME Calm' PROVE Tested'
          BY <1>2, <1>3, <3>1, <3>4 DEF Tested, Sizes
        <4>2. ASSUME Calm' PROVE Count' <= MaxFailures - 1 + Cardinality(Lockers')
          <5>1. Count <= MaxFailures - 1 + Cardinality(Lockers)
            BY <1>2, <4>2 DEF GuessInv, Tally
          <5> QED BY <1>2, <1>3, <3>1, <3>4, <5>1 DEF Sizes
        <4>3. ASSUME Calm', NEW c \in Calls, call'[c].pc = "clear", call'[c].key = "failed"
              PROVE  Live("lock")'
          BY <1>1, <1>2, <2>1, <3>1, <3>4, <4>3 DEF GuessInv, Tally
        <4> QED BY <4>1, <4>2, <4>3 DEF Tally
      <3>6. CallsFit'
        BY <1>1, <1>3, <3>1, <3>2 DEF GuessInv, CallsFit, Fit
      <3> QED BY <3>5, <3>6 DEF GuessInv
    <2> QED BY <2>2, <2>3
  <1>6. CASE \/ \E i \in Rows : ExpireCode(i)
             \/ Disable
             \/ UNCHANGED vars
    BY <1>4, <1>6 DEF ExpireCode, Disable, vars, TypeInv, TypeOK, Past
  <1> QED BY <1>5, <1>6

LEMMA GuessNext == TypeInv /\ GuessInv /\ [Next]_vars => GuessInv'
  <1> SUFFICES ASSUME TypeInv, GuessInv, [Next]_vars PROVE GuessInv'
    OBVIOUS
  <1>1. TypeInv'
    BY TypeStep
  <1>2. ASSUME NEW c \in Calls, Crash(c) PROVE GuessInv'
    <2>1. /\ cfg' = cfg /\ kv' = kv /\ End(c) /\ past'.races = past.races \cup {"crash"}
      BY <1>2, Remembered DEF Crash
    <2>2. call'[c] = Idle /\ \A d \in Calls \ {c} : call'[d] = call[d]
      BY <2>1, Gone
    <2>3. ~Calm'
      BY <2>1 DEF Calm
    <2>4. cfg.adapter # "database" => kv'["failed"].ttl # "over"
      BY <2>1 DEF GuessInv, CallsFit
    <2> QED BY <1>1, <2>1, <2>2, <2>3, <2>4, IdleRole, GuessStep
  <1>3. ASSUME NEW c \in Calls, Login(c) \/ RequestReset(c) \/ Confirm(c) PROVE GuessInv'
    BY <1>1, <1>3, QuietStart, QuietStep
  <1>4. ASSUME NEW c \in Calls, Step(c) PROVE GuessInv'
    BY <1>1, <1>4, QuietSteps, QuietCheck, QuietStep, GuessLogin, GuessCount DEF Step
  <1> QED BY <1>1, <1>2, <1>3, <1>4, GuessBeside DEF Next

\* The wrong passwords that an address may try before it is locked exceed the limit by at
\* most the requests that were in progress beside, in the database by twice as many: with
\* any number of requests at a time, any limit, and in each of the three adapters.
THEOREM GuessesAreLimited == Spec => []GuessesMeetTheLock
  <1>1. Init => GuessInv
    <2> SUFFICES ASSUME Init PROVE GuessInv
      OBVIOUS
    <2>1. /\ \A c \in Calls : call[c] = Idle
          /\ kv["failed"] = Absent /\ kv["lock"] = Absent /\ past.tested = 0
      BY DEF Init, Keys, Nothing
    <2>2. ~Live("lock") /\ Count = 0 /\ kv["failed"].ttl # "over"
      BY <2>1 DEF Live, Count, Absent
    <2>3. Sizes /\ MaxFailures \in Nat \ {0}
      BY SizesHold, RecoveryAssumption
    <2>4. Tally
      BY <2>1, <2>2, <2>3, IdleRole DEF Tally, Tested, Sizes
    <2>5. CallsFit
      BY <2>1, <2>2, IdleRole DEF CallsFit
    <2> QED BY <2>4, <2>5 DEF GuessInv
  <1>2. TypeInv /\ GuessInv => GuessesMeetTheLock
    <2> SUFFICES ASSUME TypeInv, GuessInv, Calm
                 PROVE  past.tested <= MaxFailures +
                          (IF cfg.adapter = "database" THEN 2 * (Cardinality(Calls) - 1)
                           ELSE Cardinality(Calls) - 1)
      BY DEF GuessesMeetTheLock, Calm
    <2>1. Tested /\ Count <= MaxFailures - 1 + Cardinality(Lockers)
      BY DEF GuessInv, Tally
    <2>2. cfg.adapter # "database" => Slack = 0
      BY DEF Slack
    <2> QED BY <2>1, <2>2, GuessNumbers DEF Tested, Sizes
  <1> QED BY <1>1, <1>2, GuessNext, TypeInvariant, PTL DEF Spec
==============================================================================
