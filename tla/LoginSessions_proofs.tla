------------------------ MODULE LoginSessions_proofs -------------------------
(***************************************************************************)
(* Theorems about LoginSessions, for every value of its constants.         *)
(***************************************************************************)
EXTENDS LoginSessions, FiniteSetTheorems, SequenceTheorems, TLAPS

(* Shapes: what the proofs need of the types. *)

LoginFields == {"pc", "device", "ids", "row", "outcome", "epoch", "overlapped", "kept", "stale"}

IsLogins(g) ==
    /\ g = [l \in Logins |-> g[l]]
    /\ \A l \in Logins : /\ DOMAIN g[l] = LoginFields
                         /\ g[l].device \in Devices \cup {NoDevice}
                         /\ g[l].epoch \in Nat

Shape ==
    /\ rows \in Seq(Row)
    /\ IsLogins(login)
    /\ disables \in Nat

\* Revoking keeps every row and its owner and device, and makes no session live.
LEMMA RevokedRows ==
    ASSUME rows \in Seq(Row), NEW ids, RevokeRows(ids)
    PROVE  /\ rows' \in Seq(Row) /\ DOMAIN rows' = Ids /\ Live' = Live \ ids
           /\ \A s \in Ids : rows'[s].owner = rows[s].owner /\ rows'[s].device = rows[s].device
  <1> DEFINE b(s) == rows[s].over \/ s \in ids
  <1>1. /\ DOMAIN rows' = Ids
        /\ \A s \in Ids : rows'[s] = [rows[s] EXCEPT !.over = b(s)] /\ b(s) \in BOOLEAN
    BY DEF RevokeRows
  <1>2. \A s \in Ids : rows[s] \in Row
    BY DEF Ids
  <1> HIDE DEF b
  <1>3. \A s \in Ids : /\ rows'[s] \in Row
                       /\ rows'[s].owner = rows[s].owner /\ rows'[s].device = rows[s].device
                       /\ rows'[s].over = b(s)
    BY <1>1, <1>2 DEF Row
  <1>4. rows' \in Seq(Row)
    <2>1. PICK n \in Nat : rows \in [1..n -> Row]
      BY SeqDef
    <2>2. Ids = 1..n
      BY <2>1 DEF Ids
    <2>3. rows' = [s \in 1..n |-> rows'[s]]
      BY <2>2 DEF RevokeRows
    <2>4. rows' \in [1..n -> Row]
      BY <2>2, <2>3, <1>3
    <2> QED BY <2>1, <2>4, SeqDef
  <1>5. Live' = Live \ ids
    BY <1>1, <1>3 DEF Live, IsLive, Ids, b
  <1> QED BY <1>1, <1>3, <1>4, <1>5

\* What save and updateTokens do to the rows.
LEMMA SavedRows ==
    ASSUME rows \in Seq(Row), NEW l \in Logins,
           login[l].device \in Devices \cup {NoDevice}, Save(l)
    PROVE  /\ rows' \in Seq(Row) /\ DOMAIN rows' = Ids \cup {Len(rows) + 1}
           /\ Len(rows) + 1 \notin Ids /\ Live' = Live \cup {Len(rows) + 1}
           /\ rows'[Len(rows) + 1].owner = l /\ rows'[Len(rows) + 1].device = login[l].device
           /\ \A s \in Ids : rows'[s] = rows[s]
  <1> DEFINE new == [device |-> login[l].device, over |-> FALSE, stored |-> FALSE, owner |-> l]
  <1>1. new \in Row /\ rows' = Append(rows, new)
    BY DEF Save, Row
  <1>2. rows' \in Seq(Row) /\ Len(rows') = Len(rows) + 1 /\ Len(rows) \in Nat
    BY <1>1
  <1>3. rows'[Len(rows) + 1] = new /\ \A s \in 1..Len(rows) : rows'[s] = rows[s]
    BY <1>1
  <1>4. Ids = 1..Len(rows) /\ DOMAIN rows' = 1..(Len(rows) + 1)
    BY <1>2 DEF Ids
  <1>5. DOMAIN rows' = Ids \cup {Len(rows) + 1} /\ Len(rows) + 1 \notin Ids
    BY <1>2, <1>4
  <1>6. Live' = Live \cup {Len(rows) + 1}
    BY <1>3, <1>4, <1>5 DEF Live, IsLive, Ids
  <1> QED BY <1>2, <1>3, <1>4, <1>5, <1>6

LEMMA UpdatedRows ==
    ASSUME rows \in Seq(Row), NEW i, rows' = [rows EXCEPT ![i].stored = TRUE]
    PROVE  /\ rows' \in Seq(Row) /\ DOMAIN rows' = Ids /\ Live' = Live
           /\ \A s \in Ids : rows'[s].owner = rows[s].owner /\ rows'[s].device = rows[s].device
  <1>1. PICK n \in Nat : rows \in [1..n -> Row]
    BY SeqDef
  <1>2. \A s \in 1..n : rows[s] \in Row
    BY <1>1
  <1>3. \A s \in 1..n : /\ rows'[s] \in Row /\ rows'[s].over = rows[s].over
                        /\ rows'[s].owner = rows[s].owner /\ rows'[s].device = rows[s].device
    BY <1>1, <1>2 DEF Row
  <1>4. rows' \in [1..n -> Row]
    BY <1>1, <1>3
  <1>5. Ids = 1..n /\ DOMAIN rows' = 1..n
    BY <1>1, <1>4 DEF Ids
  <1>6. Live' = Live
    BY <1>3, <1>5 DEF Live, IsLive, Ids
  <1> QED BY <1>3, <1>4, <1>5, <1>6, SeqDef

-----------------------------------------------------------------------------
(* What a step does to the logins. *)

\* The login k is where it was; it may have been overlapped.
Stays(k) ==
    /\ login'[k].pc = login[k].pc /\ login'[k].device = login[k].device
    /\ login'[k].ids = login[k].ids /\ login'[k].row = login[k].row
    /\ login'[k].epoch = login[k].epoch /\ login'[k].kept = login[k].kept
    /\ login[k].overlapped => login'[k].overlapped
    /\ login[k].stale => login'[k].stale

\* The login l moved to p; d, e, x and m are its device, epoch, ids and kept.
Moves(l, p, d, e, x, m) ==
    /\ IsLogins(login')
    /\ \A k \in Logins \ {l} : Stays(k)
    /\ login'[l].pc = p /\ login'[l].device = d /\ login'[l].epoch = e
    /\ login'[l].ids = x /\ login'[l].kept = m
    /\ login[l].overlapped => login'[l].overlapped

LEMMA OneMoves ==
    ASSUME NEW g, IsLogins(g), NEW l \in Logins, NEW q, DOMAIN q = LoginFields,
           q.device \in Devices \cup {NoDevice}, q.epoch \in Nat,
           login' = [g EXCEPT ![l] = q]
    PROVE  IsLogins(login') /\ login'[l] = q /\ \A k \in Logins \ {l} : login'[k] = g[k]
  <1>1. login' = [k \in Logins |-> IF k = l THEN q ELSE g[k]]
    BY DEF IsLogins
  <1> QED BY <1>1 DEF IsLogins

LEMMA OverlapShape ==
    ASSUME IsLogins(login), NEW l \in Logins
    PROVE  /\ IsLogins(Overlapping(l))
           /\ \A k \in Logins :
                /\ Overlapping(l)[k] = [login[k] EXCEPT !.overlapped = Overlapping(l)[k].overlapped]
                /\ Overlapping(l)[k].overlapped <=>
                     (login[k].overlapped \/ (k \in Creating \ {l} \/ (k = l /\ Creating \ {l} # {})))
  <1> DEFINE b(k) == login[k].overlapped \/ (k \in Creating \ {l} \/ (k = l /\ Creating \ {l} # {}))
  <1>1. Overlapping(l) = [k \in Logins |-> [login[k] EXCEPT !.overlapped = b(k)]]
    BY DEF Overlapping
  <1>2. \A k \in Logins : Overlapping(l)[k] = [login[k] EXCEPT !.overlapped = b(k)]
    BY <1>1
  <1>3. \A k \in Logins : DOMAIN login[k] = LoginFields
    BY DEF IsLogins
  <1> HIDE DEF b
  <1>4. \A k \in Logins : Overlapping(l)[k].overlapped = b(k)
    BY <1>2, <1>3 DEF LoginFields
  <1>5. IsLogins(Overlapping(l))
    <2>1. \A k \in Logins : /\ DOMAIN Overlapping(l)[k] = LoginFields
                            /\ Overlapping(l)[k].device = login[k].device
                            /\ Overlapping(l)[k].epoch = login[k].epoch
      BY <1>2, <1>3 DEF LoginFields
    <2>2. Overlapping(l) = [k \in Logins |-> Overlapping(l)[k]]
      BY <1>1
    <2> QED BY <2>1, <2>2 DEF IsLogins
  <1>6. \A k \in Logins : Overlapping(l)[k] = [login[k] EXCEPT !.overlapped = Overlapping(l)[k].overlapped]
    BY <1>2, <1>4
  <1> QED BY <1>4, <1>5, <1>6 DEF b

\* One login moves and no other notices.
LEMMA GoesTo ==
    ASSUME IsLogins(login), NEW l \in Logins, NEW p, GoTo(l, p)
    PROVE  Moves(l, p, login[l].device, login[l].epoch, login[l].ids, login[l].kept)
  <1> DEFINE q == [login[l] EXCEPT !.pc = p]
  <1>1. DOMAIN login[l] = LoginFields
    BY DEF IsLogins
  <1>2. /\ DOMAIN q = LoginFields /\ q.pc = p /\ q.device = login[l].device
        /\ q.epoch = login[l].epoch /\ q.ids = login[l].ids /\ q.kept = login[l].kept
        /\ q.overlapped = login[l].overlapped
    BY <1>1 DEF LoginFields
  <1>3. login' = [login EXCEPT ![l] = q]
    BY DEF GoTo
  <1> HIDE DEF q
  <1>4. IsLogins(login') /\ login'[l] = q /\ \A k \in Logins \ {l} : login'[k] = login[k]
    BY <1>2, <1>3, OneMoves DEF IsLogins
  <1> QED BY <1>2, <1>4 DEF Moves, Stays

LEMMA Finishes ==
    ASSUME IsLogins(login), NEW l \in Logins, NEW out, Finish(l, out)
    PROVE  Moves(l, "done", login[l].device, login[l].epoch, login[l].ids, login[l].kept)
  <1> DEFINE q == [login[l] EXCEPT !.pc = "done", !.outcome = out]
  <1>1. DOMAIN login[l] = LoginFields
    BY DEF IsLogins
  <1>2. /\ DOMAIN q = LoginFields /\ q.pc = "done" /\ q.device = login[l].device
        /\ q.epoch = login[l].epoch /\ q.ids = login[l].ids /\ q.kept = login[l].kept
        /\ q.overlapped = login[l].overlapped
    BY <1>1 DEF LoginFields
  <1>3. login' = [login EXCEPT ![l] = q]
    BY DEF Finish, IsLogins
  <1> HIDE DEF q
  <1>4. IsLogins(login') /\ login'[l] = q /\ \A k \in Logins \ {l} : login'[k] = login[k]
    BY <1>2, <1>3, OneMoves DEF IsLogins
  <1> QED BY <1>2, <1>4 DEF Moves, Stays

\* A first read: everyone who is creating a session is overlapped, and so is the reader.
LEMMA Reads ==
    ASSUME IsLogins(login), NEW l \in Logins, NEW p, NEW x,
           login' = [Overlapping(l) EXCEPT ![l].pc = p, ![l].ids = x]
    PROVE  /\ Moves(l, p, login[l].device, login[l].epoch, x, login[l].kept)
           /\ \A k \in Creating \ {l} : login'[k].overlapped /\ login'[l].overlapped
  <1> DEFINE g == Overlapping(l)
             q == [g[l] EXCEPT !.pc = p, !.ids = x]
  <1>0. IsLogins(g) /\ login' = [g EXCEPT ![l].pc = p, ![l].ids = x]
    BY OverlapShape
  <1>1. \A k \in Logins :
          /\ g[k] = [login[k] EXCEPT !.overlapped = g[k].overlapped]
          /\ g[k].overlapped <=>
               (login[k].overlapped \/ (k \in Creating \ {l} \/ (k = l /\ Creating \ {l} # {})))
    BY OverlapShape
  <1> HIDE DEF g
  <1>2. \A k \in Logins : DOMAIN login[k] = LoginFields /\ DOMAIN g[k] = LoginFields
    BY <1>0 DEF IsLogins
  <1>3. \A k \in Logins :
          /\ g[k].pc = login[k].pc /\ g[k].device = login[k].device /\ g[k].ids = login[k].ids
          /\ g[k].row = login[k].row /\ g[k].epoch = login[k].epoch /\ g[k].kept = login[k].kept
          /\ g[k].stale = login[k].stale
    <2>1. ASSUME NEW k \in Logins
          PROVE  /\ g[k].pc = login[k].pc /\ g[k].device = login[k].device
                 /\ g[k].ids = login[k].ids /\ g[k].row = login[k].row
                 /\ g[k].epoch = login[k].epoch /\ g[k].kept = login[k].kept
                 /\ g[k].stale = login[k].stale
      <3>1. PICK o : g[k] = [login[k] EXCEPT !.overlapped = o]
        BY <1>1
      <3> QED BY <1>2, <3>1 DEF LoginFields
    <2> QED BY <2>1
  <1>4. /\ DOMAIN q = LoginFields /\ q.pc = p /\ q.device = login[l].device
        /\ q.epoch = login[l].epoch /\ q.ids = x /\ q.kept = login[l].kept
        /\ q.overlapped = g[l].overlapped
    BY <1>2, <1>3 DEF LoginFields
  <1>5. login' = [g EXCEPT ![l] = q]
    BY <1>0 DEF IsLogins
  <1> HIDE DEF q
  <1>6. q.device \in Devices \cup {NoDevice} /\ q.epoch \in Nat
    BY <1>4 DEF IsLogins
  <1>7. IsLogins(login') /\ login'[l] = q /\ \A k \in Logins \ {l} : login'[k] = g[k]
    <2>1. DOMAIN q = LoginFields
      BY <1>4
    <2> QED BY <1>0, <2>1, <1>5, <1>6, OneMoves
  <1>8. \A k \in Logins \ {l} : Stays(k)
    <2> SUFFICES ASSUME NEW k \in Logins, k # l PROVE Stays(k)
      OBVIOUS
    <2>1. login'[k] = g[k] /\ (login[k].overlapped => g[k].overlapped)
      BY <1>1, <1>7
    <2> QED BY <1>3, <2>1 DEF Stays
  <1>9. Moves(l, p, login[l].device, login[l].epoch, x, login[l].kept)
    BY <1>1, <1>4, <1>7, <1>8 DEF Moves
  <1>10. \A k \in Creating \ {l} : login'[k].overlapped /\ login'[l].overlapped
    BY <1>1, <1>4, <1>7 DEF Creating
  <1> QED BY <1>9, <1>10

\* A change of the order leaves every login where it is.
LEMMA OrderOnly ==
    ASSUME IsLogins(login)
    PROVE  /\ IsLogins(OrderChanged)
           /\ \A k \in Logins :
                /\ OrderChanged[k].pc = login[k].pc /\ OrderChanged[k].device = login[k].device
                /\ OrderChanged[k].ids = login[k].ids /\ OrderChanged[k].row = login[k].row
                /\ OrderChanged[k].epoch = login[k].epoch /\ OrderChanged[k].kept = login[k].kept
                /\ OrderChanged[k].overlapped = login[k].overlapped
                /\ login[k].stale \/ login[k].pc = "evict" => OrderChanged[k].stale
  <1> DEFINE b(k) == login[k].stale \/ login[k].pc = "evict"
  <1>1. OrderChanged = [k \in Logins |-> [login[k] EXCEPT !.stale = b(k)]]
    BY DEF OrderChanged
  <1>2. \A k \in Logins : DOMAIN login[k] = LoginFields
    BY DEF IsLogins
  <1> HIDE DEF b
  <1>3. \A k \in Logins : OrderChanged[k] = [login[k] EXCEPT !.stale = b(k)]
    BY <1>1
  <1>4. \A k \in Logins :
          /\ DOMAIN OrderChanged[k] = LoginFields
          /\ OrderChanged[k].pc = login[k].pc /\ OrderChanged[k].device = login[k].device
          /\ OrderChanged[k].ids = login[k].ids /\ OrderChanged[k].row = login[k].row
          /\ OrderChanged[k].epoch = login[k].epoch /\ OrderChanged[k].kept = login[k].kept
          /\ OrderChanged[k].overlapped = login[k].overlapped
          /\ OrderChanged[k].stale = b(k)
    BY <1>2, <1>3 DEF LoginFields
  <1>5. OrderChanged = [k \in Logins |-> OrderChanged[k]]
    BY <1>1
  <1>6. IsLogins(OrderChanged)
    BY <1>4, <1>5 DEF IsLogins
  <1> QED BY <1>4, <1>6 DEF b

\* From the check of the lock, or from an answer, on to the first read.
LEMMA ProceedMoves ==
    ASSUME IsLogins(login), NEW l \in Logins, NEW e \in Nat, Proceed(l, e)
    PROVE  \E d \in Devices \cup {NoDevice} :
             Moves(l, IF d = NoDevice THEN "count" ELSE "findDevice", d, e,
                   login[l].ids, login[l].kept)
  <1>1. PICK d \in Devices \cup {NoDevice} :
          login' = [login EXCEPT ![l].pc = IF d = NoDevice THEN "count" ELSE "findDevice",
                                 ![l].device = d, ![l].epoch = e]
    BY DEF Proceed
  <1> DEFINE p == IF d = NoDevice THEN "count" ELSE "findDevice"
             q == [login[l] EXCEPT !.pc = p, !.device = d, !.epoch = e]
  <1>2. login' = [login EXCEPT ![l] = q]
    BY <1>1 DEF IsLogins
  <1> HIDE DEF p
  <1>3. DOMAIN login[l] = LoginFields
    BY DEF IsLogins
  <1>4. /\ DOMAIN q = LoginFields /\ q.pc = p /\ q.device = d
        /\ q.epoch = e /\ q.ids = login[l].ids /\ q.kept = login[l].kept
        /\ q.overlapped = login[l].overlapped
    BY <1>3 DEF LoginFields
  <1> HIDE DEF q
  <1>5. IsLogins(login') /\ login'[l] = q /\ \A k \in Logins \ {l} : login'[k] = login[k]
    BY <1>2, <1>4, OneMoves DEF IsLogins
  <1>6. Moves(l, p, d, e, login[l].ids, login[l].kept)
    BY <1>4, <1>5 DEF Moves, Stays
  <1> QED BY <1>6 DEF p

LEMMA AuthenticateMoves ==
    ASSUME IsLogins(login), disables \in Nat, NEW l \in Logins, Authenticate(l)
    PROVE  \/ Moves(l, "done", login[l].device, login[l].epoch, login[l].ids, login[l].kept)
           \/ /\ ~locked
              /\ Moves(l, "challenge", login[l].device, disables, login[l].ids, login[l].kept)
           \/ /\ ~locked
              /\ \E d \in Devices \cup {NoDevice} :
                   Moves(l, IF d = NoDevice THEN "count" ELSE "findDevice", d, disables,
                         login[l].ids, login[l].kept)
  <1>1. CASE Finish(l, "ACCOUNT_LOCKED")
    BY <1>1, Finishes
  <1>2. CASE ~locked /\ login' = [login EXCEPT ![l].pc = "challenge", ![l].epoch = disables]
    <2> DEFINE q == [login[l] EXCEPT !.pc = "challenge", !.epoch = disables]
    <2>1. DOMAIN login[l] = LoginFields
      BY DEF IsLogins
    <2>2. /\ DOMAIN q = LoginFields /\ q.pc = "challenge" /\ q.device = login[l].device
          /\ q.epoch = disables /\ q.ids = login[l].ids /\ q.kept = login[l].kept
          /\ q.overlapped = login[l].overlapped
      BY <2>1 DEF LoginFields
    <2>3. login' = [login EXCEPT ![l] = q]
      BY <1>2 DEF IsLogins
    <2> HIDE DEF q
    <2>4. IsLogins(login') /\ login'[l] = q /\ \A k \in Logins \ {l} : login'[k] = login[k]
      BY <2>2, <2>3, OneMoves DEF IsLogins
    <2> QED BY <1>2, <2>2, <2>4 DEF Moves, Stays
  <1>3. CASE ~locked /\ Proceed(l, disables)
    BY <1>3, ProceedMoves
  <1> QED BY <1>1, <1>2, <1>3 DEF Authenticate

LEMMA AnswerMoves ==
    ASSUME IsLogins(login), NEW l \in Logins, Answer(l)
    PROVE  \/ Moves(l, "done", login[l].device, login[l].epoch, login[l].ids, login[l].kept)
           \/ \E d \in Devices \cup {NoDevice} :
                Moves(l, IF d = NoDevice THEN "count" ELSE "findDevice", d, login[l].epoch,
                      login[l].ids, login[l].kept)
  <1>1. login[l].epoch \in Nat
    BY DEF IsLogins
  <1> QED BY <1>1, Finishes, ProceedMoves DEF Answer

LEMMA FindDeviceMoves ==
    ASSUME IsLogins(login), NEW l \in Logins, FindDevice(l)
    PROVE  LET found == {s \in Live : rows[s].device = login[l].device}
           IN  /\ Moves(l, IF found = {} THEN "count" ELSE "revokeDevice", login[l].device,
                        login[l].epoch, found, login[l].kept)
               /\ \A k \in Creating \ {l} : login'[k].overlapped /\ login'[l].overlapped
  BY Reads DEF FindDevice

LEMMA KeepsDevice ==
    ASSUME IsLogins(login), NEW l \in Logins,
           login' = [login EXCEPT ![l].pc = "count", ![l].kept = TRUE]
    PROVE  Moves(l, "count", login[l].device, login[l].epoch, login[l].ids, TRUE)
  <1> DEFINE q == [login[l] EXCEPT !.pc = "count", !.kept = TRUE]
  <1>1. DOMAIN login[l] = LoginFields
    BY DEF IsLogins
  <1>2. /\ DOMAIN q = LoginFields /\ q.pc = "count" /\ q.device = login[l].device
        /\ q.epoch = login[l].epoch /\ q.ids = login[l].ids /\ q.kept = TRUE
        /\ q.overlapped = login[l].overlapped
    BY <1>1 DEF LoginFields
  <1>3. login' = [login EXCEPT ![l] = q]
    BY DEF IsLogins
  <1> HIDE DEF q
  <1>4. IsLogins(login') /\ login'[l] = q /\ \A k \in Logins \ {l} : login'[k] = login[k]
    BY <1>2, <1>3, OneMoves DEF IsLogins
  <1> QED BY <1>2, <1>4 DEF Moves, Stays

\* Which sessions count finds does not matter here.
LEMMA CountMoves ==
    ASSUME IsLogins(login), NEW l \in Logins, Count(l)
    PROVE  \E p \in {"evict", "save"} : \E x :
             /\ Moves(l, p, login[l].device, login[l].epoch, x, login[l].kept)
             /\ \A k \in Creating \ {l} : login'[k].overlapped /\ login'[l].overlapped
  <1>1. \E p \in {"evict", "save"} : \E x :
          login' = [Overlapping(l) EXCEPT ![l].pc = p, ![l].ids = x]
    BY Zenon DEF Count
  <1> QED BY <1>1, Reads

LEMMA SaveMoves ==
    ASSUME IsLogins(login), NEW l \in Logins, Save(l)
    PROVE  /\ Moves(l, "update", login[l].device, login[l].epoch, login[l].ids, login[l].kept)
           /\ login'[l].row = Len(rows) + 1
  <1> DEFINE q == [login[l] EXCEPT !.pc = "update", !.row = Len(rows) + 1]
  <1>1. DOMAIN login[l] = LoginFields
    BY DEF IsLogins
  <1>2. /\ DOMAIN q = LoginFields /\ q.pc = "update" /\ q.device = login[l].device
        /\ q.epoch = login[l].epoch /\ q.ids = login[l].ids /\ q.kept = login[l].kept
        /\ q.overlapped = login[l].overlapped /\ q.row = Len(rows) + 1
    BY <1>1 DEF LoginFields
  <1>3. login' = [login EXCEPT ![l] = q]
    BY DEF Save, IsLogins
  <1> HIDE DEF q
  <1>4. IsLogins(login') /\ login'[l] = q /\ \A k \in Logins \ {l} : login'[k] = login[k]
    BY <1>2, <1>3, OneMoves DEF IsLogins
  <1> QED BY <1>2, <1>4 DEF Moves, Stays

LEMMA UpdateMoves ==
    ASSUME IsLogins(login), NEW l \in Logins, UpdateTokens(l)
    PROVE  /\ Moves(l, "done", login[l].device, login[l].epoch, login[l].ids, login[l].kept)
           /\ \A k \in Logins \ {l} : login[k].pc = "evict" => login'[k].stale
  <1> DEFINE g == OrderChanged
             q == [g[l] EXCEPT !.pc = "done", !.outcome = "tokens"]
  <1>0. IsLogins(g) /\ login' = [g EXCEPT ![l].pc = "done", ![l].outcome = "tokens"]
    BY OrderOnly DEF UpdateTokens
  <1>1. \A k \in Logins :
          /\ g[k].pc = login[k].pc /\ g[k].device = login[k].device
          /\ g[k].ids = login[k].ids /\ g[k].row = login[k].row
          /\ g[k].epoch = login[k].epoch /\ g[k].kept = login[k].kept
          /\ g[k].overlapped = login[k].overlapped
          /\ login[k].stale \/ login[k].pc = "evict" => g[k].stale
    BY OrderOnly
  <1> HIDE DEF g
  <1>2. DOMAIN g[l] = LoginFields
    BY <1>0 DEF IsLogins
  <1>3. /\ DOMAIN q = LoginFields /\ q.pc = "done" /\ q.device = login[l].device
        /\ q.epoch = login[l].epoch /\ q.ids = login[l].ids /\ q.kept = login[l].kept
        /\ q.overlapped = login[l].overlapped
    BY <1>1, <1>2 DEF LoginFields
  <1>4. login' = [g EXCEPT ![l] = q]
    BY <1>0 DEF IsLogins
  <1> HIDE DEF q
  <1>5. DOMAIN q = LoginFields /\ q.device \in Devices \cup {NoDevice} /\ q.epoch \in Nat
    BY <1>3 DEF IsLogins
  <1>6. IsLogins(login') /\ login'[l] = q /\ \A k \in Logins \ {l} : login'[k] = g[k]
    BY <1>0, <1>4, <1>5, OneMoves
  <1>7. \A k \in Logins \ {l} : Stays(k)
    <2> SUFFICES ASSUME NEW k \in Logins, k # l PROVE Stays(k)
      OBVIOUS
    <2>1. login'[k] = g[k]
      BY <1>6
    <2> QED BY <1>1, <2>1 DEF Stays
  <1>8. \A k \in Logins \ {l} : login[k].pc = "evict" => login'[k].stale
    BY <1>1, <1>6
  <1> QED BY <1>3, <1>6, <1>7, <1>8 DEF Moves
-----------------------------------------------------------------------------
(* The inductive invariant. *)

\* No login read the user after the last lock and goes on to a session while it is locked.
Going == {"challenge", "findDevice", "revokeDevice", "count", "evict", "save"}

Locks ==
    \A l \in Logins : /\ login[l].epoch <= disables
                      /\ locked /\ login[l].pc \in Going => login[l].epoch < disables

\* Logins after their first read of the session table and before their insert.
InRead(l) ==
    \/ login[l].pc \in {"revokeDevice", "evict", "save"}
    \/ login[l].pc = "count" /\ login[l].device # NoDevice

\* Two of them overlap.
Pairs == \A k, l \in Logins : k # l /\ InRead(k) /\ InRead(l) => login[l].overlapped

\* Unless it is overlapped or its revocation failed, such a login has ended the live
\* sessions of its device, or is about to end all of them.
DeviceFree ==
    \A l \in Logins :
        /\ InRead(l) /\ login[l].device # NoDevice
        /\ ~login[l].overlapped /\ ~login[l].kept
        => \A s \in Live : rows[s].device = login[l].device =>
               login[l].pc = "revokeDevice" /\ s \in login[l].ids

Inv == Shape /\ Locks /\ OnlyEarlierSignInsSurviveDisabling /\ Pairs /\ DeviceFree

\* No row is added or comes back to life.
RowsGo ==
    /\ rows' \in Seq(Row) /\ Live' \subseteq Live
    /\ \A s \in Live' : rows'[s].owner = rows[s].owner /\ rows'[s].device = rows[s].device

LEMMA InitInv == Init => Inv
  <1> SUFFICES ASSUME Init PROVE Inv
    OBVIOUS
  <1> DEFINE idle == [pc |-> "idle", device |-> NoDevice, ids |-> {}, row |-> 0,
                      outcome |-> "none", epoch |-> 0, overlapped |-> FALSE, kept |-> FALSE,
                      stale |-> FALSE]
  <1>1. login = [l \in Logins |-> idle]
    BY DEF Init
  <1>2. /\ DOMAIN idle = LoginFields /\ idle.device = NoDevice /\ idle.epoch = 0
        /\ idle.pc = "idle"
    BY DEF LoginFields
  <1> HIDE DEF idle
  <1>3. IsLogins(login)
    BY <1>1, <1>2 DEF IsLogins
  <1>4. rows \in Seq(Row)
    <2>1. PICK n \in Nat : Before \in [1..n -> Devices \cup {NoDevice}]
      BY LoginAssumption, SeqDef
    <2>2. rows = [s \in 1..n |-> [device |-> Before[s], over |-> FALSE, stored |-> TRUE,
                                  owner |-> Nobody]]
      BY <2>1 DEF Init
    <2>3. rows \in [1..n -> Row]
      BY <2>1, <2>2 DEF Row
    <2> QED BY <2>3, SeqDef
  <1>5. Shape
    BY <1>3, <1>4 DEF Shape, Init
  <1>6. \A l \in Logins : login[l].pc = "idle" /\ login[l].epoch = 0
    BY <1>1, <1>2
  <1>7. Locks /\ Pairs /\ DeviceFree
    BY <1>6 DEF Init, Locks, Pairs, DeviceFree, InRead, Going
  <1>8. OnlyEarlierSignInsSurviveDisabling
    BY DEF Init, OnlyEarlierSignInsSurviveDisabling
  <1> QED BY <1>5, <1>7, <1>8 DEF Inv

LEMMA LocksKept ==
    ASSUME Shape, Locks, NEW l \in Logins, NEW p, NEW d, NEW e \in Nat, NEW x, NEW m,
           Moves(l, p, d, e, x, m), locked' = locked, disables' = disables, e <= disables,
           locked /\ p \in Going => e < disables
    PROVE  Locks'
  <1> SUFFICES ASSUME NEW k \in Logins
               PROVE  /\ login'[k].epoch <= disables
                      /\ locked /\ login'[k].pc \in Going => login'[k].epoch < disables
    BY DEF Locks
  <1>1. CASE k = l
    BY <1>1 DEF Moves
  <1>2. CASE k # l
    BY <1>2 DEF Moves, Stays, Locks
  <1> QED BY <1>1, <1>2

LEMMA StandKept ==
    ASSUME Shape, OnlyEarlierSignInsSurviveDisabling, RowsGo,
           \A k \in Logins : login'[k].epoch = login[k].epoch,
           locked' = locked, disables' = disables, revoked' => revoked
    PROVE  OnlyEarlierSignInsSurviveDisabling'
  <1> SUFFICES ASSUME locked, revoked, NEW s \in Live'
               PROVE  rows'[s].owner # Nobody /\ login'[rows'[s].owner].epoch < disables
    BY DEF OnlyEarlierSignInsSurviveDisabling
  <1>1. s \in Live /\ rows'[s].owner = rows[s].owner
    BY DEF RowsGo
  <1>2. rows[s].owner # Nobody /\ login[rows[s].owner].epoch < disables
    BY <1>1 DEF OnlyEarlierSignInsSurviveDisabling
  <1>3. rows[s] \in Row
    BY <1>1 DEF Shape, Live, Ids
  <1>4. rows[s].owner \in Logins
    BY <1>2, <1>3 DEF Row
  <1> QED BY <1>1, <1>2, <1>4

LEMMA PairsKept ==
    ASSUME Pairs, NEW l \in Logins, NEW p, NEW d, NEW e, NEW x, NEW m, Moves(l, p, d, e, x, m),
           \/ ~InRead(l)'
           \/ InRead(l)
           \/ \A k \in Creating \ {l} : login'[k].overlapped /\ login'[l].overlapped
    PROVE  Pairs'
  <1> SUFFICES ASSUME NEW i \in Logins, NEW j \in Logins, i # j, InRead(i)', InRead(j)'
               PROVE  login'[j].overlapped
    BY DEF Pairs
  <1>1. \A k \in Logins \ {l} : /\ InRead(k)' => InRead(k)
                                /\ InRead(k) => k \in Creating
                                /\ login[k].overlapped => login'[k].overlapped
    BY DEF Moves, Stays, InRead, Creating
  <1>2. login[l].overlapped => login'[l].overlapped
    BY DEF Moves
  <1>3. CASE i # l /\ j # l
    BY <1>1, <1>3 DEF Pairs
  <1>4. CASE InRead(l) /\ (i = l \/ j = l)
    BY <1>1, <1>2, <1>4 DEF Pairs
  <1>5. CASE /\ i = l \/ j = l
             /\ \A k \in Creating \ {l} : login'[k].overlapped /\ login'[l].overlapped
    BY <1>1, <1>5
  <1> QED BY <1>3, <1>4, <1>5

LEMMA FreeKept ==
    ASSUME DeviceFree, RowsGo, NEW l \in Logins, NEW p, NEW d, NEW e, NEW x, NEW m,
           Moves(l, p, d, e, x, m),
           /\ InRead(l)' /\ d # NoDevice /\ ~login'[l].overlapped /\ ~m
           => \A s \in Live' : rows'[s].device = d => p = "revokeDevice" /\ s \in x
    PROVE  DeviceFree'
  <1> SUFFICES ASSUME NEW k \in Logins, InRead(k)', login'[k].device # NoDevice,
                      ~login'[k].overlapped, ~login'[k].kept,
                      NEW s \in Live', rows'[s].device = login'[k].device
               PROVE  login'[k].pc = "revokeDevice" /\ s \in login'[k].ids
    BY DEF DeviceFree
  <1>1. CASE k = l
    BY <1>1 DEF Moves
  <1>2. CASE k # l
    <2>1. /\ InRead(k) /\ login[k].device = login'[k].device /\ login[k].pc = login'[k].pc
          /\ login[k].ids = login'[k].ids /\ ~login[k].overlapped /\ ~login[k].kept
      BY <1>2 DEF Moves, Stays, InRead
    <2>2. s \in Live /\ rows[s].device = rows'[s].device
      BY DEF RowsGo
    <2> QED BY <2>1, <2>2 DEF DeviceFree
  <1> QED BY <1>1, <1>2

LEMMA RowsRevoked ==
    ASSUME Shape, NEW ids, RevokeRows(ids)
    PROVE  RowsGo /\ Live' = Live \ ids
  <1>1. Live' \subseteq Ids
    BY RevokedRows DEF Shape, Live
  <1> QED BY <1>1, RevokedRows DEF Shape, RowsGo

LEMMA RowsSame ==
    ASSUME Shape, rows' = rows
    PROVE  RowsGo /\ Live' = Live
  <1>1. Live' = Live
    BY DEF Live, IsLive, Ids
  <1> QED BY <1>1 DEF Shape, RowsGo

\* A login moves, no row comes to life, and the lock stays.
LEMMA MoveInv ==
    ASSUME Inv, RowsGo, NEW l \in Logins, NEW p, NEW d, NEW e, NEW x, NEW m,
           Moves(l, p, d, e, x, m), locked' = locked, disables' = disables, (revoked' <=> revoked),
           \/ e = login[l].epoch /\ (p \in Going => login[l].pc \in Going)
           \/ e = disables /\ ~locked,
           \/ ~InRead(l)'
           \/ InRead(l)
           \/ \A k \in Creating \ {l} : login'[k].overlapped /\ login'[l].overlapped,
           /\ InRead(l)' /\ d # NoDevice /\ ~login'[l].overlapped /\ ~m
           => \A s \in Live' : rows'[s].device = d => p = "revokeDevice" /\ s \in x
    PROVE  Inv'
  <1>1. Shape'
    BY DEF Inv, Shape, Moves, RowsGo
  <1>2. e \in Nat /\ e <= disables /\ (locked /\ p \in Going => e < disables)
    BY DEF Inv, Shape, IsLogins, Locks
  <1>3. Locks'
    BY <1>2, LocksKept DEF Inv
  <1>4. OnlyEarlierSignInsSurviveDisabling'
    <2>1. CASE ~locked
      BY <2>1 DEF OnlyEarlierSignInsSurviveDisabling
    <2>2. CASE locked
      <3>1. \A k \in Logins : login'[k].epoch = login[k].epoch
        BY <2>2 DEF Moves, Stays
      <3> QED BY <3>1, StandKept DEF Inv
    <2> QED BY <2>1, <2>2
  <1>5. Pairs'
    BY PairsKept DEF Inv
  <1>6. DeviceFree'
    BY FreeKept DEF Inv
  <1> QED BY <1>1, <1>3, <1>4, <1>5, <1>6 DEF Inv

\* No login moves and no row comes to life.
LEMMA StillInv ==
    ASSUME Inv, RowsGo, IsLogins(login'), \A k \in Logins : Stays(k),
           \A k \in Logins : login'[k].overlapped = login[k].overlapped,
           locked' = locked, disables' = disables, revoked' => revoked
    PROVE  Inv'
  <1>1. Shape'
    BY DEF Inv, Shape, RowsGo
  <1>2. Locks'
    BY DEF Inv, Locks, Stays
  <1>3. OnlyEarlierSignInsSurviveDisabling'
    BY StandKept DEF Inv, Stays
  <1>4. Pairs'
    BY DEF Inv, Pairs, InRead, Stays
  <1>5. DeviceFree'
    <2> SUFFICES ASSUME NEW k \in Logins, InRead(k)', login'[k].device # NoDevice,
                        ~login'[k].overlapped, ~login'[k].kept,
                        NEW s \in Live', rows'[s].device = login'[k].device
                 PROVE  login'[k].pc = "revokeDevice" /\ s \in login'[k].ids
      BY DEF DeviceFree
    <2>1. /\ InRead(k) /\ login[k].device = login'[k].device /\ login[k].pc = login'[k].pc
          /\ login[k].ids = login'[k].ids /\ ~login[k].overlapped /\ ~login[k].kept
      BY DEF Stays, InRead
    <2>2. s \in Live /\ rows[s].device = rows'[s].device
      BY DEF RowsGo
    <2> QED BY <2>1, <2>2 DEF Inv, DeviceFree
  <1> QED BY <1>1, <1>2, <1>3, <1>4, <1>5 DEF Inv

\* The insert: a row comes to life, of a login that has read the user before the last lock
\* or an account that is not locked.
LEMMA SaveInv ==
    ASSUME Inv, NEW l \in Logins, Save(l)
    PROVE  Inv'
  <1> DEFINE n == Len(rows) + 1
  <1>1. /\ rows' \in Seq(Row) /\ n \notin Ids /\ Live' = Live \cup {n}
        /\ rows'[n].owner = l /\ rows'[n].device = login[l].device
        /\ \A s \in Ids : rows'[s] = rows[s]
    BY SavedRows DEF Inv, Shape, IsLogins
  <1>2. Moves(l, "update", login[l].device, login[l].epoch, login[l].ids, login[l].kept)
    BY SaveMoves DEF Inv, Shape
  <1>3. /\ login[l].pc = "save" /\ locked' = locked /\ (revoked' <=> revoked) /\ disables' = disables
        /\ Nobody \notin Logins
    BY LoginAssumption DEF Save
  <1> HIDE DEF n
  <1>4. \A s \in Live : s \in Ids /\ rows'[s] = rows[s] /\ rows[s] \in Row
    BY <1>1 DEF Inv, Shape, Live, Ids
  <1>5. Shape'
    BY <1>1, <1>2, <1>3 DEF Inv, Shape, Moves
  <1>6. Locks'
    BY <1>2, <1>3, LocksKept DEF Inv, Shape, IsLogins, Locks, Going
  <1>7. OnlyEarlierSignInsSurviveDisabling'
    <2> SUFFICES ASSUME locked, revoked, NEW s \in Live'
                 PROVE  rows'[s].owner # Nobody /\ login'[rows'[s].owner].epoch < disables
      BY <1>3 DEF OnlyEarlierSignInsSurviveDisabling
    <2>1. CASE s = n
      BY <2>1, <1>1, <1>2, <1>3 DEF Moves, Inv, Locks, Going
    <2>2. CASE s # n
      <3>1. s \in Live /\ rows'[s].owner = rows[s].owner
        BY <2>2, <1>1, <1>4
      <3>2. rows[s].owner # Nobody /\ login[rows[s].owner].epoch < disables
        BY <3>1 DEF Inv, OnlyEarlierSignInsSurviveDisabling
      <3>3. rows[s].owner \in Logins
        BY <3>1, <3>2, <1>4 DEF Row
      <3>4. login'[rows[s].owner].epoch = login[rows[s].owner].epoch
        BY <3>3, <1>2 DEF Moves, Stays
      <3> QED BY <3>1, <3>2, <3>4
    <2> QED BY <2>1, <2>2
  <1>8. ~InRead(l)' /\ InRead(l)
    BY <1>2, <1>3 DEF InRead, Moves
  <1>9. Pairs'
    BY <1>2, <1>8, PairsKept DEF Inv
  <1>10. DeviceFree'
    <2>1. \A k \in Logins : InRead(k)' => k # l /\ login'[k].overlapped
      BY <1>2, <1>8 DEF Inv, Pairs, Moves, Stays, InRead
    <2> QED BY <2>1 DEF DeviceFree
  <1> QED BY <1>5, <1>6, <1>7, <1>9, <1>10 DEF Inv

LEMMA LoginStep ==
    ASSUME Inv, NEW l \in Logins, Authenticate(l) \/ Answer(l) \/ Step(l) \/ Throw(l)
    PROVE  Inv'
  <1> DEFINE dev == login[l].device
             ep == login[l].epoch
  <1>0. Shape /\ IsLogins(login) /\ disables \in Nat
    BY DEF Inv, Shape
  <1>1. CASE Authenticate(l)
    <2>1. /\ RowsGo /\ locked' = locked /\ disables' = disables /\ (revoked' <=> revoked)
          /\ login[l].pc = "idle"
      BY <1>0, <1>1, RowsSame DEF Authenticate
    <2>2. CASE Moves(l, "done", dev, ep, login[l].ids, login[l].kept)
      <3>1. ~InRead(l)' /\ "done" \notin Going
        BY <2>2 DEF Moves, InRead, Going
      <3> QED BY <2>1, <2>2, <3>1, MoveInv
    <2>3. ASSUME ~locked, NEW d \in Devices \cup {NoDevice}, NEW p,
                 p = IF d = NoDevice THEN "count" ELSE "findDevice",
                 Moves(l, p, d, disables, login[l].ids, login[l].kept)
          PROVE  Inv'
      <3>1. ~InRead(l)'
        BY <2>3 DEF Moves, InRead
      <3> QED BY <2>1, <2>3, <3>1, MoveInv
    <2>4. ASSUME ~locked, Moves(l, "challenge", dev, disables, login[l].ids, login[l].kept)
          PROVE  Inv'
      <3>1. ~InRead(l)'
        BY <2>4 DEF Moves, InRead
      <3> QED BY <2>1, <2>4, <3>1, MoveInv
    <2> QED BY <1>0, <1>1, <2>2, <2>3, <2>4, AuthenticateMoves
  <1>9. CASE Answer(l)
    <2>1. /\ RowsGo /\ locked' = locked /\ disables' = disables /\ (revoked' <=> revoked)
          /\ login[l].pc \in Going
      BY <1>0, <1>9, RowsSame DEF Answer, Going
    <2>2. CASE Moves(l, "done", dev, ep, login[l].ids, login[l].kept)
      <3>1. ~InRead(l)' /\ "done" \notin Going
        BY <2>2 DEF Moves, InRead, Going
      <3> QED BY <2>1, <2>2, <3>1, MoveInv
    <2>3. ASSUME NEW d \in Devices \cup {NoDevice}, NEW p,
                 p = IF d = NoDevice THEN "count" ELSE "findDevice",
                 Moves(l, p, d, ep, login[l].ids, login[l].kept)
          PROVE  Inv'
      <3>1. ~InRead(l)'
        BY <2>3 DEF Moves, InRead
      <3> QED BY <2>1, <2>3, <3>1, MoveInv
    <2> QED BY <1>0, <1>9, <2>2, <2>3, AnswerMoves
  <1>2. CASE FindDevice(l)
    <2> DEFINE found == {s \in Live : rows[s].device = login[l].device}
    <2>1. /\ RowsGo /\ Live' = Live /\ rows' = rows /\ locked' = locked
          /\ disables' = disables /\ (revoked' <=> revoked) /\ login[l].pc = "findDevice"
      BY <1>0, <1>2, RowsSame DEF FindDevice
    <2>2. PICK p : /\ p = IF found = {} THEN "count" ELSE "revokeDevice"
                   /\ Moves(l, p, dev, ep, found, login[l].kept)
                   /\ \A k \in Creating \ {l} : login'[k].overlapped /\ login'[l].overlapped
      BY <1>0, <1>2, FindDeviceMoves
    <2>3. \A s \in Live' : rows'[s].device = dev => p = "revokeDevice" /\ s \in found
      BY <2>1, <2>2
    <2>4. login[l].pc \in Going
      BY <2>1 DEF Going
    <2> HIDE DEF found
    <2> QED BY <2>1, <2>2, <2>3, <2>4, MoveInv
  <1>3. CASE RevokeDevice(l)
    <2>1. /\ locked' = locked /\ disables' = disables /\ (revoked' <=> revoked)
          /\ login[l].pc = "revokeDevice" /\ InRead(l) /\ login[l].pc \in Going
      BY <1>3 DEF RevokeDevice, InRead, Going
    <2>2. CASE RevokeRows(login[l].ids) /\ GoTo(l, "count")
      <3>1. RowsGo /\ Live' = Live \ login[l].ids
        BY <1>0, <2>2, RowsRevoked
      <3>2. Moves(l, "count", dev, ep, login[l].ids, login[l].kept)
        BY <1>0, <2>2, GoesTo
      <3>3. dev # NoDevice /\ ~login'[l].overlapped /\ ~login[l].kept
            => \A s \in Live' : rows'[s].device # dev
        BY <2>1, <3>1, <3>2 DEF Inv, DeviceFree, RowsGo, Moves
      <3> QED BY <2>1, <3>1, <3>2, <3>3, MoveInv
    <2>3. CASE login' = [login EXCEPT ![l].pc = "count", ![l].kept = TRUE] /\ rows' = rows
      <3>1. RowsGo
        BY <1>0, <2>3, RowsSame
      <3>2. Moves(l, "count", dev, ep, login[l].ids, TRUE)
        BY <1>0, <2>3, KeepsDevice
      <3> QED BY <2>1, <3>1, <3>2, MoveInv
    <2> QED BY <1>3, <2>2, <2>3 DEF RevokeDevice
  <1>4. CASE Count(l)
    <2>1. /\ RowsGo /\ Live' = Live /\ rows' = rows /\ locked' = locked
          /\ disables' = disables /\ (revoked' <=> revoked) /\ login[l].pc = "count"
          /\ login[l].pc \in Going
      BY <1>0, <1>4, RowsSame DEF Count, Going
    <2>2. PICK p, x : /\ Moves(l, p, dev, ep, x, login[l].kept)
                      /\ \A k \in Creating \ {l} : login'[k].overlapped /\ login'[l].overlapped
      BY <1>0, <1>4, CountMoves
    <2>3. dev # NoDevice /\ ~login'[l].overlapped /\ ~login[l].kept
          => \A s \in Live' : rows'[s].device # dev
      BY <2>1, <2>2 DEF Inv, DeviceFree, InRead, Moves
    <2> QED BY <2>1, <2>2, <2>3, MoveInv
  <1>5. CASE Evict(l)
    <2>1. /\ RowsGo /\ locked' = locked /\ disables' = disables /\ (revoked' <=> revoked)
          /\ login[l].pc = "evict" /\ InRead(l) /\ login[l].pc \in Going
      BY <1>0, <1>5, RowsRevoked DEF Evict, InRead, Going
    <2>2. Moves(l, "save", dev, ep, login[l].ids, login[l].kept)
      BY <1>0, <1>5, GoesTo DEF Evict
    <2>3. dev # NoDevice /\ ~login'[l].overlapped /\ ~login[l].kept
          => \A s \in Live' : rows'[s].device # dev
      BY <2>1, <2>2 DEF Inv, DeviceFree, RowsGo, Moves
    <2> QED BY <2>1, <2>2, <2>3, MoveInv
  <1>6. CASE Save(l)
    BY <1>6, SaveInv
  <1>7. CASE UpdateTokens(l)
    <2>1. RowsGo
      BY <1>0, <1>7, UpdatedRows DEF UpdateTokens, Shape, RowsGo, Live
    <2>2. locked' = locked /\ disables' = disables /\ (revoked' <=> revoked)
      BY <1>7 DEF UpdateTokens
    <2>3. Moves(l, "done", dev, ep, login[l].ids, login[l].kept)
      BY <1>0, <1>7, UpdateMoves
    <2>4. ~InRead(l)' /\ "done" \notin Going
      BY <2>3 DEF Moves, InRead, Going
    <2> QED BY <2>1, <2>2, <2>3, <2>4, MoveInv
  <1>8. CASE Throw(l)
    <2>1. RowsGo /\ locked' = locked /\ disables' = disables /\ (revoked' <=> revoked)
      BY <1>0, <1>8, RowsSame DEF Throw
    <2>2. Moves(l, "done", dev, ep, login[l].ids, login[l].kept)
      BY <1>0, <1>8, Finishes DEF Throw
    <2>3. ~InRead(l)' /\ "done" \notin Going
      BY <2>2 DEF Moves, InRead, Going
    <2> QED BY <2>1, <2>2, <2>3, MoveInv
  <1> QED BY <1>1, <1>2, <1>3, <1>4, <1>5, <1>6, <1>7, <1>8, <1>9 DEF Step

LEMMA OtherStep ==
    ASSUME Inv,
           \/ DisableLock \/ DisableRevoke \/ EnableUser
           \/ \E s \in Ids : Refresh(s) \/ EndSession(s)
           \/ UNCHANGED vars
    PROVE  Inv'
  <1>0. Shape /\ IsLogins(login) /\ disables \in Nat
    BY DEF Inv, Shape
  <1>1. ASSUME login' = login
        PROVE  /\ IsLogins(login') /\ \A k \in Logins : Stays(k)
               /\ \A k \in Logins : login'[k].overlapped = login[k].overlapped
    BY <1>0, <1>1 DEF Stays
  <1>2. CASE DisableLock
    <2>1. /\ RowsGo /\ Live' = Live /\ rows' = rows /\ login' = login
          /\ disables' = disables + 1 /\ ~revoked'
      BY <1>0, <1>2, RowsSame DEF DisableLock
    <2>2. Shape'
      BY <1>0, <2>1 DEF Shape
    <2>3. Locks'
      BY <1>0, <2>1 DEF Inv, Locks, IsLogins
    <2>4. OnlyEarlierSignInsSurviveDisabling'
      BY <2>1 DEF OnlyEarlierSignInsSurviveDisabling
    <2>5. Pairs' /\ DeviceFree'
      BY <2>1 DEF Inv, Pairs, DeviceFree, InRead
    <2> QED BY <2>2, <2>3, <2>4, <2>5 DEF Inv
  <1>3. CASE DisableRevoke
    <2>1. login' = login /\ locked' = locked /\ disables' = disables
      BY <1>3 DEF DisableRevoke
    <2>2. CASE RevokeRows(Ids)
      <3>1. RowsGo /\ Live' = {}
        BY <1>0, <2>2, RowsRevoked DEF Live
      <3>2. Shape' /\ Locks' /\ Pairs'
        BY <1>0, <2>1, <3>1 DEF Inv, Shape, Locks, Pairs, InRead, RowsGo
      <3>3. OnlyEarlierSignInsSurviveDisabling' /\ DeviceFree'
        BY <3>1 DEF OnlyEarlierSignInsSurviveDisabling, DeviceFree
      <3> QED BY <3>2, <3>3 DEF Inv
    <2>3. CASE UNCHANGED <<rows, revoked>>
      <3>1. RowsGo
        BY <1>0, <2>3, RowsSame
      <3> QED BY <1>1, <2>1, <2>3, <3>1, StillInv
    <2> QED BY <1>3, <2>2, <2>3 DEF DisableRevoke
  <1>4. CASE EnableUser
    <2>1. /\ rows' = rows /\ Live' = Live /\ login' = login /\ disables' = disables
          /\ ~locked'
      BY <1>0, <1>4, RowsSame DEF EnableUser
    <2>2. Shape' /\ Pairs' /\ DeviceFree'
      BY <1>0, <2>1 DEF Inv, Shape, Pairs, DeviceFree, InRead
    <2>3. Locks' /\ OnlyEarlierSignInsSurviveDisabling'
      BY <2>1 DEF Inv, Locks, OnlyEarlierSignInsSurviveDisabling
    <2> QED BY <2>2, <2>3 DEF Inv
  <1>5. ASSUME NEW s \in Ids, Refresh(s) PROVE Inv'
    <2>1. /\ RowsGo /\ locked' = locked /\ disables' = disables /\ (revoked' <=> revoked)
          /\ login' = OrderChanged
      BY <1>0, <1>5, RowsSame DEF Refresh
    <2>2. /\ IsLogins(login') /\ \A k \in Logins : Stays(k)
          /\ \A k \in Logins : login'[k].overlapped = login[k].overlapped
      BY <1>0, <2>1, OrderOnly DEF Stays
    <2> QED BY <2>1, <2>2, StillInv
  <1>6. ASSUME NEW s \in Ids, EndSession(s) PROVE Inv'
    <2>1. /\ RowsGo /\ locked' = locked /\ disables' = disables /\ (revoked' <=> revoked)
          /\ login' = login
      BY <1>0, <1>6, RowsRevoked DEF EndSession
    <2> QED BY <1>1, <2>1, StillInv
  <1>7. CASE UNCHANGED vars
    <2>1. /\ RowsGo /\ locked' = locked /\ disables' = disables /\ (revoked' <=> revoked)
          /\ login' = login
      BY <1>0, <1>7, RowsSame DEF vars
    <2> QED BY <1>1, <2>1, StillInv
  <1> QED BY <1>2, <1>3, <1>4, <1>5, <1>6, <1>7

LEMMA NextInv == Inv /\ [Next]_vars => Inv'
  BY LoginStep, OtherStep DEF Next

LEMMA Inductive == Spec => []Inv
  BY InitInv, NextInv, PTL DEF Spec

\* A login moves by its own steps only.
LEMMA OnlyItself ==
    ASSUME Shape, Next, NEW l \in Logins
    PROVE  (Authenticate(l) \/ Answer(l) \/ Step(l) \/ Throw(l)) \/ Stays(l)
  <1>0. IsLogins(login) /\ disables \in Nat
    BY DEF Shape
  <1>1. ASSUME NEW k \in Logins \ {l}, Authenticate(k) \/ Answer(k) \/ Step(k) \/ Throw(k)
        PROVE  Stays(l)
    <2>1. CASE Authenticate(k)
      BY <1>0, <2>1, AuthenticateMoves DEF Moves
    <2>9. CASE Answer(k)
      BY <1>0, <2>9, AnswerMoves DEF Moves
    <2>2. CASE FindDevice(k)
      BY <1>0, <2>2, FindDeviceMoves DEF Moves
    <2>3. CASE RevokeDevice(k)
      BY <1>0, <2>3, GoesTo, KeepsDevice DEF Moves, RevokeDevice
    <2>4. CASE Count(k)
      BY <1>0, <2>4, CountMoves DEF Moves
    <2>5. CASE Evict(k)
      BY <1>0, <2>5, GoesTo DEF Moves, Evict
    <2>6. CASE Save(k)
      BY <1>0, <2>6, SaveMoves DEF Moves
    <2>7. CASE UpdateTokens(k)
      BY <1>0, <2>7, UpdateMoves DEF Moves
    <2>8. CASE Throw(k)
      BY <1>0, <2>8, Finishes DEF Moves, Throw
    <2> QED BY <1>1, <2>1, <2>2, <2>3, <2>4, <2>5, <2>6, <2>7, <2>8, <2>9 DEF Step
  <1>2. ASSUME DisableLock \/ DisableRevoke \/ EnableUser
               \/ \E s \in Ids : Refresh(s) \/ EndSession(s)
        PROVE  Stays(l)
    <2>1. login' = login \/ login' = OrderChanged
      BY <1>2 DEF DisableLock, DisableRevoke, EnableUser, Refresh, EndSession
    <2> QED BY <1>0, <2>1, OrderOnly DEF Stays
  <1> QED BY <1>1, <1>2 DEF Next

\* Only its own insert takes a login from save to update.
LEMMA OnlySave ==
    ASSUME Shape, Next, NEW l \in Logins, login[l].pc = "save", login'[l].pc = "update"
    PROVE  Save(l)
  <1>0. IsLogins(login) /\ disables \in Nat
    BY DEF Shape
  <1>1. (Authenticate(l) \/ Answer(l) \/ Step(l) \/ Throw(l)) \/ Stays(l)
    BY OnlyItself
  <1>2. ~Throw(l)
    BY <1>0, Finishes DEF Throw, Moves
  <1>3. Authenticate(l) \/ Answer(l) \/ Step(l)
    BY <1>1, <1>2 DEF Stays
  <1> QED BY <1>3
       DEF Step, Authenticate, Answer, Proceed, Finish, FindDevice, RevokeDevice, Count, Evict, UpdateTokens

-----------------------------------------------------------------------------
(* Types. *)

\* The local state of a login, when ids are the ids of the rows.
LoginRecord(ids) ==
    [pc: PC, device: Devices \cup {NoDevice}, ids: SUBSET ids, row: Nat, outcome: Outcome,
     epoch: Nat, overlapped: BOOLEAN, kept: BOOLEAN, stale: BOOLEAN]

Typed(g, ids) == g \in [Logins -> LoginRecord(ids)]

Stamped ==
    /\ clock \in Nat /\ activity \in [Ids -> 0..clock]
    /\ \A s, t \in Ids : s # t => activity[s] # activity[t]

LEMMA TypeParts ==
    TypeOK <=> /\ locked \in BOOLEAN /\ rows \in Seq(Row) /\ Stamped /\ Typed(login, Ids)
               /\ revoking \in Nat /\ revoked \in BOOLEAN
               /\ disables \in Nat /\ touches \in Nat
  BY DEF TypeOK, Stamped, Typed, LoginRecord

\* A login whose record is replaced by one of the type.
LEMMA TypedOne ==
    ASSUME NEW ids, NEW g, Typed(g, ids), NEW l \in Logins, NEW q \in LoginRecord(ids),
           login' = [g EXCEPT ![l] = q]
    PROVE  Typed(login', ids)
  BY DEF Typed

LEMMA TypedOverlapping ==
    ASSUME NEW ids, Typed(login, ids), NEW l \in Logins
    PROVE  Typed(Overlapping(l), ids)
  <1> DEFINE b(k) == login[k].overlapped \/ (k \in Creating \ {l} \/ (k = l /\ Creating \ {l} # {}))
  <1>1. Overlapping(l) = [k \in Logins |-> [login[k] EXCEPT !.overlapped = b(k)]]
    BY DEF Overlapping
  <1>2. \A k \in Logins : b(k) \in BOOLEAN /\ login[k] \in LoginRecord(ids)
    BY DEF Typed, LoginRecord
  <1> HIDE DEF b
  <1>3. \A k \in Logins : [login[k] EXCEPT !.overlapped = b(k)] \in LoginRecord(ids)
    BY <1>2 DEF LoginRecord
  <1> QED BY <1>1, <1>3 DEF Typed

LEMMA TypedOrder ==
    ASSUME NEW ids, Typed(login, ids)
    PROVE  Typed(OrderChanged, ids)
  <1> DEFINE b(k) == login[k].stale \/ login[k].pc = "evict"
  <1>1. OrderChanged = [k \in Logins |-> [login[k] EXCEPT !.stale = b(k)]]
    BY DEF OrderChanged
  <1>2. \A k \in Logins : b(k) \in BOOLEAN /\ login[k] \in LoginRecord(ids)
    BY DEF Typed, LoginRecord
  <1> HIDE DEF b
  <1>3. \A k \in Logins : [login[k] EXCEPT !.stale = b(k)] \in LoginRecord(ids)
    BY <1>2 DEF LoginRecord
  <1> QED BY <1>1, <1>3 DEF Typed

\* Any move that the actions of a login make.
LEMMA TypedMove ==
    ASSUME NEW ids, NEW g, Typed(g, ids), NEW l \in Logins,
           NEW p \in PC, NEW d \in Devices \cup {NoDevice}, NEW x \in SUBSET ids, NEW r \in Nat,
           NEW o \in Outcome, NEW e \in Nat, NEW m \in BOOLEAN,
           \/ login' = [g EXCEPT ![l].pc = p]
           \/ login' = [g EXCEPT ![l].pc = p, ![l].outcome = o]
           \/ login' = [g EXCEPT ![l].pc = p, ![l].device = d, ![l].epoch = e]
           \/ login' = [g EXCEPT ![l].pc = p, ![l].ids = x]
           \/ login' = [g EXCEPT ![l].pc = p, ![l].kept = m]
           \/ login' = [g EXCEPT ![l].pc = p, ![l].row = r]
    PROVE  Typed(login', ids)
  <1>0. g[l] \in LoginRecord(ids) /\ DOMAIN g = Logins
    BY DEF Typed
  <1>1. CASE login' = [g EXCEPT ![l].pc = p]
    <2>1. [g[l] EXCEPT !.pc = p] \in LoginRecord(ids)
      BY <1>0 DEF LoginRecord
    <2>2. login' = [g EXCEPT ![l] = [g[l] EXCEPT !.pc = p]]
      BY <1>0, <1>1
    <2> QED BY <2>1, <2>2, TypedOne
  <1>2. CASE login' = [g EXCEPT ![l].pc = p, ![l].outcome = o]
    <2>1. [g[l] EXCEPT !.pc = p, !.outcome = o] \in LoginRecord(ids)
      BY <1>0 DEF LoginRecord
    <2>2. login' = [g EXCEPT ![l] = [g[l] EXCEPT !.pc = p, !.outcome = o]]
      BY <1>0, <1>2
    <2> QED BY <2>1, <2>2, TypedOne
  <1>3. CASE login' = [g EXCEPT ![l].pc = p, ![l].device = d, ![l].epoch = e]
    <2>1. [g[l] EXCEPT !.pc = p, !.device = d, !.epoch = e] \in LoginRecord(ids)
      BY <1>0 DEF LoginRecord
    <2>2. login' = [g EXCEPT ![l] = [g[l] EXCEPT !.pc = p, !.device = d, !.epoch = e]]
      BY <1>0, <1>3
    <2> QED BY <2>1, <2>2, TypedOne
  <1>4. CASE login' = [g EXCEPT ![l].pc = p, ![l].ids = x]
    <2>1. [g[l] EXCEPT !.pc = p, !.ids = x] \in LoginRecord(ids)
      BY <1>0 DEF LoginRecord
    <2>2. login' = [g EXCEPT ![l] = [g[l] EXCEPT !.pc = p, !.ids = x]]
      BY <1>0, <1>4
    <2> QED BY <2>1, <2>2, TypedOne
  <1>5. CASE login' = [g EXCEPT ![l].pc = p, ![l].kept = m]
    <2>1. [g[l] EXCEPT !.pc = p, !.kept = m] \in LoginRecord(ids)
      BY <1>0 DEF LoginRecord
    <2>2. login' = [g EXCEPT ![l] = [g[l] EXCEPT !.pc = p, !.kept = m]]
      BY <1>0, <1>5
    <2> QED BY <2>1, <2>2, TypedOne
  <1>6. CASE login' = [g EXCEPT ![l].pc = p, ![l].row = r]
    <2>1. [g[l] EXCEPT !.pc = p, !.row = r] \in LoginRecord(ids)
      BY <1>0 DEF LoginRecord
    <2>2. login' = [g EXCEPT ![l] = [g[l] EXCEPT !.pc = p, !.row = r]]
      BY <1>0, <1>6
    <2> QED BY <2>1, <2>2, TypedOne
  <1> QED BY <1>1, <1>2, <1>3, <1>4, <1>5, <1>6

\* A touch gives one row the latest time of all.
LEMMA Touched ==
    ASSUME Stamped, DOMAIN rows' = Ids, NEW i, Touch(i)
    PROVE  Stamped'
  <1>1. clock' \in Nat /\ Ids' = Ids /\ activity' = [activity EXCEPT ![i] = clock + 1]
    BY DEF Stamped, Touch, Ids
  <1>2. DOMAIN activity' = Ids
    BY <1>1 DEF Stamped
  <1>3. \A s \in Ids : activity[s] \in 0..clock
    BY DEF Stamped
  <1>4. \A s \in Ids : activity'[s] = IF s = i THEN clock + 1 ELSE activity[s]
    BY <1>1 DEF Stamped
  <1>5. \A s \in Ids : activity'[s] \in 0..clock'
    BY <1>3, <1>4 DEF Touch, Stamped
  <1>6. \A s, t \in Ids : s # t => activity'[s] # activity'[t]
    BY <1>3, <1>4 DEF Stamped
  <1>7. activity' \in [Ids -> 0..clock']
    <2>1. activity' = [s \in Ids |-> activity'[s]]
      BY <1>1 DEF Stamped
    <2> QED BY <2>1, <1>5
  <1> QED BY <1>1, <1>6, <1>7 DEF Stamped

LEMMA AppendedStamp ==
    ASSUME rows \in Seq(Row), Stamped, DOMAIN rows' = Ids \cup {Len(rows) + 1},
           activity' = Append(activity, clock + 1), clock' = clock + 1
    PROVE  Stamped' /\ \A s \in Ids : activity'[s] = activity[s]
  <1> DEFINE n == Len(rows)
  <1>1. n \in Nat /\ Ids = 1..n
    BY DEF Ids
  <1>2. activity \in Seq(0..clock) /\ Len(activity) = n
    BY <1>1, SeqDef DEF Stamped
  <1>3. /\ activity' \in Seq(0..clock') /\ Len(activity') = n + 1
        /\ \A s \in 1..n : activity'[s] = activity[s] /\ activity[s] \in 0..clock
        /\ activity'[n + 1] = clock + 1
    <2>1. activity \in Seq(0..(clock + 1)) /\ clock + 1 \in 0..(clock + 1)
      <3>1. activity \in [1..n -> 0..(clock + 1)]
        BY <1>1 DEF Stamped
      <3> QED BY <3>1, <1>1, SeqDef DEF Stamped
    <2> QED BY <2>1, <1>1, <1>2 DEF Stamped
  <1>4. Ids' = 1..(n + 1) /\ clock' \in Nat
    BY <1>1 DEF Ids, Stamped
  <1> HIDE DEF n
  <1>5. activity' \in [Ids' -> 0..clock']
    <2>1. activity' \in [1..Len(activity') -> 0..clock']
      BY <1>3, LenProperties
    <2> QED BY <2>1, <1>3, <1>4
  <1>6. \A s, t \in Ids' : s # t => activity'[s] # activity'[t]
    <2> SUFFICES ASSUME NEW s \in 1..(n + 1), NEW t \in 1..(n + 1), s # t
                 PROVE  activity'[s] # activity'[t]
      BY <1>4
    <2>1. (s = n + 1 \/ s \in 1..n) /\ (t = n + 1 \/ t \in 1..n)
      BY <1>1
    <2> QED BY <2>1, <1>1, <1>3 DEF Stamped
  <1> QED BY <1>1, <1>3, <1>4, <1>5, <1>6 DEF Stamped

LEMMA InitType == Init => TypeOK
  <1> SUFFICES ASSUME Init PROVE TypeOK
    OBVIOUS
  <1> DEFINE idle == [pc |-> "idle", device |-> NoDevice, ids |-> {}, row |-> 0,
                      outcome |-> "none", epoch |-> 0, overlapped |-> FALSE, kept |-> FALSE,
                      stale |-> FALSE]
  <1>1. rows \in Seq(Row)
    BY InitInv DEF Inv, Shape
  <1>2. Ids = 1..Len(Before) /\ Len(Before) \in Nat /\ DOMAIN Before = 1..Len(Before)
    BY LoginAssumption DEF Init, Ids
  <1>3. Stamped
    BY <1>2 DEF Init, Stamped
  <1>4. idle \in LoginRecord(Ids)
    BY DEF LoginRecord, PC, Outcome
  <1>5. login = [l \in Logins |-> idle]
    BY DEF Init
  <1> HIDE DEF idle
  <1>6. Typed(login, Ids)
    BY <1>4, <1>5 DEF Typed
  <1> QED BY <1>1, <1>3, <1>6, TypeParts DEF Init

LEMMA SameStamps ==
    ASSUME Stamped, DOMAIN rows' = Ids, activity' = activity, clock' = clock
    PROVE  Stamped'
  BY DEF Stamped, Ids

LEMMA LoginType ==
    ASSUME TypeOK, NEW l \in Logins, Authenticate(l) \/ Answer(l) \/ Step(l) \/ Throw(l)
    PROVE  TypeOK'
  <1>0. /\ locked \in BOOLEAN /\ rows \in Seq(Row) /\ Stamped /\ Typed(login, Ids)
        /\ disables \in Nat /\ touches \in Nat
        /\ revoking \in Nat /\ revoked \in BOOLEAN
    BY TypeParts
  <1>1. /\ locked' = locked /\ revoking' = revoking /\ revoked' = revoked
        /\ disables' = disables /\ touches' = touches
    BY DEF Step, Authenticate, Answer, FindDevice, RevokeDevice, Count, Evict, Save, UpdateTokens, Throw
  <1>2. login[l] \in LoginRecord(Ids)
    BY <1>0 DEF Typed
  <1>3. ASSUME rows' \in Seq(Row), Stamped', Typed(login', Ids')
        PROVE  TypeOK'
    BY <1>0, <1>1, <1>3 DEF TypeOK, Stamped, Typed, LoginRecord
  <1>4. ASSUME rows' = rows, activity' = activity, clock' = clock, Typed(login', Ids)
        PROVE  TypeOK'
    <2>1. Ids' = Ids /\ DOMAIN rows' = Ids
      BY <1>4 DEF Ids
    <2> QED BY <1>0, <1>3, <1>4, <2>1, SameStamps
  <1>5. ASSUME rows' \in Seq(Row), DOMAIN rows' = Ids, activity' = activity, clock' = clock,
               Typed(login', Ids)
        PROVE  TypeOK'
    <2>1. Ids' = Ids
      BY <1>5 DEF Ids
    <2> QED BY <1>0, <1>3, <1>5, <2>1, SameStamps
  <1>6. {} \in SUBSET Ids /\ 0 \in Nat /\ TRUE \in BOOLEAN
        /\ {s \in Live : rows[s].device = login[l].device} \in SUBSET Ids
        /\ {s \in Live : Cardinality(Older(s)) < Excess} \in SUBSET Ids
    BY DEF Live
  <1>7. {"done", "challenge", "count", "findDevice", "revokeDevice", "evict", "save", "update"} \subseteq PC
        /\ {"none", "tokens", "ACCOUNT_LOCKED", "error"} \subseteq Outcome
    BY DEF PC, Outcome
  <1>8. CASE Authenticate(l)
    <2>1. rows' = rows /\ activity' = activity /\ clock' = clock
      BY <1>8 DEF Authenticate
    <2>2. CASE Finish(l, "ACCOUNT_LOCKED")
      <3>1. PICK o \in Outcome : login' = [login EXCEPT ![l].pc = "done", ![l].outcome = o]
        BY <1>7, <2>2 DEF Finish
      <3>2. Typed(login', Ids)
        BY <1>0, <1>2, <1>6, <1>7, <3>1, TypedMove
      <3> QED BY <1>4, <2>1, <3>2
    <2>3. ASSUME NEW d \in Devices \cup {NoDevice}, NEW p \in {"count", "findDevice"},
                 login' = [login EXCEPT ![l].pc = p, ![l].device = d, ![l].epoch = disables]
          PROVE  TypeOK'
      <3>1. Typed(login', Ids)
        BY <1>0, <1>2, <1>6, <1>7, <2>3, TypedMove
      <3> QED BY <1>4, <2>1, <3>1
    <2>4. CASE login' = [login EXCEPT ![l].pc = "challenge", ![l].epoch = disables]
      <3>1. login' = [login EXCEPT ![l].pc = "challenge", ![l].device = login[l].device,
                                   ![l].epoch = disables]
        BY <1>0, <1>2, <2>4 DEF Typed, LoginRecord
      <3>2. login[l].device \in Devices \cup {NoDevice}
        BY <1>2 DEF LoginRecord
      <3>3. Typed(login', Ids)
        BY <1>0, <1>6, <1>7, <3>1, <3>2, TypedMove
      <3> QED BY <1>4, <2>1, <3>3
    <2> QED BY <1>8, <2>2, <2>3, <2>4 DEF Authenticate, Proceed
  <1>16. CASE Answer(l)
    <2>1. rows' = rows /\ activity' = activity /\ clock' = clock
      BY <1>16 DEF Answer
    <2>2. CASE Finish(l, "error")
      <3>1. login' = [login EXCEPT ![l].pc = "done", ![l].outcome = "error"]
        BY <2>2 DEF Finish
      <3>2. Typed(login', Ids)
        BY <1>0, <1>2, <1>6, <1>7, <3>1, TypedMove
      <3> QED BY <1>4, <2>1, <3>2
    <2>3. ASSUME NEW d \in Devices \cup {NoDevice}, NEW p \in {"count", "findDevice"},
                 login' = [login EXCEPT ![l].pc = p, ![l].device = d,
                                        ![l].epoch = login[l].epoch]
          PROVE  TypeOK'
      <3>1. PICK e \in Nat :
              login' = [login EXCEPT ![l].pc = p, ![l].device = d, ![l].epoch = e]
        BY <1>2, <2>3 DEF LoginRecord
      <3>2. Typed(login', Ids)
        BY <1>0, <1>2, <1>6, <1>7, <3>1, TypedMove
      <3> QED BY <1>4, <2>1, <3>2
    <2> QED BY <1>16, <2>2, <2>3 DEF Answer, Proceed
  <1>9. CASE FindDevice(l)
    <2>1. rows' = rows /\ activity' = activity /\ clock' = clock
      BY <1>9 DEF FindDevice
    <2>2. PICK p \in PC, x \in SUBSET Ids : login' = [Overlapping(l) EXCEPT ![l].pc = p, ![l].ids = x]
      BY <1>6, <1>7, <1>9 DEF FindDevice
    <2>3. Typed(Overlapping(l), Ids)
      BY <1>0, TypedOverlapping
    <2>4. Typed(login', Ids)
      BY <1>6, <1>7, <2>2, <2>3, TypedMove
    <2> QED BY <1>4, <2>1, <2>4
  <1>10. CASE RevokeDevice(l)
    <2>1. activity' = activity /\ clock' = clock
      BY <1>10 DEF RevokeDevice
    <2>2. CASE RevokeRows(login[l].ids) /\ GoTo(l, "count")
      <3>1. rows' \in Seq(Row) /\ DOMAIN rows' = Ids
        BY <1>0, <2>2, RevokedRows
      <3>2. Typed(login', Ids)
        BY <1>0, <1>6, <1>7, <2>2, TypedMove DEF GoTo
      <3> QED BY <1>5, <2>1, <3>1, <3>2
    <2>3. CASE login' = [login EXCEPT ![l].pc = "count", ![l].kept = TRUE] /\ rows' = rows
      <3>1. Typed(login', Ids)
        BY <1>0, <1>6, <1>7, <2>3, TypedMove
      <3> QED BY <1>4, <2>1, <2>3, <3>1
    <2> QED BY <1>10, <2>2, <2>3 DEF RevokeDevice
  <1>11. CASE Count(l)
    <2>1. rows' = rows /\ activity' = activity /\ clock' = clock
      BY <1>11 DEF Count
    <2>2. PICK p \in PC, x \in SUBSET Ids : login' = [Overlapping(l) EXCEPT ![l].pc = p, ![l].ids = x]
      BY <1>6, <1>7, <1>11 DEF Count
    <2>3. Typed(Overlapping(l), Ids)
      BY <1>0, TypedOverlapping
    <2>4. Typed(login', Ids)
      BY <1>6, <1>7, <2>2, <2>3, TypedMove
    <2> QED BY <1>4, <2>1, <2>4
  <1>12. CASE Evict(l)
    <2>1. activity' = activity /\ clock' = clock /\ rows' \in Seq(Row) /\ DOMAIN rows' = Ids
      BY <1>0, <1>12, RevokedRows DEF Evict
    <2>2. Typed(login', Ids)
      BY <1>0, <1>6, <1>7, <1>12, TypedMove DEF GoTo, Evict
    <2> QED BY <1>5, <2>1, <2>2
  <1>13. CASE Save(l)
    <2>0. login[l].device \in Devices \cup {NoDevice}
      BY <1>2 DEF LoginRecord
    <2>1. rows' \in Seq(Row) /\ DOMAIN rows' = Ids \cup {Len(rows) + 1} /\ Len(rows) + 1 \in Nat
      <3>1. rows' \in Seq(Row) /\ DOMAIN rows' = Ids \cup {Len(rows) + 1}
        BY <1>0, <1>13, <2>0, SavedRows
      <3>2. Len(rows) \in Nat
        BY <1>0
      <3> QED BY <3>1, <3>2
    <2>2. Stamped'
      BY <1>0, <1>13, <2>1, AppendedStamp DEF Save
    <2>3. Typed(login', Ids)
      BY <1>0, <1>6, <1>7, <1>13, <2>1, TypedMove DEF Save
    <2>4. LoginRecord(Ids) \subseteq LoginRecord(Ids')
      BY <2>1 DEF LoginRecord, Ids
    <2>5. Typed(login', Ids')
      BY <2>3, <2>4 DEF Typed
    <2> QED BY <1>3, <2>1, <2>2, <2>5
  <1>14. CASE UpdateTokens(l)
    <2>1. rows' \in Seq(Row) /\ DOMAIN rows' = Ids /\ Ids' = Ids
      BY <1>0, <1>14, UpdatedRows DEF UpdateTokens, Ids
    <2>2. Stamped'
      BY <1>0, <1>14, <2>1, Touched DEF UpdateTokens
    <2>3. Typed(OrderChanged, Ids)
      BY <1>0, TypedOrder
    <2>4. Typed(login', Ids)
      BY <1>6, <1>7, <1>14, <2>3, TypedMove DEF UpdateTokens
    <2> QED BY <1>3, <2>1, <2>2, <2>4
  <1>15. CASE Throw(l)
    <2>1. Typed(login', Ids)
      BY <1>0, <1>6, <1>7, <1>15, TypedMove DEF Finish, Throw
    <2>2. rows' = rows /\ activity' = activity /\ clock' = clock
      BY <1>15 DEF Throw
    <2> QED BY <1>4, <2>1, <2>2
  <1> QED BY <1>8, <1>9, <1>10, <1>11, <1>12, <1>13, <1>14, <1>15, <1>16 DEF Step

LEMMA OtherType ==
    ASSUME TypeOK,
           \/ DisableLock \/ DisableRevoke \/ EnableUser
           \/ \E s \in Ids : Refresh(s) \/ EndSession(s)
           \/ UNCHANGED vars
    PROVE  TypeOK'
  <1>0. /\ locked \in BOOLEAN /\ rows \in Seq(Row) /\ Stamped /\ Typed(login, Ids)
        /\ disables \in Nat /\ touches \in Nat
        /\ revoking \in Nat /\ revoked \in BOOLEAN
    BY TypeParts
  <1>1. ASSUME rows' \in Seq(Row), DOMAIN rows' = Ids, activity' = activity, clock' = clock,
               login' = login, locked' \in BOOLEAN, disables' \in Nat, touches' = touches,
               revoking' \in Nat, revoked' \in BOOLEAN
        PROVE  TypeOK'
    <2>1. Stamped' /\ Ids' = Ids
      BY <1>0, <1>1, SameStamps DEF Ids
    <2>2. Typed(login', Ids')
      BY <1>0, <1>1, <2>1
    <2> QED BY <1>0, <1>1, <2>1, <2>2 DEF TypeOK, Stamped, Typed, LoginRecord
  <1>2. DOMAIN rows = Ids
    BY DEF Ids
  <1>3. CASE DisableLock
    <2>1. revoking' \in Nat /\ disables' \in Nat
      BY <1>0, <1>3 DEF DisableLock
    <2>2. locked' \in BOOLEAN /\ revoked' \in BOOLEAN
      BY <1>3 DEF DisableLock
    <2> QED BY <1>0, <1>1, <1>2, <1>3, <2>1, <2>2 DEF DisableLock
  <1>4. CASE DisableRevoke
    <2>1. rows' \in Seq(Row) /\ DOMAIN rows' = Ids
      BY <1>0, <1>2, <1>4, RevokedRows DEF DisableRevoke
    <2>2. revoking' \in Nat
      BY <1>0, <1>4 DEF DisableRevoke
    <2>3. revoked' \in BOOLEAN
      BY <1>0, <1>4 DEF DisableRevoke
    <2> QED BY <1>0, <1>1, <1>4, <2>1, <2>2, <2>3 DEF DisableRevoke
  <1>5. CASE EnableUser
    BY <1>0, <1>1, <1>2, <1>5 DEF EnableUser
  <1>6. ASSUME NEW s \in Ids, Refresh(s) PROVE TypeOK'
    <2>1. rows' = rows /\ Ids' = Ids /\ DOMAIN rows' = Ids
      BY <1>6 DEF Refresh, Ids
    <2>2. Stamped'
      BY <1>0, <1>6, <2>1, Touched DEF Refresh
    <2>3. Typed(login', Ids')
      BY <1>0, <1>6, <2>1, TypedOrder DEF Refresh
    <2>4. /\ locked' = locked /\ disables' = disables /\ revoking' = revoking
          /\ revoked' = revoked /\ touches' = touches + 1
      BY <1>6 DEF Refresh
    <2> QED BY <1>0, <2>1, <2>2, <2>3, <2>4 DEF TypeOK, Stamped, Typed, LoginRecord
  <1>7. ASSUME NEW s \in Ids, EndSession(s) PROVE TypeOK'
    <2>1. rows' \in Seq(Row) /\ DOMAIN rows' = Ids
      BY <1>0, <1>7, RevokedRows DEF EndSession
    <2> QED BY <1>0, <1>1, <1>7, <2>1 DEF EndSession
  <1>8. CASE UNCHANGED vars
    BY <1>0, <1>1, <1>2, <1>8 DEF vars
  <1> QED BY <1>3, <1>4, <1>5, <1>6, <1>7, <1>8

\* Every variable has its type and no two rows were last active at the same time, with any
\* number of logins, rows, refreshes and calls of disableUser.
THEOREM TypeInvariant == Spec => []TypeOK
  <1>1. TypeOK /\ [Next]_vars => TypeOK'
    BY LoginType, OtherType DEF Next
  <1> QED BY <1>1, InitType, PTL DEF Spec

-----------------------------------------------------------------------------
(* The limit. *)

\* Of n things in a strict order, at most n - e have e or more below them.
LEMMA RankBound ==
    ASSUME NEW S, IsFiniteSet(S), NEW f, \A s \in S : f[s] \in Nat,
           \A s, t \in S : s # t => f[s] # f[t],
           NEW e \in Nat, e <= Cardinality(S)
    PROVE  Cardinality({s \in S : ~(Cardinality({t \in S : f[t] < f[s]}) < e)})
               <= Cardinality(S) - e
  <1> DEFINE n == Cardinality(S)
             Low(s) == {t \in S : f[t] < f[s]}
             High == {s \in S : ~(Cardinality(Low(s)) < e)}
             rank == [s \in High |-> Cardinality(Low(s))]
  <1>1. n \in Nat
    BY FS_CardinalityType
  <1>2. \A s \in S : IsFiniteSet(Low(s)) /\ Cardinality(Low(s)) \in Nat
    <2> SUFFICES ASSUME NEW s \in S
                 PROVE  IsFiniteSet(Low(s)) /\ Cardinality(Low(s)) \in Nat
      OBVIOUS
    <2>1. Low(s) \in SUBSET S
      OBVIOUS
    <2> QED BY <2>1, FS_Subset, FS_CardinalityType
  <1>3. ASSUME NEW T \in SUBSET S, NEW s \in T, NEW L \in SUBSET (T \ {s})
        PROVE  Cardinality(L) < Cardinality(T)
    <2>1. IsFiniteSet(T) /\ Cardinality(T) \in Nat
      BY FS_Subset, FS_CardinalityType
    <2>2. IsFiniteSet(T \ {s}) /\ Cardinality(T \ {s}) = Cardinality(T) - 1
      BY <2>1, FS_RemoveElement
    <2>3. Cardinality(L) <= Cardinality(T \ {s}) /\ IsFiniteSet(L)
      BY <2>2, FS_Subset
    <2>4. Cardinality(L) \in Nat
      BY <2>3, FS_CardinalityType
    <2> QED BY <2>1, <2>2, <2>3, <2>4
  <1>4. \A s \in S : Cardinality(Low(s)) < n
    <2> SUFFICES ASSUME NEW s \in S PROVE Cardinality(Low(s)) < n
      OBVIOUS
    <2>1. Low(s) \in SUBSET (S \ {s})
      OBVIOUS
    <2> QED BY <2>1, <1>3
  <1>5. \A s, t \in S : f[s] < f[t] => Cardinality(Low(s)) < Cardinality(Low(t))
    <2> SUFFICES ASSUME NEW s \in S, NEW t \in S, f[s] < f[t]
                 PROVE  Cardinality(Low(s)) < Cardinality(Low(t))
      OBVIOUS
    <2>1. Low(t) \in SUBSET S /\ s \in Low(t) /\ Low(s) \in SUBSET (Low(t) \ {s})
      OBVIOUS
    <2> QED BY <2>1, <1>3
  <1> HIDE DEF Low
  <1>6. rank \in Injection(High, e..(n - 1))
    <2>1. rank \in [High -> e..(n - 1)]
      BY <1>1, <1>2, <1>4
    <2>2. \A s, t \in High : rank[s] = rank[t] => s = t
      <3> SUFFICES ASSUME NEW s \in High, NEW t \in High, s # t
                   PROVE  rank[s] # rank[t]
        OBVIOUS
      <3>1. f[s] < f[t] \/ f[t] < f[s]
        OBVIOUS
      <3>2. Cardinality(Low(s)) # Cardinality(Low(t))
        BY <3>1, <1>2, <1>5
      <3> QED BY <3>2
    <2> QED BY <2>1, <2>2 DEF Injection, IsInjective
  <1>7. IsFiniteSet(e..(n - 1)) /\ Cardinality(e..(n - 1)) = n - e
    <2>1. e \in Int /\ n - 1 \in Int /\ (e > n - 1 => e = n)
      BY <1>1
    <2>2. /\ IsFiniteSet(e..(n - 1))
          /\ Cardinality(e..(n - 1)) = IF e > n - 1 THEN 0 ELSE (n - 1) - e + 1
      BY <2>1, FS_Interval
    <2> HIDE DEF n
    <2> QED BY <1>1, <2>1, <2>2
  <1> HIDE DEF High, rank
  <1>8. Cardinality(High) <= n - e
    BY <1>6, <1>7, FS_Injection
  <1> QED BY <1>8 DEF High, Low

LEMMA LiveFinite ==
    ASSUME rows \in Seq(Row)
    PROVE  IsFiniteSet(Live) /\ Cardinality(Live) \in Nat
  <1>1. Ids = 1..Len(rows) /\ Len(rows) \in Nat
    BY DEF Ids
  <1>2. IsFiniteSet(Ids)
    BY <1>1, FS_Interval
  <1>3. Live \in SUBSET Ids
    BY DEF Live
  <1> QED BY <1>2, <1>3, FS_Subset, FS_CardinalityType

\* A login that has taken or is about to take the sessions over the limit away, and that no
\* other overlapped, leaves room for its own.
RoomFor(l) ==
    MaxConcurrent > 0 /\ ~login[l].overlapped =>
        /\ login[l].pc = "save" => Cardinality(Live) < MaxConcurrent
        /\ login[l].pc = "evict" => Cardinality(Live \ login[l].ids) < MaxConcurrent

\* What it is about to take away was active before what it spares.
OldestOf(l) ==
    login[l].pc = "evict" /\ ~login[l].overlapped /\ ~login[l].stale =>
        \A s \in Live \cap login[l].ids, t \in Live \ login[l].ids : activity[s] < activity[t]

Evictions == \A l \in Logins : RoomFor(l) /\ OldestOf(l)

\* The sessions that count chooses, and whether it chooses any.
LEMMA CountChooses ==
    ASSUME Inv, TypeOK, NEW l \in Logins, Count(l)
    PROVE  RoomFor(l)' /\ OldestOf(l)'
  <1> DEFINE over == MaxConcurrent > 0 /\ Excess > 0
             p == IF over THEN "evict" ELSE "save"
             x == IF over THEN {s \in Live : Cardinality(Older(s)) < Excess} ELSE {}
  <1>1. rows' = rows /\ activity' = activity /\ Live' = Live
    BY DEF Count, Live, IsLive, Ids
  <1>2. login' = [Overlapping(l) EXCEPT ![l].pc = p, ![l].ids = x]
    BY DEF Count
  <1> HIDE DEF p, x
  <1>3. Moves(l, p, login[l].device, login[l].epoch, x, login[l].kept)
    BY <1>2, Reads DEF Inv, Shape
  <1>4. login'[l].pc = p /\ login'[l].ids = x
    BY <1>3 DEF Moves
  <1>5. IsFiniteSet(Live) /\ Cardinality(Live) \in Nat /\ MaxConcurrent \in Nat
    BY LiveFinite, LoginAssumption DEF TypeOK
  <1>6. /\ \A s \in Live : s \in Ids /\ activity[s] \in Nat
        /\ \A s, t \in Live : s # t => activity[s] # activity[t]
    BY DEF TypeOK, Live
  <1>7. Excess \in Int /\ Excess = Cardinality(Live) - MaxConcurrent + 1
    BY <1>5 DEF Excess
  <1>8. CASE ~over
    BY <1>1, <1>4, <1>5, <1>7, <1>8 DEF RoomFor, OldestOf, p
  <1>9. CASE over
    <2>1. p = "evict" /\ x = {s \in Live : Cardinality(Older(s)) < Excess}
      BY <1>9 DEF p, x
    <2>2. Excess \in Nat /\ Excess <= Cardinality(Live)
      BY <1>5, <1>7, <1>9
    <2>3. Cardinality({s \in Live : ~(Cardinality(Older(s)) < Excess)})
             <= Cardinality(Live) - Excess
      BY <1>5, <1>6, <2>2, RankBound DEF Older
    <2>4. {s \in Live : ~(Cardinality(Older(s)) < Excess)} = Live \ x
      BY <2>1
    <2>5. IsFiniteSet(Live \ x) /\ Cardinality(Live \ x) \in Nat
      BY <1>5, FS_Difference, FS_CardinalityType
    <2>6. Cardinality(Live \ x) < MaxConcurrent
      <3>1. Cardinality(Live \ x) <= Cardinality(Live) - Excess
        BY <2>3, <2>4, Zenon
      <3> QED BY <1>5, <1>7, <2>5, <3>1
    <2>7. RoomFor(l)'
      BY <1>1, <1>4, <2>1, <2>6 DEF RoomFor
    <2>8. ASSUME NEW s \in Live \cap x, NEW t \in Live \ x PROVE activity[s] < activity[t]
      <3>1. \A u \in Live : IsFiniteSet(Older(u)) /\ Cardinality(Older(u)) \in Nat
        <4>1. \A u \in Live : Older(u) \in SUBSET Live
          BY DEF Older
        <4> QED BY <1>5, <4>1, FS_Subset, FS_CardinalityType
      <3>2. Cardinality(Older(s)) < Cardinality(Older(t))
        BY <1>7, <2>1, <3>1
      <3>3. ASSUME activity[t] < activity[s] PROVE FALSE
        <4>1. Older(t) \in SUBSET Older(s)
          BY <1>6, <3>3 DEF Older
        <4>2. Cardinality(Older(t)) <= Cardinality(Older(s))
          BY <3>1, <4>1, FS_Subset
        <4> QED BY <3>1, <3>2, <4>2
      <3>4. s # t
        BY <2>8
      <3> QED BY <1>6, <3>3, <3>4
    <2>9. OldestOf(l)'
      BY <1>1, <1>4, <2>8 DEF OldestOf
    <2> QED BY <2>7, <2>9
  <1> QED BY <1>8, <1>9

\* A login that stays where it is, while no session comes to life and the order of those
\* it looks at stays or the login takes note.
LEMMA EvictionStays ==
    ASSUME TypeOK, NEW k \in Logins, RoomFor(k), OldestOf(k), Stays(k), Live' \subseteq Live,
           \/ activity' = activity
           \/ login[k].pc = "evict" => login'[k].stale
    PROVE  RoomFor(k)' /\ OldestOf(k)'
  <1>1. IsFiniteSet(Live) /\ MaxConcurrent \in Nat
    BY LiveFinite, LoginAssumption DEF TypeOK
  <1>2. ASSUME NEW x
        PROVE  /\ Cardinality(Live' \ x) <= Cardinality(Live \ x)
               /\ Cardinality(Live' \ x) \in Nat /\ Cardinality(Live \ x) \in Nat
    <2>1. IsFiniteSet(Live \ x)
      BY <1>1, FS_Difference
    <2>2. Live' \ x \in SUBSET (Live \ x)
      OBVIOUS
    <2>3. IsFiniteSet(Live' \ x) /\ Cardinality(Live' \ x) <= Cardinality(Live \ x)
      BY <2>1, <2>2, FS_Subset
    <2> QED BY <2>1, <2>3, FS_CardinalityType
  <1>3. /\ Cardinality(Live') <= Cardinality(Live)
        /\ Cardinality(Live') \in Nat /\ Cardinality(Live) \in Nat
    BY <1>1, FS_Subset, FS_CardinalityType
  <1>4. RoomFor(k)'
    <2>1. /\ login'[k].pc = login[k].pc /\ login'[k].ids = login[k].ids
          /\ ~login'[k].overlapped => ~login[k].overlapped
      BY DEF Stays
    <2>2. /\ Cardinality(Live' \ login[k].ids) <= Cardinality(Live \ login[k].ids)
          /\ Cardinality(Live' \ login[k].ids) \in Nat /\ Cardinality(Live \ login[k].ids) \in Nat
      BY <1>2
    <2>3. RoomFor(k)' <=> (MaxConcurrent > 0 /\ ~login'[k].overlapped =>
            /\ login'[k].pc = "save" => Cardinality(Live') < MaxConcurrent
            /\ login'[k].pc = "evict" => Cardinality(Live' \ login'[k].ids) < MaxConcurrent)
      BY DEF RoomFor
    <2>4. Cardinality(Live' \ login'[k].ids) = Cardinality(Live' \ login[k].ids)
      BY <2>1
    <2> QED BY <1>1, <1>3, <2>1, <2>2, <2>3, <2>4 DEF RoomFor
  <1>5. OldestOf(k)'
    BY DEF OldestOf, Stays
  <1> QED BY <1>4, <1>5

\* One login moves and no session comes to life.
LEMMA EvictionMoves ==
    ASSUME TypeOK, Evictions, NEW l \in Logins, NEW p, NEW d, NEW e, NEW x, NEW m,
           Moves(l, p, d, e, x, m), Live' \subseteq Live,
           \/ activity' = activity
           \/ \A k \in Logins \ {l} : login[k].pc = "evict" => login'[k].stale,
           \/ p \notin {"evict", "save"}
           \/ RoomFor(l)' /\ OldestOf(l)'
    PROVE  Evictions'
  <1>1. \A k \in Logins \ {l} : RoomFor(k)' /\ OldestOf(k)'
    <2> SUFFICES ASSUME NEW k \in Logins, k # l PROVE RoomFor(k)' /\ OldestOf(k)'
      OBVIOUS
    <2>1. RoomFor(k) /\ OldestOf(k) /\ Stays(k)
      BY DEF Evictions, Moves
    <2> QED BY <2>1, EvictionStays
  <1>2. RoomFor(l)' /\ OldestOf(l)'
    <2>1. CASE p \notin {"evict", "save"}
      BY <2>1 DEF RoomFor, OldestOf, Moves
    <2> QED BY <2>1
  <1> QED BY <1>1, <1>2 DEF Evictions

\* A login inserts its session: whoever else has chosen what to evict was overlapped by it.
LEMMA EvictionSave ==
    ASSUME Inv, Evictions, NEW l \in Logins, Save(l)
    PROVE  Evictions'
  <1>1. Moves(l, "update", login[l].device, login[l].epoch, login[l].ids, login[l].kept)
    BY SaveMoves DEF Inv, Shape
  <1>2. InRead(l)
    BY DEF Save, InRead
  <1> SUFFICES ASSUME NEW k \in Logins PROVE RoomFor(k)' /\ OldestOf(k)'
    BY DEF Evictions
  <1>3. CASE k = l
    BY <1>1, <1>3 DEF Moves, RoomFor, OldestOf
  <1>4. CASE k # l
    <2>1. Stays(k)
      BY <1>1, <1>4 DEF Moves
    <2>2. login[k].pc \in {"evict", "save"} => login'[k].overlapped
      BY <1>2, <1>4, <2>1 DEF Inv, Pairs, InRead, Stays
    <2> QED BY <2>1, <2>2 DEF RoomFor, OldestOf, Stays
  <1> QED BY <1>3, <1>4

LEMMA LoginEvictions ==
    ASSUME Inv, TypeOK, Evictions, NEW l \in Logins, Authenticate(l) \/ Answer(l) \/ Step(l) \/ Throw(l)
    PROVE  Evictions'
  <1>0. Shape /\ IsLogins(login) /\ disables \in Nat /\ rows \in Seq(Row)
    BY DEF Inv, Shape
  <1>1. CASE Authenticate(l)
    <2>1. rows' = rows /\ activity' = activity
      BY <1>1 DEF Authenticate
    <2>2. Live' \subseteq Live
      BY <1>0, <2>1, RowsSame
    <2>3. PICK p \in {"done", "challenge", "count", "findDevice"} :
            \E d, e, x, m : Moves(l, p, d, e, x, m)
      BY <1>0, <1>1, AuthenticateMoves
    <2>4. PICK d, e, x, m : Moves(l, p, d, e, x, m)
      BY <2>3
    <2> QED BY <2>1, <2>2, <2>3, <2>4, EvictionMoves
  <1>9. CASE Answer(l)
    <2>1. rows' = rows /\ activity' = activity
      BY <1>9 DEF Answer
    <2>2. Live' \subseteq Live
      BY <1>0, <2>1, RowsSame
    <2>3. PICK p \in {"done", "count", "findDevice"} : \E d, e, x, m : Moves(l, p, d, e, x, m)
      BY <1>0, <1>9, AnswerMoves
    <2>4. PICK d, e, x, m : Moves(l, p, d, e, x, m)
      BY <2>3
    <2> QED BY <2>1, <2>2, <2>3, <2>4, EvictionMoves
  <1>2. CASE FindDevice(l)
    <2>1. rows' = rows /\ activity' = activity
      BY <1>2 DEF FindDevice
    <2>2. Live' \subseteq Live
      BY <1>0, <2>1, RowsSame
    <2>3. PICK p \in {"count", "revokeDevice"} : \E d, e, x, m : Moves(l, p, d, e, x, m)
      BY <1>0, <1>2, FindDeviceMoves
    <2>4. PICK d, e, x, m : Moves(l, p, d, e, x, m)
      BY <2>3
    <2> QED BY <2>1, <2>2, <2>3, <2>4, EvictionMoves
  <1>3. CASE RevokeDevice(l)
    <2>1. activity' = activity
      BY <1>3 DEF RevokeDevice
    <2>2. Live' \subseteq Live
      BY <1>0, <1>3, RowsSame, RowsRevoked DEF RevokeDevice
    <2>3. PICK m : Moves(l, "count", login[l].device, login[l].epoch, login[l].ids, m)
      BY <1>0, <1>3, GoesTo, KeepsDevice DEF RevokeDevice
    <2> QED BY <2>1, <2>2, <2>3, EvictionMoves
  <1>4. CASE Count(l)
    <2>1. rows' = rows /\ activity' = activity
      BY <1>4 DEF Count
    <2>2. Live' \subseteq Live
      BY <1>0, <2>1, RowsSame
    <2>3. PICK p, x : Moves(l, p, login[l].device, login[l].epoch, x, login[l].kept)
      BY <1>0, <1>4, CountMoves
    <2>4. RoomFor(l)' /\ OldestOf(l)'
      BY <1>4, CountChooses
    <2> QED BY <2>1, <2>2, <2>3, <2>4, EvictionMoves
  <1>5. CASE Evict(l)
    <2>1. activity' = activity /\ login[l].pc = "evict"
      BY <1>5 DEF Evict
    <2>2. Live' = Live \ login[l].ids
      BY <1>0, <1>5, RowsRevoked DEF Evict
    <2>3. Moves(l, "save", login[l].device, login[l].epoch, login[l].ids, login[l].kept)
      BY <1>0, <1>5, GoesTo DEF Evict
    <2>4. RoomFor(l)' /\ OldestOf(l)'
      BY <2>1, <2>2, <2>3 DEF Moves, Evictions, RoomFor, OldestOf
    <2> QED BY <2>1, <2>2, <2>3, <2>4, EvictionMoves
  <1>6. CASE Save(l)
    BY <1>6, EvictionSave
  <1>7. CASE UpdateTokens(l)
    <2>1. Live' \subseteq Live
      BY <1>0, <1>7, UpdatedRows DEF UpdateTokens
    <2>2. /\ Moves(l, "done", login[l].device, login[l].epoch, login[l].ids, login[l].kept)
          /\ \A k \in Logins \ {l} : login[k].pc = "evict" => login'[k].stale
      BY <1>0, <1>7, UpdateMoves
    <2> QED BY <2>1, <2>2, EvictionMoves
  <1>8. CASE Throw(l)
    <2>1. rows' = rows /\ activity' = activity
      BY <1>8 DEF Throw
    <2>2. Live' \subseteq Live
      BY <1>0, <2>1, RowsSame
    <2>3. Moves(l, "done", login[l].device, login[l].epoch, login[l].ids, login[l].kept)
      BY <1>0, <1>8, Finishes DEF Throw
    <2> QED BY <2>1, <2>2, <2>3, EvictionMoves
  <1> QED BY <1>1, <1>2, <1>3, <1>4, <1>5, <1>6, <1>7, <1>8, <1>9 DEF Step

LEMMA OtherEvictions ==
    ASSUME Inv, TypeOK, Evictions,
           \/ DisableLock \/ DisableRevoke \/ EnableUser
           \/ \E s \in Ids : Refresh(s) \/ EndSession(s)
           \/ UNCHANGED vars
    PROVE  Evictions'
  <1>0. Shape /\ IsLogins(login)
    BY DEF Inv, Shape
  <1>1. Live' \subseteq Live
    <2>1. rows' = rows \/ \E ids : RevokeRows(ids)
      BY DEF DisableLock, DisableRevoke, EnableUser, Refresh, EndSession, vars
    <2> QED BY <1>0, <2>1, RowsSame, RowsRevoked
  <1>2. (login' = login /\ activity' = activity) \/ login' = OrderChanged
    BY DEF DisableLock, DisableRevoke, EnableUser, Refresh, EndSession, vars
  <1> SUFFICES ASSUME NEW k \in Logins PROVE RoomFor(k)' /\ OldestOf(k)'
    BY DEF Evictions
  <1>3. RoomFor(k) /\ OldestOf(k)
    BY DEF Evictions
  <1>4. CASE login' = login /\ activity' = activity
    <2>1. Stays(k)
      BY <1>4 DEF Stays
    <2> QED BY <1>1, <1>3, <1>4, <2>1, EvictionStays
  <1>5. CASE login' = OrderChanged
    <2>1. Stays(k) /\ (login[k].pc = "evict" => login'[k].stale)
      BY <1>0, <1>5, OrderOnly DEF Stays
    <2> QED BY <1>1, <1>3, <2>1, EvictionStays
  <1> QED BY <1>2, <1>4, <1>5

LEMMA EvictionInvariant == Spec => [](Inv /\ TypeOK /\ Evictions)
  <1>1. Init => Evictions
    <2>1. Init => \A l \in Logins : login[l].pc = "idle"
      BY DEF Init
    <2> QED BY <2>1 DEF Evictions, RoomFor, OldestOf
  <1>2. Inv /\ TypeOK /\ Evictions /\ [Next]_vars => Evictions'
    BY LoginEvictions, OtherEvictions DEF Next
  <1> QED BY <1>1, <1>2, Inductive, TypeInvariant, PTL DEF Spec

\* Only its own eviction takes a login from evict to save.
LEMMA OnlyEvict ==
    ASSUME Shape, Next, NEW l \in Logins, login[l].pc = "evict", login'[l].pc = "save"
    PROVE  Evict(l)
  <1>0. IsLogins(login) /\ disables \in Nat
    BY DEF Shape
  <1>1. (Authenticate(l) \/ Answer(l) \/ Step(l) \/ Throw(l)) \/ Stays(l)
    BY OnlyItself
  <1>2. ~Throw(l)
    BY <1>0, Finishes DEF Throw, Moves
  <1>3. Authenticate(l) \/ Answer(l) \/ Step(l)
    BY <1>1, <1>2 DEF Stays
  <1> QED BY <1>3 DEF Step, Authenticate, Answer, Proceed, Finish, FindDevice, RevokeDevice, Count, Save,
           UpdateTokens

-----------------------------------------------------------------------------
(* The theorems. *)

\* After a disableUser has revoked the sessions of a locked account, every live session belongs
\* to a sign-in that read the user before the lock was last set, in flight then or answering a
\* challenge since: with any number of sign-ins and answers, of overlapping calls of disableUser
\* and enableUser, of sessions and refreshes.
THEOREM LockedOut == Spec => []OnlyEarlierSignInsSurviveDisabling
  BY Inductive, PTL DEF Inv

\* The session of a login with a device token is the only one of its device, unless another
\* login was creating one at the same time or revoking the device's sessions failed.
THEOREM DeviceReplaced == Spec => SoloLoginReplacesDevice
  <1> DEFINE Replaces(l) ==
        /\ login[l].device # NoDevice /\ login[l].pc = "save" /\ login'[l].pc = "update"
        => \/ login[l].overlapped \/ login[l].kept
           \/ {s \in Live' : rows'[s].device = login[l].device} = {login'[l].row}
  <1>1. ASSUME Inv, Next PROVE \A l \in Logins : Replaces(l)
    <2> SUFFICES ASSUME NEW l \in Logins, login[l].device # NoDevice, login[l].pc = "save",
                        login'[l].pc = "update", ~login[l].overlapped, ~login[l].kept
                 PROVE  {s \in Live' : rows'[s].device = login[l].device} = {login'[l].row}
      OBVIOUS
    <2>1. Shape /\ IsLogins(login)
      BY <1>1 DEF Inv, Shape
    <2>2. Save(l)
      BY <1>1, <2>1, OnlySave
    <2>3. \A s \in Live : rows[s].device # login[l].device
      BY <1>1 DEF Inv, DeviceFree, InRead
    <2>4. /\ Live' = Live \cup {Len(rows) + 1} /\ Live \subseteq Ids
          /\ rows'[Len(rows) + 1].device = login[l].device
          /\ \A s \in Ids : rows'[s] = rows[s]
      BY <2>1, <2>2, SavedRows DEF Shape, IsLogins, Live
    <2>5. login'[l].row = Len(rows) + 1
      BY <2>1, <2>2, SaveMoves
    <2> QED BY <2>3, <2>4, <2>5
  <1>2. ASSUME Inv, [Next]_vars PROVE [\A l \in Logins : Replaces(l)]_vars
    BY <1>1, <1>2
  <1>3. SoloLoginReplacesDevice <=> [][\A l \in Logins : Replaces(l)]_vars
    BY DEF SoloLoginReplacesDevice
  <1> HIDE DEF Replaces
  <1> QED BY <1>2, <1>3, Inductive, PTL DEF Spec

\* A login that no other login overlapped leaves at most maxConcurrent live sessions, however
\* many overlapping logins, or a lowered limit, had left before it, and while refreshes touch
\* and logouts end sessions between its steps.
THEOREM LimitRestored == Spec => SoloLoginRestoresLimit
  <1> DEFINE Restores(l) ==
        MaxConcurrent > 0 /\ login[l].pc = "save" /\ login'[l].pc = "update"
        => login[l].overlapped \/ Cardinality(Live') <= MaxConcurrent
  <1>1. ASSUME Inv, TypeOK, Evictions, Next PROVE \A l \in Logins : Restores(l)
    <2> SUFFICES ASSUME NEW l \in Logins, MaxConcurrent > 0, login[l].pc = "save",
                        login'[l].pc = "update", ~login[l].overlapped
                 PROVE  Cardinality(Live') <= MaxConcurrent
      OBVIOUS
    <2>1. Shape /\ IsLogins(login) /\ rows \in Seq(Row)
      BY <1>1 DEF Inv, Shape
    <2>2. Save(l)
      BY <1>1, <2>1, OnlySave
    <2>3. Live' = Live \cup {Len(rows) + 1}
      BY <2>1, <2>2, SavedRows DEF IsLogins
    <2>4. Cardinality(Live) < MaxConcurrent /\ MaxConcurrent \in Nat
      BY <1>1, LoginAssumption DEF Evictions, RoomFor
    <2>5. IsFiniteSet(Live) /\ Cardinality(Live) \in Nat
      BY <2>1, LiveFinite
    <2>6. \/ Cardinality(Live') = Cardinality(Live)
          \/ Cardinality(Live') = Cardinality(Live) + 1
      BY <2>3, <2>5, FS_AddElement
    <2> QED BY <2>4, <2>5, <2>6
  <1>2. ASSUME Inv, TypeOK, Evictions, [Next]_vars PROVE [\A l \in Logins : Restores(l)]_vars
    BY <1>1, <1>2
  <1>3. SoloLoginRestoresLimit <=> [][\A l \in Logins : Restores(l)]_vars
    BY DEF SoloLoginRestoresLimit
  <1> HIDE DEF Restores
  <1> QED BY <1>2, <1>3, EvictionInvariant, PTL DEF Spec

\* What a login evicts was active before everything it spares, unless another login or a
\* refresh came in after its read: for any number of sessions and any limit.
THEOREM OldestEvicted == Spec => EvictsLeastRecentlyActive
  <1> DEFINE Chooses(l) ==
        login[l].pc = "evict" /\ login'[l].pc = "save"
        => \/ login[l].overlapped \/ login[l].stale
           \/ \A s \in Live \ Live', t \in Live' : activity[s] < activity[t]
  <1>1. ASSUME Inv, Evictions, Next PROVE \A l \in Logins : Chooses(l)
    <2> SUFFICES ASSUME NEW l \in Logins, login[l].pc = "evict", login'[l].pc = "save",
                        ~login[l].overlapped, ~login[l].stale
                 PROVE  \A s \in Live \ Live', t \in Live' : activity[s] < activity[t]
      OBVIOUS
    <2>1. Shape
      BY <1>1 DEF Inv
    <2>2. Evict(l)
      BY <1>1, <2>1, OnlyEvict
    <2>3. Live' = Live \ login[l].ids
      BY <2>1, <2>2, RowsRevoked DEF Evict
    <2> QED BY <1>1, <2>3 DEF Evictions, OldestOf
  <1>2. ASSUME Inv, TypeOK, Evictions, [Next]_vars PROVE [\A l \in Logins : Chooses(l)]_vars
    BY <1>1, <1>2
  <1>3. EvictsLeastRecentlyActive <=> [][\A l \in Logins : Chooses(l)]_vars
    BY DEF EvictsLeastRecentlyActive
  <1> HIDE DEF Chooses
  <1> QED BY <1>2, <1>3, EvictionInvariant, PTL DEF Spec
=============================================================================
