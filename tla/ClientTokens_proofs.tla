------------------------- MODULE ClientTokens_proofs -------------------------
(***************************************************************************)
(* Theorems about ClientTokens, for every value of its constants.          *)
(***************************************************************************)
EXTENDS ClientTokens, TLAPS

(* Type correctness. *)

\* A call that runs has its tab.
Placed == \A c \in Calls : Active(c) => call[c].tab \in Tabs

TypeInv == TypeOK /\ Placed

\* A call moved to a well-typed local state that has its tab.
LEMMA Moved ==
    ASSUME TypeInv, NEW c \in Calls, NEW q \in Call, q.pc # "idle" => q.tab \in Tabs,
           call' = [call EXCEPT ![c] = q]
    PROVE  call' \in [Calls -> Call] /\ Placed'
  BY DEF TypeInv, TypeOK, Placed, Active

LEMMA IdleType == Idle \in Call
  BY DEF Idle, Call

LEMMA UserType == Nobody \in User /\ Unread \notin User
  BY DEF Nobody, Unread, User, Logins

LEMMA BroadcastType ==
    ASSUME TypeOK, NEW t \in Tabs
    PROVE  Broadcast(t) \in [Tabs -> Tab]
  BY DEF TypeOK, Broadcast, Tab

LEMMA StartTyped ==
    ASSUME TypeInv, NEW c \in Calls, NEW t \in Tabs,
           NEW op \in {"login", "refresh", "logout", "profile"},
           NEW pc \in {"login", "read", "logout", "profile"},
           NEW login \in Logins \cup {0}, NEW ver \in Nat, Start(c, t, op, pc, login, ver)
    PROVE  /\ call' \in [Calls -> Call] /\ Placed'
           /\ used' \in [starts : Nat, faults : Nat]
           /\ troubled' \in BOOLEAN
  <1> DEFINE others == {d \in Calls : Meets(op, t, d)}
             q == [pc |-> pc, op |-> op, tab |-> t, login |-> login, ver |-> ver,
                   answer |-> "none", met |-> others # {}]
  <1>1. q \in Call
    <2>1. (others # {}) \in BOOLEAN
      OBVIOUS
    <2> QED BY <2>1 DEF Call
  <1>2. call' = [d \in Calls |-> IF d = c THEN q
                                 ELSE IF d \in others THEN [call[d] EXCEPT !.met = TRUE]
                                 ELSE call[d]]
    BY DEF Start
  <1>3. \A d \in Calls : [call[d] EXCEPT !.met = TRUE] \in Call
    <2> SUFFICES ASSUME NEW d \in Calls PROVE [call[d] EXCEPT !.met = TRUE] \in Call
      OBVIOUS
    <2>1. call[d] \in Call
      BY DEF TypeInv, TypeOK
    <2> QED BY <2>1 DEF Call
  <1>4. q.pc # "idle" /\ q.tab = t
    OBVIOUS
  <1>5. \A d \in Calls : \/ d = c /\ call'[d] = q
                         \/ call'[d] \in Call /\ call'[d].pc = call[d].pc
                                              /\ call'[d].tab = call[d].tab
    <2> HIDE DEF q, others
    <2> QED BY <1>2, <1>3 DEF TypeInv, TypeOK, Call
  <1>6. call' \in [Calls -> Call] /\ Placed'
    <2> HIDE DEF q, others
    <2>1. call' \in [Calls -> Call]
      BY <1>1, <1>2, <1>3 DEF TypeInv, TypeOK
    <2>2. Placed'
      BY <1>4, <1>5 DEF TypeInv, Placed, Active
    <2> QED BY <2>1, <2>2
  <1>7. used' \in [starts : Nat, faults : Nat]
    BY DEF Start, TypeInv, TypeOK
  <1>8. troubled' \in BOOLEAN
    BY DEF Start
  <1> QED BY <1>6, <1>7, <1>8

\* A fault is counted.
LEMMA FaultTyped ==
    ASSUME TypeOK, Fault
    PROVE  used' \in [starts : Nat, faults : Nat]
  BY DEF TypeOK, Fault

LEMMA TypeInvariant == Spec => []TypeInv
  <1>1. Init => TypeInv
    <2> SUFFICES ASSUME Init PROVE TypeInv
      OBVIOUS
    <2> USE ClientAssumption DEF Init
    <2>1. expected \in Logins \cup {0} /\ expected \in Nat
      BY DEF Logins
    <2>2. server \in [Logins -> Session]
      BY DEF Session
    <2>3. store \in Store /\ store.user \in User
      BY <2>1 DEF Store, User
    <2>4. tab \in [Tabs -> Tab]
      BY <2>3 DEF Tab
    <2>5. call \in [Calls -> Call] /\ Placed
      BY IdleType DEF Placed, Active, Idle
    <2>6. reuse \in BOOLEAN /\ troubled \in BOOLEAN /\ missed \subseteq Tabs
      <3>1. troubled = FALSE
        OBVIOUS
      <3> QED BY <3>1
    <2>7. used \in [starts : Nat, faults : Nat]
      OBVIOUS
    <2> QED BY <2>1, <2>2, <2>3, <2>4, <2>5, <2>6, <2>7 DEF TypeInv, TypeOK
  <1>2. TypeInv /\ [Next]_vars => TypeInv'
    <2> SUFFICES ASSUME TypeInv, [Next]_vars PROVE TypeInv'
      OBVIOUS
    <2> USE DEF TypeInv, TypeOK
    <2>1. ASSUME NEW c \in Calls, NEW t \in Tabs, Login(c, t) PROVE TypeInv'
      BY <2>1, StartTyped DEF Login
    <2>2. ASSUME NEW c \in Calls, NEW t \in Tabs, Refresh(c, t) PROVE TypeInv'
      BY <2>2, StartTyped DEF Refresh
    <2>3. ASSUME NEW c \in Calls, NEW t \in Tabs, Logout(c, t) PROVE TypeInv'
      BY <2>3, StartTyped DEF Logout, Store
    <2>4. ASSUME NEW c \in Calls, AnswerLogin(c) PROVE TypeInv'
      <3>1. PICK l \in Logins :
              /\ server' = [server EXCEPT ![l] = [live |-> TRUE, cur |-> 1, spent |-> {},
                                                 edition |-> 0]]
              /\ call' = [call EXCEPT ![c].pc = "answered", ![c].answer = "tokens",
                                      ![c].login = l, ![c].ver = 1]
        BY <2>4 DEF AnswerLogin
      <3>2. server' \in [Logins -> Session]
        BY <3>1 DEF Session
      <3> DEFINE q == [call[c] EXCEPT !.pc = "answered", !.answer = "tokens", !.login = l,
                                      !.ver = 1]
      <3>3. q \in Call /\ q.tab \in Tabs
        <4>1. call[c] \in Call /\ call[c].tab \in Tabs
          BY <2>4 DEF AnswerLogin, Placed, Active
        <4> QED BY <4>1 DEF Call
      <3>4. call' = [call EXCEPT ![c] = q]
        BY <3>1
      <3> HIDE DEF q
      <3>5. call' \in [Calls -> Call] /\ Placed'
        BY <3>3, <3>4, Moved
      <3> QED BY <2>4, <3>2, <3>5 DEF AnswerLogin
    <2>5. ASSUME NEW c \in Calls, AnswerRefresh(c) PROVE TypeInv'
      <3> DEFINE l == call[c].login
                 s == server[l]
                 v == call[c].ver
                 q(answer, ver) == [call[c] EXCEPT !.pc = "answered", !.answer = answer,
                                                   !.ver = ver]
      <3>1. call[c] \in Call /\ call[c].tab \in Tabs /\ v \in Nat
        BY <2>5 DEF AnswerRefresh, Call, Placed, Active
      <3>2. \A answer \in {"tokens", "401", "error"}, ver \in Nat :
              q(answer, ver) \in Call /\ q(answer, ver).tab \in Tabs
        BY <3>1 DEF Call
      <3>3. \/ /\ call' = [call EXCEPT ![c] = q("error", v)] \/ call' = [call EXCEPT ![c] = q("401", v)]
               /\ UNCHANGED server
            \/ /\ call' = [call EXCEPT ![c] = q("tokens", s.cur + 1)]
               /\ l \in Logins
               /\ \E spent \in SUBSET Nat :
                    server' = [server EXCEPT ![l].cur = s.cur + 1, ![l].spent = spent]
        <4>1. CASE l = 0
          <5>1. call' = [call EXCEPT ![c].pc = "answered", ![c].answer = "error"]
                /\ UNCHANGED server
            BY <2>5, <4>1 DEF AnswerRefresh
          <5>2. q("error", v) = [call[c] EXCEPT !.pc = "answered", !.answer = "error"]
            BY <3>1 DEF Call
          <5>3. call' = [call EXCEPT ![c] = [call[c] EXCEPT !.pc = "answered",
                                                            !.answer = "error"]]
            BY <5>1
          <5> HIDE DEF q
          <5> QED BY <5>1, <5>2, <5>3
        <4>2. CASE l # 0 /\ ~(s.live /\ (v = s.cur \/ (reuse /\ v \in s.spent)))
          <5>1. call' = [call EXCEPT ![c].pc = "answered", ![c].answer = "401"]
                /\ UNCHANGED server
            BY <2>5, <4>2 DEF AnswerRefresh
          <5>2. q("401", v) = [call[c] EXCEPT !.pc = "answered", !.answer = "401"]
            BY <3>1 DEF Call
          <5>3. call' = [call EXCEPT ![c] = [call[c] EXCEPT !.pc = "answered",
                                                            !.answer = "401"]]
            BY <5>1
          <5> HIDE DEF q
          <5> QED BY <5>1, <5>2, <5>3
        <4>3. CASE l # 0 /\ s.live /\ (v = s.cur \/ (reuse /\ v \in s.spent))
          <5>1. l \in Logins /\ s \in Session
            BY <3>1, <4>3 DEF Call
          <5>2. s.spent \in SUBSET Nat /\ s.spent \cup {v} \in SUBSET Nat
            BY <3>1, <5>1 DEF Session
          <5>3. /\ call' = [call EXCEPT ![c].pc = "answered", ![c].answer = "tokens",
                                        ![c].ver = s.cur + 1]
                /\ server' = [server EXCEPT ![l].cur = s.cur + 1,
                                ![l].spent = IF v = s.cur THEN s.spent \cup {v} ELSE s.spent]
            BY <2>5, <4>3, <5>1 DEF AnswerRefresh
          <5>4. call' = [call EXCEPT ![c] = q("tokens", s.cur + 1)]
            BY <5>3
          <5> HIDE DEF l, s, v, q
          <5> QED BY <5>1, <5>2, <5>3, <5>4
        <4> QED BY <4>1, <4>2, <4>3
      <3>4. l \in Logins => s \in Session /\ s.cur \in Nat /\ s.cur + 1 \in Nat
        BY DEF Session
      <3>5. call' \in [Calls -> Call] /\ Placed'
        <4>1. \E answer \in {"tokens", "401", "error"}, ver \in Nat :
                call' = [call EXCEPT ![c] = q(answer, ver)]
          <5> HIDE DEF q, l, s
          <5> QED BY <3>1, <3>3, <3>4
        <4>2. PICK answer \in {"tokens", "401", "error"}, ver \in Nat :
                call' = [call EXCEPT ![c] = q(answer, ver)]
          BY <4>1
        <4>3. q(answer, ver) \in Call /\ q(answer, ver).tab \in Tabs
          BY <3>2
        <4> HIDE DEF q
        <4> QED BY <4>2, <4>3, Moved
      <3>6. server' \in [Logins -> Session]
        <4>1. CASE UNCHANGED server
          BY <4>1
        <4>2. CASE /\ l \in Logins
                   /\ \E spent \in SUBSET Nat :
                        server' = [server EXCEPT ![l].cur = s.cur + 1, ![l].spent = spent]
          <5>1. PICK spent \in SUBSET Nat :
                  server' = [server EXCEPT ![l].cur = s.cur + 1, ![l].spent = spent]
            BY <4>2
          <5>2. [s EXCEPT !.cur = s.cur + 1, !.spent = spent] \in Session
            BY <3>4, <4>2 DEF Session
          <5>3. server' = [server EXCEPT ![l] = [s EXCEPT !.cur = s.cur + 1, !.spent = spent]]
            BY <5>1
          <5> HIDE DEF l, s
          <5> QED BY <5>2, <5>3
        <4> QED BY <3>3, <4>1, <4>2
      <3> QED BY <2>5, <3>5, <3>6 DEF AnswerRefresh
    <2>6. ASSUME NEW c \in Calls, AnswerLogout(c) PROVE TypeInv'
      <3>1. server' \in [Logins -> Session]
        <4>1. CASE UNCHANGED server
          BY <4>1
        <4>2. CASE server' = [server EXCEPT ![call[c].login].live = FALSE]
          BY <4>2 DEF Session
        <4> QED BY <2>6, <4>1, <4>2 DEF AnswerLogout
      <3>2. used' \in [starts : Nat, faults : Nat]
        BY <2>6, FaultTyped DEF AnswerLogout
      <3> DEFINE q == [call[c] EXCEPT !.pc = "clear"]
      <3>3. q \in Call /\ q.tab \in Tabs /\ call' = [call EXCEPT ![c] = q]
        BY <2>6 DEF AnswerLogout, Call, Placed, Active
      <3> HIDE DEF q
      <3>4. call' \in [Calls -> Call] /\ Placed'
        BY <3>3, Moved
      <3> QED BY <2>6, <3>1, <3>2, <3>4 DEF AnswerLogout
    <2>7. ASSUME NEW c \in Calls, Fail(c) PROVE TypeInv'
      <3> DEFINE q == [call[c] EXCEPT !.pc = "answered", !.answer = "error"]
      <3>1. q \in Call /\ q.tab \in Tabs /\ call' = [call EXCEPT ![c] = q]
        BY <2>7 DEF Fail, Call, Placed, Active
      <3> HIDE DEF q
      <3>2. call' \in [Calls -> Call] /\ Placed'
        BY <3>1, Moved
      <3>3. troubled' \in BOOLEAN
        BY <2>7 DEF Fail
      <3> QED BY <2>7, <3>2, <3>3, FaultTyped DEF Fail
    <2>8. ASSUME NEW c \in Calls, ReadBody(c) PROVE TypeInv'
      <3> DEFINE q == [call[c] EXCEPT !.pc = "join", !.login = store.login, !.ver = store.ver]
      <3>1. q \in Call /\ q.tab \in Tabs /\ call' = [call EXCEPT ![c] = q]
        <4>1. call[c] \in Call /\ call[c].tab \in Tabs
          BY <2>8 DEF ReadBody, Placed, Active
        <4>2. store.login \in Logins \cup {0} /\ store.ver \in Nat
          BY DEF Store
        <4>3. q \in Call /\ q.tab \in Tabs
          BY <4>1, <4>2 DEF Call
        <4>4. call' = [call EXCEPT ![c] = q]
          BY <2>8 DEF ReadBody
        <4> HIDE DEF q
        <4> QED BY <4>3, <4>4
      <3> HIDE DEF q
      <3>2. call' \in [Calls -> Call] /\ Placed'
        BY <3>1, Moved
      <3> QED BY <2>8, <3>2 DEF ReadBody
    <2>9. ASSUME NEW c \in Calls, refreshOnce(c) PROVE TypeInv'
      <3>1. PICK pc \in {"sent", "wait"} : call' = [call EXCEPT ![c].pc = pc]
        BY <2>9 DEF refreshOnce
      <3> DEFINE q == [call[c] EXCEPT !.pc = pc]
      <3>2. q \in Call /\ q.tab \in Tabs /\ call' = [call EXCEPT ![c] = q]
        BY <2>9, <3>1 DEF refreshOnce, Call, Placed, Active
      <3> HIDE DEF q
      <3>3. call' \in [Calls -> Call] /\ Placed'
        BY <3>2, Moved
      <3>4. tab' \in [Tabs -> Tab] /\ troubled' \in BOOLEAN
        <4>1. CASE UNCHANGED <<tab, troubled>>
          BY <4>1
        <4>2. CASE /\ tab' = [tab EXCEPT ![call[c].tab].flight = c]
                   /\ troubled' = (troubled \/ Stale(c))
          BY <4>2 DEF Tab
        <4> QED BY <2>9, <4>1, <4>2 DEF refreshOnce
      <3> QED BY <2>9, <3>3, <3>4 DEF refreshOnce
    <2>10. ASSUME NEW c \in Calls, Settle(c) PROVE TypeInv'
      <3> DEFINE t == call[c].tab
      <3>1. t \in Tabs /\ call[c] \in Call
        BY <2>10 DEF Settle, Placed, Active
      <3>2. Broadcast(t) \in [Tabs -> Tab]
        BY <3>1, BroadcastType
      <3>3. tab' \in [Tabs -> Tab]
        <4>1. PICK told \in [Tabs -> Tab] : tab' = [told EXCEPT ![t].flight = None]
          BY <2>10, <3>2 DEF Settle
        <4> QED BY <4>1 DEF Tab
      <3>4. store' \in Store
        BY <2>10, <3>1 DEF Settle, Store, Call
      <3>5. \A d \in Calls : /\ call'[d] \in Call
                             /\ call'[d].pc # "idle" => call'[d].tab \in Tabs
        <4> SUFFICES ASSUME NEW d \in Calls
                     PROVE  call'[d] \in Call /\ (call'[d].pc # "idle" => call'[d].tab \in Tabs)
          OBVIOUS
        <4>1. \/ d \notin Joined(c) /\ call'[d] = call[d]
              \/ d \in Joined(c) /\ call'[d] = [call[d] EXCEPT !.pc = "clear"]
              \/ call'[d] = Idle
          BY <2>10 DEF Settle
        <4>2. call[d] \in Call /\ (Active(d) => call[d].tab \in Tabs)
          BY DEF Placed
        <4>3. d \in Joined(c) => call[d].tab = t
          BY DEF Joined
        <4>4. [call[d] EXCEPT !.pc = "clear"] \in Call
          BY <4>2 DEF Call
        <4>5. Idle.pc = "idle"
          BY DEF Idle
        <4>6. [call[d] EXCEPT !.pc = "clear"].tab = call[d].tab
          BY <4>2 DEF Call
        <4> QED BY <3>1, <4>1, <4>2, <4>3, <4>4, <4>5, <4>6, IdleType DEF Active
      <3>6. call' \in [Calls -> Call]
        <4>1. \E f : call' = [d \in Calls |-> f[d]]
          <5>1. call' = [d \in Calls |-> call'[d]]
            BY <2>10 DEF Settle
          <5> QED BY <5>1
        <4> QED BY <3>5, <4>1
      <3>7. Placed'
        BY <3>5 DEF Placed, Active
      <3> QED BY <2>10, <3>3, <3>4, <3>6, <3>7 DEF Settle
    <2>11. ASSUME NEW c \in Calls, SetTokens(c) PROVE TypeInv'
      <3>1. call[c].tab \in Tabs /\ call[c] \in Call
        BY <2>11 DEF SetTokens, Placed, Active
      <3>2. tab' \in [Tabs -> Tab]
        BY <2>11, <3>1, BroadcastType DEF SetTokens
      <3>3. store' \in Store
        BY <2>11, <3>1 DEF SetTokens, Store, Call
      <3> DEFINE q == [call[c] EXCEPT !.pc = "user"]
      <3>4. q \in Call /\ q.tab \in Tabs
        BY <3>1 DEF Call
      <3>5. call' = [call EXCEPT ![c] = q] \/ call' = [call EXCEPT ![c] = Idle]
        BY <2>11 DEF SetTokens
      <3>6. Idle.pc = "idle"
        BY DEF Idle
      <3> HIDE DEF q
      <3>7. call' \in [Calls -> Call] /\ Placed'
        BY <3>4, <3>5, <3>6, Moved, IdleType
      <3> QED BY <2>11, <3>2, <3>3, <3>7 DEF SetTokens
    <2>12. ASSUME NEW c \in Calls, SetUser(c) PROVE TypeInv'
      <3>1. call[c].tab \in Tabs /\ call[c] \in Call /\ call[c].login \in Logins \cup {0}
        BY <2>12 DEF SetUser, Placed, Active, Call
      <3>2. tab' \in [Tabs -> Tab] /\ store' \in Store
        <4>1. PICK u \in User : u = [login |-> call[c].login, edition |-> 0]
          BY <3>1 DEF User
        <4>2. /\ store' = [store EXCEPT !.user = u]
              /\ tab' = [tab EXCEPT ![call[c].tab].user = store'.user]
          BY <2>12, <4>1 DEF SetUser
        <4>3. store' \in Store /\ store'.user = u
          BY <4>2 DEF Store
        <4> QED BY <4>2, <4>3 DEF Tab
      <3>3. missed' \subseteq Tabs /\ troubled' \in BOOLEAN
        BY <2>12, <3>1 DEF SetUser, Synced
      <3>4. call' \in [Calls -> Call] /\ Placed'
        BY <2>12, Moved, IdleType DEF SetUser, Idle
      <3> QED BY <2>12, <3>1, <3>2, <3>3, <3>4 DEF SetUser
    <2>13. ASSUME NEW c \in Calls, ClearAuthState(c) PROVE TypeInv'
      <3>1. call[c].tab \in Tabs /\ call[c] \in Call
        BY <2>13 DEF ClearAuthState, Placed, Active
      <3>2. Broadcast(call[c].tab) \in [Tabs -> Tab]
        BY <3>1, BroadcastType
      <3>3. tab' \in [Tabs -> Tab]
        BY <2>13, <3>1, <3>2, UserType DEF ClearAuthState, Tab
      <3>4. store' \in Store
        BY <2>13, UserType DEF ClearAuthState, Store, Nothing
      <3>5. missed' \subseteq Tabs
        BY <2>13, <3>1 DEF ClearAuthState, Synced
      <3> DEFINE q == [call[c] EXCEPT !.pc = "again"]
      <3>6. q \in Call /\ q.tab \in Tabs /\ call' = [call EXCEPT ![c] = q]
        BY <2>13, <3>1 DEF ClearAuthState, Call
      <3> HIDE DEF q
      <3>7. call' \in [Calls -> Call] /\ Placed'
        BY <3>6, Moved
      <3> QED BY <2>13, <3>3, <3>4, <3>5, <3>7 DEF ClearAuthState
    <2>14. ASSUME NEW c \in Calls, RemoveUser(c) PROVE TypeInv'
      <3>1. call' \in [Calls -> Call] /\ Placed'
        BY <2>14, Moved, IdleType DEF RemoveUser, Idle
      <3>2. store' \in Store /\ expected' \in Logins \cup {0}
        BY <2>14, UserType DEF RemoveUser, Store
      <3>3. troubled' \in BOOLEAN
        BY <2>14 DEF RemoveUser
      <3> QED BY <2>14, <3>1, <3>2, <3>3 DEF RemoveUser
    <2>15. ASSUME NEW t \in Tabs, ReadEvent(t) PROVE TypeInv'
      <3>1. tab' \in [Tabs -> Tab]
        <4> DEFINE u == [tab[t] EXCEPT !.events = tab[t].events - 1, !.reading = store.user]
        <4>1. tab[t] \in Tab /\ tab[t].events > 0 /\ store.user \in User
          BY <2>15 DEF ReadEvent, Store
        <4>2. tab[t].events - 1 \in Nat /\ store.user \in User \cup {Unread}
          <5>1. tab[t].events \in Nat
            BY <4>1 DEF Tab
          <5> QED BY <4>1, <5>1
        <4>3. ASSUME NEW e \in Nat, NEW l \in User \cup {Unread}
              PROVE  [tab[t] EXCEPT !.events = e, !.reading = l] \in Tab
          BY <4>1 DEF Tab
        <4>4. u \in Tab
          BY <4>2, <4>3
        <4>5. tab' = [tab EXCEPT ![t] = u]
          BY <2>15 DEF ReadEvent
        <4> HIDE DEF u
        <4> QED BY <4>4, <4>5
      <3>2. missed' \subseteq Tabs
        BY <2>15 DEF ReadEvent, Synced
      <3> QED BY <2>15, <3>1, <3>2 DEF ReadEvent, Placed, Active
    <2>16. ASSUME NEW t \in Tabs, TakeUser(t) PROVE TypeInv'
      <3>1. tab' \in [Tabs -> Tab]
        BY <2>16 DEF TakeUser, Tab
      <3> QED BY <2>16, <3>1 DEF TakeUser, Placed, Active
    <2>17. ASSUME NEW t \in Tabs, Reload(t) PROVE TypeInv'
      <3>1. tab' \in [Tabs -> Tab]
        BY <2>17 DEF Reload, Tab, Store
      <3>2. call' \in [Calls -> Call]
        BY <2>17, IdleType DEF Reload
      <3>3. Placed'
        BY <2>17 DEF Reload, Placed, Active, Idle
      <3>4. missed' \subseteq Tabs /\ troubled' \in BOOLEAN
        BY <2>17 DEF Reload
      <3> QED BY <2>17, <3>1, <3>2, <3>3, <3>4, FaultTyped DEF Reload
    <2>18. ASSUME NEW l \in Logins, RevokeSession(l) PROVE TypeInv'
      <3>1. server' \in [Logins -> Session]
        BY <2>18 DEF RevokeSession, Session
      <3> QED BY <2>18, <3>1, FaultTyped DEF RevokeSession, Placed, Active
    <2>19. ASSUME UNCHANGED vars PROVE TypeInv'
      BY <2>19 DEF vars, Placed, Active
    <2>20. ASSUME NEW c \in Calls, NEW t \in Tabs, Profile(c, t) PROVE TypeInv'
      BY <2>20, StartTyped DEF Profile, Store
    <2>21. ASSUME NEW c \in Calls, AnswerProfile(c) PROVE TypeInv'
      <3>1. call[c].tab \in Tabs /\ call[c] \in Call
        BY <2>21 DEF AnswerProfile, Placed, Active
      <3>2. used' \in [starts : Nat, faults : Nat]
        BY <2>21, FaultTyped DEF AnswerProfile
      <3>3. CASE call' = [call EXCEPT ![c] = Idle] /\ UNCHANGED server
        <4>1. call' \in [Calls -> Call] /\ Placed'
          BY <3>3, Moved, IdleType DEF Idle
        <4> QED BY <2>21, <3>2, <3>3, <4>1 DEF AnswerProfile
      <3>4. ASSUME NEW e \in Nat, server' = [server EXCEPT ![call[c].login].edition = e],
                   call' = [call EXCEPT ![c].pc = "write", ![c].ver = e]
            PROVE  TypeInv'
        <4>1. server' \in [Logins -> Session]
          BY <3>4 DEF Session
        <4> DEFINE q == [call[c] EXCEPT !.pc = "write", !.ver = e]
        <4>2. q \in Call /\ q.tab \in Tabs /\ call' = [call EXCEPT ![c] = q]
          BY <3>1, <3>4 DEF Call
        <4> HIDE DEF q
        <4>3. call' \in [Calls -> Call] /\ Placed'
          BY <4>2, Moved
        <4> QED BY <2>21, <3>2, <4>1, <4>3 DEF AnswerProfile
      <3>5. call[c].login # 0 => server[call[c].login].edition \in Nat
        BY <3>1 DEF Call, Session
      <3>6. CASE ~(call' = [call EXCEPT ![c] = Idle] /\ UNCHANGED server)
        <4>1. PICK e \in {server[call[c].login].edition, server[call[c].login].edition + 1} :
                /\ call[c].login # 0
                /\ server' = [server EXCEPT ![call[c].login].edition = e]
                /\ call' = [call EXCEPT ![c].pc = "write", ![c].ver = e]
          BY <2>21, <3>6 DEF AnswerProfile
        <4>2. e \in Nat
          BY <3>5, <4>1
        <4> QED BY <3>4, <4>1, <4>2
      <3> QED BY <3>3, <3>6
    <2>22. ASSUME NEW c \in Calls, SetProfile(c) PROVE TypeInv'
      <3>1. call[c].tab \in Tabs /\ call[c] \in Call
        BY <2>22 DEF SetProfile, Placed, Active
      <3>2. PICK u \in User : u = [login |-> call[c].login, edition |-> call[c].ver]
        BY <3>1 DEF User, Call
      <3>3. store' \in Store /\ tab' \in [Tabs -> Tab]
        BY <2>22, <3>1, <3>2 DEF SetProfile, Store, Tab
      <3>4. missed' \subseteq Tabs
        BY <2>22, <3>1 DEF SetProfile, Synced
      <3>5. call' \in [Calls -> Call] /\ Placed'
        BY <2>22, Moved, IdleType DEF SetProfile, Idle
      <3> QED BY <2>22, <3>3, <3>4, <3>5 DEF SetProfile
    <2> HIDE DEF TypeInv, TypeOK
    <2> QED
      BY <2>1, <2>2, <2>3, <2>4, <2>5, <2>6, <2>7, <2>8, <2>9, <2>10, <2>11, <2>12, <2>13,
         <2>14, <2>15, <2>16, <2>17, <2>18, <2>19, <2>20, <2>21, <2>22 DEF Next
  <1> QED BY <1>1, <1>2, PTL DEF Spec

(* Every variable keeps its type, whatever tabs, calls and bounds there    *)
(* are.                                                                    *)
THEOREM TypeCorrect == Spec => []TypeOK
  <1>1. TypeInv => TypeOK
    BY DEF TypeInv
  <1> QED BY <1>1, TypeInvariant, PTL
-----------------------------------------------------------------------------
(* The user a tab shows. *)

\* Tab t has an event to handle, or is known to have read too early.
Told(t) == tab[t].events > 0 \/ t \in missed

\* A call that has told the tabs and has still to write the user.
Writes(c) == call[c].pc \in {"user", "again"}

\* Such a call is known to every other tab.
Tells == \A c \in Calls : Writes(c) => \A t \in Tabs \ {call[c].tab} : Told(t)

\* The tab that is about to remove the user again shows none.
OwnTab ==
    \A c \in Calls : call[c].pc = "again" =>
        \/ Told(call[c].tab)
        \/ tab[call[c].tab].user = Nobody /\ tab[call[c].tab].reading = Unread

\* What an event handler has read is what is stored.
Reads ==
    \A t \in Tabs : tab[t].reading # Unread => Told(t) \/ tab[t].reading = store.user

AgreeInv == TypeInv /\ Tells /\ OwnTab /\ Reads /\ TabsAgree

\* A step that writes no user, drops no event and tells nobody.
LEMMA AgreeFrame ==
    ASSUME AgreeInv, TypeInv', store'.user = store.user, missed' = missed,
           \A t \in Tabs : /\ tab'[t].user = tab[t].user
                           /\ tab'[t].reading = tab[t].reading
                           /\ tab[t].events > 0 => tab'[t].events > 0,
           \A c \in Calls : Writes(c)' => call'[c].pc = call[c].pc
                                          /\ call'[c].tab = call[c].tab
    PROVE  AgreeInv'
  <1>1. \A t \in Tabs : Told(t) => Told(t)'
    BY DEF Told
  <1>2. \A c \in Calls : Writes(c)' => Writes(c)
    BY DEF Writes
  <1>3. \A c \in Calls : Writes(c) => call[c].tab \in Tabs
    BY DEF AgreeInv, TypeInv, Placed, Active, Writes
  <1>4. Tells'
    BY <1>1, <1>2 DEF AgreeInv, Tells
  <1>5. OwnTab'
    BY <1>1, <1>2, <1>3 DEF AgreeInv, OwnTab, Writes
  <1>6. Reads'
    BY <1>1 DEF AgreeInv, Reads
  <1>7. TabsAgree'
    BY DEF AgreeInv, TabsAgree
  <1> QED BY <1>4, <1>5, <1>6, <1>7 DEF AgreeInv

\* A call that starts tells nobody, and nothing but calls changes.
LEMMA StartFrame ==
    ASSUME NEW c \in Calls, NEW t \in Tabs, NEW op,
           NEW pc \in {"login", "read", "logout", "profile"},
           NEW login, NEW ver, TypeInv, Start(c, t, op, pc, login, ver)
    PROVE  \A d \in Calls : Writes(d)' => call'[d].pc = call[d].pc
                                          /\ call'[d].tab = call[d].tab
  <1>1. \A d \in Calls : \/ call'[d].pc = pc
                         \/ call'[d] = [call[d] EXCEPT !.met = TRUE]
                         \/ call'[d] = call[d]
    BY DEF Start
  <1>2. \A d \in Calls : [call[d] EXCEPT !.met = TRUE].pc = call[d].pc
                         /\ [call[d] EXCEPT !.met = TRUE].tab = call[d].tab
    BY DEF TypeInv, TypeOK, Call
  <1> QED BY <1>1, <1>2 DEF Writes

\* setUser: whoever else is about to write has told this tab or is remembered.
LEMMA AgreeSetUser ==
    ASSUME AgreeInv, TypeInv', NEW c \in Calls, SetUser(c)
    PROVE  AgreeInv'
  <1>1. PICK t \in Tabs : t = call[c].tab /\ Writes(c)
    BY DEF SetUser, AgreeInv, TypeInv, Placed, Active, Writes
  <1>2. /\ tab'[t].user = store'.user
        /\ \A u \in Tabs : tab'[u].events = tab[u].events /\ tab'[u].reading = tab[u].reading
        /\ \A u \in Tabs \ {t} : tab'[u].user = tab[u].user
    BY <1>1 DEF SetUser, AgreeInv, TypeInv, TypeOK, Tab, Store
  <1>3. missed' = Synced(t, c) /\ c # None
    BY <1>1, ClientAssumption DEF SetUser
  <1>4. \A d \in Calls : d # c => call'[d] = call[d]
    BY DEF SetUser
  <1>5. call'[c].pc = "idle"
    BY DEF SetUser, Idle, AgreeInv, TypeInv, TypeOK
  <1>6. \A u \in Tabs \ {t} : Told(u) /\ Told(u)'
    BY <1>1, <1>2, <1>3 DEF AgreeInv, Tells, Told, Synced
  <1>7. ASSUME NEW d \in Calls, Writes(d)' PROVE Told(t)'
    <2>1. d # c /\ Writes(d)
      BY <1>4, <1>5, <1>7 DEF Writes
    <2>2. t \in missed'
      BY <2>1, <1>3 DEF Synced, Writing, Writes
    <2> QED BY <2>2 DEF Told
  <1>8. Tells' /\ OwnTab'
    <2>1. \A d \in Calls : Writes(d)' => \A u \in Tabs : Told(u)'
      BY <1>6, <1>7
    <2>2. \A d \in Calls : Writes(d)' => call'[d].tab \in Tabs
      BY DEF TypeInv, Placed, Active, Writes
    <2> QED BY <2>1, <2>2 DEF Tells, OwnTab, Writes
  <1>9. Reads'
    <2>1. tab[t].reading # Unread => t \in missed'
      BY <1>3 DEF Synced
    <2>2. tab[t].reading # Unread => Told(t)'
      BY <2>1 DEF Told
    <2> QED BY <1>2, <1>6, <2>2 DEF Reads
  <1>10. TabsAgree'
    <2>1. \A u \in Tabs : Told(u)' \/ tab'[u].user = store'.user
      <3> QED BY <1>2, <1>6
    <2> QED BY <2>1 DEF TabsAgree, Told
  <1> QED BY <1>8, <1>9, <1>10 DEF AgreeInv

\* The user of a profile: whoever shows or reads another is remembered.
LEMMA AgreeSetProfile ==
    ASSUME AgreeInv, TypeInv', NEW c \in Calls, SetProfile(c)
    PROVE  AgreeInv'
  <1>1. PICK t \in Tabs : t = call[c].tab
    BY DEF SetProfile, AgreeInv, TypeInv, Placed, Active
  <1>2. PICK w : w = [login |-> call[c].login, edition |-> call[c].ver]
    OBVIOUS
  <1>3. /\ store'.user = w /\ tab'[t].user = w
        /\ \A u \in Tabs : tab'[u].events = tab[u].events /\ tab'[u].reading = tab[u].reading
        /\ \A u \in Tabs \ {t} : tab'[u] = tab[u]
    BY <1>1, <1>2 DEF SetProfile, AgreeInv, TypeInv, TypeOK, Tab, Store
  <1>4. missed' = Synced(t, c) \cup (IF store.user = w THEN {} ELSE Tabs \ {t}) /\ c # None
    BY <1>1, <1>2, ClientAssumption DEF SetProfile
  <1>5. \A d \in Calls : Writes(d)' => d # c /\ Writes(d) /\ call'[d] = call[d]
    BY DEF SetProfile, Idle, Writes, AgreeInv, TypeInv, TypeOK
  <1>6. \A u \in Tabs \ {t} : Told(u) => Told(u)'
    BY <1>3, <1>4 DEF Told, Synced
  <1>7. ASSUME NEW d \in Calls, Writes(d)' PROVE Told(t)'
    <2>1. t \in missed'
      BY <1>4, <1>5, <1>7 DEF Synced, Writing, Writes
    <2> QED BY <2>1 DEF Told
  <1>8. \A d \in Calls : Writes(d) => call[d].tab \in Tabs
    BY DEF AgreeInv, TypeInv, Placed, Active, Writes
  <1>9. Tells'
    BY <1>5, <1>6, <1>7 DEF AgreeInv, Tells
  <1>10. OwnTab'
    <2> SUFFICES ASSUME NEW d \in Calls, call'[d].pc = "again", NEW u \in Tabs,
                        u = call'[d].tab
                 PROVE  Told(u)' \/ (tab'[u].user = Nobody /\ tab'[u].reading = Unread)
      BY <1>5, <1>8 DEF OwnTab, Told, Writes
    <2>1. Writes(d)' /\ call[d].pc = "again" /\ u = call[d].tab
      BY <1>5 DEF Writes
    <2>2. CASE u = t
      BY <2>1, <2>2, <1>7
    <2>3. CASE u # t
      <3>1. Told(u) \/ (tab[u].user = Nobody /\ tab[u].reading = Unread)
        BY <2>1 DEF AgreeInv, OwnTab, Told
      <3> QED BY <3>1, <2>3, <1>3, <1>6
    <2> QED BY <2>2, <2>3
  <1>11. \A u \in Tabs \ {t} : Told(u)' \/ store'.user = store.user
    BY <1>3, <1>4 DEF Told
  <1>12. tab[t].reading # Unread => Told(t)'
    BY <1>4 DEF Synced, Told
  <1>13. Reads'
    <2> SUFFICES ASSUME NEW u \in Tabs, tab'[u].reading # Unread
                 PROVE  Told(u)' \/ tab'[u].reading = store'.user
      BY DEF Reads, Told
    <2>1. tab[u].reading # Unread /\ tab'[u].reading = tab[u].reading
      BY <1>3
    <2>2. Told(u) \/ tab[u].reading = store.user
      BY <2>1 DEF AgreeInv, Reads
    <2> QED BY <1>6, <1>11, <1>12, <2>1, <2>2
  <1>14. TabsAgree'
    <2> SUFFICES ASSUME NEW u \in Tabs
                 PROVE  Told(u)' \/ tab'[u].reading # Unread \/ tab'[u].user = store'.user
      BY DEF TabsAgree, Told
    <2>1. Told(u) \/ tab[u].reading # Unread \/ tab[u].user = store.user
      BY DEF AgreeInv, TabsAgree, Told
    <2> QED BY <1>3, <1>6, <1>11, <2>1
  <1> QED BY <1>9, <1>10, <1>13, <1>14 DEF AgreeInv

\* clearAuthState up to its broadcast.
LEMMA AgreeClear ==
    ASSUME AgreeInv, TypeInv', NEW c \in Calls, ClearAuthState(c)
    PROVE  AgreeInv'
  <1>1. PICK t \in Tabs : t = call[c].tab
    BY DEF ClearAuthState, AgreeInv, TypeInv, Placed, Active
  <1>2. missed' = Synced(t, c) /\ c # None
    BY <1>1, ClientAssumption DEF ClearAuthState
  <1>3. \A u \in Tabs \ {t} : tab'[u].events > 0
    <2>1. \A u \in Tabs \ {t} : tab'[u] = [tab[u] EXCEPT !.events = tab[u].events + 1]
      BY <1>1 DEF ClearAuthState, Broadcast
    <2>2. \A u \in Tabs : tab[u].events \in Nat /\ tab[u] \in Tab
      BY DEF AgreeInv, TypeInv, TypeOK, Tab
    <2>3. \A u \in Tabs \ {t} : tab'[u].events = tab[u].events + 1
      BY <2>1, <2>2 DEF Tab
    <2> QED BY <2>2, <2>3
  <1>4. /\ tab'[t].user = Nobody
        /\ tab'[t].reading = tab[t].reading
        /\ store'.user = Nobody
    BY <1>1 DEF ClearAuthState, Broadcast, Nothing, AgreeInv, TypeInv, TypeOK, Tab
  <1>5. /\ call' = [call EXCEPT ![c].pc = "again"]
        /\ call'[c].pc = "again" /\ call'[c].tab = t
        /\ \A d \in Calls : d # c => call'[d] = call[d]
    BY <1>1 DEF ClearAuthState, AgreeInv, TypeInv, TypeOK, Call
  <1>6. \A u \in Tabs \ {t} : Told(u)'
    BY <1>3 DEF Told
  <1>7. ASSUME NEW d \in Calls \ {c}, Writes(d)' PROVE Told(t)'
    <2>1. Writes(d)
      BY <1>5, <1>7 DEF Writes
    <2>2. t \in missed'
      BY <2>1, <1>2 DEF Synced, Writing, Writes
    <2> QED BY <2>2 DEF Told
  <1>8. Told(t)' \/ tab'[t].reading = Unread
    BY <1>2, <1>4 DEF Synced, Told
  <1>9. \A d \in Calls : Writes(d)' => call'[d].tab \in Tabs
    BY DEF TypeInv, Placed, Active, Writes
  <1>10. Tells'
    BY <1>5, <1>6, <1>7 DEF Tells
  <1>11. OwnTab'
    <2> SUFFICES ASSUME NEW d \in Calls, call'[d].pc = "again", NEW u \in Tabs,
                        u = call'[d].tab
                 PROVE  Told(u)' \/ (tab'[u].user = Nobody /\ tab'[u].reading = Unread)
      BY <1>9 DEF OwnTab, Told, Writes
    <2>1. CASE d = c
      BY <2>1, <1>4, <1>5, <1>8 DEF Told
    <2>2. CASE d # c
      BY <2>2, <1>6, <1>7 DEF Writes, Told
    <2> QED BY <2>1, <2>2
  <1>12. Reads'
    BY <1>6, <1>8 DEF Reads
  <1>13. TabsAgree'
    BY <1>4, <1>6 DEF TabsAgree, Told
  <1> QED BY <1>10, <1>11, <1>12, <1>13 DEF AgreeInv

\* A page load takes what is stored, unless somebody is about to write it.
LEMMA AgreeReload ==
    ASSUME AgreeInv, TypeInv', NEW t \in Tabs, Reload(t)
    PROVE  AgreeInv'
  <1> DEFINE mine == {c \in Calls : Active(c) /\ call[c].tab = t}
  <1>1. /\ tab'[t].user = store.user
        /\ tab'[t].reading = Unread
        /\ \A u \in Tabs \ {t} : tab'[u] = tab[u]
        /\ store' = store
    BY DEF Reload, AgreeInv, TypeInv, TypeOK
  <1>2. missed' = IF \E d \in Calls \ mine : call[d].pc \in {"user", "again"}
                    THEN missed \cup {t} ELSE missed \ {t}
    BY DEF Reload
  <1>3. \A d \in Calls : Writes(d)' => d \notin mine /\ call'[d] = call[d] /\ Writes(d)
    <2>1. \A d \in Calls : \/ d \in mine /\ call'[d] = Idle
                           \/ d \notin mine /\ call'[d] = call[d]
      BY DEF Reload
    <2> HIDE DEF mine
    <2> QED BY <2>1 DEF Writes, Idle
  <1>4. \A u \in Tabs \ {t} : Told(u) => Told(u)'
    BY <1>1, <1>2 DEF Told
  <1>5. ASSUME NEW d \in Calls, Writes(d)' PROVE Told(t)'
    <2>1. d \in Calls \ mine /\ call[d].pc \in {"user", "again"}
      BY <1>3, <1>5 DEF Writes
    <2> HIDE DEF mine
    <2>2. t \in missed'
      BY <2>1, <1>2
    <2> QED BY <2>2 DEF Told
  <1>6. \A d \in Calls : Writes(d)' => call'[d].tab \in Tabs
    BY DEF TypeInv, Placed, Active, Writes
  <1> HIDE DEF mine
  <1>7. Tells'
    BY <1>3, <1>4, <1>5 DEF AgreeInv, Tells
  <1>8. OwnTab'
    <2> SUFFICES ASSUME NEW d \in Calls, call'[d].pc = "again", NEW u \in Tabs,
                        u = call'[d].tab
                 PROVE  Told(u)' \/ (tab'[u].user = Nobody /\ tab'[u].reading = Unread)
      BY <1>6 DEF OwnTab, Told, Writes
    <2>1. Writes(d)' /\ call[d].pc = "again" /\ u = call[d].tab
      BY <1>3 DEF Writes
    <2>2. CASE u = t
      BY <2>1, <2>2, <1>5 DEF Told
    <2>3. CASE u # t
      <3>1. Told(u) \/ (tab[u].user = Nobody /\ tab[u].reading = Unread)
        BY <2>1 DEF AgreeInv, OwnTab, Told
      <3> QED BY <3>1, <2>3, <1>1, <1>4 DEF Told
    <2> QED BY <2>2, <2>3
  <1>9. Reads'
    BY <1>1, <1>4 DEF AgreeInv, Reads
  <1>10. TabsAgree'
    BY <1>1, <1>4 DEF AgreeInv, TabsAgree, Told
  <1> QED BY <1>7, <1>8, <1>9, <1>10 DEF AgreeInv

(* Once its storage events are handled a tab shows the stored user and     *)
(* profile, unless it last read the storage while another call was between *)
(* telling the tabs and writing the user, or before another tab stored a   *)
(* profile it had fetched.  Inductive: whoever is about to write has told  *)
(* every other tab, by an event still to be handled or read too early, and *)
(* what an event handler holds in between is what is stored.               *)
THEOREM TabsShowTheStoredUser == Spec => []TabsAgree
  <1>1. Init /\ TypeInv => AgreeInv
    <2> SUFFICES ASSUME Init, TypeInv PROVE AgreeInv
      OBVIOUS
    <2>1. \A c \in Calls : call[c].pc = "idle"
      BY DEF Init, Idle
    <2>2. \A t \in Tabs : tab[t].reading = Unread /\ tab[t].user = store.user
      BY DEF Init
    <2> QED BY <2>1, <2>2 DEF AgreeInv, Tells, OwnTab, Reads, TabsAgree, Writes
  <1>2. AgreeInv /\ TypeInv' /\ [Next]_vars => AgreeInv'
    <2> SUFFICES ASSUME AgreeInv, TypeInv', [Next]_vars PROVE AgreeInv'
      OBVIOUS
    <2>0. TypeInv
      BY DEF AgreeInv
    <2>1. ASSUME NEW c \in Calls, NEW t \in Tabs,
                 Login(c, t) \/ Refresh(c, t) \/ Logout(c, t) \/ Profile(c, t)
          PROVE  AgreeInv'
      <3>1. \A d \in Calls : Writes(d)' => call'[d].pc = call[d].pc
                                           /\ call'[d].tab = call[d].tab
        BY <2>0, <2>1, StartFrame DEF Login, Refresh, Logout, Profile
      <3>2. UNCHANGED <<store, tab, missed>>
        BY <2>1 DEF Login, Refresh, Logout, Profile
      <3> QED BY <3>1, <3>2, AgreeFrame
    <2>2. ASSUME NEW c \in Calls, UNCHANGED <<store, tab, missed>>,
                 \A d \in Calls \ {c} : call'[d] = call[d], call'[c].pc \notin {"user", "again"}
          PROVE  AgreeInv'
      <3>1. \A d \in Calls : Writes(d)' => call'[d] = call[d]
        BY <2>2 DEF Writes
      <3> QED BY <2>2, <3>1, AgreeFrame
    <2>3. ASSUME NEW c \in Calls,
                 \/ AnswerLogin(c) \/ AnswerRefresh(c) \/ AnswerLogout(c) \/ AnswerProfile(c)
                 \/ Fail(c) \/ ReadBody(c)
          PROVE  AgreeInv'
      <3>1. UNCHANGED <<store, tab, missed>>
        BY <2>3 DEF AnswerLogin, AnswerRefresh, AnswerLogout, AnswerProfile, Fail, ReadBody
      <3>2. call \in [Calls -> Call]
        BY <2>0 DEF TypeInv, TypeOK
      <3> DEFINE Spares == /\ \A d \in Calls \ {c} : call'[d] = call[d]
                           /\ call'[c].pc \notin {"user", "again"}
      <3>3. CASE AnswerLogin(c)
        BY <3>2, <3>3, <3>1, <2>2 DEF AnswerLogin, Call
      <3>4. CASE AnswerRefresh(c)
        <4>1. Spares
          <5>1. call[c] \in Call
            BY <3>2
          <5>2. \E answer, ver : \/ call' = [call EXCEPT ![c].pc = "answered", ![c].answer = answer]
                                \/ call' = [call EXCEPT ![c].pc = "answered", ![c].answer = answer,
                                                        ![c].ver = ver]
            BY <3>4 DEF AnswerRefresh
          <5> QED BY <3>2, <5>1, <5>2 DEF Call
        <4> QED BY <3>1, <4>1, <2>2
      <3>5. CASE AnswerLogout(c)
        BY <3>2, <3>5, <3>1, <2>2 DEF AnswerLogout, Call
      <3>6. CASE Fail(c)
        BY <3>2, <3>6, <3>1, <2>2 DEF Fail, Call
      <3>7. CASE ReadBody(c)
        BY <3>2, <3>7, <3>1, <2>2 DEF ReadBody, Call
      <3>8. CASE AnswerProfile(c)
        <4>1. \/ call' = [call EXCEPT ![c] = Idle]
              \/ \E e : call' = [call EXCEPT ![c].pc = "write", ![c].ver = e]
          BY <3>8 DEF AnswerProfile
        <4>2. Spares
          BY <3>2, <4>1 DEF Idle, Call
        <4> QED BY <3>1, <4>2, <2>2
      <3> QED BY <2>3, <3>3, <3>4, <3>5, <3>6, <3>7, <3>8
    <2>4. ASSUME NEW c \in Calls, refreshOnce(c) PROVE AgreeInv'
      <3>1. /\ \A d \in Calls \ {c} : call'[d] = call[d]
            /\ call'[c].pc \in {"sent", "wait"}
            /\ store' = store /\ missed' = missed
        BY <2>0, <2>4 DEF refreshOnce, TypeInv, TypeOK, Call
      <3>2. \A t \in Tabs : /\ tab'[t].user = tab[t].user
                            /\ tab'[t].reading = tab[t].reading
                            /\ tab'[t].events = tab[t].events
        BY <2>0, <2>4 DEF refreshOnce, TypeInv, TypeOK, Tab
      <3>3. \A d \in Calls : Writes(d)' => call'[d] = call[d]
        BY <3>1 DEF Writes
      <3> QED BY <3>1, <3>2, <3>3, AgreeFrame
    <2>5. ASSUME NEW t \in Tabs
          PROVE  \A u \in Tabs : /\ Broadcast(t)[u].user = tab[u].user
                                 /\ Broadcast(t)[u].reading = tab[u].reading
                                 /\ tab[u].events > 0 => Broadcast(t)[u].events > 0
                                 /\ u # t => Broadcast(t)[u].events > 0
                                 /\ Broadcast(t)[u] \in Tab
      <3> SUFFICES ASSUME NEW u \in Tabs
                   PROVE  /\ Broadcast(t)[u].user = tab[u].user
                          /\ Broadcast(t)[u].reading = tab[u].reading
                          /\ tab[u].events > 0 => Broadcast(t)[u].events > 0
                          /\ u # t => Broadcast(t)[u].events > 0
                          /\ Broadcast(t)[u] \in Tab
        OBVIOUS
      <3>1. tab[u] \in Tab /\ tab[u].events \in Nat
        BY <2>0 DEF TypeInv, TypeOK, Tab
      <3> QED BY <3>1 DEF Broadcast, Tab
    <2>6. ASSUME NEW c \in Calls, Settle(c) PROVE AgreeInv'
      <3>1. PICK t \in Tabs : t = call[c].tab
        BY <2>0, <2>6 DEF Settle, TypeInv, Placed, Active
      <3>2. store'.user = store.user /\ missed' = missed
        BY <2>0, <2>6 DEF Settle, TypeInv, TypeOK, Store
      <3>3. \A d \in Calls : \/ call'[d] = call[d] \/ call'[d] = Idle
                             \/ call'[d] = [call[d] EXCEPT !.pc = "clear"]
        BY <2>6 DEF Settle
      <3>4. \A d \in Calls : [call[d] EXCEPT !.pc = "clear"].pc = "clear" /\ Idle.pc = "idle"
        BY <2>0 DEF Idle, TypeInv, TypeOK, Call
      <3>5. \A d \in Calls : Writes(d)' => call'[d] = call[d]
        BY <3>3, <3>4 DEF Writes
      <3>6. \A u \in Tabs : /\ tab'[u].user = tab[u].user
                            /\ tab'[u].reading = tab[u].reading
                            /\ tab[u].events > 0 => tab'[u].events > 0
        <4>1. CASE tab' = [Broadcast(t) EXCEPT ![t].flight = None]
          <5>1. \A u \in Tabs : /\ tab'[u].user = Broadcast(t)[u].user
                                /\ tab'[u].reading = Broadcast(t)[u].reading
                                /\ tab'[u].events = Broadcast(t)[u].events
            <6>1. Broadcast(t) \in [Tabs -> Tab]
              BY <2>0, BroadcastType DEF TypeInv
            <6> QED BY <4>1, <6>1 DEF Tab
          <5> QED BY <5>1, <2>5
        <4>2. CASE tab' = [tab EXCEPT ![t].flight = None]
          BY <4>2, <2>0 DEF TypeInv, TypeOK, Tab
        <4> QED BY <2>6, <3>1, <4>1, <4>2 DEF Settle
      <3> QED BY <3>2, <3>5, <3>6, AgreeFrame
    <2>7. ASSUME NEW c \in Calls, SetTokens(c) PROVE AgreeInv'
      <3>1. PICK t \in Tabs : t = call[c].tab
        BY <2>0, <2>7 DEF SetTokens, TypeInv, Placed, Active
      <3>2. CASE /\ call' = [call EXCEPT ![c] = Idle]
                 /\ UNCHANGED <<store, tab>>
        <4>1. missed' = missed /\ \A d \in Calls \ {c} : call'[d] = call[d]
          BY <2>7, <3>2 DEF SetTokens
        <4>2. call'[c].pc \notin {"user", "again"}
          BY <2>0, <3>2 DEF Idle, TypeInv, TypeOK
        <4> QED BY <2>2, <3>2, <4>1, <4>2
      <3>3. CASE /\ store' = [store EXCEPT !.login = call[c].login, !.ver = call[c].ver]
                 /\ tab' = Broadcast(t)
                 /\ call' = [call EXCEPT ![c].pc = "user"]
        <4>1. /\ \A d \in Calls \ {c} : call'[d] = call[d]
              /\ call'[c].pc = "user" /\ call'[c].tab = t
          BY <2>0, <3>1, <3>3 DEF TypeInv, TypeOK, Call
        <4>2. store'.user = store.user /\ missed' = missed
          BY <2>0, <2>7, <3>3 DEF SetTokens, TypeInv, TypeOK, Store
        <4>3. \A u \in Tabs : /\ tab'[u].user = tab[u].user
                              /\ tab'[u].reading = tab[u].reading
                              /\ tab[u].events > 0 => tab'[u].events > 0
                              /\ u # t => tab'[u].events > 0
          BY <3>3, <2>5
        <4>4. \A u \in Tabs : Told(u) => Told(u)'
          BY <4>2, <4>3 DEF Told
        <4>5. Tells'
          BY <4>1, <4>3, <4>4 DEF AgreeInv, Tells, Told, Writes
        <4>6. OwnTab'
          <5> SUFFICES ASSUME NEW d \in Calls, call'[d].pc = "again", NEW u \in Tabs,
                              u = call'[d].tab
                       PROVE  Told(u)' \/ (tab'[u].user = Nobody /\ tab'[u].reading = Unread)
            BY DEF OwnTab, Told, TypeInv, Placed, Active
          <5>1. call'[d] = call[d]
            BY <4>1
          <5>2. Told(u) \/ (tab[u].user = Nobody /\ tab[u].reading = Unread)
            BY <5>1 DEF AgreeInv, OwnTab, Told
          <5> QED BY <5>2, <4>3, <4>4
        <4>7. Reads' /\ TabsAgree'
          BY <4>2, <4>3, <4>4 DEF AgreeInv, Reads, TabsAgree, Told
        <4> QED BY <4>5, <4>6, <4>7 DEF AgreeInv
      <3> QED BY <2>7, <3>1, <3>2, <3>3 DEF SetTokens
    <2>8. ASSUME NEW c \in Calls, RemoveUser(c) PROVE AgreeInv'
      <3>1. PICK t \in Tabs : t = call[c].tab /\ Writes(c) /\ call[c].pc = "again"
        BY <2>0, <2>8 DEF RemoveUser, TypeInv, Placed, Active, Writes
      <3>2. store'.user = Nobody /\ UNCHANGED <<tab, missed>>
        BY <2>0, <2>8 DEF RemoveUser, TypeInv, TypeOK, Store
      <3>3. \A d \in Calls : Writes(d)' => call'[d] = call[d]
        BY <2>0, <2>8 DEF RemoveUser, Writes, Idle, TypeInv, TypeOK
      <3>4. \A u \in Tabs : Told(u)' = Told(u)
        BY <3>2 DEF Told
      <3>5. Tells' /\ OwnTab'
        BY <3>2, <3>3 DEF AgreeInv, Tells, OwnTab, Writes, Told
      <3>6. \A u \in Tabs : Told(u) \/ (u = t /\ tab[u].user = Nobody /\ tab[u].reading = Unread)
        BY <3>1 DEF AgreeInv, Tells, OwnTab, Told
      <3>7. Reads' /\ TabsAgree'
        BY <3>2, <3>6 DEF Reads, TabsAgree, Told
      <3> QED BY <3>5, <3>7 DEF AgreeInv
    <2>9. ASSUME NEW t \in Tabs, ReadEvent(t) PROVE AgreeInv'
      <3>1. /\ tab'[t].reading = store.user
            /\ tab'[t].user = tab[t].user
            /\ \A u \in Tabs \ {t} : tab'[u] = tab[u]
            /\ store' = store /\ call' = call
        BY <2>0, <2>9 DEF ReadEvent, TypeInv, TypeOK, Tab
      <3>2. missed' = IF \E d \in Calls : Writes(d) THEN missed \cup {t} ELSE missed \ {t}
        BY <2>9, ClientAssumption DEF ReadEvent, Synced, Writing, Writes
      <3>3. \A u \in Tabs \ {t} : Told(u) => Told(u)'
        BY <3>1, <3>2 DEF Told
      <3>4. ASSUME NEW d \in Calls, Writes(d) PROVE Told(t)'
        BY <3>2, <3>4 DEF Told
      <3>5. Tells'
        BY <3>1, <3>3, <3>4 DEF AgreeInv, Tells, Writes, Told
      <3>6. OwnTab'
        <4> SUFFICES ASSUME NEW d \in Calls, call'[d].pc = "again", NEW u \in Tabs,
                            u = call'[d].tab
                     PROVE  Told(u)' \/ (tab'[u].user = Nobody /\ tab'[u].reading = Unread)
          BY DEF OwnTab, Told, TypeInv, Placed, Active
        <4>1. Writes(d) /\ call[d].pc = "again" /\ u = call[d].tab
          BY <3>1 DEF Writes
        <4>2. Told(u) \/ (tab[u].user = Nobody /\ tab[u].reading = Unread)
          BY <4>1 DEF AgreeInv, OwnTab, Told
        <4> QED BY <4>1, <4>2, <3>1, <3>3, <3>4 DEF Told
      <3>7. Reads' /\ TabsAgree'
        <4>1. \A u \in Tabs \ {t} : tab'[u].reading # Unread => Told(u)' \/ tab'[u].reading = store'.user
          BY <3>1, <3>3 DEF AgreeInv, Reads
        <4>2. \A u \in Tabs \ {t} : \/ Told(u)' \/ tab'[u].reading # Unread
                                    \/ tab'[u].user = store'.user
          BY <3>1, <3>3 DEF AgreeInv, TabsAgree, Told
        <4>3. tab'[t].reading = store'.user /\ tab'[t].reading # Unread
          <5>1. store.user # Unread
            BY <2>0, UserType DEF TypeInv, TypeOK, Store
          <5> QED BY <3>1, <5>1
        <4> QED BY <4>1, <4>2, <4>3 DEF Reads, TabsAgree, Told
      <3> QED BY <3>5, <3>6, <3>7 DEF AgreeInv
    <2>10. ASSUME NEW t \in Tabs, TakeUser(t) PROVE AgreeInv'
      <3>1. /\ tab'[t].user = tab[t].reading
            /\ tab'[t].reading = Unread
            /\ tab'[t].events = tab[t].events
            /\ \A u \in Tabs \ {t} : tab'[u] = tab[u]
            /\ tab[t].reading # Unread
            /\ UNCHANGED <<store, call, missed>>
        BY <2>0, <2>10 DEF TakeUser, TypeInv, TypeOK, Tab
      <3>2. \A u \in Tabs : Told(u) => Told(u)'
        BY <3>1 DEF Told
      <3>3. Tells'
        BY <3>1, <3>2 DEF AgreeInv, Tells, Writes, Told
      <3>4. OwnTab'
        BY <3>1, <3>2 DEF AgreeInv, OwnTab, Told, TypeInv, Placed, Active
      <3>5. Reads' /\ TabsAgree'
        BY <3>1, <3>2 DEF AgreeInv, Reads, TabsAgree, Told
      <3> QED BY <3>3, <3>4, <3>5 DEF AgreeInv
    <2>11. ASSUME NEW l \in Logins, RevokeSession(l) PROVE AgreeInv'
      BY <2>11, AgreeFrame DEF RevokeSession
    <2>12. ASSUME UNCHANGED vars PROVE AgreeInv'
      BY <2>12, AgreeFrame DEF vars
    <2> QED
      BY <2>1, <2>3, <2>4, <2>6, <2>7, <2>8, <2>9, <2>10, <2>11, <2>12,
         AgreeSetUser, AgreeSetProfile, AgreeClear, AgreeReload DEF Next
  <1>3. AgreeInv => TabsAgree
    BY DEF AgreeInv
  <1> QED BY <1>1, <1>2, <1>3, TypeInvariant, PTL DEF Spec
-----------------------------------------------------------------------------
(* The session a browser keeps. *)

\* What a call can be waiting for.
Waits ==
    \A c \in Calls :
        /\ call[c].pc \in {"login", "user"} => call[c].op = "login"
        /\ call[c].pc \in {"read", "join", "sent", "wait"} => call[c].op = "refresh"
        /\ call[c].pc = "logout" => call[c].op = "logout"
        /\ call[c].pc \in {"profile", "write"} => call[c].op = "profile"
        /\ call[c].pc = "answered" => call[c].op \in {"login", "refresh"}
        /\ call[c].pc \in {"clear", "again"} => call[c].op \in {"refresh", "logout"}

\* A request for tokens is the one its tab has in flight.
Flights ==
    \A c \in Calls :
        call[c].op = "refresh" /\ call[c].pc \in {"sent", "answered"}
            => tab[call[c].tab].flight = c

\* Two calls overlap, other than refreshes of one tab or fetches of a profile.
Overlap(c, d) ==
    /\ c # d /\ Active(c) /\ Active(d)
    /\ ~(call[c].op = "refresh" /\ call[d].op = "refresh" /\ call[c].tab = call[d].tab)
    /\ ~(call[c].op = "profile" /\ call[d].op = "profile")

\* Calls that overlap know it, and it has made trouble.
Meetings ==
    /\ \A c, d \in Calls : Overlap(c, d) => call[c].met
    /\ \A c \in Calls : Active(c) /\ call[c].met => troubled

\* A login has its tokens.
SignedIn(c) ==
    call[c].op = "login" /\ call[c].pc \in {"answered", "user"} /\ call[c].answer = "tokens"

\* What a login or a logout that met nobody has done so far is still so.
Undisturbed ==
    \A c \in Calls : ~call[c].met =>
        /\ SignedIn(c)
             => /\ call[c].login \in Logins /\ call[c].ver = 1
                /\ server[call[c].login].cur = 1
        /\ call[c].pc = "user"
             => /\ call[c].answer = "tokens"
                /\ store.login = call[c].login /\ store.ver = 1
        /\ call[c].pc = "again" /\ call[c].op = "logout" => store = Nothing

\* A login that has put its tokens and not yet its user, a logout that has cleared them.
Between(c) == call[c].pc = "user" \/ (call[c].pc = "again" /\ call[c].op = "logout")

\* The login the user completed has a session that is alive.
Lives == expected # 0 /\ server[expected].live

\* A refresh has its tokens.
Renewed(c) == call[c].op = "refresh" /\ call[c].pc = "answered" /\ call[c].answer = "tokens"

\* A refresh was turned away.
Turned(c) == call[c].op = "refresh" /\ call[c].pc \in {"clear", "again"}

StoreKept ==
    /\ store.login = store.user.login /\ store.login \in {0, expected}
    /\ store.login = 0 => store = Nothing
    /\ expected # 0 => server[expected].cur # 0
    /\ Lives => store.login = expected
    /\ Lives => store.ver = server[expected].cur \/ \E c \in Calls : Renewed(c)

RefreshKept(c) ==
    call[c].op = "refresh" =>
        /\ call[c].pc \in {"join", "sent", "answered"} => call[c].login \in {0, expected}
        /\ call[c].pc = "sent" /\ call[c].login # 0 /\ Lives
             => \/ call[c].ver = server[expected].cur
                \/ reuse /\ call[c].ver \in server[expected].spent
        /\ call[c].pc = "answered" /\ call[c].answer = "401" => ~Lives
        /\ Turned(c) => ~Lives /\ \A d \in Calls : ~Renewed(d)
        /\ call[c].pc = "again" => store.login = 0
        /\ Renewed(c) => /\ call[c].login = expected /\ expected # 0
                         /\ call[c].ver = server[expected].cur /\ store.login = expected

\* While nothing has gone wrong, tokens and user are those of the login the user completed.
Kept ==
    ~troubled /\ (\A c \in Calls : ~Between(c)) => StoreKept /\ \A c \in Calls : RefreshKept(c)

\* A profile fetched meanwhile is that of the stored login.
ProfileKept ==
    \A c \in Calls : ~troubled /\ Active(c) /\ call[c].op = "profile"
        => call[c].login = store.login /\ (call[c].pc = "write" => call[c].login # 0)

KeepInv == TypeInv /\ Waits /\ Flights /\ Meetings /\ Undisturbed /\ Kept /\ ProfileKept

\* The steps of calls keep what they are and whom they have met, until they end.
LEMMA MeetingsFrame ==
    ASSUME Meetings, troubled => troubled',
           \A d \in Calls : \/ call'[d].pc = "idle"
                            \/ /\ Active(d) /\ call'[d].op = call[d].op
                               /\ call'[d].tab = call[d].tab /\ call'[d].met = call[d].met
    PROVE  Meetings'
  BY DEF Meetings, Overlap, Active

\* Who runs beside another call and has met nobody refreshes, or fetches a profile, as it does.
LEMMA Unmet ==
    ASSUME Meetings, NEW c \in Calls, NEW d \in Calls, c # d, Active(c), Active(d), ~call[d].met
    PROVE  call[d].op \in {"refresh", "profile"} /\ call[c].op = call[d].op
  BY DEF Meetings, Overlap

\* Without trouble no profile is being fetched beside a call of another kind.
LEMMA ProfileFrame ==
    ASSUME KeepInv, troubled => troubled', NEW c \in Calls, Active(c), call[c].op # "profile",
           \A d \in Calls : \/ call'[d] = call[d] /\ d # c
                            \/ call'[d].pc = "idle" \/ call'[d].op # "profile"
    PROVE  ProfileKept'
  <1> SUFFICES ASSUME NEW d \in Calls, ~troubled', Active(d)', call'[d].op = "profile"
               PROVE  FALSE
    BY DEF ProfileKept
  <1>1. call'[d] = call[d] /\ d # c /\ Active(d) /\ call[d].op = "profile"
    BY DEF Active
  <1>2. Overlap(c, d)
    BY <1>1 DEF Overlap
  <1> QED BY <1>2 DEF KeepInv, Meetings

\* A step of a call that changes storage or tokens disturbs no other.
LEMMA UndisturbedOthers ==
    ASSUME Waits, Meetings, NEW c \in Calls, Active(c),
           \A d \in Calls \ {c} : call'[d] = call[d],
           NEW d \in Calls \ {c}, ~call'[d].met
    PROVE  ~SignedIn(d)' /\ call'[d].pc # "user"
           /\ ~(call'[d].pc = "again" /\ call'[d].op = "logout")
  BY Unmet DEF Waits, SignedIn, Active

\* Storage and numbers are left alone, and no call gets further in a login or a logout.
LEMMA UndisturbedFrame ==
    ASSUME Undisturbed, store' = store, \A l \in Logins : server'[l].cur = server[l].cur,
           \A d \in Calls : \/ call'[d] = call[d]
                            \/ call'[d].met
                            \/ call'[d].op = "refresh" /\ call'[d].pc # "user"
                            \/ call'[d].pc \notin {"answered", "user", "again"}
                            \/ call'[d].pc = "answered" /\ call'[d].answer # "tokens"
    PROVE  Undisturbed'
  <1> SUFFICES ASSUME NEW d \in Calls, ~call'[d].met
               PROVE  /\ SignedIn(d)'
                           => /\ call'[d].login \in Logins /\ call'[d].ver = 1
                              /\ server'[call'[d].login].cur = 1
                      /\ call'[d].pc = "user"
                           => /\ call'[d].answer = "tokens"
                              /\ store'.login = call'[d].login /\ store'.ver = 1
                      /\ call'[d].pc = "again" /\ call'[d].op = "logout" => store' = Nothing
    BY DEF Undisturbed
  <1>1. CASE call'[d] = call[d]
    BY <1>1 DEF Undisturbed, SignedIn
  <1>2. CASE call'[d] # call[d]
    BY <1>2 DEF SignedIn
  <1> QED BY <1>1, <1>2

\* Storage and the session stay, but for its end; the call that moves keeps its part.
LEMMA KeptFrame ==
    ASSUME StoreKept, \A d \in Calls : RefreshKept(d), NEW c \in Calls,
           \A d \in Calls \ {c} : call'[d] = call[d],
           UNCHANGED <<store, expected, reuse>>, Lives' => Lives,
           expected # 0 => /\ server'[expected].cur = server[expected].cur
                           /\ server'[expected].spent = server[expected].spent,
           ~Renewed(c), ~Renewed(c)', RefreshKept(c)'
    PROVE  StoreKept' /\ \A d \in Calls : RefreshKept(d)'
  <1>1. \A d \in Calls : Renewed(d)' = Renewed(d)
    BY DEF Renewed
  <1>2. StoreKept'
    BY <1>1 DEF StoreKept, Lives
  <1>3. ASSUME NEW d \in Calls \ {c} PROVE RefreshKept(d)'
    <2>1. Turned(d)' = Turned(d)
      BY DEF Turned
    <2> HIDE DEF Renewed, Turned
    <2> QED BY <1>1, <2>1 DEF RefreshKept, Lives
  <1> QED BY <1>2, <1>3

\* A call starts; those it meets know it.
LEMMA KeepStart ==
    ASSUME KeepInv, TypeInv', NEW c \in Calls, NEW t \in Tabs,
           NEW op, NEW pc, NEW login, NEW ver, Start(c, t, op, pc, login, ver),
           \/ op = "login" /\ pc = "login"
           \/ op = "refresh" /\ pc = "read"
           \/ op = "logout" /\ pc = "logout"
           \/ op = "profile" /\ pc = "profile" /\ login = store.login,
           UNCHANGED <<reuse, server, store, tab, expected>>
    PROVE  KeepInv'
  <1> DEFINE others == {d \in Calls : Meets(op, t, d)}
  <1>1. /\ call'[c].pc = pc /\ call'[c].op = op /\ call'[c].tab = t /\ call'[c].login = login
        /\ call'[c].met = (others # {})
        /\ ~Active(c)
        /\ troubled' = (troubled \/ others # {})
    <2>1. call'[c] = [pc |-> pc, op |-> op, tab |-> t, login |-> login, ver |-> ver,
                      answer |-> "none", met |-> others # {}]
      BY DEF Start
    <2> HIDE DEF others
    <2>2. /\ call'[c].pc = pc /\ call'[c].op = op /\ call'[c].tab = t
          /\ call'[c].login = login
      BY <2>1
    <2>3. call'[c].met = (others # {})
      BY <2>1
    <2>4. ~Active(c)
      BY DEF Start
    <2>5. troubled' = (troubled \/ others # {})
      BY DEF Start, others
    <2> QED BY <2>2, <2>3, <2>4, <2>5
  <1>2. \A d \in Calls \ {c} :
          /\ d \notin others => call'[d] = call[d]
          /\ d \in others => call'[d].met
          /\ call'[d].pc = call[d].pc /\ call'[d].op = call[d].op /\ call'[d].tab = call[d].tab
          /\ call[d].met => call'[d].met
    <2> SUFFICES ASSUME NEW d \in Calls \ {c}
                 PROVE  /\ d \notin others => call'[d] = call[d]
                        /\ d \in others => call'[d].met
                        /\ call'[d].pc = call[d].pc /\ call'[d].op = call[d].op
                        /\ call'[d].tab = call[d].tab
                        /\ call[d].met => call'[d].met
      OBVIOUS
    <2>1. call'[d] = IF d \in others THEN [call[d] EXCEPT !.met = TRUE] ELSE call[d]
      BY DEF Start
    <2>2. call[d] \in Call
      BY DEF KeepInv, TypeInv, TypeOK
    <2> HIDE DEF others
    <2> QED BY <2>1, <2>2 DEF Call
  <1>3. Waits'
    BY <1>1, <1>2 DEF KeepInv, Waits
  <1>4. Flights'
    BY <1>1, <1>2 DEF KeepInv, Flights
  <1>5. Meetings'
    <2>1. ASSUME NEW a \in Calls, NEW b \in Calls, Overlap(a, b)' PROVE call'[a].met
      <3>1. a = c \/ b = c \/ Overlap(a, b)
        BY <1>2, <2>1 DEF Overlap, Active
      <3>2. ASSUME a = c PROVE b \in others
        BY <1>1, <1>2, <2>1, <3>2 DEF Overlap, Active, Meets
      <3>3. ASSUME b = c PROVE a \in others
        BY <1>1, <1>2, <2>1, <3>3 DEF Overlap, Active, Meets
      <3>4. a # b
        BY <2>1 DEF Overlap
      <3> HIDE DEF others
      <3> QED BY <1>1, <1>2, <3>1, <3>2, <3>3, <3>4 DEF KeepInv, Meetings
    <2>2. ASSUME NEW a \in Calls, Active(a)', call'[a].met PROVE troubled'
      BY <1>1, <1>2, <2>2 DEF KeepInv, Meetings, Active
    <2> QED BY <2>1, <2>2 DEF Meetings
  <1>6. Undisturbed'
    <2>1. \A d \in Calls : \/ call'[d] = call[d]
                           \/ call'[d].met
                           \/ call'[d].pc \notin {"answered", "user", "again"}
      BY <1>1, <1>2
    <2> QED BY <2>1, UndisturbedFrame DEF KeepInv
  <1>7. Kept'
    <2> SUFFICES ASSUME ~troubled', \A d \in Calls : ~Between(d)'
                 PROVE  StoreKept' /\ \A d \in Calls : RefreshKept(d)'
      BY DEF Kept
    <2>1. ~troubled /\ \A d \in Calls \ {c} : call'[d] = call[d]
      BY <1>1, <1>2
    <2>2. \A d \in Calls : ~Between(d)
      BY <1>1, <2>1 DEF Between, Active
    <2>3. ~Renewed(c) /\ ~Renewed(c)' /\ RefreshKept(c)'
      BY <1>1 DEF Renewed, RefreshKept, Turned, Active
    <2> QED BY <2>1, <2>2, <2>3, KeptFrame DEF KeepInv, Kept, Lives
  <1>8. ProfileKept'
    <2> SUFFICES ASSUME NEW d \in Calls, ~troubled', Active(d)', call'[d].op = "profile"
                 PROVE  /\ call'[d].login = store'.login
                        /\ call'[d].pc = "write" => call'[d].login # 0
      BY DEF ProfileKept
    <2>1. CASE d = c
      BY <1>1, <2>1
    <2>2. CASE d # c
      <3>1. ~troubled /\ call'[d] = call[d]
        BY <1>1, <1>2, <2>2
      <3> QED BY <3>1 DEF KeepInv, ProfileKept, Active
    <2> QED BY <2>1, <2>2
  <1> QED BY <1>3, <1>4, <1>5, <1>6, <1>7, <1>8 DEF KeepInv

\* The answer to a login opens a session nobody has.
LEMMA KeepAnswerLogin ==
    ASSUME KeepInv, TypeInv', NEW c \in Calls, AnswerLogin(c)
    PROVE  KeepInv'
  <1>1. PICK l \in Logins :
          /\ server[l].cur = 0
          /\ server' = [server EXCEPT ![l] = [live |-> TRUE, cur |-> 1, spent |-> {},
                                             edition |-> 0]]
          /\ call' = [call EXCEPT ![c].pc = "answered", ![c].answer = "tokens",
                                  ![c].login = l, ![c].ver = 1]
    BY DEF AnswerLogin
  <1>2. /\ call[c].pc = "login" /\ call[c].op = "login" /\ Active(c)
        /\ UNCHANGED <<reuse, store, tab, troubled, expected>>
    BY DEF AnswerLogin, KeepInv, Waits, Active
  <1>3. /\ call'[c].pc = "answered" /\ call'[c].answer = "tokens" /\ call'[c].login = l
        /\ call'[c].ver = 1 /\ call'[c].op = call[c].op /\ call'[c].tab = call[c].tab
        /\ call'[c].met = call[c].met
        /\ \A d \in Calls \ {c} : call'[d] = call[d]
    BY <1>1 DEF KeepInv, TypeInv, TypeOK, Call
  <1>4. server'[l].cur = 1 /\ \A k \in Logins \ {l} : server'[k] = server[k]
    BY <1>1 DEF KeepInv, TypeInv, TypeOK
  <1>5. Waits' /\ Flights'
    BY <1>2, <1>3 DEF KeepInv, Waits, Flights
  <1>6. Meetings'
    BY <1>2, <1>3, MeetingsFrame DEF KeepInv, Active
  <1>7. Undisturbed'
    BY <1>2, <1>3, <1>4, UndisturbedOthers DEF KeepInv, Undisturbed, SignedIn
  <1>8. Kept'
    <2> SUFFICES ASSUME ~troubled', \A d \in Calls : ~Between(d)'
                 PROVE  StoreKept' /\ \A d \in Calls : RefreshKept(d)'
      BY DEF Kept
    <2>1. StoreKept /\ \A d \in Calls : RefreshKept(d)
      BY <1>2, <1>3 DEF KeepInv, Kept, Between
    <2>2. expected # 0 => server'[expected] = server[expected]
      BY <1>1, <1>4, <2>1 DEF StoreKept, KeepInv, TypeInv, TypeOK
    <2>3. ~Renewed(c) /\ ~Renewed(c)' /\ RefreshKept(c)' /\ (Lives' => Lives)
      BY <1>2, <1>3, <2>2 DEF Renewed, RefreshKept, Lives
    <2> QED BY <1>2, <1>3, <2>1, <2>2, <2>3, KeptFrame
  <1>9. ProfileKept'
    BY <1>2, <1>3, ProfileFrame
  <1> QED BY <1>5, <1>6, <1>7, <1>8, <1>9 DEF KeepInv

\* The answer to a refresh: new tokens if the body was good, and 401 only for a dead session.
LEMMA KeepAnswerRefresh ==
    ASSUME KeepInv, TypeInv', NEW c \in Calls, AnswerRefresh(c)
    PROVE  KeepInv'
  <1> DEFINE l == call[c].login
             v == call[c].ver
             good == server[l].live /\ (v = server[l].cur \/ (reuse /\ v \in server[l].spent))
  <1>1. /\ call[c].pc = "sent" /\ call[c].op = "refresh" /\ Active(c)
        /\ UNCHANGED <<reuse, store, tab, troubled, expected>>
        /\ call[c] \in Call /\ l \in Logins \cup {0}
    BY DEF AnswerRefresh, KeepInv, Waits, Active, TypeInv, TypeOK, Call
  <1>2. /\ call'[c].pc = "answered" /\ call'[c].op = "refresh" /\ call'[c].tab = call[c].tab
        /\ call'[c].met = call[c].met /\ call'[c].login = l
        /\ \A d \in Calls \ {c} : call'[d] = call[d]
    <2>1. \E answer, ver : \/ call' = [call EXCEPT ![c].pc = "answered", ![c].answer = answer]
                           \/ call' = [call EXCEPT ![c].pc = "answered", ![c].answer = answer,
                                                   ![c].ver = ver]
      BY DEF AnswerRefresh
    <2> QED BY <1>1, <2>1 DEF KeepInv, TypeInv, TypeOK, Call
  <1>3. \/ /\ l = 0 /\ call'[c].answer = "error" /\ server' = server
        \/ /\ l # 0 /\ ~good /\ call'[c].answer = "401" /\ server' = server
        \/ /\ l # 0 /\ good /\ call'[c].answer = "tokens"
           /\ call'[c].ver = server[l].cur + 1 /\ server'[l].cur = server[l].cur + 1
           /\ server'[l].live = server[l].live
           /\ \A k \in Logins \ {l} : server'[k] = server[k]
    <2>1. CASE l = 0
      BY <1>1, <2>1 DEF AnswerRefresh, KeepInv, TypeInv, TypeOK, Call
    <2>2. CASE l # 0 /\ ~good
      BY <1>1, <2>2 DEF AnswerRefresh, KeepInv, TypeInv, TypeOK, Call
    <2>3. CASE l # 0 /\ good
      <3>1. l \in Logins /\ server[l] \in Session
        BY <1>1, <2>3 DEF KeepInv, TypeInv, TypeOK
      <3>2. /\ call' = [call EXCEPT ![c].pc = "answered", ![c].answer = "tokens",
                                    ![c].ver = server[l].cur + 1]
            /\ \E spent : server' = [server EXCEPT ![l].cur = server[l].cur + 1,
                                                   ![l].spent = spent]
        BY <2>3, <3>1 DEF AnswerRefresh
      <3> HIDE DEF l, good
      <3>3. call'[c].answer = "tokens" /\ call'[c].ver = server[l].cur + 1
        BY <1>1, <3>2 DEF KeepInv, TypeInv, TypeOK, Call
      <3>4. /\ server'[l].cur = server[l].cur + 1 /\ server'[l].live = server[l].live
            /\ \A k \in Logins \ {l} : server'[k] = server[k]
        BY <3>1, <3>2 DEF KeepInv, TypeInv, TypeOK, Session
      <3> QED BY <2>3, <3>3, <3>4
    <2> QED BY <2>1, <2>2, <2>3
  <1> HIDE DEF l, v, good
  <1>4. Waits'
    BY <1>1, <1>2 DEF KeepInv, Waits
  <1>5. Flights'
    BY <1>1, <1>2 DEF KeepInv, Flights
  <1>6. Meetings'
    BY <1>1, <1>2, MeetingsFrame DEF KeepInv, Active
  <1>7. Undisturbed'
    BY <1>1, <1>2, UndisturbedOthers DEF KeepInv, Undisturbed, SignedIn
  <1>8. Kept'
    <2> SUFFICES ASSUME ~troubled', \A d \in Calls : ~Between(d)'
                 PROVE  StoreKept' /\ \A d \in Calls : RefreshKept(d)'
      BY DEF Kept
    <2>1. StoreKept /\ \A d \in Calls : RefreshKept(d)
      BY <1>1, <1>2 DEF KeepInv, Kept, Between
    <2>2. /\ l \in {0, expected} /\ ~Renewed(c)
          /\ l # 0 /\ Lives => good
      BY <1>1, <2>1 DEF RefreshKept, l, v, good, Renewed, Lives
    <2>3. CASE call'[c].answer # "tokens"
      <3>1. ~Renewed(c)' /\ server' = server
        BY <1>3, <2>3 DEF Renewed
      <3>2. RefreshKept(c)'
        BY <1>1, <1>2, <1>3, <2>2, <2>3, <3>1 DEF RefreshKept, Turned, Renewed, Lives
      <3> QED BY <1>1, <1>2, <2>1, <2>2, <3>1, <3>2, KeptFrame DEF Lives
    <2>4. CASE call'[c].answer = "tokens"
      <3>1. /\ l = expected /\ expected # 0 /\ Lives /\ good /\ Lives'
            /\ call'[c].ver = server'[expected].cur
        BY <1>1, <1>3, <2>2, <2>4 DEF good, Lives
      <3>2. Renewed(c)' /\ \A d \in Calls \ {c} : Renewed(d)' = Renewed(d)
        BY <1>2, <2>4 DEF Renewed
      <3>3. server'[expected].cur # 0
        BY <1>1, <1>3, <2>4, <3>1 DEF KeepInv, TypeInv, TypeOK, Session
      <3>4. StoreKept'
        BY <1>1, <2>1, <3>1, <3>2, <3>3 DEF StoreKept
      <3>5. \A d \in Calls : ~Turned(d)
        BY <2>1, <3>1 DEF RefreshKept, Turned
      <3>6. \A d \in Calls \ {c} : ~Renewed(d) /\ ~(call[d].op = "refresh" /\ call[d].pc = "sent")
                                   /\ ~(call[d].op = "refresh" /\ call[d].pc = "answered")
        <4> SUFFICES ASSUME NEW d \in Calls \ {c}, call[d].op = "refresh",
                            call[d].pc \in {"sent", "answered"}
                     PROVE  FALSE
          BY DEF Renewed
        <4>1. call[d].tab = call[c].tab
          BY <1>1 DEF KeepInv, Meetings, Overlap, Active
        <4> QED BY <1>1, <4>1 DEF KeepInv, Flights
      <3>7. RefreshKept(c)'
        BY <1>1, <1>2, <2>1, <2>4, <3>1 DEF RefreshKept, StoreKept, Turned, Renewed
      <3>8. ASSUME NEW d \in Calls \ {c} PROVE RefreshKept(d)'
        <4>1. ~Turned(d) /\ call'[d] = call[d]
          BY <1>2, <3>5
        <4> QED BY <1>1, <2>1, <3>6, <4>1 DEF RefreshKept, Turned, Renewed
      <3> QED BY <3>4, <3>7, <3>8
    <2> QED BY <2>3, <2>4
  <1>9. ProfileKept'
    BY <1>1, <1>2, ProfileFrame
  <1> QED BY <1>4, <1>5, <1>6, <1>7, <1>8, <1>9 DEF KeepInv

\* A step of one call that changes no storage and no number.
LEMMA KeepCall ==
    ASSUME KeepInv, TypeInv', NEW c \in Calls, Active(c), call[c].op # "profile",
           \A d \in Calls \ {c} : call'[d] = call[d],
           call'[c].op = call[c].op, call'[c].tab = call[c].tab, call'[c].met = call[c].met,
           troubled => troubled', UNCHANGED <<reuse, store, expected>>,
           \A l \in Logins : /\ server'[l].cur = server[l].cur
                             /\ server'[l].spent = server[l].spent
                             /\ server'[l].live => server[l].live,
           Waits', Flights', ~Between(c), ~Between(c)', ~SignedIn(c)', ~Renewed(c)',
           ~troubled' => ~Renewed(c),
           ~troubled' /\ StoreKept /\ RefreshKept(c) => RefreshKept(c)'
    PROVE  KeepInv'
  <1>1. Meetings'
    BY MeetingsFrame DEF KeepInv, Active
  <1>2. Undisturbed'
    <2> SUFFICES ASSUME NEW d \in Calls, ~call'[d].met
                 PROVE  /\ SignedIn(d)'
                           => /\ call'[d].login \in Logins /\ call'[d].ver = 1
                              /\ server'[call'[d].login].cur = 1
                        /\ call'[d].pc = "user"
                             => /\ call'[d].answer = "tokens"
                                /\ store'.login = call'[d].login /\ store'.ver = 1
                        /\ call'[d].pc = "again" /\ call'[d].op = "logout" => store' = Nothing
      BY DEF Undisturbed
    <2>1. CASE d = c
      BY <2>1 DEF Between
    <2>2. CASE d # c
      BY <2>2 DEF KeepInv, Undisturbed, SignedIn
    <2> QED BY <2>1, <2>2
  <1>3. Kept'
    <2> SUFFICES ASSUME ~troubled', \A d \in Calls : ~Between(d)'
                 PROVE  StoreKept' /\ \A d \in Calls : RefreshKept(d)'
      BY DEF Kept
    <2>1. StoreKept /\ \A d \in Calls : RefreshKept(d)
      BY DEF KeepInv, Kept, Between
    <2>2. (Lives' => Lives) /\ (expected # 0 => expected \in Logins)
      BY DEF Lives, KeepInv, TypeInv, TypeOK
    <2> QED BY <2>1, <2>2, KeptFrame
  <1>4. ProfileKept'
    BY ProfileFrame
  <1> QED BY <1>1, <1>2, <1>3, <1>4 DEF KeepInv

LEMMA KeepAnswerLogout ==
    ASSUME KeepInv, TypeInv', NEW c \in Calls, AnswerLogout(c)
    PROVE  KeepInv'
  <1>1. /\ call[c].pc = "logout" /\ call[c].op = "logout" /\ Active(c)
        /\ UNCHANGED <<reuse, store, tab, troubled, expected>>
    BY DEF AnswerLogout, KeepInv, Waits, Active
  <1>2. /\ call'[c].pc = "clear" /\ call'[c].op = call[c].op /\ call'[c].tab = call[c].tab
        /\ call'[c].met = call[c].met /\ \A d \in Calls \ {c} : call'[d] = call[d]
    BY DEF AnswerLogout, KeepInv, TypeInv, TypeOK, Call
  <1>3. \A l \in Logins : /\ server'[l].cur = server[l].cur
                          /\ server'[l].spent = server[l].spent
                          /\ server'[l].live => server[l].live
    <2>1. server' = server \/ server' = [server EXCEPT ![call[c].login].live = FALSE]
      BY DEF AnswerLogout
    <2> QED BY <2>1 DEF KeepInv, TypeInv, TypeOK, Session
  <1>4. Waits' /\ Flights'
    BY <1>1, <1>2 DEF KeepInv, Waits, Flights
  <1>5. ~Between(c) /\ ~Between(c)' /\ ~SignedIn(c)' /\ ~Renewed(c) /\ ~Renewed(c)'
        /\ RefreshKept(c)'
    BY <1>1, <1>2 DEF Between, SignedIn, Renewed, RefreshKept
  <1> QED BY <1>1, <1>2, <1>3, <1>4, <1>5, KeepCall

LEMMA KeepFail ==
    ASSUME KeepInv, TypeInv', NEW c \in Calls, Fail(c)
    PROVE  KeepInv'
  <1>1. /\ call[c].pc \in {"login", "sent", "answered"} /\ Active(c) /\ call[c].op # "profile"
        /\ troubled' = (troubled \/ call[c].pc = "answered")
        /\ UNCHANGED <<reuse, server, store, tab, expected>>
    BY DEF Fail, Active, KeepInv, Waits
  <1>2. /\ call'[c].pc = "answered" /\ call'[c].answer = "error"
        /\ call'[c].op = call[c].op /\ call'[c].tab = call[c].tab
        /\ call'[c].met = call[c].met /\ call'[c].login = call[c].login
        /\ \A d \in Calls \ {c} : call'[d] = call[d]
    BY DEF Fail, KeepInv, TypeInv, TypeOK, Call
  <1>3. Waits' /\ Flights'
    BY <1>1, <1>2 DEF KeepInv, Waits, Flights
  <1>4. ~Between(c) /\ ~Between(c)' /\ ~SignedIn(c)' /\ ~Renewed(c)'
        /\ (~troubled' => ~Renewed(c))
    BY <1>1, <1>2 DEF Between, SignedIn, Renewed
  <1>5. ~troubled' /\ RefreshKept(c) => RefreshKept(c)'
    BY <1>1, <1>2, <1>4 DEF KeepInv, Waits, RefreshKept, Turned
  <1> QED BY <1>1, <1>2, <1>3, <1>4, <1>5, KeepCall

LEMMA KeepReadBody ==
    ASSUME KeepInv, TypeInv', NEW c \in Calls, ReadBody(c)
    PROVE  KeepInv'
  <1>1. /\ call[c].pc = "read" /\ Active(c) /\ call[c].op = "refresh"
        /\ UNCHANGED <<reuse, server, store, tab, troubled, expected>>
    BY DEF ReadBody, Active, KeepInv, Waits
  <1>2. /\ call'[c].pc = "join" /\ call'[c].login = store.login
        /\ call'[c].op = call[c].op /\ call'[c].tab = call[c].tab
        /\ call'[c].met = call[c].met /\ \A d \in Calls \ {c} : call'[d] = call[d]
    BY DEF ReadBody, KeepInv, TypeInv, TypeOK, Call
  <1>3. Waits' /\ Flights'
    BY <1>1, <1>2 DEF KeepInv, Waits, Flights
  <1>4. ~Between(c) /\ ~Between(c)' /\ ~SignedIn(c)' /\ ~Renewed(c) /\ ~Renewed(c)'
    BY <1>1, <1>2 DEF Between, SignedIn, Renewed
  <1>5. StoreKept => RefreshKept(c)'
    BY <1>1, <1>2, <1>4 DEF RefreshKept, StoreKept, Turned
  <1> QED BY <1>1, <1>2, <1>3, <1>4, <1>5, KeepCall

\* refreshOnce: the flight is free when a request starts, and a body that is not stale is good.
LEMMA KeepRefreshOnce ==
    ASSUME KeepInv, TypeInv', NEW c \in Calls, refreshOnce(c)
    PROVE  KeepInv'
  <1>1. /\ call[c].pc = "join" /\ call[c].op = "refresh" /\ Active(c)
        /\ UNCHANGED <<reuse, server, store, expected>>
        /\ call[c].tab \in Tabs
    BY DEF refreshOnce, KeepInv, Waits, Active, TypeInv, Placed
  <1>2. PICK pc \in {"sent", "wait"} : call' = [call EXCEPT ![c].pc = pc]
    BY DEF refreshOnce
  <1>3. /\ call'[c].pc = pc /\ call'[c].login = call[c].login /\ call'[c].ver = call[c].ver
        /\ call'[c].op = call[c].op /\ call'[c].tab = call[c].tab
        /\ call'[c].met = call[c].met /\ \A d \in Calls \ {c} : call'[d] = call[d]
    BY <1>2 DEF KeepInv, TypeInv, TypeOK, Call
  <1>4. \/ /\ pc = "sent" /\ tab[call[c].tab].flight = None
           /\ tab' = [tab EXCEPT ![call[c].tab].flight = c]
           /\ troubled' = (troubled \/ Stale(c))
        \/ pc = "wait" /\ UNCHANGED <<tab, troubled>>
    BY <1>1, <1>3 DEF refreshOnce, KeepInv, TypeInv, TypeOK, Call
  <1>5. Waits'
    BY <1>1, <1>3 DEF KeepInv, Waits
  <1>6. Flights'
    <2>1. CASE pc = "wait" /\ UNCHANGED <<tab, troubled>>
      BY <1>1, <1>3, <2>1 DEF KeepInv, Flights
    <2>2. CASE /\ pc = "sent" /\ tab[call[c].tab].flight = None
               /\ tab' = [tab EXCEPT ![call[c].tab].flight = c]
      <3>1. tab'[call[c].tab].flight = c
            /\ \A t \in Tabs \ {call[c].tab} : tab'[t].flight = tab[t].flight
        BY <1>1, <2>2 DEF KeepInv, TypeInv, TypeOK, Tab
      <3> SUFFICES ASSUME NEW d \in Calls, call'[d].op = "refresh",
                          call'[d].pc \in {"sent", "answered"}
                   PROVE  tab'[call'[d].tab].flight = d
        BY DEF Flights
      <3>2. CASE d = c
        BY <1>3, <3>1, <3>2
      <3>3. CASE d # c
        <4>1. tab[call[d].tab].flight = d /\ call[d].tab \in Tabs
          BY <1>3, <3>3 DEF KeepInv, Flights, TypeInv, Placed, Active
        <4>2. call[d].tab # call[c].tab
          BY <2>2, <4>1, ClientAssumption
        <4> QED BY <1>3, <3>1, <3>3, <4>1, <4>2
      <3> QED BY <3>2, <3>3
    <2> QED BY <1>4, <2>1, <2>2
  <1>7. ~Between(c) /\ ~Between(c)' /\ ~SignedIn(c)' /\ ~Renewed(c) /\ ~Renewed(c)'
    BY <1>1, <1>3 DEF Between, SignedIn, Renewed
  <1>8. ASSUME ~troubled', StoreKept, RefreshKept(c)
        PROVE  RefreshKept(c)'
    <2>1. CASE pc = "wait"
      BY <1>1, <1>3, <1>7, <2>1 DEF RefreshKept, Turned
    <2>2. CASE pc = "sent"
      <3>1. ~Stale(c) /\ ~troubled /\ tab[call[c].tab].flight = None
        BY <1>4, <1>8, <2>2
      <3>2. ASSUME NEW d \in Calls, Renewed(d) PROVE FALSE
        <4>1. d # c /\ call[d].op = "refresh" /\ call[d].pc = "answered"
          BY <1>7, <3>2 DEF Renewed
        <4>2. call[d].tab = call[c].tab
          BY <1>1, <3>1, <4>1 DEF KeepInv, Meetings, Overlap, Active
        <4> QED BY <3>1, <4>1, <4>2, ClientAssumption DEF KeepInv, Flights
      <3>3. call[c].login # 0 /\ Lives
              => \/ call[c].ver = server[expected].cur
                 \/ reuse /\ call[c].ver \in server[expected].spent
        BY <1>1, <1>8, <3>1, <3>2 DEF Stale, StoreKept, RefreshKept
      <3>4. call[c].login \in {0, expected}
        BY <1>1, <1>8 DEF RefreshKept
      <3> QED BY <1>1, <1>3, <1>7, <2>2, <3>3, <3>4 DEF RefreshKept, Turned, Lives
    <2> QED BY <2>1, <2>2
  <1>9. troubled => troubled'
    BY <1>4
  <1> QED BY <1>1, <1>3, <1>5, <1>6, <1>7, <1>8, <1>9, KeepCall

\* A refresh ends for all who joined it: its tokens are stored, or they are sent to clear.
LEMMA KeepSettle ==
    ASSUME KeepInv, TypeInv', NEW c \in Calls, Settle(c)
    PROVE  KeepInv'
  <1>1. /\ call[c].pc = "answered" /\ call[c].op = "refresh" /\ Active(c)
        /\ UNCHANGED <<reuse, server, troubled, expected>>
        /\ call[c].tab \in Tabs /\ c \in Joined(c)
    BY DEF Settle, Active, KeepInv, TypeInv, Placed, Joined
  <1>2. /\ \A d \in Calls \ Joined(c) : call'[d] = call[d]
        /\ call[c].answer = "401" => \A d \in Joined(c) : call'[d] = [call[d] EXCEPT !.pc = "clear"]
        /\ call[c].answer # "401" => \A d \in Joined(c) : call'[d] = Idle
    BY DEF Settle, Joined
  <1>3. \A d \in Joined(c) : /\ call[d].op = "refresh" /\ call[d].tab = call[c].tab
                             /\ Active(d) /\ call[d] \in Call
    BY <1>1 DEF Joined, KeepInv, Waits, Active, TypeInv, TypeOK
  <1>4. \A d \in Calls : \/ d \notin Joined(c) /\ call'[d] = call[d]
                         \/ d \in Joined(c) /\ call'[d].pc = "idle" /\ call[c].answer # "401"
                         \/ /\ d \in Joined(c) /\ call[c].answer = "401"
                            /\ call'[d].pc = "clear" /\ call'[d].op = "refresh"
                            /\ call'[d].tab = call[d].tab /\ call'[d].met = call[d].met
    <2>1. \A d \in Joined(c) : /\ [call[d] EXCEPT !.pc = "clear"].pc = "clear"
                               /\ [call[d] EXCEPT !.pc = "clear"].op = "refresh"
                               /\ [call[d] EXCEPT !.pc = "clear"].tab = call[d].tab
                               /\ [call[d] EXCEPT !.pc = "clear"].met = call[d].met
      BY <1>3 DEF Call
    <2>2. Idle.pc = "idle"
      BY DEF Idle
    <2>3. ASSUME NEW d \in Calls \ Joined(c) PROVE call'[d] = call[d]
      BY <1>2, <2>3
    <2>4. ASSUME NEW d \in Joined(c), call[c].answer = "401"
          PROVE  /\ call'[d].pc = "clear" /\ call'[d].op = "refresh"
                 /\ call'[d].tab = call[d].tab /\ call'[d].met = call[d].met
      <3>1. call'[d] = [call[d] EXCEPT !.pc = "clear"]
        BY <1>2, <2>4
      <3> QED BY <2>1, <3>1
    <2>5. ASSUME NEW d \in Joined(c), call[c].answer # "401"
          PROVE  call'[d].pc = "idle"
      <3>1. call'[d] = Idle
        BY <1>2, <2>5
      <3> QED BY <2>2, <3>1
    <2> QED BY <2>3, <2>4, <2>5
  <1>5. Waits'
    BY <1>4 DEF KeepInv, Waits
  <1>6. Flights'
    <2>1. ASSUME NEW t \in Tabs \ {call[c].tab} PROVE tab'[t].flight = tab[t].flight
      <3>1. Broadcast(call[c].tab)[t].flight = tab[t].flight
        BY DEF Broadcast, KeepInv, TypeInv, TypeOK, Tab
      <3>2. \/ tab' = [Broadcast(call[c].tab) EXCEPT ![call[c].tab].flight = None]
            \/ tab' = [tab EXCEPT ![call[c].tab].flight = None]
        BY DEF Settle
      <3>3. /\ Broadcast(call[c].tab) \in [Tabs -> Tab]
            /\ tab \in [Tabs -> Tab]
        BY <1>1, BroadcastType DEF KeepInv, TypeInv, TypeOK
      <3> QED BY <3>1, <3>2, <3>3
    <2>2. ASSUME NEW d \in Calls, call'[d].op = "refresh", call'[d].pc \in {"sent", "answered"}
          PROVE  tab'[call'[d].tab].flight = d
      <3>1. d # c /\ call'[d] = call[d]
        BY <1>1, <1>4, <2>2
      <3>2. tab[call[d].tab].flight = d /\ tab[call[c].tab].flight = c /\ call[d].tab \in Tabs
        BY <1>1, <2>2, <3>1 DEF KeepInv, Flights, TypeInv, Placed, Active
      <3> QED BY <2>1, <3>1, <3>2
    <2> QED BY <2>2 DEF Flights
  <1>7. Meetings'
    <2>1. \A d \in Calls : \/ call'[d].pc = "idle" \/ call'[d] = call[d]
                           \/ /\ Active(d) /\ call'[d].op = call[d].op
                              /\ call'[d].tab = call[d].tab /\ call'[d].met = call[d].met
      BY <1>3, <1>4
    <2> QED BY <1>1, <2>1, MeetingsFrame DEF KeepInv, Active
  <1>8. Undisturbed'
    <2> SUFFICES ASSUME NEW d \in Calls, ~call'[d].met
                 PROVE  /\ ~SignedIn(d)' /\ call'[d].pc # "user"
                        /\ ~(call'[d].pc = "again" /\ call'[d].op = "logout")
      BY DEF Undisturbed
    <2>1. CASE d \in Joined(c)
      BY <1>4, <2>1 DEF SignedIn
    <2>2. CASE d \notin Joined(c)
      BY <1>1, <1>4, <2>2, Unmet DEF KeepInv, Waits, SignedIn, Active
    <2> QED BY <2>1, <2>2
  <1>9. Kept'
    <2> SUFFICES ASSUME ~troubled', \A d \in Calls : ~Between(d)'
                 PROVE  StoreKept' /\ \A d \in Calls : RefreshKept(d)'
      BY DEF Kept
    <2>1. \A d \in Calls : ~Between(d)
      BY <1>1, <1>3, <1>4 DEF Between, KeepInv, Waits
    <2>2. StoreKept /\ \A d \in Calls : RefreshKept(d)
      BY <1>1, <2>1 DEF KeepInv, Kept
    <2>3. \A d \in Calls : ~Renewed(d)'
      <3> SUFFICES ASSUME NEW d \in Calls, Renewed(d)' PROVE FALSE
        OBVIOUS
      <3>1. call'[d] = call[d] /\ d # c /\ call[d].op = "refresh" /\ call[d].pc = "answered"
        BY <1>1, <1>4 DEF Renewed
      <3>2. call[d].tab = call[c].tab
        BY <1>1, <3>1 DEF KeepInv, Meetings, Overlap, Active
      <3> QED BY <1>1, <3>1, <3>2 DEF KeepInv, Flights
    <2>4. Lives' = Lives
      BY <1>1 DEF Lives
    <2>5. CASE call[c].answer = "tokens"
      <3>1. /\ store'.login = call[c].login /\ store'.ver = call[c].ver
            /\ store'.user = store.user
        BY <1>1, <2>5 DEF Settle, KeepInv, TypeInv, TypeOK, Store
      <3>2. /\ call[c].login = expected /\ expected # 0
            /\ call[c].ver = server[expected].cur /\ store.login = expected
            /\ Renewed(c)
        BY <1>1, <2>2, <2>5 DEF RefreshKept, Renewed
      <3>3. StoreKept'
        BY <1>1, <2>2, <2>4, <3>1, <3>2 DEF StoreKept
      <3>4. ASSUME NEW d \in Calls PROVE RefreshKept(d)'
        <4>1. CASE call'[d].pc = "idle"
          BY <4>1 DEF RefreshKept, Turned, Renewed
        <4>2. CASE call'[d] = call[d]
          <5>1. ~Turned(d)
            BY <2>2, <3>2 DEF RefreshKept, Turned
          <5> QED BY <1>1, <2>2, <2>3, <2>4, <4>2, <5>1 DEF RefreshKept, Turned
        <4> QED BY <1>4, <2>5, <4>1, <4>2
      <3> QED BY <3>3, <3>4
    <2>6. CASE call[c].answer # "tokens"
      <3>1. store' = store
        BY <2>6 DEF Settle
      <3>2. \A d \in Calls : ~Renewed(d)
        <4> SUFFICES ASSUME NEW d \in Calls, Renewed(d) PROVE FALSE
          OBVIOUS
        <4>1. d # c /\ call[d].op = "refresh" /\ call[d].pc = "answered"
          BY <2>6 DEF Renewed
        <4>2. call[d].tab = call[c].tab
          BY <1>1, <4>1 DEF KeepInv, Meetings, Overlap, Active
        <4> QED BY <1>1, <4>1, <4>2 DEF KeepInv, Flights
      <3>3. StoreKept'
        BY <1>1, <2>2, <2>4, <3>1, <3>2 DEF StoreKept
      <3>4. call[c].answer = "401" => ~Lives
        BY <1>1, <2>2 DEF RefreshKept
      <3>5. ASSUME NEW d \in Calls PROVE RefreshKept(d)'
        <4>1. CASE call'[d].pc = "idle"
          BY <4>1 DEF RefreshKept, Turned, Renewed
        <4>2. CASE call'[d] = call[d]
          <5>1. Turned(d)' = Turned(d)
            BY <4>2 DEF Turned
          <5> QED BY <1>1, <2>2, <2>3, <2>4, <3>1, <4>2, <5>1 DEF RefreshKept
        <4>3. CASE call'[d].pc = "clear" /\ call[c].answer = "401"
          BY <2>3, <2>4, <3>4, <4>3 DEF RefreshKept
        <4> QED BY <1>4, <4>1, <4>2, <4>3
      <3> QED BY <3>3, <3>5
    <2> QED BY <2>5, <2>6
  <1>10. ProfileKept'
    BY <1>1, <1>4, ProfileFrame
  <1> QED BY <1>5, <1>6, <1>7, <1>8, <1>9, <1>10 DEF KeepInv

\* handleAuthResponse stores the tokens of a login.
LEMMA KeepSetTokens ==
    ASSUME KeepInv, TypeInv', NEW c \in Calls, SetTokens(c)
    PROVE  KeepInv'
  <1>1. /\ call[c].pc = "answered" /\ call[c].op = "login" /\ Active(c)
        /\ UNCHANGED <<reuse, server, troubled, expected>>
        /\ call[c].tab \in Tabs
    BY DEF SetTokens, Active, KeepInv, TypeInv, Placed
  <1>2. \A d \in Calls \ {c} : call'[d] = call[d]
    BY DEF SetTokens, KeepInv, TypeInv, TypeOK
  <1>3. \A t \in Tabs : tab'[t].flight = tab[t].flight
    BY <1>1 DEF SetTokens, Broadcast, KeepInv, TypeInv, TypeOK, Tab
  <1>4. \/ /\ call[c].answer = "tokens"
           /\ store'.login = call[c].login /\ store'.ver = call[c].ver
           /\ call'[c].pc = "user" /\ call'[c].login = call[c].login
           /\ call'[c].ver = call[c].ver /\ call'[c].answer = "tokens"
           /\ call'[c].op = call[c].op /\ call'[c].tab = call[c].tab
           /\ call'[c].met = call[c].met
        \/ call[c].answer # "tokens" /\ call'[c].pc = "idle" /\ store' = store
    <2>1. call[c] \in Call /\ call \in [Calls -> Call] /\ store \in Store
      BY DEF KeepInv, TypeInv, TypeOK
    <2>2. CASE call[c].answer = "tokens"
      <3>1. /\ store' = [store EXCEPT !.login = call[c].login, !.ver = call[c].ver]
            /\ call' = [call EXCEPT ![c].pc = "user"]
        BY <2>2 DEF SetTokens
      <3> QED BY <2>1, <2>2, <3>1 DEF Call, Store
    <2>3. CASE call[c].answer # "tokens"
      BY <2>1, <2>3 DEF SetTokens, Idle
    <2> QED BY <2>2, <2>3
  <1>5. Waits'
    BY <1>1, <1>2, <1>4 DEF KeepInv, Waits
  <1>6. Flights'
    BY <1>1, <1>2, <1>3, <1>4 DEF KeepInv, Flights, TypeInv, Placed, Active
  <1>7. Meetings'
    BY <1>1, <1>2, <1>4, MeetingsFrame DEF KeepInv, Active
  <1>8. Undisturbed'
    <2>1. \A d \in Calls \ {c} : ~call'[d].met =>
             /\ ~SignedIn(d)' /\ call'[d].pc # "user"
             /\ ~(call'[d].pc = "again" /\ call'[d].op = "logout")
      BY <1>1, <1>2, UndisturbedOthers DEF KeepInv
    <2>2. call'[c].pc = "user" /\ ~call'[c].met =>
             /\ call'[c].login \in Logins /\ call'[c].ver = 1
             /\ server'[call'[c].login].cur = 1
             /\ call'[c].answer = "tokens"
             /\ store'.login = call'[c].login /\ store'.ver = 1
      BY <1>1, <1>4 DEF KeepInv, Undisturbed, SignedIn
    <2>3. call'[c].pc \in {"user", "idle"}
      BY <1>4
    <2> QED BY <2>1, <2>2, <2>3 DEF Undisturbed, SignedIn
  <1>9. Kept'
    <2> SUFFICES ASSUME ~troubled', \A d \in Calls : ~Between(d)'
                 PROVE  StoreKept' /\ \A d \in Calls : RefreshKept(d)'
      BY DEF Kept
    <2>1. call'[c].pc = "idle" /\ store' = store
      BY <1>4 DEF Between
    <2>2. StoreKept /\ \A d \in Calls : RefreshKept(d)
      BY <1>1, <1>2 DEF KeepInv, Kept, Between
    <2>3. ~Renewed(c) /\ ~Renewed(c)' /\ RefreshKept(c)'
      BY <1>1, <2>1 DEF Renewed, RefreshKept, Turned
    <2> QED BY <1>1, <1>2, <2>1, <2>2, <2>3, KeptFrame DEF Lives
  <1>10. ProfileKept'
    BY <1>1, <1>2, <1>4, ProfileFrame
  <1> QED BY <1>5, <1>6, <1>7, <1>8, <1>9, <1>10 DEF KeepInv

\* A login or a logout that has met nobody runs alone.
LEMMA Alone ==
    ASSUME Meetings, NEW c \in Calls, Active(c), ~call[c].met,
           call[c].op \notin {"refresh", "profile"}, NEW d \in Calls \ {c}
    PROVE  ~Active(d)
  BY DEF Meetings, Overlap

\* handleAuthResponse ends: the login is the one the user has completed.
LEMMA KeepSetUser ==
    ASSUME KeepInv, TypeInv', NEW c \in Calls, SetUser(c)
    PROVE  KeepInv'
  <1>1. /\ call[c].pc = "user" /\ call[c].op = "login" /\ Active(c)
        /\ UNCHANGED <<reuse, server>>
        /\ call[c].tab \in Tabs
    BY DEF SetUser, Active, KeepInv, Waits, TypeInv, Placed
  <1>2. /\ call'[c].pc = "idle" /\ \A d \in Calls \ {c} : call'[d] = call[d]
        /\ expected' = call[c].login /\ troubled' = (troubled /\ call[c].met)
        /\ store'.login = store.login /\ store'.ver = store.ver
        /\ store'.user.login = call[c].login
    BY DEF SetUser, Idle, KeepInv, TypeInv, TypeOK, Store
  <1>3. \A t \in Tabs : tab'[t].flight = tab[t].flight
    BY <1>1 DEF SetUser, KeepInv, TypeInv, TypeOK, Tab
  <1>4. Waits' /\ Flights'
    BY <1>1, <1>2, <1>3 DEF KeepInv, Waits, Flights, TypeInv, Placed, Active
  <1>5. Meetings'
    <2>1. CASE call[c].met
      BY <1>2, <2>1, MeetingsFrame DEF KeepInv, Active
    <2>2. CASE ~call[c].met
      <3>1. \A d \in Calls : call'[d].pc = "idle"
        BY <1>1, <1>2, <2>2, Alone DEF KeepInv, Active
      <3> QED BY <3>1 DEF Meetings, Overlap, Active
    <2> QED BY <2>1, <2>2, <1>1 DEF KeepInv, TypeInv, TypeOK, Call
  <1>6. Undisturbed'
    BY <1>1, <1>2, UndisturbedOthers DEF KeepInv, Undisturbed, SignedIn
  <1>7. Kept'
    <2> SUFFICES ASSUME ~troubled'
                 PROVE  StoreKept' /\ \A d \in Calls : RefreshKept(d)'
      BY DEF Kept
    <2>1. ~call[c].met
      BY <1>1, <1>2 DEF KeepInv, Meetings
    <2>2. \A d \in Calls : call'[d].pc = "idle"
      BY <1>1, <1>2, <2>1, Alone DEF KeepInv, Active
    <2>3. /\ call[c].login \in Logins /\ server[call[c].login].cur = 1
          /\ store.login = call[c].login /\ store.ver = 1
      BY <1>1, <2>1 DEF KeepInv, Undisturbed, SignedIn
    <2>4. call[c].login # 0
      BY <2>3 DEF Logins
    <2>5. StoreKept'
      BY <1>1, <1>2, <2>3, <2>4 DEF StoreKept
    <2>6. ASSUME NEW d \in Calls PROVE RefreshKept(d)'
      BY <2>2 DEF RefreshKept, Turned, Renewed
    <2> QED BY <2>5, <2>6
  <1>8. ProfileKept'
    <2>1. CASE call[c].met
      BY <1>1, <1>2, <2>1, ProfileFrame DEF KeepInv, Meetings
    <2>2. CASE ~call[c].met
      <3>1. \A d \in Calls : call'[d].pc = "idle"
        BY <1>1, <1>2, <2>2, Alone DEF KeepInv, Active
      <3> QED BY <3>1 DEF ProfileKept, Active
    <2> QED BY <2>1, <2>2
  <1> QED BY <1>4, <1>5, <1>6, <1>7, <1>8 DEF KeepInv

LEMMA KeepAnswerProfile ==
    ASSUME KeepInv, TypeInv', NEW c \in Calls, AnswerProfile(c)
    PROVE  KeepInv'
  <1>1. /\ call[c].pc = "profile" /\ call[c].op = "profile" /\ Active(c) /\ call[c] \in Call
        /\ UNCHANGED <<reuse, store, tab, troubled, expected>>
    BY DEF AnswerProfile, Active, KeepInv, Waits, TypeInv, TypeOK
  <1>2. /\ \A d \in Calls \ {c} : call'[d] = call[d]
        /\ \/ call'[c].pc = "idle" /\ call'[c].op = "login"
           \/ /\ call'[c].pc = "write" /\ call'[c].op = "profile" /\ call'[c].tab = call[c].tab
              /\ call'[c].met = call[c].met /\ call'[c].login = call[c].login
              /\ call[c].login # 0
    <2>1. \/ call' = [call EXCEPT ![c] = Idle]
          \/ /\ call[c].login # 0
             /\ \E e : call' = [call EXCEPT ![c].pc = "write", ![c].ver = e]
      BY DEF AnswerProfile
    <2>2. call \in [Calls -> Call]
      BY DEF KeepInv, TypeInv, TypeOK
    <2>3. CASE call' = [call EXCEPT ![c] = Idle]
      BY <2>2, <2>3 DEF Idle
    <2>4. CASE /\ call[c].login # 0
               /\ \E e : call' = [call EXCEPT ![c].pc = "write", ![c].ver = e]
      BY <1>1, <2>2, <2>4 DEF Call
    <2> QED BY <2>1, <2>3, <2>4
  <1>3. \A l \in Logins : /\ server'[l].cur = server[l].cur
                          /\ server'[l].spent = server[l].spent
                          /\ server'[l].live = server[l].live
    <2>1. CASE server' = server
      BY <2>1
    <2>2. CASE server' # server
      <3>1. PICK e : server' = [server EXCEPT ![call[c].login].edition = e]
        BY <2>2 DEF AnswerProfile
      <3>2. server \in [Logins -> Session]
        BY DEF KeepInv, TypeInv, TypeOK
      <3> QED BY <3>1, <3>2 DEF Session
    <2> QED BY <2>1, <2>2
  <1>4. Waits' /\ Flights'
    BY <1>1, <1>2 DEF KeepInv, Waits, Flights
  <1>5. Meetings'
    BY <1>1, <1>2, MeetingsFrame DEF KeepInv, Active
  <1>6. Undisturbed'
    BY <1>1, <1>2, <1>3, UndisturbedFrame DEF KeepInv
  <1>7. Kept'
    <2> SUFFICES ASSUME ~troubled', \A d \in Calls : ~Between(d)'
                 PROVE  StoreKept' /\ \A d \in Calls : RefreshKept(d)'
      BY DEF Kept
    <2>1. StoreKept /\ \A d \in Calls : RefreshKept(d)
      BY <1>1, <1>2 DEF KeepInv, Kept, Between
    <2>2. ~Renewed(c) /\ ~Renewed(c)' /\ RefreshKept(c)'
      BY <1>1, <1>2 DEF Renewed, RefreshKept
    <2>3. (expected # 0 => expected \in Logins) /\ (Lives' => Lives)
      BY <1>1, <1>3 DEF Lives, KeepInv, TypeInv, TypeOK
    <2> QED BY <1>1, <1>2, <1>3, <2>1, <2>2, <2>3, KeptFrame
  <1>8. ProfileKept'
    BY <1>1, <1>2 DEF KeepInv, ProfileKept, Active
  <1> QED BY <1>4, <1>5, <1>6, <1>7, <1>8 DEF KeepInv

\* A profile fetched without trouble is the stored user's.
LEMMA KeepSetProfile ==
    ASSUME KeepInv, TypeInv', NEW c \in Calls, SetProfile(c)
    PROVE  KeepInv'
  <1>1. /\ call[c].pc = "write" /\ call[c].op = "profile" /\ Active(c)
        /\ UNCHANGED <<reuse, server, troubled, expected>>
    BY DEF SetProfile, Active, KeepInv, Waits
  <1>2. /\ call'[c].pc = "idle" /\ call'[c].op = "login"
        /\ \A d \in Calls \ {c} : call'[d] = call[d]
        /\ store'.login = store.login /\ store'.ver = store.ver
        /\ store'.user.login = call[c].login
    BY DEF SetProfile, Idle, KeepInv, TypeInv, TypeOK, Store
  <1>3. \A t \in Tabs : tab'[t].flight = tab[t].flight
    BY DEF SetProfile, KeepInv, TypeInv, TypeOK, Tab
  <1>4. Waits' /\ Flights'
    BY <1>1, <1>2, <1>3 DEF KeepInv, Waits, Flights, TypeInv, Placed, Active
  <1>5. Meetings'
    BY <1>1, <1>2, MeetingsFrame DEF KeepInv, Active
  <1>6. Undisturbed'
    BY <1>1, <1>2, UndisturbedOthers DEF KeepInv, Undisturbed, SignedIn
  <1>7. Kept'
    <2> SUFFICES ASSUME ~troubled', \A d \in Calls : ~Between(d)'
                 PROVE  StoreKept' /\ \A d \in Calls : RefreshKept(d)'
      BY DEF Kept
    <2>1. StoreKept /\ \A d \in Calls : RefreshKept(d)
      BY <1>1, <1>2 DEF KeepInv, Kept, Between
    <2>2. call[c].login = store.login /\ store.login # 0
      BY <1>1 DEF KeepInv, ProfileKept
    <2>3. \A d \in Calls : Renewed(d)' = Renewed(d)
      BY <1>1, <1>2 DEF Renewed
    <2>4. Lives' = Lives
      BY <1>1 DEF Lives
    <2>5. StoreKept'
      <3> HIDE DEF Renewed, Lives
      <3> QED BY <1>1, <1>2, <2>1, <2>2, <2>3, <2>4 DEF StoreKept
    <2>6. ASSUME NEW d \in Calls PROVE RefreshKept(d)'
      <3>1. CASE d = c
        BY <1>2, <3>1 DEF RefreshKept
      <3>2. CASE d # c
        <4>1. Turned(d)' = Turned(d) /\ call'[d] = call[d]
          BY <1>2, <3>2 DEF Turned
        <4> HIDE DEF Renewed, Lives, Turned
        <4> QED BY <1>1, <1>2, <2>1, <2>3, <2>4, <4>1 DEF RefreshKept
      <3> QED BY <3>1, <3>2
    <2> QED BY <2>5, <2>6
  <1>8. ProfileKept'
    BY <1>1, <1>2 DEF KeepInv, ProfileKept, Active
  <1> QED BY <1>4, <1>5, <1>6, <1>7, <1>8 DEF KeepInv

\* clearAuthState empties the storage: of a session that is dead, or at the user's wish.
LEMMA KeepClear ==
    ASSUME KeepInv, TypeInv', NEW c \in Calls, ClearAuthState(c)
    PROVE  KeepInv'
  <1>1. /\ call[c].pc = "clear" /\ call[c].op \in {"refresh", "logout"} /\ Active(c)
        /\ UNCHANGED <<reuse, server, troubled, expected>>
        /\ call[c].tab \in Tabs /\ store' = Nothing
    BY DEF ClearAuthState, Active, KeepInv, Waits, TypeInv, Placed
  <1>2. /\ call'[c].pc = "again" /\ call'[c].op = call[c].op /\ call'[c].tab = call[c].tab
        /\ call'[c].met = call[c].met /\ \A d \in Calls \ {c} : call'[d] = call[d]
    BY DEF ClearAuthState, KeepInv, TypeInv, TypeOK, Call
  <1>3. \A t \in Tabs : tab'[t].flight = tab[t].flight
    <2> SUFFICES ASSUME NEW t \in Tabs PROVE tab'[t].flight = tab[t].flight
      OBVIOUS
    <2>1. Broadcast(call[c].tab)[t].flight = tab[t].flight
      BY DEF Broadcast, KeepInv, TypeInv, TypeOK, Tab
    <2>2. Broadcast(call[c].tab) \in [Tabs -> Tab]
      BY <1>1, BroadcastType DEF KeepInv, TypeInv
    <2>3. tab' = [Broadcast(call[c].tab) EXCEPT ![call[c].tab].user = Nobody]
      BY DEF ClearAuthState
    <2> QED BY <2>1, <2>2, <2>3 DEF Tab
  <1>4. Waits' /\ Flights'
    BY <1>1, <1>2, <1>3 DEF KeepInv, Waits, Flights, TypeInv, Placed, Active
  <1>5. Meetings'
    BY <1>1, <1>2, MeetingsFrame DEF KeepInv, Active
  <1>6. Undisturbed'
    BY <1>1, <1>2, UndisturbedOthers DEF KeepInv, Undisturbed, SignedIn
  <1>7. Kept'
    <2> SUFFICES ASSUME ~troubled', \A d \in Calls : ~Between(d)'
                 PROVE  StoreKept' /\ \A d \in Calls : RefreshKept(d)'
      BY DEF Kept
    <2>1. StoreKept /\ (\A d \in Calls : RefreshKept(d)) /\ call[c].op = "refresh"
      BY <1>1, <1>2 DEF KeepInv, Kept, Between, TypeInv, TypeOK, Call
    <2>2. ~Lives /\ \A d \in Calls : ~Renewed(d)
      BY <1>1, <2>1 DEF RefreshKept, Turned
    <2>3. ~Lives' /\ \A d \in Calls : ~Renewed(d)'
      BY <1>1, <1>2, <2>2 DEF Lives, Renewed
    <2>4. StoreKept'
      BY <1>1, <2>1, <2>3 DEF StoreKept, Nothing, Nobody
    <2>5. ASSUME NEW d \in Calls PROVE RefreshKept(d)'
      <3>1. CASE d = c
        BY <1>1, <1>2, <2>3, <3>1 DEF RefreshKept, Nothing
      <3>2. CASE d # c
        BY <1>1, <1>2, <2>1, <2>3, <3>2 DEF RefreshKept, Nothing
      <3> QED BY <3>1, <3>2
    <2> QED BY <2>4, <2>5
  <1>8. ProfileKept'
    BY <1>1, <1>2, ProfileFrame
  <1> QED BY <1>4, <1>5, <1>6, <1>7, <1>8 DEF KeepInv

\* The user is removed once more; a logout has ended what the user had completed.
LEMMA KeepRemoveUser ==
    ASSUME KeepInv, TypeInv', NEW c \in Calls, RemoveUser(c)
    PROVE  KeepInv'
  <1>1. /\ call[c].pc = "again" /\ call[c].op \in {"refresh", "logout"} /\ Active(c)
        /\ UNCHANGED <<reuse, server, tab>>
    BY DEF RemoveUser, Active, KeepInv, Waits, TypeInv, TypeOK, Call
  <1>2. /\ call'[c].pc = "idle" /\ \A d \in Calls \ {c} : call'[d] = call[d]
        /\ store' = [store EXCEPT !.user = Nobody]
        /\ expected' = IF call[c].op = "logout" THEN 0 ELSE expected
        /\ troubled' = (troubled /\ ~(call[c].op = "logout" /\ ~call[c].met))
    BY DEF RemoveUser, Idle, KeepInv, TypeInv, TypeOK
  <1>3. Waits' /\ Flights'
    BY <1>1, <1>2 DEF KeepInv, Waits, Flights
  <1>4. call[c].met \in BOOLEAN
    BY DEF KeepInv, TypeInv, TypeOK, Call
  <1>5. Meetings'
    <2>1. CASE call[c].met \/ call[c].op = "refresh"
      BY <1>1, <1>2, <2>1, MeetingsFrame DEF KeepInv, Active
    <2>2. CASE ~call[c].met /\ call[c].op = "logout"
      <3>1. \A d \in Calls : call'[d].pc = "idle"
        BY <1>1, <1>2, <2>2, Alone DEF KeepInv, Active
      <3> QED BY <3>1 DEF Meetings, Overlap, Active
    <2> QED BY <1>1, <1>4, <2>1, <2>2
  <1>6. Undisturbed'
    BY <1>1, <1>2, UndisturbedOthers DEF KeepInv, Undisturbed, SignedIn
  <1>7. Nothing = [Nothing EXCEPT !.user = Nobody]
    BY DEF Nothing
  <1>8. Kept'
    <2> SUFFICES ASSUME ~troubled', \A d \in Calls : ~Between(d)'
                 PROVE  StoreKept' /\ \A d \in Calls : RefreshKept(d)'
      BY DEF Kept
    <2>1. CASE call[c].op = "logout"
      <3>1. ~call[c].met
        BY <1>1, <1>2, <2>1 DEF KeepInv, Meetings
      <3>2. \A d \in Calls : call'[d].pc = "idle"
        BY <1>1, <1>2, <2>1, <3>1, Alone DEF KeepInv, Active
      <3>3. store' = Nothing
        BY <1>1, <1>2, <1>7, <2>1, <3>1 DEF KeepInv, Undisturbed
      <3>4. StoreKept'
        <4>1. expected' = 0 /\ ~Lives'
          BY <1>2, <2>1 DEF Lives
        <4>2. store'.login = 0 /\ store'.user.login = 0
          BY <3>3 DEF Nothing, Nobody
        <4> QED BY <3>3, <4>1, <4>2 DEF StoreKept
      <3>5. ASSUME NEW d \in Calls PROVE RefreshKept(d)'
        BY <3>2 DEF RefreshKept, Turned, Renewed
      <3> QED BY <3>4, <3>5
    <2>2. CASE call[c].op = "refresh"
      <3>1. StoreKept /\ \A d \in Calls : RefreshKept(d)
        BY <1>1, <1>2, <2>2 DEF KeepInv, Kept, Between
      <3>2. store = Nothing
        BY <1>1, <2>2, <3>1 DEF StoreKept, RefreshKept
      <3>3. UNCHANGED <<store, expected>>
        BY <1>2, <1>7, <2>2, <3>2
      <3>4. ~Renewed(c) /\ ~Renewed(c)' /\ RefreshKept(c)' /\ Lives' = Lives
        BY <1>1, <1>2, <3>3 DEF Renewed, RefreshKept, Turned, Lives
      <3> QED BY <1>1, <1>2, <3>1, <3>3, <3>4, KeptFrame
    <2> QED BY <1>1, <2>1, <2>2
  <1>9. ProfileKept'
    <2>1. CASE call[c].met \/ call[c].op = "refresh"
      BY <1>1, <1>2, <2>1, ProfileFrame
    <2>2. CASE ~call[c].met /\ call[c].op = "logout"
      <3>1. \A d \in Calls : call'[d].pc = "idle"
        BY <1>1, <1>2, <2>2, Alone DEF KeepInv, Active
      <3> QED BY <3>1 DEF ProfileKept, Active
    <2> QED BY <1>1, <1>4, <2>1, <2>2
  <1> QED BY <1>3, <1>5, <1>6, <1>8, <1>9 DEF KeepInv

\* No call moves and nothing is stored; a session may end, a tab may handle an event.
LEMMA KeepAround ==
    ASSUME KeepInv, TypeInv', UNCHANGED <<reuse, store, call, expected>>, troubled' = troubled,
           \A t \in Tabs : tab'[t].flight = tab[t].flight,
           \A l \in Logins : /\ server'[l].cur = server[l].cur
                             /\ server'[l].spent = server[l].spent
                             /\ server'[l].live => server[l].live
    PROVE  KeepInv'
  <1>1. Waits' /\ Flights'
    BY DEF KeepInv, Waits, Flights, TypeInv, Placed, Active
  <1>2. Meetings'
    BY DEF KeepInv, Meetings, Overlap, Active
  <1>3. Undisturbed'
    BY UndisturbedFrame DEF KeepInv
  <1>4. Kept'
    <2> SUFFICES ASSUME ~troubled', \A d \in Calls : ~Between(d)'
                 PROVE  StoreKept' /\ \A d \in Calls : RefreshKept(d)'
      BY DEF Kept
    <2>1. StoreKept /\ \A d \in Calls : RefreshKept(d)
      BY DEF KeepInv, Kept, Between
    <2>2. (expected # 0 => expected \in Logins) /\ (Lives' => Lives)
      BY DEF Lives, KeepInv, TypeInv, TypeOK
    <2>3. \A d \in Calls : Renewed(d)' = Renewed(d) /\ Turned(d)' = Turned(d)
      BY DEF Renewed, Turned
    <2>4. StoreKept'
      BY <2>1, <2>2, <2>3 DEF StoreKept, Lives
    <2>5. ASSUME NEW d \in Calls PROVE RefreshKept(d)'
      <3> HIDE DEF Renewed, Turned
      <3> QED BY <2>1, <2>2, <2>3 DEF RefreshKept, Lives
    <2> QED BY <2>4, <2>5
  <1>5. ProfileKept'
    BY DEF KeepInv, ProfileKept, Active
  <1> QED BY <1>1, <1>2, <1>3, <1>4, <1>5 DEF KeepInv

\* A page load drops the calls of its tab, which makes trouble if there are any.
LEMMA KeepReload ==
    ASSUME KeepInv, TypeInv', NEW t \in Tabs, Reload(t)
    PROVE  KeepInv'
  <1> DEFINE mine == {c \in Calls : Active(c) /\ call[c].tab = t}
  <1>1. /\ troubled' = (troubled \/ mine # {})
        /\ UNCHANGED <<reuse, server, store, expected>>
    BY DEF Reload
  <1>2. \A d \in Calls : \/ d \in mine /\ call'[d].pc = "idle"
                         \/ d \notin mine /\ call'[d] = call[d]
    <2>1. call' = [d \in Calls |-> IF d \in mine THEN Idle ELSE call[d]]
      BY DEF Reload
    <2>2. Idle.pc = "idle"
      BY DEF Idle
    <2> HIDE DEF mine
    <2> QED BY <2>1, <2>2
  <1>3. \A u \in Tabs \ {t} : tab'[u] = tab[u]
    BY DEF Reload
  <1>4. Waits'
    BY <1>2 DEF KeepInv, Waits
  <1>5. Flights'
    BY <1>2, <1>3 DEF KeepInv, Flights, TypeInv, Placed, Active
  <1>6. Meetings'
    BY <1>1, <1>2, MeetingsFrame DEF KeepInv, Active
  <1>7. Undisturbed'
    BY <1>1, <1>2, UndisturbedFrame DEF KeepInv
  <1>8. Kept'
    <2> SUFFICES ASSUME ~troubled', \A d \in Calls : ~Between(d)'
                 PROVE  StoreKept' /\ \A d \in Calls : RefreshKept(d)'
      BY DEF Kept
    <2>1. ~troubled /\ mine = {}
      BY <1>1
    <2>2. \A d \in Calls : call'[d] = call[d]
      BY <1>2, <2>1
    <2>3. StoreKept /\ \A d \in Calls : RefreshKept(d)
      BY <2>1, <2>2 DEF KeepInv, Kept, Between
    <2>4. \A d \in Calls : Renewed(d)' = Renewed(d) /\ Turned(d)' = Turned(d)
      BY <2>2 DEF Renewed, Turned
    <2>5. Lives' = Lives
      BY <1>1 DEF Lives
    <2>6. StoreKept'
      BY <1>1, <2>3, <2>4, <2>5 DEF StoreKept
    <2>7. ASSUME NEW d \in Calls PROVE RefreshKept(d)'
      BY <1>1, <2>2, <2>3, <2>4, <2>5 DEF RefreshKept
    <2> QED BY <2>6, <2>7
  <1>9. ProfileKept'
    BY <1>1, <1>2 DEF KeepInv, ProfileKept, Active
  <1> QED BY <1>4, <1>5, <1>6, <1>7, <1>8, <1>9 DEF KeepInv

(* Refreshes of one tab may overlap in any way: between calls, a login     *)
(* that was completed and whose session is alive is the one stored, with   *)
(* the server's current refresh token.  Inductive: a login or a logout     *)
(* that meets nobody finds what it has done undisturbed, a refresh that    *)
(* started from the stored token is answered for the completed login, only *)
(* a dead session turns it away, and a profile fetched beside nothing but  *)
(* others is the stored user's.                                            *)
THEOREM TheSessionIsKept == Spec => []RefreshesKeepTheSession
  <1>1. Init /\ TypeInv => KeepInv
    <2> SUFFICES ASSUME Init, TypeInv PROVE KeepInv
      OBVIOUS
    <2>1. \A c \in Calls : call[c].pc = "idle"
      BY DEF Init, Idle
    <2>2. Waits /\ Flights /\ Meetings /\ Undisturbed /\ ProfileKept
      BY <2>1 DEF Waits, Flights, Meetings, Overlap, Active, Undisturbed, SignedIn, ProfileKept
    <2>3. StoreKept
      <3>1. expected = 0 \/ expected \in Logins
        BY DEF TypeInv, TypeOK
      <3>2. expected # 0 => expected = 1 /\ server[expected].cur = 1
        BY <3>1 DEF Init
      <3>3. store = [login |-> expected, ver |-> expected,
                     user |-> [login |-> expected, edition |-> 0]]
        BY DEF Init
      <3> QED BY <3>2, <3>3 DEF StoreKept, Nothing, Nobody, Lives
    <2>4. \A c \in Calls : RefreshKept(c)
      BY <2>1 DEF RefreshKept, Turned, Renewed
    <2> QED BY <2>2, <2>3, <2>4 DEF KeepInv, Kept
  <1>2. KeepInv /\ TypeInv' /\ [Next]_vars => KeepInv'
    <2> SUFFICES ASSUME KeepInv, TypeInv', [Next]_vars PROVE KeepInv'
      OBVIOUS
    <2>1. ASSUME NEW c \in Calls, NEW t \in Tabs,
                 Login(c, t) \/ Refresh(c, t) \/ Logout(c, t) \/ Profile(c, t)
          PROVE  KeepInv'
      BY <2>1, KeepStart DEF Login, Refresh, Logout, Profile
    <2>2. ASSUME NEW t \in Tabs, ReadEvent(t) \/ TakeUser(t) PROVE KeepInv'
      <3>1. \A u \in Tabs : tab'[u].flight = tab[u].flight
        BY <2>2 DEF ReadEvent, TakeUser, KeepInv, TypeInv, TypeOK, Tab
      <3> QED BY <2>2, <3>1, KeepAround DEF ReadEvent, TakeUser
    <2>3. ASSUME NEW l \in Logins, RevokeSession(l) PROVE KeepInv'
      <3>1. \A k \in Logins : /\ server'[k].cur = server[k].cur
                              /\ server'[k].spent = server[k].spent
                              /\ server'[k].live => server[k].live
        BY <2>3 DEF RevokeSession, KeepInv, TypeInv, TypeOK, Session
      <3> QED BY <2>3, <3>1, KeepAround DEF RevokeSession
    <2>4. CASE UNCHANGED vars
      BY <2>4, KeepAround DEF vars
    <2> QED BY <2>1, <2>2, <2>3, <2>4, KeepAnswerLogin, KeepAnswerRefresh, KeepAnswerLogout,
               KeepAnswerProfile, KeepSetProfile, KeepFail, KeepReadBody, KeepRefreshOnce, KeepSettle, KeepSetTokens, KeepSetUser,
               KeepClear, KeepRemoveUser, KeepReload DEF Next
  <1>3. KeepInv => RefreshesKeepTheSession
    <2> SUFFICES ASSUME KeepInv, ~troubled, \A c \in Calls : ~Active(c)
                 PROVE  /\ store.login = store.user.login
                        /\ expected = 0 => store = Nothing
                        /\ expected # 0 /\ server[expected].live =>
                             store.login = expected /\ store.ver = server[expected].cur
      BY DEF RefreshesKeepTheSession
    <2>1. (\A c \in Calls : ~Between(c)) /\ (\A c \in Calls : ~Renewed(c))
      BY DEF Between, Renewed, Active
    <2>2. StoreKept
      BY <2>1 DEF KeepInv, Kept
    <2> QED BY <2>1, <2>2 DEF StoreKept, Lives
  <1> QED BY <1>1, <1>2, <1>3, TypeInvariant, PTL DEF Spec
=============================================================================
