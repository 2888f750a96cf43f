---------------------------- MODULE ClientTokens -----------------------------
(***************************************************************************)
(* The client SDK with JSON token delivery: NAuthClient and TokenManager   *)
(* in the tabs of one browser, over the storage the tabs share.  A call of *)
(* login, refreshTokens, logout, or getProfile or updateProfile is a       *)
(* process; every await of the code ends one of its steps.  Storage events *)
(* tell a tab that another wrote.  The server is what the SDK sees of it:  *)
(* sessions whose refresh token moves on, users whose profile changes,     *)
(* answers that are 401, another error, or never arrive.                   *)
(*                                                                         *)
(* A login is numbered; its user, its session and its tokens carry its     *)
(* number, 0 stands for none.  The edition of a user counts the changes of *)
(* its profile since the login.                                            *)
(***************************************************************************)
EXTENDS Integers, FiniteSets

CONSTANTS Tabs,       \* tabs of one browser
          Calls,      \* calls of the SDK, each run again once it has ended
          None,       \* no refresh in flight, no tab
          MaxStarts,  \* bound: calls started
          MaxFaults   \* bound: answers lost, refusals, revocations and reloads

ASSUME ClientAssumption == None \notin Calls \cup Tabs /\ MaxStarts \in Nat /\ MaxFaults \in Nat

VARIABLES reuse,      \* the server's jwt.refreshToken.reuseDetection
          server,     \* sessions: alive, number of the current token, tokens spent
          store,      \* the shared storage: tokens and user
          tab,        \* what each tab holds in memory, and its storage events
          call,       \* the calls' local state
          used,       \* starts and faults so far
          troubled,   \* calls overlapped or an answer was lost since the last solo call
          expected,   \* the login the user last completed and did not end
          missed      \* tabs that read the user while another call was writing it

vars == <<reuse, server, store, tab, call, used, troubled, expected, missed>>

Logins == 1..(MaxStarts + 1)

Session == [live : BOOLEAN, cur : Nat, spent : SUBSET Nat, edition : Nat]

User == [login : Logins \cup {0}, edition : Nat]

Nobody == [login |-> 0, edition |-> 0]
Unread == [login |-> -1, edition |-> 0]

Store == [login : Logins \cup {0}, ver : Nat, user : User]

Nothing == [login |-> 0, ver |-> 0, user |-> Nobody]

\* "reading" is the user a storage event has read and not yet put in place.
Tab == [user : User, flight : Calls \cup {None}, events : Nat, reading : User \cup {Unread}]

\* "ver" is a token's number, or the edition a profile was answered with.
Call == [pc : {"idle", "login", "read", "join", "sent", "wait", "answered", "user",
               "logout", "clear", "again", "profile", "write"},
         op : {"login", "refresh", "logout", "profile"}, tab : Tabs \cup {None},
         login : Logins \cup {0}, ver : Nat, answer : {"none", "tokens", "401", "error"}, met : BOOLEAN]

Active(c) == call[c].pc # "idle"

Idle == [pc |-> "idle", op |-> "login", tab |-> None, login |-> 0, ver |-> 0,
         answer |-> "none", met |-> FALSE]
-----------------------------------------------------------------------------
(* A browser nobody is signed in to, or one signed in for a while. *)
Init ==
    /\ reuse \in BOOLEAN
    /\ expected \in {0, 1}
    /\ server = [l \in Logins |-> [live |-> l = expected, spent |-> {}, edition |-> 0,
                                  cur |-> IF l = expected THEN 1 ELSE 0]]
    /\ store = [login |-> expected, ver |-> expected,
                user |-> [login |-> expected, edition |-> 0]]
    /\ tab = [t \in Tabs |-> [user |-> store.user, flight |-> None, events |-> 0,
                              reading |-> Unread]]
    /\ call = [c \in Calls |-> Idle]
    /\ used = [starts |-> 0, faults |-> 0]
    /\ troubled = FALSE
    /\ missed = {}

(* Calls in one tab that only refresh may overlap: refreshOnce is for      *)
(* that.  So may calls that only ask for a profile.                        *)
Meets(op, t, d) ==
    /\ Active(d)
    /\ ~(op = "refresh" /\ call[d].op = "refresh" /\ call[d].tab = t)
    /\ ~(op = "profile" /\ call[d].op = "profile")

Start(c, t, op, pc, login, ver) ==
    LET others == {d \in Calls : Meets(op, t, d)}
    IN  /\ ~Active(c)
        /\ used.starts < MaxStarts
        /\ used' = [used EXCEPT !.starts = @ + 1]
        /\ call' = [d \in Calls |->
             IF d = c THEN [pc |-> pc, op |-> op, tab |-> t, login |-> login, ver |-> ver,
                            answer |-> "none", met |-> others # {}]
             ELSE IF d \in others THEN [call[d] EXCEPT !.met = TRUE]
             ELSE call[d]]
        /\ troubled' = (troubled \/ others # {})

(* login: the request goes out; assertHasRefreshToken finds a refresh      *)
(* token; logout, getProfile and updateProfile put the stored access token *)
(* in their header.                                                        *)
Login(c, t) ==
    /\ Start(c, t, "login", "login", 0, 0)
    /\ UNCHANGED <<reuse, server, store, tab, expected, missed>>

Refresh(c, t) ==
    /\ store.login # 0
    /\ Start(c, t, "refresh", "read", 0, 0)
    /\ UNCHANGED <<reuse, server, store, tab, expected, missed>>

Logout(c, t) ==
    /\ Start(c, t, "logout", "logout", store.login, store.ver)
    /\ UNCHANGED <<reuse, server, store, tab, expected, missed>>

Profile(c, t) ==
    /\ Start(c, t, "profile", "profile", store.login, store.ver)
    /\ UNCHANGED <<reuse, server, store, tab, expected, missed>>
-----------------------------------------------------------------------------
(* The server, and the network between. *)

Fault == used.faults < MaxFaults /\ used' = [used EXCEPT !.faults = @ + 1]

AnswerLogin(c) ==
    /\ call[c].pc = "login"
    /\ \E l \in Logins :
         /\ server[l].cur = 0
         /\ \A k \in Logins : k < l => server[k].cur # 0
         /\ server' = [server EXCEPT ![l] = [live |-> TRUE, cur |-> 1, spent |-> {},
                                                 edition |-> 0]]
         /\ call' = [call EXCEPT ![c].pc = "answered", ![c].answer = "tokens",
                                 ![c].login = l, ![c].ver = 1]
    /\ UNCHANGED <<reuse, store, tab, used, troubled, expected, missed>>

(* refreshToken of the server: the current token of a live session is      *)
(* spent for the next one; with reuse detection a spent token of a live    *)
(* session yields the next one too; any other token is refused with 401.   *)
AnswerRefresh(c) ==
    /\ call[c].pc = "sent"
    /\ LET l == call[c].login
           s == server[l]
           v == call[c].ver
       IN  IF l = 0
             THEN /\ call' = [call EXCEPT ![c].pc = "answered", ![c].answer = "error"]
                  /\ UNCHANGED server
           ELSE IF s.live /\ (v = s.cur \/ (reuse /\ v \in s.spent))
             THEN /\ server' = [server EXCEPT ![l].cur = s.cur + 1,
                                  ![l].spent = IF v = s.cur THEN s.spent \cup {v} ELSE @]
                  /\ call' = [call EXCEPT ![c].pc = "answered", ![c].answer = "tokens",
                                          ![c].ver = s.cur + 1]
           ELSE /\ call' = [call EXCEPT ![c].pc = "answered", ![c].answer = "401"]
                /\ UNCHANGED server
    /\ UNCHANGED <<reuse, store, tab, used, troubled, expected, missed>>

(* The request fails: refused, or it or its answer is lost on the way.     *)
Fail(c) ==
    /\ call[c].pc \in {"login", "sent"} \/ (call[c].pc = "answered" /\ call[c].answer = "tokens")
    /\ Fault
    /\ call' = [call EXCEPT ![c].pc = "answered", ![c].answer = "error"]
    /\ troubled' = (troubled \/ call[c].pc = "answered")
    /\ UNCHANGED <<reuse, server, store, tab, expected, missed>>

(* logout ignores what becomes of its request. *)
AnswerLogout(c) ==
    /\ call[c].pc = "logout"
    /\ \/ /\ call[c].login # 0
          /\ server' = [server EXCEPT ![call[c].login].live = FALSE]
          /\ UNCHANGED used
       \/ /\ Fault
          /\ UNCHANGED server
       \/ /\ call[c].login = 0
          /\ UNCHANGED <<server, used>>
    /\ call' = [call EXCEPT ![c].pc = "clear"]
    /\ UNCHANGED <<reuse, store, tab, troubled, expected, missed>>

(* The profile of the user of a live session, with the change asked for or *)
(* made elsewhere meanwhile; without one the call fails and nothing else.  *)
AnswerProfile(c) ==
    LET l == call[c].login
    IN  /\ call[c].pc = "profile"
        /\ \/ /\ l # 0
              /\ server[l].live
              /\ \E e \in {server[l].edition, server[l].edition + 1} :
                   /\ server' = [server EXCEPT ![l].edition = e]
                   /\ call' = [call EXCEPT ![c].pc = "write", ![c].ver = e]
              /\ UNCHANGED used
           \/ /\ IF l # 0 /\ server[l].live THEN Fault ELSE UNCHANGED used
              /\ call' = [call EXCEPT ![c] = Idle]
              /\ UNCHANGED server
        /\ UNCHANGED <<reuse, store, tab, troubled, expected, missed>>

(* The session ends without this browser. *)
RevokeSession(l) ==
    /\ server[l].live
    /\ Fault
    /\ server' = [server EXCEPT ![l].live = FALSE]
    /\ UNCHANGED <<reuse, store, tab, call, troubled, expected, missed>>
-----------------------------------------------------------------------------
(* The body that is about to be sent has been superseded in the storage,   *)
(* and the server will not take it.                                        *)
Stale(c) ==
    LET l == call[c].login
    IN  /\ l # store.login \/ call[c].ver # store.ver
        /\ ~(reuse /\ l # 0 /\ call[c].ver \in server[l].spent)

(* refreshTokens: the body is read, then refreshOnce starts a request or   *)
(* joins the one this tab has in flight.                                   *)
ReadBody(c) ==
    /\ call[c].pc = "read"
    /\ call' = [call EXCEPT ![c].pc = "join", ![c].login = store.login, ![c].ver = store.ver]
    /\ UNCHANGED <<reuse, server, store, tab, used, troubled, expected, missed>>

\* Mutant: a request whether or not one is in flight.
refreshAlways(c) ==
    /\ call[c].pc = "join"
    /\ tab' = [tab EXCEPT ![call[c].tab].flight = c]
    /\ call' = [call EXCEPT ![c].pc = "sent"]
    /\ troubled' = (troubled \/ Stale(c))
    /\ UNCHANGED <<reuse, server, store, used, expected, missed>>

refreshOnce(c) ==
    LET t == call[c].tab
    IN  /\ call[c].pc = "join"
        /\ \/ /\ tab[t].flight = None
              /\ tab' = [tab EXCEPT ![t].flight = c]
              /\ call' = [call EXCEPT ![c].pc = "sent"]
              /\ troubled' = (troubled \/ Stale(c))
           \/ /\ tab[t].flight # None
              /\ call' = [call EXCEPT ![c].pc = "wait"]
              /\ UNCHANGED <<tab, troubled>>
        /\ UNCHANGED <<reuse, server, store, used, expected, missed>>

\* Mutant: nobody is told.
BroadcastNothing(t) == tab

(* broadcastStorage: the other tabs get a storage event. *)
Broadcast(t) == [u \in Tabs |-> IF u = t THEN tab[u] ELSE [tab[u] EXCEPT !.events = @ + 1]]

(* The calls that get the answer of c: itself and those that joined it. *)
Joined(c) == {c} \cup {d \in Calls : call[d].pc = "wait" /\ call[d].tab = call[c].tab}

Settle(c) ==
    LET t == call[c].tab
        After(told) == [told EXCEPT ![t].flight = None]
    IN  /\ call[c].pc = "answered"
        /\ call[c].op = "refresh"
        /\ \/ /\ call[c].answer = "tokens"
              /\ store' = [store EXCEPT !.login = call[c].login, !.ver = call[c].ver]
              /\ tab' = After(Broadcast(t))
           \/ /\ call[c].answer # "tokens"
              /\ tab' = After(tab)
              /\ UNCHANGED store
        /\ call' = [d \in Calls |->
             IF d \notin Joined(c) THEN call[d]
             ELSE IF call[c].answer = "401" THEN [call[d] EXCEPT !.pc = "clear"]
             ELSE Idle]
        /\ UNCHANGED <<reuse, server, used, troubled, expected, missed>>

(* handleAuthResponse of a login: setTokens with its broadcast, then       *)
(* setUser.  A challenge or an error leaves tokens and user alone.         *)
SetTokens(c) ==
    /\ call[c].pc = "answered"
    /\ call[c].op = "login"
    /\ \/ /\ call[c].answer = "tokens"
          /\ store' = [store EXCEPT !.login = call[c].login, !.ver = call[c].ver]
          /\ tab' = Broadcast(call[c].tab)
          /\ call' = [call EXCEPT ![c].pc = "user"]
       \/ /\ call[c].answer # "tokens"
          /\ call' = [call EXCEPT ![c] = Idle]
          /\ UNCHANGED <<store, tab>>
    /\ UNCHANGED <<reuse, server, used, troubled, expected, missed>>

(* Another call has told the tabs and has still to write the user. *)
Writing(c) == \E d \in Calls \ {c} : call[d].pc \in {"user", "again"}

(* Tab t takes over a user: in step unless somebody is about to write. *)
Synced(t, c) ==
    IF Writing(c) \/ (c # None /\ tab[t].reading # Unread) THEN missed \cup {t} ELSE missed \ {t}

SetUser(c) ==
    /\ call[c].pc = "user"
    /\ store' = [store EXCEPT !.user = [login |-> call[c].login, edition |-> 0]]
    /\ tab' = [tab EXCEPT ![call[c].tab].user = store'.user]
    /\ call' = [call EXCEPT ![c] = Idle]
    /\ expected' = call[c].login
    /\ troubled' = (troubled /\ call[c].met)
    /\ missed' = Synced(call[c].tab, c)
    /\ UNCHANGED <<reuse, server, used>>

(* getProfile and updateProfile end with setUser as well: whatever has     *)
(* become of the session, and with nobody told.                            *)
SetProfile(c) ==
    LET t == call[c].tab
        u == [login |-> call[c].login, edition |-> call[c].ver]
    IN  /\ call[c].pc = "write"
        /\ store' = [store EXCEPT !.user = u]
        /\ tab' = [tab EXCEPT ![t].user = u]
        /\ call' = [call EXCEPT ![c] = Idle]
        /\ missed' = Synced(t, c) \cup (IF store.user = u THEN {} ELSE Tabs \ {t})
        /\ UNCHANGED <<reuse, server, used, troubled, expected>>

(* clearAuthState: the user in memory, tokens and user in the storage, the *)
(* other tabs told; then the stored user once more.                        *)
ClearAuthState(c) ==
    LET t == call[c].tab
    IN  /\ call[c].pc = "clear"
        /\ store' = Nothing
        /\ tab' = [Broadcast(t) EXCEPT ![t].user = Nobody]
        /\ call' = [call EXCEPT ![c].pc = "again"]
        /\ missed' = Synced(t, c)
        /\ UNCHANGED <<reuse, server, used, troubled, expected>>

RemoveUser(c) ==
    /\ call[c].pc = "again"
    /\ store' = [store EXCEPT !.user = Nobody]
    /\ call' = [call EXCEPT ![c] = Idle]
    /\ expected' = IF call[c].op = "logout" THEN 0 ELSE expected
    /\ troubled' = (troubled /\ ~(call[c].op = "logout" /\ ~call[c].met))
    /\ UNCHANGED <<reuse, server, tab, used, missed>>
-----------------------------------------------------------------------------
\* Mutant: the handler runs unasked.
ReadUnasked(t) ==
    /\ tab[t].reading = Unread
    /\ tab' = [tab EXCEPT ![t].events = @ - 1, ![t].reading = store.user]
    /\ missed' = Synced(t, None)
    /\ UNCHANGED <<reuse, server, store, call, used, troubled, expected>>

(* handleStorageEvent: the stored user is read and put in place. *)
ReadEvent(t) ==
    /\ tab[t].events > 0
    /\ tab[t].reading = Unread
    /\ tab' = [tab EXCEPT ![t].events = @ - 1, ![t].reading = store.user]
    /\ missed' = Synced(t, None)
    /\ UNCHANGED <<reuse, server, store, call, used, troubled, expected>>

TakeUser(t) ==
    /\ tab[t].reading # Unread
    /\ tab' = [tab EXCEPT ![t].user = tab[t].reading, ![t].reading = Unread]
    /\ UNCHANGED <<reuse, server, store, call, used, troubled, expected, missed>>

(* A page load: what the tab was doing is gone, initialize reads the user. *)
Reload(t) ==
    LET mine == {c \in Calls : Active(c) /\ call[c].tab = t}
    IN  /\ Fault
        /\ tab' = [tab EXCEPT ![t] = [user |-> store.user, flight |-> None, events |-> 0,
                                      reading |-> Unread]]
        /\ call' = [c \in Calls |-> IF c \in mine THEN Idle ELSE call[c]]
        /\ missed' = IF \E d \in Calls \ mine : call[d].pc \in {"user", "again"}
                       THEN missed \cup {t} ELSE missed \ {t}
        /\ troubled' = (troubled \/ mine # {})
        /\ UNCHANGED <<reuse, server, store, expected>>
-----------------------------------------------------------------------------
Next ==
    \/ \E c \in Calls, t \in Tabs : Login(c, t) \/ Refresh(c, t) \/ Logout(c, t) \/ Profile(c, t)
    \/ \E c \in Calls : \/ AnswerLogin(c) \/ AnswerRefresh(c) \/ AnswerLogout(c)
                        \/ AnswerProfile(c) \/ Fail(c)
                        \/ ReadBody(c) \/ refreshOnce(c) \/ Settle(c) \/ SetTokens(c)
                        \/ SetUser(c) \/ SetProfile(c) \/ ClearAuthState(c) \/ RemoveUser(c)
    \/ \E t \in Tabs : ReadEvent(t) \/ TakeUser(t) \/ Reload(t)
    \/ \E l \in Logins : RevokeSession(l)

Spec == Init /\ [][Next]_vars
-----------------------------------------------------------------------------
(* Every variable has its type. *)
TypeOK ==
    /\ reuse \in BOOLEAN
    /\ server \in [Logins -> Session]
    /\ store \in Store
    /\ tab \in [Tabs -> Tab]
    /\ call \in [Calls -> Call]
    /\ used \in [starts : Nat, faults : Nat]
    /\ troubled \in BOOLEAN
    /\ expected \in Logins \cup {0}
    /\ missed \subseteq Tabs

(* Refreshes of one tab may overlap in any way: between calls, tokens and  *)
(* user are of one login; a login that was completed and not ended, and    *)
(* whose session is alive, is still the one stored, with the server's      *)
(* current refresh token; after a logout nothing is stored.  Refreshes of  *)
(* two tabs, anything that overlaps a login, a logout or a profile being   *)
(* fetched, lost answers and, without reuse detection, a body read before  *)
(* the token changed can break this, until a login or logout that nothing  *)
(* overlaps sets it right.                                                 *)
RefreshesKeepTheSession ==
    (troubled \/ \E c \in Calls : Active(c)) \/
        /\ store.login = store.user.login
        /\ expected = 0 => store = Nothing
        /\ expected # 0 /\ server[expected].live =>
             store.login = expected /\ store.ver = server[expected].cur

(* Once its storage events are handled, the user a tab shows is the stored *)
(* one, its profile included.  The exceptions are two and last until the   *)
(* tab reads the user again: it read the storage after another call had    *)
(* told the tabs and before that call wrote the user; or another tab has   *)
(* since stored a different user from a profile it fetched, which tells    *)
(* nobody.                                                                 *)
TabsAgree ==
    \A t \in Tabs : \/ tab[t].events > 0 \/ tab[t].reading # Unread \/ t \in missed
                    \/ tab[t].user = store.user

(* What the documentation shows of a login: once it is done and its event  *)
(* is handled, the other tab is signed in as well.  The code tells the     *)
(* tabs before the user is stored.                                         *)
BothTabsAuthenticated ==
    (\A c \in Calls : ~Active(c)) =>
        \A t \in Tabs : \/ tab[t].events > 0 \/ tab[t].reading # Unread
                        \/ tab[t].user.login = store.user.login
=============================================================================
