--------------------------- MODULE SessionLineage ---------------------------
(***************************************************************************)
(* What refreshing promises about a login session, without the protocol:   *)
(* a session has one current refresh token, the token that replaces it is  *)
(* never older, a token is spent at most once while it is valid, and a     *)
(* revoked session stays revoked.  TokenRotation implements this.          *)
(***************************************************************************)
EXTENDS Integers

CONSTANTS Sessions,   \* login sessions (rows of nauth_sessions)
          Spenders    \* whoever may spend a token

VARIABLES current,    \* current[s]: the refresh token session s will match by hash
          revoked,    \* the revoked sessions
          spent       \* [token, by]: who exchanged which token before it expired

lineageVars == <<current, revoked, spent>>

LineageInit ==
    /\ \A s \in Sessions : current[s].sid = s
    /\ revoked = {}
    /\ spent = {}

\* A token nobody has spent is exchanged.
Spend(t, p) ==
    /\ ~ \E x \in spent : x.token = t
    /\ spent' = spent \cup {[token |-> t, by |-> p]}
    /\ UNCHANGED <<current, revoked>>

\* The session's token is replaced by one of the same session that is not older.
Renew(s) ==
    /\ current'[s].sid = s
    /\ current'[s].iat >= current[s].iat
    /\ \A other \in Sessions \ {s} : current'[other] = current[other]
    /\ UNCHANGED <<revoked, spent>>

\* Sessions are revoked, one or several at once, and for good.
Revoke ==
    /\ revoked \subseteq revoked'
    /\ UNCHANGED <<current, spent>>

LineageNext ==
    \/ \E p \in Spenders : \E x \in spent' : x.by = p /\ Spend(x.token, p)
    \/ \E s \in Sessions : Renew(s)
    \/ Revoke

LineageSpec == LineageInit /\ [][LineageNext]_lineageVars
=============================================================================
