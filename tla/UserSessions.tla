----------------------------- MODULE UserSessions ------------------------------
(***************************************************************************)
(* Users and their sessions: logins by password and by Google, which run   *)
(* a transaction at a time, beside the CLI's changes of the users, logouts *)
(* and the passing of expires_at.                                          *)
(***************************************************************************)
EXTENDS Naturals, FiniteSets

CONSTANTS
    Users,
    Logins,     \* requests /login and /google
    Sessions    \* bound: sessions ever created

ASSUME UsersAssumption == Users # {}

VARIABLES
    users,      \* the rows of users
    session,    \* [Sessions -> user and state of the row]
    login,      \* [Logins -> next step and user]
    bereft,     \* history: logins whose user was dropped after it was found ...
    late        \* ... and the sessions they created for it

sessionVars == <<users, session, login, bereft, late>>

AnyUser == CHOOSE u \in Users : TRUE

SessionsTypeOK ==
    /\ users \subseteq Users
    /\ session \in [Sessions -> [user : Users, state : {"none", "active", "revoked", "expired", "dropped"}]]
    /\ login \in [Logins -> [pc : {"idle", "check", "insert"}, user : Users]]
    /\ bereft \subseteq Logins
    /\ late \subseteq {s \in Sessions : session[s].state # "none"}

SessionsInit ==
    /\ users = {}
    /\ session = [s \in Sessions |-> [user |-> AnyUser, state |-> "none"]]
    /\ login = [l \in Logins |-> [pc |-> "idle", user |-> AnyUser]]
    /\ bereft = {} /\ late = {}

SetLogin(l, pc, u) == login' = [login EXCEPT ![l] = [pc |-> pc, user |-> u]]

-----------------------------------------------------------------------------
(* The CLI *)

AddUser(u) ==
    /\ users' = users \cup {u}
    /\ UNCHANGED <<session, login, bereft, late>>

\* drop_user: the user and all of its sessions, in one transaction.
DropUser(u) ==
    /\ u \in users
    /\ users' = users \ {u}
    /\ session' = [s \in Sessions |-> IF session[s].user = u /\ session[s].state # "none"
                                      THEN [session[s] EXCEPT !.state = "dropped"] ELSE session[s]]
    /\ bereft' = bereft \cup {l \in Logins : login[l] = [pc |-> "insert", user |-> u]}
    /\ UNCHANGED <<login, late>>

-----------------------------------------------------------------------------
(* Logins *)

\* create_session: verify_password has found the user and the right password.
VerifyPassword(l) ==
    /\ login[l].pc = "idle"
    /\ \E u \in users : SetLogin(l, "check", u)
    /\ UNCHANGED <<users, session, bereft, late>>

\* create_external_session: ensure_external_user adds the user it does not find.
EnsureExternalUser(l) ==
    /\ login[l].pc = "idle"
    /\ \E u \in Users : users' = users \cup {u} /\ SetLogin(l, "check", u)
    /\ UNCHANGED <<session, bereft, late>>

\* Mutant: that the user was found or added just now is taken for enough.
CheckUserBlindly(l) ==
    /\ login[l].pc = "check"
    /\ SetLogin(l, "insert", login[l].user)
    /\ UNCHANGED <<users, session, bereft, late>>

\* create_session_for_user: the user is still known ...
CheckUser(l) ==
    /\ login[l].pc = "check"
    /\ SetLogin(l, IF login[l].user \in users THEN "insert" ELSE "idle", login[l].user)
    /\ UNCHANGED <<users, session, bereft, late>>

\* ... and in another transaction the session's row, under a fresh id.
InsertSession(l) ==
    \E s \in Sessions :
       /\ login[l].pc = "insert" /\ session[s].state = "none"
       /\ session' = [session EXCEPT ![s] = [user |-> login[l].user, state |-> "active"]]
       /\ SetLogin(l, "idle", login[l].user)
       /\ late' = IF l \in bereft /\ login[l].user \notin users THEN late \cup {s} ELSE late
       /\ bereft' = bereft \ {l}
       /\ UNCHANGED users

-----------------------------------------------------------------------------
(* The end of a session *)

\* require_active_session: neither unknown, revoked nor expired.
Accepted(s) == session[s].state = "active"

\* logout: authenticated, then revoke_session.
Logout(s) ==
    /\ Accepted(s)
    /\ session' = [session EXCEPT ![s].state = "revoked"]
    /\ UNCHANGED <<users, login, bereft, late>>

\* expires_at is over.
Expire(s) ==
    /\ Accepted(s)
    /\ session' = [session EXCEPT ![s].state = "expired"]
    /\ UNCHANGED <<users, login, bereft, late>>

SessionsNext ==
    \/ \E u \in Users : AddUser(u) \/ DropUser(u)
    \/ \E l \in Logins : \/ VerifyPassword(l) \/ EnsureExternalUser(l)
                         \/ CheckUser(l) \/ InsertSession(l)
    \/ \E s \in Sessions : Logout(s) \/ Expire(s)

SessionsSpec == SessionsInit /\ [][SessionsNext]_sessionVars

-----------------------------------------------------------------------------
(* Properties. *)

\* A session that is accepted has a user, whatever logins overlap with the CLI;
\* but for a user dropped between the last two transactions of the login, whose
\* session outlives it (repositories.py:600-628).
SessionHasUser ==
    \A s \in Sessions \ late : Accepted(s) => session[s].user \in users
=============================================================================
