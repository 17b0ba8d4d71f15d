------------------------------ MODULE Sessions ------------------------------
(***************************************************************************)
(* Login, consent, logout and the login gate of the authorization endpoint *)
(* (internal/handler: authorize.go, login.go, auth.go, revoke.go; the      *)
(* decisions of internal/service/auth_service.go; the pages of web/).      *)
(*                                                                         *)
(* One browser: its tabs share one cookie and so one server-side session.  *)
(* A tab waits for its request and follows redirects by itself; every      *)
(* handler runs in a goroutine of its own.                                 *)
(*                                                                         *)
(* The session library is external.  A handler starts the session, gets    *)
(* and sets its values one at a time, and saves it.  Whether it works on   *)
(* the values every other request of the session works on too, or on a     *)
(* copy that Save writes back whole, the repository does not say: every    *)
(* behaviour has it the one way or the other throughout (sharing), and     *)
(* what is stated below holds both ways.                                   *)
(***************************************************************************)
EXTENDS Naturals

CONSTANTS
    Tab, User, NoUser,
    AuthorizeURI,   \* the authorization requests clients send the browser on
    NoURI,          \* no ReturnURI
    VerdictOf,      \* what Server.Authorize makes of each of them
    NoCode,         \* no code issued yet
    Deeds,          \* what the person at the browser may do
    MaxTime         \* bound: the clock stops at this second

ASSUME SessionsAssumption ==
    /\ NoUser \notin User
    /\ VerdictOf \in [AuthorizeURI -> {"granted", "returned", "refused"}]
    /\ MaxTime \in Nat

\* An authorization URL; a denial adds error=access_denied to its query.
URI == [request : AuthorizeURI, denied : BOOLEAN]

\* service.SessionData
SessionData ==
    [LoggedInUserID : User \cup {NoUser}, AuthTime : Nat, ReturnURI : URI \cup {NoURI}]
EmptySession == [LoggedInUserID |-> NoUser, AuthTime |-> 0, ReturnURI |-> NoURI]

\* At rest on a page, or waiting for a handler that is at this step.
Resting == {"away", "login", "auth", "client", "refused"}
Place == Resting \cup {"authorize", "saveReturn", "issue", "startLogin", "stampLogin",
                       "answerLogin", "startLogout", "saveLogout"}

\* A tab: where it is, the authorization URL it asks for, the user it names (the
\* one whose password was typed, or whom the handler found), the handler's copy.
TabState == [at : Place, uri : URI \cup {NoURI}, user : User \cup {NoUser}, data : SessionData]
AtRest(page) == [at |-> page, uri |-> NoURI, user |-> NoUser, data |-> EmptySession]
Asking(uri) == [AtRest("authorize") EXCEPT !.uri = uri]

VARIABLES
    now,
    sharing,  \* whether the requests of a session share its values; never changes
    session,  \* the browser's session on the server
    tab,
    code,     \* history: the latest code issued, with what it was issued for
    logins    \* history: who logged in when

vars == <<now, sharing, session, tab, code, logins>>

TypeOK ==
    /\ now \in Nat
    /\ sharing \in BOOLEAN
    /\ session \in SessionData
    /\ tab \in [Tab -> TabState]
    /\ code \in [uri : URI \cup {NoURI}, user : User \cup {NoUser}, authTime : Nat] \cup {NoCode}
    /\ logins \subseteq User \X Nat

\* The clock begins at 1: an AuthTime of 0 is none.
Init ==
    /\ now = 1
    /\ sharing \in BOOLEAN
    /\ session = EmptySession
    /\ tab = [t \in Tab |-> AtRest("away")]
    /\ code = NoCode /\ logins = {}

-----------------------------------------------------------------------------
(* Names ending in a _Fault are deliberately wrong variants of the definition *)
(* that follows them; nothing uses them but the mutants that show that the    *)
(* properties can fail.                                                       *)

\* What a handler gets its values from.
Values(t) == IF sharing THEN session ELSE tab[t].data

\* session.Start, and the handler's first Get or Set, which leaves these values.
Start(t, values, step) ==
    IF sharing
    THEN session' = values /\ tab' = [tab EXCEPT ![t].at = step]
    ELSE tab' = [tab EXCEPT ![t].at = step, ![t].data = values] /\ UNCHANGED session

\* The handler's last Set or Delete, then Save.
Save(values) == session' = values

Goto(t, state) == tab' = [tab EXCEPT ![t] = state]

LoggedInAs(values, user) == [values EXCEPT !.LoggedInUserID = user]

Stamped(values) == [values EXCEPT !.AuthTime = now]

UserDeleted_KeptFault(values) == [values EXCEPT !.ReturnURI = NoURI]
UserDeleted(values) == [values EXCEPT !.LoggedInUserID = NoUser]
ReturnDeleted(values) == [values EXCEPT !.ReturnURI = NoURI]

\* The fault begins a new session at the login gate.
Returning_ResetFault(values, uri) == [EmptySession EXCEPT !.ReturnURI = uri]
Returning(values, uri) == [values EXCEPT !.ReturnURI = uri]

-----------------------------------------------------------------------------
(* The person at the browser *)

Open(t) ==
    /\ tab[t].at \in Resting
    /\ \/ \E request \in AuthorizeURI :
             Goto(t, Asking([request |-> request, denied |-> FALSE]))
       \/ "browse" \in Deeds /\ \E page \in {"login", "auth"} : Goto(t, AtRest(page))
       \/ "logout" \in Deeds /\ Goto(t, AtRest("startLogout"))
    /\ UNCHANGED <<now, sharing, session, code, logins>>

SubmitLogin(t) ==
    \E user \in User :
        /\ tab[t].at = "login"
        /\ Goto(t, [AtRest("startLogin") EXCEPT !.user = user])
        /\ UNCHANGED <<now, sharing, session, code, logins>>

-----------------------------------------------------------------------------
(* GET /oauth/authorize *)

StartAuthorize(t) ==
    /\ tab[t].at = "authorize"
    /\ Goto(t, [tab[t] EXCEPT
           !.at = IF session.LoggedInUserID = NoUser THEN "saveReturn" ELSE "issue",
           !.user = session.LoggedInUserID,
           !.data = IF sharing THEN EmptySession ELSE session])
    /\ UNCHANGED <<now, sharing, session, code, logins>>

\* The login gate: remember the whole URL, an error in its query included.
SaveReturn(t) ==
    /\ tab[t].at = "saveReturn"
    /\ Save(Returning(Values(t), tab[t].uri))
    /\ Goto(t, AtRest("login"))
    /\ UNCHANGED <<now, sharing, code, logins>>

\* AuthTime is read, Server.Authorize issues the code and the browser is sent to
\* the client with it.  No one looks at an error in the URL.
Issue(t) ==
    /\ tab[t].at = "issue" /\ VerdictOf[tab[t].uri.request] = "granted"
    /\ code' = [uri |-> tab[t].uri, user |-> tab[t].user, authTime |-> Values(t).AuthTime]
    /\ Goto(t, AtRest("client"))
    /\ UNCHANGED <<now, sharing, session, logins>>

\* Scope, PKCE or response_type are refused at the client's redirect URI, an
\* unknown client or redirect URI on the spot; so is any request without a code
\* to be had, when the generator fails.
Refuse(t) ==
    /\ tab[t].at = "issue"
    /\ \/ VerdictOf[tab[t].uri.request] = "returned" /\ Goto(t, AtRest("client"))
       \/ VerdictOf[tab[t].uri.request] # "returned" /\ Goto(t, AtRest("refused"))
    /\ UNCHANGED <<now, sharing, session, code, logins>>

-----------------------------------------------------------------------------
(* POST /api/login with the right password, POST /api/auth, GET /logout *)

StartLogin(t) ==
    /\ tab[t].at = "startLogin"
    /\ Start(t, LoggedInAs(session, tab[t].user), "stampLogin")
    /\ UNCHANGED <<now, sharing, code, logins>>

StampLogin(t) ==
    /\ tab[t].at = "stampLogin"
    /\ Save(Stamped(Values(t)))
    /\ logins' = logins \cup {<<tab[t].user, now>>}
    /\ Goto(t, [tab[t] EXCEPT !.at = "answerLogin", !.user = NoUser])
    /\ UNCHANGED <<now, sharing, code>>

\* The page goes to the ReturnURI, or to the consent page without one.
AnswerLogin(t) ==
    /\ tab[t].at = "answerLogin"
    /\ Goto(t, IF Values(t).ReturnURI = NoURI THEN AtRest("auth")
                                              ELSE Asking(Values(t).ReturnURI))
    /\ UNCHANGED <<now, sharing, session, code, logins>>

\* ProcessAuthDecision follows one reading of the session and writes nothing.
\* The decision is about the ReturnURI, whatever the consent page showed.
Allow(t) ==
    /\ tab[t].at = "auth" /\ session.LoggedInUserID # NoUser
    /\ session.ReturnURI # NoURI
    /\ Goto(t, Asking(session.ReturnURI))
    /\ UNCHANGED <<now, sharing, session, code, logins>>

Deny(t) ==
    /\ tab[t].at = "auth" /\ session.LoggedInUserID # NoUser
    /\ \/ session.ReturnURI # NoURI /\ Goto(t, Asking([session.ReturnURI EXCEPT !.denied = TRUE]))
       \/ session.ReturnURI = NoURI /\ Goto(t, AtRest("login"))
    /\ UNCHANGED <<now, sharing, session, code, logins>>

StartLogout(t) ==
    /\ tab[t].at = "startLogout"
    /\ Start(t, UserDeleted(session), "saveLogout")
    /\ UNCHANGED <<now, sharing, code, logins>>

\* Then to the login page, or to a post_logout_redirect_uri a client registered.
SaveLogout(t) ==
    /\ tab[t].at = "saveLogout"
    /\ Save(ReturnDeleted(Values(t)))
    /\ \E page \in {"login", "client"} : Goto(t, AtRest(page))
    /\ UNCHANGED <<now, sharing, code, logins>>

-----------------------------------------------------------------------------

Tick ==
    /\ now < MaxTime
    /\ now' = now + 1
    /\ UNCHANGED <<sharing, session, tab, code, logins>>

Serve(t) ==
    \/ StartAuthorize(t) \/ SaveReturn(t) \/ Issue(t) \/ Refuse(t)
    \/ StartLogin(t) \/ StampLogin(t) \/ AnswerLogin(t)
    \/ StartLogout(t) \/ SaveLogout(t)

Person(t) == Open(t) \/ SubmitLogin(t) \/ Allow(t) \/ Deny(t)

Next == Tick \/ \E t \in Tab : Serve(t) \/ Person(t)

Spec == Init /\ [][Next]_vars

\* Handlers run to their end and tabs follow redirects; the person may stop.
FairSpec == Spec /\ \A t \in Tab : WF_vars(Serve(t))

-----------------------------------------------------------------------------
(* Properties *)

\* The session takes on a user only by that user's own login.  No handler that
\* started before a logout, or before another user's login, brings its user back
\* when it saves: not the login gate of another tab, not another logout
\* (authorize.go:44-45, login.go:61-64, revoke.go:64-68).
LogoutHolds ==
    [][session'.LoggedInUserID \in {session.LoggedInUserID, NoUser} \/
         \E t \in Tab : /\ StartLogin(t) \/ StampLogin(t)
                       /\ session'.LoggedInUserID = tab[t].user]_session

\* A login with a request waiting comes to the end of that request, at the client
\* or at a refusal, and not back to the login page, whatever the other tabs do at
\* the gate or with logins of their own (login.go:66-68, authorize.go:41-102).  Only
\* a logout can undo it and, if handlers work on copies, a gate that took its copy
\* before the login was saved and writes it back (authorize.go:44-45).
LoginStands ==
    session.LoggedInUserID # NoUser /\ (sharing \/ \A t \in Tab : tab[t].at # "saveReturn")
LoginReachesClient ==
    \A t \in Tab :
        tab[t].at = "answerLogin" /\ Values(t).ReturnURI # NoURI /\ LoginStands
            ~> tab[t].at \in {"client", "refused"} \/ \E u \in Tab : tab[u].at = "saveLogout"

-----------------------------------------------------------------------------
(* A claim of the documentation that the code does not keep *)

\* skill/SKILL.md:315: after a denial the frontend detects the error in the URL
\* and deals with it itself; so no code comes of a URL that carries a denial.
DenialRespected == code # NoCode => ~code.uri.denied

=============================================================================
