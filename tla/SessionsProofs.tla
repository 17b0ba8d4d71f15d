--------------------------- MODULE SessionsProofs ---------------------------
(***************************************************************************)
(* LogoutHolds for any tabs, users and requests, whether handlers work on  *)
(* shared values or on copies of the session.                              *)
(*                                                                         *)
(* With shared values a handler sets what it sets and no more.  With       *)
(* copies it saves everything it started from, and what can break          *)
(* LogoutHolds is a copy of long ago; InFlight says what such a copy can   *)
(* hold: the login gate and logout hold no user, a login the user about to *)
(* be stamped.                                                             *)
(***************************************************************************)
EXTENDS Sessions, TLAPS

LoginNamesUser(t) == tab[t].at \in {"startLogin", "stampLogin"} => tab[t].user # NoUser

CopyNames(t) ==
    /\ tab[t].at \in {"saveReturn", "saveLogout"} => tab[t].data.LoggedInUserID = NoUser
    /\ tab[t].at = "stampLogin" => tab[t].data.LoggedInUserID = tab[t].user

InFlight(t) == LoginNamesUser(t) /\ (~sharing => CopyNames(t))

Inv == TypeOK /\ \A t \in Tab : InFlight(t)

-----------------------------------------------------------------------------

\* Every step keeps every variable in its range; a login that is under way has a
\* user to record (login.go:55-61).
LEMMA TypeInductive == TypeOK /\ (\A t \in Tab : LoginNamesUser(t)) /\ [Next]_vars => TypeOK'
<1> SUFFICES ASSUME TypeOK, \A t \in Tab : LoginNamesUser(t), [Next]_vars PROVE TypeOK'
    OBVIOUS
<1> USE SessionsAssumption DEF TypeOK
<1>1. /\ \A page \in Place : AtRest(page) \in TabState
      /\ \A uri \in URI \cup {NoURI} : Asking(uri) \in TabState
    BY DEF AtRest, Asking, TabState, SessionData, EmptySession, Place
<1>2. ASSUME NEW t \in Tab, NEW state \in TabState, Goto(t, state)
      PROVE  tab' \in [Tab -> TabState]
    BY <1>2 DEF Goto
<1>3. ASSUME NEW t \in Tab, NEW values \in SessionData, NEW step \in Place,
             Start(t, values, step)
      PROVE  session' \in SessionData /\ tab' \in [Tab -> TabState]
    BY <1>3 DEF Start, TabState
<1>4. \A t \in Tab : Values(t) \in SessionData /\ tab[t].uri \in URI \cup {NoURI}
                     /\ tab[t].user \in User \cup {NoUser}
    BY DEF Values, TabState
<1>5. ASSUME Tick PROVE TypeOK'
    BY <1>5 DEF Tick
<1>6. ASSUME UNCHANGED vars PROVE TypeOK'
    BY <1>6 DEF vars
<1>7. ASSUME NEW t \in Tab, Serve(t) PROVE TypeOK'
  <2>1. CASE StartAuthorize(t)
    <3> DEFINE state == [tab[t] EXCEPT
                 !.at = IF session.LoggedInUserID = NoUser THEN "saveReturn" ELSE "issue",
                 !.user = session.LoggedInUserID,
                 !.data = IF sharing THEN EmptySession ELSE session]
    <3>1. state.at \in Place /\ state.data \in SessionData
        BY SessionsAssumption DEF Place, Resting, SessionData, EmptySession, TabState
    <3>2. session.LoggedInUserID \in User \cup {NoUser}
        BY DEF SessionData
    <3>3. state \in TabState
        BY <3>1, <3>2 DEF TabState
    <3> QED BY <3>3, <1>2, <2>1 DEF StartAuthorize
  <2>2. CASE SaveReturn(t)
    <3>1. tab[t].uri \in URI \cup {NoURI} /\ Values(t) \in SessionData
        BY <1>4
    <3>2. session' \in SessionData
        BY <3>1, <2>2 DEF SaveReturn, Save, Returning, SessionData
    <3>3. tab' \in [Tab -> TabState]
        BY <2>2, <1>1, <1>2 DEF SaveReturn, Place, Resting
    <3> QED BY <3>2, <3>3, <2>2 DEF SaveReturn
  <2>3. CASE Issue(t)
    <3>1. Values(t).AuthTime \in Nat
        BY <1>4 DEF SessionData
    <3>2. tab' \in [Tab -> TabState]
        BY <2>3, <1>1, <1>2 DEF Issue, Place, Resting
    <3> QED BY <3>1, <3>2, <1>4, <2>3 DEF Issue
  <2>4. CASE StartLogin(t)
    <3>1. LoggedInAs(session, tab[t].user) \in SessionData
        BY <1>4 DEF LoggedInAs, SessionData
    <3> QED BY <3>1, <1>3, <2>4 DEF StartLogin, Place
  <2>5. CASE StampLogin(t)
    <3>1. session' \in SessionData
        BY <1>4, <2>5 DEF StampLogin, Save, Stamped, SessionData
    <3>2. tab' \in [Tab -> TabState]
        BY <2>5, <1>2 DEF StampLogin, TabState, Place
    <3>3. tab[t].user \in User
        BY <1>4, <2>5 DEF StampLogin, LoginNamesUser
    <3> QED BY <3>1, <3>2, <3>3, <2>5 DEF StampLogin
  <2>6. CASE AnswerLogin(t)
    <3>1. Values(t).ReturnURI \in URI \cup {NoURI}
        BY <1>4 DEF SessionData
    <3>2. tab' \in [Tab -> TabState]
        BY <3>1, <2>6, <1>1, <1>2 DEF AnswerLogin, Place, Resting
    <3> QED BY <3>2, <2>6 DEF AnswerLogin
  <2>7. CASE StartLogout(t)
    <3>1. UserDeleted(session) \in SessionData
        BY DEF UserDeleted, SessionData
    <3> QED BY <3>1, <1>3, <2>7 DEF StartLogout, Place
  <2>8. CASE SaveLogout(t)
    <3>1. session' \in SessionData
        BY <1>4, <2>8 DEF SaveLogout, Save, ReturnDeleted, SessionData
    <3>2. tab' \in [Tab -> TabState]
        BY <2>8, <1>1, <1>2 DEF SaveLogout, Place, Resting
    <3> QED BY <3>1, <3>2, <2>8 DEF SaveLogout
  <2>9. CASE Refuse(t)
    <3>1. tab' \in [Tab -> TabState]
        BY <2>9, <1>1, <1>2 DEF Refuse, Place, Resting
    <3> QED BY <3>1, <2>9 DEF Refuse
  <2> QED
    BY <1>7, <2>1, <2>2, <2>3, <2>4, <2>5, <2>6, <2>7, <2>8, <2>9 DEF Serve
<1>8. ASSUME NEW t \in Tab, Person(t) PROVE TypeOK'
  <2>1. CASE Open(t)
    <3>1. tab' \in [Tab -> TabState]
        BY <2>1, <1>1, <1>2 DEF Open, Place, Resting, URI
    <3> QED BY <3>1, <2>1 DEF Open
  <2>2. CASE SubmitLogin(t)
    <3>1. PICK user \in User : Goto(t, [AtRest("startLogin") EXCEPT !.user = user])
        BY <2>2 DEF SubmitLogin
    <3>2. [AtRest("startLogin") EXCEPT !.user = user] \in TabState
        BY DEF AtRest, TabState, SessionData, EmptySession, Place
    <3>3. tab' \in [Tab -> TabState]
        BY <3>1, <3>2, <1>2
    <3> QED BY <3>3, <2>2 DEF SubmitLogin
  <2>3. CASE Allow(t)
    <3>1. session.ReturnURI \in URI
        BY <2>3 DEF Allow, SessionData
    <3>2. tab' \in [Tab -> TabState]
        BY <3>1, <2>3, <1>1, <1>2 DEF Allow
    <3> QED BY <3>2, <2>3 DEF Allow
  <2>4. CASE Deny(t)
    <3>1. session.ReturnURI # NoURI => [session.ReturnURI EXCEPT !.denied = TRUE] \in URI
        BY DEF SessionData, URI
    <3>2. tab' \in [Tab -> TabState]
        BY <3>1, <2>4, <1>1, <1>2 DEF Deny, Place, Resting
    <3> QED BY <3>2, <2>4 DEF Deny
  <2> QED
    BY <1>8, <2>1, <2>2, <2>3, <2>4 DEF Person
<1> QED
    BY <1>5, <1>6, <1>7, <1>8 DEF Next

-----------------------------------------------------------------------------

\* No interleaving of handlers leaves a copy that names a user other than the one
\* about to log in (authorize.go:41-45, login.go:61-64, revoke.go:64-68).
LEMMA InFlightInductive == Inv /\ [Next]_vars => (\A t \in Tab : InFlight(t))'
<1> SUFFICES ASSUME Inv, [Next]_vars, NEW u \in Tab PROVE InFlight(u)'
    OBVIOUS
<1>1. /\ tab \in [Tab -> TabState] /\ session \in SessionData
      /\ \A t \in Tab : tab[t] \in TabState /\ InFlight(t)
    BY DEF Inv, TypeOK
<1>2. UNCHANGED sharing
    BY DEF Next, vars, Tick, Serve, Person, StartAuthorize, SaveReturn, Issue, Refuse, StartLogin,
           StampLogin, AnswerLogin, StartLogout, SaveLogout, Open, SubmitLogin, Allow, Deny
\* What another tab has in hand stays as it is.
<1>3. ASSUME tab'[u] = tab[u] PROVE InFlight(u)'
    BY <1>1, <1>2, <1>3 DEF InFlight, LoginNamesUser, CopyNames
<1>4. ASSUME NEW t \in Tab, NEW state, tab' = [tab EXCEPT ![t] = state],
             u # t \/ state.at \notin {"startLogin", "stampLogin", "saveReturn", "saveLogout"}
      PROVE  InFlight(u)'
    BY <1>1, <1>3, <1>4 DEF InFlight, LoginNamesUser, CopyNames
<1>5. /\ \A page \in Resting \cup {"startLogout"} : AtRest(page).at = page
      /\ \A uri : Asking(uri).at = "authorize"
    BY DEF AtRest, Asking
<1>6. CASE Tick \/ UNCHANGED vars
    BY <1>3, <1>6 DEF Tick, vars
<1>7. ASSUME NEW t \in Tab, Person(t) PROVE InFlight(u)'
  <2>1. CASE Open(t)
      BY <2>1, <1>4, <1>5 DEF Open, Goto, Resting
  <2>2. CASE SubmitLogin(t)
    <3>1. PICK user \in User : tab' = [tab EXCEPT ![t] = [AtRest("startLogin") EXCEPT !.user = user]]
        BY <2>2 DEF SubmitLogin, Goto
    <3> DEFINE state == [AtRest("startLogin") EXCEPT !.user = user]
    <3>2. state.at = "startLogin" /\ state.user # NoUser
        BY SessionsAssumption DEF AtRest
    <3> HIDE DEF state
    <3>3. CASE u = t
        BY <3>1, <3>2, <3>3, <1>1 DEF InFlight, LoginNamesUser, CopyNames, state
    <3> QED
        BY <3>1, <3>3, <1>4
  <2>3. CASE Allow(t)
      BY <2>3, <1>4, <1>5 DEF Allow, Goto
  <2>4. CASE Deny(t)
      BY <2>4, <1>4, <1>5 DEF Deny, Goto, Resting
  <2> QED
      BY <1>7, <2>1, <2>2, <2>3, <2>4 DEF Person
<1>8. ASSUME NEW t \in Tab, Serve(t) PROVE InFlight(u)'
  <2>1. CASE StartAuthorize(t)
    <3> DEFINE state == [tab[t] EXCEPT
                 !.at = IF session.LoggedInUserID = NoUser THEN "saveReturn" ELSE "issue",
                 !.user = session.LoggedInUserID,
                 !.data = IF sharing THEN EmptySession ELSE session]
    <3>1. tab' = [tab EXCEPT ![t] = state]
        BY <2>1 DEF StartAuthorize, Goto
    <3>2. /\ state.at \in {"saveReturn", "issue"}
          /\ ~sharing /\ state.at = "saveReturn" => state.data.LoggedInUserID = NoUser
        BY <1>1 DEF TabState
    <3> HIDE DEF state
    <3>3. CASE u = t
        BY <3>1, <3>2, <3>3, <1>1, <1>2 DEF InFlight, LoginNamesUser, CopyNames
    <3> QED
        BY <3>1, <3>3, <1>4
  <2>2. CASE SaveReturn(t) \/ SaveLogout(t)
      BY <2>2, <1>4, <1>5 DEF SaveReturn, SaveLogout, Goto, Resting
  <2>3. CASE Issue(t) \/ Refuse(t)
      BY <2>3, <1>4, <1>5 DEF Issue, Refuse, Goto, Resting
  <2>4. CASE StartLogin(t)
    <3>1. /\ tab'[t].at = "stampLogin" /\ tab'[t].user = tab[t].user
          /\ ~sharing => tab'[t].data.LoggedInUserID = tab[t].user
          /\ \A v \in Tab \ {t} : tab'[v] = tab[v]
        BY <2>4, <1>1 DEF StartLogin, Start, LoggedInAs, TabState, SessionData
    <3>2. tab[t].user # NoUser
        BY <2>4, <1>1 DEF StartLogin, InFlight, LoginNamesUser
    <3> QED
        BY <3>1, <3>2, <1>2, <1>3 DEF InFlight, LoginNamesUser, CopyNames
  <2>5. CASE StampLogin(t)
    <3>1. [tab[t] EXCEPT !.at = "answerLogin", !.user = NoUser].at = "answerLogin"
        BY <1>1 DEF TabState
    <3> QED
        BY <2>5, <3>1, <1>4 DEF StampLogin, Goto
  <2>6. CASE AnswerLogin(t)
      BY <2>6, <1>4, <1>5 DEF AnswerLogin, Goto, Resting
  <2>7. CASE StartLogout(t)
    <3>1. /\ tab'[t].at = "saveLogout"
          /\ ~sharing => tab'[t].data.LoggedInUserID = NoUser
          /\ \A v \in Tab \ {t} : tab'[v] = tab[v]
        BY <2>7, <1>1 DEF StartLogout, Start, UserDeleted, TabState, SessionData
    <3> QED
        BY <3>1, <1>2, <1>3 DEF InFlight, LoginNamesUser, CopyNames
  <2> QED
      BY <1>8, <2>1, <2>2, <2>3, <2>4, <2>5, <2>6, <2>7 DEF Serve
<1> QED
    BY <1>6, <1>7, <1>8 DEF Next

LEMMA SessionsInvariant == Spec => []Inv
<1>1. Init => Inv
    BY SessionsAssumption DEF Init, Inv, TypeOK, TabState, Place, Resting, AtRest, SessionData,
       EmptySession, InFlight, LoginNamesUser, CopyNames
<1>2. Inv /\ [Next]_vars => Inv'
    BY TypeInductive, InFlightInductive DEF Inv, InFlight
<1> QED
    BY <1>1, <1>2, PTL DEF Spec

\* No handler that started before a logout, or before another user's login,
\* brings its user back when it saves (authorize.go:44-45, login.go:61-64,
\* revoke.go:64-68), for any number of tabs and users.
THEOREM LogoutHoldsAlways == Spec => LogoutHolds
<1> DEFINE OnlyByLogin ==
        session'.LoggedInUserID \in {session.LoggedInUserID, NoUser} \/
          \E t \in Tab : /\ StartLogin(t) \/ StampLogin(t)
                        /\ session'.LoggedInUserID = tab[t].user
<1>1. Inv /\ [Next]_vars => [OnlyByLogin]_session
  <2> SUFFICES ASSUME Inv, Next, session' # session PROVE OnlyByLogin
      BY DEF vars
  <2>1. /\ session \in SessionData
        /\ \A t \in Tab : tab[t] \in TabState /\ InFlight(t)
      BY DEF Inv, TypeOK
  <2>2. PICK t \in Tab : SaveReturn(t) \/ StartLogin(t) \/ StampLogin(t) \/ StartLogout(t) \/ SaveLogout(t)
      BY DEF Next, Tick, Serve, Person, StartAuthorize, Issue, Refuse, AnswerLogin, Open, SubmitLogin,
             Allow, Deny
  <2>3. CASE SaveReturn(t)
      BY <2>1, <2>3 DEF SaveReturn, Save, Returning, Values, InFlight, CopyNames, SessionData, TabState
  <2>4. CASE StartLogin(t)
      BY <2>1, <2>4 DEF StartLogin, Start, LoggedInAs, SessionData
  <2>5. CASE StampLogin(t)
    <3>1. session'.LoggedInUserID = Values(t).LoggedInUserID
        BY <2>1, <2>5 DEF StampLogin, Save, Stamped, Values, SessionData, TabState
    <3> QED
        BY <2>1, <2>5, <3>1 DEF Values, InFlight, CopyNames, StampLogin
  <2>6. CASE StartLogout(t)
      BY <2>1, <2>6 DEF StartLogout, Start, UserDeleted, SessionData
  <2>7. CASE SaveLogout(t)
      BY <2>1, <2>7 DEF SaveLogout, Save, ReturnDeleted, Values, InFlight, CopyNames, SessionData, TabState
  <2> QED
      BY <2>2, <2>3, <2>4, <2>5, <2>6, <2>7
<1> QED
    BY <1>1, SessionsInvariant, PTL DEF Spec, LogoutHolds

=============================================================================
