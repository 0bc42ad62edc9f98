---------------------------- MODULE WebSession ----------------------------
(***************************************************************************)
(* One browser and its session: the tabs of the single page application    *)
(* with what each of them takes the user for, the session in Redis they    *)
(* share through its cookie, and the sign-in that puts it there.           *)
(* (src/src/http/controller/auth.controller.ts, src/src/http/middlewares.ts,*)
(* src/frontend/src/app: session.service.ts, guard/, api-status.interceptor)*)
(*                                                                         *)
(* Slack, Redis, express-session, the Angular router and rxjs are          *)
(* external.  A session is saved when a response ends; a guard takes the   *)
(* first value of user$; publishReplay(1) with refCount() replays the last *)
(* value or error, asks anew when someone subscribes after everybody had   *)
(* left, and an error is final.                                            *)
(***************************************************************************)
EXTENDS Naturals

CONSTANTS
  Tabs,       \* tabs of the browser
  MaxLogins,  \* ways to Slack and back (a bound)
  MaxErrors,  \* failures (a bound)
  WebFaults   \* the kinds of failure that may happen (a bound)

(* "slack": a call of Slack fails, "server": a request is answered 5xx,    *)
(* "expire": the session is gone from Redis.                               *)
WebFaultKinds == {"slack", "server", "expire"}

ASSUME WebSessionAssumption ==
  /\ MaxLogins \in Nat /\ MaxErrors \in Nat
  /\ WebFaults \subseteq WebFaultKinds

VARIABLES
  session,  \* the session of the cookie holds the user's id
  known,    \* the workspace and the user have their rows
  login,    \* how far a tab's GET /api/auth is
  isNew,    \* newWorkspace of that request
  tab,      \* the application in each tab
  logins, errors  \* so far

webVars == <<session, known, login, isNew, tab, logins, errors>>

Logins == {"no", "exchange", "profile", "sync"}

(* url: the page shown, "loading" before the first one, "away" outside of  *)
(* the application; target: where a navigation that waits for its guard    *)
(* goes; user: what user$ replays; ask: GET /api/auth/session; hidden: the *)
(* page gave way to the error text; timer: of a 403; logout: its request.  *)
Tab == [url : {"loading", "home", "about", "away"},
        target : {"home", "about", "none"},
        user : {"unknown", "user", "guest", "error"},
        ask : {"no", "sent", "user", "guest", "error"},
        hidden : BOOLEAN, timer : BOOLEAN,
        logout : {"no", "sent", "done", "error"}]

WebTypeOK ==
  /\ session \in BOOLEAN /\ known \in BOOLEAN
  /\ login \in [Tabs -> Logins] /\ isNew \in [Tabs -> BOOLEAN]
  /\ tab \in [Tabs -> Tab]
  /\ \A t \in Tabs : login[t] # "no" => tab[t].url = "away"
  /\ \A t \in Tabs : tab[t].hidden => tab[t].ask = "no"
  /\ logins \in 0 .. MaxLogins /\ errors \in 0 .. MaxErrors

Away == [url |-> "away", target |-> "none", user |-> "unknown", ask |-> "no",
         hidden |-> FALSE, timer |-> FALSE, logout |-> "no"]

(* The requests of AuthService.                                            *)
getSession(s) == [s EXCEPT !.ask = "sent"]
logout(s) == [s EXCEPT !.logout = "sent"]

(* The application starts: the menu and the guard subscribe to user$.      *)
Loaded(u) == getSession([Away EXCEPT !.url = "loading", !.target = u])

WebInit ==
  /\ session = FALSE /\ known \in BOOLEAN
  /\ login = [t \in Tabs |-> "no"] /\ isNew = [t \in Tabs |-> FALSE]
  /\ tab = [t \in Tabs |-> Away]
  /\ logins = 0 /\ errors = 0

Becomes(t, s) == tab' = [tab EXCEPT ![t] = s]

Fails(kind) ==
  /\ kind \in WebFaults /\ errors < MaxErrors
  /\ errors' = errors + 1

(* apiContextMiddleware: the user of the request.                          *)
SignedIn == session /\ known

-----------------------------------------------------------------------------
(* GET /api/auth                                                           *)

(* The tab goes to Slack and comes back, with a code or without; whoever   *)
(* is signed in by then is only redirected.                                *)
Login(t) ==
  /\ login[t] = "no" /\ logins < MaxLogins
  /\ logins' = logins + 1
  /\ \/ /\ SignedIn
        /\ Becomes(t, Loaded("home")) /\ UNCHANGED login
     \/ /\ ~SignedIn
        /\ Becomes(t, Away)
        /\ login' \in {login, [login EXCEPT ![t] = "exchange"]}
  /\ UNCHANGED <<session, known, isNew, errors>>

(* oauth.v2.access gives the token, and the workspace is looked up.        *)
Exchange(t) ==
  /\ login[t] = "exchange"
  /\ \/ /\ login' = [login EXCEPT ![t] = "profile"]
        /\ isNew' = [isNew EXCEPT ![t] = ~known]
        /\ UNCHANGED errors
     \/ /\ Fails("slack")
        /\ login' = [login EXCEPT ![t] = "no"]
        /\ UNCHANGED isNew
  /\ UNCHANGED <<session, known, tab, logins>>

(* The response ends: the session is saved, the browser follows.           *)
Respond(t) ==
  /\ session' = TRUE
  /\ login' = [login EXCEPT ![t] = "no"]

(* team.info and users.info have answered: both rows are stored, and an    *)
(* existing workspace is only synchronised after the redirect.             *)
Save(t) ==
  /\ login[t] = "profile"
  /\ isNew[t] => ~known
  /\ known' = TRUE
  /\ \/ /\ isNew[t]
        /\ login' = [login EXCEPT ![t] = "sync"]
        /\ UNCHANGED <<session, tab>>
     \/ /\ ~isNew[t]
        /\ Respond(t)
        /\ Becomes(t, Loaded("home"))
  /\ isNew' = [isNew EXCEPT ![t] = FALSE]
  /\ UNCHANGED <<logins, errors>>

(* Mutant: authenticate() before persistAndFlush().                        *)
SaveFailsSignedIn(t) ==
  /\ login[t] = "profile"
  /\ \/ isNew[t] /\ known /\ UNCHANGED errors
     \/ Fails("slack")
     \/ Fails("server")
  /\ Respond(t)
  /\ isNew' = [isNew EXCEPT ![t] = FALSE]
  /\ UNCHANGED <<known, tab, logins>>

(* A call of Slack or the flush fails, as that of a workspace does which   *)
(* another sign-in has inserted meanwhile.  No session is made.            *)
SaveFails(t) ==
  /\ login[t] = "profile"
  /\ \/ isNew[t] /\ known /\ UNCHANGED errors
     \/ Fails("slack")
     \/ Fails("server")
  /\ login' = [login EXCEPT ![t] = "no"]
  /\ isNew' = [isNew EXCEPT ![t] = FALSE]
  /\ UNCHANGED <<session, known, tab, logins>>

(* The first synchronisation of a new workspace; when it fails the answer  *)
(* is 502, and the user is signed in all the same.                         *)
Synced(t) ==
  /\ login[t] = "sync"
  /\ Respond(t)
  /\ \/ Becomes(t, Loaded("home")) /\ UNCHANGED errors
     \/ Fails("slack") /\ UNCHANGED tab
  /\ UNCHANGED <<known, isNew, logins>>

Expire ==
  /\ session
  /\ Fails("expire")
  /\ session' = FALSE
  /\ UNCHANGED <<known, login, isNew, tab, logins>>

-----------------------------------------------------------------------------
(* The application                                                         *)

InApp == UNCHANGED <<known, login, isNew, logins>>

Open(t, u) ==
  /\ login[t] = "no"
  /\ Becomes(t, Loaded(u))
  /\ InApp /\ UNCHANGED <<session, errors>>

(* A link or the history; the guard of the route decides later.            *)
Visit(t, u) ==
  /\ tab[t].url \in {"home", "about"} /\ tab[t].target = "none"
  /\ tab[t].url = "about" => u = "home"
  /\ Becomes(t, [tab[t] EXCEPT !.target = u])
  /\ InApp /\ UNCHANGED <<session, errors>>

(* AuthController.session                                                  *)
SessionReply(t) ==
  /\ tab[t].ask = "sent"
  /\ \/ /\ Becomes(t, [tab[t] EXCEPT !.ask = IF SignedIn THEN "user" ELSE "guest"])
        /\ UNCHANGED errors
     \/ /\ Fails("server")
        /\ Becomes(t, [tab[t] EXCEPT !.ask = "error"])
  /\ InApp /\ UNCHANGED session

(* The interceptor hides the page: what it showed unsubscribes from user$, *)
(* and that cancels the request for the session.                           *)
Hidden(s) == [s EXCEPT !.hidden = TRUE, !.ask = "no"]

SessionArrives(t) ==
  /\ tab[t].ask \in {"user", "guest", "error"}
  /\ Becomes(t,
       IF tab[t].ask = "error"
         THEN Hidden([tab[t] EXCEPT !.user = "error", !.target = "none"])
         ELSE [tab[t] EXCEPT !.user = tab[t].ask, !.ask = "no"])
  /\ InApp /\ UNCHANGED <<session, errors>>

(* The guards: '/' is for users, '/about' for guests.                      *)
Allowed(s) == IF s.user = "user" THEN "home" ELSE "about"

(* A navigation ends, if anywhere, on the page its guard allows.  It       *)
(* brings a hidden page back, which subscribes to user$: that replays and, *)
(* unless it has failed, asks again.  Of the pages of a user, which are    *)
(* all "home", '/' is the one a guest's page redirects to.                 *)
Route(t) ==
  /\ tab[t].target # "none" /\ tab[t].user # "unknown"
  /\ LET s == [tab[t] EXCEPT !.target = "none"]
         shown == [s EXCEPT !.url = Allowed(s), !.hidden = FALSE]
         ended == IF s.hidden THEN getSession(shown) ELSE shown
         stays == \/ s.user = "error"
                  \/ s.url = Allowed(s) /\ "about" \in {s.url, tab[t].target}
         moves == s.user # "error" /\ (s.url # "about" \/ Allowed(s) # "about")
     IN \/ stays /\ Becomes(t, s)
        \/ moves /\ Becomes(t, ended)
  /\ InApp /\ UNCHANGED <<session, errors>>

(* An API call of the page is denied: in 4 seconds to '/about'.            *)
Denied(t) ==
  /\ tab[t].url = "home" /\ ~tab[t].hidden /\ ~SignedIn
  /\ Becomes(t, [tab[t] EXCEPT !.timer = TRUE])
  /\ InApp /\ UNCHANGED <<session, errors>>

Broken(t) ==
  /\ tab[t].url = "home" /\ ~tab[t].hidden
  /\ Fails("server")
  /\ Becomes(t, Hidden(tab[t]))
  /\ InApp /\ UNCHANGED session

TimerEnds(t) ==
  /\ tab[t].timer
  /\ Becomes(t, [tab[t] EXCEPT !.timer = FALSE, !.target = "about"])
  /\ InApp /\ UNCHANGED <<session, errors>>

(* AppComponent.logout, AuthController.logout                              *)
Logout(t) ==
  /\ tab[t].url \in {"home", "about"} /\ tab[t].user = "user" /\ ~tab[t].hidden
  /\ tab[t].logout = "no"
  /\ Becomes(t, logout(tab[t]))
  /\ InApp /\ UNCHANGED <<session, errors>>

LogoutReply(t) ==
  /\ tab[t].logout = "sent"
  /\ \/ session' = FALSE /\ Becomes(t, [tab[t] EXCEPT !.logout = "done"]) /\ UNCHANGED errors
     \/ Fails("server") /\ Becomes(t, [tab[t] EXCEPT !.logout = "error"]) /\ UNCHANGED session
  /\ InApp

(* Mutant: the tap is forgotten, user$ keeps its value.                    *)
LogoutArrivesUntold(t) ==
  /\ tab[t].logout \in {"done", "error"}
  /\ LET s == [tab[t] EXCEPT !.logout = "no"]
     IN Becomes(t, IF tab[t].logout = "error" THEN Hidden(s) ELSE [s EXCEPT !.target = "about"])
  /\ InApp /\ UNCHANGED <<session, errors>>

(* manualSubject tells user$, if the page still subscribes to it.          *)
LogoutArrives(t) ==
  /\ tab[t].logout \in {"done", "error"}
  /\ LET s == [tab[t] EXCEPT !.logout = "no"]
     IN Becomes(t, IF tab[t].logout = "error" THEN Hidden(s)
                   ELSE [s EXCEPT !.target = "about",
                                  !.user = IF s.hidden \/ @ = "error" THEN @ ELSE "guest"])
  /\ InApp /\ UNCHANGED <<session, errors>>

-----------------------------------------------------------------------------

(* What comes by itself: answers, timers, and navigations.                 *)
Reaction(t) ==
  \/ Exchange(t) \/ Save(t) \/ SaveFails(t) \/ Synced(t)
  \/ SessionReply(t) \/ SessionArrives(t) \/ Route(t)
  \/ TimerEnds(t) \/ LogoutReply(t) \/ LogoutArrives(t)

WebNext ==
  \/ \E t \in Tabs :
       \/ Login(t) \/ Reaction(t)
       \/ \E u \in {"home", "about"} : Open(t, u) \/ Visit(t, u)
       \/ Denied(t) \/ Broken(t) \/ Logout(t)
  \/ Expire

WebSpec == WebInit /\ [][WebNext]_webVars

(* Requests are answered, and the browser goes on.                         *)
WebFairness ==
  \A t \in Tabs : WF_webVars(LogoutArrives(t)) /\ WF_webVars(Route(t))

-----------------------------------------------------------------------------

(* Whoever has a session has a row, with the workspace the pages show:     *)
(* however two sign-ins overlap, and whichever step of one fails.          *)
SignedInIsStored == session => known

(* A tab that logged out comes to '/about', unless its page had given way  *)
(* to the error text, somebody signed in again, or it was left or reloaded.*)
(* (The answer "signed in" that is still on its way would overtake the     *)
(* logout: user$ takes the user for signed in, and '/about' is a guest's   *)
(* page.)                                                                  *)
LogoutReachesAbout ==
  \A t \in Tabs :
    (tab[t].logout = "done" /\ tab[t].ask # "user" /\ ~tab[t].hidden) ~>
      (tab[t].url \in {"about", "loading", "away"} \/ tab[t].hidden \/ session)

=============================================================================
