--------------------------------- MODULE Login ---------------------------------
(***************************************************************************)
(* Login, token refresh and logout in the frontend (general/auth,          *)
(* services/auth) against core/authentication of the backend.              *)
(*                                                                         *)
(* The tabs of a browser share the token cookies and CCM_LOGGED_IN in      *)
(* localStorage; redirectURL is memory of a tab, the target of a login and *)
(* its nonce are in the tab's sessionStorage.  Any request may be answered *)
(* with 401, several at once, also after the tab has left its page.        *)
(* A request is answered by the cookies it was sent with; its answer, and  *)
(* the cookies the answer sets, arrive later.                              *)
(***************************************************************************)
EXTENDS FiniteSets, Api

CONSTANTS
    Tabs,
    Pages,       \* guarded routes; Home is the route /
    Home,
    LoginCalls,  \* requests of a page
    CallsOf      \* CallsOf[t]: those a page in tab t may have under way at once

Unset == "undefined"
LogoutURL == "/logout"
Places == Pages \cup {"closed", "guard", "logout", "auth", "idp", "callback"}
CallPhases == {"idle", "ok", "expired", "denied", "refreshing", "refusing",
               "refusingUnauthorized", "retried"}

ASSUME LoginAssumption ==
    /\ Home \in Pages /\ CallsOf \in [Tabs -> SUBSET LoginCalls]
    /\ Pages \cap {"closed", "guard", "logout", "auth", "idp", "callback", Unset, LogoutURL} = {}

VARIABLES
    idToken,     \* the cookie id_token: none, valid or expired
    refreshToken,
    loggedIn,    \* CCM_LOGGED_IN
    tabAt,       \* the route a tab shows
    redirectURL, \* of the authentication service of a tab
    target,      \* what sessionStorage holds under the state of the last login
    loginCalls,  \* the requests of the tab's components
    authorizing, \* tabs with getAuthorizationUrl under way
    loggingOut,  \* tabs with the request of logOut under way
    tabLeft,     \* the page a tab was on when it was sent to the login
    tabAstray,   \* the page the tab left is lost: see LandsWhereItLeft
    signedOut    \* a logout returned, no refresh was under way, no login since

loginVars == <<idToken, refreshToken, loggedIn, tabAt, redirectURL, target, loginCalls,
               authorizing, loggingOut, tabLeft, tabAstray, signedOut>>
cookies == <<idToken, refreshToken>>
requests == <<authorizing, loggingOut>>

LoginInit ==
    /\ idToken = "none" /\ refreshToken = "none" /\ loggedIn = FALSE
    /\ tabAt = [t \in Tabs |-> "closed"]
    /\ redirectURL = [t \in Tabs |-> Unset]
    /\ target = [t \in Tabs |-> Unset]
    /\ loginCalls = [t \in Tabs |-> [c \in LoginCalls |-> "idle"]]
    /\ authorizing = {} /\ loggingOut = {}
    /\ tabLeft = [t \in Tabs |-> Unset] /\ tabAstray = {}
    /\ signedOut = FALSE

\* Router.url, which is a page or the logout page with its reason.
RouterURL(t) == IF tabAt[t] \in Pages THEN tabAt[t] ELSE LogoutURL

\* The requests about tokens that tab t has under way.
TokenRequests(t) ==
    {GetAuthorizationUrl : s \in authorizing \cap {t}} \cup {Logout : s \in loggingOut \cap {t}}
       \cup {RefreshIdentityToken : c \in {d \in LoginCalls : loginCalls[t][d] = "refreshing"}}
       \cup {GetIdentityToken : s \in {s \in {t} : tabAt[s] = "callback"}}

SetCall(t, c, phase) == loginCalls' = [loginCalls EXCEPT ![t][c] = phase]
NoCalls == [c \in LoginCalls |-> "idle"]

----------------------------------------------------------------------------
(* Pages and their guard *)

\* Mutant: the guard starts a login and forgets the page that was asked for.
GuardForgets(t, page) == redirectURL' = [redirectURL EXCEPT ![t] = Unset]

RememberURL(t, page) == redirectURL' = [redirectURL EXCEPT ![t] = page]

\* A page is loaded in a tab, or loaded anew: the app starts and the guard runs.
\* What was under way in the tab is gone.
AuthGuard(t, page) ==
    /\ tabAt[t] \in Pages \cup {"closed"}
    /\ loginCalls' = [loginCalls EXCEPT ![t] = NoCalls]
    /\ loggingOut' = loggingOut \ {t}
    /\ tabAstray' = tabAstray \ {t}
    /\ IF loggedIn
       THEN /\ tabAt' = [tabAt EXCEPT ![t] = page]
            /\ redirectURL' = [redirectURL EXCEPT ![t] = Unset]
            /\ UNCHANGED <<authorizing, tabLeft>>
       ELSE /\ tabAt' = [tabAt EXCEPT ![t] = "guard"]
            /\ RememberURL(t, page)
            /\ authorizing' = authorizing \cup {t}
            /\ tabLeft' = [tabLeft EXCEPT ![t] = page]
    /\ UNCHANGED <<cookies, loggedIn, target, signedOut>>

\* The router changes the child route: the guard does not run.
Navigate(t, page) ==
    /\ tabAt[t] \in Pages /\ page # tabAt[t]
    /\ tabAt' = [tabAt EXCEPT ![t] = page]
    /\ UNCHANGED <<cookies, loggedIn, redirectURL, target, loginCalls, requests, tabLeft,
                   tabAstray, signedOut>>

----------------------------------------------------------------------------
(* Requests and the interceptor *)

\* A component sends a request; api_key_cookie validates the cookie.
Call(t, c) ==
    /\ c \in CallsOf[t] /\ tabAt[t] \in Pages /\ loginCalls[t][c] = "idle"
    /\ SetCall(t, c, CASE idToken = "valid" -> "ok"
                       [] idToken = "expired" -> "expired"
                       [] idToken = "none" -> "denied")
    /\ UNCHANGED <<cookies, loggedIn, tabAt, redirectURL, target, requests, tabLeft,
                   tabAstray, signedOut>>

CallReturns(t, c) ==
    /\ loginCalls[t][c] = "ok"
    /\ SetCall(t, c, "idle")
    /\ UNCHANGED <<cookies, loggedIn, tabAt, redirectURL, target, requests, tabLeft,
                   tabAstray, signedOut>>

\* What the interceptor does first with any 401.
Record401(t) ==
    /\ redirectURL' = [redirectURL EXCEPT ![t] = RouterURL(t)]
    /\ loggedIn' = FALSE

\* AuthComponent at /logout: its constructor logs out; the reason session-expired
\* starts a login at once.  A second navigation reuses the component.
ShowLogout(t, reason) ==
    /\ tabAt' = [tabAt EXCEPT ![t] = "logout"]
    /\ loggingOut' = IF tabAt[t] = "logout" THEN loggingOut ELSE loggingOut \cup {t}
    /\ authorizing' = IF reason = "session-expired" THEN authorizing \cup {t} ELSE authorizing
    /\ loggedIn' = FALSE
    /\ tabLeft' = IF tabAt[t] \in Pages THEN [tabLeft EXCEPT ![t] = tabAt[t]] ELSE tabLeft

\* 401 that is not about an expired token: /logout?reason=unauthorized.
Unauthorized(t, c) ==
    /\ loginCalls[t][c] = "denied"
    /\ SetCall(t, c, "idle")
    /\ Record401(t)
    /\ ShowLogout(t, "unauthorized")
    /\ tabAstray' = IF tabAt[t] \in Pages THEN tabAstray ELSE tabAstray \cup {t}
    /\ UNCHANGED <<cookies, target, signedOut>>

\* 401 with TOKEN_SIGNATURE_EXPIRED: RefreshIdentityToken is sent.  It is refused with
\* 400 without the cookie refresh_token, with 401 when that has expired.
TokenExpired(t, c) ==
    /\ loginCalls[t][c] = "expired"
    /\ Record401(t)
    /\ SetCall(t, c, CASE refreshToken = "valid" -> "refreshing"
                       [] refreshToken = "none" -> "refusing"
                       [] refreshToken = "expired" -> "refusingUnauthorized")
    /\ tabAstray' = IF tabAt[t] \in Pages THEN tabAstray ELSE tabAstray \cup {t}
    /\ UNCHANGED <<cookies, tabAt, target, requests, tabLeft, signedOut>>

\* update_token_cookies: the identity provider need not return a refresh token.
NewTokens == idToken' = "valid" /\ refreshToken' \in {"valid", refreshToken}

\* The tokens are new, the request is sent again.  CCM_LOGGED_IN stays false.
RefreshReturns(t, c) ==
    /\ loginCalls[t][c] = "refreshing"
    /\ NewTokens
    /\ SetCall(t, c, "retried")
    /\ UNCHANGED <<loggedIn, tabAt, redirectURL, target, requests, tabLeft, tabAstray, signedOut>>

RetryReturns(t, c) ==
    /\ loginCalls[t][c] = "retried"
    /\ SetCall(t, c, "idle")
    /\ UNCHANGED <<cookies, loggedIn, tabAt, redirectURL, target, requests, tabLeft,
                   tabAstray, signedOut>>

\* The catchError behind the refresh also sees an error of the request that was sent
\* again, of any status: both end at /logout?reason=session-expired.  A 401 of the
\* refresh passes the interceptor itself and records the route once more.
SessionExpired(t, c) ==
    /\ loginCalls[t][c] \in {"retried", "refusing", "refusingUnauthorized"}
    /\ SetCall(t, c, "idle")
    /\ IF loginCalls[t][c] = "refusingUnauthorized" THEN Record401(t) ELSE UNCHANGED redirectURL
    /\ ShowLogout(t, "session-expired")
    /\ tabAstray' = IF redirectURL'[t] = tabAt[t] THEN tabAstray ELSE tabAstray \cup {t}
    /\ UNCHANGED <<cookies, target, signedOut>>

----------------------------------------------------------------------------
(* Login and logout *)

\* The user follows the link to /logout?reason=logout.
LogOut(t) ==
    /\ tabAt[t] \in Pages
    /\ ShowLogout(t, "logout")
    /\ tabAstray' = tabAstray \cup {t}
    /\ UNCHANGED <<cookies, redirectURL, target, loginCalls, signedOut>>

\* Mutant: the backend keeps the cookie refresh_token.
DeleteIdTokenOnly == idToken' = "none" /\ UNCHANGED refreshToken

DeleteTokenCookies == idToken' = "none" /\ refreshToken' = "none"

Refreshing == \E t \in Tabs : RefreshIdentityToken \in TokenRequests(t)

\* Logout of the backend.
LogoutReturns(t) ==
    /\ Logout \in TokenRequests(t)
    /\ loggingOut' = loggingOut \ {t}
    /\ DeleteTokenCookies
    /\ signedOut' = ~Refreshing
    /\ UNCHANGED <<loggedIn, tabAt, redirectURL, target, loginCalls, authorizing, tabLeft, tabAstray>>

\* The login button of the pages /logout and /auth.
LoginClicked(t) ==
    /\ tabAt[t] \in {"logout", "auth"} /\ t \notin authorizing
    /\ authorizing' = authorizing \cup {t}
    /\ UNCHANGED <<cookies, loggedIn, tabAt, redirectURL, target, loginCalls, loggingOut,
                   tabLeft, tabAstray, signedOut>>

\* The answer to GetAuthorizationUrl deletes the cookies; login() stores the target
\* and sends the tab to the identity provider: the app is gone with its requests.
AuthorizationReturns(t) ==
    /\ GetAuthorizationUrl \in TokenRequests(t)
    /\ authorizing' = authorizing \ {t} /\ loggingOut' = loggingOut \ {t}
    /\ DeleteTokenCookies
    /\ target' = [target EXCEPT ![t] = IF redirectURL[t] = Unset THEN Home ELSE redirectURL[t]]
    /\ redirectURL' = [redirectURL EXCEPT ![t] = Unset]
    /\ tabAt' = [tabAt EXCEPT ![t] = "idp"]
    /\ loginCalls' = [loginCalls EXCEPT ![t] = NoCalls]
    /\ UNCHANGED <<loggedIn, tabLeft, tabAstray, signedOut>>

\* The identity provider sends the tab to /oauth2/callback (external).
Authenticated(t) ==
    /\ tabAt[t] = "idp"
    /\ tabAt' = [tabAt EXCEPT ![t] = "callback"]
    /\ UNCHANGED <<cookies, loggedIn, redirectURL, target, loginCalls, requests, tabLeft,
                   tabAstray, signedOut>>

\* An error of the identity provider, a lost nonce or a failed exchange: /auth, with the
\* target kept.
LoginFails(t) ==
    /\ tabAt[t] \in {"idp", "callback"}
    /\ loggedIn' \in IF tabAt[t] = "idp" THEN {FALSE, loggedIn} ELSE {loggedIn}
    /\ tabAt' = [tabAt EXCEPT ![t] = "auth"]
    /\ redirectURL' = [redirectURL EXCEPT ![t] = target[t]]
    /\ target' = IF tabAt[t] = "callback" THEN [target EXCEPT ![t] = Unset] ELSE target
    /\ UNCHANGED <<cookies, loginCalls, requests, tabLeft, tabAstray, signedOut>>

\* The tab comes back with a state that its sessionStorage does not hold: /auth, without
\* a target.
StateMismatch(t) ==
    /\ tabAt[t] = "idp"
    /\ loggedIn' \in {FALSE, loggedIn}
    /\ tabAt' = [tabAt EXCEPT ![t] = "auth"]
    /\ redirectURL' = [redirectURL EXCEPT ![t] = Unset]
    /\ tabAstray' = tabAstray \cup {t}
    /\ UNCHANGED <<cookies, target, loginCalls, requests, tabLeft, signedOut>>

\* Mutant: a target is never taken over from sessionStorage.
LandHome(t) == Home

\* Targets under /logout and /auth would end the login: the start page instead.
LandingPage(t) == IF target[t] = LogoutURL THEN Home ELSE target[t]

LoginReturns(t) ==
    /\ GetIdentityToken \in TokenRequests(t)
    /\ NewTokens /\ loggedIn' = TRUE
    /\ signedOut' = FALSE
    /\ tabAt' = [tabAt EXCEPT ![t] = LandingPage(t)]
    /\ target' = [target EXCEPT ![t] = Unset]
    /\ tabAstray' = tabAstray \ {t}
    /\ UNCHANGED <<redirectURL, loginCalls, requests, tabLeft>>

IdTokenExpires ==
    /\ idToken = "valid" /\ idToken' = "expired"
    /\ UNCHANGED <<refreshToken, loggedIn, tabAt, redirectURL, target, loginCalls, requests,
                   tabLeft, tabAstray, signedOut>>

RefreshTokenExpires ==
    /\ refreshToken = "valid" /\ refreshToken' = "expired"
    /\ UNCHANGED <<idToken, loggedIn, tabAt, redirectURL, target, loginCalls, requests,
                   tabLeft, tabAstray, signedOut>>

LoginNext ==
    \/ IdTokenExpires \/ RefreshTokenExpires
    \/ \E t \in Tabs :
          \/ LogOut(t) \/ LogoutReturns(t) \/ LoginClicked(t) \/ AuthorizationReturns(t)
          \/ Authenticated(t) \/ LoginFails(t) \/ StateMismatch(t) \/ LoginReturns(t)
          \/ \E page \in Pages : AuthGuard(t, page) \/ Navigate(t, page)
          \/ \E c \in LoginCalls :
                \/ Call(t, c) \/ CallReturns(t, c) \/ Unauthorized(t, c) \/ TokenExpired(t, c)
                \/ RefreshReturns(t, c) \/ RetryReturns(t, c) \/ SessionExpired(t, c)

LoginSpec == LoginInit /\ [][LoginNext]_loginVars

----------------------------------------------------------------------------
(* Properties *)

LoginTypeOK ==
    /\ {idToken, refreshToken} \subseteq {"none", "valid", "expired"}
    /\ loggedIn \in BOOLEAN /\ signedOut \in BOOLEAN
    /\ tabAt \in [Tabs -> Places]
    /\ redirectURL \in [Tabs -> Pages \cup {Unset, LogoutURL}]
    /\ target \in [Tabs -> Pages \cup {Unset, LogoutURL}]
    /\ loginCalls \in [Tabs -> [LoginCalls -> CallPhases]]
    /\ authorizing \subseteq Tabs /\ loggingOut \subseteq Tabs /\ tabAstray \subseteq Tabs
    /\ tabLeft \in [Tabs -> Pages \cup {Unset}]

\* A login ends on the page the tab was sent away from, whichever of its requests,
\* refreshes and failed logins came in between.  Exceptions: the user logged out, a
\* second 401 came when the tab already showed /logout, the refresh failed after the user
\* had gone to another page, or the tab came back with a state it does not know.
LandsWhereItLeft ==
    [][\A t \in Tabs :
          tabAt[t] = "callback" /\ tabAt'[t] \in Pages =>
              tabAt'[t] = tabLeft[t] \/ t \in tabAstray]_loginVars

\* After a logout there is no token left to act with until the next login, in no tab -
\* unless a refresh was under way, whose answer sets the cookies again.
LogoutSticks == signedOut => idToken = "none" /\ refreshToken = "none"

=============================================================================
