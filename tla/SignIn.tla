------------------------------- MODULE SignIn -------------------------------
(***************************************************************************)
(* Signing in to and out of the web interface: the guard before every      *)
(* navigation (guard.js), the requests that fetch the user, the            *)
(* permissions and the routes (store/global/user.js, routes.js), the login *)
(* page (views/user/Login.vue) and the page that sends the user to a       *)
(* single sign-on (Logout.vue), which a sign-out loads.                    *)
(*                                                                         *)
(* Pages are login, logout and app, which stands for all those behind the  *)
(* guard.  A navigation to app waits for answers, and one begun meanwhile  *)
(* takes its place.  The answers of the first still come, and begin a      *)
(* navigation: vue-router (3.x) drops only a plain next() of a guard that  *)
(* has been replaced, and one that waited always names where to go.        *)
(* Loading a page anew (Load) forgets all but what the browser and the     *)
(* server store.                                                           *)
(***************************************************************************)
EXTENDS Naturals

CONSTANTS
    MaxTries,   \* bound on the steps of the user
    MaxInfos    \* bound on the times the user is fetched in one load of the page

ASSUME SignInBounds == MaxTries \in Nat /\ MaxInfos \in Nat

VARIABLES
    method,     \* how the server lets users in: by password, or by one sign-on,
                \* of which "sso" is announced and "auto" is not
    session,    \* the server takes what the browser sends for signed in
    stored,     \* localStorage: a token, a sign-on (ops_auth_type)
    page,       \* the page shown
    going,      \* what the last navigation begun, if it is under way, waits for
    waits,      \* the fetch it waits for
    roles,      \* SET_USER_INFO has been committed
    routes,     \* the routes of the app are added
    infos,      \* fetches of the user under way (GetInfo)
    probing,    \* guards that wait for the login methods, replaced ones among them
    logging,    \* so is a login
    due,        \* a Logout is due in three seconds
    leaving,    \* a Logout waits for its answer
    notice,     \* of the logout page: it asks for the methods, counts down, is blank
    stray,      \* a logout page was left while it asked
    overlapped, \* a navigation began while another was under way
    failed,     \* a request has failed that nothing catches
    tries, fetches

loaded == <<page, going, waits, roles, routes, infos, probing, logging, due, leaving,
            notice, stray, overlapped, failed>>
signVars == <<method, session, stored, loaded, tries, fetches>>

\* perms: the menu's permissions, then the routes; person: the employee's record.
Info == [no : Nat, user : {"asked", "got"}, perms : {"no", "asked", "got", "done", "failed"},
         person : {"no", "asked", "done"}]

Nothing == [token |-> FALSE, sso |-> FALSE]

SignInInit ==
    /\ method \in {"password", "sso", "auto"}
    /\ session \in BOOLEAN
    /\ stored \in [token : BOOLEAN, sso : BOOLEAN] /\ stored # [token |-> TRUE, sso |-> TRUE]
    /\ page = "blank" /\ going = "start" /\ waits = 0
    /\ roles = FALSE /\ routes = FALSE /\ infos = {} /\ probing = 0
    /\ logging = FALSE /\ due = FALSE /\ leaving = FALSE
    /\ notice = "none" /\ stray = FALSE /\ overlapped = FALSE /\ failed = FALSE
    /\ tries = 0 /\ fetches = 0

Try == tries < MaxTries /\ tries' = tries + 1

-----------------------------------------------------------------------------
(* Navigation.                                                             *)

\* The guard: what a navigation has to wait for.
Guard(to, has) ==
    CASE to # "app" -> "none"
      [] to = "app" /\ (has.token \/ has.sso) /\ ~roles -> "info"
      [] to = "app" /\ ~has.token /\ ~has.sso -> "methods"
      [] OTHER -> "none"

\* A navigation to a page, with these things stored, and with these fetches and
\* requests for the methods under way.  What is shown next asks for the login
\* methods too, if it is the logout page, and one that is left leaves its request
\* behind.
Go(to, has, fetching, probes) ==
    LET g == Guard(to, has)
        now == IF g = "none" THEN to ELSE page
    IN  /\ going' = g /\ page' = now
        /\ probing' = IF g = "methods" THEN probes + 1 ELSE probes
        /\ IF g = "info"
           THEN /\ fetches < MaxInfos /\ fetches' = fetches + 1 /\ waits' = fetches + 1
                /\ infos' = fetching \cup
                       {[no |-> fetches + 1, user |-> "asked", perms |-> "no", person |-> "no"]}
           ELSE infos' = fetching /\ UNCHANGED <<fetches, waits>>
        /\ notice' = IF now # "logout" THEN "none" ELSE IF page = "logout" THEN notice ELSE "asking"
        /\ stray' = (stray \/ (page = "logout" /\ now # "logout" /\ notice = "asking"))

\* The router refuses a navigation to the very page shown; app stands for several
\* pages, and the others differ in where a login leads.
Refused(to, fetching, probes) ==
    /\ page = to
    /\ infos' = fetching /\ probing' = probes
    /\ UNCHANGED <<page, waits, notice, stray, fetches>>

Over == overlapped' = (overlapped \/ going # "none")

\* The page is loaded anew, and goes to this page.
Load(to) ==
    /\ page' = "blank" /\ going' = (IF to = "app" THEN "start" ELSE "logout") /\ waits' = 0
    /\ roles' = FALSE /\ routes' = FALSE /\ infos' = {} /\ probing' = 0
    /\ logging' = FALSE /\ due' = FALSE /\ leaving' = FALSE
    /\ notice' = "none" /\ stray' = FALSE /\ overlapped' = FALSE /\ failed' = FALSE
    /\ fetches' = 0

\* The first navigation of a page just loaded.
Start ==
    /\ going \in {"start", "logout"}
    /\ Go(IF going = "start" THEN "app" ELSE "logout", stored, {}, 0)
    /\ UNCHANGED <<method, session, stored, roles, routes, logging, due, leaving,
                   overlapped, failed, tries>>

\* A link, the history, or an address: within the page that is loaded.
Visit(to) ==
    /\ page # "away" /\ going \notin {"start", "logout"} /\ to # page
    /\ Go(to, stored, infos, probing) /\ Over
    /\ Try
    /\ UNCHANGED <<method, session, stored, roles, routes, logging, due, leaving, failed>>

Reload ==
    /\ page # "away" /\ Load("app") /\ Try
    /\ UNCHANGED <<method, session, stored>>

-----------------------------------------------------------------------------
(* The fetch of the user.                                                  *)

Becomes2(i, j) == infos' = (infos \ {i}) \cup (IF j.perms = "done" /\ j.person = "done" THEN {} ELSE {j})

\* Unsettled: GetInfo's promise can still be resolved or rejected.
Unsettled(i) == i.perms \notin {"got", "done"}

Answered(i) ==
    /\ i.user = "asked" /\ session
    /\ Becomes2(i, [i EXCEPT !.user = "got", !.perms = "asked", !.person = "asked"])
    /\ UNCHANGED <<method, session, stored, page, going, waits, roles, routes, probing, logging,
                   due, leaving, notice, stray, overlapped, failed, tries, fetches>>

\* A slip: a failure is not caught.
FetchFailsUncaught(i) ==
    /\ \/ i.user = "asked"
       \/ i.person = "asked" /\ Unsettled(i)
    /\ infos' = infos \ {i}
    /\ UNCHANGED <<method, session, stored, page, going, waits, roles, routes, probing, logging,
                   due, leaving, notice, stray, overlapped, failed, tries, fetches>>

\* The user, or the employee's record before the permissions: the guard signs out,
\* in three seconds.
FetchFails(i) ==
    /\ \/ i.user = "asked"
       \/ i.person = "asked" /\ Unsettled(i)
    /\ infos' = infos \ {i}
    /\ due' = TRUE
    /\ UNCHANGED <<method, session, stored, page, going, waits, roles, routes, probing, logging,
                   leaving, notice, stray, overlapped, failed, tries, fetches>>

\* The employee's record after the permissions: the promise has been resolved.
PersonFailsLate(i) ==
    /\ i.person = "asked" /\ ~Unsettled(i)
    /\ Becomes2(i, [i EXCEPT !.person = "done"])
    /\ failed' = TRUE
    /\ UNCHANGED <<method, session, stored, page, going, waits, roles, routes, probing, logging,
                   due, leaving, notice, stray, overlapped, tries, fetches>>

PersonComes(i) ==
    /\ i.person = "asked"
    /\ Becomes2(i, [i EXCEPT !.person = "done"])
    /\ roles' = TRUE
    /\ UNCHANGED <<method, session, stored, page, going, waits, routes, probing, logging,
                   due, leaving, notice, stray, overlapped, failed, tries, fetches>>

\* SET_DETAIL_PERMISSIONS; the routes are made next (GenerateRoutes).
PermsCome(i) ==
    /\ i.perms = "asked"
    /\ Becomes2(i, [i EXCEPT !.perms = "got"])
    /\ UNCHANGED <<method, session, stored, page, going, waits, roles, routes, probing, logging,
                   due, leaving, notice, stray, overlapped, failed, tries, fetches>>

\* Nothing catches a failure of the permissions, or of a module with routes.
PermsFail(i) ==
    /\ i.perms \in {"asked", "got"}
    /\ Becomes2(i, [i EXCEPT !.perms = IF @ = "asked" THEN "failed" ELSE "done"])
    /\ failed' = TRUE
    /\ UNCHANGED <<method, session, stored, page, going, waits, roles, routes, probing, logging,
                   due, leaving, notice, stray, overlapped, tries, fetches>>

Done(i) == (infos \ {i}) \cup (IF i.person = "done" THEN {} ELSE {[i EXCEPT !.perms = "done"]})

\* A slip: the navigation goes on before the routes are added.
RoutesLate(i) ==
    /\ i.perms = "got"
    /\ Go("app", stored, Done(i), probing)
    /\ UNCHANGED <<method, session, stored, roles, routes, logging, due, leaving, overlapped,
                   failed, tries>>

\* addRoutes, then the navigation again, whatever the user has done meanwhile: the
\* guard fetches the user once more while the employee's record is missing.
RoutesAdded(i) ==
    /\ i.perms = "got"
    /\ routes' = TRUE
    /\ \/ Go("app", stored, Done(i), probing)
       \/ /\ ~(going = "info" /\ waits = i.no)
          /\ Refused("app", Done(i), probing) /\ UNCHANGED going
    /\ UNCHANGED <<method, session, stored, roles, logging, due, leaving, overlapped, failed, tries>>

-----------------------------------------------------------------------------
(* The ways in.                                                            *)

\* Nothing was stored: to the one sign-on, or to the login page.
SignInPage == IF method = "password" THEN "login" ELSE "logout"

\* The guard goes there whatever has been stored, or shown, since.  When the router
\* refuses, the navigation is over if it is the last begun.
MethodsCome ==
    /\ probing > 0
    /\ \/ Go(SignInPage, stored, infos, probing - 1)
       \/ /\ Refused(SignInPage, infos, probing - 1)
          /\ \/ going' = going /\ (going = "methods" => probing > 1)
             \/ going = "methods" /\ going' = "none"
    /\ UNCHANGED <<method, session, stored, roles, routes, logging, due, leaving, overlapped,
                   failed, tries>>

MethodsFail ==
    /\ probing > 0
    /\ probing' = probing - 1 /\ failed' = TRUE
    /\ UNCHANGED <<method, session, stored, page, going, waits, roles, routes, infos, logging,
                   due, leaving, notice, stray, overlapped, tries, fetches>>

\* handleSubmit of the login page, whose button then waits.
Submit ==
    /\ page = "login" /\ ~logging
    /\ logging' = TRUE
    /\ stored' = [stored EXCEPT !.sso = FALSE]
    /\ Try
    /\ UNCHANGED <<method, session, page, going, waits, roles, routes, infos, probing, due,
                   leaving, notice, stray, overlapped, failed, fetches>>

\* The token is stored and the user goes in, from whatever page is shown by then.
LoginDone ==
    /\ logging
    /\ logging' = FALSE /\ session' = TRUE
    /\ stored' = [stored EXCEPT !.token = TRUE]
    /\ \/ Go("app", stored', infos, probing) /\ Over
       \/ Refused("app", infos, probing) /\ UNCHANGED <<going, overlapped>>
    /\ UNCHANGED <<method, roles, routes, due, leaving, failed, tries>>

LoginRefused ==
    /\ logging
    /\ logging' = FALSE
    /\ UNCHANGED <<method, session, stored, page, going, waits, roles, routes, infos, probing,
                   due, leaving, notice, stray, overlapped, failed, tries, fetches>>

\* To the sign-on's own pages, which unloads this one.
SignOn ==
    /\ stored' = [stored EXCEPT !.sso = TRUE]
    /\ page' = "away" /\ going' = "none" /\ waits' = 0
    /\ roles' = FALSE /\ routes' = FALSE /\ infos' = {} /\ probing' = 0
    /\ logging' = FALSE /\ due' = FALSE /\ leaving' = FALSE
    /\ notice' = "none" /\ stray' = FALSE /\ overlapped' = FALSE /\ failed' = FALSE
    /\ UNCHANGED <<method, session, fetches>>

\* otherLogin of the login page; the button, or the end of the count, of the other.
ChooseSignOn ==
    /\ method # "password"
    /\ page = "login" \/ notice = "counting"
    /\ SignOn /\ Try

Back ==
    /\ page = "away"
    /\ session' \in BOOLEAN
    /\ Load("app") /\ Try
    /\ UNCHANGED <<method, stored>>

\* The logout page has its answer: to the login page, unless there is one sign-on.
\* A page that was left goes there all the same.
NoticeAnswered ==
    /\ notice = "asking"
    /\ \/ /\ method = "password"
          /\ Go("login", stored, infos, probing) /\ Over
          /\ UNCHANGED <<method, session, stored, roles, routes, logging, due, leaving,
                         failed, tries>>
       \/ /\ method = "sso"
          /\ notice' = "counting"
          /\ UNCHANGED <<method, session, stored, page, going, waits, roles, routes, infos,
                         probing, logging, due, leaving, stray, overlapped, failed, tries, fetches>>
       \/ method = "auto" /\ SignOn /\ UNCHANGED tries

NoticeFails ==
    /\ notice = "asking"
    /\ notice' = "blank" /\ failed' = TRUE
    /\ UNCHANGED <<method, session, stored, page, going, waits, roles, routes, infos, probing,
                   logging, due, leaving, stray, overlapped, tries, fetches>>

StrayAnswered ==
    /\ stray
    /\ \/ method = "password" /\ Go("login", stored, infos, probing) /\ Over
       \/ /\ method = "password" => page = "login"
          /\ UNCHANGED <<page, going, waits, infos, probing, notice, overlapped, fetches>>
    /\ stray' = FALSE
    /\ UNCHANGED <<method, session, stored, roles, routes, logging, due, leaving, failed, tries>>

-----------------------------------------------------------------------------
(* The ways out.                                                           *)

\* Logout: what is stored is removed at once, and the server is told.  A second one
\* meanwhile tells it again and changes nothing else.
Logout ==
    /\ ~leaving
    /\ leaving' = TRUE
    /\ stored' = Nothing
    /\ UNCHANGED <<method, session, page, going, waits, roles, routes, infos, probing, logging,
                   notice, stray, overlapped, failed, fetches>>

\* handleLogout, confirmed.
SignOut == page = "app" /\ Logout /\ Try /\ UNCHANGED due

\* The timer of a failed fetch, wherever the user is by then.
LogoutDue == due /\ Logout /\ due' = FALSE /\ UNCHANGED tries

\* A slip: only an answer leads on, and after a failure the user stays.
LogoutHeard(ok) ==
    /\ leaving
    /\ IF ok THEN session' = FALSE /\ Load("logout")
       ELSE /\ leaving' = FALSE
            /\ UNCHANGED <<session, page, going, waits, roles, routes, infos, probing, logging, due,
                           notice, stray, overlapped, failed, fetches>>
    /\ UNCHANGED <<method, stored, tries>>

\* Answered or failed, the logout page is loaded.
LogoutEnds(ok) ==
    /\ leaving
    /\ session' = IF ok THEN FALSE ELSE session
    /\ Load("logout")
    /\ UNCHANGED <<method, stored, tries>>

\* The session expires, or another tab of the browser signs out.
Expire ==
    /\ session
    /\ session' = FALSE
    /\ stored' \in {stored, Nothing}
    /\ UNCHANGED <<method, loaded, tries, fetches>>

-----------------------------------------------------------------------------

Fetch(i) == Answered(i) \/ FetchFails(i)
Permit(i) == PermsCome(i) \/ PermsFail(i)
Person(i) == i.person = "asked" /\ (PersonComes(i) \/ PersonFailsLate(i) \/ FetchFails(i))

Answers ==
    \/ Start
    \/ \E i \in infos : Fetch(i) \/ Permit(i) \/ Person(i) \/ RoutesAdded(i)
    \/ MethodsCome \/ MethodsFail \/ LoginDone \/ LoginRefused
    \/ NoticeAnswered \/ NoticeFails \/ StrayAnswered
    \/ LogoutDue \/ \E ok \in BOOLEAN : LogoutEnds(ok)
    \/ Expire

UserSigns ==
    \/ \E to \in {"login", "logout", "app"} : Visit(to)
    \/ Reload \/ Submit \/ ChooseSignOn \/ Back \/ SignOut

SignInNext == Answers \/ UserSigns

\* Every request is answered or fails, and timers fire; nothing is assumed of the
\* user or of the sign-on's pages.
SignInFairness ==
    /\ WF_signVars(Start)
    /\ \A n \in 1..MaxInfos :
          /\ WF_signVars(\E i \in infos : i.no = n /\ Fetch(i))
          /\ WF_signVars(\E i \in infos : i.no = n /\ Permit(i))
          /\ WF_signVars(\E i \in infos : i.no = n /\ Person(i))
          /\ WF_signVars(\E i \in infos : i.no = n /\ RoutesAdded(i))
    /\ WF_signVars(MethodsCome \/ MethodsFail) /\ WF_signVars(LoginDone \/ LoginRefused)
    /\ WF_signVars(NoticeAnswered \/ NoticeFails) /\ WF_signVars(StrayAnswered)
    /\ WF_signVars(LogoutDue) /\ WF_signVars(\E ok \in BOOLEAN : LogoutEnds(ok))

SignInSpec == SignInInit /\ [][SignInNext]_signVars /\ SignInFairness

-----------------------------------------------------------------------------
(* Properties.                                                             *)

SignInTypeOK ==
    /\ {session, roles, routes, logging, due, leaving, stray, overlapped, failed}
           \subseteq BOOLEAN
    /\ page \in {"blank", "login", "logout", "app", "away"}
    /\ going \in {"none", "start", "logout", "info", "methods"}
    /\ infos \subseteq Info /\ waits \in 0..MaxInfos /\ probing \in Nat
    /\ notice \in {"none", "asking", "counting", "blank"}

\* A page behind the guard is shown only when its routes have been added, unless
\* navigations overlapped (beforeEach, GenerateRoutes).
RoutesFirst == (page = "app" /\ ~overlapped) => routes

\* The same without the exception, which the code does not give: the employee's
\* record is enough for the guard, and a second navigation does not wait for the
\* routes the first has asked for.
RoutesBeforePage == page = "app" => routes

\* However navigations overlap, and wherever the late answers of replaced ones lead,
\* the last begun ends, with a page or with a sign-out, unless a request has failed
\* whose failure nothing catches (beforeEach, GetInfo).
NavigationEnds == (going # "none") ~> (going = "none" \/ failed)

\* A sign-out ends outside of the app, whether or not the server answers, and
\* whatever else is answered meanwhile (Logout).
SignOutLands == leaving ~> (~leaving /\ page # "app")

\* A user whose login was accepted is not signed out but by the user, the server or
\* another tab.  The code does not give it: the timer of an earlier failure fires.
NotThrownOut == [][LogoutDue => page # "app"]_signVars

\* Who has reached a page stays there until they leave it.  The code does not give
\* it: the answer that a replaced navigation waited for leads to where that one went.
StaysPut ==
    [][going = "none" /\ (MethodsCome \/ \E i \in infos : RoutesAdded(i)) => page' = page]_signVars
=============================================================================
