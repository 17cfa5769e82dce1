------------------------------- MODULE AdminUi ------------------------------
(***************************************************************************)
(* The admin UI around the wizards: the router of main.ts, the login, home *)
(* and app pages, and reportError, which sends the user back to the login. *)
(* Everything writes one container.  A page's loading is an async function *)
(* that goes on, whatever has been routed to in the meantime; assigning    *)
(* location.hash queues a hashchange event, and only if it changes.        *)
(***************************************************************************)
EXTENDS Naturals, FiniteSets

CONSTANTS
  Apps,       \* ids of registered apps
  Good,       \* the server's CONFIG_SECRET
  Bad,        \* anything else a person may type
  Tasks,      \* async functions in flight (bound)
  Envs,       \* sets of environment events, of which a behaviour has one
  MaxEvents   \* bound on the hashchange events the person may queue up

AllEnv == {"impatient",   \* the person acts before what is going on has ended
           "expire",      \* the cookie reaches its max-age
           "rename"}      \* other administrators rename apps

CONSTANT None   \* no app, secret or task

ASSUME UiAssumption ==
  /\ None \notin Apps \cup {Good, Bad} \cup Tasks /\ Good # Bad
  /\ Apps \cap {"login", "home", "other", "loading", "error"} = {}   \* ids are UUIDs
  /\ Envs \subseteq SUBSET AllEnv /\ MaxEvents \in Nat

VARIABLES
  env,      \* the environment events of this behaviour
  hash,     \* location.hash
  events,   \* hashchange events that wait for the event loop
  cookie,   \* the config secret, or None
  nav,      \* does the header have its "Log out" button?
  page,     \* what the container shows
  task      \* locals of the async functions

vars == <<env, hash, events, cookie, nav, page, task>>

-----------------------------------------------------------------------------
(* The state *)

\* "other" stands for the wizards and for a hash that matches nothing.
Hashes == {"login", "home", "other"} \cup Apps

\* "rejected" is an error card without a text.
Kinds == {"blank", "login", "other", "loading", "error", "rejected", "home", "detail"}

\* An app's page knows which task drew it (`by`: its holder element is that
\* task's) and whose users are in the holder.
Page == [kind : Kinds, app : Apps \cup {None}, by : Tasks \cup {None},
         users : Apps \cup {None, "loading", "error"}]

Blank(kind) == [kind |-> kind, app |-> None, by |-> None, users |-> None]

\* The call a task waits for, the app it is about, the secret it was sent with.
Task == [call : {"none", "listApps", "listUsersOfAll", "getAppStatus", "getAppByName", "listUsers",
                 "getUserStatus"},
         app : Apps \cup {None}, secret : {Good, Bad, None}]

Idle == [call |-> "none", app |-> None, secret |-> None]

Init ==
  /\ env \in Envs
  /\ hash \in Hashes /\ cookie \in {Good, None}
  /\ events = 1     \* main.ts calls route itself
  /\ nav = FALSE /\ page = Blank("blank") /\ task = [t \in Tasks |-> Idle]

Quiet == events = 0 /\ \A t \in Tasks : task[t] = Idle

-----------------------------------------------------------------------------
(* Helpers *)

\* Mutant of Assign: every assignment fires an event.
AlwaysFires(h) == hash' = h /\ events' = events + 1

\* location.hash = h
Assign(h) == hash' = h /\ events' = IF h = hash THEN events ELSE events + 1

\* Task t's call is on its way; the header is read from the cookie here.
Calls(t, call, app) == task' = [task EXCEPT ![t] = [call |-> call, app |-> app, secret |-> cookie]]

Ends(t) == task' = [task EXCEPT ![t] = Idle]

\* What a call comes back with: a rejected secret is a 401; it may also fail
\* for reasons of its own.
Outcomes(t) == {"failed", IF task[t].secret = Good THEN "ok" ELSE "rejected"}

\* Mutant of LoginHash: a rejected user stays where he is.
StayHere == hash

LoginHash == "login"

\* reportError: a rejected secret is forgotten, whichever was used.
ReportError(outcome) ==
  IF outcome = "rejected" THEN cookie' = None /\ Assign(LoginHash)
  ELSE UNCHANGED <<hash, events, cookie>>

\* The catch of renderHome and renderAppDetail.
Catch(t, outcome) ==
  /\ page' = Blank(IF outcome = "rejected" THEN "rejected" ELSE "error")
  /\ ReportError(outcome)
  /\ Ends(t)

-----------------------------------------------------------------------------
(* route *)

Redirects == (cookie = None) # (hash = "login")

\* The assignment replaces the event that is being handled by another.
RouteRedirects ==
  /\ events > 0 /\ Redirects
  /\ hash' = IF cookie = None THEN "login" ELSE "home"
  /\ nav' = (cookie # None)
  /\ UNCHANGED <<env, events, cookie, page, task>>

Routed(h) ==
  /\ events > 0 /\ ~Redirects /\ hash = h
  /\ events' = events - 1
  /\ nav' = (cookie # None)
  /\ UNCHANGED <<env, hash, cookie>>

RouteSync(h) == h \in {"login", "other"} /\ Routed(h) /\ page' = Blank(h) /\ UNCHANGED task

RouteHome(t) ==
  /\ Routed("home") /\ task[t] = Idle
  /\ page' = Blank("loading") /\ Calls(t, "listApps", None)

RouteDetail(t, a) ==
  /\ Routed(a) /\ task[t] = Idle
  /\ page' = Blank("loading") /\ Calls(t, "getAppStatus", a)

-----------------------------------------------------------------------------
(* renderHome *)

ListAppsAnswers(t, outcome) ==
  /\ task[t].call = "listApps" /\ outcome \in Outcomes(t)
  /\ IF outcome = "ok"
     THEN Calls(t, "listUsersOfAll", None) /\ UNCHANGED <<hash, events, cookie, page>>
     ELSE Catch(t, outcome)
  /\ UNCHANGED <<env, nav>>

\* Mutant of UsersOfAllAnswer: one failing listUsers rejects the Promise.all.
UsersUncaught(t, outcome) ==
  /\ task[t].call = "listUsersOfAll" /\ outcome \in Outcomes(t)
  /\ page' = IF outcome = "ok" THEN Blank("home") ELSE page
  /\ Ends(t)
  /\ UNCHANGED <<env, hash, events, cookie, nav>>

\* Promise.all of one listUsers per app, each with a catch of its own: an app
\* whose call failed, or was rejected, has no users on the page.
UsersOfAllAnswer(t, outcome) ==
  /\ task[t].call = "listUsersOfAll" /\ outcome \in Outcomes(t)
  /\ page' = Blank("home")
  /\ Ends(t)
  /\ UNCHANGED <<env, hash, events, cookie, nav>>

-----------------------------------------------------------------------------
(* renderAppDetail *)

StatusAnswers(t, outcome) ==
  /\ task[t].call = "getAppStatus" /\ outcome \in Outcomes(t)
  /\ IF outcome = "ok"
     THEN Calls(t, "getAppByName", task[t].app) /\ UNCHANGED <<hash, events, cookie, page>>
     ELSE Catch(t, outcome)
  /\ UNCHANGED <<env, nav>>

\* The apps that may have the name which the status had.
HaveItsName(a) == IF "rename" \in env THEN Apps ELSE {a}

DetailPage(t, b) == [kind |-> "detail", app |-> b, by |-> t, users |-> "loading"]

\* renderLoaded, which starts loadUsers for the app it shows.
NameAnswers(t, outcome) ==
  /\ task[t].call = "getAppByName" /\ outcome \in Outcomes(t)
  /\ IF outcome = "ok"
     THEN /\ \E b \in HaveItsName(task[t].app) :
               page' = DetailPage(t, b) /\ Calls(t, "listUsers", b)
          /\ UNCHANGED <<hash, events, cookie>>
     ELSE Catch(t, outcome)
  /\ UNCHANGED <<env, nav>>

\* Mutant of Attached: the holder is looked up when the answer is there.
AnyHolder(t) == page.kind = "detail"

\* Task t's holder, found before the call, is still on the page.
Attached(t) == page.kind = "detail" /\ page.by = t

UsersAnswer(t, outcome) ==
  /\ task[t].call = "listUsers" /\ outcome \in Outcomes(t)
  /\ page' = IF Attached(t)
             THEN [page EXCEPT !.users = IF outcome = "ok" THEN task[t].app ELSE "error"]
             ELSE page
  /\ ReportError(outcome)
  /\ Ends(t)
  /\ UNCHANGED <<env, nav>>

\* The answer to a "Check" button; what it writes stays in its own cell.
CheckAnswers(t, outcome) ==
  /\ task[t].call = "getUserStatus" /\ outcome \in Outcomes(t)
  /\ ReportError(outcome)
  /\ Ends(t)
  /\ UNCHANGED <<env, nav, page>>

-----------------------------------------------------------------------------
(* The person, and time *)

MayAct == IF "impatient" \in env THEN events < MaxEvents ELSE Quiet

\* A link, a row, the back button, the address bar.
Navigate(h) == MayAct /\ h # hash /\ Assign(h) /\ UNCHANGED <<env, cookie, nav, page, task>>

\* The login form: anything that is not empty is taken for the secret.
Login(secret) ==
  /\ MayAct /\ page.kind = "login"
  /\ cookie' = secret /\ Assign("home")
  /\ UNCHANGED <<env, nav, page, task>>

Logout ==
  /\ MayAct /\ nav
  /\ cookie' = None /\ Assign("login")
  /\ UNCHANGED <<env, nav, page, task>>

\* Several rows may be checked at once, whoever is patient.
Check(t) ==
  /\ MayAct \/ (events = 0 /\ \A s \in Tasks : task[s].call \in {"none", "getUserStatus"})
  /\ page.kind = "detail" /\ page.users \in Apps /\ task[t] = Idle
  /\ Calls(t, "getUserStatus", page.users)
  /\ UNCHANGED <<env, hash, events, cookie, nav, page>>

\* 24 hours have passed since the login; no event tells the page.
Expire ==
  /\ "expire" \in env /\ cookie # None /\ cookie' = None
  /\ UNCHANGED <<env, hash, events, nav, page, task>>

-----------------------------------------------------------------------------
Route == RouteRedirects \/ \E h \in Hashes : RouteSync(h)
         \/ \E t \in Tasks : RouteHome(t) \/ \E a \in Apps : RouteDetail(t, a)

Answers(t) ==
  \E outcome \in {"ok", "rejected", "failed"} :
    \/ ListAppsAnswers(t, outcome) \/ UsersOfAllAnswer(t, outcome)
    \/ StatusAnswers(t, outcome) \/ NameAnswers(t, outcome)
    \/ UsersAnswer(t, outcome) \/ CheckAnswers(t, outcome)

Person ==
  \/ \E h \in Hashes : Navigate(h)
  \/ \E secret \in {Good, Bad} : Login(secret)
  \/ Logout
  \/ \E t \in Tasks : Check(t)

Next == Route \/ (\E t \in Tasks : Answers(t)) \/ Person \/ Expire

\* Every fetch settles, and the event loop handles every event.
Fairness == WF_vars(Route) /\ \A t \in Tasks : WF_vars(Answers(t))

Spec == Init /\ [][Next]_vars /\ Fairness

-----------------------------------------------------------------------------
(* Properties *)

\* The router's and the pages' variables hold what their types allow, and no
\* more events are queued than the person and the tasks can have caused: an
\* assignment that changes nothing causes none.
TypeOK ==
  /\ env \in Envs /\ hash \in Hashes /\ cookie \in {Good, Bad, None} /\ nav \in BOOLEAN
  /\ events \in 0..(MaxEvents + 1)
  /\ page \in Page /\ task \in [Tasks -> Task]

\* The users listed on an app's page are those of the app whose details it
\* shows, however late their list arrives and whoever has renamed what.
UsersBelongToPage == page.kind = "detail" /\ page.users \in Apps => page.users = page.app

\* Once everything has settled, the page is the one the hash names or an error
\* with a text, and nobody whose secret was rejected is left on an empty card
\* (util.ts: "sends the user back to login if the config secret was rejected"):
\* for a person who waits, and apps that keep their names.
PageMatchesHash ==
  Quiet /\ {"impatient", "rename"} \cap env = {} =>
    \/ page.kind = hash /\ page.app = None
    \/ hash \in Apps /\ page.kind = "detail" /\ page.app = hash
    \/ hash \in Apps \cup {"home"} /\ page.kind = "error"

\* "Loading…" does not stay, neither for a page nor for an app's users, also
\* when calls fail or are rejected.
LoadingEnds ==
  /\ page.kind = "loading" ~> page.kind # "loading"
  /\ page.users = "loading" ~> page.users # "loading"

=============================================================================
