---------------------------- MODULE AdminUiProofs ----------------------------
(***************************************************************************)
(* Theorems about AdminUi, for every value of its constants: any number of *)
(* apps, of async functions in flight and of queued events.                *)
(***************************************************************************)
EXTENDS AdminUi, TLAPS

-----------------------------------------------------------------------------
(* Types, the events in the queue, and whose page a task writes to *)

\* The queue is one event longer than the person can make it only after a
\* rejection, which sends everybody to the login; or nothing else goes on.
EventsFit ==
  events > MaxEvents => (hash = "login" /\ cookie = None) \/ \A t \in Tasks : task[t] = Idle

\* A task that finds its holder on the page asks for the users of the page's app.
HoldersFit ==
  \A t \in Tasks :
    page.kind = "detail" /\ page.by = t /\ task[t].call = "listUsers" => task[t].app = page.app

\* A task without a call is idle.
Idlers == \A t \in Tasks : task[t].call = "none" => task[t] = Idle

BInv == TypeOK /\ EventsFit /\ HoldersFit /\ Idlers /\ UsersBelongToPage

\* The types of what the actions assign.
LEMMA Parts ==
  /\ \A kind \in Kinds : Blank(kind) \in Page /\ Blank(kind).kind = kind /\ Blank(kind).app = None
                         /\ Blank(kind).users = None
  /\ Idle \in Task /\ Idle.call = "none"
  /\ "login" \in Hashes /\ "home" \in Hashes
  /\ None \notin Apps /\ None # Good /\ None # Bad /\ Good # Bad
  /\ "loading" \notin Apps /\ "error" \notin Apps
BY UiAssumption DEF Blank, Page, Idle, Task, Hashes

\* A task takes a record of its own; a page that it replaces, or leaves, fits.
LEMMA TaskTakes ==
  ASSUME BInv, NEW t \in Tasks, NEW r \in Task, task' = [task EXCEPT ![t] = r],
         r.call = "none" => r = Idle,
         NEW p \in Page, page' = p,
         \/ p.kind # "detail"
         \/ p.kind = page.kind /\ p.app = page.app /\ p.by = page.by /\ r.call # "listUsers"
         \/ p.by = t /\ r.app = p.app,
         p.kind = "detail" /\ p.users \in Apps => p.users = p.app
  PROVE  /\ task' \in [Tasks -> Task] /\ page' \in Page /\ HoldersFit' /\ Idlers'
         /\ UsersBelongToPage'
         /\ task'[t] = r /\ \A s \in Tasks \ {t} : task'[s] = task[s]
<1>1. /\ task'[t] = r /\ (\A s \in Tasks \ {t} : task'[s] = task[s]) /\ task' \in [Tasks -> Task]
  BY DEF BInv, TypeOK
<1>2. Idlers'
  BY <1>1 DEF BInv, Idlers
<1>3. HoldersFit'
  BY <1>1 DEF BInv, HoldersFit
<1>4. UsersBelongToPage'
  BY DEF UsersBelongToPage
<1> QED
  BY <1>1, <1>2, <1>3, <1>4

\* What a handled answer does to the hash, the cookie and the queue.
LEMMA Reported ==
  ASSUME BInv, NEW t \in Tasks, task[t] # Idle, NEW outcome, ReportError(outcome)
  PROVE  /\ hash' \in Hashes /\ cookie' \in {Good, Bad, None} /\ events' \in 0..(MaxEvents + 1)
         /\ events' > MaxEvents => hash' = "login" /\ cookie' = None
<1>0. /\ events \in Nat /\ MaxEvents \in Nat /\ hash \in Hashes /\ cookie \in {Good, Bad, None}
      /\ events \in 0..(MaxEvents + 1) /\ "login" \in Hashes
      /\ events > MaxEvents => hash = "login" /\ cookie = None
  BY UiAssumption, Parts DEF BInv, TypeOK, EventsFit
<1>1. CASE outcome = "rejected"
  BY <1>0, <1>1 DEF ReportError, Assign, LoginHash
<1>2. CASE outcome # "rejected"
  BY <1>0, <1>2 DEF ReportError
<1> QED
  BY <1>1, <1>2

\* A task's answer keeps what the base says, whatever it writes.
LEMMA AnswerKeeps ==
  ASSUME BInv, NEW t \in Tasks, \E outcome \in {"ok", "rejected", "failed"} :
           \/ ListAppsAnswers(t, outcome) \/ UsersOfAllAnswer(t, outcome)
           \/ StatusAnswers(t, outcome) \/ NameAnswers(t, outcome)
           \/ UsersAnswer(t, outcome) \/ CheckAnswers(t, outcome)
  PROVE  BInv'
<1>0. /\ task \in [Tasks -> Task] /\ task[t] \in Task /\ page \in Page
      /\ task[t].app \in Apps \cup {None} /\ cookie \in {Good, Bad, None}
      /\ events \in 0..(MaxEvents + 1) /\ hash \in Hashes /\ env \in Envs /\ nav \in BOOLEAN
      /\ env \subseteq AllEnv
  BY UiAssumption DEF BInv, TypeOK, Task
<1>1. PICK outcome \in {"ok", "rejected", "failed"} :
        \/ ListAppsAnswers(t, outcome) \/ UsersOfAllAnswer(t, outcome)
        \/ StatusAnswers(t, outcome) \/ NameAnswers(t, outcome)
        \/ UsersAnswer(t, outcome) \/ CheckAnswers(t, outcome)
  OBVIOUS
<1>2. UNCHANGED <<env, nav>> /\ task[t].call # "none"
  BY <1>1 DEF ListAppsAnswers, UsersOfAllAnswer, StatusAnswers, NameAnswers, UsersAnswer,
              CheckAnswers
<1>3. task[t] # Idle
  BY <1>2, Parts
<1>4. events > MaxEvents => hash = "login" /\ cookie = None
  BY <1>3 DEF BInv, EventsFit
<1>5. ASSUME NEW call, [call |-> call, app |-> task[t].app, secret |-> cookie] \in Task,
             call \notin {"none", "listUsers"}, Calls(t, call, task[t].app) \/ Calls(t, call, None),
             UNCHANGED <<hash, events, cookie, page>>
      PROVE  BInv'
  <2>1. PICK a \in Apps \cup {None} : Calls(t, call, a)
    BY <1>0, <1>5
  <2> DEFINE r == [call |-> call, app |-> a, secret |-> cookie]
  <2>2. r \in Task /\ r.call \notin {"none", "listUsers"} /\ task' = [task EXCEPT ![t] = r]
    BY <1>5, <2>1 DEF Calls, Task
  <2> HIDE DEF r
  <2>3. /\ task' \in [Tasks -> Task] /\ page' \in Page /\ HoldersFit' /\ Idlers'
        /\ UsersBelongToPage'
    BY <1>0, <1>5, <2>2, TaskTakes DEF BInv, UsersBelongToPage
  <2>4. TypeOK'
    BY <1>0, <1>2, <1>5, <2>3 DEF TypeOK
  <2>5. EventsFit'
    BY <1>4, <1>5 DEF EventsFit
  <2> QED
    BY <2>3, <2>4, <2>5 DEF BInv
<1>6. ASSUME NEW o, ReportError(o) \/ UNCHANGED <<hash, events, cookie>>, Ends(t),
             NEW p \in Page, page' = p,
             p.kind # "detail" \/ (p.kind = page.kind /\ p.app = page.app /\ p.by = page.by),
             p.kind = "detail" /\ p.users \in Apps => p.users = p.app
      PROVE  BInv'
  <2>1. /\ hash' \in Hashes /\ cookie' \in {Good, Bad, None} /\ events' \in 0..(MaxEvents + 1)
        /\ events' > MaxEvents => hash' = "login" /\ cookie' = None
    BY <1>0, <1>3, <1>4, <1>6, Reported
  <2>2. Idle \in Task /\ Idle.call # "listUsers" /\ task' = [task EXCEPT ![t] = Idle]
    BY <1>6, Parts DEF Ends
  <2>3. /\ task' \in [Tasks -> Task] /\ page' \in Page /\ HoldersFit' /\ Idlers'
        /\ UsersBelongToPage'
    BY <1>6, <2>2, TaskTakes
  <2> QED
    BY <1>0, <1>2, <2>1, <2>3 DEF BInv, TypeOK, EventsFit
<1>7. ASSUME NEW o, Catch(t, o)
      PROVE  BInv'
  <2>1. PICK kind \in {"rejected", "error"} : page' = Blank(kind)
    BY <1>7 DEF Catch
  <2>2. Blank(kind) \in Page /\ Blank(kind).kind # "detail"
    BY Parts DEF Kinds
  <2> QED
    BY <1>6, <1>7, <2>1, <2>2 DEF Catch
<1>8. CASE ListAppsAnswers(t, outcome)
  <2>1. CASE outcome = "ok"
    <3>1. [call |-> "listUsersOfAll", app |-> task[t].app, secret |-> cookie] \in Task
      BY <1>0 DEF Task
    <3> QED
      BY <1>5, <1>8, <2>1, <3>1 DEF ListAppsAnswers
  <2>2. CASE outcome # "ok"
    BY <1>7, <1>8, <2>2 DEF ListAppsAnswers
  <2> QED
    BY <2>1, <2>2
<1>9. CASE UsersOfAllAnswer(t, outcome)
  <2>1. Blank("home") \in Page /\ Blank("home").kind # "detail"
    BY Parts DEF Kinds
  <2> QED
    BY <1>6, <1>9, <2>1 DEF UsersOfAllAnswer
<1>10. CASE StatusAnswers(t, outcome)
  <2>1. CASE outcome = "ok"
    <3>1. [call |-> "getAppByName", app |-> task[t].app, secret |-> cookie] \in Task
      BY <1>0 DEF Task
    <3> QED
      BY <1>5, <1>10, <2>1, <3>1 DEF StatusAnswers
  <2>2. CASE outcome # "ok"
    BY <1>7, <1>10, <2>2 DEF StatusAnswers
  <2> QED
    BY <2>1, <2>2
<1>11. CASE NameAnswers(t, outcome)
  <2>1. CASE outcome # "ok"
    BY <1>7, <1>11, <2>1 DEF NameAnswers
  <2>2. CASE outcome = "ok"
    <3>1. PICK b \in Apps \cup {None} : page' = DetailPage(t, b) /\ Calls(t, "listUsers", b)
      BY <1>0, <1>11, <2>2 DEF NameAnswers, HaveItsName
    <3> DEFINE p == DetailPage(t, b)
               r == [call |-> "listUsers", app |-> b, secret |-> cookie]
    <3>2. r \in Task /\ r.call = "listUsers" /\ r.app = b /\ task' = [task EXCEPT ![t] = r]
      BY <1>0, <3>1 DEF Calls, Task
    <3>3. p \in Page /\ p.by = t /\ p.app = b /\ p.users = "loading" /\ page' = p
      BY <3>1 DEF DetailPage, Page, Kinds
    <3>4. UNCHANGED <<hash, events, cookie>>
      BY <1>11, <2>2 DEF NameAnswers
    <3> HIDE DEF p, r
    <3>5. /\ p.users \notin Apps /\ r.call # "none" /\ "listUsers" # "none"
          /\ p.by = t /\ r.app = p.app
      BY <3>2, <3>3, Parts
    <3>6. /\ task' \in [Tasks -> Task] /\ page' \in Page /\ HoldersFit' /\ Idlers'
          /\ UsersBelongToPage'
      BY <3>2, <3>3, <3>5, TaskTakes
    <3>7. EventsFit'
      BY <1>4, <3>4 DEF EventsFit
    <3> QED
      BY <1>0, <1>2, <3>4, <3>6, <3>7 DEF BInv, TypeOK
  <2> QED
    BY <2>1, <2>2
<1>12. CASE UsersAnswer(t, outcome)
  <2> DEFINE p == IF Attached(t)
                  THEN [page EXCEPT !.users = IF outcome = "ok" THEN task[t].app ELSE "error"]
                  ELSE page
  <2>1. page' = p /\ ReportError(outcome) /\ Ends(t) /\ task[t].call = "listUsers"
    BY <1>12 DEF UsersAnswer
  <2>2. CASE Attached(t)
    <3>1. /\ page.kind = "detail" /\ page.by = t /\ task[t].app = page.app
      BY <2>1, <2>2 DEF Attached, BInv, HoldersFit
    <3>2. /\ p \in Page /\ p.kind = page.kind /\ p.app = page.app /\ p.by = page.by
          /\ p.users \in {task[t].app, "error"}
      BY <1>0, <2>2 DEF Page
    <3> HIDE DEF p
    <3>3. p.users \in Apps => p.users = p.app
      BY <3>1, <3>2, Parts
    <3> QED
      BY <1>6, <2>1, <3>2, <3>3
  <2>3. CASE ~Attached(t)
    <3>1. p = page
      BY <2>3
    <3> HIDE DEF p
    <3> QED
      BY <1>0, <1>6, <2>1, <3>1 DEF BInv, UsersBelongToPage
  <2> QED
    BY <2>2, <2>3
<1>13. CASE CheckAnswers(t, outcome)
  <2>1. page' = page /\ ReportError(outcome) /\ Ends(t)
    BY <1>13 DEF CheckAnswers
  <2> QED
    BY <1>0, <1>6, <2>1 DEF BInv, UsersBelongToPage
<1> QED
  BY <1>1, <1>8, <1>9, <1>10, <1>11, <1>12, <1>13

\* Routing takes an event or replaces it, and leaves a page without users.
LEMMA RouteKeeps ==
  ASSUME BInv, Route
  PROVE  BInv'
<1>0. /\ task \in [Tasks -> Task] /\ page \in Page /\ cookie \in {Good, Bad, None}
      /\ MaxEvents \in Nat
      /\ events \in 0..(MaxEvents + 1) /\ hash \in Hashes /\ env \in Envs /\ nav \in BOOLEAN
  BY UiAssumption DEF BInv, TypeOK
<1>1. CASE RouteRedirects
  <2>1. /\ events > MaxEvents => \A t \in Tasks : task[t] = Idle
        /\ hash' \in {"login", "home"} /\ nav' \in BOOLEAN
        /\ UNCHANGED <<env, events, cookie, page, task>>
    BY <1>0, <1>1 DEF RouteRedirects, Redirects, BInv, EventsFit
  <2>2. hash' \in Hashes
    BY <2>1, Parts
  <2>3. TypeOK' /\ EventsFit'
    BY <1>0, <2>1, <2>2 DEF TypeOK, EventsFit
  <2> QED
    BY <2>1, <2>3 DEF BInv, HoldersFit, Idlers, UsersBelongToPage
<1>2. ASSUME NEW h, Routed(h)
      PROVE  /\ hash' = hash /\ cookie' = cookie /\ env' = env /\ nav' \in BOOLEAN
             /\ events' \in 0..MaxEvents
  BY <1>0, <1>2 DEF Routed
<1>3. ASSUME NEW h \in Hashes, RouteSync(h)
      PROVE  BInv'
  <2>1. /\ Routed(h) /\ h \in {"login", "other"} /\ page' = Blank(h) /\ task' = task
    BY <1>3 DEF RouteSync
  <2>2. Blank(h) \in Page /\ Blank(h).kind # "detail"
    BY <2>1, Parts DEF Kinds
  <2>3. TypeOK' /\ EventsFit'
    BY <1>0, <1>2, <2>1, <2>2 DEF TypeOK, EventsFit
  <2> QED
    BY <2>1, <2>2, <2>3 DEF BInv, HoldersFit, Idlers, UsersBelongToPage
<1>4. ASSUME NEW t \in Tasks, NEW h, NEW call, NEW a \in Apps \cup {None}, Routed(h),
             call \in {"listApps", "getAppStatus"}, page' = Blank("loading"), Calls(t, call, a)
      PROVE  BInv'
  <2> DEFINE r == [call |-> call, app |-> a, secret |-> cookie]
  <2>1. r \in Task /\ r.call = call /\ task' = [task EXCEPT ![t] = r]
    BY <1>0, <1>4 DEF Calls, Task
  <2>2. Blank("loading") \in Page /\ Blank("loading").kind # "detail"
    BY Parts DEF Kinds
  <2> HIDE DEF r
  <2>3. /\ task' \in [Tasks -> Task] /\ page' \in Page /\ HoldersFit' /\ Idlers'
        /\ UsersBelongToPage'
    BY <1>4, <2>1, <2>2, TaskTakes
  <2>4. TypeOK' /\ EventsFit'
    BY <1>0, <1>2, <1>4, <2>3 DEF TypeOK, EventsFit
  <2> QED
    BY <2>3, <2>4 DEF BInv
<1>5. ASSUME NEW t \in Tasks, RouteHome(t)
      PROVE  BInv'
  BY <1>4, <1>5 DEF RouteHome
<1>6. ASSUME NEW t \in Tasks, NEW a \in Apps, RouteDetail(t, a)
      PROVE  BInv'
  BY <1>4, <1>6 DEF RouteDetail
<1> QED
  BY <1>1, <1>3, <1>5, <1>6 DEF Route

\* What a person may do, when it may be done, and the end of the cookie.
LEMMA PersonKeeps ==
  ASSUME BInv, Person \/ Expire
  PROVE  BInv'
<1>0. /\ task \in [Tasks -> Task] /\ page \in Page /\ cookie \in {Good, Bad, None}
      /\ MaxEvents \in Nat
      /\ events \in 0..(MaxEvents + 1) /\ hash \in Hashes /\ env \in Envs /\ nav \in BOOLEAN
  BY UiAssumption DEF BInv, TypeOK
<1>1. ASSUME NEW h \in Hashes, NEW c \in {Good, Bad, None}, MayAct, Assign(h), cookie' = c,
             UNCHANGED <<env, nav, page, task>>
      PROVE  BInv'
  <2>1. events' \in {events, events + 1} /\ hash' = h
    BY <1>1 DEF Assign
  <2>2. events < MaxEvents \/ (events = 0 /\ \A t \in Tasks : task[t] = Idle)
    BY <1>1 DEF MayAct, Quiet
  <2>3. events' \in 0..(MaxEvents + 1) /\ (events' > MaxEvents => \A t \in Tasks : task[t] = Idle)
    BY <1>0, <2>1, <2>2
  <2>4. TypeOK' /\ EventsFit'
    BY <1>0, <1>1, <2>1, <2>3 DEF TypeOK, EventsFit
  <2> QED
    BY <1>1, <2>4 DEF BInv, HoldersFit, Idlers, UsersBelongToPage
<1>2. ASSUME NEW h \in Hashes, Navigate(h)
      PROVE  BInv'
  BY <1>0, <1>1, <1>2 DEF Navigate
<1>3. ASSUME NEW secret \in {Good, Bad}, Login(secret)
      PROVE  BInv'
  BY <1>1, <1>3, Parts DEF Login
<1>4. CASE Logout
  BY <1>1, <1>4, Parts DEF Logout
<1>5. ASSUME NEW t \in Tasks, Check(t)
      PROVE  BInv'
  <2> DEFINE r == [call |-> "getUserStatus", app |-> page.users, secret |-> cookie]
  <2>1. r \in Task /\ r.call = "getUserStatus" /\ task' = [task EXCEPT ![t] = r]
    BY <1>0, <1>5 DEF Check, Calls, Task
  <2>2. UNCHANGED <<env, hash, events, cookie, nav, page>> /\ events <= MaxEvents
    BY <1>0, <1>5 DEF Check, MayAct, Quiet
  <2> HIDE DEF r
  <2>3. /\ task' \in [Tasks -> Task] /\ page' \in Page /\ HoldersFit' /\ Idlers'
        /\ UsersBelongToPage'
    BY <1>0, <2>1, <2>2, TaskTakes DEF BInv, UsersBelongToPage
  <2>4. TypeOK' /\ EventsFit'
    BY <1>0, <2>2, <2>3 DEF TypeOK, EventsFit
  <2> QED
    BY <2>3, <2>4 DEF BInv
<1>6. CASE Expire
  <2>1. cookie' = None /\ cookie # None /\ UNCHANGED <<env, hash, events, nav, page, task>>
    BY <1>6 DEF Expire
  <2>2. TypeOK' /\ EventsFit'
    BY <1>0, <2>1 DEF TypeOK, EventsFit, BInv
  <2> QED
    BY <2>1, <2>2 DEF BInv, HoldersFit, Idlers, UsersBelongToPage
<1> QED
  BY <1>2, <1>3, <1>4, <1>5, <1>6 DEF Person

\* The base holds for good.
LEMMA BaseInvariance == Spec => []BInv
<1>1. Init => BInv
  <2> SUFFICES ASSUME Init PROVE BInv
    OBVIOUS
  <2>1. Blank("blank") \in Page /\ Blank("blank").kind # "detail" /\ MaxEvents \in Nat
    BY Parts, UiAssumption DEF Kinds
  <2>2. events = 1 /\ task = [t \in Tasks |-> Idle] /\ page = Blank("blank") /\ nav = FALSE
    BY DEF Init
  <2>3. TypeOK
    <3>1. env \in Envs /\ hash \in Hashes /\ cookie \in {Good, Bad, None} /\ nav \in BOOLEAN
      BY DEF Init
    <3>2. task \in [Tasks -> Task]
      BY <2>2, Parts
    <3>3. events \in 0..(MaxEvents + 1)
      BY <2>1, <2>2
    <3>4. page \in Page
      BY <2>1, <2>2
    <3> QED
      BY <3>1, <3>2, <3>3, <3>4 DEF TypeOK
  <2>4. \A t \in Tasks : task[t] = Idle
    BY <2>2
  <2> QED
    BY <2>1, <2>2, <2>3, <2>4
    DEF BInv, EventsFit, HoldersFit, Idlers, UsersBelongToPage
<1>2. ASSUME BInv, [Next]_vars PROVE BInv'
  <2>1. CASE UNCHANGED vars
    BY <1>2, <2>1 DEF vars, BInv, TypeOK, EventsFit, HoldersFit, Idlers, UsersBelongToPage
  <2>2. CASE Next
    BY <1>2, <2>2, RouteKeeps, AnswerKeeps, PersonKeeps DEF Next, Answers
  <2> QED
    BY <1>2, <2>1, <2>2
<1> QED
  BY <1>1, <1>2, PTL DEF Spec

\* The variables of the router and the pages hold what their types allow, and no
\* more hashchange events wait than the person and one rejection can have caused.
THEOREM UiTypeCorrect == Spec => []TypeOK
<1>1. BInv => TypeOK
  BY DEF BInv
<1> QED
  BY <1>1, BaseInvariance, PTL

\* The users on an app's page are those of the app it shows, however many tasks
\* are in flight, whichever answers last and whatever administrators rename.
THEOREM UsersAreOfThePage == Spec => []UsersBelongToPage
<1>1. BInv => UsersBelongToPage
  BY DEF BInv
<1> QED
  BY <1>1, BaseInvariance, PTL

-----------------------------------------------------------------------------
(* A person who waits *)

Loads(t) == task[t].call \notin {"none", "getUserStatus"}

Checks(t) == task[t].call = "getUserStatus"

\* A page is loaded for the hash, while no event waits.
LoadsHash(t) ==
  /\ events = 0
  /\ task[t].call \in {"listApps", "listUsersOfAll"} => hash = "home"
  /\ task[t].call \in {"getAppStatus", "getAppByName", "listUsers"} =>
       hash = task[t].app /\ hash \in Apps
  /\ task[t].call = "listUsers" => page.kind = "detail" /\ page.app = hash

LoadsAlone == \A t \in Tasks : Loads(t) => LoadsHash(t) /\ \A s \in Tasks \ {t} : task[s] = Idle

\* Users are checked on an app's page, or the check has outlived a rejection.
ChecksFit ==
  \A t \in Tasks : Checks(t) =>
    \/ hash = "login" /\ cookie = None
    \/ events = 0 /\ page.kind = "detail" /\ page.app = hash /\ hash \in Apps

Matches == \/ page.kind = hash /\ page.app = None
           \/ hash \in Apps /\ page.kind = "detail" /\ page.app = hash
           \/ hash \in Apps \cup {"home"} /\ page.kind = "error"

Settled == events = 0 /\ (\A t \in Tasks : ~Loads(t)) => Matches

InOrder == events \in {0, 1} /\ LoadsAlone /\ ChecksFit /\ Settled

Patient == {"impatient", "rename"} \cap env = {}

\* While an event waits nothing is loaded, and what is checked is of no account.
LEMMA EventsWaitAlone ==
  ASSUME BInv, InOrder, events > 0
  PROVE  /\ events = 1 /\ \A t \in Tasks : ~Loads(t)
         /\ hash # "login" \/ cookie # None => \A t \in Tasks : task[t] = Idle
<1>1. events = 1
  BY DEF InOrder
<1>2. \A t \in Tasks : ~Loads(t)
  BY <1>1 DEF InOrder, LoadsAlone, LoadsHash
<1>3. ASSUME hash # "login" \/ cookie # None, NEW t \in Tasks PROVE task[t] = Idle
  <2>1. ~Checks(t)
    BY <1>1, <1>3 DEF InOrder, ChecksFit
  <2> QED
    BY <1>2, <2>1 DEF Loads, Checks, BInv, Idlers
<1> QED
  BY <1>1, <1>2, <1>3

\* Routing starts a page for the hash.
LEMMA RouteOrder ==
  ASSUME BInv, InOrder, Route
  PROVE  InOrder'
<1>0. task \in [Tasks -> Task]
  BY DEF BInv, TypeOK
<1>1. CASE RouteRedirects
  <2>1. /\ events = 1 /\ events' = events /\ task' = task /\ \A t \in Tasks : task[t] = Idle
    BY <1>1, EventsWaitAlone DEF RouteRedirects, Redirects
  <2> QED
    BY <2>1, Parts DEF InOrder, LoadsAlone, ChecksFit, Settled, Loads, Checks
<1>2. ASSUME NEW h, Routed(h)
      PROVE  /\ events = 1 /\ events' = 0 /\ hash = h /\ UNCHANGED <<hash, cookie>>
             /\ \A t \in Tasks : ~Loads(t)
             /\ h # "login" => \A t \in Tasks : task[t] = Idle
  BY <1>2, EventsWaitAlone DEF Routed
<1>3. ASSUME NEW h \in Hashes, RouteSync(h)
      PROVE  InOrder'
  <2>1. /\ Routed(h) /\ page' = Blank(h) /\ task' = task /\ h \in {"login", "other"}
    BY <1>3 DEF RouteSync
  <2>2. page'.kind = h /\ page'.app = None
    BY <2>1, Parts DEF Kinds
  <2>3. events = 1 /\ events' = 0 /\ hash' = h /\ hash = h /\ cookie' = cookie
        /\ \A t \in Tasks : ~Loads(t)
    BY <1>2, <2>1
  <2>4. ChecksFit'
    BY <2>1, <2>3 DEF InOrder, ChecksFit, Checks
  <2>5. LoadsAlone' /\ Settled'
    BY <2>1, <2>2, <2>3 DEF LoadsAlone, Settled, Matches, Loads
  <2> QED
    BY <2>3, <2>4, <2>5 DEF InOrder
<1>4. ASSUME NEW t \in Tasks, NEW h, NEW call, NEW a, Routed(h), Calls(t, call, a), h # "login",
             \/ call = "listApps" /\ h = "home"
             \/ call = "getAppStatus" /\ h = a /\ a \in Apps
      PROVE  InOrder'
  <2>1. events' = 0 /\ hash' = h /\ \A s \in Tasks : task[s] = Idle
    BY <1>2, <1>4
  <2>2. /\ task'[t].call = call /\ task'[t].app = a
        /\ \A s \in Tasks \ {t} : task'[s] = Idle
    BY <1>0, <1>4, <2>1 DEF Calls
  <2>3. Loads(t)' /\ LoadsHash(t)' /\ ~Checks(t)'
    BY <1>4, <2>1, <2>2 DEF Loads, LoadsHash, Checks
  <2>4. \A s \in Tasks \ {t} : ~Loads(s)' /\ ~Checks(s)'
    BY <2>2, Parts DEF Loads, Checks
  <2> QED
    BY <2>1, <2>2, <2>3, <2>4 DEF InOrder, LoadsAlone, ChecksFit, Settled
<1>5. ASSUME NEW t \in Tasks, RouteHome(t)
      PROVE  InOrder'
  BY <1>4, <1>5 DEF RouteHome
<1>6. ASSUME NEW t \in Tasks, NEW a \in Apps, RouteDetail(t, a)
      PROVE  InOrder'
  <2>1. a # "login"
    BY UiAssumption
  <2> QED
    BY <1>4, <1>6, <2>1 DEF RouteDetail
<1> QED
  BY <1>1, <1>3, <1>5, <1>6 DEF Route

\* The answer to the call of a page that is being loaded.
LEMMA LoadOrder ==
  ASSUME BInv, InOrder, Patient, NEW t \in Tasks, Loads(t), NEW outcome,
         \/ ListAppsAnswers(t, outcome) \/ UsersOfAllAnswer(t, outcome)
         \/ StatusAnswers(t, outcome) \/ NameAnswers(t, outcome) \/ UsersAnswer(t, outcome)
  PROVE  InOrder'
<1>0. /\ task \in [Tasks -> Task] /\ events = 0 /\ LoadsHash(t)
      /\ \A s \in Tasks \ {t} : task[s] = Idle
      /\ hash \in Apps \cup {"home"} => hash # "login"
  BY UiAssumption DEF BInv, TypeOK, InOrder, LoadsAlone, LoadsHash
<1>1. ASSUME NEW call, NEW a, Calls(t, call, a), UNCHANGED <<hash, events>>,
             \/ call = "listUsersOfAll" /\ hash = "home"
             \/ call = "getAppByName" /\ hash = a /\ a \in Apps
             \/ call = "listUsers" /\ hash = a /\ a \in Apps /\ page'.kind = "detail"
                /\ page'.app = a
      PROVE  InOrder'
  <2>1. /\ task'[t].call = call /\ task'[t].app = a
        /\ \A s \in Tasks \ {t} : task'[s] = Idle
    BY <1>0, <1>1 DEF Calls
  <2>2. Loads(t)' /\ LoadsHash(t)' /\ ~Checks(t)'
    BY <1>0, <1>1, <2>1 DEF Loads, LoadsHash, Checks
  <2>3. \A s \in Tasks \ {t} : ~Loads(s)' /\ ~Checks(s)'
    BY <2>1, Parts DEF Loads, Checks
  <2> QED
    BY <1>0, <1>1, <2>1, <2>2, <2>3 DEF InOrder, LoadsAlone, ChecksFit, Settled
<1>2. ASSUME Ends(t), hash \in Apps \cup {"home"},
             \/ hash' = "login" /\ events' = 1
             \/ UNCHANGED <<hash, events>> /\ Matches'
      PROVE  InOrder'
  <2>1. \A s \in Tasks : task'[s] = Idle
    BY <1>0, <1>2 DEF Ends
  <2>2. \A s \in Tasks : ~Loads(s)' /\ ~Checks(s)'
    BY <2>1, Parts DEF Loads, Checks
  <2> QED
    BY <1>0, <1>2, <2>2 DEF InOrder, LoadsAlone, ChecksFit, Settled
<1>3. ASSUME NEW o, ReportError(o), hash \in Apps \cup {"home"}
      PROVE  \/ o = "rejected" /\ hash' = "login" /\ events' = 1
             \/ o # "rejected" /\ UNCHANGED <<hash, events>>
  BY <1>0, <1>3 DEF ReportError, Assign, LoginHash
<1>4. ASSUME NEW o, Catch(t, o), hash \in Apps \cup {"home"}
      PROVE  InOrder'
  <2>1. CASE o = "rejected"
    BY <1>2, <1>3, <1>4, <2>1 DEF Catch
  <2>2. CASE o # "rejected"
    <3>1. page' = Blank("error") /\ Ends(t) /\ UNCHANGED <<hash, events>>
      BY <1>3, <1>4, <2>2 DEF Catch
    <3>2. Matches'
      BY <1>4, <3>1, Parts DEF Matches, Kinds
    <3> QED
      BY <1>2, <1>4, <3>1, <3>2
  <2> QED
    BY <2>1, <2>2
<1>5. CASE ListAppsAnswers(t, outcome)
  <2>1. hash = "home"
    BY <1>0, <1>5 DEF ListAppsAnswers, LoadsHash
  <2> QED
    BY <1>1, <1>4, <1>5, <2>1 DEF ListAppsAnswers
<1>6. CASE UsersOfAllAnswer(t, outcome)
  <2>1. hash = "home" /\ page' = Blank("home") /\ Ends(t) /\ UNCHANGED <<hash, events>>
    BY <1>0, <1>6 DEF UsersOfAllAnswer, LoadsHash
  <2>2. Matches'
    BY <2>1, Parts DEF Matches, Kinds
  <2> QED
    BY <1>2, <2>1, <2>2
<1>7. CASE StatusAnswers(t, outcome)
  <2>1. hash = task[t].app /\ hash \in Apps
    BY <1>0, <1>7 DEF StatusAnswers, LoadsHash
  <2> QED
    BY <1>1, <1>4, <1>7, <2>1 DEF StatusAnswers
<1>8. CASE NameAnswers(t, outcome)
  <2>1. hash = task[t].app /\ hash \in Apps
    BY <1>0, <1>8 DEF NameAnswers, LoadsHash
  <2>2. CASE outcome # "ok"
    BY <1>4, <1>8, <2>1, <2>2 DEF NameAnswers
  <2>3. CASE outcome = "ok"
    <3>1. /\ page' = DetailPage(t, hash) /\ Calls(t, "listUsers", hash)
          /\ UNCHANGED <<hash, events>>
      BY <1>8, <2>1, <2>3 DEF NameAnswers, HaveItsName, Patient
    <3>2. page'.kind = "detail" /\ page'.app = hash
      BY <3>1 DEF DetailPage
    <3> QED
      BY <1>1, <2>1, <3>1, <3>2
  <2> QED
    BY <2>2, <2>3
<1>9. CASE UsersAnswer(t, outcome)
  <2>1. /\ hash \in Apps /\ page.kind = "detail" /\ page.app = hash
        /\ Ends(t) /\ ReportError(outcome)
    BY <1>0, <1>9 DEF UsersAnswer, LoadsHash
  <2>2. page'.kind = page.kind /\ page'.app = page.app
    BY <1>9 DEF UsersAnswer, BInv, TypeOK, Page
  <2>3. CASE outcome = "rejected"
    BY <1>2, <1>3, <2>1, <2>3
  <2>4. CASE outcome # "rejected"
    <3>1. UNCHANGED <<hash, events>>
      BY <1>3, <2>1, <2>4
    <3>2. Matches'
      BY <2>1, <2>2, <3>1 DEF Matches
    <3> QED
      BY <1>2, <2>1, <3>1, <3>2
  <2> QED
    BY <2>3, <2>4
<1> QED
  BY <1>5, <1>6, <1>7, <1>8, <1>9

\* The answer to a check: it ends the page's time, or nobody sees it.
LEMMA CheckOrder ==
  ASSUME BInv, InOrder, NEW t \in Tasks, NEW outcome, CheckAnswers(t, outcome)
  PROVE  InOrder'
<1>0. /\ task \in [Tasks -> Task] /\ task[t].call = "getUserStatus" /\ page' = page
      /\ ReportError(outcome) /\ task' = [task EXCEPT ![t] = Idle] /\ "login" \notin Apps
  BY UiAssumption DEF BInv, TypeOK, CheckAnswers, Ends
<1>1. /\ task'[t] = Idle /\ \A s \in Tasks \ {t} : task'[s] = task[s]
  BY <1>0
<1>2. \A s \in Tasks : ~Loads(s)
  BY <1>0, Parts DEF InOrder, LoadsAlone, Loads
<1>3. \A s \in Tasks : ~Loads(s)' /\ (Checks(s)' => Checks(s))
  BY <1>1, <1>2, Parts DEF Loads, Checks
<1>4. \/ hash = "login" /\ cookie = None
      \/ events = 0 /\ page.kind = "detail" /\ page.app = hash /\ hash \in Apps
  BY <1>0 DEF InOrder, ChecksFit, Checks
<1>5. CASE outcome = "rejected" /\ hash # "login"
  <2>1. hash' = "login" /\ cookie' = None /\ events' = 1
    BY <1>0, <1>4, <1>5 DEF ReportError, Assign, LoginHash
  <2> QED
    BY <1>3, <2>1 DEF InOrder, LoadsAlone, ChecksFit, Settled
<1>6. CASE outcome # "rejected" \/ hash = "login"
  <2>1. UNCHANGED <<hash, cookie, events>>
    BY <1>0, <1>4, <1>6 DEF ReportError, Assign, LoginHash
  <2>2. ChecksFit'
    BY <1>0, <1>3, <2>1 DEF InOrder, ChecksFit
  <2>3. LoadsAlone' /\ Settled'
    BY <1>0, <1>2, <1>3, <2>1 DEF InOrder, LoadsAlone, Settled, Matches
  <2> QED
    BY <2>1, <2>2, <2>3 DEF InOrder
<1> QED
  BY <1>5, <1>6

\* A person who waits finds nothing in flight but checks.
LEMMA PersonOrder ==
  ASSUME BInv, InOrder, Patient, Person \/ Expire
  PROVE  InOrder'
<1>0. task \in [Tasks -> Task]
  BY DEF BInv, TypeOK
<1>1. ASSUME NEW h, MayAct, Assign(h), UNCHANGED <<page, task>>
      PROVE  InOrder'
  <2>1. events = 0 /\ \A t \in Tasks : task[t] = Idle
    BY <1>1 DEF MayAct, Quiet, Patient
  <2>2. \A t \in Tasks : ~Loads(t) /\ ~Checks(t) /\ ~Loads(t)' /\ ~Checks(t)'
    BY <1>1, <2>1, Parts DEF Loads, Checks
  <2>3. \/ events' = 1
        \/ events' = 0 /\ hash' = hash
    BY <1>1, <2>1 DEF Assign
  <2>4. Settled'
    BY <1>1, <2>1, <2>2, <2>3 DEF InOrder, Settled, Matches
  <2> QED
    BY <2>2, <2>3, <2>4 DEF InOrder, LoadsAlone, ChecksFit
<1>2. ASSUME NEW t \in Tasks, Check(t)
      PROVE  InOrder'
  <2>1. /\ events = 0 /\ page.kind = "detail" /\ page.users \in Apps
        /\ UNCHANGED <<hash, events, cookie, page>> /\ \A s \in Tasks : ~Loads(s)
    BY <1>2, Parts DEF Check, MayAct, Quiet, Patient, Loads
  <2>2. /\ task'[t].call = "getUserStatus" /\ \A s \in Tasks \ {t} : task'[s] = task[s]
    BY <1>0, <1>2 DEF Check, Calls
  <2>3. page.app = hash /\ hash \in Apps
    <3>1. page.app \in Apps /\ None \notin Apps
      BY <2>1, Parts DEF BInv, UsersBelongToPage
    <3> QED
      BY <2>1, <3>1 DEF InOrder, Settled, Matches
  <2>4. \A s \in Tasks : ~Loads(s)'
    BY <2>1, <2>2 DEF Loads
  <2>5. ChecksFit' /\ LoadsAlone'
    BY <2>1, <2>3, <2>4 DEF ChecksFit, LoadsAlone
  <2>6. Settled'
    BY <2>1, <2>3 DEF Settled, Matches
  <2> QED
    BY <2>1, <2>5, <2>6 DEF InOrder
<1>3. CASE Expire
  <2>1. cookie' = None /\ UNCHANGED <<hash, events, page, task>>
    BY <1>3 DEF Expire
  <2> QED
    BY <2>1 DEF InOrder, LoadsAlone, LoadsHash, ChecksFit, Settled, Matches, Loads, Checks
<1> QED
  BY <1>1, <1>2, <1>3 DEF Person, Navigate, Login, Logout

\* While a person waits and apps keep their names, the page that has settled is
\* the one the hash names or an error with a text: whatever calls fail or are
\* rejected, whenever the cookie expires, and however many users are being checked.
THEOREM PageIsTheOneNamed == Spec => []PageMatchesHash
<1> DEFINE PInv == BInv /\ (Patient => InOrder)
<1>1. Init => InOrder
  <2> SUFFICES ASSUME Init PROVE InOrder
    OBVIOUS
  <2>1. events = 1 /\ \A t \in Tasks : task[t] = Idle
    BY DEF Init
  <2> QED
    BY <2>1, Parts DEF InOrder, LoadsAlone, ChecksFit, Settled, Loads, Checks
<1>2. ASSUME BInv, InOrder, Patient, [Next]_vars PROVE InOrder'
  <2>1. CASE UNCHANGED vars
    BY <1>2, <2>1
    DEF vars, InOrder, LoadsAlone, LoadsHash, ChecksFit, Settled, Matches, Loads, Checks
  <2>2. ASSUME NEW t \in Tasks, Answers(t)
        PROVE  InOrder'
    <3>1. PICK outcome \in {"ok", "rejected", "failed"} :
            \/ ListAppsAnswers(t, outcome) \/ UsersOfAllAnswer(t, outcome)
            \/ StatusAnswers(t, outcome) \/ NameAnswers(t, outcome)
            \/ UsersAnswer(t, outcome) \/ CheckAnswers(t, outcome)
      BY <2>2 DEF Answers
    <3>2. CASE CheckAnswers(t, outcome)
      BY <1>2, <3>2, CheckOrder
    <3>3. CASE ~CheckAnswers(t, outcome)
      <4>1. Loads(t)
        BY <3>1, <3>3 DEF Loads, ListAppsAnswers, UsersOfAllAnswer, StatusAnswers, NameAnswers,
                          UsersAnswer
      <4> QED
        BY <1>2, <3>1, <3>3, <4>1, LoadOrder
    <3> QED
      BY <3>2, <3>3
  <2> QED
    BY <1>2, <2>1, <2>2, RouteOrder, PersonOrder DEF Next
<1>3. ASSUME [Next]_vars PROVE Patient' => Patient
  <2>1. env' = env
    BY <1>3 DEF vars, Next, Route, RouteRedirects, RouteSync, RouteHome, RouteDetail, Routed,
                Answers, ListAppsAnswers, UsersOfAllAnswer, StatusAnswers, NameAnswers, UsersAnswer,
                CheckAnswers, Person, Navigate, Login, Logout, Check, Expire
  <2> QED
    BY <2>1 DEF Patient
<1>4. BInv /\ (Patient => InOrder) => PageMatchesHash
  <2> SUFFICES ASSUME InOrder, Quiet, BInv PROVE Matches
    BY DEF PageMatchesHash, Matches, Patient
  <2> QED
    BY Parts DEF InOrder, Settled, Quiet, Loads
<1>5. BInv /\ (Patient => InOrder) /\ [Next]_vars => (Patient => InOrder)'
  BY <1>2, <1>3
<1>6. Init => (Patient => InOrder)
  BY <1>1
<1> QED
  BY <1>4, <1>5, <1>6, BaseInvariance, PTL DEF Spec
=============================================================================
