---------------------------- MODULE SetupScript -----------------------------
(***************************************************************************)
(* The narrated setup scripts, exact-setup.ts and nmbrs-setup.ts: one      *)
(* process per run, which asks a person questions and makes one call of    *)
(* wowauth's API after the other.  A call that fails ends the process, and *)
(* the way on is another run that reuses the connection by its name.  The  *)
(* key pair of a run lives in its memory until the secrets file is written *)
(* near the end.                                                           *)
(*                                                                         *)
(* A run's name also stands for what only it draws: its key pair, the id   *)
(* of the app it registers, the state and verifier of its login.           *)
(***************************************************************************)
EXTENDS Naturals, FiniteSets

CONSTANTS
  Runs,       \* executions of either script
  Script,     \* which one each run executes, "exact" or "nmbrs"
  Names,      \* names a connection may be given
  Settings,   \* what the picker offers: a country, or a choice of scopes
  Right,      \* the settings with which the provider lets the account log in
  Env,        \* what the environment may do, a subset of AllEnv
  MaxUsers    \* bound on the users that are ever connected

Scripts == {"exact", "nmbrs"}

AllEnv == {"fail",      \* the person stops, or a call fails or is not answered
           "connect",   \* other people log in, except at an app that a run has just rekeyed
           "delete",    \* administrators delete users
           "overlap"}   \* runs overlap each other, and other people log in at any time

None == 0   \* users start at 1

ASSUME ScriptAssumption ==
  /\ Script \in [Runs -> Scripts] /\ None \notin Runs
  /\ Right \subseteq Settings
  /\ Env \subseteq AllEnv /\ MaxUsers \in Nat

VARIABLES
  apps,   \* the apps table with the tokens of each app
  file,   \* the secrets file each script writes
  run,    \* locals of the runs
  born,   \* number of users ever connected; the last one's id
  gone    \* history: ids of users that administrators deleted

vars == <<apps, file, run, born, gone>>

-----------------------------------------------------------------------------
(* The state *)

App == [name : Names, setting : Settings,
        key : Runs,                               \* public_key
        callback : BOOLEAN,                       \* redirect_url is set
        client : Scripts \cup {"pending", "bad"}, \* whose credentials it has
        users : SUBSET Nat]                       \* ids of its tokens rows

NoApp == [name |-> None]

Secrets == [app : Runs, user : Nat \ {None}, key : Runs]

NoFile == [app |-> None]

Ended == {"done", "aborted", "failed"}
Pc    == Ended \cup {"start", "name", "lookup", "status", "confirm", "rotate", "create", "callback",
                     "client", "login", "token", "users", "prove"}

Local == [pc : Pc, setting : Settings \cup {None}, name : Names \cup {None},
          app : Runs \cup {None}, yes : BOOLEAN,
          since : Nat,   \* history: users from this id on came after the count
          login : Nat,   \* whose login it asked for; the code it pasted knows
          user : Nat]    \* userId

NewRun == [pc |-> "start", setting |-> None, name |-> None, app |-> None, yes |-> FALSE,
           since |-> None, login |-> None, user |-> None]

Live(r) == run[r].pc \notin Ended \cup {"start"}

\* The next run may begin.
Free == "overlap" \in Env \/ \A r \in Runs : ~Live(r)

\* No run is at work on app `a` with its own key.
Vacant(a) ==
  \A r \in Runs : Live(r) /\ run[r].app = a => run[r].pc \in {"status", "confirm", "rotate"}

Init ==
  /\ apps = [r \in Runs |-> NoApp]
  /\ file = [s \in Scripts |-> NoFile]
  /\ run = [r \in Runs |-> NewRun]
  /\ born = 0 /\ gone = {}

Goes(r, pc) == run' = [run EXCEPT ![r].pc = pc]

\* fail, and a `call` whose answer is not 2xx: the process exits.
Exits(r) == Goes(r, "failed") /\ UNCHANGED <<apps, file, born, gone>>

-----------------------------------------------------------------------------
(* Questions *)

Select(r, setting) ==
  /\ run[r].pc = "start" /\ Free
  /\ run' = [run EXCEPT ![r].pc = "name", ![r].setting = setting]
  /\ UNCHANGED <<apps, file, born, gone>>

\* selectCountry: one of the list.
SelectCountry(r, country) == Script[r] = "exact" /\ Select(r, country)

\* selectScopes: the mandatory ones and those left checked.
SelectScopes(r, scopes) == Script[r] = "nmbrs" /\ Select(r, scopes)

\* A key pair is made; then a name to reuse is given, or a name for a new app.
AskName(r, name, next) ==
  /\ run[r].pc = "name" /\ next \in {"lookup", "create"}
  /\ run' = [run EXCEPT ![r].pc = next, ![r].name = name]
  /\ UNCHANGED <<apps, file, born, gone>>

-----------------------------------------------------------------------------
(* A connection is reused *)

\* Apps called `name`; the name is UNIQUE.
Named(name) == {a \in Runs : apps[a] # NoApp /\ apps[a].name = name}

LookupFinds(r) ==
  /\ run[r].pc = "lookup"
  /\ \E a \in Named(run[r].name) :
       run' = [run EXCEPT ![r].pc = "status", ![r].app = a]
  /\ UNCHANGED <<apps, file, born, gone>>

LookupFails(r) == run[r].pc = "lookup" /\ Named(run[r].name) = {} /\ Exits(r)

\* Mutant of MustConfirm: a single user is not worth a question.
ConfirmMany(users) == Cardinality(users) > 1

MustConfirm(users) == users # {}

\* The users of the app are counted, and the person is asked if there are any.
StatusAnswers(r) ==
  /\ run[r].pc = "status"
  /\ run' = [run EXCEPT ![r].pc = IF MustConfirm(apps[run[r].app].users) THEN "confirm" ELSE "rotate",
                        ![r].since = born + 1]
  /\ UNCHANGED <<apps, file, born, gone>>

\* "yes", or anything else.
Confirm(r) ==
  /\ run[r].pc = "confirm"
  /\ run' \in {[run EXCEPT ![r].pc = "rotate", ![r].yes = TRUE],
               [run EXCEPT ![r].pc = "aborted"]}
  /\ UNCHANGED <<apps, file, born, gone>>

\* Mutant of Rotated: the users outlive the key.
KeepUsers(app, key) == [app EXCEPT !.key = key]

\* update_app with another public_key deletes every user of the app.
Rotated(app, key) == [app EXCEPT !.key = key, !.users = {}]

\* The first call that changes anything.  The setting just selected is not sent.
RotateAnswers(r) ==
  /\ run[r].pc = "rotate"
  /\ apps' = [apps EXCEPT ![run[r].app] = Rotated(@, r)]
  /\ Goes(r, "callback")
  /\ UNCHANGED <<file, born, gone>>

-----------------------------------------------------------------------------
(* ... or registered *)

\* Mutant of NewApp: the app is inserted without the key.
KeylessApp(r) == [name |-> run[r].name, setting |-> run[r].setting, key |-> None, callback |-> FALSE,
                  client |-> "pending", users |-> {}]

\* The app asked for: client and redirect_url are placeholders.
NewApp(r) == [name |-> run[r].name, setting |-> run[r].setting, key |-> r, callback |-> FALSE,
              client |-> "pending", users |-> {}]

CreateAnswers(r) ==
  /\ run[r].pc = "create" /\ Named(run[r].name) = {}
  /\ apps' = [apps EXCEPT ![r] = NewApp(r)]
  /\ run' = [run EXCEPT ![r].pc = "callback", ![r].app = r]
  /\ UNCHANGED <<file, born, gone>>

\* 409.
CreateFails(r) == run[r].pc = "create" /\ Named(run[r].name) # {} /\ Exits(r)

-----------------------------------------------------------------------------
(* Both go on: callback, client, login *)

CallbackAnswers(r) ==
  /\ run[r].pc = "callback"
  /\ apps' = [apps EXCEPT ![run[r].app].callback = TRUE]
  /\ Goes(r, "client")
  /\ UNCHANGED <<file, born, gone>>

\* The person registers the app at the script's provider, also when an earlier
\* run has done so, and pastes the credentials, perhaps with a typo.
ClientAnswers(r) ==
  /\ run[r].pc = "client"
  /\ \E client \in {Script[r], "bad"} : apps' = [apps EXCEPT ![run[r].app].client = client]
  /\ Goes(r, "login")
  /\ UNCHANGED <<file, born, gone>>

\* A login can succeed: the app has its callback, credentials of its own
\* provider, and a setting that this provider accepts for the account.
Ready(app, a) == app.callback /\ app.client = Script[a] /\ app.setting \in Right

\* upsert_token: an account that has a user keeps it, another one gets a new id.
Connected(a, u) ==
  /\ u \in apps[a].users \cup {born + 1} /\ u <= MaxUsers
  /\ apps' = [apps EXCEPT ![a].users = @ \cup {u}]
  /\ born' = IF u > born THEN u ELSE born

\* The person logs in at the link and pastes the URL the browser lands on.
LoginSucceeds(r, u) ==
  /\ run[r].pc = "login" /\ Ready(apps[run[r].app], run[r].app)
  /\ Connected(run[r].app, u)
  /\ run' = [run EXCEPT ![r].pc = "token", ![r].login = u]
  /\ UNCHANGED <<file, gone>>

\* The browser lands on an error, or on no page at all.
LoginFails(r) == run[r].pc = "login" /\ ~Ready(apps[run[r].app], run[r].app) /\ Exits(r)

\* The code goes with the user it was issued for (ON DELETE CASCADE).
Redeemable(r) == run[r].login \in apps[run[r].app].users

TokenAnswers(r) ==
  /\ run[r].pc = "token" /\ Redeemable(r)
  /\ Goes(r, "users") /\ UNCHANGED <<apps, file, born, gone>>

TokenFails(r) == run[r].pc = "token" /\ ~Redeemable(r) /\ Exits(r)

-----------------------------------------------------------------------------
(* The secrets *)

\* Mutant of Written: a file that exists is left alone.
WrittenOnce(old, new) == IF old = NoFile THEN new ELSE old

\* writeFileSync replaces what a former run has written.
Written(old, new) == new

\* listUsers is answered in no particular order: users[0] goes into the file.
UsersAnswers(r) ==
  /\ run[r].pc = "users"
  /\ \E u \in apps[run[r].app].users :
       /\ run' = [run EXCEPT ![r].pc = "prove", ![r].user = u]
       /\ file' = [file EXCEPT ![Script[r]] = Written(@, [app |-> run[r].app, user |-> u, key |-> r])]
  /\ UNCHANGED <<apps, born, gone>>

UsersFails(r) == run[r].pc = "users" /\ apps[run[r].app].users = {} /\ Exits(r)

\* The token of that user is fetched and the provider called: any answer will
\* do, and the script says that all is done.
ProveAnswers(r) ==
  /\ run[r].pc = "prove" /\ run[r].user \in apps[run[r].app].users
  /\ Goes(r, "done") /\ UNCHANGED <<apps, file, born, gone>>

ProveFails(r) ==
  /\ run[r].pc = "prove" /\ run[r].user \notin apps[run[r].app].users
  /\ Exits(r)

-----------------------------------------------------------------------------
(* The environment *)

\* A call that was not served, or was served without its answer arriving (then
\* its own step came first); a URL of another login; Ctrl-C.
Fail(r) == "fail" \in Env /\ Live(r) /\ Exits(r)

\* Somebody else logs in at an app.
Connect(a, u) ==
  /\ "overlap" \in Env \/ ("connect" \in Env /\ Vacant(a))
  /\ apps[a] # NoApp /\ Ready(apps[a], a)
  /\ Connected(a, u)
  /\ UNCHANGED <<file, run, gone>>

\* delete_user.
DeleteUser(a, u) ==
  /\ "delete" \in Env /\ apps[a] # NoApp /\ u \in apps[a].users
  /\ apps' = [apps EXCEPT ![a].users = @ \ {u}]
  /\ gone' = gone \cup {u}
  /\ UNCHANGED <<file, run, born>>

-----------------------------------------------------------------------------
Answers(r) ==
  \/ LookupFinds(r) \/ LookupFails(r) \/ StatusAnswers(r) \/ Confirm(r) \/ RotateAnswers(r)
  \/ CreateAnswers(r) \/ CreateFails(r) \/ CallbackAnswers(r) \/ ClientAnswers(r)
  \/ LoginFails(r) \/ TokenAnswers(r) \/ TokenFails(r)
  \/ UsersAnswers(r) \/ UsersFails(r) \/ ProveAnswers(r) \/ ProveFails(r)

Next ==
  \/ \E r \in Runs :
       \/ \E setting \in Settings : SelectCountry(r, setting) \/ SelectScopes(r, setting)
       \/ \E name \in Names, next \in {"lookup", "create"} : AskName(r, name, next)
       \/ Answers(r)
       \/ \E u \in 1..MaxUsers : LoginSucceeds(r, u)
       \/ Fail(r)
  \/ \E a \in Runs, u \in 1..MaxUsers : Connect(a, u) \/ DeleteUser(a, u)

Spec == Init /\ [][Next]_vars

-----------------------------------------------------------------------------
(* Properties *)

\* The tables, the files and the locals of the runs hold what their columns and
\* types allow; in particular every app has a key, whichever way it came about.
TypeOK ==
  /\ apps \in [Runs -> App \cup {NoApp}]
  /\ file \in [Scripts -> Secrets \cup {NoFile}]
  /\ run \in [Runs -> Local]
  /\ born \in 0..MaxUsers /\ gone \subseteq 1..born

\* The secrets file names the user whose login the run that wrote it has asked
\* for, although the run takes the first of an unordered list of users: the
\* users of former runs are gone by then (update_app has deleted them).
SavedUserIsTheLogin ==
  \A s \in Scripts : file[s] # NoFile => file[s].user = run[file[s].key].login

\* "That's all you'll need going forward": as long as no other run on the same
\* app was told "yes", a secrets file has the app's key and a connected user, if
\* no administrator has deleted him.
SecretsLostByConsent ==
  \A s \in Scripts :
    LET f == file[s]
    IN \/ f = NoFile
       \/ apps[f.app].key = f.key /\ f.user \in apps[f.app].users
       \/ f.user \in gone
       \/ \E r \in Runs \ {f.key} : run[r].yes /\ run[r].app = f.app

\* But for administrators, nobody who was connected when a run counted the users of
\* an app is disconnected unless that run was told "yes", whoever else logs in,
\* rotates the key or is deleted in the meantime ("which disconnects all of them.
\* Type "yes" to continue").  Who logs in after the count is not spoken of.
CountedLeaveByConsent ==
  [][\A a \in Runs :
       apps[a] # NoApp =>
         \A u \in apps[a].users \ (apps'[a].users \cup gone') :
           LET r == run[apps'[a].key] IN r.yes \/ u >= r.since]_vars

\* When a run says that all is done, the file of its script is its own: the key
\* in it is the app's, and the user in it is connected there.
DoneSecretsWork ==
  [][\A r \in Runs : run'[r].pc = "done" /\ run[r].pc # "done"
       => LET f == file'[Script[r]]
          IN f.key = r /\ apps'[f.app].key = r /\ f.user \in apps'[f.app].users]_vars

=============================================================================
