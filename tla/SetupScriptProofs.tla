-------------------------- MODULE SetupScriptProofs --------------------------
(***************************************************************************)
(* Theorems about SetupScript, for every value of its constants.           *)
(***************************************************************************)
EXTENDS SetupScript, TLAPS

-----------------------------------------------------------------------------
(* Type correctness *)

\* The questions and calls that are about an app.
AppPc == {"status", "confirm", "rotate", "callback", "client", "login", "token", "users", "prove",
          "done"}

\* An app is created with a setting and a name, and what is done is done to an
\* app that is there.
LocalsFit ==
  \A r \in Runs :
    /\ run[r].pc \notin Ended \cup {"start"} => run[r].setting \in Settings
    /\ run[r].pc = "create" => run[r].name \in Names
    /\ run[r].pc \in AppPc => run[r].app \in Runs /\ apps[run[r].app] # NoApp

\* Nobody is connected before he is born.
UsersAreBorn == \A a \in Runs : apps[a] # NoApp => apps[a].users \subseteq 1..born

TInv == TypeOK /\ LocalsFit /\ UsersAreBorn

\* A row is not its absence.
LEMMA NoAppIsNoApp == NoApp \notin App
<1>1. \A x \in App : DOMAIN x = {"name", "setting", "key", "callback", "client", "users"}
  BY DEF App
<1>2. DOMAIN NoApp = {"name"}
  BY DEF NoApp
<1> QED
  BY <1>1, <1>2

\* What a file holds is not its absence.
LEMMA NoFileIsNoSecret == NoFile \notin Secrets
<1>1. \A x \in Secrets : DOMAIN x = {"app", "user", "key"}
  BY DEF Secrets
<1>2. DOMAIN NoFile = {"app"}
  BY DEF NoFile
<1> QED
  BY <1>1, <1>2

\* A step of one run: its locals change, and at most the app it is about, whose
\* users are those already born.
LEMMA StepType ==
  ASSUME TInv, NEW r \in Runs, NEW l \in Local, run' = [run EXCEPT ![r] = l],
         l.pc \notin Ended \cup {"start"} => l.setting \in Settings,
         l.pc = "create" => l.name \in Names,
         l.pc \in AppPc => l.app \in Runs /\ apps'[l.app] # NoApp,
         NEW a \in Runs, NEW row \in App \cup {NoApp},
         apps' = apps \/ (apps' = [apps EXCEPT ![a] = row] /\ row # NoApp),
         row # NoApp => row.users \subseteq 1..born',
         born' \in born..MaxUsers, UNCHANGED <<file, gone>>
  PROVE  TInv'
<1>1. /\ run \in [Runs -> Local] /\ apps \in [Runs -> App \cup {NoApp}] /\ born \in 0..MaxUsers
      /\ MaxUsers \in Nat /\ born' \in 0..MaxUsers /\ 1..born \subseteq 1..born'
  BY ScriptAssumption DEF TInv, TypeOK
<1>2. /\ apps' \in [Runs -> App \cup {NoApp}]
      /\ \A b \in Runs : apps'[b] = apps[b] \/ (b = a /\ apps'[b] = row /\ row # NoApp)
  BY <1>1
<1>3. UsersAreBorn'
  BY <1>1, <1>2 DEF TInv, UsersAreBorn
<1>4. LocalsFit'
  BY <1>1, <1>2 DEF TInv, LocalsFit
<1> QED
  BY <1>1, <1>2, <1>3, <1>4 DEF TInv, TypeOK

\* A run that goes on with the app it has, or ends.
LEMMA GoesType ==
  ASSUME TInv, NEW r \in Runs, NEW l \in Local, run' = [run EXCEPT ![r] = l],
         l.pc \notin Ended \cup {"start"} => l.setting \in Settings,
         l.pc = "create" => l.name \in Names,
         l.pc \in AppPc => l.app \in Runs /\ apps[l.app] # NoApp,
         UNCHANGED <<apps, file, born, gone>>
  PROVE  TInv'
<1>1. /\ apps[r] \in App \cup {NoApp} /\ born' \in born..MaxUsers
      /\ apps[r] # NoApp => apps[r].users \subseteq 1..born'
  BY ScriptAssumption DEF TInv, TypeOK, UsersAreBorn
<1> QED
  BY <1>1, StepType

\* The locals of a run that goes to another question or call.
LEMMA LocalOf ==
  ASSUME TInv, NEW r \in Runs, NEW pc \in Pc
  PROVE  /\ run[r] \in Local /\ [run[r] EXCEPT !.pc = pc] \in Local
         /\ [run[r] EXCEPT !.pc = pc].pc = pc
         /\ [run[r] EXCEPT !.pc = pc].app = run[r].app
         /\ [run[r] EXCEPT !.pc = pc].setting = run[r].setting
         /\ [run[r] EXCEPT !.pc = pc].name = run[r].name
         /\ [run[r] EXCEPT !.pc = pc].yes = run[r].yes
         /\ [run[r] EXCEPT !.pc = pc].login = run[r].login
         /\ [run[r] EXCEPT !.pc = pc].user = run[r].user
         /\ [run[r] EXCEPT !.pc = pc].since = run[r].since
BY DEF TInv, TypeOK, Local

\* A run that ends leaves everything else as it is.
LEMMA ExitsType ==
  ASSUME TInv, NEW r \in Runs, Exits(r)
  PROVE  TInv'
<1> DEFINE l == [run[r] EXCEPT !.pc = "failed"]
<1>1. "failed" \in Pc /\ "failed" \in Ended /\ "failed" \notin AppPc
  BY DEF Pc, Ended, AppPc
<1>2. l \in Local /\ l.pc = "failed"
  BY <1>1, LocalOf
<1>3. run' = [run EXCEPT ![r] = l] /\ UNCHANGED <<apps, file, born, gone>>
  BY DEF Exits, Goes
<1> HIDE DEF l
<1> QED
  BY <1>1, <1>2, <1>3, GoesType

\* A call on the run's app sets columns of it; the run goes on.
LEMMA CallType ==
  ASSUME TInv, NEW r \in Runs, NEW pc \in AppPc, run[r].pc \in AppPc \ {"done"},
         NEW row \in App, apps' = [apps EXCEPT ![run[r].app] = row], Goes(r, pc),
         row.users \subseteq 1..born, UNCHANGED <<file, born, gone>>
  PROVE  TInv'
<1> DEFINE l == [run[r] EXCEPT !.pc = pc]
           a == run[r].app
<1>1. pc \in Pc /\ run[r].pc \in AppPc /\ run[r].pc \notin Ended \cup {"start"} /\ pc # "create"
  BY DEF AppPc, Pc, Ended
<1>2. l \in Local /\ l.pc = pc /\ l.app = a /\ l.setting = run[r].setting
  BY <1>1, LocalOf
<1>3. a \in Runs /\ apps[a] # NoApp /\ run[r].setting \in Settings
  BY <1>1 DEF TInv, LocalsFit
<1>4. row # NoApp /\ run' = [run EXCEPT ![r] = l] /\ born' \in born..MaxUsers
  BY NoAppIsNoApp, ScriptAssumption DEF Goes, TInv, TypeOK
<1>5. apps'[a] # NoApp
  BY <1>3, <1>4 DEF TInv, TypeOK
<1> HIDE DEF l, a
<1> QED
  BY <1>1, <1>2, <1>3, <1>4, <1>5, StepType DEF a

\* Every step, of a run or of others, keeps the types.
LEMMA NextType ==
  ASSUME TInv, Next
  PROVE  TInv'
<1>0. /\ run \in [Runs -> Local] /\ apps \in [Runs -> App \cup {NoApp}] /\ born \in 0..MaxUsers
      /\ MaxUsers \in Nat /\ file \in [Scripts -> Secrets \cup {NoFile}] /\ gone \subseteq 1..born
  BY ScriptAssumption DEF TInv, TypeOK
<1>1. ASSUME NEW r \in Runs, NEW setting \in Settings, Select(r, setting)
      PROVE  TInv'
  <2> DEFINE l == [run[r] EXCEPT !.pc = "name", !.setting = setting]
  <2>1. l \in Local /\ l.pc = "name" /\ l.setting = setting
    BY <1>0 DEF Local, Pc
  <2>2. run' = [run EXCEPT ![r] = l] /\ UNCHANGED <<apps, file, born, gone>>
    BY <1>1 DEF Select
  <2> HIDE DEF l
  <2> QED
    BY <2>1, <2>2, GoesType DEF AppPc
<1>2. ASSUME NEW r \in Runs, NEW name \in Names, NEW next \in {"lookup", "create"},
             AskName(r, name, next)
      PROVE  TInv'
  <2> DEFINE l == [run[r] EXCEPT !.pc = next, !.name = name]
  <2>1. l \in Local /\ l.pc = next /\ l.name = name /\ l.setting = run[r].setting
    BY <1>0 DEF Local, Pc
  <2>2. /\ run' = [run EXCEPT ![r] = l] /\ UNCHANGED <<apps, file, born, gone>>
        /\ run[r].pc = "name"
    BY <1>2 DEF AskName
  <2>3. run[r].setting \in Settings
    BY <2>2 DEF TInv, LocalsFit, Ended
  <2> HIDE DEF l
  <2> QED
    BY <2>1, <2>2, <2>3, GoesType DEF AppPc
<1>3. ASSUME NEW r \in Runs, LookupFinds(r)
      PROVE  TInv'
  <2>1. PICK a \in Named(run[r].name) : run' = [run EXCEPT ![r].pc = "status", ![r].app = a]
    BY <1>3 DEF LookupFinds
  <2> DEFINE l == [run[r] EXCEPT !.pc = "status", !.app = a]
  <2>2. a \in Runs /\ apps[a] # NoApp
    BY DEF Named
  <2>3. l \in Local /\ l.pc = "status" /\ l.app = a /\ l.setting = run[r].setting
    BY <1>0, <2>2 DEF Local, Pc
  <2>4. run' = [run EXCEPT ![r] = l] /\ UNCHANGED <<apps, file, born, gone>>
    BY <1>3, <2>1 DEF LookupFinds
  <2>5. run[r].setting \in Settings
    BY <1>3 DEF LookupFinds, TInv, LocalsFit, Ended
  <2> HIDE DEF l
  <2> QED
    BY <2>2, <2>3, <2>4, <2>5, GoesType
<1>4. ASSUME NEW r \in Runs, NEW pc \in AppPc \cup {"aborted"}, run[r].pc \in AppPc \ {"done"},
             Goes(r, pc), UNCHANGED <<apps, file, born, gone>>
      PROVE  TInv'
  <2> DEFINE l == [run[r] EXCEPT !.pc = pc]
  <2>1. pc \in Pc /\ run[r].pc \in AppPc /\ run[r].pc \notin Ended \cup {"start"} /\ pc # "create"
        /\ "aborted" \in Ended
    BY <1>4 DEF AppPc, Pc, Ended
  <2>2. l \in Local /\ l.pc = pc /\ l.app = run[r].app /\ l.setting = run[r].setting
    BY <2>1, LocalOf
  <2>3. run[r].app \in Runs /\ apps[run[r].app] # NoApp /\ run[r].setting \in Settings
    BY <2>1 DEF TInv, LocalsFit
  <2>4. run' = [run EXCEPT ![r] = l]
    BY <1>4 DEF Goes
  <2> HIDE DEF l
  <2> QED
    BY <1>4, <2>1, <2>2, <2>3, <2>4, GoesType
<1>5. ASSUME NEW r \in Runs, TokenAnswers(r) \/ ProveAnswers(r)
      PROVE  TInv'
  <2>1. PICK pc \in AppPc : Goes(r, pc)
    BY <1>5 DEF TokenAnswers, ProveAnswers, AppPc
  <2>2. run[r].pc \in AppPc \ {"done"} /\ UNCHANGED <<apps, file, born, gone>>
    BY <1>5 DEF TokenAnswers, ProveAnswers, AppPc
  <2> QED
    BY <1>4, <2>1, <2>2
<1>16. ASSUME NEW r \in Runs, StatusAnswers(r)
       PROVE  TInv'
  <2>1. PICK pc \in {"confirm", "rotate"} :
          run' = [run EXCEPT ![r].pc = pc, ![r].since = born + 1]
    BY <1>16 DEF StatusAnswers
  <2> DEFINE l == [run[r] EXCEPT !.pc = pc, !.since = born + 1]
  <2>5. born + 1 \in Nat /\ pc \in Pc
    BY <1>0 DEF Pc
  <2>2. l \in Local /\ l.pc = pc /\ l.app = run[r].app /\ l.setting = run[r].setting
    BY <1>0, <2>5 DEF Local
  <2>3. run[r].app \in Runs /\ apps[run[r].app] # NoApp /\ run[r].setting \in Settings
    BY <1>16 DEF StatusAnswers, TInv, LocalsFit, AppPc, Ended
  <2>4. run' = [run EXCEPT ![r] = l] /\ UNCHANGED <<apps, file, born, gone>>
    BY <1>16, <2>1 DEF StatusAnswers
  <2> HIDE DEF l
  <2> QED
    BY <2>2, <2>3, <2>4, GoesType
<1>6. ASSUME NEW r \in Runs, Confirm(r)
      PROVE  TInv'
  <2>1. CASE run' = [run EXCEPT ![r].pc = "aborted"]
    <3>1. /\ Goes(r, "aborted") /\ run[r].pc \in AppPc \ {"done"}
          /\ UNCHANGED <<apps, file, born, gone>>
      BY <1>6, <2>1 DEF Confirm, Goes, AppPc
    <3> QED
      BY <1>4, <3>1
  <2>2. CASE run' = [run EXCEPT ![r].pc = "rotate", ![r].yes = TRUE]
    <3> DEFINE l == [run[r] EXCEPT !.pc = "rotate", !.yes = TRUE]
    <3>1. l \in Local /\ l.pc = "rotate" /\ l.app = run[r].app /\ l.setting = run[r].setting
      BY <1>0 DEF Local, Pc
    <3>2. run[r].app \in Runs /\ apps[run[r].app] # NoApp /\ run[r].setting \in Settings
      BY <1>6 DEF Confirm, TInv, LocalsFit, AppPc, Ended
    <3>3. run' = [run EXCEPT ![r] = l] /\ UNCHANGED <<apps, file, born, gone>>
      BY <1>6, <2>2 DEF Confirm
    <3> HIDE DEF l
    <3> QED
      BY <3>1, <3>2, <3>3, GoesType
  <2> QED
    BY <1>6, <2>1, <2>2 DEF Confirm
<1>7. ASSUME NEW r \in Runs, RotateAnswers(r) \/ CallbackAnswers(r) \/ ClientAnswers(r)
      PROVE  TInv'
  <2> DEFINE a == run[r].app
  <2>1. run[r].pc \in AppPc \ {"done"} /\ UNCHANGED <<file, born, gone>>
    BY <1>7 DEF RotateAnswers, CallbackAnswers, ClientAnswers, AppPc
  <2>2. a \in Runs /\ apps[a] # NoApp /\ apps[a] \in App /\ apps[a].users \subseteq 1..born
    BY <1>0, <2>1 DEF TInv, LocalsFit, UsersAreBorn
  <2>3. CASE RotateAnswers(r)
    <3> DEFINE row == Rotated(apps[a], r)
    <3>1. row \in App /\ row.users = {}
      BY <2>2 DEF Rotated, App
    <3>2. apps' = [apps EXCEPT ![a] = row] /\ Goes(r, "callback")
      BY <2>3 DEF RotateAnswers
    <3> HIDE DEF row, a
    <3> QED
      BY <2>1, <3>1, <3>2, CallType DEF AppPc, a
  <2>4. CASE CallbackAnswers(r)
    <3> DEFINE row == [apps[a] EXCEPT !.callback = TRUE]
    <3>1. row \in App /\ row.users \subseteq 1..born
      BY <2>2 DEF App
    <3>2. apps' = [apps EXCEPT ![a] = row] /\ Goes(r, "client")
      BY <2>4 DEF CallbackAnswers
    <3> HIDE DEF row, a
    <3> QED
      BY <2>1, <3>1, <3>2, CallType DEF AppPc, a
  <2>5. CASE ClientAnswers(r)
    <3>1. PICK client \in {Script[r], "bad"} : apps' = [apps EXCEPT ![a].client = client]
      BY <2>5 DEF ClientAnswers
    <3> DEFINE row == [apps[a] EXCEPT !.client = client]
    <3>2. row \in App /\ row.users \subseteq 1..born
      BY <2>2, ScriptAssumption DEF App
    <3>3. apps' = [apps EXCEPT ![a] = row] /\ Goes(r, "login")
      BY <2>5, <3>1 DEF ClientAnswers
    <3> HIDE DEF row, a
    <3> QED
      BY <2>1, <3>2, <3>3, CallType DEF AppPc, a
  <2> QED
    BY <1>7, <2>3, <2>4, <2>5
<1>8. ASSUME NEW r \in Runs, CreateAnswers(r)
      PROVE  TInv'
  <2> DEFINE l   == [run[r] EXCEPT !.pc = "callback", !.app = r]
             row == NewApp(r)
  <2>1. run[r].setting \in Settings /\ run[r].name \in Names
    BY <1>8 DEF CreateAnswers, TInv, LocalsFit, Ended
  <2>2. l \in Local /\ l.pc = "callback" /\ l.app = r /\ l.setting = run[r].setting
    BY <1>0 DEF Local, Pc
  <2>3. row \in App /\ row.users = {}
    BY <2>1 DEF NewApp, App
  <2>4. /\ run' = [run EXCEPT ![r] = l] /\ apps' = [apps EXCEPT ![r] = row]
        /\ UNCHANGED <<file, born, gone>>
    BY <1>8 DEF CreateAnswers
  <2> HIDE DEF l, row
  <2>6. row # NoApp /\ born' \in born..MaxUsers
    BY <1>0, <2>3, <2>4, NoAppIsNoApp
  <2>5. apps'[r] # NoApp
    BY <1>0, <2>3, <2>4, <2>6
  <2> QED
    BY <2>1, <2>2, <2>3, <2>4, <2>5, <2>6, StepType
<1>9. ASSUME NEW a \in Runs, NEW u \in 1..MaxUsers, Connected(a, u), apps[a] # NoApp
      PROVE  /\ [apps[a] EXCEPT !.users = @ \cup {u}] \in App
             /\ [apps[a] EXCEPT !.users = @ \cup {u}].users = apps[a].users \cup {u}
             /\ apps' = [apps EXCEPT ![a] = [apps[a] EXCEPT !.users = @ \cup {u}]]
             /\ apps[a].users \cup {u} \subseteq 1..born' /\ born' \in born..MaxUsers
  <2>1. apps[a] \in App /\ apps[a].users \subseteq 1..born
    BY <1>0, <1>9 DEF TInv, UsersAreBorn
  <2>2. u \in apps[a].users \cup {born + 1} /\ born' = IF u > born THEN u ELSE born
    BY <1>9 DEF Connected
  <2>3. apps[a].users \cup {u} \subseteq 1..born' /\ born' \in born..MaxUsers
    BY <1>0, <2>1, <2>2
  <2> QED
    BY <1>9, <2>1, <2>3 DEF Connected, App
<1>10. ASSUME NEW r \in Runs, NEW u \in 1..MaxUsers, LoginSucceeds(r, u)
       PROVE  TInv'
  <2> DEFINE l   == [run[r] EXCEPT !.pc = "token", !.login = u]
             a   == run[r].app
             row == [apps[a] EXCEPT !.users = @ \cup {u}]
  <2>1. a \in Runs /\ apps[a] # NoApp /\ run[r].setting \in Settings
    BY <1>10 DEF LoginSucceeds, TInv, LocalsFit, AppPc, Ended
  <2>2. l \in Local /\ l.pc = "token" /\ l.app = a /\ l.setting = run[r].setting
    <3>1. u \in Nat
      BY <1>0
    <3> QED
      BY <1>0, <3>1 DEF Local, Pc
  <2>3. run' = [run EXCEPT ![r] = l] /\ UNCHANGED <<file, gone>> /\ Connected(a, u)
    BY <1>10 DEF LoginSucceeds
  <2>4. /\ row \in App /\ row.users \subseteq 1..born' /\ apps' = [apps EXCEPT ![a] = row]
        /\ born' \in born..MaxUsers
    <3> HIDE DEF a
    <3> QED
      BY <1>9, <2>1, <2>3
  <2> HIDE DEF l, row, a
  <2>5. row # NoApp /\ apps'[a] # NoApp
    BY <1>0, <2>1, <2>4, NoAppIsNoApp
  <2> QED
    BY <2>1, <2>2, <2>3, <2>4, <2>5, StepType
<1>11. ASSUME apps' \in [Runs -> App \cup {NoApp}], UNCHANGED run, born' \in born..MaxUsers,
              file' \in [Scripts -> Secrets \cup {NoFile}], gone' \subseteq 1..born',
              \A a \in Runs : apps[a] # NoApp => apps'[a] # NoApp,
              \A a \in Runs : apps'[a] # NoApp => apps'[a].users \subseteq 1..born'
       PROVE  TInv'
  BY <1>0, <1>11 DEF TInv, TypeOK, LocalsFit, UsersAreBorn
<1>12. ASSUME NEW a \in Runs, NEW u \in 1..MaxUsers, Connect(a, u)
       PROVE  TInv'
  <2> DEFINE row == [apps[a] EXCEPT !.users = @ \cup {u}]
  <2>1. /\ row \in App /\ row.users \subseteq 1..born' /\ apps' = [apps EXCEPT ![a] = row]
        /\ born' \in born..MaxUsers
    BY <1>9, <1>12 DEF Connect
  <2>2. UNCHANGED <<file, run, gone>>
    BY <1>12 DEF Connect
  <2> HIDE DEF row
  <2>3. \A b \in Runs : apps'[b] = apps[b] \/ apps'[b] = row
    BY <1>0, <2>1
  <2>4. 1..born \subseteq 1..born'
    BY <1>0, <2>1
  <2>5. apps' \in [Runs -> App \cup {NoApp}]
    BY <1>0, <2>1
  <2> QED
    BY <1>0, <1>11, <2>1, <2>2, <2>3, <2>4, <2>5, NoAppIsNoApp DEF TInv, UsersAreBorn
<1>13. ASSUME NEW a \in Runs, NEW u \in 1..MaxUsers, DeleteUser(a, u)
       PROVE  TInv'
  <2> DEFINE row == [apps[a] EXCEPT !.users = @ \ {u}]
  <2>1. apps[a] \in App /\ apps[a].users \subseteq 1..born /\ u \in apps[a].users
    BY <1>0, <1>13 DEF DeleteUser, TInv, UsersAreBorn
  <2>2. row \in App /\ row.users \subseteq 1..born
    BY <2>1 DEF App
  <2>3. /\ apps' = [apps EXCEPT ![a] = row] /\ gone' = gone \cup {u}
        /\ UNCHANGED <<file, run, born>>
    BY <1>13 DEF DeleteUser
  <2> HIDE DEF row
  <2>4. \A b \in Runs : apps'[b] = apps[b] \/ apps'[b] = row
    BY <1>0, <2>3
  <2>5. apps' \in [Runs -> App \cup {NoApp}] /\ born' \in born..MaxUsers /\ gone' \subseteq 1..born'
    BY <1>0, <2>1, <2>2, <2>3
  <2> QED
    BY <1>0, <1>11, <2>2, <2>3, <2>4, <2>5, NoAppIsNoApp DEF TInv, UsersAreBorn
<1>14. ASSUME NEW r \in Runs, UsersAnswers(r)
       PROVE  TInv'
  <2> DEFINE a == run[r].app
  <2>1. PICK u \in apps[a].users :
          /\ run' = [run EXCEPT ![r].pc = "prove", ![r].user = u]
          /\ file' = [file EXCEPT ![Script[r]] = [app |-> a, user |-> u, key |-> r]]
    BY <1>14 DEF UsersAnswers, Written
  <2> DEFINE l == [run[r] EXCEPT !.pc = "prove", !.user = u]
  <2>2. a \in Runs /\ apps[a] # NoApp /\ u \in 1..born /\ UNCHANGED <<apps, born, gone>>
        /\ run[r].setting \in Settings
    BY <1>14, <2>1 DEF UsersAnswers, TInv, LocalsFit, UsersAreBorn, AppPc, Ended
  <2>3. u \in Nat \ {None}
    BY <1>0, <2>2 DEF None
  <2>4. l \in Local /\ l.pc = "prove" /\ l.app = a /\ l.setting = run[r].setting
    BY <1>0, <2>3 DEF Local, Pc
  <2>5. run' = [run EXCEPT ![r] = l]
    BY <2>1
  <2>6. file' \in [Scripts -> Secrets \cup {NoFile}]
    BY <1>0, <2>1, <2>2, <2>3 DEF Secrets
  <2> HIDE DEF l, a
  <2>7. run' \in [Runs -> Local] /\ \A q \in Runs \ {r} : run'[q] = run[q]
    BY <1>0, <2>4, <2>5
  <2>8. run'[r] = l
    BY <1>0, <2>5
  <2>9. LocalsFit'
    BY <2>2, <2>4, <2>7, <2>8 DEF TInv, LocalsFit
  <2> QED
    BY <1>0, <2>2, <2>6, <2>7, <2>9 DEF TInv, TypeOK, UsersAreBorn
<1>15. ASSUME NEW r \in Runs, Exits(r)
       PROVE  TInv'
  BY <1>15, ExitsType
<1> QED
  BY <1>1, <1>2, <1>3, <1>5, <1>6, <1>7, <1>8, <1>10, <1>12, <1>13, <1>14, <1>15, <1>16
  DEF Next, Answers, SelectCountry, SelectScopes, LookupFails, CreateFails, LoginFails, TokenFails,
      UsersFails, ProveFails, Fail

\* No app, no file and no user at first.
LEMMA InitType == Init => TInv
<1> SUFFICES ASSUME Init PROVE TInv
  OBVIOUS
<1>1. NewRun \in Local /\ NewRun.pc = "start"
  BY DEF NewRun, Local, Pc, None
<1> QED
  BY <1>1, ScriptAssumption DEF Init, TInv, TypeOK, LocalsFit, UsersAreBorn, AppPc, Ended

\* So the types hold for good, overlapping runs included.
LEMMA TypeInvariance == Spec => []TInv
<1>1. TInv /\ UNCHANGED vars => TInv'
  BY DEF vars, TInv, TypeOK, LocalsFit, UsersAreBorn
<1> QED
  BY <1>1, InitType, NextType, PTL DEF Spec

\* The tables, the secrets files and the runs hold what their columns and types
\* allow, whatever runs, logins and deletions overlap: every app has the key of
\* a run and users that were once connected.
THEOREM ScriptTypeCorrect == Spec => []TypeOK
<1>1. TInv => TypeOK
  BY DEF TInv
<1> QED
  BY <1>1, TypeInvariance, PTL

-----------------------------------------------------------------------------
(* Any number of runs, whatever overlaps *)

\* A run that may still register an app has not done so.
NotYet == \A r \in Runs : run[r].pc \in {"start", "name", "create"} => apps[r] = NoApp

\* What a run goes by that rotates without having been told "yes": it counted no
\* users, and whoever is connected by now came later.
CountsFit ==
  \A r \in Runs :
    /\ run[r].since <= born + 1
    /\ run[r].pc = "rotate" /\ ~run[r].yes =>
         \A u \in apps[run[r].app].users : u >= run[r].since

CInv == TInv /\ NotYet /\ CountsFit

\* Whoever comes in a step comes last; and only rotations and administrators
\* disconnect.
LEMMA NextUsers ==
  ASSUME TInv, NotYet, Next, NEW a \in Runs, apps[a] # NoApp
  PROVE  /\ apps'[a].users \subseteq apps[a].users \cup {born + 1}
         /\ \/ apps[a].users \subseteq apps'[a].users \cup gone'
            \/ \E r \in Runs : run[r].pc = "rotate" /\ run[r].app = a /\ apps'[a].key = r
<1> DEFINE G == /\ apps'[a].users \subseteq apps[a].users \cup {born + 1}
                /\ \/ apps[a].users \subseteq apps'[a].users \cup gone'
                   \/ \E r \in Runs : run[r].pc = "rotate" /\ run[r].app = a /\ apps'[a].key = r
<1>0. apps \in [Runs -> App \cup {NoApp}] /\ apps[a] \in App
  BY DEF TInv, TypeOK
<1>1. ASSUME NEW b \in Runs, NEW row, apps' = [apps EXCEPT ![b] = row], apps[b] \in App,
             row.users \subseteq apps[b].users \cup {born + 1},
             apps[b].users \subseteq row.users \cup gone'
      PROVE  G
  BY <1>0, <1>1
<1>2. ASSUME NEW r \in Runs, run[r].pc \in AppPc
      PROVE  run[r].app \in Runs /\ apps[run[r].app] \in App
  BY <1>0, <1>2 DEF TInv, LocalsFit
<1>3. ASSUME NEW r \in Runs, RotateAnswers(r)
      PROVE  G
  <2> DEFINE row == [apps[run[r].app] EXCEPT !.key = r, !.users = {}]
  <2>1. apps' = [apps EXCEPT ![run[r].app] = row] /\ run[r].pc = "rotate"
    BY <1>3 DEF RotateAnswers, Rotated
  <2>2. apps[run[r].app] \in App /\ run[r].app \in Runs
    BY <1>2, <2>1 DEF AppPc
  <2>3. row.key = r /\ row.users = {}
    BY <2>2 DEF App
  <2> HIDE DEF row
  <2> QED
    BY <1>0, <2>1, <2>3
<1>4. ASSUME NEW r \in Runs, CreateAnswers(r)
      PROVE  G
  <2>1. apps[r] = NoApp /\ apps' = [apps EXCEPT ![r] = NewApp(r)]
    BY <1>4 DEF NotYet, CreateAnswers
  <2> QED
    BY <1>0, <2>1
<1>5. ASSUME NEW r \in Runs, CallbackAnswers(r)
      PROVE  G
  <2> DEFINE row == [apps[run[r].app] EXCEPT !.callback = TRUE]
  <2>1. run[r].app \in Runs /\ apps[run[r].app] \in App
    BY <1>2, <1>5 DEF CallbackAnswers, AppPc
  <2>2. apps' = [apps EXCEPT ![run[r].app] = row] /\ row.users = apps[run[r].app].users
    BY <1>5, <2>1 DEF CallbackAnswers, App
  <2> HIDE DEF row
  <2> QED
    BY <1>1, <2>1, <2>2
<1>6. ASSUME NEW r \in Runs, ClientAnswers(r)
      PROVE  G
  <2>1. run[r].app \in Runs /\ apps[run[r].app] \in App
    BY <1>2, <1>6 DEF ClientAnswers, AppPc
  <2>2. PICK client \in {Script[r], "bad"} : apps' = [apps EXCEPT ![run[r].app].client = client]
    BY <1>6 DEF ClientAnswers
  <2> DEFINE row == [apps[run[r].app] EXCEPT !.client = client]
  <2>3. apps' = [apps EXCEPT ![run[r].app] = row] /\ row.users = apps[run[r].app].users
    BY <2>1, <2>2 DEF App
  <2> HIDE DEF row
  <2> QED
    BY <1>1, <2>1, <2>3
<1>7. ASSUME NEW b \in Runs, NEW u, apps[b] \in App, Connected(b, u)
      PROVE  G
  <2> DEFINE row == [apps[b] EXCEPT !.users = @ \cup {u}]
  <2>1. /\ apps' = [apps EXCEPT ![b] = row] /\ row.users = apps[b].users \cup {u}
        /\ u \in apps[b].users \cup {born + 1}
    BY <1>7 DEF Connected, App
  <2> HIDE DEF row
  <2> QED
    BY <1>1, <1>7, <2>1
<1>8. ASSUME NEW r \in Runs, NEW u \in 1..MaxUsers, LoginSucceeds(r, u)
      PROVE  G
  <2>1. run[r].app \in Runs /\ apps[run[r].app] \in App
    BY <1>2, <1>8 DEF LoginSucceeds, AppPc
  <2> QED
    BY <1>7, <1>8, <2>1 DEF LoginSucceeds
<1>9. ASSUME NEW b \in Runs, NEW u \in 1..MaxUsers, Connect(b, u)
      PROVE  G
  <2>1. apps[b] \in App
    BY <1>0, <1>9 DEF Connect
  <2> QED
    BY <1>7, <1>9, <2>1 DEF Connect
<1>10. ASSUME NEW b \in Runs, NEW u \in 1..MaxUsers, DeleteUser(b, u)
       PROVE  G
  <2> DEFINE row == [apps[b] EXCEPT !.users = @ \ {u}]
  <2>1. apps[b] \in App
    BY <1>0, <1>10 DEF DeleteUser
  <2>2. /\ apps' = [apps EXCEPT ![b] = row] /\ row.users = apps[b].users \ {u}
        /\ gone' = gone \cup {u}
    BY <1>10, <2>1 DEF DeleteUser, App
  <2> HIDE DEF row
  <2> QED
    BY <1>1, <2>1, <2>2
<1>11. apps' = apps => G
  OBVIOUS
<1> QED
  BY <1>3, <1>4, <1>5, <1>6, <1>8, <1>9, <1>10, <1>11
  DEF Next, Answers, SelectCountry, SelectScopes, Select, AskName, LookupFinds, LookupFails,
      StatusAnswers, Confirm, CreateFails, LoginFails, TokenAnswers, TokenFails, UsersAnswers,
      UsersFails, ProveAnswers, ProveFails, Fail, Exits

\* A run comes to rotate only from a count of nobody, or by being told "yes"; and
\* nobody's id is used twice.
LEMMA NextCounted ==
  ASSUME TInv, Next, NEW r \in Runs
  PROVE  /\ born' \in Nat /\ born' >= born
         /\ \/ run'[r].since = run[r].since /\ (run'[r].pc = "rotate" => run'[r].yes)
            \/ run'[r].since = born + 1
               /\ (run'[r].pc = "rotate" => apps'[run'[r].app].users = {})
            \/ run'[r] = run[r]
<1> DEFINE K(l) == l.since = run[r].since /\ (l.pc = "rotate" => l.yes)
           G == \/ K(run'[r])
                \/ run'[r].since = born + 1
                   /\ (run'[r].pc = "rotate" => apps'[run'[r].app].users = {})
                \/ run'[r] = run[r]
<1>0. run \in [Runs -> Local] /\ born \in Nat
  BY DEF TInv, TypeOK
<1>1. ASSUME NEW q \in Runs, NEW l, K(l) \/ q # r, run' = [run EXCEPT ![q] = l]
      PROVE  G
  BY <1>0, <1>1
<1>2. ASSUME NEW q \in Runs, NEW pc \in Pc \ {"rotate"}, Goes(q, pc)
      PROVE  G
  <2> DEFINE l == [run[q] EXCEPT !.pc = pc]
  <2>1. (q = r => K(l)) /\ run' = [run EXCEPT ![q] = l]
    BY <1>2, LocalOf DEF Goes
  <2> HIDE DEF l, K
  <2> QED
    BY <1>1, <2>1
<1>3. ASSUME NEW q \in Runs, NEW setting, Select(q, setting)
      PROVE  G
  <2> DEFINE l == [run[q] EXCEPT !.pc = "name", !.setting = setting]
  <2>1. (q = r => K(l)) /\ run' = [run EXCEPT ![q] = l]
    BY <1>0, <1>3 DEF Select, Local
  <2> HIDE DEF l, K
  <2> QED
    BY <1>1, <2>1
<1>4. ASSUME NEW q \in Runs, NEW name, NEW next \in {"lookup", "create"}, AskName(q, name, next)
      PROVE  G
  <2> DEFINE l == [run[q] EXCEPT !.pc = next, !.name = name]
  <2>1. (q = r => K(l)) /\ run' = [run EXCEPT ![q] = l]
    BY <1>0, <1>4 DEF AskName, Local
  <2> HIDE DEF l, K
  <2> QED
    BY <1>1, <2>1
<1>5. ASSUME NEW q \in Runs, LookupFinds(q)
      PROVE  G
  <2>1. PICK a : run' = [run EXCEPT ![q].pc = "status", ![q].app = a]
    BY <1>5 DEF LookupFinds
  <2> DEFINE l == [run[q] EXCEPT !.pc = "status", !.app = a]
  <2>2. (q = r => K(l)) /\ run' = [run EXCEPT ![q] = l]
    BY <1>0, <2>1 DEF Local
  <2> HIDE DEF l, K
  <2> QED
    BY <1>1, <2>2
<1>6. ASSUME NEW q \in Runs, StatusAnswers(q)
      PROVE  G
  <2>1. PICK pc \in {"confirm", "rotate"} :
          /\ run' = [run EXCEPT ![q].pc = pc, ![q].since = born + 1]
          /\ pc = "rotate" => apps[run[q].app].users = {}
    BY <1>6 DEF StatusAnswers, MustConfirm
  <2> DEFINE l == [run[q] EXCEPT !.pc = pc, !.since = born + 1]
  <2>2. l.pc = pc /\ l.since = born + 1 /\ l.app = run[q].app /\ run' = [run EXCEPT ![q] = l]
    BY <1>0, <2>1 DEF Local
  <2>3. apps' = apps
    BY <1>6 DEF StatusAnswers
  <2> HIDE DEF l, K
  <2> QED
    BY <1>0, <1>1, <2>1, <2>2, <2>3
<1>7. ASSUME NEW q \in Runs, Confirm(q)
      PROVE  G
  <2> DEFINE l == [run[q] EXCEPT !.pc = "rotate", !.yes = TRUE]
             k == [run[q] EXCEPT !.pc = "aborted"]
  <2>1. (q = r => K(l)) /\ (q = r => K(k))
    BY <1>0 DEF Local
  <2>2. run' = [run EXCEPT ![q] = l] \/ run' = [run EXCEPT ![q] = k]
    BY <1>7 DEF Confirm
  <2> HIDE DEF l, k, K
  <2> QED
    BY <1>1, <2>1, <2>2
<1>8. ASSUME NEW q \in Runs, CreateAnswers(q)
      PROVE  G
  <2> DEFINE l == [run[q] EXCEPT !.pc = "callback", !.app = q]
  <2>1. (q = r => K(l)) /\ run' = [run EXCEPT ![q] = l]
    BY <1>0, <1>8 DEF CreateAnswers, Local
  <2> HIDE DEF l, K
  <2> QED
    BY <1>1, <2>1
<1>9. ASSUME NEW q \in Runs, NEW u \in 1..MaxUsers, LoginSucceeds(q, u)
      PROVE  G
  <2> DEFINE l == [run[q] EXCEPT !.pc = "token", !.login = u]
  <2>1. (q = r => K(l)) /\ run' = [run EXCEPT ![q] = l]
    BY <1>0, <1>9 DEF LoginSucceeds, Local
  <2> HIDE DEF l, K
  <2> QED
    BY <1>1, <2>1
<1>10. ASSUME NEW q \in Runs, UsersAnswers(q)
       PROVE  G
  <2>1. PICK u : run' = [run EXCEPT ![q].pc = "prove", ![q].user = u]
    BY <1>10 DEF UsersAnswers
  <2> DEFINE l == [run[q] EXCEPT !.pc = "prove", !.user = u]
  <2>2. (q = r => K(l)) /\ run' = [run EXCEPT ![q] = l]
    BY <1>0, <2>1 DEF Local
  <2> HIDE DEF l, K
  <2> QED
    BY <1>1, <2>2
<1>11. ASSUME NEW q \in Runs, RotateAnswers(q) \/ CallbackAnswers(q) \/ ClientAnswers(q)
                              \/ TokenAnswers(q) \/ ProveAnswers(q) \/ Exits(q)
       PROVE  G
  <2>1. PICK pc \in Pc \ {"rotate"} : Goes(q, pc)
    BY <1>11 DEF RotateAnswers, CallbackAnswers, ClientAnswers, TokenAnswers, ProveAnswers, Exits,
                 Pc, Ended
  <2> HIDE DEF G
  <2> QED
    BY <1>2, <2>1
<1>12. run' = run => G
  OBVIOUS
<1>13. G
  <2> HIDE DEF G
  <2>1. ASSUME NEW q \in Runs, Answers(q) PROVE G
    BY <1>5, <1>6, <1>7, <1>8, <1>10, <1>11, <2>1
    DEF Answers, LookupFails, CreateFails, LoginFails, TokenFails, UsersFails, ProveFails
  <2> QED
    BY <1>3, <1>4, <1>9, <1>11, <1>12, <2>1
    DEF Next, SelectCountry, SelectScopes, Fail, Connect, DeleteUser
<1>14. born' \in Nat /\ born' >= born
  <2>1. ASSUME NEW b \in Runs, NEW u \in 1..MaxUsers, Connected(b, u)
        PROVE  born' \in Nat /\ born' >= born
    BY <1>0, <2>1, ScriptAssumption DEF Connected
  <2>2. born' = born => born' \in Nat /\ born' >= born
    BY <1>0
  <2>3. born' = born \/ \E b \in Runs, u \in 1..MaxUsers : Connected(b, u)
    <3>1. ASSUME NEW q \in Runs, NEW u \in 1..MaxUsers, LoginSucceeds(q, u)
          PROVE  \E b \in Runs : Connected(b, u)
      BY <3>1 DEF LoginSucceeds, TInv, LocalsFit, AppPc
    <3>2. ASSUME NEW b \in Runs, NEW u \in 1..MaxUsers, Connect(b, u) \/ DeleteUser(b, u)
          PROVE  born' = born \/ Connected(b, u)
      BY <3>2 DEF Connect, DeleteUser
    <3> QED
      BY <3>1, <3>2
      DEF Next, Answers, SelectCountry, SelectScopes, Select, AskName, LookupFinds, LookupFails,
          StatusAnswers, Confirm, RotateAnswers, CreateAnswers, CreateFails, CallbackAnswers,
          ClientAnswers, LoginFails, TokenAnswers, TokenFails, UsersAnswers, UsersFails,
          ProveAnswers, ProveFails, Fail, Exits
  <2> QED
    BY <2>1, <2>2, <2>3
<1> QED
  BY <1>13, <1>14

\* An app is registered by the run it stands for, once.
LEMMA NextNotYet ==
  ASSUME TInv, NotYet, Next
  PROVE  NotYet'
<1> SUFFICES ASSUME NEW r \in Runs
             PROVE  run'[r].pc \notin {"start", "name", "create"} \/ apps'[r] = NoApp
  BY DEF NotYet
<1> DEFINE G == run'[r].pc \notin {"start", "name", "create"} \/ apps'[r] = NoApp
<1>0. run \in [Runs -> Local] /\ apps \in [Runs -> App \cup {NoApp}]
  BY DEF TInv, TypeOK
<1>1. ASSUME NEW q \in Runs, NEW l, run' = [run EXCEPT ![q] = l], apps' = apps,
             l.pc \in {"start", "name", "create"} => run[q].pc \in {"start", "name"}
      PROVE  G
  BY <1>0, <1>1 DEF NotYet
<1>2. ASSUME NEW b \in Runs, apps[b] # NoApp, NEW row, apps' = [apps EXCEPT ![b] = row],
             NEW q \in Runs, NEW l, run' = [run EXCEPT ![q] = l] \/ run' = run,
             l.pc \notin {"start", "name", "create"}
      PROVE  G
  BY <1>0, <1>2 DEF NotYet
<1>3. ASSUME NEW q \in Runs, NEW pc \in Pc \ {"start", "name", "create"}, Goes(q, pc)
      PROVE  /\ apps' = apps => G
             /\ \A b \in Runs : \A row : apps[b] # NoApp /\ apps' = [apps EXCEPT ![b] = row] => G
  <2> DEFINE l == [run[q] EXCEPT !.pc = pc]
  <2>1. l.pc = pc /\ run' = [run EXCEPT ![q] = l]
    BY <1>3, LocalOf DEF Goes
  <2> HIDE DEF l, G
  <2> QED
    BY <1>1, <1>2, <2>1
<1>4. ASSUME NEW q \in Runs, NEW setting, Select(q, setting)
      PROVE  G
  <2> DEFINE l == [run[q] EXCEPT !.pc = "name", !.setting = setting]
  <2>1. run' = [run EXCEPT ![q] = l] /\ run[q].pc = "start" /\ apps' = apps
    BY <1>4 DEF Select
  <2> HIDE DEF l, G
  <2> QED
    BY <1>1, <2>1
<1>5. ASSUME NEW q \in Runs, NEW name, NEW next, AskName(q, name, next)
      PROVE  G
  <2> DEFINE l == [run[q] EXCEPT !.pc = next, !.name = name]
  <2>1. run' = [run EXCEPT ![q] = l] /\ run[q].pc = "name" /\ apps' = apps
    BY <1>5 DEF AskName
  <2> HIDE DEF l, G
  <2> QED
    BY <1>1, <2>1
<1>6. ASSUME NEW q \in Runs, NEW l, run' = [run EXCEPT ![q] = l], apps' = apps,
             l.pc \notin {"start", "name", "create"}
      PROVE  G
  BY <1>1, <1>6
<1>7. ASSUME NEW q \in Runs, LookupFinds(q)
      PROVE  G
  <2>1. PICK a : run' = [run EXCEPT ![q].pc = "status", ![q].app = a]
    BY <1>7 DEF LookupFinds
  <2> DEFINE l == [run[q] EXCEPT !.pc = "status", !.app = a]
  <2>3. run' = [run EXCEPT ![q] = l] /\ l.pc = "status"
    BY <1>0, <2>1 DEF Local
  <2>2. run' = [run EXCEPT ![q] = l] /\ apps' = apps /\ l.pc = "status"
    BY <1>7, <2>3 DEF LookupFinds
  <2> HIDE DEF l, G
  <2> QED
    BY <1>6, <2>2
<1>8. ASSUME NEW q \in Runs, StatusAnswers(q)
      PROVE  G
  <2>1. PICK pc \in {"confirm", "rotate"} :
          run' = [run EXCEPT ![q].pc = pc, ![q].since = born + 1]
    BY <1>8 DEF StatusAnswers
  <2> DEFINE l == [run[q] EXCEPT !.pc = pc, !.since = born + 1]
  <2>3. run' = [run EXCEPT ![q] = l] /\ l.pc = pc
    BY <1>0, <2>1 DEF Local
  <2>2. run' = [run EXCEPT ![q] = l] /\ apps' = apps /\ l.pc = pc
    BY <1>8, <2>3 DEF StatusAnswers
  <2> HIDE DEF l, G
  <2> QED
    BY <1>6, <2>1, <2>2
<1>9. ASSUME NEW q \in Runs, Confirm(q)
      PROVE  G
  <2> DEFINE l == [run[q] EXCEPT !.pc = "rotate", !.yes = TRUE]
             k == [run[q] EXCEPT !.pc = "aborted"]
  <2>1. /\ run' = [run EXCEPT ![q] = l] \/ run' = [run EXCEPT ![q] = k]
        /\ apps' = apps /\ l.pc = "rotate" /\ k.pc = "aborted"
    BY <1>0, <1>9 DEF Confirm, Local
  <2> HIDE DEF l, k, G
  <2> QED
    BY <1>6, <2>1
<1>10. ASSUME NEW q \in Runs, UsersAnswers(q)
       PROVE  G
  <2>1. PICK u : run' = [run EXCEPT ![q].pc = "prove", ![q].user = u]
    BY <1>10 DEF UsersAnswers
  <2> DEFINE l == [run[q] EXCEPT !.pc = "prove", !.user = u]
  <2>3. run' = [run EXCEPT ![q] = l] /\ l.pc = "prove"
    BY <1>0, <2>1 DEF Local
  <2>2. run' = [run EXCEPT ![q] = l] /\ apps' = apps /\ l.pc = "prove"
    BY <1>10, <2>3 DEF UsersAnswers
  <2> HIDE DEF l, G
  <2> QED
    BY <1>6, <2>2
<1>11. ASSUME NEW q \in Runs, TokenAnswers(q) \/ ProveAnswers(q) \/ Exits(q)
       PROVE  G
  <2>1. PICK pc \in Pc \ {"start", "name", "create"} : Goes(q, pc) /\ apps' = apps
    BY <1>11 DEF TokenAnswers, ProveAnswers, Exits, Pc, Ended
  <2> HIDE DEF G
  <2> QED
    BY <1>3, <2>1
<1>12. ASSUME NEW q \in Runs, CreateAnswers(q)
       PROVE  G
  <2> DEFINE l == [run[q] EXCEPT !.pc = "callback", !.app = q]
  <2>1. /\ run' = [run EXCEPT ![q] = l] /\ l.pc = "callback" /\ run[q].pc = "create"
        /\ apps' = [apps EXCEPT ![q] = NewApp(q)]
    BY <1>0, <1>12 DEF CreateAnswers, Local
  <2> HIDE DEF l
  <2> QED
    BY <1>0, <2>1 DEF NotYet
<1>13. ASSUME NEW q \in Runs, RotateAnswers(q) \/ CallbackAnswers(q) \/ ClientAnswers(q)
       PROVE  G
  <2>1. run[q].app \in Runs /\ apps[run[q].app] # NoApp
    BY <1>13 DEF RotateAnswers, CallbackAnswers, ClientAnswers, TInv, LocalsFit, AppPc
  <2>2. \E pc \in Pc \ {"start", "name", "create"} : Goes(q, pc)
    BY <1>13 DEF RotateAnswers, CallbackAnswers, ClientAnswers, Pc
  <2>3. \E row : apps' = [apps EXCEPT ![run[q].app] = row]
    BY <1>13 DEF RotateAnswers, CallbackAnswers, ClientAnswers
  <2> HIDE DEF G
  <2> QED
    BY <1>3, <2>1, <2>2, <2>3
<1>14. ASSUME NEW q \in Runs, NEW u \in 1..MaxUsers, LoginSucceeds(q, u)
       PROVE  G
  <2> DEFINE l == [run[q] EXCEPT !.pc = "token", !.login = u]
  <2>1. run[q].app \in Runs /\ apps[run[q].app] # NoApp
    BY <1>14 DEF LoginSucceeds, TInv, LocalsFit, AppPc
  <2>2. /\ run' = [run EXCEPT ![q] = l] /\ l.pc = "token"
        /\ \E row : apps' = [apps EXCEPT ![run[q].app] = row]
    BY <1>0, <1>14 DEF LoginSucceeds, Connected, Local
  <2> HIDE DEF l, G
  <2> QED
    BY <1>2, <2>1, <2>2
<1>15. ASSUME NEW b \in Runs, NEW u \in 1..MaxUsers, Connect(b, u) \/ DeleteUser(b, u)
       PROVE  G
  <2>1. run' = run /\ apps[b] # NoApp /\ \E row : apps' = [apps EXCEPT ![b] = row]
    BY <1>15 DEF Connect, DeleteUser, Connected
  <2> QED
    BY <1>0, <2>1 DEF NotYet
<1> QED
  <2> HIDE DEF G
  <2>1. ASSUME NEW q \in Runs, Answers(q) PROVE G
    BY <1>7, <1>8, <1>9, <1>10, <1>11, <1>12, <1>13, <2>1
    DEF Answers, LookupFails, CreateFails, LoginFails, TokenFails, UsersFails, ProveFails
  <2>2. G
    BY <1>4, <1>5, <1>11, <1>14, <1>15, <2>1 DEF Next, SelectCountry, SelectScopes, Fail
  <2> QED
    BY <2>2 DEF G

\* The counts hold after every step.
LEMMA CountsKeep ==
  ASSUME CInv, Next
  PROVE  CInv' /\ born' >= born
<1>1. TInv' /\ NotYet'
  BY NextType, NextNotYet DEF CInv
<1>2. ASSUME NEW r \in Runs
      PROVE  /\ run'[r].since <= born' + 1
             /\ run'[r].pc = "rotate" /\ ~run'[r].yes =>
                  \A u \in apps'[run'[r].app].users : u >= run'[r].since
  <2>0. /\ run[r].since \in Nat /\ born \in Nat /\ run[r].since <= born + 1
        /\ run[r].pc = "rotate" => run[r].app \in Runs /\ apps[run[r].app] # NoApp
    BY DEF CInv, TInv, TypeOK, Local, LocalsFit, AppPc, CountsFit
  <2>1. born' \in Nat /\ born' >= born
    BY NextCounted DEF CInv
  <2>2. CASE run'[r].since = run[r].since /\ (run'[r].pc = "rotate" => run'[r].yes)
    BY <2>0, <2>1, <2>2
  <2>3. CASE run'[r].since = born + 1
             /\ (run'[r].pc = "rotate" => apps'[run'[r].app].users = {})
    <3>4. \A m, n \in Nat : n >= m => m + 1 <= n + 1
      OBVIOUS
    <3>3. born + 1 <= born' + 1
      BY <2>0, <2>1, <3>4
    <3>1. run'[r].since <= born' + 1
      BY <2>3, <3>3
    <3>2. run'[r].pc = "rotate" => \A u \in apps'[run'[r].app].users : FALSE
      BY <2>3
    <3> QED
      BY <3>1, <3>2
  <2>4. CASE run'[r] = run[r]
    <3>1. ASSUME run[r].pc = "rotate", ~run[r].yes, NEW u \in apps'[run[r].app].users
          PROVE  u >= run[r].since
      <4>1. u \in apps[run[r].app].users \cup {born + 1}
        BY <2>0, <3>1, NextUsers DEF CInv
      <4> QED
        BY <2>0, <3>1, <4>1 DEF CInv, CountsFit
    <3> QED
      BY <2>0, <2>1, <2>4, <3>1
  <2> QED
    BY <2>2, <2>3, <2>4, NextCounted DEF CInv
<1>3. born' >= born
  <2>1. \E r \in Runs : TRUE
    BY DEF Next
  <2> QED
    BY <2>1, NextCounted DEF CInv
<1> QED
  BY <1>1, <1>2, <1>3 DEF CInv, CountsFit

\* Nothing has been counted at first.
LEMMA InitCounts == Init => CInv
<1> SUFFICES ASSUME Init PROVE CInv
  OBVIOUS
<1>1. \A r \in Runs : run[r].pc = "start" /\ run[r].since = 0 /\ apps[r] = NoApp
  BY DEF Init, NewRun, None
<1> QED
  BY <1>1, InitType DEF Init, CInv, NotYet, CountsFit

\* The counts hold in every state, whatever overlaps.
LEMMA CountsInvariance == Spec => []CInv
<1>1. CInv /\ Next => CInv'
  BY CountsKeep
<1>2. ASSUME CInv, UNCHANGED vars PROVE CInv'
  BY <1>2 DEF vars, CInv, TInv, TypeOK, LocalsFit, UsersAreBorn, NotYet, CountsFit
<1> QED
  BY <1>1, <1>2, InitCounts, PTL DEF Spec

\* Whoever was connected when a run counted is disconnected by it only if it was
\* told "yes": for any number of runs of both scripts that overlap each other, the
\* logins and deletions of other people, and that stop anywhere.
THEOREM UsersLeaveByConsent == Spec => CountedLeaveByConsent
<1> DEFINE A == \A a \in Runs :
                  apps[a] # NoApp =>
                    \A u \in apps[a].users \ (apps'[a].users \cup gone') :
                      LET r == run[apps'[a].key] IN r.yes \/ u >= r.since
<1>1. ASSUME CInv, Next PROVE A
  <2> SUFFICES ASSUME NEW a \in Runs, apps[a] # NoApp,
                      NEW u \in apps[a].users \ (apps'[a].users \cup gone')
               PROVE  run[apps'[a].key].yes \/ u >= run[apps'[a].key].since
    OBVIOUS
  <2>1. PICK r \in Runs : run[r].pc = "rotate" /\ run[r].app = a /\ apps'[a].key = r
    BY <1>1, NextUsers DEF CInv
  <2> QED
    BY <1>1, <2>1 DEF CInv, CountsFit
<1>2. ASSUME UNCHANGED vars PROVE A
  BY <1>2 DEF vars
<1> QED
  BY <1>1, <1>2, CountsInvariance, PTL DEF Spec, CountedLeaveByConsent

-----------------------------------------------------------------------------
(* One run at a time, and no logins at an app it has just rekeyed *)

\* What a run knows of its app: whose key it has and who is connected to it.
Own(r) ==
  LET app == apps[run[r].app] IN
  /\ run[r].pc \in {"callback", "client", "login"} => app.key = r /\ app.users = {}
  /\ run[r].pc \in {"token", "users", "prove"} => app.key = r /\ app.users \subseteq {run[r].login}
  /\ run[r].pc = "prove" => file[Script[r]] = [app |-> run[r].app, user |-> run[r].user, key |-> r]
  /\ run[r].yes => run[r].pc \notin {"start", "name", "lookup", "create"}

Serial == \A r, s \in Runs : Live(r) /\ Live(s) => r = s

\* A secrets file is that of a run that has asked for its user's login; a run that
\* counts now counts him too.
FilesFit ==
  \A s \in Scripts :
    LET f == file[s]  r == f.key IN
    f # NoFile =>
      /\ run[r].pc \in {"prove", "done", "failed"}
      /\ run[r].app = f.app /\ run[r].login = f.user /\ apps[f.app] # NoApp
      /\ f.user \in 1..born
      /\ \A q \in Runs : run[q].pc \in {"confirm", "rotate"} => f.user < run[q].since

SInv == CInv /\ (\A r \in Runs : Own(r)) /\ Serial /\ FilesFit /\ SecretsLostByConsent

\* What every step keeps, as proved above.
Kept == CInv' /\ born' >= born

\* Run `r` takes a step of its own.
Steps(r, l) ==
  /\ run[r].pc \notin Ended /\ (Live(r) \/ Free)
  /\ run' = [run EXCEPT ![r] = l]
  /\ run[r].yes => l.yes /\ l.app = run[r].app
  /\ run[r].pc = "prove" => /\ l.pc \in {"done", "failed"} /\ l.app = run[r].app
                            /\ l.login = run[r].login
  /\ l.pc \in {"confirm", "rotate"} =>
       l.since = born + 1 \/ (run[r].pc = "confirm" /\ l.since = run[r].since)

\* The other runs rest, and know what they knew.
LEMMA OthersRest ==
  ASSUME SInv, "overlap" \notin Env, NEW r \in Runs, NEW l, Steps(r, l)
  PROVE  /\ run'[r] = l /\ \A q \in Runs \ {r} : run'[q] = run[q] /\ ~Live(q) /\ Own(q)'
         /\ Serial'
         /\ \A q \in Runs : run[q].yes => run'[q].yes /\ run'[q].app = run[q].app
<1>1. run'[r] = l /\ \A q \in Runs \ {r} : run'[q] = run[q]
  BY DEF SInv, CInv, TInv, TypeOK, Steps
<1>2. \A q \in Runs \ {r} : ~Live(q)
  BY DEF SInv, Serial, Steps, Free
<1>3. ASSUME NEW q \in Runs \ {r} PROVE Own(q)'
  <2>1. Own(q) /\ run'[q] = run[q] /\ run[q].pc \in Ended \cup {"start"}
    BY <1>1, <1>2 DEF SInv, Live
  <2> QED
    BY <2>1 DEF Own, Ended
<1>4. Serial'
  BY <1>1, <1>2 DEF Serial, Live
<1> QED
  BY <1>1, <1>2, <1>3, <1>4 DEF Steps

\* Files that stay fit, if apps stay.
LEMMA FilesStay ==
  ASSUME SInv, "overlap" \notin Env, NEW r \in Runs, NEW l, Steps(r, l), Kept, UNCHANGED file,
         \A a \in Runs : apps[a] # NoApp => apps'[a] # NoApp
  PROVE  FilesFit'
<1> SUFFICES ASSUME NEW s \in Scripts, file[s] # NoFile
             PROVE  /\ run'[file[s].key].pc \in {"prove", "done", "failed"}
                    /\ run'[file[s].key].app = file[s].app /\ run'[file[s].key].login = file[s].user
                    /\ apps'[file[s].app] # NoApp
                    /\ file[s].user \in 1..born'
                    /\ \A q \in Runs :
                         run'[q].pc \in {"confirm", "rotate"} => file[s].user < run'[q].since
  BY DEF FilesFit
<1>1. file[s].key \in Runs /\ file[s].app \in Runs /\ born \in Nat /\ born' \in Nat
      /\ born' >= born
  BY ScriptAssumption DEF SInv, CInv, TInv, TypeOK, Secrets, Kept
<1>2. /\ run[file[s].key].pc \in {"prove", "done", "failed"}
      /\ run[file[s].key].app = file[s].app /\ run[file[s].key].login = file[s].user
      /\ apps[file[s].app] # NoApp /\ file[s].user \in 1..born
      /\ \A q \in Runs : run[q].pc \in {"confirm", "rotate"} => file[s].user < run[q].since
  BY DEF SInv, FilesFit
<1>3. /\ run'[file[s].key].pc \in {"prove", "done", "failed"}
      /\ run'[file[s].key].app = file[s].app /\ run'[file[s].key].login = file[s].user
  <2>1. CASE file[s].key = r
    BY <1>1, <1>2, <2>1, OthersRest DEF Steps, Ended
  <2>2. CASE file[s].key # r
    BY <1>1, <1>2, <2>2, OthersRest
  <2> QED
    BY <2>1, <2>2
<1>4. file[s].user \in 1..born' /\ file[s].user < born + 1
  BY <1>1, <1>2
<1>5. ASSUME NEW q \in Runs, run'[q].pc \in {"confirm", "rotate"}
      PROVE  file[s].user < run'[q].since
  <2>1. CASE q # r
    BY <1>2, <1>5, <2>1, OthersRest
  <2>2. CASE q = r
    BY <1>2, <1>4, <1>5, <2>2, OthersRest DEF Steps
  <2> QED
    BY <2>1, <2>2
<1>6. apps'[file[s].app] # NoApp
  BY <1>1, <1>2
<1> QED
  BY <1>3, <1>4, <1>5, <1>6

\* Secrets that stay good, or are lost as before.
LEMMA SecretsStay ==
  ASSUME SInv, UNCHANGED file, gone \subseteq gone',
         \A q \in Runs : run[q].yes => run'[q].yes /\ run'[q].app = run[q].app,
         \A a \in Runs : apps[a] # NoApp =>
           apps'[a].key = apps[a].key /\ apps[a].users \subseteq apps'[a].users \cup gone'
  PROVE  SecretsLostByConsent'
<1> SUFFICES ASSUME NEW s \in Scripts, file[s] # NoFile
             PROVE  \/ /\ apps'[file[s].app].key = file[s].key
                       /\ file[s].user \in apps'[file[s].app].users
                    \/ file[s].user \in gone'
                    \/ \E q \in Runs \ {file[s].key} : run'[q].yes /\ run'[q].app = file[s].app
  BY DEF SecretsLostByConsent
<1>1. file[s].app \in Runs /\ apps[file[s].app] # NoApp
  BY DEF SInv, CInv, TInv, TypeOK, Secrets, FilesFit
<1>2. CASE apps[file[s].app].key = file[s].key /\ file[s].user \in apps[file[s].app].users
  BY <1>1, <1>2
<1>3. CASE file[s].user \in gone
  BY <1>3
<1>4. ASSUME NEW q \in Runs \ {file[s].key}, run[q].yes, run[q].app = file[s].app
      PROVE  run'[q].yes /\ run'[q].app = file[s].app
  BY <1>4
<1> QED
  BY <1>2, <1>3, <1>4 DEF SInv, SecretsLostByConsent

\* A step that changes no app and no file.
LEMMA QuietStep ==
  ASSUME SInv, "overlap" \notin Env, NEW r \in Runs, NEW l, Steps(r, l), Kept, Own(r)',
         UNCHANGED <<apps, file, gone>>
  PROVE  SInv'
<1>1. FilesFit'
  BY FilesStay
<1>2. SecretsLostByConsent'
  BY OthersRest, SecretsStay
<1> QED
  BY <1>1, <1>2, OthersRest DEF SInv, Kept

\* A question or a call that changes no app and no file.
QuietAction(r) ==
  \/ \E setting \in Settings : Select(r, setting)
  \/ \E name \in Names, next \in {"lookup", "create"} : AskName(r, name, next)
  \/ LookupFinds(r) \/ StatusAnswers(r) \/ Confirm(r) \/ TokenAnswers(r) \/ ProveAnswers(r)

\* A run that asks, or that reads what the server has, keeps the invariant.
LEMMA QuietActionKeeps ==
  ASSUME SInv, "overlap" \notin Env, NEW r \in Runs, QuietAction(r), Kept
  PROVE  SInv'
<1>0. /\ run \in [Runs -> Local] /\ run[r] \in Local /\ Own(r)
      /\ \A pc \in Pc \ (Ended \cup {"start"}) : run[r].pc = pc => Live(r)
  BY DEF SInv, CInv, TInv, TypeOK, Live
<1>1. ASSUME NEW setting \in Settings, Select(r, setting)
      PROVE  SInv'
  <2> DEFINE l == [run[r] EXCEPT !.pc = "name", !.setting = setting]
  <2>1. /\ l.pc = "name" /\ l.yes = run[r].yes /\ l.app = run[r].app
        /\ run' = [run EXCEPT ![r] = l]
    BY <1>0, <1>1 DEF Select, Local
  <2>2. run[r].pc = "start" /\ Free /\ UNCHANGED <<apps, file, born, gone>>
    BY <1>1 DEF Select
  <2> HIDE DEF l
  <2>3. Steps(r, l)
    BY <2>1, <2>2 DEF Steps, Ended
  <2>4. Own(r)'
    BY <1>0, <2>1, <2>2, <2>3, OthersRest DEF Own
  <2> QED
    BY <2>2, <2>3, <2>4, QuietStep
<1>2. ASSUME NEW name \in Names, NEW next \in {"lookup", "create"}, AskName(r, name, next)
      PROVE  SInv'
  <2> DEFINE l == [run[r] EXCEPT !.pc = next, !.name = name]
  <2>1. /\ l.pc = next /\ l.yes = run[r].yes /\ l.app = run[r].app
        /\ run' = [run EXCEPT ![r] = l]
    BY <1>0, <1>2 DEF AskName, Local
  <2>2. run[r].pc = "name" /\ UNCHANGED <<apps, file, born, gone>>
    BY <1>2 DEF AskName
  <2> HIDE DEF l
  <2>3. Steps(r, l)
    BY <2>1, <2>2 DEF Steps, Ended, Live
  <2>4. Own(r)'
    BY <1>0, <2>1, <2>2, <2>3, OthersRest DEF Own
  <2> QED
    BY <2>2, <2>3, <2>4, QuietStep
<1>3. ASSUME LookupFinds(r)
      PROVE  SInv'
  <2>1. PICK a \in Named(run[r].name) : run' = [run EXCEPT ![r].pc = "status", ![r].app = a]
    BY <1>3 DEF LookupFinds
  <2> DEFINE l == [run[r] EXCEPT !.pc = "status", !.app = a]
  <2>2. l.pc = "status" /\ l.yes = run[r].yes /\ run' = [run EXCEPT ![r] = l]
    BY <1>0, <2>1 DEF Local
  <2>3. run[r].pc = "lookup" /\ UNCHANGED <<apps, file, born, gone>>
    BY <1>3 DEF LookupFinds
  <2> HIDE DEF l
  <2>4. ~run[r].yes
    BY <1>0, <2>3 DEF Own
  <2>5. Steps(r, l)
    BY <2>2, <2>3, <2>4 DEF Steps, Ended, Live
  <2>6. Own(r)'
    BY <1>0, <2>2, <2>3, <2>4, <2>5, OthersRest DEF Own
  <2> QED
    BY <2>3, <2>5, <2>6, QuietStep
<1>4. ASSUME NEW pc \in {"aborted", "users", "done"}, Goes(r, pc), Live(r),
             UNCHANGED <<apps, file, born, gone>>, run[r].pc = "prove" => pc = "done",
             pc = "users" => run[r].pc = "token",
             run[r].pc \notin {"name", "start"}
      PROVE  SInv'
  <2> DEFINE l == [run[r] EXCEPT !.pc = pc]
  <2>1. pc \in Pc
    BY <1>4 DEF Pc, Ended
  <2>2. /\ l.pc = pc /\ l.yes = run[r].yes /\ l.app = run[r].app /\ l.login = run[r].login
        /\ run' = [run EXCEPT ![r] = l]
    BY <1>4, <2>1, LocalOf DEF Goes, SInv, CInv
  <2> HIDE DEF l
  <2>3. Steps(r, l)
    BY <1>4, <2>2 DEF Steps, Ended, Live
  <2>4. Own(r)'
    BY <1>0, <1>4, <2>2, <2>3, OthersRest DEF Own
  <2> QED
    BY <1>4, <2>3, <2>4, QuietStep
<1>5. CASE StatusAnswers(r)
  <2>1. PICK pc \in {"confirm", "rotate"} :
          run' = [run EXCEPT ![r].pc = pc, ![r].since = born + 1]
    BY <1>5 DEF StatusAnswers
  <2> DEFINE l == [run[r] EXCEPT !.pc = pc, !.since = born + 1]
  <2>2. /\ l.pc = pc /\ l.yes = run[r].yes /\ l.app = run[r].app /\ l.since = born + 1
        /\ run' = [run EXCEPT ![r] = l]
    BY <1>0, <2>1 DEF Local
  <2>3. run[r].pc = "status" /\ UNCHANGED <<apps, file, born, gone>>
    BY <1>5 DEF StatusAnswers
  <2> HIDE DEF l
  <2>4. Steps(r, l)
    BY <2>2, <2>3 DEF Steps, Ended, Live
  <2>5. Own(r)'
    BY <1>0, <2>1, <2>2, <2>3, <2>4, OthersRest DEF Own
  <2> QED
    BY <2>3, <2>4, <2>5, QuietStep
<1>6. CASE TokenAnswers(r)
  BY <1>4, <1>6 DEF TokenAnswers, Live, Ended
<1>7. CASE ProveAnswers(r)
  BY <1>4, <1>7 DEF ProveAnswers, Live, Ended
<1>8. CASE Confirm(r) /\ run' = [run EXCEPT ![r].pc = "aborted"]
  BY <1>4, <1>8 DEF Confirm, Live, Ended, Goes
<1>9. CASE Confirm(r) /\ run' = [run EXCEPT ![r].pc = "rotate", ![r].yes = TRUE]
  <2> DEFINE l == [run[r] EXCEPT !.pc = "rotate", !.yes = TRUE]
  <2>1. /\ l.pc = "rotate" /\ l.yes /\ l.app = run[r].app /\ l.since = run[r].since
        /\ run' = [run EXCEPT ![r] = l]
    BY <1>0, <1>9 DEF Local
  <2>2. run[r].pc = "confirm" /\ UNCHANGED <<apps, file, born, gone>>
    BY <1>9 DEF Confirm
  <2> HIDE DEF l
  <2>3. Steps(r, l)
    BY <2>1, <2>2 DEF Steps, Ended, Live
  <2>4. Own(r)'
    BY <1>0, <2>1, <2>2, <2>3, OthersRest DEF Own
  <2> QED
    BY <2>2, <2>3, <2>4, QuietStep
<1>10. Confirm(r) => \/ run' = [run EXCEPT ![r].pc = "aborted"]
                     \/ run' = [run EXCEPT ![r].pc = "rotate", ![r].yes = TRUE]
  BY DEF Confirm
<1> QED
  BY <1>1, <1>2, <1>3, <1>5, <1>6, <1>7, <1>8, <1>9, <1>10 DEF QuietAction

\* So does one that ends.
LEMMA ExitKeeps ==
  ASSUME SInv, "overlap" \notin Env, NEW r \in Runs, run[r].pc \notin Ended \cup {"start"},
         Exits(r), Kept
  PROVE  SInv'
<1> DEFINE l == [run[r] EXCEPT !.pc = "failed"]
<1>1. "failed" \in Pc /\ Own(r)
  BY DEF Pc, Ended, SInv
<1>2. /\ l.pc = "failed" /\ l.yes = run[r].yes /\ l.app = run[r].app /\ l.login = run[r].login
      /\ run' = [run EXCEPT ![r] = l] /\ UNCHANGED <<apps, file, born, gone>>
  BY <1>1, LocalOf DEF Exits, Goes, SInv, CInv
<1> HIDE DEF l
<1>3. Steps(r, l)
  BY <1>2 DEF Steps, Live
<1>4. Own(r)'
  BY <1>1, <1>2, <1>3, OthersRest DEF Own
<1> QED
  BY <1>2, <1>3, <1>4, QuietStep

\* A call that sets columns of the run's app, but not its key, and disconnects nobody.
LEMMA AppStep ==
  ASSUME SInv, "overlap" \notin Env, NEW r \in Runs, NEW l, Steps(r, l), Kept, Own(r)',
         NEW a \in Runs, apps[a] # NoApp, NEW row \in App, apps' = [apps EXCEPT ![a] = row],
         row.key = apps[a].key, apps[a].users \subseteq row.users, UNCHANGED <<file, gone>>
  PROVE  SInv'
<1>1. /\ apps'[a] = row /\ \A b \in Runs \ {a} : apps'[b] = apps[b]
      /\ row # NoApp
  BY NoAppIsNoApp DEF SInv, CInv, TInv, TypeOK
<1>2. FilesFit'
  BY <1>1, FilesStay
<1>3. SecretsLostByConsent'
  BY <1>1, OthersRest, SecretsStay
<1> QED
  BY <1>2, <1>3, OthersRest DEF SInv, Kept

\* The callback and the credentials are set while nobody is connected.
LEMMA ColumnsKeep ==
  ASSUME SInv, "overlap" \notin Env, NEW r \in Runs, Kept, CallbackAnswers(r) \/ ClientAnswers(r)
  PROVE  SInv'
<1> DEFINE a == run[r].app
<1>0. /\ Own(r) /\ a \in Runs /\ apps[a] # NoApp /\ apps[a] \in App /\ Script[r] \in Scripts
  BY ScriptAssumption DEF SInv, CInv, TInv, TypeOK, LocalsFit, AppPc, CallbackAnswers, ClientAnswers
<1>1. ASSUME NEW pc \in {"client", "login"}, Goes(r, pc), run[r].pc \in {"callback", "client"},
             NEW row \in App, apps' = [apps EXCEPT ![a] = row], row.key = apps[a].key,
             row.users = apps[a].users, UNCHANGED <<file, born, gone>>
      PROVE  SInv'
  <2> DEFINE l == [run[r] EXCEPT !.pc = pc]
  <2>1. pc \in Pc
    BY DEF Pc
  <2>2. /\ l.pc = pc /\ l.yes = run[r].yes /\ l.app = a /\ run' = [run EXCEPT ![r] = l]
    BY <1>1, <2>1, LocalOf DEF Goes, SInv, CInv
  <2> HIDE DEF l
  <2>3. Steps(r, l)
    BY <1>1, <2>2 DEF Steps, Ended, Live
  <2>4. run'[r] = l /\ apps'[a] = row
    BY <1>0, <1>1, <2>3, OthersRest DEF SInv, CInv, TInv, TypeOK
  <2>5. Own(r)'
    BY <1>0, <1>1, <2>2, <2>4 DEF Own
  <2> QED
    BY <1>0, <1>1, <2>3, <2>5, AppStep
<1>2. CASE CallbackAnswers(r)
  <2> DEFINE row == [apps[a] EXCEPT !.callback = TRUE]
  <2>1. row \in App /\ row.key = apps[a].key /\ row.users = apps[a].users
    BY <1>0 DEF App
  <2>2. apps' = [apps EXCEPT ![a] = row]
    BY <1>2 DEF CallbackAnswers
  <2> QED
    BY <1>1, <1>2, <2>1, <2>2 DEF CallbackAnswers
<1>3. CASE ClientAnswers(r)
  <2>1. PICK client \in {Script[r], "bad"} : apps' = [apps EXCEPT ![a].client = client]
    BY <1>3 DEF ClientAnswers
  <2> DEFINE row == [apps[a] EXCEPT !.client = client]
  <2>2. row \in App /\ row.key = apps[a].key /\ row.users = apps[a].users
    BY <1>0 DEF App
  <2>3. apps' = [apps EXCEPT ![a] = row]
    BY <2>1
  <2> QED
    BY <1>1, <1>3, <2>2, <2>3 DEF ClientAnswers
<1> QED
  BY <1>2, <1>3

\* The login connects the first user since the key was set.
LEMMA LoginKeeps ==
  ASSUME SInv, "overlap" \notin Env, NEW r \in Runs, NEW u \in 1..MaxUsers, Kept,
         LoginSucceeds(r, u)
  PROVE  SInv'
<1> DEFINE a == run[r].app
           row == [apps[a] EXCEPT !.users = @ \cup {u}]
           l == [run[r] EXCEPT !.pc = "token", !.login = u]
<1>0. /\ Own(r) /\ a \in Runs /\ apps[a] # NoApp /\ apps[a] \in App /\ run[r] \in Local
      /\ run[r].pc = "login" /\ u \in Nat
  BY DEF SInv, CInv, TInv, TypeOK, LocalsFit, AppPc, LoginSucceeds
<1>1. /\ apps' = [apps EXCEPT ![a] = row] /\ run' = [run EXCEPT ![r] = l]
      /\ UNCHANGED <<file, gone>>
  BY DEF LoginSucceeds, Connected
<1>2. row \in App /\ row.key = apps[a].key /\ row.users = apps[a].users \cup {u}
  BY <1>0 DEF App
<1>3. l.pc = "token" /\ l.yes = run[r].yes /\ l.app = a /\ l.login = u
  BY <1>0 DEF Local
<1>4. apps[a].key = r /\ apps[a].users = {}
  BY <1>0 DEF Own
<1> HIDE DEF l, row
<1>5. Steps(r, l)
  BY <1>0, <1>1, <1>3 DEF Steps, Ended, Live
<1>6. run'[r] = l /\ apps'[a] = row
  BY <1>0, <1>1, <1>5, OthersRest DEF SInv, CInv, TInv, TypeOK
<1>7. Own(r)'
  BY <1>2, <1>3, <1>4, <1>6 DEF Own
<1> QED
  BY <1>0, <1>1, <1>2, <1>5, <1>7, AppStep

\* The PATCH takes secrets from whoever had them: the person has agreed, or there
\* were none.
LEMMA RotateKeeps ==
  ASSUME SInv, "overlap" \notin Env, NEW r \in Runs, Kept, RotateAnswers(r)
  PROVE  SInv'
<1> DEFINE a == run[r].app
           row == [apps[a] EXCEPT !.key = r, !.users = {}]
           l == [run[r] EXCEPT !.pc = "callback"]
<1>0. /\ Own(r) /\ a \in Runs /\ apps[a] # NoApp /\ apps[a] \in App
      /\ run[r].pc = "rotate" /\ "callback" \in Pc
  BY DEF SInv, CInv, TInv, TypeOK, LocalsFit, AppPc, RotateAnswers, Pc
<1>1. /\ apps' = [apps EXCEPT ![a] = row] /\ run' = [run EXCEPT ![r] = l]
      /\ UNCHANGED <<file, born, gone>>
  BY DEF RotateAnswers, Rotated, Goes
<1>2. row \in App /\ row.key = r /\ row.users = {}
  BY <1>0 DEF App
<1>3. l.pc = "callback" /\ l.yes = run[r].yes /\ l.app = a
  BY <1>0, LocalOf DEF SInv, CInv
<1> HIDE DEF l, row
<1>4. Steps(r, l)
  BY <1>0, <1>1, <1>3 DEF Steps, Ended, Live
<1>5. /\ run'[r] = l /\ apps'[a] = row /\ row # NoApp
      /\ \A b \in Runs \ {a} : apps'[b] = apps[b]
  BY <1>0, <1>1, <1>2, <1>4, OthersRest, NoAppIsNoApp DEF SInv, CInv, TInv, TypeOK
<1>6. Own(r)'
  BY <1>2, <1>3, <1>5 DEF Own
<1>7. FilesFit'
  BY <1>1, <1>4, <1>5, FilesStay
<1>8. SecretsLostByConsent'
  <2> SUFFICES ASSUME NEW s \in Scripts, file[s] # NoFile
               PROVE  \/ /\ apps'[file[s].app].key = file[s].key
                         /\ file[s].user \in apps'[file[s].app].users
                      \/ file[s].user \in gone'
                      \/ \E q \in Runs \ {file[s].key} : run'[q].yes /\ run'[q].app = file[s].app
    BY <1>1 DEF SecretsLostByConsent
  <2>1. file[s].app \in Runs /\ file[s].key # r
    BY <1>0 DEF SInv, CInv, TInv, TypeOK, Secrets, FilesFit
  <2>2. CASE apps[file[s].app].key = file[s].key /\ file[s].user \in apps[file[s].app].users
    <3>1. CASE file[s].app # a
      BY <1>5, <2>1, <2>2, <3>1
    <3>2. CASE file[s].app = a
      <4>1. run[r].yes
        <5>1. run[r].since \in Nat /\ born \in Nat
          BY ScriptAssumption DEF SInv, CInv, TInv, TypeOK, Local
        <5>2. file[s].user \in 1..born /\ file[s].user < run[r].since
          BY <1>0 DEF SInv, FilesFit
        <5>3. ~run[r].yes => file[s].user >= run[r].since
          BY <1>0, <2>2, <3>2 DEF SInv, CInv, CountsFit
        <5> QED
          BY <5>1, <5>2, <5>3
      <4> QED
        BY <1>3, <1>5, <2>1, <3>2, <4>1
    <3> QED
      BY <3>1, <3>2
  <2>3. CASE file[s].user \in gone
    BY <1>1, <2>3
  <2>4. ASSUME NEW q \in Runs \ {file[s].key}, run[q].yes, run[q].app = file[s].app
        PROVE  run'[q].yes /\ run'[q].app = file[s].app
    BY <1>4, <2>4, OthersRest
  <2> QED
    BY <2>2, <2>3, <2>4 DEF SInv, SecretsLostByConsent
<1> QED
  BY <1>4, <1>6, <1>7, <1>8, OthersRest DEF SInv, Kept

\* A new app is nobody's loss.
LEMMA CreateKeeps ==
  ASSUME SInv, "overlap" \notin Env, NEW r \in Runs, Kept, CreateAnswers(r)
  PROVE  SInv'
<1> DEFINE row == NewApp(r)
           l == [run[r] EXCEPT !.pc = "callback", !.app = r]
<1>0. /\ Own(r) /\ run[r] \in Local /\ run[r].pc = "create" /\ apps[r] = NoApp
  BY DEF SInv, CInv, TInv, TypeOK, NotYet, CreateAnswers
<1>1. /\ apps' = [apps EXCEPT ![r] = row] /\ run' = [run EXCEPT ![r] = l]
      /\ UNCHANGED <<file, born, gone>>
  BY DEF CreateAnswers
<1>2. row.key = r /\ row.users = {}
  BY DEF NewApp
<1>3. row # NoApp
  BY DEF NewApp, NoApp
<1>4. l.pc = "callback" /\ l.app = r /\ l.yes = run[r].yes
  BY <1>0 DEF Local
<1>5. ~run[r].yes
  BY <1>0 DEF Own
<1> HIDE DEF l, row
<1>6. Steps(r, l)
  BY <1>0, <1>1, <1>4, <1>5 DEF Steps, Ended, Live
<1>7. run'[r] = l /\ apps'[r] = row /\ \A b \in Runs \ {r} : apps'[b] = apps[b]
  BY <1>1, <1>6, OthersRest DEF SInv, CInv, TInv, TypeOK
<1>8. Own(r)'
  BY <1>2, <1>4, <1>5, <1>7 DEF Own
<1>9. FilesFit'
  BY <1>0, <1>1, <1>3, <1>6, <1>7, FilesStay
<1>10. SecretsLostByConsent'
  <2>1. \A a \in Runs : apps[a] # NoApp => apps'[a] = apps[a]
    BY <1>0, <1>7
  <2> QED
    BY <1>1, <1>6, <2>1, OthersRest, SecretsStay
<1> QED
  BY <1>6, <1>8, <1>9, <1>10, OthersRest DEF SInv, Kept

\* The first of the app's users is the only one, the one that has just logged in.
LEMMA UsersKeeps ==
  ASSUME SInv, "overlap" \notin Env, NEW r \in Runs, Kept, UsersAnswers(r)
  PROVE  SInv'
<1> DEFINE a == run[r].app
<1>0. /\ Own(r) /\ a \in Runs /\ apps[a] # NoApp /\ run[r] \in Local /\ run[r].pc = "users"
      /\ UNCHANGED <<apps, born, gone>> /\ Script[r] \in Scripts
      /\ file \in [Scripts -> Secrets \cup {NoFile}]
  BY ScriptAssumption DEF SInv, CInv, TInv, TypeOK, LocalsFit, AppPc, UsersAnswers
<1>1. PICK u \in apps[a].users :
        /\ run' = [run EXCEPT ![r].pc = "prove", ![r].user = u]
        /\ file' = [file EXCEPT ![Script[r]] = [app |-> a, user |-> u, key |-> r]]
  BY DEF UsersAnswers, Written
<1> DEFINE l == [run[r] EXCEPT !.pc = "prove", !.user = u]
           f == [app |-> a, user |-> u, key |-> r]
<1>2. /\ l.pc = "prove" /\ l.app = a /\ l.yes = run[r].yes /\ l.login = run[r].login /\ l.user = u
      /\ run' = [run EXCEPT ![r] = l]
  BY <1>0, <1>1 DEF Local
<1>3. /\ f.app = a /\ f.user = u /\ f.key = r /\ file'[Script[r]] = f
      /\ \A s \in Scripts \ {Script[r]} : file'[s] = file[s]
  BY <1>0, <1>1
<1>4. apps[a].key = r /\ u = run[r].login
  BY <1>0 DEF Own
<1> HIDE DEF l
<1>5. Steps(r, l)
  BY <1>0, <1>2 DEF Steps, Ended, Live
<1>6. run'[r] = l
  BY <1>5, OthersRest
<1>7. Own(r)'
  <2>1. apps'[a].key = r /\ apps'[a].users \subseteq {l.login}
    BY <1>0, <1>2 DEF Own
  <2> QED
    BY <1>2, <1>3, <1>6, <2>1 DEF Own
<1> HIDE DEF f
<1>8. /\ u \in 1..born /\ born' = born
      /\ \A q \in Runs : run'[q].pc \in {"confirm", "rotate"} =>
           run[q].pc \in {"confirm", "rotate"} /\ run'[q] = run[q] /\ Live(q)
  <2>1. apps[a].users \subseteq 1..born
    BY <1>0 DEF SInv, CInv, TInv, UsersAreBorn
  <2>2. ASSUME NEW q \in Runs, run'[q].pc \in {"confirm", "rotate"}
        PROVE  run[q].pc \in {"confirm", "rotate"} /\ run'[q] = run[q] /\ Live(q)
    BY <1>2, <1>5, <1>6, <2>2, OthersRest DEF Live, Ended
  <2> QED
    BY <1>0, <1>1, <2>1, <2>2
<1>9. ASSUME NEW s \in Scripts, s # Script[r], file[s] # NoFile
      PROVE  /\ file[s].key # r /\ file[s].key \in Runs /\ file[s].app \in Runs
             /\ run'[file[s].key] = run[file[s].key] /\ file'[s] = file[s]
  BY <1>0, <1>3, <1>5, <1>9, OthersRest DEF SInv, FilesFit, Secrets
<1>10. FilesFit'
  <2> SUFFICES ASSUME NEW s \in Scripts, file'[s] # NoFile
               PROVE  /\ run'[file'[s].key].pc \in {"prove", "done", "failed"}
                      /\ run'[file'[s].key].app = file'[s].app
                      /\ run'[file'[s].key].login = file'[s].user
                      /\ apps'[file'[s].app] # NoApp
                      /\ file'[s].user \in 1..born'
                      /\ \A q \in Runs :
                           run'[q].pc \in {"confirm", "rotate"} => file'[s].user < run'[q].since
    BY DEF FilesFit
  <2>1. CASE s = Script[r]
    <3>1. \A q \in Runs : run'[q].pc \notin {"confirm", "rotate"}
      BY <1>2, <1>5, <1>6, <1>8, OthersRest
    <3> QED
      BY <1>0, <1>2, <1>3, <1>4, <1>6, <1>8, <2>1, <3>1
  <2>2. CASE s # Script[r]
    <3>1. file'[s] = file[s] /\ file[s] # NoFile /\ run'[file[s].key] = run[file[s].key]
      BY <1>3, <1>9, <2>2
    <3>2. \A q \in Runs : run'[q].pc \in {"confirm", "rotate"} => file[s].user < run'[q].since
      BY <1>8, <3>1 DEF SInv, FilesFit
    <3> QED
      BY <1>0, <1>8, <3>1, <3>2 DEF SInv, FilesFit
  <2> QED
    BY <2>1, <2>2
<1>11. SecretsLostByConsent'
  <2> SUFFICES ASSUME NEW s \in Scripts, file'[s] # NoFile
               PROVE  \/ /\ apps[file'[s].app].key = file'[s].key
                         /\ file'[s].user \in apps[file'[s].app].users
                      \/ file'[s].user \in gone
                      \/ \E q \in Runs \ {file'[s].key} : run'[q].yes /\ run'[q].app = file'[s].app
    BY <1>0 DEF SecretsLostByConsent
  <2>1. CASE s = Script[r]
    BY <1>1, <1>3, <1>4, <2>1
  <2>2. CASE s # Script[r]
    <3>1. file'[s] = file[s]
      BY <1>3, <2>2
    <3>2. ASSUME NEW q \in Runs \ {file[s].key}, run[q].yes, run[q].app = file[s].app
          PROVE  run'[q].yes /\ run'[q].app = file[s].app
      BY <1>5, <3>2, OthersRest
    <3>3. \/ apps[file[s].app].key = file[s].key /\ file[s].user \in apps[file[s].app].users
          \/ file[s].user \in gone
          \/ \E q \in Runs \ {file[s].key} : run[q].yes /\ run[q].app = file[s].app
      BY <3>1 DEF SInv, SecretsLostByConsent
    <3> QED
      BY <3>1, <3>2, <3>3
  <2> QED
    BY <2>1, <2>2
<1> QED
  BY <1>5, <1>7, <1>10, <1>11, OthersRest DEF SInv, Kept

\* Other people come where no run is at work with its own key, and administrators
\* at any time.
LEMMA OthersKeep ==
  ASSUME SInv, "overlap" \notin Env, Kept, NEW a \in Runs, NEW u \in 1..MaxUsers,
         Connect(a, u) \/ DeleteUser(a, u)
  PROVE  SInv'
<1>0. /\ apps \in [Runs -> App \cup {NoApp}] /\ apps[a] # NoApp /\ apps[a] \in App
      /\ UNCHANGED <<file, run>>
  BY DEF SInv, CInv, TInv, TypeOK, Connect, DeleteUser
<1>1. ASSUME NEW row \in App, row.key = apps[a].key, apps' = [apps EXCEPT ![a] = row],
             gone \subseteq gone', apps[a].users \subseteq row.users \cup gone',
             row.users \subseteq apps[a].users \/ Vacant(a)
      PROVE  SInv'
  <2>1. /\ apps'[a] = row /\ row # NoApp /\ \A b \in Runs \ {a} : apps'[b] = apps[b]
    BY <1>0, <1>1, NoAppIsNoApp
  <2>2. ASSUME NEW r \in Runs PROVE Own(r)'
    <3>1. CASE Vacant(a)
      <4>1. /\ Own(r)
            /\ apps'[run[r].app] = apps[run[r].app] \/ run[r].app = a \/ run[r].app \notin Runs
        BY <2>1 DEF SInv
      <4>2. run[r].pc \in {"callback", "client", "login", "token", "users", "prove"}
              => run[r].app \in Runs /\ run[r].app # a
        BY <3>1 DEF SInv, CInv, TInv, LocalsFit, AppPc, Vacant, Live, Ended
      <4> QED
        BY <1>0, <4>1, <4>2 DEF Own
    <3>2. CASE row.users \subseteq apps[a].users
      <4>1. /\ Own(r)
            /\ apps'[run[r].app] = apps[run[r].app] \/ run[r].app = a \/ run[r].app \notin Runs
        BY <2>1 DEF SInv
      <4>2. run[r].pc \in {"callback", "client", "login", "token", "users", "prove"}
              => run[r].app \in Runs
        BY DEF SInv, CInv, TInv, LocalsFit, AppPc
      <4>3. CASE run[r].app = a
        BY <1>0, <1>1, <2>1, <3>2, <4>1, <4>3 DEF Own
      <4>4. CASE run[r].app # a /\ run[r].app \in Runs
        BY <1>0, <2>1, <4>1, <4>4 DEF Own
      <4>5. CASE run[r].app \notin Runs
        BY <1>0, <4>1, <4>2, <4>5 DEF Own
      <4> QED
        BY <4>3, <4>4, <4>5
    <3> QED
      BY <1>1, <3>1, <3>2
  <2>3. Serial'
    BY <1>0 DEF SInv, Serial, Live
  <2>4. FilesFit'
    <3> SUFFICES ASSUME NEW s \in Scripts, file[s] # NoFile
                 PROVE  /\ run[file[s].key].pc \in {"prove", "done", "failed"}
                        /\ run[file[s].key].app = file[s].app
                        /\ run[file[s].key].login = file[s].user
                        /\ apps'[file[s].app] # NoApp
                        /\ file[s].user \in 1..born'
                        /\ \A q \in Runs :
                             run[q].pc \in {"confirm", "rotate"} => file[s].user < run[q].since
      BY <1>0 DEF FilesFit
    <3>1. file[s].app \in Runs /\ born \in Nat /\ born' \in Nat /\ born' >= born
      BY ScriptAssumption DEF SInv, CInv, TInv, TypeOK, Secrets, Kept
    <3>2. file[s].user \in 1..born'
      BY <3>1 DEF SInv, FilesFit
    <3> QED
      BY <2>1, <3>1, <3>2 DEF SInv, FilesFit
  <2>5. SecretsLostByConsent'
    BY <1>0, <1>1, <2>1, SecretsStay
  <2> QED
    BY <2>2, <2>3, <2>4, <2>5 DEF SInv, Kept
<1>2. CASE Connect(a, u)
  <2> DEFINE row == [apps[a] EXCEPT !.users = @ \cup {u}]
  <2>1. row \in App /\ row.key = apps[a].key /\ row.users = apps[a].users \cup {u}
    <3>1. u \in Nat
      OBVIOUS
    <3> QED
      BY <1>0, <3>1 DEF App
  <2>2. apps' = [apps EXCEPT ![a] = row] /\ gone' = gone /\ Vacant(a)
    BY <1>2 DEF Connect, Connected
  <2> HIDE DEF row
  <2> QED
    BY <1>1, <2>1, <2>2
<1>3. CASE DeleteUser(a, u)
  <2> DEFINE row == [apps[a] EXCEPT !.users = @ \ {u}]
  <2>1. row \in App /\ row.key = apps[a].key /\ row.users = apps[a].users \ {u}
    BY <1>0 DEF App
  <2>2. apps' = [apps EXCEPT ![a] = row] /\ gone' = gone \cup {u}
    BY <1>3 DEF DeleteUser
  <2> HIDE DEF row
  <2> QED
    BY <1>1, <2>1, <2>2
<1> QED
  BY <1>2, <1>3

\* Every step keeps the invariant, if nothing overlaps.
LEMMA NextKeeps ==
  ASSUME SInv, "overlap" \notin Env, Next
  PROVE  SInv'
<1>0. Kept
  BY CountsKeep DEF SInv, Kept
<1>1. ASSUME NEW r \in Runs, QuietAction(r)
      PROVE  SInv'
  BY <1>0, <1>1, QuietActionKeeps
<1>2. ASSUME NEW r \in Runs, run[r].pc \notin Ended \cup {"start"}, Exits(r)
      PROVE  SInv'
  BY <1>0, <1>2, ExitKeeps
<1>3. ASSUME NEW r \in Runs, Answers(r)
      PROVE  SInv'
  <2>1. \/ QuietAction(r) \/ RotateAnswers(r) \/ CreateAnswers(r) \/ CallbackAnswers(r)
        \/ ClientAnswers(r) \/ UsersAnswers(r)
        \/ (Exits(r) /\ run[r].pc \notin Ended \cup {"start"})
    BY <1>3 DEF Answers, QuietAction, LookupFails, CreateFails, LoginFails, TokenFails, UsersFails,
                ProveFails, Ended
  <2> QED
    BY <1>0, <1>1, <1>2, <2>1, RotateKeeps, CreateKeeps, ColumnsKeep, UsersKeeps
<1>4. ASSUME NEW r \in Runs, NEW setting \in Settings,
             SelectCountry(r, setting) \/ SelectScopes(r, setting)
      PROVE  SInv'
  BY <1>1, <1>4 DEF SelectCountry, SelectScopes, QuietAction
<1>5. ASSUME NEW r \in Runs, NEW name \in Names, NEW next \in {"lookup", "create"},
             AskName(r, name, next)
      PROVE  SInv'
  BY <1>1, <1>5 DEF QuietAction
<1>6. ASSUME NEW r \in Runs, NEW u \in 1..MaxUsers, LoginSucceeds(r, u)
      PROVE  SInv'
  BY <1>0, <1>6, LoginKeeps
<1>7. ASSUME NEW r \in Runs, Fail(r)
      PROVE  SInv'
  BY <1>2, <1>7 DEF Fail, Live
<1>8. ASSUME NEW a \in Runs, NEW u \in 1..MaxUsers, Connect(a, u) \/ DeleteUser(a, u)
      PROVE  SInv'
  BY <1>0, <1>8, OthersKeep
<1> QED
  BY <1>3, <1>4, <1>5, <1>6, <1>7, <1>8 DEF Next

\* Nothing has been asked or promised at first.
LEMMA InitHolds == Init => SInv
<1> SUFFICES ASSUME Init PROVE SInv
  OBVIOUS
<1>1. CInv
  BY InitCounts
<1>2. \A r \in Runs : run[r].pc = "start" /\ ~run[r].yes /\ apps[r] = NoApp
  BY DEF Init, NewRun
<1>3. \A s \in Scripts : file[s] = NoFile
  BY DEF Init
<1> QED
  BY <1>1, <1>2, <1>3 DEF SInv, Own, Serial, Live, FilesFit, SecretsLostByConsent

\* What runs that do not overlap keep to.
LEMMA Invariance == "overlap" \notin Env => (Spec => []SInv)
<1> SUFFICES ASSUME "overlap" \notin Env PROVE Spec => []SInv
  OBVIOUS
<1>1. SInv /\ [Next]_vars => SInv'
  <2>1. SInv /\ Next => SInv'
    BY NextKeeps
  <2>2. ASSUME SInv, UNCHANGED vars PROVE SInv'
    BY <2>2 DEF vars, SInv, CInv, CountsFit, TInv, TypeOK, LocalsFit, UsersAreBorn, Own, Serial,
                Live, NotYet, FilesFit, SecretsLostByConsent
  <2> QED
    BY <2>1, <2>2
<1> QED
  BY <1>1, InitHolds, PTL DEF Spec

-----------------------------------------------------------------------------
(* What the scripts promise, one run at a time *)

\* The user in a secrets file is the one whose login the run that wrote it has
\* asked for, for every number of runs, apps and other users, if runs do not overlap
\* and nobody else logs in at an app that a run has just rekeyed.
THEOREM SavedUserLoggedIn == "overlap" \notin Env => (Spec => []SavedUserIsTheLogin)
<1> SUFFICES ASSUME "overlap" \notin Env PROVE Spec => []SavedUserIsTheLogin
  OBVIOUS
<1>1. SInv => SavedUserIsTheLogin
  BY DEF SInv, FilesFit, SavedUserIsTheLogin
<1> QED
  BY <1>1, Invariance, PTL

\* Under the same condition secrets stop working only after another run on the
\* same app was told "yes", or because an administrator has deleted their user, even
\* if others log in between a run's count of the users and its new key.
THEOREM SecretsAreLostByConsent == "overlap" \notin Env => (Spec => []SecretsLostByConsent)
<1> SUFFICES ASSUME "overlap" \notin Env PROVE Spec => []SecretsLostByConsent
  OBVIOUS
<1>1. SInv => SecretsLostByConsent
  BY DEF SInv
<1> QED
  BY <1>1, Invariance, PTL

\* When a run says that all is done, the secrets file of its script holds its own
\* key, which is that of the app, and a user who is connected there.
THEOREM DoneMeansWorking == "overlap" \notin Env => (Spec => DoneSecretsWork)
<1> SUFFICES ASSUME "overlap" \notin Env PROVE Spec => DoneSecretsWork
  OBVIOUS
<1> DEFINE A == \A r \in Runs : run'[r].pc = "done" /\ run[r].pc # "done"
                  => LET f == file'[Script[r]]
                     IN f.key = r /\ apps'[f.app].key = r /\ f.user \in apps'[f.app].users
<1>1. ASSUME SInv, [Next]_vars PROVE A
  <2> SUFFICES ASSUME NEW r \in Runs, run'[r].pc = "done", run[r].pc # "done"
               PROVE  LET f == file'[Script[r]]
                      IN f.key = r /\ apps'[f.app].key = r /\ f.user \in apps'[f.app].users
    OBVIOUS
  <2>0. run \in [Runs -> Local]
    BY <1>1 DEF SInv, CInv, TInv, TypeOK
  <2>1. ProveAnswers(r)
    <3>1. ASSUME NEW q \in Runs, NEW l, run' = [run EXCEPT ![q] = l]
          PROVE  q = r /\ l.pc = "done"
      BY <2>0, <3>1
    <3>2. ASSUME NEW q \in Runs, NEW pc, Goes(q, pc)
          PROVE  q = r /\ pc = "done"
      BY <2>0, <3>2 DEF Goes, Local
    <3>3. ASSUME NEW q \in Runs, NEW setting, Select(q, setting)
          PROVE  FALSE
      BY <2>0, <3>3 DEF Select, Local
    <3>4. ASSUME NEW q \in Runs, NEW name, NEW next, AskName(q, name, next)
          PROVE  FALSE
      BY <2>0, <3>4 DEF AskName, Local
    <3>5. ASSUME NEW q \in Runs, LookupFinds(q) PROVE FALSE
      BY <2>0, <3>5 DEF LookupFinds, Local
    <3>6. ASSUME NEW q \in Runs, Confirm(q) PROVE FALSE
      BY <2>0, <3>6 DEF Confirm, Local
    <3>7. ASSUME NEW q \in Runs, CreateAnswers(q) PROVE FALSE
      BY <2>0, <3>7 DEF CreateAnswers, Local
    <3>8. ASSUME NEW q \in Runs, NEW u, LoginSucceeds(q, u) PROVE FALSE
      BY <2>0, <3>8 DEF LoginSucceeds, Local
    <3>9. ASSUME NEW q \in Runs, UsersAnswers(q) PROVE FALSE
      BY <2>0, <3>9 DEF UsersAnswers, Local
    <3>10. ASSUME NEW q \in Runs, Exits(q) PROVE FALSE
      BY <3>2, <3>10 DEF Exits
    <3>11. ASSUME NEW q \in Runs, RotateAnswers(q) \/ CallbackAnswers(q) \/ ClientAnswers(q)
                                  \/ TokenAnswers(q)
           PROVE  FALSE
      BY <3>2, <3>11 DEF RotateAnswers, CallbackAnswers, ClientAnswers, TokenAnswers
    <3>15. ASSUME NEW q \in Runs, StatusAnswers(q) PROVE FALSE
      BY <2>0, <3>15 DEF StatusAnswers, Local
    <3>12. ASSUME NEW q \in Runs, ProveAnswers(q) PROVE ProveAnswers(r)
      BY <3>2, <3>12 DEF ProveAnswers
    <3>13. run' # run
      OBVIOUS
    <3>14. ASSUME NEW q \in Runs, Answers(q) PROVE ProveAnswers(r)
      BY <3>5, <3>6, <3>7, <3>9, <3>10, <3>11, <3>12, <3>14, <3>15
      DEF Answers, LookupFails, CreateFails, LoginFails, TokenFails, UsersFails, ProveFails
    <3> QED
      BY <1>1, <3>3, <3>4, <3>8, <3>10, <3>13, <3>14
      DEF Next, SelectCountry, SelectScopes, Fail, Connect, DeleteUser, vars
  <2>2. /\ run[r].pc = "prove" /\ run[r].user \in apps[run[r].app].users
        /\ UNCHANGED <<apps, file>> /\ Own(r)
    BY <1>1, <2>1 DEF SInv, ProveAnswers
  <2>3. file[Script[r]] = [app |-> run[r].app, user |-> run[r].user, key |-> r]
        /\ apps[run[r].app].key = r
    BY <2>2 DEF Own
  <2> QED
    BY <2>2, <2>3
<1> QED
  BY <1>1, Invariance, PTL DEF Spec, DoneSecretsWork
=============================================================================
