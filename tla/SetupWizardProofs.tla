------------------------- MODULE SetupWizardProofs --------------------------
(***************************************************************************)
(* Theorems about SetupWizard, for every value of its constants.           *)
(***************************************************************************)
EXTENDS SetupWizard, SequenceTheorems, TLAPS

-----------------------------------------------------------------------------
(* Type correctness *)

\* An app is asked for with a name, a URL and a key.
CreatesAreComplete ==
  \A p \in Submits : sub[p].pc = "create" =>
    sub[p].name \in Names /\ sub[p].url \in Urls /\ sub[p].pub \in KeyPairs

TInv == TypeOK /\ CreatesAreComplete

\* What a served call leaves of the apps: all of them, with their keys.
Grown ==
  /\ apps' \in Seq(App) /\ DOMAIN apps \subseteq DOMAIN apps'
  /\ \A i \in DOMAIN apps : apps'[i].pub = apps[i].pub

\* A PATCH changes a column of one app that exists, if any.
LEMMA PatchedTable ==
  ASSUME NEW table \in Seq(App), NEW id, NEW url \in Urls \cup {None}
  PROVE  /\ SetRedirect(table, id, url) \in Seq(App) /\ SetClient(table, id) \in Seq(App)
         /\ DOMAIN SetRedirect(table, id, url) = DOMAIN table
         /\ DOMAIN SetClient(table, id) = DOMAIN table
         /\ \A i \in DOMAIN table :
              /\ SetRedirect(table, id, url)[i].pub = table[i].pub
              /\ SetRedirect(table, id, url)[i].client = table[i].client
              /\ SetClient(table, id)[i].pub = table[i].pub
              /\ i # id => SetClient(table, id)[i].client = table[i].client
<1>1. /\ DOMAIN table = 1..Len(table) /\ Len(table) \in Nat
      /\ \A i \in 1..Len(table) : table[i] \in App
  OBVIOUS
<1> DEFINE a == SetRedirect(table, id, url)
           b == SetClient(table, id)
<1>2. DOMAIN a = 1..Len(table) /\ DOMAIN b = 1..Len(table)
  BY <1>1 DEF SetRedirect, SetClient
<1>3. ASSUME NEW i \in 1..Len(table)
      PROVE  /\ a[i] \in App /\ a[i].pub = table[i].pub /\ a[i].client = table[i].client
             /\ b[i] \in App /\ b[i].pub = table[i].pub
             /\ i # id => b[i].client = table[i].client
  <2>1. table[i] \in App
    BY <1>1
  <2>2. /\ a[i] = IF i = id THEN [table[i] EXCEPT !.redirect = url] ELSE table[i]
        /\ b[i] = IF i = id THEN [table[i] EXCEPT !.client = TRUE] ELSE table[i]
    BY <1>1 DEF SetRedirect, SetClient
  <2> HIDE DEF a, b
  <2> QED
    BY <2>1, <2>2 DEF App
<1>4. a = [i \in 1..Len(table) |-> a[i]] /\ b = [i \in 1..Len(table) |-> b[i]]
  BY <1>1 DEF SetRedirect, SetClient
<1> HIDE DEF a, b
<1>5. a \in Seq(App) /\ b \in Seq(App)
  BY <1>1, <1>3, <1>4, IsASeq
<1> QED
  BY <1>1, <1>2, <1>3, <1>5 DEF a, b

\* create_app: the new app is the last one, with the key it was asked for.
LEMMA InsertedTable ==
  ASSUME TInv, NEW p \in Submits, sub[p].pc = "create", apps' = InsertApp(sub[p])
  PROVE  /\ Grown /\ DOMAIN apps' = DOMAIN apps \cup {Len(apps) + 1} /\ Len(apps) + 1 # None
         /\ \A i \in DOMAIN apps : apps'[i] = apps[i]
         /\ apps'[Len(apps) + 1].pub = sub[p].pub /\ ~apps'[Len(apps) + 1].client
<1>1. apps \in Seq(App) /\ NewApp(sub[p]) \in App
  BY DEF TInv, TypeOK, CreatesAreComplete, NewApp, App
<1>2. Len(apps) \in Nat /\ DOMAIN apps = 1..Len(apps)
  BY <1>1
<1>3. /\ apps' \in Seq(App) /\ Len(apps') = Len(apps) + 1
      /\ \A i \in 1..Len(apps) : apps'[i] = apps[i]
      /\ apps'[Len(apps) + 1] = NewApp(sub[p])
  BY <1>1, AppendProperties DEF InsertApp
<1>4. DOMAIN apps' = 1..(Len(apps) + 1)
  BY <1>3
<1> QED
  BY <1>2, <1>3, <1>4 DEF Grown, NewApp, None

\* A call that fails was refused or dropped, or served in vain.
LEMMA FailedCall ==
  ASSUME NEW p \in Submits, CallFails(p)
  PROVE  \/ UNCHANGED apps
         \/ sub[p].pc = "create" /\ apps' = InsertApp(sub[p])
         \/ sub[p].pc = "patch" /\ apps' = SetRedirect(apps, sub[p].app, sub[p].url)
         \/ sub[p].pc = "save" /\ apps' = SetClient(apps, sub[p].app)
<1>1. CASE apps' = Served(sub[p])
  BY <1>1 DEF Served
<1> QED
  BY <1>1 DEF CallFails

\* No call removes an app or changes its key.
LEMMA NextApps ==
  ASSUME TInv, Next
  PROVE  Grown
<1>0. apps \in Seq(App) /\ sub \in [Submits -> Local]
  BY DEF TInv, TypeOK
<1>1. CASE UNCHANGED apps
  BY <1>0, <1>1 DEF Grown
<1>2. ASSUME NEW id, NEW url \in Urls \cup {None},
             apps' = SetRedirect(apps, id, url) \/ apps' = SetClient(apps, id)
      PROVE  Grown
  <2>1. CASE apps' = SetRedirect(apps, id, url)
    BY <1>0, <2>1, PatchedTable DEF Grown
  <2>2. CASE apps' = SetClient(apps, id)
    BY <1>0, <2>2, PatchedTable DEF Grown
  <2> QED
    BY <1>2, <2>1, <2>2
<1>3. ASSUME NEW p \in Submits, CreateAnswers(p) \/ PatchAnswers(p) \/ SaveAnswers(p)
      PROVE  Grown
  <2>1. CASE CreateAnswers(p)
    BY <2>1, InsertedTable DEF CreateAnswers
  <2>2. CASE PatchAnswers(p)
    <3>1. sub[p].url \in Urls \cup {None}
      BY <1>0 DEF Local
    <3> QED
      BY <1>2, <2>2, <3>1 DEF PatchAnswers
  <2>3. CASE SaveAnswers(p)
    BY <1>2, <2>3 DEF SaveAnswers
  <2> QED
    BY <1>3, <2>1, <2>2, <2>3
<1>4. ASSUME NEW p \in Submits, CallFails(p)
      PROVE  Grown
  <2>1. CASE sub[p].pc = "create" /\ apps' = InsertApp(sub[p])
    BY <2>1, InsertedTable
  <2>2. CASE \/ apps' = SetRedirect(apps, sub[p].app, sub[p].url)
             \/ apps' = SetClient(apps, sub[p].app)
    <3>1. sub[p].url \in Urls \cup {None}
      BY <1>0 DEF Local
    <3> QED
      BY <1>2, <2>2, <3>1
  <2> QED
    BY <1>1, <1>4, <2>1, <2>2, FailedCall
<1> QED
  BY <1>1, <1>3, <1>4
  DEF Next, Submit, Enter, Leave, Back, Relabel, Login, Submit1, Submit2, Submit3, KeyGenerated,
      Digest, TokenAnswers, UsersAnswers

\* A handler that is not running.
LEMMA IdleLocal == Idle \in Local /\ Idle.app = None /\ Idle.pc = "idle" /\ NoCode \in Code
<1>1. NoCode \in Code
  BY DEF NoCode, Code, None
<1> QED
  BY <1>1 DEF Idle, Local, None

\* A page shows the model's app.
LEMMA PageOf ==
  ASSUME NEW m \in Model, NEW n \in 0..4
  PROVE  Page(n, m) \in PageType /\ Page(n, m).step = n /\ Page(n, m).app = m.app
BY DEF Page, PageType, Model, None

\* So does the link of step 3.
LEMMA LinkOf ==
  ASSUME NEW m \in Model, NEW c \in Nat
  PROVE  Link(m, c) \in PageType /\ Link(m, c).step = 3 /\ Link(m, c).app = m.app
<1>1. 3 \in 0..4 /\ m.nonce \in Nat
  BY DEF Model
<1>2. Page(3, m) \in PageType /\ Page(3, m).step = 3 /\ Page(3, m).app = m.app
  BY <1>1, PageOf
<1> QED
  BY <1>1, <1>2 DEF Link, PageType

\* A new model has no app.
LEMMA NewModelType == NewModel \in Model /\ NewModel.app = None /\ NewModel.step = 1
BY WizardAssumption DEF NewModel, Model, None

\* A handler's locals stay typed when one of them is set.
LEMMA SubSet ==
  ASSUME TInv, NEW p \in Submits, NEW l \in Local, l.app \in DOMAIN apps' \cup {None}, Grown,
         sub' = [sub EXCEPT ![p] = l]
  PROVE  /\ sub' \in [Submits -> Local] /\ sub'[p] = l /\ \A q \in Submits \ {p} : sub'[q] = sub[q]
         /\ \A q \in Submits : sub'[q].app \in DOMAIN apps' \cup {None}
BY DEF TInv, TypeOK, Grown

\* The parts of the type that handlers change.
Typed ==
  /\ model' \in Model /\ page' \in PageType /\ busy' \in Submits \cup {None}
  /\ sub' \in [Submits -> Local]
  /\ model'.app \in DOMAIN apps' \cup {None} /\ page'.app \in DOMAIN apps' \cup {None}
  /\ \A p \in Submits : sub'[p].app \in DOMAIN apps' \cup {None}
  /\ CreatesAreComplete'

\* With a key pair, step 1 calls createApp or goes on to step 2.
LEMMA RegisterType ==
  ASSUME TInv, Grown, NEW p \in Submits, NEW m \in Model, m.app = model.app, m.pub # None,
         Register(p, m), NeedsApp(m) => busy' \in Submits \cup {None}
  PROVE  Typed
<1>0. m.app \in DOMAIN apps' \cup {None} /\ page.app \in DOMAIN apps' \cup {None}
  BY DEF TInv, TypeOK, Grown
<1>1. CASE NeedsApp(m)
  <2> DEFINE l == [Idle EXCEPT !.pc = "create", !.name = m.name, !.url = m.url, !.pub = m.pub]
  <2>1. /\ l \in Local /\ l.app = None /\ l.pc = "create" /\ l.name = m.name /\ l.url = m.url
        /\ l.pub = m.pub
    BY IdleLocal DEF Local, Model, Calls
  <2>2. m.name \in Names /\ m.url \in Urls /\ m.pub \in KeyPairs
    BY DEF Model
  <2>3. model' = [m EXCEPT !.redirect = m.url] /\ sub' = [sub EXCEPT ![p] = l] /\ page' = page
    BY <1>1 DEF Register
  <2>4. model' \in Model /\ model'.app = m.app
    BY <2>2, <2>3 DEF Model
  <2> HIDE DEF l
  <2> QED
    BY <1>0, <1>1, <2>1, <2>2, <2>3, <2>4, SubSet DEF Typed, TInv, TypeOK, CreatesAreComplete
<1>2. CASE ~NeedsApp(m)
  <2>1. /\ model' = [m EXCEPT !.step = 2] /\ page' = Page(2, model') /\ busy' = None
        /\ sub' = [sub EXCEPT ![p] = Idle]
    BY <1>2 DEF Register, EndAt
  <2>2. model' \in Model /\ model'.app = m.app
    BY <2>1 DEF Model
  <2>3. page' \in PageType /\ page'.app = m.app
    <3>1. 2 \in 0..4
      OBVIOUS
    <3> QED
      BY <2>1, <2>2, <3>1, PageOf
  <2> QED
    BY <1>0, <2>1, <2>2, <2>3, SubSet, IdleLocal DEF Typed, TInv, TypeOK, CreatesAreComplete
<1> QED
  BY <1>1, <1>2

\* A handler that ends, with or without a page.
LEMMA EndType ==
  ASSUME TInv, Grown, NEW p \in Submits, sub' = [sub EXCEPT ![p] = Idle],
         busy' \in Submits \cup {None}, model' \in Model,
         model'.app \in DOMAIN apps' \cup {None},
         \/ page' = page
         \/ page' \in PageType /\ page'.app \in {None, model'.app}
  PROVE  Typed
<1>1. page' \in PageType /\ page'.app \in DOMAIN apps' \cup {None}
  BY DEF TInv, TypeOK, Grown
<1> QED
  BY <1>1, IdleLocal, SubSet DEF Typed, TInv, CreatesAreComplete

\* A handler that calls the API, or awaits something else than a createApp.
LEMMA CallType ==
  ASSUME TInv, Grown, NEW p \in Submits, NEW l \in Local, l.pc # "create",
         l.app \in DOMAIN apps' \cup {None}, sub' = [sub EXCEPT ![p] = l], page' = page,
         busy' \in Submits \cup {None}, model' \in Model, model'.app \in DOMAIN apps' \cup {None}
  PROVE  Typed
<1>1. page' \in PageType /\ page'.app \in DOMAIN apps' \cup {None}
  BY DEF TInv, TypeOK, Grown
<1> QED
  BY <1>1, SubSet DEF Typed, TInv, CreatesAreComplete

\* Every handler leaves the model, the page and the locals typed.
LEMMA NextTyped ==
  ASSUME TInv, Next
  PROVE  Typed
<1>0. /\ model \in Model /\ page \in PageType /\ busy \in Submits \cup {None}
      /\ sub \in [Submits -> Local] /\ nonces \in Nat /\ codes \subseteq Code
      /\ model.app \in DOMAIN apps' \cup {None} /\ page.app \in DOMAIN apps' \cup {None}
      /\ \A p \in Submits : sub[p].app \in DOMAIN apps' \cup {None}
      /\ Grown /\ CreatesAreComplete
  BY NextApps DEF TInv, TypeOK, Grown
<1>1. ASSUME UNCHANGED sub, busy' \in Submits \cup {None}, model' \in Model, page' \in PageType,
             model'.app \in {None, model.app}, page'.app \in {None, page.app, model.app}
      PROVE  Typed
  BY <1>0, <1>1 DEF Typed, CreatesAreComplete
<1>2. CASE Enter
  <2>1. model' = NewModel /\ page' = Page(1, NewModel) /\ busy' = None /\ UNCHANGED sub
    BY <1>2 DEF Enter, FreshModel
  <2>2. page' \in PageType /\ page'.app = None
    <3>1. 1 \in 0..4
      OBVIOUS
    <3> QED
      BY <2>1, <3>1, PageOf, NewModelType
  <2> QED
    BY <1>1, <2>1, <2>2, NewModelType
<1>3. CASE Leave
  <2>1. Blank \in PageType /\ Blank.app = None
    BY DEF Blank, PageType, None
  <2> QED
    BY <1>0, <1>1, <1>3, <2>1 DEF Leave
<1>4. CASE Back
  <2>1. page.step - 1 \in 1..2 /\ UNCHANGED sub /\ busy' = None
    BY <1>0, <1>4 DEF Back, PageType
  <2>2. model' \in Model /\ model'.app = model.app
    BY <1>0, <1>4, <2>1 DEF Back, Model
  <2>3. page' \in PageType /\ page'.app = model.app
    <3>1. page.step - 1 \in 0..4
      BY <2>1
    <3> QED
      BY <1>0, <1>4, <3>1, PageOf DEF Back
  <2> QED
    BY <1>1, <2>1, <2>2, <2>3
<1>5. CASE Relabel
  <2>1. page.challenge \in Nat
    BY <1>0 DEF PageType
  <2>2. page' \in PageType /\ page'.app = model.app
    BY <1>0, <1>5, <2>1, LinkOf DEF Relabel
  <2> QED
    BY <1>0, <1>1, <1>5, <2>2 DEF Relabel
<1>6. CASE Login
  BY <1>0, <1>1, <1>6 DEF Login
<1>7. ASSUME NEW p \in Submits, NEW url \in Urls, NEW name \in Names, Submit1(p, url, name)
      PROVE  Typed
  <2> DEFINE m == [model EXCEPT !.url = url, !.name = name]
  <2>1. m \in Model /\ m.app = model.app /\ m.pub = model.pub
    BY <1>0 DEF Model
  <2>2. CASE NeedsKey(m)
    <3>1. [Idle EXCEPT !.pc = "keygen"] \in Local /\ [Idle EXCEPT !.pc = "keygen"].app = None
          /\ [Idle EXCEPT !.pc = "keygen"].pc = "keygen"
      BY IdleLocal DEF Local, Calls
    <3>2. /\ model' = m /\ sub' = [sub EXCEPT ![p] = [Idle EXCEPT !.pc = "keygen"]]
          /\ busy' = p /\ page' = page
      BY <1>7, <2>2 DEF Submit1
    <3> HIDE DEF m
    <3> QED
      BY <1>0, <2>1, <3>1, <3>2, CallType
  <2>3. CASE ~NeedsKey(m)
    <3>1. Register(p, m) /\ (NeedsApp(m) => busy' = p)
      BY <1>7, <2>3 DEF Submit1
    <3> HIDE DEF m
    <3> QED
      BY <1>0, <2>1, <2>3, <3>1, RegisterType DEF NeedsKey
  <2> QED
    BY <2>2, <2>3
<1>8. ASSUME NEW p \in Submits, NEW k \in KeyPairs, KeyGenerated(p, k)
      PROVE  Typed
  <2> DEFINE m == [model EXCEPT !.pub = k, !.priv = k]
  <2>1. m \in Model /\ m.app = model.app /\ m.pub # None
    BY <1>0, WizardAssumption DEF Model
  <2>2. Register(p, m) /\ (NeedsApp(m) => busy' = busy)
    BY <1>8 DEF KeyGenerated
  <2> HIDE DEF m
  <2> QED
    BY <1>0, <2>1, <2>2, RegisterType
<1>9. ASSUME NEW p \in Submits, CreateAnswers(p)
      PROVE  Typed
  <2> DEFINE id == Len(apps) + 1
             l  == [Idle EXCEPT !.pc = "patch", !.app = id, !.url = model.url]
  <2>1. id \in DOMAIN apps' /\ id \in Nat
    BY <1>9, InsertedTable DEF CreateAnswers, TInv, TypeOK
  <2>2. l \in Local /\ l.app = id /\ l.pc = "patch"
    BY <1>0, <2>1, IdleLocal DEF Local, Calls, Model
  <2>3. /\ model' = [model EXCEPT !.app = id] /\ sub' = [sub EXCEPT ![p] = l]
        /\ page' = page /\ busy' = busy
    BY <1>9 DEF CreateAnswers
  <2> HIDE DEF id, l
  <2>4. model' \in Model /\ model'.app = id
    BY <1>0, <2>1, <2>3 DEF Model
  <2> QED
    BY <1>0, <2>1, <2>2, <2>3, <2>4, CallType
<1>10. ASSUME NEW p \in Submits, PatchAnswers(p) \/ UsersAnswers(p)
       PROVE  Typed
  <2>1. PICK n \in {2, 4} : page' = Page(n, model')
    BY <1>10 DEF PatchAnswers, UsersAnswers, EndAt
  <2>2. busy' = None /\ sub' = [sub EXCEPT ![p] = Idle]
    BY <1>10 DEF PatchAnswers, UsersAnswers, EndAt
  <2>3. model' \in Model /\ model'.app = model.app
    <3>1. /\ [model EXCEPT !.step = 2] \in Model /\ [model EXCEPT !.step = 2].app = model.app
          /\ [model EXCEPT !.step = 4] \in Model /\ [model EXCEPT !.step = 4].app = model.app
      BY <1>0 DEF Model
    <3> DEFINE m == [model EXCEPT !.step = 4]
    <3>2. model' = [model EXCEPT !.step = 2] \/ model' = [m EXCEPT !.priv = None]
      BY <1>10 DEF PatchAnswers, UsersAnswers, Forget
    <3> HIDE DEF m
    <3>3. m \in Model => [m EXCEPT !.priv = None] \in Model /\ [m EXCEPT !.priv = None].app = m.app
      BY DEF Model
    <3> QED
      BY <3>1, <3>2, <3>3 DEF m
  <2>4. page' \in PageType /\ page'.app = model'.app
    <3>1. n \in 0..4
      OBVIOUS
    <3> QED
      BY <2>1, <2>3, <3>1, PageOf
  <2> QED
    BY <1>0, <2>2, <2>3, <2>4, EndType
<1>11. ASSUME NEW p \in Submits, Submit2(p)
       PROVE  Typed
  <2> DEFINE l == [Idle EXCEPT !.pc = "save", !.app = model.app]
  <2>1. l \in Local /\ l.app = model.app /\ l.pc = "save"
    BY <1>0, IdleLocal DEF Local, Calls, Model
  <2>2. sub' = [sub EXCEPT ![p] = l] /\ busy' = p /\ page' = page /\ model' = model
    BY <1>11 DEF Submit2
  <2> HIDE DEF l
  <2> QED
    BY <1>0, <2>1, <2>2, CallType
<1>12. ASSUME NEW p \in Submits, SaveAnswers(p)
       PROVE  Typed
  <2> DEFINE n == nonces + 1
             l == [Idle EXCEPT !.pc = "digest", !.nonce = n]
  <2>0. n \in Nat
    BY <1>0
  <2>1. l \in Local /\ l.app = None /\ l.pc = "digest"
    <3> HIDE DEF n
    <3> QED
      BY <2>0, IdleLocal DEF Local, Calls
  <2>2. /\ sub' = [sub EXCEPT ![p] = l] /\ page' = page /\ busy' \in {None, busy}
        /\ model' = [model EXCEPT !.step = 3, !.nonce = n]
    BY <1>12 DEF SaveAnswers
  <2> HIDE DEF l, n
  <2>3. model' \in Model /\ model'.app = model.app
    <3>1. 3 \in 1..4
      OBVIOUS
    <3> QED
      BY <1>0, <2>0, <2>2, <3>1 DEF Model
  <2> QED
    BY <1>0, <2>1, <2>2, <2>3, CallType
<1>13. ASSUME NEW p \in Submits, Digest(p)
       PROVE  Typed
  <2>1. sub[p].nonce \in Nat
    BY <1>0 DEF Local
  <2>2. page' \in PageType /\ page'.app = model.app
    BY <1>0, <1>13, <2>1, LinkOf DEF Digest
  <2> QED
    BY <1>0, <1>13, <2>2, EndType DEF Digest
<1>14. ASSUME NEW p \in Submits, NEW code \in codes, Submit3(p, code)
       PROVE  Typed
  <2> DEFINE l == [Idle EXCEPT !.pc = "token", !.app = model.app, !.url = model.redirect,
                               !.nonce = model.nonce, !.code = code]
  <2>1. l \in Local /\ l.app = model.app /\ l.pc = "token"
    BY <1>0, IdleLocal DEF Local, Calls, Model
  <2>2. sub' = [sub EXCEPT ![p] = l] /\ busy' = p /\ page' = page /\ model' = model
    BY <1>14 DEF Submit3
  <2> HIDE DEF l
  <2> QED
    BY <1>0, <2>1, <2>2, CallType
<1>15. ASSUME NEW p \in Submits, TokenAnswers(p)
       PROVE  Typed
  <2> DEFINE l == [Idle EXCEPT !.pc = "users"]
  <2>1. l \in Local /\ l.app = None /\ l.pc = "users"
    BY IdleLocal DEF Local, Calls
  <2>2. sub' = [sub EXCEPT ![p] = l] /\ busy' = busy /\ page' = page /\ model' = model
    BY <1>15 DEF TokenAnswers
  <2> HIDE DEF l
  <2> QED
    BY <1>0, <2>1, <2>2, CallType
<1>16. ASSUME NEW p \in Submits, CallFails(p)
       PROVE  Typed
  <2>1. sub' = [sub EXCEPT ![p] = Idle] /\ busy' \in {None, busy} /\ page' = page /\ model' = model
    BY <1>16 DEF CallFails, End
  <2> QED
    BY <1>0, <2>1, EndType
<1> QED
  BY <1>2, <1>3, <1>4, <1>5, <1>6, <1>7, <1>8, <1>9, <1>10, <1>11, <1>12, <1>13, <1>14, <1>15,
     <1>16
  DEF Next, Submit

\* What the last step shows: the model's app and private key, then forgotten.
LEMMA ShownSecrets ==
  ASSUME TInv, NEW p \in Submits, UsersAnswers(p)
  PROVE  /\ shown' \in Seq([app : Nat, priv : KeyPairs \cup {None}])
         /\ DOMAIN shown' = DOMAIN shown \cup {Len(shown) + 1}
         /\ \A i \in DOMAIN shown : shown'[i] = shown[i]
         /\ shown'[Len(shown) + 1] = [app |-> model.app, priv |-> model.priv]
         /\ model'.priv = None /\ model'.app = model.app /\ model'.pub = model.pub
<1> DEFINE s == [app |-> model.app, priv |-> model.priv]
           T == [app : Nat, priv : KeyPairs \cup {None}]
<1>1. shown \in Seq(T) /\ s \in T /\ model \in Model
  BY DEF TInv, TypeOK, Model
<1>2. shown' = Append(shown, s)
  BY DEF UsersAnswers
<1>3. model'.priv = None /\ model'.app = model.app /\ model'.pub = model.pub
  <2> DEFINE m == [model EXCEPT !.step = 4]
  <2>1. m \in Model /\ m.app = model.app /\ m.pub = model.pub
    BY <1>1 DEF Model
  <2>2. model' = [m EXCEPT !.priv = None]
    BY DEF UsersAnswers, Forget
  <2> HIDE DEF m
  <2> QED
    BY <2>1, <2>2 DEF Model
<1> HIDE DEF s, T
<1>4. /\ shown' \in Seq(T) /\ Len(shown') = Len(shown) + 1
      /\ \A i \in 1..Len(shown) : shown'[i] = shown[i]
      /\ shown'[Len(shown) + 1] = s
  BY <1>1, <1>2, AppendProperties
<1>5. /\ DOMAIN shown = 1..Len(shown) /\ Len(shown) \in Nat
      /\ DOMAIN shown' = 1..(Len(shown) + 1)
  BY <1>1, <1>4
<1> QED
  BY <1>3, <1>4, <1>5 DEF s, T

\* Every other step shows nothing.
LEMMA ShownOnlyAtTheEnd ==
  ASSUME Next
  PROVE  UNCHANGED shown \/ \E p \in Submits : UsersAnswers(p)
BY DEF Next, Submit, Enter, Leave, Back, Relabel, Login, Submit1, Submit2, Submit3, KeyGenerated,
       CreateAnswers, PatchAnswers, SaveAnswers, Digest, TokenAnswers, CallFails

\* The wizard starts with typed state ...
LEMMA InitType == Init => TInv
<1> SUFFICES ASSUME Init PROVE TInv
  OBVIOUS
<1>1. Blank \in PageType /\ Blank.app = None
  BY DEF Blank, PageType, None
<1>2. sub \in [Submits -> Local] /\ \A p \in Submits : sub[p].app = None /\ sub[p].pc = "idle"
  BY IdleLocal DEF Init
<1>3. /\ apps \in Seq(App) /\ shown \in Seq([app : Nat, priv : KeyPairs \cup {None}])
      /\ portal \subseteq Nat \X (Urls \cup {None})
  BY DEF Init
<1> QED
  BY <1>1, <1>2, <1>3, NewModelType DEF Init, TInv, TypeOK, CreatesAreComplete

\* ... and every step keeps it so.
LEMMA NextType ==
  ASSUME TInv, Next
  PROVE  TInv'
<1>0. /\ model \in Model /\ page \in PageType /\ sub \in [Submits -> Local]
      /\ nonces \in Nat /\ visits \in Nat /\ codes \subseteq Code
      /\ portal \subseteq Nat \X (Urls \cup {None}) /\ at \in {"home", "wizard"}
      /\ shown \in Seq([app : Nat, priv : KeyPairs \cup {None}])
  BY DEF TInv, TypeOK
<1>1. shown' \in Seq([app : Nat, priv : KeyPairs \cup {None}])
  BY <1>0, ShownSecrets, ShownOnlyAtTheEnd
<1>2. codes' \subseteq Code
  <2>1. CASE Login
    <3>1. page.app \in Nat /\ page.state \in Nat /\ page.challenge \in Nat
      BY <1>0 DEF PageType
    <3> QED
      BY <1>0, <2>1, <3>1 DEF Login, Code
  <2>2. CASE codes' \subseteq codes
    BY <1>0, <2>2
  <2> QED
    BY <2>1, <2>2
    DEF Next, Submit, Enter, Leave, Back, Relabel, Submit1, Submit2, Submit3, KeyGenerated,
        CreateAnswers, PatchAnswers, SaveAnswers, Digest, TokenAnswers, UsersAnswers, CallFails
<1>3. portal' \subseteq Nat \X (Urls \cup {None})
  <2>1. ASSUME NEW p \in Submits, Submit2(p)
        PROVE  portal' \subseteq Nat \X (Urls \cup {None})
    <3>1. page.app \in Nat /\ page.url \in Urls \cup {None}
      BY <1>0 DEF PageType
    <3> QED
      BY <1>0, <2>1, <3>1 DEF Submit2
  <2> QED
    BY <1>0, <2>1
    DEF Next, Submit, Enter, Leave, Back, Relabel, Login, Submit1, Submit3, KeyGenerated,
        CreateAnswers, PatchAnswers, SaveAnswers, Digest, TokenAnswers, UsersAnswers, CallFails
<1>4. /\ at' \in {"home", "wizard"}
      /\ nonces' \in {nonces, nonces + 1} /\ visits' \in {visits, visits + 1}
  BY <1>0
  DEF Next, Submit, Enter, Leave, Back, Relabel, Login, Submit1, Submit2, Submit3, KeyGenerated,
      CreateAnswers, PatchAnswers, SaveAnswers, Digest, TokenAnswers, UsersAnswers, CallFails
<1>5. nonces' \in Nat /\ visits' \in Nat
  BY <1>0, <1>4
<1> QED
  BY <1>1, <1>2, <1>3, <1>4, <1>5, NextTyped, NextApps DEF Typed, Grown, TInv, TypeOK

\* Type correctness, with what a createApp is about to send.
LEMMA TypeInvariance == Spec => []TInv
<1>1. TInv /\ UNCHANGED vars => TInv'
  BY DEF vars, TInv, TypeOK, CreatesAreComplete
<1> QED
  BY <1>1, InitType, NextType, PTL DEF Spec

\* The wizard's model, its pages and its handlers hold what they may, and what
\* names an app names one that exists, whoever leaves the wizard when: a
\* handler that goes on writes into a model that is not its own, never into an
\* app that is not there.
THEOREM WizardTypeCorrect == Spec => []TypeOK
<1>1. TInv => TypeOK
  BY DEF TInv
<1> QED
  BY <1>1, TypeInvariance, PTL

-----------------------------------------------------------------------------
(* The private key *)

\* The key pairs that were shown are not kept.
ShownKeysAreForgotten ==
  \A i \in DOMAIN shown : shown[i].priv # None => shown[i].priv # model.priv

KInv == TInv /\ ShownKeysAreForgotten /\ KeyShownOnce

\* The model keeps its private key, loses it, or gets one that nobody has seen.
LEMMA PrivateKeySteps ==
  ASSUME TInv, Next
  PROVE  \/ model'.priv \in {None, model.priv}
         \/ \A i \in DOMAIN shown : shown[i].priv # model'.priv
<1>0. model \in Model
  BY DEF TInv, TypeOK
<1>1. ASSUME NEW p \in Submits, NEW m \in Model, Register(p, m)
      PROVE  model'.priv = m.priv
  BY <1>1 DEF Register, Model
<1>2. ASSUME NEW p \in Submits, NEW url \in Urls, NEW name \in Names, Submit1(p, url, name)
      PROVE  model'.priv = model.priv
  <2> DEFINE m == [model EXCEPT !.url = url, !.name = name]
  <2>1. m \in Model /\ m.priv = model.priv
    BY <1>0 DEF Model
  <2>2. model' = m \/ Register(p, m)
    BY <1>2 DEF Submit1
  <2> HIDE DEF m
  <2> QED
    BY <1>1, <2>1, <2>2
<1>3. ASSUME NEW p \in Submits, NEW k \in KeyPairs, KeyGenerated(p, k)
      PROVE  \A i \in DOMAIN shown : shown[i].priv # model'.priv
  <2> DEFINE m == [model EXCEPT !.pub = k, !.priv = k]
  <2>1. m \in Model /\ m.priv = k
    BY <1>0 DEF Model
  <2>2. Register(p, m) /\ \A i \in DOMAIN shown : shown[i].priv # k
    BY <1>3 DEF KeyGenerated
  <2> HIDE DEF m
  <2> QED
    BY <1>1, <2>1, <2>2
<1>4. CASE Enter
  BY <1>4 DEF Enter, FreshModel, NewModel
<1>5. CASE Back
  BY <1>0, <1>5 DEF Back, Model
<1>6. ASSUME NEW p \in Submits, CreateAnswers(p) \/ PatchAnswers(p) \/ SaveAnswers(p)
      PROVE  model'.priv = model.priv
  BY <1>0, <1>6 DEF CreateAnswers, PatchAnswers, SaveAnswers, Model
<1> QED
  BY <1>2, <1>3, <1>4, <1>5, <1>6, ShownSecrets
  DEF Next, Submit, Leave, Relabel, Login, Submit2, Submit3, Digest, TokenAnswers, CallFails

\* A key that is shown is forgotten in the same step, and never drawn again.
LEMMA NextKeys ==
  ASSUME KInv, Next
  PROVE  KInv'
<1>1. CASE UNCHANGED shown
  BY <1>1, NextType, PrivateKeySteps DEF KInv, ShownKeysAreForgotten, KeyShownOnce
<1>2. ASSUME NEW p \in Submits, UsersAnswers(p)
      PROVE  KInv'
  <2>1. TInv' /\ TInv
    BY NextType DEF KInv
  <2>2. ShownKeysAreForgotten'
    BY <1>2, <2>1, ShownSecrets DEF ShownKeysAreForgotten
  <2>3. KeyShownOnce'
    <3> SUFFICES ASSUME NEW i \in DOMAIN shown', NEW j \in DOMAIN shown', shown'[i].priv # None,
                        shown'[i].priv = shown'[j].priv
                 PROVE  i = j
      BY DEF KeyShownOnce
    <3>1. /\ \A n \in {i, j} : n \in DOMAIN shown \/ n = Len(shown) + 1
          /\ \A n \in {i, j} : n \in DOMAIN shown =>
               shown'[n] = shown[n] /\ (shown[n].priv # None => shown[n].priv # model.priv)
          /\ shown'[Len(shown) + 1].priv = model.priv
      BY <1>2, <2>1, ShownSecrets DEF KInv, ShownKeysAreForgotten
    <3> QED
      BY <3>1 DEF KInv, KeyShownOnce
  <2> QED
    BY <2>1, <2>2, <2>3 DEF KInv
<1> QED
  BY <1>1, <1>2, ShownOnlyAtTheEnd

\* Step 4 never shows a private key again that it has shown ("the private key
\* is never shown again"), whatever handlers are still under way: it forgets
\* the key in the step that shows it, before anybody else can read it.
THEOREM KeysAreShownOnce == Spec => []KeyShownOnce
<1>1. Init => KInv
  BY InitType DEF Init, KInv, ShownKeysAreForgotten, KeyShownOnce
<1>2. KInv /\ [Next]_vars => KInv'
  <2>1. KInv /\ UNCHANGED vars => KInv'
    BY DEF vars, KInv, TInv, TypeOK, CreatesAreComplete, ShownKeysAreForgotten, KeyShownOnce
  <2> QED
    BY <2>1, NextKeys
<1>3. KInv => KeyShownOnce
  BY DEF KInv
<1> QED
  BY <1>1, <1>2, <1>3, PTL DEF Spec

-----------------------------------------------------------------------------
(* One key pair, one app, as long as nobody leaves the wizard during a call *)

Registering(p) == sub[p].pc \in {"keygen", "create"}

\* While an app is being registered, that is all that goes on.
RegistersAlone ==
  \A p \in Submits : Registering(p) =>
    /\ model.app = None /\ busy = p /\ page.step = 1
    /\ \A q \in Submits \ {p} : sub[q].pc = "idle"

\* Without an app there is no step but the first.
StepsNeedTheApp ==
  model.app = None =>
    page.step \in {0, 1} /\ \A p \in Submits : sub[p].pc = "idle" \/ Registering(p)

\* What handlers have sent is about the app and the key pair of the model.
CallsAreForTheApp ==
  \A p \in Submits :
    /\ sub[p].pc = "create" => sub[p].pub = model.pub
    /\ sub[p].pc \in {"patch", "save"} => sub[p].app = model.app

NobodyAtHome == at = "home" => page.step = 0 /\ \A p \in Submits : sub[p].pc = "idle"

\* The model's private key is that of its public key, which its app has.
KeysFit ==
  /\ model.app # None => model.pub # None
  /\ model.priv \in {None, model.pub}
  /\ KeptKeyIsTheApps

\* Of the apps with the model's key pair, only the model's has a client.
OnlyTheModelsApp ==
  \A i \in DOMAIN apps :
    model.pub # None /\ apps[i].pub = model.pub /\ apps[i].client => i = model.app

SInv == /\ TInv /\ RegistersAlone /\ StepsNeedTheApp /\ CallsAreForTheApp /\ NobodyAtHome
        /\ KeysFit /\ OnlyTheModelsApp /\ OneAppInUse

SameKeys == model'.app = model.app /\ model'.pub = model.pub /\ model'.priv \in {None, model.priv}

\* Entering the wizard, and leaving it, with nothing under way.
Enters ==
  /\ at = "home" /\ at' = "wizard" /\ page'.step = 1 /\ model' = NewModel
  /\ UNCHANGED <<apps, sub>>

Leaves ==
  /\ at' = "home" /\ page'.step = 0 /\ \A p \in Submits : sub[p].pc = "idle"
  /\ UNCHANGED <<apps, sub, model>>

\* A step of a wizard that has its app: no other app gets a client.
WithApp ==
  /\ model.app # None /\ SameKeys /\ at = "wizard" /\ at' = "wizard"
  /\ DOMAIN apps' = DOMAIN apps
  /\ \A i \in DOMAIN apps : i # model.app => apps'[i].client = apps[i].client
  /\ \A p \in Submits :
       \/ sub'[p] = sub[p]
       \/ sub'[p].pc \in {"idle", "digest", "token", "users"}
       \/ sub'[p].pc = "save" /\ sub'[p].app = model.app

\* A step on the way to an app: handler `p` is the only one.
Alone(p) ==
  /\ model.app = None /\ at = "wizard" /\ at' = "wizard"
  /\ page.step = 1 /\ page'.step = 1
  /\ \A q \in Submits \ {p} : sub[q].pc = "idle" /\ sub'[q] = sub[q]

Draws(p) ==
  Alone(p) /\ SameKeys /\ UNCHANGED apps /\ busy' = p /\ sub'[p].pc = "keygen"

Asks(p) ==
  /\ Alone(p) /\ UNCHANGED apps /\ busy' = p
  /\ sub'[p].pc = "create" /\ sub'[p].pub = model'.pub /\ model'.app = None
  /\ \/ SameKeys
     \/ model'.pub = model'.priv /\ \A i \in DOMAIN apps : apps[i].pub # model'.pub

Gets(p) ==
  /\ Alone(p) /\ sub[p].pc = "create" /\ apps' = InsertApp(sub[p])
  /\ model'.app = Len(apps) + 1 /\ model'.pub = model.pub /\ model'.priv = model.priv
  /\ sub'[p].pc = "patch" /\ sub'[p].app = Len(apps) + 1

Gives(p) ==
  /\ Alone(p) /\ SameKeys /\ sub'[p].pc = "idle"
  /\ UNCHANGED apps \/ (sub[p].pc = "create" /\ apps' = InsertApp(sub[p]))

\* Whoever calls or renders on behalf of an app is in a wizard that has one.
LEMMA HasApp ==
  ASSUME SInv
  PROVE  /\ page.step \in 2..4 => model.app # None /\ at = "wizard"
         /\ \A p \in Submits :
              sub[p].pc \in {"patch", "save", "digest", "token", "users"} =>
                model.app # None /\ at = "wizard"
<1>1. page.step \in 2..4 => page.step \notin {0, 1}
  OBVIOUS
<1>2. at \in {"home", "wizard"}
  BY DEF SInv, TInv, TypeOK
<1> QED
  BY <1>1, <1>2 DEF SInv, StepsNeedTheApp, NobodyAtHome, Registering

\* Step 1 is submitted without an app: nothing else is under way.
LEMMA SubmitsAlone ==
  ASSUME SInv, page.step = 1, busy = None, model.app = None, NEW p \in Submits
  PROVE  \A q \in Submits : sub[q].pc = "idle"
<1>1. \A q \in Submits : sub[q].pc = "idle" \/ Registering(q)
  BY DEF SInv, StepsNeedTheApp
<1>2. \A q \in Submits : q # None /\ (Registering(q) => busy = q)
  BY WizardAssumption DEF SInv, RegistersAlone
<1> QED
  BY <1>1, <1>2

\* Register, by what it means for the app.
LEMMA RegisterEffect ==
  ASSUME SInv, NEW p \in Submits, NEW m \in Model, m.app = model.app, m.pub # None,
         Register(p, m), UNCHANGED <<apps, at>>, page.step = 1, at = "wizard",
         NeedsApp(m) => busy' = p /\ \A q \in Submits \ {p} : sub[q].pc = "idle",
         \/ m.pub = model.pub /\ m.priv = model.priv
         \/ /\ model.app = None /\ m.priv = m.pub
            /\ \A i \in DOMAIN apps : apps[i].pub # m.pub
  PROVE  WithApp \/ Asks(p)
<1>0. sub \in [Submits -> Local] /\ page \in PageType
  BY DEF SInv, TInv, TypeOK
<1>1. CASE NeedsApp(m)
  <2> DEFINE l == [Idle EXCEPT !.pc = "create", !.name = m.name, !.url = m.url, !.pub = m.pub]
  <2>1. l.pc = "create" /\ l.pub = m.pub
    BY DEF Idle
  <2>2. model' = [m EXCEPT !.redirect = m.url] /\ sub' = [sub EXCEPT ![p] = l] /\ page' = page
    BY <1>1 DEF Register
  <2>3. model'.app = m.app /\ model'.pub = m.pub /\ model'.priv = m.priv
    BY <2>2 DEF Model
  <2> HIDE DEF l
  <2> QED
    BY <1>0, <1>1, <2>1, <2>2, <2>3 DEF NeedsApp, Asks, Alone, SameKeys
<1>2. CASE ~NeedsApp(m)
  <2>1. model' = [m EXCEPT !.step = 2] /\ sub' = [sub EXCEPT ![p] = Idle]
    BY <1>2 DEF Register, EndAt
  <2>2. model'.app = m.app /\ model'.pub = m.pub /\ model'.priv = m.priv
    BY <2>1 DEF Model
  <2>3. \A q \in Submits : sub'[q] = sub[q] \/ sub'[q].pc = "idle"
    BY <1>0, <2>1 DEF Idle
  <2> QED
    BY <1>2, <2>2, <2>3 DEF NeedsApp, WithApp, SameKeys
<1> QED
  BY <1>1, <1>2

\* A registering handler is the only one, on the page of step 1.
LEMMA RegisteringAlone ==
  ASSUME SInv, Next, NEW p \in Submits, Registering(p), NEW l, sub' = [sub EXCEPT ![p] = l],
         page'.step = 1, at' = at
  PROVE  Alone(p) /\ sub'[p] = l
BY DEF SInv, RegistersAlone, NobodyAtHome, Registering, Alone, TInv, TypeOK

\* A handler of a wizard with an app ends or goes on with other calls.
LEMMA HandlerWithApp ==
  ASSUME SInv, NEW p \in Submits, NEW l, sub' = [sub EXCEPT ![p] = l], SameKeys, at' = at,
         model.app # None, at = "wizard",
         l.pc \in {"idle", "digest", "token", "users"} \/ (l.pc = "save" /\ l.app = model.app),
         apps' \in {apps, SetClient(apps, model.app)}
                     \cup {SetRedirect(apps, model.app, url) : url \in Urls \cup {None}}
  PROVE  WithApp
<1>0. sub \in [Submits -> Local] /\ apps \in Seq(App)
  BY DEF SInv, TInv, TypeOK
<1>1. /\ DOMAIN apps' = DOMAIN apps
      /\ \A i \in DOMAIN apps : i # model.app => apps'[i].client = apps[i].client
  <2>1. CASE apps' = apps
    BY <2>1
  <2>2. CASE apps' = SetClient(apps, model.app)
    <3>1. None \in Urls \cup {None}
      OBVIOUS
    <3> QED
      BY <1>0, <2>2, <3>1, PatchedTable
  <2>3. ASSUME NEW url \in Urls \cup {None}, apps' = SetRedirect(apps, model.app, url)
        PROVE  /\ DOMAIN apps' = DOMAIN apps
               /\ \A i \in DOMAIN apps : i # model.app => apps'[i].client = apps[i].client
    BY <1>0, <2>3, PatchedTable
  <2> QED
    BY <2>1, <2>2, <2>3
<1>2. \A q \in Submits : sub'[q] = sub[q] \/ sub'[q] = l
  BY <1>0
<1> QED
  BY <1>1, <1>2 DEF WithApp

\* Every step has one of these effects.
LEMMA WizardEffect ==
  ASSUME SInv, Next, "leaveBusy" \notin Env
  PROVE  \/ Enters \/ Leaves \/ WithApp
         \/ \E p \in Submits : Draws(p) \/ Asks(p) \/ Gets(p) \/ Gives(p)
<1>0. /\ model \in Model /\ page \in PageType /\ sub \in [Submits -> Local]
      /\ at \in {"home", "wizard"} /\ Idle.pc = "idle"
  BY IdleLocal DEF SInv, TInv, TypeOK
<1>1. ASSUME page.step \in 2..4, UNCHANGED <<apps, at, sub>>, SameKeys
      PROVE  WithApp
  BY <1>1, HasApp DEF WithApp
<1>2. CASE Enter
  <2>1. Page(1, NewModel).step = 1
    BY DEF Page
  <2> QED
    BY <1>2, <2>1 DEF Enter, FreshModel, Enters
<1>3. CASE Leave
  BY <1>3 DEF Leave, Leaves, Blank
<1>4. CASE Back
  <2>1. SameKeys
    BY <1>0, <1>4 DEF Back, SameKeys, Model
  <2> QED
    BY <1>1, <1>4, <2>1 DEF Back
<1>5. CASE Relabel \/ Login
  BY <1>1, <1>5 DEF Relabel, Login, SameKeys
<1>6. ASSUME NEW p \in Submits, NEW url \in Urls, NEW name \in Names, Submit1(p, url, name)
      PROVE  WithApp \/ Draws(p) \/ Asks(p)
  <2> DEFINE m == [model EXCEPT !.url = url, !.name = name]
             l == [Idle EXCEPT !.pc = "keygen"]
  <2>1. m \in Model /\ m.app = model.app /\ m.pub = model.pub /\ m.priv = model.priv
    BY <1>0 DEF Model
  <2>2. /\ page.step = 1 /\ busy = None /\ at = "wizard" /\ UNCHANGED <<apps, at>>
        /\ NeedsKey(m) => model' = m /\ sub' = [sub EXCEPT ![p] = l] /\ busy' = p /\ page' = page
        /\ ~NeedsKey(m) => Register(p, m) /\ (NeedsApp(m) => busy' = p)
    BY <1>0, <1>6 DEF Submit1, SInv, NobodyAtHome
  <2>3. l.pc = "keygen"
    BY DEF Idle
  <2> HIDE DEF m, l
  <2>4. CASE NeedsKey(m)
    <3>1. model.app = None
      BY <2>1, <2>4 DEF NeedsKey, SInv, KeysFit
    <3>2. \A q \in Submits : sub[q].pc = "idle"
      BY <2>2, <3>1, SubmitsAlone
    <3> QED
      BY <1>0, <2>1, <2>2, <2>3, <2>4, <3>1, <3>2 DEF Draws, Alone, SameKeys
  <2>5. CASE ~NeedsKey(m)
    <3>1. NeedsApp(m) => \A q \in Submits : sub[q].pc = "idle"
      BY <2>1, <2>2, SubmitsAlone DEF NeedsApp
    <3> QED
      BY <2>1, <2>2, <2>5, <3>1, RegisterEffect DEF NeedsKey
  <2> QED
    BY <2>4, <2>5
<1>7. ASSUME NEW p \in Submits, NEW k \in KeyPairs, KeyGenerated(p, k)
      PROVE  WithApp \/ Asks(p)
  <2> DEFINE m == [model EXCEPT !.pub = k, !.priv = k]
  <2>1. m \in Model /\ m.app = model.app /\ m.pub = k /\ m.priv = k /\ k # None
    BY <1>0, WizardAssumption DEF Model
  <2>2. /\ Registering(p) /\ Register(p, m) /\ (NeedsApp(m) => busy' = busy)
        /\ UNCHANGED <<apps, at>> /\ \A i \in DOMAIN apps : apps[i].pub # k
    BY <1>7 DEF KeyGenerated, Registering
  <2> HIDE DEF m
  <2>3. /\ model.app = None /\ busy = p /\ page.step = 1 /\ at = "wizard"
        /\ \A q \in Submits \ {p} : sub[q].pc = "idle"
    BY <1>0, <2>2 DEF SInv, RegistersAlone, NobodyAtHome, Registering
  <2> QED
    BY <2>1, <2>2, <2>3, RegisterEffect
<1>8. ASSUME NEW p \in Submits, CreateAnswers(p)
      PROVE  Gets(p)
  <2> DEFINE id == Len(apps) + 1
             l  == [Idle EXCEPT !.pc = "patch", !.app = id, !.url = model.url]
  <2>1. l.pc = "patch" /\ l.app = id
    BY DEF Idle
  <2>2. /\ sub[p].pc = "create" /\ apps' = InsertApp(sub[p]) /\ model' = [model EXCEPT !.app = id]
        /\ sub' = [sub EXCEPT ![p] = l] /\ UNCHANGED <<page, at>>
    BY <1>8 DEF CreateAnswers
  <2>3. page'.step = 1
    BY <2>2 DEF SInv, RegistersAlone, Registering
  <2> HIDE DEF l, id
  <2>4. Alone(p) /\ sub'[p] = l
    BY <2>2, <2>3, RegisteringAlone DEF Registering
  <2>5. model'.app = id /\ model'.pub = model.pub /\ model'.priv = model.priv
    BY <1>0, <2>2 DEF Model
  <2> QED
    BY <2>1, <2>2, <2>4, <2>5 DEF Gets, id
<1>9. ASSUME NEW p \in Submits, PatchAnswers(p)
      PROVE  WithApp
  <2>1. /\ model.app # None /\ at = "wizard" /\ sub[p].app = model.app
        /\ sub[p].url \in Urls \cup {None}
    BY <1>0, <1>9, HasApp DEF PatchAnswers, SInv, CallsAreForTheApp, Local
  <2>2. SameKeys
    BY <1>0, <1>9 DEF PatchAnswers, SameKeys, Model
  <2> QED
    BY <1>0, <1>9, <2>1, <2>2, HandlerWithApp DEF PatchAnswers, EndAt
<1>10. ASSUME NEW p \in Submits, Submit2(p)
       PROVE  WithApp
  <2> DEFINE l == [Idle EXCEPT !.pc = "save", !.app = model.app]
  <2>1. l.pc = "save" /\ l.app = model.app
    BY DEF Idle
  <2>2. sub' = [sub EXCEPT ![p] = l] /\ UNCHANGED <<apps, model, at>> /\ page.step \in 2..4
    BY <1>10 DEF Submit2
  <2> HIDE DEF l
  <2> QED
    BY <2>1, <2>2, HasApp, HandlerWithApp DEF SameKeys
<1>11. ASSUME NEW p \in Submits, SaveAnswers(p)
       PROVE  WithApp
  <2> DEFINE l == [Idle EXCEPT !.pc = "digest", !.nonce = nonces + 1]
  <2>1. l.pc = "digest"
    BY DEF Idle
  <2>2. model.app # None /\ at = "wizard" /\ sub[p].app = model.app
    BY <1>11, HasApp DEF SaveAnswers, SInv, CallsAreForTheApp
  <2>3. SameKeys
    BY <1>0, <1>11 DEF SaveAnswers, SameKeys, Model
  <2>4. sub' = [sub EXCEPT ![p] = l] /\ apps' = SetClient(apps, model.app) /\ at' = at
    BY <1>11, <2>2 DEF SaveAnswers
  <2> HIDE DEF l
  <2> QED
    BY <2>1, <2>2, <2>3, <2>4, HandlerWithApp
<1>12. ASSUME NEW p \in Submits, Digest(p)
       PROVE  WithApp
  BY <1>0, <1>12, HasApp, HandlerWithApp DEF Digest, SameKeys
<1>13. ASSUME NEW p \in Submits, NEW code \in codes, Submit3(p, code)
       PROVE  WithApp
  <2> DEFINE l == [Idle EXCEPT !.pc = "token", !.app = model.app, !.url = model.redirect,
                               !.nonce = model.nonce, !.code = code]
  <2>1. l.pc = "token"
    BY DEF Idle
  <2>2. sub' = [sub EXCEPT ![p] = l] /\ UNCHANGED <<apps, model, at>> /\ page.step \in 2..4
    BY <1>13 DEF Submit3
  <2> HIDE DEF l
  <2> QED
    BY <2>1, <2>2, HasApp, HandlerWithApp DEF SameKeys
<1>14. ASSUME NEW p \in Submits, TokenAnswers(p)
       PROVE  WithApp
  <2> DEFINE l == [Idle EXCEPT !.pc = "users"]
  <2>1. l.pc = "users"
    BY DEF Idle
  <2>2. sub' = [sub EXCEPT ![p] = l] /\ UNCHANGED <<apps, model, at>> /\ sub[p].pc = "token"
    BY <1>14 DEF TokenAnswers
  <2> HIDE DEF l
  <2> QED
    BY <2>1, <2>2, HasApp, HandlerWithApp DEF SameKeys
<1>15. ASSUME NEW p \in Submits, UsersAnswers(p)
       PROVE  WithApp
  <2>1. SameKeys
    BY <1>15, ShownSecrets DEF SInv, SameKeys
  <2> QED
    BY <1>0, <1>15, <2>1, HasApp, HandlerWithApp DEF UsersAnswers, EndAt
<1>16. ASSUME NEW p \in Submits, CallFails(p)
       PROVE  WithApp \/ Gives(p)
  <2>1. sub[p].pc # "idle"
    BY <1>16, WizardAssumption DEF CallFails, Refused, AllEnv, Calls
  <2>2. sub' = [sub EXCEPT ![p] = Idle] /\ UNCHANGED <<model, page, at>> /\ SameKeys
    BY <1>16 DEF CallFails, End, SameKeys
  <2>3. CASE model.app = None
    <3>1. Registering(p)
      BY <2>1, <2>3 DEF SInv, StepsNeedTheApp
    <3>2. page'.step = 1
      BY <2>2, <3>1 DEF SInv, RegistersAlone
    <3>3. Alone(p) /\ sub'[p] = Idle
      BY <2>2, <3>1, <3>2, RegisteringAlone
    <3> QED
      BY <1>0, <1>16, <2>2, <3>1, <3>3, FailedCall DEF Gives, Registering
  <2>4. CASE model.app # None
    <3>1. sub[p].pc # "create" /\ at = "wizard" /\ sub[p].url \in Urls \cup {None}
      BY <1>0, <2>1, <2>4 DEF SInv, RegistersAlone, NobodyAtHome, Registering, Local
    <3>2. sub[p].pc \in {"patch", "save"} => sub[p].app = model.app
      BY DEF SInv, CallsAreForTheApp
    <3> QED
      BY <1>0, <1>16, <2>2, <2>4, <3>1, <3>2, FailedCall, HandlerWithApp
  <2> QED
    BY <2>3, <2>4
<1> QED
  BY <1>2, <1>3, <1>4, <1>5, <1>6, <1>7, <1>8, <1>9, <1>10, <1>11, <1>12, <1>13, <1>14, <1>15,
     <1>16
  DEF Next, Submit

\* A new wizard has neither app nor keys.
LEMMA EntersStep ==
  ASSUME SInv, Enters
  PROVE  /\ RegistersAlone' /\ StepsNeedTheApp' /\ CallsAreForTheApp' /\ NobodyAtHome'
         /\ KeysFit' /\ OnlyTheModelsApp' /\ OneAppInUse'
<1>1. \A p \in Submits : sub'[p].pc = "idle"
  BY DEF Enters, SInv, NobodyAtHome
<1>2. model'.app = None /\ model'.pub = None /\ model'.priv = None
  BY DEF Enters, NewModel
<1> QED
  BY <1>1, <1>2
  DEF Enters, SInv, RegistersAlone, StepsNeedTheApp, CallsAreForTheApp, NobodyAtHome, KeysFit,
      KeptKeyIsTheApps, OnlyTheModelsApp, OneAppInUse, Registering

\* What is left has nobody working on it.
LEMMA LeavesStep ==
  ASSUME SInv, Leaves
  PROVE  /\ RegistersAlone' /\ StepsNeedTheApp' /\ CallsAreForTheApp' /\ NobodyAtHome'
         /\ KeysFit' /\ OnlyTheModelsApp' /\ OneAppInUse'
BY DEF Leaves, SInv, RegistersAlone, StepsNeedTheApp, CallsAreForTheApp, NobodyAtHome, KeysFit,
       KeptKeyIsTheApps, OnlyTheModelsApp, OneAppInUse, Registering

\* With an app, no other app of the same key pair can get a client.
LEMMA WithAppStep ==
  ASSUME SInv, WithApp, Grown
  PROVE  /\ RegistersAlone' /\ StepsNeedTheApp' /\ CallsAreForTheApp' /\ NobodyAtHome'
         /\ KeysFit' /\ OnlyTheModelsApp' /\ OneAppInUse'
<1>0. model.app \in DOMAIN apps
  BY DEF SInv, TInv, TypeOK, WithApp
<1>1. \A p \in Submits : ~Registering(p) /\ ~Registering(p)'
  BY DEF WithApp, SInv, RegistersAlone, Registering
<1>2. CallsAreForTheApp'
  BY <1>1 DEF WithApp, SameKeys, SInv, CallsAreForTheApp, Registering
<1>3. KeysFit'
  BY <1>0 DEF WithApp, SameKeys, Grown, SInv, KeysFit, KeptKeyIsTheApps
<1>4. OnlyTheModelsApp'
  BY DEF WithApp, SameKeys, Grown, SInv, OnlyTheModelsApp
<1>5. OneAppInUse'
  <2> SUFFICES ASSUME NEW i \in DOMAIN apps, NEW j \in DOMAIN apps, i # j,
                      apps'[i].pub = apps'[j].pub, apps'[i].client, apps'[j].client
               PROVE  FALSE
    BY DEF OneAppInUse, WithApp
  <2>1. apps[i].pub = apps[j].pub
    BY DEF Grown
  <2>2. i # model.app /\ j # model.app => FALSE
    BY <2>1 DEF WithApp, SInv, OneAppInUse
  <2>3. ASSUME NEW k \in {i, j}, k = model.app
        PROVE  FALSE
    <3>1. apps[i].pub = model.pub /\ apps[j].pub = model.pub /\ model.pub # None
      BY <2>1, <2>3 DEF WithApp, SInv, KeysFit, KeptKeyIsTheApps
    <3>2. \A n \in {i, j} : n # model.app => ~apps[n].client
      BY <3>1 DEF SInv, OnlyTheModelsApp
    <3> QED
      BY <2>3, <3>2 DEF WithApp
  <2> QED
    BY <2>2, <2>3
<1>6. StepsNeedTheApp' /\ NobodyAtHome'
  BY DEF WithApp, SameKeys, StepsNeedTheApp, NobodyAtHome
<1>7. RegistersAlone'
  BY <1>1 DEF RegistersAlone
<1> QED
  BY <1>2, <1>3, <1>4, <1>5, <1>6, <1>7

\* The steps towards an app: what its handler is about, and who else is there.
LEMMA AloneStep ==
  ASSUME SInv, NEW p \in Submits, Alone(p),
         \/ sub'[p].pc = "keygen" /\ busy' = p /\ model'.app = None
         \/ /\ sub'[p].pc = "create" /\ busy' = p /\ model'.app = None
            /\ sub'[p].pub = model'.pub
         \/ sub'[p].pc = "patch" /\ model'.app # None /\ sub'[p].app = model'.app
         \/ sub'[p].pc = "idle"
  PROVE  RegistersAlone' /\ StepsNeedTheApp' /\ CallsAreForTheApp' /\ NobodyAtHome'
<1>1. \A q \in Submits \ {p} : sub'[q].pc = "idle"
  BY DEF Alone
<1>2. RegistersAlone'
  BY <1>1 DEF Alone, RegistersAlone, Registering
<1>3. StepsNeedTheApp'
  BY <1>1 DEF Alone, StepsNeedTheApp, Registering
<1>4. CallsAreForTheApp'
  BY <1>1 DEF CallsAreForTheApp
<1> QED
  BY <1>2, <1>3, <1>4 DEF Alone, NobodyAtHome

\* An app that is inserted has no client.
LEMMA InsertStep ==
  ASSUME SInv, NEW p \in Submits, sub[p].pc = "create", apps' = InsertApp(sub[p])
  PROVE  /\ OneAppInUse'
         /\ \A i \in DOMAIN apps' :
              apps'[i].client => i \in DOMAIN apps /\ apps'[i] = apps[i]
         /\ apps'[Len(apps) + 1].pub = model.pub /\ Len(apps) + 1 # None /\ model.pub # None
<1>1. /\ DOMAIN apps' = DOMAIN apps \cup {Len(apps) + 1}
      /\ \A i \in DOMAIN apps : apps'[i] = apps[i]
      /\ apps'[Len(apps) + 1].pub = sub[p].pub /\ ~apps'[Len(apps) + 1].client
      /\ Len(apps) + 1 # None
  BY InsertedTable DEF SInv
<1>2. sub[p].pub = model.pub /\ model.pub # None
  BY WizardAssumption DEF SInv, CallsAreForTheApp, TInv, CreatesAreComplete
<1> QED
  BY <1>1, <1>2 DEF SInv, OneAppInUse

\* A key pair is being made.
LEMMA DrawsStep ==
  ASSUME SInv, NEW p \in Submits, Draws(p)
  PROVE  /\ RegistersAlone' /\ StepsNeedTheApp' /\ CallsAreForTheApp' /\ NobodyAtHome'
         /\ KeysFit' /\ OnlyTheModelsApp' /\ OneAppInUse'
<1>1. Alone(p) /\ model'.app = None
  BY DEF Draws, SameKeys, Alone
<1>2. RegistersAlone' /\ StepsNeedTheApp' /\ CallsAreForTheApp' /\ NobodyAtHome'
  BY <1>1, AloneStep DEF Draws
<1> QED
  BY <1>1, <1>2
  DEF Draws, SameKeys, SInv, KeysFit, KeptKeyIsTheApps, OnlyTheModelsApp, OneAppInUse

\* An app is asked for: with the key pair kept, or with one that no app has.
LEMMA AsksStep ==
  ASSUME SInv, NEW p \in Submits, Asks(p)
  PROVE  /\ RegistersAlone' /\ StepsNeedTheApp' /\ CallsAreForTheApp' /\ NobodyAtHome'
         /\ KeysFit' /\ OnlyTheModelsApp' /\ OneAppInUse'
<1>1. Alone(p) /\ model'.app = None /\ model.app = None
  BY DEF Asks, Alone
<1>2. RegistersAlone' /\ StepsNeedTheApp' /\ CallsAreForTheApp' /\ NobodyAtHome'
  BY <1>1, AloneStep DEF Asks
<1> QED
  BY <1>1, <1>2
  DEF Asks, SameKeys, SInv, KeysFit, KeptKeyIsTheApps, OnlyTheModelsApp, OneAppInUse

\* The app is there and is the model's; those before it have no client.
LEMMA GetsStep ==
  ASSUME SInv, NEW p \in Submits, Gets(p)
  PROVE  /\ RegistersAlone' /\ StepsNeedTheApp' /\ CallsAreForTheApp' /\ NobodyAtHome'
         /\ KeysFit' /\ OnlyTheModelsApp' /\ OneAppInUse'
<1>1. Alone(p) /\ model.app = None /\ model'.app = Len(apps) + 1
  BY DEF Gets, Alone
<1>2. /\ OneAppInUse'
      /\ \A i \in DOMAIN apps' :
           apps'[i].client => i \in DOMAIN apps /\ apps'[i] = apps[i]
      /\ apps'[Len(apps) + 1].pub = model.pub /\ Len(apps) + 1 # None /\ model.pub # None
  BY InsertStep DEF Gets
<1>3. RegistersAlone' /\ StepsNeedTheApp' /\ CallsAreForTheApp' /\ NobodyAtHome'
  BY <1>1, <1>2, AloneStep DEF Gets
<1>4. KeysFit'
  BY <1>1, <1>2 DEF Gets, SInv, KeysFit, KeptKeyIsTheApps
<1>5. OnlyTheModelsApp'
  BY <1>1, <1>2 DEF Gets, SInv, OnlyTheModelsApp, TInv, TypeOK, None
<1> QED
  BY <1>2, <1>3, <1>4, <1>5

\* Registering has failed, perhaps leaving an app without a client behind.
LEMMA GivesStep ==
  ASSUME SInv, NEW p \in Submits, Gives(p)
  PROVE  /\ RegistersAlone' /\ StepsNeedTheApp' /\ CallsAreForTheApp' /\ NobodyAtHome'
         /\ KeysFit' /\ OnlyTheModelsApp' /\ OneAppInUse'
<1>1. Alone(p) /\ model.app = None /\ model'.app = None /\ SameKeys
  BY DEF Gives, Alone, SameKeys
<1>2. /\ OneAppInUse'
      /\ \A i \in DOMAIN apps' :
           apps'[i].client => i \in DOMAIN apps /\ apps'[i] = apps[i]
  <2>1. CASE UNCHANGED apps
    BY <2>1 DEF SInv, OneAppInUse
  <2>2. CASE sub[p].pc = "create" /\ apps' = InsertApp(sub[p])
    BY <2>2, InsertStep
  <2> QED
    BY <2>1, <2>2 DEF Gives
<1>3. RegistersAlone' /\ StepsNeedTheApp' /\ CallsAreForTheApp' /\ NobodyAtHome'
  BY <1>1, AloneStep DEF Gives
<1>4. KeysFit' /\ OnlyTheModelsApp'
  BY <1>1, <1>2 DEF SameKeys, SInv, KeysFit, KeptKeyIsTheApps, OnlyTheModelsApp
<1> QED
  BY <1>2, <1>3, <1>4

\* The invariant of a wizard that nobody leaves during a call.
LEMMA NextSInv == SInv /\ [Next]_vars /\ "leaveBusy" \notin Env => SInv'
<1> SUFFICES ASSUME SInv, [Next]_vars, "leaveBusy" \notin Env PROVE SInv'
  OBVIOUS
<1>1. CASE Next
  <2>1. TInv' /\ Grown
    BY <1>1, NextType, NextApps DEF SInv
  <2> QED
    BY <1>1, <2>1, WizardEffect, EntersStep, LeavesStep, WithAppStep, DrawsStep, AsksStep,
       GetsStep, GivesStep
    DEF SInv
<1>2. CASE UNCHANGED vars
  BY <1>2
  DEF vars, SInv, TInv, TypeOK, CreatesAreComplete, RegistersAlone, StepsNeedTheApp,
      CallsAreForTheApp, NobodyAtHome, KeysFit, KeptKeyIsTheApps, OnlyTheModelsApp, OneAppInUse,
      Registering
<1> QED
  BY <1>1, <1>2

\* It holds throughout.
LEMMA WizardInvariance == "leaveBusy" \notin Env => (Spec => []SInv)
<1> SUFFICES ASSUME "leaveBusy" \notin Env PROVE Spec => []SInv
  OBVIOUS
<1>1. Init => SInv
  <2> SUFFICES ASSUME Init PROVE SInv
    OBVIOUS
  <2>1. \A p \in Submits : sub[p].pc = "idle"
    BY IdleLocal DEF Init
  <2>2. model.app = None /\ model.pub = None /\ model.priv = None /\ page.step = 0 /\ apps = <<>>
    BY DEF Init, NewModel, Blank
  <2> QED
    BY <2>1, <2>2, InitType
    DEF SInv, RegistersAlone, StepsNeedTheApp, CallsAreForTheApp, NobodyAtHome, KeysFit,
        KeptKeyIsTheApps, OnlyTheModelsApp, OneAppInUse, Registering
<1> QED
  BY <1>1, NextSInv, PTL DEF Spec

\* However often step 1 is submitted, fails, loses its answer and is come back
\* to, at most one of the apps that a key pair registered is ever set up (the
\* wizard's "if (!model.appId)"), unless somebody leaves during a call.
THEOREM OneAppIsInUse == "leaveBusy" \notin Env => (Spec => []OneAppInUse)
<1>1. SInv => OneAppInUse
  BY DEF SInv
<1> QED
  BY <1>1, WizardInvariance, PTL

\* The app whose id the wizard keeps has the public key that the wizard keeps,
\* though the two are set in different handlers that read the model again after
\* their awaits, unless somebody leaves during a call.
THEOREM KeptKeyIsTheKeyOfTheApp == "leaveBusy" \notin Env => (Spec => []KeptKeyIsTheApps)
<1>1. SInv => KeptKeyIsTheApps
  BY DEF SInv, KeysFit
<1> QED
  BY <1>1, WizardInvariance, PTL

\* The apps of secrets that were shown with a key are still there.
ShownAppsExist == \A i \in DOMAIN shown : shown[i].priv # None => shown[i].app \in DOMAIN apps

\* What is shown belongs together, and apps keep their keys.
LEMMA NextSecrets ==
  ASSUME SInv, ShownAppsExist, SecretsOpenTokens, Next
  PROVE  ShownAppsExist' /\ SecretsOpenTokens'
<1>1. Grown
  BY NextApps DEF SInv
<1>2. CASE UNCHANGED shown
  BY <1>1, <1>2 DEF Grown, ShownAppsExist, SecretsOpenTokens
<1>3. ASSUME NEW p \in Submits, UsersAnswers(p)
      PROVE  ShownAppsExist' /\ SecretsOpenTokens'
  <2>1. /\ DOMAIN shown' = DOMAIN shown \cup {Len(shown) + 1}
        /\ \A i \in DOMAIN shown : shown'[i] = shown[i]
        /\ shown'[Len(shown) + 1] = [app |-> model.app, priv |-> model.priv]
    BY <1>3, ShownSecrets DEF SInv
  <2>2. model.app # None /\ model.app \in DOMAIN apps
    BY <1>3, HasApp DEF UsersAnswers, SInv, TInv, TypeOK
  <2>3. model.priv # None => apps[model.app].pub = model.priv
    BY <2>2 DEF SInv, KeysFit, KeptKeyIsTheApps
  <2>4. UNCHANGED apps
    BY <1>3 DEF UsersAnswers
  <2> QED
    BY <2>1, <2>2, <2>3, <2>4 DEF ShownAppsExist, SecretsOpenTokens
<1> QED
  BY <1>2, <1>3, ShownOnlyAtTheEnd

\* The secrets of step 4 belong together: their private key opens the tokens of
\* their app, then and for ever, unless somebody leaves during a call.
THEOREM SecretsDoOpenTokens == "leaveBusy" \notin Env => (Spec => []SecretsOpenTokens)
<1> SUFFICES ASSUME "leaveBusy" \notin Env PROVE Spec => []SecretsOpenTokens
  OBVIOUS
<1> DEFINE I == ShownAppsExist /\ SecretsOpenTokens
<1>1. Init => I
  BY DEF Init, ShownAppsExist, SecretsOpenTokens
<1>2. SInv /\ I /\ [Next]_vars => I'
  <2>1. SInv /\ I /\ UNCHANGED vars => I'
    BY DEF vars, ShownAppsExist, SecretsOpenTokens
  <2> QED
    BY <2>1, NextSecrets
<1>3. Spec => []SInv
  BY WizardInvariance
<1>4. I => SecretsOpenTokens
  OBVIOUS
<1> HIDE DEF I
<1> QED
  BY <1>1, <1>2, <1>3, <1>4, PTL DEF Spec
=============================================================================
