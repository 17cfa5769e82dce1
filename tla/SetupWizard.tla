---------------------------- MODULE SetupWizard -----------------------------
(***************************************************************************)
(* A setup wizard of the admin UI (exactWizard.ts; nmbrsWizard.ts has the  *)
(* same control) over the `apps` table.  Step 1 makes a key pair and       *)
(* registers an app with it, step 2 saves the client that an administrator *)
(* made at the provider, step 3 logs one account in, and step 4 shows the  *)
(* secrets: the app's id and the private key, which exists nowhere else.   *)
(*                                                                         *)
(* The wizard's `model` is one module variable.  A submit is an async      *)
(* function that reads and writes it between its awaits, also after the    *)
(* page that started it is gone; Back and re-entering do not stop it.      *)
(***************************************************************************)
EXTENDS Naturals, Sequences, FiniteSets

CONSTANTS
  Urls,       \* what may be typed as wowauth's public URL
  Names,      \* what may be typed as connection name
  DefaultUrl, DefaultName,   \* what the form of a new model suggests
  KeyPairs,   \* X25519 key pairs; a public and its private key share a name
  Submits,    \* submit handlers that run at the same time
  Env,        \* what the environment may do, a subset of AllEnv
  MaxVisits,  \* bound on the times the wizard is entered
  MaxNonces   \* bound on the times step 3 is entered

Calls == {"keygen", "create", "patch", "save", "token", "users"}

AllEnv == Calls               \* this call may fail
  \cup {"lost",               \* a failed call may have been served
        "leave",              \* the user leaves the wizard between calls
        "leaveBusy"}          \* ... or while one is under way

None == 0   \* the empty string; app ids and nonces start at 1

ASSUME WizardAssumption ==
  /\ Env \subseteq AllEnv
  /\ DefaultUrl \in Urls /\ DefaultName \in Names
  /\ None \notin Urls \cup Names \cup KeyPairs \cup Submits
  /\ MaxVisits \in Nat /\ MaxNonces \in Nat

VARIABLES
  apps,    \* the apps table; ids in order of insertion
  portal,  \* the provider: callbacks registered there, as <<app, public url>>
  codes,   \* codes that logins have brought back and nobody has redeemed
  model,   \* the wizard's module variable
  at,      \* location.hash: "home" or "wizard"
  page,    \* what the document shows
  busy,    \* the handler whose submit button is the one shown, disabled
  sub,     \* locals of the submit handlers
  nonces,  \* number of state and verifier pairs drawn so far
  visits,  \* number of times the wizard was entered
  shown    \* history: the secrets shown in step 4, in order

vars == <<apps, portal, codes, model, at, page, busy, sub, nonces, visits, shown>>

App   == [name : Names, pub : KeyPairs, allowed : Urls, redirect : Urls \cup {None},
          client : BOOLEAN]
Code  == [app : Nat, state : Nat, challenge : Nat]   \* of the login it came from
Model == [step : 1..4, url : Urls, name : Names,
          pub : KeyPairs \cup {None}, priv : KeyPairs \cup {None},
          redirect : Urls \cup {None}, app : Nat, nonce : Nat]

NewModel == [step |-> 1, url |-> DefaultUrl, name |-> DefaultName, pub |-> None, priv |-> None,
             redirect |-> None, app |-> None, nonce |-> None]

\* Mutant of FreshModel: entering the wizard again keeps the old app.
ResumedModel == [NewModel EXCEPT !.redirect = model.redirect, !.app = model.app]

\* What entering the wizard puts in the place of the old model.
FreshModel == NewModel

\* The page of step `n`: what the user sees of the model.
Page(n, m) == [step |-> n, app |-> m.app, url |-> m.url, redirect |-> m.redirect,
               state |-> None, challenge |-> None]

Blank == [step |-> 0, app |-> None, url |-> None, redirect |-> None, state |-> None,
          challenge |-> None]

NoCode == [app |-> None, state |-> None, challenge |-> None]

Idle == [pc |-> "idle", app |-> None, name |-> None, url |-> None, pub |-> None,
         nonce |-> None, code |-> NoCode]

Init ==
  /\ apps = <<>> /\ portal = {} /\ codes = {}
  /\ model = NewModel
  /\ at = "home" /\ page = Blank /\ busy = None
  /\ sub = [p \in Submits |-> Idle]
  /\ nonces = 0 /\ visits = 0 /\ shown = <<>>

-----------------------------------------------------------------------------
(* Navigation *)

\* route and render...Wizard: a new model and the page of step 1.
Enter ==
  /\ at = "home" /\ visits < MaxVisits
  /\ at' = "wizard" /\ visits' = visits + 1
  /\ model' = FreshModel /\ page' = Page(1, model') /\ busy' = None
  /\ UNCHANGED <<apps, portal, codes, sub, nonces, shown>>

\* The home link.  Handlers go on.
Leave ==
  /\ at = "wizard"
  /\ \/ "leaveBusy" \in Env
     \/ "leave" \in Env /\ \A p \in Submits : sub[p].pc = "idle"
  /\ at' = "home" /\ page' = Blank /\ busy' = None
  /\ UNCHANGED <<apps, portal, codes, model, sub, nonces, visits, shown>>

\* wireBack: the Back buttons of steps 2 and 3, never disabled.
Back ==
  /\ page.step \in {2, 3}
  /\ model' = [model EXCEPT !.step = page.step - 1]
  /\ page' = Page(page.step - 1, model) /\ busy' = None
  /\ UNCHANGED <<apps, portal, codes, at, sub, nonces, visits, shown>>

\* The end of a handler that renders nothing: `finally` enables its button.
End(p) ==
  /\ sub' = [sub EXCEPT ![p] = Idle]
  /\ busy' = IF busy = p THEN None ELSE busy

\* The end of a handler that renders the page of step `n`.
EndAt(p, n) ==
  /\ sub' = [sub EXCEPT ![p] = Idle]
  /\ page' = Page(n, model') /\ busy' = None

-----------------------------------------------------------------------------
(* Step 1: a key pair and an app *)

\* Mutant of NeedsKey: every submit makes a key pair.
AlwaysNeedsKey(m) == TRUE

NeedsKey(m) == m.pub = None

\* Mutant of NeedsApp: every submit registers an app.
AlwaysNeedsApp(m) == TRUE

NeedsApp(m) == m.app = None

\* A key pair is there: call createApp, or go on when there is an app.
Register(p, m) ==
  IF NeedsApp(m)
  THEN /\ model' = [m EXCEPT !.redirect = m.url]
       /\ sub' = [sub EXCEPT ![p] = [Idle EXCEPT !.pc = "create", !.name = m.name,
                                                 !.url = m.url, !.pub = m.pub]]
       /\ UNCHANGED page
  ELSE model' = [m EXCEPT !.step = 2] /\ EndAt(p, 2)

Submit1(p, url, name) ==
  LET m == [model EXCEPT !.url = url, !.name = name] IN
  /\ page.step = 1 /\ busy = None /\ sub[p].pc = "idle"
  /\ IF NeedsKey(m)
     THEN /\ model' = m
          /\ sub' = [sub EXCEPT ![p] = [Idle EXCEPT !.pc = "keygen"]]
          /\ busy' = p /\ UNCHANGED page
     ELSE Register(p, m) /\ (NeedsApp(m) => busy' = p)
  /\ UNCHANGED <<apps, portal, codes, at, nonces, visits, shown>>

\* generateX25519KeyPair resolves with a pair that nobody has seen.
KeyGenerated(p, k) ==
  LET m == [model EXCEPT !.pub = k, !.priv = k] IN
  /\ sub[p].pc = "keygen"
  /\ k # model.pub /\ \A i \in DOMAIN apps : apps[i].pub # k
  /\ \A q \in Submits : sub[q].pub # k
  /\ \A i \in DOMAIN shown : shown[i].priv # k
  /\ Register(p, m) /\ (NeedsApp(m) => UNCHANGED busy)
  /\ UNCHANGED <<apps, portal, codes, at, nonces, visits, shown>>

\* Mutant of NewApp: allowed_redirect_uris is left to its default.
NoAllowed(s) == [name |-> s.name, pub |-> s.pub, allowed |-> None, redirect |-> None,
                 client |-> FALSE]

\* The app asked for: the client and redirect_url are placeholders.
NewApp(s) == [name |-> s.name, pub |-> s.pub, allowed |-> s.url, redirect |-> None,
              client |-> FALSE]

\* create_app; the name is UNIQUE.
InsertApp(s) == Append(apps, NewApp(s))
NameTaken(s) == \E i \in DOMAIN apps : apps[i].name = s.name

\* createApp is answered; `model` and its URL are read again, whatever they are.
CreateAnswers(p) ==
  LET s == sub[p]  id == Len(apps) + 1 IN
  /\ s.pc = "create" /\ ~NameTaken(s)
  /\ apps' = InsertApp(s)
  /\ model' = [model EXCEPT !.app = id]
  /\ sub' = [sub EXCEPT ![p] = [Idle EXCEPT !.pc = "patch", !.app = id, !.url = model.url]]
  /\ UNCHANGED <<portal, codes, at, page, busy, nonces, visits, shown>>

\* update_app with redirect_url.
SetRedirect(table, id, url) == [table EXCEPT ![id].redirect = url]

PatchAnswers(p) ==
  /\ sub[p].pc = "patch"
  /\ apps' = SetRedirect(apps, sub[p].app, sub[p].url)
  /\ model' = [model EXCEPT !.step = 2] /\ EndAt(p, 2)
  /\ UNCHANGED <<portal, codes, at, nonces, visits, shown>>

-----------------------------------------------------------------------------
(* Step 2: the client at the provider *)

\* The administrator registers the callback shown and pastes the client's id
\* and secret.
Submit2(p) ==
  /\ page.step = 2 /\ busy = None /\ sub[p].pc = "idle"
  /\ nonces + Cardinality({q \in Submits : sub[q].pc = "save"}) < MaxNonces
  /\ portal' = portal \cup {<<page.app, page.url>>}
  /\ sub' = [sub EXCEPT ![p] = [Idle EXCEPT !.pc = "save", !.app = model.app]]
  /\ busy' = p
  /\ UNCHANGED <<apps, codes, model, at, page, nonces, visits, shown>>

\* update_app with client_id and client_secret.
SetClient(table, id) == [table EXCEPT ![id].client = TRUE]

\* The client is saved; renderStep3 draws a state and a verifier (one nonce
\* names both) and awaits the challenge.
SaveAnswers(p) ==
  LET s == sub[p] IN
  /\ s.pc = "save" /\ s.app # None
  /\ apps' = SetClient(apps, s.app)
  /\ nonces' = nonces + 1
  /\ model' = [model EXCEPT !.step = 3, !.nonce = nonces + 1]
  /\ sub' = [sub EXCEPT ![p] = [Idle EXCEPT !.pc = "digest", !.nonce = nonces + 1]]
  /\ busy' = IF busy = p THEN None ELSE busy
  /\ UNCHANGED <<portal, codes, at, page, visits, shown>>

\* The link of step 3: this handler's challenge, the model's present state.
Link(m, challenge) == [Page(3, m) EXCEPT !.state = m.nonce, !.challenge = challenge]

Digest(p) ==
  /\ sub[p].pc = "digest"
  /\ page' = Link(model, sub[p].nonce) /\ busy' = None
  /\ sub' = [sub EXCEPT ![p] = Idle]
  /\ UNCHANGED <<apps, portal, codes, model, at, nonces, visits, shown>>

-----------------------------------------------------------------------------
(* Step 3: a login *)

\* Typing a label builds the link anew from the model.
Relabel ==
  /\ page.step = 3
  /\ page' = Link(model, page.challenge)
  /\ UNCHANGED <<apps, portal, codes, model, at, busy, sub, nonces, visits, shown>>

\* A login through the link, in another tab (OauthFlow): the redirect_uri has to
\* be allowed and the app's client and callback have to be the provider's.
Login ==
  LET id == page.app IN
  /\ page.step = 3 /\ id # None
  /\ apps[id].allowed = page.redirect /\ apps[id].client
  /\ <<id, apps[id].redirect>> \in portal
  /\ codes' = codes \cup {[app |-> id, state |-> page.state, challenge |-> page.challenge]}
  /\ UNCHANGED <<apps, portal, model, at, page, busy, sub, nonces, visits, shown>>

\* A redirect with the state last drawn is pasted; finishAfterLogin redeems its
\* code with the verifier last drawn.
Submit3(p, code) ==
  /\ page.step = 3 /\ busy = None /\ sub[p].pc = "idle"
  /\ code.state = model.nonce
  /\ sub' = [sub EXCEPT ![p] = [Idle EXCEPT !.pc = "token", !.app = model.app,
                                            !.url = model.redirect, !.nonce = model.nonce,
                                            !.code = code]]
  /\ busy' = p
  /\ UNCHANGED <<apps, portal, codes, model, at, page, nonces, visits, shown>>

\* /oauth/token answers 200 to an unused code with its app, redirect_uri and
\* verifier.
Redeemable(s) ==
  /\ s.code \in codes /\ s.code.app = s.app
  /\ apps[s.app].allowed = s.url /\ s.code.challenge = s.nonce

TokenAnswers(p) ==
  /\ sub[p].pc = "token" /\ Redeemable(sub[p])
  /\ codes' = codes \ {sub[p].code}
  /\ sub' = [sub EXCEPT ![p] = [Idle EXCEPT !.pc = "users"]]
  /\ UNCHANGED <<apps, portal, model, at, page, busy, nonces, visits, shown>>

-----------------------------------------------------------------------------
(* Step 4: the secrets *)

\* Mutant of Forget: the private key stays in memory.
KeepKey(m) == m

\* "There's no reason to keep holding it in memory beyond this point."
Forget(m) == [m EXCEPT !.priv = None]

\* listUsers is answered (the login has made a user) and step 4 is rendered.
UsersAnswers(p) ==
  /\ sub[p].pc = "users"
  /\ shown' = Append(shown, [app |-> model.app, priv |-> model.priv])
  /\ model' = Forget([model EXCEPT !.step = 4]) /\ EndAt(p, 4)
  /\ UNCHANGED <<apps, portal, codes, at, nonces, visits>>

-----------------------------------------------------------------------------
(* Failures *)

\* The server or the code refuses: 409 for the name, no app, a bad code.
Refused(s) == \/ s.pc = "create" /\ NameTaken(s)
              \/ s.pc = "save" /\ s.app = None
              \/ s.pc = "token" /\ ~Redeemable(s)

\* What a call does to the table when it is served.
Served(s) == CASE s.pc = "create" -> InsertApp(s)
               [] s.pc = "patch"  -> SetRedirect(apps, s.app, s.url)
               [] s.pc = "save"   -> SetClient(apps, s.app)
               [] OTHER           -> apps

\* The await throws: the handler shows the error and its button is enabled.  A
\* redemption that is refused, or served in vain, has consumed its code.
CallFails(p) ==
  LET s == sub[p] IN
  /\ \/ Refused(s) /\ codes' = codes \ {s.code} /\ UNCHANGED apps
     \/ ~Refused(s) /\ s.pc \in Env /\ UNCHANGED <<apps, codes>>
     \/ /\ ~Refused(s) /\ s.pc \in Env /\ "lost" \in Env
        /\ apps' = Served(s) /\ codes' = codes \ {s.code}
  /\ End(p)
  /\ UNCHANGED <<portal, model, at, page, nonces, visits, shown>>

-----------------------------------------------------------------------------
Submit(p) ==
  \/ \E k \in KeyPairs : KeyGenerated(p, k)
  \/ CreateAnswers(p) \/ PatchAnswers(p) \/ SaveAnswers(p) \/ Digest(p)
  \/ TokenAnswers(p) \/ UsersAnswers(p) \/ CallFails(p)

Next ==
  \/ Enter \/ Leave \/ Back \/ Relabel \/ Login
  \/ \E p \in Submits :
       \/ \E url \in Urls, name \in Names : Submit1(p, url, name)
       \/ Submit2(p)
       \/ \E code \in codes : Submit3(p, code)
       \/ Submit(p)

Spec == Init /\ [][Next]_vars

-----------------------------------------------------------------------------
(* Properties *)

PageType == [step : 0..4, app : Nat, url : Urls \cup {None}, redirect : Urls \cup {None},
             state : Nat, challenge : Nat]

Local == [pc : Calls \cup {"idle", "digest"}, app : Nat, name : Names \cup {None},
          url : Urls \cup {None}, pub : KeyPairs \cup {None}, nonce : Nat, code : Code]

\* Every variable ranges over the values the code can give it, and what names
\* an app names one that exists.
TypeOK ==
  /\ apps \in Seq(App) /\ codes \subseteq Code
  /\ portal \subseteq Nat \X (Urls \cup {None})
  /\ model \in Model /\ page \in PageType
  /\ at \in {"home", "wizard"} /\ busy \in Submits \cup {None}
  /\ sub \in [Submits -> Local]
  /\ nonces \in Nat /\ visits \in Nat
  /\ shown \in Seq([app : Nat, priv : KeyPairs \cup {None}])
  /\ {model.app, page.app} \cup {sub[p].app : p \in Submits} \subseteq DOMAIN apps \cup {None}

\* Of the apps that one key pair registered, at most one is ever set up,
\* however often step 1 is submitted, failed and come back to ("if
\* (!model.appId)"), as long as nobody leaves the wizard during a call; a lost
\* answer may leave a second one behind.
OneAppInUse ==
  \A i, j \in DOMAIN apps :
    apps[i].pub = apps[j].pub /\ apps[i].client /\ apps[j].client => i = j

\* The key pair the wizard keeps is the one its app seals tokens to, as long as
\* nobody leaves the wizard during a call.
KeptKeyIsTheApps == model.app # None => apps[model.app].pub = model.pub

\* The private key in the secrets opens the tokens of the app in the secrets
\* (DESCRIPTION.md: "you only need the wowauth CONFIG_SECRET, app id, user id
\* and your private key"), as long as nobody leaves the wizard during a call.
SecretsOpenTokens ==
  \A i \in DOMAIN shown : shown[i].priv # None => apps[shown[i].app].pub = shown[i].priv

\* No private key is shown twice (renderStep4: "the private key is never shown
\* again"), even when two submits of step 3 succeed.
KeyShownOnce ==
  \A i, j \in DOMAIN shown : shown[i].priv # None /\ shown[i].priv = shown[j].priv => i = j

\* The callback that step 2 tells the administrator to register is the one that
\* wowauth will send to the provider (SCHEMA.md: redirect_url "is wowauth's own
\* callback registered with the upstream provider").
ShownCallbackIsRegistered ==
  page.step = 2 /\ page.app # None => apps[page.app].redirect = page.url
=============================================================================
