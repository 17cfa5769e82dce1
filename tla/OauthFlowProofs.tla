-------------------------- MODULE OauthFlowProofs ---------------------------
(***************************************************************************)
(* Theorems about OauthFlow, for every value of its constants.             *)
(***************************************************************************)
EXTENDS OauthFlow, TokenStoreProofs, SequenceTheorems

-----------------------------------------------------------------------------
(* The inductive invariant *)

\* `u` was inserted for account `a`: its row is a's, or it is gone for good.
IdOf(u, a) == u \in used /\ (tokens[u] = NoRow \/ tokens[u].account = a)

\* A row of oauth_flows carries the account its authorization asked for.
FlowsAreAsked == \A f \in Flows : flows[f] # NoFlow => flows[f].account = asked[f]

\* A callback serves the account of its flow, and marks with an id of it.
CallbacksServeFlows ==
  \A c \in Callbacks : cb[c].pc # "idle" =>
    /\ cb[c].flow \in Flows /\ cb[c].account \in Accounts
    /\ cb[c].account = asked[cb[c].flow]
    /\ cb[c].pc = "upsert" => cb[c].grant # None
    /\ cb[c].pc = "mark" => IdOf(cb[c].user, cb[c].account)

\* The code of a stored flow is one that was handed out for it.
CodesAreHanded ==
  \A f \in Flows : flows[f] # NoFlow /\ flows[f].code # None =>
    /\ flows[f].code \in 1..Len(codes) /\ codes[flows[f].code].flow = f
    /\ flows[f].expires = codes[flows[f].code].at + CodeTtl

\* A redeemer serves a code that was handed out, and the id of its account.
RedeemersServeCodes ==
  \A t \in Redeemers : tk[t].pc # "idle" =>
    /\ tk[t].flow \in Flows /\ tk[t].account \in Accounts
    /\ tk[t].account = asked[tk[t].flow]
    /\ tk[t].code \in 1..Len(codes) /\ codes[tk[t].code].flow = tk[t].flow
    /\ tk[t].expires = codes[tk[t].code].at + CodeTtl
    /\ IdOf(tk[t].user, tk[t].account)
    /\ tk[t].pc = "get" => tk[t].at < tk[t].expires

\* A revocation serves an app.
RevokersServeApps == \A v \in Revokers : rv[v].pc # "idle" => rv[v].app \in Apps

\* An answer names a code, the account of its flow, and a time in its life.
AnswersMatchCodes ==
  \A i \in 1..Len(redeemed) :
    LET a == redeemed[i] IN
    /\ a.code \in 1..Len(codes) /\ codes[a.code].flow \in Flows
    /\ a.account = asked[codes[a.code].flow]
    /\ a.at < codes[a.code].at + CodeTtl

IInv == /\ TypeOK /\ OneRowPerAccount(tokens) /\ RowsUsed(tokens, used)
        /\ FlowsAreAsked /\ IssuedFlowHasItsUser /\ CodesAreHanded
        /\ CallbacksServeFlows /\ RedeemersServeCodes /\ RevokersServeApps
        /\ AnswersMatchCodes

\* A redeemed code is in no row, and neither is one whose flow a redeemer that
\* goes on has deleted.
RedeemedIsGone ==
  \A i \in 1..Len(redeemed), f \in Flows : flows[f] # NoFlow => flows[f].code # redeemed[i].code

TakenIsGone ==
  \A t \in Redeemers : tk[t].pc = "get" =>
    \A f \in Flows : flows[f] # NoFlow => flows[f].code # tk[t].code

\* Where no two redeemers have read a code and not deleted its flow, whoever has
\* deleted it is alone with it, and a redeemed code is in nobody's hands.
TakersAreAlone ==
  \A s, t \in Redeemers :
    s # t /\ tk[s].pc # "idle" /\ tk[t].pc = "get" => tk[s].code # tk[t].code

RedeemedIsSpent ==
  \A i \in 1..Len(redeemed) :
    /\ \A t \in Redeemers : tk[t].pc # "idle" => tk[t].code # redeemed[i].code
    /\ \A j \in 1..Len(redeemed) : redeemed[i].code = redeemed[j].code => i = j

\* The access token of grant `g` is stored, or somebody outside knows it.
Seen(g) ==
  \/ \E u \in Users : tokens[u] # NoRow /\ tokens[u].access = g
  \/ \E i \in 1..Len(redeemed) : redeemed[i].access = g
  \/ \E v \in Revokers : rv[v].pc = "delete" /\ rv[v].access = g
  \/ \E p \in revoked : p[2] = g

\* The provider mints every grant once, so one on its way is nobody's yet.
GrantsAreFresh ==
  /\ \A g \in Nat : Seen(g) => g <= minted
  /\ \A c \in Callbacks : cb[c].pc = "upsert" => cb[c].grant <= minted /\ ~Seen(cb[c].grant)
  /\ \A c, d \in Callbacks :
       cb[c].pc = "upsert" /\ cb[d].pc = "upsert" /\ cb[c].grant = cb[d].grant => c = d

\* No two rows store the same access token.
AccessIsUnique ==
  \A u, v \in Users : tokens[u] # NoRow /\ tokens[v] # NoRow /\ tokens[u].access = tokens[v].access
                        => u = v

\* The only row with the presented token is the one revoke has listed.
RevokersKnowTheRow ==
  \A v \in Revokers, u \in Users :
    rv[v].pc = "delete" /\ tokens[u] # NoRow /\ tokens[u].access = rv[v].access => u = rv[v].user

RInv == /\ GrantsAreFresh /\ AccessIsUnique /\ RevokersKnowTheRow /\ RevokedStaysGone

-----------------------------------------------------------------------------
(* Helpers *)

\* Appending to a sequence keeps what it had.
LEMMA Appended ==
  ASSUME NEW S, NEW s \in Seq(S), NEW e \in S
  PROVE  /\ Append(s, e) \in Seq(S) /\ Len(s) \in Nat
         /\ Len(Append(s, e)) = Len(s) + 1 /\ Append(s, e)[Len(s) + 1] = e
         /\ \A i \in 1..Len(s) : Append(s, e)[i] = s[i]
OBVIOUS

LEMMA IdleTypes == CbIdle \in CbLocal /\ TkIdle \in TkLocal /\ RvIdle \in RvLocal
BY DEF CbIdle, TkIdle, RvIdle, CbLocal, TkLocal, RvLocal, None

\* A flow's columns are both set or both NULL.
LEMMA FlowType ==
  ASSUME TypeOK, NEW f \in Flows, flows[f] # NoFlow
  PROVE  /\ flows[f].account \in Accounts /\ flows[f].expires \in Nat
         /\ \/ flows[f].code = None /\ flows[f].user = None
            \/ flows[f].code \in Nat \ {None} /\ flows[f].user \in Users
BY DEF TypeOK, Pending, Issued

LEMMA RowType ==
  ASSUME TypeOK, NEW u \in Users, tokens[u] # NoRow
  PROVE  tokens[u] \in Row
BY DEF TypeOK, Table

\* Deleting flows leaves flows.
LEMMA CascadeRows ==
  ASSUME NEW rows, NEW f \in Flows
  PROVE  Cascade(flows, rows)[f] \in {flows[f], NoFlow}
BY DEF Cascade

LEMMA CascadeType ==
  ASSUME NEW rows, flows \in [Flows -> Pending \cup Issued \cup {NoFlow}]
  PROVE  Cascade(flows, rows) \in [Flows -> Pending \cup Issued \cup {NoFlow}]
BY DEF Cascade

-----------------------------------------------------------------------------
(* Type correctness *)

LEMMA InitType == Init => TypeOK
<1> SUFFICES ASSUME Init PROVE TypeOK
  OBVIOUS
<1>1. tokens \in Table
  BY DEF Init, EmptyTable, Table
<1>2. env \subseteq AllEnv
  BY FlowAssumption DEF Init
<1>3. codes \in Seq([flow : Flows, at : Nat])
      /\ redeemed \in Seq([code : Nat, account : Accounts, access : Nat, at : Nat])
  BY EmptySeq DEF Init
<1> QED
  BY <1>1, <1>2, <1>3, IdleTypes DEF Init, TypeOK

LEMMA CallbackType ==
  ASSUME IInv, NEW c \in Callbacks,
         \/ \E app \in Apps, f \in Flows, brings \in {"code", "error"} :
              CallbackLookup(c, app, f, brings)
         \/ CallbackReject(c) \/ ExchangeAnswers(c) \/ Disconnect(c)
  PROVE  TypeOK'
<1> TypeOK
  BY DEF IInv
<1> USE DEF TypeOK
<1>1. ASSUME NEW app \in Apps, NEW f \in Flows, NEW brings \in {"code", "error"},
             CallbackLookup(c, app, f, brings)
      PROVE  TypeOK'
  <2>1. cb' \in [Callbacks -> CbLocal]
    <3>1. CASE flows[f] = NoFlow
      BY <1>1, <3>1 DEF CallbackLookup
    <3>2. CASE flows[f] # NoFlow
      <4>1. flows[f].account \in Accounts
        BY <3>2, FlowType
      <4>2. \A pc \in {"exchange", "reject"} :
              [CbIdle EXCEPT !.pc = pc, !.flow = f, !.account = flows[f].account] \in CbLocal
        BY <4>1, IdleTypes DEF CbLocal
      <4> QED
        BY <1>1, <3>2, <4>2 DEF CallbackLookup
    <3> QED
      BY <3>1, <3>2
  <2>2. returned' \in [Flows -> Nat]
    <3>1. returned' = [returned EXCEPT ![f] = returned[f] + 1]
      BY <1>1 DEF CallbackLookup
    <3>2. returned[f] + 1 \in Nat
      OBVIOUS
    <3> QED
      BY <3>1, <3>2
  <2> QED
    BY <1>1, <2>1, <2>2 DEF CallbackLookup, db
<1>2. CASE CallbackReject(c)
  BY <1>2, IdleTypes DEF CallbackReject, IInv, CallbacksServeFlows, DeleteFlow, history
<1>3. CASE ExchangeAnswers(c)
  <2> DEFINE granted == [cb[c] EXCEPT !.pc = "upsert", !.grant = minted + 1]
             refused == [cb[c] EXCEPT !.pc = "reject"]
  <2>1. granted \in CbLocal /\ refused \in CbLocal
    <3>1. cb[c] \in CbLocal /\ minted + 1 \in Nat
      OBVIOUS
    <3> QED
      BY <3>1 DEF CbLocal
  <2>2. /\ minted' = minted + 1 \/ minted' = minted
        /\ cb' = [cb EXCEPT ![c] = granted] \/ cb' = [cb EXCEPT ![c] = refused]
    BY <1>3 DEF ExchangeAnswers
  <2> HIDE DEF granted, refused
  <2>3. minted' \in Nat
    BY <2>2
  <2>4. cb' \in [Callbacks -> CbLocal]
    BY <2>1, <2>2
  <2> QED
    BY <1>3, <2>3, <2>4 DEF ExchangeAnswers, db, history
<1>4. CASE Disconnect(c)
  BY <1>4, IdleTypes DEF Disconnect, db, history
<1> QED
  BY <1>1, <1>2, <1>3, <1>4

\* upsert_token, and what it needs to know of the handler.
LEMMA CallbackUpserts ==
  ASSUME IInv, NEW c \in Callbacks, CallbackUpsert(c)
  PROVE  \E u \in Users, row \in Row :
           /\ u \in UpsertIds(tokens, used, cb[c].account)
           /\ row.account = cb[c].account /\ row.access = cb[c].grant
           /\ tokens' = Upsert(tokens, u, row) /\ used' = used \cup {u}
           /\ cb' = [cb EXCEPT ![c].pc = "mark", ![c].user = u]
           /\ cb[c].account \in Accounts /\ cb[c].account = asked[cb[c].flow]
<1>1. /\ cb[c].account \in Accounts /\ cb[c].account = asked[cb[c].flow]
      /\ cb[c].grant \in Nat \ {None}
  BY DEF IInv, CallbacksServeFlows, CallbackUpsert, TypeOK, CbLocal
<1> DEFINE row == [account |-> cb[c].account, access |-> cb[c].grant, refresh |-> None,
                   scopes |-> cb[c].grant, expires |-> None]
<1>2. row \in Row /\ row.account = cb[c].account /\ row.access = cb[c].grant
  BY <1>1 DEF Row, None
<1>3. UpsertIds(tokens, used, cb[c].account) \subseteq Users
  BY DEF UpsertIds, Holders
<1> QED
  BY <1>1, <1>2, <1>3 DEF CallbackUpsert

LEMMA CallbackUpsertType ==
  ASSUME IInv, NEW c \in Callbacks, CallbackUpsert(c)
  PROVE  TypeOK'
<1> TypeOK
  BY DEF IInv
<1> USE DEF TypeOK
<1>1. PICK u \in Users, row \in Row :
           /\ u \in UpsertIds(tokens, used, cb[c].account)
           /\ row.account = cb[c].account
           /\ tokens' = Upsert(tokens, u, row) /\ used' = used \cup {u}
           /\ cb' = [cb EXCEPT ![c].pc = "mark", ![c].user = u]
           /\ cb[c].account \in Accounts
  BY CallbackUpserts
<1>2. tokens' \in Table
  BY <1>1, UpsertedIds DEF IInv
<1>3. cb' \in [Callbacks -> CbLocal]
  <2> DEFINE marks == [cb[c] EXCEPT !.pc = "mark", !.user = u]
  <2>1. marks \in CbLocal
    BY DEF CbLocal
  <2>2. cb' = [cb EXCEPT ![c] = marks]
    BY <1>1
  <2> QED
    BY <2>1, <2>2
<1> QED
  BY <1>1, <1>2, <1>3 DEF CallbackUpsert, history

\* What mark_flow_issued does to the flow, and to the codes.
LEMMA CallbackMarks ==
  ASSUME IInv, NEW c \in Callbacks, CallbackMark(c)
  PROVE  LET f == cb[c].flow IN
         /\ f \in Flows /\ IdOf(cb[c].user, asked[f])
         /\ \/ UNCHANGED flows /\ codes' \in {codes, Append(codes, [flow |-> f, at |-> now])}
            \/ /\ codes' = Append(codes, [flow |-> f, at |-> now])
               /\ flows[f] # NoFlow /\ tokens[cb[c].user] # NoRow
               /\ flows' = [flows EXCEPT ![f].code = Len(codes) + 1, ![f].user = cb[c].user,
                                         ![f].expires = now + CodeTtl]
BY DEF IInv, CallbacksServeFlows, CallbackMark, IssuedExpiry

LEMMA CallbackMarkType ==
  ASSUME IInv, NEW c \in Callbacks, CallbackMark(c)
  PROVE  TypeOK'
<1> TypeOK
  BY DEF IInv
<1> USE DEF TypeOK
<1> DEFINE f == cb[c].flow
           code == [flow |-> f, at |-> now]
<1>1. f \in Flows /\ cb[c].user \in Users
  BY CallbackMarks DEF IdOf
<1>2. codes' \in Seq([flow : Flows, at : Nat])
  <2>1. code \in [flow : Flows, at : Nat]
    BY <1>1
  <2>2. codes' = codes \/ codes' = Append(codes, code)
    BY CallbackMarks
  <2>3. Append(codes, code) \in Seq([flow : Flows, at : Nat])
    BY <2>1
  <2> HIDE DEF code
  <2> QED
    BY <2>2, <2>3
<1>3. flows' \in [Flows -> Pending \cup Issued \cup {NoFlow}]
  <2> DEFINE issued == [flows[f] EXCEPT !.code = Len(codes) + 1, !.user = cb[c].user,
                                       !.expires = now + CodeTtl]
  <2>1. ASSUME flows[f] # NoFlow
        PROVE  issued \in Issued
    <3>1. flows[f] \in Pending \cup Issued
      BY <1>1, <2>1
    <3>2. Len(codes) + 1 \in Nat \ {None} /\ now + CodeTtl \in Nat
      BY Appended, FlowAssumption DEF None
    <3> HIDE DEF f
    <3> QED
      BY <1>1, <3>1, <3>2 DEF Pending, Issued, f
  <2>2. flows' = flows \/ (flows[f] # NoFlow /\ flows' = [flows EXCEPT ![f] = issued])
    BY <1>1, CallbackMarks
  <2> HIDE DEF issued, f
  <2> QED
    BY <1>1, <2>1, <2>2
<1>4. cb' \in [Callbacks -> CbLocal]
  BY IdleTypes DEF CallbackMark
<1> QED
  BY <1>2, <1>3, <1>4 DEF CallbackMark

LEMMA RedeemType ==
  ASSUME IInv, NEW t \in Redeemers,
         \/ \E app \in Apps, code \in 1..Len(codes), proof \in BOOLEAN :
              RedeemLookup(t, app, code, proof)
         \/ RedeemDelete(t) \/ RedeemGet(t)
  PROVE  TypeOK'
<1> TypeOK
  BY DEF IInv
<1> USE DEF TypeOK
<1>1. ASSUME NEW app \in Apps, NEW code \in 1..Len(codes), NEW proof \in BOOLEAN,
             RedeemLookup(t, app, code, proof)
      PROVE  TypeOK'
  <2>1. PICK f \in Flows :
          /\ flows[f] # NoFlow
          /\ tk' = [tk EXCEPT ![t] = [pc |-> "delete", flow |-> f, account |-> flows[f].account,
                                      user |-> flows[f].user, expires |-> flows[f].expires,
                                      code |-> code, app |-> app, proof |-> proof, at |-> None]]
    BY <1>1 DEF RedeemLookup, WithCode
  <2>2. /\ flows[f].account \in Accounts /\ flows[f].expires \in Nat
        /\ flows[f].user \in Users \cup {None}
    BY <2>1, FlowType
  <2>3. code \in Nat
    BY Appended
  <2>4. tk' \in [Redeemers -> TkLocal]
    BY <2>1, <2>2, <2>3 DEF TkLocal, None
  <2> QED
    BY <1>1, <2>4 DEF RedeemLookup, db, history
<1>2. CASE RedeemDelete(t)
  <2>1. tk' \in [Redeemers -> TkLocal]
    <3>1. [tk[t] EXCEPT !.pc = "get", !.at = now] \in TkLocal
      BY DEF TkLocal
    <3> QED
      BY <1>2, <3>1, IdleTypes DEF RedeemDelete
  <2>2. flows' \in [Flows -> Pending \cup Issued \cup {NoFlow}]
    BY <1>2 DEF RedeemDelete, DeleteFlow
  <2> QED
    BY <1>2, <2>1, <2>2 DEF RedeemDelete, history
<1>3. CASE RedeemGet(t)
  <2> DEFINE row == GetToken(tokens, AppOf[tk[t].account], tk[t].user)
  <2>1. tk' \in [Redeemers -> TkLocal]
    BY <1>3, IdleTypes DEF RedeemGet
  <2>2. redeemed' \in Seq([code : Nat, account : Accounts, access : Nat, at : Nat])
    <3>1. CASE row = NoRow
      BY <1>3, <3>1 DEF RedeemGet
    <3>2. CASE row # NoRow
      <4>1. row \in Row
        BY <1>3, <3>2, GetTokenType DEF RedeemGet, IInv, RedeemersServeCodes, IdOf
      <4> HIDE DEF row
      <4>2. [code |-> tk[t].code, account |-> row.account, access |-> row.access, at |-> tk[t].at]
               \in [code : Nat, account : Accounts, access : Nat, at : Nat]
        BY <4>1 DEF Row, TkLocal
      <4>3. redeemed' = Append(redeemed, [code |-> tk[t].code, account |-> row.account,
                                          access |-> row.access, at |-> tk[t].at])
        BY <1>3, <3>2 DEF RedeemGet, row
      <4> QED
        BY <4>2, <4>3, Appended
    <3> QED
      BY <3>1, <3>2
  <2> QED
    BY <1>3, <2>1, <2>2 DEF RedeemGet, db
<1> QED
  BY <1>1, <1>2, <1>3

LEMMA RevokeType ==
  ASSUME IInv, NEW v \in Revokers,
         (\E app \in Apps, access \in Handed : RevokeList(v, app, access)) \/ RevokeDelete(v)
  PROVE  TypeOK'
<1> TypeOK
  BY DEF IInv
<1> USE DEF TypeOK
<1>1. ASSUME NEW app \in Apps, NEW access \in Handed, RevokeList(v, app, access)
      PROVE  TypeOK'
  <2>1. access \in Nat
    <3>1. PICK i \in DOMAIN redeemed : access = redeemed[i].access
      BY DEF Handed
    <3>2. redeemed[i] \in [code : Nat, account : Accounts, access : Nat, at : Nat]
      BY <3>1, LenProperties, ElementOfSeq
    <3> QED
      BY <3>1, <3>2
  <2>2. revoked' \subseteq Apps \X Nat
    BY <1>1, <2>1 DEF RevokeList
  <2>3. rv' \in [Revokers -> RvLocal]
    <3>1. \A u \in Users : [pc |-> "delete", app |-> app, user |-> u, access |-> access] \in RvLocal
      BY <2>1 DEF RvLocal
    <3>2. UNCHANGED rv \/ \E u \in Users :
            rv' = [rv EXCEPT ![v] = [pc |-> "delete", app |-> app, user |-> u, access |-> access]]
      BY <1>1 DEF RevokeList, Matches
    <3> QED
      BY <3>1, <3>2
  <2> QED
    BY <1>1, <2>2, <2>3 DEF RevokeList, db
<1>2. CASE RevokeDelete(v)
  <2>1. tokens' \in Table
    BY <1>2 DEF RevokeDelete, DeleteToken, Table
  <2>2. flows' \in [Flows -> Pending \cup Issued \cup {NoFlow}]
    BY <1>2, CascadeType DEF RevokeDelete
  <2>3. rv' \in [Revokers -> RvLocal]
    BY <1>2, IdleTypes DEF RevokeDelete
  <2>4. revoked' \subseteq Apps \X Nat
    <3>1. rv[v].app \in Apps /\ rv[v].access \in Nat
      BY <1>2 DEF RevokeDelete, IInv, RevokersServeApps, RvLocal
    <3> QED
      BY <1>2, <3>1 DEF RevokeDelete
  <2> QED
    BY <1>2, <2>1, <2>2, <2>3, <2>4 DEF RevokeDelete
<1> QED
  BY <1>1, <1>2

LEMMA NextType ==
  ASSUME IInv, Next
  PROVE  TypeOK'
<1> TypeOK
  BY DEF IInv
<1>1. ASSUME NEW f \in Flows, NEW app \in Apps, NEW who \in Hints \cup Flows,
             Authorize(f, app, who)
      PROVE  TypeOK'
  <2>1. <<app, who>> \in Accounts
    BY <1>1, FlowAssumption DEF Authorize
  <2>2. now + FlowTtl \in Nat
    BY FlowAssumption DEF TypeOK
  <2>3. [account |-> <<app, who>>, expires |-> now + FlowTtl, code |-> None, user |-> None]
          \in Pending
    BY <2>1, <2>2 DEF Pending
  <2> QED
    BY <1>1, <2>1, <2>3 DEF Authorize, TypeOK
<1>2. ASSUME NEW u \in Users, DeleteUser(u)
      PROVE  TypeOK'
  <2>1. tokens' \in Table
    BY <1>2, DeleteTokenType DEF DeleteUser, TypeOK
  <2>2. flows' \in [Flows -> Pending \cup Issued \cup {NoFlow}]
    BY <1>2, CascadeType DEF DeleteUser, TypeOK
  <2> QED
    BY <1>2, <2>1, <2>2 DEF DeleteUser, TypeOK, history
<1>3. ASSUME NEW app \in Apps, RotateKey(app)
      PROVE  TypeOK'
  <2>1. tokens' \in Table
    BY <1>3, DeleteTokensOfType DEF RotateKey, TypeOK
  <2>2. flows' \in [Flows -> Pending \cup Issued \cup {NoFlow}]
    BY <1>3, CascadeType DEF RotateKey, TypeOK
  <2> QED
    BY <1>3, <2>1, <2>2 DEF RotateKey, TypeOK, history
<1>4. CASE Restart
  BY <1>4, IdleTypes DEF Restart, TypeOK, db, history
<1>5. CASE Tick
  BY <1>5 DEF Tick, TypeOK, db, history
<1> QED
  BY <1>1, <1>2, <1>3, <1>4, <1>5, CallbackType, CallbackUpsertType, CallbackMarkType,
     RedeemType, RevokeType
  DEF Next, Callback, Redeem

-----------------------------------------------------------------------------
(* What a step does to the tables and the histories *)

\* A step leaves the tokens table alone, deletes rows, or upserts.
LEMMA NextTokens ==
  ASSUME IInv, Next
  PROVE  \/ UNCHANGED <<tokens, used>>
         \/ /\ used' = used /\ flows' = Cascade(flows, tokens')
            /\ \A u \in Users : tokens'[u] \in {tokens[u], NoRow}
            /\ UNCHANGED <<minted, cb, tk, asked, redeemed, codes>>
         \/ \E c \in Callbacks : CallbackUpsert(c)
<1> tokens \in Table
  BY DEF IInv, TypeOK
<1>1. \A app, u : \A v \in Users : DeleteToken(tokens, app, u)[v] \in {tokens[v], NoRow}
  BY DEF DeleteToken, Table
<1>2. \A app : \A v \in Users : DeleteTokensOf(tokens, app)[v] \in {tokens[v], NoRow}
  BY DEF DeleteTokensOf
<1>3. ASSUME NEW u \in Users, DeleteUser(u)
      PROVE  /\ used' = used /\ flows' = Cascade(flows, tokens')
             /\ \A v \in Users : tokens'[v] \in {tokens[v], NoRow}
             /\ UNCHANGED <<minted, cb, tk, asked, redeemed, codes>>
  BY <1>1, <1>3 DEF DeleteUser, history
<1>4. ASSUME NEW app \in Apps, RotateKey(app)
      PROVE  /\ used' = used /\ flows' = Cascade(flows, tokens')
             /\ \A v \in Users : tokens'[v] \in {tokens[v], NoRow}
             /\ UNCHANGED <<minted, cb, tk, asked, redeemed, codes>>
  BY <1>2, <1>4 DEF RotateKey, history
<1>5. ASSUME NEW v \in Revokers, RevokeDelete(v)
      PROVE  /\ used' = used /\ flows' = Cascade(flows, tokens')
             /\ \A u \in Users : tokens'[u] \in {tokens[u], NoRow}
             /\ UNCHANGED <<minted, cb, tk, asked, redeemed, codes>>
  BY <1>1, <1>5 DEF RevokeDelete
<1>6. \A v \in Revokers : \A app, access : RevokeList(v, app, access) => UNCHANGED <<tokens, used>>
  BY DEF RevokeList, db
<1>7. \A t \in Redeemers : Redeem(t) => UNCHANGED <<tokens, used>>
  BY DEF Redeem, RedeemDelete, RedeemGet, db
<1>8. \A t \in Redeemers : \A app, code, proof :
        RedeemLookup(t, app, code, proof) => UNCHANGED <<tokens, used>>
  BY DEF RedeemLookup, db
<1>9. \A c \in Callbacks : CallbackReject(c) \/ ExchangeAnswers(c) \/ CallbackMark(c) \/ Disconnect(c)
        => UNCHANGED <<tokens, used>>
  BY DEF CallbackReject, ExchangeAnswers, CallbackMark, Disconnect, db
<1>10. \A c \in Callbacks : \A app, f, brings :
         CallbackLookup(c, app, f, brings) => UNCHANGED <<tokens, used>>
  BY DEF CallbackLookup, db
<1>11. Restart \/ Tick \/ (\E f \in Flows, app \in Apps, who \in Hints \cup Flows : Authorize(f, app, who))
         => UNCHANGED <<tokens, used>>
  BY DEF Restart, Tick, Authorize, db
<1> QED
  BY <1>3, <1>4, <1>5, <1>6, <1>7, <1>8, <1>9, <1>10, <1>11 DEF Next, Callback

\* The three ways to write tokens, by what they do to the ids.
LEMMA NextIds ==
  ASSUME IInv, Next
  PROVE  /\ OneRowPerAccount(tokens') /\ RowsUsed(tokens', used')
         /\ [Ids!Next]_(Ids!vars)
<1> DEFINE Goal == /\ OneRowPerAccount(tokens') /\ RowsUsed(tokens', used')
                   /\ [Ids!Next]_(Ids!vars)
<1>1. OneRowPerAccount(tokens) /\ RowsUsed(tokens, used) /\ tokens \in Table
  BY DEF IInv, TypeOK
<1>2. CASE UNCHANGED <<tokens, used>>
  BY <1>1, <1>2 DEF Ids!vars
<1>3. ASSUME used' = used, \A u \in Users : tokens'[u] \in {tokens[u], NoRow}
      PROVE  Goal
  <2>1. IdsOf(tokens') \in [Accounts -> SUBSET Users]
    BY DEF IdsOf, Holders
  <2> QED
    BY <1>1, <1>3, <2>1, FewerIds DEF Ids!Next, Ids!Gone
<1>4. ASSUME NEW c \in Callbacks, CallbackUpsert(c)
      PROVE  Goal
  <2>1. PICK u \in Users, row \in Row :
           /\ u \in UpsertIds(tokens, used, cb[c].account)
           /\ row.account = cb[c].account
           /\ tokens' = Upsert(tokens, u, row) /\ used' = used \cup {u}
           /\ cb[c].account \in Accounts
    BY <1>4, CallbackUpserts
  <2>2. /\ OneRowPerAccount(tokens') /\ RowsUsed(tokens', used')
        /\ KeepsOrBears(tokens, used, cb[c].account, u, tokens')
    BY <1>1, <2>1, UpsertedIds
  <2> QED
    BY <2>1, <2>2 DEF KeepsOrBears, Ids!vars, Ids!Next, Ids!Born
<1> QED
  BY <1>2, <1>3, <1>4, NextTokens

\* An id never passes to another account.
LEMMA NextIdOf ==
  ASSUME IInv, Next, NEW u \in Users, NEW a, IdOf(u, a)
  PROVE  IdOf(u, a)'
<1>1. OneRowPerAccount(tokens) /\ RowsUsed(tokens, used) /\ tokens \in Table
  BY DEF IInv, TypeOK
<1>2. ASSUME NEW c \in Callbacks, CallbackUpsert(c)
      PROVE  IdOf(u, a)'
  <2>1. PICK v \in Users, row \in Row :
           /\ v \in UpsertIds(tokens, used, cb[c].account)
           /\ row.account = cb[c].account
           /\ tokens' = Upsert(tokens, v, row) /\ used' = used \cup {v}
           /\ cb[c].account \in Accounts
    BY <1>2, CallbackUpserts
  <2>2. tokens[v] # NoRow => tokens[v].account = cb[c].account
    BY <1>1, <2>1 DEF UpsertIds, Holders, RowsUsed
  <2>3. /\ tokens'[v].account = cb[c].account
        /\ \A w \in Users \ {v} : tokens'[w] = tokens[w]
    BY <1>1, <2>1, <2>2, UpsertType
  <2>4. v = u => tokens[u] # NoRow /\ tokens[u].account = cb[c].account
    BY <2>1 DEF IdOf, UpsertIds, Holders
  <2> QED
    BY <2>1, <2>3, <2>4 DEF IdOf
<1> QED
  BY <1>2, NextTokens DEF IdOf

\* What an authorization asked for stays what it asked for.
LEMMA NextAsked ==
  ASSUME IInv, Next, NEW f \in Flows
  PROVE  /\ asked[f] \in Accounts => asked'[f] = asked[f]
         /\ asked'[f] # asked[f] => \E app \in Apps, who \in Hints \cup Flows : Authorize(f, app, who)
<1> asked \in [Flows -> Accounts \cup {NoAccount}]
  BY DEF IInv, TypeOK
<1>1. ASSUME NEW g \in Flows, NEW app \in Apps, NEW who \in Hints \cup Flows, Authorize(g, app, who)
      PROVE  /\ asked[f] \in Accounts => asked'[f] = asked[f]
             /\ asked'[f] # asked[f] => f = g
  BY <1>1, FlowAssumption DEF Authorize
<1>2. CASE UNCHANGED asked
  BY <1>2
<1> QED
  BY <1>1, <1>2 DEF Next, Callback, Redeem, CallbackLookup, CallbackReject, ExchangeAnswers,
     CallbackUpsert, CallbackMark, Disconnect, RedeemLookup, RedeemDelete, RedeemGet, RevokeList,
     RevokeDelete, DeleteUser, RotateKey, Restart, Tick, history

\* Codes are only ever appended.
LEMMA NextCodes ==
  ASSUME IInv, Next, NEW n \in 1..Len(codes)
  PROVE  n \in 1..Len(codes') /\ codes'[n] = codes[n]
<1> codes \in Seq([flow : Flows, at : Nat]) /\ now \in Nat
  BY DEF IInv, TypeOK
<1>1. ASSUME NEW c \in Callbacks, CallbackMark(c)
      PROVE  n \in 1..Len(codes') /\ codes'[n] = codes[n]
  <2> DEFINE code == [flow |-> cb[c].flow, at |-> now]
  <2>1. code \in [flow : Flows, at : Nat]
    BY <1>1, CallbackMarks
  <2>2. codes' = codes \/ codes' = Append(codes, code)
    BY <1>1, CallbackMarks
  <2> HIDE DEF code
  <2> QED
    BY <2>1, <2>2, Appended
<1>2. CASE UNCHANGED codes
  BY <1>2
<1> QED
  BY <1>1, <1>2 DEF Next, Callback, Redeem, Authorize, CallbackLookup, CallbackReject,
     ExchangeAnswers, CallbackUpsert, Disconnect, RedeemLookup, RedeemDelete, RedeemGet, RevokeList,
     RevokeDelete, DeleteUser, RotateKey, Restart, Tick, history

\* A flow stays, goes, is inserted by an authorization or marked by a callback.
LEMMA NextFlows ==
  ASSUME IInv, Next, NEW f \in Flows
  PROVE  \/ flows'[f] \in {flows[f], NoFlow} /\ asked'[f] = asked[f]
         \/ /\ \E app \in Apps, who \in Hints \cup Flows : Authorize(f, app, who)
            /\ flows'[f].code = None /\ flows'[f].account = asked'[f]
         \/ \E c \in Callbacks : CallbackMark(c) /\ cb[c].flow = f
<1> USE DEF IInv, TypeOK
<1>1. ASSUME NEW g \in Flows, NEW app \in Apps, NEW who \in Hints \cup Flows, Authorize(g, app, who)
      PROVE  \/ flows'[f] \in {flows[f], NoFlow} /\ asked'[f] = asked[f]
             \/ f = g /\ flows'[f].code = None /\ flows'[f].account = asked'[f]
  BY <1>1 DEF Authorize
<1>2. ASSUME NEW c \in Callbacks, CallbackMark(c), cb[c].flow # f
      PROVE  flows'[f] \in {flows[f], NoFlow} /\ asked'[f] = asked[f]
  BY <1>2, CallbackMarks DEF CallbackMark
<1>3. ASSUME NEW c \in Callbacks, CallbackReject(c)
      PROVE  flows'[f] \in {flows[f], NoFlow} /\ asked'[f] = asked[f]
  BY <1>3 DEF CallbackReject, DeleteFlow, history
<1>4. ASSUME NEW t \in Redeemers, RedeemDelete(t)
      PROVE  flows'[f] \in {flows[f], NoFlow} /\ asked'[f] = asked[f]
  BY <1>4 DEF RedeemDelete, DeleteFlow, history
<1>5. ASSUME NEW v \in Revokers, RevokeDelete(v)
      PROVE  flows'[f] \in {flows[f], NoFlow} /\ asked'[f] = asked[f]
  BY <1>5, CascadeRows DEF RevokeDelete
<1>6. ASSUME NEW u \in Users, DeleteUser(u)
      PROVE  flows'[f] \in {flows[f], NoFlow} /\ asked'[f] = asked[f]
  BY <1>6, CascadeRows DEF DeleteUser, history
<1>7. ASSUME NEW app \in Apps, RotateKey(app)
      PROVE  flows'[f] \in {flows[f], NoFlow} /\ asked'[f] = asked[f]
  BY <1>7, CascadeRows DEF RotateKey, history
<1>8. CASE UNCHANGED <<flows, asked>>
  BY <1>8
<1> HIDE DEF IInv, TypeOK
<1> QED
  BY <1>1, <1>2, <1>3, <1>4, <1>5, <1>6, <1>7, <1>8
  DEF Next, Callback, Redeem, CallbackLookup, ExchangeAnswers, CallbackUpsert, Disconnect,
      RedeemLookup, RedeemGet, RevokeList, Restart, Tick, db, history

\* What a marked flow looks like.
LEMMA MarkedFlow ==
  ASSUME IInv, NEW c \in Callbacks, CallbackMark(c), NEW f \in Flows, cb[c].flow = f
  PROVE  /\ asked' = asked /\ tokens' = tokens
         /\ \/ flows'[f] = flows[f]
            \/ /\ flows'[f].account = flows[f].account /\ flows[f] # NoFlow
               /\ flows'[f].code = Len(codes) + 1 /\ flows'[f].user = cb[c].user
               /\ flows'[f].expires = now + CodeTtl
               /\ codes' = Append(codes, [flow |-> f, at |-> now])
               /\ tokens[cb[c].user] # NoRow /\ tokens[cb[c].user].account = asked[f]
<1> flows \in [Flows -> Pending \cup Issued \cup {NoFlow}]
  BY DEF IInv, TypeOK
<1>1. asked' = asked /\ tokens' = tokens
  BY DEF CallbackMark
<1>2. CASE flows' = flows
  BY <1>1, <1>2
<1>3. CASE flows' # flows
  <2>1. /\ codes' = Append(codes, [flow |-> f, at |-> now])
        /\ flows[f] # NoFlow /\ tokens[cb[c].user] # NoRow
        /\ flows' = [flows EXCEPT ![f].code = Len(codes) + 1, ![f].user = cb[c].user,
                                  ![f].expires = now + CodeTtl]
        /\ IdOf(cb[c].user, asked[f])
    BY <1>3, CallbackMarks
  <2>2. flows[f] \in Pending \cup Issued
    BY <2>1
  <2>3. flows'[f] = [flows[f] EXCEPT !.code = Len(codes) + 1, !.user = cb[c].user,
                                     !.expires = now + CodeTtl]
    BY <2>1
  <2>4. /\ flows'[f].account = flows[f].account
        /\ flows'[f].code = Len(codes) + 1 /\ flows'[f].user = cb[c].user
        /\ flows'[f].expires = now + CodeTtl
    BY <2>2, <2>3 DEF Pending, Issued
  <2> QED
    BY <1>1, <2>1, <2>4 DEF IdOf
<1> QED
  BY <1>2, <1>3

-----------------------------------------------------------------------------
(* Preservation of the invariant *)

LEMMA NextFlowsAreAsked ==
  ASSUME IInv, Next
  PROVE  FlowsAreAsked'
<1> SUFFICES ASSUME NEW f \in Flows, flows'[f] # NoFlow
             PROVE  flows'[f].account = asked'[f]
  BY DEF FlowsAreAsked
<1>1. CASE flows'[f] = flows[f] /\ asked'[f] = asked[f]
  BY <1>1 DEF IInv, FlowsAreAsked
<1>2. ASSUME NEW c \in Callbacks, CallbackMark(c), cb[c].flow = f
      PROVE  flows'[f].account = asked'[f]
  BY <1>2, MarkedFlow DEF IInv, FlowsAreAsked
<1> QED
  BY <1>1, <1>2, NextFlows

LEMMA NextIssuedFlows ==
  ASSUME IInv, Next
  PROVE  IssuedFlowHasItsUser'
<1> SUFFICES ASSUME NEW f \in Flows, flows'[f] # NoFlow, flows'[f].code # None
             PROVE  /\ tokens'[flows'[f].user] # NoRow
                    /\ tokens'[flows'[f].user].account = asked'[f]
  BY DEF IssuedFlowHasItsUser
<1> DEFINE Goal == /\ tokens'[flows'[f].user] # NoRow
                   /\ tokens'[flows'[f].user].account = asked'[f]
<1>1. ASSUME NEW c \in Callbacks, CallbackMark(c), cb[c].flow = f
      PROVE  Goal
  <2>1. asked' = asked /\ tokens' = tokens
    BY <1>1, MarkedFlow
  <2>2. CASE flows'[f] = flows[f]
    BY <2>1, <2>2 DEF IInv, IssuedFlowHasItsUser
  <2>3. CASE /\ flows'[f].user = cb[c].user
             /\ tokens[cb[c].user] # NoRow /\ tokens[cb[c].user].account = asked[f]
    BY <2>1, <2>3
  <2> QED
    BY <1>1, <2>2, <2>3, MarkedFlow
<1>2. ASSUME flows'[f] = flows[f], asked'[f] = asked[f]
      PROVE  Goal
  <2> DEFINE u == flows[f].user
  <2>1. u \in Users /\ tokens[u] # NoRow /\ tokens[u].account = asked[f]
    BY <1>2, FlowType DEF IInv, IssuedFlowHasItsUser
  <2>2. CASE UNCHANGED tokens
    BY <1>2, <2>1, <2>2
  <2>3. CASE flows' = Cascade(flows, tokens') /\ \A v \in Users : tokens'[v] \in {tokens[v], NoRow}
    <3>1. tokens'[u] # NoRow
      BY <1>2, <2>1, <2>3, StoreAssumption DEF Cascade
    <3> QED
      BY <1>2, <2>1, <2>3, <3>1
  <2>4. ASSUME NEW c \in Callbacks, CallbackUpsert(c)
        PROVE  Goal
    <3>1. PICK v \in Users, row \in Row :
             /\ v \in UpsertIds(tokens, used, cb[c].account)
             /\ row.account = cb[c].account
             /\ tokens' = Upsert(tokens, v, row)
             /\ cb[c].account \in Accounts
      BY <2>4, CallbackUpserts
    <3>2. tokens \in Table /\ RowsUsed(tokens, used)
      BY DEF IInv, TypeOK
    <3>3. tokens[v] # NoRow => tokens[v].account = cb[c].account
      BY <3>1, <3>2 DEF UpsertIds, Holders, RowsUsed
    <3>4. tokens'[v] \in Row /\ tokens'[v].account = cb[c].account
          /\ \A w \in Users \ {v} : tokens'[w] = tokens[w]
      BY <3>1, <3>2, <3>3, UpsertType
    <3> HIDE DEF u
    <3>5. tokens'[u] # NoRow /\ tokens'[u].account = asked[f]
      BY <2>1, <3>3, <3>4, StoreAssumption
    <3> QED
      BY <1>2, <3>5 DEF u
  <2> QED
    BY <2>2, <2>3, <2>4, NextTokens
<1> QED
  BY <1>1, <1>2, NextFlows

LEMMA NextCodesAreHanded ==
  ASSUME IInv, Next
  PROVE  CodesAreHanded'
<1> SUFFICES ASSUME NEW f \in Flows, flows'[f] # NoFlow, flows'[f].code # None
             PROVE  /\ flows'[f].code \in 1..Len(codes') /\ codes'[flows'[f].code].flow = f
                    /\ flows'[f].expires = codes'[flows'[f].code].at + CodeTtl
  BY DEF CodesAreHanded
<1>1. CASE flows'[f] = flows[f]
  BY <1>1, NextCodes DEF IInv, CodesAreHanded
<1>2. ASSUME NEW c \in Callbacks, CallbackMark(c), cb[c].flow = f, flows'[f] # flows[f]
      PROVE  /\ flows'[f].code \in 1..Len(codes') /\ codes'[flows'[f].code].flow = f
             /\ flows'[f].expires = codes'[flows'[f].code].at + CodeTtl
  <2> DEFINE code == [flow |-> f, at |-> now]
  <2>1. code \in [flow : Flows, at : Nat] /\ codes \in Seq([flow : Flows, at : Nat])
    BY DEF IInv, TypeOK
  <2>2. /\ codes' = Append(codes, code) /\ flows'[f].code = Len(codes) + 1
        /\ flows'[f].expires = now + CodeTtl
    BY <1>2, MarkedFlow
  <2>3. code.flow = f /\ code.at = now
    OBVIOUS
  <2> HIDE DEF code
  <2>4. /\ Len(codes) \in Nat /\ Len(codes') = Len(codes) + 1
        /\ codes'[Len(codes) + 1] = code
    BY <2>1, <2>2, Appended
  <2> QED
    BY <2>2, <2>3, <2>4
<1> QED
  BY <1>1, <1>2, NextFlows

LEMMA NextCallbacksServeFlows ==
  ASSUME IInv, Next
  PROVE  CallbacksServeFlows'
<1> SUFFICES ASSUME NEW c \in Callbacks, cb'[c].pc # "idle"
             PROVE  /\ cb'[c].flow \in Flows /\ cb'[c].account \in Accounts
                    /\ cb'[c].account = asked'[cb'[c].flow]
                    /\ cb'[c].pc = "upsert" => cb'[c].grant # None
                    /\ cb'[c].pc = "mark" =>
                         /\ cb'[c].user \in used'
                         /\ \/ tokens'[cb'[c].user] = NoRow
                            \/ tokens'[cb'[c].user].account = cb'[c].account
  BY DEF CallbacksServeFlows, IdOf
<1> DEFINE Goal == /\ cb'[c].flow \in Flows /\ cb'[c].account \in Accounts
                   /\ cb'[c].account = asked'[cb'[c].flow]
                   /\ cb'[c].pc = "upsert" => cb'[c].grant # None
                   /\ cb'[c].pc = "mark" =>
                        /\ cb'[c].user \in used'
                        /\ \/ tokens'[cb'[c].user] = NoRow
                           \/ tokens'[cb'[c].user].account = cb'[c].account
<1> cb \in [Callbacks -> CbLocal] /\ minted \in Nat
  BY DEF IInv, TypeOK
<1>0. cb[c].pc # "idle" => /\ cb[c].flow \in Flows /\ cb[c].account \in Accounts
                           /\ cb[c].account = asked[cb[c].flow]
                           /\ cb[c].pc = "upsert" => cb[c].grant # None
                           /\ cb[c].pc = "mark" => IdOf(cb[c].user, cb[c].account)
  BY DEF IInv, CallbacksServeFlows
<1>1. CASE cb'[c] = cb[c]
  <2>1. asked'[cb[c].flow] = asked[cb[c].flow]
    BY <1>0, <1>1, NextAsked
  <2>2. ASSUME cb[c].pc = "mark"
        PROVE  /\ cb[c].user \in used'
               /\ tokens'[cb[c].user] = NoRow \/ tokens'[cb[c].user].account = cb[c].account
    <3>1. cb[c].user \in Users
      BY <1>0, <2>2 DEF IdOf, IInv, TypeOK
    <3> QED
      BY <1>0, <2>2, <3>1, NextIdOf DEF IdOf
  <2> QED
    BY <1>0, <1>1, <2>1, <2>2
<1>2. ASSUME NEW d \in Callbacks, NEW app \in Apps, NEW f \in Flows, NEW brings,
             CallbackLookup(d, app, f, brings), cb'[c] # cb[c]
      PROVE  Goal
  <2>1. /\ flows[f] # NoFlow /\ UNCHANGED asked
        /\ \E pc \in {"exchange", "reject"} :
              cb'[c] = [CbIdle EXCEPT !.pc = pc, !.flow = f, !.account = flows[f].account]
    BY <1>2 DEF CallbackLookup
  <2>2. flows[f].account = asked[f] /\ flows[f].account \in Accounts
    BY <2>1, FlowType DEF IInv, FlowsAreAsked
  <2> QED
    BY <2>1, <2>2 DEF CbIdle
<1>3. ASSUME NEW d \in Callbacks, ExchangeAnswers(d), cb'[c] # cb[c]
      PROVE  Goal
  <2>1. d = c /\ UNCHANGED asked /\ cb[c].pc = "exchange"
    BY <1>3 DEF ExchangeAnswers, history
  <2>2. \/ cb'[c] = [cb[c] EXCEPT !.pc = "upsert", !.grant = minted + 1]
        \/ cb'[c] = [cb[c] EXCEPT !.pc = "reject"]
    BY <1>3, <2>1 DEF ExchangeAnswers
  <2>3. cb[c] \in CbLocal
    OBVIOUS
  <2>4. minted + 1 # None
    BY DEF None
  <2>5. /\ cb'[c].flow = cb[c].flow /\ cb'[c].account = cb[c].account
        /\ cb'[c].pc \in {"upsert", "reject"}
        /\ cb'[c].pc = "upsert" => cb'[c].grant = minted + 1
    BY <2>2, <2>3 DEF CbLocal
  <2> QED
    BY <1>0, <2>1, <2>4, <2>5
<1>4. ASSUME NEW d \in Callbacks, CallbackUpsert(d), cb'[c] # cb[c]
      PROVE  Goal
  <2>1. PICK u \in Users, row \in Row :
           /\ u \in UpsertIds(tokens, used, cb[d].account)
           /\ row.account = cb[d].account
           /\ tokens' = Upsert(tokens, u, row) /\ used' = used \cup {u}
           /\ cb' = [cb EXCEPT ![d].pc = "mark", ![d].user = u]
           /\ cb[d].account \in Accounts /\ cb[d].account = asked[cb[d].flow]
    BY <1>4, CallbackUpserts
  <2>2. d = c /\ cb[c].pc # "idle"
    BY <1>4, <2>1 DEF CallbackUpsert
  <2>3. tokens \in Table /\ RowsUsed(tokens, used)
    BY DEF IInv, TypeOK
  <2>4. tokens[u] # NoRow => tokens[u].account = cb[c].account
    BY <2>1, <2>2, <2>3 DEF UpsertIds, Holders, RowsUsed
  <2>5. tokens'[u].account = cb[c].account
    BY <2>1, <2>2, <2>3, <2>4, UpsertType
  <2>6. cb'[c] = [cb[c] EXCEPT !.pc = "mark", !.user = u]
    BY <2>1, <2>2
  <2>7. cb'[c].pc = "mark" /\ cb'[c].user = u
        /\ cb'[c].flow = cb[c].flow /\ cb'[c].account = cb[c].account
    BY <2>6 DEF CbLocal
  <2>8. UNCHANGED asked
    BY <1>4 DEF CallbackUpsert, history
  <2> QED
    BY <1>0, <2>1, <2>2, <2>5, <2>7, <2>8
<1>5. ASSUME NEW d \in Callbacks, CallbackReject(d) \/ CallbackMark(d) \/ Disconnect(d)
      PROVE  cb'[c] = cb[c]
  BY <1>5 DEF CallbackReject, CallbackMark, Disconnect, CbIdle
<1>6. CASE Restart
  BY <1>6 DEF Restart, CbIdle
<1>7. CASE UNCHANGED cb
  BY <1>1, <1>7
<1> QED
  BY <1>1, <1>2, <1>3, <1>4, <1>5, <1>6, <1>7
  DEF Next, Callback, Redeem, Authorize, RedeemLookup, RedeemDelete, RedeemGet, RevokeList,
      RevokeDelete, DeleteUser, RotateKey, Tick

\* The flow a code was found with, and what redeeming it reads there.
LEMMA RedeemLooksUp ==
  ASSUME IInv, NEW t \in Redeemers, NEW app, NEW code \in 1..Len(codes), NEW proof,
         RedeemLookup(t, app, code, proof)
  PROVE  \E f \in Flows :
           /\ flows[f] # NoFlow /\ flows[f].code = code /\ code # None
           /\ tk' = [tk EXCEPT ![t] = [pc |-> "delete", flow |-> f, account |-> flows[f].account,
                                       user |-> flows[f].user, expires |-> flows[f].expires,
                                       code |-> code, app |-> app, proof |-> proof, at |-> None]]
           /\ flows[f].account \in Accounts /\ flows[f].account = asked[f]
           /\ codes[code].flow = f /\ flows[f].expires = codes[code].at + CodeTtl
           /\ IdOf(flows[f].user, flows[f].account)
<1>1. PICK f \in Flows :
           /\ flows[f] # NoFlow /\ flows[f].code = code
           /\ tk' = [tk EXCEPT ![t] = [pc |-> "delete", flow |-> f, account |-> flows[f].account,
                                       user |-> flows[f].user, expires |-> flows[f].expires,
                                       code |-> code, app |-> app, proof |-> proof, at |-> None]]
  BY DEF RedeemLookup, WithCode
<1>2. code # None
  BY Appended DEF None
<1>3. flows[f].account \in Accounts /\ flows[f].account = asked[f] /\ flows[f].user \in Users
  BY <1>1, <1>2, FlowType DEF IInv, FlowsAreAsked
<1>4. codes[code].flow = f /\ flows[f].expires = codes[code].at + CodeTtl
  BY <1>1, <1>2 DEF IInv, CodesAreHanded
<1>5. IdOf(flows[f].user, flows[f].account)
  BY <1>1, <1>2, <1>3 DEF IInv, IssuedFlowHasItsUser, RowsUsed, IdOf
<1> QED
  BY <1>1, <1>2, <1>3, <1>4, <1>5

LEMMA NextRedeemersServeCodes ==
  ASSUME IInv, Next
  PROVE  RedeemersServeCodes'
<1> DEFINE Goal(t) ==
      /\ tk'[t].flow \in Flows /\ tk'[t].account \in Accounts
      /\ tk'[t].account = asked'[tk'[t].flow]
      /\ tk'[t].code \in 1..Len(codes') /\ codes'[tk'[t].code].flow = tk'[t].flow
      /\ tk'[t].expires = codes'[tk'[t].code].at + CodeTtl
      /\ tk'[t].user \in used'
      /\ tokens'[tk'[t].user] = NoRow \/ tokens'[tk'[t].user].account = tk'[t].account
      /\ tk'[t].pc = "get" => tk'[t].at < tk'[t].expires
<1> SUFFICES ASSUME NEW t \in Redeemers, tk'[t].pc # "idle"
             PROVE  Goal(t)
  BY DEF RedeemersServeCodes, IdOf
<1> tk \in [Redeemers -> TkLocal] /\ now \in Nat /\ used \subseteq Users
  BY DEF IInv, TypeOK
<1>1. ASSUME tk[t].pc # "idle", tk'[t].flow = tk[t].flow, tk'[t].account = tk[t].account,
             tk'[t].code = tk[t].code, tk'[t].expires = tk[t].expires, tk'[t].user = tk[t].user,
             tk'[t].pc = "get" => tk'[t].at < tk'[t].expires
      PROVE  Goal(t)
  <2>1. /\ tk[t].flow \in Flows /\ tk[t].account \in Accounts
        /\ tk[t].account = asked[tk[t].flow]
        /\ tk[t].code \in 1..Len(codes) /\ codes[tk[t].code].flow = tk[t].flow
        /\ tk[t].expires = codes[tk[t].code].at + CodeTtl
        /\ IdOf(tk[t].user, tk[t].account)
    BY <1>1 DEF IInv, RedeemersServeCodes
  <2>2. asked'[tk[t].flow] = asked[tk[t].flow]
    BY <2>1, NextAsked
  <2>3. tk[t].code \in 1..Len(codes') /\ codes'[tk[t].code] = codes[tk[t].code]
    BY <2>1, NextCodes
  <2>4. /\ tk[t].user \in used'
        /\ tokens'[tk[t].user] = NoRow \/ tokens'[tk[t].user].account = tk[t].account
    <3>1. tk[t].user \in Users
      BY <2>1 DEF IdOf
    <3> QED
      BY <2>1, <3>1, NextIdOf DEF IdOf
  <2> QED
    BY <1>1, <2>1, <2>2, <2>3, <2>4
<1>2. CASE tk'[t] = tk[t]
  <2>1. tk'[t].pc = "get" => tk'[t].at < tk'[t].expires
    BY <1>2 DEF IInv, RedeemersServeCodes
  <2> QED
    BY <1>1, <1>2, <2>1
<1>3. ASSUME NEW q \in Redeemers, NEW app, NEW code \in 1..Len(codes), NEW proof,
             RedeemLookup(q, app, code, proof), tk'[t] # tk[t]
      PROVE  Goal(t)
  <2>1. PICK f \in Flows :
           /\ flows[f] # NoFlow
           /\ tk' = [tk EXCEPT ![q] = [pc |-> "delete", flow |-> f, account |-> flows[f].account,
                                       user |-> flows[f].user, expires |-> flows[f].expires,
                                       code |-> code, app |-> app, proof |-> proof, at |-> None]]
           /\ flows[f].account \in Accounts /\ flows[f].account = asked[f]
           /\ codes[code].flow = f /\ flows[f].expires = codes[code].at + CodeTtl
           /\ IdOf(flows[f].user, flows[f].account)
    BY <1>3, RedeemLooksUp
  <2>2. q = t
    BY <1>3, <2>1
  <2>3. tk'[t] = [pc |-> "delete", flow |-> f, account |-> flows[f].account,
                  user |-> flows[f].user, expires |-> flows[f].expires,
                  code |-> code, app |-> app, proof |-> proof, at |-> None]
    BY <2>1, <2>2
  <2>4. UNCHANGED <<asked, codes, tokens, used>>
    BY <1>3 DEF RedeemLookup, db, history
  <2> QED
    BY <2>1, <2>3, <2>4 DEF IdOf
<1>4. ASSUME NEW q \in Redeemers, RedeemDelete(q), tk'[t] # tk[t]
      PROVE  Goal(t)
  <2>1. q = t /\ tk[t].pc = "delete"
    BY <1>4 DEF RedeemDelete
  <2>2. tk'[t] = [tk[t] EXCEPT !.pc = "get", !.at = now] /\ tk[t].expires > now
    BY <1>4, <2>1 DEF RedeemDelete, RedeemOK, TkIdle
  <2>3. tk[t] \in TkLocal
    OBVIOUS
  <2>4. /\ tk'[t].flow = tk[t].flow /\ tk'[t].account = tk[t].account
        /\ tk'[t].code = tk[t].code /\ tk'[t].expires = tk[t].expires /\ tk'[t].user = tk[t].user
        /\ tk'[t].at = now /\ tk[t].expires \in Nat
    BY <2>2, <2>3 DEF TkLocal
  <2>5. tk'[t].at < tk'[t].expires
    BY <2>2, <2>4
  <2> QED
    BY <1>1, <2>1, <2>4, <2>5
<1>5. ASSUME NEW q \in Redeemers, RedeemGet(q)
      PROVE  tk'[t] = tk[t]
  BY <1>5 DEF RedeemGet, TkIdle
<1>6. CASE Restart
  BY <1>6 DEF Restart, TkIdle
<1>7. CASE UNCHANGED tk
  BY <1>2, <1>7
<1> QED
  BY <1>2, <1>3, <1>4, <1>5, <1>6, <1>7
  DEF Next, Callback, Redeem, Authorize, CallbackLookup, CallbackReject, ExchangeAnswers,
      CallbackUpsert, CallbackMark, Disconnect, RevokeList, RevokeDelete, DeleteUser, RotateKey,
      Tick

LEMMA NextRevokersServeApps ==
  ASSUME IInv, Next
  PROVE  RevokersServeApps'
<1> SUFFICES ASSUME NEW v \in Revokers, rv'[v].pc # "idle"
             PROVE  rv'[v].app \in Apps
  BY DEF RevokersServeApps
<1> rv \in [Revokers -> RvLocal]
  BY DEF IInv, TypeOK
<1>1. ASSUME NEW w \in Revokers, NEW app \in Apps, NEW access, RevokeList(w, app, access)
      PROVE  rv'[v].app \in Apps
  BY <1>1 DEF RevokeList, IInv, RevokersServeApps
<1>2. ASSUME NEW w \in Revokers, RevokeDelete(w)
      PROVE  rv'[v].app \in Apps
  BY <1>2 DEF RevokeDelete, RvIdle, IInv, RevokersServeApps
<1>3. CASE Restart
  BY <1>3 DEF Restart, RvIdle
<1>4. CASE UNCHANGED rv
  BY <1>4 DEF IInv, RevokersServeApps
<1> QED
  BY <1>1, <1>2, <1>3, <1>4
  DEF Next, Callback, Redeem, Authorize, CallbackLookup, CallbackReject, ExchangeAnswers,
      CallbackUpsert, CallbackMark, Disconnect, RedeemLookup, RedeemDelete, RedeemGet, DeleteUser,
      RotateKey, Tick

\* The answers of /oauth/token, and what the handler knew when it gave one.
LEMMA RedeemAnswers ==
  ASSUME IInv, NEW t \in Redeemers, RedeemGet(t)
  PROVE  \/ redeemed' = redeemed
         \/ \E row \in Row :
              /\ tk[t].user \in Users /\ tokens[tk[t].user] = row /\ row # NoRow
              /\ row.account = tk[t].account
              /\ redeemed' = Append(redeemed, [code |-> tk[t].code, account |-> row.account,
                                               access |-> row.access, at |-> tk[t].at])
<1> DEFINE row == GetToken(tokens, AppOf[tk[t].account], tk[t].user)
<1>1. /\ tk[t].user \in Users
      /\ tokens[tk[t].user] = NoRow \/ tokens[tk[t].user].account = tk[t].account
  BY DEF RedeemGet, IInv, RedeemersServeCodes, IdOf, TypeOK
<1>2. CASE row = NoRow
  BY <1>2 DEF RedeemGet
<1>3. CASE row # NoRow
  <2>0. tokens \in Table
    BY DEF IInv, TypeOK
  <2>1. tokens[tk[t].user] = row /\ row \in Row
    BY <1>1, <1>3, <2>0 DEF GetToken, Table
  <2>2. redeemed' = Append(redeemed, [code |-> tk[t].code, account |-> row.account,
                                      access |-> row.access, at |-> tk[t].at])
    BY <1>3 DEF RedeemGet
  <2>3. row.account = tk[t].account
    BY <1>1, <1>3, <2>1
  <2> HIDE DEF row
  <2> QED
    BY <1>1, <1>3, <2>1, <2>2, <2>3
<1> QED
  BY <1>2, <1>3

LEMMA NextAnswersMatchCodes ==
  ASSUME IInv, Next
  PROVE  AnswersMatchCodes'
<1> DEFINE Answer == [code : Nat, account : Accounts, access : Nat, at : Nat]
           Good(a) == /\ a.code \in 1..Len(codes') /\ codes'[a.code].flow \in Flows
                      /\ a.account = asked'[codes'[a.code].flow]
                      /\ a.at < codes'[a.code].at + CodeTtl
<1> redeemed \in Seq(Answer) /\ tk \in [Redeemers -> TkLocal]
  BY DEF IInv, TypeOK
<1>1. ASSUME NEW i \in 1..Len(redeemed)
      PROVE  Good(redeemed[i])
  <2> DEFINE a == redeemed[i]
  <2>1. /\ a.code \in 1..Len(codes) /\ codes[a.code].flow \in Flows
        /\ a.account = asked[codes[a.code].flow]
        /\ a.at < codes[a.code].at + CodeTtl
    BY DEF IInv, AnswersMatchCodes
  <2>2. a.account \in Accounts
    <3>1. a \in Answer
      BY ElementOfSeq
    <3> QED
      BY <3>1
  <2> HIDE DEF a
  <2>3. asked'[codes[a.code].flow] = asked[codes[a.code].flow]
    BY <2>1, <2>2, NextAsked
  <2>4. a.code \in 1..Len(codes') /\ codes'[a.code] = codes[a.code]
    BY <2>1, NextCodes
  <2>5. Good(a)
    BY <2>1, <2>3, <2>4
  <2> QED
    BY <2>5 DEF a
<1>2. ASSUME NEW t \in Redeemers, RedeemGet(t), redeemed' # redeemed
      PROVE  \A i \in 1..Len(redeemed') : Good(redeemed'[i])
  <2>1. PICK row \in Row :
          /\ row.account = tk[t].account
          /\ redeemed' = Append(redeemed, [code |-> tk[t].code, account |-> row.account,
                                           access |-> row.access, at |-> tk[t].at])
    BY <1>2, RedeemAnswers
  <2> DEFINE new == [code |-> tk[t].code, account |-> row.account,
                     access |-> row.access, at |-> tk[t].at]
  <2>2. new \in Answer
    BY DEF Row, TkLocal
  <2>3. Good(new)
    <3>1. /\ tk[t].flow \in Flows /\ tk[t].account = asked[tk[t].flow]
          /\ tk[t].code \in 1..Len(codes) /\ codes[tk[t].code].flow = tk[t].flow
          /\ tk[t].expires = codes[tk[t].code].at + CodeTtl
          /\ tk[t].at < tk[t].expires
      BY <1>2 DEF RedeemGet, IInv, RedeemersServeCodes
    <3>2. UNCHANGED <<asked, codes>>
      BY <1>2 DEF RedeemGet
    <3> QED
      BY <2>1, <3>1, <3>2
  <2>4. redeemed' = Append(redeemed, new)
    BY <2>1
  <2> HIDE DEF new, Good
  <2> QED
    BY <1>1, <2>2, <2>3, <2>4, Appended
<1> HIDE DEF Good, Answer
<1>3. redeemed' = redeemed \/ \E t \in Redeemers : RedeemGet(t)
  BY DEF Next, Callback, Redeem, Authorize, CallbackLookup, CallbackReject, ExchangeAnswers,
         CallbackUpsert, CallbackMark, Disconnect, RedeemLookup, RedeemDelete, RevokeList,
         RevokeDelete, DeleteUser, RotateKey, Restart, Tick, history
<1>4. \A i \in 1..Len(redeemed') : Good(redeemed'[i])
  BY <1>1, <1>2, <1>3
<1> QED
  BY <1>4 DEF AnswersMatchCodes, Good

-----------------------------------------------------------------------------
(* The theorems *)

LEMMA InitInv == Init => IInv
<1> SUFFICES ASSUME Init PROVE IInv
  OBVIOUS
<1>1. OneRowPerAccount(tokens) /\ RowsUsed(tokens, used)
  BY EmptyIds DEF Init
<1>2. \A f \in Flows : flows[f] = NoFlow
  BY DEF Init
<1>3. /\ \A c \in Callbacks : cb[c].pc = "idle"
      /\ \A t \in Redeemers : tk[t].pc = "idle"
      /\ \A v \in Revokers : rv[v].pc = "idle"
  BY DEF Init, CbIdle, TkIdle, RvIdle
<1>4. AnswersMatchCodes
  <2>1. 1..Len(redeemed) = {}
    BY DEF Init
  <2> QED
    BY <2>1 DEF AnswersMatchCodes
<1> QED
  BY <1>1, <1>2, <1>3, <1>4, InitType
  DEF IInv, FlowsAreAsked, IssuedFlowHasItsUser, CodesAreHanded, CallbacksServeFlows,
      RedeemersServeCodes, RevokersServeApps

LEMMA NextInv == IInv /\ [Next]_vars => IInv'
<1> SUFFICES ASSUME IInv, [Next]_vars PROVE IInv'
  OBVIOUS
<1>1. CASE Next
  BY <1>1, NextType, NextIds, NextFlowsAreAsked, NextIssuedFlows, NextCodesAreHanded,
     NextCallbacksServeFlows, NextRedeemersServeCodes, NextRevokersServeApps,
     NextAnswersMatchCodes DEF IInv
<1>2. CASE UNCHANGED vars
  BY <1>2 DEF vars, db, history, IInv, TypeOK, OneRowPerAccount, RowsUsed, FlowsAreAsked,
              IssuedFlowHasItsUser, CodesAreHanded, CallbacksServeFlows, RedeemersServeCodes,
              RevokersServeApps, AnswersMatchCodes, IdOf
<1> QED
  BY <1>1, <1>2

\* The invariant holds in every behaviour of the four facade handlers and of
\* what deletes rows around them.
THEOREM Invariance == Spec => []IInv
BY InitInv, NextInv, PTL DEF Spec

\* Every variable keeps its type, whatever callers and environment do.
THEOREM TypeCorrect == Spec => []TypeOK
<1>1. IInv => TypeOK
  BY DEF IInv
<1> QED
  BY <1>1, Invariance, PTL

\* A stored code always names an existing user of the account its authorization
\* asked for, whatever is deleted, rotated, revoked or logged in meanwhile
\* (oauth_flows.token_id and its cascade).
THEOREM CodesNameTheirUser == Spec => []IssuedFlowHasItsUser
<1>1. IInv => IssuedFlowHasItsUser
  BY DEF IInv
<1> QED
  BY <1>1, Invariance, PTL

\* However many calls redeem codes at once, /oauth/token answers the account
\* that was asked for (authorize, callback, token).
THEOREM RedeemsTheOwnAccount == Spec => []RedeemsOwnAccount
<1>1. IInv => RedeemsOwnAccount
  <2>1. TypeOK => DOMAIN redeemed = 1..Len(redeemed)
    BY LenProperties DEF TypeOK
  <2> QED
    BY <2>1 DEF IInv, AnswersMatchCodes, RedeemsOwnAccount
<1> QED
  BY <1>1, Invariance, PTL

\* No code is accepted after its lifetime, even one whose flow was issued a
\* second code meanwhile (mark_flow_issued, token).
THEOREM CodesExpire == Spec => []CodeExpires
<1>1. IInv => CodeExpires
  <2>1. TypeOK => DOMAIN redeemed = 1..Len(redeemed)
    BY LenProperties DEF TypeOK
  <2> QED
    BY <2>1 DEF IInv, AnswersMatchCodes, CodeExpires
<1> QED
  BY <1>1, Invariance, PTL

\* Authorizations, redemptions, revocations, deletions and rotations implement
\* the abstract user ids: each is a step of UserIds or a stutter.
THEOREM OauthImplementsUserIds == Spec => ImplementsUserIds
<1>1. Init => Ids!Init
  BY EmptyIds DEF Init, Ids!Init
<1>2. IInv /\ [Next]_vars => [Ids!Next]_(Ids!vars)
  <2>1. IInv /\ UNCHANGED vars => UNCHANGED Ids!vars
    BY DEF vars, db, Ids!vars
  <2> QED
    BY <2>1, NextIds
<1> QED
  BY <1>1, <1>2, Invariance, PTL DEF Spec, ImplementsUserIds, Ids!Spec

-----------------------------------------------------------------------------
(* Single use *)

\* A flow never gets a code back that it no longer has.
LEMMA NoCodeReturns ==
  ASSUME IInv, Next, NEW n \in 1..Len(codes),
         \A f \in Flows : flows[f] # NoFlow => flows[f].code # n
  PROVE  \A f \in Flows : flows'[f] # NoFlow => flows'[f].code # n
<1> SUFFICES ASSUME NEW f \in Flows, flows'[f] # NoFlow
             PROVE  flows'[f].code # n
  OBVIOUS
<1>1. n # None /\ n # Len(codes) + 1
  BY Appended DEF IInv, TypeOK, None
<1>2. ASSUME NEW c \in Callbacks, CallbackMark(c), cb[c].flow = f
      PROVE  flows'[f].code # n
  BY <1>1, <1>2, MarkedFlow
<1> QED
  BY <1>1, <1>2, NextFlows

\* The code of a redeemer that goes on to serve it.
LEMMA NextServedCode ==
  ASSUME IInv, Next, NEW t \in Redeemers, tk'[t].pc # "idle"
  PROVE  \/ tk[t].pc # "idle" /\ tk'[t].code = tk[t].code
         \/ \E f \in Flows : flows[f] # NoFlow /\ tk'[t].code = flows[f].code
<1> tk \in [Redeemers -> TkLocal]
  BY DEF IInv, TypeOK
<1>1. ASSUME NEW q \in Redeemers, NEW app, NEW code \in 1..Len(codes), NEW proof,
             RedeemLookup(q, app, code, proof)
      PROVE  \/ tk'[t] = tk[t]
             \/ \E f \in Flows : flows[f] # NoFlow /\ tk'[t].code = flows[f].code
  <2>1. PICK f \in Flows :
           /\ flows[f] # NoFlow /\ flows[f].code = code
           /\ tk' = [tk EXCEPT ![q] = [pc |-> "delete", flow |-> f, account |-> flows[f].account,
                                       user |-> flows[f].user, expires |-> flows[f].expires,
                                       code |-> code, app |-> app, proof |-> proof, at |-> None]]
    BY <1>1, RedeemLooksUp
  <2>2. tk'[t] = tk[t] \/ tk'[t].code = code
    BY <2>1
  <2> QED
    BY <2>1, <2>2
<1>2. ASSUME NEW q \in Redeemers, RedeemDelete(q)
      PROVE  tk'[t] = tk[t] \/ (tk[t].pc # "idle" /\ tk'[t].code = tk[t].code)
  <2>1. \/ tk'[t] = tk[t]
        \/ tk[t].pc = "delete" /\ tk'[t] = [tk[t] EXCEPT !.pc = "get", !.at = now]
    BY <1>2 DEF RedeemDelete, TkIdle
  <2> QED
    BY <2>1 DEF TkLocal
<1>3. ASSUME NEW q \in Redeemers, RedeemGet(q)
      PROVE  tk'[t] = tk[t]
  BY <1>3 DEF RedeemGet, TkIdle
<1>4. CASE Restart
  BY <1>4 DEF Restart, TkIdle
<1>5. CASE UNCHANGED tk
  BY <1>5
<1> QED
  BY <1>1, <1>2, <1>3, <1>4, <1>5
  DEF Next, Callback, Redeem, Authorize, CallbackLookup, CallbackReject, ExchangeAnswers,
      CallbackUpsert, CallbackMark, Disconnect, RevokeList, RevokeDelete, DeleteUser, RotateKey,
      Tick

LEMMA NextTakenIsGone ==
  ASSUME IInv, TakenIsGone, Next
  PROVE  TakenIsGone'
<1> SUFFICES ASSUME NEW t \in Redeemers, tk'[t].pc = "get"
             PROVE  \A f \in Flows : flows'[f] # NoFlow => flows'[f].code # tk'[t].code
  BY DEF TakenIsGone
<1> tk \in [Redeemers -> TkLocal] /\ flows \in [Flows -> Pending \cup Issued \cup {NoFlow}]
  BY DEF IInv, TypeOK
<1>1. CASE tk'[t] = tk[t]
  <2>1. \A f \in Flows : flows[f] # NoFlow => flows[f].code # tk[t].code
    BY <1>1 DEF TakenIsGone
  <2>2. tk[t].code \in 1..Len(codes)
    BY <1>1 DEF IInv, RedeemersServeCodes
  <2> QED
    BY <1>1, <2>1, <2>2, NoCodeReturns
<1>2. ASSUME NEW q \in Redeemers, RedeemDelete(q), tk'[t] # tk[t]
      PROVE  \A f \in Flows : flows'[f] # NoFlow => flows'[f].code # tk'[t].code
  <2>1. tk[t].pc = "delete" /\ flows' = DeleteFlow(flows, tk[t].flow)
    BY <1>2 DEF RedeemDelete
  <2>2. tk'[t] = [tk[t] EXCEPT !.pc = "get", !.at = now]
    BY <1>2 DEF RedeemDelete, TkIdle
  <2>3. tk'[t].code = tk[t].code
    BY <2>2 DEF TkLocal
  <2>4. tk[t].code \in 1..Len(codes) /\ codes[tk[t].code].flow = tk[t].flow
    BY <2>1 DEF IInv, RedeemersServeCodes
  <2>5. tk[t].code # None
    BY <2>4 DEF None
  <2>6. \A f \in Flows \ {tk[t].flow} : flows[f] # NoFlow => flows[f].code # tk[t].code
    BY <2>4, <2>5 DEF IInv, CodesAreHanded
  <2> QED
    BY <2>1, <2>3, <2>6 DEF DeleteFlow
<1>3. ASSUME NEW q \in Redeemers, NEW app, NEW code, NEW proof, RedeemLookup(q, app, code, proof)
      PROVE  tk'[t] = tk[t]
  BY <1>3 DEF RedeemLookup
<1>4. ASSUME NEW q \in Redeemers, RedeemGet(q)
      PROVE  tk'[t] = tk[t]
  BY <1>4 DEF RedeemGet, TkIdle
<1>5. CASE Restart
  BY <1>5 DEF Restart, TkIdle
<1>6. CASE UNCHANGED tk
  BY <1>1, <1>6
<1> QED
  BY <1>1, <1>2, <1>3, <1>4, <1>5, <1>6
  DEF Next, Callback, Redeem, Authorize, CallbackLookup, CallbackReject, ExchangeAnswers,
      CallbackUpsert, CallbackMark, Disconnect, RevokeList, RevokeDelete, DeleteUser, RotateKey,
      Tick

\* The answers of /oauth/token: the old ones, and perhaps that of a redeemer.
LEMMA NextRedeemed ==
  ASSUME IInv, Next
  PROVE  \/ redeemed' = redeemed
         \/ \E t \in Redeemers :
              /\ RedeemGet(t) /\ tk[t].pc = "get" /\ tk'[t].pc = "idle"
              /\ Len(redeemed) \in Nat /\ Len(redeemed') = Len(redeemed) + 1
              /\ redeemed'[Len(redeemed) + 1].code = tk[t].code
              /\ \A i \in 1..Len(redeemed) : redeemed'[i] = redeemed[i]
<1> DEFINE Answer == [code : Nat, account : Accounts, access : Nat, at : Nat]
<1> redeemed \in Seq(Answer) /\ tk \in [Redeemers -> TkLocal]
  BY DEF IInv, TypeOK
<1>1. ASSUME NEW t \in Redeemers, RedeemGet(t), redeemed' # redeemed
      PROVE  /\ tk[t].pc = "get" /\ tk'[t].pc = "idle"
             /\ Len(redeemed) \in Nat /\ Len(redeemed') = Len(redeemed) + 1
             /\ redeemed'[Len(redeemed) + 1].code = tk[t].code
             /\ \A i \in 1..Len(redeemed) : redeemed'[i] = redeemed[i]
  <2>1. PICK row \in Row :
          redeemed' = Append(redeemed, [code |-> tk[t].code, account |-> row.account,
                                        access |-> row.access, at |-> tk[t].at])
    BY <1>1, RedeemAnswers
  <2> DEFINE new == [code |-> tk[t].code, account |-> row.account,
                     access |-> row.access, at |-> tk[t].at]
  <2>2. new \in Answer /\ new.code = tk[t].code
    BY DEF Row, TkLocal
  <2>3. redeemed' = Append(redeemed, new)
    BY <2>1
  <2>4. tk[t].pc = "get" /\ tk'[t].pc = "idle"
    BY <1>1 DEF RedeemGet, TkIdle
  <2> HIDE DEF new, Answer
  <2> QED
    BY <2>2, <2>3, <2>4, Appended
<1>2. redeemed' = redeemed \/ \E t \in Redeemers : RedeemGet(t)
  BY DEF Next, Callback, Redeem, Authorize, CallbackLookup, CallbackReject, ExchangeAnswers,
         CallbackUpsert, CallbackMark, Disconnect, RedeemLookup, RedeemDelete, RevokeList,
         RevokeDelete, DeleteUser, RotateKey, Restart, Tick, history
<1> HIDE DEF Answer
<1> QED
  BY <1>1, <1>2

LEMMA NextRedeemedIsGone ==
  ASSUME IInv, TakenIsGone, RedeemedIsGone, Next
  PROVE  RedeemedIsGone'
<1> DEFINE Gone(n) == \A f \in Flows : flows'[f] # NoFlow => flows'[f].code # n
<1>1. ASSUME NEW i \in 1..Len(redeemed)
      PROVE  Gone(redeemed[i].code)
  <2>1. redeemed[i].code \in 1..Len(codes)
    BY DEF IInv, AnswersMatchCodes
  <2>2. \A f \in Flows : flows[f] # NoFlow => flows[f].code # redeemed[i].code
    BY DEF RedeemedIsGone
  <2> QED
    BY <2>1, <2>2, NoCodeReturns
<1>2. ASSUME NEW t \in Redeemers, RedeemGet(t), tk[t].pc = "get"
      PROVE  Gone(tk[t].code)
  BY <1>2 DEF RedeemGet, db, TakenIsGone
<1> HIDE DEF Gone
<1>3. CASE redeemed' = redeemed
  <2>1. \A i \in 1..Len(redeemed') : Gone(redeemed'[i].code)
    BY <1>1, <1>3
  <2> QED
    BY <2>1 DEF RedeemedIsGone, Gone
<1>4. CASE redeemed' # redeemed
  <2>1. PICK t \in Redeemers :
          /\ RedeemGet(t) /\ tk[t].pc = "get"
          /\ Len(redeemed) \in Nat /\ Len(redeemed') = Len(redeemed) + 1
          /\ redeemed'[Len(redeemed) + 1].code = tk[t].code
          /\ \A i \in 1..Len(redeemed) : redeemed'[i] = redeemed[i]
    BY <1>4, NextRedeemed
  <2>2. ASSUME NEW i \in 1..Len(redeemed') PROVE Gone(redeemed'[i].code)
    <3>1. CASE i \in 1..Len(redeemed)
      BY <1>1, <2>1, <3>1
    <3>2. CASE i = Len(redeemed) + 1
      BY <1>2, <2>1, <3>2
    <3> QED
      BY <2>1, <3>1, <3>2
  <2> QED
    BY <2>2 DEF RedeemedIsGone, Gone
<1> QED
  BY <1>3, <1>4

\* Once a call of /oauth/token has deleted the flow of a code, no other call can
\* find that code, however many are under way and whatever states come back: what
\* is left is those that had read it by then (token: "Single-use regardless of
\* outcome below").
RedeemedCodeIsGone ==
  \A n \in DOMAIN codes :
    WithCode(flows, n) # {} =>
      /\ \A i \in DOMAIN redeemed : redeemed[i].code # n
      /\ \A t \in Redeemers : tk[t].pc = "get" => tk[t].code # n

\* For any number of overlapping calls of /oauth/token: a code whose flow one of
\* them has deleted is not found by another (oauth_handlers.rs, token).
THEOREM RedeemedCodesAreGone == Spec => []RedeemedCodeIsGone
<1> DEFINE GoneInv == IInv /\ TakenIsGone /\ RedeemedIsGone
<1>1. Init => GoneInv
  <2> SUFFICES ASSUME Init PROVE GoneInv
    OBVIOUS
  <2>1. 1..Len(redeemed) = {} /\ \A t \in Redeemers : tk[t].pc = "idle"
    BY DEF Init, TkIdle
  <2> QED
    BY <2>1, InitInv DEF TakenIsGone, RedeemedIsGone
<1>2. GoneInv /\ [Next]_vars => GoneInv'
  <2>1. GoneInv /\ Next => GoneInv'
    BY NextInv, NextTakenIsGone, NextRedeemedIsGone
  <2>2. GoneInv /\ UNCHANGED vars => GoneInv'
    <3>1. IInv /\ UNCHANGED vars => IInv'
      BY NextInv
    <3> QED
      BY <3>1 DEF vars, db, history, TakenIsGone, RedeemedIsGone
  <2> QED
    BY <2>1, <2>2
<1>3. GoneInv => RedeemedCodeIsGone
  <2>1. IInv => DOMAIN redeemed = 1..Len(redeemed)
    BY LenProperties DEF IInv, TypeOK
  <2> QED
    BY <2>1 DEF TakenIsGone, RedeemedIsGone, RedeemedCodeIsGone, WithCode
<1> HIDE DEF GoneInv
<1> QED
  BY <1>1, <1>2, <1>3, PTL DEF Spec

\* No two redeemers have read a code whose flow neither has deleted.
ReadsAlone ==
  \A s, t \in Redeemers :
    s # t /\ tk[s].pc = "delete" /\ tk[t].pc = "delete" => tk[s].code # tk[t].code

LEMMA NextTakersAreAlone ==
  ASSUME IInv, TakenIsGone, TakersAreAlone, ReadsAlone, Next
  PROVE  TakersAreAlone'
<1> SUFFICES ASSUME NEW s \in Redeemers, NEW t \in Redeemers, s # t,
                    tk'[s].pc # "idle", tk'[t].pc = "get", tk'[s].code = tk'[t].code
             PROVE  FALSE
  BY DEF TakersAreAlone
<1> tk \in [Redeemers -> TkLocal]
  BY DEF IInv, TypeOK
<1>1. \A q \in Redeemers : tk[q].pc \in {"idle", "delete", "get"}
  BY DEF TkLocal
<1>2. CASE tk[t].pc = "get" /\ tk'[t].code = tk[t].code
  <2>1. tk[s].pc # "idle" => tk[s].code # tk[t].code
    BY <1>2 DEF TakersAreAlone
  <2>2. \A f \in Flows : flows[f] # NoFlow => flows[f].code # tk[t].code
    BY <1>2 DEF TakenIsGone
  <2> QED
    BY <1>2, <2>1, <2>2, NextServedCode
<1>3. ASSUME RedeemDelete(t), tk[t].pc = "delete", tk'[s] = tk[s], tk'[t].code = tk[t].code
      PROVE  FALSE
  BY <1>1, <1>3 DEF TakersAreAlone, ReadsAlone
<1>4. ASSUME NEW q \in Redeemers, RedeemDelete(q)
      PROVE  FALSE
  <2>1. CASE q = t
    <3>1. tk'[t] = [tk[t] EXCEPT !.pc = "get", !.at = now]
      BY <1>4, <2>1 DEF RedeemDelete, TkIdle
    <3>2. tk'[t].code = tk[t].code
      BY <3>1 DEF TkLocal
    <3> QED
      BY <1>3, <1>4, <2>1, <3>2 DEF RedeemDelete
  <2>2. CASE q # t
    <3>1. tk'[t] = tk[t]
      BY <1>4, <2>2 DEF RedeemDelete
    <3> QED
      BY <1>2, <3>1
  <2> QED
    BY <2>1, <2>2
<1>5. CASE tk'[t] = tk[t]
  BY <1>2, <1>5
<1>6. ASSUME NEW q \in Redeemers, NEW app, NEW code, NEW proof, RedeemLookup(q, app, code, proof)
      PROVE  tk'[t] = tk[t]
  BY <1>6 DEF RedeemLookup
<1>7. ASSUME NEW q \in Redeemers, RedeemGet(q)
      PROVE  tk'[t] = tk[t]
  BY <1>7 DEF RedeemGet, TkIdle
<1>8. CASE Restart
  BY <1>8 DEF Restart, TkIdle
<1>9. CASE UNCHANGED tk
  BY <1>5, <1>9
<1> QED
  BY <1>4, <1>5, <1>6, <1>7, <1>8, <1>9
  DEF Next, Callback, Redeem, Authorize, CallbackLookup, CallbackReject, ExchangeAnswers,
      CallbackUpsert, CallbackMark, Disconnect, RevokeList, RevokeDelete, DeleteUser, RotateKey,
      Tick

LEMMA NextRedeemedIsSpent ==
  ASSUME IInv, RedeemedIsGone, TakersAreAlone, RedeemedIsSpent, Next
  PROVE  RedeemedIsSpent'
<1> DEFINE Spent(n) == \A t \in Redeemers : tk'[t].pc # "idle" => tk'[t].code # n
<1>1. ASSUME NEW i \in 1..Len(redeemed)
      PROVE  Spent(redeemed[i].code)
  BY NextServedCode DEF RedeemedIsSpent, RedeemedIsGone
<1>2. \A i, j \in 1..Len(redeemed) : redeemed[i].code = redeemed[j].code => i = j
  BY DEF RedeemedIsSpent
<1>3. ASSUME NEW t \in Redeemers, RedeemGet(t), tk[t].pc = "get", tk'[t].pc = "idle"
      PROVE  Spent(tk[t].code)
  <2>1. \A q \in Redeemers \ {t} : tk'[q] = tk[q]
    BY <1>3 DEF RedeemGet, IInv, TypeOK
  <2> QED
    BY <1>3, <2>1 DEF TakersAreAlone
<1> HIDE DEF Spent
<1>4. CASE redeemed' = redeemed
  <2>1. \A i \in 1..Len(redeemed') : Spent(redeemed'[i].code)
    BY <1>1, <1>4
  <2> QED
    BY <1>2, <1>4, <2>1 DEF RedeemedIsSpent, Spent
<1>5. CASE redeemed' # redeemed
  <2>1. PICK t \in Redeemers :
          /\ RedeemGet(t) /\ tk[t].pc = "get" /\ tk'[t].pc = "idle"
          /\ Len(redeemed) \in Nat /\ Len(redeemed') = Len(redeemed) + 1
          /\ redeemed'[Len(redeemed) + 1].code = tk[t].code
          /\ \A i \in 1..Len(redeemed) : redeemed'[i] = redeemed[i]
    BY <1>5, NextRedeemed
  <2>2. \A i \in 1..Len(redeemed') : i \in 1..Len(redeemed) \/ i = Len(redeemed) + 1
    BY <2>1
  <2>3. \A i \in 1..Len(redeemed) : redeemed[i].code # tk[t].code
    BY <2>1 DEF RedeemedIsSpent
  <2>4. \A i \in 1..Len(redeemed') : Spent(redeemed'[i].code)
    BY <1>1, <1>3, <2>1, <2>2
  <2>5. \A i, j \in 1..Len(redeemed') : redeemed'[i].code = redeemed'[j].code => i = j
    BY <1>2, <2>1, <2>2, <2>3
  <2> QED
    BY <2>4, <2>5 DEF RedeemedIsSpent, Spent
<1> QED
  BY <1>4, <1>5

\* Calls of /oauth/token may overlap in every way but one: unless two of them
\* have both read a code before either has deleted its flow, no code is answered
\* twice, not even one whose flow a replayed state issued a second code for.  The
\* window between get_flow_by_code and delete_flow is all that is wrong.
THEOREM CodesAreSingleUse == Spec /\ []ReadsAlone => []CodeIsSingleUse
<1> DEFINE SInv == /\ IInv /\ TakenIsGone /\ RedeemedIsGone
                   /\ TakersAreAlone /\ RedeemedIsSpent
<1>1. Init => SInv
  <2> SUFFICES ASSUME Init PROVE SInv
    OBVIOUS
  <2>1. 1..Len(redeemed) = {} /\ \A t \in Redeemers : tk[t].pc = "idle"
    BY DEF Init, TkIdle
  <2> QED
    BY <2>1, InitInv DEF TakenIsGone, RedeemedIsGone, TakersAreAlone, RedeemedIsSpent
<1>2. SInv /\ ReadsAlone /\ [Next]_vars => SInv'
  <2>1. SInv /\ ReadsAlone /\ Next => SInv'
    BY NextInv, NextTakenIsGone, NextRedeemedIsGone, NextTakersAreAlone, NextRedeemedIsSpent
  <2>2. SInv /\ UNCHANGED vars => SInv'
    <3>1. IInv /\ UNCHANGED vars => IInv'
      BY NextInv
    <3> QED
      BY <3>1 DEF vars, db, history, TakenIsGone, RedeemedIsGone, TakersAreAlone, RedeemedIsSpent
  <2> QED
    BY <2>1, <2>2
<1>3. SInv => CodeIsSingleUse
  <2>1. IInv => DOMAIN redeemed = 1..Len(redeemed)
    BY LenProperties DEF IInv, TypeOK
  <2> QED
    BY <2>1 DEF RedeemedIsSpent, CodeIsSingleUse
<1> HIDE DEF SInv
<1> QED
  BY <1>1, <1>2, <1>3, PTL DEF Spec

-----------------------------------------------------------------------------
(* Revocation *)

\* A row is an old one, or carries the grant of the callback that wrote it.
LEMMA NextRows ==
  ASSUME IInv, Next, NEW u \in Users, tokens'[u] # NoRow
  PROVE  \/ tokens'[u] = tokens[u]
         \/ \E c \in Callbacks : /\ CallbackUpsert(c) /\ cb[c].pc = "upsert"
                                 /\ tokens'[u].access = cb[c].grant
                                 /\ \A v \in Users \ {u} : tokens'[v] = tokens[v]
<1>1. ASSUME NEW c \in Callbacks, CallbackUpsert(c)
      PROVE  \/ tokens'[u] = tokens[u]
             \/ /\ cb[c].pc = "upsert" /\ tokens'[u].access = cb[c].grant
                /\ \A v \in Users \ {u} : tokens'[v] = tokens[v]
  <2>1. PICK w \in Users, row \in Row :
           /\ row.access = cb[c].grant
           /\ tokens' = Upsert(tokens, w, row)
    BY <1>1, CallbackUpserts
  <2>2. tokens \in Table
    BY DEF IInv, TypeOK
  <2>3. \A v \in Users \ {w} : tokens'[v] = tokens[v]
    BY <2>1, <2>2 DEF Upsert, Table
  <2>4. tokens'[w] = UpsertedRow(tokens[w], row)
    BY <2>1, <2>2 DEF Upsert, Table
  <2>5. tokens'[w].access = cb[c].grant
    BY <2>1, <2>4 DEF UpsertedRow, Row
  <2> QED
    BY <1>1, <2>3, <2>5 DEF CallbackUpsert
<1> QED
  BY <1>1, NextTokens

\* Nobody learns of a grant but through a callback that stores it.
LEMMA NextSeen ==
  ASSUME IInv, Next, NEW g, Seen(g)'
  PROVE  Seen(g) \/ \E c \in Callbacks : /\ CallbackUpsert(c) /\ cb[c].pc = "upsert"
                                         /\ cb[c].grant = g
<1>1. ASSUME NEW u \in Users, tokens'[u] # NoRow, tokens'[u].access = g
      PROVE  Seen(g) \/ \E c \in Callbacks : /\ CallbackUpsert(c) /\ cb[c].pc = "upsert"
                                             /\ cb[c].grant = g
  <2>1. CASE tokens'[u] = tokens[u]
    BY <1>1, <2>1 DEF Seen
  <2> QED
    BY <1>1, <2>1, NextRows
<1>2. ASSUME NEW i \in 1..Len(redeemed'), redeemed'[i].access = g
      PROVE  Seen(g)
  <2> DEFINE Answer == [code : Nat, account : Accounts, access : Nat, at : Nat]
  <2> redeemed \in Seq(Answer) /\ tk \in [Redeemers -> TkLocal]
    BY DEF IInv, TypeOK
  <2>1. CASE redeemed' = redeemed
    BY <1>2, <2>1 DEF Seen
  <2>2. ASSUME NEW t \in Redeemers, RedeemGet(t), redeemed' # redeemed
        PROVE  Seen(g)
    <3>1. PICK row \in Row :
            /\ tk[t].user \in Users /\ tokens[tk[t].user] = row /\ row # NoRow
            /\ redeemed' = Append(redeemed, [code |-> tk[t].code, account |-> row.account,
                                             access |-> row.access, at |-> tk[t].at])
      BY <2>2, RedeemAnswers
    <3> DEFINE new == [code |-> tk[t].code, account |-> row.account,
                       access |-> row.access, at |-> tk[t].at]
    <3>2. new \in Answer /\ new.access = row.access
      BY DEF Row, TkLocal
    <3>3. redeemed' = Append(redeemed, new)
      BY <3>1
    <3> HIDE DEF new, Answer
    <3>4. \/ redeemed'[i].access = row.access
          \/ i \in 1..Len(redeemed) /\ redeemed'[i] = redeemed[i]
      <4>1. /\ Len(redeemed) \in Nat /\ Len(redeemed') = Len(redeemed) + 1
            /\ redeemed'[Len(redeemed) + 1] = new
            /\ \A j \in 1..Len(redeemed) : redeemed'[j] = redeemed[j]
        BY <3>2, <3>3, Appended
      <4>2. \/ i \in 1..Len(redeemed) /\ redeemed'[i] = redeemed[i]
            \/ redeemed'[i] = new
        BY <1>2, <4>1
      <4> QED
        BY <3>2, <4>2
    <3> QED
      BY <1>2, <3>1, <3>4 DEF Seen
  <2>3. redeemed' = redeemed \/ \E t \in Redeemers : RedeemGet(t)
    BY DEF Next, Callback, Redeem, Authorize, CallbackLookup, CallbackReject, ExchangeAnswers,
           CallbackUpsert, CallbackMark, Disconnect, RedeemLookup, RedeemDelete, RevokeList,
           RevokeDelete, DeleteUser, RotateKey, Restart, Tick, history
  <2> QED
    BY <2>1, <2>2, <2>3
<1>3. ASSUME NEW v \in Revokers, NEW app \in Apps, NEW access \in Handed,
             RevokeList(v, app, access)
      PROVE  /\ Seen(access)
             /\ \A w \in Revokers : rv'[w] = rv[w] \/ rv'[w].access = access
             /\ revoked' \subseteq revoked \cup {<<app, access>>}
  <2>1. DOMAIN redeemed = 1..Len(redeemed) /\ rv \in [Revokers -> RvLocal]
    BY LenProperties DEF IInv, TypeOK
  <2>2. Seen(access)
    BY <2>1 DEF Handed, Seen
  <2>3. \A w \in Revokers : rv'[w] = rv[w] \/ rv'[w].access = access
    BY <1>3, <2>1 DEF RevokeList
  <2>4. revoked' \subseteq revoked \cup {<<app, access>>}
    BY <1>3 DEF RevokeList
  <2> QED
    BY <2>2, <2>3, <2>4
<1>4. ASSUME NEW v \in Revokers, RevokeDelete(v)
      PROVE  /\ Seen(rv[v].access)
             /\ \A w \in Revokers : rv'[w] = rv[w] \/ rv'[w].pc = "idle"
             /\ revoked' = revoked \cup {<<rv[v].app, rv[v].access>>}
  <2>1. rv \in [Revokers -> RvLocal]
    BY DEF IInv, TypeOK
  <2> QED
    BY <1>4, <2>1 DEF RevokeDelete, RvIdle, Seen
<1>5. \/ UNCHANGED <<rv, revoked>>
      \/ Restart
      \/ \E v \in Revokers, app \in Apps, access \in Handed : RevokeList(v, app, access)
      \/ \E v \in Revokers : RevokeDelete(v)
  BY DEF Next, Callback, Redeem, Authorize, CallbackLookup, CallbackReject, ExchangeAnswers,
         CallbackUpsert, CallbackMark, Disconnect, RedeemLookup, RedeemDelete, RedeemGet, DeleteUser,
         RotateKey, Tick, history
<1>6. ASSUME NEW v \in Revokers, rv'[v].pc = "delete", rv'[v].access = g
      PROVE  Seen(g)
  <2>1. CASE rv'[v] = rv[v]
    BY <1>6, <2>1 DEF Seen
  <2>2. ~Restart
    BY <1>6 DEF Restart, RvIdle
  <2> QED
    BY <1>3, <1>4, <1>5, <1>6, <2>1, <2>2
<1>7. ASSUME NEW p \in revoked', p[2] = g
      PROVE  Seen(g)
  <2>1. CASE p \in revoked
    BY <1>7, <2>1 DEF Seen
  <2>2. ASSUME NEW app, NEW access, p = <<app, access>>, Seen(access)
        PROVE  Seen(g)
    BY <1>7, <2>2
  <2>3. Restart => revoked' = revoked
    BY DEF Restart, history
  <2> QED
    BY <1>3, <1>4, <1>5, <1>7, <2>1, <2>2, <2>3
<1> QED
  BY <1>1, <1>2, <1>6, <1>7 DEF Seen

\* A grant on its way was on its way before, or the provider has just minted it.
LEMMA NextGrants ==
  ASSUME IInv, Next
  PROVE  /\ minted' \in Nat /\ minted \in Nat /\ minted <= minted'
         /\ \A c \in Callbacks : cb'[c].pc = "upsert" =>
              \/ cb'[c] = cb[c] /\ ~CallbackUpsert(c)
              \/ /\ cb'[c].grant = minted + 1 /\ minted' = minted + 1
                 /\ \A d \in Callbacks \ {c} : cb'[d] = cb[d]
<1> minted \in Nat /\ cb \in [Callbacks -> CbLocal]
  BY DEF IInv, TypeOK
<1>0. \A c \in Callbacks : CallbackUpsert(c) => cb'[c] # cb[c]
  <2> SUFFICES ASSUME NEW c \in Callbacks, CallbackUpsert(c) PROVE cb'[c] # cb[c]
    OBVIOUS
  <2>1. PICK u : cb' = [cb EXCEPT ![c].pc = "mark", ![c].user = u]
    BY CallbackUpserts
  <2>2. cb'[c] = [cb[c] EXCEPT !.pc = "mark", !.user = u]
    BY <2>1
  <2>3. cb'[c].pc = "mark"
    BY <2>2 DEF CbLocal
  <2> QED
    BY <2>3 DEF CallbackUpsert
<1>1. ASSUME NEW d \in Callbacks, ExchangeAnswers(d)
      PROVE  /\ minted' = minted \/ minted' = minted + 1
             /\ \A c \in Callbacks : cb'[c].pc = "upsert" =>
                  \/ cb'[c] = cb[c]
                  \/ /\ cb'[c].grant = minted + 1 /\ minted' = minted + 1
                     /\ \A e \in Callbacks \ {c} : cb'[e] = cb[e]
  <2>1. minted' = minted \/ minted' = minted + 1
    BY <1>1 DEF ExchangeAnswers
  <2>2. \A e \in Callbacks \ {d} : cb'[e] = cb[e]
    BY <1>1 DEF ExchangeAnswers
  <2>3. \/ cb'[d] = [cb[d] EXCEPT !.pc = "upsert", !.grant = minted + 1] /\ minted' = minted + 1
        \/ cb'[d] = [cb[d] EXCEPT !.pc = "reject"]
    BY <1>1 DEF ExchangeAnswers
  <2>4. cb'[d].pc = "upsert" => cb'[d].grant = minted + 1 /\ minted' = minted + 1
    BY <2>3 DEF CbLocal
  <2> QED
    BY <2>1, <2>2, <2>4
<1>2. ASSUME NEW d \in Callbacks,
             \/ CallbackReject(d) \/ CallbackUpsert(d) \/ CallbackMark(d) \/ Disconnect(d)
             \/ \E app \in Apps, f \in Flows, brings \in {"code", "error"} :
                  CallbackLookup(d, app, f, brings)
      PROVE  /\ minted' = minted
             /\ \A c \in Callbacks : cb'[c].pc = "upsert" => cb'[c] = cb[c]
  <2>1. minted' = minted /\ \A c \in Callbacks \ {d} : cb'[c] = cb[c]
    BY <1>2 DEF CallbackReject, CallbackUpsert, CallbackMark, Disconnect, CallbackLookup
  <2>2. CASE CallbackUpsert(d)
    <3>1. PICK u : cb' = [cb EXCEPT ![d].pc = "mark", ![d].user = u]
      BY <2>2, CallbackUpserts
    <3>2. cb'[d] = [cb[d] EXCEPT !.pc = "mark", !.user = u]
      BY <3>1
    <3>3. cb'[d].pc = "mark"
      BY <3>2 DEF CbLocal
    <3> QED
      BY <2>1, <3>3
  <2>3. CASE CallbackReject(d) \/ CallbackMark(d) \/ Disconnect(d)
    BY <2>1, <2>3 DEF CallbackReject, CallbackMark, Disconnect, CbIdle
  <2>4. ASSUME NEW app, NEW f, NEW brings, CallbackLookup(d, app, f, brings)
        PROVE  cb'[d] = cb[d] \/ cb'[d].pc \in {"exchange", "reject"}
    BY <2>4 DEF CallbackLookup, CbIdle
  <2> QED
    BY <1>2, <2>1, <2>2, <2>3, <2>4
<1>3. CASE Restart
  BY <1>3 DEF Restart, CbIdle
<1>4. CASE UNCHANGED <<minted, cb>>
  BY <1>0, <1>4
<1>5. \/ \E d \in Callbacks : ExchangeAnswers(d)
      \/ \E d \in Callbacks :
           \/ CallbackReject(d) \/ CallbackUpsert(d) \/ CallbackMark(d) \/ Disconnect(d)
           \/ \E app \in Apps, f \in Flows, brings \in {"code", "error"} :
                CallbackLookup(d, app, f, brings)
      \/ Restart
      \/ UNCHANGED <<minted, cb>>
  BY DEF Next, Callback, Redeem, Authorize, RedeemLookup, RedeemDelete, RedeemGet, RevokeList,
      RevokeDelete, DeleteUser, RotateKey, Tick
<1> QED
  BY <1>0, <1>1, <1>2, <1>3, <1>4, <1>5

LEMMA NextGrantsAreFresh ==
  ASSUME IInv, GrantsAreFresh, Next
  PROVE  GrantsAreFresh'
<1> cb \in [Callbacks -> CbLocal]
  BY DEF IInv, TypeOK
<1>1. minted' \in Nat /\ minted \in Nat /\ minted <= minted'
  BY NextGrants
<1>2. ASSUME NEW g \in Nat, Seen(g)'
      PROVE  g <= minted
  BY <1>2, NextSeen DEF GrantsAreFresh
<1>3. ASSUME NEW c \in Callbacks, cb'[c].pc = "upsert", NEW g, g = cb'[c].grant
      PROVE  g <= minted' /\ ~Seen(g)'
  <2>1. CASE cb'[c] = cb[c] /\ ~CallbackUpsert(c)
    <3>1. g <= minted /\ ~Seen(g) /\ g \in Nat
      BY <1>3, <2>1 DEF GrantsAreFresh, CbLocal
    <3>2. \A d \in Callbacks : cb[d].pc = "upsert" /\ cb[d].grant = g => d = c
      BY <1>3, <2>1 DEF GrantsAreFresh
    <3>3. ASSUME Seen(g)'
          PROVE  FALSE
      BY <2>1, <3>1, <3>2, <3>3, NextSeen
    <3> QED
      BY <1>1, <3>1, <3>3
  <2>2. CASE g = minted + 1 /\ minted' = minted + 1
    <3>1. g \in Nat /\ ~(g <= minted) /\ g <= minted'
      BY <1>1, <2>2
    <3> QED
      BY <1>2, <3>1
  <2> QED
    BY <1>3, <2>1, <2>2, NextGrants
<1>4. ASSUME NEW c \in Callbacks, NEW d \in Callbacks,
             cb'[c].pc = "upsert", cb'[d].pc = "upsert", cb'[c].grant = cb'[d].grant
      PROVE  c = d
  <2>1. ASSUME NEW a \in Callbacks, cb'[a] = cb[a], cb'[a].pc = "upsert"
        PROVE  cb[a].grant <= minted /\ cb[a].grant \in Nat
    BY <2>1 DEF GrantsAreFresh, CbLocal
  <2>2. CASE cb'[c] = cb[c] /\ cb'[d] = cb[d]
    BY <1>4, <2>2 DEF GrantsAreFresh
  <2>3. ASSUME NEW a \in Callbacks, NEW b \in Callbacks, a # b, cb'[b].pc = "upsert",
               cb'[a].grant = minted + 1, \A e \in Callbacks \ {a} : cb'[e] = cb[e]
        PROVE  cb'[b].grant # cb'[a].grant
    BY <1>1, <2>1, <2>3
  <2> QED
    BY <1>4, <2>2, <2>3, NextGrants
<1>5. \A g \in Nat : Seen(g)' => g <= minted'
  BY <1>1, <1>2
<1> QED
  BY <1>3, <1>4, <1>5 DEF GrantsAreFresh, Seen

LEMMA NextAccessIsUnique ==
  ASSUME IInv, GrantsAreFresh, AccessIsUnique, Next
  PROVE  AccessIsUnique'
<1> SUFFICES ASSUME NEW u \in Users, NEW v \in Users, tokens'[u] # NoRow, tokens'[v] # NoRow,
                    tokens'[u].access = tokens'[v].access, u # v
             PROVE  FALSE
  BY DEF AccessIsUnique
<1>1. CASE tokens'[u] = tokens[u] /\ tokens'[v] = tokens[v]
  BY <1>1 DEF AccessIsUnique
<1>2. ASSUME NEW a \in Users, NEW b \in Users, a # b, tokens'[b] # NoRow,
             tokens'[a].access = tokens'[b].access,
             NEW c \in Callbacks, cb[c].pc = "upsert", tokens'[a].access = cb[c].grant,
             \A w \in Users \ {a} : tokens'[w] = tokens[w]
      PROVE  FALSE
  <2>1. tokens[b] # NoRow /\ tokens[b].access = cb[c].grant
    BY <1>2
  <2>2. Seen(cb[c].grant)
    BY <1>2, <2>1 DEF Seen
  <2> QED
    BY <1>2, <2>2 DEF GrantsAreFresh
<1> QED
  BY <1>1, <1>2, NextRows

LEMMA NextRevokersKnowTheRow ==
  ASSUME IInv, GrantsAreFresh, AccessIsUnique, RevokersKnowTheRow, Next
  PROVE  RevokersKnowTheRow'
<1> SUFFICES ASSUME NEW v \in Revokers, NEW u \in Users, rv'[v].pc = "delete", tokens'[u] # NoRow,
                    tokens'[u].access = rv'[v].access
             PROVE  u = rv'[v].user
  BY DEF RevokersKnowTheRow
<1> rv \in [Revokers -> RvLocal]
  BY DEF IInv, TypeOK
<1>1. CASE rv'[v] = rv[v]
  <2>1. CASE tokens'[u] = tokens[u]
    BY <1>1, <2>1 DEF RevokersKnowTheRow
  <2>2. ASSUME NEW c \in Callbacks, cb[c].pc = "upsert", tokens'[u].access = cb[c].grant
        PROVE  FALSE
    <3>1. Seen(cb[c].grant)
      BY <1>1, <2>2 DEF Seen
    <3> QED
      BY <2>2, <3>1 DEF GrantsAreFresh
  <2> QED
    BY <2>1, <2>2, NextRows
<1>2. ASSUME NEW w \in Revokers, NEW app \in Apps, NEW access, RevokeList(w, app, access),
             rv'[v] # rv[v]
      PROVE  u = rv'[v].user
  <2>1. PICK x \in Matches(app, access) :
          rv' = [rv EXCEPT ![w] = [pc |-> "delete", app |-> app, user |-> x, access |-> access]]
    BY <1>2 DEF RevokeList
  <2>2. x \in Users /\ tokens[x] # NoRow /\ tokens[x].access = access
    BY <2>1 DEF Matches, GetToken
  <2>3. rv'[v].user = x /\ rv'[v].access = access
    BY <1>2, <2>1
  <2>4. tokens' = tokens
    BY <1>2 DEF RevokeList, db
  <2> QED
    BY <2>2, <2>3, <2>4 DEF AccessIsUnique
<1>3. ASSUME NEW w \in Revokers, RevokeDelete(w)
      PROVE  rv'[v] = rv[v]
  BY <1>3 DEF RevokeDelete, RvIdle
<1>4. ~Restart
  BY DEF Restart, RvIdle
<1>5. CASE UNCHANGED rv
  BY <1>1, <1>5
<1> QED
  BY <1>1, <1>2, <1>3, <1>4, <1>5
  DEF Next, Callback, Redeem, Authorize, CallbackLookup, CallbackReject, ExchangeAnswers,
      CallbackUpsert, CallbackMark, Disconnect, RedeemLookup, RedeemDelete, RedeemGet, DeleteUser,
      RotateKey, Tick

LEMMA NextRevokedStaysGone ==
  ASSUME IInv, RInv, Next
  PROVE  RevokedStaysGone'
<1> SUFFICES ASSUME NEW u \in Users, tokens'[u] # NoRow,
                    <<AppOf[tokens'[u].account], tokens'[u].access>> \in revoked'
             PROVE  FALSE
  BY DEF RevokedStaysGone
<1> DEFINE pair == <<AppOf[tokens[u].account], tokens[u].access>>
<1>1. ASSUME NEW c \in Callbacks, cb[c].pc = "upsert", CallbackUpsert(c),
             tokens'[u].access = cb[c].grant
      PROVE  FALSE
  <2>1. revoked' = revoked
    BY <1>1 DEF CallbackUpsert, history
  <2>2. Seen(cb[c].grant)
    BY <1>1, <2>1 DEF Seen
  <2> QED
    BY <1>1, <2>2 DEF RInv, GrantsAreFresh
<1>2. CASE tokens'[u] = tokens[u]
  <2>1. pair \notin revoked
    BY <1>2 DEF RInv, RevokedStaysGone
  <2>2. ASSUME NEW v \in Revokers, NEW app, NEW access, RevokeList(v, app, access)
        PROVE  FALSE
    <3>1. /\ Matches(app, access) = {} /\ pair = <<app, access>>
      BY <1>2, <2>1, <2>2 DEF RevokeList
    <3> QED
      BY <1>2, <3>1 DEF Matches, GetToken
  <2>3. ASSUME NEW v \in Revokers, RevokeDelete(v)
        PROVE  FALSE
    <3>1. rv[v].pc = "delete" /\ pair = <<rv[v].app, rv[v].access>>
      BY <1>2, <2>1, <2>3 DEF RevokeDelete
    <3>2. u = rv[v].user
      BY <1>2, <3>1 DEF RInv, RevokersKnowTheRow
    <3>3. tokens' = [tokens EXCEPT ![u] = NoRow]
      BY <1>2, <2>3, <3>1, <3>2 DEF RevokeDelete, DeleteToken, GetToken
    <3> QED
      BY <3>3 DEF IInv, TypeOK, Table
  <2>4. revoked' # revoked
    BY <1>2, <2>1
  <2> QED
    BY <2>2, <2>3, <2>4
    DEF Next, Callback, Redeem, Authorize, CallbackLookup, CallbackReject, ExchangeAnswers,
        CallbackUpsert, CallbackMark, Disconnect, RedeemLookup, RedeemDelete, RedeemGet, DeleteUser,
        RotateKey, Restart, Tick, history
<1> QED
  BY <1>1, <1>2, NextRows

\* What revoke has answered for is gone for good: no listed row survives, no
\* login that was under way puts the token back (revoke, callback).
THEOREM RevokedTokensStayGone == Spec => []RevokedStaysGone
<1>1. Init => IInv /\ RInv
  <2> SUFFICES ASSUME Init PROVE RInv
    BY InitInv
  <2>1. /\ \A u \in Users : tokens[u] = NoRow
        /\ \A c \in Callbacks : cb[c].pc = "idle"
        /\ \A v \in Revokers : rv[v].pc = "idle"
        /\ 1..Len(redeemed) = {} /\ revoked = {}
    BY DEF Init, EmptyTable, CbIdle, RvIdle
  <2>2. \A g : ~Seen(g)
    BY <2>1 DEF Seen
  <2> QED
    BY <2>1, <2>2
    DEF RInv, GrantsAreFresh, AccessIsUnique, RevokersKnowTheRow, RevokedStaysGone
<1>2. IInv /\ RInv /\ [Next]_vars => (IInv /\ RInv)'
  <2>1. IInv /\ RInv /\ Next => RInv'
    BY NextGrantsAreFresh, NextAccessIsUnique, NextRevokersKnowTheRow, NextRevokedStaysGone
    DEF RInv
  <2>2. RInv /\ UNCHANGED vars => RInv'
    BY DEF vars, db, history, RInv, GrantsAreFresh, AccessIsUnique, RevokersKnowTheRow,
           RevokedStaysGone, Seen
  <2> QED
    BY <2>1, <2>2, NextInv
<1>3. RInv => RevokedStaysGone
  BY DEF RInv
<1> QED
  BY <1>1, <1>2, <1>3, PTL DEF Spec

-----------------------------------------------------------------------------
(* States that come back once *)

\* A callback works on its own pending flow, which has not come back before.
CallbacksAlone ==
  /\ \A c \in Callbacks : cb[c].pc # "idle" =>
       returned[cb[c].flow] > 0 /\ flows[cb[c].flow] # NoFlow /\ flows[cb[c].flow].code = None
  /\ \A c, d \in Callbacks :
       cb[c].pc # "idle" /\ cb[d].pc # "idle" /\ cb[c].flow = cb[d].flow => c = d
  /\ \A n \in 1..Len(codes) :
       /\ returned[codes[n].flow] > 0
       /\ \A c \in Callbacks : cb[c].pc # "idle" => cb[c].flow # codes[n].flow
  /\ \A m, n \in 1..Len(codes) : codes[m].flow = codes[n].flow => m = n

\* A step that begins no callback and hands out no code.
LEMMA AloneStays ==
  ASSUME IInv, CallbacksAlone, UNCHANGED <<returned, codes>>,
         \A c \in Callbacks : cb'[c].pc # "idle" =>
           /\ cb[c].pc # "idle" /\ cb'[c].flow = cb[c].flow
           /\ flows'[cb[c].flow] # NoFlow /\ flows'[cb[c].flow].code = None
  PROVE  CallbacksAlone'
BY DEF CallbacksAlone

\* A pending flow is not deleted with a user, as it names none.
LEMMA PendingStays ==
  ASSUME IInv, CallbacksAlone, NEW rows, NEW c \in Callbacks, cb[c].pc # "idle"
  PROVE  /\ cb[c].flow \in Flows /\ flows[cb[c].flow] # NoFlow /\ flows[cb[c].flow].code = None
         /\ Cascade(flows, rows)[cb[c].flow] = flows[cb[c].flow]
<1>1. cb[c].flow \in Flows /\ flows[cb[c].flow] # NoFlow /\ flows[cb[c].flow].code = None
  BY DEF IInv, CallbacksServeFlows, CallbacksAlone
<1>2. flows[cb[c].flow].user = None
  BY <1>1, FlowType DEF IInv
<1> QED
  BY <1>1, <1>2 DEF Cascade

\* A state that comes back begins a callback on a flow that nobody works on.
LEMMA LookupAlone ==
  ASSUME IInv, CallbacksAlone, "replay" \notin env, NEW c \in Callbacks, NEW app, NEW f \in Flows,
         NEW brings, CallbackLookup(c, app, f, brings)
  PROVE  CallbacksAlone'
<1>0. /\ returned \in [Flows -> Nat] /\ cb \in [Callbacks -> CbLocal] /\ returned[f] = 0
      /\ returned' = [returned EXCEPT ![f] = @ + 1] /\ UNCHANGED <<flows, codes>>
  BY DEF IInv, TypeOK, CallbackLookup, MayReturn, db
<1>1. returned'[f] > 0 /\ \A g \in Flows : returned[g] > 0 => returned'[g] > 0
  BY <1>0
<1>2. /\ \A d \in Callbacks : cb[d].pc # "idle" => cb[d].flow # f /\ cb[d].flow \in Flows
      /\ \A n \in 1..Len(codes) : codes[n].flow # f
  BY <1>0 DEF CallbacksAlone, IInv, CallbacksServeFlows
<1>3. \A n \in 1..Len(codes) : codes[n].flow \in Flows
  <2>1. codes \in Seq([flow : Flows, at : Nat])
    BY DEF IInv, TypeOK
  <2>2. \A n \in 1..Len(codes) : codes[n] \in [flow : Flows, at : Nat]
    BY <2>1, ElementOfSeq
  <2> QED
    BY <2>2
<1>4. CASE flows[f] = NoFlow
  <2>1. cb' = cb
    BY <1>4 DEF CallbackLookup
  <2> QED
    BY <1>0, <1>1, <1>2, <1>3, <2>1 DEF CallbacksAlone
<1>5. CASE flows[f] # NoFlow
  <2> DEFINE pc == IF AppOf[flows[f].account] = app /\ flows[f].expires > now /\ brings = "code"
                   THEN "exchange" ELSE "reject"
             l == [CbIdle EXCEPT !.pc = pc, !.flow = f, !.account = flows[f].account]
  <2>1. cb' = [cb EXCEPT ![c] = l] /\ l.flow = f
    <3>1. cb' = [cb EXCEPT ![c] = l]
      BY <1>5 DEF CallbackLookup
    <3> HIDE DEF pc
    <3>2. l.flow = f
      BY DEF CbIdle
    <3> QED
      BY <3>1, <3>2
  <2> HIDE DEF l
  <2>2. cb'[c].flow = f /\ \A d \in Callbacks \ {c} : cb'[d] = cb[d]
    BY <1>0, <2>1
  <2>3. flows[f].code = None
    BY <1>2, <1>5 DEF IInv, CodesAreHanded
  <2> QED
    BY <1>0, <1>1, <1>2, <1>3, <1>5, <2>2, <2>3 DEF CallbacksAlone
<1> QED
  BY <1>4, <1>5

\* A code is handed out for a flow that has none, and that nobody works on any more.
LEMMA MarkAlone ==
  ASSUME IInv, CallbacksAlone, NEW c \in Callbacks, CallbackMark(c)
  PROVE  CallbacksAlone'
<1> DEFINE f == cb[c].flow
           code == [flow |-> f, at |-> now]
<1>0. /\ f \in Flows /\ code \in [flow : Flows, at : Nat] /\ codes \in Seq([flow : Flows, at : Nat])
      /\ cb \in [Callbacks -> CbLocal] /\ cb[c].pc = "mark" /\ code.flow = f
  BY CallbackMarks DEF IInv, TypeOK, CallbackMark
<1>1. /\ cb' = [cb EXCEPT ![c] = CbIdle] /\ UNCHANGED returned
      /\ codes' = codes \/ codes' = Append(codes, code)
      /\ \A g \in Flows \ {f} : flows'[g] = flows[g]
  BY CallbackMarks DEF CallbackMark, IInv, TypeOK
<1>2. /\ cb'[c].pc = "idle" /\ \A d \in Callbacks \ {c} : cb'[d] = cb[d]
  BY <1>0, <1>1 DEF CbIdle
<1>3. \A d \in Callbacks \ {c} : cb[d].pc # "idle" => cb[d].flow # f /\ cb[d].flow \in Flows
  BY <1>0 DEF CallbacksAlone, IInv, CallbacksServeFlows
<1>4. returned[f] > 0 /\ \A n \in 1..Len(codes) : codes[n].flow # f
  BY <1>0 DEF CallbacksAlone
<1> HIDE DEF code, f
<1>5. \A n \in 1..Len(codes') : codes'[n].flow = f \/ (n \in 1..Len(codes) /\ codes'[n] = codes[n])
  BY <1>0, <1>1, Appended
<1>6. \A m, n \in 1..Len(codes') : codes'[m].flow = codes'[n].flow => m = n
  <2>1. CASE codes' = codes
    BY <2>1 DEF CallbacksAlone
  <2>2. CASE codes' = Append(codes, code)
    <3>1. /\ Len(codes) \in Nat /\ Len(codes') = Len(codes) + 1
          /\ \A n \in 1..Len(codes) : codes'[n] = codes[n]
          /\ codes'[Len(codes) + 1] = code
      BY <1>0, <2>2, Appended
    <3>2. \A n \in 1..Len(codes') : n = Len(codes) + 1 \/ n \in 1..Len(codes)
      BY <3>1
    <3> QED
      BY <1>0, <1>4, <3>1, <3>2 DEF CallbacksAlone
  <2> QED
    BY <1>1, <2>1, <2>2
<1> QED
  BY <1>1, <1>2, <1>3, <1>4, <1>5, <1>6 DEF CallbacksAlone

\* Every step keeps callbacks apart, unless states are replayed.
LEMMA NextAlone ==
  ASSUME IInv, CallbacksAlone, "replay" \notin env, [Next]_vars
  PROVE  CallbacksAlone'
<1> cb \in [Callbacks -> CbLocal] /\ flows \in [Flows -> Pending \cup Issued \cup {NoFlow}]
  BY DEF IInv, TypeOK
<1>0. \A c \in Callbacks : cb[c].pc # "idle" =>
        /\ cb[c].flow \in Flows /\ flows[cb[c].flow] # NoFlow /\ flows[cb[c].flow].code = None
  BY PendingStays
<1>1. CASE UNCHANGED vars
  BY <1>1 DEF vars, db, history, CallbacksAlone
<1>2. ASSUME NEW f \in Flows, NEW app \in Apps, NEW who \in Hints \cup Flows, Authorize(f, app, who)
      PROVE  CallbacksAlone'
  <2>1. /\ UNCHANGED <<returned, codes, cb>> /\ flows'[f] # NoFlow /\ flows'[f].code = None
        /\ \A g \in Flows \ {f} : flows'[g] = flows[g]
    <3> DEFINE row == [account |-> <<app, who>>, expires |-> now + FlowTtl,
                       code |-> None, user |-> None]
    <3>1. flows' = [flows EXCEPT ![f] = row] /\ UNCHANGED <<returned, codes, cb>>
      BY <1>2 DEF Authorize
    <3>2. row \in Pending
      <4>1. <<app, who>> \in Accounts /\ now + FlowTtl \in Nat
        BY FlowAssumption DEF IInv, TypeOK
      <4> QED
        BY <4>1 DEF Pending
    <3>3. row.code = None
      OBVIOUS
    <3> HIDE DEF row
    <3> QED
      BY <3>1, <3>2, <3>3, NoFlowAssumption
  <2> QED
    BY <1>0, <2>1, AloneStays
<1>3. ASSUME NEW c \in Callbacks, CallbackReject(c)
      PROVE  CallbacksAlone'
  <2>1. /\ UNCHANGED <<returned, codes>> /\ cb' = [cb EXCEPT ![c] = CbIdle]
        /\ \A g \in Flows \ {cb[c].flow} : flows'[g] = flows[g]
    BY <1>3 DEF CallbackReject, DeleteFlow, history
  <2>2. /\ cb'[c].pc = "idle" /\ \A d \in Callbacks \ {c} : cb'[d] = cb[d]
    BY <2>1 DEF CbIdle
  <2>3. \A d \in Callbacks \ {c} : cb[d].pc # "idle" => cb[d].flow # cb[c].flow
    BY <1>3 DEF CallbackReject, CallbacksAlone
  <2> QED
    BY <1>0, <2>1, <2>2, <2>3, AloneStays
<1>4. ASSUME NEW c \in Callbacks, ExchangeAnswers(c) \/ CallbackUpsert(c)
      PROVE  CallbacksAlone'
  <2>1. UNCHANGED <<returned, codes, flows>> /\ cb[c].pc # "idle"
    BY <1>4 DEF ExchangeAnswers, CallbackUpsert, db, history
  <2>2. cb'[c].flow = cb[c].flow /\ \A d \in Callbacks \ {c} : cb'[d] = cb[d]
    BY <1>4 DEF ExchangeAnswers, CallbackUpsert, CbLocal
  <2> QED
    BY <1>0, <2>1, <2>2, AloneStays
<1>5. ASSUME NEW c \in Callbacks, Disconnect(c)
      PROVE  CallbacksAlone'
  <2>1. UNCHANGED <<returned, codes, flows>> /\ cb' = [cb EXCEPT ![c] = CbIdle]
    BY <1>5 DEF Disconnect, db, history
  <2>2. /\ cb'[c].pc = "idle" /\ \A d \in Callbacks \ {c} : cb'[d] = cb[d]
    BY <2>1 DEF CbIdle
  <2> QED
    BY <1>0, <2>1, <2>2, AloneStays
<1>6. ASSUME NEW t \in Redeemers, RedeemDelete(t)
      PROVE  CallbacksAlone'
  <2>1. /\ UNCHANGED <<returned, codes, cb>> /\ flows' = DeleteFlow(flows, tk[t].flow)
        /\ tk[t].pc = "delete"
    BY <1>6 DEF RedeemDelete, history
  <2>2. tk[t].code \in 1..Len(codes) /\ codes[tk[t].code].flow = tk[t].flow
    BY <2>1 DEF IInv, RedeemersServeCodes
  <2>3. \A c \in Callbacks : cb[c].pc # "idle" => cb[c].flow # tk[t].flow
    BY <2>2 DEF CallbacksAlone
  <2>4. \A g \in Flows : g # tk[t].flow => flows'[g] = flows[g]
    BY <2>1 DEF DeleteFlow
  <2> QED
    BY <1>0, <2>1, <2>3, <2>4, AloneStays
<1>7. ASSUME NEW rows, flows' = Cascade(flows, rows), UNCHANGED <<returned, codes, cb>>
      PROVE  CallbacksAlone'
  <2>1. \A c \in Callbacks : cb[c].pc # "idle" => flows'[cb[c].flow] = flows[cb[c].flow]
    BY <1>7, PendingStays
  <2> QED
    BY <1>0, <1>7, <2>1, AloneStays
<1>8. CASE Restart
  <2>1. UNCHANGED <<returned, codes>> /\ \A c \in Callbacks : cb'[c].pc = "idle"
    BY <1>8 DEF Restart, history, CbIdle
  <2> QED
    BY <2>1, AloneStays
<1>9. CASE UNCHANGED <<returned, codes, cb, flows>>
  BY <1>9 DEF CallbacksAlone
<1>10. ASSUME NEW c \in Callbacks, CallbackMark(c)
       PROVE  CallbacksAlone'
  BY <1>10, MarkAlone
<1>11. ASSUME NEW c \in Callbacks, NEW app \in Apps, NEW f \in Flows, NEW brings,
              CallbackLookup(c, app, f, brings)
       PROVE  CallbacksAlone'
  BY <1>11, LookupAlone
<1>12. ASSUME NEW c \in Callbacks, Callback(c)
       PROVE  CallbacksAlone'
  BY <1>3, <1>4, <1>10, <1>12 DEF Callback
<1>13. ASSUME NEW t \in Redeemers, Redeem(t)
       PROVE  CallbacksAlone'
  BY <1>6, <1>9, <1>13 DEF Redeem, RedeemGet, db
<1>14. ASSUME NEW t \in Redeemers, NEW app, NEW code, NEW proof, RedeemLookup(t, app, code, proof)
       PROVE  CallbacksAlone'
  BY <1>9, <1>14 DEF RedeemLookup, db, history
<1>15. ASSUME NEW v \in Revokers, NEW app, NEW access, RevokeList(v, app, access)
       PROVE  CallbacksAlone'
  BY <1>9, <1>15 DEF RevokeList, db
<1>16. ASSUME NEW v \in Revokers, RevokeDelete(v)
       PROVE  CallbacksAlone'
  BY <1>7, <1>16 DEF RevokeDelete
<1>17. ASSUME NEW u \in Users, DeleteUser(u)
       PROVE  CallbacksAlone'
  BY <1>7, <1>17 DEF DeleteUser, history
<1>18. ASSUME NEW app \in Apps, RotateKey(app)
       PROVE  CallbacksAlone'
  BY <1>7, <1>18 DEF RotateKey, history
<1>19. CASE Tick
  BY <1>9, <1>19 DEF Tick, db, history
<1> QED
  BY <1>1, <1>2, <1>5, <1>8, <1>11, <1>12, <1>13, <1>14, <1>15, <1>16, <1>17, <1>18, <1>19 DEF Next

\* What may happen in a behaviour does not change in it.
LEMMA NextEnv == [Next]_vars => env' = env
BY DEF Next, vars, Callback, Redeem, Authorize, CallbackLookup, CallbackReject, ExchangeAnswers,
       CallbackUpsert, CallbackMark, Disconnect, RedeemLookup, RedeemDelete, RedeemGet, RevokeList,
       RevokeDelete, DeleteUser, RotateKey, Restart, Tick

\* While states come back once, callbacks keep out of each other's way.
LEMMA AloneInvariance == Spec => []("replay" \notin env => CallbacksAlone)
<1> DEFINE Alone == "replay" \notin env => CallbacksAlone
<1>1. Init => Alone
  BY DEF Init, CallbacksAlone, CbIdle
<1>2. IInv /\ [Next]_vars /\ Alone => Alone'
  BY NextAlone, NextEnv
<1> HIDE DEF Alone
<1>3. Spec => []Alone
  BY <1>1, <1>2, Invariance, PTL DEF Spec
<1> QED
  BY <1>3 DEF Alone

\* Every code that a callback hands out is in the database at that moment, as
\* long as each state comes back once: whatever else is deleted, dropped or
\* restarted, its flow is still there to be marked (callback, mark_flow_issued).
THEOREM HandedCodesAreStored == Spec => HandedCodeIsStored
<1> DEFINE Alone == "replay" \notin env => CallbacksAlone
           A == \A n \in DOMAIN codes' \ DOMAIN codes :
                  "replay" \notin env => WithCode(flows', n) # {}
<1>1. ASSUME IInv, Alone, [Next]_vars PROVE A
  <2> SUFFICES ASSUME NEW n \in DOMAIN codes' \ DOMAIN codes, CallbacksAlone
               PROVE  WithCode(flows', n) # {}
    BY <1>1
  <2>0. /\ codes \in Seq([flow : Flows, at : Nat]) /\ now \in Nat
        /\ flows \in [Flows -> Pending \cup Issued \cup {NoFlow}]
        /\ DOMAIN codes = 1..Len(codes)
    BY <1>1 DEF IInv, TypeOK
  <2>1. PICK c \in Callbacks : CallbackMark(c)
    <3>1. codes' # codes
      OBVIOUS
    <3> QED
      BY <1>1, <3>1 DEF Next, vars, Callback, Redeem, Authorize, CallbackLookup, CallbackReject,
         ExchangeAnswers, CallbackUpsert, Disconnect, RedeemLookup, RedeemDelete, RedeemGet,
         RevokeList, RevokeDelete, DeleteUser, RotateKey, Restart, Tick, history
  <2> DEFINE f == cb[c].flow
             code == [flow |-> f, at |-> now]
  <2>2. f \in Flows /\ flows[f] # NoFlow /\ code \in [flow : Flows, at : Nat]
    <3>1. cb[c].pc # "idle"
      BY <2>1 DEF CallbackMark
    <3> QED
      BY <1>1, <2>0, <3>1 DEF CallbacksAlone, IInv, CallbacksServeFlows
  <2>3. /\ codes' = Append(codes, code)
        /\ flows' = [flows EXCEPT ![f].code = Len(codes) + 1, ![f].user = cb[c].user,
                                  ![f].expires = IssuedExpiry(f)]
    BY <2>1, <2>2 DEF CallbackMark
  <2> HIDE DEF code
  <2>4. n = Len(codes) + 1
    BY <2>0, <2>2, <2>3, Appended
  <2>5. flows'[f].code = n /\ flows'[f] # NoFlow
    <3> DEFINE row == [flows[f] EXCEPT !.code = n, !.user = cb[c].user, !.expires = IssuedExpiry(f)]
    <3>1. flows[f] \in Pending \cup Issued
      BY <2>0, <2>2
    <3>2. row.code = n /\ flows'[f] = row
      BY <2>0, <2>2, <2>3, <2>4, <3>1 DEF Pending, Issued
    <3>3. cb[c].user \in Users /\ n \in Nat \ {None} /\ now + CodeTtl \in Nat
      <4>1. cb[c].user \in Users
        BY <1>1, <2>1, CallbackMarks DEF IInv, TypeOK, IdOf
      <4>2. Len(codes) \in Nat
        BY <2>0, LenProperties
      <4>3. n \in Nat \ {None}
        BY <2>4, <4>2 DEF None
      <4>4. now + CodeTtl \in Nat
        BY <2>0, FlowAssumption
      <4> QED
        BY <4>1, <4>3, <4>4
    <3>4. row \in Issued
      BY <3>1, <3>3 DEF Pending, Issued, IssuedExpiry
    <3> QED
      BY <3>2, <3>4, NoFlowAssumption
  <2> QED
    BY <2>2, <2>5 DEF WithCode
<1> HIDE DEF Alone
<1>2. Spec => []Alone
  BY AloneInvariance DEF Alone
<1> QED
  BY <1>1, <1>2, Invariance, PTL DEF Spec, HandedCodeIsStored
=============================================================================
