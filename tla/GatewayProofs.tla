---------------------------- MODULE GatewayProofs ----------------------------
(***************************************************************************)
(* Theorems about what the gateway decides before a call executes.         *)
(*                                                                         *)
(* Access and the keys of ApiKeys, for any number of clients, requests     *)
(* side by side, keys and rotations.  The inductive invariant has a part   *)
(* for the keys (KeysInv, kept by each statement), a part for each handler *)
(* (HandlerFine) and the properties themselves.  What a handler saw when   *)
(* its request arrived stays so because the account only moves one way     *)
(* (AccountGrows).                                                         *)
(*                                                                         *)
(* Admission, for any number of calls and keys, any limits, and any        *)
(* lengths of leases, windows and waits that AdmissionAssumption allows    *)
(* (AdmissionInv).                                                         *)
(***************************************************************************)
EXTENDS Access, Admission, FiniteSetTheorems, TLAPS

-----------------------------------------------------------------------------
(* The keys *)

\* What is known of a key: one that was not created is not expired, and one that was has a
\* secret.
KeyFine(k) ==
    /\ keyRow[k].state = "none" => ~keyRow[k].expired
    /\ keyRow[k].state # "none" => keyRow[k].secret \in 1..MaxSecrets

\* A secret that was withdrawn is not the current one of an active key.
Withdrawn(s) == keyRow[s[1]].state = "revoked" \/ (keyRow[s[1]].state = "active" /\ keyRow[s[1]].secret > s[2])

KeysInv ==
    /\ KeysTypeOK
    /\ IsFiniteSet(ActiveKeys)
    /\ \A k \in KeyIds : KeyFine(k)
    /\ \A s \in retired : Withdrawn(s)
    /\ GivenSecretsWork

LEMMA SecretsAre ==
  ASSUME NEW s \in Secrets
  PROVE  s[1] \in KeyIds /\ s[2] \in 1..MaxSecrets /\ s = <<s[1], s[2]>>
BY DEF Secrets

LEMMA WithdrawnIsDead ==
  ASSUME KeysInv, NEW s \in retired
  PROVE  ~Authenticates(s)
<1>1. s[1] \in KeyIds /\ s[2] \in 1..MaxSecrets /\ keyRow[s[1]] \in KeyRow
  BY SecretsAre DEF KeysInv, KeysTypeOK
<1>2. Withdrawn(s)
  BY DEF KeysInv
<1> QED BY <1>1, <1>2, ApiKeysAssumption DEF Withdrawn, Authenticates, Active, KeyRow

LEMMA InsertKeyInv ==
  ASSUME KeysInv, NEW k \in KeyIds, InsertKey(k)
  PROVE  /\ KeysInv'
         /\ ActiveKeys' = ActiveKeys \cup {k}
<1>1. /\ keyRow \in [KeyIds -> KeyRow] /\ keyRow[k].state = "none" /\ ~keyRow[k].expired
      /\ keyRow' = [keyRow EXCEPT ![k] = [keyRow[k] EXCEPT !.state = "active", !.secret = 1]]
      /\ given' = given \cup {<<k, 1>>} /\ retired' = retired
  BY DEF KeysInv, KeysTypeOK, KeyFine, InsertKey, NextKey
<1>2. 1 \in 0..MaxSecrets /\ 1 \in 1..MaxSecrets
  BY ApiKeysAssumption
<1>3. /\ keyRow'[k].state = "active" /\ keyRow'[k].secret = 1 /\ keyRow'[k].expired = keyRow[k].expired
      /\ keyRow'[k] \in KeyRow
      /\ \A j \in KeyIds \ {k} : keyRow'[j] = keyRow[j]
  BY <1>1, <1>2 DEF KeyRow
<1>4. KeysTypeOK'
  BY <1>1, <1>2, <1>3 DEF KeysInv, KeysTypeOK, Secrets
<1>5. ActiveKeys' = ActiveKeys \cup {k}
  BY <1>1, <1>3 DEF ActiveKeys, Active
<1>6. IsFiniteSet(ActiveKeys')
  BY <1>5, FS_AddElement DEF KeysInv
<1>7. \A j \in KeyIds : KeyFine(j)'
  BY <1>1, <1>2, <1>3 DEF KeysInv, KeyFine
<1>8. \A s \in retired' : Withdrawn(s)'
  <2>1. ASSUME NEW s \in retired PROVE Withdrawn(s)'
    <3>1. s[1] \in KeyIds /\ Withdrawn(s)
      BY SecretsAre DEF KeysInv, KeysTypeOK
    <3>2. s[1] # k
      BY <1>1, <3>1 DEF Withdrawn
    <3> QED BY <1>3, <3>1, <3>2 DEF Withdrawn
  <2> QED BY <1>1, <2>1
<1>9. GivenSecretsWork'
  <2>1. ASSUME NEW s \in given' \ retired' PROVE keyRow'[s[1]].expired \/ Authenticates(s)'
    <3>1. CASE s = <<k, 1>>
      BY <1>1, <1>3, <3>1 DEF Authenticates, Active
    <3>2. CASE s \in given
      <4>1. s[1] \in KeyIds /\ (keyRow[s[1]].expired \/ Authenticates(s))
        BY <1>1, <2>1, <3>2, SecretsAre DEF KeysInv, KeysTypeOK, GivenSecretsWork
      <4>2. s[1] # k
        BY <1>1, <4>1 DEF Authenticates, Active
      <4> QED BY <1>3, <4>1, <4>2 DEF Authenticates, Active
    <3> QED BY <1>1, <3>1, <3>2
  <2> QED BY <2>1 DEF GivenSecretsWork
<1> QED BY <1>4, <1>5, <1>6, <1>7, <1>8, <1>9 DEF KeysInv

LEMMA RotateKeyInv ==
  ASSUME KeysInv, NEW k \in KeyIds, RotateKey(k)
  PROVE  KeysInv' /\ ActiveKeys' = ActiveKeys
<1>v. PICK n : n = keyRow[k].secret
  OBVIOUS
<1>1. /\ keyRow \in [KeyIds -> KeyRow] /\ keyRow[k].state = "active" /\ n < MaxSecrets /\ keyRow[k].secret = n
      /\ keyRow' = [keyRow EXCEPT ![k].secret = n + 1]
      /\ given' = given \cup {<<k, n + 1>>} /\ retired' = retired \cup {<<k, n>>}
  BY <1>v DEF KeysInv, KeysTypeOK, RotateKey, Rotatable
<1>2. n \in 1..MaxSecrets /\ n + 1 \in 1..MaxSecrets /\ n + 1 \in 0..MaxSecrets
  BY <1>1, ApiKeysAssumption DEF KeysInv, KeyFine
<1>3. /\ keyRow'[k].state = "active" /\ keyRow'[k].secret = n + 1 /\ keyRow'[k].expired = keyRow[k].expired
      /\ keyRow'[k] \in KeyRow
      /\ \A j \in KeyIds \ {k} : keyRow'[j] = keyRow[j]
  BY <1>1, <1>2 DEF KeyRow
<1>4. KeysTypeOK'
  BY <1>1, <1>2, <1>3 DEF KeysInv, KeysTypeOK, Secrets
<1>5. ActiveKeys' = ActiveKeys
  BY <1>1, <1>3 DEF ActiveKeys, Active
<1>6. \A j \in KeyIds : KeyFine(j)'
  BY <1>1, <1>2, <1>3 DEF KeysInv, KeyFine
<1>7. \A s \in retired' : Withdrawn(s)'
  <2>1. ASSUME NEW s \in retired PROVE Withdrawn(s)'
    <3>1. s[1] \in KeyIds /\ s[2] \in 1..MaxSecrets /\ Withdrawn(s)
      BY SecretsAre DEF KeysInv, KeysTypeOK
    <3>2. CASE s[1] = k
      BY <1>1, <1>2, <1>3, <3>1, <3>2, ApiKeysAssumption DEF Withdrawn
    <3> QED BY <1>3, <3>1, <3>2 DEF Withdrawn
  <2>2. Withdrawn(<<k, n>>)'
    BY <1>2, <1>3 DEF Withdrawn
  <2> QED BY <1>1, <2>1, <2>2
<1>8. GivenSecretsWork'
  <2>1. ASSUME NEW s \in given' \ retired' PROVE keyRow'[s[1]].expired \/ Authenticates(s)'
    <3>1. CASE s = <<k, n + 1>>
      BY <1>1, <1>3, <3>1 DEF Authenticates, Active
    <3>2. CASE s \in given
      <4>1. s \in Secrets /\ (keyRow[s[1]].expired \/ Authenticates(s))
        BY <1>1, <2>1, <3>2 DEF KeysInv, KeysTypeOK, GivenSecretsWork
      <4>2. s[1] \in KeyIds /\ s = <<s[1], s[2]>>
        BY <4>1, SecretsAre
      <4>3. CASE s[1] = k /\ Authenticates(s)
        <5>1. s = <<k, n>>
          BY <1>1, <4>2, <4>3 DEF Authenticates
        <5> QED BY <1>1, <2>1, <5>1
      <4>4. CASE s[1] = k /\ keyRow[s[1]].expired
        BY <1>3, <4>4
      <4>5. CASE s[1] # k
        BY <1>3, <4>1, <4>2, <4>5 DEF Authenticates, Active
      <4> QED BY <4>1, <4>3, <4>4, <4>5
    <3> QED BY <1>1, <3>1, <3>2
  <2> QED BY <2>1 DEF GivenSecretsWork
<1> QED BY <1>4, <1>5, <1>6, <1>7, <1>8 DEF KeysInv

LEMMA RevokeKeyInv ==
  ASSUME KeysInv, NEW k \in KeyIds, RevokeKey(k)
  PROVE  KeysInv' /\ ActiveKeys' \subseteq ActiveKeys
<1>v. PICK n : n = keyRow[k].secret
  OBVIOUS
<1>1. /\ keyRow \in [KeyIds -> KeyRow] /\ keyRow[k].state # "none" /\ keyRow[k].secret = n
      /\ keyRow' = [keyRow EXCEPT ![k].state = "revoked"]
      /\ given' = given /\ retired' = retired \cup {<<k, n>>}
  BY <1>v DEF KeysInv, KeysTypeOK, RevokeKey
<1>2. n \in 1..MaxSecrets
  BY <1>1 DEF KeysInv, KeyFine
<1>3. /\ keyRow'[k].state = "revoked" /\ keyRow'[k].secret = n /\ keyRow'[k].expired = keyRow[k].expired
      /\ keyRow'[k] \in KeyRow
      /\ \A j \in KeyIds \ {k} : keyRow'[j] = keyRow[j]
  BY <1>1, <1>2 DEF KeyRow
<1>4. KeysTypeOK'
  BY <1>1, <1>2, <1>3 DEF KeysInv, KeysTypeOK, Secrets
<1>5. ActiveKeys' \subseteq ActiveKeys
  BY <1>1, <1>3 DEF ActiveKeys, Active
<1>6. IsFiniteSet(ActiveKeys')
  BY <1>5, FS_Subset DEF KeysInv
<1>7. \A j \in KeyIds : KeyFine(j)'
  BY <1>1, <1>2, <1>3 DEF KeysInv, KeyFine
<1>8. \A s \in retired' : Withdrawn(s)'
  <2>1. ASSUME NEW s \in retired PROVE Withdrawn(s)'
    <3>1. s[1] \in KeyIds /\ Withdrawn(s)
      BY SecretsAre DEF KeysInv, KeysTypeOK
    <3> QED BY <1>3, <3>1 DEF Withdrawn
  <2>2. Withdrawn(<<k, n>>)'
    BY <1>3 DEF Withdrawn
  <2> QED BY <1>1, <2>1, <2>2
<1>9. GivenSecretsWork'
  <2>1. ASSUME NEW s \in given' \ retired' PROVE keyRow'[s[1]].expired \/ Authenticates(s)'
    <3>1. s \in Secrets /\ (keyRow[s[1]].expired \/ Authenticates(s))
      BY <1>1, <2>1 DEF KeysInv, KeysTypeOK, GivenSecretsWork
    <3>2. s[1] \in KeyIds /\ s = <<s[1], s[2]>>
      BY <3>1, SecretsAre
    <3>3. CASE s[1] = k /\ Authenticates(s)
      <4>1. s = <<k, n>>
        BY <1>1, <3>2, <3>3 DEF Authenticates
      <4> QED BY <1>1, <2>1, <4>1
    <3>4. CASE s[1] = k /\ keyRow[s[1]].expired
      BY <1>3, <3>4
    <3>5. CASE s[1] # k
      BY <1>3, <3>1, <3>2, <3>5 DEF Authenticates, Active
    <3> QED BY <3>1, <3>3, <3>4, <3>5
  <2> QED BY <2>1 DEF GivenSecretsWork
<1> QED BY <1>4, <1>5, <1>6, <1>7, <1>8, <1>9 DEF KeysInv

LEMMA ExpireKeyInv ==
  ASSUME KeysInv, NEW k \in KeyIds, ExpireKey(k)
  PROVE  KeysInv' /\ ActiveKeys' \subseteq ActiveKeys
<1>1. /\ keyRow \in [KeyIds -> KeyRow] /\ keyRow[k].state = "active"
      /\ keyRow' = [keyRow EXCEPT ![k].expired = TRUE]
      /\ given' = given /\ retired' = retired
  BY DEF KeysInv, KeysTypeOK, ExpireKey, Active
<1>2. /\ keyRow'[k].state = "active" /\ keyRow'[k].secret = keyRow[k].secret /\ keyRow'[k].expired
      /\ keyRow'[k] \in KeyRow
      /\ \A j \in KeyIds \ {k} : keyRow'[j] = keyRow[j]
  BY <1>1 DEF KeyRow
<1>3. KeysTypeOK'
  BY <1>1, <1>2 DEF KeysInv, KeysTypeOK
<1>4. ActiveKeys' \subseteq ActiveKeys
  BY <1>1, <1>2 DEF ActiveKeys, Active
<1>5. IsFiniteSet(ActiveKeys')
  BY <1>4, FS_Subset DEF KeysInv
<1>6. \A j \in KeyIds : KeyFine(j)'
  BY <1>1, <1>2 DEF KeysInv, KeyFine
<1>7. \A s \in retired' : Withdrawn(s)'
  <2>1. ASSUME NEW s \in retired PROVE Withdrawn(s)'
    <3>1. s[1] \in KeyIds /\ Withdrawn(s)
      BY SecretsAre DEF KeysInv, KeysTypeOK
    <3> QED BY <1>1, <1>2, <3>1 DEF Withdrawn
  <2> QED BY <1>1, <2>1
<1>8. GivenSecretsWork'
  <2>1. ASSUME NEW s \in given \ retired PROVE keyRow'[s[1]].expired \/ Authenticates(s)'
    <3>1. s[1] \in KeyIds /\ (keyRow[s[1]].expired \/ Authenticates(s))
      BY <2>1, SecretsAre DEF KeysInv, KeysTypeOK, GivenSecretsWork
    <3> QED BY <1>2, <3>1 DEF Authenticates, Active
  <2> QED BY <1>1, <2>1 DEF GivenSecretsWork
<1> QED BY <1>3, <1>4, <1>5, <1>6, <1>7, <1>8 DEF KeysInv

-----------------------------------------------------------------------------
(* Accounts and handlers *)

Cookie == [signed : BOOLEAN, epoch : Nat]

Handler ==
    [pc : {"idle", "find", "insert", "hash", "user", "clear", "session", "act", "write", "key"},
     answer : {"none", "refused", "accepted", "email_taken", "error", "created", "admitted", "ok"},
     route : Routes \cup {"none"}, client : Clients, cookie : Cookie,
     key : KeyIds \cup {0}, secret : 0..MaxSecrets,
     began : Nat, barred : BOOLEAN, dead : BOOLEAN]

Account ==
    [password : Clients \cup {Nobody}, role : {"user", "admin"}, epoch : Nat,
     standing : {"good", "restricted", "banned"}]

AccessTypeOK ==
    /\ dialect \in {"sqlite", "postgres"}
    /\ account \in Account
    /\ cookie \in [Clients -> Cookie]
    /\ handler \in [Handlers -> Handler]
    /\ seed \in {"idle", "insert", "update", "over"}

\* Which steps a request of some route is at.
RouteFits(h) ==
    /\ handler[h].pc \in {"find", "insert"} => handler[h].route = "register"
    /\ handler[h].pc \in {"hash", "user"} => handler[h].route = "login"
    /\ handler[h].pc = "clear" => handler[h].route = "logout"
    /\ handler[h].pc = "session" => handler[h].route \in SessionRoutes \cup {"me"}
    /\ handler[h].pc \in {"act", "write"} => handler[h].route \in {"create", "rotate", "revoke"}
    /\ handler[h].pc = "key" => handler[h].route = "api"
    /\ handler[h].pc # "idle" /\ handler[h].route # "api" => handler[h].secret = 0
    /\ handler[h].pc # "idle" /\ handler[h].route \in {"rotate", "revoke"} => handler[h].key \in KeyIds

\* What was so when a request arrived is so still, and who came past the check of the
\* session passed it.
HandlerFine(h) ==
    /\ RouteFits(h)
    /\ handler[h].pc # "idle" =>
          /\ handler[h].answer = "none"
          /\ handler[h].began <= account.epoch
          /\ handler[h].barred => Barred(handler[h].route)
          /\ handler[h].dead => <<handler[h].key, handler[h].secret>> \in retired
    /\ handler[h].pc = "user" => account.password = handler[h].client
    /\ handler[h].pc \in {"act", "write"} =>
          handler[h].cookie.epoch >= handler[h].began /\ ~handler[h].barred
    /\ ~(dialect = "sqlite" /\ handler[h].pc = "write" /\ handler[h].route = "create")

AccessInv ==
    /\ AccessTypeOK
    /\ KeysInv
    /\ account.password = Nobody => account = NoAccount
    /\ seed = "update" => account.password = Operator
    /\ \A h \in Handlers : HandlerFine(h)
    /\ PasswordOwnsAccount
    /\ KeyLimit

LEMMA AccessInitInv == ASSUME AccessInit PROVE AccessInv
<1>1. AccessTypeOK
  <2>1. Idle \in Handler /\ NoCookie \in Cookie
    BY AccessAssumption, ApiKeysAssumption DEF Idle, Handler, NoCookie, Cookie
  <2>2. \A c \in Clients : [NoAccount EXCEPT !.password = c] \in Account
    BY DEF NoAccount, Account
  <2>3. NoAccount \in Account
    BY DEF NoAccount, Account
  <2>4. account \in Account
    BY <2>2, <2>3 DEF AccessInit
  <2>5. [NoCookie EXCEPT !.signed = TRUE] \in Cookie
    BY DEF NoCookie, Cookie
  <2>6. cookie \in [Clients -> Cookie]
    BY <2>1, <2>5 DEF AccessInit
  <2>7. handler \in [Handlers -> Handler]
    BY <2>1 DEF AccessInit
  <2>8. dialect \in {"sqlite", "postgres"} /\ seed \in {"idle", "insert", "update", "over"}
    BY DEF AccessInit
  <2> QED BY <2>4, <2>6, <2>7, <2>8 DEF AccessTypeOK
<1>2. ASSUME KeysInit PROVE KeysInv /\ KeyLimit
  <2>1. KeysTypeOK
    BY <1>2, ApiKeysAssumption DEF KeysInit, KeysTypeOK, KeyRow
  <2>2. ActiveKeys = {}
    BY <1>2 DEF KeysInit, ActiveKeys, Active
  <2>3. \A k \in KeyIds : KeyFine(k)
    BY <1>2 DEF KeysInit, KeyFine
  <2>4. KeysInv
    BY <1>2, <2>1, <2>2, <2>3, FS_EmptySet DEF KeysInit, KeysInv, GivenSecretsWork
  <2> QED BY <2>2, <2>4, FS_EmptySet, ApiKeysAssumption DEF KeyLimit
<1>3. ASSUME \E k \in KeyIds : KeysInitWith(k) PROVE KeysInv /\ KeyLimit
  <2>1. PICK k \in KeyIds : KeysInitWith(k)
    BY <1>3
  <2>2. 1 \in 0..MaxSecrets /\ 1 \in 1..MaxSecrets /\ 0 \in 0..MaxSecrets
    BY ApiKeysAssumption
  <2>3. /\ keyRow[k].state = "active" /\ keyRow[k].secret = 1 /\ ~keyRow[k].expired
        /\ \A j \in KeyIds \ {k} : keyRow[j].state = "none" /\ ~keyRow[j].expired
        /\ given = {<<k, 1>>} /\ retired = {}
    BY <2>1 DEF KeysInitWith
  <2>4. KeysTypeOK
    BY <2>1, <2>2 DEF KeysInitWith, KeysTypeOK, KeyRow, Secrets
  <2>5. ActiveKeys = {k}
    BY <2>3 DEF ActiveKeys, Active
  <2>6. IsFiniteSet(ActiveKeys) /\ Cardinality(ActiveKeys) = 1
    BY <2>5, FS_Singleton
  <2>7. GivenSecretsWork
    BY <2>3 DEF GivenSecretsWork, Authenticates, Active
  <2>8. \A j \in KeyIds : KeyFine(j)
    BY <2>2, <2>3 DEF KeyFine
  <2>9. KeysInv
    BY <2>3, <2>4, <2>6, <2>7, <2>8 DEF KeysInv
  <2>10. KeyLimit
    BY <2>6, ApiKeysAssumption DEF KeyLimit
  <2> QED BY <2>9, <2>10
<1>4. KeysInv /\ KeyLimit
  <2>1. KeysInit \/ \E k \in KeyIds : KeysInitWith(k)
    BY DEF AccessInit
  <2> QED BY <1>2, <1>3, <2>1
<1>5. \A h \in Handlers : handler[h].pc = "idle"
  BY DEF AccessInit, Idle
<1>6. \A h \in Handlers : HandlerFine(h)
  BY <1>5 DEF HandlerFine, RouteFits
<1>7. PasswordOwnsAccount /\ (account.password = Nobody => account = NoAccount)
  <2>1. CASE account = NoAccount /\ cookie = [c \in Clients |-> NoCookie]
    BY <2>1 DEF PasswordOwnsAccount, NoAccount, NoCookie
  <2>2. CASE \E c \in Clients : /\ account = [NoAccount EXCEPT !.password = c]
                                /\ cookie = [[d \in Clients |-> NoCookie] EXCEPT ![c] = [NoCookie EXCEPT !.signed = TRUE]]
    <3>1. PICK c \in Clients : /\ account = [NoAccount EXCEPT !.password = c]
                               /\ cookie = [[d \in Clients |-> NoCookie] EXCEPT ![c] = [NoCookie EXCEPT !.signed = TRUE]]
      BY <2>2
    <3>2. account.password = c /\ account.role = "user"
      BY <3>1 DEF NoAccount
    <3>3. \A d \in Clients : cookie[d].signed => d = c
      BY <3>1 DEF NoCookie
    <3> QED BY <3>2, <3>3, AccessAssumption DEF PasswordOwnsAccount
  <2> QED BY <2>1, <2>2 DEF AccessInit
<1> QED BY <1>1, <1>4, <1>6, <1>7 DEF AccessInit, AccessInv

-----------------------------------------------------------------------------
(* What a step does to the account, as other handlers see it *)

AccountGrows ==
    /\ account'.epoch >= account.epoch
    /\ account.password # Nobody => account'.password = account.password
    /\ account.standing = "banned" => account'.standing = "banned"
    /\ account.standing = "restricted" => account'.standing \in {"restricted", "banned"}

LEMMA SameAccountGrows == ASSUME AccessTypeOK, account' = account PROVE AccountGrows
BY DEF AccessTypeOK, Account, AccountGrows

LEMMA HandlerStays ==
  ASSUME AccessTypeOK, NEW h \in Handlers, HandlerFine(h), handler'[h] = handler[h],
         dialect' = dialect, account' \in Account, AccountGrows, retired \subseteq retired'
  PROVE  HandlerFine(h)'
<1>1. handler[h].client \in Clients /\ handler[h].began \in Nat /\ account.epoch \in Nat /\ account'.epoch \in Nat
      /\ account.standing \in {"good", "restricted", "banned"}
  BY DEF AccessTypeOK, Handler, Account
<1>2. RouteFits(h)'
  BY DEF HandlerFine, RouteFits
<1>3. handler[h].pc # "idle" => handler'[h].began <= account'.epoch
  BY <1>1 DEF HandlerFine, AccountGrows
<1>4. Barred(handler[h].route) => Barred(handler[h].route)'
  BY DEF AccountGrows, Barred
<1>5. handler[h].pc = "user" => account'.password = handler'[h].client
  BY <1>1, AccessAssumption DEF HandlerFine, AccountGrows
<1> QED BY <1>2, <1>3, <1>4, <1>5 DEF HandlerFine

\* Only handler h moves, and what it shares stays in order.
LEMMA OneHandlerMoves ==
  ASSUME AccessInv, NEW h \in Handlers, NEW r \in Handler, handler' = [handler EXCEPT ![h] = r],
         dialect' = dialect, seed' = seed, account' \in Account, AccountGrows,
         account'.password = Nobody => account' = NoAccount,
         cookie' \in [Clients -> Cookie], KeysInv', retired \subseteq retired',
         HandlerFine(h)', PasswordOwnsAccount', KeyLimit'
  PROVE  AccessInv'
<1>1. AccessTypeOK'
  BY DEF AccessInv, AccessTypeOK
<1>2. ASSUME NEW g \in Handlers PROVE HandlerFine(g)'
  <2>1. g # h => handler'[g] = handler[g]
    BY DEF AccessInv, AccessTypeOK
  <2> QED BY <2>1, HandlerStays DEF AccessInv
<1>3. seed' = "update" => account'.password = Operator
  BY AccessAssumption DEF AccessInv, AccountGrows
<1> QED BY <1>1, <1>2, <1>3 DEF AccessInv

Answers == {"refused", "accepted", "email_taken", "error", "created", "admitted", "ok"}

LEMMA AnsweredIs ==
  ASSUME AccessInv, NEW h \in Handlers, NEW a \in Answers, Answer(h, a)
  PROVE  /\ \E r \in Handler : handler' = [handler EXCEPT ![h] = r]
         /\ HandlerFine(h)'
<1>1. Idle \in Handler
  BY AccessAssumption, ApiKeysAssumption DEF Idle, Handler, NoCookie, Cookie
<1>2. [Idle EXCEPT !.answer = a] \in Handler
  BY <1>1 DEF Handler, Answers
<1>3. handler'[h].pc = "idle"
  BY DEF Answer, AccessInv, AccessTypeOK, Idle
<1>4. HandlerFine(h)'
  BY <1>3 DEF HandlerFine, RouteFits
<1> QED BY <1>2, <1>4 DEF Answer

\* A handler that answers without touching account or seed.
LEMMA AnswerInv ==
  ASSUME AccessInv, NEW h \in Handlers, NEW a \in Answers, Answer(h, a),
         UNCHANGED <<dialect, account, seed>>,
         cookie' \in [Clients -> Cookie], \A c \in Clients : cookie'[c].signed => account.password = c,
         KeysInv', retired \subseteq retired', KeyLimit'
  PROVE  AccessInv'
<1>1. PICK r \in Handler : handler' = [handler EXCEPT ![h] = r]
  BY AnsweredIs
<1>2. HandlerFine(h)'
  BY AnsweredIs
<1>3. PasswordOwnsAccount'
  BY DEF AccessInv, PasswordOwnsAccount
<1>4. account' \in Account /\ AccountGrows /\ (account'.password = Nobody => account' = NoAccount)
  BY SameAccountGrows DEF AccessInv, AccessTypeOK
<1> QED BY <1>1, <1>2, <1>3, <1>4, OneHandlerMoves

LEMMA KeysStay ==
  ASSUME AccessInv, UNCHANGED <<dialect, keyVars>>
  PROVE  KeysInv' /\ retired \subseteq retired' /\ KeyLimit'
<1>0. keyRow' = keyRow /\ given' = given /\ retired' = retired /\ dialect' = dialect
  BY DEF keyVars
<1>1. ActiveKeys' = ActiveKeys
  BY <1>0 DEF ActiveKeys, Active
<1>2. \A k \in KeyIds : KeyFine(k)' <=> KeyFine(k)
  BY DEF keyVars, KeyFine
<1>3. \A s \in retired : Withdrawn(s)' <=> Withdrawn(s)
  BY DEF keyVars, Withdrawn
<1>4. GivenSecretsWork' <=> GivenSecretsWork
  BY DEF keyVars, GivenSecretsWork, Authenticates, Active
<1>5. KeysTypeOK' <=> KeysTypeOK
  BY DEF keyVars, KeysTypeOK
<1> QED BY <1>1, <1>2, <1>3, <1>4, <1>5 DEF AccessInv, KeysInv, KeyLimit, keyVars

\* A handler that answers and changes nothing else.
LEMMA QuietAnswerInv ==
  ASSUME AccessInv, NEW h \in Handlers, NEW a \in Answers, Answer(h, a),
         UNCHANGED <<dialect, account, seed, cookie, keyVars>>
  PROVE  AccessInv'
<1>1. cookie' \in [Clients -> Cookie] /\ \A c \in Clients : cookie'[c].signed => account.password = c
  BY DEF AccessInv, AccessTypeOK, PasswordOwnsAccount
<1>2. KeysInv' /\ retired \subseteq retired' /\ KeyLimit'
  BY KeysStay
<1> QED BY <1>1, <1>2, AnswerInv

\* A handler that goes on and changes nothing else.
LEMMA GotoInv ==
  ASSUME AccessInv, NEW h \in Handlers,
         NEW pc \in {"insert", "user", "act", "write"}, Goto(h, pc),
         UNCHANGED <<dialect, account, seed, cookie, keyVars>>, handler[h].pc # "idle",
         pc = "insert" => handler[h].route = "register",
         pc = "user" => handler[h].route = "login" /\ account.password = handler[h].client,
         pc \in {"act", "write"} =>
            /\ handler[h].route \in {"create", "rotate", "revoke"}
            /\ handler[h].cookie.epoch >= handler[h].began /\ ~handler[h].barred,
         pc = "write" /\ handler[h].route = "create" => dialect # "sqlite"
  PROVE  AccessInv'
<1> DEFINE r == [handler[h] EXCEPT !.pc = pc]
<1>1. handler \in [Handlers -> Handler] /\ handler[h] \in Handler
  BY DEF AccessInv, AccessTypeOK
<1>2. r \in Handler
  BY <1>1 DEF Handler
<1>3. handler' = [handler EXCEPT ![h] = r]
  BY DEF Goto
<1>4. /\ handler'[h].pc = pc /\ handler'[h].answer = handler[h].answer /\ handler'[h].route = handler[h].route
      /\ handler'[h].client = handler[h].client /\ handler'[h].cookie = handler[h].cookie
      /\ handler'[h].key = handler[h].key /\ handler'[h].secret = handler[h].secret
      /\ handler'[h].began = handler[h].began /\ handler'[h].barred = handler[h].barred
      /\ handler'[h].dead = handler[h].dead
  BY <1>1, <1>3 DEF Handler
<1>5. RouteFits(h)'
  BY <1>4 DEF AccessInv, HandlerFine, RouteFits
<1>6. Barred(handler[h].route)' <=> Barred(handler[h].route)
  BY <1>4 DEF Barred
<1>k. retired' = retired
  BY DEF keyVars
<1>7. HandlerFine(h)'
  <2>1. HandlerFine(h)
    BY DEF AccessInv
  <2>2. /\ handler'[h].answer = "none" /\ handler'[h].began <= account'.epoch
        /\ handler'[h].barred => Barred(handler[h].route)'
        /\ handler'[h].dead => <<handler'[h].key, handler'[h].secret>> \in retired'
    BY <1>4, <1>6, <1>k, <2>1 DEF HandlerFine, Barred
  <2>3. handler'[h].pc = "user" => account'.password = handler'[h].client
    BY <1>4
  <2>4. handler'[h].pc \in {"act", "write"} =>
           handler'[h].cookie.epoch >= handler'[h].began /\ ~handler'[h].barred
    BY <1>4
  <2>5. ~(dialect' = "sqlite" /\ handler'[h].pc = "write" /\ handler'[h].route = "create")
    BY <1>4
  <2> QED BY <1>5, <2>2, <2>3, <2>4, <2>5 DEF HandlerFine
<1>8. account' \in Account /\ AccountGrows /\ (account'.password = Nobody => account' = NoAccount)
  BY SameAccountGrows DEF AccessInv, AccessTypeOK
<1>9. cookie' \in [Clients -> Cookie] /\ PasswordOwnsAccount'
  BY DEF AccessInv, AccessTypeOK, PasswordOwnsAccount
<1> QED BY <1>2, <1>3, <1>7, <1>8, <1>9, KeysStay, OneHandlerMoves

-----------------------------------------------------------------------------
(* One lemma for every action *)

LEMMA TypesOf ==
  ASSUME AccessInv, NEW h \in Handlers
  PROVE  /\ handler[h].client \in Clients /\ handler[h].cookie \in Cookie /\ handler[h].key \in KeyIds \cup {0}
         /\ handler[h].began \in Nat /\ account.epoch \in Nat /\ account.password \in Clients \cup {Nobody}
         /\ cookie \in [Clients -> Cookie] /\ account \in Account
         /\ \A c \in Clients : cookie[c].signed => account.password = c
         /\ HandlerFine(h) /\ RouteFits(h)
BY DEF AccessInv, AccessTypeOK, Handler, Account, HandlerFine, PasswordOwnsAccount

LEMMA FindInv == ASSUME AccessInv, NEW h \in Handlers, Find(h) PROVE AccessInv'
<1>1. UNCHANGED <<dialect, account, seed, cookie, keyVars>> /\ handler[h].pc = "find"
  BY DEF Find, Settings, Tables, At
<1>2. CASE Answer(h, Taken)
  <2>1. Taken \in Answers
    BY DEF Taken, Answers
  <2> QED BY <1>1, <1>2, <2>1, QuietAnswerInv
<1>3. CASE Goto(h, "insert")
  <2>1. handler[h].route = "register"
    BY <1>1, TypesOf DEF RouteFits
  <2> QED BY <1>1, <1>3, <2>1, GotoInv
<1> QED BY <1>2, <1>3 DEF Find

LEMMA InsertInv == ASSUME AccessInv, NEW h \in Handlers, Insert(h) PROVE AccessInv'
<1>1. UNCHANGED <<dialect, seed, keyVars>>
  BY DEF Insert, Settings
<1>2. CASE Exists
  <2>1. Answer(h, RaceAnswer) /\ UNCHANGED <<account, cookie>>
    BY <1>2 DEF Insert
  <2>2. RaceAnswer \in Answers
    BY DEF RaceAnswer, Taken, Answers
  <2> QED BY <1>1, <2>1, <2>2, QuietAnswerInv
<1>3. CASE ~Exists
  <2>v. PICK c : c = handler[h].client
    OBVIOUS
  <2>1. account.password = Nobody /\ account = NoAccount /\ c \in Clients
    BY <1>3, <2>v, TypesOf DEF AccessInv, Exists
  <2>2. account' = [NoAccount EXCEPT !.password = c]
    BY <1>3, <2>v DEF Insert
  <2>3. account'.password = c /\ account'.role = "user" /\ account'.epoch = 0 /\ account'.standing = "good"
        /\ account' \in Account
    BY <2>1, <2>2 DEF NoAccount, Account
  <2>4. AccountGrows
    BY <2>1, <2>3 DEF AccountGrows, NoAccount
  <2>5. c # Nobody
    BY <2>1, AccessAssumption
  <2>6. Issued \in Cookie
    BY TypesOf DEF Issued, Cookie
  <2>7. cookie' \in [Clients -> Cookie] /\ \A d \in Clients : cookie'[d].signed => d = c
    <3>1. \A d \in Clients : ~cookie[d].signed
      BY <2>1, TypesOf, AccessAssumption
    <3>2. cookie' = cookie \/ cookie' = [cookie EXCEPT ![c] = Issued]
      BY <1>3, <2>v DEF Insert
    <3>3. cookie \in [Clients -> Cookie]
      BY TypesOf
    <3> QED BY <2>1, <2>6, <3>1, <3>2, <3>3
  <2>8. PasswordOwnsAccount'
    BY <2>3, <2>7 DEF PasswordOwnsAccount
  <2>9. \E a \in Answers : Answer(h, a)
    BY <1>3 DEF Insert, Answers
  <2>10. PICK a \in Answers : Answer(h, a)
    BY <2>9
  <2>11. PICK r \in Handler : handler' = [handler EXCEPT ![h] = r]
    BY <2>10, AnsweredIs
  <2>12. HandlerFine(h)'
    BY <2>10, AnsweredIs
  <2>13. KeysInv' /\ retired \subseteq retired' /\ KeyLimit'
    BY <1>1, KeysStay
  <2>14. account' \in Account /\ (account'.password = Nobody => account' = NoAccount)
    BY <2>3, <2>5
  <2> QED BY <1>1, <2>4, <2>7, <2>8, <2>11, <2>12, <2>13, <2>14, OneHandlerMoves
<1> QED BY <1>2, <1>3

LEMMA HashInv == ASSUME AccessInv, NEW h \in Handlers, Hash(h) PROVE AccessInv'
<1>1. UNCHANGED <<dialect, account, seed, cookie, keyVars>> /\ handler[h].pc = "hash"
  BY DEF Hash, Settings, Tables, At
<1>2. CASE account.password = handler[h].client
  <2>1. handler[h].route = "login" /\ Goto(h, "user")
    BY <1>1, <1>2, TypesOf DEF RouteFits, Hash
  <2> QED BY <1>1, <1>2, <2>1, GotoInv
<1>3. CASE account.password # handler[h].client
  <2>1. Answer(h, "refused") /\ "refused" \in Answers
    BY <1>3 DEF Hash, Answers
  <2> QED BY <1>1, <2>1, QuietAnswerInv
<1> QED BY <1>2, <1>3

\* A handler that answers and writes a cookie of its client.
LEMMA CookieInv ==
  ASSUME AccessInv, NEW h \in Handlers, NEW a \in Answers, Answer(h, a),
         UNCHANGED <<dialect, account, seed, keyVars>>,
         NEW x \in Cookie, cookie' = [cookie EXCEPT ![handler[h].client] = x],
         x.signed => account.password = handler[h].client
  PROVE  AccessInv'
<1>1. cookie' \in [Clients -> Cookie] /\ \A c \in Clients : cookie'[c].signed => account.password = c
  BY TypesOf
<1>2. KeysInv' /\ retired \subseteq retired' /\ KeyLimit'
  BY KeysStay
<1> QED BY <1>1, <1>2, AnswerInv

LEMMA UserInv == ASSUME AccessInv, NEW h \in Handlers, User(h) PROVE AccessInv'
<1>1. UNCHANGED <<dialect, account, seed, keyVars>> /\ handler[h].pc = "user"
  BY DEF User, Settings, Tables, At
<1>2. CASE account.standing = "banned"
  <2>1. Answer(h, "refused") /\ UNCHANGED cookie /\ "refused" \in Answers
    BY <1>2 DEF User, Answers
  <2> QED BY <1>1, <2>1, QuietAnswerInv
<1>3. CASE account.standing # "banned"
  <2>1. Answer(h, "admitted") /\ cookie' = [cookie EXCEPT ![handler[h].client] = Issued] /\ "admitted" \in Answers
    BY <1>3 DEF User, Answers
  <2>2. Issued \in Cookie
    BY TypesOf DEF Issued, Cookie
  <2>3. account.password = handler[h].client
    BY <1>1, TypesOf DEF HandlerFine
  <2> QED BY <1>1, <2>1, <2>2, <2>3, CookieInv
<1> QED BY <1>2, <1>3

LEMMA ClearInv == ASSUME AccessInv, NEW h \in Handlers, Clear(h) PROVE AccessInv'
<1>1. UNCHANGED <<dialect, account, seed, keyVars>> /\ Answer(h, "ok") /\ "ok" \in Answers
      /\ cookie' = [cookie EXCEPT ![handler[h].client] = NoCookie]
  BY DEF Clear, Settings, Tables, Answers
<1>2. NoCookie \in Cookie /\ ~NoCookie.signed
  BY DEF NoCookie, Cookie
<1> QED BY <1>1, <1>2, CookieInv

LEMMA SessionInv == ASSUME AccessInv, NEW h \in Handlers, Session(h) PROVE AccessInv'
<1>1. UNCHANGED <<dialect, account, seed, cookie, keyVars>> /\ handler[h].pc = "session"
  BY DEF Session, Settings, Tables, At
<1>2. ASSUME NEW a \in {"refused", "admitted"}, Answer(h, a) PROVE AccessInv'
  <2>1. a \in Answers
    BY <1>2 DEF Answers
  <2> QED BY <1>1, <1>2, <2>1, QuietAnswerInv
<1>3. CASE SessionHolds(h) /\ handler[h].route \notin {"me", "chat"} /\ Goto(h, "act")
  <2>1. handler[h].route \in {"create", "rotate", "revoke"}
    BY <1>1, <1>3, TypesOf DEF RouteFits, SessionRoutes
  <2>2. handler[h].cookie.epoch >= handler[h].began /\ ~handler[h].barred
    BY <1>1, <1>3, TypesOf DEF SessionHolds, HandlerFine, Cookie
  <2> QED BY <1>1, <1>3, <2>1, <2>2, GotoInv
<1> QED BY <1>2, <1>3 DEF Session

LEMMA LimitStays ==
  ASSUME AccessInv, UNCHANGED dialect, ActiveKeys' \subseteq ActiveKeys
  PROVE  KeyLimit'
<1>1. IsFiniteSet(ActiveKeys)
  BY DEF AccessInv, KeysInv
<1>2. /\ Cardinality(ActiveKeys') \in Nat /\ Cardinality(ActiveKeys) \in Nat
      /\ Cardinality(ActiveKeys') <= Cardinality(ActiveKeys)
  BY <1>1, FS_Subset, FS_CardinalityType
<1> QED BY <1>2, ApiKeysAssumption DEF AccessInv, KeyLimit

\* A handler that answers after a statement about a key.
LEMMA KeyAnswerInv ==
  ASSUME AccessInv, NEW h \in Handlers, NEW a \in Answers, Answer(h, a),
         UNCHANGED <<dialect, account, seed, cookie>>, KeysInv', retired \subseteq retired', KeyLimit'
  PROVE  AccessInv'
<1>1. cookie' \in [Clients -> Cookie] /\ \A c \in Clients : cookie'[c].signed => account.password = c
  BY TypesOf
<1> QED BY <1>1, AnswerInv

LEMMA CreateInv == ASSUME AccessInv, NEW h \in Handlers, Create(h) PROVE AccessInv'
<1>1. UNCHANGED <<dialect, account, seed, cookie>> /\ handler[h].pc = "act" /\ handler[h].route = "create"
      /\ "refused" \in Answers /\ "admitted" \in Answers
  BY DEF Create, Settings, Tables, At, Answers
<1>2. CASE ~RoomForKey
  <2>1. Answer(h, "refused") /\ UNCHANGED keyVars
    BY <1>2 DEF Create
  <2> QED BY <1>1, <2>1, QuietAnswerInv
<1>3. CASE RoomForKey /\ CreateTogether
  <2>1. Answer(h, "admitted") /\ \E k \in KeyIds : InsertKey(k)
    BY <1>3 DEF Create
  <2>2. PICK k \in KeyIds : InsertKey(k)
    BY <2>1
  <2>3. KeysInv' /\ ActiveKeys' = ActiveKeys \cup {k}
    BY <2>2, InsertKeyInv DEF AccessInv
  <2>4. KeyLimit'
    <3>1. IsFiniteSet(ActiveKeys)
      BY DEF AccessInv, KeysInv
    <3>2. /\ Cardinality(ActiveKeys) \in Nat
          /\ Cardinality(ActiveKeys \cup {k}) = Cardinality(ActiveKeys)
             \/ Cardinality(ActiveKeys \cup {k}) = Cardinality(ActiveKeys) + 1
      BY <3>1, FS_AddElement, FS_CardinalityType
    <3> QED BY <1>3, <2>3, <3>2, ApiKeysAssumption DEF RoomForKey, KeyLimit
  <2>5. retired \subseteq retired'
    BY <2>2 DEF InsertKey
  <2> QED BY <1>1, <2>1, <2>3, <2>4, <2>5, KeyAnswerInv
<1>4. CASE RoomForKey /\ ~CreateTogether
  <2>1. Goto(h, "write") /\ UNCHANGED keyVars /\ dialect # "sqlite"
    BY <1>4 DEF Create, CreateTogether
  <2>2. handler[h].cookie.epoch >= handler[h].began /\ ~handler[h].barred
    BY <1>1, TypesOf DEF HandlerFine
  <2> QED BY <1>1, <2>1, <2>2, GotoInv
<1> QED BY <1>2, <1>3, <1>4

LEMMA CreateWriteInv == ASSUME AccessInv, NEW h \in Handlers, CreateWrite(h) PROVE AccessInv'
<1>1. UNCHANGED <<dialect, account, seed, cookie>> /\ handler[h].pc = "write" /\ handler[h].route = "create"
      /\ Answer(h, "admitted") /\ "admitted" \in Answers
  BY DEF CreateWrite, Settings, Tables, At, Answers
<1>2. PICK k \in KeyIds : InsertKey(k)
  BY DEF CreateWrite
<1>3. KeysInv' /\ retired \subseteq retired'
  BY <1>2, InsertKeyInv DEF AccessInv, InsertKey
<1>4. dialect # "sqlite"
  BY <1>1, TypesOf DEF HandlerFine
<1>5. KeyLimit'
  BY <1>1, <1>4 DEF KeyLimit
<1> QED BY <1>1, <1>3, <1>5, KeyAnswerInv

LEMMA RotateInv == ASSUME AccessInv, NEW h \in Handlers, Rotate(h) PROVE AccessInv'
<1>1. UNCHANGED <<dialect, account, seed, cookie, keyVars>> /\ handler[h].pc = "act" /\ handler[h].route = "rotate"
      /\ "refused" \in Answers
  BY DEF Rotate, Settings, Tables, At, Answers
<1>2. CASE Answer(h, "refused")
  BY <1>1, <1>2, QuietAnswerInv
<1>3. CASE Goto(h, "write")
  <2>1. handler[h].cookie.epoch >= handler[h].began /\ ~handler[h].barred
    BY <1>1, TypesOf DEF HandlerFine
  <2> QED BY <1>1, <1>3, <2>1, GotoInv
<1> QED BY <1>2, <1>3 DEF Rotate

LEMMA RotateWriteInv == ASSUME AccessInv, NEW h \in Handlers, RotateWrite(h) PROVE AccessInv'
<1>1. UNCHANGED <<dialect, account, seed, cookie>> /\ handler[h].pc = "write" /\ handler[h].route = "rotate"
      /\ "refused" \in Answers /\ "admitted" \in Answers
  BY DEF RotateWrite, Settings, Tables, At, Answers
<1>2. CASE RotateKey(handler[h].key) /\ Answer(h, "admitted")
  <2>1. handler[h].key \in KeyIds
    BY <1>1, TypesOf DEF RouteFits
  <2>2. KeysInv' /\ ActiveKeys' = ActiveKeys
    BY <1>2, <2>1, RotateKeyInv DEF AccessInv
  <2>3. retired \subseteq retired'
    BY <1>2 DEF RotateKey
  <2>4. KeyLimit'
    BY <1>1, <2>2, LimitStays
  <2> QED BY <1>1, <1>2, <2>2, <2>3, <2>4, KeyAnswerInv
<1>3. CASE Answer(h, "refused") /\ UNCHANGED keyVars
  BY <1>1, <1>3, QuietAnswerInv
<1> QED BY <1>2, <1>3 DEF RotateWrite

LEMMA RevokeInv == ASSUME AccessInv, NEW h \in Handlers, Revoke(h) PROVE AccessInv'
<1>1. UNCHANGED <<dialect, account, seed, cookie>> /\ handler[h].pc = "act" /\ handler[h].route = "revoke"
      /\ "admitted" \in Answers /\ RevokeKey(handler[h].key) /\ Answer(h, "admitted")
  BY DEF Revoke, Settings, Tables, At, Answers
<1>2. handler[h].key \in KeyIds
  BY <1>1, TypesOf DEF RouteFits
<1>3. KeysInv' /\ ActiveKeys' \subseteq ActiveKeys
  BY <1>1, <1>2, RevokeKeyInv DEF AccessInv
<1>4. retired \subseteq retired'
  BY <1>1 DEF RevokeKey
<1>5. KeyLimit'
  BY <1>1, <1>3, LimitStays
<1> QED BY <1>1, <1>3, <1>4, <1>5, KeyAnswerInv

LEMMA UseKeyInv == ASSUME AccessInv, NEW h \in Handlers, UseKey(h) PROVE AccessInv'
<1>1. UNCHANGED <<dialect, account, seed, cookie, keyVars>>
  BY DEF UseKey, Settings, Tables
<1>2. "refused" \in Answers /\ "admitted" \in Answers
  BY DEF Answers
<1>3. Answer(h, "admitted") \/ Answer(h, "refused")
  BY DEF UseKey
<1> QED BY <1>1, <1>2, <1>3, QuietAnswerInv

LEMMA FirstStepIs ==
  ASSUME NEW route \in Routes
  PROVE  /\ FirstStep(route) \in {"find", "hash", "clear", "session", "key"}
         /\ FirstStep(route) = "find" => route = "register"
         /\ FirstStep(route) = "hash" => route = "login"
         /\ FirstStep(route) = "clear" => route = "logout"
         /\ FirstStep(route) = "session" => route \in SessionRoutes \cup {"me"}
         /\ FirstStep(route) = "key" => route = "api"
BY DEF FirstStep, Routes, SessionRoutes

LEMMA NamesIs ==
  ASSUME NEW route \in Routes, NEW k \in KeyIds \cup {0}, NEW n \in 0..MaxSecrets, Names(route, k, n)
  PROVE  /\ route # "api" => n = 0
         /\ route \in {"rotate", "revoke"} => k \in KeyIds
BY DEF Names, Routes

LEMMA ArriveInv ==
  ASSUME AccessInv, NEW h \in Handlers, NEW c \in Clients, NEW route \in Routes,
         NEW k \in KeyIds \cup {0}, NEW n \in 0..MaxSecrets, Arrive(h, c, route, k, n)
  PROVE  AccessInv'
<1>v. PICK x, b, d, e, pc :
         /\ x = (IF NeedsCookie(route) THEN cookie[c] ELSE NoCookie)
         /\ b = Barred(route) /\ d = (<<k, n>> \in retired) /\ e = account.epoch /\ pc = FirstStep(route)
  OBVIOUS
<1>p. PICK r : r = [pc |-> pc, route |-> route, client |-> c, cookie |-> x, key |-> k, secret |-> n,
                    answer |-> "none", began |-> e, barred |-> b, dead |-> d]
  OBVIOUS
<1>1. /\ handler \in [Handlers -> Handler] /\ cookie \in [Clients -> Cookie] /\ account \in Account
  BY DEF AccessInv, AccessTypeOK
<1>2. x \in Cookie /\ b \in BOOLEAN /\ d \in BOOLEAN /\ e \in Nat
  BY <1>v, <1>1 DEF Cookie, NoCookie, Barred, Account
<1>3. handler' = [handler EXCEPT ![h] = r]
  BY <1>v, <1>p DEF Arrive
<1>4. r \in Handler
  BY <1>v, <1>p, <1>2, FirstStepIs DEF Handler
<1>5. handler'[h] = r
  BY <1>1, <1>3
<1>6. /\ handler'[h].pc = pc /\ handler'[h].route = route /\ handler'[h].answer = "none"
      /\ handler'[h].key = k /\ handler'[h].secret = n
      /\ handler'[h].began = e /\ handler'[h].barred = b /\ handler'[h].dead = d
  BY <1>5, <1>p
<1>7. account' = account /\ dialect' = dialect /\ seed' = seed /\ cookie' = cookie /\ UNCHANGED keyVars
      /\ retired' = retired
  BY DEF Arrive, Tables, keyVars
<1>8. HandlerFine(h)'
  <2>1. RouteFits(h)'
    BY <1>v, <1>6, FirstStepIs, NamesIs DEF Arrive, RouteFits
  <2>2. handler'[h].began <= account'.epoch
    BY <1>v, <1>2, <1>6, <1>7
  <2>3. handler'[h].barred => Barred(handler[h].route)'
    BY <1>v, <1>6, <1>7 DEF Barred
  <2>4. handler'[h].dead => <<handler'[h].key, handler'[h].secret>> \in retired'
    BY <1>v, <1>6, <1>7
  <2>5. handler'[h].pc \notin {"user", "act", "write"}
    BY <1>v, <1>6, FirstStepIs
  <2> QED BY <1>6, <2>1, <2>2, <2>3, <2>4, <2>5 DEF HandlerFine
<1>9. account' \in Account /\ AccountGrows /\ (account'.password = Nobody => account' = NoAccount)
  BY <1>7, SameAccountGrows DEF AccessInv, AccessTypeOK
<1>10. cookie' \in [Clients -> Cookie] /\ PasswordOwnsAccount'
  BY <1>7 DEF AccessInv, AccessTypeOK, PasswordOwnsAccount
<1> QED BY <1>3, <1>4, <1>7, <1>8, <1>9, <1>10, KeysStay, OneHandlerMoves

\* A step of the operator: no handler moves.
LEMMA OperatorInv ==
  ASSUME AccessInv, UNCHANGED <<dialect, cookie, handler, keyVars>>,
         account' \in Account, AccountGrows, account'.password = Nobody => account' = NoAccount,
         seed' \in {"idle", "insert", "update", "over"}, seed' = "update" => account'.password = Operator,
         account'.role = "admin" => account'.password = Operator
  PROVE  AccessInv'
<1>1. AccessTypeOK'
  BY DEF AccessInv, AccessTypeOK
<1>2. KeysInv' /\ retired \subseteq retired' /\ KeyLimit'
  BY KeysStay
<1>3. \A h \in Handlers : HandlerFine(h)'
  BY <1>2, HandlerStays DEF AccessInv
<1>4. \A c \in Clients : cookie'[c].signed => account'.password = c
  BY AccessAssumption DEF AccessInv, PasswordOwnsAccount, AccountGrows
<1> QED BY <1>1, <1>2, <1>3, <1>4 DEF AccessInv, PasswordOwnsAccount

LEMMA AccountOf ==
  ASSUME AccessInv
  PROVE  /\ account \in Account /\ account.epoch \in Nat /\ seed \in {"idle", "insert", "update", "over"}
         /\ account.password = Nobody => account = NoAccount
         /\ account.role = "admin" => account.password = Operator
         /\ seed = "update" => account.password = Operator
BY DEF AccessInv, AccessTypeOK, Account, PasswordOwnsAccount

LEMMA OperatorStepInv == ASSUME AccessInv, OperatorStep PROVE AccessInv'
<1>1. UNCHANGED <<dialect, cookie, handler, keyVars>>
  BY DEF OperatorStep, SeedRead, SeedWrite, RevokeSessions, SetStanding, Settings
<1>2. CASE SeedRead
  <2>1. account' = account
    BY <1>2 DEF SeedRead
  <2>2. seed' \in {"insert", "update", "over"} /\ (seed' = "update" => account.password = Operator)
    BY <1>2 DEF SeedRead
  <2>3. AccountGrows
    BY <2>1, SameAccountGrows DEF AccessInv
  <2>4. account' \in Account /\ (account'.password = Nobody => account' = NoAccount)
        /\ (account'.role = "admin" => account'.password = Operator)
        /\ seed' \in {"idle", "insert", "update", "over"} /\ (seed' = "update" => account'.password = Operator)
    BY <2>1, <2>2, AccountOf
  <2> QED BY <1>1, <2>3, <2>4, OperatorInv
<1>3. CASE SeedWrite
  <2>1. account' = account \/ account' = [account EXCEPT !.role = "admin"]
           \/ account' = [NoAccount EXCEPT !.password = Operator, !.role = "admin"]
    BY <1>3 DEF SeedWrite, SeedInsert
  <2>2. seed' = "over"
    BY <1>3 DEF SeedWrite
  <2>3. CASE account' = account
    <3>1. AccountGrows
      BY <2>3, SameAccountGrows DEF AccessInv
    <3> QED BY <1>1, <2>2, <2>3, <3>1, AccountOf, OperatorInv
  <2>4. CASE seed = "insert" /\ ~Exists
    <3>1. account' = [NoAccount EXCEPT !.password = Operator, !.role = "admin"] /\ account = NoAccount
      BY <1>3, <2>4, AccountOf DEF SeedWrite, SeedInsert, Exists
    <3>2. account'.password = Operator /\ account'.epoch = 0 /\ account' \in Account
      BY <3>1, AccessAssumption DEF NoAccount, Account
    <3>3. AccountGrows
      BY <3>1, <3>2 DEF AccountGrows, NoAccount
    <3>4. account'.password # Nobody
      BY <3>2, AccessAssumption
    <3> QED BY <1>1, <2>2, <3>2, <3>3, <3>4, OperatorInv
  <2>5. CASE seed = "update"
    <3>1. account' = [account EXCEPT !.role = "admin"] /\ account.password = Operator
      BY <1>3, <2>5, AccountOf DEF SeedWrite
    <3>2. account'.password = Operator /\ account'.epoch = account.epoch /\ account' \in Account
          /\ account'.standing = account.standing
      BY <3>1, AccountOf DEF Account
    <3>3. AccountGrows
      BY <3>1, <3>2, AccountOf DEF AccountGrows
    <3>4. account'.password # Nobody
      BY <3>2, AccessAssumption
    <3> QED BY <1>1, <2>2, <3>2, <3>3, <3>4, OperatorInv
  <2> QED BY <1>3, <2>3, <2>4, <2>5 DEF SeedWrite, SeedInsert
<1>4. CASE RevokeSessions
  <2>1. account.password # Nobody /\ account' = [account EXCEPT !.epoch = account.epoch + 1] /\ seed' = seed
    BY <1>4 DEF RevokeSessions, Exists
  <2>2. /\ account'.password = account.password /\ account'.role = account.role
        /\ account'.epoch = account.epoch + 1 /\ account'.standing = account.standing
        /\ account' \in Account
    BY <2>1, AccountOf DEF Account
  <2>3. AccountGrows
    BY <2>2, AccountOf DEF AccountGrows
  <2> QED BY <1>1, <2>1, <2>2, <2>3, AccountOf, OperatorInv
<1>5. ASSUME NEW standing \in {"restricted", "banned"}, SetStanding(standing) PROVE AccessInv'
  <2>1. account.password # Nobody /\ account.standing # "banned" /\ seed' = seed
        /\ account' = [account EXCEPT !.standing = standing]
    BY <1>5 DEF SetStanding, Exists
  <2>2. /\ account'.password = account.password /\ account'.role = account.role
        /\ account'.epoch = account.epoch /\ account'.standing = standing
        /\ account' \in Account
    BY <2>1, AccountOf DEF Account
  <2>3. AccountGrows
    BY <2>1, <2>2, AccountOf DEF AccountGrows
  <2> QED BY <1>1, <2>1, <2>2, <2>3, AccountOf, OperatorInv
<1> QED BY <1>2, <1>3, <1>4, <1>5 DEF OperatorStep

LEMMA ExpireInv ==
  ASSUME AccessInv, NEW k \in KeyIds, ExpireKey(k), UNCHANGED accessVars
  PROVE  AccessInv'
<1>1. UNCHANGED <<dialect, account, cookie, handler, seed>>
  BY DEF accessVars
<1>2. KeysInv' /\ ActiveKeys' \subseteq ActiveKeys
  BY ExpireKeyInv DEF AccessInv
<1>3. KeyLimit'
  BY <1>1, <1>2, LimitStays
<1>4. AccountGrows /\ account' \in Account /\ retired \subseteq retired'
  BY <1>1, SameAccountGrows DEF AccessInv, AccessTypeOK, ExpireKey
<1>5. \A h \in Handlers : HandlerFine(h)'
  BY <1>1, <1>4, HandlerStays DEF AccessInv
<1>6. AccessTypeOK' /\ PasswordOwnsAccount'
  BY <1>1 DEF AccessInv, AccessTypeOK, PasswordOwnsAccount
<1> QED BY <1>1, <1>2, <1>3, <1>5, <1>6 DEF AccessInv

LEMMA AccessStepInv == ASSUME AccessInv, [AccessNext]_allVars PROVE AccessInv'
<1>1. ASSUME NEW h \in Handlers, HandlerStep(h) PROVE AccessInv'
  BY <1>1, FindInv, InsertInv, HashInv, UserInv, ClearInv, SessionInv, CreateInv, CreateWriteInv,
     RotateInv, RotateWriteInv, RevokeInv, UseKeyInv DEF HandlerStep
<1>2. CASE UNCHANGED allVars
  <2>1. UNCHANGED <<dialect, account, cookie, handler, seed, keyVars>>
    BY <1>2 DEF allVars, accessVars
  <2> QED BY <2>1, AccountOf, SameAccountGrows, OperatorInv DEF AccessInv
<1>3. ASSUME NEW h \in Handlers, NEW c \in Clients, NEW route \in Routes, NEW k \in KeyIds \cup {0},
             NEW n \in 0..MaxSecrets, Arrive(h, c, route, k, n)
      PROVE  AccessInv'
  BY <1>3, ArriveInv
<1>4. ASSUME NEW k \in KeyIds, ExpireKey(k), UNCHANGED accessVars PROVE AccessInv'
  BY <1>4, ExpireInv
<1> QED BY <1>1, <1>2, <1>3, <1>4, OperatorStepInv DEF AccessNext

-----------------------------------------------------------------------------
(* Who is admitted *)

Fair(h) ==
    /\ NeedsCookie(handler[h].route) => handler[h].cookie.epoch >= handler[h].began
    /\ ~handler[h].barred /\ ~handler[h].dead

\* A request without a secret names none that was withdrawn.
LEMMA NoSecretNoDeath ==
  ASSUME AccessInv, NEW h \in Handlers, handler[h].pc # "idle", handler[h].route # "api"
  PROVE  ~handler[h].dead
<1>1. handler[h].secret = 0
  BY TypesOf DEF RouteFits
<1>2. \A s \in retired : s[2] \in 1..MaxSecrets
  BY SecretsAre DEF AccessInv, KeysInv, KeysTypeOK
<1>3. <<handler[h].key, handler[h].secret>> \notin retired
  BY <1>1, <1>2
<1> QED BY <1>3, TypesOf DEF HandlerFine

LEMMA HandlerAdmits == ASSUME AccessInv, NEW h \in Handlers, HandlerStep(h), Admits(h) PROVE Fair(h)
<1>1. handler \in [Handlers -> Handler] /\ HandlerFine(h) /\ RouteFits(h) /\ handler[h].pc # "idle"
      /\ handler[h].answer = "none" /\ handler'[h].answer = "admitted"
  BY TypesOf DEF AccessInv, AccessTypeOK, HandlerFine, Admits, At
<1>2. ASSUME NEW a, Answer(h, a) PROVE a = "admitted"
  <2>1. handler'[h] = [Idle EXCEPT !.answer = a]
    BY <1>1, <1>2 DEF Answer
  <2> QED BY <1>1, <2>1 DEF Idle
<1>3. ASSUME NEW pc, Goto(h, pc) PROVE FALSE
  <2>1. handler'[h] = [handler[h] EXCEPT !.pc = pc] /\ handler[h] \in Handler
    BY <1>1, <1>3 DEF Goto
  <2>2. handler'[h].answer = handler[h].answer
    BY <2>1 DEF Handler
  <2> QED BY <1>1, <2>2
<1>4. ASSUME handler[h].pc \in {"act", "write"} PROVE Fair(h)
  <2>1. handler[h].route # "api"
    BY <1>1, <1>4 DEF RouteFits
  <2> QED BY <1>1, <1>4, <2>1, NoSecretNoDeath DEF HandlerFine, Fair
<1>5. ~Find(h) /\ ~Hash(h) /\ ~Clear(h)
  BY <1>2, <1>3 DEF Find, Hash, Clear, Taken
<1>6. ~Insert(h)
  <2>1. ~Answer(h, RaceAnswer) /\ ~Answer(h, "accepted") /\ ~Answer(h, "created")
    BY <1>2 DEF RaceAnswer, Taken
  <2> QED BY <2>1 DEF Insert
<1>7. CASE User(h)
  <2>1. handler[h].pc = "user" /\ handler[h].route = "login"
    BY <1>1, <1>7 DEF User, At, RouteFits
  <2>2. account.standing # "banned"
    BY <1>2, <1>7 DEF User
  <2>3. ~Barred("login")
    BY <2>2 DEF Barred
  <2> QED BY <1>1, <2>1, <2>3, NoSecretNoDeath DEF HandlerFine, Fair, NeedsCookie, SessionRoutes
<1>8. CASE Session(h)
  <2>1. handler[h].pc = "session" /\ SessionHolds(h)
    BY <1>2, <1>8 DEF Session, At
  <2>2. handler[h].route # "api"
    BY <1>1, <2>1 DEF RouteFits, SessionRoutes
  <2>3. handler[h].cookie.epoch >= handler[h].began /\ ~handler[h].barred
    BY <1>1, <2>1, TypesOf DEF SessionHolds, HandlerFine
  <2> QED BY <1>1, <2>2, <2>3, NoSecretNoDeath DEF Fair
<1>9. CASE Create(h) \/ CreateWrite(h) \/ Rotate(h) \/ RotateWrite(h) \/ Revoke(h)
  BY <1>4, <1>9 DEF Create, CreateWrite, Rotate, RotateWrite, Revoke, At
<1>10. CASE UseKey(h)
  <2>1. handler[h].pc = "key" /\ handler[h].route = "api"
    BY <1>1, <1>10 DEF UseKey, At, RouteFits
  <2>2. Authenticates(<<handler[h].key, handler[h].secret>>) /\ ~Barred("api")
    BY <1>2, <1>10 DEF UseKey
  <2>3. ~handler[h].dead
    BY <1>1, <2>2, WithdrawnIsDead DEF AccessInv, HandlerFine
  <2> QED BY <1>1, <2>1, <2>2, <2>3 DEF HandlerFine, Fair, NeedsCookie, SessionRoutes
<1> QED BY <1>5, <1>6, <1>7, <1>8, <1>9, <1>10 DEF HandlerStep

LEMMA AnyoneAdmits ==
  ASSUME AccessInv, [AccessNext]_allVars, NEW h \in Handlers, Admits(h)
  PROVE  Fair(h)
<1>1. handler \in [Handlers -> Handler] /\ handler[h].pc # "idle" /\ handler'[h] # handler[h]
  <2>1. handler[h].answer = "none" /\ handler'[h].answer = "admitted" /\ handler[h].pc # "idle"
    BY TypesOf DEF HandlerFine, Admits, At
  <2> QED BY <2>1 DEF AccessInv, AccessTypeOK
<1>2. ASSUME NEW g \in Handlers, NEW c \in Clients, NEW route \in Routes, NEW k \in KeyIds \cup {0},
             NEW n \in 0..MaxSecrets, Arrive(g, c, route, k, n)
      PROVE  FALSE
  <2>1. g # h
    BY <1>1, <1>2 DEF Arrive, At
  <2>2. handler'[h] = handler[h]
    BY <1>1, <1>2, <2>1 DEF Arrive
  <2> QED BY <1>1, <2>2
<1>3. ASSUME NEW g \in Handlers, HandlerStep(g) PROVE g = h
  <2>1. (\E a : Answer(g, a)) \/ (\E pc : Goto(g, pc))
    BY <1>3 DEF HandlerStep, Find, Insert, Hash, User, Clear, Session, Create, CreateWrite, Rotate,
       RotateWrite, Revoke, UseKey
  <2>2. g # h => handler'[h] = handler[h]
    BY <1>1, <2>1 DEF Answer, Goto
  <2> QED BY <1>1, <2>2
<1>4. ~OperatorStep /\ ~UNCHANGED accessVars /\ ~UNCHANGED allVars
  BY <1>1 DEF OperatorStep, SeedRead, SeedWrite, RevokeSessions, SetStanding, accessVars, allVars
<1> QED BY <1>2, <1>3, <1>4, HandlerAdmits DEF AccessNext

-----------------------------------------------------------------------------
(* The theorems *)

\* The inductive invariant of accounts, sessions and keys.
THEOREM AccessKeepsInv == AccessSpec => []AccessInv
<1>1. AccessInit => AccessInv
  BY AccessInitInv
<1>2. AccessInv /\ [AccessNext]_allVars => AccessInv'
  BY AccessStepInv
<1> QED BY <1>1, <1>2, PTL DEF AccessSpec

\* Every row, cookie and handler has its type.
THEOREM AccessTypeCorrect == AccessSpec => [](AccessTypeOK /\ KeysTypeOK)
<1>1. AccessInv => AccessTypeOK /\ KeysTypeOK
  BY DEF AccessInv, KeysInv
<1> QED BY <1>1, AccessKeepsInv, PTL

\* Whatever registrations, logins and seeds race, a session and the role of the
\* administrator belong to who set the password.
THEOREM PasswordOwns == AccessSpec => []PasswordOwnsAccount
<1>1. AccessInv => PasswordOwnsAccount
  BY DEF AccessInv
<1> QED BY <1>1, AccessKeepsInv, PTL

\* On SQLite creations side by side never exceed the number of active keys.
THEOREM KeysAreLimited == AccessSpec => []KeyLimit
<1>1. AccessInv => KeyLimit
  BY DEF AccessInv
<1> QED BY <1>1, AccessKeepsInv, PTL

\* No secret a user holds is dead but by expiry, a later rotation or a revocation.
THEOREM SecretsWork == AccessSpec => []GivenSecretsWork
<1>1. AccessInv => GivenSecretsWork
  BY DEF AccessInv, KeysInv
<1> QED BY <1>1, AccessKeepsInv, PTL

\* A request that arrives after a revocation, a ban, a restriction or a rotation is not
\* admitted, whatever was read before.
THEOREM NobodyReturns == AccessSpec => ShutOutStaysOut
<1>1. AccessInv /\ [AccessNext]_allVars =>
        [\A h \in Handlers : Admits(h) =>
          /\ NeedsCookie(handler[h].route) => handler[h].cookie.epoch >= handler[h].began
          /\ ~handler[h].barred /\ ~handler[h].dead]_allVars
  BY AnyoneAdmits DEF Fair
<1> QED BY <1>1, AccessKeepsInv, PTL DEF AccessSpec, ShutOutStaysOut

-----------------------------------------------------------------------------
(* Admission: windows *)

\* A window starts at most one minute before the times in it (minuteWindowStart).
LEMMA WindowFacts ==
    ASSUME NEW t \in Nat
    PROVE  WindowStart(t) \in Int /\ WindowStart(t) <= t /\ t < WindowStart(t) + Minute
  <1>1. t % Minute \in Int /\ 0 <= t % Minute /\ t % Minute < Minute
    BY AdmissionAssumption
  <1> QED BY <1>1, AdmissionAssumption DEF WindowStart

\* Bucket rows are kept per window, and every call arrives in one.
LEMMA WindowsTyped ==
    /\ Windows \subseteq Int
    /\ \A t \in 0..MaxTime : WindowStart(t) \in Windows
  BY WindowFacts, AdmissionAssumption DEF Windows

-----------------------------------------------------------------------------
(* The inductive invariant *)

\* Where a call is in time, and what its lease then looks like.
TimedAt(c) ==
    /\ call[c].at <= clock
    /\ CallAt(c, "waiting") => clock <= call[c].at + MaxWait
    /\ CallAt(c, "executing") =>
         /\ call[c].reservedAt <= clock
         /\ clock = call[c].reservedAt \/ clock + Buffer <= call[c].reservedAt + ReservationTtl

Timed == \A c \in Calls : TimedAt(c)

Leased ==
    \A c \in Calls :
        /\ lease[c].state # "none" => WasAdmitted(c)
        /\ call[c].pc \in {"body", "executing"} =>
             \/ lease[c] = [state |-> "held", expires |-> call[c].at + ChatTtl]
             \/ clock >= call[c].at + ChatTtl

SlotBound == \A k \in ApiKeys : Cardinality(InFlight(k)) <= MaxInFlight[k]

\* Until a bucket is deleted it counts the calls admitted in its window.
Counters ==
    \A k \in ApiKeys, w \in Windows : Purged(w) \/ bucket[<<k, w>>] = Cardinality(Admitted(k, w))

AdmissionInv ==
    AdmissionTypeOK /\ Timed /\ Leased /\ NoLeak /\ SlotBound /\ RpmBound /\ Counters

LEMMA FiniteCalls ==
    \A S \in SUBSET Calls : IsFiniteSet(S) /\ Cardinality(S) \in Nat
  BY AdmissionAssumption, FS_Subset, FS_CardinalityType

LEMMA InitAdmission == AdmissionInit => AdmissionInv
  <1> SUFFICES ASSUME AdmissionInit PROVE AdmissionInv
    OBVIOUS
  <1> USE AdmissionAssumption
  <1>k. ASSUME NEW k \in ApiKeys PROVE (CHOOSE x \in ApiKeys : TRUE) \in ApiKeys
    BY <1>k
  <1>t. AdmissionTypeOK
    <2>1. call \in [Calls -> Call]
      BY <1>k DEF AdmissionInit, Call
    <2> QED BY <2>1, WindowsTyped DEF AdmissionInit, AdmissionTypeOK, Lease, NoLease
  <1>s. \A k \in ApiKeys : InFlight(k) = {}
    BY DEF AdmissionInit, InFlight, Counted, NoLease
  <1>a. \A k \in ApiKeys, w \in Windows : Admitted(k, w) = {}
    BY DEF AdmissionInit, Admitted, WasAdmitted
  <1>1. Timed BY DEF AdmissionInit, Timed, TimedAt, CallAt
  <1>2. Leased /\ NoLeak BY DEF AdmissionInit, Leased, NoLeak, NoLease, CallAt
  <1>3. SlotBound BY <1>s, FS_EmptySet DEF SlotBound
  <1>4. RpmBound BY <1>a, FS_EmptySet DEF RpmBound
  <1>5. Counters BY <1>a, FS_EmptySet DEF AdmissionInit, Counters
  <1> QED BY <1>t, <1>1, <1>2, <1>3, <1>4, <1>5 DEF AdmissionInv

-----------------------------------------------------------------------------
(* Steps that admit nobody *)

Quiet ==
    \/ \E c \in Calls :
         \/ \E k \in ApiKeys : CallArrives(c, k)
         \/ Refuse(c) \/ EndBody(c) \/ Reserve(c) \/ Finish(c)
         \/ Release(c) \/ ReleaseFails(c) \/ Crash(c)
    \/ CleanBuckets \/ CleanLeases \/ Tick
    \/ UNCHANGED vars

\* A step admits one call or none.
LEMMA AdmissionSteps ==
    [AdmissionNext]_vars => Quiet \/ \E c \in Calls : Admit(c)
  BY DEF AdmissionNext, CallStep, Quiet

\* The type invariant without the bound on buckets.
LEMMA AdmissionFacts ==
    ASSUME AdmissionTypeOK
    PROVE  /\ \A c \in Calls : /\ call[c] \in Call /\ call[c].at \in Nat /\ call[c].reservedAt \in Nat
                              /\ call[c].key \in ApiKeys
                              /\ lease[c] \in Lease /\ lease[c].expires \in Nat
           /\ \A k \in ApiKeys, w \in Windows : bucket[<<k, w>>] \in Nat
           /\ clock \in Nat
  BY DEF AdmissionTypeOK, Call, Lease

\* A program counter moves, and nothing else of any call changes.
LEMMA CallGoesFrame ==
    ASSUME call \in [Calls -> Call], NEW c \in Calls, NEW pc \in {"releasing", "done", "refused", "left", "body"}, CallGoes(c, pc)
    PROVE  /\ call' \in [Calls -> Call]
           /\ \A d \in Calls : /\ call'[d].key = call[d].key /\ call'[d].at = call[d].at
                              /\ call'[d].reservedAt = call[d].reservedAt
                              /\ call'[d].pc = IF d = c THEN pc ELSE call[d].pc
  <1>1. call' = [d \in Calls |-> IF d = c THEN [call[c] EXCEPT !.pc = pc] ELSE call[d]]
    BY DEF CallGoes
  <1>2. [call[c] EXCEPT !.pc = pc] \in Call
    BY DEF Call
  <1> QED BY <1>1, <1>2 DEF Call

LEMMA QuietType ==
    ASSUME AdmissionTypeOK, Timed, Quiet
    PROVE  AdmissionTypeOK'
  <1>c. call' \in [Calls -> Call]
    <2>1. ASSUME NEW c \in Calls, NEW k \in ApiKeys, CallArrives(c, k) PROVE call' \in [Calls -> Call]
      BY <2>1 DEF CallArrives, AdmissionTypeOK, Call
    <2>2. ASSUME NEW c \in Calls, Reserve(c) PROVE call' \in [Calls -> Call]
      <3>1. [call[c] EXCEPT !.pc = "executing", !.reservedAt = clock] \in Call
        BY AdmissionFacts DEF Call
      <3> QED BY <2>2, <3>1 DEF Reserve, AdmissionTypeOK
    <2>3. ASSUME NEW c \in Calls,
                 Refuse(c) \/ EndBody(c) \/ Finish(c) \/ Release(c) \/ ReleaseFails(c) \/ Crash(c)
          PROVE  call' \in [Calls -> Call]
      BY <2>3, CallGoesFrame DEF Refuse, EndBody, Finish, Release, ReleaseFails, Crash, AdmissionTypeOK
    <2>4. CASE CleanBuckets \/ CleanLeases \/ Tick \/ UNCHANGED vars
      BY <2>4 DEF CleanBuckets, CleanLeases, Tick, vars, AdmissionTypeOK
    <2> QED BY <2>1, <2>2, <2>3, <2>4 DEF Quiet
  <1>l. lease' \in [Calls -> Lease]
    <2>1. ASSUME NEW c \in Calls, Release(c) PROVE lease' \in [Calls -> Lease]
      BY <2>1 DEF Release, AdmissionTypeOK, Lease
    <2>2. CASE CleanLeases
      BY <2>2 DEF CleanLeases, AdmissionTypeOK, Lease, NoLease
    <2>3. CASE UNCHANGED lease
      BY <2>3 DEF AdmissionTypeOK
    <2> QED BY <2>1, <2>2, <2>3
         DEF Quiet, CallArrives, Refuse, EndBody, Reserve, Finish, ReleaseFails, Crash, CleanBuckets, Tick, vars
  <1>b. /\ bucket' \in [ApiKeys \X Windows -> Nat]
        /\ \A k \in ApiKeys, w \in Windows : bucket'[<<k, w>>] <= RpmLimit[k]
    <2>1. CASE CleanBuckets
      <3>1. \A k \in ApiKeys : RpmLimit[k] \in Nat
        BY AdmissionAssumption
      <3> QED BY <2>1, <3>1 DEF CleanBuckets, AdmissionTypeOK
    <2>2. CASE UNCHANGED bucket
      BY <2>2 DEF AdmissionTypeOK
    <2> QED BY <2>1, <2>2
         DEF Quiet, CallArrives, Refuse, EndBody, Reserve, Finish, Release, ReleaseFails, Crash, CleanLeases, Tick, vars
  <1>t. clock' \in 0..MaxTime
    <2>1. CASE Tick
      BY <2>1, AdmissionAssumption DEF Tick, AdmissionTypeOK
    <2>2. CASE UNCHANGED clock
      BY <2>2 DEF AdmissionTypeOK
    <2> QED BY <2>1, <2>2
         DEF Quiet, CallArrives, Refuse, EndBody, Reserve, Finish, Release, ReleaseFails, Crash, CleanBuckets, CleanLeases, vars
  <1> QED BY <1>c, <1>l, <1>b, <1>t DEF AdmissionTypeOK

\* No lease comes back, no call becomes admitted, and admitted calls keep their key and
\* their time of arrival.
LEMMA QuietCalls ==
    ASSUME AdmissionTypeOK, Leased, Quiet, NEW c \in Calls
    PROVE  /\ WasAdmitted(c)' <=> WasAdmitted(c)
           /\ WasAdmitted(c) => call'[c].key = call[c].key /\ call'[c].at = call[c].at
           /\ ~WasAdmitted(c) => ~Counted(c)
           /\ Counted(c)' => Counted(c)
  <1>a. /\ WasAdmitted(c)' <=> WasAdmitted(c)
        /\ WasAdmitted(c) => call'[c].key = call[c].key /\ call'[c].at = call[c].at
    <2> DEFINE Same == /\ WasAdmitted(c)' <=> WasAdmitted(c)
                       /\ WasAdmitted(c) => call'[c].key = call[c].key /\ call'[c].at = call[c].at
    <2>1. ASSUME NEW d \in Calls, NEW k \in ApiKeys, CallArrives(d, k) PROVE Same
      BY <2>1 DEF CallArrives, CallAt, WasAdmitted, AdmissionTypeOK
    <2>2. ASSUME NEW d \in Calls, Reserve(d) PROVE Same
      BY <2>2 DEF Reserve, CallAt, WasAdmitted, AdmissionTypeOK, Call
    <2>3. ASSUME NEW d \in Calls,
                 Refuse(d) \/ EndBody(d) \/ Finish(d) \/ Release(d) \/ ReleaseFails(d) \/ Crash(d)
          PROVE  Same
      BY <2>3, CallGoesFrame
         DEF Refuse, EndBody, Finish, Release, ReleaseFails, Crash, CallAt, WasAdmitted, AdmissionTypeOK
    <2>4. CASE CleanBuckets \/ CleanLeases \/ Tick \/ UNCHANGED vars
      BY <2>4 DEF CleanBuckets, CleanLeases, Tick, vars, WasAdmitted
    <2> QED BY <2>1, <2>2, <2>3, <2>4 DEF Quiet
  <1>n. ~WasAdmitted(c) => ~Counted(c)
    BY DEF Leased, Counted
  <1>c. Counted(c)' => Counted(c)
    <2>1. CASE Tick
      BY <2>1, AdmissionFacts DEF Tick, Counted
    <2>2. CASE CleanLeases
      BY <2>2, AdmissionFacts DEF CleanLeases, Counted, NoLease, AdmissionTypeOK
    <2>3. ASSUME NEW d \in Calls, Release(d) PROVE Counted(c)' => Counted(c)
      BY <2>3, AdmissionFacts DEF Release, Counted, AdmissionTypeOK, Lease
    <2>4. CASE UNCHANGED <<lease, clock>>
      BY <2>4 DEF Counted
    <2> QED BY <2>1, <2>2, <2>3, <2>4
         DEF Quiet, CallArrives, Refuse, EndBody, Reserve, Finish, ReleaseFails, Crash, CleanBuckets, vars
  <1> QED BY <1>a, <1>n, <1>c

LEMMA QuietTimed ==
    ASSUME AdmissionTypeOK, Timed, Quiet
    PROVE  Timed'
  <1> USE AdmissionAssumption, AdmissionFacts
  <1> SUFFICES ASSUME NEW c \in Calls PROVE TimedAt(c)'
    BY DEF Timed
  <1>1. ASSUME NEW d \in Calls, NEW k \in ApiKeys, CallArrives(d, k) PROVE TimedAt(c)'
    BY <1>1 DEF CallArrives, Timed, TimedAt, CallAt, AdmissionTypeOK
  <1>2. ASSUME NEW d \in Calls, Reserve(d) PROVE TimedAt(c)'
    BY <1>2 DEF Reserve, Timed, TimedAt, CallAt, AdmissionTypeOK, Call
  <1>3. ASSUME NEW d \in Calls,
               Refuse(d) \/ EndBody(d) \/ Finish(d) \/ Release(d) \/ ReleaseFails(d) \/ Crash(d)
        PROVE  TimedAt(c)'
    BY <1>3, CallGoesFrame DEF Refuse, EndBody, Finish, Release, ReleaseFails, Crash, Timed, TimedAt, CallAt, AdmissionTypeOK
  <1>4. CASE Tick
    BY <1>4 DEF Tick, Overdue, Timed, TimedAt, CallAt
  <1>5. CASE CleanBuckets \/ CleanLeases \/ UNCHANGED vars
    BY <1>5 DEF CleanBuckets, CleanLeases, vars, Timed, TimedAt, CallAt
  <1> QED BY <1>1, <1>2, <1>3, <1>4, <1>5 DEF Quiet

LEMMA QuietLeased ==
    ASSUME AdmissionTypeOK, Timed, Leased, NoLeak, Quiet
    PROVE  Leased' /\ NoLeak'
  <1> DEFINE LeasedAt(c) ==
               /\ lease[c].state # "none" => WasAdmitted(c)
               /\ call[c].pc \in {"body", "executing"} =>
                    \/ lease[c] = [state |-> "held", expires |-> call[c].at + ChatTtl]
                    \/ clock >= call[c].at + ChatTtl
             NoLeakAt(c) == lease[c].state = "held" => call[c].pc \in {"body", "executing", "releasing", "left"}
  <1> SUFFICES ASSUME NEW c \in Calls PROVE LeasedAt(c)' /\ NoLeakAt(c)'
    BY DEF Leased, NoLeak
  <1>h. LeasedAt(c) /\ NoLeakAt(c)
    BY DEF Leased, NoLeak
  <1>n. ChatTtl \in Nat
    BY AdmissionAssumption
  <1>1. ASSUME NEW d \in Calls, NEW k \in ApiKeys, CallArrives(d, k) PROVE LeasedAt(c)' /\ NoLeakAt(c)'
    BY <1>1, <1>h DEF CallArrives, CallAt, WasAdmitted, AdmissionTypeOK
  <1>2. ASSUME NEW d \in Calls, Reserve(d) PROVE LeasedAt(c)' /\ NoLeakAt(c)'
    BY <1>2, <1>h DEF Reserve, CallAt, WasAdmitted, AdmissionTypeOK, Call
  <1>3. ASSUME NEW d \in Calls,
               Refuse(d) \/ EndBody(d) \/ Finish(d) \/ ReleaseFails(d) \/ Crash(d)
        PROVE  LeasedAt(c)' /\ NoLeakAt(c)'
    BY <1>3, <1>h, CallGoesFrame
       DEF Refuse, EndBody, Finish, ReleaseFails, Crash, CallAt, WasAdmitted, AdmissionTypeOK
  <1>4. ASSUME NEW d \in Calls, Release(d) PROVE LeasedAt(c)' /\ NoLeakAt(c)'
    <2>1. lease'[c].state \in {"none", "released"} \/ (d # c /\ lease'[c] = lease[c])
      BY <1>4, AdmissionFacts DEF Release, AdmissionTypeOK, Lease
    <2>2. d # c => lease'[c] = lease[c]
      BY <1>4 DEF Release, AdmissionTypeOK
    <2> QED BY <1>4, <2>1, <2>2, <1>h, CallGoesFrame DEF Release, CallAt, WasAdmitted, AdmissionTypeOK
  <1>5. CASE CleanLeases
    <2>1. lease'[c] = lease[c] \/ (lease'[c] = NoLease /\ lease[c].expires <= clock)
      BY <1>5, AdmissionFacts DEF CleanLeases, Counted
    <2>2. CASE lease'[c] = lease[c]
      BY <1>5, <2>2, <1>h DEF CleanLeases, WasAdmitted
    <2>3. CASE lease'[c] = NoLease /\ lease[c].expires <= clock
      BY <1>5, <2>3, <1>h, <1>n, AdmissionFacts DEF CleanLeases, WasAdmitted, NoLease
    <2> QED BY <2>1, <2>2, <2>3
  <1>6. CASE Tick
    BY <1>6, <1>h, <1>n, AdmissionFacts DEF Tick, WasAdmitted
  <1>7. CASE CleanBuckets \/ UNCHANGED vars
    BY <1>7, <1>h DEF CleanBuckets, vars, WasAdmitted
  <1> QED BY <1>1, <1>2, <1>3, <1>4, <1>5, <1>6, <1>7 DEF Quiet

\* The slots in use only shrink, and the calls admitted in a window stay what they are.
LEMMA QuietSets ==
    ASSUME AdmissionTypeOK, Leased, Quiet
    PROVE  /\ \A k \in ApiKeys : InFlight(k)' \subseteq InFlight(k)
           /\ \A k \in ApiKeys, w \in Windows : Admitted(k, w)' = Admitted(k, w)
  <1>1. ASSUME NEW k \in ApiKeys, NEW c \in InFlight(k)' PROVE c \in InFlight(k)
    BY <1>1, QuietCalls DEF InFlight
  <1>2. ASSUME NEW k \in ApiKeys, NEW w \in Windows, NEW c \in Calls
        PROVE  (WasAdmitted(c) /\ call[c].key = k /\ WindowOf(c) = w)'
                 <=> (WasAdmitted(c) /\ call[c].key = k /\ WindowOf(c) = w)
    BY QuietCalls DEF WindowOf
  <1> QED BY <1>1, <1>2 DEF Admitted

LEMMA QuietBounds ==
    ASSUME AdmissionInv, Quiet
    PROVE  SlotBound' /\ RpmBound' /\ Counters'
  <1> USE DEF AdmissionInv
  <1>1. SlotBound'
    <2> SUFFICES ASSUME NEW k \in ApiKeys PROVE Cardinality(InFlight(k)') <= MaxInFlight[k]
      BY DEF SlotBound
    <2>1. InFlight(k) \in SUBSET Calls /\ InFlight(k)' \subseteq InFlight(k)
      BY QuietSets DEF InFlight
    <2>2. Cardinality(InFlight(k)') <= Cardinality(InFlight(k))
      BY <2>1, FiniteCalls, FS_Subset
    <2>3. Cardinality(InFlight(k)) \in Nat /\ Cardinality(InFlight(k)') \in Nat
      BY <2>1, FiniteCalls
    <2> QED BY <2>2, <2>3, AdmissionAssumption DEF SlotBound
  <1>2. RpmBound'
    BY QuietSets DEF RpmBound
  <1>3. Counters'
    <2> SUFFICES ASSUME NEW k \in ApiKeys, NEW w \in Windows
                 PROVE  Purged(w)' \/ bucket'[<<k, w>>] = Cardinality(Admitted(k, w)')
      BY DEF Counters
    <2>1. Admitted(k, w)' = Admitted(k, w)
      BY QuietSets
    <2>2. Purged(w) \/ bucket[<<k, w>>] = Cardinality(Admitted(k, w))
      BY DEF Counters
    <2>3. CASE CleanBuckets
      BY <2>1, <2>2, <2>3 DEF CleanBuckets, Purged
    <2>4. CASE Tick
      BY <2>1, <2>2, <2>4, AdmissionFacts, WindowsTyped, AdmissionAssumption DEF Tick, Purged
    <2>5. CASE UNCHANGED <<bucket, clock>>
      BY <2>1, <2>2, <2>5 DEF Purged
    <2> QED BY <2>3, <2>4, <2>5
         DEF Quiet, CallArrives, Refuse, EndBody, Reserve, Finish, Release, ReleaseFails, Crash, CleanLeases, vars
  <1> QED BY <1>1, <1>2, <1>3

-----------------------------------------------------------------------------
(* The step that admits a call *)

\* Admission adds one call to one window, one lease to one key, and moves nothing else.
LEMMA AdmitFrame ==
    ASSUME AdmissionInv, NEW c \in Calls, Admit(c)
    PROVE  LET k == call[c].key
               w == WindowOf(c)
               p == IF KindOf[c] = "models" THEN "releasing" ELSE "body"
           IN  /\ k \in ApiKeys /\ w \in Windows
               /\ SlotFree(k) /\ RateFree(k, w) /\ ~Purged(w) /\ ~WasAdmitted(c) /\ ~Counted(c)
               /\ call' \in [Calls -> Call]
               /\ \A d \in Calls : /\ call'[d].key = call[d].key /\ call'[d].at = call[d].at
                                  /\ call'[d].reservedAt = call[d].reservedAt
                                  /\ call'[d].pc = IF d = c THEN p ELSE call[d].pc
               /\ lease' \in [Calls -> Lease]
               /\ lease'[c] = [state |-> "held", expires |-> call[c].at + Ttl(c)]
               /\ \A d \in Calls \ {c} : lease'[d] = lease[d]
               /\ clock' = clock
  <1> USE DEF AdmissionInv
  <1> DEFINE k == call[c].key
             w == WindowOf(c)
             p == IF KindOf[c] = "models" THEN "releasing" ELSE "body"
  <1>n. /\ ChatTtl \in Nat /\ ModelsTtl \in Nat /\ MaxWait \in Nat /\ Minute \in Nat
        /\ BucketTtl \in Nat /\ MaxTime \in Nat /\ MaxWait + Minute <= BucketTtl
    BY AdmissionAssumption
  <1>1. k \in ApiKeys /\ call[c].at \in Nat /\ clock \in 0..MaxTime /\ call[c].at <= clock
        /\ clock <= call[c].at + MaxWait
    BY AdmissionFacts DEF AdmissionTypeOK, Timed, TimedAt, Admit
  <1>2. w \in Windows
    BY <1>1, <1>n, WindowsTyped DEF WindowOf
  <1>3. ~Purged(w)
    <2>1. WindowStart(call[c].at) \in Int /\ call[c].at < WindowStart(call[c].at) + Minute
      BY <1>1, WindowFacts
    <2> QED BY <2>1, <1>1, <1>n DEF Purged, WindowOf
  <1>4. SlotFree(k) /\ RateFree(k, w)
    BY DEF Admit, AcquireOutcome
  <1>5. ~WasAdmitted(c) /\ ~Counted(c)
    BY DEF Admit, CallAt, WasAdmitted, Leased, Counted
  <1>6. CallGoes(c, p) /\ p \in {"releasing", "body"}
    BY DEF Admit
  <1>7. /\ call' \in [Calls -> Call]
        /\ \A d \in Calls : /\ call'[d].key = call[d].key /\ call'[d].at = call[d].at
                           /\ call'[d].reservedAt = call[d].reservedAt
                           /\ call'[d].pc = IF d = c THEN p ELSE call[d].pc
    BY <1>6, CallGoesFrame DEF AdmissionTypeOK
  <1>8. Ttl(c) \in Nat
    BY <1>n DEF Ttl
  <1>9. /\ lease' \in [Calls -> Lease]
        /\ lease'[c] = [state |-> "held", expires |-> call[c].at + Ttl(c)]
        /\ \A d \in Calls \ {c} : lease'[d] = lease[d]
    BY <1>8, <1>1 DEF Admit, AdmissionTypeOK, Lease
  <1> QED BY <1>1, <1>2, <1>3, <1>4, <1>5, <1>7, <1>9 DEF Admit

LEMMA AdmitStep ==
    ASSUME AdmissionInv, NEW c \in Calls, Admit(c)
    PROVE  AdmissionInv'
  <1> USE DEF AdmissionInv
  <1> DEFINE k == call[c].key
             w == WindowOf(c)
  <1>w. \A d \in Calls : WindowOf(d)' = WindowOf(d)
    BY AdmitFrame DEF WindowOf
  <1>k. /\ \A d \in Calls : call'[d].key = call[d].key
        /\ ~WasAdmitted(c) /\ ~Counted(c) /\ k \in ApiKeys /\ w \in Windows
    BY AdmitFrame
  <1>p. call'[c].pc \in {"releasing", "body"} /\ WasAdmitted(c)'
    BY AdmitFrame DEF WasAdmitted
  <1>o. \A d \in Calls \ {c} :
           /\ call'[d].pc = call[d].pc /\ lease'[d] = lease[d] /\ (WasAdmitted(d)' <=> WasAdmitted(d))
           /\ Counted(d)' <=> Counted(d)
    BY AdmitFrame DEF WasAdmitted, Counted
  <1>b. /\ bucket' \in [ApiKeys \X Windows -> Nat]
        /\ bucket'[<<k, w>>] = bucket[<<k, w>>] + 1
        /\ \A l \in ApiKeys, v \in Windows : <<l, v>> # <<k, w>> => bucket'[<<l, v>>] = bucket[<<l, v>>]
    <2>1. k \in ApiKeys /\ w \in Windows /\ bucket' = [bucket EXCEPT ![<<k, w>>] = @ + 1]
      BY AdmitFrame DEF Admit
    <2> QED BY <2>1 DEF AdmissionTypeOK
  <1>1. AdmissionTypeOK'
    <2>1. ASSUME NEW l \in ApiKeys, NEW v \in Windows PROVE bucket'[<<l, v>>] <= RpmLimit[l]
      <3>1. bucket[<<l, v>>] <= RpmLimit[l] /\ bucket[<<l, v>>] \in Nat /\ RpmLimit[l] \in Nat
        BY AdmissionFacts, AdmissionAssumption DEF AdmissionTypeOK
      <3>2. bucket[<<k, w>>] < RpmLimit[k]
        BY AdmitFrame DEF RateFree
      <3> QED BY <1>b, <3>1, <3>2
    <2> QED BY <1>b, <2>1, AdmitFrame DEF AdmissionTypeOK
  <1>2. Timed'
    <2> SUFFICES ASSUME NEW d \in Calls PROVE TimedAt(d)'
      BY DEF Timed
    <2>1. CASE d = c
      BY <2>1, AdmitFrame, <1>p DEF Timed, TimedAt, CallAt
    <2>2. CASE d # c
      <3>1. /\ call'[d].pc = call[d].pc /\ call'[d].at = call[d].at
            /\ call'[d].reservedAt = call[d].reservedAt /\ clock' = clock
        BY <2>2, AdmitFrame, <1>o
      <3>2. TimedAt(d)
        BY DEF Timed
      <3> QED BY <3>1, <3>2 DEF TimedAt, CallAt
    <2> QED BY <2>1, <2>2
  <1>3. Leased'
    <2> SUFFICES ASSUME NEW d \in Calls
                 PROVE  /\ lease'[d].state # "none" => WasAdmitted(d)'
                        /\ call'[d].pc \in {"body", "executing"} =>
                             \/ lease'[d] = [state |-> "held", expires |-> call'[d].at + ChatTtl]
                             \/ clock' >= call'[d].at + ChatTtl
      BY DEF Leased
    <2>1. CASE d = c
      <3>1. call'[c].pc = "body" => Ttl(c) = ChatTtl
        BY AdmitFrame DEF Ttl
      <3> QED BY <2>1, <3>1, <1>p, AdmitFrame
    <2>2. CASE d # c
      BY <2>2, <1>o, AdmitFrame, ZenonT(30) DEF Leased
    <2> QED BY <2>1, <2>2
  <1>4. NoLeak'
    BY <1>p, <1>o, AdmitFrame DEF NoLeak
  <1>5. SlotBound'
    <2> SUFFICES ASSUME NEW l \in ApiKeys PROVE Cardinality(InFlight(l)') <= MaxInFlight[l]
      BY DEF SlotBound
    <2>f. /\ IsFiniteSet(InFlight(l)) /\ Cardinality(InFlight(l)) \in Nat
          /\ Cardinality(InFlight(l)') \in Nat /\ MaxInFlight[l] \in Nat
      BY FiniteCalls, AdmissionAssumption DEF InFlight
    <2>1. CASE l = k
      <3>1. InFlight(l)' \subseteq InFlight(l) \cup {c}
        BY <1>o, AdmitFrame DEF InFlight
      <3>2. IsFiniteSet(InFlight(l) \cup {c}) /\ Cardinality(InFlight(l) \cup {c}) = Cardinality(InFlight(l)) + 1
        <4>1. c \notin InFlight(l)
          BY AdmitFrame DEF InFlight
        <4> QED BY <4>1, <2>f, FS_AddElement
      <3>3. Cardinality(InFlight(l)') <= Cardinality(InFlight(l)) + 1
        BY <3>1, <3>2, FS_Subset
      <3>4. Cardinality(InFlight(l)) < MaxInFlight[l]
        BY <2>1, AdmitFrame DEF SlotFree
      <3> QED BY <3>3, <3>4, <2>f
    <2>2. CASE l # k
      <3>1. InFlight(l)' = InFlight(l)
        BY <2>2, <1>o, <1>k DEF InFlight
      <3> QED BY <3>1 DEF SlotBound
    <2> QED BY <2>1, <2>2
  <1>6. \A l \in ApiKeys, v \in Windows :
           Cardinality(Admitted(l, v)') =
             IF <<l, v>> = <<k, w>> THEN Cardinality(Admitted(l, v)) + 1 ELSE Cardinality(Admitted(l, v))
    <2> SUFFICES ASSUME NEW l \in ApiKeys, NEW v \in Windows
                 PROVE  Cardinality(Admitted(l, v)') =
                          IF <<l, v>> = <<k, w>> THEN Cardinality(Admitted(l, v)) + 1
                          ELSE Cardinality(Admitted(l, v))
      OBVIOUS
    <2>1. CASE <<l, v>> = <<k, w>>
      <3>1. Admitted(l, v)' = Admitted(l, v) \cup {c}
        BY <2>1, <1>o, <1>w, <1>p, <1>k DEF Admitted
      <3>2. c \notin Admitted(l, v) /\ IsFiniteSet(Admitted(l, v))
        BY AdmitFrame, FiniteCalls DEF Admitted
      <3> QED BY <2>1, <3>1, <3>2, FS_AddElement
    <2>2. CASE <<l, v>> # <<k, w>>
      <3>1. Admitted(l, v)' = Admitted(l, v)
        BY <2>2, <1>o, <1>w, <1>k DEF Admitted
      <3> QED BY <2>2, <3>1
    <2> QED BY <2>1, <2>2
  <1>7. Counters'
    <2>1. \A v \in Windows : Purged(v)' <=> Purged(v)
      BY AdmitFrame DEF Purged
    <2>2. bucket[<<k, w>>] = Cardinality(Admitted(k, w))
      BY AdmitFrame DEF Counters
    <2> QED BY <1>6, <1>b, <2>1, <2>2, ZenonT(30) DEF Counters
  <1>8. RpmBound'
    <2>1. bucket[<<k, w>>] = Cardinality(Admitted(k, w)) /\ bucket[<<k, w>>] < RpmLimit[k]
      BY AdmitFrame DEF Counters, RateFree
    <2>2. bucket[<<k, w>>] \in Nat /\ RpmLimit[k] \in Nat
      BY AdmitFrame, AdmissionFacts, AdmissionAssumption
    <2> QED BY <1>6, <2>1, <2>2 DEF RpmBound
  <1> QED BY <1>1, <1>2, <1>3, <1>4, <1>5, <1>7, <1>8

LEMMA AdmissionInductive == AdmissionInv /\ [AdmissionNext]_vars => AdmissionInv'
  <1> SUFFICES ASSUME AdmissionInv, [AdmissionNext]_vars PROVE AdmissionInv'
    OBVIOUS
  <1>1. CASE Quiet
    BY <1>1, QuietType, QuietTimed, QuietLeased, QuietBounds DEF AdmissionInv
  <1>2. ASSUME NEW c \in Calls, Admit(c) PROVE AdmissionInv'
    BY <1>2, AdmitStep
  <1> QED BY <1>1, <1>2, AdmissionSteps

THEOREM AdmissionInvariant == AdmissionSpec => []AdmissionInv
  BY InitAdmission, AdmissionInductive, PTL DEF AdmissionSpec

-----------------------------------------------------------------------------
(* What follows *)

\* Calls, leases and buckets keep their types, and no bucket exceeds rpm_limit.
THEOREM AdmissionTypeCorrect == AdmissionSpec => []AdmissionTypeOK
  BY AdmissionInvariant, PTL DEF AdmissionInv

\* At most rpm_limit calls of a key are admitted per minute, however long they wait (up to
\* MaxWait) and whatever maintenance deletes meanwhile.
THEOREM RpmIsBounded == AdmissionSpec => []RpmBound
  BY AdmissionInvariant, PTL DEF AdmissionInv

\* No ended call counts against its key, unless its release was lost.
THEOREM NoSlotLeaks == AdmissionSpec => []NoLeak
  BY AdmissionInvariant, PTL DEF AdmissionInv

\* A call that lost no time before its reservation holds a live lease while the provider
\* works: the lease outlasts what the reservation and the timers allow.
LEMMA PromptCallsAreCounted ==
    ASSUME AdmissionInv, NEW c \in Calls, CallAt(c, "executing"), Prompt(c)
    PROVE  Counted(c)
  <1> USE DEF AdmissionInv
  <1>1. /\ call[c].at \in Nat /\ call[c].reservedAt \in Nat /\ clock \in Nat
        /\ ChatTtl \in Nat /\ Buffer \in Nat /\ ReservationTtl \in Nat
        /\ Buffer <= ReservationTtl /\ ReservationTtl <= ChatTtl
    BY AdmissionFacts, AdmissionAssumption
  <1>2. /\ call[c].reservedAt < call[c].at + Buffer
        /\ clock = call[c].reservedAt \/ clock + Buffer <= call[c].reservedAt + ReservationTtl
    BY DEF Prompt, Timed, TimedAt
  <1>3. clock < call[c].at + ChatTtl
    BY <1>1, <1>2
  <1>4. \/ lease[c] = [state |-> "held", expires |-> call[c].at + ChatTtl]
        \/ clock >= call[c].at + ChatTtl
    BY DEF Leased, CallAt
  <1>5. lease[c] = [state |-> "held", expires |-> call[c].at + ChatTtl]
    BY <1>1, <1>3, <1>4
  <1> QED BY <1>1, <1>3, <1>5 DEF Counted

\* max_in_flight bounds the prompt calls at the providers.
THEOREM ConcurrencyIsBounded == AdmissionSpec => []ConcurrencyBound
  <1>1. AdmissionInv => ConcurrencyBound
    <2> SUFFICES ASSUME AdmissionInv, NEW k \in ApiKeys
                 PROVE  Cardinality({c \in Executing(k) : Prompt(c)}) <= MaxInFlight[k]
      BY DEF ConcurrencyBound
    <2>1. {c \in Executing(k) : Prompt(c)} \subseteq InFlight(k)
      BY PromptCallsAreCounted DEF Executing, InFlight
    <2>2. /\ IsFiniteSet(InFlight(k)) /\ Cardinality(InFlight(k)) \in Nat
          /\ Cardinality({c \in Executing(k) : Prompt(c)}) \in Nat
      BY FiniteCalls DEF InFlight, Executing
    <2>3. Cardinality({c \in Executing(k) : Prompt(c)}) <= Cardinality(InFlight(k))
      BY <2>1, <2>2, FS_Subset
    <2> QED BY <2>2, <2>3, AdmissionAssumption DEF AdmissionInv, SlotBound
  <1> QED BY <1>1, AdmissionInvariant, PTL

\* Every step takes one free slot, gives slots back, or leaves them alone.
THEOREM AdmissionIsSlots == AdmissionSpec => ImplementsSlots
  <1>1. AdmissionInit => Limits!Init
    BY DEF AdmissionInit, Limits!Init, Holders, InFlight, Counted, Spent, WasAdmitted, NoLease
  <1>2. AdmissionInv /\ [AdmissionNext]_vars => [Limits!Next]_(Limits!vars)
    <2> SUFFICES ASSUME AdmissionInv, [AdmissionNext]_vars PROVE Limits!Next
      OBVIOUS
    <2> USE DEF AdmissionInv
    <2>n. \A c \in Calls : ~WasAdmitted(c) => ~Counted(c)
      BY DEF Leased, Counted
    <2>g. ASSUME Spent \subseteq Spent',
                 \A k \in ApiKeys : InFlight(k)' = InFlight(k) \ Spent'
          PROVE  Limits!Next
      <3>1. Spent' \in SUBSET Calls
        BY DEF Spent
      <3>2. Limits!Give(Spent')
        BY <2>g DEF Limits!Give, Holders
      <3> QED BY <3>1, <3>2 DEF Limits!Next
    <2>1. CASE Quiet
      <3>1. Spent \subseteq Spent'
        BY <2>1, QuietCalls DEF Spent
      <3>2. ASSUME NEW k \in ApiKeys PROVE InFlight(k)' = InFlight(k) \ Spent'
        BY <2>1, <2>n, QuietCalls DEF InFlight, Spent
      <3> QED BY <3>1, <3>2, <2>g
    <2>2. ASSUME NEW c \in Calls, Admit(c) PROVE Limits!Next
      <3> DEFINE k == call[c].key
      <3>o. \A d \in Calls \ {c} : (WasAdmitted(d)' <=> WasAdmitted(d)) /\ (Counted(d)' <=> Counted(d))
        BY <2>2, AdmitFrame DEF WasAdmitted, Counted
      <3>k. \A d \in Calls : call'[d].key = call[d].key
        BY <2>2, AdmitFrame
      <3>c. ~WasAdmitted(c) /\ ~Counted(c) /\ WasAdmitted(c)' /\ k \in ApiKeys /\ SlotFree(k)
        BY <2>2, AdmitFrame DEF WasAdmitted
      <3>1. CASE Counted(c)'
        <4>1. Spent' = Spent
          BY <3>1, <3>o, <3>c DEF Spent
        <4>2. \A l \in ApiKeys : InFlight(l)' = IF l = k THEN InFlight(l) \cup {c} ELSE InFlight(l)
          BY <3>1, <3>o, <3>k, <3>c DEF InFlight
        <4>3. Holders' = [Holders EXCEPT ![k] = @ \cup {c}]
          BY <4>2, <3>c DEF Holders
        <4>4. c \notin Spent /\ \A l \in ApiKeys : c \notin Holders[l]
          BY <3>c DEF Spent, Holders, InFlight
        <4>5. Cardinality(Holders[k]) < MaxInFlight[k]
          BY <3>c DEF Holders, SlotFree
        <4>6. Limits!Take(k, c)
          <5>1. Limits!Cardinality(Holders[k]) = Cardinality(Holders[k])
            BY DEF Cardinality, Limits!Cardinality
          <5> QED BY <5>1, <4>1, <4>3, <4>4, <4>5 DEF Limits!Take
        <4> QED BY <4>6, <3>c DEF Limits!Next
      <3>2. CASE ~Counted(c)'
        <4>1. Spent \subseteq Spent'
          BY <3>2, <3>o, <3>c DEF Spent
        <4>2. ASSUME NEW l \in ApiKeys PROVE InFlight(l)' = InFlight(l) \ Spent'
          BY <3>2, <3>o, <3>k, <3>c, <2>n DEF InFlight, Spent
        <4> QED BY <4>1, <4>2, <2>g
      <3> QED BY <3>1, <3>2
    <2> QED BY <2>1, <2>2, AdmissionSteps
  <1> QED BY <1>1, <1>2, AdmissionInvariant, PTL DEF AdmissionSpec, ImplementsSlots, Limits!Spec
=============================================================================
