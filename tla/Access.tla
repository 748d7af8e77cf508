------------------------------- MODULE Access -------------------------------
(***************************************************************************)
(* Accounts, sessions and keys of the gateway: routes/auth.ts,             *)
(* routes/aiDeveloper.ts and middleware/aiAuth.ts over utils/users.ts, the *)
(* API keys (ApiKeys).                                                     *)
(*                                                                         *)
(* The account of one email address is modelled, the one the operator      *)
(* seeds as ADMIN_EMAIL and that anybody may register first.  A handler    *)
(* runs from one query to the next as one step; a query that fails ends    *)
(* the handler with an error and changes nothing, as if it took no further *)
(* step.  The rate limits (RateLimit) and the checks of the request alone  *)
(* (CSRF, origin, body and its fields) come before any of it; a request    *)
(* they refuse is none.                                                    *)
(***************************************************************************)
EXTENDS ApiKeys

CONSTANTS
    Clients,        \* people with a browser; each has one password
    Operator,       \* the client whose password is ADMIN_PASSWORD
    Handlers,       \* requests handled at a time
    MaxRequests,    \* bound: requests handled
    MaxOrders       \* bound: revocations and changes of the standing of the account

\* The password of no account.
Nobody == "nobody"

ASSUME AccessAssumption ==
    /\ Operator \in Clients /\ Nobody \notin Clients
    /\ MaxRequests \in Nat /\ MaxOrders \in Nat

VARIABLES
    dialect,        \* "sqlite" or "postgres"
    conceal,        \* AUTONOMIA_SIGNUP_ANTI_ENUMERATION
    account,        \* the users row
    cookie,         \* [Clients -> the JWT in the browser]
    handler,        \* [Handlers -> a request]
    seed,           \* the migrate script that seeds the administrator
    orders,         \* revocations and changes of standing so far
    requests

accessVars == <<dialect, conceal, account, cookie, handler, seed, orders, requests>>
allVars == <<accessVars, keyVars>>

\* standing: is_banned, or is_flagged with a restriction of the AI service.
NoAccount == [password |-> Nobody, role |-> "user", epoch |-> 0, standing |-> "good"]

\* epoch: the claim epv, 0 for a token that has none.
NoCookie == [signed |-> FALSE, epoch |-> 0]

Routes == {"register", "login", "logout", "me", "chat", "create", "rotate", "revoke", "api"}

\* What a handler knows, and of an answered request the answer only.  began, barred and
\* dead tell what was committed when the request arrived (read by no guard).
Idle == [pc |-> "idle", answer |-> "none", route |-> "none", client |-> Operator,
         cookie |-> NoCookie, key |-> 0, secret |-> 0,
         began |-> 0, barred |-> FALSE, dead |-> FALSE]

Exists == account.password # Nobody

AccessInit ==
    /\ dialect \in {"sqlite", "postgres"}
    /\ conceal \in BOOLEAN
    /\ \/ /\ account = NoAccount
          /\ cookie = [c \in Clients |-> NoCookie]
          /\ KeysInit
       \/ \E c \in Clients, k \in KeyIds :
          /\ account = [NoAccount EXCEPT !.password = c]
          /\ cookie = [[d \in Clients |-> NoCookie] EXCEPT ![c] = [NoCookie EXCEPT !.signed = TRUE]]
          /\ KeysInitWith(k)
    /\ handler = [h \in Handlers |-> Idle]
    /\ seed = "idle"
    /\ orders = 0
    /\ requests = 0

-----------------------------------------------------------------------------
(* Handlers *)

At(h, pc) == handler[h].pc = pc

\* Steps of a handler that change nothing but the handler.
Goto(h, pc) == handler' = [handler EXCEPT ![h].pc = pc]

\* Every answer with an error that no property tells apart is "refused".
Answer(h, answer) == handler' = [handler EXCEPT ![h] = [Idle EXCEPT !.answer = answer]]

Tables == <<account, seed, orders>>
Settings == <<dialect, conceal, requests>>

\* Barred(route): the standing of the account shuts its user out.
Barred(route) ==
    \/ account.standing = "banned"
    \/ account.standing = "restricted" /\ route \in {"chat", "create", "rotate", "revoke", "api"}

SessionRoutes == {"chat", "create", "rotate", "revoke"}

FirstStep(route) ==
    CASE route = "register" -> "find"
      [] route = "login" -> "hash"
      [] route = "logout" -> "clear"
      [] route \in {"me"} \cup SessionRoutes -> "session"
      [] route = "api" -> "key"

NeedsCookie(route) == route \in SessionRoutes \cup {"me"}

\* Which key and secret a request names, 0 when it names none.
Names(route, k, n) ==
    CASE route \in {"rotate", "revoke"} -> k # 0 /\ keyRow[k].state # "none" /\ n = 0
      [] route = "api" -> <<k, n>> \in given
      [] OTHER -> k = 0 /\ n = 0

\* A request arrives with the cookie its client has at that moment.
Arrive(h, c, route, k, n) ==
    /\ At(h, "idle")
    /\ requests < MaxRequests
    /\ Names(route, k, n)
    /\ requests' = requests + 1
    /\ handler' = [handler EXCEPT
          ![h] = [pc |-> FirstStep(route), route |-> route, client |-> c,
                  cookie |-> IF NeedsCookie(route) THEN cookie[c] ELSE NoCookie,
                  key |-> k, secret |-> n, answer |-> "none",
                  began |-> account.epoch, barred |-> Barred(route), dead |-> <<k, n>> \in retired]]
    /\ UNCHANGED <<dialect, conceal, Tables, cookie, keyVars>>

-----------------------------------------------------------------------------
(* Sessions *)

\* issueSession for the users row as it was just read.
Issued == [signed |-> TRUE, epoch |-> account.epoch]

\* POST /register: an address that is taken is answered before or, after a race, at the INSERT.
Taken == IF conceal THEN "accepted" ELSE "email_taken"

Find(h) ==
    /\ At(h, "find")
    /\ IF Exists THEN Answer(h, Taken) ELSE Goto(h, "insert")
    /\ UNCHANGED <<Settings, Tables, cookie, keyVars>>

\* isUniqueEmailViolation knows the message of SQLite only.
RaceAnswer == IF dialect = "sqlite" THEN Taken ELSE "error"

Insert(h) ==
    /\ At(h, "insert")
    /\ IF Exists
       THEN Answer(h, RaceAnswer) /\ UNCHANGED <<account, cookie>>
       ELSE /\ account' = [NoAccount EXCEPT !.password = handler[h].client]
            /\ IF conceal
               THEN Answer(h, "accepted") /\ UNCHANGED cookie
               ELSE /\ Answer(h, "created")
                    /\ cookie' = [cookie EXCEPT ![handler[h].client] = Issued]
    /\ UNCHANGED <<Settings, seed, orders, keyVars>>

\* POST /login: the password hash is read and verified, then the row is read.
Hash(h) ==
    /\ At(h, "hash")
    /\ IF account.password = handler[h].client THEN Goto(h, "user") ELSE Answer(h, "refused")
    /\ UNCHANGED <<Settings, Tables, cookie, keyVars>>

User(h) ==
    /\ At(h, "user")
    /\ IF account.standing = "banned"
       THEN Answer(h, "refused") /\ UNCHANGED cookie
       ELSE Answer(h, "admitted") /\ cookie' = [cookie EXCEPT ![handler[h].client] = Issued]
    /\ UNCHANGED <<Settings, Tables, keyVars>>

\* POST /logout takes the cookies from the browser.
Clear(h) ==
    /\ At(h, "clear")
    /\ cookie' = [cookie EXCEPT ![handler[h].client] = NoCookie]
    /\ Answer(h, "ok")
    /\ UNCHANGED <<Settings, Tables, keyVars>>

\* Mutant of SessionHolds: the epoch is not compared.
SessionHoldsAnyEpoch(h) == handler[h].cookie.signed /\ ~Barred(handler[h].route)

\* authenticateToken, and the restriction of aiDeveloperRoutes.
SessionHolds(h) ==
    /\ handler[h].cookie.signed
    /\ handler[h].cookie.epoch = account.epoch
    /\ ~Barred(handler[h].route)

\* GET /me and the chat of the console are answered for whoever is admitted, the other
\* routes go on to their queries.
Session(h) ==
    /\ At(h, "session")
    /\ IF ~SessionHolds(h) THEN Answer(h, "refused")
       ELSE IF handler[h].route \in {"me", "chat"} THEN Answer(h, "admitted")
       ELSE Goto(h, "act")
    /\ UNCHANGED <<Settings, Tables, cookie, keyVars>>

-----------------------------------------------------------------------------
(* Keys *)

\* Mutant of CreateTogether: the count is not in the transaction of the INSERT.
CreateTogetherNever == FALSE

\* The transaction of createAutonomiaApiKey is alone on SQLite; on PostgreSQL (READ
\* COMMITTED, no lock) others commit between its COUNT and its INSERT.
CreateTogether == dialect = "sqlite"

Create(h) ==
    /\ At(h, "act") /\ handler[h].route = "create"
    /\ IF ~RoomForKey
       THEN Answer(h, "refused") /\ UNCHANGED keyVars
       ELSE IF CreateTogether
            THEN Answer(h, "admitted") /\ \E k \in KeyIds : InsertKey(k)
            ELSE Goto(h, "write") /\ UNCHANGED keyVars
    /\ UNCHANGED <<Settings, Tables, cookie>>

CreateWrite(h) ==
    /\ At(h, "write") /\ handler[h].route = "create"
    /\ \E k \in KeyIds : InsertKey(k)
    /\ Answer(h, "admitted")
    /\ UNCHANGED <<Settings, Tables, cookie>>

Rotate(h) ==
    /\ At(h, "act") /\ handler[h].route = "rotate"
    /\ IF Rotatable(handler[h].key) THEN Goto(h, "write") ELSE Answer(h, "refused")
    /\ UNCHANGED <<Settings, Tables, cookie, keyVars>>

RotateWrite(h) ==
    /\ At(h, "write") /\ handler[h].route = "rotate"
    /\ \/ RotateKey(handler[h].key) /\ Answer(h, "admitted")
       \/ ~Rotatable(handler[h].key) /\ Answer(h, "refused") /\ UNCHANGED keyVars
    /\ UNCHANGED <<Settings, Tables, cookie>>

Revoke(h) ==
    /\ At(h, "act") /\ handler[h].route = "revoke"
    /\ RevokeKey(handler[h].key)
    /\ Answer(h, "admitted")
    /\ UNCHANGED <<Settings, Tables, cookie>>

\* authenticateAutonomiaKey: the key and its user are read together.
UseKey(h) ==
    /\ At(h, "key")
    /\ Answer(h, IF Authenticates(<<handler[h].key, handler[h].secret>>) /\ ~Barred("api")
                 THEN "admitted" ELSE "refused")
    /\ UNCHANGED <<Settings, Tables, cookie, keyVars>>

-----------------------------------------------------------------------------
(* The operator *)

\* seedAutonomiaAdminFromEnv: SELECT, then verify the password and UPDATE, or INSERT.
SeedRead ==
    /\ seed = "idle"
    /\ seed' = IF ~Exists THEN "insert" ELSE IF account.password = Operator THEN "update" ELSE "over"
    /\ UNCHANGED <<Settings, account, orders, cookie, handler, keyVars>>

\* Mutant of SeedInsert: an account that appeared meanwhile is made the administrator.
SeedInsertOrPromote ==
    IF Exists THEN [account EXCEPT !.role = "admin"]
    ELSE [NoAccount EXCEPT !.password = Operator, !.role = "admin"]

\* The UNIQUE constraint fails the INSERT and with it the script.
SeedInsert ==
    IF Exists THEN account ELSE [NoAccount EXCEPT !.password = Operator, !.role = "admin"]

SeedWrite ==
    /\ seed \in {"insert", "update"}
    /\ account' = IF seed = "insert" THEN SeedInsert ELSE [account EXCEPT !.role = "admin"]
    /\ seed' = "over"
    /\ UNCHANGED <<Settings, orders, cookie, handler, keyVars>>

\* revokeAutonomiaSessions.
RevokeSessions ==
    /\ Exists /\ orders < MaxOrders
    /\ orders' = orders + 1
    /\ account' = [account EXCEPT !.epoch = @ + 1]
    /\ UNCHANGED <<Settings, seed, cookie, handler, keyVars>>

\* The operator restricts the account, or bans it: no code here does, every check reads it.
SetStanding(standing) ==
    /\ Exists /\ orders < MaxOrders
    /\ account.standing # standing /\ account.standing # "banned"
    /\ orders' = orders + 1
    /\ account' = [account EXCEPT !.standing = standing]
    /\ UNCHANGED <<Settings, seed, cookie, handler, keyVars>>

HandlerStep(h) ==
    \/ Find(h) \/ Insert(h) \/ Hash(h) \/ User(h) \/ Clear(h) \/ Session(h)
    \/ Create(h) \/ CreateWrite(h) \/ Rotate(h) \/ RotateWrite(h) \/ Revoke(h) \/ UseKey(h)

OperatorStep ==
    \/ SeedRead \/ SeedWrite \/ RevokeSessions
    \/ \E standing \in {"restricted", "banned"} : SetStanding(standing)

AccessNext ==
    \/ \E h \in Handlers, c \in Clients, route \in Routes, k \in KeyIds \cup {0}, n \in 0..MaxSecrets :
          Arrive(h, c, route, k, n)
    \/ \E h \in Handlers : HandlerStep(h)
    \/ OperatorStep
    \/ (\E k \in KeyIds : ExpireKey(k)) /\ UNCHANGED accessVars

AccessSpec == AccessInit /\ [][AccessNext]_allVars

-----------------------------------------------------------------------------
(* Properties *)

Admits(h) == ~At(h, "idle") /\ handler'[h].answer = "admitted"

\* A revocation, a ban, a restriction, a rotation: a request that arrives afterwards is not
\* admitted, whatever was read, signed or handed out before or meanwhile.
ShutOutStaysOut ==
    [][\A h \in Handlers : Admits(h) =>
          /\ NeedsCookie(handler[h].route) => handler[h].cookie.epoch >= handler[h].began
          /\ ~handler[h].barred /\ ~handler[h].dead]_allVars

\* Sessions and the role of the administrator belong to who set the password, in every race
\* of two registrations and of a registration with the seed of the same address.
PasswordOwnsAccount ==
    /\ \A c \in Clients : cookie[c].signed => account.password = c
    /\ account.role = "admin" => account.password = Operator

\* Requests that create keys side by side never exceed the number of active keys (SQLite,
\* whose transactions run one at a time).
KeyLimit == dialect = "sqlite" => Cardinality(ActiveKeys) <= MaxActiveKeys

=============================================================================
