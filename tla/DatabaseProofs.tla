--------------------------- MODULE DatabaseProofs ---------------------------
(***************************************************************************)
(* Theorems about the database under the stores: the gate of a SQLite      *)
(* connection (SqliteGate), for any number of clients and statements, and  *)
(* the migration of its schema (SchemaMigration), for any number of        *)
(* processes and stops.  The two share nothing; each has an inductive      *)
(* invariant of its own.                                                   *)
(***************************************************************************)
EXTENDS SqliteGate, SchemaMigration, SequenceTheorems, TLAPS

-----------------------------------------------------------------------------
(* The gate of a SQLite connection.                                        *)

(***************************************************************************)
(* The invariant: while the connection is in a transaction the gate is     *)
(* closed and its holder is the head of the chain, so that nobody else can *)
(* begin, and only the holder's statements were written.                   *)
(***************************************************************************)
HolderInv ==
    holder # NoClient => /\ gate
                         /\ chain # <<>> /\ Head(chain) = holder
                         /\ pc[holder] = "inside"

InsideInv == \A c \in Clients : pc[c] = "inside" => c = holder

GateInv == TypeOK /\ HolderInv /\ InsideInv /\ NoForeignStatement

\* The types, and how a sequence of clients grows and shrinks.
LEMMA SeqSteps ==
  ASSUME NEW s \in Seq(Clients), NEW c \in Clients
  PROVE  /\ Append(s, c) \in Seq(Clients) /\ Append(s, c) # <<>>
         /\ s # <<>> => Head(Append(s, c)) = Head(s)
         /\ s # <<>> => Tail(s) \in Seq(Clients)
<1>1. Append(s, c) \in Seq(Clients) /\ Len(Append(s, c)) = Len(s) + 1
  BY AppendProperties
<1>2. Append(s, c) # <<>>
  BY <1>1, EmptySeq
<1>3. ASSUME s # <<>> PROVE Head(Append(s, c)) = Head(s)
  <2>1. Len(s) > 0
    BY <1>3, EmptySeq
  <2>2. Append(s, c)[1] = s[1]
    BY <2>1, AppendProperties
  <2>3. QED
    BY <2>2
<1>4. ASSUME s # <<>> PROVE Tail(s) \in Seq(Clients)
  BY <1>4, HeadTailProperties
<1>5. QED
  BY <1>1, <1>2, <1>3, <1>4

LEMMA GateInvInit == Init => GateInv
<1> SUFFICES ASSUME Init PROVE GateInv
  OBVIOUS
<1>1. TypeOK
  <2>1. <<>> \in Seq(Clients) /\ Len(<<>>) <= MaxStatements /\ 0 \in 0..MaxBusy
    BY SqliteGateAssumption
  <2>2. QED
    BY <2>1 DEF Init, TypeOK
<1>2. QED
  BY <1>1, SqliteGateAssumption DEF Init, GateInv, HolderInv, InsideInv, NoForeignStatement

\* A statement of c inside c's own transaction, or outside any.
LEMMA ExecuteStep ==
  ASSUME GateInv, NEW c \in Clients, holder # NoClient => holder = c,
         holder # NoClient => Len(written) < MaxStatements, Execute(<<c>>)
  PROVE  /\ written' \in Seq(Clients) /\ Len(written') <= MaxStatements
         /\ holder # NoClient => \A n \in 1..Len(written') : written'[n] = holder
<1>1. written \in Seq(Clients) /\ Len(written) <= MaxStatements /\ Len(written) \in Nat
      /\ MaxStatements \in Nat
  BY SqliteGateAssumption DEF GateInv, TypeOK
<1>2. CASE holder = NoClient
  BY <1>1, <1>2 DEF Execute
<1>3. CASE holder # NoClient
  <2>1. written' = written \o <<c>>
    BY <1>3 DEF Execute
  <2>2. /\ written' \in Seq(Clients) /\ Len(written') = Len(written) + 1
        /\ \A n \in 1..Len(written) : written'[n] = written[n]
        /\ written'[Len(written) + 1] = c
    BY <1>1, <2>1
  <2>3. \A n \in 1..Len(written) : written[n] = holder
    BY <1>3 DEF GateInv, NoForeignStatement
  <2>4. \A n \in 1..(Len(written) + 1) : n \in 1..Len(written) \/ n = Len(written) + 1
    BY <1>1
  <2>5. QED
    BY <1>1, <1>3, <2>2, <2>3, <2>4
<1>4. QED
  BY <1>2, <1>3

LEMMA NothingWritten == MaxStatements \in Nat => <<>> \in Seq(Clients) /\ Len(<<>>) <= MaxStatements
OBVIOUS

LEMMA ServedType ==
  ASSUME TypeOK, NEW x \in Clients
  PROVE  /\ Served(x) \in {"query", "queued", "ready", "chained", "inside"}
         /\ Served(x) = "inside" => pc[x] = "inside"
BY DEF Served, TypeOK

LEMMA GateInvStep == GateInv /\ [Next]_vars => GateInv'
<1> SUFFICES ASSUME GateInv, [Next]_vars PROVE GateInv'
  OBVIOUS
<1> USE SqliteGateAssumption
<1>1. ASSUME NEW c \in Clients, Query(c) PROVE GateInv'
  <2>1. CASE gate
    BY <1>1, <2>1, SeqSteps DEF Query, GateInv, TypeOK, HolderInv, InsideInv, NoForeignStatement
  <2>2. CASE ~gate
    <3>1. holder = NoClient /\ holder' = holder
      BY <1>1, <2>2 DEF Query, GateInv, HolderInv
    <3>2. written' \in Seq(Clients) /\ Len(written') <= MaxStatements
      BY <1>1, <2>2, <3>1, ExecuteStep DEF Query
    <3>3. QED
      BY <1>1, <2>2, <3>1, <3>2 DEF Query, GateInv, TypeOK, HolderInv, InsideInv, NoForeignStatement
  <2>3. QED
    BY <2>1, <2>2
<1>2. ASSUME NEW c \in Clients, Leave(c) PROVE GateInv'
  BY <1>2 DEF Leave, GateInv, TypeOK, HolderInv, InsideInv, NoForeignStatement
<1>3. ASSUME NEW c \in Clients, Enter(c) PROVE GateInv'
  BY <1>3, SeqSteps DEF Enter, GateInv, TypeOK, HolderInv, InsideInv, NoForeignStatement
<1>4. ASSUME NEW c \in Clients, Begin(c) PROVE GateInv'
  <2>1. holder = NoClient
    BY <1>4 DEF Begin, GateInv, HolderInv
  <2>2. chain # <<>>
    BY <1>4 DEF Begin
  <2>3. \A x \in Clients : pc[x] # "inside"
    BY <2>1 DEF GateInv, InsideInv
  <2>4. TypeOK'
    BY <1>4 DEF Begin, GateInv, TypeOK
  <2>5. QED
    BY <1>4, <2>2, <2>3, <2>4 DEF Begin, GateInv, TypeOK, HolderInv, InsideInv, NoForeignStatement
<1>5. ASSUME NEW c \in Clients, BeginFails(c) PROVE GateInv'
  <2>1. holder = NoClient
    BY <1>5 DEF BeginFails, GateInv, HolderInv
  <2>2. chain # <<>>
    BY <1>5 DEF BeginFails
  <2>3. \A x \in Clients : pc'[x] # "inside"
    BY <1>5, <2>1 DEF BeginFails, Served, GateInv, InsideInv, TypeOK
  <2>4. TypeOK'
    <3>1. chain' \in Seq(Clients) /\ busy' \in 0..MaxBusy
      BY <1>5, <2>2, SeqSteps DEF BeginFails, GateInv, TypeOK
    <3>2. pc' \in [Clients -> {"query", "queued", "ready", "chained", "inside"}]
      <4>1. CASE adapter = "node"
        BY <1>5, <4>1 DEF BeginFails, GateInv, TypeOK
      <4>2. CASE adapter # "node"
        <5>1. pc' = [x \in Clients |-> IF x = c THEN "query" ELSE Served(x)]
          BY <1>5, <4>2 DEF BeginFails
        <5>2. \A x \in Clients :
                (IF x = c THEN "query" ELSE Served(x)) \in {"query", "queued", "ready", "chained", "inside"}
          BY ServedType DEF GateInv
        <5>3. QED
          BY <5>1, <5>2
      <4>3. QED
        BY <4>1, <4>2
    <3>3. gate' \in BOOLEAN /\ pending' \in Seq(Clients)
      BY <1>5, NothingWritten DEF BeginFails, Flush, GateInv, TypeOK
    <3>4. QED
      BY <1>5, <3>1, <3>2, <3>3 DEF BeginFails, GateInv, TypeOK
  <2>5. QED
    BY <1>5, <2>1, <2>3, <2>4 DEF BeginFails, GateInv, HolderInv, InsideInv, NoForeignStatement
<1>6. ASSUME NEW c \in Clients, RunStatement(c) PROVE GateInv'
  <2>1. holder = c
    BY <1>6 DEF RunStatement, GateInv, InsideInv
  <2>2. QED
    BY <1>6, <2>1, ExecuteStep DEF RunStatement, GateInv, TypeOK, HolderInv, InsideInv, NoForeignStatement
<1>7. ASSUME NEW c \in Clients, End(c) PROVE GateInv'
  <2>1. \A x \in Clients : pc'[x] # "inside"
    BY <1>7 DEF End, Served, GateInv, InsideInv, TypeOK
  <2>2. TypeOK'
    <3>1. chain' \in Seq(Clients)
      <4>1. c = holder /\ holder # NoClient
        BY <1>7 DEF End, GateInv, InsideInv
      <4>2. chain # <<>>
        BY <4>1 DEF GateInv, HolderInv
      <4>3. QED
        BY <1>7, <4>2, SeqSteps DEF End, GateInv, TypeOK
    <3>2. pc' \in [Clients -> {"query", "queued", "ready", "chained", "inside"}]
      <4>1. pc' = [x \in Clients |-> IF x = c THEN "query" ELSE Served(x)]
        BY <1>7 DEF End
      <4>2. \A x \in Clients :
              (IF x = c THEN "query" ELSE Served(x)) \in {"query", "queued", "ready", "chained", "inside"}
        BY ServedType DEF GateInv
      <4>3. QED
        BY <4>1, <4>2
    <3>3. pending' \in Seq(Clients) /\ written' \in Seq(Clients) /\ Len(written') <= MaxStatements
      BY <1>7, NothingWritten DEF End, Flush
    <3>4. QED
      BY <1>7, <3>1, <3>2, <3>3 DEF End, GateInv, TypeOK
  <2>3. QED
    BY <1>7, <2>1, <2>2 DEF End, GateInv, HolderInv, InsideInv, NoForeignStatement
<1>8. CASE UNCHANGED vars
  BY <1>8 DEF vars, GateInv, TypeOK, HolderInv, InsideInv, NoForeignStatement
<1>9. QED
  BY <1>1, <1>2, <1>3, <1>4, <1>5, <1>6, <1>7, <1>8 DEF Next

\* The gate, the queue and the chain keep their types, and no transaction ever holds more
\* statements than its owner wrote (dbQuery, withAutonomiaTransaction).
THEOREM GateTypeCorrect == Spec => []TypeOK
<1>1. GateInv => TypeOK
  BY DEF GateInv
<1>2. QED
  BY <1>1, GateInvInit, GateInvStep, PTL DEF Spec

\* No statement of another request ever lands inside a transaction, on either adapter and
\* however many BEGINs fail (dbQuery and withAutonomiaTransaction).
THEOREM NoForeignStatements == Spec => []NoForeignStatement
<1>1. GateInv => NoForeignStatement
  BY DEF GateInv
<1>2. QED
  BY <1>1, GateInvInit, GateInvStep, PTL DEF Spec

\* The connection is never asked to begin a second transaction inside the first.
THEOREM OneTransactionAtATime == Spec => []OneTransaction
<1>1. GateInv => OneTransaction
  BY DEF GateInv, InsideInv, OneTransaction
<1>2. QED
  BY <1>1, GateInvInit, GateInvStep, PTL DEF Spec

-----------------------------------------------------------------------------
(***************************************************************************)
(* The migration of the schema.  The inductive invariant says of the       *)
(* database what every recorded version left in it, and of a process how   *)
(* far it has come with the version it is at; under the lock one process   *)
(* is past the lock at a time, so that the columns its version adds are    *)
(* there only as far as it has added them.                                 *)
(***************************************************************************)

-----------------------------------------------------------------------------
(* The four migrations, spelled out *)

LEMMA Lengths ==
    /\ Len(Migrations) = 4
    /\ Len(Migrations[1]) = 2 /\ Len(Migrations[2]) = 1
    /\ Len(Migrations[3]) = 3 /\ Len(Migrations[4]) = 1
    /\ Versions = 1..4
BY DEF Migrations, Versions

LEMMA StatementsAdd ==
    /\ Migrations[1][1].adds = CanonicalTables
    /\ Migrations[1][2].adds = CanonicalIndexes
    /\ Migrations[2][1].adds = {"autonomia_ip_rate_limit_windows"}
    /\ Migrations[3][1].adds = {"ai_api_keys.idempotency_replay_ttl_seconds"}
    /\ Migrations[3][2].adds = {"ai_requests.replay_of_request_id"}
    /\ Migrations[3][3].adds = {"ai_idempotency_replays", "replay indexes"}
    /\ Migrations[4][1].adds = {"users.session_epoch"}
BY DEF Migrations, Create, AddColumn

LEMMA StatementsOnce ==
    /\ ~Migrations[1][1].once
    /\ ~Migrations[1][2].once
    /\ ~Migrations[2][1].once
    /\ Migrations[3][1].once
    /\ Migrations[3][2].once
    /\ ~Migrations[3][3].once
    /\ Migrations[4][1].once
BY DEF Migrations, Create, AddColumn

\* A statement of some version, spelled out.
LEMMA EveryStatement ==
  ASSUME NEW v \in Versions, NEW i \in 1..Len(Migrations[v])
  PROVE  \/ v = 1 /\ i \in {1, 2}
         \/ v = 2 /\ i = 1
         \/ v = 3 /\ i \in {1, 2, 3}
         \/ v = 4 /\ i = 1
<1>1. v \in 1..4
  BY Lengths
<1>2. v = 1 \/ v = 2 \/ v = 3 \/ v = 4
  BY <1>1
<1>3. CASE v = 1
  BY <1>3, Lengths
<1>4. CASE v = 2
  BY <1>4, Lengths
<1>5. CASE v = 3
  BY <1>5, Lengths
<1>6. CASE v = 4
  BY <1>6, Lengths
<1> QED BY <1>2, <1>3, <1>4, <1>5, <1>6

\* Statement i of version v adds a column.
AddsColumnAt(v, i) == Migrations[v][i].once

LEMMA OnceAre ==
  ASSUME NEW v \in Versions, NEW i \in 1..Len(Migrations[v])
  PROVE  AddsColumnAt(v, i) <=> (v = 3 /\ i \in {1, 2}) \/ (v = 4)
<1>1. CASE v = 1 /\ i \in {1, 2}
  BY <1>1, StatementsOnce DEF AddsColumnAt
<1>2. CASE v = 2 /\ i = 1
  BY <1>2, StatementsOnce DEF AddsColumnAt
<1>3. CASE v = 3 /\ i \in {1, 2, 3}
  BY <1>3, StatementsOnce DEF AddsColumnAt
<1>4. CASE v = 4 /\ i = 1
  BY <1>4, StatementsOnce DEF AddsColumnAt
<1> QED BY <1>1, <1>2, <1>3, <1>4, EveryStatement

\* Statement j of version w is one of these and adds S.
AddedBy(w, j, S) ==
    \/ w = 1 /\ j = 1 /\ S = CanonicalTables
    \/ w = 1 /\ j = 2 /\ S = CanonicalIndexes
    \/ w = 2 /\ j = 1 /\ S = {"autonomia_ip_rate_limit_windows"}
    \/ w = 3 /\ j = 1 /\ S = {"ai_api_keys.idempotency_replay_ttl_seconds"}
    \/ w = 3 /\ j = 2 /\ S = {"ai_requests.replay_of_request_id"}
    \/ w = 3 /\ j = 3 /\ S = {"ai_idempotency_replays", "replay indexes"}
    \/ w = 4 /\ j = 1 /\ S = {"users.session_epoch"}

LEMMA WhoAdds ==
  ASSUME NEW w \in Versions, NEW j \in 1..Len(Migrations[w])
  PROVE  AddedBy(w, j, Migrations[w][j].adds)
<1> USE DEF AddedBy
<1>1. CASE w = 1 /\ j \in {1, 2}
  BY <1>1, StatementsAdd
<1>2. CASE w = 2 /\ j = 1
  BY <1>2, StatementsAdd
<1>3. CASE w = 3 /\ j \in {1, 2, 3}
  BY <1>3, StatementsAdd
<1>4. CASE w = 4 /\ j = 1
  BY <1>4, StatementsAdd
<1> QED BY <1>1, <1>2, <1>3, <1>4, EveryStatement

\* The columns that an ALTER adds, and where.
ColumnAt(c, v, i) ==
    \/ c = "ai_api_keys.idempotency_replay_ttl_seconds" /\ v = 3 /\ i = 1
    \/ c = "ai_requests.replay_of_request_id" /\ v = 3 /\ i = 2
    \/ c = "users.session_epoch" /\ v = 4 /\ i = 1

LEMMA OneAdder ==
  ASSUME NEW c, NEW v, NEW i, ColumnAt(c, v, i), NEW w, NEW j, NEW S, AddedBy(w, j, S), c \in S
  PROVE  w = v /\ j = i
BY DEF ColumnAt, AddedBy, CanonicalTables, CanonicalIndexes

LEMMA NotATable ==
  ASSUME NEW c, NEW v, NEW i, ColumnAt(c, v, i)
  PROVE  c \notin BaseTables /\ c # MigrationTable
BY DEF ColumnAt, BaseTables, MigrationTable

\* c is a column that statement i of version v adds, and nothing else has its name.
ColumnOf(c, v, i) ==
    /\ Migrations[v][i].adds = {c}
    /\ c \notin BaseTables /\ c # MigrationTable
    /\ \A w \in Versions : \A j \in 1..Len(Migrations[w]) :
          c \in Migrations[w][j].adds => w = v /\ j = i

LEMMA ColumnsAreOwn ==
  ASSUME NEW v \in Versions, NEW i \in 1..Len(Migrations[v]), AddsColumnAt(v, i)
  PROVE  \E c : ColumnOf(c, v, i)
<1>1. (v = 3 /\ i = 1) \/ (v = 3 /\ i = 2) \/ (v = 4 /\ i = 1)
  <2>1. (v = 3 /\ i \in {1, 2}) \/ v = 4
    BY OnceAre
  <2>2. v = 4 => i \in 1..Len(Migrations[4])
    OBVIOUS
  <2> QED BY <2>1, <2>2, Lengths
<1>2. PICK c : ColumnAt(c, v, i) /\ Migrations[v][i].adds = {c}
  <2>1. CASE v = 3 /\ i = 1
    BY <2>1, StatementsAdd DEF ColumnAt
  <2>2. CASE v = 3 /\ i = 2
    BY <2>2, StatementsAdd DEF ColumnAt
  <2>3. CASE v = 4 /\ i = 1
    BY <2>3, StatementsAdd DEF ColumnAt
  <2> QED BY <1>1, <2>1, <2>2, <2>3
<1>3. ASSUME NEW w \in Versions, NEW j \in 1..Len(Migrations[w]), c \in Migrations[w][j].adds
      PROVE  w = v /\ j = i
  <2>1. AddedBy(w, j, Migrations[w][j].adds)
    BY WhoAdds
  <2>2. ColumnAt(c, v, i)
    BY <1>2
  <2> QED BY <1>3, <2>1, <2>2, OneAdder
<1>4. c \notin BaseTables /\ c # MigrationTable
  BY <1>2, NotATable, Zenon
<1>5. ColumnOf(c, v, i)
  BY <1>2, <1>3, <1>4, Zenon DEF ColumnOf
<1> QED BY <1>5

LEMMA AddsGrows ==
  ASSUME NEW v \in Versions, NEW s \in 1..Len(Migrations[v])
  PROVE  /\ Adds(v, s) = Adds(v, s - 1) \cup Migrations[v][s].adds
         /\ Adds(v, 0) = {}
<1>1. s \in Nat /\ s >= 1
  BY Lengths, EveryStatement
<1>2. 1..s = (1..(s - 1)) \cup {s}
  BY <1>1
<1> QED BY <1>2 DEF Adds

LEMMA AddsAreThings ==
  ASSUME NEW v \in Versions
  PROVE  /\ AddsOf(v) \subseteq Everything
         /\ \A i \in 1..Len(Migrations[v]) : Migrations[v][i].adds \subseteq AddsOf(v)
BY Lengths DEF AddsOf, Adds, AddsUpTo, Everything

\* What a database and its record of versions say of each other.
Sound(things, versions) ==
    /\ \A v \in versions : AddsOf(v) \subseteq things /\ 1..v \subseteq versions
    /\ versions # {} => BaseTables \cup {MigrationTable} \subseteq things

LEMMA SoundIsComplete ==
  ASSUME NEW things, NEW versions, Sound(things, versions), 4 \in versions
  PROVE  Everything \subseteq things
<1>1. \A v \in 1..4 : v \in versions
  BY DEF Sound
<1>2. \A v \in 1..4 : AddsOf(v) \subseteq things
  BY <1>1 DEF Sound
<1>3. AddsUpTo(4) \subseteq things
  BY <1>2 DEF AddsUpTo
<1> QED BY <1>3, Lengths DEF Everything, Sound

-----------------------------------------------------------------------------
(* The invariant *)

Busy(p) == process[p].pc \notin {"idle", "done", "failed"}

\* What a running migrator has seen to.
Progress(p) ==
    /\ process[p].pc \in {"base", "check", "table"} => process[p].version = 1
    /\ process[p].pc \in {"check", "table", "lookup", "apply", "record", "verify"} => BaseTables \subseteq objects
    /\ process[p].pc \in {"lookup", "apply", "record", "verify"} =>
          MigrationTable \in objects /\ 1..(process[p].version - 1) \subseteq recorded
    /\ process[p].pc \in {"apply", "record"} => process[p].version \in Versions
    /\ process[p].pc = "apply" =>
          /\ process[p].step \in 1..Len(Migrations[process[p].version])
          /\ Adds(process[p].version, process[p].step - 1) \subseteq objects
    /\ process[p].pc = "record" => AddsOf(process[p].version) \subseteq objects

\* Under the lock there is one migrator at a time.
Alone == mode = "locked" => \A p \in Migrators : Busy(p) => lock = {p}

\* Who serves, and who came to the end under the lock.
Finished(p) == process[p].serving \/ (mode = "locked" /\ process[p].pc = "done")

\* The last version stays recorded for them, also when somebody rolls back.
Kept ==
    \A p \in Migrators : Finished(p) =>
        4 \in recorded /\ (mode = "locked" /\ lock # {} => 4 \in saved.recorded)

\* Statement i of version v is what p applied and has not recorded yet.
AppliedBy(p, v, i) ==
    /\ process[p].version = v
    /\ \/ process[p].pc = "apply" /\ i < process[p].step
       \/ process[p].pc = "record"

\* Under the lock a column is there because its version is recorded, or will be by the
\* migrator that is at work.
NoLooseColumn ==
    mode = "locked" =>
        /\ \A v \in Versions : \A i \in 1..Len(Migrations[v]) :
              AddsColumnAt(v, i) /\ Migrations[v][i].adds \subseteq objects /\ v \notin recorded
                => \E p \in Migrators : AppliedBy(p, v, i)
        /\ \A v \in Versions : \A i \in 1..Len(Migrations[v]) :
              AddsColumnAt(v, i) /\ Migrations[v][i].adds \subseteq saved.objects => v \in saved.recorded
        /\ \A p \in Migrators : process[p].pc \in {"apply", "record"} => process[p].version \notin recorded

MigrationInv ==
    /\ MigrationTypeOK
    /\ Sound(objects, recorded)
    /\ Sound(saved.objects, saved.recorded)
    /\ \A p \in Migrators : Progress(p)
    /\ Alone
    /\ Kept
    /\ NoLooseColumn
    /\ LockedNeverCollide

-----------------------------------------------------------------------------
(* It holds at the start *)

LEMMA MigrationInitInv == ASSUME MigrationInit PROVE MigrationInv
<1>1. PICK n \in 0..4 : /\ recorded = 1..n
                        /\ objects = IF n = 0 THEN {} ELSE BaseTables \cup {MigrationTable} \cup AddsUpTo(n)
  BY Lengths DEF MigrationInit
<1>2. \A v \in 1..n : v \in Versions /\ AddsOf(v) \subseteq AddsUpTo(n)
  BY <1>1, Lengths DEF AddsUpTo
<1>3. MigrationTypeOK
  <2>1. AddsUpTo(n) \subseteq AddsUpTo(4)
    BY <1>1 DEF AddsUpTo
  <2>2. objects \subseteq Everything /\ recorded \subseteq Versions
    BY <1>1, <2>1, Lengths DEF Everything
  <2>3. process \in [Migrators -> Process]
    BY Lengths DEF MigrationInit, Process
  <2>4. saved \in [objects : SUBSET Everything, recorded : SUBSET Versions]
    BY DEF MigrationInit
  <2>5. mode \in {"autocommit", "locked"} /\ lock \subseteq Migrators /\ stops \in 0..MaxStops
    BY MigrationAssumption DEF MigrationInit
  <2>6. torn \in BOOLEAN
    BY DEF MigrationInit
  <2> QED BY <2>2, <2>3, <2>4, <2>5, <2>6, Zenon DEF MigrationTypeOK
<1>4. Sound(objects, recorded)
  BY <1>1, <1>2 DEF Sound
<1>5. Sound(saved.objects, saved.recorded)
  BY DEF MigrationInit, Sound
<1>6. \A p \in Migrators : process[p].pc = "idle" /\ ~process[p].serving /\ process[p].error = "none"
  BY DEF MigrationInit
<1>7. (\A p \in Migrators : Progress(p)) /\ Alone /\ Kept /\ LockedNeverCollide
  BY <1>6 DEF Progress, Alone, Busy, Kept, Finished, LockedNeverCollide
<1>8. ASSUME NEW v \in Versions, NEW i \in 1..Len(Migrations[v]), AddsColumnAt(v, i)
      PROVE  /\ Migrations[v][i].adds \subseteq objects => v \in recorded
             /\ ~(Migrations[v][i].adds \subseteq saved.objects)
  <2>1. PICK c : ColumnOf(c, v, i)
    BY <1>8, ColumnsAreOwn
  <2>2. ASSUME c \in objects PROVE v \in recorded
    <3>1. c \in AddsUpTo(n)
      BY <1>1, <2>1, <2>2 DEF ColumnOf
    <3>2. PICK w \in 1..n : c \in AddsOf(w)
      BY <3>1 DEF AddsUpTo
    <3>3. PICK j \in 1..Len(Migrations[w]) : c \in Migrations[w][j].adds
      BY <3>2 DEF AddsOf, Adds
    <3>4. w = v
      BY <1>2, <3>3, <2>1 DEF ColumnOf
    <3> QED BY <1>1, <3>4
  <2>3. saved.objects = {}
    BY DEF MigrationInit
  <2> QED BY <2>1, <2>2, <2>3 DEF ColumnOf
<1>9. NoLooseColumn
  BY <1>6, <1>8 DEF NoLooseColumn
<1> QED BY <1>3, <1>4, <1>5, <1>7, <1>9 DEF MigrationInv

-----------------------------------------------------------------------------
(* Every step preserves it *)

\* What was achieved stays achieved while nothing is taken away.
LEMMA ProgressStays ==
  ASSUME NEW q \in Migrators, Progress(q), process'[q] = process[q],
         objects \subseteq objects', recorded \subseteq recorded'
  PROVE  Progress(q)'
<1>1. \A n : 1..n \subseteq recorded => 1..n \subseteq recorded'
  OBVIOUS
<1> QED BY <1>1 DEF Progress

\* A step of p that takes nothing away and leaves lock and rollback alone.
GrowsBy(p) ==
    /\ UNCHANGED <<mode, lock, saved>>
    /\ objects \subseteq objects' /\ recorded \subseteq recorded'
    /\ \A q \in Migrators \ {p} : process'[q] = process[q]
    /\ process'[p].serving = process[p].serving
    /\ process'[p].error = process[p].error
    /\ process'[p].pc # "done"
    /\ Busy(p)

LEMMA GrowingIsHarmless ==
  ASSUME MigrationInv, NEW p \in Migrators, GrowsBy(p)
  PROVE  /\ Sound(saved.objects, saved.recorded)'
         /\ Progress(p)' => \A q \in Migrators : Progress(q)'
         /\ Alone'
         /\ Kept'
         /\ LockedNeverCollide'
<1>1. Sound(saved.objects, saved.recorded)'
  BY DEF MigrationInv, GrowsBy, Sound
<1>2. ASSUME Progress(p)', NEW q \in Migrators PROVE Progress(q)'
  BY <1>2, ProgressStays DEF MigrationInv, GrowsBy
<1>3. Alone'
  BY DEF MigrationInv, GrowsBy, Alone, Busy
<1>4. Kept'
  BY DEF MigrationInv, GrowsBy, Kept, Finished
<1>5. LockedNeverCollide'
  BY DEF MigrationInv, GrowsBy, LockedNeverCollide
<1> QED BY <1>1, <1>2, <1>3, <1>4, <1>5

\* A column is among the new things only if its statement put it there.
LEMMA TablesAreNoColumns ==
  ASSUME NEW v \in Versions, NEW i \in 1..Len(Migrations[v]), AddsColumnAt(v, i), NEW X
  PROVE  /\ Migrations[v][i].adds \subseteq X \cup BaseTables => Migrations[v][i].adds \subseteq X
         /\ Migrations[v][i].adds \subseteq X \cup {MigrationTable} => Migrations[v][i].adds \subseteq X
         /\ \A w \in Versions : \A j \in 1..Len(Migrations[w]) :
               Migrations[v][i].adds \subseteq X \cup Migrations[w][j].adds
                 => Migrations[v][i].adds \subseteq X \/ (w = v /\ j = i)
<1>1. PICK c : ColumnOf(c, v, i)
  BY ColumnsAreOwn
<1> QED BY <1>1 DEF ColumnOf

LEMMA ProcessIs ==
  Process = [pc : {"idle", "base", "check", "table", "lookup", "apply", "record", "verify", "done", "failed"},
             version : 1..5, step : 1..12,
             error : {"none", "duplicate", "stopped", "incomplete"}, serving : BOOLEAN]
BY Lengths DEF Process

LEMMA StepIsTyped ==
  ASSUME NEW r \in Process, NEW n \in 1..12
  PROVE  [r EXCEPT !.step = n] \in Process
BY ProcessIs

LEMMA LengthsAre ==
  ASSUME NEW v \in Versions
  PROVE  Len(Migrations[v]) \in 1..3
<1>1. CASE v = 1
  BY <1>1, Lengths
<1>2. CASE v = 2
  BY <1>2, Lengths
<1>3. CASE v = 3
  BY <1>3, Lengths
<1>4. CASE v = 4
  BY <1>4, Lengths
<1> QED BY <1>1, <1>2, <1>3, <1>4, Lengths

LEMMA BecomesIsTyped ==
  ASSUME MigrationInv, NEW p \in Migrators, NEW next \in Process, Becomes(p, next)
  PROVE  /\ process' \in [Migrators -> Process]
         /\ process'[p] = next
         /\ \A q \in Migrators \ {p} : process'[q] = process[q]
BY DEF MigrationInv, MigrationTypeOK, Becomes

\* No column is loose after a step that adds none and records nothing.
LEMMA NoNewColumn ==
  ASSUME MigrationInv, NEW p \in Migrators, GrowsBy(p), recorded' = recorded,
         \A v \in Versions : \A i \in 1..Len(Migrations[v]) :
            AddsColumnAt(v, i) /\ Migrations[v][i].adds \subseteq objects' => Migrations[v][i].adds \subseteq objects,
         process[p].pc \notin {"apply", "record"},
         process'[p].pc \in {"apply", "record"} => process'[p].version \notin recorded
  PROVE  NoLooseColumn'
<1>1. \A q \in Migrators, v \in Versions : \A i \in 1..Len(Migrations[v]) :
         AppliedBy(q, v, i) => AppliedBy(q, v, i)'
  BY DEF GrowsBy, AppliedBy
<1> QED BY <1>1 DEF MigrationInv, NoLooseColumn, GrowsBy

LEMMA EnsureBaseInv ==
  ASSUME MigrationInv, NEW p \in Migrators, EnsureBase(p)
  PROVE  MigrationInv'
<1> DEFINE next == Goto(p, "check")
<1>1. next \in Process /\ process[p] \in Process
  BY DEF MigrationInv, MigrationTypeOK, Goto, Process
<1>2. Becomes(p, next) /\ UNCHANGED <<mode, lock, saved, stops, torn, recorded>>
  BY DEF EnsureBase, Continue
<1>3. process' \in [Migrators -> Process] /\ process'[p] = next
      /\ \A q \in Migrators \ {p} : process'[q] = process[q]
  BY <1>1, <1>2, BecomesIsTyped
<1>4. /\ process'[p].pc = "check" /\ process[p].pc = "base"
      /\ process'[p].version = process[p].version
      /\ process'[p].serving = process[p].serving /\ process'[p].error = process[p].error
  BY <1>1, <1>3 DEF Goto, EnsureBase, At, Process
<1>5. GrowsBy(p)
  BY <1>2, <1>3, <1>4 DEF GrowsBy, EnsureBase, Busy
<1>6. MigrationTypeOK'
  BY <1>2, <1>3 DEF MigrationInv, MigrationTypeOK, EnsureBase, Everything
<1>7. Sound(objects, recorded)'
  BY <1>2 DEF MigrationInv, Sound, EnsureBase
<1>8. Progress(p)'
  BY <1>4 DEF MigrationInv, Progress, EnsureBase
<1>9. NoLooseColumn'
  <2>1. objects' = objects \cup BaseTables
    BY DEF EnsureBase
  <2>2. \A v \in Versions : \A i \in 1..Len(Migrations[v]) :
          AddsColumnAt(v, i) /\ Migrations[v][i].adds \subseteq objects' => Migrations[v][i].adds \subseteq objects
    <3>1. TAKE v \in Versions
    <3>2. TAKE i \in 1..Len(Migrations[v])
    <3>3. AddsColumnAt(v, i) =>
            (Migrations[v][i].adds \subseteq objects \cup BaseTables => Migrations[v][i].adds \subseteq objects)
      BY TablesAreNoColumns, Zenon
    <3> QED BY <2>1, <3>3, Zenon
  <2>3. process[p].pc \notin {"apply", "record"} /\ process'[p].pc \notin {"apply", "record"}
    BY <1>4
  <2> QED BY <1>2, <1>5, <2>2, <2>3, NoNewColumn
<1> QED BY <1>5, <1>6, <1>7, <1>8, <1>9, GrowingIsHarmless DEF MigrationInv

LEMMA CheckInv ==
  ASSUME MigrationInv, NEW p \in Migrators, Check(p), ~Ready
  PROVE  MigrationInv'
<1> DEFINE next == Goto(p, "table")
<1>1. next \in Process /\ process[p] \in Process
  BY DEF MigrationInv, MigrationTypeOK, Goto, Process
<1>2. Becomes(p, next) /\ UNCHANGED <<mode, lock, saved, stops, torn, objects, recorded>>
  BY DEF Check, Continue
<1>3. process' \in [Migrators -> Process] /\ process'[p] = next
      /\ \A q \in Migrators \ {p} : process'[q] = process[q]
  BY <1>1, <1>2, BecomesIsTyped
<1>4. /\ process'[p].pc = "table" /\ process[p].pc = "check"
      /\ process'[p].version = process[p].version
      /\ process'[p].serving = process[p].serving /\ process'[p].error = process[p].error
  BY <1>1, <1>3 DEF Goto, Check, At, Process
<1>5. GrowsBy(p)
  BY <1>2, <1>3, <1>4 DEF GrowsBy, Busy
<1>6. MigrationTypeOK'
  BY <1>2, <1>3 DEF MigrationInv, MigrationTypeOK
<1>7. Sound(objects, recorded)'
  BY <1>2 DEF MigrationInv, Sound
<1>8. Progress(p)'
  BY <1>2, <1>4 DEF MigrationInv, Progress
<1>9. NoLooseColumn'
  BY <1>2, <1>4, <1>5, NoNewColumn
<1> QED BY <1>5, <1>6, <1>7, <1>8, <1>9, GrowingIsHarmless DEF MigrationInv

LEMMA CreateMigrationTableInv ==
  ASSUME MigrationInv, NEW p \in Migrators, CreateMigrationTable(p)
  PROVE  MigrationInv'
<1> DEFINE next == Goto(p, "lookup")
<1>1. next \in Process /\ process[p] \in Process
  BY DEF MigrationInv, MigrationTypeOK, Goto, Process
<1>2. Becomes(p, next) /\ UNCHANGED <<mode, lock, saved, stops, torn, recorded>>
  BY DEF CreateMigrationTable, Continue
<1>3. process' \in [Migrators -> Process] /\ process'[p] = next
      /\ \A q \in Migrators \ {p} : process'[q] = process[q]
  BY <1>1, <1>2, BecomesIsTyped
<1>4. /\ process'[p].pc = "lookup" /\ process[p].pc = "table"
      /\ process'[p].version = 1 /\ process[p].version = 1
      /\ process'[p].serving = process[p].serving /\ process'[p].error = process[p].error
  BY <1>1, <1>3 DEF Goto, CreateMigrationTable, At, Process, MigrationInv, Progress
<1>5. GrowsBy(p)
  BY <1>2, <1>3, <1>4 DEF GrowsBy, CreateMigrationTable, Busy
<1>6. MigrationTypeOK'
  BY <1>2, <1>3 DEF MigrationInv, MigrationTypeOK, CreateMigrationTable, Everything
<1>7. Sound(objects, recorded)'
  BY <1>2 DEF MigrationInv, Sound, CreateMigrationTable
<1>8. Progress(p)'
  BY <1>2, <1>4 DEF MigrationInv, Progress, CreateMigrationTable
<1>9. NoLooseColumn'
  <2>1. objects' = objects \cup {MigrationTable}
    BY DEF CreateMigrationTable
  <2>2. \A v \in Versions : \A i \in 1..Len(Migrations[v]) :
          AddsColumnAt(v, i) /\ Migrations[v][i].adds \subseteq objects' => Migrations[v][i].adds \subseteq objects
    <3>1. TAKE v \in Versions
    <3>2. TAKE i \in 1..Len(Migrations[v])
    <3>3. AddsColumnAt(v, i) =>
            (Migrations[v][i].adds \subseteq objects \cup {MigrationTable} => Migrations[v][i].adds \subseteq objects)
      BY TablesAreNoColumns, Zenon
    <3> QED BY <2>1, <3>3, Zenon
  <2>3. process[p].pc \notin {"apply", "record"} /\ process'[p].pc \notin {"apply", "record"}
    BY <1>4
  <2> QED BY <1>2, <1>5, <2>2, <2>3, NoNewColumn
<1> QED BY <1>5, <1>6, <1>7, <1>8, <1>9, GrowingIsHarmless DEF MigrationInv

\* The version p looks up is not recorded, is, or is past the last.
LookedUp(p) ==
    LET v == process[p].version
    IN  IF v \notin Versions THEN Goto(p, "verify")
        ELSE IF v \in recorded THEN [process[p] EXCEPT !.version = v + 1]
        ELSE [process[p] EXCEPT !.pc = "apply", !.step = 1]

LEMMA LookupInv ==
  ASSUME MigrationInv, NEW p \in Migrators, Lookup(p)
  PROVE  MigrationInv'
<1> DEFINE next == LookedUp(p)
<1>0. process[p] \in Process /\ process[p].pc = "lookup" /\ process[p].version \in 1..5
  BY Lengths DEF MigrationInv, MigrationTypeOK, Process, Lookup, At
<1>1. next \in Process
  <2>1. [process[p] EXCEPT !.pc = "verify"] \in Process
    BY <1>0, ProcessIs
  <2>2. process[p].version \in Versions => [process[p] EXCEPT !.version = process[p].version + 1] \in Process
    BY <1>0, ProcessIs, Lengths
  <2>3. [process[p] EXCEPT !.pc = "apply", !.step = 1] \in Process
    <3>1. [process[p] EXCEPT !.pc = "apply"] \in Process
      BY <1>0, ProcessIs
    <3>2. 1 \in 1..12
      OBVIOUS
    <3> QED BY <3>1, <3>2, StepIsTyped, Zenon
  <2>4. CASE process[p].version \notin Versions
    BY <2>1, <2>4 DEF LookedUp, Goto
  <2>5. CASE process[p].version \in Versions /\ process[p].version \in recorded
    BY <2>2, <2>5, Zenon DEF LookedUp
  <2>6. CASE process[p].version \in Versions /\ process[p].version \notin recorded
    BY <2>3, <2>6, Zenon DEF LookedUp
  <2> QED BY <2>4, <2>5, <2>6
<1>2. Becomes(p, next) /\ UNCHANGED <<mode, lock, saved, stops, torn, objects, recorded>>
  BY DEF Lookup, Continue, LookedUp
<1>3. process' \in [Migrators -> Process] /\ process'[p] = next
      /\ \A q \in Migrators \ {p} : process'[q] = process[q]
  BY <1>1, <1>2, BecomesIsTyped
<1>4. /\ process'[p].serving = process[p].serving /\ process'[p].error = process[p].error
      /\ process'[p].pc \in {"lookup", "apply", "verify"}
  BY <1>0, <1>3 DEF LookedUp, Goto, Process
<1>5. GrowsBy(p)
  BY <1>0, <1>2, <1>3, <1>4 DEF GrowsBy, Busy
<1>6. MigrationTypeOK'
  BY <1>2, <1>3 DEF MigrationInv, MigrationTypeOK
<1>7. Sound(objects, recorded)'
  BY <1>2 DEF MigrationInv, Sound
<1>8. Progress(p)' /\ (process'[p].pc \in {"apply", "record"} => process'[p].version \notin recorded)
  <2>1. BaseTables \subseteq objects /\ MigrationTable \in objects /\ 1..(process[p].version - 1) \subseteq recorded
    BY <1>0 DEF MigrationInv, Progress
  <2>2. CASE process[p].version \notin Versions
    <3>1. process'[p].pc = "verify" /\ process'[p].version = process[p].version
      BY <1>0, <1>3, <2>2 DEF LookedUp, Goto, Process
    <3> QED BY <1>2, <2>1, <3>1 DEF Progress
  <2>3. CASE process[p].version \in Versions /\ process[p].version \in recorded
    <3>1. process'[p].pc = "lookup" /\ process'[p].version = process[p].version + 1
      BY <1>0, <1>3, <2>3 DEF LookedUp, Goto, Process
    <3>2. 1..process[p].version \subseteq recorded
      BY <2>3 DEF MigrationInv, Sound
    <3>3. process'[p].version - 1 = process[p].version
      BY <1>0, <3>1
    <3> QED BY <1>2, <2>1, <3>1, <3>2, <3>3 DEF Progress
  <2>4. CASE process[p].version \in Versions /\ process[p].version \notin recorded
    <3>1. process'[p].pc = "apply" /\ process'[p].version = process[p].version /\ process'[p].step = 1
      BY <1>0, <1>3, <2>4 DEF LookedUp, Goto, Process
    <3>n. PICK n : n = Len(Migrations[process[p].version])
      OBVIOUS
    <3>l. n \in 1..3
      BY <2>4, <3>n, LengthsAre, Zenon
    <3>2. 1 \in 1..Len(Migrations[process[p].version])
      <4>1. 1 \in 1..n
        BY <3>l
      <4> QED BY <3>n, <4>1
    <3>3. Adds(process[p].version, process'[p].step - 1) \subseteq objects
      BY <2>4, <3>1, <3>2, AddsGrows
    <3> QED BY <1>2, <2>1, <2>4, <3>1, <3>2, <3>3 DEF Progress
  <2> QED BY <2>2, <2>3, <2>4
<1>9. NoLooseColumn'
  BY <1>0, <1>2, <1>5, <1>8, NoNewColumn
<1> QED BY <1>5, <1>6, <1>7, <1>8, <1>9, GrowingIsHarmless DEF MigrationInv

LEMMA ApplyInv ==
  ASSUME MigrationInv, NEW p \in Migrators, Apply(p),
         ~(Statement(p).once /\ Statement(p).adds \subseteq objects)
  PROVE  MigrationInv'
<1> DEFINE next == AfterStatement(p)
<1>v. PICK v, s : v = process[p].version /\ s = process[p].step
  OBVIOUS
<1>0. /\ process[p] \in Process /\ process[p].pc = "apply"
      /\ process[p].version = v /\ process[p].step = s
      /\ v \in Versions /\ s \in 1..Len(Migrations[v]) /\ Adds(v, s - 1) \subseteq objects
      /\ 1..(v - 1) \subseteq recorded /\ BaseTables \subseteq objects /\ MigrationTable \in objects
  BY <1>v DEF MigrationInv, MigrationTypeOK, Apply, At, Progress
<1>1. s \in 1..3 /\ Len(Migrations[v]) \in 1..3
  <2>1. Len(Migrations[v]) \in 1..3
    BY <1>0, LengthsAre, Zenon
  <2>2. s \in 1..Len(Migrations[v])
    BY <1>0
  <2>3. \A n \in 1..3 : \A k \in 1..n : k \in 1..3
    OBVIOUS
  <2> QED BY <2>1, <2>2, <2>3, Zenon
<1>2. next \in Process
  <2>1. CASE s = Len(Migrations[v])
    BY <1>0, <2>1, ProcessIs DEF AfterStatement
  <2>2. CASE s # Len(Migrations[v])
    <3>1. s + 1 \in 1..12
      BY <1>1
    <3>2. next = [process[p] EXCEPT !.step = s + 1]
      BY <1>0, <2>2 DEF AfterStatement
    <3> QED BY <1>0, <3>1, <3>2, StepIsTyped, ZenonT(30)
  <2> QED BY <2>1, <2>2
<1>3. /\ Becomes(p, next) /\ UNCHANGED <<mode, lock, saved, stops, torn, recorded>>
      /\ objects' = objects \cup Migrations[v][s].adds
  BY <1>0 DEF Apply, Continue, Statement
<1>4. process' \in [Migrators -> Process] /\ process'[p] = next
      /\ \A q \in Migrators \ {p} : process'[q] = process[q]
  BY <1>2, <1>3, BecomesIsTyped
<1>5. /\ process'[p].serving = process[p].serving /\ process'[p].error = process[p].error
      /\ process'[p].version = v
      /\ \/ process'[p].pc = "record" /\ s = Len(Migrations[v])
         \/ process'[p].pc = "apply" /\ s # Len(Migrations[v]) /\ process'[p].step = s + 1
  BY <1>0, <1>4, ProcessIs DEF AfterStatement
<1>6. GrowsBy(p)
  BY <1>0, <1>3, <1>4, <1>5 DEF GrowsBy, Busy
<1>7. MigrationTypeOK'
  <2>1. Migrations[v][s].adds \subseteq Everything
    BY <1>0, AddsAreThings
  <2> QED BY <1>3, <1>4, <2>1 DEF MigrationInv, MigrationTypeOK
<1>8. Sound(objects, recorded)'
  BY <1>3 DEF MigrationInv, Sound
<1>9. Progress(p)'
  <2>1. Adds(v, s) \subseteq objects'
    BY <1>0, <1>3, AddsGrows
  <2>2. CASE process'[p].pc = "record" /\ s = Len(Migrations[v])
    BY <1>0, <1>3, <1>5, <2>1, <2>2 DEF Progress, AddsOf
  <2>3. CASE process'[p].pc = "apply" /\ s # Len(Migrations[v]) /\ process'[p].step = s + 1
    <3>1. process'[p].step \in 1..Len(Migrations[v]) /\ process'[p].step - 1 = s
      BY <1>0, <1>1, <2>3
    <3> QED BY <1>0, <1>3, <1>5, <2>1, <2>3, <3>1 DEF Progress
  <2> QED BY <1>5, <2>2, <2>3
<1>10. NoLooseColumn'
  <2>1. SUFFICES ASSUME mode = "locked" PROVE NoLooseColumn'
    BY <1>3 DEF NoLooseColumn
  <2>2. \A q \in Migrators : \A w \in Versions : \A i \in 1..Len(Migrations[w]) :
           AppliedBy(q, w, i) => AppliedBy(q, w, i)'
    BY <1>0, <1>1, <1>4, <1>5 DEF AppliedBy
  <2>3. AppliedBy(p, v, s)'
    BY <1>0, <1>1, <1>5 DEF AppliedBy
  <2>4. ASSUME NEW w \in Versions, NEW i \in 1..Len(Migrations[w]), AddsColumnAt(w, i),
               Migrations[w][i].adds \subseteq objects', w \notin recorded
        PROVE  \E q \in Migrators : AppliedBy(q, w, i)'
    <3>1. Migrations[w][i].adds \subseteq objects \/ (w = v /\ i = s)
      BY <1>0, <1>3, <2>4, TablesAreNoColumns
    <3>2. CASE Migrations[w][i].adds \subseteq objects
      BY <2>1, <2>2, <2>4, <3>2 DEF MigrationInv, NoLooseColumn
    <3>3. CASE w = v /\ i = s
      BY <2>3, <3>3
    <3> QED BY <3>1, <3>2, <3>3
  <2>5. \A q \in Migrators : process'[q].pc \in {"apply", "record"} => process'[q].version \notin recorded
    BY <1>0, <1>4, <1>5, <2>1 DEF MigrationInv, NoLooseColumn
  <2> QED BY <1>3, <2>1, <2>4, <2>5 DEF MigrationInv, NoLooseColumn
<1> QED BY <1>6, <1>7, <1>8, <1>9, <1>10, GrowingIsHarmless DEF MigrationInv

LEMMA RecordInv ==
  ASSUME MigrationInv, NEW p \in Migrators, Record(p)
  PROVE  MigrationInv'
<1>v. PICK v : v = process[p].version
  OBVIOUS
<1> DEFINE next == [process[p] EXCEPT !.pc = "lookup", !.version = v + 1]
<1>0. /\ process[p] \in Process /\ process[p].pc = "record" /\ process[p].version = v
      /\ v \in Versions /\ AddsOf(v) \subseteq objects
      /\ 1..(v - 1) \subseteq recorded /\ BaseTables \subseteq objects /\ MigrationTable \in objects
  BY <1>v DEF MigrationInv, MigrationTypeOK, Record, At, Progress
<1>1. v \in 1..4 /\ v + 1 \in 1..5
  BY <1>0, Lengths
<1>2. next \in Process
  <2>1. \A r \in Process : \A n \in 1..5 : [r EXCEPT !.version = n] \in Process
    BY ProcessIs
  <2>2. [process[p] EXCEPT !.pc = "lookup"] \in Process
    BY <1>0, ProcessIs
  <2> QED BY <1>1, <2>1, <2>2, Zenon
<1>3. /\ Becomes(p, next) /\ UNCHANGED <<mode, lock, saved, stops, torn, objects>>
      /\ recorded' = recorded \cup {v}
  BY <1>0 DEF Record, Continue
<1>4. process' \in [Migrators -> Process] /\ process'[p] = next
      /\ \A q \in Migrators \ {p} : process'[q] = process[q]
  BY <1>2, <1>3, BecomesIsTyped
<1>5. /\ process'[p].serving = process[p].serving /\ process'[p].error = process[p].error
      /\ process'[p].version = v + 1 /\ process'[p].pc = "lookup"
  BY <1>0, <1>4, ProcessIs
<1>6. GrowsBy(p)
  BY <1>0, <1>3, <1>4, <1>5 DEF GrowsBy, Busy
<1>7. MigrationTypeOK'
  BY <1>0, <1>3, <1>4 DEF MigrationInv, MigrationTypeOK
<1>8. 1..v \subseteq recorded'
  BY <1>0, <1>1, <1>3
<1>9. Sound(objects, recorded)'
  <2>1. \A w \in recorded : AddsOf(w) \subseteq objects /\ 1..w \subseteq recorded
    BY DEF MigrationInv, Sound
  <2>2. \A w \in recorded' : AddsOf(w) \subseteq objects /\ 1..w \subseteq recorded'
    BY <1>0, <1>3, <1>8, <2>1
  <2> QED BY <1>0, <1>3, <2>2 DEF Sound
<1>10. Progress(p)'
  BY <1>0, <1>1, <1>3, <1>5, <1>8 DEF Progress
<1>11. NoLooseColumn'
  <2>1. SUFFICES ASSUME mode = "locked" PROVE NoLooseColumn'
    BY <1>3 DEF NoLooseColumn
  <2>2. lock = {p} /\ \A q \in Migrators : Busy(q) => q = p
    BY <1>0, <2>1 DEF MigrationInv, Alone, Busy
  <2>3. ASSUME NEW w \in Versions, NEW i \in 1..Len(Migrations[w]), AddsColumnAt(w, i),
               Migrations[w][i].adds \subseteq objects, w \notin recorded'
        PROVE  FALSE
    <3>1. PICK q \in Migrators : AppliedBy(q, w, i)
      BY <1>3, <2>1, <2>3 DEF MigrationInv, NoLooseColumn
    <3>2. q = p
      BY <2>2, <3>1 DEF AppliedBy, Busy
    <3>3. w = v
      BY <1>0, <3>1, <3>2 DEF AppliedBy
    <3> QED BY <1>3, <2>3, <3>3
  <2>4. \A q \in Migrators : process'[q].pc \notin {"apply", "record"}
    BY <1>4, <1>5, <2>2 DEF Busy
  <2> QED BY <1>3, <2>1, <2>3, <2>4 DEF MigrationInv, NoLooseColumn
<1> QED BY <1>6, <1>7, <1>9, <1>10, <1>11, GrowingIsHarmless DEF MigrationInv

-----------------------------------------------------------------------------
(* Steps that begin or end a run *)

LEMMA ReturnInv ==
  ASSUME MigrationInv, NEW p \in Migrators, Busy(p), process[p].pc \notin {"apply", "record"}, Ready, Return(p)
  PROVE  MigrationInv'
<1> DEFINE next == [process[p] EXCEPT !.pc = "done"]
<1>1. next \in Process /\ process[p] \in Process
  BY ProcessIs DEF MigrationInv, MigrationTypeOK
<1>2. Becomes(p, next) /\ UNCHANGED <<mode, objects, recorded, saved, stops, torn>> /\ lock' = lock \ {p}
  BY DEF Return
<1>3. process' \in [Migrators -> Process] /\ process'[p] = next
      /\ \A q \in Migrators \ {p} : process'[q] = process[q]
  BY <1>1, <1>2, BecomesIsTyped
<1>4. /\ process'[p].serving = process[p].serving /\ process'[p].error = process[p].error
      /\ process'[p].pc = "done"
  BY <1>1, <1>3, ProcessIs
<1>5. MigrationTypeOK'
  BY <1>2, <1>3 DEF MigrationInv, MigrationTypeOK
<1>6. Sound(objects, recorded)' /\ Sound(saved.objects, saved.recorded)'
  BY <1>2 DEF MigrationInv, Sound
<1>7. ASSUME NEW q \in Migrators PROVE Progress(q)'
  <2>1. Progress(p)'
    BY <1>4 DEF Progress
  <2>2. q # p => Progress(q)'
    BY <1>2, <1>3, ProgressStays DEF MigrationInv
  <2> QED BY <2>1, <2>2
<1>8. mode = "locked" => lock = {p} /\ lock' = {} /\ \A q \in Migrators : Busy(q) => q = p
  BY <1>2 DEF MigrationInv, Alone
<1>9. Alone'
  BY <1>2, <1>3, <1>4, <1>8 DEF Alone, Busy
<1>10. Kept'
  <2>1. 4 \in recorded
    BY Lengths DEF Ready
  <2> QED BY <1>2, <1>3, <1>4, <1>8, <2>1 DEF Kept
<1>11. NoLooseColumn'
  <2>1. \A q \in Migrators, v \in Versions : \A i \in 1..Len(Migrations[v]) :
           AppliedBy(q, v, i) => AppliedBy(q, v, i)'
    BY <1>3 DEF AppliedBy
  <2>2. \A q \in Migrators : process'[q].pc \in {"apply", "record"} => process'[q] = process[q]
    BY <1>3, <1>4
  <2> QED BY <1>2, <2>1, <2>2 DEF MigrationInv, NoLooseColumn
<1>12. LockedNeverCollide'
  BY <1>2, <1>3, <1>4 DEF MigrationInv, LockedNeverCollide
<1> QED BY <1>5, <1>6, <1>7, <1>9, <1>10, <1>11, <1>12 DEF MigrationInv

LEMMA ServeInv ==
  ASSUME MigrationInv, NEW p \in Migrators, Serve(p)
  PROVE  MigrationInv'
<1> DEFINE next == [process[p] EXCEPT !.serving = TRUE]
<1>1. next \in Process /\ process[p] \in Process
  BY ProcessIs DEF MigrationInv, MigrationTypeOK
<1>2. Becomes(p, next) /\ UNCHANGED <<mode, objects, recorded, saved, stops, torn, lock>>
  BY DEF Serve, Continue
<1>3. process' \in [Migrators -> Process] /\ process'[p] = next
      /\ \A q \in Migrators \ {p} : process'[q] = process[q]
  BY <1>1, <1>2, BecomesIsTyped
<1>4. /\ process'[p].error = process[p].error
      /\ process'[p].pc = process[p].pc
      /\ process'[p].version = process[p].version
      /\ process'[p].step = process[p].step
  BY <1>1, <1>3, ProcessIs
<1>5. MigrationTypeOK'
  BY <1>2, <1>3 DEF MigrationInv, MigrationTypeOK
<1>6. Sound(objects, recorded)' /\ Sound(saved.objects, saved.recorded)'
  BY <1>2 DEF MigrationInv, Sound
<1>7. ASSUME NEW q \in Migrators PROVE Progress(q)'
  <2>1. Progress(p)'
    BY <1>2, <1>4 DEF MigrationInv, Progress
  <2>2. q # p => Progress(q)'
    BY <1>2, <1>3, ProgressStays DEF MigrationInv
  <2> QED BY <2>1, <2>2
<1>8. Alone'
  BY <1>2, <1>3, <1>4 DEF MigrationInv, Alone, Busy
<1>9. Kept'
  <2>1. 4 \in recorded
    BY Lengths DEF Serve, Ready
  <2>2. mode = "locked" => process[p].pc = "done"
    BY DEF Serve, At
  <2> QED BY <1>2, <1>3, <1>4, <2>1, <2>2 DEF MigrationInv, Kept, Finished
<1>10. NoLooseColumn'
  <2>1. \A q \in Migrators, v \in Versions : \A i \in 1..Len(Migrations[v]) :
           AppliedBy(q, v, i) => AppliedBy(q, v, i)'
    BY <1>3, <1>4 DEF AppliedBy
  <2>2. \A q \in Migrators : process'[q].pc = process[q].pc /\ process'[q].version = process[q].version
    BY <1>3, <1>4
  <2> QED BY <1>2, <2>1, <2>2 DEF MigrationInv, NoLooseColumn
<1>11. LockedNeverCollide'
  BY <1>2, <1>3, <1>4 DEF MigrationInv, LockedNeverCollide
<1> QED BY <1>5, <1>6, <1>7, <1>8, <1>9, <1>10, <1>11 DEF MigrationInv

LEMMA StartInv ==
  ASSUME MigrationInv, NEW p \in Migrators, Start(p)
  PROVE  MigrationInv'
<1> DEFINE next == [process[p] EXCEPT !.pc = "base", !.version = 1, !.step = 1, !.error = "none"]
<1>1. next \in Process /\ process[p] \in Process
  <2>1. process[p] \in Process
    BY DEF MigrationInv, MigrationTypeOK
  <2>2. [process[p] EXCEPT !.pc = "base"] \in Process
    BY <2>1, ProcessIs
  <2>3. \A r \in Process : [r EXCEPT !.version = 1] \in Process
    BY ProcessIs
  <2>4. \A r \in Process : [r EXCEPT !.step = 1] \in Process
    BY ProcessIs
  <2>5. \A r \in Process : [r EXCEPT !.error = "none"] \in Process
    BY ProcessIs
  <2> QED BY <2>1, <2>2, <2>3, <2>4, <2>5, Zenon
<1>2. Becomes(p, next) /\ UNCHANGED <<mode, objects, recorded, stops, torn>>
  BY DEF Start
<1>3. process' \in [Migrators -> Process] /\ process'[p] = next
      /\ \A q \in Migrators \ {p} : process'[q] = process[q]
  BY <1>1, <1>2, BecomesIsTyped
<1>4. /\ process'[p].serving = process[p].serving /\ process'[p].error = "none"
      /\ process'[p].pc = "base" /\ process'[p].version = 1
  BY <1>1, <1>3, ProcessIs
<1>5. CASE mode = "locked"
  <2>1. lock = {} /\ lock' = {p} /\ saved' = [objects |-> objects, recorded |-> recorded]
    BY <1>5 DEF Start
  <2>2. saved'.objects = objects' /\ saved'.recorded = recorded'
    BY <1>2, <2>1
  <2>3. \A q \in Migrators : ~Busy(q)
    BY <1>5, <2>1 DEF MigrationInv, Alone
  <2>4. MigrationTypeOK'
    BY <1>2, <1>3, <2>1 DEF MigrationInv, MigrationTypeOK
  <2>5. Sound(objects, recorded)' /\ Sound(saved.objects, saved.recorded)'
    BY <1>2, <2>2 DEF MigrationInv, Sound
  <2>6. ASSUME NEW q \in Migrators PROVE Progress(q)'
    BY <1>3, <1>4, <2>3 DEF Progress, Busy
  <2>7. Alone'
    BY <1>3, <2>1, <2>3 DEF Alone, Busy
  <2>8. Kept'
    BY <1>2, <1>3, <1>4, <2>2 DEF MigrationInv, Kept, Finished
  <2>9. NoLooseColumn'
    <3>1. ASSUME NEW v \in Versions, NEW i \in 1..Len(Migrations[v]), AddsColumnAt(v, i),
                 Migrations[v][i].adds \subseteq objects
          PROVE  v \in recorded
      <4>1. ~\E q \in Migrators : AppliedBy(q, v, i)
        BY <2>3 DEF AppliedBy, Busy
      <4> QED BY <1>5, <3>1, <4>1 DEF MigrationInv, NoLooseColumn
    <3>2. \A q \in Migrators : process'[q].pc \notin {"apply", "record"}
      BY <1>3, <1>4, <2>3 DEF Busy
    <3> QED BY <1>2, <2>2, <3>1, <3>2 DEF NoLooseColumn
  <2>10. LockedNeverCollide'
    BY <1>2, <1>3, <1>4 DEF MigrationInv, LockedNeverCollide
  <2> QED BY <2>4, <2>5, <2>6, <2>7, <2>8, <2>9, <2>10 DEF MigrationInv
<1>6. CASE mode # "locked"
  <2>1. lock' = {} /\ saved' = saved
    BY <1>6 DEF Start
  <2>2. MigrationTypeOK'
    BY <1>2, <1>3, <2>1 DEF MigrationInv, MigrationTypeOK
  <2>3. Sound(objects, recorded)' /\ Sound(saved.objects, saved.recorded)'
    BY <1>2, <2>1 DEF MigrationInv, Sound
  <2>4. ASSUME NEW q \in Migrators PROVE Progress(q)'
    <3>1. Progress(p)'
      BY <1>4 DEF Progress
    <3>2. q # p => Progress(q)'
      BY <1>2, <1>3, ProgressStays DEF MigrationInv
    <3> QED BY <3>1, <3>2
  <2>5. Alone' /\ NoLooseColumn' /\ LockedNeverCollide'
    BY <1>2, <1>6 DEF Alone, NoLooseColumn, LockedNeverCollide
  <2>6. Kept'
    BY <1>2, <1>3, <1>4, <1>6 DEF MigrationInv, Kept, Finished
  <2> QED BY <2>2, <2>3, <2>4, <2>5, <2>6 DEF MigrationInv
<1> QED BY <1>5, <1>6

LEMMA ThrowInv ==
  ASSUME MigrationInv, NEW p \in Migrators, Busy(p),
         NEW error \in {"duplicate", "stopped", "incomplete"}, mode = "locked" => error # "duplicate",
         Throw(p, error), stops' \in 0..MaxStops, torn' \in BOOLEAN
  PROVE  MigrationInv'
<1> DEFINE next == [process[p] EXCEPT !.pc = "failed", !.error = error]
<1>1. next \in Process /\ process[p] \in Process
  <2>1. process[p] \in Process
    BY DEF MigrationInv, MigrationTypeOK
  <2>2. \A r \in Process : [r EXCEPT !.error = error] \in Process
    BY ProcessIs
  <2>3. [process[p] EXCEPT !.pc = "failed"] \in Process
    BY <2>1, ProcessIs
  <2> QED BY <2>1, <2>2, <2>3, Zenon
<1>2. Becomes(p, next) /\ UNCHANGED <<mode, saved>> /\ lock' = lock \ {p}
  BY DEF Throw
<1>3. process' \in [Migrators -> Process] /\ process'[p] = next
      /\ \A q \in Migrators \ {p} : process'[q] = process[q]
  BY <1>1, <1>2, BecomesIsTyped
<1>4. /\ process'[p].serving = process[p].serving /\ process'[p].error = error
      /\ process'[p].pc = "failed"
  BY <1>1, <1>3, ProcessIs
<1>5. CASE mode = "locked"
  <2>1. objects' = saved.objects /\ recorded' = saved.recorded
    BY <1>5 DEF Throw
  <2>2. lock = {p} /\ lock' = {} /\ \A q \in Migrators : Busy(q) => q = p
    BY <1>2, <1>5 DEF MigrationInv, Alone
  <2>3. \A q \in Migrators : process'[q].pc \in {"idle", "done", "failed"}
    BY <1>3, <1>4, <2>2 DEF Busy
  <2>4. MigrationTypeOK'
    BY <1>2, <1>3, <2>1, <2>2 DEF MigrationInv, MigrationTypeOK
  <2>5. Sound(objects, recorded)' /\ Sound(saved.objects, saved.recorded)'
    BY <1>2, <2>1 DEF MigrationInv, Sound
  <2>6. ASSUME NEW q \in Migrators PROVE Progress(q)'
    BY <2>3 DEF Progress
  <2>7. Alone'
    BY <2>3 DEF Alone, Busy
  <2>8. Kept'
    BY <1>2, <1>3, <1>4, <1>5, <2>1, <2>2 DEF MigrationInv, Kept, Finished
  <2>9. NoLooseColumn'
    BY <1>2, <1>5, <2>1, <2>3 DEF MigrationInv, NoLooseColumn
  <2>10. LockedNeverCollide'
    BY <1>2, <1>3, <1>4, <1>5 DEF MigrationInv, LockedNeverCollide
  <2> QED BY <2>4, <2>5, <2>6, <2>7, <2>8, <2>9, <2>10 DEF MigrationInv
<1>6. CASE mode # "locked"
  <2>1. UNCHANGED <<objects, recorded>>
    BY <1>6 DEF Throw
  <2>2. MigrationTypeOK'
    BY <1>2, <1>3, <2>1 DEF MigrationInv, MigrationTypeOK
  <2>3. Sound(objects, recorded)' /\ Sound(saved.objects, saved.recorded)'
    BY <1>2, <2>1 DEF MigrationInv, Sound
  <2>4. ASSUME NEW q \in Migrators PROVE Progress(q)'
    <3>1. Progress(p)'
      BY <1>4 DEF Progress
    <3>2. q # p => Progress(q)'
      BY <1>3, <2>1, ProgressStays DEF MigrationInv
    <3> QED BY <3>1, <3>2
  <2>5. Alone' /\ NoLooseColumn' /\ LockedNeverCollide'
    BY <1>2, <1>6 DEF Alone, NoLooseColumn, LockedNeverCollide
  <2>6. Kept'
    BY <1>2, <1>3, <1>4, <1>6, <2>1 DEF MigrationInv, Kept, Finished
  <2> QED BY <2>2, <2>3, <2>4, <2>5, <2>6 DEF MigrationInv
<1> QED BY <1>5, <1>6

\* Under the lock a statement finds its column missing.
LEMMA NoDuplicate ==
  ASSUME MigrationInv, NEW p \in Migrators, mode = "locked", process[p].pc = "apply",
         Statement(p).once, Statement(p).adds \subseteq objects
  PROVE  FALSE
<1>v. PICK v, s : v = process[p].version /\ s = process[p].step
  OBVIOUS
<1>1. v \in Versions /\ s \in 1..Len(Migrations[v]) /\ v \notin recorded
  BY <1>v DEF MigrationInv, Progress, NoLooseColumn
<1>2. AddsColumnAt(v, s) /\ Migrations[v][s].adds \subseteq objects
  BY <1>v DEF Statement, AddsColumnAt
<1>3. PICK q \in Migrators : AppliedBy(q, v, s)
  BY <1>1, <1>2 DEF MigrationInv, NoLooseColumn
<1>4. q = p
  BY <1>3 DEF MigrationInv, Alone, AppliedBy, Busy
<1>5. s < s
  BY <1>v, <1>3, <1>4 DEF AppliedBy
<1>6. s \in Nat
  <2>1. Len(Migrations[v]) \in 1..3
    BY <1>1, LengthsAre, Zenon
  <2>2. \A n \in 1..3 : \A k \in 1..n : k \in Nat
    OBVIOUS
  <2> QED BY <1>1, <2>1, <2>2, Zenon
<1> QED BY <1>5, <1>6

LEMMA MigrationStepInv ==
  ASSUME MigrationInv, [MigrationNext]_migrationVars
  PROVE  MigrationInv'
<1>1. CASE UNCHANGED migrationVars
  <2>1. \A p \in Migrators : Progress(p)' <=> Progress(p)
    BY <1>1 DEF migrationVars, Progress
  <2>2. MigrationTypeOK' /\ Sound(objects, recorded)' /\ Sound(saved.objects, saved.recorded)'
    BY <1>1 DEF migrationVars, MigrationInv, MigrationTypeOK, Sound
  <2>3. Alone' /\ Kept' /\ LockedNeverCollide'
    BY <1>1 DEF migrationVars, MigrationInv, Alone, Busy, Kept, Finished, LockedNeverCollide
  <2>4. NoLooseColumn'
    BY <1>1 DEF migrationVars, MigrationInv, NoLooseColumn, AppliedBy
  <2> QED BY <2>1, <2>2, <2>3, <2>4 DEF MigrationInv
<1>2. ASSUME NEW p \in Migrators, MigratorStep(p) \/ Serve(p) \/ Stop(p)
      PROVE  MigrationInv'
  <2>1. CASE Start(p)
    BY <2>1, StartInv
  <2>2. CASE EnsureBase(p)
    BY <2>2, EnsureBaseInv
  <2>3. CASE Check(p) /\ Ready
    BY <2>3, ReturnInv DEF Check, At, Busy
  <2>4. CASE Check(p) /\ ~Ready
    BY <2>4, CheckInv
  <2>5. CASE CreateMigrationTable(p)
    BY <2>5, CreateMigrationTableInv
  <2>6. CASE Lookup(p)
    BY <2>6, LookupInv
  <2>7. CASE Apply(p) /\ ~(Statement(p).once /\ Statement(p).adds \subseteq objects)
    BY <2>7, ApplyInv
  <2>8. CASE Apply(p) /\ Statement(p).once /\ Statement(p).adds \subseteq objects
    <3>1. process[p].pc = "apply" /\ Busy(p)
      BY <2>8 DEF Apply, At, Busy
    <3>2. Throw(p, "duplicate") /\ UNCHANGED <<stops, torn>>
      BY <2>8 DEF Apply
    <3>3. mode # "locked"
      BY <2>8, <3>1, NoDuplicate
    <3>4. stops' \in 0..MaxStops /\ torn' \in BOOLEAN
      BY <3>2 DEF MigrationInv, MigrationTypeOK
    <3> QED BY <3>1, <3>2, <3>3, <3>4, ThrowInv
  <2>9. CASE Record(p)
    BY <2>9, RecordInv
  <2>10. CASE Verify(p) /\ Ready
    BY <2>10, ReturnInv DEF Verify, At, Busy
  <2>11. CASE Verify(p) /\ ~Ready
    <3>1. Busy(p) /\ Throw(p, "incomplete") /\ UNCHANGED <<stops, torn>>
      BY <2>11 DEF Verify, At, Busy
    <3>2. stops' \in 0..MaxStops /\ torn' \in BOOLEAN
      BY <3>1 DEF MigrationInv, MigrationTypeOK
    <3> QED BY <3>1, <3>2, ThrowInv
  <2>12. CASE Serve(p)
    BY <2>12, ServeInv
  <2>13. CASE Stop(p)
    <3>1. Busy(p) /\ Throw(p, "stopped")
      BY <2>13 DEF Stop, Busy
    <3>2. stops' \in 0..MaxStops
      BY <2>13, MigrationAssumption DEF Stop, MigrationInv, MigrationTypeOK
    <3>3. torn' \in BOOLEAN
      BY <2>13, Zenon DEF Stop
    <3> QED BY <3>1, <3>2, <3>3, ThrowInv
  <2> QED BY <1>2, <2>1, <2>2, <2>3, <2>4, <2>5, <2>6, <2>7, <2>8, <2>9, <2>10, <2>11, <2>12, <2>13
          DEF MigratorStep
<1> QED BY <1>1, <1>2 DEF MigrationNext

-----------------------------------------------------------------------------
(* Theorems *)

\* The inductive invariant of the runs of migrateAutonomiaSchema.
THEOREM MigrationKeepsInv == MigrationSpec => []MigrationInv
BY MigrationInitInv, MigrationStepInv, PTL DEF MigrationSpec

\* The types, for any migrators and any number of stops.
THEOREM MigrationTypeCorrect == MigrationSpec => []MigrationTypeOK
<1>1. MigrationInv => MigrationTypeOK
  BY DEF MigrationInv
<1> QED BY <1>1, MigrationKeepsInv, PTL

\* A recorded version is there with all before it, however many processes migrate at once
\* and wherever they die.
THEOREM VersionsAreApplied == MigrationSpec => []RecordedIsApplied
<1>1. MigrationInv => RecordedIsApplied
  BY DEF MigrationInv, Sound, RecordedIsApplied
<1> QED BY <1>1, MigrationKeepsInv, PTL

\* Who serves has everything, for ever.
THEOREM ServedIsComplete == MigrationSpec => []ServedSchemaIsComplete
<1>1. ASSUME MigrationInv PROVE ServedSchemaIsComplete
  <2>1. ASSUME NEW p \in Migrators, process[p].serving PROVE Everything \subseteq objects
    <3>1. 4 \in recorded /\ Sound(objects, recorded)
      BY <1>1, <2>1 DEF MigrationInv, Kept, Finished
    <3> QED BY <3>1, SoundIsComplete
  <2> QED BY <2>1 DEF ServedSchemaIsComplete
<1> QED BY <1>1, MigrationKeepsInv, PTL

\* Under the advisory lock no ALTER fails on a column that is there.
THEOREM NobodyCollides == MigrationSpec => []LockedNeverCollide
<1>1. MigrationInv => LockedNeverCollide
  BY DEF MigrationInv
<1> QED BY <1>1, MigrationKeepsInv, PTL

=============================================================================
