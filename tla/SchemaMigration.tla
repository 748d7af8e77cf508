-------------------------- MODULE SchemaMigration --------------------------
(***************************************************************************)
(* The versioned schema migration of packages/core/src/schemaMigration.ts, *)
(* run by bootstrap.ts before a process serves requests.                   *)
(*                                                                         *)
(* Two ways to run it exist.  "autocommit": the migrate and revoke scripts *)
(* and the Durable Object send one statement after the other, each         *)
(* committed at once, and several processes may do so beside each other.   *)
(* "locked": an isolate of the Workers PostgreSQL runtime does it in one   *)
(* transaction under an advisory lock.  A process may die, or a statement  *)
(* fail, at any step; whoever failed is started again.                     *)
(***************************************************************************)
EXTENDS Naturals, Sequences, FiniteSets

CONSTANTS
    Migrators,      \* processes that run the migration
    MaxStops        \* bound: processes that die, or lose a statement, on the way

ASSUME MigrationAssumption == MaxStops \in Nat

-----------------------------------------------------------------------------
(* What the statements create *)

BaseTables == {"users", "ledger_entries"}

MigrationTable == "autonomia_ai_schema_migrations"

\* canonicalTables: every statement is a CREATE TABLE IF NOT EXISTS.
CanonicalTables ==
    {"ai_api_keys", "ai_requests", "ai_provider_attempts", "ai_provider_credentials",
     "ai_provider_credential_leases", "ai_billing_reservations", "ai_rate_limit_buckets",
     "ai_api_inflight_leases"}

\* CANONICAL_INDEXES, one name for all of them: CREATE INDEX IF NOT EXISTS.
CanonicalIndexes == {"canonical indexes"}

\* Statements that may be repeated are one; a column can be added once.
Create(things) == [adds |-> things, once |-> FALSE]
AddColumn(column) == [adds |-> {column}, once |-> TRUE]

Migrations ==
    << <<Create(CanonicalTables), Create(CanonicalIndexes)>>,
       <<Create({"autonomia_ip_rate_limit_windows"})>>,
       <<AddColumn("ai_api_keys.idempotency_replay_ttl_seconds"),
         AddColumn("ai_requests.replay_of_request_id"),
         Create({"ai_idempotency_replays", "replay indexes"})>>,
       <<AddColumn("users.session_epoch")>> >>

Versions == 1..Len(Migrations)

\* What versions 1..n create, and what the first s statements of version v do.
Adds(v, s) == UNION {Migrations[v][i].adds : i \in 1..s}
AddsOf(v) == Adds(v, Len(Migrations[v]))
AddsUpTo(n) == UNION {AddsOf(v) : v \in 1..n}

Everything == BaseTables \cup {MigrationTable} \cup AddsUpTo(Len(Migrations))

\* REQUIRED_AUTONOMIA_COLUMNS and REQUIRED_AUTONOMIA_INDEXES: neither the users table
\* nor the rate limit windows are looked at.
Required ==
    CanonicalTables \cup CanonicalIndexes
    \cup {"ai_api_keys.idempotency_replay_ttl_seconds", "ai_requests.replay_of_request_id",
          "ai_idempotency_replays", "replay indexes"}

-----------------------------------------------------------------------------
(* State *)

VARIABLES
    mode,       \* how this deployment migrates
    objects,    \* tables, columns and indexes that exist
    recorded,   \* versions in autonomia_ai_schema_migrations
    process,    \* [Migrators -> Process]
    lock,       \* the migrators that hold the advisory lock: one at most
    saved,      \* the database before the open transaction
    stops,
    torn        \* ghost: a migration stopped between an ALTER and its record

migrationVars == <<mode, objects, recorded, process, lock, saved, stops, torn>>

Process ==
    [pc : {"idle", "base", "check", "table", "lookup", "apply", "record", "verify",
           "done", "failed"},
     version : 1..(Len(Migrations) + 1),
     step : 1..(Len(Migrations) * 3),
     error : {"none", "duplicate", "stopped", "incomplete"},
     serving : BOOLEAN]                \* the cached promise of ensureAiSchema is fulfilled

MigrationTypeOK ==
    /\ mode \in {"autocommit", "locked"}
    /\ objects \subseteq Everything
    /\ recorded \subseteq Versions
    /\ process \in [Migrators -> Process]
    /\ lock \subseteq Migrators
    /\ saved \in [objects : SUBSET Everything, recorded : SUBSET Versions]
    /\ stops \in 0..MaxStops
    /\ torn \in BOOLEAN

\* A new database, or one that an older release left behind.
MigrationInit ==
    /\ mode \in {"autocommit", "locked"}
    /\ \E n \in 0..Len(Migrations) :
          /\ recorded = 1..n
          /\ objects = IF n = 0 THEN {} ELSE BaseTables \cup {MigrationTable} \cup AddsUpTo(n)
    /\ process = [p \in Migrators |-> [pc |-> "idle", version |-> 1, step |-> 1,
                                       error |-> "none", serving |-> FALSE]]
    /\ lock = {}
    /\ saved = [objects |-> {}, recorded |-> {}]
    /\ stops = 0
    /\ torn = FALSE

-----------------------------------------------------------------------------
(* Helpers *)

At(p, pc) == process[p].pc = pc

\* Mutant of Ready: the recorded version is not looked at.
ReadyByColumns == MigrationTable \in objects /\ Required \subseteq objects

\* isAutonomiaSchemaReady.  Its queries are one step: what they look for never goes away,
\* and the version is read first.
Ready ==
    /\ MigrationTable \in objects
    /\ Len(Migrations) \in recorded
    /\ Required \subseteq objects

Becomes(p, next) == process' = [process EXCEPT ![p] = next]

Goto(p, pc) == [process[p] EXCEPT !.pc = pc]

\* The run goes on, with a step that leaves the locks alone.
Continue(p, next) ==
    /\ Becomes(p, next)
    /\ UNCHANGED <<mode, lock, saved, stops, torn>>

\* The run returns: COMMIT releases the lock.
Return(p) ==
    /\ Becomes(p, [process[p] EXCEPT !.pc = "done"])
    /\ lock' = lock \ {p}
    /\ UNCHANGED <<mode, objects, recorded, saved, stops, torn>>

\* Mutant of Throw: the transaction is not rolled back.
ThrowWithoutRollback(p, error) ==
    /\ Becomes(p, [process[p] EXCEPT !.pc = "failed", !.error = error])
    /\ lock' = lock \ {p}
    /\ UNCHANGED <<mode, objects, recorded, saved>>

\* The run throws: ROLLBACK under the lock, otherwise what was applied stays.
Throw(p, error) ==
    /\ Becomes(p, [process[p] EXCEPT !.pc = "failed", !.error = error])
    /\ lock' = lock \ {p}
    /\ IF mode = "locked"
       THEN objects' = saved.objects /\ recorded' = saved.recorded
       ELSE UNCHANGED <<objects, recorded>>
    /\ UNCHANGED <<mode, saved>>

-----------------------------------------------------------------------------
(* The run of a migrator *)

\* Mutant of Start: the advisory lock is not taken.
StartWithoutLock(p) ==
    /\ process[p].pc \in {"idle", "failed"}
    /\ Becomes(p, [process[p] EXCEPT !.pc = "base", !.version = 1, !.step = 1, !.error = "none"])
    /\ saved' = IF mode = "locked" THEN [objects |-> objects, recorded |-> recorded] ELSE saved
    /\ UNCHANGED <<mode, objects, recorded, lock, stops, torn>>

\* ensureAutonomiaSchemaReady is called: by a script, by the first request, or again
\* after a failure, which nobody caches.
Start(p) ==
    /\ process[p].pc \in {"idle", "failed"}
    /\ mode = "locked" => lock = {}
    /\ Becomes(p, [process[p] EXCEPT !.pc = "base", !.version = 1, !.step = 1, !.error = "none"])
    /\ lock' = IF mode = "locked" THEN {p} ELSE {}
    /\ saved' = IF mode = "locked" THEN [objects |-> objects, recorded |-> recorded] ELSE saved
    /\ UNCHANGED <<mode, objects, recorded, stops, torn>>

\* ensureLedgerSchema and ensureUsersSchema: CREATE ... IF NOT EXISTS only.
EnsureBase(p) ==
    /\ At(p, "base")
    /\ objects' = objects \cup BaseTables
    /\ Continue(p, Goto(p, "check"))
    /\ UNCHANGED recorded

\* Nothing to do, or the versions are gone through one by one.
Check(p) ==
    /\ At(p, "check")
    /\ IF Ready
       THEN Return(p)
       ELSE Continue(p, Goto(p, "table")) /\ UNCHANGED <<objects, recorded>>

CreateMigrationTable(p) ==
    /\ At(p, "table")
    /\ objects' = objects \cup {MigrationTable}
    /\ Continue(p, Goto(p, "lookup"))
    /\ UNCHANGED recorded

\* SELECT version: a recorded version is skipped.
Lookup(p) ==
    LET v == process[p].version
    IN  /\ At(p, "lookup")
        /\ Continue(p, IF v \notin Versions THEN Goto(p, "verify")
                       ELSE IF v \in recorded THEN [process[p] EXCEPT !.version = v + 1]
                       ELSE [process[p] EXCEPT !.pc = "apply", !.step = 1])
        /\ UNCHANGED <<objects, recorded>>

Statement(p) == Migrations[process[p].version][process[p].step]

\* Mutant of AfterStatement: recorded with one statement to go.
AfterStatementTooEarly(p) ==
    IF process[p].step + 1 >= Len(Migrations[process[p].version])
    THEN [process[p] EXCEPT !.pc = "record"]
    ELSE [process[p] EXCEPT !.step = @ + 1]

\* After its last statement a migration is recorded.
AfterStatement(p) ==
    IF process[p].step = Len(Migrations[process[p].version])
    THEN [process[p] EXCEPT !.pc = "record"]
    ELSE [process[p] EXCEPT !.step = @ + 1]

\* A column that exists already makes ALTER TABLE fail, and the run with it.
Apply(p) ==
    /\ At(p, "apply")
    /\ IF Statement(p).once /\ Statement(p).adds \subseteq objects
       THEN Throw(p, "duplicate") /\ UNCHANGED <<stops, torn>>
       ELSE /\ objects' = objects \cup Statement(p).adds
            /\ Continue(p, AfterStatement(p))
            /\ UNCHANGED recorded

\* INSERT ... ON CONFLICT DO UPDATE.
Record(p) ==
    /\ At(p, "record")
    /\ recorded' = recorded \cup {process[p].version}
    /\ Continue(p, [process[p] EXCEPT !.pc = "lookup", !.version = @ + 1])
    /\ UNCHANGED objects

Verify(p) ==
    /\ At(p, "verify")
    /\ IF Ready
       THEN Return(p)
       ELSE Throw(p, "incomplete") /\ UNCHANGED <<stops, torn>>

\* ensureAiSchema: before its first request a server looks whether the schema is ready, and
\* remembers a yes.  An isolate has migrated by then; a Node server may run beside the script.
Serve(p) ==
    /\ mode = "locked" => At(p, "done")
    /\ ~process[p].serving
    /\ Ready
    /\ Continue(p, [process[p] EXCEPT !.serving = TRUE])
    /\ UNCHANGED <<objects, recorded>>

\* An ALTER of the version at hand is applied, the version not recorded.
HalfApplied(p) ==
    LET statements == Migrations[process[p].version]
    IN  /\ process[p].pc \in {"apply", "record"}
        /\ process[p].version \notin recorded
        /\ \E i \in DOMAIN statements :
              statements[i].once /\ (i < process[p].step \/ At(p, "record"))

\* The process dies or a statement fails.
Stop(p) ==
    /\ process[p].pc \notin {"idle", "done", "failed"}
    /\ stops < MaxStops
    /\ stops' = stops + 1
    /\ torn' = (torn \/ (mode = "autocommit" /\ HalfApplied(p)))
    /\ Throw(p, "stopped")

MigratorStep(p) ==
    \/ Start(p) \/ EnsureBase(p) \/ Check(p) \/ CreateMigrationTable(p) \/ Lookup(p)
    \/ Apply(p) \/ Record(p) \/ Verify(p)

MigrationNext == \E p \in Migrators : MigratorStep(p) \/ Serve(p) \/ Stop(p)

MigrationSpec == MigrationInit /\ [][MigrationNext]_migrationVars

\* Whoever migrates goes on, and is started again when it failed.
FairMigrationSpec == MigrationSpec /\ \A p \in Migrators : WF_migrationVars(MigratorStep(p))

-----------------------------------------------------------------------------
(* Properties *)

\* A version is recorded only when everything it creates is there, and every version
\* before it as well: the check before serving goes by the highest record alone.
RecordedIsApplied ==
    \A v \in recorded : AddsOf(v) \subseteq objects /\ 1..v \subseteq recorded

\* Who serves has the whole schema, the column of the users table that the readiness check
\* does not look for included, and for ever: no later rollback takes it away.
ServedSchemaIsComplete ==
    \A p \in Migrators : process[p].serving => Everything \subseteq objects

\* Isolates that start together on a database of an older version do not collide: under the
\* lock no migrator finds a column that another one has just added (worker/pgRuntime.ts).
LockedNeverCollide ==
    mode = "locked" => \A p \in Migrators : process[p].error # "duplicate"

\* The schema gets ready, whoever dies or loses a race on the way, unless a process stopped
\* between an ALTER that was committed on its own and the record of its version.
SchemaGetsReady == <>(Ready \/ torn)

=============================================================================
