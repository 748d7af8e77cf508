----------------------------- MODULE SqliteGate -----------------------------
(***************************************************************************)
(* One SQLite connection shared by all requests of a process: db.node.ts   *)
(* (node:sqlite) and worker/doDb.ts (Durable Object storage).  A           *)
(* transaction spans awaits, so the statements of other requests must be   *)
(* kept out of it: transactions queue on a promise chain, and while one is *)
(* open the queries of other requests wait in a list that is flushed when  *)
(* it ends.                                                                *)
(*                                                                         *)
(* A request queries first (every route authenticates its caller with a    *)
(* plain query, and the maintenance run begins with one), then may run a   *)
(* transaction, and is followed by another request.                        *)
(***************************************************************************)
EXTENDS Naturals, Sequences

CONSTANTS
    Clients,        \* concurrent requests
    NoClient,       \* the connection is outside any transaction
    Adapters,       \* the adapters to look at, of {"node", "durable_object"}
    MaxStatements,  \* bound: statements of one transaction
    MaxBusy         \* bound: BEGINs that fail (another process holds the lock, disk error)

ASSUME SqliteGateAssumption ==
    /\ NoClient \notin Clients
    /\ Adapters \subseteq {"node", "durable_object"}
    /\ MaxStatements \in Nat /\ MaxBusy \in Nat

VARIABLES
    adapter,
    pc,         \* [Clients -> "query" | "queued" | "ready" | "chained" | "inside"]
    gate,       \* txOpen: queries of others are queued
    pending,    \* Seq(Clients): the queries that wait for the gate
    chain,      \* Seq(Clients): txChain, its head has started or is the next to
    holder,     \* the client whose transaction the connection is in
    written,    \* Seq(Clients): the statements of the open transaction, by whom
    busy        \* BEGINs that failed so far

vars == <<adapter, pc, gate, pending, chain, holder, written, busy>>

TypeOK ==
    /\ adapter \in Adapters
    /\ pc \in [Clients -> {"query", "queued", "ready", "chained", "inside"}]
    /\ gate \in BOOLEAN
    /\ pending \in Seq(Clients)
    /\ chain \in Seq(Clients)
    /\ holder \in Clients \cup {NoClient}
    /\ written \in Seq(Clients) /\ Len(written) <= MaxStatements
    /\ busy \in 0..MaxBusy

Init ==
    /\ adapter \in Adapters
    /\ pc = [c \in Clients |-> "query"]
    /\ gate = FALSE /\ pending = <<>> /\ chain = <<>>
    /\ holder = NoClient /\ written = <<>> /\ busy = 0

-----------------------------------------------------------------------------

\* A statement lands on the connection, inside the transaction if one is open.
Execute(s) == written' = IF holder = NoClient THEN written ELSE written \o s

\* dbQuery outside a transaction: at once, or queued behind the open one.
Query(c) ==
    /\ pc[c] = "query"
    /\ IF gate
       THEN /\ pending' = Append(pending, c)
            /\ pc' = [pc EXCEPT ![c] = "queued"]
            /\ UNCHANGED written
       ELSE /\ Execute(<<c>>)
            /\ pc' = [pc EXCEPT ![c] = "ready"]
            /\ UNCHANGED pending
    /\ UNCHANGED <<adapter, gate, chain, holder, busy>>

\* The request needs no transaction; another one arrives in its place.
Leave(c) ==
    /\ pc[c] = "ready"
    /\ pc' = [pc EXCEPT ![c] = "query"]
    /\ UNCHANGED <<adapter, gate, pending, chain, holder, written, busy>>

\* withAutonomiaTransaction: append to the chain.
Enter(c) ==
    /\ pc[c] = "ready"
    /\ chain' = Append(chain, c)
    /\ pc' = [pc EXCEPT ![c] = "chained"]
    /\ UNCHANGED <<adapter, gate, pending, holder, written, busy>>

\* The predecessor in the chain is done: close the gate, BEGIN.
Begin(c) ==
    /\ pc[c] = "chained" /\ chain # <<>> /\ Head(chain) = c
    /\ gate' = TRUE /\ holder' = c /\ written' = <<>>
    /\ pc' = [pc EXCEPT ![c] = "inside"]
    /\ UNCHANGED <<adapter, pending, chain, busy>>

\* flushPending: the queries that waited run, in order of arrival.
Flush == pending' = <<>>

Served(client) ==
    IF \E n \in 1..Len(pending) : pending[n] = client THEN "ready" ELSE pc[client]

\* BEGIN throws.  In doDb.ts it is inside the try whose finally opens the gate; in
\* db.node.ts it comes before the try.
BeginFails(c) ==
    /\ pc[c] = "chained" /\ chain # <<>> /\ Head(chain) = c
    /\ busy < MaxBusy
    /\ busy' = busy + 1
    /\ chain' = Tail(chain)
    /\ IF adapter = "node"
       THEN gate' = TRUE /\ pc' = [pc EXCEPT ![c] = "query"] /\ UNCHANGED pending
       ELSE gate' = FALSE /\ pc' = [x \in Clients |-> IF x = c THEN "query" ELSE Served(x)] /\ Flush
    /\ UNCHANGED <<adapter, holder, written>>

\* A statement of the transaction itself goes straight to the connection.
RunStatement(c) ==
    /\ pc[c] = "inside"
    /\ Len(written) < MaxStatements
    /\ Execute(<<c>>)
    /\ UNCHANGED <<adapter, pc, gate, pending, chain, holder, busy>>

\* Mutant of End: the waiting queries run before the transaction is committed.
EndFlushFirst(c) ==
    /\ pc[c] = "inside"
    /\ IF pending # <<>>
       THEN /\ Execute(pending) /\ Flush
            /\ pc' = [x \in Clients |-> Served(x)]
            /\ UNCHANGED <<gate, holder, chain>>
       ELSE /\ holder' = NoClient /\ written' = <<>> /\ gate' = FALSE /\ chain' = Tail(chain)
            /\ pc' = [pc EXCEPT ![c] = "query"] /\ UNCHANGED pending
    /\ UNCHANGED <<adapter, busy>>

\* Mutant of End: nobody runs the queries that waited.
EndWithoutFlush(c) ==
    /\ pc[c] = "inside"
    /\ holder' = NoClient /\ written' = <<>> /\ gate' = FALSE /\ chain' = Tail(chain)
    /\ pc' = [pc EXCEPT ![c] = "query"]
    /\ UNCHANGED <<adapter, pending, busy>>

\* COMMIT or ROLLBACK, then the finally block: open the gate and flush.
End(c) ==
    /\ pc[c] = "inside"
    /\ holder' = NoClient /\ written' = <<>> /\ gate' = FALSE /\ chain' = Tail(chain)
    /\ pc' = [x \in Clients |-> IF x = c THEN "query" ELSE Served(x)]
    /\ Flush
    /\ UNCHANGED <<adapter, busy>>

Next ==
    \E c \in Clients :
        Query(c) \/ Leave(c) \/ Enter(c) \/ Begin(c) \/ BeginFails(c) \/ RunStatement(c) \/ End(c)

Spec == Init /\ [][Next]_vars

\* The event loop runs what is ready: the head of the chain, and a transaction to its end.
Fairness == \A c \in Clients : WF_vars(Begin(c)) /\ WF_vars(End(c))

FairSpec == Spec /\ Fairness

-----------------------------------------------------------------------------
(* Properties *)

\* A transaction contains no statement of another request, although it spans awaits and
\* shares its connection.
NoForeignStatement ==
    holder # NoClient => \A n \in 1..Len(written) : written[n] = holder

\* A second BEGIN never reaches a connection that is inside a transaction.
OneTransaction == \A c, d \in Clients : pc[c] = "inside" /\ pc[d] = "inside" => c = d

\* A query that waited for a transaction runs, and a transaction gets its turn; on Node
\* this is claimed only as long as no BEGIN has failed.
EveryoneServed ==
    \A c \in Clients :
        pc[c] \in {"queued", "chained"}
        ~> pc[c] \notin {"queued", "chained"} \/ (adapter = "node" /\ busy > 0)

=============================================================================
