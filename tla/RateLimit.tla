----------------------------- MODULE RateLimit -----------------------------
(***************************************************************************)
(* The rate limiter of gateway/middleware/rateLimit.ts.  A request is      *)
(* counted in a row of the database, one per identity, that holds a fixed  *)
(* window and its number of hits.  When the database fails, the limiter    *)
(* falls back to a table in memory, one bucket of hit times per identity   *)
(* and at most MAX_TRACKED_KEYS of them.  The clock is read on arrival:    *)
(* a request may be counted later than others that arrived after it.       *)
(***************************************************************************)
EXTENDS Naturals, Sequences, FiniteSets

CONSTANTS
    Identities,     \* client addresses, account ids
    MaxHits,        \* max of the limiter
    Window,         \* windowMs, in ticks
    Retention,      \* age at which rows are swept (24 hours), in ticks: at least Window
    MaxTracked,     \* MAX_TRACKED_KEYS
    MaxTime         \* bound: the last tick

VARIABLES
    clock,
    rows,       \* [Identities -> autonomia_ip_rate_limit_windows row]; 0 hits: no row
    buckets,    \* [identity -> times of its hits], in memory
    counting    \* requests that read the clock and are not counted yet: <<identity, time>>

limiterVars == <<clock, rows, buckets, counting>>

RateLimitInit ==
    /\ clock = 0
    /\ rows = [i \in Identities |-> [start |-> 0, hits |-> 0]]
    /\ buckets = <<>>
    /\ counting = {}

WindowStart(now) == now - (now % Window)

-----------------------------------------------------------------------------
(* The database *)

\* The upsert: hits of another window count for nothing.
Increment(i, now) ==
    [start |-> WindowStart(now),
     hits  |-> IF rows[i].start = WindowStart(now) THEN rows[i].hits + 1 ELSE 1]

\* The sweep that follows the first hit of a window.
Swept(table, now) ==
    [j \in Identities |-> IF table[j].start + Retention < now THEN [start |-> 0, hits |-> 0]
                          ELSE table[j]]

\* store.increment.  More than MaxHits are answered with 429, which changes nothing.
CountInDatabase(i, now) ==
    LET row   == Increment(i, now)
        table == [rows EXCEPT ![i] = row]
    IN  /\ rows' = IF row.hits = 1 THEN Swept(table, now) ELSE table
        /\ UNCHANGED buckets

-----------------------------------------------------------------------------
(* The fallback *)

Recent(hits, now) == SelectSeq(hits, LAMBDA t : t + Window > now)

\* The buckets that make room for a new identity.
Evictable(now) ==
    {i \in DOMAIN buckets : buckets[i] = <<>> \/ now > buckets[i][1] + Window}

\* The table once identity i has a bucket; the table is full when it has none.
WithBucket(i, now) ==
    LET kept == IF i \notin DOMAIN buckets /\ Cardinality(DOMAIN buckets) >= MaxTracked
                THEN DOMAIN buckets \ Evictable(now) ELSE DOMAIN buckets
        all  == IF i \in kept \/ Cardinality(kept) < MaxTracked THEN kept \cup {i} ELSE kept
    IN  [j \in all |-> IF j \in DOMAIN buckets THEN buckets[j] ELSE <<>>]

\* The query failed.  One step: the code does not await anything here.  No bucket in a
\* full table, or a full bucket, is a 429.
CountInMemory(i, now) ==
    LET table == WithBucket(i, now)
        hits  == Recent(table[i], now)
    IN  /\ buckets' = IF i \notin DOMAIN table THEN table
                      ELSE [table EXCEPT ![i] = IF Len(hits) < MaxHits THEN Append(hits, now) ELSE hits]
        /\ UNCHANGED rows

-----------------------------------------------------------------------------
(* The limiter *)

Arrive(i) ==
    /\ counting' = counting \cup {<<i, clock>>}
    /\ UNCHANGED <<clock, rows, buckets>>

Count(i, now) ==
    /\ <<i, now>> \in counting
    /\ counting' = counting \ {<<i, now>>}
    /\ CountInDatabase(i, now) \/ CountInMemory(i, now)
    /\ UNCHANGED clock

Tick ==
    /\ clock < MaxTime
    /\ clock' = clock + 1
    /\ UNCHANGED <<rows, buckets, counting>>

LimiterNext ==
    \/ \E i \in Identities : Arrive(i) \/ \E now \in 0..MaxTime : Count(i, now)
    \/ Tick

LimiterSpec == RateLimitInit /\ [][LimiterNext]_limiterVars

-----------------------------------------------------------------------------
(* Properties *)

\* What the comment on the fallback says: only expired buckets are evicted and the counts
\* that exist are kept, so a hit in the window is never forgotten.
CountsKept ==
    [][\A i \in DOMAIN buckets :
          \A n \in DOMAIN Recent(buckets[i], clock') :
              /\ i \in DOMAIN buckets'
              /\ \E h \in DOMAIN buckets'[i] : buckets'[i][h] = Recent(buckets[i], clock')[n]
      ]_limiterVars

=============================================================================
