--------------------------- MODULE IdempotencyKey ---------------------------
(***************************************************************************)
(* IdempotencyKeyMiddleware of api/middleware.py (D69): a POST with an     *)
(* Idempotency-Key is looked up before the handler runs; a 2xx answer is   *)
(* kept for a day and replayed to whoever repeats the request.             *)
(*                                                                         *)
(* The middleware runs in the event loop: between two awaits nothing else  *)
(* runs, during the handler anything does.                                 *)
(***************************************************************************)
EXTENDS Naturals, FiniteSets

CONSTANTS
    Reqs,      \* the POSTs of a behaviour
    Keys,      \* Idempotency-Key values
    Hashes,    \* request hashes: method, path, length, start of the body
    TTL,       \* life of a row, 24 hours
    MaxNow,    \* bound: the clock
    MaxFaults, \* bound: crashes and indexes that do not open
    None

ASSUME TimeAssumption == TTL \in Nat \ {0} /\ MaxNow \in Nat /\ MaxFaults \in Nat

Time == 0..MaxNow

\* A row keeps the answer of the request `by'.
Rows == [hash : Hashes, by : Reqs, expires : TTL..(MaxNow + TTL)]

ASSUME NoneAssumption == None \notin Rows \cup Reqs /\ "reuse" \notin Reqs

VARIABLES
    now,      \* the clock
    table,    \* idempotency_keys: key -> row or None
    pc,       \* request -> where it is
    key, hash,\* request -> what it carries
    start,    \* request -> now_dt, read once, just before the lookup
    finish,   \* request -> when its answer was stored
    answer,   \* request -> the request whose answer was sent, "reuse" or None
    ok,       \* request -> whether its own answer is a 2xx
    faults

vars == <<now, table, pc, key, hash, start, finish, answer, ok, faults>>

TypeOK ==
    /\ now \in Time
    /\ table \in [Keys -> Rows \cup {None}]
    /\ pc \in [Reqs -> {"idle", "running", "answered", "stored", "done", "lost"}]
    /\ key \in [Reqs -> Keys \cup {None}]
    /\ hash \in [Reqs -> Hashes \cup {None}]
    /\ start \in [Reqs -> Time]
    /\ finish \in [Reqs -> Time]
    /\ answer \in [Reqs -> Reqs \cup {"reuse", None}]
    /\ ok \in [Reqs -> BOOLEAN]
    /\ faults \in 0..MaxFaults
    /\ \A r \in Reqs : pc[r] # "idle" => key[r] \in Keys /\ hash[r] \in Hashes

Init ==
    /\ now = 0 /\ table = [k \in Keys |-> None] /\ faults = 0
    /\ pc = [r \in Reqs |-> "idle"]
    /\ key = [r \in Reqs |-> None] /\ hash = [r \in Reqs |-> None]
    /\ start = [r \in Reqs |-> 0] /\ finish = [r \in Reqs |-> 0]
    /\ answer = [r \in Reqs |-> None] /\ ok = [r \in Reqs |-> FALSE]

-----------------------------------------------------------------------------
\* No request is inside _store_and_purge, which does not await.
LoopFree == \A r \in Reqs : pc[r] # "stored"

Goto(r, step) == pc' = [pc EXCEPT ![r] = step]

Fault == faults < MaxFaults /\ faults' = faults + 1

\* _lookup: expires_at > now
Hit(k) == table[k] # None /\ table[k].expires > now

Arrives(r, k, h) ==
    /\ pc[r] = "idle" /\ LoopFree
    /\ key' = [key EXCEPT ![r] = k]
    /\ hash' = [hash EXCEPT ![r] = h]
    /\ start' = [start EXCEPT ![r] = now]
    /\ UNCHANGED <<now, table, finish, ok>>

\* Mutant: the hash is not compared.
MutReplay(r, k, h) ==
    /\ Arrives(r, k, h) /\ Hit(k)
    /\ Goto(r, "done")
    /\ answer' = [answer EXCEPT ![r] = table[k].by]
    /\ UNCHANGED faults

Replay(r, k, h) ==
    /\ Arrives(r, k, h) /\ Hit(k) /\ table[k].hash = h
    /\ Goto(r, "done")
    /\ answer' = [answer EXCEPT ![r] = table[k].by]
    /\ UNCHANGED faults

Reject(r, k, h) ==
    /\ Arrives(r, k, h) /\ Hit(k) /\ table[k].hash # h
    /\ Goto(r, "done")
    /\ answer' = [answer EXCEPT ![r] = "reuse"]
    /\ UNCHANGED faults

Miss(r, k, h) ==
    /\ Arrives(r, k, h) /\ ~Hit(k)
    /\ Goto(r, "running")
    /\ UNCHANGED <<answer, faults>>

\* The index does not open: treated as a miss.
LookupFails(r, k, h) ==
    /\ Arrives(r, k, h) /\ Fault
    /\ Goto(r, "running")
    /\ UNCHANGED answer

\* The handler has run and its answer was sent as it came.
Answer(r, success) ==
    /\ pc[r] = "running" /\ LoopFree
    /\ Goto(r, "answered")
    /\ answer' = [answer EXCEPT ![r] = r]
    /\ ok' = [ok EXCEPT ![r] = success]
    /\ UNCHANGED <<now, table, key, hash, start, finish, faults>>

\* The handler raises through the middleware: nothing is stored or purged.
HandlerRaises(r) ==
    /\ pc[r] = "running" /\ LoopFree
    /\ Goto(r, "lost")
    /\ UNCHANGED <<now, table, key, hash, start, finish, answer, ok, faults>>

RowOf(r) == [hash |-> hash[r], by |-> r, expires |-> start[r] + TTL]

\* Mutant: INSERT OR IGNORE.
MutStore(r) ==
    /\ pc[r] = "answered" /\ LoopFree
    /\ table' = IF ok[r] /\ table[key[r]] = None
                THEN [table EXCEPT ![key[r]] = RowOf(r)] ELSE table
    /\ finish' = [finish EXCEPT ![r] = now]
    /\ Goto(r, "stored")
    /\ UNCHANGED <<now, key, hash, start, answer, ok, faults>>

\* INSERT OR REPLACE, for a 2xx only.  The connection is in autocommit.
Store(r) ==
    /\ pc[r] = "answered" /\ LoopFree
    /\ table' = IF ok[r] THEN [table EXCEPT ![key[r]] = RowOf(r)] ELSE table
    /\ finish' = [finish EXCEPT ![r] = now]
    /\ Goto(r, "stored")
    /\ UNCHANGED <<now, key, hash, start, answer, ok, faults>>

\* Mutant: the comparison turned round.
MutPurged(r) ==
    {k \in Keys : table[k] # None /\ table[k].expires >= start[r]}

Purged(r) == {k \in Keys : table[k] # None /\ table[k].expires <= start[r]}

\* DELETE with the time the request started.
Purge(r) ==
    /\ pc[r] = "stored"
    /\ table' = [k \in Keys |-> IF k \in Purged(r) THEN None ELSE table[k]]
    /\ Goto(r, "done")
    /\ UNCHANGED <<now, key, hash, start, finish, answer, ok, faults>>

\* The index does not open: the answer is not stored.
StoreFails(r) ==
    /\ pc[r] = "answered" /\ LoopFree /\ Fault
    /\ Goto(r, "lost")
    /\ UNCHANGED <<now, table, key, hash, start, finish, answer, ok>>

\* Nothing in memory survives; the requests that stored keep their row.
Crash ==
    /\ Fault
    /\ pc' = [r \in Reqs |-> CASE pc[r] \in {"running", "answered"} -> "lost"
                               [] pc[r] = "stored" -> "done"
                               [] OTHER -> pc[r]]
    /\ UNCHANGED <<now, table, key, hash, start, finish, answer, ok>>

Tick ==
    /\ now < MaxNow /\ now' = now + 1
    /\ UNCHANGED <<table, pc, key, hash, start, finish, answer, ok, faults>>

Next ==
    \/ \E r \in Reqs, k \in Keys, h \in Hashes :
         \/ Replay(r, k, h)
         \/ Reject(r, k, h)
         \/ Miss(r, k, h)
         \/ LookupFails(r, k, h)
    \/ \E r \in Reqs, success \in BOOLEAN : Answer(r, success)
    \/ \E r \in Reqs : HandlerRaises(r)
    \/ \E r \in Reqs : Store(r)
    \/ \E r \in Reqs : Purge(r)
    \/ \E r \in Reqs : StoreFails(r)
    \/ Crash
    \/ Tick

Spec == Init /\ [][Next]_vars

-----------------------------------------------------------------------------
(* Properties. *)

\* An answer that is sent is the request's own, or that of an equal request
\* (same key, same hash) that succeeded and began less than TTL before.
ReplaysOwnAnswer ==
    \A r \in Reqs : answer[r] \in Reqs \ {r} =>
      LET s == answer[r] IN
        /\ key[s] = key[r] /\ hash[s] = hash[r] /\ ok[s]
        /\ start[s] <= start[r] /\ start[r] < start[s] + TTL

\* The purge works with the time its request started, which may be long ago,
\* and with rows others have written since: it never takes a row that a retry
\* could still hit.
LiveRowsStay == [][\A k \in Keys : Hit(k) => table'[k] # None]_vars

Succeeded(k) == {s \in Reqs : pc[s] = "done" /\ answer[s] = s /\ ok[s] /\ key[s] = k}

\* The row of s was replaced by an overlapping request that started earlier.
Replaced(s) ==
    \E q \in Succeeded(key[s]) \ {s} :
      start[q] <= finish[s] /\ finish[s] <= finish[q] /\ start[q] + TTL <= now

\* D69: a retry runs the handler again only when the day of the success is
\* over, or that of an overlapping request whose answer replaced it.
RetryIsReplayed ==
    [][\A r \in Reqs, k \in Keys, h \in Hashes : Miss(r, k, h) =>
         \A s \in Succeeded(k) : start[s] + TTL <= now \/ Replaced(s)]_vars

=============================================================================
