----------------------- MODULE IdempotencyKey_proofs -----------------------
(***************************************************************************)
(* Theorems about IdempotencyKey, for any requests, keys, hashes and clock. *)
(***************************************************************************)
EXTENDS IdempotencyKey, TLAPS

USE TimeAssumption, NoneAssumption

(***************************************************************************)
(* Type correctness.                                                       *)
(***************************************************************************)
THEOREM TypeCorrect == Spec => []TypeOK
<1>1. Init => TypeOK
  BY DEF Init, TypeOK, Time
<1>2. TypeOK /\ [Next]_vars => TypeOK'
  <2> SUFFICES ASSUME TypeOK, [Next]_vars PROVE TypeOK'
    OBVIOUS
  <2>1. ASSUME NEW r \in Reqs, NEW k \in Keys, NEW h \in Hashes,
               Replay(r, k, h) \/ Reject(r, k, h)
        PROVE  TypeOK'
    <3>1. table[k] # None => table[k].by \in Reqs
      BY DEF TypeOK, Rows
    <3> QED
      BY <2>1, <3>1 DEF TypeOK, Replay, Reject, Arrives, Hit, Goto, Time
  <2>2. ASSUME NEW r \in Reqs, NEW k \in Keys, NEW h \in Hashes,
               Miss(r, k, h) \/ LookupFails(r, k, h)
        PROVE  TypeOK'
    BY <2>2 DEF TypeOK, Miss, LookupFails, Arrives, Fault, Goto, Time
  <2>3. ASSUME NEW r \in Reqs, NEW success \in BOOLEAN, Answer(r, success)
        PROVE  TypeOK'
    BY <2>3 DEF TypeOK, Answer, Goto
  <2>4. ASSUME NEW r \in Reqs, HandlerRaises(r) PROVE TypeOK'
    BY <2>4 DEF TypeOK, HandlerRaises, Goto
  <2>5. ASSUME NEW r \in Reqs, Store(r) PROVE TypeOK'
    <3>1. RowOf(r) \in Rows
      BY <2>5 DEF RowOf, Rows, Store, TypeOK, Time
    <3> QED
      BY <2>5, <3>1 DEF TypeOK, Store, Goto, Time
  <2>6. ASSUME NEW r \in Reqs, Purge(r) PROVE TypeOK'
    BY <2>6 DEF TypeOK, Purge, Goto
  <2>7. ASSUME NEW r \in Reqs, StoreFails(r) PROVE TypeOK'
    BY <2>7 DEF TypeOK, StoreFails, Fault, Goto
  <2>8. CASE Crash
    BY <2>8 DEF TypeOK, Crash, Fault
  <2>9. CASE Tick
    BY <2>9 DEF TypeOK, Tick, Time
  <2>10. CASE UNCHANGED vars
    BY <2>10 DEF TypeOK, vars
  <2> QED
    BY <2>1, <2>2, <2>3, <2>4, <2>5, <2>6, <2>7, <2>8, <2>9, <2>10 DEF Next
<1> QED
  BY <1>1, <1>2, PTL DEF Spec

(***************************************************************************)
(* The inductive invariant.  Kept is what RetryIsReplayed needs: it says   *)
(* where the row of a success is, whatever overlapped with it.             *)
(***************************************************************************)
\* The request succeeded and its INSERT was done.
Ran(s) == pc[s] \in {"stored", "done"} /\ answer[s] = s /\ ok[s]

Clocks ==
    \A r \in Reqs :
      /\ start[r] <= now /\ finish[r] <= now
      /\ pc[r] \in {"idle", "running"} => answer[r] = None
      /\ pc[r] \in {"answered", "stored"} => answer[r] = r
      /\ Ran(r) => start[r] <= finish[r]

\* A row is that of a request that succeeded with its key.
RowsTrue ==
    \A k \in Keys : table[k] # None =>
      LET s == table[k].by IN
        /\ Ran(s) /\ key[s] = k /\ hash[s] = table[k].hash
        /\ table[k].expires = start[s] + TTL

\* A replayed answer is that of a request that succeeded.
Replayed ==
    \A r \in Reqs : answer[r] \in Reqs \ {r} => pc[r] = "done" /\ Ran(answer[r])

ReplacedBy(s, q) ==
    /\ q # s /\ Ran(q) /\ key[q] = key[s]
    /\ start[q] <= finish[s] /\ finish[s] <= finish[q] /\ start[q] + TTL <= now

\* Of a success whose day is not over there is a row, its own or a later one,
\* or an overlapping request replaced the row and its day is over.
Kept ==
    \A s \in Reqs : Ran(s) /\ start[s] + TTL > now =>
      \/ table[key[s]] # None /\ finish[s] <= finish[table[key[s]].by]
      \/ \E q \in Reqs : ReplacedBy(s, q)

IInv == TypeOK /\ Clocks /\ RowsTrue /\ Replayed /\ ReplaysOwnAnswer /\ Kept

(***************************************************************************)
(* Most steps leave the rows, and the requests they are of, alone.         *)
(***************************************************************************)
SameRuns ==
    \A s \in Reqs :
      /\ Ran(s)' <=> Ran(s)
      /\ Ran(s) => /\ key'[s] = key[s] /\ hash'[s] = hash[s]
                   /\ start'[s] = start[s] /\ finish'[s] = finish[s]

LEMMA RowsFrame ==
    ASSUME IInv, TypeOK', SameRuns, table' = table, now <= now'
    PROVE  RowsTrue' /\ Kept'
<1>0. /\ now \in Nat /\ now' \in Nat /\ TTL \in Nat
      /\ \A s \in Reqs : start[s] \in Nat /\ finish[s] \in Nat
  BY DEF IInv, TypeOK, Time
<1>1. RowsTrue'
  <2> SUFFICES ASSUME NEW k \in Keys, table[k] # None
               PROVE  /\ Ran(table[k].by)' /\ key'[table[k].by] = k
                      /\ hash'[table[k].by] = table[k].hash
                      /\ table[k].expires = start'[table[k].by] + TTL
    BY DEF RowsTrue
  <2>1. table[k].by \in Reqs
    BY DEF IInv, TypeOK, Rows
  <2> QED
    BY <2>1 DEF IInv, RowsTrue, SameRuns
<1>2. Kept'
  <2> SUFFICES ASSUME NEW s \in Reqs, Ran(s)', start'[s] + TTL > now'
               PROVE  \/ table[key'[s]] # None
                         /\ finish'[s] <= finish'[table[key'[s]].by]
                      \/ \E q \in Reqs : ReplacedBy(s, q)'
    BY DEF Kept
  <2>1. /\ Ran(s) /\ key'[s] = key[s] /\ start'[s] = start[s]
        /\ finish'[s] = finish[s]
    BY DEF SameRuns
  <2>2. start[s] + TTL > now
    BY <1>0, <2>1
  <2>3. CASE table[key[s]] # None /\ finish[s] <= finish[table[key[s]].by]
    <3>1. key[s] \in Keys
      BY <2>1 DEF IInv, TypeOK, Ran
    <3>2. table[key[s]].by \in Reqs
      BY <2>3, <3>1 DEF IInv, TypeOK, Rows
    <3>3. Ran(table[key[s]].by)
      BY <2>3, <3>1 DEF IInv, RowsTrue
    <3> QED
      BY <2>1, <2>3, <3>2, <3>3 DEF SameRuns
  <2>4. ASSUME NEW q \in Reqs, ReplacedBy(s, q) PROVE ReplacedBy(s, q)'
    BY <1>0, <2>1, <2>4 DEF ReplacedBy, SameRuns
  <2> QED
    BY <2>1, <2>2, <2>3, <2>4 DEF IInv, Kept
<1> QED
  BY <1>1, <1>2

\* ... and replay nothing.
NoNewReplay ==
    \A r \in Reqs : answer'[r] \in Reqs \ {r} =>
      /\ pc[r] = "done" /\ pc'[r] = "done" /\ answer'[r] = answer[r]
      /\ key'[r] = key[r] /\ hash'[r] = hash[r] /\ start'[r] = start[r]

LEMMA ReplayFrame ==
    ASSUME IInv, NoNewReplay, 
           \A s \in Reqs : Ran(s) =>
             /\ Ran(s)' /\ key'[s] = key[s] /\ hash'[s] = hash[s]
             /\ start'[s] = start[s]
    PROVE  Replayed' /\ ReplaysOwnAnswer'
<1> SUFFICES ASSUME NEW r \in Reqs, NEW q \in Reqs \ {r}, answer'[r] = q
             PROVE  /\ pc'[r] = "done" /\ Ran(q)'
                    /\ key'[q] = key'[r] /\ hash'[q] = hash'[r] /\ ok'[q]
                    /\ start'[q] <= start'[r] /\ start'[r] < start'[q] + TTL
  BY DEF Replayed, ReplaysOwnAnswer
<1>1. /\ pc'[r] = "done" /\ answer[r] = q /\ key'[r] = key[r]
      /\ hash'[r] = hash[r] /\ start'[r] = start[r]
  BY DEF NoNewReplay
<1>2. Ran(q)
  BY <1>1 DEF IInv, Replayed
<1>3. /\ Ran(q)' /\ key'[q] = key[q] /\ hash'[q] = hash[q] /\ start'[q] = start[q]
  BY <1>2
<1>4. ok'[q]
  BY <1>3 DEF Ran
<1> QED
  BY <1>1, <1>3, <1>4 DEF IInv, ReplaysOwnAnswer

(***************************************************************************)
(* The invariant holds at first and every step preserves it.               *)
(***************************************************************************)
LEMMA InitIInv == Init => IInv
<1> SUFFICES ASSUME Init PROVE IInv
  OBVIOUS
<1>1. \A r \in Reqs : pc[r] = "idle" /\ answer[r] = None /\ ~Ran(r)
  BY DEF Init, Ran
<1>2. TypeOK
  BY DEF Init, TypeOK, Time
<1>3. Clocks
  BY <1>1 DEF Init, Clocks
<1>4. RowsTrue /\ Replayed /\ ReplaysOwnAnswer /\ Kept
  BY <1>1 DEF Init, RowsTrue, Replayed, ReplaysOwnAnswer, Kept
<1> QED
  BY <1>2, <1>3, <1>4 DEF IInv

\* A request that arrives, whatever the lookup finds.
LEMMA ArrivesIInv ==
    ASSUME IInv, TypeOK', NEW r \in Reqs, NEW k \in Keys, NEW h \in Hashes,
           Replay(r, k, h) \/ Reject(r, k, h) \/ Miss(r, k, h) \/ LookupFails(r, k, h)
    PROVE  IInv'
<1>0. /\ now \in Nat /\ TTL \in Nat /\ now' = now
      /\ \A s \in Reqs : start[s] \in Nat /\ finish[s] \in Nat
  BY DEF IInv, TypeOK, Time, Replay, Reject, Miss, LookupFails, Arrives
<1>1. /\ pc[r] = "idle" /\ Arrives(r, k, h)
      /\ \A s \in Reqs \ {r} : /\ pc'[s] = pc[s] /\ answer'[s] = answer[s]
                               /\ key'[s] = key[s] /\ hash'[s] = hash[s]
                               /\ start'[s] = start[s]
      /\ start'[r] = now /\ key'[r] = k /\ hash'[r] = h
      /\ UNCHANGED <<table, finish, ok>>
  BY DEF Replay, Reject, Miss, LookupFails, Arrives, Goto, IInv, TypeOK
<1>2. \/ pc'[r] = "running" /\ answer'[r] = None
      \/ pc'[r] = "done" /\ answer'[r] = "reuse"
      \/ Replay(r, k, h) /\ pc'[r] = "done" /\ answer'[r] = table[k].by
  <2>1. answer[r] = None
    BY <1>1 DEF IInv, Clocks
  <2> QED
    BY <1>1, <2>1 DEF Replay, Reject, Miss, LookupFails, Goto, IInv, TypeOK
<1>3. Replay(r, k, h) =>
        LET q == table[k].by IN
          /\ q \in Reqs \ {r} /\ Ran(q) /\ key[q] = k /\ hash[q] = h
          /\ start[q] <= now /\ now < start[q] + TTL
  <2> SUFFICES ASSUME Replay(r, k, h)
               PROVE  LET q == table[k].by IN
                        /\ q \in Reqs \ {r} /\ Ran(q) /\ key[q] = k /\ hash[q] = h
                        /\ start[q] <= now /\ now < start[q] + TTL
    OBVIOUS
  <2>1. table[k] # None /\ table[k].hash = h /\ table[k].expires > now
    BY DEF Replay, Hit
  <2>2. table[k].by \in Reqs
    BY <2>1 DEF IInv, TypeOK, Rows
  <2>3. Ran(table[k].by) /\ key[table[k].by] = k /\ hash[table[k].by] = h
        /\ table[k].expires = start[table[k].by] + TTL
    BY <2>1 DEF IInv, RowsTrue
  <2>4. table[k].by # r
    BY <1>1, <2>3 DEF Ran
  <2> QED
    BY <1>0, <2>1, <2>2, <2>3, <2>4 DEF IInv, Clocks
<1>4. answer'[r] # r
  BY <1>2, <1>3
<1>5. SameRuns
  BY <1>1, <1>4 DEF SameRuns, Ran
<1>6. RowsTrue' /\ Kept'
  BY <1>0, <1>1, <1>5, RowsFrame
<1>7. Clocks'
  <2> SUFFICES ASSUME NEW s \in Reqs
               PROVE  /\ start'[s] <= now' /\ finish'[s] <= now'
                      /\ pc'[s] \in {"idle", "running"} => answer'[s] = None
                      /\ pc'[s] \in {"answered", "stored"} => answer'[s] = s
                      /\ Ran(s)' => start'[s] <= finish'[s]
    BY DEF Clocks
  <2>1. CASE s = r
    BY <1>0, <1>1, <1>2, <1>4, <2>1 DEF IInv, Clocks, Ran
  <2>2. CASE s # r
    BY <1>0, <1>1, <1>5, <2>2 DEF IInv, Clocks, SameRuns
  <2> QED
    BY <2>1, <2>2
<1>8. Replayed' /\ ReplaysOwnAnswer'
  <2> SUFFICES ASSUME NEW s \in Reqs, NEW q \in Reqs \ {s}, answer'[s] = q
               PROVE  /\ pc'[s] = "done" /\ Ran(q)'
                      /\ key'[q] = key'[s] /\ hash'[q] = hash'[s] /\ ok'[q]
                      /\ start'[q] <= start'[s] /\ start'[s] < start'[q] + TTL
    BY DEF Replayed, ReplaysOwnAnswer
  <2>1. CASE s = r
    <3>1. Replay(r, k, h) /\ pc'[r] = "done" /\ q = table[k].by
      BY <1>2, <2>1
    <3>2. /\ Ran(q) /\ key[q] = k /\ hash[q] = h /\ q # r
          /\ start[q] <= now /\ now < start[q] + TTL
      BY <1>3, <3>1
    <3> QED
      BY <1>1, <1>5, <2>1, <3>1, <3>2 DEF SameRuns, Ran
  <2>2. CASE s # r
    <3>1. /\ answer[s] = q /\ pc[s] = "done" /\ Ran(q)
      BY <1>1, <2>2 DEF IInv, Replayed
    <3>2. /\ key[q] = key[s] /\ hash[q] = hash[s]
          /\ start[q] <= start[s] /\ start[s] < start[q] + TTL
      BY <3>1 DEF IInv, ReplaysOwnAnswer
    <3>3. Ran(q)' /\ ok'[q] /\ q # r
      BY <1>1, <1>5, <3>1 DEF SameRuns, Ran
    <3> QED
      BY <1>1, <2>2, <3>1, <3>2, <3>3
  <2> QED
    BY <2>1, <2>2
<1> QED
  BY <1>6, <1>7, <1>8 DEF IInv

\* The steps between the lookup and the INSERT, and those that are no request's.
LEMMA QuietIInv ==
    ASSUME IInv, TypeOK',
           \/ \E r \in Reqs, success \in BOOLEAN : Answer(r, success)
           \/ \E r \in Reqs : HandlerRaises(r) \/ StoreFails(r)
           \/ Crash \/ Tick \/ UNCHANGED vars
    PROVE  IInv'
<1>0. /\ now \in Nat /\ TTL \in Nat /\ now' \in Nat /\ now <= now'
      /\ \A s \in Reqs : start[s] \in Nat /\ finish[s] \in Nat
  BY DEF IInv, TypeOK, Time, Answer, HandlerRaises, StoreFails, Crash, Tick, vars
<1>1. UNCHANGED <<table, key, hash, start, finish>>
  BY DEF Answer, HandlerRaises, StoreFails, Crash, Tick, vars
<1>2. \A s \in Reqs :
        \/ /\ pc'[s] = pc[s] /\ answer'[s] = answer[s] /\ ok'[s] = ok[s]
        \/ /\ pc[s] = "running" /\ pc'[s] = "answered" /\ answer'[s] = s
        \/ /\ pc[s] \in {"running", "answered"} /\ pc'[s] = "lost"
           /\ answer'[s] = answer[s] /\ ok'[s] = ok[s]
        \/ /\ pc[s] = "stored" /\ pc'[s] = "done"
           /\ answer'[s] = answer[s] /\ ok'[s] = ok[s]
  BY DEF Answer, HandlerRaises, StoreFails, Crash, Tick, vars, Goto, IInv, TypeOK
<1>3. SameRuns
  BY <1>1, <1>2 DEF SameRuns, Ran
<1>4. RowsTrue' /\ Kept'
  BY <1>0, <1>1, <1>3, RowsFrame
<1>5. Clocks'
  BY <1>0, <1>1, <1>2, <1>3 DEF IInv, Clocks, SameRuns
<1>6. NoNewReplay
  BY <1>1, <1>2 DEF NoNewReplay, IInv, Replayed
<1>7. Replayed' /\ ReplaysOwnAnswer'
  BY <1>3, <1>6, ReplayFrame DEF SameRuns
<1> QED
  BY <1>4, <1>5, <1>7 DEF IInv

LEMMA StoreIInv ==
    ASSUME IInv, TypeOK', NEW r \in Reqs, Store(r)
    PROVE  IInv'
<1>0. /\ now \in Nat /\ TTL \in Nat /\ now' = now
      /\ \A s \in Reqs : start[s] \in Nat /\ finish[s] \in Nat
  BY DEF IInv, TypeOK, Time, Store
<1>1. /\ pc[r] = "answered" /\ pc'[r] = "stored" /\ finish'[r] = now
      /\ \A s \in Reqs \ {r} : pc'[s] = pc[s] /\ finish'[s] = finish[s]
      /\ UNCHANGED <<key, hash, start, answer, ok>>
  BY DEF Store, Goto, IInv, TypeOK
<1>2. /\ answer[r] = r /\ ~Ran(r) /\ key[r] \in Keys
      /\ Ran(r)' <=> ok[r]
  BY <1>1 DEF IInv, Clocks, TypeOK, Ran
<1>3. \A s \in Reqs \ {r} : Ran(s)' <=> Ran(s)
  BY <1>1 DEF Ran
<1>4. NoNewReplay
  BY <1>1, <1>2 DEF NoNewReplay, IInv, Replayed
<1>5. Replayed' /\ ReplaysOwnAnswer'
  BY <1>1, <1>2, <1>3, <1>4, ReplayFrame
<1>6. Clocks'
  <2> SUFFICES ASSUME NEW s \in Reqs
               PROVE  /\ start'[s] <= now' /\ finish'[s] <= now'
                      /\ pc'[s] \in {"idle", "running"} => answer'[s] = None
                      /\ pc'[s] \in {"answered", "stored"} => answer'[s] = s
                      /\ Ran(s)' => start'[s] <= finish'[s]
    BY DEF Clocks
  <2>1. CASE s = r
    BY <1>0, <1>1, <1>2, <2>1 DEF IInv, Clocks
  <2>2. CASE s # r
    BY <1>0, <1>1, <1>3, <2>2 DEF IInv, Clocks
  <2> QED
    BY <2>1, <2>2
<1>7. CASE ~ok[r]
  <2>1. SameRuns
    BY <1>1, <1>2, <1>3, <1>7 DEF SameRuns
  <2>2. table' = table
    BY <1>7 DEF Store
  <2>3. RowsTrue' /\ Kept'
    BY <1>0, <2>1, <2>2, RowsFrame
  <2> QED
    BY <1>5, <1>6, <2>3 DEF IInv
<1>8. CASE ok[r]
  <2>1. /\ table' = [table EXCEPT ![key[r]] = RowOf(r)]
        /\ Ran(r)' /\ table \in [Keys -> Rows \cup {None}]
    BY <1>2, <1>8 DEF Store, IInv, TypeOK
  <2>2. table'[key[r]] = RowOf(r) /\ table'[key[r]] # None
    <3>1. RowOf(r) \in Rows
      BY <1>1, <1>2 DEF RowOf, Rows, IInv, TypeOK, Time
    <3>2. RowOf(r).by = r
      BY DEF RowOf
    <3>3. RowOf(r) # None
      BY <3>1, NoneAssumption
    <3> QED
      BY <1>2, <2>1, <3>3
  <2>3. \A k \in Keys \ {key[r]} : table'[k] = table[k]
    BY <2>1
  <2>4. RowsTrue'
    <3> SUFFICES ASSUME NEW k \in Keys, table'[k] # None, NEW s, s = table'[k].by
                 PROVE  /\ Ran(s)' /\ key'[s] = k /\ hash'[s] = table'[k].hash
                        /\ table'[k].expires = start'[s] + TTL
      BY DEF RowsTrue
    <3>1. CASE k = key[r]
      BY <1>1, <2>1, <2>2, <3>1 DEF RowOf
    <3>2. CASE k # key[r]
      <4>1. table'[k] = table[k] /\ s \in Reqs
        BY <2>3, <3>2 DEF IInv, TypeOK, Rows
      <4>2. Ran(s) /\ key[s] = k /\ hash[s] = table[k].hash
            /\ table[k].expires = start[s] + TTL
        BY <4>1 DEF IInv, RowsTrue
      <4> QED
        BY <1>1, <1>2, <1>3, <4>1, <4>2
    <3> QED
      BY <3>1, <3>2
  <2>5. Kept'
    <3> SUFFICES ASSUME NEW s \in Reqs, Ran(s)', start[s] + TTL > now
                 PROVE  \/ table'[key[s]] # None
                           /\ finish'[s] <= finish'[table'[key[s]].by]
                        \/ \E q \in Reqs : ReplacedBy(s, q)'
      BY <1>0, <1>1 DEF Kept
    <3>1. CASE key[s] = key[r]
      <4>1. table'[key[s]].by = r
        BY <2>2, <3>1 DEF RowOf
      <4>2. finish'[s] <= now /\ finish'[r] = now
        BY <1>0, <1>1, <1>6 DEF Clocks
      <4> QED
        BY <2>2, <3>1, <4>1, <4>2
    <3>2. CASE key[s] # key[r]
      <4>1. s # r /\ Ran(s) /\ key[s] \in Keys /\ table'[key[s]] = table[key[s]]
        BY <1>3, <2>3, <3>2 DEF IInv, TypeOK, Ran
      <4>2. CASE table[key[s]] # None /\ finish[s] <= finish[table[key[s]].by]
        <5>1. table[key[s]].by \in Reqs
          BY <4>1, <4>2 DEF IInv, TypeOK, Rows
        <5>2. Ran(table[key[s]].by)
          BY <4>1, <4>2 DEF IInv, RowsTrue
        <5> QED
          BY <1>1, <1>2, <4>1, <4>2, <5>1, <5>2
      <4>3. ASSUME NEW q \in Reqs, ReplacedBy(s, q) PROVE ReplacedBy(s, q)'
        BY <1>0, <1>1, <1>2, <1>3, <4>1, <4>3 DEF ReplacedBy
      <4> QED
        BY <4>1, <4>2, <4>3 DEF IInv, Kept
    <3> QED
      BY <3>1, <3>2
  <2> QED
    BY <1>5, <1>6, <2>4, <2>5 DEF IInv
<1> QED
  BY <1>7, <1>8

LEMMA PurgeIInv ==
    ASSUME IInv, TypeOK', NEW r \in Reqs, Purge(r)
    PROVE  IInv'
<1>0. /\ now \in Nat /\ TTL \in Nat /\ TTL > 0 /\ now' = now
      /\ \A s \in Reqs : start[s] \in Nat /\ finish[s] \in Nat
  BY DEF IInv, TypeOK, Time, Purge
<1>1. /\ \A s \in Reqs : \/ pc'[s] = pc[s]
                         \/ pc[s] = "stored" /\ pc'[s] = "done"
      /\ UNCHANGED <<key, hash, start, finish, answer, ok>>
  BY DEF Purge, Goto, IInv, TypeOK
<1>2. SameRuns
  BY <1>1 DEF SameRuns, Ran
<1>3. NoNewReplay
  BY <1>1 DEF NoNewReplay, IInv, Replayed
<1>4. Replayed' /\ ReplaysOwnAnswer'
  BY <1>2, <1>3, ReplayFrame DEF SameRuns
<1>5. Clocks'
  BY <1>0, <1>1, <1>2 DEF IInv, Clocks, SameRuns
<1>6. \A k \in Keys : \/ table'[k] = table[k]
                      \/ /\ table'[k] = None /\ table[k] # None
                         /\ table[k].expires <= start[r]
  BY DEF Purge, Purged
<1>7. RowsTrue'
  <2> SUFFICES ASSUME NEW k \in Keys, table'[k] # None, NEW s, s = table'[k].by
               PROVE  /\ Ran(s)' /\ key'[s] = k /\ hash'[s] = table'[k].hash
                      /\ table'[k].expires = start'[s] + TTL
    BY DEF RowsTrue
  <2>1. table'[k] = table[k] /\ s \in Reqs
    BY <1>6 DEF IInv, TypeOK, Rows
  <2>2. Ran(s) /\ key[s] = k /\ hash[s] = table[k].hash
        /\ table[k].expires = start[s] + TTL
    BY <2>1 DEF IInv, RowsTrue
  <2> QED
    BY <1>2, <2>1, <2>2 DEF SameRuns
<1>8. Kept'
  <2> SUFFICES ASSUME NEW s \in Reqs, Ran(s)', start[s] + TTL > now
               PROVE  \/ table'[key[s]] # None
                         /\ finish[s] <= finish[table'[key[s]].by]
                      \/ \E q \in Reqs : ReplacedBy(s, q)'
    BY <1>0, <1>1 DEF Kept
  <2>1. Ran(s) /\ key[s] \in Keys
    BY <1>2 DEF SameRuns, IInv, TypeOK, Ran
  <2>2. ASSUME NEW q \in Reqs, ReplacedBy(s, q) PROVE ReplacedBy(s, q)'
    BY <1>0, <1>1, <1>2, <2>2 DEF ReplacedBy, SameRuns
  <2>3. CASE table[key[s]] # None /\ finish[s] <= finish[table[key[s]].by]
    <3>1. CASE table'[key[s]] = table[key[s]]
      BY <2>3, <3>1
    <3>2. CASE table[key[s]].expires <= start[r]
      <4> DEFINE q == table[key[s]].by
      <4>1. q \in Reqs /\ Ran(q) /\ key[q] = key[s]
            /\ table[key[s]].expires = start[q] + TTL
        BY <2>1, <2>3 DEF IInv, TypeOK, Rows, RowsTrue
      <4> HIDE DEF q
      <4>2. start[r] <= now /\ start[s] <= finish[s]
        BY <2>1 DEF IInv, Clocks
      <4>3. start[q] + TTL <= now /\ start[q] <= finish[s] /\ q # s
        BY <1>0, <3>2, <4>1, <4>2
      <4>4. finish[s] <= finish[q]
        BY <2>3 DEF q
      <4>5. ReplacedBy(s, q)
        BY <4>1, <4>3, <4>4 DEF ReplacedBy
      <4> QED
        BY <2>2, <4>1, <4>5
    <3> QED
      BY <1>6, <2>1, <3>1, <3>2
  <2> QED
    BY <2>1, <2>2, <2>3 DEF IInv, Kept
<1> QED
  BY <1>4, <1>5, <1>7, <1>8 DEF IInv

THEOREM IInvHolds == Spec => []IInv
<1>1. IInv /\ TypeOK' /\ [Next]_vars => IInv'
  BY ArrivesIInv, QuietIInv, StoreIInv, PurgeIInv DEF Next
<1> QED
  BY <1>1, InitIInv, TypeCorrect, PTL DEF Spec

(***************************************************************************)
(* D69: an answer that is replayed is that of an equal request which       *)
(* succeeded less than TTL before, whatever overlapped or crashed.         *)
(***************************************************************************)
THEOREM OwnAnswers == Spec => []ReplaysOwnAnswer
<1>1. IInv => ReplaysOwnAnswer
  BY DEF IInv
<1> QED
  BY <1>1, IInvHolds, PTL

(***************************************************************************)
(* No step removes a row that a retry could hit: the purge works with a    *)
(* time that has passed.                                                   *)
(***************************************************************************)
THEOREM NoLiveRowPurged == Spec => LiveRowsStay
<1>1. IInv /\ [Next]_vars => [\A k \in Keys : Hit(k) => table'[k] # None]_vars
  <2> SUFFICES ASSUME IInv, Next, NEW k \in Keys, Hit(k) PROVE table'[k] # None
    BY DEF vars, Hit
  <2>1. table[k] # None /\ table[k].expires > now /\ table[k] \in Rows
    BY DEF Hit, IInv, TypeOK
  <2>2. ASSUME NEW r \in Reqs, Store(r) PROVE table'[k] # None
    <3>1. RowOf(r) \in Rows
      BY <2>2 DEF RowOf, Rows, Store, IInv, TypeOK, Time
    <3>2. table \in [Keys -> Rows \cup {None}]
      BY DEF IInv, TypeOK
    <3> QED
      BY <2>1, <2>2, <3>1, <3>2 DEF Store
  <2>3. ASSUME NEW r \in Reqs, Purge(r) PROVE table'[k] # None
    <3>1. table[k].expires \in Nat /\ now \in Nat /\ start[r] \in Nat
      BY <2>1 DEF Rows, IInv, TypeOK, Time
    <3>2. start[r] <= now
      BY DEF IInv, Clocks
    <3>3. k \notin Purged(r)
      BY <2>1, <3>1, <3>2 DEF Purged
    <3> QED
      BY <2>1, <2>3, <3>3 DEF Purge
  <2>4. CASE table' = table
    BY <2>1, <2>4
  <2> QED
    BY <2>2, <2>3, <2>4
    DEF Next, Replay, Reject, Miss, LookupFails, Arrives, Answer, HandlerRaises,
        StoreFails, Crash, Tick
<1> QED
  BY <1>1, IInvHolds, PTL DEF Spec, LiveRowsStay

(***************************************************************************)
(* D69: a retry runs the handler again only when the day of every earlier  *)
(* success of its key is over, or that of the request which replaced it.   *)
(***************************************************************************)
THEOREM RetriesReplayed == Spec => RetryIsReplayed
<1> DEFINE Excused == \A r \in Reqs, k \in Keys, h \in Hashes : Miss(r, k, h) =>
                        \A s \in Succeeded(k) : start[s] + TTL <= now \/ Replaced(s)
<1>1. IInv => Excused
  <2> SUFFICES ASSUME IInv, NEW r \in Reqs, NEW k \in Keys, NEW h \in Hashes,
                      Miss(r, k, h), NEW s \in Succeeded(k),
                      ~(start[s] + TTL <= now)
               PROVE  Replaced(s)
    OBVIOUS
  <2>0. /\ now \in Nat /\ TTL \in Nat
        /\ \A q \in Reqs : start[q] \in Nat /\ finish[q] \in Nat
    BY DEF IInv, TypeOK, Time
  <2>1. s \in Reqs /\ Ran(s) /\ key[s] = k
    BY DEF Succeeded, Ran
  <2>2. \A q \in Reqs : Ran(q) /\ key[q] = k => q \in Succeeded(key[s])
    BY <2>1 DEF Miss, Arrives, LoopFree, Ran, Succeeded
  <2>3. ASSUME NEW q \in Reqs, ReplacedBy(s, q) PROVE Replaced(s)
    BY <2>1, <2>2, <2>3 DEF ReplacedBy, Replaced
  <2>4. CASE table[k] # None /\ finish[s] <= finish[table[k].by]
    <3> DEFINE q == table[k].by
    <3>1. q \in Reqs /\ Ran(q) /\ key[q] = k /\ table[k].expires = start[q] + TTL
      BY <2>4 DEF IInv, TypeOK, Rows, RowsTrue
    <3>2. ~(table[k].expires > now)
      BY <2>4 DEF Miss, Hit
    <3>3. finish[s] <= finish[q]
      BY <2>4
    <3> HIDE DEF q
    <3>4. start[s] <= finish[s]
      BY <2>1 DEF IInv, Clocks
    <3>5. start[q] + TTL <= now /\ start[q] <= finish[s] /\ q # s
      BY <2>0, <2>1, <3>1, <3>2, <3>4
    <3> QED
      BY <2>1, <2>3, <3>1, <3>3, <3>5 DEF ReplacedBy
  <2> QED
    BY <2>0, <2>1, <2>3, <2>4 DEF IInv, Kept
<1>2. IInv /\ [Next]_vars => [Excused]_vars
  BY <1>1
<1> HIDE DEF Excused
<1>3. Spec => [][Excused]_vars
  BY <1>2, IInvHolds, PTL DEF Spec
<1> QED
  BY <1>3 DEF RetryIsReplayed, Excused
=============================================================================
