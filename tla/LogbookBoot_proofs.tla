------------------------- MODULE LogbookBoot_proofs -------------------------
(***************************************************************************)
(* Theorems about LogbookBoot for any set of processes, builds and jumps,  *)
(* any number of kills, and edits by hand.  The desktop launcher does not  *)
(* keep the lock (README, section 5), so all but TypeCorrect assume that   *)
(* every process runs main.py.                                             *)
(***************************************************************************)
EXTENDS LogbookBoot, TLAPS

LEMMA TypeInit == Init => TypeOK
  BY FaultsAssumption DEF Init, TypeOK, Phases

LEMMA TypeStep == TypeOK /\ [Next]_vars => TypeOK'
<1> SUFFICES ASSUME TypeOK, [Next]_vars PROVE TypeOK'
  OBVIOUS
<1> USE DEF TypeOK
<1>g. ASSUME NEW p \in Procs, NEW ph \in Phases, Goto(p, ph)
      PROVE  pc' \in [Procs -> Phases]
  BY <1>g DEF Goto
<1>e. ASSUME NEW p \in Procs, Exit(p)
      PROVE  pc' \in [Procs -> Phases] /\ holder' \in Procs \cup {None}
  BY <1>e DEF Exit, Goto, Freed, Phases
<1>w. ASSUME NEW p \in Procs, WithoutIndex(p)
      PROVE  pc' \in [Procs -> Phases] /\ holder' \in Procs \cup {None}
  BY <1>w, <1>e, <1>g DEF WithoutIndex, Phases
<1>1. ASSUME NEW p \in Procs, Launch(p) PROVE TypeOK'
  BY <1>1, <1>g DEF Launch, Phases
<1>2. ASSUME NEW p \in Procs, Boot(p) PROVE TypeOK'
  <2>1. CASE Acquire(p)
    BY <2>1, <1>g DEF Acquire, Phases
  <2>2. CASE Refused(p) \/ TooNew(p)
    BY <2>2, <1>e DEF Refused, TooNew
  <2>3. CASE OpenIndex(p) \/ CreateTables(p) \/ AfterOpen(p) \/ Serve(p)
    BY <2>3, <1>g DEF OpenIndex, CreateTables, AfterOpen, Serve, Phases
  <2>4. CASE DropTables(p)
    BY <2>4, <1>g DEF DropTables, Phases
  <2>5. CASE StampVersion(p)
    BY <2>5, <1>g DEF StampVersion, Phases
  <2>6. CASE Reindex(p)
    BY <2>6, <1>g DEF Reindex, Phases
  <2>7. CASE ReindexAborts(p) \/ ReindexFails(p)
    BY <2>7, <1>w, FaultsAssumption DEF ReindexAborts, ReindexFails
  <2> QED
    BY <1>2, <2>1, <2>2, <2>3, <2>4, <2>5, <2>6, <2>7 DEF Boot
<1>3. ASSUME NEW p \in Procs, \/ ServiceOpens(p) \/ ServeReindex(p)
                              \/ \E j \in Jumps : CreateJump(p, j)
      PROVE  TypeOK'
  BY <1>3 DEF ServiceOpens, ServeReindex, CreateJump
<1>4. ASSUME NEW p \in Procs, Quit(p) \/ Die(p) PROVE TypeOK'
  BY <1>4, <1>e, FaultsAssumption DEF Quit, Die
<1>5. ASSUME DeleteIndex \/ \E j \in Jumps : EditByHand(j) PROVE TypeOK'
  BY <1>5 DEF DeleteIndex, EditByHand
<1>6. ASSUME UNCHANGED vars PROVE TypeOK'
  BY <1>6 DEF vars
<1> QED
  BY <1>1, <1>2, <1>3, <1>4, <1>5, <1>6 DEF Next

\* The lock, the index and every process keep their types.
THEOREM TypeCorrect == Spec => []TypeOK
  BY TypeInit, TypeStep, PTL DEF Spec

-----------------------------------------------------------------------------
\* A process past the lock holds it.
Holds == \A p \in Procs : Running(p) => holder = p

LEMMA HoldsStep ==
  ASSUME Desktop = {}, TypeOK, Holds, [Next]_vars
  PROVE  Holds'
<1> USE DEF Holds, Running, TypeOK, Goto
<1>e. ASSUME NEW p \in Procs, Exit(p) PROVE Holds'
  BY <1>e DEF Exit, Freed
<1>1. ASSUME NEW p \in Procs, Launch(p) PROVE Holds'
  BY <1>1 DEF Launch
<1>2. ASSUME NEW p \in Procs, Boot(p) PROVE Holds'
  <2>1. CASE Acquire(p)
    BY <2>1, ProcsAssumption DEF Acquire
  <2>2. CASE Refused(p) \/ TooNew(p)
    BY <2>2, <1>e DEF Refused, TooNew
  <2>3. CASE OpenIndex(p) \/ CreateTables(p) \/ AfterOpen(p) \/ Serve(p)
    BY <2>3 DEF OpenIndex, CreateTables, AfterOpen, Serve
  <2>4. CASE DropTables(p) \/ StampVersion(p) \/ Reindex(p)
    BY <2>4 DEF DropTables, StampVersion, Reindex
  <2>5. CASE ReindexAborts(p) \/ ReindexFails(p)
    BY <2>5, <1>e DEF ReindexAborts, ReindexFails, WithoutIndex
  <2> QED
    BY <1>2, <2>1, <2>2, <2>3, <2>4, <2>5 DEF Boot
<1>3. ASSUME NEW p \in Procs, \/ ServiceOpens(p) \/ ServeReindex(p)
                              \/ \E j \in Jumps : CreateJump(p, j)
      PROVE  Holds'
  BY <1>3 DEF ServiceOpens, ServeReindex, CreateJump
<1>4. ASSUME NEW p \in Procs, Quit(p) \/ Die(p) PROVE Holds'
  BY <1>4, <1>e DEF Quit, Die
<1>5. ASSUME DeleteIndex \/ \E j \in Jumps : EditByHand(j) PROVE Holds'
  BY <1>5 DEF DeleteIndex, EditByHand
<1>6. ASSUME UNCHANGED vars PROVE Holds'
  BY <1>6 DEF vars
<1> QED
  BY <1>1, <1>2, <1>3, <1>4, <1>5, <1>6 DEF Next

LEMMA HoldsInvariant ==
  ASSUME Desktop = {}
  PROVE  Spec => [](TypeOK /\ Holds)
<1>1. Init => TypeOK /\ Holds
  BY TypeInit DEF Init, Holds, Running
<1>2. TypeOK /\ Holds /\ [Next]_vars => (TypeOK /\ Holds)'
  BY TypeStep, HoldsStep
<1> QED
  BY <1>1, <1>2, PTL DEF Spec

\* D9: with main.py alone, no two processes work on the logbook at once.
THEOREM OneInstanceAtATime ==
  ASSUME Desktop = {}
  PROVE  Spec => []OneInstance
<1>1. Holds => OneInstance
  BY DEF Holds, OneInstance
<1> QED
  BY <1>1, HoldsInvariant, PTL

-----------------------------------------------------------------------------
\* What a process knows of the index from its own steps, as long as it alone
\* runs: the version it read or stamped, and the rows it put back.
Knows ==
    \A p \in Procs :
        /\ pc[p] \in {"drop", "schema", "stamp"} => version < BuildOf[p]
        /\ pc[p] \in {"opened", "reindex", "reconcile"} => version = BuildOf[p]
        /\ pc[p] = "serving" => version \in {0, BuildOf[p]}
        /\ pc[p] = "reconcile" /\ rebuilt[p] => disk \subseteq rows

LEMMA KnowsStep ==
  ASSUME Desktop = {}, TypeOK, Holds, Knows, [Next]_vars
  PROVE  /\ Knows'
         /\ version' < version => version' = 0
         /\ \A p \in Procs : Serve(p) /\ rebuilt[p] => disk \subseteq rows
<1> DEFINE Good == Knows' /\ (version' < version => version' = 0)
<1>v. version \in Nat /\ ~(version < version) /\ \A p \in Procs : BuildOf[p] \in Nat \ {0}
  BY BuildAssumption DEF TypeOK
<1>h. \A p, q \in Procs : Running(p) /\ Running(q) => p = q
  BY DEF Holds
<1>t. pc \in [Procs -> Phases] /\ rebuilt \in [Procs -> BOOLEAN]
  BY DEF TypeOK
\* A step of p that leaves the index alone.
<1>q. ASSUME NEW p \in Procs, UNCHANGED <<version, rows, disk>>,
             NEW ph \in Phases, Goto(p, ph),
             \A q \in Procs \ {p} : rebuilt'[q] = rebuilt[q],
             ph \in {"drop", "schema", "stamp"} => version < BuildOf[p],
             ph \in {"opened", "reindex", "reconcile"} => version = BuildOf[p],
             ph = "serving" => version \in {0, BuildOf[p]},
             ph = "reconcile" /\ rebuilt'[p] => disk \subseteq rows
      PROVE  Good
  BY <1>q, <1>v, <1>t DEF Goto, Knows
<1>e. ASSUME NEW p \in Procs, Exit(p), UNCHANGED <<version, rows, disk, rebuilt>>
      PROVE  Good
  BY <1>e, <1>q DEF Exit, Phases
<1>1. ASSUME NEW p \in Procs, Launch(p) PROVE Good
  BY <1>1, <1>q, <1>t DEF Launch, Phases
<1>2. ASSUME NEW p \in Procs, Boot(p) PROVE Good
  <2>0. \A q \in Procs \ {p} : Running(p) => ~Running(q)
    BY <1>h
  <2>1. CASE Acquire(p)
    BY <2>1, <1>q DEF Acquire, Phases
  <2>2. CASE Refused(p) \/ TooNew(p)
    BY <2>2, <1>e DEF Refused, TooNew
  <2>3. CASE OpenIndex(p)
    BY <2>3, <1>q, <1>v DEF OpenIndex, Phases
  <2>4. CASE DropTables(p)
    <3>1. \A q \in Procs \ {p} : pc[q] \in {"off", "acquire"}
      BY <2>0, <2>4 DEF DropTables, Running
    <3> QED
      BY <2>4, <3>1, <1>v, <1>t DEF DropTables, Goto, Knows
  <2>5. CASE CreateTables(p)
    BY <2>5, <1>q DEF CreateTables, Phases, Knows
  <2>6. CASE StampVersion(p)
    <3>1. \A q \in Procs \ {p} : pc[q] \in {"off", "acquire"}
      BY <2>0, <2>6 DEF StampVersion, Running
    <3> QED
      BY <2>6, <3>1, <1>v, <1>t DEF StampVersion, Goto, Knows
  <2>7. CASE AfterOpen(p)
    BY <2>7, <1>q, <1>t DEF AfterOpen, Phases, Knows
  <2>8. CASE Reindex(p)
    <3>1. \A q \in Procs \ {p} : pc[q] \in {"off", "acquire"}
      BY <2>0, <2>8 DEF Reindex, Running
    <3> QED
      BY <2>8, <3>1, <1>v, <1>t DEF Reindex, Goto, Knows
  <2>9. CASE ReindexAborts(p) \/ ReindexFails(p)
    BY <2>9, <1>e DEF ReindexAborts, ReindexFails, WithoutIndex
  <2>10. CASE Serve(p)
    BY <2>10, <1>q DEF Serve, Phases, Knows
  <2> QED
    BY <1>2, <2>1, <2>2, <2>3, <2>4, <2>5, <2>6, <2>7, <2>8, <2>9, <2>10 DEF Boot
<1>3. ASSUME NEW p \in Procs, \/ ServiceOpens(p) \/ ServeReindex(p)
                              \/ \E j \in Jumps : CreateJump(p, j)
      PROVE  Good
  <2>1. pc[p] = "serving" /\ Running(p)
    BY <1>3 DEF ServiceOpens, ServeReindex, CreateJump, Running
  <2>2. \A q \in Procs \ {p} : pc[q] \in {"off", "acquire"}
    BY <2>1, <1>h DEF Running
  <2> QED
    BY <1>3, <2>1, <2>2, <1>v, <1>t DEF ServiceOpens, ServeReindex, CreateJump, Knows
<1>4. ASSUME NEW p \in Procs, Quit(p) \/ Die(p) PROVE Good
  BY <1>4, <1>e DEF Quit, Die
<1>5. ASSUME DeleteIndex \/ \E j \in Jumps : EditByHand(j) PROVE Good
  BY <1>5, <1>v DEF DeleteIndex, EditByHand, Knows
<1>6. ASSUME UNCHANGED vars PROVE Good
  BY <1>6, <1>v DEF vars, Knows
<1>7. Good
  BY <1>1, <1>2, <1>3, <1>4, <1>5, <1>6 DEF Next
<1> QED
  BY <1>7 DEF Serve, Knows

LEMMA KnowsInvariant ==
  ASSUME Desktop = {}
  PROVE  Spec => [](TypeOK /\ Holds /\ Knows)
<1>1. Init => Knows
  BY DEF Init, Knows
<1>2. TypeOK /\ Holds /\ Knows /\ [Next]_vars => Knows'
  BY KnowsStep
<1> QED
  BY <1>1, <1>2, HoldsInvariant, PTL DEF Spec

\* D26: the tables under a server are those of its own build.
THEOREM SchemaMatches ==
  ASSUME Desktop = {}
  PROVE  Spec => []ServerSeesItsSchema
<1>1. Knows => ServerSeesItsSchema
  BY DEF Knows, ServerSeesItsSchema
<1> QED
  BY <1>1, KnowsInvariant, PTL

\* D68: an older build never replaces the tables of a newer one.
THEOREM NewerIndexStays ==
  ASSUME Desktop = {}
  PROVE  Spec => NewerIndexKept
<1>1. TypeOK /\ Holds /\ Knows /\ [Next]_vars => [version' < version => version' = 0]_vars
  BY KnowsStep
<1> QED
  BY <1>1, KnowsInvariant, PTL DEF Spec, NewerIndexKept

\* D26: a start that dropped the tables serves only after a full rebuild.
THEOREM RebuiltBeforeServing ==
  ASSUME Desktop = {}
  PROVE  Spec => RebuildIsComplete
<1>1. TypeOK /\ Holds /\ Knows /\ [Next]_vars
        => [\A p \in Procs : Serve(p) /\ rebuilt[p] => disk \subseteq rows]_vars
  BY KnowsStep
<1> QED
  BY <1>1, KnowsInvariant, PTL DEF Spec, RebuildIsComplete

=============================================================================
