-------------------------- MODULE RigFleet_proofs ---------------------------
(***************************************************************************)
(* Theorems about RigFleet, for any rigs, any components of any kinds in   *)
(* any order of the registry, any finite set of nicknames and any number   *)
(* of handlers and boot passes stopped half-way.                           *)
(***************************************************************************)
EXTENDS RigFleet, FiniteSetTheorems, SequenceTheorems, TLAPS

\* The component files: nothing, or a record of a status and an assignment.
PartShape(p) == p = None \/ \E s, r : p = [status |-> s, rig |-> r]

CompShape ==
    /\ comp = [c \in Comps |-> comp[c]]
    /\ \A c \in Comps : PartShape(comp[c])

\* A step that attaches a component attaches an active one.
SafeStep(s) ==
    s.do = "assign" /\ s.to # None => s.part \in Comps /\ comp[s.part].status = "active"

Safe(t) ==
    /\ \E D : t \in Seq(D)
    /\ \A j \in 1..Len(t) : SafeStep(t[j])

OpShape == \E h, r, t : op = [h |-> h, rig |-> r, todo |-> t] /\ Safe(t)

ActiveInv == CompShape /\ (op # None => mode = "serving" /\ OpShape)

-----------------------------------------------------------------------------
(* Plans. *)

LEMMA ConcatSafe ==
  ASSUME NEW s, NEW t, Safe(s), Safe(t)
  PROVE  Safe(s \o t)
<1>1. PICK D : s \in Seq(D)
  BY DEF Safe
<1>2. PICK E : t \in Seq(E)
  BY DEF Safe
<1>3. s \in Seq(D \cup E) /\ t \in Seq(D \cup E)
  BY <1>1, <1>2, SeqMonotonic
<1>4. /\ s \o t \in Seq(D \cup E) /\ Len(s \o t) = Len(s) + Len(t)
      /\ \A j \in 1..Len(s) + Len(t) :
           (s \o t)[j] = IF j <= Len(s) THEN s[j] ELSE t[j - Len(s)]
  BY <1>3, ConcatProperties
<1>5. ASSUME NEW j \in 1..Len(s \o t) PROVE SafeStep((s \o t)[j])
  <2>1. Len(s) \in Nat /\ Len(t) \in Nat
    BY <1>3
  <2>2. CASE j <= Len(s)
    BY <1>4, <1>5, <2>1, <2>2 DEF Safe
  <2>3. CASE ~(j <= Len(s))
    <3>1. j - Len(s) \in 1..Len(t) /\ (s \o t)[j] = t[j - Len(s)]
      BY <1>4, <1>5, <2>1, <2>3
    <3> QED
      BY <3>1 DEF Safe
  <2> QED
    BY <2>2, <2>3
<1> QED
  BY <1>4, <1>5 DEF Safe

LEMMA TailSafe ==
  ASSUME NEW t, Safe(t), t # <<>>
  PROVE  Safe(Tail(t)) /\ SafeStep(Head(t))
<1>1. PICK D : t \in Seq(D)
  BY DEF Safe
<1>2. /\ Len(t) \in Nat /\ 1 \in 1..Len(t) /\ Head(t) = t[1]
      /\ Tail(t) \in Seq(D) /\ Len(Tail(t)) = Len(t) - 1
      /\ \A j \in 1..Len(Tail(t)) : Tail(t)[j] = t[j + 1]
  BY <1>1, HeadTailProperties
<1>3. ASSUME NEW j \in 1..Len(Tail(t)) PROVE SafeStep(Tail(t)[j])
  <2>1. j + 1 \in 1..Len(t) /\ Tail(t)[j] = t[j + 1]
    BY <1>2
  <2> QED
    BY <2>1 DEF Safe
<1> QED
  BY <1>2, <1>3 DEF Safe

LEMMA StepSafe ==
  ASSUME NEW s, SafeStep(s)
  PROVE  Safe(<<s>>)
<1> DEFINE t == <<s>>
<1>1. t \in Seq({s}) /\ Len(t) = 1 /\ t[1] = s
  OBVIOUS
<1> HIDE DEF t
<1>2. \A j \in 1..Len(t) : j = 1
  BY <1>1
<1>3. Safe(t)
  BY <1>1, <1>2 DEF Safe
<1> QED
  BY <1>3 DEF t

LEMMA NothingSafe == Safe(<<>>)
<1>1. <<>> \in Seq({}) /\ Len(<<>>) = 0
  OBVIOUS
<1> QED
  BY <1>1 DEF Safe

LEMMA FunctionSafe ==
  ASSUME NEW n \in Nat, NEW t, DOMAIN t = 1..n, t = [j \in 1..n |-> t[j]],
         \A j \in 1..n : SafeStep(t[j])
  PROVE  Safe(t)
<1> DEFINE D == {t[j] : j \in 1..n}
<1>1. t \in [1..n -> D]
  OBVIOUS
<1>2. t \in Seq(D) /\ Len(t) = n
  BY <1>1
<1> QED
  BY <1>2 DEF Safe

LEMMA WriteSafe ==
  ASSUME NEW n, NEW d
  PROVE  SafeStep(WriteXml(n, d)) /\ SafeStep(WriteSums(n)) /\ Safe(WriteRig(n, d))
<1>1. SafeStep(WriteXml(n, d)) /\ SafeStep(WriteSums(n))
  BY DEF SafeStep, WriteXml, WriteSums
<1>2. WriteRig(n, d) = <<WriteXml(n, d)>> \o <<WriteSums(n)>>
  BY DEF WriteRig
<1> QED
  BY <1>1, <1>2, StepSafe, ConcatSafe

LEMMA WritesSafe ==
  ASSUME NEW S, S \subseteq Nicknames, NEW ns \in SetToSeqs(S), NEW docs
  PROVE  Safe(WriteRigs(ns, docs))
<1> DEFINE t == WriteRigs(ns, docs)
<1>1. Cardinality(S) \in Nat
  BY NicknamesAssumption, FS_Subset, FS_CardinalityType
<1>2. ns \in [1..Cardinality(S) -> S]
  BY DEF SetToSeqs
<1>3. Len(ns) = Cardinality(S)
  BY <1>1, <1>2
<1>4. PICK n \in Nat : n = 2 * Len(ns)
  BY <1>1, <1>3
<1>5. DOMAIN t = 1..n /\ t = [j \in 1..n |-> t[j]]
  BY <1>4 DEF WriteRigs
<1>6. ASSUME NEW j \in 1..n PROVE SafeStep(t[j])
  <2>1. \/ t[j] = WriteXml(ns[(j + 1) \div 2], docs[ns[(j + 1) \div 2]])
        \/ t[j] = WriteSums(ns[(j + 1) \div 2])
    BY <1>4, <1>6, Zenon DEF WriteRigs
  <2> QED
    BY <2>1, WriteSafe
<1> HIDE DEF t
<1> QED
  BY <1>5, <1>6, FunctionSafe DEF t

LEMMA RegistryType ==
  /\ Len(Registry) \in Nat
  /\ \A j \in 1..Len(Registry) : Registry[j] \in Kinds
BY RegistryAssumption DEF Kinds

LEMMA AssignsSafe ==
  ASSUME NEW d, NEW r,
         r # None => \A k \in Kinds : d.comp[k] \in Comps /\ comp[d.comp[k]].status = "active"
  PROVE  Safe(AssignAll(d, r))
<1> DEFINE t == AssignAll(d, r)
           n == Len(Registry)
<1>1. n \in Nat /\ DOMAIN t = 1..n /\ t = [j \in 1..n |-> t[j]]
  BY RegistryType DEF AssignAll
<1>2. ASSUME NEW j \in 1..n PROVE SafeStep(t[j])
  <2>1. t[j] = [do |-> "assign", part |-> d.comp[Registry[j]], to |-> r]
    BY <1>2 DEF AssignAll, Assign
  <2>2. Registry[j] \in Kinds
    BY <1>2, RegistryType
  <2> QED
    BY <2>1, <2>2 DEF SafeStep
<1> HIDE DEF t, n
<1> QED
  BY <1>1, <1>2, FunctionSafe DEF t

-----------------------------------------------------------------------------
(* Every request starts a safe plan, and leaves the components as they are. *)

LEMMA RunShape ==
  ASSUME NEW h, NEW r, NEW t, Run(h, r, t), Safe(t), Idle, comp' = comp, mode' = mode,
         ActiveInv
  PROVE  ActiveInv'
<1>1. op' = [h |-> h, rig |-> r, todo |-> t] /\ mode = "serving"
  BY DEF Run, Idle
<1>2. Safe(t)'
  BY DEF Safe, SafeStep
<1> QED
  BY <1>1, <1>2 DEF ActiveInv, OpShape, CompShape

LEMMA CreateRigSafe ==
  ASSUME ActiveInv, NEW r \in RigIds, NEW n, NEW refs \in Refs, CreateRig(r, n, refs)
  PROVE  ActiveInv'
<1>1. PICK d : /\ d.comp = refs
               /\ Run("create", r, <<[do |-> "mkdir", at |-> n]>> \o WriteRig(n, d)
                                      \o AssignAll(d, r))
  BY DEF CreateRig
<1>2. \A k \in Kinds : d.comp[k] \in Comps /\ comp[d.comp[k]].status = "active"
  BY <1>1 DEF CreateRig, Usable, Refs
<1>3. SafeStep([do |-> "mkdir", at |-> n])
  BY DEF SafeStep
<1>4. Safe(<<[do |-> "mkdir", at |-> n]>> \o WriteRig(n, d) \o AssignAll(d, r))
  BY <1>2, <1>3, StepSafe, WriteSafe, AssignsSafe, ConcatSafe
<1> QED
  BY <1>1, <1>4, RunShape DEF CreateRig

LEMMA UpdateRigSafe ==
  ASSUME ActiveInv, NEW r, NEW n, NEW to, UpdateRig(r, n, to)
  PROVE  ActiveInv'
<1> DEFINE move == IF to = n THEN <<>> ELSE <<[do |-> "rename", at |-> n, to |-> to]>>
           d == Rebuilt(rigs[n].xml, rigs[n].xml.comp)
<1>1. SafeStep([do |-> "rename", at |-> n, to |-> to])
  BY DEF SafeStep
<1>2. Safe(move)
  BY <1>1, StepSafe, NothingSafe
<1>3. Run("update", r, WriteRig(n, d) \o move) /\ Idle /\ comp' = comp /\ mode' = mode
  BY DEF UpdateRig
<1> HIDE DEF move, d
<1> QED
  BY <1>2, <1>3, WriteSafe, ConcatSafe, RunShape

LEMMA SetStarSafe ==
  ASSUME ActiveInv, NEW r, NEW n, SetStar(r, n)
  PROVE  ActiveInv'
<1>1. PICK others \in SetToSeqs(Starred \ {n}) : Run("star", r, StarPlan(n, others))
  BY DEF SetStar
<1>2. Starred \ {n} \subseteq Nicknames
  BY DEF Starred, ValidFolders
<1> DEFINE stamp == IF rigs[n].xml.star THEN <<>> ELSE WriteRig(n, WithStar(n, TRUE))
<1>3. Safe(stamp)
  BY NothingSafe, WriteSafe
<1>4. Safe(WriteRigs(others, Unstarred))
  BY <1>2, WritesSafe
<1>5. StarPlan(n, others) = WriteRigs(others, Unstarred) \o stamp
  BY DEF StarPlan
<1> HIDE DEF stamp
<1> QED
  BY <1>1, <1>3, <1>4, <1>5, ConcatSafe, RunShape DEF SetStar

LEMMA ReorderRigsSafe ==
  ASSUME ActiveInv, NEW ns, ReorderRigs(ns)
  PROVE  ActiveInv'
<1> DEFINE placed == [n \in ValidFolders |-> [rigs[n].xml EXCEPT !.order = Position(ns, n)]]
<1>1. PICK ms \in InOrder(Moved(ns), ns) : Run("reorder", None, WriteRigs(ms, placed))
  BY DEF ReorderRigs
<1>2. Moved(ns) \subseteq Nicknames /\ ms \in SetToSeqs(Moved(ns))
  BY DEF Moved, ValidFolders, InOrder
<1> HIDE DEF placed
<1>3. Safe(WriteRigs(ms, placed))
  BY <1>2, WritesSafe
<1> QED
  BY <1>1, <1>3, RunShape DEF ReorderRigs

LEMMA DeleteRigSafe ==
  ASSUME ActiveInv, NEW r, NEW n, DeleteRig(r, n)
  PROVE  ActiveInv'
<1>1. PICK star : Safe(star) /\ Run("delete", r, DeletePlan(n, star))
  BY WriteSafe, NothingSafe DEF DeleteRig
<1>2. SafeStep([do |-> "trash", at |-> n])
  BY DEF SafeStep
<1>3. Safe(AssignAll(rigs[n].xml, None))
  BY AssignsSafe
<1>4. Safe(DeletePlan(n, star))
  BY <1>1, <1>2, <1>3, StepSafe, ConcatSafe DEF DeletePlan
<1> QED
  BY <1>1, <1>4, RunShape DEF DeleteRig

LEMMA SwapMainSafe ==
  ASSUME ActiveInv, NEW r, NEW n, NEW m \in Comps, SwapMain(r, n, m)
  PROVE  ActiveInv'
<1> DEFINE d == rigs[n].xml
           old == d.comp["main"]
<1>1. CASE Run("swap", r, <<>>)
  BY <1>1, NothingSafe, RunShape DEF SwapMain
<1>2. CASE /\ Usable(m, r)
           /\ Run("swap", r, WriteRig(n, Swapped(d, m)) \o <<Assign(old, None), Assign(m, r)>>)
  <2>1. SafeStep(Assign(old, None)) /\ SafeStep(Assign(m, r))
    BY <1>2 DEF SafeStep, Assign, Usable
  <2>2. <<Assign(old, None), Assign(m, r)>> = <<Assign(old, None)>> \o <<Assign(m, r)>>
    OBVIOUS
  <2>3. Safe(WriteRig(n, Swapped(d, m)) \o <<Assign(old, None), Assign(m, r)>>)
    BY <2>1, <2>2, StepSafe, WriteSafe, ConcatSafe
  <2> QED
    BY <1>2, <2>3, RunShape DEF SwapMain
<1> QED
  BY <1>1, <1>2 DEF SwapMain

-----------------------------------------------------------------------------
(* The invariant. *)

\* A step that only gives component c a new file.
LEMMA OnePart ==
  ASSUME ActiveInv, NEW c \in Comps, NEW p, comp' = [comp EXCEPT ![c] = p], PartShape(p)
  PROVE  /\ CompShape'
         /\ \A e \in Comps : comp'[e] = IF e = c THEN p ELSE comp[e]
BY DEF ActiveInv, CompShape, PartShape

LEMMA AssignShape ==
  ASSUME ActiveInv, NEW c \in Comps, comp[c] # None, NEW r, comp' = [comp EXCEPT ![c].rig = r]
  PROVE  /\ CompShape'
         /\ comp'[c] = [status |-> comp[c].status, rig |-> r]
         /\ \A e \in Comps \ {c} : comp'[e] = comp[e]
<1>1. PICK s, q : comp[c] = [status |-> s, rig |-> q]
  BY DEF ActiveInv, CompShape, PartShape
<1> DEFINE p == [comp[c] EXCEPT !.rig = r]
<1>2. p = [status |-> s, rig |-> r]
  BY <1>1
<1>3. PartShape(p)
  BY <1>2 DEF PartShape
<1>4. comp' = [comp EXCEPT ![c] = p]
  OBVIOUS
<1> HIDE DEF p
<1>5. CompShape' /\ \A e \in Comps : comp'[e] = IF e = c THEN p ELSE comp[e]
  BY <1>3, <1>4, OnePart
<1> QED
  BY <1>1, <1>2, <1>5

LEMMA StatusShape ==
  ASSUME ActiveInv, NEW c \in Comps, comp[c] # None, NEW s, comp' = [comp EXCEPT ![c].status = s]
  PROVE  /\ CompShape'
         /\ comp'[c] = [status |-> s, rig |-> comp[c].rig]
         /\ \A e \in Comps \ {c} : comp'[e] = comp[e]
<1>1. PICK t, q : comp[c] = [status |-> t, rig |-> q]
  BY DEF ActiveInv, CompShape, PartShape
<1> DEFINE p == [comp[c] EXCEPT !.status = s]
<1>2. p = [status |-> s, rig |-> q]
  BY <1>1
<1>3. PartShape(p)
  BY <1>2 DEF PartShape
<1>4. comp' = [comp EXCEPT ![c] = p]
  OBVIOUS
<1> HIDE DEF p
<1>5. CompShape' /\ \A e \in Comps : comp'[e] = IF e = c THEN p ELSE comp[e]
  BY <1>3, <1>4, OnePart
<1> QED
  BY <1>1, <1>2, <1>5

\* A handler at work takes its next step.
LEMMA NextStep ==
  ASSUME ActiveInv, NEW do, Doing(do)
  PROVE  /\ mode = "serving" /\ SafeStep(It)
         /\ \E h, r, t : Safe(t) /\ (Proceed => op' = [h |-> h, rig |-> r, todo |-> t])
<1>1. PICK h, r, t : op = [h |-> h, rig |-> r, todo |-> t] /\ Safe(t)
  BY DEF ActiveInv, OpShape, Doing
<1>2. t # <<>> /\ It = Head(t) /\ mode = "serving"
  BY <1>1 DEF Doing, It, ActiveInv
<1>3. Safe(Tail(t)) /\ SafeStep(Head(t))
  BY <1>1, <1>2, TailSafe
<1>4. Proceed => op' = [h |-> h, rig |-> r, todo |-> Tail(t)]
  BY <1>1 DEF Proceed
<1> QED
  BY <1>2, <1>3, <1>4

LEMMA QuietStep ==
  ASSUME ActiveInv, NEW do, Doing(do), Proceed, comp' = comp, mode' = mode
  PROVE  ActiveInv'
<1>1. PICK h, r, t : Safe(t) /\ op' = [h |-> h, rig |-> r, todo |-> t]
  BY NextStep
<1>2. Safe(t)'
  BY <1>1 DEF Safe, SafeStep
<1> QED
  BY <1>1, <1>2, NextStep DEF ActiveInv, OpShape, CompShape

LEMMA AssignStep ==
  ASSUME ActiveInv, AssignComponent
  PROVE  ActiveInv' /\ RetiredOnRig' \subseteq RetiredOnRig
<1>1. PICK h, r, t : Safe(t) /\ op' = [h |-> h, rig |-> r, todo |-> t]
  BY NextStep DEF AssignComponent
<1>2. mode = "serving" /\ mode' = mode /\ SafeStep(It) /\ It.do = "assign"
  BY NextStep DEF AssignComponent, Doing, It
<1>3. CASE comp' = comp
  <2>1. Safe(t)'
    BY <1>1, <1>3 DEF Safe, SafeStep
  <2> QED
    BY <1>1, <1>2, <1>3, <2>1 DEF ActiveInv, OpShape, CompShape, RetiredOnRig, Live
<1>4. CASE It.part \in Comps /\ Live(It.part) /\ comp' = [comp EXCEPT ![It.part].rig = It.to]
  <2> DEFINE c == It.part
             v == It.to
  <2>1. /\ CompShape'
        /\ comp'[c] = [status |-> comp[c].status, rig |-> v]
        /\ \A e \in Comps \ {c} : comp'[e] = comp[e]
    BY <1>4, AssignShape DEF Live
  <2>2. v = None \/ comp[c].status = "active"
    BY <1>2 DEF SafeStep
  <2> HIDE DEF c, v
  <2>3. \A e \in Comps : comp'[e].status = comp[e].status
    BY <2>1
  <2>4. Safe(t)'
    BY <1>1, <2>3 DEF Safe, SafeStep
  <2>5. c \notin RetiredOnRig'
    BY <2>1, <2>2 DEF RetiredOnRig
  <2>6. RetiredOnRig' \subseteq RetiredOnRig
    BY <2>1, <2>5 DEF RetiredOnRig, Live
  <2> QED
    BY <1>1, <1>2, <2>1, <2>4, <2>6 DEF ActiveInv, OpShape
<1>5. CASE It.part \notin Comps /\ comp' = [comp EXCEPT ![It.part].rig = It.to]
  <2>1. comp' = comp
    BY <1>5 DEF ActiveInv, CompShape
  <2> QED
    BY <2>1, <1>3
<1> QED
  BY <1>3, <1>4, <1>5 DEF AssignComponent

LEMMA ActiveInit == Init => ActiveInv
  BY DEF Init, ActiveInv, CompShape, PartShape

LEMMA RequestActive ==
  ASSUME ActiveInv, Request
  PROVE  ActiveInv' /\ RetiredOnRig' \subseteq RetiredOnRig
<1>1. ASSUME NEW r \in RigIds, NEW n \in Nicknames, NEW refs \in Refs, CreateRig(r, n, refs)
      PROVE  ActiveInv' /\ comp' = comp
  BY <1>1, CreateRigSafe DEF CreateRig
<1>2. ASSUME NEW r \in RigIds, NEW n \in Nicknames, NEW to \in Nicknames, UpdateRig(r, n, to)
      PROVE  ActiveInv' /\ comp' = comp
  BY <1>2, UpdateRigSafe DEF UpdateRig
<1>3. ASSUME NEW r \in RigIds, NEW n \in Nicknames, SetStar(r, n)
      PROVE  ActiveInv' /\ comp' = comp
  BY <1>3, SetStarSafe DEF SetStar
<1>4. ASSUME NEW r \in RigIds, NEW n \in Nicknames, DeleteRig(r, n)
      PROVE  ActiveInv' /\ comp' = comp
  BY <1>4, DeleteRigSafe DEF DeleteRig
<1>5. ASSUME NEW r \in RigIds, NEW n \in Nicknames, NEW m \in Comps, SwapMain(r, n, m)
      PROVE  ActiveInv' /\ comp' = comp
  BY <1>5, SwapMainSafe DEF SwapMain
<1>6. ASSUME NEW ns, ReorderRigs(ns)
      PROVE  ActiveInv' /\ comp' = comp
  BY <1>6, ReorderRigsSafe DEF ReorderRigs
<1>7. comp' = comp => RetiredOnRig' = RetiredOnRig
  BY DEF RetiredOnRig, Live
<1>8. ASSUME NEW c \in Comps, NEW s, CreateComponent(c, s)
      PROVE  ActiveInv' /\ RetiredOnRig' \subseteq RetiredOnRig
  <2> DEFINE p == [status |-> s, rig |-> None]
  <2>1. PartShape(p) /\ p.rig = None
    BY DEF PartShape
  <2>2. comp' = [comp EXCEPT ![c] = p] /\ op' = None
    BY <1>8 DEF CreateComponent, Idle
  <2> HIDE DEF p
  <2>3. CompShape' /\ \A e \in Comps : comp'[e] = IF e = c THEN p ELSE comp[e]
    BY <2>1, <2>2, OnePart
  <2> QED
    BY <2>1, <2>2, <2>3 DEF ActiveInv, RetiredOnRig, Live
<1>9. ASSUME NEW c \in Comps, NEW s, UpdateComponent(c, s)
      PROVE  ActiveInv' /\ RetiredOnRig' \subseteq RetiredOnRig
  <2>1. /\ comp[c] # None /\ comp' = [comp EXCEPT ![c].status = s] /\ op' = None
        /\ comp[c].rig # None => s = "active"
    BY <1>9 DEF UpdateComponent, Idle, Live
  <2>2. /\ CompShape' /\ comp'[c] = [status |-> s, rig |-> comp[c].rig]
        /\ \A e \in Comps \ {c} : comp'[e] = comp[e]
    BY <2>1, StatusShape
  <2> QED
    BY <2>1, <2>2 DEF ActiveInv, RetiredOnRig, Live
<1>10. ASSUME NEW c \in Comps, DeleteComponent(c)
       PROVE  ActiveInv' /\ RetiredOnRig' \subseteq RetiredOnRig
  <2>1. comp[c] # None /\ comp' = [comp EXCEPT ![c].status = "trashed"] /\ op' = None
    BY <1>10 DEF DeleteComponent, Idle, Live
  <2>2. /\ CompShape' /\ comp'[c] = [status |-> "trashed", rig |-> comp[c].rig]
        /\ \A e \in Comps \ {c} : comp'[e] = comp[e]
    BY <2>1, StatusShape
  <2> QED
    BY <2>1, <2>2 DEF ActiveInv, RetiredOnRig, Live
<1> QED
  BY <1>1, <1>2, <1>3, <1>4, <1>5, <1>6, <1>7, <1>8, <1>9, <1>10 DEF Request

LEMMA ReconcileActive ==
  ASSUME ActiveInv, NEW c \in Comps, comp[c] # None, op = None, ReconcileComponent(c)
  PROVE  ActiveInv' /\ op' = None
<1>1. CASE comp' = comp
  BY <1>1 DEF ReconcileComponent, ActiveInv, CompShape
<1>2. CASE comp' = [comp EXCEPT ![c].rig = Expected(c)]
  BY <1>2, AssignShape DEF ReconcileComponent, ActiveInv
<1> QED
  BY <1>1, <1>2 DEF ReconcileComponent

\* The boot pass, between two components: what it has visited agrees.
Swept ==
    /\ sweep \subseteq {c \in Comps : Live(c)}
    /\ mode = "reconcile" =>
         /\ op = None
         /\ \A c \in Comps \ sweep : Live(c) => Contested(c) \/ comp[c].rig = Expected(c)
    /\ mode # "reconcile" => sweep = {}

FleetInv == ActiveInv /\ Swept

LEMMA FleetInit == Init => FleetInv
  BY ActiveInit DEF Init, FleetInv, Swept

LEMMA PerformInv ==
  ASSUME FleetInv, Perform
  PROVE  FleetInv' /\ RetiredOnRig' \subseteq RetiredOnRig
<1>1. CASE MakeFolder \/ WriteRigXml \/ WriteRigSums \/ RenameRig \/ TrashRig
  <2>1. PICK do : Doing(do) /\ Proceed /\ comp' = comp /\ mode' = mode /\ sweep' = sweep
    BY <1>1 DEF MakeFolder, WriteRigXml, WriteRigSums, RenameRig, TrashRig
  <2>2. ActiveInv' /\ mode = "serving"
    BY <2>1, QuietStep, NextStep DEF FleetInv
  <2> QED
    BY <2>1, <2>2 DEF FleetInv, Swept, RetiredOnRig, Live
<1>2. CASE AssignComponent
  <2>1. mode = "serving" /\ sweep = {} /\ mode' = mode /\ sweep' = sweep
    BY <1>2, NextStep DEF AssignComponent, FleetInv, Swept
  <2> QED
    BY <1>2, <2>1, AssignStep DEF FleetInv, Swept
<1>3. CASE Finish
  BY <1>3 DEF Finish, FleetInv, ActiveInv, CompShape, Swept, RetiredOnRig, Live
<1> QED
  BY <1>1, <1>2, <1>3 DEF Perform

LEMMA ReconcileInv ==
  ASSUME FleetInv, NEW c \in Comps, ReconcileComponent(c)
  PROVE  FleetInv'
<1>1. /\ mode = "reconcile" /\ mode' = mode /\ c \in sweep /\ sweep' = sweep \ {c}
      /\ op = None /\ op' = op /\ rigs' = rigs /\ Live(c) /\ comp[c] # None
  BY DEF ReconcileComponent, FleetInv, Swept, Live
<1>2. ActiveInv'
  BY <1>1, ReconcileActive DEF FleetInv
<1>3. \A e \in Comps : Expected(e)' = Expected(e) /\ Contested(e)' = Contested(e)
  BY <1>1 DEF Expected, Contested, Claims, ValidFolders, Valid
<1>4. /\ \A e \in Comps \ {c} : comp'[e] = comp[e]
      /\ Contested(c) \/ comp'[c].rig = Expected(c)
  <2>1. CASE Contested(c)
    BY <2>1 DEF ReconcileComponent
  <2>2. CASE ~Contested(c)
    <3> DEFINE r == Expected(c)
    <3>1. comp' = [comp EXCEPT ![c].rig = r]
      BY <2>2 DEF ReconcileComponent
    <3>2. ActiveInv /\ comp[c] # None
      BY <1>1 DEF FleetInv
    <3> HIDE DEF r
    <3>3. /\ comp'[c] = [status |-> comp[c].status, rig |-> r]
          /\ \A e \in Comps \ {c} : comp'[e] = comp[e]
      BY <3>1, <3>2, AssignShape
    <3>4. comp'[c].rig = r
      BY <3>3
    <3> QED
      BY <3>3, <3>4 DEF r
  <2> QED
    BY <2>1, <2>2
<1>5. Swept'
  BY <1>1, <1>3, <1>4 DEF FleetInv, Swept, Live
<1> QED
  BY <1>2, <1>5 DEF FleetInv

LEMMA FleetNext ==
  ASSUME FleetInv, [Next]_vars
  PROVE  FleetInv' /\ (mode = "serving" => RetiredOnRig' \subseteq RetiredOnRig)
<1>1. CASE Request
  <2>1. mode = "serving" /\ mode' = mode /\ sweep' = sweep
    BY <1>1 DEF Request, Idle, CreateRig, UpdateRig, SetStar, DeleteRig, SwapMain,
                ReorderRigs, CreateComponent, UpdateComponent, DeleteComponent
  <2> QED
    BY <1>1, <2>1, RequestActive DEF FleetInv, Swept
<1>2. CASE Perform
  BY <1>2, PerformInv
<1>3. CASE Boot
  <2>1. op = None /\ op' = None /\ comp' = comp
    BY <1>3 DEF Boot, FleetInv, ActiveInv
  <2> QED
    BY <1>3, <2>1 DEF Boot, FleetInv, ActiveInv, CompShape, Swept, Live
<1>4. CASE \E c \in Comps : ReconcileComponent(c)
  BY <1>4, ReconcileInv DEF ReconcileComponent
<1>5. CASE ReconcileDone \/ ReconcileFails \/ HandlerFails \/ Crash \/ Quit
  <2>1. /\ comp' = comp /\ op' = None /\ sweep' = {}
        /\ mode' = "serving" \/ mode' = "stopped"
    <3>1. op # None => mode = "serving"
      BY DEF FleetInv, ActiveInv
    <3>2. mode = "reconcile" => op = None
      BY DEF FleetInv, Swept
    <3>3. mode # "reconcile" => sweep = {}
      BY DEF FleetInv, Swept
    <3>4. CASE ReconcileDone \/ ReconcileFails
      BY <3>2, <3>4 DEF ReconcileDone, ReconcileFails
    <3>5. CASE HandlerFails
      BY <3>1, <3>3, <3>5 DEF HandlerFails
    <3>6. CASE Crash \/ Quit
      BY <3>3, <3>6 DEF Crash, Quit, Idle
    <3> QED
      BY <1>5, <3>4, <3>5, <3>6
  <2>2. ActiveInv'
    BY <2>1 DEF FleetInv, ActiveInv, CompShape
  <2>3. Swept'
    BY <2>1 DEF Swept
  <2> QED
    BY <2>1, <2>2, <2>3 DEF FleetInv, RetiredOnRig, Live
<1>6. CASE UNCHANGED vars
  <2>1. OpShape => OpShape'
    BY <1>6 DEF vars, OpShape, Safe, SafeStep
  <2>2. ActiveInv'
    BY <1>6, <2>1 DEF vars, FleetInv, ActiveInv, CompShape
  <2>3. \A e \in Comps : Expected(e)' = Expected(e) /\ Contested(e)' = Contested(e)
    BY <1>6 DEF vars, Expected, Contested, Claims, ValidFolders, Valid
  <2>4. Swept'
    BY <1>6, <2>3 DEF vars, FleetInv, Swept, Live
  <2>5. RetiredOnRig' = RetiredOnRig
    BY <1>6 DEF vars, RetiredOnRig, Live
  <2> QED
    BY <2>2, <2>4, <2>5 DEF FleetInv
<1> QED
  BY <1>1, <1>2, <1>3, <1>4, <1>5, <1>6 DEF Next, Restart

-----------------------------------------------------------------------------
(* The natural numbers are well ordered, so a finite set of them has a       *)
(* maximum (FiniteSetsExt!Max is a CHOOSE).                                  *)

LEMMA LeastNatural ==
  ASSUME NEW T, T \subseteq Nat, T # {}
  PROVE  \E x \in T : \A y \in T : x <= y
<1>1. PICK x \in T : \A y \in T : ~ (<<y, x>> \in OpToRel(<, Nat))
  BY NatLessThanWellFounded, WFMin
<1>2. ASSUME NEW y \in T PROVE x <= y
  <2>1. <<y, x>> \notin OpToRel(<, Nat) /\ x \in Nat /\ y \in Nat
    BY <1>1
  <2>2. OpToRel(<, Nat) = {ss \in Nat \X Nat : ss[1] < ss[2]}
    BY Zenon DEF OpToRel
  <2>3. x \in Nat /\ y \in Nat /\ ~(y < x)
    BY <2>1, <2>2
  <2> QED
    BY <2>3
<1> QED
  BY <1>1, <1>2

LEMMA MaxNatural ==
  ASSUME NEW S, S \subseteq Nat, S # {}, IsFiniteSet(S)
  PROVE  Max(S) \in S /\ \A y \in S : Max(S) >= y
<1>1. PICK n \in Nat : ExistsSurjection(1..n, S)
  BY FS_NatSurjection
<1>2. PICK f \in [1..n -> S] : \A t \in S : \E i \in 1..n : f[i] = t
  BY <1>1 DEF ExistsSurjection, Surjection
<1> DEFINE Bounds(m) == {b \in Nat : \A i \in 1..m : f[i] <= b}
           T == {m \in 0..n : Bounds(m) = {}}
<1>3. \A i \in 1..n : f[i] \in Nat
  BY <1>2
<1>4. T = {}
  <2> SUFFICES ASSUME T # {} PROVE FALSE
    OBVIOUS
  <2>1. PICK m \in T : \A k \in T : m <= k
    <3>1. T \subseteq Nat
      OBVIOUS
    <3> HIDE DEF T
    <3> QED
      BY <3>1, LeastNatural
  <2>2. m # 0
    <3>1. 0 \in Bounds(0)
      OBVIOUS
    <3> QED
      BY <3>1
  <2>3. m - 1 \in 0..n /\ m - 1 \notin T /\ m \in 1..n
    <3>1. m \in 0..n
      BY <2>1
    <3>2. m - 1 \in 0..n /\ m \in 1..n /\ ~(m <= m - 1)
      BY <2>2, <3>1
    <3> HIDE DEF T
    <3> QED
      BY <2>1, <3>2
  <2>4. PICK b \in Nat : \A i \in 1..(m - 1) : f[i] <= b
    <3>1. Bounds(m - 1) # {}
      BY <2>3
    <3> QED
      BY <3>1
  <2>5. f[m] \in Nat
    BY <1>3, <2>3
  <2>6. \E c \in Nat : b <= c /\ f[m] <= c
    BY <2>4, <2>5
  <2>7. PICK c \in Nat : b <= c /\ f[m] <= c
    BY <2>6
  <2>8. \A i \in 1..m : f[i] <= c
    <3> SUFFICES ASSUME NEW i \in 1..m PROVE f[i] <= c
      OBVIOUS
    <3>1. CASE i = m
      BY <2>7, <3>1
    <3>2. CASE i \in 1..(m - 1)
      <4>1. f[i] \in Nat /\ f[i] <= b
        BY <1>3, <2>3, <2>4, <3>2
      <4> QED
        BY <2>7, <4>1
    <3> QED
      BY <2>3, <3>1, <3>2
  <2>9. c \in Bounds(m)
    BY <2>8
  <2> QED
    BY <2>9
<1>5. \E b \in Nat : \A y \in S : y <= b
  <2>1. n \notin T
    BY <1>4
  <2>2. PICK b \in Nat : \A i \in 1..n : f[i] <= b
    BY <2>1
  <2> QED
    BY <1>2, <2>2
<1> DEFINE U == {b \in Nat : \A y \in S : y <= b}
<1>6. PICK b \in U : \A c \in U : b <= c
  <2>1. U \subseteq Nat /\ U # {}
    BY <1>5
  <2> HIDE DEF U
  <2> QED
    BY <2>1, LeastNatural
<1>7. b \in S
  <2> SUFFICES ASSUME b \notin S PROVE FALSE
    OBVIOUS
  <2>1. PICK y \in S : TRUE
    OBVIOUS
  <2>2. b # 0 /\ \A z \in S : z <= b - 1
    BY <1>6, <2>1
  <2>3. b - 1 \in U
    BY <1>6, <2>2
  <2> QED
    BY <1>6, <2>3
<1>8. \E x \in S : \A y \in S : x >= y
  BY <1>6, <1>7
<1> QED
  BY <1>8 DEF Max

-----------------------------------------------------------------------------
(* Types.  A plan is made of plain steps, which work on folders that are     *)
(* there (P); a create_rig makes the folder first, and a rename or the move  *)
(* of a readable rig (V) to the trash comes last.                            *)

PlainSteps(P) ==
    [do : {"xml"}, at : P, doc : Rigs] \cup [do : {"sums"}, at : P]
      \cup [do : {"assign"}, part : Comps, to : RigIds \cup {None}]

EndSteps(V) ==
    [do : {"rename"}, at : Nicknames, to : Nicknames] \cup [do : {"trash"}, at : V]

Fits(t, P, V) ==
    \/ t \in Seq(PlainSteps(P))
    \/ \E plain \in Seq(PlainSteps(P)), x \in EndSteps(V) : t = Append(plain, x)
    \/ \E n \in Nicknames \ P : \E plain \in Seq(PlainSteps({n})) :
         t = <<[do |-> "mkdir", at |-> n]>> \o plain

Present == {n \in Nicknames : rigs[n] # None}

FleetTyped ==
    /\ TypeOK /\ sweep \subseteq {c \in Comps : Live(c)}
    /\ op # None => mode = "serving" /\ Fits(op.todo, Present, ValidFolders)
    /\ mode # "reconcile" => sweep = {}

LEMMA StepTypes ==
  ASSUME NEW P \in SUBSET Nicknames
  PROVE  PlainSteps(P) \subseteq Steps /\ EndSteps(P) \subseteq Steps
  BY DEF PlainSteps, EndSteps, Steps

LEMMA MkdirStep ==
  ASSUME NEW n \in Nicknames
  PROVE  [do |-> "mkdir", at |-> n] \in Steps
  BY DEF Steps

LEMMA FitsType ==
  ASSUME NEW P \in SUBSET Nicknames, NEW V \in SUBSET Nicknames, NEW t, Fits(t, P, V)
  PROVE  t \in Seq(Steps)
<1>1. CASE t \in Seq(PlainSteps(P))
  BY <1>1, StepTypes, SeqMonotonic
<1>2. ASSUME NEW plain \in Seq(PlainSteps(P)), NEW x \in EndSteps(V), t = Append(plain, x)
      PROVE  t \in Seq(Steps)
  <2>1. plain \in Seq(Steps) /\ x \in Steps
    BY StepTypes, SeqMonotonic
  <2> QED
    BY <1>2, <2>1, AppendProperties
<1>3. ASSUME NEW n \in Nicknames, NEW plain \in Seq(PlainSteps({n})),
             t = <<[do |-> "mkdir", at |-> n]>> \o plain
      PROVE  t \in Seq(Steps)
  <2>1. plain \in Seq(Steps)
    BY StepTypes, SeqMonotonic
  <2>2. <<[do |-> "mkdir", at |-> n]>> \in Seq(Steps)
    BY MkdirStep
  <2> QED
    BY <1>3, <2>1, <2>2, ConcatProperties
<1> QED
  BY <1>1, <1>2, <1>3 DEF Fits

LEMMA FitsMore ==
  ASSUME NEW P, NEW V, NEW W, NEW t, Fits(t, P, V), V \subseteq W
  PROVE  Fits(t, P, W)
<1>1. EndSteps(V) \subseteq EndSteps(W)
  BY DEF EndSteps
<1> QED
  BY <1>1 DEF Fits

LEMMA ConsParts ==
  ASSUME NEW x, NEW S, NEW s \in Seq(S)
  PROVE  Head(<<x>> \o s) = x /\ Tail(<<x>> \o s) = s /\ <<x>> \o s # <<>>
<1>1. s \in Seq(S \cup {x}) /\ <<x>> \in Seq(S \cup {x})
  BY SeqMonotonic
<1> QED
  BY <1>1

\* The step a plan comes to, and what is left after it.
LEMMA FitsHead ==
  ASSUME NEW P, NEW V, NEW t, Fits(t, P, V), t # <<>>
  PROVE  \/ Head(t) \in PlainSteps(P) /\ Fits(Tail(t), P, V)
         \/ Head(t) \in EndSteps(V) /\ Tail(t) = <<>>
         \/ \E n \in Nicknames \ P : /\ Head(t) = [do |-> "mkdir", at |-> n]
                                     /\ Tail(t) \in Seq(PlainSteps({n}))
<1>1. CASE t \in Seq(PlainSteps(P))
  <2>1. Head(t) \in PlainSteps(P) /\ Tail(t) \in Seq(PlainSteps(P))
    BY <1>1, HeadTailProperties
  <2> QED
    BY <2>1 DEF Fits
<1>2. ASSUME NEW plain \in Seq(PlainSteps(P)), NEW x \in EndSteps(V), t = Append(plain, x)
      PROVE  \/ Head(t) \in PlainSteps(P) /\ Fits(Tail(t), P, V)
             \/ Head(t) \in EndSteps(V) /\ Tail(t) = <<>>
  <2>1. /\ Head(t) = IF plain = <<>> THEN x ELSE Head(plain)
        /\ Tail(t) = IF plain = <<>> THEN <<>> ELSE Append(Tail(plain), x)
    BY <1>2, HeadTailAppend
  <2>2. CASE plain = <<>>
    BY <2>1, <2>2
  <2>3. CASE plain # <<>>
    <3>1. Head(plain) \in PlainSteps(P) /\ Tail(plain) \in Seq(PlainSteps(P))
      BY <2>3, HeadTailProperties
    <3> QED
      BY <2>1, <2>3, <3>1 DEF Fits
  <2> QED
    BY <2>2, <2>3
<1>3. ASSUME NEW n \in Nicknames \ P, NEW plain \in Seq(PlainSteps({n})),
             t = <<[do |-> "mkdir", at |-> n]>> \o plain
      PROVE  Head(t) = [do |-> "mkdir", at |-> n] /\ Tail(t) \in Seq(PlainSteps({n}))
  BY <1>3, ConsParts
<1> QED
  BY <1>1, <1>2, <1>3 DEF Fits

\* What a plan is built from.
LEMMA WriteRigPlain ==
  ASSUME NEW P, NEW n \in P, NEW d \in Rigs
  PROVE  /\ WriteRig(n, d) = <<WriteXml(n, d)>> \o <<WriteSums(n)>>
         /\ WriteRig(n, d) \in Seq(PlainSteps(P))
         /\ WriteXml(n, d) \in PlainSteps(P) /\ WriteSums(n) \in PlainSteps(P)
<1>1. WriteXml(n, d) \in PlainSteps(P) /\ WriteSums(n) \in PlainSteps(P)
  BY DEF PlainSteps, WriteXml, WriteSums
<1>2. <<WriteXml(n, d), WriteSums(n)>> \in Seq(PlainSteps(P))
  BY <1>1
<1> QED
  BY <1>1, <1>2 DEF WriteRig

LEMMA AssignsPlain ==
  ASSUME NEW P, NEW d, d.comp \in Refs, NEW r \in RigIds \cup {None}
  PROVE  /\ AssignAll(d, r) \in Seq(PlainSteps(P))
         /\ Range(AssignAll(d, r)) = {Assign(d.comp[k], r) : k \in Kinds}
<1>1. Len(Registry) \in Nat /\ \A j \in 1..Len(Registry) : Registry[j] \in Kinds
  BY RegistryType
<1>2. \A k \in Kinds : Assign(d.comp[k], r) \in PlainSteps(P)
  BY DEF PlainSteps, Assign, Refs
<1>3. AssignAll(d, r) \in [1..Len(Registry) -> PlainSteps(P)]
  BY <1>1, <1>2 DEF AssignAll
<1>4. AssignAll(d, r) \in Seq(PlainSteps(P))
  BY <1>1, <1>3, SeqDef
<1>5. Range(AssignAll(d, r)) = {Assign(d.comp[k], r) : k \in Kinds}
  BY <1>1 DEF AssignAll, Range, Kinds
<1> QED
  BY <1>4, <1>5

LEMMA OrderType ==
  ASSUME NEW S \in SUBSET Nicknames, NEW ns \in SetToSeqs(S)
  PROVE  /\ ns \in Seq(S) /\ Len(ns) = Cardinality(S) /\ Len(ns) \in Nat
         /\ \A n \in S : \E j \in 1..Len(ns) : ns[j] = n
<1>1. IsFiniteSet(S) /\ Cardinality(S) \in Nat
  BY NicknamesAssumption, FS_Subset, FS_CardinalityType
<1>2. /\ ns \in [1..Cardinality(S) -> S]
      /\ \A i, j \in 1..Cardinality(S) : i # j => ns[i] # ns[j]
  BY DEF SetToSeqs
<1>3. ns \in Seq(S) /\ Len(ns) = Cardinality(S)
  BY <1>1, <1>2
<1>4. ns \in Injection(1..Cardinality(S), S)
  BY <1>2 DEF Injection, IsInjective
<1>5. IsFiniteSet(1..Cardinality(S)) /\ Cardinality(1..Cardinality(S)) = Cardinality(S)
  BY <1>1, FS_Interval
<1>6. ns \in Surjection(1..Cardinality(S), S)
  BY <1>1, <1>4, <1>5, FS_Injection
<1> QED
  BY <1>1, <1>3, <1>6 DEF Surjection

LEMMA WritesIn ==
  ASSUME NEW S \in SUBSET Nicknames, NEW ns \in SetToSeqs(S), NEW docs, NEW D,
         \A n \in S : WriteXml(n, docs[n]) \in D /\ WriteSums(n) \in D
  PROVE  WriteRigs(ns, docs) \in Seq(D)
<1> DEFINE m == 2 * Len(ns)
<1>1. ns \in Seq(S) /\ Len(ns) \in Nat
  BY OrderType
<1>2. m \in Nat
  BY <1>1
<1>3. \A j \in 1..m : ns[(j + 1) \div 2] \in S
  <2> SUFFICES ASSUME NEW j \in 1..m PROVE ns[(j + 1) \div 2] \in S
    OBVIOUS
  <2>1. (j + 1) \div 2 \in 1..Len(ns)
    BY <1>1
  <2> QED
    BY <1>1, <2>1, ElementOfSeq
<1>4. WriteRigs(ns, docs) \in [1..m -> D]
  BY <1>3 DEF WriteRigs
<1> HIDE DEF m
<1> QED
  BY <1>2, <1>4, SeqDef

LEMMA RangeHeadTail ==
  ASSUME NEW S, NEW t \in Seq(S), t # <<>>
  PROVE  Range(t) = {Head(t)} \cup Range(Tail(t))
<1>1. /\ Tail(t) \in Seq(S) /\ Len(t) \in Nat \ {0} /\ Len(Tail(t)) = Len(t) - 1
      /\ Head(t) = t[1] /\ \A j \in 1..Len(t) - 1 : Tail(t)[j] = t[j + 1]
  BY HeadTailProperties, LenProperties
<1>2. Range(t) = {t[j] : j \in 1..Len(t)}
  BY RangeEquality
<1>3. Range(Tail(t)) = {Tail(t)[j] : j \in 1..Len(Tail(t))}
  BY <1>1, RangeEquality
<1>4. ASSUME NEW x \in Range(t) PROVE x = Head(t) \/ x \in Range(Tail(t))
  <2>1. PICK j \in 1..Len(t) : x = t[j]
    BY <1>2
  <2>2. CASE j = 1
    BY <1>1, <2>1, <2>2
  <2>3. CASE j # 1
    <3>1. j - 1 \in 1..Len(Tail(t)) /\ Tail(t)[j - 1] = t[(j - 1) + 1] /\ (j - 1) + 1 = j
      BY <1>1, <2>3
    <3> QED
      BY <1>3, <2>1, <3>1
  <2> QED
    BY <2>2, <2>3
<1>5. ASSUME NEW x \in Range(Tail(t)) PROVE x \in Range(t)
  <2>1. PICK j \in 1..Len(Tail(t)) : x = Tail(t)[j]
    BY <1>3
  <2>2. j + 1 \in 1..Len(t) /\ x = t[j + 1]
    BY <1>1, <2>1
  <2> QED
    BY <1>2, <2>2
<1>6. Head(t) \in Range(t)
  <2>1. 1 \in 1..Len(t)
    BY <1>1
  <2> QED
    BY <1>1, <1>2, <2>1
<1> QED
  BY <1>4, <1>5, <1>6

\* What a rig.xml says of the rig and its components.
Names(d) == [id |-> d.id, comp |-> d.comp]

\* What the rigs and the components of a typed fleet are.
LEMMA RigTypes ==
  ASSUME FleetTyped, NEW n \in ValidFolders
  PROVE  /\ n \in Nicknames /\ n \in Present /\ rigs[n] \in Folders /\ rigs[n].xml \in Rigs
         /\ rigs[n].xml.id \in RigIds /\ rigs[n].xml.comp \in Refs
         /\ \A b \in BOOLEAN : WithStar(n, b) \in Rigs
  BY DEF FleetTyped, TypeOK, ValidFolders, Valid, Present, Folders, Rigs, WithStar

LEMMA FoldersPresent ==
  Present \in SUBSET Nicknames /\ ValidFolders \in SUBSET Present
  BY DEF Present, ValidFolders, Valid

LEMMA NextOrderType ==
  ASSUME FleetTyped
  PROVE  NextOrder \in Nat
<1> DEFINE used == {rigs[n].xml.order : n \in ValidFolders} \ {None}
<1>1. used \subseteq Nat
  BY RigTypes DEF Rigs
<1>2. IsFiniteSet(used)
  <2>1. IsFiniteSet(ValidFolders)
    BY NicknamesAssumption, FoldersPresent, FS_Subset
  <2> DEFINE orders == {rigs[n].xml.order : n \in ValidFolders}
             f == [n \in ValidFolders |-> rigs[n].xml.order]
  <2>2. f \in Surjection(ValidFolders, orders)
    BY DEF Surjection
  <2>3. IsFiniteSet(orders)
    <3> HIDE DEF orders, f
    <3> QED
      BY <2>1, <2>2, FS_Surjection
  <2> QED
    BY <2>3, FS_Subset
<1>3. NextOrder = IF used = {} THEN 0 ELSE Max(used) + 1
  BY DEF NextOrder
<1>4. used # {} => Max(used) \in Nat
  <2> HIDE DEF used
  <2> QED
    BY <1>1, <1>2, MaxNatural
<1> HIDE DEF used
<1> QED
  BY <1>3, <1>4

LEMMA PositionType ==
  ASSUME NEW ns \in SetToSeqs(ValidFolders), NEW n \in ValidFolders
  PROVE  Position(ns, n) \in 0..Len(ns) - 1 /\ ns[Position(ns, n) + 1] = n
<1>1. Len(ns) \in Nat
  BY FoldersPresent, OrderType
<1>2. PICK j \in 1..Len(ns) : ns[j] = n
  BY FoldersPresent, OrderType
<1>3. j - 1 \in 0..Len(ns) - 1 /\ (j - 1) + 1 = j
  BY <1>1
<1>4. \E i \in 0..Len(ns) - 1 : ns[i + 1] = n
  BY <1>2, <1>3
<1> QED
  BY <1>4 DEF Position

\* Every request leaves folders and components alone, and starts a plan that
\* fits, or changes one component file.
Started ==
    /\ op = None /\ mode = "serving" /\ op' \in Plans
    /\ Fits(op'.todo, Present, ValidFolders)
    /\ UNCHANGED <<rigs, comp, gone, mode, sweep, faults>>

LEMMA RunTyped ==
  ASSUME FleetTyped, Idle, NEW h \in Handlers, NEW r \in RigIds \cup {None}, NEW t,
         Run(h, r, t), Fits(t, Present, ValidFolders),
         UNCHANGED <<rigs, comp, gone, mode, sweep, faults>>
  PROVE  Started /\ op'.h = h /\ op'.rig = r /\ op'.todo = t
<1>1. t \in Seq(Steps)
  BY FoldersPresent, FitsType
<1>2. op' = [h |-> h, rig |-> r, todo |-> t]
  BY DEF Run
<1> QED
  BY <1>1, <1>2 DEF Started, Idle, Plans

LEMMA CreateRigFits ==
  ASSUME FleetTyped, NEW r \in RigIds, NEW n \in Nicknames, NEW refs \in Refs,
         CreateRig(r, n, refs)
  PROVE  \E d \in Rigs :
           /\ d.id = r /\ d.comp = refs /\ d.star = (ValidFolders = {})
           /\ op'.h = "create" /\ op'.rig = r
           /\ op'.todo = <<[do |-> "mkdir", at |-> n]>>
                           \o (<<WriteXml(n, d)>> \o (<<WriteSums(n)>> \o AssignAll(d, r)))
           /\ <<WriteSums(n)>> \o AssignAll(d, r) \in Seq(PlainSteps({n}))
           /\ <<WriteXml(n, d)>> \o (<<WriteSums(n)>> \o AssignAll(d, r))
                \in Seq(PlainSteps({n}))
           /\ Started
<1> DEFINE d == [id |-> r, comp |-> refs, star |-> ValidFolders = {}, order |-> NextOrder]
           mkdir == <<[do |-> "mkdir", at |-> n]>>
           A == AssignAll(d, r)
           X == <<WriteXml(n, d)>>
           Y == <<WriteSums(n)>>
<1>1. d \in Rigs /\ d.id = r /\ d.comp = refs /\ d.star = (ValidFolders = {})
  BY NextOrderType DEF Rigs
<1>2. Run("create", r, mkdir \o WriteRig(n, d) \o A)
  BY DEF CreateRig
<1>3. /\ WriteRig(n, d) = X \o Y
      /\ WriteXml(n, d) \in PlainSteps({n}) /\ WriteSums(n) \in PlainSteps({n})
  <2> HIDE DEF d
  <2> QED
    BY <1>1, WriteRigPlain
<1>4. A \in Seq(PlainSteps({n}))
  <2> HIDE DEF d
  <2> QED
    BY <1>1, AssignsPlain
<1>5. X \in Seq(PlainSteps({n})) /\ Y \in Seq(PlainSteps({n}))
  <2> HIDE DEF d
  <2> QED
    BY <1>3
<1> HIDE DEF A, X, Y, d
<1>6. Y \o A \in Seq(PlainSteps({n})) /\ X \o (Y \o A) \in Seq(PlainSteps({n}))
  BY <1>4, <1>5, ConcatProperties
<1>7. mkdir \in Seq(Steps)
  BY MkdirStep
<1> HIDE DEF mkdir
<1>8. mkdir \o WriteRig(n, d) \o A = mkdir \o (X \o (Y \o A))
  <2>1. PlainSteps({n}) \subseteq Steps
    BY StepTypes
  <2>2. X \in Seq(Steps) /\ Y \in Seq(Steps) /\ A \in Seq(Steps)
    BY <1>4, <1>5, <2>1, SeqMonotonic
  <2>3. X \o Y \in Seq(Steps)
    BY <2>2, ConcatProperties
  <2>4. (mkdir \o (X \o Y)) \o A = mkdir \o ((X \o Y) \o A)
    BY <1>7, <2>2, <2>3, ConcatAssociative
  <2>5. (X \o Y) \o A = X \o (Y \o A)
    BY <2>2, ConcatAssociative
  <2> QED
    BY <1>3, <2>4, <2>5
<1>9. Fits(mkdir \o (X \o (Y \o A)), Present, ValidFolders)
  BY <1>6 DEF Fits, mkdir, CreateRig, Present
<1> DEFINE plan == mkdir \o (X \o (Y \o A))
<1>10. op'.h = "create" /\ op'.rig = r /\ op'.todo = plan /\ Started
  <2>1. Run("create", r, plan) /\ Fits(plan, Present, ValidFolders) /\ "create" \in Handlers
    BY <1>2, <1>8, <1>9 DEF Handlers
  <2> HIDE DEF plan
  <2> QED
    BY <2>1, RunTyped DEF CreateRig
<1> QED
  BY <1>1, <1>6, <1>10 DEF A, X, Y, mkdir

\* Steps that change neither the id nor the components of a rig.
CalmSteps ==
    {s \in PlainSteps(Present) :
        /\ s.do # "assign"
        /\ s.do = "xml" => s.at \in ValidFolders /\ Names(s.doc) = Names(rigs[s.at].xml)}

LEMMA CalmPlain ==
  ASSUME NEW t \in Seq(CalmSteps)
  PROVE  t \in Seq(PlainSteps(Present)) /\ Range(t) \subseteq CalmSteps
  BY SeqMonotonic, RangeOfSeq DEF CalmSteps

LEMMA WriteCalm ==
  ASSUME FleetTyped, NEW n \in ValidFolders, NEW d \in Rigs, Names(d) = Names(rigs[n].xml)
  PROVE  /\ WriteXml(n, d) \in CalmSteps /\ WriteSums(n) \in CalmSteps
         /\ WriteRig(n, d) \in Seq(CalmSteps)
<1>1. n \in Present
  BY RigTypes
<1>2. WriteXml(n, d) \in PlainSteps(Present) /\ WriteSums(n) \in PlainSteps(Present)
  BY <1>1, WriteRigPlain
<1>3. WriteXml(n, d) \in CalmSteps /\ WriteSums(n) \in CalmSteps
  BY <1>2 DEF CalmSteps, WriteXml, WriteSums
<1> HIDE DEF CalmSteps
<1> QED
  BY <1>3 DEF WriteRig

LEMMA StarNames ==
  ASSUME FleetTyped, NEW n \in ValidFolders, NEW b \in BOOLEAN
  PROVE  /\ WithStar(n, b) \in Rigs /\ Names(WithStar(n, b)) = Names(rigs[n].xml)
         /\ WithStar(n, b).star = b
  BY RigTypes DEF WithStar, Rigs, Names

LEMMA UpdateRigFits ==
  ASSUME FleetTyped, NEW r \in RigIds, NEW n \in Nicknames, NEW to \in Nicknames,
         UpdateRig(r, n, to)
  PROVE  \E d \in Rigs :
           /\ ~d.star /\ n \in ValidFolders /\ WriteRig(n, d) \in Seq(CalmSteps)
           /\ \/ op'.todo = WriteRig(n, d)
              \/ /\ rigs[to] = None
                 /\ op'.todo = Append(WriteRig(n, d), [do |-> "rename", at |-> n, to |-> to])
           /\ op'.h = "update" /\ Started
<1> DEFINE d == Rebuilt(rigs[n].xml, rigs[n].xml.comp)
           plain == WriteRig(n, d)
           move == [do |-> "rename", at |-> n, to |-> to]
<1>1. n \in ValidFolders
  BY DEF UpdateRig, IsAt, ValidFolders
<1>2. d \in Rigs /\ Names(d) = Names(rigs[n].xml) /\ ~d.star
  BY <1>1, RigTypes DEF Rebuilt, Rigs, Names
<1>3. Run("update", r, plain \o (IF to = n THEN <<>> ELSE <<move>>))
  BY DEF UpdateRig
<1> HIDE DEF d
<1>4. plain \in Seq(CalmSteps) /\ plain \in Seq(PlainSteps(Present))
  BY <1>1, <1>2, WriteCalm, CalmPlain
<1>5. move \in EndSteps(ValidFolders) /\ "update" \in Handlers
  BY DEF EndSteps, Handlers
<1> HIDE DEF plain, move
<1>6. CASE to = n
  <2>1. Run("update", r, plain)
    BY <1>3, <1>4, <1>6, ConcatEmptySeq
  <2>2. Started /\ op'.todo = plain /\ op'.h = "update"
    BY <1>4, <1>5, <2>1, RunTyped DEF Fits, UpdateRig
  <2> QED
    BY <1>1, <1>2, <1>4, <2>2 DEF plain
<1>7. CASE to # n
  <2>1. plain \in Seq(Steps) /\ move \in Steps
    BY <1>4, <1>5, StepTypes, FoldersPresent, SeqMonotonic
  <2>2. Run("update", r, Append(plain, move))
    BY <1>3, <1>7, <2>1, AppendIsConcat
  <2>3. Started /\ op'.todo = Append(plain, move) /\ op'.h = "update"
    BY <1>4, <1>5, <2>2, RunTyped DEF Fits, UpdateRig
  <2>4. rigs[to] = None
    BY <1>7 DEF UpdateRig
  <2> QED
    BY <1>1, <1>2, <1>4, <2>3, <2>4 DEF move, plain
<1> QED
  BY <1>6, <1>7

LEMMA SetStarFits ==
  ASSUME FleetTyped, NEW r \in RigIds, NEW n \in Nicknames, SetStar(r, n)
  PROVE  op'.todo \in Seq(CalmSteps) /\ op'.h = "star" /\ Started
<1>1. n \in ValidFolders
  BY DEF SetStar, IsAt, ValidFolders
<1>2. PICK others \in SetToSeqs(Starred \ {n}) : Run("star", r, StarPlan(n, others))
  BY DEF SetStar
<1> DEFINE clear == WriteRigs(others, Unstarred)
           stamp == IF rigs[n].xml.star THEN <<>> ELSE WriteRig(n, WithStar(n, TRUE))
<1>3. Starred \ {n} \in SUBSET Nicknames
  BY DEF Starred, ValidFolders
<1>4. ASSUME NEW m \in Starred
      PROVE  WriteXml(m, Unstarred[m]) \in CalmSteps /\ WriteSums(m) \in CalmSteps
  <2>1. m \in ValidFolders /\ Unstarred[m] = WithStar(m, FALSE)
    BY <1>4 DEF Unstarred, Starred
  <2> QED
    BY <2>1, StarNames, WriteCalm
<1>5. clear \in Seq(CalmSteps)
  BY <1>3, <1>4, WritesIn
<1>6. stamp \in Seq(CalmSteps)
  <2>1. WriteRig(n, WithStar(n, TRUE)) \in Seq(CalmSteps)
    BY <1>1, StarNames, WriteCalm
  <2>2. <<>> \in Seq(CalmSteps)
    OBVIOUS
  <2> QED
    BY <2>1, <2>2
<1>7. Run("star", r, clear \o stamp)
  BY <1>2 DEF StarPlan
<1> HIDE DEF clear, stamp
<1>8. clear \o stamp \in Seq(CalmSteps)
  BY <1>5, <1>6, ConcatProperties
<1>9. Fits(clear \o stamp, Present, ValidFolders) /\ "star" \in Handlers
  BY <1>8, CalmPlain DEF Fits, Handlers
<1> QED
  BY <1>7, <1>8, <1>9, RunTyped DEF SetStar

LEMMA ReorderRigsFits ==
  ASSUME FleetTyped, NEW ns \in SetToSeqs(ValidFolders), ReorderRigs(ns)
  PROVE  op'.todo \in Seq(CalmSteps) /\ op'.h = "reorder" /\ Started
<1> DEFINE placed == [n \in ValidFolders |-> [rigs[n].xml EXCEPT !.order = Position(ns, n)]]
<1>1. PICK ms \in InOrder(Moved(ns), ns) : Run("reorder", None, WriteRigs(ms, placed))
  BY DEF ReorderRigs
<1>2. ms \in SetToSeqs(Moved(ns)) /\ Moved(ns) \subseteq ValidFolders
  BY DEF InOrder, Moved
<1>3. ASSUME NEW n \in ValidFolders
      PROVE  WriteXml(n, placed[n]) \in CalmSteps /\ WriteSums(n) \in CalmSteps
  <2>1. Position(ns, n) \in Nat
    <3>1. Len(ns) \in Nat
      BY FoldersPresent, OrderType
    <3> QED
      BY <3>1, PositionType
  <2>2. placed[n] \in Rigs /\ Names(placed[n]) = Names(rigs[n].xml)
    BY <2>1, RigTypes DEF Rigs, Names
  <2> HIDE DEF placed
  <2> QED
    BY <2>2, WriteCalm
<1> HIDE DEF placed
<1>4. WriteRigs(ms, placed) \in Seq(CalmSteps)
  BY <1>2, <1>3, WritesIn, FoldersPresent
<1>5. Fits(WriteRigs(ms, placed), Present, ValidFolders) /\ "reorder" \in Handlers
  BY <1>4, CalmPlain DEF Fits, Handlers
<1> QED
  BY <1>1, <1>4, <1>5, RunTyped DEF ReorderRigs

LEMMA DeleteRigFits ==
  ASSUME FleetTyped, NEW r \in RigIds, NEW n \in Nicknames, DeleteRig(r, n)
  PROVE  \E star \in Seq(CalmSteps) :
           /\ n \in ValidFolders
           /\ op'.todo = Append(star \o AssignAll(rigs[n].xml, None), [do |-> "trash", at |-> n])
           /\ \/ /\ star = <<>>
                 /\ ~rigs[n].xml.star \/ ValidFolders = {n}
              \/ \E s \in ValidFolders \ {n} :
                   rigs[n].xml.star /\ star = WriteRig(s, WithStar(s, TRUE))
           /\ star \o AssignAll(rigs[n].xml, None) \in Seq(PlainSteps(Present))
           /\ op'.h = "delete" /\ Started
<1>1. n \in ValidFolders
  BY DEF DeleteRig, IsAt, ValidFolders
<1>2. PICK star \in Seq(CalmSteps) :
        /\ Run("delete", r, DeletePlan(n, star))
        /\ \/ /\ star = <<>>
              /\ ~rigs[n].xml.star \/ ValidFolders = {n}
           \/ \E s \in ValidFolders \ {n} :
                rigs[n].xml.star /\ star = WriteRig(s, WithStar(s, TRUE))
  <2>1. CASE rigs[n].xml.star /\ Successors(n) # {}
    <3>1. PICK s \in Successors(n) : Run("delete", r, DeletePlan(n, WriteRig(s, WithStar(s, TRUE))))
      BY <2>1 DEF DeleteRig
    <3>2. s \in ValidFolders \ {n} /\ WriteRig(s, WithStar(s, TRUE)) \in Seq(CalmSteps)
      BY StarNames, WriteCalm DEF Successors
    <3> QED
      BY <2>1, <3>1, <3>2
  <2>2. CASE ~(rigs[n].xml.star /\ Successors(n) # {})
    <3>1. Run("delete", r, DeletePlan(n, <<>>))
      BY <2>2 DEF DeleteRig
    <3>2. ~rigs[n].xml.star \/ ValidFolders = {n}
      BY <1>1, <2>2 DEF Successors
    <3>3. <<>> \in Seq(CalmSteps)
      OBVIOUS
    <3> QED
      BY <3>1, <3>2, <3>3
  <2> QED
    BY <2>1, <2>2
<1> DEFINE free == AssignAll(rigs[n].xml, None)
           trash == [do |-> "trash", at |-> n]
<1>3. star \in Seq(PlainSteps(Present)) /\ free \in Seq(PlainSteps(Present))
  BY <1>1, CalmPlain, RigTypes, AssignsPlain
<1>4. trash \in EndSteps(ValidFolders) /\ "delete" \in Handlers
  BY <1>1 DEF EndSteps, Handlers
<1>5. Run("delete", r, star \o free \o <<trash>>)
  BY <1>2 DEF DeletePlan
<1> HIDE DEF free, trash
<1>6. star \o free \in Seq(PlainSteps(Present))
  BY <1>3, ConcatProperties
<1>7. star \o free \in Seq(Steps) /\ trash \in Steps
  <2>1. PlainSteps(Present) \subseteq Steps /\ EndSteps(ValidFolders) \subseteq Steps
    BY StepTypes, FoldersPresent
  <2> QED
    BY <1>4, <1>6, <2>1, SeqMonotonic
<1>8. star \o free \o <<trash>> = Append(star \o free, trash)
  BY <1>7, AppendIsConcat
<1>9. Fits(Append(star \o free, trash), Present, ValidFolders)
  BY <1>4, <1>6 DEF Fits
<1>10. Started /\ op'.todo = Append(star \o free, trash) /\ op'.h = "delete"
  BY <1>4, <1>5, <1>8, <1>9, RunTyped DEF DeleteRig
<1> QED
  BY <1>1, <1>2, <1>6, <1>10 DEF free, trash

LEMMA SwapMainFits ==
  ASSUME FleetTyped, NEW r \in RigIds, NEW n \in Nicknames, NEW m \in Comps,
         KindOf[m] = "main", SwapMain(r, n, m)
  PROVE  LET old == rigs[n].xml.comp["main"] IN
         /\ n \in ValidFolders /\ rigs[n].xml.id = r /\ old \in Comps
         /\ op'.h = "swap" /\ Started
         /\ \/ op'.todo = <<>>
            \/ /\ m # old /\ Usable(m, r)
               /\ \E d \in Rigs :
                    /\ d.id = r /\ d.comp = [rigs[n].xml.comp EXCEPT !["main"] = m]
                    /\ ~d.star
                    /\ op'.todo = <<WriteXml(n, d)>>
                                   \o <<WriteSums(n), Assign(old, None), Assign(m, r)>>
                    /\ <<WriteSums(n), Assign(old, None), Assign(m, r)>>
                         \in Seq(PlainSteps(Present))
<1> DEFINE old == rigs[n].xml.comp["main"]
           d == Swapped(rigs[n].xml, m)
           rest == <<WriteSums(n), Assign(old, None), Assign(m, r)>>
<1>1. n \in ValidFolders /\ n \in Present /\ rigs[n].xml.id = r /\ rigs[n].xml \in Rigs
      /\ rigs[n].xml.comp \in Refs /\ "main" \in Kinds /\ "swap" \in Handlers
  <2>1. n \in ValidFolders /\ rigs[n].xml.id = r
    BY DEF SwapMain, IsAt, ValidFolders
  <2> QED
    BY <2>1, RigTypes, RegistryAssumption DEF Handlers
<1>2. old \in Comps
  BY <1>1 DEF Refs
<1>3. CASE Run("swap", r, <<>>)
  <2>1. Fits(<<>>, Present, ValidFolders)
    <3>1. <<>> \in Seq(PlainSteps(Present))
      OBVIOUS
    <3> QED
      BY <3>1 DEF Fits
  <2>2. Started /\ op'.todo = <<>> /\ op'.h = "swap"
    BY <1>1, <1>3, <2>1, RunTyped DEF SwapMain
  <2> QED
    BY <1>1, <1>2, <2>2
<1>4. CASE /\ m # old /\ Usable(m, r)
           /\ Run("swap", r, WriteRig(n, d) \o <<Assign(old, None), Assign(m, r)>>)
  <2>1. [rigs[n].xml.comp EXCEPT !["main"] = m] \in Refs
    BY <1>1 DEF Refs
  <2>2. d \in Rigs /\ d.id = r /\ d.comp = [rigs[n].xml.comp EXCEPT !["main"] = m] /\ ~d.star
    BY <1>1, <2>1 DEF Swapped, Rebuilt, Rigs
  <2> HIDE DEF d
  <2>3. /\ WriteRig(n, d) = <<WriteXml(n, d), WriteSums(n)>>
        /\ WriteXml(n, d) \in PlainSteps(Present) /\ WriteSums(n) \in PlainSteps(Present)
    BY <1>1, <2>2, WriteRigPlain DEF WriteRig
  <2>4. Assign(old, None) \in PlainSteps(Present) /\ Assign(m, r) \in PlainSteps(Present)
    BY <1>2 DEF PlainSteps, Assign
  <2>5. rest \in Seq(PlainSteps(Present)) /\ <<WriteXml(n, d)>> \in Seq(PlainSteps(Present))
    BY <2>3, <2>4
  <2>6. WriteRig(n, d) \o <<Assign(old, None), Assign(m, r)>> = <<WriteXml(n, d)>> \o rest
    BY <2>3
  <2> HIDE DEF rest
  <2>7. <<WriteXml(n, d)>> \o rest \in Seq(PlainSteps(Present))
    BY <2>5, ConcatProperties
  <2>8. Fits(<<WriteXml(n, d)>> \o rest, Present, ValidFolders)
    BY <2>7 DEF Fits
  <2>9. Started /\ op'.todo = <<WriteXml(n, d)>> \o rest /\ op'.h = "swap"
    BY <1>1, <1>4, <2>6, <2>8, RunTyped DEF SwapMain
  <2> QED
    BY <1>1, <1>2, <1>4, <2>2, <2>5, <2>9 DEF rest
<1> QED
  BY <1>3, <1>4 DEF SwapMain

\* A plan gone on by one step.
LEMMA PlanProceeds ==
  ASSUME TypeOK, op # None, Proceed
  PROVE  /\ op \in Plans /\ op.todo \in Seq(Steps)
         /\ op.todo # <<>> => op' \in Plans /\ op'.todo = Tail(op.todo)
         /\ op'.h = op.h /\ op'.rig = op.rig
<1>1. op \in Plans /\ op.todo \in Seq(Steps)
  BY DEF TypeOK, Plans
<1>2. op.todo # <<>> => Tail(op.todo) \in Seq(Steps)
  BY <1>1, HeadTailProperties
<1> QED
  BY <1>1, <1>2 DEF Proceed, Plans

\* The step to come, what it works on, and what is left.
LEMMA StepShape ==
  ASSUME FleetTyped, NEW do, Doing(do), Proceed
  PROVE  /\ op # None /\ op \in Plans /\ op' \in Plans /\ op' # None
         /\ op.todo # <<>> /\ op'.todo = Tail(op.todo)
         /\ It = Head(op.todo) /\ It.do = do /\ mode = "serving"
         /\ op.todo \in Seq(Steps) /\ op'.h = op.h /\ op'.rig = op.rig
         /\ Range(op.todo) = {It} \cup Range(op'.todo)
         /\ \/ It \in PlainSteps(Present) /\ Fits(op'.todo, Present, ValidFolders)
            \/ It \in EndSteps(ValidFolders) /\ op'.todo = <<>>
            \/ \E n \in Nicknames \ Present : /\ It = [do |-> "mkdir", at |-> n]
                                              /\ op'.todo \in Seq(PlainSteps({n}))
<1>1. op # None /\ op.todo # <<>> /\ It = Head(op.todo) /\ It.do = do /\ mode = "serving"
  BY DEF Doing, It, FleetTyped
<1>2. /\ op \in Plans /\ op.todo \in Seq(Steps) /\ op' \in Plans /\ op'.todo = Tail(op.todo)
      /\ op'.h = op.h /\ op'.rig = op.rig
  BY <1>1, PlanProceeds DEF FleetTyped
<1>3. Fits(op.todo, Present, ValidFolders)
  BY <1>1 DEF FleetTyped
<1> DEFINE t == op.todo
<1>4. \/ Head(t) \in PlainSteps(Present) /\ Fits(Tail(t), Present, ValidFolders)
      \/ Head(t) \in EndSteps(ValidFolders) /\ Tail(t) = <<>>
      \/ \E n \in Nicknames \ Present : /\ Head(t) = [do |-> "mkdir", at |-> n]
                                        /\ Tail(t) \in Seq(PlainSteps({n}))
  <2>1. Fits(t, Present, ValidFolders) /\ t # <<>>
    BY <1>1, <1>3
  <2> HIDE DEF t
  <2> QED
    BY <2>1, FitsHead
<1>5. Range(op.todo) = {It} \cup Range(op'.todo)
  BY <1>1, <1>2, RangeHeadTail
<1> QED
  BY <1>1, <1>2, <1>4, <1>5, NoneAssumption

LEMMA TypedInit == Init => FleetTyped
  BY FaultsAssumption DEF Init, FleetTyped, TypeOK

LEMMA TypedStarted == FleetTyped /\ Started => FleetTyped'
<1> SUFFICES ASSUME FleetTyped, Started PROVE FleetTyped'
  OBVIOUS
<1>1. Present' = Present /\ ValidFolders' = ValidFolders
  BY DEF Started, Present, ValidFolders, Valid
<1>2. Fits(op'.todo, Present', ValidFolders')
  BY <1>1 DEF Started
<1> QED
  BY <1>2 DEF FleetTyped, TypeOK, Started

\* A handler of rigs starts a plan that fits.
LEMMA RigRequest ==
  ASSUME FleetTyped,
         \/ \E r \in RigIds, n \in Nicknames :
              \/ \E refs \in Refs : CreateRig(r, n, refs)
              \/ \E to \in Nicknames : UpdateRig(r, n, to)
              \/ SetStar(r, n)
              \/ DeleteRig(r, n)
              \/ \E m \in {c \in Comps : KindOf[c] = "main"} : SwapMain(r, n, m)
         \/ \E ns \in SetToSeqs(ValidFolders) : ReorderRigs(ns)
  PROVE  Started
<1>1. ASSUME NEW r \in RigIds, NEW n \in Nicknames, NEW refs \in Refs, CreateRig(r, n, refs)
      PROVE  Started
  BY <1>1, CreateRigFits
<1>2. ASSUME NEW r \in RigIds, NEW n \in Nicknames, NEW to \in Nicknames, UpdateRig(r, n, to)
      PROVE  Started
  BY <1>2, UpdateRigFits
<1>3. ASSUME NEW r \in RigIds, NEW n \in Nicknames, SetStar(r, n) PROVE Started
  BY <1>3, SetStarFits
<1>4. ASSUME NEW r \in RigIds, NEW n \in Nicknames, DeleteRig(r, n) PROVE Started
  BY <1>4, DeleteRigFits
<1>5. ASSUME NEW r \in RigIds, NEW n \in Nicknames, NEW m \in Comps, KindOf[m] = "main",
             SwapMain(r, n, m)
      PROVE  Started
  BY <1>5, SwapMainFits
<1>6. ASSUME NEW ns \in SetToSeqs(ValidFolders), ReorderRigs(ns) PROVE Started
  BY <1>6, ReorderRigsFits
<1> QED
  BY <1>1, <1>2, <1>3, <1>4, <1>5, <1>6

LEMMA TypedRequest == FleetTyped /\ Request => FleetTyped'
<1> SUFFICES ASSUME FleetTyped, Request PROVE FleetTyped'
  OBVIOUS
<1>1. ASSUME NEW c \in Comps, NEW s \in {"active", "retired"}, CreateComponent(c, s)
      PROVE  FleetTyped'
  <2>1. [status |-> s, rig |-> None] \in Parts
    BY DEF Parts
  <2> QED
    BY <1>1, <2>1 DEF CreateComponent, Idle, FleetTyped, TypeOK
<1>2. ASSUME NEW c \in Comps, NEW s \in {"active", "retired"}, UpdateComponent(c, s)
      PROVE  FleetTyped'
  <2>1. comp[c] \in Parts /\ [comp[c] EXCEPT !.status = s] \in Parts
    BY <1>2 DEF UpdateComponent, Live, FleetTyped, TypeOK, Parts
  <2> QED
    BY <1>2, <2>1 DEF UpdateComponent, Idle, FleetTyped, TypeOK
<1>3. ASSUME NEW c \in Comps, DeleteComponent(c) PROVE FleetTyped'
  <2>1. comp[c] \in Parts /\ [comp[c] EXCEPT !.status = "trashed"] \in Parts
    BY <1>3 DEF DeleteComponent, Live, FleetTyped, TypeOK, Parts
  <2> QED
    BY <1>3, <2>1 DEF DeleteComponent, Idle, FleetTyped, TypeOK
<1> QED
  BY <1>1, <1>2, <1>3, RigRequest, TypedStarted DEF Request

\* The folders once a step is done.
LEMMA XmlWritten ==
  ASSUME FleetTyped, WriteRigXml
  PROVE  /\ It.at \in Nicknames /\ It.doc \in Rigs
         /\ rigs' \in [Nicknames -> Folders \cup {None}]
         /\ Present' = Present \cup {It.at} /\ ValidFolders' = ValidFolders \cup {It.at}
         /\ rigs'[It.at].xml = It.doc
         /\ \A n \in Nicknames \ {It.at} : rigs'[n] = rigs[n]
         /\ Fits(op'.todo, Present', ValidFolders')
<1>1. /\ It \in Steps /\ It.do = "xml" /\ op.todo \in Seq(Steps)
      /\ \/ It \in PlainSteps(Present) /\ Fits(op'.todo, Present, ValidFolders)
         \/ It \in EndSteps(ValidFolders) /\ op'.todo = <<>>
         \/ \E n \in Nicknames \ Present : /\ It = [do |-> "mkdir", at |-> n]
                                           /\ op'.todo \in Seq(PlainSteps({n}))
  BY StepShape, HeadTailProperties DEF WriteRigXml
<1>2. It.at \in Present /\ It.doc \in Rigs /\ Fits(op'.todo, Present, ValidFolders)
  <2>1. It \notin EndSteps(ValidFolders) /\ \A n : It # [do |-> "mkdir", at |-> n]
    BY <1>1 DEF EndSteps
  <2>2. It \in PlainSteps(Present) /\ Fits(op'.todo, Present, ValidFolders)
    BY <1>1, <2>1
  <2>3. It.at \in Present /\ It.doc \in Rigs
    BY <1>1, <2>2 DEF PlainSteps
  <2> QED
    BY <2>2, <2>3
<1>3. It.at \in Nicknames /\ rigs[It.at] \in Folders
  BY <1>2 DEF Present, FleetTyped, TypeOK
<1> DEFINE n == It.at
           d == It.doc
           f == [rigs[n] EXCEPT !.xml = d]
<1>4. f \in Folders /\ f.xml = d /\ f # None /\ d # None
  BY <1>2, <1>3, NoneAssumption DEF Folders
<1>5. rigs' = [rigs EXCEPT ![n] = f]
  BY DEF WriteRigXml
<1> HIDE DEF n, d, f
<1>6. /\ rigs' \in [Nicknames -> Folders \cup {None}] /\ rigs'[n] = f
      /\ \A m \in Nicknames \ {n} : rigs'[m] = rigs[m]
  BY <1>3, <1>4, <1>5 DEF FleetTyped, TypeOK, n
<1>7. Present' = Present \cup {n} /\ ValidFolders' = ValidFolders \cup {n} /\ Present' = Present
  BY <1>2, <1>3, <1>4, <1>6 DEF Present, ValidFolders, Valid, n
<1>8. Fits(op'.todo, Present', ValidFolders')
  BY <1>2, <1>7, FitsMore
<1> QED
  BY <1>2, <1>3, <1>4, <1>6, <1>7, <1>8 DEF n, d

LEMMA SumsWritten ==
  ASSUME FleetTyped, WriteRigSums
  PROVE  /\ rigs' \in [Nicknames -> Folders \cup {None}]
         /\ Present' = Present /\ ValidFolders' = ValidFolders
         /\ \A n \in ValidFolders : rigs'[n].xml = rigs[n].xml
         /\ rigs'[It.at].sums = rigs'[It.at].xml
         /\ \A n \in Nicknames \ {It.at} : rigs'[n] = rigs[n]
         /\ Fits(op'.todo, Present', ValidFolders')
<1>1. /\ It.do = "sums"
      /\ \/ It \in PlainSteps(Present) /\ Fits(op'.todo, Present, ValidFolders)
         \/ It \in EndSteps(ValidFolders) /\ op'.todo = <<>>
         \/ \E n \in Nicknames \ Present : /\ It = [do |-> "mkdir", at |-> n]
                                           /\ op'.todo \in Seq(PlainSteps({n}))
  BY StepShape DEF WriteRigSums
<1>2. It.at \in Present /\ Fits(op'.todo, Present, ValidFolders)
  <2>1. It \notin EndSteps(ValidFolders) /\ \A n : It # [do |-> "mkdir", at |-> n]
    BY <1>1 DEF EndSteps
  <2>2. It \in PlainSteps(Present) /\ Fits(op'.todo, Present, ValidFolders)
    BY <1>1, <2>1
  <2>3. It.at \in Present
    BY <1>1, <2>2 DEF PlainSteps
  <2> QED
    BY <2>2, <2>3
<1>3. It.at \in Nicknames /\ rigs[It.at] \in Folders
  BY <1>2 DEF Present, FleetTyped, TypeOK
<1> DEFINE n == It.at
           f == [rigs[n] EXCEPT !.sums = rigs[n].xml]
<1>4. f \in Folders /\ f.xml = rigs[n].xml /\ f.sums = f.xml /\ f # None
  BY <1>3, NoneAssumption DEF Folders
<1>5. rigs' = [rigs EXCEPT ![n] = f]
  BY DEF WriteRigSums
<1> HIDE DEF n, f
<1>6. /\ rigs' \in [Nicknames -> Folders \cup {None}] /\ rigs'[n] = f
      /\ \A m \in Nicknames \ {n} : rigs'[m] = rigs[m]
  BY <1>3, <1>4, <1>5 DEF FleetTyped, TypeOK, n
<1>7. Present' = Present /\ ValidFolders' = ValidFolders
  BY <1>2, <1>4, <1>6 DEF Present, ValidFolders, Valid, n
<1>8. \A m \in ValidFolders : rigs'[m].xml = rigs[m].xml
  BY <1>4, <1>6 DEF ValidFolders
<1> QED
  BY <1>2, <1>4, <1>6, <1>7, <1>8 DEF n

LEMMA FolderMade ==
  ASSUME FleetTyped, MakeFolder
  PROVE  /\ rigs' \in [Nicknames -> Folders \cup {None}] /\ ValidFolders' = ValidFolders
         /\ \A n \in ValidFolders : rigs'[n] = rigs[n]
         /\ Fits(op'.todo, Present', ValidFolders')
<1>1. PICK n \in Nicknames \ Present : /\ It = [do |-> "mkdir", at |-> n]
                                       /\ op'.todo \in Seq(PlainSteps({n}))
  <2>1. /\ It.do = "mkdir"
        /\ \/ It \in PlainSteps(Present) \/ It \in EndSteps(ValidFolders)
           \/ \E n \in Nicknames \ Present : /\ It = [do |-> "mkdir", at |-> n]
                                             /\ op'.todo \in Seq(PlainSteps({n}))
    BY StepShape DEF MakeFolder
  <2> QED
    BY <2>1 DEF PlainSteps, EndSteps
<1>2. rigs[n] = None /\ rigs' = [rigs EXCEPT ![n] = EmptyDir]
  BY <1>1 DEF MakeFolder, Present
<1>3. EmptyDir \in Folders /\ EmptyDir # None /\ EmptyDir.xml = None
  BY NoneAssumption DEF EmptyDir, Folders
<1> HIDE DEF EmptyDir
<1>4. /\ rigs' \in [Nicknames -> Folders \cup {None}] /\ rigs'[n] = EmptyDir
      /\ \A m \in Nicknames \ {n} : rigs'[m] = rigs[m]
  BY <1>2, <1>3 DEF FleetTyped, TypeOK
<1>5. Present' = Present \cup {n} /\ ValidFolders' = ValidFolders
  BY <1>2, <1>3, <1>4 DEF Present, ValidFolders, Valid
<1>6. op'.todo \in Seq(PlainSteps(Present'))
  <2>1. PlainSteps({n}) \subseteq PlainSteps(Present')
    BY <1>5 DEF PlainSteps
  <2> QED
    BY <1>1, <2>1, SeqMonotonic
<1>7. \A m \in ValidFolders : rigs'[m] = rigs[m]
  BY <1>2, <1>4 DEF ValidFolders, Valid
<1> QED
  BY <1>4, <1>5, <1>6, <1>7 DEF Fits

LEMMA RigRenamed ==
  ASSUME FleetTyped, RenameRig
  PROVE  /\ It.at \in Nicknames /\ It.to \in Nicknames /\ op'.todo = <<>>
         /\ rigs' \in [Nicknames -> Folders \cup {None}]
         /\ rigs'[It.at] = None /\ (It.to # It.at => rigs'[It.to] = rigs[It.at])
         /\ \A n \in Nicknames \ {It.at, It.to} : rigs'[n] = rigs[n]
<1>1. /\ It.do = "rename"
      /\ \/ It \in PlainSteps(Present)
         \/ It \in EndSteps(ValidFolders) /\ op'.todo = <<>>
         \/ \E n \in Nicknames \ Present : It = [do |-> "mkdir", at |-> n]
  BY StepShape DEF RenameRig
<1>2. It.at \in Nicknames /\ It.to \in Nicknames /\ op'.todo = <<>>
  BY <1>1 DEF PlainSteps, EndSteps
<1>3. rigs' = [rigs EXCEPT ![It.to] = rigs[It.at], ![It.at] = None]
  BY DEF RenameRig
<1> DEFINE n == It.at
           m == It.to
<1> HIDE DEF n, m
<1>4. rigs' = [rigs EXCEPT ![m] = rigs[n], ![n] = None]
  BY <1>3 DEF n, m
<1>5. rigs \in [Nicknames -> Folders \cup {None}] /\ n \in Nicknames /\ m \in Nicknames
  BY <1>2 DEF FleetTyped, TypeOK, n, m
<1>6. /\ rigs' \in [Nicknames -> Folders \cup {None}]
      /\ rigs'[n] = None /\ (m # n => rigs'[m] = rigs[n])
      /\ \A x \in Nicknames \ {n, m} : rigs'[x] = rigs[x]
  BY <1>4, <1>5
<1> QED
  BY <1>2, <1>6 DEF n, m

LEMMA RigTrashed ==
  ASSUME FleetTyped, TrashRig
  PROVE  /\ It.at \in ValidFolders /\ op'.todo = <<>> /\ It = [do |-> "trash", at |-> It.at]
         /\ rigs' \in [Nicknames -> Folders \cup {None}] /\ gone' \subseteq RigIds
         /\ rigs'[It.at] = None /\ \A n \in Nicknames \ {It.at} : rigs'[n] = rigs[n]
<1>1. /\ It.do = "trash"
      /\ \/ It \in PlainSteps(Present)
         \/ It \in EndSteps(ValidFolders) /\ op'.todo = <<>>
         \/ \E n \in Nicknames \ Present : It = [do |-> "mkdir", at |-> n]
  BY StepShape DEF TrashRig
<1>2. It.at \in ValidFolders /\ op'.todo = <<>> /\ It = [do |-> "trash", at |-> It.at]
  BY <1>1 DEF PlainSteps, EndSteps
<1>3. rigs' = [rigs EXCEPT ![It.at] = None] /\ gone' = gone \cup {rigs[It.at].xml.id}
  BY DEF TrashRig
<1> DEFINE n == It.at
<1>4. n \in ValidFolders /\ n \in Nicknames /\ rigs[n].xml.id \in RigIds
  BY <1>2, RigTypes
<1> HIDE DEF n
<1>5. /\ rigs' \in [Nicknames -> Folders \cup {None}] /\ rigs'[n] = None
      /\ \A m \in Nicknames \ {n} : rigs'[m] = rigs[m]
  BY <1>3, <1>4 DEF FleetTyped, TypeOK, n
<1> QED
  BY <1>2, <1>3, <1>4, <1>5 DEF FleetTyped, TypeOK, n

\* The component files once a step is done.
LEMMA PartAssigned ==
  ASSUME FleetTyped, AssignComponent
  PROVE  /\ It.part \in Comps /\ It.to \in RigIds \cup {None} /\ It = Assign(It.part, It.to)
         /\ comp' \in [Comps -> Parts \cup {None}]
         /\ \A c \in Comps : comp'[c] = IF c = It.part /\ Live(c)
                                        THEN [status |-> comp[c].status, rig |-> It.to]
                                        ELSE comp[c]
         /\ Fits(op'.todo, Present, ValidFolders)
<1>1. /\ It.do = "assign"
      /\ \/ It \in PlainSteps(Present) /\ Fits(op'.todo, Present, ValidFolders)
         \/ It \in EndSteps(ValidFolders) /\ op'.todo = <<>>
         \/ \E n \in Nicknames \ Present : It = [do |-> "mkdir", at |-> n]
  BY StepShape DEF AssignComponent
<1>2. It.part \in Comps /\ It.to \in RigIds \cup {None} /\ Fits(op'.todo, Present, ValidFolders)
      /\ It = Assign(It.part, It.to)
  BY <1>1 DEF PlainSteps, EndSteps, Assign
<1> DEFINE c == It.part
           r == It.to
           p == [comp[c] EXCEPT !.rig = r]
<1>3. Live(c) => comp[c] \in Parts
  BY <1>2 DEF Live, FleetTyped, TypeOK
<1>4. Live(c) => p \in Parts /\ p = [status |-> comp[c].status, rig |-> r]
  BY <1>2, <1>3 DEF Parts
<1>5. comp' = IF Live(c) THEN [comp EXCEPT ![c] = p] ELSE comp
  BY DEF AssignComponent
<1>6. comp \in [Comps -> Parts \cup {None}]
  BY DEF FleetTyped, TypeOK
<1> HIDE DEF p, c, r
<1>7. c \in Comps
  BY <1>2 DEF c
<1>8. /\ comp' \in [Comps -> Parts \cup {None}]
      /\ \A e \in Comps : comp'[e] = IF e = c /\ Live(e) THEN p ELSE comp[e]
  BY <1>4, <1>5, <1>6, <1>7
<1>9. \A e \in Comps : comp'[e] = IF e = c /\ Live(e)
                                  THEN [status |-> comp[e].status, rig |-> r] ELSE comp[e]
  BY <1>4, <1>8
<1> QED
  BY <1>2, <1>8, <1>9 DEF c, r

LEMMA NothingFits == ASSUME NEW P, NEW V PROVE Fits(<<>>, P, V)
<1>1. <<>> \in Seq(PlainSteps(P))
  OBVIOUS
<1> QED
  BY <1>1 DEF Fits

LEMMA TypedPerform == FleetTyped /\ Perform => FleetTyped'
<1> SUFFICES ASSUME FleetTyped, Perform PROVE FleetTyped'
  OBVIOUS
<1>1. CASE MakeFolder
  <2>1. op' \in Plans /\ mode = "serving"
    BY <1>1, StepShape DEF MakeFolder
  <2> QED
    BY <1>1, <2>1, FolderMade DEF MakeFolder, FleetTyped, TypeOK
<1>2. CASE WriteRigXml
  <2>1. op' \in Plans /\ mode = "serving"
    BY <1>2, StepShape DEF WriteRigXml
  <2> QED
    BY <1>2, <2>1, XmlWritten DEF WriteRigXml, FleetTyped, TypeOK
<1>3. CASE WriteRigSums
  <2>1. op' \in Plans /\ mode = "serving"
    BY <1>3, StepShape DEF WriteRigSums
  <2> QED
    BY <1>3, <2>1, SumsWritten DEF WriteRigSums, FleetTyped, TypeOK
<1>4. CASE RenameRig
  <2>1. op' \in Plans /\ mode = "serving"
    BY <1>4, StepShape DEF RenameRig
  <2> QED
    BY <1>4, <2>1, RigRenamed, NothingFits DEF RenameRig, FleetTyped, TypeOK
<1>5. CASE AssignComponent
  <2>1. op' \in Plans /\ mode = "serving"
    BY <1>5, StepShape DEF AssignComponent
  <2>2. Present' = Present /\ ValidFolders' = ValidFolders
    BY <1>5 DEF AssignComponent, Present, ValidFolders, Valid
  <2> QED
    BY <1>5, <2>1, <2>2, PartAssigned DEF AssignComponent, FleetTyped, TypeOK
<1>6. CASE TrashRig
  <2>1. op' \in Plans /\ mode = "serving"
    BY <1>6, StepShape DEF TrashRig
  <2> QED
    BY <1>6, <2>1, RigTrashed, NothingFits DEF TrashRig, FleetTyped, TypeOK
<1>7. CASE Finish
  BY <1>7 DEF Finish, FleetTyped, TypeOK
<1> QED
  BY <1>1, <1>2, <1>3, <1>4, <1>5, <1>6, <1>7 DEF Perform

LEMMA TypedRestart ==
  ASSUME FleetTyped, Restart \/ HandlerFails \/ Crash \/ Quit \/ UNCHANGED vars
  PROVE  FleetTyped'
<1>1. ASSUME NEW c \in Comps, ReconcileComponent(c) PROVE FleetTyped'
  <2> DEFINE p == [comp[c] EXCEPT !.rig = Expected(c)]
  <2>1. op = None /\ comp[c] \in Parts
    BY <1>1 DEF ReconcileComponent, FleetTyped, TypeOK, Live
  <2>2. Expected(c) \in RigIds \cup {None}
    <3>1. Claims(c) # {} => (CHOOSE n \in Claims(c) : TRUE) \in ValidFolders
      BY DEF Claims
    <3> QED
      BY <3>1, RigTypes DEF Expected
  <2>3. p \in Parts
    BY <2>1, <2>2 DEF Parts
  <2>4. comp' = comp \/ comp' = [comp EXCEPT ![c] = p]
    BY <1>1 DEF ReconcileComponent
  <2> HIDE DEF p
  <2>5. /\ comp' \in [Comps -> Parts \cup {None}] /\ mode = "reconcile" /\ mode' = mode
        /\ \A e \in Comps \ {c} : comp'[e] = comp[e]
    BY <1>1, <2>3, <2>4 DEF ReconcileComponent, FleetTyped, TypeOK
  <2>6. sweep' = sweep \ {c} /\ UNCHANGED <<rigs, gone, op, faults>>
    BY <1>1 DEF ReconcileComponent
  <2>7. sweep' \subseteq {e \in Comps : Live(e)'}
    BY <2>5, <2>6 DEF FleetTyped, Live
  <2> QED
    BY <2>1, <2>5, <2>6, <2>7 DEF FleetTyped, TypeOK
<1>2. CASE ReconcileDone \/ ReconcileFails \/ HandlerFails \/ Crash \/ Quit \/ Boot
  BY <1>2, FaultsAssumption
  DEF ReconcileDone, ReconcileFails, HandlerFails, Crash, Quit, Boot, Idle, FleetTyped, TypeOK, Live
<1>3. CASE UNCHANGED vars
  <2>1. Present' = Present /\ ValidFolders' = ValidFolders
    BY <1>3 DEF vars, Present, ValidFolders, Valid
  <2> QED
    BY <1>3, <2>1 DEF vars, FleetTyped, TypeOK, Live
<1> QED
  BY <1>1, <1>2, <1>3 DEF Restart

LEMMA TypedNext == FleetTyped /\ [Next]_vars => FleetTyped'
  BY TypedRequest, TypedPerform, TypedRestart DEF Next

-----------------------------------------------------------------------------
(* Rigs and components name each other.  N is what the rig.xml files say,    *)
(* C are the component files and T are the steps still to come.              *)

Trash(n) == [do |-> "trash", at |-> n]

LiveIn(C, c) == C[c] # None /\ C[c].status # "trashed"

RigNames(N) ==
    DOMAIN N \subseteq Nicknames /\ \A n \in DOMAIN N : N[n].id \in RigIds /\ N[n].comp \in Refs

\* No two rigs have an id or a component in common.
Apart(N) ==
    \A m, n \in DOMAIN N : \A k \in Kinds :
        N[m].id = N[n].id \/ N[m].comp[k] = N[n].comp[k] => m = n

\* A component of a rig names it, or will, or the rig is about to go.
Owned(N, C, T) ==
    \A n \in DOMAIN N, k \in Kinds :
        /\ C[N[n].comp[k]] # None
        /\ \/ C[N[n].comp[k]].rig = N[n].id
           \/ Assign(N[n].comp[k], N[n].id) \in T
           \/ Trash(n) \in T

\* A rig that names component c, has id r and stays.
Keeps(N, T, c, r) ==
    \E n \in DOMAIN N : N[n].comp[KindOf[c]] = c /\ N[n].id = r /\ Trash(n) \notin T

\* The rig a component names keeps it, or it is about to be taken off.
Claimed(N, C, T) ==
    \A c \in Comps : LiveIn(C, c) /\ C[c].rig # None =>
        Assign(c, None) \in T \/ Keeps(N, T, c, C[c].rig)

\* What the steps to come rely on.
Attaches(N, C, T) ==
    \A c \in Comps, r \in RigIds : Assign(c, r) \in T => LiveIn(C, c) /\ Keeps(N, T, c, r)

Detaches(N, T) ==
    \A c \in Comps : Assign(c, None) \in T =>
        \A n \in DOMAIN N : N[n].comp[KindOf[c]] = c => Trash(n) \in T

Sound(N, T) ==
    \A s \in T :
        /\ s.do # "mkdir"
        /\ s.do = "xml" => s.at \in DOMAIN N /\ Names(s.doc) = N[s.at]
        /\ s.do = "rename" => /\ s.at \in DOMAIN N /\ s.to \notin DOMAIN N
                              /\ \A x \in T : x.do \notin {"assign", "trash"}

Settled(N, C, T) ==
    Apart(N) /\ Owned(N, C, T) /\ Claimed(N, C, T) /\ Attaches(N, C, T) /\ Detaches(N, T)
      /\ Sound(N, T)

LEMMA StepNames ==
  /\ \A c, r : Assign(c, r).do = "assign"
  /\ \A n : Trash(n).do = "trash"
  /\ \A c, r, d, q : Assign(c, r) = Assign(d, q) => c = d /\ r = q
  /\ \A m, n : Trash(m) = Trash(n) => m = n
  BY DEF Assign, Trash

LEMMA KindsOwn ==
  ASSUME NEW N, RigNames(N), NEW n \in DOMAIN N, NEW k \in Kinds
  PROVE  /\ N[n].comp[k] \in Comps /\ KindOf[N[n].comp[k]] = k
         /\ N[n].id \in RigIds /\ N[n].id # None
  BY NoneAssumption DEF RigNames, Refs

\* A step that neither attaches, moves nor trashes.
LEMMA CalmStepSettled ==
  ASSUME NEW N, NEW C, NEW T, NEW s, s.do \notin {"assign", "trash"}, Settled(N, C, {s} \cup T)
  PROVE  Settled(N, C, T)
<1>1. /\ \A c, r : Assign(c, r) \in {s} \cup T <=> Assign(c, r) \in T
      /\ \A n : Trash(n) \in {s} \cup T <=> Trash(n) \in T
  BY StepNames
<1>2. Owned(N, C, T)
  BY <1>1 DEF Settled, Owned
<1>3. \A c, r : Keeps(N, {s} \cup T, c, r) <=> Keeps(N, T, c, r)
  BY <1>1 DEF Keeps
<1>4. Claimed(N, C, T) /\ Attaches(N, C, T)
  BY <1>1, <1>3 DEF Settled, Claimed, Attaches
<1>5. Detaches(N, T)
  BY <1>1 DEF Settled, Detaches
<1>6. Sound(N, T)
  BY DEF Settled, Sound
<1> QED
  BY <1>2, <1>4, <1>5, <1>6 DEF Settled

\* A plan that only rewrites what the rig.xml files say, or moves one folder.
LEMMA CalmSettled ==
  ASSUME NEW N, NEW C, NEW T, Settled(N, C, {}), Sound(N, T),
         \A s \in T : s.do \notin {"assign", "trash"}
  PROVE  Settled(N, C, T)
<1>1. /\ \A c, r : Assign(c, r) \notin T
      /\ \A n : Trash(n) \notin T
  BY StepNames
<1>2. Owned(N, C, T)
  BY <1>1 DEF Settled, Owned
<1>3. \A c, r : Keeps(N, {}, c, r) => Keeps(N, T, c, r)
  BY <1>1 DEF Keeps
<1>4. Claimed(N, C, T)
  BY <1>1, <1>3 DEF Settled, Claimed
<1>5. Detaches(N, T) /\ Attaches(N, C, T)
  BY <1>1 DEF Detaches, Attaches
<1> QED
  BY <1>2, <1>4, <1>5 DEF Settled

\* The component file of an attached or detached component is written.
LEMMA AssignSettled ==
  ASSUME NEW N, RigNames(N), NEW C \in [Comps -> Parts \cup {None}], NEW T,
         NEW c \in Comps, NEW r \in RigIds \cup {None}, Settled(N, C, {Assign(c, r)} \cup T),
         NEW B, \A e \in Comps : B[e] = IF e = c /\ LiveIn(C, e)
                                 THEN [status |-> C[e].status, rig |-> r] ELSE C[e]
  PROVE  Settled(N, B, T)
<1> DEFINE S == {Assign(c, r)} \cup T
<1>1. /\ \A n : Trash(n) \in S <=> Trash(n) \in T
      /\ \A e, q : Assign(e, q) \in S <=> Assign(e, q) \in T \/ (e = c /\ q = r)
  BY StepNames
<1> HIDE DEF S
<1>2. Settled(N, C, S)
  BY DEF S
<1>3. \A e \in Comps :
        /\ LiveIn(B, e) <=> LiveIn(C, e)
        /\ C[e] # None => B[e] # None
        /\ e # c => B[e] = C[e]
        /\ LiveIn(C, c) => B[c].rig = r
  <2> DEFINE p == [status |-> C[c].status, rig |-> r]
  <2>1. LiveIn(C, c) => p \in Parts /\ p # None /\ p.status = C[c].status /\ p.rig = r
    BY NoneAssumption DEF LiveIn, Parts
  <2>2. \A e \in Comps : B[e] = IF e = c /\ LiveIn(C, c) THEN p ELSE C[e]
    OBVIOUS
  <2> HIDE DEF p
  <2> QED
    BY <2>1, <2>2 DEF LiveIn
<1>4. \A e, q : Keeps(N, S, e, q) <=> Keeps(N, T, e, q)
  BY <1>1 DEF Keeps
<1>5. ASSUME NEW n \in DOMAIN N, NEW k \in Kinds
      PROVE  /\ B[N[n].comp[k]] # None
             /\ \/ B[N[n].comp[k]].rig = N[n].id
                \/ Assign(N[n].comp[k], N[n].id) \in T
                \/ Trash(n) \in T
  <2>1. N[n].comp[k] \in Comps /\ KindOf[N[n].comp[k]] = k
    BY KindsOwn
  <2>2. /\ C[N[n].comp[k]] # None
        /\ \/ C[N[n].comp[k]].rig = N[n].id
           \/ Assign(N[n].comp[k], N[n].id) \in S
           \/ Trash(n) \in S
    BY <1>2 DEF Settled, Owned
  <2>3. CASE N[n].comp[k] # c
    BY <1>1, <1>3, <2>1, <2>2, <2>3
  <2>4. CASE N[n].comp[k] = c /\ r = None
    <3>1. Assign(c, None) \in S
      BY <1>1, <2>4
    <3>2. Trash(n) \in S
      BY <1>2, <2>1, <2>4, <3>1 DEF Settled, Detaches
    <3> QED
      BY <1>1, <1>3, <2>1, <2>2, <3>2
  <2>5. CASE N[n].comp[k] = c /\ r # None
    <3>1. LiveIn(C, c) /\ Keeps(N, S, c, r)
      BY <1>1, <1>2, <2>5 DEF Settled, Attaches
    <3>2. PICK m \in DOMAIN N : N[m].comp[k] = c /\ N[m].id = r
      BY <2>1, <2>5, <3>1 DEF Keeps
    <3>3. m = n
      BY <1>2, <2>5, <3>2 DEF Settled, Apart
    <3> QED
      BY <1>3, <2>1, <2>2, <2>5, <3>1, <3>2, <3>3
  <2> QED
    BY <2>3, <2>4, <2>5
<1>6. ASSUME NEW e \in Comps, LiveIn(B, e), B[e].rig # None
      PROVE  Assign(e, None) \in T \/ Keeps(N, T, e, B[e].rig)
  <2>1. LiveIn(C, e)
    BY <1>3, <1>6
  <2>2. CASE e = c
    <3>1. B[e].rig = r /\ r # None /\ Assign(c, r) \in S
      BY <1>1, <1>3, <1>6, <2>1, <2>2
    <3> QED
      BY <1>2, <1>4, <2>2, <3>1 DEF Settled, Attaches
  <2>3. CASE e # c
    <3>1. B[e] = C[e]
      BY <1>3, <2>3
    <3>2. Assign(e, None) \in S \/ Keeps(N, S, e, C[e].rig)
      BY <1>2, <1>6, <2>1, <3>1 DEF Settled, Claimed
    <3> QED
      BY <1>1, <1>4, <2>3, <3>1, <3>2
  <2> QED
    BY <2>2, <2>3
<1>7. Attaches(N, B, T)
  BY <1>1, <1>2, <1>3, <1>4 DEF Settled, Attaches
<1>8. Detaches(N, T)
  BY <1>1, <1>2 DEF Settled, Detaches
<1>9. Sound(N, T)
  BY <1>2 DEF Settled, Sound, S
<1> QED
  BY <1>2, <1>5, <1>6, <1>7, <1>8, <1>9 DEF Settled, Owned, Claimed

\* The folder of a rig is moved.
LEMMA RenameSettled ==
  ASSUME NEW N, NEW C, NEW M, NEW n \in DOMAIN N, NEW m, m \notin DOMAIN N,
         NEW s, s.do = "rename", Settled(N, C, {s}),
         DOMAIN M = (DOMAIN N \ {n}) \cup {m}, M[m] = N[n],
         \A x \in DOMAIN N \ {n} : M[x] = N[x]
  PROVE  Settled(M, C, {})
<1>1. /\ \A c, r : Assign(c, r) \notin {s}
      /\ \A x : Trash(x) \notin {s}
  BY StepNames
<1>2. Apart(M)
  BY DEF Settled, Apart
<1>3. Owned(M, C, {})
  BY <1>1 DEF Settled, Owned
<1>4. \A c, r : Keeps(N, {s}, c, r) => Keeps(M, {}, c, r)
  BY DEF Keeps
<1>5. Claimed(M, C, {})
  BY <1>1, <1>4 DEF Settled, Claimed
<1> QED
  BY <1>2, <1>3, <1>5 DEF Settled, Attaches, Detaches, Sound

\* A rig goes to the trash.
LEMMA TrashSettled ==
  ASSUME NEW N, NEW C, NEW M, NEW n \in DOMAIN N, Settled(N, C, {Trash(n)}),
         DOMAIN M = DOMAIN N \ {n}, \A x \in DOMAIN M : M[x] = N[x]
  PROVE  Settled(M, C, {})
<1>1. /\ \A c, r : Assign(c, r) \notin {Trash(n)}
      /\ \A x \in DOMAIN M : Trash(x) \notin {Trash(n)}
  BY StepNames
<1>2. Apart(M)
  BY DEF Settled, Apart
<1>3. Owned(M, C, {})
  BY <1>1 DEF Settled, Owned
<1>4. \A c, r : Keeps(N, {Trash(n)}, c, r) => Keeps(M, {}, c, r)
  BY DEF Keeps
<1>5. Claimed(M, C, {})
  BY <1>1, <1>4 DEF Settled, Claimed
<1> QED
  BY <1>2, <1>3, <1>5 DEF Settled, Attaches, Detaches, Sound

\* A component service writes its file.
LEMMA ServiceSettled ==
  ASSUME NEW N, RigNames(N), NEW C, NEW B, Settled(N, C, {}),
         \A c \in Comps : /\ C[c] # None => B[c] # None /\ B[c].rig = C[c].rig
                          /\ LiveIn(B, c) => LiveIn(C, c) \/ B[c].rig = None
  PROVE  Settled(N, B, {})
<1>1. Owned(N, B, {})
  BY KindsOwn DEF Settled, Owned
<1>2. Claimed(N, B, {})
  BY DEF Settled, Claimed, LiveIn
<1> QED
  BY <1>1, <1>2 DEF Settled, Attaches, Detaches, Sound

\* What the rig.xml files say once folder n holds x.
With(N, n, x) == [m \in DOMAIN N \cup {n} |-> IF m = n THEN x ELSE N[m]]

LEMMA Unclaimed ==
  ASSUME NEW N, RigNames(N), NEW C, Settled(N, C, {}), NEW c \in Comps, C[c].rig = None
  PROVE  \A n \in DOMAIN N, k \in Kinds : N[n].comp[k] # c
<1> SUFFICES ASSUME NEW n \in DOMAIN N, NEW k \in Kinds, N[n].comp[k] = c PROVE FALSE
  OBVIOUS
<1>1. C[c].rig = N[n].id
  BY DEF Settled, Owned
<1> QED
  BY <1>1, KindsOwn

\* create_rig: the new rig.xml comes first, then its components follow.
LEMMA CreateSettled ==
  ASSUME NEW N, RigNames(N), NEW C, Settled(N, C, {}), NEW n, n \notin DOMAIN N,
         NEW x, x.id \in RigIds, x.comp \in Refs, \A m \in DOMAIN N : N[m].id # x.id,
         \A k \in Kinds : LiveIn(C, x.comp[k]) /\ C[x.comp[k]].rig \in {None, x.id},
         NEW T, NEW s, s.do = "sums", T = {s} \cup {Assign(x.comp[k], x.id) : k \in Kinds}
  PROVE  Settled(With(N, n, x), C, T)
<1> DEFINE M == With(N, n, x)
<1>1. DOMAIN M = DOMAIN N \cup {n} /\ M[n] = x /\ \A m \in DOMAIN N : M[m] = N[m]
  BY DEF With
<1>2. /\ \A c, r : Assign(c, r) \in T <=> \E k \in Kinds : c = x.comp[k] /\ r = x.id
      /\ \A m : Trash(m) \notin T
      /\ x.id # None
  BY StepNames, NoneAssumption
<1>3. \A k \in Kinds : x.comp[k] \in Comps /\ KindOf[x.comp[k]] = k
  BY DEF Refs
<1> HIDE DEF M
<1>4. ASSUME NEW k \in Kinds PROVE C[x.comp[k]].rig = None
  <2> DEFINE c == x.comp[k]
  <2> SUFFICES ASSUME C[c].rig = x.id PROVE FALSE
    OBVIOUS
  <2>1. c \in Comps /\ LiveIn(C, c) /\ C[c].rig # None
    BY <1>2, <1>3
  <2>2. Keeps(N, {}, c, x.id)
    BY <2>1 DEF Settled, Claimed
  <2> QED
    BY <2>2 DEF Keeps
<1>5. \A m \in DOMAIN N, k, j \in Kinds : N[m].comp[k] # x.comp[j]
  BY <1>3, <1>4, Unclaimed
<1>6. Apart(M)
  BY <1>1, <1>5 DEF Settled, Apart
<1>7. Owned(M, C, T)
  <2> SUFFICES ASSUME NEW m \in DOMAIN M, NEW k \in Kinds
               PROVE  /\ C[M[m].comp[k]] # None
                      /\ C[M[m].comp[k]].rig = M[m].id \/ Assign(M[m].comp[k], M[m].id) \in T
    BY DEF Owned
  <2>1. CASE m = n
    BY <1>1, <1>2, <2>1 DEF LiveIn
  <2>2. CASE m \in DOMAIN N /\ m # n
    BY <1>1, <2>2 DEF Settled, Owned
  <2> QED
    BY <1>1, <2>1, <2>2
<1>8. \A c, r : Keeps(N, {}, c, r) => Keeps(M, T, c, r)
  BY <1>1, <1>2 DEF Keeps
<1>9. Claimed(M, C, T)
  BY <1>8 DEF Settled, Claimed
<1>10. \A k \in Kinds : Keeps(M, T, x.comp[k], x.id)
  BY <1>1, <1>2, <1>3 DEF Keeps
<1>11. Attaches(M, C, T)
  <2> SUFFICES ASSUME NEW c \in Comps, NEW r \in RigIds, Assign(c, r) \in T
               PROVE  LiveIn(C, c) /\ Keeps(M, T, c, r)
    BY DEF Attaches
  <2>1. PICK k \in Kinds : c = x.comp[k] /\ r = x.id
    BY <1>2
  <2>2. LiveIn(C, x.comp[k])
    OBVIOUS
  <2> QED
    BY <1>10, <2>1, <2>2
<1>12. Detaches(M, T)
  BY <1>2 DEF Detaches
<1>13. Sound(M, T)
  BY StepNames DEF Sound
<1> QED
  BY <1>6, <1>7, <1>9, <1>11, <1>12, <1>13 DEF Settled, M

\* swap_main: the rig.xml names the new main first.
LEMMA SwapSettled ==
  ASSUME NEW N, RigNames(N), NEW C, Settled(N, C, {}), NEW n \in DOMAIN N,
         NEW m \in Comps, KindOf[m] = "main", m # N[n].comp["main"],
         LiveIn(C, m), C[m].rig \in {None, N[n].id},
         NEW x, x.id = N[n].id, x.comp = [N[n].comp EXCEPT !["main"] = m],
         NEW T, NEW s, s.do = "sums",
         T = {s, Assign(N[n].comp["main"], None), Assign(m, N[n].id)}
  PROVE  Settled(With(N, n, x), C, T)
<1> DEFINE M == With(N, n, x)
           old == N[n].comp["main"]
<1>1. DOMAIN M = DOMAIN N /\ M[n] = x /\ \A j \in DOMAIN N \ {n} : M[j] = N[j]
  BY DEF With
<1>2. /\ "main" \in Kinds /\ N[n].id \in RigIds /\ N[n].id # None /\ old \in Comps
      /\ KindOf[old] = "main"
  BY RegistryAssumption, KindsOwn
<1>3. x.comp["main"] = m /\ \A k \in Kinds \ {"main"} : x.comp[k] = N[n].comp[k]
  BY <1>2 DEF RigNames, Refs
<1>4. /\ \A c, r : Assign(c, r) \in T <=> (c = old /\ r = None) \/ (c = m /\ r = N[n].id)
      /\ \A j : Trash(j) \notin T
  BY StepNames
<1> HIDE DEF M, old
<1>5. C[m].rig = None
  <2> SUFFICES ASSUME C[m].rig = N[n].id PROVE FALSE
    OBVIOUS
  <2>1. Keeps(N, {}, m, N[n].id)
    BY <1>2 DEF Settled, Claimed
  <2>2. PICK j \in DOMAIN N : N[j].comp["main"] = m /\ N[j].id = N[n].id
    BY <2>1 DEF Keeps
  <2>3. j = n
    BY <1>2, <2>2 DEF Settled, Apart
  <2> QED
    BY <2>2, <2>3 DEF old
<1>6. \A j \in DOMAIN N, k \in Kinds : N[j].comp[k] # m
  BY <1>5, Unclaimed
<1>7. \A j \in DOMAIN N, k \in Kinds :
        /\ M[j].id = N[j].id
        /\ M[j].comp[k] = IF j = n /\ k = "main" THEN m ELSE N[j].comp[k]
  BY <1>1, <1>3
<1>8. Apart(M)
  BY <1>1, <1>6, <1>7 DEF Settled, Apart
<1>9. Owned(M, C, T)
  BY <1>1, <1>2, <1>4, <1>7 DEF Settled, Owned, LiveIn
<1>10. ASSUME NEW c \in Comps, NEW r, Keeps(N, {}, c, r), c # old PROVE Keeps(M, T, c, r)
  <2>1. PICK j \in DOMAIN N : N[j].comp[KindOf[c]] = c /\ N[j].id = r
    BY <1>10 DEF Keeps
  <2>2. KindOf[c] \in Kinds
    BY KindAssumption
  <2>3. ~(j = n /\ KindOf[c] = "main")
    BY <1>10, <2>1 DEF old
  <2> QED
    BY <1>1, <1>4, <1>7, <2>1, <2>2, <2>3 DEF Keeps
<1>11. Claimed(M, C, T)
  BY <1>4, <1>10 DEF Settled, Claimed
<1>12. Keeps(M, T, m, N[n].id)
  BY <1>1, <1>2, <1>4, <1>7 DEF Keeps
<1>13. Attaches(M, C, T)
  BY <1>2, <1>4, <1>12, NoneAssumption DEF Attaches
<1>14. Detaches(M, T)
  <2> SUFFICES ASSUME NEW c \in Comps, Assign(c, None) \in T, NEW j \in DOMAIN M,
                      M[j].comp[KindOf[c]] = c
               PROVE  FALSE
    BY DEF Detaches
  <2>1. c = old /\ KindOf[c] = "main" /\ j \in DOMAIN N
    BY <1>1, <1>2, <1>4
  <2>2. j # n
    BY <1>2, <1>7, <2>1 DEF old
  <2>3. N[j].comp["main"] = N[n].comp["main"]
    BY <1>2, <1>7, <2>1, <2>2 DEF old
  <2> QED
    BY <1>2, <2>1, <2>2, <2>3 DEF Settled, Apart
<1>15. Sound(M, T)
  BY StepNames DEF Sound
<1> QED
  BY <1>8, <1>9, <1>11, <1>13, <1>14, <1>15 DEF Settled, M

\* delete_rig: its components are taken off, then it goes.
LEMMA DeleteSettled ==
  ASSUME NEW N, RigNames(N), NEW C, Settled(N, C, {}), NEW n \in DOMAIN N,
         NEW S, Sound(N, S), \A s \in S : s.do \notin {"assign", "trash", "rename"}, NEW T,
         T = S \cup {Assign(N[n].comp[k], None) : k \in Kinds} \cup {Trash(n)}
  PROVE  Settled(N, C, T)
<1>1. /\ \A c, r : Assign(c, r) \in T <=> r = None /\ \E k \in Kinds : c = N[n].comp[k]
      /\ \A m : Trash(m) \in T <=> m = n
  BY StepNames
<1>2. Owned(N, C, T)
  BY DEF Settled, Owned
<1>3. ASSUME NEW c \in Comps, LiveIn(C, c), C[c].rig # None
      PROVE  Assign(c, None) \in T \/ Keeps(N, T, c, C[c].rig)
  <2>1. PICK m \in DOMAIN N : N[m].comp[KindOf[c]] = c /\ N[m].id = C[c].rig
    BY <1>3 DEF Settled, Claimed, Keeps
  <2>2. KindOf[c] \in Kinds
    BY KindAssumption
  <2> QED
    BY <1>1, <2>1, <2>2 DEF Keeps
<1>4. Attaches(N, C, T)
  BY <1>1, NoneAssumption DEF Attaches
<1>5. Detaches(N, T)
  <2> SUFFICES ASSUME NEW c \in Comps, Assign(c, None) \in T, NEW m \in DOMAIN N,
                      N[m].comp[KindOf[c]] = c
               PROVE  m = n
    BY <1>1 DEF Detaches
  <2>1. PICK k \in Kinds : c = N[n].comp[k]
    BY <1>1
  <2>2. KindOf[c] = k
    BY <2>1, KindsOwn
  <2> QED
    BY <2>1, <2>2 DEF Settled, Apart
<1>6. Sound(N, T)
  <2>1. \A s \in T : s \in S \/ s.do \in {"assign", "trash"}
    BY StepNames
  <2> QED
    BY <2>1 DEF Sound
<1> QED
  BY <1>2, <1>3, <1>4, <1>5, <1>6 DEF Settled, Claimed

-----------------------------------------------------------------------------
(* The plans of the handlers keep the rigs and the components in agreement.  *)

Named == [n \in ValidFolders |-> Names(rigs[n].xml)]

\* The steps to come.
Coming == IF op = None THEN {} ELSE Range(op.todo)

\* A plan whose first write changes what the rig.xml files say.
Opening(t) ==
    /\ t # <<>> /\ Head(t).do = "xml"
    /\ Settled(With(Named, Head(t).at, Names(Head(t).doc)), comp, Range(Tail(t)))

Quiet == Settled(Named, comp, Coming)

\* A create_rig or swap_main before that write.
Pending ==
    /\ op # None /\ op.todo # <<>> /\ Settled(Named, comp, {})
    /\ \/ Opening(op.todo)
       \/ Head(op.todo).do = "mkdir" /\ Opening(Tail(op.todo))

RefsInv == faults = 0 => Quiet \/ Pending

LEMMA NamedFacts ==
  ASSUME FleetTyped
  PROVE  /\ RigNames(Named) /\ DOMAIN Named = ValidFolders
         /\ \A n \in ValidFolders :
              /\ Named[n] = Names(rigs[n].xml) /\ Named[n].id = rigs[n].xml.id
              /\ Named[n].comp = rigs[n].xml.comp
  BY RigTypes DEF RigNames, Named, Names

LEMMA RangeOfAppend ==
  ASSUME NEW S, NEW t \in Seq(S), NEW x
  PROVE  Range(Append(t, x)) = Range(t) \cup {x}
<1>1. t \in Seq(S \cup {x}) /\ <<x>> \in Seq(S \cup {x})
  BY SeqMonotonic
<1>2. Append(t, x) = t \o <<x>>
  BY <1>1, AppendIsConcat
<1>3. Range(t \o <<x>>) = Range(t) \cup Range(<<x>>)
  BY <1>1, RangeConcatenation
<1>4. Range(<<x>>) = {x}
  <2> DEFINE u == <<x>>
  <2>1. DOMAIN u = {1} /\ u[1] = x
    OBVIOUS
  <2> HIDE DEF u
  <2>2. Range(u) = {x}
    BY <2>1 DEF Range
  <2> QED
    BY <2>2 DEF u
<1> QED
  BY <1>2, <1>3, <1>4

LEMMA NothingComes == Range(<<>>) = {}
  BY DEF Range

LEMMA Unmoved ==
  ASSUME UNCHANGED <<rigs, comp>>
  PROVE  Named' = Named /\ comp' = comp
  BY DEF Named, ValidFolders, Valid

\* At rest, nothing is to come.
LEMMA RestSettled ==
  ASSUME RefsInv, faults = 0, op = None
  PROVE  Settled(Named, comp, {})
  BY DEF RefsInv, Quiet, Pending, Coming

LEMMA CalmSound ==
  ASSUME FleetTyped, NEW t \in Seq(CalmSteps)
  PROVE  /\ Sound(Named, Range(t)) /\ t \in Seq(PlainSteps(Present))
         /\ \A s \in Range(t) : s.do \notin {"assign", "trash", "rename"}
<1>1. Range(t) \subseteq CalmSteps /\ t \in Seq(PlainSteps(Present))
  BY CalmPlain
<1>2. ASSUME NEW s \in CalmSteps
      PROVE  /\ s.do \in {"xml", "sums"}
             /\ s.do = "xml" => s.at \in DOMAIN Named /\ Names(s.doc) = Named[s.at]
  <2>1. /\ s \in PlainSteps(Present) /\ s.do # "assign"
        /\ s.do = "xml" => s.at \in ValidFolders /\ Names(s.doc) = Names(rigs[s.at].xml)
    BY <1>2 DEF CalmSteps
  <2>2. s.do \in {"xml", "sums"}
    BY <2>1 DEF PlainSteps
  <2> QED
    BY <2>1, <2>2, NamedFacts
<1> QED
  BY <1>1, <1>2 DEF Sound

LEMMA StartQuiet ==
  ASSUME Started, faults = 0, Settled(Named, comp, Range(op'.todo))
  PROVE  RefsInv'
<1>1. Named' = Named /\ comp' = comp /\ op' # None
  BY Unmoved, NoneAssumption DEF Started
<1>2. Quiet'
  BY <1>1 DEF Quiet, Coming
<1> QED
  BY <1>2 DEF RefsInv

LEMMA CalmStart ==
  ASSUME FleetTyped, RefsInv, faults = 0, Started, op'.todo \in Seq(CalmSteps)
  PROVE  RefsInv'
<1>1. Settled(Named, comp, {})
  BY RestSettled DEF Started
<1>2. Settled(Named, comp, Range(op'.todo))
  BY <1>1, CalmSound, CalmSettled
<1> QED
  BY <1>2, StartQuiet

LEMMA UpdateStart ==
  ASSUME FleetTyped, RefsInv, faults = 0, NEW r \in RigIds, NEW n \in Nicknames,
         NEW to \in Nicknames, UpdateRig(r, n, to)
  PROVE  RefsInv'
<1> DEFINE move == [do |-> "rename", at |-> n, to |-> to]
<1>1. PICK plain \in Seq(CalmSteps) :
        /\ \/ op'.todo = plain
           \/ n \in ValidFolders /\ rigs[to] = None /\ op'.todo = Append(plain, move)
        /\ Started
  <2>1. PICK d \in Rigs :
          /\ n \in ValidFolders /\ WriteRig(n, d) \in Seq(CalmSteps)
          /\ \/ op'.todo = WriteRig(n, d)
             \/ rigs[to] = None /\ op'.todo = Append(WriteRig(n, d), move)
          /\ Started
    BY UpdateRigFits
  <2> QED
    BY <2>1
<1>2. CASE op'.todo = plain
  BY <1>1, <1>2, CalmStart
<1>3. CASE n \in ValidFolders /\ rigs[to] = None /\ op'.todo = Append(plain, move)
  <2>1. Settled(Named, comp, {})
    BY <1>1, RestSettled DEF Started
  <2>2. /\ Sound(Named, Range(plain)) /\ plain \in Seq(PlainSteps(Present))
        /\ \A s \in Range(plain) : s.do \notin {"assign", "trash", "rename"}
    BY CalmSound
  <2>3. Range(Append(plain, move)) = Range(plain) \cup {move}
    BY RangeOfAppend
  <2>4. n \in DOMAIN Named /\ to \notin DOMAIN Named
    BY <1>3, NamedFacts DEF ValidFolders, Valid
  <2> DEFINE T == Range(plain) \cup {move}
  <2>5. move.do = "rename" /\ move.at = n /\ move.to = to
    OBVIOUS
  <2> HIDE DEF move
  <2>6. Sound(Named, T) /\ \A s \in T : s.do \notin {"assign", "trash"}
    BY <2>2, <2>4, <2>5 DEF Sound
  <2> HIDE DEF T
  <2>7. Settled(Named, comp, T)
    BY <2>1, <2>6, CalmSettled
  <2> QED
    BY <1>1, <1>3, <2>3, <2>7, StartQuiet DEF T
<1> QED
  BY <1>1, <1>2, <1>3

LEMMA DeleteStart ==
  ASSUME FleetTyped, RefsInv, faults = 0, NEW r \in RigIds, NEW n \in Nicknames, DeleteRig(r, n)
  PROVE  RefsInv'
<1> DEFINE free == AssignAll(rigs[n].xml, None)
<1>1. PICK star \in Seq(CalmSteps) :
        /\ n \in ValidFolders /\ op'.todo = Append(star \o free, Trash(n))
        /\ star \o free \in Seq(PlainSteps(Present)) /\ Started
  BY DeleteRigFits DEF Trash
<1>2. Settled(Named, comp, {})
  BY <1>1, RestSettled DEF Started
<1>3. /\ Sound(Named, Range(star)) /\ star \in Seq(PlainSteps(Present))
      /\ \A s \in Range(star) : s.do \notin {"assign", "trash", "rename"}
  BY CalmSound
<1>4. /\ free \in Seq(PlainSteps(Present))
      /\ Range(free) = {Assign(rigs[n].xml.comp[k], None) : k \in Kinds}
  BY <1>1, RigTypes, AssignsPlain
<1> HIDE DEF free
<1>5. Range(op'.todo) = Range(star) \cup Range(free) \cup {Trash(n)}
  <2>1. Range(star \o free) = Range(star) \cup Range(free)
    BY <1>3, <1>4, RangeConcatenation
  <2>2. op'.todo = Append(star \o free, Trash(n)) /\ star \o free \in Seq(PlainSteps(Present))
    BY <1>1 DEF free
  <2> QED
    BY <2>1, <2>2, RangeOfAppend
<1>6. n \in DOMAIN Named /\ Named[n].comp = rigs[n].xml.comp /\ RigNames(Named)
  BY <1>1, NamedFacts
<1> DEFINE T == Range(op'.todo)
<1>7. T = Range(star) \cup {Assign(Named[n].comp[k], None) : k \in Kinds} \cup {Trash(n)}
  BY <1>4, <1>5, <1>6
<1> HIDE DEF T
<1>8. Settled(Named, comp, T)
  BY <1>2, <1>3, <1>6, <1>7, DeleteSettled
<1> QED
  BY <1>1, <1>8, StartQuiet DEF T

LEMMA CreateStart ==
  ASSUME FleetTyped, RefsInv, faults = 0, NEW r \in RigIds, NEW n \in Nicknames,
         NEW refs \in Refs, CreateRig(r, n, refs)
  PROVE  RefsInv'
<1>1. PICK d \in Rigs :
        /\ d.id = r /\ d.comp = refs /\ d.star = (ValidFolders = {})
        /\ op'.h = "create" /\ op'.rig = r
        /\ op'.todo = <<[do |-> "mkdir", at |-> n]>>
                        \o (<<WriteXml(n, d)>> \o (<<WriteSums(n)>> \o AssignAll(d, r)))
        /\ <<WriteSums(n)>> \o AssignAll(d, r) \in Seq(PlainSteps({n}))
        /\ <<WriteXml(n, d)>> \o (<<WriteSums(n)>> \o AssignAll(d, r))
             \in Seq(PlainSteps({n}))
        /\ Started
  BY CreateRigFits
<1> DEFINE A == AssignAll(d, r)
           rest == <<WriteSums(n)>> \o A
           plan == <<WriteXml(n, d)>> \o rest
           x == Names(d)
<1>2. x.id = r /\ x.comp = refs
  BY <1>1 DEF Names
<1>3. A \in Seq(PlainSteps({n})) /\ Range(A) = {Assign(x.comp[k], x.id) : k \in Kinds}
  <2>1. d.comp \in Refs /\ r \in RigIds \cup {None} /\ x.comp = d.comp /\ x.id = r
    BY <1>1, <1>2
  <2> HIDE DEF x
  <2>2. A \in Seq(PlainSteps({n})) /\ Range(A) = {Assign(d.comp[k], r) : k \in Kinds}
    BY <2>1, AssignsPlain
  <2> QED
    BY <2>1, <2>2
<1>4. WriteXml(n, d).do = "xml" /\ WriteXml(n, d).at = n /\ WriteXml(n, d).doc = d
      /\ WriteSums(n).do = "sums"
  BY DEF WriteXml, WriteSums
<1>5. Settled(Named, comp, {})
  BY <1>1, RestSettled DEF Started
<1>6. n \notin DOMAIN Named /\ RigNames(Named)
  BY NamedFacts DEF CreateRig, ValidFolders, Valid
<1>7. \A m \in DOMAIN Named : Named[m].id # x.id
  BY <1>2, NamedFacts DEF CreateRig, Fresh
<1>8. \A k \in Kinds : LiveIn(comp, x.comp[k]) /\ comp[x.comp[k]].rig \in {None, x.id}
  BY <1>2 DEF CreateRig, Usable, Live, LiveIn
<1> HIDE DEF A, x
<1>9. Head(rest) = WriteSums(n) /\ Tail(rest) = A /\ rest # <<>>
  BY <1>3, ConsParts
<1>10. rest \in Seq(PlainSteps({n})) /\ plan \in Seq(PlainSteps({n}))
  BY <1>1 DEF A
<1> HIDE DEF rest
<1>11. Range(rest) = {WriteSums(n)} \cup {Assign(x.comp[k], x.id) : k \in Kinds}
  BY <1>3, <1>9, <1>10, RangeHeadTail
<1>12. Settled(With(Named, n, x), comp, Range(rest))
  <2> DEFINE s == WriteSums(n)
             T == Range(rest)
  <2>1. T = {s} \cup {Assign(x.comp[k], x.id) : k \in Kinds} /\ s.do = "sums"
    BY <1>4, <1>11
  <2>2. x.id \in RigIds /\ x.comp \in Refs
    BY <1>2
  <2> HIDE DEF s, T
  <2>3. Settled(With(Named, n, x), comp, T)
    BY <1>5, <1>6, <1>7, <1>8, <2>1, <2>2, CreateSettled
  <2> QED
    BY <2>3 DEF T
<1>13. Head(plan) = WriteXml(n, d) /\ Tail(plan) = rest /\ plan # <<>>
  BY <1>10, ConsParts
<1>14. Opening(plan)
  BY <1>4, <1>12, <1>13 DEF Opening, x
<1> HIDE DEF plan
<1>15. Head(op'.todo).do = "mkdir" /\ Tail(op'.todo) = plan /\ op'.todo # <<>>
  <2>1. op'.todo = <<[do |-> "mkdir", at |-> n]>> \o plan
    BY <1>1 DEF plan, rest, A
  <2> QED
    BY <1>10, <2>1, ConsParts
<1>16. Named' = Named /\ comp' = comp /\ op' # None
  BY <1>1, Unmoved, NoneAssumption DEF Started
<1>17. Opening(plan)'
  BY <1>14, <1>16 DEF Opening
<1>18. Pending'
  BY <1>5, <1>15, <1>16, <1>17 DEF Pending, Opening
<1> QED
  BY <1>18 DEF RefsInv

LEMMA SwapStart ==
  ASSUME FleetTyped, RefsInv, faults = 0, NEW r \in RigIds, NEW n \in Nicknames,
         NEW m \in Comps, KindOf[m] = "main", SwapMain(r, n, m)
  PROVE  RefsInv'
<1> DEFINE old == rigs[n].xml.comp["main"]
           rest == <<WriteSums(n), Assign(old, None), Assign(m, r)>>
<1>1. n \in ValidFolders /\ rigs[n].xml.id = r /\ old \in Comps /\ Started
  BY SwapMainFits
<1>2. \/ op'.todo = <<>>
      \/ /\ m # old /\ Usable(m, r)
         /\ \E d \in Rigs :
              /\ d.id = r /\ d.comp = [rigs[n].xml.comp EXCEPT !["main"] = m]
              /\ ~d.star
              /\ op'.todo = <<WriteXml(n, d)>> \o rest
              /\ rest \in Seq(PlainSteps(Present))
  BY SwapMainFits
<1>3. Settled(Named, comp, {})
  BY <1>1, RestSettled DEF Started
<1>4. CASE op'.todo = <<>>
  BY <1>1, <1>3, <1>4, NothingComes, StartQuiet
<1>5. ASSUME m # old, Usable(m, r), NEW d \in Rigs,
             d.id = r, d.comp = [rigs[n].xml.comp EXCEPT !["main"] = m],
             op'.todo = <<WriteXml(n, d)>> \o rest, rest \in Seq(PlainSteps(Present))
      PROVE  RefsInv'
  <2> DEFINE x == Names(d)
             s == WriteSums(n)
             plan == <<WriteXml(n, d)>> \o rest
             T == {s, Assign(old, None), Assign(m, r)}
  <2>1. /\ n \in DOMAIN Named /\ Named[n].id = r /\ Named[n].comp = rigs[n].xml.comp
        /\ RigNames(Named)
    BY <1>1, NamedFacts
  <2>2. x.id = Named[n].id /\ x.comp = [Named[n].comp EXCEPT !["main"] = m]
    BY <1>5, <2>1 DEF Names
  <2>3. LiveIn(comp, m) /\ comp[m].rig \in {None, Named[n].id} /\ m # Named[n].comp["main"]
    BY <1>5, <2>1 DEF Usable, Live, LiveIn
  <2>4. s.do = "sums" /\ T = {s, Assign(Named[n].comp["main"], None), Assign(m, Named[n].id)}
    BY <2>1 DEF WriteSums
  <2> HIDE DEF x, s, T
  <2>5. Settled(With(Named, n, x), comp, T)
    BY <1>3, <2>1, <2>2, <2>3, <2>4, SwapSettled
  <2>6. Range(rest) = T
    <3>1. DOMAIN rest = 1..3 /\ rest[1] = s /\ rest[2] = Assign(old, None) /\ rest[3] = Assign(m, r)
      BY DEF s
    <3> HIDE DEF rest
    <3>2. 1..3 = {1, 2, 3}
      OBVIOUS
    <3>3. Range(rest) = {rest[1], rest[2], rest[3]}
      BY <3>1, <3>2 DEF Range
    <3> QED
      BY <3>1, <3>3 DEF T
  <2> HIDE DEF rest
  <2>7. Head(plan) = WriteXml(n, d) /\ Tail(plan) = rest /\ plan # <<>>
    BY <1>5, ConsParts
  <2>8. WriteXml(n, d).do = "xml" /\ WriteXml(n, d).at = n /\ WriteXml(n, d).doc = d
    BY DEF WriteXml
  <2>9. PICK t : t = plan
    OBVIOUS
  <2>10. Opening(t) /\ op'.todo = t /\ t # <<>>
    BY <1>5, <2>5, <2>6, <2>7, <2>8, <2>9 DEF Opening, x
  <2>11. Named' = Named /\ comp' = comp /\ op' # None
    BY <1>1, Unmoved, NoneAssumption DEF Started
  <2>12. Opening(t)'
    BY <2>10, <2>11 DEF Opening
  <2>13. Pending'
    BY <1>3, <2>10, <2>11, <2>12 DEF Pending, Opening
  <2> QED
    BY <2>13 DEF RefsInv
<1> QED
  BY <1>2, <1>4, <1>5

\* The component services, between two requests on rigs.
LEMMA ServiceStart ==
  ASSUME FleetTyped, RefsInv, faults = 0, NEW c \in Comps, NEW s \in {"active", "retired"},
         CreateComponent(c, s) \/ UpdateComponent(c, s) \/ DeleteComponent(c)
  PROVE  RefsInv'
<1>1. op = None /\ op' = op /\ rigs' = rigs
  BY DEF CreateComponent, UpdateComponent, DeleteComponent, Idle
<1>2. Settled(Named, comp, {}) /\ Named' = Named /\ RigNames(Named)
  BY <1>1, RestSettled, NamedFacts DEF Named, ValidFolders, Valid
<1>3. comp \in [Comps -> Parts \cup {None}]
  BY DEF FleetTyped, TypeOK
<1>4. \E p \in Parts :
        /\ comp' = [comp EXCEPT ![c] = p]
        /\ comp[c] # None => p.rig = comp[c].rig
        /\ p.status # "trashed" => LiveIn(comp, c) \/ p.rig = None
  <2>1. CASE CreateComponent(c, s)
    <3>1. [status |-> s, rig |-> None] \in Parts
      BY DEF Parts
    <3> QED
      BY <2>1, <3>1 DEF CreateComponent
  <2>2. ASSUME NEW q \in {"active", "retired", "trashed"}, Live(c),
               comp' = [comp EXCEPT ![c].status = q]
        PROVE  \E p \in Parts :
                 /\ comp' = [comp EXCEPT ![c] = p]
                 /\ comp[c] # None => p.rig = comp[c].rig
                 /\ p.status # "trashed" => LiveIn(comp, c) \/ p.rig = None
    <3> DEFINE p == [comp[c] EXCEPT !.status = q]
    <3>1. comp[c] \in Parts /\ LiveIn(comp, c)
      BY <1>3, <2>2 DEF Live, LiveIn
    <3>2. p \in Parts /\ p.rig = comp[c].rig
      BY <3>1 DEF Parts
    <3>3. comp' = [comp EXCEPT ![c] = p]
      BY <2>2
    <3> HIDE DEF p
    <3> QED
      BY <3>1, <3>2, <3>3
  <2> QED
    BY <2>1, <2>2 DEF UpdateComponent, DeleteComponent
<1>5. PICK p \in Parts :
        /\ comp' = [comp EXCEPT ![c] = p]
        /\ comp[c] # None => p.rig = comp[c].rig
        /\ p.status # "trashed" => LiveIn(comp, c) \/ p.rig = None
  BY <1>4
<1>6. p # None /\ \A e \in Comps : comp'[e] = IF e = c THEN p ELSE comp[e]
  BY <1>3, <1>5, NoneAssumption
<1>7. \A e \in Comps : /\ comp[e] # None => comp'[e] # None /\ comp'[e].rig = comp[e].rig
                       /\ LiveIn(comp', e) => LiveIn(comp, e) \/ comp'[e].rig = None
  BY <1>5, <1>6 DEF LiveIn
<1> DEFINE B == comp'
<1>8. Settled(Named, B, {})
  <2>1. \A e \in Comps : /\ comp[e] # None => B[e] # None /\ B[e].rig = comp[e].rig
                         /\ LiveIn(B, e) => LiveIn(comp, e) \/ B[e].rig = None
    BY <1>7
  <2> HIDE DEF B
  <2> QED
    BY <1>2, <2>1, ServiceSettled
<1>9. Quiet'
  BY <1>1, <1>2, <1>8 DEF Quiet, Coming
<1> QED
  BY <1>9 DEF RefsInv

LEMMA RefsRequest ==
  ASSUME FleetTyped, RefsInv, Request
  PROVE  RefsInv'
<1>1. faults' = faults
  BY DEF Request, CreateRig, UpdateRig, SetStar, DeleteRig, SwapMain, ReorderRigs,
         CreateComponent, UpdateComponent, DeleteComponent
<1>2. CASE faults # 0
  BY <1>1, <1>2 DEF RefsInv
<1>3. CASE faults = 0
  <2>1. ASSUME NEW r \in RigIds, NEW n \in Nicknames, NEW refs \in Refs, CreateRig(r, n, refs)
        PROVE  RefsInv'
    BY <1>3, <2>1, CreateStart
  <2>2. ASSUME NEW r \in RigIds, NEW n \in Nicknames, NEW to \in Nicknames, UpdateRig(r, n, to)
        PROVE  RefsInv'
    BY <1>3, <2>2, UpdateStart
  <2>3. ASSUME NEW r \in RigIds, NEW n \in Nicknames, SetStar(r, n) PROVE RefsInv'
    BY <1>3, <2>3, SetStarFits, CalmStart
  <2>4. ASSUME NEW r \in RigIds, NEW n \in Nicknames, DeleteRig(r, n) PROVE RefsInv'
    BY <1>3, <2>4, DeleteStart
  <2>5. ASSUME NEW r \in RigIds, NEW n \in Nicknames, NEW m \in Comps, KindOf[m] = "main",
               SwapMain(r, n, m)
        PROVE  RefsInv'
    BY <1>3, <2>5, SwapStart
  <2>6. ASSUME NEW ns \in SetToSeqs(ValidFolders), ReorderRigs(ns) PROVE RefsInv'
    BY <1>3, <2>6, ReorderRigsFits, CalmStart
  <2>7. ASSUME NEW c \in Comps, NEW s \in {"active", "retired"},
               CreateComponent(c, s) \/ UpdateComponent(c, s) \/ DeleteComponent(c)
        PROVE  RefsInv'
    BY <1>3, <2>7, ServiceStart
  <2> QED
    BY <2>1, <2>2, <2>3, <2>4, <2>5, <2>6, <2>7 DEF Request
<1> QED
  BY <1>2, <1>3

-----------------------------------------------------------------------------
(* The steps of a plan.                                                      *)

\* The next step, while no step attaches, detaches, moves or trashes.
LEMMA QuietStepSettled ==
  ASSUME FleetTyped, Quiet, NEW do, do \notin {"assign", "trash"}, Doing(do), Proceed
  PROVE  Settled(Named, comp, Range(op'.todo)) /\ op' # None /\ It \in Coming /\ It.do = do
<1>1. /\ op # None /\ op' # None /\ It.do = do
      /\ Range(op.todo) = {It} \cup Range(op'.todo)
  BY StepShape
<1>2. Settled(Named, comp, {It} \cup Range(op'.todo)) /\ It \in Coming
  BY <1>1 DEF Quiet, Coming
<1> DEFINE T == Range(op'.todo)
           s == It
<1>3. s.do \notin {"assign", "trash"} /\ Settled(Named, comp, {s} \cup T)
  BY <1>1, <1>2
<1> HIDE DEF T, s
<1>4. Settled(Named, comp, T)
  BY <1>3, CalmStepSettled
<1> QED
  BY <1>1, <1>2, <1>4 DEF T

LEMMA QuietSound ==
  ASSUME Quiet, NEW s \in Coming
  PROVE  /\ s.do # "mkdir"
         /\ s.do = "xml" => s.at \in DOMAIN Named /\ Names(s.doc) = Named[s.at]
         /\ s.do = "rename" => /\ s.at \in DOMAIN Named /\ s.to \notin DOMAIN Named
                               /\ \A x \in Coming : x.do \notin {"assign", "trash"}
  BY DEF Quiet, Settled, Sound

\* What is pending comes to a step that writes a rig.xml, or makes its folder.
LEMMA PendingStep ==
  ASSUME FleetTyped, Pending, NEW do, Doing(do), Proceed
  PROVE  /\ do \in {"xml", "mkdir"} /\ op'.todo = Tail(op.todo) /\ op' # None
         /\ do = "xml" => Settled(With(Named, It.at, Names(It.doc)), comp, Range(op'.todo))
         /\ do = "mkdir" => Opening(op'.todo)
<1>1. /\ op # None /\ op' # None /\ It.do = do /\ It = Head(op.todo)
      /\ op'.todo = Tail(op.todo)
  BY StepShape
<1>2. CASE Opening(op.todo)
  BY <1>1, <1>2 DEF Opening
<1>3. CASE Head(op.todo).do = "mkdir" /\ Opening(Tail(op.todo))
  BY <1>1, <1>3
<1> QED
  BY <1>2, <1>3 DEF Pending

LEMMA RefsMake ==
  ASSUME FleetTyped, Quiet \/ Pending, MakeFolder
  PROVE  Pending'
<1>1. Doing("mkdir") /\ Proceed /\ comp' = comp
  BY DEF MakeFolder
<1>2. Pending
  <2>1. ASSUME Quiet PROVE FALSE
    BY <1>1, <2>1, QuietStepSettled, QuietSound
  <2> QED
    BY <2>1
<1>3. Opening(op'.todo) /\ op' # None
  BY <1>1, <1>2, PendingStep
<1>4. Named' = Named
  <2>1. ValidFolders' = ValidFolders /\ \A n \in ValidFolders : rigs'[n] = rigs[n]
    BY FolderMade
  <2> QED
    BY <2>1 DEF Named
<1> QED
  BY <1>1, <1>2, <1>3, <1>4 DEF Pending, Opening

LEMMA RefsXml ==
  ASSUME FleetTyped, Quiet \/ Pending, WriteRigXml
  PROVE  Quiet'
<1>1. Doing("xml") /\ Proceed /\ comp' = comp
  BY DEF WriteRigXml
<1> DEFINE n == It.at
           d == It.doc
<1>2. /\ ValidFolders' = ValidFolders \cup {n} /\ rigs'[n].xml = d
      /\ \A m \in Nicknames \ {n} : rigs'[m] = rigs[m]
  BY XmlWritten
<1> HIDE DEF n, d
<1>3. Named' = With(Named, n, Names(d))
  <2>1. Named' = [m \in ValidFolders' |-> Names(rigs'[m].xml)]
    BY DEF Named
  <2>2. DOMAIN Named = ValidFolders /\ \A m \in ValidFolders : Named[m] = Names(rigs[m].xml)
    BY NamedFacts
  <2>3. \A m \in ValidFolders' : Names(rigs'[m].xml) = IF m = n THEN Names(d) ELSE Named[m]
    <3> SUFFICES ASSUME NEW m \in ValidFolders'
                 PROVE  Names(rigs'[m].xml) = IF m = n THEN Names(d) ELSE Named[m]
      OBVIOUS
    <3>1. CASE m = n
      BY <1>2, <3>1
    <3>2. CASE m # n
      <4>1. m \in ValidFolders /\ m \in Nicknames
        BY <1>2, <3>2, FoldersPresent
      <4> QED
        BY <1>2, <2>2, <3>2, <4>1
    <3> QED
      BY <3>1, <3>2
  <2> QED
    BY <1>2, <2>1, <2>2, <2>3 DEF With
<1>4. CASE Quiet
  <2>1. Settled(Named, comp, Range(op'.todo)) /\ op' # None /\ It \in Coming /\ It.do = "xml"
    BY <1>1, <1>4, QuietStepSettled
  <2>2. n \in DOMAIN Named /\ Names(d) = Named[n]
    BY <1>4, <2>1, QuietSound DEF n, d
  <2>3. With(Named, n, Names(d)) = Named
    <3>1. Named = [m \in DOMAIN Named |-> Named[m]]
      BY DEF Named
    <3> QED
      BY <2>2, <3>1 DEF With
  <2>4. Named' = Named
    BY <1>3, <2>3
  <2> QED
    BY <1>1, <2>1, <2>4 DEF Quiet, Coming
<1>5. CASE Pending
  <2>1. op' # None /\ Settled(With(Named, n, Names(d)), comp, Range(op'.todo))
    BY <1>1, <1>5, PendingStep DEF n, d
  <2> QED
    BY <1>1, <1>3, <2>1 DEF Quiet, Coming
<1> QED
  BY <1>4, <1>5

\* Only a quiet plan comes to any other step.
LEMMA OtherStep ==
  ASSUME FleetTyped, Quiet \/ Pending, NEW do, do \notin {"xml", "mkdir"}, Doing(do), Proceed
  PROVE  Quiet
  BY PendingStep

LEMMA RefsSums ==
  ASSUME FleetTyped, Quiet \/ Pending, WriteRigSums
  PROVE  Quiet'
<1>1. Doing("sums") /\ Proceed /\ comp' = comp
  BY DEF WriteRigSums
<1>2. Settled(Named, comp, Range(op'.todo)) /\ op' # None
  BY <1>1, OtherStep, QuietStepSettled
<1>3. Named' = Named
  <2>1. ValidFolders' = ValidFolders /\ \A n \in ValidFolders : rigs'[n].xml = rigs[n].xml
    BY SumsWritten
  <2> QED
    BY <2>1 DEF Named
<1> QED
  BY <1>1, <1>2, <1>3 DEF Quiet, Coming

LEMMA RefsRename ==
  ASSUME FleetTyped, Quiet \/ Pending, RenameRig
  PROVE  Quiet'
<1>1. Doing("rename") /\ Proceed /\ comp' = comp
  BY DEF RenameRig
<1>2. Quiet
  BY <1>1, OtherStep
<1>3. /\ op # None /\ op' # None /\ It.do = "rename" /\ op'.todo = <<>>
      /\ Range(op.todo) = {It} \cup Range(op'.todo)
  BY <1>1, StepShape, RigRenamed
<1>4. Settled(Named, comp, {It}) /\ It \in Coming
  BY <1>2, <1>3, NothingComes DEF Quiet, Coming
<1> DEFINE n == It.at
           m == It.to
<1>5. n \in DOMAIN Named /\ m \notin DOMAIN Named /\ m # n
  BY <1>2, <1>3, <1>4, QuietSound
<1>6. /\ n \in Nicknames /\ m \in Nicknames /\ rigs'[n] = None /\ rigs'[m] = rigs[n]
      /\ \A x \in Nicknames \ {n, m} : rigs'[x] = rigs[x]
  BY <1>5, RigRenamed
<1> HIDE DEF n, m
<1>7. n \in ValidFolders /\ m \notin ValidFolders
  BY <1>5, NamedFacts
<1>8. ValidFolders' = (ValidFolders \ {n}) \cup {m}
  BY <1>5, <1>6, <1>7 DEF ValidFolders, Valid
<1>9. \A x \in ValidFolders' : Named'[x] = Names(rigs'[x].xml)
  BY DEF Named
<1>10. /\ DOMAIN Named' = (DOMAIN Named \ {n}) \cup {m} /\ Named'[m] = Named[n]
       /\ \A x \in DOMAIN Named \ {n} : Named'[x] = Named[x]
  <2>1. DOMAIN Named' = ValidFolders'
    BY DEF Named
  <2>2. \A x \in ValidFolders : x \in Nicknames
    BY DEF ValidFolders
  <2> QED
    BY <1>5, <1>6, <1>7, <1>8, <1>9, <2>1, <2>2, NamedFacts
<1>11. Settled(Named', comp, {})
  <2> DEFINE M == Named'
             s == It
  <2>1. /\ DOMAIN M = (DOMAIN Named \ {n}) \cup {m} /\ M[m] = Named[n]
        /\ \A x \in DOMAIN Named \ {n} : M[x] = Named[x]
        /\ s.do = "rename" /\ Settled(Named, comp, {s})
    BY <1>3, <1>4, <1>10
  <2> HIDE DEF M, s
  <2>2. Settled(M, comp, {})
    BY <1>5, <2>1, RenameSettled
  <2> QED
    BY <2>2 DEF M
<1> QED
  BY <1>1, <1>3, <1>11, NothingComes DEF Quiet, Coming

LEMMA RefsTrash ==
  ASSUME FleetTyped, Quiet \/ Pending, TrashRig
  PROVE  Quiet'
<1>1. Doing("trash") /\ Proceed /\ comp' = comp
  BY DEF TrashRig
<1>2. Quiet
  BY <1>1, OtherStep
<1> DEFINE n == It.at
<1>3. /\ op # None /\ op' # None /\ It = Trash(n) /\ op'.todo = <<>>
      /\ Range(op.todo) = {It} \cup Range(op'.todo)
  BY <1>1, StepShape, RigTrashed DEF Trash
<1>4. Settled(Named, comp, {Trash(n)})
  BY <1>2, <1>3, NothingComes DEF Quiet, Coming
<1>5. /\ n \in ValidFolders /\ rigs'[n] = None
      /\ \A x \in Nicknames \ {n} : rigs'[x] = rigs[x]
  BY RigTrashed
<1> HIDE DEF n
<1>6. ValidFolders' = ValidFolders \ {n}
  BY <1>5 DEF ValidFolders, Valid
<1>7. DOMAIN Named' = DOMAIN Named \ {n} /\ \A x \in DOMAIN Named' : Named'[x] = Named[x]
  <2>1. DOMAIN Named' = ValidFolders' /\ \A x \in ValidFolders' : Named'[x] = Names(rigs'[x].xml)
    BY DEF Named
  <2>2. \A x \in ValidFolders : x \in Nicknames
    BY DEF ValidFolders
  <2> QED
    BY <1>5, <1>6, <2>1, <2>2, NamedFacts
<1>8. Settled(Named', comp, {})
  <2> DEFINE M == Named'
  <2>1. DOMAIN M = DOMAIN Named \ {n} /\ (\A x \in DOMAIN M : M[x] = Named[x]) /\ n \in DOMAIN Named
    BY <1>5, <1>7, NamedFacts
  <2> HIDE DEF M
  <2>2. Settled(M, comp, {})
    BY <1>4, <2>1, TrashSettled
  <2> QED
    BY <2>2 DEF M
<1> QED
  BY <1>1, <1>3, <1>8, NothingComes DEF Quiet, Coming

LEMMA RefsAssign ==
  ASSUME FleetTyped, Quiet \/ Pending, AssignComponent
  PROVE  Quiet'
<1>1. Doing("assign") /\ Proceed /\ rigs' = rigs
  BY DEF AssignComponent
<1>2. Quiet
  BY <1>1, OtherStep
<1> DEFINE c == It.part
           r == It.to
           T == Range(op'.todo)
           B == comp'
<1>3. /\ op # None /\ op' # None /\ Range(op.todo) = {It} \cup T
  BY <1>1, StepShape
<1>4. /\ c \in Comps /\ r \in RigIds \cup {None} /\ It = Assign(c, r)
      /\ \A e \in Comps : B[e] = IF e = c /\ LiveIn(comp, e)
                                 THEN [status |-> comp[e].status, rig |-> r] ELSE comp[e]
  BY PartAssigned DEF Live, LiveIn
<1>5. Settled(Named, comp, {Assign(c, r)} \cup T)
  BY <1>2, <1>3, <1>4 DEF Quiet, Coming
<1>6. comp \in [Comps -> Parts \cup {None}] /\ RigNames(Named)
  BY NamedFacts DEF FleetTyped, TypeOK
<1> HIDE DEF c, r, T, B
<1>7. Settled(Named, B, T)
  BY <1>4, <1>5, <1>6, AssignSettled
<1>8. Named' = Named
  BY <1>1 DEF Named, ValidFolders, Valid
<1> QED
  BY <1>3, <1>7, <1>8 DEF Quiet, Coming, B, T

LEMMA RefsPerform ==
  ASSUME FleetTyped, RefsInv, Perform
  PROVE  RefsInv'
<1>1. faults' = faults
  BY DEF Perform, MakeFolder, WriteRigXml, WriteRigSums, RenameRig, AssignComponent, TrashRig, Finish
<1>2. CASE faults # 0
  BY <1>1, <1>2 DEF RefsInv
<1>3. CASE faults = 0
  <2>1. Quiet \/ Pending
    BY <1>3 DEF RefsInv
  <2>2. CASE Finish
    <3>1. /\ op # None /\ op.todo = <<>> /\ op' = None /\ comp' = comp /\ Named' = Named
      BY <2>2 DEF Finish, Named, ValidFolders, Valid
    <3>2. Settled(Named, comp, {})
      BY <2>1, <3>1, NothingComes DEF Quiet, Pending, Coming
    <3>3. Quiet'
      BY <3>1, <3>2 DEF Quiet, Coming
    <3> QED
      BY <3>3 DEF RefsInv
  <2> QED
    BY <2>1, <2>2, RefsMake, RefsXml, RefsSums, RefsRename, RefsAssign, RefsTrash
    DEF RefsInv, Perform
<1> QED
  BY <1>2, <1>3

\* While rigs and components agree, the boot pass changes nothing.
LEMMA PassIdle ==
  ASSUME FleetTyped, Settled(Named, comp, {}), NEW c \in Comps, ReconcileComponent(c)
  PROVE  comp' = comp
<1>1. Live(c) /\ comp[c] \in Parts
  BY DEF ReconcileComponent, FleetTyped, TypeOK, Live
<1>2. KindOf[c] \in Kinds
  BY KindAssumption
<1>3. Expected(c) = comp[c].rig
  <2>1. CASE Claims(c) = {}
    <3>1. ASSUME comp[c].rig # None PROVE FALSE
      <4>1. Keeps(Named, {}, c, comp[c].rig)
        BY <1>1, <3>1 DEF Settled, Claimed, Live, LiveIn
      <4> QED
        BY <2>1, <4>1, NamedFacts DEF Keeps, Claims
    <3> QED
      BY <2>1, <3>1 DEF Expected
  <2>2. CASE Claims(c) # {}
    <3>1. PICK n \in Claims(c) : Expected(c) = rigs[n].xml.id
      BY <2>2 DEF Expected
    <3>2. n \in DOMAIN Named /\ Named[n].comp[KindOf[c]] = c /\ Named[n].id = Expected(c)
      BY <3>1, NamedFacts DEF Claims
    <3> QED
      BY <1>2, <3>2 DEF Settled, Owned
  <2> QED
    BY <2>1, <2>2
<1>4. [comp EXCEPT ![c].rig = Expected(c)] = comp
  <2> DEFINE p == [comp[c] EXCEPT !.rig = Expected(c)]
  <2>1. p = comp[c]
    BY <1>1, <1>3 DEF Parts
  <2>2. [comp EXCEPT ![c].rig = Expected(c)] = [comp EXCEPT ![c] = p]
    OBVIOUS
  <2>3. comp \in [Comps -> Parts \cup {None}]
    BY DEF FleetTyped, TypeOK
  <2> HIDE DEF p
  <2> QED
    BY <2>1, <2>2, <2>3
<1> QED
  BY <1>4 DEF ReconcileComponent

LEMMA RefsRestart ==
  ASSUME FleetTyped, RefsInv, Restart \/ HandlerFails \/ Crash \/ Quit \/ UNCHANGED vars
  PROVE  RefsInv'
<1>1. CASE UNCHANGED <<rigs, comp, op, faults>>
  <2>1. Named' = Named /\ Coming' = Coming
    BY <1>1 DEF Named, ValidFolders, Valid, Coming
  <2>2. \A t : Opening(t) => Opening(t)'
    BY <1>1, <2>1 DEF Opening
  <2>3. Quiet' = Quiet
    BY <1>1, <2>1 DEF Quiet
  <2>4. Pending => Pending'
    BY <1>1, <2>1, <2>2 DEF Pending, Opening
  <2> QED
    BY <1>1, <2>3, <2>4 DEF RefsInv
<1>2. CASE faults' = faults + 1
  <2>1. faults' # 0
    BY <1>2 DEF FleetTyped, TypeOK
  <2> QED
    BY <2>1 DEF RefsInv
<1>3. ASSUME NEW c \in Comps, ReconcileComponent(c) PROVE RefsInv'
  <2>1. op = None /\ op' = None /\ faults' = faults /\ rigs' = rigs
    BY <1>3 DEF ReconcileComponent, FleetTyped
  <2>2. CASE faults = 0
    <3>1. comp' = comp
      BY <1>3, <2>1, <2>2, RestSettled, PassIdle
    <3> QED
      BY <1>1, <2>1, <3>1
  <2> QED
    BY <2>1, <2>2 DEF RefsInv
<1> QED
  BY <1>1, <1>2, <1>3 DEF Restart, Boot, ReconcileDone, ReconcileFails, HandlerFails, Crash, Quit, vars

LEMMA RefsInit == Init => RefsInv
<1> SUFFICES ASSUME Init PROVE RefsInv
  OBVIOUS
<1>1. ValidFolders = {} /\ Coming = {} /\ \A c \in Comps : comp[c] = None
  BY DEF Init, ValidFolders, Valid, Coming
<1>2. DOMAIN Named = {}
  BY <1>1 DEF Named
<1>3. Quiet
  BY <1>1, <1>2 DEF Quiet, Settled, Apart, Owned, Claimed, LiveIn, Attaches, Detaches, Sound
<1> QED
  BY <1>3 DEF RefsInv

LEMMA RefsNext ==
  ASSUME FleetTyped, RefsInv, [Next]_vars
  PROVE  RefsInv'
  BY RefsRequest, RefsPerform, RefsRestart DEF Next

\* D37: when no handler runs and none has been stopped half-way, every rig and
\* its components name each other.
LEMMA RestAgrees == FleetTyped /\ RefsInv => RefsAgree
<1> SUFFICES ASSUME FleetTyped, RefsInv, op = None, faults = 0 PROVE RefsAgree
  BY DEF RefsAgree
<1>1. Settled(Named, comp, {})
  BY RestSettled
<1>2. \A n \in ValidFolders, k \in Kinds : comp[rigs[n].xml.comp[k]].rig = rigs[n].xml.id
  BY <1>1, NamedFacts DEF Settled, Owned
<1>3. ASSUME NEW c \in Comps, Live(c), comp[c].rig # None
      PROVE  \E n \in Claims(c) : IsAt(comp[c].rig, n)
  <2>1. Keeps(Named, {}, c, comp[c].rig)
    BY <1>1, <1>3 DEF Settled, Claimed, Live, LiveIn
  <2>2. PICK n \in DOMAIN Named : Named[n].comp[KindOf[c]] = c /\ Named[n].id = comp[c].rig
    BY <2>1 DEF Keeps
  <2> QED
    BY <2>2, NamedFacts DEF Claims, IsAt, ValidFolders
<1> QED
  BY <1>2, <1>3 DEF RefsAgree


-----------------------------------------------------------------------------
(* What the plan at work does to the stars and to the order of the rigs.     *)

Writes(s) == s.do = "xml"

\* create_rig, update_rig, swap_main: no star, or the only one.
Modest(T) ==
    \/ \A s \in T : Writes(s) => ~s.doc.star
    \/ \E n \in Nicknames : Starred \subseteq {n} /\ \A s \in T : Writes(s) /\ s.doc.star => s.at = n

\* Every rig of S but n is written, before n is.
Cleared(t, n, S) ==
    \A m \in S \ {n} : \E i \in 1..Len(t) :
        /\ Writes(t[i]) /\ t[i].at = m
        /\ \A j \in 1..i : ~(Writes(t[j]) /\ t[j].at = n)

\* set_star of rig r: every other star is cleared before the target is stamped.
Repairing(r, t) ==
    \E n \in ValidFolders :
        /\ IsAt(r, n)
        /\ \A s \in Range(t) : s.do \in {"xml", "sums"}
        /\ \A s \in Range(t) : Writes(s) =>
              IF s.at = n THEN s.doc.star /\ s.doc.id = r ELSE ~s.doc.star
        /\ n \in Starred \/ \E s \in Range(t) : Writes(s) /\ s.at = n
        /\ Cleared(t, n, Starred)

\* reorder_rigs: a rig is in its place, or is about to be written there.
Numbering(T) ==
    \E ns \in SetToSeqs(ValidFolders) :
        /\ \A s \in T : s.do \in {"xml", "sums"}
        /\ \A s \in T : Writes(s) =>
              /\ s.at \in ValidFolders /\ s.doc.star = (s.at \in Starred)
              /\ s.doc.order = Position(ns, s.at)
        /\ \A n \in ValidFolders :
              rigs[n].xml.order = Position(ns, n) \/ \E s \in T : Writes(s) /\ s.at = n

\* delete_rig: the successor has the star before the rig goes.
Succeeding(T) ==
    \E n \in Nicknames :
        /\ \A s \in T : /\ s.do \notin {"mkdir", "rename"}
                        /\ s.do = "trash" => s.at = n
                        /\ Writes(s) => s.at \in ValidFolders \ {n} /\ s.doc.star
        /\ \/ n \notin Starred
           \/ ValidFolders \subseteq {n}
           \/ Starred \ {n} # {}
           \/ \E s \in T : Writes(s)

StarsInv ==
    op # None =>
        /\ op.h \in {"create", "update", "swap"} => Modest(Range(op.todo))
        /\ op.h = "star" => Repairing(op.rig, op.todo)
        /\ op.h = "reorder" => Numbering(Range(op.todo))
        /\ op.h = "delete" => Succeeding(Range(op.todo))

\* _write_rig_folder over the folders S, one after the other.
LEMMA WritesList ==
  ASSUME NEW S \in SUBSET Nicknames, NEW ns \in SetToSeqs(S), NEW docs, NEW D,
         \A n \in S : WriteXml(n, docs[n]) \in D /\ WriteSums(n) \in D
  PROVE  LET t == WriteRigs(ns, docs) IN
         /\ t \in Seq(D)
         /\ \A s \in Range(t) : \E n \in S : s = WriteXml(n, docs[n]) \/ s = WriteSums(n)
         /\ \A n \in S : \E j \in 1..Len(t) : t[j] = WriteXml(n, docs[n])
<1> DEFINE t == WriteRigs(ns, docs)
           m == 2 * Len(ns)
<1>1. /\ ns \in Seq(S) /\ Len(ns) \in Nat
      /\ \A n \in S : \E j \in 1..Len(ns) : ns[j] = n
  BY OrderType
<1>2. m \in Nat /\ DOMAIN t = 1..m
  BY <1>1 DEF WriteRigs
<1>3. t \in Seq(D)
  BY WritesIn
<1>4. Len(t) = m
  BY <1>2, <1>3
<1>5. ASSUME NEW j \in 1..m
      PROVE  \E n \in S : t[j] = WriteXml(n, docs[n]) \/ t[j] = WriteSums(n)
  <2>1. (j + 1) \div 2 \in 1..Len(ns)
    BY <1>1
  <2>2. ns[(j + 1) \div 2] \in S
    BY <1>1, <2>1, ElementOfSeq
  <2>3. \/ t[j] = WriteXml(ns[(j + 1) \div 2], docs[ns[(j + 1) \div 2]])
        \/ t[j] = WriteSums(ns[(j + 1) \div 2])
    BY Zenon DEF WriteRigs
  <2> QED
    BY <2>2, <2>3
<1>6. ASSUME NEW n \in S PROVE \E j \in 1..m : t[j] = WriteXml(n, docs[n])
  <2>1. PICK i \in 1..Len(ns) : ns[i] = n
    BY <1>1
  <2> DEFINE j == 2 * i - 1
  <2>2. j \in 1..m /\ j % 2 = 1 /\ (j + 1) \div 2 = i
    BY <1>1
  <2>3. t[j] = LET x == ns[(j + 1) \div 2]
               IN  IF j % 2 = 1 THEN WriteXml(x, docs[x]) ELSE WriteSums(x)
    BY <2>2, Zenon DEF WriteRigs
  <2>4. t[j] = WriteXml(ns[i], docs[ns[i]])
    BY <2>2, <2>3, Zenon
  <2> HIDE DEF j, t
  <2> QED
    BY <2>1, <2>2, <2>4
<1> HIDE DEF t, m
<1>7. \A s \in Range(t) : \E j \in 1..m : s = t[j]
  BY <1>2 DEF Range
<1>8. \A s \in Range(t) : \E n \in S : s = WriteXml(n, docs[n]) \/ s = WriteSums(n)
  BY <1>5, <1>7
<1> QED
  BY <1>3, <1>4, <1>6, <1>8 DEF t

LEMMA WriteFields ==
  /\ \A n, d : WriteXml(n, d).do = "xml" /\ WriteXml(n, d).at = n /\ WriteXml(n, d).doc = d
  /\ \A n : WriteSums(n).do = "sums" /\ WriteSums(n).at = n
  BY DEF WriteXml, WriteSums

LEMMA RangeOfWrite ==
  ASSUME NEW n, NEW d
  PROVE  Range(WriteRig(n, d)) = {WriteXml(n, d), WriteSums(n)}
<1> DEFINE t == WriteRig(n, d)
<1>1. DOMAIN t = 1..2 /\ t[1] = WriteXml(n, d) /\ t[2] = WriteSums(n)
  BY DEF WriteRig
<1>2. 1..2 = {1, 2}
  OBVIOUS
<1> HIDE DEF t
<1>3. Range(t) = {WriteXml(n, d), WriteSums(n)}
  BY <1>1, <1>2 DEF Range
<1> QED
  BY <1>3 DEF t

LEMMA ConsRange ==
  ASSUME NEW x, NEW S, NEW s \in Seq(S)
  PROVE  <<x>> \o s \in Seq(S \cup {x}) /\ Range(<<x>> \o s) = {x} \cup Range(s)
<1> DEFINE t == <<x>> \o s
<1>1. Head(t) = x /\ Tail(t) = s /\ t # <<>>
  BY ConsParts
<1>2. t \in Seq(S \cup {x})
  <2>1. s \in Seq(S \cup {x}) /\ <<x>> \in Seq(S \cup {x})
    BY SeqMonotonic
  <2> QED
    BY <2>1, ConcatProperties
<1> HIDE DEF t
<1>3. Range(t) = {x} \cup Range(s)
  BY <1>1, <1>2, RangeHeadTail
<1> QED
  BY <1>2, <1>3 DEF t

\* What a new plan finds.
LEMMA StarsStarted ==
  ASSUME Started
  PROVE  /\ ValidFolders' = ValidFolders /\ Starred' = Starred /\ op' # None
         /\ \A n \in Nicknames : rigs'[n] = rigs[n]
  BY NoneAssumption DEF Started, Starred, ValidFolders, Valid

LEMMA ModestStart ==
  ASSUME Started, op'.h \in {"create", "update", "swap"}, Modest(Range(op'.todo))
  PROVE  StarsInv'
<1>1. Starred' = Starred
  BY StarsStarted
<1>2. PICK T : T = Range(op'.todo)
  OBVIOUS
<1>3. Modest(T)'
  BY <1>1, <1>2 DEF Modest
<1> QED
  BY <1>2, <1>3 DEF StarsInv

LEMMA CreateModest ==
  ASSUME FleetTyped, NEW r \in RigIds, NEW n \in Nicknames, NEW refs \in Refs,
         CreateRig(r, n, refs)
  PROVE  StarsInv'
<1>1. PICK d \in Rigs :
        /\ d.id = r /\ d.comp = refs /\ d.star = (ValidFolders = {})
        /\ op'.h = "create" /\ op'.rig = r
        /\ op'.todo = <<[do |-> "mkdir", at |-> n]>>
                        \o (<<WriteXml(n, d)>> \o (<<WriteSums(n)>> \o AssignAll(d, r)))
        /\ <<WriteSums(n)>> \o AssignAll(d, r) \in Seq(PlainSteps({n}))
        /\ <<WriteXml(n, d)>> \o (<<WriteSums(n)>> \o AssignAll(d, r))
             \in Seq(PlainSteps({n}))
        /\ Started
  BY CreateRigFits
<1> DEFINE A == AssignAll(d, r)
           rest == <<WriteSums(n)>> \o A
           plan == <<WriteXml(n, d)>> \o rest
           mkdir == [do |-> "mkdir", at |-> n]
           t == <<mkdir>> \o plan
<1>2. A \in Seq(PlainSteps({n})) /\ Range(A) = {Assign(d.comp[k], r) : k \in Kinds}
  BY <1>1, AssignsPlain
<1> HIDE DEF A
<1>3. Range(rest) = {WriteSums(n)} \cup Range(A)
  BY <1>2, ConsRange
<1>4. rest \in Seq(PlainSteps({n})) /\ plan \in Seq(PlainSteps({n}))
  BY <1>1 DEF A
<1> HIDE DEF rest
<1>5. Range(plan) = {WriteXml(n, d)} \cup Range(rest)
  BY <1>4, ConsRange
<1> HIDE DEF plan
<1>6. mkdir.do = "mkdir"
  OBVIOUS
<1> HIDE DEF mkdir
<1>7. Range(t) = {mkdir} \cup Range(plan)
  BY <1>4, ConsRange
<1>8. op'.todo = t
  BY <1>1 DEF plan, rest, A, mkdir
<1> HIDE DEF t
<1>9. Range(t) = {mkdir} \cup ({WriteXml(n, d)} \cup ({WriteSums(n)} \cup Range(A)))
  BY <1>3, <1>5, <1>7
<1>10. \A s \in Range(t) : Writes(s) /\ s.doc.star => s.at = n /\ ValidFolders = {}
  <2>1. d.star => ValidFolders = {}
    BY <1>1
  <2>2. \A s \in Range(t) : s.do \in {"mkdir", "assign", "sums"} \/ s = WriteXml(n, d)
    BY <1>2, <1>6, <1>9, WriteFields, StepNames
  <2> QED
    BY <2>1, <2>2, WriteFields DEF Writes
<1>11. ValidFolders = {} => Starred = {}
  BY DEF Starred
<1>12. Modest(Range(t))
  BY <1>10, <1>11 DEF Modest
<1> QED
  BY <1>1, <1>8, <1>12, ModestStart

LEMMA UpdateModest ==
  ASSUME FleetTyped, NEW r \in RigIds, NEW n \in Nicknames, NEW to \in Nicknames,
         UpdateRig(r, n, to)
  PROVE  StarsInv'
<1> DEFINE move == [do |-> "rename", at |-> n, to |-> to]
<1>1. PICK d \in Rigs :
        /\ ~d.star /\ n \in ValidFolders /\ WriteRig(n, d) \in Seq(CalmSteps)
        /\ \/ op'.todo = WriteRig(n, d)
           \/ rigs[to] = None /\ op'.todo = Append(WriteRig(n, d), move)
        /\ op'.h = "update" /\ Started
  BY UpdateRigFits
<1>2. Range(op'.todo) \subseteq {WriteXml(n, d), WriteSums(n), move}
  <2>1. Range(WriteRig(n, d)) = {WriteXml(n, d), WriteSums(n)}
    BY RangeOfWrite
  <2> HIDE DEF move
  <2>2. Range(Append(WriteRig(n, d), move)) = Range(WriteRig(n, d)) \cup {move}
    BY <1>1, RangeOfAppend
  <2> QED
    BY <1>1, <2>1, <2>2
<1>3. move.do = "rename"
  OBVIOUS
<1> HIDE DEF move
<1>4. Modest(Range(op'.todo))
  BY <1>1, <1>2, <1>3, WriteFields DEF Modest, Writes
<1> QED
  BY <1>1, <1>4, ModestStart

LEMMA SwapModest ==
  ASSUME FleetTyped, NEW r \in RigIds, NEW n \in Nicknames, NEW m \in Comps,
         KindOf[m] = "main", SwapMain(r, n, m)
  PROVE  StarsInv'
<1> DEFINE old == rigs[n].xml.comp["main"]
           rest == <<WriteSums(n), Assign(old, None), Assign(m, r)>>
<1>1. Started /\ op'.h = "swap"
  BY SwapMainFits
<1>2. \/ op'.todo = <<>>
      \/ /\ m # old /\ Usable(m, r)
         /\ \E d \in Rigs :
              /\ d.id = r /\ d.comp = [rigs[n].xml.comp EXCEPT !["main"] = m]
              /\ ~d.star
              /\ op'.todo = <<WriteXml(n, d)>> \o rest
              /\ rest \in Seq(PlainSteps(Present))
  BY SwapMainFits
<1>3. CASE op'.todo = <<>>
  BY <1>1, <1>3, NothingComes, ModestStart DEF Modest
<1>4. ASSUME NEW d \in Rigs, ~d.star, op'.todo = <<WriteXml(n, d)>> \o rest,
             rest \in Seq(PlainSteps(Present))
      PROVE  StarsInv'
  <2> DEFINE t == <<WriteXml(n, d)>> \o rest
             x == WriteXml(n, d)
  <2>1. \A s \in Range(rest) : s \in {WriteSums(n), Assign(old, None), Assign(m, r)}
    <3>1. DOMAIN rest = 1..3 /\ rest[1] = WriteSums(n) /\ rest[2] = Assign(old, None)
          /\ rest[3] = Assign(m, r)
      OBVIOUS
    <3> HIDE DEF rest
    <3>2. 1..3 = {1, 2, 3}
      OBVIOUS
    <3> QED
      BY <3>1, <3>2 DEF Range
  <2> HIDE DEF rest
  <2>2. Range(t) = {x} \cup Range(rest)
    BY <1>4, ConsRange
  <2> HIDE DEF t
  <2>5. Modest(Range(t))
    BY <1>4, <2>1, <2>2, WriteFields, StepNames DEF Modest, Writes
  <2> QED
    BY <1>1, <1>4, <2>5, ModestStart DEF t
<1> QED
  BY <1>2, <1>3, <1>4

LEMMA SetStarRepairing ==
  ASSUME FleetTyped, NEW r \in RigIds, NEW n \in Nicknames, SetStar(r, n)
  PROVE  StarsInv'
<1>1. n \in ValidFolders /\ IsAt(r, n) /\ rigs[n].xml.id = r
  BY DEF SetStar, IsAt, ValidFolders
<1>2. PICK others \in SetToSeqs(Starred \ {n}) : Run("star", r, StarPlan(n, others))
  BY DEF SetStar
<1> DEFINE clear == WriteRigs(others, Unstarred)
           stamp == IF rigs[n].xml.star THEN <<>> ELSE WriteRig(n, WithStar(n, TRUE))
           t == clear \o stamp
           d == WithStar(n, TRUE)
<1>3. Started /\ op'.h = "star" /\ op'.rig = r /\ op'.todo = t
  BY <1>2, SetStarFits DEF Run, StarPlan
<1>4. d.star /\ d.id = r /\ WriteRig(n, d) \in Seq(CalmSteps)
  BY <1>1, RigTypes, StarNames, WriteCalm DEF WithStar, Rigs
<1>5. ASSUME NEW m \in Starred \ {n}
      PROVE  /\ WriteXml(m, Unstarred[m]) \in CalmSteps /\ WriteSums(m) \in CalmSteps
             /\ ~Unstarred[m].star
  <2>1. m \in ValidFolders /\ Unstarred[m] = WithStar(m, FALSE)
    BY <1>5 DEF Unstarred, Starred
  <2> QED
    BY <2>1, StarNames, WriteCalm
<1>6. /\ clear \in Seq(CalmSteps)
      /\ \A s \in Range(clear) : \E m \in Starred \ {n} :
            s = WriteXml(m, Unstarred[m]) \/ s = WriteSums(m)
      /\ \A m \in Starred \ {n} : \E j \in 1..Len(clear) : clear[j] = WriteXml(m, Unstarred[m])
  <2>1. Starred \ {n} \in SUBSET Nicknames
    BY DEF Starred, ValidFolders
  <2> QED
    BY <1>5, <2>1, WritesList
<1> HIDE DEF clear
<1>7. /\ stamp \in Seq(CalmSteps)
      /\ Range(stamp) \subseteq {WriteXml(n, d), WriteSums(n)}
      /\ n \in Starred \/ WriteXml(n, d) \in Range(stamp)
  <2>1. CASE rigs[n].xml.star
    <3>1. stamp = <<>> /\ n \in Starred /\ <<>> \in Seq(CalmSteps)
      BY <1>1, <2>1 DEF Starred
    <3> HIDE DEF stamp
    <3> QED
      BY <3>1, NothingComes
  <2>2. CASE ~rigs[n].xml.star
    BY <1>4, <2>2, RangeOfWrite
  <2> QED
    BY <2>1, <2>2
<1> HIDE DEF stamp, d
<1>8. Range(t) = Range(clear) \cup Range(stamp)
  BY <1>6, <1>7, RangeConcatenation
<1>9. /\ Len(clear) \in Nat /\ Len(stamp) \in Nat /\ Len(t) = Len(clear) + Len(stamp)
      /\ \A i \in 1..Len(clear) : t[i] = clear[i] /\ clear[i] \in Range(clear)
  <2>1. /\ Len(t) = Len(clear) + Len(stamp) /\ Len(clear) \in Nat /\ Len(stamp) \in Nat
        /\ \A i \in 1..Len(clear) + Len(stamp) :
             t[i] = IF i <= Len(clear) THEN clear[i] ELSE stamp[i - Len(clear)]
    BY <1>6, <1>7, ConcatProperties
  <2>2. Range(clear) = {clear[i] : i \in 1..Len(clear)}
    BY <1>6, RangeEquality
  <2> HIDE DEF t
  <2> QED
    BY <2>1, <2>2
<1> HIDE DEF t
<1>10. \A s \in Range(clear) : s.do \in {"xml", "sums"}
                               /\ (Writes(s) => s.at # n /\ ~s.doc.star)
  BY <1>5, <1>6, WriteFields DEF Writes
<1>11. \A s \in Range(t) : /\ s.do \in {"xml", "sums"}
                           /\ Writes(s) => IF s.at = n THEN s.doc.star /\ s.doc.id = r
                                           ELSE ~s.doc.star
  <2>1. \A s \in Range(stamp) : s = WriteXml(n, d) \/ s = WriteSums(n)
    BY <1>7
  <2> QED
    BY <1>4, <1>8, <1>10, <2>1, WriteFields DEF Writes
<1>12. ASSUME NEW m \in Starred \ {n}
       PROVE  \E i \in 1..Len(t) : /\ Writes(t[i]) /\ t[i].at = m
                                   /\ \A j \in 1..i : ~(Writes(t[j]) /\ t[j].at = n)
  <2>1. PICK i \in 1..Len(clear) : clear[i] = WriteXml(m, Unstarred[m])
    BY <1>6
  <2>2. i \in 1..Len(t) /\ Writes(t[i]) /\ t[i].at = m
    BY <1>9, <2>1, WriteFields DEF Writes
  <2>3. \A j \in 1..i : j \in 1..Len(clear)
    BY <1>9
  <2>4. \A j \in 1..i : ~(Writes(t[j]) /\ t[j].at = n)
    BY <1>9, <1>10, <2>3
  <2> QED
    BY <2>2, <2>4
<1>13. n \in Starred \/ \E s \in Range(t) : Writes(s) /\ s.at = n
  BY <1>7, <1>8, WriteFields DEF Writes
<1>14. Repairing(r, t)
  BY <1>1, <1>11, <1>12, <1>13 DEF Repairing, Cleared
<1>15. PICK u : u = t
  OBVIOUS
<1>16. Repairing(r, u)'
  <2>1. ValidFolders' = ValidFolders /\ Starred' = Starred
        /\ \A m \in ValidFolders : IsAt(r, m) => IsAt(r, m)'
    BY <1>3, StarsStarted DEF IsAt, Valid, ValidFolders
  <2> QED
    BY <1>14, <1>15, <2>1 DEF Repairing, Cleared, Writes
<1> QED
  BY <1>3, <1>15, <1>16 DEF StarsInv

LEMMA ReorderNumbering ==
  ASSUME FleetTyped, NEW ns \in SetToSeqs(ValidFolders), ReorderRigs(ns)
  PROVE  StarsInv'
<1> DEFINE placed == [n \in ValidFolders |-> [rigs[n].xml EXCEPT !.order = Position(ns, n)]]
<1>1. PICK ms \in InOrder(Moved(ns), ns) : Run("reorder", None, WriteRigs(ms, placed))
  BY DEF ReorderRigs
<1> DEFINE t == WriteRigs(ms, placed)
<1>2. /\ ms \in SetToSeqs(Moved(ns)) /\ Moved(ns) \subseteq ValidFolders
      /\ Moved(ns) \in SUBSET Nicknames
  BY FoldersPresent DEF InOrder, Moved
<1>3. ASSUME NEW n \in ValidFolders
      PROVE  /\ placed[n] \in Rigs /\ placed[n].order = Position(ns, n)
             /\ placed[n].star = (n \in Starred)
  <2>1. Position(ns, n) \in Nat
    <3>1. Len(ns) \in Nat
      BY FoldersPresent, OrderType
    <3> QED
      BY <3>1, PositionType
  <2>2. rigs[n].xml \in Rigs
    BY RigTypes
  <2>3. rigs[n].xml.star = (n \in Starred)
    BY <2>2 DEF Starred, Rigs
  <2> QED
    BY <2>1, <2>2, <2>3 DEF Rigs
<1> HIDE DEF placed
<1>4. \A n \in Moved(ns) : /\ WriteXml(n, placed[n]) \in PlainSteps(Present)
                           /\ WriteSums(n) \in PlainSteps(Present)
  BY <1>2, <1>3, WriteRigPlain, FoldersPresent
<1>5. /\ \A s \in Range(t) : \E n \in Moved(ns) : s = WriteXml(n, placed[n]) \/ s = WriteSums(n)
      /\ \A n \in Moved(ns) : \E j \in 1..Len(t) : t[j] = WriteXml(n, placed[n])
      /\ t \in Seq(PlainSteps(Present))
  BY <1>2, <1>4, WritesList
<1>6. Started /\ op'.h = "reorder" /\ op'.todo = t
  BY <1>1, ReorderRigsFits DEF Run
<1> HIDE DEF t
<1>7. \A s \in Range(t) : /\ s.do \in {"xml", "sums"}
                          /\ Writes(s) => /\ s.at \in ValidFolders
                                          /\ s.doc.star = (s.at \in Starred)
                                          /\ s.doc.order = Position(ns, s.at)
  BY <1>2, <1>3, <1>5, WriteFields DEF Writes
<1>8. \A n \in ValidFolders :
        rigs[n].xml.order = Position(ns, n) \/ \E s \in Range(t) : Writes(s) /\ s.at = n
  <2> SUFFICES ASSUME NEW n \in Moved(ns) PROVE \E s \in Range(t) : Writes(s) /\ s.at = n
    BY DEF Moved
  <2>1. PICK j \in 1..Len(t) : t[j] = WriteXml(n, placed[n])
    BY <1>5
  <2>2. t[j] \in Range(t)
    BY <1>5, RangeEquality
  <2> QED
    BY <2>1, <2>2, WriteFields DEF Writes
<1>9. PICK T : T = Range(t)
  OBVIOUS
<1>10. Numbering(T)'
  <2>1. ValidFolders' = ValidFolders /\ Starred' = Starred
        /\ \A n \in ValidFolders : rigs'[n] = rigs[n]
    BY <1>6, StarsStarted, FoldersPresent
  <2> QED
    BY <1>7, <1>8, <1>9, <2>1 DEF Numbering
<1> QED
  BY <1>6, <1>9, <1>10 DEF StarsInv

LEMMA DeleteSucceeding ==
  ASSUME FleetTyped, NEW r \in RigIds, NEW n \in Nicknames, DeleteRig(r, n)
  PROVE  StarsInv'
<1> DEFINE free == AssignAll(rigs[n].xml, None)
<1>1. PICK star \in Seq(CalmSteps) :
        /\ n \in ValidFolders
        /\ op'.todo = Append(star \o free, [do |-> "trash", at |-> n])
        /\ \/ /\ star = <<>>
              /\ ~rigs[n].xml.star \/ ValidFolders = {n}
           \/ \E s \in ValidFolders \ {n} :
                rigs[n].xml.star /\ star = WriteRig(s, WithStar(s, TRUE))
        /\ star \o free \in Seq(PlainSteps(Present))
        /\ op'.h = "delete" /\ Started
  BY DeleteRigFits
<1>2. star \in Seq(PlainSteps(Present))
  BY CalmPlain
<1>3. /\ free \in Seq(PlainSteps(Present))
      /\ Range(free) = {Assign(rigs[n].xml.comp[k], None) : k \in Kinds}
  BY <1>1, RigTypes, AssignsPlain
<1> HIDE DEF free
<1>4. Range(op'.todo) = Range(star) \cup Range(free) \cup {Trash(n)}
  <2>1. Range(star \o free) = Range(star) \cup Range(free)
    BY <1>2, <1>3, RangeConcatenation
  <2>2. op'.todo = Append(star \o free, Trash(n)) /\ star \o free \in Seq(PlainSteps(Present))
    BY <1>1 DEF Trash
  <2> QED
    BY <2>1, <2>2, RangeOfAppend
<1>5. PICK T : T = Range(op'.todo)
  OBVIOUS
<1>6. /\ \A s \in Range(star) : /\ s.do \in {"xml", "sums"}
                                /\ Writes(s) => s.at \in ValidFolders \ {n} /\ s.doc.star
      /\ \/ n \notin Starred
         \/ ValidFolders \subseteq {n}
         \/ \E s \in Range(star) : Writes(s)
  <2>1. CASE star = <<>> /\ (~rigs[n].xml.star \/ ValidFolders = {n})
    BY <2>1, NothingComes DEF Starred
  <2>2. ASSUME NEW s \in ValidFolders \ {n}, star = WriteRig(s, WithStar(s, TRUE))
        PROVE  /\ \A x \in Range(star) : /\ x.do \in {"xml", "sums"}
                                         /\ Writes(x) => x.at \in ValidFolders \ {n} /\ x.doc.star
               /\ \E x \in Range(star) : Writes(x)
    <3> DEFINE d == WithStar(s, TRUE)
    <3>1. d.star /\ Range(star) = {WriteXml(s, d), WriteSums(s)}
      BY <2>2, StarNames, RangeOfWrite
    <3> HIDE DEF d
    <3> QED
      BY <3>1, WriteFields DEF Writes
  <2> QED
    BY <1>1, <2>1, <2>2
<1>7. \A s \in T : /\ s.do \notin {"mkdir", "rename"}
                   /\ s.do = "trash" => s.at = n
                   /\ Writes(s) => s.at \in ValidFolders \ {n} /\ s.doc.star
  <2>1. \A s \in T : s \in Range(star) \/ s.do = "assign" \/ s = Trash(n)
    BY <1>3, <1>4, <1>5, StepNames
  <2>2. Trash(n).do = "trash" /\ Trash(n).at = n
    BY DEF Trash
  <2> QED
    BY <1>6, <2>1, <2>2 DEF Writes
<1>8. n \notin Starred \/ ValidFolders \subseteq {n} \/ \E s \in T : Writes(s)
  BY <1>4, <1>5, <1>6
<1>9. Succeeding(T)'
  <2>1. ValidFolders' = ValidFolders /\ Starred' = Starred
    BY <1>1, StarsStarted
  <2> QED
    BY <1>7, <1>8, <2>1 DEF Succeeding
<1> QED
  BY <1>1, <1>5, <1>9 DEF StarsInv

LEMMA StarsRequest ==
  ASSUME FleetTyped, Request
  PROVE  StarsInv'
<1>1. ASSUME NEW r \in RigIds, NEW n \in Nicknames, NEW refs \in Refs, CreateRig(r, n, refs)
      PROVE  StarsInv'
  BY <1>1, CreateModest
<1>2. ASSUME NEW r \in RigIds, NEW n \in Nicknames, NEW to \in Nicknames, UpdateRig(r, n, to)
      PROVE  StarsInv'
  BY <1>2, UpdateModest
<1>3. ASSUME NEW r \in RigIds, NEW n \in Nicknames, SetStar(r, n) PROVE StarsInv'
  BY <1>3, SetStarRepairing
<1>4. ASSUME NEW r \in RigIds, NEW n \in Nicknames, DeleteRig(r, n) PROVE StarsInv'
  BY <1>4, DeleteSucceeding
<1>5. ASSUME NEW r \in RigIds, NEW n \in Nicknames, NEW m \in Comps, KindOf[m] = "main",
             SwapMain(r, n, m)
      PROVE  StarsInv'
  BY <1>5, SwapModest
<1>6. ASSUME NEW ns \in SetToSeqs(ValidFolders), ReorderRigs(ns) PROVE StarsInv'
  BY <1>6, ReorderNumbering
<1>7. ASSUME NEW c \in Comps, NEW s,
             CreateComponent(c, s) \/ UpdateComponent(c, s) \/ DeleteComponent(c)
      PROVE  StarsInv'
  BY <1>7 DEF CreateComponent, UpdateComponent, DeleteComponent, Idle, StarsInv
<1> QED
  BY <1>1, <1>2, <1>3, <1>4, <1>5, <1>6, <1>7 DEF Request

-----------------------------------------------------------------------------
(* What a step does to the stars.                                            *)

LEMMA StarsXml ==
  ASSUME FleetTyped, WriteRigXml
  PROVE  /\ It.at \in Nicknames /\ ValidFolders' = ValidFolders \cup {It.at}
         /\ Starred' = IF It.doc.star THEN Starred \cup {It.at} ELSE Starred \ {It.at}
         /\ rigs'[It.at].xml = It.doc
         /\ \A m \in ValidFolders \ {It.at} : rigs'[m] = rigs[m]
<1> DEFINE n == It.at
           d == It.doc
<1>1. /\ n \in Nicknames /\ ValidFolders' = ValidFolders \cup {n} /\ rigs'[n].xml = d
      /\ \A m \in Nicknames \ {n} : rigs'[m] = rigs[m]
  BY XmlWritten
<1>2. \A m \in ValidFolders : m \in Nicknames
  BY DEF ValidFolders
<1>3. \A m \in ValidFolders' : m \in Starred' <=> rigs'[m].xml.star
  BY DEF Starred
<1>4. Starred' \subseteq ValidFolders' /\ Starred \subseteq ValidFolders
  BY DEF Starred
<1>5. \A m \in ValidFolders : m \in Starred <=> rigs[m].xml.star
  BY DEF Starred
<1> HIDE DEF n, d
<1>6. \A m : m # n => (m \in Starred' <=> m \in Starred)
  BY <1>1, <1>2, <1>3, <1>4, <1>5
<1>7. n \in Starred' <=> d.star
  BY <1>1, <1>3
<1>8. Starred' = IF d.star THEN Starred \cup {n} ELSE Starred \ {n}
  BY <1>6, <1>7
<1> QED
  BY <1>1, <1>2, <1>8 DEF n, d

LEMMA StarsCalm ==
  ASSUME FleetTyped, MakeFolder \/ WriteRigSums \/ AssignComponent
  PROVE  /\ ValidFolders' = ValidFolders /\ Starred' = Starred
         /\ \A n \in ValidFolders : rigs'[n].xml = rigs[n].xml
<1>1. ValidFolders' = ValidFolders /\ \A n \in ValidFolders : rigs'[n].xml = rigs[n].xml
  <2>1. CASE MakeFolder
    BY <2>1, FolderMade
  <2>2. CASE WriteRigSums
    BY <2>2, SumsWritten
  <2>3. CASE AssignComponent
    BY <2>3 DEF AssignComponent, ValidFolders, Valid
  <2> QED
    BY <2>1, <2>2, <2>3
<1> QED
  BY <1>1 DEF Starred

LEMMA StarsTrash ==
  ASSUME FleetTyped, TrashRig
  PROVE  /\ It.at \in Nicknames /\ op'.todo = <<>>
         /\ ValidFolders' = ValidFolders \ {It.at} /\ Starred' = Starred \ {It.at}
<1>1. /\ It.at \in ValidFolders /\ op'.todo = <<>> /\ rigs'[It.at] = None
      /\ \A n \in Nicknames \ {It.at} : rigs'[n] = rigs[n]
  BY RigTrashed
<1>2. ValidFolders' = ValidFolders \ {It.at}
  BY <1>1 DEF ValidFolders, Valid
<1>3. \A n \in ValidFolders : n \in Nicknames
  BY DEF ValidFolders
<1> QED
  BY <1>1, <1>2, <1>3 DEF Starred

\* Every step of a plan but its end.
PlanStep ==
    MakeFolder \/ WriteRigXml \/ WriteRigSums \/ RenameRig \/ AssignComponent \/ TrashRig

LEMMA PlanStepFacts ==
  ASSUME FleetTyped, PlanStep
  PROVE  /\ op # None /\ op' # None /\ op'.h = op.h /\ op'.rig = op.rig
         /\ op.todo # <<>> /\ op.todo \in Seq(Steps) /\ op'.todo = Tail(op.todo)
         /\ It = Head(op.todo) /\ Range(op.todo) = {It} \cup Range(op'.todo)
         /\ MakeFolder => It.do = "mkdir"
         /\ WriteRigXml => It.do = "xml"
         /\ WriteRigSums => It.do = "sums"
         /\ RenameRig => It.do = "rename"
         /\ AssignComponent => It.do = "assign"
         /\ TrashRig => It.do = "trash"
<1>1. PICK do : Doing(do) /\ Proceed
  BY DEF PlanStep, MakeFolder, WriteRigXml, WriteRigSums, RenameRig, AssignComponent, TrashRig
<1>2. \A e : Doing(e) => It.do = e
  BY DEF Doing, It
<1> QED
  BY <1>1, <1>2, StepShape
  DEF MakeFolder, WriteRigXml, WriteRigSums, RenameRig, AssignComponent, TrashRig

LEMMA ModestStep ==
  ASSUME FleetTyped, PlanStep, Modest(Range(op.todo)), NEW T, T = Range(op'.todo)
  PROVE  Modest(T)'
<1>1. Range(op.todo) = {It} \cup T
  BY PlanStepFacts
<1>2. CASE T = {}
  BY <1>2 DEF Modest
<1>3. CASE WriteRigXml
  <2>1. Writes(It)
    BY <1>3, PlanStepFacts DEF Writes
  <2>2. Starred' = IF It.doc.star THEN Starred \cup {It.at} ELSE Starred \ {It.at}
    BY <1>3, StarsXml
  <2>3. CASE \A s \in {It} \cup T : Writes(s) => ~s.doc.star
    BY <2>3 DEF Modest
  <2>4. ASSUME NEW n \in Nicknames, Starred \subseteq {n},
               \A s \in {It} \cup T : Writes(s) /\ s.doc.star => s.at = n
        PROVE  Modest(T)'
    <3>1. Starred' \subseteq {n}
      BY <2>1, <2>2, <2>4
    <3> QED
      BY <2>4, <3>1 DEF Modest
  <2> QED
    BY <1>1, <2>3, <2>4 DEF Modest
<1>4. CASE MakeFolder \/ WriteRigSums \/ AssignComponent
  <2>1. Starred' = Starred
    BY <1>4, StarsCalm
  <2> QED
    BY <1>1, <2>1 DEF Modest
<1>5. CASE RenameRig \/ TrashRig
  BY <1>2, <1>5, RigRenamed, RigTrashed, NothingComes
<1> QED
  BY <1>3, <1>4, <1>5 DEF PlanStep

\* A step of set_star that is not its last stamp.
LEMMA RepairingOn ==
  ASSUME NEW D, NEW t \in Seq(D), t # <<>>, NEW n, NEW S, NEW Z, Z \subseteq S,
         ~(Writes(Head(t)) /\ Head(t).at = n), Writes(Head(t)) => Head(t).at \notin Z,
         Cleared(t, n, S)
  PROVE  Cleared(Tail(t), n, Z)
<1>1. /\ Head(t) = t[1] /\ Len(t) \in Nat /\ Len(Tail(t)) = Len(t) - 1
      /\ \A j \in 1..Len(Tail(t)) : Tail(t)[j] = t[j + 1]
  BY HeadTailProperties
<1> SUFFICES ASSUME NEW m \in Z \ {n}
             PROVE  \E i \in 1..Len(Tail(t)) :
                       /\ Writes(Tail(t)[i]) /\ Tail(t)[i].at = m
                       /\ \A j \in 1..i : ~(Writes(Tail(t)[j]) /\ Tail(t)[j].at = n)
  BY DEF Cleared
<1>2. PICK i \in 1..Len(t) : /\ Writes(t[i]) /\ t[i].at = m
                             /\ \A j \in 1..i : ~(Writes(t[j]) /\ t[j].at = n)
  BY DEF Cleared
<1>3. i # 1
  BY <1>1, <1>2
<1>4. i - 1 \in 1..Len(Tail(t)) /\ Tail(t)[i - 1] = t[(i - 1) + 1] /\ (i - 1) + 1 = i
  BY <1>1, <1>3
<1>5. ASSUME NEW j \in 1..i - 1 PROVE ~(Writes(Tail(t)[j]) /\ Tail(t)[j].at = n)
  <2>1. j \in 1..Len(Tail(t)) /\ j + 1 \in 1..i
    BY <1>1
  <2> QED
    BY <1>1, <1>2, <2>1
<1> QED
  BY <1>2, <1>4, <1>5

LEMMA RepairingStep ==
  ASSUME FleetTyped, PlanStep, NEW r, Repairing(r, op.todo), NEW u, u = op'.todo
  PROVE  Repairing(r, u)'
<1>1. PICK t : t = op.todo
  OBVIOUS
<1>2. /\ t # <<>> /\ t \in Seq(Steps) /\ u = Tail(t) /\ It = Head(t)
      /\ Range(t) = {It} \cup Range(u)
  BY <1>1, PlanStepFacts
<1>3. PICK n \in ValidFolders :
        /\ IsAt(r, n)
        /\ \A s \in Range(t) : s.do \in {"xml", "sums"}
        /\ \A s \in Range(t) : Writes(s) =>
              IF s.at = n THEN s.doc.star /\ s.doc.id = r ELSE ~s.doc.star
        /\ n \in Starred \/ \E s \in Range(t) : Writes(s) /\ s.at = n
        /\ Cleared(t, n, Starred)
  BY <1>1 DEF Repairing
<1>4. n \in Nicknames /\ rigs[n].xml.id = r
  BY <1>3 DEF ValidFolders, IsAt
<1>5. WriteRigXml \/ WriteRigSums
  BY <1>2, <1>3, PlanStepFacts DEF PlanStep
<1>6. Head(t) = t[1] /\ Len(t) \in Nat
  BY <1>2, HeadTailProperties
<1>7. ASSUME n \in ValidFolders', rigs'[n].xml.id = r,
             n \in Starred' \/ \E s \in Range(u) : Writes(s) /\ s.at = n,
             Cleared(u, n, Starred')
      PROVE  Repairing(r, u)'
  <2>1. IsAt(r, n)'
    BY <1>7 DEF IsAt, ValidFolders
  <2>2. \A s \in Range(u) : s \in Range(t)
    BY <1>2
  <2>3. Cleared(u, n, Starred)'
    BY <1>7 DEF Cleared, Writes
  <2> QED
    BY <1>3, <1>7, <2>1, <2>2, <2>3 DEF Repairing, Writes
<1>8. CASE WriteRigXml /\ It.at = n
  <2>1. Writes(It) /\ It \in Range(t)
    BY <1>2, <1>8, PlanStepFacts DEF Writes
  <2>2. It.doc.star /\ It.doc.id = r
    BY <1>3, <1>8, <2>1
  <2>3. ASSUME NEW m \in Starred \ {n} PROVE FALSE
    <3>1. PICK i \in 1..Len(t) : \A j \in 1..i : ~(Writes(t[j]) /\ t[j].at = n)
      BY <1>3 DEF Cleared
    <3>2. 1 \in 1..i
      BY <1>6
    <3> QED
      BY <1>2, <1>6, <1>8, <2>1, <3>1, <3>2
  <2>4. Starred' = Starred \cup {n} /\ n \in ValidFolders' /\ rigs'[n].xml.id = r
    BY <1>8, <2>2, StarsXml
  <2>5. Cleared(u, n, Starred')
    BY <2>3, <2>4 DEF Cleared
  <2> QED
    BY <1>7, <2>4, <2>5
<1>9. CASE ~(WriteRigXml /\ It.at = n)
  <2>1. /\ n \in ValidFolders' /\ rigs'[n].xml.id = r /\ Starred' \subseteq Starred
        /\ n \in Starred => n \in Starred'
        /\ ~(Writes(It) /\ It.at = n)
        /\ Writes(It) => It.at \notin Starred'
    <3>1. CASE WriteRigXml
      <4>1. It.at # n /\ Writes(It) /\ It \in Range(t)
        BY <1>2, <1>9, <3>1, PlanStepFacts DEF Writes
      <4>2. ~It.doc.star
        BY <1>3, <4>1
      <4> QED
        BY <1>4, <3>1, <4>1, <4>2, StarsXml
    <3>2. CASE WriteRigSums
      <4>1. ~Writes(It)
        BY <3>2, PlanStepFacts DEF Writes
      <4> QED
        BY <1>4, <3>2, <4>1, StarsCalm
    <3> QED
      BY <1>5, <3>1, <3>2
  <2>2. n \in Starred' \/ \E s \in Range(u) : Writes(s) /\ s.at = n
    BY <1>2, <1>3, <2>1
  <2> DEFINE Z == Starred'
  <2>3. Z \subseteq Starred /\ (Writes(Head(t)) => Head(t).at \notin Z)
        /\ ~(Writes(Head(t)) /\ Head(t).at = n)
    BY <1>2, <2>1
  <2> HIDE DEF Z
  <2>4. Cleared(Tail(t), n, Z)
    BY <1>2, <1>3, <2>3, RepairingOn
  <2> QED
    BY <1>2, <1>7, <2>1, <2>2, <2>4 DEF Z
<1> QED
  BY <1>8, <1>9

LEMMA NumberingStep ==
  ASSUME FleetTyped, PlanStep, Numbering(Range(op.todo)), NEW T, T = Range(op'.todo)
  PROVE  Numbering(T)'
<1>1. Range(op.todo) = {It} \cup T
  BY PlanStepFacts
<1>2. PICK ns \in SetToSeqs(ValidFolders) :
        /\ \A s \in {It} \cup T : s.do \in {"xml", "sums"}
        /\ \A s \in {It} \cup T : Writes(s) =>
              /\ s.at \in ValidFolders /\ s.doc.star = (s.at \in Starred)
              /\ s.doc.order = Position(ns, s.at)
        /\ \A n \in ValidFolders : \/ rigs[n].xml.order = Position(ns, n)
                                   \/ \E s \in {It} \cup T : Writes(s) /\ s.at = n
  BY <1>1 DEF Numbering
<1>3. WriteRigXml \/ WriteRigSums
  BY <1>2, PlanStepFacts DEF PlanStep
<1>4. /\ ValidFolders' = ValidFolders /\ Starred' = Starred
      /\ \A n \in ValidFolders : rigs'[n].xml.order = Position(ns, n)
                                  \/ \E s \in T : Writes(s) /\ s.at = n
  <2>1. CASE WriteRigXml
    <3>1. Writes(It)
      BY <2>1, PlanStepFacts DEF Writes
    <3>2. It.at \in ValidFolders /\ It.doc.star = (It.at \in Starred)
          /\ It.doc.order = Position(ns, It.at)
      BY <1>2, <3>1
    <3>3. /\ ValidFolders' = ValidFolders \cup {It.at} /\ rigs'[It.at].xml = It.doc
          /\ Starred' = IF It.doc.star THEN Starred \cup {It.at} ELSE Starred \ {It.at}
          /\ \A m \in ValidFolders \ {It.at} : rigs'[m] = rigs[m]
      BY <2>1, StarsXml
    <3>4. Starred' = Starred
      BY <3>2, <3>3
    <3>5. \A n \in ValidFolders : rigs'[n].xml.order = Position(ns, n)
                                  \/ \E s \in T : Writes(s) /\ s.at = n
      BY <1>2, <3>2, <3>3
    <3> QED
      BY <3>2, <3>3, <3>4, <3>5
  <2>2. CASE WriteRigSums
    <3>1. ~Writes(It)
      BY <2>2, PlanStepFacts DEF Writes
    <3> QED
      BY <1>2, <2>2, <3>1, StarsCalm
  <2> QED
    BY <1>3, <2>1, <2>2
<1> QED
  BY <1>2, <1>4 DEF Numbering

LEMMA SucceedingStep ==
  ASSUME FleetTyped, PlanStep, Succeeding(Range(op.todo)), NEW T, T = Range(op'.todo)
  PROVE  /\ Succeeding(T)'
         /\ Starred # {} /\ ValidFolders' # {} => Starred' # {}
<1>1. Range(op.todo) = {It} \cup T
  BY PlanStepFacts
<1>2. PICK n \in Nicknames :
        /\ \A s \in {It} \cup T : /\ s.do \notin {"mkdir", "rename"}
                                  /\ s.do = "trash" => s.at = n
                                  /\ Writes(s) => s.at \in ValidFolders \ {n} /\ s.doc.star
        /\ \/ n \notin Starred
           \/ ValidFolders \subseteq {n}
           \/ Starred \ {n} # {}
           \/ \E s \in {It} \cup T : Writes(s)
  BY <1>1 DEF Succeeding
<1>3. CASE WriteRigXml
  <2>1. Writes(It)
    BY <1>3, PlanStepFacts DEF Writes
  <2>2. It.at \in ValidFolders \ {n} /\ It.doc.star
    BY <1>2, <2>1
  <2>3. ValidFolders' = ValidFolders /\ Starred' = Starred \cup {It.at}
    BY <1>3, <2>2, StarsXml
  <2>4. Starred' \ {n} # {}
    BY <2>2, <2>3
  <2> QED
    BY <1>2, <2>3, <2>4 DEF Succeeding
<1>4. CASE WriteRigSums \/ AssignComponent
  <2>1. ~Writes(It)
    BY <1>4, PlanStepFacts DEF Writes
  <2>2. ValidFolders' = ValidFolders /\ Starred' = Starred
    BY <1>4, StarsCalm
  <2> QED
    BY <1>2, <2>1, <2>2 DEF Succeeding
<1>5. CASE TrashRig
  <2>1. It.do = "trash" /\ It.at = n /\ ~Writes(It)
    BY <1>2, <1>5, PlanStepFacts DEF Writes
  <2>2. T = {} /\ ValidFolders' = ValidFolders \ {n} /\ Starred' = Starred \ {n}
    BY <1>5, <2>1, StarsTrash, NothingComes
  <2>3. Starred # {} /\ ValidFolders' # {} => Starred' # {}
    BY <1>2, <2>1, <2>2
  <2>4. n \notin Starred'
    BY <2>2
  <2> QED
    BY <2>2, <2>3, <2>4 DEF Succeeding
<1>6. ~MakeFolder /\ ~RenameRig
  BY <1>2, PlanStepFacts
<1> QED
  BY <1>3, <1>4, <1>5, <1>6 DEF PlanStep

LEMMA StarsPerform ==
  ASSUME FleetTyped, StarsInv, Perform
  PROVE  StarsInv'
<1>1. CASE Finish
  BY <1>1 DEF Finish, StarsInv
<1>2. CASE PlanStep
  <2>1. op # None /\ op' # None /\ op'.h = op.h /\ op'.rig = op.rig
    BY <1>2, PlanStepFacts
  <2>2. PICK u, T, r : u = op'.todo /\ T = Range(op'.todo) /\ r = op'.rig
    OBVIOUS
  <2>3. op.h \in {"create", "update", "swap"} => Modest(T)'
    BY <1>2, <2>1, <2>2, ModestStep DEF StarsInv
  <2>4. op.h = "star" => Repairing(r, u)'
    BY <1>2, <2>1, <2>2, RepairingStep DEF StarsInv
  <2>5. op.h = "reorder" => Numbering(T)'
    BY <1>2, <2>1, <2>2, NumberingStep DEF StarsInv
  <2>6. op.h = "delete" => Succeeding(T)'
    BY <1>2, <2>1, <2>2, SucceedingStep DEF StarsInv
  <2> QED
    BY <2>1, <2>2, <2>3, <2>4, <2>5, <2>6 DEF StarsInv
<1> QED
  BY <1>1, <1>2 DEF Perform, PlanStep

LEMMA StarsNext ==
  ASSUME FleetTyped, StarsInv, [Next]_vars
  PROVE  StarsInv'
<1>1. CASE Restart \/ HandlerFails \/ Crash \/ Quit
  <2>1. op' = None \/ (op' = op /\ op = None)
    BY <1>1 DEF Restart, HandlerFails, Crash, Quit, Idle, Boot, ReconcileComponent, ReconcileDone,
                ReconcileFails, FleetTyped
  <2> QED
    BY <2>1 DEF StarsInv
<1>2. CASE UNCHANGED vars
  <2>1. op' = op /\ rigs' = rigs
    BY <1>2 DEF vars
  <2>2. ValidFolders' = ValidFolders /\ Starred' = Starred /\ \A r, n : IsAt(r, n)' = IsAt(r, n)
    BY <2>1 DEF ValidFolders, Valid, Starred, IsAt
  <2>3. PICK u, T, r : op # None => u = op.todo /\ T = Range(op.todo) /\ r = op.rig
    OBVIOUS
  <2>4. /\ Modest(T) => Modest(T)'
        /\ Repairing(r, u) => Repairing(r, u)'
        /\ Numbering(T) => Numbering(T)'
        /\ Succeeding(T) => Succeeding(T)'
    BY <2>1, <2>2 DEF Modest, Repairing, Cleared, Numbering, Succeeding
  <2> QED
    BY <2>1, <2>3, <2>4 DEF StarsInv
<1> QED
  BY <1>1, <1>2, StarsRequest, StarsPerform DEF Next

\* Only a plan's steps write in rigs/.
LEMMA StarsOnlyByPlans ==
  ASSUME FleetTyped, [Next]_vars
  PROVE  PlanStep \/ (ValidFolders' = ValidFolders /\ Starred' = Starred /\ rigs' = rigs)
<1>1. PlanStep \/ rigs' = rigs
  BY DEF Next, Request, CreateRig, UpdateRig, SetStar, DeleteRig, SwapMain, ReorderRigs,
         CreateComponent, UpdateComponent, DeleteComponent, Perform, PlanStep, Finish, Restart,
         Boot, ReconcileComponent, ReconcileDone, ReconcileFails, HandlerFails, Crash, Quit, vars
<1> QED
  BY <1>1 DEF ValidFolders, Valid, Starred

LEMMA AtMostOne ==
  ASSUME NEW S \in SUBSET Nicknames
  PROVE  Cardinality(S) \in Nat /\ (Cardinality(S) <= 1 <=> \A a, b \in S : a = b)
<1>1. IsFiniteSet(S) /\ Cardinality(S) \in Nat
  BY NicknamesAssumption, FS_Subset, FS_CardinalityType
<1>2. ASSUME \A a, b \in S : a = b PROVE Cardinality(S) <= 1
  <2>1. CASE S = {}
    BY <2>1, FS_EmptySet
  <2>2. ASSUME NEW a \in S PROVE Cardinality(S) <= 1
    <3>1. S = {a}
      BY <1>2
    <3> QED
      BY <3>1, FS_Singleton
  <2> QED
    BY <2>1, <2>2
<1>3. ASSUME Cardinality(S) <= 1, NEW a \in S, NEW b \in S, a # b PROVE FALSE
  <2>1. {a} \subseteq S /\ {a} # S
    BY <1>3
  <2>2. Cardinality({a}) = 1 /\ Cardinality({a}) < Cardinality(S)
    BY <1>1, <2>1, FS_Subset, FS_Singleton
  <2> QED
    BY <1>1, <1>3, <2>2
<1> QED
  BY <1>1, <1>2, <1>3

\* No handler but delete_rig makes a second star.
LEMMA SecondStar ==
  ASSUME FleetTyped, StarsInv, PlanStep, op.h # "delete", \A a, b \in Starred : a = b
  PROVE  \A a, b \in Starred' : a = b
<1>1. op # None /\ op.h \in Handlers /\ Range(op.todo) = {It} \cup Range(op'.todo)
  BY PlanStepFacts DEF FleetTyped, TypeOK, Plans
<1>2. CASE WriteRigXml
  <2>1. Writes(It) /\ It \in Range(op.todo)
    BY <1>1, <1>2, PlanStepFacts DEF Writes
  <2>2. Starred' = IF It.doc.star THEN Starred \cup {It.at} ELSE Starred \ {It.at}
    BY <1>2, StarsXml
  <2>3. It.doc.star => Starred \subseteq {It.at} \/ It.at \in Starred
    <3>1. CASE op.h \in {"create", "update", "swap"}
      BY <1>1, <2>1, <3>1 DEF StarsInv, Modest
    <3>2. CASE op.h = "reorder"
      BY <1>1, <2>1, <3>2 DEF StarsInv, Numbering
    <3>3. CASE op.h = "star"
      <4>1. PICK t : t = op.todo
        OBVIOUS
      <4>2. PICK n \in ValidFolders :
              /\ \A s \in Range(t) : Writes(s) =>
                    IF s.at = n THEN s.doc.star /\ s.doc.id = op.rig ELSE ~s.doc.star
              /\ \A m \in Starred \ {n} : \E i \in 1..Len(t) :
                    /\ Writes(t[i]) /\ t[i].at = m
                    /\ \A j \in 1..i : ~(Writes(t[j]) /\ t[j].at = n)
        BY <1>1, <3>3, <4>1 DEF StarsInv, Repairing, Cleared
      <4>3. t \in Seq(Steps) /\ t # <<>> /\ It = Head(t)
        BY <4>1, PlanStepFacts
      <4>4. It = t[1] /\ Len(t) \in Nat
        BY <4>3, HeadTailProperties
      <4>5. \A i \in 1..Len(t) : 1 \in 1..i
        BY <4>4
      <4> QED
        BY <2>1, <4>1, <4>2, <4>4, <4>5
    <3> QED
      BY <1>1, <3>1, <3>2, <3>3 DEF Handlers
  <2> QED
    BY <2>2, <2>3
<1>3. CASE MakeFolder \/ WriteRigSums \/ AssignComponent
  BY <1>3, StarsCalm
<1>4. CASE RenameRig
  <2>1. /\ It.at \in Nicknames /\ It.to \in Nicknames
        /\ rigs'[It.at] = None /\ (It.to # It.at => rigs'[It.to] = rigs[It.at])
        /\ \A n \in Nicknames \ {It.at, It.to} : rigs'[n] = rigs[n]
    BY <1>4, RigRenamed
  <2>2. ASSUME NEW a \in Starred' PROVE a \in Starred \/ (a = It.to /\ It.at \in Starred)
    BY <2>1, <2>2 DEF Starred, ValidFolders, Valid
  <2>3. It.at \notin Starred'
    BY <2>1 DEF Starred, ValidFolders, Valid
  <2> QED
    BY <2>2, <2>3
<1>5. CASE TrashRig
  BY <1>5, StarsTrash
<1> QED
  BY <1>2, <1>3, <1>4, <1>5 DEF PlanStep

-----------------------------------------------------------------------------
(* Manifests.  Each rig.xml of a plan is followed by its SHA256SUMS.         *)

Paired(t) ==
    \A i \in 1..Len(t) : Writes(t[i]) => i + 1 <= Len(t) /\ t[i + 1] = WriteSums(t[i].at)

\* Rigs whose SHA256SUMS no running handler is about to write.
LeftStale ==
    IF op # None /\ op.todo # <<>> /\ It.do = "sums" THEN Stale \ {It.at} ELSE Stale

CountInv ==
    /\ op # None => Paired(op.todo)
    /\ Cardinality(LeftStale) <= faults

LEMMA PairedNoXml ==
  ASSUME NEW S, NEW t \in Seq(S), \A s \in Range(t) : ~Writes(s)
  PROVE  Paired(t)
<1>1. Range(t) = {t[i] : i \in 1..Len(t)}
  BY RangeEquality
<1> QED
  BY <1>1 DEF Paired

LEMMA PairedConcat ==
  ASSUME NEW S, NEW t \in Seq(S), NEW u \in Seq(S), Paired(t), Paired(u)
  PROVE  Paired(t \o u)
<1> DEFINE v == t \o u
<1>1. /\ Len(t) \in Nat /\ Len(u) \in Nat /\ Len(v) = Len(t) + Len(u)
      /\ \A i \in 1..Len(t) + Len(u) : v[i] = IF i <= Len(t) THEN t[i] ELSE u[i - Len(t)]
  BY ConcatProperties
<1> HIDE DEF v
<1>2. ASSUME NEW i \in 1..Len(v), Writes(v[i])
      PROVE  i + 1 <= Len(v) /\ v[i + 1] = WriteSums(v[i].at)
  <2>1. CASE i <= Len(t)
    <3>1. i \in 1..Len(t) /\ v[i] = t[i]
      BY <1>1, <2>1
    <3>2. i + 1 <= Len(t) /\ t[i + 1] = WriteSums(t[i].at)
      BY <1>2, <3>1 DEF Paired
    <3>3. i + 1 \in 1..Len(t) + Len(u)
      BY <1>1, <3>2
    <3>4. v[i + 1] = t[i + 1] /\ i + 1 <= Len(v)
      BY <1>1, <3>2, <3>3
    <3> QED
      BY <3>1, <3>2, <3>4
  <2>2. CASE ~(i <= Len(t))
    <3> DEFINE j == i - Len(t)
    <3>1. j \in 1..Len(u) /\ v[i] = u[j]
      BY <1>1, <2>2
    <3>2. j + 1 <= Len(u) /\ u[j + 1] = WriteSums(u[j].at)
      BY <1>2, <3>1 DEF Paired
    <3>3. i + 1 \in 1..Len(t) + Len(u) /\ ~(i + 1 <= Len(t)) /\ (i + 1) - Len(t) = j + 1
      BY <1>1, <2>2, <3>2
    <3>4. v[i + 1] = u[(i + 1) - Len(t)]
      BY <1>1, <3>3
    <3>5. v[i + 1] = u[j + 1] /\ i + 1 <= Len(v)
      BY <1>1, <3>3, <3>4
    <3> QED
      BY <3>1, <3>2, <3>5
  <2> QED
    BY <2>1, <2>2
<1>3. Paired(v)
  BY <1>2 DEF Paired
<1> QED
  BY <1>3 DEF v

LEMMA PairedOne ==
  ASSUME NEW x, ~Writes(x)
  PROVE  Paired(<<x>>)
<1>1. Len(<<x>>) = 1 /\ <<x>>[1] = x
  OBVIOUS
<1> QED
  BY <1>1 DEF Paired

LEMMA PairedWriteRig ==
  ASSUME NEW n, NEW d
  PROVE  Paired(WriteRig(n, d))
<1> DEFINE t == WriteRig(n, d)
<1>1. Len(t) = 2 /\ t[1] = WriteXml(n, d) /\ t[2] = WriteSums(n)
  BY DEF WriteRig
<1> HIDE DEF t
<1>2. \A i \in 1..Len(t) : i = 1 \/ i = 2
  BY <1>1
<1>3. ASSUME NEW i \in 1..Len(t), Writes(t[i])
      PROVE  i + 1 <= Len(t) /\ t[i + 1] = WriteSums(t[i].at)
  <2>1. i = 1
    BY <1>1, <1>2, <1>3, WriteFields DEF Writes
  <2> QED
    BY <1>1, <2>1, WriteFields
<1>4. Paired(t)
  BY <1>3 DEF Paired
<1> QED
  BY <1>4 DEF t

LEMMA PairedWriteRigs ==
  ASSUME NEW S \in SUBSET Nicknames, NEW ns \in SetToSeqs(S), NEW docs, NEW D,
         WriteRigs(ns, docs) \in Seq(D)
  PROVE  Paired(WriteRigs(ns, docs))
<1> DEFINE t == WriteRigs(ns, docs)
           m == 2 * Len(ns)
<1>1. Len(ns) \in Nat
  BY OrderType
<1>2. m \in Nat /\ DOMAIN t = 1..m
  BY <1>1 DEF WriteRigs
<1>3. Len(t) = m
  BY <1>2
<1>4. \A j \in 1..m :
        t[j] = LET x == ns[(j + 1) \div 2]
               IN  IF j % 2 = 1 THEN WriteXml(x, docs[x]) ELSE WriteSums(x)
  BY Zenon DEF WriteRigs
<1> HIDE DEF t
<1>5. ASSUME NEW j \in 1..m, Writes(t[j])
      PROVE  j + 1 <= m /\ t[j + 1] = WriteSums(t[j].at)
  <2> DEFINE k == (j + 1) \div 2
             x == ns[k]
  <2>1. t[j] = IF j % 2 = 1 THEN WriteXml(x, docs[x]) ELSE WriteSums(x)
    BY <1>4, Zenon
  <2>2. j % 2 = 1 /\ t[j].at = x
    BY <1>5, <2>1, WriteFields DEF Writes
  <2>3. j + 1 \in 1..m /\ (j + 1) % 2 # 1 /\ ((j + 1) + 1) \div 2 = k
    BY <1>1, <2>2
  <2>4. t[j + 1] = LET y == ns[((j + 1) + 1) \div 2]
                   IN  IF (j + 1) % 2 = 1 THEN WriteXml(y, docs[y]) ELSE WriteSums(y)
    BY <1>4, <2>3, Zenon
  <2>5. t[j + 1] = WriteSums(x)
    BY <2>3, <2>4, Zenon
  <2> HIDE DEF k, x
  <2> QED
    BY <2>2, <2>3, <2>5
<1> HIDE DEF m
<1>6. Paired(t)
  BY <1>3, <1>5 DEF Paired
<1> QED
  BY <1>6 DEF t

LEMMA PairedTail ==
  ASSUME NEW S, NEW t \in Seq(S), t # <<>>, Paired(t)
  PROVE  /\ Paired(Tail(t))
         /\ Writes(Head(t)) => Tail(t) # <<>> /\ Head(Tail(t)) = WriteSums(Head(t).at)
<1> DEFINE u == Tail(t)
<1>1. /\ Head(t) = t[1] /\ Len(t) \in Nat \ {0} /\ u \in Seq(S) /\ Len(u) = Len(t) - 1
      /\ \A j \in 1..Len(u) : u[j] = t[j + 1]
  BY HeadTailProperties, LenProperties
<1> HIDE DEF u
<1>2. ASSUME NEW i \in 1..Len(u), Writes(u[i])
      PROVE  i + 1 <= Len(u) /\ u[i + 1] = WriteSums(u[i].at)
  <2>1. i + 1 \in 1..Len(t) /\ u[i] = t[i + 1]
    BY <1>1
  <2>2. (i + 1) + 1 <= Len(t) /\ t[(i + 1) + 1] = WriteSums(t[i + 1].at)
    BY <1>2, <2>1 DEF Paired
  <2>3. i + 1 \in 1..Len(u)
    BY <1>1, <2>2
  <2>4. u[i + 1] = t[(i + 1) + 1]
    BY <1>1, <2>3
  <2> QED
    BY <2>1, <2>2, <2>3, <2>4
<1>3. ASSUME Writes(Head(t)) PROVE u # <<>> /\ Head(u) = WriteSums(Head(t).at)
  <2>1. 1 \in 1..Len(t) /\ 1 + 1 = 2
    BY <1>1
  <2>2. 2 <= Len(t) /\ t[2] = WriteSums(t[1].at)
    BY <1>1, <1>3, <2>1 DEF Paired
  <2>3. 1 \in 1..Len(u)
    BY <1>1, <2>2
  <2>4. u[1] = t[2] /\ u # <<>>
    BY <1>1, <2>1, <2>3, LenProperties
  <2>5. Head(u) = u[1]
    BY <1>1, <2>4, HeadTailProperties
  <2> QED
    BY <1>1, <2>2, <2>4, <2>5
<1>4. Paired(u)
  BY <1>2 DEF Paired
<1> QED
  BY <1>3, <1>4 DEF u


LEMMA AssignsPaired ==
  ASSUME NEW d, d.comp \in Refs, NEW r \in RigIds \cup {None}
  PROVE  Paired(AssignAll(d, r))
<1> DEFINE t == AssignAll(d, r)
<1>1. t \in Seq(PlainSteps({})) /\ Range(t) = {Assign(d.comp[k], r) : k \in Kinds}
  BY AssignsPlain
<1> HIDE DEF t
<1>2. \A s \in Range(t) : ~Writes(s)
  BY <1>1, StepNames DEF Writes
<1>3. Paired(t)
  BY <1>1, <1>2, PairedNoXml
<1> QED
  BY <1>3 DEF t

\* A plan that goes on after its first _write_rig_folder.
LEMMA PairedWriteFirst ==
  ASSUME NEW S, NEW n, NEW d, NEW t \in Seq(S), Paired(t)
  PROVE  Paired(<<WriteXml(n, d)>> \o (<<WriteSums(n)>> \o t))
<1> DEFINE D == S \cup {WriteXml(n, d), WriteSums(n)}
           x == <<WriteXml(n, d)>>
           y == <<WriteSums(n)>>
<1>1. t \in Seq(D) /\ x \in Seq(D) /\ y \in Seq(D)
  BY SeqMonotonic
<1>2. WriteRig(n, d) = x \o y
  BY DEF WriteRig
<1> HIDE DEF x, y, D
<1>3. x \o y \in Seq(D) /\ (x \o y) \o t = x \o (y \o t)
  BY <1>1, ConcatProperties, ConcatAssociative
<1>4. Paired(x \o y)
  BY <1>2, PairedWriteRig
<1>5. Paired((x \o y) \o t)
  BY <1>1, <1>3, <1>4, PairedConcat
<1> QED
  BY <1>3, <1>5 DEF x, y

LEMMA PairedFirst ==
  ASSUME NEW S, NEW x, ~Writes(x), NEW t \in Seq(S), Paired(t)
  PROVE  Paired(<<x>> \o t)
<1> DEFINE D == S \cup {x}
           h == <<x>>
<1>1. t \in Seq(D) /\ h \in Seq(D)
  BY SeqMonotonic
<1>2. Paired(h)
  BY PairedOne
<1> HIDE DEF h, D
<1>3. Paired(h \o t)
  BY <1>1, <1>2, PairedConcat
<1> QED
  BY <1>3 DEF h

LEMMA PairedLast ==
  ASSUME NEW S, NEW x, ~Writes(x), NEW t \in Seq(S), Paired(t)
  PROVE  Paired(Append(t, x))
<1> DEFINE D == S \cup {x}
           h == <<x>>
<1>1. t \in Seq(D) /\ h \in Seq(D) /\ x \in D
  BY SeqMonotonic
<1>2. Paired(h)
  BY PairedOne
<1>3. Append(t, x) = t \o h
  BY <1>1, AppendIsConcat
<1> HIDE DEF h, D
<1>4. Paired(t \o h)
  BY <1>1, <1>2, PairedConcat
<1> QED
  BY <1>3, <1>4

LEMMA PairedNothing == Paired(<<>>)
<1>1. Len(<<>>) = 0
  OBVIOUS
<1> QED
  BY <1>1 DEF Paired

LEMMA CreatePaired ==
  ASSUME FleetTyped, NEW r \in RigIds, NEW n \in Nicknames, NEW refs \in Refs,
         CreateRig(r, n, refs)
  PROVE  Paired(op'.todo)
<1>1. PICK d \in Rigs :
        /\ d.id = r /\ d.comp = refs
        /\ op'.todo = <<[do |-> "mkdir", at |-> n]>>
                        \o (<<WriteXml(n, d)>> \o (<<WriteSums(n)>> \o AssignAll(d, r)))
        /\ <<WriteXml(n, d)>> \o (<<WriteSums(n)>> \o AssignAll(d, r)) \in Seq(PlainSteps({n}))
  BY CreateRigFits
<1> DEFINE free == AssignAll(d, r)
           rest == <<WriteXml(n, d)>> \o (<<WriteSums(n)>> \o free)
           first == [do |-> "mkdir", at |-> n]
<1>2. free \in Seq(PlainSteps({n})) /\ Paired(free)
  BY <1>1, AssignsPlain, AssignsPaired
<1> HIDE DEF free
<1>3. Paired(rest)
  BY <1>2, PairedWriteFirst
<1>4. rest \in Seq(PlainSteps({n})) /\ op'.todo = <<first>> \o rest
  BY <1>1 DEF free
<1>5. ~Writes(first)
  BY DEF Writes
<1> HIDE DEF rest, first
<1>6. Paired(<<first>> \o rest)
  BY <1>3, <1>4, <1>5, PairedFirst
<1> QED
  BY <1>4, <1>6

LEMMA UpdatePaired ==
  ASSUME FleetTyped, NEW r \in RigIds, NEW n \in Nicknames, NEW to \in Nicknames,
         UpdateRig(r, n, to)
  PROVE  Paired(op'.todo)
<1> DEFINE move == [do |-> "rename", at |-> n, to |-> to]
<1>1. PICK d \in Rigs :
        /\ WriteRig(n, d) \in Seq(CalmSteps)
        /\ op'.todo = WriteRig(n, d) \/ op'.todo = Append(WriteRig(n, d), move)
  BY UpdateRigFits
<1>2. Paired(WriteRig(n, d))
  BY PairedWriteRig
<1>3. ~Writes(move)
  BY DEF Writes
<1> HIDE DEF move
<1>4. Paired(Append(WriteRig(n, d), move))
  BY <1>1, <1>2, <1>3, PairedLast
<1> QED
  BY <1>1, <1>2, <1>4

LEMMA SetStarPaired ==
  ASSUME FleetTyped, NEW r \in RigIds, NEW n \in Nicknames, SetStar(r, n)
  PROVE  Paired(op'.todo)
<1>1. n \in ValidFolders
  BY DEF SetStar, IsAt, ValidFolders
<1>2. PICK others \in SetToSeqs(Starred \ {n}) : Run("star", r, StarPlan(n, others))
  BY DEF SetStar
<1> DEFINE clear == WriteRigs(others, Unstarred)
           d == WithStar(n, TRUE)
           stamp == IF rigs[n].xml.star THEN <<>> ELSE WriteRig(n, d)
<1>3. op'.todo = clear \o stamp
  BY <1>2 DEF Run, StarPlan
<1>4. ASSUME NEW m \in Starred
      PROVE  WriteXml(m, Unstarred[m]) \in CalmSteps /\ WriteSums(m) \in CalmSteps
  <2>1. m \in ValidFolders /\ Unstarred[m] = WithStar(m, FALSE)
    BY <1>4 DEF Unstarred, Starred
  <2> QED
    BY <2>1, StarNames, WriteCalm
<1>5. Starred \ {n} \in SUBSET Nicknames
  BY DEF Starred, ValidFolders
<1>6. clear \in Seq(CalmSteps)
  BY <1>4, <1>5, WritesIn
<1>7. Paired(clear)
  BY <1>5, <1>6, PairedWriteRigs
<1>8. WriteRig(n, d) \in Seq(CalmSteps) /\ Paired(WriteRig(n, d))
  BY <1>1, StarNames, WriteCalm, PairedWriteRig
<1> HIDE DEF d, clear
<1>9. stamp \in Seq(CalmSteps) /\ Paired(stamp)
  <2>1. <<>> \in Seq(CalmSteps) /\ Paired(<<>>)
    BY PairedNothing
  <2> QED
    BY <1>8, <2>1
<1> HIDE DEF stamp
<1> QED
  BY <1>3, <1>6, <1>7, <1>9, PairedConcat

LEMMA ReorderPaired ==
  ASSUME FleetTyped, NEW ns \in SetToSeqs(ValidFolders), ReorderRigs(ns)
  PROVE  Paired(op'.todo)
<1> DEFINE placed == [n \in ValidFolders |-> [rigs[n].xml EXCEPT !.order = Position(ns, n)]]
<1>1. PICK ms \in InOrder(Moved(ns), ns) : Run("reorder", None, WriteRigs(ms, placed))
  BY DEF ReorderRigs
<1> DEFINE t == WriteRigs(ms, placed)
<1>2. ms \in SetToSeqs(Moved(ns)) /\ Moved(ns) \in SUBSET Nicknames
  BY FoldersPresent DEF InOrder, Moved
<1>3. t \in Seq(CalmSteps) /\ op'.todo = t
  BY <1>1, ReorderRigsFits DEF Run
<1>4. Paired(t)
  <2> HIDE DEF placed
  <2> QED
    BY <1>2, <1>3, PairedWriteRigs
<1> QED
  BY <1>3, <1>4

LEMMA DeletePaired ==
  ASSUME FleetTyped, NEW r \in RigIds, NEW n \in Nicknames, DeleteRig(r, n)
  PROVE  Paired(op'.todo)
<1> DEFINE free == AssignAll(rigs[n].xml, None)
           trash == [do |-> "trash", at |-> n]
<1>1. PICK star \in Seq(CalmSteps) :
        /\ n \in ValidFolders
        /\ op'.todo = Append(star \o free, trash)
        /\ star = <<>> \/ \E s \in ValidFolders \ {n} : star = WriteRig(s, WithStar(s, TRUE))
        /\ star \o free \in Seq(PlainSteps(Present))
  BY DeleteRigFits
<1>2. Paired(star)
  BY <1>1, PairedNothing, PairedWriteRig
<1>3. star \in Seq(PlainSteps(Present))
  BY CalmPlain
<1>4. free \in Seq(PlainSteps(Present)) /\ Paired(free)
  BY <1>1, RigTypes, AssignsPlain, AssignsPaired
<1>5. ~Writes(trash)
  BY DEF Writes
<1> HIDE DEF free, trash
<1>6. Paired(star \o free)
  BY <1>2, <1>3, <1>4, PairedConcat
<1>7. Paired(Append(star \o free, trash))
  BY <1>1, <1>5, <1>6, PairedLast
<1> QED
  BY <1>1, <1>7

LEMMA SwapPaired ==
  ASSUME FleetTyped, NEW r \in RigIds, NEW n \in Nicknames, NEW m \in Comps,
         KindOf[m] = "main", SwapMain(r, n, m)
  PROVE  Paired(op'.todo)
<1> DEFINE d == rigs[n].xml
           old == d.comp["main"]
           a == <<Assign(old, None), Assign(m, r)>>
<1>1. \/ Run("swap", r, <<>>)
      \/ Run("swap", r, WriteRig(n, Swapped(d, m)) \o a)
  BY DEF SwapMain
<1>2. CASE Run("swap", r, <<>>)
  BY <1>2, PairedNothing DEF Run
<1>3. CASE Run("swap", r, WriteRig(n, Swapped(d, m)) \o a)
  <2> DEFINE w == WriteRig(n, Swapped(d, m))
             D == {WriteXml(n, Swapped(d, m)), WriteSums(n), Assign(old, None), Assign(m, r)}
  <2>1. w \in Seq(D) /\ a \in Seq(D)
    BY DEF WriteRig
  <2>2. Paired(w)
    BY PairedWriteRig
  <2>3. Paired(a)
    <3>1. Len(a) = 2 /\ a[1] = Assign(old, None) /\ a[2] = Assign(m, r)
      OBVIOUS
    <3> HIDE DEF a
    <3>2. \A i \in 1..Len(a) : i = 1 \/ i = 2
      BY <3>1
    <3>3. \A i \in 1..Len(a) : ~Writes(a[i])
      BY <3>1, <3>2, StepNames DEF Writes
    <3> QED
      BY <3>3 DEF Paired
  <2>4. op'.todo = w \o a
    BY <1>3 DEF Run
  <2> HIDE DEF w, a, D
  <2> QED
    BY <2>1, <2>2, <2>3, <2>4, PairedConcat
<1> QED
  BY <1>1, <1>2, <1>3

LEMMA RequestPaired ==
  ASSUME FleetTyped, Request
  PROVE  op = None /\ rigs' = rigs /\ faults' = faults /\ (op' # None => Paired(op'.todo))
<1>1. op = None /\ rigs' = rigs /\ faults' = faults
  BY DEF Request, CreateRig, UpdateRig, SetStar, DeleteRig, SwapMain, ReorderRigs,
         CreateComponent, UpdateComponent, DeleteComponent, Idle
<1>2. ASSUME NEW c \in Comps, NEW s \in {"active", "retired"},
             CreateComponent(c, s) \/ UpdateComponent(c, s) \/ DeleteComponent(c)
      PROVE  op' = None
  BY <1>1, <1>2 DEF CreateComponent, UpdateComponent, DeleteComponent
<1>3. "active" \in {"active", "retired"}
  OBVIOUS
<1> QED
  BY <1>1, <1>2, <1>3, CreatePaired, UpdatePaired, SetStarPaired, ReorderPaired, DeletePaired,
     SwapPaired DEF Request

LEMMA CountRigs ==
  ASSUME NEW S \in SUBSET Nicknames
  PROVE  /\ Cardinality(S) \in Nat
         /\ \A T \in SUBSET S : Cardinality(T) <= Cardinality(S)
         /\ \A x \in S : Cardinality(S \ {x}) = Cardinality(S) - 1
         /\ \A x : Cardinality(S) <= Cardinality(S \ {x}) + 1
<1>1. IsFiniteSet(S) /\ Cardinality(S) \in Nat
  BY NicknamesAssumption, FS_Subset, FS_CardinalityType
<1>2. \A T \in SUBSET S : Cardinality(T) <= Cardinality(S)
  BY <1>1, FS_Subset
<1>3. \A x \in S : Cardinality(S \ {x}) = Cardinality(S) - 1
  BY <1>1, FS_RemoveElement
<1>4. ASSUME NEW x PROVE Cardinality(S) <= Cardinality(S \ {x}) + 1
  <2>1. CASE x \in S
    BY <1>1, <1>3, <2>1
  <2>2. CASE x \notin S
    <3>1. S \ {x} = S
      BY <2>2
    <3> QED
      BY <1>1, <3>1
  <2> QED
    BY <2>1, <2>2
<1> QED
  BY <1>1, <1>2, <1>3, <1>4

LEMMA StaleFacts ==
  /\ Stale \in SUBSET Nicknames /\ LeftStale \in SUBSET Stale
  /\ Cardinality(LeftStale) \in Nat /\ Cardinality(Stale) \in Nat
  /\ Cardinality(LeftStale) <= Cardinality(Stale)
  /\ Cardinality(Stale) <= Cardinality(LeftStale) + 1
  /\ op = None => LeftStale = Stale
  /\ op # None /\ op.todo = <<>> => LeftStale = Stale
  /\ \A do : Doing(do) /\ do # "sums" => LeftStale = Stale
<1>1. Stale \in SUBSET Nicknames /\ LeftStale \in SUBSET Stale
  BY DEF Stale, ValidFolders, LeftStale
<1>2. LeftStale = Stale \/ \E x : LeftStale = Stale \ {x}
  BY DEF LeftStale
<1>3. LeftStale \in SUBSET Nicknames
  BY <1>1
<1> QED
  BY <1>1, <1>2, <1>3, CountRigs DEF LeftStale, Doing, It

\* No step of a plan leaves more rigs with a stale manifest, once the
\* SHA256SUMS that is next in the plan is counted as written.
LEMMA StaleXml ==
  ASSUME FleetTyped, Paired(op.todo), WriteRigXml
  PROVE  LeftStale' \subseteq LeftStale
<1>1. /\ op # None /\ op' # None /\ op.todo \in Seq(Steps) /\ op.todo # <<>>
      /\ op'.todo = Tail(op.todo) /\ It = Head(op.todo) /\ It.do = "xml" /\ LeftStale = Stale
  BY StepShape, StaleFacts DEF WriteRigXml
<1> DEFINE t == op.todo
<1>2. Tail(t) # <<>> /\ Head(Tail(t)) = WriteSums(Head(t).at)
  <2>1. Writes(Head(t))
    BY <1>1 DEF Writes
  <2>2. t \in Seq(Steps) /\ t # <<>> /\ Paired(t)
    BY <1>1
  <2> HIDE DEF t
  <2> QED
    BY <2>1, <2>2, PairedTail
<1>3. op'.todo # <<>> /\ It' = WriteSums(It.at)
  BY <1>1, <1>2 DEF It
<1>4. LeftStale' = Stale' \ {It.at}
  BY <1>1, <1>3, WriteFields DEF LeftStale
<1>5. Stale' \subseteq Stale \cup {It.at}
  <2>1. /\ ValidFolders' = ValidFolders \cup {It.at}
        /\ \A n \in Nicknames \ {It.at} : rigs'[n] = rigs[n]
    BY XmlWritten
  <2> DEFINE a == It.at
             V == ValidFolders'
  <2>2. V = ValidFolders \cup {a} /\ V \subseteq Nicknames
    BY <2>1 DEF ValidFolders
  <2>3. Stale' = {n \in V : rigs'[n].sums # rigs'[n].xml}
    BY DEF Stale
  <2>4. \A n \in Nicknames \ {a} : rigs'[n] = rigs[n]
    BY <2>1
  <2> HIDE DEF a, V
  <2>5. Stale' \subseteq Stale \cup {a}
    BY <2>2, <2>3, <2>4 DEF Stale
  <2> QED
    BY <2>5 DEF a
<1> DEFINE a == It.at
           S == Stale'
           L == LeftStale'
<1>6. L = S \ {a} /\ S \subseteq Stale \cup {a}
  BY <1>4, <1>5
<1> HIDE DEF a, S, L
<1>7. L \subseteq Stale
  BY <1>6
<1> QED
  BY <1>1, <1>7 DEF L

LEMMA StaleSums ==
  ASSUME FleetTyped, WriteRigSums
  PROVE  LeftStale' \subseteq LeftStale
<1>1. op # None /\ op.todo # <<>> /\ It.do = "sums"
  BY StepShape DEF WriteRigSums
<1>2. LeftStale = Stale \ {It.at}
  BY <1>1 DEF LeftStale
<1>3. /\ ValidFolders' = ValidFolders
      /\ rigs'[It.at].sums = rigs'[It.at].xml
      /\ \A n \in Nicknames \ {It.at} : rigs'[n] = rigs[n]
  BY SumsWritten
<1> DEFINE a == It.at
<1>4. LeftStale' \subseteq Stale'
  BY DEF LeftStale
<1>5. Stale' = {n \in ValidFolders : rigs'[n].sums # rigs'[n].xml}
  BY <1>3 DEF Stale
<1>6. Stale' \subseteq Stale \ {a}
  <2>1. /\ rigs'[a].sums = rigs'[a].xml
        /\ \A n \in Nicknames \ {a} : rigs'[n] = rigs[n]
        /\ ValidFolders \subseteq Nicknames
    BY <1>3 DEF ValidFolders
  <2> HIDE DEF a
  <2> QED
    BY <1>5, <2>1 DEF Stale
<1> QED
  BY <1>2, <1>4, <1>6

LEMMA StaleRename ==
  ASSUME FleetTyped, RenameRig
  PROVE  Cardinality(LeftStale') <= Cardinality(LeftStale)
<1>1. /\ It.at \in Nicknames /\ It.to \in Nicknames /\ op'.todo = <<>>
      /\ rigs'[It.at] = None /\ (It.to # It.at => rigs'[It.to] = rigs[It.at])
      /\ \A n \in Nicknames \ {It.at, It.to} : rigs'[n] = rigs[n]
  BY RigRenamed
<1>2. LeftStale = Stale
  BY StaleFacts DEF RenameRig
<1>3. LeftStale' = Stale'
  BY <1>1 DEF LeftStale
<1> DEFINE a == It.at
           b == It.to
           S == Stale'
           f == rigs'
<1>4. S = {n \in Nicknames : f[n] # None /\ f[n].xml # None /\ f[n].sums # f[n].xml}
  BY DEF Stale, ValidFolders, Valid
<1>5. /\ a \in Nicknames /\ b \in Nicknames /\ f[a] = None /\ (b # a => f[b] = rigs[a])
      /\ \A n \in Nicknames \ {a, b} : f[n] = rigs[n]
  BY <1>1
<1> HIDE DEF a, b, S, f
<1>6. Stale = {n \in Nicknames : rigs[n] # None /\ rigs[n].xml # None /\ rigs[n].sums # rigs[n].xml}
  BY DEF Stale, ValidFolders, Valid
<1>7. S \subseteq (Stale \ {a}) \cup {b} /\ (b \in S \ Stale => a \in Stale /\ a # b)
  BY <1>4, <1>5, <1>6
<1>8. Cardinality(S) <= Cardinality(Stale)
  <2>1. CASE S \subseteq Stale
    BY <2>1, StaleFacts, CountRigs
  <2>2. CASE ~(S \subseteq Stale)
    <3>1. b \in S /\ a \in Stale /\ S \ {b} \subseteq Stale \ {a}
      BY <1>7, <2>2
    <3>2. S \in SUBSET Nicknames /\ Stale \in SUBSET Nicknames /\ Stale \ {a} \in SUBSET Nicknames
      BY <1>4, <1>6
    <3>3. Cardinality(S \ {b}) <= Cardinality(Stale \ {a})
      BY <3>1, <3>2, CountRigs
    <3>4. /\ Cardinality(S) \in Nat /\ Cardinality(Stale) \in Nat
          /\ Cardinality(S \ {b}) = Cardinality(S) - 1
          /\ Cardinality(Stale \ {a}) = Cardinality(Stale) - 1
      BY <3>1, <3>2, CountRigs
    <3> QED
      BY <3>3, <3>4
  <2> QED
    BY <2>1, <2>2
<1> QED
  BY <1>2, <1>3, <1>8 DEF S

LEMMA StaleOther ==
  ASSUME FleetTyped, MakeFolder \/ AssignComponent \/ TrashRig \/ Finish
  PROVE  LeftStale' \subseteq LeftStale
<1>1. LeftStale = Stale
  BY StaleFacts DEF MakeFolder, AssignComponent, TrashRig, Finish
<1>2. ValidFolders' \subseteq ValidFolders /\ \A n \in ValidFolders' : rigs'[n] = rigs[n]
  <2>1. CASE MakeFolder
    BY <2>1, FolderMade
  <2>2. CASE AssignComponent \/ Finish
    BY <2>2 DEF AssignComponent, Finish, ValidFolders, Valid
  <2>3. CASE TrashRig
    <3>1. rigs'[It.at] = None /\ \A n \in Nicknames \ {It.at} : rigs'[n] = rigs[n]
      BY <2>3, RigTrashed
    <3> QED
      BY <3>1 DEF ValidFolders, Valid
  <2> QED
    BY <2>1, <2>2, <2>3
<1>3. LeftStale' \subseteq Stale' /\ Stale' = {n \in ValidFolders' : rigs'[n].sums # rigs'[n].xml}
  BY DEF LeftStale, Stale
<1>4. Stale' \subseteq Stale
  BY <1>2, <1>3 DEF Stale
<1> QED
  BY <1>1, <1>3, <1>4

LEMMA CountPerform ==
  ASSUME FleetTyped, CountInv, Perform
  PROVE  CountInv'
<1>1. op # None /\ Paired(op.todo) /\ faults' = faults
  BY DEF CountInv, Perform, MakeFolder, WriteRigXml, WriteRigSums, RenameRig, AssignComponent,
         TrashRig, Finish, Doing
<1>2. op' # None => Paired(op'.todo)
  <2>1. CASE Finish
    BY <2>1 DEF Finish
  <2>2. CASE PlanStep
    <3> DEFINE t == op.todo
    <3>1. t \in Seq(Steps) /\ t # <<>> /\ op'.todo = Tail(t) /\ Paired(t)
      BY <1>1, <2>2, PlanStepFacts
    <3> HIDE DEF t
    <3> QED
      BY <3>1, PairedTail
  <2> QED
    BY <2>1, <2>2 DEF Perform, PlanStep
<1>3. Cardinality(LeftStale') <= Cardinality(LeftStale)
  <2>1. LeftStale' \subseteq LeftStale \/ RenameRig
    BY <1>1, StaleXml, StaleSums, StaleOther DEF Perform
  <2>2. LeftStale \in SUBSET Nicknames
    BY StaleFacts
  <2> QED
    BY <2>1, <2>2, CountRigs, StaleRename
<1>4. /\ Cardinality(LeftStale) \in Nat /\ faults \in Nat /\ Cardinality(LeftStale) <= faults
      /\ LeftStale' \in SUBSET Nicknames
  <2>1. LeftStale' \subseteq Nicknames
    BY DEF LeftStale, Stale, ValidFolders
  <2> QED
    BY <2>1, StaleFacts DEF FleetTyped, TypeOK, CountInv
<1>5. Cardinality(LeftStale') \in Nat
  BY <1>4, CountRigs
<1>6. Cardinality(LeftStale') <= faults'
  BY <1>1, <1>3, <1>4, <1>5
<1> QED
  BY <1>2, <1>6 DEF CountInv

LEMMA CountInit == Init => CountInv
<1> SUFFICES ASSUME Init PROVE CountInv
  OBVIOUS
<1>1. LeftStale = {} /\ op = None /\ faults = 0
  BY DEF Init, LeftStale, Stale, ValidFolders, Valid
<1>2. Cardinality(LeftStale) = 0
  BY <1>1, FS_EmptySet
<1> QED
  BY <1>1, <1>2 DEF CountInv

LEMMA CountNext == FleetTyped /\ CountInv /\ [Next]_vars => CountInv'
<1> SUFFICES ASSUME FleetTyped, CountInv, [Next]_vars PROVE CountInv'
  OBVIOUS
<1>1. faults \in Nat /\ Cardinality(LeftStale) <= faults /\ Cardinality(LeftStale) \in Nat
      /\ Cardinality(Stale) \in Nat /\ Cardinality(Stale) <= Cardinality(LeftStale) + 1
  BY StaleFacts DEF FleetTyped, TypeOK, CountInv
<1>2. CASE Request
  <2>1. op = None /\ rigs' = rigs /\ faults' = faults /\ (op' # None => Paired(op'.todo))
    BY <1>2, RequestPaired
  <2>2. LeftStale = Stale /\ Stale' = Stale /\ LeftStale' \in SUBSET Stale
    BY <2>1, StaleFacts DEF LeftStale, Stale, ValidFolders, Valid
  <2> DEFINE L == LeftStale'
  <2>3. L \in SUBSET Stale /\ Stale \in SUBSET Nicknames
    BY <2>2, StaleFacts
  <2> HIDE DEF L
  <2>4. Cardinality(L) \in Nat /\ Cardinality(L) <= Cardinality(Stale)
    BY <2>3, CountRigs
  <2>5. Cardinality(LeftStale') <= faults'
    BY <1>1, <2>1, <2>2, <2>4 DEF L
  <2> QED
    BY <2>1, <2>5 DEF CountInv
<1>3. CASE HandlerFails \/ Crash
  <2>1. op' = None /\ rigs' = rigs /\ faults' = faults + 1
    BY <1>3 DEF HandlerFails, Crash
  <2>2. LeftStale' = Stale
    BY <2>1 DEF LeftStale, Stale, ValidFolders, Valid
  <2> QED
    BY <1>1, <2>1, <2>2 DEF CountInv
<1>4. CASE Restart \/ Quit \/ UNCHANGED vars
  <2>1. op' = op /\ rigs' = rigs /\ faults' \in {faults, faults + 1}
    BY <1>4 DEF Restart, Boot, ReconcileComponent, ReconcileDone, ReconcileFails, Quit, vars
  <2>2. LeftStale' = LeftStale
    BY <2>1 DEF LeftStale, Stale, ValidFolders, Valid, It
  <2>3. Cardinality(LeftStale') <= faults'
    BY <1>1, <2>1, <2>2
  <2> QED
    BY <2>1, <2>3 DEF CountInv
<1> QED
  BY <1>2, <1>3, <1>4, CountPerform DEF Next
-----------------------------------------------------------------------------
(* Theorems. *)

\* D37: no request of rig_service or of a component service, and no step of
\* one that others have stopped before, leaves a retired component on a rig.
THEOREM RigsStayActive == Spec => RequestsKeepRigsActive
<1>1. FleetInv /\ [Next]_vars => FleetInv'
  BY FleetNext
<1>2. FleetInv /\ [Next]_vars
        => [mode = "serving" => RetiredOnRig' \subseteq RetiredOnRig]_vars
  BY FleetNext
<1> QED
  BY <1>1, <1>2, FleetInit, PTL DEF Spec, RequestsKeepRigsActive

\* D70: when folder_reconcile_rigs ends, every component file agrees with the
\* rig.xml files, except a component that two rigs claim.
THEOREM PassAgrees == Spec => ReconcileAgrees
<1>1. FleetInv /\ [Next]_vars => FleetInv'
  BY FleetNext
<1>2. FleetInv /\ [Next]_vars
        => [ReconcileDone => \A c \in Comps : Live(c) =>
              Contested(c) \/ comp[c].rig = Expected(c)]_vars
  BY DEF FleetInv, Swept, ReconcileDone
<1> QED
  BY <1>1, <1>2, FleetInit, PTL DEF Spec, ReconcileAgrees

\* Whatever stops half-way, a folder holds nothing or one rig.xml that names a
\* component of every kind, a component file a status and an assignment, and a
\* plan well-formed steps only.
THEOREM TypeCorrect == Spec => []TypeOK
<1>1. FleetTyped => TypeOK
  BY DEF FleetTyped
<1> QED
  BY <1>1, TypedInit, TypedNext, PTL DEF Spec

\* D37: with no handler running and none stopped half-way so far, a rig and
\* its components name each other, whatever creates, updates, swaps, deletes
\* and boot passes came before.
THEOREM RefsAlwaysAgree == Spec => []RefsAgree
<1>1. Init => FleetTyped /\ RefsInv
  BY TypedInit, RefsInit
<1>2. FleetTyped /\ RefsInv /\ [Next]_vars => FleetTyped' /\ RefsInv'
  BY TypedNext, RefsNext
<1>3. FleetTyped /\ RefsInv => RefsAgree
  BY RestAgrees
<1> QED
  BY <1>1, <1>2, <1>3, PTL DEF Spec

StarredFleet == FleetTyped /\ StarsInv

LEMMA StarredInit == Init => StarredFleet
  BY TypedInit DEF StarredFleet, Init, StarsInv

LEMMA StarredNext == StarredFleet /\ [Next]_vars => StarredFleet'
  BY TypedNext, StarsNext DEF StarredFleet

\* D58: a second star appears only while delete_rig stamps the successor,
\* whatever stars earlier failures left and wherever the handlers stop.
THEOREM OnlyDeleteMakesTwoStars == Spec => TwoStarsOnlyWhileDeleting
<1>1. StarredFleet /\ [Next]_vars
        => [Cardinality(Starred) <= 1 /\ Cardinality(Starred') > 1
              => op # None /\ op.h = "delete"]_vars
  <2> SUFFICES ASSUME StarredFleet, [Next]_vars, Cardinality(Starred) <= 1,
                      Cardinality(Starred') > 1
               PROVE  op # None /\ op.h = "delete"
    OBVIOUS
  <2>1. Starred \in SUBSET Nicknames /\ Starred' \in SUBSET Nicknames
    BY DEF Starred, ValidFolders
  <2>2. \A a, b \in Starred : a = b
    BY <2>1, AtMostOne
  <2>3. ~(\A a, b \in Starred' : a = b)
    <3> DEFINE Z == Starred'
    <3>1. Z \in SUBSET Nicknames /\ Cardinality(Z) > 1
      BY <2>1
    <3> HIDE DEF Z
    <3>2. Cardinality(Z) \in Nat /\ (Cardinality(Z) <= 1 <=> \A a, b \in Z : a = b)
      BY <3>1, AtMostOne
    <3>3. ~(\A a, b \in Z : a = b)
      BY <3>1, <3>2
    <3> QED
      BY <3>3 DEF Z
  <2>4. PlanStep
    BY <2>2, <2>3, StarsOnlyByPlans DEF StarredFleet
  <2> QED
    BY <2>2, <2>3, <2>4, SecondStar, PlanStepFacts DEF StarredFleet
<1> QED
  BY <1>1, StarredInit, StarredNext, PTL DEF Spec, TwoStarsOnlyWhileDeleting

\* D58: whatever stars earlier failures left, a set_star that completes leaves
\* exactly its target starred.
THEOREM SetStarHeals == Spec => SetStarRepairs
<1>1. StarredFleet /\ [Next]_vars
        => [Finish /\ op.h = "star" => \E n \in Starred : Starred = {n} /\ IsAt(op.rig, n)]_vars
  <2> SUFFICES ASSUME StarredFleet, Finish, op.h = "star"
               PROVE  \E n \in Starred : Starred = {n} /\ IsAt(op.rig, n)
    OBVIOUS
  <2>1. PICK t : t = op.todo /\ t = <<>>
    BY DEF Finish
  <2>2. Len(t) = 0 /\ Range(t) = {}
    BY <2>1, NothingComes
  <2>3. PICK n \in ValidFolders :
          /\ IsAt(op.rig, n)
          /\ n \in Starred \/ \E s \in Range(t) : Writes(s) /\ s.at = n
          /\ \A m \in Starred \ {n} : \E i \in 1..Len(t) : t[i].at = m
    BY <2>1 DEF StarredFleet, StarsInv, Finish, Repairing, Cleared
  <2> QED
    BY <2>2, <2>3
<1> QED
  BY <1>1, StarredInit, StarredNext, PTL DEF Spec, SetStarRepairs

\* D58: no step of a delete_rig takes the last star while another rig remains.
THEOREM DeleteKeeps == Spec => DeleteKeepsAStar
<1>1. StarredFleet /\ [Next]_vars
        => [op # None /\ op.h = "delete" /\ Starred # {} /\ ValidFolders' # {}
              => Starred' # {}]_vars
  BY StarsOnlyByPlans, SucceedingStep DEF StarredFleet, StarsInv
<1> QED
  BY <1>1, StarredInit, StarredNext, PTL DEF Spec, DeleteKeepsAStar

\* D59: whatever order earlier failures, renames and swaps left, a completed
\* reorder_rigs numbers the rigs 0, 1, 2, ...
THEOREM ReorderNumbers == Spec => ReorderRepairs
<1>1. StarredFleet /\ [Next]_vars
        => [Finish /\ op.h = "reorder" =>
              {rigs[n].xml.order : n \in ValidFolders} = 0..Cardinality(ValidFolders) - 1]_vars
  <2> SUFFICES ASSUME StarredFleet, Finish, op.h = "reorder"
               PROVE  {rigs[n].xml.order : n \in ValidFolders} = 0..Cardinality(ValidFolders) - 1
    OBVIOUS
  <2>1. PICK ns \in SetToSeqs(ValidFolders) :
          \A n \in ValidFolders : rigs[n].xml.order = Position(ns, n)
    BY NothingComes DEF StarredFleet, StarsInv, Finish, Numbering
  <2>2. /\ ns \in Seq(ValidFolders) /\ Len(ns) = Cardinality(ValidFolders) /\ Len(ns) \in Nat
        /\ \A i, j \in 1..Len(ns) : i # j => ns[i] # ns[j]
    BY FoldersPresent, OrderType DEF SetToSeqs
  <2>3. \A n \in ValidFolders :
          Position(ns, n) \in 0..Len(ns) - 1 /\ ns[Position(ns, n) + 1] = n
    BY PositionType
  <2>4. ASSUME NEW i \in 0..Len(ns) - 1
        PROVE  \E n \in ValidFolders : rigs[n].xml.order = i
    <3>1. i + 1 \in 1..Len(ns)
      BY <2>2
    <3>2. ns[i + 1] \in ValidFolders
      BY <2>2, <3>1, ElementOfSeq
    <3> DEFINE p == Position(ns, ns[i + 1])
    <3>3. p \in 0..Len(ns) - 1 /\ ns[p + 1] = ns[i + 1] /\ rigs[ns[i + 1]].xml.order = p
      BY <2>1, <2>3, <3>2
    <3> HIDE DEF p
    <3>4. p + 1 \in 1..Len(ns)
      BY <2>2, <3>3
    <3>5. p = i
      BY <2>2, <3>1, <3>3, <3>4
    <3> QED
      BY <3>2, <3>3, <3>5
  <2>5. ASSUME NEW n \in ValidFolders PROVE rigs[n].xml.order \in 0..Len(ns) - 1
    BY <2>1, <2>3
  <2>6. {rigs[n].xml.order : n \in ValidFolders} = 0..Len(ns) - 1
    BY <2>4, <2>5
  <2> QED
    BY <2>2, <2>6
<1> QED
  BY <1>1, StarredInit, StarredNext, PTL DEF Spec, ReorderRepairs

\* D5: each stop leaves at most one rig whose SHA256SUMS does not certify its
\* rig.xml, however many rigs the stopped handlers were to write.
THEOREM StaleManifestsCounted == Spec => []OneStaleManifestPerStop
<1>1. Init => FleetTyped /\ CountInv
  BY TypedInit, CountInit
<1>2. FleetTyped /\ CountInv /\ [Next]_vars => FleetTyped' /\ CountInv'
  BY TypedNext, CountNext
<1>3. FleetTyped /\ CountInv => OneStaleManifestPerStop
  <2> SUFFICES ASSUME FleetTyped, CountInv PROVE OneStaleManifestPerStop
    OBVIOUS
  <2>1. faults \in Nat /\ Cardinality(LeftStale) <= faults
    BY DEF FleetTyped, TypeOK, CountInv
  <2> QED
    BY <2>1, StaleFacts DEF OneStaleManifestPerStop
<1> QED
  BY <1>1, <1>2, <1>3, PTL DEF Spec
=============================================================================
