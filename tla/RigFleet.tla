------------------------------ MODULE RigFleet ------------------------------
(***************************************************************************)
(* Rigs, the components they are built from, and the boot pass that makes  *)
(* them agree: services/rig_service.py, the four component services and    *)
(* services/rig_reconcile_service.py.                                      *)
(*                                                                         *)
(* rig.xml names one component of every kind; every component's file names *)
(* the rig it is on.  Every mutating function holds WRITER_LOCK and reads  *)
(* all it needs before its first write, so a handler is a plan: the list   *)
(* of durable steps it will take, performed one by one.  An error or a     *)
(* kill drops the rest of the plan.                                        *)
(***************************************************************************)
EXTENDS Naturals, Sequences, FiniteSets, SequencesExt

CONSTANTS
    RigIds,      \* UUIDs create_rig may draw
    Nicknames,   \* sanitized nicknames: the names of the folders in rigs/
    Registry,    \* _COMPONENT_REGISTRY: the kinds, in the order of its loop
    KindOf,      \* component UUID -> kind
    None,        \* no value
    MaxFaults    \* bound on the plans and boot passes that stop half-way

Kinds == {Registry[j] : j \in 1..Len(Registry)}
Comps == DOMAIN KindOf

ASSUME RegistryAssumption == Registry \in Seq(STRING) /\ "main" \in Kinds
ASSUME KindAssumption == KindOf \in [Comps -> Kinds]
ASSUME FaultsAssumption == MaxFaults \in Nat
ASSUME NicknamesAssumption == IsFiniteSet(Nicknames)

Refs == {cs \in [Kinds -> Comps] : \A k \in Kinds : KindOf[cs[k]] = k}
Rigs == [id : RigIds, comp : Refs, star : BOOLEAN, order : Nat \cup {None}]

\* sums: the rig.xml whose digest SHA256SUMS holds (manifest.generate).
Folders == [xml : Rigs \cup {None}, sums : Rigs \cup {None}]

\* "trashed": the file is in .trash/inventory/ and no service reads it.
Parts == [status : {"active", "retired", "trashed"}, rig : RigIds \cup {None}]

\* Durable steps of a handler.
Steps ==
    [do : {"mkdir", "sums", "trash"}, at : Nicknames]
      \cup [do : {"xml"}, at : Nicknames, doc : Rigs]
      \cup [do : {"rename"}, at : Nicknames, to : Nicknames]
      \cup [do : {"assign"}, part : Comps, to : RigIds \cup {None}]

Handlers == {"create", "update", "star", "reorder", "delete", "swap"}
Plans == [h : Handlers, rig : RigIds \cup {None}, todo : Seq(Steps)]

ASSUME NoneAssumption ==
    /\ None \notin RigIds /\ None \notin Nat /\ None \notin Rigs
    /\ None \notin Folders /\ None \notin Parts /\ None \notin Plans

VARIABLES
    rigs,     \* rigs/: nickname -> folder, or None
    comp,     \* inventory/: component -> its file, or None before it exists
    gone,     \* ids of the rigs in .trash/rigs/
    op,       \* the handler that holds WRITER_LOCK, or None
    mode,     \* "serving", "stopped", or "reconcile" (boot)
    sweep,    \* components folder_reconcile_rigs has yet to visit
    faults    \* plans and boot passes stopped so far

vars == <<rigs, comp, gone, op, mode, sweep, faults>>

TypeOK ==
    /\ rigs \in [Nicknames -> Folders \cup {None}]
    /\ comp \in [Comps -> Parts \cup {None}]
    /\ gone \subseteq RigIds
    /\ op \in Plans \cup {None}
    /\ mode \in {"serving", "stopped", "reconcile"}
    /\ sweep \subseteq Comps
    /\ faults \in 0..MaxFaults

Init ==
    /\ rigs = [n \in Nicknames |-> None]
    /\ comp = [c \in Comps |-> None]
    /\ gone = {} /\ op = None /\ mode = "serving" /\ sweep = {} /\ faults = 0

-----------------------------------------------------------------------------
(* What the handlers read. *)

EmptyDir == [xml |-> None, sums |-> None]

\* A folder without a readable rig.xml is the stub of a stopped create_rig.
Valid(n) == rigs[n] # None /\ rigs[n].xml # None

\* _read_all_rigs
ValidFolders == {n \in Nicknames : Valid(n)}

\* _find_rig_by_id
IsAt(r, n) == Valid(n) /\ rigs[n].xml.id = r

Live(c) == comp[c] # None /\ comp[c].status # "trashed"

\* _validate_component_for_assignment
Usable(c, r) == Live(c) /\ comp[c].status = "active" /\ comp[c].rig \in {None, r}

Starred == {n \in ValidFolders : rigs[n].xml.star}

\* Rigs that lost their display_order count as -1.
NextOrder ==
    LET used == {rigs[n].xml.order : n \in ValidFolders} \ {None}
    IN  IF used = {} THEN 0 ELSE Max(used) + 1

Idle == mode = "serving" /\ op = None

\* uuid4 never repeats.
Fresh(r) == r \notin gone /\ \A n \in ValidFolders : rigs[n].xml.id # r

-----------------------------------------------------------------------------
(* Plans. *)

\* _write_rig_folder
WriteXml(n, d) == [do |-> "xml", at |-> n, doc |-> d]
WriteSums(n) == [do |-> "sums", at |-> n]
WriteRig(n, d) == <<WriteXml(n, d), WriteSums(n)>>

\* Mutant: every rig.xml first, then every SHA256SUMS.
MutWriteRigs(ns, docs) ==
    [j \in 1..2 * Len(ns) |->
        IF j <= Len(ns) THEN WriteXml(ns[j], docs[ns[j]]) ELSE WriteSums(ns[j - Len(ns)])]

\* One _write_rig_folder after the other; docs[n] is what folder n gets.
WriteRigs(ns, docs) ==
    [j \in 1..2 * Len(ns) |->
        LET n == ns[(j + 1) \div 2]
        IN  IF j % 2 = 1 THEN WriteXml(n, docs[n]) ELSE WriteSums(n)]

\* set_assigned_rig_id of the kind's service
Assign(c, r) == [do |-> "assign", part |-> c, to |-> r]

\* The loop over _COMPONENT_REGISTRY.
AssignAll(d, r) ==
    [j \in 1..Len(Registry) |-> Assign(d.comp[Registry[j]], r)]

Run(h, r, steps) == op' = [h |-> h, rig |-> r, todo |-> steps]

\* update_rig and swap_main build a new Rig and name neither starred nor
\* display_order, so both fall back to the model's defaults.
Rebuilt(d, refs) == [id |-> d.id, comp |-> refs, star |-> FALSE, order |-> None]

Swapped(d, m) == Rebuilt(d, [d.comp EXCEPT !["main"] = m])

-----------------------------------------------------------------------------
(* The handlers of rig_service. *)

CreateRig(r, n, refs) ==
    /\ Idle /\ Fresh(r)
    /\ \A k \in Kinds : Usable(refs[k], r)
    /\ rigs[n] = None                     \* else 409 rig_nickname_conflict
    /\ LET d == [id |-> r, comp |-> refs, star |-> ValidFolders = {},
                 order |-> NextOrder]
       IN  Run("create", r, <<[do |-> "mkdir", at |-> n]>> \o WriteRig(n, d)
                              \o AssignAll(d, r))
    /\ UNCHANGED <<rigs, comp, gone, mode, sweep, faults>>

UpdateRig(r, n, to) ==
    /\ Idle /\ IsAt(r, n)
    /\ to # n => rigs[to] = None
    /\ Run("update", r, WriteRig(n, Rebuilt(rigs[n].xml, rigs[n].xml.comp))
             \o (IF to = n THEN <<>> ELSE <<[do |-> "rename", at |-> n, to |-> to]>>))
    /\ UNCHANGED <<rigs, comp, gone, mode, sweep, faults>>

WithStar(n, b) == [rigs[n].xml EXCEPT !.star = b]

Unstarred == [n \in Starred |-> WithStar(n, FALSE)]

\* Mutant: the target is stamped before the others are cleared.
MutStarPlan(n, others) ==
    (IF rigs[n].xml.star THEN <<>> ELSE WriteRig(n, WithStar(n, TRUE)))
      \o WriteRigs(others, Unstarred)

\* Mutant: a rig that is starred already is returned at once.
MutStarEarlyReturn(n, others) ==
    IF rigs[n].xml.star THEN <<>>
    ELSE WriteRigs(others, Unstarred) \o WriteRig(n, WithStar(n, TRUE))

\* _clear_all_stars in directory order, then the target unless it has its star.
StarPlan(n, others) ==
    WriteRigs(others, Unstarred)
      \o (IF rigs[n].xml.star THEN <<>> ELSE WriteRig(n, WithStar(n, TRUE)))

SetStar(r, n) ==
    /\ Idle /\ IsAt(r, n)
    /\ \E others \in SetToSeqs(Starred \ {n}) : Run("star", r, StarPlan(n, others))
    /\ UNCHANGED <<rigs, comp, gone, mode, sweep, faults>>

\* Position of folder n in the requested order, from 0.
Position(ns, n) == CHOOSE j \in 0..Len(ns) - 1 : ns[j + 1] = n

\* Mutant: only rigs without an order are written.
MutMoved(ns) == {n \in ValidFolders : rigs[n].xml.order = None}

\* Rigs whose display_order is already right are not written.
Moved(ns) == {n \in ValidFolders : rigs[n].xml.order # Position(ns, n)}

\* The folders S in the requested order.
InOrder(S, ns) ==
    {ms \in SetToSeqs(S) :
        \A j, k \in 1..Len(ms) : j < k => Position(ns, ms[j]) < Position(ns, ms[k])}

ReorderRigs(ns) ==
    /\ Idle
    /\ LET placed == [n \in ValidFolders |-> [rigs[n].xml EXCEPT !.order = Position(ns, n)]]
       IN  \E ms \in InOrder(Moved(ns), ns) : Run("reorder", None, WriteRigs(ms, placed))
    /\ UNCHANGED <<rigs, comp, gone, mode, sweep, faults>>

\* Mutant: the folder is moved before the successor gets the star.
MutDeletePlan(n, star) ==
    AssignAll(rigs[n].xml, None) \o <<[do |-> "trash", at |-> n]>> \o star

\* Mutant: the components keep the deleted rig.
MutDeletePlanKeepsRefs(n, star) == star \o <<[do |-> "trash", at |-> n]>>

DeletePlan(n, star) ==
    star \o AssignAll(rigs[n].xml, None) \o <<[do |-> "trash", at |-> n]>>

\* The rig with the latest jump in the index, else the leftmost of the
\* carousel.  The jumps are not modelled: any other rig may win.
Successors(n) == ValidFolders \ {n}

DeleteRig(r, n) ==
    /\ Idle /\ IsAt(r, n)
    /\ IF rigs[n].xml.star /\ Successors(n) # {}
       THEN \E s \in Successors(n) :
              Run("delete", r, DeletePlan(n, WriteRig(s, WithStar(s, TRUE))))
       ELSE Run("delete", r, DeletePlan(n, <<>>))
    /\ UNCHANGED <<rigs, comp, gone, mode, sweep, faults>>

\* The fast path answers a main that is already in rig.xml without a write.
SwapMain(r, n, m) ==
    /\ Idle /\ IsAt(r, n)
    /\ LET d   == rigs[n].xml
           old == d.comp["main"]
       IN  \/ m = old /\ Run("swap", r, <<>>)
           \/ /\ m # old /\ Usable(m, r)
              /\ Run("swap", r, WriteRig(n, Swapped(d, m))
                                  \o <<Assign(old, None), Assign(m, r)>>)
    /\ UNCHANGED <<rigs, comp, gone, mode, sweep, faults>>

-----------------------------------------------------------------------------
(* The durable steps. *)

Doing(do) == op # None /\ op.todo # <<>> /\ Head(op.todo).do = do
It == Head(op.todo)
Proceed == op' = [op EXCEPT !.todo = Tail(@)]

MakeFolder ==
    /\ Doing("mkdir") /\ Proceed
    /\ rigs' = [rigs EXCEPT ![It.at] = EmptyDir]
    /\ UNCHANGED <<comp, gone, mode, sweep, faults>>

WriteRigXml ==
    /\ Doing("xml") /\ Proceed
    /\ rigs' = [rigs EXCEPT ![It.at].xml = It.doc]
    /\ UNCHANGED <<comp, gone, mode, sweep, faults>>

WriteRigSums ==
    /\ Doing("sums") /\ Proceed
    /\ rigs' = [rigs EXCEPT ![It.at].sums = rigs[It.at].xml]
    /\ UNCHANGED <<comp, gone, mode, sweep, faults>>

RenameRig ==
    /\ Doing("rename") /\ Proceed
    /\ rigs' = [rigs EXCEPT ![It.to] = rigs[It.at], ![It.at] = None]
    /\ UNCHANGED <<comp, gone, mode, sweep, faults>>

\* A component whose file is gone is skipped with a warning (detaching), or
\* was seen on disk under the same lock (attaching).
AssignComponent ==
    /\ Doing("assign") /\ Proceed
    /\ comp' = IF Live(It.part) THEN [comp EXCEPT ![It.part].rig = It.to] ELSE comp
    /\ UNCHANGED <<rigs, gone, mode, sweep, faults>>

TrashRig ==
    /\ Doing("trash") /\ Proceed
    /\ rigs' = [rigs EXCEPT ![It.at] = None]
    /\ gone' = gone \cup {rigs[It.at].xml.id}
    /\ UNCHANGED <<comp, mode, sweep, faults>>

Finish ==
    /\ op # None /\ op.todo = <<>>
    /\ op' = None
    /\ UNCHANGED <<rigs, comp, gone, mode, sweep, faults>>

-----------------------------------------------------------------------------
(* The component services: one atomic write, or one move, per handler. *)

CreateComponent(c, s) ==
    /\ Idle /\ comp[c] = None
    /\ comp' = [comp EXCEPT ![c] = [status |-> s, rig |-> None]]
    /\ UNCHANGED <<rigs, gone, op, mode, sweep, faults>>

\* Mutant: a component that is on a rig may be retired.
MutUpdateComponent(c, s) ==
    /\ Idle /\ Live(c)
    /\ comp' = [comp EXCEPT ![c].status = s]
    /\ UNCHANGED <<rigs, gone, op, mode, sweep, faults>>

UpdateComponent(c, s) ==
    /\ Idle /\ Live(c)
    /\ comp[c].rig # None => s = "active"        \* else 409 component_in_use
    /\ comp' = [comp EXCEPT ![c].status = s]
    /\ UNCHANGED <<rigs, gone, op, mode, sweep, faults>>

\* "No cascade": the rig that names the component is not looked at.
DeleteComponent(c) ==
    /\ Idle /\ Live(c)
    /\ comp' = [comp EXCEPT ![c].status = "trashed"]
    /\ UNCHANGED <<rigs, gone, op, mode, sweep, faults>>

-----------------------------------------------------------------------------
(* Boot: folder_reconcile_rigs runs before the server accepts requests. *)

Claims(c) == {n \in ValidFolders : rigs[n].xml.comp[KindOf[c]] = c}

Expected(c) ==
    IF Claims(c) = {} THEN None ELSE rigs[CHOOSE n \in Claims(c) : TRUE].xml.id

Contested(c) == Cardinality(Claims(c)) > 1

Boot ==
    /\ mode = "stopped"
    /\ mode' = "reconcile" /\ sweep' = {c \in Comps : Live(c)}
    /\ UNCHANGED <<rigs, comp, gone, op, faults>>

\* Mutant: an assignment no rig asks for is left alone.
MutReconcileComponent(c) ==
    /\ mode = "reconcile" /\ c \in sweep
    /\ sweep' = sweep \ {c}
    /\ comp' = IF Contested(c) \/ Expected(c) = None THEN comp
               ELSE [comp EXCEPT ![c].rig = Expected(c)]
    /\ UNCHANGED <<rigs, gone, op, mode, faults>>

\* A component two rigs claim is left alone.
ReconcileComponent(c) ==
    /\ mode = "reconcile" /\ c \in sweep
    /\ sweep' = sweep \ {c}
    /\ comp' = IF Contested(c) THEN comp ELSE [comp EXCEPT ![c].rig = Expected(c)]
    /\ UNCHANGED <<rigs, gone, op, mode, faults>>

ReconcileDone ==
    /\ mode = "reconcile" /\ sweep = {}
    /\ mode' = "serving"
    /\ UNCHANGED <<rigs, comp, gone, op, sweep, faults>>

\* An exception is printed as a warning and the server starts.
ReconcileFails ==
    /\ mode = "reconcile" /\ faults < MaxFaults
    /\ mode' = "serving" /\ sweep' = {} /\ faults' = faults + 1
    /\ UNCHANGED <<rigs, comp, gone, op>>

-----------------------------------------------------------------------------
HandlerFails ==
    /\ op # None /\ faults < MaxFaults
    /\ op' = None /\ faults' = faults + 1
    /\ UNCHANGED <<rigs, comp, gone, mode, sweep>>

Crash ==
    /\ op # None \/ mode = "reconcile"
    /\ faults < MaxFaults
    /\ op' = None /\ mode' = "stopped" /\ sweep' = {} /\ faults' = faults + 1
    /\ UNCHANGED <<rigs, comp, gone>>

\* The user quits between two requests.
Quit ==
    /\ Idle
    /\ mode' = "stopped"
    /\ UNCHANGED <<rigs, comp, gone, op, sweep, faults>>

Request ==
    \/ \E r \in RigIds, n \in Nicknames :
         \/ \E refs \in Refs : CreateRig(r, n, refs)
         \/ \E to \in Nicknames : UpdateRig(r, n, to)
         \/ SetStar(r, n)
         \/ DeleteRig(r, n)
         \/ \E m \in {c \in Comps : KindOf[c] = "main"} : SwapMain(r, n, m)
    \/ \E ns \in SetToSeqs(ValidFolders) : ReorderRigs(ns)
    \/ \E c \in Comps :
         \/ \E s \in {"active", "retired"} : CreateComponent(c, s) \/ UpdateComponent(c, s)
         \/ DeleteComponent(c)

Perform ==
    \/ MakeFolder
    \/ WriteRigXml
    \/ WriteRigSums
    \/ RenameRig
    \/ AssignComponent
    \/ TrashRig
    \/ Finish

Restart ==
    \/ Boot
    \/ \E c \in Comps : ReconcileComponent(c)
    \/ ReconcileDone
    \/ ReconcileFails

Next == Request \/ Perform \/ Restart \/ HandlerFails \/ Crash \/ Quit

Spec == Init /\ [][Next]_vars

-----------------------------------------------------------------------------
(* Properties. *)

\* D37: with no handler running and none stopped half-way so far, a rig and
\* its components name each other, in both directions; a deleted component's
\* file still names its rig.  Hence no two rigs share a component.
RefsAgree ==
    op = None /\ faults = 0 =>
        /\ \A n \in ValidFolders, k \in Kinds :
              comp[rigs[n].xml.comp[k]].rig = rigs[n].xml.id
        /\ \A c \in Comps : Live(c) /\ comp[c].rig # None =>
              \E n \in Claims(c) : IsAt(comp[c].rig, n)

\* Rigs whose SHA256SUMS does not certify their rig.xml.
Stale == {n \in ValidFolders : rigs[n].sums # rigs[n].xml}

\* D5: each stop leaves at most one rig with a SHA256SUMS that does not match,
\* however many rigs the stopped handler was to write; nothing but a later write
\* of that rig heals it, so the count is of all stops.
OneStaleManifestPerStop ==
    Cardinality(Stale) <= faults + (IF op = None THEN 0 ELSE 1)

\* D58: a second star appears only while delete_rig stamps the successor, even
\* if every other handler stops half-way; two stars may stay after that.
TwoStarsOnlyWhileDeleting ==
    [][Cardinality(Starred) <= 1 /\ Cardinality(Starred') > 1
         => op # None /\ op.h = "delete"]_vars

\* D58: "heals on next set_star": whatever stars earlier failures left, a
\* set_star that completes leaves exactly its target starred.
SetStarRepairs ==
    [][Finish /\ op.h = "star" => \E n \in Starred : Starred = {n} /\ IsAt(op.rig, n)]_vars

\* D58: no step of a delete_rig, and no crash in it, takes the last star while
\* another rig remains.
DeleteKeepsAStar ==
    [][op # None /\ op.h = "delete" /\ Starred # {} /\ ValidFolders' # {}
         => Starred' # {}]_vars

\* D59: whatever order earlier failures, renames and swaps left, a completed
\* reorder_rigs numbers the rigs 0, 1, 2, ...
ReorderRepairs ==
    [][Finish /\ op.h = "reorder" =>
         {rigs[n].xml.order : n \in ValidFolders} = 0..Cardinality(ValidFolders) - 1]_vars

\* D70: a boot pass that completes leaves every component file agreeing with
\* the rig.xml files, except a component that two rigs claim.
ReconcileAgrees ==
    [][ReconcileDone => \A c \in Comps : Live(c) =>
         Contested(c) \/ comp[c].rig = Expected(c)]_vars

RetiredOnRig == {c \in Comps : Live(c) /\ comp[c].status # "active" /\ comp[c].rig # None}

\* D37: no request puts a retired component on a rig or retires one that is on
\* a rig, whatever has stopped before; the boot pass may.
RequestsKeepRigsActive == [][mode = "serving" => RetiredOnRig' \subseteq RetiredOnRig]_vars

=============================================================================
