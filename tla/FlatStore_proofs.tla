-------------------------- MODULE FlatStore_proofs --------------------------
(***************************************************************************)
(* Theorems about FlatStore, for every set of people and revisions, every  *)
(* finite set of dropzones and any number of failures.                     *)
(***************************************************************************)
EXTENDS FlatStore, FiniteSetTheorems, SequenceTheorems, TLAPS

\* What a request leaves behind: a plan whose first file is not yet written.
Requested ==
    /\ op = None /\ op' \in Ops /\ op'.plan # <<>> /\ op'.half = FALSE
    /\ UNCHANGED <<file, row, pass, left, faults>>

-----------------------------------------------------------------------------
(* The plans of the requests. *)

LEMMA SaveType ==
  ASSUME NEW e \in Entities, NEW d \in Docs \cup {None}
  PROVE  /\ Save(e, d) \in Saves
         /\ <<Save(e, d)>> \in Seq(Saves) /\ <<Save(e, d)>> # <<>>
  BY DEF Save, Saves

LEMMA StarredType ==
  ASSUME TypeOK, NEW d \in Dropzones, file[d] # None
  PROVE  /\ d \in Entities /\ file[d] \in Docs /\ Starred(d) \in Docs
         /\ [file[d] EXCEPT !.star = FALSE] \in Docs
  BY DEF TypeOK, Starred, Docs, Entities

LEMMA RunShape ==
  ASSUME NEW h \in {"create", "update", "delete", "star"}, NEW e \in Entities,
         NEW plan \in Seq(Saves), Run(h, e, plan)
  PROVE  /\ Requested
         /\ op'.h = h /\ op'.id = e /\ op'.plan = plan /\ op'.agreed = (row = file)
  BY DEF Run, Ops, Requested

LEMMA ClearPlanType ==
  ASSUME TypeOK, NEW d \in Dropzones, NEW order \in Orders(ToClear(d))
  PROVE  /\ \E n \in Nat : DOMAIN order = 1..n
         /\ \A i \in DOMAIN order : order[i] \in ToClear(d)
         /\ [i \in DOMAIN order |->
               Save(order[i], [file[order[i]] EXCEPT !.star = FALSE])] \in Seq(Saves)
<1>1. IsFiniteSet(ToClear(d))
  BY KindsAssumption, FS_Subset DEF ToClear
<1>2. Cardinality(ToClear(d)) \in Nat
  BY <1>1, FS_CardinalityType
<1>3. order \in [1..Cardinality(ToClear(d)) -> ToClear(d)]
  BY DEF Orders
<1>4. \A i \in DOMAIN order :
         Save(order[i], [file[order[i]] EXCEPT !.star = FALSE]) \in Saves
  <2> SUFFICES ASSUME NEW i \in DOMAIN order
               PROVE  Save(order[i], [file[order[i]] EXCEPT !.star = FALSE]) \in Saves
    OBVIOUS
  <2>1. order[i] \in ToClear(d)
    BY <1>3
  <2>2. order[i] \in Dropzones /\ file[order[i]] # None
    BY <2>1 DEF ToClear
  <2> QED
    BY <2>2, StarredType, SaveType
<1>5. DOMAIN order = 1..Cardinality(ToClear(d))
  BY <1>3
<1>6. [i \in DOMAIN order |->
         Save(order[i], [file[order[i]] EXCEPT !.star = FALSE])]
        \in [1..Cardinality(ToClear(d)) -> Saves]
  BY <1>4, <1>5
<1>7. \A n \in Nat : [1..n -> Saves] \subseteq Seq(Saves)
  OBVIOUS
<1>8. \A i \in DOMAIN order : order[i] \in ToClear(d)
  BY <1>3
<1> QED
  BY <1>2, <1>5, <1>6, <1>7, <1>8

LEMMA RequestShape == TypeOK /\ Request => Requested
<1> SUFFICES ASSUME TypeOK, Request PROVE Requested
  OBVIOUS
<1>1. ASSUME NEW d \in Dropzones, NEW r \in Revs, CreateDropzone(d, r)
      PROVE  Requested
  <2>1. \A b \in BOOLEAN : [rev |-> r, star |-> b] \in Docs
    BY DEF Docs
  <2>2. d \in Entities
    BY DEF Entities
  <2> QED
    BY <1>1, <2>1, <2>2, SaveType, RunShape DEF CreateDropzone
<1>2. ASSUME NEW d \in Dropzones, NEW r \in Revs, UpdateDropzone(d, r)
      PROVE  Requested
  <2>1. d \in Entities /\ [file[d] EXCEPT !.rev = r] \in Docs
    BY <1>2, StarredType DEF UpdateDropzone, Docs
  <2> QED
    BY <1>2, <2>1, SaveType, RunShape DEF UpdateDropzone
<1>3. ASSUME NEW d \in Dropzones, DeleteDropzone(d) PROVE Requested
  <2>1. d \in Entities /\ <<Save(d, None)>> \in Seq(Saves)
    BY <1>3, SaveType DEF Entities
  <2>2. ASSUME NEW s \in Dropzones, file[s] # None
        PROVE  <<Save(s, Starred(s)), Save(d, None)>> \in Seq(Saves)
    <3>1. Save(s, Starred(s)) \in Saves /\ Save(d, None) \in Saves
      BY <2>1, <2>2, StarredType, SaveType
    <3> QED
      BY <3>1
  <2> QED
    BY <1>3, <2>1, <2>2, RunShape DEF DeleteDropzone
<1>4. ASSUME NEW d \in Dropzones, SetStar(d) PROVE Requested
  <2>1. d \in Entities /\ file[d] # None /\ Save(d, Starred(d)) \in Saves
    BY <1>4, StarredType, SaveType DEF SetStar
  <2>2. PICK order \in Orders(ToClear(d)) :
          LET clear == [i \in DOMAIN order |->
                          Save(order[i], [file[order[i]] EXCEPT !.star = FALSE])]
          IN  Run("star", d, IF file[d].star THEN clear
                             ELSE Append(clear, Save(d, Starred(d))))
    BY <1>4 DEF SetStar
  <2> DEFINE clear == [i \in DOMAIN order |->
                         Save(order[i], [file[order[i]] EXCEPT !.star = FALSE])]
  <2>3. clear \in Seq(Saves)
    BY ClearPlanType
  <2>4. Run("star", d, IF file[d].star THEN clear ELSE Append(clear, Save(d, Starred(d))))
    BY <2>2
  <2> HIDE DEF clear
  <2>5. Append(clear, Save(d, Starred(d))) \in Seq(Saves)
    BY <2>1, <2>3
  <2> QED
    BY <2>1, <2>3, <2>4, <2>5, RunShape
<1>5. ASSUME NEW p \in People, NEW r \in Revs, CreatePerson(p, r) \/ UpdatePerson(p, r)
      PROVE  Requested
  <2>1. p \in Entities /\ [rev |-> r, star |-> FALSE] \in Docs
    BY DEF Entities, Docs
  <2> QED
    BY <1>5, <2>1, SaveType, RunShape DEF CreatePerson, UpdatePerson
<1>6. ASSUME NEW p \in People, DeletePerson(p) PROVE Requested
  BY <1>6, SaveType, RunShape DEF DeletePerson, Entities
<1> QED
  BY <1>1, <1>2, <1>3, <1>4, <1>5, <1>6 DEF Request

-----------------------------------------------------------------------------
(* Typing. *)

LEMMA CurrentType ==
  ASSUME TypeOK, op # None
  PROVE  /\ op \in Ops /\ op.plan \in Seq(Saves) /\ op.plan # <<>>
         /\ Current \in Saves /\ Current.id \in Entities
         /\ Current.doc \in Docs \cup {None}
         /\ Tail(op.plan) \in Seq(Saves)
<1>1. op \in Ops /\ op.plan \in Seq(Saves) /\ op.plan # <<>>
  BY DEF TypeOK, Ops
<1>2. Head(op.plan) \in Saves /\ Tail(op.plan) \in Seq(Saves)
  BY <1>1
<1> QED
  BY <1>1, <1>2 DEF Current, Saves

LEMMA NothingType == Nothing \in [Entities -> Docs \cup {None}]
  BY DEF Nothing

LEMMA TypeNext == TypeOK /\ [Next]_vars => TypeOK'
<1> SUFFICES ASSUME TypeOK, [Next]_vars PROVE TypeOK'
  OBVIOUS
<1>1. CASE Request
  BY <1>1, RequestShape DEF Requested, TypeOK
<1>2. CASE SaveFile
  <2>1. [op EXCEPT !.half = TRUE] \in Ops /\ op.plan = [op EXCEPT !.half = TRUE].plan
    BY <1>2, CurrentType DEF SaveFile, Ops
  <2>2. [file EXCEPT ![Current.id] = Current.doc] \in [Entities -> Docs \cup {None}]
    BY <1>2, CurrentType DEF SaveFile, TypeOK
  <2> QED
    BY <1>2, <2>1, <2>2, CurrentType DEF SaveFile, TypeOK
<1>3. CASE SaveRow
  <2>1. [row EXCEPT ![Current.id] = Current.doc] \in [Entities -> Docs \cup {None}]
    BY <1>3, CurrentType DEF SaveRow, TypeOK
  <2>2. [op EXCEPT !.plan = Tail(@), !.half = FALSE] \in Ops
    BY <1>3, CurrentType DEF SaveRow, Ops
  <2>3. op' \in Ops \cup {None} /\ (op' # None => op'.plan # <<>>)
    BY <1>3, <2>2, CurrentType DEF SaveRow, Ops
  <2> QED
    BY <1>3, <2>1, <2>3 DEF SaveRow, TypeOK
<1>4. CASE HandlerFails
  BY <1>4, CurrentType, BoundsAssumption DEF HandlerFails, TypeOK
<1>5. CASE Reindex
  <2>1. Begin(Dropzones) \in Passes
    BY NothingType DEF Begin, Passes, Tables
  <2> QED
    BY <1>5, <2>1 DEF Reindex, TypeOK
<1>6. CASE PassBegins
  <2>1. pass \in Passes /\ pass.table \subseteq Entities
    BY <1>6 DEF PassBegins, TypeOK, Passes, Tables, Entities
  <2>2. pass' \in Passes
    BY <1>6, <2>1 DEF PassBegins, Passes, TypeOK
  <2> QED
    BY <1>6, <2>2 DEF PassBegins, TypeOK
<1>7. CASE PassReads
  <2>1. pass \in Passes
    BY <1>7 DEF PassReads, Reading, TypeOK
  <2>2. PICK e \in pass.todo : pass' = [pass EXCEPT !.todo = @ \ {e}, !.found[e] = file[e]]
    BY <1>7 DEF PassReads
  <2>3. e \in Entities /\ file[e] \in Docs \cup {None}
    BY <2>1 DEF Passes, TypeOK
  <2>4. pass' \in Passes
    BY <2>1, <2>2, <2>3 DEF Passes
  <2> QED
    BY <1>7, <2>4 DEF PassReads, TypeOK
<1>8. CASE PassCommits
  <2>1. pass \in Passes
    BY <1>8 DEF PassCommits, Reading, TypeOK
  <2>2. \A e \in Entities : Rebuilt(e) \in Docs \cup {None}
    BY <2>1 DEF Rebuilt, Passes, TypeOK
  <2>3. Begin(People) \in Passes
    BY NothingType DEF Begin, Passes, Tables
  <2> QED
    BY <1>8, <2>2, <2>3 DEF PassCommits, TypeOK
<1>9. CASE PassFails
  BY <1>9 DEF PassFails, TypeOK, Passes
<1>10. CASE UNCHANGED vars
  BY <1>10 DEF vars, TypeOK
<1> QED
  BY <1>1, <1>2, <1>3, <1>4, <1>5, <1>6, <1>7, <1>8, <1>9, <1>10 DEF Next

\* Every variable keeps its type, and a handler at work has something to save.
THEOREM TypeCorrect == Spec => []TypeOK
<1>1. Init => TypeOK
  BY NothingType, BoundsAssumption DEF Init, TypeOK
<1> QED
  BY <1>1, TypeNext, PTL DEF Spec

-----------------------------------------------------------------------------
(* Rows and files.  The invariant that is inductive adds what a handler     *)
(* between its two writes has done and what a pass has collected so far.    *)

HalfDone == op # None /\ op.half => file[Current.id] = Current.doc

NotBegun == pass # None /\ ~Reading => pass.heals = {} /\ pass.found = Nothing

\* What the pass has read of its table is still so, or a handler that could
\* not yet write its row, or never will, has changed it since.
Collected ==
    Reading =>
        /\ pass.heals \subseteq pass.table
        /\ \A e \in pass.table :
             e \notin pass.todo /\ pass.found[e] # file[e] => e \in left \cup Pending

FollowInv == TypeOK /\ HalfDone /\ NotBegun /\ Collected /\ RowsFollowFiles

LEMMA PassType ==
  ASSUME TypeOK, pass # None
  PROVE  /\ pass \in Passes /\ pass.table \in Tables /\ pass.table \subseteq Entities
         /\ pass.todo \subseteq Entities /\ pass.heals \subseteq Entities
         /\ pass.found \in [Entities -> Docs \cup {None}]
         /\ pass.pc \in {"begin", "read"}
  BY DEF TypeOK, Passes, Tables, Entities

LEMMA FollowRequest == FollowInv /\ Request => FollowInv'
<1> SUFFICES ASSUME FollowInv, Request PROVE FollowInv'
  OBVIOUS
<1>1. Requested /\ TypeOK'
  BY RequestShape, TypeNext DEF FollowInv, Next
<1>2. Pending = {} /\ Pending' = {} /\ Healing' = Healing /\ Reading' = Reading
  BY <1>1, NoneAssumption DEF Requested, Pending, Healing, Reading
<1>3. HalfDone' /\ NotBegun'
  BY <1>1, <1>2 DEF FollowInv, Requested, HalfDone, NotBegun
<1>4. Collected' /\ RowsFollowFiles'
  BY <1>1, <1>2 DEF FollowInv, Requested, Collected, RowsFollowFiles
<1> QED
  BY <1>1, <1>3, <1>4 DEF FollowInv

LEMMA FollowSaveFile == FollowInv /\ SaveFile => FollowInv'
<1> SUFFICES ASSUME FollowInv, SaveFile PROVE FollowInv'
  OBVIOUS
<1>1. TypeOK /\ TypeOK' /\ op # None /\ ~op.half
  BY TypeNext DEF FollowInv, SaveFile, Next
<1>2. op' # None /\ op'.half /\ op'.plan = op.plan
  BY <1>1, CurrentType, NoneAssumption DEF SaveFile, Ops
<1>3. Current' = Current /\ Pending = {} /\ Pending' = {Current.id}
  BY <1>1, <1>2 DEF Current, Pending
<1>4. Current.id \in Entities /\ file'[Current.id] = Current.doc
  BY <1>1, CurrentType DEF SaveFile, TypeOK
<1>5. \A e \in Entities : e # Current.id => file'[e] = file[e]
  BY <1>1 DEF SaveFile, TypeOK
<1>6. Healing' = Healing /\ Reading' = Reading
  BY DEF SaveFile, Healing, Reading
<1>7. HalfDone' /\ NotBegun'
  BY <1>3, <1>4, <1>6 DEF HalfDone, NotBegun, FollowInv, SaveFile
<1>8. Collected'
  BY <1>1, <1>3, <1>5, <1>6, PassType DEF Collected, Reading, FollowInv, SaveFile
<1>9. RowsFollowFiles'
  BY <1>3, <1>5, <1>6 DEF RowsFollowFiles, FollowInv, SaveFile
<1> QED
  BY <1>1, <1>7, <1>8, <1>9 DEF FollowInv

LEMMA FollowSaveRow == FollowInv /\ SaveRow => FollowInv'
<1> SUFFICES ASSUME FollowInv, SaveRow PROVE FollowInv'
  OBVIOUS
<1>1. TypeOK /\ TypeOK' /\ op # None /\ op.half /\ ~Reading
  BY TypeNext DEF FollowInv, SaveRow, Next, Locked
<1>2. Current.id \in Entities /\ row'[Current.id] = Current.doc /\ file[Current.id] = Current.doc
  BY <1>1, CurrentType DEF SaveRow, TypeOK, HalfDone, FollowInv
<1>3. \A e \in Entities : e # Current.id => row'[e] = row[e]
  BY <1>1 DEF SaveRow, TypeOK
<1>4. Pending = {Current.id} /\ Healing' = Healing /\ Reading' = Reading
  BY <1>1 DEF SaveRow, Pending, Healing, Reading
<1>5. op' = None \/ ~op'.half
  BY <1>1, CurrentType DEF SaveRow, Ops
<1>6. HalfDone' /\ NotBegun' /\ Collected'
  BY <1>1, <1>4, <1>5 DEF HalfDone, NotBegun, Collected, FollowInv, SaveRow
<1>7. RowsFollowFiles'
  BY <1>2, <1>3, <1>4 DEF RowsFollowFiles, FollowInv, SaveRow
<1> QED
  BY <1>1, <1>6, <1>7 DEF FollowInv

LEMMA FollowHandlerFails == FollowInv /\ HandlerFails => FollowInv'
<1> SUFFICES ASSUME FollowInv, HandlerFails PROVE FollowInv'
  OBVIOUS
<1>1. TypeOK /\ TypeOK' /\ op' = None
  BY TypeNext DEF FollowInv, HandlerFails, Next
<1>2. /\ left' \cup Pending' = left \cup Pending
      /\ Healing' = Healing /\ Reading' = Reading
  BY <1>1 DEF HandlerFails, Pending, Healing, Reading
<1>3. HalfDone' /\ NotBegun'
  BY <1>1, <1>2 DEF HalfDone, NotBegun, FollowInv, HandlerFails
<1>4. Collected'
  BY <1>2 DEF Collected, FollowInv, HandlerFails
<1>5. RowsFollowFiles'
  BY <1>2 DEF RowsFollowFiles, FollowInv, HandlerFails
<1> QED
  BY <1>1, <1>3, <1>4, <1>5 DEF FollowInv

LEMMA FollowBegins == FollowInv /\ (Reindex \/ PassBegins) => FollowInv'
<1> SUFFICES ASSUME FollowInv, Reindex \/ PassBegins PROVE FollowInv'
  OBVIOUS
<1>1. TypeOK /\ TypeOK' /\ Pending' = Pending
  BY TypeNext DEF FollowInv, Next, Reindex, PassBegins, Pending, Current
<1>2. HalfDone'
  BY DEF HalfDone, FollowInv, Reindex, PassBegins, Current
<1>3. CASE Reindex
  <2>1. pass' # None /\ ~Reading' /\ pass'.heals = {} /\ pass'.found = Nothing
    BY <1>3, NothingType, NoneAssumption DEF Reindex, Begin, Reading, Passes, Tables
  <2>2. Healing = {} /\ Healing' = {}
    BY <1>3, <2>1 DEF Reindex, Healing
  <2> QED
    BY <1>1, <1>2, <1>3, <2>1, <2>2
    DEF FollowInv, Reindex, NotBegun, Collected, RowsFollowFiles
<1>4. CASE PassBegins
  <2>1. ~Reading /\ pass.heals = {} /\ pass.found = Nothing
    BY <1>4 DEF PassBegins, Reading, NotBegun, FollowInv
  <2>2. /\ pass' # None /\ Reading' /\ pass'.table = pass.table
        /\ pass'.heals = left \cap pass.table /\ pass'.found = Nothing
        /\ pass'.todo = {e \in pass.table : file[e] # None}
    <3>1. pass \in Passes /\ pass.table \subseteq Entities
      BY <1>1, <1>4, PassType DEF PassBegins
    <3>2. pass' \in Passes
      BY <1>4, <3>1 DEF PassBegins, Passes
    <3>3. pass' # None
      BY <3>2, NoneAssumption
    <3> QED
      BY <1>4, <2>1, <3>1, <3>3 DEF PassBegins, Reading, Passes
  <2>3. Collected'
    BY <1>1, <1>4, <2>2, PassType DEF Collected, PassBegins, Nothing
  <2>4. Healing = {} /\ Healing' = left \cap pass.table /\ left' = left \ pass.table
    BY <1>4, <2>1, <2>2 DEF PassBegins, Healing
  <2>5. RowsFollowFiles'
    BY <1>1, <1>4, <2>4 DEF PassBegins, RowsFollowFiles, FollowInv
  <2> QED
    BY <1>1, <1>2, <2>2, <2>3, <2>5 DEF FollowInv, NotBegun
<1> QED
  BY <1>3, <1>4

LEMMA FollowReads == FollowInv /\ PassReads => FollowInv'
<1> SUFFICES ASSUME FollowInv, PassReads PROVE FollowInv'
  OBVIOUS
<1>1. TypeOK /\ TypeOK' /\ Pending' = Pending /\ Reading
  BY TypeNext DEF FollowInv, Next, PassReads, Pending, Current
<1>2. PICK e \in pass.todo : pass' = [pass EXCEPT !.todo = @ \ {e}, !.found[e] = file[e]]
  BY DEF PassReads
<1>3. /\ pass # None /\ pass' # None /\ Reading' /\ pass'.table = pass.table
      /\ pass'.heals = pass.heals /\ pass'.todo = pass.todo \ {e}
      /\ pass'.found = [pass.found EXCEPT ![e] = file[e]]
  <2>1. pass # None /\ pass \in Passes /\ e \in Entities /\ file[e] \in Docs \cup {None}
    BY <1>1, PassType DEF Reading, TypeOK
  <2>2. pass' \in Passes
    BY <1>2, <2>1 DEF Passes
  <2>3. pass' # None
    BY <2>2, NoneAssumption
  <2> QED
    BY <1>1, <1>2, <2>1, <2>3 DEF Reading, Passes
<1>4. HalfDone' /\ NotBegun'
  BY <1>3 DEF HalfDone, NotBegun, FollowInv, PassReads, Current
<1>5. Collected'
  <2> SUFFICES ASSUME NEW x \in pass.table, x \notin pass.todo \ {e}, pass'.found[x] # file[x]
               PROVE  x \in left \cup Pending
    BY <1>1, <1>3 DEF Collected, PassReads, FollowInv
  <2>1. x \in Entities /\ x # e
    BY <1>1, <1>3, PassType
  <2>2. pass'.found[x] = pass.found[x]
    BY <1>1, <1>3, <2>1, PassType
  <2> QED
    BY <1>1, <2>1, <2>2 DEF Collected, FollowInv
<1>6. RowsFollowFiles'
  BY <1>1, <1>3 DEF RowsFollowFiles, FollowInv, PassReads, Healing
<1> QED
  BY <1>1, <1>4, <1>5, <1>6 DEF FollowInv

LEMMA FollowCommits == FollowInv /\ PassCommits => FollowInv'
<1> SUFFICES ASSUME FollowInv, PassCommits PROVE FollowInv'
  OBVIOUS
<1>1. TypeOK /\ TypeOK' /\ Pending' = Pending /\ Reading /\ pass # None /\ pass.todo = {}
  BY TypeNext DEF FollowInv, Next, PassCommits, Pending, Current, Reading
<1>2. pass' = None \/ pass' = Begin(People)
  BY DEF PassCommits
<1>3. ~Reading' /\ Healing' = {} /\ NotBegun'
  BY <1>2 DEF Reading, Healing, NotBegun, Begin
<1>4. HalfDone' /\ Collected'
  BY <1>3 DEF HalfDone, Collected, FollowInv, PassCommits, Current
<1>5. RowsFollowFiles'
  <2> SUFFICES ASSUME NEW e \in Entities, Rebuilt(e) # file[e]
               PROVE  e \in left \cup Pending
    BY <1>1, <1>3 DEF RowsFollowFiles, PassCommits
  <2>1. CASE e \in pass.table
    BY <1>1, <2>1 DEF Rebuilt, Collected, FollowInv
  <2>2. CASE e \notin pass.table
    BY <1>1, <2>2 DEF Rebuilt, Collected, FollowInv, RowsFollowFiles, Healing
  <2> QED
    BY <2>1, <2>2
<1> QED
  BY <1>1, <1>3, <1>4, <1>5 DEF FollowInv

LEMMA FollowPassFails == FollowInv /\ PassFails => FollowInv'
<1> SUFFICES ASSUME FollowInv, PassFails PROVE FollowInv'
  OBVIOUS
<1>1. TypeOK' /\ Pending' = Pending /\ pass # None /\ pass' = None
  BY TypeNext DEF FollowInv, Next, PassFails, Pending, Current
<1>2. HalfDone' /\ NotBegun' /\ Collected'
  BY <1>1 DEF HalfDone, NotBegun, Collected, Reading, FollowInv, PassFails, Current
<1>3. RowsFollowFiles'
  BY <1>1 DEF RowsFollowFiles, FollowInv, PassFails, Healing
<1> QED
  BY <1>1, <1>2, <1>3 DEF FollowInv

LEMMA FollowNext == FollowInv /\ [Next]_vars => FollowInv'
<1> SUFFICES ASSUME FollowInv, [Next]_vars PROVE FollowInv'
  OBVIOUS
<1>1. CASE UNCHANGED vars
  <2>1. TypeOK'
    BY <1>1, TypeNext DEF FollowInv
  <2> QED
    BY <1>1, <2>1 DEF vars, FollowInv, HalfDone, NotBegun, Collected, RowsFollowFiles,
                      Reading, Pending, Healing, Current
<1> QED
  BY <1>1, FollowRequest, FollowSaveFile, FollowSaveRow, FollowHandlerFails,
     FollowBegins, FollowReads, FollowCommits, FollowPassFails DEF Next

\* At every instant, whatever failed and whatever a reindex did meanwhile, a
\* row that differs from its file is one a handler still has to write, one a
\* failed handler left, or one the running reindex is about to rebuild.
THEOREM RowsFollow == Spec => []RowsFollowFiles
<1>1. Init => FollowInv
  BY NothingType, BoundsAssumption
  DEF Init, FollowInv, TypeOK, HalfDone, NotBegun, Collected, RowsFollowFiles, Reading
<1>2. FollowInv => RowsFollowFiles
  BY DEF FollowInv
<1> QED
  BY <1>1, <1>2, FollowNext, PTL DEF Spec

-----------------------------------------------------------------------------
(* The star and delete_dropzone. *)

\* What is left of a delete that began with rows true to the files: the move
\* of the file, which takes no last star, or first the star of a successor.
LastSave ==
    /\ op.plan = <<Save(op.id, None)>>
    /\ op.half \/ Stars = {} \/ Stars \ {op.id} # {} \/ Live \ {op.id} = {}

TwoSaves ==
    \E s \in Dropzones \ {op.id}, doc \in Docs :
        /\ op.plan = <<Save(s, doc), Save(op.id, None)>> /\ doc.star
        /\ op.half => s \in Stars

Deleting == op # None /\ op.h = "delete" /\ op.agreed

DeleteInv == TypeOK /\ (Deleting => LastSave \/ TwoSaves)

LEMMA DeleteRequest == DeleteInv /\ Request => DeleteInv'
<1> SUFFICES ASSUME DeleteInv, Request PROVE DeleteInv'
  OBVIOUS
<1>1. TypeOK /\ TypeOK' /\ Requested
  BY RequestShape, TypeNext DEF DeleteInv, Next
<1>2. Stars' = Stars /\ Live' = Live
  BY <1>1 DEF Requested, Stars, Live
<1>3. ASSUME NEW h \in {"create", "update", "star"}, NEW e, NEW plan, Run(h, e, plan)
      PROVE  ~Deleting'
  BY <1>3 DEF Run, Deleting
<1>4. ASSUME NEW d \in Dropzones, DeleteDropzone(d), Deleting'
      PROVE  LastSave' \/ TwoSaves'
  <2>1. ASSUME NEW plan, Run("delete", d, plan)
        PROVE  op'.id = d /\ op'.plan = plan /\ op'.half = FALSE /\ row = file
    BY <1>4, <2>1 DEF Run, Deleting
  <2>2. file \in [Entities -> Docs \cup {None}] /\ Dropzones \subseteq Entities
    BY <1>1 DEF TypeOK, Entities
  <2>3. ASSUME Run("delete", d, <<Save(d, None)>>),
               ~file[d].star \/ \A x \in Dropzones \ {d} : row[x] = None
        PROVE  LastSave'
    <3>1. Stars \ {d} # {} \/ Stars = {} \/ Live \ {d} = {}
      BY <2>1, <2>3 DEF Stars, Live
    <3> QED
      BY <1>2, <2>1, <2>3, <3>1 DEF LastSave, Save
  <2>4. ASSUME NEW s \in Dropzones \ {d}, row[s] # None,
               Run("delete", d, IF file[s] = None THEN <<Save(d, None)>>
                                ELSE <<Save(s, Starred(s)), Save(d, None)>>)
        PROVE  TwoSaves'
    <3>1. op'.id = d /\ row = file
      BY <2>1, <2>4
    <3>2. file[s] # None /\ op'.half = FALSE
          /\ op'.plan = <<Save(s, Starred(s)), Save(d, None)>>
      BY <2>1, <2>4, <3>1
    <3>3. Starred(s) \in Docs /\ Starred(s).star
      BY <2>2, <3>2 DEF Starred, Docs
    <3>4. \E t \in Dropzones \ {op'.id}, doc \in Docs :
             /\ op'.plan = <<Save(t, doc), Save(op'.id, None)>> /\ doc.star
             /\ op'.half => t \in Stars'
      BY <3>1, <3>2, <3>3
    <3> QED
      BY <3>4 DEF TwoSaves, Save
  <2> QED
    BY <1>4, <2>3, <2>4 DEF DeleteDropzone
<1>5. ASSUME NEW p \in People, DeletePerson(p) PROVE LastSave'
  <2>1. op'.id = p /\ op'.plan = <<Save(p, None)>>
    BY <1>5 DEF DeletePerson, Run
  <2>2. Stars \ {p} = Stars
    BY KindsAssumption DEF Stars, Live
  <2> QED
    BY <1>2, <2>1, <2>2 DEF LastSave, Save
<1>6. CASE \E d \in Dropzones : SetStar(d)
           \/ \E r \in Revs : CreateDropzone(d, r) \/ UpdateDropzone(d, r)
  BY <1>1, <1>3, <1>6 DEF SetStar, CreateDropzone, UpdateDropzone, DeleteInv
<1>7. CASE \E p \in People, r \in Revs : CreatePerson(p, r) \/ UpdatePerson(p, r)
  BY <1>1, <1>3, <1>7 DEF CreatePerson, UpdatePerson, DeleteInv
<1> QED
  BY <1>1, <1>4, <1>5, <1>6, <1>7 DEF Request, DeleteInv

\* The file written, and what that does to the dropzones and their stars.
LEMMA FileWritten ==
  ASSUME TypeOK, SaveFile
  PROVE  /\ op' # None /\ op'.h = op.h /\ op'.id = op.id /\ op'.plan = op.plan
         /\ op'.agreed = op.agreed /\ op'.half
         /\ \A x \in Entities : file'[x] = IF x = Current.id THEN Current.doc ELSE file[x]
<1>1. op \in Ops /\ Current.id \in Entities
  BY CurrentType DEF SaveFile
<1>2. op' \in Ops
  BY <1>1 DEF SaveFile, Ops
<1>3. op' # None
  BY <1>2, NoneAssumption
<1>4. \A x \in Entities : file'[x] = IF x = Current.id THEN Current.doc ELSE file[x]
  BY <1>1 DEF SaveFile, TypeOK
<1> QED
  BY <1>1, <1>3, <1>4 DEF SaveFile, Ops

LEMMA DeleteSaveFile ==
  ASSUME DeleteInv, SaveFile
  PROVE  /\ DeleteInv'
         /\ Deleting /\ Stars # {} => Stars' # {} \/ Live' = {}
<1>1. TypeOK /\ TypeOK' /\ ~op.half
  BY TypeNext DEF DeleteInv, SaveFile, Next
<1>2. Dropzones \subseteq Entities
  BY DEF Entities
<1>3. CASE ~Deleting
  <2>1. op # None /\ op'.h = op.h /\ op'.agreed = op.agreed
    BY <1>1, FileWritten DEF SaveFile
  <2>2. ~Deleting'
    BY <1>3, <2>1 DEF Deleting
  <2> QED
    BY <1>1, <1>3, <2>2 DEF DeleteInv
<1>4. CASE Deleting /\ LastSave
  <2>1. Current.id = op.id /\ Current.doc = None
    BY <1>4 DEF LastSave, Current, Save
  <2>2. Stars' = Stars \ {op.id} /\ Live' = Live \ {op.id}
    BY <1>1, <1>2, <2>1, FileWritten DEF Stars, Live
  <2>3. LastSave'
    BY <1>1, <1>4, FileWritten DEF LastSave, Save
  <2> QED
    BY <1>1, <1>4, <2>2, <2>3 DEF DeleteInv, LastSave
<1>5. CASE Deleting /\ TwoSaves
  <2>1. PICK s \in Dropzones \ {op.id}, doc \in Docs :
          op.plan = <<Save(s, doc), Save(op.id, None)>> /\ doc.star
    BY <1>5 DEF TwoSaves
  <2>2. Current.id = s /\ Current.doc = doc
    BY <2>1 DEF Current, Save
  <2>3. file'[s] = doc /\ doc # None
    BY <1>1, <1>2, <2>2, FileWritten, NoneAssumption
  <2>4. s \in Stars'
    BY <2>1, <2>3 DEF Stars, Live
  <2>5. TwoSaves'
    BY <1>1, <2>1, <2>4, FileWritten DEF TwoSaves, Save
  <2> QED
    BY <1>1, <2>4, <2>5 DEF DeleteInv
<1> QED
  BY <1>3, <1>4, <1>5 DEF DeleteInv

LEMMA DeleteSaveRow == DeleteInv /\ SaveRow => DeleteInv'
<1> SUFFICES ASSUME DeleteInv, SaveRow, op' # None, Deleting'
             PROVE  LastSave' \/ TwoSaves'
  BY TypeNext DEF DeleteInv, Next, Deleting
<1>1. TypeOK /\ op \in Ops /\ op.half /\ Tail(op.plan) # <<>>
  BY CurrentType DEF DeleteInv, SaveRow
<1>2. op' = [op EXCEPT !.plan = Tail(op.plan), !.half = FALSE]
  BY DEF SaveRow
<1>3. op'.id = op.id /\ op'.plan = Tail(op.plan) /\ Deleting
  BY <1>1, <1>2 DEF Ops, Deleting, SaveRow
<1>4. ~LastSave
  <2>1. \A x : Tail(<<x>>) = <<>>
    OBVIOUS
  <2> QED
    BY <1>1, <2>1 DEF LastSave
<1>5. PICK s \in Dropzones \ {op.id}, doc \in Docs :
        op.plan = <<Save(s, doc), Save(op.id, None)>> /\ s \in Stars
  BY <1>1, <1>3, <1>4 DEF TwoSaves, DeleteInv
<1>6. Stars' = Stars /\ op'.plan = <<Save(op.id, None)>>
  BY <1>3, <1>5 DEF SaveRow, Stars, Live
<1> QED
  BY <1>3, <1>5, <1>6 DEF LastSave, Save

LEMMA DeleteNext ==
  ASSUME DeleteInv, [Next]_vars
  PROVE  /\ DeleteInv'
         /\ Deleting /\ Stars # {} => Stars' # {} \/ Live' = {}
<1>1. TypeOK'
  BY TypeNext DEF DeleteInv
<1>2. CASE Request
  BY <1>2, RequestShape, DeleteRequest DEF Requested, DeleteInv, Deleting
<1>3. CASE SaveFile
  BY <1>3, DeleteSaveFile
<1>4. CASE SaveRow
  BY <1>4, DeleteSaveRow DEF SaveRow, Stars, Live
<1>5. CASE HandlerFails
  BY <1>1, <1>5 DEF HandlerFails, Stars, Live, DeleteInv, Deleting
<1>6. CASE UNCHANGED <<file, op>>
  BY <1>1, <1>6 DEF Stars, Live, DeleteInv, Deleting, LastSave, TwoSaves
<1> QED
  BY <1>2, <1>3, <1>4, <1>5, <1>6
  DEF Next, vars, Reindex, PassBegins, PassReads, PassCommits, PassFails

\* No step of a delete_dropzone that began with rows true to the files takes
\* the last star away from dropzones that stay, so no crash within it does.
THEOREM DeleteKeeps == Spec => DeleteKeepsAStar
<1>1. Init => DeleteInv
  BY NothingType, BoundsAssumption DEF Init, DeleteInv, TypeOK, Deleting
<1>2. DeleteInv /\ [Next]_vars => DeleteInv'
  BY DeleteNext
<1>3. DeleteInv /\ [Next]_vars
        => [op # None /\ op.h = "delete" /\ op.agreed /\ Stars # {}
              => Stars' # {} \/ Live' = {}]_vars
  BY DeleteNext DEF Deleting
<1> QED
  BY <1>1, <1>2, <1>3, PTL DEF Spec, DeleteKeepsAStar

-----------------------------------------------------------------------------
(* The star and set_star. *)

\* Save i of the plan is still to come.
ToCome(i) == i \in 1..Len(op.plan) /\ (op.half => i # 1)

\* What is left of a set_star that began with rows true to the files: each
\* star but the target's is cleared, and the target's is set if it is not.
StarPlan ==
    /\ op.id \in Dropzones
    /\ \A i \in 1..Len(op.plan) :
         /\ op.plan[i].id \in Dropzones /\ op.plan[i].doc \in Docs
         /\ op.plan[i].doc.star <=> op.plan[i].id = op.id
    /\ \A x \in Stars \ {op.id} : \E i \in 1..Len(op.plan) : ToCome(i) /\ op.plan[i].id = x
    /\ op.id \in Stars \/ \E i \in 1..Len(op.plan) : ToCome(i) /\ op.plan[i].id = op.id

Starring == op # None /\ op.h = "star" /\ op.agreed

StarInv == TypeOK /\ (Starring => StarPlan)

LEMMA SetStarPlans ==
  ASSUME StarInv, NEW d \in Dropzones, SetStar(d), Starring'
  PROVE  StarPlan'
<1>1. TypeOK /\ Dropzones \subseteq Entities /\ file[d] # None
  BY DEF StarInv, SetStar, Entities
<1>2. PICK order \in Orders(ToClear(d)) :
        LET clear == [i \in DOMAIN order |->
                        Save(order[i], [file[order[i]] EXCEPT !.star = FALSE])]
        IN  Run("star", d, IF file[d].star THEN clear
                           ELSE Append(clear, Save(d, Starred(d))))
  BY DEF SetStar
<1> DEFINE clear == [i \in DOMAIN order |->
                       Save(order[i], [file[order[i]] EXCEPT !.star = FALSE])]
           plan == IF file[d].star THEN clear ELSE Append(clear, Save(d, Starred(d)))
<1>3. /\ clear \in Seq(Saves) /\ \A i \in DOMAIN order : order[i] \in ToClear(d)
      /\ \E n \in Nat : DOMAIN order = 1..n
  BY <1>1, ClearPlanType
<1>4. PICK n \in Nat : DOMAIN order = 1..n
  BY <1>3
<1>5. Len(clear) = n /\ DOMAIN clear = 1..n
  BY <1>3, <1>4
<1>6. \A i \in 1..n : /\ clear[i].id = order[i] /\ order[i] \in Dropzones \ {d}
                      /\ clear[i].doc \in Docs /\ clear[i].doc.star = FALSE
  <2> SUFFICES ASSUME NEW i \in 1..n
               PROVE  /\ clear[i].id = order[i] /\ order[i] \in Dropzones \ {d}
                      /\ clear[i].doc \in Docs /\ clear[i].doc.star = FALSE
    OBVIOUS
  <2>1. order[i] \in Dropzones \ {d} /\ file[order[i]] # None
    BY <1>3, <1>4 DEF ToClear
  <2>2. file[order[i]] \in Docs
    BY <1>1, <2>1, StarredType
  <2>3. /\ [file[order[i]] EXCEPT !.star = FALSE] \in Docs
        /\ [file[order[i]] EXCEPT !.star = FALSE].star = FALSE
    BY <2>2 DEF Docs
  <2> QED
    BY <1>4, <2>1, <2>3 DEF Save
<1>7. \A x \in ToClear(d) : \E i \in 1..n : order[i] = x
  BY <1>4 DEF Orders
<1>8. /\ op'.id = d /\ op'.plan = plan /\ op'.half = FALSE /\ row = file /\ file' = file
  BY <1>2 DEF Run, Starring
<1>9. Stars' = Stars /\ ToClear(d) = Stars \ {d}
  BY <1>8 DEF Stars, Live, ToClear
<1> HIDE DEF clear
<1>10. ASSUME NEW x \in Stars \ {d} PROVE \E i \in 1..n : clear[i].id = x
  <2>1. PICK i \in 1..n : order[i] = x
    BY <1>7, <1>9, <1>10
  <2> QED
    BY <1>6, <2>1
<1>11. CASE file[d].star
  <2>1. op'.plan = clear /\ Len(op'.plan) = n
    BY <1>5, <1>8, <1>11
  <2>2. d \in Stars
    BY <1>1, <1>11 DEF Stars, Live
  <2>3. \A i \in 1..n : clear[i].id \in Dropzones /\ (clear[i].doc.star <=> clear[i].id = d)
    BY <1>6
  <2>4. \A x \in Stars' \ {op'.id} :
          \E i \in 1..Len(op'.plan) : ToCome(i)' /\ op'.plan[i].id = x
    BY <1>8, <1>9, <1>10, <2>1 DEF ToCome
  <2> QED
    BY <1>6, <1>8, <1>9, <2>1, <2>2, <2>3, <2>4 DEF StarPlan
<1>12. CASE ~file[d].star
  <2>1. op'.plan = Append(clear, Save(d, Starred(d)))
    BY <1>8, <1>12
  <2>2. Starred(d) \in Docs /\ Starred(d).star = TRUE
    BY <1>1 DEF Starred, Docs, TypeOK
  <2>3. /\ Len(op'.plan) = n + 1 /\ \A i \in 1..n : op'.plan[i] = clear[i]
        /\ op'.plan[n + 1] = Save(d, Starred(d))
    BY <1>3, <1>5, <2>1
  <2>4. op'.plan[n + 1].id = d /\ op'.plan[n + 1].doc = Starred(d)
    BY <2>3 DEF Save
  <2>5. \A i \in 1..Len(op'.plan) :
          /\ op'.plan[i].id \in Dropzones /\ op'.plan[i].doc \in Docs
          /\ op'.plan[i].doc.star <=> op'.plan[i].id = d
    <3> SUFFICES ASSUME NEW i \in 1..(n + 1)
                 PROVE  /\ op'.plan[i].id \in Dropzones /\ op'.plan[i].doc \in Docs
                        /\ op'.plan[i].doc.star <=> op'.plan[i].id = d
      BY <2>3
    <3>1. CASE i = n + 1
      BY <2>2, <2>4, <3>1
    <3>2. CASE i \in 1..n
      BY <1>6, <2>3, <3>2
    <3> QED
      BY <3>1, <3>2
  <2>6. \A x \in Stars \ {d} : \E i \in 1..Len(op'.plan) : op'.plan[i].id = x
    <3> SUFFICES ASSUME NEW x \in Stars \ {d}
                 PROVE  \E i \in 1..Len(op'.plan) : op'.plan[i].id = x
      OBVIOUS
    <3>1. PICK i \in 1..n : clear[i].id = x
      BY <1>10
    <3>2. i \in 1..Len(op'.plan) /\ op'.plan[i].id = x
      BY <2>3, <3>1
    <3> QED
      BY <3>2
  <2>7. \E i \in 1..Len(op'.plan) : op'.plan[i].id = d
    BY <2>3, <2>4
  <2> QED
    BY <1>8, <1>9, <2>5, <2>6, <2>7 DEF StarPlan, ToCome
<1> QED
  BY <1>11, <1>12

LEMMA StarRequest == StarInv /\ Request => StarInv'
<1> SUFFICES ASSUME StarInv, Request, Starring' PROVE StarPlan'
  BY TypeNext DEF StarInv, Next
<1>1. ASSUME NEW h \in {"create", "update", "delete"}, NEW e, NEW plan, Run(h, e, plan)
      PROVE  FALSE
  BY <1>1 DEF Run, Starring
<1>2. ~\E d \in Dropzones :
         DeleteDropzone(d) \/ \E r \in Revs : CreateDropzone(d, r) \/ UpdateDropzone(d, r)
  BY <1>1 DEF DeleteDropzone, CreateDropzone, UpdateDropzone
<1>3. ~\E p \in People :
         DeletePerson(p) \/ \E r \in Revs : CreatePerson(p, r) \/ UpdatePerson(p, r)
  BY <1>1 DEF DeletePerson, CreatePerson, UpdatePerson
<1> QED
  BY <1>2, <1>3, SetStarPlans DEF Request

LEMMA StarSaveFile == StarInv /\ SaveFile => StarInv'
<1> SUFFICES ASSUME StarInv, SaveFile, Starring' PROVE StarPlan'
  BY TypeNext DEF StarInv, Next
<1>1. TypeOK /\ op # None /\ ~op.half /\ Dropzones \subseteq Entities
  BY DEF StarInv, SaveFile, Entities
<1>2. Starring /\ StarPlan
  BY <1>1, FileWritten DEF Starring, StarInv
<1>3. op.plan \in Seq(Saves) /\ op.plan # <<>>
  BY <1>1, CurrentType
<1>4. 1 \in 1..Len(op.plan) /\ Current = op.plan[1]
  BY <1>3 DEF Current
<1>5. /\ Current.id \in Dropzones /\ Current.doc \in Docs
      /\ Current.doc.star <=> Current.id = op.id
  BY <1>2, <1>4 DEF StarPlan
<1>6. \A x \in Dropzones :
        x \in Stars' <=> IF x = Current.id THEN x = op.id ELSE x \in Stars
  <2> SUFFICES ASSUME NEW x \in Dropzones
               PROVE  x \in Stars' <=> IF x = Current.id THEN x = op.id ELSE x \in Stars
    OBVIOUS
  <2>1. CASE x = Current.id
    <3>1. file'[x] = Current.doc /\ file'[x] # None
      BY <1>1, <1>5, <2>1, FileWritten, NoneAssumption
    <3> QED
      BY <1>5, <2>1, <3>1 DEF Stars, Live
  <2>2. CASE x # Current.id
    <3>1. file'[x] = file[x]
      BY <1>1, <2>2, FileWritten
    <3> QED
      BY <2>2, <3>1 DEF Stars, Live
  <2> QED
    BY <2>1, <2>2
<1>7. op'.id = op.id /\ op'.plan = op.plan /\ op'.half
  BY <1>1, FileWritten
<1>8. Stars' \subseteq Dropzones
  BY DEF Stars, Live
<1>9. \A x \in Stars' \ {op.id} : \E i \in 1..Len(op.plan) : i # 1 /\ op.plan[i].id = x
  BY <1>2, <1>4, <1>6, <1>8 DEF StarPlan, ToCome
<1>10. op.id \in Stars' \/ \E i \in 1..Len(op.plan) : i # 1 /\ op.plan[i].id = op.id
  BY <1>2, <1>4, <1>6 DEF StarPlan, ToCome
<1> QED
  BY <1>2, <1>7, <1>9, <1>10 DEF StarPlan, ToCome

LEMMA StarSaveRow ==
  ASSUME StarInv, SaveRow
  PROVE  /\ StarInv'
         /\ Starring /\ op' = None => Stars' = {op.id}
<1>1. TypeOK /\ TypeOK' /\ op \in Ops /\ op # None /\ op.half
  BY TypeNext, CurrentType DEF StarInv, SaveRow, Next
<1>2. op.plan \in Seq(Saves) /\ op.plan # <<>> /\ Stars' = Stars
  BY <1>1, CurrentType DEF SaveRow, Stars, Live
<1>3. CASE Tail(op.plan) = <<>>
  <2>1. Len(op.plan) = 1 /\ op' = None
    <3>1. /\ Len(Tail(op.plan)) = Len(op.plan) - 1 /\ Len(op.plan) \in Nat
          /\ Tail(op.plan) \in Seq(Saves)
      BY <1>2, HeadTailProperties
    <3>2. Len(Tail(op.plan)) = 0
      BY <1>3, <3>1, EmptySeq
    <3> QED
      BY <1>3, <3>1, <3>2 DEF SaveRow
  <2>2. ASSUME StarPlan PROVE Stars' = {op.id}
    BY <1>1, <1>2, <2>1, <2>2 DEF StarPlan, ToCome
  <2> QED
    BY <1>1, <2>1, <2>2 DEF StarInv, Starring
<1>4. CASE Tail(op.plan) # <<>>
  <2>1. op' = [op EXCEPT !.plan = Tail(op.plan), !.half = FALSE]
    BY <1>4 DEF SaveRow
  <2>2. op' \in Ops
    BY <1>1, <2>1, CurrentType DEF Ops
  <2>3. op' # None
    BY <2>2, NoneAssumption
  <2>4. ASSUME Starring' PROVE StarPlan'
    <3>1. /\ op'.id = op.id /\ op'.plan = Tail(op.plan) /\ op'.half = FALSE
          /\ op'.h = op.h /\ op'.agreed = op.agreed
      BY <1>1, <2>1 DEF Ops
    <3>2. StarPlan
      BY <1>1, <2>4, <3>1 DEF Starring, StarInv
    <3>3. Len(op'.plan) = Len(op.plan) - 1 /\ Len(op.plan) \in Nat
      BY <1>2, <3>1
    <3>4. \A i \in 1..Len(op'.plan) : i + 1 \in 1..Len(op.plan) /\ op'.plan[i] = op.plan[i + 1]
      BY <1>2, <3>1, <3>3
    <3>5. \A i \in 1..Len(op.plan) :
             i # 1 => i - 1 \in 1..Len(op'.plan) /\ op'.plan[i - 1] = op.plan[i]
      <4> SUFFICES ASSUME NEW i \in 1..Len(op.plan), i # 1
                   PROVE  i - 1 \in 1..Len(op'.plan) /\ op'.plan[i - 1] = op.plan[i]
        OBVIOUS
      <4>1. i - 1 \in 1..Len(op'.plan) /\ (i - 1) + 1 = i
        BY <3>3
      <4> QED
        BY <3>4, <4>1
    <3>6. \A x \in Stars' \ {op.id} : \E i \in 1..Len(op'.plan) : op'.plan[i].id = x
      <4> SUFFICES ASSUME NEW x \in Stars \ {op.id}
                   PROVE  \E i \in 1..Len(op'.plan) : op'.plan[i].id = x
        BY <1>2
      <4>1. PICK i \in 1..Len(op.plan) : i # 1 /\ op.plan[i].id = x
        BY <1>1, <3>2 DEF StarPlan, ToCome
      <4> QED
        BY <3>5, <4>1
    <3>7. op.id \in Stars' \/ \E i \in 1..Len(op'.plan) : op'.plan[i].id = op.id
      <4> SUFFICES ASSUME op.id \notin Stars
                   PROVE  \E i \in 1..Len(op'.plan) : op'.plan[i].id = op.id
        BY <1>2
      <4>1. PICK i \in 1..Len(op.plan) : i # 1 /\ op.plan[i].id = op.id
        BY <1>1, <3>2 DEF StarPlan, ToCome
      <4> QED
        BY <3>5, <4>1
    <3>8. \A i \in 1..Len(op'.plan) :
            /\ op'.plan[i].id \in Dropzones /\ op'.plan[i].doc \in Docs
            /\ op'.plan[i].doc.star <=> op'.plan[i].id = op.id
      BY <3>2, <3>4 DEF StarPlan
    <3>9. op'.id \in Dropzones
      BY <3>1, <3>2 DEF StarPlan
    <3> QED
      BY <3>1, <3>6, <3>7, <3>8, <3>9 DEF StarPlan, ToCome
  <2> QED
    BY <1>1, <2>3, <2>4 DEF StarInv
<1> QED
  BY <1>3, <1>4

LEMMA StarNext ==
  ASSUME StarInv, [Next]_vars
  PROVE  /\ StarInv'
         /\ Starring /\ op' = None /\ faults' = faults => Stars' = {op.id}
<1>1. TypeOK /\ TypeOK'
  BY TypeNext DEF StarInv
<1>2. CASE Request
  BY <1>1, <1>2, RequestShape, StarRequest DEF Requested, Starring
<1>3. CASE SaveFile
  BY <1>1, <1>3, StarSaveFile, FileWritten
<1>4. CASE SaveRow
  BY <1>4, StarSaveRow
<1>5. CASE HandlerFails
  <2>1. op' = None /\ faults' # faults
    BY <1>1, <1>5, BoundsAssumption DEF HandlerFails, TypeOK
  <2> QED
    BY <1>1, <2>1 DEF StarInv, Starring
<1>6. CASE UNCHANGED <<file, op>>
  BY <1>1, <1>6 DEF Stars, Live, StarInv, Starring, StarPlan, ToCome
<1> QED
  BY <1>2, <1>3, <1>4, <1>5, <1>6
  DEF Next, vars, Reindex, PassBegins, PassReads, PassCommits, PassFails

\* Whatever stars drifted to, a set_star that began with rows true to the
\* files and is not stopped leaves its target as the one starred dropzone.
THEOREM SetStarSettles == Spec => SetStarHeals
<1>1. Init => StarInv
  BY NothingType, BoundsAssumption DEF Init, StarInv, TypeOK, Starring
<1>2. StarInv /\ [Next]_vars => StarInv'
  BY StarNext
<1>3. StarInv /\ [Next]_vars
        => [op # None /\ op.h = "star" /\ op.agreed /\ op' = None /\ faults' = faults
              => Stars' = {op.id}]_vars
  BY StarNext DEF Starring
<1> QED
  BY <1>1, <1>2, <1>3, PTL DEF Spec, SetStarHeals

-----------------------------------------------------------------------------
(* One star.  While no handler was stopped, every row agrees with its file   *)
(* whenever a request begins, and the plan of the request at work says which *)
(* stars there can be.                                                       *)

\* No row is left behind, and a reindex has none to heal.
Unhealed == faults = 0 => left = {} /\ Healing = {}

OneAtRest == Live = {} \/ \E s \in Dropzones : Stars = {s}

\* A create stars the first dropzone, an update keeps the star.
KeepPlan ==
    \E doc \in Docs :
        /\ op.plan = <<Save(op.id, doc)>> /\ OneAtRest
        /\ op.id \in Dropzones /\ ~op.half
             => (doc.star <=> Live = {} \/ op.id \in Stars)

\* A delete that has no star to give away, or has given it away.
DropPlan ==
    /\ op.plan = <<Save(op.id, None)>>
    /\ Live = {} \/ Stars # {}
    /\ Live \ {op.id} = {} \/ \E s \in Dropzones : Stars \ {op.id} = {s}

\* A delete that gives the star to s first.
HandOverPlan ==
    \E s \in Dropzones \ {op.id}, doc \in Docs :
        /\ op.plan = <<Save(s, doc), Save(op.id, None)>> /\ doc.star
        /\ Stars = IF op.half THEN {op.id, s} ELSE {op.id}

\* A set_star that has the old star s to clear.
ClearPlan ==
    \E s \in Dropzones \ {op.id}, cleared \in Docs, doc \in Docs :
        /\ op.plan = <<Save(s, cleared), Save(op.id, doc)>>
        /\ ~cleared.star /\ doc.star /\ op.id \in Dropzones
        /\ Stars = IF op.half THEN {} ELSE {s}

\* A set_star that has cleared it.
StampPlan ==
    \E doc \in Docs :
        /\ op.plan = <<Save(op.id, doc)>> /\ doc.star /\ op.id \in Dropzones
        /\ Stars = IF op.half THEN {op.id} ELSE {}

StarsFit ==
    /\ op = None => OneAtRest
    /\ op # None /\ op.h \in {"create", "update"} => KeepPlan
    /\ op # None /\ op.h = "delete" => DropPlan \/ HandOverPlan
    /\ op # None /\ op.h = "star" => ClearPlan \/ StampPlan

OneStarInv == FollowInv /\ Unhealed /\ (faults = 0 => StarsFit)

LEMMA UnhealedNext == TypeOK /\ Unhealed /\ [Next]_vars => Unhealed'
<1> SUFFICES ASSUME TypeOK, Unhealed, [Next]_vars, faults' = 0
             PROVE  left' = {} /\ Healing' = {}
  BY DEF Unhealed
<1>1. CASE Request
  BY <1>1, RequestShape DEF Requested, Unhealed, Healing
<1>2. CASE SaveFile \/ SaveRow
  BY <1>2 DEF SaveFile, SaveRow, Unhealed, Healing
<1>3. CASE HandlerFails
  BY <1>3 DEF HandlerFails, TypeOK
<1>4. CASE Reindex
  BY <1>4 DEF Reindex, Begin, Unhealed, Healing
<1>5. CASE PassBegins
  <2>1. pass \in Passes /\ left = {}
    BY <1>5 DEF PassBegins, TypeOK, Unhealed
  <2>2. pass'.heals = {} /\ left' = {}
    BY <1>5, <2>1 DEF PassBegins, Passes
  <2> QED
    BY <2>2 DEF Healing
<1>6. CASE PassReads
  <2>1. pass \in Passes /\ pass.heals = {} /\ left = {}
    BY <1>6 DEF PassReads, Reading, TypeOK, Unhealed, Healing
  <2>2. pass'.heals = {} /\ left' = {}
    BY <1>6, <2>1 DEF PassReads, Passes
  <2> QED
    BY <2>2 DEF Healing
<1>7. CASE PassCommits
  BY <1>7 DEF PassCommits, Reading, Begin, Unhealed, Healing
<1>8. CASE PassFails
  BY <1>8 DEF PassFails, Unhealed, Healing
<1>9. CASE UNCHANGED vars
  BY <1>9 DEF vars, Unhealed, Healing
<1> QED
  BY <1>1, <1>2, <1>3, <1>4, <1>5, <1>6, <1>7, <1>8, <1>9 DEF Next

\* With no handler stopped so far, a request finds every row true to its file.
LEMMA CalmRows ==
  ASSUME OneStarInv, faults = 0, op = None, NEW e \in Entities
  PROVE  row[e] = file[e]
  BY DEF OneStarInv, FollowInv, RowsFollowFiles, Unhealed, Pending

-----------------------------------------------------------------------------
(* The plan a request begins with. *)

\* A request writes no file: the stars are those of the logbook at rest.
LEMMA RestingStars ==
  ASSUME OneStarInv, faults = 0, Request
  PROVE  /\ TypeOK /\ TypeOK' /\ op = None /\ op' # None /\ op'.half = FALSE
         /\ OneAtRest /\ Stars' = Stars /\ Live' = Live /\ OneAtRest'
         /\ Dropzones \subseteq Entities
<1>1. TypeOK /\ TypeOK' /\ Requested
  BY RequestShape, TypeNext DEF OneStarInv, FollowInv, Next
<1>2. op = None /\ op' # None /\ op'.half = FALSE /\ OneAtRest
  BY <1>1, NoneAssumption DEF Requested, OneStarInv, StarsFit
<1>3. Stars' = Stars /\ Live' = Live
  BY <1>1 DEF Requested, Stars, Live
<1> QED
  BY <1>1, <1>2, <1>3 DEF OneAtRest, Entities

LEMMA CreatePlans ==
  ASSUME OneStarInv, faults = 0, Request,
         NEW d \in Dropzones, NEW r \in Revs, CreateDropzone(d, r)
  PROVE  StarsFit'
<1> DEFINE doc == [rev |-> r, star |-> \A x \in Dropzones : row[x] = None]
<1>1. /\ TypeOK /\ op = None /\ op' # None /\ op'.half = FALSE /\ OneAtRest'
      /\ Stars' = Stars /\ Live' = Live /\ Dropzones \subseteq Entities
  BY RestingStars
<1>2. op'.h = "create" /\ op'.id = d /\ op'.plan = <<Save(d, doc)>>
  BY DEF CreateDropzone, Run
<1>3. doc \in Docs
  BY DEF Docs
<1>4. d \notin Stars
  BY DEF CreateDropzone, Fresh, Stars, Live
<1>5. doc.star <=> Live = {} \/ d \in Stars
  BY <1>1, <1>4, CalmRows DEF Live
<1> HIDE DEF doc
<1>6. KeepPlan'
  BY <1>1, <1>2, <1>3, <1>5 DEF KeepPlan, Save
<1> QED
  BY <1>1, <1>2, <1>6 DEF StarsFit

LEMMA UpdatePlans ==
  ASSUME OneStarInv, faults = 0, Request,
         NEW d \in Dropzones, NEW r \in Revs, UpdateDropzone(d, r)
  PROVE  StarsFit'
<1> DEFINE doc == [file[d] EXCEPT !.rev = r]
<1>1. /\ TypeOK /\ op = None /\ op' # None /\ op'.half = FALSE /\ OneAtRest'
      /\ Stars' = Stars /\ Live' = Live /\ Dropzones \subseteq Entities
  BY RestingStars
<1>2. op'.h = "update" /\ op'.id = d /\ op'.plan = <<Save(d, doc)>> /\ file[d] # None
  BY DEF UpdateDropzone, Run
<1>3. file[d] \in Docs
  BY <1>1, <1>2, StarredType
<1>4. doc \in Docs /\ doc.star = file[d].star
  BY <1>3 DEF Docs
<1>5. doc.star <=> Live = {} \/ d \in Stars
  BY <1>2, <1>4 DEF Live, Stars
<1> HIDE DEF doc
<1>6. KeepPlan'
  BY <1>1, <1>2, <1>4, <1>5 DEF KeepPlan, Save
<1> QED
  BY <1>1, <1>2, <1>6 DEF StarsFit

LEMMA DeletePlans ==
  ASSUME OneStarInv, faults = 0, Request, NEW d \in Dropzones, DeleteDropzone(d)
  PROVE  StarsFit'
<1>1. /\ TypeOK /\ op = None /\ op' # None /\ op'.half = FALSE /\ OneAtRest
      /\ Stars' = Stars /\ Live' = Live /\ Dropzones \subseteq Entities
  BY RestingStars
<1>2. file[d] # None /\ d \in Live
  BY DEF DeleteDropzone, Live
<1>3. PICK t \in Dropzones : Stars = {t}
  BY <1>1, <1>2 DEF OneAtRest
<1>4. ASSUME NEW plan, Run("delete", d, plan)
      PROVE  op'.h = "delete" /\ op'.id = d /\ op'.plan = plan
  BY <1>4 DEF Run
<1>5. ASSUME Run("delete", d, <<Save(d, None)>>),
             ~file[d].star \/ \A x \in Dropzones \ {d} : row[x] = None
      PROVE  DropPlan'
  <2>1. op'.id = d /\ op'.plan = <<Save(d, None)>>
    BY <1>4, <1>5
  <2>2. Live \ {d} = {} \/ Stars \ {d} = {t}
    <3>1. CASE ~file[d].star
      BY <1>3, <3>1 DEF Stars
    <3>2. CASE \A x \in Dropzones \ {d} : row[x] = None
      BY <1>1, <3>2, CalmRows DEF Live
    <3> QED
      BY <1>5, <3>1, <3>2
  <2> QED
    BY <1>1, <1>3, <2>1, <2>2 DEF DropPlan, Save
<1>6. ASSUME NEW s \in Dropzones \ {d}, row[s] # None, file[d].star,
             Run("delete", d, IF file[s] = None THEN <<Save(d, None)>>
                              ELSE <<Save(s, Starred(s)), Save(d, None)>>)
      PROVE  HandOverPlan'
  <2>1. file[s] # None
    BY <1>1, <1>6, CalmRows
  <2>2. op'.id = d /\ op'.plan = <<Save(s, Starred(s)), Save(d, None)>>
    BY <1>4, <1>6, <2>1
  <2>3. Starred(s) \in Docs /\ Starred(s).star
    BY <1>1, <2>1, StarredType DEF Starred, Docs
  <2>4. Stars = {d}
    BY <1>2, <1>3, <1>6 DEF Stars
  <2> QED
    BY <1>1, <2>2, <2>3, <2>4 DEF HandOverPlan, Save
<1>7. op'.h = "delete"
  BY <1>4 DEF DeleteDropzone
<1>8. DropPlan' \/ HandOverPlan'
  BY <1>5, <1>6 DEF DeleteDropzone
<1> QED
  BY <1>1, <1>7, <1>8 DEF StarsFit

LEMMA AppendToOne ==
  ASSUME NEW S, NEW s \in Seq(S), Len(s) = 1, NEW x \in S
  PROVE  Append(s, x) = <<s[1], x>>
<1>1. s[1] \in S
  BY 1 \in 1..Len(s), ElementOfSeq
<1>2. <<s[1], x>> \in Seq(S)
  BY <1>1
<1>3. Len(<<s[1], x>>) = 2 /\ <<s[1], x>>[1] = s[1] /\ <<s[1], x>>[2] = x
  OBVIOUS
<1>4. /\ Append(s, x) \in Seq(S) /\ Len(Append(s, x)) = Len(s) + 1
      /\ \A i \in 1..Len(s) : Append(s, x)[i] = s[i]
      /\ Append(s, x)[Len(s) + 1] = x
  BY AppendProperties
<1>5. Len(Append(s, x)) = 2 /\ Append(s, x)[1] = s[1] /\ Append(s, x)[2] = x
  BY <1>4
<1>6. \A i \in 1..2 : Append(s, x)[i] = <<s[1], x>>[i]
  <2> SUFFICES ASSUME NEW i \in 1..2 PROVE Append(s, x)[i] = <<s[1], x>>[i]
    OBVIOUS
  <2> i = 1 \/ i = 2
    OBVIOUS
  <2> QED
    BY <1>5, <1>3
<1> QED
  BY <1>2, <1>3, <1>4, <1>5, <1>6, SeqEqual

LEMMA SetStarMoves ==
  ASSUME OneStarInv, faults = 0, Request, NEW d \in Dropzones, SetStar(d)
  PROVE  StarsFit'
<1>1. /\ TypeOK /\ op = None /\ op' # None /\ op'.half = FALSE /\ OneAtRest
      /\ Stars' = Stars /\ Live' = Live /\ Dropzones \subseteq Entities
  BY RestingStars
<1>2. file[d] # None /\ d \in Live
  BY DEF SetStar, Live
<1>3. PICK s \in Dropzones : Stars = {s}
  BY <1>1, <1>2 DEF OneAtRest
<1>4. ToClear(d) = Stars \ {d}
  BY <1>1, CalmRows DEF ToClear, Stars, Live
<1>5. PICK order \in Orders(ToClear(d)) :
        LET clear == [i \in DOMAIN order |->
                        Save(order[i], [file[order[i]] EXCEPT !.star = FALSE])]
        IN  Run("star", d, IF file[d].star THEN clear
                           ELSE Append(clear, Save(d, Starred(d))))
  BY DEF SetStar
<1> DEFINE clear == [i \in DOMAIN order |->
                       Save(order[i], [file[order[i]] EXCEPT !.star = FALSE])]
           cleared == [file[s] EXCEPT !.star = FALSE]
<1>6. clear \in Seq(Saves) /\ order \in [1..Cardinality(ToClear(d)) -> ToClear(d)]
  BY <1>1, ClearPlanType DEF Orders
<1>7. CASE s = d
  <2>1. d \in Stars /\ file[d].star
    BY <1>3, <1>7 DEF Stars
  <2>2. ToClear(d) = {} /\ Cardinality(ToClear(d)) = 0
    BY <1>3, <1>4, <1>7, FS_EmptySet
  <2>3. DOMAIN order = {}
    BY <1>6, <2>2
  <2>4. clear = <<>>
    BY <1>6, <2>3
  <2> QED
    BY <1>5, <2>1, <2>4 DEF Run
<1>8. CASE s # d
  <2>1. ToClear(d) = {s}
    BY <1>3, <1>4, <1>8
  <2>2. Cardinality(ToClear(d)) = 1
    BY <2>1, FS_Singleton
  <2>3. order \in [1..1 -> {s}]
    BY <1>6, <2>1, <2>2
  <2>4. DOMAIN order = 1..1 /\ order[1] = s
    BY <2>3
  <2>5. DOMAIN clear = 1..1 /\ clear[1] = Save(s, cleared)
    <3>1. 1 \in DOMAIN order
      BY <2>4
    <3> QED
      BY <2>4, <3>1
  <2>6. ~file[d].star
    BY <1>2, <1>3, <1>8 DEF Stars
  <2>7. file[s] # None /\ file[s] \in Docs
    BY <1>1, <1>3, StarredType DEF Stars, Live
  <2>8. cleared \in Docs /\ ~cleared.star
    BY <2>7 DEF Docs
  <2>9. Starred(d) \in Docs /\ Starred(d).star /\ Save(d, Starred(d)) \in Saves
    BY <1>1, <1>2, StarredType, SaveType DEF Starred, Docs
  <2>10. op'.h = "star" /\ op'.id = d /\ op'.plan = Append(clear, Save(d, Starred(d)))
    BY <1>5, <2>6 DEF Run
  <2> HIDE DEF clear, cleared
  <2>11. op'.plan = <<Save(s, cleared), Save(d, Starred(d))>>
    <3>1. Len(clear) = 1
      BY <1>6, <2>5
    <3> QED
      BY <1>6, <2>5, <2>9, <2>10, <3>1, AppendToOne
  <2>12. ClearPlan'
    BY <1>1, <1>3, <1>8, <2>8, <2>9, <2>10, <2>11 DEF ClearPlan, Save
  <2> QED
    BY <1>1, <2>10, <2>12 DEF StarsFit
<1> QED
  BY <1>7, <1>8

LEMMA PersonPlans ==
  ASSUME OneStarInv, faults = 0, Request, NEW p \in People, NEW r \in Revs,
         CreatePerson(p, r) \/ UpdatePerson(p, r)
  PROVE  StarsFit'
<1> DEFINE doc == [rev |-> r, star |-> FALSE]
<1>1. op' # None /\ OneAtRest' /\ p \notin Dropzones
  BY RestingStars, KindsAssumption
<1>2. op'.h \in {"create", "update"} /\ op'.id = p /\ op'.plan = <<Save(p, doc)>>
  BY DEF CreatePerson, UpdatePerson, Run
<1>3. doc \in Docs
  BY DEF Docs
<1> HIDE DEF doc
<1>4. KeepPlan'
  BY <1>1, <1>2, <1>3 DEF KeepPlan, Save
<1> QED
  BY <1>1, <1>2, <1>4 DEF StarsFit

LEMMA PersonDeleted ==
  ASSUME OneStarInv, faults = 0, Request, NEW p \in People, DeletePerson(p)
  PROVE  StarsFit'
<1>1. op' # None /\ OneAtRest' /\ p \notin Dropzones
  BY RestingStars, KindsAssumption
<1>2. op'.h = "delete" /\ op'.id = p /\ op'.plan = <<Save(p, None)>>
  BY DEF DeletePerson, Run
<1>3. p \notin Stars' /\ p \notin Live'
  BY <1>1 DEF Stars, Live
<1>4. DropPlan'
  BY <1>1, <1>2, <1>3 DEF DropPlan, OneAtRest, Save
<1> QED
  BY <1>1, <1>2, <1>4 DEF StarsFit

LEMMA StarsRequest ==
  ASSUME OneStarInv, faults = 0, Request
  PROVE  StarsFit'
<1>1. ASSUME NEW d \in Dropzones, NEW r \in Revs,
             CreateDropzone(d, r) \/ UpdateDropzone(d, r)
      PROVE  StarsFit'
  BY <1>1, CreatePlans, UpdatePlans
<1>2. ASSUME NEW d \in Dropzones, DeleteDropzone(d) \/ SetStar(d)
      PROVE  StarsFit'
  BY <1>2, DeletePlans, SetStarMoves
<1>3. ASSUME NEW p \in People, NEW r \in Revs, CreatePerson(p, r) \/ UpdatePerson(p, r)
      PROVE  StarsFit'
  BY <1>3, PersonPlans
<1>4. ASSUME NEW p \in People, DeletePerson(p) PROVE StarsFit'
  BY <1>4, PersonDeleted
<1> QED
  BY <1>1, <1>2, <1>3, <1>4 DEF Request

-----------------------------------------------------------------------------
(* The saves of a plan. *)

\* The stars, and the dropzones, once the file of one of them is written.
LEMMA StarsWritten ==
  ASSUME TypeOK, SaveFile
  PROVE  /\ Stars' = (Stars \ {Current.id}) \cup
              (IF Current.id \in Dropzones /\ Current.doc # None /\ Current.doc.star
               THEN {Current.id} ELSE {})
         /\ Live' = (Live \ {Current.id}) \cup
              (IF Current.id \in Dropzones /\ Current.doc # None
               THEN {Current.id} ELSE {})
<1>1. \A x \in Dropzones : file'[x] = IF x = Current.id THEN Current.doc ELSE file[x]
  BY FileWritten DEF Entities
<1> QED
  BY <1>1 DEF Stars, Live

LEMMA FirstSave ==
  ASSUME NEW e, NEW doc, NEW rest, op.plan = <<Save(e, doc)>> \/ op.plan = <<Save(e, doc), rest>>
  PROVE  Current.id = e /\ Current.doc = doc
  BY DEF Current, Save

LEMMA StarsSaveFile ==
  ASSUME OneStarInv, faults = 0, SaveFile
  PROVE  StarsFit'
<1>1. /\ TypeOK /\ op # None /\ ~op.half /\ StarsFit /\ op \in Ops
  BY CurrentType DEF OneStarInv, FollowInv, SaveFile
<1>2. /\ op' # None /\ op'.h = op.h /\ op'.id = op.id /\ op'.plan = op.plan /\ op'.half
  BY <1>1, FileWritten
<1>3. CASE op.h \in {"create", "update"}
  <2>1. PICK doc \in Docs :
          /\ op.plan = <<Save(op.id, doc)>> /\ OneAtRest
          /\ op.id \in Dropzones => (doc.star <=> Live = {} \/ op.id \in Stars)
    BY <1>1, <1>3 DEF StarsFit, KeepPlan
  <2>2. Current.id = op.id /\ Current.doc = doc /\ doc # None
    BY <2>1, FirstSave, NoneAssumption
  <2>3. OneAtRest'
    <3>1. CASE op.id \notin Dropzones
      BY <1>1, <2>1, <2>2, <3>1, StarsWritten DEF OneAtRest, Stars, Live
    <3>2. CASE op.id \in Dropzones /\ (Live = {} \/ op.id \in Stars)
      <4>1. Stars' = {op.id}
        BY <1>1, <2>1, <2>2, <3>2, StarsWritten DEF OneAtRest, Stars
      <4> QED
        BY <3>2, <4>1 DEF OneAtRest
    <3>3. CASE op.id \in Dropzones /\ ~(Live = {} \/ op.id \in Stars)
      <4>1. Stars' = Stars
        BY <1>1, <2>1, <2>2, <3>3, StarsWritten
      <4> QED
        BY <2>1, <3>3, <4>1 DEF OneAtRest
    <3> QED
      BY <3>1, <3>2, <3>3
  <2>4. KeepPlan'
    BY <1>2, <2>1, <2>3 DEF KeepPlan, Save
  <2> QED
    BY <1>2, <1>3, <2>4 DEF StarsFit
<1>4. CASE op.h = "delete" /\ DropPlan
  <2>1. Current.id = op.id /\ Current.doc = None
    BY <1>4, FirstSave DEF DropPlan
  <2>2. Stars' = Stars \ {op.id} /\ Live' = Live \ {op.id}
    BY <1>1, <2>1, StarsWritten
  <2>3. DropPlan'
    BY <1>2, <1>4, <2>2 DEF DropPlan, Save
  <2> QED
    BY <1>2, <1>4, <2>3 DEF StarsFit
<1>5. CASE op.h = "delete" /\ HandOverPlan
  <2>1. PICK s \in Dropzones \ {op.id}, doc \in Docs :
          /\ op.plan = <<Save(s, doc), Save(op.id, None)>> /\ doc.star
          /\ Stars = {op.id}
    BY <1>1, <1>5 DEF HandOverPlan
  <2>2. Current.id = s /\ Current.doc = doc /\ doc # None
    BY <2>1, FirstSave, NoneAssumption
  <2>3. Stars' = {op.id, s}
    BY <1>1, <2>1, <2>2, StarsWritten
  <2>4. HandOverPlan'
    BY <1>2, <2>1, <2>3 DEF HandOverPlan, Save
  <2> QED
    BY <1>2, <1>5, <2>4 DEF StarsFit
<1>6. CASE op.h = "star" /\ ClearPlan
  <2>1. PICK s \in Dropzones \ {op.id}, cleared \in Docs, doc \in Docs :
          /\ op.plan = <<Save(s, cleared), Save(op.id, doc)>>
          /\ ~cleared.star /\ doc.star /\ op.id \in Dropzones /\ Stars = {s}
    BY <1>1, <1>6 DEF ClearPlan
  <2>2. Current.id = s /\ Current.doc = cleared
    BY <2>1, FirstSave
  <2>3. Stars' = {}
    BY <1>1, <2>1, <2>2, StarsWritten
  <2>4. ClearPlan'
    BY <1>2, <2>1, <2>3 DEF ClearPlan, Save
  <2> QED
    BY <1>2, <1>6, <2>4 DEF StarsFit
<1>7. CASE op.h = "star" /\ StampPlan
  <2>1. PICK doc \in Docs : /\ op.plan = <<Save(op.id, doc)>> /\ doc.star
                            /\ op.id \in Dropzones /\ Stars = {}
    BY <1>1, <1>7 DEF StampPlan
  <2>2. Current.id = op.id /\ Current.doc = doc /\ doc # None
    BY <2>1, FirstSave, NoneAssumption
  <2>3. Stars' = {op.id}
    BY <1>1, <2>1, <2>2, StarsWritten
  <2>4. StampPlan'
    BY <1>2, <2>1, <2>3 DEF StampPlan, Save
  <2> QED
    BY <1>2, <1>7, <2>4 DEF StarsFit
<1> QED
  BY <1>1, <1>3, <1>4, <1>5, <1>6, <1>7 DEF StarsFit, Ops

LEMMA StarsSaveRow ==
  ASSUME OneStarInv, faults = 0, SaveRow
  PROVE  StarsFit'
<1>1. /\ TypeOK /\ op # None /\ op.half /\ StarsFit /\ op \in Ops
      /\ Current.id \in Entities /\ file[Current.id] = Current.doc
  BY CurrentType DEF OneStarInv, FollowInv, SaveRow, HalfDone
<1>2. Stars' = Stars /\ Live' = Live
  BY DEF SaveRow, Stars, Live
<1>3. ASSUME Tail(op.plan) # <<>>
      PROVE  op' # None /\ op'.h = op.h /\ op'.id = op.id /\ op'.plan = Tail(op.plan) /\ ~op'.half
  <2>1. op' = [op EXCEPT !.plan = Tail(op.plan), !.half = FALSE]
    BY <1>3 DEF SaveRow
  <2>2. op' \in Ops
    BY <1>1, <2>1, CurrentType DEF Ops
  <2> QED
    BY <1>1, <2>1, <2>2, NoneAssumption DEF Ops
<1>4. ASSUME NEW x, op.plan = <<x>> PROVE op' = None
  BY <1>4 DEF SaveRow
<1>5. CASE op.h \in {"create", "update"}
  <2>1. op' = None /\ OneAtRest
    BY <1>1, <1>4, <1>5 DEF StarsFit, KeepPlan
  <2> QED
    BY <1>2, <2>1 DEF StarsFit, OneAtRest
<1>6. CASE op.h = "delete" /\ DropPlan
  <2>1. op' = None /\ Current.id = op.id /\ Current.doc = None
    BY <1>4, <1>6, FirstSave DEF DropPlan
  <2>2. op.id \notin Live /\ op.id \notin Stars
    BY <1>1, <2>1 DEF Live, Stars
  <2>3. OneAtRest
    BY <1>6, <2>2 DEF DropPlan, OneAtRest
  <2> QED
    BY <1>2, <2>1, <2>3 DEF StarsFit, OneAtRest
<1>7. CASE op.h = "delete" /\ HandOverPlan
  <2>1. PICK s \in Dropzones \ {op.id}, doc \in Docs :
          /\ op.plan = <<Save(s, doc), Save(op.id, None)>>
          /\ Stars = {op.id, s}
    BY <1>1, <1>7 DEF HandOverPlan
  <2>2. /\ op' # None /\ op'.h = "delete" /\ op'.id = op.id
        /\ op'.plan = <<Save(op.id, None)>>
    BY <1>3, <1>7, <2>1
  <2>3. Stars \ {op.id} = {s}
    BY <2>1
  <2>4. DropPlan'
    BY <1>2, <2>1, <2>2, <2>3 DEF DropPlan, Save
  <2> QED
    BY <2>2, <2>4 DEF StarsFit
<1>8. CASE op.h = "star" /\ ClearPlan
  <2>1. PICK s \in Dropzones, cleared \in Docs, doc \in Docs :
          /\ op.plan = <<Save(s, cleared), Save(op.id, doc)>>
          /\ doc.star /\ op.id \in Dropzones /\ Stars = {}
    BY <1>1, <1>8 DEF ClearPlan
  <2>2. /\ op' # None /\ op'.h = "star" /\ op'.id = op.id /\ ~op'.half
        /\ op'.plan = <<Save(op.id, doc)>>
    BY <1>3, <1>8, <2>1
  <2>3. StampPlan'
    BY <1>2, <2>1, <2>2 DEF StampPlan, Save
  <2> QED
    BY <2>2, <2>3 DEF StarsFit
<1>9. CASE op.h = "star" /\ StampPlan
  <2>1. op' = None /\ op.id \in Dropzones /\ Stars = {op.id}
    BY <1>1, <1>4, <1>9 DEF StampPlan
  <2> QED
    BY <1>2, <2>1 DEF StarsFit, OneAtRest
<1> QED
  BY <1>1, <1>5, <1>6, <1>7, <1>8, <1>9 DEF StarsFit, Ops

LEMMA OneStarNext == OneStarInv /\ [Next]_vars => OneStarInv'
<1> SUFFICES ASSUME OneStarInv, [Next]_vars PROVE OneStarInv'
  OBVIOUS
<1>1. TypeOK /\ FollowInv' /\ Unhealed'
  BY FollowNext, UnhealedNext DEF OneStarInv, FollowInv
<1>2. ASSUME faults' = 0 PROVE StarsFit'
  <2>1. CASE Request
    BY <1>1, <1>2, <2>1, RequestShape, StarsRequest DEF Requested
  <2>2. CASE SaveFile
    BY <1>2, <2>2, StarsSaveFile DEF SaveFile
  <2>3. CASE SaveRow
    BY <1>2, <2>3, StarsSaveRow DEF SaveRow
  <2>4. CASE HandlerFails
    BY <1>1, <1>2, <2>4 DEF HandlerFails, TypeOK
  <2>5. CASE UNCHANGED <<file, op, faults>>
    BY <1>2, <2>5
    DEF OneStarInv, StarsFit, OneAtRest, KeepPlan, DropPlan, HandOverPlan, ClearPlan,
        StampPlan, Stars, Live, Save
  <2> QED
    BY <2>1, <2>2, <2>3, <2>4, <2>5
    DEF Next, vars, Reindex, PassBegins, PassReads, PassCommits, PassFails
<1> QED
  BY <1>1, <1>2 DEF OneStarInv

LEMMA CountStars ==
  ASSUME NEW s, NEW t, s # t
  PROVE  Cardinality({}) = 0 /\ Cardinality({s}) = 1 /\ Cardinality({s, t}) = 2
<1>1. IsFiniteSet({s}) /\ Cardinality({s}) = 1
  BY FS_Singleton
<1>2. Cardinality({s} \cup {t}) = 2
  BY <1>1, FS_AddElement
<1>3. {s} \cup {t} = {s, t}
  OBVIOUS
<1> QED
  BY <1>1, <1>2, <1>3, FS_EmptySet

\* The stars of each plan, counted.
LEMMA StarsCounted ==
  ASSUME OneStarInv PROVE OneStar
<1> SUFFICES ASSUME faults = 0, Live # {}
             PROVE  /\ Cardinality(Stars) <= (IF op # None /\ op.h = "delete" THEN 2 ELSE 1)
                    /\ Stars = {} => op # None /\ op.h = "star"
  BY DEF OneStar
<1>1. StarsFit /\ (op # None => op.h \in {"create", "update", "delete", "star"})
  BY CurrentType DEF OneStarInv, FollowInv, Ops
<1>2. ASSUME NEW s, Stars = {s} PROVE Cardinality(Stars) = 1 /\ Stars # {}
  BY <1>2, FS_Singleton
<1>3. CASE op = None \/ op.h \in {"create", "update"}
  <2>1. \E s \in Dropzones : Stars = {s}
    BY <1>1, <1>3 DEF StarsFit, KeepPlan, OneAtRest
  <2> QED
    BY <1>2, <2>1
<1>4. CASE op # None /\ op.h = "delete" /\ DropPlan
  <2>1. Stars # {}
    BY <1>4 DEF DropPlan
  <2>2. Stars = {op.id} \/ \E s \in Dropzones : Stars \ {op.id} = {s}
    BY <1>4, <2>1 DEF DropPlan, Stars
  <2>3. ASSUME NEW s \in Dropzones, Stars \ {op.id} = {s}
        PROVE  Cardinality(Stars) \in 1..2
    <3>1. Stars = {s} \/ (Stars = {op.id, s} /\ op.id # s)
      BY <2>3
    <3>2. CASE Stars = {op.id, s} /\ op.id # s
      <4>1. Cardinality({op.id, s}) = 2
        BY <3>2, CountStars
      <4> QED
        BY <3>2, <4>1
    <3>3. CASE Stars = {s}
      BY <1>2, <3>3
    <3> QED
      BY <3>1, <3>2, <3>3
  <2>4. Cardinality(Stars) \in 1..2
    BY <1>2, <2>2, <2>3
  <2> QED
    BY <1>4, <2>1, <2>4
<1>5. CASE op # None /\ op.h = "delete" /\ HandOverPlan
  <2>1. \/ Stars = {op.id}
        \/ \E s \in Dropzones \ {op.id} : Stars = {op.id, s}
    BY <1>5 DEF HandOverPlan
  <2>2. ASSUME NEW s \in Dropzones \ {op.id}, Stars = {op.id, s}
        PROVE  Cardinality(Stars) = 2
    BY <2>2, CountStars
  <2>3. Cardinality(Stars) \in 1..2 /\ Stars # {}
    BY <1>2, <2>1, <2>2
  <2> QED
    BY <1>5, <2>3
<1>6. CASE op # None /\ op.h = "star"
  <2>1. Stars = {} \/ \E s \in Dropzones : Stars = {s}
    BY <1>1, <1>6 DEF StarsFit, ClearPlan, StampPlan
  <2>2. Cardinality(Stars) \in 0..1
    BY <1>2, <2>1, FS_EmptySet
  <2> QED
    BY <1>6, <2>2
<1> QED
  BY <1>1, <1>3, <1>4, <1>5, <1>6 DEF StarsFit

\* D60: as long as no handler was stopped, dropzones at rest have exactly one
\* star; a delete shows two at most, and only a set_star shows none.
THEOREM OneStarOnly == Spec => []OneStar
<1>1. Init => OneStarInv
  BY NothingType, BoundsAssumption
  DEF Init, OneStarInv, FollowInv, TypeOK, HalfDone, NotBegun, Collected, RowsFollowFiles,
      Reading, Unhealed, Healing, StarsFit, OneAtRest, Live, Nothing, Entities
<1> QED
  BY <1>1, OneStarNext, StarsCounted, PTL DEF Spec

=============================================================================
