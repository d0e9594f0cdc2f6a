-------------------------- MODULE JumpStore_proofs --------------------------
(***************************************************************************)
(* Theorems about JumpStore, for every set of ids, numbers, titles, files  *)
(* and contents, and any number of failures.  A reindex may run beside the *)
(* handlers, except where a theorem assumes ~OnlineReindex.                *)
(***************************************************************************)
EXTENDS JumpStore, TLAPS

\* Which handler can be at which step, and what it carries there.
OpShape ==
    op # None =>
        /\ op.h = "delete" \/ op.doc \in Docs
        /\ op.pc = "stream" => op.h \in {"create", "add"}
        /\ op.pc \in {"xml", "sums"} => op.h # "delete"
        /\ op.pc = "rename" => op.h = "update"
        /\ op.pc = "unlink" => op.h = "unattach"
        /\ op.pc = "trash" => op.h = "delete"
        /\ op.h = "unattach" => op.del \in Files
        /\ op.h = "delete" => op.pc \in {"trash", "row"}
        /\ ~(op.h = "delete" /\ op.pc = "row") => folder[op.at] # None

RxShape == rx.pc \in {"heal", "parse"} => rx.at \in Names /\ rx.doc \in Docs

TypeInv == TypeOK /\ OpShape /\ RxShape

-----------------------------------------------------------------------------
LEMMA NoPartsType == NoParts \in Parts
  BY DEF NoParts, Parts

LEMMA EmptyDirType == EmptyDir \in Folders /\ EmptyDir # None
  BY NoPartsType, NoneAssumption DEF EmptyDir, Folders

LEMMA ReconciledType ==
  ASSUME TypeOK, NEW n \in Names, Valid(n)
  PROVE  /\ Reconciled(n) \in [Names -> Folders \cup {None}]
         /\ Reconciled(n)[n] # None
         /\ folder[n] \in Folders
         /\ folder[n].xml \in Docs
         /\ folder[n].xml.atts \in Parts
         /\ folder[n].files \in Parts
  BY NoneAssumption DEF TypeOK, Reconciled, Folders, Valid, Docs

LEMMA OpensType ==
  ASSUME TypeOK, NEW i \in Ids, Opens(i)
  PROVE  row[i].folder \in Names /\ Valid(row[i].folder)
  BY DEF TypeOK, Opens, Rows

LEMMA StartedType ==
  ASSUME NEW h \in Handlers, NEW pc \in Steps, NEW i \in Ids, NEW n \in Names,
         NEW d \in Docs \cup {None}, NEW u \in Parts, NEW f \in Files \cup {None}
  PROVE  /\ Started(h, pc, i, n, d, u, f) \in Ops
         /\ Started(h, pc, i, n, d, u, f) # None
         /\ Started(h, pc, i, n, d, u, f).h = h
         /\ Started(h, pc, i, n, d, u, f).pc = pc
         /\ Started(h, pc, i, n, d, u, f).doc = d
         /\ Started(h, pc, i, n, d, u, f).del = f
         /\ Started(h, pc, i, n, d, u, f).at = n
         /\ Started(h, pc, i, n, d, u, f).todo = u
  BY NoneAssumption DEF Started, Ops

-----------------------------------------------------------------------------
LEMMA TypeInit == Init => TypeInv
  BY FaultsAssumption, NoneAssumption
  DEF Init, TypeInv, TypeOK, OpShape, RxShape, RxIdle, RxPhases

LEMMA TypeRequest == TypeInv /\ Request => TypeInv'
<1> SUFFICES ASSUME TypeInv, Request PROVE TypeInv'
  OBVIOUS
<1> USE DEF TypeInv
<1>r. ASSUME rx' = rx, RxShape PROVE RxShape'
  BY <1>r DEF RxShape
<1>1. ASSUME NEW i \in Ids, GetJump(i) PROVE TypeInv'
  <2>1. Reconciled(row[i].folder) \in [Names -> Folders \cup {None}]
    BY <1>1, OpensType, ReconciledType DEF GetJump
  <2> QED
    BY <1>1, <2>1, <1>r DEF GetJump, MayStart, TypeOK, OpShape
<1>2. ASSUME NEW i \in Ids, NEW n \in Names, NEW u \in Parts, CreateJump(i, n, u)
      PROVE  TypeInv'
  <2>1. [id |-> i, num |-> n[1], title |-> n[2], atts |-> u] \in Docs
    BY DEF Docs, Names
  <2>2. /\ op' \in Ops /\ op'.h = "create" /\ op'.pc = "stream" /\ op'.doc \in Docs
        /\ op'.at = n
    BY <1>2, <2>1, StartedType DEF CreateJump, Handlers, Steps
  <2> QED
    BY <1>2, <2>2, <1>r, EmptyDirType DEF CreateJump, TypeOK, OpShape
<1>3. ASSUME NEW i \in Ids, NEW names \in SUBSET Files, TrackFiles(i, names)
      PROVE  TypeInv'
  <2> DEFINE at == row[i].folder
             d  == folder[at].xml
             on == folder[at].files
             toTrack == {f \in names : d.atts[f] = None}
             atts == [f \in Files |-> IF f \in toTrack THEN on[f] ELSE d.atts[f]]
             doc == [d EXCEPT !.atts = atts]
  <2>0. /\ at \in Names /\ Valid(at) /\ d \in Docs /\ on \in Parts /\ d.atts \in Parts
        /\ Reconciled(at) \in [Names -> Folders \cup {None}]
        /\ Reconciled(at)[at] # None
    BY <1>3, OpensType, ReconciledType DEF TrackFiles
  <2>1. atts \in Parts
    BY <2>0 DEF Parts
  <2>2. doc \in Docs
    BY <2>0, <2>1 DEF Docs
  <2>3. op' = Started("track", "xml", i, at, doc, NoParts, None)
    BY <1>3 DEF TrackFiles
  <2>5. folder' \in [Names -> Folders \cup {None}] /\ folder'[at] # None
    BY <1>3, <2>0 DEF TrackFiles
  <2> HIDE DEF at, d, on, toTrack, atts, doc
  <2>4. /\ op' \in Ops /\ op'.h = "track" /\ op'.pc = "xml" /\ op'.doc \in Docs
        /\ op'.at = at
    BY <2>0, <2>2, <2>3, StartedType, NoPartsType DEF Handlers, Steps
  <2> QED
    BY <1>3, <2>4, <2>5, <1>r DEF TrackFiles, TypeOK, OpShape
<1>4. ASSUME NEW i \in Ids, NEW u \in Parts, AddAttachments(i, u)
      PROVE  TypeInv'
  <2> DEFINE at == row[i].folder
             d  == folder[at].xml
             atts == [f \in Files |-> IF u[f] # None THEN u[f] ELSE d.atts[f]]
             doc == [d EXCEPT !.atts = atts]
  <2>0. /\ at \in Names /\ Valid(at) /\ d \in Docs /\ d.atts \in Parts
        /\ Reconciled(at) \in [Names -> Folders \cup {None}]
        /\ Reconciled(at)[at] # None
    BY <1>4, OpensType, ReconciledType DEF AddAttachments
  <2>1. atts \in Parts
    BY <2>0 DEF Parts
  <2>2. doc \in Docs
    BY <2>0, <2>1 DEF Docs
  <2>3. op' = Started("add", "stream", i, at, doc, u, None)
    BY <1>4 DEF AddAttachments
  <2>5. folder' \in [Names -> Folders \cup {None}] /\ folder'[at] # None
    BY <1>4, <2>0 DEF AddAttachments
  <2> HIDE DEF at, d, atts, doc
  <2>4. /\ op' \in Ops /\ op'.h = "add" /\ op'.pc = "stream" /\ op'.doc \in Docs
        /\ op'.at = at
    BY <2>0, <2>2, <2>3, StartedType DEF Handlers, Steps
  <2> QED
    BY <1>4, <2>4, <2>5, <1>r DEF AddAttachments, TypeOK, OpShape
<1>5. ASSUME NEW i \in Ids, NEW f \in Files, DeleteAttachment(i, f)
      PROVE  TypeInv'
  <2> DEFINE at == row[i].folder
             d  == folder[at].xml
             doc == [d EXCEPT !.atts[f] = None]
  <2>0. /\ at \in Names /\ Valid(at) /\ d \in Docs /\ d.atts \in Parts
        /\ Reconciled(at) \in [Names -> Folders \cup {None}]
        /\ Reconciled(at)[at] # None
    BY <1>5, OpensType, ReconciledType DEF DeleteAttachment
  <2>2. doc \in Docs
    BY <2>0 DEF Docs, Parts
  <2>3. op' = Started("unattach", "xml", i, at, doc, NoParts, f)
    BY <1>5 DEF DeleteAttachment
  <2>5. folder' \in [Names -> Folders \cup {None}] /\ folder'[at] # None
    BY <1>5, <2>0 DEF DeleteAttachment
  <2> HIDE DEF at, d, doc
  <2>4. /\ op' \in Ops /\ op'.h = "unattach" /\ op'.pc = "xml" /\ op'.doc \in Docs
        /\ op'.del \in Files /\ op'.at = at
    BY <2>0, <2>2, <2>3, StartedType, NoPartsType DEF Handlers, Steps
  <2> QED
    BY <1>5, <2>4, <2>5, <1>r DEF DeleteAttachment, TypeOK, OpShape
<1>6. ASSUME NEW i \in Ids, NEW n \in Names, UpdateJump(i, n)
      PROVE  TypeInv'
  <2> DEFINE at == row[i].folder
             d  == folder[at].xml
             doc == [d EXCEPT !.num = n[1], !.title = n[2]]
  <2>0. /\ at \in Names /\ Valid(at) /\ d \in Docs
        /\ Reconciled(at) \in [Names -> Folders \cup {None}]
        /\ Reconciled(at)[at] # None
    BY <1>6, OpensType, ReconciledType DEF UpdateJump
  <2>2. doc \in Docs
    BY <2>0 DEF Docs, Names
  <2>3. op' = Started("update", "xml", i, at, doc, NoParts, None)
    BY <1>6 DEF UpdateJump
  <2>5. folder' \in [Names -> Folders \cup {None}] /\ folder'[at] # None
    BY <1>6, <2>0 DEF UpdateJump
  <2> HIDE DEF at, d, doc
  <2>4. /\ op' \in Ops /\ op'.h = "update" /\ op'.pc = "xml" /\ op'.doc \in Docs
        /\ op'.at = at
    BY <2>0, <2>2, <2>3, StartedType, NoPartsType DEF Handlers, Steps
  <2> QED
    BY <1>6, <2>4, <2>5, <1>r DEF UpdateJump, TypeOK, OpShape
<1>7. ASSUME NEW i \in Ids, DeleteJump(i) PROVE TypeInv'
  <2>1. row[i].folder \in Names
    BY <1>7 DEF DeleteJump, TypeOK, Rows
  <2>2. op' \in Ops /\ op'.h = "delete" /\ op'.pc = "trash" /\ op'.at = row[i].folder
    <3>1. op' = Started("delete", "trash", i, row[i].folder, None, NoParts, None)
      BY <1>7 DEF DeleteJump
    <3> QED
      BY <2>1, <3>1, NoPartsType DEF Started, Ops, Handlers, Steps
  <2> QED
    BY <1>7, <2>2, <1>r DEF DeleteJump, TypeOK, OpShape
<1> QED
  BY <1>1, <1>2, <1>3, <1>4, <1>5, <1>6, <1>7 DEF Request

LEMMA TypeHandler == TypeInv /\ Handler => TypeInv'
<1> SUFFICES ASSUME TypeInv, Handler PROVE TypeInv'
  OBVIOUS
<1> USE DEF TypeInv
<1>r. ASSUME rx' = rx, RxShape PROVE RxShape'
  BY <1>r DEF RxShape
<1>o. ASSUME op' = None PROVE op' \in Ops \cup {None} /\ OpShape'
  BY <1>o DEF OpShape
<1>t. op # None => /\ op \in Ops /\ op.at \in Names /\ op.id \in Ids
                   /\ op.todo \in Parts
  BY DEF TypeOK, Ops
<1>l. ASSUME op # None, op.h # "delete" \/ op.pc = "trash"
      PROVE  folder[op.at] \in Folders
  BY <1>l, <1>t DEF OpShape, TypeOK
<1>1. ASSUME NEW f \in Files, StreamUpload(f) PROVE TypeInv'
  <2>1. op.todo[f] \in Contents \cup {None}
    BY <1>1, <1>t DEF StreamUpload, At, Parts
  <2>2. op' \in Ops /\ op' # None /\ op'.h = op.h /\ op'.pc = "stream" /\ op'.doc = op.doc
        /\ op'.del = op.del
    BY <1>1, <1>t, NoneAssumption DEF StreamUpload, At, Parts, Ops
  <2>0. folder[op.at] \in Folders
    BY <1>1, <1>l DEF StreamUpload, At, OpShape
  <2>4. [folder[op.at] EXCEPT !.files[f] = op.todo[f]] \in Folders
    BY <2>0, <2>1 DEF Folders, Parts
  <2>3. folder' \in [Names -> Folders \cup {None}] /\ folder'[op.at] # None /\ op'.at = op.at
    BY <1>1, <1>t, <2>4, NoneAssumption DEF StreamUpload, At, TypeOK, Ops
  <2> QED
    BY <1>1, <2>2, <2>3, <1>r DEF StreamUpload, At, TypeOK, OpShape
<1>2. ASSUME WriteJumpXml PROVE TypeInv'
  <2>1. op # None
    BY <1>2 DEF WriteJumpXml, At, Streamed
  <2>2. op' \in Ops /\ op' # None /\ op'.h = op.h /\ op'.pc = "sums" /\ op'.doc = op.doc
        /\ op'.del = op.del
    BY <1>2, <2>1, <1>t, NoneAssumption DEF WriteJumpXml, Ops, Steps
  <2>4. op.h # "delete" /\ folder[op.at] \in Folders
    BY <1>2, <1>l DEF WriteJumpXml, At, Streamed, OpShape
  <2>5. [folder[op.at] EXCEPT !.xml = op.doc] \in Folders
    BY <2>1, <2>4, <1>t DEF Folders, Ops
  <2>3. folder' \in [Names -> Folders \cup {None}] /\ folder'[op.at] # None /\ op'.at = op.at
    BY <1>2, <1>t, <2>1, <2>5, NoneAssumption DEF WriteJumpXml, TypeOK, Ops
  <2> QED
    BY <1>2, <2>1, <2>2, <2>3, <2>4, <1>r DEF WriteJumpXml, TypeOK, OpShape
<1>3. ASSUME WriteManifest PROVE TypeInv'
  <2>1. op # None
    BY <1>3 DEF WriteManifest, At
  <2>2. /\ op' \in Ops /\ op' # None /\ op'.h = op.h /\ op'.doc = op.doc
        /\ op'.del = op.del /\ op'.pc = AfterSums
    BY <1>3, <2>1, <1>t, NoneAssumption DEF WriteManifest, Ops, Steps, AfterSums
  <2>4. op.h # "delete" /\ folder[op.at] \in Folders
    BY <1>3, <1>l DEF WriteManifest, At, OpShape
  <2>5. [folder[op.at] EXCEPT !.sums = folder[op.at].xml] \in Folders
    BY <2>4 DEF Folders
  <2>3. folder' \in [Names -> Folders \cup {None}] /\ folder'[op.at] # None /\ op'.at = op.at
    BY <1>3, <1>t, <2>1, <2>5, NoneAssumption DEF WriteManifest, TypeOK, Ops
  <2> QED
    BY <1>3, <2>1, <2>2, <2>3, <2>4, <1>r
    DEF WriteManifest, TypeOK, OpShape, AfterSums
<1>4. ASSUME RenameFolder PROVE TypeInv'
  <2>1. op # None /\ op.doc \in Docs /\ op.h = "update"
    BY <1>4 DEF RenameFolder, At, OpShape
  <2>2. FolderName(op.doc) \in Names
    BY <2>1 DEF FolderName, Names, Docs
  <2>3. /\ op' \in Ops /\ op' # None /\ op'.h = op.h /\ op'.doc = op.doc
        /\ op'.del = op.del /\ op'.pc = "row"
    BY <1>4, <2>1, <2>2, <1>t, NoneAssumption DEF RenameFolder, Ops, Steps
  <2>5. folder[op.at] \in Folders
    BY <2>1, <1>l
  <2>4. folder' \in [Names -> Folders \cup {None}] /\ folder'[op'.at] # None
    BY <1>4, <1>t, <2>1, <2>2, <2>5, NoneAssumption DEF RenameFolder, TypeOK, Ops
  <2> QED
    BY <1>4, <2>1, <2>3, <2>4, <1>r DEF RenameFolder, TypeOK, OpShape
<1>5. ASSUME RenameRefused \/ RowConflict PROVE TypeInv'
  BY <1>5, <1>r, <1>o DEF RenameRefused, RowConflict, TypeOK
<1>6. ASSUME UnlinkAttachment PROVE TypeInv'
  <2>1. op # None
    BY <1>6 DEF UnlinkAttachment, At
  <2>2. /\ op' \in Ops /\ op' # None /\ op'.h = op.h /\ op'.doc = op.doc
        /\ op'.del = op.del /\ op'.pc = "row"
    BY <1>6, <2>1, <1>t, NoneAssumption DEF UnlinkAttachment, Ops, Steps
  <2>4. op.h # "delete" /\ folder[op.at] \in Folders
    BY <1>6, <1>l DEF UnlinkAttachment, At, OpShape
  <2>5. [folder[op.at] EXCEPT !.files[op.del] = None] \in Folders
    BY <2>4 DEF Folders, Parts
  <2>3. folder' \in [Names -> Folders \cup {None}] /\ folder'[op.at] # None /\ op'.at = op.at
    BY <1>6, <1>t, <2>1, <2>5, NoneAssumption DEF UnlinkAttachment, TypeOK, Ops
  <2> QED
    BY <1>6, <2>1, <2>2, <2>3, <2>4, <1>r DEF UnlinkAttachment, TypeOK, OpShape
<1>7. ASSUME MoveToTrash PROVE TypeInv'
  <2>1. op # None
    BY <1>7 DEF MoveToTrash, At
  <2>2. /\ op' \in Ops /\ op' # None /\ op'.h = op.h /\ op'.doc = op.doc
        /\ op'.del = op.del /\ op'.pc = "row"
    BY <1>7, <2>1, <1>t, NoneAssumption DEF MoveToTrash, Ops, Steps
  <2>0. folder[op.at] \in Folders /\ op.h = "delete"
    BY <1>7, <2>1, <1>t DEF MoveToTrash, At, OpShape, TypeOK
  <2>3. /\ folder' \in [Names -> Folders \cup {None}]
        /\ trash' \subseteq Folders
    BY <1>7, <1>t, <2>0, <2>1 DEF MoveToTrash, TypeOK
  <2> QED
    BY <1>7, <2>0, <2>1, <2>2, <2>3, <1>r DEF MoveToTrash, TypeOK, OpShape
<1>8. ASSUME CommitRow PROVE TypeInv'
  <2>1. op # None
    BY <1>8 DEF CommitRow, At
  <2>2. CommittedRow \in Rows \cup {None}
    BY <2>1, <1>t DEF CommittedRow, RowFor, Rows, Docs, OpShape, TypeOK
  <2>3. row' \in [Ids -> Rows \cup {None}]
    BY <1>8, <2>2 DEF CommitRow, TypeOK
  <2> QED
    BY <1>8, <2>3, <1>r, <1>o DEF CommitRow, TypeOK
<1> QED
  BY <1>1, <1>2, <1>3, <1>4, <1>5, <1>6, <1>7, <1>8 DEF Handler

LEMMA TypeReindex == TypeInv /\ Reindex => TypeInv'
<1> SUFFICES ASSUME TypeInv, Reindex PROVE TypeInv'
  OBVIOUS
<1> USE DEF TypeInv
<1>o. ASSUME op' = op, folder' = folder PROVE OpShape'
  BY <1>o DEF OpShape
<1>1. ASSUME RxStart \/ RxAbort PROVE TypeInv'
  <2>1. ASSUME RxStart PROVE TypeInv'
    <3>1. rx' = [pc |-> "look", todo |-> {n \in Names : folder[n] # None},
                 got |-> {}, at |-> None, doc |-> None]
      BY <2>1 DEF RxStart, RxIdle
    <3> QED
      BY <2>1, <3>1, <1>o DEF RxStart, RxPhases, TypeOK, RxShape
  <2>2. ASSUME RxAbort PROVE TypeInv'
    BY <2>2, <1>o DEF RxAbort, RxIdle, RxPhases, TypeOK, RxShape
  <2> QED
    BY <1>1, <2>1, <2>2
<1>2. ASSUME NEW n \in Names, RxLook(n) PROVE TypeInv'
  <2>1. Valid(n) => folder[n].xml \in Docs
    BY ReconciledType
  <2> QED
    BY <1>2, <2>1, <1>o DEF RxLook, RxPhases, TypeOK, RxShape
<1>3. ASSUME RxHeal PROVE TypeInv'
  <2>1. rx.at \in Names /\ rx.doc \in Docs
    BY <1>3 DEF RxHeal, RxShape
  <2> DEFINE old == IF folder[rx.at] = None THEN EmptyDir ELSE folder[rx.at]
             new == [old EXCEPT !.sums = rx.doc]
  <2>2. folder' = [folder EXCEPT ![rx.at] = new]
    BY <1>3, <2>1 DEF RxHeal, TypeOK
  <2>3. old \in Folders
    BY <2>1, EmptyDirType DEF TypeOK
  <2>4. new \in Folders /\ new # None
    <3> HIDE DEF old
    <3>1. new \in Folders
      BY <2>1, <2>3 DEF Folders
    <3> QED
      BY <3>1, NoneAssumption
  <2> HIDE DEF new
  <2>5. folder' \in [Names -> Folders \cup {None}]
    BY <2>2, <2>4 DEF TypeOK
  <2>6. \A n \in Names : folder[n] # None => folder'[n] # None
    BY <2>2, <2>4 DEF TypeOK
  <2>7. OpShape'
    BY <1>3, <2>6 DEF RxHeal, OpShape, TypeOK, Ops
  <2> QED
    BY <1>3, <2>5, <2>7 DEF RxHeal, RxPhases, TypeOK, RxShape
<1>4. ASSUME RxParse PROVE TypeInv'
  <2>1. rx.at \in Names
    BY <1>4 DEF RxParse, RxShape
  <2>2. Valid(rx.at) => folder[rx.at].xml \in Docs
    BY <2>1, ReconciledType
  <2>3. rx'.got \subseteq Names \X Docs
    BY <1>4, <2>1, <2>2 DEF RxParse, TypeOK
  <2> QED
    BY <1>4, <2>3, <1>o DEF RxParse, RxPhases, TypeOK, RxShape
<1>5. ASSUME RxCommit PROVE TypeInv'
  <2>1. PICK last \in [{e[2].id : e \in rx.got} -> rx.got] :
          row' = [i \in Ids |->
                   IF i \in DOMAIN last THEN RowFor(last[i][2], last[i][1])
                   ELSE IF row[i] # None /\ \E e \in rx.got : e[2].num = row[i].num
                        THEN None ELSE row[i]]
    BY <1>5 DEF RxCommit
  <2>2. rx.got \subseteq Names \X Docs
    BY DEF TypeOK
  <2>3. \A i \in DOMAIN last : RowFor(last[i][2], last[i][1]) \in Rows
    BY <2>2 DEF RowFor, Rows, Docs
  <2>4. row' \in [Ids -> Rows \cup {None}]
    BY <2>1, <2>3 DEF TypeOK
  <2> QED
    BY <1>5, <2>4, <1>o DEF RxCommit, RxIdle, RxPhases, TypeOK, RxShape
<1> QED
  BY <1>1, <1>2, <1>3, <1>4, <1>5 DEF Reindex

LEMMA TypeEnvironment == TypeInv /\ Environment => TypeInv'
<1> SUFFICES ASSUME TypeInv, Environment PROVE TypeInv'
  OBVIOUS
<1> USE DEF TypeInv
<1>1. ASSUME NEW n \in Names, NEW f \in Files, NEW c \in Contents, DropIn(n, f, c)
      PROVE  TypeInv'
  <2>1. [folder[n] EXCEPT !.files[f] = c] \in Folders
    BY <1>1 DEF DropIn, TypeOK, Folders, Parts
  <2>2. /\ folder' \in [Names -> Folders \cup {None}]
        /\ \A m \in Names : folder[m] # None => folder'[m] # None
    BY <1>1, <2>1, NoneAssumption DEF DropIn, TypeOK
  <2>3. OpShape'
    BY <1>1, <2>2 DEF DropIn, OpShape, TypeOK, Ops
  <2> QED
    BY <1>1, <2>2, <2>3 DEF DropIn, TypeOK, RxShape
<1>2. ASSUME HandlerFails PROVE TypeInv'
  BY <1>2, FaultsAssumption DEF HandlerFails, TypeOK, OpShape, RxShape
<1>3. ASSUME RxHealFails PROVE TypeInv'
  <2>1. /\ rx' \in [pc : RxPhases, todo : SUBSET Names, got : SUBSET (Names \X Docs),
                    at : Names \cup {None}, doc : Docs \cup {None}]
        /\ rx'.pc = "look"
    BY <1>3 DEF RxHealFails, TypeOK, RxPhases
  <2>2. faults' \in 0..MaxFaults
    BY <1>3, FaultsAssumption DEF RxHealFails, TypeOK
  <2> QED
    BY <1>3, <2>1, <2>2 DEF RxHealFails, TypeOK, OpShape, RxShape
<1>4. ASSUME Crash PROVE TypeInv'
  BY <1>4, FaultsAssumption DEF Crash, TypeOK, OpShape, RxShape, RxPhases, RxIdle
<1> QED
  BY <1>1, <1>2, <1>3, <1>4 DEF Environment

LEMMA TypeStep == TypeInv /\ [Next]_vars => TypeInv'
<1>1. TypeInv /\ UNCHANGED vars => TypeInv'
  BY DEF TypeInv, TypeOK, OpShape, RxShape, vars
<1> QED
  BY <1>1, TypeRequest, TypeHandler, TypeReindex, TypeEnvironment DEF Next

LEMMA TypeInvariant == Spec => []TypeInv
  BY TypeInit, TypeStep, PTL DEF Spec

\* Every variable keeps its type in every behaviour of the store.
THEOREM TypeCorrect == Spec => []TypeOK
  <1>1. TypeInv => TypeOK
    BY DEF TypeInv
  <1> QED
    BY <1>1, TypeInvariant, PTL

-----------------------------------------------------------------------------
(* Claims and homes.  ClaimsBacked and OneHome are inductive together with  *)
(* what a handler between two steps still relies on.                        *)

Backed(f) == f.xml # None => Holds(f.files, f.xml.atts)

DiskBacked ==
    /\ \A n \in Names : folder[n] # None => Backed(folder[n])
    /\ \A t \in trash : Backed(t)

\* The upload f has not arrived yet.
Awaited(f) == op.pc = "stream" /\ op.todo[f] # None

NewToDisk(i) == \A d \in DocsOnDisk \cup DocsInTrash : d.id # i

OpDisk ==
    op # None /\ op.h # "delete" =>
        /\ op.h = "create" /\ op.pc = "stream"
             => folder[op.at].xml = None /\ NewToDisk(op.doc.id)
        /\ ~(op.h = "create" /\ op.pc = "stream")
             => folder[op.at].xml # None /\ folder[op.at].xml.id = op.doc.id
        /\ \A f \in Files : op.doc.atts[f] # None /\ ~Awaited(f)
             => folder[op.at].files[f] = op.doc.atts[f]
        /\ \A f \in Files : Awaited(f) =>
             /\ op.doc.atts[f] = op.todo[f]
             /\ folder[op.at].xml # None => folder[op.at].xml.atts[f] = None
        /\ op.h = "unattach" => op.doc.atts[op.del] = None
        /\ op.pc \in {"sums", "rename", "unlink", "row"} => folder[op.at].xml = op.doc

DiskInv == TypeInv /\ DiskBacked /\ OneHome /\ OpDisk

Keeps == IdsKept \subseteq IdsKept'

LEMMA FolderType ==
  ASSUME TypeInv, NEW n \in Names, folder[n] # None
  PROVE  /\ folder[n] \in Folders /\ folder[n].files \in Parts
         /\ folder[n].xml # None => folder[n].xml \in Docs /\ folder[n].xml.atts \in Parts
  BY DEF TypeInv, TypeOK, Folders, Docs

LEMMA AtWork ==
  ASSUME TypeInv, op # None, op.h # "delete"
  PROVE  /\ op \in Ops /\ op.at \in Names /\ op.doc \in Docs /\ op.todo \in Parts
         /\ op.doc.atts \in Parts
         /\ folder[op.at] # None /\ folder[op.at] \in Folders
<1>1. op \in Ops /\ op.doc \in Docs /\ folder[op.at] # None
  BY DEF TypeInv, TypeOK, OpShape
<1>2. op.at \in Names /\ op.todo \in Parts /\ op.doc.atts \in Parts
  BY <1>1 DEF Ops, Docs
<1> QED
  BY <1>1, <1>2, FolderType

LEMMA SameIds ==
  ASSUME trash' = trash,
         \A m \in Names : Valid(m) => Valid(m)' /\ folder'[m].xml.id = folder[m].xml.id
  PROVE  Keeps
<1> SUFFICES ASSUME NEW d \in DocsOnDisk \cup DocsInTrash
             PROVE  \E e \in DocsOnDisk' \cup DocsInTrash' : e.id = d.id
  BY DEF Keeps, IdsKept
<1>1. CASE d \in DocsInTrash
  BY <1>1 DEF DocsInTrash
<1>2. CASE d \in DocsOnDisk
  <2>1. PICK m \in Names : Valid(m) /\ folder[m].xml = d
    BY <1>2 DEF DocsOnDisk
  <2>2. folder'[m].xml \in DocsOnDisk' /\ folder'[m].xml.id = d.id
    BY <2>1 DEF DocsOnDisk
  <2> QED
    BY <2>2
<1> QED
  BY <1>1, <1>2

\* A folder replaced by one with the same jump or, before, with none.
LEMMA Replaced ==
  ASSUME DiskInv, NEW n \in Names, NEW g \in Folders, Backed(g),
         folder' = [folder EXCEPT ![n] = g], trash' = trash,
         g.xml # None => IF Valid(n) THEN g.xml.id = folder[n].xml.id
                         ELSE NewToDisk(g.xml.id)
  PROVE  /\ DiskBacked' /\ OneHome' /\ folder'[n] = g /\ g # None
         /\ (Valid(n) => g.xml # None) => Keeps
<1>1. g # None
  BY NoneAssumption
<1>2. \A m \in Names : folder'[m] = IF m = n THEN g ELSE folder[m]
  BY DEF DiskInv, TypeInv, TypeOK
<1>3. DiskBacked'
  BY <1>2 DEF DiskInv, DiskBacked
<1>4. \A m \in Names : m # n => (Valid(m)' <=> Valid(m))
  BY <1>2 DEF Valid
<1>5. Valid(n)' <=> g.xml # None
  BY <1>1, <1>2 DEF Valid
<1>6. ASSUME NEW m \in Names, m # n, Valid(m), g.xml # None
      PROVE  folder[m].xml.id # g.xml.id
  BY <1>6 DEF DiskInv, OneHome, NewToDisk, DocsOnDisk
<1>7. ASSUME NEW t \in trash, t.xml # None, g.xml # None
      PROVE  t.xml.id # g.xml.id
  BY <1>7 DEF DiskInv, OneHome, NewToDisk, DocsInTrash
<1>8. OneHome'
  BY <1>2, <1>4, <1>5, <1>6, <1>7 DEF DiskInv, OneHome
<1>9. ASSUME Valid(n) => g.xml # None PROVE Keeps
  <2>1. \A m \in Names : Valid(m) => Valid(m)' /\ folder'[m].xml.id = folder[m].xml.id
    BY <1>2, <1>4, <1>5, <1>9
  <2> QED
    BY <2>1, SameIds
<1> QED
  BY <1>1, <1>2, <1>3, <1>8, <1>9

\* jump.xml and the files stay as they are: what a reconcile or a heal does.
LEMMA SumsOnly ==
  ASSUME DiskInv, NEW n \in Names, folder[n] # None, NEW d \in Docs,
         folder' = [folder EXCEPT ![n] = [folder[n] EXCEPT !.sums = d]], trash' = trash
  PROVE  /\ DiskBacked' /\ OneHome' /\ Keeps /\ folder'[n] # None
         /\ \A m \in Names : folder'[m].xml = folder[m].xml /\ folder'[m].files = folder[m].files
         /\ \A m \in Names : folder'[m] = None <=> folder[m] = None
<1> DEFINE g == [folder[n] EXCEPT !.sums = d]
<1>1. folder[n] \in Folders
  BY FolderType DEF DiskInv
<1>2. g \in Folders /\ g.xml = folder[n].xml /\ g.files = folder[n].files
  BY <1>1 DEF Folders
<1>3. Backed(g)
  BY <1>2 DEF DiskInv, DiskBacked, Backed
<1>4. folder' = [folder EXCEPT ![n] = g]
  OBVIOUS
<1> HIDE DEF g
<1>5. DiskBacked' /\ OneHome' /\ Keeps /\ folder'[n] = g /\ g # None
  BY <1>2, <1>3, <1>4, Replaced DEF Valid
<1>6. \A m \in Names : m # n => folder'[m] = folder[m]
  BY <1>4 DEF DiskInv, TypeInv, TypeOK
<1> QED
  BY <1>2, <1>5, <1>6

\* get_jump, the first part of five handlers.
LEMMA Opened ==
  ASSUME DiskInv, NEW i \in Ids, Opens(i), folder' = Reconciled(row[i].folder), trash' = trash
  PROVE  LET at == row[i].folder IN
         /\ DiskBacked' /\ OneHome' /\ Keeps /\ at \in Names /\ folder'[at] # None
         /\ folder[at].xml \in Docs /\ folder[at].xml # None /\ folder[at].xml.atts \in Parts
         /\ folder'[at].xml = folder[at].xml /\ folder'[at].files = folder[at].files
         /\ Holds(folder[at].files, folder[at].xml.atts)
<1> DEFINE at == row[i].folder
<1>1. at \in Names /\ Valid(at)
  BY OpensType DEF DiskInv, TypeInv
<1> HIDE DEF at
<1>2. /\ folder[at] # None /\ folder[at].xml \in Docs /\ folder[at].xml # None
      /\ folder[at].xml.atts \in Parts
  BY <1>1, FolderType DEF Valid, DiskInv
<1>3. folder' = [folder EXCEPT ![at] = [folder[at] EXCEPT !.sums = folder[at].xml]]
  BY <1>1 DEF Reconciled, at, DiskInv, TypeInv, TypeOK
<1>4. Holds(folder[at].files, folder[at].xml.atts)
  BY <1>1, <1>2 DEF DiskInv, DiskBacked, Backed
<1> QED
  BY <1>1, <1>2, <1>3, <1>4, SumsOnly DEF at

\* A handler that starts on a jump it has opened.
LEMMA Begun ==
  ASSUME NEW h \in Handlers \ {"create"}, NEW pc \in {"stream", "xml"}, NEW i \in Ids,
         NEW n \in Names, NEW d \in Docs, NEW u \in Parts, NEW del \in Files \cup {None},
         op' = Started(h, pc, i, n, d, u, del),
         folder'[n].xml # None, folder'[n].xml.id = d.id,
         \A f \in Files : d.atts[f] # None /\ ~(pc = "stream" /\ u[f] # None)
                            => folder'[n].files[f] = d.atts[f],
         \A f \in Files : pc = "stream" /\ u[f] # None
                            => d.atts[f] = u[f] /\ folder'[n].xml.atts[f] = None,
         h = "unattach" => d.atts[del] = None
  PROVE  OpDisk'
<1>1. /\ op' # None /\ op'.h = h /\ op'.pc = pc /\ op'.at = n /\ op'.doc = d
      /\ op'.del = del /\ op'.todo = u
  BY StartedType DEF Steps
<1>2. \A f \in Files : Awaited(f)' <=> pc = "stream" /\ u[f] # None
  BY <1>1 DEF Awaited
<1> QED
  BY <1>1, <1>2 DEF OpDisk

LEMMA DiskRequest ==
  ASSUME DiskInv, Request PROVE DiskInv' /\ Keeps
<1>t. TypeInv /\ TypeInv'
  BY TypeRequest DEF DiskInv
<1>1. ASSUME NEW i \in Ids, GetJump(i) PROVE DiskInv' /\ Keeps
  <2>1. DiskBacked' /\ OneHome' /\ Keeps
    BY <1>1, Opened DEF GetJump
  <2>2. OpDisk'
    BY <1>1 DEF GetJump, MayStart, OpDisk
  <2> QED
    BY <1>t, <2>1, <2>2 DEF DiskInv
<1>2. ASSUME NEW i \in Ids, NEW n \in Names, NEW u \in Parts, CreateJump(i, n, u)
      PROVE  DiskInv' /\ Keeps
  <2> DEFINE d == [id |-> i, num |-> n[1], title |-> n[2], atts |-> u]
  <2>1. ~Valid(n) /\ folder' = [folder EXCEPT ![n] = EmptyDir] /\ trash' = trash
    BY <1>2 DEF CreateJump, NumberIsTaken, Valid
  <2>2. EmptyDir.xml = None /\ Backed(EmptyDir)
    BY DEF EmptyDir, Backed
  <2>3. DiskBacked' /\ OneHome' /\ Keeps /\ folder'[n] = EmptyDir
    BY <2>1, <2>2, EmptyDirType, Replaced
  <2>4. NewToDisk(i)'
    <3>1. NewToDisk(i)
      BY <1>2 DEF CreateJump, Fresh, NewToDisk
    <3>2. \A m \in Names : Valid(m)' => Valid(m) /\ folder'[m] = folder[m]
      BY <1>t, <2>1, <2>2, <2>3 DEF TypeInv, TypeOK, Valid
    <3> QED
      BY <2>1, <3>1, <3>2 DEF NewToDisk, DocsOnDisk, DocsInTrash
  <2>5. d \in Docs /\ d.id = i /\ d.atts = u
    BY DEF Docs, Names
  <2>6. op' = Started("create", "stream", i, n, d, u, None)
    BY <1>2 DEF CreateJump
  <2> HIDE DEF d
  <2>7. /\ op' # None /\ op'.h = "create" /\ op'.pc = "stream" /\ op'.at = n
        /\ op'.doc = d /\ op'.todo = u
    BY <2>5, <2>6, StartedType DEF Handlers, Steps
  <2>8. \A f \in Files : Awaited(f)' <=> u[f] # None
    BY <2>7 DEF Awaited
  <2>9. OpDisk'
    BY <2>2, <2>3, <2>4, <2>5, <2>7, <2>8 DEF OpDisk
  <2> QED
    BY <1>t, <2>3, <2>9 DEF DiskInv
<1>3. ASSUME NEW i \in Ids, NEW names \in SUBSET Files, TrackFiles(i, names)
      PROVE  DiskInv' /\ Keeps
  <2> DEFINE at == row[i].folder
             d  == folder[at].xml
             on == folder[at].files
             toTrack == {f \in names : d.atts[f] = None}
             atts == [f \in Files |-> IF f \in toTrack THEN on[f] ELSE d.atts[f]]
             doc == [d EXCEPT !.atts = atts]
  <2>1. /\ DiskBacked' /\ OneHome' /\ Keeps /\ at \in Names /\ folder'[at] # None
        /\ d \in Docs /\ d # None /\ d.atts \in Parts
        /\ folder'[at].xml = d /\ folder'[at].files = on /\ Holds(on, d.atts)
    BY <1>3, Opened DEF TrackFiles
  <2>2. \A f \in toTrack : on[f] # None
    BY <1>3 DEF TrackFiles
  <2>3. op' = Started("track", "xml", i, at, doc, NoParts, None)
    BY <1>3 DEF TrackFiles
  <2>4. on \in Parts
    BY <1>3, <1>t, <2>1, FolderType DEF TrackFiles, Opens, Valid
  <2>5. atts \in Parts /\ \A f \in Files : atts[f] # None => on[f] = atts[f]
    BY <2>1, <2>4 DEF Parts, Holds
  <2> HIDE DEF at, d, on, toTrack, atts
  <2>6. doc \in Docs /\ doc.atts = atts /\ doc.id = d.id
    BY <2>1, <2>5 DEF Docs
  <2> HIDE DEF doc
  <2>7. OpDisk'
    BY <2>1, <2>3, <2>5, <2>6, NoPartsType, Begun DEF Handlers
  <2> QED
    BY <1>t, <2>1, <2>7 DEF DiskInv
<1>4. ASSUME NEW i \in Ids, NEW u \in Parts, AddAttachments(i, u)
      PROVE  DiskInv' /\ Keeps
  <2> DEFINE at == row[i].folder
             d  == folder[at].xml
             on == folder[at].files
             atts == [f \in Files |-> IF u[f] # None THEN u[f] ELSE d.atts[f]]
             doc == [d EXCEPT !.atts = atts]
  <2>1. /\ DiskBacked' /\ OneHome' /\ Keeps /\ at \in Names /\ folder'[at] # None
        /\ d \in Docs /\ d # None /\ d.atts \in Parts
        /\ folder'[at].xml = d /\ folder'[at].files = on /\ Holds(on, d.atts)
    BY <1>4, Opened DEF AddAttachments
  <2>2. \A f \in Files : u[f] # None => d.atts[f] = None
    BY <1>4 DEF AddAttachments
  <2>3. op' = Started("add", "stream", i, at, doc, u, None)
    BY <1>4 DEF AddAttachments
  <2>4. /\ atts \in Parts
        /\ \A f \in Files : atts[f] = IF u[f] # None THEN u[f] ELSE d.atts[f]
    BY <2>1 DEF Parts
  <2> HIDE DEF at, d, on, atts
  <2>5. doc \in Docs /\ doc.atts = atts /\ doc.id = d.id
    BY <2>1, <2>4 DEF Docs
  <2> HIDE DEF doc
  <2>6. \A f \in Files : /\ atts[f] # None /\ u[f] = None => on[f] = atts[f]
                         /\ u[f] # None => atts[f] = u[f] /\ d.atts[f] = None
    BY <2>1, <2>2, <2>4 DEF Holds
  <2>7. OpDisk'
    BY <2>1, <2>3, <2>5, <2>6, Begun DEF Handlers
  <2> QED
    BY <1>t, <2>1, <2>7 DEF DiskInv
<1>5. ASSUME NEW i \in Ids, NEW x \in Files, DeleteAttachment(i, x)
      PROVE  DiskInv' /\ Keeps
  <2> DEFINE at == row[i].folder
             d  == folder[at].xml
             on == folder[at].files
             doc == [d EXCEPT !.atts[x] = None]
  <2>1. /\ DiskBacked' /\ OneHome' /\ Keeps /\ at \in Names /\ folder'[at] # None
        /\ d \in Docs /\ d # None /\ d.atts \in Parts
        /\ folder'[at].xml = d /\ folder'[at].files = on /\ Holds(on, d.atts)
    BY <1>5, Opened DEF DeleteAttachment
  <2>2. op' = Started("unattach", "xml", i, at, doc, NoParts, x)
    BY <1>5 DEF DeleteAttachment
  <2> HIDE DEF at, d, on
  <2>3. doc \in Docs /\ doc.atts = [d.atts EXCEPT ![x] = None] /\ doc.id = d.id
    BY <2>1 DEF Docs, Parts
  <2> HIDE DEF doc
  <2>4. doc.atts[x] = None /\ \A f \in Files : doc.atts[f] # None => on[f] = doc.atts[f]
    BY <2>1, <2>3 DEF Holds, Parts
  <2>5. OpDisk'
    <3>1. /\ "unattach" \in Handlers \ {"create"} /\ "xml" \in {"stream", "xml"}
          /\ x \in Files \cup {None}
      BY DEF Handlers
    <3>2. \A f \in Files : doc.atts[f] # None => folder'[at].files[f] = doc.atts[f]
      BY <2>1, <2>4
    <3>3. folder'[at].xml # None /\ folder'[at].xml.id = doc.id
      BY <2>1, <2>3
    <3>4. \A f \in Files : "xml" = "stream" /\ NoParts[f] # None
             => doc.atts[f] = NoParts[f] /\ folder'[at].xml.atts[f] = None
      OBVIOUS
    <3>5. "unattach" = "unattach" => doc.atts[x] = None
      BY <2>4
    <3>6. at \in Names /\ doc \in Docs
      BY <2>1, <2>3
    <3> QED
      BY <2>2, <3>1, <3>2, <3>3, <3>4, <3>5, <3>6, NoPartsType, Begun
  <2> QED
    BY <1>t, <2>1, <2>5 DEF DiskInv
<1>6. ASSUME NEW i \in Ids, NEW n \in Names, UpdateJump(i, n)
      PROVE  DiskInv' /\ Keeps
  <2> DEFINE at == row[i].folder
             d  == folder[at].xml
             on == folder[at].files
             doc == [d EXCEPT !.num = n[1], !.title = n[2]]
  <2>1. /\ DiskBacked' /\ OneHome' /\ Keeps /\ at \in Names /\ folder'[at] # None
        /\ d \in Docs /\ d # None /\ d.atts \in Parts
        /\ folder'[at].xml = d /\ folder'[at].files = on /\ Holds(on, d.atts)
    BY <1>6, Opened DEF UpdateJump
  <2>2. op' = Started("update", "xml", i, at, doc, NoParts, None)
    BY <1>6 DEF UpdateJump
  <2> HIDE DEF at, d, on
  <2>3. doc \in Docs /\ doc.atts = d.atts /\ doc.id = d.id
    BY <2>1 DEF Docs, Names
  <2> HIDE DEF doc
  <2>4. \A f \in Files : doc.atts[f] # None => on[f] = doc.atts[f]
    BY <2>1, <2>3 DEF Holds
  <2>5. OpDisk'
    BY <2>1, <2>2, <2>3, <2>4, NoPartsType, Begun DEF Handlers
  <2> QED
    BY <1>t, <2>1, <2>5 DEF DiskInv
<1>7. ASSUME NEW i \in Ids, DeleteJump(i) PROVE DiskInv' /\ Keeps
  <2>1. op'.h = "delete" /\ folder' = folder /\ trash' = trash
    BY <1>7 DEF DeleteJump, Started
  <2>2. DiskBacked' /\ OneHome' /\ Keeps
    BY <2>1, SameIds DEF DiskInv, DiskBacked, OneHome, Valid
  <2>3. OpDisk'
    BY <2>1 DEF OpDisk
  <2> QED
    BY <1>t, <2>2, <2>3 DEF DiskInv
<1> QED
  BY <1>1, <1>2, <1>3, <1>4, <1>5, <1>6, <1>7 DEF Request

\* No step but those of its own handler disturbs what OpDisk says.
LEMMA OpDiskKept ==
  ASSUME DiskInv, op' = op, trash' = trash,
         \A n \in Names : folder[n] # None =>
           /\ folder'[n] # None /\ folder'[n].xml = folder[n].xml
           /\ \A f \in Files : folder[n].files[f] # None
                                 => folder'[n].files[f] = folder[n].files[f],
         \A n \in Names : Valid(n)' => Valid(n)
  PROVE  OpDisk'
<1> SUFFICES ASSUME op # None, op.h # "delete" PROVE OpDisk'
  BY DEF OpDisk
<1>1. op.at \in Names /\ folder[op.at] # None
  BY AtWork DEF DiskInv
<1>2. \A i : NewToDisk(i) => NewToDisk(i)'
  BY DEF NewToDisk, DocsOnDisk, DocsInTrash, Valid
<1>3. \A f : Awaited(f)' <=> Awaited(f)
  BY DEF Awaited
<1> QED
  BY <1>1, <1>2, <1>3 DEF OpDisk, DiskInv

\* The handler moved on within the same request.
LEMMA MovedOn ==
  ASSUME op \in Ops, NEW pc \in Steps, NEW n \in Names, NEW u \in Parts,
         op' = [op EXCEPT !.pc = pc, !.at = n, !.todo = u]
  PROVE  /\ op' # None /\ op'.pc = pc /\ op'.h = op.h /\ op'.at = n
         /\ op'.doc = op.doc /\ op'.todo = u /\ op'.del = op.del
<1>1. op' \in Ops
  BY DEF Ops
<1> QED
  BY <1>1, NoneAssumption DEF Ops

LEMMA DiskStream ==
  ASSUME DiskInv, NEW f \in Files, StreamUpload(f) PROVE DiskInv' /\ Keeps
<1>t. TypeInv /\ TypeInv'
  BY TypeHandler DEF DiskInv, Handler
<1>1. /\ op # None /\ op.pc = "stream" /\ op.todo[f] # None /\ trash' = trash
      /\ op.h \in {"create", "add"} /\ op.h # "delete"
  BY <1>t DEF StreamUpload, At, TypeInv, OpShape
<1> DEFINE old == folder[op.at]
           v == op.todo[f]
           g == [old EXCEPT !.files[f] = v]
<1>2. /\ op \in Ops /\ op.at \in Names /\ op.todo \in Parts /\ old \in Folders
      /\ old # None /\ v \in Contents
  BY <1>t, <1>1, AtWork DEF Parts
<1>3. /\ g \in Folders /\ g.xml = old.xml /\ g.files = [old.files EXCEPT ![f] = v]
      /\ folder' = [folder EXCEPT ![op.at] = g]
  BY <1>2 DEF Folders, Parts, StreamUpload
<1>4. \A x \in Files : g.files[x] = IF x = f THEN v ELSE old.files[x]
  BY <1>2, <1>3 DEF Folders, Parts
<1>5. /\ op.doc.atts[f] = v
      /\ old.xml # None => old.xml.atts[f] = None
      /\ \A x \in Files : op.doc.atts[x] # None /\ ~Awaited(x) => old.files[x] = op.doc.atts[x]
  BY <1>1 DEF DiskInv, OpDisk, Awaited
<1>6. Backed(old)
  BY <1>2 DEF DiskInv, DiskBacked
<1> HIDE DEF g
<1>7. Backed(g)
  BY <1>3, <1>4, <1>5, <1>6 DEF Backed, Holds
<1>8. DiskBacked' /\ OneHome' /\ Keeps /\ folder'[op.at] = g /\ g # None
  BY <1>1, <1>2, <1>3, <1>7, Replaced DEF Valid
<1>9. \A n \in Names : n # op.at => folder'[n] = folder[n]
  BY <1>t, <1>3 DEF TypeInv, TypeOK
<1>10. \A i : NewToDisk(i) => NewToDisk(i)'
  BY <1>1, <1>2, <1>3, <1>8, <1>9 DEF NewToDisk, DocsOnDisk, DocsInTrash, Valid
<1>11. [op.todo EXCEPT ![f] = None] \in Parts
  BY <1>2 DEF Parts
<1>12. /\ op' # None /\ op'.pc = "stream" /\ op'.h = op.h /\ op'.at = op.at
       /\ op'.doc = op.doc /\ op'.todo = [op.todo EXCEPT ![f] = None] /\ op'.del = op.del
  <2>1. op' = [op EXCEPT !.todo = [op.todo EXCEPT ![f] = None]]
    BY <1>2 DEF StreamUpload, Ops
  <2>2. op' \in Ops
    BY <1>2, <1>11, <2>1 DEF Ops
  <2> QED
    BY <1>1, <1>2, <2>1, <2>2, NoneAssumption DEF Ops
<1>13. \A x \in Files : Awaited(x)' <=> Awaited(x) /\ x # f
  BY <1>1, <1>2, <1>12 DEF Awaited, Parts
<1>14. \A x \in Files : Awaited(x)' => op'.todo[x] = op.todo[x]
  BY <1>2, <1>12, <1>13 DEF Parts
<1>15. OpDisk'
  <2>1. IF op.h = "create" THEN old.xml = None /\ NewToDisk(op.doc.id)
        ELSE old.xml # None /\ old.xml.id = op.doc.id
    BY <1>1 DEF DiskInv, OpDisk
  <2>2. \A x \in Files : op'.doc.atts[x] # None /\ ~Awaited(x)'
          => folder'[op'.at].files[x] = op'.doc.atts[x]
    BY <1>4, <1>5, <1>8, <1>12, <1>13
  <2>3. \A x \in Files : Awaited(x)' =>
          /\ op'.doc.atts[x] = op'.todo[x]
          /\ folder'[op'.at].xml # None => folder'[op'.at].xml.atts[x] = None
    <3>1. \A x \in Files : Awaited(x) => /\ op.doc.atts[x] = op.todo[x]
                                         /\ old.xml # None => old.xml.atts[x] = None
      BY <1>1 DEF DiskInv, OpDisk
    <3> QED
      BY <1>3, <1>8, <1>12, <1>13, <1>14, <3>1
  <2> QED
    BY <1>1, <1>3, <1>8, <1>10, <1>12, <2>1, <2>2, <2>3 DEF OpDisk
<1> QED
  BY <1>t, <1>8, <1>15 DEF DiskInv

LEMMA DiskXml ==
  ASSUME DiskInv, WriteJumpXml PROVE DiskInv' /\ Keeps
<1>t. TypeInv /\ TypeInv'
  BY TypeHandler DEF DiskInv, Handler
<1>1. /\ op # None /\ op.h # "delete" /\ trash' = trash
      /\ op.pc = "xml" \/ (op.pc = "stream" /\ op.todo = NoParts)
  BY <1>t DEF WriteJumpXml, At, Streamed, TypeInv, OpShape
<1> DEFINE old == folder[op.at]
           g == [old EXCEPT !.xml = op.doc]
<1>2. /\ op \in Ops /\ op.at \in Names /\ op.doc \in Docs /\ old \in Folders /\ old # None
      /\ op.todo \in Parts
  BY <1>t, <1>1, AtWork
<1>3. /\ g \in Folders /\ g.xml = op.doc /\ g.files = old.files
      /\ folder' = [folder EXCEPT ![op.at] = g]
  BY <1>2 DEF Folders, WriteJumpXml
<1>4. \A f \in Files : ~Awaited(f)
  BY <1>1 DEF Awaited, NoParts
<1>5. \A f \in Files : op.doc.atts[f] # None => old.files[f] = op.doc.atts[f]
  BY <1>1, <1>4 DEF DiskInv, OpDisk
<1>6. IF Valid(op.at) THEN op.doc.id = old.xml.id ELSE NewToDisk(op.doc.id)
  BY <1>1, <1>2 DEF DiskInv, OpDisk, Valid
<1> HIDE DEF g
<1>7. Backed(g)
  BY <1>3, <1>5 DEF Backed, Holds
<1>8. DiskBacked' /\ OneHome' /\ Keeps /\ folder'[op.at] = g /\ g # None
  <2>1. g.xml # None => IF Valid(op.at) THEN g.xml.id = folder[op.at].xml.id
                        ELSE NewToDisk(g.xml.id)
    BY <1>3, <1>6
  <2>2. g.xml # None
    BY <1>2, <1>3, NoneAssumption
  <2> QED
    BY <1>1, <1>2, <1>3, <1>7, <2>1, <2>2, Replaced
<1>9. /\ op' # None /\ op'.pc = "sums" /\ op'.h = op.h /\ op'.at = op.at
      /\ op'.doc = op.doc /\ op'.del = op.del
  <2>1. op' = [op EXCEPT !.pc = "sums", !.at = op.at, !.todo = op.todo]
    BY <1>2 DEF WriteJumpXml, Ops
  <2> QED
    BY <1>2, <2>1, MovedOn DEF Steps
<1>10. \A f \in Files : ~Awaited(f)'
  BY <1>9 DEF Awaited
<1>11. op.doc # None
  BY <1>2, NoneAssumption
<1>12. OpDisk'
  BY <1>1, <1>3, <1>5, <1>8, <1>9, <1>10, <1>11 DEF OpDisk, DiskInv
<1> QED
  BY <1>t, <1>8, <1>12 DEF DiskInv

LEMMA DiskManifest ==
  ASSUME DiskInv, WriteManifest PROVE DiskInv' /\ Keeps
<1>t. TypeInv /\ TypeInv'
  BY TypeHandler DEF DiskInv, Handler
<1>1. op # None /\ op.h # "delete" /\ op.pc = "sums" /\ trash' = trash
  BY <1>t DEF WriteManifest, At, TypeInv, OpShape
<1>2. /\ op \in Ops /\ op.at \in Names /\ op.doc \in Docs /\ op.todo \in Parts
      /\ folder[op.at] # None /\ folder[op.at].xml = op.doc
  BY <1>t, <1>1, AtWork DEF DiskInv, OpDisk
<1>3. folder' = [folder EXCEPT ![op.at] = [folder[op.at] EXCEPT !.sums = op.doc]]
  BY <1>2 DEF WriteManifest, DiskInv, TypeInv, TypeOK
<1>4. /\ DiskBacked' /\ OneHome' /\ Keeps /\ folder'[op.at] # None
      /\ folder'[op.at].xml = op.doc /\ folder'[op.at].files = folder[op.at].files
  BY <1>1, <1>2, <1>3, SumsOnly
<1>5. /\ op' # None /\ op'.pc \in {"rename", "unlink", "row"} /\ op'.h = op.h
      /\ op'.at = op.at /\ op'.doc = op.doc /\ op'.del = op.del
  <2>1. op' = [op EXCEPT !.pc = AfterSums, !.at = op.at, !.todo = op.todo]
    BY <1>2 DEF WriteManifest, Ops
  <2>2. AfterSums \in {"rename", "unlink", "row"}
    BY DEF AfterSums
  <2> QED
    BY <1>2, <2>1, <2>2, MovedOn DEF Steps
<1>6. (\A f \in Files : ~Awaited(f)') /\ (\A f \in Files : ~Awaited(f))
  BY <1>1, <1>5 DEF Awaited
<1>7. op.doc # None
  BY <1>2, NoneAssumption
<1>8. OpDisk'
  BY <1>1, <1>4, <1>5, <1>6, <1>7 DEF OpDisk, DiskInv
<1> QED
  BY <1>t, <1>4, <1>8 DEF DiskInv

LEMMA DiskRename ==
  ASSUME DiskInv, RenameFolder PROVE DiskInv' /\ Keeps
<1>t. TypeInv /\ TypeInv'
  BY TypeHandler DEF DiskInv, Handler
<1> DEFINE to == FolderName(op.doc)
           old == folder[op.at]
<1>1. /\ op # None /\ op.h = "update" /\ op.pc = "rename" /\ trash' = trash
      /\ to = op.at \/ folder[to] \in {None, EmptyDir}
      /\ folder' = IF to = op.at THEN folder
                   ELSE [folder EXCEPT ![to] = old, ![op.at] = None]
  BY <1>t DEF RenameFolder, At, TypeInv, OpShape
<1>2. /\ op \in Ops /\ op.at \in Names /\ op.doc \in Docs /\ op.todo \in Parts
      /\ old # None /\ old.xml = op.doc /\ op.doc # None
      /\ \A f \in Files : op.doc.atts[f] # None => old.files[f] = op.doc.atts[f]
  BY <1>t, <1>1, AtWork, NoneAssumption DEF DiskInv, OpDisk, Awaited
<1>3. to \in Names
  BY <1>2 DEF FolderName, Names, Docs
<1> HIDE DEF to
<1>4. \A m \in Names : folder'[m] = IF m = to THEN old
                                    ELSE IF m = op.at THEN None ELSE folder[m]
  BY <1>t, <1>1, <1>2, <1>3 DEF TypeInv, TypeOK
<1>5. to # op.at => ~Valid(to)
  BY <1>1 DEF Valid, EmptyDir
<1>6. DiskBacked'
  BY <1>1, <1>2, <1>4 DEF DiskInv, DiskBacked
<1>7. OneHome'
  <2> DEFINE from(m) == IF m = to THEN op.at ELSE m
  <2>1. \A m \in Names : Valid(m)' =>
          /\ from(m) \in Names /\ Valid(from(m)) /\ folder'[m].xml = folder[from(m)].xml
          /\ m # to => m # op.at
    BY <1>2, <1>4, <1>5 DEF Valid
  <2>2. \A m, n \in Names : Valid(m)' /\ Valid(n)' /\ from(m) = from(n) => m = n
    BY <2>1
  <2> HIDE DEF from
  <2>3. ASSUME NEW m \in Names, NEW n \in Names, Valid(m)', Valid(n)',
               folder'[m].xml.id = folder'[n].xml.id
        PROVE  m = n
    <3>1. from(m) = from(n)
      BY <2>1, <2>3 DEF DiskInv, OneHome
    <3> QED
      BY <2>2, <2>3, <3>1
  <2>4. ASSUME NEW n \in Names, NEW t \in trash, Valid(n)', t.xml # None
        PROVE  folder'[n].xml.id # t.xml.id
    BY <2>1, <2>4 DEF DiskInv, OneHome
  <2> QED
    BY <1>1, <2>3, <2>4 DEF OneHome
<1>8. /\ op' # None /\ op'.pc = "row" /\ op'.h = op.h /\ op'.at = to
      /\ op'.doc = op.doc /\ op'.del = op.del
  <2>1. op' = [op EXCEPT !.pc = "row", !.at = to, !.todo = op.todo]
    BY <1>2, <1>3 DEF RenameFolder, Ops, to
  <2> QED
    BY <1>2, <1>3, <2>1, MovedOn DEF Steps
<1>9. (\A f \in Files : ~Awaited(f)') /\ folder'[op'.at] = old
  BY <1>3, <1>4, <1>8 DEF Awaited
<1>10. OpDisk'
  BY <1>1, <1>2, <1>8, <1>9 DEF OpDisk
<1>11. Keeps
  <2>1. \A m \in Names : Valid(m) => folder[m].xml \in DocsOnDisk'
    <3> SUFFICES ASSUME NEW m \in Names, Valid(m) PROVE folder[m].xml \in DocsOnDisk'
      OBVIOUS
    <3>1. CASE m = op.at
      <4>1. \A x \in Names : x = to => Valid(x)' /\ folder'[x] = old
        BY <1>2, <1>4 DEF Valid
      <4>2. \A x \in Names : x = to => folder'[x].xml \in DocsOnDisk'
        BY <4>1 DEF DocsOnDisk
      <4> QED
        BY <1>3, <3>1, <4>1, <4>2
    <3>2. CASE m # op.at
      <4>1. Valid(m)' /\ folder'[m] = folder[m]
        BY <1>4, <1>5, <3>2 DEF Valid
      <4> QED
        BY <4>1 DEF DocsOnDisk
    <3> QED
      BY <3>1, <3>2
  <2>2. DocsOnDisk \subseteq DocsOnDisk' /\ DocsInTrash' = DocsInTrash
    BY <1>1, <2>1 DEF DocsOnDisk, DocsInTrash
  <2> QED
    BY <2>2 DEF Keeps, IdsKept
<1> QED
  BY <1>t, <1>6, <1>7, <1>10, <1>11 DEF DiskInv

LEMMA DiskUnlink ==
  ASSUME DiskInv, UnlinkAttachment PROVE DiskInv' /\ Keeps
<1>t. TypeInv /\ TypeInv'
  BY TypeHandler DEF DiskInv, Handler
<1>1. /\ op # None /\ op.h = "unattach" /\ op.pc = "unlink" /\ trash' = trash
      /\ op.del \in Files
  BY <1>t DEF UnlinkAttachment, At, TypeInv, OpShape
<1> DEFINE old == folder[op.at]
           g == [old EXCEPT !.files[op.del] = None]
<1>2. /\ op \in Ops /\ op.at \in Names /\ op.doc \in Docs /\ op.todo \in Parts
      /\ old \in Folders /\ old # None /\ old.xml = op.doc /\ op.doc # None
      /\ op.doc.atts[op.del] = None
      /\ \A f \in Files : op.doc.atts[f] # None => old.files[f] = op.doc.atts[f]
  BY <1>t, <1>1, AtWork, NoneAssumption DEF DiskInv, OpDisk, Awaited
<1>3. /\ g \in Folders /\ g.xml = old.xml /\ g.files = [old.files EXCEPT ![op.del] = None]
      /\ folder' = [folder EXCEPT ![op.at] = g]
  BY <1>2 DEF Folders, Parts, UnlinkAttachment
<1>4. \A f \in Files : g.files[f] = IF f = op.del THEN None ELSE old.files[f]
  BY <1>2, <1>3 DEF Folders, Parts
<1> HIDE DEF g
<1>5. \A f \in Files : op.doc.atts[f] # None => g.files[f] = op.doc.atts[f]
  BY <1>2, <1>4
<1>6. Backed(g)
  BY <1>2, <1>3, <1>5 DEF Backed, Holds
<1>7. DiskBacked' /\ OneHome' /\ Keeps /\ folder'[op.at] = g /\ g # None
  <2>1. g.xml # None /\ Valid(op.at) /\ g.xml.id = folder[op.at].xml.id
    BY <1>2, <1>3 DEF Valid
  <2> QED
    BY <1>1, <1>2, <1>3, <1>6, <2>1, Replaced
<1>8. /\ op' # None /\ op'.pc = "row" /\ op'.h = op.h /\ op'.at = op.at
      /\ op'.doc = op.doc /\ op'.del = op.del
  <2>1. op' = [op EXCEPT !.pc = "row", !.at = op.at, !.todo = op.todo]
    BY <1>2 DEF UnlinkAttachment, Ops
  <2> QED
    BY <1>2, <2>1, MovedOn DEF Steps
<1>9. \A f \in Files : ~Awaited(f)'
  BY <1>8 DEF Awaited
<1>10. folder'[op'.at] = g /\ g.xml = op.doc /\ op'.h = "unattach"
  BY <1>1, <1>2, <1>3, <1>7, <1>8
<1>11. OpDisk'
  BY <1>2, <1>5, <1>8, <1>9, <1>10 DEF OpDisk
<1> QED
  BY <1>t, <1>7, <1>11 DEF DiskInv

LEMMA DiskTrash ==
  ASSUME DiskInv, MoveToTrash PROVE DiskInv' /\ Keeps
<1>t. TypeInv /\ TypeInv'
  BY TypeHandler DEF DiskInv, Handler
<1> DEFINE old == folder[op.at]
<1>1. /\ op # None /\ op.h = "delete" /\ old # None /\ op \in Ops /\ op.at \in Names
      /\ trash' = trash \cup {old} /\ folder' = [folder EXCEPT ![op.at] = None]
      /\ op' = [op EXCEPT !.pc = "row"]
  BY <1>t DEF MoveToTrash, At, TypeInv, OpShape, TypeOK, Ops
<1>2. \A m \in Names : folder'[m] = IF m = op.at THEN None ELSE folder[m]
  BY <1>t, <1>1 DEF TypeInv, TypeOK
<1>3. DiskBacked'
  BY <1>1, <1>2 DEF DiskInv, DiskBacked
<1>4. \A m \in Names : Valid(m)' => m # op.at /\ Valid(m) /\ folder'[m] = folder[m]
  BY <1>2 DEF Valid
<1>5. \A m \in Names : Valid(m)' /\ old.xml # None => folder[m].xml.id # old.xml.id
  BY <1>1, <1>4 DEF Valid, DiskInv, OneHome
<1>6. OneHome'
  BY <1>1, <1>4, <1>5 DEF DiskInv, OneHome
<1>7. op'.h = "delete"
  BY <1>1 DEF Ops
<1>8. Keeps
  <2>1. \A m \in Names : Valid(m) /\ m # op.at => Valid(m)' /\ folder'[m] = folder[m]
    BY <1>2 DEF Valid
  <2>2. DocsInTrash \subseteq DocsInTrash'
    BY <1>1 DEF DocsInTrash
  <2>3. \A m \in Names : Valid(m) => folder[m].xml \in DocsOnDisk' \cup DocsInTrash'
    <3> SUFFICES ASSUME NEW m \in Names, Valid(m)
                 PROVE  folder[m].xml \in DocsOnDisk' \cup DocsInTrash'
      OBVIOUS
    <3>1. CASE m = op.at
      BY <1>1, <3>1 DEF DocsInTrash, Valid
    <3>2. CASE m # op.at
      BY <2>1, <3>2 DEF DocsOnDisk
    <3> QED
      BY <3>1, <3>2
  <2>4. DocsOnDisk \subseteq DocsOnDisk' \cup DocsInTrash'
    BY <2>3 DEF DocsOnDisk
  <2> QED
    BY <2>2, <2>4 DEF Keeps, IdsKept
<1> QED
  BY <1>t, <1>3, <1>6, <1>7, <1>8 DEF DiskInv, OpDisk

LEMMA DiskHandler ==
  ASSUME DiskInv, Handler PROVE DiskInv' /\ Keeps
<1>1. CASE CommitRow \/ RowConflict \/ RenameRefused
  <2>1. TypeInv' /\ op' = None /\ folder' = folder /\ trash' = trash
    BY <1>1, TypeHandler DEF DiskInv, Handler, CommitRow, RowConflict, RenameRefused
  <2>2. Keeps
    BY <2>1, SameIds DEF Valid
  <2> QED
    BY <2>1, <2>2 DEF DiskInv, DiskBacked, OneHome, Valid, OpDisk
<1> QED
  BY <1>1, DiskStream, DiskXml, DiskManifest, DiskRename, DiskUnlink, DiskTrash DEF Handler

LEMMA DiskHeal ==
  ASSUME DiskInv, RxHeal PROVE DiskInv' /\ Keeps
<1>t. TypeInv /\ TypeInv'
  BY TypeReindex DEF DiskInv, Reindex
<1>1. rx.at \in Names /\ rx.doc \in Docs /\ trash' = trash /\ op' = op
  BY <1>t DEF RxHeal, TypeInv, RxShape
<1> DEFINE old == IF folder[rx.at] = None THEN EmptyDir ELSE folder[rx.at]
           g == [old EXCEPT !.sums = rx.doc]
<1>2. folder' = [folder EXCEPT ![rx.at] = g]
  BY <1>t, <1>1 DEF RxHeal, TypeInv, TypeOK
<1>3. old \in Folders /\ Backed(old)
  BY <1>t, <1>1, EmptyDirType, FolderType DEF DiskInv, DiskBacked, Backed, EmptyDir
<1>4. old.xml # None => folder[rx.at] # None /\ old = folder[rx.at]
  BY DEF EmptyDir
<1>10. folder[rx.at] # None => old = folder[rx.at]
  OBVIOUS
<1> HIDE DEF old
<1>5. g \in Folders /\ g.xml = old.xml /\ g.files = old.files
  BY <1>1, <1>3 DEF Folders
<1> HIDE DEF g
<1>6. Backed(g)
  BY <1>3, <1>5 DEF Backed
<1>7. DiskBacked' /\ OneHome' /\ Keeps /\ folder'[rx.at] = g /\ g # None
  <2>1. /\ g.xml # None => IF Valid(rx.at) THEN g.xml.id = folder[rx.at].xml.id
                           ELSE NewToDisk(g.xml.id)
        /\ Valid(rx.at) => g.xml # None
    BY <1>4, <1>5, <1>10 DEF Valid
  <2> QED
    BY <1>1, <1>2, <1>5, <1>6, <2>1, Replaced
<1>8. \A m \in Names : m # rx.at => folder'[m] = folder[m]
  BY <1>t, <1>2 DEF TypeInv, TypeOK
<1>9. OpDisk'
  BY <1>1, <1>4, <1>5, <1>7, <1>8, <1>10, OpDiskKept DEF Valid
<1> QED
  BY <1>t, <1>7, <1>9 DEF DiskInv

LEMMA DiskDropIn ==
  ASSUME DiskInv, NEW n \in Names, NEW f \in Files, NEW c \in Contents, DropIn(n, f, c)
  PROVE  DiskInv' /\ Keeps
<1>t. TypeInv /\ TypeInv'
  BY TypeEnvironment DEF DiskInv, Environment
<1> DEFINE old == folder[n]
           g == [old EXCEPT !.files[f] = c]
<1>1. /\ old # None /\ old \in Folders /\ old.files[f] = None /\ trash' = trash /\ op' = op
      /\ folder' = [folder EXCEPT ![n] = g]
  BY <1>t, FolderType DEF DropIn
<1>2. g \in Folders /\ g.xml = old.xml /\ g.files = [old.files EXCEPT ![f] = c]
  BY <1>1 DEF Folders, Parts
<1>3. \A x \in Files : old.files[x] # None => g.files[x] = old.files[x]
  BY <1>1, <1>2 DEF Folders, Parts
<1> HIDE DEF g
<1>4. Backed(g)
  BY <1>1, <1>2, <1>3 DEF DiskInv, DiskBacked, Backed, Holds
<1>5. DiskBacked' /\ OneHome' /\ Keeps /\ folder'[n] = g /\ g # None
  BY <1>1, <1>2, <1>4, Replaced DEF Valid
<1>6. \A m \in Names : m # n => folder'[m] = folder[m]
  BY <1>t, <1>1 DEF TypeInv, TypeOK
<1>7. OpDisk'
  BY <1>1, <1>2, <1>3, <1>5, <1>6, OpDiskKept DEF Valid
<1> QED
  BY <1>t, <1>5, <1>7 DEF DiskInv

LEMMA DiskNext ==
  ASSUME DiskInv, [Next]_vars PROVE DiskInv' /\ Keeps
<1>t. TypeInv'
  BY TypeStep DEF DiskInv
<1>1. CASE folder' = folder /\ trash' = trash /\ (op' = op \/ op' = None)
  <2>1. DiskBacked' /\ OneHome' /\ Keeps
    BY <1>1, SameIds DEF DiskInv, DiskBacked, OneHome, Valid
  <2>2. OpDisk'
    BY <1>1, OpDiskKept DEF Valid, OpDisk
  <2> QED
    BY <1>t, <2>1, <2>2 DEF DiskInv
<1>2. CASE Reindex
  BY <1>1, <1>2, DiskHeal DEF Reindex, RxStart, RxLook, RxParse, RxAbort, RxCommit
<1>3. CASE Environment
  BY <1>1, <1>3, DiskDropIn DEF Environment, HandlerFails, RxHealFails, Crash
<1>4. CASE UNCHANGED vars
  BY <1>1, <1>4 DEF vars
<1> QED
  BY <1>2, <1>3, <1>4, DiskRequest, DiskHandler DEF Next

LEMMA DiskInit == Init => DiskInv
<1> SUFFICES ASSUME Init PROVE DiskInv
  OBVIOUS
<1>1. TypeInv /\ op = None /\ trash = {} /\ \A n \in Names : folder[n] = None
  BY TypeInit DEF Init
<1> QED
  BY <1>1 DEF DiskInv, DiskBacked, OneHome, OpDisk, Valid

LEMMA DiskInvariant == Spec => []DiskInv
<1>1. DiskInv /\ [Next]_vars => DiskInv'
  BY DiskNext
<1> QED
  BY <1>1, DiskInit, PTL DEF Spec

\* Wherever a handler stops, and whenever a reindex runs, every attachment a
\* jump.xml claims is on disk with the claimed bytes, in jumps/ and in .trash/.
THEOREM ClaimsStayBacked == Spec => []ClaimsBacked
<1>1. DiskInv => ClaimsBacked
  BY DEF DiskInv, DiskBacked, Backed, ClaimsBacked, Valid
<1> QED
  BY <1>1, DiskInvariant, PTL

\* No sequence of renames, deletes, failures, retries and reindexes leaves one
\* jump in two folders, of jumps/ or of .trash/.
THEOREM OneHomeOnly == Spec => []OneHome
<1>1. DiskInv => OneHome
  BY DEF DiskInv
<1> QED
  BY <1>1, DiskInvariant, PTL

\* D19: no step of a handler, a crash, a reindex or a user who copies files
\* loses a jump whose jump.xml once reached the disk.
THEOREM JumpsStay == Spec => JumpsNeverLost
<1>1. DiskInv /\ [Next]_vars => [IdsKept \subseteq IdsKept']_vars
  BY DiskNext DEF Keeps
<1> QED
  BY <1>1, DiskInvariant, PTL DEF JumpsNeverLost, Spec

-----------------------------------------------------------------------------
(* A reindex that runs alone, and SHA256SUMS. *)

\* What a reindex that runs alone has seen is what is there.
RxAlone ==
    /\ rx = RxIdle \/ op = None
    /\ rx.pc = "idle" => rx = RxIdle
    /\ rx.pc \in {"heal", "parse"} => Valid(rx.at) /\ folder[rx.at].xml = rx.doc
    /\ rx.pc = "heal" => folder[rx.at].sums # rx.doc
    /\ \A e \in rx.got : Valid(e[1]) /\ folder[e[1]].xml = e[2]
    /\ rx.pc # "idle" =>
         \A n \in Names : Valid(n) /\ folder[n].sums = folder[n].xml =>
             \/ n \in rx.todo
             \/ rx.pc # "look" /\ n = rx.at
             \/ <<n, folder[n].xml>> \in rx.got

\* What SHA256SUMS may say while a handler is at work.
OpSums ==
    op # None /\ op.h # "delete" =>
        /\ \A f \in Files : Awaited(f) /\ folder[op.at].sums # None
             => folder[op.at].sums.atts[f] = None
        /\ op.pc = "unlink" => folder[op.at].sums = op.doc

AloneInv == DiskInv /\ RxAlone /\ OpSums /\ SumsBacked

LEMMA RxIdleAlone ==
  ASSUME rx' = RxIdle PROVE RxAlone'
BY DEF RxAlone, RxIdle

\* Nothing the reindex looks at changes.
LEMMA RxAloneKept ==
  ASSUME RxAlone, TypeInv, rx' = rx, op' = None,
         \A n \in Names : /\ Valid(n)' <=> Valid(n)
                          /\ Valid(n) => /\ folder'[n].xml = folder[n].xml
                                         /\ folder'[n].sums = folder[n].sums
  PROVE  RxAlone'
<1>1. /\ rx.pc \in {"heal", "parse"} => rx.at \in Names
      /\ \A e \in rx.got : e[1] \in Names
  BY DEF TypeInv, TypeOK, RxShape
<1> QED
  BY <1>1 DEF RxAlone

LEMMA RxLookAlone ==
  ASSUME AloneInv, NEW m \in Names, RxLook(m) PROVE RxAlone'
<1>1. /\ rx.pc = "look" /\ op = None /\ op' = None /\ folder' = folder /\ RxAlone
      /\ rx' = IF Valid(m)
               THEN [rx EXCEPT !.todo = @ \ {m}, !.at = m, !.doc = folder[m].xml,
                               !.pc = IF folder[m].sums = folder[m].xml
                                      THEN "parse" ELSE "heal"]
               ELSE [rx EXCEPT !.todo = @ \ {m}]
  BY DEF RxLook, AloneInv, RxAlone, RxIdle
<1>2. /\ rx'.got = rx.got /\ rx'.todo = rx.todo \ {m} /\ rx'.pc # "idle"
      /\ Valid(m) => /\ rx'.at = m /\ rx'.doc = folder[m].xml /\ rx'.pc # "look"
                     /\ rx'.pc = IF folder[m].sums = folder[m].xml THEN "parse" ELSE "heal"
      /\ ~Valid(m) => rx'.pc = "look"
  BY <1>1 DEF AloneInv, DiskInv, TypeInv, TypeOK
<1>3. \A n \in Names : Valid(n)' <=> Valid(n)
  BY <1>1 DEF Valid
<1>4. \A n \in Names : Valid(n) /\ folder[n].sums = folder[n].xml =>
         \/ n \in rx'.todo
         \/ rx'.pc # "look" /\ n = rx'.at
         \/ <<n, folder[n].xml>> \in rx'.got
  BY <1>1, <1>2 DEF RxAlone
<1>5. \A e \in rx.got : e[1] \in Names /\ Valid(e[1]) /\ folder[e[1]].xml = e[2]
  BY <1>1 DEF RxAlone, AloneInv, DiskInv, TypeInv, TypeOK
<1>6. rx'.pc \in {"heal", "parse"} => Valid(m) /\ rx'.at = m /\ rx'.doc = folder[m].xml
  BY <1>2
<1> QED
  BY <1>1, <1>2, <1>3, <1>4, <1>5, <1>6 DEF RxAlone

LEMMA RxHealAlone ==
  ASSUME AloneInv, RxHeal PROVE RxAlone' /\ SumsBacked'
<1>1. /\ rx.pc = "heal" /\ op = None /\ op' = None /\ RxAlone /\ TypeInv /\ DiskInv
      /\ rx.at \in Names /\ Valid(rx.at) /\ folder[rx.at].xml = rx.doc /\ rx.doc \in Docs
  BY DEF RxHeal, AloneInv, RxAlone, RxIdle, DiskInv, TypeInv, RxShape
<1>2. /\ folder' = [folder EXCEPT ![rx.at] = [folder[rx.at] EXCEPT !.sums = rx.doc]]
      /\ folder[rx.at] # None /\ folder[rx.at] \in Folders
  BY <1>1, FolderType DEF RxHeal, Valid, TypeInv, TypeOK
<1> DEFINE g == [folder[rx.at] EXCEPT !.sums = rx.doc]
<1>3. g \in Folders /\ g.xml = rx.doc /\ g.sums = rx.doc /\ g.files = folder[rx.at].files
  BY <1>1, <1>2 DEF Folders
<1>4. \A n \in Names : folder'[n] = IF n = rx.at THEN g ELSE folder[n]
  BY <1>1, <1>2 DEF TypeInv, TypeOK
<1> HIDE DEF g
<1>5. g # None /\ rx.doc # None
  BY <1>1, <1>3, NoneAssumption
<1>6. \A n \in Names : /\ Valid(n)' <=> Valid(n)
                       /\ Valid(n) => folder'[n].xml = folder[n].xml
                       /\ n # rx.at => folder'[n] = folder[n]
  BY <1>1, <1>3, <1>4, <1>5 DEF Valid
<1>7. rx'.pc = "parse" /\ rx'.todo = rx.todo /\ rx'.got = rx.got /\ rx'.at = rx.at
      /\ rx'.doc = rx.doc
  BY <1>1 DEF RxHeal, TypeInv, TypeOK
<1>8. \A e \in rx.got : e[1] \in Names
  BY <1>1 DEF TypeInv, TypeOK
<1>9. RxAlone'
  BY <1>1, <1>6, <1>7, <1>8 DEF RxAlone
<1>10. Holds(g.files, g.sums.atts)
  BY <1>1, <1>2, <1>3, <1>5 DEF DiskInv, DiskBacked, Backed, Valid
<1>11. SumsBacked'
  BY <1>4, <1>10 DEF AloneInv, SumsBacked
<1> QED
  BY <1>9, <1>11

LEMMA RxParseAlone ==
  ASSUME AloneInv, RxParse PROVE RxAlone'
<1>1. /\ rx.pc = "parse" /\ op = None /\ op' = None /\ folder' = folder /\ RxAlone /\ TypeInv
      /\ rx.at \in Names /\ Valid(rx.at)
  BY DEF RxParse, AloneInv, RxAlone, RxIdle, DiskInv, TypeInv, RxShape
<1>2. /\ rx'.pc = "look" /\ rx'.todo = rx.todo
      /\ rx'.got = rx.got \cup {<<rx.at, folder[rx.at].xml>>}
  BY <1>1 DEF RxParse, TypeInv, TypeOK
<1>3. \A n \in Names : Valid(n)' <=> Valid(n)
  BY <1>1 DEF Valid
<1>4. \A e \in rx.got : e[1] \in Names
  BY <1>1 DEF TypeInv, TypeOK
<1>5. \A e \in rx'.got : Valid(e[1])' /\ folder'[e[1]].xml = e[2]
  BY <1>1, <1>2, <1>3, <1>4 DEF RxAlone
<1> QED
  BY <1>1, <1>2, <1>3, <1>5 DEF RxAlone

LEMMA RxAloneNext ==
  ASSUME ~OnlineReindex, AloneInv, [Next]_vars PROVE RxAlone'
<1>1. RxAlone /\ TypeInv
  BY DEF AloneInv, DiskInv
<1>2. CASE Request
  <2>1. rx = RxIdle /\ rx' = rx
    BY <1>2 DEF Request, GetJump, CreateJump, TrackFiles, AddAttachments, DeleteAttachment,
                UpdateJump, DeleteJump, MayStart
  <2> QED
    BY <2>1, RxIdleAlone
<1>3. CASE Handler \/ HandlerFails
  <2>1. op # None /\ rx' = rx
    BY <1>3 DEF Handler, HandlerFails, StreamUpload, WriteJumpXml, WriteManifest, RenameFolder,
                RenameRefused, UnlinkAttachment, MoveToTrash, CommitRow, RowConflict, At, Streamed
  <2> QED
    BY <1>1, <2>1, RxIdleAlone DEF RxAlone
<1>4. CASE RxStart
  <2>1. /\ rx'.pc = "look" /\ rx'.got = {} /\ op' = None /\ folder' = folder
        /\ rx'.todo = {n \in Names : folder[n] # None}
    BY <1>4 DEF RxStart, RxIdle
  <2> QED
    BY <2>1 DEF RxAlone, Valid
<1>5. CASE RxAbort \/ RxCommit \/ Crash
  BY <1>5, RxIdleAlone DEF RxAbort, RxCommit, Crash
<1>6. ASSUME NEW n \in Names, NEW f \in Files, NEW c \in Contents, DropIn(n, f, c)
      PROVE  RxAlone'
  <2>1. /\ rx' = rx /\ op' = op
        /\ folder[n] # None /\ folder[n] \in Folders
        /\ folder' = [folder EXCEPT ![n] = [folder[n] EXCEPT !.files[f] = c]]
    BY <1>1, <1>6, FolderType DEF DropIn
  <2> DEFINE g == [folder[n] EXCEPT !.files[f] = c]
  <2>2. g \in Folders /\ g.xml = folder[n].xml /\ g.sums = folder[n].sums
    BY <2>1 DEF Folders, Parts
  <2>3. \A m \in Names : folder'[m] = IF m = n THEN g ELSE folder[m]
    BY <1>1, <2>1 DEF TypeInv, TypeOK
  <2> HIDE DEF g
  <2>4. \A m \in Names : /\ Valid(m)' <=> Valid(m)
                         /\ Valid(m) => /\ folder'[m].xml = folder[m].xml
                                        /\ folder'[m].sums = folder[m].sums
    BY <2>1, <2>2, <2>3, NoneAssumption DEF Valid
  <2>5. CASE op = None
    BY <1>1, <2>1, <2>4, <2>5, RxAloneKept
  <2>6. CASE op # None
    BY <1>1, <2>1, <2>6, RxIdleAlone DEF RxAlone
  <2> QED
    BY <2>5, <2>6
<1>7. CASE RxHealFails
  <2>1. /\ rx.pc = "heal" /\ rx'.pc = "look" /\ rx'.todo = rx.todo /\ rx'.got = rx.got
        /\ op' = op /\ folder' = folder /\ op = None
    BY <1>1, <1>7 DEF RxHealFails, TypeInv, TypeOK, RxAlone, RxIdle
  <2>2. \A n \in Names : Valid(n)' <=> Valid(n)
    BY <2>1 DEF Valid
  <2>3. \A e \in rx.got : e[1] \in Names
    BY <1>1 DEF TypeInv, TypeOK
  <2>4. \A n \in Names : Valid(n) /\ folder[n].sums = folder[n].xml => n # rx.at
    BY <1>1, <2>1 DEF RxAlone
  <2> QED
    BY <1>1, <2>1, <2>2, <2>3, <2>4 DEF RxAlone
<1>8. CASE UNCHANGED vars
  <2>1. rx' = rx /\ op' = op /\ folder' = folder
    BY <1>8 DEF vars
  <2> QED
    BY <1>1, <2>1 DEF RxAlone, Valid
<1> QED
  BY <1>2, <1>3, <1>4, <1>5, <1>6, <1>7, <1>8, RxLookAlone, RxHealAlone, RxParseAlone
  DEF Next, Reindex, Environment

LEMMA SumsReplaced ==
  ASSUME TypeInv, SumsBacked, NEW n \in Names, NEW g \in Folders,
         folder' = [folder EXCEPT ![n] = g],
         g.sums # None => Holds(g.files, g.sums.atts)
  PROVE  SumsBacked' /\ folder'[n] = g
<1>1. \A m \in Names : folder'[m] = IF m = n THEN g ELSE folder[m]
  BY DEF TypeInv, TypeOK
<1> QED
  BY <1>1 DEF SumsBacked

\* A manifest that was just rewritten lists no file a handler still awaits.
LEMMA SumsAtStart ==
  ASSUME OpDisk', op'.pc # "unlink", folder'[op'.at].sums = folder'[op'.at].xml
  PROVE  OpSums'
BY DEF OpDisk, OpSums

LEMMA OpenedSums ==
  ASSUME AloneInv, NEW i \in Ids, Opens(i), folder' = Reconciled(row[i].folder)
  PROVE  LET at == row[i].folder IN
         SumsBacked' /\ folder'[at].sums = folder'[at].xml
<1> DEFINE at == row[i].folder
           g  == [folder[at] EXCEPT !.sums = folder[at].xml]
<1>1. at \in Names /\ Valid(at) /\ TypeInv /\ DiskInv
  BY OpensType DEF AloneInv, DiskInv, TypeInv
<1> HIDE DEF at
<1>2. folder[at] # None /\ folder[at] \in Folders /\ folder[at].xml # None
  BY <1>1, FolderType DEF Valid
<1>3. g \in Folders /\ g.xml = folder[at].xml /\ g.sums = folder[at].xml
      /\ g.files = folder[at].files
  BY <1>2 DEF Folders
<1>4. folder' = [folder EXCEPT ![at] = g]
  BY <1>1 DEF Reconciled, at, TypeInv, TypeOK
<1> HIDE DEF g
<1>5. Holds(g.files, g.sums.atts)
  BY <1>1, <1>2, <1>3 DEF DiskInv, DiskBacked, Backed
<1>6. SumsBacked' /\ folder'[at] = g
  BY <1>1, <1>3, <1>4, <1>5, SumsReplaced DEF AloneInv
<1> QED
  BY <1>3, <1>6 DEF at

LEMMA SumsRequest ==
  ASSUME AloneInv, Request PROVE SumsBacked' /\ OpSums'
<1>d. DiskInv /\ TypeInv /\ TypeInv' /\ OpDisk' /\ SumsBacked
  BY DiskRequest DEF AloneInv, DiskInv
<1>1. ASSUME NEW i \in Ids, GetJump(i) PROVE SumsBacked' /\ OpSums'
  BY <1>1, OpenedSums DEF GetJump, MayStart, OpSums
<1>2. ASSUME NEW i \in Ids, NEW n \in Names, NEW u \in Parts, CreateJump(i, n, u)
      PROVE  SumsBacked' /\ OpSums'
  <2>1. EmptyDir.sums = None /\ EmptyDir.xml = None
    BY DEF EmptyDir
  <2>2. SumsBacked' /\ folder'[n] = EmptyDir
    BY <1>d, <1>2, <2>1, EmptyDirType, SumsReplaced DEF CreateJump
  <2>3. op'.at = n /\ op'.pc = "stream"
    BY <1>2 DEF CreateJump, Started
  <2> QED
    BY <1>d, <2>1, <2>2, <2>3, SumsAtStart
<1>3. ASSUME NEW i \in Ids, Opens(i), folder' = Reconciled(row[i].folder),
             op'.at = row[i].folder, op'.pc # "unlink"
      PROVE  SumsBacked' /\ OpSums'
  BY <1>d, <1>3, OpenedSums, SumsAtStart
<1>4. ASSUME NEW i \in Ids, NEW names \in SUBSET Files, TrackFiles(i, names)
      PROVE  SumsBacked' /\ OpSums'
  BY <1>3, <1>4 DEF TrackFiles, Started
<1>5. ASSUME NEW i \in Ids, NEW u \in Parts, AddAttachments(i, u)
      PROVE  SumsBacked' /\ OpSums'
  BY <1>3, <1>5 DEF AddAttachments, Started
<1>6. ASSUME NEW i \in Ids, NEW f \in Files, DeleteAttachment(i, f)
      PROVE  SumsBacked' /\ OpSums'
  BY <1>3, <1>6 DEF DeleteAttachment, Started
<1>7. ASSUME NEW i \in Ids, NEW n \in Names, UpdateJump(i, n)
      PROVE  SumsBacked' /\ OpSums'
  BY <1>3, <1>7 DEF UpdateJump, Started
<1>8. ASSUME NEW i \in Ids, DeleteJump(i) PROVE SumsBacked' /\ OpSums'
  BY <1>d, <1>8 DEF DeleteJump, Started, SumsBacked, OpSums
<1> QED
  BY <1>1, <1>2, <1>4, <1>5, <1>6, <1>7, <1>8 DEF Request

LEMMA SumsHandler ==
  ASSUME AloneInv, Handler PROVE SumsBacked' /\ OpSums'
<1>d. DiskInv /\ TypeInv /\ TypeInv' /\ OpDisk /\ OpDisk' /\ SumsBacked /\ OpSums
  BY DiskHandler DEF AloneInv, DiskInv
<1>w. op # None /\ op.h # "delete" =>
        /\ op \in Ops /\ op.at \in Names /\ op.doc \in Docs /\ op.todo \in Parts
        /\ folder[op.at] # None /\ folder[op.at] \in Folders
        /\ folder[op.at].sums # None =>
             Holds(folder[op.at].files, folder[op.at].sums.atts)
  BY <1>d, AtWork DEF SumsBacked
<1> DEFINE old == folder[op.at]
<1>1. ASSUME NEW f \in Files, StreamUpload(f) PROVE SumsBacked' /\ OpSums'
  <2> DEFINE v == op.todo[f]
             g == [old EXCEPT !.files[f] = v]
  <2>1. /\ op # None /\ op.pc = "stream" /\ v # None /\ op.h # "delete"
        /\ Awaited(f)
    BY <1>d, <1>1 DEF StreamUpload, At, TypeInv, OpShape, Awaited
  <2>2. v \in Contents
    BY <1>w, <2>1 DEF Parts
  <2>3. /\ g \in Folders /\ g.sums = old.sums
        /\ \A x \in Files : g.files[x] = IF x = f THEN v ELSE old.files[x]
        /\ folder' = [folder EXCEPT ![op.at] = g]
    BY <1>1, <1>w, <2>1, <2>2 DEF Folders, Parts, StreamUpload
  <2> HIDE DEF g, v
  <2>4. old.sums # None => old.sums.atts[f] = None
    BY <1>d, <2>1 DEF OpSums
  <2>5. g.sums # None => Holds(g.files, g.sums.atts)
    BY <1>w, <2>1, <2>3, <2>4 DEF Holds
  <2>6. SumsBacked' /\ folder'[op.at] = g
    BY <1>d, <1>w, <2>1, <2>3, <2>5, SumsReplaced
  <2>7. /\ op'.at = op.at /\ op'.h = op.h /\ op'.pc = "stream"
        /\ \A x \in Files : op'.todo[x] # None => op.todo[x] # None
    BY <1>1, <1>w, <2>1 DEF StreamUpload, Ops, Parts
  <2>8. \A x \in Files : Awaited(x)' => Awaited(x)
    BY <2>1, <2>7 DEF Awaited
  <2> QED
    BY <1>d, <2>1, <2>3, <2>6, <2>7, <2>8 DEF OpSums
<1>2. ASSUME WriteJumpXml PROVE SumsBacked' /\ OpSums'
  <2> DEFINE g == [old EXCEPT !.xml = op.doc]
  <2>1. op # None /\ op.h # "delete"
    BY <1>d, <1>2 DEF WriteJumpXml, At, Streamed, TypeInv, OpShape
  <2>2. /\ g \in Folders /\ g.sums = old.sums /\ g.files = old.files
        /\ folder' = [folder EXCEPT ![op.at] = g]
    BY <1>2, <1>w, <2>1 DEF Folders, WriteJumpXml
  <2> HIDE DEF g
  <2>3. SumsBacked'
    BY <1>d, <1>w, <2>1, <2>2, SumsReplaced
  <2>4. op'.pc = "sums"
    BY <1>2, <1>w, <2>1 DEF WriteJumpXml, Ops
  <2>5. \A x \in Files : ~Awaited(x)'
    BY <2>4 DEF Awaited
  <2> QED
    BY <2>3, <2>4, <2>5 DEF OpSums
<1>3. ASSUME WriteManifest PROVE SumsBacked' /\ OpSums'
  <2> DEFINE g == [old EXCEPT !.sums = old.xml]
  <2>1. op # None /\ op.h # "delete" /\ op.pc = "sums"
    BY <1>d, <1>3 DEF WriteManifest, At, TypeInv, OpShape
  <2>2. old.xml = op.doc
    BY <1>d, <2>1 DEF OpDisk
  <2>3. /\ g \in Folders /\ g.sums = op.doc /\ g.files = old.files
        /\ folder' = [folder EXCEPT ![op.at] = g]
    BY <1>3, <1>w, <2>1, <2>2 DEF Folders, WriteManifest
  <2> HIDE DEF g
  <2>4. Holds(g.files, g.sums.atts)
    BY <1>d, <1>w, <2>1, <2>2, <2>3, NoneAssumption DEF DiskInv, DiskBacked, Backed
  <2>5. SumsBacked' /\ folder'[op.at] = g
    BY <1>d, <1>w, <2>1, <2>3, <2>4, SumsReplaced
  <2>6. op'.at = op.at /\ op'.doc = op.doc /\ op'.pc = AfterSums
    BY <1>3, <1>w, <2>1 DEF WriteManifest, Ops
  <2>7. \A x \in Files : ~Awaited(x)'
    BY <2>6 DEF Awaited, AfterSums
  <2> QED
    BY <2>3, <2>5, <2>6, <2>7 DEF OpSums
<1>4. ASSUME RenameFolder PROVE SumsBacked' /\ OpSums'
  <2> DEFINE to == FolderName(op.doc)
  <2>1. op # None /\ op.h = "update"
    BY <1>d, <1>4 DEF RenameFolder, At, TypeInv, OpShape
  <2>2. to \in Names
    BY <1>w, <2>1 DEF FolderName, Names, Docs
  <2>3. folder' = IF to = op.at THEN folder
                  ELSE [folder EXCEPT ![to] = old, ![op.at] = None]
    BY <1>4 DEF RenameFolder
  <2>6. op'.pc = "row"
    BY <1>4, <1>w, <2>1 DEF RenameFolder, Ops
  <2> HIDE DEF to
  <2>4. \A m \in Names : folder'[m] = IF m = to THEN old
                                      ELSE IF m = op.at THEN None ELSE folder[m]
    BY <1>d, <1>w, <2>1, <2>2, <2>3 DEF TypeInv, TypeOK
  <2>5. SumsBacked'
    BY <1>d, <1>w, <2>1, <2>4 DEF SumsBacked
  <2>7. \A x \in Files : ~Awaited(x)'
    BY <2>6 DEF Awaited
  <2> QED
    BY <2>5, <2>6, <2>7 DEF OpSums
<1>5. ASSUME UnlinkAttachment PROVE SumsBacked' /\ OpSums'
  <2> DEFINE g == [old EXCEPT !.files[op.del] = None]
  <2>1. op # None /\ op.h = "unattach" /\ op.pc = "unlink" /\ op.del \in Files
    BY <1>d, <1>5 DEF UnlinkAttachment, At, TypeInv, OpShape
  <2>2. old.sums = op.doc /\ op.doc.atts[op.del] = None /\ op.doc # None
    BY <1>d, <1>w, <2>1, NoneAssumption DEF OpSums, OpDisk
  <2>3. /\ g \in Folders /\ g.sums = old.sums
        /\ \A x \in Files : g.files[x] = IF x = op.del THEN None ELSE old.files[x]
        /\ folder' = [folder EXCEPT ![op.at] = g]
    BY <1>5, <1>w, <2>1 DEF Folders, Parts, UnlinkAttachment
  <2> HIDE DEF g
  <2>4. Holds(g.files, g.sums.atts)
    BY <1>w, <2>1, <2>2, <2>3 DEF Holds
  <2>5. SumsBacked'
    BY <1>d, <1>w, <2>1, <2>3, <2>4, SumsReplaced
  <2>6. op'.pc = "row"
    BY <1>5, <1>w, <2>1 DEF UnlinkAttachment, Ops
  <2>7. \A x \in Files : ~Awaited(x)'
    BY <2>6 DEF Awaited
  <2> QED
    BY <2>5, <2>6, <2>7 DEF OpSums
<1>6. ASSUME MoveToTrash PROVE SumsBacked' /\ OpSums'
  <2>1. op # None /\ op.h = "delete" /\ op \in Ops /\ folder' = [folder EXCEPT ![op.at] = None]
        /\ op' = [op EXCEPT !.pc = "row"]
    BY <1>d, <1>6 DEF MoveToTrash, At, TypeInv, OpShape, TypeOK
  <2>2. op'.h = "delete"
    BY <2>1 DEF Ops
  <2>3. \A m \in Names : folder'[m] # None => folder'[m] = folder[m]
    BY <1>d, <2>1 DEF TypeInv, TypeOK
  <2> QED
    BY <1>d, <2>2, <2>3 DEF SumsBacked, OpSums
<1>7. ASSUME CommitRow \/ RowConflict \/ RenameRefused PROVE SumsBacked' /\ OpSums'
  BY <1>d, <1>7 DEF CommitRow, RowConflict, RenameRefused, SumsBacked, OpSums
<1> QED
  BY <1>1, <1>2, <1>3, <1>4, <1>5, <1>6, <1>7 DEF Handler

LEMMA SumsDropIn ==
  ASSUME AloneInv, NEW n \in Names, NEW f \in Files, NEW c \in Contents, DropIn(n, f, c)
  PROVE  SumsBacked' /\ OpSums'
<1>d. DiskInv /\ TypeInv /\ SumsBacked /\ OpSums
  BY DEF AloneInv, DiskInv
<1> DEFINE old == folder[n]
           g == [old EXCEPT !.files[f] = c]
<1>1. old # None /\ old \in Folders /\ old.files[f] = None /\ op' = op
  BY <1>d, FolderType DEF DropIn
<1>2. /\ g \in Folders /\ g.sums = old.sums
      /\ \A x \in Files : g.files[x] = IF x = f THEN c ELSE old.files[x]
      /\ folder' = [folder EXCEPT ![n] = g]
  BY <1>1 DEF Folders, Parts, DropIn
<1> HIDE DEF g
<1>3. g.sums # None => Holds(g.files, g.sums.atts)
  <2>1. ASSUME g.sums # None PROVE Holds(g.files, g.sums.atts)
    <3>1. Holds(old.files, old.sums.atts) /\ f \in Files
      BY <1>d, <1>1, <1>2, <2>1 DEF SumsBacked
    <3>2. old.sums.atts \in Parts
      BY <1>1, <1>2, <2>1 DEF Folders, Docs
    <3>3. old.sums.atts[f] = None
      BY <1>1, <3>1 DEF Holds
    <3> QED
      BY <1>2, <3>1, <3>3 DEF Holds
  <2> QED
    BY <2>1
<1>4. SumsBacked' /\ folder'[n] = g
  BY <1>d, <1>2, <1>3, SumsReplaced
<1>5. \A m \in Names : m # n => folder'[m] = folder[m]
  BY <1>d, <1>2 DEF TypeInv, TypeOK
<1>6. \A x : Awaited(x)' <=> Awaited(x)
  BY <1>1 DEF Awaited
<1>7. op # None /\ op.h # "delete" => op.at \in Names
  BY <1>d, AtWork
<1>8. OpSums'
  BY <1>d, <1>1, <1>2, <1>4, <1>5, <1>6, <1>7 DEF OpSums
<1> QED
  BY <1>4, <1>8

LEMMA AloneNext ==
  ASSUME ~OnlineReindex, AloneInv, [Next]_vars PROVE AloneInv'
<1>1. DiskInv' /\ RxAlone'
  BY DiskNext, RxAloneNext DEF AloneInv
<1>2. CASE folder' = folder /\ (op' = op \/ op' = None)
  <2>1. \A x : op' = op => (Awaited(x)' <=> Awaited(x))
    BY DEF Awaited
  <2>2. SumsBacked' /\ OpSums'
    BY <1>2, <2>1 DEF AloneInv, SumsBacked, OpSums
  <2> QED
    BY <1>1, <2>2 DEF AloneInv
<1>3. CASE RxHeal
  <2>1. op' = None
    BY <1>3 DEF RxHeal, AloneInv, RxAlone, RxIdle
  <2> QED
    BY <1>1, <1>3, <2>1, RxHealAlone DEF AloneInv, OpSums
<1>4. CASE Reindex
  BY <1>2, <1>3, <1>4 DEF Reindex, RxStart, RxLook, RxParse, RxAbort, RxCommit
<1>5. CASE Environment
  BY <1>1, <1>2, <1>5, SumsDropIn DEF Environment, HandlerFails, RxHealFails, Crash, AloneInv
<1>6. CASE UNCHANGED vars
  BY <1>2, <1>6 DEF vars
<1> QED
  BY <1>1, <1>4, <1>5, <1>6, SumsRequest, SumsHandler DEF Next, AloneInv

LEMMA AloneInit == Init => AloneInv
<1> SUFFICES ASSUME Init PROVE AloneInv
  OBVIOUS
<1>1. DiskInv /\ op = None /\ rx = RxIdle /\ \A n \in Names : folder[n] = None
  BY DiskInit DEF Init
<1> QED
  BY <1>1 DEF AloneInv, RxAlone, RxIdle, OpSums, SumsBacked

LEMMA AloneInvariant ==
  ASSUME ~OnlineReindex PROVE Spec => []AloneInv
<1>1. AloneInv /\ [Next]_vars => AloneInv'
  BY AloneNext
<1> QED
  BY <1>1, AloneInit, PTL DEF Spec

\* With no reindex beside the handlers a manifest may be stale about jump.xml,
\* never about an attachment: whatever fails, each file it lists is on disk with
\* the bytes it lists.
THEOREM ManifestsStayBacked ==
  ASSUME ~OnlineReindex PROVE Spec => []SumsBacked
<1>1. AloneInv => SumsBacked
  BY DEF AloneInv
<1> QED
  BY <1>1, AloneInvariant, PTL

-----------------------------------------------------------------------------
(* The index, while nothing has failed.                                    *)

\* Jump i lives in folder n.
Home(i, n) == Valid(n) /\ folder[n].xml.id = i

\* The row of jump i is what the folders say.
Agrees(i) ==
    /\ \A n \in Names : Home(i, n) => row[i] = RowFor(folder[n].xml, n)
    /\ row[i] # None => Home(i, row[i].folder)

\* No two folders carry one number in their names.
NumbersApart ==
    \A m, n \in Names : folder[m] # None /\ folder[n] # None /\ m[1] = n[1] => m = n

\* A folder no handler is at work in has the name its jump.xml asks for.
NamesTrue ==
    \A n \in Names : Valid(n) /\ (op = None \/ n # op.at) => FolderName(folder[n].xml) = n

\* Only the jump of the running handler may differ from its row.
OthersAgree == \A i \in Ids : op = None \/ i # op.id => Agrees(i)

\* What the running handler relies on until it commits its row.
OpIndex ==
    op # None =>
        /\ op.h # "delete" => op.doc.id = op.id
        /\ op.h = "create" => row[op.id] = None /\ FolderName(op.doc) = op.at
        /\ op.h \in {"track", "add", "unattach"} =>
             row[op.id] = RowFor(op.doc, op.at) /\ FolderName(op.doc) = op.at
        /\ op.h = "update" =>
             /\ row[op.id] # None
             /\ \A m \in Names \ {op.at} : folder[m] # None => m[1] # op.doc.num
             /\ op.pc = "row" => FolderName(op.doc) = op.at
        /\ op.h = "delete" =>
             IF op.pc = "trash" THEN Home(op.id, op.at)
             ELSE folder[op.at] = None /\ \A n \in Names : ~Home(op.id, n)

IndexSound == NumbersApart /\ NamesTrue /\ OthersAgree /\ OpIndex

IndexInv == AloneInv /\ (faults = 0 => IndexSound)

LEMMA NameParts ==
  ASSUME NEW n \in Names PROVE n = <<n[1], n[2]>> /\ n[1] \in Nums /\ n[2] \in Titles
BY DEF Names

LEMMA DocName ==
  ASSUME NEW d \in Docs, NEW n \in Names, FolderName(d) = n
  PROVE  n[1] = d.num /\ n[2] = d.title
BY DEF FolderName, Names, Docs

\* Every jump.xml stays where it is, and so does the index.
LEMMA SameDisk ==
  ASSUME TypeInv, row' = row,
         \A n \in Names : /\ folder'[n] = None <=> folder[n] = None
                          /\ folder[n] # None => folder'[n].xml = folder[n].xml
  PROVE  /\ NumbersApart => NumbersApart'
         /\ \A n \in Names : Valid(n)' <=> Valid(n)
         /\ \A n \in Names : Valid(n) => folder'[n].xml = folder[n].xml
         /\ \A i \in Ids, n \in Names : Home(i, n)' <=> Home(i, n)
         /\ \A i \in Ids : Agrees(i) => Agrees(i)'
<1>1. \A n \in Names : /\ Valid(n)' <=> Valid(n)
                       /\ Valid(n) => folder'[n].xml = folder[n].xml
  BY DEF Valid
<1>2. NumbersApart => NumbersApart'
  BY DEF NumbersApart
<1>3. \A i \in Ids, n \in Names : Home(i, n)' <=> Home(i, n)
  BY <1>1 DEF Home
<1>4. \A i \in Ids : row[i] # None => row[i].folder \in Names
  BY DEF TypeInv, TypeOK, Rows
<1>5. \A n \in Names : Valid(n) => RowFor(folder[n].xml, n)' = RowFor(folder[n].xml, n)
  BY <1>1 DEF RowFor
<1>6. \A i \in Ids, n \in Names : Home(i, n) => Valid(n)
  BY DEF Home
<1>7. \A i \in Ids : Agrees(i) => Agrees(i)'
  BY <1>1, <1>3, <1>4, <1>5, <1>6 DEF Agrees
<1> QED
  BY <1>1, <1>2, <1>3, <1>7

\* A request that opens a jump finds it where the index says, under its name.
LEMMA OpenedHome ==
  ASSUME TypeInv, IndexSound, op = None, NEW i \in Ids, Opens(i)
  PROVE  LET at == row[i].folder
             d  == folder[at].xml
         IN  /\ at \in Names /\ Valid(at) /\ d \in Docs /\ d.id = i /\ row[i] # None
             /\ row[i] = RowFor(d, at) /\ FolderName(d) = at
             /\ at[1] = d.num /\ at[2] = d.title
<1> DEFINE at == row[i].folder
<1>1. at \in Names /\ Valid(at) /\ row[i] # None
  BY OpensType DEF TypeInv, Opens
<1>2. Agrees(i)
  BY DEF IndexSound, OthersAgree
<1>3. Home(i, at)
  BY <1>1, <1>2 DEF Agrees
<1>4. row[i] = RowFor(folder[at].xml, at)
  BY <1>1, <1>2, <1>3 DEF Agrees
<1>5. folder[at].xml \in Docs /\ folder[at].xml.id = i
  BY <1>1, <1>3, FolderType DEF Valid, Home
<1>6. FolderName(folder[at].xml) = at
  BY <1>1 DEF IndexSound, NamesTrue
<1>7. at[1] = folder[at].xml.num /\ at[2] = folder[at].xml.title
  BY <1>1, <1>5, <1>6, DocName
<1> QED
  BY <1>1, <1>3, <1>4, <1>5, <1>6, <1>7

LEMMA ReconciledDisk ==
  ASSUME TypeInv, NEW at \in Names, Valid(at), folder' = Reconciled(at)
  PROVE  \A n \in Names : /\ folder'[n] = None <=> folder[n] = None
                          /\ folder[n] # None => folder'[n].xml = folder[n].xml
<1> DEFINE g == [folder[at] EXCEPT !.sums = folder[at].xml]
<1>1. folder[at] # None /\ folder[at] \in Folders /\ folder[at].xml \in Docs
  BY FolderType DEF Valid
<1>2. g \in Folders /\ g.xml = folder[at].xml
  BY <1>1 DEF Folders
<1>3. folder' = [folder EXCEPT ![at] = g]
  BY DEF Reconciled, TypeInv, TypeOK
<1> HIDE DEF g
<1>4. \A n \in Names : folder'[n] = IF n = at THEN g ELSE folder[n]
  BY <1>3 DEF TypeInv, TypeOK
<1> QED
  BY <1>1, <1>2, <1>4, NoneAssumption

\* What a handler that has opened its jump starts from.
LEMMA IndexBegun ==
  ASSUME TypeInv, IndexSound, op = None, row' = row, NEW i \in Ids, Opens(i),
         folder' = Reconciled(row[i].folder),
         op' = None \/ (op'.id = i /\ op'.at = row[i].folder)
  PROVE  NumbersApart' /\ NamesTrue' /\ OthersAgree'
<1> DEFINE at == row[i].folder
<1>1. at \in Names /\ Valid(at)
  BY OpensType DEF TypeInv
<1> HIDE DEF at
<1>2. /\ NumbersApart'
      /\ \A n \in Names : Valid(n)' <=> Valid(n)
      /\ \A n \in Names : Valid(n) => folder'[n].xml = folder[n].xml
      /\ \A j \in Ids : Agrees(j) => Agrees(j)'
  BY <1>1, ReconciledDisk, SameDisk DEF at, IndexSound
<1>3. OthersAgree'
  BY <1>2 DEF IndexSound, OthersAgree
<1>4. \A n \in Names : Valid(n) => FolderName(folder[n].xml) = n
  BY DEF IndexSound, NamesTrue
<1>5. NamesTrue'
  BY <1>2, <1>4 DEF NamesTrue, FolderName
<1> QED
  BY <1>2, <1>3, <1>5

LEMMA IndexRequest ==
  ASSUME TypeInv, IndexSound, Request PROVE IndexSound'
<1>o. op = None
  BY DEF Request, GetJump, CreateJump, TrackFiles, AddAttachments, DeleteAttachment,
         UpdateJump, DeleteJump, MayStart
<1>1. ASSUME NEW i \in Ids, GetJump(i) PROVE IndexSound'
  BY <1>o, <1>1, IndexBegun DEF GetJump, IndexSound, OpIndex
<1>2. ASSUME NEW i \in Ids, NEW n \in Names, NEW u \in Parts, CreateJump(i, n, u)
      PROVE  IndexSound'
  <2> DEFINE d == [id |-> i, num |-> n[1], title |-> n[2], atts |-> u]
  <2>1. /\ folder' = [folder EXCEPT ![n] = EmptyDir] /\ row' = row /\ row[i] = None
        /\ \A m \in Names : folder[m] # None => m[1] # n[1]
        /\ op' = Started("create", "stream", i, n, d, u, None)
    BY <1>2 DEF CreateJump, Fresh, NumberIsTaken
  <2>2. \A m \in Names : folder'[m] = IF m = n THEN EmptyDir ELSE folder[m]
    BY <2>1 DEF TypeInv, TypeOK
  <2>3. folder[n] = None /\ EmptyDir.xml = None
    BY <2>1 DEF EmptyDir
  <2>4. \A m \in Names : (Valid(m)' <=> Valid(m)) /\ (Valid(m) => folder'[m] = folder[m])
    BY <2>2, <2>3 DEF Valid
  <2>5. op' # None /\ op'.h = "create" /\ op'.id = i /\ op'.at = n /\ op'.doc = d
    <3>1. d \in Docs
      BY DEF Docs, Names
    <3> HIDE DEF d
    <3>2. op' # None /\ op'.h = "create" /\ op'.at = n /\ op'.doc = d
      BY <2>1, <3>1, StartedType DEF Handlers, Steps
    <3> QED
      BY <2>1, <3>2 DEF Started
  <2>6. NumbersApart'
    BY <2>1, <2>2 DEF IndexSound, NumbersApart
  <2>7. NamesTrue'
    BY <1>o, <2>4 DEF IndexSound, NamesTrue
  <2>8. \A j \in Ids : Agrees(j)'
    <3>1. \A j \in Ids, m \in Names : Home(j, m)' <=> Home(j, m)
      BY <2>4 DEF Home
    <3>2. \A j \in Ids : Agrees(j) /\ (row[j] # None => row[j].folder \in Names)
      BY <1>o DEF IndexSound, OthersAgree, TypeInv, TypeOK, Rows
    <3>3. \A j \in Ids, m \in Names : Home(j, m) => folder'[m] = folder[m]
      BY <2>4 DEF Home
    <3> QED
      BY <2>1, <3>1, <3>2, <3>3 DEF Agrees
  <2>9. OpIndex'
    BY <2>1, <2>5, NameParts DEF OpIndex, FolderName
  <2> QED
    BY <2>6, <2>7, <2>8, <2>9 DEF IndexSound, OthersAgree
<1>3. ASSUME NEW i \in Ids, NEW names \in SUBSET Files, TrackFiles(i, names)
      PROVE  IndexSound'
  <2> DEFINE at == row[i].folder
             d  == folder[at].xml
             doc == [d EXCEPT !.atts = [f \in Files |->
                       IF f \in {g \in names : d.atts[g] = None}
                       THEN folder[at].files[f] ELSE d.atts[f]]]
  <2>1. Opens(i) /\ row' = row /\ folder' = Reconciled(at)
        /\ op' = Started("track", "xml", i, at, doc, NoParts, None)
    BY <1>3 DEF TrackFiles
  <2>2. op'.h = "track" /\ op'.id = i /\ op'.at = at /\ op'.doc = doc
    BY <2>1 DEF Started
  <2>3. d \in Docs /\ d.id = i /\ row[i] = RowFor(d, at) /\ FolderName(d) = at
    BY <1>o, <2>1, OpenedHome
  <2>4. NumbersApart' /\ NamesTrue' /\ OthersAgree'
    BY <1>o, <2>1, <2>2, IndexBegun
  <2> HIDE DEF at, d
  <2>5. doc.id = d.id /\ doc.num = d.num /\ doc.title = d.title
    BY <2>3 DEF Docs
  <2> HIDE DEF doc
  <2>6. OpIndex'
    BY <2>1, <2>2, <2>3, <2>5 DEF OpIndex, RowFor, FolderName
  <2> QED
    BY <2>4, <2>6 DEF IndexSound
<1>4. ASSUME NEW i \in Ids, NEW u \in Parts, AddAttachments(i, u)
      PROVE  IndexSound'
  <2> DEFINE at == row[i].folder
             d  == folder[at].xml
             doc == [d EXCEPT !.atts = [f \in Files |->
                       IF u[f] # None THEN u[f] ELSE d.atts[f]]]
  <2>1. Opens(i) /\ row' = row /\ folder' = Reconciled(at)
        /\ op' = Started("add", "stream", i, at, doc, u, None)
    BY <1>4 DEF AddAttachments
  <2>2. op'.h = "add" /\ op'.id = i /\ op'.at = at /\ op'.doc = doc
    BY <2>1 DEF Started
  <2>3. d \in Docs /\ d.id = i /\ row[i] = RowFor(d, at) /\ FolderName(d) = at
    BY <1>o, <2>1, OpenedHome
  <2>4. NumbersApart' /\ NamesTrue' /\ OthersAgree'
    BY <1>o, <2>1, <2>2, IndexBegun
  <2> HIDE DEF at, d
  <2>5. doc.id = d.id /\ doc.num = d.num /\ doc.title = d.title
    BY <2>3 DEF Docs
  <2> HIDE DEF doc
  <2>6. OpIndex'
    BY <2>1, <2>2, <2>3, <2>5 DEF OpIndex, RowFor, FolderName
  <2> QED
    BY <2>4, <2>6 DEF IndexSound
<1>5. ASSUME NEW i \in Ids, NEW f \in Files, DeleteAttachment(i, f)
      PROVE  IndexSound'
  <2> DEFINE at == row[i].folder
             d  == folder[at].xml
             doc == [d EXCEPT !.atts[f] = None]
  <2>1. Opens(i) /\ row' = row /\ folder' = Reconciled(at)
        /\ op' = Started("unattach", "xml", i, at, doc, NoParts, f)
    BY <1>5 DEF DeleteAttachment
  <2>2. op'.h = "unattach" /\ op'.id = i /\ op'.at = at /\ op'.doc = doc
    BY <2>1 DEF Started
  <2>3. d \in Docs /\ d.id = i /\ row[i] = RowFor(d, at) /\ FolderName(d) = at
    BY <1>o, <2>1, OpenedHome
  <2>4. NumbersApart' /\ NamesTrue' /\ OthersAgree'
    BY <1>o, <2>1, <2>2, IndexBegun
  <2> HIDE DEF at, d
  <2>5. doc.id = d.id /\ doc.num = d.num /\ doc.title = d.title
    BY <2>3 DEF Docs
  <2> HIDE DEF doc
  <2>6. OpIndex'
    BY <2>1, <2>2, <2>3, <2>5 DEF OpIndex, RowFor, FolderName
  <2> QED
    BY <2>4, <2>6 DEF IndexSound
<1>6. ASSUME NEW i \in Ids, NEW n \in Names, UpdateJump(i, n)
      PROVE  IndexSound'
  <2> DEFINE at == row[i].folder
             d  == folder[at].xml
             doc == [d EXCEPT !.num = n[1], !.title = n[2]]
  <2>1. Opens(i) /\ row' = row /\ folder' = Reconciled(at)
        /\ (n[1] # d.num => ~NumberIsTaken(n[1]))
        /\ op' = Started("update", "xml", i, at, doc, NoParts, None)
    BY <1>6 DEF UpdateJump
  <2>2. op'.h = "update" /\ op'.id = i /\ op'.at = at /\ op'.doc = doc /\ op'.pc = "xml"
    BY <2>1 DEF Started
  <2>3. /\ at \in Names /\ Valid(at) /\ d \in Docs /\ d.id = i /\ row[i] # None
        /\ at[1] = d.num
    BY <1>o, <2>1, OpenedHome
  <2>4. NumbersApart' /\ NamesTrue' /\ OthersAgree'
    BY <1>o, <2>1, <2>2, IndexBegun
  <2>5. \A m \in Names : folder'[m] = None <=> folder[m] = None
    BY <2>1, <2>3, ReconciledDisk
  <2> HIDE DEF at, d
  <2>6. doc.id = d.id /\ doc.num = n[1]
    BY <2>3 DEF Docs
  <2> HIDE DEF doc
  <2>7. \A m \in Names \ {at} : folder[m] # None => m[1] # n[1]
    BY <2>1, <2>3 DEF NumberIsTaken, IndexSound, NumbersApart, Valid
  <2>8. OpIndex'
    BY <2>1, <2>2, <2>3, <2>5, <2>6, <2>7 DEF OpIndex
  <2> QED
    BY <2>4, <2>8 DEF IndexSound
<1>7. ASSUME NEW i \in Ids, DeleteJump(i) PROVE IndexSound'
  <2> DEFINE at == row[i].folder
  <2>1. /\ row[i] # None /\ folder' = folder /\ row' = row
        /\ op' = Started("delete", "trash", i, at, None, NoParts, None)
    BY <1>7 DEF DeleteJump
  <2>2. op'.h = "delete" /\ op'.pc = "trash" /\ op'.id = i /\ op'.at = at
    BY <2>1 DEF Started
  <2>3. \A j \in Ids : Agrees(j) /\ Agrees(j)'
    BY <1>o, <2>1 DEF IndexSound, OthersAgree, Agrees, Home, Valid, RowFor
  <2>4. Home(i, at)'
    BY <2>1, <2>3 DEF Agrees
  <2>5. NumbersApart' /\ NamesTrue'
    BY <1>o, <2>1 DEF IndexSound, NumbersApart, NamesTrue, Valid
  <2>6. OthersAgree'
    BY <2>3 DEF OthersAgree
  <2>7. Home(op.id, op.at)'
    BY <2>1, <2>2, <2>4
  <2>8. OpIndex'
    BY <2>2, <2>7 DEF OpIndex
  <2> QED
    BY <2>5, <2>6, <2>8 DEF IndexSound
<1> QED
  BY <1>1, <1>2, <1>3, <1>4, <1>5, <1>6, <1>7 DEF Request

\* The other jumps, while a handler works on its own.
LEMMA Elsewhere ==
  ASSUME TypeInv, OthersAgree, op' # None, op'.id = op.id, row' = row,
         \A j \in Ids \ {op.id}, n \in Names :
            /\ Home(j, n)' <=> Home(j, n)
            /\ Home(j, n) => folder'[n].xml = folder[n].xml
  PROVE  OthersAgree'
<1>1. \A j \in Ids : row[j] # None => row[j].folder \in Names
  BY DEF TypeInv, TypeOK, Rows
<1>2. ASSUME NEW j \in Ids \ {op.id} PROVE Agrees(j)'
  <2>1. Agrees(j)
    BY DEF OthersAgree
  <2>2. \A n \in Names : Home(j, n)' => row'[j] = RowFor(folder'[n].xml, n)
    BY <2>1 DEF Agrees
  <2>3. row'[j] # None => Home(j, row[j].folder)'
    BY <1>1, <2>1 DEF Agrees
  <2> QED
    BY <2>2, <2>3 DEF Agrees, RowFor
<1> QED
  BY <1>2 DEF OthersAgree

LEMMA IndexHandler ==
  ASSUME AloneInv, IndexSound, Handler PROVE IndexSound'
<1>d. /\ TypeInv /\ TypeInv' /\ OneHome /\ OpDisk /\ op # None /\ op \in Ops
      /\ op.at \in Names /\ op.id \in Ids
  <2>1. op # None
    BY DEF Handler, StreamUpload, WriteJumpXml, WriteManifest, RenameFolder, RenameRefused,
           UnlinkAttachment, MoveToTrash, CommitRow, RowConflict, At, Streamed
  <2> QED
    BY <2>1, TypeHandler DEF AloneInv, DiskInv, TypeInv, TypeOK, Ops
<1>w. op.h # "delete" =>
        /\ op.doc \in Docs /\ op.todo \in Parts
        /\ folder[op.at] # None /\ folder[op.at] \in Folders
        /\ op.doc.id = op.id /\ (Valid(op.at) => folder[op.at].xml.id = op.id)
  BY <1>d, AtWork DEF IndexSound, OpIndex, OpDisk, Valid
<1>i. NumbersApart /\ NamesTrue /\ OthersAgree /\ OpIndex
  BY DEF IndexSound
<1>s. ASSUME op' # None, row' = row, op.h # "delete",
             op'.h = op.h, op'.id = op.id, op'.at = op.at, op'.doc = op.doc,
             op.h = "update" /\ op'.pc = "row" => FolderName(op.doc) = op.at,
             NEW g \in Folders, folder' = [folder EXCEPT ![op.at] = g],
             g.xml = folder[op.at].xml
      PROVE  IndexSound'
  <2>1. \A n \in Names : folder'[n] = IF n = op.at THEN g ELSE folder[n]
    BY <1>d, <1>s DEF TypeInv, TypeOK
  <2>2. \A n \in Names : /\ folder'[n] = None <=> folder[n] = None
                         /\ folder[n] # None => folder'[n].xml = folder[n].xml
    BY <1>w, <1>s, <2>1, NoneAssumption
  <2>3. /\ NumbersApart'
        /\ \A n \in Names : Valid(n)' <=> Valid(n)
        /\ \A n \in Names : Valid(n) => folder'[n].xml = folder[n].xml
        /\ \A j \in Ids : Agrees(j) => Agrees(j)'
    BY <1>d, <1>i, <1>s, <2>2, SameDisk
  <2>4. OthersAgree'
    BY <1>i, <1>d, <1>s, <2>3 DEF OthersAgree
  <2>5. NamesTrue'
    BY <1>i, <1>d, <1>s, <2>3 DEF NamesTrue, FolderName
  <2>6. OpIndex'
    BY <1>i, <1>d, <1>s, <2>2 DEF OpIndex
  <2> QED
    BY <2>3, <2>4, <2>5, <2>6 DEF IndexSound
<1>1. ASSUME NEW f \in Files, StreamUpload(f) PROVE IndexSound'
  <2> DEFINE g == [folder[op.at] EXCEPT !.files[f] = op.todo[f]]
  <2>1. op.h # "delete" /\ op.h # "update" /\ op.todo[f] \in Contents
    BY <1>d, <1>w, <1>1 DEF StreamUpload, At, TypeInv, OpShape, Parts
  <2>2. g \in Folders /\ g.xml = folder[op.at].xml /\ folder' = [folder EXCEPT ![op.at] = g]
    BY <1>1, <1>w, <2>1 DEF StreamUpload, Folders, Parts
  <2> HIDE DEF g
  <2>3. /\ op' # None /\ op'.h = op.h /\ op'.id = op.id /\ op'.at = op.at
        /\ op'.doc = op.doc /\ row' = row
    <3>1. op' \in Ops
      BY <1>1, <1>d, <2>1 DEF StreamUpload, Ops, Parts
    <3> QED
      BY <1>1, <1>d, <3>1, NoneAssumption DEF StreamUpload, Ops
  <2> QED
    BY <1>s, <2>1, <2>2, <2>3
<1>2. ASSUME WriteJumpXml PROVE IndexSound'
  <2> DEFINE g == [folder[op.at] EXCEPT !.xml = op.doc]
  <2>1. op.h # "delete"
    BY <1>d, <1>2 DEF WriteJumpXml, At, Streamed, TypeInv, OpShape
  <2>2. g \in Folders /\ g.xml = op.doc /\ folder' = [folder EXCEPT ![op.at] = g]
    BY <1>2, <1>w, <2>1 DEF WriteJumpXml, Folders
  <2> HIDE DEF g
  <2>3. /\ op' # None /\ op'.h = op.h /\ op'.id = op.id /\ op'.at = op.at
        /\ op'.doc = op.doc /\ op'.pc = "sums" /\ row' = row
    <3>1. op' \in Ops
      BY <1>2, <1>d DEF WriteJumpXml, Ops, Steps
    <3> QED
      BY <1>2, <1>d, <3>1, NoneAssumption DEF WriteJumpXml, Ops
  <2>4. \A n \in Names : folder'[n] = IF n = op.at THEN g ELSE folder[n]
    BY <1>d, <2>2 DEF TypeInv, TypeOK
  <2>5. g # None
    BY <2>2, NoneAssumption
  <2>6. NumbersApart'
    BY <1>i, <1>w, <2>1, <2>4, <2>5 DEF NumbersApart
  <2>7. NamesTrue'
    BY <1>i, <1>d, <2>3, <2>4 DEF NamesTrue, Valid
  <2>8. \A j \in Ids \ {op.id}, n \in Names :
            /\ Home(j, n)' <=> Home(j, n)
            /\ Home(j, n) => folder'[n].xml = folder[n].xml
    BY <1>w, <2>1, <2>2, <2>4, <2>5 DEF Home, Valid
  <2>9. OthersAgree'
    BY <1>d, <1>i, <2>3, <2>8, Elsewhere
  <2>10. OpIndex'
    BY <1>i, <1>d, <2>1, <2>3, <2>4 DEF OpIndex
  <2> QED
    BY <2>6, <2>7, <2>9, <2>10 DEF IndexSound
<1>3. ASSUME WriteManifest PROVE IndexSound'
  <2> DEFINE g == [folder[op.at] EXCEPT !.sums = folder[op.at].xml]
  <2>1. op.h # "delete"
    BY <1>d, <1>3 DEF WriteManifest, At, TypeInv, OpShape
  <2>2. g \in Folders /\ g.xml = folder[op.at].xml /\ folder' = [folder EXCEPT ![op.at] = g]
    BY <1>3, <1>w, <2>1 DEF WriteManifest, Folders
  <2> HIDE DEF g
  <2>3. /\ op' # None /\ op'.h = op.h /\ op'.id = op.id /\ op'.at = op.at
        /\ op'.doc = op.doc /\ op'.pc = AfterSums /\ row' = row
    <3>1. op' \in Ops
      BY <1>3, <1>d DEF WriteManifest, Ops, Steps, AfterSums
    <3> QED
      BY <1>3, <1>d, <3>1, NoneAssumption DEF WriteManifest, Ops
  <2> QED
    BY <1>s, <2>1, <2>2, <2>3 DEF AfterSums
<1>4. ASSUME RenameFolder PROVE IndexSound'
  <2> DEFINE to == FolderName(op.doc)
             old == folder[op.at]
  <2>1. op.h = "update" /\ row' = row /\ old.xml = op.doc /\ old # None
    BY <1>d, <1>w, <1>4 DEF RenameFolder, At, TypeInv, OpShape, OpDisk
  <2>2. to \in Names /\ to[1] = op.doc.num
    BY <1>w, <2>1 DEF FolderName, Names, Docs
  <2>3. /\ \A m \in Names \ {op.at} : folder[m] # None => m[1] # op.doc.num
        /\ row[op.id] # None
    BY <1>d, <1>i, <2>1 DEF OpIndex
  <2>4. folder' = IF to = op.at THEN folder
                  ELSE [folder EXCEPT ![to] = old, ![op.at] = None]
    BY <1>4 DEF RenameFolder
  <2>5. /\ op' # None /\ op'.h = op.h /\ op'.id = op.id /\ op'.at = to
        /\ op'.doc = op.doc /\ op'.pc = "row"
    <3>1. op' \in Ops
      BY <1>4, <1>d, <2>2 DEF RenameFolder, Ops, Steps
    <3> QED
      BY <1>4, <1>d, <3>1, NoneAssumption DEF RenameFolder, Ops
  <2>t. FolderName(op.doc) = to
    OBVIOUS
  <2> HIDE DEF to
  <2>6. \A m \in Names : folder'[m] = IF m = to THEN old
                                      ELSE IF m = op.at THEN None ELSE folder[m]
    BY <1>d, <2>1, <2>2, <2>4 DEF TypeInv, TypeOK
  <2>7. to # op.at => folder[to] = None
    BY <2>2, <2>3
  <2>8. NumbersApart'
    BY <1>i, <2>1, <2>2, <2>3, <2>6 DEF NumbersApart
  <2>9. NamesTrue'
    BY <1>i, <1>d, <2>5, <2>6 DEF NamesTrue, Valid
  <2>10. \A j \in Ids \ {op.id}, n \in Names :
            /\ Home(j, n)' <=> Home(j, n)
            /\ Home(j, n) => folder'[n].xml = folder[n].xml
    BY <1>w, <2>1, <2>6, <2>7 DEF Home, Valid
  <2>11. OthersAgree'
    BY <1>d, <1>i, <2>1, <2>5, <2>10, Elsewhere
  <2>12. OpIndex'
    BY <1>i, <1>d, <1>w, <2>1, <2>3, <2>5, <2>6, <2>t DEF OpIndex
  <2> QED
    BY <2>8, <2>9, <2>11, <2>12 DEF IndexSound
<1>5. ASSUME UnlinkAttachment PROVE IndexSound'
  <2> DEFINE g == [folder[op.at] EXCEPT !.files[op.del] = None]
  <2>1. op.h = "unattach"
    BY <1>d, <1>5 DEF UnlinkAttachment, At, TypeInv, OpShape
  <2>2. g \in Folders /\ g.xml = folder[op.at].xml /\ folder' = [folder EXCEPT ![op.at] = g]
    BY <1>5, <1>w, <2>1 DEF UnlinkAttachment, Folders, Parts
  <2> HIDE DEF g
  <2>3. /\ op' # None /\ op'.h = op.h /\ op'.id = op.id /\ op'.at = op.at
        /\ op'.doc = op.doc /\ row' = row
    <3>1. op' \in Ops
      BY <1>5, <1>d DEF UnlinkAttachment, Ops, Steps
    <3> QED
      BY <1>5, <1>d, <3>1, NoneAssumption DEF UnlinkAttachment, Ops
  <2> QED
    BY <1>s, <2>1, <2>2, <2>3
<1>6. ASSUME MoveToTrash PROVE IndexSound'
  <2>1. /\ op.h = "delete" /\ op.pc = "trash" /\ row' = row
        /\ folder' = [folder EXCEPT ![op.at] = None] /\ op' = [op EXCEPT !.pc = "row"]
    BY <1>d, <1>6 DEF MoveToTrash, At, TypeInv, OpShape
  <2>2. op' # None /\ op'.h = "delete" /\ op'.id = op.id /\ op'.at = op.at /\ op'.pc = "row"
    <3>1. op' \in Ops
      BY <1>d, <2>1 DEF Ops, Steps
    <3> QED
      BY <1>d, <2>1, <3>1, NoneAssumption DEF Ops
  <2>3. \A n \in Names : folder'[n] = IF n = op.at THEN None ELSE folder[n]
    BY <1>d, <2>1 DEF TypeInv, TypeOK
  <2>4. Home(op.id, op.at)
    BY <1>d, <1>i, <2>1 DEF OpIndex
  <2>5. NumbersApart' /\ NamesTrue'
    BY <1>i, <1>d, <2>2, <2>3 DEF NumbersApart, NamesTrue, Valid
  <2>6. \A j \in Ids \ {op.id}, n \in Names :
            /\ Home(j, n)' <=> Home(j, n)
            /\ Home(j, n) => folder'[n].xml = folder[n].xml
    BY <2>3, <2>4 DEF Home, Valid
  <2>7. OthersAgree'
    BY <1>d, <1>i, <2>1, <2>2, <2>6, Elsewhere
  <2>8. \A n \in Names : n # op.at => ~Home(op.id, n)
    BY <1>d, <2>4 DEF Home, OneHome
  <2>9. \A i \in Ids, n \in Names : i = op.id => ~Home(i, n)'
    BY <2>3, <2>8 DEF Home, Valid
  <2>10. OpIndex'
    BY <1>d, <2>2, <2>3, <2>9 DEF OpIndex, Home
  <2> QED
    BY <2>5, <2>7, <2>10 DEF IndexSound
<1>7. ASSUME CommitRow PROVE IndexSound'
  <2>1. /\ op.pc = "row" /\ op' = None /\ folder' = folder
        /\ row' = [row EXCEPT ![op.id] = CommittedRow]
    BY <1>7 DEF CommitRow, At
  <2>2. \A j \in Ids : row'[j] = IF j = op.id THEN CommittedRow ELSE row[j]
    BY <1>d, <2>1 DEF TypeInv, TypeOK
  <2>3. \A j, n : Home(j, n)' <=> Home(j, n)
    BY <2>1 DEF Home, Valid
  <2>4. \A j \in Ids \ {op.id} : Agrees(j)'
    <3>1. \A j \in Ids \ {op.id} : Agrees(j) /\ row'[j] = row[j]
      BY <1>i, <2>2 DEF OthersAgree
    <3> QED
      BY <2>1, <2>3, <3>1 DEF Agrees, RowFor
  <2>5. /\ \A i \in Ids : i = op.id => Agrees(i)'
        /\ (Valid(op.at) => FolderName(folder[op.at].xml) = op.at)
    <3>1. CASE op.h = "delete"
      <4>1. row'[op.id] = None
        BY <1>d, <2>2, <3>1 DEF CommittedRow
      <4>2. folder[op.at] = None /\ \A n \in Names : ~Home(op.id, n)
        BY <1>d, <1>i, <2>1, <3>1 DEF OpIndex
      <4> QED
        BY <2>3, <4>1, <4>2 DEF Agrees, Valid
    <3>2. CASE op.h # "delete"
      <4>1. folder[op.at].xml = op.doc /\ op.doc # None
        BY <1>d, <1>w, <2>1, <3>2, NoneAssumption DEF OpDisk
      <4>2. Home(op.id, op.at)
        BY <1>w, <3>2, <4>1 DEF Home, Valid
      <4>3. op.h \in {"create", "track", "add", "unattach", "update"}
        BY <1>d, <3>2 DEF Ops, Handlers
      <4>4. CommittedRow = RowFor(op.doc, op.at) /\ FolderName(op.doc) = op.at
        BY <1>d, <1>i, <2>1, <4>3 DEF OpIndex, CommittedRow
      <4>5. row'[op.id] = RowFor(folder'[op.at].xml, op.at)
        BY <1>d, <2>1, <2>2, <4>1, <4>4
      <4>6. \A n \in Names : Home(op.id, n) => n = op.at
        BY <1>d, <4>2 DEF Home, OneHome
      <4>7. row'[op.id].folder = op.at
        BY <4>5 DEF RowFor
      <4> QED
        BY <2>3, <4>1, <4>2, <4>4, <4>5, <4>6, <4>7 DEF Agrees, RowFor
    <3> QED
      BY <3>1, <3>2
  <2>6. NumbersApart' /\ NamesTrue'
    BY <1>i, <2>1, <2>5 DEF NumbersApart, NamesTrue, Valid
  <2> QED
    BY <2>1, <2>4, <2>5, <2>6 DEF IndexSound, OthersAgree, OpIndex
<1>8. ~RowConflict
  <2> SUFFICES ASSUME op.pc = "row", op.h \in {"create", "update"}, NEW j \in Ids \ {op.id},
                      row[j] # None, row[j].num = op.doc.num
               PROVE  FALSE
    <3>1. op # None /\ op.h = "create" => row[op.id] = None
      BY <1>i DEF OpIndex
    <3> QED
      BY <3>1 DEF RowConflict, RowRefused, At, Clashes
  <2> DEFINE m == row[j].folder
  <2>1. m \in Names /\ Home(j, m) /\ row[j] = RowFor(folder[m].xml, m)
    BY <1>d, <1>i DEF OthersAgree, Agrees, TypeInv, TypeOK, Rows
  <2> HIDE DEF m
  <2>2. m # op.at
    BY <1>w, <2>1 DEF Home
  <2>3. folder[m].xml \in Docs /\ folder[m].xml.num = op.doc.num /\ folder[m] # None
    BY <1>d, <2>1, FolderType DEF Home, Valid, RowFor
  <2>4. FolderName(folder[m].xml) = m
    BY <1>i, <2>1, <2>2 DEF NamesTrue, Home
  <2>5. m[1] = op.doc.num
    BY <2>1, <2>3, <2>4, DocName
  <2>6. op.at[1] = op.doc.num
    BY <1>d, <1>i, <1>w, DocName DEF OpIndex
  <2> QED
    BY <1>d, <1>i, <1>w, <2>1, <2>2, <2>3, <2>5, <2>6 DEF NumbersApart
<1>9. ~RenameRefused
  <2> SUFFICES ASSUME op.pc = "rename", FolderName(op.doc) # op.at,
                      folder[FolderName(op.doc)] # None
               PROVE  FALSE
    BY DEF RenameRefused, At
  <2>1. op.h = "update" /\ op.doc \in Docs
    BY <1>d, <1>w DEF TypeInv, OpShape
  <2>2. FolderName(op.doc) \in Names /\ FolderName(op.doc)[1] = op.doc.num
    BY <2>1 DEF FolderName, Names, Docs
  <2> QED
    BY <1>d, <1>i, <2>1, <2>2 DEF OpIndex
<1> QED
  BY <1>1, <1>2, <1>3, <1>4, <1>5, <1>6, <1>7, <1>8, <1>9 DEF Handler

\* With no failure so far a rebuild finds every row as it should be.
LEMMA IndexCommit ==
  ASSUME AloneInv, IndexSound, RxCommit PROVE row' = row
<1>1. /\ op = None /\ TypeInv
      /\ rx.got \subseteq Names \X Docs
      /\ \A e \in rx.got : Valid(e[1]) /\ folder[e[1]].xml = e[2]
  BY DEF AloneInv, DiskInv, TypeInv, TypeOK, RxAlone, RxCommit, Loaded, RxIdle
<1>2. PICK last \in [{e[2].id : e \in rx.got} -> rx.got] :
        /\ \A i \in DOMAIN last : last[i][2].id = i
        /\ row' = [i \in Ids |->
                     IF i \in DOMAIN last THEN RowFor(last[i][2], last[i][1])
                     ELSE IF row[i] # None /\ \E e \in rx.got : e[2].num = row[i].num
                          THEN None ELSE row[i]]
  BY DEF RxCommit
<1>3. \A i \in Ids : Agrees(i)
  BY <1>1 DEF IndexSound, OthersAgree
<1>4. \A e \in rx.got : e[1] \in Names /\ e[2] \in Docs /\ Home(e[2].id, e[1])
  BY <1>1 DEF Home
<1>5. ASSUME NEW i \in Ids, i \in DOMAIN last
      PROVE  RowFor(last[i][2], last[i][1]) = row[i]
  <2>1. last[i] \in rx.got /\ last[i][2].id = i
    BY <1>2, <1>5
  <2>2. Home(i, last[i][1]) /\ folder[last[i][1]].xml = last[i][2] /\ last[i][1] \in Names
    BY <1>1, <1>4, <2>1
  <2> QED
    BY <1>3, <2>2 DEF Agrees
<1>6. ASSUME NEW i \in Ids, row[i] # None, NEW e \in rx.got, e[2].num = row[i].num
      PROVE  i \in DOMAIN last
  <2> DEFINE m == row[i].folder
  <2>1. m \in Names /\ Home(i, m) /\ row[i] = RowFor(folder[m].xml, m)
    BY <1>1, <1>3, <1>6 DEF Agrees, TypeInv, TypeOK, Rows
  <2> HIDE DEF m
  <2>2. Valid(m) /\ folder[m].xml \in Docs /\ folder[m].xml.num = row[i].num
    BY <1>1, <2>1, FolderType DEF Home, Valid, RowFor
  <2>3. \A n \in Names : Valid(n) => FolderName(folder[n].xml) = n
    BY <1>1 DEF IndexSound, NamesTrue
  <2>4. m[1] = row[i].num
    BY <2>1, <2>2, <2>3, DocName
  <2>5. e[1][1] = row[i].num /\ Valid(e[1]) /\ e[1] \in Names
    BY <1>1, <1>4, <1>6, <2>3, DocName
  <2>6. m = e[1]
    BY <2>1, <2>2, <2>4, <2>5 DEF IndexSound, NumbersApart, Valid
  <2>7. e[2].id = i
    BY <1>1, <2>1, <2>6 DEF Home
  <2> QED
    BY <1>2, <2>7
<1>7. \A i \in Ids : row'[i] = row[i]
  BY <1>2, <1>5, <1>6
<1> QED
  BY <1>1, <1>2, <1>7 DEF TypeInv, TypeOK

LEMMA IndexKept ==
  ASSUME TypeInv, IndexSound, op' = op, row' = row,
         \A n \in Names : /\ folder'[n] = None <=> folder[n] = None
                          /\ folder[n] # None => folder'[n].xml = folder[n].xml
  PROVE  IndexSound'
<1>1. /\ NumbersApart'
      /\ \A n \in Names : Valid(n)' <=> Valid(n)
      /\ \A n \in Names : Valid(n) => folder'[n].xml = folder[n].xml
      /\ \A i \in Ids, n \in Names : Home(i, n)' <=> Home(i, n)
      /\ \A i \in Ids : Agrees(i) => Agrees(i)'
  BY SameDisk DEF IndexSound
<1>2. OthersAgree'
  BY <1>1 DEF IndexSound, OthersAgree
<1>3. NamesTrue'
  BY <1>1 DEF IndexSound, NamesTrue, FolderName
<1>4. op # None => op.at \in Names /\ op.id \in Ids
  BY DEF TypeInv, TypeOK, Ops
<1>5. op # None => (Home(op.id, op.at)' <=> Home(op.id, op.at))
  BY <1>1, <1>4 DEF Home
<1>6. op # None => \A n \in Names : Home(op.id, n)' <=> Home(op.id, n)
  BY <1>1, <1>4 DEF Home
<1>7. OpIndex'
  BY <1>4, <1>5, <1>6 DEF IndexSound, OpIndex
<1> QED
  BY <1>1, <1>2, <1>3, <1>7 DEF IndexSound

LEMMA IndexNext ==
  ASSUME ~OnlineReindex, IndexInv, [Next]_vars PROVE IndexInv'
<1>1. AloneInv /\ AloneInv' /\ TypeInv /\ faults \in Nat /\ faults' \in Nat
  BY AloneNext DEF IndexInv, AloneInv, DiskInv, TypeInv, TypeOK
<1> SUFFICES ASSUME faults' = 0 PROVE IndexSound'
  BY <1>1 DEF IndexInv
<1>2. faults = 0 /\ ~HandlerFails /\ ~RxHealFails /\ ~Crash
  <2>1. ~HandlerFails /\ ~RxHealFails /\ ~Crash
    BY <1>1 DEF HandlerFails, RxHealFails, Crash
  <2>2. Request => faults' = faults
    BY DEF Request, GetJump, CreateJump, TrackFiles, AddAttachments, DeleteAttachment,
           UpdateJump, DeleteJump
  <2>3. Handler => faults' = faults
    BY DEF Handler, StreamUpload, WriteJumpXml, WriteManifest, RenameFolder, RenameRefused,
           UnlinkAttachment, MoveToTrash, CommitRow, RowConflict
  <2>4. Reindex => faults' = faults
    BY DEF Reindex, RxStart, RxLook, RxHeal, RxParse, RxAbort, RxCommit
  <2>5. Environment \/ UNCHANGED vars => faults' = faults
    BY <2>1 DEF Environment, DropIn, vars
  <2> QED
    BY <2>1, <2>2, <2>3, <2>4, <2>5 DEF Next
<1>3. IndexSound
  BY <1>2 DEF IndexInv
<1>4. CASE folder' = folder /\ row' = row /\ op' = op
  BY <1>1, <1>3, <1>4, IndexKept
<1>5. CASE Reindex
  <2>1. CASE RxHeal
    <3>1. /\ rx.at \in Names /\ folder[rx.at] # None /\ folder[rx.at] \in Folders
          /\ rx.doc \in Docs /\ row' = row /\ op' = op
      BY <1>1, <2>1, FolderType DEF RxHeal, AloneInv, RxAlone, Valid, TypeInv, RxShape
    <3> DEFINE g == [folder[rx.at] EXCEPT !.sums = rx.doc]
    <3>2. g \in Folders /\ g.xml = folder[rx.at].xml /\ folder' = [folder EXCEPT ![rx.at] = g]
      BY <1>1, <2>1, <3>1 DEF RxHeal, Folders, TypeInv, TypeOK
    <3> HIDE DEF g
    <3>3. \A n \in Names : folder'[n] = IF n = rx.at THEN g ELSE folder[n]
      BY <1>1, <3>1, <3>2 DEF TypeInv, TypeOK
    <3> QED
      BY <1>1, <1>3, <3>1, <3>2, <3>3, IndexKept, NoneAssumption
  <2>2. CASE RxCommit
    BY <1>1, <1>3, <1>4, <2>2, IndexCommit DEF RxCommit
  <2> QED
    BY <1>4, <1>5, <2>1, <2>2 DEF Reindex, RxStart, RxLook, RxParse, RxAbort
<1>6. ASSUME NEW n \in Names, NEW f \in Files, NEW c \in Contents, DropIn(n, f, c)
      PROVE  IndexSound'
  <2> DEFINE g == [folder[n] EXCEPT !.files[f] = c]
  <2>1. folder[n] # None /\ folder[n] \in Folders /\ row' = row /\ op' = op
    BY <1>1, <1>6, FolderType DEF DropIn
  <2>2. g \in Folders /\ g.xml = folder[n].xml /\ folder' = [folder EXCEPT ![n] = g]
    BY <1>6, <2>1 DEF DropIn, Folders, Parts
  <2> HIDE DEF g
  <2>3. \A m \in Names : folder'[m] = IF m = n THEN g ELSE folder[m]
    BY <1>1, <2>1, <2>2 DEF TypeInv, TypeOK
  <2> QED
    BY <1>1, <1>3, <2>1, <2>2, <2>3, IndexKept, NoneAssumption
<1>7. CASE UNCHANGED vars
  BY <1>4, <1>7 DEF vars
<1> QED
  BY <1>1, <1>2, <1>3, <1>5, <1>6, <1>7, IndexRequest, IndexHandler DEF Next, Environment

LEMMA IndexInit == Init => IndexInv
<1> SUFFICES ASSUME Init PROVE IndexInv
  OBVIOUS
<1>1. AloneInv /\ op = None /\ (\A n \in Names : folder[n] = None)
      /\ \A i \in Ids : row[i] = None
  BY AloneInit DEF Init
<1> QED
  BY <1>1 DEF IndexInv, IndexSound, NumbersApart, NamesTrue, OthersAgree, OpIndex, Agrees,
              Home, Valid

\* D3: with no reindex beside the handlers, and none stopped half-way so far,
\* the index is between two requests exactly what the folders say.
THEOREM IndexMirrors ==
  ASSUME ~OnlineReindex PROVE Spec => []IndexMirrorsDisk
<1>1. ASSUME IndexInv PROVE IndexMirrorsDisk
  <2> SUFFICES ASSUME op = None, faults = 0, NEW i \in Ids
               PROVE  row[i] =
                        IF \E n \in Names : Valid(n) /\ folder[n].xml.id = i
                        THEN LET n == CHOOSE m \in Names : Valid(m) /\ folder[m].xml.id = i
                             IN  RowFor(folder[n].xml, n)
                        ELSE None
    BY DEF IndexMirrorsDisk
  <2>1. Agrees(i) /\ (row[i] # None => row[i].folder \in Names)
    BY <1>1 DEF IndexInv, IndexSound, OthersAgree, AloneInv, DiskInv, TypeInv, TypeOK, Rows
  <2>2. CASE \E n \in Names : Valid(n) /\ folder[n].xml.id = i
    <3> DEFINE n == CHOOSE m \in Names : Valid(m) /\ folder[m].xml.id = i
    <3>1. n \in Names /\ Home(i, n)
      BY <2>2 DEF Home
    <3> QED
      BY <2>1, <2>2, <3>1 DEF Agrees
  <2>3. CASE ~ \E n \in Names : Valid(n) /\ folder[n].xml.id = i
    BY <2>1, <2>3 DEF Agrees, Home
  <2> QED
    BY <2>2, <2>3
<1>2. IndexInv /\ [Next]_vars => IndexInv'
  BY IndexNext
<1> QED
  BY <1>1, <1>2, IndexInit, PTL DEF Spec

\* The rebuild that main.py relies on: when it commits, every folder with a
\* readable jump.xml and a current manifest has the row its jump.xml asks for.
THEOREM RebuildCoversDisk ==
  ASSUME ~OnlineReindex PROVE Spec => RebuildCovers
<1>1. ASSUME AloneInv, RxCommit, NEW n \in Names, Valid(n), folder[n].sums = folder[n].xml
      PROVE  row'[folder[n].xml.id] = RowFor(folder[n].xml, n)
  <2>1. /\ rx.got \subseteq Names \X Docs
        /\ \A e \in rx.got : Valid(e[1]) /\ folder[e[1]].xml = e[2]
        /\ <<n, folder[n].xml>> \in rx.got
    BY <1>1 DEF AloneInv, DiskInv, TypeInv, TypeOK, RxAlone, RxCommit, Loaded
  <2>2. PICK last \in [{e[2].id : e \in rx.got} -> rx.got] :
        /\ \A i \in DOMAIN last : last[i][2].id = i
        /\ row' = [i \in Ids |->
                     IF i \in DOMAIN last THEN RowFor(last[i][2], last[i][1])
                     ELSE IF row[i] # None /\ \E e \in rx.got : e[2].num = row[i].num
                          THEN None ELSE row[i]]
    BY <1>1 DEF RxCommit
  <2> DEFINE i == folder[n].xml.id
  <2>3. i \in DOMAIN last /\ i \in Ids
    BY <2>1, <2>2 DEF Docs
  <2>4. last[i] \in rx.got /\ last[i][2].id = i /\ row'[i] = RowFor(last[i][2], last[i][1])
    BY <2>2, <2>3
  <2>5. last[i][1] = n /\ last[i][2] = folder[n].xml
    BY <1>1, <2>1, <2>4 DEF AloneInv, DiskInv, OneHome
  <2> QED
    BY <2>4, <2>5
<1>2. AloneInv /\ [Next]_vars =>
        [RxCommit => \A n \in Names : Valid(n) /\ folder[n].sums = folder[n].xml =>
           row'[folder[n].xml.id] = RowFor(folder[n].xml, n)]_vars
  BY <1>1
<1> QED
  BY <1>2, AloneInvariant, PTL DEF RebuildCovers, Spec

-----------------------------------------------------------------------------
(* Numbers.                                                                *)

\* The number a handler is about to write is its own, or no other folder's name
\* carries it.
OpNumber ==
    op # None /\ op.h # "delete" =>
        \/ Valid(op.at) /\ folder[op.at].xml.num = op.doc.num
        \/ \A m \in Names \ {op.at} : Valid(m) => m[1] # op.doc.num

SameXml ==
    \A n \in Names : /\ Valid(n)' <=> Valid(n)
                     /\ Valid(n) => folder'[n].xml = folder[n].xml

LEMMA OneFolderSame ==
  ASSUME TypeInv, NEW n \in Names, NEW g \in Folders, folder' = [folder EXCEPT ![n] = g],
         g.xml = IF folder[n] = None THEN None ELSE folder[n].xml
  PROVE  SameXml
<1>1. \A m \in Names : folder'[m] = IF m = n THEN g ELSE folder[m]
  BY DEF TypeInv, TypeOK
<1> QED
  BY <1>1, NoneAssumption DEF SameXml, Valid

\* Only three steps put another jump.xml, or none, where one was.
LEMMA XmlSame ==
  ASSUME DiskInv, [Next]_vars, ~WriteJumpXml, ~RenameFolder, ~MoveToTrash PROVE SameXml
<1>t. TypeInv
  BY DEF DiskInv
<1>1. CASE folder' = folder
  BY <1>1 DEF SameXml, Valid
<1>2. CASE Request
  <2>1. ASSUME NEW i \in Ids, Opens(i), folder' = Reconciled(row[i].folder) PROVE SameXml
    <3>1. row[i].folder \in Names /\ Valid(row[i].folder)
      BY <1>t, <2>1, OpensType DEF TypeInv
    <3> QED
      BY <1>t, <2>1, <3>1, ReconciledDisk DEF SameXml, Valid
  <2>2. ASSUME NEW i \in Ids, NEW n \in Names, NEW u \in Parts, CreateJump(i, n, u)
        PROVE  SameXml
    BY <1>t, <2>2, EmptyDirType, OneFolderSame DEF CreateJump, NumberIsTaken, EmptyDir
  <2> QED
    BY <1>1, <1>2, <2>1, <2>2
    DEF Request, GetJump, TrackFiles, AddAttachments, DeleteAttachment, UpdateJump, DeleteJump
<1>3. CASE Handler
  <2>1. op # None /\ op.h # "delete" =>
          op.at \in Names /\ folder[op.at] \in Folders /\ folder[op.at] # None /\ op.todo \in Parts
    BY <1>t, AtWork
  <2>2. ASSUME NEW f \in Files, StreamUpload(f) PROVE SameXml
    <3> DEFINE g == [folder[op.at] EXCEPT !.files[f] = op.todo[f]]
    <3>1. op # None /\ op.h # "delete"
      BY <1>t, <2>2 DEF StreamUpload, At, TypeInv, OpShape
    <3>2. g \in Folders /\ g.xml = folder[op.at].xml /\ folder' = [folder EXCEPT ![op.at] = g]
      BY <2>1, <2>2, <3>1 DEF StreamUpload, Folders, Parts
    <3> QED
      BY <1>t, <2>1, <3>1, <3>2, OneFolderSame
  <2>3. ASSUME WriteManifest PROVE SameXml
    <3> DEFINE g == [folder[op.at] EXCEPT !.sums = folder[op.at].xml]
    <3>1. op # None /\ op.h # "delete"
      BY <1>t, <2>3 DEF WriteManifest, At, TypeInv, OpShape
    <3>2. g \in Folders /\ g.xml = folder[op.at].xml /\ folder' = [folder EXCEPT ![op.at] = g]
      BY <2>1, <2>3, <3>1 DEF WriteManifest, Folders
    <3> QED
      BY <1>t, <2>1, <3>1, <3>2, OneFolderSame
  <2>4. ASSUME UnlinkAttachment PROVE SameXml
    <3> DEFINE g == [folder[op.at] EXCEPT !.files[op.del] = None]
    <3>1. op # None /\ op.h = "unattach"
      BY <1>t, <2>4 DEF UnlinkAttachment, At, TypeInv, OpShape
    <3>2. g \in Folders /\ g.xml = folder[op.at].xml /\ folder' = [folder EXCEPT ![op.at] = g]
      BY <2>1, <2>4, <3>1 DEF UnlinkAttachment, Folders, Parts
    <3> QED
      BY <1>t, <2>1, <3>1, <3>2, OneFolderSame
  <2> QED
    BY <1>1, <1>3, <2>2, <2>3, <2>4 DEF Handler, RenameRefused, CommitRow, RowConflict
<1>4. CASE Reindex
  <2>1. CASE RxHeal
    <3> DEFINE old == IF folder[rx.at] = None THEN EmptyDir ELSE folder[rx.at]
               g   == [old EXCEPT !.sums = rx.doc]
    <3>1. rx.at \in Names /\ rx.doc \in Docs /\ old \in Folders
      BY <1>t, <2>1, EmptyDirType, FolderType DEF RxHeal, TypeInv, RxShape
    <3>2. folder' = [folder EXCEPT ![rx.at] = g]
      BY <1>t, <2>1, <3>1 DEF RxHeal, TypeInv, TypeOK
    <3>3. old.xml = IF folder[rx.at] = None THEN None ELSE folder[rx.at].xml
      BY DEF EmptyDir
    <3> HIDE DEF old
    <3>4. g \in Folders /\ g.xml = old.xml
      BY <3>1 DEF Folders
    <3> QED
      BY <1>t, <3>1, <3>2, <3>3, <3>4, OneFolderSame
  <2> QED
    BY <1>1, <1>4, <2>1 DEF Reindex, RxStart, RxLook, RxParse, RxAbort, RxCommit
<1>5. ASSUME NEW n \in Names, NEW f \in Files, NEW c \in Contents, DropIn(n, f, c)
      PROVE  SameXml
  <2> DEFINE g == [folder[n] EXCEPT !.files[f] = c]
  <2>1. folder[n] # None /\ folder[n] \in Folders
    BY <1>t, <1>5, FolderType DEF DropIn
  <2>2. g \in Folders /\ g.xml = folder[n].xml /\ folder' = [folder EXCEPT ![n] = g]
    BY <1>5, <2>1 DEF DropIn, Folders, Parts
  <2> QED
    BY <1>t, <2>1, <2>2, OneFolderSame
<1>6. CASE UNCHANGED vars
  BY <1>1, <1>6 DEF vars
<1> QED
  BY <1>1, <1>2, <1>3, <1>4, <1>5, <1>6
  DEF Next, Environment, HandlerFails, RxHealFails, Crash

\* A handler goes on with the jump and the number it started with.
GoesOn == op' # None /\ op'.h = op.h /\ op'.at = op.at /\ op'.doc = op.doc

LEMMA HandlerGoesOn ==
  ASSUME TypeInv, Handler, ~RenameFolder, ~MoveToTrash PROVE op' = None \/ GoesOn
<1>1. op # None => op \in Ops
  BY DEF TypeInv, TypeOK
<1>2. ASSUME NEW f \in Files, StreamUpload(f) PROVE GoesOn
  <2>1. op' \in Ops
    BY <1>1, <1>2 DEF StreamUpload, At, Ops, Parts
  <2> QED
    BY <1>1, <1>2, <2>1, NoneAssumption DEF StreamUpload, At, Ops, GoesOn
<1>3. CASE WriteJumpXml
  <2>1. op' \in Ops
    BY <1>1, <1>3 DEF WriteJumpXml, At, Streamed, Ops, Steps
  <2> QED
    BY <1>1, <1>3, <2>1, NoneAssumption DEF WriteJumpXml, At, Streamed, Ops, GoesOn
<1>4. CASE WriteManifest
  <2>1. op' \in Ops
    BY <1>1, <1>4 DEF WriteManifest, At, Ops, Steps, AfterSums
  <2> QED
    BY <1>1, <1>4, <2>1, NoneAssumption DEF WriteManifest, At, Ops, GoesOn
<1>5. CASE UnlinkAttachment
  <2>1. op' \in Ops
    BY <1>1, <1>5 DEF UnlinkAttachment, At, Ops, Steps
  <2> QED
    BY <1>1, <1>5, <2>1, NoneAssumption DEF UnlinkAttachment, At, Ops, GoesOn
<1> QED
  BY <1>2, <1>3, <1>4, <1>5 DEF Handler, RenameRefused, CommitRow, RowConflict

LEMMA NumberRequest ==
  ASSUME DiskInv, Request, SameXml PROVE OpNumber'
<1>t. TypeInv
  BY DEF DiskInv
<1>1. ASSUME NEW i \in Ids, NEW n \in Names, NEW u \in Parts, CreateJump(i, n, u)
      PROVE  OpNumber'
  <2>1. op'.at = n /\ op'.doc.num = n[1] /\ \A m \in Names : folder[m] # None => m[1] # n[1]
    BY <1>1 DEF CreateJump, Started, NumberIsTaken
  <2> QED
    BY <2>1 DEF OpNumber, SameXml, Valid
<1>2. ASSUME NEW i \in Ids, Opens(i), op'.at = row[i].folder,
             \/ op'.doc.num = folder[op'.at].xml.num
             \/ ~NumberIsTaken(op'.doc.num)
      PROVE  OpNumber'
  <2>1. op'.at \in Names /\ Valid(op'.at)
    BY <1>t, <1>2, OpensType DEF TypeInv
  <2>2. CASE op'.doc.num = folder[op'.at].xml.num
    BY <2>1, <2>2 DEF OpNumber, SameXml
  <2>3. CASE ~NumberIsTaken(op'.doc.num)
    <3>1. \A m \in Names : Valid(m)' => m[1] # op'.doc.num
      BY <2>3 DEF NumberIsTaken, SameXml, Valid
    <3> QED
      BY <3>1 DEF OpNumber
  <2> QED
    BY <1>2, <2>2, <2>3
<1>d. \A i \in Ids : Opens(i) => folder[row[i].folder].xml \in Docs
  BY <1>t, OpensType, ReconciledType DEF TypeInv
<1>3. ASSUME NEW i \in Ids, NEW names \in SUBSET Files, TrackFiles(i, names)
      PROVE  OpNumber'
  <2> DEFINE d == folder[row[i].folder].xml
             atts == [f \in Files |-> IF f \in {g \in names : d.atts[g] = None}
                                      THEN folder[row[i].folder].files[f] ELSE d.atts[f]]
             doc == [d EXCEPT !.atts = atts]
  <2>1. op'.at = row[i].folder /\ op'.doc = doc /\ Opens(i)
    BY <1>3 DEF TrackFiles, Started
  <2>2. doc.num = d.num
    BY <1>d, <2>1 DEF Docs
  <2> QED
    BY <1>2, <2>1, <2>2
<1>4. ASSUME NEW i \in Ids, NEW u \in Parts, AddAttachments(i, u)
      PROVE  OpNumber'
  <2> DEFINE d == folder[row[i].folder].xml
             doc == [d EXCEPT !.atts = [f \in Files |->
                                          IF u[f] # None THEN u[f] ELSE d.atts[f]]]
  <2>1. op'.at = row[i].folder /\ op'.doc = doc /\ Opens(i)
    BY <1>4 DEF AddAttachments, Started
  <2>2. doc.num = d.num
    BY <1>d, <2>1 DEF Docs
  <2> QED
    BY <1>2, <2>1, <2>2
<1>5. ASSUME NEW i \in Ids, NEW f \in Files, DeleteAttachment(i, f)
      PROVE  OpNumber'
  <2> DEFINE d == folder[row[i].folder].xml
             doc == [d EXCEPT !.atts[f] = None]
  <2>1. op'.at = row[i].folder /\ op'.doc = doc /\ Opens(i)
    BY <1>5 DEF DeleteAttachment, Started
  <2>2. doc.num = d.num
    BY <1>d, <2>1 DEF Docs
  <2> QED
    BY <1>2, <2>1, <2>2
<1>6. ASSUME NEW i \in Ids, NEW n \in Names, UpdateJump(i, n)
      PROVE  OpNumber'
  <2> DEFINE d == folder[row[i].folder].xml
             doc == [d EXCEPT !.num = n[1], !.title = n[2]]
  <2>1. /\ op'.at = row[i].folder /\ op'.doc = doc /\ Opens(i)
        /\ n[1] # d.num => ~NumberIsTaken(n[1])
    BY <1>6 DEF UpdateJump, Started
  <2>2. doc.num = n[1]
    BY <1>d, <2>1 DEF Docs
  <2> QED
    BY <1>2, <2>1, <2>2
<1>7. ASSUME NEW i \in Ids, GetJump(i) \/ DeleteJump(i) PROVE OpNumber'
  BY <1>7 DEF GetJump, DeleteJump, MayStart, Started, OpNumber
<1> QED
  BY <1>1, <1>3, <1>4, <1>5, <1>6, <1>7 DEF Request

LEMMA NumberNext ==
  ASSUME DiskInv, OpNumber, [Next]_vars PROVE OpNumber'
<1>t. TypeInv /\ OpDisk
  BY DEF DiskInv
<1>1. CASE MoveToTrash
  <2>1. op'.h = "delete"
    BY <1>t, <1>1 DEF MoveToTrash, At, TypeInv, TypeOK, OpShape, Ops
  <2> QED
    BY <2>1 DEF OpNumber
<1>2. CASE WriteJumpXml \/ RenameFolder
  <2>1. op # None /\ op.h # "delete" /\ op \in Ops /\ op.at \in Names /\ op.doc \in Docs
        /\ folder[op.at] # None /\ folder[op.at] \in Folders
    <3>1. op # None /\ op.h # "delete"
      BY <1>t, <1>2 DEF WriteJumpXml, RenameFolder, At, Streamed, TypeInv, OpShape
    <3> QED
      BY <1>t, <3>1, AtWork
  <2>2. op'.doc = op.doc
    BY <1>2, <2>1 DEF WriteJumpXml, RenameFolder, Ops
  <2>3. Valid(op.at)' /\ folder'[op'.at].xml = op.doc
    <3>1. CASE WriteJumpXml
      <4> DEFINE g == [folder[op.at] EXCEPT !.xml = op.doc]
      <4>1. op'.at = op.at /\ g \in Folders /\ g.xml = op.doc /\ op.doc # None
        BY <2>1, <3>1, NoneAssumption DEF WriteJumpXml, Ops, Folders
      <4>2. folder'[op.at] = g
        BY <1>t, <2>1, <3>1 DEF WriteJumpXml, TypeInv, TypeOK
      <4> QED
        BY <4>1, <4>2, NoneAssumption DEF Valid
    <3>2. CASE RenameFolder
      <4> DEFINE to == FolderName(op.doc)
      <4>1. op'.at = to /\ to \in Names
        BY <2>1, <3>2 DEF RenameFolder, Ops, FolderName, Names, Docs
      <4>2. folder[op.at].xml = op.doc /\ op.doc # None
        BY <1>t, <2>1, <3>2, NoneAssumption DEF RenameFolder, At, OpDisk
      <4>3. folder' = IF to = op.at THEN folder
                      ELSE [folder EXCEPT ![to] = folder[op.at], ![op.at] = None]
        BY <3>2 DEF RenameFolder
      <4> HIDE DEF to
      <4>4. folder'[to] = folder[op.at]
        BY <1>t, <2>1, <4>1, <4>3 DEF TypeInv, TypeOK
      <4> QED
        BY <2>1, <4>1, <4>2, <4>4 DEF Valid
    <3> QED
      BY <1>2, <3>1, <3>2
  <2> QED
    BY <2>2, <2>3 DEF OpNumber
<1>3. CASE ~WriteJumpXml /\ ~RenameFolder /\ ~MoveToTrash
  <2>1. SameXml
    BY <1>3, XmlSame
  <2>2. ASSUME op' = None \/ op' = op \/ (GoesOn /\ op # None) PROVE OpNumber'
    <3> SUFFICES ASSUME op' # None, op'.h # "delete" PROVE OpNumber'
      BY DEF OpNumber
    <3>1. op # None /\ op.h # "delete" /\ op'.at = op.at /\ op'.doc = op.doc
      BY <2>2 DEF GoesOn
    <3>2. op.at \in Names
      BY <1>t, <3>1, AtWork
    <3> QED
      BY <2>1, <3>1, <3>2 DEF OpNumber, SameXml
  <2>3. CASE Handler
    <3>1. op # None
      BY <2>3 DEF Handler, StreamUpload, WriteJumpXml, WriteManifest, RenameFolder,
           RenameRefused, UnlinkAttachment, MoveToTrash, CommitRow, RowConflict, At, Streamed
    <3> QED
      BY <1>t, <1>3, <2>2, <2>3, <3>1, HandlerGoesOn
  <2>4. CASE Reindex
    BY <2>2, <2>4 DEF Reindex, RxStart, RxLook, RxHeal, RxParse, RxAbort, RxCommit
  <2>5. CASE Environment \/ UNCHANGED vars
    BY <2>2, <2>5 DEF Environment, DropIn, HandlerFails, RxHealFails, Crash, vars
  <2> QED
    BY <2>1, <2>3, <2>4, <2>5, NumberRequest DEF Next
<1> QED
  BY <1>1, <1>2, <1>3

LEMMA DuplicateStep ==
  ASSUME DiskInv, OpNumber, [Next]_vars, NumbersUnique,
         \A n \in Names : Valid(n) => folder[n].xml.num = n[1]
  PROVE  NumbersUnique'
<1>t. TypeInv /\ OpDisk
  BY DEF DiskInv
<1>1. CASE ~WriteJumpXml /\ ~RenameFolder /\ ~MoveToTrash
  BY <1>1, XmlSame DEF SameXml, NumbersUnique
<1>2. CASE MoveToTrash
  <2>1. folder' = [folder EXCEPT ![op.at] = None]
    BY <1>2 DEF MoveToTrash
  <2>2. \A n \in Names : Valid(n)' => Valid(n) /\ folder'[n] = folder[n]
    BY <1>t, <2>1 DEF TypeInv, TypeOK, Valid
  <2> QED
    BY <2>2 DEF NumbersUnique
<1>3. CASE WriteJumpXml
  <2> DEFINE g == [folder[op.at] EXCEPT !.xml = op.doc]
  <2>1. op # None /\ op.h # "delete"
    BY <1>t, <1>3 DEF WriteJumpXml, At, Streamed, TypeInv, OpShape
  <2>2. op.at \in Names /\ folder[op.at] \in Folders
    BY <1>t, <2>1, AtWork
  <2>3. g.xml = op.doc /\ folder' = [folder EXCEPT ![op.at] = g]
    BY <1>3, <2>2 DEF WriteJumpXml, Folders
  <2> HIDE DEF g
  <2>4. \A n \in Names : folder'[n] = IF n = op.at THEN g ELSE folder[n]
    BY <1>t, <2>3 DEF TypeInv, TypeOK
  <2>5. \A n \in Names \ {op.at} : Valid(n)' => /\ Valid(n) /\ folder'[n] = folder[n]
                                                /\ folder[n].xml.num # op.doc.num
    BY <2>1, <2>2, <2>4 DEF OpNumber, NumbersUnique, Valid
  <2>6. folder'[op.at].xml.num = op.doc.num
    BY <2>2, <2>3, <2>4
  <2> QED
    BY <2>5, <2>6 DEF NumbersUnique
<1>4. CASE RenameFolder
  <2> DEFINE to == FolderName(op.doc)
             old == folder[op.at]
  <2>1. op # None /\ op.h = "update"
    BY <1>t, <1>4 DEF RenameFolder, At, TypeInv, OpShape
  <2>2. op.at \in Names /\ old # None /\ old.xml = op.doc /\ op.doc \in Docs
    BY <1>t, <1>4, <2>1, AtWork DEF OpDisk, RenameFolder, At
  <2>3. to \in Names
    BY <2>2 DEF FolderName, Names, Docs
  <2>4. folder' = IF to = op.at THEN folder
                  ELSE [folder EXCEPT ![to] = old, ![op.at] = None]
    BY <1>4 DEF RenameFolder
  <2> HIDE DEF to
  <2>5. \A m \in Names : folder'[m] = IF m = to THEN old
                                      ELSE IF m = op.at THEN None ELSE folder[m]
    BY <1>t, <2>2, <2>3, <2>4 DEF TypeInv, TypeOK
  <2>6. Valid(op.at)
    BY <2>2, NoneAssumption DEF Valid
  <2>7. \A m \in Names : Valid(m)' /\ m # to => m # op.at /\ Valid(m) /\ folder'[m] = folder[m]
    BY <2>5 DEF Valid
  <2>8. folder'[to] = folder[op.at]
    BY <2>3, <2>5
  <2> QED
    BY <2>2, <2>6, <2>7, <2>8 DEF NumbersUnique
<1> QED
  BY <1>1, <1>2, <1>3, <1>4

\* D23, whatever a reindex does beside the handlers: two active jumps come to
\* share a number only next to a folder whose name still carries the number a
\* stopped update_jump took from it.
THEOREM DuplicatesComeFromTornRenumber == Spec => DuplicatesNeedTornRenumber
<1>1. DiskInv /\ OpNumber /\ [Next]_vars => DiskInv' /\ OpNumber'
  BY DiskNext, NumberNext
<1>2. Init => DiskInv /\ OpNumber
  BY DiskInit DEF Init, OpNumber
<1>3. DiskInv /\ OpNumber /\ [Next]_vars =>
        [NumbersUnique /\ ~NumbersUnique' =>
           \E n \in Names : Valid(n) /\ folder[n].xml.num # n[1]]_vars
  BY DuplicateStep
<1> QED
  BY <1>1, <1>2, <1>3, PTL DEF Spec, DuplicatesNeedTornRenumber

=============================================================================
