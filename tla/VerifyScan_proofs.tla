-------------------------- MODULE VerifyScan_proofs -------------------------
(***************************************************************************)
(* Theorems about VerifyScan, for every set of ids, numbers, titles, files *)
(* and contents, any number of folders, of failures and of steps of others *)
(* within one walk.                                                        *)
(***************************************************************************)
EXTENDS VerifyScan, JumpStore_proofs

\* No file that both documents claim is given other bytes.
SameClaims(d, e) ==
    \A f \in Files : d.atts[f] # None /\ e.atts[f] # None => d.atts[f] = e.atts[f]

\* What a handler is about to write to the jump.xml of a folder that has one,
\* whose manifest was reconciled when it started.
OpPlan ==
    op # None /\ op.pc \in {"stream", "xml"} /\ Valid(op.at) =>
        /\ folder[op.at].sums = folder[op.at].xml
        /\ SameClaims(op.doc, folder[op.at].xml)

Inspecting == scan.pc \in {"stat", "hash", "expect", "orphans"}

\* The folders of jumps/ are not all inspected yet.
Early == scan.pc = "look" \/ Inspecting

\* Attachments are still to be checked.
Checking == scan.pc \in {"stat", "hash"}

ScanShape ==
    /\ Inspecting => scan.at \in Names /\ scan.doc \in Docs
    /\ Checking => scan.files \subseteq Claimed(scan.doc)
    /\ scan.pc = "hash" => scan.file \in Claimed(scan.doc)
    /\ scan.pc = "expect" => scan.sums \in Docs
    /\ scan.pc = "idle" => scan = WalkIdle

ScanInv == TypeInv /\ WalkTypeOK /\ ScanShape /\ OpPlan

-----------------------------------------------------------------------------
\* An issue that lasts and is not in the report: the walk has yet to come to it,
\* and will see it as it is.
Counted(n, j) == n \in scan.todo \/ <<n, j>> \in scan.nums

ToCome(k, n, x) ==
    /\ k = "invalid_folder" => Early /\ n \in scan.todo
    /\ k = "missing_attachment" =>
         Early /\ (n \in scan.todo \/ (Checking /\ n = scan.at /\ x \in scan.files))
    /\ k = "attachment_mismatch" =>
         Early /\ \/ n \in scan.todo
                  \/ /\ Checking /\ n = scan.at
                     /\ x \in scan.files \/ (scan.pc = "hash" /\ x = scan.file)
                     /\ folder[n].xml.atts[x] = scan.doc.atts[x]
    /\ k = "orphan_file" =>
         Early /\ (n \in scan.todo \/ (Inspecting /\ n = scan.at /\ scan.doc.atts[x] = None))
    /\ k = "stale_manifest" =>
         Early /\ \/ n \in scan.todo
                  \/ n = scan.at /\ Checking
                  \/ n = scan.at /\ scan.pc = "expect" /\ scan.sums = folder[n].sums
    /\ k = "duplicate_jump_number" =>
         Early /\ Counted(n, folder[n].xml.num) /\ Counted(x, folder[n].xml.num)
    /\ k = "dangling_reference" =>
         \/ Early /\ n \in scan.todo \cup scan.seen
         \/ scan.pc = "refs" /\ n \in scan.todo

Now == Truth(folder, trash, alive)

LastingInv ==
    /\ scan.lasting \subseteq Now
    /\ \A k \in Kinds, n \in Names \cup {None}, x \in Names \cup Files \cup {None} :
         <<k, n, x>> \in scan.lasting \ scan.report =>
            IF n = None THEN Early ELSE ToCome(k, n, x)

\* What the walk remembers is what there is.
Remembers ==
    /\ Early => \A n \in scan.todo : folder[n] # None
    /\ Inspecting => folder[scan.at] # None /\ folder[scan.at].xml = scan.doc
    /\ scan.pc = "expect" => folder[scan.at].sums = scan.sums
    /\ \A n \in Names, j \in Nums : <<n, j>> \in scan.nums =>
         Valid(n) /\ folder[n].xml.num = j
    /\ scan.pc = "refs" /\ scan.todo # {} => ~alive

CalmInv ==
    scan.calm /\ scan.pc \notin {"idle", "raised"} =>
        Now \subseteq scan.lasting /\ scan.report \subseteq Now /\ Remembers

-----------------------------------------------------------------------------
(* What the steps of others leave of a folder's jump.xml and SHA256SUMS.    *)

XmlStays ==
    \A n \in Names : Valid(n) /\ Valid(n)' =>
        /\ folder'[n].xml = folder[n].xml
        /\ folder'[n].sums \in {folder[n].sums, folder[n].xml}

LEMMA OneFolderStays ==
  ASSUME TypeInv, NEW n \in Names, NEW g, folder' = [folder EXCEPT ![n] = g],
         Valid(n) /\ g # None /\ g.xml # None =>
            g.xml = folder[n].xml /\ g.sums \in {folder[n].sums, folder[n].xml}
  PROVE  /\ XmlStays
         /\ \A m \in Names : folder'[m] = IF m = n THEN g ELSE folder[m]
<1>1. \A m \in Names : folder'[m] = IF m = n THEN g ELSE folder[m]
  BY DEF TypeInv, TypeOK
<1> QED
  BY <1>1 DEF XmlStays, Valid

LEMMA ReconciledStays ==
  ASSUME TypeInv, NEW n \in Names, Valid(n), folder' = Reconciled(n)
  PROVE  /\ XmlStays
         /\ Valid(n)' /\ folder'[n].xml = folder[n].xml /\ folder'[n].sums = folder[n].xml
<1> DEFINE g == [folder[n] EXCEPT !.sums = folder[n].xml]
<1>1. folder[n] # None /\ folder[n] \in Folders /\ folder[n].xml \in Docs
  BY FolderType DEF Valid
<1>2. g \in Folders /\ g.xml = folder[n].xml /\ g.sums = folder[n].xml
  BY <1>1 DEF Folders
<1>3. folder' = [folder EXCEPT ![n] = g]
  BY DEF Reconciled, TypeInv, TypeOK
<1> HIDE DEF g
<1> QED
  BY <1>1, <1>2, <1>3, OneFolderStays, NoneAssumption DEF Valid

LEMMA FilesOnly ==
  ASSUME TypeInv, NEW n \in Names, folder[n] # None, NEW f \in Files,
         NEW c \in Contents \cup {None}, folder' = [folder EXCEPT ![n].files[f] = c]
  PROVE  /\ XmlStays
         /\ \A m \in Names : /\ folder'[m] # None <=> folder[m] # None
                             /\ folder[m] # None => folder'[m].xml = folder[m].xml
         /\ folder' \in [Names -> Folders \cup {None}]
<1> DEFINE g == [folder[n] EXCEPT !.files[f] = c]
<1>1. folder[n] \in Folders /\ folder[n].files \in Parts
  BY FolderType
<1>2. g \in Folders /\ g.xml = folder[n].xml /\ g.sums = folder[n].sums
  BY <1>1 DEF Folders, Parts
<1>3. folder' = [folder EXCEPT ![n] = g]
  OBVIOUS
<1>4. folder' \in [Names -> Folders \cup {None}]
  BY <1>2, <1>3 DEF TypeInv, TypeOK
<1> HIDE DEF g
<1> QED
  BY <1>1, <1>2, <1>3, <1>4, OneFolderStays, NoneAssumption

LEMMA RequestStays ==
  ASSUME TypeInv, Request PROVE XmlStays
<1>1. ASSUME NEW i \in Ids, Opens(i), folder' = Reconciled(row[i].folder) PROVE XmlStays
  BY <1>1, OpensType, ReconciledStays DEF TypeInv
<1>2. ASSUME NEW i \in Ids, NEW n \in Names, NEW u \in Parts, CreateJump(i, n, u)
      PROVE  XmlStays
  BY <1>2, OneFolderStays DEF CreateJump, NumberIsTaken, Valid
<1>3. CASE folder' = folder
  BY <1>3 DEF XmlStays
<1> QED
  BY <1>1, <1>2, <1>3
  DEF Request, GetJump, TrackFiles, AddAttachments, DeleteAttachment, UpdateJump, DeleteJump

LEMMA HandlerStays ==
  ASSUME TypeInv, Handler, ~WriteJumpXml PROVE XmlStays
<1>1. CASE folder' = folder
  BY <1>1 DEF XmlStays
<1>2. ASSUME op # None PROVE op \in Ops /\ op.at \in Names /\ op.todo \in Parts
  BY <1>2 DEF TypeInv, TypeOK, Ops
<1>3. ASSUME NEW f \in Files, StreamUpload(f) PROVE XmlStays
  <2>1. op # None /\ op.h # "delete"
    BY <1>3 DEF StreamUpload, At, TypeInv, OpShape
  <2>2. op.todo[f] \in Contents \cup {None}
    BY <1>2, <2>1 DEF Parts
  <2> QED
    BY <1>2, <1>3, <2>1, <2>2, AtWork, FilesOnly DEF StreamUpload
<1>4. CASE UnlinkAttachment
  <2>1. op # None /\ op.h = "unattach" /\ op.del \in Files
    BY <1>4 DEF UnlinkAttachment, At, TypeInv, OpShape
  <2> QED
    BY <1>2, <1>4, <2>1, AtWork, FilesOnly DEF UnlinkAttachment
<1>5. CASE WriteManifest
  <2> DEFINE g == [folder[op.at] EXCEPT !.sums = folder[op.at].xml]
  <2>1. op # None /\ op.h # "delete"
    BY <1>5 DEF WriteManifest, At, TypeInv, OpShape
  <2>2. folder[op.at] \in Folders /\ op.at \in Names
    BY <2>1, AtWork
  <2>3. g.xml = folder[op.at].xml /\ g.sums = folder[op.at].xml
    BY <2>2 DEF Folders
  <2>4. folder' = [folder EXCEPT ![op.at] = g]
    BY <1>5 DEF WriteManifest
  <2> HIDE DEF g
  <2> QED
    BY <2>2, <2>3, <2>4, OneFolderStays
<1>6. CASE MoveToTrash
  <2>1. op.at \in Names /\ folder' = [folder EXCEPT ![op.at] = None]
    BY <1>2, <1>6 DEF MoveToTrash, At
  <2> QED
    BY <2>1, OneFolderStays
<1>7. CASE RenameFolder
  <2> DEFINE to == FolderName(op.doc)
  <2>1. op # None /\ op.h = "update"
    BY <1>7 DEF RenameFolder, At, TypeInv, OpShape
  <2>2. op.at \in Names /\ to \in Names
    BY <2>1, AtWork DEF FolderName, Docs, Names
  <2>3. CASE to = op.at
    BY <1>1, <1>7, <2>3 DEF RenameFolder
  <2>4. CASE to # op.at
    <3>1. /\ folder[to] \in {None, EmptyDir}
          /\ folder' = [folder EXCEPT ![to] = folder[op.at], ![op.at] = None]
      BY <1>7, <2>4 DEF RenameFolder
    <3>2. \A n \in Names : folder'[n] = IF n = op.at THEN None
                                        ELSE IF n = to THEN folder[op.at] ELSE folder[n]
      BY <2>2, <3>1 DEF TypeInv, TypeOK
    <3>3. ~Valid(to)
      BY <3>1 DEF Valid, EmptyDir
    <3> QED
      BY <2>2, <3>2, <3>3 DEF XmlStays, Valid
  <2> QED
    BY <2>3, <2>4
<1> QED
  BY <1>1, <1>3, <1>4, <1>5, <1>6, <1>7 DEF Handler, RenameRefused, CommitRow, RowConflict

\* A handler that starts on a jump it has opened.
LEMMA PlanBegun ==
  ASSUME TypeInv, NEW h \in Handlers, NEW pc \in Steps, NEW i \in Ids, NEW d \in Docs,
         NEW u \in Parts, NEW del \in Files \cup {None}, Opens(i), folder' = Reconciled(row[i].folder),
         op' = Started(h, pc, i, row[i].folder, d, u, del),
         SameClaims(d, folder[row[i].folder].xml)
  PROVE  OpPlan'
<1>1. row[i].folder \in Names /\ Valid(row[i].folder)
  BY OpensType DEF TypeInv
<1>2. /\ folder'[row[i].folder].xml = folder[row[i].folder].xml
      /\ folder'[row[i].folder].sums = folder[row[i].folder].xml
  BY <1>1, ReconciledStays
<1>3. op'.at = row[i].folder /\ op'.doc = d
  BY <1>1, StartedType
<1> QED
  BY <1>2, <1>3 DEF OpPlan, SameClaims

LEMMA PlanRequest ==
  ASSUME TypeInv, Request PROVE OpPlan'
<1>d. \A i \in Ids : Opens(i) => /\ folder[row[i].folder].xml \in Docs
                                 /\ folder[row[i].folder].xml.atts \in Parts
                                 /\ folder[row[i].folder].files \in Parts
                                 /\ row[i].folder \in Names
  BY OpensType, ReconciledType DEF TypeInv
<1>1. ASSUME NEW i \in Ids, GetJump(i) \/ DeleteJump(i) PROVE OpPlan'
  BY <1>1 DEF GetJump, DeleteJump, MayStart, Started, OpPlan
<1>2. ASSUME NEW i \in Ids, NEW n \in Names, NEW u \in Parts, CreateJump(i, n, u)
      PROVE  OpPlan'
  <2>1. op'.at = n /\ folder'[n] = EmptyDir
    BY <1>2 DEF CreateJump, Started, TypeInv, TypeOK
  <2> QED
    BY <2>1 DEF OpPlan, Valid, EmptyDir
<1>3. ASSUME NEW i \in Ids, NEW names \in SUBSET Files, TrackFiles(i, names)
      PROVE  OpPlan'
  <2> DEFINE at == row[i].folder
             d  == folder[at].xml
             atts == [f \in Files |-> IF f \in {g \in names : d.atts[g] = None}
                                      THEN folder[at].files[f] ELSE d.atts[f]]
             doc == [d EXCEPT !.atts = atts]
  <2>1. op' = Started("track", "xml", i, at, doc, NoParts, None)
    BY <1>3 DEF TrackFiles
  <2>2. /\ Opens(i) /\ folder' = Reconciled(at)
        /\ \A f \in {g \in names : d.atts[g] = None} : folder[at].files[f] # None
    BY <1>3 DEF TrackFiles
  <2>3. d \in Docs /\ d.atts \in Parts /\ folder[at].files \in Parts
    BY <1>d, <2>2
  <2>4. atts \in Parts /\ \A f \in Files : d.atts[f] # None => atts[f] = d.atts[f]
    BY <2>3 DEF Parts
  <2> HIDE DEF atts
  <2>5. doc \in Docs /\ doc.atts = atts
    BY <2>3, <2>4 DEF Docs
  <2>6. SameClaims(doc, d)
    BY <2>4, <2>5 DEF SameClaims
  <2> HIDE DEF doc
  <2> QED
    BY <2>1, <2>2, <2>5, <2>6, PlanBegun, NoPartsType DEF Handlers, Steps
<1>4. ASSUME NEW i \in Ids, NEW u \in Parts, AddAttachments(i, u)
      PROVE  OpPlan'
  <2> DEFINE at == row[i].folder
             d  == folder[at].xml
             atts == [f \in Files |-> IF u[f] # None THEN u[f] ELSE d.atts[f]]
             doc == [d EXCEPT !.atts = atts]
  <2>1. op' = Started("add", "stream", i, at, doc, u, None)
    BY <1>4 DEF AddAttachments
  <2>2. /\ Opens(i) /\ folder' = Reconciled(at)
        /\ \A f \in Files : u[f] # None => d.atts[f] = None
    BY <1>4 DEF AddAttachments
  <2>3. d \in Docs /\ d.atts \in Parts
    BY <1>d, <2>2
  <2>4. atts \in Parts /\ \A f \in Files : d.atts[f] # None => atts[f] = d.atts[f]
    BY <2>2, <2>3 DEF Parts
  <2> HIDE DEF atts
  <2>5. doc \in Docs /\ doc.atts = atts
    BY <2>3, <2>4 DEF Docs
  <2>6. SameClaims(doc, d)
    BY <2>4, <2>5 DEF SameClaims
  <2> HIDE DEF doc
  <2> QED
    BY <2>1, <2>2, <2>5, <2>6, PlanBegun DEF Handlers, Steps
<1>5. ASSUME NEW i \in Ids, NEW f \in Files, DeleteAttachment(i, f)
      PROVE  OpPlan'
  <2> DEFINE at == row[i].folder
             d  == folder[at].xml
             doc == [d EXCEPT !.atts[f] = None]
  <2>1. op' = Started("unattach", "xml", i, at, doc, NoParts, f)
    BY <1>5 DEF DeleteAttachment
  <2>2. Opens(i) /\ folder' = Reconciled(at)
    BY <1>5 DEF DeleteAttachment
  <2>3. d \in Docs /\ d.atts \in Parts
    BY <1>d, <2>2
  <2>5. doc \in Docs /\ \A g \in Files : doc.atts[g] # None => doc.atts[g] = d.atts[g]
    BY <2>3 DEF Docs, Parts
  <2>6. SameClaims(doc, d)
    BY <2>5 DEF SameClaims
  <2> HIDE DEF doc
  <2> QED
    BY <2>1, <2>2, <2>5, <2>6, PlanBegun, NoPartsType DEF Handlers, Steps
<1>6. ASSUME NEW i \in Ids, NEW n \in Names, UpdateJump(i, n)
      PROVE  OpPlan'
  <2> DEFINE at == row[i].folder
             d  == folder[at].xml
             doc == [d EXCEPT !.num = n[1], !.title = n[2]]
  <2>1. op' = Started("update", "xml", i, at, doc, NoParts, None)
    BY <1>6 DEF UpdateJump
  <2>2. Opens(i) /\ folder' = Reconciled(at)
    BY <1>6 DEF UpdateJump
  <2>3. d \in Docs
    BY <1>d, <2>2
  <2>5. doc \in Docs /\ doc.atts = d.atts
    BY <2>3 DEF Docs, Names
  <2>6. SameClaims(doc, d)
    BY <2>5 DEF SameClaims
  <2> HIDE DEF doc
  <2> QED
    BY <2>1, <2>2, <2>5, <2>6, PlanBegun, NoPartsType DEF Handlers, Steps
<1> QED
  BY <1>1, <1>2, <1>3, <1>4, <1>5, <1>6 DEF Request

\* A handler that has not come to jump.xml yet.
LEMMA PlanKept ==
  ASSUME OpPlan, XmlStays, op # None => op.at \in Names, op' # None => op # None,
         op' # None => op'.at = op.at /\ op'.doc = op.doc /\ op'.pc = op.pc,
         \A n \in Names : Valid(n)' => Valid(n)
  PROVE  OpPlan'
  BY DEF OpPlan, XmlStays, SameClaims

LEMMA PlanHandler ==
  ASSUME TypeInv, OpPlan, Handler PROVE OpPlan'
<1>1. ASSUME NEW f \in Files, StreamUpload(f) PROVE OpPlan'
  <2>1. op # None /\ op.h # "delete" /\ op.pc = "stream"
    BY <1>1 DEF StreamUpload, At, TypeInv, OpShape
  <2>2. op \in Ops /\ op.at \in Names /\ op.todo \in Parts /\ folder[op.at] # None
    BY <2>1, AtWork
  <2>3. /\ op' = [op EXCEPT !.todo[f] = None]
        /\ folder' = [folder EXCEPT ![op.at].files[f] = op.todo[f]]
    BY <1>1 DEF StreamUpload
  <2>4. op'.at = op.at /\ op'.doc = op.doc /\ op'.pc = op.pc
    BY <2>2, <2>3 DEF Ops
  <2>5. op.todo[f] \in Contents \cup {None}
    BY <2>2 DEF Parts
  <2>6. XmlStays /\ \A n \in Names : Valid(n)' => Valid(n)
    BY <2>2, <2>3, <2>5, FilesOnly DEF Valid
  <2> QED
    BY <2>1, <2>2, <2>4, <2>6, PlanKept
<1>2. ASSUME NEW pc \in Steps \ {"stream", "xml"}, NEW n \in Names,
             op # None, op' = [op EXCEPT !.pc = pc, !.at = n]
      PROVE  OpPlan'
  BY <1>2 DEF OpPlan, TypeInv, TypeOK, Ops
<1>3. ASSUME NEW pc \in Steps \ {"stream", "xml"}, op # None, op' = [op EXCEPT !.pc = pc]
      PROVE  OpPlan'
  BY <1>3 DEF OpPlan, TypeInv, TypeOK, Ops
<1>4. CASE op' = None
  BY <1>4 DEF OpPlan
<1>5. AfterSums \in Steps \ {"stream", "xml"}
  BY DEF AfterSums, Steps
<1>6. CASE WriteJumpXml
  BY <1>3, <1>6 DEF WriteJumpXml, At, Streamed, Steps
<1>7. CASE WriteManifest
  BY <1>3, <1>5, <1>7 DEF WriteManifest, At
<1>8. CASE UnlinkAttachment \/ MoveToTrash
  BY <1>3, <1>8 DEF UnlinkAttachment, MoveToTrash, At, Steps
<1>9. CASE RenameFolder
  <2>1. op # None /\ op.h = "update"
    BY <1>9 DEF RenameFolder, At, TypeInv, OpShape
  <2>2. FolderName(op.doc) \in Names
    BY <2>1, AtWork DEF FolderName, Docs, Names
  <2> QED
    BY <1>2, <1>9, <2>1, <2>2 DEF RenameFolder, Steps
<1> QED
  BY <1>1, <1>4, <1>6, <1>7, <1>8, <1>9 DEF Handler, RenameRefused, CommitRow, RowConflict

-----------------------------------------------------------------------------
(* What the steps of others leave of an issue.                              *)

IssuesStay ==
    /\ trash \subseteq trash'
    /\ alive' => alive
    /\ \A n \in Names : Valid(n) /\ Valid(n)' =>
         /\ SameClaims(folder'[n].xml, folder[n].xml)
         /\ folder[n].sums # folder[n].xml /\ folder'[n].sums # folder'[n].xml
              => folder'[n].sums = folder[n].sums
    /\ \A m, n \in Names : /\ m # n
                           /\ Valid(m) /\ Valid(n) /\ folder[m].xml.num = folder[n].xml.num
                           /\ Valid(m)' /\ Valid(n)' /\ folder'[m].xml.num = folder'[n].xml.num
         => folder'[n].xml.num = folder[n].xml.num

LEMMA DecayTypes ==
  ASSUME TypeInv, NEW n \in Names, NEW f \in Files, NEW c \in Contents \cup {None},
         Decay(n, f, c)
  PROVE  /\ TypeInv' /\ XmlStays
         /\ \A m \in Names : Valid(m)' => Valid(m)
<1>1. /\ folder[n] # None /\ folder' = [folder EXCEPT ![n].files[f] = c]
      /\ faults < MaxFaults /\ faults' = faults + 1
      /\ UNCHANGED <<trash, row, op, rx>>
  BY DEF Decay
<1>2. /\ XmlStays
      /\ \A m \in Names : /\ folder'[m] # None <=> folder[m] # None
                          /\ folder[m] # None => folder'[m].xml = folder[m].xml
      /\ folder' \in [Names -> Folders \cup {None}]
  BY <1>1, FilesOnly
<1>3. TypeOK'
  BY <1>1, <1>2, FaultsAssumption DEF TypeInv, TypeOK
<1>4. op # None => op.at \in Names
  BY DEF TypeInv, TypeOK, Ops
<1>5. OpShape' /\ RxShape'
  BY <1>1, <1>2, <1>4 DEF TypeInv, OpShape, RxShape
<1> QED
  BY <1>2, <1>3, <1>5 DEF TypeInv, Valid

LEMMA XmlWritten ==
  ASSUME TypeInv, OpPlan, WriteJumpXml, UNCHANGED alive PROVE IssuesStay
<1> DEFINE g == [folder[op.at] EXCEPT !.xml = op.doc]
<1>1. op # None /\ op.h # "delete" /\ op.pc \in {"stream", "xml"}
  BY DEF WriteJumpXml, Streamed, At, TypeInv, OpShape
<1>2. op.at \in Names /\ op.doc \in Docs /\ folder[op.at] \in Folders /\ folder[op.at] # None
  BY <1>1, AtWork
<1>3. g.xml = op.doc /\ g.sums = folder[op.at].sums
  BY <1>2 DEF Folders
<1>4. folder' = [folder EXCEPT ![op.at] = g] /\ trash' = trash /\ alive' = alive
  BY DEF WriteJumpXml
<1> HIDE DEF g
<1>5. \A n \in Names : folder'[n] = IF n = op.at THEN g ELSE folder[n]
  BY <1>4 DEF TypeInv, TypeOK
<1>6. Valid(op.at) => /\ folder[op.at].sums = folder[op.at].xml
                      /\ SameClaims(op.doc, folder[op.at].xml)
  BY <1>1 DEF OpPlan
<1> QED
  BY <1>2, <1>3, <1>4, <1>5, <1>6 DEF IssuesStay, Valid, SameClaims

LEMMA OthersStay ==
  ASSUME TypeInv, OpPlan, Others PROVE TypeInv' /\ OpPlan' /\ IssuesStay
<1>1. ASSUME XmlStays, trash \subseteq trash', alive' => alive PROVE IssuesStay
  BY <1>1 DEF IssuesStay, XmlStays, SameClaims
<1>2. CASE Request /\ UNCHANGED alive
  <2>1. trash' = trash
    BY <1>2 DEF Request, GetJump, CreateJump, TrackFiles, AddAttachments,
                DeleteAttachment, UpdateJump, DeleteJump
  <2> QED
    BY <1>1, <1>2, <2>1, TypeRequest, PlanRequest, RequestStays
<1>3. CASE Handler /\ UNCHANGED alive
  <2>1. trash \subseteq trash'
    BY <1>3 DEF Handler, StreamUpload, WriteJumpXml, WriteManifest, RenameFolder,
                RenameRefused, UnlinkAttachment, MoveToTrash, CommitRow, RowConflict
  <2> QED
    BY <1>1, <1>3, <2>1, TypeHandler, PlanHandler, HandlerStays, XmlWritten
<1>4. CASE (HandlerFails \/ Crash) /\ UNCHANGED alive
  <2>1. folder' = folder /\ trash' = trash /\ op' = None
    BY <1>4 DEF HandlerFails, Crash
  <2>2. TypeInv'
    BY <1>4, TypeEnvironment DEF Environment
  <2> QED
    BY <1>1, <1>4, <2>1, <2>2 DEF XmlStays, OpPlan
<1>5. ASSUME NEW n \in Names, NEW f \in Files, NEW c \in Contents \cup {None}, Decay(n, f, c)
      PROVE  TypeInv' /\ OpPlan' /\ IssuesStay
  <2>1. trash' = trash /\ alive' = alive /\ op' = op
    BY <1>5 DEF Decay
  <2>2. TypeInv' /\ XmlStays /\ \A m \in Names : Valid(m)' => Valid(m)
    BY <1>5, DecayTypes
  <2>3. op # None => op.at \in Names
    BY DEF TypeInv, TypeOK, Ops
  <2> QED
    BY <1>1, <2>1, <2>2, <2>3, PlanKept
<1>6. CASE DropzoneDeleted
  <2>1. vars' = vars /\ alive
    BY <1>6 DEF DropzoneDeleted
  <2>2. TypeInv'
    BY <2>1 DEF TypeInv, TypeOK, OpShape, RxShape, vars
  <2> QED
    BY <1>1, <2>1, <2>2 DEF OpPlan, XmlStays, Valid, vars
<1> QED
  BY <1>2, <1>3, <1>4, <1>5, <1>6 DEF Others

-----------------------------------------------------------------------------
(* The types of the walk.                                                   *)

LEMMA ValidType ==
  ASSUME TypeInv, NEW n \in Names, Valid(n)
  PROVE  /\ folder[n] \in Folders /\ folder[n].xml \in Docs /\ folder[n].xml # None
         /\ folder[n].xml.num \in Nums
         /\ Claimed(folder[n].xml) \subseteq Files
  BY FolderType DEF Valid, Docs, Claimed

LEMMA FirstType ==
  ASSUME WalkTypeOK, scan.todo # {} PROVE First \in scan.todo /\ First \in Names
  BY DEF First, WalkTypeOK, Scans

LEMMA IssueType ==
  ASSUME NEW k \in Kinds, NEW n \in Names \cup {None}, NEW x \in Names \cup Files \cup {None}
  PROVE  <<k, n, x>> \in Issues
  BY DEF Issues

LEMMA WalkIdleType == WalkIdle \in Scans
  BY RacesAssumption DEF WalkIdle, Scans, WalkSteps

LEMMA NowType == Now \subseteq Issues
  BY DEF Now, Truth

LEMMA ScanInit ==
  ASSUME WalkInit PROVE ScanInv
<1>1. TypeInv
  BY TypeInit DEF WalkInit
<1>2. scan = WalkIdle /\ alive = TRUE /\ op = None
  BY DEF WalkInit, Init
<1>3. ScanShape
  BY <1>2 DEF ScanShape, WalkIdle, Inspecting, Checking
<1> QED
  BY <1>1, <1>2, <1>3, WalkIdleType DEF ScanInv, WalkTypeOK, TypeInv, OpPlan

LEMMA ScanWatch ==
  ASSUME ScanInv, Watch, trash \subseteq trash' PROVE scan' \in Scans /\ ScanShape'
<1>1. CASE UNCHANGED scan
  BY <1>1 DEF ScanInv, WalkTypeOK, ScanShape, Inspecting, Checking
<1>2. CASE ~UNCHANGED scan
  <2>1. /\ scan.races < MaxRaces /\ Walking
        /\ scan' = [scan EXCEPT !.races = @ + 1,
                       !.calm = @ /\ UNCHANGED <<folder, trash, alive>>,
                       !.lasting = @ \cap Truth(folder', trash', alive')]
    BY <1>2 DEF Watch
  <2>2. scan \in Scans /\ ScanShape
    BY DEF ScanInv, WalkTypeOK
  <2> DEFINE c == scan.calm /\ UNCHANGED <<folder, trash, alive>>
             l == scan.lasting \cap Truth(folder', trash', alive')
  <2>6. c \in BOOLEAN /\ scan.races + 1 \in 0..MaxRaces /\ l \in SUBSET Issues
    BY <2>1, <2>2, RacesAssumption DEF Scans
  <2>7. scan' = [scan EXCEPT !.races = scan.races + 1, !.calm = c, !.lasting = l]
    BY <2>1
  <2> HIDE DEF c, l
  <2>3. scan' \in Scans
    BY <2>2, <2>6, <2>7 DEF Scans
  <2>4. /\ scan'.pc = scan.pc /\ scan'.at = scan.at /\ scan'.doc = scan.doc
        /\ scan'.files = scan.files /\ scan'.file = scan.file /\ scan'.sums = scan.sums
    BY <2>2, <2>7 DEF Scans
  <2>5. scan.pc # "idle"
    BY <2>1 DEF Walking
  <2> QED
    BY <2>2, <2>3, <2>4, <2>5 DEF ScanShape, Inspecting, Checking, Claimed
<1> QED
  BY <1>1, <1>2

LEMMA ScanStep ==
  ASSUME ScanInv, Step, UNCHANGED <<vars, alive>> PROVE scan' \in Scans /\ ScanShape'
<1>s. scan \in Scans /\ ScanShape /\ TypeInv /\ WalkTypeOK
  BY DEF ScanInv, WalkTypeOK
<1>r. ASSUME NEW k \in Kinds, NEW n \in Names \cup {None}, NEW x \in Names \cup Files \cup {None}
      PROVE  Report(k, n, x) \in SUBSET Issues
  BY <1>s, IssueType DEF Report, Scans
<1>k. /\ {"missing_attachment", "attachment_mismatch", "orphan_file", "invalid_folder",
          "stale_manifest", "duplicate_jump_number", "dangling_reference"} = Kinds
  BY DEF Kinds, FileKinds
<1>i. scan' = WalkIdle => scan' \in Scans /\ ScanShape'
  BY WalkIdleType DEF ScanShape, WalkIdle, Inspecting, Checking
<1> USE DEF ScanShape, Inspecting, Checking
<1>1. CASE WalkStarts
  <2>1. scan' = [WalkIdle EXCEPT !.pc = "look", !.todo = Active, !.lasting = Now]
    BY <1>1 DEF WalkStarts, Now
  <2>2. Active \in SUBSET Names /\ Now \in SUBSET Issues
    BY NowType DEF Active
  <2> QED
    BY <2>1, <2>2, WalkIdleType DEF Scans, WalkSteps
<1>2. ASSUME NEW n \in Names, Look(n) PROVE scan' \in Scans /\ ScanShape'
  <2>1. CASE Valid(n)
    <3>1. scan' = [scan EXCEPT !.todo = @ \ {n}, !.seen = @ \cup {n}, !.at = n,
                                 !.doc = folder[n].xml, !.pc = "stat",
                                 !.files = Claimed(folder[n].xml),
                                 !.nums = @ \cup {<<n, folder[n].xml.num>>}]
      BY <1>2, <2>1 DEF Look
    <3>2. /\ folder[n].xml \in Docs /\ folder[n].xml.num \in Nums
          /\ Claimed(folder[n].xml) \subseteq Files
      BY <1>s, <2>1, ValidType
    <3> DEFINE claimed == Claimed(folder[n].xml)
               nums == scan.nums \cup {<<n, folder[n].xml.num>>}
    <3>3. claimed \in SUBSET Files /\ nums \in SUBSET (Names \X Nums)
      BY <1>s, <3>2 DEF Scans
    <3>4. scan' = [scan EXCEPT !.todo = scan.todo \ {n}, !.seen = scan.seen \cup {n}, !.at = n,
                                 !.doc = folder[n].xml, !.pc = "stat",
                                 !.files = claimed, !.nums = nums]
      BY <3>1
    <3>5. claimed = Claimed(folder[n].xml)
      OBVIOUS
    <3> HIDE DEF claimed, nums
    <3>6. scan' \in Scans
      BY <1>s, <3>2, <3>3, <3>4 DEF Scans, WalkSteps
    <3>7. /\ scan'.pc = "stat" /\ scan'.at = n /\ scan'.doc = folder[n].xml
          /\ scan'.files = claimed
      BY <1>s, <3>4 DEF Scans
    <3> QED
      BY <3>2, <3>5, <3>6, <3>7 DEF Claimed
  <2>2. CASE ~Valid(n)
    <3>1. scan' = [scan EXCEPT !.todo = @ \ {n}, !.seen = @ \cup {n},
                                 !.report = Report("invalid_folder", n, None)]
      BY <1>2, <2>2 DEF Look
    <3>2. Report("invalid_folder", n, None) \in SUBSET Issues /\ scan.pc = "look"
      BY <1>2, <1>r, <1>k DEF Look
    <3> QED
      BY <1>s, <3>1, <3>2 DEF Scans, WalkSteps
  <2> QED
    BY <2>1, <2>2
<1>3. ASSUME NEW f \in Files, Stat(f) PROVE scan' \in Scans /\ ScanShape'
  <2>1. scan.pc = "stat" /\ f \in scan.files /\ scan.at \in Names
    BY <1>s, <1>3 DEF Stat
  <2>2. Report("missing_attachment", scan.at, f) \in SUBSET Issues
    BY <1>r, <1>k, <2>1
  <2> QED
    BY <1>s, <1>3, <2>1, <2>2 DEF Stat, Scans, WalkSteps
<1>4. CASE Hash
  <2>1. scan.pc = "hash" /\ scan.file \in Files /\ scan.at \in Names
    BY <1>s, <1>4 DEF Hash, Claimed
  <2>2. Report("attachment_mismatch", scan.at, scan.file) \in SUBSET Issues
    BY <1>r, <1>k, <2>1
  <2>3. CASE scan' = [scan EXCEPT !.pc = "stat", !.file = None,
                       !.report = IF folder[scan.at].files[scan.file] = scan.doc.atts[scan.file]
                                  THEN @ ELSE Report("attachment_mismatch", scan.at, scan.file)]
    BY <1>s, <2>1, <2>2, <2>3 DEF Scans, WalkSteps
  <2>4. CASE Raise
    BY <2>4, WalkIdleType DEF Raise, Scans, WalkSteps
  <2> QED
    BY <1>4, <2>3, <2>4 DEF Hash
<1>5. CASE ReadSums
  <2>1. scan.pc = "stat" /\ scan.at \in Names
    BY <1>s, <1>5 DEF ReadSums
  <2>2. Report("stale_manifest", scan.at, None) \in SUBSET Issues
    BY <1>r, <1>k, <2>1
  <2>3. folder[scan.at] = None \/ folder[scan.at].sums \in Docs \cup {None}
    BY <1>s, <2>1, FolderType DEF Folders
  <2> QED
    BY <1>s, <1>5, <2>1, <2>2, <2>3 DEF ReadSums, Scans, WalkSteps
<1>6. CASE Expect
  <2>1. scan.pc = "expect" /\ scan.at \in Names
    BY <1>s, <1>6 DEF Expect
  <2>2. Report("stale_manifest", scan.at, None) \in SUBSET Issues
    BY <1>r, <1>k, <2>1
  <2>3. CASE scan' = [scan EXCEPT !.pc = "orphans", !.sums = None,
                       !.report = IF folder[scan.at].xml = scan.sums
                                  THEN @ ELSE Report("stale_manifest", scan.at, None)]
    BY <1>s, <2>1, <2>2, <2>3 DEF Scans, WalkSteps
  <2>4. CASE Raise
    BY <2>4, WalkIdleType DEF Raise, Scans, WalkSteps
  <2> QED
    BY <1>6, <2>3, <2>4 DEF Expect
<1>7. CASE Orphans
  <2> DEFINE found == {i \in {"orphan_file"} \X {scan.at} \X Files : Orphan(i[3])}
  <2>1. scan.at \in Names
    BY <1>s, <1>7 DEF Orphans
  <2>2. found \subseteq Issues
    BY <1>k, <2>1 DEF Issues
  <2>3. scan' = [scan EXCEPT !.pc = "look", !.at = None, !.doc = None, !.report = @ \cup found]
    BY <1>7 DEF Orphans
  <2> HIDE DEF found
  <2> QED
    BY <1>s, <2>2, <2>3 DEF Scans, WalkSteps
<1>8. CASE Trash
  <2> DEFINE found == Trashed \cup Duplicated
             todo  == IF Resolves THEN {} ELSE scan.seen
  <2>1. found \subseteq Issues
    BY <1>k DEF Trashed, Duplicated, Issues
  <2>2. todo \subseteq Names
    BY <1>s DEF Scans
  <2>3. scan' = [scan EXCEPT !.pc = "refs", !.nums = {}, !.seen = {}, !.todo = todo,
                             !.report = @ \cup found]
    BY <1>8 DEF Trash
  <2> HIDE DEF found, todo
  <2> QED
    BY <1>s, <2>1, <2>2, <2>3 DEF Scans, WalkSteps
<1>9. ASSUME NEW n \in Names, References(n) PROVE scan' \in Scans /\ ScanShape'
  <2>1. Report("dangling_reference", n, None) \in SUBSET Issues
    BY <1>r, <1>k
  <2> QED
    BY <1>s, <1>9, <2>1 DEF References, Scans, WalkSteps
<1>10. CASE Report200
  <2>1. 0 \in 0..MaxRaces
    BY RacesAssumption
  <2>2. scan' = [scan EXCEPT !.pc = "done", !.races = 0]
    BY <1>10 DEF Report200
  <2>3. scan' \in Scans
    BY <1>s, <2>1, <2>2 DEF Scans, WalkSteps
  <2>4. scan'.pc = "done"
    BY <1>s, <2>2 DEF Scans
  <2> QED
    BY <2>3, <2>4
<1>11. CASE WalkEnds
  BY <1>i, <1>11 DEF WalkEnds
<1> QED
  BY <1>1, <1>2, <1>3, <1>4, <1>5, <1>6, <1>7, <1>8, <1>9, <1>10, <1>11 DEF Step

LEMMA ScanNext ==
  ASSUME ScanInv, [WalkNext]_<<vars, scan, alive>>
  PROVE  ScanInv' /\ (Others => IssuesStay)
<1>s. TypeInv /\ OpPlan /\ alive \in BOOLEAN /\ scan \in Scans
  BY DEF ScanInv, WalkTypeOK
<1>u. ASSUME UNCHANGED <<vars, alive>> PROVE TypeInv' /\ OpPlan' /\ alive' \in BOOLEAN
  <2>1. /\ folder' = folder /\ trash' = trash /\ row' = row /\ op' = op /\ rx' = rx
        /\ faults' = faults /\ alive' = alive
    BY <1>u DEF vars
  <2>2. TypeInv'
    BY <1>s, <2>1 DEF TypeInv, TypeOK, OpShape, RxShape
  <2> QED
    BY <1>s, <2>1, <2>2 DEF OpPlan, Valid, SameClaims
<1>4. Others => IssuesStay
  BY <1>s, OthersStay
<1>1. ASSUME Step, UNCHANGED <<vars, alive>> PROVE ScanInv'
  <2>1. TypeInv' /\ OpPlan' /\ alive' \in BOOLEAN
    BY <1>1, <1>u
  <2>2. scan' \in Scans /\ ScanShape'
    BY <1>1, ScanStep
  <2> QED
    BY <2>1, <2>2 DEF ScanInv, WalkTypeOK, TypeInv
<1>2. ASSUME Others, Watch PROVE ScanInv'
  <2>1. TypeInv' /\ OpPlan' /\ IssuesStay
    BY <1>s, <1>2, OthersStay
  <2>2. alive' \in BOOLEAN
    BY <1>s, <1>2 DEF Others, Decay, DropzoneDeleted
  <2> QED
    BY <1>2, <2>1, <2>2, ScanWatch DEF IssuesStay, ScanInv, WalkTypeOK, TypeInv
<1>3. ASSUME UNCHANGED <<vars, scan, alive>> PROVE ScanInv'
  <2>1. TypeInv' /\ OpPlan' /\ alive' \in BOOLEAN
    BY <1>3, <1>u
  <2>2. ScanShape'
    BY <1>3 DEF ScanInv, ScanShape, Inspecting, Checking, Claimed
  <2> QED
    BY <1>s, <1>3, <2>1, <2>2 DEF ScanInv, WalkTypeOK, TypeInv
<1> QED
  BY <1>1, <1>2, <1>3, <1>4 DEF WalkNext

-----------------------------------------------------------------------------
(* What lasts is reported.                                                  *)

\* What an issue of an active folder means.
Means(k, n, x) ==
    /\ folder[n] # None
    /\ k = "invalid_folder" => folder[n].xml = None /\ x = None
    /\ k # "invalid_folder" => Valid(n)
    /\ k = "missing_attachment" => x \in Claimed(folder[n].xml) /\ folder[n].files[x] = None
    /\ k = "attachment_mismatch" => /\ x \in Claimed(folder[n].xml)
                                    /\ folder[n].files[x] \notin {None, folder[n].xml.atts[x]}
    /\ k = "orphan_file" => /\ x \in Files \ Claimed(folder[n].xml)
                            /\ folder[n].files[x] # None
    /\ k = "stale_manifest" => x = None /\ folder[n].sums # folder[n].xml
    /\ k = "duplicate_jump_number" =>
         x \in Names \ {n} /\ Valid(x) /\ folder[x].xml.num = folder[n].xml.num
    /\ k = "dangling_reference" => x = None /\ ~alive

LEMMA IssueMeans ==
  ASSUME NEW k \in Kinds, NEW n, NEW x
  PROVE  Means(k, n, x) <=> folder[n] # None /\ IssueIn(folder, alive, k, n, x)
  BY DEF Means, IssueIn, FolderIssue, Valid, Kinds, FileKinds

LEMMA NowMeans ==
  ASSUME NEW k, NEW n, NEW x
  PROVE  <<k, n, x>> \in Now <=>
            /\ k \in Kinds /\ n \in Names \cup {None} /\ x \in Names \cup Files \cup {None}
            /\ IF n = None THEN \E t \in trash : FolderIssue(t, k, x)
               ELSE Means(k, n, x)
  BY IssueMeans DEF Now, Truth, Issues

\* The same of the next state.
LEMMA NextMeans ==
  ASSUME NEW k, NEW n \in Names, NEW x, <<k, n, x>> \in Now'
  PROVE  Means(k, n, x)'
<1>1. k \in Kinds /\ folder'[n] # None /\ IssueIn(folder', alive', k, n, x)
  BY NoneAssumption DEF Now, Truth, Issues
<1> QED
  BY <1>1 DEF Means, IssueIn, FolderIssue, Valid, Kinds, FileKinds

Pending(k, n, x) == IF n = None THEN Early ELSE ToCome(k, n, x)

\* The walk itself takes nothing from the report, and what lasts stays.
LEMMA LastingKept ==
  ASSUME LastingInv, UNCHANGED <<vars, alive>>, scan'.lasting = scan.lasting,
         scan.report \subseteq scan'.report,
         \A k \in Kinds, n \in Names \cup {None}, x \in Names \cup Files \cup {None} :
           <<k, n, x>> \in Now \ scan'.report /\ Pending(k, n, x) => Pending(k, n, x)'
  PROVE  LastingInv'
<1>1. Now' = Now
  BY DEF Now, vars
<1> QED
  BY <1>1 DEF LastingInv, Pending

LEMMA LastingStarts ==
  ASSUME ScanInv, WalkStarts, UNCHANGED <<vars, alive>> PROVE LastingInv'
<1>1. /\ scan'.pc = "look" /\ scan'.todo = Active /\ scan'.lasting = Now
      /\ scan'.report = {} /\ Now' = Now /\ folder' = folder
  BY DEF WalkStarts, WalkIdle, Now, vars
<1>2. ASSUME NEW k \in Kinds, NEW n \in Names \cup {None}, NEW x \in Names \cup Files \cup {None},
             <<k, n, x>> \in Now
      PROVE  Pending(k, n, x)'
  <2>1. n # None => n \in Active /\ Means(k, n, x)
    BY <1>2, NowMeans DEF Means, Active
  <2>2. n # None /\ k = "duplicate_jump_number" => x \in Active
    BY <2>1 DEF Means, Active, Valid
  <2> QED
    BY <1>1, <2>1, <2>2 DEF Pending, ToCome, Early, Counted
<1> QED
  BY <1>1, <1>2 DEF LastingInv, Pending

LEMMA LastingLook ==
  ASSUME ScanInv, LastingInv, NEW m \in Names, Look(m), UNCHANGED <<vars, alive>>
  PROVE  LastingInv'
<1>s. scan \in Scans
  BY DEF ScanInv, WalkTypeOK
<1>f. folder' = folder /\ scan.pc = "look"
  BY DEF vars, Look
<1>1. CASE Valid(m)
  <2>1. scan' = [scan EXCEPT !.todo = @ \ {m}, !.seen = @ \cup {m}, !.at = m,
                                 !.doc = folder[m].xml, !.pc = "stat",
                                 !.files = Claimed(folder[m].xml),
                                 !.nums = @ \cup {<<m, folder[m].xml.num>>}]
    BY <1>1 DEF Look
  <2>2. /\ scan'.todo = scan.todo \ {m} /\ scan'.seen = scan.seen \cup {m} /\ scan'.at = m
        /\ scan'.doc = folder[m].xml /\ scan'.pc = "stat"
        /\ scan'.files = Claimed(folder[m].xml)
        /\ scan'.nums = scan.nums \cup {<<m, folder[m].xml.num>>}
        /\ scan'.report = scan.report /\ scan'.lasting = scan.lasting
    BY <1>s, <2>1 DEF Scans
  <2>3. ASSUME NEW k \in Kinds, NEW n \in Names \cup {None},
               NEW x \in Names \cup Files \cup {None},
               <<k, n, x>> \in Now \ scan'.report, Pending(k, n, x)
        PROVE  Pending(k, n, x)'
    <3>1. n # None => Means(k, n, x) /\ ToCome(k, n, x)
      BY <2>3, NowMeans DEF Pending
    <3>2. n # None /\ k = "invalid_folder" => n # m
      BY <1>1, <3>1 DEF Means, Valid
    <3> QED
      BY <1>f, <1>1, <2>2, <3>1, <3>2
      DEF Pending, ToCome, Means, Early, Inspecting, Checking, Counted, Claimed
  <2> QED
    BY <2>2, <2>3, LastingKept
<1>2. CASE ~Valid(m)
  <2>1. scan' = [scan EXCEPT !.todo = @ \ {m}, !.seen = @ \cup {m},
                                 !.report = Report("invalid_folder", m, None)]
    BY <1>2 DEF Look
  <2>2. /\ scan'.todo = scan.todo \ {m} /\ scan'.seen = scan.seen \cup {m}
        /\ scan'.pc = "look" /\ scan'.nums = scan.nums
        /\ scan'.report = scan.report \cup {<<"invalid_folder", m, None>>}
        /\ scan'.lasting = scan.lasting
    BY <1>s, <1>f, <2>1 DEF Scans, Report
  <2>3. ASSUME NEW k \in Kinds, NEW n \in Names \cup {None},
               NEW x \in Names \cup Files \cup {None},
               <<k, n, x>> \in Now \ scan'.report, Pending(k, n, x)
        PROVE  Pending(k, n, x)'
    <3>1. n # None => Means(k, n, x) /\ ToCome(k, n, x)
      BY <2>3, NowMeans DEF Pending
    <3>2. n # None => n # m
      BY <1>2, <2>2, <2>3, <3>1, NowMeans DEF Means, Valid, IssueIn, FolderIssue
    <3>3. n # None /\ k = "duplicate_jump_number" => x # m
      BY <1>2, <3>1 DEF Means
    <3> QED
      BY <1>f, <2>2, <3>1, <3>2, <3>3
      DEF Pending, ToCome, Early, Inspecting, Checking, Counted
  <2> QED
    BY <2>2, <2>3, LastingKept
<1> QED
  BY <1>1, <1>2

LEMMA LastingStat ==
  ASSUME ScanInv, LastingInv, NEW f \in Files, Stat(f), UNCHANGED <<vars, alive>>
  PROVE  LastingInv'
<1>s. scan \in Scans /\ scan.pc = "stat" /\ folder' = folder /\ scan.at \in Names
  BY DEF ScanInv, WalkTypeOK, ScanShape, Inspecting, Stat, vars
<1>1. /\ scan'.pc \in {"stat", "hash"} /\ scan'.todo = scan.todo /\ scan'.at = scan.at
      /\ scan'.doc = scan.doc /\ scan'.files = scan.files \ {f} /\ scan'.nums = scan.nums
      /\ scan'.seen = scan.seen /\ scan'.lasting = scan.lasting
      /\ IF Holding(f) THEN scan'.pc = "hash" /\ scan'.file = f /\ scan'.report = scan.report
         ELSE scan'.report = scan.report \cup {<<"missing_attachment", scan.at, f>>}
  BY <1>s DEF Stat, Scans, Report
<1>2. ASSUME NEW k \in Kinds, NEW n \in Names \cup {None},
             NEW x \in Names \cup Files \cup {None},
             <<k, n, x>> \in Now \ scan'.report, Pending(k, n, x)
      PROVE  Pending(k, n, x)'
  <2>1. n # None => Means(k, n, x) /\ ToCome(k, n, x)
    BY <1>2, NowMeans DEF Pending
  <2>2. n # None /\ k = "missing_attachment" => ~(n = scan.at /\ x = f)
    BY <1>1, <1>2, <2>1 DEF Means, Holding
  <2>3. n = scan.at /\ k = "attachment_mismatch" /\ x = f /\ n # None => Holding(f)
    BY <2>1 DEF Means, Holding
  <2> QED
    BY <1>s, <1>1, <2>1, <2>2, <2>3
    DEF Pending, ToCome, Early, Inspecting, Checking, Counted
<1> QED
  BY <1>1, <1>2, LastingKept

LEMMA LastingRaised ==
  ASSUME scan' = WalkIdle \/ Raise PROVE LastingInv'
<1>1. scan'.lasting = {}
  BY DEF WalkIdle, Raise
<1> QED
  BY <1>1 DEF LastingInv

LEMMA LastingHash ==
  ASSUME ScanInv, LastingInv, Hash, UNCHANGED <<vars, alive>> PROVE LastingInv'
<1>s. scan \in Scans /\ scan.pc = "hash" /\ folder' = folder /\ scan.at \in Names
  BY DEF ScanInv, WalkTypeOK, ScanShape, Inspecting, Hash, vars
<1>1. ASSUME Holding(scan.file) PROVE LastingInv'
  <2> DEFINE same == folder[scan.at].files[scan.file] = scan.doc.atts[scan.file]
  <2>1. /\ scan'.pc = "stat" /\ scan'.todo = scan.todo /\ scan'.at = scan.at
        /\ scan'.doc = scan.doc /\ scan'.files = scan.files /\ scan'.nums = scan.nums
        /\ scan'.seen = scan.seen /\ scan'.lasting = scan.lasting
        /\ IF same THEN scan'.report = scan.report
           ELSE scan'.report = scan.report
                                 \cup {<<"attachment_mismatch", scan.at, scan.file>>}
    BY <1>s, <1>1 DEF Hash, Scans, Report
  <2>2. ASSUME NEW k \in Kinds, NEW n \in Names \cup {None},
               NEW x \in Names \cup Files \cup {None},
               <<k, n, x>> \in Now \ scan'.report, Pending(k, n, x)
        PROVE  Pending(k, n, x)'
    <3>1. n # None => Means(k, n, x) /\ ToCome(k, n, x)
      BY <2>2, NowMeans DEF Pending
    <3>2. /\ n # None /\ k = "attachment_mismatch" /\ n = scan.at /\ x = scan.file
          /\ folder[n].xml.atts[x] = scan.doc.atts[x]
          => FALSE
      BY <2>1, <2>2, <3>1 DEF Means
    <3> HIDE DEF same
    <3> QED
      BY <1>s, <2>1, <3>1, <3>2
      DEF Pending, ToCome, Early, Inspecting, Checking, Counted
  <2> QED
    BY <2>1, <2>2, LastingKept
<1> QED
  BY <1>1, LastingRaised DEF Hash

LEMMA LastingSums ==
  ASSUME ScanInv, LastingInv, ReadSums, UNCHANGED <<vars, alive>> PROVE LastingInv'
<1>s. scan \in Scans /\ scan.pc = "stat" /\ folder' = folder /\ scan.files = {}
  BY DEF ScanInv, WalkTypeOK, ReadSums, vars
<1>1. /\ scan'.todo = scan.todo /\ scan'.at = scan.at
      /\ scan'.doc = scan.doc /\ scan'.nums = scan.nums
      /\ scan'.seen = scan.seen /\ scan'.lasting = scan.lasting
      /\ \/ /\ scan'.pc = "orphans"
            /\ scan'.report = scan.report \cup {<<"stale_manifest", scan.at, None>>}
         \/ /\ scan'.pc = "expect" /\ scan'.report = scan.report
            /\ scan'.sums = folder[scan.at].sums
  BY <1>s DEF ReadSums, Scans, Report
<1>2. ASSUME NEW k \in Kinds, NEW n \in Names \cup {None},
             NEW x \in Names \cup Files \cup {None},
             <<k, n, x>> \in Now \ scan'.report, Pending(k, n, x)
      PROVE  Pending(k, n, x)'
  <2>1. n # None => Means(k, n, x) /\ ToCome(k, n, x)
    BY <1>2, NowMeans DEF Pending
  <2>2. /\ n # None /\ k = "stale_manifest" /\ n = scan.at
        => scan'.pc = "expect" /\ scan'.sums = folder[n].sums
    BY <1>1, <1>2, <2>1 DEF Means
  <2> QED
    BY <1>s, <1>1, <2>1, <2>2
    DEF Pending, ToCome, Early, Inspecting, Checking, Counted
<1> QED
  BY <1>1, <1>2, LastingKept

LEMMA LastingExpect ==
  ASSUME ScanInv, LastingInv, Expect, UNCHANGED <<vars, alive>> PROVE LastingInv'
<1>s. scan \in Scans /\ scan.pc = "expect" /\ folder' = folder
  BY DEF ScanInv, WalkTypeOK, Expect, vars
<1>1. ASSUME Valid(scan.at) PROVE LastingInv'
  <2> DEFINE same == folder[scan.at].xml = scan.sums
  <2>1. /\ scan'.pc = "orphans" /\ scan'.todo = scan.todo /\ scan'.at = scan.at
        /\ scan'.doc = scan.doc /\ scan'.nums = scan.nums
        /\ scan'.seen = scan.seen /\ scan'.lasting = scan.lasting
        /\ IF same THEN scan'.report = scan.report
           ELSE scan'.report = scan.report \cup {<<"stale_manifest", scan.at, None>>}
    BY <1>s, <1>1 DEF Expect, Scans, Report
  <2>2. ASSUME NEW k \in Kinds, NEW n \in Names \cup {None},
               NEW x \in Names \cup Files \cup {None},
               <<k, n, x>> \in Now \ scan'.report, Pending(k, n, x)
        PROVE  Pending(k, n, x)'
    <3>1. n # None => Means(k, n, x) /\ ToCome(k, n, x)
      BY <2>2, NowMeans DEF Pending
    <3>2. n # None /\ k = "stale_manifest" /\ n = scan.at /\ scan.sums = folder[n].sums => FALSE
      BY <2>1, <2>2, <3>1 DEF Means
    <3> HIDE DEF same
    <3> QED
      BY <1>s, <2>1, <3>1, <3>2
      DEF Pending, ToCome, Early, Inspecting, Checking, Counted
  <2> QED
    BY <2>1, <2>2, LastingKept
<1> QED
  BY <1>1, LastingRaised DEF Expect

LEMMA LastingOrphans ==
  ASSUME ScanInv, LastingInv, Orphans, UNCHANGED <<vars, alive>> PROVE LastingInv'
<1> DEFINE found == {i \in {"orphan_file"} \X {scan.at} \X Files : Orphan(i[3])}
<1>s. scan \in Scans /\ scan.pc = "orphans" /\ folder' = folder
  BY DEF ScanInv, WalkTypeOK, Orphans, vars
<1>1. scan' = [scan EXCEPT !.pc = "look", !.at = None, !.doc = None, !.report = @ \cup found]
  BY DEF Orphans
<1> HIDE DEF found
<1>2. /\ scan'.pc = "look" /\ scan'.todo = scan.todo /\ scan'.nums = scan.nums
      /\ scan'.seen = scan.seen /\ scan'.lasting = scan.lasting
      /\ scan'.report = scan.report \cup found
  BY <1>s, <1>1 DEF Scans
<1>3. ASSUME NEW k \in Kinds, NEW n \in Names \cup {None},
             NEW x \in Names \cup Files \cup {None},
             <<k, n, x>> \in Now \ scan'.report, Pending(k, n, x)
      PROVE  Pending(k, n, x)'
  <2>1. n # None => Means(k, n, x) /\ ToCome(k, n, x)
    BY <1>3, NowMeans DEF Pending
  <2>2. n # None /\ k = "orphan_file" /\ n = scan.at /\ scan.doc.atts[x] = None => FALSE
    BY <1>2, <1>3, <2>1 DEF Means, found, Orphan, Holding
  <2> QED
    BY <1>s, <1>2, <2>1, <2>2
    DEF Pending, ToCome, Early, Inspecting, Checking, Counted
<1> QED
  BY <1>2, <1>3, LastingKept

LEMMA LastingTrash ==
  ASSUME ScanInv, LastingInv, Trash, UNCHANGED <<vars, alive>> PROVE LastingInv'
<1> DEFINE found == Trashed \cup Duplicated
           todo  == IF Resolves THEN {} ELSE scan.seen
<1>s. scan \in Scans /\ scan.pc = "look" /\ scan.todo = {} /\ folder' = folder /\ TypeInv
  BY DEF ScanInv, WalkTypeOK, Trash, vars
<1>1. scan' = [scan EXCEPT !.pc = "refs", !.nums = {}, !.seen = {}, !.todo = todo,
                           !.report = @ \cup found]
  BY DEF Trash
<1> HIDE DEF found, todo
<1>2. /\ scan'.pc = "refs" /\ scan'.todo = todo /\ scan'.lasting = scan.lasting
      /\ scan'.report = scan.report \cup found
  BY <1>s, <1>1 DEF Scans
<1>3. ASSUME NEW k \in Kinds, NEW n \in Names \cup {None},
             NEW x \in Names \cup Files \cup {None},
             <<k, n, x>> \in Now \ scan'.report, Pending(k, n, x)
      PROVE  Pending(k, n, x)'
  <2>1. n # None => Means(k, n, x) /\ ToCome(k, n, x)
    BY <1>3, NowMeans DEF Pending
  <2>2. n # None
    BY <1>2, <1>3, IssueType, NowMeans DEF found, Trashed
  <2>3. k # "duplicate_jump_number"
    <3> SUFFICES ASSUME k = "duplicate_jump_number" PROVE FALSE
      OBVIOUS
    <3>1. x \in Names \ {n} /\ n \in Names /\ Valid(n)
      BY <2>1, <2>2 DEF Means
    <3>2. /\ <<n, folder[n].xml.num>> \in scan.nums /\ <<x, folder[n].xml.num>> \in scan.nums
          /\ folder[n].xml.num \in Nums
      BY <1>s, <2>1, <2>2, <3>1, ValidType DEF ToCome, Counted
    <3>3. <<k, n, x>> \in Duplicated
      BY <3>1, <3>2 DEF Duplicated
    <3> QED
      BY <1>2, <1>3, <3>3 DEF found
  <2>4. k = "dangling_reference" => n \in todo
    BY <1>s, <2>1, <2>2 DEF Means, ToCome, todo, Resolves
  <2> QED
    BY <1>s, <1>2, <2>1, <2>2, <2>3, <2>4
    DEF Pending, ToCome, Early, Inspecting, Checking
<1> QED
  BY <1>2, <1>3, LastingKept

LEMMA LastingReferences ==
  ASSUME ScanInv, LastingInv, NEW m \in Names, References(m), UNCHANGED <<vars, alive>>
  PROVE  LastingInv'
<1>s. scan \in Scans /\ scan.pc = "refs" /\ folder' = folder
  BY DEF ScanInv, WalkTypeOK, References, vars
<1>1. /\ scan'.pc = "refs" /\ scan'.todo = scan.todo \ {m} /\ scan'.lasting = scan.lasting
      /\ IF Valid(m) THEN scan'.report = scan.report \cup {<<"dangling_reference", m, None>>}
         ELSE scan'.report = scan.report
  BY <1>s DEF References, Scans, Report
<1>2. ASSUME NEW k \in Kinds, NEW n \in Names \cup {None},
             NEW x \in Names \cup Files \cup {None},
             <<k, n, x>> \in Now \ scan'.report, Pending(k, n, x)
      PROVE  Pending(k, n, x)'
  <2>1. n # None => Means(k, n, x) /\ ToCome(k, n, x)
    BY <1>2, NowMeans DEF Pending
  <2>2. n # None /\ k = "dangling_reference" => n # m
    BY <1>1, <1>2, <2>1 DEF Means
  <2>3. ~Early /\ ~Early' /\ ~Inspecting /\ ~Checking
    BY <1>s, <1>1 DEF Early, Inspecting, Checking
  <2> QED
    BY <1>s, <1>1, <1>2, <2>1, <2>2, <2>3 DEF Pending, ToCome
<1> QED
  BY <1>1, <1>2, LastingKept

LEMMA Lasting200 ==
  ASSUME ScanInv, LastingInv, Report200, UNCHANGED <<vars, alive>> PROVE LastingInv'
<1>s. scan \in Scans /\ scan.pc = "refs" /\ scan.todo = {}
  BY DEF ScanInv, WalkTypeOK, Report200
<1>1. scan'.pc = "done" /\ scan'.lasting = scan.lasting /\ scan'.report = scan.report
  BY <1>s DEF Report200, Scans
<1>2. ASSUME NEW k \in Kinds, NEW n \in Names \cup {None},
             NEW x \in Names \cup Files \cup {None}, Pending(k, n, x)
      PROVE  FALSE
  BY <1>s, <1>2 DEF Pending, ToCome, Early, Inspecting, Kinds, FileKinds
<1> QED
  BY <1>1, <1>2, LastingKept

\* A step of the others: what still lasts is the same issue.
LEMMA LastingOthers ==
  ASSUME ScanInv, LastingInv, IssuesStay, Watch PROVE LastingInv'
<1>s. scan \in Scans /\ TypeInv
  BY DEF ScanInv, WalkTypeOK
<1>1. CASE scan.pc = "idle" /\ scan' = scan
  <2>1. scan'.lasting = {}
    BY <1>1 DEF ScanInv, ScanShape, WalkIdle
  <2> QED
    BY <2>1 DEF LastingInv
<1>2. CASE scan' = [scan EXCEPT !.races = @ + 1,
                       !.calm = @ /\ UNCHANGED <<folder, trash, alive>>,
                       !.lasting = @ \cap Truth(folder', trash', alive')]
  <2>1. /\ scan'.pc = scan.pc /\ scan'.todo = scan.todo /\ scan'.at = scan.at
        /\ scan'.doc = scan.doc /\ scan'.files = scan.files /\ scan'.file = scan.file
        /\ scan'.sums = scan.sums /\ scan'.seen = scan.seen /\ scan'.nums = scan.nums
        /\ scan'.report = scan.report /\ scan'.lasting = scan.lasting \cap Now'
    BY <1>s, <1>2 DEF Scans, Now
  <2>2. ASSUME NEW k \in Kinds, NEW n \in Names \cup {None},
               NEW x \in Names \cup Files \cup {None},
               <<k, n, x>> \in scan.lasting \ scan.report, <<k, n, x>> \in Now'
        PROVE  Pending(k, n, x)'
    <3>1. Pending(k, n, x) /\ <<k, n, x>> \in Now
      BY <2>2 DEF LastingInv, Pending
    <3>2. n # None => n \in Names /\ Means(k, n, x) /\ Means(k, n, x)'
      BY <2>2, <3>1, NowMeans, NextMeans
    <3>3. n # None /\ k = "attachment_mismatch" =>
            folder'[n].xml.atts[x] = folder[n].xml.atts[x]
      BY <3>2 DEF Means, IssuesStay, SameClaims, Claimed
    <3>4. n # None /\ k = "stale_manifest" => folder'[n].sums = folder[n].sums
      BY <3>2 DEF Means, IssuesStay
    <3>5. n # None /\ k = "duplicate_jump_number" =>
            folder'[n].xml.num = folder[n].xml.num
      BY <3>2 DEF Means, IssuesStay
    <3> QED
      BY <2>1, <3>1, <3>3, <3>4, <3>5
      DEF Pending, ToCome, Early, Inspecting, Checking, Counted
  <2> QED
    BY <2>1, <2>2 DEF LastingInv, Pending
<1> QED
  BY <1>1, <1>2 DEF Watch

LEMMA LastingNext ==
  ASSUME ScanInv, LastingInv, [WalkNext]_<<vars, scan, alive>> PROVE LastingInv'
<1>1. CASE Step /\ UNCHANGED <<vars, alive>>
  BY <1>1, LastingStarts, LastingLook, LastingStat, LastingHash, LastingSums, LastingExpect,
     LastingOrphans, LastingTrash, LastingReferences, Lasting200, LastingRaised
  DEF Step, WalkEnds
<1>2. CASE Others /\ Watch
  BY <1>2, ScanNext, LastingOthers DEF WalkNext
<1>3. CASE UNCHANGED <<vars, scan, alive>>
  <2>1. folder' = folder /\ trash' = trash /\ alive' = alive /\ scan' = scan
    BY <1>3 DEF vars
  <2> QED
    BY <2>1 DEF LastingInv, Now, ToCome, Early, Inspecting, Checking, Counted
<1> QED
  BY <1>1, <1>2, <1>3 DEF WalkNext

LEMMA LastingInvariant == WalkSpec => [](ScanInv /\ LastingInv)
<1>1. WalkInit => ScanInv /\ LastingInv
  BY ScanInit DEF WalkInit, WalkIdle, LastingInv
<1>2. ScanInv /\ LastingInv /\ [WalkNext]_<<vars, scan, alive>> => (ScanInv /\ LastingInv)'
  BY ScanNext, LastingNext
<1> QED
  BY <1>1, <1>2, PTL DEF WalkSpec

\* The walk, the folders and the handlers beside it keep their types.
THEOREM WalkTypeCorrect == WalkSpec => []WalkTypeOK
<1>1. ScanInv => WalkTypeOK
  BY DEF ScanInv
<1> QED
  BY <1>1, LastingInvariant, PTL

\* LastingIssuesReported: for any logbook, any number of steps of the handlers, of
\* crashes and of decay between the reads of verify_logbook, an issue that was
\* there from the beginning to the end of the walk is in its report.
THEOREM LastingIssuesAlwaysReported == WalkSpec => []LastingIssuesReported
<1>1. LastingInv => LastingIssuesReported
  <2> SUFFICES ASSUME LastingInv, scan.pc = "done", NEW i \in scan.lasting, i \notin scan.report
               PROVE  FALSE
    BY DEF LastingIssuesReported
  <2>1. i \in Now /\ i \in Issues
    BY NowType DEF LastingInv
  <2>2. PICK k \in Kinds, n \in Names \cup {None}, x \in Names \cup Files \cup {None} :
          i = <<k, n, x>>
    BY <2>1 DEF Issues
  <2>3. IF n = None THEN Early ELSE ToCome(k, n, x)
    BY <2>2 DEF LastingInv
  <2> QED
    BY <2>3 DEF ToCome, Early, Inspecting, Kinds, FileKinds
<1> QED
  BY <1>1, LastingInvariant, PTL

-----------------------------------------------------------------------------
(* While nothing changes, the report is exact.                              *)

LEMMA IssueNow ==
  ASSUME NEW k \in Kinds, NEW n \in Names, NEW x \in Names \cup Files \cup {None}, Means(k, n, x)
  PROVE  <<k, n, x>> \in Now
  BY NowMeans, NoneAssumption

LEMMA CalmKept ==
  ASSUME CalmInv, UNCHANGED <<vars, alive>>, scan.pc \notin {"idle", "raised"},
         scan'.calm = scan.calm, scan'.lasting = scan.lasting,
         Remembers => scan'.report \subseteq scan.report \cup Now /\ Remembers'
  PROVE  CalmInv'
<1>1. Now' = Now
  BY DEF Now, vars
<1> QED
  BY <1>1 DEF CalmInv

LEMMA CalmLook ==
  ASSUME ScanInv, CalmInv, NEW m \in Names, Look(m), UNCHANGED <<vars, alive>>
  PROVE  CalmInv'
<1>s. /\ scan \in Scans /\ folder' = folder /\ scan.pc = "look" /\ TypeInv /\ alive' = alive
      /\ m \in scan.todo
  BY FirstType DEF ScanInv, vars, Look, WalkTypeOK
<1>1. CASE Valid(m)
  <2>1. scan' = [scan EXCEPT !.todo = @ \ {m}, !.seen = @ \cup {m}, !.at = m,
                                 !.doc = folder[m].xml, !.pc = "stat",
                                 !.files = Claimed(folder[m].xml),
                                 !.nums = @ \cup {<<m, folder[m].xml.num>>}]
    BY <1>1 DEF Look
  <2>2. /\ scan'.todo = scan.todo \ {m} /\ scan'.at = m
        /\ scan'.doc = folder[m].xml /\ scan'.pc = "stat"
        /\ scan'.nums = scan.nums \cup {<<m, folder[m].xml.num>>}
        /\ scan'.report = scan.report /\ scan'.lasting = scan.lasting /\ scan'.calm = scan.calm
    BY <1>s, <2>1 DEF Scans
  <2>3. Remembers => Remembers'
    BY <1>s, <1>1, <2>2 DEF Remembers, Early, Inspecting, Valid
  <2> QED
    BY <1>s, <2>2, <2>3, CalmKept
<1>2. CASE ~Valid(m)
  <2>1. scan' = [scan EXCEPT !.todo = @ \ {m}, !.seen = @ \cup {m},
                                 !.report = Report("invalid_folder", m, None)]
    BY <1>2 DEF Look
  <2>2. /\ scan'.todo = scan.todo \ {m} /\ scan'.pc = "look" /\ scan'.nums = scan.nums
        /\ scan'.report = scan.report \cup {<<"invalid_folder", m, None>>}
        /\ scan'.lasting = scan.lasting /\ scan'.calm = scan.calm
    BY <1>s, <2>1 DEF Scans, Report
  <2>3. Remembers => Remembers'
    BY <1>s, <2>2 DEF Remembers, Early, Inspecting, Valid
  <2>4. Remembers => Means("invalid_folder", m, None)
    BY <1>s, <1>2 DEF Remembers, Early, Means, Valid
  <2>5. Remembers => <<"invalid_folder", m, None>> \in Now
    BY <2>4, IssueNow DEF Kinds
  <2> QED
    BY <1>s, <2>2, <2>3, <2>5, CalmKept
<1> QED
  BY <1>1, <1>2

LEMMA CalmStat ==
  ASSUME ScanInv, CalmInv, NEW f \in Files, Stat(f), UNCHANGED <<vars, alive>>
  PROVE  CalmInv'
<1>s. /\ scan \in Scans /\ scan.pc = "stat" /\ folder' = folder /\ scan.at \in Names
      /\ f \in Claimed(scan.doc) /\ scan.doc \in Docs /\ alive' = alive
  BY DEF ScanInv, WalkTypeOK, ScanShape, Inspecting, Checking, Stat, vars
<1>1. /\ scan'.pc \in {"stat", "hash"} /\ scan'.todo = scan.todo /\ scan'.at = scan.at
      /\ scan'.doc = scan.doc /\ scan'.nums = scan.nums
      /\ scan'.lasting = scan.lasting /\ scan'.calm = scan.calm
      /\ IF Holding(f) THEN scan'.report = scan.report
         ELSE scan'.report = scan.report \cup {<<"missing_attachment", scan.at, f>>}
  BY <1>s DEF Stat, Scans, Report
<1>2. Remembers => Remembers'
  BY <1>s, <1>1 DEF Remembers, Early, Inspecting, Valid
<1>3. Remembers /\ ~Holding(f) => Means("missing_attachment", scan.at, f)
  BY <1>s, NoneAssumption DEF Remembers, Inspecting, Means, Valid, Holding
<1>4. Remembers /\ ~Holding(f) => <<"missing_attachment", scan.at, f>> \in Now
  BY <1>s, <1>3, IssueNow DEF Kinds, FileKinds
<1> QED
  BY <1>s, <1>1, <1>2, <1>4, CalmKept

LEMMA CalmEnds ==
  ASSUME scan' = WalkIdle \/ Raise PROVE CalmInv'
  BY DEF CalmInv, WalkIdle, Raise

LEMMA CalmHash ==
  ASSUME ScanInv, CalmInv, Hash, UNCHANGED <<vars, alive>> PROVE CalmInv'
<1>s. /\ scan \in Scans /\ scan.pc = "hash" /\ folder' = folder /\ scan.at \in Names
      /\ scan.file \in Claimed(scan.doc) /\ scan.doc \in Docs /\ alive' = alive
  BY DEF ScanInv, WalkTypeOK, ScanShape, Inspecting, Hash, vars
<1>1. ASSUME Holding(scan.file) PROVE CalmInv'
  <2> DEFINE same == folder[scan.at].files[scan.file] = scan.doc.atts[scan.file]
  <2>1. /\ scan'.pc = "stat" /\ scan'.todo = scan.todo /\ scan'.at = scan.at
        /\ scan'.doc = scan.doc /\ scan'.nums = scan.nums
        /\ scan'.lasting = scan.lasting /\ scan'.calm = scan.calm
        /\ IF same THEN scan'.report = scan.report
           ELSE scan'.report = scan.report
                                 \cup {<<"attachment_mismatch", scan.at, scan.file>>}
    BY <1>s, <1>1 DEF Hash, Scans, Report
  <2>2. Remembers => Remembers'
    BY <1>s, <2>1 DEF Remembers, Early, Inspecting, Valid
  <2>3. Remembers /\ ~same => Means("attachment_mismatch", scan.at, scan.file)
    BY <1>s, <1>1, NoneAssumption DEF Remembers, Inspecting, Means, Valid, Holding
  <2>4. Remembers /\ ~same => <<"attachment_mismatch", scan.at, scan.file>> \in Now
    BY <1>s, <2>3, IssueNow DEF Kinds, FileKinds, Claimed
  <2> QED
    BY <1>s, <2>1, <2>2, <2>4, CalmKept
<1> QED
  BY <1>1, CalmEnds DEF Hash

LEMMA CalmSums ==
  ASSUME ScanInv, CalmInv, ReadSums, UNCHANGED <<vars, alive>> PROVE CalmInv'
<1>s. /\ scan \in Scans /\ scan.pc = "stat" /\ folder' = folder /\ scan.at \in Names
      /\ scan.doc \in Docs /\ alive' = alive
  BY DEF ScanInv, WalkTypeOK, ScanShape, Inspecting, ReadSums, vars
<1> DEFINE gone == folder[scan.at] = None \/ folder[scan.at].sums = None
<1>1. /\ scan'.todo = scan.todo /\ scan'.at = scan.at
      /\ scan'.doc = scan.doc /\ scan'.nums = scan.nums
      /\ scan'.lasting = scan.lasting /\ scan'.calm = scan.calm
      /\ IF gone
         THEN /\ scan'.pc = "orphans"
              /\ scan'.report = scan.report \cup {<<"stale_manifest", scan.at, None>>}
         ELSE /\ scan'.pc = "expect" /\ scan'.report = scan.report
              /\ scan'.sums = folder[scan.at].sums
  BY <1>s DEF ReadSums, Scans, Report
<1>2. Remembers => Remembers'
  BY <1>s, <1>1 DEF Remembers, Early, Inspecting, Valid
<1>3. Remembers /\ gone => Means("stale_manifest", scan.at, None)
  BY <1>s, NoneAssumption DEF Remembers, Inspecting, Means, Valid
<1>4. Remembers /\ gone => <<"stale_manifest", scan.at, None>> \in Now
  BY <1>s, <1>3, IssueNow DEF Kinds
<1> QED
  BY <1>s, <1>1, <1>2, <1>4, CalmKept

LEMMA CalmExpect ==
  ASSUME ScanInv, CalmInv, Expect, UNCHANGED <<vars, alive>> PROVE CalmInv'
<1>s. /\ scan \in Scans /\ scan.pc = "expect" /\ folder' = folder /\ scan.at \in Names
      /\ scan.doc \in Docs /\ alive' = alive
  BY DEF ScanInv, WalkTypeOK, ScanShape, Inspecting, Expect, vars
<1>1. ASSUME Valid(scan.at) PROVE CalmInv'
  <2> DEFINE same == folder[scan.at].xml = scan.sums
  <2>1. /\ scan'.pc = "orphans" /\ scan'.todo = scan.todo /\ scan'.at = scan.at
        /\ scan'.doc = scan.doc /\ scan'.nums = scan.nums
        /\ scan'.lasting = scan.lasting /\ scan'.calm = scan.calm
        /\ IF same THEN scan'.report = scan.report
           ELSE scan'.report = scan.report \cup {<<"stale_manifest", scan.at, None>>}
    BY <1>s, <1>1 DEF Expect, Scans, Report
  <2>2. Remembers => Remembers'
    BY <1>s, <2>1 DEF Remembers, Early, Inspecting, Valid
  <2>3. Remembers /\ ~same => Means("stale_manifest", scan.at, None)
    BY <1>s, <1>1 DEF Remembers, Inspecting, Means, Valid
  <2>4. Remembers /\ ~same => <<"stale_manifest", scan.at, None>> \in Now
    BY <1>s, <2>3, IssueNow DEF Kinds
  <2> QED
    BY <1>s, <2>1, <2>2, <2>4, CalmKept
<1> QED
  BY <1>1, CalmEnds DEF Expect

LEMMA CalmOrphans ==
  ASSUME ScanInv, CalmInv, Orphans, UNCHANGED <<vars, alive>> PROVE CalmInv'
<1> DEFINE found == {i \in {"orphan_file"} \X {scan.at} \X Files : Orphan(i[3])}
<1>s. /\ scan \in Scans /\ scan.pc = "orphans" /\ folder' = folder /\ scan.at \in Names
      /\ scan.doc \in Docs /\ alive' = alive
  BY DEF ScanInv, WalkTypeOK, ScanShape, Inspecting, Orphans, vars
<1>1. scan' = [scan EXCEPT !.pc = "look", !.at = None, !.doc = None, !.report = @ \cup found]
  BY DEF Orphans
<1> HIDE DEF found
<1>2. /\ scan'.pc = "look" /\ scan'.todo = scan.todo /\ scan'.nums = scan.nums
      /\ scan'.lasting = scan.lasting /\ scan'.calm = scan.calm
      /\ scan'.report = scan.report \cup found
  BY <1>s, <1>1 DEF Scans
<1>3. Remembers => Remembers'
  BY <1>s, <1>2 DEF Remembers, Early, Inspecting, Valid
<1>4. ASSUME Remembers PROVE found \subseteq Now
  <2>1. ASSUME NEW f \in Files, Orphan(f) PROVE <<"orphan_file", scan.at, f>> \in Now
    <3>1. Means("orphan_file", scan.at, f)
      BY <1>s, <1>4, <2>1, NoneAssumption
      DEF Remembers, Inspecting, Means, Valid, Orphan, Holding, Claimed
    <3> QED
      BY <1>s, <3>1, IssueNow DEF Kinds, FileKinds
  <2> QED
    BY <2>1 DEF found
<1> QED
  BY <1>s, <1>2, <1>3, <1>4, CalmKept

LEMMA CalmTrash ==
  ASSUME ScanInv, CalmInv, Trash, UNCHANGED <<vars, alive>> PROVE CalmInv'
<1> DEFINE todo == IF Resolves THEN {} ELSE scan.seen
<1>s. scan \in Scans /\ scan.pc = "look" /\ folder' = folder /\ alive' = alive
  BY DEF ScanInv, WalkTypeOK, Trash, vars
<1>1. scan' = [scan EXCEPT !.pc = "refs", !.nums = {}, !.seen = {}, !.todo = todo,
                           !.report = @ \cup (Trashed \cup Duplicated)]
  BY DEF Trash
<1>2. todo # {} => ~alive
  BY DEF Resolves
<1> HIDE DEF todo
<1>3. /\ scan'.pc = "refs" /\ scan'.todo = todo /\ scan'.nums = {}
      /\ scan'.lasting = scan.lasting /\ scan'.calm = scan.calm
      /\ scan'.report = scan.report \cup (Trashed \cup Duplicated)
  BY <1>s, <1>1 DEF Scans
<1>4. Remembers'
  BY <1>s, <1>2, <1>3 DEF Remembers, Early, Inspecting
<1>5. Trashed \subseteq Now
  BY DEF Trashed, Now, Truth
<1>6. ASSUME Remembers PROVE Duplicated \subseteq Now
  <2>1. ASSUME NEW n \in Names, NEW x \in Names, n # x, NEW j \in Nums,
               <<n, j>> \in scan.nums, <<x, j>> \in scan.nums
        PROVE  <<"duplicate_jump_number", n, x>> \in Now
    <3>1. Means("duplicate_jump_number", n, x)
      BY <1>6, <2>1 DEF Remembers, Means, Valid
    <3> QED
      BY <3>1, IssueNow DEF Kinds
  <2>2. ASSUME NEW i \in Duplicated PROVE i \in Now
    <3>1. /\ i = <<"duplicate_jump_number", i[2], i[3]>> /\ i[2] \in Names /\ i[3] \in Names
          /\ i[2] # i[3]
      BY DEF Duplicated
    <3>2. PICK j \in Nums : <<i[2], j>> \in scan.nums /\ <<i[3], j>> \in scan.nums
      BY DEF Duplicated
    <3> QED
      BY <2>1, <3>1, <3>2
  <2> QED
    BY <2>2
<1> QED
  BY <1>s, <1>3, <1>4, <1>5, <1>6, CalmKept

LEMMA CalmReferences ==
  ASSUME ScanInv, CalmInv, NEW m \in Names, References(m), UNCHANGED <<vars, alive>>
  PROVE  CalmInv'
<1>s. scan \in Scans /\ scan.pc = "refs" /\ folder' = folder /\ alive' = alive /\ scan.todo # {}
  BY DEF ScanInv, WalkTypeOK, References, vars
<1>1. /\ scan'.pc = "refs" /\ scan'.todo = scan.todo \ {m} /\ scan'.nums = scan.nums
      /\ scan'.lasting = scan.lasting /\ scan'.calm = scan.calm
      /\ IF Valid(m) THEN scan'.report = scan.report \cup {<<"dangling_reference", m, None>>}
         ELSE scan'.report = scan.report
  BY <1>s DEF References, Scans, Report
<1>2. Remembers => Remembers'
  BY <1>s, <1>1 DEF Remembers, Early, Inspecting, Valid
<1>3. Remembers /\ Valid(m) => Means("dangling_reference", m, None)
  BY <1>s DEF Remembers, Means, Valid
<1>4. Remembers /\ Valid(m) => <<"dangling_reference", m, None>> \in Now
  BY <1>3, IssueNow DEF Kinds
<1> QED
  BY <1>s, <1>1, <1>2, <1>4, CalmKept

LEMMA Calm200 ==
  ASSUME ScanInv, CalmInv, Report200, UNCHANGED <<vars, alive>> PROVE CalmInv'
<1>s. scan \in Scans /\ scan.pc = "refs" /\ folder' = folder
  BY DEF ScanInv, WalkTypeOK, Report200, vars
<1>1. /\ scan'.pc = "done" /\ scan'.lasting = scan.lasting /\ scan'.report = scan.report
      /\ scan'.nums = scan.nums /\ scan'.calm = scan.calm
  BY <1>s DEF Report200, Scans
<1>2. Remembers => Remembers'
  BY <1>s, <1>1 DEF Remembers, Early, Inspecting, Valid
<1> QED
  BY <1>s, <1>1, <1>2, CalmKept

LEMMA CalmStarts ==
  ASSUME ScanInv, WalkStarts, UNCHANGED <<vars, alive>> PROVE CalmInv'
<1>1. /\ scan'.pc = "look" /\ scan'.todo = Active /\ scan'.lasting = Now
      /\ scan'.report = {} /\ scan'.nums = {} /\ Now' = Now /\ folder' = folder
  BY DEF WalkStarts, WalkIdle, Now, vars
<1> QED
  BY <1>1 DEF CalmInv, Remembers, Early, Inspecting, Active

LEMMA CalmOthers ==
  ASSUME ScanInv, CalmInv, Watch PROVE CalmInv'
<1>s. scan \in Scans
  BY DEF ScanInv, WalkTypeOK
<1>1. CASE scan.pc = "idle" /\ scan' = scan
  BY <1>1 DEF CalmInv
<1>2. CASE scan' = [scan EXCEPT !.races = @ + 1,
                       !.calm = @ /\ UNCHANGED <<folder, trash, alive>>,
                       !.lasting = @ \cap Truth(folder', trash', alive')]
  <2> DEFINE c == scan.calm /\ UNCHANGED <<folder, trash, alive>>
  <2>0. scan' = [scan EXCEPT !.races = scan.races + 1, !.calm = c,
                       !.lasting = scan.lasting \cap Now']
    BY <1>2 DEF Now
  <2>1. c => scan.calm /\ folder' = folder /\ trash' = trash /\ alive' = alive
    OBVIOUS
  <2> HIDE DEF c
  <2>2. /\ scan'.pc = scan.pc /\ scan'.todo = scan.todo /\ scan'.at = scan.at
        /\ scan'.doc = scan.doc /\ scan'.sums = scan.sums /\ scan'.nums = scan.nums
        /\ scan'.report = scan.report /\ scan'.lasting = scan.lasting \cap Now'
        /\ scan'.calm = c
    BY <1>s, <2>0 DEF Scans
  <2>3. c => Now' = Now
    BY <2>1 DEF Now
  <2>4. c /\ Remembers => Remembers'
    BY <2>1, <2>2 DEF Remembers, Early, Inspecting, Valid
  <2> QED
    BY <2>1, <2>2, <2>3, <2>4 DEF CalmInv
<1> QED
  BY <1>1, <1>2 DEF Watch

LEMMA CalmNext ==
  ASSUME ScanInv, CalmInv, [WalkNext]_<<vars, scan, alive>> PROVE CalmInv'
<1>1. CASE Step /\ UNCHANGED <<vars, alive>>
  BY <1>1, CalmStarts, CalmLook, CalmStat, CalmHash, CalmSums, CalmExpect,
     CalmOrphans, CalmTrash, CalmReferences, Calm200, CalmEnds
  DEF Step, WalkEnds
<1>2. CASE Others /\ Watch
  BY <1>2, CalmOthers
<1>3. CASE UNCHANGED <<vars, scan, alive>>
  <2>1. folder' = folder /\ trash' = trash /\ alive' = alive /\ scan' = scan
    BY <1>3 DEF vars
  <2> QED
    BY <2>1 DEF CalmInv, Now, Remembers, Early, Inspecting, Valid
<1> QED
  BY <1>1, <1>2, <1>3 DEF WalkNext

\* CalmReportIsExact: for any logbook, whatever failures left in it, a walk of
\* verify_logbook beside which nothing changes reports every issue there is and
\* nothing else.
THEOREM CalmReportAlwaysExact == WalkSpec => []CalmReportIsExact
<1>1. WalkInit => CalmInv
  BY DEF WalkInit, WalkIdle, CalmInv
<1>2. ScanInv /\ CalmInv /\ [WalkNext]_<<vars, scan, alive>> => CalmInv'
  BY CalmNext
<1>3. LastingIssuesReported /\ CalmInv => CalmReportIsExact
  BY DEF LastingIssuesReported, CalmInv, CalmReportIsExact, Now
<1> QED
  BY <1>1, <1>2, <1>3, LastingInvariant, LastingIssuesAlwaysReported, PTL DEF WalkSpec

=============================================================================
