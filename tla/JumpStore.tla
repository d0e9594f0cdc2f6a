----------------------------- MODULE JumpStore -----------------------------
(***************************************************************************)
(* Jumps on disk and in the index: services/jump_service.py, the folder    *)
(* primitives of storage/ it calls, and services/reindex_service.py.       *)
(*                                                                         *)
(* A handler of the service layer is a chain of durable steps: create a    *)
(* folder, stream an attachment, replace jump.xml, replace SHA256SUMS,     *)
(* rename or move the folder, commit one SQLite statement.  The process    *)
(* may stop between any two of them: an I/O error leaves the handler, a    *)
(* kill ends the process, and neither undoes what is on disk.  The steps   *)
(* a handler takes before its first durable effect (lookups, scans,        *)
(* validation, the reconcile of get_jump) are one action, because          *)
(* WRITER_LOCK keeps the other handlers out.  reindex_from_xml takes no    *)
(* lock: with OnlineReindex it interleaves with the handlers (POST         *)
(* /reindex, scripts.reindex), without it it runs alone (main.py, before   *)
(* the server accepts requests).                                           *)
(***************************************************************************)
EXTENDS Naturals, FiniteSets

CONSTANTS
    Ids,            \* jump UUIDs create_jump may draw
    Nums,           \* jump numbers
    Titles,         \* jump titles, the rest of a folder's name
    Files,          \* attachment file names
    Contents,       \* attachment bytes, identified with their SHA-256
    None,           \* no value: no file, no row, no folder
    MaxFaults,      \* bound on the handlers that stop half-way
    OnlineReindex   \* a reindex may run beside the handlers

ASSUME FaultsAssumption == MaxFaults \in Nat /\ OnlineReindex \in BOOLEAN

Names == Nums \X Titles                    \* "[<N>] <title>" (D4)
Parts == [Files -> Contents \cup {None}]   \* file name -> bytes, or no such file
Docs  == [id : Ids, num : Nums, title : Titles, atts : Parts]

\* A manifest lists the digest of jump.xml and jump.xml's own claims, so it is
\* identified with the jump.xml it was derived from (manifest.from_jump_xml).
Folders == [xml : Docs \cup {None}, sums : Docs \cup {None}, files : Parts]
Rows    == [num : Nums, folder : Names]

Handlers == {"create", "track", "add", "unattach", "update", "delete"}
Steps    == {"stream", "xml", "sums", "rename", "unlink", "trash", "row"}

Ops == [h : Handlers, pc : Steps, id : Ids, at : Names, doc : Docs \cup {None},
        todo : Parts, del : Files \cup {None}]

ASSUME NoneAssumption ==
    /\ None \notin Contents /\ None \notin Docs /\ None \notin Folders
    /\ None \notin Rows /\ None \notin Ops /\ None \notin Names
    /\ None \notin Files

VARIABLES
    folder,   \* jumps/: name -> folder, or None
    trash,    \* the folders in .trash/ (their timestamped names never clash)
    row,      \* the jumps table: id -> row, or None
    op,       \* the handler that holds WRITER_LOCK, or None
    rx,       \* the running reindex_from_xml
    faults    \* handlers stopped so far

vars == <<folder, trash, row, op, rx, faults>>

NoParts  == [f \in Files |-> None]
EmptyDir == [xml |-> None, sums |-> None, files |-> NoParts]
RxIdle   == [pc |-> "idle", todo |-> {}, got |-> {}, at |-> None, doc |-> None]

RxPhases == {"idle", "look", "heal", "parse"}

TypeOK ==
    /\ folder \in [Names -> Folders \cup {None}]
    /\ trash \subseteq Folders
    /\ row \in [Ids -> Rows \cup {None}]
    /\ op \in Ops \cup {None}
    /\ rx \in [pc : RxPhases, todo : SUBSET Names, got : SUBSET (Names \X Docs),
               at : Names \cup {None}, doc : Docs \cup {None}]
    /\ faults \in 0..MaxFaults

Init ==
    /\ folder = [n \in Names |-> None]
    /\ trash = {}
    /\ row = [i \in Ids |-> None]
    /\ op = None
    /\ rx = RxIdle
    /\ faults = 0

-----------------------------------------------------------------------------
(* What the handlers read. *)

FolderName(d) == <<d.num, d.title>>

\* D25: a folder is a valid jump iff its jump.xml parses.
Valid(n) == folder[n] # None /\ folder[n].xml # None

\* Mutant: the number is looked up in the index instead of in jumps/.
MutTakenByIndex(k) == \E i \in Ids : row[i] # None /\ row[i].num = k

\* D23's backstop scans the names in jumps/, not the index.
NumberIsTaken(k) == \E n \in Names : folder[n] # None /\ n[1] = k

\* get_jump finds the row, and the row's folder holds a valid jump.xml.
Opens(i) == row[i] # None /\ Valid(row[i].folder)

\* folder_reconcile: SHA256SUMS agrees with the claims of jump.xml again.
Reconciled(n) == [folder EXCEPT ![n].sums = folder[n].xml]

DocsOnDisk == {folder[n].xml : n \in {m \in Names : Valid(m)}}
DocsInTrash == {t.xml : t \in {u \in trash : u.xml # None}}

\* uuid4 never repeats: an id is fresh when nothing anywhere carries it.
Fresh(i) ==
    /\ row[i] = None
    /\ \A d \in DocsOnDisk \cup DocsInTrash : d.id # i
    /\ \A e \in rx.got : e[2].id # i

MayStart == op = None /\ (OnlineReindex \/ rx = RxIdle)

Started(h, pc, i, at, doc, todo, del) ==
    [h |-> h, pc |-> pc, id |-> i, at |-> at, doc |-> doc, todo |-> todo,
     del |-> del]

-----------------------------------------------------------------------------
(* The handlers up to and including their first durable effect. *)

\* get_jump, list_jump_files, and every request refused after get_jump.
GetJump(i) ==
    /\ MayStart /\ Opens(i)
    /\ folder' = Reconciled(row[i].folder)
    /\ UNCHANGED <<trash, row, op, rx, faults>>

\* create_jump: scan, mkdir(exist_ok=False).
CreateJump(i, n, uploads) ==
    /\ MayStart /\ Fresh(i) /\ ~NumberIsTaken(n[1])
    /\ folder' = [folder EXCEPT ![n] = EmptyDir]
    /\ op' = Started("create", "stream", i, n,
                     [id |-> i, num |-> n[1], title |-> n[2], atts |-> uploads],
                     uploads, None)
    /\ UNCHANGED <<trash, row, rx, faults>>

\* track_files: adopt files that are in the folder and not in jump.xml.
TrackFiles(i, names) ==
    /\ MayStart /\ Opens(i)
    /\ LET at == row[i].folder
           d  == folder[at].xml
           on == folder[at].files
           toTrack == {f \in names : d.atts[f] = None}
       IN  /\ toTrack # {}
           /\ \A f \in toTrack : on[f] # None
           /\ folder' = Reconciled(at)
           /\ op' = Started("track", "xml", i, at,
                            [d EXCEPT !.atts = [f \in Files |->
                                IF f \in toTrack THEN on[f] ELSE d.atts[f]]],
                            NoParts, None)
    /\ UNCHANGED <<trash, row, rx, faults>>

\* add_attachments: new names only, attached or merely on disk are refused.
AddAttachments(i, uploads) ==
    /\ MayStart /\ Opens(i) /\ uploads # NoParts
    /\ LET at == row[i].folder
           d  == folder[at].xml
       IN  /\ \A f \in Files : uploads[f] # None =>
                 d.atts[f] = None /\ folder[at].files[f] = None
           /\ folder' = Reconciled(at)
           /\ op' = Started("add", "stream", i, at,
                            [d EXCEPT !.atts = [f \in Files |->
                                IF uploads[f] # None THEN uploads[f]
                                                     ELSE d.atts[f]]],
                            uploads, None)
    /\ UNCHANGED <<trash, row, rx, faults>>

\* delete_attachment: jump.xml forgets the file before it is unlinked.
DeleteAttachment(i, f) ==
    /\ MayStart /\ Opens(i)
    /\ LET at == row[i].folder
           d  == folder[at].xml
       IN  /\ d.atts[f] # None
           /\ folder' = Reconciled(at)
           /\ op' = Started("unattach", "xml", i, at,
                            [d EXCEPT !.atts[f] = None], NoParts, f)
    /\ UNCHANGED <<trash, row, rx, faults>>

\* update_jump: the scan runs only if jump.xml holds another number.
UpdateJump(i, n) ==
    /\ MayStart /\ Opens(i)
    /\ LET at == row[i].folder
           d  == folder[at].xml
       IN  /\ n[1] # d.num => ~NumberIsTaken(n[1])
           /\ folder' = Reconciled(at)
           /\ op' = Started("update", "xml", i, at,
                            [d EXCEPT !.num = n[1], !.title = n[2]], NoParts, None)
    /\ UNCHANGED <<trash, row, rx, faults>>

\* delete_jump looks the row up and moves the folder, valid or not.
DeleteJump(i) ==
    /\ MayStart /\ row[i] # None /\ folder[row[i].folder] # None
    /\ op' = Started("delete", "trash", i, row[i].folder, None, NoParts, None)
    /\ UNCHANGED <<folder, trash, row, rx, faults>>

-----------------------------------------------------------------------------
(* The durable steps that follow. *)

At(pc) == op # None /\ op.pc = pc

\* atomic_write_stream: one upload replaces whatever has its name.
StreamUpload(f) ==
    /\ At("stream") /\ op.todo[f] # None
    /\ folder' = [folder EXCEPT ![op.at].files[f] = op.todo[f]]
    /\ op' = [op EXCEPT !.todo[f] = None]
    /\ UNCHANGED <<trash, row, rx, faults>>

\* Mutant: jump.xml is written before the uploads have arrived.
MutStreamedEarly == At("stream")

Streamed == At("stream") /\ op.todo = NoParts

WriteJumpXml ==
    /\ At("xml") \/ Streamed
    /\ folder' = [folder EXCEPT ![op.at].xml = op.doc]
    /\ op' = [op EXCEPT !.pc = "sums"]
    /\ UNCHANGED <<trash, row, rx, faults>>

AfterSums ==
    CASE op.h = "update"   -> "rename"
      [] op.h = "unattach" -> "unlink"
      [] OTHER             -> "row"

\* Mutant: delete_attachment leaves SHA256SUMS to the next reader.
MutWriteManifest ==
    /\ At("sums")
    /\ folder' = IF op.h = "unattach" THEN folder
                 ELSE [folder EXCEPT ![op.at].sums = folder[op.at].xml]
    /\ op' = [op EXCEPT !.pc = AfterSums]
    /\ UNCHANGED <<trash, row, rx, faults>>

WriteManifest ==
    /\ At("sums")
    /\ folder' = [folder EXCEPT ![op.at].sums = folder[op.at].xml]
    /\ op' = [op EXCEPT !.pc = AfterSums]
    /\ UNCHANGED <<trash, row, rx, faults>>

\* Mutant: the rename replaces whatever is at the target.
MutRenameFolder ==
    LET to == FolderName(op.doc) IN
    /\ At("rename")
    /\ folder' = IF to = op.at THEN folder
                 ELSE [folder EXCEPT ![to] = folder[op.at], ![op.at] = None]
    /\ op' = [op EXCEPT !.pc = "row", !.at = to]
    /\ UNCHANGED <<trash, row, rx, faults>>

\* os.rename replaces an empty directory and refuses any other target.
RenameFolder ==
    LET to == FolderName(op.doc) IN
    /\ At("rename")
    /\ to = op.at \/ folder[to] \in {None, EmptyDir}
    /\ folder' = IF to = op.at THEN folder
                 ELSE [folder EXCEPT ![to] = folder[op.at], ![op.at] = None]
    /\ op' = [op EXCEPT !.pc = "row", !.at = to]
    /\ UNCHANGED <<trash, row, rx, faults>>

UnlinkAttachment ==
    /\ At("unlink")
    /\ folder' = [folder EXCEPT ![op.at].files[op.del] = None]
    /\ op' = [op EXCEPT !.pc = "row"]
    /\ UNCHANGED <<trash, row, rx, faults>>

\* Mutant: the folder is copied to .trash/ and stays in jumps/.
MutCopyToTrash ==
    /\ At("trash")
    /\ trash' = trash \cup {folder[op.at]}
    /\ op' = [op EXCEPT !.pc = "row"]
    /\ UNCHANGED <<folder, row, rx, faults>>

\* soft_delete: .trash/<timestamp>_<name>/, a counter keeps the name unused.
MoveToTrash ==
    /\ At("trash")
    /\ trash' = trash \cup {folder[op.at]}
    /\ folder' = [folder EXCEPT ![op.at] = None]
    /\ op' = [op EXCEPT !.pc = "row"]
    /\ UNCHANGED <<row, rx, faults>>

\* UNIQUE(user_id, jump_number) of the jumps table.
Clashes(i, k) == \E j \in Ids \ {i} : row[j] # None /\ row[j].num = k

RowFor(d, n) == [num |-> d.num, folder |-> n]

\* Mutant: update_jump does not store the new folder.
MutRowKeepsFolder ==
    CASE op.h = "delete" -> None
      [] op.h = "create" -> RowFor(op.doc, op.at)
      [] op.h = "update" -> IF row[op.id] = None THEN None
                            ELSE RowFor(op.doc, row[op.id].folder)
      [] OTHER           -> row[op.id]

\* Mutant: delete_jump blanks the folder column instead of removing the row.
MutRowBlanked ==
    CASE op.h = "delete" -> [num |-> 0, folder |-> None]
      [] op.h = "create" -> RowFor(op.doc, op.at)
      [] op.h = "update" -> IF row[op.id] = None THEN None ELSE RowFor(op.doc, op.at)
      [] OTHER           -> row[op.id]

\* The row of the jump after the handler's statement.
CommittedRow ==
    CASE op.h = "delete" -> None
      [] op.h = "create" -> RowFor(op.doc, op.at)
      [] op.h = "update" -> IF row[op.id] = None THEN None ELSE RowFor(op.doc, op.at)
      [] OTHER           -> row[op.id]       \* only updated_at moves

\* The INSERT meets its own key if a reindex has committed the row already;
\* the UPDATE can break a key only if it finds its row.
RowRefused ==
    \/ op.h = "create" /\ row[op.id] # None
    \/ /\ op.h = "create" \/ (op.h = "update" /\ row[op.id] # None)
       /\ Clashes(op.id, op.doc.num)

CommitRow ==
    /\ At("row") /\ ~RowRefused
    /\ row' = [row EXCEPT ![op.id] = CommittedRow]
    /\ op' = None
    /\ UNCHANGED <<folder, trash, rx, faults>>

\* IntegrityError: 409, and what is on disk stays.
RowConflict ==
    /\ At("row") /\ RowRefused
    /\ op' = None
    /\ UNCHANGED <<folder, trash, row, rx, faults>>

\* OSError from os.rename: 500, jump.xml already carries the new name.
RenameRefused ==
    /\ At("rename")
    /\ FolderName(op.doc) # op.at
    /\ folder[FolderName(op.doc)] \notin {None, EmptyDir}
    /\ op' = None
    /\ UNCHANGED <<folder, trash, row, rx, faults>>

-----------------------------------------------------------------------------
(* reindex_from_xml: pass 1 loads every folder, then one transaction. *)

RxStart ==
    /\ rx = RxIdle
    /\ OnlineReindex \/ op = None
    /\ rx' = [RxIdle EXCEPT !.pc = "look", !.todo = {n \in Names : folder[n] # None}]
    /\ UNCHANGED <<folder, trash, row, op, faults>>

\* from_jump_xml reads jump.xml; the manifest on disk is compared with it.
RxLook(n) ==
    /\ rx.pc = "look" /\ n \in rx.todo
    /\ rx' = IF Valid(n)
             THEN [rx EXCEPT !.todo = @ \ {n}, !.at = n, !.doc = folder[n].xml,
                             !.pc = IF folder[n].sums = folder[n].xml
                                    THEN "parse" ELSE "heal"]
             ELSE [rx EXCEPT !.todo = @ \ {n}]
    /\ UNCHANGED <<folder, trash, row, op, faults>>

\* atomic_write recreates a parent directory that went away meanwhile.
RxHeal ==
    /\ rx.pc = "heal"
    /\ folder' = [folder EXCEPT ![rx.at] =
                    [(IF @ = None THEN EmptyDir ELSE @) EXCEPT !.sums = rx.doc]]
    /\ rx' = [rx EXCEPT !.pc = "parse"]
    /\ UNCHANGED <<trash, row, op, faults>>

\* jump.xml is read a second time; a folder that went away is skipped.
RxParse ==
    /\ rx.pc = "parse"
    /\ rx' = [rx EXCEPT !.pc = "look", !.at = None, !.doc = None,
                        !.got = IF Valid(rx.at)
                                THEN @ \cup {<<rx.at, folder[rx.at].xml>>} ELSE @]
    /\ UNCHANGED <<folder, trash, row, op, faults>>

Loaded == rx.pc = "look" /\ rx.todo = {}

DuplicateNumber == \E e, g \in rx.got : e[1] # g[1] /\ e[2].num = g[2].num

\* D23: the duplicate is reported and nothing is written.
RxAbort ==
    /\ Loaded /\ DuplicateNumber
    /\ rx' = RxIdle
    /\ UNCHANGED <<folder, trash, row, op, faults>>

\* Mutant: INSERT OR IGNORE, a row that exists is kept as it is.
MutRxInsertOrIgnore ==
    /\ Loaded /\ ~DuplicateNumber
    /\ \E last \in [{e[2].id : e \in rx.got} -> rx.got] :
         /\ \A i \in DOMAIN last : last[i][2].id = i
         /\ row' = [i \in Ids |->
                      IF row[i] = None /\ i \in DOMAIN last
                      THEN RowFor(last[i][2], last[i][1]) ELSE row[i]]
    /\ rx' = RxIdle
    /\ UNCHANGED <<folder, trash, op, faults>>

\* INSERT OR REPLACE removes the rows that clash on id or on the number and
\* leaves every other row where it is.  An id loaded from two folders keeps
\* either one.
RxCommit ==
    /\ Loaded /\ ~DuplicateNumber
    /\ \E last \in [{e[2].id : e \in rx.got} -> rx.got] :
         /\ \A i \in DOMAIN last : last[i][2].id = i
         /\ row' = [i \in Ids |->
                      IF i \in DOMAIN last THEN RowFor(last[i][2], last[i][1])
                      ELSE IF row[i] # None /\ \E e \in rx.got : e[2].num = row[i].num
                           THEN None ELSE row[i]]
    /\ rx' = RxIdle
    /\ UNCHANGED <<folder, trash, op, faults>>

-----------------------------------------------------------------------------
(* The environment. *)

\* A user copies a file into a jump's folder with the file manager (D41).
DropIn(n, f, c) ==
    /\ folder[n] # None /\ folder[n].files[f] = None
    /\ folder' = [folder EXCEPT ![n].files[f] = c]
    /\ UNCHANGED <<trash, row, op, rx, faults>>

\* An I/O error leaves the handler between two steps: nothing is undone.
HandlerFails ==
    /\ op # None /\ faults < MaxFaults
    /\ op' = None /\ faults' = faults + 1
    /\ UNCHANGED <<folder, trash, row, rx>>

\* OSError in folder_reconcile: the folder is skipped.
RxHealFails ==
    /\ rx.pc = "heal" /\ faults < MaxFaults
    /\ rx' = [rx EXCEPT !.pc = "look", !.at = None, !.doc = None]
    /\ faults' = faults + 1
    /\ UNCHANGED <<folder, trash, row, op>>

\* The process is killed and started again on a current index (D26).
Crash ==
    /\ op # None \/ rx # RxIdle
    /\ faults < MaxFaults
    /\ op' = None /\ rx' = RxIdle /\ faults' = faults + 1
    /\ UNCHANGED <<folder, trash, row>>

-----------------------------------------------------------------------------
Request ==
    \E i \in Ids :
        \/ GetJump(i)
        \/ \E n \in Names, u \in Parts : CreateJump(i, n, u)
        \/ \E names \in SUBSET Files : TrackFiles(i, names)
        \/ \E u \in Parts : AddAttachments(i, u)
        \/ \E f \in Files : DeleteAttachment(i, f)
        \/ \E n \in Names : UpdateJump(i, n)
        \/ DeleteJump(i)

Handler ==
    \/ \E f \in Files : StreamUpload(f)
    \/ WriteJumpXml
    \/ WriteManifest
    \/ RenameFolder
    \/ RenameRefused
    \/ UnlinkAttachment
    \/ MoveToTrash
    \/ CommitRow
    \/ RowConflict

Reindex ==
    \/ RxStart
    \/ \E n \in Names : RxLook(n)
    \/ RxHeal
    \/ RxParse
    \/ RxAbort
    \/ RxCommit

Environment ==
    \/ \E n \in Names, f \in Files, c \in Contents : DropIn(n, f, c)
    \/ HandlerFails
    \/ RxHealFails
    \/ Crash

Next == Request \/ Handler \/ Reindex \/ Environment

Spec == Init /\ [][Next]_vars

-----------------------------------------------------------------------------
(* Properties. *)

Holds(files, atts) == \A f \in Files : atts[f] # None => files[f] = atts[f]

\* D25: wherever a handler stops, every attachment a jump.xml claims is on
\* disk with the claimed bytes, in jumps/ and in .trash/.
ClaimsBacked ==
    \A t \in {folder[n] : n \in {m \in Names : Valid(m)}}
            \cup {u \in trash : u.xml # None} :
        Holds(t.files, t.xml.atts)

\* A manifest may be stale about jump.xml, never about an attachment:
\* `shasum -c` finds every attachment it lists, because a file is unlinked
\* only after the manifest has forgotten it.
SumsBacked ==
    \A n \in Names : folder[n] # None /\ folder[n].sums # None =>
        Holds(folder[n].files, folder[n].sums.atts)

\* No sequence of renames, deletes, failures and retries leaves one jump in
\* two folders, of jumps/ or of .trash/.
OneHome ==
    /\ \A m, n \in Names : Valid(m) /\ Valid(n) /\ folder[m].xml.id = folder[n].xml.id
          => m = n
    /\ \A n \in Names, t \in trash : Valid(n) /\ t.xml # None
          => folder[n].xml.id # t.xml.id

\* D3: with no handler running and none stopped half-way so far, the index is
\* exactly what the folders say.
IndexMirrorsDisk ==
    op = None /\ faults = 0 =>
        \A i \in Ids : row[i] =
            IF \E n \in Names : Valid(n) /\ folder[n].xml.id = i
            THEN LET n == CHOOSE m \in Names : Valid(m) /\ folder[m].xml.id = i
                 IN  RowFor(folder[n].xml, n)
            ELSE None

IdsKept == {d.id : d \in DocsOnDisk \cup DocsInTrash}

\* A jump whose jump.xml once reached the disk stays on disk, in jumps/ or in
\* .trash/, whatever happens next (D19: nothing is destroyed).
JumpsNeverLost == [][IdsKept \subseteq IdsKept']_vars

NumbersUnique ==
    \A m, n \in Names : Valid(m) /\ Valid(n) /\ folder[m].xml.num = folder[n].xml.num
        => m = n

\* D23: two active jumps come to share a number only next to a folder whose
\* name still carries the number a stopped update_jump took from it.
DuplicatesNeedTornRenumber ==
    [][NumbersUnique /\ ~NumbersUnique' =>
         \E n \in Names : Valid(n) /\ folder[n].xml.num # n[1]]_vars

\* The rebuild that main.py relies on: when it commits, every folder with a
\* readable jump.xml and a current manifest has the row its jump.xml asks for,
\* whatever rows earlier failures left; only a folder whose manifest could not
\* be rewritten may be missing.
RebuildCovers ==
    [][RxCommit => \A n \in Names : Valid(n) /\ folder[n].sums = folder[n].xml =>
         row'[folder[n].xml.id] = RowFor(folder[n].xml, n)]_vars

-----------------------------------------------------------------------------
(* What the documents say and the code does not do: README, "Findings". *)

\* jump_service.py:458: "Read a jump by id": the folder a row leads to holds
\* the jump that was asked for.
ReadsTheRequestedJump ==
    \A i \in Ids : op = None /\ Opens(i) => folder[row[i].folder].xml.id = i

\* reindex_service.py:192: a reindex is "safe at any time": with no failure
\* at all, a deleted jump (DECISIONS.md:2007: "GET returns 404") stays out of
\* the index.
DeletedStaysOut ==
    op = None /\ faults = 0 => \A t \in trash : t.xml # None => row[t.xml.id] = None

=============================================================================
