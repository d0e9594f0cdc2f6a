---------------------------- MODULE JumperStore ----------------------------
(***************************************************************************)
(* Jumpers, their credentials and the cards that back them:                *)
(* services/jumper_service.py, services/jumper_credential_service.py,      *)
(* storage/jumper_attachments.py, and storage/jumper_migration.py, which   *)
(* bootstrap_logbook runs before the server accepts requests.              *)
(*                                                                         *)
(* jumpers/<uuid>/ holds jumper.xml, SHA256SUMS and attachments/.  A       *)
(* credential may name an attachment as its card; nothing but the two      *)
(* checks of the services keeps such a name from dangling.  Every handler  *)
(* holds WRITER_LOCK, reads jumper.xml once and then takes its durable     *)
(* steps one by one; an error or a kill drops the steps that are left.     *)
(***************************************************************************)
EXTENDS Naturals, FiniteSets

CONSTANTS
    Jumpers,    \* jumper UUIDs
    Atts,       \* attachment UUIDs: the file is <uuid>__<name>
    Creds,      \* credential UUIDs
    Contents,   \* file bytes, identified with their SHA-256
    None,       \* no value
    MaxFaults,  \* bound on the handlers and boots that stop half-way
    MaxRot      \* bound on the files that change by themselves

ASSUME BoundsAssumption == MaxFaults \in Nat /\ MaxRot \in Nat

\* The five collections of a jumper.
Kinds == {"memberships", "cops", "ratings", "tandem_ratings", "medicals"}

Credentials == [kind : Kinds, card : Atts \cup {None}]
Files == [Atts -> Contents \cup {None}]

\* The name, the weight and the dates are not told apart.
Docs == [atts : Files, creds : [Creds -> Credentials \cup {None}]]

\* fresh: the digest is that of the jumper.xml on disk (every write changes
\* updated_at, so two writes never have the same bytes).
Manifests == [fresh : BOOLEAN, files : Files]

Folders == [xml : Docs \cup {None}, sums : Manifests \cup {None}, files : Files]

Handlers == {"create", "write", "add", "unattach", "migrate"}
Steps == {"stream", "xml", "sums", "unlink"}
Ops == [h : Handlers, pc : Steps, j : Jumpers, doc : Docs, att : Atts \cup {None}]

ASSUME NoneAssumption ==
    /\ None \notin Contents /\ None \notin Atts /\ None \notin Credentials
    /\ None \notin Docs /\ None \notin Manifests /\ None \notin Folders
    /\ None \notin Ops /\ None \notin {"valid", "corrupt"}

VARIABLES
    legacy,   \* jumpers/<uuid>.xml of the old layout: valid, corrupt or None
    folder,   \* jumpers/<uuid>/, or None
    trash,    \* what delete_jumper moved: pairs of a jumper and its folder
    op,       \* the handler that holds WRITER_LOCK, or the migration, or None
    mode,     \* "stopped", "boot" (migrate_all_jumpers) or "serving"
    todo,     \* legacy files the running migration has yet to visit
    faults,   \* handlers and boots stopped so far
    rot       \* files changed by themselves so far

vars == <<legacy, folder, trash, op, mode, todo, faults, rot>>

NoFiles  == [a \in Atts |-> None]
EmptyDoc == [atts |-> NoFiles, creds |-> [c \in Creds |-> None]]
EmptyDir == [xml |-> None, sums |-> None, files |-> NoFiles]

TypeOK ==
    /\ legacy \in [Jumpers -> {"valid", "corrupt", None}]
    /\ folder \in [Jumpers -> Folders \cup {None}]
    /\ trash \in SUBSET (Jumpers \X Folders)
    /\ op \in Ops \cup {None}
    /\ mode \in {"stopped", "boot", "serving"}
    /\ todo \subseteq Jumpers
    /\ faults \in 0..MaxFaults
    /\ rot \in 0..MaxRot

\* A logbook of the flat layout, or a new one.
Init ==
    /\ legacy \in [Jumpers -> {"valid", "corrupt", None}]
    /\ folder = [j \in Jumpers |-> None]
    /\ trash = {} /\ op = None /\ mode = "stopped" /\ todo = {}
    /\ faults = 0 /\ rot = 0

-----------------------------------------------------------------------------
(* What the handlers read. *)

Idle == mode = "serving" /\ op = None

\* _read_jumper: the folder exists and holds a readable jumper.xml.
Reads(j) == folder[j] # None /\ folder[j].xml # None

Doc(j) == folder[j].xml

\* uuid4 never repeats.
FreshJumper(j) ==
    legacy[j] = None /\ folder[j] = None /\ \A t \in trash : t[1] # j

AttsIn(f) ==
    {a \in Atts : \/ f.files[a] # None
                  \/ f.xml # None /\ f.xml.atts[a] # None
                  \/ f.sums # None /\ f.sums.files[a] # None}

FreshAtt(a) ==
    /\ \A j \in Jumpers : folder[j] # None => a \notin AttsIn(folder[j])
    /\ \A t \in trash : a \notin AttsIn(t[2])

FreshCred(c) ==
    /\ \A j \in Jumpers : Reads(j) => Doc(j).creds[c] = None
    /\ \A t \in trash : t[2].xml # None => t[2].xml.creds[c] = None

\* Mutant: the collection added last is not searched.
MutReferenced(d, a) ==
    \E c \in Creds : d.creds[c] # None /\ d.creds[c].card = a
                       /\ d.creds[c].kind # "medicals"

\* _credentials_referencing searches all five collections.
Referenced(d, a) == \E c \in Creds : d.creds[c] # None /\ d.creds[c].card = a

\* _assert_attachment_exists
CardExists(d, card) == card # None => d.atts[card] # None

Run(h, pc, j, d, a) == op' = [h |-> h, pc |-> pc, j |-> j, doc |-> d, att |-> a]

-----------------------------------------------------------------------------
(* The handlers of jumper_service. *)

CreateJumper(j) ==
    /\ Idle /\ FreshJumper(j)
    /\ folder' = [folder EXCEPT ![j] = EmptyDir]
    /\ Run("create", "xml", j, EmptyDoc, None)
    /\ UNCHANGED <<legacy, trash, mode, todo, faults, rot>>

\* _write_jumper of an existing folder: mkdir changes nothing.
Write(j, d) ==
    /\ Run("write", "xml", j, d, None)
    /\ UNCHANGED <<legacy, folder, trash, mode, todo, faults, rot>>

\* update_jumper replaces the identity and keeps collections and attachments.
UpdateJumper(j) == Idle /\ Reads(j) /\ Write(j, Doc(j))

\* The folder moves whole, readable or not.
DeleteJumper(j) ==
    /\ Idle /\ folder[j] # None
    /\ folder' = [folder EXCEPT ![j] = None]
    /\ trash' = trash \cup {<<j, folder[j]>>}
    /\ UNCHANGED <<legacy, op, mode, todo, faults, rot>>

\* The digest claimed is that of the stream that is about to be written.
AddAttachment(j, a, c) ==
    /\ Idle /\ Reads(j) /\ FreshAtt(a)
    /\ Run("add", "stream", j, [Doc(j) EXCEPT !.atts[a] = c], a)
    /\ UNCHANGED <<legacy, folder, trash, mode, todo, faults, rot>>

\* Refused with 409 while a credential names the attachment.
DeleteAttachment(j, a) ==
    /\ Idle /\ Reads(j)
    /\ Doc(j).atts[a] # None /\ ~Referenced(Doc(j), a)
    /\ Run("unattach", "xml", j, [Doc(j) EXCEPT !.atts[a] = None], a)
    /\ UNCHANGED <<legacy, folder, trash, mode, todo, faults, rot>>

-----------------------------------------------------------------------------
(* The handlers of jumper_credential_service: _load_jumper, the checks, and *)
(* _persist_with_credentials_update, the same for the five collections.     *)

Has(j, kind, c) == Reads(j) /\ Doc(j).creds[c] # None /\ Doc(j).creds[c].kind = kind

AddCredential(kind, j, c, card) ==
    /\ Idle /\ Reads(j) /\ FreshCred(c) /\ CardExists(Doc(j), card)
    /\ Write(j, [Doc(j) EXCEPT !.creds[c] = [kind |-> kind, card |-> card]])

UpdateCredential(kind, j, c, card) ==
    /\ Idle /\ Has(j, kind, c) /\ CardExists(Doc(j), card)
    /\ Write(j, [Doc(j) EXCEPT !.creds[c].card = card])

\* Mutant: the record is blanked and stays in its collection.
MutDeleteCredential(kind, j, c) ==
    /\ Idle /\ Has(j, kind, c)
    /\ Write(j, [Doc(j) EXCEPT !.creds[c] = [kind |-> None, card |-> None]])

DeleteCredential(kind, j, c) ==
    /\ Idle /\ Has(j, kind, c)
    /\ Write(j, [Doc(j) EXCEPT !.creds[c] = None])

AddMembership(j, c, card)      == AddCredential("memberships", j, c, card)
UpdateMembership(j, c, card)   == UpdateCredential("memberships", j, c, card)
DeleteMembership(j, c)         == DeleteCredential("memberships", j, c)
AddCop(j, c, card)             == AddCredential("cops", j, c, card)
UpdateCop(j, c, card)          == UpdateCredential("cops", j, c, card)
DeleteCop(j, c)                == DeleteCredential("cops", j, c)
AddRating(j, c, card)          == AddCredential("ratings", j, c, card)
UpdateRating(j, c, card)       == UpdateCredential("ratings", j, c, card)
DeleteRating(j, c)             == DeleteCredential("ratings", j, c)
AddTandemRating(j, c, card)    == AddCredential("tandem_ratings", j, c, card)
UpdateTandemRating(j, c, card) == UpdateCredential("tandem_ratings", j, c, card)
DeleteTandemRating(j, c)       == DeleteCredential("tandem_ratings", j, c)
AddMedical(j, c, card)         == AddCredential("medicals", j, c, card)
UpdateMedical(j, c, card)      == UpdateCredential("medicals", j, c, card)
DeleteMedical(j, c)            == DeleteCredential("medicals", j, c)

\* reset_tandem_rating_currency stamps a date, the card stays unchecked.
ResetTandemRatingCurrency(j, c) ==
    Idle /\ Has(j, "tandem_ratings", c) /\ Write(j, Doc(j))

-----------------------------------------------------------------------------
(* The durable steps. *)

At(pc) == op # None /\ op.pc = pc

\* write_attachment_stream
StreamAttachment ==
    /\ At("stream")
    /\ folder' = [folder EXCEPT ![op.j].files[op.att] = op.doc.atts[op.att]]
    /\ op' = [op EXCEPT !.pc = "xml"]
    /\ UNCHANGED <<legacy, trash, mode, todo, faults, rot>>

\* SHA256SUMS, if there is one, no longer holds the digest of jumper.xml.
Stale(s) == IF s = None THEN None ELSE [s EXCEPT !.fresh = FALSE]

WriteJumperXml ==
    /\ At("xml")
    /\ folder' = [folder EXCEPT ![op.j].xml = op.doc, ![op.j].sums = Stale(@)]
    /\ op' = [op EXCEPT !.pc = "sums"]
    /\ UNCHANGED <<legacy, trash, mode, todo, faults, rot>>

\* Mutant: every handler hashes what is on disk.
MutManifest(f, h) == [fresh |-> TRUE, files |-> f.files]

\* add and delete derive SHA256SUMS from the claims (from_jumper_xml); the
\* others hash every file of the folder (generate).
Manifest(f, h) ==
    [fresh |-> TRUE,
     files |-> IF h \in {"add", "unattach"} THEN f.xml.atts ELSE f.files]

\* Mutant: a deleted attachment stays in SHA256SUMS until the next write.
MutWriteManifest ==
    /\ At("sums")
    /\ folder' = IF op.h = "unattach" THEN folder
                 ELSE [folder EXCEPT ![op.j].sums = Manifest(folder[op.j], op.h)]
    /\ op' = IF op.h \in {"unattach", "migrate"} THEN [op EXCEPT !.pc = "unlink"] ELSE None
    /\ UNCHANGED <<legacy, trash, mode, todo, faults, rot>>

WriteManifest ==
    /\ At("sums")
    /\ folder' = [folder EXCEPT ![op.j].sums = Manifest(folder[op.j], op.h)]
    /\ op' = IF op.h \in {"unattach", "migrate"} THEN [op EXCEPT !.pc = "unlink"] ELSE None
    /\ UNCHANGED <<legacy, trash, mode, todo, faults, rot>>

\* delete_attachment_file; a file that is gone already is a warning.
UnlinkAttachment ==
    /\ At("unlink") /\ op.h = "unattach"
    /\ folder' = [folder EXCEPT ![op.j].files[op.att] = None]
    /\ op' = None
    /\ UNCHANGED <<legacy, trash, mode, todo, faults, rot>>

-----------------------------------------------------------------------------
(* Boot: migrate_all_jumpers moves every flat file into a folder. *)

Boot ==
    /\ mode = "stopped"
    /\ mode' = "boot" /\ todo' = {j \in Jumpers : legacy[j] # None}
    /\ UNCHANGED <<legacy, folder, trash, op, faults, rot>>

\* Case 1: the folder has its jumper.xml, an earlier migration did not end.
CleanUpLegacy(j) ==
    /\ mode = "boot" /\ op = None /\ j \in todo /\ Reads(j)
    /\ legacy' = [legacy EXCEPT ![j] = None]
    /\ todo' = todo \ {j}
    /\ UNCHANGED <<folder, trash, op, mode, faults, rot>>

\* A file that does not validate stays where it is, with a warning.
SkipCorrupt(j) ==
    /\ mode = "boot" /\ op = None /\ j \in todo /\ ~Reads(j) /\ legacy[j] = "corrupt"
    /\ todo' = todo \ {j}
    /\ UNCHANGED <<legacy, folder, trash, op, mode, faults, rot>>

\* Mutant: the flat file is renamed away before the folder has a document.
MutMigrate(j) ==
    /\ mode = "boot" /\ op = None /\ j \in todo /\ ~Reads(j) /\ legacy[j] = "valid"
    /\ legacy' = [legacy EXCEPT ![j] = None]
    /\ folder' = [folder EXCEPT ![j] = IF @ = None THEN EmptyDir ELSE @]
    /\ Run("migrate", "xml", j, EmptyDoc, None)
    /\ todo' = todo \ {j}
    /\ UNCHANGED <<trash, mode, faults, rot>>

\* The flat layout had neither credentials nor attachments.
Migrate(j) ==
    /\ mode = "boot" /\ op = None /\ j \in todo /\ ~Reads(j) /\ legacy[j] = "valid"
    /\ folder' = [folder EXCEPT ![j] = IF @ = None THEN EmptyDir ELSE @]
    /\ Run("migrate", "xml", j, EmptyDoc, None)
    /\ todo' = todo \ {j}
    /\ UNCHANGED <<legacy, trash, mode, faults, rot>>

UnlinkLegacy ==
    /\ At("unlink") /\ op.h = "migrate"
    /\ legacy' = [legacy EXCEPT ![op.j] = None]
    /\ op' = None
    /\ UNCHANGED <<folder, trash, mode, todo, faults, rot>>

BootDone ==
    /\ mode = "boot" /\ op = None /\ todo = {}
    /\ mode' = "serving"
    /\ UNCHANGED <<legacy, folder, trash, op, todo, faults, rot>>

-----------------------------------------------------------------------------
(* The environment. *)

\* A file's bytes change under the program: decay, a sync client, an editor.
Rot(j, a, c) ==
    /\ rot < MaxRot /\ folder[j] # None
    /\ folder[j].files[a] \notin {None, c}
    /\ folder' = [folder EXCEPT ![j].files[a] = c]
    /\ rot' = rot + 1
    /\ UNCHANGED <<legacy, trash, op, mode, todo, faults>>

\* An I/O error leaves the handler between two steps.
HandlerFails ==
    /\ op # None /\ mode = "serving" /\ faults < MaxFaults
    /\ op' = None /\ faults' = faults + 1
    /\ UNCHANGED <<legacy, folder, trash, mode, todo, rot>>

\* A kill, or an OSError in the migration, which main.py does not catch.
Crash ==
    /\ op # None \/ mode = "boot"
    /\ faults < MaxFaults
    /\ op' = None /\ mode' = "stopped" /\ todo' = {} /\ faults' = faults + 1
    /\ UNCHANGED <<legacy, folder, trash, rot>>

Quit ==
    /\ Idle
    /\ mode' = "stopped"
    /\ UNCHANGED <<legacy, folder, trash, op, todo, faults, rot>>

-----------------------------------------------------------------------------
CredentialRequest ==
    \E j \in Jumpers, c \in Creds :
        \/ \E card \in Atts \cup {None} :
             \/ AddMembership(j, c, card)   \/ UpdateMembership(j, c, card)
             \/ AddCop(j, c, card)          \/ UpdateCop(j, c, card)
             \/ AddRating(j, c, card)       \/ UpdateRating(j, c, card)
             \/ AddTandemRating(j, c, card) \/ UpdateTandemRating(j, c, card)
             \/ AddMedical(j, c, card)      \/ UpdateMedical(j, c, card)
        \/ DeleteMembership(j, c) \/ DeleteCop(j, c) \/ DeleteRating(j, c)
        \/ DeleteTandemRating(j, c) \/ DeleteMedical(j, c)
        \/ ResetTandemRatingCurrency(j, c)

Request ==
    \/ \E j \in Jumpers :
         \/ CreateJumper(j) \/ UpdateJumper(j) \/ DeleteJumper(j)
         \/ \E a \in Atts : DeleteAttachment(j, a)
                              \/ \E c \in Contents : AddAttachment(j, a, c)
    \/ CredentialRequest

Perform ==
    StreamAttachment \/ WriteJumperXml \/ WriteManifest \/ UnlinkAttachment

Start ==
    \/ Boot \/ UnlinkLegacy \/ BootDone
    \/ \E j \in Jumpers : CleanUpLegacy(j) \/ SkipCorrupt(j) \/ Migrate(j)

Environment ==
    \/ \E j \in Jumpers, a \in Atts, c \in Contents : Rot(j, a, c)
    \/ HandlerFails \/ Crash \/ Quit

Next == Request \/ Perform \/ Start \/ Environment

Spec == Init /\ [][Next]_vars

-----------------------------------------------------------------------------
(* Properties. *)

OnDisk == {folder[j] : j \in {k \in Jumpers : folder[k] # None}} \cup {t[2] : t \in trash}

\* D47: whatever stopped where, no jumper.xml, active or in the trash, has a
\* credential whose card is not among that jumper's attachments.
CardsResolve ==
    \A f \in OnDisk : f.xml # None =>
        \A c \in Creds : f.xml.creds[c] # None /\ f.xml.creds[c].card # None =>
            f.xml.atts[f.xml.creds[c].card] # None

\* D25 for jumpers: every attachment that jumper.xml or SHA256SUMS names is a
\* file of the folder, at every instant and after every crash.
NamedFilesExist ==
    \A f \in OnDisk, a \in Atts :
        /\ f.xml # None /\ f.xml.atts[a] # None => f.files[a] # None
        /\ f.sums # None /\ f.sums.files[a] # None => f.files[a] # None

\* With nothing stopped so far and nothing rotted, a jumper at rest has a
\* SHA256SUMS that is exactly what its jumper.xml claims.
SumsMatchXml ==
    op = None /\ faults = 0 /\ rot = 0 =>
        \A j \in Jumpers : folder[j] # None =>
            /\ Reads(j)
            /\ folder[j].sums = [fresh |-> TRUE, files |-> Doc(j).atts]

Kept ==
    {j \in Jumpers : legacy[j] # None \/ Reads(j)
                       \/ \E t \in trash : t[1] = j /\ t[2].xml # None}

\* D47: no step of the migration, of a crash in it or of any handler loses a
\* jumper: its document is a flat file, in its folder or in the trash.
JumpersKept == [][Kept \subseteq Kept']_vars

=============================================================================
