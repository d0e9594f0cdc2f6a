----------------------------- MODULE VerifyScan -----------------------------
(***************************************************************************)
(* verify_logbook (storage/verify.py, GET /verify, scripts/verify.py): the *)
(* integrity walk, beside the handlers of JumpStore.  It takes no lock and *)
(* reads each folder in steps, so a handler, a rename or a deletion may    *)
(* come between any two of them; files also rot or vanish on their own.    *)
(*                                                                         *)
(* jump.xml parses or is missing (JumpStore writes nothing else), is_file  *)
(* and the read that follows it at once are one step, and the reindex does *)
(* not run here.  Every jump refers to one and the same dropzone.          *)
(***************************************************************************)
EXTENDS JumpStore

CONSTANTS
    MaxRaces    \* bound on the steps of others within one walk

ASSUME RacesAssumption == MaxRaces \in Nat

FileKinds == {"missing_attachment", "attachment_mismatch", "orphan_file"}

Kinds == FileKinds \cup {"invalid_folder", "stale_manifest",
                         "duplicate_jump_number", "dangling_reference"}

\* What, where, about what: where is an active folder, or None for a folder of
\* .trash/; a file kind is about a file.  The report of a number with several
\* claimants is kept as the pairs of them.
Issues == Kinds \X (Names \cup {None}) \X (Names \cup Files \cup {None})

VARIABLES
    scan,    \* the walk
    alive    \* the dropzone that the jumps refer to is active

\* at, doc: the folder under inspection and jump.xml as the first read saw it;
\* files, file: claimed attachments to check, and the one being hashed;
\* sums: SHA256SUMS as read;
\* seen: folders inspected; nums: folder and number of each jump.
\* calm, lasting and races are history: nothing changed since the walk began,
\* the issues that were there all the time, the steps of others.
WalkIdle ==
    [pc |-> "idle", todo |-> {}, at |-> None, doc |-> None, files |-> {},
     file |-> None, sums |-> None, seen |-> {}, nums |-> {}, report |-> {},
     calm |-> TRUE, lasting |-> {}, races |-> 0]

WalkSteps == {"idle", "look", "stat", "hash", "expect", "orphans",
              "refs", "done", "raised"}

Scans ==
    [pc : WalkSteps, todo : SUBSET Names, at : Names \cup {None}, doc : Docs \cup {None},
     files : SUBSET Files, file : Files \cup {None}, sums : Docs \cup {None},
     seen : SUBSET Names, nums : SUBSET (Names \X Nums), report : SUBSET Issues,
     calm : BOOLEAN, lasting : SUBSET Issues, races : 0..MaxRaces]

WalkTypeOK == TypeOK /\ alive \in BOOLEAN /\ scan \in Scans

WalkInit == Init /\ scan = WalkIdle /\ alive = TRUE

-----------------------------------------------------------------------------
(* What there is to report, from the definition of each issue (D25, D23,    *)
(* D54) over the whole logbook at one instant.                              *)

Claimed(d) == {f \in Files : d.atts[f] # None}

\* Folder g has issue k, about x.
FolderIssue(g, k, x) ==
    IF g.xml = None THEN k = "invalid_folder" /\ x = None
    ELSE \/ /\ k = "missing_attachment"
            /\ x \in Claimed(g.xml) /\ g.files[x] = None
         \/ /\ k = "attachment_mismatch"
            /\ x \in Claimed(g.xml) /\ g.files[x] \notin {None, g.xml.atts[x]}
         \/ /\ k = "orphan_file"
            /\ x \in Files \ Claimed(g.xml) /\ g.files[x] # None
         \/ k = "stale_manifest" /\ x = None /\ g.sums # g.xml

IssueIn(jumps, dz, k, n, x) ==
    \/ FolderIssue(jumps[n], k, x)
    \/ /\ k = "duplicate_jump_number" /\ jumps[n].xml # None
       /\ x \in Names \ {n} /\ jumps[x] # None /\ jumps[x].xml # None
       /\ jumps[x].xml.num = jumps[n].xml.num
    \/ k = "dangling_reference" /\ x = None /\ jumps[n].xml # None /\ ~dz

Truth(jumps, trashed, dz) ==
    {i \in Issues :
        IF i[2] = None THEN \E t \in trashed : FolderIssue(t, i[1], i[3])
        ELSE jumps[i[2]] # None /\ IssueIn(jumps, dz, i[1], i[2], i[3])}

-----------------------------------------------------------------------------
(* The walk. *)

Active == {n \in Names : folder[n] # None}

\* sorted(active_dir.iterdir()): the folders are listed once.
WalkStarts ==
    /\ scan.pc = "idle"
    /\ scan' = [WalkIdle EXCEPT !.pc = "look", !.todo = Active,
                                !.lasting = Truth(folder, trash, alive)]

\* The order of the names.
First == CHOOSE n \in scan.todo : TRUE

Report(k, at, x) == scan.report \cup {<<k, at, x>>}

\* Mutant: a folder without a readable jump.xml is passed over.
MutLook(n) ==
    /\ scan.pc = "look" /\ scan.todo # {} /\ n = First
    /\ scan' = IF Valid(n)
               THEN [scan EXCEPT !.todo = @ \ {n}, !.seen = @ \cup {n}, !.at = n,
                                 !.doc = folder[n].xml, !.pc = "stat",
                                 !.files = Claimed(folder[n].xml),
                                 !.nums = @ \cup {<<n, folder[n].xml.num>>}]
               ELSE [scan EXCEPT !.todo = @ \ {n}]

\* _verify_folder: is_file, parse, validate, and what jump.xml claims.
Look(n) ==
    /\ scan.pc = "look" /\ scan.todo # {} /\ n = First
    /\ scan' = IF Valid(n)
               THEN [scan EXCEPT !.todo = @ \ {n}, !.seen = @ \cup {n}, !.at = n,
                                 !.doc = folder[n].xml, !.pc = "stat",
                                 !.files = Claimed(folder[n].xml),
                                 !.nums = @ \cup {<<n, folder[n].xml.num>>}]
               ELSE [scan EXCEPT !.todo = @ \ {n}, !.seen = @ \cup {n},
                                 !.report = Report("invalid_folder", n, None)]

Holding(f) == folder[scan.at] # None /\ folder[scan.at].files[f] # None

\* Check 2, is_file.
Stat(f) ==
    /\ scan.pc = "stat" /\ f \in scan.files
    /\ scan' = IF Holding(f)
               THEN [scan EXCEPT !.pc = "hash", !.files = @ \ {f}, !.file = f]
               ELSE [scan EXCEPT !.files = @ \ {f},
                                 !.report = Report("missing_attachment", scan.at, f)]

\* open() of a file that is gone: FileNotFoundError, and no report at all.
Raise == scan' = [WalkIdle EXCEPT !.pc = "raised"]

\* Check 2, sha256_file.
Hash ==
    /\ scan.pc = "hash"
    /\ IF ~Holding(scan.file) THEN Raise
       ELSE scan' = [scan EXCEPT !.pc = "stat", !.file = None,
                       !.report = IF folder[scan.at].files[scan.file] = scan.doc.atts[scan.file]
                                  THEN @ ELSE Report("attachment_mismatch", scan.at, scan.file)]

\* Check 3: SHA256SUMS is read ...
ReadSums ==
    /\ scan.pc = "stat" /\ scan.files = {}
    /\ scan' = IF folder[scan.at] = None \/ folder[scan.at].sums = None
               THEN [scan EXCEPT !.pc = "orphans",
                                 !.report = Report("stale_manifest", scan.at, None)]
               ELSE [scan EXCEPT !.pc = "expect", !.sums = folder[scan.at].sums]

\* ... and from_jump_xml reads jump.xml a second time.
Expect ==
    /\ scan.pc = "expect"
    /\ IF ~Valid(scan.at) THEN Raise
       ELSE scan' = [scan EXCEPT !.pc = "orphans", !.sums = None,
                       !.report = IF folder[scan.at].xml = scan.sums
                                  THEN @ ELSE Report("stale_manifest", scan.at, None)]

\* Mutant: the claims are not consulted.
MutOrphan(f) == Holding(f)

\* Surplus to what jump.xml claimed at the first read.
Orphan(f) == Holding(f) /\ scan.doc.atts[f] = None

\* Check 4: rglob of a folder that went away yields nothing.
Orphans ==
    /\ scan.pc = "orphans"
    /\ scan' = [scan EXCEPT !.pc = "look", !.at = None, !.doc = None,
                  !.report = @ \cup {i \in {"orphan_file"} \X {scan.at} \X Files : Orphan(i[3])}]

\* by_key: a number that two of the folders inspected carried.
Duplicated ==
    {i \in {"duplicate_jump_number"} \X Names \X Names :
        i[2] # i[3] /\ \E j \in Nums : {<<i[2], j>>, <<i[3], j>>} \subseteq scan.nums}

\* _TRASH_JUMP_NAME_RE: the same checks for a folder of .trash/.
Trashed ==
    {i \in Issues : i[2] = None /\ \E t \in trash : FolderIssue(t, i[1], i[3])}

\* _collect_entity_ids: the dropzone has its file in dropzones/.
Resolves == alive

\* Trashed folders do not change: they are checked in one step, with the
\* duplicate numbers and the walk of _collect_entity_ids.
Trash ==
    /\ scan.pc = "look" /\ scan.todo = {}
    /\ scan' = [scan EXCEPT !.pc = "refs", !.nums = {}, !.seen = {},
                  !.todo = IF Resolves THEN {} ELSE scan.seen,
                  !.report = @ \cup (Trashed \cup Duplicated)]

\* _check_dangling_references reads jump.xml a third time; there is nothing to
\* find in any folder if the dropzone was among the entities collected.
References(n) ==
    /\ scan.pc = "refs" /\ scan.todo # {} /\ n = First
    /\ scan' = [scan EXCEPT !.todo = @ \ {n},
                  !.report = IF Valid(n)
                             THEN Report("dangling_reference", n, None) ELSE @]

Report200 ==
    /\ scan.pc = "refs" /\ scan.todo = {}
    /\ scan' = [scan EXCEPT !.pc = "done", !.races = 0]

\* The report is returned, or the error is (500).
WalkEnds ==
    /\ scan.pc \in {"done", "raised"}
    /\ scan' = WalkIdle

Step ==
    \/ WalkStarts \/ Hash \/ ReadSums \/ Expect \/ Orphans
    \/ Trash \/ Report200 \/ WalkEnds
    \/ \E n \in Names : Look(n) \/ References(n)
    \/ \E f \in Files : Stat(f)

-----------------------------------------------------------------------------
(* The others. *)

\* A file appears, changes or vanishes on its own: a user's copy (D41), decay, a
\* sync client, an editor; counted with the faults.
Decay(n, f, c) ==
    /\ faults < MaxFaults
    /\ folder[n] # None /\ folder[n].files[f] # c
    /\ folder' = [folder EXCEPT ![n].files[f] = c]
    /\ faults' = faults + 1
    /\ UNCHANGED <<trash, row, op, rx, alive>>

\* delete_dropzone: its file leaves dropzones/.
DropzoneDeleted ==
    /\ alive
    /\ alive' = FALSE
    /\ UNCHANGED vars

Others ==
    \/ (Request \/ Handler \/ HandlerFails \/ Crash) /\ UNCHANGED alive
    \/ \E n \in Names, f \in Files, c \in Contents \cup {None} : Decay(n, f, c)
    \/ DropzoneDeleted

Walking == scan.pc \notin {"idle", "done", "raised"}

\* A walk does not see the steps of others; only its history does.  An answer
\* is on its way at once.
Watch ==
    IF ~Walking THEN scan.pc = "idle" /\ UNCHANGED scan
    ELSE /\ scan.races < MaxRaces
         /\ scan' = [scan EXCEPT !.races = @ + 1,
                       !.calm = @ /\ UNCHANGED <<folder, trash, alive>>,
                       !.lasting = @ \cap Truth(folder', trash', alive')]

WalkNext ==
    \/ Step /\ UNCHANGED <<vars, alive>>
    \/ Others /\ Watch

WalkSpec == WalkInit /\ [][WalkNext]_<<vars, scan, alive>>

-----------------------------------------------------------------------------
(* Properties. *)

\* A walk during which nothing changes reports exactly what is there: so the
\* false alarm of a racing write is gone at the next calm walk.
CalmReportIsExact ==
    scan.pc = "done" /\ scan.calm => scan.report = Truth(folder, trash, alive)

\* No handler, rename, deletion or decay that comes between the reads of a walk
\* hides an issue that was there all the time: a claim without its bytes, a
\* stale manifest, a duplicate number.
LastingIssuesReported == scan.pc = "done" => scan.lasting \subseteq scan.report

=============================================================================
