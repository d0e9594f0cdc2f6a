# Skydive logbook: a verification project

TLA+ modules, TLC runs and TLAPS proofs for the backend of the skydive logbook
(`src/backend`). Line numbers refer to the commit this directory sits beside.

## 1. The system

One process per data folder. A FastAPI application serves the REST API to one
user on the local machine; FastAPI runs each synchronous handler on a thread of
its pool, so requests overlap. The XML files and the attachments under the data
folder are the truth (D3); `.index/index.db` (SQLite) caches what lists and
look-ups need and can be rebuilt from the files. There is no log and no
multi-file transaction: every handler is a chain of steps that are each
atomic (replace one file, rename or move one folder, commit one statement), and
what makes the system correct is the order of the chain.

### Inventory

| Component | Source | State | Operations | Hard part |
|---|---|---|---|---|
| Jump service | `services/jump_service.py` | `jumps/[N] title/` = `jump.xml`, `SHA256SUMS`, attachments; row of `jumps` | get, list files, create, track, add, delete attachment, update, delete | four durable steps a handler, any of which may be the last; drop-ins by the user; number taken twice |
| Reindex | `services/reindex_service.py`, `scripts/reindex.py`, `POST /reindex` | the SQLite tables | load every folder (healing manifests), then one transaction | the online form takes no lock; jumps and rigs are inserted or replaced, the other tables are cleared |
| Rig service | `services/rig_service.py` | `rigs/<id>/rig.xml` (component refs, star, order), components' `assigned_rig_id` | create, update, set star, reorder, swap main, delete | a rig and four components are written one after the other |
| Component services | `main_`, `reserve_`, `aad_`, `container_service.py` | one folder each, `status`, `assigned_rig_id` | create, update, set assignment, delete | delete does not look at the assignment |
| Rig reconcile | `services/rig_reconcile_service.py` | components' `assigned_rig_id` | boot pass over rigs and components | repairs what a stopped swap left |
| Dropzone service | `services/dropzone_service.py` | `dropzones/<id>/dropzone.xml`, rows, one default star | create, update, set star, delete | the star lives in several files |
| People service | `services/people_service.py` | one XML per person, rows | create, update, delete | row and file |
| Jumper service | `services/jumper_service.py`, `jumper_credential_service.py`, `storage/jumper_attachments.py`, `storage/jumper_migration.py` | `jumpers/<id>/`: `jumper.xml`, `SHA256SUMS`, attachments; credentials | CRUD, attachments, credentials, one-time migration to a folder | the manifest is recomputed from the bytes on disk, the migration stops between two files |
| Index open | `storage/index.py` | `PRAGMA user_version`, the tables | open, compare, drop and create, quick check | the version is stamped before the rows are back |
| Boot | `main.py`, `storage/bootstrap.py`, `storage/lockfile.py` | `.index/lock` | lock, bootstrap, open index, reindex, reconcile rigs, serve, release | a boot that fails half-way and is started again |
| Writer lock | `services/_write_lock.py` | an RLock per process | `with_writer_lock` around every mutating service function | services call each other: re-entrancy, and functions that take no lock |
| File primitives | `storage/filesystem.py` | temporary files, targets | `atomic_write`, `atomic_write_stream`, names | power loss between write, fsync, replace and directory sync |
| Manifest, reconcile, verify | `storage/manifest.py`, `reconcile.py`, `verify.py` | `SHA256SUMS` | derive, parse, compare, heal, report | a manifest derived from claims or from bytes |
| Trash | `storage/trash.py` | `.trash/` | `soft_delete` | never overwrites an earlier trashed folder |
| Idempotency middleware | `api/middleware.py` | table `idempotency_keys` | look up, run the handler, store, purge | two requests with one key |
| REST, ops, errors, OpenAPI | `api/*.py` | none of its own | routing, validation, error envelopes | reads only |
| Onboarding, update check, stats, wear counts | `services/*.py` | a sentinel file; a cached answer; none | | small |
| XML | `xml/*.py` | none | parse, validate, serialize | pure functions |
| Models, config, logging | `models/`, `config.py`, `observability/` | none | | pure data |
| Desktop launcher, frontend | `scripts/launch_desktop.py`, `frontend/` | a child process; browser state | | outside the backend's own state |


### What must hold of each component

- *Jump store*: an attachment a `jump.xml` claims is on disk; a jump is in one
  folder; a jump that reached the disk is never lost; one number, one jump; the
  index says what the folders say; a deleted jump stays deleted.
- *Rigs and components*: a rig and its components name each other; at most one
  rig is starred and one is when there is a rig; the order is a numbering; the
  boot pass makes the files agree; a stop leaves at most one rig whose manifest
  does not certify its `rig.xml`.
- *Start*: one process on a folder; tables of the server's own schema; no start
  serves a half-built index; every start ends.
- *File primitives*: readers find whole documents; a write that returned stays.
- *Idempotency*: an answer that is replayed is that of the same request; a retry
  of a success does not run again within the day.
- *Dropzones and people*: a row follows its file; one dropzone is starred, and no
  stopped request leaves a logbook of dropzones without a star.
- *Jumpers*: a credential's card is an attachment of its jumper; a file that
  `jumper.xml` or `SHA256SUMS` names is there; the migration loses nobody.
- *Verify*: a calm walk reports exactly what is there; a racing one misses
  nothing that was there all the time.

## 2. The modules and the code

| Module | Models | Interacts with |
|---|---|---|
| `JumpStore` | `jump_service.py`, `reindex_service.py` (jumps), `manifest.py`, `reconcile.py`, `trash.py` as they call them | one handler (`op`) and one reindex (`rx`) over the folders and the table |
| `RigFleet` | `rig_service.py`, the four component services, `rig_reconcile_service.py` | one handler, or the boot pass, over rig and component files |
| `LogbookBoot` | `main.py`, `lockfile.py`, `open_index`, the launcher's start | processes over one lock and one index |
| `AtomicWrite` | `atomic_write`, `atomic_write_stream` over a POSIX directory | implements `AtomicFile` |
| `AtomicFile` | what D10 promises of a file (abstract) | |
| `IdempotencyKey` | `IdempotencyKeyMiddleware` | requests over one table |
| `JumperStore` | `jumper_service.py`, `jumper_credential_service.py`, `jumper_attachments.py`, `jumper_migration.py` | one handler over the folders; the migration before the server starts |
| `FlatStore` | `dropzone_service.py`, `people_service.py`, the reindex passes over their tables | one handler, and a reindex that takes no writer lock, over files and rows |
| `VerifyScan` | `verify.py`, `GET /verify`, `scripts/verify.py` | extends `JumpStore`: a walk that takes no lock beside the handlers |

How they compose. The steps of the four stores are "replace one file",
which is atomic because `AtomicWrite` implements `AtomicFile` under the writer
lock. That a single process takes them is `LogbookBoot`'s `OneInstance`. That
`JumpStore` may run its reindex alone (`OnlineReindex = FALSE`) is the phase
`"reindex"` of `LogbookBoot`, before `Serve`; `Boot` to `BootDone` of
`JumperStore` lies between its `Acquire` and its `OpenIndex`. `VerifyScan` takes every state and step of
`JumpStore` and adds a reader.

**State and actions.** In `JumpStore`, `folder` is the directory `jumps/`, by
name; a folder is the `jump.xml` it holds, the `jump.xml` its `SHA256SUMS` was
derived from, and its attachments. `op` is the handler that holds the writer
lock, with its program counter: one action per durable step (`StreamUpload`,
`WriteJumpXml`, `WriteManifest`, `RenameFolder`, `UnlinkAttachment`,
`MoveToTrash`, `CommitRow`; `RenameRefused` and `RowConflict` when the rename or
the statement is refused). What a handler does before its first durable step
(lookups, checks) is in the action that starts it, since the lock keeps the
others out. `HandlerFails` is an I/O error, `Crash` a kill; neither undoes
anything but `create_jump`'s own cleanup. `rx` is the reindex: two passes, a look
and a heal for each folder, one transaction.

In `RigFleet`, a handler computes its plan when it starts and then executes it
step by step; the plan is the sequence of files it writes, in the code's order,
so a stop after any prefix is a behaviour. `Boot`, `ReconcileComponent` and
`ReconcileDone` are the pass of `folder_reconcile_rigs`. `mode` is
"serving", "stopped" or "reconcile".

In `LogbookBoot`, `pc[p]` walks through `main()`; `version` is
`PRAGMA user_version`, `rows` the folders that have a row. `OpenIndex`,
`DropTables`, `CreateTables` and `StampVersion` are the durable steps of
`open_index` on its autocommit connection. A process in `Desktop` loses the lock
when it leaves `Acquire`, as the launcher's `FileLock` object does.

In `AtomicWrite`, a name leads to an inode; `survives` are the inodes the name
may lead to after a power loss, `flushed` those whose bytes survive. In
`IdempotencyKey`, actions are the stretches between two `await`s, except that
the INSERT and the DELETE, which are separate transactions, are two actions
between which only a crash or the clock can come (`LoopFree`).

In `JumperStore`, a folder is the document it holds, its `SHA256SUMS` and its
attachments; `legacy` are the flat files of the old layout. `add` and `delete`
derive the manifest from what `jumper.xml` claims, every other handler and the
migration hash what is in the folder (`Manifest`). `SHA256SUMS` is `fresh` until
`jumper.xml` is written again. `Rot` changes a file's bytes behind the program.

In `FlatStore`, a handler computes its plan, a sequence of saves, when it starts;
a save is `SaveFile` and then `SaveRow`. `SaveRow` waits while the reindex holds
SQLite's write lock, from the `DELETE` to the `COMMIT` of a pass, and
`HandlerFails` includes running into `busy_timeout`. `left` records the
entities whose row a stopped handler did not write, `op.agreed` whether rows and
files agreed when a request began. A kill is `HandlerFails` and then `PassFails`.
Which dropzone a delete elects, by latest jump or alphabet, is left open.

In `VerifyScan`, each read of `verify_logbook` is an action: `Look`, `Stat`,
`Hash`, `ReadSums`, `Expect`, `Orphans`, `References`. `Truth` states the issues
of a whole logbook at one instant, from their definitions, each of a file, a
folder or a pair of folders with one number; `calm` and `lasting`
are history variables that say whether anything changed during a walk and which
issues were there at every instant of it. `Decay` is a file that changes,
vanishes or appears by itself.

Data is abstracted to what the properties tell apart: a document is a record of
the fields that decide control; a digest is the content it is of; a name is the
number and title it is made from; times are small integers.

## 3. The runs

| Run | Shows | Bounds |
|---|---|---|
| `jump_faults` | `ClaimsBacked`, `SumsBacked`, `OneHome`, `IndexMirrorsDisk`, `JumpsNeverLost`, `DuplicatesNeedTornRenumber`, `RebuildCovers` | 2 jumps, 2 numbers, 2 titles, 1 file name, 2 contents, 2 stopped handlers; reindex alone |
| `jump_online_reindex` | `ClaimsBacked`, `OneHome` with `POST /reindex` beside the handlers | 1 jump, 2 numbers, 1 stopped handler |
| `rig_faults` | `RefsAgree`, `OneStaleManifestPerStop`, `TwoStarsOnlyWhileDeleting`, `SetStarRepairs`, `DeleteKeepsAStar`, `ReorderRepairs`, `ReconcileAgrees`, `RequestsKeepRigsActive` | 2 rigs, 2 nicknames, 2 kinds with 2 components each, 1 stop |
| `boot_main` | `OneInstance`, `ServerSeesItsSchema`, `NewerIndexKept`, `RebuildIsComplete`, `BootEnds` | 3 processes of 2 builds, 3 folders (2 share a number), 2 kills, edits by hand |
| `file_atomic` | `NeverTorn`, `AckedSurvives`, `Implements` | 2 writers one at a time, 2 documents, 4 inodes |
| `idempotency` | `ReplaysOwnAnswer`, `LiveRowsStay`, `RetryIsReplayed` | 3 requests, 2 keys, 2 hashes, a row lives 2 ticks of 3, 1 fault |
| `jumper_faults` | `CardsResolve`, `NamedFilesExist`, `SumsMatchXml`, `JumpersKept` | 2 jumpers, flat or new, 2 attachments, 1 credential, 2 contents, 2 stops, 1 file that changes by itself |
| `flat_faults` | `RowsFollowFiles`, `OneStar`, `SetStarHeals`, `DeleteKeepsAStar` | 3 dropzones, 1 person, 2 revisions, 2 stops, reindex at any time |
| `verify_races` | `CalmReportIsExact`, `LastingIssuesReported` | 2 jumps, 2 numbers, 1 title, 1 file name, 1 fault (a stop or a decay), 3 steps of others within a walk |
| `jump_misread`, `jump_resurrect`, `boot_empty` | the findings of section 5 | as the passing run of the module, fewer failures |

Why the bounds are enough. *Jumps*: every hazard is a conflict of two folders or
two rows over a number, a name or an id; two of each give both the conflict and
its absence, and two stops let a torn handler be retried and torn again. An
attachment either conflicts with another of the same name or does not: one name
and two contents. *Rigs*: star, order and reference conflicts are between two
rigs; two kinds of component (main with its fast path, container for the three
others, which share their code shape) give plans with a stop between two
components. The same run with two stops (10 million states, 3 minutes) also
passed. *Start*: an older and a newer build and one more process to wait while
the first is killed; two kills tear a rebuild and the one after it. *Files*: four
inodes are the file, the temporary file, and what two undone renames may bring
back. *Idempotency*: a slow request, an overlapping one and a later retry are
three; the clock passes the life of a row once and one tick more. *Jumpers*: a
card is an attachment among two, one of which may go while a credential names
the other; the two stops tear a migration or a handler and what repairs it; one
credential, since the collections hold independent ones and the check of each
runs over all five. *Dropzones*: three, so that a set_star clears two others
and a delete has a choice of successors; the person has no star. *Verify*: two
folders for a duplicate number and for an issue in one while the other is read;
three steps of others are a whole `delete_attachment` or `update_jump` inside
one walk. By hand, two file names with two steps of others (13 million states)
passed too. Two simplifications: `is_file` and the read that follows at once are
one step, and no reindex runs beside the walk.

Unbounded counters are capped by `MaxFaults` (stopped handlers, kills, I/O
errors), `MaxNow` (clock), `MaxRot` (files that change by themselves) and
`MaxRaces` (steps of others within a walk); the other sets are finite by nature. Only
`idempotency` turns the deadlock check off: its requests and its clock end.
All runs but two use symmetry over interchangeable ids; `boot_main` has a liveness property and `file_atomic` a
refinement with `CHOOSE`, so they use none.

**Fairness.** Only `BootEnds` is a liveness property, under weak fairness of the
steps of a starting process (`WF_vars(Boot(p))`): `main()` is straight-line code
the operating system schedules, and `acquire` times out. Nothing is assumed of
users, of kills or of requests.

Every property has a mutant: a plausible bug (a dropped guard, a swapped order,
a missing reset) in a definition of the model under which TLC finds it
violated. The definitions called `Mut...` are these. The type invariants
(`TypeOK`) are checked by the runs of `JumpStore` and `JumperStore`; the other
components state theirs as the theorem `TypeCorrect` (`WalkTypeCorrect` in
`VerifyScan_proofs`).

## 4. The proofs

TLAPS checks them for every value of the constants. With one exception, every
property the passing runs check is a theorem too; the exception is `BootEnds`.

- `JumpStore_proofs`, in four layers, each on the one before. Assumed: that
  `None` is no value of the other kinds.
  1. `TypeCorrect`, `ClaimsStayBacked`, `OneHomeOnly`, `JumpsStay`, all with the
     reindex alone or beside the handlers. `TypeOK` is not inductive: that a step
     writes a document needs to know the handler carries one. `TypeInv` adds
     `OpShape` (which fields an operation has at each step) and `RxShape` (the
     same for the reindex). `DiskInv` adds `OpDisk`: at each step of each handler,
     which claims of the document it carries the folder already backs (all but
     the uploads that are still awaited, which `jump.xml` does not claim), and
     that the folder is that of its jump; `DiskBacked`, which says of every
     folder, trashed ones included, what `ClaimsBacked` says; and `OneHome`. Of
     the reindex it says nothing: locked or not, it writes no jump and no
     attachment.
  2. `ManifestsStayBacked`, `RebuildCoversDisk`, if `~OnlineReindex`: a pass that
     runs alone has seen what is there (`RxAlone`), and a manifest lists no upload
     that is still awaited (`OpSums`); together `AloneInv`. The hypothesis is
     that of the boot, where the reindex precedes `Serve`. Without it `RxAlone`
     fails: a pass heals a manifest from a `jump.xml` it read before a handler
     took an attachment away.
  3. `IndexMirrors`, if `~OnlineReindex`: `IndexInv` says that until a handler
     stops half-way numbers are apart in the names of folders (`NumbersApart`),
     each folder has the name its `jump.xml` asks for (`NamesTrue`), each row but
     that of the running handler agrees with the folders (`OthersAgree`), and
     what the handler relies on until it commits its row (`OpIndex`). Numbers
     are part of it because the reindex drops rows of the numbers it loads.
  4. `DuplicatesComeFromTornRenumber`, whatever the reindex does: a handler about
     to write a number writes the one `jump.xml` has, or one that no other
     folder's name carries (`OpNumber`), which its scan of `jumps/` has
     established and the writer lock keeps.
- `JumperStore_proofs`: `TypeCorrect`, `CardsAlwaysResolve`, `NamedFilesStay`,
  `JumpersStay`, `SumsAlwaysMatch`. The invariant `JumperInv` is `TypeOK`,
  `DiskSound` (both invariants of every folder, active or in the trash) and
  `OpSound`: what the carried document claims is on disk, except the attachment
  that is about to be streamed; from the manifest on `jumper.xml` is that
  document; at the unlink of an attachment neither `jumper.xml` nor `SHA256SUMS`
  names it. `CleanInv`, for `SumsAlwaysMatch`: until a handler stops or a file
  changes by itself, each folder at rest is `Clean` and the one at work differs
  from the document it is written from by the one attachment on its way in or out
  (`OpClean`).
- `FlatStore_proofs`: `TypeCorrect`, `RowsFollow`, `OneStarOnly`, `DeleteKeeps`,
  `SetStarSettles`, for any finite set of dropzones, whatever order a set_star
  clears them in. `RowsFollow` rests on `FollowInv`: a handler that is half done
  has written the file (`HalfDone`), a pass that has not begun has read
  nothing (`NotBegun`), and what a pass has read is what the file says, or the
  entity's row is pending or left (`Collected`): the pass holds the
  write lock, so no row is written between its reads and its commit.
  `DeleteKeeps` needs that a plan of two saves stars a successor first, and
  that before the last save a star is elsewhere (`DeleteInv`); `SetStarSettles`
  that every star but the target's is cleared by a save still to come, and that
  the target is starred or will be (`StarInv`). `OneStarOnly` says, for each
  handler and each save of its plan, exactly which dropzones are starred
  (`StarsFit`: `KeepPlan`, `DropPlan`, `HandOverPlan`, `ClearPlan`, `StampPlan`),
  and needs `FollowInv`, because the plans go by the rows and the stars are in
  the files.
- `RigFleet_proofs`, for any rigs, any components of any kinds in any order of
  the registry and a finite set of nicknames.
  1. `TypeCorrect`. That a step of a plan has its folder needs the form of what
     is left of the plan (`Fits`): writes into folders that are there, with at
     most a `mkdir` before them or one rename or move to the trash after them.
     That `create_rig`'s order, one more than the largest, exists at all needs
     that a finite set of numbers has a largest (`MaxNatural`).
  2. `RigsStayActive`, `PassAgrees`. `FleetInv` is `ActiveInv` and `Swept`.
     `ActiveInv`: a handler runs only while the program serves, and every step
     left of its plan that attaches a component attaches an active one
     (`OpShape`, `SafeStep`); it is needed because the status is checked when the
     plan is made and used when the step runs. `Swept`: during a boot pass no
     handler runs, and what the pass has visited agrees with the rigs.
  3. `RefsAlwaysAgree`. What `RefsAgree` says is broken and repaired step by step
     by each plan, so `RefsInv` speaks of the fleet and of the steps to come at
     once. `Settled`: ids and components of two rigs are apart (`Apart`); a
     component of a rig names it, or will, or the rig goes (`Owned`); the rig a
     component names keeps it, or it will be taken off (`Claimed`); and what
     each step left relies on holds (`Attaches`, `Detaches`, `Sound`). Before the
     first write of a `create_rig` or a `swap_main` the fleet is settled with no
     steps to come, and will be with them after that write (`Pending`,
     `Opening`).
  4. `OnlyDeleteMakesTwoStars`, `SetStarHeals`, `DeleteKeeps`, `ReorderNumbers`,
     from any state that earlier stops left. `StarsInv` says what the steps left
     of a plan do: they write no star, or the only one (`Modest`: create, update,
     swap); they clear every other star before they stamp the target
     (`Repairing`, with the order stated by `Cleared`); each rig is in its place
     or is about to be written there (`Numbering`); another rig is starred, or
     will be, before the starred one goes (`Succeeding`). TLC checked `StarsInv`
     first, on the constants of `rig_faults` (983 thousand states) and, stopped
     after 8 million states, on 3 rigs with 3 nicknames and 2 stops.
  5. `StaleManifestsCounted`. `CountInv`: in what is left of a plan each `rig.xml`
     is followed at once by its `SHA256SUMS` (`Paired`), and, that one counted as
     written, no more manifests are stale than handlers were stopped
     (`LeftStale`). A rename moves a stale manifest with its folder, so it is the
     number that is kept and not the set. TLC checked `CountInv` first, on the
     constants of `rig_faults`.
- `VerifyScan_proofs`, on top of `TypeInv` of `JumpStore_proofs`:
  `WalkTypeCorrect`, `LastingIssuesAlwaysReported`, `CalmReportAlwaysExact`, for
  any number of jumps and any number of steps of others. An issue that was there
  at every instant of the walk so far and is not in the report is one the walk
  has yet to come to, and what it carries will let it see the issue (`ToCome`, for
  each kind of issue; `LastingInv`). This needs what a handler is about to write
  (`OpPlan`): a `jump.xml` that is written again keeps the claims it does not add
  or drop, and its manifest was current when the handler began. A calm walk
  remembers what is there and has reported nothing else (`Remembers`, `CalmInv`).
  Issues are stated of a file, of a folder or of a pair of folders: of a folder
  alone, `LastingIssuesReported` is false, since one missing file may come back
  as another goes while the walk is at the first.
- `LogbookBoot_proofs`: `TypeCorrect` for every process; `OneInstanceAtATime`,
  `SchemaMatches`, `NewerIndexStays` and `RebuiltBeforeServing` if
  `Desktop = {}`. First `Holds`: a process past the lock holds it. Then `Knows`:
  what each phase of a start has established of `version`, `rows` and `disk`,
  stable because by `Holds` no one else writes them.
- `AtomicWrite_proofs`: `TypeCorrect` with or without the lock; `FilesWhole`,
  `ImplementsRegister` and `AcksSurvive` if `Locked`. `NeverTorn` says nothing
  of the temporary file, which becomes the file; the invariant adds that there
  is one writer, that the temporary file is apart from what may survive
  (`TmpApart`), and what each step has reached (`Progress`). The refinement maps
  the `os.replace` to `Commit`, the directory sync to `Return`, a raise or a kill
  to `Abort`, every earlier step to a stutter; `AcksSurvive` is then proved of
  the abstract file alone.
- `IdempotencyKey_proofs`: `TypeCorrect`, `OwnAnswers`, `NoLiveRowPurged`,
  `RetriesReplayed`, for any number of requests and any clock. The invariant says
  whose row a row is (`RowsTrue`), where a replayed answer comes from
  (`Replayed`), and, the hard part, where the row of each success is (`Kept`):
  its own or a later one, or gone with an overlapping request that started
  earlier. Assumed: the life of a row is positive.

Only model-checked: `BootEnds`, since liveness is out of the prover's reach. The
theorems under a hypothesis (`~OnlineReindex`, `Desktop = {}`, `Locked`) need it:
with `OnlineReindex = TRUE` TLC finds `SumsBacked`, `IndexMirrorsDisk` and
`RebuildCovers` violated in the bounds of `jump_online_reindex`; for the other two
see section 5. No module uses a recursive operator, and nothing
is proved by induction over data: where a finite set needs a largest element
(`MaxNatural`), a least counterexample is taken instead, by the well-foundedness
of `<` on the naturals.

## 5. Findings

What a document, a comment or a test says and a run shows otherwise:

1. `boot_empty`: a missing `index.sqlite`, or a start killed between the version
   stamp and the reindex, makes the next start serve an index without the jumps
   that are on disk; `main.py` says serving such an index is what it avoids.
2. `jump_misread`: after a `delete_jump` stopped between the trash and the row,
   the row leads to whatever jump takes the folder's name.
3. `jump_resurrect`: a reindex beside `delete_jump` puts the deleted jump's row
   back.

Other divergences the models show as behaviour, with no run of their own:

- The launcher keeps no reference to the lock object it acquired, which unlocks
  in its destructor, and so loses the lock it means to hold "for the lifetime of
  this Python process" (`launch_desktop.py:570`); `OneInstance` fails as soon as
  `Desktop` is not empty.
- `update_rig` and `swap_main` rebuild the rig without its star (`models/rig.py:116`
  promises exactly one): with no failure at all a fleet has rigs and no star.
- The online reindex and a handler share the temporary file of `SHA256SUMS`: with
  `Locked = FALSE`, `NeverTorn` fails (`filesystem.py:309`).
- A `create_dropzone` stopped between the starred file and its row leaves the
  table empty: the next create is starred too, and `set_star`, which is to clear
  "them all in one pass", goes by the rows and clears one (`SetStarHeals` is
  therefore stated of requests that begin with true rows).
- A starred dropzone whose file no longer parses makes every `set_star`, and a
  delete that elects it, fail; edits by hand are not modelled in `FlatStore`.
- `_write_jumper` hashes what is on disk: an attachment that changed by itself is
  certified by the next update ("hashing what we wrote equals hashing what's
  there", `jumper_service.py:180`).
- Both `_write_jumper` ("`verify` flags the divergence") and the migration expect
  `verify` to look at `jumpers/`; it walks `jumps/` and the trashed jumps only.
- A migration stopped after `jumper.xml` never writes its `SHA256SUMS`: the next
  boot takes the folder for complete (`jumper_migration.py:143`) and removes the
  flat file. `JumpersKept` and `NamedFilesExist` hold all the same.
- `verify_logbook` "does not raise on finding issues" (`verify.py:164`), yet a
  file deleted, or a folder renamed, between `is_file` and the read ends the walk
  with `FileNotFoundError` (`Raise` of `VerifyScan`).

- `update_jump` stopped between `jump.xml` and the rename leaves a folder whose
  name carries the old number; the number can be taken again and two jumps share
  it (`DECISIONS.md:797` calls the scan a backstop); this is
  `DuplicatesNeedTornRenumber`.
- The reindex inserts or replaces jumps and deletes none: rows of folders that are
  gone survive "rebuild from XML" (`DECISIONS.md:74`).
- The reindex "writes only to the SQLite index" (`reindex_service.py:192`), yet
  it heals `SHA256SUMS` files.
- `add_attachments` checks that a name is free and replaces it after the upload;
  a file the user drops in between is overwritten (`jump_service.py:798`).
- `update_rig` and `swap_main` also drop `display_order` (`models/rig.py:127`).
- `swap_main` stopped after `rig.xml` and retried takes the "same main" fast path
  (`rig_service.py:1246`): the retry succeeds without finishing; the boot pass
  does.
- After a torn `create_rig` a second rig may claim the same component; the boot
  pass warns and leaves both (`rig_reconcile_service.py:165`).
- Nothing heals a rig's `SHA256SUMS` (`rig_service.py:255`): what stops leave adds
  up, one rig per stop at most (`OneStaleManifestPerStop`).
- `create_jump` answers 409 for a jump it has created, if an online reindex has
  committed the row before its INSERT; the comment takes the conflict for another
  jump's number (`jump_service.py:425`). `RowRefused` models it; folder and row
  agree.
- A component retired while a torn `create_rig` names it is put on the rig by the
  boot pass (`container_service.py:363` excludes that state); requests alone never
  do it (`RequestsKeepRigsActive`).
- The launcher bootstraps before it takes the lock, does not run
  `folder_reconcile_rigs`, and serves after a reindex that failed.
- `atomic_write`'s cleanup says the original is untouched; after an exception of
  the directory sync it has been replaced (`filesystem.py:318`). The abstract
  `Abort` allows it: the write may have happened.
- The idempotency middleware keeps no entry for a request in flight: an
  overlapping retry runs the handler again, and so does a retry after a crash
  between the answer and the INSERT, while D69 promises "exactly one jump"
  (`DECISIONS.md:7543`). Two overlapping requests with one key and different
  bodies both run, so the row is not that of "the same hash, by construction"
  (`middleware.py:515`). The INSERT and the DELETE are two transactions, not "one
  WAL transaction" (`middleware.py:505`): the connection is in autocommit.

## 6. Not modelled, and the plan

Out of a model's reach or without state: routing and envelopes, XML schemas and
serialization, logging, configuration, statistics, the update check, the
frontend. Left out of the modelled components: names inside `.trash/`, the
Windows fallback of `os.replace`, that two bodies with equal first 4 KiB have
one request hash, wear counts and repack history, the flush of a directory after
`os.rename` (there is none: a power loss may undo a rename `atomic_write` did not
make; `JumpStore` treats renames as durable).

Also left out: the names and text of manifests, the re-entrancy of the writer
lock (a service that calls another is one action), the table of credentials, and
requests' own reads, which are one step.

Next, in this order:

1. The reindex beside a walk of `verify`, and the checks of `verify` on
   references to jumpers and rig components apart.
2. What holds of the index while the online reindex runs: that a row leads to a
   folder that was there at some instant of the pass.
3. The manifest text as functions: what `parse` accepts of what is generated.
