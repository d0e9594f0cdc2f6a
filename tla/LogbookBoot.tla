---------------------------- MODULE LogbookBoot ----------------------------
(***************************************************************************)
(* Starting the application on a logbook folder: main.py, the desktop      *)
(* launcher, storage/lockfile.py and open_index of storage/index.py.       *)
(*                                                                         *)
(* A process takes the folder's lock (D9), opens the SQLite index, and, if *)
(* open_index had to drop the tables of an older schema (D26), fills them  *)
(* from the XML before it serves.  open_index works on an autocommit       *)
(* connection: dropping the tables, creating them and stamping             *)
(* PRAGMA user_version are three durable steps.  The process may be killed *)
(* between any two; the operating system then frees the lock.              *)
(***************************************************************************)
EXTENDS Naturals, FiniteSets

CONSTANTS
    Procs,      \* processes the user can start
    Desktop,    \* those started by the launcher, the others run main.py
    BuildOf,    \* process -> INDEX_SCHEMA_VERSION of its build
    Jumps,      \* jump folders
    NumberOf,   \* folder -> the jump_number its jump.xml carries
    None,       \* no process
    HandEdits,  \* the user adds and removes jump folders by hand
    MaxFaults   \* bound on the kills and I/O errors

ASSUME ProcsAssumption == None \notin Procs /\ Desktop \subseteq Procs
ASSUME BuildAssumption == BuildOf \in [Procs -> Nat \ {0}]
ASSUME FaultsAssumption == MaxFaults \in Nat /\ HandEdits \in BOOLEAN

VARIABLES
    holder,    \* the process that holds .logbook.lock, or None
    version,   \* PRAGMA user_version; 0: no index.sqlite, or a new one
    rows,      \* folders that have a row in the jumps table
    disk,      \* folders in jumps/
    pc,        \* where each process is
    rebuilt,   \* result.schema_was_rebuilt of each process
    faults     \* kills and errors so far

vars == <<holder, version, rows, disk, pc, rebuilt, faults>>

\* "off": not started, or exited.
Phases == {"off", "acquire", "open", "drop", "schema", "stamp", "opened",
           "reindex", "reconcile", "serving"}

TypeOK ==
    /\ holder \in Procs \cup {None}
    /\ version \in {0} \cup {BuildOf[p] : p \in Procs}
    /\ rows \subseteq Jumps /\ disk \subseteq Jumps
    /\ pc \in [Procs -> Phases]
    /\ rebuilt \in [Procs -> BOOLEAN]
    /\ faults \in 0..MaxFaults

Init ==
    /\ holder = None /\ version = 0 /\ rows = {} /\ disk = {}
    /\ pc = [p \in Procs |-> "off"]
    /\ rebuilt = [p \in Procs |-> FALSE]
    /\ faults = 0

-----------------------------------------------------------------------------
Goto(p, phase) == pc' = [pc EXCEPT ![p] = phase]

\* The finally of main.py, and the death of any process, free its lock.
Freed(p) == IF holder = p THEN None ELSE holder

Exit(p) == Goto(p, "off") /\ holder' = Freed(p)

Launch(p) ==
    /\ pc[p] = "off"
    /\ Goto(p, "acquire")
    /\ rebuilt' = [rebuilt EXCEPT ![p] = FALSE]
    /\ UNCHANGED <<holder, version, rows, disk, faults>>

\* Mutant: the lock is advisory and a process that cannot take it goes on.
MutAcquire(p) ==
    /\ pc[p] = "acquire"
    /\ holder' = IF holder = None THEN p ELSE holder
    /\ Goto(p, "open")
    /\ UNCHANGED <<version, rows, disk, rebuilt, faults>>

\* main.py keeps the FileLock until its finally.  The launcher calls
\* acquire(root) and keeps no reference to what it returns; filelock releases
\* a lock when its object is collected, here at once.
Acquire(p) ==
    /\ pc[p] = "acquire" /\ holder = None
    /\ holder' = IF p \in Desktop THEN None ELSE p
    /\ Goto(p, "open")
    /\ UNCHANGED <<version, rows, disk, rebuilt, faults>>

\* Mutant: acquire waits for the lock.
MutRefused(p) ==
    /\ pc[p] = "acquire" /\ holder # None
    /\ UNCHANGED vars

\* LockError: the other instance keeps the lock longer than the timeout.
Refused(p) ==
    /\ pc[p] = "acquire" /\ holder # None
    /\ Exit(p)
    /\ UNCHANGED <<version, rows, disk, rebuilt, faults>>

-----------------------------------------------------------------------------
(* open_index *)

\* Mutant: an index of a newer build is rebuilt like an older one.
MutOpenIndex(p) ==
    /\ pc[p] = "open"
    /\ Goto(p, IF version = 0 THEN "schema"
               ELSE IF version = BuildOf[p] THEN "opened" ELSE "drop")
    /\ UNCHANGED <<holder, version, rows, disk, rebuilt, faults>>

OpenIndex(p) ==
    /\ pc[p] = "open" /\ version <= BuildOf[p]
    /\ Goto(p, IF version = 0 THEN "schema"
               ELSE IF version = BuildOf[p] THEN "opened" ELSE "drop")
    /\ UNCHANGED <<holder, version, rows, disk, rebuilt, faults>>

\* IndexSchemaTooNewError: exit 1 (main.py), no server (launcher).
TooNew(p) ==
    /\ pc[p] = "open" /\ version > BuildOf[p]
    /\ Exit(p)
    /\ UNCHANGED <<version, rows, disk, rebuilt, faults>>

DropTables(p) ==
    /\ pc[p] = "drop"
    /\ rows' = {}
    /\ rebuilt' = [rebuilt EXCEPT ![p] = TRUE]
    /\ Goto(p, "schema")
    /\ UNCHANGED <<holder, version, disk, faults>>

\* CREATE TABLE IF NOT EXISTS
CreateTables(p) ==
    /\ pc[p] = "schema"
    /\ Goto(p, "stamp")
    /\ UNCHANGED <<holder, version, rows, disk, rebuilt, faults>>

\* Mutant: the version is counted up instead of stamped.
MutStampVersion(p) ==
    /\ pc[p] = "stamp"
    /\ version' = version + 1
    /\ Goto(p, "opened")
    /\ UNCHANGED <<holder, rows, disk, rebuilt, faults>>

StampVersion(p) ==
    /\ pc[p] = "stamp"
    /\ version' = BuildOf[p]
    /\ Goto(p, "opened")
    /\ UNCHANGED <<holder, rows, disk, rebuilt, faults>>

-----------------------------------------------------------------------------
(* From the open index to the server. *)

DuplicateNumber == \E j, k \in disk : j # k /\ NumberOf[j] = NumberOf[k]

AfterOpen(p) ==
    /\ pc[p] = "opened"
    /\ Goto(p, IF rebuilt[p] THEN "reindex" ELSE "reconcile")
    /\ UNCHANGED <<holder, version, rows, disk, rebuilt, faults>>

\* reindex_from_xml: the jumps transaction commits, or nothing is written.
Reindex(p) ==
    /\ pc[p] = "reindex" /\ ~DuplicateNumber
    /\ rows' = rows \cup disk
    /\ Goto(p, "reconcile")
    /\ UNCHANGED <<holder, version, disk, rebuilt, faults>>

\* Mutant: main.py logs the failure and goes on, as the launcher does.
MutWithoutIndex(p) == Goto(p, "reconcile") /\ UNCHANGED holder

\* After a failed rebuild main.py refuses to start and the launcher goes on.
WithoutIndex(p) ==
    IF p \in Desktop THEN Goto(p, "reconcile") /\ UNCHANGED holder ELSE Exit(p)

\* report.aborted
ReindexAborts(p) ==
    /\ pc[p] = "reindex" /\ DuplicateNumber
    /\ WithoutIndex(p)
    /\ UNCHANGED <<version, rows, disk, rebuilt, faults>>

ReindexFails(p) ==
    /\ pc[p] = "reindex" /\ faults < MaxFaults
    /\ WithoutIndex(p)
    /\ faults' = faults + 1
    /\ UNCHANGED <<version, rows, disk, rebuilt>>

\* folder_reconcile_rigs only warns, and the launcher does not call it.
Serve(p) ==
    /\ pc[p] = "reconcile"
    /\ Goto(p, "serving")
    /\ UNCHANGED <<holder, version, rows, disk, rebuilt, faults>>

\* Every service call goes through open_index and ignores
\* schema_was_rebuilt: an index deleted under the server comes back empty.
ServiceOpens(p) ==
    /\ pc[p] = "serving" /\ version < BuildOf[p]
    /\ version' = BuildOf[p] /\ rows' = {}
    /\ UNCHANGED <<holder, disk, pc, rebuilt, faults>>

\* create_jump: D23's scan of jumps/, the folder, the row (see JumpStore).
CreateJump(p, j) ==
    /\ pc[p] = "serving" /\ version = BuildOf[p]
    /\ j \notin disk
    /\ \A k \in disk : NumberOf[k] # NumberOf[j]
    /\ disk' = disk \cup {j} /\ rows' = rows \cup {j}
    /\ UNCHANGED <<holder, version, pc, rebuilt, faults>>

\* POST /reindex
ServeReindex(p) ==
    /\ pc[p] = "serving" /\ version = BuildOf[p] /\ ~DuplicateNumber
    /\ rows' = rows \cup disk
    /\ UNCHANGED <<holder, version, disk, pc, rebuilt, faults>>

Quit(p) ==
    /\ pc[p] = "serving"
    /\ Exit(p)
    /\ UNCHANGED <<version, rows, disk, rebuilt, faults>>

-----------------------------------------------------------------------------
(* The environment. *)

\* Killed, or an I/O error that ends the start (bootstrap, open_index,
\* reindex_from_xml).
Die(p) ==
    /\ pc[p] # "off" /\ faults < MaxFaults
    /\ Exit(p)
    /\ faults' = faults + 1
    /\ UNCHANGED <<version, rows, disk, rebuilt>>

\* index.py:3: the index "can be deleted at any time", as the message of
\* IndexSchemaTooNewError asks; here while no process is starting.
DeleteIndex ==
    /\ \A p \in Procs : pc[p] \in {"off", "serving"}
    /\ version' = 0 /\ rows' = {}
    /\ UNCHANGED <<holder, disk, pc, rebuilt, faults>>

\* A folder restored from a backup or taken away by hand (D25).
EditByHand(j) ==
    /\ HandEdits
    /\ \A p \in Procs : pc[p] = "off"
    /\ disk' = IF j \in disk THEN disk \ {j} ELSE disk \cup {j}
    /\ UNCHANGED <<holder, version, rows, pc, rebuilt, faults>>

Boot(p) ==
    \/ Acquire(p)
    \/ Refused(p)
    \/ OpenIndex(p)
    \/ TooNew(p)
    \/ DropTables(p)
    \/ CreateTables(p)
    \/ StampVersion(p)
    \/ AfterOpen(p)
    \/ Reindex(p)
    \/ ReindexAborts(p)
    \/ ReindexFails(p)
    \/ Serve(p)

Next ==
    \/ \E p \in Procs :
         \/ Launch(p)
         \/ Boot(p)
         \/ ServiceOpens(p)
         \/ \E j \in Jumps : CreateJump(p, j)
         \/ ServeReindex(p)
         \/ Quit(p)
         \/ Die(p)
    \/ DeleteIndex
    \/ \E j \in Jumps : EditByHand(j)

Spec == Init /\ [][Next]_vars

\* A process that runs goes on booting.
FairSpec == Spec /\ \A p \in Procs : WF_vars(Boot(p))

-----------------------------------------------------------------------------
(* Properties. *)

Running(p) == pc[p] \notin {"off", "acquire"}

\* D9: two processes never work on one logbook at the same time, whatever is
\* killed; every handler's assumption that it is alone rests on it.
OneInstance == \A p, q \in Procs : Running(p) /\ Running(q) => p = q

\* D26: a server never finds the tables of another build under it; the lock and
\* the three branches of open_index are both needed.
ServerSeesItsSchema ==
    \A p \in Procs : pc[p] = "serving" => version \in {0, BuildOf[p]}

\* D68: an older build never replaces a newer build's tables; only the user
\* removes them.
NewerIndexKept == [][version' < version => version' = 0]_vars

\* D26: a start that dropped the tables serves only with every jump folder back
\* in the index; a duplicate number or an error ends it instead.
RebuildIsComplete ==
    [][\A p \in Procs : Serve(p) /\ rebuilt[p] => disk \subseteq rows]_vars

\* A started process serves or gives up; it never waits for another one.
BootEnds == \A p \in Procs : pc[p] = "acquire" ~> pc[p] \in {"serving", "off"}

-----------------------------------------------------------------------------
(* What the documents say and the code does not do: README, "Findings". *)


=============================================================================
