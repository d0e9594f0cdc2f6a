----------------------------- MODULE FlatStore -----------------------------
(***************************************************************************)
(* Dropzones and people: services/dropzone_service.py,                     *)
(* services/people_service.py and the two passes of                        *)
(* services/reindex_service.py that rebuild their tables.                  *)
(*                                                                         *)
(* An entity is one file <uuid>.xml and one row of the SQLite index.       *)
(* Every handler holds WRITER_LOCK and saves one entity after the other,   *)
(* the file first and the row second.  A reindex (POST /reindex) does not  *)
(* take WRITER_LOCK: it holds SQLite's write lock from its DELETE to its   *)
(* COMMIT, reads the files in between, and readers see the old rows.       *)
(*                                                                         *)
(* One dropzone is starred, the default of the jump form (D60); the star   *)
(* is a field of its file, moved by rewriting several files.               *)
(***************************************************************************)
EXTENDS Naturals, Sequences, FiniteSets

CONSTANTS
    Dropzones,  \* dropzone UUIDs
    People,     \* person UUIDs
    Revs,       \* the editable fields, abstracted to one value
    None,       \* no value
    MaxFaults   \* bound on the handlers that stop half-way

ASSUME BoundsAssumption == MaxFaults \in Nat

ASSUME KindsAssumption == Dropzones \cap People = {} /\ IsFiniteSet(Dropzones)

Entities == Dropzones \cup People

\* A file, and the columns of its row; nobody is starred.
Docs == [rev : Revs, star : BOOLEAN]

\* One save: the file and then the row take doc; None moves the file to the
\* trash and deletes the row.
Saves == [id : Entities, doc : Docs \cup {None}]

\* half: the file of the first save is done and its row is not.
\* agreed: every row agreed with its file when the request began.
Ops == [h : {"create", "update", "delete", "star"}, id : Entities,
        plan : Seq(Saves), half : BOOLEAN, agreed : BOOLEAN]

Tables == {Dropzones, People}

\* A pass over one table.  todo: files listed and not yet read; found: what
\* was read; heals: entities of the table left behind before the pass.
Passes == [table : Tables, pc : {"begin", "read"}, todo : SUBSET Entities,
           found : [Entities -> Docs \cup {None}], heals : SUBSET Entities]

ASSUME NoneAssumption == None \notin Docs /\ None \notin Ops /\ None \notin Passes

VARIABLES
    file,    \* dropzones/<uuid>.xml and people/<uuid>.xml
    row,     \* the committed rows of the tables dropzones and people
    op,      \* the handler that holds WRITER_LOCK, or None
    pass,    \* the reindex that runs, or None
    left,    \* entities whose row a failed handler left unwritten
    faults   \* handlers stopped half-way so far

vars == <<file, row, op, pass, left, faults>>

Nothing == [e \in Entities |-> None]

TypeOK ==
    /\ file \in [Entities -> Docs \cup {None}]
    /\ row \in [Entities -> Docs \cup {None}]
    /\ op \in Ops \cup {None}
    /\ op # None => op.plan # <<>>
    /\ pass \in Passes \cup {None}
    /\ left \subseteq Entities
    /\ faults \in 0..MaxFaults

Init ==
    /\ file = Nothing /\ row = Nothing
    /\ op = None /\ pass = None /\ left = {} /\ faults = 0

-----------------------------------------------------------------------------
(* The requests: what a handler reads decides its plan at once, since only  *)
(* the holder of WRITER_LOCK writes files.                                  *)

Reading == pass # None /\ pass.pc = "read"

\* Mutant: the files are read before the transaction, as the jumps' are.
MutLocked == FALSE

\* The transaction of the pass holds SQLite's write lock.
Locked == Reading

Live == {d \in Dropzones : file[d] # None}

Stars == {d \in Live : file[d].star}

Save(e, d) == [id |-> e, doc |-> d]

Starred(d) == [file[d] EXCEPT !.star = TRUE]

\* uuid4 never repeats; an entity of which nothing is left serves as a new one.
Fresh(e) ==
    /\ file[e] = None /\ row[e] = None /\ e \notin left
    /\ pass # None => pass.found[e] = None /\ e \notin pass.todo

\* An empty plan changes nothing: starring what is starred already.
Run(h, e, plan) ==
    /\ op = None /\ plan # <<>>
    /\ op' = [h |-> h, id |-> e, plan |-> plan, half |-> FALSE,
              agreed |-> row = file]
    /\ UNCHANGED <<file, row, pass, left, faults>>

\* D60 transition 1: the first dropzone of the table is born starred.
CreateDropzone(d, r) ==
    /\ Fresh(d)
    /\ LET first == \A x \in Dropzones : row[x] = None
       IN  Run("create", d, <<Save(d, [rev |-> r, star |-> first])>>)

\* Mutant: a full replace that takes every field from the payload.
MutUpdateDropzone(d, r) ==
    /\ file[d] # None
    /\ Run("update", d, <<Save(d, [rev |-> r, star |-> FALSE])>>)

\* Full replace (D44), but the star is kept.
UpdateDropzone(d, r) ==
    /\ file[d] # None
    /\ Run("update", d, <<Save(d, [file[d] EXCEPT !.rev = r])>>)

\* Mutant: the star moves after the file has gone to the trash.
MutDeleteDropzone(d) ==
    LET others == {x \in Dropzones \ {d} : row[x] # None}
        alone  == ~file[d].star \/ others = {}
    IN  /\ file[d] # None
        /\ \/ alone /\ Run("delete", d, <<Save(d, None)>>)
           \/ ~alone /\ \E s \in others :
                Run("delete", d, IF file[s] = None THEN <<Save(d, None)>>
                                 ELSE <<Save(d, None), Save(s, Starred(s))>>)

\* D60 transition 3: the star first moves to a successor among the other rows
\* (the latest jump or the alphabet decides); a row without a file is skipped.
DeleteDropzone(d) ==
    LET others == {x \in Dropzones \ {d} : row[x] # None}
        alone  == ~file[d].star \/ others = {}
    IN  /\ file[d] # None
        /\ \/ alone /\ Run("delete", d, <<Save(d, None)>>)
           \/ ~alone /\ \E s \in others :
                Run("delete", d, IF file[s] = None THEN <<Save(d, None)>>
                                 ELSE <<Save(s, Starred(s)), Save(d, None)>>)

Orders(S) ==
    {s \in [1..Cardinality(S) -> S] : \A x \in S : \E i \in DOMAIN s : s[i] = x}

\* Mutant: only the target is written.
MutToClear(d) == {}

\* _clear_all_stars goes by the rows; a starred row without a file is skipped.
ToClear(d) == {x \in Dropzones \ {d} : row[x] # None /\ row[x].star /\ file[x] # None}

\* D60 transition 2: clear the others, then stamp the target.
SetStar(d) ==
    /\ file[d] # None
    /\ \E order \in Orders(ToClear(d)) :
         LET clear == [i \in DOMAIN order |->
                          Save(order[i], [file[order[i]] EXCEPT !.star = FALSE])]
         IN  Run("star", d, IF file[d].star THEN clear
                            ELSE Append(clear, Save(d, Starred(d))))

CreatePerson(p, r) ==
    Fresh(p) /\ Run("create", p, <<Save(p, [rev |-> r, star |-> FALSE])>>)

UpdatePerson(p, r) ==
    file[p] # None /\ Run("update", p, <<Save(p, [rev |-> r, star |-> FALSE])>>)

DeletePerson(p) == file[p] # None /\ Run("delete", p, <<Save(p, None)>>)

-----------------------------------------------------------------------------
(* The steps of a save. *)

Current == Head(op.plan)

\* atomic_write of the file, or soft_delete_file.
SaveFile ==
    /\ op # None /\ ~op.half
    /\ file' = [file EXCEPT ![Current.id] = Current.doc]
    /\ op' = [op EXCEPT !.half = TRUE]
    /\ UNCHANGED <<row, pass, left, faults>>

\* _upsert_index_row or _delete_index_row: waits while the reindex holds the
\* write lock.
SaveRow ==
    /\ op # None /\ op.half /\ ~Locked
    /\ row' = [row EXCEPT ![Current.id] = Current.doc]
    /\ left' = left \ {Current.id}
    /\ op' = IF Tail(op.plan) = <<>> THEN None
             ELSE [op EXCEPT !.plan = Tail(@), !.half = FALSE]
    /\ UNCHANGED <<file, pass, faults>>

\* An I/O error, a kill, or busy_timeout: 250 ms without the write lock.
HandlerFails ==
    /\ op # None /\ faults < MaxFaults
    /\ op' = None /\ faults' = faults + 1
    /\ left' = left \cup (IF op.half THEN {Current.id} ELSE {})
    /\ UNCHANGED <<file, row, pass>>

-----------------------------------------------------------------------------
(* The reindex. *)

Begin(t) == [table |-> t, pc |-> "begin", todo |-> {}, found |-> Nothing,
             heals |-> {}]

\* reindex_from_xml reaches the table dropzones after its pass over the jumps.
Reindex ==
    /\ pass = None
    /\ pass' = Begin(Dropzones)
    /\ UNCHANGED <<file, row, op, left, faults>>

\* BEGIN, DELETE, and the listing of the folder.
PassBegins ==
    /\ pass # None /\ pass.pc = "begin"
    /\ pass' = [pass EXCEPT !.pc = "read",
                            !.todo = {e \in pass.table : file[e] # None},
                            !.heals = left \cap pass.table]
    /\ left' = left \ pass.table
    /\ UNCHANGED <<file, row, op, faults>>

\* A file that is gone since the listing adds no row.
PassReads ==
    /\ Reading
    /\ \E e \in pass.todo :
         pass' = [pass EXCEPT !.todo = @ \ {e}, !.found[e] = file[e]]
    /\ UNCHANGED <<file, row, op, left, faults>>

\* What DELETE and the INSERTs make of the row of e.
Rebuilt(e) == IF e \in pass.table THEN pass.found[e] ELSE row[e]

\* COMMIT, and on to the next table.
PassCommits ==
    /\ Reading /\ pass.todo = {}
    /\ row' = [e \in Entities |-> Rebuilt(e)]
    /\ pass' = IF pass.table = Dropzones THEN Begin(People) ELSE None
    /\ UNCHANGED <<file, op, left, faults>>

\* ROLLBACK, by an error or by a kill (with HandlerFails at the same time).
PassFails ==
    /\ pass # None
    /\ pass' = None /\ left' = left \cup pass.heals
    /\ UNCHANGED <<file, row, op, faults>>

-----------------------------------------------------------------------------
Request ==
    \/ \E d \in Dropzones :
         \/ DeleteDropzone(d) \/ SetStar(d)
         \/ \E r \in Revs : CreateDropzone(d, r) \/ UpdateDropzone(d, r)
    \/ \E p \in People :
         \/ DeletePerson(p)
         \/ \E r \in Revs : CreatePerson(p, r) \/ UpdatePerson(p, r)

Next ==
    \/ Request \/ SaveFile \/ SaveRow \/ HandlerFails
    \/ Reindex \/ PassBegins \/ PassReads \/ PassCommits \/ PassFails

Spec == Init /\ [][Next]_vars

-----------------------------------------------------------------------------
(* Properties. *)

Pending == IF op # None /\ op.half THEN {Current.id} ELSE {}

Healing == IF pass # None THEN pass.heals ELSE {}

\* D3: a row differs from its file only while its handler is between the two
\* or after one was stopped there, and then until the next reindex or save of
\* that entity: a reindex beside the handlers never makes a row stale.
RowsFollowFiles ==
    \A e \in Entities : row[e] # file[e] => e \in left \cup Pending \cup Healing

\* D60: with no handler stopped so far, a logbook with dropzones has one star
\* at rest, two at most within a delete, none only within a set_star.
OneStar ==
    faults = 0 /\ Live # {} =>
        /\ Cardinality(Stars) <= (IF op # None /\ op.h = "delete" THEN 2 ELSE 1)
        /\ Stars = {} => op # None /\ op.h = "star"

\* dropzone_service.py:_clear_all_stars, set_star: from any drift that the rows
\* show, a set_star that ends leaves its target as the one star.
SetStarHeals ==
    [][op # None /\ op.h = "star" /\ op.agreed /\ op' = None /\ faults' = faults
         => Stars' = {op.id}]_vars

\* delete_dropzone: no step of a delete that began with rows true to the files
\* takes the last star from dropzones that stay, so no crash within it does.
DeleteKeepsAStar ==
    [][op # None /\ op.h = "delete" /\ op.agreed /\ Stars # {}
         => Stars' # {} \/ Live' = {}]_vars

=============================================================================
