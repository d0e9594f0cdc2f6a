---------------------------- MODULE AtomicWrite ----------------------------
(***************************************************************************)
(* atomic_write and atomic_write_stream of storage/filesystem.py: write    *)
(* <path>.tmp, flush it, os.replace it over <path>, flush the directory.   *)
(*                                                                         *)
(* Below them is a POSIX directory.  A name leads to an inode; an open     *)
(* file keeps its inode when the name moves on.  A power loss may undo a   *)
(* rename the directory was not flushed after, and empty an inode that was *)
(* not flushed.                                                            *)
(***************************************************************************)
EXTENDS Naturals

CONSTANTS
    Writers,   \* threads and processes that write this path
    Docs,      \* the documents they write
    Inodes,    \* files of the disk; unused ones are taken again
    None,      \* no file, no open file
    Locked     \* one writer at a time: WRITER_LOCK (D50)

ASSUME LockedAssumption == Locked \in BOOLEAN
ASSUME NoneAssumption == None \notin Inodes /\ None \notin Docs

\* Contents of a file: the documents its bytes are from.  None just after it is
\* truncated, two when one was written over the other.
Bytes == SUBSET Docs

VARIABLES
    path,     \* the inode the name leads to, or None
    tmp,      \* the inode <path>.tmp leads to, or None
    bytes,    \* inode -> its contents
    flushed,  \* inodes whose contents survive a power loss
    survives, \* what `path' may lead to after a power loss
    pc,       \* writer -> its next step
    fd,       \* writer -> the inode it has open, or None
    doc,      \* writer -> the document it writes, or None
    acked     \* the document whose write returned, until the next call

vars == <<path, tmp, bytes, flushed, survives, pc, fd, doc, acked>>
disk == <<path, tmp, bytes, flushed, survives>>

TypeOK ==
    /\ path \in Inodes \cup {None}
    /\ tmp \in Inodes \cup {None}
    /\ bytes \in [Inodes -> Bytes]
    /\ flushed \subseteq Inodes
    /\ survives \subseteq Inodes \cup {None} /\ path \in survives
    /\ pc \in [Writers -> {"idle", "open", "write", "fsync", "replace", "dirsync"}]
    /\ fd \in [Writers -> Inodes \cup {None}]
    /\ doc \in [Writers -> Docs \cup {None}]
    /\ acked \in Docs \cup {None}
    /\ \A w \in Writers :
         /\ pc[w] # "idle" => doc[w] \in Docs
         /\ pc[w] \in {"write", "fsync", "replace", "dirsync"} => fd[w] \in Inodes

Init ==
    /\ path = None /\ tmp = None /\ survives = {None}
    /\ bytes = [i \in Inodes |-> {}] /\ flushed = {}
    /\ pc = [w \in Writers |-> "idle"]
    /\ fd = [w \in Writers |-> None]
    /\ doc = [w \in Writers |-> None] /\ acked = None

-----------------------------------------------------------------------------
Goto(w, step) == pc' = [pc EXCEPT ![w] = step]

Close(w) ==
    /\ Goto(w, "idle")
    /\ fd' = [fd EXCEPT ![w] = None]
    /\ doc' = [doc EXCEPT ![w] = None]

Call(w, d) ==
    /\ pc[w] = "idle"
    /\ Locked => \A v \in Writers : pc[v] = "idle"
    /\ Goto(w, "open")
    /\ doc' = [doc EXCEPT ![w] = d] /\ acked' = None
    /\ UNCHANGED <<disk, fd>>

\* The temporary file a crash left, or a new one.
OpensAt(i) ==
    IF tmp # None THEN i = tmp
    ELSE i \notin survives \cup {fd[v] : v \in Writers}

\* open(tmp, "wb")
OpenTmp(w, i) ==
    /\ pc[w] = "open"
    /\ OpensAt(i)
    /\ tmp' = i
    /\ bytes' = [bytes EXCEPT ![i] = {}]
    /\ flushed' = flushed \ {i}
    /\ fd' = [fd EXCEPT ![w] = i]
    /\ Goto(w, "write")
    /\ UNCHANGED <<path, survives, doc, acked>>

\* f.write, f.flush: over whatever another writer has put there.
WriteTmp(w) ==
    /\ pc[w] = "write"
    /\ \E rest \in {{}, bytes[fd[w]]} :
         bytes' = [bytes EXCEPT ![fd[w]] = {doc[w]} \cup rest]
    /\ flushed' = flushed \ {fd[w]}
    /\ Goto(w, "fsync")
    /\ UNCHANGED <<path, tmp, survives, fd, doc, acked>>

\* Mutant: the bytes are left in the cache.
MutFlush(w) ==
    /\ pc[w] = "fsync"
    /\ Goto(w, "replace")
    /\ UNCHANGED <<disk, fd, doc, acked>>

\* _full_fsync
Flush(w) ==
    /\ pc[w] = "fsync"
    /\ flushed' = flushed \cup {fd[w]}
    /\ Goto(w, "replace")
    /\ UNCHANGED <<path, tmp, bytes, survives, fd, doc, acked>>

\* os.replace takes whatever has the name of the temporary file.
Replace(w) ==
    /\ pc[w] = "replace" /\ tmp # None
    /\ path' = tmp /\ tmp' = None
    /\ survives' = survives \cup {tmp}
    /\ Goto(w, "dirsync")
    /\ UNCHANGED <<bytes, flushed, fd, doc, acked>>

\* Mutant: the directory is not flushed.
MutFlushDir(w) ==
    /\ pc[w] = "dirsync"
    /\ acked' = doc[w]
    /\ Close(w)
    /\ UNCHANGED disk

\* _fsync_dir, and the function returns.
FlushDir(w) ==
    /\ pc[w] = "dirsync"
    /\ survives' = {path} /\ acked' = doc[w]
    /\ Close(w)
    /\ UNCHANGED <<path, tmp, bytes, flushed>>

\* Mutant: the cleanup unlinks the file instead of the temporary one.
MutRaises(w) ==
    /\ pc[w] # "idle"
    /\ path' = None /\ survives' = survives \cup {None}
    /\ Close(w)
    /\ UNCHANGED <<tmp, bytes, flushed, acked>>

\* Any step may raise, os.replace with no temporary file must: the temporary
\* file is unlinked, or that fails too.
Raises(w) ==
    /\ pc[w] # "idle"
    /\ tmp' \in {None, tmp}
    /\ Close(w)
    /\ UNCHANGED <<path, bytes, flushed, survives, acked>>

-----------------------------------------------------------------------------
\* The process is killed: what it wrote stays in the kernel's cache.
Kill(w) ==
    /\ pc[w] # "idle"
    /\ Close(w)
    /\ UNCHANGED <<disk, acked>>

\* The directory comes back with or without the renames it was not flushed
\* after, and unflushed files come back whole or empty.
PowerLoss ==
    /\ path' \in survives
    /\ survives' = {path'}
    /\ tmp' \in ({None, tmp} \cup survives) \ {path'}
    /\ \E lost \in SUBSET (Inodes \ flushed) :
         bytes' = [i \in Inodes |-> IF i \in lost THEN {} ELSE bytes[i]]
    /\ flushed' = Inodes
    /\ pc' = [w \in Writers |-> "idle"]
    /\ fd' = [w \in Writers |-> None]
    /\ doc' = [w \in Writers |-> None]
    /\ UNCHANGED acked

Step(w) ==
    \/ \E d \in Docs : Call(w, d)
    \/ \E i \in Inodes : OpenTmp(w, i)
    \/ WriteTmp(w)
    \/ Flush(w)
    \/ Replace(w)
    \/ FlushDir(w)
    \/ Raises(w)
    \/ Kill(w)

Next == (\E w \in Writers : Step(w)) \/ PowerLoss

Spec == Init /\ [][Next]_vars

-----------------------------------------------------------------------------
(* Properties. *)

\* D10: no reader, and no reader after a power loss, finds a torn file: every
\* inode the name may lead to holds one flushed document.
NeverTorn ==
    \A i \in survives \ {None} : i \in flushed /\ \E d \in Docs : bytes[i] = {d}

Active(w) == pc[w] # "idle"

Document(i) == IF i = None THEN None ELSE CHOOSE d \in Docs : bytes[i] = {d}

Abstract == INSTANCE AtomicFile WITH
    val  <- Document(path),
    safe <- {Document(i) : i \in survives},
    busy <- IF \E w \in Writers : Active(w)
            THEN doc[CHOOSE w \in Writers : Active(w)] ELSE None

\* D10: with one writer at a time the file is an atomic, durable register.
Implements == Abstract!Spec

\* D10: what a call that returned has written survives a power loss.
AckedSurvives == Abstract!Durable

=============================================================================
