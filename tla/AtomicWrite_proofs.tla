------------------------- MODULE AtomicWrite_proofs -------------------------
(***************************************************************************)
(* Theorems about AtomicWrite, for any writers, documents and inodes.      *)
(* TypeCorrect needs no lock; the others hold with one writer at a time.   *)
(***************************************************************************)
EXTENDS AtomicWrite, TLAPS

USE NoneAssumption

(***************************************************************************)
(* Type correctness, whether the writers are serialized or not.            *)
(***************************************************************************)
THEOREM TypeCorrect == Spec => []TypeOK
<1>1. Init => TypeOK
  BY DEF Init, TypeOK, Bytes
<1>2. TypeOK /\ [Next]_vars => TypeOK'
  <2> SUFFICES ASSUME TypeOK, [Next]_vars PROVE TypeOK'
    OBVIOUS
  <2>1. ASSUME NEW w \in Writers, NEW d \in Docs, Call(w, d) PROVE TypeOK'
    BY <2>1 DEF TypeOK, Call, Goto, disk
  <2>2. ASSUME NEW w \in Writers, NEW i \in Inodes, OpenTmp(w, i) PROVE TypeOK'
    BY <2>2 DEF TypeOK, OpenTmp, OpensAt, Goto, Bytes
  <2>3. ASSUME NEW w \in Writers, WriteTmp(w) PROVE TypeOK'
    BY <2>3 DEF TypeOK, WriteTmp, Goto, Bytes
  <2>4. ASSUME NEW w \in Writers, Flush(w) PROVE TypeOK'
    BY <2>4 DEF TypeOK, Flush, Goto
  <2>5. ASSUME NEW w \in Writers, Replace(w) PROVE TypeOK'
    BY <2>5 DEF TypeOK, Replace, Goto
  <2>6. ASSUME NEW w \in Writers, FlushDir(w) PROVE TypeOK'
    BY <2>6 DEF TypeOK, FlushDir, Close, Goto
  <2>7. ASSUME NEW w \in Writers, Raises(w) PROVE TypeOK'
    BY <2>7 DEF TypeOK, Raises, Close, Goto
  <2>8. ASSUME NEW w \in Writers, Kill(w) PROVE TypeOK'
    BY <2>8 DEF TypeOK, Kill, Close, Goto, disk
  <2>9. CASE PowerLoss
    BY <2>9 DEF TypeOK, PowerLoss, Bytes
  <2>10. CASE UNCHANGED vars
    BY <2>10 DEF TypeOK, vars
  <2> QED
    BY <2>1, <2>2, <2>3, <2>4, <2>5, <2>6, <2>7, <2>8, <2>9, <2>10 DEF Next, Step
<1> QED
  BY <1>1, <1>2, PTL DEF Spec

(***************************************************************************)
(* The inductive invariant behind the other theorems.  NeverTorn alone is  *)
(* not inductive: it says nothing of the temporary file, which os.replace  *)
(* turns into the file.                                                    *)
(***************************************************************************)
OneWriter == \A v, w \in Writers : Active(v) /\ Active(w) => v = w

TmpApart == tmp # None => tmp \notin survives

\* What the writer has reached at each of its steps.
Progress ==
    \A w \in Writers :
      /\ pc[w] \in {"write", "fsync", "replace"} => fd[w] = tmp
      /\ pc[w] = "write" => bytes[tmp] = {}
      /\ pc[w] \in {"fsync", "replace"} => bytes[tmp] = {doc[w]}
      /\ pc[w] = "replace" => tmp \in flushed
      /\ pc[w] = "dirsync" => path # None /\ bytes[path] = {doc[w]}

IInv == TypeOK /\ OneWriter /\ TmpApart /\ Progress /\ NeverTorn

LEMMA InitIInv == Init => IInv
  BY DEF Init, IInv, TypeOK, Bytes, OneWriter, Active, TmpApart, Progress, NeverTorn

LEMMA StepIInv ==
    ASSUME Locked = TRUE, IInv, TypeOK', [Next]_vars
    PROVE  IInv'
<1> SUFFICES OneWriter' /\ TmpApart' /\ Progress' /\ NeverTorn'
  BY DEF IInv
<1> USE DEF IInv
<1>1. ASSUME NEW w \in Writers, NEW d \in Docs, Call(w, d)
      PROVE  OneWriter' /\ TmpApart' /\ Progress' /\ NeverTorn'
  <2> USE <1>1 DEF Call, Goto, disk
  <2>1. OneWriter'
    BY DEF OneWriter, Active, TypeOK
  <2>2. TmpApart' /\ NeverTorn'
    BY DEF TmpApart, NeverTorn
  <2>3. Progress'
    BY DEF Progress, TypeOK
  <2> QED
    BY <2>1, <2>2, <2>3
<1>2. ASSUME NEW w \in Writers, NEW i \in Inodes, OpenTmp(w, i)
      PROVE  OneWriter' /\ TmpApart' /\ Progress' /\ NeverTorn'
  <2> USE <1>2 DEF OpenTmp, Goto
  <2>1. i \notin survives
    BY DEF OpensAt, TmpApart
  <2>2. OneWriter'
    BY DEF OneWriter, Active, TypeOK
  <2>3. TmpApart'
    BY <2>1 DEF TmpApart
  <2>4. NeverTorn'
    BY <2>1 DEF NeverTorn, TypeOK
  <2>5. \A v \in Writers : v # w => pc'[v] = "idle"
    BY DEF OneWriter, Active, TypeOK
  <2>6. Progress'
    BY <2>5 DEF Progress, TypeOK
  <2> QED
    BY <2>2, <2>3, <2>4, <2>6
<1>3. ASSUME NEW w \in Writers, WriteTmp(w)
      PROVE  OneWriter' /\ TmpApart' /\ Progress' /\ NeverTorn'
  <2> USE <1>3 DEF WriteTmp, Goto
  <2>1. tmp = fd[w] /\ tmp \in Inodes /\ bytes[tmp] = {}
    BY DEF Progress, TypeOK
  <2>2. bytes' = [bytes EXCEPT ![tmp] = {doc[w]}]
    BY <2>1
  <2>3. OneWriter'
    BY DEF OneWriter, Active, TypeOK
  <2>4. TmpApart'
    BY DEF TmpApart
  <2>5. NeverTorn'
    BY <2>1, <2>2 DEF NeverTorn, TypeOK, TmpApart
  <2>6. \A v \in Writers : v # w => pc'[v] = "idle"
    BY DEF OneWriter, Active, TypeOK
  <2>7. Progress'
    BY <2>1, <2>2, <2>6 DEF Progress, TypeOK
  <2> QED
    BY <2>3, <2>4, <2>5, <2>7
<1>4. ASSUME NEW w \in Writers, Flush(w)
      PROVE  OneWriter' /\ TmpApart' /\ Progress' /\ NeverTorn'
  <2> USE <1>4 DEF Flush, Goto
  <2>1. OneWriter' /\ TmpApart' /\ NeverTorn'
    BY DEF OneWriter, Active, TypeOK, TmpApart, NeverTorn
  <2>2. \A v \in Writers : v # w => pc'[v] = "idle"
    BY DEF OneWriter, Active, TypeOK
  <2>3. Progress'
    BY <2>2 DEF Progress, TypeOK
  <2> QED
    BY <2>1, <2>3
<1>5. ASSUME NEW w \in Writers, Replace(w)
      PROVE  OneWriter' /\ TmpApart' /\ Progress' /\ NeverTorn'
  <2> USE <1>5 DEF Replace, Goto
  <2>1. tmp \in Inodes /\ tmp \in flushed /\ bytes[tmp] = {doc[w]} /\ doc[w] \in Docs
    BY DEF Progress, TypeOK
  <2>2. OneWriter' /\ TmpApart'
    BY DEF OneWriter, Active, TypeOK, TmpApart
  <2>3. NeverTorn'
    BY <2>1 DEF NeverTorn
  <2>4. \A v \in Writers : v # w => pc'[v] = "idle"
    BY DEF OneWriter, Active, TypeOK
  <2>5. Progress'
    BY <2>1, <2>4 DEF Progress, TypeOK
  <2> QED
    BY <2>2, <2>3, <2>5
<1>6. ASSUME NEW w \in Writers, FlushDir(w) \/ Raises(w) \/ Kill(w)
      PROVE  OneWriter' /\ TmpApart' /\ Progress' /\ NeverTorn'
  <2>1. tmp' \in {None, tmp} /\ survives' \subseteq survives
        /\ UNCHANGED <<bytes, flushed>>
    BY <1>6 DEF FlushDir, Raises, Kill, disk, TypeOK
  <2>2. \A v \in Writers : pc'[v] = "idle"
    BY <1>6 DEF FlushDir, Raises, Kill, Close, Goto, OneWriter, Active, TypeOK
  <2> QED
    BY <2>1, <2>2 DEF OneWriter, Active, TmpApart, Progress, NeverTorn
<1>7. CASE PowerLoss
  <2> USE <1>7 DEF PowerLoss
  <2>1. \A v \in Writers : pc'[v] = "idle"
    OBVIOUS
  <2>2. OneWriter' /\ Progress'
    BY <2>1 DEF OneWriter, Active, Progress
  <2>3. TmpApart'
    BY DEF TmpApart
  <2>4. NeverTorn'
    BY DEF NeverTorn, TypeOK
  <2> QED
    BY <2>2, <2>3, <2>4
<1>8. CASE UNCHANGED vars
  BY <1>8 DEF vars, OneWriter, Active, TmpApart, Progress, NeverTorn
<1> QED
  BY <1>1, <1>2, <1>3, <1>4, <1>5, <1>6, <1>7, <1>8 DEF Next, Step

THEOREM IInvHolds ==
    ASSUME Locked = TRUE
    PROVE  Spec => []IInv
<1>1. IInv /\ TypeOK' /\ [Next]_vars => IInv'
  BY StepIInv
<1> QED
  BY <1>1, InitIInv, TypeCorrect, PTL DEF Spec

(***************************************************************************)
(* D10 under the writer lock: no reader, before or after a power loss,     *)
(* finds a torn file.                                                      *)
(***************************************************************************)
THEOREM FilesWhole ==
    ASSUME Locked = TRUE
    PROVE  Spec => []NeverTorn
<1>1. IInv => NeverTorn
  BY DEF IInv
<1> QED
  BY <1>1, IInvHolds, PTL

-----------------------------------------------------------------------------
(* The refinement.  Busy is what the mapping gives to the abstract `busy'.  *)
Busy == IF \E w \in Writers : Active(w)
        THEN doc[CHOOSE w \in Writers : Active(w)] ELSE None

Safe == {Document(i) : i \in survives}

\* Document(i) after the step.
DocNext(i) == IF i = None THEN None ELSE CHOOSE e \in Docs : bytes'[i] = {e}

LEMMA BusyIs ==
    ASSUME OneWriter, NEW w \in Writers, Active(w)
    PROVE  Busy = doc[w]
<1>1. (CHOOSE v \in Writers : Active(v)) = w
  BY DEF OneWriter
<1> QED
  BY <1>1 DEF Busy

LEMMA BusyIsNext ==
    ASSUME OneWriter', NEW w \in Writers, Active(w)'
    PROVE  Busy' = doc'[w]
<1>1. (CHOOSE v \in Writers : Active(v)') = w
  BY DEF OneWriter
<1> QED
  BY <1>1 DEF Busy

LEMMA DocumentIs ==
    ASSUME NEW i \in Inodes, NEW d \in Docs, bytes[i] = {d}
    PROVE  Document(i) = d
<1>1. i # None
  OBVIOUS
<1>2. \A e \in Docs : bytes[i] = {e} <=> e = d
  OBVIOUS
<1>3. (CHOOSE e \in Docs : bytes[i] = {e}) = d
  BY <1>2
<1> QED
  BY <1>1, <1>3 DEF Document

LEMMA DocNextIs ==
    ASSUME NEW i \in Inodes, NEW d \in Docs, bytes'[i] = {d}
    PROVE  DocNext(i) = d
<1>1. \A e \in Docs : bytes'[i] = {e} <=> e = d
  OBVIOUS
<1>2. (CHOOSE e \in Docs : bytes'[i] = {e}) = d
  BY <1>1
<1> QED
  BY <1>2 DEF DocNext

\* A step that leaves the bytes of the reachable inodes alone changes nothing
\* they are found to hold.
LEMMA SameDocuments ==
    ASSUME IInv, \A i \in survives \ {None} : bytes'[i] = bytes[i]
    PROVE  \A i \in survives : DocNext(i) = Document(i)
<1> SUFFICES ASSUME NEW i \in survives PROVE DocNext(i) = Document(i)
  OBVIOUS
<1>1. CASE i = None
  BY <1>1 DEF Document, DocNext
<1>2. CASE i # None
  <2>1. i \in Inodes
    BY <1>2 DEF IInv, TypeOK
  <2>2. PICK d \in Docs : bytes[i] = {d}
    BY <1>2 DEF IInv, NeverTorn
  <2>3. bytes'[i] = {d}
    BY <1>2, <2>2
  <2> QED
    BY <2>1, <2>2, <2>3, DocumentIs, DocNextIs
<1> QED
  BY <1>1, <1>2

LEMMA NextNames ==
    /\ Document(path)' = DocNext(path')
    /\ Safe' = {DocNext(i) : i \in survives'}
  BY DEF Document, DocNext, Safe

\* The step of a writer the reader cannot notice.
LEMMA Unnoticed ==
    ASSUME IInv, UNCHANGED <<path, survives>>,
           \A i \in survives \ {None} : bytes'[i] = bytes[i]
    PROVE  UNCHANGED <<Document(path), Safe>>
<1>1. \A i \in survives : DocNext(i) = Document(i)
  BY SameDocuments
<1>2. path \in survives
  BY DEF IInv, TypeOK
<1> QED
  BY <1>1, <1>2, NextNames DEF Safe

LEMMA InitRefines == Init => Abstract!Init
  BY DEF Init, Abstract!Init, Document, Active

LEMMA StepRefines ==
    ASSUME Locked = TRUE, IInv, IInv', [Next]_vars
    PROVE  [Abstract!Next]_(Abstract!vars)
<1> DEFINE val == Document(path)
<1>0. OneWriter /\ OneWriter' /\ TypeOK /\ TypeOK' /\ path \in survives
  BY DEF IInv, TypeOK
<1>1. ASSUME NEW w \in Writers, NEW d \in Docs, Call(w, d)
      PROVE  Abstract!Begin(d)
  <2>1. Busy = None
    BY <1>1 DEF Busy, Call, Active
  <2>2. Busy' = d
    <3>1. Active(w)' /\ doc'[w] = d
      BY <1>0, <1>1 DEF Active, Call, Goto, TypeOK
    <3> QED
      BY <1>0, <3>1, BusyIsNext
  <2>3. UNCHANGED <<val, Safe>> /\ acked' = None
    BY <1>1, Unnoticed DEF Call, disk
  <2> QED
    BY <2>1, <2>2, <2>3 DEF Abstract!Begin, Busy, Safe
<1>2. ASSUME NEW w \in Writers, UNCHANGED <<Document(path), Safe, doc, acked>>,
             Active(w), Active(w)'
      PROVE  UNCHANGED Abstract!vars
  <2>1. Busy' = Busy
    BY <1>0, <1>2, BusyIs, BusyIsNext
  <2> QED
    BY <1>2, <2>1 DEF Abstract!vars, Busy, Safe
<1>3. ASSUME NEW w \in Writers, NEW i \in Inodes, OpenTmp(w, i)
      PROVE  UNCHANGED Abstract!vars
  <2>1. i \notin survives
    BY <1>3 DEF OpenTmp, OpensAt, IInv, TmpApart
  <2>2. UNCHANGED <<Document(path), Safe>>
    BY <1>0, <1>3, <2>1, Unnoticed DEF OpenTmp, TypeOK
  <2>3. Active(w) /\ Active(w)'
    BY <1>0, <1>3 DEF OpenTmp, Goto, Active, TypeOK
  <2> QED
    BY <1>2, <1>3, <2>2, <2>3 DEF OpenTmp
<1>4. ASSUME NEW w \in Writers, WriteTmp(w)
      PROVE  UNCHANGED Abstract!vars
  <2>1. fd[w] \in Inodes /\ fd[w] \notin survives
    BY <1>0, <1>4 DEF WriteTmp, IInv, TypeOK, Progress, TmpApart
  <2>2. UNCHANGED <<Document(path), Safe>>
    BY <1>0, <1>4, <2>1, Unnoticed DEF WriteTmp, TypeOK
  <2>3. Active(w) /\ Active(w)'
    BY <1>0, <1>4 DEF WriteTmp, Goto, Active, TypeOK
  <2> QED
    BY <1>2, <1>4, <2>2, <2>3 DEF WriteTmp
<1>5. ASSUME NEW w \in Writers, Flush(w)
      PROVE  UNCHANGED Abstract!vars
  <2>1. UNCHANGED <<Document(path), Safe>>
    BY <1>5, Unnoticed DEF Flush
  <2>2. Active(w) /\ Active(w)'
    BY <1>0, <1>5 DEF Flush, Goto, Active, TypeOK
  <2> QED
    BY <1>2, <1>5, <2>1, <2>2 DEF Flush
<1>6. ASSUME NEW w \in Writers, Replace(w)
      PROVE  Abstract!Commit
  <2>1. tmp \in Inodes /\ bytes[tmp] = {doc[w]} /\ doc[w] \in Docs
    BY <1>0, <1>6 DEF Replace, IInv, Progress, TypeOK
  <2>2. Active(w) /\ Active(w)'
    BY <1>0, <1>6 DEF Replace, Goto, Active, TypeOK
  <2>3. Busy = doc[w] /\ Busy' = doc[w] /\ Busy # None
    BY <1>0, <1>6, <2>1, <2>2, BusyIs, BusyIsNext DEF Replace
  <2>4. DocNext(tmp) = doc[w]
    BY <1>6, <2>1, DocNextIs DEF Replace
  <2>5. \A i \in survives : DocNext(i) = Document(i)
    BY <1>6, SameDocuments DEF Replace
  <2>6. val' = Busy /\ Safe' = Safe \cup {Busy}
    BY <1>6, <2>3, <2>4, <2>5, NextNames DEF Replace, Safe
  <2> QED
    BY <1>6, <2>3, <2>6 DEF Abstract!Commit, Replace, Busy, Safe
<1>7. ASSUME NEW w \in Writers, FlushDir(w)
      PROVE  Abstract!Return
  <2>1. path \in Inodes /\ bytes[path] = {doc[w]} /\ doc[w] \in Docs
    BY <1>0, <1>7 DEF FlushDir, IInv, Progress, TypeOK
  <2>2. val = doc[w] /\ DocNext(path) = doc[w]
    BY <1>7, <2>1, DocumentIs, DocNextIs DEF FlushDir
  <2>3. Busy = doc[w] /\ Busy # None
    BY <1>0, <1>7, <2>1, BusyIs DEF FlushDir, Active
  <2>4. Busy' = None
    BY <1>0, <1>7 DEF FlushDir, Close, Goto, Busy, Active, OneWriter, TypeOK
  <2>5. val' = val /\ Safe' = {val} /\ acked' = val
    BY <1>7, <2>2, NextNames DEF FlushDir
  <2> QED
    BY <2>2, <2>3, <2>4, <2>5 DEF Abstract!Return, Busy, Safe
<1>8. ASSUME NEW w \in Writers, Raises(w) \/ Kill(w)
      PROVE  Abstract!Abort
  <2>1. UNCHANGED <<Document(path), Safe>> /\ acked' = acked
    BY <1>8, Unnoticed DEF Raises, Kill, disk
  <2>2. Active(w) /\ doc[w] \in Docs
    BY <1>0, <1>8 DEF Raises, Kill, Active, TypeOK
  <2>3. Busy # None
    BY <1>0, <2>2, BusyIs
  <2>4. Busy' = None
    BY <1>0, <1>8 DEF Raises, Kill, Close, Goto, Busy, Active, OneWriter, TypeOK
  <2> QED
    BY <2>1, <2>3, <2>4 DEF Abstract!Abort, Busy, Safe
<1>9. ASSUME PowerLoss PROVE Abstract!PowerLoss
  <2>1. \A i \in survives \ {None} : bytes'[i] = bytes[i]
    BY <1>0, <1>9 DEF PowerLoss, IInv, NeverTorn, TypeOK
  <2>2. \A i \in survives : DocNext(i) = Document(i)
    BY <2>1, SameDocuments
  <2>3. val' \in Safe /\ Safe' = {val'}
    BY <1>9, <2>2, NextNames DEF PowerLoss, Safe
  <2>4. Busy' = None
    BY <1>9 DEF PowerLoss, Busy, Active
  <2>5. acked' = acked
    BY <1>9 DEF PowerLoss
  <2> QED
    BY <2>3, <2>4, <2>5 DEF Abstract!PowerLoss, Busy, Safe
<1>10. CASE UNCHANGED vars
  BY <1>10 DEF vars, Abstract!vars, Document, Active
<1> QED
  BY <1>1, <1>3, <1>4, <1>5, <1>6, <1>7, <1>8, <1>9, <1>10
  DEF Next, Step, Abstract!Next

(***************************************************************************)
(* D10 under the writer lock: the file is an atomic and durable register.  *)
(* Every step of atomic_write is a step of AtomicFile or changes nothing   *)
(* a reader, now or after a power loss, can find.                          *)
(***************************************************************************)
THEOREM ImplementsRegister ==
    ASSUME Locked = TRUE
    PROVE  Spec => Implements
<1>1. IInv /\ IInv' /\ [Next]_vars => [Abstract!Next]_(Abstract!vars)
  BY StepRefines
<1> QED
  BY <1>1, InitRefines, IInvHolds, PTL DEF Spec, Implements, Abstract!Spec

(***************************************************************************)
(* D10 under the writer lock: what a call that returned has written is     *)
(* what every reader finds until the next call, power losses included.     *)
(***************************************************************************)
THEOREM AcksSurvive ==
    ASSUME Locked = TRUE
    PROVE  Spec => []AckedSurvives
<1> DEFINE Acked == /\ Abstract!Durable
                    /\ Busy # None => acked = None
<1>1. Abstract!Init => Acked
  BY DEF Abstract!Init, Abstract!Durable, Busy
<1>2. Acked /\ [Abstract!Next]_(Abstract!vars) => Acked'
  <2> SUFFICES ASSUME Acked, [Abstract!Next]_(Abstract!vars) PROVE Acked'
    OBVIOUS
  <2>1. ASSUME NEW d \in Docs, Abstract!Begin(d) PROVE Acked'
    BY <2>1 DEF Abstract!Begin, Abstract!Durable, Busy
  <2>2. CASE Abstract!Commit
    BY <2>2 DEF Abstract!Commit, Abstract!Durable, Busy
  <2>3. CASE Abstract!Return
    BY <2>3 DEF Abstract!Return, Abstract!Durable, Busy
  <2>4. CASE Abstract!Abort
    BY <2>4 DEF Abstract!Abort, Abstract!Durable, Busy
  <2>5. CASE Abstract!PowerLoss
    BY <2>5 DEF Abstract!PowerLoss, Abstract!Durable, Busy
  <2>6. CASE UNCHANGED Abstract!vars
    BY <2>6 DEF Abstract!vars, Abstract!Durable, Busy
  <2> QED
    BY <2>1, <2>2, <2>3, <2>4, <2>5, <2>6 DEF Abstract!Next
<1>3. Acked => AckedSurvives
  BY DEF AckedSurvives
<1> HIDE DEF Acked
<1> QED
  BY <1>1, <1>2, <1>3, ImplementsRegister, PTL DEF Implements, Abstract!Spec
=============================================================================
