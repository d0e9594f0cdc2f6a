------------------------- MODULE JumperStore_proofs -------------------------
(***************************************************************************)
(* Theorems about JumperStore, for every set of jumpers, attachments,      *)
(* credentials and contents and any number of failures and rotten files.   *)
(***************************************************************************)
EXTENDS JumperStore, TLAPS

\* The cards of a document resolve.
Cards(d) ==
    \A c \in Creds : d.creds[c] # None /\ d.creds[c].card # None
                       => d.atts[d.creds[c].card] # None

\* What jumper.xml and SHA256SUMS name is there.
Named(f) ==
    \A a \in Atts :
        /\ f.xml # None /\ f.xml.atts[a] # None => f.files[a] # None
        /\ f.sums # None /\ f.sums.files[a] # None => f.files[a] # None

Sound(f) == (f.xml # None => Cards(f.xml)) /\ Named(f)

DiskSound ==
    /\ \A j \in Jumpers : folder[j] # None => Sound(folder[j])
    /\ \A t \in trash : Sound(t[2])

\* What a handler at work still relies on when it takes its next step.
OpSound ==
    op # None =>
        /\ folder[op.j] # None /\ Cards(op.doc)
        /\ op.pc = "stream" => op.h = "add"
        /\ op.h \in {"add", "unattach"} => op.att \in Atts
        /\ \A a \in Atts : op.doc.atts[a] # None /\ ~(op.pc = "stream" /\ a = op.att)
                             => folder[op.j].files[a] # None
        /\ op.h = "add" => op.doc.atts[op.att] # None
        /\ op.h = "unattach" => op.doc.atts[op.att] = None
        /\ op.pc \in {"sums", "unlink"} => folder[op.j].xml = op.doc
        /\ op.pc = "unlink" /\ op.h = "unattach" /\ folder[op.j].sums # None
             => folder[op.j].sums.files[op.att] = None

JumperInv == TypeOK /\ OpSound /\ DiskSound

-----------------------------------------------------------------------------
(* Shapes. *)

LEMMA DocType ==
  ASSUME NEW d \in Docs
  PROVE  /\ d.atts \in Files /\ d.creds \in [Creds -> Credentials \cup {None}]
         /\ \A a \in Atts : d.atts[a] \in Contents \cup {None}
         /\ \A c \in Creds : d.creds[c] # None =>
              d.creds[c].kind \in Kinds /\ d.creds[c].card \in Atts \cup {None}
  BY DEF Docs, Files, Credentials

LEMMA FolderType ==
  ASSUME TypeOK, NEW j \in Jumpers, folder[j] # None
  PROVE  /\ folder[j] \in Folders /\ folder[j].files \in Files
         /\ folder[j].xml # None => folder[j].xml \in Docs
         /\ folder[j].sums # None => folder[j].sums \in Manifests
  BY DEF TypeOK, Folders

LEMMA EmptyType == EmptyDoc \in Docs /\ EmptyDir \in Folders /\ Cards(EmptyDoc) /\ Sound(EmptyDir)
<1>1. NoFiles \in Files /\ [c \in Creds |-> None] \in [Creds -> Credentials \cup {None}]
  BY DEF NoFiles, Files
<1>2. EmptyDoc \in Docs
  BY <1>1 DEF EmptyDoc, Docs
<1>3. EmptyDir \in Folders
  BY <1>1 DEF EmptyDir, Folders
<1> QED
  BY <1>2, <1>3 DEF EmptyDoc, EmptyDir, Cards, Sound, Named

\* One folder replaced by a sound one.
LEMMA Replaced ==
  ASSUME TypeOK, DiskSound, NEW j \in Jumpers, NEW g \in Folders, Sound(g),
         folder' = [folder EXCEPT ![j] = g], trash' = trash
  PROVE  /\ folder' \in [Jumpers -> Folders \cup {None}] /\ DiskSound'
         /\ folder'[j] = g /\ g # None
<1>1. folder \in [Jumpers -> Folders \cup {None}]
  BY DEF TypeOK
<1>2. g # None
  BY NoneAssumption
<1>3. \A k \in Jumpers : folder'[k] = IF k = j THEN g ELSE folder[k]
  BY <1>1
<1> QED
  BY <1>1, <1>2, <1>3 DEF DiskSound

\* No jumper.xml is lost.
StillRead == \A j \in Jumpers : Reads(j) => Reads(j)'

LEMMA ReplacedReads ==
  ASSUME TypeOK, NEW j \in Jumpers, NEW g, g # None, folder' = [folder EXCEPT ![j] = g],
         Reads(j) => g.xml # None
  PROVE  StillRead
<1>1. \A k \in Jumpers : folder'[k] = IF k = j THEN g ELSE folder[k]
  BY DEF TypeOK
<1> QED
  BY <1>1 DEF StillRead, Reads

\* A handler that starts on a folder it finds.
LEMMA Started ==
  ASSUME JumperInv, op = None, NEW j \in Jumpers, folder'[j] # None,
         NEW d \in Docs, Cards(d), NEW h \in Handlers, NEW pc \in {"stream", "xml"},
         NEW a \in Atts \cup {None}, Run(h, pc, j, d, a),
         pc = "stream" => h = "add",
         h \in {"add", "unattach"} => a \in Atts,
         h = "add" => d.atts[a] # None,
         h = "unattach" => d.atts[a] = None,
         \A x \in Atts : d.atts[x] # None /\ ~(pc = "stream" /\ x = a)
                           => folder'[j].files[x] # None
  PROVE  op' \in Ops /\ OpSound'
<1>1. op' \in Ops
  BY DEF Run, Ops, Steps
<1>2. op'.h = h /\ op'.pc = pc /\ op'.j = j /\ op'.doc = d /\ op'.att = a
  BY DEF Run
<1> QED
  BY <1>1, <1>2 DEF OpSound

\* _write_jumper with the attachments as they were and cards that resolve.
LEMMA Written ==
  ASSUME JumperInv, Idle, NEW j \in Jumpers, Reads(j), NEW d \in Docs,
         d.atts = Doc(j).atts, Cards(d), Write(j, d)
  PROVE  JumperInv'
<1>1. folder' = folder /\ trash' = trash /\ Run("write", "xml", j, d, None)
  BY DEF Write
<1>2. /\ folder[j] # None
      /\ \A x \in Atts : d.atts[x] # None => folder[j].files[x] # None
  BY DEF Reads, Doc, JumperInv, DiskSound, Sound, Named
<1>3. op' \in Ops /\ OpSound'
  <2>1. "write" \in Handlers /\ "xml" \in {"stream", "xml"} /\ None \in Atts \cup {None}
    BY DEF Handlers
  <2> QED
    BY <1>1, <1>2, <2>1, Started DEF Idle
<1>4. TypeOK'
  BY <1>3 DEF Write, JumperInv, TypeOK
<1>5. DiskSound'
  BY <1>1 DEF JumperInv, DiskSound
<1> QED
  BY <1>3, <1>4, <1>5 DEF JumperInv

LEMMA DocSound ==
  ASSUME JumperInv, NEW j \in Jumpers, Reads(j)
  PROVE  /\ folder[j] # None /\ Doc(j) \in Docs /\ Cards(Doc(j))
         /\ \A x \in Atts : Doc(j).atts[x] # None => folder[j].files[x] # None
  BY FolderType DEF Reads, Doc, JumperInv, DiskSound, Sound, Named

-----------------------------------------------------------------------------
(* The credentials: the card is checked against the same document that the  *)
(* handler writes back.                                                     *)

LEMMA StepAdd ==
  ASSUME JumperInv, NEW kind \in Kinds, NEW j \in Jumpers, NEW c \in Creds,
         NEW card \in Atts \cup {None}, AddCredential(kind, j, c, card)
  PROVE  JumperInv'
<1> DEFINE d == [Doc(j) EXCEPT !.creds[c] = [kind |-> kind, card |-> card]]
<1>1. Idle /\ Reads(j) /\ CardExists(Doc(j), card) /\ Write(j, d)
  BY DEF AddCredential
<1>2. Doc(j) \in Docs /\ Cards(Doc(j))
  BY <1>1, DocSound
<1>3. [kind |-> kind, card |-> card] \in Credentials
  BY DEF Credentials
<1>4. d \in Docs /\ d.atts = Doc(j).atts
      /\ d.creds = [Doc(j).creds EXCEPT ![c] = [kind |-> kind, card |-> card]]
  BY <1>2, <1>3 DEF Docs
<1>5. \A k \in Creds : d.creds[k] = IF k = c THEN [kind |-> kind, card |-> card]
                                    ELSE Doc(j).creds[k]
  BY <1>2, <1>4, DocType
<1> HIDE DEF d
<1>6. Cards(d)
  BY <1>1, <1>2, <1>4, <1>5 DEF Cards, CardExists
<1> QED
  BY <1>1, <1>4, <1>6, Written

LEMMA StepUpdate ==
  ASSUME JumperInv, NEW kind \in Kinds, NEW j \in Jumpers, NEW c \in Creds,
         NEW card \in Atts \cup {None}, UpdateCredential(kind, j, c, card)
  PROVE  JumperInv'
<1> DEFINE d == [Doc(j) EXCEPT !.creds[c].card = card]
           r == [Doc(j).creds[c] EXCEPT !.card = card]
<1>1. /\ Idle /\ Reads(j) /\ Doc(j).creds[c] # None
      /\ CardExists(Doc(j), card) /\ Write(j, d)
  BY DEF UpdateCredential, Has
<1>2. Doc(j) \in Docs /\ Cards(Doc(j))
  BY <1>1, DocSound
<1>3. Doc(j).creds[c] \in Credentials
  BY <1>1, <1>2 DEF Docs
<1>4. r \in Credentials /\ r.card = card
  BY <1>3 DEF Credentials
<1>5. d \in Docs /\ d.atts = Doc(j).atts /\ d.creds = [Doc(j).creds EXCEPT ![c] = r]
  BY <1>2, <1>4 DEF Docs
<1>6. \A k \in Creds : d.creds[k] = IF k = c THEN r ELSE Doc(j).creds[k]
  BY <1>2, <1>5, DocType
<1> HIDE DEF d, r
<1>7. Cards(d)
  BY <1>1, <1>2, <1>4, <1>5, <1>6 DEF Cards, CardExists
<1> QED
  BY <1>1, <1>5, <1>7, Written

LEMMA StepDelete ==
  ASSUME JumperInv, NEW kind \in Kinds, NEW j \in Jumpers, NEW c \in Creds,
         DeleteCredential(kind, j, c)
  PROVE  JumperInv'
<1> DEFINE d == [Doc(j) EXCEPT !.creds[c] = None]
<1>1. Idle /\ Reads(j) /\ Write(j, d)
  BY DEF DeleteCredential, Has
<1>2. Doc(j) \in Docs /\ Cards(Doc(j))
  BY <1>1, DocSound
<1>3. d \in Docs /\ d.atts = Doc(j).atts /\ d.creds = [Doc(j).creds EXCEPT ![c] = None]
  BY <1>2 DEF Docs
<1>4. \A k \in Creds : d.creds[k] = IF k = c THEN None ELSE Doc(j).creds[k]
  BY <1>2, <1>3, DocType
<1> HIDE DEF d
<1>5. Cards(d)
  BY <1>2, <1>3, <1>4 DEF Cards
<1> QED
  BY <1>1, <1>3, <1>5, Written

LEMMA StepCredentials == JumperInv /\ CredentialRequest => JumperInv'
<1> SUFFICES ASSUME JumperInv, CredentialRequest PROVE JumperInv'
  OBVIOUS
<1>1. PICK j \in Jumpers, c \in Creds :
        \/ \E card \in Atts \cup {None} :
             \/ AddMembership(j, c, card)   \/ UpdateMembership(j, c, card)
             \/ AddCop(j, c, card)          \/ UpdateCop(j, c, card)
             \/ AddRating(j, c, card)       \/ UpdateRating(j, c, card)
             \/ AddTandemRating(j, c, card) \/ UpdateTandemRating(j, c, card)
             \/ AddMedical(j, c, card)      \/ UpdateMedical(j, c, card)
        \/ DeleteMembership(j, c) \/ DeleteCop(j, c) \/ DeleteRating(j, c)
        \/ DeleteTandemRating(j, c) \/ DeleteMedical(j, c)
        \/ ResetTandemRatingCurrency(j, c)
  BY DEF CredentialRequest
<1>2. /\ "memberships" \in Kinds /\ "cops" \in Kinds /\ "ratings" \in Kinds
      /\ "tandem_ratings" \in Kinds /\ "medicals" \in Kinds
  BY DEF Kinds
<1>3. CASE ResetTandemRatingCurrency(j, c)
  <2>1. Idle /\ Reads(j) /\ Write(j, Doc(j))
    BY <1>3 DEF ResetTandemRatingCurrency, Has
  <2> QED
    BY <2>1, DocSound, Written
<1>4. CASE \E card \in Atts \cup {None} :
             \/ AddMembership(j, c, card)   \/ UpdateMembership(j, c, card)
             \/ AddCop(j, c, card)          \/ UpdateCop(j, c, card)
             \/ AddRating(j, c, card)       \/ UpdateRating(j, c, card)
             \/ AddTandemRating(j, c, card) \/ UpdateTandemRating(j, c, card)
             \/ AddMedical(j, c, card)      \/ UpdateMedical(j, c, card)
  BY <1>2, <1>4, StepAdd, StepUpdate
  DEF AddMembership, UpdateMembership, AddCop, UpdateCop, AddRating, UpdateRating,
      AddTandemRating, UpdateTandemRating, AddMedical, UpdateMedical
<1>5. CASE \/ DeleteMembership(j, c) \/ DeleteCop(j, c) \/ DeleteRating(j, c)
           \/ DeleteTandemRating(j, c) \/ DeleteMedical(j, c)
  BY <1>2, <1>5, StepDelete
  DEF DeleteMembership, DeleteCop, DeleteRating, DeleteTandemRating, DeleteMedical
<1> QED
  BY <1>1, <1>3, <1>4, <1>5

-----------------------------------------------------------------------------
(* The other requests. *)

LEMMA StepCreate ==
  ASSUME JumperInv, NEW j \in Jumpers, CreateJumper(j) PROVE JumperInv'
<1>1. op = None /\ TypeOK /\ DiskSound
  BY DEF CreateJumper, Idle, JumperInv
<1>2. folder' \in [Jumpers -> Folders \cup {None}] /\ DiskSound' /\ folder'[j] # None
  BY <1>1, EmptyType, Replaced DEF CreateJumper
<1>3. op' \in Ops /\ OpSound'
  <2>1. "create" \in Handlers /\ "xml" \in {"stream", "xml"} /\ None \in Atts \cup {None}
    BY DEF Handlers
  <2>2. \A x \in Atts : EmptyDoc.atts[x] = None
    BY DEF EmptyDoc, NoFiles
  <2> QED
    BY <1>1, <1>2, <2>1, <2>2, EmptyType, Started DEF CreateJumper
<1> QED
  BY <1>1, <1>2, <1>3 DEF CreateJumper, JumperInv, TypeOK

LEMMA StepDeleteJumper ==
  ASSUME JumperInv, NEW j \in Jumpers, DeleteJumper(j) PROVE JumperInv'
<1>1. /\ op = None /\ op' = None /\ folder[j] # None /\ folder[j] \in Folders
      /\ folder' = [folder EXCEPT ![j] = None]
      /\ trash' = trash \cup {<<j, folder[j]>>}
  BY FolderType DEF DeleteJumper, Idle, JumperInv
<1>2. \A k \in Jumpers : folder'[k] = IF k = j THEN None ELSE folder[k]
  BY <1>1 DEF JumperInv, TypeOK
<1>3. DiskSound'
  <2>1. Sound(folder[j])
    BY <1>1 DEF JumperInv, DiskSound
  <2>2. \A t \in trash' : t \in trash \/ t[2] = folder[j]
    BY <1>1
  <2> QED
    BY <1>2, <2>1, <2>2 DEF JumperInv, DiskSound
<1>4. folder' \in [Jumpers -> Folders \cup {None}] /\ trash' \in SUBSET (Jumpers \X Folders)
  BY <1>1 DEF JumperInv, TypeOK
<1> QED
  BY <1>1, <1>3, <1>4 DEF DeleteJumper, JumperInv, TypeOK, OpSound

LEMMA StepAddAttachment ==
  ASSUME JumperInv, NEW j \in Jumpers, NEW a \in Atts, NEW c \in Contents,
         AddAttachment(j, a, c)
  PROVE  JumperInv'
<1> DEFINE d == [Doc(j) EXCEPT !.atts[a] = c]
<1>1. op = None /\ Reads(j) /\ Run("add", "stream", j, d, a) /\ folder' = folder /\ trash' = trash
  BY DEF AddAttachment, Idle
<1>2. /\ folder[j] # None /\ Doc(j) \in Docs /\ Cards(Doc(j))
      /\ \A x \in Atts : Doc(j).atts[x] # None => folder[j].files[x] # None
  BY <1>1, DocSound
<1>3. d \in Docs /\ d.creds = Doc(j).creds /\ d.atts = [Doc(j).atts EXCEPT ![a] = c]
  BY <1>2 DEF Docs, Files
<1>4. \A x \in Atts : d.atts[x] = IF x = a THEN c ELSE Doc(j).atts[x]
  BY <1>2, <1>3, DocType DEF Files
<1> HIDE DEF d
<1>5. Cards(d)
  BY <1>2, <1>3, <1>4, NoneAssumption, DocType DEF Cards
<1>6. op' \in Ops /\ OpSound'
  <2>1. "add" \in Handlers /\ "stream" \in {"stream", "xml"} /\ a \in Atts \cup {None}
    BY DEF Handlers
  <2>2. d.atts[a] # None
    BY <1>4, NoneAssumption
  <2>3. \A x \in Atts : d.atts[x] # None /\ ~("stream" = "stream" /\ x = a)
                          => folder'[j].files[x] # None
    BY <1>1, <1>2, <1>4
  <2>4. folder'[j] # None /\ d \in Docs
    BY <1>1, <1>2, <1>3
  <2> QED
    BY <1>1, <1>5, <2>1, <2>2, <2>3, <2>4, Started
<1>7. TypeOK'
  BY <1>6 DEF AddAttachment, JumperInv, TypeOK
<1>8. DiskSound'
  BY <1>1 DEF JumperInv, DiskSound
<1> QED
  BY <1>6, <1>7, <1>8 DEF JumperInv

LEMMA StepDeleteAttachment ==
  ASSUME JumperInv, NEW j \in Jumpers, NEW a \in Atts, DeleteAttachment(j, a)
  PROVE  JumperInv'
<1> DEFINE d == [Doc(j) EXCEPT !.atts[a] = None]
<1>1. /\ op = None /\ Reads(j) /\ ~Referenced(Doc(j), a)
      /\ Run("unattach", "xml", j, d, a) /\ folder' = folder /\ trash' = trash
  BY DEF DeleteAttachment, Idle
<1>2. /\ folder[j] # None /\ Doc(j) \in Docs /\ Cards(Doc(j))
      /\ \A x \in Atts : Doc(j).atts[x] # None => folder[j].files[x] # None
  BY <1>1, DocSound
<1>3. d \in Docs /\ d.creds = Doc(j).creds /\ d.atts = [Doc(j).atts EXCEPT ![a] = None]
  BY <1>2 DEF Docs, Files
<1>4. \A x \in Atts : d.atts[x] = IF x = a THEN None ELSE Doc(j).atts[x]
  BY <1>2, <1>3, DocType DEF Files
<1> HIDE DEF d
<1>5. Cards(d)
  BY <1>1, <1>2, <1>3, <1>4, DocType DEF Cards, Referenced
<1>6. op' \in Ops /\ OpSound'
  <2>1. "unattach" \in Handlers /\ "xml" \in {"stream", "xml"} /\ a \in Atts \cup {None}
    BY DEF Handlers
  <2>2. /\ d.atts[a] = None /\ folder'[j] # None /\ d \in Docs
        /\ \A x \in Atts : d.atts[x] # None => folder'[j].files[x] # None
    BY <1>1, <1>2, <1>3, <1>4
  <2> QED
    BY <1>1, <1>5, <2>1, <2>2, Started
<1>7. TypeOK'
  BY <1>6 DEF DeleteAttachment, JumperInv, TypeOK
<1>8. DiskSound'
  BY <1>1 DEF JumperInv, DiskSound
<1> QED
  BY <1>6, <1>7, <1>8 DEF JumperInv

LEMMA StepRequest == JumperInv /\ Request => JumperInv'
<1> SUFFICES ASSUME JumperInv, Request PROVE JumperInv'
  OBVIOUS
<1>1. ASSUME NEW j \in Jumpers, UpdateJumper(j) PROVE JumperInv'
  <2>1. Idle /\ Reads(j) /\ Write(j, Doc(j))
    BY <1>1 DEF UpdateJumper
  <2> QED
    BY <2>1, DocSound, Written
<1> QED
  BY <1>1, StepCredentials, StepCreate, StepDeleteJumper, StepAddAttachment,
     StepDeleteAttachment DEF Request

-----------------------------------------------------------------------------
(* The durable steps. *)

\* The handler moved on within the same request.
LEMMA MovedOn ==
  ASSUME op \in Ops, NEW pc \in Steps, op' = [op EXCEPT !.pc = pc]
  PROVE  /\ op' \in Ops /\ op' # None /\ op'.pc = pc /\ op'.h = op.h
         /\ op'.j = op.j /\ op'.doc = op.doc /\ op'.att = op.att
<1>1. op' \in Ops
  BY DEF Ops
<1>2. op' # None
  BY <1>1, NoneAssumption
<1> QED
  BY <1>1, <1>2 DEF Ops

LEMMA AtWork ==
  ASSUME JumperInv, op # None
  PROVE  /\ op \in Ops /\ op.j \in Jumpers /\ op.doc \in Docs /\ op.att \in Atts \cup {None}
         /\ folder[op.j] # None /\ folder[op.j] \in Folders /\ Sound(folder[op.j])
         /\ TypeOK /\ DiskSound
<1>1. op \in Ops
  BY DEF JumperInv, TypeOK
<1>2. op.j \in Jumpers /\ op.doc \in Docs /\ op.att \in Atts \cup {None}
  BY <1>1 DEF Ops
<1>3. folder[op.j] # None
  BY DEF JumperInv, OpSound
<1> QED
  BY <1>1, <1>2, <1>3, FolderType DEF JumperInv, DiskSound

LEMMA StepStream ==
  ASSUME JumperInv, StreamAttachment PROVE JumperInv' /\ StillRead
<1>1. /\ op # None /\ op.pc = "stream" /\ trash' = trash
      /\ op' = [op EXCEPT !.pc = "xml"]
  BY DEF StreamAttachment, At
<1>2. op.h = "add" /\ op.att \in Atts /\ op.doc.atts[op.att] # None
  BY <1>1 DEF JumperInv, OpSound
<1> DEFINE f == folder[op.j]
           v == op.doc.atts[op.att]
           g == [f EXCEPT !.files[op.att] = v]
<1>3. /\ f \in Folders /\ f # None /\ Sound(f) /\ v \in Contents /\ v # None
      /\ folder' = [folder EXCEPT ![op.j] = g]
  BY <1>1, <1>2, AtWork, DocType DEF StreamAttachment
<1>4. g \in Folders /\ g.xml = f.xml /\ g.sums = f.sums
      /\ g.files = [f.files EXCEPT ![op.att] = v]
  BY <1>3 DEF Folders, Files
<1>5. \A x \in Atts : g.files[x] = IF x = op.att THEN v ELSE f.files[x]
  BY <1>2, <1>3, <1>4 DEF Folders, Files
<1>11. \A x \in Atts : op.doc.atts[x] # None => g.files[x] # None
  BY <1>1, <1>3, <1>5 DEF JumperInv, OpSound
<1> HIDE DEF g
<1>6. Sound(g)
  BY <1>3, <1>4, <1>5 DEF Sound, Named
<1>7. folder' \in [Jumpers -> Folders \cup {None}] /\ DiskSound'
      /\ folder'[op.j] = g /\ g # None
  BY <1>1, <1>3, <1>4, <1>6, AtWork, Replaced
<1>8. /\ op' \in Ops /\ op' # None /\ op'.pc = "xml" /\ op'.h = op.h
      /\ op'.j = op.j /\ op'.doc = op.doc /\ op'.att = op.att
  BY <1>1, AtWork, MovedOn DEF Steps
<1>9. OpSound'
  BY <1>1, <1>2, <1>7, <1>8, <1>11 DEF OpSound, JumperInv
<1>10. TypeOK'
  BY <1>7, <1>8 DEF StreamAttachment, JumperInv, TypeOK
<1>12. StillRead
  BY <1>1, <1>3, <1>4, <1>7, AtWork, ReplacedReads DEF Reads
<1> QED
  BY <1>7, <1>9, <1>10, <1>12 DEF JumperInv

LEMMA StepXml ==
  ASSUME JumperInv, WriteJumperXml PROVE JumperInv' /\ StillRead
<1>1. /\ op # None /\ op.pc = "xml" /\ trash' = trash
      /\ op' = [op EXCEPT !.pc = "sums"]
  BY DEF WriteJumperXml, At
<1> DEFINE f == folder[op.j]
           g == [f EXCEPT !.xml = op.doc, !.sums = Stale(@)]
<1>2. /\ f \in Folders /\ f # None /\ Sound(f) /\ op.doc \in Docs /\ Cards(op.doc)
      /\ \A x \in Atts : op.doc.atts[x] # None => f.files[x] # None
      /\ folder' = [folder EXCEPT ![op.j] = g]
  BY <1>1, AtWork DEF WriteJumperXml, JumperInv, OpSound
<1>3. /\ Stale(f.sums) \in Manifests \cup {None}
      /\ Stale(f.sums) # None => f.sums # None /\ Stale(f.sums).files = f.sums.files
  BY <1>2 DEF Folders, Manifests, Stale
<1>4. g \in Folders /\ g.xml = op.doc /\ g.sums = Stale(f.sums) /\ g.files = f.files
  BY <1>2, <1>3 DEF Folders
<1> HIDE DEF g
<1>5. Sound(g)
  BY <1>2, <1>3, <1>4 DEF Sound, Named
<1>6. folder' \in [Jumpers -> Folders \cup {None}] /\ DiskSound'
      /\ folder'[op.j] = g /\ g # None
  BY <1>1, <1>2, <1>4, <1>5, AtWork, Replaced
<1>7. /\ op' \in Ops /\ op' # None /\ op'.pc = "sums" /\ op'.h = op.h
      /\ op'.j = op.j /\ op'.doc = op.doc /\ op'.att = op.att
  BY <1>1, AtWork, MovedOn DEF Steps
<1>8. OpSound'
  BY <1>1, <1>2, <1>4, <1>6, <1>7 DEF OpSound, JumperInv
<1>9. TypeOK'
  BY <1>6, <1>7 DEF WriteJumperXml, JumperInv, TypeOK
<1>10. StillRead
  <2>1. g.xml # None
    BY <1>2, <1>4, NoneAssumption
  <2> QED
    BY <1>1, <1>2, <1>6, <2>1, AtWork, ReplacedReads
<1> QED
  BY <1>6, <1>8, <1>9, <1>10 DEF JumperInv

LEMMA StepManifest ==
  ASSUME JumperInv, WriteManifest PROVE JumperInv' /\ StillRead
<1>1. /\ op # None /\ op.pc = "sums" /\ trash' = trash
      /\ op' = IF op.h \in {"unattach", "migrate"} THEN [op EXCEPT !.pc = "unlink"] ELSE None
  BY DEF WriteManifest, At
<1> DEFINE f == folder[op.j]
           m == Manifest(f, op.h)
           g == [f EXCEPT !.sums = m]
<1>2. /\ f \in Folders /\ f # None /\ Sound(f) /\ f.xml = op.doc /\ op.doc \in Docs
      /\ \A x \in Atts : op.doc.atts[x] # None => f.files[x] # None
      /\ folder' = [folder EXCEPT ![op.j] = g]
  BY <1>1, AtWork DEF WriteManifest, JumperInv, OpSound
<1>3. /\ m \in Manifests /\ \A x \in Atts : m.files[x] # None => f.files[x] # None
      /\ op.h = "unattach" => m.files = op.doc.atts
  BY <1>2, DocType DEF Manifest, Manifests, Folders
<1> HIDE DEF m
<1>4. g \in Folders /\ g.xml = f.xml /\ g.sums = m /\ g.files = f.files
  BY <1>2, <1>3 DEF Folders
<1> HIDE DEF g
<1>5. Sound(g)
  BY <1>2, <1>3, <1>4 DEF Sound, Named
<1>6. folder' \in [Jumpers -> Folders \cup {None}] /\ DiskSound'
      /\ folder'[op.j] = g /\ g # None
  BY <1>1, <1>2, <1>4, <1>5, AtWork, Replaced
<1>7. op' # None =>
        /\ op' \in Ops /\ op'.pc = "unlink" /\ op'.h = op.h
        /\ op'.j = op.j /\ op'.doc = op.doc /\ op'.att = op.att
  BY <1>1, AtWork, MovedOn DEF Steps
<1>8. OpSound'
  BY <1>1, <1>2, <1>3, <1>4, <1>6, <1>7 DEF OpSound, JumperInv
<1>9. TypeOK'
  BY <1>6, <1>7 DEF WriteManifest, JumperInv, TypeOK
<1>10. StillRead
  BY <1>1, <1>2, <1>4, <1>6, AtWork, ReplacedReads DEF Reads
<1> QED
  BY <1>6, <1>8, <1>9, <1>10 DEF JumperInv

LEMMA StepUnlink ==
  ASSUME JumperInv, UnlinkAttachment PROVE JumperInv' /\ StillRead
<1>1. op # None /\ op.pc = "unlink" /\ op.h = "unattach" /\ trash' = trash /\ op' = None
  BY DEF UnlinkAttachment, At
<1> DEFINE f == folder[op.j]
           g == [f EXCEPT !.files[op.att] = None]
<1>2. /\ f \in Folders /\ f # None /\ Sound(f) /\ f.xml = op.doc /\ op.att \in Atts
      /\ op.doc.atts[op.att] = None
      /\ f.sums # None => f.sums.files[op.att] = None
      /\ folder' = [folder EXCEPT ![op.j] = g]
  BY <1>1, AtWork DEF UnlinkAttachment, JumperInv, OpSound
<1>3. g \in Folders /\ g.xml = f.xml /\ g.sums = f.sums
      /\ g.files = [f.files EXCEPT ![op.att] = None]
  BY <1>2 DEF Folders, Files
<1>4. \A x \in Atts : g.files[x] = IF x = op.att THEN None ELSE f.files[x]
  BY <1>2, <1>3 DEF Folders, Files
<1> HIDE DEF g
<1>5. Sound(g)
  BY <1>2, <1>3, <1>4 DEF Sound, Named
<1>6. folder' \in [Jumpers -> Folders \cup {None}] /\ DiskSound' /\ g # None
  BY <1>1, <1>2, <1>3, <1>5, AtWork, Replaced
<1>7. StillRead
  BY <1>1, <1>2, <1>3, <1>6, AtWork, ReplacedReads DEF Reads
<1> QED
  BY <1>1, <1>6, <1>7 DEF UnlinkAttachment, JumperInv, TypeOK, OpSound

-----------------------------------------------------------------------------
(* Boot and environment. *)

LEMMA StepMigrate ==
  ASSUME JumperInv, NEW j \in Jumpers, Migrate(j) PROVE JumperInv' /\ StillRead
<1>1. op = None /\ TypeOK /\ DiskSound /\ trash' = trash
  BY DEF Migrate, JumperInv
<1> DEFINE g == IF folder[j] = None THEN EmptyDir ELSE folder[j]
<1>2. g \in Folders /\ Sound(g)
  BY <1>1, EmptyType, FolderType DEF DiskSound
<1>3. folder' = [folder EXCEPT ![j] = g]
  BY DEF Migrate
<1> HIDE DEF g
<1>4. folder' \in [Jumpers -> Folders \cup {None}] /\ DiskSound' /\ folder'[j] # None
      /\ StillRead
  <2>1. g # None /\ ~Reads(j)
    BY <1>2, NoneAssumption DEF Migrate
  <2> QED
    BY <1>1, <1>2, <1>3, <2>1, Replaced, ReplacedReads
<1>5. op' \in Ops /\ OpSound'
  <2>1. "migrate" \in Handlers /\ "xml" \in {"stream", "xml"} /\ None \in Atts \cup {None}
    BY DEF Handlers
  <2>2. \A x \in Atts : EmptyDoc.atts[x] = None
    BY DEF EmptyDoc, NoFiles
  <2>3. Run("migrate", "xml", j, EmptyDoc, None)
    BY DEF Migrate
  <2> QED
    BY <1>1, <1>4, <2>1, <2>2, <2>3, EmptyType, Started
<1>6. TypeOK'
  BY <1>1, <1>4, <1>5 DEF Migrate, TypeOK
<1> QED
  BY <1>4, <1>5, <1>6 DEF JumperInv

LEMMA StepRot ==
  ASSUME JumperInv, NEW j \in Jumpers, NEW a \in Atts, NEW c \in Contents, Rot(j, a, c)
  PROVE  JumperInv' /\ StillRead
<1>1. /\ folder[j] # None /\ folder[j].files[a] # None /\ trash' = trash /\ op' = op
      /\ TypeOK /\ DiskSound
  BY DEF Rot, JumperInv
<1> DEFINE f == folder[j]
           g == [f EXCEPT !.files[a] = c]
<1>2. f \in Folders /\ Sound(f) /\ folder' = [folder EXCEPT ![j] = g]
  BY <1>1, FolderType DEF Rot, DiskSound
<1>3. g \in Folders /\ g.xml = f.xml /\ g.sums = f.sums /\ g.files = [f.files EXCEPT ![a] = c]
  BY <1>2 DEF Folders, Files
<1>4. \A x \in Atts : g.files[x] = IF x = a THEN c ELSE f.files[x]
  BY <1>2, <1>3 DEF Folders, Files
<1>5. \A x \in Atts : g.files[x] # None <=> f.files[x] # None
  BY <1>1, <1>4, NoneAssumption
<1> HIDE DEF g
<1>6. Sound(g)
  BY <1>2, <1>3, <1>5 DEF Sound, Named
<1>7. folder' \in [Jumpers -> Folders \cup {None}] /\ DiskSound'
      /\ folder'[j] = g /\ g # None
  BY <1>1, <1>2, <1>3, <1>6, Replaced
<1>8. \A k \in Jumpers : k # j => folder'[k] = folder[k]
  BY <1>1, <1>2 DEF TypeOK
<1>9. OpSound'
  <2> SUFFICES ASSUME op # None PROVE OpSound'
    BY <1>1 DEF OpSound
  <2>1. op.j \in Jumpers
    BY AtWork
  <2>2. folder'[op.j] # None /\ folder'[op.j].xml = folder[op.j].xml
        /\ folder'[op.j].sums = folder[op.j].sums
        /\ \A x \in Atts : folder[op.j].files[x] # None => folder'[op.j].files[x] # None
    <3>1. CASE op.j = j
      BY <1>3, <1>5, <1>7, <3>1
    <3>2. CASE op.j # j
      BY <1>8, <2>1, <3>2, AtWork
    <3> QED
      BY <3>1, <3>2
  <2> QED
    BY <1>1, <2>2 DEF OpSound, JumperInv
<1>10. TypeOK'
  BY <1>1, <1>7, BoundsAssumption DEF Rot, TypeOK
<1>11. StillRead
  BY <1>1, <1>2, <1>3, <1>7, ReplacedReads DEF Reads
<1> QED
  BY <1>7, <1>9, <1>10, <1>11 DEF JumperInv

LEMMA StepBoot ==
  ASSUME JumperInv, Start PROVE JumperInv'
<1>1. CASE Boot
  BY <1>1 DEF Boot, JumperInv, TypeOK, OpSound, DiskSound
<1>2. CASE UnlinkLegacy
  BY <1>2 DEF UnlinkLegacy, JumperInv, TypeOK, OpSound, DiskSound
<1>3. CASE BootDone
  BY <1>3 DEF BootDone, JumperInv, TypeOK, OpSound, DiskSound
<1>4. ASSUME NEW j \in Jumpers, CleanUpLegacy(j) \/ SkipCorrupt(j) PROVE JumperInv'
  BY <1>4 DEF CleanUpLegacy, SkipCorrupt, JumperInv, TypeOK, OpSound, DiskSound
<1> QED
  BY <1>1, <1>2, <1>3, <1>4, StepMigrate DEF Start

LEMMA StepEnvironment ==
  ASSUME JumperInv, Environment PROVE JumperInv'
<1>1. CASE HandlerFails
  BY <1>1, BoundsAssumption DEF HandlerFails, JumperInv, TypeOK, OpSound, DiskSound
<1>2. CASE Crash
  BY <1>2, BoundsAssumption DEF Crash, JumperInv, TypeOK, OpSound, DiskSound
<1>3. CASE Quit
  BY <1>3 DEF Quit, JumperInv, TypeOK, OpSound, DiskSound
<1> QED
  BY <1>1, <1>2, <1>3, StepRot DEF Environment

LEMMA JumperNext == JumperInv /\ [Next]_vars => JumperInv'
<1> SUFFICES ASSUME JumperInv, [Next]_vars PROVE JumperInv'
  OBVIOUS
<1>1. CASE UNCHANGED vars
  BY <1>1 DEF vars, JumperInv, TypeOK, OpSound, DiskSound
<1> QED
  BY <1>1, StepRequest, StepStream, StepXml, StepManifest, StepUnlink, StepBoot,
     StepEnvironment DEF Next, Perform

LEMMA JumperInit == Init => JumperInv
  BY BoundsAssumption DEF Init, JumperInv, TypeOK, OpSound, DiskSound

LEMMA JumperCorrect == Spec => []JumperInv
  BY JumperInit, JumperNext, PTL DEF Spec

-----------------------------------------------------------------------------
(* What follows. *)

\* Every variable keeps its type.
THEOREM TypeCorrect == Spec => []TypeOK
<1>1. JumperInv => TypeOK
  BY DEF JumperInv
<1> QED
  BY <1>1, JumperCorrect, PTL

\* Whatever stopped where, no jumper.xml, active or in the trash, has a
\* credential whose card is not among that jumper's attachments.
THEOREM CardsAlwaysResolve == Spec => []CardsResolve
<1>1. JumperInv => CardsResolve
  BY DEF JumperInv, DiskSound, Sound, Cards, CardsResolve, OnDisk
<1> QED
  BY <1>1, JumperCorrect, PTL

\* Every attachment that jumper.xml or SHA256SUMS names is in the folder, at
\* every instant and after every crash.
THEOREM NamedFilesStay == Spec => []NamedFilesExist
<1>1. JumperInv => NamedFilesExist
  BY DEF JumperInv, DiskSound, Sound, Named, NamedFilesExist, OnDisk
<1> QED
  BY <1>1, JumperCorrect, PTL

LEMMA KeptNext == JumperInv /\ [Next]_vars => Kept \subseteq Kept'
<1> SUFFICES ASSUME JumperInv, [Next]_vars PROVE Kept \subseteq Kept'
  OBVIOUS
<1>1. TypeOK
  BY DEF JumperInv
<1>2. CASE StillRead /\ legacy' = legacy /\ trash' = trash
  BY <1>2 DEF Kept, StillRead
<1>3. CASE UNCHANGED <<legacy, folder, trash>>
  BY <1>3 DEF Kept, Reads
<1>4. ASSUME NEW j \in Jumpers, CreateJumper(j) PROVE Kept \subseteq Kept'
  <2>1. EmptyDir # None /\ ~Reads(j)
    BY <1>4, EmptyType, NoneAssumption DEF CreateJumper, FreshJumper, Reads
  <2> QED
    BY <1>1, <1>2, <1>4, <2>1, ReplacedReads DEF CreateJumper
<1>5. ASSUME NEW j \in Jumpers, DeleteJumper(j) PROVE Kept \subseteq Kept'
  <2>1. \A k \in Jumpers : folder'[k] = IF k = j THEN None ELSE folder[k]
    BY <1>1, <1>5 DEF DeleteJumper, TypeOK
  <2>2. \A k \in Jumpers : k # j => (Reads(k) => Reads(k)')
    BY <2>1 DEF Reads
  <2>3. legacy' = legacy /\ trash \subseteq trash' /\ <<j, folder[j]>> \in trash'
    BY <1>5 DEF DeleteJumper
  <2>4. Reads(j) => \E t \in trash' : t[1] = j /\ t[2].xml # None
    BY <2>3 DEF Reads
  <2> QED
    BY <2>2, <2>3, <2>4 DEF Kept
<1>6. ASSUME NEW j \in Jumpers, Reads(j), legacy' = [legacy EXCEPT ![j] = None],
             UNCHANGED <<folder, trash>>
      PROVE  Kept \subseteq Kept'
  <2>1. \A k \in Jumpers : legacy'[k] = IF k = j THEN None ELSE legacy[k]
    BY <1>1, <1>6 DEF TypeOK
  <2>2. \A k \in Jumpers : Reads(k) => Reads(k)'
    BY <1>6 DEF Reads
  <2> QED
    BY <1>6, <2>1, <2>2 DEF Kept
<1>7. ASSUME NEW j \in Jumpers, CleanUpLegacy(j) PROVE Kept \subseteq Kept'
  BY <1>6, <1>7 DEF CleanUpLegacy
<1>8. CASE UnlinkLegacy
  <2>1. op # None /\ op.pc = "unlink"
    BY <1>8 DEF UnlinkLegacy, At
  <2>2. op.j \in Jumpers /\ folder[op.j] # None /\ folder[op.j].xml = op.doc /\ op.doc \in Docs
    BY <2>1, AtWork DEF JumperInv, OpSound
  <2>3. Reads(op.j)
    BY <2>2, NoneAssumption DEF Reads
  <2> QED
    BY <1>6, <1>8, <2>2, <2>3 DEF UnlinkLegacy
<1>9. CASE Perform
  <2>1. StillRead
    BY <1>9, StepStream, StepXml, StepManifest, StepUnlink DEF Perform
  <2>2. legacy' = legacy /\ trash' = trash
    BY <1>9
    DEF Perform, StreamAttachment, WriteJumperXml, WriteManifest, UnlinkAttachment
  <2> QED
    BY <1>2, <2>1, <2>2
<1>10. ASSUME NEW j \in Jumpers, Migrate(j) PROVE Kept \subseteq Kept'
  BY <1>2, <1>10, StepMigrate DEF Migrate
<1>11. ASSUME NEW j \in Jumpers, NEW a \in Atts, NEW c \in Contents, Rot(j, a, c)
       PROVE  Kept \subseteq Kept'
  BY <1>2, <1>11, StepRot DEF Rot
<1>12. ASSUME NEW j \in Jumpers,
              \/ UpdateJumper(j)
              \/ \E a \in Atts : DeleteAttachment(j, a)
                                   \/ \E c \in Contents : AddAttachment(j, a, c)
       PROVE  Kept \subseteq Kept'
  BY <1>3, <1>12 DEF UpdateJumper, Write, DeleteAttachment, AddAttachment
<1>13. CASE CredentialRequest
  <2> DEFINE same == UNCHANGED <<legacy, folder, trash>>
  <2>1. \A j, d : Write(j, d) => same
    BY DEF Write
  <2> HIDE DEF same
  <2>2. \A kind, j, c, card :
          AddCredential(kind, j, c, card) \/ UpdateCredential(kind, j, c, card) => same
    BY <2>1 DEF AddCredential, UpdateCredential
  <2>3. \A kind, j, c : DeleteCredential(kind, j, c) => same
    BY <2>1 DEF DeleteCredential
  <2>4. \A j, c : ResetTandemRatingCurrency(j, c) => same
    BY <2>1 DEF ResetTandemRatingCurrency
  <2>5. same
    BY <1>13, <2>2, <2>3, <2>4
    DEF CredentialRequest, AddMembership, UpdateMembership, DeleteMembership,
        AddCop, UpdateCop, DeleteCop, AddRating, UpdateRating, DeleteRating,
        AddTandemRating, UpdateTandemRating, DeleteTandemRating, AddMedical,
        UpdateMedical, DeleteMedical
  <2> QED
    BY <1>3, <2>5 DEF same
<1>14. CASE \/ Boot \/ BootDone \/ HandlerFails \/ Crash \/ Quit
            \/ \E j \in Jumpers : SkipCorrupt(j)
            \/ UNCHANGED vars
  BY <1>3, <1>14 DEF Boot, BootDone, HandlerFails, Crash, Quit, SkipCorrupt, vars
<1> QED
  BY <1>4, <1>5, <1>7, <1>8, <1>9, <1>10, <1>11, <1>12, <1>13, <1>14
  DEF Next, Request, Start, Environment

\* No step of the migration, of a crash in it or of a handler loses a jumper:
\* its document is a flat file, in its folder or in the trash.
THEOREM JumpersStay == Spec => JumpersKept
<1>1. JumperInv /\ [Next]_vars => [Kept \subseteq Kept']_vars
  BY KeptNext
<1> QED
  BY <1>1, JumperCorrect, PTL DEF JumpersKept, Spec

-----------------------------------------------------------------------------
(* SHA256SUMS, while nothing has failed and nothing has rotted.            *)

\* What a finished request leaves: the files are those jumper.xml claims, and
\* SHA256SUMS says so.
Clean(f) ==
    /\ f.xml # None /\ f.files = f.xml.atts
    /\ f.sums = [fresh |-> TRUE, files |-> f.xml.atts]

\* How far the files of the jumper at work are from what the handler carries.
OpClean ==
    op # None =>
        LET f == folder[op.j] IN
        /\ op.pc = "stream"
             => op.doc.atts = [f.files EXCEPT ![op.att] = op.doc.atts[op.att]]
        /\ op.h = "unattach" => op.doc.atts = [f.files EXCEPT ![op.att] = None]
        /\ op.pc # "stream" /\ op.h # "unattach" => op.doc.atts = f.files
        /\ op.pc = "unlink" => f.sums = [fresh |-> TRUE, files |-> op.doc.atts]

AllClean ==
    /\ \A j \in Jumpers : folder[j] # None /\ (op = None \/ j # op.j) => Clean(folder[j])
    /\ OpClean

CleanInv == faults = 0 /\ rot = 0 => AllClean

\* Only the jumper at work, if any, has another folder than before.
LEMMA OthersClean ==
  ASSUME TypeOK, AllClean, NEW j \in Jumpers, NEW g, folder' = [folder EXCEPT ![j] = g],
         op # None => j = op.j,
         op' # None => op'.j = j,
         op' = None => g = None \/ Clean(g)
  PROVE  /\ \A k \in Jumpers : folder'[k] # None /\ (op' = None \/ k # op'.j)
              => Clean(folder'[k])
         /\ folder'[j] = g
<1>1. \A k \in Jumpers : folder'[k] = IF k = j THEN g ELSE folder[k]
  BY DEF TypeOK
<1> QED
  BY <1>1 DEF AllClean

\* A handler that has read its jumper and written nothing yet.
LEMMA BegunClean ==
  ASSUME AllClean, op = None, folder' = folder, NEW h, NEW pc \in {"stream", "xml"},
         NEW j \in Jumpers, Reads(j), NEW d, NEW a, Run(h, pc, j, d, a),
         h = "unattach" => pc = "xml",
         pc = "stream" => d.atts = [Doc(j).atts EXCEPT ![a] = d.atts[a]],
         h = "unattach" => d.atts = [Doc(j).atts EXCEPT ![a] = None],
         pc = "xml" /\ h # "unattach" => d.atts = Doc(j).atts
  PROVE  AllClean'
<1>1. op'.h = h /\ op'.pc = pc /\ op'.j = j /\ op'.doc = d /\ op'.att = a
  BY DEF Run
<1>2. Clean(folder[j])
  BY DEF AllClean, Reads
<1>3. folder'[j].files = Doc(j).atts
  BY <1>2 DEF Clean, Doc
<1>4. OpClean'
  BY <1>1, <1>3 DEF OpClean
<1> QED
  BY <1>4 DEF AllClean

LEMMA CredentialWrites ==
  ASSUME TypeOK, CredentialRequest
  PROVE  \E j \in Jumpers : \E d \in Docs :
            Idle /\ Reads(j) /\ d.atts = Doc(j).atts /\ Write(j, d)
<1>1. PICK j \in Jumpers, c \in Creds :
        \/ \E card \in Atts \cup {None} :
             \/ AddMembership(j, c, card)   \/ UpdateMembership(j, c, card)
             \/ AddCop(j, c, card)          \/ UpdateCop(j, c, card)
             \/ AddRating(j, c, card)       \/ UpdateRating(j, c, card)
             \/ AddTandemRating(j, c, card) \/ UpdateTandemRating(j, c, card)
             \/ AddMedical(j, c, card)      \/ UpdateMedical(j, c, card)
        \/ DeleteMembership(j, c) \/ DeleteCop(j, c) \/ DeleteRating(j, c)
        \/ DeleteTandemRating(j, c) \/ DeleteMedical(j, c)
        \/ ResetTandemRatingCurrency(j, c)
  BY DEF CredentialRequest
<1>2. Reads(j) => Doc(j) \in Docs
  BY FolderType DEF Reads, Doc
<1>3. ASSUME NEW kind \in Kinds, NEW card \in Atts \cup {None},
             AddCredential(kind, j, c, card)
      PROVE  \E d \in Docs : Idle /\ Reads(j) /\ d.atts = Doc(j).atts /\ Write(j, d)
  <2> DEFINE d == [Doc(j) EXCEPT !.creds[c] = [kind |-> kind, card |-> card]]
  <2>1. Idle /\ Reads(j) /\ Write(j, d)
    BY <1>3 DEF AddCredential
  <2>2. d \in Docs /\ d.atts = Doc(j).atts
    BY <1>2, <2>1 DEF Docs, Credentials
  <2> QED
    BY <2>1, <2>2
<1>4. ASSUME NEW kind \in Kinds, NEW card \in Atts \cup {None},
             UpdateCredential(kind, j, c, card)
      PROVE  \E d \in Docs : Idle /\ Reads(j) /\ d.atts = Doc(j).atts /\ Write(j, d)
  <2> DEFINE r == [Doc(j).creds[c] EXCEPT !.card = card]
             d == [Doc(j) EXCEPT !.creds[c] = r]
  <2>1. Idle /\ Reads(j) /\ Doc(j).creds[c] # None /\ Write(j, d)
    BY <1>4 DEF UpdateCredential, Has
  <2>2. r \in Credentials
    BY <1>2, <2>1 DEF Docs, Credentials
  <2>3. d \in Docs /\ d.atts = Doc(j).atts
    BY <1>2, <2>1, <2>2 DEF Docs
  <2> QED
    BY <2>1, <2>3
<1>5. ASSUME NEW kind \in Kinds, DeleteCredential(kind, j, c)
      PROVE  \E d \in Docs : Idle /\ Reads(j) /\ d.atts = Doc(j).atts /\ Write(j, d)
  <2> DEFINE d == [Doc(j) EXCEPT !.creds[c] = None]
  <2>1. Idle /\ Reads(j) /\ Write(j, d)
    BY <1>5 DEF DeleteCredential, Has
  <2>2. d \in Docs /\ d.atts = Doc(j).atts
    BY <1>2, <2>1 DEF Docs
  <2> QED
    BY <2>1, <2>2
<1>6. /\ "memberships" \in Kinds /\ "cops" \in Kinds /\ "ratings" \in Kinds
      /\ "tandem_ratings" \in Kinds /\ "medicals" \in Kinds
  BY DEF Kinds
<1>7. CASE ResetTandemRatingCurrency(j, c)
  BY <1>2, <1>7 DEF ResetTandemRatingCurrency, Has
<1>8. CASE \E card \in Atts \cup {None} :
             \/ AddMembership(j, c, card)   \/ UpdateMembership(j, c, card)
             \/ AddCop(j, c, card)          \/ UpdateCop(j, c, card)
             \/ AddRating(j, c, card)       \/ UpdateRating(j, c, card)
             \/ AddTandemRating(j, c, card) \/ UpdateTandemRating(j, c, card)
             \/ AddMedical(j, c, card)      \/ UpdateMedical(j, c, card)
  BY <1>3, <1>4, <1>6, <1>8
  DEF AddMembership, UpdateMembership, AddCop, UpdateCop, AddRating, UpdateRating,
      AddTandemRating, UpdateTandemRating, AddMedical, UpdateMedical
<1>9. CASE \/ DeleteMembership(j, c) \/ DeleteCop(j, c) \/ DeleteRating(j, c)
           \/ DeleteTandemRating(j, c) \/ DeleteMedical(j, c)
  BY <1>5, <1>6, <1>9
  DEF DeleteMembership, DeleteCop, DeleteRating, DeleteTandemRating, DeleteMedical
<1> QED
  BY <1>1, <1>7, <1>8, <1>9

LEMMA CleanRequest ==
  ASSUME JumperInv, AllClean, Request PROVE AllClean'
<1>t. TypeOK
  BY DEF JumperInv
<1>1. ASSUME NEW j \in Jumpers, Idle, Reads(j), NEW d \in Docs, d.atts = Doc(j).atts,
             Write(j, d)
      PROVE  AllClean'
  BY <1>1, BegunClean DEF Write, Idle
<1>2. CASE CredentialRequest
  BY <1>t, <1>1, <1>2, CredentialWrites
<1>3. ASSUME NEW j \in Jumpers, CreateJumper(j) PROVE AllClean'
  <2>1. op' # None /\ op'.h = "create" /\ op'.pc = "xml" /\ op'.j = j /\ op'.doc = EmptyDoc
    <3>1. op' = [h |-> "create", pc |-> "xml", j |-> j, doc |-> EmptyDoc, att |-> None]
      BY <1>3 DEF CreateJumper, Run
    <3>2. op' \in Ops
      BY <3>1, EmptyType DEF Ops, Handlers, Steps
    <3> QED
      BY <3>1, <3>2, NoneAssumption
  <2>2. op = None /\ folder' = [folder EXCEPT ![j] = EmptyDir]
    BY <1>3 DEF CreateJumper, Idle
  <2>3. /\ \A k \in Jumpers : folder'[k] # None /\ (op' = None \/ k # op'.j)
             => Clean(folder'[k])
        /\ folder'[j] = EmptyDir
    BY <1>t, <2>1, <2>2, OthersClean
  <2>4. EmptyDoc.atts = EmptyDir.files
    BY DEF EmptyDoc, EmptyDir
  <2>5. OpClean'
    BY <2>1, <2>3, <2>4 DEF OpClean
  <2> QED
    BY <2>3, <2>5 DEF AllClean
<1>4. ASSUME NEW j \in Jumpers, UpdateJumper(j) PROVE AllClean'
  BY <1>1, <1>4, DocSound DEF UpdateJumper
<1>5. ASSUME NEW j \in Jumpers, DeleteJumper(j) PROVE AllClean'
  <2>1. op = None /\ op' = None /\ folder' = [folder EXCEPT ![j] = None]
    BY <1>5 DEF DeleteJumper, Idle
  <2>2. \A k \in Jumpers : folder'[k] # None => Clean(folder'[k])
    BY <1>t, <2>1, OthersClean
  <2> QED
    BY <2>1, <2>2 DEF AllClean, OpClean
<1>6. ASSUME NEW j \in Jumpers, NEW a \in Atts, DeleteAttachment(j, a) PROVE AllClean'
  <2> DEFINE d == [Doc(j) EXCEPT !.atts[a] = None]
  <2>1. op = None /\ Reads(j) /\ folder' = folder /\ Run("unattach", "xml", j, d, a)
    BY <1>6 DEF DeleteAttachment, Idle
  <2>2. d.atts = [Doc(j).atts EXCEPT ![a] = None]
    BY <2>1, DocSound DEF Docs
  <2> HIDE DEF d
  <2> QED
    BY <2>1, <2>2, BegunClean
<1>7. ASSUME NEW j \in Jumpers, NEW a \in Atts, NEW c \in Contents, AddAttachment(j, a, c)
      PROVE  AllClean'
  <2> DEFINE d == [Doc(j) EXCEPT !.atts[a] = c]
  <2>1. op = None /\ Reads(j) /\ folder' = folder /\ Run("add", "stream", j, d, a)
    BY <1>7 DEF AddAttachment, Idle
  <2>2. Doc(j) \in Docs
    BY <2>1, DocSound
  <2>3. d.atts = [Doc(j).atts EXCEPT ![a] = c] /\ d.atts[a] = c
    BY <2>2 DEF Docs, Files
  <2> HIDE DEF d
  <2> QED
    BY <2>1, <2>3, BegunClean
<1> QED
  BY <1>2, <1>3, <1>4, <1>5, <1>6, <1>7 DEF Request

LEMMA CleanPerform ==
  ASSUME JumperInv, AllClean, Perform PROVE AllClean'
<1> DEFINE f == folder[op.j]
<1>1. op # None
  BY DEF Perform, StreamAttachment, WriteJumperXml, WriteManifest, UnlinkAttachment, At
<1>2. /\ op \in Ops /\ op.j \in Jumpers /\ op.doc \in Docs /\ f # None /\ f \in Folders /\ TypeOK
      /\ f.files \in Files /\ op.doc.atts \in Files
  BY <1>1, AtWork DEF Folders, Docs
<1>3. /\ op.pc = "stream" => op.h = "add" /\ op.att \in Atts
      /\ op.pc \in {"sums", "unlink"} => f.xml = op.doc
  BY <1>1 DEF JumperInv, OpSound
<1>4. OpClean
  BY DEF AllClean
<1>5. CASE StreamAttachment
  <2> DEFINE g == [f EXCEPT !.files[op.att] = op.doc.atts[op.att]]
  <2>1. op.pc = "stream" /\ folder' = [folder EXCEPT ![op.j] = g]
        /\ op' = [op EXCEPT !.pc = "xml"]
    BY <1>5 DEF StreamAttachment, At
  <2>2. g.files = [f.files EXCEPT ![op.att] = op.doc.atts[op.att]]
    BY <1>2 DEF Folders
  <2>3. /\ op' # None /\ op'.pc = "xml" /\ op'.h = op.h /\ op'.j = op.j /\ op'.doc = op.doc
        /\ op'.att = op.att
    BY <1>2, <2>1, MovedOn DEF Steps
  <2> HIDE DEF g
  <2>4. /\ \A k \in Jumpers : folder'[k] # None /\ (op' = None \/ k # op'.j)
             => Clean(folder'[k])
        /\ folder'[op.j] = g
    BY <1>2, <2>1, <2>3, OthersClean
  <2>5. g.files = op.doc.atts /\ op.h # "unattach"
    BY <1>1, <1>3, <1>4, <2>1, <2>2 DEF OpClean
  <2>6. OpClean'
    BY <2>3, <2>4, <2>5 DEF OpClean
  <2> QED
    BY <2>4, <2>6 DEF AllClean
<1>6. CASE WriteJumperXml
  <2> DEFINE g == [f EXCEPT !.xml = op.doc, !.sums = Stale(@)]
  <2>1. op.pc = "xml" /\ folder' = [folder EXCEPT ![op.j] = g]
        /\ op' = [op EXCEPT !.pc = "sums"]
    BY <1>6 DEF WriteJumperXml, At
  <2>2. g.files = f.files
    BY <1>2 DEF Folders
  <2>3. /\ op' # None /\ op'.pc = "sums" /\ op'.h = op.h /\ op'.j = op.j /\ op'.doc = op.doc
        /\ op'.att = op.att
    BY <1>2, <2>1, MovedOn DEF Steps
  <2> HIDE DEF g
  <2>4. /\ \A k \in Jumpers : folder'[k] # None /\ (op' = None \/ k # op'.j)
             => Clean(folder'[k])
        /\ folder'[op.j] = g
    BY <1>2, <2>1, <2>3, OthersClean
  <2>5. OpClean'
    BY <1>1, <1>4, <2>1, <2>2, <2>3, <2>4 DEF OpClean
  <2> QED
    BY <2>4, <2>5 DEF AllClean
<1>7. CASE WriteManifest
  <2> DEFINE m == Manifest(f, op.h)
             g == [f EXCEPT !.sums = m]
  <2>1. op.pc = "sums" /\ folder' = [folder EXCEPT ![op.j] = g] /\ f.xml = op.doc
        /\ op' = IF op.h \in {"unattach", "migrate"} THEN [op EXCEPT !.pc = "unlink"] ELSE None
    BY <1>3, <1>7 DEF WriteManifest, At
  <2>2. /\ op.h # "unattach" => f.files = op.doc.atts
        /\ op.h = "unattach" => op.doc.atts = [f.files EXCEPT ![op.att] = None]
    BY <1>1, <1>4, <2>1 DEF OpClean
  <2>3. m = [fresh |-> TRUE, files |-> op.doc.atts]
    BY <2>1, <2>2 DEF Manifest
  <2> HIDE DEF m
  <2>4. g.xml = op.doc /\ g.files = f.files /\ g.sums = m
    BY <1>2, <2>1 DEF Folders
  <2> HIDE DEF g
  <2>5. op' # None => /\ op'.pc = "unlink" /\ op'.h = op.h /\ op'.j = op.j /\ op'.doc = op.doc
                      /\ op'.att = op.att
    BY <1>2, <2>1, MovedOn DEF Steps
  <2>6. op.doc # None
    BY <1>2, NoneAssumption
  <2>7. op' = None => Clean(g)
    <3>1. op' = None => op.h # "unattach"
      BY <1>2, <2>1, MovedOn DEF Steps
    <3> QED
      BY <2>2, <2>3, <2>4, <2>6, <3>1 DEF Clean
  <2>8. /\ \A k \in Jumpers : folder'[k] # None /\ (op' = None \/ k # op'.j)
             => Clean(folder'[k])
        /\ folder'[op.j] = g
    BY <1>2, <2>1, <2>5, <2>7, OthersClean
  <2>9. OpClean'
    BY <2>2, <2>3, <2>4, <2>5, <2>8 DEF OpClean
  <2> QED
    BY <2>8, <2>9 DEF AllClean
<1>8. CASE UnlinkAttachment
  <2> DEFINE g == [f EXCEPT !.files[op.att] = None]
  <2>1. /\ op.pc = "unlink" /\ op.h = "unattach" /\ folder' = [folder EXCEPT ![op.j] = g]
        /\ op' = None /\ f.xml = op.doc
    BY <1>3, <1>8 DEF UnlinkAttachment, At
  <2>2. g.files = [f.files EXCEPT ![op.att] = None] /\ g.xml = f.xml /\ g.sums = f.sums
    BY <1>2 DEF Folders
  <2> HIDE DEF g
  <2>3. Clean(g)
    <3>1. op.doc # None
      BY <1>2, NoneAssumption
    <3> QED
      BY <1>1, <1>4, <2>1, <2>2, <3>1 DEF OpClean, Clean
  <2>4. \A k \in Jumpers : folder'[k] # None => Clean(folder'[k])
    BY <1>2, <2>1, <2>3, OthersClean
  <2> QED
    BY <2>1, <2>4 DEF AllClean, OpClean
<1> QED
  BY <1>5, <1>6, <1>7, <1>8 DEF Perform

LEMMA CleanStart ==
  ASSUME JumperInv, AllClean, Start PROVE AllClean'
<1>1. CASE folder' = folder /\ op' = op
  BY <1>1 DEF AllClean, OpClean
<1>2. CASE UnlinkLegacy
  <2>1. op # None /\ op.h = "migrate" /\ op.pc = "unlink" /\ op' = None /\ folder' = folder
    BY <1>2 DEF UnlinkLegacy, At
  <2>2. folder[op.j].xml = op.doc /\ op.doc # None
    BY <2>1, AtWork, NoneAssumption DEF JumperInv, OpSound
  <2>3. Clean(folder[op.j])
    BY <2>1, <2>2 DEF AllClean, OpClean, Clean
  <2> QED
    BY <2>1, <2>3 DEF AllClean, OpClean
<1>3. ASSUME NEW j \in Jumpers, Migrate(j) PROVE AllClean'
  <2>1. op = None /\ ~Reads(j) /\ folder' = [folder EXCEPT ![j] = IF @ = None THEN EmptyDir ELSE @]
    BY <1>3 DEF Migrate
  <2>2. folder[j] = None
    BY <2>1 DEF AllClean, Clean, Reads
  <2>3. folder' = [folder EXCEPT ![j] = EmptyDir] /\ TypeOK
    BY <2>1, <2>2 DEF JumperInv
  <2>4. op' # None /\ op'.h = "migrate" /\ op'.pc = "xml" /\ op'.j = j /\ op'.doc = EmptyDoc
    <3>1. op' = [h |-> "migrate", pc |-> "xml", j |-> j, doc |-> EmptyDoc, att |-> None]
      BY <1>3 DEF Migrate, Run
    <3>2. op' \in Ops
      BY <3>1, EmptyType DEF Ops, Handlers, Steps
    <3> QED
      BY <3>1, <3>2, NoneAssumption
  <2>5. /\ \A k \in Jumpers : folder'[k] # None /\ (op' = None \/ k # op'.j)
             => Clean(folder'[k])
        /\ folder'[j] = EmptyDir
    BY <2>1, <2>3, <2>4, OthersClean
  <2>6. EmptyDoc.atts = EmptyDir.files
    BY DEF EmptyDoc, EmptyDir
  <2>7. OpClean'
    BY <2>4, <2>5, <2>6 DEF OpClean
  <2> QED
    BY <2>5, <2>7 DEF AllClean
<1> QED
  BY <1>1, <1>2, <1>3 DEF Start, Boot, BootDone, CleanUpLegacy, SkipCorrupt

LEMMA CleanNext ==
  ASSUME JumperInv, CleanInv, [Next]_vars PROVE CleanInv'
<1> SUFFICES ASSUME faults' = 0, rot' = 0 PROVE AllClean'
  BY DEF CleanInv
<1>1. faults \in Nat /\ rot \in Nat
  BY DEF JumperInv, TypeOK
<1>2. ~HandlerFails /\ ~Crash
  BY <1>1 DEF HandlerFails, Crash
<1>3. \A j \in Jumpers, a \in Atts, c \in Contents : ~Rot(j, a, c)
  BY <1>1 DEF Rot
<1>4. CASE Request
  <2>1. faults' = faults /\ rot' = rot
    <3>1. CredentialRequest => faults' = faults /\ rot' = rot
      BY CredentialWrites DEF Write, JumperInv
    <3> QED
      BY <1>4, <3>1 DEF Request, CreateJumper, UpdateJumper, DeleteJumper, DeleteAttachment,
                        AddAttachment, Write
  <2> QED
    BY <1>4, <2>1, CleanRequest DEF CleanInv
<1>5. CASE Perform
  <2>1. faults' = faults /\ rot' = rot
    BY <1>5 DEF Perform, StreamAttachment, WriteJumperXml, WriteManifest, UnlinkAttachment
  <2> QED
    BY <1>5, <2>1, CleanPerform DEF CleanInv
<1>6. CASE Start
  <2>1. faults' = faults /\ rot' = rot
    BY <1>6 DEF Start, Boot, UnlinkLegacy, BootDone, CleanUpLegacy, SkipCorrupt, Migrate
  <2> QED
    BY <1>6, <2>1, CleanStart DEF CleanInv
<1>7. CASE Quit \/ UNCHANGED vars
  BY <1>7 DEF Quit, vars, CleanInv, AllClean, OpClean
<1> QED
  BY <1>2, <1>3, <1>4, <1>5, <1>6, <1>7 DEF Next, Environment

\* With nothing stopped so far and nothing rotted, a jumper at rest has a
\* SHA256SUMS that is exactly what its jumper.xml claims.
THEOREM SumsAlwaysMatch == Spec => []SumsMatchXml
<1>1. JumperInv /\ CleanInv => SumsMatchXml
  BY DEF CleanInv, AllClean, Clean, SumsMatchXml, Reads, Doc
<1>2. Init => CleanInv
  BY DEF Init, CleanInv, AllClean, OpClean
<1>3. JumperInv /\ CleanInv /\ [Next]_vars => CleanInv'
  BY CleanNext
<1> QED
  BY <1>1, <1>2, <1>3, JumperCorrect, PTL DEF Spec

=============================================================================
