----------------------------- MODULE FilesProofs -----------------------------
(***************************************************************************)
(* Proofs about the files module, for any uploads, accounts, recoverers,   *)
(* limits, batch size and any number of faults.                            *)
(*                                                                         *)
(* Four arguments.  An upload within its deadline holds the only claim on  *)
(* its row, because the claim runs out after the deadline: no recoverer    *)
(* can have the file in its batch (UploadsOK).  A file that was never      *)
(* claimed while somebody else was at work on it has one worker at a time, *)
(* which knows what the object store holds (WorkOK).  The counters are     *)
(* sums over what they count, which every transaction changes on both      *)
(* sides (CountersOK).  And a stage that was removed never comes back      *)
(* (StagesOK).                                                             *)
(***************************************************************************)
EXTENDS Files, FiniteSetTheorems, TLAPS

\* The parts of the state the first two arguments are about have their types.
TablesOK ==
  /\ now \in Time
  /\ rows \in [File -> Row]
  /\ reserved \in [File -> Nat]
  /\ object \subseteq File
  /\ upload \in [File -> UploadStage]
  /\ deadline \in [File -> Nat]
  /\ deletion \in [File -> DeletionStage]
  /\ contested \subseteq File

\* A pass reads the clock once; the records of its batch are of different files.
PassesOK ==
  /\ at \in [Recoverer -> PassStage]
  /\ since \in [Recoverer -> Time]
  /\ batch \in [Recoverer -> SUBSET Record]
  /\ saw \in [Recoverer -> Seen]
  /\ \A r \in Recoverer :
       /\ since[r] <= now
       /\ at[r] \in {"idle", "stages"} => batch[r] = {}
       /\ at[r] \in {"idle", "stages", "repair"} => saw[r] = NothingSeen
       /\ \A c, d \in batch[r] : c.file = d.file => c = d

\* A reservation was dated by a clock reading.
ReservationsOK == \A f \in File : reserved[f] # 0 => reserved[f] - ReservationTTL \in Time

\* No pass has a record of f.
Quiet(f) == \A r \in Recoverer : f \notin FilesOf(r)

\* Until its deadline an upload has the file for itself.
UploadOK(f) ==
  /\ upload[f] \in {"new", "reserved", "staged"} =>
       rows[f].state = "none" /\ deletion[f] = "none" /\ Quiet(f) /\ f \notin object
  /\ (upload[f] \in {"reserved", "staged"} /\ reserved[f] # 0) =>
       reserved[f] + UploadTimeout = deadline[f] + ReservationTTL
  /\ (PublishingFile(f) /\ InTime(f)) =>
       /\ rows[f].state = "pending"
       /\ rows[f].claimedBy = Uploading
       /\ rows[f].until >= deadline[f]
       /\ deletion[f] = "none"
       /\ Quiet(f)
       /\ upload[f] # "committed" => f \in object
  /\ (upload[f] = "done" /\ deletion[f] = "none") =>
       rows[f].state = "ready" /\ f \in object /\ Quiet(f)

UploadsOK == \A f \in File : UploadOK(f)

\* What a recoverer knows of the object of the pending record it is at.
KnowsPending(r, f) ==
  /\ at[r] \in {"looked", "finish"} => (saw[r].object <=> f \in object)
  /\ at[r] = "publish" => f \notin object /\ ~saw[r].object
  /\ at[r] \in {"unlink", "abort"} => f \in object
  /\ at[r] = "abort" => saw[r].object

\* A file that was not contested has one worker at a time.
WorkOK(f) ==
  /\ rows[f].state = "none" => f \notin object
  /\ rows[f].state = "ready" => f \in object
  /\ deletion[f] = "row" => f \notin object
  /\ PublishingFile(f) =>
       /\ rows[f].state = "pending"
       /\ deletion[f] = "none"
       /\ Quiet(f)
       /\ upload[f] = "committed" => f \notin object
       /\ upload[f] # "committed" => f \in object
  /\ rows[f].state \in {"pending", "ready"} => deletion[f] = "none"
  /\ \A r \in Recoverer : \A c \in batch[r] :
       c.file = f =>
         /\ \A q \in Recoverer : f \in FilesOf(q) => q = r
         /\ c.state = "pending" =>
              rows[f].state = "pending" /\ rows[f].claimedBy = r /\ (First(r, c) => KnowsPending(r, f))
         /\ c.state = "deleting" =>
              /\ rows[f].state \in {"deleting", "none"}
              /\ First(r, c) => at[r] \in {"repair", "finish"} /\ ~saw[r].object
              /\ First(r, c) /\ at[r] = "finish" => f \notin object

WorkersOK == \A f \in File \ contested : WorkOK(f)

FInv == TablesOK /\ PassesOK /\ ReservationsOK /\ UploadsOK /\ WorkersOK

-----------------------------------------------------------------------------
(* Facts about the model's operators.                                         *)

LEMMA TimeIsNat == Time \subseteq Nat
  BY FilesAssumption DEF Time

LEMMA FirstIsUnique ==
  ASSUME NEW r \in Recoverer, batch[r] \subseteq Record,
         \A c, d \in batch[r] : c.file = d.file => c = d,
         NEW c, NEW d, First(r, c), First(r, d)
  PROVE  c = d
PROOF
  <1>1. c \in batch[r] /\ d \in batch[r] /\ c \in Record /\ d \in Record
    BY DEF First
  <1>2. c.updated \in Time /\ d.updated \in Time /\ c.file \in File /\ d.file \in File
    BY <1>1 DEF Record
  <1>3. c.updated \in Nat /\ d.updated \in Nat /\ c.file \in Nat /\ d.file \in Nat
    BY <1>2, TimeIsNat, FilesAssumption
  <1> QED
    BY <1>1, <1>3 DEF First

\* What a pass may claim.
LEMMA ClaimableRowsAre ==
  ASSUME NEW t, NEW f \in ClaimableRows(t)
  PROVE  f \in File /\ rows[f].state \in {"pending", "deleting"} /\ Unclaimed(f, t)
  BY DEF ClaimableRows, Oldest

\* g looks the same after a step as before.
SameFile(g) ==
  /\ rows'[g] = rows[g]
  /\ reserved'[g] = reserved[g]
  /\ upload'[g] = upload[g]
  /\ deadline'[g] = deadline[g]
  /\ deletion'[g] = deletion[g]
  /\ (g \in object') <=> (g \in object)

\* A step of the upload or the deletion of f disturbs nothing but f.
LEMMA FileStep ==
  ASSUME FInv, NEW f \in File, TablesOK', ReservationsOK',
         UNCHANGED <<now, passVars, contested>>,
         \A g \in File \ {f} : SameFile(g),
         UploadOK(f)', f \notin contested => WorkOK(f)'
  PROVE  FInv'
PROOF
  <1>1. PassesOK'
    BY DEF FInv, PassesOK, passVars
  <1>2. ASSUME NEW g \in File \ {f} PROVE UploadOK(g)'
    <2>1. UploadOK(g) /\ SameFile(g)
      BY DEF FInv, UploadsOK
    <2>2. Quiet(g)' <=> Quiet(g)
      BY DEF Quiet, FilesOf, passVars
    <2> QED
      BY <2>1, <2>2 DEF UploadOK, SameFile, PublishingFile, InTime
  <1>3. ASSUME NEW g \in File \ {f}, g \notin contested PROVE WorkOK(g)'
    <2>1. WorkOK(g) /\ SameFile(g)
      BY <1>3 DEF FInv, WorkersOK
    <2>2. Quiet(g)' <=> Quiet(g)
      BY DEF Quiet, FilesOf, passVars
    <2>3. ASSUME NEW r \in Recoverer, NEW c \in batch[r]
          PROVE  /\ First(r, c)' <=> First(r, c)
                 /\ KnowsPending(r, g)' <=> KnowsPending(r, g)
      BY <2>1 DEF First, KnowsPending, passVars, SameFile
    <2> QED
      BY <2>1, <2>2, <2>3 DEF WorkOK, SameFile, PublishingFile, FilesOf, passVars
  <1>4. UploadsOK'
    BY <1>2 DEF UploadsOK
  <1>5. WorkersOK'
    BY <1>3 DEF WorkersOK
  <1> QED
    BY <1>1, <1>4, <1>5 DEF FInv

-----------------------------------------------------------------------------
LEMMA FilesInitInv == FilesInit => FInv
PROOF
  <1> SUFFICES ASSUME FilesInit PROVE FInv
    OBVIOUS
  <1>1. 0 \in Time
    BY FilesAssumption DEF Time
  <1>2. TablesOK
    <2>1. \A f \in File : NoRow(f) \in Row
      BY <1>1, FilesAssumption DEF NoRow, Row
    <2> QED
      BY <1>1, <2>1 DEF FilesInit, TablesOK, UploadStage, DeletionStage
  <1>3. PassesOK
    BY <1>1 DEF FilesInit, PassesOK, PassStage, Seen, NothingSeen, Time
  <1>4. ReservationsOK
    BY DEF FilesInit, ReservationsOK
  <1>5. UploadsOK
    BY DEF FilesInit, UploadsOK, UploadOK, NoRow, Quiet, FilesOf, PublishingFile
  <1>6. WorkersOK
    BY DEF FilesInit, WorkersOK, WorkOK, NoRow, PublishingFile
  <1> QED
    BY <1>2, <1>3, <1>4, <1>5, <1>6 DEF FInv

-----------------------------------------------------------------------------
(* Uploads and deletions.                                                     *)

LEMMA ReserveCapacityKeeps ==
  ASSUME FInv, NEW f \in File, ReserveCapacity(f)
  PROVE  FInv'
PROOF
  <1> USE DEF ReserveCapacity, Goes
  <1>1. now + UploadTimeout \in Nat /\ now + ReservationTTL \in Nat
    BY TimeIsNat, FilesAssumption DEF FInv, TablesOK
  <1>2. TablesOK'
    BY <1>1 DEF FInv, TablesOK, UploadStage, storeVars
  <1>3. ReservationsOK'
    <2>1. ASSUME NEW g \in File, reserved'[g] # 0 PROVE reserved'[g] - ReservationTTL \in Time
      <3>1. CASE g = f
        <4>1. reserved'[g] = now + ReservationTTL
          BY <3>1 DEF FInv, TablesOK
        <4> QED
          BY <4>1, TimeIsNat, FilesAssumption DEF FInv, TablesOK
      <3>2. CASE g # f
        BY <3>2, <2>1 DEF FInv, TablesOK, ReservationsOK
      <3> QED
        BY <3>1, <3>2
    <2> QED
      BY <2>1 DEF ReservationsOK
  <1>4. UNCHANGED <<now, passVars, contested>> /\ \A g \in File \ {f} : SameFile(g)
    BY DEF FInv, TablesOK, SameFile, storeVars
  <1>5. Quiet(f)' <=> Quiet(f)
    BY DEF Quiet, FilesOf, passVars
  <1>6. UploadOK(f)'
    <2>1. UploadOK(f)
      BY DEF FInv, UploadsOK
    <2>2. deadline'[f] = now + UploadTimeout /\ reserved'[f] = now + ReservationTTL
      BY DEF FInv, TablesOK
    <2>3. reserved'[f] + UploadTimeout = deadline'[f] + ReservationTTL
      BY <2>2, TimeIsNat, FilesAssumption DEF FInv, TablesOK
    <2>4. upload'[f] = "reserved" /\ upload[f] = "new" /\ rows' = rows /\ deletion' = deletion /\ object' = object
      BY DEF FInv, TablesOK, storeVars
    <2> QED
      BY <1>5, <2>1, <2>3, <2>4 DEF UploadOK, PublishingFile
  <1>7. ASSUME f \notin contested PROVE WorkOK(f)'
    <2>1. WorkOK(f)
      BY <1>7 DEF FInv, WorkersOK
    <2> QED
      BY <2>1 DEF FInv, TablesOK, WorkOK, PublishingFile, storeVars, passVars, FilesOf, First, KnowsPending
  <1> QED
    BY <1>2, <1>3, <1>4, <1>6, <1>7, FileStep

\* An upload that goes on without touching its row or its object.
LEMMA UploadMoves ==
  ASSUME FInv, NEW f \in File,
         NEW s \in {"staged", "published", "aborting", "releasing", "yielding", "failed"},
         s = "staged" => upload[f] = "reserved",
         s = "published" => upload[f] = "linked",
         Goes(f, s),
         reserved' = reserved \/ reserved' = [reserved EXCEPT ![f] = 0],
         UNCHANGED <<now, rows, object, deadline, deletion, passVars, contested>>
  PROVE  FInv'
PROOF
  <1>1. upload' = [upload EXCEPT ![f] = s]
    BY DEF Goes
  <1>2. TablesOK'
    BY <1>1 DEF FInv, TablesOK, UploadStage
  <1>3. reserved'[f] = reserved[f] \/ reserved'[f] = 0
    BY DEF FInv, TablesOK
  <1>4. ReservationsOK'
    BY DEF FInv, TablesOK, ReservationsOK
  <1>5. \A g \in File \ {f} : SameFile(g)
    BY <1>1 DEF FInv, TablesOK, SameFile
  <1>6. Quiet(f)' <=> Quiet(f)
    BY DEF Quiet, FilesOf, passVars
  <1>7. upload'[f] = s
    BY <1>1 DEF FInv, TablesOK
  <1>8. UploadOK(f)'
    <2>1. UploadOK(f)
      BY DEF FInv, UploadsOK
    <2> QED
      BY <1>3, <1>6, <1>7, <2>1 DEF UploadOK, PublishingFile, InTime
  <1>9. ASSUME f \notin contested PROVE WorkOK(f)'
    <2>1. WorkOK(f)
      BY <1>9 DEF FInv, WorkersOK
    <2>2. PublishingFile(f)' => PublishingFile(f) /\ upload[f] # "committed" /\ upload'[f] # "committed"
      BY <1>7 DEF PublishingFile
    <2> QED
      BY <1>6, <2>1, <2>2 DEF WorkOK, passVars, FilesOf, First, KnowsPending
  <1> QED
    BY <1>2, <1>4, <1>5, <1>8, <1>9, FileStep

LEMMA UploadOnlyMoves ==
  ASSUME FInv, NEW f \in File,
         \/ StageContent(f)
         \/ UnlinkStage(f)
         \/ UploadFails(f)
         \/ AbortUpload(f)
         \/ ReleaseReservation(f)
         \/ UploadDies(f)
  PROVE  FInv'
PROOF
  <1>1. CASE StageContent(f)
    BY <1>1, UploadMoves DEF StageContent, tableVars
  <1>2. CASE UnlinkStage(f)
    BY <1>2, UploadMoves DEF UnlinkStage, tableVars
  <1>3. CASE UploadFails(f)
    <2>1. Goes(f, "releasing") \/ Goes(f, "aborting") \/ Goes(f, "yielding") \/ Goes(f, "failed")
      BY <1>3 DEF UploadFails
    <2>2. UNCHANGED <<now, rows, reserved, object, deadline, deletion, passVars, contested>>
      BY <1>3 DEF UploadFails, tableVars, storeVars
    <2> QED
      BY <2>1, <2>2, UploadMoves
  <1>4. CASE AbortUpload(f)
    BY <1>4, UploadMoves DEF AbortUpload, tableVars
  <1>5. CASE ReleaseReservation(f)
    BY <1>5, UploadMoves DEF ReleaseReservation, storeVars
  <1>6. CASE UploadDies(f)
    BY <1>6, UploadMoves DEF UploadDies, tableVars, storeVars
  <1> QED
    BY <1>1, <1>2, <1>3, <1>4, <1>5, <1>6

LEMMA CommitUploadKeeps ==
  ASSUME FInv, NEW f \in File, CommitUpload(f)
  PROVE  FInv'
PROOF
  <1> DEFINE row == [state |-> "pending", owner |-> Uploader[f], claimedBy |-> Uploading,
                     until |-> reserved[f], updated |-> reserved[f] - ReservationTTL]
  <1>1. /\ rows' = [rows EXCEPT ![f] = row]
        /\ reserved' = [reserved EXCEPT ![f] = 0]
        /\ upload' = [upload EXCEPT ![f] = "committed"]
        /\ UNCHANGED <<now, object, deadline, deletion, passVars, contested>>
        /\ upload[f] = "staged" /\ reserved[f] # 0
    BY DEF CommitUpload, Goes, storeVars
  <1>2. UploadOK(f) /\ Quiet(f) /\ deletion[f] = "none" /\ f \notin object
    BY <1>1 DEF FInv, UploadsOK, UploadOK
  <1>3. row \in Row
    <2>1. reserved[f] - ReservationTTL \in Time
      BY <1>1 DEF FInv, ReservationsOK
    <2> QED
      BY <2>1, FilesAssumption DEF Row, FInv, TablesOK
  <1>4. rows'[f] = row /\ upload'[f] = "committed" /\ reserved'[f] = 0
    BY <1>1 DEF FInv, TablesOK
  <1>5. TablesOK'
    <2>1. rows' \in [File -> Row]
      BY <1>1, <1>3 DEF FInv, TablesOK
    <2> QED
      BY <1>1, <2>1 DEF FInv, TablesOK, UploadStage
  <1>6. ReservationsOK'
    BY <1>1 DEF FInv, TablesOK, ReservationsOK
  <1>7. \A g \in File \ {f} : SameFile(g)
    BY <1>1 DEF FInv, TablesOK, SameFile
  <1>8. Quiet(f)'
    BY <1>1, <1>2 DEF Quiet, FilesOf, passVars
  <1>9. UploadOK(f)'
    <2>1. reserved[f] + UploadTimeout = deadline[f] + ReservationTTL
      BY <1>1, <1>2 DEF UploadOK
    <2>2. reserved[f] >= deadline[f]
      BY <2>1, FilesAssumption DEF FInv, TablesOK
    <2>3. deletion'[f] = "none" /\ deadline'[f] = deadline[f]
      BY <1>1, <1>2
    <2> QED
      BY <1>4, <1>8, <2>2, <2>3 DEF UploadOK
  <1>10. WorkOK(f)'
    <2>1. \A r \in Recoverer : \A c \in batch'[r] : c.file # f
      BY <1>8 DEF Quiet, FilesOf
    <2> QED
      BY <1>1, <1>2, <1>4, <1>8, <2>1 DEF WorkOK
  <1> QED
    BY <1>1, <1>5, <1>6, <1>7, <1>9, <1>10, FileStep

LEMMA LinkObjectKeeps ==
  ASSUME FInv, NEW f \in File, LinkObject(f)
  PROVE  FInv'
PROOF
  <1>1. /\ object' = object \cup {f}
        /\ upload' = [upload EXCEPT ![f] = "linked"]
        /\ UNCHANGED <<now, rows, reserved, deadline, deletion, passVars, contested>>
        /\ upload[f] = "committed"
    BY DEF LinkObject, Goes, tableVars
  <1>2. upload'[f] = "linked" /\ f \in object'
    BY <1>1 DEF FInv, TablesOK
  <1>3. TablesOK' /\ ReservationsOK'
    BY <1>1 DEF FInv, TablesOK, ReservationsOK, UploadStage
  <1>4. \A g \in File \ {f} : SameFile(g)
    BY <1>1 DEF FInv, TablesOK, SameFile
  <1>5. Quiet(f)' <=> Quiet(f)
    BY <1>1 DEF Quiet, FilesOf, passVars
  <1>6. UploadOK(f)'
    <2>1. UploadOK(f)
      BY DEF FInv, UploadsOK
    <2> QED
      BY <1>1, <1>2, <1>5, <2>1 DEF UploadOK, PublishingFile, InTime
  <1>7. ASSUME f \notin contested PROVE WorkOK(f)'
    <2>1. WorkOK(f)
      BY <1>7 DEF FInv, WorkersOK
    <2>2. rows[f].state = "pending" /\ deletion[f] = "none" /\ Quiet(f)
      BY <1>1, <2>1 DEF WorkOK, PublishingFile
    <2>3. \A r \in Recoverer : \A c \in batch'[r] : c.file # f
      BY <1>5, <2>2 DEF Quiet, FilesOf
    <2> QED
      BY <1>1, <1>2, <1>5, <2>2, <2>3 DEF WorkOK
  <1> QED
    BY <1>1, <1>3, <1>4, <1>6, <1>7, FileStep

LEMMA SyncFailsKeeps ==
  ASSUME FInv, NEW f \in File, SyncFails(f)
  PROVE  FInv'
PROOF
  <1>1. /\ object' = object \ {f}
        /\ upload' = [upload EXCEPT ![f] = "yielding"]
        /\ UNCHANGED <<now, rows, reserved, deadline, deletion, passVars, contested>>
        /\ upload[f] = "linked"
    BY DEF SyncFails, Goes, tableVars
  <1>2. upload'[f] = "yielding" /\ f \notin object'
    BY <1>1 DEF FInv, TablesOK
  <1>3. TablesOK' /\ ReservationsOK'
    BY <1>1 DEF FInv, TablesOK, ReservationsOK, UploadStage
  <1>4. \A g \in File \ {f} : SameFile(g)
    BY <1>1 DEF FInv, TablesOK, SameFile
  <1>5. UploadOK(f)'
    BY <1>2 DEF UploadOK, PublishingFile
  <1>6. ASSUME f \notin contested PROVE WorkOK(f)'
    <2>1. WorkOK(f)
      BY <1>6 DEF FInv, WorkersOK
    <2>2. rows[f].state = "pending" /\ deletion[f] = "none" /\ Quiet(f)
      BY <1>1, <2>1 DEF WorkOK, PublishingFile
    <2>3. \A r \in Recoverer : \A c \in batch'[r] : c.file # f
      BY <1>1, <2>2 DEF Quiet, FilesOf, passVars
    <2> QED
      BY <1>1, <1>2, <2>2, <2>3 DEF WorkOK, PublishingFile
  <1> QED
    BY <1>1, <1>3, <1>4, <1>5, <1>6, FileStep

LEMMA MarkReadyKeeps ==
  ASSUME FInv, NEW f \in File, MarkReady(f)
  PROVE  FInv'
PROOF
  <1> DEFINE row == [rows[f] EXCEPT !.state = "ready", !.claimedBy = Nobody, !.until = 0, !.updated = now]
  <1>1. /\ rows' = [rows EXCEPT ![f] = row]
        /\ upload' = [upload EXCEPT ![f] = "done"]
        /\ UNCHANGED <<now, reserved, object, deadline, deletion, passVars, contested>>
        /\ upload[f] = "published" /\ InTime(f)
    BY DEF MarkReady, Goes, storeVars
  <1>2. f \in object /\ deletion[f] = "none" /\ Quiet(f)
    BY <1>1 DEF FInv, UploadsOK, UploadOK, PublishingFile
  <1>3. row \in Row /\ row.state = "ready"
    BY FilesAssumption, ZenonT(60) DEF FInv, TablesOK, Row
  <1>4. rows'[f] = row /\ upload'[f] = "done"
    BY <1>1 DEF FInv, TablesOK
  <1>5. TablesOK' /\ ReservationsOK'
    BY <1>1, <1>3 DEF FInv, TablesOK, ReservationsOK, UploadStage
  <1>6. \A g \in File \ {f} : SameFile(g)
    BY <1>1 DEF FInv, TablesOK, SameFile
  <1>7. Quiet(f)'
    BY <1>1, <1>2 DEF Quiet, FilesOf, passVars
  <1>8. UploadOK(f)'
    BY <1>1, <1>2, <1>3, <1>4, <1>7 DEF UploadOK, PublishingFile
  <1>9. WorkOK(f)'
    <2>1. \A r \in Recoverer : \A c \in batch'[r] : c.file # f
      BY <1>7 DEF Quiet, FilesOf
    <2> QED
      BY <1>1, <1>2, <1>3, <1>4, <2>1 DEF WorkOK, PublishingFile
  <1> QED
    BY <1>1, <1>5, <1>6, <1>8, <1>9, FileStep

LEMMA YieldClaimKeeps ==
  ASSUME FInv, NEW f \in File, YieldClaim(f)
  PROVE  FInv'
PROOF
  <1>1. /\ upload' = [upload EXCEPT ![f] = "failed"]
        /\ UNCHANGED <<now, reserved, object, deadline, deletion, passVars, contested>>
        /\ upload[f] = "yielding"
    BY DEF YieldClaim, Goes, storeVars
  <1>2. CASE rows' = rows
    BY <1>1, <1>2, UploadMoves DEF YieldClaim
  <1>3. CASE rows' # rows
    <2> DEFINE row == [rows[f] EXCEPT !.claimedBy = Nobody, !.until = 0]
    <2>1. rows' = [rows EXCEPT ![f] = row] /\ rows[f].state = "pending" /\ rows[f].claimedBy = Uploading
      BY <1>3 DEF YieldClaim
    <2>2. row \in Row /\ row.state = "pending"
      BY <2>1, FilesAssumption, ZenonT(60) DEF FInv, TablesOK, Row
    <2>3. rows'[f] = row /\ upload'[f] = "failed"
      BY <1>1, <2>1 DEF FInv, TablesOK
    <2>4. TablesOK' /\ ReservationsOK'
      BY <1>1, <2>1, <2>2 DEF FInv, TablesOK, ReservationsOK, UploadStage
    <2>5. \A g \in File \ {f} : SameFile(g)
      BY <1>1, <2>1 DEF FInv, TablesOK, SameFile
    <2>6. UploadOK(f)'
      BY <2>3 DEF UploadOK, PublishingFile
    <2>7. ASSUME f \notin contested PROVE WorkOK(f)'
      <3>1. WorkOK(f)
        BY <2>7 DEF FInv, WorkersOK
      <3>2. \A r \in Recoverer : \A c \in batch[r] : c.file # f
        <4>1. ASSUME NEW r \in Recoverer, NEW c \in batch[r], c.file = f PROVE FALSE
          <5>1. c.state \in {"pending", "deleting"}
            BY DEF FInv, PassesOK, Record
          <5> QED
            BY <2>1, <3>1, <4>1, <5>1, FilesAssumption DEF WorkOK
        <4> QED
          BY <4>1
      <3> QED
        BY <1>1, <2>1, <2>2, <2>3, <3>1, <3>2 DEF WorkOK, PublishingFile, passVars
    <2> QED
      BY <1>1, <2>4, <2>5, <2>6, <2>7, FileStep
  <1> QED
    BY <1>2, <1>3

LEMMA MarkDeletingKeeps ==
  ASSUME FInv, NEW f \in File, MarkDeleting(f)
  PROVE  FInv'
PROOF
  <1> DEFINE row == [rows[f] EXCEPT !.state = "deleting", !.updated = now]
  <1>1. /\ rows' = [rows EXCEPT ![f] = row]
        /\ deletion' = [deletion EXCEPT ![f] = "object"]
        /\ UNCHANGED <<now, reserved, object, upload, deadline, passVars, contested>>
        /\ rows[f].state = "ready"
    BY DEF MarkDeleting, storeVars, uploadVars
  <1>2. row \in Row /\ row.state = "deleting"
    BY DEF FInv, TablesOK, Row
  <1>3. rows'[f] = row /\ deletion'[f] = "object"
    BY <1>1 DEF FInv, TablesOK
  <1>4. TablesOK' /\ ReservationsOK'
    BY <1>1, <1>2 DEF FInv, TablesOK, ReservationsOK, DeletionStage
  <1>5. \A g \in File \ {f} : SameFile(g)
    BY <1>1 DEF FInv, TablesOK, SameFile
  <1>6. UploadOK(f)'
    <2>1. UploadOK(f)
      BY DEF FInv, UploadsOK
    <2> QED
      BY <1>1, <1>3, <2>1 DEF UploadOK, PublishingFile, InTime
  <1>7. ASSUME f \notin contested PROVE WorkOK(f)'
    <2>1. WorkOK(f)
      BY <1>7 DEF FInv, WorkersOK
    <2>2. \A r \in Recoverer : \A c \in batch[r] : c.file # f
      <3>1. ASSUME NEW r \in Recoverer, NEW c \in batch[r], c.file = f PROVE FALSE
        <4>1. c.state \in {"pending", "deleting"}
          BY DEF FInv, PassesOK, Record
        <4> QED
          BY <1>1, <2>1, <3>1, <4>1 DEF WorkOK
      <3> QED
        BY <3>1
    <2> QED
      BY <1>1, <1>2, <1>3, <2>1, <2>2 DEF WorkOK, PublishingFile, passVars
  <1> QED
    BY <1>1, <1>4, <1>5, <1>6, <1>7, FileStep

\* An upload whose file is being deleted is over, or has lost its row.
LEMMA DeletionOK ==
  ASSUME FInv, NEW f \in File, deletion[f] # "none"
  PROVE  /\ upload[f] \notin {"new", "reserved", "staged"}
         /\ ~(PublishingFile(f) /\ InTime(f))
         /\ f \notin contested => rows[f].state \in {"deleting", "none"} /\ ~PublishingFile(f)
PROOF
  <1>1. UploadOK(f) /\ rows[f].state \in {"none", "pending", "ready", "deleting"}
    BY DEF FInv, UploadsOK, TablesOK, Row
  <1>2. f \notin contested => WorkOK(f)
    BY DEF FInv, WorkersOK
  <1> QED
    BY <1>1, <1>2 DEF UploadOK, WorkOK

LEMMA DeleteObjectKeeps ==
  ASSUME FInv, NEW f \in File, DeleteObject(f) \/ DeletionEnds(f)
  PROVE  FInv'
PROOF
  <1>1. PICK stage \in {"row", "over"} :
          /\ deletion' = [deletion EXCEPT ![f] = stage]
          /\ object' \in {object, object \ {f}}
          /\ stage = "row" => object' = object \ {f}
    BY DEF DeleteObject, DeletionEnds, storeVars
  <1>2. deletion[f] \in {"object", "row"} /\ UNCHANGED <<now, rows, reserved, upload, deadline, passVars, contested>>
    BY DEF DeleteObject, DeletionEnds, tableVars, uploadVars
  <1>3. deletion'[f] = stage
    BY <1>1 DEF FInv, TablesOK
  <1>4. TablesOK' /\ ReservationsOK'
    BY <1>1, <1>2 DEF FInv, TablesOK, ReservationsOK, DeletionStage
  <1>5. \A g \in File \ {f} : SameFile(g)
    BY <1>1, <1>2 DEF FInv, TablesOK, SameFile
  <1>6. UploadOK(f)'
    BY <1>2, <1>3, DeletionOK DEF UploadOK, PublishingFile, InTime
  <1>7. ASSUME f \notin contested PROVE WorkOK(f)'
    <2>1. WorkOK(f) /\ rows[f].state \in {"deleting", "none"} /\ ~PublishingFile(f)
      BY <1>2, <1>7, DeletionOK DEF FInv, WorkersOK
    <2>2. /\ rows' = rows /\ ~PublishingFile(f)'
          /\ f \in object' => f \in object
          /\ deletion'[f] = "row" => f \notin object'
      BY <1>1, <1>2, <1>3, <2>1 DEF PublishingFile
    <2>3. ASSUME NEW r \in Recoverer, NEW c \in batch'[r], c.file = f
          PROVE  /\ \A q \in Recoverer : f \in FilesOf(q)' => q = r
                 /\ c.state # "pending"
                 /\ First(r, c)' => at'[r] \in {"repair", "finish"} /\ ~saw'[r].object
                 /\ First(r, c)' /\ at'[r] = "finish" => f \notin object'
                 /\ c.state = "deleting"
      <3>1. c \in batch[r] /\ c.state \in {"pending", "deleting"} /\ (First(r, c)' <=> First(r, c))
        BY <1>2, <2>3 DEF FInv, PassesOK, Record, passVars, First
      <3> QED
        BY <1>2, <2>1, <2>2, <2>3, <3>1 DEF WorkOK, passVars, FilesOf
    <2> QED
      BY <2>1, <2>2, <2>3 DEF WorkOK
  <1> QED
    BY <1>2, <1>4, <1>5, <1>6, <1>7, FileStep

LEMMA NoRowIsRow == \A f \in File : NoRow(f) \in Row /\ NoRow(f).state = "none"
PROOF
  <1>1. 0 \in Time
    BY FilesAssumption DEF Time
  <1> QED
    BY <1>1, FilesAssumption DEF NoRow, Row

LEMMA RemoveDeletingKeeps ==
  ASSUME FInv, NEW f \in File, RemoveDeleting(f)
  PROVE  FInv'
PROOF
  <1>1. /\ rows' = [rows EXCEPT ![f] = NoRow(f)]
        /\ deletion' = [deletion EXCEPT ![f] = "over"]
        /\ UNCHANGED <<now, reserved, object, upload, deadline, passVars, contested>>
        /\ deletion[f] = "row" /\ rows[f].state = "deleting"
    BY DEF RemoveDeleting, RemoveRow, storeVars, uploadVars
  <1>2. rows'[f] = NoRow(f) /\ deletion'[f] = "over" /\ NoRow(f).state = "none"
    BY <1>1, NoRowIsRow DEF FInv, TablesOK
  <1>3. TablesOK' /\ ReservationsOK'
    BY <1>1, NoRowIsRow DEF FInv, TablesOK, ReservationsOK, DeletionStage
  <1>4. \A g \in File \ {f} : SameFile(g)
    BY <1>1 DEF FInv, TablesOK, SameFile
  <1>5. UploadOK(f)'
    BY <1>1, <1>2, DeletionOK DEF UploadOK, PublishingFile, InTime
  <1>6. ASSUME f \notin contested PROVE WorkOK(f)'
    <2>1. WorkOK(f) /\ ~PublishingFile(f)
      BY <1>1, <1>6, DeletionOK DEF FInv, WorkersOK
    <2>2. f \notin object' /\ ~PublishingFile(f)'
      BY <1>1, <2>1 DEF WorkOK, PublishingFile
    <2>3. ASSUME NEW r \in Recoverer, NEW c \in batch'[r], c.file = f
          PROVE  /\ \A q \in Recoverer : f \in FilesOf(q)' => q = r
                 /\ c.state = "deleting"
                 /\ First(r, c)' => at'[r] \in {"repair", "finish"} /\ ~saw'[r].object
      <3>1. c \in batch[r] /\ c.state \in {"pending", "deleting"} /\ (First(r, c)' <=> First(r, c))
        BY <1>1, <2>3 DEF FInv, PassesOK, Record, passVars, First
      <3> QED
        BY <1>1, <2>1, <2>3, <3>1 DEF WorkOK, passVars, FilesOf
    <2> QED
      BY <1>2, <2>2, <2>3 DEF WorkOK
  <1> QED
    BY <1>1, <1>3, <1>4, <1>5, <1>6, FileStep

-----------------------------------------------------------------------------
(* Recovery passes.                                                           *)

\* A step of a recoverer disturbs nothing but the files of its batch.
LEMMA PassStepKeeps ==
  ASSUME FInv, NEW r \in Recoverer, TablesOK', ReservationsOK', PassesOK',
         UNCHANGED <<now, upload, deadline, deletion>>, contested \subseteq contested',
         \A q \in Recoverer \ {r} : batch'[q] = batch[q] /\ at'[q] = at[q] /\ saw'[q] = saw[q],
         \A f \in File : reserved'[f] \in {reserved[f], 0},
         \A f \in File \ FilesOf(r) : rows'[f] = rows[f] \/ f \in FilesOf(r)',
         \A f \in File \ FilesOf(r) : f \in object' <=> f \in object,
         \A f \in FilesOf(r)' \ FilesOf(r) : UploadOK(f)',
         \A f \in FilesOf(r) \cup FilesOf(r)' : f \in contested' \/ WorkOK(f)'
  PROVE  FInv'
PROOF
  <1>1. ASSUME NEW f \in File PROVE UploadOK(f)'
    <2>1. UploadOK(f)
      BY DEF FInv, UploadsOK
    <2>2. CASE f \in FilesOf(r)
      <3>1. ~Quiet(f)
        BY <2>2 DEF Quiet
      <3> QED
        BY <2>1, <3>1 DEF UploadOK, PublishingFile, InTime
    <2>3. CASE f \notin FilesOf(r) /\ f \notin FilesOf(r)'
      <3>1. Quiet(f)' <=> Quiet(f)
        BY <2>3 DEF Quiet, FilesOf
      <3> QED
        BY <2>1, <2>3, <3>1 DEF UploadOK, PublishingFile, InTime
    <2> QED
      BY <2>2, <2>3
  <1>2. ASSUME NEW f \in File, f \notin contested' PROVE WorkOK(f)'
    <2>1. WorkOK(f)
      BY <1>2 DEF FInv, WorkersOK
    <2>2. CASE f \notin FilesOf(r) /\ f \notin FilesOf(r)'
      <3>1. Quiet(f)' <=> Quiet(f)
        BY <2>2 DEF Quiet, FilesOf
      <3>2. /\ rows'[f] = rows[f] /\ deletion'[f] = deletion[f] /\ upload'[f] = upload[f]
            /\ f \in object' <=> f \in object
        BY <2>2
      <3>3. ASSUME NEW q \in Recoverer, NEW c \in batch'[q], c.file = f
            PROVE  /\ q # r /\ c \in batch[q]
                   /\ First(q, c)' <=> First(q, c)
                   /\ KnowsPending(q, f)' <=> KnowsPending(q, f)
                   /\ \A p \in Recoverer : f \in FilesOf(p)' => f \in FilesOf(p)
        BY <2>2, <3>3 DEF First, KnowsPending, FilesOf
      <3> QED
        BY <2>1, <3>1, <3>2, <3>3 DEF WorkOK, PublishingFile
    <2> QED
      BY <1>2, <2>2
  <1>3. UploadsOK' /\ WorkersOK'
    BY <1>1, <1>2 DEF UploadsOK, WorkersOK
  <1> QED
    BY <1>3 DEF FInv

LEMMA FilesOfBatch == ASSUME FInv PROVE \A r \in Recoverer : FilesOf(r) \subseteq File
  BY DEF FInv, PassesOK, FilesOf, Record

\* A file that one recoverer holds alone is nobody's once that one has let it go.
LEMMA LetGo ==
  ASSUME FInv, NEW r \in Recoverer, NEW f \in FilesOf(r), f \notin contested,
         \A q \in Recoverer \ {r} : batch'[q] = batch[q], f \notin FilesOf(r)'
  PROVE  \A q \in Recoverer : \A c \in batch'[q] : c.file # f
PROOF
  <1>1. f \in File
    BY FilesOfBatch
  <1>2. PICK c \in batch[r] : c.file = f
    BY DEF FilesOf
  <1>3. \A q \in Recoverer : f \in FilesOf(q) => q = r
    BY <1>1, <1>2 DEF FInv, WorkersOK, WorkOK
  <1> QED
    BY <1>3 DEF FilesOf

\* What a recoverer's record says of an uncontested file.
LEMMA HeldFile ==
  ASSUME FInv, NEW r \in Recoverer, NEW c \in batch[r], c.file \notin contested
  PROVE  /\ c.file \in File /\ WorkOK(c.file)
         /\ ~PublishingFile(c.file)
         /\ c.state \in {"pending", "deleting"}
         /\ rows[c.file].state # "ready"
         /\ c.state = "pending" => rows[c.file].state = "pending" /\ deletion[c.file] = "none"
PROOF
  <1>1. c.file \in File /\ c.state \in {"pending", "deleting"}
    BY DEF FInv, PassesOK, Record
  <1>2. WorkOK(c.file) /\ ~Quiet(c.file)
    BY <1>1 DEF FInv, WorkersOK, Quiet, FilesOf
  <1> QED
    BY <1>1, <1>2 DEF WorkOK

LEMMA EndPassKeeps ==
  ASSUME FInv, NEW r \in Recoverer, EndPass(r),
         UNCHANGED <<now, rows, reserved, upload, deadline, deletion, contested>>,
         object' \subseteq object,
         \A f \in object : f \in object' \/ f \in FilesOf(r)
  PROVE  FInv'
PROOF
  <1>1. /\ at' = [at EXCEPT ![r] = "idle"] /\ since' = [since EXCEPT ![r] = 0]
        /\ batch' = [batch EXCEPT ![r] = {}] /\ saw' = [saw EXCEPT ![r] = NothingSeen]
    BY DEF EndPass
  <1>2. TablesOK' /\ ReservationsOK'
    BY DEF FInv, TablesOK, ReservationsOK
  <1>3. 0 \in Time /\ 0 <= now
    BY FilesAssumption, TimeIsNat DEF Time, FInv, TablesOK
  <1>4. PassesOK'
    BY <1>1, <1>3 DEF FInv, PassesOK, PassStage, Seen, NothingSeen
  <1>5. /\ batch'[r] = {}
        /\ \A q \in Recoverer \ {r} : batch'[q] = batch[q] /\ at'[q] = at[q] /\ saw'[q] = saw[q]
    BY <1>1 DEF FInv, PassesOK
  <1>6. FilesOf(r)' = {}
    BY <1>5 DEF FilesOf
  <1>7. ASSUME NEW f \in FilesOf(r), f \notin contested PROVE WorkOK(f)'
    <2>1. PICK c \in batch[r] : c.file = f
      BY DEF FilesOf
    <2>2. WorkOK(f) /\ ~PublishingFile(f) /\ rows[f].state # "ready"
      BY <1>7, <2>1, HeldFile
    <2>3. \A q \in Recoverer : \A d \in batch'[q] : d.file # f
      BY <1>5, <1>6, <1>7, LetGo
    <2> QED
      BY <2>2, <2>3 DEF WorkOK, PublishingFile
  <1> QED
    BY <1>2, <1>4, <1>5, <1>6, <1>7, PassStepKeeps

\* The recoverer has finished its record c and goes to the next one.
LEMMA NextRecordKeeps ==
  ASSUME FInv, NEW r \in Recoverer, NEW c \in batch[r], NextRecord(r, c), NEW row \in Row,
         rows' = [rows EXCEPT ![c.file] = row],
         UNCHANGED <<now, reserved, object, upload, deadline, deletion, contested>>,
         c.file \notin contested =>
           \/ row.state = "ready" /\ c.file \in object /\ deletion[c.file] = "none"
           \/ row.state = "none" /\ c.file \notin object
  PROVE  FInv'
PROOF
  <1>1. c.file \in File
    BY DEF FInv, PassesOK, Record
  <1>2. /\ \A q \in Recoverer \ {r} : batch'[q] = batch[q] /\ at'[q] = at[q] /\ saw'[q] = saw[q]
        /\ batch'[r] = batch[r] \ {c} /\ at'[r] \in {"idle", "repair"} /\ saw'[r] = NothingSeen
        /\ at'[r] = "idle" => batch'[r] = {}
    BY DEF FInv, PassesOK, NextRecord, EndPass
  <1>3. /\ at' \in [Recoverer -> PassStage] /\ saw' \in [Recoverer -> Seen]
        /\ batch' \in [Recoverer -> SUBSET Record]
    <2>1. NothingSeen \in Seen
      BY DEF NothingSeen, Seen
    <2>2. CASE batch[r] = {c}
      BY <2>1, <2>2 DEF FInv, PassesOK, NextRecord, EndPass, PassStage
    <2>3. CASE batch[r] # {c}
      BY <2>1, <2>3 DEF FInv, PassesOK, NextRecord, PassStage
    <2> QED
      BY <2>2, <2>3
  <1>4. since' \in [Recoverer -> Time] /\ \A q \in Recoverer : since'[q] <= now
    <2>1. 0 \in Time /\ 0 <= now
      BY FilesAssumption, TimeIsNat DEF Time, FInv, TablesOK
    <2> QED
      BY <2>1 DEF FInv, PassesOK, NextRecord, EndPass
  <1>5. PassesOK'
    BY <1>2, <1>3, <1>4 DEF FInv, PassesOK
  <1>6. TablesOK' /\ ReservationsOK'
    BY <1>1 DEF FInv, TablesOK, ReservationsOK
  <1>7. FilesOf(r)' \subseteq FilesOf(r) /\ c.file \in FilesOf(r) /\ c.file \notin FilesOf(r)'
    BY <1>2 DEF FilesOf, FInv, PassesOK
  <1>8. rows'[c.file] = row /\ \A f \in File \ {c.file} : rows'[f] = rows[f]
    BY <1>1 DEF FInv, TablesOK
  <1>9. ASSUME NEW f \in FilesOf(r), f \notin contested PROVE WorkOK(f)'
    <2>1. CASE f = c.file
      <3>1. ~PublishingFile(f) /\ WorkOK(f)
        BY <1>9, <2>1, HeldFile
      <3>2. \A q \in Recoverer : \A d \in batch'[q] : d.file # f
        BY <1>2, <1>7, <1>9, <2>1, LetGo
      <3> QED
        BY <1>8, <1>9, <2>1, <3>1, <3>2 DEF WorkOK, PublishingFile
    <2>2. CASE f # c.file
      <3>1. PICK d \in batch[r] : d.file = f
        BY DEF FilesOf
      <3>2. f \in File /\ WorkOK(f) /\ ~PublishingFile(f)
        BY <1>9, <3>1, HeldFile
      <3>3. rows'[f] = rows[f]
        BY <1>8, <2>2, <3>2
      <3>4. ASSUME NEW q \in Recoverer, NEW e \in batch'[q], e.file = f
            PROVE  /\ e \in batch[r] /\ q = r
                   /\ \A p \in Recoverer : f \in FilesOf(p)' => f \in FilesOf(p)
        BY <1>2, <1>7, <2>2, <3>1, <3>2, <3>4 DEF WorkOK, FilesOf
      <3>5. KnowsPending(r, f)' /\ at'[r] # "finish" /\ ~saw'[r].object
        BY <1>2, <3>1 DEF KnowsPending, NothingSeen, FilesOf
      <3>6. at'[r] = "idle" => batch'[r] = {}
        BY <1>2
      <3> QED
        BY <1>2, <3>2, <3>3, <3>4, <3>5, <3>6 DEF WorkOK, PublishingFile
    <2> QED
      BY <2>1, <2>2
  <1> QED
    BY <1>2, <1>5, <1>6, <1>7, <1>8, <1>9, PassStepKeeps

\* The recoverer goes on with its first record.
LEMMA RecordStepKeeps ==
  ASSUME FInv, NEW r \in Recoverer, NEW c \in batch[r], First(r, c),
         NEW s \in PassStage \ {"idle", "stages", "repair"}, NEW k \in Seen,
         at' = [at EXCEPT ![r] = s], saw' = [saw EXCEPT ![r] = k],
         UNCHANGED <<now, rows, reserved, upload, deadline, deletion, since, batch, contested>>,
         object' \subseteq File,
         \A f \in File \ {c.file} : f \in object' <=> f \in object,
         c.file \notin contested /\ c.state = "pending" => KnowsPending(r, c.file)',
         c.file \notin contested /\ c.state = "deleting" =>
           s = "finish" /\ ~k.object /\ c.file \notin object'
  PROVE  FInv'
PROOF
  <1>1. /\ \A q \in Recoverer \ {r} : batch'[q] = batch[q] /\ at'[q] = at[q] /\ saw'[q] = saw[q]
        /\ at'[r] = s /\ saw'[r] = k
    BY DEF FInv, PassesOK
  <1>2. TablesOK' /\ ReservationsOK'
    BY DEF FInv, TablesOK, ReservationsOK
  <1>3. PassesOK'
    BY <1>1 DEF FInv, PassesOK
  <1>4. \A q \in Recoverer : FilesOf(q)' = FilesOf(q)
    BY DEF FilesOf
  <1>5. c.file \in FilesOf(r)
    BY DEF FilesOf
  <1>6. ASSUME NEW f \in FilesOf(r), f \notin contested PROVE WorkOK(f)'
    <2>1. PICK d \in batch[r] : d.file = f
      BY DEF FilesOf
    <2>2. /\ f \in File /\ WorkOK(f) /\ ~PublishingFile(f)
          /\ rows[f].state # "ready" /\ d.state \in {"pending", "deleting"}
          /\ d.state = "pending" => rows[f].state = "pending" /\ deletion[f] = "none"
      BY <1>6, <2>1, HeldFile
    <2>3. ASSUME NEW e \in batch[r], First(r, e) PROVE e = c
      BY <2>3, FirstIsUnique DEF FInv, PassesOK
    <2>4. ASSUME NEW q \in Recoverer, NEW e \in batch'[q], e.file = f
          PROVE  q = r /\ e = d /\ (First(q, e)' => e = c)
      <3>1. q = r
        BY <2>1, <2>2, <2>4 DEF WorkOK, FilesOf
      <3>2. e = d
        BY <2>1, <2>4, <3>1 DEF FInv, PassesOK
      <3>3. First(q, e)' => First(r, e)
        BY <3>1 DEF First
      <3> QED
        BY <2>3, <2>4, <3>1, <3>2, <3>3
    <2>5. CASE f # c.file
      <3>1. d # c /\ (f \in object' <=> f \in object)
        BY <2>1, <2>2, <2>5
      <3> QED
        BY <1>4, <2>1, <2>2, <2>4, <3>1 DEF WorkOK, PublishingFile
    <2>6. CASE f = c.file
      <3>1. d = c
        BY <2>1, <2>6 DEF FInv, PassesOK
      <3>2. /\ rows[f].state = "none" => f \notin object'
            /\ deletion[f] = "row" => f \notin object'
            /\ c.state = "deleting" => rows[f].state \in {"deleting", "none"}
            /\ c.state = "pending" => rows[f].claimedBy = r
            /\ rows[f].state \in {"pending", "ready"} => deletion[f] = "none"
            /\ \A q \in Recoverer : f \in FilesOf(q) => q = r
        BY <1>6, <2>1, <2>2, <2>6, <3>1 DEF WorkOK
      <3>3. ~PublishingFile(f)'
        BY <2>2 DEF PublishingFile
      <3> QED
        BY <1>1, <1>4, <1>6, <2>2, <2>4, <2>6, <3>1, <3>2, <3>3 DEF WorkOK
    <2> QED
      BY <2>5, <2>6
  <1> QED
    BY <1>1, <1>2, <1>3, <1>4, <1>5, <1>6, PassStepKeeps

\* What the first record of a batch tells of an uncontested file.
LEMMA AtWork ==
  ASSUME FInv, NEW r \in Recoverer, NEW c \in batch[r], First(r, c), c.file \notin contested
  PROVE  /\ c.state \in {"pending", "deleting"}
         /\ c.state = "pending" => KnowsPending(r, c.file)
         /\ c.state = "deleting" => /\ at[r] \in {"repair", "finish"} /\ ~saw[r].object
                                    /\ at[r] = "finish" => c.file \notin object
PROOF
  <1>1. WorkOK(c.file) /\ c.state \in {"pending", "deleting"}
    BY HeldFile
  <1> QED
    BY <1>1 DEF WorkOK

LEMMA RepairStepsKeep ==
  ASSUME FInv, NEW r \in Recoverer, NEW c \in batch[r], RepairStep(r, c)
  PROVE  FInv'
PROOF
  <1>1. c.file \in File /\ saw[r] \in Seen /\ object \subseteq File
    BY DEF FInv, PassesOK, TablesOK, Record
  <1>2. /\ saw[r].object \in BOOLEAN /\ saw[r].stage \in BOOLEAN
        /\ \A b \in BOOLEAN : /\ [saw[r] EXCEPT !.object = b] \in Seen
                             /\ [saw[r] EXCEPT !.object = b].object = b
                             /\ [saw[r] EXCEPT !.stage = b] \in Seen
                             /\ [saw[r] EXCEPT !.stage = b].object = saw[r].object
    BY <1>1 DEF Seen
  <1>3. at[r] \in {"idle", "stages", "repair"} => saw[r] = NothingSeen
    BY DEF FInv, PassesOK
  <1>4. \A s : /\ at' = [at EXCEPT ![r] = s] => at'[r] = s
               /\ \A k : saw' = [saw EXCEPT ![r] = k] => saw'[r] = k
    BY DEF FInv, PassesOK
  <1>5. CASE LookForObject(r, c)
    <2> DEFINE k == [saw[r] EXCEPT !.object = c.file \in object]
    <2>1. /\ First(r, c) /\ c.state = "pending"
          /\ at' = [at EXCEPT ![r] = "looked"] /\ saw' = [saw EXCEPT ![r] = k]
          /\ UNCHANGED <<now, rows, reserved, object, upload, deadline, deletion, since, batch, contested>>
      BY <1>5 DEF LookForObject, Repairs, tableVars, storeVars, uploadVars
    <2>2. k \in Seen /\ (k.object <=> c.file \in object)
      <3>1. (c.file \in object) \in BOOLEAN
        OBVIOUS
      <3> QED
        BY <1>2, <3>1, Zenon
    <2>3. KnowsPending(r, c.file)'
      BY <1>4, <2>1, <2>2 DEF KnowsPending
    <2> QED
      BY <1>1, <2>1, <2>2, <2>3, RecordStepKeeps DEF PassStage
  <1>6. CASE LookForStage(r, c)
    <2> DEFINE k == [saw[r] EXCEPT !.stage = c.file \in staged]
               s == AfterLook(saw[r].object, c.file \in staged)
    <2>1. /\ First(r, c) /\ at[r] = "looked"
          /\ at' = [at EXCEPT ![r] = s] /\ saw' = [saw EXCEPT ![r] = k]
          /\ UNCHANGED <<now, rows, reserved, object, upload, deadline, deletion, since, batch, contested>>
      BY <1>6 DEF LookForStage, Repairs, tableVars, storeVars, uploadVars
    <2>2. k \in Seen /\ k.object = saw[r].object
      <3>1. (c.file \in staged) \in BOOLEAN
        OBVIOUS
      <3> QED
        BY <1>2, <3>1, Zenon
    <2>3. /\ s \in {"finish", "abort", "publish"}
          /\ s = "abort" => saw[r].object
          /\ s = "publish" => ~saw[r].object
      BY DEF AfterLook
    <2>4. c.file \notin contested => c.state = "pending" /\ KnowsPending(r, c.file)'
      <3>1. c.file \notin contested => c.state = "pending" /\ KnowsPending(r, c.file)
        BY <2>1, AtWork
      <3> QED
        BY <1>4, <2>1, <2>2, <2>3, <3>1 DEF KnowsPending
    <2> QED
      BY <1>1, <2>1, <2>2, <2>3, <2>4, RecordStepKeeps DEF PassStage
  <1>7. CASE RepairLink(r, c)
    <2>1. /\ First(r, c) /\ at[r] = "publish" /\ object' = object \cup {c.file}
          /\ at' = [at EXCEPT ![r] = "unlink"] /\ saw' = [saw EXCEPT ![r] = saw[r]]
          /\ UNCHANGED <<now, rows, reserved, upload, deadline, deletion, since, batch, contested>>
      BY <1>7 DEF RepairLink, Repairs, tableVars, uploadVars, FInv, PassesOK
    <2>2. KnowsPending(r, c.file)'
      BY <1>4, <2>1 DEF KnowsPending
    <2>3. c.file \notin contested => c.state = "pending"
      BY <2>1, AtWork
    <2> QED
      BY <1>1, <2>1, <2>2, <2>3, RecordStepKeeps DEF PassStage
  <1>8. CASE RepairUnlink(r, c)
    <2> DEFINE k == [saw[r] EXCEPT !.object = TRUE]
    <2>1. /\ First(r, c) /\ at[r] = "unlink"
          /\ at' = [at EXCEPT ![r] = "abort"] /\ saw' = [saw EXCEPT ![r] = k]
          /\ UNCHANGED <<now, rows, reserved, object, upload, deadline, deletion, since, batch, contested>>
      BY <1>8 DEF RepairUnlink, Repairs, tableVars, uploadVars
    <2>2. k \in Seen /\ k.object = TRUE
      BY <1>2
    <2>3. c.file \notin contested => c.state = "pending" /\ KnowsPending(r, c.file)'
      <3>1. c.file \notin contested => c.state = "pending" /\ KnowsPending(r, c.file)
        BY <2>1, AtWork
      <3> QED
        BY <1>4, <2>1, <2>2, <3>1 DEF KnowsPending
    <2> QED
      BY <1>1, <2>1, <2>2, <2>3, RecordStepKeeps DEF PassStage
  <1>9. CASE RepairAbort(r, c)
    <2>1. /\ First(r, c) /\ at[r] = "abort"
          /\ at' = [at EXCEPT ![r] = "finish"] /\ saw' = [saw EXCEPT ![r] = saw[r]]
          /\ UNCHANGED <<now, rows, reserved, object, upload, deadline, deletion, since, batch, contested>>
      BY <1>9 DEF RepairAbort, Repairs, tableVars, uploadVars, FInv, PassesOK
    <2>2. c.file \notin contested => c.state = "pending" /\ KnowsPending(r, c.file)'
      <3>1. c.file \notin contested => c.state = "pending" /\ KnowsPending(r, c.file)
        BY <2>1, AtWork
      <3> QED
        BY <1>4, <2>1, <3>1 DEF KnowsPending
    <2> QED
      BY <1>1, <2>1, <2>2, RecordStepKeeps DEF PassStage
  <1>10. CASE RepairDelete(r, c)
    <2>1. /\ First(r, c) /\ at[r] = "repair" /\ c.state = "deleting" /\ object' = object \ {c.file}
          /\ at' = [at EXCEPT ![r] = "finish"] /\ saw' = [saw EXCEPT ![r] = saw[r]]
          /\ UNCHANGED <<now, rows, reserved, upload, deadline, deletion, since, batch, contested>>
      BY <1>10 DEF RepairDelete, Repairs, tableVars, uploadVars, FInv, PassesOK
    <2>2. ~saw[r].object
      BY <1>3, <2>1 DEF NothingSeen
    <2> QED
      BY <1>1, <2>1, <2>2, RecordStepKeeps DEF PassStage
  <1>11. CASE FinishReady(r, c)
    <2> DEFINE row == [rows[c.file] EXCEPT !.state = "ready", !.claimedBy = Nobody, !.until = 0, !.updated = now]
    <2>1. /\ First(r, c) /\ at[r] = "finish" /\ saw[r].object /\ NextRecord(r, c)
          /\ rows' = [rows EXCEPT ![c.file] = row]
          /\ UNCHANGED <<now, reserved, object, upload, deadline, deletion, contested>>
      BY <1>11 DEF FinishReady, Repairs, storeVars, uploadVars
    <2>2. row \in Row /\ row.state = "ready"
      <3>1. rows[c.file] \in Row /\ now \in Time
        BY <1>1 DEF FInv, TablesOK
      <3> QED
        BY <3>1, FilesAssumption DEF Row
    <2>3. c.file \notin contested => c.file \in object /\ deletion[c.file] = "none"
      BY <2>1, AtWork, HeldFile DEF KnowsPending
    <2> QED
      BY <2>1, <2>2, <2>3, NextRecordKeeps
  <1>12. CASE RemoveClaimed(r, c)
    <2>1. /\ First(r, c) /\ at[r] = "finish" /\ ~saw[r].object /\ NextRecord(r, c)
          /\ rows' = [rows EXCEPT ![c.file] = NoRow(c.file)]
          /\ UNCHANGED <<now, reserved, object, upload, deadline, deletion, contested>>
      BY <1>12 DEF RemoveClaimed, RemoveRow, Repairs, storeVars, uploadVars
    <2>2. c.file \notin contested => c.file \notin object
      BY <2>1, AtWork DEF KnowsPending
    <2> QED
      BY <1>1, <2>1, <2>2, NoRowIsRow, NextRecordKeeps
  <1>13. CASE RepairFails(r, c)
    BY <1>13, EndPassKeeps DEF RepairFails, tableVars, storeVars, uploadVars
  <1> QED
    BY <1>5, <1>6, <1>7, <1>8, <1>9, <1>10, <1>11, <1>12, <1>13 DEF RepairStep

\* Steps that change nothing the invariant is about, and the clock.
LEMMA SameKeeps ==
  ASSUME FInv, now' \in Time, now <= now',
         UNCHANGED <<rows, reserved, object, upload, deadline, deletion, at, since, batch, saw, contested>>
  PROVE  FInv'
PROOF
  <1>1. now \in Nat /\ now' \in Nat
    BY TimeIsNat DEF FInv, TablesOK
  <1>2. TablesOK' /\ ReservationsOK'
    BY DEF FInv, TablesOK, ReservationsOK
  <1>3. PassesOK'
    <2>1. \A r \in Recoverer : since[r] \in Nat /\ since[r] <= now
      BY TimeIsNat DEF FInv, PassesOK
    <2>2. \A r \in Recoverer : since'[r] <= now'
      BY <1>1, <2>1
    <2> QED
      BY <2>2 DEF FInv, PassesOK
  <1>4. \A f \in File : (Quiet(f)' <=> Quiet(f)) /\ (InTime(f)' => InTime(f))
    BY <1>1 DEF Quiet, FilesOf, InTime, FInv, TablesOK
  <1>5. UploadsOK'
    <2>1. ASSUME NEW f \in File PROVE UploadOK(f)'
      BY <1>4 DEF FInv, UploadsOK, UploadOK, PublishingFile
    <2> QED
      BY <2>1 DEF UploadsOK
  <1>6. WorkersOK'
    <2>1. ASSUME NEW f \in File, f \notin contested PROVE WorkOK(f)'
      <3>1. WorkOK(f)
        BY <2>1 DEF FInv, WorkersOK
      <3>2. ASSUME NEW r \in Recoverer, NEW c \in batch[r]
            PROVE  /\ First(r, c)' <=> First(r, c)
                   /\ KnowsPending(r, f)' <=> KnowsPending(r, f)
        BY DEF KnowsPending, First
      <3>3. Quiet(f)' <=> Quiet(f)
        BY <1>4
      <3> QED
        BY <3>1, <3>2, <3>3 DEF WorkOK, PublishingFile, FilesOf
    <2> QED
      BY <2>1 DEF WorkersOK
  <1> QED
    BY <1>2, <1>3, <1>5, <1>6 DEF FInv

LEMMA BeginPassKeeps ==
  ASSUME FInv, NEW r \in Recoverer, BeginPass(r)
  PROVE  FInv'
PROOF
  <1>1. /\ at' = [at EXCEPT ![r] = "stages"] /\ since' = [since EXCEPT ![r] = now] /\ at[r] = "idle"
        /\ UNCHANGED <<now, rows, reserved, object, upload, deadline, deletion, batch, saw, contested>>
    BY DEF BeginPass, tableVars, storeVars, uploadVars
  <1>2. TablesOK' /\ ReservationsOK'
    BY <1>1 DEF FInv, TablesOK, ReservationsOK
  <1>3. now \in Time /\ now <= now
    BY TimeIsNat DEF FInv, TablesOK
  <1>4. PassesOK'
    BY <1>1, <1>3 DEF FInv, PassesOK, PassStage
  <1>5. FilesOf(r) = {} /\ FilesOf(r)' = {}
    BY <1>1 DEF FInv, PassesOK, FilesOf
  <1>6. \A q \in Recoverer \ {r} : at'[q] = at[q]
    BY <1>1 DEF FInv, PassesOK
  <1> QED
    BY <1>1, <1>2, <1>4, <1>5, <1>6, PassStepKeeps

LEMMA ClaimRecoveryKeeps ==
  ASSUME FInv, NEW r \in Recoverer, ClaimRecovery(r)
  PROVE  FInv'
PROOF
  <1> DEFINE claimed == ClaimableRows(since[r])
             claim(f) == [rows[f] EXCEPT !.claimedBy = r, !.until = since[r] + RecoveryLease]
             record(f) == [file |-> f, state |-> rows[f].state, updated |-> rows[f].updated]
  <1>1. /\ rows' = [f \in File |-> IF f \in claimed THEN claim(f) ELSE rows[f]]
        /\ \A f \in File : reserved'[f] \in {reserved[f], 0}
        /\ reserved' \in [File -> Nat]
        /\ contested' = contested \cup {f \in claimed : SomebodyElseAtWork(r, f)}
        /\ at[r] = "stages"
        /\ UNCHANGED <<now, object, upload, deadline, deletion>>
    BY DEF ClaimRecovery, storeVars, uploadVars, FInv, TablesOK
  <1>2. batch[r] = {} /\ saw[r] = NothingSeen /\ since[r] \in Time /\ since[r] <= now
    BY <1>1 DEF FInv, PassesOK
  <1>3. \A f \in claimed : /\ f \in File /\ rows[f].state \in {"pending", "deleting"}
                           /\ rows[f].claimedBy = Nobody \/ rows[f].until < since[r]
    BY ClaimableRowsAre DEF Unclaimed
  <1>4. /\ batch' = [batch EXCEPT ![r] = {record(f) : f \in claimed}]
        /\ at' \in [Recoverer -> PassStage] /\ since' \in [Recoverer -> Time] /\ saw' = saw
        /\ at'[r] \in {"idle", "repair"} /\ (at'[r] = "idle" => batch'[r] = {})
        /\ \A q \in Recoverer \ {r} : at'[q] = at[q]
        /\ \A q \in Recoverer : since'[q] <= now
    <2>1. CASE claimed = {}
      <3>1. EndPass(r)
        BY <2>1 DEF ClaimRecovery
      <3>2. 0 \in Time /\ 0 <= now
        BY FilesAssumption, TimeIsNat DEF Time, FInv, TablesOK
      <3> QED
        BY <1>2, <2>1, <3>1, <3>2 DEF EndPass, FInv, PassesOK, PassStage
    <2>2. CASE claimed # {}
      <3>1. /\ at' = [at EXCEPT ![r] = "repair"] /\ since' = since /\ saw' = saw
            /\ batch' = [batch EXCEPT ![r] = {record(f) : f \in claimed}]
        BY <2>2 DEF ClaimRecovery
      <3> QED
        BY <3>1 DEF FInv, PassesOK, PassStage
    <2> QED
      BY <2>1, <2>2
  <1>5. batch'[r] = {record(f) : f \in claimed} /\ \A q \in Recoverer \ {r} : batch'[q] = batch[q]
    BY <1>4 DEF FInv, PassesOK
  <1>6. \A f \in claimed : record(f) \in Record
    <2>1. \A f \in claimed : rows[f] \in Row
      BY <1>3 DEF FInv, TablesOK
    <2> QED
      BY <1>3, <2>1 DEF Record, Row
  <1>7. FilesOf(r) = {} /\ FilesOf(r)' = claimed
    <2>1. \A f : f \in FilesOf(r)' <=> \E g \in claimed : f = record(g).file
      BY <1>5 DEF FilesOf
    <2>2. \A g \in claimed : record(g).file = g
      OBVIOUS
    <2> HIDE DEF claimed, record
    <2> QED
      BY <1>2, <2>1, <2>2 DEF FilesOf
  <1>8. \A f \in claimed : claim(f) \in Row /\ claim(f).state = rows[f].state /\ claim(f).claimedBy = r
    <2>1. since[r] + RecoveryLease \in Nat
      <3>1. since[r] \in Nat
        BY <1>2, TimeIsNat
      <3> QED
        BY <3>1, FilesAssumption
    <2>2. \A f \in claimed : rows[f] \in Row
      BY <1>3 DEF FInv, TablesOK
    <2> QED
      BY <2>1, <2>2 DEF Row
  <1>9. \A f \in File : rows'[f] = IF f \in claimed THEN claim(f) ELSE rows[f]
    BY <1>1
  <1>10. TablesOK'
    BY <1>1, <1>3, <1>8 DEF FInv, TablesOK
  <1>11. ReservationsOK'
    BY <1>1 DEF FInv, ReservationsOK
  <1>12. PassesOK'
    <2>1. \A c, d \in batch'[r] : c.file = d.file => c = d
      BY <1>5
    <2>2. batch' \in [Recoverer -> SUBSET Record]
      BY <1>4, <1>6 DEF FInv, PassesOK
    <2> QED
      BY <1>1, <1>2, <1>4, <1>5, <2>1, <2>2 DEF FInv, PassesOK
  <1>13. ASSUME NEW f \in claimed PROVE UploadOK(f)'
    <2>1. f \in File /\ UploadOK(f)
      BY <1>3 DEF FInv, UploadsOK
    <2>2. ~(PublishingFile(f) /\ InTime(f))
      <3>1. now \in Nat /\ since[r] \in Nat /\ deadline[f] \in Nat /\ rows[f].until \in Nat
        BY <1>2, <2>1, TimeIsNat DEF FInv, TablesOK, Row
      <3> QED
        BY <1>2, <1>3, <2>1, <3>1, FilesAssumption DEF UploadOK, InTime
    <2> QED
      BY <1>1, <1>3, <2>1, <2>2 DEF UploadOK, PublishingFile, InTime
  <1>14. ASSUME NEW f \in claimed, f \notin contested' PROVE WorkOK(f)'
    <2>1. f \in File /\ WorkOK(f) /\ ~SomebodyElseAtWork(r, f)
      BY <1>1, <1>3, <1>14 DEF FInv, WorkersOK
    <2>2. ~PublishingFile(f) /\ \A q \in Recoverer \ {r} : f \notin FilesOf(q)'
      BY <1>5, <2>1 DEF SomebodyElseAtWork, FilesOf
    <2>3. ASSUME NEW q \in Recoverer, NEW c \in batch'[q], c.file = f
          PROVE  /\ q = r /\ c = record(f)
                 /\ \A p \in Recoverer : f \in FilesOf(p)' => p = r
                 /\ at'[r] = "repair" /\ ~saw'[r].object
      <3>1. q = r
        BY <2>2, <2>3 DEF FilesOf
      <3>2. c = record(f)
        BY <1>5, <2>3, <3>1
      <3>3. at'[r] = "repair" /\ ~saw'[r].object
        BY <1>2, <1>4, <2>3, <3>1 DEF NothingSeen
      <3> QED
        BY <2>2, <3>1, <3>2, <3>3
    <2>4. rows'[f].state = rows[f].state /\ rows'[f].claimedBy = r
      BY <1>8, <1>9, <2>1
    <2>5. /\ rows'[f].state = "none" => f \notin object'
          /\ rows'[f].state = "ready" => f \in object'
          /\ deletion'[f] = "row" => f \notin object'
          /\ ~PublishingFile(f)'
          /\ rows'[f].state \in {"pending", "ready"} => deletion'[f] = "none"
      BY <1>1, <2>1, <2>2, <2>4 DEF WorkOK, PublishingFile
    <2>6. ASSUME NEW q \in Recoverer, NEW c \in batch'[q], c.file = f
          PROVE  /\ \A p \in Recoverer : f \in FilesOf(p)' => p = q
                 /\ c.state = rows'[f].state /\ rows'[f].claimedBy = q
                 /\ KnowsPending(q, f)'
                 /\ at'[q] = "repair" /\ ~saw'[q].object
      BY <2>3, <2>4, <2>6 DEF KnowsPending
    <2> QED
      BY <2>5, <2>6 DEF WorkOK
  <1> QED
    BY <1>1, <1>4, <1>5, <1>7, <1>9, <1>10, <1>11, <1>12, <1>13, <1>14, PassStepKeeps

-----------------------------------------------------------------------------
LEMMA FilesStepInv == FInv /\ [FilesNext]_vars => FInv'
PROOF
  <1> SUFFICES ASSUME FInv, [FilesNext]_vars PROVE FInv'
    OBVIOUS
  <1>1. now \in Time /\ now <= now
    BY TimeIsNat DEF FInv, TablesOK
  <1>2. CASE Tick
    <2>1. now' \in Time /\ now <= now'
      <3>1. now \in 0..MaxTime /\ now < MaxTime /\ now' = now + 1
        BY <1>2 DEF Tick, FInv, TablesOK, Time
      <3> QED
        BY <3>1, FilesAssumption DEF Time
    <2> QED
      BY <1>2, <2>1, SameKeeps DEF Tick, tableVars, storeVars, uploadVars, passVars
  <1>3. ASSUME NEW a \in Account, SetActive(a) PROVE FInv'
    BY <1>1, <1>3, SameKeeps DEF SetActive, tableVars, storeVars, uploadVars, passVars
  <1>4. ASSUME NEW f \in File, ReserveCapacity(f) PROVE FInv'
    BY <1>4, ReserveCapacityKeeps
  <1>5. ASSUME NEW f \in File, UploadStep(f) \/ UploadDies(f) PROVE FInv'
    BY <1>5, UploadOnlyMoves, CommitUploadKeeps, LinkObjectKeeps, MarkReadyKeeps, SyncFailsKeeps, YieldClaimKeeps
       DEF UploadStep
  <1>6. ASSUME NEW f \in File, MarkDeleting(f) \/ DeletionStep(f) PROVE FInv'
    BY <1>6, MarkDeletingKeeps, DeleteObjectKeeps, RemoveDeletingKeeps DEF DeletionStep
  <1>7. ASSUME NEW r \in Recoverer, PassStep(r) PROVE FInv'
    <2>1. ASSUME NEW f \in expired[r], AbortStage(r, f) PROVE FInv'
      BY <1>1, <2>1, SameKeeps DEF AbortStage, tableVars, uploadVars
    <2> QED
      BY <1>7, <2>1, BeginPassKeeps, ClaimRecoveryKeeps, RepairStepsKeep DEF PassStep
  <1>8. ASSUME NEW r \in Recoverer, PassDies(r) PROVE FInv'
    BY <1>8, EndPassKeeps DEF PassDies, tableVars, storeVars, uploadVars
  <1>9. ASSUME NEW r \in Recoverer, NEW c \in batch[r], RepairSyncFails(r, c) PROVE FInv'
    <2>1. object' = object \ {c.file} /\ c.file \in FilesOf(r)
      BY <1>9 DEF RepairSyncFails, FilesOf
    <2> QED
      BY <1>9, <2>1, EndPassKeeps DEF RepairSyncFails, tableVars, uploadVars
  <1>10. CASE UNCHANGED vars
    BY <1>1, <1>10, SameKeeps DEF vars, tableVars, storeVars, uploadVars, passVars
  <1> QED
    BY <1>2, <1>3, <1>4, <1>5, <1>6, <1>7, <1>8, <1>9, <1>10 DEF FilesNext

LEMMA FilesInvariant == FilesSpec => []FInv
  BY FilesInitInv, FilesStepInv, PTL DEF FilesSpec

\* An acknowledged upload (service.go:183) keeps its row and its object until somebody
\* deletes the file, for any number of recovery loops and any timing of theirs: the
\* deadline of uploads comes before the end of their claims.
THEOREM AcknowledgedStays == FilesSpec => []Acknowledged
PROOF
  <1>1. FInv => Acknowledged
    BY DEF FInv, UploadsOK, UploadOK, Acknowledged
  <1> QED
    BY <1>1, FilesInvariant, PTL

\* The row and the object of a file agree (service.go:335), unless a recovery pass
\* claimed it while somebody else was still at work on it.
THEOREM StoresStayInAgreement == FilesSpec => []StoresAgree
PROOF
  <1>1. FInv => StoresAgree
    BY DEF FInv, WorkersOK, WorkOK, StoresAgree
  <1> QED
    BY <1>1, FilesInvariant, PTL

-----------------------------------------------------------------------------
(* Sums over finite sets.  Induction over the subsets of a set is replaced  *)
(* by the choice of a smallest counterexample.                              *)

\* The sum of F over S, which the model writes MapThenSumSet.
SumOver(F, S) == MapThenSumSet(LAMBDA f : F[f], S)

\* Adding up goes element by element, in an order nobody knows.
Picked(S) == CHOOSE x \in S : TRUE
Added(F, s, g) == IF s = {} THEN 0 ELSE F[Picked(s)] + g[s \ {Picked(s)}]
Sums(F, S, g) == g = [s \in SUBSET S |-> Added(F, s, g)]
TheSums(F, S) == CHOOSE g : Sums(F, S, g)

LEMMA SumIs == ASSUME NEW F, NEW S PROVE SumOver(F, S) = TheSums(F, S)[S]
  BY DEF SumOver, TheSums, Sums, Added, Picked, MapThenSumSet, MapThenFoldSet

(* Of the finite sets with a property, some are smallest.                   *)
LEMMA SmallestSet ==
  ASSUME NEW S, IsFiniteSet(S), NEW T \in SUBSET (SUBSET S), T # {}
  PROVE  \E U \in T : \A V \in T : V \subseteq U => V = U
  <1>1. IsWellFoundedOn(StrictSubsetOrdering(S), SUBSET S)
    BY FS_FiniteSubsetsOfFinite, FS_StrictSubsetOrderingWellFounded
  <1>2. PICK U \in T : \A V \in T : ~ (<<V, U>> \in StrictSubsetOrdering(S))
    BY <1>1, WFMin
  <1>3. ASSUME NEW V \in T, V \subseteq U, V # U PROVE FALSE
    <2>1. <<V, U>> \in StrictSubsetOrdering(S)
      BY <1>3 DEF StrictSubsetOrdering
    <2> QED
      BY <1>2, <2>1
  <1> QED
    BY <1>3

LEMMA PickedIn == ASSUME NEW S, S # {} PROVE Picked(S) \in S
  BY DEF Picked

(* Sums over two sets agree on what the sets have in common.                *)
LEMMA SumsAgree ==
  ASSUME NEW F, NEW S, IsFiniteSet(S), NEW T, NEW g, NEW h,
         Sums(F, S, g), Sums(F, T, h), NEW v \in SUBSET (S \cap T)
  PROVE  g[v] = h[v]
  <1> DEFINE Bad == {u \in SUBSET (S \cap T) : g[u] # h[u]}
  <1> SUFFICES ASSUME Bad # {} PROVE FALSE
    OBVIOUS
  <1>1. Bad \in SUBSET (SUBSET S)
    OBVIOUS
  <1>2. PICK u \in Bad : \A w \in Bad : w \subseteq u => w = u
    <2> HIDE DEF Bad
    <2> QED
      BY <1>1, SmallestSet
  <1>3. u \in SUBSET S /\ u \in SUBSET T /\ g[u] # h[u]
    BY <1>2
  <1>4. g[u] = Added(F, u, g) /\ h[u] = Added(F, u, h)
    BY <1>3 DEF Sums
  <1>5. u # {}
    BY <1>3, <1>4 DEF Added
  <1> DEFINE w == u \ {Picked(u)}
  <1>6. Picked(u) \in u
    BY <1>5, PickedIn
  <1>7. g[w] = h[w]
    BY <1>2, <1>3, <1>6
  <1> QED
    BY <1>3, <1>4, <1>5, <1>7 DEF Added

(* There are sums over every finite set.                                    *)
LEMMA SumsExist ==
  ASSUME NEW F, NEW S, IsFiniteSet(S) PROVE \E g : Sums(F, S, g)
  <1> DEFINE Bad == {u \in SUBSET S : ~ \E g : Sums(F, u, g)}
  <1> SUFFICES ASSUME Bad # {} PROVE FALSE
    OBVIOUS
  <1>0. Bad \in SUBSET (SUBSET S)
    OBVIOUS
  <1>1. PICK u \in Bad : \A w \in Bad : w \subseteq u => w = u
    <2> HIDE DEF Bad
    <2> QED
      BY <1>0, SmallestSet
  <1>2. u \in SUBSET S /\ IsFiniteSet(u) /\ ~ \E g : Sums(F, u, g)
    BY <1>1, FS_Subset
  <1>3. ASSUME NEW w \in SUBSET u, w # u PROVE Sums(F, w, TheSums(F, w))
    <2>1. \E g : Sums(F, w, g)
      BY <1>1, <1>3, <1>2
    <2> QED
      BY <2>1 DEF TheSums
  <1> DEFINE Rest(s) == s \ {Picked(s)}
             G == [s \in SUBSET u |->
                     IF s = {} THEN 0 ELSE F[Picked(s)] + TheSums(F, Rest(s))[Rest(s)]]
  <1>4. ASSUME NEW s \in SUBSET u, s # {} PROVE G[Rest(s)] = TheSums(F, Rest(s))[Rest(s)]
    <2> DEFINE t == Rest(s)
               g == TheSums(F, t)
    <2>1. t \in SUBSET u /\ t # u
      BY <1>4, PickedIn
    <2>2. Sums(F, t, g)
      BY <1>3, <2>1
    <2>3. g[t] = Added(F, t, g)
      BY <2>2 DEF Sums
    <2>4. CASE t = {}
      BY <2>1, <2>3, <2>4 DEF Added
    <2>5. CASE t # {}
      <3>1. Rest(t) \in SUBSET t /\ Rest(t) \in SUBSET u /\ Rest(t) # u
        BY <2>1, <2>5, PickedIn
      <3>2. Sums(F, Rest(t), TheSums(F, Rest(t)))
        BY <1>3, <3>1
      <3>3. IsFiniteSet(t)
        BY <1>2, <2>1, FS_Subset
      <3>4. Rest(t) \in SUBSET (t \cap Rest(t))
        BY <3>1
      <3> HIDE DEF g, t, Rest
      <3>5. g[Rest(t)] = TheSums(F, Rest(t))[Rest(t)]
        BY <2>2, <3>2, <3>3, <3>4, SumsAgree
      <3> QED
        BY <2>1, <2>3, <2>5, <3>5 DEF Added, g, t, Rest
    <2> QED
      BY <2>4, <2>5
  <1>5. \A s \in SUBSET u : G[s] = Added(F, s, G)
    <2> TAKE s \in SUBSET u
    <2>1. CASE s = {}
      BY <2>1 DEF Added
    <2>2. CASE s # {}
      BY <2>2, <1>4 DEF Added
    <2> QED
      BY <2>1, <2>2
  <1>6. Sums(F, u, G)
    <2>1. G = [s \in SUBSET u |-> G[s]]
      OBVIOUS
    <2> HIDE DEF G
    <2>2. [s \in SUBSET u |-> G[s]] = [s \in SUBSET u |-> Added(F, s, G)]
      BY <1>5
    <2> QED
      BY <2>1, <2>2 DEF Sums
  <1> QED
    BY <1>2, <1>6

LEMMA SumNothing == ASSUME NEW F PROVE SumOver(F, {}) = 0
  <1> DEFINE g == TheSums(F, {})
  <1>1. Sums(F, {}, g)
    BY SumsExist, FS_EmptySet DEF TheSums
  <1> HIDE DEF g
  <1>2. g[{}] = Added(F, {}, g)
    BY <1>1 DEF Sums
  <1> QED
    BY <1>2, SumIs DEF Added, g

LEMMA SumStep ==
  ASSUME NEW F, NEW S, IsFiniteSet(S), S # {}
  PROVE  SumOver(F, S) = F[Picked(S)] + SumOver(F, S \ {Picked(S)})
  <1> DEFINE g == TheSums(F, S)
             T == S \ {Picked(S)}
             h == TheSums(F, T)
  <1>1. Sums(F, S, g)
    BY SumsExist DEF TheSums
  <1>2. IsFiniteSet(T) /\ T \in SUBSET (S \cap T)
    BY FS_Subset
  <1>3. Sums(F, T, h)
    BY <1>2, SumsExist DEF TheSums
  <1>4. SumOver(F, S) = g[S] /\ SumOver(F, T) = h[T]
    BY SumIs
  <1> HIDE DEF g, h, T
  <1>5. g[T] = h[T]
    BY <1>1, <1>2, <1>3, SumsAgree
  <1>6. g[S] = Added(F, S, g)
    BY <1>1 DEF Sums
  <1> QED
    BY <1>4, <1>5, <1>6 DEF Added, T

LEMMA SumIsNat ==
  ASSUME NEW D, NEW F \in [D -> Nat], NEW S \in SUBSET D, IsFiniteSet(S)
  PROVE  SumOver(F, S) \in Nat
  <1> DEFINE Bad == {u \in SUBSET S : SumOver(F, u) \notin Nat}
  <1> SUFFICES ASSUME Bad # {} PROVE FALSE
    OBVIOUS
  <1>0. Bad \in SUBSET (SUBSET S)
    OBVIOUS
  <1>1. PICK u \in Bad : \A w \in Bad : w \subseteq u => w = u
    <2> HIDE DEF Bad
    <2> QED
      BY <1>0, SmallestSet
  <1>2. u \in SUBSET S /\ IsFiniteSet(u) /\ SumOver(F, u) \notin Nat
    BY <1>1, FS_Subset
  <1>3. u # {}
    <2>1. SumOver(F, {}) \in Nat
      BY SumNothing
    <2> QED
      BY <1>2, <2>1
  <1>4. Picked(u) \in u
    BY <1>3, PickedIn
  <1>5. SumOver(F, u \ {Picked(u)}) \in Nat
    BY <1>1, <1>2, <1>4
  <1> QED
    BY <1>2, <1>3, <1>4, <1>5, SumStep

(* Any element may be added last.                                           *)
LEMMA SumRemove ==
  ASSUME NEW D, NEW F \in [D -> Nat], NEW S \in SUBSET D, IsFiniteSet(S), NEW y \in S
  PROVE  SumOver(F, S) = F[y] + SumOver(F, S \ {y})
  <1> DEFINE Bad == {u \in SUBSET S : \E z \in u : SumOver(F, u) # F[z] + SumOver(F, u \ {z})}
  <1> SUFFICES ASSUME Bad # {} PROVE FALSE
    OBVIOUS
  <1>0. Bad \in SUBSET (SUBSET S)
    OBVIOUS
  <1>1. PICK u \in Bad : \A w \in Bad : w \subseteq u => w = u
    <2> HIDE DEF Bad
    <2> QED
      BY <1>0, SmallestSet
  <1>2. u \in SUBSET S /\ IsFiniteSet(u)
    BY <1>1, FS_Subset
  <1>3. PICK z \in u : SumOver(F, u) # F[z] + SumOver(F, u \ {z})
    BY <1>1
  <1> DEFINE x == Picked(u)
  <1>4. x \in u
    BY <1>3, PickedIn
  <1>5. SumOver(F, u) = F[x] + SumOver(F, u \ {x})
    BY <1>2, <1>3, SumStep
  <1> HIDE DEF x
  <1>6. x # z
    BY <1>3, <1>5
  <1>7. SumOver(F, u \ {x}) = F[z] + SumOver(F, (u \ {x}) \ {z})
    <2>1. u \ {x} \notin Bad
      BY <1>1, <1>4
    <2> QED
      BY <1>2, <1>3, <1>6, <2>1
  <1>8. SumOver(F, u \ {z}) = F[x] + SumOver(F, (u \ {z}) \ {x})
    <2>1. u \ {z} \notin Bad
      BY <1>1, <1>3
    <2> QED
      BY <1>2, <1>4, <1>6, <2>1
  <1>9. (u \ {z}) \ {x} = (u \ {x}) \ {z}
    OBVIOUS
  <1> HIDE DEF Bad
  <1>10. SumOver(F, (u \ {x}) \ {z}) \in Nat /\ F[x] \in Nat /\ F[z] \in Nat
    <2>1. (u \ {x}) \ {z} \in SUBSET D /\ IsFiniteSet((u \ {x}) \ {z})
      BY <1>2, FS_Subset
    <2> QED
      BY <1>2, <1>3, <1>4, <2>1, SumIsNat
  <1>11. SumOver(F, u) = F[x] + (F[z] + SumOver(F, (u \ {x}) \ {z}))
    BY <1>5, <1>7
  <1>12. F[z] + SumOver(F, u \ {z}) = F[z] + (F[x] + SumOver(F, (u \ {x}) \ {z}))
    BY <1>8, <1>9
  <1>13. \A a, b, r \in Nat : a + (b + r) = b + (a + r)
    OBVIOUS
  <1> QED
    BY <1>3, <1>10, <1>11, <1>12, <1>13

LEMMA SumAdd ==
  ASSUME NEW D, NEW F \in [D -> Nat], NEW S \in SUBSET D, IsFiniteSet(S), NEW y \in D \ S
  PROVE  SumOver(F, S \cup {y}) = SumOver(F, S) + F[y]
  <1>1. IsFiniteSet(S \cup {y}) /\ S \cup {y} \in SUBSET D
    BY FS_AddElement
  <1>2. (S \cup {y}) \ {y} = S
    OBVIOUS
  <1>3. SumOver(F, S) \in Nat /\ F[y] \in Nat
    BY SumIsNat
  <1> QED
    BY <1>1, <1>2, <1>3, SumRemove

(* The sum over a set is that over a part of it and that over the rest.     *)
LEMMA SumSplit ==
  ASSUME NEW D, NEW F \in [D -> Nat], NEW S \in SUBSET D, IsFiniteSet(S), NEW T \in SUBSET S
  PROVE  SumOver(F, S) = SumOver(F, T) + SumOver(F, S \ T)
  <1> DEFINE Bad == {u \in SUBSET S : SumOver(F, S) # SumOver(F, u) + SumOver(F, S \ u)}
  <1> SUFFICES ASSUME Bad # {} PROVE FALSE
    OBVIOUS
  <1>0. Bad \in SUBSET (SUBSET S)
    OBVIOUS
  <1>1. PICK u \in Bad : \A w \in Bad : w \subseteq u => w = u
    <2> HIDE DEF Bad
    <2> QED
      BY <1>0, SmallestSet
  <1>2. /\ u \in SUBSET S /\ IsFiniteSet(u) /\ IsFiniteSet(S \ u)
        /\ SumOver(F, S) # SumOver(F, u) + SumOver(F, S \ u)
    BY <1>1, FS_Subset
  <1>3. u # {}
    <2>1. SumOver(F, {}) = 0
      BY SumNothing
    <2>2. S \ {} = S /\ SumOver(F, S) \in Nat
      BY SumIsNat
    <2> QED
      BY <1>2, <2>1, <2>2
  <1>4. PICK y \in u : TRUE
    BY <1>3
  <1> DEFINE v == u \ {y}
  <1>5. v \in SUBSET S /\ SumOver(F, S) = SumOver(F, v) + SumOver(F, S \ v)
    BY <1>1, <1>2, <1>4
  <1>6. SumOver(F, u) = F[y] + SumOver(F, v)
    BY <1>2, <1>4, SumRemove
  <1>7. S \ v = (S \ u) \cup {y} /\ y \in D \ (S \ u) /\ S \ u \in SUBSET D
    BY <1>2, <1>4
  <1>8. SumOver(F, S \ v) = SumOver(F, S \ u) + F[y]
    BY <1>2, <1>7, SumAdd
  <1>9. SumOver(F, v) \in Nat /\ SumOver(F, S \ u) \in Nat /\ F[y] \in Nat
    <2>1. v \in SUBSET D /\ IsFiniteSet(v)
      BY <1>2, FS_Subset
    <2> QED
      BY <1>2, <1>4, <1>7, <2>1, SumIsNat
  <1> HIDE DEF v
  <1> QED
    BY <1>2, <1>5, <1>6, <1>8, <1>9

-----------------------------------------------------------------------------
(* The counters.  In every scope they are what Counted says of the rows and *)
(* the reservations there, which are finitely many: those of uploads that   *)
(* have begun.                                                              *)

Counted(u, R, V) ==
  /\ u.bytes = SumOver(Size, R) + SumOver(Reserve, V)
  /\ u.objects = Cardinality(R) + Cardinality(V)

Begun == {f \in File : upload[f] # "new"}

CountersOK ==
  /\ used \in [Scope -> Usage]
  /\ IsFiniteSet(Begun)
  /\ \A f \in File : /\ upload[f] = "new" => reserved[f] = 0
                     /\ rows[f].owner = Uploader[f]
  /\ \A s \in Scope : Counted(used[s], RowsIn(s), ReservationsIn(s))

\* The types that the counters are independent of.
RestOK ==
  /\ active \subseteq Account
  /\ staged \subseteq File
  /\ expired \in [Recoverer -> SUBSET File]
  /\ faults \in Nat

CInv == CountersOK /\ RestOK

LEMMA SizesAre == /\ Size \in [File -> Nat] /\ Reserve \in [File -> Nat]
                  /\ \A f \in File : Size[f] \in Nat /\ Reserve[f] \in Nat /\ Size[f] <= Reserve[f]
  BY FilesAssumption

(* What a set of rows R and of reservations V add up to, and what is left   *)
(* of it when one comes, goes or becomes the other.                         *)
LEMMA CountedUsage ==
  ASSUME NEW R \in SUBSET File, NEW V \in SUBSET File, IsFiniteSet(R), IsFiniteSet(V)
  PROVE  /\ SumOver(Size, R) \in Nat /\ SumOver(Reserve, V) \in Nat
         /\ Cardinality(R) \in Nat /\ Cardinality(V) \in Nat
  <1>1. SumOver(Size, R) \in Nat
    BY SizesAre, SumIsNat
  <1>2. SumOver(Reserve, V) \in Nat
    BY SizesAre, SumIsNat
  <1> QED
    BY <1>1, <1>2, FS_CardinalityType

LEMMA CountReservation ==
  ASSUME NEW R \in SUBSET File, NEW V \in SUBSET File, IsFiniteSet(R), IsFiniteSet(V),
         NEW u \in Usage, Counted(u, R, V), NEW f \in File \ V
  PROVE  LET w == [bytes |-> u.bytes + Reserve[f], objects |-> u.objects + 1]
         IN  w \in Usage /\ Counted(w, R, V \cup {f})
  <1>1. SumOver(Reserve, V \cup {f}) = SumOver(Reserve, V) + Reserve[f]
    BY SizesAre, SumAdd
  <1>2. Cardinality(V \cup {f}) = Cardinality(V) + 1
    BY FS_AddElement
  <1> QED
    BY <1>1, <1>2, CountedUsage, SizesAre DEF Counted, Usage

LEMMA CountCommit ==
  ASSUME NEW R \in SUBSET File, NEW V \in SUBSET File, IsFiniteSet(R), IsFiniteSet(V),
         NEW u \in Usage, Counted(u, R, V), NEW f \in V, f \notin R
  PROVE  LET w == Less(u, [bytes |-> Reserve[f] - Size[f], objects |-> 0])
         IN  w \in Usage /\ Counted(w, R \cup {f}, V \ {f})
  <1>1. SumOver(Size, R \cup {f}) = SumOver(Size, R) + Size[f]
    BY SizesAre, SumAdd
  <1>2. SumOver(Reserve, V) = Reserve[f] + SumOver(Reserve, V \ {f})
    BY SizesAre, SumRemove
  <1>3. Cardinality(R \cup {f}) = Cardinality(R) + 1 /\ Cardinality(V \ {f}) = Cardinality(V) - 1
    BY FS_AddElement, FS_RemoveElement
  <1>4. V \ {f} \in SUBSET File /\ IsFiniteSet(V \ {f})
    BY FS_RemoveElement
  <1>5. SumOver(Reserve, V \ {f}) \in Nat
    BY <1>4, CountedUsage
  <1>6. Reserve[f] \in Nat /\ Size[f] \in Nat /\ Size[f] <= Reserve[f]
    BY SizesAre
  <1> QED
    BY <1>1, <1>2, <1>3, <1>5, <1>6, CountedUsage DEF Counted, Usage, Less

LEMMA CountRelease ==
  ASSUME NEW R \in SUBSET File, NEW V \in SUBSET File, IsFiniteSet(R), IsFiniteSet(V),
         NEW u \in Usage, Counted(u, R, V), NEW f \in V
  PROVE  LET w == Less(u, [bytes |-> Reserve[f], objects |-> 1])
         IN  w \in Usage /\ Counted(w, R, V \ {f})
  <1>2. SumOver(Reserve, V) = Reserve[f] + SumOver(Reserve, V \ {f})
    BY SizesAre, SumRemove
  <1>4. V \ {f} \in SUBSET File /\ IsFiniteSet(V \ {f}) /\ Cardinality(V \ {f}) = Cardinality(V) - 1
    BY FS_RemoveElement
  <1>5. SumOver(Reserve, V \ {f}) \in Nat /\ Cardinality(V \ {f}) \in Nat
    BY <1>4, CountedUsage
  <1>6. Reserve[f] \in Nat
    BY SizesAre
  <1> QED
    BY <1>2, <1>4, <1>5, <1>6, CountedUsage DEF Counted, Usage, Less

LEMMA CountRemoval ==
  ASSUME NEW R \in SUBSET File, NEW V \in SUBSET File, IsFiniteSet(R), IsFiniteSet(V),
         NEW u \in Usage, Counted(u, R, V), NEW f \in R
  PROVE  LET w == Less(u, [bytes |-> Size[f], objects |-> 1])
         IN  w \in Usage /\ Counted(w, R \ {f}, V)
  <1>2. SumOver(Size, R) = Size[f] + SumOver(Size, R \ {f})
    BY SizesAre, SumRemove
  <1>4. R \ {f} \in SUBSET File /\ IsFiniteSet(R \ {f}) /\ Cardinality(R \ {f}) = Cardinality(R) - 1
    BY FS_RemoveElement
  <1>5. SumOver(Size, R \ {f}) \in Nat /\ Cardinality(R \ {f}) \in Nat
    BY <1>4, CountedUsage
  <1>6. Size[f] \in Nat
    BY SizesAre
  <1> QED
    BY <1>2, <1>4, <1>5, <1>6, CountedUsage DEF Counted, Usage, Less

LEMMA CountFreed ==
  ASSUME NEW R \in SUBSET File, NEW V \in SUBSET File, IsFiniteSet(R), IsFiniteSet(V),
         NEW u \in Usage, Counted(u, R, V), NEW T \in SUBSET V
  PROVE  LET w == Less(u, [bytes |-> SumOver(Reserve, T), objects |-> Cardinality(T)])
         IN  w \in Usage /\ Counted(w, R, V \ T)
  <1>1. IsFiniteSet(T) /\ T \in SUBSET File /\ IsFiniteSet(V \ T) /\ V \ T \in SUBSET File
    BY FS_Subset
  <1>2. SumOver(Reserve, V) = SumOver(Reserve, T) + SumOver(Reserve, V \ T)
    BY SizesAre, SumSplit
  <1>3. Cardinality(V \ T) = Cardinality(V) - Cardinality(T)
    <2>1. V \cap T = T
      OBVIOUS
    <2> QED
      BY <2>1, FS_Difference
  <1>4. /\ SumOver(Reserve, V \ T) \in Nat /\ Cardinality(V \ T) \in Nat
        /\ SumOver(Reserve, T) \in Nat /\ Cardinality(T) \in Nat
    BY <1>1, CountedUsage
  <1> QED
    BY <1>2, <1>3, <1>4, CountedUsage DEF Counted, Usage, Less

-----------------------------------------------------------------------------
LEMMA CountedSets ==
  ASSUME FInv, CountersOK, NEW s \in Scope
  PROVE  /\ RowsIn(s) \in SUBSET File /\ IsFiniteSet(RowsIn(s))
         /\ ReservationsIn(s) \in SUBSET File /\ IsFiniteSet(ReservationsIn(s))
         /\ used[s] \in Usage /\ Counted(used[s], RowsIn(s), ReservationsIn(s))
  <1>1. RowsIn(s) \in SUBSET Begun /\ ReservationsIn(s) \in SUBSET Begun
    BY DEF RowsIn, ReservationsIn, Begun, FInv, UploadsOK, UploadOK, CountersOK
  <1>2. IsFiniteSet(Begun) /\ Begun \in SUBSET File
    BY DEF CountersOK, Begun
  <1> QED
    BY <1>1, <1>2, FS_Subset DEF CountersOK

\* A step that neither brings nor takes a row or a reservation.
SameCount(f) ==
  /\ rows'[f].state = "none" <=> rows[f].state = "none"
  /\ rows'[f].owner = rows[f].owner
  /\ reserved'[f] = 0 <=> reserved[f] = 0
  /\ upload'[f] = "new" <=> upload[f] = "new"

LEMMA CountersKept ==
  ASSUME FInv, CountersOK, used' = used, \A f \in File : SameCount(f)
  PROVE  CountersOK'
  <1>1. Begun' = Begun
    BY DEF Begun, SameCount
  <1>2. \A s \in Scope : RowsIn(s)' = RowsIn(s) /\ ReservationsIn(s)' = ReservationsIn(s)
    BY DEF RowsIn, ReservationsIn, SameCount
  <1>3. \A f \in File : /\ upload'[f] = "new" => reserved'[f] = 0
                        /\ rows'[f].owner = Uploader[f]
    BY DEF CountersOK, SameCount
  <1> QED
    BY <1>1, <1>2, <1>3 DEF CountersOK


\* A step of one file, which changes the counters of its account and of all.
Changed(f, w) ==
  used' = [s \in Scope |-> IF s \in {"global", Uploader[f]} THEN w[s] ELSE used[s]]

LEMMA ScopesOf == \A f \in File : "global" \in Scope /\ Uploader[f] \in Scope
  BY FilesAssumption DEF Scope

LEMMA CountersChange ==
  ASSUME FInv, CountersOK, NEW f \in File, \A g \in File \ {f} : SameCount(g),
         upload'[f] # "new", upload' \in [File -> UploadStage],
         rows'[f].owner = Uploader[f], NEW w, Changed(f, w),
         \A s \in {"global", Uploader[f]} :
           w[s] \in Usage /\ Counted(w[s], RowsIn(s)', ReservationsIn(s)')
  PROVE  CountersOK'
  <1>1. IsFiniteSet(Begun')
    <2>1. Begun' = Begun \cup {f}
      BY DEF Begun, SameCount
    <2> QED
      BY <2>1, FS_AddElement DEF CountersOK
  <1>2. \A g \in File : /\ upload'[g] = "new" => reserved'[g] = 0
                        /\ rows'[g].owner = Uploader[g]
    BY DEF CountersOK, SameCount
  <1>3. used' \in [Scope -> Usage]
    BY ScopesOf DEF Changed, CountersOK
  <1>4. ASSUME NEW s \in Scope PROVE Counted(used'[s], RowsIn(s)', ReservationsIn(s)')
    <2>1. CASE s \in {"global", Uploader[f]}
      BY <2>1 DEF Changed
    <2>2. CASE s \notin {"global", Uploader[f]}
      <3>1. RowsIn(s)' = RowsIn(s) /\ ReservationsIn(s)' = ReservationsIn(s)
        BY <1>2, <2>2 DEF RowsIn, ReservationsIn, SameCount, CountersOK
      <3>2. used'[s] = used[s]
        BY <2>2 DEF Changed
      <3> QED
        BY <3>1, <3>2 DEF CountersOK
    <2> QED
      BY <2>1, <2>2
  <1> QED
    BY <1>1, <1>2, <1>3, <1>4 DEF CountersOK

LEMMA ReserveCapacityCounts ==
  ASSUME FInv, CountersOK, NEW f \in File, ReserveCapacity(f) PROVE CountersOK'
  <1>1. /\ upload[f] = "new" /\ reserved[f] = 0 /\ rows[f].owner = Uploader[f]
        /\ rows' = rows /\ upload' = [upload EXCEPT ![f] = "reserved"]
        /\ reserved' = [reserved EXCEPT ![f] = now + ReservationTTL]
        /\ upload \in [File -> UploadStage] /\ reserved \in [File -> Nat]
    BY DEF ReserveCapacity, Goes, CountersOK, FInv, TablesOK
  <1>2. now + ReservationTTL # 0
    BY TimeIsNat, FilesAssumption DEF FInv, TablesOK
  <1> DEFINE w == [s \in Scope |-> [bytes |-> used[s].bytes + Reserve[f],
                                    objects |-> used[s].objects + 1]]
  <1>3. Changed(f, w)
    BY DEF ReserveCapacity, Charge, Changed
  <1>4. \A g \in File \ {f} : SameCount(g)
    BY <1>1 DEF SameCount
  <1>5. ASSUME NEW s \in {"global", Uploader[f]}
        PROVE  w[s] \in Usage /\ Counted(w[s], RowsIn(s)', ReservationsIn(s)')
    <2>1. s \in Scope
      BY ScopesOf
    <2>2. RowsIn(s)' = RowsIn(s)
      BY <1>1 DEF RowsIn
    <2>3. ReservationsIn(s)' = ReservationsIn(s) \cup {f} /\ f \in File \ ReservationsIn(s)
      BY <1>1, <1>2 DEF ReservationsIn
    <2>4. w[s] = [bytes |-> used[s].bytes + Reserve[f], objects |-> used[s].objects + 1]
      BY <2>1
    <2> QED
      BY <2>1, <2>2, <2>3, <2>4, CountedSets, CountReservation
  <1> HIDE DEF w
  <1>6. upload'[f] # "new" /\ upload' \in [File -> UploadStage] /\ rows'[f].owner = Uploader[f]
    BY <1>1 DEF UploadStage
  <1> QED
    BY <1>3, <1>4, <1>5, <1>6, CountersChange

LEMMA CommitUploadCounts ==
  ASSUME FInv, CountersOK, NEW f \in File, CommitUpload(f) PROVE CountersOK'
  <1> DEFINE row == [state |-> "pending", owner |-> Uploader[f], claimedBy |-> Uploading,
                     until |-> reserved[f], updated |-> reserved[f] - ReservationTTL]
             b == Reserve[f] - Size[f]
             w == [s \in Scope |-> Less(used[s], [bytes |-> b, objects |-> 0])]
  <1>1. /\ upload[f] = "staged" /\ reserved[f] # 0 /\ rows[f].state = "none"
        /\ rows' = [rows EXCEPT ![f] = row] /\ upload' = [upload EXCEPT ![f] = "committed"]
        /\ reserved' = [reserved EXCEPT ![f] = 0]
        /\ upload \in [File -> UploadStage] /\ reserved \in [File -> Nat] /\ rows \in [File -> Row]
    BY DEF CommitUpload, Goes, FInv, TablesOK, UploadsOK, UploadOK
  <1>2. Changed(f, w)
    <2> HIDE DEF b
    <2>1. Refund(Uploader[f], b, 0)
      BY DEF CommitUpload, b
    <2> QED
      BY <2>1 DEF Refund, Changed
  <1>3. rows'[f] = row /\ row.state = "pending" /\ row.owner = Uploader[f]
    BY <1>1
  <1> HIDE DEF row, w
  <1>4. \A g \in File \ {f} : SameCount(g)
    BY <1>1 DEF SameCount
  <1>5. ASSUME NEW s \in {"global", Uploader[f]}
        PROVE  w[s] \in Usage /\ Counted(w[s], RowsIn(s)', ReservationsIn(s)')
    <2>1. s \in Scope
      BY ScopesOf
    <2>2. RowsIn(s)' = RowsIn(s) \cup {f} /\ f \notin RowsIn(s)
      BY <1>1, <1>3 DEF RowsIn
    <2>3. ReservationsIn(s)' = ReservationsIn(s) \ {f} /\ f \in ReservationsIn(s)
      BY <1>1 DEF ReservationsIn
    <2>4. w[s] = Less(used[s], [bytes |-> Reserve[f] - Size[f], objects |-> 0])
      BY <2>1 DEF w
    <2> QED
      BY <2>1, <2>2, <2>3, <2>4, CountedSets, CountCommit
  <1>6. upload'[f] # "new" /\ upload' \in [File -> UploadStage] /\ rows'[f].owner = Uploader[f]
    BY <1>1, <1>3 DEF UploadStage
  <1> QED
    BY <1>2, <1>4, <1>5, <1>6, CountersChange

LEMMA ReleaseReservationCounts ==
  ASSUME FInv, CountersOK, NEW f \in File, ReleaseReservation(f) PROVE CountersOK'
  <1>1. /\ upload[f] = "releasing" /\ upload' = [upload EXCEPT ![f] = "failed"] /\ rows' = rows
        /\ upload \in [File -> UploadStage] /\ reserved \in [File -> Nat]
    BY DEF ReleaseReservation, Goes, FInv, TablesOK
  <1>2. CASE reserved[f] = 0
    <2>1. used' = used /\ reserved' = reserved
      BY <1>2 DEF ReleaseReservation
    <2> QED
      BY <1>1, <2>1, CountersKept DEF SameCount
  <1>3. CASE reserved[f] # 0
    <2> DEFINE w == [s \in Scope |-> Less(used[s], [bytes |-> Reserve[f], objects |-> 1])]
    <2>1. Changed(f, w) /\ reserved' = [reserved EXCEPT ![f] = 0]
      BY <1>3 DEF ReleaseReservation, Refund, Changed
    <2>2. \A g \in File \ {f} : SameCount(g)
      BY <1>1, <2>1 DEF SameCount
    <2>3. ASSUME NEW s \in {"global", Uploader[f]}
          PROVE  w[s] \in Usage /\ Counted(w[s], RowsIn(s)', ReservationsIn(s)')
      <3>1. s \in Scope
        BY ScopesOf
      <3>2. RowsIn(s)' = RowsIn(s)
        BY <1>1 DEF RowsIn
      <3>3. ReservationsIn(s)' = ReservationsIn(s) \ {f} /\ f \in ReservationsIn(s)
        BY <1>1, <1>3, <2>1 DEF ReservationsIn
      <3>4. w[s] = Less(used[s], [bytes |-> Reserve[f], objects |-> 1])
        BY <3>1
      <3> QED
        BY <3>1, <3>2, <3>3, <3>4, CountedSets, CountRelease
    <2> HIDE DEF w
    <2>4. upload'[f] # "new" /\ upload' \in [File -> UploadStage] /\ rows'[f].owner = Uploader[f]
      BY <1>1 DEF UploadStage, CountersOK
    <2> QED
      BY <2>1, <2>2, <2>3, <2>4, CountersChange
  <1> QED
    BY <1>2, <1>3

LEMMA RemoveRowCounts ==
  ASSUME FInv, CountersOK, NEW f \in File, rows[f].state # "none", RemoveRow(f),
         reserved' = reserved, upload' = upload
  PROVE  CountersOK'
  <1> DEFINE w == [s \in Scope |-> Less(used[s], [bytes |-> Size[f], objects |-> 1])]
  <1>1. /\ rows' = [rows EXCEPT ![f] = NoRow(f)] /\ rows \in [File -> Row]
        /\ upload \in [File -> UploadStage]
        /\ rows[f].owner = Uploader[f] /\ upload[f] # "new"
    BY DEF RemoveRow, FInv, TablesOK, UploadsOK, UploadOK, CountersOK
  <1>2. rows'[f].state = "none" /\ rows'[f].owner = Uploader[f]
    BY <1>1 DEF NoRow
  <1>3. Changed(f, w)
    BY <1>1 DEF RemoveRow, Refund, Changed
  <1> HIDE DEF w
  <1>4. \A g \in File \ {f} : SameCount(g)
    BY <1>1 DEF SameCount
  <1>5. ASSUME NEW s \in {"global", Uploader[f]}
        PROVE  w[s] \in Usage /\ Counted(w[s], RowsIn(s)', ReservationsIn(s)')
    <2>1. s \in Scope
      BY ScopesOf
    <2>2. RowsIn(s)' = RowsIn(s) \ {f} /\ f \in RowsIn(s)
      BY <1>1, <1>2 DEF RowsIn
    <2>3. ReservationsIn(s)' = ReservationsIn(s)
      BY DEF ReservationsIn
    <2>4. w[s] = Less(used[s], [bytes |-> Size[f], objects |-> 1])
      BY <2>1 DEF w
    <2>5. /\ RowsIn(s) \in SUBSET File /\ IsFiniteSet(RowsIn(s))
          /\ ReservationsIn(s) \in SUBSET File /\ IsFiniteSet(ReservationsIn(s))
          /\ used[s] \in Usage /\ Counted(used[s], RowsIn(s), ReservationsIn(s))
      BY <2>1, CountedSets
    <2> QED
      BY <2>2, <2>3, <2>4, <2>5, CountRemoval
  <1> QED
    BY <1>1, <1>2, <1>3, <1>4, <1>5, CountersChange

LEMMA FreedUsageIs ==
  ASSUME NEW T, NEW s
  PROVE  FreedUsage(T, s) = [bytes |-> SumOver(Reserve, Freed(T, s)),
                             objects |-> Cardinality(Freed(T, s))]
  BY DEF FreedUsage, SumOver

LEMMA ClaimRecoveryCounts ==
  ASSUME FInv, CountersOK, NEW r \in Recoverer, ClaimRecovery(r) PROVE CountersOK'
  <1> DEFINE freed == ExpiredReservations(since[r])
             claimed == ClaimableRows(since[r])
  <1>1. /\ used' = [s \in Scope |-> Less(used[s], FreedUsage(freed, s))]
        /\ reserved' = [f \in File |-> IF f \in freed THEN 0 ELSE reserved[f]]
        /\ rows' = [f \in File |->
                      IF f \in claimed
                        THEN [rows[f] EXCEPT !.claimedBy = r, !.until = since[r] + RecoveryLease]
                        ELSE rows[f]]
        /\ upload' = upload /\ rows \in [File -> Row]
    BY DEF ClaimRecovery, uploadVars, FInv, TablesOK
  <1>2. \A f \in freed : f \in File /\ reserved[f] # 0
    BY DEF ExpiredReservations, Oldest
  <1> HIDE DEF freed, claimed
  <1>3. ASSUME NEW f \in File PROVE rows'[f].state = rows[f].state /\ rows'[f].owner = rows[f].owner
    <2>1. CASE f \in claimed
      <3>1. rows'[f] = [rows[f] EXCEPT !.claimedBy = r, !.until = since[r] + RecoveryLease]
        BY <1>1, <2>1
      <3>2. rows[f] \in Row
        BY <1>1
      <3> QED
        BY <3>1, <3>2 DEF Row
    <2>2. CASE f \notin claimed
      BY <1>1, <2>2
    <2> QED
      BY <2>1, <2>2
  <1>4. ASSUME NEW s \in Scope PROVE used'[s] \in Usage /\ Counted(used'[s], RowsIn(s)', ReservationsIn(s)')
    <2> DEFINE T == Freed(freed, s)
    <2>1. RowsIn(s)' = RowsIn(s)
      BY <1>3 DEF RowsIn
    <2>2. T \in SUBSET ReservationsIn(s) /\ ReservationsIn(s)' = ReservationsIn(s) \ T
      BY <1>1, <1>2 DEF ReservationsIn, Freed
    <2>3. used'[s] = Less(used[s], [bytes |-> SumOver(Reserve, T), objects |-> Cardinality(T)])
      BY <1>1, FreedUsageIs
    <2> HIDE DEF T
    <2>4. /\ RowsIn(s) \in SUBSET File /\ IsFiniteSet(RowsIn(s))
          /\ ReservationsIn(s) \in SUBSET File /\ IsFiniteSet(ReservationsIn(s))
          /\ used[s] \in Usage /\ Counted(used[s], RowsIn(s), ReservationsIn(s))
      BY CountedSets
    <2> QED
      BY <2>1, <2>2, <2>3, <2>4, CountFreed
  <1>5. Begun' = Begun
    BY <1>1 DEF Begun
  <1>6. \A f \in File : /\ upload'[f] = "new" => reserved'[f] = 0
                        /\ rows'[f].owner = Uploader[f]
    BY <1>1, <1>3 DEF CountersOK
  <1>7. used' \in [Scope -> Usage]
    BY <1>1, <1>4
  <1> QED
    BY <1>4, <1>5, <1>6, <1>7 DEF CountersOK

LEMMA RowKept ==
  ASSUME FInv, CountersOK, NEW f \in File, rows[f].state # "none",
         NEW row, row.state # "none", row.owner = rows[f].owner, rows' = [rows EXCEPT ![f] = row],
         UNCHANGED <<reserved, used>>,
         \A g \in File : upload'[g] = "new" <=> upload[g] = "new"
  PROVE  CountersOK'
  <1>1. rows \in [File -> Row]
    BY DEF FInv, TablesOK
  <1>2. \A g \in File : SameCount(g)
    BY <1>1 DEF SameCount
  <1> QED
    BY <1>2, CountersKept

LEMMA UploadKept ==
  ASSUME FInv, CountersOK, NEW f \in File, upload[f] # "new", NEW s, s # "new",
         upload' = [upload EXCEPT ![f] = s], UNCHANGED <<rows, reserved, used>>
  PROVE  CountersOK'
  <1>1. upload \in [File -> UploadStage]
    BY DEF FInv, TablesOK
  <1>2. \A g \in File : SameCount(g)
    BY <1>1 DEF SameCount
  <1> QED
    BY <1>2, CountersKept

LEMMA UploadStepCounts ==
  ASSUME FInv, CountersOK, NEW f \in File, UploadStep(f) \/ UploadDies(f) PROVE CountersOK'
  <1>1. CASE MarkReady(f) \/ YieldClaim(f)
    <2>1. /\ rows \in [File -> Row] /\ upload \in [File -> UploadStage]
          /\ upload[f] # "new" /\ UNCHANGED <<reserved, used>>
          /\ \E s \in {"done", "failed"} : upload' = [upload EXCEPT ![f] = s]
      BY <1>1 DEF MarkReady, YieldClaim, Goes, FInv, TablesOK
    <2>2. \A g \in File : upload'[g] = "new" <=> upload[g] = "new"
      BY <2>1
    <2>3. CASE rows' = rows
      BY <2>1, <2>2, <2>3, CountersKept DEF SameCount
    <2>4. CASE rows' # rows
      <3>1. rows[f].state = "pending"
        BY <1>1, <2>4 DEF MarkReady, YieldClaim
      <3>2. PICK row : /\ row.state # "none" /\ row.owner = rows[f].owner
                       /\ rows' = [rows EXCEPT ![f] = row]
        <4>1. CASE MarkReady(f)
          <5> DEFINE row == [rows[f] EXCEPT !.state = "ready", !.claimedBy = Nobody,
                                            !.until = 0, !.updated = now]
          <5>1. rows' = [rows EXCEPT ![f] = row]
            BY <2>1, <4>1 DEF MarkReady
          <5>2. row.state # "none" /\ row.owner = rows[f].owner
            BY <2>1 DEF Row
          <5> QED
            BY <5>1, <5>2
        <4>2. CASE YieldClaim(f)
          <5> DEFINE row == [rows[f] EXCEPT !.claimedBy = Nobody, !.until = 0]
          <5>1. rows' = [rows EXCEPT ![f] = row]
            BY <2>1, <2>4, <4>2 DEF YieldClaim
          <5>2. row.state # "none" /\ row.owner = rows[f].owner
            BY <2>1, <3>1 DEF Row
          <5> QED
            BY <5>1, <5>2
        <4> QED
          BY <1>1, <4>1, <4>2
      <3> QED
        BY <2>1, <2>2, <3>1, <3>2, RowKept
    <2> QED
      BY <2>3, <2>4
  <1>2. CASE StageContent(f) \/ LinkObject(f) \/ UnlinkStage(f) \/ SyncFails(f) \/ AbortUpload(f)
             \/ UploadFails(f) \/ UploadDies(f)
    <2>1. /\ upload[f] # "new" /\ UNCHANGED <<rows, reserved, used>>
          /\ \E s \in {"staged", "linked", "published", "yielding", "releasing", "aborting", "failed"} :
               upload' = [upload EXCEPT ![f] = s]
      BY <1>2 DEF StageContent, LinkObject, UnlinkStage, SyncFails, AbortUpload, UploadFails,
                  UploadDies, Goes, tableVars
    <2> QED
      BY <2>1, UploadKept
  <1> QED
    BY <1>1, <1>2, CommitUploadCounts, ReleaseReservationCounts DEF UploadStep

LEMMA DeletionCounts ==
  ASSUME FInv, CountersOK, NEW f \in File, MarkDeleting(f) \/ DeletionStep(f) PROVE CountersOK'
  <1>1. CASE MarkDeleting(f)
    <2> DEFINE row == [rows[f] EXCEPT !.state = "deleting", !.updated = now]
    <2>1. /\ rows[f].state = "ready" /\ rows' = [rows EXCEPT ![f] = row]
          /\ rows \in [File -> Row] /\ UNCHANGED <<reserved, used, upload>>
      BY <1>1 DEF MarkDeleting, uploadVars, FInv, TablesOK
    <2>2. row.state # "none" /\ row.owner = rows[f].owner
      BY <2>1 DEF Row
    <2> HIDE DEF row
    <2> QED
      BY <2>1, <2>2, RowKept
  <1>2. CASE RemoveDeleting(f)
    BY <1>2, RemoveRowCounts DEF RemoveDeleting, uploadVars
  <1>3. CASE DeleteObject(f) \/ DeletionEnds(f)
    <2>1. UNCHANGED <<rows, reserved, used, upload>>
      BY <1>3 DEF DeleteObject, DeletionEnds, uploadVars, tableVars
    <2> QED
      BY <2>1, CountersKept DEF SameCount
  <1> QED
    BY <1>1, <1>2, <1>3 DEF DeletionStep

LEMMA RepairStepCounts ==
  ASSUME FInv, CountersOK, NEW r \in Recoverer, NEW c \in batch[r], RepairStep(r, c)
  PROVE  CountersOK'
  <1>1. c.file \in File /\ c.state \in {"pending", "deleting"}
    BY DEF FInv, PassesOK, Record
  <1>2. CASE FinishReady(r, c)
    <2> DEFINE f == c.file
               row == [rows[f] EXCEPT !.state = "ready", !.claimedBy = Nobody,
                                      !.until = 0, !.updated = now]
    <2>1. /\ rows[f].state # "none" /\ rows' = [rows EXCEPT ![f] = row]
          /\ rows \in [File -> Row] /\ UNCHANGED <<reserved, used, upload>>
      BY <1>1, <1>2 DEF FinishReady, StillClaimed, uploadVars, FInv, TablesOK
    <2>2. row.state # "none" /\ row.owner = rows[f].owner
      BY <1>1, <2>1 DEF Row
    <2> HIDE DEF row
    <2> QED
      BY <1>1, <2>1, <2>2, RowKept
  <1>3. CASE RemoveClaimed(r, c)
    <2>1. /\ rows[c.file].state # "none" /\ RemoveRow(c.file) /\ reserved' = reserved
          /\ upload' = upload
      BY <1>1, <1>3 DEF RemoveClaimed, StillClaimed, uploadVars
    <2> QED
      BY <1>1, <2>1, RemoveRowCounts
  <1>4. CASE LookForObject(r, c) \/ LookForStage(r, c) \/ RepairLink(r, c) \/ RepairUnlink(r, c)
             \/ RepairAbort(r, c) \/ RepairDelete(r, c) \/ RepairFails(r, c)
    <2>1. UNCHANGED <<rows, reserved, used, upload>>
      BY <1>4 DEF LookForObject, LookForStage, RepairLink, RepairUnlink, RepairAbort,
                  RepairDelete, RepairFails, uploadVars, tableVars
    <2> QED
      BY <2>1, CountersKept DEF SameCount
  <1> QED
    BY <1>2, <1>3, <1>4 DEF RepairStep

LEMMA CountersStep ==
  ASSUME FInv, CountersOK, [FilesNext]_vars PROVE CountersOK'
  <1>1. CASE UNCHANGED <<rows, reserved, used, upload>>
    BY <1>1, CountersKept DEF SameCount
  <1>2. ASSUME \/ Tick
               \/ \E a \in Account : SetActive(a)
               \/ \E r \in Recoverer :
                    \/ BeginPass(r)
                    \/ \E f \in expired[r] : AbortStage(r, f)
                    \/ PassDies(r)
                    \/ \E c \in batch[r] : RepairSyncFails(r, c)
               \/ UNCHANGED vars
        PROVE  UNCHANGED <<rows, reserved, used, upload>>
    BY <1>2 DEF Tick, SetActive, BeginPass, AbortStage, PassDies, RepairSyncFails, vars,
                uploadVars, tableVars
  <1>3. ASSUME NEW f \in File, ReserveCapacity(f) PROVE CountersOK'
    BY <1>3, ReserveCapacityCounts
  <1>4. ASSUME NEW f \in File, UploadStep(f) \/ UploadDies(f) PROVE CountersOK'
    BY <1>4, UploadStepCounts
  <1>5. ASSUME NEW f \in File, MarkDeleting(f) \/ DeletionStep(f) PROVE CountersOK'
    BY <1>5, DeletionCounts
  <1>6. ASSUME NEW r \in Recoverer, ClaimRecovery(r) PROVE CountersOK'
    BY <1>6, ClaimRecoveryCounts
  <1>7. ASSUME NEW r \in Recoverer, NEW c \in batch[r], RepairStep(r, c) PROVE CountersOK'
    BY <1>7, RepairStepCounts
  <1> QED
    BY <1>1, <1>2, <1>3, <1>4, <1>5, <1>6, <1>7 DEF FilesNext, PassStep

LEMMA CountersInit == FilesInit => CountersOK
  <1> SUFFICES ASSUME FilesInit PROVE CountersOK
    OBVIOUS
  <1>1. Begun = {} /\ \A s \in Scope : RowsIn(s) = {} /\ ReservationsIn(s) = {}
    BY DEF FilesInit, Begun, RowsIn, ReservationsIn, NoRow
  <1>2. \A s \in Scope : used[s] = [bytes |-> 0, objects |-> 0]
    BY DEF FilesInit, NoUsage
  <1>3. /\ IsFiniteSet({}) /\ Cardinality({}) = 0
        /\ SumOver(Size, {}) = 0 /\ SumOver(Reserve, {}) = 0
    BY FS_EmptySet, SumNothing
  <1>4. \A s \in Scope : Counted(used[s], RowsIn(s), ReservationsIn(s))
    BY <1>1, <1>2, <1>3 DEF Counted
  <1>5. used \in [Scope -> Usage]
    BY DEF FilesInit, NoUsage, Usage
  <1> QED
    BY <1>1, <1>3, <1>4, <1>5 DEF CountersOK, FilesInit, NoRow

LEMMA RestStep ==
  ASSUME FInv, RestOK, [FilesNext]_vars PROVE RestOK'
  <1>1. ASSUME UNCHANGED <<active, staged, expired, faults>> PROVE RestOK'
    BY <1>1 DEF RestOK
  <1>2. ASSUME NEW r \in Recoverer, EndPass(r) PROVE expired' \in [Recoverer -> SUBSET File]
    BY <1>2 DEF EndPass, RestOK
  <1>3. ASSUME NEW f \in File, UploadStep(f) \/ UploadDies(f) PROVE RestOK'
    <2>1. UNCHANGED <<active, expired, faults>> /\ staged' \in SUBSET (staged \cup {f})
      BY <1>3 DEF UploadStep, UploadDies, StageContent, CommitUpload, LinkObject, UnlinkStage,
                  MarkReady, UploadFails, SyncFails, AbortUpload, ReleaseReservation, YieldClaim,
                  passVars, storeVars
    <2> QED
      BY <2>1 DEF RestOK
  <1>4. ASSUME NEW f \in File, ReserveCapacity(f) \/ MarkDeleting(f) \/ DeletionStep(f)
        PROVE  RestOK'
    <2>1. UNCHANGED <<active, staged, expired, faults>>
      BY <1>4 DEF ReserveCapacity, MarkDeleting, DeletionStep, DeleteObject, RemoveDeleting,
                  DeletionEnds, passVars, storeVars
    <2> QED
      BY <1>1, <2>1
  <1>5. ASSUME NEW r \in Recoverer, BeginPass(r) PROVE RestOK'
    <2>1. ExpiredReservations(now) \in SUBSET File
      BY DEF ExpiredReservations, Oldest
    <2> QED
      BY <1>5, <2>1 DEF BeginPass, storeVars, RestOK
  <1>6. ASSUME NEW r \in Recoverer, NEW f \in expired[r], AbortStage(r, f) PROVE RestOK'
    BY <1>6 DEF AbortStage, RestOK
  <1>7. ASSUME NEW r \in Recoverer, ClaimRecovery(r) PROVE RestOK'
    BY <1>2, <1>7 DEF ClaimRecovery, storeVars, RestOK
  <1>8. ASSUME NEW r \in Recoverer, NEW c \in batch[r], RepairStep(r, c) PROVE RestOK'
    <2>1. /\ UNCHANGED <<active, faults>> /\ staged' \in SUBSET staged
          /\ expired' = expired \/ EndPass(r)
      BY <1>8 DEF RepairStep, LookForObject, LookForStage, RepairLink, RepairUnlink, RepairAbort,
                  RepairDelete, FinishReady, RemoveClaimed, RepairFails, NextRecord, storeVars
    <2> QED
      BY <1>2, <2>1 DEF RestOK
  <1>9. ASSUME NEW r \in Recoverer, PassDies(r) \/ \E c \in batch[r] : RepairSyncFails(r, c)
        PROVE  RestOK'
    <2>1. UNCHANGED <<active, staged>> /\ faults' = faults + 1 /\ EndPass(r)
      BY <1>9 DEF PassDies, RepairSyncFails, storeVars
    <2> QED
      BY <1>2, <2>1 DEF RestOK
  <1>10. ASSUME NEW a \in Account, SetActive(a) PROVE RestOK'
    BY <1>10 DEF SetActive, storeVars, passVars, RestOK
  <1>11. ASSUME Tick \/ UNCHANGED vars PROVE RestOK'
    BY <1>1, <1>11 DEF Tick, vars, storeVars, passVars
  <1> QED
    BY <1>3, <1>4, <1>5, <1>6, <1>7, <1>8, <1>9, <1>10, <1>11 DEF FilesNext, PassStep

LEMMA CountersInvariant == FilesSpec => [](FInv /\ CInv)
  <1>1. FilesInit => FInv /\ CInv
    <2>1. FilesInit => RestOK
      BY DEF FilesInit, RestOK
    <2> QED
      BY <2>1, FilesInitInv, CountersInit DEF CInv
  <1>2. FInv /\ CInv /\ [FilesNext]_vars => (FInv /\ CInv)'
    BY FilesStepInv, CountersStep, RestStep DEF CInv
  <1> QED
    BY <1>1, <1>2, PTL DEF FilesSpec

\* The two stores, the tables, the counters and the passes keep their types; a
\* counter never falls below zero.
THEOREM FilesTypeCorrect == FilesSpec => []FilesTypeOK
  <1>1. FInv /\ CInv => FilesTypeOK
    BY DEF FInv, TablesOK, PassesOK, CInv, CountersOK, RestOK, FilesTypeOK
  <1> QED
    BY <1>1, CountersInvariant, PTL

\* The capacity counters (quota.go, repository.go) equal the bytes and the objects of
\* all rows and all reservations, in every scope, for any number of files.
THEOREM CountersAlwaysMatch == FilesSpec => []CountersMatch
  <1>1. CountersOK => CountersMatch
    BY DEF CountersOK, Counted, CountersMatch, SumOver
  <1> QED
    BY <1>1, CountersInvariant, PTL DEF CInv

\* Whatever is released or removed was charged before: decrementCapacity finds counters
\* high enough in every transaction, so that none of them fails for their sake.
RefundsAreCovered ==
  /\ \A f \in File :
       /\ reserved[f] # 0 =>
            Refundable(Uploader[f], Reserve[f], 1) /\ Refundable(Uploader[f], Reserve[f] - Size[f], 0)
       /\ rows[f].state # "none" => Refundable(rows[f].owner, Size[f], 1)
  /\ \A r \in Recoverer : \A s \in Scope :
       Covers(used[s], FreedUsage(ExpiredReservations(since[r]), s))

LEMMA LessCovers ==
  ASSUME NEW u \in Usage, NEW b \in Nat, NEW n \in Nat,
         Less(u, [bytes |-> b, objects |-> n]) \in Usage
  PROVE  Covers(u, [bytes |-> b, objects |-> n])
  BY DEF Less, Covers, Usage

\* No transaction of an upload, a deletion or a recovery pass that gives capacity back
\* fails because a counter is too low: there the error of decrementCapacity
\* (repository.go:134) is unreachable, and never keeps it from going on.
THEOREM RefundsNeverFail == FilesSpec => []RefundsAreCovered
  <1>1. ASSUME FInv, CountersOK PROVE RefundsAreCovered
    <2>1. ASSUME NEW f \in File, reserved[f] # 0, NEW s \in {"global", Uploader[f]}
          PROVE  Covers(used[s], [bytes |-> Reserve[f], objects |-> 1])
      <3>1. f \in ReservationsIn(s) /\ s \in Scope
        BY <2>1, ScopesOf DEF ReservationsIn
      <3>2. /\ RowsIn(s) \in SUBSET File /\ IsFiniteSet(RowsIn(s))
            /\ ReservationsIn(s) \in SUBSET File /\ IsFiniteSet(ReservationsIn(s))
            /\ used[s] \in Usage /\ Counted(used[s], RowsIn(s), ReservationsIn(s))
        BY <1>1, <3>1, CountedSets
      <3>3. Less(used[s], [bytes |-> Reserve[f], objects |-> 1]) \in Usage
        BY <3>1, <3>2, CountRelease
      <3> QED
        BY <3>2, <3>3, SizesAre, LessCovers
    <2>2. ASSUME NEW f \in File, reserved[f] # 0, NEW s \in {"global", Uploader[f]}
          PROVE  Covers(used[s], [bytes |-> Reserve[f] - Size[f], objects |-> 0])
      <3>1. s \in Scope
        BY ScopesOf
      <3>2. used[s] \in Usage /\ Covers(used[s], [bytes |-> Reserve[f], objects |-> 1])
        BY <1>1, <2>1, <2>2, <3>1 DEF CountersOK
      <3> QED
        BY <3>2, SizesAre DEF Covers, Usage
    <2>3. ASSUME NEW f \in File, rows[f].state # "none", NEW s \in {"global", rows[f].owner}
          PROVE  Covers(used[s], [bytes |-> Size[f], objects |-> 1])
      <3>1. f \in RowsIn(s) /\ s \in Scope
        BY <1>1, <2>3, ScopesOf DEF RowsIn, CountersOK
      <3>2. /\ RowsIn(s) \in SUBSET File /\ IsFiniteSet(RowsIn(s))
            /\ ReservationsIn(s) \in SUBSET File /\ IsFiniteSet(ReservationsIn(s))
            /\ used[s] \in Usage /\ Counted(used[s], RowsIn(s), ReservationsIn(s))
        BY <1>1, <3>1, CountedSets
      <3>3. Less(used[s], [bytes |-> Size[f], objects |-> 1]) \in Usage
        BY <3>1, <3>2, CountRemoval
      <3> QED
        BY <3>2, <3>3, SizesAre, LessCovers
    <2>4. ASSUME NEW r \in Recoverer, NEW s \in Scope
          PROVE  Covers(used[s], FreedUsage(ExpiredReservations(since[r]), s))
      <3> DEFINE T == Freed(ExpiredReservations(since[r]), s)
      <3>1. T \in SUBSET ReservationsIn(s)
        BY DEF Freed, ReservationsIn, ExpiredReservations, Oldest
      <3>2. FreedUsage(ExpiredReservations(since[r]), s)
              = [bytes |-> SumOver(Reserve, T), objects |-> Cardinality(T)]
        BY FreedUsageIs
      <3> HIDE DEF T
      <3>3. /\ RowsIn(s) \in SUBSET File /\ IsFiniteSet(RowsIn(s))
            /\ ReservationsIn(s) \in SUBSET File /\ IsFiniteSet(ReservationsIn(s))
            /\ used[s] \in Usage /\ Counted(used[s], RowsIn(s), ReservationsIn(s))
        BY <1>1, CountedSets
      <3>4. Less(used[s], [bytes |-> SumOver(Reserve, T), objects |-> Cardinality(T)]) \in Usage
        BY <3>1, <3>3, CountFreed
      <3>5. SumOver(Reserve, T) \in Nat /\ Cardinality(T) \in Nat
        <4>1. T \in SUBSET File /\ IsFiniteSet(T)
          BY <3>1, <3>3, FS_Subset
        <4> QED
          BY <4>1, CountedUsage
      <3> QED
        BY <3>2, <3>3, <3>4, <3>5, LessCovers
    <2> QED
      BY <2>1, <2>2, <2>3, <2>4 DEF RefundsAreCovered, Refundable
  <1> QED
    BY <1>1, CountersInvariant, PTL DEF CInv

-----------------------------------------------------------------------------
(* Stages.  A stage that has been removed never comes back, and a pass that *)
(* listed all expired reservations has removed their stages before it       *)
(* releases them.                                                           *)

StageOK(f) ==
  /\ f \in staged => reserved[f] # 0 \/ rows[f].state = "pending"
  /\ upload[f] \in {"new", "reserved", "releasing", "published", "done"} => f \notin staged
  /\ rows[f].state # "none" => reserved[f] = 0
  /\ upload[f] \in {"reserved", "staged"} /\ InTime(f) => reserved[f] # 0

\* The expired reservations that r has listed include all that have a stage.
ListedOK(r) ==
  at[r] = "stages" =>
    \A f \in staged : reserved[f] # 0 /\ reserved[f] <= since[r] => f \in expired[r]

\* A pending record that r is about to finish has no stage any more.
FinishOK(r) ==
  at[r] = "finish" =>
    \A c \in batch[r] : First(r, c) /\ c.state = "pending" => c.file \notin staged

StagesOK ==
  /\ \A f \in File : StageOK(f)
  /\ \A r \in Recoverer : ListedOK(r) /\ FinishOK(r)

\* Reservations that expired are not more than a pass takes at a time.
FewExpire == Cardinality({f \in File : reserved[f] # 0 /\ reserved[f] <= now}) <= BatchSize

SInv == FInv /\ CInv /\ StagesOK

LEMMA AllExpired ==
  ASSUME SInv, FewExpire
  PROVE  ExpiredReservations(now) = {f \in File : reserved[f] # 0 /\ reserved[f] <= now}
  <1> DEFINE S == {f \in File : reserved[f] # 0 /\ reserved[f] <= now}
  <1>1. IsFiniteSet(S) /\ Cardinality(S) \in Nat
    <2>1. S \in SUBSET Begun /\ IsFiniteSet(Begun)
      BY DEF SInv, CInv, CountersOK, Begun
    <2> QED
      BY <2>1, FS_Subset, FS_CardinalityType
  <1>2. ASSUME NEW f \in S
        PROVE  Cardinality({g \in S : reserved[g] < reserved[f] \/ (reserved[g] = reserved[f] /\ g < f)})
                 < BatchSize
    <2> DEFINE T == {g \in S : reserved[g] < reserved[f] \/ (reserved[g] = reserved[f] /\ g < f)}
    <2>1. reserved[f] \in Nat /\ f \in Nat
      BY FilesAssumption DEF SInv, FInv, TablesOK
    <2>2. T \in SUBSET (S \ {f})
      BY <2>1
    <2>3. /\ IsFiniteSet(S \ {f}) /\ Cardinality(S \ {f}) = Cardinality(S) - 1
      BY <1>1, FS_RemoveElement
    <2> HIDE DEF T
    <2>4. IsFiniteSet(T) /\ Cardinality(T) <= Cardinality(S) - 1
      BY <2>2, <2>3, FS_Subset
    <2>5. Cardinality(T) \in Nat
      BY <2>4, FS_CardinalityType
    <2>6. Cardinality(S) <= BatchSize
      BY DEF FewExpire
    <2>7. Cardinality(T) < BatchSize
      <3> HIDE DEF S
      <3> QED
        BY <1>1, <2>4, <2>5, <2>6, FilesAssumption
    <2> QED
      BY <2>7 DEF T
  <1> QED
    BY <1>2 DEF ExpiredReservations, Oldest

\* A file whose tables do not change and which gets no stage.
LEMMA StageKept ==
  ASSUME SInv, NEW f \in File, now <= now', now' \in Time, staged' \subseteq staged,
         rows'[f] = rows[f], reserved'[f] = reserved[f],
         upload'[f] = upload[f], deadline'[f] = deadline[f]
  PROVE  StageOK(f)'
  <1>1. InTime(f)' => InTime(f)
    <2>1. now \in Nat /\ now' \in Nat /\ deadline[f] \in Nat
      BY TimeIsNat DEF SInv, FInv, TablesOK
    <2> QED
      BY <2>1 DEF InTime
  <1> QED
    BY <1>1 DEF SInv, StagesOK, StageOK

\* Nothing changes for a pass that does not move.
LEMMA PassKept ==
  ASSUME SInv, NEW r \in Recoverer, staged' \subseteq staged,
         at'[r] = at[r], since'[r] = since[r], expired'[r] = expired[r], batch'[r] = batch[r],
         \A f \in File : reserved'[f] \in {reserved[f], 0}
  PROVE  ListedOK(r)' /\ FinishOK(r)'
  <1>1. staged \subseteq File
    BY DEF SInv, CInv, RestOK
  <1>2. \A c : First(r, c)' => First(r, c)
    BY DEF First
  <1> QED
    BY <1>1, <1>2 DEF SInv, StagesOK, ListedOK, FinishOK

LEMMA EndPassStages ==
  ASSUME SInv, NEW r \in Recoverer, EndPass(r), staged' \subseteq staged,
         now' = now, UNCHANGED <<rows, reserved, upload, deadline>>
  PROVE  StagesOK'
  <1>1. now \in Time /\ now <= now
    BY TimeIsNat DEF SInv, FInv, TablesOK
  <1>2. \A f \in File : StageOK(f)'
    BY <1>1, StageKept
  <1>3. at'[r] = "idle" /\ \A q \in Recoverer \ {r} :
          at'[q] = at[q] /\ since'[q] = since[q] /\ expired'[q] = expired[q] /\ batch'[q] = batch[q]
    BY DEF EndPass, SInv, FInv, PassesOK, CInv, RestOK
  <1>4. ASSUME NEW q \in Recoverer PROVE ListedOK(q)' /\ FinishOK(q)'
    <2>1. CASE q = r
      BY <1>3, <2>1 DEF ListedOK, FinishOK
    <2>2. CASE q # r
      BY <1>3, <2>2, PassKept
    <2> QED
      BY <2>1, <2>2
  <1> QED
    BY <1>2, <1>4 DEF StagesOK

\* A step of one upload or deletion.
LEMMA FileStages ==
  ASSUME SInv, NEW f \in File, UNCHANGED <<now, passVars>>,
         staged' \subseteq staged \cup {f},
         \A g \in File \ {f} : /\ rows'[g] = rows[g] /\ reserved'[g] = reserved[g]
                               /\ upload'[g] = upload[g] /\ deadline'[g] = deadline[g],
         StageOK(f)',
         \A r \in Recoverer :
           /\ at[r] = "stages" /\ f \in staged' /\ reserved'[f] # 0 /\ reserved'[f] <= since[r]
                => f \in expired[r]
           /\ f \in staged' => f \in staged \/ Quiet(f)
  PROVE  StagesOK'
  <1>1. now \in Time /\ now <= now' /\ now' \in Time
    BY TimeIsNat DEF SInv, FInv, TablesOK
  <1>2. ASSUME NEW g \in File \ {f} PROVE StageOK(g)'
    <2>1. StageOK(g) /\ (g \in staged' => g \in staged) /\ (InTime(g)' <=> InTime(g))
      BY DEF SInv, StagesOK, InTime
    <2> QED
      BY <2>1 DEF StageOK
  <1>3. /\ at' = at /\ since' = since /\ expired' = expired /\ batch' = batch
        /\ \A r \in Recoverer : \A c : First(r, c)' <=> First(r, c)
    BY DEF passVars, First
  <1>4. ASSUME NEW r \in Recoverer PROVE ListedOK(r)' /\ FinishOK(r)'
    <2>1. ListedOK(r) /\ FinishOK(r) /\ staged \subseteq File
      BY DEF SInv, StagesOK, CInv, RestOK
    <2>2. ListedOK(r)'
      BY <1>3, <2>1 DEF ListedOK
    <2>3. \A c \in batch[r] : c.file = f /\ f \in staged' => f \in staged
      BY DEF Quiet, FilesOf
    <2>4. FinishOK(r)'
      BY <1>3, <2>1, <2>3 DEF FinishOK
    <2> QED
      BY <2>2, <2>4
  <1> QED
    BY <1>2, <1>4 DEF StagesOK

LEMMA FileState ==
  ASSUME SInv, NEW f \in File
  PROVE  /\ StageOK(f) /\ UploadOK(f) /\ rows \in [File -> Row] /\ reserved \in [File -> Nat]
         /\ upload \in [File -> UploadStage] /\ deadline \in [File -> Nat]
         /\ now \in Nat /\ now \in Time /\ staged \subseteq File
         /\ \A r \in Recoverer : ListedOK(r) /\ since[r] \in Nat /\ since[r] <= now
  BY TimeIsNat DEF SInv, FInv, TablesOK, PassesOK, UploadsOK, StagesOK, CInv, RestOK

LEMMA ReserveCapacityStages ==
  ASSUME SInv, NEW f \in File, ReserveCapacity(f) PROVE StagesOK'
  <1>1. /\ upload[f] = "new" /\ upload' = [upload EXCEPT ![f] = "reserved"]
        /\ reserved' = [reserved EXCEPT ![f] = now + ReservationTTL]
        /\ deadline' = [deadline EXCEPT ![f] = now + UploadTimeout]
        /\ UNCHANGED <<now, rows, staged, passVars>>
    BY DEF ReserveCapacity, Goes, storeVars
  <1>2. f \notin staged /\ rows[f].state = "none"
    BY <1>1, FileState DEF StageOK, UploadOK
  <1>3. reserved'[f] # 0 /\ upload'[f] = "reserved"
    BY <1>1, FileState, FilesAssumption
  <1>4. StageOK(f)'
    BY <1>1, <1>2, <1>3 DEF StageOK
  <1>5. \A g \in File \ {f} : /\ rows'[g] = rows[g] /\ reserved'[g] = reserved[g]
                              /\ upload'[g] = upload[g] /\ deadline'[g] = deadline[g]
    BY <1>1, FileState
  <1> QED
    BY <1>1, <1>2, <1>4, <1>5, FileStages

\* What is left of the reservation of an upload that has not committed its row.
LEMMA ReservationOutlives ==
  ASSUME SInv, NEW f \in File, upload[f] \in {"reserved", "staged"}, InTime(f)
  PROVE  reserved[f] # 0 /\ reserved[f] > now
  <1>1. reserved[f] # 0
    BY FileState DEF StageOK
  <1>2. reserved[f] + UploadTimeout = deadline[f] + ReservationTTL
    BY <1>1, FileState DEF UploadOK
  <1> QED
    BY <1>1, <1>2, FileState, FilesAssumption DEF InTime

LEMMA StageContentStages ==
  ASSUME SInv, NEW f \in File, StageContent(f) PROVE StagesOK'
  <1>1. /\ upload[f] = "reserved" /\ InTime(f) /\ upload' = [upload EXCEPT ![f] = "staged"]
        /\ staged' = staged \cup {f} /\ UNCHANGED <<now, rows, reserved, deadline, passVars>>
    BY DEF StageContent, Goes, tableVars
  <1>2. reserved[f] # 0 /\ reserved[f] > now /\ rows[f].state = "none" /\ Quiet(f)
    BY <1>1, ReservationOutlives, FileState DEF UploadOK
  <1>3. upload'[f] = "staged"
    BY <1>1, FileState
  <1>4. StageOK(f)'
    BY <1>1, <1>2, <1>3 DEF StageOK
  <1>5. \A g \in File \ {f} : /\ rows'[g] = rows[g] /\ reserved'[g] = reserved[g]
                              /\ upload'[g] = upload[g] /\ deadline'[g] = deadline[g]
    BY <1>1, FileState
  <1>6. \A r \in Recoverer : ~(reserved[f] <= since[r])
    BY <1>2, FileState
  <1> QED
    BY <1>1, <1>2, <1>4, <1>5, <1>6, FileStages

LEMMA CommitUploadStages ==
  ASSUME SInv, NEW f \in File, CommitUpload(f) PROVE StagesOK'
  <1> DEFINE row == [state |-> "pending", owner |-> Uploader[f], claimedBy |-> Uploading,
                     until |-> reserved[f], updated |-> reserved[f] - ReservationTTL]
  <1>1. /\ upload[f] = "staged" /\ upload' = [upload EXCEPT ![f] = "committed"]
        /\ rows' = [rows EXCEPT ![f] = row] /\ row.state = "pending"
        /\ reserved' = [reserved EXCEPT ![f] = 0]
        /\ UNCHANGED <<now, staged, deadline, passVars>>
    BY DEF CommitUpload, Goes, storeVars
  <1> HIDE DEF row
  <1>2. rows'[f].state = "pending" /\ reserved'[f] = 0 /\ upload'[f] = "committed"
    BY <1>1, FileState
  <1>3. StageOK(f)'
    BY <1>2 DEF StageOK
  <1>4. \A g \in File \ {f} : /\ rows'[g] = rows[g] /\ reserved'[g] = reserved[g]
                              /\ upload'[g] = upload[g] /\ deadline'[g] = deadline[g]
    BY <1>1, FileState
  <1> QED
    BY <1>1, <1>2, <1>3, <1>4, FileStages

\* A step of the upload alone: it goes from one stage to another and may remove its stage.
LEMMA UploadGoesStages ==
  ASSUME SInv, NEW f \in File, NEW s, upload' = [upload EXCEPT ![f] = s],
         s \notin {"new", "reserved", "staged"},
         s \in {"releasing", "published", "done"} => f \notin staged',
         UNCHANGED <<now, deadline, rows, reserved, passVars>>, staged' \subseteq staged
  PROVE  StagesOK'
  <1>1. upload'[f] = s
    BY FileState
  <1>2. StageOK(f)'
    BY <1>1, FileState DEF StageOK
  <1>3. \A g \in File \ {f} : upload'[g] = upload[g]
    BY FileState
  <1>4. \A r \in Recoverer : ListedOK(r)
    BY FileState
  <1>5. \A r \in Recoverer :
          at[r] = "stages" /\ f \in staged' /\ reserved'[f] # 0 /\ reserved'[f] <= since[r]
            => f \in expired[r]
    BY <1>4 DEF ListedOK
  <1> QED
    BY <1>2, <1>3, <1>5, FileStages

LEMMA UploadMovesStages ==
  ASSUME SInv, NEW f \in File,
         \/ LinkObject(f)
         \/ UnlinkStage(f)
         \/ SyncFails(f)
         \/ AbortUpload(f)
         \/ UploadFails(f)
         \/ UploadDies(f)
  PROVE  StagesOK'
  <1>1. CASE LinkObject(f) \/ SyncFails(f) \/ UploadDies(f)
    <2>1. /\ \E s \in {"linked", "yielding", "failed"} : upload' = [upload EXCEPT ![f] = s]
          /\ UNCHANGED <<now, deadline, rows, reserved, passVars, staged>>
      BY <1>1 DEF LinkObject, SyncFails, UploadDies, Goes, tableVars, storeVars
    <2> QED
      BY <2>1, UploadGoesStages
  <1>2. CASE UnlinkStage(f) \/ AbortUpload(f)
    <2>1. /\ \E s \in {"published", "releasing"} : upload' = [upload EXCEPT ![f] = s]
          /\ staged' = staged \ {f}
          /\ UNCHANGED <<now, deadline, rows, reserved, passVars>>
      BY <1>2 DEF UnlinkStage, AbortUpload, Goes, tableVars
    <2> QED
      BY <2>1, UploadGoesStages
  <1>3. CASE UploadFails(f)
    <2>1. /\ \/ upload' = [upload EXCEPT ![f] = "releasing"] /\ upload[f] = "reserved"
             \/ \E s \in {"aborting", "yielding", "failed"} : upload' = [upload EXCEPT ![f] = s]
          /\ UNCHANGED <<now, deadline, rows, reserved, passVars, staged>>
      BY <1>3 DEF UploadFails, Goes, tableVars, storeVars
    <2>2. upload[f] = "reserved" => f \notin staged
      BY FileState DEF StageOK
    <2> QED
      BY <2>1, <2>2, UploadGoesStages
  <1> QED
    BY <1>1, <1>2, <1>3

LEMMA MarkReadyStages ==
  ASSUME SInv, NEW f \in File, MarkReady(f) \/ YieldClaim(f) PROVE StagesOK'
  <1>1. /\ \/ upload' = [upload EXCEPT ![f] = "done"] /\ f \notin staged
           \/ upload' = [upload EXCEPT ![f] = "failed"]
        /\ UNCHANGED <<now, deadline, reserved, passVars, staged>>
    BY FileState DEF MarkReady, YieldClaim, Goes, storeVars, StageOK
  <1>2. /\ \A g \in File \ {f} : rows'[g] = rows[g]
        /\ rows'[f].state = "none" <=> rows[f].state = "none"
        /\ rows'[f].state # rows[f].state => f \notin staged
    <2>1. CASE MarkReady(f)
      <3>1. /\ rows[f].state = "pending" /\ f \notin staged
            /\ rows' = [rows EXCEPT ![f] = [rows[f] EXCEPT !.state = "ready", !.claimedBy = Nobody,
                                                           !.until = 0, !.updated = now]]
        BY <2>1, FileState DEF MarkReady, StageOK
      <3>2. rows[f] \in Row /\ rows \in [File -> Row]
        BY FileState
      <3> QED
        BY <3>1, <3>2 DEF Row
    <2>2. CASE YieldClaim(f)
      <3>1. \/ rows' = rows
            \/ rows' = [rows EXCEPT ![f] = [rows[f] EXCEPT !.claimedBy = Nobody, !.until = 0]]
        BY <2>2 DEF YieldClaim
      <3>2. rows[f] \in Row /\ rows \in [File -> Row]
        BY FileState
      <3> QED
        BY <3>1, <3>2 DEF Row
    <2> QED
      BY <2>1, <2>2
  <1>3. upload'[f] \in {"done", "failed"} /\ (upload'[f] = "done" => f \notin staged)
    BY <1>1, FileState
  <1>4. StageOK(f)'
    BY <1>1, <1>2, <1>3, FileState DEF StageOK
  <1>5. \A g \in File \ {f} : upload'[g] = upload[g]
    BY <1>1, FileState
  <1>6. \A r \in Recoverer :
          at[r] = "stages" /\ f \in staged' /\ reserved'[f] # 0 /\ reserved'[f] <= since[r]
            => f \in expired[r]
    BY <1>1, FileState DEF ListedOK
  <1> QED
    BY <1>1, <1>2, <1>4, <1>5, <1>6, FileStages

LEMMA ReleaseReservationStages ==
  ASSUME SInv, NEW f \in File, ReleaseReservation(f) PROVE StagesOK'
  <1>1. /\ upload[f] = "releasing" /\ upload' = [upload EXCEPT ![f] = "failed"]
        /\ reserved' = reserved \/ reserved' = [reserved EXCEPT ![f] = 0]
        /\ UNCHANGED <<now, rows, deadline, passVars, staged>>
    BY DEF ReleaseReservation, Goes, storeVars
  <1>2. f \notin staged /\ upload'[f] = "failed"
    BY <1>1, FileState DEF StageOK
  <1>3. reserved'[f] \in {reserved[f], 0}
    BY <1>1, FileState
  <1>4. StageOK(f)'
    BY <1>1, <1>2, <1>3, FileState DEF StageOK
  <1>5. \A g \in File \ {f} : upload'[g] = upload[g] /\ reserved'[g] = reserved[g]
    BY <1>1, FileState
  <1> QED
    BY <1>1, <1>2, <1>4, <1>5, FileStages

\* A row that is not pending has no stage, so that it may change or go.
LEMMA RowChangesStages ==
  ASSUME SInv, NEW f \in File, f \notin staged, reserved[f] = 0, NEW row, rows' = [rows EXCEPT ![f] = row],
         UNCHANGED <<now, deadline, upload, reserved, staged>>
  PROVE  \A g \in File : StageOK(g)'
  <1>1. ASSUME NEW g \in File \ {f} PROVE StageOK(g)'
    <2>1. rows'[g] = rows[g] /\ now <= now' /\ now' \in Time
      BY FileState
    <2> QED
      BY <2>1, StageKept
  <1>2. StageOK(f)'
    <2>1. StageOK(f) /\ (InTime(f)' <=> InTime(f))
      BY FileState DEF InTime
    <2> QED
      BY <2>1 DEF StageOK
  <1> QED
    BY <1>1, <1>2

LEMMA DeletionStages ==
  ASSUME SInv, NEW f \in File, MarkDeleting(f) \/ DeletionStep(f) PROVE StagesOK'
  <1>1. UNCHANGED <<now, passVars, staged, reserved, upload, deadline>>
    BY DEF MarkDeleting, DeletionStep, DeleteObject, RemoveDeleting, DeletionEnds,
           tableVars, uploadVars, storeVars
  <1>2. \A r \in Recoverer : ListedOK(r)' /\ FinishOK(r)'
    BY <1>1, PassKept DEF passVars
  <1>3. CASE rows' = rows
    <2>1. now <= now' /\ now' \in Time
      BY <1>1, FileState
    <2> QED
      BY <1>1, <1>2, <1>3, <2>1, StageKept DEF StagesOK
  <1>4. CASE rows' # rows
    <2>1. /\ rows[f].state \in {"ready", "deleting"}
          /\ \E row : rows' = [rows EXCEPT ![f] = row]
      BY <1>4 DEF MarkDeleting, DeletionStep, DeleteObject, RemoveDeleting, DeletionEnds, RemoveRow,
                  tableVars
    <2>2. f \notin staged /\ reserved[f] = 0
      BY <2>1, FileState DEF StageOK
    <2> QED
      BY <1>1, <1>2, <2>1, <2>2, RowChangesStages DEF StagesOK
  <1> QED
    BY <1>3, <1>4

\* A step of recoverer r that leaves the tables alone.
LEMMA PassStages ==
  ASSUME SInv, NEW r \in Recoverer, UNCHANGED <<now, rows, reserved, upload, deadline>>,
         staged' \subseteq staged,
         \A q \in Recoverer \ {r} : /\ at'[q] = at[q] /\ since'[q] = since[q]
                                    /\ expired'[q] = expired[q] /\ batch'[q] = batch[q],
         ListedOK(r)', FinishOK(r)'
  PROVE  StagesOK'
  <1>1. \A f \in File : StageOK(f)'
    <2> TAKE f \in File
    <2>1. now <= now' /\ now' \in Time
      BY FileState
    <2> QED
      BY <2>1, StageKept
  <1>2. \A q \in Recoverer \ {r} : ListedOK(q)' /\ FinishOK(q)'
    BY PassKept
  <1> QED
    BY <1>1, <1>2 DEF StagesOK

LEMMA PassState ==
  ASSUME SInv, NEW r \in Recoverer
  PROVE  /\ at \in [Recoverer -> PassStage] /\ since \in [Recoverer -> Time]
         /\ expired \in [Recoverer -> SUBSET File] /\ batch \in [Recoverer -> SUBSET Record]
         /\ saw \in [Recoverer -> Seen]
         /\ ListedOK(r) /\ FinishOK(r)
         /\ \A c, d \in batch[r] : c.file = d.file => c = d
  BY DEF SInv, FInv, PassesOK, StagesOK, CInv, RestOK

LEMMA BeginPassStages ==
  ASSUME SInv, FewExpire, NEW r \in Recoverer, BeginPass(r) PROVE StagesOK'
  <1>1. /\ at' = [at EXCEPT ![r] = "stages"] /\ since' = [since EXCEPT ![r] = now]
        /\ expired' = [expired EXCEPT ![r] = ExpiredReservations(now)]
        /\ UNCHANGED <<now, rows, reserved, upload, deadline, staged, batch>>
    BY DEF BeginPass, tableVars, storeVars, uploadVars
  <1>2. at'[r] = "stages" /\ since'[r] = now /\ expired'[r] = ExpiredReservations(now)
    BY <1>1, PassState
  <1>3. ListedOK(r)' /\ FinishOK(r)'
    <2>1. staged \subseteq File
      BY DEF SInv, CInv, RestOK
    <2> QED
      BY <1>1, <1>2, <2>1, AllExpired DEF ListedOK, FinishOK
  <1>4. \A q \in Recoverer \ {r} : /\ at'[q] = at[q] /\ since'[q] = since[q]
                                   /\ expired'[q] = expired[q] /\ batch'[q] = batch[q]
    BY <1>1, PassState
  <1> QED
    BY <1>1, <1>3, <1>4, PassStages

LEMMA AbortStageStages ==
  ASSUME SInv, NEW r \in Recoverer, NEW f \in expired[r], AbortStage(r, f) PROVE StagesOK'
  <1>1. /\ staged' = staged \ {f} /\ expired' = [expired EXCEPT ![r] = expired[r] \ {f}]
        /\ UNCHANGED <<now, rows, reserved, upload, deadline, at, since, batch>>
    BY DEF AbortStage, tableVars, uploadVars
  <1>2. expired'[r] = expired[r] \ {f}
    BY <1>1, PassState
  <1>3. ListedOK(r)'
    BY <1>1, <1>2, PassState DEF ListedOK
  <1>4. FinishOK(r)'
    BY <1>1, PassState DEF FinishOK, First
  <1>5. \A q \in Recoverer \ {r} : expired'[q] = expired[q]
    BY <1>1, PassState
  <1> QED
    BY <1>1, <1>3, <1>4, <1>5, PassStages

LEMMA ClaimRecoveryStages ==
  ASSUME SInv, NEW r \in Recoverer, ClaimRecovery(r) PROVE StagesOK'
  <1> DEFINE freed == ExpiredReservations(since[r])
             claimed == ClaimableRows(since[r])
  <1>1. /\ at[r] = "stages" /\ expired[r] = {}
        /\ reserved' = [f \in File |-> IF f \in freed THEN 0 ELSE reserved[f]]
        /\ rows' = [f \in File |->
                      IF f \in claimed
                        THEN [rows[f] EXCEPT !.claimedBy = r, !.until = since[r] + RecoveryLease]
                        ELSE rows[f]]
        /\ UNCHANGED <<now, upload, deadline, staged>>
    BY DEF ClaimRecovery, uploadVars, storeVars
  <1>2. \A f \in freed : f \in File /\ reserved[f] # 0 /\ reserved[f] <= since[r]
    BY DEF ExpiredReservations, Oldest
  <1> HIDE DEF freed, claimed
  <1>3. \A f \in freed : f \notin staged
    BY <1>1, <1>2, PassState DEF ListedOK
  <1>4. ASSUME NEW f \in File PROVE rows'[f].state = rows[f].state
    <2>1. CASE f \in claimed
      <3>1. rows'[f] = [rows[f] EXCEPT !.claimedBy = r, !.until = since[r] + RecoveryLease]
        BY <1>1, <2>1
      <3>2. rows[f] \in Row
        BY FileState
      <3> QED
        BY <3>1, <3>2 DEF Row
    <2>2. CASE f \notin claimed
      BY <1>1, <2>2
    <2> QED
      BY <2>1, <2>2
  <1>5. ASSUME NEW f \in File PROVE StageOK(f)'
    <2>1. InTime(f)' <=> InTime(f)
      BY <1>1 DEF InTime
    <2>2. reserved'[f] = IF f \in freed THEN 0 ELSE reserved[f]
      BY <1>1
    <2>3. upload[f] \in {"reserved", "staged"} /\ InTime(f) => f \notin freed
      BY <1>2, ReservationOutlives, FileState
    <2> QED
      BY <1>1, <1>3, <1>4, <2>1, <2>2, <2>3, FileState DEF StageOK
  <1>6. /\ at'[r] \in {"idle", "repair"}
        /\ \A q \in Recoverer \ {r} : /\ at'[q] = at[q] /\ since'[q] = since[q]
                                      /\ expired'[q] = expired[q] /\ batch'[q] = batch[q]
    BY PassState DEF ClaimRecovery, EndPass
  <1>7. \A f \in File : reserved'[f] \in {reserved[f], 0}
    BY <1>1
  <1>8. ListedOK(r)' /\ FinishOK(r)'
    BY <1>6 DEF ListedOK, FinishOK
  <1>9. \A q \in Recoverer \ {r} : ListedOK(q)' /\ FinishOK(q)'
    BY <1>1, <1>6, <1>7, PassKept
  <1> QED
    BY <1>5, <1>8, <1>9 DEF StagesOK

LEMMA RepairStages ==
  ASSUME SInv, NEW r \in Recoverer, NEW c \in batch[r],
         \/ LookForObject(r, c)
         \/ LookForStage(r, c)
         \/ RepairLink(r, c)
         \/ RepairUnlink(r, c)
         \/ RepairAbort(r, c)
         \/ RepairDelete(r, c)
  PROVE  StagesOK'
  <1>1. /\ First(r, c) /\ at[r] # "stages"
        /\ \E s \in {"looked", "finish", "abort", "publish", "unlink"} :
             /\ at' = [at EXCEPT ![r] = s]
             /\ s = "finish" => c.state = "deleting" \/ c.file \notin staged'
        /\ staged' \subseteq staged
        /\ UNCHANGED <<now, rows, reserved, upload, deadline, since, expired, batch>>
    BY DEF LookForObject, LookForStage, RepairLink, RepairUnlink, RepairAbort, RepairDelete,
           Repairs, AfterLook, tableVars, storeVars, uploadVars
  <1>2. /\ at'[r] # "stages"
        /\ at'[r] = "finish" => c.state = "deleting" \/ c.file \notin staged'
        /\ \A q \in Recoverer \ {r} : at'[q] = at[q]
    BY <1>1, PassState
  <1>3. \A d \in batch[r] : First(r, d)' => d = c
    <2>1. \A d \in batch[r] : First(r, d)' => First(r, d)
      BY <1>1 DEF First
    <2>2. batch[r] \subseteq Record /\ \A d, e \in batch[r] : d.file = e.file => d = e
      BY PassState
    <2> QED
      BY <1>1, <2>1, <2>2, FirstIsUnique
  <1>4. ListedOK(r)' /\ FinishOK(r)'
    BY <1>1, <1>2, <1>3 DEF ListedOK, FinishOK
  <1> QED
    BY <1>1, <1>2, <1>4, PassStages

LEMMA FinishStages ==
  ASSUME SInv, NEW r \in Recoverer, NEW c \in batch[r], FinishReady(r, c) \/ RemoveClaimed(r, c)
  PROVE  StagesOK'
  <1>1. /\ at[r] = "finish" /\ First(r, c) /\ rows[c.file].state = c.state
        /\ UNCHANGED <<now, reserved, upload, deadline, staged>> /\ NextRecord(r, c)
        /\ \E row : rows' = [rows EXCEPT ![c.file] = row]
    BY DEF FinishReady, RemoveClaimed, Repairs, StillClaimed, RemoveRow, uploadVars, storeVars
  <1>2. c.file \in File /\ c.state \in {"pending", "deleting"}
    BY PassState DEF Record
  <1>3. c.file \notin staged /\ reserved[c.file] = 0
    <2>1. StageOK(c.file) /\ FinishOK(r)
      BY <1>2, FileState, PassState
    <2> QED
      BY <1>1, <1>2, <2>1 DEF StageOK, FinishOK
  <1>4. \A f \in File : StageOK(f)'
    BY <1>1, <1>2, <1>3, RowChangesStages
  <1>5. /\ at'[r] \in {"idle", "repair"}
        /\ \A q \in Recoverer \ {r} : /\ at'[q] = at[q] /\ since'[q] = since[q]
                                      /\ expired'[q] = expired[q] /\ batch'[q] = batch[q]
    BY <1>1, PassState DEF NextRecord, EndPass
  <1>6. ListedOK(r)' /\ FinishOK(r)'
    BY <1>5 DEF ListedOK, FinishOK
  <1>7. \A q \in Recoverer \ {r} : ListedOK(q)' /\ FinishOK(q)'
    BY <1>1, <1>5, PassKept
  <1> QED
    BY <1>4, <1>6, <1>7 DEF StagesOK

LEMMA StagesStep ==
  ASSUME SInv, FewExpire, [FilesNext]_vars PROVE StagesOK'
  <1>1. ASSUME now' = now \/ Tick,
               UNCHANGED <<rows, reserved, upload, deadline, staged, at, since, expired, batch>>
        PROVE  StagesOK'
    <2>1. now <= now' /\ now' \in Time
      <3>1. now \in 0..MaxTime /\ MaxTime \in Nat
        BY FilesAssumption DEF SInv, FInv, TablesOK, Time
      <3> QED
        BY <1>1, <3>1 DEF Tick, Time
    <2>2. \A f \in File : StageOK(f)'
      BY <1>1, <2>1, StageKept
    <2>3. \A r \in Recoverer : ListedOK(r)' /\ FinishOK(r)'
      BY <1>1, PassKept
    <2> QED
      BY <2>2, <2>3 DEF StagesOK
  <1>2. ASSUME Tick \/ (\E a \in Account : SetActive(a)) \/ UNCHANGED vars PROVE StagesOK'
    BY <1>1, <1>2 DEF Tick, SetActive, vars, tableVars, storeVars, uploadVars, passVars
  <1>3. ASSUME NEW f \in File, ReserveCapacity(f) PROVE StagesOK'
    BY <1>3, ReserveCapacityStages
  <1>4. ASSUME NEW f \in File, UploadStep(f) \/ UploadDies(f) PROVE StagesOK'
    BY <1>4, StageContentStages, CommitUploadStages, UploadMovesStages, MarkReadyStages,
       ReleaseReservationStages DEF UploadStep
  <1>5. ASSUME NEW f \in File, MarkDeleting(f) \/ DeletionStep(f) PROVE StagesOK'
    BY <1>5, DeletionStages
  <1>6. ASSUME NEW r \in Recoverer, PassDies(r) \/ \E c \in batch[r] : RepairSyncFails(r, c)
        PROVE  StagesOK'
    <2>1. EndPass(r) /\ UNCHANGED <<now, rows, reserved, upload, deadline, staged>>
      BY <1>6 DEF PassDies, RepairSyncFails, tableVars, storeVars, uploadVars
    <2> QED
      BY <2>1, EndPassStages
  <1>7. ASSUME NEW r \in Recoverer, NEW c \in batch[r], RepairStep(r, c) PROVE StagesOK'
    <2>1. CASE RepairFails(r, c)
      <3>1. EndPass(r) /\ UNCHANGED <<now, rows, reserved, upload, deadline, staged>>
        BY <2>1 DEF RepairFails, tableVars, storeVars, uploadVars
      <3> QED
        BY <3>1, EndPassStages
    <2> QED
      BY <1>7, <2>1, RepairStages, FinishStages DEF RepairStep
  <1>8. ASSUME NEW r \in Recoverer, PassStep(r) PROVE StagesOK'
    BY <1>7, <1>8, BeginPassStages, AbortStageStages, ClaimRecoveryStages DEF PassStep
  <1> QED
    BY <1>2, <1>3, <1>4, <1>5, <1>6, <1>8 DEF FilesNext

\* "With the id of its reservation, the database can find the stage again after a
\* crash" (storage.go:136): as long as the expired reservations are never more than a
\* batch, for any number of recovery loops, interrupted anywhere.
THEOREM StagesStayFindable == FilesSpec /\ []FewExpire => []StageFindable
  <1>1. FilesInit => SInv
    <2>1. FilesInit => StagesOK /\ RestOK
      BY DEF FilesInit, StagesOK, StageOK, ListedOK, FinishOK, NoRow, RestOK
    <2> QED
      BY <2>1, FilesInitInv, CountersInit DEF SInv, CInv
  <1>2. SInv /\ FewExpire /\ [FilesNext]_vars => SInv'
    BY FilesStepInv, CountersStep, RestStep, StagesStep DEF SInv, CInv
  <1>3. SInv => StageFindable
    BY DEF SInv, CInv, RestOK, StagesOK, StageOK, StageFindable
  <1> QED
    BY <1>1, <1>2, <1>3, PTL DEF FilesSpec
=============================================================================
