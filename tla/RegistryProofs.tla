--------------------------- MODULE RegistryProofs ---------------------------
(***************************************************************************)
(* Proofs about Registry.  Its types and constraints hold whatever         *)
(* requests overlap.  Under a discipline IInv is inductive: every request  *)
(* in flight keeps what it relies on, and every indexed file its objects   *)
(* and its release.  A step is classified by what it does to rows and      *)
(* objects (Effect); what the other workers rely on, and what holds of all *)
(* files, follow from the class alone.                                     *)
(***************************************************************************)
EXTENDS RegistryInv, CatalogProofs

-----------------------------------------------------------------------------
(* Facts about the operators.                                              *)

LEMMA KeyInjective ==
    ASSUME NEW d, NEW f, NEW p, NEW e, NEW g, NEW q,
           BlobKey(d, f, p) = BlobKey(e, g, q)
    PROVE  d = e /\ f = g /\ p = q
  BY DEF BlobKey

LEMMA KeyIsBuilt ==
    ASSUME NEW k \in Key
    PROVE  \E d \in Digest, f \in Filename, p \in Kind : k = BlobKey(d, f, p)
  BY DEF Key, Kind

LEMMA BuiltIsKey ==
    ASSUME NEW d \in Digest, NEW f \in Filename, NEW p \in Kind
    PROVE  BlobKey(d, f, p) \in Key
  BY DEF Key, Kind

LEMMA KeysOfIsBuilt ==
    ASSUME NEW f \in Filename, NEW d \in Digest, NEW k \in KeysOf(f, d)
    PROVE  k \in Key /\ \E p \in Kind : k = BlobKey(d, f, p)
  BY DEF KeysOf, Key, Kind

LEMMA JobTypes ==
    ASSUME NEW j \in Job
    PROVE  /\ j # NoJob
           /\ j.op \in Operations
           /\ j.op = "upload" => j.filename \in Filename /\ j.sha256 \in Digest
           /\ j.op # "upload" => j.project \in Project
           /\ j.op \notin {"upload", "delete_package"} => j.version \in Version
           /\ Target(j) \in Project
           /\ j.op = "upload" => JobVersion(j) \in Version
  BY ProjectOfAssumption, MetaVersionAssumption
     DEF Job, Upload, Change, Removal, NoJob, Operations, Target, JobVersion

LEMMA CompatibleIsSymmetric ==
    ASSUME NEW j, NEW k, Compatible(j, k)
    PROVE  Compatible(k, j)
  BY DEF Compatible

-----------------------------------------------------------------------------
(* The locals of the workers.                                              *)

LocalsOK ==
    /\ pc \in [Worker -> Step]
    /\ job \in [Worker -> Job \cup {NoJob}]
    /\ pid \in [Worker -> Id \cup {NoId}]
    /\ rid \in [Worker -> Id \cup {NoId}]
    /\ refresh \in [Worker -> BOOLEAN]
    /\ todo \in [Worker -> SUBSET Key]
    /\ reply \in [Worker -> Answer]
    /\ gone \subseteq Worker
    /\ \A w \in Worker : JobFits(w)

LEMMA FinishOK ==
    ASSUME LocalsOK, NEW w \in Worker, NEW answer \in Answer, Finish(w, answer)
    PROVE  LocalsOK'
  BY DEF LocalsOK, Finish, JobFits, NoId, Step, UploadSteps, ChangeSteps

(* A step within a request: the next one fits the request too. *)
StepFits(j, step) ==
    /\ step \in UploadSteps => j.op = "upload"
    /\ step \in ChangeSteps => j.op # "upload"
    /\ step = "find_release" => j.op # "delete_package"
    /\ step = "set_yanked" => j.op \in {"yank", "unyank"}
    /\ step \in {"list_files", "delete_row"} => Deletes(j)
    /\ step = "drop_blobs" => j.op = "upload" \/ Deletes(j)

LEMMA GotoOK ==
    ASSUME LocalsOK, NEW w \in Worker, NEW step \in Step \ {"idle"},
           pc[w] # "idle", StepFits(job[w], step), Goto(w, step),
           pid' \in [Worker -> Id \cup {NoId}],
           rid' \in [Worker -> Id \cup {NoId}],
           refresh' \in [Worker -> BOOLEAN],
           todo' \in [Worker -> SUBSET Key]
    PROVE  LocalsOK'
  <1>1. pc' = [pc EXCEPT ![w] = step] /\ UNCHANGED <<job, reply, gone>>
    BY DEF Goto
  <1>2. ASSUME NEW v \in Worker PROVE JobFits(v)'
    <2>1. CASE v = w
      BY <1>1, <2>1 DEF LocalsOK, JobFits, StepFits
    <2>2. CASE v # w
      BY <1>1, <2>2 DEF LocalsOK, JobFits
    <2>3. QED
      BY <2>1, <2>2
  <1>3. QED
    BY <1>1, <1>2 DEF LocalsOK

LEMMA DropOK ==
    ASSUME LocalsOK, NEW w \in Worker, NEW keys \in SUBSET Key,
           pc[w] # "idle", job[w].op = "upload" \/ Deletes(job[w]), Drop(w, keys)
    PROVE  LocalsOK'
  <1>1. Goto(w, "drop_blobs") /\ todo' = [todo EXCEPT ![w] = keys]
        /\ UNCHANGED <<pid, rid, refresh>>
    BY DEF Drop
  <1>2. StepFits(job[w], "drop_blobs")
    BY DEF StepFits, UploadSteps, ChangeSteps
  <1>3. "drop_blobs" \in Step \ {"idle"}
    BY DEF Step
  <1>4. todo' \in [Worker -> SUBSET Key]
    BY <1>1 DEF LocalsOK
  <1>5. QED
    BY <1>1, <1>2, <1>3, <1>4, GotoOK DEF LocalsOK

LEMMA KeysOfInKey ==
    ASSUME NEW f \in Filename, NEW d \in Digest
    PROVE  KeysOf(f, d) \subseteq Key
  BY KeysOfIsBuilt

LEMMA RollbackOK ==
    ASSUME LocalsOK, NEW w \in Worker, pc[w] \in UploadSteps, Rollback(w)
    PROVE  LocalsOK'
  <1>1. job[w] \in Job /\ job[w].op = "upload" /\ pc[w] # "idle"
    BY DEF LocalsOK, JobFits, UploadSteps
  <1>2. KeysOf(job[w].filename, job[w].sha256) \subseteq Key
    BY <1>1, JobTypes, KeysOfInKey
  <1>3. QED
    BY <1>1, <1>2, DropOK DEF Rollback

LEMMA DecideOK ==
    ASSUME LocalsOK, NEW w \in Worker, pc[w] \in UploadSteps,
           NEW b \in BOOLEAN, Decide(w, b)
    PROVE  LocalsOK'
  <1>1. job[w].op = "upload" /\ pc[w] # "idle"
    BY DEF LocalsOK, JobFits, UploadSteps
  <1>2. Goto(w, "upsert") /\ pid' = [pid EXCEPT ![w] = NoId]
        /\ refresh' = [refresh EXCEPT ![w] = b] /\ UNCHANGED <<rid, todo>>
    BY DEF Decide
  <1>3. "upsert" \in Step \ {"idle"}
    BY DEF Step, UploadSteps
  <1>4. StepFits(job[w], "upsert")
    BY <1>1 DEF StepFits, ChangeSteps
  <1>5. pid' \in [Worker -> Id \cup {NoId}] /\ refresh' \in [Worker -> BOOLEAN]
    BY <1>2 DEF LocalsOK
  <1>6. QED
    BY <1>1, <1>2, <1>3, <1>4, <1>5, GotoOK DEF LocalsOK

LEMMA LocalsInit == Init => LocalsOK
  BY DEF Init, Idle, LocalsOK, JobFits, Step, UploadSteps, ChangeSteps, Answer, NoId

(* An action that leaves the locals alone but for one step within a        *)
(* request.                                                                *)
LEMMA PlainGotoOK ==
    ASSUME LocalsOK, NEW w \in Worker, NEW step \in Step \ {"idle"},
           pc[w] # "idle", StepFits(job[w], step), Goto(w, step), UNCHANGED locals
    PROVE  LocalsOK'
  <1>1. UNCHANGED <<pid, rid, refresh, todo>>
    BY DEF locals
  <1>2. QED
    BY <1>1, GotoOK DEF LocalsOK

LEMMA IngestLocals ==
    ASSUME LocalsOK, CatalogTypeOK, NEW w \in Worker, Ingest(w)
    PROVE  LocalsOK'
  <1> USE DEF At, Queries
  <1>0. \A step \in UploadSteps :
          pc[w] \in UploadSteps =>
            step \in Step \ {"idle"} /\ StepFits(job[w], step)
            /\ pc[w] # "idle" /\ job[w] \in Job /\ job[w].op = "upload"
    BY DEF LocalsOK, JobFits, Step, StepFits, UploadSteps, ChangeSteps
  <1>1. CASE CheckFileExists(w)
    <2>1. pc[w] \in UploadSteps /\ "put_dist" \in UploadSteps /\ "file_exists" \in Answer
      BY <1>1 DEF CheckFileExists, UploadSteps, Answer
    <2>2. QED
      BY <1>0, <1>1, <2>1, FinishOK, PlainGotoOK DEF CheckFileExists
  <1>2. CASE RejectFile(w)
    BY <1>2, FinishOK DEF RejectFile, Answer
  <1>3. CASE PutDist(w)
    <2>1. /\ pc[w] \in UploadSteps /\ "error" \in Answer
          /\ "put_metadata" \in UploadSteps /\ "get_existing" \in UploadSteps
      BY <1>3 DEF PutDist, UploadSteps, Answer
    <2>2. QED
      BY <1>0, <1>3, <2>1, FinishOK, PlainGotoOK DEF PutDist
  <1>4. CASE PutMetadata(w)
    <2>1. pc[w] \in UploadSteps /\ "get_existing" \in UploadSteps
      BY <1>4 DEF PutMetadata, UploadSteps
    <2>2. {BlobKey(job[w].sha256, job[w].filename, "dist")} \in SUBSET Key
      BY <1>0, <2>1, JobTypes, BuiltIsKey DEF Kind
    <2>3. QED
      BY <1>0, <1>4, <2>1, <2>2, DropOK, PlainGotoOK DEF PutMetadata
  <1>5. CASE GetExisting(w)
    <2>1. pc[w] \in UploadSteps /\ "latest_version" \in UploadSteps
      BY <1>5 DEF GetExisting, UploadSteps
    <2>2. CASE Decide(w, TRUE)
      BY <2>1, <2>2, DecideOK
    <2>3. ASSUME NEW p \in packages, pid' = [pid EXCEPT ![w] = p.id],
                 Goto(w, "latest_version"), UNCHANGED <<rid, refresh, todo>>
          PROVE  LocalsOK'
      <3>1. pid' \in [Worker -> Id \cup {NoId}]
        BY <2>3 DEF LocalsOK, CatalogTypeOK, PackageRow
      <3>2. QED
        BY <1>0, <2>1, <2>3, <3>1, GotoOK DEF LocalsOK
    <2>4. QED
      BY <1>5, <2>2, <2>3 DEF GetExisting
  <1>6. CASE LatestVersion(w)
    BY <1>6, DecideOK DEF LatestVersion, UploadSteps, AtLeastLatest
  <1>7. CASE Upsert(w)
    <2>1. /\ pc[w] \in UploadSteps
          /\ "refresh" \in UploadSteps /\ "reload" \in UploadSteps
      BY <1>7 DEF Upsert, UploadSteps
    <2>2. QED
      BY <1>0, <1>7, <2>1, PlainGotoOK DEF Upsert
  <1>8. CASE Refresh(w)
    <2>1. pc[w] \in UploadSteps /\ "reload" \in UploadSteps
      BY <1>8 DEF Refresh, UploadSteps
    <2>2. QED
      BY <1>0, <1>8, <2>1, PlainGotoOK DEF Refresh
  <1>9. CASE Reload(w)
    <2>1. pc[w] \in UploadSteps /\ "insert_release" \in UploadSteps
      BY <1>9 DEF Reload, UploadSteps
    <2>2. ASSUME NEW p \in packages, pid' = [pid EXCEPT ![w] = p.id],
                 Goto(w, "insert_release"), UNCHANGED <<rid, refresh, todo>>
          PROVE  LocalsOK'
      <3>1. pid' \in [Worker -> Id \cup {NoId}]
        BY <2>2 DEF LocalsOK, CatalogTypeOK, PackageRow
      <3>2. QED
        BY <1>0, <2>1, <2>2, <3>1, GotoOK DEF LocalsOK
    <2>3. QED
      BY <1>9, <2>1, <2>2, RollbackOK DEF Reload
  <1>10. CASE CreateRelease(w)
    <2>1. pc[w] \in UploadSteps /\ "get_release" \in UploadSteps
      BY <1>10 DEF CreateRelease, UploadSteps
    <2>2. QED
      BY <1>0, <1>10, <2>1, RollbackOK, PlainGotoOK DEF CreateRelease
  <1>11. CASE GetRelease(w)
    <2>1. pc[w] \in UploadSteps /\ "create_file" \in UploadSteps
      BY <1>11 DEF GetRelease, UploadSteps
    <2>2. ASSUME NEW r \in releases, rid' = [rid EXCEPT ![w] = r.id],
                 Goto(w, "create_file"), UNCHANGED <<pid, refresh, todo>>
          PROVE  LocalsOK'
      <3>1. rid' \in [Worker -> Id \cup {NoId}]
        BY <2>2 DEF LocalsOK, CatalogTypeOK, ReleaseRow
      <3>2. QED
        BY <1>0, <2>1, <2>2, <3>1, GotoOK DEF LocalsOK
    <2>3. QED
      BY <1>11, <2>1, <2>2, RollbackOK DEF GetRelease
  <1>12. CASE IndexFile(w)
    <2>1. pc[w] \in UploadSteps /\ "ok" \in Answer
      BY <1>12 DEF IndexFile, UploadSteps, Answer
    <2>2. QED
      BY <1>12, <2>1, RollbackOK, FinishOK DEF IndexFile
  <1>13. QED
    BY <1>1, <1>2, <1>3, <1>4, <1>5, <1>6, <1>7, <1>8, <1>9, <1>10, <1>11, <1>12
       DEF Ingest

LEMMA DoomedAreFiles ==
    ASSUME NEW w \in Worker
    PROVE  DoomedFiles(w) \subseteq files
  BY DEF DoomedFiles, PackageFiles, ReleaseFiles

LEMMA AdministerLocals ==
    ASSUME LocalsOK, CatalogTypeOK, NEW w \in Worker, Administer(w)
    PROVE  LocalsOK'
  <1> USE DEF At, Queries
  <1>0. ASSUME pc[w] \in ChangeSteps
        PROVE  pc[w] # "idle" /\ job[w] \in Job /\ job[w].op # "upload"
    BY <1>0 DEF LocalsOK, JobFits, ChangeSteps
  <1>1. CASE LookupPackage(w)
    <2>1. pc[w] \in ChangeSteps /\ "not_found" \in Answer
      BY <1>1 DEF LookupPackage, ChangeSteps, Answer
    <2> DEFINE next == IF job[w].op = "delete_package"
                       THEN "list_files" ELSE "find_release"
    <2>2. next \in Step \ {"idle"} /\ StepFits(job[w], next)
      BY <1>0, <2>1 DEF Step, StepFits, ChangeSteps, UploadSteps, Deletes
    <2>3. ASSUME NEW p \in packages, pid' = [pid EXCEPT ![w] = p.id],
                 Goto(w, next), UNCHANGED <<rid, refresh, todo>>
          PROVE  LocalsOK'
      <3>1. pid' \in [Worker -> Id \cup {NoId}]
        BY <2>3 DEF LocalsOK, CatalogTypeOK, PackageRow
      <3>2. QED
        BY <1>0, <2>1, <2>2, <2>3, <3>1, GotoOK DEF LocalsOK
    <2>4. QED
      BY <1>1, <2>1, <2>3, FinishOK DEF LookupPackage
  <1>2. CASE LookupRelease(w)
    <2>1. pc[w] \in ChangeSteps /\ "not_found" \in Answer /\ pc[w] = "find_release"
      BY <1>2 DEF LookupRelease, ChangeSteps, Answer
    <2> DEFINE next == IF job[w].op = "delete_release"
                       THEN "list_files" ELSE "set_yanked"
    <2>2. job[w].op \in {"delete_release", "yank", "unyank"}
      BY <1>0, <2>1, JobTypes DEF LocalsOK, JobFits, Operations
    <2>3. next \in Step \ {"idle"} /\ StepFits(job[w], next)
      BY <2>2 DEF Step, StepFits, ChangeSteps, UploadSteps, Deletes
    <2>4. ASSUME NEW r \in releases, rid' = [rid EXCEPT ![w] = r.id],
                 Goto(w, next), UNCHANGED <<pid, refresh, todo>>
          PROVE  LocalsOK'
      <3>1. rid' \in [Worker -> Id \cup {NoId}]
        BY <2>4 DEF LocalsOK, CatalogTypeOK, ReleaseRow
      <3>2. QED
        BY <1>0, <2>1, <2>3, <2>4, <3>1, GotoOK DEF LocalsOK
    <2>5. QED
      BY <1>2, <2>1, <2>4, FinishOK DEF LookupRelease
  <1>3. CASE YankRelease(w)
    BY <1>3, FinishOK DEF YankRelease, Answer
  <1>4. CASE ListFiles(w)
    <2>1. pc[w] \in ChangeSteps /\ pc[w] = "list_files"
      BY <1>4 DEF ListFiles, ChangeSteps
    <2>2. StepFits(job[w], "delete_row") /\ "delete_row" \in Step \ {"idle"}
      BY <1>0, <2>1 DEF LocalsOK, JobFits, StepFits, Step, ChangeSteps, UploadSteps
    <2> DEFINE keys == UNION {KeysOf(f.filename, f.sha256) : f \in DoomedFiles(w)}
    <2>3. keys \in SUBSET Key
      BY DoomedAreFiles, KeysOfInKey DEF CatalogTypeOK, FileRow
    <2>4. todo' = [todo EXCEPT ![w] = keys]
      BY <1>4 DEF ListFiles
    <2> HIDE DEF keys
    <2>5. todo' \in [Worker -> SUBSET Key]
      BY <2>3, <2>4 DEF LocalsOK
    <2>6. Goto(w, "delete_row") /\ UNCHANGED <<pid, rid, refresh>>
      BY <1>4 DEF ListFiles
    <2>7. QED
      BY <1>0, <2>1, <2>2, <2>5, <2>6, GotoOK DEF LocalsOK
  <1>5. CASE DeleteRow(w)
    <2>1. pc[w] \in ChangeSteps /\ pc[w] = "delete_row" /\ "ok" \in Answer
      BY <1>5 DEF DeleteRow, ChangeSteps, Answer
    <2>2. Deletes(job[w]) /\ todo[w] \in SUBSET Key
      BY <2>1 DEF LocalsOK, JobFits
    <2>3. QED
      BY <1>0, <1>5, <2>1, <2>2, FinishOK, DropOK DEF DeleteRow
  <1>6. QED
    BY <1>1, <1>2, <1>3, <1>4, <1>5 DEF Administer

LEMMA DropBlobLocals ==
    ASSUME LocalsOK, NEW w \in Worker, DropBlob(w)
    PROVE  LocalsOK'
  <1>1. PICK k \in todo[w] :
          \/ /\ todo' = [todo EXCEPT ![w] = @ \ {k}]
             /\ UNCHANGED <<pc, job, pid, rid, refresh, reply, gone>>
          \/ Finish(w, IF job[w].op = "upload" THEN "error" ELSE "ok")
    BY DEF DropBlob
  <1>2. CASE Finish(w, IF job[w].op = "upload" THEN "error" ELSE "ok")
    BY <1>2, FinishOK DEF Answer
  <1>3. CASE /\ todo' = [todo EXCEPT ![w] = @ \ {k}]
             /\ UNCHANGED <<pc, job, pid, rid, refresh, reply, gone>>
    BY <1>3 DEF LocalsOK, JobFits
  <1>4. QED
    BY <1>1, <1>2, <1>3

LEMMA StatementFailsLocals ==
    ASSUME LocalsOK, NEW w \in Worker, StatementFails(w)
    PROVE  LocalsOK'
  BY DecideOK, RollbackOK, FinishOK DEF StatementFails, UploadSteps, Answer

LEMMA StartLocals ==
    ASSUME LocalsOK, NEW w \in Worker, NEW j \in Job, Start(w, j)
    PROVE  LocalsOK'
  <1> DEFINE first == IF j.op = "upload" THEN "file_exists" ELSE "get_package"
  <1>1. /\ pc' = [pc EXCEPT ![w] = first] /\ job' = [job EXCEPT ![w] = j]
        /\ reply' = [reply EXCEPT ![w] = "none"]
        /\ UNCHANGED <<pid, rid, refresh, todo, gone>>
    BY DEF Start
  <1>2. first \in Step
    BY DEF Step, UploadSteps, ChangeSteps
  <1>3. ASSUME NEW v \in Worker PROVE JobFits(v)'
    <2>1. CASE v = w
      <3>1. pc'[w] = first /\ job'[w] = j
        BY <1>1 DEF LocalsOK
      <3>2. QED
        BY <2>1, <3>1 DEF JobFits, UploadSteps, ChangeSteps
    <2>2. CASE v # w
      BY <1>1, <2>2 DEF LocalsOK, JobFits
    <2>3. QED
      BY <2>1, <2>2
  <1>4. QED
    BY <1>1, <1>2, <1>3 DEF LocalsOK, Answer

LEMMA ClientGoesLocals ==
    ASSUME LocalsOK, NEW w \in Worker, ClientGoes(w)
    PROVE  LocalsOK'
  BY DEF ClientGoes, locals, LocalsOK, JobFits

LEMMA CrashLocals == LocalsOK /\ Crash => LocalsOK'
  BY DEF Crash, LocalsOK, JobFits, Step, UploadSteps, ChangeSteps, Answer, NoId

-----------------------------------------------------------------------------
(* The rows.                                                               *)

YoungOK == young \in [Worker -> SUBSET Id]

LEMMA BaseParts ==
    Base <=> LocalsOK /\ CatalogOK /\ Blob!TypeOK /\ KeyedByContent /\ YoungOK
  BY DEF Base, TypeOK, RowsConsistent, LocalsOK, CatalogOK, YoungOK

LEMMA RememberOK ==
    ASSUME CatalogOK', Remember
    PROVE  YoungOK'
  <1> DEFINE now(w) == {r.id : r \in {q \in releases' : q.id \in young[w] \/ IsNew(q)}}
             then(w) == IF pc'[w] = "idle" \/ job'[w].op = "upload" THEN {} ELSE now(w)
  <1>1. young' = [w \in Worker |-> then(w)]
    BY DEF Remember
  <1>2. \A w \in Worker : now(w) \subseteq Id
    BY DEF CatalogOK, CatalogTypeOK, ReleaseRow
  <1> HIDE DEF now
  <1>3. QED
    BY <1>1, <1>2 DEF YoungOK

(* No step touches the rows but the six that run a writing statement. *)
LEMMA IngestRows ==
    ASSUME LocalsOK, CatalogOK, NEW w \in Worker, Ingest(w)
    PROVE  CatalogOK'
  <1> USE DEF At, Queries
  <1>1. CASE UNCHANGED catalog
    BY <1>1, UnchangedOK
  <1>2. ASSUME pc[w] \in UploadSteps
        PROVE  /\ Target(job[w]) \in Project /\ JobVersion(job[w]) \in Version
               /\ job[w].filename \in Filename /\ job[w].sha256 \in Digest
    BY <1>2, JobTypes DEF LocalsOK, JobFits, UploadSteps
  <1>3. CASE Upsert(w)
    BY <1>2, <1>3, InsertPackageOK DEF Upsert, UploadSteps
  <1>4. CASE Refresh(w)
    BY <1>2, <1>4, RefreshPackageOK DEF Refresh, UploadSteps
  <1>5. CASE CreateRelease(w)
    <2>1. CASE MayInsertRelease(pid[w]) /\ InsertRelease(pid[w], JobVersion(job[w]))
      <3>1. pid[w] \in Id
        BY <2>1 DEF MayInsertRelease, CatalogOK, CatalogTypeOK, PackageRow
      <3>2. QED
        BY <1>2, <1>5, <2>1, <3>1, InsertReleaseOK DEF CreateRelease, UploadSteps
    <2>2. QED
      BY <1>1, <1>5, <2>1 DEF CreateRelease
  <1>6. CASE IndexFile(w)
    <2>1. CASE /\ MayCreateFile(rid[w], job[w].filename)
               /\ CreateFile(rid[w], job[w].filename, job[w].sha256)
      <3>1. rid[w] \in Id
        BY <2>1 DEF MayCreateFile, CatalogOK, CatalogTypeOK, ReleaseRow
      <3>2. QED
        BY <1>2, <1>6, <2>1, <3>1, CreateFileOK DEF IndexFile, UploadSteps
    <2>2. QED
      BY <1>1, <1>6, <2>1 DEF IndexFile
  <1>7. QED
    BY <1>1, <1>3, <1>4, <1>5, <1>6
       DEF Ingest, CheckFileExists, RejectFile, PutDist, PutMetadata,
           GetExisting, LatestVersion, Reload, GetRelease, catalog

LEMMA AdministerRows ==
    ASSUME CatalogOK, NEW w \in Worker, Administer(w)
    PROVE  CatalogOK'
  <1>1. CASE UNCHANGED catalog
    BY <1>1, UnchangedOK
  <1>2. CASE YankRelease(w)
    BY <1>2, SetYankedOK DEF YankRelease
  <1>3. CASE DeleteRow(w)
    BY <1>3, DeletePackageOK, DeleteReleaseOK DEF DeleteRow
  <1>4. QED
    BY <1>1, <1>2, <1>3 DEF Administer, LookupPackage, LookupRelease, ListFiles

LEMMA OtherRows ==
    ASSUME NEW w \in Worker,
           \/ \E j \in Job : Start(w, j)
           \/ DropBlob(w) \/ StatementFails(w) \/ ClientGoes(w) \/ Crash
    PROVE  UNCHANGED catalog
  BY DEF Start, DropBlob, StatementFails, ClientGoes, Crash

-----------------------------------------------------------------------------
(* The objects.                                                            *)

BlobsOK == Blob!TypeOK /\ KeyedByContent

LEMMA PutOK ==
    ASSUME BlobsOK, NEW d \in Digest, NEW f \in Filename, NEW p \in Kind,
           Blob!Put(BlobKey(d, f, p), d)
    PROVE  BlobsOK'
  <1> DEFINE key == BlobKey(d, f, p)
  <1>1. key \in Key
    BY BuiltIsKey
  <1>2. blobs' = [blobs EXCEPT ![key] = d]
    BY DEF Blob!Put
  <1> HIDE DEF key
  <1>3. Blob!TypeOK'
    BY <1>1, <1>2 DEF BlobsOK, Blob!TypeOK
  <1>4. ASSUME NEW e \in Digest, NEW g \in Filename, NEW q \in Kind
        PROVE  blobs'[BlobKey(e, g, q)] \in {e, Absent, Part}
    <2>1. BlobKey(e, g, q) \in Key /\ blobs[BlobKey(e, g, q)] \in {e, Absent, Part}
      BY BuiltIsKey DEF BlobsOK, KeyedByContent
    <2>2. BlobKey(e, g, q) = key => e = d
      BY KeyInjective DEF key
    <2>3. QED
      BY <1>1, <1>2, <2>1, <2>2 DEF BlobsOK, Blob!TypeOK
  <1>5. QED
    BY <1>3, <1>4 DEF BlobsOK, KeyedByContent

LEMMA DeleteOK ==
    ASSUME BlobsOK, NEW k \in Key, Blob!Delete(k) \/ Blob!PutBreaks(k)
    PROVE  BlobsOK'
  <1>1. PICK o \in {Absent, Part} : blobs' = [blobs EXCEPT ![k] = o]
    BY DEF Blob!Delete, Blob!PutBreaks
  <1>2. Blob!TypeOK'
    BY <1>1 DEF BlobsOK, Blob!TypeOK
  <1>3. ASSUME NEW e \in Digest, NEW g \in Filename, NEW q \in Kind
        PROVE  blobs'[BlobKey(e, g, q)] \in {e, Absent, Part}
    <2>1. BlobKey(e, g, q) \in Key /\ blobs[BlobKey(e, g, q)] \in {e, Absent, Part}
      BY BuiltIsKey DEF BlobsOK, KeyedByContent
    <2>2. QED
      BY <1>1, <2>1 DEF BlobsOK, Blob!TypeOK
  <1>4. QED
    BY <1>2, <1>3 DEF BlobsOK, KeyedByContent

LEMMA PutEndsOK ==
    ASSUME BlobsOK, NEW w \in Worker,
           NEW d \in Digest, NEW f \in Filename, NEW p \in Kind,
           PutObject(w, BlobKey(d, f, p), d) \/ PutObjectFails(w, BlobKey(d, f, p), d)
    PROVE  BlobsOK'
  <1>1. BlobKey(d, f, p) \in Key
    BY BuiltIsKey
  <1>2. CASE UNCHANGED blobs
    BY <1>2 DEF BlobsOK, Blob!TypeOK, KeyedByContent
  <1>3. QED
    BY <1>1, <1>2, PutOK, DeleteOK DEF PutObject, PutObjectFails, Blob!PutFails

LEMMA SameBlobsOK == BlobsOK /\ UNCHANGED blobs => BlobsOK'
  BY DEF BlobsOK, Blob!TypeOK, KeyedByContent

LEMMA WorkerBlobs ==
    ASSUME LocalsOK, BlobsOK, NEW w \in Worker,
           \/ \E j \in Job : Start(w, j)
           \/ Ingest(w) \/ Administer(w) \/ DropBlob(w)
           \/ StatementFails(w) \/ ClientGoes(w)
    PROVE  BlobsOK'
  <1> USE DEF At, Queries
  <1>1. CASE UNCHANGED blobs
    BY <1>1, SameBlobsOK
  <1>2. ASSUME pc[w] \in UploadSteps
        PROVE  job[w].filename \in Filename /\ job[w].sha256 \in Digest
    BY <1>2, JobTypes DEF LocalsOK, JobFits, UploadSteps
  <1>3. CASE PutDist(w)
    BY <1>2, <1>3, PutEndsOK DEF PutDist, UploadSteps, Kind
  <1>4. CASE PutMetadata(w)
    BY <1>2, <1>4, PutEndsOK DEF PutMetadata, UploadSteps, Kind
  <1>5. CASE DropBlob(w)
    <2>1. PICK k \in todo[w] : DeleteObject(w, k)
      BY <1>5 DEF DropBlob
    <2>2. k \in Key
      BY DEF LocalsOK
    <2>3. QED
      BY <1>1, <2>1, <2>2, DeleteOK DEF DeleteObject, Blob!DeleteFails
  <1>6. QED
    BY <1>1, <1>3, <1>4, <1>5
       DEF Start, Ingest, CheckFileExists, RejectFile, GetExisting, LatestVersion,
           Upsert, Refresh, Reload, CreateRelease, GetRelease, IndexFile,
           Administer, LookupPackage, LookupRelease, YankRelease, ListFiles,
           DeleteRow, StatementFails, ClientGoes

-----------------------------------------------------------------------------
(* Base is inductive.                                                      *)

LEMMA BaseInit == Init => Base
  <1> SUFFICES ASSUME Init PROVE Base
    OBVIOUS
  <1>1. CatalogOK
    BY InitOK DEF Init
  <1>0. YoungOK
    BY DEF Init, YoungOK
  <1>2. Blob!TypeOK /\ KeyedByContent
    BY BuiltIsKey DEF Init, Blob!Init, Blob!TypeOK, KeyedByContent
  <1>3. QED
    BY <1>0, <1>1, <1>2, LocalsInit, BaseParts

RestOK == LocalsOK /\ CatalogOK /\ BlobsOK

LEMMA BaseStep == Base /\ [Next]_vars => Base'
  <1> SUFFICES ASSUME Base, [Next]_vars PROVE Base'
    OBVIOUS
  <1>0. LocalsOK /\ CatalogOK /\ CatalogTypeOK /\ BlobsOK /\ YoungOK
    BY BaseParts DEF BlobsOK, CatalogOK
  <1>1. CASE UNCHANGED vars
    <2>1. RestOK' /\ YoungOK'
      BY <1>0, <1>1, UnchangedOK, SameBlobsOK
         DEF vars, request, catalog, LocalsOK, JobFits, YoungOK, RestOK
    <2>2. QED
      BY <2>1 DEF Base, TypeOK, RowsConsistent, LocalsOK, CatalogOK, BlobsOK, YoungOK,
             RestOK
  <1>2. CASE Next
    <2>1. ASSUME Crash PROVE RestOK'
      BY <1>0, <2>1, UnchangedOK, SameBlobsOK, CrashLocals DEF Crash, RestOK
    <2>2. ASSUME NEW w \in Worker, NEW j \in Job, Start(w, j)
          PROVE  RestOK'
      BY <1>0, <2>2, StartLocals, OtherRows, UnchangedOK, WorkerBlobs DEF RestOK
    <2>3. ASSUME NEW w \in Worker, Ingest(w)
          PROVE  RestOK'
      BY <1>0, <2>3, IngestLocals, IngestRows, WorkerBlobs DEF RestOK
    <2>4. ASSUME NEW w \in Worker, Administer(w)
          PROVE  RestOK'
      BY <1>0, <2>4, AdministerLocals, AdministerRows, WorkerBlobs DEF RestOK
    <2>5. ASSUME NEW w \in Worker, DropBlob(w)
          PROVE  RestOK'
      BY <1>0, <2>5, DropBlobLocals, OtherRows, UnchangedOK, WorkerBlobs DEF RestOK
    <2>6. ASSUME NEW w \in Worker, StatementFails(w)
          PROVE  RestOK'
      BY <1>0, <2>6, StatementFailsLocals, OtherRows, UnchangedOK, WorkerBlobs DEF RestOK
    <2>7. ASSUME NEW w \in Worker, ClientGoes(w)
          PROVE  RestOK'
      BY <1>0, <2>7, ClientGoesLocals, OtherRows, UnchangedOK, WorkerBlobs DEF RestOK
    <2>8. RestOK'
      BY <1>2, <2>1, <2>2, <2>3, <2>4, <2>5, <2>6, <2>7 DEF Next
    <2>9. YoungOK'
      BY <1>2, <2>8, RememberOK DEF Next, RestOK
    <2>10. QED
      BY <2>8, <2>9 DEF Base, TypeOK, RowsConsistent, LocalsOK, CatalogOK, BlobsOK, YoungOK,
             RestOK
  <1>3. QED
    BY <1>1, <1>2

(* Every reachable state is well typed: rows, objects, and the locals of   *)
(* every handler at every statement.                                       *)
THEOREM TypeCorrect == Spec => []TypeOK
  <1>1. Base => TypeOK
    BY DEF Base
  <1>2. QED
    BY <1>1, BaseInit, BaseStep, PTL DEF Spec

(* The constraints of the schema survive every interleaving of handlers    *)
(* that carry stale ids across their statements.                           *)
THEOREM RowsStayConsistent == Spec => []RowsConsistent
  <1>1. Base => RowsConsistent
    BY DEF Base
  <1>2. QED
    BY <1>1, BaseInit, BaseStep, PTL DEF Spec

(* Whatever uploads overlap, the object an index row points to holds the   *)
(* bytes the row promises, or is missing.                                  *)
THEOREM BytesMatch == Spec => []StoredBytesMatch
  <1>1. Base => StoredBytesMatch
    <2> SUFFICES ASSUME Base, NEW f \in files, NEW k \in KeysOf(f.filename, f.sha256)
                 PROVE  blobs[k] \in {f.sha256, Absent, Part}
      BY DEF StoredBytesMatch
    <2>1. f.filename \in Filename /\ f.sha256 \in Digest
      BY DEF Base, TypeOK, CatalogTypeOK, FileRow
    <2>2. PICK p \in Kind : k = BlobKey(f.sha256, f.filename, p)
      BY <2>1, KeysOfIsBuilt
    <2>3. QED
      BY <2>1, <2>2 DEF Base, KeyedByContent
  <1>2. QED
    BY <1>1, BaseInit, BaseStep, PTL DEF Spec

-----------------------------------------------------------------------------
(* Effects.                                                                *)

OthersSame(w) ==
    \A v \in Worker \ {w} :
        /\ pc'[v] = pc[v] /\ job'[v] = job[v]
        /\ pid'[v] = pid[v] /\ rid'[v] = rid[v] /\ todo'[v] = todo[v]

(* Rows may be added or refreshed, none loses what others know it by. *)
RowsKept ==
    /\ \A p \in packages : \E q \in packages' : q.id = p.id /\ q.name = p.name
    /\ \A r \in releases : \E s \in releases' :
          s.id = r.id /\ s.package_id = r.package_id /\ s.version = r.version

Grows == RowsKept /\ files' = files /\ blobs' = blobs

NewFile(w) == [release_id |-> rid[w], filename |-> job[w].filename,
               sha256 |-> job[w].sha256]

Indexes(w) ==
    /\ pc[w] = "create_file"
    /\ UNCHANGED <<packages, releases, blobs>>
    /\ files' = files \cup {NewFile(w)}

Removes(w) ==
    /\ pc[w] = "delete_row"
    /\ \/ job[w].op = "delete_package" /\ DeletePackage(pid[w])
       \/ job[w].op = "delete_release" /\ DeleteRelease(rid[w])
    /\ UNCHANGED blobs

Touches(w) ==
    /\ pc[w] # "idle"
    /\ UNCHANGED catalog
    /\ \E d \in Digest, f \in Filename, p \in Kind :
          /\ \A k \in Key : k # BlobKey(d, f, p) => blobs'[k] = blobs[k]
          /\ ~ FileExists(f)
          /\ \/ job[w].op = "upload" /\ f = job[w].filename
             \/ Deletes(job[w]) /\ ProjectOf[f] = job[w].project

Effect(w) == Grows \/ Indexes(w) \/ Removes(w) \/ Touches(w)

WorkerStep(w) ==
    Ingest(w) \/ Administer(w) \/ DropBlob(w) \/ StatementFails(w) \/ ClientGoes(w)

LEMMA StillGrows == UNCHANGED <<catalog, blobs>> => Grows
  BY DEF catalog, Grows, RowsKept

LEMMA StepIsLocal ==
    ASSUME LocalsOK, NEW w \in Worker,
           WorkerStep(w) \/ \E j \in Job : Start(w, j)
    PROVE  OthersSame(w)
  <1>1. CASE \E j \in Job : Start(w, j)
    BY <1>1 DEF Start, OthersSame, LocalsOK
  <1> DEFINE Same == OthersSame(w)
  <1>2. ASSUME NEW a, Finish(w, a) PROVE Same
    BY <1>2 DEF Finish, OthersSame, LocalsOK
  <1>3. ASSUME NEW s, Goto(w, s), UNCHANGED locals PROVE Same
    BY <1>3 DEF Goto, locals, OthersSame, LocalsOK
  <1>4. ASSUME NEW s, NEW n, Goto(w, s), pid' = [pid EXCEPT ![w] = n], UNCHANGED <<rid, todo>>
        PROVE  Same
    BY <1>4 DEF Goto, OthersSame, LocalsOK
  <1>5. ASSUME NEW s, NEW n, Goto(w, s), rid' = [rid EXCEPT ![w] = n], UNCHANGED <<pid, todo>>
        PROVE  Same
    BY <1>5 DEF Goto, OthersSame, LocalsOK
  <1>6. ASSUME NEW s, NEW n, Goto(w, s), todo' = [todo EXCEPT ![w] = n], UNCHANGED <<pid, rid>>
        PROVE  Same
    BY <1>6 DEF Goto, OthersSame, LocalsOK
  <1>7. ASSUME NEW keys, Drop(w, keys) PROVE Same
    BY <1>6, <1>7 DEF Drop
  <1>8. ASSUME NEW b, Decide(w, b) PROVE Same
    BY <1>4, <1>8 DEF Decide
  <1>9. CASE Ingest(w)
    BY <1>2, <1>3, <1>4, <1>5, <1>7, <1>8, <1>9
       DEF Ingest, CheckFileExists, RejectFile, PutDist, PutMetadata, GetExisting,
           LatestVersion, Upsert, Refresh, Reload, CreateRelease, GetRelease,
           IndexFile, Rollback, locals
  <1>10. CASE Administer(w)
    BY <1>2, <1>4, <1>5, <1>6, <1>7, <1>10
       DEF Administer, LookupPackage, LookupRelease, YankRelease, ListFiles, DeleteRow
  <1>11. CASE DropBlob(w)
    <2>1. CASE \E a : Finish(w, a)
      BY <1>2, <2>1
    <2>2. CASE \E k \in todo[w] : /\ todo' = [todo EXCEPT ![w] = @ \ {k}]
                                  /\ UNCHANGED <<pc, job, pid, rid, refresh, reply, gone>>
      BY <2>2 DEF OthersSame, LocalsOK
    <2>3. QED
      BY <1>11, <2>1, <2>2 DEF DropBlob
  <1>12. CASE StatementFails(w)
    BY <1>2, <1>7, <1>8, <1>12 DEF StatementFails, Rollback
  <1>13. CASE ClientGoes(w)
    BY <1>13 DEF ClientGoes, locals, OthersSame
  <1>14. QED
    BY <1>1, <1>9, <1>10, <1>11, <1>12, <1>13 DEF WorkerStep

LEMMA InsertsGrow ==
    ASSUME CatalogOK, UNCHANGED <<files, blobs>>,
           \/ packages \subseteq packages' /\ UNCHANGED releases
           \/ releases \subseteq releases' /\ UNCHANGED packages
           \/ \E name, v : RefreshPackage(name, v)
           \/ \E n, y : SetYanked(n, y)
    PROVE  Grows
  <1>1. CASE \/ packages \subseteq packages' /\ UNCHANGED releases
             \/ releases \subseteq releases' /\ UNCHANGED packages
    BY <1>1 DEF Grows, RowsKept
  <1>2. ASSUME NEW name, NEW v, RefreshPackage(name, v) PROVE Grows
    <2> DEFINE upd(p) == IF p.name = name THEN [p EXCEPT !.summary = v] ELSE p
    <2>1. packages' = {upd(p) : p \in packages} /\ UNCHANGED releases
      BY <1>2 DEF RefreshPackage
    <2>2. \A p \in packages : upd(p).id = p.id /\ upd(p).name = p.name
      BY DEF CatalogOK, CatalogTypeOK, PackageRow
    <2> HIDE DEF upd
    <2>3. QED
      BY <2>1, <2>2 DEF Grows, RowsKept
  <1>3. ASSUME NEW n, NEW y, SetYanked(n, y) PROVE Grows
    <2> DEFINE upd(r) == IF r.id = n THEN [r EXCEPT !.yanked = y] ELSE r
    <2>1. releases' = {upd(r) : r \in releases} /\ UNCHANGED packages
      BY <1>3 DEF SetYanked
    <2>2. \A r \in releases : /\ upd(r).id = r.id /\ upd(r).package_id = r.package_id
                              /\ upd(r).version = r.version
      BY DEF CatalogOK, CatalogTypeOK, ReleaseRow
    <2> HIDE DEF upd
    <2>3. QED
      BY <2>1, <2>2 DEF Grows, RowsKept
  <1>4. QED
    BY <1>1, <1>2, <1>3

LEMMA PutTouches ==
    ASSUME Base, NEW w \in Worker, WorkerKept(w),
           pc[w] \in UploadSteps \ {"file_exists"}, NEW p \in Kind,
           UNCHANGED catalog, NEW key, key = BlobKey(job[w].sha256, job[w].filename, p),
           \/ PutObject(w, key, job[w].sha256)
           \/ PutObjectFails(w, key, job[w].sha256)
    PROVE  Effect(w)
  <1>1. /\ job[w].op = "upload" /\ pc[w] # "idle"
        /\ job[w].filename \in Filename /\ job[w].sha256 \in Digest
    BY BaseParts, JobTypes DEF LocalsOK, JobFits, UploadSteps
  <1>2. ~ FileExists(job[w].filename)
    BY DEF WorkerKept, UploadIsFresh
  <1>3. CASE \E o : blobs' = [blobs EXCEPT ![key] = o]
    <2>1. \A k \in Key : k # key => blobs'[k] = blobs[k]
      BY <1>3 DEF Base, TypeOK, Blob!TypeOK
    <2>2. QED
      BY <1>1, <1>2, <2>1 DEF Touches, Effect
  <1>4. CASE UNCHANGED blobs
    BY <1>4, StillGrows DEF Effect
  <1>5. QED
    BY <1>3, <1>4
       DEF PutObject, PutObjectFails, Blob!Put, Blob!PutFails, Blob!PutBreaks

LEMMA DropTouches ==
    ASSUME Base, NEW w \in Worker, WorkerKept(w),
           pc[w] = "drop_blobs", NEW k \in todo[w], UNCHANGED catalog, Blob!Delete(k)
    PROVE  Touches(w)
  <1>1. k \in Key
    BY DEF Base, TypeOK
  <1>2. PICK d \in Digest, f \in Filename, p \in Kind : k = BlobKey(d, f, p)
    BY <1>1, KeyIsBuilt
  <1>3. ~ FileExists(f)
    BY <1>2 DEF WorkerKept, DroppedAreUnindexed
  <1>4. \/ job[w].op = "upload" /\ f = job[w].filename
        \/ Deletes(job[w]) /\ ProjectOf[f] = job[w].project
    BY <1>2 DEF WorkerKept, OwnKeys
  <1>5. \A m \in Key : m # BlobKey(d, f, p) => blobs'[m] = blobs[m]
    BY <1>2 DEF Blob!Delete, Base, TypeOK, Blob!TypeOK
  <1>6. QED
    BY <1>3, <1>4, <1>5 DEF Touches

LEMMA StepHasEffect ==
    ASSUME Base, NEW w \in Worker, WorkerKept(w),
           WorkerStep(w) \/ \E j \in Job : Start(w, j)
    PROVE  Effect(w)
  <1> USE DEF At, Queries
  <1>0. CatalogOK
    BY BaseParts
  <1>1. CASE UNCHANGED <<catalog, blobs>>
    BY <1>1, StillGrows DEF Effect
  <1>2. CASE PutDist(w)
    BY <1>2, PutTouches DEF PutDist, UploadSteps, Kind
  <1>3. CASE PutMetadata(w)
    BY <1>3, PutTouches DEF PutMetadata, UploadSteps, Kind
  <1>4. CASE DropBlob(w)
    <2>1. PICK k \in todo[w] : DeleteObject(w, k)
      BY <1>4 DEF DropBlob
    <2>2. QED
      BY <1>1, <1>4, <2>1, DropTouches DEF DropBlob, DeleteObject, Blob!DeleteFails, Effect
  <1>5. CASE Upsert(w)
    <2>1. packages \subseteq packages' /\ UNCHANGED <<releases, files, blobs>>
      BY <1>5 DEF Upsert, InsertPackage
    <2>2. QED
      BY <1>0, <2>1, InsertsGrow DEF Effect
  <1>6. CASE Refresh(w)
    <2>1. RefreshPackage(Target(job[w]), JobVersion(job[w])) /\ UNCHANGED <<files, blobs>>
      BY <1>6 DEF Refresh, RefreshPackage
    <2>2. QED
      BY <1>0, <2>1, InsertsGrow DEF Effect
  <1>7. CASE CreateRelease(w)
    <2>1. CASE InsertRelease(pid[w], JobVersion(job[w]))
      <3>1. releases \subseteq releases' /\ UNCHANGED <<packages, files, blobs>>
        BY <1>7, <2>1 DEF CreateRelease, InsertRelease
      <3>2. QED
        BY <1>0, <3>1, InsertsGrow DEF Effect
    <2>2. QED
      BY <1>1, <1>7, <2>1 DEF CreateRelease
  <1>8. CASE IndexFile(w)
    BY <1>1, <1>8 DEF IndexFile, CreateFile, Effect, Indexes, NewFile
  <1>9. CASE YankRelease(w)
    <2>1. SetYanked(rid[w], job[w].op = "yank") /\ UNCHANGED <<files, blobs>>
      BY <1>9 DEF YankRelease, SetYanked
    <2>2. QED
      BY <1>0, <2>1, InsertsGrow DEF Effect
  <1>10. CASE DeleteRow(w)
    BY <1>10 DEF DeleteRow, Effect, Removes
  <1>11. QED
    BY <1>1, <1>2, <1>3, <1>4, <1>5, <1>6, <1>7, <1>8, <1>9, <1>10
       DEF WorkerStep, Start, Ingest, CheckFileExists, RejectFile, GetExisting,
           LatestVersion, Reload, GetRelease, Administer, LookupPackage,
           LookupRelease, ListFiles, StatementFails, ClientGoes

-----------------------------------------------------------------------------
(* What the discipline gives.                                              *)

LEMMA Apart ==
    ASSUME Base, Discipline # "none", Disciplined,
           NEW v \in Worker, NEW w \in Worker, v # w,
           pc[v] # "idle", pc[w] # "idle"
    PROVE  /\ Deletes(job[v]) \/ Deletes(job[w]) => Target(job[v]) # Target(job[w])
           /\ job[v].op = "upload" /\ job[w].op = "upload"
                => job[v].filename # job[w].filename
  BY DEF Disciplined, InFlight, Compatible, Target

LEMMA StepIsDisciplined ==
    ASSUME Base, Disciplined, NEW w \in Worker,
           WorkerStep(w) \/ \E j \in Job : Start(w, j)
    PROVE  Disciplined'
  <1>0. LocalsOK /\ OthersSame(w)
    BY BaseParts, StepIsLocal
  <1>1. ASSUME NEW j \in Job, Start(w, j) PROVE Disciplined'
    <2>1. /\ \A u \in InFlight : Compatible(j, job[u])
          /\ job'[w] = j
      BY <1>0, <1>1 DEF Start, LocalsOK
    <2>2. \A u \in Worker \ {w} : u \in InFlight' => u \in InFlight /\ job'[u] = job[u]
      BY <1>0 DEF OthersSame, InFlight
    <2>3. ASSUME NEW u \in InFlight', NEW v \in InFlight', u # v
          PROVE  Compatible(job'[u], job'[v])
      <3>1. u \in Worker /\ v \in Worker
        BY DEF InFlight
      <3>2. CASE u = w
        BY <2>1, <2>2, <2>3, <3>1, <3>2
      <3>3. CASE v = w
        BY <2>1, <2>2, <2>3, <3>1, <3>3, CompatibleIsSymmetric
      <3>4. CASE u # w /\ v # w
        BY <2>2, <2>3, <3>1, <3>4 DEF Disciplined
      <3>5. QED
        BY <3>2, <3>3, <3>4
    <2>4. QED
      BY <2>3 DEF Disciplined, Compatible
  <1>2. CASE WorkerStep(w)
    <2>1. pc[w] # "idle" /\ (pc'[w] # "idle" => job'[w] = job[w])
      BY <1>0, <1>2
         DEF LocalsOK, WorkerStep, Ingest, CheckFileExists, RejectFile, PutDist, PutMetadata,
             GetExisting, LatestVersion, Upsert, Refresh, Reload, CreateRelease,
             GetRelease, IndexFile, Administer, LookupPackage, LookupRelease,
             YankRelease, ListFiles, DeleteRow, DropBlob, StatementFails, ClientGoes,
             Rollback, Drop, Decide, Goto, Finish, At, Queries, ChangeSteps
    <2>2. \A u \in InFlight' : u \in InFlight /\ job'[u] = job[u]
      BY <1>0, <2>1 DEF OthersSame, InFlight
    <2>3. QED
      BY <2>2 DEF Disciplined, Compatible
  <1>3. QED
    BY <1>1, <1>2

-----------------------------------------------------------------------------
(* What the other workers rely on survives any step of w.                  *)

(* v holds a package w cannot delete, *)
LEMMA OtherPackage ==
    ASSUME Base, Kept, Discipline # "none",
           NEW v \in Worker, NEW w \in Worker, v # w, pc[v] # "idle",
           Removes(w), NEW p \in packages, p.id = pid[v], p.name = Target(job[v])
    PROVE  pid[v] # pid[w] /\ p \in packages'
  <1>1. Deletes(job[w]) /\ pc[w] # "idle"
    BY DEF Removes, Deletes
  <1>2. Target(job[v]) # Target(job[w])
    BY <1>1, Apart DEF Kept
  <1>3. PICK q \in packages : q.id = pid[w] /\ q.name = Target(job[w])
    BY DEF Removes, Kept, WorkerKept, HoldsPackage
  <1>4. p # q
    BY <1>2, <1>3
  <1>5. p.id # q.id
    BY <1>3, <1>4 DEF Base, RowsConsistent, UniqueRows
  <1>6. QED
    BY <1>3, <1>5 DEF Removes, DeletePackage, DeleteRelease

(* ... nor any release of it. *)
LEMMA OtherRelease ==
    ASSUME Base, Kept, NEW v \in Worker, NEW w \in Worker,
           Removes(w), pid[v] # pid[w], NEW r \in releases, r.package_id = pid[v]
    PROVE  r \in releases'
  <1>1. CASE DeletePackage(pid[w])
    BY <1>1 DEF DeletePackage
  <1>2. CASE job[w].op = "delete_release" /\ DeleteRelease(rid[w])
    <2>1. PICK s \in releases : s.id = rid[w] /\ s.package_id = pid[w]
      BY <1>2 DEF Removes, Kept, WorkerKept, HoldsRelease, CarriesRelease
    <2>2. r # s
      BY <2>1
    <2>3. r.id # s.id
      BY <2>1, <2>2 DEF Base, RowsConsistent, UniqueRows
    <2>4. QED
      BY <1>2, <2>1, <2>3 DEF DeleteRelease
  <1>3. QED
    BY <1>1, <1>2 DEF Removes

LEMMA OtherHoldsPackage ==
    ASSUME Base, Kept, Discipline # "none",
           NEW v \in Worker, NEW w \in Worker, v # w, OthersSame(w), Effect(w)
    PROVE  HoldsPackage(v)'
  <1>1. CASE pc[v] \in {"insert_release", "get_release", "create_file",
                        "find_release", "set_yanked", "list_files", "delete_row"}
    <2>1. PICK p \in packages : p.id = pid[v] /\ p.name = Target(job[v])
      BY <1>1 DEF Kept, WorkerKept, HoldsPackage
    <2>2. \E q \in packages' : q.id = p.id /\ q.name = p.name
      <3>1. CASE Removes(w)
        BY <1>1, <2>1, <3>1, OtherPackage
      <3>2. QED
        BY <3>1 DEF Effect, Grows, RowsKept, Indexes, Touches, catalog
    <2>3. QED
      BY <2>1, <2>2 DEF HoldsPackage, OthersSame, Target
  <1>2. QED
    BY <1>1 DEF HoldsPackage, OthersSame

LEMMA OtherHoldsRelease ==
    ASSUME Base, Kept, Discipline # "none",
           NEW v \in Worker, NEW w \in Worker, v # w, OthersSame(w), Effect(w)
    PROVE  HoldsRelease(v)'
  <1>1. CASE CarriesRelease(v)
    <2>1. PICK r \in releases : /\ r.id = rid[v] /\ r.package_id = pid[v]
                                /\ r.version = Wanted(job[v])
      BY <1>1 DEF Kept, WorkerKept, HoldsRelease
    <2>2. PICK p \in packages : p.id = pid[v] /\ p.name = Target(job[v])
      BY <1>1 DEF Kept, WorkerKept, HoldsPackage, CarriesRelease
    <2>3. \E s \in releases' : /\ s.id = r.id /\ s.package_id = r.package_id
                               /\ s.version = r.version
      <3>1. CASE Removes(w)
        BY <1>1, <2>1, <2>2, <3>1, OtherPackage, OtherRelease DEF CarriesRelease
      <3>2. QED
        BY <3>1 DEF Effect, Grows, RowsKept, Indexes, Touches, catalog
    <2>4. QED
      BY <2>1, <2>3 DEF HoldsRelease, OthersSame, Wanted, JobVersion
  <1>2. QED
    BY <1>1 DEF HoldsRelease, CarriesRelease, OthersSame

LEMMA OtherOwnKeys ==
    ASSUME Kept, NEW v \in Worker, NEW w \in Worker, v # w, OthersSame(w)
    PROVE  OwnKeys(v)'
  BY DEF Kept, WorkerKept, OwnKeys, OthersSame, Deletes

(* A filename w indexes is not one v is about to delete or has uploaded. *)
LEMMA OtherFilename ==
    ASSUME Base, Kept, Discipline # "none",
           NEW v \in Worker, NEW w \in Worker, v # w,
           pc[v] # "idle", pc[w] # "idle", NEW f, NEW g,
           \/ job[v].op = "upload" /\ f = job[v].filename
           \/ Deletes(job[v]) /\ ProjectOf[f] = job[v].project,
           \/ job[w].op = "upload" /\ g = job[w].filename
           \/ Deletes(job[w]) /\ ProjectOf[g] = job[w].project
    PROVE  f # g
  <1>1. CASE job[v].op = "upload" /\ job[w].op = "upload"
    BY <1>1, Apart DEF Kept, Deletes
  <1>2. CASE Deletes(job[v]) \/ Deletes(job[w])
    <2>1. Target(job[v]) # Target(job[w])
      BY <1>2, Apart DEF Kept
    <2>2. Target(job[v]) = ProjectOf[f] /\ Target(job[w]) = ProjectOf[g]
      BY DEF Target, Deletes
    <2>3. QED
      BY <2>1, <2>2
  <1>3. QED
    BY <1>1, <1>2

LEMMA OtherListed ==
    ASSUME Base, Kept, Discipline # "none",
           NEW v \in Worker, NEW w \in Worker, v # w, OthersSame(w), Effect(w)
    PROVE  ListedAreDoomed(v)'
  <1> SUFFICES ASSUME pc[v] = "delete_row",
                      NEW d \in Digest, NEW f \in Filename, NEW p \in Kind,
                      BlobKey(d, f, p) \in todo[v],
                      NEW g \in files', g.filename = f
               PROVE  g \in DoomedFiles(v)'
    BY DEF ListedAreDoomed, OthersSame
  <1>1. /\ Deletes(job[v]) /\ ProjectOf[f] = job[v].project /\ pc[v] # "idle"
        /\ job[v].op # "upload"
    BY DEF Base, JobFits, Kept, WorkerKept, OwnKeys, ChangeSteps
  <1>2. g \in files
    <2>1. CASE Indexes(w)
      <3>1. pc[w] # "idle" /\ job[w].op = "upload"
        BY <2>1 DEF Indexes, Base, JobFits, UploadSteps
      <3>2. f # job[w].filename
        BY <1>1, <3>1, OtherFilename
      <3>3. QED
        BY <2>1, <3>2 DEF Indexes, NewFile
    <2>2. QED
      BY <2>1 DEF Effect, Grows, Removes, DeletePackage, DeleteRelease, Touches, catalog
  <1>3. g \in DoomedFiles(v)
    BY <1>2 DEF Kept, WorkerKept, ListedAreDoomed
  <1>4. /\ job'[v] = job[v] /\ pid'[v] = pid[v] /\ rid'[v] = rid[v]
    BY DEF OthersSame
  <1>5. CASE job[v].op # "delete_package"
    BY <1>3, <1>4, <1>5 DEF DoomedFiles, ReleaseFiles
  <1>6. CASE job[v].op = "delete_package"
    <2>1. PICK r \in releases : r.id = g.release_id /\ r.package_id = pid[v]
      BY <1>3, <1>6 DEF DoomedFiles, PackageFiles
    <2>2. PICK q \in packages : q.id = pid[v] /\ q.name = Target(job[v])
      BY DEF Kept, WorkerKept, HoldsPackage
    <2>3. \E s \in releases' : s.id = r.id /\ s.package_id = r.package_id
      <3>1. CASE Removes(w)
        BY <1>1, <2>1, <2>2, <3>1, OtherPackage, OtherRelease
      <3>2. QED
        BY <3>1 DEF Effect, Grows, RowsKept, Indexes, Touches, catalog
    <2>4. QED
      BY <1>4, <1>6, <2>1, <2>3 DEF DoomedFiles, PackageFiles
  <1>7. QED
    BY <1>5, <1>6

(* A filename v relies on being free stays free. *)
LEMMA OtherStaysFree ==
    ASSUME Base, Kept, Discipline # "none",
           NEW v \in Worker, NEW w \in Worker, v # w, Effect(w), pc[v] # "idle",
           NEW f, ~ FileExists(f),
           \/ job[v].op = "upload" /\ f = job[v].filename
           \/ Deletes(job[v]) /\ ProjectOf[f] = job[v].project
    PROVE  ~ FileExists(f)'
  <1>1. CASE Indexes(w)
    <2>1. pc[w] # "idle" /\ job[w].op = "upload"
      BY <1>1 DEF Indexes, Base, JobFits, UploadSteps
    <2>2. f # job[w].filename
      BY <2>1, OtherFilename
    <2>3. QED
      BY <1>1, <2>2 DEF Indexes, NewFile, FileExists
  <1>2. CASE files' \subseteq files
    BY <1>2 DEF FileExists
  <1>3. QED
    BY <1>1, <1>2 DEF Effect, Grows, Removes, DeletePackage, DeleteRelease, Touches, catalog

LEMMA OtherDropped ==
    ASSUME Base, Kept, Discipline # "none",
           NEW v \in Worker, NEW w \in Worker, v # w, OthersSame(w), Effect(w)
    PROVE  DroppedAreUnindexed(v)'
  <1> SUFFICES ASSUME pc[v] = "drop_blobs",
                      NEW d \in Digest, NEW f \in Filename, NEW p \in Kind,
                      BlobKey(d, f, p) \in todo[v]
               PROVE  ~ FileExists(f)'
    BY DEF DroppedAreUnindexed, OthersSame
  <1>1. ~ FileExists(f)
    BY DEF Kept, WorkerKept, DroppedAreUnindexed
  <1>2. \/ job[v].op = "upload" /\ f = job[v].filename
        \/ Deletes(job[v]) /\ ProjectOf[f] = job[v].project
    BY DEF Kept, WorkerKept, OwnKeys
  <1>3. QED
    BY <1>1, <1>2, OtherStaysFree

LEMMA OtherFresh ==
    ASSUME Base, Kept, Discipline # "none",
           NEW v \in Worker, NEW w \in Worker, v # w, OthersSame(w), Effect(w)
    PROVE  UploadIsFresh(v)'
  <1> SUFFICES ASSUME pc[v] \in UploadSteps \ {"file_exists"}
               PROVE  ~ FileExists(job[v].filename)'
    <2>1. pc'[v] = pc[v] /\ job'[v] = job[v]
      BY DEF OthersSame
    <2>2. QED
      BY <2>1 DEF UploadIsFresh, FileExists
  <1>1. job[v].op = "upload" /\ pc[v] # "idle"
    BY DEF Base, JobFits, UploadSteps
  <1>2. ~ FileExists(job[v].filename)
    BY DEF Kept, WorkerKept, UploadIsFresh
  <1>3. PICK f : f = job[v].filename
    OBVIOUS
  <1>4. ~ FileExists(f)'
    BY <1>1, <1>2, <1>3, OtherStaysFree
  <1>5. QED
    BY <1>3, <1>4 DEF FileExists, OthersSame

LEMMA OtherStored ==
    ASSUME Base, Kept, Discipline # "none",
           NEW v \in Worker, NEW w \in Worker, v # w, OthersSame(w), Effect(w)
    PROVE  UploadIsStored(v)'
  <1>0. pc'[v] = pc[v] /\ job'[v] = job[v]
    BY DEF OthersSame
  <1>1. CASE pc[v] \in UploadSteps
    <2>1. /\ job[v].op = "upload" /\ pc[v] # "idle"
          /\ job[v].filename \in Filename /\ job[v].sha256 \in Digest
      BY <1>1, JobTypes DEF Base, JobFits, UploadSteps
    <2>2. ASSUME NEW p \in Kind
          PROVE  blobs'[BlobKey(job[v].sha256, job[v].filename, p)]
                   = blobs[BlobKey(job[v].sha256, job[v].filename, p)]
      <3>1. CASE Touches(w)
        <4>1. PICK d \in Digest, f \in Filename, q \in Kind :
                 /\ \A k \in Key : k # BlobKey(d, f, q) => blobs'[k] = blobs[k]
                 /\ \/ job[w].op = "upload" /\ f = job[w].filename
                    \/ Deletes(job[w]) /\ ProjectOf[f] = job[w].project
          BY <3>1 DEF Touches
        <4>2. job[v].filename # f
          BY <2>1, <3>1, <4>1, OtherFilename DEF Touches
        <4>3. BlobKey(job[v].sha256, job[v].filename, p) # BlobKey(d, f, q)
          BY <4>2, KeyInjective
        <4>4. QED
          BY <2>1, <4>1, <4>3, BuiltIsKey
      <3>2. QED
        BY <3>1 DEF Effect, Grows, Indexes, Removes
    <2>3. \A k \in KeysOf(job[v].filename, job[v].sha256) : blobs'[k] = blobs[k]
      BY <2>1, <2>2, KeysOfIsBuilt
    <2>4. "dist" \in Kind
      BY DEF Kind
    <2>5. UploadIsStored(v)
      BY DEF Kept, WorkerKept
    <2>6. QED
      BY <1>0, <2>2, <2>3, <2>4, <2>5 DEF UploadIsStored
  <1>2. QED
    BY <1>0, <1>1 DEF UploadIsStored, UploadSteps

LEMMA Bystander ==
    ASSUME Base, Kept, Discipline # "none",
           NEW v \in Worker, NEW w \in Worker, v # w, OthersSame(w), Effect(w)
    PROVE  WorkerKept(v)'
  BY OtherHoldsPackage, OtherHoldsRelease, OtherOwnKeys, OtherListed,
     OtherDropped, OtherFresh, OtherStored DEF WorkerKept

-----------------------------------------------------------------------------
(* What w relies on holds after its own steps.                             *)

LEMMA IdleKept ==
    ASSUME NEW w \in Worker, pc'[w] = "idle"
    PROVE  WorkerKept(w)'
  BY DEF WorkerKept, HoldsPackage, HoldsRelease, CarriesRelease, OwnKeys,
         ListedAreDoomed, DroppedAreUnindexed, UploadIsFresh, UploadIsStored,
         UploadSteps

(* An upload that gives up deletes objects under its own, free filename. *)
LEMMA DropKept ==
    ASSUME Base, NEW w \in Worker, WorkerKept(w),
           pc[w] \in UploadSteps \ {"file_exists"}, NEW keys, Drop(w, keys),
           keys \subseteq {BlobKey(job[w].sha256, job[w].filename, p) : p \in Kind},
           UNCHANGED files
    PROVE  WorkerKept(w)'
  <1>1. job[w].op = "upload" /\ ~ FileExists(job[w].filename)
    BY DEF Base, JobFits, WorkerKept, UploadIsFresh
  <1>2. pc'[w] = "drop_blobs" /\ todo'[w] = keys /\ job'[w] = job[w]
    BY DEF Drop, Goto, Base, TypeOK
  <1>3. ASSUME NEW d \in Digest, NEW f \in Filename, NEW p \in Kind,
               BlobKey(d, f, p) \in keys
        PROVE  f = job[w].filename
    BY <1>3, KeyInjective
  <1>4. OwnKeys(w)'
    BY <1>1, <1>2, <1>3 DEF OwnKeys
  <1>5. DroppedAreUnindexed(w)'
    BY <1>1, <1>2, <1>3 DEF DroppedAreUnindexed, FileExists
  <1>6. QED
    BY <1>2, <1>4, <1>5
       DEF WorkerKept, HoldsPackage, HoldsRelease, CarriesRelease,
           ListedAreDoomed, UploadIsFresh, UploadIsStored, UploadSteps

LEMMA RollbackKept ==
    ASSUME Base, NEW w \in Worker, WorkerKept(w),
           pc[w] \in UploadSteps \ {"file_exists"}, Rollback(w), UNCHANGED files
    PROVE  WorkerKept(w)'
  <1>1. KeysOf(job[w].filename, job[w].sha256)
          \subseteq {BlobKey(job[w].sha256, job[w].filename, p) : p \in Kind}
    BY DEF KeysOf, Kind
  <1>2. QED
    BY <1>1, DropKept DEF Rollback

(* While rows of files and objects stay, what w uploaded stays. *)
LEMMA UploadKept ==
    ASSUME NEW w \in Worker, WorkerKept(w), pc[w] \in StoredSteps, pc'[w] \in StoredSteps,
           job'[w] = job[w], UNCHANGED <<files, blobs>>
    PROVE  /\ UploadIsFresh(w)' /\ UploadIsStored(w)'
           /\ OwnKeys(w)' /\ ListedAreDoomed(w)' /\ DroppedAreUnindexed(w)'
  BY DEF WorkerKept, UploadIsFresh, UploadIsStored, StoredSteps, UploadSteps, FileExists,
         OwnKeys, ListedAreDoomed, DroppedAreUnindexed

LEMMA NoRowsHeld ==
    ASSUME NEW w \in Worker,
           pc'[w] \in UploadSteps \ {"insert_release", "get_release", "create_file"}
    PROVE  HoldsPackage(w)' /\ HoldsRelease(w)'
  BY DEF HoldsPackage, HoldsRelease, CarriesRelease, UploadSteps

LEMMA IngestKept ==
    ASSUME Base, NEW w \in Worker, WorkerKept(w), Ingest(w)
    PROVE  WorkerKept(w)'
  <1> USE DEF At, Queries
  <1>0. /\ LocalsOK /\ pc[w] \in UploadSteps /\ job[w].op = "upload"
        /\ job[w].filename \in Filename /\ job[w].sha256 \in Digest
    <2>1. LocalsOK /\ pc[w] \in UploadSteps
      BY BaseParts
         DEF Ingest, CheckFileExists, RejectFile, PutDist, PutMetadata, GetExisting,
             LatestVersion, Upsert, Refresh, Reload, CreateRelease, GetRelease,
             IndexFile, UploadSteps
    <2>2. QED
      BY <2>1, JobTypes DEF LocalsOK, JobFits, UploadSteps
  <1>1. ASSUME NEW a, Finish(w, a) PROVE WorkerKept(w)'
    BY <1>0, <1>1, IdleKept DEF Finish, LocalsOK
  <1>2. ASSUME NEW s, Goto(w, s) PROVE pc'[w] = s /\ job'[w] = job[w]
    BY <1>0, <1>2 DEF Goto, LocalsOK
  <1>3. ASSUME NEW s \in StoredSteps \ {"insert_release", "get_release", "create_file"},
               pc[w] \in StoredSteps, Goto(w, s), UNCHANGED <<files, blobs>>
        PROVE  WorkerKept(w)'
    BY <1>2, <1>3, UploadKept, NoRowsHeld DEF WorkerKept, StoredSteps, UploadSteps
  <1>4. CASE CheckFileExists(w)
    <2>1. CASE ~ FileExists(job[w].filename) /\ Goto(w, "put_dist")
      <3>1. pc'[w] = "put_dist" /\ job'[w] = job[w] /\ UNCHANGED files
        BY <1>2, <1>4, <2>1 DEF CheckFileExists, catalog
      <3>2. QED
        BY <2>1, <3>1, NoRowsHeld
           DEF WorkerKept, UploadIsFresh, UploadIsStored, UploadSteps, FileExists,
               OwnKeys, ListedAreDoomed, DroppedAreUnindexed
    <2>2. QED
      BY <1>1, <1>4, <2>1 DEF CheckFileExists
  <1>5. CASE RejectFile(w)
    BY <1>1, <1>5 DEF RejectFile
  <1>6. CASE PutDist(w)
    <2> DEFINE key == BlobKey(job[w].sha256, job[w].filename, "dist")
    <2>1. CASE /\ PutObject(w, key, job[w].sha256)
               /\ Goto(w, IF job[w].filename \in Wheel
                          THEN "put_metadata" ELSE "get_existing")
      <3>1. /\ job'[w] = job[w] /\ UNCHANGED files
            /\ \/ pc'[w] = "put_metadata"
               \/ pc'[w] = "get_existing" /\ job[w].filename \notin Wheel
        BY <1>2, <1>6, <2>1 DEF PutDist, catalog
      <3>2. key \in Key
        BY <1>0, BuiltIsKey DEF Kind
      <3>3. blobs'[key] = job[w].sha256
        BY <2>1, <3>2 DEF PutObject, Blob!Put, Base, TypeOK, Blob!TypeOK
      <3>4. ~ FileExists(job[w].filename)
        BY <1>0, <1>6 DEF WorkerKept, UploadIsFresh, PutDist
      <3>5. QED
        BY <3>1, <3>3, <3>4, NoRowsHeld
           DEF WorkerKept, UploadIsFresh, UploadIsStored, UploadSteps, FileExists,
               OwnKeys, ListedAreDoomed, DroppedAreUnindexed, KeysOf
    <2>2. QED
      BY <1>1, <1>6, <2>1 DEF PutDist
  <1>7. CASE PutMetadata(w)
    <2> DEFINE key == BlobKey(job[w].sha256, job[w].filename, "metadata")
               dist == BlobKey(job[w].sha256, job[w].filename, "dist")
    <2>1. pc[w] \in UploadSteps \ {"file_exists"} /\ UNCHANGED files
      BY <1>0, <1>7 DEF PutMetadata, catalog
    <2>2. CASE PutObject(w, key, job[w].sha256) /\ Goto(w, "get_existing")
      <3>1. /\ job'[w] = job[w] /\ UNCHANGED files /\ pc'[w] = "get_existing"
        BY <1>2, <2>1, <2>2
      <3>2. key \in Key /\ dist \in Key /\ key # dist
        BY <1>0, BuiltIsKey, KeyInjective DEF Kind
      <3>3. blobs[dist] = job[w].sha256
        BY <1>7 DEF WorkerKept, UploadIsStored, PutMetadata
      <3>4. blobs'[key] = job[w].sha256 /\ blobs'[dist] = job[w].sha256
        BY <2>2, <3>2, <3>3 DEF PutObject, Blob!Put, Base, TypeOK, Blob!TypeOK
      <3>5. ~ FileExists(job[w].filename)
        BY <2>1 DEF WorkerKept, UploadIsFresh
      <3>6. QED
        BY <3>1, <3>4, <3>5, NoRowsHeld
           DEF WorkerKept, UploadIsFresh, UploadIsStored, UploadSteps, FileExists,
               OwnKeys, ListedAreDoomed, DroppedAreUnindexed, KeysOf
    <2>3. CASE Drop(w, {dist})
      BY <2>1, <2>3, DropKept DEF Kind
    <2>4. QED
      BY <1>7, <2>2, <2>3 DEF PutMetadata
  <1>8. CASE GetExisting(w)
    <2>1. pc[w] \in StoredSteps /\ UNCHANGED <<files, blobs>>
      BY <1>8 DEF GetExisting, StoredSteps, catalog
    <2>2. CASE Goto(w, "latest_version")
      BY <1>3, <2>1, <2>2 DEF StoredSteps
    <2>3. CASE Decide(w, TRUE)
      BY <1>3, <2>1, <2>3 DEF Decide, StoredSteps
    <2>4. QED
      BY <1>8, <2>2, <2>3 DEF GetExisting
  <1>9. CASE LatestVersion(w)
    BY <1>3, <1>9 DEF LatestVersion, Decide, StoredSteps, catalog
  <1>10. CASE Upsert(w)
    BY <1>3, <1>10 DEF Upsert, InsertPackage, StoredSteps
  <1>11. CASE Refresh(w)
    BY <1>3, <1>11 DEF Refresh, RefreshPackage, StoredSteps
  <1>12. CASE Reload(w)
    <2>1. CASE Rollback(w)
      BY <1>12, <2>1, RollbackKept DEF Reload, catalog, UploadSteps
    <2>2. ASSUME NEW p \in packages, p.name = Target(job[w]),
                 pid' = [pid EXCEPT ![w] = p.id], Goto(w, "insert_release")
          PROVE  WorkerKept(w)'
      <3>1. /\ pc'[w] = "insert_release" /\ job'[w] = job[w] /\ pid'[w] = p.id
            /\ UNCHANGED <<packages, files, blobs>>
        BY <1>0, <1>2, <1>12, <2>2 DEF LocalsOK, Reload, catalog
      <3>2. HoldsPackage(w)' /\ HoldsRelease(w)'
        BY <2>2, <3>1 DEF HoldsPackage, HoldsRelease, CarriesRelease, Target
      <3>3. QED
        BY <1>12, <3>1, <3>2, UploadKept DEF WorkerKept, StoredSteps, Reload
    <2>3. QED
      BY <1>12, <2>1, <2>2 DEF Reload
  <1>13. CASE CreateRelease(w)
    <2>1. UNCHANGED <<packages, files, blobs>>
      BY <1>13 DEF CreateRelease, InsertRelease, catalog
    <2>2. CASE Goto(w, "get_release") /\ UNCHANGED locals
      <3>1. pc'[w] = "get_release" /\ job'[w] = job[w] /\ pid'[w] = pid[w]
        BY <1>2, <2>2 DEF locals
      <3>2. HoldsPackage(w)' /\ HoldsRelease(w)'
        BY <1>13, <2>1, <3>1
           DEF CreateRelease, WorkerKept, HoldsPackage, HoldsRelease, CarriesRelease, Target
      <3>3. QED
        BY <1>13, <2>1, <3>1, <3>2, UploadKept DEF WorkerKept, StoredSteps, CreateRelease
    <2>3. QED
      BY <1>13, <2>1, <2>2, RollbackKept DEF CreateRelease, UploadSteps
  <1>14. CASE GetRelease(w)
    <2>1. UNCHANGED <<packages, releases, files, blobs>>
      BY <1>14 DEF GetRelease, catalog
    <2>2. ASSUME NEW r \in releases,
                 r.package_id = pid[w], r.version = JobVersion(job[w]),
                 rid' = [rid EXCEPT ![w] = r.id], Goto(w, "create_file"),
                 UNCHANGED <<pid, refresh, todo>>
          PROVE  WorkerKept(w)'
      <3>1. /\ pc'[w] = "create_file" /\ job'[w] = job[w]
            /\ pid'[w] = pid[w] /\ rid'[w] = r.id
        BY <1>0, <1>2, <2>2 DEF LocalsOK
      <3>2. HoldsPackage(w)'
        BY <1>14, <2>1, <3>1 DEF GetRelease, WorkerKept, HoldsPackage, Target
      <3>3. HoldsRelease(w)'
        BY <1>0, <2>1, <2>2, <3>1 DEF HoldsRelease, Wanted, JobVersion
      <3>4. QED
        BY <1>14, <2>1, <3>1, <3>2, <3>3, UploadKept DEF WorkerKept, StoredSteps, GetRelease
    <2>3. QED
      BY <1>14, <2>1, <2>2, RollbackKept DEF GetRelease, UploadSteps
  <1>15. CASE IndexFile(w)
    BY <1>1, <1>15, RollbackKept DEF IndexFile, catalog, UploadSteps
  <1>16. QED
    BY <1>4, <1>5, <1>6, <1>7, <1>8, <1>9, <1>10, <1>11, <1>12, <1>13, <1>14, <1>15
       DEF Ingest

(* A doomed file belongs to the project the request deletes from. *)
LEMMA DoomedAreOfProject ==
    ASSUME Base, FileUnderItsRelease, NEW w \in Worker, WorkerKept(w),
           pc[w] = "list_files", NEW f \in DoomedFiles(w)
    PROVE  f \in files /\ ProjectOf[f.filename] = job[w].project
  <1>1. f \in files
    BY DoomedAreFiles
  <1>2. PICK r \in releases, p \in packages :
           r.id = f.release_id /\ p.id = r.package_id /\ p.name = ProjectOf[f.filename]
    BY <1>1 DEF FileUnderItsRelease
  <1>3. Deletes(job[w]) /\ Target(job[w]) = job[w].project
    BY DEF Base, JobFits, Deletes, Target
  <1>4. PICK q \in packages : q.id = pid[w] /\ q.name = Target(job[w])
    BY DEF WorkerKept, HoldsPackage
  <1>5. r.package_id = pid[w]
    <2>1. CASE job[w].op = "delete_package"
      <3>1. PICK s \in releases : s.id = f.release_id /\ s.package_id = pid[w]
        BY <2>1 DEF DoomedFiles, PackageFiles
      <3>2. QED
        BY <1>2, <3>1 DEF Base, RowsConsistent, UniqueRows
    <2>2. CASE job[w].op = "delete_release"
      <3>1. f.release_id = rid[w]
        BY <2>2 DEF DoomedFiles, ReleaseFiles
      <3>2. PICK s \in releases : s.id = rid[w] /\ s.package_id = pid[w]
        BY <2>2 DEF WorkerKept, HoldsRelease, CarriesRelease
      <3>3. QED
        BY <1>2, <3>1, <3>2 DEF Base, RowsConsistent, UniqueRows
    <2>3. QED
      BY <1>3, <2>1, <2>2 DEF Deletes
  <1>6. p = q
    BY <1>2, <1>4, <1>5 DEF Base, RowsConsistent, UniqueRows
  <1>7. QED
    BY <1>1, <1>2, <1>3, <1>4, <1>6

LEMMA NotUploading ==
    ASSUME NEW w \in Worker, pc'[w] \in ChangeSteps \cup {"drop_blobs", "idle"},
           pc'[w] # "drop_blobs" \/ job'[w].op # "upload"
    PROVE  UploadIsFresh(w)' /\ UploadIsStored(w)'
  BY DEF UploadIsFresh, UploadIsStored, UploadSteps, ChangeSteps

LEMMA AdministerKept ==
    ASSUME Base, FileUnderItsRelease, NEW w \in Worker, WorkerKept(w), Administer(w)
    PROVE  WorkerKept(w)'
  <1> USE DEF At, Queries
  <1>0. /\ LocalsOK /\ pc[w] \in ChangeSteps /\ job[w] \in Job /\ job[w].op # "upload"
        /\ Target(job[w]) = job[w].project
    <2>1. LocalsOK /\ pc[w] \in ChangeSteps
      BY BaseParts
         DEF Administer, LookupPackage, LookupRelease, YankRelease, ListFiles, DeleteRow,
             ChangeSteps
    <2>2. QED
      BY <2>1 DEF LocalsOK, JobFits, ChangeSteps, Target
  <1>1. ASSUME NEW a, Finish(w, a) PROVE WorkerKept(w)'
    BY <1>0, <1>1, IdleKept DEF Finish, LocalsOK
  <1>2. ASSUME NEW s, Goto(w, s) PROVE pc'[w] = s /\ job'[w] = job[w]
    BY <1>0, <1>2 DEF Goto, LocalsOK
  <1>3. CASE LookupPackage(w)
    <2>1. ASSUME NEW p \in packages, p.name = job[w].project,
                 pid' = [pid EXCEPT ![w] = p.id],
                 Goto(w, IF job[w].op = "delete_package"
                         THEN "list_files" ELSE "find_release")
          PROVE  WorkerKept(w)'
      <3>1. /\ pid'[w] = p.id /\ job'[w] = job[w] /\ UNCHANGED packages
            /\ \/ pc'[w] = "list_files" /\ job[w].op = "delete_package"
               \/ pc'[w] = "find_release"
        BY <1>0, <1>2, <1>3, <2>1 DEF LocalsOK, LookupPackage, catalog
      <3>2. HoldsPackage(w)' /\ HoldsRelease(w)'
        BY <1>0, <2>1, <3>1 DEF HoldsPackage, HoldsRelease, CarriesRelease, Target
      <3>3. QED
        BY <3>1, <3>2, NotUploading
           DEF WorkerKept, OwnKeys, ListedAreDoomed, DroppedAreUnindexed, ChangeSteps
    <2>2. QED
      BY <1>1, <1>3, <2>1 DEF LookupPackage
  <1>4. CASE LookupRelease(w)
    <2>1. ASSUME NEW r \in releases,
                 r.package_id = pid[w], r.version = job[w].version,
                 rid' = [rid EXCEPT ![w] = r.id], UNCHANGED <<pid, refresh, todo>>,
                 Goto(w, IF job[w].op = "delete_release"
                         THEN "list_files" ELSE "set_yanked")
          PROVE  WorkerKept(w)'
      <3>1. /\ rid'[w] = r.id /\ pid'[w] = pid[w] /\ job'[w] = job[w]
            /\ UNCHANGED <<packages, releases>>
            /\ pc'[w] = "list_files" \/ pc'[w] = "set_yanked"
        BY <1>0, <1>2, <1>4, <2>1 DEF LocalsOK, LookupRelease, catalog
      <3>2. HoldsPackage(w)'
        BY <1>4, <3>1 DEF LookupRelease, WorkerKept, HoldsPackage, Target
      <3>3. HoldsRelease(w)'
        BY <1>0, <2>1, <3>1 DEF HoldsRelease, Wanted
      <3>4. QED
        BY <3>1, <3>2, <3>3, NotUploading
           DEF WorkerKept, OwnKeys, ListedAreDoomed, DroppedAreUnindexed, ChangeSteps
    <2>2. QED
      BY <1>1, <1>4, <2>1 DEF LookupRelease
  <1>5. CASE YankRelease(w)
    BY <1>1, <1>5 DEF YankRelease
  <1>6. CASE ListFiles(w)
    <2> DEFINE keys == UNION {KeysOf(f.filename, f.sha256) : f \in DoomedFiles(w)}
    <2>1. /\ pc[w] = "list_files" /\ pc'[w] = "delete_row" /\ job'[w] = job[w]
          /\ pid'[w] = pid[w] /\ rid'[w] = rid[w]
          /\ UNCHANGED <<packages, releases, files>> /\ Deletes(job[w])
      BY <1>0, <1>2, <1>6 DEF ListFiles, catalog, LocalsOK, JobFits
    <2>2. todo'[w] = keys
      BY <1>0, <1>6 DEF ListFiles, LocalsOK
    <2>3. ASSUME NEW d \in Digest, NEW f \in Filename, NEW p \in Kind,
                 BlobKey(d, f, p) \in keys
          PROVE  \E g \in DoomedFiles(w) : g.filename = f
      <3>1. PICK g \in DoomedFiles(w) : BlobKey(d, f, p) \in KeysOf(g.filename, g.sha256)
        BY <2>3
      <3>2. g.filename \in Filename /\ g.sha256 \in Digest
        BY DoomedAreFiles DEF Base, TypeOK, CatalogTypeOK, FileRow
      <3>3. QED
        BY <3>1, <3>2, KeysOfIsBuilt, KeyInjective
    <2> HIDE DEF keys
    <2>4. OwnKeys(w)'
      BY <2>1, <2>2, <2>3, DoomedAreOfProject DEF OwnKeys, Deletes
    <2>5. ListedAreDoomed(w)'
      <3>1. DoomedFiles(w)' = DoomedFiles(w)
        BY <2>1 DEF DoomedFiles, PackageFiles, ReleaseFiles
      <3>2. \A f, g \in files : f.filename = g.filename => f = g
        BY DEF Base, RowsConsistent, UniqueRows
      <3>3. QED
        BY <2>1, <2>2, <2>3, <3>1, <3>2, DoomedAreFiles DEF ListedAreDoomed
    <2>6. HoldsPackage(w)' /\ HoldsRelease(w)'
      BY <2>1 DEF WorkerKept, HoldsPackage, HoldsRelease, CarriesRelease, Target, Wanted,
                  JobVersion
    <2>7. QED
      BY <1>0, <2>1, <2>4, <2>5, <2>6, NotUploading
         DEF WorkerKept, DroppedAreUnindexed, ChangeSteps
  <1>7. CASE DeleteRow(w)
    <2>1. CASE Drop(w, todo[w])
      <3>1. /\ pc[w] = "delete_row" /\ pc'[w] = "drop_blobs" /\ job'[w] = job[w]
            /\ todo'[w] = todo[w] /\ Deletes(job[w])
        BY <1>0, <1>2, <1>7, <2>1 DEF Drop, DeleteRow, LocalsOK, JobFits
      <3>2. OwnKeys(w)'
        BY <3>1 DEF WorkerKept, OwnKeys, Deletes
      <3>3. files' = files \ DoomedFiles(w)
        BY <1>7 DEF DeleteRow, DeletePackage, DeleteRelease, DoomedFiles
      <3>4. DroppedAreUnindexed(w)'
        BY <3>1, <3>3 DEF WorkerKept, ListedAreDoomed, DroppedAreUnindexed, FileExists
      <3>5. QED
        BY <1>0, <3>1, <3>2, <3>4, NotUploading
           DEF WorkerKept, HoldsPackage, HoldsRelease, CarriesRelease, ListedAreDoomed
    <2>2. QED
      BY <1>1, <1>7, <2>1 DEF DeleteRow
  <1>8. QED
    BY <1>3, <1>4, <1>5, <1>6, <1>7 DEF Administer

LEMMA OtherStepsKept ==
    ASSUME Base, NEW w \in Worker, WorkerKept(w),
           \/ DropBlob(w) \/ StatementFails(w) \/ ClientGoes(w)
           \/ \E j \in Job : Start(w, j)
    PROVE  WorkerKept(w)'
  <1> USE DEF At, Queries
  <1>0. LocalsOK
    BY BaseParts
  <1>1. ASSUME NEW a, Finish(w, a) PROVE WorkerKept(w)'
    BY <1>0, <1>1, IdleKept DEF Finish, LocalsOK
  <1>2. CASE \E j \in Job : Start(w, j)
    <2>1. pc'[w] = "file_exists" \/ pc'[w] = "get_package"
      BY <1>0, <1>2 DEF Start, LocalsOK
    <2>2. QED
      BY <2>1 DEF WorkerKept, HoldsPackage, HoldsRelease, CarriesRelease, OwnKeys,
                  ListedAreDoomed, DroppedAreUnindexed, UploadIsFresh, UploadIsStored,
                  UploadSteps
  <1>3. CASE DropBlob(w)
    <2>1. CASE \E k \in todo[w] : /\ todo' = [todo EXCEPT ![w] = @ \ {k}]
                                  /\ UNCHANGED <<pc, job, pid, rid, refresh, reply, gone>>
      <3>1. /\ todo'[w] \subseteq todo[w] /\ pc'[w] = pc[w] /\ job'[w] = job[w]
            /\ UNCHANGED <<packages, releases, files>> /\ pc[w] = "drop_blobs"
        BY <1>0, <1>3, <2>1 DEF DropBlob, LocalsOK, catalog
      <3>2. OwnKeys(w)' /\ DroppedAreUnindexed(w)'
        BY <3>1 DEF WorkerKept, OwnKeys, DroppedAreUnindexed, FileExists, Deletes
      <3>3. QED
        BY <3>1, <3>2
           DEF WorkerKept, HoldsPackage, HoldsRelease, CarriesRelease,
               ListedAreDoomed, UploadIsFresh, UploadIsStored, UploadSteps
    <2>2. QED
      BY <1>1, <1>3, <2>1 DEF DropBlob
  <1>4. CASE StatementFails(w)
    <2>1. UNCHANGED <<files, blobs>>
      BY <1>4 DEF StatementFails, catalog
    <2>2. CASE pc[w] \in {"get_existing", "latest_version"} /\ Decide(w, TRUE)
      <3>1. pc'[w] = "upsert" /\ job'[w] = job[w]
        BY <1>0, <2>2 DEF Decide, Goto, LocalsOK
      <3>2. QED
        BY <2>1, <2>2, <3>1, UploadKept, NoRowsHeld
           DEF WorkerKept, StoredSteps, UploadSteps
    <2>3. QED
      BY <1>1, <1>4, <2>1, <2>2, RollbackKept DEF StatementFails, UploadSteps
  <1>5. CASE ClientGoes(w)
    BY <1>5
       DEF ClientGoes, locals, catalog, WorkerKept, HoldsPackage, HoldsRelease, CarriesRelease,
           OwnKeys, ListedAreDoomed, DoomedFiles, PackageFiles, ReleaseFiles,
           DroppedAreUnindexed, FileExists, UploadIsFresh, UploadIsStored
  <1>6. QED
    BY <1>2, <1>3, <1>4, <1>5

-----------------------------------------------------------------------------
(* What holds of all files.                                                *)

(* The rows w carries are the only ones with their names. *)
LEMMA HeldIsUnique ==
    ASSUME Base, NEW w \in Worker, WorkerKept(w),
           pc[w] \in {"create_file", "set_yanked", "delete_row"},
           NEW p \in packages, NEW r \in releases
    PROVE  /\ p.id = pid[w] <=> p.name = Target(job[w])
           /\ CarriesRelease(w) =>
                (r.id = rid[w] <=> r.package_id = pid[w] /\ r.version = Wanted(job[w]))
  <1>1. PICK q \in packages : q.id = pid[w] /\ q.name = Target(job[w])
    BY DEF WorkerKept, HoldsPackage
  <1>2. CarriesRelease(w) => \E s \in releases :
           s.id = rid[w] /\ s.package_id = pid[w] /\ s.version = Wanted(job[w])
    BY DEF WorkerKept, HoldsRelease
  <1>3. QED
    BY <1>1, <1>2 DEF Base, RowsConsistent, UniqueRows

LEMMA FilesStayUnder ==
    ASSUME Base, Kept, NEW w \in Worker, Effect(w)
    PROVE  FileUnderItsRelease'
  <1>1. CASE Grows
    BY <1>1 DEF Grows, RowsKept, Kept, FileUnderItsRelease
  <1>2. CASE Indexes(w)
    <2>1. PICK r \in releases : /\ r.id = rid[w] /\ r.package_id = pid[w]
                                /\ r.version = Wanted(job[w])
      BY <1>2 DEF Indexes, Kept, WorkerKept, HoldsRelease, CarriesRelease
    <2>2. PICK p \in packages : p.id = pid[w] /\ p.name = Target(job[w])
      BY <1>2 DEF Indexes, Kept, WorkerKept, HoldsPackage
    <2>3. job[w].op = "upload"
      BY <1>2 DEF Indexes, Base, JobFits, UploadSteps
    <2>4. /\ NewFile(w).release_id = rid[w] /\ NewFile(w).filename = job[w].filename
          /\ NewFile(w).sha256 = job[w].sha256
      BY DEF NewFile
    <2>5. Wanted(job[w]) = JobVersion(job[w]) /\ Target(job[w]) = ProjectOf[job[w].filename]
      BY <2>3 DEF Wanted, Target
    <2>6. QED
      BY <1>2, <2>1, <2>2, <2>4, <2>5
         DEF Indexes, Kept, FileUnderItsRelease, JobVersion
  <1>3. CASE Removes(w)
    <2> SUFFICES ASSUME NEW f \in files'
                 PROVE  \E r \in releases', p \in packages' :
                           /\ r.id = f.release_id /\ p.id = r.package_id
                           /\ p.name = ProjectOf[f.filename]
                           /\ r.version = MetaVersion[f.filename][f.sha256]
      BY DEF FileUnderItsRelease
    <2>1. f \in files
      BY <1>3 DEF Removes, DeletePackage, DeleteRelease
    <2>2. PICK r \in releases, p \in packages :
             /\ r.id = f.release_id /\ p.id = r.package_id
             /\ p.name = ProjectOf[f.filename]
             /\ r.version = MetaVersion[f.filename][f.sha256]
      BY <2>1 DEF Kept, FileUnderItsRelease
    <2>3. CASE DeletePackage(pid[w])
      BY <2>1, <2>2, <2>3 DEF DeletePackage, PackageFiles
    <2>4. CASE DeleteRelease(rid[w])
      BY <2>1, <2>2, <2>4 DEF DeleteRelease, ReleaseFiles
    <2>5. QED
      BY <1>3, <2>3, <2>4 DEF Removes
  <1>4. CASE Touches(w)
    BY <1>4 DEF Touches, catalog, Kept, FileUnderItsRelease
  <1>5. QED
    BY <1>1, <1>2, <1>3, <1>4 DEF Effect

LEMMA FilesStayStored ==
    ASSUME Base, Kept, NEW w \in Worker, Effect(w)
    PROVE  IndexedAreStored'
  <1>1. CASE Indexes(w)
    <2>1. \A k \in KeysOf(job[w].filename, job[w].sha256) : blobs[k] = job[w].sha256
      BY <1>1 DEF Indexes, Kept, WorkerKept, UploadIsStored, UploadSteps
    <2>2. NewFile(w).filename = job[w].filename /\ NewFile(w).sha256 = job[w].sha256
      BY DEF NewFile
    <2>3. QED
      BY <1>1, <2>1, <2>2 DEF Indexes, Kept, IndexedAreStored
  <1>2. CASE Touches(w)
    <2>1. PICK d \in Digest, g \in Filename, p \in Kind :
             /\ \A k \in Key : k # BlobKey(d, g, p) => blobs'[k] = blobs[k]
             /\ ~ FileExists(g)
      BY <1>2 DEF Touches
    <2>2. ASSUME NEW f \in files, NEW k \in KeysOf(f.filename, f.sha256)
          PROVE  blobs'[k] = f.sha256
      <3>1. f.filename \in Filename /\ f.sha256 \in Digest /\ f.filename # g
        BY <2>1 DEF FileExists, Base, TypeOK, CatalogTypeOK, FileRow
      <3>2. k \in Key /\ k # BlobKey(d, g, p)
        BY <3>1, KeysOfIsBuilt, KeyInjective
      <3>3. QED
        BY <2>1, <3>2 DEF Kept, IndexedAreStored
    <2>3. QED
      BY <1>2, <2>2 DEF Touches, catalog, IndexedAreStored
  <1>3. CASE files' \subseteq files /\ UNCHANGED blobs
    BY <1>3 DEF Kept, IndexedAreStored
  <1>4. QED
    BY <1>1, <1>2, <1>3 DEF Effect, Grows, Removes, DeletePackage, DeleteRelease

-----------------------------------------------------------------------------
(* IInv is inductive.                                                      *)

LEMMA KeptInit == Init => Kept
  <1> SUFFICES ASSUME Init PROVE Kept
    OBVIOUS
  <1>1. files = {} /\ \A w \in Worker : pc[w] = "idle"
    BY DEF Init, CatalogInit, Idle
  <1>2. QED
    BY <1>1
       DEF Kept, Disciplined, InFlight, FileUnderItsRelease, IndexedAreStored,
           WorkerKept, HoldsPackage, HoldsRelease, CarriesRelease, OwnKeys,
           ListedAreDoomed, DroppedAreUnindexed, UploadIsFresh, UploadIsStored,
           UploadSteps

LEMMA WorkerStepKept ==
    ASSUME Base, Kept, Discipline # "none", NEW w \in Worker,
           WorkerStep(w) \/ \E j \in Job : Start(w, j)
    PROVE  Kept'
  <1>1. WorkerKept(w) /\ FileUnderItsRelease /\ Disciplined
    BY DEF Kept
  <1>2. OthersSame(w) /\ Effect(w)
    BY <1>1, BaseParts, StepIsLocal, StepHasEffect
  <1>3. ASSUME NEW v \in Worker PROVE WorkerKept(v)'
    <2>1. CASE v = w
      BY <1>1, <2>1, IngestKept, AdministerKept, OtherStepsKept DEF WorkerStep
    <2>2. CASE v # w
      BY <1>2, <2>2, Bystander
    <2>3. QED
      BY <2>1, <2>2
  <1>4. Disciplined' /\ FileUnderItsRelease' /\ IndexedAreStored'
    BY <1>1, <1>2, StepIsDisciplined, FilesStayUnder, FilesStayStored
  <1>5. QED
    BY <1>3, <1>4 DEF Kept

LEMMA CrashKept == Kept /\ Crash => Kept'
  <1> SUFFICES ASSUME Kept, Crash PROVE Kept'
    OBVIOUS
  <1>1. /\ \A w \in Worker : pc'[w] = "idle"
        /\ UNCHANGED <<packages, releases, files, blobs>>
    BY DEF Crash, catalog
  <1>2. Disciplined'
    BY <1>1 DEF Disciplined, InFlight
  <1>3. \A w \in Worker : WorkerKept(w)'
    BY <1>1, IdleKept
  <1>4. QED
    BY <1>1, <1>2, <1>3 DEF Kept, FileUnderItsRelease, IndexedAreStored

LEMMA StutterKept == Kept /\ UNCHANGED vars => Kept'
  <1> SUFFICES ASSUME Kept, UNCHANGED vars PROVE Kept'
    OBVIOUS
  <1> USE DEF vars, request
  <1>1. Disciplined' /\ FileUnderItsRelease' /\ IndexedAreStored'
    BY DEF Kept, Disciplined, InFlight, Compatible, FileUnderItsRelease, IndexedAreStored
  <1>2. ASSUME NEW w \in Worker PROVE WorkerKept(w)'
    <2>1. WorkerKept(w)
      BY DEF Kept
    <2>2. QED
      BY <2>1
         DEF WorkerKept, HoldsPackage, HoldsRelease, CarriesRelease, OwnKeys,
             ListedAreDoomed, DoomedFiles, PackageFiles, ReleaseFiles,
             DroppedAreUnindexed, FileExists, UploadIsFresh, UploadIsStored
  <1>3. QED
    BY <1>1, <1>2 DEF Kept

LEMMA KeptStep ==
    ASSUME Base, Kept, Discipline # "none", [Next]_vars
    PROVE  Kept'
  BY CrashKept, StutterKept, WorkerStepKept DEF Next, WorkerStep

LEMMA IInvInit == Init => IInv
  BY BaseInit, KeptInit DEF IInv

LEMMA IInvStep == IInv /\ [Next]_vars => IInv'
  BY BaseStep, KeptStep DEF IInv

(* The whole inductive invariant, under a discipline or without one. *)
THEOREM Invariance == Spec => []IInv
  BY IInvInit, IInvStep, PTL DEF Spec

(* When clients keep requests apart that would undo each other, every      *)
(* indexed file keeps its archive and its METADATA, whatever fails.        *)
THEOREM IndexedStayStored ==
    ASSUME Discipline # "none"
    PROVE  Spec => []IndexedAreStored
  <1>1. IInv => IndexedAreStored
    BY DEF IInv, Kept
  <1>2. QED
    BY <1>1, Invariance, PTL

(* ... and hangs under the project its filename names and the version its  *)
(* METADATA states.                                                        *)
THEOREM FilesStayWhereTheyBelong ==
    ASSUME Discipline # "none"
    PROVE  Spec => []FileUnderItsRelease
  <1>1. IInv => FileUnderItsRelease
    BY DEF IInv, Kept
  <1>2. QED
    BY <1>1, Invariance, PTL

-----------------------------------------------------------------------------
(* What a change strikes.                                                  *)

(* A release that is not new keeps its package and its version, and its    *)
(* package its name.                                                       *)
Descends ==
    \A s \in releases' :
        \/ IsNew(s)
        \/ \E r \in releases :
              /\ r.id = s.id /\ r.package_id = s.package_id /\ r.version = s.version
              /\ \A p \in packages :
                    p.id = r.package_id => \E q \in packages' : q.id = p.id /\ q.name = p.name

LEMMA RowsDescend ==
    ASSUME Base, Next
    PROVE  Descends
  <1>0. CatalogOK
    BY BaseParts
  <1>1. CASE UNCHANGED <<packages, releases>>
    BY <1>1 DEF Descends
  <1>2. CASE packages \subseteq packages' /\ UNCHANGED releases
    BY <1>2 DEF Descends
  <1>3. ASSUME NEW name, NEW v, RefreshPackage(name, v) PROVE Descends
    <2> DEFINE upd(p) == IF p.name = name THEN [p EXCEPT !.summary = v] ELSE p
    <2>1. packages' = {upd(p) : p \in packages} /\ UNCHANGED releases
      BY <1>3 DEF RefreshPackage
    <2>2. \A p \in packages : upd(p).id = p.id /\ upd(p).name = p.name
      BY <1>0 DEF CatalogOK, CatalogTypeOK, PackageRow
    <2> HIDE DEF upd
    <2>3. QED
      BY <2>1, <2>2 DEF Descends
  <1>4. ASSUME NEW n, NEW v, InsertRelease(n, v) PROVE Descends
    <2>1. CASE UNCHANGED releases
      BY <1>1, <1>4, <2>1 DEF InsertRelease
    <2>2. ASSUME NEW id \in Id, IsNextId(releases, id),
                 releases' = releases \cup
                     {[id |-> id, package_id |-> n, version |-> v, yanked |-> FALSE]}
          PROVE  Descends
      <3>1. \A r \in releases : r.id # id
        BY <1>0, <2>2 DEF IsNextId, CatalogOK, CatalogTypeOK, ReleaseRow, Id
      <3>2. UNCHANGED packages
        BY <1>4 DEF InsertRelease
      <3>3. QED
        BY <2>2, <3>1, <3>2 DEF Descends, IsNew
    <2>3. QED
      BY <1>4, <2>1, <2>2 DEF InsertRelease
  <1>5. ASSUME NEW n, NEW y, SetYanked(n, y) PROVE Descends
    <2> DEFINE upd(r) == IF r.id = n THEN [r EXCEPT !.yanked = y] ELSE r
    <2>1. releases' = {upd(r) : r \in releases} /\ UNCHANGED packages
      BY <1>5 DEF SetYanked
    <2>2. \A r \in releases : /\ upd(r).id = r.id /\ upd(r).package_id = r.package_id
                              /\ upd(r).version = r.version
      BY <1>0 DEF CatalogOK, CatalogTypeOK, ReleaseRow
    <2> HIDE DEF upd
    <2>3. QED
      BY <2>1, <2>2 DEF Descends
  <1>6. ASSUME NEW n, DeletePackage(n) \/ DeleteRelease(n) PROVE Descends
    BY <1>6 DEF DeletePackage, DeleteRelease, Descends
  <1>7. ASSUME NEW w \in Worker, Ingest(w) PROVE Descends
    BY <1>1, <1>2, <1>3, <1>4, <1>7
       DEF Ingest, CheckFileExists, RejectFile, PutDist, PutMetadata, GetExisting,
           LatestVersion, Upsert, InsertPackage, Refresh, Reload, CreateRelease,
           GetRelease, IndexFile, CreateFile, catalog
  <1>8. ASSUME NEW w \in Worker, Administer(w) PROVE Descends
    BY <1>1, <1>5, <1>6, <1>8
       DEF Administer, LookupPackage, LookupRelease, YankRelease, ListFiles, DeleteRow,
           catalog
  <1>9. ASSUME NEW w \in Worker,
               \/ \E j \in Job : Start(w, j)
               \/ DropBlob(w) \/ StatementFails(w) \/ ClientGoes(w)
        PROVE  Descends
    <2>1. UNCHANGED catalog
      BY <1>9, OtherRows
    <2>2. QED
      BY <1>1, <2>1 DEF catalog
  <1>10. CASE Crash
    BY <1>1, <1>10 DEF Crash, catalog
  <1>11. QED
    BY <1>7, <1>8, <1>9, <1>10 DEF Next

LEMMA Remembered ==
    ASSUME Remember, NEW w \in Worker, pc'[w] # "idle", job'[w].op # "upload",
           NEW s \in releases', IsNew(s) \/ s.id \in young[w]
    PROVE  s.id \in young'[w]
  <1> DEFINE now == {r.id : r \in {q \in releases' : q.id \in young[w] \/ IsNew(q)}}
  <1>1. young'[w] = now
    BY DEF Remember
  <1>2. s.id \in now
    OBVIOUS
  <1>3. QED
    BY <1>1, <1>2

(* A worker goes on with the ids it has. *)
LEMMA TargetsStay ==
    ASSUME Base, TargetsKnown, Descends, Remember, NEW w \in Worker,
           pc[w] \in ChangeSteps \ {"get_package"}, pc'[w] \in ChangeSteps,
           job'[w] = job[w], pid'[w] = pid[w],
           CarriesRelease(w)' => CarriesRelease(w) /\ rid'[w] = rid[w]
    PROVE  GoesByPackage(w)' /\ GoesByRelease(w)'
  <1>1. job'[w].op # "upload" /\ pc'[w] # "idle"
    BY DEF Base, JobFits, ChangeSteps
  <1>2. ASSUME NEW s \in releases', s.id \notin young'[w]
        PROVE  \E r \in releases :
                  /\ r.id = s.id /\ r.package_id = s.package_id /\ r.version = s.version
                  /\ r.id \notin young[w]
                  /\ \A p \in packages : p.id = r.package_id =>
                        \E q \in packages' : q.id = p.id /\ q.name = p.name
    BY <1>1, <1>2, Remembered DEF Descends
  <1>3. GoesByPackage(w)'
    <2> SUFFICES ASSUME NEW s \in releases', s.package_id = pid'[w], s.id \notin young'[w]
                 PROVE  \E p \in packages' : p.id = s.package_id /\ p.name = job'[w].project
      BY DEF GoesByPackage
    <2>1. QED
      BY <1>2 DEF TargetsKnown, GoesByPackage
  <1>4. GoesByRelease(w)'
    <2> SUFFICES ASSUME CarriesRelease(w)', NEW s \in releases', s.id = rid'[w],
                        s.id \notin young'[w]
                 PROVE  Names(job[w], s)'
      BY DEF GoesByRelease, Names
    <2>1. PICK r \in releases :
            /\ r.id = s.id /\ r.package_id = s.package_id /\ r.version = s.version
            /\ r.id \notin young[w]
            /\ \A p \in packages : p.id = r.package_id =>
                  \E q \in packages' : q.id = p.id /\ q.name = p.name
      BY <1>2
    <2>2. Names(job[w], r)
      BY <2>1 DEF TargetsKnown, GoesByRelease
    <2>3. QED
      BY <2>1, <2>2 DEF Names
  <1>5. QED
    BY <1>3, <1>4

(* ... and when it looks ids up, they are those of what it names. *)
LEMMA TargetsLookedUp ==
    ASSUME Base, TargetsKnown, Remember, NEW w \in Worker,
           LookupPackage(w) \/ LookupRelease(w), pc'[w] \in ChangeSteps
    PROVE  GoesByPackage(w)' /\ GoesByRelease(w)'
  <1> USE DEF At, Queries
  <1>0. LocalsOK /\ UNCHANGED <<packages, releases>>
    BY BaseParts DEF LookupPackage, LookupRelease, catalog
  <1>1. CASE LookupPackage(w)
    <2>1. PICK p \in packages :
            /\ p.name = job[w].project
            /\ pid' = [pid EXCEPT ![w] = p.id]
            /\ Goto(w, IF job[w].op = "delete_package"
                       THEN "list_files" ELSE "find_release")
      BY <1>0, <1>1 DEF LookupPackage, Finish, LocalsOK, ChangeSteps
    <2>2. /\ job'[w] = job[w] /\ pid'[w] = p.id
          /\ ~ (pc'[w] \in {"list_files", "delete_row"} /\ job[w].op = "delete_release")
          /\ pc'[w] \notin {"create_file", "set_yanked"}
      BY <1>0, <2>1 DEF Goto, LocalsOK
    <2>3. QED
      BY <1>0, <2>1, <2>2 DEF GoesByPackage, GoesByRelease, CarriesRelease
  <1>2. CASE LookupRelease(w)
    <2>1. PICK r \in releases :
            /\ r.package_id = pid[w] /\ r.version = job[w].version
            /\ rid' = [rid EXCEPT ![w] = r.id]
            /\ Goto(w, IF job[w].op = "delete_release"
                       THEN "list_files" ELSE "set_yanked")
            /\ UNCHANGED pid
      BY <1>0, <1>2 DEF LookupRelease, Finish, LocalsOK, ChangeSteps
    <2>2. job'[w] = job[w] /\ pid'[w] = pid[w] /\ rid'[w] = r.id
      BY <1>0, <2>1 DEF Goto, LocalsOK
    <2>3. /\ pc[w] = "find_release" /\ job[w] \in Job
          /\ job[w].op \in {"delete_release", "yank", "unyank"}
      BY <1>0, <1>2, JobTypes DEF LookupRelease, LocalsOK, JobFits, ChangeSteps, Operations
    <2>4. ASSUME NEW s \in releases', s.package_id = pid[w]
          PROVE  \/ s.id \in young'[w]
                 \/ \E p \in packages : p.id = s.package_id /\ p.name = job[w].project
      <3>1. s \in releases /\ pc'[w] # "idle" /\ job'[w].op # "upload"
        BY <1>0, <2>2, <2>3 DEF ChangeSteps
      <3>2. \/ s.id \in young[w]
            \/ \E p \in packages : p.id = s.package_id /\ p.name = job[w].project
        BY <2>3, <2>4, <3>1 DEF TargetsKnown, GoesByPackage, ChangeSteps
      <3>3. QED
        BY <3>1, <3>2, Remembered
    <2>5. GoesByPackage(w)'
      BY <1>0, <2>2, <2>4 DEF GoesByPackage
    <2>6. \A s \in releases' : s.id = r.id => s = r
      BY <1>0, BaseParts DEF CatalogOK, UniqueRows
    <2>7. Names(job[w], r)' \/ r.id \in young'[w]
      BY <1>0, <2>1, <2>2, <2>3, <2>4 DEF Names
    <2>8. GoesByRelease(w)'
      BY <1>0, <2>2, <2>6, <2>7 DEF GoesByRelease, Names
    <2>9. QED
      BY <2>5, <2>8
  <1>3. QED
    BY <1>1, <1>2

LEMMA TargetsInit == Init => TargetsKnown
  BY DEF Init, Idle, TargetsKnown, GoesByPackage, GoesByRelease, ChangeSteps

LEMMA TargetsStep == Base /\ TargetsKnown /\ [Next]_vars => TargetsKnown'
  <1> SUFFICES ASSUME Base, TargetsKnown, [Next]_vars PROVE TargetsKnown'
    OBVIOUS
  <1> USE DEF At, Queries
  <1>0. LocalsOK
    BY BaseParts
  <1>1. CASE UNCHANGED vars
    BY <1>1 DEF vars, request, TargetsKnown, GoesByPackage, GoesByRelease, CarriesRelease, Names
  <1>2. CASE Next
    <2>1. Descends /\ Remember
      BY <1>2, RowsDescend DEF Next
    <2>2. ASSUME NEW v \in Worker,
                 pc'[v] = pc[v], job'[v] = job[v], pid'[v] = pid[v], rid'[v] = rid[v]
          PROVE  GoesByPackage(v)' /\ GoesByRelease(v)'
      <3>1. CASE pc[v] \in ChangeSteps \ {"get_package"}
        BY <2>1, <2>2, <3>1, TargetsStay DEF CarriesRelease
      <3>2. CASE pc[v] \notin ChangeSteps \ {"get_package"}
        BY <2>2, <3>2 DEF GoesByPackage, GoesByRelease, CarriesRelease
      <3>3. QED
        BY <3>1, <3>2
    <2>3. ASSUME NEW v \in Worker, pc'[v] \notin ChangeSteps \/ pc'[v] = "get_package"
          PROVE  GoesByPackage(v)' /\ GoesByRelease(v)'
      BY <2>3 DEF GoesByPackage, GoesByRelease, CarriesRelease
    <2>4. CASE Crash
      <3>1. \A v \in Worker : pc'[v] \notin ChangeSteps
        BY <2>4 DEF Crash, ChangeSteps
      <3>2. QED
        BY <2>3, <3>1 DEF TargetsKnown
    <2>5. ASSUME NEW w \in Worker, WorkerStep(w) \/ \E j \in Job : Start(w, j)
          PROVE  TargetsKnown'
      <3>1. OthersSame(w)
        BY <1>0, <2>5, StepIsLocal
      <3>2. ASSUME NEW s, Goto(w, s) PROVE pc'[w] = s /\ job'[w] = job[w]
        BY <1>0, <3>2 DEF Goto, LocalsOK
      <3>3. ASSUME NEW a, Finish(w, a) PROVE pc'[w] = "idle"
        BY <1>0, <3>3 DEF Finish, LocalsOK
      <3>4. ASSUME pc'[w] \in ChangeSteps \ {"get_package"}
            PROVE  GoesByPackage(w)' /\ GoesByRelease(w)'
        <4>1. CASE LookupPackage(w) \/ LookupRelease(w)
          BY <2>1, <3>4, <4>1, TargetsLookedUp
        <4>2. CASE ListFiles(w)
          <5>1. /\ pc[w] = "list_files" /\ pc'[w] = "delete_row" /\ job'[w] = job[w]
                /\ pid'[w] = pid[w] /\ rid'[w] = rid[w]
            BY <3>2, <4>2 DEF ListFiles
          <5>2. QED
            BY <2>1, <5>1, TargetsStay DEF CarriesRelease, ChangeSteps
        <4>3. CASE ClientGoes(w)
          BY <2>2, <4>3 DEF ClientGoes, locals
        <4>4. CASE Ingest(w) \/ DropBlob(w)
          <5>1. pc'[w] = pc[w] \/ pc'[w] \notin ChangeSteps
            BY <1>0, <3>2, <3>3, <4>4
               DEF Ingest, CheckFileExists, RejectFile, PutDist, PutMetadata, GetExisting,
                   LatestVersion, Upsert, Refresh, Reload, CreateRelease, GetRelease,
                   IndexFile, DropBlob, Rollback, Drop, Decide, ChangeSteps
          <5>2. pc[w] \notin ChangeSteps
            BY <4>4
               DEF Ingest, CheckFileExists, RejectFile, PutDist, PutMetadata, GetExisting,
                   LatestVersion, Upsert, Refresh, Reload, CreateRelease, GetRelease,
                   IndexFile, DropBlob, ChangeSteps
          <5>3. QED
            BY <3>4, <5>1, <5>2
        <4>5. CASE YankRelease(w) \/ DeleteRow(w) \/ StatementFails(w)
          <5>1. pc'[w] \notin ChangeSteps
            BY <3>2, <3>3, <4>5
               DEF YankRelease, DeleteRow, StatementFails, Rollback, Drop, Decide, ChangeSteps
          <5>2. QED
            BY <3>4, <5>1
        <4>6. CASE \E j \in Job : Start(w, j)
          BY <1>0, <3>4, <4>6 DEF Start, LocalsOK, ChangeSteps
        <4>7. QED
          BY <2>5, <4>1, <4>2, <4>3, <4>4, <4>5, <4>6 DEF WorkerStep, Administer
      <3>5. GoesByPackage(w)' /\ GoesByRelease(w)'
        BY <2>3, <3>4
      <3>6. ASSUME NEW v \in Worker \ {w} PROVE GoesByPackage(v)' /\ GoesByRelease(v)'
        BY <2>2, <3>1 DEF OthersSame
      <3>7. QED
        BY <3>5, <3>6 DEF TargetsKnown
    <2>6. QED
      BY <1>2, <2>4, <2>5 DEF Next, WorkerStep
  <1>3. QED
    BY <1>1, <1>2

LEMMA StruckAreNamedOrNewer ==
    ASSUME Base, TargetsKnown, [Next]_vars, NEW r \in releases \ releases'
    PROVE  \E w \in Worker : pc'[w] # pc[w] /\ (Names(job[w], r) \/ r.id \in young[w])
  <1> USE DEF At, Queries
  <1>0. LocalsOK
    BY BaseParts
  <1>1. PICK w \in Worker : YankRelease(w) \/ DeleteRow(w)
    BY DEF Next, vars, request, Crash, catalog, Start, Ingest, CheckFileExists, RejectFile,
           PutDist, PutMetadata, GetExisting, LatestVersion, Upsert, InsertPackage,
           Refresh, RefreshPackage, Reload, CreateRelease, InsertRelease, GetRelease,
           IndexFile, CreateFile, Administer, LookupPackage, LookupRelease, ListFiles,
           DropBlob, StatementFails, ClientGoes
  <1>2. pc'[w] # pc[w] /\ pc[w] \in ChangeSteps \ {"get_package"}
    BY <1>0, <1>1 DEF YankRelease, DeleteRow, Finish, Drop, Goto, LocalsOK, ChangeSteps
  <1>3. CASE job[w].op = "delete_package" /\ DeletePackage(pid[w])
    <2>1. r.package_id = pid[w]
      BY <1>3 DEF DeletePackage
    <2>2. QED
      BY <1>2, <1>3, <2>1 DEF TargetsKnown, GoesByPackage, Names
  <1>4. CASE CarriesRelease(w) /\ r.id = rid[w]
    BY <1>2, <1>4 DEF TargetsKnown, GoesByRelease
  <1>5. CASE YankRelease(w)
    BY <1>4, <1>5 DEF YankRelease, SetYanked, CarriesRelease
  <1>6. CASE DeleteRow(w)
    BY <1>3, <1>4, <1>6 DEF DeleteRow, DeleteRelease, CarriesRelease
  <1>7. QED
    BY <1>1, <1>5, <1>6

(* Whatever overlaps and whatever fails, a request that deletes or flags   *)
(* strikes a release it does not name only if that is newer than the       *)
(* request: a stale id never reaches what had been published before.       *)
THEOREM PublishedAreSafe == Spec => StrikesNamedOrNewer
  <1>1. Spec => [](Base /\ TargetsKnown)
    BY BaseInit, BaseStep, TargetsInit, TargetsStep, PTL DEF Spec
  <1>2. Base /\ TargetsKnown /\ [Next]_vars =>
          \A r \in releases \ releases' :
              \E w \in Worker : pc'[w] # pc[w] /\ (Names(job[w], r) \/ r.id \in young[w])
    BY StruckAreNamedOrNewer
  <1>3. QED
    BY <1>1, <1>2, PTL DEF Spec, StrikesNamedOrNewer
=============================================================================
