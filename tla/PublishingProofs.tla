-------------------------- MODULE PublishingProofs --------------------------
(***************************************************************************)
(* What publishing comes to, from the inductive invariant proved in        *)
(* RegistryProofs: Registry implements Shelf; no object is stored that no  *)
(* row names and no request answers for; and a project's summary is always *)
(* that of its newest upload.                                              *)
(***************************************************************************)
EXTENDS RegistryProofs

-----------------------------------------------------------------------------
(* The shelf: what can be downloaded changes as if uploads and deletes     *)
(* were single steps.                                                      *)

(* What the shelf shows of an index row. *)
ItemOf(f) == [project |-> ProjectOf[f.filename],
              version |-> MetaVersion[f.filename][f.sha256],
              filename |-> f.filename, sha256 |-> f.sha256]

(* Every index row is served, under the names it states. *)
LEMMA ServedIs ==
    ASSUME Base, FileUnderItsRelease, IndexedAreStored
    PROVE  Served = {ItemOf(f) : f \in files}
  <1>1. ASSUME NEW i \in Served PROVE i \in {ItemOf(f) : f \in files}
    <2>1. PICK p \in packages, r \in releases, f \in files :
             /\ f.release_id = r.id /\ r.package_id = p.id
             /\ i = [project |-> p.name, version |-> r.version,
                     filename |-> f.filename, sha256 |-> f.sha256]
      BY DEF Served
    <2>2. PICK s \in releases, q \in packages :
             /\ s.id = f.release_id /\ q.id = s.package_id
             /\ q.name = ProjectOf[f.filename]
             /\ s.version = MetaVersion[f.filename][f.sha256]
      BY DEF FileUnderItsRelease
    <2>3. r = s /\ p = q
      BY <2>1, <2>2 DEF Base, RowsConsistent, UniqueRows
    <2>4. QED
      BY <2>1, <2>2, <2>3 DEF ItemOf
  <1>2. ASSUME NEW f \in files PROVE ItemOf(f) \in Served
    <2>1. PICK r \in releases, p \in packages :
             /\ r.id = f.release_id /\ p.id = r.package_id
             /\ p.name = ProjectOf[f.filename]
             /\ r.version = MetaVersion[f.filename][f.sha256]
      BY DEF FileUnderItsRelease
    <2>2. f.sha256 # Absent
      BY NoContentAssumption DEF Base, TypeOK, CatalogTypeOK, FileRow
    <2>3. \A k \in KeysOf(f.filename, f.sha256) : Blob!Stored(k)
      BY <2>2 DEF IndexedAreStored, Blob!Stored
    <2> DEFINE t == <<p, r, f>>
    <2>4. t \in packages \X releases \X files /\ t[1] = p /\ t[2] = r /\ t[3] = f
      OBVIOUS
    <2>5. ItemOf(f) = [project |-> t[1].name, version |-> t[2].version,
                       filename |-> t[3].filename, sha256 |-> t[3].sha256]
      BY <2>1, <2>4 DEF ItemOf
    <2> HIDE DEF t
    <2>6. QED
      BY <2>1, <2>3, <2>4, <2>5 DEF Served
  <1>3. QED
    BY <1>1, <1>2

(* ... before a step and after it. *)
LEMMA ServedAround ==
    IInv /\ IInv' /\ Discipline # "none" =>
        /\ Served = {ItemOf(f) : f \in files}
        /\ Served' = {ItemOf(f) : f \in files'}
  <1>1. IInv /\ Discipline # "none" => Served = {ItemOf(f) : f \in files}
    BY ServedIs DEF IInv, Kept
  <1>2. (IInv /\ Discipline # "none" => Served = {ItemOf(f) : f \in files})'
    BY <1>1, PTL
  <1>3. QED
    BY <1>1, <1>2 DEF ItemOf

LEMMA ItemOfIsItem ==
    ASSUME NEW f, f.filename \in Filename, f.sha256 \in Digest
    PROVE  ItemOf(f) \in Shelf!Item
  BY DEF ItemOf, Shelf!Item

LEMMA ShelfInit == Init => Shelf!Init
  BY DEF Init, CatalogInit, Served, Shelf!Init

(* An upload that is indexed publishes its file, *)
LEMMA IndexesPublishes ==
    ASSUME IInv, IInv', Discipline # "none", NEW w \in Worker, Indexes(w)
    PROVE  Shelf!Next
  <1> DEFINE item == ItemOf(NewFile(w))
  <1>1. Served = {ItemOf(f) : f \in files} /\ Served' = {ItemOf(f) : f \in files'}
    BY ServedAround
  <1>2. Served' = Served \cup {item}
    BY <1>1 DEF Indexes
  <1>3. /\ NewFile(w).filename = job[w].filename /\ NewFile(w).sha256 = job[w].sha256
    BY DEF NewFile
  <1>4. job[w].filename \in Filename /\ job[w].sha256 \in Digest
    BY BaseParts, JobTypes DEF IInv, LocalsOK, JobFits, Indexes, UploadSteps
  <1>5. ~ FileExists(job[w].filename)
    BY DEF IInv, Kept, WorkerKept, UploadIsFresh, Indexes, UploadSteps
  <1>6. \A i \in Served : i.filename # item.filename
    BY <1>1, <1>3, <1>5 DEF FileExists, ItemOf
  <1>7. item \in Shelf!Item
    BY <1>3, <1>4, ItemOfIsItem
  <1> HIDE DEF item
  <1>8. QED
    BY <1>2, <1>6, <1>7 DEF Shelf!Next, Shelf!Publish

(* ... a delete withdraws its release or project, if that has any file. *)
LEMMA RemovesWithdraws ==
    ASSUME IInv, IInv', Discipline # "none", NEW w \in Worker, Removes(w)
    PROVE  Shelf!Next \/ UNCHANGED Served
  <1>1. Served = {ItemOf(f) : f \in files} /\ Served' = {ItemOf(f) : f \in files'}
    BY ServedAround
  <1>2. files' = files \ DoomedFiles(w) /\ pc[w] = "delete_row"
    BY DEF Removes, DeletePackage, DeleteRelease, DoomedFiles
  <1>3. Target(job[w]) = job[w].project
    BY <1>2 DEF IInv, Base, JobFits, Deletes, Target
  <1>4. ASSUME NEW f \in files
        PROVE  \E r \in releases, p \in packages :
                  /\ r.id = f.release_id /\ p.id = r.package_id
                  /\ p.name = ItemOf(f).project /\ r.version = ItemOf(f).version
    BY DEF IInv, Kept, FileUnderItsRelease, ItemOf
  <1>5. Base /\ WorkerKept(w) /\ \A r, s \in releases : r.id = s.id => r = s
    BY DEF IInv, Kept, Base, RowsConsistent, UniqueRows
  <1>6. CASE job[w].op = "delete_package"
    <2>1. ASSUME NEW f \in files
          PROVE  f \in DoomedFiles(w) <=> ItemOf(f).project = job[w].project
      BY <1>2, <1>3, <1>4, <1>5, <1>6, HeldIsUnique DEF DoomedFiles, PackageFiles
    <2>2. Served' = {i \in Served : i.project # job[w].project}
      BY <1>1, <1>2, <2>1
    <2>3. CASE \E f \in files : ItemOf(f).project = job[w].project
      <3>1. PICK f \in files : ItemOf(f).project = job[w].project
        BY <2>3
      <3>2. ItemOf(f) \in Shelf!Item
        BY ItemOfIsItem DEF IInv, Base, TypeOK, CatalogTypeOK, FileRow
      <3>3. QED
        BY <2>2, <3>1, <3>2 DEF Shelf!Next, Shelf!WithdrawProject
    <2>4. CASE ~ \E f \in files : ItemOf(f).project = job[w].project
      BY <1>1, <2>2, <2>4
    <2>5. QED
      BY <2>3, <2>4
  <1>7. CASE job[w].op = "delete_release"
    <2> DEFINE Hit(i) == i.project = job[w].project /\ i.version = job[w].version
    <2>0. Wanted(job[w]) = job[w].version /\ CarriesRelease(w)
      BY <1>2, <1>7 DEF Wanted, CarriesRelease
    <2>1. ASSUME NEW f \in files
          PROVE  f \in DoomedFiles(w) <=> Hit(ItemOf(f))
      <3>1. PICK r \in releases, p \in packages :
               /\ r.id = f.release_id /\ p.id = r.package_id
               /\ p.name = ItemOf(f).project /\ r.version = ItemOf(f).version
        BY <1>4
      <3>2. f \in DoomedFiles(w) <=> r.id = rid[w]
        BY <1>7, <3>1 DEF DoomedFiles, ReleaseFiles
      <3>3. p.id = pid[w] <=> p.name = job[w].project
        BY <1>2, <1>3, <1>5, HeldIsUnique
      <3>4. r.id = rid[w] <=> r.package_id = pid[w] /\ r.version = job[w].version
        BY <1>2, <1>5, <2>0, <3>1, HeldIsUnique
      <3>5. QED
        BY <3>1, <3>2, <3>3, <3>4
    <2>2. Served' = {i \in Served : ~ Hit(i)}
      BY <1>1, <1>2, <2>1
    <2>3. CASE \E f \in files : Hit(ItemOf(f))
      <3>1. PICK f \in files : Hit(ItemOf(f))
        BY <2>3
      <3>2. ItemOf(f) \in Shelf!Item
        BY ItemOfIsItem DEF IInv, Base, TypeOK, CatalogTypeOK, FileRow
      <3>3. QED
        BY <2>2, <3>1, <3>2 DEF Shelf!Next, Shelf!WithdrawRelease
    <2>4. CASE ~ \E f \in files : Hit(ItemOf(f))
      BY <1>1, <2>2, <2>4
    <2>5. QED
      BY <2>3, <2>4
  <1>8. QED
    BY <1>6, <1>7 DEF Removes

LEMMA ShelfStep ==
    ASSUME IInv, IInv', Discipline # "none", [Next]_vars
    PROVE  [Shelf!Next]_Served
  <1>1. CASE UNCHANGED files
    <2>1. Served = {ItemOf(f) : f \in files} /\ Served' = {ItemOf(f) : f \in files'}
      BY ServedAround
    <2>2. QED
      BY <1>1, <2>1
  <1>2. ASSUME NEW w \in Worker, WorkerStep(w) \/ \E j \in Job : Start(w, j)
        PROVE  [Shelf!Next]_Served
    <2>1. Effect(w)
      BY <1>2, StepHasEffect DEF IInv, Kept
    <2>2. QED
      BY <1>1, <2>1, IndexesPublishes, RemovesWithdraws
         DEF Effect, Grows, Touches, catalog
  <1>3. QED
    BY <1>1, <1>2 DEF Next, WorkerStep, Crash, catalog, vars, request

(* What can be downloaded changes only as the index promises: files appear *)
(* whole and under a free filename, and go with their release or project.  *)
THEOREM RegistryImplementsShelf ==
    ASSUME Discipline # "none"
    PROVE  Spec => ImplementsShelf
  <1>1. IInv /\ IInv' /\ [Next]_vars => [Shelf!Next]_Served
    BY ShelfStep
  <1>2. QED
    BY <1>1, ShelfInit, Invariance, PTL DEF Spec, ImplementsShelf, Shelf!Spec

-----------------------------------------------------------------------------
(* No orphans: every object without a row is some request's business.      *)

(* What other workers answer for, they still do. *)
LEMMA OthersAnswer ==
    ASSUME NEW v \in Worker, NEW w \in Worker, v # w, OthersSame(w),
           NEW k, Answers(v, k)
    PROVE  Answers(v, k)'
  BY DEF OthersSame, Answers

(* Nothing becomes garbage while files stay and objects only go. *)
LEMMA GarbageStays ==
    ASSUME NEW k, Garbage(k)', files \subseteq files', blobs'[k] \in {blobs[k], Absent}
    PROVE  Garbage(k)
  BY DEF Garbage, Blob!Stored

(* An upload that gives up hands its objects to the rollback. *)
LEMMA DroppedAreAnswered ==
    ASSUME LocalsOK, NEW w \in Worker, NEW keys, Drop(w, keys), NEW k \in keys
    PROVE  Answers(w, k)'
  <1>1. pc'[w] = "drop_blobs" /\ todo'[w] = keys
    BY DEF Drop, Goto, LocalsOK
  <1>2. QED
    BY <1>1 DEF Answers

(* The next step of an upload at which both of its objects are stored. *)
LEMMA UploadAnswers ==
    ASSUME LocalsOK, NEW w \in Worker, NEW s \in StoredSteps, Goto(w, s),
           NEW k \in KeysOf(job[w].filename, job[w].sha256)
    PROVE  Answers(w, k)'
  <1>1. pc'[w] = s /\ job'[w] = job[w]
    BY DEF Goto, LocalsOK
  <1>2. QED
    BY <1>1 DEF Answers

(* w keeps answering for an object, or it is garbage no more. *)
LEMMA IngestAnswers ==
    ASSUME "blob" \notin Faults, NoCallCutOff, Base, NEW w \in Worker, Ingest(w),
           NEW k \in Key, Answers(w, k)
    PROVE  Answers(w, k)' \/ ~ Garbage(k)'
  <1> USE DEF At, Queries
  <1>0. LocalsOK
    BY BaseParts
  <1>1. CASE PutMetadata(w)
    <2>1. k \in KeysOf(job[w].filename, job[w].sha256) /\ Goto(w, "get_existing")
      BY <1>1 DEF NoCallCutOff, CallsStore, CallFails, PutObjectFails, PutMetadata,
                  Answers, KeysOf, StoredSteps
    <2>2. QED
      BY <1>0, <2>1, UploadAnswers DEF StoredSteps
  <1>2. CASE pc[w] \in StoredSteps /\ k \in KeysOf(job[w].filename, job[w].sha256)
    <2>1. CASE Rollback(w)
      BY <1>0, <1>2, <2>1, DroppedAreAnswered DEF Rollback
    <2>2. CASE \E s \in StoredSteps : Goto(w, s)
      BY <1>0, <1>2, <2>2, UploadAnswers
    <2>3. CASE CreateFile(rid[w], job[w].filename, job[w].sha256)
      <3>1. NewFile(w) \in files'
        BY <2>3 DEF CreateFile, NewFile
      <3>2. NewFile(w).filename = job[w].filename /\ NewFile(w).sha256 = job[w].sha256
        BY DEF NewFile
      <3>3. QED
        BY <1>2, <3>1, <3>2 DEF Garbage
    <2>4. QED
      BY <1>2, <2>1, <2>2, <2>3
         DEF Ingest, CheckFileExists, RejectFile, PutDist, PutMetadata, GetExisting,
             LatestVersion, Upsert, Refresh, Reload, CreateRelease, GetRelease,
             IndexFile, Decide, StoredSteps
  <1>3. QED
    BY <1>1, <1>2
       DEF Answers, Ingest, CheckFileExists, RejectFile, PutDist, GetExisting,
           LatestVersion, Upsert, Refresh, Reload, CreateRelease, GetRelease,
           IndexFile, StoredSteps

LEMMA DropAnswers ==
    ASSUME "blob" \notin Faults, NoCallCutOff, Base, NEW w \in Worker, DropBlob(w),
           NEW k \in Key, Answers(w, k)
    PROVE  Answers(w, k)' \/ ~ Garbage(k)'
  <1>0. LocalsOK /\ pc[w] = "drop_blobs" /\ k \in todo[w]
    BY BaseParts DEF DropBlob, At, Answers, StoredSteps
  <1>1. PICK m \in todo[w] :
           /\ DeleteObject(w, m)
           /\ \/ /\ todo[w] # {m}
                 /\ todo' = [todo EXCEPT ![w] = @ \ {m}]
                 /\ UNCHANGED <<pc, job, pid, rid, refresh, reply, gone>>
              \/ todo[w] = {m}
    BY DEF DropBlob
  <1>2. Blob!Delete(m) /\ m \in Key
    BY <1>0, <1>1 DEF NoCallCutOff, CallsStore, CallFails, DeleteObject, LocalsOK
  <1>3. CASE k = m
    <2>1. blobs'[m] = Absent
      BY <1>2 DEF Blob!Delete, Base, TypeOK, Blob!TypeOK
    <2>2. QED
      BY <1>3, <2>1 DEF Garbage, Blob!Stored
  <1>4. CASE k # m
    <2>1. pc'[w] = "drop_blobs" /\ k \in todo'[w]
      BY <1>0, <1>1, <1>4 DEF LocalsOK
    <2>2. QED
      BY <2>1 DEF Answers
  <1>5. QED
    BY <1>3, <1>4

LEMMA OwnDutyKept ==
    ASSUME "blob" \notin Faults, NoCallCutOff, Base, NEW w \in Worker,
           WorkerStep(w) \/ \E j \in Job : Start(w, j),
           NEW k \in Key, Answers(w, k)
    PROVE  Answers(w, k)' \/ ~ Garbage(k)'
  <1> USE DEF At, Queries
  <1>0. LocalsOK /\ pc[w] \in StoredSteps \cup {"put_metadata", "drop_blobs"}
    BY BaseParts DEF Answers
  <1>1. CASE StatementFails(w)
    <2>1. pc[w] \in StoredSteps /\ k \in KeysOf(job[w].filename, job[w].sha256)
      BY <1>0, <1>1 DEF StatementFails, StoredSteps, ChangeSteps, Answers
    <2>2. CASE Rollback(w)
      BY <1>0, <2>1, <2>2, DroppedAreAnswered DEF Rollback
    <2>3. CASE Decide(w, TRUE)
      BY <1>0, <2>1, <2>3, UploadAnswers DEF Decide, StoredSteps
    <2>4. QED
      BY <1>1, <2>1, <2>2, <2>3 DEF StatementFails, StoredSteps, ChangeSteps
  <1>3. CASE ClientGoes(w)
    BY <1>3 DEF ClientGoes, locals, Answers
  <1>2. ~ Administer(w) /\ ~ \E j \in Job : Start(w, j)
    BY <1>0 DEF Administer, LookupPackage, LookupRelease, YankRelease, ListFiles,
                DeleteRow, Start, StoredSteps
  <1>4. QED
    BY <1>1, <1>2, <1>3, IngestAnswers, DropAnswers DEF WorkerStep

(* What becomes garbage, w has just stored or unindexed. *)
LEMMA NewGarbageIsOwned ==
    ASSUME "blob" \notin Faults, NoCallCutOff, Base, NEW w \in Worker,
           DoomedAreListed(w), MetadataOfWheel(w),
           WorkerStep(w) \/ \E j \in Job : Start(w, j),
           NEW k \in Key, ~ Garbage(k), Garbage(k)'
    PROVE  Answers(w, k)'
  <1> USE DEF At, Queries
  <1>0. LocalsOK
    BY BaseParts
  <1>1. CASE PutDist(w)
    <2> DEFINE key == BlobKey(job[w].sha256, job[w].filename, "dist")
    <2>1. /\ blobs' = [blobs EXCEPT ![key] = job[w].sha256] /\ UNCHANGED files
          /\ Goto(w, IF job[w].filename \in Wheel THEN "put_metadata" ELSE "get_existing")
      BY <1>1 DEF NoCallCutOff, CallsStore, CallFails, PutObject, PutObjectFails,
                  PutDist, Finish, Blob!Put, catalog
    <2>2. k = key
      BY <2>1, GarbageStays DEF Base, TypeOK, Blob!TypeOK
    <2>3. job'[w] = job[w] /\ pc'[w] \in {"put_metadata", "get_existing"}
      BY <1>0, <2>1 DEF Goto, LocalsOK
    <2>4. QED
      BY <2>2, <2>3 DEF Answers, KeysOf, StoredSteps
  <1>2. CASE PutMetadata(w)
    <2> DEFINE key == BlobKey(job[w].sha256, job[w].filename, "metadata")
    <2>1. /\ blobs' = [blobs EXCEPT ![key] = job[w].sha256] /\ UNCHANGED files
          /\ Goto(w, "get_existing") /\ job[w].filename \in Wheel
      BY <1>2 DEF NoCallCutOff, CallsStore, CallFails, PutObject, PutObjectFails,
                  PutMetadata, Blob!Put, catalog, MetadataOfWheel
    <2>2. k = key
      BY <2>1, GarbageStays DEF Base, TypeOK, Blob!TypeOK
    <2>3. QED
      BY <1>0, <2>1, <2>2, UploadAnswers DEF KeysOf, StoredSteps
  <1>3. CASE DropBlob(w)
    <2>1. PICK m \in todo[w] : Blob!Delete(m)
      BY <1>3 DEF NoCallCutOff, CallsStore, CallFails, DropBlob, DeleteObject
    <2>2. blobs'[k] \in {blobs[k], Absent} /\ UNCHANGED files
      BY <1>0, <1>3, <2>1 DEF Blob!Delete, Base, TypeOK, Blob!TypeOK, DropBlob, catalog
    <2>3. QED
      BY <2>2, GarbageStays
  <1>4. CASE DeleteRow(w)
    <2>1. PICK f \in files \ files' : k \in KeysOf(f.filename, f.sha256)
      BY <1>4 DEF DeleteRow, Garbage, Blob!Stored
    <2>2. f \in DoomedFiles(w)
      BY <1>4, <2>1 DEF DeleteRow, DeletePackage, DeleteRelease, DoomedFiles
    <2>3. k \in todo[w]
      BY <1>4, <2>1, <2>2 DEF DoomedAreListed, DeleteRow
    <2>4. QED
      BY <1>0, <1>4, <2>3, DroppedAreAnswered DEF DeleteRow
  <1>5. CASE files \subseteq files' /\ UNCHANGED blobs
    BY <1>5, GarbageStays
  <1>6. QED
    BY <1>1, <1>2, <1>3, <1>4, <1>5
       DEF WorkerStep, Start, catalog, Ingest, CheckFileExists, RejectFile, GetExisting,
           LatestVersion, Upsert, InsertPackage, Refresh, RefreshPackage, Reload,
           CreateRelease, InsertRelease, GetRelease, IndexFile, CreateFile,
           Administer, LookupPackage, LookupRelease, YankRelease, SetYanked, ListFiles,
           StatementFails, ClientGoes

(* No file comes under the rows another request is about to delete. *)
LEMMA OtherDoomed ==
    ASSUME Base, Base', Kept, Discipline # "none",
           NEW v \in Worker, NEW w \in Worker, v # w, OthersSame(w), Effect(w),
           pc[v] = "delete_row"
    PROVE  DoomedFiles(v)' \subseteq DoomedFiles(v)
  <1>0. /\ job'[v] = job[v] /\ pid'[v] = pid[v] /\ rid'[v] = rid[v]
        /\ Deletes(job[v]) /\ pc[v] # "idle"
    BY DEF OthersSame, Base, JobFits
  <1> SUFFICES ASSUME NEW f \in DoomedFiles(v)'
               PROVE  f \in DoomedFiles(v)
    OBVIOUS
  <1>1. f \in files'
    BY DEF DoomedFiles, PackageFiles, ReleaseFiles
  <1>2. CASE f \notin files
    <2>1. Indexes(w) /\ f = NewFile(w)
      BY <1>1, <1>2
         DEF Effect, Grows, Indexes, Removes, DeletePackage, DeleteRelease, Touches, catalog
    <2>2. /\ f.release_id = rid[w] /\ pc[w] = "create_file" /\ UNCHANGED <<packages, releases>>
      BY <2>1 DEF Indexes, NewFile
    <2>3. PICK r \in releases : r.id = rid[w] /\ r.package_id = pid[w]
      BY <2>2 DEF Kept, WorkerKept, HoldsRelease, CarriesRelease
    <2>4. PICK p \in packages : p.id = pid[w] /\ p.name = Target(job[w])
      BY <2>2 DEF Kept, WorkerKept, HoldsPackage
    <2>5. PICK q \in packages : q.id = pid[v] /\ q.name = Target(job[v])
      BY DEF Kept, WorkerKept, HoldsPackage
    <2>6. pid[v] # pid[w]
      BY <1>0, <2>2, <2>4, <2>5, Apart DEF Base, RowsConsistent, UniqueRows, Kept
    <2>7. \A s \in releases : s.id = f.release_id => s.package_id # pid[v]
      BY <2>2, <2>3, <2>6 DEF Base, RowsConsistent, UniqueRows
    <2>8. CASE job[v].op = "delete_package"
      BY <1>0, <2>2, <2>7, <2>8 DEF DoomedFiles, PackageFiles
    <2>9. CASE job[v].op = "delete_release"
      <3>1. PICK s \in releases : s.id = rid[v] /\ s.package_id = pid[v]
        BY <2>9 DEF Kept, WorkerKept, HoldsRelease, CarriesRelease
      <3>2. f.release_id = rid[v]
        BY <1>0, <2>9 DEF DoomedFiles, ReleaseFiles
      <3>3. QED
        BY <2>7, <3>1, <3>2
    <2>10. QED
      BY <1>0, <2>8, <2>9 DEF Deletes
  <1>3. CASE f \in files /\ job[v].op # "delete_package"
    BY <1>0, <1>3 DEF DoomedFiles, ReleaseFiles
  <1>4. CASE f \in files /\ job[v].op = "delete_package"
    <2>1. PICK s \in releases' : s.id = f.release_id /\ s.package_id = pid[v]
      BY <1>0, <1>4 DEF DoomedFiles, PackageFiles
    <2>2. PICK r \in releases : r.id = f.release_id
      BY <1>4 DEF Base, RowsConsistent, ForeignKeys
    <2>3. r.package_id = pid[v]
      <3>1. CASE s \in releases
        BY <2>1, <2>2, <3>1 DEF Base, RowsConsistent, UniqueRows
      <3>2. CASE RowsKept
        <4>1. PICK t \in releases' : t.id = r.id /\ t.package_id = r.package_id
          BY <3>2 DEF RowsKept
        <4>2. t = s
          BY <2>1, <2>2, <4>1 DEF Base, RowsConsistent, UniqueRows
        <4>3. QED
          BY <2>1, <4>1, <4>2
      <3>3. QED
        BY <3>1, <3>2
           DEF Effect, Grows, Indexes, Removes, DeletePackage, DeleteRelease, Touches, catalog
    <2>4. QED
      BY <1>4, <2>2, <2>3 DEF DoomedFiles, PackageFiles
  <1>5. QED
    BY <1>2, <1>3, <1>4

LEMMA OwnDoomed ==
    ASSUME Base, NEW w \in Worker, DoomedAreListed(w), MetadataOfWheel(w),
           WorkerStep(w) \/ \E j \in Job : Start(w, j)
    PROVE  DoomedAreListed(w)' /\ MetadataOfWheel(w)'
  <1> USE DEF At, Queries
  <1>0. LocalsOK
    BY BaseParts
  <1>1. ASSUME NEW s, Goto(w, s) PROVE pc'[w] = s /\ job'[w] = job[w]
    BY <1>0, <1>1 DEF Goto, LocalsOK
  <1>2. ASSUME NEW a, Finish(w, a) PROVE pc'[w] = "idle"
    BY <1>0, <1>2 DEF Finish, LocalsOK
  <1>3. CASE ListFiles(w)
    <2>1. /\ pc'[w] = "delete_row" /\ job'[w] = job[w] /\ UNCHANGED <<catalog, pid, rid>>
          /\ todo'[w] = UNION {KeysOf(f.filename, f.sha256) : f \in DoomedFiles(w)}
      BY <1>0, <1>1, <1>3 DEF ListFiles, LocalsOK
    <2>2. DoomedFiles(w)' = DoomedFiles(w)
      BY <2>1 DEF DoomedFiles, PackageFiles, ReleaseFiles, catalog
    <2>3. QED
      BY <2>1, <2>2 DEF DoomedAreListed, MetadataOfWheel
  <1>4. CASE PutDist(w)
    <2>1. \/ pc'[w] = "put_metadata" /\ job'[w] = job[w] /\ job[w].filename \in Wheel
          \/ pc'[w] \in {"get_existing", "idle"}
      BY <1>1, <1>2, <1>4 DEF PutDist
    <2>2. QED
      BY <2>1 DEF DoomedAreListed, MetadataOfWheel
  <1>5. CASE Ingest(w) /\ ~ PutDist(w)
    <2>1. pc'[w] \notin {"delete_row", "put_metadata"}
      BY <1>1, <1>2, <1>5
         DEF Ingest, CheckFileExists, RejectFile, PutMetadata, GetExisting,
             LatestVersion, Decide, Upsert, Refresh, Reload, CreateRelease, GetRelease,
             IndexFile, Rollback, Drop
    <2>2. QED
      BY <2>1 DEF DoomedAreListed, MetadataOfWheel
  <1>6. CASE Administer(w) /\ ~ ListFiles(w)
    <2>1. pc'[w] \notin {"delete_row", "put_metadata"}
      BY <1>1, <1>2, <1>6
         DEF Administer, LookupPackage, LookupRelease, YankRelease, DeleteRow, Drop
    <2>2. QED
      BY <2>1 DEF DoomedAreListed, MetadataOfWheel
  <1>7. CASE DropBlob(w) \/ StatementFails(w) \/ \E j \in Job : Start(w, j)
    <2>1. pc'[w] \notin {"delete_row", "put_metadata"}
      BY <1>0, <1>1, <1>2, <1>7
         DEF DropBlob, StatementFails, Decide, Rollback, Drop, Start, LocalsOK
    <2>2. QED
      BY <2>1 DEF DoomedAreListed, MetadataOfWheel
  <1>8. CASE ClientGoes(w)
    <2>1. (pc[w] = "delete_row" => DoomedAreListed(w)) /\ MetadataOfWheel(w)
      OBVIOUS
    <2>2. QED
      BY <1>8, <2>1 DEF ClientGoes, locals, catalog, DoomedAreListed, MetadataOfWheel,
                        DoomedFiles, PackageFiles, ReleaseFiles
  <1>9. QED
    BY <1>3, <1>4, <1>5, <1>6, <1>7, <1>8 DEF WorkerStep

LEMMA CleanStep ==
    ASSUME "blob" \notin Faults, NoCallCutOff, Discipline # "none", IInv, IInv', Clean,
           NEW w \in Worker, WorkerStep(w) \/ \E j \in Job : Start(w, j)
    PROVE  Clean'
  <1>0. Base /\ Kept /\ Base' /\ OthersSame(w) /\ Effect(w)
    BY BaseParts, StepIsLocal, StepHasEffect DEF IInv, Kept
  <1>1. ASSUME NEW k \in Key, Garbage(k)'
        PROVE  \E v \in Worker : Answers(v, k)'
    <2>1. CASE Garbage(k)
      <3>1. PICK v \in Worker : Answers(v, k)
        BY <2>1 DEF Clean, GarbageIsOwned
      <3>2. QED
        BY <1>0, <1>1, <3>1, OthersAnswer, OwnDutyKept
    <2>2. CASE ~ Garbage(k)
      BY <1>0, <1>1, <2>2, NewGarbageIsOwned DEF Clean
    <2>3. QED
      BY <2>1, <2>2
  <1>2. GarbageIsOwned'
    BY <1>1 DEF GarbageIsOwned, Key
  <1>3. ASSUME NEW v \in Worker
        PROVE  DoomedAreListed(v)' /\ MetadataOfWheel(v)'
    <2>1. CASE v = w
      BY <1>0, <2>1, OwnDoomed DEF Clean
    <2>2. CASE v # w
      <3>1. pc'[v] = pc[v] /\ job'[v] = job[v] /\ todo'[v] = todo[v]
        BY <1>0, <2>2 DEF OthersSame
      <3>2. DoomedAreListed(v) /\ MetadataOfWheel(v)
        BY DEF Clean
      <3>3. pc[v] = "delete_row" => DoomedFiles(v)' \subseteq DoomedFiles(v)
        BY <1>0, <2>2, OtherDoomed
      <3>4. QED
        BY <3>1, <3>2, <3>3 DEF DoomedAreListed, MetadataOfWheel
    <2>3. QED
      BY <2>1, <2>2
  <1>4. QED
    BY <1>2, <1>3 DEF Clean

LEMMA CleanStutter == Clean /\ UNCHANGED vars => Clean'
  <1> SUFFICES ASSUME Clean, UNCHANGED vars PROVE Clean'
    OBVIOUS
  <1>1. \A k \in Key : /\ Garbage(k)' = Garbage(k)
                       /\ \A w \in Worker : Answers(w, k) => Answers(w, k)'
    BY DEF vars, request, Garbage, Blob!Stored, Answers
  <1>2. GarbageIsOwned'
    BY <1>1 DEF Clean, GarbageIsOwned, Key
  <1>3. \A w \in Worker : DoomedAreListed(w)' /\ MetadataOfWheel(w)'
    BY DEF Clean, vars, request, DoomedAreListed, MetadataOfWheel, DoomedFiles, PackageFiles,
           ReleaseFiles
  <1>4. QED
    BY <1>2, <1>3 DEF Clean

LEMMA CleanInit == Init => Clean
  BY BuiltIsKey
     DEF Init, Blob!Init, Idle, Clean, GarbageIsOwned, Garbage, Blob!Stored,
         DoomedAreListed, MetadataOfWheel

(* As long as the process lives and the blob store does what it is told,   *)
(* failed uploads and deletes clean up after themselves: every object      *)
(* without a row belongs to a request in flight, and when none is left,    *)
(* neither is an orphan (rollbackBlob, ingest.go:163; DeleteFileBlobs,     *)
(* api/packages.go:150).  Statements may fail, and clients may go, as long *)
(* as that cancels no call to the store.                                   *)
THEOREM NothingIsOrphanedUntilCrash ==
    ASSUME "blob" \notin Faults, Discipline # "none"
    PROVE  Spec /\ [][~ Crash /\ NoCallCutOff]_vars => []NoOrphans
  <1>1. Clean => NoOrphans
    BY DEF Clean, GarbageIsOwned, NoOrphans, Idle, Answers, StoredSteps
  <1>2. IInv /\ IInv' /\ Clean /\ [Next]_vars /\ [~ Crash /\ NoCallCutOff]_vars => Clean'
    BY CleanStep, CleanStutter DEF Next, WorkerStep
  <1>3. QED
    BY <1>1, <1>2, CleanInit, Invariance, PTL DEF Spec

(* Where clients do not go, no context is cancelled. *)
LEMMA NobodyGoes ==
    ASSUME "client" \notin Faults
    PROVE  Spec => [](gone = {})
  <1>1. Init => gone = {}
    BY DEF Init
  <1>2. gone = {} /\ [Next]_vars => gone' = {}
    <2> SUFFICES ASSUME gone = {}, [Next]_vars PROVE gone' = {}
      OBVIOUS
    <2>1. ASSUME NEW w, NEW a, Finish(w, a) PROVE gone' = {}
      BY <2>1 DEF Finish
    <2>2. ASSUME NEW w, NEW t, Goto(w, t) PROVE gone' = {}
      BY <2>2 DEF Goto
    <2>3. ASSUME NEW w \in Worker, Ingest(w) PROVE gone' = {}
      BY <2>1, <2>2, <2>3
         DEF Ingest, CheckFileExists, RejectFile, PutDist, PutMetadata, GetExisting,
             LatestVersion, Upsert, Refresh, Reload, CreateRelease, GetRelease,
             IndexFile, Rollback, Drop, Decide
    <2>4. ASSUME NEW w \in Worker, Administer(w) PROVE gone' = {}
      BY <2>1, <2>2, <2>4
         DEF Administer, LookupPackage, LookupRelease, YankRelease, ListFiles, DeleteRow,
             Drop
    <2>5. ASSUME NEW w \in Worker, DropBlob(w) \/ StatementFails(w) PROVE gone' = {}
      BY <2>1, <2>2, <2>5 DEF DropBlob, StatementFails, Rollback, Drop, Decide
    <2>6. ASSUME NEW w \in Worker, ClientGoes(w) \/ \E j \in Job : Start(w, j)
          PROVE  gone' = {}
      BY <2>6 DEF ClientGoes, Start
    <2>7. QED
      BY <2>3, <2>4, <2>5, <2>6 DEF Next, Crash, vars, request
  <1>3. gone = {} /\ [Next]_vars => (gone = {})'
    BY <1>2
  <1>4. QED
    BY <1>1, <1>3, PTL DEF Spec

(* In particular in a directory, which does not look at the context of a   *)
(* request, whatever statements fail and whichever clients go, as in the   *)
(* run; and in a bucket as long as no client goes.                         *)
THEOREM NothingIsOrphaned ==
    ASSUME Faults \subseteq {"db", "client"}, Discipline # "none",
           ~ Remote \/ "client" \notin Faults
    PROVE  Spec => []NoOrphans
  <1>1. Spec => [](~ Remote \/ gone = {})
    <2>1. CASE ~ Remote
      BY <2>1, PTL
    <2>2. CASE "client" \notin Faults
      <3>1. Spec => [](gone = {})
        BY <2>2, NobodyGoes
      <3>2. QED
        BY <3>1, PTL
    <2>3. QED
      BY <2>1, <2>2
  <1>2. ~ Remote \/ gone = {} => ~ Crash /\ NoCallCutOff
    BY DEF Crash, NoCallCutOff, CutOff
  <1>3. Spec /\ [][~ Crash /\ NoCallCutOff]_vars => []NoOrphans
    BY NothingIsOrphanedUntilCrash
  <1>4. QED
    BY <1>1, <1>2, <1>3, PTL

-----------------------------------------------------------------------------
(* Summaries: with one request per project, what LatestVersion has seen    *)
(* still holds when Ingest acts on it.                                     *)

(* No row of the project changes. *)
ProjectSame(name) ==
    /\ \A p \in packages \cup packages' : p.name = name => p \in packages /\ p \in packages'
    /\ \A p \in packages : p.name = name =>
          \A r \in releases \cup releases' :
              r.package_id = p.id => r \in releases /\ r \in releases'

LEMMA RefreshIsLocal ==
    ASSUME LocalsOK, NEW w \in Worker, NEW v \in Worker, v # w,
           WorkerStep(w) \/ \E j \in Job : Start(w, j)
    PROVE  refresh'[v] = refresh[v]
  <1>1. \/ UNCHANGED refresh
        \/ \E b : refresh' = [refresh EXCEPT ![w] = b]
    BY DEF WorkerStep, Start, Ingest, CheckFileExists, RejectFile, PutDist, PutMetadata,
           GetExisting, LatestVersion, Upsert, Refresh, Reload, CreateRelease, GetRelease,
           IndexFile, Administer, LookupPackage, LookupRelease, YankRelease, ListFiles,
           DeleteRow, DropBlob, StatementFails, ClientGoes, Rollback, Drop, Decide, Finish,
           locals
  <1>2. QED
    BY <1>1 DEF LocalsOK

(* Every statement of w writes rows of its own project only. *)
LEMMA StaysInProject ==
    ASSUME Base, Kept, NEW w \in Worker,
           WorkerStep(w) \/ \E j \in Job : Start(w, j),
           NEW name, name # Target(job[w])
    PROVE  ProjectSame(name)
  <1> USE DEF At, Queries
  <1>0. LocalsOK /\ CatalogOK /\ WorkerKept(w)
    BY BaseParts DEF Kept
  <1>1. CASE UNCHANGED <<packages, releases>>
    BY <1>1 DEF ProjectSame
  <1>2. CASE Upsert(w)
    <2>1. CASE UNCHANGED packages
      BY <1>1, <1>2, <2>1 DEF Upsert, InsertPackage
    <2>2. CASE \E id \in Id : packages' = packages \cup
                 {[id |-> id, name |-> Target(job[w]), summary |-> JobVersion(job[w])]}
      BY <1>2, <2>2 DEF Upsert, InsertPackage, ProjectSame
    <2>3. QED
      BY <1>2, <2>1, <2>2 DEF Upsert, InsertPackage
  <1>3. CASE Refresh(w)
    <2> DEFINE upd(p) == IF p.name = Target(job[w])
                         THEN [p EXCEPT !.summary = JobVersion(job[w])] ELSE p
    <2>1. packages' = {upd(p) : p \in packages} /\ UNCHANGED releases
      BY <1>3 DEF Refresh, RefreshPackage
    <2>2. \A p \in packages : upd(p).name = p.name /\ (p.name = name => upd(p) = p)
      BY <1>0 DEF CatalogOK, CatalogTypeOK, PackageRow
    <2> HIDE DEF upd
    <2>3. QED
      BY <2>1, <2>2 DEF ProjectSame
  <1>4. ASSUME pc[w] \in {"insert_release", "set_yanked", "delete_row"},
               NEW p \in packages, p.name = name
        PROVE  p.id # pid[w]
    <2>1. PICK q \in packages : q.id = pid[w] /\ q.name = Target(job[w])
      BY <1>0, <1>4 DEF WorkerKept, HoldsPackage
    <2>2. QED
      BY <1>4, <2>1 DEF Base, RowsConsistent, UniqueRows
  <1>5. CASE CreateRelease(w)
    <2>1. CASE UNCHANGED releases
      BY <1>1, <1>5, <2>1 DEF CreateRelease, InsertRelease, catalog
    <2>2. CASE \E id \in Id : releases' = releases \cup
                 {[id |-> id, package_id |-> pid[w], version |-> JobVersion(job[w]),
                   yanked |-> FALSE]}
      <3>1. UNCHANGED packages /\ pc[w] = "insert_release"
        BY <1>5 DEF CreateRelease, InsertRelease, catalog
      <3>2. QED
        BY <1>4, <2>2, <3>1 DEF ProjectSame
    <2>3. QED
      BY <1>5, <2>1, <2>2 DEF CreateRelease, InsertRelease, catalog
  <1>6. CASE YankRelease(w)
    <2> DEFINE upd(r) == IF r.id = rid[w] THEN [r EXCEPT !.yanked = (job[w].op = "yank")] ELSE r
    <2>1. releases' = {upd(r) : r \in releases} /\ UNCHANGED packages /\ pc[w] = "set_yanked"
      BY <1>6 DEF YankRelease, SetYanked
    <2>2. PICK s \in releases : s.id = rid[w] /\ s.package_id = pid[w]
      BY <1>0, <2>1 DEF WorkerKept, HoldsRelease, CarriesRelease
    <2>3. \A r \in releases : /\ upd(r).package_id = r.package_id
                              /\ r.package_id # pid[w] => upd(r) = r
      BY <1>0, <2>2 DEF CatalogOK, CatalogTypeOK, ReleaseRow, UniqueRows
    <2> HIDE DEF upd
    <2>4. QED
      BY <1>4, <2>1, <2>3 DEF ProjectSame
  <1>7. CASE DeleteRow(w)
    <2>1. pc[w] = "delete_row"
      BY <1>7 DEF DeleteRow
    <2>2. CASE DeletePackage(pid[w])
      BY <1>4, <2>1, <2>2 DEF DeletePackage, ProjectSame
    <2>3. CASE job[w].op = "delete_release" /\ DeleteRelease(rid[w])
      <3>1. PICK s \in releases : s.id = rid[w] /\ s.package_id = pid[w]
        BY <1>0, <2>1, <2>3 DEF WorkerKept, HoldsRelease, CarriesRelease
      <3>2. \A r \in releases : r.id = rid[w] => r.package_id = pid[w]
        BY <3>1 DEF Base, RowsConsistent, UniqueRows
      <3>3. QED
        BY <1>4, <2>1, <2>3, <3>2 DEF DeleteRelease, ProjectSame
    <2>4. QED
      BY <1>7, <2>2, <2>3 DEF DeleteRow
  <1>8. QED
    BY <1>1, <1>2, <1>3, <1>5, <1>6, <1>7
       DEF WorkerStep, Start, catalog, Ingest, CheckFileExists, RejectFile, PutDist,
           PutMetadata, GetExisting, LatestVersion, Reload, GetRelease, IndexFile, CreateFile,
           Administer, LookupPackage, LookupRelease, ListFiles, DropBlob, StatementFails,
           ClientGoes

(* A client that has gone does not come back. *)
LEMMA GoneIsLocal ==
    ASSUME NEW w \in Worker, NEW v \in gone, v # w,
           WorkerStep(w) \/ \E j \in Job : Start(w, j)
    PROVE  v \in gone'
  <1>1. ASSUME NEW a, Finish(w, a) PROVE v \in gone'
    BY <1>1 DEF Finish
  <1>2. ASSUME NEW s, Goto(w, s) PROVE v \in gone'
    BY <1>2 DEF Goto
  <1>3. CASE Ingest(w)
    BY <1>1, <1>2, <1>3
       DEF Ingest, CheckFileExists, RejectFile, PutDist, PutMetadata, GetExisting,
           LatestVersion, Upsert, Refresh, Reload, CreateRelease, GetRelease,
           IndexFile, Rollback, Drop, Decide
  <1>4. CASE Administer(w)
    BY <1>1, <1>2, <1>4
       DEF Administer, LookupPackage, LookupRelease, YankRelease, ListFiles, DeleteRow, Drop
  <1>5. CASE DropBlob(w) \/ StatementFails(w)
    BY <1>1, <1>2, <1>5 DEF DropBlob, StatementFails, Rollback, Drop, Decide
  <1>6. CASE ClientGoes(w) \/ \E j \in Job : Start(w, j)
    BY <1>6 DEF ClientGoes, Start
  <1>7. QED
    BY <1>3, <1>4, <1>5, <1>6 DEF WorkerStep

(* ... so what another worker has decided stays right. *)
LEMMA OtherDecides ==
    ASSUME NEW v \in Worker, WorkerDecides(v), ProjectSame(Target(job[v])),
           pc'[v] = pc[v], job'[v] = job[v], pid'[v] = pid[v], refresh'[v] = refresh[v],
           v \in gone => v \in gone'
    PROVE  WorkerDecides(v)'
  <1> DEFINE name == Target(job[v])
             V == JobVersion(job[v])
  <1>1. name' = name /\ V' = V
    BY DEF Target, JobVersion
  <1>2. \A p : p \in packages /\ p.name = name <=> p \in packages' /\ p.name = name
    BY DEF ProjectSame
  <1>3. \A p \in packages : p.name = name =>
           (AtLeastLatest(p.id, V) <=> AtLeastLatest(p.id, V)')
    BY <1>1 DEF ProjectSame, AtLeastLatest
  <1>4. \A p \in packages : p.name = name => (IsNewest(p, v) <=> IsNewest(p, v)')
    BY <1>1, <1>3 DEF IsNewest
  <1> HIDE DEF name, V
  <1>5. Target(job[v]) = name /\ Target(job'[v]) = name
        /\ JobVersion(job[v]) = V /\ JobVersion(job'[v]) = V
    BY <1>1 DEF name, V
  <1>6. FoundExisting(v)' /\ DecidedRight(v)'
    BY <1>2, <1>4, <1>5 DEF WorkerDecides, FoundExisting, DecidedRight
  <1>7. ShowsOrOlder(v)'
    BY <1>2, <1>4, <1>5 DEF WorkerDecides, ShowsOrOlder
  <1>8. QED
    BY <1>6, <1>7 DEF WorkerDecides

(* What w decides, and writes, is right when it does. *)
LEMMA OwnDecides ==
    ASSUME Base, NEW w \in Worker, ~ Misled(w), WorkerDecides(w),
           WorkerStep(w) \/ \E j \in Job : Start(w, j)
    PROVE  WorkerDecides(w)'
  <1> USE DEF At, Queries
  <1> DEFINE Later == {"reload", "insert_release", "get_release", "create_file"}
             name == Target(job[w])
             V == JobVersion(job[w])
  <1>0. LocalsOK /\ CatalogOK
    BY BaseParts
  <1>1. ASSUME pc'[w] \notin {"latest_version", "upsert", "refresh"} \cup Later
        PROVE  WorkerDecides(w)'
    BY <1>1 DEF WorkerDecides, FoundExisting, DecidedRight, ShowsOrOlder
  <1>2. ASSUME NEW s, Goto(w, s)
        PROVE  /\ pc'[w] = s /\ job'[w] = job[w]
               /\ Target(job'[w]) = name /\ JobVersion(job'[w]) = V
    BY <1>0, <1>2 DEF Goto, LocalsOK
  <1>3. \A p, q \in packages : p.name = q.name => p = q
    BY DEF Base, RowsConsistent, UniqueRows
  <1>4. CASE GetExisting(w)
    <2>1. CASE ~ HasPackage(name) /\ Decide(w, TRUE)
      <3>1. /\ pc'[w] = "upsert" /\ refresh'[w] = TRUE /\ UNCHANGED packages
            /\ Target(job'[w]) = name
        BY <1>0, <1>2, <1>4, <2>1 DEF GetExisting, Decide, LocalsOK, catalog
      <3>2. QED
        BY <2>1, <3>1 DEF WorkerDecides, FoundExisting, DecidedRight, ShowsOrOlder, HasPackage
    <2>2. ASSUME NEW p \in packages, p.name = name, pid' = [pid EXCEPT ![w] = p.id],
                 Goto(w, "latest_version")
          PROVE  WorkerDecides(w)'
      <3>1. /\ pc'[w] = "latest_version" /\ pid'[w] = p.id /\ UNCHANGED packages
            /\ Target(job'[w]) = name
        BY <1>0, <1>2, <1>4, <2>2 DEF GetExisting, LocalsOK, catalog
      <3>2. QED
        BY <2>2, <3>1 DEF WorkerDecides, FoundExisting, DecidedRight, ShowsOrOlder
    <2>3. QED
      BY <1>4, <2>1, <2>2 DEF GetExisting
  <1>5. CASE LatestVersion(w)
    <2>1. PICK p \in packages : p.id = pid[w] /\ p.name = name
      BY <1>5 DEF LatestVersion, WorkerDecides, FoundExisting
    <2>2. /\ pc'[w] = "upsert" /\ refresh'[w] = AtLeastLatest(p.id, V)
          /\ UNCHANGED <<packages, releases>>
          /\ Target(job'[w]) = name /\ JobVersion(job'[w]) = V
      BY <1>0, <1>2, <1>5, <2>1 DEF LatestVersion, Decide, LocalsOK, catalog
    <2>3. \A q \in packages' : q.name = name => q = p
      BY <1>3, <2>1, <2>2
    <2>4. AtLeastLatest(p.id, V)' <=> AtLeastLatest(p.id, V)
      BY <2>2 DEF AtLeastLatest
    <2>5. IsNewest(p, w)' <=> refresh'[w]
      BY <2>2, <2>4 DEF IsNewest, AtLeastLatest
    <2>6. QED
      BY <2>1, <2>2, <2>3, <2>5 DEF WorkerDecides, FoundExisting, DecidedRight, ShowsOrOlder
  <1>6. CASE Upsert(w)
    <2>1. /\ pc[w] = "upsert" /\ w \notin gone
          /\ UNCHANGED releases /\ refresh'[w] = refresh[w]
          /\ pc'[w] = IF refresh[w] THEN "refresh" ELSE "reload"
          /\ Target(job'[w]) = name /\ JobVersion(job'[w]) = V
      BY <1>2, <1>6 DEF Upsert, InsertPackage, locals
    <2>2. CASE refresh[w]
      <3>1. \A p \in packages : p.name = name => AtLeastLatest(p.id, V)
        BY <2>1, <2>2 DEF WorkerDecides, DecidedRight, IsNewest
      <3>2. \A p \in packages' : p.name = name => AtLeastLatest(p.id, V)
        <4>1. CASE UNCHANGED packages
          BY <3>1, <4>1
        <4>2. ASSUME NEW id \in Id, IsNextId(packages, id),
                     packages' = packages \cup
                         {[id |-> id, name |-> name, summary |-> V]}
              PROVE  AtLeastLatest(id, V)
          <5>1. \A r \in releases : r.package_id # id
            BY <4>2, MaxIdAssumption
               DEF IsNextId, Base, RowsConsistent, ForeignKeys, TypeOK, CatalogTypeOK,
                   PackageRow, Id
          <5>2. QED
            BY <5>1 DEF AtLeastLatest
        <4>3. QED
          BY <1>6, <3>1, <4>1, <4>2 DEF Upsert, InsertPackage
      <3>3. \A p \in packages' : p.name = name => IsNewest(p, w)'
        BY <2>1, <3>2 DEF IsNewest, AtLeastLatest
      <3>4. QED
        BY <2>1, <2>2, <3>3 DEF WorkerDecides, FoundExisting, DecidedRight, ShowsOrOlder
    <2>3. CASE ~ refresh[w]
      <3>1. PICK p \in packages : p.name = name /\ ~ AtLeastLatest(p.id, V)
        BY <2>1, <2>3 DEF WorkerDecides, DecidedRight, IsNewest
      <3>2. UNCHANGED packages
        BY <1>6, <3>1 DEF Upsert, InsertPackage, HasPackage
      <3>3. ~ IsNewest(p, w)'
        BY <2>1, <3>1 DEF IsNewest, AtLeastLatest
      <3>4. \A q \in packages' : q.name = name => q = p
        BY <1>3, <3>1, <3>2
      <3>5. QED
        BY <2>1, <2>3, <3>3, <3>4 DEF WorkerDecides, FoundExisting, DecidedRight, ShowsOrOlder
    <2>4. QED
      BY <2>2, <2>3
  <1>7. CASE Refresh(w)
    <2> DEFINE upd(p) == IF p.name = name THEN [p EXCEPT !.summary = V] ELSE p
    <2>1. /\ packages' = {upd(p) : p \in packages} /\ pc'[w] = "reload"
          /\ Target(job'[w]) = name /\ JobVersion(job'[w]) = V
      BY <1>2, <1>7 DEF Refresh, RefreshPackage
    <2>2. \A p \in packages : upd(p).name = name => upd(p).summary = V
      BY <1>0 DEF CatalogOK, CatalogTypeOK, PackageRow
    <2> HIDE DEF upd
    <2>3. \A q \in packages' : q.name = name => q.summary = V
      BY <2>1, <2>2
    <2>4. QED
      BY <2>1, <2>3 DEF WorkerDecides, FoundExisting, DecidedRight, ShowsOrOlder
  <1>8. ASSUME pc[w] \in Later, pc'[w] \in Later, UNCHANGED packages,
               releases \subseteq releases',
               Target(job'[w]) = name, JobVersion(job'[w]) = V
        PROVE  WorkerDecides(w)'
    <2>1. \A p \in packages : p.name = name => p.summary = V \/ ~ AtLeastLatest(p.id, V)
      BY <1>8 DEF WorkerDecides, ShowsOrOlder, IsNewest
    <2>2. \A p \in packages : ~ AtLeastLatest(p.id, V) => ~ IsNewest(p, w)'
      BY <1>8 DEF IsNewest, AtLeastLatest
    <2>3. QED
      BY <1>8, <2>1, <2>2 DEF WorkerDecides, FoundExisting, DecidedRight, ShowsOrOlder
  <1>9. ASSUME Rollback(w) PROVE WorkerDecides(w)'
    BY <1>1, <1>2, <1>9 DEF Rollback, Drop
  <1>10. ASSUME NEW a, Finish(w, a) PROVE WorkerDecides(w)'
    <2>1. pc'[w] = "idle"
      BY <1>0, <1>10 DEF Finish, LocalsOK
    <2>2. QED
      BY <1>1, <2>1
  <1>11. CASE Reload(w)
    BY <1>2, <1>8, <1>9, <1>11 DEF Reload, catalog
  <1>12. CASE CreateRelease(w)
    <2>1. UNCHANGED packages /\ releases \subseteq releases'
      BY <1>12 DEF CreateRelease, InsertRelease, catalog
    <2>2. QED
      BY <1>2, <1>8, <1>9, <1>12, <2>1 DEF CreateRelease
  <1>13. CASE GetRelease(w) \/ IndexFile(w)
    BY <1>2, <1>8, <1>9, <1>10, <1>13 DEF GetRelease, IndexFile, catalog
  <1>14. CASE CheckFileExists(w) \/ RejectFile(w) \/ PutDist(w) \/ PutMetadata(w)
    BY <1>1, <1>2, <1>10, <1>14
       DEF CheckFileExists, RejectFile, PutDist, PutMetadata, Drop
  <1>15. CASE Administer(w)
    BY <1>1, <1>2, <1>10, <1>15
       DEF Administer, LookupPackage, LookupRelease, YankRelease, ListFiles, DeleteRow, Drop
  <1>16. CASE DropBlob(w)
    BY <1>1, <1>10, <1>16 DEF DropBlob
  <1>17. CASE \E j \in Job : Start(w, j)
    <2>1. pc'[w] \in {"file_exists", "get_package"}
      BY <1>0, <1>17 DEF Start, LocalsOK
    <2>2. QED
      BY <1>1, <2>1
  <1>18. CASE StatementFails(w)
    <2>1. CASE pc[w] \in {"get_existing", "latest_version"}
      <3>1. Decide(w, TRUE) /\ UNCHANGED <<packages, releases>>
        BY <1>18, <2>1 DEF StatementFails, catalog, ChangeSteps
      <3>2. /\ pc'[w] = "upsert" /\ refresh'[w] = TRUE
            /\ Target(job'[w]) = name /\ JobVersion(job'[w]) = V
        BY <1>0, <1>2, <3>1 DEF Decide, LocalsOK
      <3>3. w \notin gone => \A p \in packages : p.name = name => IsNewest(p, w)
        BY <1>18, <2>1 DEF Misled
      <3>6. gone' = gone
        BY <3>1 DEF Decide, Goto
      <3>4. w \notin gone => \A p \in packages' : p.name = name => IsNewest(p, w)'
        BY <3>1, <3>2, <3>3 DEF IsNewest, AtLeastLatest
      <3>5. QED
        BY <3>2, <3>4, <3>6 DEF WorkerDecides, FoundExisting, DecidedRight, ShowsOrOlder
    <2>2. CASE pc[w] \notin {"get_existing", "latest_version"}
      BY <1>9, <1>10, <1>18, <2>2 DEF StatementFails
    <2>3. QED
      BY <2>1, <2>2
  <1>19. CASE ClientGoes(w)
    <2>1. w \in gone' /\ UNCHANGED <<packages, releases, pc, job, pid, refresh>>
      BY <1>19 DEF ClientGoes, catalog, locals
    <2>2. \A p \in packages : IsNewest(p, w)' <=> IsNewest(p, w)
      BY <2>1 DEF IsNewest, AtLeastLatest, JobVersion
    <2>3. QED
      BY <2>1, <2>2 DEF WorkerDecides, FoundExisting, DecidedRight, ShowsOrOlder, Target,
                        JobVersion
  <1>20. QED
    BY <1>4, <1>5, <1>6, <1>7, <1>11, <1>12, <1>13, <1>14, <1>15, <1>16, <1>17, <1>18, <1>19
       DEF WorkerStep, Ingest

LEMMA DecidedStep ==
    ASSUME Discipline = "by_project", IInv, SummariesDecided,
           [Next]_vars, [NobodyMisled]_vars
    PROVE  SummariesDecided'
  <1>0. Base /\ Kept /\ LocalsOK
    BY BaseParts DEF IInv
  <1>1. CASE UNCHANGED vars
    BY <1>1
       DEF vars, request, SummariesDecided, WorkerDecides, FoundExisting, DecidedRight, ShowsOrOlder,
           IsNewest, AtLeastLatest
  <1>2. CASE Crash
    BY <1>2
       DEF Crash, SummariesDecided, WorkerDecides, FoundExisting, DecidedRight, ShowsOrOlder
  <1>3. ASSUME NEW w \in Worker, WorkerStep(w) \/ \E j \in Job : Start(w, j),
               NobodyMisled, NEW v \in Worker
        PROVE  WorkerDecides(v)'
    <2>1. WorkerDecides(v) /\ WorkerDecides(w)
      BY DEF SummariesDecided
    <2>2. CASE v = w
      BY <1>0, <1>3, <2>1, <2>2, OwnDecides DEF NobodyMisled
    <2>3. CASE v # w /\ pc[v] = "idle"
      <3>1. pc'[v] = "idle"
        BY <1>0, <1>3, <2>3, StepIsLocal DEF OthersSame
      <3>2. QED
        BY <3>1 DEF WorkerDecides, FoundExisting, DecidedRight, ShowsOrOlder
    <2>4. CASE v # w /\ pc[v] # "idle"
      <3>1. /\ pc'[v] = pc[v] /\ job'[v] = job[v] /\ pid'[v] = pid[v]
            /\ refresh'[v] = refresh[v]
        BY <1>0, <1>3, <2>4, StepIsLocal, RefreshIsLocal DEF OthersSame
      <3>2. ProjectSame(Target(job[v]))
        <4>1. CASE pc[w] = "idle"
          <5>1. \E j \in Job : Start(w, j)
            BY <1>3, <4>1
               DEF WorkerStep, Ingest, CheckFileExists, RejectFile, PutDist, PutMetadata,
                   GetExisting, LatestVersion, Upsert, Refresh, Reload, CreateRelease,
                   GetRelease, IndexFile, Administer, LookupPackage, LookupRelease,
                   YankRelease, ListFiles, DeleteRow, DropBlob, StatementFails,
                   ClientGoes, At, Queries, ChangeSteps
          <5>2. QED
            BY <5>1 DEF Start, catalog, ProjectSame
        <4>2. CASE pc[w] # "idle"
          <5>1. Target(job[v]) # Target(job[w])
            BY <1>0, <2>4, <4>2 DEF Kept, Disciplined, InFlight, Compatible
          <5>2. QED
            BY <1>0, <1>3, <5>1, StaysInProject
        <4>3. QED
          BY <4>1, <4>2
      <3>3. QED
        BY <1>3, <2>1, <2>4, <3>1, <3>2, OtherDecides, GoneIsLocal
    <2>5. QED
      BY <2>2, <2>3, <2>4
  <1>4. QED
    BY <1>1, <1>2, <1>3 DEF Next, WorkerStep, SummariesDecided

(* With the invariant, what Refresh writes is the newest version, and no   *)
(* other statement changes a summary.                                      *)
LEMMA RefreshedAreNewest ==
    ASSUME Base, SummariesDecided, [Next]_vars,
           NEW p \in packages, NEW q \in packages',
           p.id = q.id, p.name = q.name, p.summary # q.summary
    PROVE  AtLeastLatest(p.id, q.summary)
  <1> USE DEF At, Queries
  <1>0. \A r, s \in packages : r.id = s.id => r = s
    BY DEF Base, RowsConsistent, UniqueRows
  <1>1. q \notin packages
    BY <1>0
  <1>2. PICK w \in Worker : Upsert(w) \/ Refresh(w)
    BY <1>1
       DEF Next, vars, request, Crash, catalog, Start, Ingest, CheckFileExists, RejectFile,
           PutDist, PutMetadata, GetExisting, LatestVersion, Reload, CreateRelease,
           InsertRelease, GetRelease, IndexFile, CreateFile, Administer, LookupPackage,
           LookupRelease, YankRelease, SetYanked, ListFiles, DeleteRow, DeletePackage,
           DeleteRelease, DropBlob, StatementFails, ClientGoes
  <1>3. CASE Upsert(w)
    <2>1. PICK id \in Id :
             /\ IsNextId(packages, id)
             /\ packages' = packages \cup
                   {[id |-> id, name |-> Target(job[w]), summary |-> JobVersion(job[w])]}
      BY <1>1, <1>3 DEF Upsert, InsertPackage
    <2>2. q.id = id
      BY <1>1, <2>1
    <2>3. p.id # id
      BY <2>1, MaxIdAssumption
         DEF IsNextId, Base, TypeOK, CatalogTypeOK, PackageRow, Id
    <2>4. QED
      BY <2>2, <2>3
  <1>4. CASE Refresh(w)
    <2> DEFINE name == Target(job[w])
               V == JobVersion(job[w])
               upd(r) == IF r.name = name THEN [r EXCEPT !.summary = V] ELSE r
    <2>1. packages' = {upd(r) : r \in packages} /\ pc[w] = "refresh" /\ w \notin gone
      BY <1>4 DEF Refresh, RefreshPackage
    <2>2. \A r \in packages : /\ upd(r).id = r.id
                              /\ r.name # name => upd(r) = r
                              /\ r.name = name => upd(r).summary = V
      BY DEF Base, TypeOK, CatalogTypeOK, PackageRow
    <2> HIDE DEF upd
    <2>3. q = upd(p)
      BY <1>0, <2>1, <2>2
    <2>4. p.name = name /\ q.summary = V
      BY <2>2, <2>3
    <2>5. WorkerDecides(w)
      BY DEF SummariesDecided
    <2>6. IsNewest(p, w)
      BY <2>1, <2>4, <2>5 DEF WorkerDecides, DecidedRight
    <2>7. QED
      BY <2>4, <2>6 DEF IsNewest
  <1>5. QED
    BY <1>2, <1>3, <1>4

LEMMA IndexedIsShown ==
    ASSUME Base, Kept, SummariesDecided, [Next]_vars,
           NEW f \in files' \ files, NEW r \in releases, NEW p \in packages,
           r.id = f.release_id, p.id = r.package_id, AtLeastLatest(p.id, r.version)
    PROVE  p.summary = r.version
  <1> USE DEF At, Queries
  <1>1. PICK w \in Worker : IndexFile(w) /\ CreateFile(rid[w], job[w].filename, job[w].sha256)
    BY DEF Next, vars, request, Crash, catalog, Start, Ingest, CheckFileExists, RejectFile,
           PutDist, PutMetadata, GetExisting, LatestVersion, Upsert, InsertPackage, Refresh,
           RefreshPackage, Reload, CreateRelease, InsertRelease, GetRelease, IndexFile,
           Administer, LookupPackage, LookupRelease, YankRelease, SetYanked, ListFiles,
           DeleteRow, DeletePackage, DeleteRelease, DropBlob, StatementFails, ClientGoes
  <1>2. f.release_id = rid[w] /\ pc[w] = "create_file" /\ job[w].op = "upload"
    BY <1>1 DEF IndexFile, CreateFile, Base, JobFits, UploadSteps
  <1>3. r.package_id = pid[w] /\ r.version = JobVersion(job[w])
    <2>1. PICK s \in releases : /\ s.id = rid[w] /\ s.package_id = pid[w]
                                /\ s.version = Wanted(job[w])
      BY <1>2 DEF Kept, WorkerKept, HoldsRelease, CarriesRelease
    <2>2. s = r
      BY <1>2, <2>1 DEF Base, RowsConsistent, UniqueRows
    <2>3. QED
      BY <1>2, <2>1, <2>2 DEF Wanted
  <1>4. p.name = Target(job[w])
    <2>1. PICK q \in packages : q.id = pid[w] /\ q.name = Target(job[w])
      BY <1>2 DEF Kept, WorkerKept, HoldsPackage
    <2>2. q = p
      BY <1>3, <2>1 DEF Base, RowsConsistent, UniqueRows
    <2>3. QED
      BY <2>1, <2>2
  <1>5. p.summary = JobVersion(job[w]) \/ ~ IsNewest(p, w)
    BY <1>2, <1>4 DEF SummariesDecided, WorkerDecides, ShowsOrOlder
  <1>6. QED
    BY <1>3, <1>5 DEF IsNewest

LEMMA DecidedInit == Init => SummariesDecided
  BY DEF Init, Idle, SummariesDecided, WorkerDecides, FoundExisting, DecidedRight,
         ShowsOrOlder

LEMMA SummaryStep ==
    ASSUME Discipline = "by_project", IInv, SummariesDecided, [Next]_vars
    PROVE  /\ \A p \in packages, q \in packages' :
                 p.id = q.id /\ p.name = q.name /\ p.summary # q.summary
                 => AtLeastLatest(p.id, q.summary)
           /\ \A f \in files' \ files : \A r \in releases, p \in packages :
                 /\ r.id = f.release_id /\ p.id = r.package_id
                 /\ AtLeastLatest(p.id, r.version)
                 => Rank[p.summary] = Rank[r.version]
  BY RefreshedAreNewest, IndexedIsShown DEF IInv

(* With one request per project, the package page never goes back to an    *)
(* older version's summary (ingest.go:140), though three statements lie    *)
(* between reading the latest version and writing, and an upload of the    *)
(* newest version that ends well is what the page shows.  Statements may   *)
(* fail and clients go, unless it is a read whose swallowed error makes an *)
(* upload of an older version refresh.                                     *)
THEOREM SummariesAreRightUnlessMisled ==
    ASSUME Discipline = "by_project"
    PROVE  Spec /\ [][NobodyMisled]_vars => OnlyNewestRefreshes /\ NewestIsShown
  <1>1. IInv /\ SummariesDecided /\ [Next]_vars /\ [NobodyMisled]_vars
        => SummariesDecided'
    BY DecidedStep
  <1>2. IInv /\ SummariesDecided /\ [Next]_vars =>
          \A p \in packages, q \in packages' :
              p.id = q.id /\ p.name = q.name /\ p.summary # q.summary
              => AtLeastLatest(p.id, q.summary)
    BY SummaryStep
  <1>3. IInv /\ SummariesDecided /\ [Next]_vars =>
          \A f \in files' \ files : \A r \in releases, p \in packages :
              /\ r.id = f.release_id /\ p.id = r.package_id
              /\ AtLeastLatest(p.id, r.version)
              => Rank[p.summary] = Rank[r.version]
    BY SummaryStep
  <1>4. QED
    BY <1>1, <1>2, <1>3, DecidedInit, Invariance, PTL
       DEF Spec, OnlyNewestRefreshes, NewestIsShown

LEMMA NoFailureMisleads ==
    ASSUME "db" \notin Faults
    PROVE  NobodyMisled
  BY DEF NobodyMisled, Misled, StatementFails

(* In particular where no statement fails but with its client gone, as in  *)
(* the run: no summary goes back ...                                       *)
THEOREM SummaryNeverGoesBack ==
    ASSUME Discipline = "by_project", "db" \notin Faults
    PROVE  Spec => OnlyNewestRefreshes
  <1>1. NobodyMisled
    BY NoFailureMisleads
  <1>2. Spec /\ [][NobodyMisled]_vars => OnlyNewestRefreshes /\ NewestIsShown
    BY SummariesAreRightUnlessMisled
  <1>3. QED
    BY <1>1, <1>2, PTL

(* ... and the newest is shown.                                            *)
THEOREM NewestUploadIsShown ==
    ASSUME Discipline = "by_project", "db" \notin Faults
    PROVE  Spec => NewestIsShown
  <1>1. NobodyMisled
    BY NoFailureMisleads
  <1>2. Spec /\ [][NobodyMisled]_vars => OnlyNewestRefreshes /\ NewestIsShown
    BY SummariesAreRightUnlessMisled
  <1>3. QED
    BY <1>1, <1>2, PTL
=============================================================================
