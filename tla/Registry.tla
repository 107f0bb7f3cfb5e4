------------------------------ MODULE Registry ------------------------------
(***************************************************************************)
(* Publishing and withdrawing distributions: Ingester.Ingest               *)
(* (src/internal/pypi/ingest.go) and the yank, delete-release and          *)
(* delete-package handlers (src/internal/api/packages.go), run by          *)
(* concurrent requests over the catalog and the blob store.  Between two   *)
(* SQL statements or blob calls of one request, any other request may      *)
(* run: no transaction and no lock spans them.                             *)
(***************************************************************************)
EXTENDS Catalog, FiniteSets

CONSTANTS Worker,      \* BOUND: how many requests are served at once
          ProjectOf,   \* ProjectOf[f] is the project filename f names
          Wheel,       \* the filenames of wheels, stored with their METADATA
          MetaVersion, \* MetaVersion[f][d]: the version METADATA of archive d states
          Operation,   \* the operations clients ask for
          Discipline,  \* which requests clients keep from overlapping
          Faults,      \* what may fail
          Remote,      \* blob calls end with the context of their request
          Absent,      \* no object under a blob key
          Part         \* what a copy that ends early leaves there

Operations == {"upload", "delete_release", "delete_package", "yank", "unyank"}

ASSUME ProjectOfAssumption == ProjectOf \in [Filename -> Project]
ASSUME MetaVersionAssumption == MetaVersion \in [Filename -> [Digest -> Version]]
(* Ingest refuses a file whose METADATA does not state a version equal, as *)
(* versions compare, to the one its filename states.                       *)
ASSUME SameRankAssumption ==
    \A f \in Filename : \A d, e \in Digest :
        Rank[MetaVersion[f][d]] = Rank[MetaVersion[f][e]]
ASSUME OptionsAssumption ==
    /\ Operation \subseteq Operations
    /\ Discipline \in {"none", "by_file", "by_project"}
    /\ Faults \subseteq {"db", "client", "blob", "crash"}
    /\ Remote \in BOOLEAN
ASSUME NoContentAssumption == Absent \notin Digest /\ Part \notin Digest /\ Absent # Part

VARIABLES blobs,    \* the blob store
          pc,       \* pc[w] is what worker w does next
          job,      \* job[w] is the request w serves
          pid, rid, \* the package and release ids w has read
          refresh,  \* updateMeta of w's Ingest
          todo,     \* the blob keys w has still to delete
          reply,    \* reply[w] is how w answered its last request
          gone,     \* the workers whose client has gone, so that the context
                    \* of their request is cancelled
          young     \* history: young[w] are the releases created since w began
                    \* to change a release or a package, by their ids

request == <<pc, job, pid, rid, refresh, todo, reply, gone>>
vars == <<packages, releases, files, blobs, request, young>>

(* Slip: objects are stored by filename alone. *)
BlobKey_NameOnly(sha256, filename, part) == <<"", filename, part>>

(* blobKey, and blobKey + ".metadata" for the METADATA of a wheel *)
BlobKey(sha256, filename, part) == <<sha256, filename, part>>
Key == {BlobKey(d, f, p) : d \in Digest, f \in Filename, p \in {"dist", "metadata"}}

(* An object's content is known by the digest of the archive it is, or was *)
(* extracted from.                                                         *)
Blob == INSTANCE BlobMap WITH Key <- Key, Content <- Digest

(* Slip: the key of the METADATA is built with another suffix. *)
KeysOf_WrongSuffix(f, d) ==
    {BlobKey(d, f, "dist")} \cup
        IF f \in Wheel THEN {BlobKey(d, f, "meta")} ELSE {}

KeysOf(f, d) ==
    {BlobKey(d, f, "dist")} \cup
        IF f \in Wheel THEN {BlobKey(d, f, "metadata")} ELSE {}

Upload == [op : {"upload"} \cap Operation, filename : Filename, sha256 : Digest]
Change == [op : {"delete_release", "yank", "unyank"} \cap Operation,
           project : Project, version : Version]
Removal == [op : {"delete_package"} \cap Operation, project : Project]
Job == Upload \cup Change \cup Removal
NoJob == [op |-> "none"]

Target(j) == IF j.op = "upload" THEN ProjectOf[j.filename] ELSE j.project
Deletes(j) == j.op \in {"delete_release", "delete_package"}

UploadSteps == {"file_exists", "put_dist", "put_metadata", "get_existing",
                "latest_version", "upsert", "refresh", "reload",
                "insert_release", "get_release", "create_file"}
ChangeSteps == {"get_package", "find_release", "set_yanked", "list_files", "delete_row"}
Step == UploadSteps \cup ChangeSteps \cup {"idle", "drop_blobs"}

Answer == {"none", "ok", "file_exists", "bad_file", "not_found", "error"}

TypeOK ==
    /\ CatalogTypeOK
    /\ Blob!TypeOK
    /\ pc \in [Worker -> Step]
    /\ job \in [Worker -> Job \cup {NoJob}]
    /\ pid \in [Worker -> Id \cup {NoId}]
    /\ rid \in [Worker -> Id \cup {NoId}]
    /\ refresh \in [Worker -> BOOLEAN]
    /\ todo \in [Worker -> SUBSET Key]
    /\ reply \in [Worker -> Answer]
    /\ gone \subseteq Worker
    /\ young \in [Worker -> SUBSET Id]

Idle == pc = [w \in Worker |-> "idle"]

Init ==
    /\ CatalogInit
    /\ Blob!Init
    /\ Idle
    /\ job = [w \in Worker |-> NoJob]
    /\ pid = [w \in Worker |-> NoId]
    /\ rid = [w \in Worker |-> NoId]
    /\ refresh = [w \in Worker |-> FALSE]
    /\ todo = [w \in Worker |-> {}]
    /\ reply = [w \in Worker |-> "none"]
    /\ gone = {}
    /\ young = [w \in Worker |-> {}]

-----------------------------------------------------------------------------
(* Requests.                                                               *)

InFlight == {w \in Worker : pc[w] # "idle"}

(* The server keeps no two requests apart ("none").  "by_file": clients do *)
(* not upload one filename twice at a time, and run nothing else on a      *)
(* project while deleting from it.  "by_project": one request per project. *)
Compatible(j, k) ==
    \/ Discipline = "none"
    \/ Target(j) # Target(k)
    \/ /\ Discipline = "by_file"
       /\ ~ Deletes(j) /\ ~ Deletes(k)
       /\ ~ (j.op = "upload" /\ k.op = "upload" /\ j.filename = k.filename)

(* BOUND: an upload starts only while MaxId leaves an id for every upload  *)
(* in flight, so that none stops for want of one.                          *)
Uploading == {w \in InFlight : job[w].op = "upload"}
IdsLeft ==
    \A r \in packages \cup releases : r.id + Cardinality(Uploading) < MaxId

Start(w, j) ==
    /\ pc[w] = "idle"
    /\ j.op = "upload" => IdsLeft
    /\ \A u \in InFlight : Compatible(j, job[u])
    /\ pc' = [pc EXCEPT ![w] = IF j.op = "upload" THEN "file_exists" ELSE "get_package"]
    /\ job' = [job EXCEPT ![w] = j]
    /\ reply' = [reply EXCEPT ![w] = "none"]
    /\ UNCHANGED <<catalog, blobs, pid, rid, refresh, todo, gone>>

Goto(w, step) ==
    /\ pc' = [pc EXCEPT ![w] = step]
    /\ UNCHANGED <<job, reply, gone>>

(* The handler returns: its locals are gone. *)
Finish(w, answer) ==
    /\ pc' = [pc EXCEPT ![w] = "idle"]
    /\ job' = [job EXCEPT ![w] = NoJob]
    /\ pid' = [pid EXCEPT ![w] = NoId]
    /\ rid' = [rid EXCEPT ![w] = NoId]
    /\ refresh' = [refresh EXCEPT ![w] = FALSE]
    /\ todo' = [todo EXCEPT ![w] = {}]
    /\ reply' = [reply EXCEPT ![w] = answer]
    /\ gone' = gone \ {w}

At(w, step) == pc[w] = step

(* database/sql runs no statement whose context is cancelled; a bucket and *)
(* OSS begin no call, Local never looks (ingest.go:127, 172).              *)
Queries(w, step) == At(w, step) /\ w \notin gone
CutOff(w) == Remote /\ w \in gone
CallFails(w) == "blob" \in Faults \/ CutOff(w)

locals == <<pid, rid, refresh, todo>>

-----------------------------------------------------------------------------
(* Deleting objects: rollbackBlob and DeleteFileBlobs go through the keys  *)
(* one by one, an archive before its METADATA, and ignore errors.          *)

Drop(w, keys) ==
    /\ Goto(w, "drop_blobs")
    /\ todo' = [todo EXCEPT ![w] = keys]
    /\ UNCHANGED <<pid, rid, refresh>>

(* A call may be cancelled halfway, so that it fails although it had its   *)
(* effect; and only a bucket leaves a part of an object, whose copy failed *)
(* for another reason.                                                     *)
DeleteObject(w, k) ==
    \/ ~ CutOff(w) /\ Blob!Delete(k)
    \/ CallFails(w) /\ Blob!DeleteFails(k)

PutObject(w, k, c) == ~ CutOff(w) /\ Blob!Put(k, c)
PutObjectFails(w, k, c) ==
    \/ CallFails(w) /\ Blob!PutFails(k, c)
    \/ "blob" \in Faults /\ Remote /\ Blob!PutBreaks(k)

DropBlob(w) ==
    /\ At(w, "drop_blobs")
    /\ \E k \in todo[w] :
          /\ BlobKey(k[1], k[2], "dist") \in todo[w] => k[3] = "dist"
          /\ DeleteObject(w, k)
          /\ \/ /\ todo[w] # {k}
                /\ todo' = [todo EXCEPT ![w] = @ \ {k}]
                /\ UNCHANGED <<pc, job, pid, rid, refresh, reply, gone>>
             \/ /\ todo[w] = {k}
                /\ Finish(w, IF job[w].op = "upload" THEN "error" ELSE "ok")
    /\ UNCHANGED catalog

(* Slip: the METADATA of a wheel is left behind. *)
Rollback_DistOnly(w) == Drop(w, {BlobKey(job[w].sha256, job[w].filename, "dist")})

Rollback(w) == Drop(w, KeysOf(job[w].filename, job[w].sha256))

-----------------------------------------------------------------------------
(* Ingest.                                                                 *)

CheckFileExists(w) ==
    /\ Queries(w, "file_exists")
    /\ \/ /\ FileExists(job[w].filename)
          /\ Finish(w, "file_exists")
       \/ /\ ~ FileExists(job[w].filename)
          /\ Goto(w, "put_dist")
          /\ UNCHANGED locals
    /\ UNCHANGED <<catalog, blobs>>

(* The spooled file is too large, has another digest than the client       *)
(* claims, or METADATA that is missing or disagrees with the filename.     *)
RejectFile(w) ==
    /\ At(w, "put_dist")
    /\ Finish(w, "bad_file")
    /\ UNCHANGED <<catalog, blobs>>

PutDist(w) ==
    LET f == job[w].filename
        d == job[w].sha256
    IN  /\ At(w, "put_dist")
        /\ \/ /\ PutObject(w, BlobKey(d, f, "dist"), d)
              /\ Goto(w, IF f \in Wheel THEN "put_metadata" ELSE "get_existing")
              /\ UNCHANGED locals
           \/ /\ PutObjectFails(w, BlobKey(d, f, "dist"), d)
              /\ Finish(w, "error")
        /\ UNCHANGED catalog

PutMetadata(w) ==
    LET f == job[w].filename
        d == job[w].sha256
    IN  /\ At(w, "put_metadata")
        /\ \/ /\ PutObject(w, BlobKey(d, f, "metadata"), d)
              /\ Goto(w, "get_existing")
              /\ UNCHANGED locals
           \/ /\ PutObjectFails(w, BlobKey(d, f, "metadata"), d)
              /\ Drop(w, {BlobKey(d, f, "dist")})
        /\ UNCHANGED catalog

JobVersion(j) == MetaVersion[j.filename][j.sha256]

Decide(w, updateMeta) ==
    /\ Goto(w, "upsert")
    /\ pid' = [pid EXCEPT ![w] = NoId]
    /\ refresh' = [refresh EXCEPT ![w] = updateMeta]
    /\ UNCHANGED <<rid, todo>>

GetExisting(w) ==
    /\ Queries(w, "get_existing")
    /\ \/ /\ ~ HasPackage(Target(job[w]))
          /\ Decide(w, TRUE)
       \/ \E p \in packages :
             /\ p.name = Target(job[w])
             /\ pid' = [pid EXCEPT ![w] = p.id]
             /\ Goto(w, "latest_version")
             /\ UNCHANGED <<rid, refresh, todo>>
    /\ UNCHANGED <<catalog, blobs>>

(* Slip: the summary is refreshed whatever the latest version is. *)
LatestVersion_Ignored(w) ==
    /\ Queries(w, "latest_version")
    /\ Decide(w, TRUE)
    /\ UNCHANGED <<catalog, blobs>>

LatestVersion(w) ==
    /\ Queries(w, "latest_version")
    /\ Decide(w, AtLeastLatest(pid[w], JobVersion(job[w])))
    /\ UNCHANGED <<catalog, blobs>>

(* Slip: the summary is only ever written by the INSERT. *)
Upsert_NeverRefresh(w) ==
    /\ Queries(w, "upsert")
    /\ InsertPackage(Target(job[w]), JobVersion(job[w]))
    /\ Goto(w, "reload")
    /\ UNCHANGED <<blobs, locals>>

(* UpsertPackage: three statements *)
Upsert(w) ==
    /\ Queries(w, "upsert")
    /\ InsertPackage(Target(job[w]), JobVersion(job[w]))
    /\ Goto(w, IF refresh[w] THEN "refresh" ELSE "reload")
    /\ UNCHANGED <<blobs, locals>>

Refresh(w) ==
    /\ Queries(w, "refresh")
    /\ RefreshPackage(Target(job[w]), JobVersion(job[w]))
    /\ Goto(w, "reload")
    /\ UNCHANGED <<blobs, locals>>

Reload(w) ==
    /\ Queries(w, "reload")
    /\ \/ /\ ~ HasPackage(Target(job[w]))
          /\ Rollback(w)
       \/ \E p \in packages :
             /\ p.name = Target(job[w])
             /\ pid' = [pid EXCEPT ![w] = p.id]
             /\ Goto(w, "insert_release")
             /\ UNCHANGED <<rid, refresh, todo>>
    /\ UNCHANGED <<catalog, blobs>>

(* GetOrCreateRelease: two statements *)
CreateRelease(w) ==
    /\ Queries(w, "insert_release")
    /\ \/ /\ ~ MayInsertRelease(pid[w])
          /\ Rollback(w)
          /\ UNCHANGED catalog
       \/ /\ MayInsertRelease(pid[w])
          /\ InsertRelease(pid[w], JobVersion(job[w]))
          /\ Goto(w, "get_release")
          /\ UNCHANGED locals
    /\ UNCHANGED blobs

(* Slip: the WHERE clause names the package only. *)
GetRelease_AnyVersion(w) ==
    /\ Queries(w, "get_release")
    /\ \E r \in releases :
          /\ r.package_id = pid[w]
          /\ rid' = [rid EXCEPT ![w] = r.id]
          /\ Goto(w, "create_file")
          /\ UNCHANGED <<pid, refresh, todo>>
    /\ UNCHANGED <<catalog, blobs>>

GetRelease(w) ==
    /\ Queries(w, "get_release")
    /\ \/ /\ ~ HasRelease(pid[w], JobVersion(job[w]))
          /\ Rollback(w)
       \/ \E r \in releases :
             /\ r.package_id = pid[w] /\ r.version = JobVersion(job[w])
             /\ rid' = [rid EXCEPT ![w] = r.id]
             /\ Goto(w, "create_file")
             /\ UNCHANGED <<pid, refresh, todo>>
    /\ UNCHANGED <<catalog, blobs>>

IndexFile(w) ==
    /\ Queries(w, "create_file")
    /\ \/ /\ ~ MayCreateFile(rid[w], job[w].filename)
          /\ Rollback(w)
          /\ UNCHANGED catalog
       \/ /\ MayCreateFile(rid[w], job[w].filename)
          /\ CreateFile(rid[w], job[w].filename, job[w].sha256)
          /\ Finish(w, "ok")
    /\ UNCHANGED blobs

-----------------------------------------------------------------------------
(* yankRelease, deleteRelease and deletePackage.                           *)

LookupPackage(w) ==
    /\ Queries(w, "get_package")
    /\ \/ /\ ~ HasPackage(job[w].project)
          /\ Finish(w, "not_found")
       \/ \E p \in packages :
             /\ p.name = job[w].project
             /\ pid' = [pid EXCEPT ![w] = p.id]
             /\ Goto(w, IF job[w].op = "delete_package"
                        THEN "list_files" ELSE "find_release")
             /\ UNCHANGED <<rid, refresh, todo>>
    /\ UNCHANGED <<catalog, blobs>>

(* Slip: the WHERE clause names the package only. *)
LookupRelease_AnyVersion(w) ==
    /\ Queries(w, "find_release")
    /\ \E r \in releases :
          /\ r.package_id = pid[w]
          /\ rid' = [rid EXCEPT ![w] = r.id]
          /\ Goto(w, IF job[w].op = "delete_release"
                     THEN "list_files" ELSE "set_yanked")
          /\ UNCHANGED <<pid, refresh, todo>>
    /\ UNCHANGED <<catalog, blobs>>

LookupRelease(w) ==
    /\ Queries(w, "find_release")
    /\ \/ /\ ~ HasRelease(pid[w], job[w].version)
          /\ Finish(w, "not_found")
       \/ \E r \in releases :
             /\ r.package_id = pid[w] /\ r.version = job[w].version
             /\ rid' = [rid EXCEPT ![w] = r.id]
             /\ Goto(w, IF job[w].op = "delete_release"
                        THEN "list_files" ELSE "set_yanked")
             /\ UNCHANGED <<pid, refresh, todo>>
    /\ UNCHANGED <<catalog, blobs>>

YankRelease(w) ==
    /\ Queries(w, "set_yanked")
    /\ SetYanked(rid[w], job[w].op = "yank")
    /\ Finish(w, "ok")
    /\ UNCHANGED blobs

(* Slip: deleteRelease lists the files of the whole package. *)
DoomedFiles_Package(w) == PackageFiles(pid[w])

DoomedFiles(w) ==
    IF job[w].op = "delete_package" THEN PackageFiles(pid[w]) ELSE ReleaseFiles(rid[w])

(* Slip: the METADATA of wheels is forgotten. *)
ListFiles_DistOnly(w) ==
    /\ Queries(w, "list_files")
    /\ todo' = [todo EXCEPT ![w] =
                   {BlobKey(f.sha256, f.filename, "dist") : f \in DoomedFiles(w)}]
    /\ Goto(w, "delete_row")
    /\ UNCHANGED <<catalog, blobs, pid, rid, refresh>>

ListFiles(w) ==
    /\ Queries(w, "list_files")
    /\ todo' = [todo EXCEPT ![w] =
                   UNION {KeysOf(f.filename, f.sha256) : f \in DoomedFiles(w)}]
    /\ Goto(w, "delete_row")
    /\ UNCHANGED <<catalog, blobs, pid, rid, refresh>>

DeleteRow(w) ==
    /\ Queries(w, "delete_row")
    /\ \/ job[w].op = "delete_package" /\ DeletePackage(pid[w])
       \/ job[w].op = "delete_release" /\ DeleteRelease(rid[w])
    /\ \/ /\ todo[w] = {}
          /\ Finish(w, "ok")
       \/ /\ todo[w] # {}
          /\ Drop(w, todo[w])
    /\ UNCHANGED blobs

-----------------------------------------------------------------------------
(* Faults.                                                                 *)

(* A client hangs up: the server cancels the context of its request, and   *)
(* the handler goes on to its end with it.                                 *)
ClientGoes(w) ==
    /\ "client" \in Faults
    /\ pc[w] # "idle" /\ w \notin gone
    /\ gone' = gone \cup {w}
    /\ UNCHANGED <<catalog, blobs, pc, job, locals, reply>>

(* A statement fails and has no effect: a busy or full database, a         *)
(* cancelled context.  Ingest goes on without the two reads that decide    *)
(* updateMeta, and removes its objects when a later statement fails, with  *)
(* the same context.                                                       *)
StatementFails(w) ==
    /\ "db" \in Faults \/ w \in gone
    /\ \/ /\ pc[w] \in {"get_existing", "latest_version"}
          /\ Decide(w, TRUE)
       \/ /\ pc[w] \in {"upsert", "refresh", "reload",
                       "insert_release", "get_release", "create_file"}
          /\ Rollback(w)
       \/ /\ pc[w] \in {"file_exists"} \cup ChangeSteps
          /\ Finish(w, "error")
    /\ UNCHANGED <<catalog, blobs>>

(* The process stops and is started again: rows and objects remain, every  *)
(* request in flight is lost.                                              *)
Crash ==
    /\ "crash" \in Faults
    /\ ~ Idle
    /\ pc' = [w \in Worker |-> "idle"]
    /\ job' = [w \in Worker |-> NoJob]
    /\ pid' = [w \in Worker |-> NoId]
    /\ rid' = [w \in Worker |-> NoId]
    /\ refresh' = [w \in Worker |-> FALSE]
    /\ todo' = [w \in Worker |-> {}]
    /\ reply' = [w \in Worker |-> "none"]
    /\ gone' = {}
    /\ UNCHANGED <<catalog, blobs>>

Ingest(w) ==
    \/ CheckFileExists(w) \/ RejectFile(w) \/ PutDist(w) \/ PutMetadata(w)
    \/ GetExisting(w) \/ LatestVersion(w)
    \/ Upsert(w) \/ Refresh(w) \/ Reload(w)
    \/ CreateRelease(w) \/ GetRelease(w) \/ IndexFile(w)

Administer(w) ==
    \/ LookupPackage(w) \/ LookupRelease(w)
    \/ YankRelease(w) \/ ListFiles(w) \/ DeleteRow(w)

(* No action reads this: what StrikesNamedOrNewer has to know.             *)
IsNew(row) == \A r \in releases : r.id # row.id

Remember ==
    young' = [w \in Worker |->
        IF pc'[w] = "idle" \/ job'[w].op = "upload" THEN {}
        ELSE {r.id : r \in {q \in releases' : q.id \in young[w] \/ IsNew(q)}}]

Next ==
    /\ \/ \E w \in Worker :
             \/ \E j \in Job : Start(w, j)
             \/ Ingest(w) \/ Administer(w) \/ DropBlob(w)
             \/ StatementFails(w) \/ ClientGoes(w)
       \/ Crash
    /\ Remember

Spec == Init /\ [][Next]_vars

(* A handler that has begun goes on: the server never suspends one, and    *)
(* every statement and blob call returns.                                  *)
Progress(w) ==
    /\ Ingest(w) \/ Administer(w) \/ DropBlob(w) \/ StatementFails(w)
    /\ Remember

FairSpec == Spec /\ \A w \in Worker : WF_vars(Progress(w))

-----------------------------------------------------------------------------
(* Properties.                                                             *)

(* The constraints of the migrations hold however statements of different  *)
(* requests interleave, deletes with stale ids and uploads with the ids of *)
(* deleted rows included.                                                  *)
RowsConsistent == ForeignKeys /\ UniqueRows

(* The object an index row points to never holds another archive's bytes:  *)
(* two uploads of one filename with different contents never write under   *)
(* one key (blobKey, ingest.go:123).  It may be missing, or a part.        *)
StoredBytesMatch ==
    \A f \in files : \A k \in KeysOf(f.filename, f.sha256) :
        blobs[k] \in {f.sha256, Absent, Part}

(* Every indexed file can be downloaded: its archive and, for a wheel, its *)
(* METADATA are stored.  Ingest stores first and indexes last, deletes     *)
(* drop the rows first and the objects last, and rollbackBlob must not     *)
(* remove what another request has indexed.                                *)
IndexedAreStored ==
    \A f \in files : \A k \in KeysOf(f.filename, f.sha256) : blobs[k] = f.sha256

(* A file hangs under the project its filename names and the version its   *)
(* METADATA states, whatever ids its upload carried across other requests' *)
(* deletes: entitlements are granted by project.                           *)
FileUnderItsRelease ==
    \A f \in files : \E r \in releases, p \in packages :
        /\ r.id = f.release_id /\ p.id = r.package_id
        /\ p.name = ProjectOf[f.filename]
        /\ r.version = MetaVersion[f.filename][f.sha256]

(* A request may delete or flag a release it does not name, since it goes  *)
(* by an id looked up statements earlier (api/packages.go:90, 127, 145)    *)
(* which may have been handed out again; but then only one that was        *)
(* created after it began.  What had been published before is safe from    *)
(* requests that do not name it, whatever overlaps.                        *)
Names(j, r) ==
    /\ j.op \in {"delete_package", "delete_release", "yank", "unyank"}
    /\ \E p \in packages : p.id = r.package_id /\ p.name = j.project
    /\ j.op = "delete_package" \/ j.version = r.version

StrikesNamedOrNewer ==
    [][\A r \in releases \ releases' :
          \E w \in Worker : pc'[w] # pc[w] /\ (Names(job[w], r) \/ r.id \in young[w])]_vars

(* The package page never goes back to an older version's summary: a step  *)
(* that changes it shows a version no unyanked release of the package is   *)
(* newer than ("Refresh ... when this is the newest version",              *)
(* ingest.go:140).                                                         *)
OnlyNewestRefreshes ==
    [][\A p \in packages, q \in packages' :
          p.id = q.id /\ p.name = q.name /\ p.summary # q.summary
          => AtLeastLatest(p.id, q.summary)]_vars

(* An upload that ends well and is the newest of its package left its      *)
(* summary on the package page.                                            *)
NewestIsShown ==
    [][\A f \in files' \ files : \A r \in releases, p \in packages :
          /\ r.id = f.release_id /\ p.id = r.package_id
          /\ AtLeastLatest(p.id, r.version)
          => Rank[p.summary] = Rank[r.version]]_vars

(* No object is stored that no row points to once no request is running:   *)
(* failed uploads and deletes clean up after themselves.                   *)
Garbage(k) ==
    /\ Blob!Stored(k)
    /\ \A f \in files : k \notin KeysOf(f.filename, f.sha256)

NoOrphans == Idle => \A k \in Key : ~ Garbage(k)

(* ... and every object without a row is removed or indexed in the end.    *)
GarbageCollected == \A k \in Key : Garbage(k) ~> ~ Garbage(k)

(* What FileByName's join finds and the blob store can open.               *)
Served ==
    {[project |-> e[1].name, version |-> e[2].version,
      filename |-> e[3].filename, sha256 |-> e[3].sha256]
       : e \in {t \in packages \X releases \X files :
                  /\ t[3].release_id = t[2].id /\ t[2].package_id = t[1].id
                  /\ \A k \in KeysOf(t[3].filename, t[3].sha256) : Blob!Stored(k)}}

(* To an installer the interleaved requests look like files that appear    *)
(* whole and releases that go at once.                                     *)
Shelf == INSTANCE Shelf WITH shelf <- Served
ImplementsShelf == Shelf!Spec
=============================================================================
