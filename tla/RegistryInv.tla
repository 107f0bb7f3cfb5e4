----------------------------- MODULE RegistryInv -----------------------------
(***************************************************************************)
(* The inductive invariant of Registry.  Base holds whatever overlaps;     *)
(* Kept adds what holds when clients keep to a discipline, one conjunct    *)
(* per thing a request in flight relies on; Clean what holds of objects    *)
(* without a row, and SummariesDecided what Ingest has found out about the *)
(* newest version.                                                         *)
(***************************************************************************)
EXTENDS Registry

Kind == {"dist", "metadata"}

(* What w is doing is what its request asks for. *)
JobFits(w) ==
    /\ pc[w] = "idle" => job[w] = NoJob
    /\ pc[w] # "idle" => job[w] \in Job
    /\ pc[w] \in UploadSteps => job[w].op = "upload"
    /\ pc[w] \in ChangeSteps => job[w].op # "upload"
    /\ pc[w] = "find_release" => job[w].op # "delete_package"
    /\ pc[w] = "set_yanked" => job[w].op \in {"yank", "unyank"}
    /\ pc[w] \in {"list_files", "delete_row"} => Deletes(job[w])
    /\ pc[w] = "drop_blobs" => job[w].op = "upload" \/ Deletes(job[w])

(* An object never holds another archive's bytes than its key says,        *)
(* indexed or not.                                                         *)
KeyedByContent ==
    \A d \in Digest, f \in Filename, p \in Kind :
        blobs[BlobKey(d, f, p)] \in {d, Absent, Part}

Base ==
    /\ TypeOK
    /\ RowsConsistent
    /\ \A w \in Worker : JobFits(w)
    /\ KeyedByContent

(* Requests in flight are pairwise compatible. *)
Disciplined ==
    \A u, v \in InFlight : u # v => Compatible(job[u], job[v])

(* The package whose id w carries is still the one w asked for. *)
HoldsPackage(w) ==
    pc[w] \in {"insert_release", "get_release", "create_file",
               "find_release", "set_yanked", "list_files", "delete_row"}
    => \E p \in packages : p.id = pid[w] /\ p.name = Target(job[w])

(* ... and so is the release. *)
Wanted(j) == IF j.op = "upload" THEN JobVersion(j) ELSE j.version

CarriesRelease(w) ==
    \/ pc[w] \in {"create_file", "set_yanked"}
    \/ pc[w] \in {"list_files", "delete_row"} /\ job[w].op = "delete_release"

HoldsRelease(w) ==
    CarriesRelease(w) =>
        \E r \in releases :
            r.id = rid[w] /\ r.package_id = pid[w] /\ r.version = Wanted(job[w])

(* w deletes objects of its own filename or project only, *)
OwnKeys(w) ==
    pc[w] \in {"delete_row", "drop_blobs"} =>
    \A d \in Digest, f \in Filename, p \in Kind :
        BlobKey(d, f, p) \in todo[w] =>
            \/ job[w].op = "upload" /\ f = job[w].filename
            \/ Deletes(job[w]) /\ ProjectOf[f] = job[w].project

(* ... of rows that DeleteRow is about to remove, *)
ListedAreDoomed(w) ==
    pc[w] = "delete_row" =>
        \A d \in Digest, f \in Filename, p \in Kind :
            BlobKey(d, f, p) \in todo[w] =>
                \A g \in files : g.filename = f => g \in DoomedFiles(w)

(* ... and only once no row needs them. *)
DroppedAreUnindexed(w) ==
    pc[w] = "drop_blobs" =>
        \A d \in Digest, f \in Filename, p \in Kind :
            BlobKey(d, f, p) \in todo[w] => ~ FileExists(f)

(* After its FileExists check, nobody indexes the filename w uploads, *)
UploadIsFresh(w) ==
    pc[w] \in (UploadSteps \ {"file_exists"}) => ~ FileExists(job[w].filename)

(* ... and nobody removes what w has stored for it. *)
UploadIsStored(w) ==
    /\ pc[w] = "put_metadata" =>
         blobs[BlobKey(job[w].sha256, job[w].filename, "dist")] = job[w].sha256
    /\ pc[w] \in (UploadSteps \ {"file_exists", "put_dist", "put_metadata"}) =>
         \A k \in KeysOf(job[w].filename, job[w].sha256) : blobs[k] = job[w].sha256

WorkerKept(w) ==
    /\ HoldsPackage(w) /\ HoldsRelease(w)
    /\ OwnKeys(w) /\ ListedAreDoomed(w) /\ DroppedAreUnindexed(w)
    /\ UploadIsFresh(w) /\ UploadIsStored(w)

Kept ==
    /\ Disciplined
    /\ FileUnderItsRelease
    /\ IndexedAreStored
    /\ \A w \in Worker : WorkerKept(w)

(* What w goes by, under whatever id: releases of the project it names, or *)
(* the release it names, unless they are newer than its request.           *)
GoesByPackage(w) ==
    pc[w] \in ChangeSteps \ {"get_package"} =>
        \A r \in releases :
            r.package_id = pid[w] =>
                \/ r.id \in young[w]
                \/ \E p \in packages : p.id = r.package_id /\ p.name = job[w].project

GoesByRelease(w) ==
    pc[w] \in ChangeSteps /\ CarriesRelease(w) =>
        \A r \in releases : r.id = rid[w] => Names(job[w], r) \/ r.id \in young[w]

TargetsKnown == \A w \in Worker : GoesByPackage(w) /\ GoesByRelease(w)

(* Base is inductive by itself, Base /\ Kept under a discipline. *)
IInv == Base /\ (Discipline # "none" => Kept)

(* What else holds while only statements fail, and every call to the store *)
(* is answered: every object without a row is the business of a request in *)
(* flight.                                                                 *)
CallsStore(w) == PutDist(w) \/ PutMetadata(w) \/ DropBlob(w)

NoCallCutOff == \A w \in Worker : CutOff(w) => ~ CallsStore(w)

StoredSteps == {"get_existing", "latest_version", "upsert", "refresh", "reload",
                "insert_release", "get_release", "create_file"}

(* w will index or delete the object under k. *)
Answers(w, k) ==
    \/ /\ pc[w] = "put_metadata"
       /\ k = BlobKey(job[w].sha256, job[w].filename, "dist")
    \/ pc[w] \in StoredSteps /\ k \in KeysOf(job[w].filename, job[w].sha256)
    \/ pc[w] = "drop_blobs" /\ k \in todo[w]

GarbageIsOwned == \A k \in Key : Garbage(k) => \E w \in Worker : Answers(w, k)

(* A delete has listed the objects of all the rows it is about to remove. *)
DoomedAreListed(w) ==
    pc[w] = "delete_row" =>
        \A f \in DoomedFiles(w) : KeysOf(f.filename, f.sha256) \subseteq todo[w]

(* METADATA is stored for wheels only. *)
MetadataOfWheel(w) == pc[w] = "put_metadata" => job[w].filename \in Wheel

Clean ==
    /\ GarbageIsOwned
    /\ \A w \in Worker : DoomedAreListed(w) /\ MetadataOfWheel(w)

(* What else holds while each project has one request at a time, unless a  *)
(* failed read misleads Ingest: it decides about the summary by the        *)
(* releases its package still has when it acts on the decision.            *)

FoundExisting(w) ==
    pc[w] = "latest_version" =>
        \E p \in packages : p.id = pid[w] /\ p.name = Target(job[w])

IsNewest(p, w) == AtLeastLatest(p.id, JobVersion(job[w]))

(* The error of a read is swallowed, and w will write its summary over     *)
(* that of a newer version, unless its client has gone.                    *)
Misled(w) ==
    /\ pc[w] \in {"get_existing", "latest_version"} /\ StatementFails(w)
    /\ w \notin gone
    /\ \E p \in packages : p.name = Target(job[w]) /\ ~ IsNewest(p, w)

NobodyMisled == \A w \in Worker : ~ Misled(w)

DecidedRight(w) ==
    pc[w] \in {"upsert", "refresh"} /\ w \notin gone =>
        /\ refresh[w] =>
             \A p \in packages : p.name = Target(job[w]) => IsNewest(p, w)
        /\ ~ refresh[w] =>
             \E p \in packages : p.name = Target(job[w]) /\ ~ IsNewest(p, w)
        /\ pc[w] = "refresh" => refresh[w]

(* From then on the package shows the version of w, or had a newer one. *)
ShowsOrOlder(w) ==
    pc[w] \in {"reload", "insert_release", "get_release", "create_file"} =>
        \A p \in packages :
            p.name = Target(job[w]) => p.summary = JobVersion(job[w]) \/ ~ IsNewest(p, w)

WorkerDecides(w) == FoundExisting(w) /\ DecidedRight(w) /\ ShowsOrOlder(w)

SummariesDecided == \A w \in Worker : WorkerDecides(w)
=============================================================================
