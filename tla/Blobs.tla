-------------------------------- MODULE Blobs --------------------------------
(***************************************************************************)
(* The three blob stores behind blob.Store (src/internal/blob): a local    *)
(* directory, system call by system call; a Go CDK bucket and Alibaba OSS, *)
(* call by call.  Their callers are uploads, rollbacks and deletes         *)
(* ("put", "delete"), downloads ("read": the end of pypi's file handler    *)
(* and http.ServeContent) and the self-test `blob check` ("check").        *)
(* Between two calls of one caller any other may run.                      *)
(***************************************************************************)
EXTENDS Integers, Sequences, FiniteSets

CONSTANTS Worker,    \* BOUND: how many callers there are at once
          Key,       \* the keys objects are stored under
          ProbeKey,  \* those under "_probe/", which only self-tests use
          Dir,       \* the directories the local store keeps files in
          DirOf,     \* DirOf[k] is the directory of the file at path(k)
          Content,   \* what an object may hold
          ContentOf, \* ContentOf[k] is what callers store under k
          Absent,    \* no object under a key
          Part,      \* what a bucket has of an object whose copy failed
          Size,      \* how many bytes an object has
          MaxRanges, \* BOUND: how many ranges a download asks for
          Operation, \* the calls that are made
          Backend,   \* the stores PYPI_BLOB_URL may select
          Faults     \* what may fail

Backends == {"local", "bucket", "oss"}
Operations == {"put", "delete", "read", "check"}

(* Keys are content-addressed: sha256/filename, and that + ".metadata" for *)
(* what is extracted from the archive; a probe's key is its own nonce.     *)
ASSUME KeysAssumption ==
    /\ ProbeKey \subseteq Key
    /\ DirOf \in [Key -> Dir]
    /\ ContentOf \in [Key -> Content]
    /\ Absent \notin Content /\ Part \notin Content /\ Part # Absent
ASSUME SizesAssumption == Size \in Nat \ {0} /\ MaxRanges \in Nat \ {0}
ASSUME OptionsAssumption ==
    /\ Operation \subseteq Operations
    /\ Backend \subseteq Backends
    /\ Faults \subseteq {"disk", "bucket", "kill"}

VARIABLES backend, \* the store cfg.BlobURL selects
          signing, \* whether it hands out signed URLs
          objects, \* objects[k] is the object under k
          dirs,    \* local: the directories that exist
          litter,  \* local: those with a temporary file nobody will remove
          temp,    \* local: the temporary file of w's Put
          pc,      \* pc[w] is what w does next
          job,     \* job[w] is the call w makes
          reader,  \* reader[w] is the Object w has open
          cursor,  \* cursor[w] is the next byte w sends on
          got,     \* the last byte w sent on, and where
          todo,    \* the ranges w has still to send
          report,  \* the CheckReport of w's self-test
          reply,   \* reply[w] is how w's last call ended
          faulty   \* history: something has failed

caller == <<pc, job, reader, cursor, got, todo, report, reply>>
storage == <<objects, dirs, litter, temp>>
vars == <<backend, signing, storage, caller, faulty>>

Map == INSTANCE BlobMap WITH blobs <- objects

Range == {r \in [first : 0 .. Size - 1, last : 0 .. Size - 1] : r.first <= r.last}
Whole == [first |-> 0, last |-> Size - 1]
Ranges == UNION {[1 .. n -> Range] : n \in 1 .. MaxRanges}

NoJob == [op |-> "none"]
Job == [op : {"put", "delete"} \cap Operation, key : Key \ ProbeKey]
       \cup [op : {"read"} \cap Operation, key : Key \ ProbeKey, ranges : Ranges]
       \cup [op : {"check"} \cap Operation, key : ProbeKey]

(* An Object: pos is where Read goes on (the offset of a rangeReader, the  *)
(* file position), body where the open body stands, which yields held.     *)
NoBody == -1
Reader == [pos : 0 .. Size, body : 0 .. Size \cup {NoBody}, held : Content \cup {Absent, Part}]
NoReader == [pos |-> 0, body |-> NoBody, held |-> Absent]
NoByte == [of |-> Absent, at |-> 0]

PutSteps == {"mkdir", "create", "copy", "rename", "send"}
DeleteSteps == {"remove", "rmdir", "erase"}
ReadSteps == {"open", "serve", "range", "read", "close"}
Step == PutSteps \cup DeleteSteps \cup ReadSteps \cup {"idle", "sign", "fetch"}

Mark == {"wrote", "read", "no_url", "url", "fetched", "deleted", "delete_error"}

TypeOK ==
    /\ backend \in Backend
    /\ signing \in BOOLEAN
    /\ Map!TypeOK
    /\ dirs \subseteq Dir
    /\ litter \subseteq Dir
    /\ temp \in [Worker -> {"none", "partial", "whole"}]
    /\ pc \in [Worker -> Step]
    /\ job \in [Worker -> Job \cup {NoJob}]
    /\ reader \in [Worker -> Reader]
    /\ cursor \in [Worker -> 0 .. Size]
    /\ got \in [Worker -> [of : Content \cup {Absent, Part}, at : 0 .. Size]]
    /\ todo \in [Worker -> Seq(Range)]
    /\ report \in [Worker -> SUBSET Mark]
    /\ reply \in [Worker -> {"none", "ok", "not_found", "redirect", "cut", "error"}]
    /\ faulty \in BOOLEAN

Init ==
    /\ backend \in Backend
    /\ signing \in IF backend = "local" THEN {FALSE} ELSE BOOLEAN
    /\ Map!Init
    /\ dirs = {} /\ litter = {}
    /\ temp = [w \in Worker |-> "none"]
    /\ pc = [w \in Worker |-> "idle"]
    /\ job = [w \in Worker |-> NoJob]
    /\ reader = [w \in Worker |-> NoReader]
    /\ cursor = [w \in Worker |-> 0]
    /\ got = [w \in Worker |-> NoByte]
    /\ todo = [w \in Worker |-> <<>>]
    /\ report = [w \in Worker |-> {}]
    /\ reply = [w \in Worker |-> "none"]
    /\ faulty = FALSE

Local == backend = "local"
Configuration == <<backend, signing>>
Stored(k) == Map!Stored(k)
KeyOf(w) == job[w].key
DirFor(w) == DirOf[KeyOf(w)]

-----------------------------------------------------------------------------
(* Calls begin and end.                                                    *)

FirstPut == IF Local THEN "mkdir" ELSE "send"
FirstDelete == IF Local THEN "remove" ELSE "erase"

(* A self-test draws a nonce: nothing is stored, or under way, under its   *)
(* key.                                                                    *)
Busy == {w \in Worker : pc[w] # "idle"}
Fresh(k) == ~ Stored(k) /\ \A w \in Busy : KeyOf(w) # k

Start(w, j) ==
    /\ pc[w] = "idle"
    /\ j.op = "check" => Fresh(j.key)
    /\ pc' = [pc EXCEPT ![w] = CASE j.op \in {"put", "check"} -> FirstPut
                                 [] j.op = "delete" -> FirstDelete
                                 [] j.op = "read" -> "sign"]
    /\ job' = [job EXCEPT ![w] = j]
    /\ todo' = [todo EXCEPT ![w] = CASE j.op = "read" -> j.ranges
                                     [] j.op = "check" -> <<Whole>>
                                     [] OTHER -> <<>>]
    /\ report' = [report EXCEPT ![w] = {}]
    /\ reply' = [reply EXCEPT ![w] = "none"]
    /\ UNCHANGED <<Configuration, storage, reader, cursor, got, faulty>>

Goto(w, step) ==
    /\ pc' = [pc EXCEPT ![w] = step]
    /\ UNCHANGED <<Configuration, job, reader, cursor, got, todo, report, reply, faulty>>

(* The call returns and its Object is closed. *)
Return(w, marks, answer) ==
    /\ pc' = [pc EXCEPT ![w] = "idle"]
    /\ job' = [job EXCEPT ![w] = NoJob]
    /\ reader' = [reader EXCEPT ![w] = NoReader]
    /\ cursor' = [cursor EXCEPT ![w] = 0]
    /\ got' = [got EXCEPT ![w] = NoByte]
    /\ todo' = [todo EXCEPT ![w] = <<>>]
    /\ report' = [report EXCEPT ![w] = @ \cup marks]
    /\ reply' = [reply EXCEPT ![w] = answer]
    /\ UNCHANGED Configuration

(* Check goes on to its next step; CleanUp is its deferred Delete. *)
Proceed(w, marks, step) ==
    /\ pc' = [pc EXCEPT ![w] = step]
    /\ report' = [report EXCEPT ![w] = @ \cup marks]
    /\ reader' = [reader EXCEPT ![w] = NoReader]
    /\ UNCHANGED <<Configuration, job, cursor, got, todo, reply>>

CleanUp(w, marks) == Proceed(w, marks, FirstDelete)

Probing(w) == job[w].op = "check"

PutReturns(w, ok) ==
    IF Probing(w) /\ ok THEN Proceed(w, {"wrote"}, "open")
    ELSE Return(w, {}, IF ok THEN "ok" ELSE "error")

Passed(w) == "read" \in report[w] /\ report[w] \cap {"no_url", "fetched"} # {}

DeleteReturns(w, ok) ==
    IF Probing(w)
    THEN Return(w, {IF ok THEN "deleted" ELSE "delete_error"},
                IF Passed(w) THEN "ok" ELSE "error")
    ELSE Return(w, {}, IF ok THEN "ok" ELSE "error")

(* A download that fails after its first byte ends early.  Slip: Check     *)
(* deletes its probe on the way out of a success only.                     *)
ReadFails_NoCleanUp(w, answer) == Return(w, {}, answer)

ReadFails(w, answer) ==
    IF Probing(w) THEN CleanUp(w, {}) ELSE Return(w, {}, answer)

-----------------------------------------------------------------------------
(* Local.Put: a temporary file beside the object, renamed over it.         *)

MkdirAll(w) ==
    /\ pc[w] = "mkdir"
    /\ dirs' = dirs \cup {DirFor(w)}
    /\ Goto(w, "create")
    /\ UNCHANGED <<objects, litter, temp>>

CreateTemp(w) ==
    /\ pc[w] = "create" /\ DirFor(w) \in dirs
    /\ temp' = [temp EXCEPT ![w] = "partial"]
    /\ Goto(w, "copy")
    /\ UNCHANGED <<objects, dirs, litter>>

(* A Delete of the directory's last file has removed it meanwhile. *)
NoDirectory(w) ==
    /\ pc[w] = "create" /\ DirFor(w) \notin dirs
    /\ PutReturns(w, FALSE)
    /\ UNCHANGED <<storage, faulty>>

(* Slip: the bytes are copied into the object's own file. *)
Copy_InPlace(w) ==
    /\ pc[w] = "copy"
    /\ Map!PutBreaks(KeyOf(w))
    /\ temp' = [temp EXCEPT ![w] = "whole"]
    /\ Goto(w, "rename")
    /\ UNCHANGED <<dirs, litter>>

Copy(w) ==
    /\ pc[w] = "copy"
    /\ temp' = [temp EXCEPT ![w] = "whole"]
    /\ Goto(w, "rename")
    /\ UNCHANGED <<objects, dirs, litter>>

Rename(w) ==
    /\ pc[w] = "rename"
    /\ Map!Put(KeyOf(w), ContentOf[KeyOf(w)])
    /\ temp' = [temp EXCEPT ![w] = "none"]
    /\ PutReturns(w, TRUE)
    /\ UNCHANGED <<dirs, litter, faulty>>

-----------------------------------------------------------------------------
(* Local.Delete: the file, then its directory when that is empty.          *)

Remove(w) ==
    /\ pc[w] = "remove"
    /\ Map!Delete(KeyOf(w))
    /\ Goto(w, "rmdir")
    /\ UNCHANGED <<dirs, litter, temp>>

Holds(d) ==
    \/ \E k \in Key : DirOf[k] = d /\ Stored(k)
    \/ \E u \in Worker : temp[u] # "none" /\ DirFor(u) = d
    \/ d \in litter

(* Slip: os.RemoveAll for os.Remove. *)
Prune_All(d) ==
    /\ dirs' = dirs \ {d}
    /\ objects' = [k \in Key |-> IF DirOf[k] = d THEN Absent ELSE objects[k]]

(* Slip: directories are left alone. *)
Prune_Never(d) == UNCHANGED <<objects, dirs>>

(* rmdir refuses a directory that holds a file; Delete ignores that. *)
Prune(d) ==
    /\ dirs' = IF Holds(d) THEN dirs ELSE dirs \ {d}
    /\ UNCHANGED objects

Rmdir(w) ==
    /\ pc[w] = "rmdir"
    /\ Prune(DirFor(w))
    /\ DeleteReturns(w, TRUE)
    /\ UNCHANGED <<litter, temp, faulty>>

-----------------------------------------------------------------------------
(* Bucket and OSS: one call each, which takes effect at once.              *)

Send(w) ==
    /\ pc[w] = "send"
    /\ Map!Put(KeyOf(w), ContentOf[KeyOf(w)])
    /\ PutReturns(w, TRUE)
    /\ UNCHANGED <<dirs, litter, temp, faulty>>

BucketPut(w) == backend = "bucket" /\ Send(w)
OSSPut(w) == backend = "oss" /\ Send(w)

(* Deleting what is not there is no error. *)
Erase(w) ==
    /\ pc[w] = "erase"
    /\ Map!Delete(KeyOf(w))
    /\ DeleteReturns(w, TRUE)
    /\ UNCHANGED <<dirs, litter, temp, faulty>>

BucketDelete(w) == backend = "bucket" /\ Erase(w)
OSSDelete(w) == backend = "oss" /\ Erase(w)

-----------------------------------------------------------------------------
(* Opening and reading.                                                    *)

(* SignedURL: "" from the local store, from a driver without signing and   *)
(* when cfg.BlobSignedURLs is off.                                         *)
Sign(w) ==
    /\ pc[w] = "sign"
    /\ IF Probing(w)
       THEN IF signing THEN Proceed(w, {"url"}, "fetch") ELSE CleanUp(w, {"no_url"})
       ELSE IF signing THEN Return(w, {}, "redirect") ELSE Proceed(w, {}, "open")
    /\ UNCHANGED <<storage, faulty>>

(* Check GETs the signed URL. *)
Fetch(w) ==
    /\ pc[w] = "fetch"
    /\ IF objects[KeyOf(w)] = ContentOf[KeyOf(w)]
       THEN CleanUp(w, {"fetched"}) ELSE CleanUp(w, {})
    /\ UNCHANGED <<storage, faulty>>

OpenMissing(w) ==
    /\ pc[w] = "open" /\ ~ Stored(KeyOf(w))
    /\ ReadFails(w, "not_found")
    /\ UNCHANGED <<storage, faulty>>

(* A file or a bucket's reader is open from the start; OSS has only asked  *)
(* for the size (HeadObject).                                              *)
OpenBody(k) ==
    IF backend = "oss" THEN NoReader
    ELSE [pos |-> 0, body |-> 0, held |-> objects[k]]

Open(w) ==
    /\ pc[w] = "open" /\ Stored(KeyOf(w))
    /\ reader' = [reader EXCEPT ![w] = OpenBody(KeyOf(w))]
    /\ pc' = [pc EXCEPT ![w] = IF Probing(w) THEN "range" ELSE "serve"]
    /\ UNCHANGED <<Configuration, storage, job, cursor, got, todo, report, reply, faulty>>

(* Slip: the body is read on after a Seek. *)
SeekTo_KeepsBody(r, abs) == [r EXCEPT !.pos = abs]

(* Slip: the file of the local store is opened anew after a Seek, too. *)
SeekTo_Reopens(r, abs) ==
    IF abs = r.pos THEN r ELSE [pos |-> abs, body |-> NoBody, held |-> Absent]

(* Slip: an offset from the start is taken from where the reader is. *)
SeekTo_FromHere(r, abs) == [pos |-> r.pos + abs, body |-> NoBody, held |-> Absent]

(* Seek of a file moves it; a rangeReader drops its body when it moves. *)
SeekTo(r, abs) ==
    IF Local THEN [r EXCEPT !.pos = abs, !.body = abs]
    ELSE IF abs = r.pos THEN r
    ELSE [pos |-> abs, body |-> NoBody, held |-> Absent]

(* ServeContent seeks to the end for the size and back. *)
Serve(w) ==
    /\ pc[w] = "serve"
    /\ reader' = [reader EXCEPT ![w] = SeekTo(SeekTo(@, Size), 0)]
    /\ pc' = [pc EXCEPT ![w] = "range"]
    /\ UNCHANGED <<Configuration, storage, job, cursor, got, todo, report, reply, faulty>>

(* The next range begins; Check reads its probe from the start. *)
BeginRange(w) ==
    /\ pc[w] = "range"
    /\ LET first == Head(todo[w]).first IN
         /\ reader' = [reader EXCEPT ![w] = IF Probing(w) THEN @ ELSE SeekTo(@, first)]
         /\ cursor' = [cursor EXCEPT ![w] = first]
    /\ got' = [got EXCEPT ![w] = NoByte]
    /\ pc' = [pc EXCEPT ![w] = "read"]
    /\ UNCHANGED <<Configuration, storage, job, todo, report, reply, faulty>>

(* rangeReader.Read without a body: GetObject from the offset on. *)
Reopen(w) ==
    /\ pc[w] = "read" /\ reader[w].body = NoBody /\ Stored(KeyOf(w))
    /\ reader' = [reader EXCEPT ![w] =
                   [pos |-> @.pos, body |-> @.pos, held |-> objects[KeyOf(w)]]]
    /\ UNCHANGED <<Configuration, storage, pc, job, cursor, got, todo, report, reply, faulty>>

ReopenMissing(w) ==
    /\ pc[w] = "read" /\ reader[w].body = NoBody /\ ~ Stored(KeyOf(w))
    /\ ReadFails(w, "cut")
    /\ UNCHANGED <<storage, faulty>>

ReadByte(w) ==
    /\ pc[w] = "read" /\ reader[w].body # NoBody
    /\ LET r == reader[w]
           done == cursor[w] = Head(todo[w]).last IN
         /\ got' = [got EXCEPT ![w] = [of |-> r.held, at |-> r.body]]
         /\ reader' = [reader EXCEPT ![w].pos = @ + 1, ![w].body = @ + 1]
         /\ cursor' = [cursor EXCEPT ![w] = @ + 1]
         /\ todo' = [todo EXCEPT ![w] = IF done THEN Tail(@) ELSE @]
         /\ pc' = [pc EXCEPT ![w] = CASE ~ done -> "read"
                                      [] done /\ Len(todo[w]) > 1 -> "range"
                                      [] OTHER -> "close"]
    /\ UNCHANGED <<Configuration, storage, job, report, reply, faulty>>

(* A part ends before the object does: what there is of it has been sent,  *)
(* or the size the download began with was another object's.               *)
PartEnds(w) ==
    /\ pc[w] = "read" /\ reader[w].held = Part
    /\ \E answer \in {"ok", "cut"} : ReadFails(w, answer)
    /\ UNCHANGED <<storage, faulty>>

Close(w) ==
    /\ pc[w] = "close"
    /\ IF ~ Probing(w) THEN Return(w, {}, "ok")
       ELSE IF got[w].of = ContentOf[KeyOf(w)] THEN Proceed(w, {"read"}, "sign")
       ELSE CleanUp(w, {})
    /\ UNCHANGED <<storage, faulty>>

-----------------------------------------------------------------------------
(* Failures.                                                               *)

(* A system call fails.  A Put whose Copy fails removes its temporary      *)
(* file; one whose Rename fails leaves it behind.  Delete ignores that the *)
(* directory cannot be removed.                                            *)
DiskFails(w) ==
    /\ "disk" \in Faults /\ Local
    /\ \/ pc[w] \in {"mkdir", "create", "copy", "rename"} /\ PutReturns(w, FALSE)
       \/ pc[w] = "remove" /\ DeleteReturns(w, FALSE)
       \/ pc[w] = "rmdir" /\ DeleteReturns(w, TRUE)
       \/ pc[w] \in {"open", "read"} /\ ReadFails(w, IF pc[w] = "open" THEN "error" ELSE "cut")
    /\ temp' = [temp EXCEPT ![w] = "none"]
    /\ litter' = IF pc[w] = "rename" THEN litter \cup {DirFor(w)} ELSE litter
    /\ faulty' = TRUE
    /\ UNCHANGED <<objects, dirs>>

(* Bucket.Put closes its writer when the copy into it fails, without       *)
(* cancelling it: what was copied so far may be stored.                    *)
CopyBreaks(k) == backend = "bucket" /\ Map!PutBreaks(k)

(* A call to the service fails; a Put or a Delete may have had its effect. *)
BucketFails(w) ==
    /\ "bucket" \in Faults /\ ~ Local
    /\ \/ /\ pc[w] = "send"
          /\ Map!PutFails(KeyOf(w), ContentOf[KeyOf(w)]) \/ CopyBreaks(KeyOf(w))
          /\ PutReturns(w, FALSE)
       \/ /\ pc[w] = "erase" /\ Map!DeleteFails(KeyOf(w))
          /\ DeleteReturns(w, FALSE)
       \/ /\ pc[w] \in {"sign", "fetch", "open", "read"}
          /\ ReadFails(w, IF pc[w] = "read" THEN "cut" ELSE "error")
          /\ UNCHANGED objects
    /\ faulty' = TRUE
    /\ UNCHANGED <<dirs, litter, temp>>

(* The process of the caller is killed: nothing of it is left but files. *)
Killed(w) ==
    /\ "kill" \in Faults
    /\ pc[w] # "idle"
    /\ Return(w, {}, "none")
    /\ temp' = [temp EXCEPT ![w] = "none"]
    /\ litter' = IF temp[w] = "none" THEN litter ELSE litter \cup {DirFor(w)}
    /\ faulty' = TRUE
    /\ UNCHANGED <<objects, dirs>>

-----------------------------------------------------------------------------
LocalPut(w) == MkdirAll(w) \/ CreateTemp(w) \/ NoDirectory(w) \/ Copy(w) \/ Rename(w)
LocalDelete(w) == Remove(w) \/ Rmdir(w)
Remote(w) == BucketPut(w) \/ OSSPut(w) \/ BucketDelete(w) \/ OSSDelete(w)
Download(w) ==
    \/ Sign(w) \/ Fetch(w) \/ OpenMissing(w) \/ Open(w) \/ Serve(w) \/ BeginRange(w)
    \/ Reopen(w) \/ ReopenMissing(w) \/ ReadByte(w) \/ PartEnds(w) \/ Close(w)
Fails(w) == DiskFails(w) \/ BucketFails(w) \/ Killed(w)

Next ==
    \E w \in Worker :
        \/ \E j \in Job : Start(w, j)
        \/ LocalPut(w) \/ LocalDelete(w) \/ Remote(w) \/ Download(w) \/ Fails(w)

Spec == Init /\ [][Next]_vars

-----------------------------------------------------------------------------
(* Properties.                                                             *)

(* What is under a key changes as the map of blob.Store does (blob.go:21). *)
(* The calls to a bucket or to OSS are taken to have their effect at once, *)
(* but for the copy that breaks off.  The local store has to see to it: an *)
(* object appears there whole and at once, whatever is written or removed  *)
(* meanwhile, fails halfway or is killed, and never as a part.             *)
ImplementsMap ==
    /\ Map!Spec
    /\ [][\A k \in Key : Map!PutBreaks(k) => backend = "bucket" /\ faulty']_objects

(* An object goes only by a Delete of its own key: pruning the directory   *)
(* an archive shares with its METADATA (local.go:87) takes neither, nor a  *)
(* file that another Put is about to place there.                          *)
StaysUntilDeleted ==
    [][\A k \in Key : Stored(k) /\ ~ Stored(k)' =>
          \E w \in Busy : /\ KeyOf(w) = k
                         /\ job[w].op \in {"delete", "check"}]_vars

(* The byte a download has just sent is the one at the place it is sent    *)
(* for, of the object its key names, however ranges make it seek           *)
(* (oss.go:192) and whatever is deleted and stored again meanwhile: at     *)
(* worst, in a bucket a call to which has failed, of a part of the object. *)
BytesInPlace ==
    \A w \in Worker : got[w] # NoByte =>
        /\ got[w].at = cursor[w] - 1
        /\ \/ got[w].of = ContentOf[KeyOf(w)]
           \/ got[w].of = Part /\ backend = "bucket" /\ faulty

(* A download from the local store that has opened its file sends all of   *)
(* it, although the file is deleted or replaced (files.go:56): only a      *)
(* failing disk or a killed server cuts it.                                *)
OpenedIsServed ==
    [][\A w \in Worker :
          (Local /\ pc[w] \in {"serve", "range", "read", "close"} /\ pc'[w] = "idle")
          => reply'[w] = "ok" \/ (faulty' /\ reply'[w] \in {"cut", "none"})]_vars

(* When blob check ends, its probe object is gone, or its report says that *)
(* the write failed or that the deletion did (check.go:40).                *)
ProbeTidiesUp ==
    [][\A w \in Worker :
          (Probing(w) /\ pc'[w] = "idle" /\ objects'[KeyOf(w)] # Absent)
          => \/ reply'[w] = "none"
             \/ "wrote" \notin report'[w]
             \/ "delete_error" \in report'[w]]_vars

(* While nothing fails, a directory no call is working on holds an object, *)
(* whichever of several Deletes and Puts in it came last (local.go:86).    *)
NothingIsLeftBehind ==
    ~ faulty =>
        \A d \in dirs :
            \/ \E k \in Key : DirOf[k] = d /\ Stored(k)
            \/ \E w \in Worker : pc[w] \in PutSteps \cup DeleteSteps /\ DirFor(w) = d
=============================================================================
