----------------------------- MODULE BlobsProofs -----------------------------
(***************************************************************************)
(* Proofs about Blobs: objects change as those of BlobMap do, and only in  *)
(* a bucket is a part ever left of one; whoever reads an object gets its   *)
(* bytes in their places, and calls tidy up, for any number of callers,    *)
(* keys and directories and whatever fails.                                *)
(***************************************************************************)
EXTENDS Blobs, TLAPS

Reply == {"none", "ok", "not_found", "redirect", "cut", "error"}
Serving == {"serve", "range", "read", "close"}

StorageOK ==
    /\ objects \in [Key -> Content \cup {Absent, Part}]
    /\ dirs \subseteq Dir
    /\ litter \subseteq Dir
    /\ temp \in [Worker -> {"none", "partial", "whole"}]

CallersOK ==
    /\ pc \in [Worker -> Step]
    /\ job \in [Worker -> Job \cup {NoJob}]
    /\ reader \in [Worker -> Reader]
    /\ cursor \in [Worker -> 0 .. Size]
    /\ got \in [Worker -> [of : Content \cup {Absent, Part}, at : 0 .. Size]]
    /\ todo \in [Worker -> Seq(Range)]
    /\ report \in [Worker -> SUBSET Mark]
    /\ reply \in [Worker -> Reply]

(* Nothing but what belongs there, or what a bucket kept of it when a call *)
(* failed, is ever stored under a key.                                     *)
Torn == backend = "bucket" /\ faulty
IsOf(c, k) == c = ContentOf[k] \/ (Torn /\ c = Part)
KeyedByContent == \A k \in Key : objects[k] = Absent \/ IsOf(objects[k], k)

(* The next step of a caller is one of its call. *)
Fits(w) ==
    /\ pc[w] # "idle" => job[w] \in Job
    /\ pc[w] \in PutSteps => job[w].op \in {"put", "check"}
    /\ pc[w] \in DeleteSteps => job[w].op \in {"delete", "check"}
    /\ \/ pc[w] \in {"open", "serve", "range", "read"}
       \/ Probing(w) /\ pc[w] \in PutSteps
       \/ ~ Probing(w) /\ pc[w] = "sign"
       => todo[w] # <<>>
    /\ job[w].op = "check" => todo[w] \in {<<>>, <<Whole>>}
    /\ pc[w] = "fetch" => Probing(w)

(* A body stands where its reader says, and a reader where the next byte   *)
(* of the range is.  A file's body is never let go of.                     *)
ReadsOn(w) ==
    /\ pc[w] \notin Serving => reader[w] = NoReader
    /\ reader[w].body # NoBody =>
         reader[w].body = reader[w].pos /\ IsOf(reader[w].held, KeyOf(w))
    /\ (Local /\ pc[w] \in Serving) => reader[w].body # NoBody
    /\ (pc[w] = "range" /\ Probing(w)) => reader[w].pos = 0
    /\ pc[w] = "read" => reader[w].pos = cursor[w] /\ cursor[w] <= Head(todo[w]).last

Sent(w) ==
    /\ pc[w] = "idle" => got[w] = NoByte
    /\ got[w] # NoByte => got[w].at = cursor[w] - 1 /\ IsOf(got[w].of, KeyOf(w))

Mine(w) == Fits(w) /\ ReadsOn(w) /\ Sent(w)

IInv ==
    /\ backend \in Backend /\ signing \in BOOLEAN /\ faulty \in BOOLEAN
    /\ StorageOK
    /\ KeyedByContent
    /\ CallersOK
    /\ \A w \in Worker : Mine(w)

-----------------------------------------------------------------------------
(* What a step does to the objects: nothing, or what its caller is there   *)
(* for.                                                                    *)

Effect(w) ==
    \/ UNCHANGED objects
    \/ pc[w] \in PutSteps /\ objects' = [objects EXCEPT ![KeyOf(w)] = ContentOf[KeyOf(w)]]
    \/ pc[w] \in PutSteps /\ Torn' /\ objects' = [objects EXCEPT ![KeyOf(w)] = Part]
    \/ pc[w] \in DeleteSteps /\ objects' = [objects EXCEPT ![KeyOf(w)] = Absent]

WorkerStep(w) ==
    \/ \E j \in Job : Start(w, j)
    \/ LocalPut(w) \/ LocalDelete(w) \/ Remote(w) \/ Download(w) \/ Fails(w)

LEMMA StepHasItsEffect ==
    ASSUME NEW w \in Worker, WorkerStep(w)
    PROVE  Effect(w)
<1>1. CASE \E j \in Job : Start(w, j)
  BY <1>1 DEF Start, Effect, storage
<1>2. CASE LocalPut(w)
  BY <1>2 DEF LocalPut, MkdirAll, CreateTemp, NoDirectory, Copy, Rename, Map!Put,
              Effect, storage, PutSteps
<1>3. CASE LocalDelete(w)
  BY <1>3 DEF LocalDelete, Remove, Rmdir, Prune, Map!Delete, Effect, DeleteSteps
<1>4. CASE Remote(w)
  BY <1>4 DEF Remote, BucketPut, OSSPut, BucketDelete, OSSDelete, Send, Erase, Map!Put,
              Map!Delete, Effect, PutSteps, DeleteSteps
<1>5. CASE Download(w)
  BY <1>5 DEF Download, Sign, Fetch, OpenMissing, Open, Serve, BeginRange, Reopen,
              ReopenMissing, ReadByte, PartEnds, Close, Effect, storage
<1>6. CASE Fails(w)
  <2>1. CASE DiskFails(w) \/ Killed(w)
    BY <2>1 DEF DiskFails, Killed, Effect
  <2>2. CASE BucketFails(w)
    <3>1. \/ pc[w] = "send" /\ Map!PutFails(KeyOf(w), ContentOf[KeyOf(w)])
          \/ pc[w] = "send" /\ CopyBreaks(KeyOf(w)) /\ PutReturns(w, FALSE) /\ faulty'
          \/ pc[w] = "erase" /\ Map!DeleteFails(KeyOf(w))
          \/ UNCHANGED objects
      BY <2>2 DEF BucketFails
    <3>2. PutReturns(w, FALSE) => backend' = backend
      BY DEF PutReturns, Return, Configuration
    <3> QED BY <3>1, <3>2 DEF Map!PutFails, Map!DeleteFails, Map!Put, Map!Delete, CopyBreaks,
                              Map!PutBreaks, Torn, Effect, PutSteps, DeleteSteps
  <2> QED BY <1>6, <2>1, <2>2 DEF Fails
<1> QED BY <1>1, <1>2, <1>3, <1>4, <1>5, <1>6 DEF WorkerStep

LEMMA JobIs ==
    ASSUME NEW j \in Job
    PROVE  /\ j.key \in Key
           /\ j.op \in Operations
           /\ j.op = "read" => j.ranges \in Ranges
<1>1. CASE j \in [op : {"put", "delete"} \cap Operation, key : Key \ ProbeKey]
  BY <1>1 DEF Operations
<1>2. CASE j \in [op : {"read"} \cap Operation, key : Key \ ProbeKey, ranges : Ranges]
  BY <1>2 DEF Operations
<1>3. CASE j \in [op : {"check"} \cap Operation, key : ProbeKey]
  BY <1>3, KeysAssumption DEF Operations
<1> QED BY <1>1, <1>2, <1>3 DEF Job

LEMMA JobHasKey ==
    ASSUME IInv, NEW w \in Worker, pc[w] # "idle"
    PROVE  KeyOf(w) \in Key
  BY JobIs DEF IInv, Mine, Fits, KeyOf

LEMMA RangesAreSequences ==
    ASSUME NEW s \in Ranges
    PROVE  s \in Seq(Range) /\ s # <<>>
<1>1. PICK n \in 1 .. MaxRanges : s \in [1 .. n -> Range]
  BY DEF Ranges
<1>2. n \in Nat \ {0}
  BY SizesAssumption
<1> HIDE DEF Range
<1>3. s \in Seq(Range) /\ Len(s) = n
  BY <1>1, <1>2
<1> QED BY <1>2, <1>3

LEMMA EffectKeepsContent ==
    ASSUME IInv, NEW w \in Worker, Effect(w), Torn => Torn'
    PROVE  KeyedByContent' /\ objects' \in [Key -> Content \cup {Absent, Part}]
<1>1. ASSUME pc[w] \in PutSteps \cup DeleteSteps PROVE KeyOf(w) \in Key
  BY <1>1, JobHasKey DEF PutSteps, DeleteSteps
<1> QED BY <1>1, KeysAssumption DEF IInv, StorageOK, KeyedByContent, IsOf, Effect

(* The configuration stays; a step that fails is one that says so.         *)
LEMMA StepKeepsConfiguration ==
    ASSUME IInv, NEW w \in Worker, WorkerStep(w)
    PROVE  /\ backend' = backend /\ signing' = signing
           /\ faulty' = faulty \/ faulty' = TRUE
<1> USE DEF Configuration, Goto, Return, Proceed, CleanUp, PutReturns, DeleteReturns,
ReadFails
<1>1. CASE \E j \in Job : Start(w, j)
  BY <1>1 DEF Start
<1>2. CASE LocalPut(w)
  BY <1>2 DEF LocalPut, MkdirAll, CreateTemp, NoDirectory, Copy, Rename
<1>3. CASE LocalDelete(w) \/ Remote(w)
  BY <1>3 DEF LocalDelete, Remote, BucketPut, OSSPut, BucketDelete, OSSDelete, Remove, Rmdir,
              Send, Erase
<1>4. CASE Download(w)
  BY <1>4 DEF Download, Sign, Fetch, OpenMissing, Open, Serve, BeginRange, Reopen,
              ReopenMissing, ReadByte, PartEnds, Close
<1>5. CASE Fails(w)
  BY <1>5 DEF Fails, DiskFails, BucketFails, Killed
<1> QED BY <1>1, <1>2, <1>3, <1>4, <1>5 DEF WorkerStep

LEMMA StepStaysTorn ==
    ASSUME IInv, NEW w \in Worker, WorkerStep(w), Torn
    PROVE  Torn'
  BY StepKeepsConfiguration DEF Torn

-----------------------------------------------------------------------------
(* Callers do not disturb each other: what each relies on is its own.      *)

Alone(w) ==
    \A u \in Worker \ {w} :
        /\ pc'[u] = pc[u] /\ job'[u] = job[u] /\ reader'[u] = reader[u]
        /\ cursor'[u] = cursor[u] /\ got'[u] = got[u] /\ todo'[u] = todo[u]

LEMMA Bystanders ==
    ASSUME IInv, NEW w \in Worker, Alone(w), UNCHANGED backend, Torn => Torn', Mine(w)'
    PROVE  \A u \in Worker : Mine(u)'
<1> SUFFICES ASSUME NEW u \in Worker, u # w PROVE Mine(u)'
  OBVIOUS
<1>1. Mine(u)
  BY DEF IInv
<1> QED BY <1>1 DEF Alone, Mine, Fits, ReadsOn, Sent, IsOf, Local, Probing, KeyOf

LEMMA NoReaderIsOne == NoReader \in Reader
  BY SizesAssumption DEF NoReader, Reader, NoBody

LEMMA NoByteIsNone ==
    /\ NoByte \in [of : Content \cup {Absent, Part}, at : 0 .. Size]
    /\ \A c \in Content, i \in 0 .. Size : [of |-> c, at |-> i] # NoByte
  BY SizesAssumption, KeysAssumption DEF NoByte

(* The three ways a step ends. *)

LEMMA GotoKeeps ==
    ASSUME IInv, Torn => Torn', NEW w \in Worker, NEW step \in PutSteps \cup DeleteSteps,
           Goto(w, step),
           pc[w] \in PutSteps \cup DeleteSteps,
           step \in PutSteps => pc[w] \in PutSteps,
           step \in DeleteSteps => pc[w] \in DeleteSteps
    PROVE  CallersOK' /\ \A u \in Worker : Mine(u)'
<1>1. CallersOK /\ Mine(w)
  BY DEF IInv
<1>2. pc'[w] = step /\ step \in Step
  BY <1>1 DEF Goto, CallersOK, Step
<1>3. CallersOK'
  BY <1>1, <1>2 DEF Goto, CallersOK
<1>4. Alone(w) /\ UNCHANGED backend
  BY <1>1 DEF Goto, CallersOK, Alone, Configuration
<1>5. step \notin Serving \cup {"idle", "open", "sign", "fetch"}
      /\ pc[w] \notin Serving \cup {"idle"}
  BY DEF PutSteps, DeleteSteps, Serving
<1>6. Mine(w)'
  BY <1>1, <1>2, <1>5 DEF Goto, Mine, Fits, ReadsOn, Sent, IsOf, Local, Probing, KeyOf,
                          Serving, NoReader, NoBody
<1> QED BY <1>3, <1>4, <1>6, Bystanders

LEMMA ReturnKeeps ==
    ASSUME IInv, Torn => Torn', NEW w \in Worker, NEW marks \in SUBSET Mark,
           NEW answer \in Reply,
           Return(w, marks, answer)
    PROVE  CallersOK' /\ \A u \in Worker : Mine(u)'
<1>1. CallersOK
  BY DEF IInv
<1>2. /\ pc'[w] = "idle" /\ job'[w] = NoJob /\ reader'[w] = NoReader
      /\ got'[w] = NoByte /\ todo'[w] = <<>>
  BY <1>1 DEF Return, CallersOK
<1>3. /\ pc' \in [Worker -> Step]
      /\ job' \in [Worker -> Job \cup {NoJob}]
      /\ reader' \in [Worker -> Reader]
      /\ got' \in [Worker -> [of : Content \cup {Absent, Part}, at : 0 .. Size]]
  BY <1>1, NoReaderIsOne, NoByteIsNone DEF Return, CallersOK, Step
<1>4. /\ cursor' \in [Worker -> 0 .. Size]
      /\ todo' \in [Worker -> Seq(Range)]
      /\ reply' \in [Worker -> Reply]
  <2>1. 0 \in 0 .. Size /\ <<>> \in Seq(Range)
    BY SizesAssumption
  <2> QED BY <1>1, <2>1 DEF Return, CallersOK
<1>5. report' \in [Worker -> SUBSET Mark]
  BY <1>1 DEF Return, CallersOK
<1>6. CallersOK'
  BY <1>3, <1>4, <1>5 DEF CallersOK
<1>7. Alone(w) /\ UNCHANGED backend
  BY <1>1 DEF Return, CallersOK, Alone, Configuration
<1>8. Mine(w)'
  <2>1. NoJob.op = "none" /\ NoReader.body = NoBody
    BY DEF NoJob, NoReader
  <2>2. Fits(w)'
    BY <1>2, <2>1 DEF Fits, PutSteps, DeleteSteps
  <2>3. ReadsOn(w)'
    BY <1>2, <2>1 DEF ReadsOn, Serving
  <2> QED BY <1>2, <2>2, <2>3 DEF Mine, Sent
<1> QED BY <1>6, <1>7, <1>8, Bystanders

LEMMA ProceedKeeps ==
    ASSUME IInv, Torn => Torn', NEW w \in Worker, NEW marks \in SUBSET Mark,
           NEW step \in DeleteSteps \cup {"open", "sign", "fetch"}, Proceed(w, marks, step),
           pc[w] # "idle", step \in DeleteSteps \cup {"sign", "fetch"} => Probing(w),
           step = "open" => todo[w] # <<>>
    PROVE  CallersOK' /\ \A u \in Worker : Mine(u)'
<1>1. CallersOK /\ Mine(w)
  BY DEF IInv
<1>2. pc'[w] = step /\ step \in Step /\ reader'[w] = NoReader
  BY <1>1 DEF Proceed, CallersOK, Step, ReadSteps
<1>3. CallersOK'
  BY <1>1, <1>2, NoReaderIsOne DEF Proceed, CallersOK
<1>4. Alone(w) /\ UNCHANGED backend
  BY <1>1 DEF Proceed, CallersOK, Alone, Configuration
<1>5. step \notin Serving \cup PutSteps \cup {"idle"} /\ NoReader.body = NoBody
  BY DEF PutSteps, DeleteSteps, Serving, NoReader
<1>6. Fits(w)'
  BY <1>1, <1>2, <1>5 DEF Proceed, Mine, Fits, Probing, Serving, DeleteSteps
<1>7. ReadsOn(w)'
  BY <1>1, <1>2, <1>5 DEF Proceed, Mine, ReadsOn, Serving
<1>8. Sent(w)'
  BY <1>1, <1>2, <1>5 DEF Proceed, Mine, Sent, IsOf, KeyOf
<1> QED BY <1>3, <1>4, <1>6, <1>7, <1>8, Bystanders DEF Mine

LEMMA CleanUpKeeps ==
    ASSUME IInv, Torn => Torn', NEW w \in Worker, NEW marks \in SUBSET Mark, CleanUp(w,
           marks),
           pc[w] # "idle", Probing(w)
    PROVE  CallersOK' /\ \A u \in Worker : Mine(u)'
  BY ProceedKeeps DEF CleanUp, FirstDelete, DeleteSteps

LEMMA PutReturnsKeeps ==
    ASSUME IInv, Torn => Torn', NEW w \in Worker, NEW ok \in BOOLEAN, PutReturns(w, ok),
           pc[w] \in PutSteps
    PROVE  CallersOK' /\ \A u \in Worker : Mine(u)'
<1>1. CASE Probing(w) /\ ok
  <2>1. todo[w] # <<>> /\ pc[w] # "idle"
    BY <1>1 DEF IInv, Mine, Fits, PutSteps
  <2> QED BY <1>1, <2>1, ProceedKeeps DEF PutReturns, Mark, DeleteSteps
<1>2. CASE ~ (Probing(w) /\ ok)
  BY <1>2, ReturnKeeps DEF PutReturns, Reply
<1> QED BY <1>1, <1>2

LEMMA DeleteReturnsKeeps ==
    ASSUME IInv, Torn => Torn', NEW w \in Worker, NEW ok \in BOOLEAN, DeleteReturns(w, ok)
    PROVE  CallersOK' /\ \A u \in Worker : Mine(u)'
<1>1. CASE Probing(w)
  BY <1>1, ReturnKeeps DEF DeleteReturns, Mark, Reply
<1>2. CASE ~ Probing(w)
  BY <1>2, ReturnKeeps DEF DeleteReturns, Reply
<1> QED BY <1>1, <1>2

LEMMA ReadFailsKeeps ==
    ASSUME IInv, Torn => Torn', NEW w \in Worker, NEW answer \in Reply, ReadFails(w, answer),
           pc[w] # "idle"
    PROVE  CallersOK' /\ \A u \in Worker : Mine(u)'
  BY ReturnKeeps, CleanUpKeeps DEF ReadFails

-----------------------------------------------------------------------------
(* One lemma for each kind of step.                                        *)

LEMMA StartKeeps ==
    ASSUME IInv, Torn => Torn', NEW w \in Worker, NEW j \in Job, Start(w, j)
    PROVE  CallersOK' /\ \A u \in Worker : Mine(u)'
<1>1. CallersOK /\ Mine(w) /\ pc[w] = "idle"
  BY DEF IInv, Start
<1>2. j.op \in Operations /\ (j.op = "read" => j.ranges \in Seq(Range) /\ j.ranges # <<>>)
  BY JobIs, RangesAreSequences
<1>3. /\ j.op \in {"put", "check"} => pc'[w] \in PutSteps
      /\ j.op = "delete" => pc'[w] \in DeleteSteps
      /\ j.op = "read" => pc'[w] = "sign"
  BY <1>1, <1>2 DEF Start, CallersOK, FirstPut, FirstDelete, PutSteps, DeleteSteps,
                    Operations
<1>4. pc'[w] \in Step \ (Serving \cup {"idle"})
  BY <1>2, <1>3 DEF Step, Serving, PutSteps, DeleteSteps, ReadSteps, Operations
<1>5. /\ todo'[w] \in Seq(Range)
      /\ j.op \in {"read", "check"} => todo'[w] # <<>>
      /\ j.op = "check" => todo'[w] = <<Whole>>
  <2>1. <<Whole>> \in Seq(Range) /\ <<>> \in Seq(Range) /\ <<Whole>> # <<>>
    BY SizesAssumption DEF Range, Whole
  <2> QED BY <1>1, <1>2, <2>1 DEF Start, CallersOK, Operations
<1>6. CallersOK'
  <2>1. pc' \in [Worker -> Step] /\ todo' \in [Worker -> Seq(Range)]
    BY <1>1, <1>4, <1>5 DEF Start, CallersOK
  <2> QED BY <1>1, <2>1 DEF Start, CallersOK, Reply
<1>7. Alone(w) /\ UNCHANGED backend
  BY <1>1 DEF Start, CallersOK, Alone, Configuration
<1>8. /\ job'[w] = j /\ reader'[w] = reader[w] /\ got'[w] = got[w]
      /\ reader[w] = NoReader /\ got[w] = NoByte
  BY <1>1 DEF Start, CallersOK, Mine, ReadsOn, Sent, Serving
<1>9. Fits(w)'
  BY <1>2, <1>3, <1>4, <1>5, <1>8 DEF Fits, Probing, PutSteps, DeleteSteps, Operations,
                                      Serving
<1>10. ReadsOn(w)' /\ Sent(w)'
  BY <1>4, <1>8 DEF ReadsOn, Sent, Serving, NoReader, Probing
<1> QED BY <1>6, <1>7, <1>9, <1>10, Bystanders DEF Mine

LEMMA LocalPutKeeps ==
    ASSUME IInv, Torn => Torn', NEW w \in Worker, LocalPut(w)
    PROVE  CallersOK' /\ \A u \in Worker : Mine(u)'
<1> USE DEF PutSteps, DeleteSteps
<1>1. CASE MkdirAll(w) \/ CreateTemp(w) \/ Copy(w)
  BY <1>1, GotoKeeps DEF MkdirAll, CreateTemp, Copy
<1>2. CASE NoDirectory(w) \/ Rename(w)
  BY <1>2, PutReturnsKeeps DEF NoDirectory, Rename
<1> QED BY <1>1, <1>2 DEF LocalPut

LEMMA LocalDeleteKeeps ==
    ASSUME IInv, Torn => Torn', NEW w \in Worker, LocalDelete(w)
    PROVE  CallersOK' /\ \A u \in Worker : Mine(u)'
  BY GotoKeeps, DeleteReturnsKeeps DEF LocalDelete, Remove, Rmdir, PutSteps, DeleteSteps

LEMMA RemoteKeeps ==
    ASSUME IInv, Torn => Torn', NEW w \in Worker, Remote(w)
    PROVE  CallersOK' /\ \A u \in Worker : Mine(u)'
  BY PutReturnsKeeps, DeleteReturnsKeeps DEF Remote, BucketPut, OSSPut, BucketDelete,
      OSSDelete, Send, Erase, PutSteps

LEMMA FailsKeeps ==
    ASSUME IInv, Torn => Torn', NEW w \in Worker, Fails(w)
    PROVE  CallersOK' /\ \A u \in Worker : Mine(u)'
<1>1. CASE DiskFails(w)
  <2>1. \/ pc[w] \in PutSteps /\ PutReturns(w, FALSE)
        \/ \E ok \in BOOLEAN : DeleteReturns(w, ok)
        \/ pc[w] # "idle" /\ \E answer \in Reply : ReadFails(w, answer)
    BY <1>1 DEF DiskFails, PutSteps, Reply
  <2> QED BY <2>1, PutReturnsKeeps, DeleteReturnsKeeps, ReadFailsKeeps
<1>2. CASE BucketFails(w)
  <2>1. \/ pc[w] \in PutSteps /\ PutReturns(w, FALSE)
        \/ DeleteReturns(w, FALSE)
        \/ pc[w] # "idle" /\ \E answer \in Reply : ReadFails(w, answer)
    BY <1>2 DEF BucketFails, PutSteps, Reply
  <2> QED BY <2>1, PutReturnsKeeps, DeleteReturnsKeeps, ReadFailsKeeps
<1>3. CASE Killed(w)
  BY <1>3, ReturnKeeps DEF Killed, Reply
<1> QED BY <1>1, <1>2, <1>3 DEF Fails

(* Seeking moves a reader; a body it keeps is where it is and holds what   *)
(* it held.                                                                *)
LEMMA SeekToMoves ==
    ASSUME NEW r \in Reader, NEW abs \in 0 .. Size,
           r.body # NoBody => r.body = r.pos
    PROVE  /\ SeekTo(r, abs) \in Reader
           /\ SeekTo(r, abs).pos = abs
           /\ SeekTo(r, abs).body # NoBody => SeekTo(r, abs).body = abs
           /\ Local => SeekTo(r, abs).body = abs
           /\ (Local \/ SeekTo(r, abs).body # NoBody) => SeekTo(r, abs).held = r.held
           /\ (~ Local /\ SeekTo(r, abs).body # NoBody) => r.body # NoBody
<1>1. CASE Local
  BY <1>1 DEF SeekTo, Reader
<1>2. CASE ~ Local /\ abs = r.pos
  BY <1>2 DEF SeekTo
<1>3. CASE ~ Local /\ abs # r.pos
  BY <1>3 DEF SeekTo, Reader, NoBody
<1> QED BY <1>1, <1>2, <1>3

LEMMA OpenKeeps ==
    ASSUME IInv, Torn => Torn', NEW w \in Worker, Open(w)
    PROVE  CallersOK' /\ \A u \in Worker : Mine(u)'
<1>1. CallersOK /\ Mine(w) /\ pc[w] = "open" /\ KeyOf(w) \in Key
  BY JobHasKey DEF IInv, Open
<1>2. IsOf(objects[KeyOf(w)], KeyOf(w)) /\ objects[KeyOf(w)] \in Content \cup {Absent, Part}
  BY <1>1 DEF IInv, StorageOK, KeyedByContent, Open, Stored, Map!Stored
<1>3. /\ reader'[w] = OpenBody(KeyOf(w))
      /\ pc'[w] = IF Probing(w) THEN "range" ELSE "serve"
  BY <1>1 DEF Open, CallersOK
<1>4. /\ OpenBody(KeyOf(w)) \in Reader
      /\ OpenBody(KeyOf(w)).pos = 0
      /\ OpenBody(KeyOf(w)).body # NoBody =>
           OpenBody(KeyOf(w)).body = 0 /\ IsOf(OpenBody(KeyOf(w)).held, KeyOf(w))
      /\ Local => OpenBody(KeyOf(w)).body # NoBody
  <2>1. CASE backend = "oss"
    BY <2>1, NoReaderIsOne DEF OpenBody, NoReader, Local
  <2>2. CASE backend # "oss"
    BY <1>2, <2>2, SizesAssumption DEF OpenBody, Reader, NoBody
  <2> QED BY <2>1, <2>2
<1>5. CallersOK'
  <2>1. pc'[w] \in Step
    BY <1>3 DEF Step, ReadSteps
  <2> QED BY <1>1, <1>3, <1>4, <2>1 DEF Open, CallersOK
<1>6. Alone(w) /\ UNCHANGED backend
  BY <1>1 DEF Open, CallersOK, Alone, Configuration
<1>7. Fits(w)'
  BY <1>1, <1>3 DEF Open, Mine, Fits, Probing, PutSteps, DeleteSteps
<1>8. ReadsOn(w)' /\ Sent(w)'
  BY <1>1, <1>3, <1>4 DEF Open, Mine, ReadsOn, Sent, IsOf, Probing, Serving, Local,
                               KeyOf, Configuration
<1> QED BY <1>5, <1>6, <1>7, <1>8, Bystanders DEF Mine

LEMMA ServeKeeps ==
    ASSUME IInv, Torn => Torn', NEW w \in Worker, Serve(w)
    PROVE  CallersOK' /\ \A u \in Worker : Mine(u)'
<1>1. CallersOK /\ Mine(w) /\ pc[w] = "serve" /\ reader[w] \in Reader
  BY DEF IInv, Serve, CallersOK
<1> DEFINE end == SeekTo(reader[w], Size)
           start == SeekTo(end, 0)
<1>2. reader'[w] = start /\ pc'[w] = "range"
  BY <1>1 DEF Serve, CallersOK
<1>3. 0 \in 0 .. Size /\ Size \in 0 .. Size
  BY SizesAssumption
<1>4. reader[w].body # NoBody =>
        reader[w].body = reader[w].pos /\ IsOf(reader[w].held, KeyOf(w))
  BY <1>1 DEF Mine, ReadsOn
<1>5. /\ end \in Reader
      /\ end.body # NoBody => end.body = end.pos /\ IsOf(end.held, KeyOf(w))
      /\ Local => end.body # NoBody
  <2>1. Local => reader[w].body # NoBody
    BY <1>1 DEF Mine, ReadsOn, Serving
  <2>2. Size # NoBody
    BY SizesAssumption DEF NoBody
  <2> QED BY <1>1, <1>3, <1>4, <2>1, <2>2, SeekToMoves
<1>6. /\ start \in Reader /\ start.pos = 0
      /\ start.body # NoBody => start.body = start.pos /\ IsOf(start.held, KeyOf(w))
      /\ Local => start.body # NoBody
  <2>1. 0 # NoBody
    BY DEF NoBody
  <2> HIDE DEF end
  <2> QED BY <1>3, <1>5, <2>1, SeekToMoves
<1> HIDE DEF end, start
<1>7. CallersOK'
  <2>1. pc'[w] \in Step
    BY <1>2 DEF Step, ReadSteps
  <2> QED BY <1>1, <1>2, <1>6, <2>1 DEF Serve, CallersOK
<1>8. Alone(w) /\ UNCHANGED backend
  BY <1>1 DEF Serve, CallersOK, Alone, Configuration
<1>9. Fits(w)'
  BY <1>1, <1>2 DEF Serve, Mine, Fits, Probing, PutSteps, DeleteSteps
<1>10. ReadsOn(w)' /\ Sent(w)'
  BY <1>1, <1>2, <1>6 DEF Serve, Mine, ReadsOn, Sent, IsOf, Probing, Serving, Local,
                               KeyOf, Configuration
<1> QED BY <1>7, <1>8, <1>9, <1>10, Bystanders DEF Mine

LEMMA TailOfLonger ==
    ASSUME NEW S, NEW s \in Seq(S), Len(s) > 1
    PROVE  Tail(s) # <<>>
<1>1. Len(s) \in Nat /\ s # <<>>
  OBVIOUS
<1>2. Len(Tail(s)) = Len(s) - 1
  BY <1>1
<1>3. Len(Tail(s)) # 0
  BY <1>1, <1>2
<1>4. Len(<<>>) = 0
  OBVIOUS
<1> QED BY <1>3, <1>4, Zenon

LEMMA TodoIsRanges ==
    ASSUME IInv, NEW w \in Worker, todo[w] # <<>>
    PROVE  /\ todo[w] \in Seq(Range)
           /\ Head(todo[w]) \in Range
           /\ Tail(todo[w]) \in Seq(Range)
<1> HIDE DEF Range
<1> QED BY DEF IInv, CallersOK

LEMMA RangeIs ==
    ASSUME NEW r \in Range
    PROVE  /\ r.first \in 0 .. Size /\ r.last \in 0 .. Size - 1
           /\ r.first <= r.last
<1>1. r \in [first : 0 .. Size - 1, last : 0 .. Size - 1] /\ r.first <= r.last
  BY DEF Range
<1>2. r.first \in 0 .. Size - 1 /\ r.last \in 0 .. Size - 1
  BY <1>1
<1> QED BY <1>1, <1>2, SizesAssumption

LEMMA BeginRangeKeeps ==
    ASSUME IInv, Torn => Torn', NEW w \in Worker, BeginRange(w)
    PROVE  CallersOK' /\ \A u \in Worker : Mine(u)'
<1>1. CallersOK /\ Mine(w) /\ pc[w] = "range" /\ reader[w] \in Reader /\ todo[w] # <<>>
  BY DEF IInv, BeginRange, CallersOK, Mine, Fits
<1> DEFINE first == Head(todo[w]).first
<1>2. first \in 0 .. Size /\ first <= Head(todo[w]).last
  BY <1>1, TodoIsRanges, RangeIs
<1> DEFINE next == IF Probing(w) THEN reader[w] ELSE SeekTo(reader[w], first)
<1>3. /\ reader'[w] = next /\ cursor'[w] = first /\ got'[w] = NoByte /\ pc'[w] = "read"
  BY <1>1 DEF BeginRange, CallersOK
<1>4. reader[w].body # NoBody =>
        reader[w].body = reader[w].pos /\ IsOf(reader[w].held, KeyOf(w))
  BY <1>1 DEF Mine, ReadsOn
<1>5. Local => reader[w].body # NoBody
  BY <1>1 DEF Mine, ReadsOn, Serving
<1>6. /\ next \in Reader /\ next.pos = first
      /\ next.body # NoBody => next.body = next.pos /\ IsOf(next.held, KeyOf(w))
      /\ Local => next.body # NoBody
  <2>1. CASE Probing(w)
    <3>1. reader[w].pos = 0
      BY <1>1, <2>1 DEF Mine, ReadsOn
    <3>2. todo[w] = <<Whole>>
      BY <1>1, <2>1 DEF Mine, Fits, Probing
    <3>3. first = 0
      BY <3>2 DEF Whole
    <3> QED BY <1>1, <1>4, <1>5, <2>1, <3>1, <3>3
  <2>2. CASE ~ Probing(w)
    <3>1. first # NoBody
      BY <1>2 DEF NoBody
    <3> HIDE DEF first
    <3> QED BY <1>1, <1>2, <1>4, <1>5, <2>2, <3>1, SeekToMoves
  <2> QED BY <2>1, <2>2
<1> HIDE DEF first, next
<1>7. CallersOK'
  <2>1. pc' \in [Worker -> Step] /\ reader' \in [Worker -> Reader]
    BY <1>1, <1>3, <1>6 DEF BeginRange, CallersOK, Step, ReadSteps
  <2>2. cursor' \in [Worker -> 0 .. Size]
    BY <1>1, <1>2, <1>3 DEF BeginRange, CallersOK
  <2>3. got' \in [Worker -> [of : Content \cup {Absent, Part}, at : 0 .. Size]]
    BY <1>1, NoByteIsNone DEF BeginRange, CallersOK
  <2> QED BY <1>1, <2>1, <2>2, <2>3 DEF BeginRange, CallersOK
<1>8. Alone(w) /\ UNCHANGED backend
  BY <1>1 DEF BeginRange, CallersOK, Alone, Configuration
<1>9. Fits(w)'
  BY <1>1, <1>3 DEF BeginRange, Mine, Fits, Probing, PutSteps, DeleteSteps
<1>10. ReadsOn(w)' /\ Sent(w)'
  <2>1. Head(todo'[w]).last = Head(todo[w]).last
    BY DEF BeginRange
  <2> QED BY <1>1, <1>2, <1>3, <1>6, <2>1
        DEF BeginRange, ReadsOn, Sent, IsOf, Probing, Serving, Local, KeyOf, Configuration
<1> QED BY <1>7, <1>8, <1>9, <1>10, Bystanders DEF Mine

LEMMA ReopenKeeps ==
    ASSUME IInv, Torn => Torn', NEW w \in Worker, Reopen(w)
    PROVE  CallersOK' /\ \A u \in Worker : Mine(u)'
<1>1. /\ CallersOK /\ Mine(w) /\ pc[w] = "read" /\ KeyOf(w) \in Key
      /\ reader[w] \in Reader /\ reader[w].pos \in 0 .. Size
  BY JobHasKey DEF IInv, Reopen, CallersOK, Reader
<1>2. IsOf(objects[KeyOf(w)], KeyOf(w)) /\ objects[KeyOf(w)] \in Content \cup {Absent, Part}
  BY <1>1 DEF IInv, StorageOK, KeyedByContent, Reopen, Stored, Map!Stored
<1>3. reader'[w] = [pos |-> reader[w].pos, body |-> reader[w].pos,
held |-> objects[KeyOf(w)]]
  BY <1>1, <1>2 DEF Reopen, CallersOK
<1>4. /\ reader'[w] \in Reader /\ reader'[w].pos = reader[w].pos
      /\ reader'[w].body = reader'[w].pos /\ reader'[w].body # NoBody
      /\ IsOf(reader'[w].held, KeyOf(w))
  BY <1>1, <1>2, <1>3 DEF Reader, NoBody
<1>5. CallersOK'
  BY <1>1, <1>4 DEF Reopen, CallersOK
<1>6. Alone(w) /\ UNCHANGED backend
  BY <1>1 DEF Reopen, CallersOK, Alone, Configuration
<1>7. Fits(w)' /\ Sent(w)'
  BY <1>1 DEF Reopen, Mine, Fits, Sent, IsOf, Probing, KeyOf
<1>8. ReadsOn(w)'
  BY <1>1, <1>4 DEF Reopen, Mine, ReadsOn, IsOf, Probing, Serving, Local, KeyOf,
                    Configuration
<1> QED BY <1>5, <1>6, <1>7, <1>8, Bystanders DEF Mine

LEMMA ReadByteKeeps ==
    ASSUME IInv, Torn => Torn', NEW w \in Worker, ReadByte(w)
    PROVE  CallersOK' /\ \A u \in Worker : Mine(u)'
<1> DEFINE r == reader[w]
           last == Head(todo[w]).last
           done == cursor[w] = last
<1>1. /\ CallersOK /\ Mine(w) /\ pc[w] = "read" /\ todo[w] # <<>>
      /\ KeyOf(w) \in Key /\ r \in Reader /\ cursor[w] \in 0 .. Size
  BY JobHasKey DEF IInv, ReadByte, CallersOK, Mine, Fits
<1>2. /\ last \in 0 .. Size - 1 /\ cursor[w] <= last
      /\ r.pos = cursor[w] /\ r.body = cursor[w] /\ IsOf(r.held, KeyOf(w))
  <2>1. last \in 0 .. Size - 1
    BY <1>1, TodoIsRanges, RangeIs
  <2> QED BY <1>1, <2>1 DEF ReadByte, Mine, ReadsOn
<1>3. /\ got'[w] = [of |-> r.held, at |-> r.body]
      /\ reader'[w] = [r EXCEPT !.pos = @ + 1, !.body = @ + 1]
      /\ cursor'[w] = cursor[w] + 1
      /\ todo'[w] = IF done THEN Tail(todo[w]) ELSE todo[w]
      /\ pc'[w] = CASE ~ done -> "read"
                    [] done /\ Len(todo[w]) > 1 -> "range"
                    [] OTHER -> "close"
  BY <1>1 DEF ReadByte, CallersOK
<1>4. cursor'[w] \in 0 .. Size /\ cursor'[w] = cursor[w] + 1 /\ (~ done => cursor'[w] <= last)
  BY <1>1, <1>2, <1>3, SizesAssumption
<1>5. /\ reader'[w] \in Reader /\ reader'[w].pos = cursor'[w]
      /\ reader'[w].body = cursor'[w] /\ reader'[w].body # NoBody
      /\ reader'[w].held = r.held
  <2> DEFINE moved == [r EXCEPT !.pos = @ + 1]
  <2>1. reader'[w] = [moved EXCEPT !.body = @ + 1]
    BY <1>3
  <2>2. /\ moved \in Reader /\ moved.pos = cursor'[w]
        /\ moved.body = cursor[w] /\ moved.held = r.held
    BY <1>1, <1>2, <1>4 DEF Reader
  <2> HIDE DEF moved, r
  <2> QED BY <1>1, <1>4, <2>1, <2>2 DEF Reader, NoBody
<1>6. got'[w] = [of |-> r.held, at |-> cursor'[w] - 1]
  BY <1>1, <1>2, <1>3
<1>7. got'[w] \in [of : Content \cup {Absent, Part}, at : 0 .. Size]
  BY <1>1, <1>2, <1>3 DEF Reader
<1>8. /\ todo'[w] \in Seq(Range)
      /\ pc'[w] \in {"read", "range"} => todo'[w] # <<>>
      /\ pc'[w] = "range" => Len(todo[w]) > 1
      /\ pc'[w] = "read" => ~ done /\ todo'[w] = todo[w]
      /\ Tail(<<Whole>>) = <<>> /\ Len(<<Whole>>) = 1
  <2>1. todo[w] \in Seq(Range) /\ Tail(todo[w]) \in Seq(Range)
    BY <1>1, TodoIsRanges
  <2>2. Len(todo[w]) > 1 => Tail(todo[w]) # <<>>
    <3> HIDE DEF Range
    <3> QED BY <2>1, TailOfLonger
  <2>3. pc'[w] = "range" => done /\ Len(todo[w]) > 1
    BY <1>3
  <2>4. pc'[w] = "read" => ~ done
    BY <1>3
  <2>5. Tail(<<Whole>>) = <<>> /\ Len(<<Whole>>) = 1
    OBVIOUS
  <2> QED BY <1>1, <1>3, <2>1, <2>2, <2>3, <2>4, <2>5
<1>9. pc'[w] \in {"read", "range", "close"}
  BY <1>3
<1> HIDE DEF r, last, done
<1>10. CallersOK'
  <2>1. pc' \in [Worker -> Step] /\ reader' \in [Worker -> Reader]
    BY <1>1, <1>5, <1>9 DEF ReadByte, CallersOK, Step, ReadSteps
  <2>2. cursor' \in [Worker -> 0 .. Size]
    BY <1>1, <1>4 DEF ReadByte, CallersOK
  <2>3. got' \in [Worker -> [of : Content \cup {Absent, Part}, at : 0 .. Size]]
    BY <1>1, <1>7 DEF ReadByte, CallersOK
  <2>4. todo' \in [Worker -> Seq(Range)]
    BY <1>1, <1>8 DEF ReadByte, CallersOK
  <2> QED BY <1>1, <2>1, <2>2, <2>3, <2>4 DEF ReadByte, CallersOK
<1>11. Alone(w) /\ UNCHANGED backend
  BY <1>1 DEF ReadByte, CallersOK, Alone, Configuration
<1>12. UNCHANGED job /\ (Probing(w)' <=> Probing(w)) /\ KeyOf(w)' = KeyOf(w)
  BY DEF ReadByte, Probing, KeyOf
<1>13. Probing(w) => todo[w] = <<Whole>>
  BY <1>1 DEF Mine, Fits, Probing
<1>14. Fits(w)'
  <2>1. Probing(w) => todo'[w] \in {<<>>, <<Whole>>}
    BY <1>3, <1>8, <1>13
  <2> QED BY <1>1, <1>8, <1>9, <1>12, <2>1 DEF Mine, Fits, Probing, PutSteps, DeleteSteps
<1>15. ReadsOn(w)'
  <2>1. ~ (pc'[w] = "range" /\ Probing(w))
    <3>1. Probing(w) => Len(todo[w]) = 1
      BY <1>8, <1>13
    <3>2. Len(todo[w]) = 1 => ~ Len(todo[w]) > 1
      OBVIOUS
    <3> QED BY <1>8, <3>1, <3>2
  <2>2. pc'[w] = "read" => cursor'[w] <= Head(todo'[w]).last
    BY <1>4, <1>8 DEF last
  <2> QED BY <1>2, <1>5, <1>9, <1>12, <2>1, <2>2 DEF ReadsOn, IsOf, Serving
<1>16. Sent(w)'
  BY <1>2, <1>6, <1>9, <1>12 DEF Sent, IsOf
<1> QED BY <1>10, <1>11, <1>14, <1>15, <1>16, Bystanders DEF Mine

LEMMA DownloadKeeps ==
    ASSUME IInv, Torn => Torn', NEW w \in Worker, Download(w)
    PROVE  CallersOK' /\ \A u \in Worker : Mine(u)'
<1> USE DEF Mark, Reply
<1>1. CASE Sign(w)
  <2>1. ~ Probing(w) => todo[w] # <<>>
    BY <1>1 DEF Sign, IInv, Mine, Fits
  <2> QED BY <1>1, <2>1, ProceedKeeps, CleanUpKeeps, ReturnKeeps DEF Sign, DeleteSteps
<1>2. CASE Fetch(w)
  <2>1. Probing(w)
    BY <1>2 DEF Fetch, IInv, Mine, Fits
  <2> QED BY <1>2, <2>1, CleanUpKeeps DEF Fetch
<1>3. CASE OpenMissing(w) \/ ReopenMissing(w) \/ PartEnds(w)
  BY <1>3, ReadFailsKeeps DEF OpenMissing, ReopenMissing, PartEnds
<1>4. CASE Open(w) \/ Serve(w) \/ BeginRange(w) \/ Reopen(w) \/ ReadByte(w)
  BY <1>4, OpenKeeps, ServeKeeps, BeginRangeKeeps, ReopenKeeps, ReadByteKeeps
<1>5. CASE Close(w)
  BY <1>5, ProceedKeeps, CleanUpKeeps, ReturnKeeps DEF Close, DeleteSteps
<1> QED BY <1>1, <1>2, <1>3, <1>4, <1>5 DEF Download

LEMMA StepKeepsCallers ==
    ASSUME IInv, NEW w \in Worker, WorkerStep(w)
    PROVE  CallersOK' /\ \A u \in Worker : Mine(u)'
<1>1. Torn => Torn'
  BY StepStaysTorn
<1> QED BY <1>1, StartKeeps, LocalPutKeeps, LocalDeleteKeeps, RemoteKeeps, DownloadKeeps,
           FailsKeeps DEF WorkerStep

(* The directories and temporary files a step leaves are the store's own.  *)
LEMMA StepKeepsStorage ==
    ASSUME IInv, NEW w \in Worker, WorkerStep(w)
    PROVE  StorageOK' /\ KeyedByContent'
<1>1. StorageOK /\ (pc[w] # "idle" => DirFor(w) \in Dir)
  BY JobHasKey, KeysAssumption DEF IInv, DirFor
<1>2. KeyedByContent' /\ objects' \in [Key -> Content \cup {Absent, Part}]
  BY StepHasItsEffect, StepStaysTorn, EffectKeepsContent
<1> SUFFICES /\ dirs' \subseteq Dir /\ litter' \subseteq Dir
             /\ temp' \in [Worker -> {"none", "partial", "whole"}]
  BY <1>2 DEF StorageOK
<1>3. CASE \E j \in Job : Start(w, j)
  BY <1>1, <1>3 DEF Start, storage, StorageOK
<1>4. CASE LocalPut(w)
  BY <1>1, <1>4 DEF LocalPut, MkdirAll, CreateTemp, NoDirectory, Copy, Rename, storage,
                    StorageOK
<1>5. CASE LocalDelete(w)
  BY <1>1, <1>5 DEF LocalDelete, Remove, Rmdir, Prune, StorageOK
<1>6. CASE Remote(w)
  BY <1>1, <1>6 DEF Remote, BucketPut, OSSPut, BucketDelete, OSSDelete, Send, Erase,
                    StorageOK
<1>7. CASE Download(w)
  BY <1>1, <1>7 DEF Download, Sign, Fetch, OpenMissing, Open, Serve, BeginRange, Reopen,
                    ReopenMissing, ReadByte, PartEnds, Close, storage, StorageOK
<1>8. CASE Fails(w)
  <2>1. CASE DiskFails(w)
    BY <1>1, <2>1 DEF DiskFails, StorageOK
  <2>2. CASE BucketFails(w)
    BY <1>1, <2>2 DEF BucketFails, StorageOK
  <2>3. CASE Killed(w)
    BY <1>1, <2>3 DEF Killed, StorageOK
  <2> QED BY <1>8, <2>1, <2>2, <2>3 DEF Fails
<1> QED BY <1>3, <1>4, <1>5, <1>6, <1>7, <1>8 DEF WorkerStep

-----------------------------------------------------------------------------
(* The invariant.                                                          *)

LEMMA Initially == Init => IInv
<1> SUFFICES ASSUME Init PROVE IInv
  OBVIOUS
<1>1. backend \in Backend /\ faulty \in BOOLEAN
  BY DEF Init
<1>2. signing \in BOOLEAN
  BY DEF Init
<1>3. StorageOK /\ KeyedByContent
  BY DEF Init, Map!Init, StorageOK, KeyedByContent
<1>4. CallersOK
  <2>1. <<>> \in Seq(Range) /\ 0 \in 0 .. Size
    BY SizesAssumption
  <2> QED BY <2>1, NoReaderIsOne, NoByteIsNone DEF Init, CallersOK, Step, Reply
<1>5. \A w \in Worker : Mine(w)
  BY DEF Init, Mine, Fits, ReadsOn, Sent, NoJob, NoReader, Probing, PutSteps, DeleteSteps,
     Serving
<1> QED BY <1>1, <1>2, <1>3, <1>4, <1>5 DEF IInv

LEMMA Inductive == IInv /\ [Next]_vars => IInv'
<1> SUFFICES ASSUME IInv, [Next]_vars PROVE IInv'
  OBVIOUS
<1>1. CASE Next
  <2>1. PICK w \in Worker : WorkerStep(w)
    BY <1>1 DEF Next, WorkerStep
  <2>2. backend' \in Backend /\ signing' \in BOOLEAN /\ faulty' \in BOOLEAN
    BY <2>1, StepKeepsConfiguration, Zenon DEF IInv
  <2> QED BY <2>1, <2>2, StepKeepsCallers, StepKeepsStorage DEF IInv
<1>2. CASE UNCHANGED vars
  BY <1>2 DEF vars, caller, storage, IInv, StorageOK, KeyedByContent, CallersOK, Mine, Fits,
              ReadsOn, Sent, IsOf, Torn, Local, Probing, KeyOf
<1> QED BY <1>1, <1>2

LEMMA Invariant == Spec => []IInv
  BY Initially, Inductive, PTL DEF Spec

-----------------------------------------------------------------------------
(* Nobody takes another's step.                                            *)

Quiet(w) ==
    \A u \in Worker \ {w} :
        /\ pc'[u] = pc[u] /\ job'[u] = job[u] /\ temp'[u] = temp[u]
        /\ report'[u] = report[u] /\ reply'[u] = reply[u]

LEMMA StepIsItsOwn ==
    ASSUME IInv, NEW w \in Worker, WorkerStep(w)
    PROVE  Quiet(w)
<1>1. /\ pc \in [Worker -> Step]
      /\ job \in [Worker -> Job \cup {NoJob}]
      /\ temp \in [Worker -> {"none", "partial", "whole"}]
      /\ report \in [Worker -> SUBSET Mark]
      /\ reply \in [Worker -> Reply]
  BY DEF IInv, StorageOK, CallersOK
<1> HIDE DEF Step, Job, NoJob, Mark, Reply
<1> USE <1>1 DEF Quiet, Goto, Return, Proceed, CleanUp, PutReturns, DeleteReturns, ReadFails
<1>2. CASE \E j \in Job : Start(w, j)
  BY <1>2 DEF Start, storage
<1>3. CASE LocalPut(w)
  BY <1>3 DEF LocalPut, MkdirAll, CreateTemp, NoDirectory, Copy, Rename, storage
<1>4. CASE LocalDelete(w)
  BY <1>4 DEF LocalDelete, Remove, Rmdir
<1>5. CASE Remote(w)
  BY <1>5 DEF Remote, BucketPut, OSSPut, BucketDelete, OSSDelete, Send, Erase
<1>6. CASE Download(w)
  BY <1>6 DEF Download, Sign, Fetch, OpenMissing, Open, Serve, BeginRange, Reopen,
              ReopenMissing, ReadByte, PartEnds, Close, storage
<1>7. CASE Fails(w)
  BY <1>7 DEF Fails, DiskFails, BucketFails, Killed
<1> QED BY <1>2, <1>3, <1>4, <1>5, <1>6, <1>7 DEF WorkerStep

-----------------------------------------------------------------------------
(* What follows.                                                           *)

(* The stores, their callers and the open objects have their types: no     *)
(* offset leaves the object it is one of (oss.go:192).                     *)
THEOREM TypeCorrect == Spec => []TypeOK
<1>1. IInv => TypeOK
  BY DEF IInv, StorageOK, CallersOK, TypeOK, Map!TypeOK, Reply
<1> QED BY <1>1, Invariant, PTL

(* Whatever callers do, the byte a download sends is the right byte of the *)
(* object its key names, or of the part a bucket kept of it.               *)
THEOREM BytesStayInPlace == Spec => []BytesInPlace
<1>1. IInv => BytesInPlace
  BY DEF IInv, Mine, Sent, IsOf, Torn, BytesInPlace
<1> QED BY <1>1, Invariant, PTL

(* An object goes only by a Delete of its own key.                         *)
THEOREM ObjectsStay == Spec => StaysUntilDeleted
<1> DEFINE Stays == \A k \in Key : Stored(k) /\ ~ Stored(k)' =>
                      \E w \in Busy : /\ KeyOf(w) = k
                                     /\ job[w].op \in {"delete", "check"}
<1>1. ASSUME IInv, [Next]_vars PROVE [Stays]_vars
  <2>1. CASE UNCHANGED vars
    BY <2>1
  <2>2. CASE Next
    <3> SUFFICES ASSUME NEW k \in Key, Stored(k), ~ Stored(k)'
                 PROVE  \E w \in Busy : KeyOf(w) = k /\ job[w].op \in {"delete", "check"}
      OBVIOUS
    <3>1. PICK w \in Worker : WorkerStep(w)
      BY <2>2 DEF Next, WorkerStep
    <3>2. Effect(w)
      BY <3>1, StepHasItsEffect
    <3>3. objects[k] # Absent /\ objects'[k] = Absent
      BY DEF Stored, Map!Stored
    <3>4. pc[w] \in DeleteSteps /\ KeyOf(w) = k
      <4>1. objects \in [Key -> Content \cup {Absent, Part}]
        BY <1>1 DEF IInv, StorageOK
      <4>2. pc[w] \in PutSteps => ContentOf[KeyOf(w)] # Absent /\ Part # Absent
        BY <1>1, JobHasKey, KeysAssumption DEF PutSteps
      <4> QED BY <3>2, <3>3, <4>1, <4>2 DEF Effect
    <3>5. job[w].op \in {"delete", "check"} /\ w \in Busy
      BY <1>1, <3>4 DEF IInv, Mine, Fits, Busy, DeleteSteps
    <3> QED BY <3>4, <3>5
  <2> QED BY <1>1, <2>1, <2>2
<1>2. Spec => [][Stays]_vars
  BY <1>1, Invariant, PTL DEF Spec
<1> QED BY <1>2 DEF StaysUntilDeleted

(* What is under a key changes as in the map that blob.Store promises,     *)
(* step by step: in the local store an object appears there whole, by the  *)
(* rename of its finished file, whatever fails on the way; only in a       *)
(* bucket is a part of one ever left.                                      *)
THEOREM BlobsImplementMap == Spec => ImplementsMap
<1>1. Init => Map!Init
  BY DEF Init
<1>2. ASSUME IInv, [Next]_vars PROVE [Map!Next]_objects
  <2>1. CASE UNCHANGED vars
    BY <2>1 DEF vars, storage
  <2>2. CASE Next
    <3>1. PICK w \in Worker : WorkerStep(w)
      BY <2>2 DEF Next, WorkerStep
    <3>2. Effect(w)
      BY <3>1, StepHasItsEffect
    <3>3. ASSUME pc[w] \in PutSteps \cup DeleteSteps
          PROVE  KeyOf(w) \in Key /\ ContentOf[KeyOf(w)] \in Content
      BY <1>2, <3>3, JobHasKey, KeysAssumption DEF PutSteps, DeleteSteps
    <3> QED BY <3>2, <3>3 DEF Effect, Map!Next, Map!Put, Map!Delete, Map!PutBreaks
  <2> QED BY <1>2, <2>1, <2>2
<1> DEFINE Breaks == \A k \in Key : Map!PutBreaks(k) => backend = "bucket" /\ faulty'
<1>3. ASSUME IInv, [Next]_vars PROVE [Breaks]_objects
  <2>1. CASE UNCHANGED vars
    BY <2>1 DEF vars, storage
  <2>2. CASE Next
    <3>1. PICK w \in Worker : WorkerStep(w)
      BY <2>2 DEF Next, WorkerStep
    <3>2. Effect(w) /\ backend' = backend
      BY <1>3, <3>1, StepHasItsEffect, StepKeepsConfiguration
    <3>3. ASSUME pc[w] \in PutSteps \cup DeleteSteps
          PROVE  KeyOf(w) \in Key /\ ContentOf[KeyOf(w)] # Part /\ Absent # Part
      BY <1>3, <3>3, JobHasKey, KeysAssumption DEF PutSteps, DeleteSteps
    <3>4. objects \in [Key -> Content \cup {Absent, Part}]
      BY <1>3 DEF IInv, StorageOK
    <3>5. ASSUME NEW k \in Key, Map!PutBreaks(k), objects' # objects,
                 NEW c, c # Part, pc[w] \in PutSteps \cup DeleteSteps,
                 objects' = [objects EXCEPT ![KeyOf(w)] = c]
          PROVE  FALSE
      <4>1. objects'[k] = Part /\ objects'[KeyOf(w)] = c
        BY <3>3, <3>4, <3>5 DEF Map!PutBreaks
      <4>2. objects[k] = Part
        BY <3>3, <3>4, <3>5, <4>1
      <4> QED BY <3>4, <3>5, <4>2 DEF Map!PutBreaks
    <3>6. ASSUME NEW k \in Key, Map!PutBreaks(k), objects' # objects PROVE Torn'
      BY <3>2, <3>3, <3>5, <3>6 DEF Effect
    <3> QED BY <3>2, <3>6 DEF Torn
  <2> QED BY <1>3, <2>1, <2>2
<1>4. Spec => Map!Spec
  BY <1>1, <1>2, Invariant, PTL DEF Spec, Map!Spec
<1>5. Spec => [][Breaks]_objects
  BY <1>3, Invariant, PTL DEF Spec
<1> QED BY <1>4, <1>5 DEF ImplementsMap

(* A local download that has its file open only ends early when something  *)
(* has failed: a file is never opened anew (files.go:56).                  *)
THEOREM OpenedFilesAreServed == Spec => OpenedIsServed
<1> DEFINE Served == \A w \in Worker :
               (Local /\ pc[w] \in Serving /\ pc'[w] = "idle")
               => reply'[w] = "ok" \/ (faulty' /\ reply'[w] \in {"cut", "none"})
<1>1. ASSUME IInv, [Next]_vars PROVE [Served]_vars
  <2>1. CASE UNCHANGED vars
    BY <2>1
  <2>2. CASE Next
    <3> SUFFICES ASSUME NEW w \in Worker, Local, pc[w] \in Serving, pc'[w] = "idle"
                 PROVE  reply'[w] = "ok" \/ (faulty' /\ reply'[w] \in {"cut", "none"})
      OBVIOUS
    <3>1. PICK v \in Worker : WorkerStep(v)
      BY <2>2 DEF Next, WorkerStep
    <3>2. v = w
      BY <1>1, <3>1, StepIsItsOwn DEF Quiet, Serving
    <3>3. /\ pc \in [Worker -> Step] /\ reply \in [Worker -> Reply]
          /\ reader[w].body # NoBody /\ reader[w].held = ContentOf[KeyOf(w)]
      BY <1>1 DEF IInv, CallersOK, Mine, ReadsOn, IsOf, Torn, Local
    <3>4. CASE Download(w)
      <4>1. Serve(w) \/ BeginRange(w) \/ ReadByte(w) \/ Close(w)
        <5>1. ContentOf[KeyOf(w)] # Part
          BY <1>1, JobHasKey, KeysAssumption DEF Serving
        <5> QED BY <3>3, <3>4, <5>1 DEF Download, Sign, Fetch, OpenMissing, Open, Reopen,
                                        ReopenMissing, PartEnds, Serving
      <4>2. Close(w)
        BY <3>3, <4>1 DEF Serve, BeginRange, ReadByte
      <4> QED BY <3>3, <4>2 DEF Close, Return, Proceed, CleanUp, FirstDelete
    <3>5. CASE Fails(w)
      <4>1. ~ BucketFails(w)
        BY DEF BucketFails
      <4>2. DiskFails(w) => pc[w] = "read" /\ ReadFails(w, "cut") /\ faulty'
        BY DEF DiskFails, Serving
      <4>3. ReadFails(w, "cut") => reply'[w] = "cut"
        BY <3>3 DEF ReadFails, Return, CleanUp, Proceed, FirstDelete
      <4>4. Killed(w) => reply'[w] = "none" /\ faulty'
        BY <3>3 DEF Killed, Return
      <4> QED BY <3>5, <4>1, <4>2, <4>3, <4>4 DEF Fails
    <3>6. ~ LocalPut(w) /\ ~ LocalDelete(w) /\ ~ Remote(w) /\ ~ \E j \in Job : Start(w, j)
      BY DEF LocalPut, MkdirAll, CreateTemp, NoDirectory, Copy, Rename, LocalDelete, Remove,
             Rmdir, Remote, BucketPut, OSSPut, BucketDelete, OSSDelete, Send, Erase, Start,
             Serving
    <3> QED BY <3>1, <3>2, <3>4, <3>5, <3>6 DEF WorkerStep
  <2> QED BY <1>1, <2>1, <2>2
<1>2. Spec => [][Served]_vars
  BY <1>1, Invariant, PTL DEF Spec
<1> QED BY <1>2 DEF OpenedIsServed, Serving

-----------------------------------------------------------------------------
(* What calls leave behind.  A second invariant, on top of IInv.           *)

LocalSteps == {"mkdir", "create", "copy", "rename", "remove", "rmdir"}

(* A call has its temporary file while it fills it, and a probe's Delete   *)
(* has taken the object before it prunes.                                  *)
Tidies(w) ==
    /\ pc[w] = "idle" => job[w] = NoJob
    /\ temp[w] # "none" => pc[w] \in {"copy", "rename"}
    /\ pc[w] \in LocalSteps => Local
    /\ pc[w] \in {"send", "erase"} => ~ Local
    /\ (pc[w] \in PutSteps /\ Probing(w)) => "wrote" \notin report[w]
    /\ (pc[w] = "rmdir" /\ Probing(w)) => ~ Stored(KeyOf(w))

(* Nobody else has a call under a probe's key. *)
ProbesAreApart ==
    \A w, u \in Worker :
        w # u /\ pc[w] # "idle" /\ Probing(w) /\ pc[u] # "idle" => KeyOf(u) # KeyOf(w)

InUse(d) ==
    \/ \E k \in Key : DirOf[k] = d /\ Stored(k)
    \/ \E w \in Worker : pc[w] \in PutSteps \cup DeleteSteps /\ DirFor(w) = d

Tidy ==
    /\ \A w \in Worker : Tidies(w)
    /\ ProbesAreApart
    /\ ~ Local => dirs = {}
    /\ ~ faulty => litter = {} /\ \A d \in dirs : InUse(d)

LEMMA ProbeKeys ==
    ASSUME NEW j \in Job
    PROVE  j.key \in ProbeKey <=> j.op = "check"
<1>1. CASE j \in [op : {"put", "delete"} \cap Operation, key : Key \ ProbeKey]
  BY <1>1
<1>2. CASE j \in [op : {"read"} \cap Operation, key : Key \ ProbeKey, ranges : Ranges]
  BY <1>2
<1>3. CASE j \in [op : {"check"} \cap Operation, key : ProbeKey]
  BY <1>3
<1> QED BY <1>1, <1>2, <1>3 DEF Job

(* Between its start and its end a call stays what it is. *)
LEMMA StepGoesOn ==
    ASSUME IInv, NEW w \in Worker, WorkerStep(w), ~ \E j \in Job : Start(w, j)
    PROVE  /\ pc[w] # "idle"
           /\ pc'[w] # "idle" => job'[w] = job[w]
           /\ pc'[w] = "idle" => job'[w] = NoJob
<1>1. /\ pc \in [Worker -> Step] /\ job \in [Worker -> Job \cup {NoJob}]
  BY DEF IInv, CallersOK
<1> HIDE DEF Step, Job, NoJob
<1> USE <1>1 DEF Goto, Return, Proceed, CleanUp, PutReturns, DeleteReturns, ReadFails,
                 FirstDelete
<1>2. CASE LocalPut(w)
  BY <1>2 DEF LocalPut, MkdirAll, CreateTemp, NoDirectory, Copy, Rename
<1>3. CASE LocalDelete(w)
  BY <1>3 DEF LocalDelete, Remove, Rmdir
<1>4. CASE Remote(w)
  BY <1>4 DEF Remote, BucketPut, OSSPut, BucketDelete, OSSDelete, Send, Erase
<1>5. CASE Download(w)
  BY <1>5 DEF Download, Sign, Fetch, OpenMissing, Open, Serve, BeginRange, Reopen,
              ReopenMissing, ReadByte, PartEnds, Close
<1>6. CASE Fails(w)
  BY <1>6 DEF Fails, DiskFails, BucketFails, Killed
<1> QED BY <1>2, <1>3, <1>4, <1>5, <1>6 DEF WorkerStep

LEMMA StaysApart ==
    ASSUME IInv, Tidy, NEW w \in Worker, WorkerStep(w)
    PROVE  ProbesAreApart'
<1>1. /\ pc \in [Worker -> Step] /\ job \in [Worker -> Job \cup {NoJob}] /\ Quiet(w)
      /\ \A u \in Worker : pc[u] # "idle" => job[u] \in Job
  BY StepIsItsOwn DEF IInv, CallersOK, Mine, Fits
<1>2. CASE \E j \in Job : Start(w, j)
  <2>1. PICK j \in Job : Start(w, j)
    BY <1>2
  <2>2. job'[w] = j /\ (j.op = "check" => Fresh(j.key))
    BY <1>1, <2>1 DEF Start
  <2>3. j.op = "check" => \A u \in Worker \ {w} : pc'[u] # "idle" => KeyOf(u)' # j.key
    BY <1>1, <2>2 DEF Fresh, Busy, Quiet, KeyOf
  <2>4. j.op # "check" => \A u \in Worker \ {w} :
            pc'[u] # "idle" /\ Probing(u)' => KeyOf(u)' # j.key
    BY <1>1, ProbeKeys DEF Quiet, KeyOf, Probing
  <2> QED BY <1>1, <2>2, <2>3, <2>4 DEF Tidy, ProbesAreApart, Quiet, KeyOf, Probing
<1>3. CASE ~ \E j \in Job : Start(w, j)
  <2>1. pc'[w] # "idle" => job'[w] = job[w] /\ pc[w] # "idle"
    BY <1>1, <1>3, StepGoesOn
  <2> QED BY <1>1, <2>1 DEF Tidy, ProbesAreApart, Quiet, KeyOf, Probing
<1> QED BY <1>2, <1>3

LEMMA OwnTidies ==
    ASSUME IInv, Tidy, NEW w \in Worker, WorkerStep(w)
    PROVE  Tidies(w)'
<1>1. /\ pc \in [Worker -> Step] /\ job \in [Worker -> Job \cup {NoJob}]
      /\ temp \in [Worker -> {"none", "partial", "whole"}]
      /\ report \in [Worker -> SUBSET Mark]
      /\ objects \in [Key -> Content \cup {Absent, Part}]
      /\ Tidies(w) /\ (pc[w] # "idle" => KeyOf(w) \in Key)
      /\ Local' = Local
  BY JobHasKey, StepKeepsConfiguration DEF IInv, StorageOK, CallersOK, Tidy, Local
<1> HIDE DEF Step, Job, NoJob, Mark
<1> DEFINE Ends == pc'[w] = "idle" /\ job'[w] = NoJob /\ temp'[w] = "none"
           Passes == /\ pc'[w] \notin PutSteps \cup {"idle", "rmdir"} /\ temp'[w] = "none"
                     /\ pc'[w] = "remove" => Local
                     /\ pc'[w] = "erase" => ~ Local
<1>2. Ends \/ Passes => Tidies(w)'
  BY <1>1 DEF Tidies, LocalSteps, PutSteps
<1> DEFINE Over == \/ pc'[w] = "idle" /\ job'[w] = NoJob
                   \/ pc'[w] \in {"open", "sign", "fetch", FirstDelete}
<1>3. /\ \A marks, answer : Return(w, marks, answer) => Over
      /\ \A marks : CleanUp(w, marks) => Over
      /\ \A marks : \A step \in {"open", "sign", "fetch"} : Proceed(w, marks, step) => Over
      /\ \A ok \in BOOLEAN : PutReturns(w, ok) \/ DeleteReturns(w, ok) => Over
      /\ \A answer : ReadFails(w, answer) => Over
  BY <1>1 DEF Return, CleanUp, Proceed, PutReturns, DeleteReturns, ReadFails
<1>4. Over /\ temp'[w] = "none" => Ends \/ Passes
  BY DEF FirstDelete, PutSteps
<1> HIDE DEF Over, Ends, Passes
<1>5. CASE \E j \in Job : Start(w, j)
  <2>1. PICK j \in Job : Start(w, j)
    BY <1>5
  <2>2. /\ j.op \in Operations /\ temp'[w] = "none" /\ report'[w] = {}
        /\ pc'[w] \in {FirstPut, FirstDelete, "sign"}
    BY <1>1, <2>1, JobIs DEF Start, storage, Tidies, Operations
  <2> QED BY <1>1, <2>2 DEF Tidies, FirstPut, FirstDelete, LocalSteps
<1>6. CASE MkdirAll(w) \/ CreateTemp(w) \/ Copy(w)
  <2>1. /\ pc'[w] \in {"create", "copy", "rename"} /\ UNCHANGED <<job, report>>
        /\ pc[w] \in LocalSteps /\ pc[w] \in PutSteps
        /\ temp'[w] # "none" => pc'[w] \in {"copy", "rename"}
    BY <1>1, <1>6 DEF MkdirAll, CreateTemp, Copy, Goto, LocalSteps, PutSteps, Tidies
  <2> QED BY <1>1, <2>1 DEF Tidies, Probing, LocalSteps
<1>7. CASE NoDirectory(w) \/ Rename(w) \/ Remote(w) \/ Rmdir(w)
  BY <1>1, <1>2, <1>3, <1>4, <1>7
     DEF NoDirectory, Rename, Remote, BucketPut, OSSPut, BucketDelete, OSSDelete, Send,
         Erase, Rmdir, storage, Tidies
<1>8. CASE Remove(w)
  <2>1. /\ pc'[w] = "rmdir" /\ UNCHANGED <<job, report>> /\ temp'[w] = "none"
        /\ objects'[KeyOf(w)] = Absent /\ Local
    BY <1>1, <1>8 DEF Remove, Goto, Map!Delete, Tidies, LocalSteps
  <2> QED BY <1>1, <2>1 DEF Tidies, Probing, KeyOf, PutSteps, Stored, Map!Stored
<1>9. CASE Download(w)
  <2>1. temp'[w] = "none"
    BY <1>1, <1>9 DEF Download, Sign, Fetch, OpenMissing, Open, Serve, BeginRange, Reopen,
                      ReopenMissing, ReadByte, PartEnds, Close, storage, Tidies
  <2>2. CASE Open(w) \/ Serve(w) \/ BeginRange(w) \/ Reopen(w) \/ ReadByte(w)
    <3>1. pc'[w] \in {"serve", "range", "read", "close"}
      BY <1>1, <2>2 DEF Open, Serve, BeginRange, Reopen, ReadByte
    <3> QED BY <1>2, <2>1, <3>1 DEF Passes, PutSteps
  <2>3. CASE Sign(w) \/ Fetch(w) \/ OpenMissing(w) \/ ReopenMissing(w) \/ PartEnds(w)
             \/ Close(w)
    <3>1. Over
      BY <1>3, <2>3 DEF Sign, Fetch, OpenMissing, ReopenMissing, PartEnds, Close
    <3> QED BY <1>2, <1>4, <2>1, <3>1
  <2> QED BY <1>9, <2>2, <2>3 DEF Download
<1>10. CASE Fails(w)
  <2>1. temp'[w] = "none"
    BY <1>1, <1>10 DEF Fails, DiskFails, BucketFails, Killed, Tidies, LocalSteps
  <2>2. Over
    BY <1>3, <1>10 DEF Fails, DiskFails, BucketFails, Killed
  <2> QED BY <1>2, <1>4, <2>1, <2>2
<1> QED BY <1>5, <1>6, <1>7, <1>8, <1>9, <1>10 DEF WorkerStep, LocalPut, LocalDelete

(* The others keep theirs: what is stored under a probe's key is its own   *)
(* call's doing.                                                           *)
LEMMA OthersTidies ==
    ASSUME IInv, Tidy, NEW w \in Worker, WorkerStep(w), NEW u \in Worker \ {w}
    PROVE  Tidies(u)'
<1>1. Tidies(u) /\ Quiet(w) /\ Local' = Local /\ Effect(w)
  BY StepIsItsOwn, StepKeepsConfiguration, StepHasItsEffect DEF Tidy, Local
<1>2. ASSUME pc[u] = "rmdir", Probing(u) PROVE ~ Stored(KeyOf(u))'
  <2>1. ~ Stored(KeyOf(u)) /\ KeyOf(u) \in Key /\ KeyOf(u)' = KeyOf(u)
    BY <1>1, <1>2, JobHasKey DEF Tidies, Quiet, KeyOf
  <2>2. pc[w] \in PutSteps => KeyOf(w) # KeyOf(u)
    BY <1>2 DEF Tidy, ProbesAreApart, PutSteps
  <2>3. objects \in [Key -> Content \cup {Absent, Part}]
    BY DEF IInv, StorageOK
  <2> QED BY <1>1, <2>1, <2>2, <2>3 DEF Effect, Stored, Map!Stored
<1> QED BY <1>1, <1>2 DEF Tidies, Quiet, Probing

(* Only a failing step leaves a temporary file for good. *)
LEMMA StepStaysWhole ==
    ASSUME IInv, NEW w \in Worker, WorkerStep(w), ~ faulty'
    PROVE  ~ faulty /\ litter' = litter
<1> USE DEF Goto, Return, Proceed, CleanUp, PutReturns, DeleteReturns, ReadFails
<1>1. CASE \E j \in Job : Start(w, j)
  BY <1>1 DEF Start, storage
<1>2. CASE LocalPut(w)
  BY <1>2 DEF LocalPut, MkdirAll, CreateTemp, NoDirectory, Copy, Rename, storage
<1>3. CASE LocalDelete(w) \/ Remote(w)
  BY <1>3 DEF LocalDelete, Remote, BucketPut, OSSPut, BucketDelete, OSSDelete, Remove, Rmdir,
              Send, Erase
<1>4. CASE Download(w)
  BY <1>4 DEF Download, Sign, Fetch, OpenMissing, Open, Serve, BeginRange, Reopen,
              ReopenMissing, ReadByte, PartEnds, Close, storage
<1>5. ~ Fails(w)
  BY DEF Fails, DiskFails, BucketFails, Killed
<1> QED BY <1>1, <1>2, <1>3, <1>4, <1>5 DEF WorkerStep

(* The directory a call works in is in use until it leaves it, and then    *)
(* it holds an object, or is gone.                                         *)
LEMMA DirectoriesInUse ==
    ASSUME IInv, Tidy, NEW w \in Worker, WorkerStep(w), ~ faulty', NEW d \in dirs'
    PROVE  InUse(d)'
<1>1. /\ Quiet(w) /\ Effect(w) /\ Tidies(w)
      /\ objects \in [Key -> Content \cup {Absent, Part}]
      /\ pc \in [Worker -> Step]
      /\ pc[w] # "idle" => KeyOf(w) \in Key /\ ContentOf[KeyOf(w)] # Absent
  BY StepIsItsOwn, StepHasItsEffect, JobHasKey, KeysAssumption
     DEF Tidy, IInv, StorageOK, CallersOK
<1>2. ~ Fails(w) /\ ~ faulty
  <2>1. ~ Fails(w)
    BY DEF Fails, DiskFails, BucketFails, Killed
  <2> QED BY <2>1, StepStaysWhole
<1>3. litter = {} /\ (d \in dirs => InUse(d)) /\ (~ Local => dirs = {})
  BY <1>2 DEF Tidy
(* A witness for d before the step, other than w and what w deletes. *)
<1>4. ASSUME NEW u \in Worker \ {w}, pc[u] \in PutSteps \cup DeleteSteps, DirFor(u) = d
      PROVE  InUse(d)'
  BY <1>1, <1>4 DEF InUse, Quiet, DirFor, KeyOf
<1>5. ASSUME NEW k \in Key, DirOf[k] = d, objects'[k] # Absent
      PROVE  InUse(d)'
  BY <1>5 DEF InUse, Stored, Map!Stored
<1>6. ASSUME pc'[w] \in PutSteps \cup DeleteSteps, DirFor(w)' = d
      PROVE  InUse(d)'
  BY <1>6 DEF InUse
<1>7. ASSUME d \in dirs, ~ (pc[w] \in PutSteps \cup DeleteSteps /\ DirFor(w) = d)
      PROVE  InUse(d)'
  <2>1. CASE \E k \in Key : DirOf[k] = d /\ Stored(k)
    <3>1. PICK k \in Key : DirOf[k] = d /\ objects[k] # Absent
      BY <2>1 DEF Stored, Map!Stored
    <3>2. pc[w] \in PutSteps \cup DeleteSteps => KeyOf(w) # k
      BY <1>7, <3>1 DEF DirFor
    <3>3. objects'[k] = objects[k]
      BY <1>1, <3>2 DEF Effect
    <3> QED BY <1>5, <3>1, <3>3
  <2>2. CASE \E u \in Worker : pc[u] \in PutSteps \cup DeleteSteps /\ DirFor(u) = d
    BY <1>4, <1>7, <2>2
  <2> QED BY <1>3, <1>7, <2>1, <2>2 DEF InUse
<1>8. CASE (\E j \in Job : Start(w, j)) \/ Download(w)
  <2>1. d \in dirs
    BY <1>8 DEF Start, Download, Sign, Fetch, OpenMissing, Open, Serve, BeginRange, Reopen,
                ReopenMissing, ReadByte, PartEnds, Close, storage
  <2>2. pc[w] \notin PutSteps \cup DeleteSteps
    BY <1>8 DEF Start, Download, Sign, Fetch, OpenMissing, Open, Serve, BeginRange, Reopen,
                ReopenMissing, ReadByte, PartEnds, Close, PutSteps, DeleteSteps
  <2> QED BY <1>7, <2>1, <2>2
<1>9. CASE MkdirAll(w) \/ CreateTemp(w) \/ Copy(w) \/ Remove(w)
  <2>1. /\ pc'[w] \in PutSteps \cup DeleteSteps /\ DirFor(w)' = DirFor(w)
        /\ d \in dirs \cup {DirFor(w)}
    BY <1>1, <1>9 DEF MkdirAll, CreateTemp, Copy, Remove, Goto, DirFor, KeyOf,
                      PutSteps, DeleteSteps
  <2> QED BY <1>6, <1>7, <2>1
<1>10. CASE NoDirectory(w)
  BY <1>7, <1>10 DEF NoDirectory, storage
<1>11. CASE Rename(w)
  <2>1. d \in dirs /\ KeyOf(w) \in Key /\ objects'[KeyOf(w)] # Absent
    BY <1>1, <1>11 DEF Rename, Map!Put
  <2> QED BY <1>5, <1>7, <2>1 DEF DirFor
<1>12. CASE Rmdir(w)
  <2>1. d \in dirs /\ UNCHANGED objects
    BY <1>12 DEF Rmdir, Prune
  <2>2. CASE DirFor(w) = d
    <3>1. Holds(d)
      BY <1>12, <2>2 DEF Rmdir, Prune
    <3>2. CASE \E k \in Key : DirOf[k] = d /\ Stored(k)
      BY <1>5, <2>1, <3>2 DEF Stored, Map!Stored
    <3>3. CASE \E u \in Worker : temp[u] # "none" /\ DirFor(u) = d
      <4>1. PICK u \in Worker : temp[u] # "none" /\ DirFor(u) = d
        BY <3>3
      <4>2. pc[u] \in PutSteps /\ u # w
        BY <1>12, <4>1 DEF Tidy, Tidies, Rmdir, PutSteps
      <4> QED BY <1>4, <4>1, <4>2
    <3> QED BY <1>3, <3>1, <3>2, <3>3 DEF Holds
  <2> QED BY <1>7, <2>1, <2>2
<1>13. CASE Remote(w)
  BY <1>1, <1>3, <1>13 DEF Remote, BucketPut, OSSPut, BucketDelete, OSSDelete, Send, Erase,
                           Tidies
<1> QED BY <1>2, <1>8, <1>9, <1>10, <1>11, <1>12, <1>13
        DEF WorkerStep, LocalPut, LocalDelete

LEMMA TidyStep ==
    ASSUME IInv, Tidy, NEW w \in Worker, WorkerStep(w)
    PROVE  Tidy'
<1>1. \A u \in Worker : Tidies(u)'
  BY OwnTidies, OthersTidies
<1>2. ProbesAreApart'
  BY StaysApart
<1>3. ~ Local' => dirs' = {}
  <2>1. backend' = backend /\ Tidies(w)
    BY StepKeepsConfiguration DEF Tidy
  <2>2. ~ Local => dirs' = {}
    <3> SUFFICES ASSUME ~ Local PROVE dirs' = {}
      OBVIOUS
    <3>1. dirs = {} /\ ~ MkdirAll(w) /\ ~ Rmdir(w)
      BY <2>1 DEF Tidy, Tidies, MkdirAll, Rmdir, LocalSteps
    <3> QED BY <3>1 DEF WorkerStep, Start, LocalPut, LocalDelete, Remote, BucketPut, OSSPut,
              BucketDelete, OSSDelete, Download, Fails,
              CreateTemp, NoDirectory, Copy, Rename, Remove, Send, Erase, Sign, Fetch,
              OpenMissing, Open, Serve, BeginRange, Reopen, ReopenMissing, ReadByte,
              PartEnds, Close,
              DiskFails, BucketFails, Killed, storage
  <2> QED BY <2>1, <2>2 DEF Local
<1>4. ~ faulty' => litter' = {}
  BY StepStaysWhole DEF Tidy
<1>5. ~ faulty' => \A d \in dirs' : InUse(d)'
  BY DirectoriesInUse
<1> QED BY <1>1, <1>2, <1>3, <1>4, <1>5 DEF Tidy

LEMMA TidyInvariant == Spec => [](IInv /\ Tidy)
<1>1. Init => Tidy
  <2>1. ASSUME Init PROVE Tidy
    BY <2>1 DEF Init, Tidy, Tidies, ProbesAreApart, PutSteps, LocalSteps
  <2> QED BY <2>1
<1>2. IInv /\ Tidy /\ [Next]_vars => Tidy'
  <2> SUFFICES ASSUME IInv, Tidy, [Next]_vars PROVE Tidy'
    OBVIOUS
  <2>1. CASE Next
    <3>1. PICK w \in Worker : WorkerStep(w)
      BY <2>1 DEF Next, WorkerStep
    <3> QED BY <3>1, TidyStep
  <2>2. CASE UNCHANGED vars
    BY <2>2 DEF vars, caller, storage, Tidy, Tidies, ProbesAreApart, InUse, Stored,
                Map!Stored,
                Local, Probing, KeyOf, DirFor
  <2> QED BY <2>1, <2>2
<1> QED BY <1>1, <1>2, Invariant, PTL DEF Spec

(* While nothing fails, calls leave no empty directory behind.             *)
THEOREM LeavesNothingBehind == Spec => []NothingIsLeftBehind
<1>1. Tidy => NothingIsLeftBehind
  BY DEF Tidy, InUse, NothingIsLeftBehind
<1> QED BY <1>1, TidyInvariant, PTL

(* A self-test that ends has removed its probe, or says why it has not     *)
(* (check.go:40).                                                          *)
THEOREM ProbesGo == Spec => ProbeTidiesUp
<1> DEFINE Gone == \A w \in Worker :
               (Probing(w) /\ pc'[w] = "idle" /\ objects'[KeyOf(w)] # Absent)
               => \/ reply'[w] = "none"
                  \/ "wrote" \notin report'[w]
                  \/ "delete_error" \in report'[w]
<1>1. ASSUME IInv, Tidy, [Next]_vars PROVE [Gone]_vars
  <2>1. CASE UNCHANGED vars
    BY <2>1
  <2>2. CASE Next
    <3> SUFFICES ASSUME NEW w \in Worker, Probing(w), pc'[w] = "idle",
                        objects'[KeyOf(w)] # Absent
                 PROVE  \/ reply'[w] = "none"
                        \/ "wrote" \notin report'[w]
                        \/ "delete_error" \in report'[w]
      OBVIOUS
    <3>1. PICK v \in Worker : WorkerStep(v)
      BY <2>2 DEF Next, WorkerStep
    <3>2. pc[w] # "idle" /\ Tidies(w)
      BY <1>1 DEF Tidy, Tidies, Probing, NoJob
    <3>3. v = w
      BY <1>1, <3>1, <3>2, StepIsItsOwn DEF Quiet
    <3>4. /\ pc \in [Worker -> Step] /\ report \in [Worker -> SUBSET Mark]
          /\ reply \in [Worker -> Reply] /\ objects \in [Key -> Content \cup {Absent, Part}]
          /\ KeyOf(w) \in Key
      BY <1>1, <3>2, JobHasKey DEF IInv, StorageOK, CallersOK
    <3>5. /\ \A marks : ~ CleanUp(w, marks)
          /\ \A marks : \A step \in {"open", "sign", "fetch"} : ~ Proceed(w, marks, step)
          /\ \A answer : ~ ReadFails(w, answer)
      BY <3>4 DEF CleanUp, Proceed, FirstDelete, ReadFails
    <3>6. ASSUME NEW ok \in BOOLEAN, PutReturns(w, ok), pc[w] \in PutSteps
          PROVE  "wrote" \notin report'[w]
      BY <3>2, <3>4, <3>5, <3>6 DEF PutReturns, Return, Tidies
    <3>7. ASSUME DeleteReturns(w, FALSE)
          PROVE  "delete_error" \in report'[w]
      BY <3>4, <3>7 DEF DeleteReturns, Return
    <3>8. ~ (pc[w] = "rmdir" /\ objects' = objects)
      BY <3>2 DEF Tidies, Stored, Map!Stored
    <3>9. CASE LocalPut(w)
      <4>1. (NoDirectory(w) /\ PutReturns(w, FALSE)) \/ (Rename(w) /\ PutReturns(w, TRUE))
        BY <3>4, <3>9 DEF LocalPut, MkdirAll, CreateTemp, NoDirectory, Copy, Rename, Goto
      <4> QED BY <3>6, <4>1 DEF NoDirectory, Rename, PutSteps
    <3>10. ~ LocalDelete(w)
      BY <3>4, <3>8 DEF LocalDelete, Remove, Goto, Rmdir, Prune
    <3>11. CASE Remote(w)
      <4>1. ~ Erase(w)
        BY <3>4 DEF Erase, Map!Delete
      <4> QED BY <3>6, <3>11, <4>1 DEF Remote, BucketPut, OSSPut, BucketDelete, OSSDelete,
                                       Send, PutSteps
    <3>12. ~ Download(w)
      BY <3>2, <3>4, <3>5 DEF Download, Sign, Fetch, OpenMissing, Open, Serve, BeginRange,
                              Reopen, ReopenMissing, ReadByte, PartEnds, Close
    <3>13. CASE DiskFails(w)
      <4>1. \/ pc[w] \in PutSteps /\ PutReturns(w, FALSE)
            \/ DeleteReturns(w, FALSE)
            \/ pc[w] = "rmdir" /\ objects' = objects
            \/ \E answer : ReadFails(w, answer)
        BY <3>13 DEF DiskFails, PutSteps
      <4> QED BY <3>5, <3>6, <3>7, <3>8, <4>1
    <3>14. CASE BucketFails(w)
      <4>1. \/ pc[w] \in PutSteps /\ PutReturns(w, FALSE)
            \/ DeleteReturns(w, FALSE)
            \/ \E answer : ReadFails(w, answer)
        BY <3>14 DEF BucketFails, PutSteps
      <4> QED BY <3>5, <3>6, <3>7, <4>1
    <3>15. CASE Killed(w)
      BY <3>4, <3>15 DEF Killed, Return
    <3>16. ~ \E j \in Job : Start(w, j)
      BY <3>2 DEF Start
    <3> QED BY <3>1, <3>3, <3>9, <3>10, <3>11, <3>12, <3>13, <3>14, <3>15, <3>16
            DEF WorkerStep, Fails
  <2> QED BY <1>1, <2>1, <2>2
<1>2. Spec => [][Gone]_vars
  BY <1>1, TidyInvariant, PTL DEF Spec
<1> QED BY <1>2 DEF ProbeTidiesUp
=============================================================================
