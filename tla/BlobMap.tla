------------------------------- MODULE BlobMap -------------------------------
(***************************************************************************)
(* What blob.Store promises (src/internal/blob/blob.go): a map from keys   *)
(* to objects.  Put replaces what the key held, Delete forgets it and is   *)
(* no error on a key that holds nothing.                                   *)
(***************************************************************************)
CONSTANTS Key,      \* the keys objects are stored under
          Content,  \* what an object may hold
          Absent,   \* no Content: marks a key that holds no object
          Part      \* no Content: an object of which only a part was stored

VARIABLE blobs      \* blobs[k] is the object under k

TypeOK == blobs \in [Key -> Content \cup {Absent, Part}]

Init == blobs = [k \in Key |-> Absent]

Stored(k) == blobs[k] # Absent

Put(k, c) == blobs' = [blobs EXCEPT ![k] = c]

Delete(k) == blobs' = [blobs EXCEPT ![k] = Absent]

(* A call that fails may still have had its effect: an object store whose  *)
(* answer is lost, a copy that ends after its deadline.                    *)
PutFails(k, c) == UNCHANGED blobs \/ Put(k, c)

DeleteFails(k) == UNCHANGED blobs \/ Delete(k)

(* Or a part of it: a bucket may keep what it was given before the copy    *)
(* failed.                                                                 *)
PutBreaks(k) == blobs' = [blobs EXCEPT ![k] = Part]

Next == \E k \in Key : Delete(k) \/ PutBreaks(k) \/ \E c \in Content : Put(k, c)

Spec == Init /\ [][Next]_blobs
=============================================================================
