-------------------------------- MODULE Shelf --------------------------------
(***************************************************************************)
(* What a package index promises, as an installer sees it: the files that  *)
(* can be downloaded.  A file appears whole, in one step, under the        *)
(* project and version it states, and only under a filename nobody uses;   *)
(* after that nothing changes it until its release or project is           *)
(* withdrawn, and then all of that release or project goes at once.        *)
(***************************************************************************)
CONSTANTS Filename, Digest,
          ProjectOf,   \* the project a filename names
          MetaVersion  \* the version the METADATA of an archive states

VARIABLE shelf         \* the files that can be downloaded

Item == {[project |-> ProjectOf[f], version |-> MetaVersion[f][d],
          filename |-> f, sha256 |-> d] : f \in Filename, d \in Digest}

TypeOK == shelf \subseteq Item

Init == shelf = {}

Publish(item) ==
    /\ \A other \in shelf : other.filename # item.filename
    /\ shelf' = shelf \cup {item}

WithdrawRelease(item) ==
    shelf' = {i \in shelf : ~ (i.project = item.project /\ i.version = item.version)}

WithdrawProject(item) ==
    shelf' = {i \in shelf : i.project # item.project}

Next ==
    \E item \in Item :
        Publish(item) \/ WithdrawRelease(item) \/ WithdrawProject(item)

Spec == Init /\ [][Next]_shelf
=============================================================================
