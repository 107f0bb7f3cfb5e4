----------------------------- MODULE MCRegistry -----------------------------
(***************************************************************************)
(* Small instances of Registry: a project "p" with a wheel of version 1    *)
(* and an sdist of version 2, and a project "q" with an sdist.  The        *)
(* METADATA of archive "d2" writes version 1 as 1.0, a release of its own. *)
(***************************************************************************)
EXTENDS RegistryInv, TLC

MCProjectOf == [f \in Filename |-> IF f = "q-1.zip" THEN "q" ELSE "p"]
MCWheel == {"p-1.whl"} \cap Filename
MCMetaVersion ==
    [f \in Filename |-> [d \in Digest |->
        IF f = "p-2.zip" THEN "2" ELSE IF d = "d2" THEN "1.0" ELSE "1"]]
MCRank == [v \in Version |-> IF v = "2" THEN 2 ELSE 1]

Workers == Permutations(Worker)
WorkersAndDigests == Permutations(Worker) \cup Permutations(Digest)
=============================================================================
