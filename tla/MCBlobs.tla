------------------------------ MODULE MCBlobs ------------------------------
(* An archive and its METADATA, which share a directory, and a probe. *)
EXTENDS Blobs, TLC

CONSTANTS dist, meta, probe, shelf, probes, archive, metadata, text

MCDirOf == dist :> shelf @@ meta :> shelf @@ probe :> probes
MCContentOf == dist :> archive @@ meta :> metadata @@ probe :> text
Symmetry == Permutations(Worker)
=============================================================================
