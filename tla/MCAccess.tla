------------------------------ MODULE MCAccess ------------------------------
(***************************************************************************)
(* Small instances of Access: one worker serves installers, the other the  *)
(* admin.                                                                  *)
(***************************************************************************)
EXTENDS AccessInv, TLC

CONSTANT Installs

MCRank == [v \in Version |-> 1]
MCOperation ==
    [w \in Worker |-> IF w = Installs THEN {"index", "page", "file"}
                                      ELSE {"grant", "revoke"}]

Interchangeable == Permutations(Account \ {Admin}) \cup Permutations(Project)
=============================================================================
