----------------------------- MODULE MCAccounts -----------------------------
(***************************************************************************)
(* Small instances of Accounts.                                            *)
(***************************************************************************)
EXTENDS AccountsInv, TLC

Interchangeable ==
    Permutations(Worker) \cup Permutations(Session) \cup Permutations(Password)
=============================================================================
