------------------------------- MODULE RowIds -------------------------------
(***************************************************************************)
(* The row ids SQLite gives to an INTEGER PRIMARY KEY.                     *)
(***************************************************************************)
EXTENDS Integers

CONSTANT MaxId   \* BOUND: the largest row id a table may hand out

ASSUME MaxIdAssumption == MaxId \in Nat \ {0}

Id == 1 .. MaxId
NoId == 0

(* INTEGER PRIMARY KEY without AUTOINCREMENT: the next id is one more than *)
(* the largest in the table, so the id of a deleted last row comes back.   *)
IsNextId(rows, id) ==
    /\ \A r \in rows : r.id < id
    /\ id = 1 \/ \E r \in rows : r.id = id - 1
=============================================================================
