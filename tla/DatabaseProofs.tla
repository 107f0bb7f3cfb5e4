--------------------------- MODULE DatabaseProofs ---------------------------
(***************************************************************************)
(* Proofs about Database: whatever two processes do to one database, and   *)
(* however often they fail, the migrations are applied in order and each   *)
(* once, and a handler never keeps the connection while it waits for its   *)
(* client.                                                                 *)
(***************************************************************************)
EXTENDS Database, TLAPS

Migrating == {"count", "script", "record", "commit"}
Opened_ == Up \cup {"update", "updating"}

(* What a process knows while it migrates: every file before the one it    *)
(* has come to is applied, and nobody ever takes one back.                 *)
Progress ==
    \A p \in Proc :
        /\ pc[p] \in Migrating => 1 .. mig[p] - 1 \subseteq recorded
        /\ pc[p] \in Migrating \ {"count"} => mig[p] <= Migrations
        /\ pc[p] \in Opened_ => recorded = 1 .. Migrations

(* Who holds the connection is about to use it. *)
HeldForUse == conn # Nobody => Queries(conn)

(* Whoever writes holds the lock, so that the open transaction is its own; *)
(* a row it has inserted was not there.                                    *)
Running == {"record", "commit"}
Transaction ==
    /\ \A p \in Proc :
        /\ pc[p] \in Running \cup {"updating"} => writer = p
        /\ pc[p] \in Running => ran = {mig[p]}
        /\ pc[p] = "record" => noted = {}
        /\ pc[p] = "commit" => noted = {mig[p]} /\ mig[p] \notin recorded
    /\ (\A p \in Proc : pc[p] \notin Running) => ran = {} /\ noted = {}

HandlingIsUp == \A w \in Worker : todo[w] # <<>> => pc["server"] \in Up

IInv == TypeOK /\ AppliedOnce /\ Progress /\ Transaction /\ HeldForUse /\ HandlingIsUp

LEMMA Types ==
    ASSUME TypeOK
    PROVE  /\ ledger \in BOOLEAN
           /\ applied \in [1 .. Migrations -> Nat]
           /\ recorded \subseteq 1 .. Migrations
           /\ writer \in Proc \cup {Nobody}
           /\ \A p \in Proc : pc[p] \in Steps[p]
           /\ mig \in [Proc -> 1 .. Migrations + 1]
           /\ todo \in [Worker -> Seq(Kind)]
           /\ conn \in Worker \cup {Nobody}
           /\ rows \in 0 .. MaxRows
           /\ faults \in 0 .. MaxFaults
  BY DEF TypeOK

-----------------------------------------------------------------------------
(* Handlers.                                                               *)

LEMMA HandlersAreScripts ==
    ASSUME NEW r \in Requests
    PROVE  Handlers[r] \in Seq(Kind)
<1>1. \A s, t \in Seq(Kind) : s \o t \in Seq(Kind)
  OBVIOUS
<1>2. /\ WithAuth \in Seq(Kind)
      /\ ListPackages \in Seq(Kind)
      /\ ListUserEntitlements \in Seq(Kind)
  BY DEF WithAuth, ListPackages, ListUserEntitlements, Kind
<1>3. /\ <<"row">> \in Seq(Kind) /\ <<"client">> \in Seq(Kind)
      /\ <<"row", "row", "rows", "client">> \in Seq(Kind)
      /\ <<"row", "row", "write", "client">> \in Seq(Kind)
      /\ <<"rows", "client">> \in Seq(Kind) /\ <<"client", "row">> \in Seq(Kind)
  BY DEF Kind
<1>4. <<"client", "row", "row", "rows", "write", "write", "row",
        "write", "row", "write", "client">> \in Seq(Kind)
  BY DEF Kind
<1>5. Index \in Seq(Kind) /\ Page \in Seq(Kind) /\ File \in Seq(Kind)
  BY <1>1, <1>2, <1>3 DEF Index, Page, File
<1>6. Upload \in Seq(Kind) /\ Packages \in Seq(Kind) /\ SelfCheck \in Seq(Kind)
  BY <1>1, <1>2, <1>3, <1>4 DEF Upload, Packages, SelfCheck
<1>7. r \in {"index", "page", "file", "upload", "packages", "selfcheck"}
  BY RequestsAssumption DEF Handlers
<1>8. /\ Handlers.index = Index /\ Handlers.page = Page /\ Handlers.file = File
      /\ Handlers.upload = Upload /\ Handlers.packages = Packages
      /\ Handlers.selfcheck = SelfCheck
  BY DEF Handlers
<1> QED BY <1>5, <1>6, <1>7, <1>8

LEMMA ScriptsAdvance ==
    ASSUME TypeOK, NEW w \in Worker, todo[w] # <<>>
    PROVE  [todo EXCEPT ![w] = Tail(@)] \in [Worker -> Seq(Kind)]
  BY DEF TypeOK

(* A step of a handler that leaves the schema and the processes alone, and *)
(* the lock to a command that has it.                                      *)
LEMMA HandlerStep ==
    ASSUME IInv, UNCHANGED <<schema, tx, pc, mig>>, pc["server"] \in Up,
           writer' \in Proc \cup {Nobody},
           writer = "tool" => writer' = writer,
           todo' \in [Worker -> Seq(Kind)],
           conn' \in Worker \cup {Nobody},
           rows' \in 0 .. MaxRows,
           faults' \in 0 .. MaxFaults,
           HeldForUse'
    PROVE  IInv'
<1>1. TypeOK'
  BY DEF IInv, TypeOK, schema, tx
<1>2. AppliedOnce' /\ Progress'
  BY DEF IInv, AppliedOnce, Progress, schema
<1>3. Transaction'
  BY DEF IInv, Transaction, schema, tx, Proc, Running, Up
<1>4. HandlingIsUp'
  BY DEF HandlingIsUp
<1> QED BY <1>1, <1>2, <1>3, <1>4 DEF IInv

LEMMA HandleStep ==
    ASSUME IInv, NEW w \in Worker, Handle(w)
    PROVE  IInv'
<1> USE BoundsAssumption, NobodyAssumption
<1>1. TypeOK /\ HeldForUse
  BY DEF IInv
<1>0. pc["server"] \in Up
  BY DEF IInv, HandlingIsUp, Handle, Begin, Take, Statement, QueryRow, NextRow, LastRow,
         Lock, Write, Busy, StatementFails, ReturnEarly, Client, Queries, Does, Up
<1>2. ASSUME NEW r \in Requests, Begin(w, r) PROVE IInv'
  <2>1. todo' \in [Worker -> Seq(Kind)]
    BY <1>1, <1>2, HandlersAreScripts DEF TypeOK, Begin
  <2>2. HeldForUse'
    BY <1>1, <1>2 DEF TypeOK, HeldForUse, Queries, Does, Begin
  <2> QED BY <1>0, <1>1, <1>2, <2>1, <2>2, HandlerStep DEF TypeOK, Begin, Server
<1>3. CASE Take(w)
  <2>1. HeldForUse'
    BY <1>1, <1>3 DEF HeldForUse, Queries, Does, Take
  <2>2. rows' \in 0 .. MaxRows
    BY <1>3 DEF Take
  <2> QED BY <1>0, <1>1, <1>3, <2>1, <2>2, HandlerStep DEF TypeOK, Take, Server
<1>4. ASSUME conn = w, Done(w), Queries(w), rows' = rows, faults' = faults,
             writer' \in Proc \cup {Nobody}, writer = "tool" => writer' = writer,
             UNCHANGED <<schema, tx, pc, mig>>
      PROVE  IInv'
  <2>1. todo' \in [Worker -> Seq(Kind)]
    BY <1>1, <1>4, ScriptsAdvance DEF Done, Queries, Does
  <2>2. HeldForUse'
    BY <1>4 DEF HeldForUse, Done
  <2> QED BY <1>0, <1>1, <1>4, <2>1, <2>2, HandlerStep DEF TypeOK, Done
<1>5. CASE QueryRow(w)
  BY <1>1, <1>4, <1>5 DEF QueryRow, Queries, Server, TypeOK
<1>6. CASE LastRow(w)
  BY <1>1, <1>4, <1>6 DEF LastRow, Queries, Server, TypeOK
<1>7. CASE Write(w)
  BY <1>1, <1>4, <1>7 DEF Write, Queries
<1>8. CASE NextRow(w)
  <2>1. rows' \in 0 .. MaxRows
    BY <1>1, <1>8 DEF NextRow, TypeOK
  <2>2. HeldForUse'
    BY <1>1, <1>8 DEF NextRow, HeldForUse, Queries, Does
  <2> QED BY <1>0, <1>1, <1>8, <2>1, <2>2, HandlerStep DEF NextRow, Server, TypeOK
<1>9. CASE Lock(w)
  <2>1. HeldForUse'
    BY <1>1, <1>9 DEF Lock, pool, HeldForUse, Queries, Does
  <2> QED BY <1>0, <1>1, <1>9, <2>1, HandlerStep DEF Lock, pool, Proc, TypeOK
<1>10. ASSUME GiveUp(w), Queries(w) PROVE IInv'
  <2>1. todo' \in [Worker -> Seq(Kind)]
    <3>1. todo[w] \in Seq(Kind) /\ todo[w] # <<>>
      BY <1>1, <1>10 DEF TypeOK, Queries, Does
    <3>2. <<>> \in Seq(Kind) /\ Tail(todo[w]) \in Seq(Kind)
      BY <3>1
    <3> QED BY <1>1, <1>10, <3>2 DEF GiveUp, TypeOK
  <2>2. writer' \in Proc \cup {Nobody} /\ (writer = "tool" => writer' = writer)
    BY <1>1, <1>10 DEF GiveUp, Release, TypeOK
  <2>3. HeldForUse'
    BY <1>10 DEF GiveUp, HeldForUse
  <2>4. rows' \in 0 .. MaxRows /\ conn' \in Worker \cup {Nobody}
    BY <1>10 DEF GiveUp
  <2> QED BY <1>0, <1>1, <1>10, <2>1, <2>2, <2>3, <2>4, HandlerStep DEF GiveUp, TypeOK
<1>11. CASE Busy(w) \/ StatementFails(w)
  BY <1>10, <1>11 DEF Busy, StatementFails, Queries
<1>13. CASE ReturnEarly(w)
  <2>1. todo' \in [Worker -> Seq(Kind)]
    BY <1>1, <1>13 DEF ReturnEarly, TypeOK
  <2>2. HeldForUse'
    BY <1>1, <1>13 DEF ReturnEarly, HeldForUse, Queries, Does, TypeOK
  <2> QED BY <1>0, <1>1, <1>13, <2>1, <2>2, HandlerStep DEF ReturnEarly, Server, TypeOK
<1>12. CASE Client(w)
  <2>1. todo' \in [Worker -> Seq(Kind)]
    BY <1>1, <1>12, ScriptsAdvance DEF Client, Does
  <2>2. conn # w
    BY <1>1, <1>12 DEF Client, HeldForUse, Queries, Does
  <2>3. HeldForUse'
    BY <1>1, <1>12, <2>2 DEF Client, HeldForUse, Queries, Does, TypeOK
  <2> QED BY <1>0, <1>1, <1>12, <2>1, <2>3, HandlerStep DEF Client, Server, TypeOK
<1> QED BY <1>2, <1>3, <1>5, <1>6, <1>7, <1>8, <1>9, <1>11, <1>12, <1>13
          DEF Handle, Statement

-----------------------------------------------------------------------------
(* Processes.                                                              *)

LEMMA NobodyIsNoProcess == Nobody \notin Proc
  BY NobodyAssumption

LEMMA PoolRests ==
    ASSUME IInv, UNCHANGED pool
    PROVE  /\ todo' \in [Worker -> Seq(Kind)]
           /\ conn' \in Worker \cup {Nobody}
           /\ rows' \in 0 .. MaxRows
           /\ HeldForUse'
  BY DEF IInv, TypeOK, pool, HeldForUse, Queries, Does

LEMMA PcStep ==
    ASSUME TypeOK, NEW p \in Proc, NEW step \in Steps[p], Goto(p, step)
    PROVE  /\ pc' \in [Proc -> Steps["server"] \cup Steps["tool"]]
           /\ \A q \in Proc : pc'[q] \in Steps[q]
           /\ pc'[p] = step
           /\ \A q \in Proc \ {p} : pc'[q] = pc[q]
  BY DEF Goto, TypeOK, Proc

(* A process that goes on without touching the schema or a transaction     *)
(* keeps what it knows.                                                    *)
LEMMA GotoStep ==
    ASSUME IInv, NEW p \in Proc, NEW step \in Steps[p], Goto(p, step),
           writer' \in Proc \cup {Nobody},
           \A q \in Proc \ {p} : writer = q => writer' = q,
           step = "updating" => writer' = p,
           pc[p] \notin Running, step \notin Running,
           p = "server" /\ pc[p] \in Up => step \in Up,
           UNCHANGED <<applied, recorded, tx, mig, pool>>, ledger' \in BOOLEAN,
           faults' \in 0 .. MaxFaults,
           step \in Migrating => pc[p] \in Migrating,
           step = "script" => mig[p] <= Migrations,
           step \in Opened_ => recorded = 1 .. Migrations
    PROVE  IInv'
<1>0. TypeOK
  BY DEF IInv
<1>1. /\ pc' \in [Proc -> Steps["server"] \cup Steps["tool"]]
      /\ \A q \in Proc : pc'[q] \in Steps[q]
      /\ pc'[p] = step
      /\ \A q \in Proc \ {p} : pc'[q] = pc[q]
  BY <1>0, PcStep
<1>2. TypeOK'
  BY <1>1, PoolRests DEF IInv, TypeOK, tx
<1>3. AppliedOnce'
  BY DEF IInv, AppliedOnce
<1>4. Progress'
  BY <1>1 DEF IInv, Progress, Migrating, Running
<1>5. Transaction'
  BY <1>1 DEF IInv, Transaction, Running, tx
<1>6. HandlingIsUp'
  BY <1>1 DEF IInv, HandlingIsUp, pool, Proc
<1> QED BY <1>2, <1>3, <1>4, <1>5, <1>6, PoolRests DEF IInv

LEMMA ExitStep ==
    ASSUME IInv, NEW p \in Proc, NEW step \in Steps[p] \cap {"stopped", "failed"},
           Exit(p, step), faults' \in 0 .. MaxFaults
    PROVE  IInv'
<1>0. TypeOK
  BY DEF IInv
<1>1. /\ pc' \in [Proc -> Steps["server"] \cup Steps["tool"]]
      /\ \A q \in Proc : pc'[q] \in Steps[q]
      /\ pc'[p] = step
      /\ \A q \in Proc \ {p} : pc'[q] = pc[q]
  BY <1>0, PcStep DEF Exit
<1>2. /\ todo' \in [Worker -> Seq(Kind)]
      /\ conn' \in Worker \cup {Nobody}
      /\ rows' \in 0 .. MaxRows
      /\ HeldForUse'
  <2>1. CASE p = "server"
    <3>1. <<>> \in Seq(Kind) /\ 0 \in 0 .. MaxRows
      BY BoundsAssumption
    <3> QED BY <2>1, <3>1 DEF Exit, HeldForUse
  <2>2. CASE p # "server"
    BY <2>2, PoolRests DEF Exit
  <2> QED BY <2>1, <2>2
<1>3. TypeOK'
  BY <1>1, <1>2 DEF IInv, TypeOK, Exit, Release, schema, tx
<1>4. AppliedOnce'
  BY DEF IInv, AppliedOnce, Exit, schema
<1>5. Progress'
  <2>1. step \notin Migrating \cup Opened_
    BY DEF Migrating, Opened_, Up
  <2> QED BY <1>1, <2>1 DEF IInv, Progress, Exit, schema, Migrating
<1>6. Transaction'
  <2>1. step \notin Running \cup {"updating"}
    BY DEF Running
  <2>2. UNCHANGED <<mig, recorded>>
    BY DEF Exit, schema
  <2>3. CASE writer = p
    <3>1. \A q \in Proc : pc'[q] \notin Running \cup {"updating"}
      BY <1>1, <2>1, <2>3 DEF IInv, Transaction
    <3>2. ran' = {} /\ noted' = {}
      BY <2>3 DEF Exit
    <3> QED BY <3>1, <3>2 DEF Transaction, Running
  <2>4. CASE writer # p
    <3>1. UNCHANGED <<writer, ran, noted>>
      BY <2>4 DEF Exit, Release, tx
    <3>2. pc[p] \notin Running
      BY <2>4 DEF IInv, Transaction
    <3> QED BY <1>1, <2>1, <2>2, <3>1, <3>2 DEF IInv, Transaction, Running
  <2> QED BY <2>3, <2>4
<1>7. HandlingIsUp'
  BY <1>1 DEF IInv, HandlingIsUp, Exit, pool, Proc
<1> QED BY <1>2, <1>3, <1>4, <1>5, <1>6, <1>7 DEF IInv

LEMMA FailedIsAStep ==
    ASSUME NEW p \in Proc
    PROVE  Failed(p) \in Steps[p] \cap {"stopped", "failed"}
  BY DEF Proc, Failed, Steps

LEMMA ScriptStep ==
    ASSUME IInv, NEW p \in Proc, Script(p)
    PROVE  IInv'
<1>0. /\ TypeOK /\ "record" \in Steps[p] /\ mig[p] \in 1 .. Migrations /\ Goto(p, "record")
      /\ writer = Nobody /\ writer' = p /\ UNCHANGED <<schema, noted, mig, pool, faults>>
  BY DEF IInv, TypeOK, Script, Steps, Proc, Opening, Progress, Migrating
<1>1. /\ pc' \in [Proc -> Steps["server"] \cup Steps["tool"]]
      /\ \A q \in Proc : pc'[q] \in Steps[q]
      /\ pc'[p] = "record"
      /\ \A q \in Proc \ {p} : pc'[q] = pc[q]
  BY <1>0, PcStep
<1>2. ran = {} /\ noted = {} /\ \A q \in Proc : pc[q] \notin Running \cup {"updating"}
  BY <1>0, NobodyIsNoProcess DEF IInv, Transaction
<1>3. ran' = {mig[p]}
  BY <1>2 DEF Script
<1>4. TypeOK'
  BY <1>0, <1>1, <1>3, PoolRests DEF TypeOK, schema
<1>5. AppliedOnce'
  BY <1>0 DEF IInv, AppliedOnce, schema
<1>6. Progress'
  BY <1>0, <1>1 DEF IInv, Progress, Migrating, Opened_, Up, schema, Script
<1>7. Transaction'
  BY <1>0, <1>1, <1>2, <1>3 DEF Transaction, Running
<1>8. HandlingIsUp'
  BY <1>0, <1>1 DEF IInv, HandlingIsUp, pool, Proc, Script, Up
<1> QED BY <1>0, <1>4, <1>5, <1>6, <1>7, <1>8, PoolRests DEF IInv

LEMMA RecordStep ==
    ASSUME IInv, NEW p \in Proc, Record(p)
    PROVE  IInv'
<1>0. /\ TypeOK /\ "commit" \in Steps[p] /\ mig[p] \in 1 .. Migrations /\ Goto(p, "commit")
      /\ pc[p] = "record" /\ mig[p] \notin recorded
      /\ UNCHANGED <<schema, ran, writer, mig, pool, faults>>
  BY DEF IInv, TypeOK, Record, Steps, Proc, Opening, Progress, Migrating
<1>1. /\ pc' \in [Proc -> Steps["server"] \cup Steps["tool"]]
      /\ \A q \in Proc : pc'[q] \in Steps[q]
      /\ pc'[p] = "commit"
      /\ \A q \in Proc \ {p} : pc'[q] = pc[q]
  BY <1>0, PcStep
<1>2. /\ writer = p /\ ran = {mig[p]} /\ noted = {}
      /\ \A q \in Proc \ {p} : pc[q] \notin Running \cup {"updating"}
  BY <1>0 DEF IInv, Transaction, Running
<1>3. noted' = {mig[p]}
  BY <1>2 DEF Record
<1>4. TypeOK'
  BY <1>0, <1>1, <1>3, PoolRests DEF TypeOK, schema
<1>5. AppliedOnce'
  BY <1>0 DEF IInv, AppliedOnce, schema
<1>6. Progress'
  BY <1>0, <1>1 DEF IInv, Progress, Migrating, Opened_, Up, schema
<1>7. Transaction'
  BY <1>0, <1>1, <1>2, <1>3 DEF Transaction, Running, schema
<1>8. HandlingIsUp'
  BY <1>0, <1>1 DEF IInv, HandlingIsUp, pool, Proc, Up
<1> QED BY <1>0, <1>4, <1>5, <1>6, <1>7, <1>8, PoolRests DEF IInv

(* What is committed was not recorded, and everything before it was. *)
LEMMA CommitStep ==
    ASSUME IInv, NEW p \in Proc, Commit(p)
    PROVE  IInv'
<1> USE BoundsAssumption
<1>0. /\ TypeOK /\ "count" \in Steps[p] /\ mig[p] \in 1 .. Migrations
      /\ Goto(p, "count") /\ pc[p] = "commit"
  BY DEF IInv, TypeOK, Commit, Steps, Proc, Opening, Progress, Migrating
<1>1. /\ pc' \in [Proc -> Steps["server"] \cup Steps["tool"]]
      /\ \A q \in Proc : pc'[q] \in Steps[q]
      /\ pc'[p] = "count"
      /\ \A q \in Proc \ {p} : pc'[q] = pc[q]
  BY <1>0, PcStep
<1>2. /\ ran = {mig[p]} /\ noted = {mig[p]} /\ mig[p] \notin recorded
      /\ \A q \in Proc \ {p} : pc[q] \notin Running \cup {"updating"}
  BY <1>0 DEF IInv, Transaction, Running
<1>3. /\ recorded' = recorded \cup {mig[p]}
      /\ \A m \in 1 .. Migrations :
           applied'[m] = applied[m] + (IF m = mig[p] THEN 1 ELSE 0)
      /\ applied' \in [1 .. Migrations -> Nat]
  BY <1>0, <1>2 DEF Commit, TypeOK
<1>4. /\ mig'[p] = mig[p] + 1 /\ \A q \in Proc \ {p} : mig'[q] = mig[q]
      /\ mig' \in [Proc -> 1 .. Migrations + 1]
  BY <1>0 DEF Commit, TypeOK
<1>5. 1 .. mig[p] - 1 \subseteq recorded
  BY <1>0 DEF IInv, Progress, Migrating
<1>6. TypeOK'
  <2>1. UNCHANGED pool
    BY DEF Commit
  <2>2. /\ todo' \in [Worker -> Seq(Kind)]
        /\ conn' \in Worker \cup {Nobody}
        /\ rows' \in 0 .. MaxRows
    BY <2>1, PoolRests
  <2>3. /\ ledger' \in BOOLEAN /\ ran' = {} /\ noted' = {}
        /\ writer' \in Proc \cup {Nobody} /\ faults' \in 0 .. MaxFaults
        /\ recorded' \subseteq 1 .. Migrations
    BY <1>0, <1>3 DEF Commit, TypeOK
  <2> QED BY <1>1, <1>3, <1>4, <2>2, <2>3 DEF TypeOK
<1>7. AppliedOnce'
  <2> SUFFICES ASSUME NEW m \in 1 .. Migrations
               PROVE  /\ applied'[m] = IF m \in recorded' THEN 1 ELSE 0
                      /\ m \in recorded' => 1 .. m \subseteq recorded'
    BY DEF AppliedOnce
  <2>1. /\ applied[m] = IF m \in recorded THEN 1 ELSE 0
        /\ m \in recorded => 1 .. m \subseteq recorded
    BY DEF IInv, AppliedOnce
  <2>2. CASE m = mig[p]
    <3>1. 1 .. m \subseteq recorded'
      BY <1>0, <1>3, <1>5, <2>2
    <3> QED BY <1>2, <1>3, <2>1, <2>2, <3>1
  <2>3. CASE m # mig[p]
    BY <1>0, <1>3, <2>1, <2>3 DEF TypeOK
  <2> QED BY <2>2, <2>3
<1>8. Progress'
  <2> SUFFICES ASSUME NEW q \in Proc
               PROVE  /\ pc'[q] \in Migrating => 1 .. mig'[q] - 1 \subseteq recorded'
                      /\ pc'[q] \in Migrating \ {"count"} => mig'[q] <= Migrations
                      /\ pc'[q] \in Opened_ => recorded' = 1 .. Migrations
    BY DEF Progress
  <2>1. CASE q = p
    <3>1. 1 .. mig[p] \subseteq recorded'
      BY <1>0, <1>3, <1>5
    <3> QED BY <1>0, <1>1, <1>4, <2>1, <3>1 DEF Opened_, Up
  <2>2. CASE q # p
    BY <1>0, <1>1, <1>3, <1>4, <2>2 DEF IInv, Progress
  <2> QED BY <2>1, <2>2
<1>9. Transaction'
  <2>1. ran' = {} /\ noted' = {}
    BY DEF Commit
  <2> QED BY <1>1, <1>2, <2>1 DEF Transaction, Running
<1>10. HandlingIsUp'
  BY <1>0, <1>1 DEF IInv, HandlingIsUp, pool, Proc, Up, Commit
<1> QED BY <1>6, <1>7, <1>8, <1>9, <1>10, PoolRests DEF IInv, Commit

LEMMA OpenStep ==
    ASSUME IInv, NEW p \in Proc, Start(p) \/ Open(p) \/ OpenFails(p) \/ Crash(p)
    PROVE  IInv'
<1> USE BoundsAssumption
<1>1. TypeOK /\ Progress
  BY DEF IInv
<1>2. CASE Start(p)
  BY <1>1, <1>2, GotoStep
     DEF Start, schema, TypeOK, Steps, Proc, Opening, Migrating, Opened_, Up, Running
<1>3. CASE Ensure(p)
  <2>1. "count" \in Steps[p] /\ Goto(p, "count") /\ pc[p] = "ensure"
    BY <1>3 DEF Ensure, Proc, Steps, Opening
  <2>2. /\ pc' \in [Proc -> Steps["server"] \cup Steps["tool"]]
        /\ \A q \in Proc : pc'[q] \in Steps[q]
        /\ pc'[p] = "count"
        /\ \A q \in Proc \ {p} : pc'[q] = pc[q]
    BY <1>1, <2>1, PcStep
  <2>3. /\ UNCHANGED <<applied, recorded, ran, noted, writer, faults>> /\ UNCHANGED pool
        /\ ledger' \in BOOLEAN
        /\ mig' \in [Proc -> 1 .. Migrations + 1]
        /\ mig'[p] = 1 /\ \A q \in Proc \ {p} : mig'[q] = mig[q]
    BY <1>1, <1>3 DEF TypeOK, Ensure, tx
  <2>4. TypeOK'
    BY <1>1, <2>2, <2>3, PoolRests DEF TypeOK
  <2>5. AppliedOnce' /\ HandlingIsUp'
    BY <2>1, <2>2, <2>3 DEF IInv, AppliedOnce, HandlingIsUp, pool, Proc, Up
  <2>6. Progress'
    BY <1>1, <2>2, <2>3 DEF Progress, Migrating, Opened_, Up
  <2>7. Transaction'
    BY <2>1, <2>2, <2>3 DEF IInv, Transaction, Running
  <2> QED BY <2>3, <2>4, <2>5, <2>6, <2>7, PoolRests DEF IInv
<1>4. CASE Skip(p)
  <2>1. mig[p] \in 1 .. Migrations /\ mig' = [mig EXCEPT ![p] = mig[p] + 1]
    BY <1>1, <1>4 DEF Skip, NextFile, TypeOK
  <2>2. UNCHANGED <<schema, tx, writer, pc, faults>> /\ UNCHANGED pool /\ pc[p] = "count"
    BY <1>4 DEF Skip
  <2>3. TypeOK'
    BY <1>1, <2>1, <2>2, PoolRests DEF TypeOK, schema, tx
  <2>4. AppliedOnce' /\ HandlingIsUp'
    BY <2>2 DEF IInv, AppliedOnce, HandlingIsUp, pool, schema
  <2>5. Progress'
    BY <1>1, <1>4, <2>1 DEF Progress, TypeOK, Skip, schema, Migrating, Opened_, Up
  <2>6. Transaction'
    BY <1>1, <2>1, <2>2 DEF IInv, Transaction, Running, TypeOK, tx, schema
  <2> QED BY <2>2, <2>3, <2>4, <2>5, <2>6, PoolRests DEF IInv
<1>5. CASE Found(p)
  BY <1>1, <1>5, GotoStep
     DEF Found, schema, TypeOK, Steps, Proc, Opening, Migrating, Opened_, Up, Running
<1>6. CASE Script(p)
  BY <1>6, ScriptStep
<1>7. CASE Record(p)
  BY <1>7, RecordStep
<1>8. CASE Commit(p)
  BY <1>8, CommitStep
<1>9. CASE Opened(p)
  <2>0. /\ 1 .. mig[p] - 1 \subseteq recorded /\ recorded \subseteq 1 .. Migrations
        /\ mig[p] \in 1 .. Migrations + 1 /\ mig[p] > Migrations
    BY <1>1, <1>9 DEF Opened, Progress, Migrating, TypeOK
  <2>1. recorded = 1 .. Migrations
    <3>1. mig[p] - 1 = Migrations
      BY <2>0
    <3> QED BY <2>0, <3>1
  <2> QED BY <1>1, <1>9, <2>1, GotoStep
            DEF Opened, schema, TypeOK, Steps, Proc, Up, Migrating, Running
<1>10. CASE TableExists(p) \/ AlreadyRecorded(p) \/ OpenBusy(p)
  BY <1>1, <1>10, ExitStep, FailedIsAStep DEF TableExists, AlreadyRecorded, OpenBusy, TypeOK
<1>11. CASE OpenFails(p) \/ Crash(p)
  <2>1. Exit(p, Failed(p)) /\ faults < MaxFaults /\ faults' = faults + 1
    BY <1>11 DEF OpenFails, Crash, Fault
  <2>2. faults' \in 0 .. MaxFaults
    BY <1>1, <2>1 DEF TypeOK
  <2> QED BY <2>1, <2>2, ExitStep, FailedIsAStep
<1> QED BY <1>2, <1>3, <1>4, <1>5, <1>6, <1>7, <1>8, <1>9, <1>10, <1>11 DEF Open

LEMMA ResetStep ==
    ASSUME IInv, Reset
    PROVE  IInv'
<1>1. TypeOK /\ Progress /\ Transaction /\ "tool" \in Proc
  BY DEF IInv, Proc
<1>2. CASE ToolWrites
  <2>1. recorded = 1 .. Migrations
    BY <1>1, <1>2 DEF ToolWrites, Progress, Opened_
  <2> QED BY <1>1, <1>2, <2>1, NobodyIsNoProcess, GotoStep
            DEF ToolWrites, schema, TypeOK, Steps, Migrating, Opening, Running
<1>3. CASE ToolWrote
  <2>1. recorded = 1 .. Migrations /\ writer = "tool"
    BY <1>1, <1>3 DEF ToolWrote, Progress, Opened_, Transaction
  <2>2. PICK next \in {"update", "stopped"} : Goto("tool", next)
    BY <1>3 DEF ToolWrote
  <2> QED BY <1>1, <1>3, <2>1, <2>2, GotoStep
            DEF ToolWrote, schema, TypeOK, Steps, Migrating, Opening, Running
<1>4. CASE ToolBusy
  BY <1>1, <1>4, ExitStep DEF ToolBusy, TypeOK, Steps
<1> QED BY <1>2, <1>3, <1>4 DEF Reset

LEMMA ShutdownStep ==
    ASSUME IInv, Terminate \/ Drained \/ DrainTimesOut
    PROVE  IInv'
<1>1. TypeOK /\ Progress /\ "server" \in Proc
  BY DEF IInv, Proc
<1>2. CASE Terminate
  <2>1. recorded = 1 .. Migrations
    BY <1>1, <1>2 DEF Terminate, Progress, Opened_, Up
  <2> QED BY <1>1, <1>2, <2>1, GotoStep
            DEF Terminate, schema, TypeOK, Steps, Up, Migrating, Opening, Running
<1>3. CASE Drained
  BY <1>1, <1>3, ExitStep DEF Drained, TypeOK, Steps
<1>4. CASE DrainTimesOut
  BY <1>1, <1>4, ExitStep, FailedIsAStep DEF DrainTimesOut, TypeOK, Steps
<1> QED BY <1>2, <1>3, <1>4

-----------------------------------------------------------------------------
LEMMA Initially == Init => IInv
<1> SUFFICES ASSUME Init PROVE IInv
  OBVIOUS
<1> USE BoundsAssumption DEF Init
<1>1. /\ todo \in [Worker -> Seq(Kind)]
      /\ mig \in [Proc -> 1 .. Migrations + 1]
      /\ pc \in [Proc -> Steps["server"] \cup Steps["tool"]]
      /\ \A p \in Proc : pc[p] \in Steps[p]
  <2>1. <<>> \in Seq(Kind) /\ 1 \in 1 .. Migrations + 1
    OBVIOUS
  <2> QED BY <2>1 DEF Proc, Steps
<1>0. ledger \in BOOLEAN
  BY Zenon
<1>2. /\ applied \in [1 .. Migrations -> Nat]
      /\ recorded \subseteq 1 .. Migrations /\ ran \subseteq 1 .. Migrations
      /\ noted \subseteq 1 .. Migrations /\ writer \in Proc \cup {Nobody}
      /\ conn \in Worker \cup {Nobody} /\ rows \in 0 .. MaxRows /\ faults \in 0 .. MaxFaults
  OBVIOUS
<1> HIDE DEF Init
<1>4. TypeOK
  BY <1>0, <1>1, <1>2 DEF TypeOK
<1>3. Progress
  BY DEF Init, Progress, Migrating, Opened_, Up
<1>5. AppliedOnce
  BY DEF Init, AppliedOnce
<1>6. Transaction /\ HandlingIsUp
  BY DEF Init, Transaction, HandlingIsUp, Running
<1> QED BY <1>3, <1>4, <1>5, <1>6 DEF Init, IInv, HeldForUse

LEMMA Inductive == IInv /\ [Next]_vars => IInv'
<1> SUFFICES ASSUME IInv, [Next]_vars PROVE IInv'
  OBVIOUS
<1>1. CASE Next
  BY <1>1, OpenStep, ResetStep, HandleStep, ShutdownStep DEF Next
<1>2. CASE UNCHANGED vars
  <2> USE <1>2 DEF vars, schema, tx, pool
  <2>1. TypeOK' /\ AppliedOnce' /\ Progress'
    BY DEF IInv, TypeOK, AppliedOnce, Progress
  <2>2. Transaction' /\ HeldForUse' /\ HandlingIsUp'
    BY DEF IInv, Transaction, HeldForUse, Queries, Does, HandlingIsUp
  <2> QED BY <2>1, <2>2 DEF IInv
<1> QED BY <1>1, <1>2

LEMMA Invariant == Spec => []IInv
  BY Initially, Inductive, PTL DEF Spec

(* Every reachable state is well typed: no migration is recorded that does *)
(* not exist, and no handler goes past its script.                         *)
THEOREM TypeCorrect == Spec => []TypeOK
<1>1. IInv => TypeOK
  BY DEF IInv
<1> QED BY <1>1, Invariant, PTL

(* Migrations are applied in order and each once, those included whose     *)
(* script would run a second time without failing (store.go:67, :70).      *)
THEOREM MigrationsApplyOnce == Spec => []AppliedOnce
<1>1. IInv => AppliedOnce
  BY DEF IInv
<1> QED BY <1>1, Invariant, PTL

(* Whoever has opened the database finds all migrations (store.go:68).     *)
THEOREM OpenedFindsAll == Spec => []OpenedIsMigrated
<1>1. IInv => OpenedIsMigrated
  BY DEF IInv, Progress, AppliedOnce, OpenedIsMigrated, Opened_
<1> QED BY <1>1, Invariant, PTL

(* Nobody holds the connection while a client is slow (store.go:37).       *)
THEOREM StreamsNeverHold == Spec => []StreamsHoldNothing
<1>1. IInv => StreamsHoldNothing
  BY NobodyAssumption DEF IInv, HeldForUse, Queries, Does, StreamsHoldNothing
<1> QED BY <1>1, Invariant, PTL
=============================================================================
