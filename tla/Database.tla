------------------------------ MODULE Database ------------------------------
(***************************************************************************)
(* Opening and sharing the database: store.Open and migrate                *)
(* (src/internal/store/store.go) in two processes at once, the server and  *)
(* the reset-password command; the server's life from start to shutdown    *)
(* (src/internal/server/server.go, src/cmd/pypi-server/main.go); and its   *)
(* handlers, which run their statements over the one connection            *)
(* SetMaxOpenConns(1) leaves them.  Between processes SQLite's write lock  *)
(* decides, for which a statement waits five seconds (busy_timeout).       *)
(***************************************************************************)
EXTENDS Integers, Sequences

CONSTANTS Worker,    \* BOUND: how many requests are served at once
          Nobody,    \* no Worker and no process: nobody holds it
          Requests,  \* the kinds of requests clients make, of Handlers
          Migrations,\* how many files migrations/ holds
          Creating,  \* those that create a table, and so fail when run again
          MaxRows,   \* BOUND: how many rows a query returns
          MaxFaults  \* BOUND: how many statements fail and processes crash

Proc == {"server", "tool"}

(* What a handler does, as far as it needs the database or its client:     *)
(* "row" a query of one row, "write" an INSERT, UPDATE or DELETE, "rows" a *)
(* query whose rows it loops over, "client" reading the request's body or  *)
(* writing the answer, at the client's pace.                               *)
Kind == {"row", "write", "rows", "client"}
WithAuth == <<"row", "write">>
ListPackages == <<"rows", "rows">>
ListUserEntitlements == <<"rows", "rows">>  \* BOUND: one entitlement's version

Index == WithAuth \o ListPackages \o <<"client">>
Page == WithAuth \o <<"row", "row", "rows", "client">>
File == WithAuth \o <<"row", "row", "write", "client">>
Upload == WithAuth \o <<"client", "row", "row", "rows", "write", "write", "row",
                        "write", "row", "write", "client">>
Packages == <<"row">> \o ListPackages \o <<"rows", "client">>
SelfCheck == <<"client", "row">> \o ListUserEntitlements \o <<"client">>
Handlers == [index |-> Index, page |-> Page, file |-> File, upload |-> Upload,
             packages |-> Packages, selfcheck |-> SelfCheck]

ASSUME RequestsAssumption == Requests \subseteq DOMAIN Handlers
ASSUME NobodyAssumption == Nobody \notin Worker \cup Proc
ASSUME BoundsAssumption == Migrations \in Nat /\ MaxRows \in Nat /\ MaxFaults \in Nat
ASSUME CreatingAssumption == Creating \subseteq 1 .. Migrations

VARIABLES ledger,   \* whether the table schema_migrations exists
          applied,  \* applied[m] is how often script m has been committed
          recorded, \* the rows of schema_migrations
          ran,      \* the scripts the open transaction has run,
          noted,    \* and the rows it has inserted into schema_migrations
          writer,   \* the process that holds SQLite's write lock
          pc,       \* pc[p] is what process p does next
          mig,      \* mig[p] is the migration p has come to
          todo,     \* todo[w] is what w's handler has still to do
          conn,     \* the worker that holds the server's connection
          rows,     \* how many rows the query that holds it still returns
          faults    \* how often something has failed

schema == <<ledger, applied, recorded>>
tx == <<ran, noted>>
pool == <<todo, conn, rows>>
vars == <<schema, tx, writer, pc, mig, pool, faults>>

Opening == {"ensure", "count", "script", "record", "commit"}
Up == {"serving", "draining"}
Steps == [server |-> {"stopped", "failed"} \cup Opening \cup Up,
          tool |-> {"stopped"} \cup Opening \cup {"update", "updating"}]

TypeOK ==
    /\ ledger \in BOOLEAN
    /\ applied \in [1 .. Migrations -> Nat]
    /\ recorded \subseteq 1 .. Migrations
    /\ ran \subseteq 1 .. Migrations /\ noted \subseteq 1 .. Migrations
    /\ writer \in Proc \cup {Nobody}
    /\ pc \in [Proc -> Steps["server"] \cup Steps["tool"]]
    /\ \A p \in Proc : pc[p] \in Steps[p]
    /\ mig \in [Proc -> 1 .. Migrations + 1]
    /\ todo \in [Worker -> Seq(Kind)]
    /\ conn \in Worker \cup {Nobody}
    /\ rows \in 0 .. MaxRows
    /\ faults \in 0 .. MaxFaults

Init ==
    /\ ledger = FALSE /\ applied = [m \in 1 .. Migrations |-> 0] /\ recorded = {}
    /\ ran = {} /\ noted = {}
    /\ writer = Nobody
    /\ pc = [p \in Proc |-> "stopped"]
    /\ mig = [p \in Proc |-> 1]
    /\ todo = [w \in Worker |-> <<>>]
    /\ conn = Nobody /\ rows = 0
    /\ faults = 0

Goto(p, step) == pc' = [pc EXCEPT ![p] = step]
Handling == {w \in Worker : todo[w] # <<>>}

-----------------------------------------------------------------------------
(* Open and migrate.                                                       *)

Start(p) ==
    /\ pc[p] \in {"stopped", "failed"}
    /\ Goto(p, "ensure")
    /\ UNCHANGED <<schema, tx, writer, mig, pool, faults>>

(* CREATE TABLE IF NOT EXISTS schema_migrations writes only the first time. *)
Ensure(p) ==
    /\ pc[p] = "ensure" /\ (ledger \/ writer = Nobody)
    /\ ledger' = TRUE
    /\ mig' = [mig EXCEPT ![p] = 1]
    /\ Goto(p, "count")
    /\ UNCHANGED <<applied, recorded, tx, writer, pool, faults>>

(* Slip: the loop ends at the first file that is applied already. *)
NextFile_Breaks(p) == IF mig[p] \in recorded THEN Migrations + 1 ELSE mig[p]

(* Files that are recorded are skipped. *)
NextFile(p) == IF mig[p] \in recorded THEN mig[p] + 1 ELSE mig[p]

Skip(p) ==
    /\ pc[p] = "count" /\ mig[p] \in recorded
    /\ mig' = [mig EXCEPT ![p] = NextFile(p)]
    /\ UNCHANGED <<schema, tx, writer, pc, pool, faults>>

(* Slip: the loop runs once too often. *)
Found_PastEnd(p) ==
    /\ pc[p] = "count" /\ mig[p] <= Migrations + 1 /\ mig[p] \notin recorded
    /\ Goto(p, "script")
    /\ UNCHANGED <<schema, tx, writer, mig, pool, faults>>

Found(p) ==
    /\ pc[p] = "count" /\ mig[p] <= Migrations /\ mig[p] \notin recorded
    /\ Goto(p, "script")
    /\ UNCHANGED <<schema, tx, writer, mig, pool, faults>>

(* The transaction takes the write lock with the script's first statement. *)
Script(p) ==
    /\ pc[p] = "script" /\ writer = Nobody
    /\ mig[p] \in Creating => applied[mig[p]] = 0
    /\ writer' = p
    /\ ran' = ran \cup {mig[p]}
    /\ Goto(p, "record")
    /\ UNCHANGED <<schema, noted, mig, pool, faults>>

(* Slip: a row that is there already is passed over (INSERT OR IGNORE). *)
Record_OrIgnore(p) ==
    /\ pc[p] = "record"
    /\ noted' = noted \cup {mig[p]}
    /\ Goto(p, "commit")
    /\ UNCHANGED <<schema, ran, writer, mig, pool, faults>>

Record(p) ==
    /\ pc[p] = "record" /\ mig[p] \notin recorded
    /\ noted' = noted \cup {mig[p]}
    /\ Goto(p, "commit")
    /\ UNCHANGED <<schema, ran, writer, mig, pool, faults>>

Commit(p) ==
    /\ pc[p] = "commit"
    /\ applied' = [m \in 1 .. Migrations |-> applied[m] + (IF m \in ran THEN 1 ELSE 0)]
    /\ recorded' = recorded \cup noted
    /\ ran' = {} /\ noted' = {}
    /\ writer' = Nobody
    /\ mig' = [mig EXCEPT ![p] = @ + 1]
    /\ Goto(p, "count")
    /\ UNCHANGED <<ledger, pool, faults>>

Opened(p) ==
    /\ pc[p] = "count" /\ mig[p] > Migrations
    /\ Goto(p, IF p = "server" THEN "serving" ELSE "update")
    /\ UNCHANGED <<schema, tx, writer, mig, pool, faults>>

(* The process ends: its transaction is rolled back, its requests are cut. *)
Release(p) == writer' = IF writer = p THEN Nobody ELSE writer
Exit(p, step) ==
    /\ Goto(p, step)
    /\ Release(p)
    /\ IF writer = p THEN ran' = {} /\ noted' = {} ELSE UNCHANGED tx
    /\ IF p = "server"
       THEN todo' = [w \in Worker |-> <<>>] /\ conn' = Nobody /\ rows' = 0
       ELSE UNCHANGED pool
    /\ UNCHANGED <<schema, mig>>

(* Slip: a failed start exits with status 0. *)
Failed_Clean(p) == "stopped"

(* The server exits with status 1 and systemd starts it again (RestartSec); *)
(* the command prints its error.                                           *)
Failed(p) == IF p = "server" THEN "failed" ELSE "stopped"

(* The other process has run the script since the file was looked up: it   *)
(* finds its table there, or leaves it to the row's PRIMARY KEY to refuse. *)
TableExists(p) ==
    /\ pc[p] = "script" /\ writer = Nobody
    /\ mig[p] \in Creating /\ applied[mig[p]] > 0
    /\ Exit(p, Failed(p))
    /\ UNCHANGED faults

AlreadyRecorded(p) ==
    /\ pc[p] = "record" /\ mig[p] \in recorded
    /\ Exit(p, Failed(p))
    /\ UNCHANGED faults

(* SQLITE_BUSY: the other process has held the write lock for five seconds. *)
OpenBusy(p) ==
    /\ writer \notin {p, Nobody}
    /\ pc[p] = "script" \/ (pc[p] = "ensure" /\ ~ ledger)
    /\ Exit(p, Failed(p))
    /\ UNCHANGED faults

Fault == faults < MaxFaults /\ faults' = faults + 1

OpenFails(p) == pc[p] \in Opening /\ Fault /\ Exit(p, Failed(p))

-----------------------------------------------------------------------------
(* ResetAdminPassword beside the server: its UPDATE and DELETE.            *)

ToolWrites ==
    /\ pc["tool"] = "update" /\ writer = Nobody
    /\ writer' = "tool"
    /\ Goto("tool", "updating")
    /\ UNCHANGED <<schema, tx, mig, pool, faults>>

(* Between the two statements the lock is free again. *)
ToolWrote ==
    /\ pc["tool"] = "updating"
    /\ \E next \in {"update", "stopped"} : Goto("tool", next)
    /\ writer' = Nobody
    /\ UNCHANGED <<schema, tx, mig, pool, faults>>

ToolBusy ==
    /\ pc["tool"] = "update" /\ writer = "server"
    /\ Exit("tool", "stopped")
    /\ UNCHANGED faults

-----------------------------------------------------------------------------
(* Handlers over one connection.                                           *)

Server == <<schema, tx, writer, pc, mig, faults>>

Begin(w, r) ==
    /\ pc["server"] = "serving" /\ todo[w] = <<>>
    /\ todo' = [todo EXCEPT ![w] = Handlers[r]]
    /\ UNCHANGED <<Server, conn, rows>>

Does(w, kind) == todo[w] # <<>> /\ Head(todo[w]) = kind
Queries(w) == \E k \in {"row", "write", "rows"} : Does(w, k)

(* database/sql hands the connection to one of those that wait for it. *)
Take(w) ==
    /\ Queries(w) /\ conn = Nobody
    /\ conn' = w
    /\ rows' \in IF Does(w, "rows") THEN 0 .. MaxRows ELSE {0}
    /\ UNCHANGED <<Server, todo>>

(* Slip: the rows are closed when the function returns, not after the loop. *)
Done_RowsStayOpen(w) ==
    /\ todo' = [todo EXCEPT ![w] = Tail(@)]
    /\ conn' = IF Does(w, "rows") THEN conn ELSE Nobody

(* Scan closes a single row, Next the rows after the last of them. *)
Done(w) ==
    /\ todo' = [todo EXCEPT ![w] = Tail(@)]
    /\ conn' = Nobody

QueryRow(w) ==
    /\ conn = w /\ Does(w, "row")
    /\ Done(w)
    /\ UNCHANGED <<Server, rows>>

NextRow(w) ==
    /\ conn = w /\ Does(w, "rows") /\ rows > 0
    /\ rows' = rows - 1
    /\ UNCHANGED <<Server, todo, conn>>

LastRow(w) ==
    /\ conn = w /\ Does(w, "rows") /\ rows = 0
    /\ Done(w)
    /\ UNCHANGED <<Server, rows>>

Lock(w) ==
    /\ conn = w /\ Does(w, "write") /\ writer = Nobody
    /\ writer' = "server"
    /\ UNCHANGED <<schema, tx, pc, mig, pool, faults>>

Write(w) ==
    /\ conn = w /\ Does(w, "write") /\ writer = "server"
    /\ writer' = Nobody
    /\ Done(w)
    /\ UNCHANGED <<schema, tx, pc, mig, rows, faults>>

(* The statement has failed, its rows are closed: the handler returns, or  *)
(* goes on where it ignores the error (TouchToken, LatestVersion,          *)
(* LogDownload).                                                           *)
GiveUp(w) ==
    /\ \E rest \in {<<>>, Tail(todo[w])} : todo' = [todo EXCEPT ![w] = rest]
    /\ conn' = Nobody /\ rows' = 0
    /\ Release("server")
    /\ UNCHANGED <<schema, tx, pc, mig, faults>>

(* Slip: a write waits for the lock for as long as it takes. *)
Busy_WaitsOn(w) == FALSE

Busy(w) == conn = w /\ Does(w, "write") /\ writer = "tool" /\ GiveUp(w)

StatementFails(w) == conn = w /\ Queries(w) /\ GiveUp(w)

(* The handler is satisfied before it comes to its next statement (no such *)
(* project, no access, nothing to log), or its client has gone, which ends *)
(* a wait for the connection, too.                                         *)
ReturnEarly(w) ==
    /\ todo[w] # <<>> /\ conn # w
    /\ todo' = [todo EXCEPT ![w] = <<>>]
    /\ UNCHANGED <<Server, conn, rows>>

(* Nothing makes a client read or send: it may stall for ever. *)
Client(w) ==
    /\ Does(w, "client")
    /\ todo' = [todo EXCEPT ![w] = Tail(@)]
    /\ UNCHANGED <<Server, conn, rows>>

-----------------------------------------------------------------------------
(* Shutdown and crash.                                                     *)

Terminate ==
    /\ pc["server"] = "serving"
    /\ Goto("server", "draining")
    /\ UNCHANGED <<schema, tx, writer, mig, pool, faults>>

Drained ==
    /\ pc["server"] = "draining" /\ Handling = {}
    /\ Exit("server", "stopped")
    /\ UNCHANGED faults

(* Slip: Shutdown waits for the last request without a deadline. *)
DrainTimesOut_Never == FALSE

(* Requests that go on after ten seconds are cut, and the server exits     *)
(* with status 1: systemd starts it again, unless it has been told to stop *)
(* it.                                                                     *)
DrainTimesOut ==
    /\ pc["server"] = "draining" /\ Handling # {}
    /\ \E step \in {Failed("server"), "stopped"} : Exit("server", step)
    /\ UNCHANGED faults

Crash(p) == pc[p] \notin {"stopped", "failed"} /\ Fault /\ Exit(p, Failed(p))

-----------------------------------------------------------------------------
Open(p) == Ensure(p) \/ Skip(p) \/ Found(p) \/ Script(p) \/ Record(p) \/ Commit(p)
           \/ Opened(p) \/ TableExists(p) \/ AlreadyRecorded(p) \/ OpenBusy(p)
Reset == ToolWrites \/ ToolWrote \/ ToolBusy
Statement(w) == QueryRow(w) \/ NextRow(w) \/ LastRow(w) \/ Lock(w) \/ Write(w) \/ Busy(w)
Handle(w) == (\E r \in Requests : Begin(w, r)) \/ Take(w) \/ Statement(w)
             \/ StatementFails(w) \/ ReturnEarly(w) \/ Client(w)

Next ==
    \/ \E p \in Proc : Start(p) \/ Open(p) \/ OpenFails(p) \/ Crash(p)
    \/ Reset
    \/ \E w \in Worker : Handle(w)
    \/ Terminate \/ Drained \/ DrainTimesOut

Spec == Init /\ [][Next]_vars

(* A process that runs goes on, and systemd restarts a server that failed. *)
(* A handler that holds the connection goes on with its statement, and one *)
(* that keeps asking for it is handed it at last: nobody can be passed     *)
(* over for ever.  Nothing is assumed of clients, of operators (Start) and *)
(* of a reset command that has opened the database: it may hang.           *)
Restart == pc["server"] = "failed" /\ Start("server")
Fairness ==
    /\ WF_vars(Restart) /\ WF_vars(Open("server")) /\ WF_vars(Open("tool"))
    /\ WF_vars(Drained \/ DrainTimesOut)
    /\ \A w \in Worker : WF_vars(Statement(w)) /\ SF_vars(Take(w))

FairSpec == Spec /\ Fairness

-----------------------------------------------------------------------------
(* Properties.                                                             *)

(* Files are applied in the order of their names (store.go:67), each once: *)
(* two processes may look a file up before either records it               *)
(* (store.go:70), and run its script both; then the table that is there,   *)
(* or the PRIMARY KEY of schema_migrations, takes one of them back.        *)
AppliedOnce ==
    \A m \in 1 .. Migrations :
        /\ applied[m] = IF m \in recorded THEN 1 ELSE 0
        /\ m \in recorded => 1 .. m \subseteq recorded

(* Whoever has opened the database finds every migration applied, none     *)
(* twice, including those the other process was applying meanwhile         *)
(* (store.go:68).                                                          *)
OpenedIsMigrated ==
    \A p \in Proc : pc[p] \in Up \cup {"update", "updating"} =>
        \A m \in 1 .. Migrations : applied[m] = 1

(* "File streaming never holds a connection" (store.go:37), nor does the   *)
(* reading of a body or the writing of any other answer: a client that     *)
(* stalls keeps nobody from the database.                                  *)
StreamsHoldNothing == \A w \in Worker : Does(w, "client") => conn # w

(* A handler that needs the database gets on to its client, or ends,       *)
(* although it has to share one connection with every other handler and    *)
(* the write lock with a command that may hang: nobody waits for itself or *)
(* for a client.                                                           *)
NobodyStarves == \A w \in Worker : Queries(w) ~> ~ Queries(w)

(* A server that has been started comes up in the end: it                  *)
(* may lose the race for a migration or the wait for the lock, but the     *)
(* restart finds the file applied.                                         *)
ServerComesUp == pc["server"] \in Opening \cup {"failed"} ~> pc["server"] = "serving"

(* A server told to end does, whatever its clients do (server.go:212).     *)
ShutdownEnds == pc["server"] = "draining" ~> pc["server"] \notin Up
=============================================================================
