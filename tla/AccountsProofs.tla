--------------------------- MODULE AccountsProofs ---------------------------
(***************************************************************************)
(* Proofs about Accounts: there is one admin, it is never lost, and        *)
(* sessions and write tokens are its own, for any number of requests,      *)
(* failures and restarts.                                                  *)
(***************************************************************************)
EXTENDS AccountsInv, TLAPS

(* What AdminStays says of one step. *)
AdminsKept == \A u \in Admins : \E v \in users' : v.id = u.id /\ v.is_admin

-----------------------------------------------------------------------------
(* Statements: each keeps RowsInv and the admin.                           *)

LEMMA OrdinaryUserAdded ==
    ASSUME RowsInv, NEW name \in Username, InsertUser(name, NoPassword, FALSE)
    PROVE  RowsInv' /\ AdminsKept
<1>1. PICK id \in Id :
         /\ \A u \in users : u.id < id
         /\ users' = users \cup {[id |-> id, username |-> name,
                                  password |-> NoPassword, is_admin |-> FALSE]}
  BY DEF InsertUser, IsNextId
<1> DEFINE row == [id |-> id, username |-> name, password |-> NoPassword, is_admin |-> FALSE]
<1>2. row \in UserRow
  BY <1>1 DEF UserRow
<1>3. row.id = id /\ row.is_admin = FALSE /\ row.password = NoPassword
  OBVIOUS
<1>4. users' = users \cup {row} /\ UNCHANGED <<sessions, tokens>>
  BY <1>1 DEF InsertUser
<1> HIDE DEF row
<1>5. \A u \in users : u.id # row.id
  BY <1>1, <1>3, MaxIdAssumption DEF RowsInv, UserRow, Id
<1>6. \A u, v \in users' : u.id = v.id => u = v
  BY <1>4, <1>5 DEF RowsInv
<1>7. \A u \in users' : u.is_admin = (u.password # NoPassword)
  BY <1>3, <1>4 DEF RowsInv
<1>8. Admins' = Admins
  BY <1>3, <1>4 DEF Admins
<1>9. OneAdmin' /\ AdminsKept /\ OnlyAdminsAct'
  BY <1>4, <1>8 DEF RowsInv, OneAdmin, OnlyAdminsAct, AdminsKept, Admins
<1> QED
  BY <1>2, <1>4, <1>6, <1>7, <1>8, <1>9 DEF RowsInv

LEMMA FirstAdminAdded ==
    ASSUME RowsInv, Admins = {}, NEW p \in Password, InsertUser(AdminName, p, TRUE)
    PROVE  RowsInv' /\ AdminsKept /\ Admins' # {}
<1>1. PICK id \in Id :
         /\ \A u \in users : u.id < id
         /\ users' = users \cup {[id |-> id, username |-> AdminName,
                                  password |-> p, is_admin |-> TRUE]}
  BY DEF InsertUser, IsNextId
<1> DEFINE row == [id |-> id, username |-> AdminName, password |-> p, is_admin |-> TRUE]
<1>2. row \in UserRow
  BY AdminNameAssumption, <1>1 DEF UserRow
<1>3. row.id = id /\ row.is_admin = TRUE /\ row.password = p
  OBVIOUS
<1>4. users' = users \cup {row} /\ UNCHANGED <<sessions, tokens>>
  BY <1>1 DEF InsertUser
<1> HIDE DEF row
<1>5. \A u \in users : u.id # row.id
  BY <1>1, <1>3, MaxIdAssumption DEF RowsInv, UserRow, Id
<1>6. \A u, v \in users' : u.id = v.id => u = v
  BY <1>4, <1>5 DEF RowsInv
<1>7. \A u \in users' : u.is_admin = (u.password # NoPassword)
  BY <1>3, <1>4, NoPasswordAssumption DEF RowsInv
<1>8. Admins' = {row}
  BY <1>3, <1>4 DEF Admins
<1>9. OneAdmin' /\ AdminsKept /\ OnlyAdminsAct'
  BY <1>4, <1>8 DEF RowsInv, OneAdmin, OnlyAdminsAct, AdminsKept, Admins
<1> QED
  BY <1>2, <1>4, <1>6, <1>7, <1>8, <1>9 DEF RowsInv

LEMMA UserRenamed ==
    ASSUME RowsInv, NEW id, NEW name \in Username, RenameUser(id, name)
    PROVE  RowsInv' /\ AdminsKept
<1> DEFINE renamed(u) == IF u.id = id THEN [u EXCEPT !.username = name] ELSE u
<1>1. users' = {renamed(u) : u \in users} /\ UNCHANGED <<sessions, tokens>>
  BY DEF RenameUser
<1>2. \A u \in users : /\ renamed(u) \in UserRow
                       /\ renamed(u).id = u.id
                       /\ renamed(u).is_admin = u.is_admin
                       /\ renamed(u).password = u.password
  BY DEF RowsInv, UserRow
<1> HIDE DEF renamed
<1>3. users' \subseteq UserRow
  BY <1>1, <1>2
<1>4. \A u \in users' : u.is_admin = (u.password # NoPassword)
  BY <1>1, <1>2 DEF RowsInv
<1>5. \A u, v \in users' : u.id = v.id => u = v
  BY <1>1, <1>2 DEF RowsInv
<1>6. Admins' = {renamed(u) : u \in Admins}
  BY <1>1, <1>2 DEF Admins
<1>7. OneAdmin' /\ AdminsKept
  BY <1>1, <1>2, <1>6 DEF RowsInv, OneAdmin, AdminsKept, Admins
<1>8. OnlyAdminsAct'
  BY <1>1, <1>2, <1>6 DEF RowsInv, OnlyAdminsAct, Admins
<1> QED
  BY <1>1, <1>3, <1>4, <1>5, <1>7, <1>8 DEF RowsInv

LEMMA PasswordSet ==
    ASSUME RowsInv, NEW id, IsAdminId(id), NEW p \in Password, SetPassword(id, p)
    PROVE  RowsInv' /\ AdminsKept
<1> DEFINE changed(u) == IF u.id = id THEN [u EXCEPT !.password = p] ELSE u
<1>1. users' = {changed(u) : u \in users} /\ UNCHANGED <<sessions, tokens>>
  BY DEF SetPassword
<1>2. \A u \in users : /\ changed(u) \in UserRow
                       /\ changed(u).id = u.id
                       /\ changed(u).is_admin = u.is_admin
  BY DEF RowsInv, UserRow
<1>3. \A u \in users : u.id = id => u.is_admin
  BY DEF RowsInv, IsAdminId, Admins
<1>4. \A u \in users : changed(u).is_admin = (changed(u).password # NoPassword)
  <2> SUFFICES ASSUME NEW u \in users
               PROVE  changed(u).is_admin = (changed(u).password # NoPassword)
    OBVIOUS
  <2>1. CASE u.id = id
    BY <2>1, <1>2, <1>3, NoPasswordAssumption DEF RowsInv, UserRow
  <2>2. CASE u.id # id
    BY <2>2 DEF RowsInv
  <2> QED BY <2>1, <2>2
<1> HIDE DEF changed
<1>5. users' \subseteq UserRow
  BY <1>1, <1>2
<1>6. \A u \in users' : u.is_admin = (u.password # NoPassword)
  BY <1>1, <1>4
<1>7. \A u, v \in users' : u.id = v.id => u = v
  BY <1>1, <1>2 DEF RowsInv
<1>8. Admins' = {changed(u) : u \in Admins}
  BY <1>1, <1>2 DEF Admins
<1>9. OneAdmin' /\ AdminsKept
  BY <1>1, <1>2, <1>8 DEF RowsInv, OneAdmin, AdminsKept, Admins
<1>10. OnlyAdminsAct'
  BY <1>1, <1>2, <1>8 DEF RowsInv, OnlyAdminsAct, Admins
<1> QED
  BY <1>1, <1>5, <1>6, <1>7, <1>9, <1>10 DEF RowsInv

LEMMA OtherRemoved ==
    ASSUME RowsInv, NEW id, NEW a \in Admins, a.id # id, RemoveUser(id)
    PROVE  RowsInv' /\ AdminsKept
<1>1. \A u \in Admins : u.id # id
  BY DEF RowsInv, OneAdmin
<1>2. Admins' = Admins
  BY <1>1 DEF RemoveUser, Admins
<1> QED
  BY <1>1, <1>2 DEF RowsInv, RemoveUser, OneAdmin, OnlyAdminsAct, AdminsKept, Admins

LEMMA SessionAdded ==
    ASSUME RowsInv, NEW id \in Id, IsAdminId(id), NEW p \in Password, InsertSession(id, p)
    PROVE  RowsInv' /\ AdminsKept
<1>1. PICK c \in Session :
         sessions' = sessions \cup {[id |-> c, user_id |-> id, password |-> p]}
  BY DEF InsertSession
<1>2. sessions' \subseteq SessionRow
  BY <1>1 DEF RowsInv, SessionRow
<1>3. UNCHANGED <<users, tokens>>
  BY DEF InsertSession
<1>4. \A s \in sessions' : \E u \in Admins : u.id = s.user_id
  BY <1>1 DEF RowsInv, OnlyAdminsAct, IsAdminId
<1> QED
  BY <1>2, <1>3, <1>4 DEF RowsInv, OneAdmin, OnlyAdminsAct, AdminsKept, Admins

LEMMA SessionsEnded ==
    ASSUME RowsInv, sessions' \subseteq sessions, UNCHANGED <<users, tokens>>
    PROVE  RowsInv' /\ AdminsKept
  BY DEF RowsInv, OneAdmin, OnlyAdminsAct, AdminsKept, Admins

LEMMA TokenAdded ==
    ASSUME RowsInv, NEW id \in Id, NEW scope \in {"read", "write"},
           scope = "write" => IsAdminId(id), InsertToken(id, scope)
    PROVE  RowsInv' /\ AdminsKept
<1>1. PICK t \in Id :
         tokens' = tokens \cup
             {[id |-> t, user_id |-> id, scope |-> scope, revoked |-> FALSE]}
  BY DEF InsertToken
<1> DEFINE row == [id |-> t, user_id |-> id, scope |-> scope, revoked |-> FALSE]
<1>2. tokens' \subseteq TokenRow
  <2>1. row \in TokenRow
    BY DEF TokenRow
  <2> HIDE DEF row
  <2>2. tokens' = tokens \cup {row}
    BY <1>1 DEF row
  <2> QED BY <2>1, <2>2 DEF RowsInv
<1>3. UNCHANGED <<users, sessions>>
  BY DEF InsertToken
<1>4. \A k \in tokens' : k.scope = "write" => \E u \in Admins : u.id = k.user_id
  BY <1>1 DEF RowsInv, OnlyAdminsAct, IsAdminId
<1> QED
  BY <1>2, <1>3, <1>4 DEF RowsInv, OneAdmin, OnlyAdminsAct, AdminsKept, Admins

LEMMA TokenRevoked ==
    ASSUME RowsInv, NEW id, MarkRevoked(id)
    PROVE  RowsInv' /\ AdminsKept
<1> DEFINE revoked(t) == IF t.id = id THEN [t EXCEPT !.revoked = TRUE] ELSE t
<1>1. tokens' = {revoked(t) : t \in tokens} /\ UNCHANGED <<users, sessions>>
  BY DEF MarkRevoked
<1>2. \A t \in tokens : /\ revoked(t) \in TokenRow
                        /\ revoked(t).user_id = t.user_id
                        /\ revoked(t).scope = t.scope
  BY DEF RowsInv, TokenRow
<1> HIDE DEF revoked
<1>3. tokens' \subseteq TokenRow
  BY <1>1, <1>2
<1>4. \A t \in tokens' : t.scope = "write" => \E u \in Admins : u.id = t.user_id
  BY <1>1, <1>2 DEF RowsInv, OnlyAdminsAct
<1> QED
  BY <1>1, <1>3, <1>4 DEF RowsInv, OneAdmin, OnlyAdminsAct, AdminsKept, Admins

LEMMA RowsUnchanged ==
    ASSUME RowsInv, UNCHANGED rows
    PROVE  RowsInv' /\ AdminsKept
  BY DEF RowsInv, rows, OneAdmin, OnlyAdminsAct, AdminsKept, Admins

-----------------------------------------------------------------------------
(* What the other actors rely on survives as long as the admin does.       *)

LEMMA AdminIdKept ==
    ASSUME NEW id, AdminsKept, IsAdminId(id)
    PROVE  IsAdminId(id)'
  BY DEF AdminsKept, IsAdminId, Admins

LEMMA Bystander ==
    ASSUME NEW v \in Worker, WorkerInv(v), AdminsKept,
           pc[v] # "idle" => server' = server,
           pc'[v] = pc[v], job'[v] = job[v], me'[v] = me[v], subject'[v] = subject[v]
    PROVE  WorkerInv(v)'
<1>1. JobFits(v)' /\ ServesWhenUp(v)' /\ SparesCaller(v)'
  BY DEF WorkerInv, JobFits, ServesWhenUp, SparesCaller
<1>2. CallerIsAdmin(v)'
  <2>1. IsAdminId(me[v].id) => IsAdminId(me[v].id)'
    BY DEF AdminsKept, IsAdminId, Admins
  <2> QED BY <2>1 DEF WorkerInv, CallerIsAdmin, IsAdminId
<1>3. WritesForAdmin(v)'
  <2>1. IsAdminId(subject[v].id) => IsAdminId(subject[v].id)'
    BY DEF AdminsKept, IsAdminId, Admins
  <2> QED BY <2>1 DEF WorkerInv, WritesForAdmin, IsAdminId
<1> QED BY <1>1, <1>2, <1>3 DEF WorkerInv

LEMMA RequestFinished ==
    ASSUME RequestsInv, NEW w \in Worker, Finish(w), AdminsKept, server' = server
    PROVE  RequestsInv'
<1>1. /\ pc' \in [Worker -> Step]
      /\ job' \in [Worker -> Job \cup {NoJob}]
      /\ me' \in [Worker -> Caller \cup {NoUser}]
      /\ subject' \in [Worker -> UserRow \cup {NoUser}]
  BY DEF RequestsInv, Finish, Step
<1>2. WorkerInv(w)'
  BY DEF RequestsInv, Finish, WorkerInv, JobFits, ServesWhenUp, CallerIsAdmin, SparesCaller,
         WritesForAdmin, AdminStep
<1>3. ASSUME NEW v \in Worker \ {w} PROVE WorkerInv(v)'
  BY Bystander DEF RequestsInv, Finish
<1> QED BY <1>1, <1>2, <1>3 DEF RequestsInv

LEMMA RequestGoesOn ==
    ASSUME RequestsInv, NEW w \in Worker, NEW step \in Step, Goto(w, step),
           AdminsKept, server' = server,
           NEW m, m \in Caller \cup {NoUser}, me' = [me EXCEPT ![w] = m],
           NEW s, s \in UserRow \cup {NoUser}, subject' = [subject EXCEPT ![w] = s],
           WorkerInv(w)'
    PROVE  RequestsInv'
<1>1. /\ pc' \in [Worker -> Step]
      /\ job' \in [Worker -> Job \cup {NoJob}]
      /\ me' \in [Worker -> Caller \cup {NoUser}]
      /\ subject' \in [Worker -> UserRow \cup {NoUser}]
  BY DEF RequestsInv, Goto
<1>2. ASSUME NEW v \in Worker \ {w} PROVE WorkerInv(v)'
  BY Bystander DEF RequestsInv, Goto
<1> QED BY <1>1, <1>2 DEF RequestsInv

LEMMA RequestsUnchanged ==
    ASSUME RequestsInv, UNCHANGED request, AdminsKept,
           server' = server \/ \A v \in Worker : pc[v] = "idle"
    PROVE  RequestsInv'
<1>1. ASSUME NEW v \in Worker PROVE WorkerInv(v)'
  BY Bystander DEF RequestsInv, request
<1> QED BY <1>1 DEF RequestsInv, request

LEMMA ResetUnchanged ==
    ASSUME ResetInv, UNCHANGED reset, AdminsKept
    PROVE  ResetInv'
<1>1. IsAdminId(reset.id) => IsAdminId(reset.id)'
  BY DEF AdminsKept, IsAdminId, Admins
<1> QED BY <1>1 DEF ResetInv, IsAdminId

LEMMA ServerUnchanged ==
    ASSUME RowsInv, ServerInv, UNCHANGED <<server, initial>>, told' \subseteq Password,
           server = "create_admin" => Admins' = {}
    PROVE  ServerInv'
  BY DEF ServerInv

-----------------------------------------------------------------------------
(* Handlers.                                                               *)

LEMMA HandlerStep ==
    ASSUME IInv, NEW w \in Worker, pc[w] # "idle", RowsInv', AdminsKept,
           UNCHANGED processes, told' \subseteq Password, RequestsInv'
    PROVE  IInv' /\ AdminsKept
<1>1. server = "serving"
  BY DEF IInv, RequestsInv, WorkerInv, ServesWhenUp
<1>2. ServerInv'
  BY <1>1 DEF IInv, ServerInv, processes
<1>3. ResetInv'
  BY ResetUnchanged DEF IInv, processes
<1> QED BY <1>2, <1>3 DEF IInv

(* A handler that returns, whatever it has done to the rows. *)
LEMMA HandlerReturns ==
    ASSUME IInv, NEW w \in Worker, pc[w] # "idle", Finish(w), UNCHANGED processes,
           RowsInv' /\ AdminsKept, told' \subseteq Password
    PROVE  IInv' /\ AdminsKept
<1>1. RequestsInv'
  BY RequestFinished DEF IInv, processes
<1> QED BY <1>1, HandlerStep

LEMMA RowsRead ==
    ASSUME IInv, UNCHANGED <<rows, processes, told>>
    PROVE  RowsInv' /\ AdminsKept /\ told' \subseteq Password
  BY RowsUnchanged DEF IInv, ServerInv, rows

LEMMA CallerStays ==
    ASSUME IInv, NEW w \in Worker, pc[w] \in AdminStep, AdminsKept, me' = me
    PROVE  IsAdminId(me[w].id)'
<1>1. IsAdminId(me[w].id)
  BY DEF IInv, RequestsInv, WorkerInv, CallerIsAdmin
<1>2. IsAdminId(me[w].id) => IsAdminId(me[w].id)'
  BY DEF AdminsKept, IsAdminId, Admins
<1> QED BY <1>1, <1>2

LEMMA JobTypes ==
    ASSUME NEW j \in Job
    PROVE  /\ j.op = "login" => j.username \in Username /\ j.password \in Password
           /\ j.op = "change_password" => j.new \in Password
           /\ j.op \in {"create_user", "update_user"} => j.username \in Username
           /\ j.op = "create_token" => j.scope \in {"read", "write"}
           /\ j.op \in Operations \ {"reset"}
  BY DEF Job, Login, Logout, ChangePassword, CreateUser, UpdateUser, ById, CreateToken,
         Operations

LEMMA FindUserStep ==
    ASSUME IInv, NEW w \in Worker, FindUser(w)
    PROVE  IInv' /\ AdminsKept
<1>1. pc[w] = "find_user" /\ job[w].op = "login"
  BY DEF FindUser, At, IInv, RequestsInv, WorkerInv, JobFits
<1>2. RowsInv' /\ AdminsKept /\ told' \subseteq Password /\ UNCHANGED processes
  BY RowsRead DEF FindUser
<1>3. CASE Finish(w)
  BY <1>1, <1>2, <1>3, HandlerReturns
<1>4. CASE ~ Finish(w)
  <2>1. PICK u \in users :
           /\ u.is_admin
           /\ me' = [me EXCEPT ![w] = [id |-> u.id, password |-> u.password]]
           /\ Goto(w, "insert_session")
           /\ UNCHANGED subject
    BY <1>4 DEF FindUser
  <2> DEFINE m == [id |-> u.id, password |-> u.password]
  <2>2. m \in Caller
    BY <2>1 DEF IInv, RowsInv, UserRow, Caller
  <2>3. WorkerInv(w)'
    <3>1. IsAdminId(u.id)'
      BY <1>2, <2>1, AdminIdKept DEF IsAdminId, Admins
    <3>2. /\ pc'[w] = "insert_session" /\ job'[w] = job[w] /\ me'[w].id = u.id
          /\ server' = server
      BY <1>2, <2>1 DEF Goto, IInv, RequestsInv, processes
    <3> QED
      BY <1>1, <3>1, <3>2
      DEF IInv, RequestsInv, WorkerInv, JobFits, ServesWhenUp, CallerIsAdmin, SparesCaller,
          WritesForAdmin, AdminStep, IsAdminId
  <2>4. subject' = [subject EXCEPT ![w] = subject[w]]
    BY <2>1 DEF IInv, RequestsInv
  <2>5. RequestsInv'
    BY <1>2, <2>1, <2>2, <2>3, <2>4, RequestGoesOn DEF IInv, RequestsInv, Step, processes
  <2> QED BY <1>1, <1>2, <2>5, HandlerStep
<1> QED BY <1>3, <1>4

LEMMA AuthorizeStep ==
    ASSUME IInv, NEW w \in Worker, Authorize(w)
    PROVE  IInv' /\ AdminsKept
<1>1. /\ pc[w] = "authorize" /\ job[w] \in Job
      /\ job[w].op \notin {"login", "logout"}
  BY DEF Authorize, At, IInv, RequestsInv, WorkerInv, JobFits
<1>2. RowsInv' /\ AdminsKept /\ told' \subseteq Password /\ UNCHANGED processes
  BY RowsRead DEF Authorize
<1>3. CASE Finish(w)
  BY <1>1, <1>2, <1>3, HandlerReturns
<1>4. CASE ~ Finish(w)
  <2> DEFINE step == AfterAuthorize(job[w].op)
  <2>1. PICK u \in users :
           /\ u.is_admin
           /\ me' = [me EXCEPT ![w] = [id |-> u.id, password |-> u.password]]
           /\ Goto(w, step)
           /\ UNCHANGED subject
    BY <1>4 DEF Authorize
  <2> DEFINE m == [id |-> u.id, password |-> u.password]
  <2>2. m \in Caller
    BY <2>1 DEF IInv, RowsInv, UserRow, Caller
  <2>3. /\ step \in {"set_password", "check_name", "find_token", "lookup_user"}
        /\ step = "set_password" => job[w].op = "change_password"
        /\ step = "check_name" => job[w].op \in {"create_user", "update_user"}
        /\ step = "lookup_user" => job[w].op \in {"update_user", "delete_user", "create_token"}
    BY <1>1, JobTypes DEF AfterAuthorize, Operations
  <2>4. WorkerInv(w)'
    <3>1. IsAdminId(u.id)'
      BY <1>2, <2>1, AdminIdKept DEF IsAdminId, Admins
    <3>2. /\ pc'[w] = step /\ job'[w] = job[w] /\ me'[w].id = u.id
          /\ server' = server
      BY <1>2, <2>1 DEF Goto, IInv, RequestsInv, processes
    <3> QED
      BY <1>1, <2>3, <3>1, <3>2
      DEF IInv, RequestsInv, WorkerInv, JobFits, ServesWhenUp, CallerIsAdmin, SparesCaller,
          WritesForAdmin, AdminStep, IsAdminId
  <2>5. subject' = [subject EXCEPT ![w] = subject[w]]
    BY <2>1 DEF IInv, RequestsInv
  <2>6. RequestsInv'
    BY <1>2, <2>1, <2>2, <2>3, <2>4, <2>5, RequestGoesOn
    DEF IInv, RequestsInv, Step, AdminStep, processes
  <2> QED BY <1>1, <1>2, <2>6, HandlerStep
<1> QED BY <1>3, <1>4

LEMMA CheckNameStep ==
    ASSUME IInv, NEW w \in Worker, CheckName(w)
    PROVE  IInv' /\ AdminsKept
<1>1. pc[w] = "check_name" /\ job[w].op \in {"create_user", "update_user"}
  BY DEF CheckName, At, IInv, RequestsInv, WorkerInv, JobFits
<1>2. RowsInv' /\ AdminsKept /\ told' \subseteq Password /\ UNCHANGED processes
  BY RowsRead DEF CheckName
<1>3. CASE Finish(w)
  BY <1>1, <1>2, <1>3, HandlerReturns
<1>4. CASE ~ Finish(w)
  <2> DEFINE step == IF job[w].op = "create_user" THEN "insert_user" ELSE "update_user"
  <2>1. Goto(w, step) /\ UNCHANGED <<me, subject>>
    BY <1>4 DEF CheckName
  <2>2. WorkerInv(w)'
    <3>1. IsAdminId(me[w].id)'
      BY <1>1, <1>2, <2>1, CallerStays DEF AdminStep
    <3>2. pc'[w] = step /\ job'[w] = job[w] /\ me' = me /\ server' = server
      BY <1>2, <2>1 DEF Goto, IInv, RequestsInv, processes
    <3> QED
      BY <1>1, <3>1, <3>2
      DEF IInv, RequestsInv, WorkerInv, JobFits, ServesWhenUp, CallerIsAdmin, SparesCaller,
          WritesForAdmin, AdminStep, IsAdminId
  <2>3. /\ me' = [me EXCEPT ![w] = me[w]]
        /\ subject' = [subject EXCEPT ![w] = subject[w]]
    BY <2>1 DEF IInv, RequestsInv
  <2>4. RequestsInv'
    BY <1>2, <2>1, <2>2, <2>3, RequestGoesOn DEF IInv, RequestsInv, Step, AdminStep, processes
  <2> QED BY <1>1, <1>2, <2>4, HandlerStep
<1> QED BY <1>3, <1>4

(* Where the two refusals of the handlers count: what follows a lookup     *)
(* spares the caller, and mints write tokens for admins.                   *)
LEMMA LookupUserStep ==
    ASSUME IInv, NEW w \in Worker, LookupUser(w)
    PROVE  IInv' /\ AdminsKept
<1>1. /\ pc[w] = "lookup_user"
      /\ job[w].op \in {"update_user", "delete_user", "create_token"}
  BY DEF LookupUser, At, IInv, RequestsInv, WorkerInv, JobFits
<1>2. RowsInv' /\ AdminsKept /\ told' \subseteq Password /\ UNCHANGED processes
  BY RowsRead DEF LookupUser
<1>3. CASE Finish(w)
  BY <1>1, <1>2, <1>3, HandlerReturns
<1>4. CASE ~ Finish(w)
  <2> DEFINE step == AfterLookup(job[w].op)
  <2>1. PICK u \in users :
           /\ ~ Refused(w, u)
           /\ subject' = [subject EXCEPT ![w] = u]
           /\ Goto(w, step)
           /\ UNCHANGED me
    BY <1>4 DEF LookupUser
  <2>2. u \in UserRow
    BY DEF IInv, RowsInv
  <2>3. /\ step \in {"check_name", "delete_user", "insert_token"}
        /\ step = "check_name" => job[w].op = "update_user"
        /\ step = "delete_user" => job[w].op = "delete_user"
        /\ step = "insert_token" => job[w].op = "create_token"
    BY <1>1 DEF AfterLookup
  <2>4. WorkerInv(w)'
    <3>1. IsAdminId(me[w].id)'
      BY <1>1, <1>2, <2>1, CallerStays DEF AdminStep
    <3>2. /\ pc'[w] = step /\ job'[w] = job[w] /\ me' = me /\ subject'[w] = u
          /\ server' = server
      BY <1>2, <2>1 DEF Goto, IInv, RequestsInv, processes
    <3>3. step = "delete_user" => u.id # me[w].id
      BY <2>1, <2>3 DEF Refused
    <3>4. step = "insert_token" /\ job[w].scope = "write" => IsAdminId(u.id)'
      <4>1. IsAdminId(u.id) => IsAdminId(u.id)'
        BY <1>2, AdminIdKept
      <4> QED BY <2>1, <2>3, <4>1 DEF Refused, IsAdminId, Admins
    <3>5. JobFits(w)' /\ ServesWhenUp(w)'
      BY <1>1, <2>3, <3>2 DEF IInv, RequestsInv, WorkerInv, JobFits, ServesWhenUp
    <3>6. CallerIsAdmin(w)' /\ SparesCaller(w)' /\ WritesForAdmin(w)'
      BY <3>1, <3>2, <3>3, <3>4 DEF CallerIsAdmin, SparesCaller, WritesForAdmin, IsAdminId
    <3> QED BY <3>5, <3>6 DEF WorkerInv
  <2>5. me' = [me EXCEPT ![w] = me[w]]
    BY <2>1 DEF IInv, RequestsInv
  <2>6. RequestsInv'
    BY <1>2, <2>1, <2>2, <2>3, <2>4, <2>5, RequestGoesOn
    DEF IInv, RequestsInv, Step, AdminStep, processes
  <2> QED BY <1>1, <1>2, <2>6, HandlerStep
<1> QED BY <1>3, <1>4

LEMMA FindTokenStep ==
    ASSUME IInv, NEW w \in Worker, FindToken(w)
    PROVE  IInv' /\ AdminsKept
<1>1. pc[w] = "find_token"
  BY DEF FindToken, At
<1>2. RowsInv' /\ AdminsKept /\ told' \subseteq Password /\ UNCHANGED processes
  BY RowsRead DEF FindToken
<1>3. CASE Finish(w)
  BY <1>1, <1>2, <1>3, HandlerReturns
<1>4. CASE ~ Finish(w)
  <2>1. Goto(w, "revoke_token") /\ UNCHANGED <<me, subject>>
    BY <1>4 DEF FindToken
  <2>2. WorkerInv(w)'
    <3>1. IsAdminId(me[w].id)'
      BY <1>1, <1>2, <2>1, CallerStays DEF AdminStep
    <3>2. pc'[w] = "revoke_token" /\ job'[w] = job[w] /\ me' = me /\ server' = server
      BY <1>2, <2>1 DEF Goto, IInv, RequestsInv, processes
    <3> QED
      BY <1>1, <3>1, <3>2
      DEF IInv, RequestsInv, WorkerInv, JobFits, ServesWhenUp, CallerIsAdmin, SparesCaller,
          WritesForAdmin, AdminStep, IsAdminId
  <2>3. /\ me' = [me EXCEPT ![w] = me[w]]
        /\ subject' = [subject EXCEPT ![w] = subject[w]]
    BY <2>1 DEF IInv, RequestsInv
  <2>4. RequestsInv'
    BY <1>2, <2>1, <2>2, <2>3, RequestGoesOn DEF IInv, RequestsInv, Step, AdminStep, processes
  <2> QED BY <1>1, <1>2, <2>4, HandlerStep
<1> QED BY <1>3, <1>4

LEMMA CreateSessionStep ==
    ASSUME IInv, NEW w \in Worker, CreateSession(w)
    PROVE  IInv' /\ AdminsKept
<1>1. pc[w] = "insert_session" /\ job[w] \in Job /\ job[w].op = "login"
  BY DEF CreateSession, At, IInv, RequestsInv, WorkerInv, JobFits
<1>2. IsAdminId(me[w].id) /\ job[w].password \in Password
  BY <1>1, JobTypes DEF IInv, RequestsInv, WorkerInv, CallerIsAdmin
<1>3. me[w].id \in Id
  BY <1>2 DEF IInv, RowsInv, IsAdminId, Admins, UserRow
<1>4. RowsInv' /\ AdminsKept
  <2>1. CASE InsertSession(me[w].id, job[w].password)
    BY <1>2, <1>3, <2>1, SessionAdded DEF IInv
  <2>2. CASE UNCHANGED rows
    BY <2>2, RowsUnchanged DEF IInv
  <2> QED BY <2>1, <2>2 DEF CreateSession
<1> QED BY <1>1, <1>4, HandlerReturns DEF CreateSession, IInv, ServerInv

LEMMA DeleteSessionStep ==
    ASSUME IInv, NEW w \in Worker, DeleteSession(w)
    PROVE  IInv' /\ AdminsKept
<1>1. pc[w] = "delete_session"
  BY DEF DeleteSession, At
<1>2. RowsInv' /\ AdminsKept
  BY SessionsEnded DEF DeleteSession, EndSession, IInv
<1> QED BY <1>1, <1>2, HandlerReturns DEF DeleteSession, IInv, ServerInv

LEMMA ChangeOwnPasswordStep ==
    ASSUME IInv, NEW w \in Worker, ChangeOwnPassword(w)
    PROVE  IInv' /\ AdminsKept
<1>1. /\ pc[w] = "set_password" /\ job[w] \in Job /\ job[w].op = "change_password"
      /\ IsAdminId(me[w].id)
  BY DEF ChangeOwnPassword, At, IInv, RequestsInv, WorkerInv, JobFits, CallerIsAdmin, AdminStep
<1>2. job[w].new \in Password
  BY <1>1, JobTypes
<1>3. RowsInv' /\ AdminsKept /\ told' \subseteq Password
  <2>1. CASE UNCHANGED <<rows, told>>
    BY <2>1, RowsUnchanged DEF IInv, ServerInv
  <2>2. CASE SetPassword(me[w].id, job[w].new) /\ told' = told \cup {job[w].new}
    BY <1>1, <1>2, <2>2, PasswordSet DEF IInv, ServerInv
  <2> QED BY <2>1, <2>2 DEF ChangeOwnPassword
<1> QED BY <1>1, <1>3, HandlerReturns DEF ChangeOwnPassword

LEMMA CreateUserRowStep ==
    ASSUME IInv, NEW w \in Worker, CreateUserRow(w)
    PROVE  IInv' /\ AdminsKept
<1>1. pc[w] = "insert_user" /\ job[w] \in Job /\ job[w].op = "create_user"
  BY DEF CreateUserRow, At, IInv, RequestsInv, WorkerInv, JobFits
<1>2. RowsInv' /\ AdminsKept
  <2>1. CASE InsertUser(job[w].username, NoPassword, FALSE)
    BY <1>1, <2>1, JobTypes, OrdinaryUserAdded DEF IInv
  <2>2. CASE UNCHANGED rows
    BY <2>2, RowsUnchanged DEF IInv
  <2> QED BY <2>1, <2>2 DEF CreateUserRow
<1> QED BY <1>1, <1>2, HandlerReturns DEF CreateUserRow, IInv, ServerInv

LEMMA UpdateUserRowStep ==
    ASSUME IInv, NEW w \in Worker, UpdateUserRow(w)
    PROVE  IInv' /\ AdminsKept
<1>1. pc[w] = "update_user" /\ job[w] \in Job /\ job[w].op = "update_user"
  BY DEF UpdateUserRow, At, IInv, RequestsInv, WorkerInv, JobFits
<1>2. RowsInv' /\ AdminsKept
  <2>1. CASE RenameUser(subject[w].id, job[w].username)
    BY <1>1, <2>1, JobTypes, UserRenamed DEF IInv
  <2>2. CASE UNCHANGED rows
    BY <2>2, RowsUnchanged DEF IInv
  <2> QED BY <2>1, <2>2 DEF UpdateUserRow
<1> QED BY <1>1, <1>2, HandlerReturns DEF UpdateUserRow, IInv, ServerInv

LEMMA DeleteUserRowStep ==
    ASSUME IInv, NEW w \in Worker, DeleteUserRow(w)
    PROVE  IInv' /\ AdminsKept
<1>1. pc[w] = "delete_user" /\ IsAdminId(me[w].id) /\ subject[w].id # me[w].id
  BY DEF DeleteUserRow, At, IInv, RequestsInv, WorkerInv, CallerIsAdmin, SparesCaller, AdminStep
<1>2. PICK a \in Admins : a.id # subject[w].id
  BY <1>1 DEF IsAdminId
<1>3. RowsInv' /\ AdminsKept
  BY <1>2, OtherRemoved DEF DeleteUserRow, IInv
<1> QED BY <1>1, <1>3, HandlerReturns DEF DeleteUserRow, IInv, ServerInv

LEMMA CreateTokenRowStep ==
    ASSUME IInv, NEW w \in Worker, CreateTokenRow(w)
    PROVE  IInv' /\ AdminsKept
<1>1. /\ pc[w] = "insert_token" /\ job[w] \in Job /\ job[w].op = "create_token"
      /\ job[w].scope = "write" => IsAdminId(subject[w].id)
  BY DEF CreateTokenRow, At, IInv, RequestsInv, WorkerInv, JobFits, WritesForAdmin
<1>2. RowsInv' /\ AdminsKept
  <2>1. CASE HasUser(subject[w].id) /\ InsertToken(subject[w].id, job[w].scope)
    <3>1. subject[w].id \in Id
      BY <2>1 DEF HasUser, IInv, RowsInv, UserRow
    <3> QED BY <1>1, <2>1, <3>1, JobTypes, TokenAdded DEF IInv
  <2>2. CASE UNCHANGED rows
    BY <2>2, RowsUnchanged DEF IInv
  <2> QED BY <2>1, <2>2 DEF CreateTokenRow
<1> QED BY <1>1, <1>2, HandlerReturns DEF CreateTokenRow, IInv, ServerInv

LEMMA RevokeTokenStep ==
    ASSUME IInv, NEW w \in Worker, RevokeToken(w)
    PROVE  IInv' /\ AdminsKept
<1>1. pc[w] = "revoke_token"
  BY DEF RevokeToken, At
<1>2. RowsInv' /\ AdminsKept
  BY TokenRevoked DEF RevokeToken, IInv
<1> QED BY <1>1, <1>2, HandlerReturns DEF RevokeToken, IInv, ServerInv

LEMMA HandleStep ==
    ASSUME IInv, NEW w \in Worker, Handle(w)
    PROVE  IInv' /\ AdminsKept
<1>1. CASE FindUser(w) \/ CreateSession(w) \/ DeleteSession(w) \/ Authorize(w)
  BY <1>1, FindUserStep, CreateSessionStep, DeleteSessionStep, AuthorizeStep
<1>2. CASE ChangeOwnPassword(w) \/ CheckName(w) \/ CreateUserRow(w) \/ UpdateUserRow(w)
  BY <1>2, ChangeOwnPasswordStep, CheckNameStep, CreateUserRowStep, UpdateUserRowStep
<1>3. CASE LookupUser(w) \/ DeleteUserRow(w)
  BY <1>3, LookupUserStep, DeleteUserRowStep
<1>4. CASE CreateTokenRow(w) \/ FindToken(w) \/ RevokeToken(w)
  BY <1>4, CreateTokenRowStep, FindTokenStep, RevokeTokenStep
<1> QED BY <1>1, <1>2, <1>3, <1>4 DEF Handle

LEMMA StatementFailsStep ==
    ASSUME IInv, NEW w \in Worker, StatementFails(w)
    PROVE  IInv' /\ AdminsKept
  BY RowsRead, HandlerReturns DEF StatementFails

LEMMA StartStep ==
    ASSUME IInv, NEW w \in Worker, NEW j \in Job, Start(w, j)
    PROVE  IInv' /\ AdminsKept
<1> DEFINE step == FirstStep(j.op)
<1>1. /\ step \in {"find_user", "delete_session", "authorize"}
      /\ step = "find_user" => j.op = "login"
      /\ step = "authorize" => j.op \notin {"login", "logout"}
  BY DEF FirstStep
<1>2. RowsInv' /\ AdminsKept /\ told' \subseteq Password
  BY RowsUnchanged DEF Start, IInv, ServerInv
<1>3. /\ pc' = [pc EXCEPT ![w] = step] /\ job' = [job EXCEPT ![w] = j]
      /\ server = "serving" /\ UNCHANGED <<server, initial, reset, me, subject>>
  BY DEF Start
<1>4. WorkerInv(w)'
  BY <1>1, <1>3
  DEF IInv, RequestsInv, WorkerInv, JobFits, ServesWhenUp, CallerIsAdmin, SparesCaller,
      WritesForAdmin, AdminStep
<1>5. ASSUME NEW v \in Worker \ {w} PROVE WorkerInv(v)'
  BY <1>2, <1>3, Bystander DEF IInv, RequestsInv
<1>6. RequestsInv'
  BY <1>1, <1>3, <1>4, <1>5 DEF IInv, RequestsInv, Step
<1>7. ResetInv' /\ ServerInv'
  BY <1>2, <1>3, ResetUnchanged DEF IInv, ServerInv
<1> QED BY <1>2, <1>6, <1>7 DEF IInv

-----------------------------------------------------------------------------
(* The server process.                                                     *)

(* Before it serves, no request is in flight. *)
LEMMA NobodyServed ==
    ASSUME IInv, server # "serving"
    PROVE  \A v \in Worker : pc[v] = "idle"
  BY DEF IInv, RequestsInv, WorkerInv, ServesWhenUp

(* A step of the server process itself. *)
LEMMA ServerActs ==
    ASSUME IInv, \A v \in Worker : pc[v] = "idle", UNCHANGED <<request, reset>>,
           RowsInv' /\ AdminsKept, ServerInv'
    PROVE  IInv' /\ AdminsKept
<1>1. RequestsInv'
  BY RequestsUnchanged DEF IInv
<1>2. ResetInv'
  BY ResetUnchanged DEF IInv
<1> QED BY <1>1, <1>2 DEF IInv

LEMMA BootStep ==
    ASSUME IInv, Boot \/ ReadAdmin \/ TellInitial \/ BootFails \/ Stop
    PROVE  IInv' /\ AdminsKept
<1>1. \A v \in Worker : pc[v] = "idle"
  BY NobodyServed DEF Boot, ReadAdmin, TellInitial, BootFails, Stop
<1>2. UNCHANGED <<rows, request, reset>>
  BY DEF Boot, ReadAdmin, TellInitial, BootFails, Stop
<1>3. RowsInv' /\ AdminsKept
  BY <1>2, RowsUnchanged DEF IInv
<1>4. ServerInv'
  BY DEF Boot, ReadAdmin, TellInitial, BootFails, Stop, IInv, ServerInv, ServerStep
<1> QED BY <1>1, <1>2, <1>3, <1>4, ServerActs

LEMMA FindAdminStep ==
    ASSUME IInv, FindAdmin
    PROVE  IInv' /\ AdminsKept
<1>1. \A v \in Worker : pc[v] = "idle"
  BY NobodyServed DEF FindAdmin
<1>2. RowsInv' /\ AdminsKept /\ Admins' = Admins
  BY RowsUnchanged DEF FindAdmin, IInv, rows, Admins
<1>3. ServerInv'
  BY <1>2 DEF FindAdmin, IInv, ServerInv, ServerStep
<1> QED BY <1>1, <1>2, <1>3, ServerActs DEF FindAdmin

(* Where EnsureAdmin counts: it inserts an admin because there is none. *)
LEMMA CreateAdminStep ==
    ASSUME IInv, CreateAdmin
    PROVE  IInv' /\ AdminsKept
<1>1. (\A v \in Worker : pc[v] = "idle") /\ Admins = {} /\ initial \in Password
  BY NobodyServed DEF CreateAdmin, IInv, ServerInv
<1>2. RowsInv' /\ AdminsKept
  <2>1. CASE InsertUser(AdminName, initial, TRUE)
    BY <1>1, <2>1, FirstAdminAdded DEF IInv
  <2>2. CASE UNCHANGED rows
    BY <2>2, RowsUnchanged DEF IInv
  <2> QED BY <2>1, <2>2 DEF CreateAdmin
<1>3. ServerInv'
  BY DEF CreateAdmin, IInv, ServerInv, ServerStep
<1> QED BY <1>1, <1>2, <1>3, ServerActs DEF CreateAdmin

LEMMA CrashStep ==
    ASSUME IInv, Crash
    PROVE  IInv' /\ AdminsKept
<1>1. RowsInv' /\ AdminsKept
  BY RowsUnchanged DEF Crash, IInv
<1>2. ServerInv'
  BY DEF Crash, IInv, ServerInv, ServerStep
<1>3. ResetInv'
  BY <1>1, ResetUnchanged DEF Crash, IInv
<1>4. RequestsInv'
  BY DEF Crash, RequestsInv, Step, WorkerInv, JobFits, ServesWhenUp, CallerIsAdmin,
         SparesCaller, WritesForAdmin, AdminStep
<1> QED BY <1>1, <1>2, <1>3, <1>4 DEF IInv

-----------------------------------------------------------------------------
(* The reset-password command, and sessions that expire.                   *)

(* A step of another process than the server. *)
LEMMA OutsideStep ==
    ASSUME IInv, UNCHANGED <<server, initial, request>>, told' \subseteq Password,
           RowsInv' /\ AdminsKept, server = "create_admin" => Admins' = {}, ResetInv'
    PROVE  IInv' /\ AdminsKept
<1>1. RequestsInv'
  BY RequestsUnchanged DEF IInv
<1>2. ServerInv'
  BY ServerUnchanged DEF IInv
<1> QED BY <1>1, <1>2 DEF IInv

LEMMA ResetReadsOrTells ==
    ASSUME IInv, StartReset \/ ResetFindsAdmin \/ TellReset \/ ResetStops
    PROVE  IInv' /\ AdminsKept
<1>1. UNCHANGED <<rows, server, initial, request>>
  BY DEF StartReset, ResetFindsAdmin, TellReset, ResetStops
<1>2. RowsInv' /\ AdminsKept /\ Admins' = Admins
  BY <1>1, RowsUnchanged DEF IInv, rows, Admins
<1>3. told' \subseteq Password
  BY DEF StartReset, ResetFindsAdmin, TellReset, ResetStops, IInv, ServerInv, ResetInv
<1>4. ResetInv'
  <2>1. CASE StartReset
    BY <2>1 DEF StartReset, IInv, ResetInv, ResetStep
  <2>2. CASE ResetFindsAdmin /\ reset' # NoReset
    <3>1. PICK u \in Admins, p \in Password :
             reset' = [step |-> "set_password", id |-> u.id, password |-> p]
      BY <2>2 DEF ResetFindsAdmin
    <3>2. u.id \in Id /\ IsAdminId(u.id)'
      BY <1>2 DEF IInv, RowsInv, UserRow, Admins, IsAdminId
    <3> QED BY <3>1, <3>2 DEF ResetInv, ResetStep, IsAdminId
  <2>3. CASE reset' = NoReset
    BY <2>3 DEF NoReset, ResetInv, ResetStep
  <2> QED BY <2>1, <2>2, <2>3 DEF ResetFindsAdmin, TellReset, ResetStops
<1> QED BY <1>1, <1>2, <1>3, <1>4, OutsideStep DEF IInv, ServerInv

LEMMA ResetSetsPasswordStep ==
    ASSUME IInv, ResetSetsPassword
    PROVE  IInv' /\ AdminsKept
<1>1. reset.step = "set_password" /\ IsAdminId(reset.id) /\ reset.password \in Password
  BY DEF ResetSetsPassword, IInv, ResetInv
<1>2. RowsInv' /\ AdminsKept
  BY <1>1, PasswordSet DEF ResetSetsPassword, IInv
<1>3. ResetInv'
  <2>1. IsAdminId(reset.id) /\ reset'.id = reset.id => IsAdminId(reset.id)'
    BY <1>2 DEF AdminsKept, IsAdminId, Admins
  <2>2. /\ reset' \in [step : ResetStep, id : Id \cup {NoId}, password : Password \cup {NoPassword}]
        /\ reset'.id = reset.id /\ reset'.password = reset.password
    BY DEF ResetSetsPassword, IInv, ResetInv, ResetStep
  <2> QED BY <1>1, <2>1, <2>2 DEF ResetInv
<1>4. server # "create_admin"
  BY <1>1 DEF IInv, ServerInv, IsAdminId
<1> QED BY <1>2, <1>3, <1>4, OutsideStep DEF ResetSetsPassword, IInv, ServerInv

LEMMA ResetEndsSessionsStep ==
    ASSUME IInv, ResetEndsSessions
    PROVE  IInv' /\ AdminsKept
<1>1. sessions' \subseteq sessions /\ UNCHANGED <<users, tokens>>
  BY DEF ResetEndsSessions, EndUserSessions, rows
<1>2. RowsInv' /\ AdminsKept /\ Admins' = Admins
  BY <1>1, SessionsEnded DEF IInv, Admins
<1>3. ResetInv'
  BY <1>2 DEF ResetEndsSessions, IInv, ResetInv, ResetStep, IsAdminId
<1> QED BY <1>2, <1>3, OutsideStep DEF ResetEndsSessions, IInv, ServerInv

LEMMA SessionExpiresStep ==
    ASSUME IInv, SessionExpires
    PROVE  IInv' /\ AdminsKept
<1>1. sessions' \subseteq sessions /\ UNCHANGED <<users, tokens>>
  BY DEF SessionExpires, EndSession
<1>2. RowsInv' /\ AdminsKept /\ Admins' = Admins
  BY <1>1, SessionsEnded DEF IInv, Admins
<1>3. ResetInv'
  BY <1>2, ResetUnchanged DEF SessionExpires, processes, IInv
<1> QED BY <1>2, <1>3, OutsideStep DEF SessionExpires, processes, IInv, ServerInv

-----------------------------------------------------------------------------
(* The specification.                                                      *)

LEMMA Initially == Init => IInv
<1> SUFFICES ASSUME Init PROVE IInv
  OBVIOUS
<1>1. RowsInv
  BY DEF Init, RowsInv, OneAdmin, OnlyAdminsAct, Admins
<1>2. ServerInv
  BY DEF Init, ServerInv, ServerStep
<1>3. ResetInv
  BY DEF Init, NoReset, ResetInv, ResetStep
<1>4. RequestsInv
  BY DEF Init, RequestsInv, Step, WorkerInv, JobFits, ServesWhenUp, CallerIsAdmin,
         SparesCaller, WritesForAdmin, AdminStep
<1> QED BY <1>1, <1>2, <1>3, <1>4 DEF IInv

LEMMA Inductive ==
    ASSUME IInv, [Next]_vars
    PROVE  IInv' /\ AdminsKept
<1>1. CASE \E w \in Worker : (\E j \in Job : Start(w, j)) \/ Handle(w) \/ StatementFails(w)
  BY <1>1, StartStep, HandleStep, StatementFailsStep
<1>2. CASE Serve
  BY <1>2, BootStep, FindAdminStep, CreateAdminStep, CrashStep DEF Serve
<1>3. CASE Reset
  BY <1>3, ResetReadsOrTells, ResetSetsPasswordStep, ResetEndsSessionsStep DEF Reset
<1>4. CASE SessionExpires
  BY <1>4, SessionExpiresStep
<1>5. CASE UNCHANGED vars
  <2>1. RowsInv' /\ AdminsKept /\ Admins' = Admins
    BY <1>5, RowsUnchanged DEF vars, rows, IInv, Admins
  <2>2. ResetInv'
    BY <1>5, <2>1, ResetUnchanged DEF vars, IInv
  <2> QED BY <1>5, <2>1, <2>2, OutsideStep DEF vars, request, IInv, ServerInv
<1> QED BY <1>1, <1>2, <1>3, <1>4, <1>5 DEF Next

(* The inductive invariant holds for any number of requests, users,        *)
(* sessions and tokens, and with whatever faults.                          *)
THEOREM Invariant == Spec => []IInv
<1>1. IInv /\ [Next]_vars => IInv'
  BY Inductive
<1> QED BY Initially, <1>1, PTL DEF Spec

(* All variables keep their types, and exactly admins have a password.     *)
THEOREM TypeCorrect == Spec => []TypeOK
<1>1. IInv => TypeOK
  BY DEF IInv, RowsInv, ServerInv, ResetInv, RequestsInv, TypeOK
<1> QED BY Invariant, <1>1, PTL

(* However often EnsureAdmin runs, fails halfway and runs again, there is  *)
(* at most one admin (server.go:97-123).                                   *)
THEOREM AtMostOneAdmin == Spec => []OneAdmin
<1>1. IInv => OneAdmin
  BY DEF IInv, RowsInv
<1> QED BY Invariant, <1>1, PTL

(* Sessions and write tokens always belong to the admin, although they are *)
(* inserted under an id looked up by an earlier statement and ids of       *)
(* deleted users are reused (api.go:190, users.go:213).                    *)
THEOREM SessionsAreTheAdmins == Spec => []OnlyAdminsAct
<1>1. IInv => OnlyAdminsAct
  BY DEF IInv, RowsInv
<1> QED BY Invariant, <1>1, PTL

(* No step takes the admin account away: the self-check of deleteUser      *)
(* (users.go:131) is enough although other requests run between it and the *)
(* DELETE.                                                                 *)
THEOREM AdminIsNeverLost == Spec => AdminStays
<1>1. IInv /\ [Next]_vars => [\A u \in Admins : \E v \in users' : v.id = u.id /\ v.is_admin]_vars
  BY Inductive DEF AdminsKept
<1> QED BY Invariant, <1>1, PTL DEF Spec, AdminStays

-----------------------------------------------------------------------------
(* The password of the admin is told, as long as nothing fails between     *)
(* storing one and showing it.                                             *)

(* A step that stores no password, and whose processes stay where they     *)
(* are, leaves none unknown. *)
LEMMA PasswordsStay ==
    ASSUME PasswordsKnown, UNCHANGED processes, told \subseteq told',
           \A v \in Admins' : \E u \in Admins : v.password = u.password
    PROVE  PasswordsKnown'
  BY DEF PasswordsKnown, WillBeTold, processes

LEMMA PasswordsNotTouched ==
    ASSUME PasswordsKnown, UNCHANGED <<rows, processes, told>>
    PROVE  PasswordsKnown'
  BY PasswordsStay DEF rows, Admins

LEMMA OrdinaryUserHasNone ==
    ASSUME NEW name, InsertUser(name, NoPassword, FALSE)
    PROVE  \A v \in Admins' : \E u \in Admins : v.password = u.password
  BY DEF InsertUser, Admins

LEMMA RenamedKeepsPassword ==
    ASSUME RowsInv, NEW id, NEW name, RenameUser(id, name)
    PROVE  \A v \in Admins' : \E u \in Admins : v.password = u.password
<1> DEFINE renamed(u) == IF u.id = id THEN [u EXCEPT !.username = name] ELSE u
<1>1. users' = {renamed(u) : u \in users}
  BY DEF RenameUser
<1>2. \A u \in users : renamed(u).is_admin = u.is_admin /\ renamed(u).password = u.password
  BY DEF RowsInv, UserRow
<1> HIDE DEF renamed
<1> QED BY <1>1, <1>2 DEF Admins

(* The row of another account, and only that one, keeps its password. *)
LEMMA OnlyThatPasswordSet ==
    ASSUME RowsInv, NEW id, NEW p, SetPassword(id, p)
    PROVE  \A v \in Admins' : v.password = p \/ v \in Admins
<1> DEFINE changed(u) == IF u.id = id THEN [u EXCEPT !.password = p] ELSE u
<1>1. users' = {changed(u) : u \in users}
  BY DEF SetPassword
<1>2. \A u \in users : changed(u) = u \/ changed(u).password = p
  BY DEF RowsInv, UserRow
<1> HIDE DEF changed
<1> QED BY <1>1, <1>2 DEF Admins

(* The new password of changePassword is the one its caller has typed. *)
LEMMA ChangeIsKnown ==
    ASSUME IInv, PasswordsKnown, NEW w \in Worker, ChangeOwnPassword(w)
    PROVE  PasswordsKnown'
<1>1. CASE UNCHANGED <<rows, told>>
  BY <1>1, PasswordsNotTouched DEF ChangeOwnPassword
<1>2. CASE SetPassword(me[w].id, job[w].new) /\ told' = told \cup {job[w].new}
  <2>1. \A v \in Admins' : v.password = job[w].new \/ v \in Admins
    BY <1>2, OnlyThatPasswordSet DEF IInv
  <2>2. UNCHANGED <<server, initial, reset>>
    BY DEF ChangeOwnPassword, processes
  <2> QED BY <1>2, <2>1, <2>2 DEF PasswordsKnown, WillBeTold
<1> QED BY <1>1, <1>2 DEF ChangeOwnPassword

LEMMA HandlerKeepsKnown ==
    ASSUME IInv, PasswordsKnown, NEW w \in Worker,
           Handle(w) \/ StatementFails(w) \/ \E j \in Job : Start(w, j)
    PROVE  PasswordsKnown'
<1>1. CASE ChangeOwnPassword(w)
  BY <1>1, ChangeIsKnown
<1>2. CASE CreateUserRow(w)
  BY <1>2, OrdinaryUserHasNone, PasswordsStay, PasswordsNotTouched DEF CreateUserRow
<1>3. CASE UpdateUserRow(w)
  BY <1>3, RenamedKeepsPassword, PasswordsStay, PasswordsNotTouched DEF UpdateUserRow, IInv
<1>4. CASE DeleteUserRow(w)
  <2>1. Admins' \subseteq Admins
    BY <1>4 DEF DeleteUserRow, RemoveUser, Admins
  <2> QED BY <1>4, <2>1, PasswordsStay DEF DeleteUserRow
<1>5. CASE CreateSession(w) \/ DeleteSession(w) \/ CreateTokenRow(w) \/ RevokeToken(w)
  <2>1. UNCHANGED <<users, processes, told>>
    BY <1>5 DEF CreateSession, DeleteSession, CreateTokenRow, RevokeToken, InsertSession,
                EndSession, InsertToken, MarkRevoked, rows
  <2> QED BY <2>1, PasswordsStay DEF Admins
<1>6. CASE FindUser(w) \/ Authorize(w) \/ CheckName(w) \/ LookupUser(w) \/ FindToken(w)
  BY <1>6, PasswordsNotTouched DEF FindUser, Authorize, CheckName, LookupUser, FindToken
<1>7. CASE StatementFails(w) \/ \E j \in Job : Start(w, j)
  BY <1>7, PasswordsNotTouched DEF StatementFails, Start, processes
<1> QED BY <1>1, <1>2, <1>3, <1>4, <1>5, <1>6, <1>7 DEF Handle

(* Between generating the first password and showing it, the server runs   *)
(* no request and, unless something fails, goes straight on.               *)
LEMMA FirstPasswordIsShown ==
    ASSUME "crash" \notin Faults, IInv, PasswordsKnown, Serve, ~ BootFails
    PROVE  PasswordsKnown'
<1>1. CASE Boot \/ FindAdmin \/ Stop
  <2>1. UNCHANGED <<users, reset, told>> /\ server \notin {"read_admin", "tell"}
    BY <1>1 DEF Boot, FindAdmin, Stop, rows
  <2> QED BY <2>1 DEF PasswordsKnown, WillBeTold, Admins
<1>2. CASE CreateAdmin
  <2>1. Admins = {} /\ reset' = reset
    BY <1>2 DEF CreateAdmin, IInv, ServerInv
  <2>2. CASE InsertUser(AdminName, initial, TRUE) /\ server' = "read_admin" /\ initial' = initial
    <3>1. \A v \in Admins' : v.password = initial
      BY <2>1, <2>2 DEF InsertUser, Admins
    <3> QED BY <2>2, <3>1 DEF PasswordsKnown, WillBeTold
  <2>3. CASE UNCHANGED rows
    BY <2>1, <2>3 DEF PasswordsKnown, rows, Admins
  <2> QED BY <1>2, <2>2, <2>3 DEF CreateAdmin
<1>3. CASE ReadAdmin \/ TellInitial
  BY <1>3 DEF ReadAdmin, TellInitial, rows, PasswordsKnown, WillBeTold, Admins
<1>4. ~ Crash
  BY DEF Crash
<1> QED BY <1>1, <1>2, <1>3, <1>4 DEF Serve

LEMMA NewPasswordIsShown ==
    ASSUME "crash" \notin Faults, IInv, PasswordsKnown, Reset
    PROVE  PasswordsKnown'
<1>1. CASE StartReset \/ ResetFindsAdmin \/ ResetStops
  <2>1. /\ UNCHANGED <<users, server, initial, told>>
        /\ reset.step \notin {"end_sessions", "tell"}
    BY <1>1 DEF StartReset, ResetFindsAdmin, ResetStops, Interruptible, rows
  <2> QED BY <2>1 DEF PasswordsKnown, WillBeTold, Admins
<1>2. CASE ResetSetsPassword
  <2>1. \A v \in Admins' : v.password = reset.password \/ v \in Admins
    BY <1>2, OnlyThatPasswordSet DEF IInv, ResetSetsPassword
  <2>2. /\ UNCHANGED <<server, initial, told>> /\ reset.step = "set_password"
        /\ reset'.step = "end_sessions" /\ reset'.password = reset.password
    BY <1>2 DEF ResetSetsPassword, IInv, ResetInv
  <2> QED BY <2>1, <2>2 DEF PasswordsKnown, WillBeTold
<1>3. CASE ResetEndsSessions
  <2>1. /\ UNCHANGED <<users, server, initial, told>>
        /\ reset'.step = "tell" /\ reset'.password = reset.password
    BY <1>3 DEF ResetEndsSessions, EndUserSessions, rows, IInv, ResetInv
  <2> QED BY <2>1 DEF PasswordsKnown, WillBeTold, Admins
<1>4. CASE TellReset
  BY <1>4 DEF TellReset, rows, PasswordsKnown, WillBeTold, Admins
<1> QED BY <1>1, <1>2, <1>3, <1>4 DEF Reset

LEMMA KnownStep ==
    ASSUME "crash" \notin Faults, IInv, PasswordsKnown, [Next]_vars, [~ BootFails]_vars
    PROVE  PasswordsKnown'
<1>1. CASE SessionExpires
  <2>1. UNCHANGED <<users, processes, told>>
    BY <1>1 DEF SessionExpires, EndSession
  <2> QED BY <2>1, PasswordsStay DEF Admins
<1>2. CASE UNCHANGED vars
  BY <1>2, PasswordsNotTouched DEF vars, processes, rows
<1>3. CASE Serve /\ ~ BootFails
  BY <1>3, FirstPasswordIsShown
<1> QED
  BY <1>1, <1>2, <1>3, HandlerKeepsKnown, NewPasswordIsShown DEF Next

(* Whenever the server serves and no reset is between storing a password   *)
(* and printing it, the operator has seen or chosen the admin's password   *)
(* (main.go:109), for any interleaving of restarts, resets and password    *)
(* changes.  Handlers may fail at any statement: what the claim needs is   *)
(* that no process dies and that EnsureAdmin does not fail halfway, which  *)
(* leaves a password nobody was shown.                                     *)
THEOREM PasswordToldUnlessStartFails ==
    ASSUME "crash" \notin Faults
    PROVE  Spec /\ [][~ BootFails]_vars => []PasswordIsTold
<1>1. Init => PasswordsKnown
  BY DEF Init, PasswordsKnown, Admins
<1>2. IInv /\ PasswordsKnown /\ [Next]_vars /\ [~ BootFails]_vars => PasswordsKnown'
  BY KnownStep
<1>3. PasswordsKnown => PasswordIsTold
  BY DEF PasswordsKnown, WillBeTold, PasswordIsTold
<1> QED BY Invariant, <1>1, <1>2, <1>3, PTL DEF Spec

(* In particular it holds of the instance the run checks, where nothing    *)
(* fails. *)
THEOREM PasswordIsAlwaysTold ==
    ASSUME Faults = {}
    PROVE  Spec => []PasswordIsTold
<1>1. ~ BootFails
  BY DEF BootFails
<1>2. Spec /\ [][~ BootFails]_vars => []PasswordIsTold
  BY PasswordToldUnlessStartFails
<1> QED BY <1>1, <1>2, PTL
=============================================================================
