------------------------------ MODULE Accounts ------------------------------
(***************************************************************************)
(* User accounts, admin sessions and API tokens: the login, password, user *)
(* and token handlers (src/internal/api/api.go, users.go), the first start *)
(* of the server (EnsureAdmin) and the command that resets the admin's     *)
(* password while the server may be running (src/internal/server).  As in  *)
(* Registry, anything may run between two statements of one request.       *)
(***************************************************************************)
EXTENDS RowIds, FiniteSets

CONSTANTS Worker,     \* BOUND: how many requests are served at once
          Username,   \* user names, NOCASE: one for all spellings
          AdminName,  \* "admin", the name EnsureAdmin gives
          Password,   \* BOUND: the passwords there are
          NoPassword, \* the empty hash of an ordinary user
          Session,    \* BOUND: how many sessions are live at once
          Operation,  \* the operations clients and operators ask for
          Faults      \* what may fail

Operations == {"login", "logout", "change_password", "create_user", "update_user",
               "delete_user", "create_token", "revoke_token", "reset"}

ASSUME AdminNameAssumption == AdminName \in Username
ASSUME NoPasswordAssumption == NoPassword \notin Password
ASSUME OperationAssumption == Operation \subseteq Operations
ASSUME FaultsAssumption == Faults \subseteq {"db", "crash"}

VARIABLES users, tokens,
          sessions, \* the unexpired rows; nothing reads or purges the others
          server,   \* what the server process does next
          initial,  \* the password EnsureAdmin has generated
          reset,    \* the reset-password process: step, user id, password
          pc,       \* pc[w] is what worker w does next
          job,      \* job[w] is the request w serves
          me,       \* the user the session, or the login, of w stands for
          subject,  \* the user row w has looked up
          told      \* history: the passwords the operator has been shown or chose

rows == <<users, sessions, tokens>>
request == <<pc, job, me, subject>>
vars == <<users, sessions, tokens, server, initial, reset, pc, job, me, subject, told>>

UserRow == [id : Id, username : Username,
            password : Password \cup {NoPassword}, is_admin : BOOLEAN]
SessionRow == [id : Session, user_id : Id,
               password : Password] \* history: what its login presented
TokenRow == [id : Id, user_id : Id, scope : {"read", "write"}, revoked : BOOLEAN]

Caller == [id : Id, password : Password]
NoUser == [id |-> NoId]
NoJob == [op |-> "none"]

Login == [op : {"login"}, username : Username, password : Password]
Logout == [op : {"logout"}, cookie : Session]
ChangePassword == [op : {"change_password"}, cookie : Session,
                   current : Password, new : Password]
CreateUser == [op : {"create_user"}, cookie : Session, username : Username]
UpdateUser == [op : {"update_user"}, cookie : Session, id : Id, username : Username]
ById == [op : {"delete_user", "revoke_token"}, cookie : Session, id : Id]
CreateToken == [op : {"create_token"}, cookie : Session, id : Id, scope : {"read", "write"}]
Job == Login \cup Logout \cup ChangePassword \cup CreateUser \cup UpdateUser
         \cup ById \cup CreateToken

ServerStep == {"down", "find_admin", "create_admin", "read_admin", "tell", "serving"}
ResetStep == {"idle", "find_admin", "set_password", "end_sessions", "tell"}
AdminStep == {"set_password", "check_name", "insert_user", "lookup_user", "update_user",
              "delete_user", "insert_token", "find_token", "revoke_token"}
Step == AdminStep \cup {"idle", "find_user", "insert_session", "delete_session", "authorize"}

(* Only admins have a password: CreateUser stores none for the users of    *)
(* the API, and passwords are changed by WHERE id of an admin.             *)
TypeOK ==
    /\ users \subseteq UserRow
    /\ \A u \in users : u.is_admin = (u.password # NoPassword)
    /\ sessions \subseteq SessionRow
    /\ tokens \subseteq TokenRow
    /\ server \in ServerStep
    /\ initial \in Password \cup {NoPassword}
    /\ reset \in [step : ResetStep, id : Id \cup {NoId}, password : Password \cup {NoPassword}]
    /\ pc \in [Worker -> Step]
    /\ job \in [Worker -> Job \cup {NoJob}]
    /\ me \in [Worker -> Caller \cup {NoUser}]
    /\ subject \in [Worker -> UserRow \cup {NoUser}]
    /\ told \subseteq Password

NoReset == [step |-> "idle", id |-> NoId, password |-> NoPassword]

Init ==
    /\ users = {} /\ sessions = {} /\ tokens = {}
    /\ server = "down" /\ initial = NoPassword
    /\ reset = NoReset
    /\ pc = [w \in Worker |-> "idle"]
    /\ job = [w \in Worker |-> NoJob]
    /\ me = [w \in Worker |-> NoUser]
    /\ subject = [w \in Worker |-> NoUser]
    /\ told = {}

-----------------------------------------------------------------------------
(* Statements.                                                             *)

Taken(username) == \E u \in users : u.username = username

Admins == {u \in users : u.is_admin}

InsertUser(username, password, is_admin) ==
    /\ \E id \in Id :
          /\ IsNextId(users, id)
          /\ users' = users \cup {[id |-> id, username |-> username,
                                   password |-> password, is_admin |-> is_admin]}
    /\ UNCHANGED <<sessions, tokens>>

(* Slip: the whole row is written, with no password. *)
RenameUser_WholeRow(id, username) ==
    /\ users' = {IF u.id = id
                 THEN [u EXCEPT !.username = username, !.password = NoPassword]
                 ELSE u : u \in users}
    /\ UNCHANGED <<sessions, tokens>>

RenameUser(id, username) ==
    /\ users' = {IF u.id = id THEN [u EXCEPT !.username = username] ELSE u : u \in users}
    /\ UNCHANGED <<sessions, tokens>>

SetPassword(id, password) ==
    /\ users' = {IF u.id = id THEN [u EXCEPT !.password = password] ELSE u : u \in users}
    /\ UNCHANGED <<sessions, tokens>>

(* ON DELETE CASCADE takes the user's sessions and tokens along. *)
RemoveUser(id) ==
    /\ users' = {u \in users : u.id # id}
    /\ sessions' = {s \in sessions : s.user_id # id}
    /\ tokens' = {t \in tokens : t.user_id # id}

(* The foreign key of sessions and tokens. *)
HasUser(id) == \E u \in users : u.id = id

(* A session id is 32 random bytes, so no live session has it. *)
InsertSession(user_id, password) ==
    /\ \E c \in Session :
          /\ \A s \in sessions : s.id # c
          /\ sessions' = sessions \cup
                {[id |-> c, user_id |-> user_id, password |-> password]}
    /\ UNCHANGED <<users, tokens>>

EndSession(cookie) ==
    /\ sessions' = {s \in sessions : s.id # cookie}
    /\ UNCHANGED <<users, tokens>>

EndUserSessions(id) ==
    /\ sessions' = {s \in sessions : s.user_id # id}
    /\ UNCHANGED <<users, tokens>>

InsertToken(user_id, scope) ==
    /\ \E id \in Id :
          /\ IsNextId(tokens, id)
          /\ tokens' = tokens \cup
                {[id |-> id, user_id |-> user_id, scope |-> scope,
                  revoked |-> FALSE]}
    /\ UNCHANGED <<users, sessions>>

MarkRevoked(id) ==
    /\ tokens' = {IF t.id = id THEN [t EXCEPT !.revoked = TRUE] ELSE t : t \in tokens}
    /\ UNCHANGED <<users, sessions>>

-----------------------------------------------------------------------------
(* Requests.                                                               *)

InFlight(op) == {w \in Worker : pc[w] # "idle" /\ job[w].op = op}

(* BOUND: what inserts a row starts only while there are ids for it and    *)
(* for every such request in flight.                                       *)
IdsLeft(op) ==
    /\ op = "create_user" =>
         \A u \in users : u.id + Cardinality(InFlight(op)) < MaxId
    /\ op = "create_token" =>
         \A t \in tokens : t.id + Cardinality(InFlight(op)) < MaxId
    /\ op = "login" =>
         Cardinality(sessions) + Cardinality(InFlight(op)) < Cardinality(Session)

FirstStep(op) ==
    CASE op = "login" -> "find_user"
      [] op = "logout" -> "delete_session"
      [] OTHER -> "authorize"

Start(w, j) ==
    /\ server = "serving"
    /\ j.op \in Operation
    /\ IdsLeft(j.op)
    /\ pc[w] = "idle"
    /\ pc' = [pc EXCEPT ![w] = FirstStep(j.op)]
    /\ job' = [job EXCEPT ![w] = j]
    /\ UNCHANGED <<rows, server, initial, reset, me, subject, told>>

At(w, step) == pc[w] = step

Goto(w, step) ==
    /\ pc' = [pc EXCEPT ![w] = step]
    /\ UNCHANGED job

Finish(w) ==
    /\ pc' = [pc EXCEPT ![w] = "idle"]
    /\ job' = [job EXCEPT ![w] = NoJob]
    /\ me' = [me EXCEPT ![w] = NoUser]
    /\ subject' = [subject EXCEPT ![w] = NoUser]

processes == <<server, initial, reset>>

-----------------------------------------------------------------------------
(* Login, logout, and the admin middleware in front of all other handlers. *)

FindUser(w) ==
    /\ At(w, "find_user")
    /\ \/ /\ \A u \in users :
                ~ (u.username = job[w].username /\ u.password = job[w].password /\ u.is_admin)
          /\ Finish(w)
       \/ \E u \in users :
             /\ u.username = job[w].username /\ u.password = job[w].password /\ u.is_admin
             /\ me' = [me EXCEPT ![w] = [id |-> u.id, password |-> u.password]]
             /\ Goto(w, "insert_session")
             /\ UNCHANGED subject
    /\ UNCHANGED <<rows, processes, told>>

CreateSession(w) ==
    /\ At(w, "insert_session")
    /\ \/ /\ HasUser(me[w].id)
          /\ InsertSession(me[w].id, job[w].password)
       \/ /\ ~ HasUser(me[w].id)
          /\ UNCHANGED rows
    /\ Finish(w)
    /\ UNCHANGED <<processes, told>>

DeleteSession(w) ==
    /\ At(w, "delete_session")
    /\ EndSession(job[w].cookie)
    /\ Finish(w)
    /\ UNCHANGED <<processes, told>>

AfterAuthorize(op) ==
    CASE op = "change_password" -> "set_password"
      [] op = "create_user" -> "check_name"
      [] op = "revoke_token" -> "find_token"
      [] OTHER -> "lookup_user"

Holds(cookie, u) == \E s \in sessions : s.id = cookie /\ s.user_id = u.id

Authorize(w) ==
    /\ At(w, "authorize")
    /\ \/ /\ \A u \in users : ~ (Holds(job[w].cookie, u) /\ u.is_admin)
          /\ Finish(w)
       \/ \E u \in users :
             /\ Holds(job[w].cookie, u) /\ u.is_admin
             /\ me' = [me EXCEPT ![w] = [id |-> u.id, password |-> u.password]]
             /\ Goto(w, AfterAuthorize(job[w].op))
             /\ UNCHANGED subject
    /\ UNCHANGED <<rows, processes, told>>

(* The current password is verified against the row Authorize has read; a  *)
(* new one that is too short is refused as well.                           *)
ChangeOwnPassword(w) ==
    /\ At(w, "set_password")
    /\ \/ UNCHANGED <<rows, told>>
       \/ /\ me[w].password = job[w].current
          /\ SetPassword(me[w].id, job[w].new)
          /\ told' = told \cup {job[w].new}
    /\ Finish(w)
    /\ UNCHANGED processes

-----------------------------------------------------------------------------
(* Users and tokens, by an admin.                                          *)

(* An error of the lookup means that the name is free. *)
CheckName(w) ==
    LET next == IF job[w].op = "create_user" THEN "insert_user" ELSE "update_user"
        other(u) == u.username = job[w].username /\ u.id # subject[w].id
    IN  /\ At(w, "check_name")
        /\ \/ /\ \E u \in users : other(u)
              /\ Finish(w)
           \/ /\ "db" \in Faults \/ \A u \in users : ~ other(u)
              /\ Goto(w, next)
              /\ UNCHANGED <<me, subject>>
        /\ UNCHANGED <<rows, processes, told>>

CreateUserRow(w) ==
    /\ At(w, "insert_user")
    /\ \/ /\ ~ Taken(job[w].username)
          /\ InsertUser(job[w].username, NoPassword, FALSE)
       \/ /\ Taken(job[w].username)
          /\ UNCHANGED rows
    /\ Finish(w)
    /\ UNCHANGED <<processes, told>>

UpdateUserRow(w) ==
    /\ At(w, "update_user")
    /\ \/ /\ \A u \in users : u.username = job[w].username => u.id = subject[w].id
          /\ RenameUser(subject[w].id, job[w].username)
       \/ /\ \E u \in users : u.username = job[w].username /\ u.id # subject[w].id
          /\ UNCHANGED rows
    /\ Finish(w)
    /\ UNCHANGED <<processes, told>>

(* Slip: an admin may delete the own account. *)
Refused_NoSelfCheck(w, u) ==
    job[w].op = "create_token" /\ job[w].scope = "write" /\ ~ u.is_admin

(* Slip: a write token for anybody. *)
Refused_NoScopeCheck(w, u) ==
    job[w].op = "delete_user" /\ u.id = me[w].id

(* "you cannot delete yourself" and "only admin users can hold write       *)
(* tokens"                                                                 *)
Refused(w, u) ==
    \/ job[w].op = "delete_user" /\ u.id = me[w].id
    \/ job[w].op = "create_token" /\ job[w].scope = "write" /\ ~ u.is_admin

AfterLookup(op) ==
    CASE op = "update_user" -> "check_name"
      [] op = "delete_user" -> "delete_user"
      [] op = "create_token" -> "insert_token"

LookupUser(w) ==
    /\ At(w, "lookup_user")
    /\ \/ /\ \A u \in users : u.id = job[w].id => Refused(w, u)
          /\ Finish(w)
       \/ \E u \in users :
             /\ u.id = job[w].id /\ ~ Refused(w, u)
             /\ subject' = [subject EXCEPT ![w] = u]
             /\ Goto(w, AfterLookup(job[w].op))
             /\ UNCHANGED me
    /\ UNCHANGED <<rows, processes, told>>

DeleteUserRow(w) ==
    /\ At(w, "delete_user")
    /\ RemoveUser(subject[w].id)
    /\ Finish(w)
    /\ UNCHANGED <<processes, told>>

CreateTokenRow(w) ==
    /\ At(w, "insert_token")
    /\ \/ /\ HasUser(subject[w].id)
          /\ InsertToken(subject[w].id, job[w].scope)
       \/ /\ ~ HasUser(subject[w].id)
          /\ UNCHANGED rows
    /\ Finish(w)
    /\ UNCHANGED <<processes, told>>

FindToken(w) ==
    /\ At(w, "find_token")
    /\ \/ /\ \A t \in tokens : t.id # job[w].id
          /\ Finish(w)
       \/ /\ \E t \in tokens : t.id = job[w].id
          /\ Goto(w, "revoke_token")
          /\ UNCHANGED <<me, subject>>
    /\ UNCHANGED <<rows, processes, told>>

RevokeToken(w) ==
    /\ At(w, "revoke_token")
    /\ MarkRevoked(job[w].id)
    /\ Finish(w)
    /\ UNCHANGED <<processes, told>>

-----------------------------------------------------------------------------
(* The server process: EnsureAdmin, then serving.                          *)

Boot ==
    /\ server = "down"
    /\ server' = "find_admin"
    /\ UNCHANGED <<rows, initial, reset, request, told>>

(* GeneratePassword never repeats one. *)
Fresh(p) ==
    /\ p \notin told \cup {initial, reset.password}
    /\ \A u \in users : u.password # p

(* Slip: every error of AdminUser is taken for ErrNotFound. *)
FindAdmin_AnyError ==
    /\ server = "find_admin"
    /\ \/ /\ Admins # {}
          /\ server' = "serving"
          /\ UNCHANGED initial
       \/ /\ "db" \in Faults \/ Admins = {}
          /\ server' = "create_admin"
          /\ \E p \in Password : Fresh(p) /\ initial' = p
    /\ UNCHANGED <<rows, reset, request, told>>

FindAdmin ==
    /\ server = "find_admin"
    /\ \/ /\ Admins # {}
          /\ server' = "serving"
          /\ UNCHANGED initial
       \/ /\ Admins = {}
          /\ server' = "create_admin"
          /\ \E p \in Password : Fresh(p) /\ initial' = p
    /\ UNCHANGED <<rows, reset, request, told>>

(* CreateUser: an INSERT and a SELECT *)
CreateAdmin ==
    /\ server = "create_admin"
    /\ \/ /\ ~ Taken(AdminName)
          /\ InsertUser(AdminName, initial, TRUE)
          /\ server' = "read_admin"
          /\ UNCHANGED initial
       \/ /\ Taken(AdminName)
          /\ server' = "down" /\ initial' = NoPassword
          /\ UNCHANGED rows
    /\ UNCHANGED <<reset, request, told>>

ReadAdmin ==
    /\ server = "read_admin"
    /\ server' = "tell"
    /\ UNCHANGED <<rows, initial, reset, request, told>>

(* Slip: the password of the first start is not shown. *)
TellInitial_Silent ==
    /\ server = "tell"
    /\ server' = "serving" /\ initial' = NoPassword
    /\ UNCHANGED <<rows, reset, request, told>>

(* The password goes to the log and to the password file. *)
TellInitial ==
    /\ server = "tell"
    /\ server' = "serving" /\ initial' = NoPassword
    /\ told' = told \cup {initial}
    /\ UNCHANGED <<rows, reset, request>>

(* A statement of EnsureAdmin fails: the server exits with an error and    *)
(* systemd starts it again.                                                *)
BootFails ==
    /\ "db" \in Faults
    /\ server \in {"find_admin", "create_admin", "read_admin"}
    /\ server' = "down" /\ initial' = NoPassword
    /\ UNCHANGED <<rows, reset, request, told>>

(* Run ends on SIGTERM once the requests in flight have; those that take   *)
(* longer than Shutdown waits are lost, as in a crash.                     *)
Stop ==
    /\ server = "serving"
    /\ \A w \in Worker : pc[w] = "idle"
    /\ server' = "down"
    /\ UNCHANGED <<rows, initial, reset, request, told>>

Crash ==
    /\ "crash" \in Faults
    /\ server # "down"
    /\ server' = "down" /\ initial' = NoPassword
    /\ pc' = [w \in Worker |-> "idle"]
    /\ job' = [w \in Worker |-> NoJob]
    /\ me' = [w \in Worker |-> NoUser]
    /\ subject' = [w \in Worker |-> NoUser]
    /\ UNCHANGED <<rows, reset, told>>

-----------------------------------------------------------------------------
(* The reset-password command, a process of its own.                       *)

StartReset ==
    /\ "reset" \in Operation
    /\ reset.step = "idle"
    /\ reset' = [reset EXCEPT !.step = "find_admin"]
    /\ UNCHANGED <<rows, server, initial, request, told>>

ResetFindsAdmin ==
    /\ reset.step = "find_admin"
    /\ \/ /\ Admins = {}
          /\ reset' = NoReset
       \/ \E u \in Admins, p \in Password :
             /\ \A v \in Admins : u.id <= v.id
             /\ Fresh(p)
             /\ reset' = [step |-> "set_password", id |-> u.id, password |-> p]
    /\ UNCHANGED <<rows, server, initial, request, told>>

ResetSetsPassword ==
    /\ reset.step = "set_password"
    /\ SetPassword(reset.id, reset.password)
    /\ reset' = [reset EXCEPT !.step = "end_sessions"]
    /\ UNCHANGED <<server, initial, request, told>>

(* The error of DeleteUserSessions is ignored. *)
ResetEndsSessions ==
    /\ reset.step = "end_sessions"
    /\ EndUserSessions(reset.id) \/ ("db" \in Faults /\ UNCHANGED rows)
    /\ reset' = [reset EXCEPT !.step = "tell"]
    /\ UNCHANGED <<server, initial, request, told>>

TellReset ==
    /\ reset.step = "tell"
    /\ told' = told \cup {reset.password}
    /\ reset' = NoReset
    /\ UNCHANGED <<rows, server, initial, request>>

(* The command fails or is interrupted: at any time before it has changed  *)
(* anything, later only by a crash.                                        *)
Interruptible ==
    {"find_admin", "set_password"} \cup
        IF "crash" \in Faults THEN {"end_sessions", "tell"} ELSE {}

ResetStops ==
    /\ reset.step \in Interruptible
    /\ reset' = NoReset
    /\ UNCHANGED <<rows, server, initial, request, told>>

-----------------------------------------------------------------------------
(* A statement of a handler fails without effect; the handler returns.     *)
(* CheckName goes on instead.                                              *)
StatementFails(w) ==
    /\ "db" \in Faults
    /\ pc[w] \notin {"idle", "check_name"}
    /\ Finish(w)
    /\ UNCHANGED <<rows, processes, told>>

(* The time in expires_at passes. *)
SessionExpires ==
    /\ \E s \in sessions : EndSession(s.id)
    /\ UNCHANGED <<processes, request, told>>

Handle(w) ==
    \/ FindUser(w) \/ CreateSession(w) \/ DeleteSession(w) \/ Authorize(w)
    \/ ChangeOwnPassword(w)
    \/ CheckName(w) \/ CreateUserRow(w) \/ UpdateUserRow(w)
    \/ LookupUser(w) \/ DeleteUserRow(w)
    \/ CreateTokenRow(w) \/ FindToken(w) \/ RevokeToken(w)

Serve ==
    \/ Boot \/ FindAdmin \/ CreateAdmin \/ ReadAdmin \/ TellInitial
    \/ BootFails \/ Stop \/ Crash

Reset ==
    \/ StartReset \/ ResetFindsAdmin \/ ResetSetsPassword
    \/ ResetEndsSessions \/ TellReset \/ ResetStops

Next ==
    \/ \E w \in Worker :
          (\E j \in Job : Start(w, j)) \/ Handle(w) \/ StatementFails(w)
    \/ Serve \/ Reset \/ SessionExpires

Spec == Init /\ [][Next]_vars

-----------------------------------------------------------------------------
(* Properties.                                                             *)

(* There is never a second admin, however often EnsureAdmin runs, fails    *)
(* halfway and runs again, and whatever the accounts are renamed to        *)
(* meanwhile (server.go:103).                                              *)
OneAdmin == \A u, v \in Admins : u = v

(* The admin account is never lost: deleteUser spares the caller           *)
(* (users.go:131), its session lives as long as its account, and no stale  *)
(* id leads a delete to the admin's row.                                   *)
AdminStays ==
    [][\A u \in Admins : \E v \in users' : v.id = u.id /\ v.is_admin]_vars

(* Sessions and write tokens are the admin's own ("only admins can log     *)
(* in", api.go:190; "only admin users can hold write tokens",              *)
(* users.go:213), although they are inserted under an id that was looked   *)
(* up before and ids of deleted users are handed out again.                *)
OnlyAdminsAct ==
    /\ \A s \in sessions : \E u \in Admins : u.id = s.user_id
    /\ \A t \in tokens : t.scope = "write" => \E u \in Admins : u.id = t.user_id

(* Whoever runs the server has seen its admin's password: it was printed   *)
(* at the first start or by the reset, or the admin chose it               *)
(* (main.go:109).  While the reset is between storing a password and       *)
(* printing it, it is not known yet.                                       *)
PasswordIsTold ==
    server = "serving" /\ reset.step \notin {"end_sessions", "tell"}
    => \A u \in Admins : u.password \in told

(* When the reset reports success, no login with an older password is good *)
(* any more ("generates a new password and ends existing logins",          *)
(* SettingsPage.vue:60).                                                   *)
ResetEndsLogins ==
    reset.step = "tell" => \A s \in sessions : s.password = reset.password
=============================================================================
