----------------------------- MODULE AccountsInv -----------------------------
(***************************************************************************)
(* The inductive invariant of Accounts: the rows, the server, the reset    *)
(* command, and what each request in flight relies on; and PasswordsKnown, *)
(* inductive on top of it while no start fails.                            *)
(***************************************************************************)
EXTENDS Accounts

IsAdminId(id) == \E u \in Admins : u.id = id

RowsInv ==
    /\ users \subseteq UserRow
    /\ \A u \in users : u.is_admin = (u.password # NoPassword)
    /\ sessions \subseteq SessionRow
    /\ tokens \subseteq TokenRow
    /\ \A u, v \in users : u.id = v.id => u = v
    /\ OneAdmin
    /\ OnlyAdminsAct

(* EnsureAdmin inserts an admin only while there is none. *)
ServerInv ==
    /\ server \in ServerStep
    /\ initial \in Password \cup {NoPassword}
    /\ told \subseteq Password
    /\ server \in {"create_admin", "read_admin", "tell"} => initial \in Password
    /\ server = "create_admin" => Admins = {}

(* The command changes the password of the admin. *)
ResetInv ==
    /\ reset \in [step : ResetStep, id : Id \cup {NoId}, password : Password \cup {NoPassword}]
    /\ reset.step \in {"set_password", "end_sessions", "tell"} =>
         IsAdminId(reset.id) /\ reset.password \in Password

(* What w does is what its request asks for. *)
JobFits(w) ==
    /\ pc[w] # "idle" => job[w] \in Job
    /\ pc[w] \in {"find_user", "insert_session"} => job[w].op = "login"
    /\ pc[w] = "authorize" => job[w].op \notin {"login", "logout"}
    /\ pc[w] = "set_password" => job[w].op = "change_password"
    /\ pc[w] = "check_name" => job[w].op \in {"create_user", "update_user"}
    /\ pc[w] = "insert_user" => job[w].op = "create_user"
    /\ pc[w] = "update_user" => job[w].op = "update_user"
    /\ pc[w] = "lookup_user" => job[w].op \in {"update_user", "delete_user", "create_token"}
    /\ pc[w] = "delete_user" => job[w].op = "delete_user"
    /\ pc[w] = "insert_token" => job[w].op = "create_token"

(* Requests are only served once EnsureAdmin is done, *)
ServesWhenUp(w) == pc[w] # "idle" => server = "serving"

(* ... the caller of an admin handler, and who is about to log in, is the  *)
(* admin,                                                                  *)
CallerIsAdmin(w) ==
    pc[w] \in AdminStep \cup {"insert_session"} => IsAdminId(me[w].id)

(* ... the user about to be deleted is somebody else, *)
SparesCaller(w) == pc[w] = "delete_user" => subject[w].id # me[w].id

(* ... and the owner of a write token about to be inserted is the admin. *)
WritesForAdmin(w) ==
    pc[w] = "insert_token" /\ job[w].scope = "write" => IsAdminId(subject[w].id)

WorkerInv(w) ==
    /\ JobFits(w) /\ ServesWhenUp(w)
    /\ CallerIsAdmin(w) /\ SparesCaller(w) /\ WritesForAdmin(w)

RequestsInv ==
    /\ pc \in [Worker -> Step]
    /\ job \in [Worker -> Job \cup {NoJob}]
    /\ me \in [Worker -> Caller \cup {NoUser}]
    /\ subject \in [Worker -> UserRow \cup {NoUser}]
    /\ \A w \in Worker : WorkerInv(w)

IInv == RowsInv /\ ServerInv /\ ResetInv /\ RequestsInv

(* While no statement fails, a stored password is known, or the process    *)
(* that has stored it is about to show it.                                 *)
WillBeTold(p) ==
    \/ p \in told
    \/ server \in {"read_admin", "tell"} /\ p = initial
    \/ reset.step \in {"end_sessions", "tell"} /\ p = reset.password

PasswordsKnown == \A u \in Admins : WillBeTold(u.password)
=============================================================================
