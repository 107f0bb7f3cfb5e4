------------------------------- MODULE Access -------------------------------
(***************************************************************************)
(* Who may install what: tokens and entitlements, the requests of          *)
(* installers (src/internal/pypi: files.go, simple.go, handler.go) and the *)
(* admin's grants (src/internal/api/users.go).  Accounts and the catalog   *)
(* change meanwhile, one SQL statement at a time: the handlers behind      *)
(* those statements are the business of Accounts and Registry.             *)
(***************************************************************************)
EXTENDS Catalog, FiniteSets

CONSTANTS Worker,    \* BOUND: how many requests are served at once
          Account,   \* the accounts ever created, whatever their row ids
          Admin,     \* the one that is_admin
          Token,     \* API tokens; plaintexts never repeat
          MaxLog,    \* BOUND: how many downloads are logged
          Operation  \* Operation[w] is what worker w is asked for

Operations == {"index", "page", "file", "metadata", "grant", "revoke"}

ASSUME AdminAssumption == Admin \in Account
ASSUME AccessOptions ==
    /\ Operation \in [Worker -> SUBSET Operations]
    /\ MaxLog \in Nat

VARIABLES users, tokens, entitlements, downloads,
          pc,     \* pc[w] is what worker w does next
          job,    \* job[w] is the request w serves
          caller, \* the user row w has read: p.User, or whom a grant is for
          pkg     \* the package row w has read

tables == <<users, tokens, entitlements, downloads>>
request == <<pc, job, caller, pkg>>
vars == <<packages, releases, files, users, tokens, entitlements, downloads,
          pc, job, caller, pkg>>

UserRow == [id : Id, account : Account]
TokenRow == [token : Token, user_id : Id, revoked : BOOLEAN]

IndexJob == [op : {"index"}, token : Token]
PageJob == [op : {"page"}, token : Token, project : Project]
FileJob == [op : {"file", "metadata"}, token : Token, filename : Filename, sha256 : Digest]
GrantJob == [op : {"grant", "revoke"}, id : Id, project : Project]
Job == IndexJob \cup PageJob \cup FileJob \cup GrantJob
NoJob == [op |-> "none"]

HeldUser == UserRow \cup {[id |-> NoId]}
HeldPackage == [id : Id, name : Project] \cup {[id |-> NoId]}
NotRead == [id |-> NoId]
Named(p) == [id |-> p.id, name |-> p.name]

(* The columns hold ids; account and name are history, whose ids they were *)
(* when the row was inserted.  NotRead is NULL.                            *)
EntitlementRow == [user : UserRow, package : [id : Id, name : Project], active : BOOLEAN]
DownloadRow == [user : HeldUser, package : HeldPackage]

Step == {"idle", "authenticate", "list_projects", "find_file", "find_package",
         "check_access", "list_files", "open", "log", "lookup_user",
         "get_package", "grant", "revoke"}

TypeOK ==
    /\ CatalogTypeOK
    /\ users \subseteq UserRow
    /\ tokens \subseteq TokenRow
    /\ entitlements \subseteq EntitlementRow
    /\ downloads \subseteq DownloadRow
    /\ pc \in [Worker -> Step]
    /\ job \in [Worker -> Job \cup {NoJob}]
    /\ caller \in [Worker -> HeldUser]
    /\ pkg \in [Worker -> HeldPackage]

(* EnsureAdmin comes before the first request. *)
Init ==
    /\ CatalogInit
    /\ users = {[id |-> 1, account |-> Admin]}
    /\ tokens = {} /\ entitlements = {} /\ downloads = {}
    /\ pc = [w \in Worker |-> "idle"]
    /\ job = [w \in Worker |-> NoJob]
    /\ caller = [w \in Worker |-> NotRead]
    /\ pkg = [w \in Worker |-> NotRead]

-----------------------------------------------------------------------------
(* Statements on accounts.                                                 *)

AddUser ==
    /\ \E id \in Id, a \in Account \ {Admin} :
          /\ IsNextId(users, id)
          /\ \A u \in users : u.account # a
          /\ users' = users \cup {[id |-> id, account |-> a]}
    /\ UNCHANGED <<catalog, tokens, entitlements, downloads, request>>

(* ON DELETE SET NULL *)
WithoutUser(id) ==
    {IF d.user.id = id THEN [d EXCEPT !.user = NotRead] ELSE d : d \in downloads}

(* Slip: ON DELETE SET NULL for entitlements as well. *)
DeleteUser_SetsNull ==
    /\ \E u \in users :
          /\ u.account # Admin
          /\ users' = users \ {u}
          /\ tokens' = {t \in tokens : t.user_id # u.id}
          /\ entitlements' = {IF e.user.id = u.id THEN [e EXCEPT !.user = NotRead] ELSE e
                                : e \in entitlements}
          /\ downloads' = WithoutUser(u.id)
    /\ UNCHANGED <<catalog, request>>

(* Slip: entitlements do not go with their user. *)
DeleteUser_KeepsEntitlements ==
    /\ \E u \in users :
          /\ u.account # Admin
          /\ users' = users \ {u}
          /\ tokens' = {t \in tokens : t.user_id # u.id}
          /\ downloads' = WithoutUser(u.id)
    /\ UNCHANGED <<catalog, entitlements, request>>

(* ON DELETE CASCADE; the admin stays, as Accounts shows. *)
DeleteUser ==
    /\ \E u \in users :
          /\ u.account # Admin
          /\ users' = users \ {u}
          /\ tokens' = {t \in tokens : t.user_id # u.id}
          /\ entitlements' = {e \in entitlements : e.user.id # u.id}
          /\ downloads' = WithoutUser(u.id)
    /\ UNCHANGED <<catalog, request>>

CreateToken ==
    /\ \E t \in Token, u \in users :
          /\ \A s \in tokens : s.token # t
          /\ tokens' = tokens \cup {[token |-> t, user_id |-> u.id, revoked |-> FALSE]}
    /\ UNCHANGED <<catalog, users, entitlements, downloads, request>>

RevokeToken ==
    /\ \E t \in tokens :
          tokens' = (tokens \ {t}) \cup {[t EXCEPT !.revoked = TRUE]}
    /\ UNCHANGED <<catalog, users, entitlements, downloads, request>>

-----------------------------------------------------------------------------
(* Statements on the catalog, with what they do to the rows that refer to  *)
(* packages.  Summaries and yanking do not matter here.                    *)

(* Slip: a download keeps the id of a package that is gone. *)
WithoutPackage_Kept(id) == downloads

WithoutPackage(id) ==
    {IF d.package.id = id THEN [d EXCEPT !.package = NotRead] ELSE d : d \in downloads}

RemovePackage ==
    /\ \E p \in packages :
          /\ DeletePackage(p.id)
          /\ entitlements' = {e \in entitlements : e.package.id # p.id}
          /\ downloads' = WithoutPackage(p.id)
    /\ UNCHANGED <<users, tokens, request>>

(* Uploads, and the deletes of releases. *)
ChangeReleases ==
    /\ \/ \E n \in Project, v \in Version : InsertPackage(n, v)
       \/ \E p \in packages, v \in Version : InsertRelease(p.id, v)
       \/ \E r \in releases, f \in Filename, d \in Digest :
             MayCreateFile(r.id, f) /\ CreateFile(r.id, f, d)
       \/ \E r \in releases : DeleteRelease(r.id)
    /\ UNCHANGED <<tables, request>>

-----------------------------------------------------------------------------
(* Requests.  Any statement may find nothing, or fail: the handler then    *)
(* answers with an error and is done, Finish.                              *)

InFlight(op) == {w \in Worker : pc[w] # "idle" /\ job[w].op = op}

(* BOUND: the log has room for the downloads in flight, and no grant to    *)
(* the admin, who has access to everything, is made or revoked.            *)
Bounded(j) ==
    /\ j.op = "file" => Cardinality(downloads) + Cardinality(InFlight("file")) < MaxLog
    /\ j.op \in {"grant", "revoke"} => \A u \in users : u.account = Admin => u.id # j.id

Start(w, j) ==
    /\ pc[w] = "idle"
    /\ j.op \in Operation[w] /\ Bounded(j)
    /\ pc' = [pc EXCEPT ![w] = IF j.op \in {"grant", "revoke"} THEN "lookup_user" ELSE "authenticate"]
    /\ job' = [job EXCEPT ![w] = j]
    /\ UNCHANGED <<catalog, tables, caller, pkg>>

At(w, step) == pc[w] = step

Goto(w, step) ==
    /\ pc' = [pc EXCEPT ![w] = step]
    /\ UNCHANGED job

Finish(w) ==
    /\ pc' = [pc EXCEPT ![w] = "idle"]
    /\ job' = [job EXCEPT ![w] = NoJob]
    /\ caller' = [caller EXCEPT ![w] = NotRead]
    /\ pkg' = [pkg EXCEPT ![w] = NotRead]

AfterAuthenticate(op) ==
    CASE op = "index" -> "list_projects"
      [] op = "page" -> "find_package"
      [] OTHER -> "find_file"

(* ActiveTokenByHash; TouchToken only dates the last use. *)
Authenticate(w) ==
    /\ At(w, "authenticate")
    /\ \/ Finish(w)
       \/ \E t \in tokens, u \in users :
             /\ t.token = job[w].token /\ ~ t.revoked /\ t.user_id = u.id
             /\ caller' = [caller EXCEPT ![w] = u]
             /\ Goto(w, AfterAuthenticate(job[w].op))
             /\ UNCHANGED pkg
    /\ UNCHANGED <<catalog, tables>>

IsAdmin(u) == u.account = Admin

(* Slip: an entitlement never expires. *)
HasAccess_Expired(uid, pid) ==
    \E e \in entitlements : e.user.id = uid /\ e.package.id = pid

HasAccess(uid, pid) ==
    \E e \in entitlements : e.user.id = uid /\ e.package.id = pid /\ e.active

(* ListPackages, or ListPackagesForUser *)
Listed(w) == {p \in packages : IsAdmin(caller[w]) \/ HasAccess(caller[w].id, p.id)}

ListProjects(w) ==
    /\ At(w, "list_projects")
    /\ Finish(w)
    /\ UNCHANGED <<catalog, tables>>

FindPackage(w) ==
    /\ At(w, "find_package") \/ At(w, "get_package")
    /\ \/ Finish(w)
       \/ \E p \in packages :
             /\ p.name = job[w].project
             /\ pkg' = [pkg EXCEPT ![w] = Named(p)]
             /\ Goto(w, IF At(w, "find_package") THEN "check_access" ELSE job[w].op)
             /\ UNCHANGED caller
    /\ UNCHANGED <<catalog, tables>>

(* FileByName joins files, releases and packages. *)
FindFile(w) ==
    /\ At(w, "find_file")
    /\ \/ Finish(w)
       \/ \E p \in packages : \E f \in PackageFiles(p.id) :
             /\ f.filename = job[w].filename /\ f.sha256 = job[w].sha256
             /\ pkg' = [pkg EXCEPT ![w] = Named(p)]
             /\ Goto(w, "check_access")
             /\ UNCHANGED caller
    /\ UNCHANGED <<catalog, tables>>

CanAccess(w) == IsAdmin(caller[w]) \/ HasAccess(caller[w].id, pkg[w].id)

CheckAccess(w) ==
    /\ At(w, "check_access")
    /\ \/ Finish(w)
       \/ /\ CanAccess(w)
          /\ Goto(w, IF job[w].op = "page" THEN "list_files" ELSE "open")
          /\ UNCHANGED <<caller, pkg>>
    /\ UNCHANGED <<catalog, tables>>

ListFiles(w) ==
    /\ At(w, "list_files")
    /\ Finish(w)
    /\ UNCHANGED <<catalog, tables>>

(* SignedURL or Open; only archives are logged. *)
Open(w) ==
    /\ At(w, "open")
    /\ \/ Finish(w)
       \/ /\ job[w].op = "file"
          /\ Goto(w, "log")
          /\ UNCHANGED <<caller, pkg>>
    /\ UNCHANGED <<catalog, tables>>

(* A failing INSERT, for one because a row it refers to is gone, is only   *)
(* logged.                                                                 *)
LogDownload(w) ==
    /\ At(w, "log")
    /\ \/ UNCHANGED downloads
       \/ \E u \in users, p \in packages :
             /\ u.id = caller[w].id /\ p.id = pkg[w].id
             /\ downloads' = downloads \cup
                {[user |-> u, package |-> Named(p)]}
    /\ Finish(w)
    /\ UNCHANGED <<catalog, users, tokens, entitlements>>

LookupUser(w) ==
    /\ At(w, "lookup_user")
    /\ \/ Finish(w)
       \/ \E u \in users :
             /\ u.id = job[w].id
             /\ caller' = [caller EXCEPT ![w] = u]
             /\ Goto(w, "get_package")
             /\ UNCHANGED pkg
    /\ UNCHANGED <<catalog, tables>>

Others(uid, pid) ==
    {e \in entitlements : ~ (e.user.id = uid /\ e.package.id = pid)}

(* INSERT ... ON CONFLICT (user_id, package_id) DO UPDATE; expires_at may  *)
(* be past already.                                                        *)
GrantEntitlement(w) ==
    /\ At(w, "grant")
    /\ \/ UNCHANGED entitlements
       \/ \E u \in users, p \in packages, active \in BOOLEAN :
             /\ u.id = caller[w].id /\ p.id = pkg[w].id
             /\ entitlements' = Others(u.id, p.id) \cup
                   {[user |-> u, package |-> Named(p), active |-> active]}
    /\ Finish(w)
    /\ UNCHANGED <<catalog, users, tokens, downloads>>

RevokeEntitlement(w) ==
    /\ At(w, "revoke")
    /\ entitlements' \in {entitlements, Others(caller[w].id, pkg[w].id)}
    /\ Finish(w)
    /\ UNCHANGED <<catalog, users, tokens, downloads>>

(* The time in expires_at passes. *)
EntitlementExpires ==
    /\ \E e \in entitlements :
          entitlements' = (entitlements \ {e}) \cup {[e EXCEPT !.active = FALSE]}
    /\ UNCHANGED <<catalog, users, tokens, downloads, request>>

Serve(w) ==
    \/ Authenticate(w) \/ ListProjects(w)
    \/ FindPackage(w) \/ FindFile(w) \/ CheckAccess(w) \/ ListFiles(w)
    \/ Open(w) \/ LogDownload(w)
    \/ LookupUser(w) \/ GrantEntitlement(w) \/ RevokeEntitlement(w)

Elsewhere ==
    \/ AddUser \/ DeleteUser \/ CreateToken \/ RevokeToken
    \/ RemovePackage \/ ChangeReleases \/ EntitlementExpires

Next ==
    \/ \E w \in Worker : (\E j \in Job : Start(w, j)) \/ Serve(w)
    \/ Elsewhere

Spec == Init /\ [][Next]_vars

-----------------------------------------------------------------------------
(* Properties.                                                             *)

Entitled(account, project) ==
    \E e \in entitlements, u \in users, p \in packages :
        /\ e.active
        /\ u.id = e.user.id /\ u.account = account
        /\ p.id = e.package.id /\ p.name = project

(* No account or project has been given the ids w holds since it read them. *)
StillNamed(w) ==
    /\ \A u \in users : u.id = caller[w].id => u = caller[w]
    /\ \A p \in packages : p.id = pkg[w].id => Named(p) = pkg[w]

(* What a request lets through is what its caller is entitled to at that   *)
(* moment, although user and package are looked up by earlier statements   *)
(* and may be deleted since (canAccess, handler.go:63; "only the projects  *)
(* the caller may install", simple.go:14).  Only who has been given the    *)
(* very ids meanwhile is taken for them.                                   *)
AccessIsTheCallers ==
    [][\A w \in Worker : StillNamed(w) =>
          /\ At(w, "check_access") /\ pc'[w] \in {"list_files", "open"} =>
               IsAdmin(caller[w]) \/ Entitled(caller[w].account, pkg[w].name)
          /\ At(w, "list_projects") /\ pc'[w] = "idle" =>
               \A p \in Listed(w) : IsAdmin(caller[w]) \/ Entitled(caller[w].account, p.name)
      ]_vars

(* An entitlement stays with the account and the project it was inserted   *)
(* for, and is never left to who gets their ids later (0001_init.sql:67).  *)
GrantsStayWithTheirUser ==
    \A e \in entitlements : e.user \in users /\ \E p \in packages : Named(p) = e.package

(* A line of the download log names the account and the project it was     *)
(* inserted for; when either is deleted it names nobody, rather than who   *)
(* gets the id next (0001_init.sql:77).                                    *)
LogNamesTheCaller ==
    \A d \in downloads :
        /\ d.user # NotRead => d.user \in users
        /\ d.package # NotRead => \E p \in packages : Named(p) = d.package
=============================================================================
