---------------------------- MODULE AccessProofs ----------------------------
(***************************************************************************)
(* Proofs about Access: what is let through is what the caller is entitled *)
(* to, and what rows say of users and projects stays true when their ids   *)
(* are given to others.                                                    *)
(***************************************************************************)
EXTENDS AccessInv, CatalogProofs

LEMMA NoIdIsNoRow == NoId \notin Id
  BY DEF NoId, Id

-----------------------------------------------------------------------------
(* Statements of other handlers.                                           *)

LEMMA RequestsStand ==
    ASSUME RequestsOK, UNCHANGED request
    PROVE  RequestsOK'
  BY DEF RequestsOK, request

LEMMA AddUserStep ==
    ASSUME IInv, AddUser
    PROVE  IInv'
<1>1. PICK id \in Id, a \in Account :
         /\ IsNextId(users, id)
         /\ users' = users \cup {[id |-> id, account |-> a]}
  BY DEF AddUser
<1> DEFINE row == [id |-> id, account |-> a]
<1>2. row \in UserRow /\ row.id = id
  BY DEF UserRow
<1>3. users' = users \cup {row}
  BY <1>1
<1> HIDE DEF row
<1>4. \A u \in users : u.id # row.id
  BY <1>1, <1>2, NextIdIsNew
<1>5. UNCHANGED <<packages, releases, files, tokens, entitlements, downloads, request>>
  BY DEF AddUser, catalog
<1>6. RowsOK'
  <2>1. CatalogTypeOK' /\ ForeignKeys' /\ UniqueRows'
    BY <1>5, UnchangedOK DEF IInv, RowsOK, CatalogOK, catalog
  <2>2. \A u, v \in users' : u.id = v.id => u = v
    BY <1>3, <1>4 DEF IInv, RowsOK
  <2> QED BY <1>2, <1>3, <1>5, <2>1, <2>2 DEF IInv, RowsOK
<1>7. RequestsOK'
  BY <1>5, RequestsStand DEF IInv
<1>8. GrantsStayWithTheirUser' /\ LogNamesTheCaller'
  BY <1>3, <1>5 DEF IInv, GrantsStayWithTheirUser, LogNamesTheCaller
<1> QED BY <1>6, <1>7, <1>8 DEF IInv

LEMMA DeleteUserStep ==
    ASSUME IInv, DeleteUser
    PROVE  IInv'
<1>1. PICK u \in users :
         /\ users' = users \ {u}
         /\ tokens' = {t \in tokens : t.user_id # u.id}
         /\ entitlements' = {e \in entitlements : e.user.id # u.id}
         /\ downloads' = WithoutUser(u.id)
  BY DEF DeleteUser
<1>2. UNCHANGED <<packages, releases, files, request>>
  BY DEF DeleteUser, catalog
<1> DEFINE unnamed(d) == IF d.user.id = u.id THEN [d EXCEPT !.user = NotRead] ELSE d
<1>3. downloads' = {unnamed(d) : d \in downloads}
  BY <1>1 DEF WithoutUser
<1>4. \A d \in downloads :
         /\ unnamed(d) \in DownloadRow
         /\ unnamed(d).user = IF d.user.id = u.id THEN NotRead ELSE d.user
         /\ unnamed(d).package = d.package
  BY DEF IInv, RowsOK, DownloadRow, HeldUser, NotRead
<1> HIDE DEF unnamed
<1>5. RowsOK'
  <2>1. CatalogTypeOK' /\ ForeignKeys' /\ UniqueRows'
    BY <1>2, UnchangedOK DEF IInv, RowsOK, CatalogOK, catalog
  <2>2. downloads' \subseteq DownloadRow
    BY <1>3, <1>4
  <2> QED BY <1>1, <2>1, <2>2 DEF IInv, RowsOK
<1>6. RequestsOK'
  BY <1>2, RequestsStand DEF IInv
<1>7. \A v \in users : v.id # u.id => v \in users'
  BY <1>1
<1>8. GrantsStayWithTheirUser'
  BY <1>1, <1>2, <1>7 DEF IInv, GrantsStayWithTheirUser
<1>9. LogNamesTheCaller'
  <2>1. ASSUME NEW d \in downloads
        PROVE  /\ unnamed(d).user # NotRead => unnamed(d).user \in users'
               /\ unnamed(d).package # NotRead =>
                     \E p \in packages' : Named(p) = unnamed(d).package
    BY <1>2, <1>4, <1>7 DEF IInv, LogNamesTheCaller
  <2> QED BY <1>3, <2>1 DEF LogNamesTheCaller
<1> QED BY <1>5, <1>6, <1>8, <1>9 DEF IInv

LEMMA TokenStep ==
    ASSUME IInv, CreateToken \/ RevokeToken
    PROVE  IInv'
<1>1. UNCHANGED <<packages, releases, files, users, entitlements, downloads, request>>
  BY DEF CreateToken, RevokeToken, catalog
<1>2. tokens' \subseteq TokenRow
  <2>1. CASE CreateToken
    <3>1. PICK t \in Token, u \in users :
             tokens' = tokens \cup {[token |-> t, user_id |-> u.id, revoked |-> FALSE]}
      BY <2>1 DEF CreateToken
    <3>2. u.id \in Id
      BY DEF IInv, RowsOK, UserRow
    <3>3. [token |-> t, user_id |-> u.id, revoked |-> FALSE] \in TokenRow
      BY <3>2 DEF TokenRow
    <3> QED BY <3>1, <3>3 DEF IInv, RowsOK
  <2>2. CASE RevokeToken
    <3>1. PICK t \in tokens : tokens' = (tokens \ {t}) \cup {[t EXCEPT !.revoked = TRUE]}
      BY <2>2 DEF RevokeToken
    <3>2. t \in TokenRow
      BY DEF IInv, RowsOK
    <3>3. [t EXCEPT !.revoked = TRUE] \in TokenRow
      BY <3>2 DEF TokenRow
    <3> QED BY <3>1, <3>3 DEF IInv, RowsOK
  <2> QED BY <2>1, <2>2
<1>3. CatalogTypeOK' /\ ForeignKeys' /\ UniqueRows'
  BY <1>1, UnchangedOK DEF IInv, RowsOK, CatalogOK, catalog
<1>4. RowsOK'
  BY <1>1, <1>2, <1>3 DEF IInv, RowsOK
<1>5. RequestsOK'
  BY <1>1, RequestsStand DEF IInv
<1>6. GrantsStayWithTheirUser' /\ LogNamesTheCaller'
  BY <1>1 DEF IInv, GrantsStayWithTheirUser, LogNamesTheCaller
<1> QED BY <1>4, <1>5, <1>6 DEF IInv

LEMMA RemovePackageStep ==
    ASSUME IInv, RemovePackage
    PROVE  IInv'
<1>1. PICK p \in packages :
         /\ DeletePackage(p.id)
         /\ entitlements' = {e \in entitlements : e.package.id # p.id}
         /\ downloads' = WithoutPackage(p.id)
  BY DEF RemovePackage
<1>2. packages' = {q \in packages : q.id # p.id} /\ UNCHANGED <<users, tokens, request>>
  BY <1>1 DEF RemovePackage, DeletePackage
<1> DEFINE unnamed(d) == IF d.package.id = p.id THEN [d EXCEPT !.package = NotRead] ELSE d
<1>3. downloads' = {unnamed(d) : d \in downloads}
  BY <1>1 DEF WithoutPackage
<1>4. \A d \in downloads :
         /\ unnamed(d) \in DownloadRow
         /\ unnamed(d).package = IF d.package.id = p.id THEN NotRead ELSE d.package
         /\ unnamed(d).user = d.user
  BY DEF IInv, RowsOK, DownloadRow, HeldPackage, NotRead
<1> HIDE DEF unnamed
<1>5. RowsOK'
  <2>1. CatalogTypeOK' /\ ForeignKeys' /\ UniqueRows'
    BY <1>1, DeletePackageOK DEF IInv, RowsOK, CatalogOK
  <2>2. downloads' \subseteq DownloadRow
    BY <1>3, <1>4
  <2> QED BY <1>1, <1>2, <2>1, <2>2 DEF IInv, RowsOK
<1>6. RequestsOK'
  BY <1>2, RequestsStand DEF IInv
<1>7. \A q \in packages : Named(q).id # p.id => q \in packages'
  BY <1>2 DEF Named
<1>8. GrantsStayWithTheirUser'
  <2>1. \A e \in entitlements' : e \in entitlements /\ e.package.id # p.id
    BY <1>1
  <2> QED BY <1>2, <1>7, <2>1 DEF IInv, GrantsStayWithTheirUser
<1>9. LogNamesTheCaller'
  <2>1. ASSUME NEW d \in downloads
        PROVE  /\ unnamed(d).user # NotRead => unnamed(d).user \in users'
               /\ unnamed(d).package # NotRead =>
                     \E q \in packages' : Named(q) = unnamed(d).package
    BY <1>2, <1>4, <1>7 DEF IInv, LogNamesTheCaller
  <2> QED BY <1>3, <2>1 DEF LogNamesTheCaller
<1> QED BY <1>5, <1>6, <1>8, <1>9 DEF IInv

(* What becomes of releases and files does not matter to what names        *)
(* packages.                                                               *)
LEMMA ChangeReleasesStep ==
    ASSUME IInv, ChangeReleases
    PROVE  IInv'
<1>1. UNCHANGED <<users, tokens, entitlements, downloads, request>>
  BY DEF ChangeReleases, tables
<1>2. CatalogOK
  BY DEF IInv, RowsOK, CatalogOK
<1>3. CatalogOK' /\ packages \subseteq packages'
  <2>1. CASE \E n \in Project, v \in Version : InsertPackage(n, v)
    <3>1. PICK n \in Project, v \in Version : InsertPackage(n, v)
      BY <2>1
    <3>2. CatalogOK'
      BY <1>2, <3>1, InsertPackageOK
    <3> QED BY <3>1, <3>2 DEF InsertPackage
  <2>2. CASE \E p \in packages, v \in Version : InsertRelease(p.id, v)
    <3>1. PICK p \in packages, v \in Version : InsertRelease(p.id, v)
      BY <2>2
    <3>2. p.id \in Id /\ MayInsertRelease(p.id)
      BY <1>2 DEF CatalogOK, CatalogTypeOK, PackageRow, MayInsertRelease
    <3>3. CatalogOK'
      BY <1>2, <3>1, <3>2, InsertReleaseOK
    <3> QED BY <3>1, <3>3 DEF InsertRelease
  <2>3. CASE \E r \in releases, f \in Filename, d \in Digest :
                MayCreateFile(r.id, f) /\ CreateFile(r.id, f, d)
    <3>1. PICK r \in releases, f \in Filename, d \in Digest :
             MayCreateFile(r.id, f) /\ CreateFile(r.id, f, d)
      BY <2>3
    <3>2. r.id \in Id
      BY <1>2 DEF CatalogOK, CatalogTypeOK, ReleaseRow
    <3>3. CatalogOK'
      BY <1>2, <3>1, <3>2, CreateFileOK
    <3> QED BY <3>1, <3>3 DEF CreateFile
  <2>4. CASE \E r \in releases : DeleteRelease(r.id)
    <3>1. PICK r \in releases : DeleteRelease(r.id)
      BY <2>4
    <3>2. CatalogOK'
      BY <1>2, <3>1, DeleteReleaseOK
    <3> QED BY <3>1, <3>2 DEF DeleteRelease
  <2> QED BY <2>1, <2>2, <2>3, <2>4 DEF ChangeReleases
<1>4. RowsOK'
  BY <1>1, <1>3 DEF IInv, RowsOK, CatalogOK
<1>5. RequestsOK'
  BY <1>1, RequestsStand DEF IInv
<1>6. GrantsStayWithTheirUser' /\ LogNamesTheCaller'
  BY <1>1, <1>3 DEF IInv, GrantsStayWithTheirUser, LogNamesTheCaller
<1> QED BY <1>4, <1>5, <1>6 DEF IInv

LEMMA ExpiryStep ==
    ASSUME IInv, EntitlementExpires
    PROVE  IInv'
<1>1. PICK e \in entitlements :
         entitlements' = (entitlements \ {e}) \cup {[e EXCEPT !.active = FALSE]}
  BY DEF EntitlementExpires
<1> DEFINE ended == [e EXCEPT !.active = FALSE]
<1>2. /\ ended \in EntitlementRow
      /\ ended.user = e.user /\ ended.package = e.package
  BY DEF IInv, RowsOK, EntitlementRow
<1>3. entitlements' = (entitlements \ {e}) \cup {ended}
  BY <1>1
<1> HIDE DEF ended
<1>4. UNCHANGED <<packages, releases, files, users, tokens, downloads, request>>
  BY DEF EntitlementExpires, catalog
<1>5. CatalogTypeOK' /\ ForeignKeys' /\ UniqueRows'
  BY <1>4, UnchangedOK DEF IInv, RowsOK, CatalogOK, catalog
<1>6. RowsOK'
  BY <1>2, <1>3, <1>4, <1>5 DEF IInv, RowsOK
<1>7. RequestsOK'
  BY <1>4, RequestsStand DEF IInv
<1>8. GrantsStayWithTheirUser' /\ LogNamesTheCaller'
  BY <1>2, <1>3, <1>4 DEF IInv, GrantsStayWithTheirUser, LogNamesTheCaller
<1> QED BY <1>6, <1>7, <1>8 DEF IInv
-----------------------------------------------------------------------------
(* Steps of requests.                                                      *)

LEMMA ReadStep ==
    ASSUME IInv, UNCHANGED <<catalog, tables>>, RequestsOK'
    PROVE  IInv'
<1>1. UNCHANGED <<packages, releases, files, users, tokens, entitlements, downloads>>
  BY DEF catalog, tables
<1>2. RowsOK'
  <2>1. CatalogTypeOK' /\ ForeignKeys' /\ UniqueRows'
    BY <1>1, UnchangedOK DEF IInv, RowsOK, CatalogOK, catalog
  <2> QED BY <1>1, <2>1 DEF IInv, RowsOK
<1>3. GrantsStayWithTheirUser' /\ LogNamesTheCaller'
  BY <1>1 DEF IInv, GrantsStayWithTheirUser, LogNamesTheCaller
<1> QED BY <1>2, <1>3 DEF IInv

LEMMA FinishOK ==
    ASSUME IInv, NEW w \in Worker, Finish(w)
    PROVE  RequestsOK'
<1>1. "idle" \in Step /\ NoJob \in Job \cup {NoJob}
  BY DEF Step
<1>2. NotRead \in HeldUser /\ NotRead \in HeldPackage
  BY DEF NotRead, HeldUser, HeldPackage
<1>3. /\ pc' \in [Worker -> Step]
      /\ job' \in [Worker -> Job \cup {NoJob}]
      /\ caller' \in [Worker -> HeldUser]
      /\ pkg' \in [Worker -> HeldPackage]
  BY <1>1, <1>2 DEF IInv, RequestsOK, Finish
<1>4. ASSUME NEW v \in Worker, pc'[v] \in {"lookup_user", "get_package"}
      PROVE  job'[v].op \in {"grant", "revoke"}
  <2>1. v # w
    BY <1>4 DEF Finish, IInv, RequestsOK
  <2> QED BY <1>4, <2>1 DEF Finish, IInv, RequestsOK
<1> QED BY <1>3, <1>4 DEF RequestsOK

LEMMA FinishStep ==
    ASSUME IInv, NEW w \in Worker, Finish(w), UNCHANGED <<catalog, tables>>
    PROVE  IInv'
BY FinishOK, ReadStep

(* A step that reads a user, a package or neither, and goes on.            *)
LEMMA GotoStep ==
    ASSUME IInv, NEW w \in Worker, NEW step \in Step, Goto(w, step),
           step = "get_package" => job[w].op \in {"grant", "revoke"}, step # "lookup_user",
           caller' = caller \/ \E u \in users : caller' = [caller EXCEPT ![w] = u],
           pkg' = pkg \/ \E p \in packages :
                            pkg' = [pkg EXCEPT ![w] = Named(p)],
           UNCHANGED <<catalog, tables>>
    PROVE  IInv'
<1>2. caller' \in [Worker -> HeldUser]
  BY DEF IInv, RowsOK, RequestsOK, HeldUser
<1>3. pkg' \in [Worker -> HeldPackage]
  <2>1. \A p \in packages : Named(p) \in HeldPackage
    BY DEF IInv, RowsOK, CatalogTypeOK, PackageRow, HeldPackage, Named
  <2> QED BY <2>1 DEF IInv, RequestsOK
<1>4. RequestsOK'
  <2>1. pc' \in [Worker -> Step] /\ job' = job
    BY DEF Goto, IInv, RequestsOK
  <2>2. ASSUME NEW v \in Worker, pc'[v] \in {"lookup_user", "get_package"}
        PROVE  job'[v].op \in {"grant", "revoke"}
    BY <2>2 DEF Goto, IInv, RequestsOK
  <2> QED BY <1>2, <1>3, <2>1, <2>2 DEF IInv, RequestsOK
<1> QED BY <1>4, ReadStep

LEMMA StartStep ==
    ASSUME IInv, NEW w \in Worker, NEW j \in Job, Start(w, j)
    PROVE  IInv'
<1>1. UNCHANGED <<catalog, tables, caller, pkg>>
  BY DEF Start
<1>2. RequestsOK'
  <2>1. pc' \in [Worker -> Step] /\ job' \in [Worker -> Job \cup {NoJob}]
    BY DEF Start, IInv, RequestsOK, Step
  <2>2. ASSUME NEW v \in Worker, pc'[v] \in {"lookup_user", "get_package"}
        PROVE  job'[v].op \in {"grant", "revoke"}
    BY <2>2 DEF Start, IInv, RequestsOK
  <2> QED BY <1>1, <2>1, <2>2 DEF IInv, RequestsOK
<1> QED BY <1>1, <1>2, ReadStep

LEMMA AuthenticateStep ==
    ASSUME IInv, NEW w \in Worker, Authenticate(w)
    PROVE  IInv'
<1>1. UNCHANGED <<catalog, tables>>
  BY DEF Authenticate
<1>2. CASE Finish(w)
  BY <1>1, <1>2, FinishStep
<1>3. CASE ~ Finish(w)
  <2>1. PICK u \in users : /\ caller' = [caller EXCEPT ![w] = u]
                           /\ Goto(w, AfterAuthenticate(job[w].op))
                           /\ UNCHANGED pkg
    BY <1>3 DEF Authenticate
  <2>2. AfterAuthenticate(job[w].op) \in Step \ {"get_package", "lookup_user"}
    BY DEF AfterAuthenticate, Step
  <2> HIDE DEF AfterAuthenticate
  <2> QED BY <1>1, <2>1, <2>2, GotoStep
<1> QED BY <1>2, <1>3

LEMMA LookupUserStep ==
    ASSUME IInv, NEW w \in Worker, LookupUser(w)
    PROVE  IInv'
<1>1. UNCHANGED <<catalog, tables>>
  BY DEF LookupUser
<1>2. CASE Finish(w)
  BY <1>1, <1>2, FinishStep
<1>3. CASE ~ Finish(w)
  <2>1. PICK u \in users : /\ caller' = [caller EXCEPT ![w] = u]
                           /\ Goto(w, "get_package")
                           /\ UNCHANGED pkg
    BY <1>3 DEF LookupUser
  <2>2. "get_package" \in Step /\ job[w].op \in {"grant", "revoke"}
    BY DEF LookupUser, At, Step, IInv, RequestsOK
  <2> QED BY <1>1, <2>1, <2>2, GotoStep
<1> QED BY <1>2, <1>3

LEMMA FindPackageStep ==
    ASSUME IInv, NEW w \in Worker, FindPackage(w)
    PROVE  IInv'
<1>1. UNCHANGED <<catalog, tables>>
  BY DEF FindPackage
<1>2. CASE Finish(w)
  BY <1>1, <1>2, FinishStep
<1>3. CASE ~ Finish(w)
  <2> DEFINE next == IF At(w, "find_package") THEN "check_access" ELSE job[w].op
  <2>1. PICK p \in packages : /\ pkg' = [pkg EXCEPT ![w] = Named(p)]
                              /\ Goto(w, next)
                              /\ UNCHANGED caller
    BY <1>3 DEF FindPackage
  <2>2. next \in {"check_access", "grant", "revoke"}
    BY DEF FindPackage, At, IInv, RequestsOK
  <2>3. next \in Step \ {"get_package", "lookup_user"}
    BY <2>2 DEF Step
  <2> HIDE DEF next
  <2> QED BY <1>1, <2>1, <2>3, GotoStep
<1> QED BY <1>2, <1>3

LEMMA FindFileStep ==
    ASSUME IInv, NEW w \in Worker, FindFile(w)
    PROVE  IInv'
<1>1. UNCHANGED <<catalog, tables>>
  BY DEF FindFile
<1>2. CASE Finish(w)
  BY <1>1, <1>2, FinishStep
<1>3. CASE ~ Finish(w)
  <2>1. PICK p \in packages : /\ pkg' = [pkg EXCEPT ![w] = Named(p)]
                              /\ Goto(w, "check_access")
                              /\ UNCHANGED caller
    BY <1>3 DEF FindFile
  <2>2. "check_access" \in Step
    BY DEF Step
  <2> QED BY <1>1, <2>1, <2>2, GotoStep
<1> QED BY <1>2, <1>3

LEMMA CheckAccessStep ==
    ASSUME IInv, NEW w \in Worker, CheckAccess(w)
    PROVE  IInv'
<1>1. UNCHANGED <<catalog, tables>>
  BY DEF CheckAccess
<1>2. CASE Finish(w)
  BY <1>1, <1>2, FinishStep
<1>3. CASE ~ Finish(w)
  <2> DEFINE next == IF job[w].op = "page" THEN "list_files" ELSE "open"
  <2>1. Goto(w, next) /\ UNCHANGED <<caller, pkg>>
    BY <1>3 DEF CheckAccess
  <2>2. next \in Step \ {"get_package", "lookup_user"}
    BY DEF Step
  <2> HIDE DEF next
  <2> QED BY <1>1, <2>1, <2>2, GotoStep
<1> QED BY <1>2, <1>3

LEMMA ServeOutStep ==
    ASSUME IInv, NEW w \in Worker, ListProjects(w) \/ ListFiles(w) \/ Open(w)
    PROVE  IInv'
<1>1. UNCHANGED <<catalog, tables>>
  BY DEF ListProjects, ListFiles, Open
<1>2. CASE Finish(w)
  BY <1>1, <1>2, FinishStep
<1>3. CASE ~ Finish(w)
  <2>1. Goto(w, "log") /\ UNCHANGED <<caller, pkg>>
    BY <1>3 DEF ListProjects, ListFiles, Open
  <2>2. "log" \in Step
    BY DEF Step
  <2> QED BY <1>1, <2>1, <2>2, GotoStep
<1> QED BY <1>2, <1>3

-----------------------------------------------------------------------------
(* Rows a request writes from what it has read.                            *)

LEMMA RowsNamed ==
    ASSUME IInv, NEW u \in users, NEW p \in packages
    PROVE  u \in UserRow /\ Named(p) \in [id : Id, name : Project] /\ Named(p).id = p.id
BY DEF IInv, RowsOK, CatalogTypeOK, PackageRow, Named

LEMMA LogDownloadStep ==
    ASSUME IInv, NEW w \in Worker, LogDownload(w)
    PROVE  IInv'
<1>1. UNCHANGED <<catalog, users, tokens, entitlements>> /\ Finish(w)
  BY DEF LogDownload
<1>2. CASE UNCHANGED downloads
  BY <1>1, <1>2, FinishStep DEF tables
<1>3. CASE downloads' # downloads
  <2>1. PICK u \in users, p \in packages :
           downloads' = downloads \cup {[user |-> u, package |-> Named(p)]}
    BY <1>3 DEF LogDownload
  <2> DEFINE row == [user |-> u, package |-> Named(p)]
  <2>2. row \in DownloadRow
    BY RowsNamed DEF DownloadRow, HeldUser, HeldPackage
  <2>3. row.user = u /\ row.package = Named(p) /\ downloads' = downloads \cup {row}
    BY <2>1
  <2> HIDE DEF row
  <2>4. CatalogTypeOK' /\ ForeignKeys' /\ UniqueRows'
    BY <1>1, UnchangedOK DEF IInv, RowsOK, CatalogOK
  <2>5. RowsOK'
    BY <1>1, <2>2, <2>3, <2>4 DEF IInv, RowsOK
  <2>6. packages' = packages
    BY <1>1 DEF catalog
  <2>7. GrantsStayWithTheirUser' /\ LogNamesTheCaller'
    BY <1>1, <2>3, <2>6 DEF IInv, GrantsStayWithTheirUser, LogNamesTheCaller
  <2> QED BY <1>1, <2>5, <2>7, FinishOK DEF IInv
<1> QED BY <1>2, <1>3

LEMMA GrantStep ==
    ASSUME IInv, NEW w \in Worker, GrantEntitlement(w)
    PROVE  IInv'
<1>1. UNCHANGED <<catalog, users, tokens, downloads>> /\ Finish(w)
  BY DEF GrantEntitlement
<1>2. CASE UNCHANGED entitlements
  BY <1>1, <1>2, FinishStep DEF tables
<1>3. CASE entitlements' # entitlements
  <2>1. PICK u \in users, p \in packages, active \in BOOLEAN :
           entitlements' = Others(u.id, p.id) \cup
              {[user |-> u, package |-> Named(p), active |-> active]}
    BY <1>3 DEF GrantEntitlement
  <2> DEFINE row == [user |-> u, package |-> Named(p), active |-> active]
  <2>2. row \in EntitlementRow
    BY RowsNamed DEF EntitlementRow
  <2>3. /\ row.user = u /\ row.package = Named(p)
        /\ entitlements' \subseteq entitlements \cup {row}
    BY <2>1 DEF Others
  <2> HIDE DEF row
  <2>4. CatalogTypeOK' /\ ForeignKeys' /\ UniqueRows'
    BY <1>1, UnchangedOK DEF IInv, RowsOK, CatalogOK
  <2>5. RowsOK'
    BY <1>1, <2>2, <2>3, <2>4 DEF IInv, RowsOK
  <2>6. packages' = packages
    BY <1>1 DEF catalog
  <2>7. GrantsStayWithTheirUser' /\ LogNamesTheCaller'
    BY <1>1, <2>3, <2>6 DEF IInv, GrantsStayWithTheirUser, LogNamesTheCaller
  <2> QED BY <1>1, <2>5, <2>7, FinishOK DEF IInv
<1> QED BY <1>2, <1>3

LEMMA RevokeStep ==
    ASSUME IInv, NEW w \in Worker, RevokeEntitlement(w)
    PROVE  IInv'
<1>1. UNCHANGED <<catalog, users, tokens, downloads>> /\ Finish(w)
  BY DEF RevokeEntitlement
<1>2. entitlements' \subseteq entitlements
  BY DEF RevokeEntitlement, Others
<1>3. CatalogTypeOK' /\ ForeignKeys' /\ UniqueRows'
  BY <1>1, UnchangedOK DEF IInv, RowsOK, CatalogOK
<1>4. RowsOK'
  BY <1>1, <1>2, <1>3 DEF IInv, RowsOK
<1>5. packages' = packages
  BY <1>1 DEF catalog
<1>6. GrantsStayWithTheirUser' /\ LogNamesTheCaller'
  BY <1>1, <1>2, <1>5 DEF IInv, GrantsStayWithTheirUser, LogNamesTheCaller
<1> QED BY <1>1, <1>4, <1>6, FinishOK DEF IInv

-----------------------------------------------------------------------------
(* The invariant, and what follows from it.                                *)

LEMMA InitIInv == Init => IInv
<1> SUFFICES ASSUME Init PROVE IInv
  OBVIOUS
<1>1. CatalogOK
  BY InitOK DEF Init
<1>2. 1 \in Id
  BY MaxIdAssumption DEF Id
<1>3. RowsOK
  BY <1>1, <1>2, AdminAssumption DEF Init, RowsOK, CatalogOK, UserRow
<1>4. RequestsOK
  BY DEF Init, RequestsOK, Step, HeldUser, HeldPackage, NotRead
<1>5. GrantsStayWithTheirUser /\ LogNamesTheCaller
  BY DEF Init, GrantsStayWithTheirUser, LogNamesTheCaller
<1> QED BY <1>3, <1>4, <1>5 DEF IInv

LEMMA Inductive == IInv /\ [Next]_vars => IInv'
<1> SUFFICES ASSUME IInv, [Next]_vars PROVE IInv'
  OBVIOUS
<1>1. ASSUME NEW w \in Worker, NEW j \in Job, Start(w, j) PROVE IInv'
  BY <1>1, StartStep
<1>2. ASSUME NEW w \in Worker, Serve(w) PROVE IInv'
  BY <1>2, AuthenticateStep, LookupUserStep, FindPackageStep, FindFileStep, CheckAccessStep,
     ServeOutStep, LogDownloadStep, GrantStep, RevokeStep DEF Serve
<1>3. CASE Elsewhere
  BY <1>3, AddUserStep, DeleteUserStep, TokenStep, RemovePackageStep, ChangeReleasesStep,
     ExpiryStep DEF Elsewhere
<1>4. CASE UNCHANGED vars
  <2>1. UNCHANGED <<catalog, tables, request>>
    BY <1>4 DEF vars, catalog, tables, request
  <2>2. RequestsOK'
    BY <2>1, RequestsStand DEF IInv
  <2> QED BY <2>1, <2>2, ReadStep
<1> QED BY <1>1, <1>2, <1>3, <1>4 DEF Next

THEOREM Invariant == Spec => []IInv
BY InitIInv, Inductive, PTL DEF Spec

(* The rows of every table and what each request holds are what their      *)
(* columns and handlers make them (src/internal/store/migrations/          *)
(* 0001_init.sql; files.go, simple.go, users.go).                          *)
THEOREM TypeCorrect == Spec => []TypeOK
<1>1. IInv => TypeOK
  BY DEF IInv, RowsOK, RequestsOK, TypeOK
<1> QED BY <1>1, Invariant, PTL

(* An entitlement stays with the account and the project it was inserted   *)
(* for: the cascades of 0001_init.sql:67-68 leave none behind for who gets *)
(* the ids later, whatever the requests that read them are doing.          *)
THEOREM GrantsStay == Spec => []GrantsStayWithTheirUser
<1>1. IInv => GrantsStayWithTheirUser
  BY DEF IInv
<1> QED BY <1>1, Invariant, PTL

(* The download log names the account and the project a line was inserted  *)
(* for, or nobody (0001_init.sql:77-80, files.go:78-93).                   *)
THEOREM LogIsRight == Spec => []LogNamesTheCaller
<1>1. IInv => LogNamesTheCaller
  BY DEF IInv
<1> QED BY <1>1, Invariant, PTL

LEMMA AccessIsEntitled ==
    ASSUME IInv, NEW w \in Worker, StillNamed(w), NEW p \in packages,
           HasAccess(caller[w].id, p.id)
    PROVE  Entitled(caller[w].account, p.name)
<1>1. PICK e \in entitlements : e.user.id = caller[w].id /\ e.package.id = p.id /\ e.active
  BY DEF HasAccess
<1>2. e.user \in users
  BY DEF IInv, GrantsStayWithTheirUser
<1>3. e.user = caller[w]
  BY <1>1, <1>2 DEF StillNamed
<1> QED BY <1>1, <1>2, <1>3 DEF Entitled

(* A step of a request that moves another one: there is none.              *)
LEMMA OwnSteps ==
    ASSUME IInv, Next, NEW w \in Worker, pc'[w] # pc[w]
    PROVE  (\E j \in Job : Start(w, j)) \/ Serve(w)
<1>1. ASSUME NEW v \in Worker, v # w, \E j \in Job : Start(v, j) PROVE FALSE
  BY <1>1 DEF Start, IInv, RequestsOK
<1>2. ASSUME NEW v \in Worker, v # w, Serve(v) PROVE FALSE
  BY <1>2 DEF Serve, Authenticate, ListProjects, FindPackage, FindFile, CheckAccess, ListFiles,
     Open, LogDownload, LookupUser, GrantEntitlement, RevokeEntitlement, Finish, Goto,
     IInv, RequestsOK
<1>3. ~ Elsewhere
  BY DEF Elsewhere, AddUser, DeleteUser, CreateToken, RevokeToken, RemovePackage,
     ChangeReleases, EntitlementExpires, request
<1> QED BY <1>1, <1>2, <1>3 DEF Next

LEMMA AtCheckAccess ==
    ASSUME IInv, Next, NEW w \in Worker, At(w, "check_access"), pc'[w] # pc[w]
    PROVE  CheckAccess(w)
BY OwnSteps DEF At, Start, Serve, Authenticate, ListProjects, FindPackage, FindFile, ListFiles,
   Open, LogDownload, LookupUser, GrantEntitlement, RevokeEntitlement

(* Whoever is let through is entitled to the project at that moment        *)
(* (handler.go:62-69, simple.go:14-27), unless the ids the request holds   *)
(* are somebody else's by now.                                             *)
THEOREM AccessIsRight == Spec => AccessIsTheCallers
<1>1. ASSUME IInv, NEW w \in Worker, StillNamed(w), CheckAccess(w),
             pc'[w] \in {"list_files", "open"}
      PROVE  IsAdmin(caller[w]) \/ Entitled(caller[w].account, pkg[w].name)
  <2>1. CanAccess(w)
    BY <1>1 DEF CheckAccess, Finish, IInv, RequestsOK
  <2>2. ASSUME HasAccess(caller[w].id, pkg[w].id)
        PROVE  Entitled(caller[w].account, pkg[w].name)
    <3>1. PICK e \in entitlements : e.package.id = pkg[w].id
      BY <2>2 DEF HasAccess
    <3>2. PICK p \in packages : Named(p) = e.package
      BY <1>1 DEF IInv, GrantsStayWithTheirUser
    <3>3. p.id = pkg[w].id
      BY <3>1, <3>2 DEF Named
    <3>4. Named(p) = pkg[w]
      BY <1>1, <3>3 DEF StillNamed
    <3>5. p.name = pkg[w].name
      BY <3>4 DEF Named
    <3> QED BY <1>1, <2>2, <3>3, <3>5, AccessIsEntitled
  <2> QED BY <2>1, <2>2 DEF CanAccess
<1>2. ASSUME IInv, NEW w \in Worker, StillNamed(w), NEW p \in Listed(w)
      PROVE  IsAdmin(caller[w]) \/ Entitled(caller[w].account, p.name)
  BY <1>2, AccessIsEntitled DEF Listed
<1> DEFINE Checked(w) == StillNamed(w) =>
      /\ At(w, "check_access") /\ pc'[w] \in {"list_files", "open"} =>
           IsAdmin(caller[w]) \/ Entitled(caller[w].account, pkg[w].name)
      /\ At(w, "list_projects") /\ pc'[w] = "idle" =>
           \A p \in Listed(w) : IsAdmin(caller[w]) \/ Entitled(caller[w].account, p.name)
<1>3. IInv /\ [Next]_vars => [\A w \in Worker : Checked(w)]_vars
  <2> SUFFICES ASSUME IInv, Next, NEW w \in Worker, StillNamed(w) PROVE Checked(w)
    OBVIOUS
  <2>1. \A p \in Listed(w) : IsAdmin(caller[w]) \/ Entitled(caller[w].account, p.name)
    BY <1>2
  <2>2. ASSUME At(w, "check_access"), pc'[w] \in {"list_files", "open"}
        PROVE  IsAdmin(caller[w]) \/ Entitled(caller[w].account, pkg[w].name)
    <3>1. pc'[w] # pc[w]
      BY <2>2 DEF At
    <3>2. CheckAccess(w)
      BY <2>2, <3>1, AtCheckAccess
    <3> QED BY <1>1, <2>2, <3>2
  <2> QED BY <2>1, <2>2
<1> QED BY <1>3, Invariant, PTL DEF Spec, AccessIsTheCallers
=============================================================================
