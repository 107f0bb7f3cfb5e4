------------------------------- MODULE Catalog -------------------------------
(***************************************************************************)
(* The packages, releases and files tables and the SQL statements          *)
(* src/internal/store/packages.go runs on them.  A statement is one step:  *)
(* SQLite runs it as a transaction of its own, on the only connection of   *)
(* the pool (SetMaxOpenConns(1), src/internal/store/store.go:39).          *)
(***************************************************************************)
EXTENDS RowIds

CONSTANTS Project,   \* normalized project names
          Version,   \* version strings
          Filename,  \* distribution filenames
          Digest,    \* sha256 digests
          Rank       \* Rank[v] orders versions as CompareVersions does

ASSUME RankAssumption == Rank \in [Version -> Nat]

VARIABLES packages, releases, files

catalog == <<packages, releases, files>>

(* summary is the version whose METADATA the package row shows: it stands  *)
(* for name, summary, description and its content type, always written     *)
(* together.                                                               *)
PackageRow == [id : Id, name : Project, summary : Version]
ReleaseRow == [id : Id, package_id : Id, version : Version, yanked : BOOLEAN]
FileRow == [release_id : Id, filename : Filename, sha256 : Digest]

CatalogTypeOK ==
    /\ packages \subseteq PackageRow
    /\ releases \subseteq ReleaseRow
    /\ files \subseteq FileRow

CatalogInit ==
    /\ packages = {}
    /\ releases = {}
    /\ files = {}

-----------------------------------------------------------------------------
(* Queries. *)

HasPackage(name) == \E p \in packages : p.name = name

FileExists(filename) == \E f \in files : f.filename = filename

HasRelease(pid, version) ==
    \E r \in releases : r.package_id = pid /\ r.version = version

(* No release of the package that is not yanked is newer than version:     *)
(* what Ingest asks of LatestVersion, the package without such a release   *)
(* included.                                                               *)
AtLeastLatest(pid, version) ==
    \A r \in releases :
        r.package_id = pid /\ ~ r.yanked => Rank[version] >= Rank[r.version]

ReleaseFiles(rid) == {f \in files : f.release_id = rid}

PackageFiles(pid) ==
    {f \in files : \E r \in releases : r.id = f.release_id /\ r.package_id = pid}

-----------------------------------------------------------------------------
(* Statements that write. *)

(* INSERT ... ON CONFLICT (normalized_name) DO UPDATE SET updated_at *)
InsertPackage(name, version) ==
    /\ \/ /\ HasPackage(name)
          /\ UNCHANGED packages
       \/ /\ ~ HasPackage(name)
          /\ \E id \in Id :
                /\ IsNextId(packages, id)
                /\ packages' = packages \cup
                       {[id |-> id, name |-> name, summary |-> version]}
    /\ UNCHANGED <<releases, files>>

(* UPDATE packages SET name, summary, ... WHERE normalized_name *)
RefreshPackage(name, version) ==
    /\ packages' = {IF p.name = name THEN [p EXCEPT !.summary = version] ELSE p
                      : p \in packages}
    /\ UNCHANGED <<releases, files>>

(* INSERT OR IGNORE INTO releases: OR IGNORE passes over the UNIQUE        *)
(* constraint, never over the foreign key.                                 *)
MayInsertRelease(pid) == \E p \in packages : p.id = pid

InsertRelease(pid, version) ==
    /\ \/ /\ HasRelease(pid, version)
          /\ UNCHANGED releases
       \/ /\ ~ HasRelease(pid, version)
          /\ \E id \in Id :
                /\ IsNextId(releases, id)
                /\ releases' = releases \cup
                       {[id |-> id, package_id |-> pid,
                         version |-> version, yanked |-> FALSE]}
    /\ UNCHANGED <<packages, files>>

(* Slip: filename is not UNIQUE. *)
MayCreateFile_NotUnique(rid, filename) ==
    \E r \in releases : r.id = rid

(* INSERT INTO files: filename is UNIQUE, release_id references a release. *)
MayCreateFile(rid, filename) ==
    /\ ~ FileExists(filename)
    /\ \E r \in releases : r.id = rid

CreateFile(rid, filename, sha256) ==
    /\ files' = files \cup
           {[release_id |-> rid, filename |-> filename, sha256 |-> sha256]}
    /\ UNCHANGED <<packages, releases>>

SetYanked(rid, yanked) ==
    /\ releases' = {IF r.id = rid THEN [r EXCEPT !.yanked = yanked] ELSE r
                      : r \in releases}
    /\ UNCHANGED <<packages, files>>

(* Slip: the connection was opened without the foreign_keys pragma. *)
DeletePackage_NoCascade(pid) ==
    /\ packages' = {p \in packages : p.id # pid}
    /\ releases' = {r \in releases : r.package_id # pid}
    /\ UNCHANGED files

(* ON DELETE CASCADE takes the files of a release and the releases of a    *)
(* package along.                                                          *)
DeleteRelease(rid) ==
    /\ releases' = {r \in releases : r.id # rid}
    /\ files' = files \ ReleaseFiles(rid)
    /\ UNCHANGED packages

DeletePackage(pid) ==
    /\ packages' = {p \in packages : p.id # pid}
    /\ releases' = {r \in releases : r.package_id # pid}
    /\ files' = files \ PackageFiles(pid)

-----------------------------------------------------------------------------
(* The constraints of src/internal/store/migrations/0001_init.sql.         *)

ForeignKeys ==
    /\ \A r \in releases : \E p \in packages : p.id = r.package_id
    /\ \A f \in files : \E r \in releases : r.id = f.release_id

UniqueRows ==
    /\ \A p, q \in packages : p.id = q.id \/ p.name = q.name => p = q
    /\ \A r, s \in releases :
          \/ r.id = s.id
          \/ r.package_id = s.package_id /\ r.version = s.version
          => r = s
    /\ \A f, g \in files : f.filename = g.filename => f = g
=============================================================================
