---------------------------- MODULE CatalogProofs ----------------------------
(***************************************************************************)
(* What each SQL statement of Catalog preserves: the types of the rows and *)
(* the constraints of the schema.  The proofs about the handlers cite      *)
(* these lemmas and never open a statement.                                *)
(***************************************************************************)
EXTENDS Catalog, TLAPS

CatalogOK == CatalogTypeOK /\ ForeignKeys /\ UniqueRows

LEMMA InitOK == CatalogInit => CatalogOK
  BY DEF CatalogInit, CatalogOK, CatalogTypeOK, ForeignKeys, UniqueRows

LEMMA UnchangedOK == CatalogOK /\ UNCHANGED catalog => CatalogOK'
  BY DEF catalog, CatalogOK, CatalogTypeOK, ForeignKeys, UniqueRows

(* A new id is no id of the table. *)
LEMMA NextIdIsNew ==
    ASSUME NEW rows, NEW id, IsNextId(rows, id), id \in Id
    PROVE  \A r \in rows : r.id # id
  BY DEF IsNextId, Id

LEMMA InsertPackageOK ==
    ASSUME CatalogOK, NEW name \in Project, NEW v \in Version, InsertPackage(name, v)
    PROVE  CatalogOK'
  <1>1. CASE UNCHANGED packages
    BY <1>1 DEF InsertPackage, CatalogOK, CatalogTypeOK, ForeignKeys, UniqueRows
  <1>2. CASE /\ ~ HasPackage(name)
             /\ \E id \in Id : /\ IsNextId(packages, id)
                               /\ packages' = packages \cup
                                    {[id |-> id, name |-> name, summary |-> v]}
    <2>1. PICK id \in Id : /\ IsNextId(packages, id)
                           /\ packages' = packages \cup
                                {[id |-> id, name |-> name, summary |-> v]}
      BY <1>2
    <2> DEFINE new == [id |-> id, name |-> name, summary |-> v]
    <2>2. new \in PackageRow
      BY DEF PackageRow
    <2>3. \A p \in packages : p.id # new.id
      BY <2>1, NextIdIsNew
    <2>4. \A p \in packages : p.name # new.name
      BY <1>2 DEF HasPackage
    <2>5. UNCHANGED <<releases, files>>
      BY DEF InsertPackage
    <2>6. packages' = packages \cup {new}
      BY <2>1
    <2> HIDE DEF new
    <2>7. CatalogTypeOK'
      BY <2>2, <2>5, <2>6 DEF CatalogOK, CatalogTypeOK
    <2>8. ForeignKeys'
      BY <2>5, <2>6 DEF CatalogOK, ForeignKeys
    <2>9. UniqueRows'
      <3>1. \A p, q \in packages' : p.id = q.id \/ p.name = q.name => p = q
        BY <2>3, <2>4, <2>6 DEF CatalogOK, UniqueRows
      <3>2. QED
        BY <2>5, <3>1 DEF CatalogOK, UniqueRows
    <2>10. QED
      BY <2>7, <2>8, <2>9 DEF CatalogOK
  <1>3. QED
    BY <1>1, <1>2 DEF InsertPackage

LEMMA RefreshPackageOK ==
    ASSUME CatalogOK, NEW name \in Project, NEW v \in Version, RefreshPackage(name, v)
    PROVE  CatalogOK'
  <1> DEFINE upd(p) == IF p.name = name THEN [p EXCEPT !.summary = v] ELSE p
  <1>1. packages' = {upd(p) : p \in packages}
    BY DEF RefreshPackage
  <1>2. UNCHANGED <<releases, files>>
    BY DEF RefreshPackage
  <1>3. \A p \in packages :
          upd(p) \in PackageRow /\ upd(p).id = p.id /\ upd(p).name = p.name
    BY DEF CatalogOK, CatalogTypeOK, PackageRow
  <1> HIDE DEF upd
  <1>4. CatalogTypeOK'
    BY <1>1, <1>2, <1>3 DEF CatalogOK, CatalogTypeOK
  <1>5. ForeignKeys'
    <2>1. ASSUME NEW r \in releases PROVE \E p \in packages' : p.id = r.package_id
      <3>1. PICK p \in packages : p.id = r.package_id
        BY DEF CatalogOK, ForeignKeys
      <3>2. QED
        BY <3>1, <1>1, <1>3
    <2>2. QED
      BY <1>2, <2>1 DEF CatalogOK, ForeignKeys
  <1>6. UniqueRows'
    <2>1. \A p, q \in packages' : p.id = q.id \/ p.name = q.name => p = q
      BY <1>1, <1>3 DEF CatalogOK, UniqueRows
    <2>2. QED
      BY <1>2, <2>1 DEF CatalogOK, UniqueRows
  <1>7. QED
    BY <1>4, <1>5, <1>6 DEF CatalogOK

LEMMA InsertReleaseOK ==
    ASSUME CatalogOK, NEW pid \in Id, NEW v \in Version,
           MayInsertRelease(pid), InsertRelease(pid, v)
    PROVE  CatalogOK'
  <1>1. CASE UNCHANGED releases
    BY <1>1 DEF InsertRelease, CatalogOK, CatalogTypeOK, ForeignKeys, UniqueRows
  <1>2. CASE /\ ~ HasRelease(pid, v)
             /\ \E id \in Id : /\ IsNextId(releases, id)
                               /\ releases' = releases \cup
                                    {[id |-> id, package_id |-> pid,
                                      version |-> v, yanked |-> FALSE]}
    <2>1. PICK id \in Id : /\ IsNextId(releases, id)
                           /\ releases' = releases \cup
                                {[id |-> id, package_id |-> pid,
                                  version |-> v, yanked |-> FALSE]}
      BY <1>2
    <2> DEFINE new == [id |-> id, package_id |-> pid, version |-> v, yanked |-> FALSE]
    <2>2. new \in ReleaseRow
      BY DEF ReleaseRow
    <2>3. \A r \in releases : r.id # new.id
      BY <2>1, NextIdIsNew
    <2>4. \A r \in releases : ~ (r.package_id = new.package_id /\ r.version = new.version)
      BY <1>2 DEF HasRelease
    <2>5. UNCHANGED <<packages, files>>
      BY DEF InsertRelease
    <2>6. releases' = releases \cup {new}
      BY <2>1
    <2>7. \E p \in packages : p.id = new.package_id
      BY DEF MayInsertRelease
    <2> HIDE DEF new
    <2>8. CatalogTypeOK'
      BY <2>2, <2>5, <2>6 DEF CatalogOK, CatalogTypeOK
    <2>9. ForeignKeys'
      BY <2>5, <2>6, <2>7 DEF CatalogOK, ForeignKeys
    <2>10. UniqueRows'
      <3>1. \A r, s \in releases' :
              \/ r.id = s.id
              \/ r.package_id = s.package_id /\ r.version = s.version
              => r = s
        BY <2>3, <2>4, <2>6 DEF CatalogOK, UniqueRows
      <3>2. QED
        BY <2>5, <3>1 DEF CatalogOK, UniqueRows
    <2>11. QED
      BY <2>8, <2>9, <2>10 DEF CatalogOK
  <1>3. QED
    BY <1>1, <1>2 DEF InsertRelease

LEMMA CreateFileOK ==
    ASSUME CatalogOK, NEW rid \in Id, NEW f \in Filename, NEW d \in Digest,
           MayCreateFile(rid, f), CreateFile(rid, f, d)
    PROVE  CatalogOK'
  <1> DEFINE new == [release_id |-> rid, filename |-> f, sha256 |-> d]
  <1>1. new \in FileRow
    BY DEF FileRow
  <1>2. files' = files \cup {new} /\ UNCHANGED <<packages, releases>>
    BY DEF CreateFile
  <1>3. \A g \in files : g.filename # new.filename
    BY DEF MayCreateFile, FileExists
  <1>4. \E r \in releases : r.id = new.release_id
    BY DEF MayCreateFile
  <1> HIDE DEF new
  <1>5. CatalogTypeOK'
    BY <1>1, <1>2 DEF CatalogOK, CatalogTypeOK
  <1>6. ForeignKeys'
    BY <1>2, <1>4 DEF CatalogOK, ForeignKeys
  <1>7. UniqueRows'
    BY <1>2, <1>3 DEF CatalogOK, UniqueRows
  <1>8. QED
    BY <1>5, <1>6, <1>7 DEF CatalogOK

LEMMA SetYankedOK ==
    ASSUME CatalogOK, NEW rid, NEW yanked \in BOOLEAN, SetYanked(rid, yanked)
    PROVE  CatalogOK'
  <1> DEFINE upd(r) == IF r.id = rid THEN [r EXCEPT !.yanked = yanked] ELSE r
  <1>1. releases' = {upd(r) : r \in releases} /\ UNCHANGED <<packages, files>>
    BY DEF SetYanked
  <1>2. \A r \in releases :
          /\ upd(r) \in ReleaseRow /\ upd(r).id = r.id
          /\ upd(r).package_id = r.package_id /\ upd(r).version = r.version
    BY DEF CatalogOK, CatalogTypeOK, ReleaseRow
  <1> HIDE DEF upd
  <1>3. CatalogTypeOK'
    BY <1>1, <1>2 DEF CatalogOK, CatalogTypeOK
  <1>4. ForeignKeys'
    <2>1. \A r \in releases' : \E p \in packages : p.id = r.package_id
      BY <1>1, <1>2 DEF CatalogOK, ForeignKeys
    <2>2. ASSUME NEW f \in files PROVE \E r \in releases' : r.id = f.release_id
      <3>1. PICK r \in releases : r.id = f.release_id
        BY DEF CatalogOK, ForeignKeys
      <3>2. QED
        BY <3>1, <1>1, <1>2
    <2>3. QED
      BY <1>1, <2>1, <2>2 DEF ForeignKeys
  <1>5. UniqueRows'
    <2>1. \A r, s \in releases' :
            \/ r.id = s.id
            \/ r.package_id = s.package_id /\ r.version = s.version
            => r = s
      BY <1>1, <1>2 DEF CatalogOK, UniqueRows
    <2>2. QED
      BY <1>1, <2>1 DEF CatalogOK, UniqueRows
  <1>6. QED
    BY <1>3, <1>4, <1>5 DEF CatalogOK

LEMMA DeleteReleaseOK ==
    ASSUME CatalogOK, NEW rid, DeleteRelease(rid)
    PROVE  CatalogOK'
  <1>1. /\ releases' = {r \in releases : r.id # rid}
        /\ files' = {f \in files : f.release_id # rid}
        /\ packages' = packages
    BY DEF DeleteRelease, ReleaseFiles
  <1>2. CatalogTypeOK' /\ UniqueRows'
    BY <1>1 DEF CatalogOK, CatalogTypeOK, UniqueRows
  <1>3. ForeignKeys'
    BY <1>1 DEF CatalogOK, ForeignKeys
  <1>4. QED
    BY <1>2, <1>3 DEF CatalogOK

LEMMA DeletePackageOK ==
    ASSUME CatalogOK, NEW pid, DeletePackage(pid)
    PROVE  CatalogOK'
  <1>1. /\ packages' = {p \in packages : p.id # pid}
        /\ releases' = {r \in releases : r.package_id # pid}
        /\ files' = files \ PackageFiles(pid)
    BY DEF DeletePackage
  <1>2. CatalogTypeOK' /\ UniqueRows'
    BY <1>1 DEF CatalogOK, CatalogTypeOK, UniqueRows
  <1>3. ForeignKeys'
    <2>1. \A r \in releases' : \E p \in packages' : p.id = r.package_id
      BY <1>1 DEF CatalogOK, ForeignKeys
    <2>2. ASSUME NEW f \in files' PROVE \E r \in releases' : r.id = f.release_id
      <3>1. PICK r \in releases : r.id = f.release_id
        BY <1>1 DEF CatalogOK, ForeignKeys
      <3>2. r.package_id # pid
        BY <1>1, <3>1 DEF PackageFiles
      <3>3. QED
        BY <1>1, <3>1, <3>2
    <2>3. QED
      BY <2>1, <2>2 DEF ForeignKeys
  <1>4. QED
    BY <1>2, <1>3 DEF CatalogOK
=============================================================================
