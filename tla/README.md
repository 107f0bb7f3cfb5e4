# A verification project for johnnybt-pypi

johnnybt-pypi is a private Python package index: one Go process over a SQLite
database and a blob store (a directory or a cloud bucket). `twine` uploads to
it, `pip` reads the simple index and downloads from it, a JSON API and a
single-page application administer it. This directory holds TLA+ modules that
model it, TLC configurations that check them, and proofs for TLAPS.
`PROJECT.json` lists the runs, which definition models which lines, the hazards
and the theorems.

## 1. Inventory

One process serves any number of HTTP requests at once, each in a goroutine.
They share two things: the database, through one connection
(`SetMaxOpenConns(1)`, `store.go:39`), and the blob store. **No handler opens a
transaction and no lock spans two statements**: between two SQL statements or
blob calls of a request any other request may run. That is where nearly every
hard behaviour of the program comes from.

| Component | State | Operations | Hard behaviour |
|---|---|---|---|
| Catalog (`store/packages.go`, `migrations/0001_init.sql`) | tables `packages`, `releases`, `files` | UpsertPackage, GetOrCreateRelease, CreateFile, SetYanked, DeleteRelease, DeletePackage, reads | UNIQUE and foreign keys decide races; row ids of deleted last rows are handed out again |
| Upload (`pypi/ingest.go`, `pypi/upload.go`) | locals of the handler: ids, digest, `updateMeta` | Ingest: check, spool, store, index; rollbackBlob | up to 14 steps between check and use; partial failure after objects are stored |
| Package administration (`api/packages.go`) | locals: package id, release id, files listed | yank, unyank, delete release, delete package | ids used statements after they were read; rows first, objects last |
| Blob store (`blob/blob.go`; `local.go`, `gocloud.go`, `oss.go`) | objects by key `sha256/filename` (+ `.metadata`) | Put, Open, Delete, SignedURL | crash inside Put; Delete prunes directories under a concurrent Put; lazily reopened range reader |
| Storage probe (`blob/check.go`) | its report | put, open, read, sign, fetch, delete | its probe must go whichever step fails |
| Download and simple index (`pypi/files.go`, `simple.go`, `handler.go`) | none | file, METADATA, project list, project page | lookup, access check and opening of the object are separate steps |
| Accounts (`store/users.go`, `api/users.go`, `auth/`) | table `users` | create, disable, delete, change and reset password | check of an old hash, then write; reset beside login |
| Sessions (`store/sessions.go`, `api/api.go`) | table `sessions` | login, logout, lookup, DeleteUserSessions, PurgeExpiredSessions | a login that verified the old password outlives a reset |
| Tokens (`store/tokens.go`, `auth/token.go`) | table `tokens` | create, revoke, look up by hash | revoke while a request is served; expiry compared as text |
| Entitlements (`store/entitlements.go`) | table `entitlements` | grant, revoke, HasAccess | rows by reused ids |
| Timestamps (`store.go:99-115`) | – | FormatTime, ParseTime | text order is not time order inside one second |
| Opening and migrating (`store.go:24-97`) | `schema_migrations` | Open, migrate | two processes at once; crash between files |
| Connection pool (`store.go:39`) | the one connection | every query | a handler that waits on itself, or on its client, while it holds it |
| Lifecycle (`server/server.go`, `cmd/`) | – | EnsureAdmin, ResetAdminPassword, Run, shutdown | first start and crash; order of password and sessions |
| Version order (`pkgmeta/name.go`) | – | NormalizeName, CompareVersions, SortVersionsDesc | different versions that compare equal |
| Web application (`web/src/auth.ts`, `router.ts`) | cached user, pending promise | ensure, login, logout | answers that arrive after the state has moved on |

What makes each correct:

* **Catalog** – the schema's constraints hold however statements interleave.
* **Upload** – a file is indexed only with its objects stored, under the project
  and version it states; a failed upload leaves nothing; the summary shown is
  the newest version's.
* **Administration** – a request strikes only the package or release it names, or
  one made since it began, and what it removes goes completely.
* **Blob store** – the object under a key is the one last put, whole, or none, and
  only a Put into a bucket that fails may leave a part of one; a reader gets the
  bytes it asked for, in their places.
* **Database** – every migration is applied once and in order, whoever runs it;
  nobody who holds the connection waits for a client or for itself.
* **Timestamps** – comparing texts ends access when it was said to end.
* **Download and index** – what is served or listed is accessible to the caller
  at the moment of the check; the log names who downloaded what.
* **Accounts, sessions, tokens, entitlements** – sessions are the admin's, a
  token is accepted until it is revoked, a grant reaches the user and the
  package it names and nobody who gets their ids later.

## 2. Modules

| Module | Models |
|---|---|
| `RowIds` | how SQLite chooses the id of a new row: one above the highest in use |
| `Catalog` | the three tables and each SQL statement, as one atomic step with its constraints |
| `BlobMap` | what `blob.Store` promises: a map from keys to objects; a failed call may have had its effect, a failed Put a part of it |
| `Registry` | uploads and administration requests, statement by statement, over `Catalog` and an instance of `BlobMap`; failures, clients that hang up, crash; all properties |
| `Shelf` | abstract specification: what an installer can download, files appearing and going in one step |
| `RegistryInv` | the inductive invariant `IInv` of `Registry`, and what `Clean` and `SummariesDecided` add to it |
| `MCRegistry` | constants for TLC |
| `Accounts` | users, sessions and tokens; the handlers that change them, EnsureAdmin at every start of the server, the reset-password command beside it |
| `AccountsInv` | the inductive invariant `IInv` of `Accounts`, and `PasswordsKnown` on top of it |
| `MCAccounts` | constants for TLC |
| `Access` | tokens, entitlements and the download log; requests of installers and the admin's grants, statement by statement, while accounts and catalog change |
| `AccessInv` | the inductive invariant `IInv` of `Access` |
| `MCAccess` | constants for TLC |
| `Blobs` | the three stores behind `blob.Store`, system call by system call or SDK call by SDK call; their callers: uploads, deletes, downloads with ranges, the probe; implements `BlobMap` |
| `MCBlobs` | constants for TLC |
| `Database` | a server and a reset command that open, migrate and write one database; handlers over one connection; start, failure, restart, shutdown |
| `Expiry` | times as text, and what SQL and the pages conclude from it |
| `CatalogProofs`, `RegistryProofs`, `PublishingProofs`, `AccountsProofs`, `AccessProofs`, `DatabaseProofs`, `BlobsProofs`, `ExpiryProofs` | proofs |

`PublishingProofs` extends `RegistryProofs`, which extends `CatalogProofs`.
`Registry` and `Accounts` share no table that
either writes (tokens are only read by uploads, and an upload's authorization
comes before its first modelled step), so they are separate specifications; both
extend `RowIds`. `Access` reads the tables of both: it extends `Catalog` and
takes each statement of those handlers as a step of its own, so that more
happens in it than `Registry` and `Accounts` allow. `Registry` relies on
`BlobMap` alone, and `Blobs` shows that each store keeps that promise
(`ImplementsMap`); what the callers do between two calls is `Registry`'s
business. `Database` is the layer below all of them: it takes a handler to be a
sequence of statements and of waits for its client and leaves out what the
statements say. `Expiry` is the one place where the text of `expires_at`
matters; the others only know whether a row has expired.

### Registry and the code

A `Worker` is a goroutine serving one request at a time. `pc[w]` names its next
SQL statement or blob call; `job[w]` is the request; `pid`, `rid`, `refresh` and
`todo` are its locals `pkg.ID`, `rel.ID`, `updateMeta` and the list of objects
still to delete. Reading the request, spooling and parsing the archive touch no
shared state, so they are part of `RejectFile` or come before `PutDist`. The
order is that of the code:

    Ingest          file_exists  put_dist  [put_metadata]  get_existing
                    [latest_version]  upsert  [refresh]  reload
                    insert_release  get_release  create_file
    yank, unyank    get_package  find_release  set_yanked
    delete release  get_package  find_release  list_files  delete_row  drop_blobs...
    delete package  get_package  list_files  delete_row  drop_blobs...
    rollback        drop_blobs, one object per step, the archive first

What is abstracted: an archive is a digest (two archives with one digest are one
archive); a version is a model value with a `Rank`, so that two versions may
compare equal; the summary, description and name of a package row are the
version whose METADATA they come from; `MetaVersion[f][d]` is the version the
METADATA inside archive `d` named `f` states. An object's content is the digest
of the archive it is or was extracted from, or `Part` of one.

`gone` holds the workers whose client has hung up: `net/http` cancels the context
of their request, and every statement and blob call of the handler is given that
context (`ingest.go:127-174`, `api/packages.go:95, 150`). From then on its
statements fail (`Queries`, `StatementFails`). A bucket and OSS begin no call
either, the Deletes of a rollback included (`CutOff`); a call that is under way
may fail with or without its effect. `Local` looks at no context: `Remote` says
which kind of store the registry has. It does not tell OSS from a bucket, so that
a Put into either may leave a part, which in OSS it does not.

The history variable `young[w]` holds the releases that were created since the
change `w` serves began; only `StrikesNamedOrNewer` reads it.

### Discipline

The server keeps no two requests apart, and several runs and findings below show
what that costs. Where a property needs it, `Discipline` states what *clients*
have to avoid, and is an assumption about them, not about the code:

* `"none"` – everything overlaps;
* `"by_file"` – no two uploads of one filename overlap, and a delete overlaps
  with nothing on its project;
* `"by_project"` – one request per project.

Everything else, in particular requests on other projects and uploads of other
files of the project, still overlaps freely and shares the row ids.

### Accounts and the code

A `Worker` serves one request, as in `Registry`; `me[w]` is the user row that
`admin` or `login` has read (its id and password), `subject[w]` the row that
`lookupUser` has read.

    login            find_user  insert_session
    logout           delete_session
    change password  authorize  set_password
    create user      authorize  check_name  insert_user
    update user      authorize  lookup_user  check_name  update_user
    delete user      authorize  lookup_user  delete_user
    create token     authorize  lookup_user  insert_token
    revoke token     authorize  find_token  revoke_token

    server           find_admin  [create_admin  read_admin  tell]  serving
    reset-password   find_admin  set_password  end_sessions  tell

The SELECT that reads a row back after an INSERT of a handler only decides the
answer; the one after EnsureAdmin's INSERT decides whether the password is
shown, and is a step (`ReadAdmin`). A password is a model value, and a hash is
the password it verifies. `sessions` holds the unexpired rows: every query
compares `expires_at`, so an expired row is as good as gone (`SessionExpires`),
and PurgeExpiredSessions, which nothing calls, changes nothing. `Username` is
what the NOCASE comparison distinguishes. A token's scope is one of two: a token
stored with an empty one is read as `read`. Two history fields exist for the
properties alone: `told`, the passwords that were shown or chosen, and the
password a session's login presented. `Stop` is a SIGTERM with no request in
flight; what Shutdown cuts off after ten seconds is `Crash`. `Interruptible`
names where the reset command may end early: on an error or Ctrl-C before it has
changed anything, later only by being killed.

### Access and the code

A `Worker` serves one request; `caller[w]` is the user row it has read (that of
the token for an installer, that of `lookupUser` for a grant), `pkg[w]` the
package row; the id `NoId` in either says that nothing has been read yet.

    index        authenticate  list_projects
    page         authenticate  find_package  check_access  list_files
    file         authenticate  find_file  check_access  open  log
    metadata     authenticate  find_file  check_access  open
    grant        lookup_user  get_package  grant
    revoke       lookup_user  get_package  revoke

Every step may instead `Finish`: nothing was found, or the statement failed.
That the caller of a grant is the admin is the business of `Accounts`
(`OnlyAdminsAct`). `AddUser` to `RevokeToken`, `RemovePackage` and
`ChangeReleases` are the statements of the handlers in `Accounts` and
`Registry`, at any moment; ids may be freed and handed out again between any two
steps of a request. `Listed(w)` are the projects the index names. Columns that
only the UI shows (`granted_by`, `uploaded_by`, `token_id`, `file_id`, dates) are
left out; of `expires_at` remains whether it is past (`active`).

An account and a project are what the admin and the installer mean, an id is
what the rows say. In entitlements and downloads the model keeps, as history, the
user and the package row that had the ids at the moment of the INSERT; no action
reads more of them than the ids.

**What a request holds** is another matter: between two of its statements the
user or package it has read may be deleted and the id given to a new one, and
the request then goes on in the newcomer's name. The code does nothing against
it (see the findings), and the model does not keep it from happening.
`AccessIsTheCallers` therefore excepts the very moment at which an id the request
holds is somebody else's (`StillNamed`); that a user or package is deleted, a
grant revoked or expired, or ids reused that the request does *not* hold, is no
excuse. Of the rows nothing is excepted: ids in entitlements and the log survive
any number of requests, and it is the cascades that keep them from naming
somebody else (`GrantsStayWithTheirUser`, `LogNamesTheCaller`).

### Blobs and the code

A `Worker` is a caller of a store; `job[w]` is its call and `pc[w]` the next
system call or SDK call of it. `backend` is what `cfg.BlobURL` selects,
`signing` whether it hands out signed URLs (never for a directory).

    Local.Put          mkdir  create  copy  rename
    Local.Delete       remove  rmdir
    Bucket, OSS        send    erase
    download           sign  open  serve  (range  read...)...  close
    blob check         put  open  range  read...  sign  [fetch]  delete

A temporary file is `partial` until it is copied and closed; `litter` are
directories that hold one nobody will remove. `reader[w]` is the open object:
`pos` is where the next Read is to go on, `body` where the body it has open
really stands, which yields the bytes of `held`. A file's body stays open; OSS's
`rangeReader` (`oss.go:173-243`) has none until the first Read and drops it on
every Seek that moves. `serve` is what `http.ServeContent` does before it sends
anything: it seeks to the end for the size, and back. Each `range` seeks to its
first byte, and `got[w]` is the byte just sent on, with the place in the object
it came from. A single range, several, or the whole object are the possible
`ranges`.

Contents are model values: a key names its content, since it contains the digest
(and the METADATA goes with the archive), so that a Put of one key always stores
the same.

A directory is modelled system call by system call. A call to a bucket or to OSS
is taken to have its effect at one moment, as that is decided by the service
(`BucketPut`, `OSSPut`, `BucketDelete`, `OSSDelete`); that `ImplementsMap` holds
of them is hence no more than an assumption about the service, except for what
`gocloud.go` itself does: `Bucket.Put` closes its writer after a copy that
failed, on which a part of the object may be stored (`CopyBreaks`). A reader of
a part gets what there is of it and is then at its end (`PartEnds`). What is
left out is the escape check of `path`, as every key is made by the server, and
opening a store.

### Database and the code

`pc["server"]` and `pc["tool"]` are the two processes that open the database:
the server and `reset-password`. Each runs `migrate`, file by file:

    ensure  (count  [script  record  commit])...  serving | update

`script` begins the transaction and takes SQLite's write lock (`writer`), which
is what a statement of the other process waits for; `OpenBusy`, `ToolBusy` and
`Busy` are that wait running out after `busy_timeout`. `applied[m]` counts how
often script `m` has been committed and `recorded` are the rows of
`schema_migrations`; what the open transaction has run and inserted is `ran` and
`noted`, which `Commit` adds to them and a failure throws away. A process that
looked a file up before the other one committed it runs the script a second time
(`store.go:70`): a script that creates a table (`Creating`) then fails
(`TableExists`), any other runs through and is taken back when the row of
`schema_migrations` violates its PRIMARY KEY (`AlreadyRecorded`). Today there is
one file, `0001_init.sql`, and it creates tables; the loop of `migrate` is written
for more. `Failed` is the exit status 1 after which systemd starts the server
again (`Restart=on-failure`). That is also how `Shutdown` ends after ten seconds
(`DrainTimesOut`, `main.go:126`); whether systemd starts the server then depends
on who asked for the end, so both are possible.

`todo[w]` is what a handler has still to do: `row` a query of one row, `write` a
writing statement, `rows` a query whose rows are looped over, `client` the
reading of a body or the writing of an answer. The scripts in `Handlers` follow
the handlers and the store functions they call: `index`, `page`, `file`,
`upload`, the admin's `packages`, and `selfcheck`, where a customer pastes a
token to see what it unlocks. `conn` is the handler that holds the connection.
A statement that fails ends the handler, or only itself where the error is ignored
(`GiveUp`); `ReturnEarly` is a handler that is done before its script is, or whose
client has gone, at any moment at which it does not hold the connection. The
statements of EnsureAdmin, which `Accounts` models, and the listening are left out
of the start.

### Expiry and the code

`FormatTime` and `ParseTime` work on the number of the second and the characters
of its fraction, as only those vary in width; `After` is SQL's `>` on two such
texts. `GrantByDate` and `GrantByTime` are the two forms `parseExpiry` accepts,
with the end of a date in the server's zone (`Midnight`). `until` and `lasts`
record what the admin and the login meant; no action reads them. The clock moves
forward tick by tick.

### Failures

In `Registry` and `Accounts`, `"db"`: a statement fails and has no effect (a busy
or full database). `"client"`: a client hangs up, at any moment of its request,
with what that does to the context (above). `"blob"`: a blob call fails, with or
without its effect, and a Put into a bucket with a part of it. `"crash"`: the
process stops; rows and objects stay, requests in flight vanish with their locals.
A statement that commits and still reports failure is not modelled: whether that
can happen depends on the SQL driver, which is not in this repository.

In `Blobs`, `"disk"`: a system call fails; a failed copy removes its temporary
file, a failed rename leaves it. `"bucket"`: an SDK call fails, a Put or a
Delete with or without its effect, a Put into a Go CDK bucket with a part of it.
`"kill"`: the process of the caller is killed. In `Database`, `OpenFails` and
`Crash` may hit either process anywhere, `MaxFaults` times; a statement of a
handler may fail any number of times.

## 3. Runs

| Run | Requests | Checks |
|---|---|---|
| `RegistryAny` | 2 uploads and changes of one file with two contents, any overlap, a bucket, failing statements and calls, crashes | `RowsConsistent`, `StoredBytesMatch`, `StrikesNamedOrNewer`: no dangling or duplicate row; a row's object has the row's digest, is missing or a part; a stale id strikes nothing that was there before |
| `RegistryByFile` | 2, by_file, two versions, a bucket, failing statements and calls, crashes | `TypeOK`, `IndexedAreStored`, `ImplementsShelf` |
| `RegistryByProject` | 2, by_project, two projects sharing the ids, a directory, clients that hang up, crashes | `FileUnderItsRelease`, `OnlyNewestRefreshes`, `NewestIsShown` |
| `RegistryClean` | 2, by_file, a directory, failing statements, clients that hang up | `NoOrphans`; `GarbageCollected` under fairness |
| `RegistryLost` | 2 uploads of one file, no faults | **violation** of `IndexedAreStored` |
| `AccountsAdmin` | 2, all but passwords, failing statements, crashes | `TypeOK`, `OneAdmin`, `OnlyAdminsAct`, `AdminStays` |
| `AccountsPasswords` | 2 logins, logouts, password changes beside resets, first start and restarts | `PasswordIsTold` |
| `AccountsReset` | a login and a reset, no faults | **violation** of `ResetEndsLogins` |
| `Access` | an installer's index, page and file requests beside grants and revocations; two users besides the admin, two projects | `TypeOK`, `GrantsStayWithTheirUser`, `LogNamesTheCaller`, `AccessIsTheCallers` |
| `Blobs` | 2 callers that put, delete, read and probe, in each of the three stores, all faults | `TypeOK`, `ImplementsMap`: in a directory whole objects, at once, in a bucket a part after a failed Put; `StaysUntilDeleted`; `BytesInPlace`, `OpenedIsServed` of downloads; `ProbeTidiesUp`, `NothingIsLeftBehind` of what remains |
| `Database` | server and command, two migrations of which one creates a table; 2 requests over one connection; two faults | `TypeOK`, `AppliedOnce`, `OpenedIsMigrated`, `StreamsHoldNothing`; under fairness `NobodyStarves`, `ServerComesUp`, `ShutdownEnds` |
| `Expiry` | grants until every instant and every date of three days, logins, at every instant | `TypeOK`, `WithinTheSecond`, `DatesNeverEndEarly`, `PageIsExact` |

**Bounds.** `Worker` bounds the requests in flight, `MaxId` the row ids,
`Session` the live sessions; `IdsLeft` stops new requests, never one in flight,
when they run out. The other sets are what the races need. In `Registry`: one
filename with two digests for content races, two versions with different ranks
for freshness, two projects for reused ids. In `Accounts`: a second user name
and a second id, so that an ordinary user can come, go, be renamed to `admin`
and leave its id to another; two passwords to tell an old one from a new one
(three where a change overlaps a reset). In `Access`: two accounts besides the
admin's and two projects, of which one leaves its id to the other; one token,
one version, one file, one download in the log (`MaxLog`), since each is related
to one user and one project only; `MCOperation` gives one worker the installer's
requests and the other the admin's, `Bounded` leaves out granting to and
revoking from the admin, which nothing reads. A METADATA request is a file
request that logs nothing, and is in the model but not in the run. The races are
between two requests, each over one id that is freed and handed out again, which
needs two ids, and nothing in the code distinguishes more rows, files or
requests. `Remote` is TRUE where blob calls fail, since only then may a part be
stored, and FALSE where clients hang up: with both, objects stay behind (see the
findings), which the proofs exclude by name.

In `Blobs`: an archive and its METADATA share a directory, so that the Delete of
one prunes beside a Put of the other; a probe has one of its own. Objects have
two bytes (`Size`) and a download asks for one or two ranges (`MaxRanges`),
which is every kind of seek: forward, back, and to where the reader is. In
`Database`: two migrations, so that one process can be between the two that the
other has both still to do, and one of each kind (`Creating`), as the second run
of a script is stopped in two ways; a query returns at most one row (`MaxRows`),
enough for a handler to hold the connection in a loop; two faults (`MaxFaults`),
one for each process or two in a row; `Requests` leaves out scripts that are
parts or rearrangements of the three that are run. In `Expiry`: three digits
instead of ten and two instead of nine, so that a fraction may have no digit,
one, or two, with zeros before and after; days of two seconds that begin an odd
second after UTC's, and a year 10000 that comes after three days.

The proofs remove the bounds for the safety properties they cover.

**Symmetry.** Workers, sessions, passwords and digests are interchangeable:
nothing orders them. So are the callers of `Blobs`. In `Access` the accounts
besides the admin's are, and the projects. No run with a liveness property uses
symmetry.

**Deadlock** is checked in every run: when the ids are used up, deletes, logouts
or restarts are still possible, and callers, operators and the admin may always
begin something, so the systems never stop.

**Fairness.** In `RegistryClean`, `WF_vars(Progress(w))`: a handler that has
begun goes on, since a goroutine is never suspended and every statement and blob
call returns. In `Database`: a process that is opening the database goes on, and
systemd starts a failed server again (`WF` of `Open` and `Restart`); Shutdown
returns when nobody is served or its deadline has passed (`WF` of `Drained \/
DrainTimesOut`); who holds the connection goes on with its statement (`WF` of
`Statement`), which after five seconds at the latest fails; and who asks for the
connection again and again is handed it at last (`SF` of `Take`: `database/sql`
grants waiting requests in turn). Nothing is assumed of clients, of operators,
or of the command once it has opened the database: they may stall for ever, the
command even with the write lock. Nothing makes clients start requests.

### Findings

Two have a run of their own:

1. *A lost object* (`RegistryLost`). `FileExists` is asked at `ingest.go:55`,
   the row inserted at `:165`. Two overlapping uploads of the same file store
   the same key; the one whose INSERT violates UNIQUE runs `rollbackBlob` and
   deletes the object the other has just indexed. It is also answered 500 and
   not `File already exists`, the phrase `ingest.go:21` says twine's
   `--skip-existing` looks for.
2. *A login that outlives a reset* (`AccountsReset`). `login` verifies the hash
   it has read and inserts the session later; a reset in between removes the
   sessions before that. The error of `DeleteUserSessions` is ignored besides. A
   password change verified against the old hash may in the same way undo the
   reset.

The others were met while modelling. No document of the repository promises the
opposite in so many words; each is visible in the model when the assumption that
keeps it out is dropped.

* *The summary of an older version.* `updateMeta` is decided before the release
  exists: overlapping first uploads of two versions both refresh. It starts TRUE
  and both reads that could clear it swallow errors, so an upload whose read
  fails refreshes as well. (`OnlyNewestRefreshes` without the discipline.)
* *A file under another release.* A release id is carried from
  `GetOrCreateRelease` to `CreateFile`; if the release is deleted in between,
  SQLite hands the id to the next release and the file is indexed there.
  (`FileUnderItsRelease` without the discipline.)
* *An admin nobody can log in as.* The first start prints the password after
  `CreateUser` has inserted the row and read it back; if the read fails or the
  process ends in between, the next start finds an admin and prints nothing.
  `reset-password` repairs it. (`PasswordIsTold` with failures.)
* *A Put that finds its directory gone.* `Local.Delete` removes the directory it
  has emptied (`local.go:86`); a Put that has made the directory and not yet
  created its file in it then fails (`NoDirectory`). No object is lost.
* *Temporary files.* A `rename` that fails, or a killed process, leaves a
  `.put-` file in place, and its directory with it; nothing ever sweeps them
  (`litter`).
* *A part of an object.* `Bucket.Put` (`gocloud.go:58`) closes its writer after
  a failed copy without cancelling the context, on which Go CDK may store what
  it was given so far (`CopyBreaks`). The upload is answered 500 and the key stays
  as it is until somebody stores the file again. When two uploads of one file
  overlap, the part may replace the object the other has just indexed.
  (`IndexedAreStored` without the discipline; `StoredBytesMatch` allows a part.)
* *Objects left by a client that hangs up.* `rollbackBlob` and `DeleteFileBlobs`
  are given the context of the request (`ingest.go:149-174`,
  `api/packages.go:95, 150`), which is cancelled when the client goes. On a bucket
  or OSS the Deletes fail with it (`gocloud.go:83`, `oss.go:136`), their errors are
  ignored, and the objects stay, under no row. A directory is spared, since `Local`
  looks at no context. (`NoOrphans` with `"client"` and `Remote`.)
* *A release struck for another.* Yank, delete release and delete package go by an
  id they looked up statements earlier (`packages.go:90, 127, 145`). If that row is
  deleted meanwhile and its id handed out again, they flag or delete the release or
  project that was given it, whatever its name. `StrikesNamedOrNewer` is what
  remains: only one that was made after they began.
* *A delete beside an upload.* A file that an upload indexes between the listing of
  the files (`packages.go:85, 140`) and the DELETE of their rows (`:90, 145`) goes
  with the cascade, and its object stays. An upload of the same file after the DELETE
  and before the objects are removed (`:95, 150`) is indexed, and its object
  is then deleted. (`NoOrphans` and `IndexedAreStored` without the discipline.)
* *An id that changes hands.* A request that holds a user or package id goes on
  under it when the row is deleted and the id handed out again: a grant reaches the
  newcomer (`users.go:165`), a token is minted for him (`users.go:217`), a page lists
  the files of another project than the one access was checked for
  (`simple.go:73`), a download is checked against and logged as somebody else's
  (`handler.go:64`, `files.go:90`). The row with the highest id has to be deleted and
  another one created between two statements of one request; for grants and tokens
  the request's body is read in between. (`AccessIsTheCallers` without
  `StillNamed`.)
* *The year 10000.* A grant until 9999-12-31 ends, in text, at "10000-01-01",
  which sorts before every other date: it grants nothing, and the page shows it
  as expired (`Holdable`).
* *The second in which access ends.* RFC3339Nano drops trailing zeros, and `.`
  sorts before `Z`: a time with no fraction is later, as text, than every other
  one of its second. An entitlement until a whole second is refused at that very
  instant and granted again until the second is over; a session, whose end has a
  fraction, may be refused early within its last second. `WithinTheSecond` is
  the exact extent of it.

## 4. What is proved

For every value of the constants:

| Theorem | Statement | Assumes |
|---|---|---|
| `TypeCorrect` | `Spec => []TypeOK` | – |
| `RowsStayConsistent` | `Spec => []RowsConsistent` | – |
| `BytesMatch` | `Spec => []StoredBytesMatch` | – |
| `IndexedStayStored` | `Spec => []IndexedAreStored` | `Discipline # "none"` |
| `FilesStayWhereTheyBelong` | `Spec => []FileUnderItsRelease` | `Discipline # "none"` |
| `PublishedAreSafe` | `Spec => StrikesNamedOrNewer` | – |
| `RegistryImplementsShelf` | `Spec => ImplementsShelf` | `Discipline # "none"` |
| `NothingIsOrphanedUntilCrash` | `Spec /\ [][~ Crash /\ NoCallCutOff]_vars => []NoOrphans` | `Discipline # "none"`, no blob call fails by itself |
| `NothingIsOrphaned` | `Spec => []NoOrphans` | `Discipline # "none"`, no crash, no blob call fails, and clients hang up only where objects are in a directory |
| `SummariesAreRightUnlessMisled` | `Spec /\ [][NobodyMisled]_vars => OnlyNewestRefreshes /\ NewestIsShown` | `Discipline = "by_project"` |
| `SummaryNeverGoesBack` | `Spec => OnlyNewestRefreshes` | `Discipline = "by_project"`, no statement fails |
| `NewestUploadIsShown` | `Spec => NewestIsShown` | `Discipline = "by_project"`, no statement fails |
| `TypeCorrect` (of `AccountsProofs`) | `Spec => []TypeOK` | – |
| `AtMostOneAdmin` | `Spec => []OneAdmin` | – |
| `SessionsAreTheAdmins` | `Spec => []OnlyAdminsAct` | – |
| `AdminIsNeverLost` | `Spec => AdminStays` | – |
| `PasswordToldUnlessStartFails` | `Spec /\ [][~ BootFails]_vars => []PasswordIsTold` | no process is killed |
| `PasswordIsAlwaysTold` | `Spec => []PasswordIsTold` | nothing fails |
| `TypeCorrect` (of `AccessProofs`) | `Spec => []TypeOK` | – |
| `GrantsStay` | `Spec => []GrantsStayWithTheirUser` | – |
| `LogIsRight` | `Spec => []LogNamesTheCaller` | – |
| `AccessIsRight` | `Spec => AccessIsTheCallers` | – |
| `TypeCorrect` (of `BlobsProofs`) | `Spec => []TypeOK` | – |
| `BlobsImplementMap` | `Spec => ImplementsMap` | – |
| `ObjectsStay` | `Spec => StaysUntilDeleted` | – |
| `BytesStayInPlace` | `Spec => []BytesInPlace` | – |
| `OpenedFilesAreServed` | `Spec => OpenedIsServed` | – |
| `LeavesNothingBehind` | `Spec => []NothingIsLeftBehind` | – |
| `ProbesGo` | `Spec => ProbeTidiesUp` | – |
| `TypeCorrect` (of `DatabaseProofs`) | `Spec => []TypeOK` | – |
| `MigrationsApplyOnce` | `Spec => []AppliedOnce` | – |
| `OpenedFindsAll` | `Spec => []OpenedIsMigrated` | – |
| `StreamsNeverHold` | `Spec => []StreamsHoldNothing` | – |
| `TypeCorrect` (of `ExpiryProofs`) | `Spec => []TypeOK` | – |
| `EndsWithinTheSecond` | `Spec => []WithinTheSecond` | – |
| `DatesLastTheDay` | `Spec => []DatesNeverEndEarly` | – |
| `PagesAreExact` | `Spec => []PageIsExact` | – |

They rest on the named assumptions of `RowIds`, `Catalog`, `Registry`,
`Accounts`, `Access`, `Blobs`, `Database` and `Expiry` about their constants
(types; `MaxId` and the sizes are numbers; an archive whose METADATA disagrees
with its filename is refused; `Absent` and `Part` are no digests, `NoPassword` is
no password and `Nobody` no worker; a base is at least two, and a day has a
second). What the
assumptions in the table keep out is described in section 2 and among the
findings.

### Registry

**The invariant.** `IInv` is `Base`, which holds whatever overlaps, and, under a
discipline, `Kept`. None of the properties is inductive: that an indexed file
keeps its objects depends on what every request in flight is about to do. `Base`
adds to types and constraints that a worker's step fits its request (`JobFits`)
and that every object, indexed or not, has the content its key says
(`KeyedByContent`); that alone gives `StoredBytesMatch`. `Kept` says what a
worker relies on between reading something and using it: the package and release
ids it carries still name what it asked for (`HoldsPackage`, `HoldsRelease`),
the objects it will delete are its own and belong to rows that are gone or about
to go (`OwnKeys`, `ListedAreDoomed`, `DroppedAreUnindexed`), the filename it
uploads is still free and what it stored is still there (`UploadIsFresh`,
`UploadIsStored`).

**The argument.** `CatalogProofs`: each statement keeps the constraints.
`RegistryProofs`: `Base` is inductive; for `Kept` it classifies a step of a
worker by its effect on what others see: rows only added or refreshed
(`Grows`), a file indexed (`Indexes`), a release or package removed (`Removes`),
an object of an unindexed filename put or deleted (`Touches`). Every other
worker's part of `Kept` survives each class (`Bystander`), because the
discipline keeps the two requests' projects or filenames apart (`Apart`); the
worker's own part is re-established action by action (`IngestKept`,
`AdministerKept`, `OtherStepsKept`). `PublishingProofs`: under `IInv` what is
served is exactly what is indexed (`ServedIs`), so `Indexes` is `Shelf!Publish`,
`Removes` is a withdrawal (or a stutter when the release has no file), and
everything else stutters.

**What a change strikes.** `TargetsKnown` needs no discipline: a release that
goes by the ids a change carries is the one it names, or of the project it
names, or was created after it began. An id can be another's only if the row was
deleted and made again meanwhile, so that whatever has it now is in `young`
(`Remembered`, `TargetsStay`); when the id is looked up it is right
(`TargetsLookedUp`).

**Orphans.** `NoOrphans` speaks of the moments when nobody works; between them an
object without a row has to be some request's business. `Clean`, on top of
`IInv`, says whose: a request `Answers` for the object until its row is inserted,
by the steps it still has to do or by the list it is deleting from, and a delete
has listed the objects of every row it is about to remove (`DoomedAreListed`).
Here `Kept` is needed once more: that list is complete because no upload of the
project runs meanwhile. A crash drops the list, and a blob call that fails the
object, since `rollbackBlob` and `DeleteFileBlobs` ignore the error; a call fails
by itself (`"blob"`) or because the client of its request has gone, and
`NoCallCutOff` says that the second never happens. `NothingIsOrphaned` derives it
where nobody hangs up (`NobodyGoes`) and where no call is ever cut off because
`Remote` is FALSE.

**Summaries.** `updateMeta` is decided at one statement and acted on at a later
one, and by then it is a claim about the past. `DecidedRight` says that it is
still true, in both directions: who will refresh is at least as new as every
release of the project, who will not is older than one. `ShowsOrOlder` carries
that on to the end of the upload, where `NewestIsShown` reads it. With one
request per project no row of the project changes meanwhile (`ProjectSame`,
`StaysInProject`), whatever happens to other projects. A read that fails leaves
`updateMeta` TRUE; `Misled` is the step in which that is wrong, because a newer
version is released, and the only failure the theorem has to exclude. A read that
fails because the client has gone misleads nobody: the statement that would write
the summary fails as well.

### Accounts

**The invariant.** None of the three properties is inductive: a session is
inserted, an account deleted and a write token minted under ids that were read
earlier. `IInv` adds what each process relies on between reading and using.
`CallerIsAdmin`: the caller of an admin handler is still *the* admin.
`SparesCaller`: what is about to be deleted is another id than the caller's.
`WritesForAdmin`: the owner of a write token about to be minted is the admin.
`ResetInv`: the id the reset command holds is the admin's. `ServerInv`: between
FindAdmin and CreateAdmin there is no admin. `ServesWhenUp`: until then nobody
is served, so no handler runs beside EnsureAdmin.

**The argument.** Each statement keeps the rows consistent and keeps the admin
(`AdminsKept`, one lemma per statement). Ids of admins therefore stay admins'
ids (`AdminIdKept`), which is all that other actors rely on (`Bystander`,
`ResetUnchanged`). `LookupUserStep` is where the two refusals of the handlers
count, `CreateAdminStep` where EnsureAdmin's check does. `AdminStays` is the
part of `Inductive` that speaks of the step.

**The password.** `PasswordIsTold` is claimed only when the server serves and no
reset has stored what it has not shown; `PasswordsKnown` says who will show it
until then (`WillBeTold`): the start that made it, or the reset. The reset may
still be ended by an error or Ctrl-C before it has stored anything
(`Interruptible`), and statements of handlers may fail; only a start that fails
halfway (`BootFails`) or a killed process breaks it, which is the finding above.

### Access

**The invariant.** `IInv` says of the rows that they are typed and refer to rows
that exist (`RowsOK`), of requests that they are typed (`RequestsOK`), and it
contains the two properties of the rows, which are inductive with it, for any
timing of requests and reuse of ids: a new entitlement or log entry refers to
the rows that have its ids at that moment (`GrantStep`, `LogDownloadStep`), and
`DeleteUserStep` and `RemovePackageStep` remove an entitlement or blank a log
entry in the statement that frees its id.

**The argument.** `ReadStep`, `FinishStep` and `GotoStep` cover every step that
only reads; what is left are three writers and the statements of other handlers.
`AccessIsRight` follows from `IInv` and `StillNamed` in the state of the step
(`AccessIsEntitled`): the entitlement found by the caller's id is of a user that
exists (`GrantsStayWithTheirUser`), and the user with that id is the caller as it
was read.

### Blobs

**The invariant.** What a download sends depends on where it stands in a body
opened some calls ago, on ranges it was given earlier, and on the objects other
callers store and delete. `KeyedByContent` says that nothing but the content a
key names is ever under it, so that a body opened anew after a Seek yields the
same object. A part may be there only in a bucket in which something has failed
(`Torn`). `Fits` says that a caller's next step is one of its call, and that
there is a range left to send when it is to send one. `ReadsOn` says that a body
stands where its reader says, and the reader at the byte to be sent next; with
`Sent` that gives `BytesInPlace`.

**The argument.** `StepHasItsEffect`: a step of any caller leaves the objects
alone, puts the content of its own key or a part of it or deletes it, failures
and slips of the disk included; and a part is only put where it is `Torn`.
`ImplementsMap` and `StaysUntilDeleted` follow from that and `Fits` alone. For
the invariant, what one caller relies on is its own (`Bystanders`), so that one
lemma per kind of step is left; `SeekToMoves` states once what the three readers
have in common.

What calls leave behind rests on a second invariant, `Tidy`, on top of `IInv`: a
call has its temporary file exactly while it fills it (`Tidies`); nobody else
works under a probe's key (`ProbesAreApart`, from the nonce), so that what its
Delete took stays gone; and while nothing has failed, a directory holds an
object or a call is working in it (`InUse`). `DirectoriesInUse` is the race of
`local.go:86`: rmdir is refused as long as another call's temporary file is in
the directory, and when that is renamed the directory holds its object.

### Database

**The invariant.** `AppliedOnce` is not inductive: that a commit raises the count
of a script that was not applied depends on what the process found before.
`Transaction` says that whoever writes holds the lock, so that what the open
transaction has run and inserted is its own, and that a row it has inserted was
not there, nor can another process have recorded it since. That whoever has opened
the database finds all of it needs `Progress`: every file before the one a process
has come to is recorded, by whomever, and stays so. That no handler keeps the
connection while it waits for its client needs `HeldForUse`: who holds it is about
to query. `HandlingIsUp` says that handlers run only while the server serves.

**The argument.** One lemma per action of a process; `CommitStep` is where the
count is seen to be right. The steps of handlers leave schema and transaction
alone (`HandleStep`), since the lock they take is then the server's and the server
is not migrating (`HandlingIsUp`).

### Expiry

**The invariant.** `Exact`: a row is the text of the very instant at which what
was said ends, a date at the midnight in the server's zone that follows it. The
rest follows from the texts, for any base and any number of digits.

**The argument.** Seconds decide whenever they differ (`SecondsDecide`), and
`q <= a \div b <=> q * b <= a` (`AtLeast`) turns seconds and days into instants:
`LocalDayEnds` is why a date lasts to its last instant, and
`MisledWithinTheSecond` leaves the texts nothing to decide but the second in
which access ends. `PageIsExact` needs the digits: the numbers that the leading
digits of a fraction are satisfy the recursion by which `Value` reads them
(`LeadingDigits`), the digits after `Kept` being zeros (`KeptIs`), and a function
that satisfies it is the only one (`ValueIs`).

**Induction.** The library's induction theorem takes an operator, which these
provers cannot instantiate. `Induction` takes a set instead. It rests on
`LeastNumber`, and that on a fact of the library that has no such parameter:
strict inclusion of finite sets is well-founded, and `n` is smaller than `m`
when the numbers below it are fewer. `Pow` is a recursive function over `0 ..
Digits`; that it exists is `PowersExist`, by the same induction.

### Only model-checked

`GarbageCollected`, `NobodyStarves`, `ServerComesUp` and `ShutdownEnds`: liveness
under fairness is outside this prover's reach, as is ENABLED. Every invariant and
every action property that a passing run checks is proved. No module uses a
recursive operator.

## 5. Not modelled

* **Version order and filenames** (`pkgmeta/name.go`, `filename.go`). Pure
  functions on strings, whose difficulty is in the characters of PEP 440 and PEP
  427. `Registry` takes the order they compute as the constant `Rank`, in which
  versions may compare equal, and both functions as computed before its first
  step.
* **Archive parsing** (`pkgmeta/metadata.go`). A pure reader whose result
  `Registry` takes as the constant `MetaVersion`.
* **Configuration** (`config/`). Read once; what it selects is a constant or a
  choice of the initial state (`backend`, `signing`, `TTL`).
* **The web application** (`web/src/`). `auth.ts` caches what the server said of
  the session, and an answer that arrives late may overwrite a newer one; but it
  decides only which page is shown, since the server checks the cookie of every
  request, which `Accounts` models.
* **The HTTP surface**: routing, rendering, Accept negotiation, listeners, TLS
  and ACME, cookies, the request log, embedded assets. They keep no state other
  components read.
* **Columns that are only shown**: notes, display names, `last_used_at`, dates
  of rows. Their statements are in `Database`, as statements.
* **PurgeExpiredSessions**, which nothing calls.
* **What libraries do inside one call**: SQLite, the Go CDK, the OSS SDK. In
  particular a statement that commits and still reports failure, at which moment a
  remote call takes effect, and how long a signed URL is honoured.
* **The installer and the service unit**, except for `Restart=on-failure`.
