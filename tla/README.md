# A TLA+ model of yuque-web-mcp

yuque-web-mcp is an MCP server that reads and writes Yuque documents, sheets and tables through the
private endpoints of Yuque's web front end, on behalf of one or several configured owners. Every
write is a *change*: a preview stores an encrypted payload and a baseline and returns a token, and a
confirm of the token executes it at most once. This directory holds the TLA+ modules that model it,
the TLC configurations that check them on small instances and the TLAPS proofs. Paths in this file
are relative to the repository; `change-store.ts` stands for `src/change-store.ts` and so on.

## Inventory

| Component | State | Operations | Interacts with |
|---|---|---|---|
| Change lifecycle (`change-store.ts`, `db.ts`) | one row of `pending_changes` | preview, cancel, expire, confirm, record | the promise every other change relies on |
| Confirm store (`change-store.ts`, `db.ts`, `app.ts`, `index.ts`, `runtime-lock.ts`), one object per owner and process | SQLite: `pending_changes`, `audit_events`, encrypted `snapshots`, journals; memory: `targetLocks`, `activeConfirms`, `acceptingConfirms` | 27 previews, `confirmChange`, `cancel`, `beginShutdown`, `waitForIdle`, recovery when the database is opened | client (reads, writes), database, HTTP server (shutdown) |
| Document and Sheet update (`change-store.ts`, `yuque-client.ts`) | remote draft, published body, title, draft version, editor lock; local: snapshot | section update, rename, two kinds of restore, Sheet update and restore | Yuque, colleagues in the web editor |
| Table record archive (`table-archive.ts`) | two remote tables, journal in `pending_changes` | preview, three writes, each with a checkpoint and a read-back | Yuque, restart recovery |
| Creation, book, comment, collaborator and deletion changes (`change-store.ts`, `yuque-client.ts`) | one object of a remote collection | one request with rechecks before it and a reconciling read after it | Yuque |
| Catalog changes, Table transfer (`change-store.ts`, `table-transfer.ts`, `yuque-client.ts`) | the catalog trees of the books, the contents of a Table, a journal | create, rename, move, delete a node; copy or move a Table to another book | each other (local locks of the books), Yuque, restart |
| Web client (`yuque-client.ts`) | one promise queue per employee, document index cache | 60 requests, `persistJar`, retry, 401 handling | session store, Yuque |
| Session store (`session-store.ts`) | one encrypted file per employee | save, load, remove, migration of the old single file | client, login manager, maintenance |
| Login manager (`login-manager.ts`, `captcha-sidecar.ts`) | attempts in two maps, one Chromium per run, sweep timer | begin, beginSms, submitSms, status, refresh, provider, cancel, shutdown | session store, Chromium, sidecar, login page |
| HTTP server and MCP sessions (`http-server.ts`, `metrics.ts`, `auth.ts`) | MCP sessions, their counters, a gauge of requests, the state of the shutdown | every route, idle expiry, graceful shutdown | tenants of `app.ts`, login manager, confirm store |
| Offline maintenance (`maintenance.ts`, `admin.ts`) | data files, recovery bundles, the configured secret | backup, restore, rotate-key, rotate-token | runtime lock, database, sessions |
| Instance manager (`instance-manager.ts`, `instance-admin.ts`) | index file and its lock, one directory per instance | create, start, backup, upgrade with rollback, status | docker compose, the data of a running service |
| Sheet algorithms (`sheet-*.ts`) | none | A1 ranges, operations, diff, digests, formulas, codec, charts | change store |
| Lake document patching (`lake-*.ts`) | none | block scan, sections, patches, digests | change store |
| Table reading (`table-query.ts`, `table-model.ts`, `yuque-client.ts`) | none | schema, filters, pages, scans, distributions | tools |
| Tool surface (`mcp.ts`, `contracts.ts`, `capability-registry.ts`) | none of its own | dispatch, capability gates | all |
| Configuration, secrets, network policy; captcha sidecar; deployment scripts, experiment, agent skill | none that a change depends on | parsing, AES-GCM, one child process per call | all |

What is hard in it:

* **Interleaving.** JavaScript runs to the next `await`; confirms, cancels, polls, status requests
  and timers of one process interleave there; two processes may share a data directory during a
  handover, and administration commands run beside the service.
* **Remote writes without an answer.** A request that times out may have been applied, may not have
  been, or may arrive later. The code reconciles with a read.
* **Crashes** between the claim of a change, its remote steps and its recorded outcome, and between
  two file operations of a command.
* **Several actors on one remote object**: colleagues in the web editor, other confirms.
* **Partial failure** in sequences of remote or file steps, in `finally` blocks above all.
* **Shutdown** with a deadline over operations that cannot be cancelled.
* **Arithmetic on addresses, ranges and offsets** by hand, at the borders of sheets and pages.

What makes each component correct:

* Change store: a token runs at most once, only when confirmed, under all its locks; what is
  recorded is what came back; no row stays `executing`; nothing waits for ever.
* Document, Sheet, record, object, catalog and transfer changes: what a write replaces is what the
  user approved and what the snapshot kept; `conflict` means nothing was written; `succeeded` and
  `partial` mean something was; nothing is removed that is not copied; a catalog stays a tree; what
  is not told as done can be found out from the row.
* Login: success means stored and stays; the limit holds; every browser is closed.
* Sessions: requests do not lose each other's cookies; the file is whole; every request ends.
* HTTP server: the counters count; the limits hold; nothing in use is taken away; the shutdown is
  quiet and ends unless a browser or the remote service hangs.
* Maintenance and instances: at every point, also after a crash, the data and every backup can be
  read with a key that exists; a command that reports an error has undone itself; index, directories
  and images agree.
* Algorithms: what is written is what was shown and what was asked for; pages cover the answer once.

## Modules

| Module | Models | Composition |
|---|---|---|
| `ChangeLifecycle` | what a change token promises, without locks, processes or errors | abstract specification |
| `ConfirmStore` | rows, audit trail, confirms, locks, lives of the service | refines `ChangeLifecycle` |
| `DocUpdate` | `execute` for the changes of one document or Sheet | stands where `ConfirmStore` has one step `Return` |
| `TableArchive` | preview and `execute` of record archives between two tables | the same |
| `ObjectChange` | preview and `execute` of the changes of one object in a collection | the same |
| `Catalogs` | the catalogs of the books, the colleague, the local locks of books | shared state of the next two |
| `CatalogChange`, `TableTransfer` | catalog changes; copy and move of a whole Table | extend `Catalogs` |
| `CatalogSystem` | both over the same catalogs, with a restart | composes them |
| `Login` | the login manager | its `saved` is a save of `SessionFile` |
| `SessionFile` | the session file between the client's queue, logins and logouts | the environment of `Login`, one file of `Maintenance` |
| `HttpServer` | requests, sessions, limits, shutdown | its tenants are the stores of `ConfirmStore` |
| `Maintenance` | backup, restore and key rotation | takes rows and session files as ciphertexts |
| `InstanceManager` | the commands on instances | its data directory is that of `Maintenance` |
| `Operations` | both, and what `docker compose up` and the copies of a backup do to the data | composes them: extends the one, `INSTANCE` of the other |
| `SheetModel`, `SheetFormula` | what `update_sheet` shows, binds and writes; recalculation of formulas | parts of `MCAlgorithms` |
| `LakePatch` | where `update_doc` cuts a document | part of `MCAlgorithms` |
| `TableRead` | reading a Table page by page | extended by `MCAlgorithms` |
| `ConfirmStoreProofs`, `DocUpdateProofs`, `TableProofs`, `ObjectChangeProofs`, `CatalogProofs`, `SessionFileProofs`, `OperationsProofs`, `ServiceProofs` | theorems | extend the module they are about; `ServiceProofs` both `Login` and `HttpServer`, `TableProofs` both `TableArchive` and `TableRead` |
| `MC...` | constants for TLC; `MCAlgorithms` also the small data and the choice of one part | extend or instantiate the modules |

An operator named `Mutant...` stands before a definition that code depends on: the form it would
have if the code forgot something. It is used by nothing here; putting it in the definition's place
makes the property that PROJECT.json names with it fail.

### ConfirmStore

`state`, `expired`, `trail` are the durable columns, the other variables one ChangeStore object and
one shutdown per process, and one confirm per token. A confirm walks through `waiting` (in
`withTargetLocks`, key by key), `executing` (inside `execute`), `unwinding` (locks being released
from the inside out) and `finishing` (terminal UPDATE and audit INSERT). One action is one
synchronous stretch; a failing audit INSERT is the parameter `logged`. A life of the service goes
`running`, `draining`, `waiting`, `stopping`, `closed` or `crashed`; after `closed` the runtime lock
is free although a confirm may still run, as in `index.ts`. `Backup` is the `admin backup` command,
a process of its own that builds a second ChangeStore on the owner's database (`admin.ts:103`)
without asking for the runtime lock; `OnlineBackup` says whether it is used beside a running
service. What `execute` comes back with is one of `Results`: a state, or an error whose class
decides the state. Requests that are rejected before they change anything are stuttering steps.

`ChangeLifecycle` says of each token: absent, previewed, executing, over; it can be cancelled only
before it is executing and stays as it ended. `ConfirmStore` instantiates it as `Life` (its `state`
is the row's state, the refinement mapping forgets everything else); `LifeSpec` is checked as a
property and proved.

### DocUpdate

A confirm reads the document, checks the editor lock, acquires it, reads again, saves the draft,
publishes, renames, verifies, releases. An action is one client call with the code that runs on its
answer and the read that reconciles it. An answer is `ok`, `refused` (HTTP status or contract error)
or `uncertain` (timeout, network); an unanswered request is applied at once or never. The body is a
function from sections, or ranges of a Sheet, to their last author. A Sheet is read once before its
lock, published with its save, and its restore shares the steps of the update. The local lock is
keyed by the URL as it was spelled (`KeyOf`); the editor lock's identity is one per process. A
colleague opens the editor, edits, and leaves; `HonoursLock` says whether they may edit without the
lock.

### TableArchive

Archives of one record from one table to another: three writes (create the copy, fill it, remove the
source), each announced by a checkpoint in the journal, the reads before and after them, the
classification of errors by phase and by whether a write was attempted, the restart that writes off
what it finds executing. A request in flight arrives now, later or never (`Arrive`). A record is its
value and whether it has a body; `Edit` is a colleague. `raced` remembers the archives in whose
unguarded window (after the last look, the one TABLE_ARCHIVE.md concedes) somebody edited. An edit
that is taken back leaves the same value. The configuration checks that are repeated before each
write are constant and left out.

### ObjectChange

Creating, updating and deleting a knowledge base, creating a document or a Sheet with its first
worksheet, deleting either, collaborators and comments share one shape: recheck what the preview
read under a local lock, send one request, reconcile an unanswered one with a read, read back. A
behaviour has one `family` of object; `world` is the remote collection, `op` the stored operation,
`base` what the preview read. `Prepare` is the read of the client itself before the request, `Send`
the request, `Find...` the reconciling reads, `Verify...`, `Locate` and `Reread...` the ones that
decide between `succeeded`, `partial` and `unknown`. A late request (`Land`) may arrive at any time,
also after the change has ended. The families differ where the code differs: in the local lock key,
in what the fingerprint covers, in which failing read is an error and which is partial.

### Catalogs, CatalogChange, TableTransfer, CatalogSystem

`cat` is a tree of directories and documents per book. `CatalogChange` compares the whole catalog
with the preview's twice, sends one request or, for a creation, an insertion and a rename, and
identifies what it created by what is new under the parent. `TableTransfer` takes the locks of both
books, journals before and after its request, and compares both catalogs and the contents with the
plan; `Reconcilable` is the reconciliation from the row. `CatalogSystem` runs both on the same
books, in a personal space (where transfers are closed) or an organization (where of the catalog
changes only moves are open), with one restart. The order of siblings is left out: a reordering is
one more edit. A transfer compares two reads of the catalogs, so that its success is exact only
while nobody else writes between them (`exact`): a colleague may add and remove a node unseen.

### Login

`att` is the map of `LoginAttempt` objects in creation order (a begin takes the first that fits),
`run` the position of each call of `run()` or `runSmsSend()`, `open` the living Chromium processes
and `att[a].handle` which of them `attempt.browser` refers to. The point of the module is that
`run()` is not awaited: it writes `attempt.state` after awaits, and a replaced, logged-out or
expired attempt is the same object. `closeBrowser` is one step; when there is a browser to close,
what its caller does after it (`Switched`, `Refreshed`) is a step of its own. A poll that is under
way when the browser is closed still delivers, because `closeBrowser` waits for the interaction
queue. The count of failed polls before a reload is left out: a poll delivers, does not, or fails
for good.

### SessionFile

`target` and `tmp` are directory entries that point to inodes, `data` is what the inodes hold, `fd`
the inode a writer has open: the temporary file has one fixed name, so two writers may share an
inode or rename each other's file away. `queue` is the client's promise chain, `pc` where each
request or login is between two system calls. A session is the login it stems from and the requests
whose cookies it has. `stored` and `overlap` are history. The old single-tenant `session.enc` is the
constant `Legacy`.

### HttpServer

A request arrives with one of the routes (`Query`), passes the guards in the order of the code and
either is answered at once or waits: for the room that closing idle sessions makes, for its body,
for the transport that `connect` opens, for its tool. `gauge` is `metrics.activeRequests`,
`sessions` the map of transports with `inFlight` of each. `Abort` is a client that hangs up; whether
the response's `finish` event still comes is free. The graceful shutdown is a chain of five awaits,
and `phase` is named for the one it stands at: the login browsers (`logins`), the confirms under way
(`writes`), the SDK's transports, the open connections, the tenants' clients. `BeginShutdown`,
`LoginsClosed`, `Drained`, `CloseSessions`, `CloseServer` and `ForgetTenants` are the stretches
between them. `awaits` says whether what is awaited is done, will still answer or hangs (`Settle`);
`due` that the deadline has passed (`Tick`), which only `writes` and `connections` have; `drained`
is `writesDrained`. `tenant` says whether a database is open, and a request may open one as long as
it is let through.

### Maintenance, InstanceManager, Operations

In `Maintenance` a file is the set of ciphertexts in it, a ciphertext is a content, the owner in its
associated data and a key. `cmd.at` walks through the file operations of one command; each may fail
before its effect (`Fault`), two of them after it (`Done`: a rename succeeds and the mode change
after it does not), and the process may die anywhere (`Crash`). A catch block is `undoDb`,
`undoSession`. `tenantDb` is what the service reads and writes, `stateDb` the file the commands
rotate and restore: the service does not open it. No command holds the runtime lock; `StartsBeside =
FALSE` is the operator who keeps the service stopped under a restore or a rotation, as OPERATIONS.md
asks. With `TRUE`, `Recoverable` fails.

In `InstanceManager` several commands run at once on one root: each loads the index, writes
directories, Compose and metadata files, calls Docker and writes the index back, under `.index.lock`
where the code takes it (`start` does not). A step may fail, a process may die; a lock file left
behind is removed by the operator (`RemoveLeftLock`). `Operations` runs both on instance 0: `up`
starts the service with the key in `service.env` at that moment, and the backup of an instance
copies that file, the directories and `state.db` one after the other beside whatever runs (`copy`).
`sound` remembers which backups began with readable files and had no restore or rotation beside
them.

### SheetModel, SheetFormula, LakePatch, TableRead

These are algorithms without processes, so each module is a short session around them: a preview,
one edit of a colleague, a confirm; or the calls of a client that follows `next_offset` while rows
come and go. What the code computes is written as the code computes it (addresses parsed into
numbers and built back, one scan with a stack of open tags, pages cut by limit and halved by size, a
recursive-descent parser with a memo and a set of cells being visited) and compared with a reference
that is not: the operations applied to coordinates, the document as a tree, the matches as a set,
formulas evaluated from the expressions they were written down from in rounds until nothing changes.
Of some sixty spreadsheet functions ten stand for the ways arguments are taken: ranges, scalars,
conditions and positions. `meant` in `SheetFormula` is the expression behind a formula's tokens; the
code never sees it.

## Runs

| Run | Shows | Bounds | Distinct states |
|---|---|---|---|
| `confirm_restart` | rows, counters and trail agree (`RecordsAreTrue`), a drained store is idle, only confirmed tokens run and at most once, outcomes are kept, refinement of `ChangeLifecycle` | 2 tokens that share a key, 2 lives of the service, three results, any audit INSERT fails, no backup beside the service | 2,290,000 |
| `confirm_locks` | who holds a key is alone with it, who executes holds all it asked for, and no confirms wait for each other in a circle (`LocksSound`); every confirm ends | 3 tokens over 3 keys in a chain, which is a circle if acquisition is not sorted; 1 process, audit intact | 74,000 |
| `doc_conflict` | outcomes tell the truth, one write per baseline, a left lock is reported, the snapshot holds what was replaced | a restore, an update with a title, a rename of a document, or a restore and updates of a Sheet; 2 sections, 1 edit, one spelling, the lock honoured | 3,140,000 |
| `archive_record` | outcome and journal tell how far an archive went, nothing is removed that is not copied, one copy | 2 archives of one record, 2 edits, crashes anywhere, late requests | 1,270,000 |
| `objects` | outcomes tell the truth, what is replaced is what was previewed and, if deleted, saved; no twin books | 2 changes, 4 families, 2 objects of others, 2 values, 1 edit, late requests; changes are symmetric | 2,850,000 |
| `catalogs` | catalogs stay trees and are written as previewed, outcomes tell the truth, a transfer can be reconciled from its row | 1 change and 1 transfer, 2 books, 2 directories one in the other, 1 Table, 1 directory of a colleague, 1 edit, 1 restart | 270,000 |
| `login_attempts` | the limit, success is stored and stays, every browser is closed | 2 employees, 1 provider, 1 phone, limit 1, at most 2 runs over all attempts, 2 callers of submitSms | 689,000 |
| `session_queue` | no cookies lost, whole file, every request ends | 2 requests (1 idempotent), 1 login, logouts, the old single file | 76,000 |
| `http_sessions` | counters and limits, nothing in use is taken away, the shutdown ends and is quiet | 3 requests, 2 at a time, 1 session with 2 requests at a time; each await of the shutdown has nothing to wait for, answers or hangs | 1,240,000 |
| `operations` | nothing is sealed under a key nobody has, a failed command restores the files, what was created stays, images agree | 2 owners; 3 maintenance commands, or 1 and 1 of the instance manager, or 2 of that; 2 writes, 2 I/O errors, 1 of the manager, 2 aliases, ports, images | 2,240,000 |
| `algorithms` | sheets, formulas, documents and pages come out as references say | the inputs listed in `MCAlgorithms`, 1 edit of a colleague | 145,000 |
| `maintenance_rotation` (violation) | a successful rotation leaves the owners' databases under the old key | 2 owners, 1 command | |

Why the bounds are enough: what goes wrong in a store goes wrong between two confirms of one key or
between one confirm and one restart; two tokens, two keys and two lives give every such pair, and
the chain of three changes is the smallest in which a circle of waits could close. Two archives of
one record are the smallest instance in which one's copy is the other's record to find; a
colleague's two edits are a change and a second one that hides it. Two changes of one collection and
one foreign write give every triple of reader, writer and disturber that one lock key orders or
fails to order. A transfer meets a catalog change in either of its two books; two directories, one
in the other, are the least in which a move could close a loop. In `Login` every shared reference is
shared by two: two attempts for the limit, two runs for the browser, two callers for the code.
`SessionFile` needs one retried request, one other and one login: each pair of writers of the
temporary file occurs. Three requests with a limit of two have one that is refused, two handshakes
that race for one session, and a third in the shutdown. Three maintenance commands allow a backup, a
rotation and a restore of what was sealed before it; two commands of the instance manager are a pair
over one index. The Sheets stand at the border where column names get a second letter, at the first
and the last row; the documents have up to two sections with nested blocks, comments and proprietary
elements; the tables have rows on both sides of a page.

`CHECK_DEADLOCK FALSE` is set everywhere because the lives of the service, the tokens, the requests,
the commands, the edits and the attempts are finite: when they are used up the instance stops.

### Fairness

`ConfirmStore!Fairness` is weak fairness of each confirm's steps: a promise whose turn has come
runs, and every remote call comes back, so `execute` returns: the client bounds the wait for the
headers, and the HTTP library that for a silent body (only a body that trickles for ever is left).
Nothing obliges a client to confirm or a process to start, stop or die. `Login!Fairness` is weak
fairness of time and of each run: launch, navigation, poll and save answer. (`page.evaluate` has no
timeout; a page that hangs there hangs the run, see the observations.) Whether a poll finds somebody
who scanned is not fair: the browser is closed without it. `BrowsersClose` and that a success stays
(`SuccessIsTrue`) are stated for attempts with one run (`Once`), `LimitHolds` for those that
moreover were not closed and did not grow old: the code revives a closed attempt when its run
reaches `waiting_scan`, see the observations. `SessionFile!FairSpec` is weak fairness of each
request: files answer and a fetch comes back, as above. `HttpServer!FairServerSpec` is weak fairness
of three things: a continuation of the shutdown whose await is over runs, time passes, and what is
awaited answers or hangs, at the model's choice. No client is obliged to send its body, no tool and
no confirm to end. `waitForIdle` and the race with open connections have deadlines, so there `Tick`
is enough; `login.shutdown` and `app.close` have none, and `ShutdownEnds` says so: the service is
stopped, or it stands at one of these two and what it waits for hangs. (The transports' `close` of
the SDK is taken to return.) `Maintenance`, `Operations` and the changes need none.

## Proofs

Each proof is of `Spec => []I` for an inductive invariant `I`, and holds for any sets of changes,
keys, requests and so on, under the assumptions of the module. The two theorems about reading a
Table have `WellFormed` for a hypothesis instead: what tables the remote service answers with (a
cell of a known kind in every column, numbers in a progress column) and what requests the tool's
schema lets through (positive limits, known kinds of filter values); TLC evaluates it for the data
of the run as `TableAssumption`. Every module with processes has its type invariant proved
(`TypeCorrect`, `TypesCorrect`, `ServerTypeCorrect`; `CatalogProofs` states its types in its
invariant). None of the properties is inductive by itself; what had to be added is this.

* `ConfirmStoreProofs`: `TypeOK`, `OnlyConfirmedRun`, `RunsOnce`, `TargetExclusion`,
  `RunsUnderAllLocks`, `TerminalStays` and `LifeSpec`. `IInv` adds: where a confirm stands agrees
  with its row and with its process (`CallOK`); the keys it holds are among the keys it wants, and
  all of them while it executes (`HeldOK`); who holds a key is the first of its queue
  (`HolderFirst`); and a token that ran is past its preview (`RanOK`). `TargetExclusion` follows
  from `HolderFirst` because a queue has one first element, `RunsOnce` from `RanOK` and from the
  claim of the row, and the refinement because each action changes the row of one token along an
  edge of `ChangeLifecycle`.
* In the second half of `ConfirmStoreProofs`: `DrainedMeansIdle`, `OutcomeKept` and
  `RecordsAreTrue`. On top of `IInv`, counters count (`CountOK`), one process at a time has the lock
  and an open store (`LifeOK`), a drain that found nothing stays so (`DrainOK`), rows and trails
  belong to the confirms under way (`OwnOK`, `TrailOK`). `RecordsAreTrue` is proved for
  `~OnlineBackup`: a backup beside the service writes off rows of live confirms.
* In the third part of `ConfirmStoreProofs`: `NoDeadlock` and, with `TargetExclusion` and
  `RunsUnderAllLocks`, `LocksSound`. A queue has no confirm twice and only confirms that stand in it
  (`QueuesOK`), and a confirm that waits holds just the smaller ones of its keys (`WaitOK`), because
  `withTargetLocks` sorts them. So of confirms that wait, one whose next key is the greatest, and
  the first such in that key's queue, waits for none of the others: whoever is ahead of it has
  entered the key and wants a greater one (`NoCircle`, `WaitingEnds`).
* `DocUpdateProofs`: `OutcomeIsTrue` and `LeftLockIsReported` from `MarkOK` (the name of a change
  stands in the document only where it wrote), `StepOK` and `LockOK`; `OneWritePerBaseline` assuming
  `OneSpelled`, from `StaleOK` (a document once written no longer reads as its baseline) and
  `ApprovedOK`; `SnapshotHoldsReplaced` assuming `OneSpelled` and `HonoursLock`, from `LockedOK`
  (nothing else moves between the last read and the write).
* `TableProofs`, first half: `TypeOK`, `OutcomeIsTrue`, `JournalAhead`, `RemovesOnlyCopied` and
  `OneCopy`. The invariant relates the step of each archive to its plan's phase and its journal
  (`StepOK`), to the requests sent and in flight (`RequestOK`), to what it saw in the tables as long
  as nobody raced it (`LookOK`), and its outcome to its phase (`SaidOK`). Its preservation is proved
  along the shapes of a step: a read, a write, an answer, an end, and what others do. `OneCopy` has
  an invariant of its own (`CopyInv`): a request is awaited exactly while an archive writes
  (`PendingOK`), only archives that execute or do not know their outcome have requests in flight
  (`FlightOK`), a plan has one target per source (`PlannedOK`), the lock keeps two archives of one
  target apart (`Apart`), and what an archive saw before its first request is still so for its
  records (`SeenOK`). `OneCopy` follows because a copy is put only where no equal record stands.
* `TableProofs`, second half: `PagesCoverOnce` and `CountsAreWhole`, for every table, request, page
  size and limit. `ReadInv` says that on an unchanged table the client holds the first `offset`
  of the records it wants and nothing else, that a scan has a prefix of the table and no record
  twice, and that the counts are those of the wanted records (`Reached` is the first of these). An
  answer keeps at least one record of a page that has any, and `next_offset` follows what was kept,
  so the offset moves on by as much as the client received. That the halving of a long answer and
  the selection of matches, both recursive functions, exist and are bounded is proved with the
  least argument at which they would not be; that the code's filter selects what the reference
  wants is `MatchedIsWanted`, one case for each kind of value. The counts of a column add up
  because each membership is in the set of one value (`SumOfSizes`), and no bucket is smaller than
  a value left out because the buckets are picked greatest first (`TopExists`,
  `DistributionWhole`).
* `ServiceProofs`, first half: `LimitHolds` and `SuccessIsTrue`. The invariant is about each attempt
  (`AttOK`): an attempt that is not made has no runs (`UnbornOK`), one by SMS has one run and at
  most one caller who submits, while it waits for the code (`SmsOK`, `QrOK`, `SubmitOK`), after a
  success the run is over or closing (`SuccessOK`), and the state follows the run while nothing was
  done to the attempt from outside (`FreshOK`). What begins, logouts and timers do to the attempts
  they do not make only takes from them (`Calm`). So an attempt that does not count never begins to
  count again, and the limit follows from the one step that adds an attempt (`StartKept`).
* `SessionFileProofs`: `CookiesKept` and `WholeFile`. Only the head of the queue has a session in
  its hands (`QueueOK`); a login's session is written once, and nobody stems from it before it was
  the session file (`LoginOK`, `TmpOK`); so what is in the file or on its way there has the cookies
  of every request stored from the same login (`JarsOK`); and while no two saves overlap the
  temporary file belongs to the one under way (`WholeOK`).
* `ServiceProofs`, second half: `LimitsHold`, `ClosedIsQuiet` and `InUseKept`. Each counter counts a
  set of requests (`GaugeOK`, `UseOK`), the bound on sessions needs the handshakes that were
  promised room as well (`RoomOK`), and from the race with the connections on nobody is left who
  waits unless it timed out (`QuietOK`).
* `ObjectChangeProofs`: `TypeCorrect`, `OutcomeIsTrue`, `BaselineReplaced` and `NoTwinBooks`. The
  invariant says what an operation looks like in each family (`Shaped`), that its steps come in
  order (`Ordered`), that a confirm owns its lock from its beginning to its end (`Locked`), that the
  object a creation numbered is nobody else's (`Own`), and which request or echo accounts for each
  effect (`Effective`, `Taken`, `Believed`); `BaselineReplaced` needs what was read to stay so while
  nobody else writes (`Saved`, `Quiet`), `NoTwinBooks` that one creation of a name is under way
  (`Single`). It assumes that no value is `Absent` and no change `Nobody` (`NamesAssumption`).
* `CatalogProofs`: `CatalogsKept`, `OutcomeIsTrue` and `TransferReconcilable`. That a catalog is a
  tree is a recursion on its levels (`Below`), and claims about it are proved with the least level
  at which they would fail (`Least`, because a finite set of numbers is well founded). There are
  more levels than folders (`DepthAssumption`), so the levels reach a fixed point (`Closure`), and a
  catalog is a tree exactly if no set of nodes is its own ground (`Grounded`; `RootedTree`,
  `TreeRooted`). In that form each operation that `prepareCatalogChange` allows, and each transfer,
  keeps a tree (`EditTree`, `TransferredTree`). The invariant: who is busy holds its books
  (`ChangeOK`, `TransferOK`); between its last read and its request a catalog is the preview's while
  nobody else wrote (`ReadOK`); the phase follows the step and the journal the phase (`PhaseOK`);
  requests belong to who sent them (`RequestOK`); the document of an undisturbed transfer is where
  its plan wants it (`TargetOK`); and without a colleague or a late request the catalogs are trees
  (`TreesOK`). It assumes that new nodes are new names, that the directories are finitely many and
  fewer than the levels, and that the catalogs at the start are trees (`NamesAssumption`,
  `DepthAssumption`, `StartAssumption`).
* `OperationsProofs`: `KeysKept`, `CreatedStays`, `ReportIsTrue` and `ImagesAgree`. The invariant
  has a part for each side. Of the instances: how jobs are numbered (`Numbered`), which commands
  come to which steps (`KindOK`), that one command at a time is inside `withIndexLock` (`LockOK`)
  and what it read there is still the index (`ReadOK`), that a directory follows its creation
  (`DirOK`), and that a compose file and the index name the same image but in the middle of an
  upgrade (`EvenOK`). Of the maintenance: service and commands exclude each other (`ServiceOK`,
  `CommandOK`), a rotation's bundle has the files as they were when it began (`FilesOK`), and every
  ciphertext in files and bundles can be recovered with the configured key or from a bundle
  (`KeptOK`). The sides meet in `StartsOK`, nobody is about to start a container under a restore or
  a rotation, and in `CopyOK`, what an instance's backup copied has the configured key. `KeysKept`
  and `ReportIsTrue` are proved for `~StartsBeside` (the operator does not start the service under a
  restore or a rotation), which the run assumes too: neither command keeps the service from
  starting. `ImagesAgree`, `CreatedStays` and the types need no such operator: they follow from the
  instances' part alone and from where a command stands in its own steps (`Placed`).

Only model-checked: what is about fairness (`ConfirmsEnd`, `BrowsersClose`, `RequestsEnd`,
`ShutdownEnds`: liveness is out of the prover's reach); and the algorithms on Sheets, formulas and
Lake documents (`SheetWritten`, `LakeWritten`, `NewLookShowsTheSame`), which are recursive and whose
references compare values computed by induction over the data, which no installed prover can do.

## Findings and observations

The run `maintenance_rotation` states one sentence of OPERATIONS.md:43 as a property and shows a
behaviour of the code that breaks it: `rotate-key` rewrites `state.db` and one session, the service
keeps its rows in one database per owner. PROJECT.json quotes it.

What follows is what the models had to allow because the code does, found while they were written.
Where it restricts a property, the property says so.

* *Confirm store.* The local lock is keyed by the spelling of the URL (`change-store.ts:2127`),
  hence `OneSpelled`. A plain error after the publish is recorded as `failed` although the body was
  replaced (`change-store.ts:1843`). `admin backup` opens the owner's database and so writes off
  what a live service is executing (`admin.ts:109`; OPERATIONS.md:16, README.md:272 and
  TABLE_ARCHIVE.md:60 present it as safe). A store built after `beginShutdown` accepts confirms
  (`app.ts:87`, `change-store.ts:86`). After a timed-out drain the next process may confirm on a
  target that an old confirm is still writing.
* *Document.* `getDoc` reads the published body, so a colleague's unpublished draft is overwritten
  (`yuque-client.ts:2236`). A section that is gone or ambiguous at the confirm is an error, not a
  conflict.
* *Objects.* `update_book` and `create_book`, or `create_doc`, take different lock keys, so that
  their duplicate checks race. An ambiguous creation whose reconciling read fails too is recorded
  `failed` (`yuque-client.ts:3559`, where THREAT_MODEL.md:29 speaks of unknown).
* *Catalogs.* An unanswered insertion is identified by what is new under its parent and then
  renamed: it may be a colleague's directory (`yuque-client.ts:2037`).
* *Login.* `run()` and `runSmsSend()` set `waiting_scan` and `waiting_sms` on an attempt that was
  closed meanwhile (`login-manager.ts:424`); `closeBrowser` waits for the interaction queue, and a
  page that hangs in it keeps the browser open (`login-manager.ts:546`).
* *Sessions.* A logout stands outside the client's queue (`yuque-client.ts:4482`): a request under
  way writes the session back (`mcp.ts:190` says it is deleted), and with a `session.enc` left the
  migration restores it.
* *HTTP server.* Handshakes that run at once may pass the session limit (THREAT_MODEL.md:31), by
  less than the limit on requests. A request whose body arrives after the shutdown's deadline opens
  a tenant after the runtime lock was given back, because `index.ts` does not end the process.
  `shutdown` awaits `login.shutdown` without a deadline (`http-server.ts:346`): a page that hangs in
  the interaction queue keeps the service from stopping. So does a body of Yuque that never ends for
  `app.close`, because the timeout of a fetch is taken back after the headers
  (`yuque-client.ts:4743`). The two deadlines of the shutdown, 30 s each by default, do not fit into
  the 35 s that Compose grants (`compose.yaml:10`, `instance-manager.ts:470`).
* *Operations.* The backup of an instance copies the tenants' databases with `cp` while the service
  writes them; only `state.db` goes through SQLite (the title of
  `tests/instance-manager.test.ts:223` promises it for SQLite as such). A rotation beside it makes
  the copy unreadable. `atomicWrite` may fail in its mode change after its rename; a crash leaves
  `.index.lock`, and the unlink at the end is unconditional; `start` is not under the lock. All of
  `Maintenance` counts on an operator who keeps the service stopped under a restore or a rotation.
* *Algorithms.* (a) `set_range` that empties the last row and `append_rows` in one preview: equal
  target digests, different diffs. (b) `delete_section` looks for proprietary blocks in the
  section's body only: an image in the heading itself goes (`mcp.ts:780` says such sections are
  refused). (c) `removeRanges` moves its cursor back for a comment inside a block, so that such a
  document is refused. (d) A replacement with a lower heading of the same text makes the section
  ambiguous afterwards. (e) A scan beside deletions may miss a row, beside insertions it ends in the
  duplicate error; both are announced (`snapshot_consistent: false`). (f) Formulas are evaluated
  eagerly: an error, an unsupported function, another worksheet's name or a circle anywhere in a
  touched worksheet refuses the change, also in a branch that is not taken.

## Not modelled, and why

* Codec of the sheet draft format, charts, styles, the tokenizer and the other spreadsheet
  functions, Lake HTML rendering: byte layout and arithmetic without steps. That a second preview
  may show other cached values of formulas is left out of `SheetModel`, which keeps cells without
  formulas; the Markdown that `rebasePreview` (`change-store.ts:2205`) converts again is the same
  fragment.
* `mcp.ts` and the capability registry: a stateless switch from tool names to calls, and data.
* Configuration parsing, AES-GCM, logging, network policy: their results are constants of the
  modules. The captcha sidecar is a call that answers, fails or times out.
* Late arrival of a document write after the reads that reconcile it: it contradicts any read,
  whatever the code does. `TableArchive`, `ObjectChange` and the catalogs model it.
* A second process on one remote target after a timed-out drain: local locks do not reach the next
  process, so nothing could be stated.
* `rotate-token`, `reset-session`, `admin status` and `doctor`: one atomic write, a logout, and
  reads. The read-only reconciliation report of a record archive.
* Deployment scripts, the archive experiment and the agent skill: outside the service.
