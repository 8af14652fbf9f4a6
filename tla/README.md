# HashUp in TLA+

HashUp finds files, hashes them and keeps an index of them. `hashup scan` walks
a directory tree and publishes one message per file to a NATS JetStream stream;
`hashup store` takes the messages from the stream and writes them to an SQLite
index; `hs` and an HTTP API search the index and administer it. These modules
model the way of a file from the tree into the index, check it with TLC on small
instances, and prove the invariants of the index for instances of any size.

## 1. Inventory

| Component | State it keeps | Operations | Talks to |
|---|---|---|---|
| Index: `internal/store/store.go`, `internal/db` | tables `file_hashes`, `file_info`, `file_tags`; AUTOINCREMENT sequences; what a call of `Store` has read | `Store` = up to four SQL statements without a transaction | written by every `hashup store` process and by `hs` |
| `hs admin`, `hs tag`: `cmd/hs` | none of its own | `delete-host` (count, confirm, one transaction), `tag` (one transaction), `recreate-db` | the same database file, while stores run |
| Message loop of `hashup store`: `internal/store/listener.go`, `store.go` | the batch fetched | connect, fetch up to ten, decrypt, decode, `Store`, acknowledge | pull consumer of JetStream; the index; the counters |
| Statistics of the loop: `internal/store/stats.go` | counters, per host and extension | increments; printing | read by a printer goroutine, under a lock |
| Worker pool: `internal/pool` | channel of 1000 tasks, goroutines | `Start`, `Submit`, `Stop` | walk on one side, tasks on the other |
| Directory scanner: `internal/scanner` | position of the walk, count, tasks | `ScanDirectory`: walk, filter, submit; task: hash, look up, publish, mark | file system, pool, cache, processor |
| Cache of processed files: `internal/cache` | set of path and hash keys in memory, a copy on disk | look up, mark, load, save, save every 30 s | one file shared by all instances and processes |
| NATS processor: `internal/processors/nats` | connection, statistics channel | create the stream, publish, close | JetStream |
| Scan command: `scanner.go`, `count.go` | summary counters, goroutines | one scan, or one every interval | all of the above |
| `hs search`, `hs file-stats`, HTTP API | none | searches with filters, sums over extensions | index |
| Other `hs` queries, templates | none | the rows of one SELECT | index |
| Configuration, crypto, logging, setup, embedded server | files | load, encrypt, print | libraries |

What is hard here, and what therefore makes each part correct:

* **Index.** A call of `Store` keeps an id or the absence of a row across
  statements that other processes may interleave with. Correct means: a file row
  names the hash row with its own hash; a file has one row; a success is true;
  tags belong to rows that exist; only a deletion of a host removes its files.
* **Message loop.** A message may come twice, out of order, to two listeners at
  once, after a crash in the middle of its statements, or never be readable.
  Correct means: an acknowledged message is in the index, or in the error log,
  or its host was deleted; whatever is delivered how often, the index only ever
  takes announced files in and lets hosts go; no readable message stays for ever.
* **Counters.** Four paths through a loop bump four counters, and a hand-written
  bubble sort picks the extensions that are printed. Correct means that they
  balance, that "written" counts rows and that the list is the top.
* **Pool.** A bounded channel is closed with tasks in it. Correct means: `Stop`
  returns, only after every task has run once, and `Submit` is not blocked for
  ever.
* **Scan command.** Five goroutines share three channels and five counters, and one
  channel is closed. Correct means: nobody sends on it then, nobody waits for ever,
  every file is counted once, and the progress stays below its total.
* **Queries.** Filters pass through lists and strings; a list is cut and its rest
  summed. Correct means: both ways of searching agree, and the sums add up.
* **Scanner and cache.** Tasks run long after the walk has seen their file, files
  change, publications fail, processes die between publishing, marking and
  saving. Correct means: what a scan owes is done when it ends, and a cache key
  always stands for exactly what was published.
* **The whole.** The cache is on one side of the stream and the index on the
  other, and neither hears of the other's failures. Correct means: what a cache
  keeps a scanner from announcing again is on its way, in the index, or missing
  for a reason somebody knows of; and what was announced settles.

## 2. Modules

    Catalog            what HashUp promises: announced files, purged hosts
       ^ implemented by (refinement mappings in Listener and in HashUp)
    Listener           message loop and JetStream queue
       | EXTENDS
    FileStore          the index and its writers, statement by statement
    ListenerStats      EXTENDS Listener: the counters

    Pool               channel, workers, Stop
       ^ EXTENDS
    Scanner            walk, tasks, cache, several scans
       ^ EXTENDS
    HashUp             scanners, stream, store processes, administrator

    ScanCommand        runScanner and --every around the scans
    Queries            hs search, the search API, hs file-stats

    Totals             the sum of a function over a set, used by the two that count

Theorems and proofs are in `ListenerProofs` (with those about `FileStore`),
`ListenerStatsProofs`, `PoolProofs`, `ScannerProofs`, `HashUpProofs`,
`ScanCommandProofs` and `QueriesProofs`, each of which extends the module it is
named after; `DataProofs` has the lemmas on sums, lists and induction that several
of them use. `MCFileStore`, `MCListener`, `MCListenerStats`, `MCPool`,
`MCScanner`, `MCHashUp`, `MCScanCommand` and `MCQueries` only name the model
values of the runs.

### FileStore

State: the three tables as sets of records, the two AUTOINCREMENT sequences, and
for every store process the statement it runs next (`pc`), the file it saves
(`arg`), the id it has read (`hashID`) and what it will return (`out`). A
statement is an action: `QueryFileHash` and `InsertHash` (`saveFileHash`),
`QueryFileInfo` and `InsertInfo` (`saveFileInfo`); `SqlError` is any of them
failing, `Exit` the process ending between two. UNIQUE (file_hash) and the
foreign key are the alternatives of the two INSERTs; ids are never used again
because the schema says AUTOINCREMENT. `hs admin delete-host` counts outside its
transaction (`CountFiles`), asks (`AbortDelete`) and deletes in one
(`DeleteFilesByHost`: tags, files, then hashes nobody refers to). `hs tag` is
`TagFile`; it prints the hash without leading zeros, so it finds no file whose
hash begins with one (`ZeroLed`).

A file is what `ScannedFile` says: path, host, hash. The size, dates and
extension ride along and are never compared, and are left out. `purged` is a
history variable: which hosts were deleted during a call.

### Listener and Catalog

State: where the server has every message (`status`), which listeners run, the
batch each has fetched. `Fetch`, `Skip` (cannot be decrypted or decoded),
`Handle` (the call of `Store`), `Save` (its statements) and `Finish` (its return,
then `msg.Ack()`) are the loop; `ListenerExit` and `Start` a process that ends,
at any point, and comes back. The server is an external part, as the code
configures it: work-queue retention, a maximal age, one durable consumer with
explicit acknowledgement, the default AckWait and the default of a thousand
unacknowledged messages, no duplicate detection. When AckWait has passed a message
is `due` (`AckWait`), also while a slow listener still holds it, and a pull takes
due messages and new ones in any order; but new ones only while the consumer has
room for another unacknowledged one (`MaxAckPending`), so that messages nobody can
read stop the stream when there are enough of them. What is too old is dropped
(`Expire`).

`Catalog` has two sets, the announced files and the indexed ones. `Listener`
implements it with `sent <- Sent` (payloads of published messages) and
`catalog <- Catalogued` (files with a row): INSERT INTO file_info is `Index`,
the transaction of delete-host is `Purge`, everything else stutters. That `Index`
demands a file not yet in the catalog is no restriction for a second row: it is a
stuttering step, and `NoDuplicateRows` is about it.

### ListenerStats

The actions of `Listener` with the counters they bump, those per host and per
extension among them. `ended` keeps the rows inserted by processes that ended, whose
counters went with them. `PrintStats` reads the counters under their lock and may do
so at any moment: it is an operator on them. `ExtCounts` is the list it makes of a
map, in any order; `Exchanges` and `Passes` are the two loops of its bubble sort,
with their bounds, as functions of the turn, `Pass` and `Sorted` what they leave,
and `TopExtensions` the cut at the limit.

### Pool

`queue` is the channel, `worker` what every goroutine does. `Submit` waits for
room; a receive yields the zero `Task`, whose `ID` 0 ends a worker, only when the
channel is closed and empty (`Drained`). A task that returns `context.Canceled`
ends its worker (`CancelTask`). The number of calls of `Start` is a parameter.

### Scanner

The walk (`VisitInaccessible`, `VisitSkipped`, `VisitFile`, `WalkEnd`) goes
through `Tree`, the entries in the order of `filepath.Walk` with their depth;
`AfterSubtree` is SkipDir. A task is `TakeTask`, `HashFile`, `CheckCache`,
`PublishFile`, `MarkFile`, `EndTask`. `StopPool` and `SaveCache` are the deferred
function. `StartScan` is `runScanner`, again in the same process (`--every`) or in
a new one; `SaveTick` and `StaleTick` are the 30-second goroutines of the cache in
use and of the others of the process; `ProcessEnd` is also a crash; `FileChange` a
file that is written or removed during the scan; `CacheLoss` fastcache dropping an
entry, or starting empty because it cannot read its file. A file's contents is one
value, for its size and its hash. The next-state relation is written in the parts
that `HashUp` composes: `ProcessStep`, `LocalStep` of a worker and its
publication, `PublishMsg`. No task of the scanner returns `context.Canceled`, so
that `Cancels` is empty.

### HashUp

One host, from its tree to its index. State, besides that of `Scanner`: the
`stream`, whose entries carry a sequence number; for every store process the file
of the database it has `opened`, the entry it has in `hand` and whether `Store` has
returned for it (`saved`); the `database` file that is at the path, and its
`index`. `Announce` is `PublishMsg` with what it appends to the stream.
`Open` is `NewSqliteStorage` and `Listen`; `Receive`, `SaveFile` and `Acknowledge`
the loop, in which a call of `Store` is one step, that succeeds or fails:
`Listener` has its statements, its batches and AckWait, and is shown to implement
the same `Catalog`. Any entry may be received at any time, also one that another
process has in hand: that allows more redeliveries than AckWait does. `StoreExit`,
`ExpireEntry`, a failing `Store` and a lost acknowledgement are incidents, and so
are `DeleteHost` and `RecreateDatabase`. The last one puts another file at the path;
a process that has the removed one open goes on writing to it, and its
successes count for nothing (`Current`). The index the properties are about is that
of the file at the path. `excused` is a history variable, the
files whose absence has a known reason.

How SQLite behaves when two files share the `-wal` and `-shm` names of one path is
left out: `recreate-db` removes only the database file.

### ScanCommand

The goroutines of `runScanner`: the main one (`phase`), the one that prints the
progress of the walk (`progress` and `pCounter`, behind an unbuffered channel that
every entry of the walk waits for), the one that counts the tree with a walk of
its own (`CountFiles`, whose result arrives at any time and is read without a
lock), the one that adds up the statistics (`reader`, with its three assignments
as steps of their own) and the tasks, of which only their end matters here:
`Process`, then `SendStats` into the buffered channel. `Connect` is
`NewNATSProcessor`, with its failures; `Summarise` prints the three sums, which it
reads one by one while the reader may still add to them; `Close` closes the
channel, whose reader then receives zero values for ever (`MaxZeros`).
`RunScanner` is the next tick of `--every`, with new channels; the goroutines of
earlier runs touch nothing of the later ones and are forgotten. What a walk
selects is in `Scanner`: here `WalkOver` may come at any time. The tree is taken
to be the same for both walks.

### Queries

`RunSearch` is `hs search`: locally the first of tag, host and extension that is
given decides which query is made (`SearchLocal`), and with `--server-url`
extension and host travel as lists, joined strings and URL parameters to
`searchHandler` (`SearchServer`, `Given`), which refuses an empty text
(`Refused`). `Search` is `db.Search` with its order
and its limit. `RunFileStats`, `NextGroup` and `PrintReport` are `hs file-stats`:
the query with its GROUP BY, the loop over its rows, and the cut at the limit.

## 3. Runs

| Run | Configuration | Shows |
|---|---|---|
| `store` | 2 processes, 2 hosts, 3 files (two with one hash, one with a leading zero), 2 tags, ids up to 3, 1 deletion | `RefIntegrity`, `TagIntegrity`, `ResultTruthful`, `OnlyOwnHostDeletes` under every interleaving of statements |
| `listener_two` | 2 listeners, a readable message and one that is not, batches of 2, room for 2 unacknowledged, 2 exits, 2 faults, 1 deletion | `AckAccounted`, `EveryMessageLeaves` |
| `listener_stats` | 1 process, 3 files of 2 hosts and 3 extensions, 4 messages of which one is unreadable, batches of 2, 1 exit, 1 fault, 1 deletion | `StatsBalance`, `WrittenCountsRows`, `TopOfExtensions`, `NoDuplicateRows` with redelivery, `AckAccounted`, `ImplementsCatalog` |
| `pool` | 3 workers, channel of 2, 4 tasks of which 2 cancel | `StopDrains`, `OnePlace`, `StopReturns`, `SubmitsEnd` |
| `scans` | 1 worker, 7 entries (hidden directory, matched, not regular, 2 files to scan), 2 contents, 2 scans, 2 faults | `ScanComplete` with the exact set of files and count, `CacheSound`, `ScanEnds` |
| `hashup` | 1 file with 2 contents, 1 worker, 2 scans with 1 fault, 1 store process, 2 incidents | `NothingForgotten`, `KeepsPromise`, `EveryFileSettles` |
| `scan_command` | 2 runs, 3 files, 2 workers, a channel for one value | `NoSendOnClosed`, `StatsAreAdded`, `SummaryTruthful`, `ProgressBelowCount`, `RunReturns` |
| `queries` | any index of 6 rows: 4 extensions, one in two spellings, 2 hosts, a tag; limits 1 and 2 | `ServerAgrees`, `ReportBalances`, `TopListed` |
| `store_duplicates`, `purge_other_host`, `cached_not_queued`, `search_extension` | the smallest of the above | the findings of section 6 |

Why the bounds are enough. Everything that goes wrong in the index takes two
processes, one deletion and two files with one hash: three is one more than the
number of rows any property relates. An id of a deleted hash can be confused with
a new one only if a third id exists (`MaxID = 3`); the proofs lift the bounds on
processes, files, ids and deletions altogether. Two is the smallest batch in which
a message waits behind another, and a room for two is full when the unreadable
message and another are out; one exit and one fault suffice to have any prefix of
a call run twice. Three extensions are one more than the list of two holds, and
make two passes of the sort. Four tasks overflow a channel of two with one worker
left, and the two that cancel make workers leave early. Two scans are one that
fills the cache and one that uses it; two faults are one that makes a difference
and a crash or a second change. One worker and the walk are enough for the order
of tasks; several workers are in `pool` and in `scan_command`, where a channel for
one value makes a task wait with three files. In `hashup` one file with two
contents is announced, forgotten and announced again; two incidents are a replaced
or emptied index and a failure on top of it, and with two scans at most two
entries are ever on the stream, which is what `MaxEntries` says for the fairness.
The theorems of `HashUpProofs` lift its bounds. An index of six rows has more
groups than the limits, groups of one and of two rows, and rows that are equal in
what orders them.

Deadlock is checked in `store`, `store_duplicates`, `queries` and
`search_extension`. In the other runs the system rests when every message is
settled, the pool has stopped, or the scans allowed by the bound are over, and
their configurations say so.

The symmetry of store processes, and of tags, is used in `store`, which checks no
liveness.

## 4. Fairness

* `Listener`: a running listener takes its next step, because the loop never
  waits except for a fetch of at most one second and statements of at most the
  five seconds of `busy_timeout`; a process that ended is started again, as a
  service is; AckWait is a timer of the server. Fetching one given message has
  strong fairness: an unreadable message that comes back every 30 seconds shares
  the batches with it, and the server delivers in stream order, so none is passed
  over for ever. There is none on publications, the administrator, exits, errors
  or expiry.
* `HashUp`: the walk, the workers and a store process with an entry in hand go on,
  and a process that ended is started again. `Receive` has strong fairness for
  every sequence number, whoever receives it, for the same reason as `FetchOf`
  above. There is none on the start of a scan, the administrator, faults or
  incidents.
* `ScanCommand`: goroutines that can run do, and a call of PublishMsg returns (it
  has a timeout of its own). Neither the tick nor what the walk meets is fair.
* `Pool` and `Scanner`: goroutines that can run do, the functions of tasks
  return, and the walk goes on. `Close` has none in `Pool`: `StopReturns` only
  says what follows a close.

## 5. Proofs

The first part of `ListenerProofs` proves, for any set of processes, files, hosts
and tags, and any bounds on ids and deletions, from `FilesAssumption` alone:

* `TypeCorrect`: `StoreTypeOK`, inductive as it stands (`admin # NoHost =>
  purges < MaxPurges` and "a call in progress has a file" are the two conjuncts
  it needs for that).
* `ReferencesHold`: `RefIntegrity`. It is not inductive: an INSERT uses an id that
  was read two statements earlier, and between them the row of that id may be
  deleted. The invariant `RefInv` adds that ids are at most the sequence and
  unique (`HashIDsFromSequence`), and that an id a call holds is either still the
  id of its own hash or of nothing at all, now and for ever (`HeldIDs`). The
  foreign key turns the second case into an error.
* `ResultsAreTrue`: `ResultTruthful`, by carrying through the call what its
  statements have established: between the INSERT or the look and the return, the
  file is there or its host was purged.
* `TagsHold`: `TagIntegrity`; deletion takes the tags with the rows although the
  connection of `hs` has no foreign keys.
* `OneProcessNoDuplicates`: `NoDuplicateRows`, under the assumption that there is
  one store process: nobody inserts between its look and its INSERT. The
  assumption cannot be dropped: run `store_duplicates`.
* `DeletesAreOwn`: the action property `OnlyOwnHostDeletes`.
* `InsertsAreLast`: a call has inserted its row only when it is over and reports
  no error; a call that is idle has no result.
* `OneProcessNewHashNewFile`: with one store process a call that found its hash
  missing, and ends well, has inserted the row of its file. A row with that hash
  would have needed the hash (`RefIntegrity`), and nobody else inserts one between
  the two looks. This is why "written" may be decided by either flag.

`ResultUpdates` is the lemma on what a statement adds to a result, `TypeStep` the
preservation of types, which the second part uses again.

That one proves, for any number of listeners, messages and faults and any
size of a batch, from `FilesAssumption` and `MsgsAssumption`:

* `QueueCorrect`, the invariant the others rest on: besides the types, a call is
  about the first message of the batch (`CallsHandleHeads`), a batch holds
  published messages only (`BatchesPublished`), and a process outside a call
  remembers nothing of the last one (`IdleCalls`), so that the end of an idle
  process is a stuttering step of the index.
* `ListenersUseTheStore`: every behaviour of `Listener` is one of `FileStore`
  (`IndexStep`), so all the theorems above hold of the listeners too;
  `OneListenerNoDuplicates` is one of them spelled out.
* `AcksAreAccounted`: `AckAccounted`. At an acknowledgement it follows from
  `ResultTruthful`; afterwards only `DeleteFilesByHost` takes a file away, and that
  is in `erased`. A late second `Finish` of a message that was acknowledged before
  sets its history again, and again `ResultTruthful` pays for it.
* `CatalogImplemented`: `ImplementsCatalog`, from `CatalogStep`, which maps every
  step to one of the catalog or to a stutter. That INSERT INTO file_info is
  `Index` takes `CallsHandleHeads` and `BatchesPublished`: the file was announced.
* `OnlyAnnouncedIndexed`: the files of the index are announced ones, which the
  catalog keeps true and the mapping carries over.

`DataProofs` has what the reports need: `Total` is the sum of the community modules
(`MapThenSumSet`), and the lemmas say how it moves with an element (`TotalRemove`,
`TotalChange`), over disjoint sets (`TotalUnion`), over the groups of a partition
(`TotalByKey`) and along a list (`TotalSplit`, `TotalFirst`, `TotalLast`). They are
facts about all finite sets, and the provers have no induction to offer; so each is
proved of a smallest counterexample (`MinimalSubset`, `AllNumbers`), which exists
because the counterexamples are a set and their sizes have a least one
(`LeastElement`).

`ListenerStatsProofs` proves:

* `CountersOnlyCount`: every behaviour of the loop with its counters is one of
  `Listener`, so that what is proved of the loop holds of it as well
  (`CountedAcksAreAccounted`, `CountedCatalogImplemented`).
* `StatsTypeCorrect`: `StatsTypeOK`.
* `EveryMessageIsCounted`: `LoopBalance`, the first half of `StatsBalance`: what a
  process has received is what it has written, found present and skipped, and the
  message in hand. That `CountSkip` leaves no call open takes `CallsHandleHeads`.
* `StatsBalanceAlways`: `StatsBalance`, for any finite sets of hosts and of
  extensions; `ReadBalance` is its second half for one process.
* `OneProcessReportsRows`: `WrittenCountsRows`, under the assumption of one store
  process. `ReportedMoves` compares a step of the reports with a step of the
  sequence of ids: they differ only when a call ends with a new hash and no new
  row, which `OneProcessNewHashNewFile` excludes. The assumption cannot be
  dropped: see Known behaviours.
* `NoRowUnreported`: what is left for any number of processes: as many files are
  reported as rows were inserted, or more.
* `BubbleSortSorts`: the two loops sort a list of different entries of any length.
  `Carried` is the invariant of the inner loop, that the least of the entries it has
  passed is the last of them; that of the outer one is that the tail is sorted and
  below the rest.
* `TopOfExtensionsAlways`: `TopOfExtensions`, from it.

`PoolProofs` proves, for any number of workers, tasks and calls of `Start` and
any capacity, from `PoolAssumption`:

* `PoolTypeCorrect`: `PoolTypeOK`, with `OnlySubmitted` for `finished \subseteq
  submitted`.
* `StopWaitsForAll`: `StopDrains`, if no task returns `context.Canceled`, which
  the tasks of the scanner never do. `NoneLost` follows a task from the channel to
  a worker, and `WorkersStay` says that a worker leaves only a drained channel and
  that `Stop` waits for one that was there. Without the assumption the property
  needs fewer cancelling tasks than workers (with as many, all workers may leave a
  full channel); run `pool` checks two of three.
* `TasksInOnePlace`: `OnePlace`: a task in the channel is with no worker and not
  finished, and no two workers have the same one.

`ScannerProofs` proves, for any tree, any number of workers, contents, scans and
faults, from `PoolAssumption` and `ScannerAssumption`:

* `ScannerTypeCorrect`: `ScannerTypeOK`. A step of the scanner is a step of the pool
  or makes a new pool (`ScanStepsThePool`), so that the lemmas of `PoolProofs` on
  steps of the pool hold for every scan.
* `CacheIsSound`: `CacheSound`. What is missing for an induction is the key a
  worker is about to mark, after its publication (`MarkSound`).
* `ScanIsComplete`: `ScanComplete`, from two invariants. `OwedKept` says that a
  finished task has announced its file, or found a key in the cache that stands
  for contents the file had during the scan; with `NoneLost` and `WorkersStay` of
  the pool that is every task when `Stop` has returned. `WalkExact` says that what
  is submitted and counted is exactly what the filters leave of the entries before
  the position of the walk. For SkipDir it needs that `AfterSubtree` is the first
  entry that is not deeper (`LeastElement` of `DataProofs`) and that none in between
  is reached.

`HashUpProofs` proves, for the same and for any number of store processes and
incidents, from `HashUpAssumption` as well:

* `ScannersScan`: every behaviour of the composition is one of `Scanner`, so that
  `CacheSound` and `ScanComplete` hold of the whole.
* `HashUpTypeCorrect`: `HashUpTypeOK`.
* `NothingIsForgotten`: `NothingForgotten`. It is about caches, and the induction
  is about messages: whatever was published is on the stream, in the index or
  excused (`OnItsWay`), which an acknowledgement keeps because a file in a hand
  that is `saved` is known (`HandsKept`). `CacheSound` does the rest.
* `HashUpKeepsPromise`: `KeepsPromise`; that a saved file was announced is
  `HandsKept` again, and `IndexAnnounced` keeps the catalog within the announced
  files.

`ScanCommandProofs` proves, for any finite set of files and any sizes, from
`CommandAssumption`:

* `CommandTypeCorrect`, `NobodySendsOnClosed` and `ProgressNeverAhead`:
  `CommandTypeOK`, `NoSendOnClosed` and `ProgressBelowCount`, from one invariant
  `TypeInv`. It adds that the progress is the number of files the walk has left
  behind (`WalkCounted`), that nothing runs when `Stop` has returned
  (`NoneActive`), and what the place of a file says of its outcome (`Places`).
* `StatsAreNeverLost`: `StatsAreAdded`. `Balanced` weighs the sums, the channel
  and the value in hand against the files whose tasks have sent. What it needs of
  the channel are `OnesOfAppend` and `OnesOfTail`, how the number of ones in a
  sequence changes at its ends, by bijections.
* `SummaryIsTruthful`: `SummaryTruthful`, with `SummaryKept` for the sums already
  read, in the order in which they are printed.

`QueriesProofs` proves, for any rows, spellings, limits and arguments, from the
assumptions of `Queries`:

* `ServerAgreesAlways`: `ServerAgrees`, with `AnswerOfServer` for the command that
  runs.
* `QueriesTypeCorrect`: `QueriesTypeOK`, from `QueryInv`, which adds that the index is
  finite, as it grows row by row, and so is the list of groups.
* `TotalsAreComplete`: the totals of a report are those of the files asked for. `Tally`
  is the invariant of the loop over the groups: what has been added up and what is
  still to come make up the files (`TotalByKey`, since every file is in one group).
* `ReportBalancesAlways`: `ReportBalances`: the list and its rest make up the files
  with an extension, too.
* `TopListedAlways`: `TopListed`, from `Ranked`: the list and the groups still to come
  are in order, and no extension is lost between them.

The last two assume `OneKindOfName`: spellings that the index takes for one
extension are all listed or all only counted. The assumption cannot be dropped.
SQLite shows one row of a group, and the loop asks that row for its extension, so
that a group of "UNKNOWN" and "unknown" is listed or left out as a whole (Known
behaviours), and TLC refutes both properties on an index with two such rows. The
rows of run `queries` satisfy it, and so does every index in which no file has an
extension that spells "unknown" otherwise than in small letters: files without an
extension have the empty text, which has one spelling.

The proofs split over the actions of the next-state relation; each leaf names the
facts it uses.

With that every invariant and action property that a passing run checks is a
theorem, some under a hypothesis: one process for `NoDuplicateRows` and
`WrittenCountsRows`, no cancelling task for `StopDrains`, `OneKindOfName` for
`ReportBalances` and `TopListed`. Only model-checked is liveness
(`EveryMessageLeaves`, `StopReturns`, `SubmitsEnd`, `ScanEnds`, `RunReturns`,
`EveryFileSettles`), which is out of the prover's reach.

## 6. Findings

Each is a run that TLC ends with a counterexample.

* `store_duplicates`: two store processes that handle one file both look for
  its row before either inserts it, and nothing in the schema prevents two rows.
* `purge_other_host`: the last statement of delete-host removes hashes without
  files, among them one that a listener has inserted or read for a file of another
  host and not referred to yet. Its INSERT fails on the foreign key, which is
  logged, and the message is acknowledged: the file is not indexed.
* `cached_not_queued`: `MarkFileProcessed` runs whether or not the publication
  succeeded, so the file is not announced again until its contents change.
* `search_extension`: `searchByExt` reads a flag `ext` that the command does not
  have; `hs search --extension jpg` lists the files without an extension.

### Known behaviours

Seen while modelling, without a run of their own:

* `hs tag` replaces the tags a file had (`TaggedAs`).
* A message carries the size and the date of the walk and the hash of the time
  its task runs (`MessageOf`).
* `WithScanningConcurrency` starts the pool it makes and `NewDirectoryScanner`
  starts it again: twice the workers (`Starts`).
* The scanner prints hashes with 16 digits and `hs` without leading zeros
  (`ZeroLed`).
* The error of one entry, for instance of a file removed after its directory was
  listed, ends the walk (`VisitInaccessible`); `count.go` skips such entries.
  `ScanComplete` promises the whole tree only without such an error.
* `NewDirectoryScanner` creates a second `FileCache` on the default path, whose
  goroutine saves what it once loaded every 30 seconds; and with `--every` those
  of earlier scans stay. They overwrite what a scan has saved (`StaleTick`). The
  cost is work done again: `CacheSound` holds nevertheless.
* The summary of a scan may leave out as many files as are still in the channel
  of statistics and in its reader's hand (`SummaryTruthful` says no more).
* A run of `--every` that cannot connect leaves the workers of its pool and its two
  readers behind.
* With two store processes a row may be reported as written twice: one inserts the
  hash of a file and the other its row, and either flag counts as "written"
  (`Dirty`). `WrittenCountsRows` is checked and proved for one process, and
  `NoRowUnreported` says that the error is never the other way.
* A thousand messages that nobody can decrypt fill the consumer's places for
  unacknowledged messages, and no other is delivered until some of them expire. The
  premise of `EveryMessageLeaves` says so.
* The cache outlives the index: after delete-host, recreate-db, the expiry of a
  message or a failed `Store`, no scan announces a file again while its contents
  stay as they are. `NothingForgotten` lists the reasons (`excused`).
* The progress exceeds its total if files appear between the two walks.
* The server refuses a search without a text, which a local search allows
  (`Refused`).
* delete-host, tags, large-files and recreate-db without `--db-path` use the
  default path of the database, and so do the other `hs` commands without `--db`,
  whatever the configuration of `hashup store` says.
* `--stats-interval 0` is documented to disable the statistics ("0 to disable",
  `main.go:198`) and is taken for an unset flag (`util.go:53`).
* The flags `--concurrency` of scan and `--subject` and `--filter-host` of store are
  never read. An empty encryption key is refused, where the usage says "if empty,
  a random key is generated" (`main.go:120`).
* `setup` that was interrupted after its first file goes no further without
  `--force`, which overwrites the files that are there.
* `hs search` without filters ignores `--limit`; with a tag it ignores the text,
  and of a tag, a host and an extension it uses only the first. The server uses host
  and extension together and never sees the tag.
* `hs file-stats --host` groups without COLLATE NOCASE and prints lower case, so
  that one extension may be listed twice; a file with the extension "UNKNOWN" is
  listed or left out depending on the row SQLite shows for its group; a negative
  limit is an index out of range.
* After `Close`, the goroutine of `runScanner` that reads the statistics receives
  zero values without pause until the process ends, one per scan with `--every`.

## 7. Not modelled

* The cancellation of a scan: `runScanner` cancels its context only when it
  returns, after the scan, and nothing else cancels it but the end of the process,
  which is `ProcessEnd`.
* The hit and miss counters of the cache, which nobody reads.
* `hs hosts`, `hs tags`, `hs large-files` and the templates: the rows of one
  SELECT, printed. Errors and timeouts of HTTP.
* Configuration (`config.go`, `util.go`) and `setup`: every value is the flag if
  it is given, else the file, else a default, an assignment each; a property would
  say the assignment again. What went wrong there is under Known behaviours.
* Encryption, TLS, logging, the embedded server: libraries and wiring. A message
  that cannot be decrypted is an input of `Listener`.
* `file_notes`: nothing writes it.

## 8. Plan

Done: every module of section 2, with its theorems.

What could follow:

1. `Store` of `HashUp` as the statements of `FileStore`, for several hosts, so that
   delete-host runs against a call in progress there too; then `Listener` as the
   refinement of the stream of `HashUp` rather than both of one `Catalog`.
2. Two scanners of one host that share a cache file and a stream.
