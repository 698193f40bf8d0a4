# xray-exporter: a TLA+ verification project

xray-exporter turns one Xray proxy into Prometheus metrics and billing
snapshots. It follows Xray's access log, asks Xray's gRPC API for traffic
counters, and keeps a history of normalised snapshots for the billing service.
These modules model its stateful parts, TLC checks them on small instances, and
TLAPS proves the central ones for every instance.

Paths are relative to the repository (`src/`); `parser.go` is
`internal/logparser/parser.go`, `filter.go` is its neighbour, `downloader.go` is
that of `internal/geoip/`, and `store.go`, `service.go`, `identities.go`,
`push.go`, `http.go` are those of `internal/snapshot/`.

## 1. The system

Three kinds of goroutine share the process: the log parser's loop, the snapshot
loop, and one goroutine per HTTP request (scrapes, snapshot queries).

| Component | State | Operations | Interacts with |
|---|---|---|---|
| Log tailing (`parser.go:442`, `inode_unix.go`) | `LastPos`, `LastInode`, read buffer | one `parseLogFile` per tick: open, stat, detect rotation and truncation, seek, read whole lines, merge, remember position | Xray (writes), logrotate (renames, truncates), the file system (inodes) |
| Line parsing (`parser.go:517`) | none | `processLine`: regular expressions, filter, `isIPAddressFast`, GeoIP lookups into a batch | IP filter, GeoIP readers |
| Windowed user metrics (`parser.go:192,332`) | `UniqueIPs`, the ring `ConnectionTimestamps`/`BufHead`/`BufSize` | merge of a batch, `GetMetrics` (purge, expire, count) | parse goroutine against scrapes, under `metrics.mu` |
| Request counters (`parser.go:206-260,370-418`) | maps of counts per domain, address, outbound, ASN, country, city | merge, `trimToTopN`, `checkEmergencyCleanup`, six getters | the same lock, taken once per getter |
| IP filter (`filter.go`) | networks, LRU cache | `ShouldFilter` (lookup, compute without the lock, insert) | parse goroutine |
| Parser and exporter lifecycle | context, GeoIP readers, HTTP server | `Start`, `Stop`, `Close`, shutdown in `main` | every goroutine |
| Prometheus scrape (`exporter.go`) | registry, connection to Xray | `Collect` with `recover`, `callWithRetry`, top-N series | Xray's API, the parser's getters |
| Snapshot loop (`main.go:231`) | the snapshot at hand | collect, save, push; wait for the ticker | service, store, pusher |
| Billing normalisation (`service.go`, `identities.go`) | none | `Collect`: counters, identities, `normalize` | Xray's API, the Accounts service |
| Snapshot store (`store.go`) | `items`, the store file | `NewStore`, `Save` (insert, retention, sort, persist by temporary file and rename), `Latest`, `Window` | loop (writes), HTTP API (reads) |
| Snapshot HTTP API (`http.go`) | none | latest snapshot, pages of a window by cursor | billing clients |
| Vector pusher (`push.go`) | none | one POST per saved snapshot | Vector |
| GeoIP downloader (`downloader.go`) | three database files | freshness, download with retries, rename | GitHub, disk |
| Startup, flags, routes (`main.go`) | none of its own | wiring | |
| Windows file identity (`inode_windows.go`) | none | substitute for the inode | |

What is hard, and what makes each part correct:

* **Windowed metrics.** The ring is filled at one end by the parse goroutine and
  emptied at the other by scrapes, with index arithmetic over signed remainders
  and a slice that is at first shorter than the ring. The cutoff of a pass is
  taken long before its batch is merged, and scrapes with a later cutoff run in
  between. Correct means: no index out of range, the newest entries kept in
  order, and each scrape's numbers equal to what the log says. The log's stamps
  are local time that the parser takes for UTC, and the clock may be set back;
  where that changes the numbers it has to be said.
* **Log tailing.** Xray and logrotate act between any two system calls of a
  pass; lines are half written; reads fail. Correct means: each whole line once,
  in order, none skipped, and every one in the end.
* **Snapshots.** Every call fails or times out; the process may be killed
  between any two steps; the clock may be set back. Correct means: what was
  saved survives for the retention, the store file can always be read, what was
  pushed can be fetched again, and collection never stops silently.
* **Billing.** Traffic must reach the right identity once; keys must not
  collide.
* **Paging.** A client that follows the cursors while snapshots are inserted and
  removed must not miss or repeat one.
* **Counters.** A line takes one of a dozen ways through `processLine`, waits
  twice for the filter, and is merged with its batch into six maps that two
  different clean-ups trim. Correct means: each count is the number of requests
  since its key was last cut, no map stays above its threshold, and what one
  scrape reports of different maps fits together.
* **Filter cache.** Map and list are kept side by side, and an answer is put in
  after others may have been thrown out. Correct means: caching changes no
  answer, the oldest goes first, and map and list never disagree.
* **Scrape.** Two calls with three attempts each share one deadline; two of the
  exported families can panic. Correct means: no attempt or backoff outlives the
  deadline, and `up` is sent once and truthfully.
* **Lifecycle.** `Close` cancels the parser without waiting for it, and the
  server can end in three ways. Correct means: nothing is closed while it is in
  use, the exporter comes to serve without any database, and the process ends.
  The first of these the code only keeps for the connection to Xray, not for the
  GeoIP readers (finding 6).
* **Download.** It can be broken off, killed and repeated at any point. Correct
  means: the database in place stays usable.

PROJECT.json lists the hazards one by one, each at its line, with the
properties that cover it.

## 2. The modules

| Module | Models | Kind |
|---|---|---|
| `ConnWindow` | windowed user metrics, parse goroutine and scrapes | detailed specification |
| `SlidingWindow` | what the connection count promises | abstract specification, implemented by `ConnWindow` |
| `ConnWindow_proofs` | theorems about `ConnWindow` | TLAPS proofs |
| `LogTail` | how the access log is followed | detailed specification |
| `LogTail_proofs` | theorems about `LogTail` | TLAPS proofs |
| `SnapshotLoop` | snapshot loop, collection, store, push, crashes | detailed specification |
| `SnapshotPages` | a client paging through the history while the snapshot loop runs | composition, extends `SnapshotLoop` |
| `Billing` | counters, identities and their normalisation | detailed specification |
| `Billing_proofs` | theorems about `Billing` | TLAPS proofs |
| `SnapshotPages_proofs` | theorems about `SnapshotLoop` and `SnapshotPages` | TLAPS proofs |
| `Sums` | lemmas about sums over finite sets, for `Billing_proofs` and `Counters_proofs` | TLAPS proofs |
| `PureFilter` | what the address filter promises | abstract specification, implemented by `IPFilter` |
| `IPFilter` | the filter with its LRU cache and any number of callers | detailed specification |
| `Counters` | line to delta to maps to scrape, trims | composition, extends `IPFilter` |
| `IPFilter_proofs`, `Counters_proofs` | theorems about both | TLAPS proofs |
| `GeoIPDownload` | freshness, attempts, temporary file, rename | actions, composed in `Lifecycle` |
| `Scrape` | one scrape: calls, retries, deadline, panics | actions, composed in `Lifecycle` |
| `Lifecycle` | the process from start to exit, with both | composition, extends `GeoIPDownload` and `Scrape` |
| `Lifecycle_proofs` | theorems about `Lifecycle` and its parts | TLAPS proofs |
| `MCConnWindow`, `MCLogTail`, `MCSnapshotLoop`, `MCSnapshotPages`, `MCBilling`, `MCCounters`, `MCLifecycle` | what TLC runs; constants are in the `.cfg` files | model checking |

### ConnWindow

The variables named `ConnectionTimestamps`, `BufHead`, `BufSize`, `UniqueIPs`
are the fields of `MetricsData`; `batchIPs` and `batchStamps` are the delta of a
pass; `parseCutoff` and `cutoff` are the local cutoffs of `parseLogFile` and
`GetMetrics`; `mu` is the lock. The log itself, `latest`, `stepBacks`, `applied`
and `merged` are history: what the metrics should amount to.

Xray stamps a line in local time and names no zone; `time.Parse`
(`parser.go:636`) takes that for UTC, and the stamp is compared with
`time.Now()` (`342, 546`). So a line logged at `clock` has the stamp
`Local(clock)`, which is `ZoneOffset` ahead, and is compared with the clock as
it stands. `LoggedAt` takes the offset off again, for the properties only. What
the code computes is then the connections of the last `Window + ZoneOffset`, and
`ReportedConnections` and `ReportedUsers` say so; that this is not the window
is `WindowReported`, finding 2. On a host in UTC the three agree.

| Action | Code |
|---|---|
| `ParseBegin` | a tick of `parseLoop`; `parseLogFile` fixes the cutoff and an empty delta (`parser.go:480-482`) |
| `SkipLine`, `KeepLine` | `processLine` on one line: too old for the user metrics, or into the delta (`545-557`) |
| `StopReading` | the end of the file, or an error wherever it comes (`488-495`); what is written from here on is left to the next pass |
| `BeginMerge`, `MergeStamp`, `EndMerge` | `mu.Lock`, `mergeDelta`, `mu.Unlock`, the new position (`500-509, 620-625`) |
| `BeginScrape`, `ExpireOldest`, `EndScrape` | `GetMetrics`: purge of `UniqueIPs`, the loop over the ring's tail, the result (`332-367`) |
| `XrayLogs`, `Tick`, `StepBack` | Xray and the wall clock (external) |

Steps under the lock stay separate steps, so that TLC sees that nothing else
gets in: an action that needs the lock has `mu = "free"` in its guard. Xray and
the clock move at any moment.

Go's `%` truncates; `GoRem` models that, since `BufHead - BufSize` is negative
whenever the ring has wrapped.

### LogTail

A line is written in two parts, the second of which has its newline, so a pass
can meet half a line. Files are sequences of parts under an inode; the path
leads to one inode or to none. `LastPos` and `LastInode` are the fields of
`MetricsData`; `newPos`, `buffer`, `delta` the locals of a pass.

| Action | Code |
|---|---|
| `Open` | `os.Open`; with no file the pass ends with the error (`parser.go:444-449`) |
| `Stat`, `StatFails`, `SeekFails` | `Stat`, `getInode`, the detection of rotation and truncation (`Adopt`), `Seek` (`451-482`), and the two returns on an error: before the file was adopted, and after |
| `Fill`, `ReadLine` | the `bufio.Reader` fetches any prefix of what is unread; `ReadString('\n')` hands out a line (`484-498`) |
| `EndOfFile`, `ReadError` | merge of the delta, new position, close (`490-509`) |
| `XrayWritesHalf`, `XrayWritesRest`, `XrayStops`, `XrayOpens`, `Rename`, `Create`, `Truncate` | Xray and logrotate (external) |

`cut` and `regrown` are history: which files were emptied without the parser
having seen it, and whether one of them was later taken for the old file. The
passing run uses them to state exactly where the detection is blind; the
violation run shows a way into that blind spot.

### SnapshotLoop

`pc` is where `runSnapshotLoop` is, across the functions it calls; `items` is
`Store.items`, `disk` the store file, `tmp` the temporary one. A file is whole, or
`Partial`: created, and empty or with a part of the history in it.

| Action | Code |
|---|---|
| `Wake` | the ticker (`main.go:248-252`) |
| `CountersAnswer`, `IdentitiesAnswer`, `SourceFails` | `Service.Collect` (`service.go:26-47`) and its error in the loop |
| `Store` | `Save`: append, retention, sort (`store.go:42-54`) |
| `CreateTemp`, `WriteTemp`, `Rename`, `PersistFails` | `persistLocked` (`store.go:107-139`): the temporary file is created, is written whole, becomes the store file as it is; any of that fails |
| `Push` | `Pusher.Push` (`push.go:38-62`), whose error is only logged |
| `Crash`, `Restart` | kill of the process; `NewStore` (`store.go:20-40`), fatal when the file cannot be read |

`sort.Slice` is not stable, so `Sorted` returns every chronological order of a
set of snapshots, which all differ.

### SnapshotPages

Every step of `SnapshotLoop` runs as it is (`LoopStep`), next to a client that
asks for a window (`Ask`) and follows the cursors (`GetPage`: `http.go:46-63`,
`store.go:67-105`). A request is answered while the process runs and `Save` does
not hold the store's lock; the client repeats it until then. `present` is
history: the snapshots of the window that were there all the time, as often as
the process was there to ask; a fetch may span a restart. `Windows` are the pairs
of times a client may ask for.

### Billing

One element per step: `ReadCounter` and `CountersRead` are the loop of
`TrafficCounters` over Xray's answer and its end (`exporter.go:288-304`), `IndexIdentity` puts one identity under its keys
(`identities.go:59-69`), `AddCounter` and `SkipCounter` are the two ways through
the loop of `normalize` (`service.go:55-94`). Every payload and every answer of
Xray within the bounds is an initial state. The properties compare the
aggregates with what the answers themselves say (`Payers`, `Reported`), without
the maps.

### IPFilter

`cache` is the map, `lru` the list with its front first; `pending` holds what a
caller computes outside the lock; `touched` is history: every address ever asked
about, the latest first.

| Action | Code |
|---|---|
| `Hit` | the first critical section, when the address is cached (`filter.go:101-108`) |
| `Miss` | the same when it is not; the lock is released |
| `Refresh`, `Insert`, `InsertEvicting` | the second critical section with the result of `shouldFilterInternal`: another caller was faster, there is room, the last element goes (`113-128`) |

`PureFilter` has the answer as its only variable; `IPFilter` implements it.

### Counters

A map of counts is a bag, `counts` has one per family, `delta` those of the pass
at hand. `Lines` are what the regular expressions, `normalizeIP` and the public
suffix list find in a line. `due` and `owed` are history: what the merged lines,
and those of the pass, should count for, computed by `Owes` from the line and the
lists alone, without cache, steps or order. `Owes` is what the comments want
(`parser.go:528,531`): every name a domain, every address that is not listed an
address, however it is written. The code reads two kinds of target otherwise: a
host of nothing but a-f, digits and dots, and an address in brackets, of which
`getRootDomain` may leave only what follows a dot (`RootOf`). `CountedSinceCut`
therefore excepts the keys under which these would or do count (`MisreadKeys`),
and `AllRequestsCounted`, finding 5, does not.

| Action | Code |
|---|---|
| `BeginPass`, `PassFails`, `EndPass` | a tick of `parseLoop`; the log cannot be opened; the merge at the end of the file (`parser.go:432-438, 444-449, 500-509, 601-625`) |
| `DropLine`, `TakeLine` | `processLine` up to the first question to the filter (`517-543`) |
| `FilterTarget`, `FilterClient` | the two questions, each in one or two steps of `IPFilter`, and what is counted then (`531-600`) |
| `checkEmergencyCleanup`, `EmergencyCleanup` | the decision under the read lock, the trim under the write lock (`206-238`) |
| `CleanupTick` | the other ticker of the same goroutine (`430-431`) |
| `collectLogMetrics`, `collectFamily`, `EndScrape` | `GetMetrics` and the six getters of one scrape, and its top N (`exporter.go:186-193, 396-505`) |
| `OtherCaller` | another goroutine in `ShouldFilter`. The program has none; its type locks for one, and a second caller is the cheapest way to have every order of addresses in the cache |

`keepTopN` sorts by count only, in the random order of a map: which of the keys
with the same count survives is open.

### GeoIPDownload, Scrape, Lifecycle

`GeoIPDownload` and `Scrape` define the actions of two components without a
next-state relation of their own; `Lifecycle` composes them with `main`, the
parser's goroutine and `Close`. `phase` is where `main` is.

| Action | Code |
|---|---|
| `Start`, `Download` | `main` calls `DownloadDB` before anything else (`main.go:116-121`); `MkdirAll`, `Skip`, `BeginRetries`, `Request`, `Copy`, `Rename`, `AttemptFails`, `Retry`, `GiveUp` are its steps (`downloader.go:50-150`) |
| `NewExporter`, `Fatal` | after the download, however it went (`Downloaded`): connection, readers and, if there is a log, the parser's goroutine; what ends the process before it serves |
| `BeginPass`, `BeginLookup`, `EndLookup`, `EndPass`, `ParserStops` | the `select` of `parseLoop` and the lookups of a pass (`parser.go:420-441`) |
| `Fault` | a lookup in a database that was unmapped under it |
| `TakeScrape` | a request to the scrape handler: while the server serves; during `Shutdown` on a connection that was accepted before and has not been used, which net/http leaves open for some five seconds (`lateArrival`); and after the server has failed |
| `XrayAnswers`, `XrayFails`, `ScrapeProgress` | `Collect`: `callWithRetry` (`exporter.go:335-360`), the families, the deferred recover |
| `Signal`, `ShutdownDone`, `ShutdownExpires`, `ServerFails` | the end of `main` (`main.go:201-229`) |
| `ScrapeWaits`, `ShutdownWaits` | time passes (`Tick`) |
| `Close`, `Exit` | `Exporter.Close`, part by part (`exporter.go:510-527`) |
| `Kill`, `Age` | the process is killed; a week goes by for a file while it is down |

Nothing in `Scrape` says that time stops at the deadline. A scrape waits for the
timers that the code starts: the context that `scrapeXray` makes, which gRPC
heeds in each call, and in a backoff that of `time.After` next to it, as in the
`select` (`exporter.go:352-356`). `Elapse` lets time pass while no timer of those
it waits for has fired; a scrape that waits for no timer may wait for ever. So
timers are punctual, and that scrapes keep their deadline rests on what they
wait for: with a plain sleep in place of the `select` TLC finds it broken.
Collecting takes no time on the scrape's own clock; `Shutdown` may still see it
take long (`ShutdownWaits`).

### Abstractions

* Time is a small integer, and the log format's one-second resolution is the
  clock's tick. The host's offset from UTC is a constant: a change to or from
  daylight saving time would move the stamps against the clock, forward or back,
  while the model runs, and is left out; the stamps go back as they do when the
  clock is set back.
* A log line is what the modelled metrics read of it: an address and a time in
  `ConnWindow`, a number in `LogTail`. Filtered addresses and lines that do not
  match are left out; half lines are not.
* The capacity of the ring, which `NewParser` computes from the window, is a
  constant.
* Xray opens its log for appending, as Go's log files are; after a `copytruncate`
  it writes at the new end. It does not stop in the middle of a line.
* An inode is never 0. `getInode` returns 0 where it cannot tell, and then
  neither rotation nor truncation is noticed.
* In `Billing` a name is its lower-case spelling. Xray's identifiers may have
  capitals, Accounts answers in lower case, as UUIDs are written: a UUID that
  Accounts spells otherwise would keep its case in the samples
  (`identities.go:61-66`). Outer spaces and stat names with fewer than four parts
  are left out. Sums stay far below 2^63 bytes.
* `SnapshotPages` leaves out authorisation and the parsing of times; the handler
  clamps the limit, so it is at least 1.
* In `Counters` a line is what is found in it: a target is none, a name with its
  registrable domain, an address, a bracketed address, or a host of nothing but
  a-f, digits and dots. The text matching is left out. A lookup in a GeoIP
  database is a function of the address and does not fail.
* The number of connections in `Counters` only has what a scrape compares;
  `ConnWindow` has the window.
* In `Lifecycle` time is counted in units of the first backoff (`baseDelay`):
  that of a scrape from its start, that of a shutdown from the signal. There is
  one scrape at a time. The server's
  read and write timeouts act on sockets only and are left out. Of a pass only
  its lookups are kept. The snapshot loop, which nobody tells of the shutdown, is in
  `SnapshotLoop` with its kills.
* A download's body is a usable database, junk or nothing; nobody looks at it
  before the rename.
* The snapshot store has a path and the pusher a URL; without them the steps
  are empty. A crash kills the process, not the host: what was written is
  written. A temporary file that a kill leaves behind is never read, so the
  model forgets it.

## 3. What the runs check

| Run | Question | Properties |
|---|---|---|
| `conn_window` | Is the ring sound, is nothing forgotten early when the clock is set back, and does every scrape say what the log says until then? | `RingIndexInBounds`, `RingHoldsNewest`, `YoungNotForgotten`, `ReportedConnections`, `ReportedUsers`, `LinesMerged`, `ImplementsSlidingWindow` |
| `conn_step_back` (violation) | Is the remaining size the count when the clock is set back? | `RemainingSizeIsCount` |
| `conn_zone` (violation) | Is it the connections of the window that are reported? | `WindowReported` |
| `log_tail` | Is each line read once, in order, and in the end? | `RecordedInOrder`, `NothingSkippedUnlessRegrown`, `LinesRecorded` |
| `log_tail_blind` (violation) | Are truncation and rotation always noticed? | `NothingSkipped` |
| `snapshots` | Do saved snapshots survive, does collection go on, and does a client that pages get everything once? | `RetentionKept`, `PostedIsDurable`, `StartupReadsStore`, `CollectionGoesOn`, `DeliveredOnce`, `NoneMissedUnlessTied` |
| `snapshot_unposted` (violation) | Is each successful snapshot POSTed? | `EverySavedPosted` |
| `billing` | Is all traffic billed, once, to whom it belongs? | `BilledToAccount`, `TrafficConserved`, `EmailBilledOnlyWithoutUUID` |
| `counters` | Do the counts say what was requested, and do the maps and the cache keep their limits? | `CountedSinceCut`, `MapsBounded`, `ConnectionsHaveASN`, `IndexMatchesList`, `MostRecentCached`, `ImplementsPureFilter` |
| `counters_misread` (violation) | Is every request counted as what it was for? | `AllRequestsCounted` |
| `lifecycle` | From start to exit: does every part end what it began, and scrapes keep their connection? | `ScrapeKeepsDeadline`, `UpMeansAnswered`, `ConnectionOutlivesScrapes`, `UsableStaysUsable`, `StartsServing`, `ScrapesEnd`, `ShutdownEnds` |
| `lifecycle_graceful` (violation) | Do the readers outlive the lookups in an ordinary shutdown? | `ReadersOutliveLookups` |

Each passing run also checks the type invariants of its modules. Deadlock is
checked except in `billing`, which ends when the samples are made, and in the
violation runs.

`CollectionGoesOn` is about collecting only: `next` passes `n` when snapshot `n`
was made of the two answers. Whether it is then stored is up to the disk.

Bounds:

* `conn_window` (176,000 states): three lines, a ring of two, a window of two over
  three instants, one unit west of UTC, the clock set back once. Three lines are
  one more than the ring holds, so it grows, wraps, overwrites and empties; lines
  leave the window before, between and after merges, and the stamps of a full
  ring come in any order. There is one client, since clients meet only in the
  ring, which does not keep them; a client with two connections tells users from
  connections. With two clients TLC takes several times as long and finds the
  same; the theorems are about any number of them.
* `log_tail`: three lines in six parts, two inodes, one rename and one
  truncation. That is room for a half line at any boundary, a new file with the
  removed one's inode, and a truncated file that grows past the old position.
* `snapshots` (705,000 states): three snapshots over three instants with a
  retention of one, one kill, and a clock that may go back: a snapshot can enter
  the history before older ones, leave it, and be saved before, during or after
  the kill. Pages hold one snapshot, so each page boundary can fall between two
  of the same time, and a save, a removal or a restart between any two pages. Two
  windows, one at either end of the time.
* `billing`: two UUIDs and an email, two identities, two counters. Two
  identities are enough for a shared, a stolen and a missing key, two counters
  for one account under two names or spellings. An UUID may be a proxy's and an
  account's.
* `counters` (900,000 states, about two minutes): three lines of seven kinds, among
  them both that are misread, three addresses (a user's, a private one, a DNS
  server's) for a cache of two. Three lines in up to three passes make the maps of
  domains and addresses reach, pass and fall below their limit of 1, while the ASN
  counts can stay complete; three addresses for a cache of two make it evict.
* `lifecycle` (222,000 states, more than a minute): two databases, one with
  another one after it and a last one; three attempts, as in the code; a scrape
  timeout of 3 against backoffs of 1 and 2, so that the deadline falls within a
  call, within a backoff and at its end; a grace of 5 and late requests for 1, so
  that a scrape that begins as late as it can still ends in time, with one unit
  to spare, and a shutdown that waits for the collecting of one may expire.

Fairness, and why the code justifies it:

* `ConnWindow`: the ticker of `parseLoop` fires for ever and a goroutine that
  can run does (weak fairness of its steps and of a scrape's, once it has the
  lock). `Lock` on a `sync.RWMutex` does not starve: hence strong fairness of
  `BeginMerge`. Reads may fail at any moment, but not in every pass before the
  first line: hence strong fairness of reading one. Nothing makes scrapes, Xray
  or the clock move.
* `LogTail`: the same for the passes; fstat, seek and reads may fail, but not for
  ever, hence strong fairness of `Stat` and of a `Fill` that reaches a newline.
  Nothing is assumed of Xray or of the administrator.
* `SnapshotLoop`: each call ends because each client has a timeout; Xray and
  Accounts do not fail for ever (strong fairness of their answers); a supervisor
  restarts the process. The disk and Vector may fail every time.
* `Lifecycle`: weak fairness of `main`, of what a scrape does by itself and of
  time. The connections that are open at a signal bring a request each at most,
  so `Shutdown` finds a moment without a scrape in the end: strong fairness of
  `ShutdownDone`. Nothing is asked of Xray, which may accept a call and never
  answer, of the parser, or of the servers that have the databases: an attempt is
  bounded by `downloadTimeout`, and one that times out is a failed attempt.

### Findings

1. The count is wrong after the clock is set back (`conn_step_back`): the expiry
   loop trusts the log to be chronological (`parser.go:354-356`).
2. Off UTC the window is not the window (`conn_zone`): Xray's local stamps are
   read as UTC (`parser.go:636`) and compared with the clock, against
   `parser.go:330` and `README.md:289`. In the west it is shorter by the offset,
   and empty if the offset is as long; in the east it is longer.
3. A truncated log that has grown to the old position before the next tick is
   taken for the old one (`log_tail_blind`), against `parser.go:443`. With
   `MaxTruncations` 0 the same run shows it of a new log with the removed one's
   inode number, against `inode_unix.go:4`.
4. A snapshot saved just before a kill is never POSTed (`snapshot_unposted`),
   against `docs/tasks/2026-08-02-vector-snapshot-push.md:4-5`.
5. An IPv6 target, in brackets, counts as a domain and is never filtered, and a
   host such as `cafe.de` counts nowhere (`counters_misread`), against
   `parser.go:528,531`.
6. `Close` takes the GeoIP readers away under a lookup (`lifecycle_graceful`):
   `Stop` only cancels the context and nobody waits for the pass, against
   `parser.go:325` and `exporter.go:509`. The lookup ends in an error or the
   process faults, since the database is unmapped; it was about to exit.

## 4. What is proved

`ConnWindow_proofs` proves, for every finite set of clients, every positive
capacity, every window, every offset from UTC and all bounds (`CapAssumption`,
`BoundsAssumption`, `IPsAssumption`, `ZoneAssumption`), whatever the clock does:

* `TypeCorrect`: `Spec => []TypeOK`.
* `IndexSafe`: `Spec => []RingIndexInBounds`, no slice access panics.
* `HoldsNewest`: `Spec => []RingHoldsNewest`, the ring always holds the newest
  merged timestamps in order.
* `ForgetsNoYoung`: `Spec => []YoungNotForgotten`, the expiry drops nothing that
  is in the window by the latest time the host has shown.

The next two properties are about the time before the clock is first set back
(`Orderly`); after that TLC finds what they say violated, as in finding 1. And
they count the lines of the window as the zone's offset shifts it, finding 2:

* `ConnectionsReported`: `Spec => []ReportedConnections`.
* `UsersReported`: `Spec => []ReportedUsers`.
* `WindowRefinement`: `Spec => ImplementsSlidingWindow`, step by step:
  `MergeStamp` records, `BeginScrape` advances the horizon, `EndScrape` reports,
  the first `StepBack` ends what the abstract count promises, the others stutter.

`RingIndexInBounds` is not inductive. The strengthening is `RingShape`: either
the slice is full, or the head is at its end; the size never exceeds its length.
Together with `TypeOK` it gives the index bounds, because the remainder
arithmetic (lemmas on `GoRem` and on remainders by a symbolic divisor) puts the
tail index at `head - size` or `head - size + Cap`, both inside the slice. For
`RingHoldsNewest` the invariant is the conjunction of the three: an overwrite
replaces the slot at the head, which is the oldest entry exactly when the ring
is full; an expiry drops the oldest and leaves the other slots' positions as
they were. For `YoungNotForgotten` that invariant is joined by `CutoffShown`
(scrapes look back from a time the host has shown): the entry an expiry drops is
by `RingHoldsNewest` the oldest one merged that is left, and it is not younger
than the cutoff. The proofs have one step per action; those that leave the ring
alone share one.

What a scrape reports needs the history of the log. The passes skip lines that
are too old by their own cutoff, and the ring forgets, so the log and what is
kept of it differ; but not above the cutoff of any scrape still to come.
`SameAbove` says that of two sequences of timestamps: as many of either are
above a cutoff, and they are the last. `ReadSame` says it of the lines read and
what is merged or in the batch, `MergedSame` of the lines applied and what is
merged, `ScrapeSame` of the scrape under way. Together with `RingHoldsNewest`,
`Chronological` (the log is in the order of time) and `CutoffsPast` they make
`ReportInv`, and the size of the ring after its expiry the count. For the users,
`UsersInv` adds the same of the maps of addresses: the last time of an address
in a map and in the log agree where they are above such a cutoff.

`Billing_proofs` proves, for all sets of UUIDs and emails that do not overlap
(`NamesAssumption`, `BoundsAssumption`, `OptionAssumption`) and answers of Xray
and Accounts of any length:

* `BillingTypeCorrect`: `Spec => []TypeOK`.
* `EmailsKept`: `Spec => []EmailBilledOnlyWithoutUUID`.
* `AccountsBilled`: `Spec => []BilledToAccount`.
* `NothingLost`: `Spec => []TrafficConserved`.

For the emails the invariant adds `IndexOK`: each identity in the index is one
that Accounts returned, under one of its own keys. A counter billed to an email
therefore found an identity without UUIDs, and the key that remains is its
email. The other two compare sums, so the invariant says of each loop what it
has added up so far: `ReadAll`, that the counters kept have as many bytes as the
part of Xray's answer behind the loop, for each set of user counters;
`IndexedAll`, that the index has the keys of the identities behind; `BilledAll`,
that the aggregates together have the bytes of the counters behind that may be
billed, and the one of an account those under its names. The step of `BilledAll`
needs that a counter is billed to an account exactly when its name is one that
only this account pays for (`BilledToPayer`). That is where the premise of
`BilledToAccount` is used, and where an identifier that is spelled like an
account is found to be known.

The sums are those of the community modules (`SumFunctionOnSet`, `SumFunction`),
defined by recursion over a set. `Sums` proves what is needed of them: a sum is
a number, one more element adds its value whichever is picked first, equal
functions have equal sums, sums of sums and of parts. The library's induction
theorems cannot be used here, so each of these is proved by a smallest
counterexample: `SetInduction` (on well-foundedness of `<`, cited from the
library) takes a collection of sets in place of a predicate.

`IPFilter_proofs` proves, for all sets of addresses and callers, all lists and
every capacity of at least 1 (`AddressesAssumption`, `CacheAssumption`):

* `CacheConsistent`: `Spec => []IndexMatchesList`.
* `CacheLeastRecentlyUsed`: `Spec => []MostRecentCached`.
* `FilterRefinement`: `Spec => ImplementsPureFilter`, the refinement.

The invariant `FilterInv` joins the two with the types, `NoRepeats(touched)` and
`Right(cache)`: each cached result is what the lists say. Neither of the first
two holds alone: that an insertion does not repeat an address needs the map and
the list to agree, that the evicted one is the oldest needs the list to be the
beginning of the history. The lemmas say what bringing an address to the front
does to a list without repeats, and to a list that begins another.

`Counters_proofs` proves, for all lines, databases, lists and limits
(`LinesAssumption`, `LimitsAssumption`, `ParserAssumption`, `ASNAssumption` and
those above; the last says that the key of an ASN, which joins a number and a
name by a bar (`parser.go:597`), is never empty):

* `CountsRight`: `CountersSpec => []CountedSinceCut`, of the keys that no target
  is misread for.
* `MapsStayBounded`: `CountersSpec => []MapsBounded`.
* `CacheInUse`: the filter's two invariants under the parser's use.
* `CountersTypeCorrect`: `CountersSpec => []CountersTypeOK`.
* `ConnectionsCovered`: `CountersSpec => []ConnectionsHaveASN`.

`CountedSinceCut` is not inductive: the merge adds `delta` to one side and
`owed` to the other, and under the keys of misread targets the two differ for
good. `Alike` says of two maps that they agree under all other keys, and that
merges and cuts keep it so. `LineInv` says how the two differ: not at all between two
lines, by all that a line counts for while the filter is asked about its target,
by what it counts for as a user while it is asked about its client. A step that
gets its answer then needs `FilterInv`, that the cached answer is what the lists
say, which is why the module stands on `IPFilter_proofs`. For the bound, every
map is a finite bag, of which `keepTopN` leaves no more than the limit. The
types need `PlacesTyped`: the connections merged and kept and the line at hand
are no more than the lines read. `ConnectionsHaveASN` is about one moment of a
scrape; its invariant `ConnsCounted` follows a connection through all of them:
kept in the pass, merged, and shown, it is each time covered by the sum of the
ASN counts of the delta, of the map, and, from the fifth getter on, of the
exported map, which has lost nothing when it has fewer keys than the limit.

`Lifecycle_proofs` proves, for any databases, timeouts, numbers of attempts,
bodies, grace and late requests (`ScrapeAssumption`, `DownloadAssumption`,
`LifecycleAssumption`):

* `DeadlineKept`: `Spec => []ScrapeKeepsDeadline` and `UpSentOnceAndTrue`:
  `Spec => []UpMeansAnswered`, from `ScrapeInv`. Of the deadline it says that
  whenever the scrape waits, in a call or a backoff, the end of its one context
  is among the timers it waits for, and has not been passed: each step that
  starts a wait must put it there. Of `up` it says where in a scrape it may have
  been sent and what Xray must have answered by then.
* `ConnectionKept`: `Spec => []ConnectionOutlivesScrapes`, from `ScrapeInv` and
  `LifeInv`. Its heart is that during a shutdown the grace used is not more than
  the age of the scrape it waits for and the time in which that may still have
  come, and that age is not above the deadline: the grace cannot run out first if
  it is longer than both together.
* `DownloadsKeepUsable`: `Spec => UsableStaysUsable`, from `DownloadInv`.
* `ProcessTypeCorrect`: `Spec => []TypeOK`, from `DownloadInv` and the types of
  the scrape and of the process. A backoff `2^n` is a number because sets of
  subsets are finite: the prover has no facts about powers.

`SnapshotPages_proofs` proves, for every retention, page size, all bounds and a
clock that may be set back (`RetentionAssumption`, `BoundsAssumption`,
`ClockAssumption`, `LimitAssumption`, `WindowsAssumption`), of `SnapshotLoop`:

* `SavedSnapshotsKept`: `Spec => []RetentionKept`.
* `PostedSnapshotsDurable`: `Spec => []PostedIsDurable`.
* `StartReadsStore`: `Spec => []StartupReadsStore`: the temporary file is whole
  whenever it is renamed.
* `LoopTypeCorrect`: `Spec => []TypeOK`.

and of the client that pages through it:

* `EachDeliveredOnce`: `PagesSpec => []DeliveredOnce`.
* `MissesOnlyTied`: `PagesSpec => []NoneMissedUnlessTied`.
* `PagesTypeCorrect`: `PagesSpec => []PagesTypeOK`.

The invariant `LoopInv` adds that `newest` is what the retention was last
counted from at the most, that what is due is in memory, in the temporary file
and on disk wherever the loop is, and what a save under way has done so far. For
the pages `FetchInv` joins it: what was delivered is not behind the cursor's
time, and what was there all the time is either above the cursor or has been
delivered, but for one of the same time. A page is the beginning of the
chronological sequence `Matching`, defined through the rank of each place, which
the prover can reason about (it has no facts about `SelectSeq`). `NumberedOnce`,
that no two snapshots have the same number, makes the delivered ones distinct
and their number bounded.

`LogTail_proofs` proves, for every set of inodes and any number of lines,
rotations and truncations (`InodesAssumption`, `BoundsAssumption`,
`ReuseAssumption`):

* `TailTypeCorrect`: `Spec => []TypeOK`.
* `RecordsInOrder`: `Spec => []RecordedInOrder`.
* `SkipsNothing`: `Spec => []NothingSkippedUnlessRegrown`.

The types need `Linked`: which file the path, Xray and the parser have. Order is
not inductive by itself: a line is in order only if everything still to be read
is later than all that was counted. `OrderInv` says so for each place that lines
come from: the rest of the file that the next pass will read (`PathAhead`), of
the file of the pass at hand (`PassAhead`), the reader's buffer, whose file may
have been emptied and rewritten meanwhile (`BufferAhead`), and Xray's next line.
`KeepInv` is the other direction: while no emptied file has grown unseen, the
position stands behind the end of a line, every whole line before it is counted
(`CaughtUp`, `CatchingUp`), and a half line is completed by the part that
follows it (`HalvesCompleted`).

## 5. What stays with TLC, and what is not modelled

Liveness under fairness (`LinesMerged`, `LinesRecorded`, `CollectionGoesOn`,
`StartsServing`, `ScrapesEnd`, `ShutdownEnds`) is outside the prover's reach.
They rest on the fairness of section 3 alone. Every invariant of a passing run,
every action property and both refinements are proved.

What the proofs do not say: `ReportedConnections`, `ReportedUsers` and the
counts of the sliding window are about the time before the clock is set back,
and about the window as the zone shifts it; `CountedSinceCut` is not about the
keys of misread targets; `ConnectionOutlivesScrapes` is about neither the readers
nor a server that has failed. The theorems speak of the modules, whose distance
from the code is that of the abstractions in section 2.

Facts met while reading that no run refutes, because no text promises otherwise
or because the comment is built into the model as the code has it:

* An identity that has an email and neither UUID is billed under the email: the
  lookup succeeds and the UUID of the sample stays the identifier
  (`service.go:66-76`). The comment at `service.go:62-63` speaks of an email
  "without a canonical Accounts identity", which this one has, so it is left to
  the reader; `EmailBilledOnlyWithoutUUID` says that there is no other way.
* After the clock was set back a line with an older stamp replaces the younger
  time of its client (`parser.go:557,621`), who may then be purged too early;
  `ReportedUsers` is about the time before.
* A key that `trimToTopN` cuts starts again from zero. One that is new and busy
  may never catch up with the accumulated counts of the top (`parser.go:243`).
* A whole answer with status 200 that is no database replaces a good one and is
  fresh for a week (`downloader.go:83`); `UsableStaysUsable` excepts exactly
  that. The first database that fails ends the download (`downloader.go:70`). A
  kill leaves temporary files that nobody removes. The warning of `main` that
  GeoIP is unavailable is also given when old databases are there and are used.
* With a scrape timeout of 25 seconds or more the shutdown may give up before a
  scrape that came late, of 30 before any; of 10 or more, the server's write
  timeout throws the answer away. When the server fails, `Close` runs without
  `Shutdown`.
* A key that is not UTF-8 makes `MustNewConstMetric` panic: the rest of the
  scrape is missing and `up` is 0 (`exporter.go:436,439,458`).

Not modelled: option parsing, logging, route registration; the text matching of
the regular expressions and the public suffix list; JSON formatting; the store
without a path and Vector without a URL, which are empty steps; the order in
which a file system makes data and renames durable; the inode 0; the Windows
substitute for inodes; Xray, Vector, Accounts and GitHub beyond their answers.

## 6. Plan

All components with state of their own are modelled, and all safety properties
that the passing runs check are proved. What is left:

1. A refinement for `SnapshotLoop`: a store that keeps each saved snapshot for
   the retention, without file, temporary file or kill.
2. An abstract specification of the counters, of which `Counters` without trims
   is an implementation.
3. The inode 0 in `LogTail`, as a parser that takes every pass for its first.
