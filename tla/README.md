# A TLA+ model of rview

rview is a web server over [rclone](https://rclone.org): it lists the directories
of a remote, serves its files, generates thumbnails of its images and searches
its file names. Very little of it is persistent and none of it is distributed,
but almost everything in it runs concurrently: HTTP handlers, the workers that
generate thumbnails, the goroutines that clean the caches and refresh the search
index, a child process, and a shutdown that has to stop all of them. Around that
core lie sequential algorithms with many cases: the order of a listing, the
parsing and ranking of a search, the names and formats of thumbnails, the links
between pages. These modules model both. They are checked by TLC on small
instances, and every safety property of theirs is proved by TLAPS for all instances.

File names below are relative to the repository (`thumbnails/service.go`, …).
`PROJECT.json` has the exact lines for every definition.

## 1. Inventory

### Components

| Component | State | Operations | Model |
|---|---|---|---|
| Thumbnail service, `thumbnails/service.go` | `stopped`, the channel `tasksCh`, `inProgressTasks`, `openImageLocks`; per worker a task, a temp file and open files | `OpenThumbnail`, `startWorkers`/`processTask`, `openImage`, `Shutdown` | `Thumbnails`, abstractly `SingleFlight` |
| Disk caches, `pkg/cache/disk.go` | files in a directory, written in place | `Open`, `GetFilepath`, `Write`, `Remove` | `DiskCache` |
| Cache cleaner, `pkg/cache/cleaner.go` | the list of a round, `stopCh`, `cleanupProcessFinished` | the rounds of `startCleanupProcess`, `Shutdown` | `CacheCleaner` |
| Directory listings, `rclone/rclone.go`, `rclone/dir_cache.go` | a mutex, a copy and an expiry per directory | `getDirInfo` | `DirCache` |
| Search service, `search/service.go` | the index in memory, the index file, `stopCh`, `stoppedCh` | `Start`, background refresh, `RefreshIndex`, `Shutdown` | `SearchService` |
| Process lifecycle, `main.go`, `cmd/rview.go` | the created components, the termination context, the exit code | `Prepare`, `Start`, `Shutdown` | `Lifecycle` |
| The rclone process, `rclone/rclone.go` | the command and its context, `stoppedCh`, `stoppedByShutdown` | `Start`, `Shutdown` | `Lifecycle` |
| Reading files, `rclone/rclone.go` | the id (path, time, size) a link carries | `ProxyFileRequest`, `OpenFile`, `RequestFileRange` | `FileAccess`, on top of `DirCache` |
| HTTP server, `web/web.go` | requests in progress | `Start`, `Shutdown` | `Lifecycle`, and as callers in `Thumbnails` and `SearchService` |
| Handlers, `web/web.go` | none; a page and the links on it | `handleUI`, `handleDir`, `handleFile`, `handleThumbnail`, `handleSearch`, `handlePageWithSearchResults` | `WebServer` |
| Order of directory entries, `rclone/rclone.go` | none | `GetDirInfo`, `compareStrings`, the `Compare…` functions | `DirOrder` |
| Prefix index, `search/prefix_index.go` | immutable | `newPrefixIndex`, `newSearchRequest`, `Search`, `compactSearchHits` | `SearchIndex` |
| Previews, `thumbnails/service.go`, `thumbnails/noop.go`, `rview/file_types.go`, `rview/file_id.go` | none | `GetFileType`, `CanGenerateThumbnail`, `newThumbnailID`, `getThumbnailExt` | `Previews` |
| Configuration, static files, metrics, logging, in-memory cache | none that decides anything | | not modelled |

### How they interact

A request for a thumbnail calls `OpenThumbnail`, which hands a task to a worker
over `tasksCh` and then polls `inProgressTasks`. The worker asks rclone for the
original and stores it in one disk cache and the thumbnail in another one. The
cleaner of each cache removes files from the same directories without any lock
in common with the workers. Requests for directories call `getDirInfo`, which
shares answers through `dirCache`. Requests to refresh the index call
`RefreshIndex`, as the search service's own goroutine does. `main` creates
everything in order, starts rclone, the search service and the web server in
three goroutines, and shuts down in a fixed order with one common deadline.

### What is hard about it, and what makes it correct

* **Thumbnails.** One thumbnail must be generated by one worker, once, whatever
  calls overlap; an entry of `inProgressTasks` must be released on every error
  path or all later calls poll for ever; two sizes of one image share its
  original; files are written in place, so whoever opens them early sees a part;
  `Shutdown` closes a channel others send on; the process may die in the middle
  of a write and find its own half-written files after the restart.
* **Cleaner.** It works on a list that is older than the directory it removes
  from, in a directory that changes under `filepath.Walk`. It must get the cache
  below the limit, oldest files first, and remove no more than necessary.
* **Listings.** A slow answer must not overwrite a newer one; the cache must not
  hide a change for longer than its TTL; a mutex is held during a request.
* **Files.** A link is as old as the listing it comes from; what is read through
  it must be the listed version or refused, also when it takes two requests.
* **Pages.** What one handler puts on a page another one has to honour: links,
  previews, search results. The comparison of names must be an order; compaction
  relies on another order; two images must not get one thumbnail by accident.
* **Search.** Refreshes write the file and the memory without a common lock;
  `Start` assigns without one; retries must end; the file may be torn.
* **Lifecycle.** `Shutdown` may overtake `Start`; `Prepare` may fail half way;
  `main` waits without a timeout for goroutines that have to be told to stop; no
  rclone process may be left behind.

`PROJECT.json` lists each of these hazards at its line, with the properties that
watch it.

## 2. The modules

An action is what a goroutine does between two points at which another one can
act. Names follow the code. Every operator whose name begins with `Seeded` is a
deliberately wrong form of the definition after it; it is not used by the
specifications and serves to show that the properties can fail.

**`DiskCache`**: directory entries (`link`) and inodes (`data`), because the
difference matters: `os.Create` truncates the inode others have open, and
`os.Remove` leaves it to them. A file's content is `whole`, `torn` (part of it)
or `damaged` (a thumbnail made from part of an image). A removal may fail
(`RemoveFails`); `unremoved` remembers the paths of which one has failed since
they were last created.

**`Thumbnails`**: a request goes through `lookup`, `register`, `send`, `wait`,
`reopen` and `serve`; a worker through `openImage` under the lock of its file
(`open`, `download`, `copy`, `undo`, `reopen`), then `use`/`write` for images
that are copied or `use`/`resize`/`vips`/`unmake` for those that are resized,
and `release`. `StopService`, `CloseTasks`, `DropTask` and `EndDrain` are the
lines of `Shutdown`. `Evict` is the cleaner: any file, any time. `Restart` is
the end of the process, however it comes about; only the files survive. rclone,
exiftool and vips succeed or fail, and so does the removal of a file after one of
them has failed (`CleanUp`). The file names are taken to be injective.

**`SingleFlight`**: what the service promises without channels, locks and files:
a key is claimed once, worked on by one actor, released by that actor.
`Thumbnails!ImplementsSingleFlight` states the refinement, with
`inProgressTasks` as the claims and the busy worker as the actor.

**`CacheCleaner`**: `ReadRoot`, `ReadMonth` and `VisitFile` are the calls
`filepath.Walk` makes, `GetFilesToRemove` the choice, `RemoveNext` one
`os.Remove`; the workers write and remove files between any two of them. The
order of the walk and of files of the same age is arbitrary.

**`DirCache`**: `getDirInfo` as `Call`, `Lock`, `Load`, `Request`, `Store`,
`Return` or `Fail`. A listing is the number of times the directory has changed;
history variables remember what earlier calls have returned and when the stored
copy began to be wrong. The TTL is chosen at the start and may be zero.

**`FileAccess`** extends `DirCache`: a call that has got its listing reads the
directory's file by it, whole (`ProxyFileRequest`, `OpenFile`), by a range
(`ProxyRange`), or as a RAW preview in two requests (`RequestHeader`,
`RequestPreview`). Versions of the file differ in time or in size, as the checks
of the response see them.

**`SearchService`**: `Start` (`Load`, `Assign`, `StartResult`), the goroutine
(`BackgroundTick`, `BackgroundResult`, `BackgroundStop`) and any number of
callers of `RefreshIndex` (`List`, `Build`, `Create`, `Write`, `Publish`,
`Fail`, `FailLate`). One unit of its clock is the refresh interval. Two writers of the file
at once can leave either index or something that cannot be decoded.

**`Lifecycle`**: `main` with `Prepare` step by step, the three `Start`
goroutines, the rclone process, requests in progress, and `Rview.Shutdown` with
its list and its deadline. All four combinations of thumbnails on or off and own
or external rclone are initial states. `caught` is whether SIGINT and SIGTERM end
`termCtx` (`Signal`) or the process (`SignalKills`): they do the latter before
`NotifyContext`, and again after `onError` has called its stop function.

**`Text`**: names as sequences of the codes of ASCII characters, with the functions of
Go's standard library that the program applies to them. TLA+ strings cannot be
ordered, and everything here is about order, prefixes and parts of names.

**`DirOrder`** (extends `Text`): the comparisons of `rclone.go` as operators; the
result of a sort is the set of all orders the comparison allows. The reference,
`NaturallyBefore`, compares sequences of tokens, a token being a character or a
whole number; of names with the same tokens (`w 1`, `w 01`) the shorter comes first.
`Comparable` delimits the pairs of names on which the code does the same.

**`SearchIndex`** (extends `DirOrder`): the index, the request, the search. A score
is the number of matching prefixes.

**`Previews`** (extends `Text`): types, names and formats of images under a
configuration, the variable `cfg`.

**`WebServer`** (extends `SearchIndex` and `Previews`): one action per handler, one
for bad requests, one for failures of what lies behind a handler, and the browser
that follows a link of the last response. `JoinPath` is what `URL.JoinPath` makes of
names that are not escaped; the links on pages and the request to rclone (`Asked`)
go through it. The history variable `promise` is what the link stands for, taken
from the page and not from the URL, and the names that the URL was joined from.

`MC…` modules give the sets for the configurations. `…Proofs` modules hold the
theorems. `ThumbnailsProofs`, `SearchServiceProofs`, `CacheCleanerProofs` and
`LifecycleProofs` are about one component each, `DirCacheProofs` about `DirCache`
and `FileAccess`. `ListProofs` is a library: facts about lists of the elements of a
set, least and greatest numbers, induction and recursion up to a number.
`OrderProofs` extends it with the lemmas about `DirOrder` and `SearchIndex`, and
`WebServerProofs` extends that with the theorems about `WebServer`.

## 3. What TLC checks

| Run | Instance | Result |
|---|---|---|
| `thumbnails_sharing` | 3 calls, 2 workers, 2 sizes of one image, a channel of 1, failures (of the removal of files too), evictions | `TypeOK`, `TaskOwnership`, `ImageLocked`, `OneWriterPerFile`, `NoTornLeftBehind`, `WholeOriginalStays` hold; `SingleFlight` is implemented |
| `thumbnails_crash` | 2 calls; a resized, a RAW, a copied and an unsupported image; failures, evictions, one restart | `NoDamagedThumbnail` holds |
| `thumbnails_liveness` | 2 calls, 2 sizes, a shutdown, fairness | `NoOrphanTask`, `NoWriteAfterShutdown`, `CallsEnd`, `ShutdownEnds` hold |
| `file_access` | 3 calls, one directory changing twice, TTL 0 and 1, failures, one call goes on to read the file, fairness | `NoParallelRequests`, `ReadsMonotone`, `NeverStaleWithoutTTL`, `ReadAsListed`, `StaleForTTL`, `CallsEnd` hold |
| `cleaner` | 3 paths in 2 months, sizes 1–2, 2 events anywhere, a shutdown, fairness | `RemovesOldestExcess`, `QuietAfterShutdown`, `LimitReached`, `CleanupEnds` hold |
| `search` | the service and a handler, 2 tries, clock 0–2, all failures, a shutdown, a restart, fairness | `BackgroundHasIndex`, `DiskMatchesMemoryAlone`, `QuietAfterShutdown`, `StartEnds`, `ShutdownEnds`, `OldIndexReplaced` hold |
| `lifecycle` | all configurations, 2 requests, all failures, signal, deadline, fairness | `NoOrphanRclone`, `ShutdownIsSafe`, `RequestsBeforeServices`, `Exits`, `FailureExits` hold |
| `web` | listings of one to three of 25 names in 6 orders; a tree and pairs of files of every kind under 12 configurations; searches of 1 and 2 of 8 terms in 30 remotes with 3 limits; odd requests | `LinksLead`, `OfferedOpens`, `OnlyTwinsShare`, `ListingIsNatural`, `ListingDetermined`, `SearchFindsExactly`, `BestFirst` hold |
| `thumbnails_served`, `thumbnails_once`, `search_disk`, `lifecycle_killed` | as small as the case allows | violated, see below |

### Why the bounds are enough for the cases of interest

* Two workers and three calls let one call register while a second sends into a
  full channel (capacity 1 for the code's 10 000) and a third polls; two sizes
  of one image compete for its lock. The four kinds of images take every branch
  of `processTask`. One restart suffices for a process to meet what an earlier
  one left. Inodes are as many as can be linked or open at once, so running out
  of them never hides a step. Calls and workers are interchangeable and used
  with symmetry, except under fairness.
* Three calls for a directory are one that stores, one that waits for the mutex
  and one that comes later; two changes and two ticks order a change before,
  during and after a request and beyond the expiry. Directories share nothing.
* Three files around the limit make rounds that remove none, one, two and all of
  them. Two events hit two moments of one round or two rounds.
* Whether a comparison is an order shows in triples, and the names are chosen to
  disagree in every branch: numbers of different length, with and without leading
  zeros and before letters, numbers and nothing, numbers against letters and signs, case, a name that is the beginning of another, directories. The
  largest integer is 120, so that there are numbers beyond it. Prefixes of 2 to 3
  characters (3 to 10 in the code) leave words that are too short, as long as a
  prefix, and longer; `Searchable` has directories whose names sort between
  another directory and its content. A search is written from the terms it is
  checked against, with and without its last quote.
* Two tries tell a retry from the last try (six in the code). The handler and
  the service's goroutine are the two refreshes that overlap; `search_disk` has
  two handlers.
* The clock, the changes, the events, the restarts and the requests are bounded
  by the `Max…` constants in guards of environment actions only, except the
  requests in progress.

### Fairness

Weak fairness is given to the goroutines (`RequestStep`, `WorkerStep`, …), since
the Go scheduler runs what can run, and through them to rclone and the commands
they wait for: requests have timeouts (ten minutes for rclone, the caller's
context otherwise), and each step may fail instead of succeeding. Calls to begin
and signals have none; nor have requests in progress or rclone exiting by itself
in `Lifecycle`, whose shutdown does not depend on them: the deadline arrives
(`Expire`) and a killed process dies (`KillRclone`). Strong fairness is used for
two steps, `BackgroundStop` and the cleaner's `Stop`: they are branches of a
`select` that is entered again and again, and Go chooses at random among ready
branches, so it does not prefer the ticker for ever.

Deadlock is checked everywhere except in `cleaner`, whose goroutine may have
ended with nothing left to happen; elsewhere `Finished` steps say which final
states are legitimate.

### What does not hold

* `thumbnails_served`: a call that arrives while vips writes the thumbnail is
  served a part of it (`thumbnails/service.go:619` does not ask
  `inProgressTasks`), whereas the test of concurrent calls expects the whole.
* `thumbnails_once`: the lookup and the registration are two steps, so a call
  between them can generate a complete thumbnail again, over the file others
  are served from; the comment says that only the first call does.
* `search_disk`: two refreshes can save in one order and publish in the other;
  the comment says that saving first avoids "any inconsistency".
  `DiskMatchesMemoryAlone` is what remains true: the two agree unless the last
  save overlapped with another one or failed after its last byte (`Close`), and
  the next save that runs alone repairs it.
* `lifecycle_killed`: a component fails, `onError` calls the function that
  `signal.NotifyContext` returned (`main.go:59`), and with it signals have their
  default effect again. A SIGTERM during the shutdown that follows kills rview
  before `Rclone.Shutdown`, and rclone goes on, whereas `main.go:28` says that the
  service is always shut down to not keep external commands running.
  `NoOrphanRclone` holds in every other case.

More observations carry no run of their own. The first three are exceptions that
properties state, and without which they fail:

* Links to directories, breadcrumbs, links of search results and the request to
  rclone are joined from unescaped names (`web/web.go:338`, `363`, `517`,
  `rclone/rclone.go:459`). A name with a percent sign becomes another name, or the
  whole path is lost. The comment of `GetEscapedPath` says that it should be used
  with `JoinPath`, as it is for files. The Home link on the page of a missing
  directory (`web/web.go:311`, "for link to Home") is counted back one step from
  that directory, so it is Home only at the first level. Both are `Misled`, which
  `LinksLead` excepts.
* The comparison "does a natural comparison" (`rclone.go:532`), but after a number
  that two names spell with a different count of leading zeros it judges a
  character by the whole names ("01b" before "1a"), and the end of a name by the
  lengths, as if the "strings have the same prefix" ("01a" and "1aa" are equal, and
  come in any order). Names like those that `TestCompareStrings` shuffles, with
  leading zeros and a difference in a later number or in zeros only, are put in
  natural order: `ListingIsNatural` and `ListingDetermined` except only listings
  with a pair of names that `Comparable` excludes.
* A failed removal is only logged (`thumbnails/service.go:264`,
  `pkg/cache/disk.go:100`): the incomplete file stays and is later taken for a
  complete one. A copy that fails is not even removed (`service.go:470`), as a
  failed resize is. `NoTornLeftBehind` excepts both.
* The second breadcrumb of search results, and that of a missing directory ("???"),
  name no directory: they are `NoPromise` in `WebServer`.
* A number from the largest integer on compares as that integer; `Plain` excludes
  such names from the two properties of listings, the model itself has them.
* An image and another one with an extension more, of the same time and size
  (`p.jpg`, `p.jpg.avif` with AVIF thumbnails), share a thumbnail.
* An empty image is offered with a preview that is then refused; RAW images are
  refused a preview by configuration, but `OpenThumbnail` makes one when asked.
* A negative limit that has to cut makes the handler of a search panic.
* Range requests are proxied without a comparison with the listing.
* A file that a worker removes while `filepath.Walk` is on its way makes the
  cleaner take the cache directory for missing (`cleaner.go:125`) and skip the
  round; `LimitReached` shows that a later round makes up for it.
* With a number of workers of zero or less nothing generates thumbnails.
* `Rview.Shutdown` never increments the counter of failed components; a signal
  that comes before `cmd.Start` makes rview exit with code 1; an rclone process
  that ends by itself with code 0 goes unnoticed; the map of cached directories
  only grows; a refresh whose save fails leaves the goroutine that encodes the
  index blocked on its pipe.

## 4. What is proved

All theorems hold for every value of the constants that satisfies the `ASSUME`s
of the modules (distinct null values, natural bounds, finitely many paths in a
cache directory, and in `Thumbnails` enough inodes for the files that can be
linked or open, which stands for an operating system that always has a free
one; for `WebServer` see below). Every safety property of the passing runs has a
theorem.

**`ThumbnailsProofs`**, for any number of calls, workers, images and restarts:

* `TypeCorrect`: `TypeOK`, with what a program counter says about the other
  variables of its goroutine (`RequestsOK`, `WorkersOK`): a busy worker has a
  task, and the handles that are used are open. It is inductive in this form.
* `OneOwner`: `TaskOwnership`. That tasks in progress are distinct is only
  inductive together with their registration, since `Register` relies on the
  absence of an entry.
* `ImageLockSafe`: `ImageLocked`, the mutex per image, with the types.
* `OneWriter`: `OneWriterPerFile`. Two workers could write one inode through one
  path, or through two paths that lead to it, or because it was freed while one
  of them had it open. The invariant `FileInv` therefore adds that directory
  entries do not share inodes (`LinksDistinct`) and that what a worker writes is
  the file of its own path or unlinked (`WritersAtHome`); the lemma
  `NoOtherWriter` gets from `TaskOwnership` (thumbnails) and `ImageLocked`
  (originals) that no one else writes to that path.

**`ThumbnailsProofs`**, about the tasks:

* `ShutdownStopsWrites`: `NoWriteAfterShutdown`, an action property, from
  `ShutdownInv` (`Shutdown` returns nil only after every worker has left its
  loop, and the channel is closed before it drains it) and the lemma that a
  worker that has left takes no step.
* `NothingForgotten`: `NoOrphanTask` is inductive once `ShutdownInv` says that
  tasks are dropped from a closed channel only. `OwnedStep` follows a task
  through the queue: a step loses its owner by ending the task or by that drop.
* `SingleFlightImplemented`: the refinement of `SingleFlight`. The mapping names
  the worker of a thumbnail with `CHOOSE`; `Generators` shows from the
  distinctness of the tasks that there is one to choose from. Then every step is
  an abstract claim, start, release or restart, or leaves claims and workers as
  they are (`FlightStutter`).

**`ThumbnailsProofs`**, about the contents. `CreateEffect`, `FillEffect` and
`RemoveEffect` say once what a write does to the file at every path, from
`FileInv`; the invariants follow action by action.

* `NothingTornLeft`: `NoTornLeftBehind`. A torn file stays in the hands of the
  writer that tore it, because nobody else writes to that path, until it is
  complete or removed; or its removal fails, and it is in `unremoved`.
* `NothingDamaged`: `NoDamagedThumbnail` needs `WorkInHand`: what vips reads is
  complete, or the preview of a RAW image, whose size the program cannot check.
* `OriginalsStay`: `WholeOriginalStays` for runs in which a file that exists can
  be opened, as in the run that checks it. It needs `OnlyMissing`: lookup and
  download are under one lock, so at the download the file is still missing.
  Without the hypothesis it is false: `openImage` takes a file it cannot open for
  one that is not there.

**`DirCacheProofs`**, for any number of calls and directories, any TTLs:
`OneRequestPerDir`, `ListingsNeverGoBack`, `NeverStaleWhenDisabled` and
`HiddenForTTL` from `ListingsInv`: the types; the critical section belongs to
the mutex's owner (`LockInv`); nothing known is newer than the directory, what
is stored under a free mutex is the newest answer, and a call is never below
what it has to beat (`OrderInv`, `AboveCurrent`); a stored copy expires within a
TTL of the moment it began to be wrong (`TimeInv`). `HiddenForTTL` is an action
property.

**`DirCacheProofs`**, about `FileAccess`: `ListingsHoldWhileReading` carries all of that over to
the composition, because its specification implies that of `DirCache`
(`ListingsUnderneath`). `DeliveredAsListed` is `ReadAsListed`: a reader has only
checked pieces in hand (`ReaderInv`), a listing does not change once a call has
returned it (`DoneStays`), and the two checks of a response tell any two versions
apart (`VersionDetermined`).

**`SearchServiceProofs`**, for any number of handlers, tries, restarts and days:

* `TypeCorrect`, with `RefreshInv`: what the position of a refresh says about the
  index and the file it has in hand.
* `BackgroundNeverPanics` and `ShutdownIsQuiet` from `ServiceInv`: there is an
  index from the moment a refresh of `Start` has succeeded, and a `Shutdown` that
  returned nil has seen `stoppedCh` closed.
* `DiskFollowsMemory`: `DiskMatchesMemoryAlone` speaks of the moments between
  refreshes; `AloneInv` says what is true in the middle of one (the file is torn
  while it is written and is the refresh's index before that is published, and
  `Start` has not loaded an older file) as long as no two have overlapped.

**`CacheCleanerProofs`**, for any files, sizes, ages and limit:

* `OldestGoFirst`: `RemovesOldestExcess`, an action property. While nothing
  disturbs a round, what Walk has found and has still to visit are the files on
  disk (`WalkInv`), and later those on disk are the rest of the sorted list, of
  which the victims are the next ones (`RemoveInv`). `Listing` (in `ListProofs`)
  shows with the pigeonhole principle that the list has every file once,
  `IndexProperties` with the well-ordering of the numbers that before the loop's break the rest is not
  below the limit. The sums themselves are never computed: the loop's comparison
  and the property speak of the same sum.
* `CleanerStops`: `QuietAfterShutdown`, an action property, from `EndInv`.
* `TypeCorrect`, with the list of `removeFiles` never empty in the loop.

**`LifecycleProofs`**: `RcloneNeverOutlivesMain` from `OrphanInv` (a running
process has a `Start` that waits for it, main exits after all of those, and a
signal kills rview only before it has started rclone or after a component has
failed),
`RequestsEndFirst` from `RequestsInv` (the web server is told first, and past it
there are no requests or its shutdown has failed), `ShutdownNeverPanics`, and
`TypeCorrect` with `WaitInv`, for any number of requests.

**`WebServerProofs`**, for every remote, request and configuration. The `ASSUME`s
(`CasesAssumption`, `NumberAssumption`, `PrefixAssumption`, the one on `MaxInt`)
say that the configuration is one the flags allow, that the remote is a finite
tree of entries with non-empty names without slashes and known sizes, that a
directory is asked for by such names, that a
search is text and its limit a number or not parsable, and that the shortest
prefix is not longer than the longest. `ExtsAssumption` and `SuffixAssumption` in
`Previews` say of the literals of the code what the provers, which do not look into
strings, cannot see (an extension begins with its only dot, in lower case); they have
no free constants, so TLC's evaluation settles them.

`WebInvariant` is the inductive invariant: a page of a directory is one of the
sorted listings of that directory with its breadcrumbs (`DirPageInv`), the results
of a search are what the index found for the request, and come from entries of
the remote (`HitsInv`, `SearchPageInv`), and a promise is about a directory or
file that exists, unless its link is `Misled` (`LinkInv`).

* `LinksLeadWhereTheySay`: `LinksLead`. The index keeps paths as text, and the
  handler takes the text apart again; `ElementsOfText` shows that this gives back
  the names of the path, by following both from left to right (`Grows`, `Reads`).
  Names without a percent sign are joined as they are (`JoinsAlike`), and so are
  the names of the directories above (`NoPercentAbove`). On the page of a missing
  directory at the first level, as on that of search results, nothing is left of
  the URL one step up (`CrumbIsList`), and that is Home. The theorem excepts what
  `Misled` describes, and nothing else.
* `OfferedIsServed`: `OfferedOpens`. What a page offers is a file of the remote
  with its time and size, and the extension of a thumbnail is its image's or the
  one that was appended (`ExtOfThumbnail`).
* `ThumbnailsOfTwins`: `OnlyTwinsShare`. A suffix and an extension can be taken
  off again, so images with one thumbnail have one name or are twins.
* `ListingsAreNatural`, `ListingsAreDetermined`: the recursive comparison of two
  comparable names decides as the order on tokens does (`NamesDecide` in
  `OrderProofs`). If they have no respelled number, they are read up to their first
  difference, and it lies in one token of each (`Judged`). If they have one, the
  scan still stops at the beginning of the same token in both (`Walked`): it goes
  on to a number that differs (`LaterNumbersDecide`) or to both ends
  (`LengthDecides`). The order on tokens is transitive and total up to the
  reading of names, so a list whose neighbours are in order is in order, and two
  such lists of the same entries have names with one reading at every place, again
  by the pigeonhole principle.
* `SearchesFindExactly`, `BestComeFirst`, under the hypothesis `Meant`: the terms
  describe what is read from the search, and a path is that of one entry (rclone
  has remotes with duplicates, and a hit does not tell those apart). The
  argument has four parts. Splitting a path into words and then into prefixes
  yields the texts that begin a word of it, and nothing else (`WordsExact`,
  `PrefixesExact`, with the invariant `Reading` of the scan). The words of a
  search are normalised in the same way whatever it looks like (`RequestWords`).
  The score of a match, a number of prefixes, and its likeness, a length, differ
  by the same number for all matches (`ScoreIsLikeness`), so they rank alike.
  Compaction looks at the last kept hit only; in the order of the sort everything
  under a directory follows it without a gap (`Between`), so what is left are the
  hits that no other hit absorbs (`CompactionExact`), and absorbing is lying
  under a directory with the same score (`UnderBegins`, `BeginsUnder`). The cut
  after the second sort keeps the best (`CutExact`). `MCWebServer` states both
  parts of `Meant` for the searches and remotes of its instance
  (`SearchesAreRead`, `RemotesAreSimple`), where TLC evaluates them.

**How data is reasoned about.** The provers cannot instantiate an induction
theorem that has an operator for a parameter. `Induction` in `ListProofs` takes the
set of the numbers that have the property instead, and `Recursion` and
`TypedRecursion` the step as a function, so that what a recursive function of the
model computes can be shown to exist and followed from left to right. The
functions in the modules with theorems are written for that, without `RECURSIVE`.

**Checked by TLC only**:

* Everything temporal under fairness (`CallsEnd`, `ShutdownEnds`, `StartEnds`,
  `OldIndexReplaced`, `LimitReached`, `CleanupEnds`, `Exits`, `FailureExits`):
  the prover does neither fairness nor `ENABLED`.
* That the scanner of searches reads quotes, signs and blanks as they are meant
  (`SearchesAreRead`): the terms a text was written from are a matter of the
  instance.
* The four properties that do not hold.

## 5. What is not modelled

* Templates, JavaScript, static files, metrics, the logging middleware: they
  decide nothing the handlers depend on. Redirects and routes are left to the
  mux.
* The configuration is a function of the command line; what it yields appears as
  constants, or as the choice of an initial state. `pkg/cache/in_memory.go` is
  used by tests only.
* Text beyond ASCII: lower case and normal forms of other scripts. URLs are
  the names they stand for, as `JoinPath` leaves them; that an escaped slash or
  escaped dots (`%2F`, `%2E%2E`) would change the number of names is left out, and
  so is the escaping of `GetEscapedPath`, which `JoinPath` undoes.
* The bytes that flow: contents of images and of responses.
* `WebServer` has one request at a time and a remote that does not change;
  what changes and what runs concurrently is in the other modules.
* The cleaner's choice is not composed with the workers: `Thumbnails` lets it
  take any file at any time, and `CacheCleaner` lets the workers write and remove
  any file at any time, so that each over-approximates the other.

## 6. What is left

* The two over-approximations of section 5 as a composition of `Thumbnails` with
  `CacheCleaner`.
* The scanner of searches against a grammar of the searches one can write, for
  text of any length.
* Text beyond ASCII in `Text`, and with it the normal form of names.
