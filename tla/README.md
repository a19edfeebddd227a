# YumQuest 2.0: TLA+ models, model checking and proofs

YumQuest is an iOS app (`src/YumQuest/YumQuest`, Swift). It lists the food
venues near the phone (Foursquare), shows a venue's menu, and lets a user who
has logged in with Facebook rate and review a menu item; reviews live in a
Firebase Realtime Database, their images in Firebase Storage. There is no server
code of its own: everything that must be right when several people review the
same item is decided by the order in which the phones read and write one node of
that database.

The repository also carries, as source, two libraries its database client is
built on: LevelDB 1.20 (`src/YumQuest/Pods/leveldb-library`), the storage engine,
and nanopb (`src/YumQuest/Pods/nanopb`), a codec for protocol buffers. The app does not
turn on disk persistence, so today they run below it without holding its reviews;
but they are most of the C code in the tree, and the part with threads, files and crashes
in it. The development therefore has two halves: the app, and the storage engine
with the codec.

App file names below are relative to `src/YumQuest/YumQuest`, those of the engine to
`src/YumQuest/Pods/leveldb-library`.

## 1. Inventory

### The app

| component | state | operations | talks to | what makes it correct |
|---|---|---|---|---|
| review form, `View/ReviewItemVC.swift` | the star control's value, `uniqueReviewID`, `firstReview`, the variables its callbacks share | `submitReview`, the whole-tree read's callback (two branches), three reads of totals with a callback each, the upload's completion, `prepare(for:)` | Firebase (reads, writes, storage), the item screen | every review stored once and whole; count, total and average account for each of them; no forced cast fails; an image ends at its review |
| item screen, `View/ItemDetailsVC.swift` | `dates`, `reviews`, `ratings`, `imageArray`, `firstReview`, the labels, the table | `viewDidLoad`, the item's listener, `reloadViewDidLoad`, `getImagesURLs`, `appendImage`, the table's data source | Firebase, the URL session, the review form | a row shows one review; the label shows the count; nothing traps on a node that is half written |
| venue requests, `Model/GetNearbyVenues.swift`, `API Structs/*.swift` | `venues`, `getDetailsOfVenueResponse`, `menu`, `hasMenu` | the search, one details request per venue, one menu request per venue that has a menu | the URL session's queue, the main queue (`DispatchQueue.main.sync`), the `.reload` notification | every answer ends in the object it is for |
| nearby screen, `View/NearbyLocationsVC.swift` | `nearbyVenues`, `venuesWithMenus`, `filter`, the table | location updates, `reloadTableData`, `filterTablePressed`, `cellForRowAt`, `prepare(for:)` | the requests, the details screen | the table and the list behind it agree; a row shows and opens the same venue |
| details screen, `View/RestaurantDetailsVC.swift` | the venue, the labels, the menu button | `viewDidLoad`, `prepare(for:)`, `getFormattedRating` | the requests' objects | it offers a menu that is there |
| menu screen, `View/MenuDetailsVC.swift`, `CollapsibleTableCell/*` | `menuSections` | `viewDidLoad`, `toggleSection`, `cellForRowAt` with two nested database reads, the "load" notification | Firebase, the item screen | a row shows its own item's rating |
| star control, session, map, sign-up form, cells | see `PROJECT.json` | | | not modelled, section 5 |

### The storage engine and the codec

| component | state | operations | what makes it correct |
|---|---|---|---|
| write path, `db/db_impl.cc` | `writers_`, `mem_`, `imm_`, the log, `bg_error_`, `bg_compaction_scheduled_` | `Write`, `MakeRoomForWrite`, `BuildBatchGroup`, `BackgroundCall`, the destructor | answers are true; synced means on disk; nobody waits for ever |
| levels, `db/version_set.cc`, `db/db_impl.cc` | the files of each level, `compact_pointer_`, `file_to_compact_`, snapshots, the manual request | picking, merging and installing compactions, `Get`, `GetSnapshot` | a read returns what its snapshot saw; compactions end |
| recovery, `db/db_impl.cc`, `db/version_set.cc`, `db/filename.cc` | logs, tables, manifests, `CURRENT`; the counters of `VersionSet` | `DB::Open`, `LogAndApply`, `DeleteObsoleteFiles`, flush and merge, and the end of process or machine between any two | a synced write survives; nothing in use is deleted or overwritten |
| repair, `db/repair.cc` | the same files | `RepairDB` | it gives back every synced write |
| log format, `db/log_writer.cc`, `db/log_reader.cc` | a file of blocks | `AddRecord`, `ReadRecord` | what is read was written; damage stays in its block |
| tables, `table/*.cc`, `util/bloom.cc`, `util/comparator.cc` | blocks, index, filters | `TableBuilder`, `InternalGet`, `Block::Iter` | a key that was added is found |
| iterators, `db/db_iter.cc`, `table/merger.cc`, `table/two_level_iterator.cc` | positions and directions of three layers | the `Iterator` interface | the entry shown is the one the calls lead to, in the snapshot |
| table cache, `util/cache.cc`, `db/table_cache.cc` | handles, two lists, a hash table | lookup, insert, release, erase, prune | handles live as long as their users |
| skip list, `db/skiplist.h` | nodes and links | `Insert`, searches without a lock | a reader misses nothing that was there |
| environment, `util/env_posix.cc` | the lock table, the limits, the background queue | `LockFile`, `UnlockFile`, `NewRandomAccessFile`, `Schedule` | one holder of the lock; limits hold; work is run |
| nanopb, `pb_encode.c`, `pb_decode.c`, `pb_common.c` | the stream, the struct | `pb_encode`, `pb_decode` | a message comes back; a cut one fails or gives whole fields |

What is hard here:

* **Two kinds of queues** in the app. Firebase callbacks run on the main queue one at a
  time, but between a read and the callback that acts on it anything else may
  run, on this phone and on others. URL completions run on the session's queue
  and wait for the main queue.
* **Many writes for one act.** A review is seven to nine writes and four reads,
  no transaction, no `updateChildValues`. Other phones see each write by itself;
  a kill or a lost connection can fall between any two.
* **Reads that change what they mean** by the time they are used:
  `uniqueReviewID` when an upload ends, the totals when the average is computed,
  a list under a table that still has its rows.
* **A mutex that is given up in the middle**: `Write` logs without it, a merge runs
  without it, `LogAndApply` syncs without it.
* **A disk that keeps less than was written**, and processes that stop between any
  two calls to it.
* **Readers without a lock**, beside one writer.

The full list, line by line, is `hazards` in `PROJECT.json`.

## 2. Modules

| module | models |
|---|---|
| `RatingLedger` | abstract: ratings are submitted, the published average covers them in order, each once |
| `ReviewSubmission` | `submitReview` with all its callbacks and `uploadImage`'s completion, on several phones, over Firebase's queues, with kills and reconnections |
| `ReviewSubmissionProofs`, `SharedTotalsProofs` | theorems about it, in six parts and two more about totals that several devices write |
| `ItemDetailsScreen` | all instances of the item screen on one phone, with the way back from the form |
| `VenueRequests` | Foursquare requests, their completions and the blocks they wait for |
| `NearbyVenues` | the nearby screen, and the details and menu screens as far as they depend on the requests (EXTENDS `VenueRequests`) |
| `NearbyVenuesProofs` | theorems about it |
| `WriteQueue` | `DBImpl::Write` on several threads, the memtables, the background thread, failures, the destructor |
| `LevelFiles` | pure functions on the files of the levels: overlap, picking, reading, the inputs of a compaction |
| `LevelCompaction` | memtable, flushes, all kinds of compactions, snapshots and reads (EXTENDS `LevelFiles`) |
| `WritePath` | both of these and `WriteQueue` in one specification (EXTENDS `WriteQueue`) |
| `DurableStore` | abstract: what an opened database shows, what a crash may take |
| `Recovery` | the files of a database and `DB::Open`, with every way to stop |
| `Repair` | `RepairDB` on the same files (EXTENDS `Recovery`) |
| `RecoveryInvariant`, `RecoveryProofs` | the inductive invariant of these files, and theorems about both modules |
| `LogFile` | writer and reader of the log format, byte by byte |
| `TableFile` | builder, index, filters and block iterator of a table |
| `Iterators` | `DBIter` over `MergingIterator` over a memtable and a `TwoLevelIterator` |
| `TableCache` | one shard of the LRU cache with the table cache's threads |
| `SkipList` | the memtable's list, link by link |
| `FileLock` | `LockFile` and `UnlockFile` over the kernel's record locks |
| `PosixEnv` | the limits of `NewRandomAccessFile` and the background queue |
| `Protobuf` | `pb_encode` and `pb_decode` |
| `WritePathProofs` | theorems about the queue of writers, what `Write` answers, and the levels |
| `StoragePartsProofs` | theorems about the list, the lock, the background thread with the limits, and the table cache |
| `ItemDetailsProofs` | theorems about the item's screen |
| `NaturalsBySets` | induction over the naturals with a set for the property, and recursion on `0 .. n`, for the proofs |
| `MC*` | what TLC instantiates: constants a `.cfg` cannot write, and the compositions below |

How the components meet: `WriteQueue` counts the files of level 0 that
`LevelCompaction` has in full, and `LevelCompaction` has writes that succeed;
`Recovery` has one writer and one flush and merge at a time, and in return every file;
`LogFile`, `TableFile`, `Iterators`, `TableCache`, `SkipList` and `FileLock` are what the
others take for granted. None of these models is the whole engine: each
has in detail what its properties are about.

### ReviewSubmission

One item, any number of phones (`Devices`), each with a signed-in user.

*State.* `server` is the item's node; a path is `<<"count", 0>>`,
`<<"totalRatings", 0>>`, `<<"averageRating", 0>>` or `<<field, n>>` for the review
node the n-th submission creates with `childByAutoId`. Numbers are fractions, so
that an average keeps the total and the count it is the quotient of. Per phone:
`view` (the node as the Firebase client shows it), `requests` (calls into Firebase
not yet taken up), `asked` (whole-tree reads sent), `pend` and `sent` (writes not
acknowledged, and how many of them the server has), `events` (callbacks that wait
for the main queue), `form` and `status`. Per submission: the rating captured at
the press, `newCount` and `newTotal` (the variables the three callbacks share),
`upload`; per form `uniqueReviewID`.

*Actions.* `SubmitPressed` is `submitReview` up to the read it waits for
(lines 78-97); `ItemExists` and `ItemMissing` are the two branches (99-152,
153-195) whole; `CountArrived`, `TotalArrived`, `AverageArrived` are the nested
callbacks (105-121), `CastFails` their `as!`; `UploadFinished` the completion
(138-149, 178-191, 208-217; in a release build, where `assertionFailure` does
nothing). `Kill` and `Relaunch` are the process. The rest is Firebase, external:

* calls are taken up one by one, in order (`AskServer`, `ServeRead`, `IssueWrite`);
* `setValue` shows at once in the client's view and goes to the server in order
  (`IssueWrite`, `ServerApply`); acknowledgements and other phones' writes arrive
  later (`Sync`);
* a single-event read under a location that is observed is answered from the view:
  the form is only reached from the item screen, whose listener is never removed.
  The first read, of the whole `ItemRatingReviews` tree, is a round trip, ordered
  with the writes on the same connection (`AskServer`, `AnswerAsk`, `behind`);
* after a reconnection the client sends its listens and then every
  unacknowledged write again (`Reconnect`);
* the app does not enable disk persistence: a kill loses what was not sent.

*Left out*: the text field, the date's format, the image picker, a user who is not
signed in (session), reads that fail for lack of permission.

### RatingLedger and the refinement

`ReviewSubmission!Ledger` instantiates `RatingLedger` with the list of ratings
pressed as the log, the published average as it is, and the number it divides by
as the count of covered ratings. `ImplementsLedger` says that every average that
is ever published is that of a prefix of the log, one rating longer than the last,
and that it gets to the end.

### ItemDetailsScreen

One item, one phone, `Screens` instances of `ItemDetailsVC` of which `top` is on
display. `view` is the node as this phone's client shows it: the count, whether an
average is there, and which fields each review has. Reviews are numbered in the
order of their keys. `dates` is not a variable of its own: every line that
changes `reviews` changes it alike. Entries of `reviews`, `ratings` and
`imageArray` are the review they came from, so a row that mixes two reviews shows.

`OpenItem` is `viewDidLoad` with `getImagesURLs` and `reloadViewDidLoad`;
`FormAnswered` is `submitReview`'s callback with the `prepare(for:)` that
`performSegue` calls in its middle (`Unwind`), including the reload on the item
screen; `ListenerFired`, `ReviewsAnswered`, `ImagesAnswered`, `ImageAppended` are
the callbacks, `DownloadFinished` the completion on the session's queue.
`RowDisplayed` is a cell that scrolls into view while the arrays are shorter than
the table. Others' reviews arrive write by write (`RemoteSubmits`,
`RemoteArrives`). How totals get lost between phones is not repeated here; one form
is submitted once, and is not left while it waits.

### VenueRequests and NearbyVenues

`VenueRequests` has the URL tasks, and the one block a completion handler can be
waiting for: handlers run one at a time and end in `DispatchQueue.main.sync`.
`SearchAnswered`, `DetailsAnswered` and `MenuAnswered` are the three completion
handlers, `PublishBlock` and `ReloadBlock` the main queue running the block,
`TaskFails` the early returns that change nothing. `DetailsRefused` is the one that does: details
are assigned before their status is looked at (`DetailFoodVenue.swift:84`, `:88`), so an
error status leaves them behind with no menu asked for and no `.reload` posted. A
row can then show another venue until something else reloads the table, and if nothing does the venue
is never shown. The history variable `silent` holds these objects until the next `.reload`;
`RowsShowTheirVenues` and `DetailsAreShown` leave them out until then. `hasMenu` is what the menu's
answer says (`nil` when it lists no menus), not what the details say.

`NearbyVenues` adds the table: `rows` is what each cell shows since the last
`reloadData`, `Nil` a fresh cell; a cell of a venue without details is returned as
it was dequeued, so it may show any venue a row showed before (`CellsFor`).
`LocationDelivered` replaces the helper, `FilterPressed` is `filterTablePressed`
with its reload, `RowDisplayed` and `RowSelected` index the list behind the table.
`RowSelected` also is `RestaurantDetailsVC.viewDidLoad` (is the menu offered?),
`MenuPressed` is `MenuDetailsVC.viewDidLoad` (unwrap the menu).

### WriteQueue

An action is what a thread does between taking the mutex and giving it up, or one call
to the file system in between. `Call` joins `writers_`; the front thread runs
`MakeRoomForWrite` (`RoomError`, `RoomSleep`, `RoomFound`, `RoomStall`, `RoomSwitch`, one
per branch), then `LogRecord` for the group `BuildBatchGroup` makes (`GroupSize`), `SyncLog`,
`Insert` and `Publish`, and `Finish` answers the group and signals the next. `Wake` is a
condition variable: it wakes only who waits when it is signalled. The background thread
flushes (`Flush`, also in the middle of a merge, `FlushInMerge`) or merges (`Merge`), and
schedules itself again (`BackgroundEnds`). One call of the file system fails somewhere.
`Close` and `Closed` are the destructor.

### LevelFiles and LevelCompaction

A file is its number and its entries, an entry is `[key, seq, type]`.
The functions of `LevelFiles` carry the names of `version_set.cc`. `Compact` starts what
`PickCompaction` or `CompactRange` yields, `FinishCompaction` installs what the merge loop
(`Outputs`, `MergeEntry`, `Dropped`) leaves; writes, snapshots and the flush the loop
itself makes fall in between. Sizes are numbers of entries.
A level is a set of files; where the code's vector matters, for its binary search
(`FindFile`), `Position` and `At` say where a file is in it.
Two ghosts: `straddled` remembers whether a level has ever held one key in two files: from then on the
code's order of the levels can break: inputs are chosen by file, and end
between two entries of one user key; the newer one moves down past the older. `ReadsSeeSnapshot`
and `LevelsInOrder` are stated for databases in which this has not happened. `late` remembers a merge
that installed its outputs in a level that had got another file since it began, the one way in
which files of a level come to overlap (`OverlapsAreLate`; `flush_into_merge` shows it happen).
`NeededIsKept` has neither condition: the value a live snapshot or a read of now asks
for is never lost.

### Recovery, Repair and DurableStore

A file is `[records, synced, end]`. What is left of it after the machine stops is a prefix
that has the synced records, or, where the setup says so, with a torn record at its end
(`Remains`). Names in the directory survive in the order they were made. `setup` has the
options and the file system: when the machine may stop (never; once the first manifest is
synced; always), whether a crash or a failing append leaves part of a record, whether a
manifest goes bad. `Open`, `NewDB`, `WriteTemp`, `RenameTemp`, `ReadManifest`, `ReplayLog`,
`CreateLog` are `DB::Open`; `AppendEdit`, `SyncManifest`, `Install` are `LogAndApply`;
`DeleteObsoleteFile` takes one file; `ProcessEnds` and `MachineCrash` come between any two
steps. `Repair` adds `RepairDB` from a database that does not open.

`DurableStore` has three sets: what an open would find, what has been acknowledged since
the last machine crash, what was synced. `Recovery!Store` maps the first to `Recovered`,
the batches the files as they are would give back. `ImplementsStore` says every step of the
engine, crashes included, is a step of the store or none.

### The parts

* `LogFile`: blocks of a few bytes; a byte carries which record and which place in it it is,
  so any joining of pieces shows. Faults are a writer that dies and a successor that goes on
  in the same file, an append that fails, a byte that rots.
* `TableFile`: `Add` and `Finish` with `Flushed`, `StartBlock`, `FindShortestSeparator`;
  `InternalGet` through index, filter and block; `Block::Iter` as a record that `Move`
  moves. Bloom bits are a hash of the model's own.
* `Iterators`: a history of writes is split between memtable and files in every way; the
  caller calls in any order; `expected` is what the snapshot says it must see.
* `TableCache`: `cache` is the state behind the shard's mutex, every public operation one
  action; opening the file is outside it.
* `SkipList`: a store of a link is a step, a load of a link is a step; `max_height_` may be
  read late.
* `FileLock`: openers have home processes, a lock belongs to a process and goes when the
  process closes any descriptor of the file.
* `PosixEnv`: `Try` is the unlocked test of `Limiter::Acquire`, the rest is under its lock.
* `Protobuf`: words of 10 bits, payload bytes of 3; encoded, then cut, joined, or given
  unknown fields, then decoded.

## 3. Runs

Twelve configurations. A passing run often has several models side by side: the initial
state picks one (`situation` or `part`), and what a situation has no use for stays as it is. One
model of each suite has its own variables, because its module is extended: `ReviewSubmission` in
`app` (*solo*), `NearbyVenues` in `screens`, `Repair` in `recovery`,
`SkipList` in `storage_parts`; in `write_path` both have. For the variables of the others there are registers `x1`, `y1`, `z1`,
`q1` and so on. A property of an extended module is checked under its own name, so that the theorem about
it in section 4 is about the same formula; the others start with the situation they are about.

| run | asks | result |
|---|---|---|
| `app` | five situations. *solo*: one phone, unreviewed item, uploads succeed or fail, one reconnection. *killed*: one phone, reviewed item, one kill and two reconnections. *duo*: two phones, reviewed item, a kill and a reconnection. *half*: the same on an unreviewed item. *item*: the item's screen opened twice, own and others' reviews | types; no trap; totals exact when quiet; image at its review; averages on the scale on one phone, with two or a kill still of stars and reviews that are stored; no division by zero; a kill loses at most one count, and one more with each lost connection after the first; what is counted is stored; stored reviews never overwritten; what the screen reads is whole and what it shows, right |
| `screens` | *nearby*: two locations at any moment, answers in any order or failing, filter pressed twice. *reviews*: one phone, three reviews. Both fair | the table agrees with its list, settled rows show their venue, details get shown (those with an error status from the next reload on); the average implements `RatingLedger`; every review gets stored |
| `write_path` | *queue*: three threads write once each, a large put, a small synced put or a null batch, one failing call, a close. *levels*: three writes to two keys, a snapshot, a manual compaction, a charged seek, four levels | answers are true, the queue is attended, no success after a failed sync, writes return; reads see their snapshot, levels are in order, compactions come to rest |
| `recovery` | two writes, three opens, a merge, a failing call, the process or the machine stopping anywhere, four setups | synced writes are kept, what is shown is what is recovered, nothing in use is reused; `DurableStore` is implemented; a repair gives back every synced write |
| `storage_parts` | log, table, cache, list, iterator, lock, environment, messages, each with its bounds in `MCStorageParts` | each part's promise; searches, calls and scheduled work end |
| `lost_update` | two phones, reviewed item | **violated**: two presses, one increment |
| `first_review_duo` | two phones, unreviewed item | **violated**: the second phone takes a half-written item to exist and its cast fails |
| `shifted_ratings` | reload after a review | **violated**: rows show another review's rating |
| `nearby_two_locations` | a second location over a table with rows | **violated**: a tap on a row whose list is gone |
| `file_lock` | three openers in two processes | **violated**: two processes hold the lock of one database |
| `flush_into_merge` | a manual compaction whose merge flushes a memtable, four levels | **violated**: two files of a level overlap, where the code aborts |
| `torn_append` | a failing append leaves part of a record | **violated**: a synced, acknowledged write is not found by the next open |

The seven violated runs each quote, in `findings`, the comment, the documentation or the
forced cast they contradict. They are kept as regression tests: a change of the code that
repairs one should make its run pass.

Every property of a passing run is backed by at least one mutant, most by one for each of
its parts: a definition changed the way a plausible bug would, with which TLC finds the property
violated. The mutated operators stand before the definition they belong to, marked "Mutant".

### Findings beyond the runs

* *Entries hop across levels.* `Version::Get` relies on "entries never hop across levels"
  (`db/version_set.cc:346`). A merge that keeps an older entry for a snapshot may close its
  output between two entries of one user key, and the next compaction of that level takes
  one of the two files (`SetupOtherInputs`, `:1358`): the newer entry moves past the older,
  and a read finds the older. `LevelCompaction!SmallerLevelsAreNewer` states the comment; with
  one key, two writes, a snapshot and a manual compaction TLC violates it within a second, in
  the twelfth state. `write_path` reaches such states; `straddled` tells them apart.
* *A crash while a database is created.* `NewDB` closes its manifest without a sync before
  `CURRENT` names it. In a file system that keeps the rename and loses the manifest's end
  the database does not open again (`Recovery!OpensAgain`); nothing acknowledged is lost.
  The setups with torn records therefore let the machine stop only once the first manifest is synced.
* *Reused manifests.* With `reuse_logs` an open goes on with the manifest as it finds it. If the process
  has ended between the append of a flush's edit and its sync, the next open believes the edit,
  syncs nothing (`save_manifest` stays false, `db/db_impl.cc:1515`) and removes the flushed log. A
  machine that stops then takes the edit back, and the synced write is in no file that counts. With
  `reuse` and `crash = "created"` TLC violates `SyncedWritesAreKept` in the 28th state. The
  option is off by default; `Recovery`'s setups have it on a machine that does not stop.
* *A repair of nothing.* `RepairDB` of a database without logs and tables records 1 as the next file
  number in manifest 1 (`db/repair.cc:116`); the next open gives its new manifest that number
  and truncates the file that CURRENT names. There is nothing to lose then (`Harmless` in `RecoveryInvariant`).
* *A torn average.* "Set new average" (`View/ReviewItemVC.swift:116`) of ratings on a "1 - 5 scale" (`:79`):
  count and total come from two reads, and another phone's count and total can reach the local view
  between them. On the instance of `lost_update` TLC violates `AverageOnScale` as well; `AveragesAreOfReviews` says what is left.
* *Two phones are not needed* for an average above the scale: a kill between the writes of a
  submission and a reconnection later do it on one (`Killed!AverageOnScale` in `MCApp`).
* *One kill, two counts lost.* After a reconnection the reads of the next submission are answered from
  the client's view while the old writes are still being sent again (`ReviewSubmission!AnswerAsk`). With a second
  lost connection an older count is sent again after a newer one has been applied, and
  an app that is killed there leaves the older: two stored reviews are not counted. `KillsLoseFewCounts` is the
  bound TLC finds: nothing without a kill, then one for each kill and one for each
  lost connection after the first.
* `UnlockFile` leaves the process's table before it closes the descriptor (`util/env_posix.cc:492`): an
  opener of the same process that gets in between loses its lock to that close. `FileLock`
  has it; `file_lock` shows the shorter way into the same state.
* nanopb's test for required fields shifts by 32 when their number is a multiple of 32
  (`pb_decode.c:947`); a oneof whose message field comes twice is replaced, not merged.

### Bounds

* `MaxSubmissions` is 2 (3 in *killed* and *reviews*): everything known to go wrong between
  submissions needs two. `MaxTaps` is 1: Submit is not disabled, and two presses in one form
  are two submissions that share `uniqueReviewID`; the constant lets both be explored.
* `MaxKills`, `MaxReconnects` at most 1, placed at every point of every behaviour; *killed* has two
  reconnections, the fewest with which one kill loses two counts.
* `ReviewFields` follows some of date, review and rating; *solo* follows all three. The
  property about counted reviews needs the last write, the one about overwriting one whose
  value tells submissions apart. `Ratings`: 5 alone where the scale's end matters, two
  values where sums must tell reviews apart.
* Devices are interchangeable and declared symmetric in `app`, which has no liveness.
* *item*: two instances of the screen, one review of the user's, one of someone else that sorts
  before it. *nearby*: two venues in the list, two helpers, two presses of the filter, `Refusals = {"menu"}`: details with an error status say there is a menu, the worse case.
* *queue*: room for one batch in the memtable and two files in level 0, so that every stall
  happens; three threads, so that a group has a follower and someone arrives behind it.
* *levels*: files of one entry, level 1 of two, so that three writes reach level 2; two in
  level 0 start a compaction. Two keys leave no gap for the flush of `flush_into_merge`, which has
  three, wide files, and the code's `kMaxMemCompactLevel`. That level 0 has at most `L0Stop` files (in
`AllTypesOK`) is about a database that began empty: what a recovery adds is in `Recovery`.
* `recovery`: two writes, one in a table and one in a log; three opens, so that a recovery
  can be interrupted and its result be recovered from; one failure anywhere.
* `storage_parts`: blocks of 5 bytes with headers of 2, so that three records fill, leave
  and straddle blocks; keys that are prefixes of each other or end in the last byte value;
  a cache with room for one table and three threads; three nodes of two levels; one mapping
  and one descriptor for three users; numbers at both ends of their ranges.

`CHECK_DEADLOCK FALSE` throughout: users may stop pressing and callers calling, and a bound
reached leaves nothing to do.

### Fairness

*reviews*: weak fairness of the main queue, of uploads (they succeed or fail), of Firebase's
client queue and of the connection, server and acknowledgements. *nearby*: of the URL tasks
(a task completes, fails or times out) and of the two blocks on the main queue. Nothing is
fair that a user does (pressing, relaunching) or that is a fault (kill, reconnection).
*queue*: of every thread inside a call and of the background thread: the scheduler runs
them. *levels*: of the background thread and of the waiting loop of `TEST_CompactRange`. The
others: of a search, a call or the background queue that has begun. Weak is enough
everywhere: a queue that is not empty stays so until it is served, and a mutex is held by
nobody between two actions.
Where a formula has `[]<>~CanRun \/ []<><<Step>>`, that is weak fairness with ENABLED written out,
which TLC evaluates much faster; `CanRun`, `BackgroundCanRun`, `WorkToDo`, `TasksRun` and
`BlockWaits` stand beside the actions they belong to.

## 4. Proofs

Eight modules have theorems, checked by TLAPS for every value of the constants under the
assumptions named here. The pattern is the same everywhere: an inductive invariant that
implies the property, one lemma per action (or per group of actions that change the same
variables), lemmas about the operators on sequences, functions and sums, and a last step
that puts them together.

### `ReviewSubmissionProofs`

Assumed of the constants: natural bounds, ratings in `0 .. 5`, a seed total that so many
ratings can have (`SeedTotal <= 5 * SeedCount`), an `Absent` that is no value. Six parts.

1. `TypeCorrect`: `Spec => []TypeOK`, and `KeyForEveryUpload`: `Spec => []UploadsHaveKey`. The
   sets the queues range over depend on the submissions made so far, so the first also says
   that no read, answer or callback belongs to a submission that does not exist; the second,
   that the forced unwrap of `uniqueReviewID` never fails. The two are one induction: the
   upload's completion is well-typed only if the controller has a key, and that a key is
   one needs the types.
2. `ReviewedItemNeverTraps`: if the item has a review, `Spec => []NoTrap`, with any number of
   phones, presses, kills and reconnections. `TrapInv` adds that the three totals are present on
   the server and in every view (`TotalsPresent`) and that every answer to a read of a total that
   waits for the main queue carries data (`ReadsPresent`). No write of the app deletes, so each
   action keeps it. For an unreviewed item the theorem is false (`first_review_duo`), which is
   why its hypothesis is there.
3. `StoredReviewsStay`: `Spec => ReviewsAreWriteOnce`, for any number of phones, presses, kills and
   reconnections; `ImagesStayWithTheirReviews`: `Spec => []ImageOnOwnReview` when a form takes one
   press. `OwnInv`: a write to a field of a review is of that review wherever it is (queue,
   unacknowledged, server, view), and a form's key is a submission of that form; with one press
   per form, its only one. With two presses an image can end at the other's review.
4. `AllReviewsCounted`: `Spec => []EveryReviewCounted` for one phone that is not killed, with one
   press per form: any number of reviews, uploads and lost connections, with or without earlier
   reviews. Each of the three hypotheses is needed: a second phone, a kill or a second press loses
   an increment (`lost_update` shows the first). `CountInv` is the
   conjunction of the types, `FormInv` (a form has one submission), `NetInv` (the view shows the last of the
   unacknowledged writes of a path; where none is to be applied, the server agrees) and, for
   some number `s` of totals written so far for the submission handled last, `ClientInv`: the
   reads of that submission that are not answered, and the next submission's question, stand in
   line (`InLine`: answers before the question on its way, that before requests); every answer
   and every read to come finds the total of the submissions before; and the view, with the
   writes requested on top, shows the first `s` totals with the submission and the others
   without it. The sums are those of `Sums`, about which `NaturalsBySets` proves what is needed.
5. `AveragesArePublishedInOrder`: `Spec => Ledger!Safety`, the refinement of `RatingLedger` without
   its fairness, under the hypotheses of the fourth part and with no lost connection: an average
   that is sent again is published after a later one, so the order does not survive one.
   `LedgerInv`, beside `CountInv`: the server's average is that of some first `c` submissions, and
   the averages among the writes not applied and then among the requests are those of `c + 1`,
   `c + 2`, ... up to the submission handled last, or to the one before while its read of the
   average is awaited. Then a press is `Submit`, the application of an average is `Publish`, and
   everything else is a stutter.
6. `OneDeviceStaysOnScale`: `Spec => []AverageOnScale`, under the hypotheses of the fourth part,
   any number of lost connections allowed. `AveragesIn(Scale)`, beside `CountInv`, says it of every
   average stored, requested or on its way to the server; the only average a device computes is
   that of `SeedCount + s` reviews and their ratings, which `CountInv` gives and whose sum is
   within the scale since each term is. A reconnection only sends again what was on the scale.

### `SharedTotalsProofs`

What holds of the totals under the same assumptions however many phones write them.

1. `NoAverageByZero`: `Spec => []AverageDefined` for all constants: any phones, presses and kills, an item
   with or without a review, half-written or not. The average's callback divides by a variable
   that the count's callback sets, so the order of the queues is what matters: `LineInv` says that a
   device's questions, reads and answers stand in line, and that before an answer to a read of the average
   there is the answer to the same submission's read of the count, unless it has come (`CountIsFirst`).
   `DefinedInv` adds that every average stored or on its way has a denominator that is not zero.
2. `CountedReviewsStayStored`: on an item with reviews, when ratings are among the fields the model
   follows, `Spec => []CountedReviewsAreStored` for any number of phones, presses, kills and
   reconnections: no published count or average ever includes a review whose rating is not stored. `BackedInv`
   bounds every count and every average's denominator, wherever it waits, by the number of
   ratings that are stored by then or go out ahead of it (`Backed`), and the counts read likewise
   (`ReadsAreBacked`); a submission still in question has issued no rating. A write that is sent again after a
   reconnection finds the ratings before it applied. On an unreviewed item it is false, and TLC shows it within
   seven states: a first review's totals go out before its fields.

### `ItemDetailsProofs`

Under `ItemAssumption`: the user's reviews and those of others are finitely many naturals above zero and disjoint, the
number of screens is natural, and `submitReview` writes at least one field. For any such reviews, screens and fields:

* `OwnReviewsStayWhole`, `OwnReviewsGetTheirRows`: `Spec => []` of `OwnReviewsAreWhole` and `OwnReviewsAreListed`. The
  requests are served first in, first out, so what an answer will show is known from its place: `Has`, `Some` and
  `All` say what the item will show when the request at a place is served. `WholeInv`: at the place of every read of the
  reviews, and in every answer, a review of the user's has all of its fields or none. `ListedInv`: a review
  written has its row on the screen on display, or an answer that brings it, or a read that will.
* `RatingsReachTheRows`: `Spec => []RatingsEndWithTheRows`, inductive as it stands.
* `ImagesAreShownOnce`: `Spec => []NoImageTwice`. `ImageInv` follows an image from the one fetch of a screen over its
  answer, its download and its block on the main queue to the screen: it is at one of these places, once, and an image
  that came from the form was in no answer, since a form is answered after the fetch (`FetchLine`, `ImageLine`).
* `LabelsComeToTheCount`: `Spec => []LabelsShowTheCount`. `LabelInv`: a listening screen shows the count, or its last
  event on the way tells it, or a change of the item is on the way. `ListenInv`: listeners are registered in the
  order of the screens.
* `FormsScreenAlwaysSurvives`: `Spec => []FormsScreenSurvives`. `FirstInv`: as long as nobody else has written, the item is
  half written only between the first review's two totals, and while it is, the screen on display is the one that
  wrote the review and is muted, or does not listen yet.

### `NearbyVenuesProofs`

Assumed: at least one helper, answers without repeated venues, a null value that is no list
and no object. `VenuesAreTyped`, `TableAgrees` and `RowsAreTheirVenues` (`Spec => []` of `TypeOK`,
`TableAgreesWithItsList`, `RowsShowTheirVenues`) are one induction, for any venues, answers,
locations and taps. `IInv` adds that every request is sent once and by what was answered before
it (`EachIsAskedOnce`: a list that is there stays, a helper not yet answered has left no trace),
that what the filter lists has its menu (`FilteredHaveMenus`), and that with one list the table
has no rows or one for each venue of it (`RowsFollowTheList`). The two properties speak of one location
where they must: with a second one they fail (`nearby_two_locations`).

### `WritePathProofs`

Under `WriteQueueAssumption`: natural bounds, `0 < L0Trigger <= L0Slowdown <= L0Stop`, requests of a
natural size, a null value that is none of the answers, errors and sets of batches.

* `StalledIsAttended`, `DestructorWaits` and, of both, `NobodyIsForgotten`: `Spec => []QueueIsAttended`.
  Two inductions. `QueueInv` is about the queue alone: types, every thread whose write is undecided
  is in the queue, and the thread at work is its first. From it `ScheduleInv`: an open store without
  an error that has work has it scheduled (`WorkIsScheduled`), a background call that runs is
  scheduled (`BackgroundIsScheduled`), and a thread at work means that the store is open
  (`ActiveIsOpen`). That a stalled thread is attended needs all three, since its own guard read
  the state before the others changed it.
* `FailedSyncIsFinal`: `Spec => QueueNothingAfterFailedSync`. A sync fails in the hands of the one
  writer (`SyncErrorEndsWriting`), so no group is under way that could still succeed.
* `WritesAreAnsweredTruly`: `Spec => []QueueAnswersAreTrue`, everything the run asks of the answers: an
  acknowledged write can be read and, if it asked for that, is on the disk; a failed one cannot
  be read; the log holds the batches in the order of arrival, under ascending sequence numbers
  that are not used twice. `WriteInv` has six conjuncts: the queue holds undecided writes, each once,
  and who writes does so for a group at its front (`GroupsInv`); a write yet to be called
  has left no trace (`TracesAreOfCalls`); what an undecided or decided write can be found in
  (`AnswersInv`); queue and log are in the order of arrival (`OrderInv`); the log ends in the
  group under way (`EndsInv`); what is synced (`SyncsInv`). Every action is first shown to be
  one of eight kinds of steps (`StepForm`), and each kind to keep each conjunct.
* `QueueIsWellTyped`: `Spec => []TypeOK`. All but one conjunct are bookkeeping; that level 0 stays within
  `L0Stop` is not: a memtable is switched below it only, and until its table is installed nothing
  else adds to level 0 (`RoomOfLevelZero`).

The levels, for any number of levels, keys, writes, snapshots, compactions of all kinds, and any limits,
under `StoreAssumption`: two levels at least, `MaxMemCompactLevel <= NumLevels - 2`, a
positive trigger and positive limits, keys that are positive naturals, and every sequence number in use
below `MaxSequenceNumber`.

* `ReadsAreRight`, `LevelsStayInOrder`, `StatesAreTyped`: `SuiteSpec => []` of `ReadsSeeSnapshot`,
  `LevelsAreInOrder`, `AllTypesOK`, the three safety properties `write_path` checks of the levels. One induction.
  `StoreInv` has, beside types: memtables are newer than tables and within level 0 newer files are newer
  (`TimeOrder`); while no level has straddled, files of a level are apart, smaller levels newer, and
  a merge under way is closed (`MergeIsClosed`: what stays in its upper level is newer, nothing else of its
  lower level shares a key, nor does what has come below it since); what a live snapshot asks for is held
  or is a deletion (`KeptOrDeleted`); and nothing older lies under a deletion that was dropped
  (`NothingUnderTheDropped`). None of these is inductive without the others: that a dropped deletion
  lets nothing come back rests on `IsBaseLevelForKey`, which looks at the version the merge began with, so
  `MergeIsClosed` has to carry it to the installation over all flushes and moves in between.
  The lemmas beneath say what the functions of `LevelFiles` return: the binary search the first file at or after
  its target in a level without overlaps (`FindFileFinds`), the growing range of level 0 all files it touches, in as many
  rounds as there are files (`GrowthEnds`), the best score a level with a file in it; and of the merge loop, entry by
  entry, that its outputs hold exactly what is neither shadowed nor dropped, in order and in
  no two files (`OutputsAreRight`).
* `SuiteIsAQueue`: `SuiteSpec => Spec`, so the theorems about the queue hold of what the run checks.
  The levels are an instance with a definition of `Cardinality` of its own; `CountsAreTheSame` relates the two.

### `RecoveryProofs`

Under `RecoveryAssumption` (natural bounds) and `NilAssumption` (the null value is none of the
records it stands for), and for setups that are all `Sound`: no failing append leaves part of a record,
and logs are reused only on a machine that does not stop. Both are needed: `torn_append` shows
the first, and *Reused manifests* above the second. The setups of the run are such
(`SafeIsSound`, which TLC evaluates), and every other file system and option of `Setup` is covered,
also those the run has no setup for.

`DatabaseIsConsistent` is `RepairSpec => []DbInv`, one induction over the 34 actions of `Recovery` and
`Repair`. `DbInv` is stated in `RecoveryInvariant`, in groups by what they speak of:

* the disk (`StoredInv`). The properties speak of what CURRENT's manifest says; that is not inductive,
  since a stop of the machine may cut the manifest off. So the invariant speaks of every
  report the manifest may give, cut off after any edit not synced (`Possible`): each names tables that
  are there and numbers not in use, and leads to the same batches and to all the synced
  ones (`Sensible`). Where CURRENT's manifest cannot be read, all that was synced is in files (`DiskInv`);
* a process that has read no manifest (`BeforeInv`): `NewDB`, a failed open, and a repair, whose
  tables come to hold all that is on the disk;
* one that has (`WorkInv`): its version is what the manifest says or, with an edit on its way, what it
  will say; no number in use is given again; an open manifest is CURRENT's and whole;
* a recovery under way (`OpeningInv`): the logs already read are the tables of the edit;
* an open database (`UpInv`): the memtables are what the logs hold, the table under construction is no
  one else's, and between two edits the manifest is synced. That a flush or a
  compaction may stop, fail or be overtaken in its middle is why the edit has a conjunct for each stage.

Before the proof TLC evaluated `DbInv` as an invariant (with finiteness for boundedness) on all sound setups
together, with two faults: 7.35 million states.

* `RecoveryTypeOK`, `SyncedWritesStay`, `ShownStaysRecovered`, `NothingIsEverReused`: `DbInv` implies the four
  invariants of the run (`InvariantGives`).
* `RepairsGiveBack`: the step that ends a repair finds every synced write (`PointCurrentStep`).
* `FilesImplementTheStore`: `RepairSpec => ImplementsStore`. `EveryStep` sorts the steps by what they do to what
  is found: one batch more (`Grows`), an acknowledgement (`Returns`), a loss of what was not synced
  (`Stops`), or nothing (`Stays`); each is a step of `DurableStore` or leaves it alone.

### `StoragePartsProofs`

The skip list, under `SkipListAssumption` (finitely many keys above zero, a height of at least one) and
`NilAssumption` (the null pointer is no node, no memory and no insertion):

* `ListsStaySorted`: `Spec => []ListsAreSorted`. Sortedness is not inductive: `ListInv` adds how
  far the insertion under way has come (`InsertionIsRight`: written up to its level, linked below
  it, its predecessors still the last nodes before the key), that a linked node is written at
  that level and every level below (`LinkedIsWritten`, `WrittenBelow`), that lists above the
  height in use are empty, and that the bottom list passes over no linked key (`NoGaps`). One
  lemma per action of the writer; that `prev` is right at a level is the one place where a
  greatest element is needed, and it exists because naturals have no infinite descent.
* `ReadersSeeNoGarbage` and `SearchesAreRight`: `SearchInv`, on top of `ListInv`, says that a
  search stands before its target at a node whose link it may follow (`Underneath`), and that an
  ended one answered by what was there (`Answered`). The writer keeps both because it unwrites no
  link and removes no key. `ListTypeCorrect` follows from the two, and `ListStaysConsistent`,
  `Spec => []ListIsConsistent`, is all that the run asks of the list.

The lock, an instance of `FileLock` named `Lock`, under `LockAssumption`:

* `TableKeepsThreadsApart`: `Spec => []OneHolderPerProcess`. `TableInv`: from the insertion into
  `PosixLockTable` to the removal the entry is there and belongs to one opener.
* `KernelKeepsProcessesApart`: with one opener in a process, a holder's process has the kernel's
  lock (`HolderHasKernel`). Without that hypothesis it is false: closing another descriptor of
  the file gives the process's lock away (`file_lock`, section 3).
* `LockIsFreeWhenIdle`: `Spec => []FreeWhenIdle`, for any openers and processes: no failed call, no
  `UnlockFile` and no death leaves the lock taken. `OwnedInv`: the kernel's lock has a holder, an
  entry of the table an opener between the insertion and the removal, an open descriptor an
  opener in a call or a holder.

The background thread and the limits, an instance of `PosixEnv` named `Env`, under `EnvAssumption`:

* `WorkRunsInOrder`: `Spec => []WorkInOrder`, by `WorkInv`, which follows each item's position
  from the queue to what ran.
* `LimitsAlwaysHold`: `Spec => []LimitsHold` for finitely many users. A unit taken from a
  limiter is accounted for by the place of the user who took it, a sum of cardinalities that
  each step moves by one.

The table cache, an instance of `TableCache` named `Cache`, under `CacheAssumption` (finitely many
files, threads and a capacity, a first length of the hash table above zero, and `Nil` no number):

* `CacheStaysConsistent`: `Spec => []` all that the run asks of a shard. `CacheInv` describes the
  shard by one thing, how many users each handle has: the hash table has the handles that are
  cached, each in the chain of its key and no two of one key (`TableHas`), the list of the unused
  and the list of the used hold the cached handles without and with users, each once (`Shelved`),
  and references and deletions follow from users and cache (`Counted`). One lemma per operation of
  the shard says what it makes of such a shard (`RefIsWhole`, `UnrefIsWhole`, `EraseIsWhole`,
  `InsertIsWhole`, `PruneIsWhole`); inside an operation the table and the lists disagree for a
  while, so the lemmas about the table (`TableInsertHas`, `ResizeHas`, `TableRemoveHas`) speak of a
  set of handles of their own. A resize and an eviction are folds, proved by induction over how
  far they have come.
* `InsertionsMakeRoom`: `Spec => InsertMakesRoom`, the last step of the induction over the
  evictions: either there is room, or each of the unused has gone.

### `NaturalsBySets`

The library states induction with an operator for the property, which the installed provers
cannot instantiate. Here the property is a set of naturals that has 0 and with every number the
next (`InductionBySet`), and a function may be defined by recursion on `0 .. n`
(`RecursionOnInterval`). That is what the theorems above need of `Sums`, of the filter's fold, of
the table cache's resizes and evictions, and of the searches and merges of the levels.

### Only model-checked

* Liveness (`DetailsAreShown`, `ReviewsAreStored`, `LevelsSettle`, `QueueWritesReturn`,
  `PartsFinish`, and the fairness in `ReviewsImplementLedger`): TLAPS has no ENABLED and no
  fairness here.
* Of `TotalsSurviveFaults`, how many counts kills and lost connections cost (`KillsLoseFewCounts`): its other two
  parts, in *duo* and *half*, are `CountedReviewsStayStored` and `NoAverageByZero`, which speak of `ReviewSubmission`
  itself and so of every instance.
* Of the item's screen, that the count never exceeds the number of reviews (a conjunct of `TypeOK`).
* `Recovery` under setups that are not `Sound`: there the promises fail, as shown above.
* `LogFile`, `TableFile`, `Iterators` compute over data by nested folds; `Protobuf`
  uses RECURSIVE operators, in which the provers cannot work.

## 5. Not modelled

* Of the app: layout, labels' texts, the storyboard, the cells; the star control (one value:
  `Ratings` has 0 for a star tapped twice), the session (calls into the Facebook SDK and
  Firebase Auth), the map (the helper made before a location is known never searches, and
  annotations are added at every update), the sign-up form; the cells of the menu screen,
  whose recycled labels the code promises nothing about.
* The Foursquare answers beyond what the screens tell apart.
* Torn reads of a Swift optional assigned on the session's queue and read on the
  main queue: each assignment is one step.
* A press of Submit in a form that has already been left.
* Of the engine: compression, checksums as arithmetic (a byte that rots is found), the block
  cache (the same code as the table cache's), the arena, coding and hashing,
  `version_edit.cc`'s bytes, statistics and properties, `DestroyDB`, the C binding, tools,
  in-source tests, Windows and atomic ports.
* Errors inside the engine's own steps: `InsertInto` of a malformed batch, read errors of the log's
  reader, the append of a block's trailer, whose status is not looked at (`db/log_writer.cc:53`).
  A batch whose append fails uses up its sequence numbers in the code (`db/db_impl.cc:1245`), in
  `Recovery` the next batch gets them. `Repair!ConvertLog` joins the building of a table with
  the archiving of its log.
* Of nanopb: callbacks, extensions, pointer fields, floating types.
* The other pods: Objective-C and Swift source of others (Facebook SDK, GTMSessionFetcher) or
  binary frameworks whose headers are all there is. They are most of the header lines
  under `Pods`, which is why the share of all C-family lines that `map` covers stays
  small although most of the engine's state-changing code is in it.
