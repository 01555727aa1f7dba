# canon-proxy: specification and verification

canon-proxy watches a Canon camera over PTP/IP, records every picture it finds in
an SQLite table, and uploads pictures to network storage (SMB, FTP, S3, GCS,
Azure), automatically or on request from a web page. This directory holds TLA+
modules of its core, TLC configurations that check them on small instances, and
TLAPS proofs about them. Paths below are relative to `src/`.

    tlasany UploadQueue.tla                               # parse
    tlc -workers 2 -config QueueTwoWorkers.cfg MCUploadQueue.tla  # one run
    tlapm UploadQueueProofs.tla                           # proofs (and the other modules whose name ends in Proofs)

## 1. Inventory of the system

| Component | State it keeps | Operations | Talks to |
|---|---|---|---|
| Upload queue and workers, `internal/pipeline/pipeline.go` | `pushCh` (bounded channel), `inChannel` (set of URLs believed to be in it), `paused`/`gateCh`, locals of each worker, of `retryScheduler` and of the discovery goroutine | `Pause`, `Resume`, `Queue`, `ClearQueue`, `Run`, `processImage`, `handleFailure` | store, camera client, backend; called by main and by HTTP handlers |
| Image table, `internal/db/image.go` | rows (filename, url, status, retry_count, next_retry_at, destination) | `FindOrCreate`, `SetStatus`, `SetRetryQueued`, `MarkQueuedWithMeta`, `MarkAllDiscoveredQueued`, `ResetQueued`, `ResetStuckUploading`, `ResetFailed`, queries | SQLite, each statement atomic |
| Store, `internal/store/store.go` | in-memory upload progress, change callback | wraps the table; `Add`, `List`, `AutoUploadDest` | table, web push |
| Start-up, shutdown, restart, `cmd/canon-proxy/main.go` | phase of the process | reset of interrupted uploads, re-enqueueing, auto-upload synchronisation, SIGTERM, re-exec | everything |
| HTTP requests, `internal/web/server.go` | none of their own | queue, queue-all, retry-failed, clear, pause, resume, pairings | store, queue |
| Folder pairings, `internal/db/pairing.go` | rows (folder, share path, `auto_upload`) | create, update, delete | discovery goroutine reads them |
| Poller, `internal/canon/poller.go` | `seen`, ring buffer `seenKeys`, handle caches, enabled flag, forced poll | `Run`, `pollOnce`, `EvictHandle`, `ForcePoll`, `SetEnabled` | camera client, output channel to the queue |
| Camera client, `internal/canon/client.go` | the connection, its mutex | `ListImages`, `ListFolders`, `DownloadImage`, `DeleteObject`, thumbnails | session |
| PTP/IP session and transport, `internal/canon/session.go`, `transport.go`, `ptp.go` | sockets, transaction number, event loop | handshake, commands, data phases, reconnect | camera |
| Object enumeration, `internal/canon/objects.go` | none | folder discovery, recursion over object handles, fall-back tree | session |
| Camera discovery, `internal/canon/discover.go` | of one scan: a semaphore, a WaitGroup, the results | `DiscoverLAN` with its fast path, one goroutine per address | network; called by an HTTP handler |
| Storage backends, `internal/backend/*` | the share | `Upload` | network |
| Web push and log stream, `internal/web/server.go`, `log.go`, `internal/logger` | subscribers with bounded buffers, last lines | `broadcast`, subscribe, unsubscribe | browsers |
| Thumbnail cache, `internal/web/cache.go` | bounded map | get, put, evict | camera client |
| Settings and configuration, `internal/db/setting.go`, `internal/config`, `main.go`, `server.go` | key-value rows, and the live copy in poller and logger | `SeedDefaults`, `SetMany`, poll settings, `putSettings` | main, poller, logger |

### What is hard in it

* **Two records of one thing.** An image is "in the queue" by its row (`queued`), by
  `inChannel` and by `pushCh`. Three kinds of goroutine update them in separate steps,
  in different orders, without a common lock.
* **Stale reads.** The scheduler pushes from a list it fetched earlier; a worker counts
  retries from the row it read before the transfer and updates the row by a URL that
  discovery may meanwhile have changed; objects are downloaded and deleted by handle,
  which the camera may have reassigned.
* **Crashes.** The process may die, or re-exec itself, between any two steps. The table,
  the pairings and the share survive, the queue does not.
* **Partial failure.** A failed upload may leave a truncated file under the final name; a
  deletion may succeed although its answer is lost; a row may not be insertable because
  another row has its filename.
* **Limits.** The channel is bounded and producers drop when it is full; retries are
  bounded.
* **Liveness.** Nothing may remain `queued` or `uploading` for ever, in spite of drops,
  back-off, pauses and crashes.

### What makes each component correct

* Queue: reservations and channel agree; a row that says `uploading` has a worker; retries
  stop exactly at the limit; a queued image settles.
* Table: at most one row for a filename and for a URL; each statement touches exactly the
  rows its WHERE clause names.
* Start-up: nothing that was interrupted is forgotten.
* The whole: a picture leaves the camera only when stored; `done` means stored; with
  auto-upload every picture is eventually dealt with.
* Poller: every image is handed over at least once in a process, none twice while it stays on the
  camera; memory of what was seen stays bounded.
* Session: a reply is matched to its own command, also after late ones; a broken connection is replaced;
  no socket is lost; whoever waits for the camera gets an answer or an error.
* Enumeration: each image on the card is listed exactly once, under its own folder, in spite of questions that fail.
* Web push: a subscriber's last frame is the newest state; nothing is sent on a closed channel; no handler blocks for ever.
* Log stream: a viewer gets the recent lines and then every later one, in order; it is forgotten when it goes.
* Thumbnails: the cache stays bounded; it shows a picture of the name asked for, or what took over its handle, never what the handle held before.
* Settings: what works now works after a restart; a start never changes what is stored.
* Camera discovery: a scan ends, with every camera that answered.

`PROJECT.json` lists each hazard at the line where it bites, with the properties that
would catch it.

## 2. Modules

| Module | What it holds |
|---|---|
| `ImageRecords` | The image table as a function from filenames to rows, one operator per SQL statement |
| `UploadQueue` | The queue, the workers and all producers, with the table, the camera and the backend: the core |
| `Delivery` | The abstract promise: what is stored, what is on the card, what is reported |
| `UploadQueueDelivery` | The refinement mapping from `UploadQueue` to `Delivery` |
| `MCUploadQueue` | Instances of it for TLC |
| `Poller` | The poll loop, its memory of what was handed over, and the workers and the camera that race with it |
| `MCPoller` | Instances of it for TLC |
| `PtpSession` | The camera client: mutex, handshake, reconnect loop, transactions, late packets, event channel, and the camera's end of the channel |
| `WebPush` | The live image list: broadcasts, and each WebSocket connection with its handler, channel and writer |
| `LogStream` | The ring of log lines and its viewers |
| `ThumbCache` | The thumbnail cache, the requests that fill it, and the card and table that change meanwhile |
| `Settings` | Seeding, loading and changing the settings, and crashes |
| `LanScan` | The search for cameras on the local network |
| `ObjectEnumeration` | How the pictures of a card are found, level by level over its object tree, and the card that changes between listings |
| `MCServices` | Instances of these six for TLC |
| `UploadQueueProofs` | The types and the tokens of `UploadQueue`, and the lemmas about the table's statements and queries |
| `UploadQueueDeliveryProofs` | What the table says, where the copies are and who works on them; the refinement of `Delivery` |
| `PollerProofs` | The invariants proved of `Poller` |
| `PtpSessionProofs` | The invariants proved of `PtpSession`: types, sockets, the order of replies on the command channel and what follows from it |
| `WebPushProofs` | The invariants proved of `WebPush` |
| `ServicesProofs` | The invariants proved of `LanScan`, `Settings`, `LogStream` and `ThumbCache` |
| `EnumerationProofs` | What a listing of `ObjectEnumeration` returns, for every card |
| `MCServicesProofs` | The six parts together keep the invariants that each has alone |

### How `UploadQueue` corresponds to the code

| State | Code |
|---|---|
| `db` | table `image_records`; `due` says that `next_retry_at` is NULL or past |
| `pushCh`, `inChannel`, `paused` | the fields of `Pipeline` of the same name |
| `seen` | `Poller.seen` |
| `worker[w]` | one iteration of the worker loop of `Run`: `pc` is where it is, `img` what it received, `retry` the `retry_count` it read, `data` what it downloaded |
| `producer[p]` | the start-up code (`Main`), the discovery goroutine, `retryScheduler` and each HTTP handler: `todo` are the images still to be enqueued, `hold` the one in hand |
| `camera`, `taken`, `backend` | the objects on the card by URL (which is built from the handle), all pictures ever taken, the files on the share |
| `phase` | how far `main` has got: `down`, the three steps of recovery, `running`, `stopping` |

Every action is one piece of Go code between two points at which another goroutine can be
seen to run: a channel operation, an operation on the `sync.Map`, a database statement, a call to
the camera or to the backend. So the worker loop is fifteen actions, from `PassGate` to
`HandleFailure`; the loop of `Queue` and of `retryScheduler` is `SkipTracked`,
`Reserve`, `Send` and `DropFull`; `ClearQueue` is one statement on the table followed by `DrainOne`,
`DrainUntrack`, `DrainRestore` per image; `FindOrCreate` is a lookup and a write with
the whole world in between.

### Abstractions

* An image is a filename and a URL. Size, dates, folder, thumbnail and destination are left
  out: no step of the queue depends on them. There is one camera folder and one pairing,
  of which only `auto_upload` is kept; the discovery goroutine reads it and marks the
  row in one step.
* Time is one bit per row: `BackoffExpires` may fire at any moment after a retry was
  scheduled, so every back-off length is covered.
* `todo` is a set: rows are enqueued in any order. The scheduler's two
  queries are read as one snapshot, and so are the two of `FindOrCreate` (`Lookup`, by URL and then by filename):
  only the discovery goroutine, which is the one that asks, writes filenames and URLs, so no row that the first did not find can
  be there for the second.
* The gate is read as `~paused` at the moment a goroutine passes it; the gate channel that
  `awaitGate` waits on adds no other outcome.
* The poller is `Emit`: any file whose URL is not in `seen` may be handed over, and is marked as
  seen in the step that lists it. What happens between the listing and the marking, and the ring
  buffer that forgets old URLs, is what the module `Poller` is about.
* An upload succeeds, fails and leaves nothing, or (unless `AtomicBackend`) fails and leaves a partial
  file. A download fails or returns whatever object has that handle now.
* Database errors are not modelled: the code logs them and goes on. Operation without a camera,
  and requests that arrive before the queue runs, are not modelled either.
* Nothing is counted: requests, crashes and retries of the user are unlimited in every run. All
  state spaces are finite because the data is.

### How `Poller` corresponds to the code

`seen`, `seenKeys`, `imageHandles`, `initialDone`, `autoEnabled`, `triggerCh` and `configCh` are the fields of `Poller`
(the two channels have one slot, so they are flags). `loop` holds the locals of `Run` and `pollOnce`: `known`
is the copy of `imageHandles` that the delta scan works with, `images` what is left of the listing, `file`
the one being sent, `curEnabled` the setting the ticker was last reset to. `pollOnce` is `Snapshot`, then
`ListImages` or `ListFails`, then `SkipSeen` or `Remember` per image under the lock, each followed by the
blocking `Send`. The two selects of `Run` are `Tick`, `BackoffOver`, `Triggered`,
`ApplyConfig` and `Return`. `EvictHandle` is separate from the worker's `DeleteObject`, as in
`processImage`. `handed` records what was sent, for the properties.

Left out: how long intervals and back-offs are; `folderHandles`, which is collected but changes nothing
of what is listed; `cameraConnected`, which is only displayed. A listing is what
the camera holds at one moment (the client's mutex keeps other commands out), and with `ListsTwice` may
name an object twice. A URL stands for its handle.

### How `PtpSession` corresponds to the code

`cmdConn`, `evtConn`, `txID`, `listenMode` are the fields of `Client`, `holder` is who holds `mu`. Every public
operation keeps the mutex from beginning to end, so one record `op` holds the locals of the one
under way: `pc` is where it is, `stage` and `todo` are what it still has to ask. `calling` are the callers (poller, upload workers, HTTP handlers)
that are in an operation or wait for the mutex; which operation it is shows when the mutex is theirs (`Lock`). `open` are the sockets not closed, `drainers` the event channels
read by a `drainEvents` goroutine. `wire` is everything that the camera has sent, or will send, on the command channel:
the packets of a reply enter it when the request is sent, and a read may fail at any time (`RecvFails`), which leaves them
there. So a reply is in time, late, or lost (never sent), and a late one arrives in a later transaction.

| Action | Code |
|---|---|
| `Lock` | `c.mu.Lock`, then `ensureConnected` |
| `Connect`, `ConnectFails`, `AcceptFails`, `InitCommandAck`, `InitEventAck`, `InitFails` | `connectClient` and `connectServer`, which differ only in who dials, up to the assignment of the fields |
| `NextSessionStage`, `ConnectFailed` | `openSession`, `canonEOSInit`, and the error path of both |
| `Settled`, `SettleCancelled` | the five seconds before the camera is ready, and `go c.drainEvents` |
| `Retry`, `NotConnected` | the loop of `ensureConnected` |
| `Request` | `nextTxID`, `sendCmdRequest` |
| `RecvStartDataPacket`, `RecvDataPacket`, `RecvResponseInData`, `RecvResponse`, `RecvOther` | the cases of `recvData` and `recvResponse`, one packet each |
| `DiscoverFolders`, `Enumerate`, `Finish`, `Skip`, `Fail` | the order of the transactions of an operation, and what it does when one fails: `getStorageIDs` and `discoverDCIMFolders` go on, the others close the connection |

`GetThumb` is `download` with another operation code; `ListImagesDelta` is `list` with fewer objects to ask about. How
many questions discovery and enumeration have depends on the object tree and is any number here, but for a camera
that reports no storage at all (an empty list), for which the code asks nothing more. A packet's payload
is the question it answers. Left out: byte layouts and malformed packets (a read that fails), the lengths of deadlines and
back-offs, the events themselves. A read whose deadline passes inside a packet loses the framing and counts as a broken
connection. A handshake read takes one packet, so its outcome is one step.

Bounds: `MaxAbandoned` transactions may be given up on a connection before it breaks altogether (without it the
late packets of `ListFolders`, which never closes the connection, would pile up without limit), and one ping is on its way at a time.
`TxIDs` stands for 2^32; the numbers wrap as in the code.

### The six modules beside the pipeline

**`WebPush`.** `conn[c]` is one call of `handleWS`: `pc` is where the handler is, `writer` and `frame` are its write goroutine, `send` and `closed`
its channel, `open` the socket, `page` what the browser shows. `broadcast` is `ReadList`, without the lock, and `Push`, under it. The list is
represented by the number of changes of the store that it contains, which is all that matters to whether a page is up to date. `offered` and `excused` are ghosts:
the newest list offered to a connection, and whether the last frame was dropped or overtaken. Upload progress, which also causes broadcasts, changes nothing of the list's
order and is a `Notify` like any other.

**`LogStream`.** `Write` and `subscribe` are one step each, since they hold the lock; `Replay` and `StreamLine` are the two loops of
`handleLogStream`. Lines are numbers.

**`ThumbCache`.** `serveThumb` is `Load` (a miss), `LookupURL`, `GetThumb`, `StoreThumb`, with other requests, the camera and discovery in between; `BindRow` is
`FindOrCreate` in one step, for an object listed now or in an earlier listing. Any picture may get any free handle, as after a `DeleteObject` (`image.go:92`). `borne` is a
ghost: which names a handle has borne, and in which order.

**`Settings`.** Four keys stand for all: `enabled` and `interval` (changed by POST in the process first, then in the table), `level` (changed by PUT in the table
first, then in the process), `secret` (redacted when shown). PUT may name every key; the poller's, it changes in the table only, to take effect at the next start.
`agreed` is a ghost: the keys last set by a request that ran alone and succeeded.

**`LanScan`.** `scanner` is `discoverTCP`, `probe[a]` the goroutine of an address; `SubnetsUnknown` is the error of `localSubnetHosts`, which ends the scan before the loop; `places` is the fill of `sem`, `wg` the counter. A probe is answered or not.

**`ObjectEnumeration`.** A card is a tree of handles with a description of each, and a listing is one step, since the client's mutex is held throughout and the
card is asked at one moment. `DiscoverFolders` is `discoverDCIMFolders` with its two passes, `Enumerate` is `enumerateObjectsDepth` level by level,
`ListStorage` and `ListImages` are `listImages`. `failing` is the question (phase, kind and handle) that the camera fails for the time being. Children come in the
order of their handles; a handle is not given twice (that is `Poller`'s subject); names are compared as they are, not without regard to case.

The six share no state, with each other or with the pipeline as it is modelled. `MCServices` puts them side by side, and `active` says which one moves in
a behaviour, so that one run explores the sum of their state spaces, not the product.

### Constants

`Workers`, `Handlers` (requests served at once), `MaxRetries`, `PushChanCapacity`,
`Filenames` and `URLs` are sizes. `Handles[f]` says which URLs the camera may give to `f`:
disjoint sets mean that a handle is never reused. `Renumbers`, `AtomicBackend`, `DeleteAfterUpload`
are the environment and the configuration. `Requests` and `CanStop` say which requests
and which kinds of stop a run explores. In `Poller`, `Deletes` says whether workers also delete pictures that were queued by an
earlier process (`backlog`), which can come before this process has handed them over, or lose the camera's answer (`unconfirmed`).

## 3. What TLC checks

### Runs that pass

| Run | Instance | Shows |
|---|---|---|
| `two_workers` | 1 file, 2 workers, 1 handler, 1 retry, delete after upload; clear, queue, queue-all; crashes | `TypeOK`; `TokensConserved`: `inChannel` is exactly what is in the channel, reserved or just received, each once; `UploadingIsOwned`: a row `uploading` has a worker busy with it; `DeletedIsStored`: what left the card is stored; `ImplementsDelivery`: the refinement |
| `renumbered` | 2 files, 1 worker, no retries, capacity 1, delete after upload, handles assigned anew at any time | `TokensConserved` with a full channel, so with `DropFull`; `URLsUnique`: the lookup-then-write of `FindOrCreate` never makes two rows for a URL, without help from the unique index |
| `one_worker` | 1 file, 1 worker, 2 retries, a backend that leaves partial files; every request but clear; crashes and SIGTERM | `DoneIsStored`, `DeletedIsStored` also without an atomic backend; `FailedIsExhausted`: failed only when every retry is used |
| `settles` | 1 file, 1 worker, 1 handler, delete after upload; pause, clear, queue, retry-failed, crashes; fair | `QueuedSettles`: when the gate stays open and the user stops, nothing is stuck in queued or uploading; `AutoUploadCompletes`: with an auto-upload pairing and no requests each picture taken is done or failed, whatever crashes come first |
| `poller_memory` | 3 files, each with its handle, a ring of 3; objects listed twice; deletions of any kind | `TypeOK`, `RingCoversCaches`: what the delta scan skips was seen, and the bounded ring covers it; `HandedOnce`: nothing on the camera is handed over again before the ring has been full |
| `poller_progress` | 3 files, two of which share a handle, a ring of 1; confirmed deletions, also of pictures queued by an earlier process; fair | `EveryPictureHandedOver`: no cache hides a picture, also under a reused handle and after an eviction that falls into a poll, as long as no poll marks what has been deleted and evicted (`EvictedInTime`); `TriggerIsServed`; `ConfigTakesEffect`; `CancelReturns` |
| `services` | see the bounds below; each part with all its interleavings; fair | Push: `NoSendOnClosed`; `PageIsNewest`: at rest a page shows the newest list, but for two exceptions that it names; `GoneIsCleaned`. Log: `ViewerSeesAll`: nothing falls between snapshot and stream; `GoneIsUnsubscribed`. Thumbnails: `CacheBounded`, `ThumbIsOfName`. Settings: `SettingsSurviveRestart`, `StoredValuesKept`. Scan: `LanTypeOK`: semaphore and WaitGroup count what they stand for; `NothingLost`; `ScanReturns`. Enumeration: `ListingIsFaithful`: a listing that succeeds is complete, without duplicates and rightly tagged; `EveryPictureListed` |
| `session` | 2 callers, 1 object, 2 sockets, 2 attempts, 3 transaction numbers, both modes; every operation, fault, cancellation and ping; fair | `OwnData`: a data phase yields the data of its own question, complete; `SuccessInSync`: a success leaves nothing in the channel that a later operation could take for its own; `SocketsOwned`: no socket is lost; `EveryCallReturns`, also one that waits behind the mutex; `Recovers`: failures cease once the camera is steady |

### Runs that show a disagreement with the documentation

Each checks one statement of the repository and finds a short counterexample.

| Run | The repository says | The code does |
|---|---|---|
| `uploaded_once` | each file is uploaded exactly once (`docs/architecture.md:9`) | the scheduler pushes from a list it fetched before a worker finished: a second upload |
| `evicted_is_rediscovered` | after a deletion, `EvictHandle` removes the handle "so it can be re-discovered" and "so the slot can be reused" (`poller.go:110`) | a poll that listed the object before, and marks it afterwards, puts its URL and handle back into both caches; the next picture under that handle is skipped by every poll and never handed over |
| `events_drained` | the drain goroutine treats 30 quiet seconds "as a normal idle case" and goes on (`session.go:151`) | `recvPacket` wraps the error, the type assertion on `net.Error` fails, and the first quiet 30 seconds end it with the channel open |
| `delta_fallback` | in delta mode nothing found means nothing new, so "the fallback is not needed" (`objects.go:181`) | a camera in smartphone mode has empty folders and its pictures in the virtual tree, which only the fallback reaches: while one picture is known, a new one is never listed |

More instances fail, for which there is no run; the properties are in the modules.

* `ClearedIsNotUploaded` (`QueueTwoWorkers.cfg`). The reset comes first "so the retryScheduler doesn't re-enqueue them" (`pipeline.go:98`), but what the scheduler has
  fetched or a worker has received is reset to discovered and uploaded all the same.
* `SkipIsSafe` (`Session.cfg`). A failed `GetObjectInfo` is skipped "safely" (`objects.go:42`); the late response of a skipped question ends the data phase of
  the next one, and so on through the whole discovery, and the connection is replaced only when the enumeration fails too.
* `FirstFrameIsSent` (`Services.cfg`). The list is sent "immediately on connect" (`server.go:239`) by a send that waits for room, after the connection was registered and
  before its writer is started: broadcasts that fill the buffer in between stop the handler for ever, with its subscription. It takes sixteen of them
  in the time of one query. `GoneIsCleaned` names this state as its exception.
* `UploadingIsOwned` when the camera assigns its handles anew (`QueueRenumbered.cfg`). `FindOrCreate` rebinds a row to a new URL while a worker
  uploads it, the worker's updates by the old URL match nothing, and the row says `uploading` until the next start.
* `DeletedIsStored` and `DoneIsStored` when the camera gives a handle to two pictures (`QueueOneWorker.cfg` with `Filenames = {A, B}` and `Handles <- SharedHandles`). Images are downloaded and
  deleted by handle, so a second queue entry of a picture A that is stored and deleted already finds B there, to which the camera has given the handle: it stores
  B's data in place of A's copy, and then deletes B from the card, whether or not B is stored under its own name.
* `FailedIsExhausted` with `"clear"` or a second worker (`QueueOneWorker.cfg`): the count that a worker read before the transfer is no longer that of the row.

Met while translating, and part of what the definitions say: pictures directly below DCIM or the root are not listed when there are named folders; of two
folders with one name only the first is walked; when the description of DCIM fails once, the pictures of that listing keep an empty folder for good; the
fall-back on a second storage is left out when the first one had new pictures; the number in the name of an unnamed virtual folder depends
on which others are empty at the moment; a virtual container that is empty is asked for its description, which may fail the
whole listing. The settings of the file are "ignored once settings exist in the database" (`config.go:21`), but `getStr` falls back to them when the row is empty.

### Why the bounds are enough

The hazards are races about *one* image between a worker, a second worker, the scheduler, discovery
and one request, so one file with two workers and one handler (`two_workers`) has them all: each of those is a
process of its own. A second file matters in two places only, a full channel and
a handle that moves from one file to another; `renumbered` has
two files and a capacity of one, so that one image in the channel fills it. One retry has every branch of
`HandleFailure`; `one_worker` has two, because an attempt that is neither the first nor the last exists only then.
Workers are interchangeable: where no liveness is checked they are a symmetry set. No run limits the length of
behaviours.

`DoneIsStored` and `DeletedIsStored` need that a handle is not reused (`OneHandleEach`; see
the instance with `SharedHandles` above) and, with more than one worker, that a failed upload leaves no partial file: two workers may hold the same image
(`uploaded_once`), and the second may truncate what the first has stored and reported.
`FailedIsExhausted` is checked without clear and with one worker: a clear resets
`retry_count` while a worker still counts from the value that it read.

For the poller, two pictures on one handle and a third on another give every order of listing, marking,
deletion, eviction and reuse; a ring of one overflows with every picture after the first. In `poller_progress` no answer to a deletion is lost: the handle is then never
evicted (`pipeline.go:298` only logs the failure), hides whatever picture gets it next, and `EvictedInTime` excuses that behaviour, so it would add states and no case. `poller_memory` has
such deletions. `HandedOnce` is
about handles that are not reused and about a ring that has not been full: with a reused handle a late
eviction, and with a full ring an old entry of a URL seen again, make the poller hand over a picture twice, which the
table then recognises.

For the session, two callers contend for the mutex: one holds it, one waits, and the one that returns may call again before the other gets in. More callers
wait in the same way. One object and the question for storage
IDs are two different questions, so data in the wrong hands shows. One transaction given up on a connection puts it out of step by one, and a
connection out of step fails in the same way however far it is; two attempts have both branches of the retry
loop, and two sockets are one connection. `events_drained` has one caller and three sockets, so that a new pair exists while the goroutine of the old event channel still
reads; that sockets are owned is proved for any number of them. `TxIDs` must exceed `MaxAbandoned + 1`, as
2^32 surely does, or a late packet could carry the number of the current transaction.

The run `services` (`Services.cfg`) has, for each part, the least numbers at which every case occurs. Push: one connection, since connections meet only in the loop of `Push`,
which treats them alike; two updaters, so that frames can overtake each other; a buffer of one, so that it fills; three changes. Log: two viewers, a ring of two, a buffer of one and three lines,
so that the ring drops a line and a viewer misses one. Thumbnails: a cache of one entry, two requests, two names with a picture each, and two
handles, so that a picture can come back under another handle, and a handle go to the other name. Settings: two requests at once of either kind, two levels, one interval and one secret beside the empty one, and one key in each PUT (`MaxNamed`;
several keys are written by one statement). Scan: three hosts for two places, so that the loop waits; one candidate. Enumeration: two pictures on each of three cards (DCIM with two
folders, two storages of which one has no folder, virtual containers with and without a name), folders up to depth two, one question that begins to fail and may be answered again.
`delta_fallback` has the fourth card, of a camera in smartphone mode. The parts come to rest when their bound is used up (changes, lines, breaks) or their work is done (a scan), so
these two runs do not check for deadlock; that nobody waits for ever is what their liveness properties say.

### Fairness

Weak fairness, and only of what the Go runtime or main guarantees: a goroutine that can go on does
(`Work`, `Enqueue`, `Handle`, `Discover`, `SchedulerFetch`), the scheduler's ticker fires (`Tick`), time passes
(`BackoffExpires`), the poller keeps polling (`Emit`), and the process is started again and finishes an orderly exit.
No upload, download or deletion is assumed to succeed: a failure is another outcome of the same action.
In `Poller` the loop and its timers are weakly fair; the cases of its two selects are strongly fair, since Go picks among the ready cases
at random. That the camera answers in the end, and that polling stays enabled, are stated in the properties that need them (`CameraAnswers`, `Runs`). `EveryPictureHandedOver` further
assumes `EvictedInTime`, that no poll holds or marks a picture that is deleted and evicted already. Nothing in the code ensures it when images come from an earlier process: without it the
property is `EvictedIsRediscovered`, which is false.
In `PtpSession` the operation that holds the mutex goes on, as every read has a deadline; the mutex is strongly fair to those who wait, as Go's is
(its starvation mode); a goroutine sees its socket closed. In listen mode a connection is certain only from a
steady camera. `PingsStop` is needed since every packet, a ping too, renews the deadline: a camera that pings for ever
and never answers keeps the mutex taken.
In `WebPush` broadcasts, handlers and writers go on; a read from a connection that has gone fails, because of its deadline, and so does a write.
In `LogStream` the end of the request is strongly fair, as one of two cases of a select. In `LanScan` the loop and the goroutines go on, as every dial
ends after 800 ms. In `ObjectEnumeration` the poller keeps polling, and `Repair` says that a question is answered in the end: no property could hold of a camera that
never describes a picture. `ThumbCache` and `Settings` need no fairness.
Users, crashes, new pictures and renumbering are never forced. `AutoUploadCompletes` and `QueuedSettles` say
under which behaviour of user and process they hold (`StaysUp`, `NoMoreRequests`), because no
queue can settle under a process that crashes for ever.

## 4. What TLAPS proves

For every number of workers and handlers, any finite or infinite sets of filenames and URLs, any retry limit,
any capacity above zero and every choice of the other constants:

* **`TypeCorrect`**, `Spec => []TypeOK`. `TypeOK` is not inductive: a worker at `upload` uses `img` as an image,
  so it must not be `NoImage` there. `TypeInv` adds `LocalsOK`: which `pc` values carry an image, which
  a handler, the scheduler, discovery or main can be at. The proof has a lemma for
  each group of actions (`EnqueueTypes`, `WorkTypes`, `RequestTypes`, ...), most of
  which also say that no row is added or removed.
* **`TokensCorrect`**, `Spec => []TokensConserved`. With `TypeInv`, `TokensConserved` is inductive
  but for one case: `BootEnqueue` overwrites the locals of main, so main must hold no reservation then.
  `MainIdle` says that it is idle in the phases before. The proof
  distinguishes what a step does with a token: none (`TokensKept`), made
  (`Reserve`), moved into the channel (`Send`), out of it (`Receive`, `DrainOne`) or given back
  (`DropFull`, `Untrack`, `DrainUntrack`).
* **`QueueImplementsDelivery`**, `Spec => ImplementsDelivery`, the refinement, with **`DoneStaysStored`**, **`DeletedStaysStored`** and
  **`NothingLeavesUnstored`** (`Abstract!NothingIsLost`): see *Delivery* below.
* **`OneWorkerDelivers`**, **`FailedStaysExhausted`**, **`UploadingStaysOwned`**, **`URLsStayUnique`**: also below.
* **`PollerTypes`** and **`MemoryIsCovered`**, `Spec => []TypeOK` and `Spec => []RingCoversCaches` of `Poller`: for any
  ring size, camera, deletions and reuse of handles. The invariant is their conjunction with `InHand` (a file is in hand whenever
  one is about to be sent); the step that matters is `RingPush`: pushing a URL into a full ring shifts every other one by one place
  and drops the oldest from both caches, so what remains cached remains covered, even when the oldest entry
  is a stale one of a URL that is also further up.
* **`NothingTwice`**, `Spec => HandedOnce` of `Poller`, if `NoReuse`: no handle is given to two pictures. The invariant is
  `CardInv /\ (Full \/ AllSeen)`. `AllSeen`: while the ring has not been full, what was handed over and is still on the card is in
  `seen`. An eviction could break that, so `CardInv` says that a handle being evicted never gets a picture again, and a listing that was made before
  a deletion could, so it says that each of its images names the picture's only handle. The ring never gets shorter, so `Full` lasts. Without `NoReuse`
  TLC finds a second hand-over: a late eviction forgets the picture that took over the handle.

* **`SessionTypes`** and **`SocketsAreOwned`**, `Spec => []TypeOK` and `Spec => []SocketsOwned` of `PtpSession`: for any number of callers, objects,
  sockets, attempts and transaction numbers. `SocketsOwned` alone is not inductive: that `InitEventAck` may overwrite the fields, and
  `CloseConns` forget them, needs to know who holds what in which phase. `PhaseOK` says it: connect
  starts without a connection, its sockets are in hand exactly from the dial to the assignment, and every transaction is made on a
  connection (`cmdConn` is never nil when it is used).
* **`DataIsOwn`** and **`SuccessIsInSync`**, `Spec => []OwnData` and `Spec => []SuccessInSync` of `PtpSession`: for any questions and any
  `MaxAbandoned`, `TxIDs` with `TxIDs > MaxAbandoned + 1`. The code compares transaction numbers for equality only, and the numbers wrap, so the argument is
  about the *age* of a packet: how many transactions ago its number was given out. `Ordered`: ages never increase along the wire, and
  decrease strictly behind a response. `Recent`: no reply is older than the transactions given up. A new request ages everything by
  one, which by `Recent` cannot wrap (`AgeNext`), so its number is fresh. `DataOK` says how what is left of the
  current reply completes `buf`. When a transaction's own response arrives its age is 0, so by `Ordered` no reply lies behind it. Each step is a lemma:
  `RequestSync`, `SkipSync`, `OwnDataSync`, `OwnEndSync`, `ResponseSync`, `RecvFailsSync`; the others leave the replies alone (`QuietSync`, `PingSync`) or
  take all of them away (`EmptySync`).

* **`ClosedChannelsAreLeftAlone`** and **`PagesAreNewest`**, `PushSpec => []NoSendOnClosed` and `PushSpec => []PageIsNewest` of `WebPush`: for any connections, goroutines, changes and
  buffer above zero. `PushInv` says who is subscribed in which phase (`Served`), that a channel is closed only after that (`Lives`), that the last list offered is the last
  one on its way to the page, or the page, unless excused (`Flow`), and that what was offered is the newest list or a broadcast that will bring the newest is still under
  way (`Fresh`, `Pending`). `PageIsNewest` follows when nothing is on its way and nobody broadcasts. The step that matters is `PushStep`: a broadcast that ends leaves either its list, which was
  the newest, or another one that is under way.
* **`CacheStaysBounded`** and **`ThumbsKeepTheirNames`** of `ThumbCache`: for any pictures, names, requests, handles and size, and whatever handle a picture gets. `ThumbIsOfName` says that what a name shows is of that name or
  took over a handle of that name's later; nothing in the code invalidates the cache or the row, so no more can hold. It needs that a row has a handle that has borne its name (`OwnRows`), so a request in flight has one too, and that
  an object's name is the last of those that its handle has borne; between the lookup and the fetch the handle can only bear more (`BorneGrows`), so what is fetched then still follows (`CachedFollow`).
* **`SettingsTypeCorrect`**, **`SettingsAgree`** (`[]SettingsSurviveRestart`) and **`StoredValuesStay`** (`StoredValuesKept`) of `Settings`: for any number of requests, values and
  keys named. `SettingsSurviveRestart` is not inductive: that the second of a request's two updates restores agreement needs to know what the first one wrote, and that nobody wrote since.
  `Agreement` says so: the keys a busy request names are not counted as agreed, a request that is alone is the only busy one, and what it wrote first is there still. `StoredValuesKept` needs that only a
  process that is up has requests and that no request carries a placeholder (`Sendable`).
* **`LogTypeCorrect`** and **`EveryLineSeen`** (`[]ViewerSeesAll`) of `LogStream`: for any capacities, viewers and number of lines. `LogInv` adds that the ring holds the last lines without a gap and that the
  history is empty once the channel is read: taking a line from the history or the channel then leaves what is on its way as it is (`Parts`), and a line written is appended to it or
  missed (`SeesNext`).
* **`ScanTypeCorrect`** and **`ScanLosesNothing`** of `LanScan`: for any finite set of hosts, any candidates and any number of places. `Phases` says which addresses have a goroutine in
  which phase of the loop, `Kept` that what was answered is in the results or about to be. With `Counts`, the loop's `wg.Wait` returns only when no goroutine is left, so nothing is appended later.

The assumptions are the `ASSUME`s of the modules: the capacities and the retry limit are numbers,
the markers (`NoRow`, `NoImage`, `NoFile`, `Partial`) are no data, the names of the
fixed goroutines are no handlers, `Handles` maps files to URLs, the hosts are finitely many (`LanScan`), the cards are forests (`LayoutsAssumption`, see
*Listings*). TLC evaluates each of them in the runs whose module extends the one that states it.

### Delivery

The theorems of `UploadQueueDeliveryProofs` hold under conditions, which are hypotheses of the theorem and stated in it. Each is one
that the code relies on without ensuring it, each is met by instances that TLC runs, and without it TLC finds a counterexample:

| Theorem | Conditions | Without them |
|---|---|---|
| `URLsStayUnique` | none | |
| `UploadingStaysOwned` | `~Renumbers` | a row is moved to another handle while its upload runs, and the end of the upload finds no row |
| `DoneStaysStored`, `DeletedStaysStored`, `QueueImplementsDelivery`, `NothingLeavesUnstored` | `HandlesIdentify` (no handle is given to two files), `AtomicBackend` (a failed upload leaves nothing) | a worker downloads what the handle stands for now (the instance with `SharedHandles` above); two workers have the same picture, and the failure of one spoils the copy of the other |
| `OneWorkerDelivers` | `HandlesIdentify`, `OneWorker`, `~Renumbers`; not `AtomicBackend` | as above, with two workers |
| `FailedStaysExhausted` | those, and `"clear" \notin Requests` | a clear resets `retry_count` under an upload, which then fails with the count that it read; two workers overwrite each other's count |

The default is four workers (config.go), the example configuration has one; backends that write in place are not atomic. So the first line of conditions is about what to
demand of a backend, the second about what one worker gives without it.

The argument for `Delivery` is about reliance. `Relied(f)` says that somebody takes it that `f` is stored: the table calls it done, the picture has gone from the card, or a worker is about to
report or delete it. `Reliable` says that what is relied on is whole in the backend. A step that begins to rely on `f` is the end of its upload, so its copy must be right: `HandsOver`, that what a worker has in hand
is the image's file, which follows from `OwnHandles` (every image in a channel, a producer's or worker's hands or a row has a handle of its own file) and `HandlesIdentify`. A step that
changes a copy is an upload: with `AtomicBackend` it only ever adds the right one. `DoneIsStored` and `DeletedIsStored` are then two of the three cases of `Relied`.
For the refinement, `DeliveryStep` maps each action: an upload is `Store`, a deletion `Remove`, `TakePicture` `Photograph`, whatever changes the table `Report`, and all others stutter; `Report` may not forget a row or
call done what is not stored, which is `RowsRemain` and `ReportStep`.

With one worker an upload that fails may spoil a copy, so nobody may rely on it meanwhile: `RowInFlight` says that the row of the image that the only worker
is busy with is not done or failed. That needs the row to stay where it is, found by the handle of the image: `HandlesStay` and `RowsStay`, for a camera that does not renumber. `RowCounted` adds that
the row's `retry_count` is the one that the worker read, so it says failed only at the limit.

`UploadingIsOwned` is kept because a row becomes uploading only by `MarkUploading` (`StatusBegins`) and a worker's flight ends only with a statement on that same row (`FlightEnds`), which finds it as long as the row keeps the
handle (`HandlesStay`). `URLsUnique` needs `RowsOfURLs`: between the lookup and the write of `FindOrCreate` no row gets the URL that was looked for, because only discovery writes URLs.

### Listings

`EnumerationProofs` is about what `listImages` returns, for every card that is a forest (`IsForest`: finitely many objects, each at the root of one storage or below one other object, nothing below a
picture, storages apart). That is what the code relies on when it recurses without a set of visited handles, and it is an `ASSUME` about `Layouts`, which TLC evaluates for the cards of its runs.

* **`EnumTypeCorrect`**, `EnumSpec => []EnumTypeOK`: what becomes known was taken.
* **`ListingNamesEachOnce`**: a listing that succeeds names each picture once, and only pictures that are on the card and not known. This holds for every forest, with virtual handles or without, and whatever question
  fails: a picture is not listed twice although the folders are listed one by one, under names, and the root perhaps again after them. The argument: what is walked from different starts of a storage
  is disjoint (a handle has one parent, and no start lies below another); two storages share nothing; and the second listing of a storage takes place only if the first found nothing.
* **`PlainListingIsFaithful`**, `EnumSpec => []ListingIsFaithful`, if every card is plain (`IsPlain`): no virtual handles, nothing deeper than `MaxDepth`, one `DCIM` in a storage, no two folders of one name in
  it, and in a storage that has such folders every picture is in one. Then a listing also finds every picture, while no question fails, and tags each with the name of its own folder. The argument: every walked
  object has a folder as its start, its `home`, which the walk keeps (`PlainMaps`); and every picture is as deep as `depth` says, so the level of that number has it. `MCServices` asserts `IsPlain` of two of the cards of the run
  (`SomeCardsArePlain`), so the hypothesis is met by what TLC checks.

The levels of a walk and the storages of a listing are recursive functions. That such a function has the value its definition says is proved from well-foundedness of `<` on the numbers: a set of numbers that has
a member has a least one (`LeastElement`), from which follows induction for a set of numbers (`SetInduction`, `BoundedInduction`), so no theorem with an operator as parameter is needed.

### The parts together

`MCServicesProofs` is about `Spec` of `MCServices`, the specification of the run `services`. A step of it is a step of one part and leaves the others alone, so it is a step or a stutter of each (`PartSteps`), and
`ServicesInv`, the conjunction of the six invariants, is inductive. Hence **`ServicesTypeCorrect`** (`[]ServicesTypeOK`), **`ServicesSafe`** (the other safety invariants of the run), **`ServicesKeepValues`** (`StoredValuesKept`),
**`ServicesListEachOnce`**, **`ServicesListFaithfully`**.

### What is only model-checked

The liveness properties: the prover has no fairness. `ListingIsFaithful` on cards with virtual handles, beyond `ListingNamesEachOnce`: the folders that the second pass finds there depend on which of their pictures are present,
unnamed ones are numbered in the order of discovery, and the property allows the numbers that the instance can give. The claims of the runs that expect a violation are false of the code, so there is nothing to prove.

## 5. What is not modelled

Backend protocols, HTTP parsing, the web page, formatting of log lines, reading the configuration file and migration hold no state that others
race for, or are calls into libraries. Of camera discovery, the enumeration of subnets and the mDNS advertisement of `cmd/discover` are network
I/O. Downloads stream from the camera without keeping anything. The parsing of settings, dates and packets is left out: no property is about it.
Destinations (`dest_path`), upload progress and database errors are left out of the table.

## 6. Plan

1. Done: `ImageRecords`, `UploadQueue`, `Delivery`, their runs, `TypeCorrect`, `TokensCorrect`.
2. Done: `Poller`, its runs, `MemoryIsCovered`.
3. Done: `PtpSession`, its runs, `SocketsAreOwned`, `DataIsOwn`, `SuccessIsInSync`.
4. Done: `ObjectEnumeration`, `WebPush`, `LogStream`, `ThumbCache`, `Settings`, `LanScan`, their run, and the proofs about them.
5. Done: the theorems about delivery, step by step to the refinement; `HandedOnce`, `SettingsSurviveRestart`, `ViewerSeesAll`; listings; the composition.
6. Destinations (`dest_path`) and database errors in `UploadQueue`; then `FailedIsExhausted` for several workers, in the weaker form that holds there.
