----------------------------- MODULE UploadQueue -----------------------------
(* The upload queue of internal/pipeline: the push channel and the set of URLs *)
(* believed to be in it, the pause gate, the upload workers, and the four kinds *)
(* of goroutine that enqueue (start-up, discovery, retry scheduler, HTTP        *)
(* handlers), over the image table, the camera and the storage backend.         *)
EXTENDS ImageRecords, Sequences

CONSTANTS Workers, Handlers,
          PushChanCapacity,   \* pushChanCapacity
          DeleteAfterUpload,  \* camera.delete_after_upload
          AtomicBackend,      \* a failed Upload leaves no partial file behind
          Handles,            \* Handles[f]: the URLs the camera may give to f
          OnCard,             \* the files on the card at the first start
          Renumbers,          \* the camera may assign its handles anew
          Requests,           \* the user requests that may arrive
          CanStop,            \* the ways the process may end: "crash", "signal"
          NoImage, NoFile, Partial

ASSUME CapacityAssumption == PushChanCapacity \in Nat \ {0}
ASSUME HandlesAssumption == Handles \in [Filenames -> SUBSET URLs]
ASSUME OnCardAssumption == OnCard \subseteq Filenames
ASSUME FlagsAssumption == {DeleteAfterUpload, AtomicBackend, Renumbers} \subseteq BOOLEAN
ASSUME NoImageAssumption == NoImage \notin Image
ASSUME NoFileAssumption ==
  NoFile \notin Filenames /\ Partial \notin Filenames /\ NoFile # Partial

Main == "main"            \* the start-up code of main.go
Discovery == "discovery"  \* the goroutine that drains the poller
Scheduler == "scheduler"  \* retryScheduler
Producers == Handlers \cup {Main, Discovery, Scheduler}

ASSUME HandlersAssumption == Handlers \cap {Main, Discovery, Scheduler} = {}

VARIABLES
  db,         \* the image table (durable)
  camera,     \* URL -> the file behind that handle
  taken,      \* the files ever written to the card
  backend,    \* filename -> the picture stored under that name
  auto,       \* the camera folder has an auto-upload pairing (durable)
  phase,      \* how far the process has got
  pushCh,     \* Pipeline.pushCh
  inChannel,  \* Pipeline.inChannel
  paused,     \* Pipeline.paused: the gate is closed
  seen,       \* Poller.seen: URLs emitted by this process
  worker,     \* the locals of each upload worker
  producer    \* the locals of each enqueuing goroutine

durable == <<db, backend, auto>>
card == <<camera, taken>>
queue == <<pushCh, inChannel>>
vars == <<durable, card, queue, phase, paused, seen, worker, producer>>

IdleWorker == [pc |-> "gate", img |-> NoImage, retry |-> 0, data |-> NoFile]
IdleProducer == [pc |-> "idle", todo |-> {}, hold |-> NoImage]

WorkerPC == {"gate", "recv", "untrack", "check", "requeue", "gate2", "mark", "read", "download",
             "upload", "finish", "delete", "evict", "fail", "returned"}
ProducerPC == {"idle", "lookup", "insert", "rebind", "reuse", "pair", "fetch", "mark",
               "queue", "requeue", "push", "send", "drain", "untrack", "restore"}

WorkerLocals == [pc : WorkerPC, img : Image \cup {NoImage},
                 retry : 0 .. MaxRetries, data : Filenames \cup {NoFile}]
ProducerLocals == [pc : ProducerPC, todo : SUBSET Image, hold : Image \cup {NoImage}]

\* What Download can return and Upload can leave behind.
Content == Filenames \cup {NoFile, Partial}

TypeOK ==
  /\ db \in Table
  /\ camera \in [URLs -> Filenames \cup {NoFile}]
  /\ taken \subseteq Filenames
  /\ backend \in [Filenames -> Content]
  /\ auto \in BOOLEAN
  /\ phase \in {"down", "reset", "fresh", "sync", "synced", "running", "stopping"}
  /\ pushCh \in Seq(Image)
  /\ Len(pushCh) <= PushChanCapacity
  /\ inChannel \subseteq URLs
  /\ paused \in BOOLEAN
  /\ seen \subseteq URLs
  /\ worker \in [Workers -> WorkerLocals]
  /\ producer \in [Producers -> ProducerLocals]

OnCamera(c) == {f \in Filenames : \E u \in URLs : c[u] = f}

\* No two handles lead to one file, and each file has a handle it may have.
Card(c) ==
  /\ c \in [URLs -> Filenames \cup {NoFile}]
  /\ \A u \in URLs : c[u] # NoFile => u \in Handles[c[u]]
  /\ \A u, v \in URLs : c[u] = c[v] /\ c[u] # NoFile => u = v

Cards(files) == {c \in [URLs -> Filenames \cup {NoFile}] : Card(c) /\ OnCamera(c) = files}

Init ==
  /\ db = EmptyTable
  /\ camera \in Cards(OnCard)
  /\ taken = OnCard
  /\ backend = [f \in Filenames |-> NoFile]
  /\ auto \in BOOLEAN
  /\ phase = "down"
  /\ pushCh = <<>>
  /\ inChannel = {}
  /\ paused = FALSE
  /\ seen = {}
  /\ worker = [w \in Workers |-> IdleWorker]
  /\ producer = [p \in Producers |-> IdleProducer]

-----------------------------------------------------------------------------
(* The loop of Queue and of retryScheduler over the images to enqueue.  The   *)
(* reservation in inChannel, the send and its default branch are separate     *)
(* steps of the goroutine; todo is a set because the queries give no order.   *)

\* The goroutine goes on with the images in rest, or is finished with them.
Continue(p, pc, rest) ==
  [producer EXCEPT ![p] =
     IF rest = {} THEN IdleProducer
     ELSE [pc |-> pc, todo |-> rest, hold |-> NoImage]]

SkipTracked(p) ==
  /\ producer[p].pc = "push"
  /\ \E img \in producer[p].todo :
       /\ img.url \in inChannel
       /\ producer' = Continue(p, "push", producer[p].todo \ {img})
  /\ UNCHANGED <<durable, card, queue, phase, paused, seen, worker>>

Reserve(p) ==
  /\ producer[p].pc = "push"
  /\ \E img \in producer[p].todo :
       /\ img.url \notin inChannel
       /\ inChannel' = inChannel \cup {img.url}
       /\ producer' = [producer EXCEPT ![p] =
            [pc |-> "send", todo |-> producer[p].todo \ {img}, hold |-> img]]
  /\ UNCHANGED <<durable, card, pushCh, phase, paused, seen, worker>>

Send(p) ==
  /\ producer[p].pc = "send"
  /\ Len(pushCh) < PushChanCapacity
  /\ pushCh' = Append(pushCh, producer[p].hold)
  /\ producer' = Continue(p, "push", producer[p].todo)
  /\ UNCHANGED <<durable, card, inChannel, phase, paused, seen, worker>>

\* Faulty variant of DropFull: the reservation is not given back.
DropFullStillTracked(p) ==
  /\ producer[p].pc = "send"
  /\ Len(pushCh) >= PushChanCapacity
  /\ producer' = Continue(p, "push", producer[p].todo)
  /\ UNCHANGED <<durable, card, queue, phase, paused, seen, worker>>

DropFull(p) ==
  /\ producer[p].pc = "send"
  /\ Len(pushCh) >= PushChanCapacity
  /\ inChannel' = inChannel \ {producer[p].hold.url}
  /\ producer' = Continue(p, "push", producer[p].todo)
  /\ UNCHANGED <<durable, card, pushCh, phase, paused, seen, worker>>

\* Queue decides once, on entry, whether to send or only to mark as queued.
EnterQueue(p) ==
  /\ producer[p].pc = "queue"
  /\ producer' = [producer EXCEPT ![p].pc = IF paused THEN "requeue" ELSE "push"]
  /\ UNCHANGED <<durable, card, queue, phase, paused, seen, worker>>

RequeuePaused(p) ==
  /\ producer[p].pc = "requeue"
  /\ \E img \in producer[p].todo :
       /\ db' = SetStatus(db, img.url, "queued")
       /\ producer' = Continue(p, "requeue", producer[p].todo \ {img})
  /\ UNCHANGED <<backend, auto, card, queue, phase, paused, seen, worker>>

Enqueue(p) == SkipTracked(p) \/ Reserve(p) \/ Send(p) \/ DropFull(p)
              \/ EnterQueue(p) \/ RequeuePaused(p)

-----------------------------------------------------------------------------
(* retryScheduler.                                                           *)

Running == phase \in {"running", "stopping"}

\* A tick that has passed the gate.
Tick ==
  /\ Running
  /\ producer[Scheduler].pc = "idle"
  /\ ~paused
  /\ producer' = [producer EXCEPT ![Scheduler].pc = "fetch"]
  /\ UNCHANGED <<durable, card, queue, phase, paused, seen, worker>>

\* Faulty variant of SchedulerFetch: images waiting to be retried are left out.
SchedulerFetchFreshOnly ==
  /\ producer[Scheduler].pc = "fetch"
  /\ producer' = Continue(Scheduler, "push", ListFreshQueued(db))
  /\ UNCHANGED <<durable, card, queue, phase, paused, seen, worker>>

SchedulerFetch ==
  /\ producer[Scheduler].pc = "fetch"
  /\ producer' = Continue(Scheduler, "push", ListFreshQueued(db) \cup ListReadyToRetry(db))
  /\ UNCHANGED <<durable, card, queue, phase, paused, seen, worker>>

\* next_retry_at of the row of f is reached.
BackoffExpires(f) ==
  /\ db[f] # NoRow
  /\ ~db[f].due
  /\ db' = [db EXCEPT ![f].due = TRUE]
  /\ UNCHANGED <<backend, auto, card, queue, phase, paused, seen, worker, producer>>

-----------------------------------------------------------------------------
(* The discovery goroutine.                                                  *)

\* The poller hands over a file whose URL it has not emitted in this process.
Emit(u) ==
  /\ phase = "running"
  /\ producer[Discovery].pc = "idle"
  /\ camera[u] # NoFile
  /\ u \notin seen
  /\ seen' = seen \cup {u}
  /\ producer' = [producer EXCEPT ![Discovery] =
       [pc |-> "lookup", todo |-> {}, hold |-> [file |-> camera[u], url |-> u]]]
  /\ UNCHANGED <<durable, card, queue, phase, paused, worker>>

FindOrCreateLookup ==
  /\ producer[Discovery].pc = "lookup"
  /\ LET found == Lookup(db, producer[Discovery].hold)
     IN  producer' = [producer EXCEPT ![Discovery] =
           IF found = "known" THEN IdleProducer ELSE [@ EXCEPT !.pc = found]]
  /\ UNCHANGED <<durable, card, queue, phase, paused, seen, worker>>

FindOrCreateWrite ==
  LET img == producer[Discovery].hold
      created == [producer EXCEPT ![Discovery].pc = "pair"]
      notCreated == [producer EXCEPT ![Discovery] = IdleProducer]
  IN  /\ \/ /\ producer[Discovery].pc = "rebind"
            /\ db' = Rebind(db, img)
            /\ producer' = notCreated
         \/ /\ producer[Discovery].pc = "insert"
            /\ db' = Insert(db, img)
            /\ producer' = created
         \/ /\ producer[Discovery].pc = "reuse"
            /\ CanReuse(db, img)
            /\ db' = Reuse(db, img)
            /\ producer' = created
         \/ /\ producer[Discovery].pc = "reuse"
            /\ ~CanReuse(db, img)
            /\ producer' = notCreated
            /\ UNCHANGED db
      /\ UNCHANGED <<backend, auto, card, queue, phase, paused, seen, worker>>

\* Only an image that was just created is queued, and only if its folder says so.
AutoQueue ==
  LET img == producer[Discovery].hold
  IN  /\ producer[Discovery].pc = "pair"
      /\ db' = IF auto THEN MarkQueuedWithMeta(db, {img.url}) ELSE db
      /\ producer' = [producer EXCEPT ![Discovery] =
           IF auto THEN [pc |-> "queue", todo |-> {img}, hold |-> NoImage]
           ELSE IdleProducer]
      /\ UNCHANGED <<backend, auto, card, queue, phase, paused, seen, worker>>

Discover == FindOrCreateLookup \/ FindOrCreateWrite \/ AutoQueue

-----------------------------------------------------------------------------
(* The upload workers.                                                       *)

Step(w, next) == worker' = [worker EXCEPT ![w] = next]

Goto(w, pc) == Step(w, [worker[w] EXCEPT !.pc = pc])

\* awaitGate: with a cancelled context and an open gate either may win.
PassGate(w) ==
  /\ Running
  /\ worker[w].pc = "gate"
  /\ \/ ~paused /\ Goto(w, "recv")
     \/ phase = "stopping" /\ Goto(w, "returned")
  /\ UNCHANGED <<durable, card, queue, phase, paused, seen, producer>>

Receive(w) ==
  /\ worker[w].pc = "recv"
  /\ pushCh # <<>>
  /\ pushCh' = Tail(pushCh)
  /\ Step(w, [worker[w] EXCEPT !.pc = "untrack", !.img = Head(pushCh)])
  /\ UNCHANGED <<durable, card, inChannel, phase, paused, seen, producer>>

Cancelled(w) ==
  /\ worker[w].pc = "recv"
  /\ phase = "stopping"
  /\ Goto(w, "returned")
  /\ UNCHANGED <<durable, card, queue, phase, paused, seen, producer>>

Untrack(w) ==
  /\ worker[w].pc = "untrack"
  /\ inChannel' = inChannel \ {worker[w].img.url}
  /\ Goto(w, "check")
  /\ UNCHANGED <<durable, card, pushCh, phase, paused, seen, producer>>

RecheckPause(w) ==
  /\ worker[w].pc = "check"
  /\ Goto(w, IF paused THEN "requeue" ELSE "gate2")
  /\ UNCHANGED <<durable, card, queue, phase, paused, seen, producer>>

\* Paused after the receive: the image goes back to the table, not the channel.
Requeue(w) ==
  /\ worker[w].pc = "requeue"
  /\ db' = SetStatus(db, worker[w].img.url, "queued")
  /\ Step(w, IdleWorker)
  /\ UNCHANGED <<backend, auto, card, queue, phase, paused, seen, producer>>

PassSecondGate(w) ==
  /\ worker[w].pc = "gate2"
  /\ \/ /\ ~paused
        /\ Goto(w, "mark")
        /\ UNCHANGED db
     \/ /\ phase = "stopping"
        /\ db' = SetStatus(db, worker[w].img.url, "queued")
        /\ Step(w, [IdleWorker EXCEPT !.pc = "returned"])
  /\ UNCHANGED <<backend, auto, card, queue, phase, paused, seen, producer>>

MarkUploading(w) ==
  /\ worker[w].pc = "mark"
  /\ db' = SetStatus(db, worker[w].img.url, "uploading")
  /\ Goto(w, "read")
  /\ UNCHANGED <<backend, auto, card, queue, phase, paused, seen, producer>>

\* The start of processImage: retry_count is read by filename, once.
ReadEntry(w) ==
  LET row == db[worker[w].img.file]
  IN  /\ worker[w].pc = "read"
      /\ IF phase = "stopping"
         THEN /\ db' = SetStatus(db, worker[w].img.url, "queued")
              /\ Step(w, IdleWorker)
         ELSE /\ Step(w, [worker[w] EXCEPT
                            !.pc = "download",
                            !.retry = IF row = NoRow THEN 0 ELSE row.retry])
              /\ UNCHANGED db
      /\ UNCHANGED <<backend, auto, card, queue, phase, paused, seen, producer>>

\* The object is fetched by handle: whatever file the handle now leads to.
DownloadImage(w) ==
  LET u == worker[w].img.url
  IN  /\ worker[w].pc = "download"
      /\ \/ /\ camera[u] # NoFile
            /\ Step(w, [worker[w] EXCEPT !.pc = "upload", !.data = camera[u]])
         \/ Goto(w, "fail")
      /\ UNCHANGED <<durable, card, queue, phase, paused, seen, producer>>

\* Faulty variant of Upload: the error is ignored.
UploadIgnoresError(w) ==
  LET f == worker[w].img.file
  IN  /\ worker[w].pc = "upload"
      /\ \/ backend' = [backend EXCEPT ![f] = worker[w].data]
         \/ UNCHANGED backend
      /\ Goto(w, "finish")
      /\ UNCHANGED <<db, auto, card, queue, phase, paused, seen, producer>>

\* backend.Upload stores the data under the filename of the queued image.
Upload(w) ==
  LET f == worker[w].img.file
  IN  /\ worker[w].pc = "upload"
      /\ \/ /\ backend' = [backend EXCEPT ![f] = worker[w].data]
            /\ Goto(w, "finish")
         \/ /\ \/ UNCHANGED backend
               \/ ~AtomicBackend /\ backend' = [backend EXCEPT ![f] = Partial]
            /\ Goto(w, "fail")
      /\ UNCHANGED <<db, auto, card, queue, phase, paused, seen, producer>>

Finish(w) ==
  /\ worker[w].pc = "finish"
  /\ db' = SetStatus(db, worker[w].img.url, "done")
  /\ IF DeleteAfterUpload THEN Goto(w, "delete") ELSE Step(w, IdleWorker)
  /\ UNCHANGED <<backend, auto, card, queue, phase, paused, seen, producer>>

\* The camera may have deleted the object although its answer is lost.
DeleteObject(w) ==
  LET u == worker[w].img.url
  IN  /\ worker[w].pc = "delete"
      /\ \/ /\ camera[u] # NoFile
            /\ camera' = [camera EXCEPT ![u] = NoFile]
            /\ Goto(w, "evict") \/ Step(w, IdleWorker)
         \/ /\ Step(w, IdleWorker)
            /\ UNCHANGED camera
      /\ UNCHANGED <<durable, taken, queue, phase, paused, seen, producer>>

EvictHandle(w) ==
  /\ worker[w].pc = "evict"
  /\ seen' = seen \ {worker[w].img.url}
  /\ Step(w, IdleWorker)
  /\ UNCHANGED <<durable, card, queue, phase, paused, producer>>

\* Faulty variants of HandleFailure: an off-by-one, or the wrong final status.
HandleFailureWith(w, Limit, final) ==
  LET u == worker[w].img.url
      n == worker[w].retry
  IN  /\ worker[w].pc = "fail"
      /\ db' = IF n < Limit THEN SetRetryQueued(db, u, n + 1)
               ELSE SetStatus(db, u, final)
      /\ Step(w, IdleWorker)
      /\ UNCHANGED <<backend, auto, card, queue, phase, paused, seen, producer>>

RetryOnceTooOften(w) == HandleFailureWith(w, MaxRetries + 1, "failed")
RetryOnceTooSeldom(w) == HandleFailureWith(w, MaxRetries - 1, "failed")
ReportDoneAtLast(w) == HandleFailureWith(w, MaxRetries, "done")

\* The attempt counts from the retry_count that was read, not the current one.
HandleFailure(w) ==
  LET u == worker[w].img.url
      n == worker[w].retry
  IN  /\ worker[w].pc = "fail"
      /\ db' = IF n < MaxRetries THEN SetRetryQueued(db, u, n + 1)
               ELSE SetStatus(db, u, "failed")
      /\ Step(w, IdleWorker)
      /\ UNCHANGED <<backend, auto, card, queue, phase, paused, seen, producer>>

Work(w) ==
  \/ PassGate(w) \/ Receive(w) \/ Cancelled(w) \/ Untrack(w) \/ RecheckPause(w) \/ Requeue(w)
  \/ PassSecondGate(w) \/ MarkUploading(w) \/ ReadEntry(w) \/ DownloadImage(w)
  \/ Upload(w) \/ Finish(w) \/ DeleteObject(w) \/ EvictHandle(w) \/ HandleFailure(w)

-----------------------------------------------------------------------------
(* The requests of the web interface.  Each HTTP handler is a goroutine.      *)

Accept(h, request) ==
  /\ request \in Requests
  /\ phase = "running"
  /\ producer[h].pc = "idle"

HandlePause(h) ==
  /\ Accept(h, "pause")
  /\ paused' = TRUE
  /\ UNCHANGED <<durable, card, queue, phase, seen, worker, producer>>

HandleResume(h) ==
  /\ Accept(h, "pause")
  /\ paused' = FALSE
  /\ UNCHANGED <<durable, card, queue, phase, seen, worker, producer>>

HandleAutoUpload(h) ==
  /\ Accept(h, "auto")
  /\ auto' = ~auto
  /\ UNCHANGED <<db, backend, card, queue, phase, paused, seen, worker, producer>>

\* handleQueue only marks rows: the scheduler's next tick enqueues them.
HandleQueue(h) ==
  /\ Accept(h, "queue")
  /\ \E files \in SUBSET Filenames :
       /\ DiscoveredByFilenames(db, files) # {}
       /\ producer' = Continue(h, "mark", DiscoveredByFilenames(db, files))
  /\ UNCHANGED <<durable, card, queue, phase, paused, seen, worker>>

MarkSelected(h) ==
  /\ producer[h].pc = "mark"
  /\ db' = MarkQueuedWithMeta(db, {img.url : img \in producer[h].todo})
  /\ producer' = [producer EXCEPT ![h] = IdleProducer]
  /\ UNCHANGED <<backend, auto, card, queue, phase, paused, seen, worker>>

HandleQueueAll(h) ==
  /\ Accept(h, "queue-all")
  /\ WhereStatus(db, "discovered") # {}
  /\ db' = MarkAllDiscoveredQueued(db)
  /\ producer' = [producer EXCEPT ![h].pc = "fetch"]
  /\ UNCHANGED <<backend, auto, card, queue, phase, paused, seen, worker>>

HandleRetryFailed(h) ==
  /\ Accept(h, "retry-failed")
  /\ WhereStatus(db, "failed") # {}
  /\ db' = ResetFailed(db)
  /\ producer' = [producer EXCEPT ![h].pc = "fetch"]
  /\ UNCHANGED <<backend, auto, card, queue, phase, paused, seen, worker>>

\* Every fresh queued image is handed to Queue, not only the ones just reset.
HandlerFetch(h) ==
  /\ producer[h].pc = "fetch"
  /\ producer' = Continue(h, "queue", ListFreshQueued(db))
  /\ UNCHANGED <<durable, card, queue, phase, paused, seen, worker>>

\* ClearQueue: the table first, then the channel one image at a time.
HandleClear(h) ==
  /\ Accept(h, "clear")
  /\ db' = ResetQueued(db)
  /\ producer' = [producer EXCEPT ![h].pc = "drain"]
  /\ UNCHANGED <<backend, auto, card, queue, phase, paused, seen, worker>>

DrainOne(h) ==
  /\ producer[h].pc = "drain"
  /\ pushCh # <<>>
  /\ pushCh' = Tail(pushCh)
  /\ producer' = [producer EXCEPT ![h] =
       [pc |-> "untrack", todo |-> {}, hold |-> Head(pushCh)]]
  /\ UNCHANGED <<durable, card, inChannel, phase, paused, seen, worker>>

DrainEnd(h) ==
  /\ producer[h].pc = "drain"
  /\ pushCh = <<>>
  /\ producer' = [producer EXCEPT ![h] = IdleProducer]
  /\ UNCHANGED <<durable, card, queue, phase, paused, seen, worker>>

\* Faulty variant of DrainUntrack: the drained image stays tracked.
DrainStillTracked(h) ==
  /\ producer[h].pc = "untrack"
  /\ producer' = [producer EXCEPT ![h].pc = "restore"]
  /\ UNCHANGED <<durable, card, queue, phase, paused, seen, worker>>

DrainUntrack(h) ==
  /\ producer[h].pc = "untrack"
  /\ inChannel' = inChannel \ {producer[h].hold.url}
  /\ producer' = [producer EXCEPT ![h].pc = "restore"]
  /\ UNCHANGED <<durable, card, pushCh, phase, paused, seen, worker>>

DrainRestore(h) ==
  /\ producer[h].pc = "restore"
  /\ db' = SetStatus(db, producer[h].hold.url, "discovered")
  /\ producer' = [producer EXCEPT ![h] = [IdleProducer EXCEPT !.pc = "drain"]]
  /\ UNCHANGED <<backend, auto, card, queue, phase, paused, seen, worker>>

Request(h) ==
  \/ HandlePause(h) \/ HandleResume(h) \/ HandleAutoUpload(h) \/ HandleQueue(h)
  \/ HandleQueueAll(h) \/ HandleRetryFailed(h) \/ HandleClear(h)

Handle(h) ==
  \/ MarkSelected(h) \/ HandlerFetch(h) \/ DrainOne(h) \/ DrainEnd(h)
  \/ DrainUntrack(h) \/ DrainRestore(h)

-----------------------------------------------------------------------------
(* Start-up, shutdown and crashes.  The table, the pairings and the backend   *)
(* survive; everything else is in memory.                                     *)

Boot ==
  /\ phase = "down"
  /\ phase' = "reset"
  /\ UNCHANGED <<durable, card, queue, paused, seen, worker, producer>>

\* Faulty variant of BootReset: interrupted uploads are not recovered.
BootWithoutReset ==
  /\ phase = "reset"
  /\ phase' = "fresh"
  /\ UNCHANGED <<durable, card, queue, paused, seen, worker, producer>>

BootReset ==
  /\ phase = "reset"
  /\ db' = ResetStuckUploading(db)
  /\ phase' = "fresh"
  /\ UNCHANGED <<backend, auto, card, queue, paused, seen, worker, producer>>

BootEnqueue ==
  /\ phase = "fresh"
  /\ producer' = Continue(Main, "queue", ListFreshQueued(db))
  /\ phase' = "sync"
  /\ UNCHANGED <<durable, card, queue, paused, seen, worker>>

\* Faulty variant of BootSync: no synchronisation at start-up.
BootWithoutSync ==
  /\ phase = "sync"
  /\ producer[Main].pc = "idle"
  /\ phase' = "synced"
  /\ UNCHANGED <<durable, card, queue, paused, seen, worker, producer>>

\* Auto-upload images left discovered by a crash between Add and the marking.
BootSync ==
  LET images == ToImages(db, WhereStatus(db, "discovered"))
  IN  /\ phase = "sync"
      /\ producer[Main].pc = "idle"
      /\ db' = IF auto THEN MarkQueuedWithMeta(db, {img.url : img \in images}) ELSE db
      /\ producer' = IF auto THEN Continue(Main, "queue", images) ELSE producer
      /\ phase' = "synced"
      /\ UNCHANGED <<backend, auto, card, queue, paused, seen, worker>>

\* Pipeline.Run and the web server start once main has enqueued.
BootRun ==
  /\ phase = "synced"
  /\ producer[Main].pc = "idle"
  /\ phase' = "running"
  /\ UNCHANGED <<durable, card, queue, paused, seen, worker, producer>>

\* SIGTERM cancels the context; the workers return one by one.
Signal ==
  /\ "signal" \in CanStop
  /\ phase = "running"
  /\ phase' = "stopping"
  /\ UNCHANGED <<durable, card, queue, paused, seen, worker, producer>>

ForgetMemory ==
  /\ phase' = "down"
  /\ pushCh' = <<>>
  /\ inChannel' = {}
  /\ paused' = FALSE
  /\ seen' = {}
  /\ worker' = [w \in Workers |-> IdleWorker]
  /\ producer' = [p \in Producers |-> IdleProducer]
  /\ UNCHANGED <<durable, card>>

Exit ==
  /\ phase = "stopping"
  /\ \A w \in Workers : worker[w].pc = "returned"
  /\ ForgetMemory

\* A crash, a power cut, or the re-exec of POST /api/system/restart.
Crash ==
  /\ "crash" \in CanStop
  /\ phase # "down"
  /\ ForgetMemory

Startup == Boot \/ BootReset \/ BootEnqueue \/ BootSync \/ BootRun

-----------------------------------------------------------------------------
(* The camera: new pictures, and handles assigned anew.                      *)

TakePicture(f) ==
  /\ f \notin taken
  /\ taken' = taken \cup {f}
  /\ \E u \in Handles[f] :
       /\ camera[u] = NoFile
       /\ camera' = [camera EXCEPT ![u] = f]
  /\ UNCHANGED <<durable, queue, phase, paused, seen, worker, producer>>

RenumberHandles ==
  /\ Renumbers
  /\ camera' \in Cards(OnCamera(camera))
  /\ camera' # camera
  /\ UNCHANGED <<durable, taken, queue, phase, paused, seen, worker, producer>>

Camera == RenumberHandles \/ \E f \in Filenames : TakePicture(f)

-----------------------------------------------------------------------------
Next ==
  \/ \E w \in Workers : Work(w)
  \/ \E p \in Producers : Enqueue(p)
  \/ \E h \in Handlers : Request(h) \/ Handle(h)
  \/ \E f \in Filenames : BackoffExpires(f)
  \/ \E u \in URLs : Emit(u)
  \/ Tick \/ SchedulerFetch
  \/ Discover
  \/ Startup \/ Signal \/ Exit \/ Crash
  \/ Camera

Spec == Init /\ [][Next]_vars

-----------------------------------------------------------------------------
(* Fairness: the Go scheduler runs every goroutine that can go on, timers     *)
(* fire, and the process is restarted.  Users, crashes and the camera's own   *)
(* actions are never forced to happen.                                        *)

Fairness ==
  /\ \A w \in Workers : WF_vars(Work(w))
  /\ \A p \in Producers : WF_vars(Enqueue(p))
  /\ \A h \in Handlers : WF_vars(Handle(h))
  /\ \A f \in Filenames : WF_vars(BackoffExpires(f))
  /\ \A u \in URLs : WF_vars(Emit(u))
  /\ WF_vars(Tick) /\ WF_vars(SchedulerFetch)
  /\ WF_vars(Discover)
  /\ WF_vars(Startup) /\ WF_vars(Exit)

FairSpec == Spec /\ Fairness

-----------------------------------------------------------------------------
(* Properties.                                                               *)

\* Whoever has taken an image out of the channel, or has reserved a place for
\* it, and has not yet said so in inChannel or in the channel.
HoldsToken(p) == producer[p].pc \in {"send", "untrack"}
TakesToken(w) == worker[w].pc = "untrack"

\* inChannel and pushCh are updated by different steps of different goroutines.
\* The URLs in inChannel are exactly those in the channel, reserved by a
\* producer or just received, and each is in one such place only: so an image
\* is never twice in the channel and never tracked without being anywhere.
TokensConserved ==
  /\ \A i, j \in DOMAIN pushCh : pushCh[i].url = pushCh[j].url => i = j
  /\ \A i \in DOMAIN pushCh, p \in Producers :
       HoldsToken(p) => pushCh[i].url # producer[p].hold.url
  /\ \A i \in DOMAIN pushCh, w \in Workers :
       TakesToken(w) => pushCh[i].url # worker[w].img.url
  /\ \A p, q \in Producers :
       HoldsToken(p) /\ HoldsToken(q) /\ producer[p].hold.url = producer[q].hold.url
         => p = q
  /\ \A w, v \in Workers :
       TakesToken(w) /\ TakesToken(v) /\ worker[w].img.url = worker[v].img.url => w = v
  /\ \A p \in Producers, w \in Workers :
       HoldsToken(p) /\ TakesToken(w) => producer[p].hold.url # worker[w].img.url
  /\ inChannel = {pushCh[i].url : i \in DOMAIN pushCh}
                   \cup {producer[p].hold.url : p \in {q \in Producers : HoldsToken(q)}}
                   \cup {worker[w].img.url : w \in {v \in Workers : TakesToken(v)}}

\* A row that says done ("successfully uploaded") is the row of a file whose
\* own picture is in the backend under its own name.
DoneIsStored ==
  \A f \in WhereStatus(db, "done") : backend[f] = f

\* A picture that is no longer on the card is in the backend.
DeletedIsStored ==
  \A f \in taken : f \notin OnCamera(camera) => backend[f] = f

InFlight(w) == worker[w].pc \in {"read", "download", "upload", "finish", "fail"}

\* While the pipeline runs, a row that says uploading has a worker busy with it.
UploadingIsOwned ==
  phase \in {"fresh", "sync", "synced", "running", "stopping"} =>
    \A f \in WhereStatus(db, "uploading") :
      \E w \in Workers : InFlight(w) /\ worker[w].img.url = db[f].url

\* No upload stores a picture that an earlier upload has already stored.
UploadedOnce ==
  [][\A w \in Workers :
       worker[w].pc = "upload" /\ worker'[w].pc = "finish"
         => backend[worker[w].img.file] # worker[w].data]_vars

\* A row is only uploaded when it was queued: clearing the queue cancels.
ClearedIsNotUploaded ==
  [][\A f \in Recorded(db) :
       db[f].status = "discovered" /\ db'[f] # NoRow => db'[f].status # "uploading"]_vars

\* A row that says failed has used up its retries.
FailedIsExhausted == \A f \in WhereStatus(db, "failed") : db[f].retry = MaxRetries

\* The table has at most one row for a URL, without help from its unique index.
URLsUnique ==
  \A f, g \in Recorded(db) : db[f].url = db[g].url => f = g

Settled(f) == db[f] # NoRow /\ db[f].status \in {"done", "failed"}

StaysUp == <>[](phase = "running")
NoMoreRequests == <>[][\A h \in Handlers : ~Request(h)]_vars
NoRequests == [](~paused /\ \A h \in Handlers : producer[h].pc = "idle")

\* With an auto-upload pairing and a user who leaves the queue alone, every
\* picture taken is done or failed in the end: whatever crashes come first, none
\* stays discovered, queued or uploading, and none is never recorded.
AutoUploadCompletes ==
  StaysUp /\ []auto /\ NoRequests => \A f \in Filenames : f \in taken ~> Settled(f)

\* Once the gate stays open and the user leaves the queue alone, an image that
\* is queued or uploading is done, failed or cleared in the end: no drop, retry,
\* clear or crash leaves it in the table and nowhere else.
QueuedSettles ==
  StaysUp /\ <>[](~paused) /\ NoMoreRequests =>
    \A f \in Filenames :
      (db[f] # NoRow /\ db[f].status \in {"queued", "uploading"})
        ~> (db[f] # NoRow /\ db[f].status \in {"done", "failed", "discovered"})
=============================================================================
