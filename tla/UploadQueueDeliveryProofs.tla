---------------------- MODULE UploadQueueDeliveryProofs ----------------------
(* What the table says of a picture, where its copy is and who works on it:   *)
(* theorems for every value of the constants, and the refinement of Delivery. *)
EXTENDS UploadQueueProofs

\* The conditions under which a theorem holds, where it does not always.
HandlesIdentify == \A f, g \in Filenames : Handles[f] \cap Handles[g] # {} => f = g
OneWorker == \A v, w \in Workers : v = w

-----------------------------------------------------------------------------
(* Where images come from.                                                   *)

\* The states of discovery between the poller and the table.
Finds == {"lookup", "insert", "rebind", "reuse"}

InChannel(img) == \E i \in DOMAIN pushCh : pushCh[i] = img
HeldBy(p, img) ==
  \/ img \in producer[p].todo
  \/ producer[p].pc \in Carries \ Finds /\ producer[p].hold = img
TakenBy(w, img) == worker[w].pc \notin NoImg /\ worker[w].img = img

InPlay(img) ==
  \/ InChannel(img)
  \/ \E p \in Producers : HeldBy(p, img)
  \/ \E w \in Workers : TakenBy(w, img)

HasRow(img) == db[img.file] # NoRow /\ db[img.file].url = img.url

Finding == producer[Discovery].pc \in Finds
Found == producer[Discovery].hold

-----------------------------------------------------------------------------
(* The invariants.                                                           *)

CardOK == Card(camera) /\ OnCamera(camera) \subseteq taken

\* Discovery binds a URL to a row only after no row had it, and nobody else does.
RowsOfURLs ==
  /\ URLsUnique
  /\ producer[Discovery].pc \in {"rebind", "insert"} => WhereURL(db, Found.url) = {}

\* Every image and every row carries a handle of its own file.
OwnHandle(img) == img.url \in Handles[img.file]

OwnHandles ==
  /\ \A f \in Recorded(db) : db[f].url \in Handles[f]
  /\ \A img \in Image : InPlay(img) => OwnHandle(img)
  /\ Finding => OwnHandle(Found)

\* Without renumbering the row of a file on the card carries the file's handle.
CurrentHandle(f, u) == f \in taken /\ \A v \in URLs : camera[v] = f => v = u

HandlesStay ==
  /\ \A f \in Recorded(db) : CurrentHandle(f, db[f].url)
  /\ Finding => CurrentHandle(Found.file, Found.url)
  /\ producer[Discovery].pc = "lookup" /\ db[Found.file] # NoRow
       => db[Found.file].url = Found.url
  /\ producer[Discovery].pc = "insert" => db[Found.file] = NoRow
  /\ producer[Discovery].pc # "rebind"

\* With one worker: nothing that is queued loses its row.
RowsStay ==
  /\ \A img \in Image : InPlay(img) => HasRow(img)
  /\ producer[Discovery].pc # "reuse"

\* A worker has in hand what the image's file is.
HandsOver ==
  \A w \in Workers :
    LET f == worker[w].img.file
    IN  worker[w].pc = "upload" => worker[w].data = f /\ f \in taken

\* Somebody takes it that f is in the backend: the table says so, the picture is
\* gone from the card, or a worker is about to say so or to delete the picture.
Relied(f) ==
  \/ f \in WhereStatus(db, "done")
  \/ f \in taken \ OnCamera(camera)
  \/ \E w \in Workers : worker[w].pc \in {"finish", "delete"} /\ worker[w].img.file = f

Reliable == \A f \in Filenames : Relied(f) => backend[f] = f

StoredIsTaken == Stored \subseteq taken

\* Nobody else has the last word on the row that the only worker is busy with.
Counted == {"download", "upload", "finish", "fail"}
RowInFlight ==
  \A w \in Workers :
    LET row == db[worker[w].img.file]
    IN  InFlight(w) => row.status \in {"uploading", "queued", "discovered"}
RowCounted ==
  /\ \A h \in Handlers : producer[h].pc \notin {"drain", "untrack", "restore"}
  /\ \A w \in Workers :
    LET row == db[worker[w].img.file]
    IN  /\ InFlight(w) => row.status # "discovered"
        /\ worker[w].pc \in Counted => row.retry = worker[w].retry
StillOnCard ==
  \A w \in Workers : worker[w].pc = "upload" => camera[worker[w].img.url] = worker[w].img.file

-----------------------------------------------------------------------------
(* The statements that the steps execute on the table.                        *)

LEMMA NoStatement == TypeInv => Requeues(db, db)
BY DEF TypeInv, TypeOK, Requeues, SameRows

LEMMA WorkerStatements ==
  ASSUME TypeInv, NEW w \in Workers, Work(w)
  PROVE  \/ Requeues(db, db')
         \/ MarkUploading(w) \/ Finish(w) \/ HandleFailure(w)
<1> DEFINE u == worker[w].img.url
<1>1. CASE RecheckPause(w) \/ Requeue(w) \/ PassSecondGate(w) \/ ReadEntry(w)
  <2>1. u \in URLs /\ db \in Table
    BY <1>1 DEF RecheckPause, Requeue, PassSecondGate, ReadEntry, TypeInv, TypeOK, LocalsOK, NoImg,
       Image
  <2>2. db' = db \/ db' = SetStatus(db, u, "queued")
    BY <1>1 DEF RecheckPause, Requeue, PassSecondGate, ReadEntry, durable
  <2> QED
    BY <2>1, <2>2, NoStatement, SetStatusMoves
<1>2. CASE UNCHANGED db
  BY <1>2, NoStatement
<1> QED
  BY <1>1, <1>2
  DEF Work, PassGate, Receive, Cancelled, Untrack, DownloadImage, Upload, DeleteObject,
      EvictHandle, durable

LEMMA ProducerStatements ==
  ASSUME TypeInv, NEW p \in Producers, Enqueue(p)
  PROVE  Requeues(db, db')
<1>1. CASE RequeuePaused(p)
  <2>1. PICK img \in producer[p].todo : db' = SetStatus(db, img.url, "queued")
    BY <1>1 DEF RequeuePaused
  <2>2. img.url \in URLs /\ db \in Table
    BY DEF TypeInv, TypeOK, ProducerLocals, Image
  <2> QED
    BY <2>1, <2>2, SetStatusMoves
<1>2. CASE UNCHANGED db
  BY <1>2, NoStatement
<1> QED
  BY <1>1, <1>2 DEF Enqueue, SkipTracked, Reserve, Send, DropFull, EnterQueue, durable

LEMMA HandlerStatements ==
  ASSUME TypeInv, NEW h \in Handlers, Request(h) \/ Handle(h)
  PROVE  Requeues(db, db') \/ (Clears(db, db') /\ (HandleClear(h) \/ DrainRestore(h)))
<1>a. db \in Table
  BY DEF TypeInv, TypeOK
<1>1. CASE HandleQueueAll(h) \/ HandleRetryFailed(h) \/ MarkSelected(h)
  BY <1>1, <1>a, QueueDiscoveredRows, ResetFailedRows
  DEF HandleQueueAll, HandleRetryFailed, MarkSelected, MarkAllDiscoveredQueued, MarkQueuedWithMeta
<1>2. CASE HandleClear(h)
  BY <1>2, <1>a, ResetQueuedRows DEF HandleClear
<1>3. CASE DrainRestore(h)
  <2>1. producer[h].hold.url \in URLs
    BY <1>3, ThreeProducers DEF DrainRestore, TypeInv, LocalsOK, Carries, Image
  <2> QED
    BY <1>3, <1>a, <2>1, SetStatusMoves DEF DrainRestore
<1>4. CASE UNCHANGED db
  BY <1>4, NoStatement
<1> QED
  BY <1>1, <1>2, <1>3, <1>4
  DEF Request, Handle, HandlePause, HandleResume, HandleAutoUpload, HandleQueue, HandlerFetch,
      DrainOne, DrainEnd, DrainUntrack, durable

\* Every step of the system leaves the table alone, makes rows queued, clears
\* the queue, records the progress of a worker, or stores what discovery found.
LEMMA Statements ==
  ASSUME TypeInv, [Next]_vars
  PROVE  \/ Requeues(db, db')
         \/ Clears(db, db') /\ \E h \in Handlers : HandleClear(h) \/ DrainRestore(h)
         \/ \E w \in Workers : MarkUploading(w) \/ Finish(w) \/ HandleFailure(w)
         \/ FindOrCreateWrite
<1>a. db \in Table
  BY DEF TypeInv, TypeOK
<1>1. ASSUME NEW w \in Workers, Work(w)
      PROVE  Requeues(db, db') \/ MarkUploading(w) \/ Finish(w) \/ HandleFailure(w)
  BY <1>1, WorkerStatements
<1>2. ASSUME NEW p \in Producers, Enqueue(p) PROVE Requeues(db, db')
  BY <1>2, ProducerStatements
<1>3. ASSUME NEW h \in Handlers, Request(h) \/ Handle(h)
      PROVE  Requeues(db, db') \/ (Clears(db, db') /\ (HandleClear(h) \/ DrainRestore(h)))
  BY <1>3, HandlerStatements
<1>4. ASSUME NEW f \in Filenames, BackoffExpires(f) PROVE Requeues(db, db')
  <2>1. SameRows(db, db')
    BY <1>4, BackoffTypes
  <2>2. db[f] \in ImageRecord /\ db' = [db EXCEPT ![f] = [db[f] EXCEPT !.due = TRUE]]
    BY <1>4, <1>a DEF BackoffExpires, Table
  <2> QED
    BY <1>a, <2>1, <2>2 DEF Requeues, ImageRecord, Table
<1>5. CASE AutoQueue \/ BootSync
  BY <1>5, <1>a, NoStatement, QueueDiscoveredRows DEF AutoQueue, BootSync, MarkQueuedWithMeta
<1>6. CASE BootReset
  BY <1>6, <1>a, ResetStuckUploadingRows DEF BootReset
<1>7. CASE UNCHANGED db
  BY <1>7, NoStatement
<1> QED
  BY <1>1, <1>2, <1>3, <1>4, <1>5, <1>6, <1>7
  DEF Next, vars, durable, Tick, SchedulerFetch, Emit, Discover, FindOrCreateLookup, Startup,
      Boot, BootEnqueue, BootRun, Signal, Exit, Crash, ForgetMemory, Camera, TakePicture,
      RenumberHandles

\* What a worker writes to the rows of its URL.
LEMMA ProgressRows ==
  ASSUME TypeInv, NEW w \in Workers,
         MarkUploading(w) \/ Finish(w) \/ HandleFailure(w)
  PROVE  LET img == worker[w].img
             counts == HandleFailure(w) /\ worker[w].retry < MaxRetries
         IN  /\ img \in Image
             /\ SameRows(db, db')
             /\ \A f \in Filenames : db[f] # NoRow =>
                  /\ db[f].url # img.url => /\ db'[f].status = db[f].status
                                            /\ db'[f].retry = db[f].retry
                  /\ db[f].url = img.url =>
                       db'[f].status = CASE MarkUploading(w) -> "uploading"
                                         [] Finish(w)        -> "done"
                                         [] counts           -> "queued"
                                         [] OTHER            -> "failed"
                  /\ ~counts => db'[f].retry = db[f].retry
<1> DEFINE img == worker[w].img
           counts == HandleFailure(w) /\ worker[w].retry < MaxRetries
<1>1. db \in Table /\ img \in Image /\ img.url \in URLs
  BY DEF MarkUploading, Finish, HandleFailure, TypeInv, TypeOK, LocalsOK, NoImg, Image
<1>2. {"uploading", "done", "failed"} \subseteq Status
  BY DEF Status
<1>3. CASE MarkUploading(w)
  <2>1. ~Finish(w) /\ ~HandleFailure(w) /\ db' = SetStatus(db, img.url, "uploading")
    BY <1>3 DEF MarkUploading, Finish, HandleFailure
  <2> QED
    BY <1>1, <1>2, <1>3, <2>1, SetStatusRows
<1>4. CASE Finish(w)
  <2>1. ~MarkUploading(w) /\ ~HandleFailure(w) /\ db' = SetStatus(db, img.url, "done")
    BY <1>4 DEF MarkUploading, Finish, HandleFailure
  <2> QED
    BY <1>1, <1>2, <1>4, <2>1, SetStatusRows
<1>5. CASE HandleFailure(w) /\ worker[w].retry >= MaxRetries
  <2>1. /\ ~MarkUploading(w) /\ ~Finish(w)
        /\ worker[w].retry \in 0 .. MaxRetries
    BY <1>5 DEF MarkUploading, Finish, HandleFailure, TypeInv, TypeOK, WorkerLocals
  <2>2. ~(worker[w].retry < MaxRetries)
    BY <1>5, <2>1, MaxRetriesAssumption
  <2>3. db' = SetStatus(db, img.url, "failed")
    BY <1>5, <2>2 DEF HandleFailure
  <2> QED
    BY <1>1, <1>2, <2>1, <2>2, <2>3, SetStatusRows
<1>6. CASE counts
  <2>1. /\ ~MarkUploading(w) /\ ~Finish(w)
        /\ worker[w].retry \in 0 .. MaxRetries
        /\ db' = SetRetryQueued(db, img.url, worker[w].retry + 1)
    BY <1>6 DEF MarkUploading, Finish, HandleFailure, TypeInv, TypeOK, WorkerLocals
  <2>2. worker[w].retry + 1 \in 0 .. MaxRetries
    BY <1>6, <2>1, MaxRetriesAssumption
  <2> QED
    BY <1>1, <1>6, <2>1, <2>2, SetRetryQueuedRows
<1>7. worker[w].retry \in 0 .. MaxRetries
  BY DEF TypeInv, TypeOK, WorkerLocals
<1>8. worker[w].retry < MaxRetries \/ worker[w].retry >= MaxRetries
  BY <1>7, MaxRetriesAssumption
<1> QED
  BY <1>3, <1>4, <1>5, <1>6, <1>8

\* Only discovery adds, removes or rebinds rows.
LEMMA RowsKept ==
  ASSUME TypeInv, [Next]_vars, ~FindOrCreateWrite
  PROVE  SameRows(db, db')
<1>1. ASSUME NEW w \in Workers, MarkUploading(w) \/ Finish(w) \/ HandleFailure(w)
      PROVE  SameRows(db, db')
  BY <1>1, ProgressRows
<1> QED
  BY <1>1, Statements DEF Requeues, Clears

\* Nobody but discovery touches what it has found.
LEMMA FindingKept ==
  ASSUME TypeInv, [Next]_vars, Finding'
  PROVE  \/ \E u \in URLs : Emit(u)
         \/ FindOrCreateLookup
         \/ producer'[Discovery] = producer[Discovery] /\ ~FindOrCreateWrite
<1> USE DEF Finding, Finds
<1>a. producer \in [Producers -> ProducerLocals]
  BY DEF TypeInv, TypeOK
<1>b. FindOrCreateWrite => ~Finding'
  <2>1. FindOrCreateWrite => \/ producer' = [producer EXCEPT ![Discovery].pc = "pair"]
                             \/ producer' = [producer EXCEPT ![Discovery] = IdleProducer]
    BY DEF FindOrCreateWrite
  <2>2. [producer EXCEPT ![Discovery].pc = "pair"][Discovery].pc = "pair"
    BY <1>a, ThreeProducers DEF ProducerLocals
  <2>3. [producer EXCEPT ![Discovery] = IdleProducer][Discovery].pc = "idle"
    BY <1>a, ThreeProducers DEF IdleProducer
  <2>4. "pair" \notin Finds /\ "idle" \notin Finds
    OBVIOUS
  <2> QED
    BY <2>1, <2>2, <2>3, <2>4
<1>1. ASSUME NEW p \in Producers, Enqueue(p) PROVE producer'[Discovery] = producer[Discovery]
  <2>1. \A q \in Producers : q # p => producer'[q] = producer[q]
    BY <1>1, <1>a
    DEF Enqueue, SkipTracked, Reserve, Send, DropFull, EnterQueue, RequeuePaused, Continue
  <2>2. p = Discovery => ~Finding'
    BY <1>1, <1>a
    DEF Enqueue, SkipTracked, Reserve, Send, DropFull, EnterQueue, RequeuePaused, Continue,
        IdleProducer, ProducerLocals
  <2> QED
    BY <2>1, <2>2, ThreeProducers
<1>2. ASSUME NEW h \in Handlers, Request(h) \/ Handle(h)
      PROVE  producer'[Discovery] = producer[Discovery]
  BY <1>2, <1>a, ThreeProducers
  DEF Request, Handle, HandlePause, HandleResume, HandleAutoUpload, HandleQueue,
      HandleQueueAll, HandleRetryFailed, HandleClear, MarkSelected, HandlerFetch, DrainOne,
      DrainEnd, DrainUntrack, DrainRestore, Continue
<1>3. ASSUME AutoQueue PROVE ~Finding'
  BY <1>3, <1>a, ThreeProducers DEF AutoQueue, IdleProducer
<1>4. ASSUME Tick \/ SchedulerFetch \/ Startup
      PROVE  producer'[Discovery] = producer[Discovery]
  BY <1>4, <1>a, ThreeProducers
  DEF Tick, SchedulerFetch, Startup, Boot, BootReset, BootEnqueue, BootSync, BootRun, Continue
<1>5. ASSUME Exit \/ Crash PROVE ~Finding'
  BY <1>5, ThreeProducers DEF Exit, Crash, ForgetMemory, IdleProducer
<1>6. CASE UNCHANGED producer
  BY <1>6, <1>b
<1> QED
  BY <1>1, <1>2, <1>3, <1>4, <1>5, <1>6, <1>b
  DEF Next, vars, Discover, Work, PassGate, Receive, Cancelled, Untrack, RecheckPause, Requeue,
      PassSecondGate, MarkUploading, ReadEntry, DownloadImage, Upload, Finish, DeleteObject,
      EvictHandle, HandleFailure, BackoffExpires, Signal, Camera, TakePicture, RenumberHandles

LEMMA FoundImage ==
  ASSUME TypeInv, Finding
  PROVE  Found \in Image /\ Found.file \in Filenames /\ Found.url \in URLs
BY ThreeProducers DEF TypeInv, LocalsOK, Finding, Finds, Found, Carries, Image

\* The rows after discovery's write.
LEMMA FoundRows ==
  ASSUME TypeInv, FindOrCreateWrite
  PROVE  /\ Finding /\ db' \in Table
         /\ \A f \in Filenames : f # Found.file =>
              \/ db'[f] = db[f]
              \/ producer[Discovery].pc = "reuse" /\ db'[f] = NoRow
                   /\ db[f] # NoRow /\ db[f].url = Found.url
         /\ \/ /\ producer[Discovery].pc = "rebind"
               /\ db'[Found.file] = [db[Found.file] EXCEPT !.url = Found.url]
            \/ /\ producer[Discovery].pc \in {"insert", "reuse"}
               /\ db'[Found.file] = NewRecord(Found.url)
            \/ producer[Discovery].pc = "reuse" /\ db' = db
         /\ producer[Discovery].pc = "reuse" =>
              db' = db \/ \A f \in Filenames : f # Found.file =>
                            (db'[f] # NoRow => db'[f].url # Found.url)
<1>1. Finding
  BY DEF FindOrCreateWrite, Finding, Finds
<1>2. TypeInv'
  BY DiscoverTypes DEF Discover
<1>3. db \in Table /\ db' \in Table /\ Found.file \in Filenames /\ Found.url \in URLs
  BY <1>1, <1>2, FoundImage DEF TypeInv, TypeOK
<1>4. CASE producer[Discovery].pc = "rebind"
  BY <1>1, <1>3, <1>4 DEF FindOrCreateWrite, Rebind, Found, Table
<1>5. CASE producer[Discovery].pc = "insert"
  BY <1>1, <1>3, <1>5 DEF FindOrCreateWrite, Insert, Found, Table
<1>6. CASE producer[Discovery].pc = "reuse"
  <2>1. db' = db \/ db' = Reuse(db, Found)
    BY <1>6 DEF FindOrCreateWrite, Found
  <2>2. CASE db' = Reuse(db, Found)
    BY <1>1, <1>3, <1>6, <2>2 DEF Reuse, WhereURL, Recorded
  <2> QED
    BY <1>1, <1>3, <1>6, <2>1, <2>2
<1> QED
  BY <1>4, <1>5, <1>6 DEF FindOrCreateWrite

\* The lookup and the write of FindOrCreate are two statements, and the pollers
\* of all files share them; yet no two rows ever have one URL.
LEMMA URLsStep == TypeInv /\ RowsOfURLs /\ [Next]_vars => RowsOfURLs'
<1> SUFFICES ASSUME TypeInv, RowsOfURLs, [Next]_vars PROVE RowsOfURLs'
  OBVIOUS
<1> USE DEF RowsOfURLs
<1>1. URLsUnique'
  <2>1. CASE SameRows(db, db')
    BY <2>1 DEF SameRows, URLsUnique, Recorded
  <2>2. CASE FindOrCreateWrite
    <3>1. /\ Found.file \in Filenames /\ Found.url \in URLs /\ db \in Table
          /\ ImageRecord = [url : URLs, status : Status, retry : 0 .. MaxRetries, due : BOOLEAN]
      BY <2>2, FoundRows, FoundImage DEF TypeInv, TypeOK, ImageRecord
    <3>2. CASE db' = db
      BY <3>2 DEF URLsUnique, Recorded
    <3>3. CASE db' # db
      <4>1. db'[Found.file] # NoRow => db'[Found.file].url = Found.url
        <5>1. CASE producer[Discovery].pc = "rebind"
          <6>1. db[Found.file] \in ImageRecord
            BY <3>1, <5>1 DEF TypeInv, LocalsOK, Found, Table
          <6> QED
            BY <2>2, <3>1, <5>1, <6>1, FoundRows
        <5>2. CASE producer[Discovery].pc # "rebind"
          BY <2>2, <3>3, <5>2, FoundRows DEF NewRecord
        <5> QED
          BY <5>1, <5>2
      <4>2. \A f \in Filenames : f # Found.file /\ db'[f] # NoRow =>
              db'[f] = db[f] /\ db'[f].url # Found.url
        BY <2>2, <3>1, <3>3, FoundRows DEF WhereURL, Recorded
      <4> QED
        BY <4>1, <4>2 DEF URLsUnique, Recorded
    <3> QED
      BY <3>2, <3>3
  <2> QED
    BY <2>1, <2>2, RowsKept
<1>2. ASSUME producer'[Discovery].pc \in {"rebind", "insert"}
      PROVE  WhereURL(db, Found.url)' = {}
  <2>1. Finding'
    BY <1>2 DEF Finding, Finds
  <2>2. CASE FindOrCreateLookup
    <3> DEFINE p == producer[Discovery]
               found == Lookup(db, p.hold)
               q == IF found = "known" THEN IdleProducer ELSE [p EXCEPT !.pc = found]
    <3>1. producer'[Discovery] = q /\ db' = db
      BY <2>2, ThreeProducers DEF FindOrCreateLookup, durable, TypeInv, TypeOK
    <3>2. p \in ProducerLocals
      BY ThreeProducers DEF TypeInv, TypeOK
    <3>3. IdleProducer.pc = "idle"
      BY DEF IdleProducer
    <3>4. found # "known" /\ q.pc = found /\ q.hold = p.hold
      <4> HIDE DEF found
      <4> QED
        BY <1>2, <3>1, <3>2, <3>3 DEF ProducerLocals
    <3>5. found \in {"rebind", "insert"} => WhereURL(db, p.hold.url) = {}
      BY DEF Lookup
    <3> HIDE DEF found, p, q
    <3> QED
      BY <1>2, <3>1, <3>4, <3>5 DEF Found, WhereURL, Recorded, p
  <2>3. ASSUME NEW u \in URLs, Emit(u) PROVE FALSE
    BY <1>2, <2>3, ThreeProducers DEF Emit, TypeInv, TypeOK
  <2>4. CASE producer'[Discovery] = producer[Discovery] /\ ~FindOrCreateWrite
    BY <1>2, <2>4, RowsKept DEF SameRows, WhereURL, Recorded, Found
  <2> QED
    BY <2>1, <2>2, <2>3, <2>4, FindingKept
<1> QED
  BY <1>1, <1>2

\* No two rows have one URL: the index that is to forbid it never has to
\* (image.go:64-121).
THEOREM URLsStayUnique == Spec => []URLsUnique
<1>1. Init => RowsOfURLs
  BY ThreeProducers
  DEF Init, RowsOfURLs, URLsUnique, EmptyTable, Recorded, IdleProducer
<1>2. RowsOfURLs => URLsUnique
  BY DEF RowsOfURLs
<1> QED
  BY <1>1, <1>2, URLsStep, LocalsCorrect, PTL DEF Spec

-----------------------------------------------------------------------------
(* The card.                                                                 *)

\* The object that a worker deletes.
Deletes(w) ==
  LET u == worker[w].img.url
  IN  /\ worker[w].pc = "delete" /\ u \in URLs
      /\ camera[u] # NoFile
      /\ camera' = [camera EXCEPT ![u] = NoFile]
      /\ UNCHANGED <<durable, taken>>

LEMMA CardSteps ==
  ASSUME TypeInv, [Next]_vars
  PROVE  \/ UNCHANGED card
         \/ \E w \in Workers : Deletes(w)
         \/ UNCHANGED durable /\ ((\E f \in Filenames : TakePicture(f)) \/ RenumberHandles)
<1>1. ASSUME NEW w \in Workers, Work(w) PROVE UNCHANGED card \/ Deletes(w)
  <2>1. CASE DeleteObject(w)
    <3>1. worker[w].img.url \in URLs
      BY <2>1 DEF DeleteObject, TypeInv, LocalsOK, NoImg, Image
    <3> QED
      BY <2>1, <3>1 DEF DeleteObject, Deletes, card, durable
  <2>2. CASE UNCHANGED card
    BY <2>2
  <2> QED
    BY <1>1, <2>1, <2>2
    DEF Work, PassGate, Receive, Cancelled, Untrack, RecheckPause, Requeue, PassSecondGate,
        MarkUploading, ReadEntry, DownloadImage, Upload, Finish, EvictHandle, HandleFailure
<1>2. ASSUME NEW p \in Producers, Enqueue(p) PROVE UNCHANGED card
  BY <1>2 DEF Enqueue, SkipTracked, Reserve, Send, DropFull, EnterQueue, RequeuePaused
<1>3. ASSUME NEW h \in Handlers, Request(h) \/ Handle(h) PROVE UNCHANGED card
  BY <1>3
  DEF Request, Handle, HandlePause, HandleResume, HandleAutoUpload, HandleQueue,
      HandleQueueAll, HandleRetryFailed, HandleClear, MarkSelected, HandlerFetch, DrainOne,
      DrainEnd, DrainUntrack, DrainRestore
<1>4. CASE Camera
  BY <1>4 DEF Camera, TakePicture, RenumberHandles
<1> QED
  BY <1>1, <1>2, <1>3, <1>4
  DEF Next, vars, BackoffExpires, Emit, Tick, SchedulerFetch, Discover, FindOrCreateLookup,
      FindOrCreateWrite, AutoQueue, Startup, Boot, BootReset, BootEnqueue, BootSync, BootRun,
      Signal, Exit, Crash, ForgetMemory

\* What is on the card after the steps that change it.
LEMMA CardAfter ==
  ASSUME TypeInv, CardOK
  PROVE  /\ \A w \in Workers : Deletes(w) =>
              Card(camera') /\ OnCamera(camera') = OnCamera(camera) \ {camera[worker[w].img.url]}
         /\ \A f \in Filenames : TakePicture(f) =>
              /\ f \notin taken
              /\ Card(camera') /\ OnCamera(camera') = OnCamera(camera) \cup {f}
         /\ RenumberHandles =>
              Card(camera') /\ OnCamera(camera') = OnCamera(camera) /\ taken' = taken
<1>a. /\ camera \in [URLs -> Filenames \cup {NoFile}]
      /\ \A u \in URLs : camera[u] # NoFile => u \in Handles[camera[u]]
      /\ \A u, v \in URLs : camera[u] = camera[v] /\ camera[u] # NoFile => u = v
  BY DEF CardOK, Card
<1>1. ASSUME NEW w \in Workers, Deletes(w)
      PROVE  Card(camera') /\ OnCamera(camera') = OnCamera(camera) \ {camera[worker[w].img.url]}
  BY <1>a, <1>1, NoFileAssumption DEF Deletes, Card, OnCamera
<1>2. ASSUME NEW f \in Filenames, TakePicture(f)
      PROVE  /\ f \notin taken
             /\ Card(camera') /\ OnCamera(camera') = OnCamera(camera) \cup {f}
  <2>1. PICK u \in Handles[f] : camera[u] = NoFile /\ camera' = [camera EXCEPT ![u] = f]
    BY <1>2 DEF TakePicture
  <2>2. u \in URLs /\ f \notin OnCamera(camera) /\ f # NoFile /\ f \notin taken
    BY <1>2, HandlesAssumption, NoFileAssumption DEF TakePicture, CardOK
  <2>3. Card(camera')
    BY <1>a, <2>1, <2>2 DEF Card, OnCamera
  <2>4. OnCamera(camera') = OnCamera(camera) \cup {f}
    BY <1>a, <2>1, <2>2, NoFileAssumption DEF OnCamera
  <2> QED
    BY <2>2, <2>3, <2>4
<1>3. RenumberHandles => Card(camera') /\ OnCamera(camera') = OnCamera(camera) /\ taken' = taken
  BY DEF RenumberHandles, Cards
<1> QED
  BY <1>1, <1>2, <1>3

LEMMA CardInit == Init => CardOK
BY DEF Init, CardOK, Cards

LEMMA CardStep == TypeInv /\ CardOK /\ [Next]_vars => CardOK'
<1> SUFFICES ASSUME TypeInv, CardOK, [Next]_vars PROVE CardOK'
  OBVIOUS
<1>1. CASE UNCHANGED card
  BY <1>1 DEF card, CardOK
<1>2. ASSUME NEW w \in Workers, Deletes(w) PROVE CardOK'
  BY <1>2, CardAfter DEF CardOK, Deletes
<1>3. ASSUME NEW f \in Filenames, TakePicture(f) PROVE CardOK'
  BY <1>3, CardAfter DEF CardOK, TakePicture
<1>4. CASE RenumberHandles
  BY <1>4, CardAfter DEF CardOK
<1> QED
  BY <1>1, <1>2, <1>3, <1>4, CardSteps

-----------------------------------------------------------------------------
(* Who is busy with a row that says uploading.                               *)

\* A step of one worker changes no other worker, and the rest change none.
LEMMA WorkersAlone ==
  ASSUME TypeInv, [Next]_vars, NEW w \in Workers
  PROVE  \/ worker'[w] = worker[w]
         \/ Work(w)
         \/ phase' = "down" /\ worker'[w] = IdleWorker /\ UNCHANGED <<durable, card>>
<1>1. ASSUME NEW v \in Workers, Work(v) PROVE worker'[w] = worker[w] \/ v = w
  BY <1>1
  DEF TypeInv, TypeOK, Work, PassGate, Receive, Cancelled, Untrack, RecheckPause, Requeue,
      PassSecondGate,
      MarkUploading, ReadEntry, DownloadImage, Upload, Finish, DeleteObject, EvictHandle,
      HandleFailure, Goto, Step
<1>2. ASSUME NEW p \in Producers, Enqueue(p) PROVE UNCHANGED worker
  BY <1>2 DEF Enqueue, SkipTracked, Reserve, Send, DropFull, EnterQueue, RequeuePaused
<1>3. ASSUME NEW h \in Handlers, Request(h) \/ Handle(h) PROVE UNCHANGED worker
  BY <1>3
  DEF Request, Handle, HandlePause, HandleResume, HandleAutoUpload, HandleQueue,
      HandleQueueAll, HandleRetryFailed, HandleClear, MarkSelected, HandlerFetch, DrainOne,
      DrainEnd, DrainUntrack, DrainRestore
<1>4. CASE Exit \/ Crash
  BY <1>4 DEF Exit, Crash, ForgetMemory
<1> QED
  BY <1>1, <1>2, <1>3, <1>4
  DEF Next, vars, BackoffExpires, Emit, Tick, SchedulerFetch, Discover, FindOrCreateLookup,
      FindOrCreateWrite, AutoQueue, Startup, Boot, BootReset, BootEnqueue, BootSync, BootRun,
      Signal, Camera, TakePicture, RenumberHandles

\* The moves of a worker that keep its image and what it knows of it.
Moves == {<<"untrack", "check">>, <<"check", "requeue">>, <<"check", "gate2">>,
          <<"gate2", "mark">>, <<"mark", "read">>,
          <<"download", "fail">>, <<"upload", "finish">>, <<"upload", "fail">>,
          <<"finish", "delete">>, <<"delete", "evict">>}

LEMMA GotoMoves ==
  ASSUME TypeInv, NEW w \in Workers, NEW pc, Goto(w, pc)
  PROVE  /\ worker'[w].pc = pc /\ worker'[w].img = worker[w].img
         /\ worker'[w].retry = worker[w].retry
<1>1. worker' = [worker EXCEPT ![w] = [worker[w] EXCEPT !.pc = pc]]
  BY DEF Goto, Step
<1> QED
  BY <1>1 DEF TypeInv, TypeOK, WorkerLocals

\* How the locals of a worker change.
LEMMA WorkMoves ==
  ASSUME TypeInv, NEW w \in Workers, Work(w)
  PROVE  \/ worker'[w].pc \in NoImg
         \/ Receive(w) /\ worker'[w].pc = "untrack" /\ worker'[w].img = Head(pushCh)
         \/ /\ worker'[w].img = worker[w].img
            /\ \/ /\ <<worker[w].pc, worker'[w].pc>> \in Moves
                  /\ worker'[w].retry = worker[w].retry
               \/ /\ DownloadImage(w) /\ worker'[w].pc = "upload"
                  /\ worker'[w].retry = worker[w].retry
                  /\ camera[worker[w].img.url] # NoFile
                  /\ worker'[w].data = camera[worker[w].img.url]
               \/ /\ ReadEntry(w) /\ worker'[w].pc = "download" /\ UNCHANGED db
                  /\ db[worker[w].img.file] # NoRow =>
                       worker'[w].retry = db[worker[w].img.file].retry
<1>a. worker \in [Workers -> WorkerLocals]
  BY DEF TypeInv, TypeOK
<1>1. ASSUME Step(w, IdleWorker) \/ Step(w, [IdleWorker EXCEPT !.pc = "returned"])
      PROVE  worker'[w].pc \in NoImg
  BY <1>a, <1>1 DEF Step, IdleWorker, NoImg
<1>2. CASE Receive(w)
  <2>1. worker' = [worker EXCEPT ![w] =
                     [worker[w] EXCEPT !.pc = "untrack", !.img = Head(pushCh)]]
    BY <1>2 DEF Receive, Step
  <2> QED
    BY <1>a, <1>2, <2>1 DEF WorkerLocals
<1>3. CASE ReadEntry(w)
  <2>1. CASE Step(w, IdleWorker)
    BY <1>1, <2>1
  <2>2. CASE ~Step(w, IdleWorker)
    <3> DEFINE row == db[worker[w].img.file]
               n == IF row = NoRow THEN 0 ELSE row.retry
               next == [worker[w] EXCEPT !.pc = "download", !.retry = n]
    <3>1. worker' = [worker EXCEPT ![w] = next] /\ UNCHANGED db
      BY <1>3, <2>2 DEF ReadEntry, Step
    <3>2. worker'[w] = next
      BY <1>a, <3>1
    <3>3. next.pc = "download" /\ next.img = worker[w].img /\ next.retry = n
      BY <1>a DEF WorkerLocals
    <3> QED
      BY <1>3, <3>1, <3>2, <3>3
  <2> QED
    BY <2>1, <2>2
<1>4. CASE DownloadImage(w)
  <2>1. CASE Goto(w, "fail")
    BY <1>4, <2>1, GotoMoves DEF DownloadImage, Moves
  <2>2. CASE ~Goto(w, "fail")
    <3> DEFINE next == [worker[w] EXCEPT !.pc = "upload", !.data = camera[worker[w].img.url]]
    <3>1. camera[worker[w].img.url] # NoFile /\ worker' = [worker EXCEPT ![w] = next]
      BY <1>4, <2>2 DEF DownloadImage, Step
    <3>2. worker'[w] = next
      BY <1>a, <3>1
    <3>3. next.pc = "upload" /\ next.img = worker[w].img /\ next.retry = worker[w].retry
          /\ next.data = camera[worker[w].img.url]
      BY <1>a DEF WorkerLocals
    <3> QED
      BY <1>4, <3>1, <3>2, <3>3
  <2> QED
    BY <2>1, <2>2
<1>5. CASE PassGate(w) \/ Cancelled(w)
  BY <1>5, GotoMoves DEF PassGate, Cancelled, NoImg
<1>6. CASE Untrack(w) \/ MarkUploading(w) \/ Upload(w)
  BY <1>6, GotoMoves DEF Untrack, MarkUploading, Upload, Moves
<1>7. CASE RecheckPause(w) \/ Requeue(w) \/ PassSecondGate(w) \/ Finish(w) \/ DeleteObject(w)
  BY <1>1, <1>7, GotoMoves DEF RecheckPause, Requeue, PassSecondGate, Finish, DeleteObject, Moves
<1>8. CASE EvictHandle(w) \/ HandleFailure(w)
  BY <1>1, <1>8 DEF EvictHandle, HandleFailure
<1> QED
  BY <1>2, <1>3, <1>4, <1>5, <1>6, <1>7, <1>8 DEF Work

\* A worker that is done with an image leaves no row of its URL uploading.
LEMMA FlightEnds ==
  ASSUME TypeInv, [Next]_vars, NEW w \in Workers, InFlight(w)
  PROVE  \/ InFlight(w)' /\ worker'[w].img = worker[w].img
         \/ phase' = "down"
         \/ \A f \in Filenames : db[f] # NoRow /\ db[f].url = worker[w].img.url
              => db'[f].status # "uploading"
<1>a. worker \in [Workers -> WorkerLocals] /\ db \in Table
  BY DEF TypeInv, TypeOK
<1>b. worker[w].img.url \in URLs
  BY DEF InFlight, TypeInv, LocalsOK, NoImg, Image
<1>1. CASE worker'[w] = worker[w]
  BY <1>1 DEF InFlight
<1>2. CASE Work(w)
  <2>1. CASE DownloadImage(w) \/ Upload(w) \/ (ReadEntry(w) /\ phase # "stopping")
    <3>1. worker'[w].pc \in {"download", "upload", "finish", "fail"}
      <4>1. \A pc : Goto(w, pc) => worker'[w].pc = pc
        BY GotoMoves
      <4>2. CASE ReadEntry(w)
        <5>1. \E n : worker' = [worker EXCEPT ![w] =
                                  [worker[w] EXCEPT !.pc = "download", !.retry = n]]
          BY <2>1, <4>2 DEF ReadEntry, DownloadImage, Upload, Step
        <5> QED
          BY <1>a, <5>1 DEF WorkerLocals
      <4>3. CASE DownloadImage(w)
        <5>1. Goto(w, "fail") \/ \E d : worker' = [worker EXCEPT ![w] =
                                  [worker[w] EXCEPT !.pc = "upload", !.data = d]]
          BY <4>3 DEF DownloadImage, Step
        <5> QED
          BY <1>a, <4>1, <5>1 DEF WorkerLocals
      <4> QED
        BY <2>1, <4>1, <4>2, <4>3 DEF Upload
    <3>2. worker'[w].img = worker[w].img
      BY <1>2, <3>1, WorkMoves DEF NoImg
    <3> QED
      BY <3>1, <3>2 DEF InFlight
  <2>2. CASE ReadEntry(w) /\ phase = "stopping"
    <3>1. db' = SetStatus(db, worker[w].img.url, "queued") /\ "queued" \in Status
      BY <2>2 DEF ReadEntry, Status
    <3> QED
      BY <1>a, <1>b, <3>1, SetStatusRows
  <2>3. CASE Finish(w) \/ HandleFailure(w)
    <3>1. ~MarkUploading(w)
      BY <2>3 DEF MarkUploading, Finish, HandleFailure
    <3> QED
      BY <2>3, <3>1, ProgressRows
  <2> QED
    BY <1>2, <2>1, <2>2, <2>3
    DEF Work, InFlight, PassGate, Receive, Cancelled, Untrack, RecheckPause, Requeue, PassSecondGate,
        MarkUploading, DeleteObject, EvictHandle
<1> QED
  BY <1>1, <1>2, WorkersAlone

\* What a worker says of its image: uploading, done or, at last, failed.
Says(w, s) ==
  \/ s = "uploading" /\ MarkUploading(w)
  \/ s = "done" /\ Finish(w)
  \/ s = "failed" /\ HandleFailure(w) /\ ~(worker[w].retry < MaxRetries)

\* A row says so only because a worker has just said so, and keeps its count.
LEMMA StatusBegins ==
  ASSUME TypeInv, [Next]_vars, NEW f \in Filenames, NEW s \in {"uploading", "done", "failed"},
         db'[f] # NoRow, db'[f].status = s
  PROVE  /\ db[f] # NoRow /\ db'[f].retry = db[f].retry
         /\ \/ db[f].status = s
            \/ \E w \in Workers : Says(w, s) /\ db[f].url = worker[w].img.url
<1>1. CASE Requeues(db, db') \/ Clears(db, db')
  BY <1>1 DEF Requeues, Clears, SameRows
<1>2. ASSUME NEW w \in Workers, MarkUploading(w) \/ Finish(w) \/ HandleFailure(w)
      PROVE  /\ db[f] # NoRow /\ db'[f].retry = db[f].retry
             /\ db[f].status = s \/ (Says(w, s) /\ db[f].url = worker[w].img.url)
  <2>1. db[f] # NoRow
    BY <1>2, ProgressRows DEF SameRows
  <2>2. CASE db[f].url # worker[w].img.url
    BY <1>2, <2>1, <2>2, ProgressRows
  <2>3. CASE db[f].url = worker[w].img.url
    <3>1. ~(HandleFailure(w) /\ worker[w].retry < MaxRetries)
      BY <1>2, <2>1, <2>3, ProgressRows DEF MarkUploading, Finish, HandleFailure
    <3>2. db'[f].retry = db[f].retry
      BY <1>2, <2>1, <3>1, ProgressRows
    <3>3. s = CASE MarkUploading(w) -> "uploading" [] Finish(w) -> "done" [] OTHER -> "failed"
      BY <1>2, <2>1, <2>3, <3>1, ProgressRows
    <3>4. Says(w, s)
      BY <1>2, <3>1, <3>3 DEF Says
    <3> QED
      BY <2>1, <2>3, <3>2, <3>4
  <2> QED
    BY <2>2, <2>3
<1>3. CASE FindOrCreateWrite
  <2>1. CASE producer[Discovery].pc = "rebind" /\ f = Found.file
    <3>1. db[f] \in ImageRecord /\ db[f] # NoRow
      BY <2>1 DEF TypeInv, TypeOK, LocalsOK, Found, Table
    <3>2. db'[f] = [db[f] EXCEPT !.url = Found.url]
      BY <1>3, <2>1, FoundRows
    <3> QED
      BY <3>1, <3>2 DEF ImageRecord
  <2>2. CASE producer[Discovery].pc # "rebind" /\ f = Found.file
    <3>1. db'[f] = NewRecord(Found.url) \/ db' = db
      BY <1>3, <2>2, FoundRows
    <3> QED
      BY <3>1 DEF NewRecord
  <2>3. CASE f # Found.file
    BY <1>3, <2>3, FoundRows
  <2> QED
    BY <2>1, <2>2, <2>3
<1> QED
  BY <1>1, <1>2, <1>3, Statements

\* As long as the camera keeps its handles, every row has the handle that its
\* file has on the card, and discovery never has to rebind one.
LEMMA HandlesInit == Init => HandlesStay
BY ThreeProducers DEF Init, HandlesStay, EmptyTable, Recorded, Finding, Finds, IdleProducer

\* A handle that is current stays so.
LEMMA StillCurrent ==
  ASSUME TypeInv, CardOK, [Next]_vars, ~Renumbers,
         NEW f \in Filenames, NEW u \in URLs, CurrentHandle(f, u)
  PROVE  CurrentHandle(f, u)'
<1>1. CASE UNCHANGED card
  BY <1>1 DEF card, CurrentHandle
<1>2. ASSUME NEW w \in Workers, Deletes(w) PROVE CurrentHandle(f, u)'
  BY <1>2, NoFileAssumption DEF Deletes, CurrentHandle, TypeInv, TypeOK
<1>3. ASSUME NEW g \in Filenames, TakePicture(g) PROVE CurrentHandle(f, u)'
  BY <1>3, HandlesAssumption DEF TakePicture, CurrentHandle, TypeInv, TypeOK
<1>4. ~RenumberHandles
  BY DEF RenumberHandles
<1> QED
  BY <1>1, <1>2, <1>3, <1>4, CardSteps

LEMMA HandlesStep == TypeInv /\ CardOK /\ HandlesStay /\ ~Renumbers /\ [Next]_vars => HandlesStay'
<1> SUFFICES ASSUME TypeInv, CardOK, HandlesStay, ~Renumbers, [Next]_vars PROVE HandlesStay'
  OBVIOUS
<1>a. db \in Table
  BY DEF TypeInv, TypeOK
\* The rows.
<1>1. \A f \in Recorded(db)' : CurrentHandle(f, db[f].url)'
  <2> SUFFICES ASSUME NEW f \in Filenames, db'[f] # NoRow PROVE CurrentHandle(f, db[f].url)'
    BY DEF Recorded
  <2>1. CASE db[f] # NoRow /\ db'[f].url = db[f].url
    <3>1. db[f].url \in URLs /\ CurrentHandle(f, db[f].url)
      BY <1>a, <2>1 DEF Table, ImageRecord, HandlesStay, Recorded
    <3>2. CurrentHandle(f, db[f].url)' <=> (f \in taken' /\ \A v \in URLs : camera'[v] = f => v = db[f].url)
      BY <2>1 DEF CurrentHandle
    <3>3. f \in taken' /\ \A v \in URLs : camera'[v] = f => v = db[f].url
      <4>1. PICK u \in URLs : u = db[f].url
        BY <3>1
      <4>2. CurrentHandle(f, u)'
        BY <3>1, <4>1, StillCurrent DEF CurrentHandle
      <4> QED
        BY <4>1, <4>2 DEF CurrentHandle
    <3> QED
      BY <3>2, <3>3
  <2>2. CASE FindOrCreateWrite /\ f = Found.file /\ db' # db
    <3>1. db'[f] = NewRecord(Found.url) /\ CurrentHandle(f, Found.url)
      BY <2>2, FoundRows DEF HandlesStay
    <3>2. CurrentHandle(f, Found.url) => f \in taken /\ \A v \in URLs : camera[v] = f => v = Found.url
      BY DEF CurrentHandle
    <3>3. UNCHANGED card
      BY <2>2 DEF FindOrCreateWrite
    <3> QED
      BY <3>1, <3>2, <3>3 DEF card, CurrentHandle, NewRecord
  <2>3. SameRows(db, db') => db[f] # NoRow /\ db'[f].url = db[f].url
    BY DEF SameRows
  <2>4. FindOrCreateWrite /\ f # Found.file => db'[f] = db[f]
    BY FoundRows
  <2> QED
    BY <2>1, <2>2, <2>3, <2>4, RowsKept
\* What discovery has found.
<1>2. ASSUME Finding'
      PROVE  /\ CurrentHandle(Found.file, Found.url)'
             /\ producer'[Discovery].pc = "lookup" /\ db'[Found'.file] # NoRow
                  => db'[Found'.file].url = Found'.url
             /\ producer'[Discovery].pc = "insert" => db'[Found'.file] = NoRow
             /\ producer'[Discovery].pc # "rebind"
  <2>1. ASSUME NEW u \in URLs, Emit(u)
        PROVE  /\ CurrentHandle(Found.file, Found.url)'
               /\ producer'[Discovery].pc = "lookup"
               /\ db'[Found'.file] # NoRow => db'[Found'.file].url = Found'.url
    <3>1. /\ producer'[Discovery] =
               [pc |-> "lookup", todo |-> {}, hold |-> [file |-> camera[u], url |-> u]]
          /\ camera[u] \in Filenames /\ UNCHANGED <<db, camera, taken>>
      BY <2>1, ThreeProducers DEF Emit, TypeInv, TypeOK, durable, card
    <3>2. Found'.file = camera[u] /\ Found'.url = u
      BY <3>1 DEF Found
    <3>3. camera[u] \in taken /\ \A v \in URLs : camera[v] = camera[u] => v = u
      BY <3>1, NoFileAssumption DEF CardOK, Card, OnCamera
    <3>4. db[camera[u]] # NoRow => db[camera[u]].url = u
      BY <3>1 DEF HandlesStay, CurrentHandle, Recorded
    <3> QED
      BY <3>1, <3>2, <3>3, <3>4 DEF CurrentHandle
  <2>2. CASE FindOrCreateLookup
    <3>1. /\ Found' = Found /\ UNCHANGED <<db, camera, taken>>
          /\ producer[Discovery].pc = "lookup"
          /\ producer'[Discovery].pc = Lookup(db, Found)
      BY <1>2, <2>2, ThreeProducers
      DEF FindOrCreateLookup, Found, Finding, Finds, TypeInv, TypeOK, ProducerLocals,
          IdleProducer, durable, card
    <3>2. Found \in Image /\ Found.file \in Filenames
      BY <3>1, FoundImage DEF Finding, Finds
    <3>3. CurrentHandle(Found.file, Found.url)'
      BY <3>1 DEF HandlesStay, Finding, Finds, CurrentHandle
    <3>4. db[Found.file] # NoRow => db[Found.file].url = Found.url
      BY <3>1 DEF HandlesStay
    <3>5. Lookup(db, Found) # "rebind" /\ Lookup(db, Found) # "lookup"
          /\ (Lookup(db, Found) = "insert" => db[Found.file] = NoRow)
      BY <3>2, <3>4 DEF Lookup, WhereURL, Recorded
    <3> QED
      BY <3>1, <3>3, <3>5
  <2>3. CASE producer'[Discovery] = producer[Discovery] /\ ~FindOrCreateWrite
    <3>1. Finding /\ Found' = Found /\ SameRows(db, db')
      BY <1>2, <2>3, RowsKept DEF Finding, Found
    <3>2. Found.file \in Filenames /\ Found.url \in URLs
      BY <3>1, FoundImage
    <3>3. CurrentHandle(Found.file, Found.url)'
      <4>1. PICK f \in Filenames, u \in URLs : f = Found.file /\ u = Found.url
        BY <3>2
      <4>2. CurrentHandle(f, u)
        BY <3>1, <4>1 DEF HandlesStay
      <4>3. CurrentHandle(f, u)'
        BY <4>2, StillCurrent
      <4> QED
        BY <3>1, <4>1, <4>3 DEF CurrentHandle
    <3> QED
      BY <2>3, <3>1, <3>2, <3>3 DEF HandlesStay, SameRows
  <2> QED
    BY <1>2, <2>1, <2>2, <2>3, FindingKept
<1> QED
  BY <1>1, <1>2 DEF HandlesStay, Finding, Finds

\* The phases follow each other, and only the reset makes a start-up fresh.
LEMMA PhaseSteps ==
  ASSUME [Next]_vars, phase' \in {"fresh", "sync", "synced", "running", "stopping"}
  PROVE  \/ BootReset
         \/ phase \in {"fresh", "sync", "synced", "running", "stopping"}
<1>1. ASSUME NEW w \in Workers, Work(w) PROVE UNCHANGED phase
  BY <1>1
  DEF Work, PassGate, Receive, Cancelled, Untrack, RecheckPause, Requeue, PassSecondGate, MarkUploading,
      ReadEntry, DownloadImage, Upload, Finish, DeleteObject, EvictHandle, HandleFailure
<1>2. ASSUME NEW p \in Producers, Enqueue(p) PROVE UNCHANGED phase
  BY <1>2 DEF Enqueue, SkipTracked, Reserve, Send, DropFull, EnterQueue, RequeuePaused
<1>3. ASSUME NEW h \in Handlers, Request(h) \/ Handle(h) PROVE UNCHANGED phase
  BY <1>3
  DEF Request, Handle, HandlePause, HandleResume, HandleAutoUpload, HandleQueue,
      HandleQueueAll, HandleRetryFailed, HandleClear, MarkSelected, HandlerFetch, DrainOne,
      DrainEnd, DrainUntrack, DrainRestore
<1> QED
  BY <1>1, <1>2, <1>3
  DEF Next, vars, BackoffExpires, Emit, Tick, SchedulerFetch, Discover, FindOrCreateLookup,
      FindOrCreateWrite, AutoQueue, Startup, Boot, BootEnqueue, BootSync, BootRun,
      Signal, Exit, Crash, ForgetMemory, Camera, TakePicture, RenumberHandles

LEMMA OwnedStep ==
  TypeInv /\ CardOK /\ HandlesStay /\ UploadingIsOwned /\ [Next]_vars => UploadingIsOwned'
<1> SUFFICES ASSUME TypeInv, CardOK, HandlesStay, UploadingIsOwned, [Next]_vars,
                    phase' \in {"fresh", "sync", "synced", "running", "stopping"},
                    NEW f \in Filenames, db'[f] # NoRow, db'[f].status = "uploading"
             PROVE  \E w \in Workers : InFlight(w)' /\ worker'[w].img.url = db'[f].url
  BY DEF UploadingIsOwned, WhereStatus, Recorded
<1>a. worker \in [Workers -> WorkerLocals] /\ db \in Table
  BY DEF TypeInv, TypeOK
<1>1. db[f] # NoRow /\ db'[f].url = db[f].url
  <2>1. db[f] # NoRow
    BY StatusBegins
  <2>2. CASE SameRows(db, db')
    BY <2>1, <2>2 DEF SameRows
  <2>3. CASE FindOrCreateWrite
    <3>1. f = Found.file => db' = db
      BY <2>3, FoundRows DEF HandlesStay, NewRecord
    <3>2. f # Found.file => db'[f] = db[f]
      BY <2>3, FoundRows
    <3> QED
      BY <2>1, <3>1, <3>2
  <2> QED
    BY <2>2, <2>3, RowsKept
\* The row has just become uploading: the worker that did it is in flight.
<1>2. ASSUME NEW w \in Workers, MarkUploading(w), db[f].url = worker[w].img.url
      PROVE  InFlight(w)' /\ worker'[w].img.url = db'[f].url
  BY <1>a, <1>1, <1>2 DEF MarkUploading, InFlight, Goto, Step, WorkerLocals
\* It was already, and the worker that owned it is in flight still.
<1>3. CASE db[f].status = "uploading"
  <2>1. phase \in {"fresh", "sync", "synced", "running", "stopping"}
    <3>1. ~BootReset
      BY <1>a, <1>1, ResetStuckUploadingRows DEF BootReset, WhereStatus, Recorded
    <3> QED
      BY <3>1, PhaseSteps
  <2>2. PICK w \in Workers : InFlight(w) /\ worker[w].img.url = db[f].url
    BY <1>1, <1>3, <2>1 DEF UploadingIsOwned, WhereStatus, Recorded
  <2>3. InFlight(w)' /\ worker'[w].img = worker[w].img
    BY <1>1, <2>2, FlightEnds
  <2> QED
    BY <1>1, <2>2, <2>3
<1> QED
  BY <1>1, <1>2, <1>3, StatusBegins DEF Says

\* As long as the camera keeps its handles, a row that says uploading is one that
\* a worker is busy with: no interleaving of workers, scheduler, requests and
\* discovery leaves a row behind that only a restart would recover
\* (pipeline.go:162-202, 237-320).
THEOREM UploadingStaysOwned ==
  ASSUME ~Renumbers
  PROVE  Spec => []UploadingIsOwned
<1>1. Init => HandlesStay /\ CardOK /\ UploadingIsOwned
  BY HandlesInit, CardInit DEF Init, UploadingIsOwned
<1>2. TypeInv /\ CardOK /\ HandlesStay /\ UploadingIsOwned /\ [Next]_vars
        => (CardOK /\ HandlesStay /\ UploadingIsOwned)'
  BY CardStep, HandlesStep, OwnedStep
<1> QED
  BY <1>1, <1>2, LocalsCorrect, PTL DEF Spec

-----------------------------------------------------------------------------
(* An image gets into play from its row only, and is handed on from there.    *)

LEMMA ChannelFlow ==
  ASSUME TypeInv, [Next]_vars, NEW img, InChannel(img)'
  PROVE  InPlay(img)
<1>a. pushCh \in Seq(Image)
  BY DEF TypeInv, TypeOK
<1>1. ASSUME NEW p \in Producers, Send(p) PROVE InPlay(img)
  <2>1. pushCh' = Append(pushCh, producer[p].hold) /\ producer[p].hold \in Image
    BY <1>1 DEF Send, TypeInv, LocalsOK, Carries
  <2>2. \A i \in DOMAIN pushCh' : \/ i \in DOMAIN pushCh /\ pushCh'[i] = pushCh[i]
                                 \/ pushCh'[i] = producer[p].hold
    BY <1>a, <2>1
  <2>3. InChannel(img) \/ HeldBy(p, img)
    BY <1>1, <2>2 DEF InChannel, Send, HeldBy, Carries, Finds
  <2> QED
    BY <2>3 DEF InPlay
<1>2. CASE pushCh # <<>> /\ pushCh' = Tail(pushCh)
  BY <1>2, TailOfChannel DEF InPlay, InChannel
<1>3. CASE pushCh' = <<>>
  BY <1>3 DEF InChannel
<1>4. CASE UNCHANGED pushCh
  BY <1>4 DEF InPlay, InChannel
<1>5. ASSUME NEW w \in Workers, Work(w)
      PROVE  UNCHANGED pushCh \/ (pushCh # <<>> /\ pushCh' = Tail(pushCh))
  BY <1>5
  DEF Work, PassGate, Receive, Cancelled, Untrack, RecheckPause, Requeue, PassSecondGate, MarkUploading,
      ReadEntry, DownloadImage, Upload, Finish, DeleteObject, EvictHandle, HandleFailure, queue
<1>6. ASSUME NEW p \in Producers, Enqueue(p) PROVE UNCHANGED pushCh \/ Send(p)
  BY <1>6 DEF Enqueue, SkipTracked, Reserve, DropFull, EnterQueue, RequeuePaused, queue
<1>7. ASSUME NEW h \in Handlers, Request(h) \/ Handle(h)
      PROVE  UNCHANGED pushCh \/ (pushCh # <<>> /\ pushCh' = Tail(pushCh))
  BY <1>7
  DEF Request, Handle, HandlePause, HandleResume, HandleAutoUpload, HandleQueue,
      HandleQueueAll, HandleRetryFailed, HandleClear, MarkSelected, HandlerFetch, DrainOne,
      DrainEnd, DrainUntrack, DrainRestore, queue
<1>8. CASE Exit \/ Crash
  BY <1>3, <1>8 DEF Exit, Crash, ForgetMemory
<1> QED
  BY <1>1, <1>2, <1>4, <1>5, <1>6, <1>7, <1>8
  DEF Next, vars, BackoffExpires, Emit, Tick, SchedulerFetch, Discover, FindOrCreateLookup,
      FindOrCreateWrite, AutoQueue, Startup, Boot, BootReset, BootEnqueue, BootSync, BootRun,
      Signal, Camera, TakePicture, RenumberHandles, queue

LEMMA WorkerFlow ==
  ASSUME TypeInv, [Next]_vars, NEW w \in Workers, NEW img, TakenBy(w, img)'
  PROVE  InPlay(img)
<1>1. CASE worker'[w] = worker[w]
  BY <1>1 DEF TakenBy, InPlay
<1>2. CASE Receive(w) /\ worker'[w].img = Head(pushCh)
  <2>1. InChannel(img)
    BY <1>2, TailOfChannel DEF Receive, TakenBy, InChannel
  <2> QED
    BY <2>1 DEF InPlay
<1>3. CASE worker'[w].img = worker[w].img /\ worker[w].pc \notin NoImg
  BY <1>3 DEF TakenBy, InPlay
<1>4. Work(w) => \/ Receive(w) /\ worker'[w].img = Head(pushCh)
                 \/ worker'[w].img = worker[w].img /\ worker[w].pc \notin NoImg
  BY WorkMoves DEF TakenBy, Moves, NoImg, DownloadImage, ReadEntry
<1>5. worker'[w] # IdleWorker
  BY DEF TakenBy, IdleWorker, NoImg
<1> QED
  BY <1>1, <1>2, <1>3, <1>4, <1>5, WorkersAlone

\* What a goroutine holds once it goes on with the images in rest.
LEMMA ContinueHolds ==
  ASSUME TypeInv, NEW p \in Producers, NEW pc, pc \notin Carries, NEW rest,
         producer' = Continue(p, pc, rest),
         NEW q \in Producers, NEW img, HeldBy(q, img)'
  PROVE  img \in rest \/ HeldBy(q, img)
<1>a. producer \in [Producers -> ProducerLocals]
  BY DEF TypeInv, TypeOK
<1>1. CASE q # p
  BY <1>a, <1>1 DEF Continue, HeldBy
<1>2. CASE q = p /\ rest = {}
  BY <1>a, <1>2 DEF Continue, HeldBy, IdleProducer, Carries
<1>3. CASE q = p /\ rest # {}
  BY <1>a, <1>3 DEF Continue, HeldBy
<1> QED
  BY <1>1, <1>2, <1>3

\* The queries return images with a row.
LEMMA QueriesHaveRows ==
  ASSUME NEW files, NEW img \in ToImages(db, files), files \subseteq Recorded(db)
  PROVE  HasRow(img)
BY DEF ToImages, Recorded, HasRow

LEMMA EnqueueFlow ==
  ASSUME TypeInv, NEW p \in Producers, Enqueue(p),
         NEW q \in Producers, NEW img, HeldBy(q, img)'
  PROVE  HeldBy(q, img) \/ HeldBy(p, img)
<1>a. producer \in [Producers -> ProducerLocals]
  BY DEF TypeInv, TypeOK
<1>b. "push" \notin Carries /\ "requeue" \notin Carries
  BY DEF Carries
<1>1. CASE SkipTracked(p) \/ RequeuePaused(p)
  <2>1. PICK pc \in {"push", "requeue"}, i \in producer[p].todo :
             producer' = Continue(p, pc, producer[p].todo \ {i})
    BY <1>1 DEF SkipTracked, RequeuePaused
  <2>2. img \in producer[p].todo \ {i} \/ HeldBy(q, img)
    BY <1>b, <2>1, ContinueHolds
  <2> QED
    BY <2>2 DEF HeldBy
<1>2. CASE Send(p) \/ DropFull(p)
  <2>1. producer' = Continue(p, "push", producer[p].todo)
    BY <1>2 DEF Send, DropFull
  <2>2. img \in producer[p].todo \/ HeldBy(q, img)
    BY <1>b, <2>1, ContinueHolds
  <2> QED
    BY <2>2 DEF HeldBy
<1>3. CASE Reserve(p)
  <2>1. PICK i \in producer[p].todo :
             producer' = [producer EXCEPT ![p] =
                            [pc |-> "send", todo |-> producer[p].todo \ {i}, hold |-> i]]
    BY <1>3 DEF Reserve
  <2> QED
    BY <1>a, <2>1 DEF HeldBy
<1>4. CASE EnterQueue(p)
  BY <1>a, <1>4 DEF EnterQueue, HeldBy, ProducerLocals, Carries
<1> QED
  BY <1>1, <1>2, <1>3, <1>4 DEF Enqueue

LEMMA RequestFlow ==
  ASSUME TypeInv, NEW h \in Handlers, Request(h) \/ Handle(h),
         NEW q \in Producers, NEW img, HeldBy(q, img)'
  PROVE  InPlay(img) \/ HasRow(img)
<1>a. producer \in [Producers -> ProducerLocals] /\ h \in Producers
  BY ThreeProducers DEF TypeInv, TypeOK
<1>1. CASE UNCHANGED producer
  BY <1>1 DEF HeldBy, InPlay
<1>2. CASE HandleQueue(h)
  <2>1. PICK files : producer' = Continue(h, "mark", DiscoveredByFilenames(db, files))
    BY <1>2 DEF HandleQueue
  <2>2. img \in DiscoveredByFilenames(db, files) \/ HeldBy(q, img)
    BY <1>a, <2>1, ContinueHolds DEF Carries
  <2> QED
    BY <2>2, QueriesHaveRows DEF DiscoveredByFilenames, WhereStatus, InPlay
<1>3. CASE HandlerFetch(h)
  <2>1. producer' = Continue(h, "queue", ListFreshQueued(db))
    BY <1>3 DEF HandlerFetch
  <2>2. img \in ListFreshQueued(db) \/ HeldBy(q, img)
    BY <1>a, <2>1, ContinueHolds DEF Carries
  <2> QED
    BY <2>2, QueriesHaveRows DEF ListFreshQueued, WhereStatus, InPlay
<1>4. CASE HandleQueueAll(h) \/ HandleRetryFailed(h) \/ HandleClear(h)
  <2>1. PICK pc \in {"fetch", "drain"} : producer' = [producer EXCEPT ![h].pc = pc]
    BY <1>4 DEF HandleQueueAll, HandleRetryFailed, HandleClear
  <2>2. HeldBy(q, img)
    BY <1>a, <2>1 DEF HeldBy, ProducerLocals, Carries
  <2> QED
    BY <2>2 DEF InPlay
<1>5. CASE MarkSelected(h) \/ DrainEnd(h)
  <2>1. producer' = [producer EXCEPT ![h] = IdleProducer]
    BY <1>5 DEF MarkSelected, DrainEnd
  <2>2. HeldBy(q, img)
    BY <1>a, <2>1 DEF HeldBy, IdleProducer, Carries
  <2> QED
    BY <2>2 DEF InPlay
<1>6. CASE DrainOne(h)
  <2>1. /\ pushCh # <<>>
        /\ producer' = [producer EXCEPT ![h] =
                          [pc |-> "untrack", todo |-> {}, hold |-> Head(pushCh)]]
    BY <1>6 DEF DrainOne
  <2>2. img = Head(pushCh) \/ HeldBy(q, img)
    BY <1>a, <2>1 DEF HeldBy
  <2> QED
    BY <2>1, <2>2, TailOfChannel DEF InPlay, InChannel
<1>7. CASE DrainUntrack(h)
  <2>1. producer[h].pc = "untrack" /\ producer' = [producer EXCEPT ![h].pc = "restore"]
    BY <1>7 DEF DrainUntrack
  <2>2. HeldBy(q, img)
    BY <1>a, <2>1 DEF HeldBy, ProducerLocals, Carries, Finds
  <2> QED
    BY <2>2 DEF InPlay
<1>8. CASE DrainRestore(h)
  <2>1. producer' = [producer EXCEPT ![h] = [IdleProducer EXCEPT !.pc = "drain"]]
    BY <1>8 DEF DrainRestore
  <2>2. HeldBy(q, img)
    BY <1>a, <2>1 DEF HeldBy, IdleProducer, Carries
  <2> QED
    BY <2>2 DEF InPlay
<1> QED
  BY <1>1, <1>2, <1>3, <1>4, <1>5, <1>6, <1>7, <1>8
  DEF Request, Handle, HandlePause, HandleResume, HandleAutoUpload

LEMMA ProducerFlow ==
  ASSUME TypeInv, [Next]_vars, NEW q \in Producers, NEW img, HeldBy(q, img)'
  PROVE  InPlay(img) \/ HasRow(img) \/ HasRow(img)'
<1>a. producer \in [Producers -> ProducerLocals]
  BY DEF TypeInv, TypeOK
<1>1. ASSUME NEW p \in Producers, Enqueue(p) PROVE InPlay(img)
  BY <1>1, EnqueueFlow DEF InPlay
<1>2. ASSUME NEW h \in Handlers, Request(h) \/ Handle(h) PROVE InPlay(img) \/ HasRow(img)
  BY <1>2, RequestFlow
<1>3. CASE UNCHANGED producer
  BY <1>3 DEF HeldBy, InPlay
<1>4. CASE Tick
  <2>1. HeldBy(q, img)
    BY <1>a, <1>4 DEF Tick, HeldBy, ProducerLocals, Carries
  <2> QED
    BY <2>1 DEF InPlay
<1>5. CASE SchedulerFetch
  <2>1. producer' = Continue(Scheduler, "push", ListFreshQueued(db) \cup ListReadyToRetry(db))
    BY <1>5 DEF SchedulerFetch
  <2>2. img \in ListFreshQueued(db) \cup ListReadyToRetry(db) \/ HeldBy(q, img)
    BY <2>1, ContinueHolds, ThreeProducers DEF Carries
  <2> QED
    BY <2>2, QueriesHaveRows DEF ListFreshQueued, ListReadyToRetry, WhereStatus, InPlay
<1>6. ASSUME NEW u \in URLs, Emit(u) PROVE InPlay(img)
  <2>1. HeldBy(q, img)
    BY <1>a, <1>6, ThreeProducers DEF Emit, HeldBy, Finds
  <2> QED
    BY <2>1 DEF InPlay
<1>7. CASE FindOrCreateLookup
  <2> DEFINE found == Lookup(db, producer[Discovery].hold)
  <2>1. found \in Finds \cup {"known"}
    BY DEF Lookup, Finds
  <2>2. \/ producer' = [producer EXCEPT ![Discovery] = IdleProducer]
        \/ producer' = [producer EXCEPT ![Discovery].pc = found] /\ found # "known"
    BY <1>7 DEF FindOrCreateLookup
  <2>3. HeldBy(q, img)
    BY <1>a, <2>1, <2>2 DEF HeldBy, IdleProducer, ProducerLocals, Carries
  <2> QED
    BY <2>3 DEF InPlay
<1>8. CASE FindOrCreateWrite
  <2>1. CASE producer' = [producer EXCEPT ![Discovery] = IdleProducer]
    <3>1. HeldBy(q, img)
      BY <1>a, <2>1 DEF HeldBy, IdleProducer, Carries
    <3> QED
      BY <3>1 DEF InPlay
  <2>2. CASE producer' = [producer EXCEPT ![Discovery].pc = "pair"]
    <3>1. HeldBy(q, img) \/ img = Found
      BY <1>a, <2>2 DEF HeldBy, Found, ProducerLocals
    <3>2. \/ db'[Found.file] = NewRecord(Found.url) /\ Found.file \in Filenames /\ Found.url \in URLs
          \/ producer[Discovery].pc = "rebind"
          \/ db' = db
      BY <1>8, FoundRows, FoundImage
    <3>3. db'[Found.file] = NewRecord(Found.url) /\ Found.file \in Filenames /\ Found.url \in URLs
      <4>1. db' = Insert(db, Found) \/ db' = Reuse(db, Found)
        <5>1. [producer EXCEPT ![Discovery].pc = "pair"] # [producer EXCEPT ![Discovery] = IdleProducer]
          <6>1. [producer EXCEPT ![Discovery].pc = "pair"][Discovery].pc = "pair"
            BY <1>a, ThreeProducers DEF ProducerLocals
          <6>2. [producer EXCEPT ![Discovery] = IdleProducer][Discovery].pc = "idle"
            BY <1>a, ThreeProducers DEF IdleProducer
          <6> QED
            BY <6>1, <6>2
        <5> QED
          BY <1>8, <2>2, <5>1 DEF FindOrCreateWrite, Found
      <4>2. Found.file \in Filenames /\ Found.url \in URLs /\ db \in [Filenames -> ImageRecord \cup {NoRow}]
        BY <1>8, FoundRows, FoundImage DEF TypeInv, TypeOK, Table
      <4> QED
        BY <4>1, <4>2 DEF Insert, Reuse
    <3>4. NewRecord(Found.url) # NoRow
      <4>1. NewRecord(Found.url) \in ImageRecord
        BY <3>3, MaxRetriesAssumption DEF NewRecord, ImageRecord, Status
      <4> QED
        BY <4>1, NoRowAssumption
    <3>5. img = Found => HasRow(img)'
      BY <3>3, <3>4 DEF HasRow, NewRecord
    <3> QED
      BY <3>1, <3>5 DEF InPlay
  <2> QED
    BY <1>8, <2>1, <2>2 DEF FindOrCreateWrite
<1>9. CASE AutoQueue
  <2>1. /\ producer[Discovery].pc = "pair"
        /\ \/ producer' = [producer EXCEPT ![Discovery] =
                             [pc |-> "queue", todo |-> {Found}, hold |-> NoImage]]
           \/ producer' = [producer EXCEPT ![Discovery] = IdleProducer]
    BY <1>9 DEF AutoQueue, Found
  <2>2. HeldBy(q, img) \/ (img = Found /\ HeldBy(Discovery, img))
    BY <1>a, <2>1 DEF HeldBy, IdleProducer, Carries, Finds, Found
  <2> QED
    BY <2>2, ThreeProducers DEF InPlay
<1>10. CASE BootEnqueue \/ BootSync
  <2>1. PICK files : /\ files \subseteq Recorded(db)
                     /\ producer' = Continue(Main, "queue", ToImages(db, files)) \/ producer' = producer
    BY <1>10 DEF BootEnqueue, BootSync, ListFreshQueued, WhereStatus
  <2>2. img \in ToImages(db, files) \/ HeldBy(q, img)
    <3>1. CASE producer' = Continue(Main, "queue", ToImages(db, files))
      BY <3>1, ContinueHolds, ThreeProducers DEF Carries
    <3> QED
      BY <2>1, <3>1 DEF HeldBy
  <2> QED
    BY <2>1, <2>2, QueriesHaveRows DEF InPlay
<1>11. CASE Exit \/ Crash
  BY <1>11 DEF Exit, Crash, ForgetMemory, HeldBy, IdleProducer, Carries
<1> QED
  BY <1>1, <1>2, <1>3, <1>4, <1>5, <1>6, <1>7, <1>8, <1>9, <1>10, <1>11
  DEF Next, vars, Work, PassGate, Receive, Cancelled, Untrack, RecheckPause, Requeue, PassSecondGate,
      MarkUploading, ReadEntry, DownloadImage, Upload, Finish, DeleteObject, EvictHandle,
      HandleFailure, BackoffExpires, Discover, Startup, Boot, BootReset, BootRun, Signal,
      Camera, TakePicture, RenumberHandles

\* Every image in play was there before, or comes from its row.
LEMMA ImagesFlow ==
  ASSUME TypeInv, [Next]_vars, NEW img, InPlay(img)'
  PROVE  InPlay(img) \/ HasRow(img) \/ HasRow(img)'
BY ChannelFlow, WorkerFlow, ProducerFlow DEF InPlay

LEMMA HandlesOwnInit == Init => OwnHandles
BY ThreeProducers
DEF Init, OwnHandles, EmptyTable, Recorded, InPlay, InChannel, HeldBy, TakenBy, Finding, Finds,
    IdleProducer, IdleWorker, Carries, NoImg

\* Wherever an image travels, it carries a handle that its file may have.
LEMMA HandlesOwnStep == TypeInv /\ CardOK /\ OwnHandles /\ [Next]_vars => OwnHandles'
<1> SUFFICES ASSUME TypeInv, CardOK, OwnHandles, [Next]_vars PROVE OwnHandles'
  OBVIOUS
<1>a. db \in Table
  BY DEF TypeInv, TypeOK
<1>1. ASSUME NEW f \in Filenames, db'[f] # NoRow PROVE db'[f].url \in Handles[f]
  <2>1. CASE SameRows(db, db')
    BY <1>1, <2>1 DEF SameRows, OwnHandles, Recorded
  <2>2. CASE FindOrCreateWrite /\ f # Found.file
    BY <1>1, <2>2, FoundRows DEF OwnHandles, Recorded
  <2>3. CASE FindOrCreateWrite /\ f = Found.file
    <3>1. Found.url \in Handles[f]
      BY <2>3, FoundRows DEF OwnHandles, OwnHandle
    <3>2. CASE producer[Discovery].pc = "rebind"
      <4>1. db[f] \in ImageRecord /\ db'[f] = [db[f] EXCEPT !.url = Found.url]
        BY <1>a, <2>3, <3>2, FoundRows DEF TypeInv, LocalsOK, Found, Table
      <4> QED
        BY <3>1, <4>1 DEF ImageRecord
    <3>3. CASE producer[Discovery].pc # "rebind"
      <4>1. db'[f] = NewRecord(Found.url) \/ db' = db
        BY <2>3, <3>3, FoundRows
      <4> QED
        BY <1>1, <3>1, <4>1 DEF NewRecord, OwnHandles, Recorded
    <3> QED
      BY <3>2, <3>3
  <2> QED
    BY <2>1, <2>2, <2>3, RowsKept
<1>2. ASSUME NEW img \in Image, InPlay(img)' PROVE OwnHandle(img)
  <2>1. img.file \in Filenames
    BY DEF Image
  <2> QED
    BY <1>1, <1>2, <2>1, ImagesFlow DEF HasRow, OwnHandles, OwnHandle, Recorded
<1>3. ASSUME Finding' PROVE OwnHandle(Found')
  <2>1. ASSUME NEW u \in URLs, Emit(u) PROVE OwnHandle(Found')
    <3>1. Found' = [file |-> camera[u], url |-> u] /\ camera[u] # NoFile
      BY <2>1, ThreeProducers DEF Emit, Found, TypeInv, TypeOK
    <3> QED
      BY <3>1 DEF CardOK, Card, OwnHandle
  <2>2. CASE FindOrCreateLookup
    <3>1. Found' = Found /\ Finding
      BY <1>3, <2>2, ThreeProducers
      DEF FindOrCreateLookup, Found, Finding, Finds, TypeInv, TypeOK, ProducerLocals, IdleProducer
    <3> QED
      BY <3>1 DEF OwnHandles
  <2>3. CASE producer'[Discovery] = producer[Discovery]
    BY <1>3, <2>3 DEF OwnHandles, Finding, Found
  <2> QED
    BY <1>3, <2>1, <2>2, <2>3, FindingKept
<1> QED
  BY <1>1, <1>2, <1>3 DEF OwnHandles, OwnHandle, Recorded

\* If handles identify files, rows and images of one handle are of one file.
LEMMA SameHandle ==
  ASSUME HandlesIdentify, TypeInv, OwnHandles
  PROVE  /\ \A f \in Recorded(db), w \in Workers :
              worker[w].pc \notin NoImg /\ db[f].url = worker[w].img.url => worker[w].img.file = f
         /\ \A f \in Recorded(db) : Finding /\ db[f].url = Found.url => Found.file = f
         /\ CardOK => \A w \in Workers :
              worker[w].pc \notin NoImg /\ camera[worker[w].img.url] # NoFile
                => camera[worker[w].img.url] = worker[w].img.file
<1>1. \A f, g \in Filenames : \A u : u \in Handles[f] /\ u \in Handles[g] => f = g
  BY DEF HandlesIdentify
<1>2. \A w \in Workers : worker[w].pc \notin NoImg =>
        /\ worker[w].img.file \in Filenames /\ worker[w].img.url \in URLs
        /\ worker[w].img.url \in Handles[worker[w].img.file]
  BY DEF TypeInv, LocalsOK, OwnHandles, OwnHandle, InPlay, TakenBy, Image
<1>3. Finding => Found.file \in Filenames /\ Found.url \in Handles[Found.file]
  BY FoundImage DEF OwnHandles, OwnHandle
<1>4. CardOK => \A u \in URLs : camera[u] # NoFile =>
                  camera[u] \in Filenames /\ u \in Handles[camera[u]]
  BY DEF CardOK, Card
<1> QED
  BY <1>1, <1>2, <1>3, <1>4 DEF OwnHandles, Recorded

-----------------------------------------------------------------------------
(* The copies in the backend.                                                *)

\* What an upload does to the backend: it succeeds, or leaves a partial file.
Stores(w) ==
  /\ Upload(w)
  /\ worker'[w].pc = "finish" /\ worker'[w].img = worker[w].img
  /\ backend' = [backend EXCEPT ![worker[w].img.file] = worker[w].data]
Spoils(w) ==
  /\ Upload(w) /\ ~AtomicBackend
  /\ worker'[w].pc = "fail"
  /\ backend' = [backend EXCEPT ![worker[w].img.file] = Partial]

LEMMA BackendSteps ==
  ASSUME TypeInv, [Next]_vars
  PROVE  \/ UNCHANGED backend
         \/ \E w \in Workers : Stores(w) \/ Spoils(w)
<1>1. ASSUME NEW w \in Workers, Work(w) PROVE UNCHANGED backend \/ Stores(w) \/ Spoils(w)
  <2>1. CASE Upload(w)
    BY <2>1, GotoMoves DEF Upload, Stores, Spoils
  <2>2. CASE UNCHANGED backend
    BY <2>2
  <2> QED
    BY <1>1, <2>1, <2>2
    DEF Work, PassGate, Receive, Cancelled, Untrack, RecheckPause, Requeue, PassSecondGate,
        MarkUploading, ReadEntry, DownloadImage, Finish, DeleteObject, EvictHandle,
        HandleFailure, durable
<1>2. ASSUME NEW p \in Producers, Enqueue(p) PROVE UNCHANGED backend
  BY <1>2 DEF Enqueue, SkipTracked, Reserve, Send, DropFull, EnterQueue, RequeuePaused, durable
<1>3. ASSUME NEW h \in Handlers, Request(h) \/ Handle(h) PROVE UNCHANGED backend
  BY <1>3
  DEF Request, Handle, HandlePause, HandleResume, HandleAutoUpload, HandleQueue,
      HandleQueueAll, HandleRetryFailed, HandleClear, MarkSelected, HandlerFetch, DrainOne,
      DrainEnd, DrainUntrack, DrainRestore, durable
<1> QED
  BY <1>1, <1>2, <1>3
  DEF Next, vars, durable, BackoffExpires, Emit, Tick, SchedulerFetch, Discover,
      FindOrCreateLookup, FindOrCreateWrite, AutoQueue, Startup, Boot, BootReset, BootEnqueue,
      BootSync, BootRun, Signal, Exit, Crash, ForgetMemory, Camera, TakePicture, RenumberHandles

\* The state in which a worker uploads is reached by downloading only.
LEMMA UploadReached ==
  ASSUME TypeInv, [Next]_vars, NEW w \in Workers, worker'[w].pc = "upload"
  PROVE  \/ worker'[w] = worker[w]
         \/ /\ DownloadImage(w) /\ camera[worker[w].img.url] # NoFile
            /\ worker'[w].img = worker[w].img /\ worker'[w].data = camera[worker[w].img.url]
<1>1. worker'[w] # IdleWorker
  BY DEF IdleWorker
<1> QED
  BY <1>1, WorkersAlone, WorkMoves DEF Moves, NoImg

\* The states after the upload are reached by a successful one only.
LEMMA FinishReached ==
  ASSUME TypeInv, [Next]_vars, NEW w \in Workers, worker'[w].pc \in {"finish", "delete"}
  PROVE  \/ worker'[w].img = worker[w].img /\ worker[w].pc \in {"finish", "delete"}
         \/ Stores(w)
<1>1. worker'[w] # IdleWorker
  BY DEF IdleWorker
<1>2. CASE worker'[w] = worker[w]
  BY <1>2
<1>3. CASE Work(w)
  <2>1. /\ worker'[w].img = worker[w].img
        /\ \/ worker[w].pc = "finish"
           \/ worker[w].pc = "upload" /\ worker'[w].pc = "finish"
    BY <1>3, WorkMoves DEF Moves, NoImg
  <2>2. CASE worker[w].pc = "upload" /\ worker'[w].pc = "finish"
    <3>1. Upload(w)
      BY <1>3, <2>2
      DEF Work, PassGate, Receive, Cancelled, Untrack, RecheckPause, Requeue, PassSecondGate,
          MarkUploading, ReadEntry, DownloadImage, Finish, DeleteObject, EvictHandle, HandleFailure
    <3>2. ~Goto(w, "fail")
      BY <2>2, GotoMoves
    <3> QED
      BY <2>1, <2>2, <3>1, <3>2 DEF Upload, Stores
  <2> QED
    BY <2>1, <2>2
<1> QED
  BY <1>1, <1>2, <1>3, WorkersAlone

\* What a worker uploads is the picture of the file whose row it works on.
LEMMA HandsOverStep ==
  HandlesIdentify /\ TypeInv /\ CardOK /\ OwnHandles /\ HandsOver /\ [Next]_vars => HandsOver'
<1> SUFFICES ASSUME HandlesIdentify, TypeInv, CardOK, OwnHandles, HandsOver, [Next]_vars,
                    NEW w \in Workers, worker'[w].pc = "upload"
             PROVE  worker'[w].data = worker'[w].img.file /\ worker'[w].img.file \in taken'
  BY DEF HandsOver
<1>a. taken \subseteq taken'
  BY CardSteps DEF card, Deletes, TakePicture, RenumberHandles
<1>1. CASE worker'[w] = worker[w]
  BY <1>1, <1>a DEF HandsOver
<1>2. CASE DownloadImage(w)
  <2>1. worker[w].img.file \in Filenames /\ worker[w].img.url \in URLs
    BY <1>2 DEF DownloadImage, TypeInv, LocalsOK, NoImg, Image
  <2>2. worker[w].pc \notin NoImg
    BY <1>2 DEF DownloadImage, NoImg
  <2>3. camera[worker[w].img.url] # NoFile => camera[worker[w].img.url] = worker[w].img.file
    BY <2>2, SameHandle
  <2>4. camera[worker[w].img.url] # NoFile => worker[w].img.file \in taken
    BY <2>1, <2>3 DEF CardOK, OnCamera
  <2>5. worker'[w] = worker[w] \/ /\ camera[worker[w].img.url] # NoFile
                                  /\ worker'[w].img = worker[w].img
                                  /\ worker'[w].data = camera[worker[w].img.url]
    BY UploadReached
  <2> QED
    BY <1>1, <1>a, <2>3, <2>4, <2>5
<1> QED
  BY <1>1, <1>2, UploadReached

-----------------------------------------------------------------------------
(* Whoever relies on a copy finds it.                                        *)

LEMMA ReliableInit == Init => Reliable /\ HandsOver /\ StoredIsTaken
<1> SUFFICES ASSUME Init PROVE Reliable /\ HandsOver /\ StoredIsTaken
  OBVIOUS
<1>1. OnCamera(camera) = taken /\ WhereStatus(db, "done") = {}
  BY DEF Init, Cards, EmptyTable, WhereStatus, Recorded
<1>2. \A w \in Workers : worker[w].pc = "gate"
  BY DEF Init, IdleWorker
<1>3. \A f \in Filenames : backend[f] # f
  BY NoFileAssumption DEF Init
<1> QED
  BY <1>1, <1>2, <1>3 DEF Reliable, Relied, HandsOver, StoredIsTaken, Stored

\* A step that spoils no copy that somebody relies on leaves all of them there:
\* nobody begins to rely on a picture before it is stored.
LEMMA ReliableStep ==
  ASSUME HandlesIdentify, TypeInv, CardOK, OwnHandles, HandsOver, [Next]_vars,
         NEW f \in Filenames, Relied(f)',
         \A g \in Filenames : Relied(g) => backend'[g] = g
  PROVE  backend'[f] = f
<1>1. CASE f \in WhereStatus(db, "done")'
  <2>1. f \in Recorded(db)
    BY <1>1, StatusBegins DEF WhereStatus, Recorded
  <2>2. CASE db[f].status = "done"
    BY <2>1, <2>2 DEF Relied, WhereStatus
  <2>3. ASSUME NEW w \in Workers, Finish(w), db[f].url = worker[w].img.url
        PROVE  Relied(f)
    <3>1. worker[w].pc = "finish" /\ worker[w].pc \notin NoImg
      BY <2>3 DEF Finish, NoImg
    <3>2. worker[w].img.file = f
      BY <2>1, <2>3, <3>1, SameHandle
    <3> QED
      BY <3>1, <3>2 DEF Relied
  <2> QED
    BY <1>1, <2>1, <2>2, <2>3, StatusBegins DEF WhereStatus, Recorded, Says
<1>2. CASE f \in taken' \ OnCamera(camera')
  <2>1. CASE UNCHANGED card
    BY <1>2, <2>1 DEF card, Relied
  <2>2. ASSUME NEW w \in Workers, Deletes(w) PROVE Relied(f)
    <3>1. f \in taken /\ (f \notin OnCamera(camera) \/ f = camera[worker[w].img.url])
      BY <1>2, <2>2, CardAfter DEF Deletes
    <3>2. /\ worker[w].pc = "delete" /\ worker[w].pc \notin NoImg
          /\ camera[worker[w].img.url] # NoFile
      BY <2>2 DEF Deletes, NoImg
    <3>3. camera[worker[w].img.url] = worker[w].img.file
      BY <3>2, SameHandle
    <3> QED
      BY <3>1, <3>2, <3>3 DEF Relied
  <2>3. ASSUME NEW g \in Filenames, TakePicture(g) PROVE Relied(f)
    BY <1>2, <2>3, CardAfter DEF TakePicture, Relied
  <2>4. CASE RenumberHandles
    BY <1>2, <2>4, CardAfter DEF Relied
  <2> QED
    BY <2>1, <2>2, <2>3, <2>4, CardSteps
<1>3. ASSUME NEW w \in Workers, worker'[w].pc \in {"finish", "delete"}, worker'[w].img.file = f
      PROVE  backend'[f] = f
  <2>1. CASE worker'[w].img = worker[w].img /\ worker[w].pc \in {"finish", "delete"}
    BY <1>3, <2>1 DEF Relied
  <2>2. CASE Stores(w)
    BY <1>3, <2>2 DEF Stores, Upload, HandsOver, TypeInv, TypeOK
  <2> QED
    BY <1>3, <2>1, <2>2, FinishReached
<1> QED
  BY <1>1, <1>2, <1>3 DEF Relied

LEMMA StoredIsTakenStep ==
  ASSUME TypeInv, HandsOver, StoredIsTaken, [Next]_vars
  PROVE  StoredIsTaken'
<1>a. taken \subseteq taken'
  BY CardSteps DEF card, Deletes, TakePicture, RenumberHandles
<1>b. backend \in [Filenames -> Content]
  BY DEF TypeInv, TypeOK
<1>1. CASE UNCHANGED backend
  BY <1>1, <1>a DEF StoredIsTaken, Stored
<1>2. ASSUME NEW w \in Workers, Stores(w) PROVE Stored' \subseteq taken
  BY <1>2, <1>b DEF Stores, Upload, HandsOver, StoredIsTaken, Stored
<1>3. ASSUME NEW w \in Workers, Spoils(w) PROVE Stored' \subseteq taken
  BY <1>3, <1>b, NoFileAssumption DEF Spoils, StoredIsTaken, Stored
<1> QED
  BY <1>1, <1>2, <1>3, <1>a, BackendSteps DEF StoredIsTaken

LEMMA ReliableFacts == TypeInv /\ Reliable => DoneIsStored /\ DeletedIsStored
<1> SUFFICES ASSUME TypeInv, Reliable PROVE DoneIsStored /\ DeletedIsStored
  OBVIOUS
<1>1. WhereStatus(db, "done") \subseteq Filenames /\ taken \subseteq Filenames
  BY DEF WhereStatus, Recorded, TypeInv, TypeOK
<1> QED
  BY <1>1 DEF Reliable, Relied, DoneIsStored, DeletedIsStored

-----------------------------------------------------------------------------
(* Backends whose failed uploads leave nothing behind.                        *)

\* Copies stay where they are.
LEMMA CopiesStay ==
  ASSUME AtomicBackend, TypeInv, HandsOver, [Next]_vars,
         NEW f \in Filenames, backend[f] = f
  PROVE  backend'[f] = f
<1>1. ASSUME NEW w \in Workers, Stores(w) PROVE backend'[f] = f
  BY <1>1 DEF Stores, Upload, HandsOver, TypeInv, TypeOK
<1> QED
  BY <1>1, BackendSteps DEF Spoils

DeliveryInv == CardOK /\ OwnHandles /\ HandsOver /\ Reliable /\ StoredIsTaken

LEMMA DeliveryKept ==
  ASSUME HandlesIdentify, AtomicBackend
  PROVE  /\ Init => DeliveryInv
         /\ TypeInv /\ DeliveryInv /\ [Next]_vars => DeliveryInv'
<1>1. Init => DeliveryInv
  BY CardInit, HandlesOwnInit, ReliableInit DEF DeliveryInv
<1>2. ASSUME TypeInv, DeliveryInv, [Next]_vars PROVE DeliveryInv'
  <2> USE DEF DeliveryInv
  <2>1. CardOK' /\ OwnHandles' /\ HandsOver' /\ StoredIsTaken'
    BY <1>2, CardStep, HandlesOwnStep, HandsOverStep, StoredIsTakenStep
  <2>2. \A g \in Filenames : Relied(g) => backend'[g] = g
    BY <1>2, CopiesStay DEF Reliable
  <2>3. Reliable'
    BY <1>2, <2>2, ReliableStep DEF Reliable
  <2> QED
    BY <2>1, <2>3
<1> QED
  BY <1>1, <1>2

\* If the camera never gives the handle of one file to another and a failed
\* upload leaves nothing behind, done means stored, for any number of workers
\* (pipeline.go:278-294).
THEOREM DoneStaysStored ==
  ASSUME HandlesIdentify, AtomicBackend
  PROVE  Spec => []DoneIsStored
<1>1. TypeInv /\ DeliveryInv => DoneIsStored
  BY ReliableFacts DEF DeliveryInv
<1> QED
  BY <1>1, DeliveryKept, LocalsCorrect, PTL DEF Spec

\* Under the same conditions nothing leaves the card that is not stored
\* (pipeline.go:296-303).
THEOREM DeletedStaysStored ==
  ASSUME HandlesIdentify, AtomicBackend
  PROVE  Spec => []DeletedIsStored
<1>1. TypeInv /\ DeliveryInv => DeletedIsStored
  BY ReliableFacts DEF DeliveryInv
<1> QED
  BY <1>1, DeliveryKept, LocalsCorrect, PTL DEF Spec

-----------------------------------------------------------------------------
(* The queue implements Delivery, step by step.                              *)

\* If handles identify files, no row is ever given to another file.
LEMMA RowsRemain ==
  ASSUME HandlesIdentify, TypeInv, OwnHandles, [Next]_vars,
         NEW f \in Filenames, db[f] # NoRow
  PROVE  db'[f] # NoRow
<1>1. CASE SameRows(db, db')
  BY <1>1 DEF SameRows
<1>2. CASE FindOrCreateWrite /\ f # Found.file
  BY <1>2, FoundRows, SameHandle DEF Recorded
<1>3. CASE FindOrCreateWrite /\ f = Found.file
  <2>1. db[f] \in ImageRecord /\ Found.url \in URLs
    BY <1>3, FoundRows, FoundImage DEF TypeInv, TypeOK, Table
  <2>2. [db[f] EXCEPT !.url = Found.url] \in ImageRecord /\ NewRecord(Found.url) \in ImageRecord
    BY <2>1, MaxRetriesAssumption DEF NewRecord, ImageRecord, Status
  <2> QED
    BY <1>3, <2>2, FoundRows, NoRowAssumption
<1> QED
  BY <1>1, <1>2, <1>3, RowsKept

\* The steps that change what the table says, and nothing else.
LEMMA ReportStep ==
  ASSUME HandlesIdentify, TypeInv, DeliveryInv, [Next]_vars,
         UNCHANGED <<OnCamera(camera), Stored>>
  PROVE  [Abstract!Next]_(Abstract!dvars)
<1> DEFINE status == [f \in Filenames |-> Report(f)]
<1>1. status' \in [Filenames -> Abstract!Reports]
  <2> SUFFICES ASSUME NEW f \in Filenames PROVE Report(f)' \in Abstract!Reports
    OBVIOUS
  <2>1. db' \in Table
    BY TypeStep DEF TypeInv, TypeOK
  <2> QED
    BY <2>1 DEF Report, Abstract!Reports, Table, ImageRecord, Status
<1>2. ASSUME NEW f \in Filenames, Report(f) # "unknown" PROVE Report(f)' # "unknown"
  <2>1. db[f] # NoRow
    BY <1>2 DEF Report
  <2>2. db'[f] # NoRow /\ db' \in Table
    BY <2>1, RowsRemain, TypeStep DEF DeliveryInv, TypeInv, TypeOK
  <2> QED
    BY <2>2 DEF Report, Table, ImageRecord, Status
<1>3. ASSUME NEW f \in Filenames, Report(f)' = "done" PROVE Report(f) = "done" \/ f \in Stored
  <2>1. db'[f] # NoRow /\ db'[f].status = "done"
    BY <1>3 DEF Report
  <2>2. db[f] # NoRow
    BY <2>1, StatusBegins
  <2>3. CASE db[f].status = "done"
    BY <2>2, <2>3 DEF Report
  <2>4. ASSUME NEW w \in Workers, Finish(w), db[f].url = worker[w].img.url PROVE f \in Stored
    <3>1. worker[w].pc = "finish" /\ worker[w].pc \notin NoImg
      BY <2>4 DEF Finish, NoImg
    <3>2. worker[w].img.file = f
      BY <2>2, <2>4, <3>1, SameHandle DEF DeliveryInv, Recorded
    <3> QED
      BY <3>1, <3>2 DEF DeliveryInv, Reliable, Relied, Stored
  <2> QED
    BY <2>1, <2>3, <2>4, StatusBegins DEF Says
<1>4. /\ \A f \in Filenames : status[f] # "unknown" => status'[f] # "unknown"
      /\ \A f \in Filenames : status'[f] = "done" => status[f] = "done" \/ f \in Stored
  BY <1>2, <1>3
<1>5. Abstract!Report
  BY <1>1, <1>4 DEF Abstract!Report
<1> QED
  BY <1>5 DEF Abstract!Next

LEMMA DeliveryStep ==
  ASSUME HandlesIdentify, AtomicBackend, TypeInv, DeliveryInv, [Next]_vars
  PROVE  [Abstract!Next]_(Abstract!dvars)
<1> DEFINE status == [f \in Filenames |-> Report(f)]
<1>a. backend \in [Filenames -> Content] /\ UNCHANGED db => UNCHANGED status
  BY DEF Report
<1>b. UNCHANGED <<camera, taken>> => UNCHANGED OnCamera(camera)
  BY DEF OnCamera
<1>1. CASE UNCHANGED card /\ UNCHANGED backend
  BY <1>1, <1>b, ReportStep DEF card, Stored
<1>2. ASSUME UNCHANGED card, NEW w \in Workers, Stores(w)
      PROVE  [Abstract!Next]_(Abstract!dvars)
  <2> DEFINE f == worker[w].img.file
  <2>1. /\ f \in Filenames /\ f \in taken
        /\ backend \in [Filenames -> Content]
        /\ backend' = [backend EXCEPT ![f] = f]
    BY <1>2 DEF Stores, Upload, HandsOver, DeliveryInv, TypeInv, TypeOK, LocalsOK, NoImg, Image
  <2>2. Stored' = Stored \cup {f}
    BY <2>1 DEF Stored
  <2>3. UNCHANGED status /\ UNCHANGED OnCamera(camera)
    BY <1>2, <1>b DEF Stores, Upload, Report, card
  <2>4. CASE f \in OnCamera(camera)
    <3>1. Abstract!Store(f)
      BY <2>2, <2>3, <2>4 DEF Abstract!Store
    <3> QED
      BY <2>1, <3>1 DEF Abstract!Next
  <2>5. CASE f \notin OnCamera(camera)
    <3>1. UNCHANGED Stored
      BY <2>1, <2>2, <2>5 DEF DeliveryInv, Reliable, Relied, Stored
    <3> QED
      BY <2>3, <3>1 DEF Abstract!dvars
  <2> QED
    BY <2>4, <2>5
<1>3. ASSUME NEW w \in Workers, Deletes(w) PROVE [Abstract!Next]_(Abstract!dvars)
  <2> DEFINE f == worker[w].img.file
  <2>1. worker[w].pc = "delete" /\ camera[worker[w].img.url] = f /\ f \in Filenames
    BY <1>3, SameHandle DEF Deletes, NoImg, DeliveryInv, TypeInv, LocalsOK, Image
  <2>2. f \in Stored
    BY <2>1 DEF DeliveryInv, Reliable, Relied, Stored
  <2>3. OnCamera(camera)' = OnCamera(camera) \ {f}
    BY <1>3, <2>1, CardAfter DEF DeliveryInv
  <2>4. UNCHANGED status /\ UNCHANGED Stored
    BY <1>3 DEF Deletes, durable, Report, Stored
  <2>5. Abstract!Remove(f)
    BY <2>2, <2>3, <2>4 DEF Abstract!Remove
  <2> QED
    BY <2>1, <2>5 DEF Abstract!Next
<1>4. ASSUME UNCHANGED durable, NEW f \in Filenames, TakePicture(f)
      PROVE  [Abstract!Next]_(Abstract!dvars)
  <2>1. f \notin taken /\ OnCamera(camera)' = OnCamera(camera) \cup {f}
    BY <1>4, CardAfter DEF DeliveryInv
  <2>2. f \notin OnCamera(camera) \cup Stored
    BY <2>1 DEF DeliveryInv, CardOK, StoredIsTaken
  <2>3. UNCHANGED status /\ UNCHANGED Stored
    BY <1>4 DEF durable, Report, Stored
  <2>4. Abstract!Photograph(f)
    BY <2>1, <2>2, <2>3 DEF Abstract!Photograph
  <2> QED
    BY <2>4 DEF Abstract!Next
<1>5. CASE UNCHANGED durable /\ RenumberHandles
  <2>1. UNCHANGED OnCamera(camera)
    BY <1>5, CardAfter DEF DeliveryInv
  <2>2. UNCHANGED status /\ UNCHANGED Stored
    BY <1>5 DEF durable, Report, Stored
  <2> QED
    BY <2>1, <2>2 DEF Abstract!dvars
<1>6. \A w \in Workers : ~Spoils(w)
  BY DEF Spoils
<1> QED
  BY <1>1, <1>2, <1>3, <1>4, <1>5, <1>6, CardSteps, BackendSteps

LEMMA DeliveryInit == Init => Abstract!Init
<1> SUFFICES ASSUME Init PROVE Abstract!Init
  OBVIOUS
<1>1. Stored = {}
  BY NoFileAssumption DEF Init, Stored
<1>2. OnCamera(camera) \subseteq Filenames
  BY DEF OnCamera
<1>3. [f \in Filenames |-> Report(f)] = [f \in Filenames |-> "unknown"]
  BY DEF Init, EmptyTable, Report
<1> QED
  BY <1>1, <1>2, <1>3 DEF Abstract!Init

\* Every behaviour of the queue, with its workers, retries, crashes and restarts,
\* is one of Delivery, if handles identify files and failed uploads leave nothing
\* (pipeline.go:137-320).
THEOREM QueueImplementsDelivery ==
  ASSUME HandlesIdentify, AtomicBackend
  PROVE  Spec => ImplementsDelivery
<1>1. TypeInv /\ DeliveryInv /\ [Next]_vars => [Abstract!Next]_(Abstract!dvars)
  BY DeliveryStep
<1> QED
  BY <1>1, DeliveryInit, DeliveryKept, LocalsCorrect, PTL DEF Spec, ImplementsDelivery, Abstract!Spec

\* What Delivery promises of a step therefore holds of the queue: a picture that
\* leaves the card is stored, and what is stored stays, whoever deletes, retries,
\* clears or restarts meanwhile (pipeline.go:237-306).
THEOREM NothingLeavesUnstored ==
  ASSUME HandlesIdentify, AtomicBackend
  PROVE  Spec => Abstract!NothingIsLost
<1> DEFINE pictures == OnCamera(camera)
<1>1. TypeInv /\ DeliveryInv /\ [Next]_vars =>
        [pictures \subseteq pictures' \cup Stored' /\ Stored \subseteq Stored']_(Abstract!dvars)
  <2> SUFFICES ASSUME Abstract!Next
               PROVE  pictures \subseteq pictures' \cup Stored' /\ Stored \subseteq Stored'
    BY DeliveryStep
  <2>1. CASE Abstract!Report
    BY <2>1 DEF Abstract!Report
  <2>2. ASSUME NEW f \in Filenames, Abstract!Photograph(f) \/ Abstract!Store(f) \/ Abstract!Remove(f)
        PROVE  pictures \subseteq pictures' \cup Stored' /\ Stored \subseteq Stored'
    BY <2>2 DEF Abstract!Photograph, Abstract!Store, Abstract!Remove
  <2> QED
    BY <2>1, <2>2 DEF Abstract!Next
<1> QED
  BY <1>1, DeliveryInit, DeliveryKept, LocalsCorrect, PTL DEF Spec, Abstract!NothingIsLost

-----------------------------------------------------------------------------
(* One worker, as in the example configuration: what it relies on cannot      *)
(* change under it, even if a failed upload leaves a partial file.            *)

RowsInv == CardOK /\ OwnHandles /\ HandlesStay /\ RowsStay

\* As long as the camera keeps its handles, a row stays and keeps its handle.
LEMMA RowStays ==
  ASSUME TypeInv, HandlesStay, RowsStay, [Next]_vars, NEW f \in Filenames, db[f] # NoRow
  PROVE  /\ db'[f] # NoRow /\ db'[f].url = db[f].url
         /\ FindOrCreateWrite => db'[f] = db[f]
<1>1. FindOrCreateWrite => db'[f] = db[f]
  BY FoundRows DEF HandlesStay, RowsStay
<1> QED
  BY <1>1, RowsKept DEF SameRows

LEMMA RowsInit == Init => RowsInv
<1>1. Init => RowsStay
  BY ThreeProducers
  DEF Init, RowsStay, InPlay, InChannel, HeldBy, TakenBy, IdleProducer, IdleWorker, Carries, NoImg
<1> QED
  BY <1>1, CardInit, HandlesOwnInit, HandlesInit DEF RowsInv

LEMMA RowsStep ==
  ASSUME HandlesIdentify, ~Renumbers, TypeInv, RowsInv, [Next]_vars
  PROVE  RowsInv'
<1> USE DEF RowsInv
<1>1. ASSUME NEW img \in Image, InPlay(img)' PROVE HasRow(img)'
  <2>1. img.file \in Filenames
    BY DEF Image
  <2>2. HasRow(img) => HasRow(img)'
    BY <2>1, RowStays DEF HasRow
  <2> QED
    BY <1>1, <2>2, ImagesFlow DEF RowsStay
<1>2. producer'[Discovery].pc # "reuse"
  <2> SUFFICES ASSUME producer'[Discovery].pc = "reuse" PROVE FALSE
    OBVIOUS
  <2>1. ASSUME NEW u \in URLs, Emit(u) PROVE FALSE
    BY <2>1, ThreeProducers DEF Emit, TypeInv, TypeOK
  <2>2. CASE FindOrCreateLookup
    <3>1. Lookup(db, Found) = "reuse" /\ Finding
      BY <2>2, ThreeProducers
      DEF FindOrCreateLookup, Found, Finding, Finds, TypeInv, TypeOK, IdleProducer
    <3>2. PICK f \in WhereURL(db, Found.url) : f # Found.file
      BY <3>1 DEF Lookup
    <3> QED
      BY <3>1, <3>2, SameHandle DEF WhereURL
  <2> QED
    BY <2>1, <2>2, FindingKept DEF Finding, Finds, RowsStay
<1> QED
  BY <1>1, <1>2, CardStep, HandlesOwnStep, HandlesStep DEF RowsStay

\* A worker in flight has a row, and what happens to it meanwhile.
LEMMA FlightRow ==
  ASSUME OneWorker, TypeInv, RowsInv, [Next]_vars, NEW w \in Workers, InFlight(w)'
  PROVE  LET f == worker[w].img.file
         IN  /\ worker'[w].img = worker[w].img /\ worker[w].pc \notin NoImg
             /\ f \in Filenames /\ db[f] # NoRow /\ db[f].url = worker[w].img.url
             /\ \/ MarkUploading(w) /\ worker'[w].pc = "read" /\ db'[f].status = "uploading"
                \/ /\ InFlight(w)
                   /\ \/ Requeues(db, db') \/ db'[f] = db[f]
                      \/ Clears(db, db') /\ \E h \in Handlers : HandleClear(h) \/ DrainRestore(h)
                   /\ \/ worker'[w].retry = worker[w].retry
                           /\ (worker'[w].pc \in Counted => worker[w].pc \in Counted)
                      \/ worker'[w].retry = db[f].retry /\ UNCHANGED db
<1> DEFINE f == worker[w].img.file
<1>a. db \in Table
  BY DEF TypeInv, TypeOK
<1>1. worker'[w] # IdleWorker /\ worker'[w].pc \notin NoImg /\ worker'[w].pc # "untrack"
  BY DEF InFlight, IdleWorker, NoImg
<1>2. \/ worker'[w] = worker[w]
      \/ Work(w) /\ worker'[w].img = worker[w].img /\ worker[w].pc \notin NoImg
  BY <1>1, WorkersAlone, WorkMoves DEF Moves, NoImg, DownloadImage, ReadEntry
<1>3. worker'[w].img = worker[w].img /\ worker[w].pc \notin NoImg
  BY <1>1, <1>2
<1>4. f \in Filenames /\ db[f] # NoRow /\ db[f].url = worker[w].img.url
  <2>1. worker[w].img \in Image
    BY <1>3 DEF TypeInv, LocalsOK
  <2>2. InPlay(worker[w].img)
    BY <1>3 DEF InPlay, TakenBy
  <2> QED
    BY <2>1, <2>2 DEF RowsInv, RowsStay, HasRow, Image
\* The worker does not end its flight with this step.
<1>5. ~Finish(w) /\ ~HandleFailure(w)
  <2>1. Finish(w) => worker'[w].pc = "delete" \/ worker'[w] = IdleWorker
    BY GotoMoves DEF Finish, Step, TypeInv, TypeOK
  <2>2. HandleFailure(w) => worker'[w] = IdleWorker
    BY DEF HandleFailure, Step, TypeInv, TypeOK
  <2> QED
    BY <1>1, <2>1, <2>2 DEF InFlight
<1>6. CASE MarkUploading(w)
  <2>1. worker'[w].pc = "read"
    BY <1>6, GotoMoves DEF MarkUploading
  <2>2. db'[f].status = "uploading"
    BY <1>4, <1>5, <1>6, ProgressRows
  <2> QED
    BY <1>3, <1>4, <1>6, <2>1, <2>2
<1>7. CASE ~MarkUploading(w)
  <2>1. \/ Requeues(db, db') \/ db'[f] = db[f]
        \/ Clears(db, db') /\ \E h \in Handlers : HandleClear(h) \/ DrainRestore(h)
    BY <1>4, <1>5, <1>7, RowStays, Statements DEF OneWorker, RowsInv
  <2>2. CASE worker'[w] = worker[w]
    BY <1>3, <1>4, <2>1, <2>2 DEF InFlight
  <2>3. CASE Work(w) /\ worker'[w] # worker[w]
    <3>1. \/ /\ <<worker[w].pc, worker'[w].pc>> \in Moves
             /\ worker'[w].retry = worker[w].retry
          \/ /\ worker[w].pc = "download" /\ worker'[w].pc = "upload"
             /\ worker'[w].retry = worker[w].retry
          \/ /\ worker[w].pc = "read" /\ worker'[w].pc = "download"
             /\ UNCHANGED db /\ worker'[w].retry = db[f].retry
      BY <1>1, <1>4, <2>3, WorkMoves DEF DownloadImage, ReadEntry
    <3>2. worker[w].pc # "mark"
      <4>1. worker[w].pc = "mark" => MarkUploading(w)
        BY <2>3
        DEF Work, PassGate, Receive, Cancelled, Untrack, RecheckPause, Requeue, PassSecondGate,
            ReadEntry,
            DownloadImage, Upload, Finish, DeleteObject, EvictHandle, HandleFailure
      <4> QED
        BY <1>7, <4>1
    <3>3. InFlight(w) /\ (worker[w].pc # "read" => worker[w].pc \in Counted)
      BY <3>1, <3>2 DEF InFlight, Moves, Counted
    <3>4. worker[w].pc = "read" => UNCHANGED db /\ worker'[w].retry = db[f].retry
      BY <3>1 DEF Moves
    <3>5. worker[w].pc # "read" => worker'[w].retry = worker[w].retry
      BY <3>1
    <3> QED
      BY <1>3, <1>4, <2>1, <3>3, <3>4, <3>5
  <2> QED
    BY <1>2, <2>2, <2>3
<1> QED
  BY <1>6, <1>7

\* Nobody says done or failed of the row while its worker is in flight.
LEMMA RowInFlightStep ==
  ASSUME OneWorker, TypeInv, RowsInv, RowInFlight, [Next]_vars
  PROVE  RowInFlight'
<1> SUFFICES ASSUME NEW w \in Workers, InFlight(w)'
             PROVE  db'[worker'[w].img.file].status \in {"uploading", "queued", "discovered"}
  BY DEF RowInFlight
<1> DEFINE f == worker[w].img.file
<1>1. /\ worker'[w].img = worker[w].img /\ f \in Filenames /\ db[f] # NoRow
      /\ \/ db'[f].status = "uploading"
         \/ InFlight(w) /\ (Requeues(db, db') \/ Clears(db, db') \/ db'[f] = db[f])
  BY FlightRow
<1>2. InFlight(w) => db[f].status \in {"uploading", "queued", "discovered"}
  BY DEF RowInFlight
<1> QED
  BY <1>1, <1>2 DEF Requeues, Clears

LEMMA StillOnCardStep ==
  ASSUME HandlesIdentify, ~Renumbers, OneWorker, TypeInv, RowsInv, StillOnCard, [Next]_vars
  PROVE  StillOnCard'
<1> SUFFICES ASSUME NEW w \in Workers, worker'[w].pc = "upload"
             PROVE  camera'[worker'[w].img.url] = worker'[w].img.file
  BY DEF StillOnCard
<1>1. CASE DownloadImage(w) /\ camera[worker[w].img.url] # NoFile /\ worker'[w].img = worker[w].img
  <2>1. camera[worker[w].img.url] = worker[w].img.file
    BY <1>1, SameHandle DEF RowsInv, DownloadImage, NoImg
  <2> QED
    BY <1>1, <2>1 DEF DownloadImage, card
<1>2. CASE worker'[w] = worker[w]
  <2>1. /\ camera[worker[w].img.url] = worker[w].img.file
        /\ worker[w].img.file \in Filenames /\ worker[w].img.url \in URLs
    BY <1>2 DEF StillOnCard, TypeInv, LocalsOK, NoImg, Image
  <2>2. \A v \in Workers : ~Deletes(v)
    BY <1>2 DEF OneWorker, Deletes
  <2>3. ASSUME NEW g \in Filenames, TakePicture(g)
        PROVE  camera'[worker[w].img.url] = camera[worker[w].img.url]
    BY <2>1, <2>3, NoFileAssumption, HandlesAssumption DEF TakePicture, TypeInv, TypeOK
  <2> QED
    BY <1>2, <2>1, <2>2, <2>3, CardSteps DEF card, RenumberHandles
<1> QED
  BY <1>1, <1>2, UploadReached

\* A failed upload spoils only a copy that nobody relies on yet.
LEMMA CopiesKept ==
  ASSUME OneWorker, TypeInv, RowsInv, HandsOver, Reliable, RowInFlight, StillOnCard,
         [Next]_vars, NEW g \in Filenames, Relied(g)
  PROVE  backend'[g] = g
<1>a. backend[g] = g /\ backend \in [Filenames -> Content]
  BY DEF Reliable, TypeInv, TypeOK
<1>1. ASSUME NEW w \in Workers, Stores(w) PROVE backend'[g] = g
  BY <1>1, <1>a DEF Stores, Upload, HandsOver
<1>2. ASSUME NEW w \in Workers, Spoils(w) PROVE worker[w].img.file # g
  <2> SUFFICES ASSUME worker[w].img.file = g PROVE FALSE
    OBVIOUS
  <2>1. worker[w].pc = "upload" /\ worker[w].img.url \in URLs
    BY <1>2 DEF Spoils, Upload, TypeInv, LocalsOK, NoImg, Image
  <2>2. g \notin WhereStatus(db, "done")
    BY <2>1 DEF RowInFlight, InFlight, WhereStatus
  <2>3. g \in OnCamera(camera)
    BY <2>1 DEF StillOnCard, OnCamera
  <2>4. \A v \in Workers : worker[v].pc \notin {"finish", "delete"}
    BY <2>1 DEF OneWorker
  <2> QED
    BY <2>2, <2>3, <2>4 DEF Relied
<1> QED
  BY <1>1, <1>2, <1>a, BackendSteps DEF Spoils

OneWorkerInv == RowsInv /\ HandsOver /\ Reliable /\ RowInFlight /\ StillOnCard

LEMMA OneWorkerKept ==
  ASSUME HandlesIdentify, OneWorker, ~Renumbers
  PROVE  /\ Init => OneWorkerInv
         /\ TypeInv /\ OneWorkerInv /\ [Next]_vars => OneWorkerInv'
<1>1. Init => RowInFlight /\ StillOnCard
  BY DEF Init, RowInFlight, StillOnCard, InFlight, IdleWorker
<1>2. ASSUME TypeInv, OneWorkerInv, [Next]_vars PROVE OneWorkerInv'
  <2> USE DEF OneWorkerInv
  <2>1. RowsInv' /\ RowInFlight' /\ StillOnCard'
    BY <1>2, RowsStep, RowInFlightStep, StillOnCardStep
  <2>2. HandsOver'
    BY <1>2, HandsOverStep DEF RowsInv
  <2>3. \A g \in Filenames : Relied(g) => backend'[g] = g
    BY <1>2, CopiesKept
  <2>4. Reliable'
    BY <1>2, <2>3, ReliableStep DEF Reliable, RowsInv
  <2> QED
    BY <2>1, <2>2, <2>4
<1> QED
  BY <1>1, <1>2, RowsInit, ReliableInit DEF OneWorkerInv

\* With one worker, done means stored and nothing leaves the card that is not
\* stored, even if failed uploads overwrite what was there (pipeline.go:288-303).
THEOREM OneWorkerDelivers ==
  ASSUME HandlesIdentify, OneWorker, ~Renumbers
  PROVE  Spec => [](DoneIsStored /\ DeletedIsStored)
<1>1. TypeInv /\ OneWorkerInv => DoneIsStored /\ DeletedIsStored
  BY ReliableFacts DEF OneWorkerInv
<1> QED
  BY <1>1, OneWorkerKept, LocalsCorrect, PTL DEF Spec

\* A handler that clears the queue gets there by the request only.
LEMMA DrainReached ==
  ASSUME "clear" \notin Requests, TypeInv, [Next]_vars, NEW h \in Handlers,
         producer'[h].pc \in {"drain", "untrack", "restore"}
  PROVE  producer[h].pc \in {"drain", "untrack", "restore"}
<1>a. producer \in [Producers -> ProducerLocals] /\ h \in Producers
  BY ThreeProducers DEF TypeInv, TypeOK
<1>1. CASE producer'[h] = producer[h]
  BY <1>1
<1>2. ASSUME NEW p \in Producers, Enqueue(p) PROVE producer'[h] = producer[h]
  <2>1. \A q \in Producers : q # p => producer'[q] = producer[q]
    BY <1>2, <1>a
    DEF Enqueue, SkipTracked, Reserve, Send, DropFull, EnterQueue, RequeuePaused, Continue
  <2>2. p = h => producer'[h].pc \notin {"drain", "untrack", "restore"}
    BY <1>2, <1>a
    DEF Enqueue, SkipTracked, Reserve, Send, DropFull, EnterQueue, RequeuePaused, Continue,
        IdleProducer, ProducerLocals
  <2> QED
    BY <1>a, <2>1, <2>2
<1>3. ASSUME NEW g \in Handlers, Request(g) \/ Handle(g), producer'[h] # producer[h]
      PROVE  producer[h].pc \in {"drain", "untrack", "restore"}
  <2>1. g = h /\ g \in Producers
    BY <1>3, <1>a, ThreeProducers
    DEF Request, Handle, HandlePause, HandleResume, HandleAutoUpload, HandleQueue,
        HandleQueueAll, HandleRetryFailed, HandleClear, MarkSelected, HandlerFetch, DrainOne,
        DrainEnd, DrainUntrack, DrainRestore, Continue
  <2>2. CASE HandleQueue(h) \/ HandlerFetch(h)
    BY <2>2, <1>a DEF HandleQueue, HandlerFetch, Continue, IdleProducer
  <2>3. CASE HandleQueueAll(h) \/ HandleRetryFailed(h)
    BY <2>3, <1>a DEF HandleQueueAll, HandleRetryFailed, ProducerLocals
  <2>4. CASE MarkSelected(h)
    BY <2>4, <1>a DEF MarkSelected, IdleProducer
  <2>5. ~HandleClear(h)
    BY DEF HandleClear, Accept
  <2> QED
    BY <1>3, <2>1, <2>2, <2>3, <2>4, <2>5
    DEF Request, Handle, HandlePause, HandleResume, HandleAutoUpload, DrainOne, DrainEnd,
        DrainUntrack, DrainRestore
<1>4. CASE Tick \/ SchedulerFetch
  BY <1>4, <1>1, <1>a, ThreeProducers DEF Tick, SchedulerFetch, Continue
<1>5. CASE (\E u \in URLs : Emit(u)) \/ Discover
  BY <1>5, <1>1, <1>a, ThreeProducers
  DEF Emit, Discover, FindOrCreateLookup, FindOrCreateWrite, AutoQueue
<1>6. CASE Startup
  BY <1>6, <1>1, <1>a, ThreeProducers
  DEF Startup, Boot, BootReset, BootEnqueue, BootSync, BootRun, Continue
<1>7. ~Exit /\ ~Crash
  BY <1>a DEF Exit, Crash, ForgetMemory, IdleProducer
<1> QED
  BY <1>1, <1>2, <1>3, <1>4, <1>5, <1>6, <1>7
  DEF Next, vars, Work, PassGate, Receive, Cancelled, Untrack, RecheckPause, Requeue, PassSecondGate,
      MarkUploading, ReadEntry, DownloadImage, Upload, Finish, DeleteObject, EvictHandle,
      HandleFailure, BackoffExpires, Signal, Camera, TakePicture, RenumberHandles

\* The count that the worker read stays the count of the row.
LEMMA RowCountedStep ==
  ASSUME OneWorker, "clear" \notin Requests, TypeInv, RowsInv, RowInFlight, RowCounted, [Next]_vars
  PROVE  RowCounted'
<1>1. \A h \in Handlers : producer'[h].pc \notin {"drain", "untrack", "restore"}
  BY DrainReached DEF RowCounted
<1>2. ASSUME NEW w \in Workers, InFlight(w)'
      PROVE  LET row == db'[worker'[w].img.file]
             IN  /\ row.status # "discovered"
                 /\ worker'[w].pc \in Counted => row.retry = worker'[w].retry
  <2> DEFINE f == worker[w].img.file
  <2>1. worker'[w].img = worker[w].img /\ f \in Filenames /\ db[f] # NoRow
    BY <1>2, FlightRow
  <2>2. CASE worker'[w].pc = "read" /\ db'[f].status = "uploading"
    BY <2>1, <2>2 DEF Counted
  <2>3. CASE InFlight(w) /\ (Requeues(db, db') \/ db'[f] = db[f])
    <3>1. db[f].status \in {"uploading", "queued"}
      BY <2>3 DEF RowInFlight, RowCounted
    <3>2. db'[f].status # "discovered" /\ db'[f].retry = db[f].retry
      BY <2>1, <2>3, <3>1 DEF Requeues
    <3>3. \/ worker'[w].retry = worker[w].retry
               /\ (worker'[w].pc \in Counted => worker[w].pc \in Counted)
          \/ worker'[w].retry = db[f].retry
          \/ MarkUploading(w)
      BY <1>2, FlightRow
    <3> QED
      BY <2>1, <2>3, <3>2, <3>3 DEF RowCounted, MarkUploading, InFlight
  <2>4. \A h \in Handlers : ~HandleClear(h) /\ ~DrainRestore(h)
    BY DEF HandleClear, Accept, DrainRestore, RowCounted
  <2>5. \/ worker'[w].pc = "read" /\ db'[f].status = "uploading"
        \/ InFlight(w) /\ (Requeues(db, db') \/ db'[f] = db[f])
    BY <1>2, <2>4, FlightRow
  <2> QED
    BY <2>2, <2>3, <2>5
<1>3. Counted \subseteq {"read", "download", "upload", "finish", "fail"}
  BY DEF Counted
<1>4. \A w \in Workers : worker'[w].pc \in Counted => InFlight(w)'
  BY <1>3 DEF InFlight
<1> QED
  BY <1>1, <1>2, <1>4 DEF RowCounted

LEMMA ExhaustedStep ==
  ASSUME HandlesIdentify, TypeInv, RowsInv, RowCounted, FailedIsExhausted, [Next]_vars
  PROVE  FailedIsExhausted'
<1> SUFFICES ASSUME NEW f \in Filenames, db'[f] # NoRow, db'[f].status = "failed"
             PROVE  db'[f].retry = MaxRetries
  BY DEF FailedIsExhausted, WhereStatus, Recorded
<1>1. db[f] # NoRow /\ db'[f].retry = db[f].retry
  BY StatusBegins
<1>2. CASE db[f].status = "failed"
  BY <1>1, <1>2 DEF FailedIsExhausted, WhereStatus, Recorded
<1>3. ASSUME NEW w \in Workers, HandleFailure(w), ~(worker[w].retry < MaxRetries),
             db[f].url = worker[w].img.url
      PROVE  db[f].retry = MaxRetries
  <2>1. worker[w].pc = "fail" /\ worker[w].pc \notin NoImg
    BY <1>3 DEF HandleFailure, NoImg
  <2>2. worker[w].img.file = f
    BY <1>1, <1>3, <2>1, SameHandle DEF RowsInv, Recorded
  <2>3. db[f].retry = worker[w].retry
    BY <2>1, <2>2 DEF RowCounted, Counted
  <2>4. worker[w].retry \in 0 .. MaxRetries
    BY DEF TypeInv, TypeOK, WorkerLocals
  <2> QED
    BY <1>3, <2>3, <2>4, MaxRetriesAssumption
<1> QED
  BY <1>1, <1>2, <1>3, StatusBegins DEF Says

\* With one worker, a row that says failed has used up its retries, if the user
\* does not clear the queue: clearing resets the count of an upload in flight
\* (pipeline.go:97-113, 308-320).
THEOREM FailedStaysExhausted ==
  ASSUME HandlesIdentify, OneWorker, ~Renumbers, "clear" \notin Requests
  PROVE  Spec => []FailedIsExhausted
<1> DEFINE Inv == OneWorkerInv /\ RowCounted /\ FailedIsExhausted
<1>1. Init => RowCounted /\ FailedIsExhausted
  BY ThreeProducers
  DEF Init, RowCounted, FailedIsExhausted, InFlight, Counted, IdleWorker, IdleProducer,
      EmptyTable, WhereStatus, Recorded
<1>2. TypeInv /\ Inv /\ [Next]_vars => (RowCounted /\ FailedIsExhausted)'
  BY RowCountedStep, ExhaustedStep DEF OneWorkerInv
<1>3. Init => Inv
  BY <1>1, OneWorkerKept
<1>4. TypeInv /\ Inv /\ [Next]_vars => Inv'
  BY <1>2, OneWorkerKept
<1>5. Inv => FailedIsExhausted
  OBVIOUS
<1> HIDE DEF Inv
<1> QED
  BY <1>3, <1>4, <1>5, LocalsCorrect, PTL DEF Spec
=============================================================================
