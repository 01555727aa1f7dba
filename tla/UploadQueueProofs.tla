-------------------------- MODULE UploadQueueProofs --------------------------
(* Theorems about UploadQueue for every value of its constants.               *)
EXTENDS UploadQueueDelivery, TLAPS

-----------------------------------------------------------------------------
(* What the statements on the image table preserve, for every table.          *)

\* e is a table with the rows of d, each under the same URL.
SameRows(d, e) ==
  /\ e \in Table
  /\ \A f \in Filenames :
       /\ d[f] = NoRow <=> e[f] = NoRow
       /\ d[f] # NoRow => e[f].url = d[f].url

\* What a statement may do to rows besides recording a worker's progress: make
\* them queued, or discovered.  The count of a row on which it leaves the status
\* alone, or that was uploading, stays.
Requeues(d, e) ==
  /\ SameRows(d, e)
  /\ \A f \in Filenames :
       d[f] # NoRow =>
         /\ e[f].status \in {d[f].status, "queued"}
         /\ e[f].status = d[f].status => e[f].retry = d[f].retry
         /\ d[f].status = "uploading" => e[f].retry = d[f].retry

Clears(d, e) ==
  /\ SameRows(d, e)
  /\ \A f \in Filenames :
       d[f] # NoRow =>
         /\ e[f].status \in {d[f].status, "discovered"}
         /\ e[f].status = d[f].status => e[f].retry = d[f].retry

\* SetStatus touches only the rows of its URL, and there only status and due.
LEMMA SetStatusRows ==
  ASSUME NEW d \in Table, NEW u \in URLs, NEW s \in Status
  PROVE  /\ SameRows(d, SetStatus(d, u, s))
         /\ \A f \in Filenames :
              d[f] # NoRow =>
                /\ SetStatus(d, u, s)[f].status = IF d[f].url = u THEN s ELSE d[f].status
                /\ SetStatus(d, u, s)[f].retry = d[f].retry
<1> DEFINE e == SetStatus(d, u, s)
<1>1. e \in [Filenames -> ImageRecord \cup {NoRow}]
  <2> SUFFICES ASSUME NEW f \in Filenames
               PROVE  (IF f \in WhereURL(d, u)
                       THEN [d[f] EXCEPT !.status = s,
                               !.due = IF s \in {"done", "failed"} THEN TRUE ELSE @]
                       ELSE d[f]) \in ImageRecord \cup {NoRow}
    BY DEF SetStatus
  <2> QED BY DEF Table, WhereURL, Recorded, ImageRecord
<1>2. ASSUME NEW f \in Filenames, d[f] # NoRow
      PROVE  /\ e[f] # NoRow
             /\ e[f].url = d[f].url
             /\ e[f].status = IF d[f].url = u THEN s ELSE d[f].status
             /\ e[f].retry = d[f].retry
  <2>1. d[f] \in ImageRecord
    BY <1>2 DEF Table
  <2>2. e[f] \in ImageRecord \/ e[f] = d[f]
    BY <2>1 DEF SetStatus, ImageRecord
  <2>3. e[f] # NoRow
    BY <1>2, <2>2, NoRowAssumption
  <2> QED
    BY <1>2, <2>1, <2>3 DEF SetStatus, WhereURL, Recorded, ImageRecord
<1>3. ASSUME NEW f \in Filenames, d[f] = NoRow
      PROVE  e[f] = NoRow
  BY <1>3 DEF SetStatus, WhereURL, Recorded
<1> QED
  BY <1>1, <1>2, <1>3 DEF SameRows, Table

LEMMA SetStatusMoves ==
  ASSUME NEW d \in Table, NEW u \in URLs
  PROVE  Requeues(d, SetStatus(d, u, "queued")) /\ Clears(d, SetStatus(d, u, "discovered"))
BY SetStatusRows DEF Status, Requeues, Clears

LEMMA SetRetryQueuedRows ==
  ASSUME NEW d \in Table, NEW u \in URLs, NEW n \in 0 .. MaxRetries
  PROVE  /\ SameRows(d, SetRetryQueued(d, u, n))
         /\ \A f \in Filenames :
              d[f] # NoRow =>
                IF d[f].url = u THEN SetRetryQueued(d, u, n)[f].status = "queued"
                ELSE SetRetryQueued(d, u, n)[f] = d[f]
<1> DEFINE e == SetRetryQueued(d, u, n)
<1>1. ASSUME NEW f \in Filenames, d[f] \in ImageRecord
      PROVE  /\ e[f] \in ImageRecord
             /\ e[f].url = d[f].url
             /\ IF d[f].url = u THEN e[f].status = "queued" ELSE e[f] = d[f]
  <2>1. d[f] # NoRow
    BY <1>1, NoRowAssumption
  <2> QED
    BY <1>1, <2>1 DEF SetRetryQueued, ImageRecord, Status, WhereURL, Recorded
<1>2. ASSUME NEW f \in Filenames, d[f] = NoRow
      PROVE  e[f] = NoRow
  BY <1>2 DEF SetRetryQueued, WhereURL, Recorded
<1> QED
  BY <1>1, <1>2, NoRowAssumption DEF SameRows, Table, SetRetryQueued

LEMMA QueueDiscoveredRows ==
  ASSUME NEW d \in Table, NEW files
  PROVE  Requeues(d, QueueDiscovered(d, files))
<1> DEFINE e == QueueDiscovered(d, files)
<1>0. 0 \in 0 .. MaxRetries /\ "queued" \in Status
  BY MaxRetriesAssumption DEF Status
<1>1. ASSUME NEW f \in Filenames, d[f] \in ImageRecord
      PROVE  /\ e[f] \in ImageRecord
             /\ e[f].url = d[f].url
             /\ e[f] = d[f] \/ (e[f].status = "queued" /\ d[f].status = "discovered")
  BY <1>0, <1>1 DEF QueueDiscovered, WhereStatus, ImageRecord
<1>2. ASSUME NEW f \in Filenames, d[f] = NoRow
      PROVE  e[f] = NoRow
  BY <1>2 DEF QueueDiscovered, WhereStatus, Recorded
<1>3. DOMAIN e = Filenames /\ e = [f \in Filenames |-> e[f]]
  BY DEF QueueDiscovered
<1> HIDE DEF e
<1>4. Requeues(d, e)
  BY <1>1, <1>2, <1>3, NoRowAssumption DEF Requeues, SameRows, Table
<1> QED
  BY <1>4 DEF e

LEMMA ResetQueuedRows ==
  ASSUME NEW d \in Table
  PROVE  Clears(d, ResetQueued(d))
<1> DEFINE e == ResetQueued(d)
<1>0. 0 \in 0 .. MaxRetries /\ "discovered" \in Status
  BY MaxRetriesAssumption DEF Status
<1>1. ASSUME NEW f \in Filenames, d[f] \in ImageRecord
      PROVE  /\ e[f] \in ImageRecord
             /\ e[f].url = d[f].url
             /\ e[f] = d[f] \/ (e[f].status = "discovered" /\ d[f].status = "queued")
  BY <1>0, <1>1 DEF ResetQueued, WhereStatus, ImageRecord
<1>2. ASSUME NEW f \in Filenames, d[f] = NoRow
      PROVE  e[f] = NoRow
  BY <1>2 DEF ResetQueued, WhereStatus, Recorded
<1>3. DOMAIN e = Filenames /\ e = [f \in Filenames |-> e[f]]
  BY DEF ResetQueued
<1> HIDE DEF e
<1>4. Clears(d, e)
  BY <1>1, <1>2, <1>3, NoRowAssumption DEF Clears, SameRows, Table
<1> QED
  BY <1>4 DEF e

\* After the start-up reset no row says uploading.
LEMMA ResetStuckUploadingRows ==
  ASSUME NEW d \in Table
  PROVE  /\ Requeues(d, ResetStuckUploading(d))
         /\ WhereStatus(ResetStuckUploading(d), "uploading") = {}
<1> DEFINE e == ResetStuckUploading(d)
<1>1. ASSUME NEW f \in Filenames, d[f] \in ImageRecord
      PROVE  /\ e[f] \in ImageRecord
             /\ e[f].url = d[f].url
             /\ e[f].retry = d[f].retry
             /\ e[f] = d[f] \/ e[f].status = "queued"
             /\ e[f].status # "uploading"
  <2>1. d[f] # NoRow
    BY <1>1, NoRowAssumption
  <2> QED
    BY <1>1, <2>1 DEF ResetStuckUploading, WhereStatus, Recorded, ImageRecord, Status
<1>2. ASSUME NEW f \in Filenames, d[f] = NoRow
      PROVE  e[f] = NoRow
  BY <1>2 DEF ResetStuckUploading, WhereStatus, Recorded
<1> QED
  BY <1>1, <1>2, NoRowAssumption
  DEF Requeues, SameRows, Table, ResetStuckUploading, WhereStatus, Recorded

LEMMA ResetFailedRows ==
  ASSUME NEW d \in Table
  PROVE  Requeues(d, ResetFailed(d))
<1> DEFINE e == ResetFailed(d)
<1>0. 0 \in 0 .. MaxRetries /\ "queued" \in Status
  BY MaxRetriesAssumption DEF Status
<1>1. ASSUME NEW f \in Filenames, d[f] \in ImageRecord
      PROVE  /\ e[f] \in ImageRecord
             /\ e[f].url = d[f].url
             /\ e[f] = d[f] \/ (e[f].status = "queued" /\ d[f].status = "failed")
  BY <1>0, <1>1 DEF ResetFailed, WhereStatus, ImageRecord
<1>2. ASSUME NEW f \in Filenames, d[f] = NoRow
      PROVE  e[f] = NoRow
  BY <1>2 DEF ResetFailed, WhereStatus, Recorded
<1>3. DOMAIN e = Filenames /\ e = [f \in Filenames |-> e[f]]
  BY DEF ResetFailed
<1> HIDE DEF e
<1>4. Requeues(d, e)
  BY <1>1, <1>2, <1>3, NoRowAssumption DEF Requeues, SameRows, Table
<1> QED
  BY <1>4 DEF e

\* The lists of images handed to the queue are images.
LEMMA ToImagesType ==
  ASSUME NEW d \in Table, NEW files \in SUBSET Recorded(d)
  PROVE  ToImages(d, files) \subseteq Image
BY DEF ToImages, Recorded, Image, Table, ImageRecord

-----------------------------------------------------------------------------
(* Type correctness.                                                          *)

\* The producer states in which hold is the image the goroutine works on, and
\* the worker states in which img is.
Carries == {"lookup", "insert", "rebind", "reuse", "pair", "send", "untrack", "restore"}
NoImg == {"gate", "recv", "returned"}

\* The locals a goroutine is about to use are set, and the row that discovery
\* is about to rebind exists: only discovery itself removes rows.
LocalsOK ==
  /\ \A p \in Producers : producer[p].pc \in Carries => producer[p].hold \in Image
  /\ \A w \in Workers : worker[w].pc \notin NoImg => worker[w].img \in Image
  /\ producer[Discovery].pc = "rebind" => db[producer[Discovery].hold.file] # NoRow

TypeInv == TypeOK /\ LocalsOK

-----------------------------------------------------------------------------
LEMMA IdleLocals ==
  /\ IdleProducer \in ProducerLocals
  /\ IdleWorker \in WorkerLocals
<1>1. 0 \in 0 .. MaxRetries
  BY MaxRetriesAssumption
<1> QED
  BY <1>1 DEF IdleProducer, IdleWorker, ProducerLocals, WorkerLocals, ProducerPC, WorkerPC

LEMMA ThreeProducers ==
  Main \in Producers /\ Discovery \in Producers /\ Scheduler \in Producers
  /\ Main # Discovery /\ Main # Scheduler /\ Discovery # Scheduler
  /\ \A h \in Handlers : h \in Producers /\ h # Main /\ h # Discovery /\ h # Scheduler
BY HandlersAssumption DEF Producers, Main, Discovery, Scheduler

LEMMA TypeInit == Init => TypeInv
<1> SUFFICES ASSUME Init PROVE TypeInv
  OBVIOUS
<1>1. camera \in [URLs -> Filenames \cup {NoFile}]
  BY DEF Init, Cards
<1>2. db \in Table
  BY DEF Init, EmptyTable, Table
<1>3. <<>> \in Seq(Image) /\ Len(<<>>) <= PushChanCapacity
  BY CapacityAssumption
<1>5. /\ worker \in [Workers -> WorkerLocals]
      /\ producer \in [Producers -> ProducerLocals]
      /\ backend \in [Filenames -> Content]
  BY IdleLocals DEF Init, Content
<1>6. TypeOK
  BY <1>1, <1>2, <1>3, <1>5, OnCardAssumption DEF Init, TypeOK
<1>4. LocalsOK
  BY ThreeProducers DEF Init, LocalsOK, IdleProducer, IdleWorker, Carries, NoImg
<1> QED
  BY <1>6, <1>4 DEF TypeInv

\* The loop of Queue and of the scheduler keeps well-typed locals.
LEMMA ContinueLocals ==
  ASSUME TypeInv, NEW p \in Producers, NEW pc \in ProducerPC \ Carries,
         NEW rest \in SUBSET Image
  PROVE  /\ Continue(p, pc, rest) \in [Producers -> ProducerLocals]
         /\ Continue(p, pc, rest)[p].pc \notin Carries
         /\ \A q \in Producers : q # p => Continue(p, pc, rest)[q] = producer[q]
BY IdleLocals
DEF TypeInv, TypeOK, Continue, ProducerLocals, IdleProducer, Carries

-----------------------------------------------------------------------------
(* Type correctness, one lemma for each group of actions.                     *)

\* A step of a producer that does not touch the table.
LEMMA EnqueueTypes ==
  ASSUME TypeInv, NEW p \in Producers, Enqueue(p)
  PROVE  TypeInv'
<1> USE DEF TypeInv
<1>1. CASE SkipTracked(p)
  <2> PICK img \in producer[p].todo : producer' = Continue(p, "push", producer[p].todo \ {img})
    BY <1>1 DEF SkipTracked
  <2>1. producer[p].todo \ {img} \in SUBSET Image
    BY DEF TypeOK, ProducerLocals
  <2>2. "push" \in ProducerPC \ Carries
    BY DEF ProducerPC, Carries
  <2> QED
    BY <1>1, <2>1, <2>2, ContinueLocals, ThreeProducers
    DEF SkipTracked, TypeOK, LocalsOK, durable, card, queue, Carries
<1>2. CASE Reserve(p)
  BY <1>2, ThreeProducers DEF Reserve, TypeOK, LocalsOK, durable, card, ProducerLocals, ProducerPC, Carries, Image
<1>3. CASE Send(p)
  <2>1. producer[p].hold \in Image
    BY <1>3 DEF Send, LocalsOK, Carries
  <2>2. producer[p].todo \in SUBSET Image /\ "push" \in ProducerPC \ Carries
    BY DEF TypeOK, ProducerLocals, ProducerPC, Carries
  <2>3. pushCh' \in Seq(Image) /\ Len(pushCh') <= PushChanCapacity
    BY <1>3, <2>1, CapacityAssumption DEF Send, TypeOK
  <2> QED
    BY <1>3, <2>2, <2>3, ContinueLocals, ThreeProducers
    DEF Send, TypeOK, LocalsOK, durable, card, Carries
<1>4. CASE DropFull(p)
  <2> DEFINE rest == producer[p].todo
  <2>1. /\ producer' = Continue(p, "push", rest) /\ inChannel' \subseteq inChannel
        /\ UNCHANGED <<durable, card, pushCh, phase, paused, seen, worker>>
    BY <1>4 DEF DropFull
  <2>2. rest \in SUBSET Image /\ "push" \in ProducerPC \ Carries
    BY DEF TypeOK, ProducerLocals, ProducerPC, Carries
  <2>3. /\ producer' \in [Producers -> ProducerLocals] /\ producer'[p].pc \notin Carries
        /\ \A q \in Producers : q # p => producer'[q] = producer[q]
    <3> HIDE DEF rest
    <3> QED
      BY <2>1, <2>2, ContinueLocals
  <2>4. TypeOK'
    BY <2>1, <2>3 DEF TypeOK, durable, card
  <2>5. LocalsOK'
    BY <2>1, <2>3, ThreeProducers DEF TypeOK, LocalsOK, durable, card, Carries
  <2> QED
    BY <2>4, <2>5
<1>5. CASE EnterQueue(p)
  <2> DEFINE q == [producer[p] EXCEPT !.pc = IF paused THEN "requeue" ELSE "push"]
  <2>1. /\ producer' = [producer EXCEPT ![p] = q]
        /\ UNCHANGED <<durable, card, queue, phase, paused, seen, worker>>
    BY <1>5 DEF EnterQueue
  <2>2. q \in ProducerLocals /\ q.pc \notin Carries
    BY DEF TypeOK, ProducerLocals, ProducerPC, Carries
  <2> HIDE DEF q
  <2>3. TypeOK'
    BY <2>1, <2>2 DEF TypeOK, durable, card, queue
  <2>4. LocalsOK'
    BY <2>1, <2>2, ThreeProducers DEF TypeOK, LocalsOK, durable, card, Carries
  <2> QED
    BY <2>3, <2>4
<1>6. CASE RequeuePaused(p)
  <2>0. PICK img \in producer[p].todo :
           /\ db' = SetStatus(db, img.url, "queued")
           /\ producer' = Continue(p, "requeue", producer[p].todo \ {img})
    BY <1>6 DEF RequeuePaused
  <2>1. producer[p].todo \ {img} \in SUBSET Image /\ img \in Image
    BY DEF TypeOK, ProducerLocals
  <2>2. "requeue" \in ProducerPC \ Carries
    BY DEF ProducerPC, Carries
  <2>3. SameRows(db, db')
    <3>1. img.url \in URLs /\ "queued" \in Status /\ db \in Table
      BY <2>1 DEF TypeOK, Image, Status
    <3> QED
      BY <2>0, <3>1, SetStatusRows
  <2>4. UNCHANGED <<backend, auto, card, queue, phase, paused, seen, worker>>
    BY <1>6 DEF RequeuePaused
  <2>5. /\ producer' \in [Producers -> ProducerLocals] /\ producer'[p].pc \notin Carries
        /\ \A q \in Producers : q # p => producer'[q] = producer[q]
    BY <2>0, <2>1, <2>2, ContinueLocals
  <2>6. TypeOK'
    BY <2>3, <2>4, <2>5 DEF TypeOK, card, queue, SameRows
  <2>7. LocalsOK'
    BY <2>3, <2>4, <2>5, ThreeProducers DEF TypeOK, LocalsOK, Carries, SameRows, Image
  <2> QED
    BY <2>6, <2>7
<1> QED
  BY <1>1, <1>2, <1>3, <1>4, <1>5, <1>6 DEF Enqueue

LEMMA SchedulerTypes ==
  ASSUME TypeInv, Tick \/ SchedulerFetch
  PROVE  TypeInv'
<1> USE DEF TypeInv
<1>1. CASE Tick
  BY <1>1, ThreeProducers
  DEF Tick, TypeOK, LocalsOK, durable, card, queue, ProducerLocals, ProducerPC, Carries
<1>2. CASE SchedulerFetch
  <2>1. ListFreshQueued(db) \cup ListReadyToRetry(db) \in SUBSET Image
    BY ToImagesType DEF ListFreshQueued, ListReadyToRetry, WhereStatus, TypeOK, Recorded
  <2>2. "push" \in ProducerPC \ Carries
    BY DEF ProducerPC, Carries
  <2> QED
    BY <1>2, <2>1, <2>2, ContinueLocals, ThreeProducers
    DEF SchedulerFetch, TypeOK, LocalsOK, durable, card, queue, Carries
<1> QED
  BY <1>1, <1>2

LEMMA BackoffTypes ==
  ASSUME TypeInv, NEW f \in Filenames, BackoffExpires(f)
  PROVE  TypeInv' /\ SameRows(db, db')
<1> USE DEF TypeInv
<1>1. db[f] \in ImageRecord
  BY DEF BackoffExpires, TypeOK, Table
<1>2. [db[f] EXCEPT !.due = TRUE] \in ImageRecord
  BY <1>1 DEF ImageRecord
<1>3. db' = [db EXCEPT ![f] = [db[f] EXCEPT !.due = TRUE]]
  BY DEF BackoffExpires
<1>4. SameRows(db, db')
  BY <1>1, <1>2, <1>3, NoRowAssumption DEF SameRows, TypeOK, Table, ImageRecord
<1> QED
  BY <1>4 DEF BackoffExpires, TypeOK, LocalsOK, card, queue, SameRows, Image

LEMMA DiscoverTypes ==
  ASSUME TypeInv, (\E u \in URLs : Emit(u)) \/ Discover
  PROVE  TypeInv'
<1> USE DEF TypeInv
<1> DEFINE img == producer[Discovery].hold
<1>0. 0 \in 0 .. MaxRetries
  BY MaxRetriesAssumption
<1>1. ASSUME NEW u \in URLs, Emit(u) PROVE TypeInv'
  <2>1. [file |-> camera[u], url |-> u] \in Image
    BY <1>1 DEF Emit, TypeOK, Image
  <2> QED
    BY <1>1, <2>1, ThreeProducers
    DEF Emit, TypeOK, LocalsOK, durable, card, queue, ProducerLocals, ProducerPC, Carries
<1>2. CASE FindOrCreateLookup
  <2>1. img \in Image
    BY <1>2, ThreeProducers DEF FindOrCreateLookup, LocalsOK, Carries
  <2>2. Lookup(db, img) \in {"rebind", "insert", "reuse", "known"}
    BY DEF Lookup
  <2>3. Lookup(db, img) = "rebind" => db[img.file] # NoRow
    BY DEF Lookup
  <2>4. CASE Lookup(db, img) = "known"
    BY <1>2, <2>4, IdleLocals, ThreeProducers
    DEF FindOrCreateLookup, TypeOK, LocalsOK, durable, card, queue, IdleProducer, Carries
  <2>5. CASE Lookup(db, img) # "known"
    <3>1. producer' = [producer EXCEPT ![Discovery].pc = Lookup(db, img)]
      BY <1>2, <2>5 DEF FindOrCreateLookup
    <3> DEFINE found == Lookup(db, img)
               q == [producer[Discovery] EXCEPT !.pc = found]
    <3>2. /\ producer' = [producer EXCEPT ![Discovery] = q]
          /\ UNCHANGED <<durable, card, queue, phase, paused, seen, worker>>
      BY <1>2, <3>1 DEF FindOrCreateLookup
    <3>3. found \in ProducerPC /\ (found = "rebind" => db[img.file] # NoRow)
      BY <2>2, <2>3, <2>5 DEF ProducerPC
    <3> HIDE DEF found
    <3>4. q \in ProducerLocals /\ q.pc = found /\ q.hold = img
      BY <3>3, ThreeProducers DEF TypeOK, ProducerLocals
    <3> HIDE DEF q
    <3>5. TypeOK'
      BY <3>2, <3>4, ThreeProducers DEF TypeOK, durable, card, queue
    <3>6. LocalsOK'
      BY <2>1, <3>2, <3>3, <3>4, ThreeProducers DEF TypeOK, LocalsOK, durable
    <3> QED
      BY <3>5, <3>6
  <2> QED
    BY <2>4, <2>5
<1>3. CASE FindOrCreateWrite
  <2>1. img \in Image
    BY <1>3, ThreeProducers DEF FindOrCreateWrite, LocalsOK, Carries
  <2>2. producer' = [producer EXCEPT ![Discovery].pc = "pair"]
        \/ producer' = [producer EXCEPT ![Discovery] = IdleProducer]
    BY <1>3 DEF FindOrCreateWrite
  <2>3. NewRecord(img.url) \in ImageRecord
    BY <2>1, <1>0 DEF NewRecord, ImageRecord, Status, Image
  <2>4. db' \in Table
    <3>1. CASE producer[Discovery].pc = "rebind" /\ db' = Rebind(db, img)
      <4>1. db[img.file] \in ImageRecord
        BY <2>1, <3>1 DEF LocalsOK, TypeOK, Table, Image
      <4>2. [db[img.file] EXCEPT !.url = img.url] \in ImageRecord
        BY <2>1, <4>1 DEF ImageRecord, Image
      <4> QED
        BY <3>1, <4>2 DEF Rebind, TypeOK, Table
    <3>2. CASE db' = Insert(db, img)
      BY <3>2, <2>3 DEF Insert, TypeOK, Table
    <3>3. CASE db' = Reuse(db, img)
      BY <3>3, <2>3 DEF Reuse, TypeOK, Table
    <3> QED
      BY <1>3, <3>1, <3>2, <3>3 DEF FindOrCreateWrite, TypeOK
  <2>5. /\ producer' \in [Producers -> ProducerLocals]
        /\ producer'[Discovery].pc # "rebind"
        /\ producer'[Discovery].pc \in Carries => producer'[Discovery].hold \in Image
        /\ \A p \in Producers : p # Discovery => producer'[p] = producer[p]
    <3>1. CASE producer' = [producer EXCEPT ![Discovery].pc = "pair"]
      BY <2>1, <3>1, ThreeProducers DEF TypeOK, ProducerLocals, ProducerPC
    <3>2. CASE producer' = [producer EXCEPT ![Discovery] = IdleProducer]
      BY <3>2, IdleLocals, ThreeProducers DEF TypeOK, IdleProducer, Carries
    <3> QED
      BY <2>2, <3>1, <3>2
  <2>6. LocalsOK'
    <3>1. worker' = worker
      BY <1>3 DEF FindOrCreateWrite
    <3>2. \A p \in Producers : producer'[p].pc \in Carries => producer'[p].hold \in Image
      BY <2>5 DEF LocalsOK
    <3>3. \A w \in Workers : worker'[w].pc \notin NoImg => worker'[w].img \in Image
      BY <3>1 DEF LocalsOK
    <3> QED
      BY <2>5, <3>2, <3>3 DEF LocalsOK
  <2> QED
    BY <1>3, <2>4, <2>5, <2>6 DEF FindOrCreateWrite, TypeOK, card, queue
<1>4. CASE AutoQueue
  <2>1. img \in Image
    BY <1>4, ThreeProducers DEF AutoQueue, LocalsOK, Carries
  <2>2. SameRows(db, db')
    BY <1>4, QueueDiscoveredRows DEF Requeues, AutoQueue, MarkQueuedWithMeta, SameRows, TypeOK
  <2>3. [pc |-> "queue", todo |-> {img}, hold |-> NoImage] \in ProducerLocals
    BY <2>1 DEF ProducerLocals, ProducerPC
  <2>4. producer' \in [Producers -> ProducerLocals]
    BY <1>4, <2>3, IdleLocals DEF AutoQueue, TypeOK
  <2>5. LocalsOK'
    BY <1>4, <2>2, ThreeProducers
    DEF LocalsOK, AutoQueue, TypeOK, IdleProducer, Carries, SameRows
  <2> QED
    BY <1>4, <2>2, <2>4, <2>5 DEF AutoQueue, TypeOK, card, queue, SameRows
<1> QED
  BY <1>1, <1>2, <1>3, <1>4 DEF Discover

\* A worker's step writes its own locals only; next is what they become.
LEMMA StepLocals ==
  ASSUME TypeInv, NEW w \in Workers, NEW next \in WorkerLocals, Step(w, next),
         next.pc \notin NoImg => next.img \in Image,
         producer' = producer, SameRows(db, db')
  PROVE  worker' \in [Workers -> WorkerLocals] /\ LocalsOK'
<1>1. worker' \in [Workers -> WorkerLocals]
  BY DEF Step, TypeInv, TypeOK
<1>2. \A v \in Workers : worker'[v].pc \notin NoImg => worker'[v].img \in Image
  BY DEF Step, TypeInv, TypeOK, LocalsOK
<1>3. producer[Discovery].pc = "rebind" => producer[Discovery].hold.file \in Filenames
  BY ThreeProducers DEF TypeInv, LocalsOK, Carries, Image
<1> QED
  BY <1>1, <1>2, <1>3 DEF TypeInv, LocalsOK, SameRows

LEMMA NoChange == TypeInv => SameRows(db, db)
BY DEF TypeInv, TypeOK, SameRows

\* The steps of a worker: table, locals and everything else.
LEMMA WorkTypes ==
  ASSUME TypeInv, NEW w \in Workers, Work(w)
  PROVE  TypeInv' /\ SameRows(db, db')
<1> DEFINE u == worker[w].img.url
<1>a. worker[w] \in WorkerLocals /\ db \in Table
  BY DEF TypeInv, TypeOK
<1>b. worker[w].pc \notin NoImg => worker[w].img \in Image /\ u \in URLs
  BY DEF TypeInv, LocalsOK, Image
<1>c. /\ IdleWorker \in WorkerLocals
      /\ [IdleWorker EXCEPT !.pc = "returned"] \in WorkerLocals
      /\ IdleWorker.pc \in NoImg
      /\ [IdleWorker EXCEPT !.pc = "returned"].pc \in NoImg
  BY IdleLocals DEF IdleWorker, WorkerLocals, WorkerPC, NoImg
<1>d. \A pc \in WorkerPC :
        /\ [worker[w] EXCEPT !.pc = pc] \in WorkerLocals
        /\ [worker[w] EXCEPT !.pc = pc].pc = pc
        /\ [worker[w] EXCEPT !.pc = pc].img = worker[w].img
  BY <1>a DEF WorkerLocals
<1>g. \A pc \in WorkerPC : worker[w].img \in Image =>
        LET next == [worker[w] EXCEPT !.pc = pc]
        IN  next \in WorkerLocals /\ (next.pc \notin NoImg => next.img \in Image)
  BY <1>d
<1>h. /\ {"requeue", "gate2", "mark", "read", "delete", "evict"} \subseteq WorkerPC
  BY DEF WorkerPC
<1>e. \A s \in Status : u \in URLs => SameRows(db, SetStatus(db, u, s))
  BY <1>a, SetStatusRows
<1>f. SameRows(db, db)
  BY NoChange
\* Steps that only move on.
<1>1. CASE PassGate(w) \/ Cancelled(w)
  <2>1. PICK pc \in {"recv", "returned"} : Goto(w, pc)
    BY <1>1 DEF PassGate, Cancelled
  <2>2. pc \in WorkerPC /\ pc \in NoImg
    BY DEF WorkerPC, NoImg
  <2>3. UNCHANGED <<durable, card, queue, phase, paused, seen, producer>>
    BY <1>1 DEF PassGate, Cancelled
  <2>4. worker' \in [Workers -> WorkerLocals] /\ LocalsOK'
    BY <1>d, <1>f, <2>1, <2>2, <2>3, StepLocals DEF Goto, durable
  <2> QED
    BY <1>f, <2>3, <2>4 DEF TypeInv, TypeOK, durable, card, queue
<1>2. CASE Receive(w)
  <2> DEFINE next == [worker[w] EXCEPT !.pc = "untrack", !.img = Head(pushCh)]
  <2>1. Head(pushCh) \in Image /\ Tail(pushCh) \in Seq(Image)
        /\ Len(Tail(pushCh)) <= PushChanCapacity
    BY <1>2, CapacityAssumption DEF Receive, TypeInv, TypeOK
  <2>2. next \in WorkerLocals /\ next.img \in Image
    BY <1>a, <2>1 DEF WorkerLocals, WorkerPC
  <2>3. worker' \in [Workers -> WorkerLocals] /\ LocalsOK'
    BY <1>2, <1>f, <2>2, StepLocals DEF Receive, durable
  <2> QED
    BY <1>2, <1>f, <2>1, <2>3 DEF Receive, TypeInv, TypeOK, durable, card
<1>3. CASE Untrack(w)
  <2>1. worker[w].img \in Image /\ "check" \in WorkerPC
    BY <1>3, <1>b DEF Untrack, NoImg, WorkerPC
  <2>2. worker' \in [Workers -> WorkerLocals] /\ LocalsOK'
    BY <1>3, <1>d, <1>f, <2>1, StepLocals DEF Untrack, Goto, durable
  <2> QED
    BY <1>3, <1>f, <2>2 DEF Untrack, TypeInv, TypeOK, durable, card
\* Steps that may write the row of the image.
<1>4. CASE RecheckPause(w) \/ Requeue(w) \/ PassSecondGate(w) \/ MarkUploading(w) \/ Finish(w)
  <2>1. worker[w].img \in Image /\ u \in URLs
    BY <1>4, <1>b DEF RecheckPause, Requeue, PassSecondGate, MarkUploading, Finish, NoImg
  <2>2. SameRows(db, db')
    BY <1>4, <1>e, <1>f, <2>1
    DEF RecheckPause, Requeue, PassSecondGate, MarkUploading, Finish, Status, durable
  <2>3. PICK next \in {IdleWorker, [IdleWorker EXCEPT !.pc = "returned"],
                       [worker[w] EXCEPT !.pc = "requeue"],
                       [worker[w] EXCEPT !.pc = "gate2"], [worker[w] EXCEPT !.pc = "mark"],
                       [worker[w] EXCEPT !.pc = "read"], [worker[w] EXCEPT !.pc = "delete"]} :
             Step(w, next)
    BY <1>4 DEF RecheckPause, Requeue, PassSecondGate, MarkUploading, Finish, Goto
  <2>4. next \in WorkerLocals /\ (next.pc \notin NoImg => next.img \in Image)
    BY <1>c, <1>g, <1>h, <2>1, <2>3
  <2>5. UNCHANGED <<backend, auto, card, queue, phase, paused, seen, producer>>
    BY <1>4 DEF RecheckPause, Requeue, PassSecondGate, MarkUploading, Finish, durable
  <2>6. worker' \in [Workers -> WorkerLocals] /\ LocalsOK'
    BY <2>2, <2>3, <2>4, <2>5, StepLocals
  <2> QED
    BY <2>2, <2>5, <2>6 DEF TypeInv, TypeOK, card, queue, SameRows
<1>5. CASE ReadEntry(w)
  <2>1. worker[w].img \in Image /\ u \in URLs
    BY <1>5, <1>b DEF ReadEntry, NoImg
  <2>2. SameRows(db, db')
    BY <1>5, <1>e, <1>f, <2>1 DEF ReadEntry, Status
  <2>3. PICK next \in WorkerLocals :
             Step(w, next) /\ (next.pc \notin NoImg => next.img \in Image)
    <3>1. CASE phase = "stopping"
      BY <1>5, <1>c, <3>1 DEF ReadEntry
    <3>2. CASE phase # "stopping"
      <4> DEFINE row == db[worker[w].img.file]
                 n == IF row = NoRow THEN 0 ELSE row.retry
                 next == [worker[w] EXCEPT !.pc = "download", !.retry = n]
      <4>1. n \in 0 .. MaxRetries
        BY <1>a, <2>1, MaxRetriesAssumption DEF Table, ImageRecord, Image
      <4>2. next \in WorkerLocals /\ next.img \in Image
        BY <1>a, <2>1, <4>1 DEF WorkerLocals, WorkerPC
      <4>3. Step(w, next)
        BY <1>5, <3>2 DEF ReadEntry
      <4> QED
        BY <4>2, <4>3
    <3> QED
      BY <3>1, <3>2
  <2>4. UNCHANGED <<backend, auto, card, queue, phase, paused, seen, producer>>
    BY <1>5 DEF ReadEntry
  <2>5. worker' \in [Workers -> WorkerLocals] /\ LocalsOK'
    BY <2>2, <2>3, <2>4, StepLocals
  <2> QED
    BY <2>2, <2>4, <2>5 DEF TypeInv, TypeOK, card, queue, SameRows
<1>6. CASE DownloadImage(w)
  <2>1. worker[w].img \in Image /\ u \in URLs
    BY <1>6, <1>b DEF DownloadImage, NoImg
  <2>2. PICK next \in WorkerLocals : Step(w, next) /\ next.img \in Image
    <3>1. CASE camera[u] # NoFile /\ Step(w, [worker[w] EXCEPT !.pc = "upload", !.data = camera[u]])
      <4>1. [worker[w] EXCEPT !.pc = "upload", !.data = camera[u]] \in WorkerLocals
        BY <1>a, <2>1, <3>1 DEF WorkerLocals, WorkerPC, TypeInv, TypeOK
      <4>2. [worker[w] EXCEPT !.pc = "upload", !.data = camera[u]].img \in Image
        BY <1>a, <2>1 DEF WorkerLocals
      <4> QED
        BY <3>1, <4>1, <4>2
    <3>2. CASE Goto(w, "fail")
      BY <1>d, <2>1, <3>2 DEF Goto, WorkerPC
    <3> QED
      BY <1>6, <3>1, <3>2 DEF DownloadImage
  <2>3. UNCHANGED <<durable, card, queue, phase, paused, seen, producer>>
    BY <1>6 DEF DownloadImage
  <2>4. worker' \in [Workers -> WorkerLocals] /\ LocalsOK'
    BY <1>f, <2>2, <2>3, StepLocals DEF durable
  <2> QED
    BY <1>f, <2>3, <2>4 DEF TypeInv, TypeOK, durable, card, queue
<1>7. CASE Upload(w)
  <2>1. worker[w].img \in Image
    BY <1>7, <1>b DEF Upload, NoImg
  <2>2. backend' \in [Filenames -> Content]
    BY <1>7, <1>a, <2>1 DEF Upload, TypeInv, TypeOK, Content, WorkerLocals, Image
  <2>3. PICK pc \in {"finish", "fail"} : Goto(w, pc)
    BY <1>7 DEF Upload
  <2>4. pc \in WorkerPC
    BY DEF WorkerPC
  <2>5. UNCHANGED <<db, auto, card, queue, phase, paused, seen, producer>>
    BY <1>7 DEF Upload
  <2>6. worker' \in [Workers -> WorkerLocals] /\ LocalsOK'
    BY <1>d, <1>f, <2>1, <2>3, <2>4, <2>5, StepLocals DEF Goto
  <2> QED
    BY <1>f, <2>2, <2>5, <2>6 DEF TypeInv, TypeOK, card, queue
<1>8. CASE DeleteObject(w)
  <2>1. worker[w].img \in Image /\ u \in URLs
    BY <1>8, <1>b DEF DeleteObject, NoImg
  <2>2. camera' \in [URLs -> Filenames \cup {NoFile}]
    BY <1>8, <2>1 DEF DeleteObject, TypeInv, TypeOK
  <2>3. PICK next \in {IdleWorker, [worker[w] EXCEPT !.pc = "evict"]} : Step(w, next)
    BY <1>8 DEF DeleteObject, Goto
  <2>4. next \in WorkerLocals /\ (next.pc \notin NoImg => next.img \in Image)
    BY <1>c, <1>g, <1>h, <2>1, <2>3
  <2>5. UNCHANGED <<durable, taken, queue, phase, paused, seen, producer>>
    BY <1>8 DEF DeleteObject
  <2>6. worker' \in [Workers -> WorkerLocals] /\ LocalsOK'
    BY <1>f, <2>3, <2>4, <2>5, StepLocals DEF durable
  <2> QED
    BY <1>f, <2>2, <2>5, <2>6 DEF TypeInv, TypeOK, durable, queue
<1>9. CASE EvictHandle(w)
  <2>1. worker' \in [Workers -> WorkerLocals] /\ LocalsOK'
    BY <1>9, <1>c, <1>f, StepLocals DEF EvictHandle, durable
  <2> QED
    BY <1>9, <1>f, <2>1 DEF EvictHandle, TypeInv, TypeOK, durable, card, queue
<1>10. CASE HandleFailure(w)
  <2>1. u \in URLs
    BY <1>10, <1>b DEF HandleFailure, NoImg
  <2>2. worker[w].retry \in 0 .. MaxRetries
    BY <1>a DEF WorkerLocals
  <2>3. worker[w].retry < MaxRetries => worker[w].retry + 1 \in 0 .. MaxRetries
    BY <2>2, MaxRetriesAssumption
  <2>4. SameRows(db, db')
    BY <1>10, <1>a, <1>e, <2>1, <2>3, SetRetryQueuedRows DEF HandleFailure, Status
  <2>5. worker' \in [Workers -> WorkerLocals] /\ LocalsOK'
    BY <1>10, <1>c, <2>4, StepLocals DEF HandleFailure
  <2> QED
    BY <1>10, <2>4, <2>5 DEF HandleFailure, TypeInv, TypeOK, card, queue, SameRows
<1> QED
  BY <1>1, <1>2, <1>3, <1>4, <1>5, <1>6, <1>7, <1>8, <1>9, <1>10 DEF Work

\* A step of a goroutine that keeps the rows and replaces its own locals.
LEMMA ProducerStep ==
  ASSUME TypeInv, NEW p \in Producers \ {Discovery}, NEW next \in ProducerLocals,
         producer' = [producer EXCEPT ![p] = next],
         next.pc \in Carries => next.hold \in Image,
         worker' = worker, SameRows(db, db')
  PROVE  producer' \in [Producers -> ProducerLocals] /\ LocalsOK'
<1>1. producer' \in [Producers -> ProducerLocals] /\ producer'[Discovery] = producer[Discovery]
  BY ThreeProducers DEF TypeInv, TypeOK
<1>2. \A q \in Producers : producer'[q].pc \in Carries => producer'[q].hold \in Image
  BY DEF TypeInv, TypeOK, LocalsOK
<1>3. producer[Discovery].pc = "rebind" => producer[Discovery].hold.file \in Filenames
  BY ThreeProducers DEF TypeInv, LocalsOK, Carries, Image
<1> QED
  BY <1>1, <1>2, <1>3 DEF TypeInv, LocalsOK, SameRows

\* What Continue leaves in the locals of the goroutine.
LEMMA ContinueNext ==
  ASSUME NEW p \in Producers, NEW pc \in ProducerPC \ Carries, NEW rest \in SUBSET Image
  PROVE  \E next \in ProducerLocals :
           /\ Continue(p, pc, rest) = [producer EXCEPT ![p] = next]
           /\ next.pc \notin Carries
<1> DEFINE next == IF rest = {} THEN IdleProducer
                   ELSE [pc |-> pc, todo |-> rest, hold |-> NoImage]
<1>1. next \in ProducerLocals
  BY IdleLocals DEF ProducerLocals
<1>2. next.pc \notin Carries
  BY DEF IdleProducer, Carries
<1> QED
  BY <1>1, <1>2 DEF Continue

LEMMA RequestTypes ==
  ASSUME TypeInv, NEW h \in Handlers, Request(h)
  PROVE  TypeInv' /\ SameRows(db, db')
<1> DEFINE busy(pc) == [producer[h] EXCEPT !.pc = pc]
<1>a. h \in Producers \ {Discovery} /\ db \in Table /\ producer[h] \in ProducerLocals
  BY ThreeProducers DEF TypeInv, TypeOK
<1>b. SameRows(db, db)
  BY NoChange
<1>c. /\ busy("fetch") \in ProducerLocals /\ busy("fetch").pc \notin Carries
      /\ busy("drain") \in ProducerLocals /\ busy("drain").pc \notin Carries
  BY <1>a DEF ProducerLocals, ProducerPC, Carries
<1>1. CASE HandlePause(h) \/ HandleResume(h) \/ HandleAutoUpload(h)
  <2>1. UNCHANGED <<db, backend, card, queue, phase, seen, worker, producer>>
    BY <1>1 DEF HandlePause, HandleResume, HandleAutoUpload, durable
  <2>2. paused' \in BOOLEAN /\ auto' \in BOOLEAN
    BY <1>1 DEF HandlePause, HandleResume, HandleAutoUpload, durable, TypeInv, TypeOK
  <2> QED
    BY <1>b, <2>1, <2>2 DEF TypeInv, TypeOK, LocalsOK, card, queue
<1>2. CASE HandleQueue(h)
  <2>1. PICK files \in SUBSET Filenames :
             producer' = Continue(h, "mark", DiscoveredByFilenames(db, files))
    BY <1>2 DEF HandleQueue
  <2>2. DiscoveredByFilenames(db, files) \in SUBSET Image
    BY <1>a, ToImagesType DEF DiscoveredByFilenames, WhereStatus
  <2>3. "mark" \in ProducerPC \ Carries
    BY DEF ProducerPC, Carries
  <2>4. PICK next \in ProducerLocals :
             producer' = [producer EXCEPT ![h] = next] /\ next.pc \notin Carries
    BY <1>a, <2>1, <2>2, <2>3, ContinueNext
  <2>5. producer' \in [Producers -> ProducerLocals] /\ LocalsOK'
    BY <1>2, <1>a, <1>b, <2>4, ProducerStep DEF HandleQueue, durable
  <2> QED
    BY <1>2, <1>b, <2>5 DEF HandleQueue, TypeInv, TypeOK, durable, card, queue
<1>3. CASE HandleQueueAll(h) \/ HandleRetryFailed(h) \/ HandleClear(h)
  <2>1. SameRows(db, db')
    BY <1>3, <1>a, QueueDiscoveredRows, ResetFailedRows, ResetQueuedRows
    DEF Requeues, Clears, HandleQueueAll, HandleRetryFailed, HandleClear, MarkAllDiscoveredQueued
  <2>2. PICK next \in {busy("fetch"), busy("drain")} : producer' = [producer EXCEPT ![h] = next]
    BY <1>3 DEF HandleQueueAll, HandleRetryFailed, HandleClear
  <2>3. UNCHANGED <<backend, auto, card, queue, phase, paused, seen, worker>>
    BY <1>3 DEF HandleQueueAll, HandleRetryFailed, HandleClear
  <2>4. producer' \in [Producers -> ProducerLocals] /\ LocalsOK'
    BY <1>a, <1>c, <2>1, <2>2, <2>3, ProducerStep
  <2> QED
    BY <2>1, <2>3, <2>4 DEF TypeInv, TypeOK, card, queue, SameRows
<1> QED
  BY <1>1, <1>2, <1>3 DEF Request

LEMMA HandleTypes ==
  ASSUME TypeInv, NEW h \in Handlers, Handle(h)
  PROVE  TypeInv' /\ SameRows(db, db')
<1>a. h \in Producers \ {Discovery} /\ db \in Table /\ producer[h] \in ProducerLocals
  BY ThreeProducers DEF TypeInv, TypeOK
<1>b. SameRows(db, db)
  BY NoChange
<1>c. /\ IdleProducer \in ProducerLocals /\ IdleProducer.pc \notin Carries
      /\ [IdleProducer EXCEPT !.pc = "drain"] \in ProducerLocals
      /\ [IdleProducer EXCEPT !.pc = "drain"].pc \notin Carries
  BY IdleLocals DEF IdleProducer, ProducerLocals, ProducerPC, Carries
<1>1. CASE MarkSelected(h) \/ DrainEnd(h)
  <2>1. SameRows(db, db')
    BY <1>1, <1>a, <1>b, QueueDiscoveredRows
    DEF Requeues, MarkSelected, DrainEnd, MarkQueuedWithMeta, durable
  <2>2. UNCHANGED <<backend, auto, card, queue, phase, paused, seen, worker>>
    BY <1>1 DEF MarkSelected, DrainEnd, durable
  <2>3. producer' \in [Producers -> ProducerLocals] /\ LocalsOK'
    BY <1>1, <1>a, <1>c, <2>1, <2>2, ProducerStep DEF MarkSelected, DrainEnd
  <2> QED
    BY <2>1, <2>2, <2>3 DEF TypeInv, TypeOK, card, queue, SameRows
<1>2. CASE HandlerFetch(h)
  <2>1. ListFreshQueued(db) \in SUBSET Image
    BY <1>a, ToImagesType DEF ListFreshQueued, WhereStatus
  <2>2. "queue" \in ProducerPC \ Carries
    BY DEF ProducerPC, Carries
  <2>3. PICK next \in ProducerLocals :
             producer' = [producer EXCEPT ![h] = next] /\ next.pc \notin Carries
    BY <1>2, <1>a, <2>1, <2>2, ContinueNext DEF HandlerFetch
  <2>4. producer' \in [Producers -> ProducerLocals] /\ LocalsOK'
    BY <1>2, <1>a, <1>b, <2>3, ProducerStep DEF HandlerFetch, durable
  <2> QED
    BY <1>2, <1>b, <2>4 DEF HandlerFetch, TypeInv, TypeOK, durable, card, queue
<1>3. CASE DrainOne(h)
  <2> DEFINE next == [pc |-> "untrack", todo |-> {}, hold |-> Head(pushCh)]
  <2>1. Head(pushCh) \in Image /\ Tail(pushCh) \in Seq(Image)
        /\ Len(Tail(pushCh)) <= PushChanCapacity
    BY <1>3, CapacityAssumption DEF DrainOne, TypeInv, TypeOK
  <2>2. next \in ProducerLocals /\ next.hold \in Image
    BY <2>1 DEF ProducerLocals, ProducerPC
  <2>3. producer' \in [Producers -> ProducerLocals] /\ LocalsOK'
    BY <1>3, <1>a, <1>b, <2>2, ProducerStep DEF DrainOne, durable
  <2> QED
    BY <1>3, <1>b, <2>1, <2>3 DEF DrainOne, TypeInv, TypeOK, durable, card
<1>4. CASE DrainUntrack(h)
  <2> DEFINE next == [producer[h] EXCEPT !.pc = "restore"]
  <2>1. producer[h].hold \in Image
    BY <1>4, <1>a DEF DrainUntrack, TypeInv, LocalsOK, Carries
  <2>2. next \in ProducerLocals /\ next.hold \in Image
    BY <1>a, <2>1 DEF ProducerLocals, ProducerPC
  <2>3. producer' \in [Producers -> ProducerLocals] /\ LocalsOK'
    BY <1>4, <1>a, <1>b, <2>2, ProducerStep DEF DrainUntrack, durable
  <2> QED
    BY <1>4, <1>b, <2>3 DEF DrainUntrack, TypeInv, TypeOK, durable, card
<1>5. CASE DrainRestore(h)
  <2>1. producer[h].hold.url \in URLs
    BY <1>5, <1>a DEF DrainRestore, TypeInv, LocalsOK, Carries, Image
  <2>2. SameRows(db, db')
    BY <1>5, <1>a, <2>1, SetStatusRows DEF DrainRestore, Status
  <2>3. producer' \in [Producers -> ProducerLocals] /\ LocalsOK'
    BY <1>5, <1>a, <1>c, <2>2, ProducerStep DEF DrainRestore
  <2> QED
    BY <1>5, <2>2, <2>3 DEF DrainRestore, TypeInv, TypeOK, card, queue, SameRows
<1> QED
  BY <1>1, <1>2, <1>3, <1>4, <1>5 DEF Handle

LEMMA StartupTypes ==
  ASSUME TypeInv, Startup
  PROVE  TypeInv' /\ SameRows(db, db')
<1>a. Main \in Producers \ {Discovery} /\ db \in Table
  BY ThreeProducers DEF TypeInv, TypeOK
<1>b. SameRows(db, db)
  BY NoChange
<1>c. "queue" \in ProducerPC \ Carries
  BY DEF ProducerPC, Carries
<1>d. producer[Discovery].pc = "rebind" => producer[Discovery].hold.file \in Filenames
  BY ThreeProducers DEF TypeInv, LocalsOK, Carries, Image
<1>1. CASE Boot \/ BootReset \/ BootRun
  <2>1. SameRows(db, db')
    BY <1>1, <1>a, <1>b, ResetStuckUploadingRows
    DEF Requeues, Boot, BootReset, BootRun, durable
  <2>2. UNCHANGED <<backend, auto, card, queue, paused, seen, worker, producer>>
    BY <1>1 DEF Boot, BootReset, BootRun, durable
  <2>3. phase' \in {"reset", "fresh", "running"}
    BY <1>1 DEF Boot, BootReset, BootRun
  <2> QED
    BY <1>d, <2>1, <2>2, <2>3 DEF TypeInv, TypeOK, LocalsOK, card, queue, SameRows
<1>2. CASE BootEnqueue
  <2>1. ListFreshQueued(db) \in SUBSET Image
    BY <1>a, ToImagesType DEF ListFreshQueued, WhereStatus
  <2>2. PICK next \in ProducerLocals :
             producer' = [producer EXCEPT ![Main] = next] /\ next.pc \notin Carries
    BY <1>2, <1>a, <1>c, <2>1, ContinueNext DEF BootEnqueue
  <2>3. producer' \in [Producers -> ProducerLocals] /\ LocalsOK'
    BY <1>2, <1>a, <1>b, <2>2, ProducerStep DEF BootEnqueue, durable
  <2> QED
    BY <1>2, <1>b, <2>3 DEF BootEnqueue, TypeInv, TypeOK, durable, card, queue
<1>3. CASE BootSync
  <2> DEFINE images == ToImages(db, WhereStatus(db, "discovered"))
  <2>1. images \in SUBSET Image
    BY <1>a, ToImagesType DEF WhereStatus
  <2>2. SameRows(db, db')
    BY <1>3, <1>a, <1>b, QueueDiscoveredRows DEF Requeues, BootSync, MarkQueuedWithMeta
  <2>3. producer' \in [Producers -> ProducerLocals] /\ LocalsOK'
    <3>1. CASE auto
      <4>1. PICK next \in ProducerLocals :
                 producer' = [producer EXCEPT ![Main] = next] /\ next.pc \notin Carries
        BY <1>3, <1>a, <1>c, <2>1, <3>1, ContinueNext DEF BootSync
      <4> QED
        BY <1>3, <1>a, <2>2, <4>1, ProducerStep DEF BootSync
    <3>2. CASE ~auto
      BY <1>3, <1>d, <2>2, <3>2 DEF BootSync, TypeInv, TypeOK, LocalsOK, SameRows
    <3> QED
      BY <3>1, <3>2
  <2> QED
    BY <1>3, <2>2, <2>3 DEF BootSync, TypeInv, TypeOK, card, queue, SameRows
<1> QED
  BY <1>1, <1>2, <1>3 DEF Startup

LEMMA StopTypes ==
  ASSUME TypeInv, Signal \/ Exit \/ Crash
  PROVE  TypeInv' /\ SameRows(db, db')
<1>b. SameRows(db, db)
  BY NoChange
<1>1. CASE Signal
  BY <1>1, <1>b DEF Signal, TypeInv, TypeOK, LocalsOK, durable, card, queue
<1>2. CASE ForgetMemory
  <2>1. <<>> \in Seq(Image) /\ Len(<<>>) <= PushChanCapacity
    BY CapacityAssumption
  <2>2. /\ worker' \in [Workers -> WorkerLocals]
        /\ producer' \in [Producers -> ProducerLocals]
    BY <1>2, IdleLocals DEF ForgetMemory
  <2>3. TypeOK'
    BY <1>2, <2>1, <2>2 DEF ForgetMemory, TypeInv, TypeOK, durable, card
  <2>4. LocalsOK'
    BY <1>2, ThreeProducers DEF ForgetMemory, LocalsOK, IdleProducer, IdleWorker, Carries, NoImg
  <2> QED
    BY <1>2, <1>b, <2>3, <2>4 DEF TypeInv, ForgetMemory, durable
<1> QED
  BY <1>1, <1>2 DEF Exit, Crash

LEMMA CameraTypes ==
  ASSUME TypeInv, Camera
  PROVE  TypeInv' /\ SameRows(db, db')
<1>1. camera' \in [URLs -> Filenames \cup {NoFile}] /\ taken' \subseteq Filenames
  BY HandlesAssumption DEF Camera, TakePicture, RenumberHandles, Cards, TypeInv, TypeOK
<1>2. UNCHANGED <<durable, queue, phase, paused, seen, worker, producer>>
  BY DEF Camera, TakePicture, RenumberHandles
<1> QED
  BY <1>1, <1>2, NoChange DEF TypeInv, TypeOK, LocalsOK, durable, queue

LEMMA TypeStep == TypeInv /\ [Next]_vars => TypeInv'
<1> SUFFICES ASSUME TypeInv, [Next]_vars PROVE TypeInv'
  OBVIOUS
<1>1. CASE UNCHANGED vars
  BY <1>1 DEF TypeInv, TypeOK, LocalsOK, vars, durable, card, queue
<1>2. ASSUME NEW w \in Workers, Work(w) PROVE TypeInv'
  BY <1>2, WorkTypes
<1>3. ASSUME NEW p \in Producers, Enqueue(p) PROVE TypeInv'
  BY <1>3, EnqueueTypes
<1>4. ASSUME NEW h \in Handlers, Request(h) \/ Handle(h) PROVE TypeInv'
  BY <1>4, RequestTypes, HandleTypes
<1>5. ASSUME NEW f \in Filenames, BackoffExpires(f) PROVE TypeInv'
  BY <1>5, BackoffTypes
<1>6. CASE Tick \/ SchedulerFetch
  BY <1>6, SchedulerTypes
<1>7. CASE (\E u \in URLs : Emit(u)) \/ Discover
  BY <1>7, DiscoverTypes
<1>8. CASE Startup
  BY <1>8, StartupTypes
<1>9. CASE Signal \/ Exit \/ Crash
  BY <1>9, StopTypes
<1>10. CASE Camera
  BY <1>10, CameraTypes
<1> QED
  BY <1>1, <1>2, <1>3, <1>4, <1>5, <1>6, <1>7, <1>8, <1>9, <1>10 DEF Next

\* In every state no goroutine uses an image it was not given: neither a worker
\* a nil image nor discovery a row that vanished between FindOrCreate's lookup
\* and its write.
LEMMA LocalsCorrect == Spec => []TypeInv
<1>1. Init => TypeInv
  BY TypeInit
<1>2. TypeInv /\ [Next]_vars => TypeInv'
  BY TypeStep
<1> QED
  BY <1>1, <1>2, PTL DEF Spec

\* Every state has its type: in particular the channel stays within its capacity,
\* retry_count within maxRetries, and the table within one row per filename.
THEOREM TypeCorrect == Spec => []TypeOK
<1>1. TypeInv => TypeOK
  BY DEF TypeInv
<1> QED
  BY <1>1, LocalsCorrect, PTL

-----------------------------------------------------------------------------
(* TokensConserved is inductive once the locals are typed: every step either  *)
(* moves one token between inChannel's four holders or touches none.          *)

LEMMA TokensInit == Init => TokensConserved
BY DEF Init, TokensConserved, HoldsToken, TakesToken, IdleProducer, IdleWorker

\* Steps that touch no token: channel and set stay, holders keep what they hold.
LEMMA TokensKept ==
  ASSUME TokensConserved, UNCHANGED queue,
         \A p \in Producers :
           /\ HoldsToken(p)' <=> HoldsToken(p)
           /\ HoldsToken(p) => producer'[p].hold = producer[p].hold,
         \A w \in Workers :
           /\ TakesToken(w)' <=> TakesToken(w)
           /\ TakesToken(w) => worker'[w].img = worker[w].img
  PROVE  TokensConserved'
<1>1. /\ {producer'[p].hold.url : p \in {q \in Producers : HoldsToken(q)'}}
           = {producer[p].hold.url : p \in {q \in Producers : HoldsToken(q)}}
      /\ {worker'[w].img.url : w \in {v \in Workers : TakesToken(v)'}}
           = {worker[w].img.url : w \in {v \in Workers : TakesToken(v)}}
  OBVIOUS
<1>2. pushCh' = pushCh /\ inChannel' = inChannel
  BY DEF queue
<1> QED
  BY <1>1, <1>2 DEF TokensConserved

\* The channel without its first image.
LEMMA TailOfChannel ==
  ASSUME TypeInv, pushCh # <<>>
  PROVE  /\ DOMAIN Tail(pushCh) = 1 .. Len(pushCh) - 1
         /\ \A i \in DOMAIN Tail(pushCh) :
              i + 1 \in DOMAIN pushCh /\ i + 1 # 1 /\ Tail(pushCh)[i] = pushCh[i + 1]
         /\ \A i \in DOMAIN pushCh : i # 1 => i - 1 \in DOMAIN Tail(pushCh)
         /\ 1 \in DOMAIN pushCh /\ Head(pushCh) = pushCh[1]
         /\ {pushCh[i].url : i \in DOMAIN pushCh}
              = {Tail(pushCh)[i].url : i \in DOMAIN Tail(pushCh)} \cup {Head(pushCh).url}
<1>1. pushCh \in Seq(Image) /\ Len(pushCh) \in Nat /\ Len(pushCh) > 0
      /\ DOMAIN pushCh = 1 .. Len(pushCh)
  BY DEF TypeInv, TypeOK
<1>2. /\ DOMAIN Tail(pushCh) = 1 .. Len(pushCh) - 1
      /\ \A i \in DOMAIN Tail(pushCh) : Tail(pushCh)[i] = pushCh[i + 1]
      /\ Head(pushCh) = pushCh[1]
  BY <1>1
<1>3. /\ \A i \in DOMAIN Tail(pushCh) :
           i + 1 \in DOMAIN pushCh /\ i + 1 # 1 /\ Tail(pushCh)[i] = pushCh[i + 1]
      /\ \A i \in DOMAIN pushCh : i # 1 => i - 1 \in DOMAIN Tail(pushCh) /\ (i - 1) + 1 = i
      /\ 1 \in DOMAIN pushCh
  BY <1>1, <1>2
<1>4. {pushCh[i].url : i \in DOMAIN pushCh}
        = {Tail(pushCh)[i].url : i \in DOMAIN Tail(pushCh)} \cup {Head(pushCh).url}
  BY <1>2, <1>3
<1> QED
  BY <1>2, <1>3, <1>4

\* The URLs held by producers and by workers.
Reserved == {producer[p].hold.url : p \in {q \in Producers : HoldsToken(q)}}
Received == {worker[w].img.url : w \in {v \in Workers : TakesToken(v)}}
InPushCh == {pushCh[i].url : i \in DOMAIN pushCh}

\* One producer's step, the others' locals unchanged.
OnlyProducer(p) ==
  /\ worker' = worker
  /\ \A q \in Producers : q # p => producer'[q] = producer[q]

LEMMA EnqueueTokens ==
  ASSUME TypeInv, TokensConserved, NEW p \in Producers, Enqueue(p)
  PROVE  TokensConserved'
<1>a. \A pc \in {"push", "requeue"}, rest \in SUBSET Image :
        /\ Continue(p, pc, rest)[p].pc \notin {"send", "untrack"}
        /\ \A q \in Producers : q # p => Continue(p, pc, rest)[q] = producer[q]
  BY DEF Continue, IdleProducer, TypeInv, TypeOK
<1>b. producer[p].todo \in SUBSET Image /\ producer \in [Producers -> ProducerLocals]
  BY DEF TypeInv, TypeOK, ProducerLocals
<1>1. CASE SkipTracked(p) \/ EnterQueue(p) \/ RequeuePaused(p)
  <2>1. producer'[p].pc \notin {"send", "untrack"} /\ OnlyProducer(p)
    <3>1. CASE SkipTracked(p) \/ RequeuePaused(p)
      <4>1. PICK pc \in {"push", "requeue"}, rest \in SUBSET Image :
                 producer' = Continue(p, pc, rest)
        BY <3>1, <1>b DEF SkipTracked, RequeuePaused
      <4> QED
        BY <3>1, <4>1, <1>a DEF SkipTracked, RequeuePaused, OnlyProducer
    <3>2. CASE EnterQueue(p)
      BY <3>2, <1>b DEF EnterQueue, OnlyProducer, ProducerLocals
    <3> QED
      BY <1>1, <3>1, <3>2
  <2>2. UNCHANGED queue /\ producer[p].pc \notin {"send", "untrack"}
    BY <1>1 DEF SkipTracked, EnterQueue, RequeuePaused
  <2> QED
    BY <2>1, <2>2, TokensKept DEF OnlyProducer, HoldsToken, TakesToken
<1>2. CASE Reserve(p)
  <2>1. PICK img \in producer[p].todo :
             /\ img.url \notin inChannel
             /\ inChannel' = inChannel \cup {img.url}
             /\ producer' = [producer EXCEPT ![p] =
                  [pc |-> "send", todo |-> producer[p].todo \ {img}, hold |-> img]]
    BY <1>2 DEF Reserve
  <2>2. /\ OnlyProducer(p) /\ pushCh' = pushCh
        /\ producer'[p].hold = img /\ HoldsToken(p)' /\ ~HoldsToken(p)
    BY <1>2, <1>b, <2>1 DEF Reserve, OnlyProducer, HoldsToken
  <2>3. inChannel' = InPushCh' \cup Reserved' \cup Received'
    <3>1. Reserved' = Reserved \cup {img.url}
      BY <2>2 DEF Reserved, OnlyProducer, HoldsToken
    <3>2. InPushCh' = InPushCh /\ Received' = Received
      BY <2>2 DEF InPushCh, Received, OnlyProducer, TakesToken
    <3> QED
      BY <2>1, <3>1, <3>2 DEF TokensConserved, InPushCh, Reserved, Received
  <2>4. /\ \A i \in DOMAIN pushCh : pushCh[i].url # img.url
        /\ \A q \in Producers : HoldsToken(q) => producer[q].hold.url # img.url
        /\ \A w \in Workers : TakesToken(w) => worker[w].img.url # img.url
    BY <2>1 DEF TokensConserved
  <2> QED
    BY <2>2, <2>3, <2>4
    DEF TokensConserved, OnlyProducer, HoldsToken, TakesToken, InPushCh, Reserved, Received
<1>3. CASE Send(p)
  <2> DEFINE img == producer[p].hold
  <2>1. /\ OnlyProducer(p) /\ ~HoldsToken(p)' /\ HoldsToken(p)
        /\ pushCh' = Append(pushCh, img) /\ inChannel' = inChannel
    BY <1>3, <1>a, <1>b DEF Send, OnlyProducer, HoldsToken
  <2>2. /\ DOMAIN pushCh' = DOMAIN pushCh \cup {Len(pushCh) + 1}
        /\ Len(pushCh) + 1 \notin DOMAIN pushCh
        /\ \A i \in DOMAIN pushCh : pushCh'[i] = pushCh[i]
        /\ pushCh'[Len(pushCh) + 1] = img
    <3>1. pushCh \in Seq(Image) /\ img \in Image
      BY <1>3 DEF Send, TypeInv, TypeOK, LocalsOK, Carries
    <3> QED
      BY <2>1, <3>1
  <2>3. inChannel' = InPushCh' \cup Reserved' \cup Received'
    <3>1. InPushCh' = InPushCh \cup {img.url}
      BY <2>2 DEF InPushCh
    <3>2. Reserved = Reserved' \cup {img.url} /\ Received' = Received
      BY <2>1 DEF Reserved, Received, OnlyProducer, HoldsToken, TakesToken
    <3> QED
      BY <2>1, <3>1, <3>2 DEF TokensConserved, InPushCh, Reserved, Received
  <2>4. /\ \A i \in DOMAIN pushCh : pushCh[i].url # img.url
        /\ \A q \in Producers : q # p /\ HoldsToken(q) => producer[q].hold.url # img.url
        /\ \A w \in Workers : TakesToken(w) => worker[w].img.url # img.url
    BY <2>1 DEF TokensConserved
  <2>5. \A i, j \in DOMAIN pushCh' : pushCh'[i].url = pushCh'[j].url => i = j
    BY <2>2, <2>4 DEF TokensConserved
  <2>6. /\ \A i \in DOMAIN pushCh', q \in Producers :
             HoldsToken(q)' => pushCh'[i].url # producer'[q].hold.url
        /\ \A i \in DOMAIN pushCh', w \in Workers :
             TakesToken(w)' => pushCh'[i].url # worker'[w].img.url
    BY <2>1, <2>2, <2>4 DEF TokensConserved, OnlyProducer, HoldsToken, TakesToken
  <2> QED
    BY <2>1, <2>3, <2>5, <2>6
    DEF TokensConserved, OnlyProducer, HoldsToken, TakesToken, InPushCh, Reserved, Received
<1>4. CASE DropFull(p)
  <2> DEFINE img == producer[p].hold
  <2>1. /\ OnlyProducer(p) /\ ~HoldsToken(p)' /\ HoldsToken(p)
        /\ pushCh' = pushCh /\ inChannel' = inChannel \ {img.url}
    BY <1>4, <1>a, <1>b DEF DropFull, OnlyProducer, HoldsToken
  <2>2. /\ \A i \in DOMAIN pushCh : pushCh[i].url # img.url
        /\ \A q \in Producers : q # p /\ HoldsToken(q) => producer[q].hold.url # img.url
        /\ \A w \in Workers : TakesToken(w) => worker[w].img.url # img.url
    BY <2>1 DEF TokensConserved
  <2>3. Reserved' = Reserved \ {img.url} /\ Received' = Received /\ InPushCh' = InPushCh
    BY <2>1, <2>2 DEF InPushCh, Reserved, Received, OnlyProducer, HoldsToken, TakesToken
  <2>4. img.url \notin InPushCh /\ img.url \notin Received
    BY <2>2 DEF InPushCh, Received
  <2>5. inChannel' = InPushCh' \cup Reserved' \cup Received'
    BY <2>1, <2>3, <2>4 DEF TokensConserved, InPushCh, Reserved, Received
  <2> QED
    BY <2>1, <2>5
    DEF TokensConserved, OnlyProducer, HoldsToken, TakesToken, InPushCh, Reserved, Received
<1> QED
  BY <1>1, <1>2, <1>3, <1>4 DEF Enqueue

LEMMA WorkTokens ==
  ASSUME TypeInv, TokensConserved, NEW w \in Workers, Work(w)
  PROVE  TokensConserved'
<1>a. worker \in [Workers -> WorkerLocals]
  BY DEF TypeInv, TypeOK
<1>1. CASE Receive(w)
  <2> DEFINE img == Head(pushCh)
  <2>1. /\ pushCh # <<>> /\ pushCh' = Tail(pushCh) /\ inChannel' = inChannel
        /\ producer' = producer
        /\ ~TakesToken(w) /\ TakesToken(w)' /\ worker'[w].img = img
        /\ \A v \in Workers : v # w => worker'[v] = worker[v]
    BY <1>1, <1>a DEF Receive, Step, TakesToken, WorkerLocals
  <2>2. /\ 1 \in DOMAIN pushCh /\ img = pushCh[1]
        /\ \A i \in DOMAIN pushCh' :
             i + 1 \in DOMAIN pushCh /\ i + 1 # 1 /\ pushCh'[i] = pushCh[i + 1]
    BY <2>1, TailOfChannel
  <2>3. \A i, j \in DOMAIN pushCh' : pushCh'[i].url = pushCh'[j].url => i = j
    <3> SUFFICES ASSUME NEW i \in DOMAIN pushCh', NEW j \in DOMAIN pushCh',
                        pushCh'[i].url = pushCh'[j].url
                 PROVE  i = j
      OBVIOUS
    <3>1. i + 1 = j + 1
      BY <2>2 DEF TokensConserved
    <3>2. i \in Nat /\ j \in Nat
      BY <2>1, TailOfChannel DEF TypeInv, TypeOK
    <3> QED
      BY <3>1, <3>2
  <2>4. \A i \in DOMAIN pushCh' : pushCh'[i].url # img.url
    BY <2>2 DEF TokensConserved
  <2>5. /\ \A p \in Producers : HoldsToken(p) => producer[p].hold.url # img.url
        /\ \A v \in Workers : TakesToken(v) => worker[v].img.url # img.url
    BY <2>2 DEF TokensConserved
  <2>6. /\ \A i \in DOMAIN pushCh', p \in Producers :
             HoldsToken(p)' => pushCh'[i].url # producer'[p].hold.url
        /\ \A i \in DOMAIN pushCh', v \in Workers :
             TakesToken(v)' => pushCh'[i].url # worker'[v].img.url
    BY <2>1, <2>2, <2>4 DEF TokensConserved, HoldsToken, TakesToken
  <2>7. inChannel' = InPushCh' \cup Reserved' \cup Received'
    <3>1. InPushCh = InPushCh' \cup {img.url}
      BY <2>1, TailOfChannel DEF InPushCh
    <3>2. Received' = Received \cup {img.url} /\ Reserved' = Reserved
      BY <2>1 DEF Received, Reserved, HoldsToken, TakesToken
    <3> QED
      BY <2>1, <3>1, <3>2 DEF TokensConserved, InPushCh, Reserved, Received
  <2>8. \A p \in Producers, v \in Workers :
          HoldsToken(p)' /\ TakesToken(v)' => producer'[p].hold.url # worker'[v].img.url
    BY <2>1, <2>5 DEF TokensConserved, HoldsToken, TakesToken
  <2>9. \A p, q \in Producers :
          HoldsToken(p)' /\ HoldsToken(q)' /\ producer'[p].hold.url = producer'[q].hold.url
            => p = q
    BY <2>1 DEF TokensConserved, HoldsToken
  <2>10. \A u, v \in Workers :
           TakesToken(u)' /\ TakesToken(v)' /\ worker'[u].img.url = worker'[v].img.url => u = v
    BY <2>1, <2>5 DEF TokensConserved, TakesToken
  <2> HIDE DEF img
  <2> QED
    BY ONLY <2>3, <2>6, <2>7, <2>8, <2>9, <2>10
    DEF TokensConserved, InPushCh, Reserved, Received
<1>2. CASE Untrack(w)
  <2> DEFINE img == worker[w].img
  <2>1. /\ pushCh' = pushCh /\ inChannel' = inChannel \ {img.url} /\ producer' = producer
        /\ TakesToken(w) /\ ~TakesToken(w)'
        /\ \A v \in Workers : v # w => worker'[v] = worker[v]
    BY <1>2, <1>a DEF Untrack, Goto, Step, TakesToken, WorkerLocals
  <2>2. /\ \A i \in DOMAIN pushCh : pushCh[i].url # img.url
        /\ \A p \in Producers : HoldsToken(p) => producer[p].hold.url # img.url
        /\ \A v \in Workers : v # w /\ TakesToken(v) => worker[v].img.url # img.url
    BY <2>1 DEF TokensConserved
  <2>3. Received' = Received \ {img.url} /\ Reserved' = Reserved /\ InPushCh' = InPushCh
    BY <2>1, <2>2 DEF InPushCh, Reserved, Received, HoldsToken, TakesToken
  <2>4. img.url \notin InPushCh /\ img.url \notin Reserved
    BY <2>2 DEF InPushCh, Reserved
  <2>5. inChannel' = InPushCh' \cup Reserved' \cup Received'
    BY <2>1, <2>3, <2>4 DEF TokensConserved, InPushCh, Reserved, Received
  <2> QED
    BY <2>1, <2>5
    DEF TokensConserved, HoldsToken, TakesToken, InPushCh, Reserved, Received
<1>3. CASE ~Receive(w) /\ ~Untrack(w)
  <2>1. /\ UNCHANGED queue /\ producer' = producer
        /\ worker[w].pc # "untrack" /\ worker'[w].pc # "untrack"
        /\ \A v \in Workers : v # w => worker'[v] = worker[v]
    <3>1. CASE PassGate(w) \/ Cancelled(w) \/ RecheckPause(w) \/ Requeue(w) \/ PassSecondGate(w)
      BY <3>1, <1>a
      DEF PassGate, Cancelled, RecheckPause, Requeue, PassSecondGate, Goto, Step, IdleWorker,
          WorkerLocals
    <3>2. CASE MarkUploading(w) \/ DownloadImage(w) \/ Upload(w)
      BY <3>2, <1>a
      DEF MarkUploading, DownloadImage, Upload, Goto, Step, WorkerLocals
    <3>4. CASE ReadEntry(w)
      <4>1. PICK next : next.pc # "untrack" /\ Step(w, next)
        <5>1. CASE phase = "stopping"
          BY <3>4, <5>1 DEF ReadEntry, IdleWorker
        <5>2. CASE phase # "stopping"
          <6> DEFINE row == db[worker[w].img.file]
                     next == [worker[w] EXCEPT !.pc = "download",
                                !.retry = IF row = NoRow THEN 0 ELSE row.retry]
          <6>1. Step(w, next)
            BY <3>4, <5>2 DEF ReadEntry
          <6>2. next.pc # "untrack"
            BY <1>a DEF WorkerLocals
          <6> HIDE DEF next
          <6> QED
            BY <6>1, <6>2
        <5> QED
          BY <5>1, <5>2
      <4> QED
        BY <3>4, <4>1, <1>a DEF ReadEntry, Step
    <3>3. CASE Finish(w) \/ DeleteObject(w) \/ EvictHandle(w) \/ HandleFailure(w)
      BY <3>3, <1>a
      DEF Finish, DeleteObject, EvictHandle, HandleFailure, Goto, Step, IdleWorker, WorkerLocals
    <3> QED
      BY <1>3, <3>1, <3>2, <3>3, <3>4 DEF Work
  <2> QED
    BY <2>1, TokensKept DEF HoldsToken, TakesToken
<1> QED
  BY <1>1, <1>2, <1>3

LEMMA HandleTokens ==
  ASSUME TypeInv, TokensConserved, NEW h \in Handlers, Handle(h)
  PROVE  TokensConserved'
<1>a. producer \in [Producers -> ProducerLocals] /\ h \in Producers
  BY ThreeProducers DEF TypeInv, TypeOK
<1>1. CASE DrainOne(h)
  <2> DEFINE img == Head(pushCh)
  <2>1. /\ pushCh # <<>> /\ pushCh' = Tail(pushCh) /\ inChannel' = inChannel
        /\ OnlyProducer(h)
        /\ ~HoldsToken(h) /\ HoldsToken(h)' /\ producer'[h].hold = img
    BY <1>1, <1>a DEF DrainOne, OnlyProducer, HoldsToken
  <2>2. /\ 1 \in DOMAIN pushCh /\ img = pushCh[1]
        /\ \A i \in DOMAIN pushCh' :
             i + 1 \in DOMAIN pushCh /\ i + 1 # 1 /\ pushCh'[i] = pushCh[i + 1]
    BY <2>1, TailOfChannel
  <2>3. \A i, j \in DOMAIN pushCh' : pushCh'[i].url = pushCh'[j].url => i = j
    <3> SUFFICES ASSUME NEW i \in DOMAIN pushCh', NEW j \in DOMAIN pushCh',
                        pushCh'[i].url = pushCh'[j].url
                 PROVE  i = j
      OBVIOUS
    <3>1. i + 1 = j + 1
      BY <2>2 DEF TokensConserved
    <3>2. i \in Nat /\ j \in Nat
      BY <2>1, TailOfChannel DEF TypeInv, TypeOK
    <3> QED
      BY <3>1, <3>2
  <2>4. \A i \in DOMAIN pushCh' : pushCh'[i].url # img.url
    BY <2>2 DEF TokensConserved
  <2>5. /\ \A p \in Producers : HoldsToken(p) => producer[p].hold.url # img.url
        /\ \A v \in Workers : TakesToken(v) => worker[v].img.url # img.url
    BY <2>2 DEF TokensConserved
  <2>6. /\ \A i \in DOMAIN pushCh', p \in Producers :
             HoldsToken(p)' => pushCh'[i].url # producer'[p].hold.url
        /\ \A i \in DOMAIN pushCh', v \in Workers :
             TakesToken(v)' => pushCh'[i].url # worker'[v].img.url
    BY <2>1, <2>2, <2>4 DEF TokensConserved, OnlyProducer, HoldsToken, TakesToken
  <2>7. inChannel' = InPushCh' \cup Reserved' \cup Received'
    <3>1. InPushCh = InPushCh' \cup {img.url}
      BY <2>1, TailOfChannel DEF InPushCh
    <3>2. Reserved' = Reserved \cup {img.url} /\ Received' = Received
      BY <2>1, <1>a DEF Received, Reserved, OnlyProducer, HoldsToken, TakesToken
    <3> QED
      BY <2>1, <3>1, <3>2 DEF TokensConserved, InPushCh, Reserved, Received
  <2>8. /\ \A p, q \in Producers :
             HoldsToken(p)' /\ HoldsToken(q)' /\ producer'[p].hold.url = producer'[q].hold.url
               => p = q
        /\ \A p \in Producers, v \in Workers :
             HoldsToken(p)' /\ TakesToken(v)' => producer'[p].hold.url # worker'[v].img.url
        /\ \A v, x \in Workers :
             TakesToken(v)' /\ TakesToken(x)' /\ worker'[v].img.url = worker'[x].img.url => v = x
    BY <1>a, <2>1, <2>5 DEF TokensConserved, OnlyProducer, HoldsToken, TakesToken
  <2> QED
    BY <2>3, <2>6, <2>7, <2>8
    DEF TokensConserved, OnlyProducer, HoldsToken, TakesToken, InPushCh, Reserved, Received
<1>2. CASE DrainUntrack(h)
  <2> DEFINE img == producer[h].hold
  <2>1. /\ OnlyProducer(h) /\ ~HoldsToken(h)' /\ HoldsToken(h)
        /\ pushCh' = pushCh /\ inChannel' = inChannel \ {img.url}
    BY <1>2, <1>a DEF DrainUntrack, OnlyProducer, HoldsToken, ProducerLocals
  <2>2. /\ \A i \in DOMAIN pushCh : pushCh[i].url # img.url
        /\ \A q \in Producers : q # h /\ HoldsToken(q) => producer[q].hold.url # img.url
        /\ \A w \in Workers : TakesToken(w) => worker[w].img.url # img.url
    BY <2>1, <1>a DEF TokensConserved
  <2>3. Reserved' = Reserved \ {img.url} /\ Received' = Received /\ InPushCh' = InPushCh
    BY <2>1, <2>2, <1>a DEF InPushCh, Reserved, Received, OnlyProducer, HoldsToken, TakesToken
  <2>4. img.url \notin InPushCh /\ img.url \notin Received
    BY <2>2 DEF InPushCh, Received
  <2>5. inChannel' = InPushCh' \cup Reserved' \cup Received'
    BY <2>1, <2>3, <2>4 DEF TokensConserved, InPushCh, Reserved, Received
  <2> QED
    BY <2>1, <2>5
    DEF TokensConserved, OnlyProducer, HoldsToken, TakesToken, InPushCh, Reserved, Received
<1>3. CASE MarkSelected(h) \/ HandlerFetch(h) \/ DrainEnd(h) \/ DrainRestore(h)
  <2>1. /\ UNCHANGED queue /\ OnlyProducer(h)
        /\ producer[h].pc \notin {"send", "untrack"}
        /\ producer'[h].pc \notin {"send", "untrack"}
    BY <1>3, <1>a
    DEF MarkSelected, HandlerFetch, DrainEnd, DrainRestore, OnlyProducer, Continue, IdleProducer
  <2> QED
    BY <2>1, TokensKept DEF OnlyProducer, HoldsToken, TakesToken
<1> QED
  BY <1>1, <1>2, <1>3 DEF Handle

\* main starts to enqueue with nothing in hand.
MainIdle == phase \in {"down", "reset", "fresh"} => producer[Main].pc = "idle"

LEMMA MainIdleStep == TypeInv /\ MainIdle /\ [Next]_vars => MainIdle'
<1> SUFFICES ASSUME TypeInv, MainIdle, [Next]_vars PROVE MainIdle'
  OBVIOUS
<1>a. producer \in [Producers -> ProducerLocals]
  BY DEF TypeInv, TypeOK
<1>1. CASE UNCHANGED vars
  BY <1>1 DEF vars, MainIdle
<1>2. ASSUME NEW w \in Workers, Work(w) PROVE MainIdle'
  BY <1>2 DEF MainIdle, Work, PassGate, Receive, Cancelled, Untrack, RecheckPause, Requeue,
     PassSecondGate,
     MarkUploading, ReadEntry, DownloadImage, Upload, Finish, DeleteObject, EvictHandle,
     HandleFailure
<1>3. ASSUME NEW p \in Producers, Enqueue(p) PROVE MainIdle'
  <2>1. phase' = phase /\ producer[p].pc # "idle"
    BY <1>3 DEF Enqueue, SkipTracked, Reserve, Send, DropFull, EnterQueue, RequeuePaused
  <2>2. \A q \in Producers : q # p => producer'[q] = producer[q]
    BY <1>3, <1>a
    DEF Enqueue, SkipTracked, Reserve, Send, DropFull, EnterQueue, RequeuePaused, Continue
  <2> QED
    BY <2>1, <2>2, ThreeProducers DEF MainIdle
<1>4. ASSUME NEW h \in Handlers, Request(h) \/ Handle(h) PROVE MainIdle'
  <2>1. phase' = phase
    BY <1>4 DEF Request, Handle, HandlePause, HandleResume, HandleAutoUpload, HandleQueue,
       HandleQueueAll, HandleRetryFailed, HandleClear, MarkSelected, HandlerFetch, DrainOne,
       DrainEnd, DrainUntrack, DrainRestore
  <2>2. producer'[Main] = producer[Main]
    BY <1>4, <1>a, ThreeProducers
    DEF Request, Handle, HandlePause, HandleResume, HandleAutoUpload, HandleQueue,
        HandleQueueAll, HandleRetryFailed, HandleClear, MarkSelected, HandlerFetch, DrainOne,
        DrainEnd, DrainUntrack, DrainRestore, Continue
  <2> QED
    BY <2>1, <2>2 DEF MainIdle
<1>5. ASSUME NEW f \in Filenames, BackoffExpires(f) PROVE MainIdle'
  BY <1>5 DEF BackoffExpires, MainIdle
<1>6. CASE Tick \/ SchedulerFetch
  BY <1>6, <1>a, ThreeProducers DEF Tick, SchedulerFetch, Continue, MainIdle
<1>7. CASE (\E u \in URLs : Emit(u)) \/ Discover
  <2>1. phase' = phase
    BY <1>7 DEF Emit, Discover, FindOrCreateLookup, FindOrCreateWrite, AutoQueue
  <2>2. producer'[Main] = producer[Main]
    BY <1>7, <1>a, ThreeProducers
    DEF Emit, Discover, FindOrCreateLookup, FindOrCreateWrite, AutoQueue
  <2> QED
    BY <2>1, <2>2 DEF MainIdle
<1>8. CASE Startup
  BY <1>8, <1>a, ThreeProducers
  DEF Startup, Boot, BootReset, BootEnqueue, BootSync, BootRun, MainIdle
<1>9. CASE Signal \/ Camera
  BY <1>9 DEF Signal, Camera, TakePicture, RenumberHandles, MainIdle
<1>10. CASE Exit \/ Crash
  BY <1>10, ThreeProducers DEF Exit, Crash, ForgetMemory, MainIdle, IdleProducer
<1> QED
  BY <1>1, <1>2, <1>3, <1>4, <1>5, <1>6, <1>7, <1>8, <1>9, <1>10 DEF Next

LEMMA TokensStep == TypeInv /\ MainIdle /\ TokensConserved /\ [Next]_vars => TokensConserved'
<1> SUFFICES ASSUME TypeInv, MainIdle, TokensConserved, [Next]_vars PROVE TokensConserved'
  OBVIOUS
<1>a. producer \in [Producers -> ProducerLocals]
  BY DEF TypeInv, TypeOK
<1>1. CASE UNCHANGED vars
  BY <1>1, TokensKept DEF vars, queue, HoldsToken, TakesToken
<1>2. ASSUME NEW w \in Workers, Work(w) PROVE TokensConserved'
  BY <1>2, WorkTokens
<1>3. ASSUME NEW p \in Producers, Enqueue(p) PROVE TokensConserved'
  BY <1>3, EnqueueTokens
<1>4. ASSUME NEW h \in Handlers, Handle(h) PROVE TokensConserved'
  BY <1>4, HandleTokens
<1>5. ASSUME NEW h \in Handlers, Request(h) PROVE TokensConserved'
  <2>1. CASE HandlePause(h) \/ HandleResume(h) \/ HandleAutoUpload(h)
    BY <2>1, TokensKept DEF HandlePause, HandleResume, HandleAutoUpload, HoldsToken, TakesToken
  <2>2. CASE HandleQueue(h) \/ HandleQueueAll(h) \/ HandleRetryFailed(h) \/ HandleClear(h)
    <3>1. /\ UNCHANGED queue /\ OnlyProducer(h)
          /\ producer[h].pc \notin {"send", "untrack"}
          /\ producer'[h].pc \notin {"send", "untrack"}
      BY <2>2, <1>a, ThreeProducers
      DEF HandleQueue, HandleQueueAll, HandleRetryFailed, HandleClear, Accept, OnlyProducer,
          Continue, IdleProducer, ProducerLocals
    <3> QED
      BY <3>1, TokensKept DEF OnlyProducer, HoldsToken, TakesToken
  <2> QED
    BY <1>5, <2>1, <2>2 DEF Request
<1>6. ASSUME NEW f \in Filenames, BackoffExpires(f) PROVE TokensConserved'
  BY <1>6, TokensKept DEF BackoffExpires, HoldsToken, TakesToken
<1>7. CASE Tick \/ SchedulerFetch
  <2>1. /\ UNCHANGED queue /\ OnlyProducer(Scheduler)
        /\ producer[Scheduler].pc \notin {"send", "untrack"}
        /\ producer'[Scheduler].pc \notin {"send", "untrack"}
    BY <1>7, <1>a, ThreeProducers
    DEF Tick, SchedulerFetch, OnlyProducer, Continue, IdleProducer, ProducerLocals
  <2> QED
    BY <2>1, TokensKept DEF OnlyProducer, HoldsToken, TakesToken
<1>8. CASE (\E u \in URLs : Emit(u)) \/ Discover
  <2>1. /\ UNCHANGED queue /\ OnlyProducer(Discovery)
        /\ producer[Discovery].pc \notin {"send", "untrack"}
        /\ producer'[Discovery].pc \notin {"send", "untrack"}
    <3>1. CASE \E u \in URLs : Emit(u)
      BY <3>1, <1>a, ThreeProducers DEF Emit, OnlyProducer
    <3>2. CASE FindOrCreateLookup
      <4> DEFINE found == Lookup(db, producer[Discovery].hold)
      <4>1. found \in {"rebind", "insert", "reuse", "known"}
        BY DEF Lookup
      <4>2. /\ producer[Discovery].pc = "lookup" /\ UNCHANGED queue /\ worker' = worker
            /\ \/ producer' = [producer EXCEPT ![Discovery] = IdleProducer]
               \/ producer' = [producer EXCEPT ![Discovery].pc = found]
        BY <3>2 DEF FindOrCreateLookup
      <4> QED
        BY <1>a, <4>1, <4>2, ThreeProducers DEF OnlyProducer, IdleProducer, ProducerLocals
    <3>3. CASE FindOrCreateWrite
      BY <3>3, <1>a, ThreeProducers DEF FindOrCreateWrite, OnlyProducer, IdleProducer, ProducerLocals
    <3>4. CASE AutoQueue
      BY <3>4, <1>a, ThreeProducers DEF AutoQueue, OnlyProducer, IdleProducer
    <3> QED
      BY <1>8, <3>1, <3>2, <3>3, <3>4 DEF Discover
  <2> QED
    BY <2>1, TokensKept DEF OnlyProducer, HoldsToken, TakesToken
<1>9. CASE Startup
  <2>1. CASE Boot \/ BootReset \/ BootRun
    BY <2>1, TokensKept DEF Boot, BootReset, BootRun, HoldsToken, TakesToken
  <2>2. CASE BootEnqueue \/ BootSync
    <3>1. /\ UNCHANGED queue /\ OnlyProducer(Main)
          /\ producer[Main].pc = "idle" /\ producer'[Main].pc \notin {"send", "untrack"}
      BY <2>2, <1>a, ThreeProducers
      DEF BootEnqueue, BootSync, OnlyProducer, Continue, IdleProducer, MainIdle
    <3> QED
      BY <3>1, TokensKept DEF OnlyProducer, HoldsToken, TakesToken
  <2> QED
    BY <1>9, <2>1, <2>2 DEF Startup
<1>10. CASE Signal \/ Camera
  BY <1>10, TokensKept DEF Signal, Camera, TakePicture, RenumberHandles, HoldsToken, TakesToken
<1>11. CASE Exit \/ Crash
  BY <1>11 DEF Exit, Crash, ForgetMemory, TokensConserved, HoldsToken, TakesToken,
               IdleProducer, IdleWorker
<1> QED
  BY <1>1, <1>2, <1>3, <1>4, <1>5, <1>6, <1>7, <1>8, <1>9, <1>10, <1>11 DEF Next

\* The reservations of inChannel and the contents of the push channel never
\* diverge, whatever the workers, producers and requests interleave.
THEOREM TokensCorrect == Spec => []TokensConserved
<1>1. Init => TypeInv /\ MainIdle /\ TokensConserved
  BY TypeInit, TokensInit, ThreeProducers DEF Init, MainIdle, IdleProducer
<1>2. TypeInv /\ MainIdle /\ TokensConserved /\ [Next]_vars
        => (TypeInv /\ MainIdle /\ TokensConserved)'
  BY TypeStep, MainIdleStep, TokensStep
<1> QED
  BY <1>1, <1>2, PTL DEF Spec
=============================================================================
