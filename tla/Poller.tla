-------------------------------- MODULE Poller --------------------------------
(* The poller of internal/canon/poller.go: the loop that lists the camera,    *)
(* the memory of what it has handed over (seen, its ring buffer, the handle   *)
(* cache), back-off, forced polls and changed settings; around it the upload  *)
(* worker that deletes objects, and the camera that reuses their handles.     *)
(* A URL is built from a handle and stands for it.                            *)
EXTENDS Naturals, Sequences

CONSTANTS Files, URLs,
          MaxSeenImages,  \* maxSeenImages
          Handles,        \* Handles[f]: the URLs the camera may give to f
          Deletes,        \* the deletions that happen: see DeleteObject
          ListsTwice,     \* a listing may hold an object twice
          NoFile

ASSUME MaxSeenAssumption == MaxSeenImages \in Nat \ {0}
ASSUME HandlesAssumption == Handles \in [Files -> SUBSET URLs]
ASSUME NoFileAssumption == NoFile \notin Files
ASSUME ListsTwiceAssumption == ListsTwice \in BOOLEAN

VARIABLES
  camera,        \* URL -> the file behind that handle
  taken,         \* the files ever written to the card
  seen,          \* Poller.seen
  seenKeys,      \* Poller.seenKeys
  imageHandles,  \* Poller.imageHandles
  initialDone,   \* Poller.initialDone
  autoEnabled,   \* Poller.autoEnabled
  triggerCh,     \* Poller.triggerCh holds a token
  configCh,      \* Poller.configCh holds a token
  cancelled,     \* the context is cancelled
  loop,          \* the locals of Run and pollOnce
  notifying,     \* SetEnabled has written autoEnabled, but not to configCh
  evicting,      \* objects a worker has deleted, but not evicted
  handed         \* files sent on the channel

cache == <<seen, seenKeys, imageHandles, initialDone>>
settings == <<autoEnabled, configCh, notifying>>
world == <<camera, taken, evicting>>
vars == <<world, cache, settings, triggerCh, cancelled, loop, handed>>

\* snapshot and list: pollOnce before and during the listing; mark: its loop;
\* send: blocked on the channel; wait and backoff: the selects of Run.
LoopPC == {"snapshot", "list", "mark", "send", "wait", "backoff", "returned"}

Image == [file : Files, url : URLs]

\* images: what is left of the listing, twice: those of them listed once more.
Loop == [pc : LoopPC, known : SUBSET URLs, images : SUBSET Image, twice : SUBSET Image,
         file : Files \cup {NoFile}, curEnabled : BOOLEAN]

TypeOK ==
  /\ camera \in [URLs -> Files \cup {NoFile}]
  /\ taken \subseteq Files
  /\ seen \subseteq URLs
  /\ seenKeys \in Seq(URLs)
  /\ Len(seenKeys) <= MaxSeenImages
  /\ imageHandles \subseteq URLs
  /\ {initialDone, autoEnabled, triggerCh, configCh, cancelled, notifying} \subseteq BOOLEAN
  /\ loop \in Loop
  /\ evicting \subseteq URLs
  /\ handed \subseteq Files

Init ==
  /\ camera = [u \in URLs |-> NoFile]
  /\ taken = {}
  /\ seen = {}
  /\ seenKeys = <<>>
  /\ imageHandles = {}
  /\ initialDone = FALSE
  /\ autoEnabled \in BOOLEAN
  /\ triggerCh = FALSE
  /\ configCh \in BOOLEAN
  /\ cancelled = FALSE
  /\ loop = [pc |-> "snapshot", known |-> {}, images |-> {}, twice |-> {},
             file |-> NoFile, curEnabled |-> autoEnabled]
  /\ notifying = FALSE
  /\ evicting = {}
  /\ handed = {}

-----------------------------------------------------------------------------
(* pollOnce.                                                                 *)

\* The handles to skip are copied before the listing, not during it.
Snapshot ==
  /\ loop.pc = "snapshot"
  /\ loop' = [loop EXCEPT !.pc = "list",
                          !.known = IF initialDone THEN imageHandles ELSE {}]
  /\ UNCHANGED <<world, cache, settings, triggerCh, cancelled, handed>>

\* What the camera lists now, without the handles in known.
Listing ==
  {img \in Image : img.file = camera[img.url] /\ img.url \notin loop.known}

ListImages ==
  /\ loop.pc = "list"
  /\ initialDone' = TRUE
  /\ \E again \in (IF ListsTwice THEN SUBSET Listing ELSE {{}}) :
       loop' = [loop EXCEPT !.pc = "mark", !.images = Listing, !.twice = again]
  /\ UNCHANGED <<world, seen, seenKeys, imageHandles, settings, triggerCh, cancelled, handed>>

\* A failed listing ends in the back-off, whose length is left out, unless the
\* context is cancelled.
ListFails ==
  /\ loop.pc = "list"
  /\ loop' = IF cancelled
             THEN [loop EXCEPT !.pc = "wait", !.curEnabled = autoEnabled]
             ELSE [loop EXCEPT !.pc = "backoff"]
  /\ UNCHANGED <<world, cache, settings, triggerCh, cancelled, handed>>

\* The loop goes on without img.
Rest(img) == IF img \in loop.twice THEN [loop EXCEPT !.twice = @ \ {img}]
             ELSE [loop EXCEPT !.images = @ \ {img}]

\* The URL that a full ring buffer loses when u enters it.
Oldest(u) == IF Len(seenKeys) < MaxSeenImages THEN {} ELSE {Head(Append(seenKeys, u))}

\* Faulty variant of SkipSeen: the image is sent all the same.
SendSeen(img) ==
  /\ img.url \in seen
  /\ imageHandles' = imageHandles \cup {img.url}
  /\ loop' = [Rest(img) EXCEPT !.pc = "send", !.file = img.file]
  /\ UNCHANGED <<seen, seenKeys>>

\* An image whose URL was handed over already: only its handle is cached.
SkipSeen(img) ==
  /\ img.url \in seen
  /\ imageHandles' = imageHandles \cup {img.url}
  /\ loop' = Rest(img)
  /\ UNCHANGED <<seen, seenKeys>>

\* Faulty variants of Remember: the ring buffer grows, or the handle of the
\* URL that falls out stays cached.
RememberAll(img) ==
  /\ img.url \notin seen
  /\ imageHandles' = imageHandles \cup {img.url}
  /\ seen' = seen \cup {img.url}
  /\ seenKeys' = Append(seenKeys, img.url)
  /\ loop' = [Rest(img) EXCEPT !.pc = "send", !.file = img.file]

KeepOldHandle(img) ==
  /\ img.url \notin seen
  /\ imageHandles' = imageHandles \cup {img.url}
  /\ seen' = (seen \cup {img.url}) \ Oldest(img.url)
  /\ seenKeys' = IF Oldest(img.url) = {} THEN Append(seenKeys, img.url)
                 ELSE Tail(Append(seenKeys, img.url))
  /\ loop' = [Rest(img) EXCEPT !.pc = "send", !.file = img.file]

\* A new image; the oldest URL falls out of a full ring buffer, and its handle
\* out of the cache.
Remember(img) ==
  /\ img.url \notin seen
  /\ imageHandles' = (imageHandles \cup {img.url}) \ Oldest(img.url)
  /\ seen' = (seen \cup {img.url}) \ Oldest(img.url)
  /\ seenKeys' = IF Oldest(img.url) = {} THEN Append(seenKeys, img.url)
                 ELSE Tail(Append(seenKeys, img.url))
  /\ loop' = [Rest(img) EXCEPT !.pc = "send", !.file = img.file]

MarkImage ==
  /\ loop.pc = "mark"
  /\ \E img \in loop.images : SkipSeen(img) \/ Remember(img)
  /\ UNCHANGED <<world, initialDone, settings, triggerCh, cancelled, handed>>

Send ==
  /\ loop.pc = "send"
  /\ handed' = handed \cup {loop.file}
  /\ loop' = [loop EXCEPT !.pc = "mark", !.file = NoFile]
  /\ UNCHANGED <<world, cache, settings, triggerCh, cancelled>>

\* The rest of the listing is dropped too; pollOnce returns no error.
GiveUp ==
  /\ cancelled
  /\ loop.pc = "send"
  /\ loop' = [loop EXCEPT !.pc = "wait", !.images = {}, !.twice = {}, !.file = NoFile,
                          !.curEnabled = autoEnabled]
  /\ UNCHANGED <<world, cache, settings, triggerCh, cancelled, handed>>

-----------------------------------------------------------------------------
(* Run.                                                                      *)

\* A poll that succeeded: resetTicker.
Polled ==
  /\ loop.pc = "mark"
  /\ loop.images = {}
  /\ loop' = [loop EXCEPT !.pc = "wait", !.curEnabled = autoEnabled]
  /\ UNCHANGED <<world, cache, settings, triggerCh, cancelled, handed>>

Tick ==
  /\ loop.pc = "wait"
  /\ loop.curEnabled
  /\ loop' = [loop EXCEPT !.pc = "snapshot"]
  /\ UNCHANGED <<world, cache, settings, triggerCh, cancelled, handed>>

BackoffOver ==
  /\ loop.pc = "backoff"
  /\ loop' = [loop EXCEPT !.pc = "snapshot"]
  /\ UNCHANGED <<world, cache, settings, triggerCh, cancelled, handed>>

\* Faulty variant of Triggered: a forced poll is ignored while polling is disabled.
TriggeredIfEnabled ==
  /\ loop.pc \in {"wait", "backoff"}
  /\ triggerCh /\ loop.curEnabled
  /\ triggerCh' = FALSE
  /\ loop' = [loop EXCEPT !.pc = "snapshot"]
  /\ UNCHANGED <<world, cache, settings, cancelled, handed>>

Triggered ==
  /\ loop.pc \in {"wait", "backoff"}
  /\ triggerCh
  /\ triggerCh' = FALSE
  /\ loop' = [loop EXCEPT !.pc = "snapshot"]
  /\ UNCHANGED <<world, cache, settings, cancelled, handed>>

\* Faulty variant of ApplyConfig: the ticker is not reset.
ApplyNothing ==
  /\ loop.pc = "wait"
  /\ configCh
  /\ configCh' = FALSE
  /\ UNCHANGED <<world, cache, autoEnabled, notifying, triggerCh, cancelled, loop, handed>>

ApplyConfig ==
  /\ loop.pc = "wait"
  /\ configCh
  /\ configCh' = FALSE
  /\ loop' = [loop EXCEPT !.curEnabled = autoEnabled]
  /\ UNCHANGED <<world, cache, autoEnabled, notifying, triggerCh, cancelled, handed>>

\* Faulty variant of Return: the select between two polls ignores the context.
ReturnFromBackoff ==
  /\ cancelled
  /\ loop.pc = "backoff"
  /\ loop' = [loop EXCEPT !.pc = "returned"]
  /\ UNCHANGED <<world, cache, settings, triggerCh, cancelled, handed>>

Return ==
  /\ cancelled
  /\ loop.pc \in {"wait", "backoff"}
  /\ loop' = [loop EXCEPT !.pc = "returned"]
  /\ UNCHANGED <<world, cache, settings, triggerCh, cancelled, handed>>

-----------------------------------------------------------------------------
(* What HTTP handlers, upload workers and main do meanwhile.                 *)

TriggerNow ==
  /\ loop.pc # "returned"
  /\ triggerCh' = TRUE
  /\ UNCHANGED <<world, cache, settings, cancelled, loop, handed>>

\* SetEnabled and SetInterval: the field under the lock, then the notification.
SetEnabled(v) ==
  /\ loop.pc # "returned"
  /\ ~notifying
  /\ autoEnabled' = v
  /\ notifying' = TRUE
  /\ UNCHANGED <<world, cache, configCh, triggerCh, cancelled, loop, handed>>

NotifyConfig ==
  /\ notifying
  /\ configCh' = TRUE
  /\ notifying' = FALSE
  /\ UNCHANGED <<world, cache, autoEnabled, triggerCh, cancelled, loop, handed>>

Cancel ==
  /\ cancelled' = TRUE
  /\ UNCHANGED <<world, cache, settings, triggerCh, loop, handed>>

\* A worker deletes an uploaded object.  It was handed over, or was still in
\* the queue of an earlier process ("backlog"); an answer that is lost
\* ("unconfirmed") keeps the worker from evicting the handle.
DeleteObject(u) ==
  /\ camera[u] # NoFile
  /\ camera[u] \in handed \/ "backlog" \in Deletes
  /\ camera' = [camera EXCEPT ![u] = NoFile]
  /\ \/ evicting' = evicting \cup {u}
     \/ "unconfirmed" \in Deletes /\ UNCHANGED evicting
  /\ UNCHANGED <<taken, cache, settings, triggerCh, cancelled, loop, handed>>

\* Faulty variant of EvictHandle: the handle stays cached.
EvictURL(u) ==
  /\ u \in evicting
  /\ evicting' = evicting \ {u}
  /\ seen' = seen \ {u}
  /\ UNCHANGED <<camera, taken, seenKeys, imageHandles, initialDone, settings, triggerCh,
                 cancelled, loop, handed>>

EvictHandle(u) ==
  /\ u \in evicting
  /\ evicting' = evicting \ {u}
  /\ imageHandles' = imageHandles \ {u}
  /\ seen' = seen \ {u}
  /\ UNCHANGED <<camera, taken, seenKeys, initialDone, settings, triggerCh, cancelled,
                 loop, handed>>

TakePicture(f) ==
  /\ f \notin taken
  /\ taken' = taken \cup {f}
  /\ \E u \in Handles[f] :
       /\ camera[u] = NoFile
       /\ camera' = [camera EXCEPT ![u] = f]
  /\ UNCHANGED <<evicting, cache, settings, triggerCh, cancelled, loop, handed>>

-----------------------------------------------------------------------------
PollOnce == Snapshot \/ ListImages \/ ListFails \/ MarkImage \/ Send \/ GiveUp \/ Polled

Next ==
  \/ PollOnce
  \/ Tick \/ BackoffOver \/ Triggered \/ ApplyConfig \/ Return
  \/ TriggerNow \/ NotifyConfig \/ Cancel
  \/ \E v \in BOOLEAN : SetEnabled(v)
  \/ \E u \in URLs : DeleteObject(u) \/ EvictHandle(u)
  \/ \E f \in Files : TakePicture(f)

Spec == Init /\ [][Next]_vars

\* Goroutines go on and timers fire.  A select picks among what is ready at
\* random, so a case that is ready again and again is picked in the end.
Fairness ==
  /\ WF_vars(PollOnce)
  /\ WF_vars(Tick) /\ WF_vars(BackoffOver)
  /\ SF_vars(Triggered) /\ SF_vars(ApplyConfig) /\ SF_vars(Return)
  /\ WF_vars(NotifyConfig)
  /\ \A u \in URLs : WF_vars(EvictHandle(u))

FairSpec == Spec /\ Fairness

-----------------------------------------------------------------------------
(* Properties.                                                               *)

\* What the delta scan skips has been handed over, and will fall out of the
\* bounded ring buffer: so the memory of the poller is bounded by it, although
\* workers evict URLs behind its back, and nothing is skipped that was not seen.
RingCoversCaches ==
  /\ imageHandles \subseteq seen
  /\ \A u \in seen : \E i \in DOMAIN seenKeys : seenKeys[i] = u

OnCamera(f) == \E u \in URLs : camera[u] = f

\* As long as handles are not reused, a picture that is on the camera is not
\* handed over again before the ring buffer has been full: although listings
\* are stale, repeat objects, and race with evictions.
HandedOnce ==
  [][loop.pc = "send" /\ loop'.pc = "mark" /\ loop.file \in handed /\ OnCamera(loop.file)
       => Len(seenKeys) = MaxSeenImages]_vars

CameraAnswers == <>[][~ListFails]_vars
Runs == []~cancelled

HandedOver(f) == f \in taken ~> (f \in handed \/ ~OnCamera(f))

\* A handle whose object a worker deleted is evicted, and not before the poll
\* has marked what it listed under it.
EvictedInTime ==
  /\ \A u \in seen : camera[u] # NoFile \/ u \in evicting
  /\ \A img \in loop.images : camera[img.url] = img.file \/ img.url \in evicting

\* A picture is handed over or deleted, as long as polling stays enabled and
\* deleted handles are evicted in time: no ring overflow, stale listing, forced
\* poll or failure makes the handle caches hide a new picture, also under a
\* handle used before.
EveryPictureHandedOver ==
  Runs /\ CameraAnswers /\ <>[]autoEnabled /\ []EvictedInTime =>
    \A f \in Files : HandedOver(f)

\* Evicting a handle after the deletion lets the poller discover the picture
\* that the slot is reused for (EvictHandle, poller.go:110-118), whenever the
\* worker's eviction comes.
EvictedIsRediscovered ==
  Runs /\ CameraAnswers /\ <>[]autoEnabled => \A f \in Files : HandedOver(f)

\* A forced poll is carried out, also while polling is disabled or backs off.
TriggerIsServed == Runs => (triggerCh ~> loop.pc = "list")

\* Settings that stay as they are take effect on the ticker.
ConfigTakesEffect ==
  Runs /\ CameraAnswers =>
    \A v \in BOOLEAN : <>[](autoEnabled = v) => <>[](loop.curEnabled = v)

\* After a cancellation the goroutine returns, also from a back-off or a send.
CancelReturns == cancelled ~> loop.pc = "returned"
=============================================================================
