----------------------------- MODULE PollerProofs -----------------------------
(* Theorems about Poller for every value of its constants.                    *)
EXTENDS Poller, TLAPS

\* A file is in hand whenever the loop is about to send one.
InHand == loop.pc = "send" => loop.file \in Files

MemoryInv == TypeOK /\ InHand /\ RingCoversCaches

-----------------------------------------------------------------------------
\* The part of MemoryInv that the caches take part in.
CachesOK ==
  /\ seen \subseteq URLs
  /\ imageHandles \subseteq seen
  /\ seenKeys \in Seq(URLs)
  /\ Len(seenKeys) <= MaxSeenImages
  /\ \A u \in seen : \E i \in DOMAIN seenKeys : seenKeys[i] = u

\* Pushing a URL into the ring buffer loses at most the oldest one.
LEMMA RingPush ==
  ASSUME CachesOK, NEW img \in Image, Remember(img)
  PROVE  CachesOK'
<1> DEFINE u == img.url
           keys == Append(seenKeys, u)
<1>1. u \in URLs
  BY DEF Image
<1>2. /\ keys \in Seq(URLs)
      /\ Len(keys) = Len(seenKeys) + 1
      /\ keys[Len(keys)] = u
      /\ \A i \in 1 .. Len(seenKeys) : keys[i] = seenKeys[i]
  BY <1>1 DEF CachesOK
<1>3. \A v \in seen \cup {u} : \E i \in 1 .. Len(keys) : keys[i] = v
  <2> SUFFICES ASSUME NEW v \in seen \cup {u}
               PROVE  \E i \in 1 .. Len(keys) : keys[i] = v
    OBVIOUS
  <2>1. CASE v \in seen
    <3>1. PICK i \in 1 .. Len(seenKeys) : seenKeys[i] = v
      BY <2>1 DEF CachesOK
    <3> QED
      BY <1>2, <3>1 DEF CachesOK
  <2>2. CASE v = u
    BY <1>2, <2>2 DEF CachesOK
  <2> QED
    BY <2>1, <2>2
<1>4. CASE Len(seenKeys) < MaxSeenImages
  <2>1. /\ seen' = seen \cup {u}
        /\ imageHandles' = imageHandles \cup {u}
        /\ seenKeys' = keys
    BY <1>4 DEF Remember, Oldest
  <2>2. Len(keys) <= MaxSeenImages
    BY <1>2, <1>4, MaxSeenAssumption DEF CachesOK
  <2> QED
    BY <1>1, <1>2, <1>3, <2>1, <2>2 DEF CachesOK
<1>5. CASE ~(Len(seenKeys) < MaxSeenImages)
  <2>1. Oldest(u) = {Head(keys)}
    BY <1>5 DEF Oldest
  <2>2. /\ seen' = (seen \cup {u}) \ {Head(keys)}
        /\ imageHandles' = (imageHandles \cup {u}) \ {Head(keys)}
        /\ seenKeys' = Tail(keys)
    BY <2>1 DEF Remember
  <2>3. /\ Tail(keys) \in Seq(URLs)
        /\ Len(Tail(keys)) = Len(seenKeys)
        /\ Head(keys) = keys[1]
        /\ \A i \in 1 .. Len(seenKeys) : Tail(keys)[i] = keys[i + 1]
    BY <1>2 DEF CachesOK
  <2>4. \A v \in seen' : \E i \in 1 .. Len(seenKeys) : Tail(keys)[i] = v
    <3> SUFFICES ASSUME NEW v \in seen'
                 PROVE  \E i \in 1 .. Len(seenKeys) : Tail(keys)[i] = v
      OBVIOUS
    <3>1. PICK i \in 1 .. Len(keys) : keys[i] = v
      BY <1>3, <2>2
    <3>2. i # 1
      BY <2>2, <2>3, <3>1
    <3>3. i - 1 \in 1 .. Len(seenKeys) /\ (i - 1) + 1 = i
      BY <1>2, <3>2 DEF CachesOK
    <3> QED
      BY <2>3, <3>1, <3>3
  <2>5. Len(seenKeys') <= MaxSeenImages /\ DOMAIN seenKeys' = 1 .. Len(seenKeys)
    BY <2>2, <2>3 DEF CachesOK
  <2> QED
    BY <1>1, <2>2, <2>3, <2>4, <2>5 DEF CachesOK
<1> QED
  BY <1>4, <1>5

\* The locals of the loop stay in their types.
LEMMA RestType ==
  ASSUME loop \in Loop, NEW img
  PROVE  Rest(img) \in Loop /\ Rest(img).pc = loop.pc
BY DEF Rest, Loop

\* Every step of pollOnce keeps the invariant.
LEMMA PollOnceKeeps ==
  ASSUME MemoryInv, PollOnce
  PROVE  MemoryInv'
<1> USE DEF MemoryInv, InHand, vars, world, cache, settings
<1>1. CASE Snapshot
  BY <1>1 DEF Snapshot, TypeOK, RingCoversCaches, Loop, LoopPC
<1>2. CASE ListImages
  <2>1. Listing \subseteq Image
    BY DEF Listing
  <2>2. PICK again \in (IF ListsTwice THEN SUBSET Listing ELSE {{}}) :
          loop' = [loop EXCEPT !.pc = "mark", !.images = Listing, !.twice = again]
    BY <1>2 DEF ListImages
  <2>3. again \subseteq Image
    BY <2>1, <2>2
  <2>4. loop' \in Loop /\ loop'.pc = "mark"
    BY <2>1, <2>2, <2>3 DEF TypeOK, Loop, LoopPC
  <2> QED
    BY <1>2, <2>4 DEF ListImages, TypeOK, RingCoversCaches
<1>3. CASE ListFails
  BY <1>3 DEF ListFails, TypeOK, RingCoversCaches, Loop, LoopPC
<1>4. CASE MarkImage
  <2>1. PICK img \in loop.images : SkipSeen(img) \/ Remember(img)
    BY <1>4 DEF MarkImage
  <2>2. img \in Image /\ img.file \in Files /\ img.url \in URLs
    BY <2>1 DEF TypeOK, Loop, Image
  <2>3. Rest(img) \in Loop /\ Rest(img).pc = "mark"
    BY <1>4, RestType DEF MarkImage, TypeOK
  <2>4. CachesOK
    BY DEF CachesOK, TypeOK, RingCoversCaches
  <2>5. loop' \in Loop /\ (loop'.pc = "send" => loop'.file \in Files) /\ CachesOK'
    <3>1. CASE SkipSeen(img)
      BY <2>2, <2>3, <2>4, <3>1 DEF SkipSeen, CachesOK
    <3>2. CASE Remember(img)
      <4>1. loop' \in Loop /\ loop'.file = img.file
        BY <2>2, <2>3, <3>2 DEF Remember, Loop, LoopPC
      <4> QED
        BY <2>2, <2>4, <3>2, <4>1, RingPush
    <3> QED
      BY <2>1, <3>1, <3>2
  <2> QED
    BY <1>4, <2>5 DEF MarkImage, CachesOK, TypeOK, RingCoversCaches
<1>5. CASE Send
  BY <1>5 DEF Send, TypeOK, RingCoversCaches, Loop, LoopPC
<1>6. CASE GiveUp
  BY <1>6 DEF GiveUp, TypeOK, RingCoversCaches, Loop, LoopPC
<1>7. CASE Polled
  BY <1>7 DEF Polled, TypeOK, RingCoversCaches, Loop, LoopPC
<1> QED
  BY <1>1, <1>2, <1>3, <1>4, <1>5, <1>6, <1>7 DEF PollOnce

\* So does every other step; only EvictHandle touches the caches.
LEMMA OthersKeep ==
  ASSUME MemoryInv, [Next]_vars, ~PollOnce
  PROVE  MemoryInv'
<1> USE DEF MemoryInv, InHand, vars, world, cache, settings
<1>1. CASE Tick \/ BackoffOver \/ Triggered \/ ApplyConfig \/ Return
  <2>1. loop' \in Loop /\ loop'.pc \in {"snapshot", "wait", "returned"}
    BY <1>1 DEF Tick, BackoffOver, Triggered, ApplyConfig, Return, TypeOK, Loop, LoopPC
  <2> QED
    BY <1>1, <2>1 DEF Tick, BackoffOver, Triggered, ApplyConfig, Return, TypeOK, RingCoversCaches
<1>2. CASE TriggerNow \/ NotifyConfig \/ Cancel \/ \E v \in BOOLEAN : SetEnabled(v)
  BY <1>2 DEF TriggerNow, NotifyConfig, Cancel, SetEnabled, TypeOK, RingCoversCaches
<1>3. CASE \E u \in URLs : DeleteObject(u)
  <2>1. PICK u \in URLs : DeleteObject(u)
    BY <1>3
  <2>2. camera' \in [URLs -> Files \cup {NoFile}] /\ evicting' \subseteq URLs
    BY <2>1 DEF DeleteObject, TypeOK
  <2> QED
    BY <2>1, <2>2 DEF DeleteObject, TypeOK, RingCoversCaches
<1>4. CASE \E u \in URLs : EvictHandle(u)
  BY <1>4 DEF EvictHandle, TypeOK, RingCoversCaches
<1>5. CASE \E f \in Files : TakePicture(f)
  <2>1. PICK f \in Files : TakePicture(f)
    BY <1>5
  <2>2. camera' \in [URLs -> Files \cup {NoFile}]
    BY <2>1, HandlesAssumption DEF TakePicture, TypeOK
  <2> QED
    BY <2>1, <2>2 DEF TakePicture, TypeOK, RingCoversCaches
<1>6. CASE UNCHANGED vars
  BY <1>6 DEF TypeOK, RingCoversCaches
<1> QED
  BY <1>1, <1>2, <1>3, <1>4, <1>5, <1>6 DEF Next

LEMMA MemoryCorrect == Spec => []MemoryInv
<1>1. ASSUME Init PROVE MemoryInv
  <2>1. loop \in Loop /\ loop.pc = "snapshot"
    BY <1>1 DEF Init, Loop, LoopPC
  <2>2. seenKeys \in Seq(URLs) /\ Len(seenKeys) <= MaxSeenImages
    BY <1>1, MaxSeenAssumption DEF Init
  <2>3. camera \in [URLs -> Files \cup {NoFile}]
    BY <1>1 DEF Init
  <2>4. {initialDone, autoEnabled, triggerCh, configCh, cancelled, notifying} \subseteq BOOLEAN
    BY <1>1 DEF Init
  <2>5. taken \subseteq Files /\ seen = {} /\ imageHandles = {} /\ evicting = {} /\ handed = {}
    BY <1>1 DEF Init
  <2> QED
    BY <2>1, <2>2, <2>3, <2>4, <2>5 DEF MemoryInv, TypeOK, InHand, RingCoversCaches
<1>2. MemoryInv /\ [Next]_vars => MemoryInv'
  BY PollOnceKeeps, OthersKeep
<1> QED
  BY <1>1, <1>2, PTL DEF Spec

\* Every state of the poller has its type; the ring buffer never outgrows
\* maxSeenImages.
THEOREM PollerTypes == Spec => []TypeOK
<1>1. MemoryInv => TypeOK
  BY DEF MemoryInv
<1> QED
  BY <1>1, MemoryCorrect, PTL

\* For any ring buffer, any camera and any deletions: what the delta scan skips
\* was handed over, and is covered by the ring buffer.
THEOREM MemoryIsCovered == Spec => []RingCoversCaches
<1>1. MemoryInv => RingCoversCaches
  BY DEF MemoryInv
<1> QED
  BY <1>1, MemoryCorrect, PTL

-----------------------------------------------------------------------------
(* No picture twice, as long as no handle is given to two pictures.          *)

NoReuse == \A f, g \in Files : f # g => Handles[f] \cap Handles[g] = {}

\* What the card and the poller say of each other: a picture stays behind one
\* handle, one that is being evicted gets no picture any more, and a listing,
\* however old, has the handle of each of its pictures that is there still.
CardInv ==
  /\ handed \subseteq taken
  /\ \A u \in URLs : camera[u] # NoFile => camera[u] \in taken /\ u \in Handles[camera[u]]
  /\ \A u, v \in URLs : camera[u] # NoFile /\ camera[u] = camera[v] => u = v
  /\ \A u \in evicting : /\ camera[u] = NoFile
                         /\ \A f \in Files : u \in Handles[f] => f \in taken
  /\ \A img \in loop.images : /\ img.file \in taken
                              /\ \A u \in URLs : camera[u] = img.file => u = img.url
  /\ loop.pc = "send" => loop.file \in taken

\* A ring buffer that was never full has lost nothing: what was handed over, or
\* is about to be, and is on the card, is in seen.
Full == Len(seenKeys) = MaxSeenImages

AllSeen ==
  /\ \A u \in URLs : camera[u] \in handed => u \in seen
  /\ loop.pc = "send" => /\ loop.file \in handed => ~OnCamera(loop.file)
                         /\ \A u \in URLs : camera[u] = loop.file => u \in seen

OnceInv == CardInv /\ (Full \/ AllSeen)

\* Steps that move only the loop, to a place before or after the listing.
LoopMoves == /\ UNCHANGED <<world, seen, seenKeys, handed>>
             /\ loop'.images \subseteq loop.images
             /\ loop'.pc = "send" => loop.pc = "send" /\ loop'.file = loop.file

LEMMA LoopMovesKeep ==
  ASSUME OnceInv, LoopMoves
  PROVE  OnceInv'
<1>1. CardInv'
  BY DEF OnceInv, CardInv, LoopMoves, world
<1>2. (Full \/ AllSeen)'
  BY DEF OnceInv, Full, AllSeen, OnCamera, LoopMoves, world
<1> QED
  BY <1>1, <1>2 DEF OnceInv

\* The loop's own steps, but for the three that hand over, are such moves.
LEMMA LoopSteps ==
  ASSUME MemoryInv,
         \/ Snapshot \/ ListFails \/ GiveUp \/ Polled
         \/ Tick \/ BackoffOver \/ Triggered \/ ApplyConfig \/ Return
         \/ TriggerNow \/ NotifyConfig \/ Cancel \/ (\E v \in BOOLEAN : SetEnabled(v))
         \/ UNCHANGED vars
  PROVE  LoopMoves
<1> USE DEF LoopMoves, world, cache, settings, vars
<1>1. loop \in Loop
  BY DEF MemoryInv, TypeOK
<1>2. CASE Snapshot \/ ListFails \/ GiveUp \/ Polled
  BY <1>1, <1>2 DEF Snapshot, ListFails, GiveUp, Polled, Loop
<1>3. CASE Tick \/ BackoffOver \/ Triggered \/ ApplyConfig \/ Return
  BY <1>1, <1>3 DEF Tick, BackoffOver, Triggered, ApplyConfig, Return, Loop
<1>4. CASE TriggerNow \/ NotifyConfig \/ Cancel \/ \E v \in BOOLEAN : SetEnabled(v)
  BY <1>4 DEF TriggerNow, NotifyConfig, Cancel, SetEnabled
<1>5. CASE UNCHANGED vars
  BY <1>5
<1> QED
  BY <1>2, <1>3, <1>4, <1>5

\* A listing tells every picture by the handle that it has.
LEMMA ListingStep ==
  ASSUME MemoryInv, OnceInv, ListImages
  PROVE  OnceInv'
<1>1. loop'.images = Listing /\ loop'.pc = "mark" /\ UNCHANGED <<world, seen, seenKeys, handed>>
  BY DEF ListImages, MemoryInv, TypeOK, Loop
<1>2. \A img \in Listing : /\ img.file \in taken
                           /\ \A u \in URLs : camera[u] = img.file => u = img.url
  BY NoFileAssumption DEF Listing, Image, OnceInv, CardInv
<1>3. CardInv'
  BY <1>1, <1>2 DEF OnceInv, CardInv, world
<1>4. (Full \/ AllSeen)'
  BY <1>1 DEF OnceInv, Full, AllSeen, OnCamera, world
<1> QED
  BY <1>3, <1>4 DEF OnceInv

\* What is remembered is not known yet: it was not handed over, is no longer
\* there, or fell out of a ring buffer that was full.
LEMMA MarkStep ==
  ASSUME MemoryInv, OnceInv, MarkImage
  PROVE  OnceInv'
<1>1. PICK img \in loop.images : SkipSeen(img) \/ Remember(img)
  BY DEF MarkImage
<1>2. UNCHANGED <<world, handed>> /\ loop \in Loop /\ loop.pc = "mark"
  BY DEF MarkImage, MemoryInv, TypeOK
<1>3. Rest(img) \in Loop /\ Rest(img).pc = "mark" /\ Rest(img).images \subseteq loop.images
  BY <1>2 DEF Rest, Loop
<1>4. CASE SkipSeen(img)
  BY <1>2, <1>3, <1>4, LoopMovesKeep DEF SkipSeen, LoopMoves
<1>5. CASE Remember(img)
  <2>1. loop'.images \subseteq loop.images /\ loop'.pc = "send" /\ loop'.file = img.file
    BY <1>3, <1>5 DEF Remember, Loop
  <2>2. CardInv'
    BY <1>1, <1>2, <2>1 DEF OnceInv, CardInv, world
  <2>3. CASE Len(seenKeys) < MaxSeenImages
    <3>1. AllSeen /\ seen' = seen \cup {img.url}
      BY <1>5, <2>3, MaxSeenAssumption DEF OnceInv, Full, Remember, Oldest
    <3>2. \A u \in URLs : camera[u] = img.file => u = img.url
      BY <1>1 DEF OnceInv, CardInv
    <3>3. img.file \in handed => ~OnCamera(img.file)
      BY <1>5, <3>1, <3>2 DEF AllSeen, OnCamera, Remember
    <3>4. AllSeen'
      BY <1>2, <2>1, <3>1, <3>2, <3>3 DEF AllSeen, OnCamera, world
    <3> QED
      BY <2>2, <3>4 DEF OnceInv
  <2>4. CASE ~(Len(seenKeys) < MaxSeenImages)
    <3>1. seenKeys \in Seq(URLs) /\ Len(seenKeys) = MaxSeenImages /\ img.url \in URLs
      BY <1>1, <2>4, MaxSeenAssumption DEF MemoryInv, TypeOK, Loop, Image
    <3>2. Oldest(img.url) # {} /\ seenKeys' = Tail(Append(seenKeys, img.url))
      BY <1>5, <2>4 DEF Remember, Oldest
    <3>3. Len(seenKeys') = Len(seenKeys)
      BY <3>1, <3>2
    <3> QED
      BY <2>2, <3>1, <3>3 DEF OnceInv, Full
  <2> QED
    BY <2>3, <2>4
<1> QED
  BY <1>1, <1>4, <1>5

LEMMA SendStep ==
  ASSUME MemoryInv, OnceInv, Send
  PROVE  OnceInv'
<1>1. /\ loop.pc = "send" /\ loop'.pc = "mark" /\ loop'.images = loop.images
      /\ handed' = handed \cup {loop.file} /\ UNCHANGED <<world, seen, seenKeys>>
  BY DEF Send, cache, MemoryInv, TypeOK, Loop
<1>2. CardInv'
  BY <1>1 DEF OnceInv, CardInv, world
<1>3. (Full \/ AllSeen)'
  BY <1>1 DEF OnceInv, Full, AllSeen, world
<1> QED
  BY <1>2, <1>3 DEF OnceInv

\* An object that goes gives its handle up for good; one that comes is new to
\* everybody; and what is evicted has gone.
LEMMA WorldStep ==
  ASSUME NoReuse, MemoryInv, OnceInv,
         \/ \E u \in URLs : DeleteObject(u) \/ EvictHandle(u)
         \/ \E f \in Files : TakePicture(f)
  PROVE  OnceInv'
<1>1. /\ camera \in [URLs -> Files \cup {NoFile}] /\ NoFile \notin Files
      /\ handed \subseteq Files /\ taken \subseteq Files
      /\ \A img \in loop.images : img.file \in Files
      /\ loop.pc = "send" => loop.file \in Files
  BY NoFileAssumption DEF MemoryInv, TypeOK, InHand, Loop, Image
<1>2. ASSUME NEW u \in URLs, DeleteObject(u) PROVE OnceInv'
  <2>1. /\ camera[u] \in Files /\ camera' = [camera EXCEPT ![u] = NoFile]
        /\ evicting' \subseteq evicting \cup {u}
        /\ UNCHANGED <<taken, seen, seenKeys, loop, handed>>
    BY <1>1, <1>2 DEF DeleteObject, cache
  <2>2. \A v \in URLs : camera'[v] = IF v = u THEN NoFile ELSE camera[v]
    BY <1>1, <2>1
  <2>3. \A f \in Files : u \in Handles[f] => f \in taken
    BY <1>1, <2>1 DEF NoReuse, OnceInv, CardInv
  <2>4. CardInv'
    BY <1>1, <2>1, <2>2, <2>3 DEF OnceInv, CardInv
  <2>5. (Full \/ AllSeen)'
    <3>1. CASE Full
      BY <2>1, <3>1 DEF Full
    <3>2. CASE AllSeen
      <4>1. \A v \in URLs, f \in Files : camera'[v] = f => camera[v] = f
        BY <1>1, <2>2
      <4>2. \A v \in URLs : camera'[v] \in handed => v \in seen
        BY <1>1, <2>2, <3>2 DEF AllSeen
      <4>3. loop.pc = "send" => /\ loop.file \in handed => ~OnCamera(loop.file)'
                               /\ \A v \in URLs : camera'[v] = loop.file => v \in seen
        <5> SUFFICES ASSUME loop.pc = "send", NEW v \in URLs, camera'[v] = loop.file
                     PROVE  loop.file \notin handed /\ v \in seen
          BY <2>1 DEF OnCamera
        <5>1. camera[v] = loop.file
          BY <1>1, <4>1
        <5>2. OnCamera(loop.file)
          BY <5>1 DEF OnCamera
        <5> QED
          BY <3>2, <5>1, <5>2 DEF AllSeen
      <4> QED
        BY <2>1, <4>2, <4>3 DEF AllSeen, OnCamera
    <3> QED
      BY <3>1, <3>2 DEF OnceInv
  <2> QED
    BY <2>4, <2>5 DEF OnceInv
<1>3. ASSUME NEW u \in URLs, EvictHandle(u) PROVE OnceInv'
  <2>1. /\ u \in evicting /\ evicting' = evicting \ {u} /\ seen' = seen \ {u}
        /\ UNCHANGED <<camera, taken, seenKeys, loop, handed>>
    BY <1>3 DEF EvictHandle
  <2>2. CardInv'
    BY <2>1 DEF OnceInv, CardInv
  <2>3. camera[u] = NoFile
    BY <2>1 DEF OnceInv, CardInv
  <2>4. (Full \/ AllSeen)'
    <3>1. CASE Full
      BY <2>1, <3>1 DEF Full
    <3>2. CASE AllSeen
      <4>1. \A v \in URLs : camera'[v] \in handed' => v \in seen'
        BY <1>1, <2>1, <2>3, <3>2 DEF AllSeen
      <4>2. loop.pc = "send" => \A v \in URLs : camera[v] = loop.file => v \in seen'
        BY <1>1, <2>1, <2>3, <3>2 DEF AllSeen
      <4> QED
        BY <2>1, <3>2, <4>1, <4>2 DEF AllSeen, OnCamera
    <3> QED
      BY <3>1, <3>2 DEF OnceInv
  <2> QED
    BY <2>2, <2>4 DEF OnceInv
<1>4. ASSUME NEW f \in Files, TakePicture(f) PROVE OnceInv'
  <2>1. PICK u \in Handles[f] : camera[u] = NoFile /\ camera' = [camera EXCEPT ![u] = f]
    BY <1>4 DEF TakePicture
  <2>2. /\ f \notin taken /\ taken' = taken \cup {f} /\ u \in URLs
        /\ UNCHANGED <<evicting, seen, seenKeys, loop, handed>>
    BY <1>4, HandlesAssumption DEF TakePicture, cache
  <2>3. \A v \in URLs : camera'[v] = IF v = u THEN f ELSE camera[v]
    BY <1>1, <2>1, <2>2
  <2>4. u \notin evicting
    BY <2>1, <2>2 DEF OnceInv, CardInv
  <2>5. CardInv'
    <3>1. \A v \in URLs : camera'[v] # NoFile => camera'[v] \in taken' /\ v \in Handles[camera'[v]]
      BY <2>1, <2>2, <2>3 DEF OnceInv, CardInv
    <3>2. \A v, w \in URLs : camera'[v] # NoFile /\ camera'[v] = camera'[w] => v = w
      BY <2>2, <2>3 DEF OnceInv, CardInv
    <3>3. \A v \in evicting' : /\ camera'[v] = NoFile
                              /\ \A g \in Files : v \in Handles[g] => g \in taken'
      BY <2>2, <2>3, <2>4 DEF OnceInv, CardInv, MemoryInv, TypeOK
    <3>4. \A img \in loop'.images : /\ img.file \in taken'
                                   /\ \A v \in URLs : camera'[v] = img.file => v = img.url
      BY <2>2, <2>3 DEF OnceInv, CardInv
    <3> QED
      BY <2>2, <3>1, <3>2, <3>3, <3>4 DEF OnceInv, CardInv
  <2>6. (Full \/ AllSeen)'
    <3>1. f \notin handed /\ (loop.pc = "send" => loop.file # f)
      BY <2>2 DEF OnceInv, CardInv
    <3> QED
      BY <2>2, <2>3, <3>1 DEF OnceInv, Full, AllSeen, OnCamera
  <2> QED
    BY <2>5, <2>6 DEF OnceInv
<1> QED
  BY <1>2, <1>3, <1>4

LEMMA OnceStep ==
  ASSUME NoReuse, MemoryInv, OnceInv, [Next]_vars
  PROVE  OnceInv'
<1>1. CASE ListImages \/ MarkImage \/ Send
  BY <1>1, ListingStep, MarkStep, SendStep
<1>2. CASE \/ \E u \in URLs : DeleteObject(u) \/ EvictHandle(u)
           \/ \E f \in Files : TakePicture(f)
  BY <1>2, WorldStep
<1>3. CASE /\ ~(ListImages \/ MarkImage \/ Send)
           /\ ~(\/ \E u \in URLs : DeleteObject(u) \/ EvictHandle(u)
                \/ \E f \in Files : TakePicture(f))
  BY <1>3, LoopSteps, LoopMovesKeep DEF Next, PollOnce
<1> QED
  BY <1>1, <1>2, <1>3

\* As long as no handle is given to two pictures, and however listings, answers,
\* deletions and evictions interleave, the poller hands no picture over a second
\* time before the ring buffer has been full, whatever its size
\* (poller.go:264-295).
THEOREM NothingTwice ==
  ASSUME NoReuse
  PROVE  Spec => HandedOnce
<1>1. ASSUME Init PROVE OnceInv
  BY <1>1, NoFileAssumption DEF Init, OnceInv, CardInv, AllSeen
<1>2. MemoryInv /\ OnceInv /\ [Next]_vars => OnceInv'
  BY OnceStep
<1>3. MemoryInv /\ OnceInv /\ [Next]_vars =>
        [loop.pc = "send" /\ loop'.pc = "mark" /\ loop.file \in handed /\ OnCamera(loop.file)
           => Len(seenKeys) = MaxSeenImages]_vars
  BY DEF OnceInv, AllSeen, Full
<1> QED
  BY <1>1, <1>2, <1>3, MemoryCorrect, PTL DEF Spec, HandedOnce
=============================================================================
