------------------------------ MODULE ThumbCache ------------------------------
(* The thumbnail cache of internal/web/cache.go and the requests that fill it *)
(* (serveThumb in server.go), against a camera whose objects come and go, that *)
(* gives a free handle to whatever comes next, and against rows that discovery *)
(* binds to new URLs.  The cache is keyed by filename; a thumbnail is the      *)
(* picture it shows.                                                          *)
EXTENDS Naturals, FiniteSets

CONSTANTS Pictures,      \* pictures that are taken at some time
          Names,         \* filenames
          NameOf,        \* picture -> its filename
          ThumbURLs,     \* object handles
          Requests,      \* requests for thumbnails served at once
          CacheSize,     \* thumbCacheMaxSize: 512
          NoThumb, NoURL, NoName

ASSUME CacheSizeAssumption == CacheSize \in Nat \ {0}
ASSUME ThumbNamesAssumption ==
  /\ NameOf \in [Pictures -> Names]
  /\ NoThumb \notin Pictures /\ NoURL \notin ThumbURLs /\ NoName \notin Names

VARIABLES
  entries,  \* boundedCache.entries, without those that are not there
  rowURL,   \* the table: filename -> URL
  objects,  \* the card: handle -> picture
  borne,    \* ghost: handle -> the <<m, n>> where n is the last of the names it
            \* has borne, at some time, and m that or an earlier one
  request   \* request -> where serveThumb is

thumbVars == <<entries, rowURL, objects, borne, request>>

Request == [pc : {"idle", "lookup", "fetch", "store"}, name : Names \cup {NoName},
            url : ThumbURLs \cup {NoURL}, data : Pictures \cup {NoThumb}]

NotServed == [pc |-> "idle", name |-> NoName, url |-> NoURL, data |-> NoThumb]

Cached == {n \in Names : entries[n] # NoThumb}

\* The cache and its users have their types, and the cache never outgrows its
\* limit, also when several requests miss at once (cache.go:27-38).
CacheBounded ==
  /\ entries \in [Names -> Pictures \cup {NoThumb}]
  /\ rowURL \in [Names -> ThumbURLs \cup {NoURL}]
  /\ objects \in [ThumbURLs -> Pictures \cup {NoThumb}]
  /\ borne \in [ThumbURLs -> SUBSET (Names \X Names)]
  /\ request \in [Requests -> Request]
  /\ Cardinality(Cached) <= CacheSize

Fetching(r, pc) == request[r].pc = pc

ThumbInit ==
  /\ entries = [n \in Names |-> NoThumb]
  /\ rowURL = [n \in Names |-> NoURL]
  /\ objects = [u \in ThumbURLs |-> NoThumb]
  /\ borne = [u \in ThumbURLs |-> {}]
  /\ request = [r \in Requests |-> NotServed]

-----------------------------------------------------------------------------
(* serveThumb.                                                               *)

\* A hit is answered at once; a miss goes on.
Load(r) ==
  /\ Fetching(r, "idle")
  /\ \E n \in Names \ Cached :
       request' = [request EXCEPT ![r].pc = "lookup", ![r].name = n]
  /\ UNCHANGED <<entries, rowURL, objects, borne>>

\* A name without a row is answered with 404.
LookupURL(r) ==
  /\ Fetching(r, "lookup")
  /\ LET url == rowURL[request[r].name]
     IN request' = IF url = NoURL THEN [request EXCEPT ![r] = NotServed]
                   ELSE [request EXCEPT ![r].pc = "fetch", ![r].url = url]
  /\ UNCHANGED <<entries, rowURL, objects, borne>>

\* GetThumb returns whatever object has the handle now, or fails.
GetThumb(r) ==
  /\ Fetching(r, "fetch")
  /\ LET thumb == objects[request[r].url]
     IN \/ request' = [request EXCEPT ![r] = NotServed]
        \/ /\ thumb # NoThumb
           /\ request' = [request EXCEPT ![r].pc = "store", ![r].url = NoURL, ![r].data = thumb]
  /\ UNCHANGED <<entries, rowURL, objects, borne>>

\* Faulty variant of Evicted: the limit is compared one too late.
EvictedLate(name) ==
  IF entries[name] = NoThumb /\ Cardinality(Cached) > CacheSize THEN {{n} : n \in Cached} ELSE {{}}

\* What Store may evict before it adds name: an arbitrary entry, when name is
\* new and the cache is full.
Evicted(name) ==
  IF entries[name] = NoThumb /\ Cardinality(Cached) >= CacheSize THEN {{n} : n \in Cached} ELSE {{}}

\* boundedCache.Store, under its lock; the thumbnail is then sent.
StoreThumb(r) ==
  /\ Fetching(r, "store")
  /\ \E gone \in Evicted(request[r].name) :
       entries' = [n \in Names |-> IF n = request[r].name THEN request[r].data
                                   ELSE IF n \in gone THEN NoThumb ELSE entries[n]]
  /\ request' = [request EXCEPT ![r] = NotServed]
  /\ UNCHANGED <<rowURL, objects, borne>>

ServeThumb(r) == Load(r) \/ LookupURL(r) \/ GetThumb(r) \/ StoreThumb(r)

-----------------------------------------------------------------------------
(* The camera and the table.                                                 *)

NamesOf(u) == {n \in Names : <<n, n>> \in borne[u]}

\* Any free handle will do, also that of a deleted picture of another name.
TakeShot(p) ==
  /\ \A u \in ThumbURLs : objects[u] # p
  /\ \E u \in ThumbURLs :
       /\ objects[u] = NoThumb
       /\ objects' = [objects EXCEPT ![u] = p]
       /\ borne' = [borne EXCEPT ![u] = @ \cup ((NamesOf(u) \cup {NameOf[p]}) \X {NameOf[p]})]
  /\ UNCHANGED <<entries, rowURL, request>>

RemoveShot(u) ==
  /\ objects[u] # NoThumb
  /\ objects' = [objects EXCEPT ![u] = NoThumb]
  /\ UNCHANGED <<entries, rowURL, borne, request>>

\* Faulty variant of BindRow: name and handle come from different pictures.
BindAnyRow(u, name) ==
  /\ rowURL[name] = NoURL \/ \A n \in Names : rowURL[n] # u
  /\ rowURL' = [n \in Names |-> IF n = name THEN u
                                ELSE IF rowURL[n] = u THEN NoURL ELSE rowURL[n]]
  /\ UNCHANGED <<entries, objects, borne, request>>

\* FindOrCreate for an object listed under u as name, now or in an earlier
\* listing: the name's row is inserted or gets the new URL; a row that has the
\* URL already under another name is renamed, unless the name has a row too.
BindRow(u, name) ==
  /\ name \in NamesOf(u)
  /\ rowURL[name] = NoURL \/ \A n \in Names : rowURL[n] # u
  /\ rowURL' = [n \in Names |-> IF n = name THEN u
                                ELSE IF rowURL[n] = u THEN NoURL ELSE rowURL[n]]
  /\ UNCHANGED <<entries, objects, borne, request>>

ThumbNext ==
  \/ \E r \in Requests : Load(r) \/ LookupURL(r) \/ GetThumb(r) \/ StoreThumb(r)
  \/ \E p \in Pictures : TakeShot(p)
  \/ \E u \in ThumbURLs : RemoveShot(u) \/ \E n \in Names : BindRow(u, n)

ThumbSpec == ThumbInit /\ [][ThumbNext]_thumbVars

-----------------------------------------------------------------------------
(* Properties.                                                               *)

\* p bears the name, or got a handle of that name's after it.
Follows(p, name) == \E u \in ThumbURLs : <<name, NameOf[p]>> \in borne[u]

\* The thumbnail kept under a name is of a picture of that name, or of one that
\* took over a handle of that name's later: a name whose row is out of date can
\* show what its handle holds now, but a picture never what its handle held
\* before, whatever happens to the row, the object and the cache between the
\* miss, the fetch and the store (server.go:477-512), and whatever other
\* requests fetch meanwhile.
ThumbIsOfName ==
  /\ \A n \in Cached : Follows(entries[n], n)
  /\ \A r \in Requests : request[r].data # NoThumb => Follows(request[r].data, request[r].name)
=============================================================================
