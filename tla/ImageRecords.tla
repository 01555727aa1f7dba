---------------------------- MODULE ImageRecords ----------------------------
(* The image table of internal/db/image.go: one row per filename, at most one *)
(* row per URL (both columns carry a unique index).  Every operator is one    *)
(* SQL statement, so callers may interleave between two of them but never     *)
(* inside one.  The columns kept are those that decide what the pipeline does *)
(* next: url, status, retry_count and whether next_retry_at has been reached. *)
EXTENDS Naturals

CONSTANTS Filenames, URLs,
          MaxRetries,   \* maxRetries of pipeline.go
          NoRow         \* marks a filename that has no row

ASSUME MaxRetriesAssumption == MaxRetries \in Nat
Status == {"discovered", "queued", "uploading", "done", "failed"}

\* due: next_retry_at is NULL or in the past.
ImageRecord == [url : URLs, status : Status, retry : 0 .. MaxRetries, due : BOOLEAN]

ASSUME NoRowAssumption == NoRow \notin ImageRecord

Table == [Filenames -> ImageRecord \cup {NoRow}]

\* A file on the camera, as pollers, queues and workers pass it around.
Image == [file : Filenames, url : URLs]

EmptyTable == [f \in Filenames |-> NoRow]

Recorded(db) == {f \in Filenames : db[f] # NoRow}

WhereURL(db, u) == {f \in Recorded(db) : db[f].url = u}

WhereStatus(db, s) == {f \in Recorded(db) : db[f].status = s}

ToImages(db, files) == {[file |-> f, url |-> db[f].url] : f \in files}

-----------------------------------------------------------------------------
(* Queries.                                                                  *)

ListFreshQueued(db) ==
  ToImages(db, {f \in WhereStatus(db, "queued") : db[f].retry = 0})

ListReadyToRetry(db) ==
  ToImages(db, {f \in WhereStatus(db, "queued") : db[f].retry > 0 /\ db[f].due})

DiscoveredByFilenames(db, files) == ToImages(db, WhereStatus(db, "discovered") \cap files)

-----------------------------------------------------------------------------
(* Updates.  An update whose WHERE clause matches nothing changes nothing.   *)

\* done and failed clear next_retry_at; every other status leaves it alone.
SetStatus(db, u, s) ==
  [f \in Filenames |->
     IF f \in WhereURL(db, u)
     THEN [db[f] EXCEPT !.status = s,
                        !.due = IF s \in {"done", "failed"} THEN TRUE ELSE @]
     ELSE db[f]]

SetRetryQueued(db, u, attempt) ==
  [f \in Filenames |->
     IF f \in WhereURL(db, u)
     THEN [db[f] EXCEPT !.status = "queued", !.retry = attempt, !.due = FALSE]
     ELSE db[f]]

\* Only rows still discovered are queued; next_retry_at is not written.
QueueDiscovered(db, files) ==
  [f \in Filenames |->
     IF f \in WhereStatus(db, "discovered") \cap files
     THEN [db[f] EXCEPT !.status = "queued", !.retry = 0]
     ELSE db[f]]

MarkQueuedWithMeta(db, us) == QueueDiscovered(db, UNION {WhereURL(db, u) : u \in us})

MarkAllDiscoveredQueued(db) == QueueDiscovered(db, Filenames)

ResetQueued(db) ==
  [f \in Filenames |->
     IF f \in WhereStatus(db, "queued")
     THEN [db[f] EXCEPT !.status = "discovered", !.retry = 0, !.due = TRUE]
     ELSE db[f]]

\* retry_count and next_retry_at survive the restart.
ResetStuckUploading(db) ==
  [f \in Filenames |->
     IF f \in WhereStatus(db, "uploading")
     THEN [db[f] EXCEPT !.status = "queued"]
     ELSE db[f]]

ResetFailed(db) ==
  [f \in Filenames |->
     IF f \in WhereStatus(db, "failed")
     THEN [db[f] EXCEPT !.status = "queued", !.retry = 0, !.due = TRUE]
     ELSE db[f]]

-----------------------------------------------------------------------------
(* FindOrCreate: a lookup that decides what to do, then a separate write.    *)

NewRecord(u) == [url |-> u, status |-> "discovered", retry |-> 0, due |-> TRUE]

\* Faulty variant of Lookup: the filename is looked up before the URL.
LookupByFilename(db, img) ==
  CASE db[img.file] # NoRow /\ db[img.file].url # img.url -> "rebind"
    [] db[img.file] # NoRow /\ db[img.file].url = img.url -> "known"
    [] db[img.file] = NoRow /\ WhereURL(db, img.url) = {} -> "insert"
    [] db[img.file] = NoRow /\ WhereURL(db, img.url) # {} -> "known"

\* What the lookup decides for image img.
Lookup(db, img) ==
  LET match == WhereURL(db, img.url)
      reused == {f \in match : db[f].status \in {"done", "failed"} /\ f # img.file}
  IN  CASE match = {} /\ db[img.file] # NoRow -> "rebind"
        [] match = {} /\ db[img.file] = NoRow -> "insert"
        [] match # {} /\ reused # {}          -> "reuse"
        [] match # {} /\ reused = {}          -> "known"

\* The filename is known under another URL: only the URL is updated.
Rebind(db, img) == [db EXCEPT ![img.file].url = img.url]

Insert(db, img) == [db EXCEPT ![img.file] = NewRecord(img.url)]

\* The row of a done or failed image whose handle the camera gave to another
\* file becomes the row of that file; the unique filename can refuse it.
CanReuse(db, img) == db[img.file] = NoRow

Reuse(db, img) ==
  [f \in Filenames |->
     CASE f = img.file                                -> NewRecord(img.url)
       [] f # img.file /\ f \in WhereURL(db, img.url) -> NoRow
       [] OTHER                                       -> db[f]]
=============================================================================
