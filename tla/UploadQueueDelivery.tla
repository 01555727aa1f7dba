------------------------- MODULE UploadQueueDelivery -------------------------
(* The upload queue implements Delivery, as long as handles identify files    *)
(* and a failed upload leaves nothing behind.                                 *)
EXTENDS UploadQueue

Stored == {f \in Filenames : backend[f] = f}

Report(f) == IF db[f] = NoRow THEN "unknown" ELSE db[f].status

Abstract == INSTANCE Delivery WITH card <- OnCamera(camera),
                                   stored <- Stored,
                                   status <- [f \in Filenames |-> Report(f)]

\* Every behaviour of the queue is one that Delivery allows: what the web page
\* calls done is in the backend, and what left the card is too.
ImplementsDelivery == Abstract!Spec
=============================================================================
