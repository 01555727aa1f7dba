--------------------------- MODULE MCUploadQueue ---------------------------
(* Small instances of UploadQueue for TLC.                                   *)
EXTENDS UploadQueueDelivery, TLC

CONSTANTS A, B, u1, u2

\* The camera never gives the handle of one file to another.
OneHandleEach == [f \in Filenames |-> IF f = A THEN {u1} ELSE {u2}]

\* B may get the handle that A had.
SharedHandles == [f \in Filenames |-> IF f = A THEN {u1, u2} ELSE {u1}]

AnyHandle == [f \in Filenames |-> URLs]

WorkerSymmetry == Permutations(Workers)
=============================================================================
