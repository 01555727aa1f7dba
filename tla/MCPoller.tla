------------------------------- MODULE MCPoller -------------------------------
(* Small instances of Poller for TLC.                                        *)
EXTENDS Poller

CONSTANTS A, B, C, u1, u2, u3

\* A and C share a handle: the camera gives it to one once the other is deleted.
ReusedHandle == [f \in Files |-> IF f = B THEN {u2} ELSE {u1}]

OneHandleEach == [f \in Files |-> IF f = A THEN {u1} ELSE IF f = B THEN {u2} ELSE {u3}]
=============================================================================
