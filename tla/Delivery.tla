------------------------------ MODULE Delivery ------------------------------
(* What the proxy promises, without a queue, workers or a table: a picture    *)
(* leaves the card only once it is stored, and is reported done only once it  *)
(* is stored.  Reports may otherwise change at any time, for any pictures.    *)
CONSTANT Filenames

VARIABLES card,    \* the pictures on the card
          stored,  \* the pictures in the backend, whole and under their own name
          status   \* what the table says of each picture

dvars == <<card, stored, status>>

Reports == {"unknown", "discovered", "queued", "uploading", "done", "failed"}

TypeInvariant ==
  /\ card \subseteq Filenames
  /\ stored \subseteq Filenames
  /\ status \in [Filenames -> Reports]

Init ==
  /\ card \subseteq Filenames
  /\ stored = {}
  /\ status = [f \in Filenames |-> "unknown"]

Photograph(f) ==
  /\ f \notin card \cup stored
  /\ card' = card \cup {f}
  /\ UNCHANGED <<stored, status>>

Store(f) ==
  /\ f \in card
  /\ stored' = stored \cup {f}
  /\ UNCHANGED <<card, status>>

\* A picture once known is not forgotten, and done is reported of stored ones.
Report ==
  /\ status' \in [Filenames -> Reports]
  /\ \A f \in Filenames :
       /\ status[f] # "unknown" => status'[f] # "unknown"
       /\ status'[f] = "done" => status[f] = "done" \/ f \in stored
  /\ UNCHANGED <<card, stored>>

Remove(f) ==
  /\ f \in stored
  /\ card' = card \ {f}
  /\ UNCHANGED <<stored, status>>

Next == Report \/ \E f \in Filenames : Photograph(f) \/ Store(f) \/ Remove(f)

Spec == Init /\ [][Next]_dvars

\* Done means stored.
DoneIsStored == \A f \in Filenames : status[f] = "done" => f \in stored

\* A picture that leaves the card is stored, and what is stored stays stored.
NothingIsLost == [][card \subseteq card' \cup stored' /\ stored \subseteq stored']_dvars
=============================================================================
