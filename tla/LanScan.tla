------------------------------- MODULE LanScan -------------------------------
(* The search for cameras on the local network (internal/canon/discover.go,   *)
(* handleCameraScan in internal/web/server.go): candidates from the ARP cache *)
(* are probed one after the other; if none answers, every address is probed   *)
(* by a goroutine of its own, a bounded number at a time, until all are done  *)
(* or the context of the request is.                                          *)
EXTENDS Naturals, FiniteSets

CONSTANTS Addresses,   \* the hosts of the local subnets
          Candidates,  \* addresses in the ARP cache with a Canon prefix
          Workers      \* probes at a time: 64

ASSUME AddressesAssumption == IsFiniteSet(Addresses) /\ Candidates \subseteq Addresses
ASSUME WorkersAssumption == Workers \in Nat \ {0}

VARIABLES
  scanner,   \* where discoverTCP is
  todo,      \* addresses that its current loop has still to reach
  next,      \* the address that waits for a place, as a set
  places,    \* taken places of sem
  wg,        \* counter of the WaitGroup
  probe,     \* address -> where its goroutine is
  results,   \* the cameras found, then returned
  cancelled, \* the context is done: twenty seconds have passed, or nobody waits
  answered   \* ghost: addresses whose probe was answered, in this phase

lanVars == <<scanner, todo, next, places, wg, probe, results, cancelled, answered>>

ProbeStates == {"none", "dial", "append", "release", "done", "gone"}

At(states) == {a \in Addresses : probe[a] \in states}
Placed == At({"dial", "append", "release"})
Alive == At({"dial", "append", "release", "done"})

\* Everything has its type; places and wg count what they stand for, and no more
\* than Workers probes are under way (discover.go:117, 128-132).
LanTypeOK ==
  /\ scanner \in {"idle", "arp", "loop", "place", "wait", "returned", "failed"}
  /\ todo \subseteq Addresses /\ next \subseteq Addresses
  /\ probe \in [Addresses -> ProbeStates]
  /\ results \subseteq Addresses /\ answered \subseteq Addresses
  /\ cancelled \in BOOLEAN
  /\ places = Cardinality(Placed) /\ places <= Workers
  /\ wg = Cardinality(Alive) + Cardinality(next)

LanInit ==
  /\ scanner = "idle"
  /\ todo = {} /\ next = {}
  /\ places = 0 /\ wg = 0
  /\ probe = [a \in Addresses |-> "none"]
  /\ results = {} /\ answered = {}
  /\ cancelled = FALSE

-----------------------------------------------------------------------------
(* discoverTCP.                                                              *)

StartScan ==
  /\ scanner = "idle"
  /\ scanner' = "arp" /\ todo' = Candidates
  /\ UNCHANGED <<next, places, wg, probe, results, cancelled, answered>>

\* A candidate is dialled for 800 ms at most; a dial whose context is done fails,
\* unless it has just succeeded.
ProbeCandidate(a) ==
  /\ scanner = "arp" /\ a \in todo
  /\ todo' = todo \ {a}
  /\ \/ results' = results \cup {a} /\ answered' = answered \cup {a}
     \/ UNCHANGED <<results, answered>>
  /\ UNCHANGED <<scanner, next, places, wg, probe, cancelled>>

\* Cameras among the candidates are the answer; else the slow path begins.
EndARP ==
  /\ scanner = "arp" /\ todo = {}
  /\ IF results # {} THEN scanner' = "returned" /\ UNCHANGED <<todo, answered>>
     ELSE scanner' = "loop" /\ todo' = Addresses /\ answered' = {}
  /\ UNCHANGED <<next, places, wg, probe, results, cancelled>>

\* The network interfaces cannot be read: the slow path ends before it begins.
SubnetsUnknown ==
  /\ scanner = "arp" /\ todo = {} /\ results = {}
  /\ scanner' = "failed"
  /\ UNCHANGED <<todo, next, places, wg, probe, results, cancelled, answered>>

\* Faulty variant of NextAddress: the goroutine itself is to call wg.Add.
NextUncounted(a) ==
  /\ scanner = "loop" /\ ~cancelled /\ a \in todo
  /\ scanner' = "place"
  /\ todo' = todo \ {a} /\ next' = {a}
  /\ UNCHANGED <<places, wg, probe, results, cancelled, answered>>

\* One round of the loop: wg.Add comes before the wait for a place.
NextAddress(a) ==
  /\ scanner = "loop" /\ ~cancelled /\ a \in todo
  /\ scanner' = "place"
  /\ todo' = todo \ {a} /\ next' = {a}
  /\ wg' = wg + 1
  /\ UNCHANGED <<places, probe, results, cancelled, answered>>

EndLoop ==
  /\ scanner = "loop" /\ (cancelled \/ todo = {})
  /\ scanner' = "wait"
  /\ UNCHANGED <<todo, next, places, wg, probe, results, cancelled, answered>>

\* Faulty variant of TakePlace: one goroutine too many is let in.
TakePlaceLate(a) ==
  /\ scanner = "place" /\ next = {a}
  /\ places <= Workers
  /\ scanner' = "loop"
  /\ next' = {} /\ places' = places + 1
  /\ probe' = [probe EXCEPT ![a] = "dial"]
  /\ UNCHANGED <<todo, wg, results, cancelled, answered>>

\* sem has room: the goroutine starts.
TakePlace(a) ==
  /\ scanner = "place" /\ next = {a}
  /\ places < Workers
  /\ scanner' = "loop"
  /\ next' = {} /\ places' = places + 1
  /\ probe' = [probe EXCEPT ![a] = "dial"]
  /\ UNCHANGED <<todo, wg, results, cancelled, answered>>

WaitReturns ==
  /\ scanner = "wait" /\ wg = 0
  /\ scanner' = "returned"
  /\ UNCHANGED <<todo, next, places, wg, probe, results, cancelled, answered>>

Discover ==
  \/ \E a \in Addresses : ProbeCandidate(a) \/ NextAddress(a) \/ TakePlace(a)
  \/ EndARP \/ SubnetsUnknown \/ EndLoop \/ WaitReturns

-----------------------------------------------------------------------------
(* The goroutine of an address.                                              *)

Dial(a) ==
  /\ probe[a] = "dial"
  /\ \/ probe' = [probe EXCEPT ![a] = "append"] /\ answered' = answered \cup {a}
     \/ probe' = [probe EXCEPT ![a] = "release"] /\ UNCHANGED answered
  /\ UNCHANGED <<scanner, todo, next, places, wg, results, cancelled>>

AppendResult(a) ==
  /\ probe[a] = "append"
  /\ results' = results \cup {a}
  /\ probe' = [probe EXCEPT ![a] = "release"]
  /\ UNCHANGED <<scanner, todo, next, places, wg, cancelled, answered>>

\* Faulty variant of ReleasePlace: a goroutine ends without giving its place back
\* when its probe was not answered.
ReleaseIfFound(a) ==
  /\ probe[a] = "release"
  /\ places' = IF a \in results THEN places - 1 ELSE places
  /\ probe' = [probe EXCEPT ![a] = "done"]
  /\ UNCHANGED <<scanner, todo, next, wg, results, cancelled, answered>>

\* The deferred calls: the place first, then wg.Done.
ReleasePlace(a) ==
  /\ probe[a] = "release"
  /\ places' = places - 1
  /\ probe' = [probe EXCEPT ![a] = "done"]
  /\ UNCHANGED <<scanner, todo, next, wg, results, cancelled, answered>>

Done(a) ==
  /\ probe[a] = "done"
  /\ wg' = wg - 1
  /\ probe' = [probe EXCEPT ![a] = "gone"]
  /\ UNCHANGED <<scanner, todo, next, places, results, cancelled, answered>>

Goroutine(a) == Dial(a) \/ AppendResult(a) \/ ReleasePlace(a) \/ Done(a)

Cancel ==
  /\ ~cancelled
  /\ cancelled' = TRUE
  /\ UNCHANGED <<scanner, todo, next, places, wg, probe, results, answered>>

LanNext ==
  \/ StartScan \/ EndARP \/ SubnetsUnknown \/ EndLoop \/ WaitReturns \/ Cancel
  \/ \E a \in Addresses : \/ ProbeCandidate(a) \/ NextAddress(a) \/ TakePlace(a)
                          \/ Dial(a) \/ AppendResult(a) \/ ReleasePlace(a) \/ Done(a)

LanSpec == /\ LanInit /\ [][LanNext]_lanVars
           /\ WF_lanVars(Discover) /\ \A a \in Addresses : WF_lanVars(Goroutine(a))

-----------------------------------------------------------------------------
(* Properties.                                                               *)

\* The scan returns every camera that answered, and leaves no probe behind that
\* could still add one, whenever the context is cancelled; and if it was not,
\* every address has been probed, or the fast path has found cameras among the
\* candidates (discover.go:95-141).  A scan that fails has found nothing.
NothingLost ==
  /\ scanner = "returned" =>
       /\ results = answered
       /\ Alive = {}
       /\ \/ cancelled
          \/ At({"gone"}) = Addresses
          \/ At({"none"}) = Addresses /\ results # {} /\ results \subseteq Candidates
  /\ scanner = "failed" => answered = {} /\ Alive = {}

\* A scan comes to an end, so that the response is sent (server.go:756), although
\* addresses wait for places that only goroutines of the same scan give back.
ScanReturns == scanner = "arp" ~> scanner \in {"returned", "failed"}
=============================================================================
