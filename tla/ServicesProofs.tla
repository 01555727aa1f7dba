---------------------------- MODULE ServicesProofs ----------------------------
(* Theorems about four parts beside the pipeline, LanScan, Settings, LogStream *)
(* and ThumbCache: for every set of addresses, requests, viewers and names,    *)
(* whatever the bounds on probes, lines, channels and the cache.               *)
EXTENDS LanScan, Settings, LogStream, ThumbCache, FiniteSetTheorems, SequenceTheorems, TLAPS

-----------------------------------------------------------------------------
(* LanScan: where the goroutines are, and what is counted.                   *)

Types ==
  /\ scanner \in {"idle", "arp", "loop", "place", "wait", "returned", "failed"}
  /\ todo \subseteq Addresses /\ next \subseteq Addresses
  /\ probe \in [Addresses -> ProbeStates]
  /\ results \subseteq Addresses /\ answered \subseteq Addresses
  /\ cancelled \in BOOLEAN

Counts ==
  /\ places = Cardinality(Placed) /\ places <= Workers
  /\ wg = Cardinality(Alive) + Cardinality(next)

\* Where the scan stands says which addresses have a goroutine.
Phases ==
  /\ scanner = "place" => \E a \in Addresses : next = {a}
  /\ scanner # "place" => next = {}
  /\ todo \cap next = {}
  /\ scanner \in {"idle", "arp"} => At({"none"}) = Addresses
  /\ scanner = "arp" => todo \subseteq Candidates /\ results \subseteq Candidates
  /\ scanner = "idle" => results = {}
  /\ scanner \in {"loop", "place"} => At({"none"}) = todo \cup next
  /\ scanner = "wait" => cancelled \/ At({"none"}) = {}

\* Nothing is answered and then dropped.
Kept == answered = results \cup At({"append"})

ScanInv == Types /\ Counts /\ Phases /\ Kept /\ NothingLost

USE DEF ProbeStates

-----------------------------------------------------------------------------
(* What the steps of the goroutines do to the sets that are counted.         *)

LEMMA FiniteParts ==
  ASSUME NEW S, S \subseteq Addresses
  PROVE  IsFiniteSet(S) /\ Cardinality(S) \in Nat
BY FS_Subset, FS_CardinalityType, AddressesAssumption

LEMMA AtSubset == \A states : At(states) \subseteq Addresses
BY DEF At

\* One goroutine changes its state.
LEMMA Moves ==
  ASSUME Types, NEW a \in Addresses, NEW st \in ProbeStates,
         probe' = [probe EXCEPT ![a] = st], NEW states
  PROVE  At(states)' = IF st \in states THEN At(states) \cup {a} ELSE At(states) \ {a}
BY DEF At, Types

\* No goroutine does.
LEMMA Still ==
  ASSUME UNCHANGED probe, NEW states
  PROVE  At(states)' = At(states)
BY DEF At

LEMMA InitScan == LanInit => ScanInv
<1> SUFFICES ASSUME LanInit PROVE ScanInv
  OBVIOUS
<1>1. Types
  BY DEF LanInit, Types
<1>2. At({"none"}) = Addresses /\ At({"append"}) = {} /\ Placed = {} /\ Alive = {}
  BY DEF LanInit, At, Placed, Alive
<1>3. Counts
  BY <1>2, FS_EmptySet, WorkersAssumption DEF LanInit, Counts
<1> QED
  BY <1>1, <1>2, <1>3 DEF LanInit, ScanInv, Phases, Kept, NothingLost

\* The steps in which no goroutine takes part.
LEMMA ScannerStep ==
  ASSUME ScanInv,
         \/ StartScan \/ EndARP \/ SubnetsUnknown \/ EndLoop \/ WaitReturns \/ Cancel
         \/ \E a \in Addresses : ProbeCandidate(a) \/ NextAddress(a)
  PROVE  ScanInv'
<1> USE AtSubset DEF ScanInv
<1>1. UNCHANGED probe
  BY DEF StartScan, EndARP, SubnetsUnknown, EndLoop, WaitReturns, Cancel, ProbeCandidate,
         NextAddress
<1>2. /\ \A states : At(states)' = At(states)
      /\ Placed' = Placed /\ Alive' = Alive
  BY <1>1, Still DEF Placed, Alive
<1>3. CASE StartScan
  BY <1>2, <1>3, AddressesAssumption
  DEF StartScan, Types, Counts, Phases, Kept, NothingLost
<1>4. CASE EndARP
  <2>1. At({"append"}) = {} /\ Alive = {}
    BY <1>4 DEF EndARP, Phases, At, Alive
  <2>2. Types' /\ Counts' /\ Kept'
    BY <1>2, <1>4, <2>1 DEF EndARP, Types, Counts, Kept
  <2>3. Phases' /\ NothingLost'
    BY <1>2, <1>4, <2>1 DEF EndARP, Phases, NothingLost, Kept, Types
  <2> QED
    BY <2>2, <2>3
<1>5. CASE EndLoop \/ SubnetsUnknown
  <2>1. SubnetsUnknown => At({"append"}) = {} /\ Alive = {}
    BY DEF SubnetsUnknown, Phases, At, Alive
  <2> QED
    BY <1>2, <1>5, <2>1 DEF SubnetsUnknown, EndLoop, Types, Counts, Phases, Kept, NothingLost
<1>6. CASE WaitReturns
  <2>1. next = {} /\ Cardinality(next) = 0
    BY <1>6, FS_EmptySet DEF WaitReturns, Phases
  <2>2. IsFiniteSet(Alive) /\ Cardinality(Alive) \in Nat
    BY FiniteParts DEF Alive
  <2>3. Alive = {}
    BY <1>6, <2>1, <2>2, FS_EmptySet DEF WaitReturns, Counts
  <2>4. At({"append"}) = {}
    BY <2>3 DEF At, Alive
  <2>5. cancelled \/ At({"gone"}) = Addresses
    BY <1>6, <2>3 DEF WaitReturns, Phases, At, Alive, Types
  <2> QED
    BY <1>2, <1>6, <2>3, <2>4, <2>5 DEF WaitReturns, Types, Counts, Phases, Kept, NothingLost
<1>7. CASE Cancel
  BY <1>2, <1>7 DEF Cancel, Types, Counts, Phases, Kept, NothingLost
<1>8. ASSUME NEW a \in Addresses, ProbeCandidate(a)
      PROVE  ScanInv'
  <2>1. At({"append"}) = {}
    BY <1>8 DEF ProbeCandidate, Phases, At
  <2>2. a \in Candidates
    BY <1>8 DEF ProbeCandidate, Phases
  <2> QED
    BY <1>2, <1>8, <2>1, <2>2 DEF ProbeCandidate, Types, Counts, Phases, Kept, NothingLost
<1>9. ASSUME NEW a \in Addresses, NextAddress(a)
      PROVE  ScanInv'
  <2>1. Types' /\ Phases' /\ Kept' /\ NothingLost'
    BY <1>2, <1>9 DEF NextAddress, Types, Phases, Kept, NothingLost
  <2>2. Cardinality(next) = 0 /\ Cardinality(next') = 1
    BY <1>9, FS_EmptySet, FS_Singleton DEF NextAddress, Phases
  <2>3. Cardinality(Alive) \in Nat
    BY FiniteParts DEF Alive
  <2>4. Counts'
    BY <1>2, <1>9, <2>2, <2>3 DEF NextAddress, Counts
  <2> QED
    BY <2>1, <2>4
<1> QED
  BY <1>3, <1>4, <1>5, <1>6, <1>7, <1>8, <1>9

\* A goroutine starts in the place that was waited for.
LEMMA TakePlaceStep ==
  ASSUME ScanInv, NEW a \in Addresses, TakePlace(a)
  PROVE  ScanInv'
<1> USE AtSubset DEF ScanInv
<1>1. /\ \A states : At(states)' = IF "dial" \in states THEN At(states) \cup {a}
                                   ELSE At(states) \ {a}
      /\ a \in At({"none"})
  BY Moves DEF TakePlace, Phases
<1>2. /\ a \notin Placed /\ a \notin Alive
      /\ Placed' = Placed \cup {a} /\ Alive' = Alive \cup {a}
  BY <1>1 DEF Placed, Alive, At
<1>3. Types'
  BY DEF TakePlace, Types
<1>4. Counts'
  <2>1. /\ Cardinality(Placed') = Cardinality(Placed) + 1
        /\ Cardinality(Alive') = Cardinality(Alive) + 1
        /\ Cardinality(Placed) \in Nat /\ Cardinality(Alive) \in Nat
    BY <1>2, FiniteParts, FS_AddElement DEF Placed, Alive
  <2>2. Cardinality(next) = 1 /\ Cardinality(next') = 0
    BY FS_EmptySet, FS_Singleton DEF TakePlace
  <2> QED
    BY <2>1, <2>2, WorkersAssumption DEF TakePlace, Counts
<1>5. Phases'
  BY <1>1 DEF TakePlace, Phases
<1>6. Kept' /\ NothingLost'
  BY <1>1 DEF TakePlace, Phases, Kept, NothingLost, At
<1> QED
  BY <1>3, <1>4, <1>5, <1>6

\* A goroutine at work: the scan has not returned, and the address is not one
\* that has none.
LEMMA AtWork ==
  ASSUME ScanInv, NEW a \in Addresses, probe[a] \in {"dial", "append", "release", "done"}
  PROVE  scanner \notin {"idle", "arp", "returned", "failed"} /\ a \in Alive /\ a \notin At({"none"})
BY DEF ScanInv, Types, Phases, NothingLost, Alive, At

\* A step inside a goroutine leaves the counted sets alone.
LEMMA DialStep ==
  ASSUME ScanInv, NEW a \in Addresses, Dial(a) \/ AppendResult(a)
  PROVE  ScanInv'
<1> USE AtSubset DEF ScanInv
<1>1. PICK st \in {"append", "release"} : probe' = [probe EXCEPT ![a] = st]
  BY DEF Dial, AppendResult
<1>2. \A states : At(states)' = IF st \in states THEN At(states) \cup {a} ELSE At(states) \ {a}
  <2>1. st \in ProbeStates /\ Types
    OBVIOUS
  <2> QED
    BY <1>1, <2>1, Moves
<1>3. probe[a] \in {"dial", "append"}
  BY DEF Dial, AppendResult
<1>4. Placed' = Placed /\ Alive' = Alive
  <2>1. a \in Placed /\ a \in Alive
    BY <1>3 DEF Placed, Alive, At
  <2> QED
    BY <1>2, <2>1 DEF Placed, Alive
<1>5. Types' /\ Counts'
  BY <1>4 DEF Dial, AppendResult, Types, Counts
<1>6. scanner \notin {"idle", "arp", "returned", "failed"} /\ At({"none"})' = At({"none"})
  BY <1>2, <1>3, AtWork
<1>7. Phases' /\ NothingLost'
  BY <1>6 DEF Dial, AppendResult, Phases, NothingLost
<1>8. Kept'
  <2>1. CASE Dial(a)
    BY <1>1, <1>2, <2>1 DEF Dial, Kept, At, Types
  <2>2. CASE AppendResult(a)
    BY <1>2, <2>2 DEF AppendResult, Kept, At, Types
  <2> QED
    BY <2>1, <2>2
<1> QED
  BY <1>5, <1>7, <1>8

\* The deferred calls take the goroutine out of one set after the other.
LEMMA ReleaseStep ==
  ASSUME ScanInv, NEW a \in Addresses, ReleasePlace(a)
  PROVE  ScanInv'
<1> USE AtSubset DEF ScanInv
<1>1. \A states : At(states)' = IF "done" \in states THEN At(states) \cup {a} ELSE At(states) \ {a}
  BY Moves DEF ReleasePlace
<1>2. /\ a \in Placed /\ a \notin At({"append"})
      /\ Placed' = Placed \ {a} /\ Alive' = Alive
  <2>1. a \in Placed /\ a \in Alive /\ a \notin At({"append"})
    BY DEF ReleasePlace, Placed, Alive, At
  <2> QED
    BY <1>1, <2>1 DEF Placed, Alive
<1>3. Types'
  BY DEF ReleasePlace, Types
<1>4. Counts'
  <2>1. /\ Cardinality(Placed') = Cardinality(Placed) - 1
        /\ Cardinality(Placed) \in Nat
    BY <1>2, FiniteParts, FS_RemoveElement DEF Placed
  <2> QED
    BY <1>2, <2>1, WorkersAssumption DEF ReleasePlace, Counts
<1>5. scanner \notin {"idle", "arp", "returned", "failed"} /\ At({"none"})' = At({"none"})
  BY <1>1, AtWork DEF ReleasePlace
<1>6. Phases' /\ NothingLost' /\ Kept'
  BY <1>1, <1>2, <1>5 DEF ReleasePlace, Phases, NothingLost, Kept
<1> QED
  BY <1>3, <1>4, <1>6

LEMMA DoneStep ==
  ASSUME ScanInv, NEW a \in Addresses, Done(a)
  PROVE  ScanInv'
<1> USE AtSubset DEF ScanInv
<1>1. \A states : At(states)' = IF "gone" \in states THEN At(states) \cup {a} ELSE At(states) \ {a}
  BY Moves DEF Done
<1>2. /\ a \in Alive /\ a \notin At({"append"})
      /\ Placed' = Placed /\ Alive' = Alive \ {a}
  <2>1. a \in Alive /\ a \notin Placed /\ a \notin At({"append"})
    BY DEF Done, Placed, Alive, At
  <2> QED
    BY <1>1, <2>1 DEF Placed, Alive
<1>3. Types'
  BY DEF Done, Types
<1>4. Counts'
  <2>1. /\ Cardinality(Alive') = Cardinality(Alive) - 1
        /\ Cardinality(Alive) \in Nat /\ Cardinality(next) \in Nat
    BY <1>2, FiniteParts, FS_RemoveElement DEF Alive, Types
  <2> QED
    BY <1>2, <2>1 DEF Done, Counts
<1>5. scanner \notin {"idle", "arp", "returned", "failed"} /\ At({"none"})' = At({"none"})
  BY <1>1, AtWork DEF Done
<1>6. Phases' /\ NothingLost' /\ Kept'
  BY <1>1, <1>2, <1>5 DEF Done, Phases, NothingLost, Kept
<1> QED
  BY <1>3, <1>4, <1>6

-----------------------------------------------------------------------------

LEMMA ScanStep ==
  ASSUME ScanInv, [LanNext]_lanVars
  PROVE  ScanInv'
<1>1. CASE UNCHANGED lanVars
  BY <1>1 DEF lanVars, ScanInv, Types, Counts, Phases, Kept, NothingLost, At, Placed, Alive
<1> QED
  BY <1>1, ScannerStep, TakePlaceStep, DialStep, ReleaseStep, DoneStep DEF LanNext

LEMMA ScanInvariant == LanSpec => []ScanInv
<1>1. ScanInv /\ [LanNext]_lanVars => ScanInv'
  BY ScanStep
<1> QED
  BY InitScan, <1>1, PTL DEF LanSpec

LEMMA ScanTypes == ScanInv => LanTypeOK
BY DEF ScanInv, Types, Counts, LanTypeOK

\* The counts are what they stand for, and no more than Workers probes run at a
\* time (discover.go:108, 122).
THEOREM ScanTypeCorrect == LanSpec => []LanTypeOK
BY ScanInvariant, ScanTypes, PTL

\* A scan returns every camera that answered, and leaves no goroutine behind
\* (discover.go:95-137).
THEOREM ScanLosesNothing == LanSpec => []NothingLost
<1>1. ScanInv => NothingLost
  BY DEF ScanInv
<1> QED
  BY ScanInvariant, <1>1, PTL

-----------------------------------------------------------------------------
(* Settings: the rows, the process and the requests between them.            *)

\* What a request can bring into a row: never a placeholder.
Sendable(k) == IF k = "secret" THEN Secrets \cup {NoValue} ELSE Stored(k) \cup {NoValue}

\* Tables are functions, requests run in a process that is up, and a start has
\* given a row to every key that it has looked at.
SettingsTypes ==
  /\ SettingsTypeOK
  /\ rows \in [Keys -> Value] /\ live \in [LiveKeys -> Value] /\ defaults \in Defaults
  /\ \A h \in Savers, k \in Keys : saver[h].kv[k] \in Sendable(k)
  /\ boot # "up" => Busy = {}
  /\ boot = "seed" => \A k \in Keys \ seedTodo : rows[k] # NoValue

\* A request that is alone is the only one; what one is about to write does not
\* count as agreed; and what one that is alone has written is there still.
Agreement ==
  /\ \A h \in Busy : saver[h].alone => Busy = {h}
  /\ \A h \in Savers : saver[h].pc \in {"interval", "persist", "apply"} =>
       Named(saver[h].kv) \cap agreed = {}
  /\ \A h \in Savers : saver[h].alone =>
       /\ saver[h].pc \in {"interval", "persist"} => live["enabled"] = saver[h].kv["enabled"]
       /\ saver[h].pc = "persist" /\ "interval" \in Named(saver[h].kv) =>
            live["interval"] = saver[h].kv["interval"]
       /\ saver[h].pc = "apply" => \A k \in Named(saver[h].kv) : rows[k] = saver[h].kv[k]

SettingsInv == SettingsTypes /\ Agreement /\ SettingsSurviveRestart

LEMMA StoredValues ==
  /\ \A k \in Keys : Stored(k) \subseteq Value /\ NoValue \notin Stored(k)
  /\ \A k \in Keys : Sendable(k) \subseteq Stored(k) \cup {NoValue}
  /\ LiveKeys \subseteq Keys /\ "secret" \in Keys /\ "secret" \notin LiveKeys
BY NoValueAssumption DEF Keys, LiveKeys, Stored, Value, Sendable

LEMMA NobodySaves ==
  /\ NoSave \in Saver /\ NoSave.pc = "idle"
  /\ \A k \in Keys : NoSave.kv[k] \in Sendable(k)
BY DEF NoSave, Saver, Value, Sendable

LEMMA SettingsStart == SettingsInit => SettingsInv
<1> SUFFICES ASSUME SettingsInit PROVE SettingsInv
  OBVIOUS
<1>1. /\ \A h \in Savers : saver[h] = NoSave
      /\ saver \in [Savers -> Saver] /\ Busy = {}
  BY NobodySaves DEF SettingsInit, Busy
<1>2. \A k \in Keys : defaults[k] \in Stored(k) /\ rows[k] = NoValue
  BY DEF SettingsInit, Defaults
<1>3. \A k \in LiveKeys : live[k] \in Stored(k)
  BY <1>2, StoredValues DEF SettingsInit
<1>4. rows \in [Keys -> Value] /\ live \in [LiveKeys -> Value]
  BY <1>3, StoredValues DEF SettingsInit, Value
<1>5. SettingsTypes
  BY <1>1, <1>2, <1>3, <1>4, NobodySaves DEF SettingsTypes, SettingsTypeOK, SettingsInit
<1>6. Agreement
  BY <1>1 DEF Agreement, NoSave
<1> QED
  BY <1>5, <1>6 DEF SettingsInv, SettingsSurviveRestart, SettingsInit

\* Starting and ending: no request runs, and every key is agreed after a start.
LEMMA StartStep ==
  ASSUME SettingsInv,
         StartUp \/ LoadSettings \/ ProcessEnds \/ \E k \in Keys : SeedKey(k)
  PROVE  SettingsInv'
<1> USE DEF SettingsInv
<1>1. CASE ProcessEnds
  <2>1. /\ \A h \in Savers : saver'[h] = NoSave
        /\ saver' \in [Savers -> Saver] /\ Busy' = {}
    BY <1>1, NobodySaves DEF ProcessEnds, Busy
  <2>2. SettingsTypes'
    BY <1>1, <2>1, NobodySaves DEF ProcessEnds, SettingsTypes, SettingsTypeOK
  <2>3. Agreement'
    BY <2>1 DEF Agreement, NoSave
  <2> QED
    BY <1>1, <2>2, <2>3 DEF ProcessEnds, SettingsSurviveRestart
<1>2. CASE StartUp
  <2>1. SettingsTypes'
    BY <1>2 DEF StartUp, SettingsTypes, SettingsTypeOK, Busy
  <2> QED
    BY <1>2, <2>1 DEF StartUp, Agreement, SettingsSurviveRestart, Busy
<1>3. CASE LoadSettings
  <2>1. \A k \in Keys : rows[k] # NoValue /\ rows[k] \in Stored(k)
    BY <1>3 DEF LoadSettings, SettingsTypes, SettingsTypeOK
  <2>2. \A k \in LiveKeys : live'[k] = rows[k] /\ live'[k] \in Stored(k)
    BY <1>3, <2>1, StoredValues DEF LoadSettings
  <2>3. live' \in [LiveKeys -> Value]
    BY <1>3, <2>1, StoredValues DEF LoadSettings
  <2>4. Busy = {} /\ Busy' = {}
    BY <1>3 DEF LoadSettings, SettingsTypes, Busy
  <2>5. SettingsTypes'
    BY <1>3, <2>1, <2>2, <2>3, <2>4 DEF LoadSettings, SettingsTypes, SettingsTypeOK
  <2>6. Agreement'
    BY <1>3, <2>4 DEF LoadSettings, Agreement, Busy
  <2> QED
    BY <1>3, <2>2, <2>5, <2>6 DEF LoadSettings, SettingsSurviveRestart
<1>4. ASSUME NEW k \in Keys, SeedKey(k) PROVE SettingsInv'
  <2>1. defaults[k] \in Stored(k) /\ defaults[k] \in Value /\ defaults[k] # NoValue
    BY StoredValues DEF SettingsTypes, Defaults
  <2>2. /\ rows' \in [Keys -> Value]
        /\ rows'[k] # NoValue /\ rows'[k] \in Stored(k)
        /\ \A l \in Keys : l # k => rows'[l] = rows[l]
    BY <1>4, <2>1 DEF SeedKey, SettingsTypes, SettingsTypeOK
  <2>3. SettingsTypes'
    BY <1>4, <2>2 DEF SeedKey, SettingsTypes, SettingsTypeOK, Busy
  <2>4. Agreement'
    BY <1>4 DEF SeedKey, Agreement, SettingsTypes, Busy
  <2> QED
    BY <1>4, <2>3, <2>4 DEF SeedKey, SettingsSurviveRestart
<1> QED
  BY <1>1, <1>2, <1>3, <1>4

-----------------------------------------------------------------------------
(* How the steps of a request move the requests.                             *)

\* The request h takes over, and nobody who was busy counts as alone.
LEMMA BeginsAlone ==
  ASSUME SettingsInv, NEW h \in Savers,
         NEW pc \in {"interval", "save"}, NEW kv \in [Keys -> Value],
         \A k \in Keys : kv[k] \in Sendable(k),
         Begin(h, pc, kv)
  PROVE  /\ boot = "up" /\ saver[h].pc = "idle"
         /\ saver' \in [Savers -> Saver]
         /\ saver'[h].pc = pc /\ saver'[h].kv = kv
         /\ \A i \in Savers \ {h} : saver'[i].pc = saver[i].pc /\ saver'[i].kv = saver[i].kv
         /\ \A i \in Savers \ {h} : saver'[i].alone => saver'[i].pc = "idle"
         /\ \A i \in Savers, k \in Keys : saver'[i].kv[k] \in Sendable(k)
         /\ \A i \in Busy' : saver'[i].alone => Busy' = {i}
<1>1. saver \in [Savers -> Saver] /\ Busy \subseteq Savers
  BY DEF SettingsInv, SettingsTypes, SettingsTypeOK, Busy
<1>2. /\ boot = "up" /\ saver[h].pc = "idle"
      /\ saver' = [i \in Savers |->
                     IF i = h THEN [pc |-> pc, kv |-> kv, alone |-> Busy = {}]
                     ELSE [saver[i] EXCEPT !.alone = @ /\ i \notin Busy]]
  BY DEF Begin
<1>3. /\ saver'[h] = [pc |-> pc, kv |-> kv, alone |-> Busy = {}]
      /\ \A i \in Savers \ {h} : saver'[i] = [saver[i] EXCEPT !.alone = @ /\ i \notin Busy]
  BY <1>2
<1>4. saver'[h] \in Saver /\ saver'[h].pc = pc /\ saver'[h].kv = kv
      /\ saver'[h].alone = (Busy = {})
  <2> DEFINE a == (Busy = {})
  <2> a \in BOOLEAN
    OBVIOUS
  <2> HIDE DEF a
  <2>1. [pc |-> pc, kv |-> kv, alone |-> a] \in Saver
    BY DEF Saver
  <2> QED
    BY <1>3, <2>1 DEF a
<1>5. ASSUME NEW i \in Savers \ {h}
      PROVE  /\ saver'[i] \in Saver /\ saver'[i].pc = saver[i].pc /\ saver'[i].kv = saver[i].kv
             /\ saver'[i].alone = (saver[i].alone /\ i \notin Busy)
  <2> DEFINE a == (saver[i].alone /\ i \notin Busy)
  <2>0. a \in BOOLEAN
    OBVIOUS
  <2>1. saver[i] \in Saver /\ saver'[i] = [saver[i] EXCEPT !.alone = a]
    BY <1>1, <1>3
  <2> HIDE DEF a
  <2>2. /\ saver'[i] \in Saver /\ saver'[i].pc = saver[i].pc /\ saver'[i].kv = saver[i].kv
        /\ saver'[i].alone = a
    BY <2>0, <2>1 DEF Saver
  <2> QED
    BY <2>2 DEF a
<1>6. saver' \in [Savers -> Saver]
  BY <1>2, <1>4, <1>5
<1>7. Busy' = Busy \cup {h}
  BY <1>4, <1>5 DEF Busy
<1>8. \A i \in Savers \ {h} : saver'[i].alone => saver'[i].pc = "idle"
  BY <1>5 DEF Busy
<1>9. \A i \in Busy' : saver'[i].alone => Busy' = {i}
  <2> SUFFICES ASSUME NEW i \in Busy', saver'[i].alone PROVE Busy' = {i}
    OBVIOUS
  <2>1. CASE i = h
    <3>1. Busy = {}
      BY <1>4, <2>1, Zenon
    <3> QED
      BY <1>7, <2>1, <3>1
  <2>2. CASE i # h
    BY <1>1, <1>5, <1>7, <2>2
  <2> QED
    BY <2>1, <2>2
<1>10. \A i \in Savers, k \in Keys : saver'[i].kv[k] \in Sendable(k)
  BY <1>4, <1>5 DEF SettingsInv, SettingsTypes
<1> QED
  BY <1>2, <1>4, <1>5, <1>6, <1>8, <1>9, <1>10

\* A request goes on, or ends: the others stay, and keep what alone says.
LEMMA RequestMoves ==
  ASSUME SettingsInv, NEW h \in Busy, NEW pc \in {"persist", "apply"},
         \/ saver' = [saver EXCEPT ![h].pc = pc]
         \/ Ended(h)
  PROVE  /\ h \in Savers /\ boot = "up"
         /\ saver' \in [Savers -> Saver]
         /\ \A i \in Savers \ {h} : saver'[i] = saver[i]
         /\ \A i \in Savers \ {h} : saver[i].alone => saver[i].pc = "idle"
         /\ \/ saver'[h] = NoSave
            \/ /\ saver'[h].pc = pc /\ saver'[h].kv = saver[h].kv
               /\ saver'[h].alone <=> saver[h].alone
         /\ saver[h].alone => \A i \in Savers \ {h} : saver[i].pc = "idle"
         /\ \A i \in Savers, k \in Keys : saver'[i].kv[k] \in Sendable(k)
         /\ \A i \in Busy' : saver'[i].alone => Busy' = {i}
<1>1. h \in Savers /\ saver \in [Savers -> Saver] /\ saver[h] \in Saver /\ boot = "up"
  BY DEF SettingsInv, SettingsTypes, SettingsTypeOK, Busy
<1>2. \A i \in Savers \ {h} : saver'[i] = saver[i]
  BY <1>1 DEF Ended
<1>3. \/ saver'[h] = NoSave
      \/ saver'[h] = [saver[h] EXCEPT !.pc = pc]
  BY <1>1 DEF Ended
<1>4. CASE saver'[h] = [saver[h] EXCEPT !.pc = pc]
  <2>1. /\ saver'[h] \in Saver /\ saver'[h].pc = pc /\ saver'[h].kv = saver[h].kv
        /\ saver'[h].alone = saver[h].alone
    BY <1>1, <1>4 DEF Saver
  <2>2. Busy' = Busy
    BY <1>1, <1>2, <2>1 DEF Busy
  <2>3. \A i \in Busy' : saver'[i].alone => Busy' = {i}
    BY <1>1, <1>2, <2>1, <2>2 DEF SettingsInv, Agreement, Busy
  <2>4. saver' \in [Savers -> Saver]
    BY <1>1, <1>2, <2>1 DEF Ended
  <2>5. \A i \in Savers, k \in Keys : saver'[i].kv[k] \in Sendable(k)
    BY <1>2, <2>1 DEF SettingsInv, SettingsTypes
  <2>6. /\ \A i \in Savers \ {h} : saver[i].alone => saver[i].pc = "idle"
        /\ saver[h].alone => \A i \in Savers \ {h} : saver[i].pc = "idle"
    BY <1>1 DEF SettingsInv, Agreement, Busy
  <2> QED
    BY <1>1, <1>2, <2>1, <2>3, <2>4, <2>5, <2>6
<1>5. CASE saver'[h] = NoSave
  <2>1. saver' \in [Savers -> Saver]
    BY <1>1, <1>2, <1>5, NobodySaves DEF Ended
  <2>2. Busy' = Busy \ {h}
    BY <1>1, <1>2, <1>5, NobodySaves DEF Busy
  <2>3. \A i \in Busy' : saver'[i].alone => Busy' = {i}
    BY <1>1, <1>2, <2>2 DEF SettingsInv, Agreement, Busy
  <2>5. \A i \in Savers, k \in Keys : saver'[i].kv[k] \in Sendable(k)
    BY <1>2, <1>5, NobodySaves DEF SettingsInv, SettingsTypes
  <2>6. /\ \A i \in Savers \ {h} : saver[i].alone => saver[i].pc = "idle"
        /\ saver[h].alone => \A i \in Savers \ {h} : saver[i].pc = "idle"
    BY <1>1 DEF SettingsInv, Agreement, Busy
  <2> QED
    BY <1>1, <1>2, <1>5, <2>1, <2>3, <2>5, <2>6
<1> QED
  BY <1>3, <1>4, <1>5

-----------------------------------------------------------------------------
(* The steps of the requests.                                                *)

\* Rows change together, to what the request names.
LEMMA RowsSet ==
  ASSUME SettingsTypes, NEW kv, \A k \in Keys : kv[k] \in Sendable(k), SetMany(kv)
  PROVE  /\ rows' \in [Keys -> Value]
         /\ \A k \in Keys : rows'[k] = IF k \in Named(kv) THEN kv[k] ELSE rows[k]
         /\ \A k \in Keys : rows'[k] \in Stored(k) \cup {NoValue}
         /\ \A k \in Keys : rows[k] # NoValue => rows'[k] # NoValue
<1>1. \A k \in Keys : rows'[k] = IF kv[k] = NoValue THEN rows[k] ELSE kv[k]
  BY DEF SetMany
<1>2. \A k \in Keys : kv[k] \in Stored(k) \cup {NoValue} /\ kv[k] \in Value
  BY StoredValues DEF Value
<1>3. \A k \in Keys : rows[k] \in Value /\ rows[k] \in Stored(k) \cup {NoValue}
  BY DEF SettingsTypes, SettingsTypeOK
<1>4. rows' \in [Keys -> Value]
  BY <1>2, <1>3 DEF SetMany
<1> QED
  BY <1>1, <1>2, <1>3, <1>4 DEF Named

\* SetEnabled has come first: the keys that are named no longer count as agreed.
LEMMA PollSettingsBegin ==
  ASSUME SettingsInv, NEW h \in Savers, PostPollSettings(h)
  PROVE  SettingsInv'
<1> USE DEF SettingsInv
<1>1. PICK on \in Stored("enabled"), interval \in Intervals \cup {NoValue} :
        LET kv == [k \in Keys |-> CASE k = "enabled" -> on [] k = "interval" -> interval
                                    [] OTHER -> NoValue]
        IN /\ Begin(h, "interval", kv)
           /\ live' = [live EXCEPT !["enabled"] = on]
           /\ agreed' = agreed \ Named(kv)
           /\ UNCHANGED <<rows, defaults, seedTodo, boot>>
  BY DEF PostPollSettings
<1> DEFINE kv == [k \in Keys |-> CASE k = "enabled" -> on [] k = "interval" -> interval
                                   [] OTHER -> NoValue]
<1>2. /\ kv["enabled"] = on /\ kv["interval"] = interval
      /\ on \in {"on", "off"} /\ on # NoValue /\ on \in Value /\ kv \in [Keys -> Value]
      /\ \A k \in Keys : kv[k] \in Sendable(k)
  BY NoValueAssumption DEF Keys, LiveKeys, Stored, Value, Sendable
<1>3. /\ Begin(h, "interval", kv)
      /\ live' = [live EXCEPT !["enabled"] = on]
      /\ agreed' = agreed \ Named(kv)
      /\ UNCHANGED <<rows, defaults, seedTodo, boot>>
  BY <1>1
<1>4. "enabled" \in Named(kv)
  BY <1>2 DEF Named, Keys, LiveKeys
<1> HIDE DEF kv
<1>5. /\ boot = "up" /\ saver' \in [Savers -> Saver]
      /\ saver'[h].pc = "interval" /\ saver'[h].kv = kv
      /\ \A i \in Savers \ {h} : saver'[i].pc = saver[i].pc /\ saver'[i].kv = saver[i].kv
      /\ \A i \in Savers \ {h} : saver'[i].alone => saver'[i].pc = "idle"
      /\ \A i \in Savers, k \in Keys : saver'[i].kv[k] \in Sendable(k)
      /\ \A i \in Busy' : saver'[i].alone => Busy' = {i}
  BY <1>2, <1>3, BeginsAlone
<1>6. /\ live' \in [LiveKeys -> Value] /\ live'["enabled"] = on
      /\ \A k \in LiveKeys : k # "enabled" => live'[k] = live[k]
      /\ \A k \in LiveKeys : live'[k] \in Stored(k)
  BY <1>2, <1>3 DEF SettingsTypes, SettingsTypeOK, Stored, LiveKeys
<1>7. SettingsTypes'
  BY <1>3, <1>5, <1>6 DEF SettingsTypes, SettingsTypeOK
<1>8. Agreement'
  <2>1. \A i \in Savers : saver'[i].pc \in {"interval", "persist", "apply"} =>
          Named(saver'[i].kv) \cap agreed' = {}
    BY <1>3, <1>5 DEF Agreement
  <2>2. \A i \in Savers : saver'[i].alone =>
          /\ saver'[i].pc \in {"interval", "persist"} => live'["enabled"] = saver'[i].kv["enabled"]
          /\ saver'[i].pc = "persist" /\ "interval" \in Named(saver'[i].kv) =>
               live'["interval"] = saver'[i].kv["interval"]
          /\ saver'[i].pc = "apply" => \A k \in Named(saver'[i].kv) : rows'[k] = saver'[i].kv[k]
    BY <1>2, <1>5, <1>6
  <2> QED
    BY <1>5, <2>1, <2>2 DEF Agreement
<1> QED
  BY <1>3, <1>4, <1>6, <1>7, <1>8 DEF SettingsSurviveRestart, SettingsTypes, SettingsTypeOK

\* What the page sends back in place of a secret is dropped before anything else.
LEMMA PutBegins ==
  ASSUME SettingsInv, NEW h \in Savers, PutSettings(h)
  PROVE  SettingsInv'
<1> USE DEF SettingsInv
<1>1. UNCHANGED <<rows, live, defaults, seedTodo, boot, agreed>>
  BY DEF PutSettings
<1>2. PICK kv \in [Keys -> Value] : /\ \A k \in Keys : kv[k] \in Sendable(k)
                                    /\ Begin(h, "save", kv)
  <2>1. PICK on \in Stored("enabled") \cup {NoValue}, interval \in Intervals \cup {NoValue},
             level \in Levels \cup {NoValue}, secret \in Stored("secret") \cup {"redacted", NoValue} :
          Begin(h, "save", Filtered(
            [k \in Keys |-> CASE k = "enabled" -> on [] k = "interval" -> interval
                              [] k = "level" -> level [] k = "secret" -> secret]))
    BY DEF PutSettings
  <2> DEFINE kv == [k \in Keys |-> CASE k = "enabled" -> on [] k = "interval" -> interval
                                     [] k = "level" -> level [] k = "secret" -> secret]
  <2>2. /\ kv["enabled"] = on /\ kv["interval"] = interval /\ kv["level"] = level
        /\ kv["secret"] = secret /\ kv \in [Keys -> Value]
    BY DEF Keys, LiveKeys, Stored, Value
  <2>3. Begin(h, "save", Filtered(kv))
    BY <2>1
  <2> HIDE DEF kv
  <2>4. /\ Filtered(kv) \in [Keys -> Value]
        /\ Filtered(kv)["enabled"] = on /\ Filtered(kv)["interval"] = interval
        /\ Filtered(kv)["level"] = level
        /\ Filtered(kv)["secret"] \in Secrets \cup {NoValue}
    BY <2>2 DEF Filtered, Keys, LiveKeys, Stored, Value
  <2>5. \A k \in Keys : Filtered(kv)[k] \in Sendable(k)
    BY <2>4 DEF Keys, LiveKeys, Stored, Sendable
  <2> QED
    BY <2>3, <2>4, <2>5
<1>3. /\ boot = "up" /\ saver' \in [Savers -> Saver]
      /\ saver'[h].pc = "save"
      /\ \A i \in Savers \ {h} : saver'[i].pc = saver[i].pc /\ saver'[i].kv = saver[i].kv
      /\ \A i \in Savers \ {h} : saver'[i].alone => saver'[i].pc = "idle"
      /\ \A i \in Savers, k \in Keys : saver'[i].kv[k] \in Sendable(k)
      /\ \A i \in Busy' : saver'[i].alone => Busy' = {i}
  BY <1>2, BeginsAlone
<1>4. SettingsTypes'
  BY <1>1, <1>3 DEF SettingsTypes, SettingsTypeOK
<1>5. Agreement'
  <2>1. \A i \in Savers : saver'[i].pc \in {"interval", "persist", "apply"} =>
          Named(saver'[i].kv) \cap agreed' = {}
    BY <1>1, <1>3 DEF Agreement
  <2>2. \A i \in Savers : saver'[i].alone => saver'[i].pc \notin {"interval", "persist", "apply"}
    BY <1>3
  <2> QED
    BY <1>3, <2>1, <2>2 DEF Agreement
<1> QED
  BY <1>1, <1>4, <1>5 DEF SettingsSurviveRestart

\* A step of a request that is busy keeps the part of Agreement that is about
\* others, if the keys that have come to be agreed are its own.
LEMMA OthersAgree ==
  ASSUME SettingsInv, NEW h \in Savers,
         \A i \in Savers \ {h} : saver'[i] = saver[i],
         \A i \in Savers \ {h} : saver[i].alone => saver[i].pc = "idle",
         saver[h].alone => \A i \in Savers \ {h} : saver[i].pc = "idle",
         agreed' \subseteq agreed \/ saver[h].alone
  PROVE  \A i \in Savers \ {h} :
           /\ saver'[i].pc \in {"interval", "persist", "apply"} =>
                Named(saver'[i].kv) \cap agreed' = {}
           /\ saver'[i].alone => saver'[i].pc \notin {"interval", "persist", "apply"}
BY DEF SettingsInv, Agreement

LEMMA IntervalStep ==
  ASSUME SettingsInv, NEW h \in Savers, SetInterval(h)
  PROVE  SettingsInv'
<1> USE DEF SettingsInv
<1>1. /\ saver[h].pc = "interval" /\ h \in Busy
      /\ saver' = [saver EXCEPT ![h].pc = "persist"]
      /\ UNCHANGED <<rows, defaults, seedTodo, boot, agreed>>
      /\ live' = [live EXCEPT !["interval"] = IF saver[h].kv["interval"] = NoValue THEN @
                                              ELSE saver[h].kv["interval"]]
  BY DEF SetInterval, Busy
<1>2. /\ boot = "up" /\ saver' \in [Savers -> Saver]
      /\ \A i \in Savers \ {h} : saver'[i] = saver[i]
      /\ \A i \in Savers \ {h} : saver[i].alone => saver[i].pc = "idle"
      /\ saver[h].alone => \A i \in Savers \ {h} : saver[i].pc = "idle"
      /\ \A i \in Savers, k \in Keys : saver'[i].kv[k] \in Sendable(k)
      /\ \A i \in Busy' : saver'[i].alone => Busy' = {i}
  BY <1>1, RequestMoves
<1>3. /\ saver'[h].pc = "persist" /\ saver'[h].kv = saver[h].kv
      /\ saver'[h].alone = saver[h].alone
  BY <1>1 DEF SettingsTypes, SettingsTypeOK, Saver
<1>4. saver[h].kv["interval"] \in Intervals \cup {NoValue} /\ Intervals \subseteq Value
  BY StoredValues DEF SettingsTypes, Keys, LiveKeys, Sendable, Stored, Value
<1>5. /\ live' \in [LiveKeys -> Value]
      /\ \A k \in LiveKeys : k # "interval" => live'[k] = live[k]
      /\ live'["interval"] = IF saver[h].kv["interval"] = NoValue THEN live["interval"]
                             ELSE saver[h].kv["interval"]
      /\ \A k \in LiveKeys : live'[k] \in Stored(k)
  <2>1. live \in [LiveKeys -> Value] /\ \A k \in LiveKeys : live[k] \in Stored(k)
    BY DEF SettingsTypes, SettingsTypeOK
  <2>2. "interval" \in LiveKeys /\ Stored("interval") = Intervals
    BY DEF LiveKeys, Stored
  <2> QED
    BY <1>1, <1>4, <2>1, <2>2
<1>6. SettingsTypes'
  BY <1>1, <1>2, <1>5 DEF SettingsTypes, SettingsTypeOK
<1>7. Agreement'
  <2>1. \A i \in Savers \ {h} :
          /\ saver'[i].pc \in {"interval", "persist", "apply"} =>
               Named(saver'[i].kv) \cap agreed' = {}
          /\ saver'[i].alone => saver'[i].pc \notin {"interval", "persist", "apply"}
    BY <1>1, <1>2, OthersAgree
  <2>2. Named(saver'[h].kv) \cap agreed' = {}
    BY <1>1, <1>3 DEF Agreement
  <2>3. saver'[h].alone => /\ live'["enabled"] = saver'[h].kv["enabled"]
                           /\ "interval" \in Named(saver'[h].kv) =>
                                live'["interval"] = saver'[h].kv["interval"]
    BY <1>1, <1>3, <1>5 DEF Agreement, Named, LiveKeys
  <2> QED
    BY <1>2, <1>3, <2>1, <2>2, <2>3 DEF Agreement
<1>8. \A k \in agreed' : live'[k] = rows'[k]
  <2>1. "interval" \in agreed => saver[h].kv["interval"] = NoValue
    BY <1>1 DEF Agreement, Named, Keys, LiveKeys
  <2> QED
    BY <1>1, <1>2, <1>5, <2>1 DEF SettingsSurviveRestart, SettingsTypes, SettingsTypeOK
<1> QED
  BY <1>6, <1>7, <1>8 DEF SettingsSurviveRestart

LEMMA PersistStep ==
  ASSUME SettingsInv, NEW h \in Savers, PersistPoll(h) \/ PersistFails(h)
  PROVE  SettingsInv'
<1> USE DEF SettingsInv
<1>1. /\ saver[h].pc = "persist" /\ h \in Busy /\ Ended(h)
      /\ UNCHANGED <<live, defaults, seedTodo, boot>>
  BY DEF PersistPoll, PersistFails, Busy
<1>2. /\ boot = "up" /\ saver' \in [Savers -> Saver]
      /\ \A i \in Savers \ {h} : saver'[i] = saver[i]
      /\ \A i \in Savers \ {h} : saver[i].alone => saver[i].pc = "idle"
      /\ saver[h].alone => \A i \in Savers \ {h} : saver[i].pc = "idle"
      /\ \A i \in Savers, k \in Keys : saver'[i].kv[k] \in Sendable(k)
      /\ \A i \in Busy' : saver'[i].alone => Busy' = {i}
  BY <1>1, RequestMoves
<1>3. saver'[h].pc = "idle"
  BY <1>1, NobodySaves DEF Ended, SettingsTypes, SettingsTypeOK
<1>4. /\ rows' \in [Keys -> Value]
      /\ \A k \in Keys : rows'[k] \in Stored(k) \cup {NoValue}
      /\ \A k \in Keys : rows[k] # NoValue => rows'[k] # NoValue
  <2>1. CASE PersistPoll(h)
    BY <2>1, RowsSet DEF PersistPoll, SettingsTypes
  <2>2. CASE PersistFails(h)
    BY <2>2 DEF PersistFails, SettingsTypes, SettingsTypeOK
  <2> QED
    BY <2>1, <2>2
<1>5. /\ agreed' \subseteq agreed \/ saver[h].alone
      /\ agreed' \subseteq LiveKeys
  BY DEF PersistPoll, PersistFails, Agree, SettingsTypes, SettingsTypeOK, LiveKeys
<1>6. SettingsTypes'
  BY <1>1, <1>2, <1>4, <1>5 DEF SettingsTypes, SettingsTypeOK
<1>7. Agreement'
  <2>1. \A i \in Savers \ {h} :
          /\ saver'[i].pc \in {"interval", "persist", "apply"} =>
               Named(saver'[i].kv) \cap agreed' = {}
          /\ saver'[i].alone => saver'[i].pc \notin {"interval", "persist", "apply"}
    BY <1>2, <1>5, OthersAgree
  <2> QED
    BY <1>2, <1>3, <2>1 DEF Agreement
<1>8. \A k \in agreed' : live'[k] = rows'[k]
  <2>1. CASE PersistFails(h)
    BY <1>1, <1>2, <2>1 DEF PersistFails, SettingsSurviveRestart
  <2>2. CASE PersistPoll(h)
    <3>1. \A k \in Keys : rows'[k] = IF k \in Named(saver[h].kv) THEN saver[h].kv[k] ELSE rows[k]
      BY <2>2, RowsSet DEF PersistPoll, SettingsTypes
    <3>2. \A k \in agreed : k \in Keys /\ k \notin Named(saver[h].kv) /\ live[k] = rows[k]
      BY <1>1, <1>2, StoredValues
      DEF Agreement, SettingsTypes, SettingsTypeOK, SettingsSurviveRestart
    <3>3. ASSUME NEW k \in agreed', k \notin agreed PROVE live'[k] = rows'[k]
      <4>1. saver[h].alone /\ k \in Named(saver[h].kv) /\ k \in {"enabled", "interval"}
        BY <2>2, <3>3 DEF PersistPoll, Agree
      <4>2. live[k] = saver[h].kv[k]
        BY <1>1, <4>1 DEF Agreement
      <4> QED
        BY <1>1, <3>1, <4>1, <4>2 DEF Named
    <3> QED
      BY <1>1, <3>1, <3>2, <3>3
  <2> QED
    BY <2>1, <2>2
<1> QED
  BY <1>6, <1>7, <1>8 DEF SettingsSurviveRestart

LEMMA SaveStep ==
  ASSUME SettingsInv, NEW h \in Savers, SaveSettings(h)
  PROVE  SettingsInv'
<1> USE DEF SettingsInv
<1>1. /\ saver[h].pc = "save" /\ h \in Busy
      /\ saver' = [saver EXCEPT ![h].pc = "apply"] \/ Ended(h)
      /\ UNCHANGED <<live, defaults, seedTodo, boot>>
  BY DEF SaveSettings, Busy
<1>2. /\ boot = "up" /\ saver' \in [Savers -> Saver]
      /\ \A i \in Savers \ {h} : saver'[i] = saver[i]
      /\ \A i \in Savers \ {h} : saver[i].alone => saver[i].pc = "idle"
      /\ saver[h].alone => \A i \in Savers \ {h} : saver[i].pc = "idle"
      /\ \A i \in Savers, k \in Keys : saver'[i].kv[k] \in Sendable(k)
      /\ \A i \in Busy' : saver'[i].alone => Busy' = {i}
  BY <1>1, RequestMoves
<1>3. agreed' \subseteq agreed
  BY DEF SaveSettings
<1>4. \A i \in Savers \ {h} :
        /\ saver'[i].pc \in {"interval", "persist", "apply"} =>
             Named(saver'[i].kv) \cap agreed' = {}
        /\ saver'[i].alone => saver'[i].pc \notin {"interval", "persist", "apply"}
  BY <1>2, <1>3, OthersAgree
<1>5. CASE Ended(h) /\ UNCHANGED <<rows, agreed>>
  <2>1. saver'[h].pc = "idle"
    BY <1>5, NobodySaves DEF Ended, SettingsTypes, SettingsTypeOK
  <2>2. SettingsTypes'
    BY <1>1, <1>2, <1>5 DEF SettingsTypes, SettingsTypeOK
  <2>3. Agreement'
    BY <1>2, <1>4, <2>1 DEF Agreement
  <2> QED
    BY <1>1, <1>5, <2>2, <2>3 DEF SettingsSurviveRestart
<1>6. CASE /\ SetMany(saver[h].kv)
           /\ saver' = [saver EXCEPT ![h].pc = "apply"]
           /\ agreed' = agreed \ Named(saver[h].kv)
  <2>1. /\ rows' \in [Keys -> Value]
        /\ \A k \in Keys : rows'[k] = IF k \in Named(saver[h].kv) THEN saver[h].kv[k] ELSE rows[k]
        /\ \A k \in Keys : rows'[k] \in Stored(k) \cup {NoValue}
        /\ \A k \in Keys : rows[k] # NoValue => rows'[k] # NoValue
    BY <1>6, RowsSet DEF SettingsTypes
  <2>2. saver'[h].pc = "apply" /\ saver'[h].kv = saver[h].kv
    BY <1>6 DEF SettingsTypes, SettingsTypeOK, Saver
  <2>3. SettingsTypes'
    BY <1>1, <1>2, <1>6, <2>1 DEF SettingsTypes, SettingsTypeOK
  <2>4. Named(saver'[h].kv) \cap agreed' = {}
    BY <1>6, <2>2
  <2>5. \A k \in Named(saver'[h].kv) : rows'[k] = saver'[h].kv[k]
    BY <2>1, <2>2 DEF Named
  <2>6. Agreement'
    BY <1>2, <1>4, <2>2, <2>4, <2>5 DEF Agreement
  <2>7. \A k \in agreed' : live'[k] = rows'[k]
    BY <1>1, <1>2, <1>6, <2>1, StoredValues
    DEF SettingsSurviveRestart, SettingsTypes, SettingsTypeOK
  <2> QED
    BY <2>3, <2>6, <2>7 DEF SettingsSurviveRestart
<1> QED
  BY <1>5, <1>6 DEF SaveSettings

LEMMA ApplyStep ==
  ASSUME SettingsInv, NEW h \in Savers, ApplySettings(h)
  PROVE  SettingsInv'
<1> USE DEF SettingsInv
<1>1. /\ saver[h].pc = "apply" /\ h \in Busy /\ Ended(h)
      /\ UNCHANGED <<rows, defaults, seedTodo, boot>>
      /\ live' = [live EXCEPT !["level"] = IF saver[h].kv["level"] = NoValue THEN @
                                           ELSE saver[h].kv["level"]]
  BY DEF ApplySettings, Busy
<1>2. /\ boot = "up" /\ saver' \in [Savers -> Saver]
      /\ \A i \in Savers \ {h} : saver'[i] = saver[i]
      /\ \A i \in Savers \ {h} : saver[i].alone => saver[i].pc = "idle"
      /\ saver[h].alone => \A i \in Savers \ {h} : saver[i].pc = "idle"
      /\ \A i \in Savers, k \in Keys : saver'[i].kv[k] \in Sendable(k)
      /\ \A i \in Busy' : saver'[i].alone => Busy' = {i}
  BY <1>1, RequestMoves
<1>3. saver'[h].pc = "idle"
  BY <1>1, NobodySaves DEF Ended, SettingsTypes, SettingsTypeOK
<1>4. saver[h].kv["level"] \in Levels \cup {NoValue} /\ Levels \subseteq Value
  BY DEF SettingsTypes, Keys, LiveKeys, Sendable, Stored, Value
<1>5. /\ live' \in [LiveKeys -> Value]
      /\ \A k \in LiveKeys : k # "level" => live'[k] = live[k]
      /\ live'["level"] = IF saver[h].kv["level"] = NoValue THEN live["level"]
                          ELSE saver[h].kv["level"]
      /\ \A k \in LiveKeys : live'[k] \in Stored(k)
  <2>1. live \in [LiveKeys -> Value] /\ \A k \in LiveKeys : live[k] \in Stored(k)
    BY DEF SettingsTypes, SettingsTypeOK
  <2>2. "level" \in LiveKeys /\ Stored("level") = Levels
    BY DEF LiveKeys, Stored
  <2> QED
    BY <1>1, <1>4, <2>1, <2>2
<1>6. /\ agreed' \subseteq agreed \/ saver[h].alone
      /\ agreed' \subseteq LiveKeys
  BY DEF ApplySettings, Agree, SettingsTypes, SettingsTypeOK, LiveKeys
<1>7. SettingsTypes'
  BY <1>1, <1>2, <1>5, <1>6 DEF SettingsTypes, SettingsTypeOK
<1>8. Agreement'
  <2>1. \A i \in Savers \ {h} :
          /\ saver'[i].pc \in {"interval", "persist", "apply"} =>
               Named(saver'[i].kv) \cap agreed' = {}
          /\ saver'[i].alone => saver'[i].pc \notin {"interval", "persist", "apply"}
    BY <1>2, <1>6, OthersAgree
  <2> QED
    BY <1>2, <1>3, <2>1 DEF Agreement
<1>9. \A k \in agreed' : live'[k] = rows'[k]
  <2>1. ASSUME NEW k \in agreed PROVE live'[k] = rows'[k]
    <3>1. k \in LiveKeys /\ k \in Keys /\ k \notin Named(saver[h].kv) /\ live[k] = rows[k]
      BY <1>1, <1>2, StoredValues
      DEF Agreement, SettingsTypes, SettingsTypeOK, SettingsSurviveRestart
    <3> QED
      BY <1>1, <1>5, <3>1 DEF Named
  <2>2. ASSUME NEW k \in agreed', k \notin agreed PROVE live'[k] = rows'[k]
    <3>1. saver[h].alone /\ k \in Named(saver[h].kv) /\ k = "level"
      BY <2>2 DEF ApplySettings, Agree
    <3>2. rows[k] = saver[h].kv[k]
      BY <1>1, <3>1 DEF Agreement
    <3> QED
      BY <1>1, <1>5, <3>1, <3>2 DEF Named
  <2> QED
    BY <2>1, <2>2
<1> QED
  BY <1>7, <1>8, <1>9 DEF SettingsSurviveRestart

LEMMA SettingsStep ==
  ASSUME SettingsInv, [SettingsNext]_settingsVars
  PROVE  SettingsInv'
<1>1. CASE UNCHANGED settingsVars
  BY <1>1 DEF SettingsInv, SettingsTypes, SettingsTypeOK, Agreement, SettingsSurviveRestart,
              settingsVars, Busy
<1>2. CASE SettingsNext
  BY <1>2, StartStep, PollSettingsBegin, IntervalStep, PersistStep, PutBegins, SaveStep, ApplyStep
  DEF SettingsNext
<1> QED
  BY <1>1, <1>2

\* Whatever the requests do to each other, and wherever the process ends, what a
\* request that ran alone has set is what the next start loads
\* (server.go:332-346, 739-747).
THEOREM SettingsAgree == SettingsSpec => []SettingsSurviveRestart
<1>1. SettingsInit => SettingsInv
  BY SettingsStart
<1>2. SettingsInv /\ [SettingsNext]_settingsVars => SettingsInv'
  BY SettingsStep
<1>3. SettingsInv => SettingsSurviveRestart
  BY DEF SettingsInv
<1> QED
  BY <1>1, <1>2, <1>3, PTL DEF SettingsSpec

\* What a step of the process may do to a row.
RowKept(k) == (rows[k] # NoValue /\ rows'[k] # rows[k]) =>
                 boot = "up" /\ (k = "secret" => rows'[k] \in Secrets)

LEMMA RowsKept ==
  ASSUME SettingsInv, SettingsNext
  PROVE  \A k \in Keys : RowKept(k)
<1> USE DEF RowKept
<1>1. CASE UNCHANGED rows
  BY <1>1
<1>2. ASSUME NEW l \in Keys, SeedKey(l) PROVE \A k \in Keys : RowKept(k)
  BY <1>2 DEF SeedKey, SettingsInv, SettingsTypes
<1>3. ASSUME NEW h \in Savers, SetMany(saver[h].kv), saver[h].pc # "idle"
      PROVE  \A k \in Keys : RowKept(k)
  <2>1. boot = "up"
    BY <1>3 DEF SettingsInv, SettingsTypes, Busy
  <2>2. \A k \in Keys : rows'[k] = IF k \in Named(saver[h].kv) THEN saver[h].kv[k] ELSE rows[k]
    BY <1>3, RowsSet DEF SettingsInv, SettingsTypes
  <2>3. saver[h].kv["secret"] \in Secrets \cup {NoValue}
    BY StoredValues DEF SettingsInv, SettingsTypes, Sendable
  <2> QED
    BY <2>1, <2>2, <2>3 DEF Named
<1> QED
  BY <1>1, <1>2, <1>3
  DEF SettingsNext, StartUp, LoadSettings, ProcessEnds, PostPollSettings, SetInterval,
      PersistPoll, PersistFails, PutSettings, SaveSettings, ApplySettings

\* No start, from whatever file and environment and however often it is broken
\* off, replaces a row, and no request stores a placeholder for a secret
\* (setting.go:69-78, server.go:727-738).
THEOREM StoredValuesStay == SettingsSpec => StoredValuesKept
<1>1. SettingsInit => SettingsInv
  BY SettingsStart
<1>2. SettingsInv /\ [SettingsNext]_settingsVars => SettingsInv'
  BY SettingsStep
<1>3. SettingsInv /\ [SettingsNext]_settingsVars => [\A k \in Keys : RowKept(k)]_settingsVars
  BY RowsKept
<1> QED
  BY <1>1, <1>2, <1>3, PTL DEF SettingsSpec, StoredValuesKept, RowKept

\* Rows, process and requests keep their types; no row holds a placeholder, and
\* a process that is up has a row for every key (main.go:59-72).
THEOREM SettingsTypeCorrect == SettingsSpec => []SettingsTypeOK
<1>1. SettingsInit => SettingsInv
  BY SettingsStart
<1>2. SettingsInv /\ [SettingsNext]_settingsVars => SettingsInv'
  BY SettingsStep
<1>3. SettingsInv => SettingsTypeOK
  BY DEF SettingsInv, SettingsTypes
<1> QED
  BY <1>1, <1>2, <1>3, PTL DEF SettingsSpec

-----------------------------------------------------------------------------
(* LogStream: the ring, and what is on its way to the viewers.               *)

\* The ring holds the last lines; the clients are the viewers whose handler
\* runs; the history is replayed before a line is taken from the channel.
LogInv ==
  /\ LogTypeOK
  /\ Len(buf) <= lines /\ \A i \in 1 .. Len(buf) : buf[i] = lines - Len(buf) + i
  /\ \A v \in Viewers :
       /\ v \in logClients <=> viewer[v].pc # "idle"
       /\ viewer[v].pc # "replay" => viewer[v].history = <<>>
       /\ viewer[v].oldest <= lines + 1
       /\ viewer[v].missed \subseteq 1 .. lines
  /\ ViewerSeesAll

\* seq has the lines from o to l in order, but for those in m.
Sees(seq, o, l, m) ==
  /\ \A i, j \in DOMAIN seq : i < j => seq[i] < seq[j]
  /\ {seq[i] : i \in DOMAIN seq} = (o .. l) \ m

LEMMA LinesAssociate ==
  ASSUME NEW t \in Seq(Line), NEW u \in Seq(Line), NEW w \in Seq(Line)
  PROVE  (t \o u) \o w = t \o (u \o w)
BY ConcatAssociative

LEMMA AppendedLine ==
  ASSUME NEW t \in Seq(Line), NEW e \in Line
  PROVE  /\ Append(t, e) = t \o <<e>> /\ Append(t, e) \in Seq(Line) /\ <<e>> \in Seq(Line)
BY AppendIsConcat, AppendProperties

LEMMA AppendLast ==
  ASSUME NEW t \in Seq(Line), NEW c \in Seq(Line), NEW e \in Line
  PROVE  t \o Append(c, e) = Append(t \o c, e)
<1> DEFINE l == <<e>>
<1>1. Append(c, e) = c \o l /\ l \in Seq(Line)
  BY AppendedLine
<1>2. t \o c \in Seq(Line)
  BY ConcatProperties
<1>3. Append(t \o c, e) = (t \o c) \o l
  BY <1>2, AppendedLine
<1>4. (t \o c) \o l = t \o (c \o l)
  <2> HIDE DEF l
  <2> QED
    BY ONLY <1>1, t \in Seq(Line), c \in Seq(Line), LinesAssociate
<1> QED
  BY <1>1, <1>3, <1>4

LEMMA AppendedFirst ==
  ASSUME NEW t \in Seq(Line), NEW e \in Line, NEW r \in Seq(Line)
  PROVE  Append(t, e) \o r = t \o (<<e>> \o r)
<1> DEFINE l == <<e>>
<1>1. Append(t, e) = t \o l /\ l \in Seq(Line)
  BY AppendedLine
<1>2. (t \o l) \o r = t \o (l \o r)
  <2> HIDE DEF l
  <2> QED
    BY ONLY <1>1, t \in Seq(Line), r \in Seq(Line), LinesAssociate
<1> QED
  BY <1>1, <1>2

LEMMA HeadThenTail ==
  ASSUME NEW t \in Seq(Line), t # <<>>
  PROVE  /\ Head(t) \in Line /\ Tail(t) \in Seq(Line)
         /\ <<Head(t)>> \o Tail(t) = t
<1>1. /\ Head(t) \in Line /\ Tail(t) \in Seq(Line) /\ Len(Tail(t)) = Len(t) - 1
      /\ \A i \in 1 .. Len(Tail(t)) : Tail(t)[i] = t[i + 1]
  BY HeadTailProperties
<1>2. <<Head(t)>> \in Seq(Line)
  BY <1>1
<1>3. /\ <<Head(t)>> \o Tail(t) \in Seq(Line)
      /\ Len(<<Head(t)>> \o Tail(t)) = 1 + Len(Tail(t))
      /\ \A i \in 1 .. 1 + Len(Tail(t)) : (<<Head(t)>> \o Tail(t))[i] =
           IF i <= 1 THEN <<Head(t)>>[i] ELSE Tail(t)[i - 1]
  BY <1>1, <1>2, ConcatProperties
<1>4. Len(t) \in Nat /\ Len(t) > 0 /\ Head(t) = t[1]
  OBVIOUS
<1>5. \A i \in 1 .. Len(t) : (<<Head(t)>> \o Tail(t))[i] = t[i]
  BY <1>1, <1>3, <1>4
<1> QED
  BY <1>1, <1>3, <1>4, <1>5, SeqEqual

\* What the second sequence begins with may as well be the end of the first.
LEMMA HeadMoves ==
  ASSUME NEW t \in Seq(Line), NEW u \in Seq(Line), u # <<>>
  PROVE  Append(t, Head(u)) \in Seq(Line) /\ Append(t, Head(u)) \o Tail(u) = t \o u
<1> DEFINE x == Head(u)
           r == Tail(u)
<1>1. x \in Line /\ r \in Seq(Line) /\ <<x>> \o r = u
  BY HeadThenTail
<1> HIDE DEF x, r
<1>2. Append(t, x) \in Seq(Line) /\ Append(t, x) \o r = t \o (<<x>> \o r)
  BY <1>1, AppendedLine, AppendedFirst
<1> QED
  BY <1>1, <1>2 DEF x, r

\* A sequence in three parts of which the third gets another element, or of
\* which the first takes over the first element of what follows.
LEMMA Parts ==
  ASSUME NEW s \in Seq(Line), NEW h \in Seq(Line), NEW c \in Seq(Line)
  PROVE  /\ s \o h \o c \in Seq(Line)
         /\ \A e \in Line : s \o h \o Append(c, e) = Append(s \o h \o c, e)
         /\ h # <<>> => Append(s, Head(h)) \o Tail(h) \o c = s \o h \o c
         /\ c # <<>> /\ h = <<>> => Append(s, Head(c)) \o h \o Tail(c) = s \o h \o c
         /\ <<>> \o h \o <<>> = h
<1> DEFINE sh == s \o h
<1>1. sh \in Seq(Line) /\ sh \o c \in Seq(Line)
  BY ConcatProperties
<1>2. \A e \in Line : sh \o Append(c, e) = Append(sh \o c, e)
  <2> HIDE DEF sh
  <2> QED
    BY <1>1, AppendLast
<1>3. h # <<>> => Append(s, Head(h)) \o Tail(h) \o c = sh \o c
  BY HeadMoves
<1>4. /\ \A t \in Seq(Line) : t \o <<>> = t /\ <<>> \o t = t
      /\ <<>> \in Seq(Line)
  BY ConcatEmptySeq
<1>5. c # <<>> /\ h = <<>> => Append(s, Head(c)) \o h \o Tail(c) = sh \o c
  <2> SUFFICES ASSUME c # <<>>, h = <<>>
               PROVE  Append(s, Head(c)) \o h \o Tail(c) = sh \o c
    OBVIOUS
  <2>1. Append(s, Head(c)) \in Seq(Line) /\ Append(s, Head(c)) \o Tail(c) = s \o c
    BY HeadMoves
  <2>2. Append(s, Head(c)) \o h = Append(s, Head(c)) /\ sh = s
    BY <1>4, <2>1
  <2> HIDE DEF sh
  <2> QED
    BY <2>1, <2>2
<1>6. <<>> \o h \o <<>> = h
  BY <1>4
<1> QED
  BY <1>1, <1>2, <1>3, <1>5, <1>6

\* Another line is written: it is the last in seq, or it is missed.
LEMMA SeesNext ==
  ASSUME NEW seq \in Seq(Line), NEW o \in Nat, NEW l \in Nat, NEW m,
         m \subseteq 1 .. l, o <= l + 1, l + 1 \in Line, Sees(seq, o, l, m)
  PROVE  Sees(Append(seq, l + 1), o, l + 1, m) /\ Sees(seq, o, l + 1, m \cup {l + 1})
<1> USE MaxLinesAssumption DEF Line
<1>1. \A i \in DOMAIN seq : seq[i] \in Nat /\ seq[i] <= l
  BY DEF Sees
<1> DEFINE seq2 == Append(seq, l + 1)
<1>2. /\ DOMAIN seq = 1 .. Len(seq) /\ Len(seq) \in Nat
      /\ DOMAIN seq2 = 1 .. Len(seq) + 1
      /\ \A i \in 1 .. Len(seq) : seq2[i] = seq[i]
      /\ seq2[Len(seq) + 1] = l + 1
  BY AppendProperties, LenProperties
<1> HIDE DEF seq2
<1>3. \A i, j \in DOMAIN seq2 : i < j => seq2[i] < seq2[j]
  <2> SUFFICES ASSUME NEW i \in DOMAIN seq2, NEW j \in DOMAIN seq2, i < j PROVE seq2[i] < seq2[j]
    OBVIOUS
  <2>1. i \in DOMAIN seq /\ seq2[i] = seq[i] /\ seq[i] <= l /\ seq[i] \in Nat
    BY <1>1, <1>2
  <2>2. CASE j = Len(seq) + 1
    BY <1>2, <2>1, <2>2
  <2>3. CASE j # Len(seq) + 1
    BY <1>2, <2>1, <2>3 DEF Sees
  <2> QED
    BY <2>2, <2>3
<1>4. {seq2[i] : i \in DOMAIN seq2} = {seq[i] : i \in DOMAIN seq} \cup {l + 1}
  <2>1. DOMAIN seq2 = DOMAIN seq \cup {Len(seq) + 1}
    BY <1>2
  <2> QED
    BY <1>2, <2>1
<1>5. (o .. l + 1) \ m = ((o .. l) \ m) \cup {l + 1}
  OBVIOUS
<1>6. (o .. l + 1) \ (m \cup {l + 1}) = (o .. l) \ m
  OBVIOUS
<1> QED
  BY <1>3, <1>4, <1>5, <1>6 DEF Sees, seq2

LEMMA LogStart == LogInit => LogInv
<1> SUFFICES ASSUME LogInit PROVE LogInv
  OBVIOUS
<1>1. <<>> \in Seq(Line) /\ Len(<<>>) = 0 /\ <<>> \in Seq(Line)
  OBVIOUS
<1>2. NoViewer \in Viewer /\ NoViewer.ch = <<>> /\ NoViewer.pc = "idle"
      /\ NoViewer.history = <<>> /\ NoViewer.oldest = 1 /\ NoViewer.missed = {}
  BY <1>1, MaxLinesAssumption DEF NoViewer, Viewer
<1>3. LogTypeOK
  BY <1>1, <1>2, MaxLinesAssumption, LogRingAssumption, LogBufferAssumption DEF LogInit, LogTypeOK
<1>4. ViewerSeesAll
  BY DEF LogInit, ViewerSeesAll
<1> QED
  BY <1>1, <1>2, <1>3, <1>4 DEF LogInit, LogInv

\* The parts of a viewer, and of the stream, that the steps speak of.
LEMMA ViewerParts ==
  ASSUME LogInv, NEW v \in Viewers
  PROVE  /\ viewer[v] \in Viewer
         /\ viewer[v].shown \in Seq(Line) /\ viewer[v].history \in Seq(Line)
         /\ viewer[v].ch \in Seq(Line) /\ OnItsWay(v) \in Seq(Line)
         /\ viewer[v].oldest \in Nat /\ viewer[v].missed \subseteq 1 .. lines
         /\ viewer[v].oldest <= lines + 1
         /\ lines \in Nat /\ buf \in Seq(Line) /\ Len(buf) \in Nat
         /\ v \in logClients => Sees(OnItsWay(v), viewer[v].oldest, lines, viewer[v].missed)
<1>1. /\ viewer[v] \in Viewer
      /\ viewer[v].shown \in Seq(Line) /\ viewer[v].history \in Seq(Line)
      /\ viewer[v].ch \in Seq(Line) /\ viewer[v].oldest \in Nat
      /\ lines \in Nat /\ buf \in Seq(Line) /\ Len(buf) \in Nat
  BY MaxLinesAssumption DEF LogInv, LogTypeOK, Viewer
<1>2. OnItsWay(v) \in Seq(Line)
  BY <1>1, Parts DEF OnItsWay
<1> QED
  BY <1>1, <1>2 DEF LogInv, ViewerSeesAll, Sees

\* A step of the handler of one viewer that leaves the stream's ring and lines.
LEMMA HandlerKeeps ==
  ASSUME LogInv, NEW v \in Viewers, NEW w \in Viewer,
         viewer' = [viewer EXCEPT ![v] = w], UNCHANGED <<buf, lines>>,
         logClients' \subseteq Viewers,
         \A u \in Viewers \ {v} : u \in logClients' <=> u \in logClients,
         Len(w.ch) <= LogBuffer,
         v \in logClients' <=> w.pc # "idle",
         w.pc # "replay" => w.history = <<>>,
         w.oldest <= lines + 1 /\ w.missed \subseteq 1 .. lines,
         v \in logClients' => Sees(w.shown \o w.history \o w.ch, w.oldest, lines, w.missed)
  PROVE  LogInv'
<1>1. /\ viewer' \in [Viewers -> Viewer] /\ viewer'[v] = w
      /\ \A u \in Viewers \ {v} : viewer'[u] = viewer[u]
  BY DEF LogInv, LogTypeOK
<1>2. LogTypeOK'
  BY <1>1 DEF LogInv, LogTypeOK
<1>3. ViewerSeesAll'
  <2> SUFFICES ASSUME NEW u \in logClients'
               PROVE  Sees(OnItsWay(u)', viewer'[u].oldest, lines', viewer'[u].missed)
    BY DEF ViewerSeesAll, Sees
  <2>1. CASE u = v
    BY <1>1, <2>1 DEF OnItsWay
  <2>2. CASE u # v
    <3>1. u \in Viewers \ {v} /\ u \in logClients
      BY <2>2
    <3> QED
      BY <1>1, <3>1, ViewerParts DEF OnItsWay
  <2> QED
    BY <2>1, <2>2
<1>4. \A u \in Viewers :
       /\ u \in logClients' <=> viewer'[u].pc # "idle"
       /\ viewer'[u].pc # "replay" => viewer'[u].history = <<>>
       /\ viewer'[u].oldest <= lines' + 1
       /\ viewer'[u].missed \subseteq 1 .. lines'
  BY <1>1 DEF LogInv
<1> QED
  BY <1>2, <1>3, <1>4 DEF LogInv

\* Nothing falls between the snapshot and the first line of the channel.
LEMMA LogSubscribeStep ==
  ASSUME LogInv, NEW v \in Viewers, SubscribeLog(v)
  PROVE  LogInv'
<1>1. lines \in Nat /\ buf \in Seq(Line) /\ Len(buf) \in Nat /\ Len(buf) <= lines /\ lines <= MaxLines
  BY ViewerParts DEF LogInv, LogTypeOK
<1>2. lines + 1 - Len(buf) \in 1 .. MaxLines + 1
  BY <1>1, MaxLinesAssumption
<1>4. <<>> \in Seq(Line) /\ Len(<<>>) = 0
  OBVIOUS
<1>3. /\ NoViewer \in Viewer /\ NoViewer.ch = <<>> /\ NoViewer.shown = <<>> /\ NoViewer.missed = {}
  BY MaxLinesAssumption DEF NoViewer, Viewer
<1> HIDE DEF NoViewer
<1>5. Joined \in Viewer
  BY <1>1, <1>2, <1>3 DEF Joined, Viewer
<1>6. /\ Joined.pc = "replay" /\ Joined.history = buf /\ Joined.ch = <<>> /\ Joined.shown = <<>>
      /\ Joined.oldest = lines + 1 - Len(buf) /\ Joined.missed = {}
  BY <1>3 DEF Joined, Viewer
<1> HIDE DEF Joined
<1>7. Joined.shown \o Joined.history \o Joined.ch = buf
  BY <1>1, <1>4, <1>6, Parts
<1>8. Sees(buf, lines + 1 - Len(buf), lines, {})
  <2>1. DOMAIN buf = 1 .. Len(buf) /\ \A i \in 1 .. Len(buf) : buf[i] = lines - Len(buf) + i
    BY <1>1 DEF LogInv
  <2>2. {buf[i] : i \in DOMAIN buf} = lines + 1 - Len(buf) .. lines
    <3>1. \A i \in 1 .. Len(buf) : buf[i] \in lines + 1 - Len(buf) .. lines
      BY <1>1, <2>1
    <3>2. \A n \in lines + 1 - Len(buf) .. lines :
            n - (lines - Len(buf)) \in 1 .. Len(buf) /\ buf[n - (lines - Len(buf))] = n
      BY <1>1, <2>1
    <3> QED
      BY <2>1, <3>1, <3>2
  <2>3. \A i, j \in DOMAIN buf : i < j => buf[i] < buf[j]
    BY <1>1, <2>1
  <2> QED
    BY <2>2, <2>3 DEF Sees
<1>9. /\ viewer' = [viewer EXCEPT ![v] = Joined] /\ logClients' = logClients \cup {v}
      /\ UNCHANGED <<buf, lines>> /\ logClients \subseteq Viewers
  BY DEF SubscribeLog, LogInv, LogTypeOK
<1>10. /\ Joined.oldest <= lines + 1 /\ Joined.missed \subseteq 1 .. lines
       /\ Len(Joined.ch) <= LogBuffer
  BY <1>1, <1>4, <1>6, LogBufferAssumption
<1> QED
  BY <1>5, <1>6, <1>7, <1>8, <1>9, <1>10, HandlerKeeps

LEMMA LogHandlerStep ==
  ASSUME LogInv, NEW v \in Viewers, Replay(v) \/ StreamLine(v) \/ StreamEnds(v) \/ LeaveLog(v)
  PROVE  LogInv'
<1>1. /\ UNCHANGED <<buf, lines, logClients>> /\ logClients \subseteq Viewers
      /\ viewer[v].pc # "idle" /\ v \in logClients
      /\ viewer[v].pc # "replay" => viewer[v].history = <<>>
      /\ Len(viewer[v].ch) <= LogBuffer
  BY DEF Replay, StreamLine, StreamEnds, LeaveLog, LogInv, LogTypeOK
<1>2. /\ viewer[v] \in Viewer
      /\ viewer[v].shown \in Seq(Line) /\ viewer[v].history \in Seq(Line)
      /\ viewer[v].ch \in Seq(Line)
      /\ viewer[v].missed \subseteq 1 .. lines /\ viewer[v].oldest <= lines + 1
      /\ Sees(viewer[v].shown \o viewer[v].history \o viewer[v].ch,
              viewer[v].oldest, lines, viewer[v].missed)
  BY <1>1, ViewerParts DEF OnItsWay
<1> DEFINE s == viewer[v].shown
           h == viewer[v].history
           c == viewer[v].ch
<1>3. PICK w \in Viewer :
        /\ viewer' = [viewer EXCEPT ![v] = w]
        /\ w.pc # "idle" /\ (w.pc # "replay" => w.history = <<>>)
        /\ w.oldest = viewer[v].oldest /\ w.missed = viewer[v].missed
        /\ Len(w.ch) <= LogBuffer
        /\ w.shown \o w.history \o w.ch = s \o h \o c
  <2>1. \A t \in Seq(Line) : t # <<>> => /\ Head(t) \in Line /\ Tail(t) \in Seq(Line)
                                         /\ Append(s, Head(t)) \in Seq(Line)
                                         /\ Len(Tail(t)) <= Len(t)
    <3> TAKE t \in Seq(Line)
    <3> HAVE t # <<>>
    <3>1. Head(t) \in Line /\ Tail(t) \in Seq(Line) /\ Len(Tail(t)) = Len(t) - 1
      BY HeadTailProperties
    <3> QED
      BY <1>2, <3>1, AppendProperties
  <2>2. CASE Replay(v) /\ h = <<>>
    <3> DEFINE w == [viewer[v] EXCEPT !.pc = "stream"]
    <3>1. viewer' = [viewer EXCEPT ![v] = w]
      BY <2>2 DEF Replay, LogInv, LogTypeOK
    <3>2. w \in Viewer /\ w.pc = "stream" /\ w.history = h /\ w.shown = s /\ w.ch = c
          /\ w.oldest = viewer[v].oldest /\ w.missed = viewer[v].missed
      BY <1>2 DEF Viewer
    <3> HIDE DEF w
    <3> QED
      BY <1>1, <2>2, <3>1, <3>2
  <2>3. CASE Replay(v) /\ h # <<>>
    <3> DEFINE w == [viewer[v] EXCEPT !.history = Tail(h), !.shown = Append(s, Head(h))]
    <3>1. viewer' = [viewer EXCEPT ![v] = w] /\ viewer[v].pc = "replay"
      BY <2>3 DEF Replay, LogInv, LogTypeOK
    <3>2. w \in Viewer /\ w.pc = viewer[v].pc /\ w.history = Tail(h) /\ w.shown = Append(s, Head(h))
          /\ w.ch = c /\ w.oldest = viewer[v].oldest /\ w.missed = viewer[v].missed
      <4> DEFINE rest == Tail(h)
                 shown == Append(s, Head(h))
      <4>1. rest \in Seq(Line) /\ shown \in Seq(Line) /\ viewer[v] \in Viewer
        BY <1>2, <2>1, <2>3
      <4>2. w = [viewer[v] EXCEPT !.history = rest, !.shown = shown]
        OBVIOUS
      <4> HIDE DEF rest, shown, w
      <4>3. w \in Viewer /\ w.pc = viewer[v].pc /\ w.history = rest /\ w.shown = shown
            /\ w.ch = c /\ w.oldest = viewer[v].oldest /\ w.missed = viewer[v].missed
        BY <4>1, <4>2 DEF Viewer
      <4> QED
        BY <4>3 DEF rest, shown
    <3>3. Append(s, Head(h)) \o Tail(h) \o c = s \o h \o c
      <4>1. s \in Seq(Line) /\ h \in Seq(Line) /\ c \in Seq(Line) /\ h # <<>>
        BY <1>2, <2>3
      <4> HIDE DEF s, h, c
      <4> QED
        BY ONLY <4>1, Parts
    <3> HIDE DEF w
    <3> QED
      BY <1>1, <3>1, <3>2, <3>3
  <2>4. CASE StreamLine(v)
    <3> DEFINE w == [viewer[v] EXCEPT !.ch = Tail(c), !.shown = Append(s, Head(c))]
    <3>1. viewer' = [viewer EXCEPT ![v] = w] /\ viewer[v].pc = "stream" /\ c # <<>> /\ h = <<>>
      BY <1>1, <2>4 DEF StreamLine, LogInv, LogTypeOK
    <3>2. w \in Viewer /\ w.pc = viewer[v].pc /\ w.history = h /\ w.shown = Append(s, Head(c))
          /\ w.ch = Tail(c) /\ w.oldest = viewer[v].oldest /\ w.missed = viewer[v].missed
      BY <1>2, <2>1, <3>1 DEF Viewer
    <3>3. Append(s, Head(c)) \o h \o Tail(c) = s \o h \o c
      <4>1. s \in Seq(Line) /\ h \in Seq(Line) /\ c \in Seq(Line) /\ c # <<>> /\ h = <<>>
        BY <1>2, <3>1
      <4> HIDE DEF s, h, c
      <4> QED
        BY ONLY <4>1, Parts
    <3>4. Len(Tail(c)) <= LogBuffer
      BY <1>1, <1>2, <3>1, HeadTailProperties, LogBufferAssumption
    <3> HIDE DEF w
    <3> QED
      BY <1>1, <3>1, <3>2, <3>3, <3>4
  <2>5. CASE StreamEnds(v)
    <3> DEFINE w == [viewer[v] EXCEPT !.pc = "unsubscribe"]
    <3>1. viewer' = [viewer EXCEPT ![v] = w] /\ h = <<>>
      BY <1>1, <2>5 DEF StreamEnds, LogInv, LogTypeOK
    <3>2. w \in Viewer /\ w.pc = "unsubscribe" /\ w.history = h /\ w.shown = s /\ w.ch = c
          /\ w.oldest = viewer[v].oldest /\ w.missed = viewer[v].missed
      BY <1>2 DEF Viewer
    <3> HIDE DEF w
    <3> QED
      BY <1>1, <3>1, <3>2
  <2>6. CASE LeaveLog(v)
    <3> DEFINE w == [viewer[v] EXCEPT !.gone = TRUE]
    <3>1. viewer' = [viewer EXCEPT ![v] = w]
      BY <2>6 DEF LeaveLog, LogInv, LogTypeOK
    <3>2. w \in Viewer /\ w.pc = viewer[v].pc /\ w.history = h /\ w.shown = s /\ w.ch = c
          /\ w.oldest = viewer[v].oldest /\ w.missed = viewer[v].missed
      BY <1>2 DEF Viewer
    <3> HIDE DEF w
    <3> QED
      BY <1>1, <3>1, <3>2
  <2> QED
    BY <2>2, <2>3, <2>4, <2>5, <2>6
<1> QED
  BY <1>1, <1>2, <1>3, HandlerKeeps

LEMMA UnsubscribeStep ==
  ASSUME LogInv, NEW v \in Viewers, UnsubscribeLog(v)
  PROVE  LogInv'
<1>1. /\ viewer' = [viewer EXCEPT ![v] = NoViewer] /\ logClients' = logClients \ {v}
      /\ UNCHANGED <<buf, lines>> /\ logClients \subseteq Viewers
  BY DEF UnsubscribeLog, LogInv, LogTypeOK
<1>2. /\ NoViewer \in Viewer /\ Len(NoViewer.ch) = 0 /\ NoViewer.pc = "idle"
      /\ NoViewer.history = <<>> /\ NoViewer.oldest = 1 /\ NoViewer.missed = {}
  BY MaxLinesAssumption DEF NoViewer, Viewer
<1>3. 1 <= lines + 1 /\ 0 <= LogBuffer
  BY ViewerParts, LogBufferAssumption
<1> HIDE DEF NoViewer
<1> QED
  BY <1>1, <1>2, <1>3, HandlerKeeps

\* One line for the ring and for every client, all of it under the lock.
LEMMA WriteStep ==
  ASSUME LogInv, WriteLine
  PROVE  LogInv'
<1>0. \A s, h, c \in Seq(Line), e \in Line : s \o h \o Append(c, e) = Append(s \o h \o c, e)
  BY Parts
<1> USE MaxLinesAssumption, LogRingAssumption, LogBufferAssumption
<1>1. /\ lines \in Nat /\ lines < MaxLines /\ lines' = lines + 1 /\ lines + 1 \in Line
      /\ logClients' = logClients /\ logClients \subseteq Viewers
      /\ buf \in Seq(Line) /\ Len(buf) <= LogRingSize /\ Len(buf) <= lines
  BY DEF WriteLine, LogInv, LogTypeOK, Line
<1>2. /\ buf' \in Seq(Line) /\ Len(buf') <= LogRingSize /\ Len(buf') <= lines'
      /\ \A i \in 1 .. Len(buf') : buf'[i] = lines' - Len(buf') + i
  <2>1. \A i \in 1 .. Len(buf) : buf[i] = lines - Len(buf) + i
    BY DEF LogInv
  <2>2. CASE Len(buf) >= LogRingSize
    <3>1. buf # <<>> /\ buf' = Append(Tail(buf), lines + 1)
      BY <1>1, <2>2 DEF WriteLine, PushRing
    <3>2. /\ Tail(buf) \in Seq(Line) /\ Len(Tail(buf)) = Len(buf) - 1
          /\ \A i \in 1 .. Len(Tail(buf)) : Tail(buf)[i] = buf[i + 1]
      BY <1>1, <3>1, HeadTailProperties
    <3>3. /\ buf' \in Seq(Line) /\ Len(buf') = Len(buf)
          /\ \A i \in 1 .. Len(Tail(buf)) : buf'[i] = Tail(buf)[i]
          /\ buf'[Len(buf)] = lines + 1
      BY <1>1, <3>1, <3>2, AppendProperties
    <3>4. Len(buf) \in Nat /\ Len(buf) > 0
      BY <1>1, <2>2
    <3>5. ASSUME NEW i \in 1 .. Len(buf) PROVE buf'[i] = lines + 1 - Len(buf) + i
      <4>1. CASE i = Len(buf)
        BY <1>1, <3>3, <3>4, <4>1
      <4>2. CASE i # Len(buf)
        <5>1. i \in 1 .. Len(Tail(buf)) /\ i + 1 \in 1 .. Len(buf)
          <6>1. i \in 1 .. Len(buf) - 1 /\ i + 1 \in 1 .. Len(buf)
            BY <3>4, <4>2
          <6> QED
            BY <3>2, <6>1
        <5>2. buf'[i] = buf[i + 1]
          BY <3>2, <3>3, <5>1
        <5> QED
          BY <1>1, <2>1, <3>4, <5>1, <5>2
      <4> QED
        BY <4>1, <4>2
    <3> QED
      BY <1>1, <3>3, <3>4, <3>5
  <2>3. CASE Len(buf) < LogRingSize
    <3>1. buf' = Append(buf, lines + 1)
      BY <1>1, <2>3 DEF WriteLine, PushRing
    <3>2. /\ buf' \in Seq(Line) /\ Len(buf') = Len(buf) + 1
          /\ \A i \in 1 .. Len(buf) : buf'[i] = buf[i]
          /\ buf'[Len(buf) + 1] = lines + 1
      BY <1>1, <3>1, AppendProperties
    <3> QED
      BY <1>1, <2>1, <2>3, <3>2
  <2> QED
    BY <1>1, <2>2, <2>3
<1>3. ASSUME NEW v \in Viewers
      PROVE  /\ viewer'[v] \in Viewer /\ Len(viewer'[v].ch) <= LogBuffer
             /\ viewer'[v].pc = viewer[v].pc /\ viewer'[v].history = viewer[v].history
             /\ viewer'[v].oldest = viewer[v].oldest
             /\ viewer'[v].missed \subseteq 1 .. lines + 1
             /\ v \in logClients => Sees(OnItsWay(v)', viewer'[v].oldest, lines', viewer'[v].missed)
  <2>1. /\ viewer[v] \in Viewer
        /\ viewer[v].shown \in Seq(Line) /\ viewer[v].history \in Seq(Line)
        /\ viewer[v].ch \in Seq(Line) /\ Len(viewer[v].ch) <= LogBuffer
        /\ viewer[v].oldest \in Nat /\ viewer[v].missed \subseteq 1 .. lines
        /\ viewer[v].oldest <= lines + 1
        /\ OnItsWay(v) \in Seq(Line)
        /\ v \in logClients => Sees(OnItsWay(v), viewer[v].oldest, lines, viewer[v].missed)
    BY ViewerParts DEF LogInv, LogTypeOK
  <2>2. viewer'[v] = IF v \in logClients THEN Deliver(viewer[v], lines + 1) ELSE viewer[v]
    BY DEF WriteLine
  <2>3. CASE v \notin logClients
    BY <1>1, <2>1, <2>2, <2>3
  <2>4. CASE v \in logClients /\ Len(viewer[v].ch) < LogBuffer
    <3>1. viewer'[v] = [viewer[v] EXCEPT !.ch = Append(@, lines + 1)]
      BY <2>2, <2>4 DEF Deliver
    <3>2. Append(viewer[v].ch, lines + 1) \in Seq(Line)
          /\ Len(Append(viewer[v].ch, lines + 1)) <= LogBuffer
      BY <1>1, <2>1, <2>4, AppendProperties
    <3>3. /\ viewer'[v] \in Viewer /\ viewer'[v].ch = Append(viewer[v].ch, lines + 1)
          /\ viewer'[v].pc = viewer[v].pc /\ viewer'[v].history = viewer[v].history
          /\ viewer'[v].shown = viewer[v].shown
          /\ viewer'[v].oldest = viewer[v].oldest /\ viewer'[v].missed = viewer[v].missed
      BY <2>1, <3>1, <3>2 DEF Viewer
    <3>4. OnItsWay(v)' = Append(OnItsWay(v), lines + 1)
      <4>1. viewer[v].shown \o viewer[v].history \o Append(viewer[v].ch, lines + 1) =
              Append(viewer[v].shown \o viewer[v].history \o viewer[v].ch, lines + 1)
        <5> DEFINE s == viewer[v].shown
                   h == viewer[v].history
                   c == viewer[v].ch
                   e == lines + 1
        <5>1. s \in Seq(Line) /\ h \in Seq(Line) /\ c \in Seq(Line) /\ e \in Line
          BY <1>1, <2>1
        <5> HIDE DEF s, h, c, e
        <5>2. s \o h \o Append(c, e) = Append(s \o h \o c, e)
          BY ONLY <1>0, <5>1, Zenon
        <5> QED
          BY <5>2 DEF s, h, c, e
      <4>2. OnItsWay(v)' = viewer'[v].shown \o viewer'[v].history \o viewer'[v].ch
        BY DEF OnItsWay
      <4> QED
        BY <3>3, <4>1, <4>2, Zenon DEF OnItsWay
    <3>5. Sees(Append(OnItsWay(v), lines + 1), viewer[v].oldest, lines + 1, viewer[v].missed)
      BY <1>1, <2>1, <2>4, SeesNext
    <3> QED
      BY <1>1, <2>1, <3>2, <3>3, <3>4, <3>5
  <2>5. CASE v \in logClients /\ ~(Len(viewer[v].ch) < LogBuffer)
    <3>1. viewer'[v] = [viewer[v] EXCEPT !.missed = @ \cup {lines + 1}]
      BY <2>2, <2>5 DEF Deliver
    <3>2. viewer[v].missed \cup {lines + 1} \in SUBSET Line
      BY <1>1, <2>1 DEF Viewer
    <3>3. /\ viewer'[v] \in Viewer /\ viewer'[v].ch = viewer[v].ch
          /\ viewer'[v].pc = viewer[v].pc /\ viewer'[v].history = viewer[v].history
          /\ viewer'[v].shown = viewer[v].shown
          /\ viewer'[v].oldest = viewer[v].oldest
          /\ viewer'[v].missed = viewer[v].missed \cup {lines + 1}
      BY <2>1, <3>1, <3>2 DEF Viewer
    <3>4. OnItsWay(v)' = OnItsWay(v)
      BY <3>3 DEF OnItsWay
    <3>5. Sees(OnItsWay(v), viewer[v].oldest, lines + 1, viewer[v].missed \cup {lines + 1})
      BY <1>1, <2>1, <2>5, SeesNext
    <3> QED
      BY <1>1, <2>1, <3>3, <3>4, <3>5
  <2> QED
    BY <2>3, <2>4, <2>5
<1>4. viewer' \in [Viewers -> Viewer]
  <2>1. viewer' = [v \in Viewers |-> viewer'[v]]
    BY DEF WriteLine
  <2> QED
    BY <1>3, <2>1
<1>5. LogTypeOK'
  BY <1>1, <1>2, <1>3, <1>4 DEF LogTypeOK
<1>6. ViewerSeesAll'
  BY <1>1, <1>3 DEF ViewerSeesAll, Sees
<1>7. \A v \in Viewers :
       /\ v \in logClients' <=> viewer'[v].pc # "idle"
       /\ viewer'[v].pc # "replay" => viewer'[v].history = <<>>
       /\ viewer'[v].oldest <= lines' + 1
       /\ viewer'[v].missed \subseteq 1 .. lines'
  <2> TAKE v \in Viewers
  <2>1. viewer[v].oldest <= lines' + 1
    BY <1>1, ViewerParts
  <2> QED
    BY <1>1, <1>3, <2>1 DEF LogInv
<1> QED
  BY <1>2, <1>5, <1>6, <1>7 DEF LogInv

LEMMA LogStep ==
  ASSUME LogInv, [LogNext]_logVars
  PROVE  LogInv'
<1>1. CASE UNCHANGED logVars
  <2>1. LogTypeOK'
    BY <1>1 DEF LogInv, LogTypeOK, logVars
  <2>2. \A v \in logClients : OnItsWay(v)' = OnItsWay(v)
    BY <1>1 DEF OnItsWay, logVars
  <2>3. ViewerSeesAll'
    BY <1>1, <2>2 DEF LogInv, ViewerSeesAll, logVars
  <2> QED
    BY <1>1, <2>1, <2>3 DEF LogInv, logVars
<1>2. CASE LogNext
  BY <1>2, WriteStep, LogSubscribeStep, LogHandlerStep, UnsubscribeStep DEF LogNext
<1> QED
  BY <1>1, <1>2

\* Neither the ring nor a channel exceeds its capacity (log.go:34, 49).
THEOREM LogTypeCorrect == LogSpec => []LogTypeOK
<1>1. LogInit => LogInv
  BY LogStart
<1>2. LogInv /\ [LogNext]_logVars => LogInv'
  BY LogStep
<1>3. LogInv => LogTypeOK
  BY DEF LogInv
<1> QED
  BY <1>1, <1>2, <1>3, PTL DEF LogSpec

\* Whatever is written while a viewer subscribes and replays, it gets the lines
\* of the ring and every later one once and in order, but for those that found
\* its channel full, for any capacities of both (log.go:33-55).
THEOREM EveryLineSeen == LogSpec => []ViewerSeesAll
<1>1. LogInit => LogInv
  BY LogStart
<1>2. LogInv /\ [LogNext]_logVars => LogInv'
  BY LogStep
<1>3. LogInv => ViewerSeesAll
  BY DEF LogInv
<1> QED
  BY <1>1, <1>2, <1>3, PTL DEF LogSpec

-----------------------------------------------------------------------------
(* ThumbCache: what the cache, the rows and the requests hold.               *)

ThumbTypes ==
  /\ entries \in [Names -> Pictures \cup {NoThumb}]
  /\ rowURL \in [Names -> ThumbURLs \cup {NoURL}]
  /\ objects \in [ThumbURLs -> Pictures \cup {NoThumb}]
  /\ borne \in [ThumbURLs -> SUBSET (Names \X Names)]
  /\ request \in [Requests -> Request]

Bounded == IsFiniteSet(Cached) /\ Cardinality(Cached) <= CacheSize

\* The name of an object follows all those that its handle has borne.
LastName ==
  \A u \in ThumbURLs : objects[u] # NoThumb =>
    /\ NameOf[objects[u]] \in NamesOf(u)
    /\ \A n \in NamesOf(u) : <<n, NameOf[objects[u]]>> \in borne[u]

\* A row has a handle that has borne its name.
OwnRows == \A n \in Names : rowURL[n] # NoURL => n \in NamesOf(rowURL[n])

\* What a request holds at each point of serveThumb.
OwnRequest(q) ==
  /\ q.pc # "idle" => q.name \in Names
  /\ q.pc = "fetch" => q.url \in ThumbURLs /\ q.name \in NamesOf(q.url)
  /\ q.pc = "store" => q.data \in Pictures
  /\ q.data # NoThumb => q.pc = "store" /\ Follows(q.data, q.name)

CachedFollow == \A n \in Cached : Follows(entries[n], n)

ThumbInv ==
  /\ ThumbTypes /\ Bounded /\ LastName /\ OwnRows /\ CachedFollow
  /\ \A r \in Requests : OwnRequest(request[r])

-----------------------------------------------------------------------------

LEMMA NotServedOwn == NotServed \in Request /\ OwnRequest(NotServed)
BY DEF NotServed, Request, OwnRequest

LEMMA InitThumb == ThumbInit => ThumbInv
<1> SUFFICES ASSUME ThumbInit PROVE ThumbInv
  OBVIOUS
<1>1. ThumbTypes /\ LastName /\ OwnRows
  BY NotServedOwn DEF ThumbInit, ThumbTypes, LastName, OwnRows
<1>2. \A r \in Requests : OwnRequest(request[r])
  BY NotServedOwn DEF ThumbInit
<1>3. Cached = {}
  BY DEF ThumbInit, Cached
<1>4. Bounded /\ CachedFollow
  BY <1>3, FS_EmptySet, CacheSizeAssumption DEF Bounded, CachedFollow
<1> QED
  BY <1>1, <1>2, <1>4 DEF ThumbInv

\* What leaves the cache alone leaves it bounded.
LEMMA CacheStill ==
  ASSUME Bounded, UNCHANGED entries
  PROVE  Bounded'
BY DEF Bounded, Cached

\* Storing evicts whatever is needed to stay within the limit.
LEMMA StoreBounded ==
  ASSUME ThumbInv, NEW r \in Requests, StoreThumb(r)
  PROVE  Bounded'
<1> DEFINE name == request[r].name
<1>1. PICK gone \in Evicted(name) :
        entries' = [n \in Names |-> IF n = name THEN request[r].data
                                    ELSE IF n \in gone THEN NoThumb ELSE entries[n]]
  BY DEF StoreThumb
<1>2. name \in Names /\ request[r].data \in Pictures /\ request[r].data # NoThumb
  BY ThumbNamesAssumption DEF ThumbInv, ThumbTypes, Request, OwnRequest, StoreThumb, Fetching
<1>3. IsFiniteSet(Cached) /\ Cardinality(Cached) \in Nat /\ Cardinality(Cached) <= CacheSize
  BY FS_CardinalityType DEF ThumbInv, Bounded
<1>4. gone = {} \/ \E m \in Cached : gone = {m}
  BY <1>1 DEF Evicted
<1>5. Cached' = (Cached \ gone) \cup {name}
  BY <1>1, <1>2 DEF Cached
<1>6. CASE entries[name] # NoThumb
  <2>1. gone = {} /\ name \in Cached
    BY <1>1, <1>2, <1>6 DEF Evicted, Cached
  <2>2. Cached' = Cached
    BY <1>5, <2>1
  <2> QED
    BY <1>3, <2>2 DEF Bounded
<1>7. CASE entries[name] = NoThumb /\ Cardinality(Cached) >= CacheSize
  <2>1. PICK m \in Cached : gone = {m}
    BY <1>1, <1>7 DEF Evicted
  <2>2. name \notin Cached
    BY <1>7 DEF Cached
  <2>3. IsFiniteSet(Cached \ {m}) /\ Cardinality(Cached \ {m}) = Cardinality(Cached) - 1
    BY <1>3, FS_RemoveElement
  <2>4. /\ IsFiniteSet((Cached \ {m}) \cup {name})
        /\ Cardinality((Cached \ {m}) \cup {name}) = Cardinality(Cached)
    <3> DEFINE rest == Cached \ {m}
    <3>1. name \notin rest /\ IsFiniteSet(rest)
      BY <2>2, <2>3
    <3> HIDE DEF rest
    <3>2. IsFiniteSet(rest \cup {name}) /\ Cardinality(rest \cup {name}) = Cardinality(rest) + 1
      BY <3>1, FS_AddElement
    <3> QED
      BY <1>3, <2>3, <3>2 DEF rest
  <2> QED
    BY <1>3, <1>5, <2>1, <2>4 DEF Bounded
<1>8. CASE entries[name] = NoThumb /\ ~(Cardinality(Cached) >= CacheSize)
  <2>1. gone = {} /\ name \notin Cached
    BY <1>1, <1>8 DEF Evicted, Cached
  <2>2. IsFiniteSet(Cached \cup {name}) /\ Cardinality(Cached \cup {name}) = Cardinality(Cached) + 1
    BY <1>3, <2>1, FS_AddElement
  <2>3. Cached' = Cached \cup {name}
    BY <1>5, <2>1
  <2> QED
    BY <1>3, <1>8, <2>2, <2>3, CacheSizeAssumption DEF Bounded
<1> QED
  BY <1>6, <1>7, <1>8

\* A step that changes one request, and leaves it proper.
LEMMA RequestStep ==
  ASSUME ThumbInv, NEW r \in Requests, NEW q \in Request, OwnRequest(q),
         request' = [request EXCEPT ![r] = q], UNCHANGED <<entries, rowURL, objects, borne>>
  PROVE  ThumbInv'
<1>1. Bounded'
  BY CacheStill DEF ThumbInv
<1>2. ThumbTypes' /\ LastName' /\ OwnRows' /\ CachedFollow'
  BY DEF ThumbInv, ThumbTypes, LastName, OwnRows, CachedFollow, Cached, NamesOf, Follows
<1>3. \A i \in Requests : request'[i] = IF i = r THEN q ELSE request[i]
  BY DEF ThumbInv, ThumbTypes
<1>4. \A i \in Requests : OwnRequest(request'[i])
  BY <1>3 DEF ThumbInv
<1>5. \A i \in Requests : OwnRequest(request[i])'
  BY <1>4 DEF OwnRequest, NamesOf, Follows
<1> QED
  BY <1>1, <1>2, <1>5 DEF ThumbInv

LEMMA LoadStep ==
  ASSUME ThumbInv, NEW r \in Requests, Load(r)
  PROVE  ThumbInv'
<1>1. PICK n \in Names : request' = [request EXCEPT ![r].pc = "lookup", ![r].name = n]
  BY DEF Load
<1> DEFINE q == [request[r] EXCEPT !.pc = "lookup", !.name = n]
<1>2. request[r] \in Request /\ OwnRequest(request[r]) /\ request[r].pc = "idle"
  BY DEF Load, Fetching, ThumbInv, ThumbTypes
<1>3. request[r].data = NoThumb
  BY <1>2 DEF OwnRequest
<1>4. q \in Request /\ OwnRequest(q)
  BY <1>2, <1>3 DEF Request, OwnRequest
<1>5. request' = [request EXCEPT ![r] = q]
  BY <1>1
<1> QED
  BY <1>4, <1>5, RequestStep DEF Load

LEMMA LookupStep ==
  ASSUME ThumbInv, NEW r \in Requests, LookupURL(r)
  PROVE  ThumbInv'
<1> DEFINE url == rowURL[request[r].name]
           q == [request[r] EXCEPT !.pc = "fetch", !.url = url]
<1>1. request[r] \in Request /\ OwnRequest(request[r]) /\ request[r].pc = "lookup"
  BY DEF LookupURL, Fetching, ThumbInv, ThumbTypes
<1>2. ASSUME url # NoURL PROVE q \in Request /\ OwnRequest(q)
  <2>1. url \in ThumbURLs /\ request[r].name \in NamesOf(url)
    BY <1>1, <1>2 DEF ThumbInv, ThumbTypes, OwnRows, OwnRequest
  <2> QED
    BY <1>1, <2>1 DEF Request, OwnRequest
<1>3. \/ request' = [request EXCEPT ![r] = NotServed]
      \/ url # NoURL /\ request' = [request EXCEPT ![r] = q]
  BY DEF LookupURL
<1> HIDE DEF q, url
<1> QED
  BY <1>2, <1>3, NotServedOwn, RequestStep DEF LookupURL

\* A thumbnail that is fetched follows the name that was asked for: the handle
\* has borne that name, and what has it now came last.
LEMMA GetThumbStep ==
  ASSUME ThumbInv, NEW r \in Requests, GetThumb(r)
  PROVE  ThumbInv'
<1> DEFINE thumb == objects[request[r].url]
           p == [request[r] EXCEPT !.pc = "store", !.url = NoURL, !.data = thumb]
<1>1. request[r] \in Request /\ OwnRequest(request[r]) /\ request[r].pc = "fetch"
  BY DEF GetThumb, Fetching, ThumbInv, ThumbTypes
<1>2. \/ request' = [request EXCEPT ![r] = NotServed]
      \/ thumb # NoThumb /\ request' = [request EXCEPT ![r] = p]
  BY DEF GetThumb
<1>3. ASSUME thumb # NoThumb PROVE p \in Request /\ OwnRequest(p)
  <2>1. /\ request[r].name \in Names /\ request[r].url \in ThumbURLs
        /\ request[r].name \in NamesOf(request[r].url)
    BY <1>1 DEF OwnRequest
  <2>2. thumb \in Pictures /\ <<request[r].name, NameOf[thumb]>> \in borne[request[r].url]
    BY <1>3, <2>1 DEF ThumbInv, ThumbTypes, LastName
  <2>3. Follows(thumb, request[r].name)
    BY <2>1, <2>2 DEF Follows
  <2> QED
    BY <1>1, <2>1, <2>2, <2>3 DEF Request, OwnRequest
<1> HIDE DEF p, thumb
<1> QED
  BY <1>2, <1>3, NotServedOwn, RequestStep DEF GetThumb

LEMMA StoreStep ==
  ASSUME ThumbInv, NEW r \in Requests, StoreThumb(r)
  PROVE  ThumbInv'
<1>1. request[r] \in Request /\ OwnRequest(request[r]) /\ request[r].pc = "store"
  BY DEF StoreThumb, Fetching, ThumbInv, ThumbTypes
<1>2. request' = [request EXCEPT ![r] = NotServed] /\ UNCHANGED <<rowURL, objects, borne>>
  BY DEF StoreThumb
<1>3. \A i \in Requests : request'[i] = IF i = r THEN NotServed ELSE request[i]
  BY <1>2 DEF ThumbInv, ThumbTypes
<1>4. \A i \in Requests : OwnRequest(request'[i])
  BY <1>3, NotServedOwn DEF ThumbInv
<1>5. \A i \in Requests : OwnRequest(request[i])'
  BY <1>2, <1>4 DEF OwnRequest, NamesOf, Follows
<1>6. PICK gone \in Evicted(request[r].name) :
        entries' = [n \in Names |-> IF n = request[r].name THEN request[r].data
                                    ELSE IF n \in gone THEN NoThumb ELSE entries[n]]
  BY DEF StoreThumb
<1>7. /\ request[r].data \in Pictures /\ request[r].data # NoThumb
      /\ request[r].name \in Names /\ Follows(request[r].data, request[r].name)
  BY <1>1, ThumbNamesAssumption DEF OwnRequest
<1>8. ThumbTypes' /\ LastName' /\ OwnRows'
  BY <1>2, <1>6, <1>7, NotServedOwn DEF ThumbInv, ThumbTypes, LastName, OwnRows, NamesOf
<1>9. \A n \in Cached' : Follows(entries'[n], n)
  BY <1>6, <1>7 DEF ThumbInv, ThumbTypes, CachedFollow, Cached
<1>10. CachedFollow'
  BY <1>2, <1>9 DEF CachedFollow, Follows
<1> QED
  BY <1>5, <1>8, <1>10, StoreBounded DEF ThumbInv

\* Handles only come to have borne more, and what followed a name still does.
LEMMA BorneGrows ==
  ASSUME ThumbInv, UNCHANGED <<entries, request>>,
         \A u \in ThumbURLs : borne[u] \subseteq borne'[u]
  PROVE  Bounded' /\ CachedFollow' /\ \A i \in Requests : OwnRequest(request[i])'
<1>1. \A u \in ThumbURLs : NamesOf(u) \subseteq NamesOf(u)'
  BY DEF NamesOf
<1>2. ASSUME NEW p, NEW n, Follows(p, n) PROVE Follows(p, n)'
  BY <1>2 DEF Follows
<1>3. CachedFollow'
  BY <1>2 DEF ThumbInv, CachedFollow, Cached
<1>4. ASSUME NEW i \in Requests PROVE OwnRequest(request[i])'
  BY <1>1, <1>2 DEF ThumbInv, OwnRequest
<1> QED
  BY <1>3, <1>4, CacheStill DEF ThumbInv

LEMMA TakeShotStep ==
  ASSUME ThumbInv, NEW p \in Pictures, TakeShot(p)
  PROVE  ThumbInv'
<1>1. PICK u \in ThumbURLs :
        /\ objects' = [objects EXCEPT ![u] = p]
        /\ borne' = [borne EXCEPT ![u] = @ \cup ((NamesOf(u) \cup {NameOf[p]}) \X {NameOf[p]})]
  BY DEF TakeShot
<1>2. UNCHANGED <<entries, rowURL, request>> /\ NameOf[p] \in Names
  BY ThumbNamesAssumption DEF TakeShot
<1> DEFINE more == (NamesOf(u) \cup {NameOf[p]}) \X {NameOf[p]}
<1>3. more \subseteq Names \X Names
  BY <1>2 DEF NamesOf
<1>4. borne' = [borne EXCEPT ![u] = borne[u] \cup more]
  BY <1>1
<1>5. /\ borne' \in [ThumbURLs -> SUBSET (Names \X Names)]
      /\ \A v \in ThumbURLs : borne'[v] = IF v = u THEN borne[u] \cup more ELSE borne[v]
  <2> HIDE DEF more
  <2> QED
    BY <1>3, <1>4 DEF ThumbInv, ThumbTypes
<1>6. ThumbTypes'
  BY <1>1, <1>2, <1>5 DEF ThumbInv, ThumbTypes
<1>7. \A v \in ThumbURLs : NamesOf(v)' = IF v = u THEN NamesOf(u) \cup {NameOf[p]} ELSE NamesOf(v)
  BY <1>2, <1>5 DEF NamesOf
<1>8. OwnRows'
  BY <1>2, <1>7 DEF ThumbInv, ThumbTypes, OwnRows
<1>9. ASSUME NEW v \in ThumbURLs, objects'[v] # NoThumb
      PROVE  /\ NameOf[objects'[v]] \in NamesOf(v)'
             /\ \A n \in NamesOf(v)' : <<n, NameOf[objects'[v]]>> \in borne'[v]
  <2>1. CASE v = u
    <3>1. objects'[v] = p
      BY <1>1, <2>1 DEF ThumbInv, ThumbTypes
    <3>2. \A n \in NamesOf(u) \cup {NameOf[p]} : <<n, NameOf[p]>> \in more
      OBVIOUS
    <3> QED
      BY <1>5, <1>7, <2>1, <3>1, <3>2
  <2>2. CASE v # u
    <3>1. objects'[v] = objects[v]
      BY <1>1, <2>2 DEF ThumbInv, ThumbTypes
    <3> QED
      BY <1>5, <1>7, <1>9, <2>2, <3>1 DEF ThumbInv, LastName
  <2> QED
    BY <2>1, <2>2
<1>10. LastName'
  BY <1>9 DEF LastName
<1>11. \A v \in ThumbURLs : borne[v] \subseteq borne'[v]
  BY <1>5
<1> QED
  BY <1>2, <1>6, <1>8, <1>10, <1>11, BorneGrows DEF ThumbInv

LEMMA WorldStep ==
  ASSUME ThumbInv, NEW u \in ThumbURLs,
         RemoveShot(u) \/ \E n \in Names : BindRow(u, n)
  PROVE  ThumbInv'
<1>1. UNCHANGED <<entries, borne, request>>
  BY DEF RemoveShot, BindRow
<1>2. Bounded' /\ CachedFollow' /\ \A i \in Requests : OwnRequest(request[i])'
  BY <1>1, BorneGrows
<1>3. \A v : NamesOf(v)' = NamesOf(v)
  BY <1>1 DEF NamesOf
<1>4. CASE RemoveShot(u)
  BY <1>1, <1>2, <1>3, <1>4 DEF RemoveShot, ThumbInv, ThumbTypes, LastName, OwnRows
<1>5. ASSUME NEW n \in Names, BindRow(u, n) PROVE ThumbInv'
  BY <1>1, <1>2, <1>3, <1>5 DEF BindRow, ThumbInv, ThumbTypes, LastName, OwnRows
<1> QED
  BY <1>4, <1>5

-----------------------------------------------------------------------------

LEMMA ThumbStep ==
  ASSUME ThumbInv, [ThumbNext]_thumbVars
  PROVE  ThumbInv'
<1>1. CASE UNCHANGED thumbVars
  BY <1>1 DEF thumbVars, ThumbInv, ThumbTypes, Bounded, LastName, OwnRows, CachedFollow,
              Cached, OwnRequest, NamesOf, Follows
<1> QED
  BY <1>1, LoadStep, LookupStep, GetThumbStep, StoreStep, TakeShotStep, WorldStep
  DEF ThumbNext

LEMMA ThumbInvariant == ThumbSpec => []ThumbInv
<1>1. ThumbInv /\ [ThumbNext]_thumbVars => ThumbInv'
  BY ThumbStep
<1> QED
  BY InitThumb, <1>1, PTL DEF ThumbSpec

LEMMA ThumbFacts == ThumbInv => CacheBounded /\ ThumbIsOfName
<1>1. ThumbInv => CacheBounded
  BY DEF ThumbInv, ThumbTypes, Bounded, CacheBounded
<1>2. ThumbInv => ThumbIsOfName
  BY DEF ThumbInv, CachedFollow, ThumbIsOfName, OwnRequest
<1> QED
  BY <1>1, <1>2

\* The cache stays within its limit, whatever misses at once (cache.go:32-42).
THEOREM CacheStaysBounded == ThumbSpec => []CacheBounded
BY ThumbInvariant, ThumbFacts, PTL

\* A picture is never shown with the thumbnail of what its handle held before,
\* nor with that of another handle, however requests, listings, deletions and
\* reused handles interleave, for any number of each (server.go:470-512).
THEOREM ThumbsKeepTheirNames == ThumbSpec => []ThumbIsOfName
BY ThumbInvariant, ThumbFacts, PTL
=============================================================================
