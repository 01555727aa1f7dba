--------------------------- MODULE MCServicesProofs ---------------------------
(* The parts beside the pipeline together: in a behaviour of MCServices every *)
(* part keeps the invariant it has alone, for every value of the constants.   *)
EXTENDS MCServices, WebPushProofs, ServicesProofs, EnumerationProofs

ServicesInv == PushInv /\ LogInv /\ ThumbInv /\ SettingsInv /\ ScanInv /\ EnumTypeOK

\* A step of the whole is a step of each part, or leaves it as it is.
LEMMA PartSteps ==
  ASSUME [Next]_vars
  PROVE  /\ [PushNext]_pushVars /\ [LogNext]_logVars /\ [ThumbNext]_thumbVars
         /\ [SettingsNext]_settingsVars /\ [LanNext]_lanVars /\ [EnumNext]_enumVars
BY DEF Next, vars

LEMMA ServicesInvariant == Spec => []ServicesInv
<1>1. Init => ServicesInv
  BY InitPush, LogStart, InitThumb, SettingsStart, InitScan, EnumStart DEF Init, ServicesInv
<1>2. ServicesInv /\ [Next]_vars => ServicesInv'
  <2> SUFFICES ASSUME ServicesInv, [Next]_vars PROVE ServicesInv'
    OBVIOUS
  <2>1. PushInv' /\ LogInv' /\ ThumbInv'
    BY PartSteps, PushInvStep, LogStep, ThumbStep DEF ServicesInv
  <2>2. SettingsInv' /\ ScanInv' /\ EnumTypeOK'
    BY PartSteps, SettingsStep, ScanStep, EnumStep DEF ServicesInv
  <2> QED
    BY <2>1, <2>2 DEF ServicesInv
<1> QED
  BY <1>1, <1>2, PTL DEF Spec

\* The variables of every part have their types, and no channel, ring or queue
\* exceeds its capacity, for any capacities (server.go:234, log.go:33-55).
THEOREM ServicesTypeCorrect == Spec => []ServicesTypeOK
<1>1. ServicesInv => ServicesTypeOK
  BY DEF ServicesInv, PushInv, LogInv, SettingsInv, SettingsTypes, ServicesTypeOK
<1> QED
  BY ServicesInvariant, <1>1, PTL

\* What each part promises alone it keeps beside the others: no broadcast sends
\* on a closed channel, a page at rest shows the newest list, a viewer gets every
\* line, the cache is bounded and keeps names and thumbnails together, settings
\* survive a restart and a scan loses no camera.
THEOREM ServicesSafe ==
  Spec => [](/\ NoSendOnClosed /\ PageIsNewest /\ ViewerSeesAll /\ CacheBounded
             /\ ThumbIsOfName /\ SettingsSurviveRestart /\ LanTypeOK /\ NothingLost)
<1>1. ServicesInv => NoSendOnClosed /\ PageIsNewest
  BY ClosedIsLeft, RestingPages DEF ServicesInv
<1>2. ServicesInv => ViewerSeesAll /\ CacheBounded /\ ThumbIsOfName
  BY ThumbFacts DEF ServicesInv, LogInv
<1>3. ServicesInv => SettingsSurviveRestart /\ LanTypeOK /\ NothingLost
  BY ScanTypes DEF ServicesInv, SettingsInv, ScanInv
<1> QED
  BY ServicesInvariant, <1>1, <1>2, <1>3, PTL

\* No start and no request of the whole replaces a row but as a settings request
\* does (setting.go:69-78, server.go:727-738).
THEOREM ServicesKeepValues == Spec => StoredValuesKept
<1>1. ServicesInv /\ [Next]_vars => [\A k \in Keys : RowKept(k)]_settingsVars
  BY PartSteps, RowsKept DEF ServicesInv
<1> QED
  BY ServicesInvariant, <1>1, PTL DEF Spec, StoredValuesKept, RowKept

\* Whichever cards the camera may hold, a listing that succeeds names every
\* picture once and none that is known (objects.go:139-207).
THEOREM ServicesListEachOnce ==
  Spec => [](ListImages.ok => NamesOnce(ListImages) /\ NamesNew(ListImages))
BY ServicesInvariant, ListedOnce, PTL DEF ServicesInv

\* If all cards are plain, a listing that succeeds is faithful: it misses no
\* picture while no question fails, and tags each with its own folder
\* (objects.go:134-341).
THEOREM ServicesListFaithfully ==
  ASSUME \A c \in Layouts : IsPlain(c)
  PROVE  Spec => []ListingIsFaithful
<1>1. EnumTypeOK => ListingIsFaithful
  BY PlainFaithful
<1> QED
  BY ServicesInvariant, <1>1, PTL DEF ServicesInv
=============================================================================
