------------------------------ MODULE MCServices ------------------------------
(* The parts of the process beside the pipeline, which share no state: the    *)
(* live image list, the log stream, the thumbnails, the settings, the search  *)
(* for cameras and the listing of a card.  A behaviour moves one of them,     *)
(* active, and leaves the others as they start: every property here is about  *)
(* one part, and no step of another part changes or reads its state.          *)
EXTENDS WebPush, LogStream, ThumbCache, Settings, LanScan, ObjectEnumeration

CONSTANTS fa, fb,                  \* filenames
          a1, b1,                  \* pictures: one of each name
          ua, ub                   \* handles

VARIABLE active

vars == <<active, pushVars, logVars, thumbVars, settingsVars, lanVars, enumVars>>

\* Every picture can get either handle, and every handle any picture.
NamesDef == {fa, fb}
PicturesDef == {a1, b1}
NameOfDef == (a1 :> fa @@ b1 :> fb)
ThumbURLsDef == {ua, ub}

LevelsDef == {"info", "debug"}

Object(f, n, p) == [format |-> f, name |-> n, parent |-> p]

\* The pictures are the handles 10 and 11 on every card.
\* DCIM with two folders, beside an object that is no image.
DCIMCard ==
  [root |-> <<{5, 1}>>, virtual |-> {},
   below |-> (1 :> {2, 3} @@ 2 :> {10} @@ 3 :> {11} @@ 5 :> {} @@ 10 :> {} @@ 11 :> {}),
   object |-> (1 :> Object("folder", "DCIM", 0) @@ 2 :> Object("folder", "100CANON", 1)
                 @@ 3 :> Object("folder", "101CANON", 1) @@ 5 :> Object("other", "MISC", 0)
                 @@ 10 :> Object("image", "IMG", 2) @@ 11 :> Object("image", "IMG", 3)),
   tag |-> (10 :> "100CANON" @@ 11 :> "101CANON")]

\* A first storage without folders and a second with DCIM.
TwoStorages ==
  [root |-> <<{10}, {1}>>, virtual |-> {},
   below |-> (1 :> {2} @@ 2 :> {11} @@ 10 :> {} @@ 11 :> {}),
   object |-> (1 :> Object("folder", "DCIM", 0) @@ 2 :> Object("folder", "100CANON", 1)
                 @@ 10 :> Object("image", "IMG", 0) @@ 11 :> Object("image", "IMG", 2)),
   tag |-> (10 :> "" @@ 11 :> "100CANON")]

\* Virtual containers in a virtual container, one of them with a name.
VirtualTree ==
  [root |-> <<{1}>>, virtual |-> {1, 2, 3, 10, 11},
   below |-> (1 :> {2, 3} @@ 2 :> {10} @@ 3 :> {11} @@ 10 :> {} @@ 11 :> {}),
   object |-> (1 :> Object("none", "", 0) @@ 2 :> Object("folder", "100CANON", 1)
                 @@ 3 :> Object("none", "", 1) @@ 10 :> Object("image", "IMG", 2)
                 @@ 11 :> Object("image", "IMG", 3)),
   tag |-> (10 :> "100CANON" @@ 11 :> "")]

\* Smartphone mode: DCIM describes the folders, a virtual container has the
\* pictures, which name the real folder as their parent.
SmartphoneCard ==
  [root |-> <<{1, 3}>>, virtual |-> {3, 10, 11},
   below |-> (1 :> {2} @@ 2 :> {} @@ 3 :> {10, 11} @@ 10 :> {} @@ 11 :> {}),
   object |-> (1 :> Object("folder", "DCIM", 0) @@ 2 :> Object("folder", "100CANON", 1)
                 @@ 3 :> Object("none", "", 0) @@ 10 :> Object("image", "IMG", 2)
                 @@ 11 :> Object("image", "IMG", 2)),
   tag |-> (10 :> "100CANON" @@ 11 :> "100CANON")]

OrdinaryCards == {DCIMCard, TwoStorages, VirtualTree}
Smartphone == {SmartphoneCard}

ASSUME SomeCardsArePlain == IsPlain(DCIMCard) /\ IsPlain(TwoStorages)

-----------------------------------------------------------------------------

Init ==
  /\ active \in {"push", "log", "thumb", "settings", "lan", "card"}
  /\ PushInit /\ LogInit /\ ThumbInit /\ SettingsInit /\ LanInit /\ EnumInit
  /\ active = "card" \/ card = CHOOSE c \in Layouts : TRUE
  /\ active = "settings" \/ defaults = CHOOSE d \in Defaults : TRUE

Next ==
  \/ /\ active = "push" /\ PushNext
     /\ UNCHANGED <<active, logVars, thumbVars, settingsVars, lanVars, enumVars>>
  \/ /\ active = "log" /\ LogNext
     /\ UNCHANGED <<active, pushVars, thumbVars, settingsVars, lanVars, enumVars>>
  \/ /\ active = "thumb" /\ ThumbNext
     /\ UNCHANGED <<active, pushVars, logVars, settingsVars, lanVars, enumVars>>
  \/ /\ active = "settings" /\ SettingsNext
     /\ UNCHANGED <<active, pushVars, logVars, thumbVars, lanVars, enumVars>>
  \/ /\ active = "lan" /\ LanNext
     /\ UNCHANGED <<active, pushVars, logVars, thumbVars, settingsVars, enumVars>>
  \/ /\ active = "card" /\ EnumNext
     /\ UNCHANGED <<active, pushVars, logVars, thumbVars, settingsVars, lanVars>>

\* The fairness of each part, for the part that moves.
Spec ==
  /\ Init /\ [][Next]_vars
  /\ \A g \in Updaters : WF_pushVars(active = "push" /\ Broadcast(g))
  /\ \A c \in Conns : /\ WF_pushVars(active = "push" /\ HandleWS(c))
                      /\ WF_pushVars(active = "push" /\ Write(c))
  /\ \A v \in Viewers : /\ WF_logVars(active = "log" /\ HandleLogStream(v))
                        /\ SF_logVars(active = "log" /\ StreamEnds(v))
  /\ WF_lanVars(active = "lan" /\ Discover)
  /\ \A a \in Addresses : WF_lanVars(active = "lan" /\ Goroutine(a))
  /\ WF_enumVars(active = "card" /\ Scan)
  /\ WF_enumVars(active = "card" /\ Repair)

-----------------------------------------------------------------------------

\* The variables of every part have their types, and no channel, ring or queue
\* of theirs exceeds its capacity.
ServicesTypeOK == PushTypeOK /\ LogTypeOK /\ SettingsTypeOK /\ EnumTypeOK
=============================================================================
