--------------------------- MODULE ObjectEnumeration ---------------------------
(* How the pictures of a camera are listed (internal/canon/objects.go): the   *)
(* folders under DCIM, or a tree of virtual handles, are discovered by asking *)
(* for the children and the description of one handle after the other, then   *)
(* every folder is walked; handles that the poller knows are skipped.  The    *)
(* card changes between listings and any question may fail.  Children are     *)
(* reported in the order of their handles.                                    *)
EXTENDS Naturals, Sequences, FiniteSets, TLC

CONSTANTS Layouts,      \* how cards are laid out, see below
          MaxDepth,     \* folders deeper than this are not walked: 8
          MaxBreaks     \* bound: questions that start to fail

VARIABLES
  card,     \* one of Layouts
  present,  \* pictures on the card
  taken,    \* pictures taken so far, by handle; a handle is not given twice
  failing,  \* the question that the camera fails now, in one phase of a listing
  breaks,
  known     \* Poller.imageHandles: pictures listed so far, which a listing skips

enumVars == <<card, present, taken, failing, breaks, known>>

Root == 0
NoQuestion == <<"none", "none", 0>>

\* A card has a sequence of storages, each the set of handles at its root, the
\* children below every other handle, the description of each object, and the
\* virtual handles, 0x80000000 and more; the camera refuses to describe a virtual
\* container of format none.  tag is the name of the folder that a picture is in,
\* empty if it has none.
ObjectsOf(c) == DOMAIN c.object
PicturesOf(c) == {h \in ObjectsOf(c) : c.object[h].format = "image"}
Virtual(h) == h \in card.virtual

\* A card is a forest: an object is at the root of one storage or below one other
\* object, nothing is below a picture, and storages are apart.
RootsOf(c) == UNION {c.root[i] : i \in DOMAIN c.root}
StorageMap(c, storage) ==
  /\ \A i \in DOMAIN c.root : \A h \in c.root[i] : storage[h] = i
  /\ \A p \in ObjectsOf(c) : \A h \in c.below[p] : storage[h] = storage[p]

IsForest(c) ==
  /\ IsFiniteSet(ObjectsOf(c)) /\ ObjectsOf(c) \subseteq Nat \ {Root}
  /\ c.virtual \subseteq ObjectsOf(c)
  /\ c.root \in Seq(SUBSET ObjectsOf(c))
  /\ c.below \in [ObjectsOf(c) -> SUBSET ObjectsOf(c)]
  /\ \A h \in PicturesOf(c) : c.below[h] = {}
  /\ \A p \in ObjectsOf(c) : c.below[p] \cap RootsOf(c) = {}
  /\ \A p, q \in ObjectsOf(c) : p # q => c.below[p] \cap c.below[q] = {}
  /\ \E storage \in [ObjectsOf(c) -> DOMAIN c.root] : StorageMap(c, storage)

ASSUME LayoutsAssumption == \A c \in Layouts : IsForest(c)
ASSUME BoundsAssumption == MaxDepth \in Nat /\ MaxBreaks \in Nat

Questions(c) ==
  {"discover", "walk"} \X {"children", "info"} \X ObjectsOf(c)
    \cup {<<"discover", "children", Root>>, <<"walk", "children", Root>>, <<"walk", "storages", Root>>}

\* The state of the camera and of the poller has its type; only pictures that
\* were taken are known.
EnumTypeOK ==
  /\ card \in Layouts
  /\ present \subseteq taken /\ taken \subseteq PicturesOf(card)
  /\ known \subseteq taken
  /\ failing \in Questions(card) \cup {NoQuestion}
  /\ breaks \in 0 .. MaxBreaks

EnumInit ==
  /\ card \in Layouts
  /\ present = {} /\ taken = {}
  /\ failing = NoQuestion /\ breaks = 0
  /\ known = {}

-----------------------------------------------------------------------------
(* What the camera answers.                                                  *)

Fails(phase, kind, h) == failing = <<phase, kind, h>>

\* getObjectHandles; the storage is a set of handles, for its root.
Children(storage, parent) ==
  {h \in IF parent = Root THEN storage ELSE card.below[parent] :
     h \in PicturesOf(card) => h \in present}

\* getObjectInfo.
InfoFails(phase, h) == Fails(phase, "info", h) \/ card.object[h].format = "none"
IsFolder(h) == card.object[h].format = "folder"

\* getStorageIDs; after an error, all storages at once.
Storages == IF Fails("walk", "storages", Root)
            THEN <<RootsOf(card)>> ELSE card.root

-----------------------------------------------------------------------------
(* discoverDCIMFolders.                                                      *)

\* In the discovery a question that fails is skipped.
ReadableFolder(h) == ~InfoFails("discover", h) /\ IsFolder(h)
ChildrenIfAny(s, h) == IF Fails("discover", "children", h) THEN {} ELSE Children(s, h)

\* Of folders with the same name the first is kept.
FirstOfName(folders) ==
  {f \in folders : \A g \in folders : g.name = f.name => g.handle >= f.handle}

\* Pass 1: the folders in the first DCIM.
NamedFolders(s) ==
  LET dcim == {h \in ChildrenIfAny(s, Root) : ReadableFolder(h) /\ card.object[h].name = "DCIM"}
      first == CHOOSE h \in dcim : \A g \in dcim : h <= g
      named == {h \in ChildrenIfAny(s, first) :
                  ReadableFolder(h) /\ card.object[h].name \notin {"", "DCIM"}}
  IN IF dcim = {} THEN {}
     ELSE FirstOfName({[name |-> card.object[h].name, handle |-> h] : h \in named})

\* Virtual containers two levels down with a leaf in them.
LeafContainers(s) ==
  LET tops == {h \in ChildrenIfAny(s, Root) : Virtual(h)}
      IsLeaf(h) == ~Fails("discover", "children", h) /\ Children(s, h) = {}
  IN {h \in UNION {ChildrenIfAny(s, top) : top \in tops} :
        Virtual(h) /\ \E leaf \in ChildrenIfAny(s, h) : IsLeaf(leaf)}

\* Pass 2: these, under the name that the camera gives or under a number.
VirtualFolders(s) ==
  LET containers == LeafContainers(s)
      Given(h) == IF ReadableFolder(h) THEN card.object[h].name ELSE ""
      Repeats(h) == Given(h) # "" /\ \E g \in containers : g < h /\ Given(g) = Given(h)
      Number(h) == Cardinality({g \in containers : g <= h /\ ~Repeats(g)})
      Name(h) == IF Given(h) # "" THEN Given(h) ELSE "folder" \o ToString(Number(h))
  IN FirstOfName({[name |-> Name(h), handle |-> h] : h \in containers})

DiscoverFolders(s) == IF NamedFolders(s) # {} THEN NamedFolders(s) ELSE VirtualFolders(s)

-----------------------------------------------------------------------------
(* enumerateObjects and listImages.                                          *)

\* The folder of the caller; for a virtual leaf without one, the folder that the
\* camera reports as its parent.
Tag(h, folder, byHandle) ==
  IF folder # "" \/ ~Virtual(h) THEN folder
  ELSE IF \E f \in byHandle : f.handle = card.object[h].parent
  THEN (CHOOSE f \in byHandle : f.handle = card.object[h].parent).name
  ELSE ""

Failed == [ok |-> FALSE, images |-> {}]

\* Both results; the first error ends it all.
Both(a, b) == IF a.ok /\ b.ok THEN [ok |-> TRUE, images |-> a.images \cup b.images] ELSE Failed

\* Faulty variant of Skipped: every handle is walked again.
SkippedNone(h) == FALSE

Skipped(h) == h \in known

IsContainer(s, h) == IF Virtual(h) THEN Children(s, h) # {} ELSE IsFolder(h)

NextLevel(s, parents) == {h \in UNION {Children(s, p) : p \in parents} : ~Skipped(h)}

\* What is walked below top, by depth.
LevelsBelow(s, top) ==
  LET Level[d \in 0 .. MaxDepth] ==
        NextLevel(s, IF d = 0 THEN {top} ELSE {h \in Level[d - 1] : IsContainer(s, h)})
  IN Level

Walked(s, top) == UNION {LevelsBelow(s, top)[d] : d \in 0 .. MaxDepth}

\* A question fails that the walk asks: for the children of a container, unless
\* it is too deep, and of whatever is virtual; for the description of the rest.
WalkFails(s, top) ==
  LET inner == UNION {LevelsBelow(s, top)[d] : d \in 0 .. MaxDepth - 1}
      walked == Walked(s, top)
  IN \/ \E h \in {top} \cup {g \in inner : IsContainer(s, g)} \cup {g \in walked : Virtual(g)} :
          Fails("walk", "children", h)
     \/ \E h \in walked : ~(Virtual(h) /\ IsContainer(s, h)) /\ InfoFails("walk", h)

\* The pictures below top, tagged with folder.
Enumerate(s, top, folder, byHandle) ==
  IF WalkFails(s, top) THEN Failed
  ELSE [ok |-> TRUE, images |-> {[handle |-> h, tag |-> Tag(h, folder, byHandle)] :
                                   h \in Walked(s, top) \cap PicturesOf(card)}]

\* The folders of one storage, then the whole tree if nothing was found and
\* nothing is known; the whole tree at once if there are no folders.
ListFolders(before, s, folders) ==
  LET parts == {Enumerate(s, f.handle, f.name, folders) : f \in folders}
  IN IF \A p \in parts : p.ok
     THEN [ok |-> TRUE, images |-> before.images \cup UNION {p.images : p \in parts}]
     ELSE Failed

ListStorage(before, s) ==
  LET folders == DiscoverFolders(s)
      listed == ListFolders(before, s, folders)
  IN IF folders = {} THEN Both(before, Enumerate(s, Root, "", {}))
     ELSE IF listed.ok /\ listed.images = {} /\ known = {}
     THEN Enumerate(s, Root, "", folders)
     ELSE listed

Nothing == [ok |-> TRUE, images |-> {}]

\* Faulty variant of ListImages: the loop ends after the first storage.
ListFirstStorage == ListStorage(Nothing, Storages[1])

\* The result after each storage.
ListedUpto ==
  LET Upto[i \in 0 .. Len(Storages)] ==
        IF i = 0 THEN Nothing
        ELSE IF Upto[i - 1].ok THEN ListStorage(Upto[i - 1], Storages[i]) ELSE Failed
  IN Upto

ListImages == ListedUpto[Len(Storages)]

Handles(images) == {i.handle : i \in images}

-----------------------------------------------------------------------------

\* One poll, under the client's mutex; the first, full listing is a delta to
\* nothing known.  After an error nothing is remembered.
Scan ==
  /\ LET r == ListImages
     IN known' = IF r.ok THEN known \cup Handles(r.images) ELSE known
  /\ UNCHANGED <<card, present, taken, failing, breaks>>

\* DeleteObject after an upload, and EvictHandle.
ProxyDeletes(h) ==
  /\ h \in present \cap known
  /\ present' = present \ {h}
  /\ known' = known \ {h}
  /\ UNCHANGED <<card, taken, failing, breaks>>

TakePicture(h) ==
  /\ h \in PicturesOf(card) \ taken
  /\ taken' = taken \cup {h}
  /\ present' = present \cup {h}
  /\ UNCHANGED <<card, failing, breaks, known>>

UserDeletes(h) ==
  /\ h \in present
  /\ present' = present \ {h}
  /\ UNCHANGED <<card, taken, failing, breaks, known>>

Break ==
  /\ failing = NoQuestion /\ breaks < MaxBreaks
  /\ breaks' = breaks + 1
  /\ failing' \in Questions(card)
  /\ UNCHANGED <<card, present, taken, known>>

Repair ==
  /\ failing # NoQuestion
  /\ failing' = NoQuestion
  /\ UNCHANGED <<card, present, taken, breaks, known>>

EnumNext ==
  \/ Scan \/ Break \/ Repair
  \/ \E h \in PicturesOf(card) : ProxyDeletes(h) \/ TakePicture(h) \/ UserDeletes(h)

EnumSpec == EnumInit /\ [][EnumNext]_enumVars /\ WF_enumVars(Scan) /\ WF_enumVars(Repair)

-----------------------------------------------------------------------------
(* Properties.                                                               *)

\* What a listing may tag a picture with: its folder; a number if the folder is
\* virtual and has no name, or none that could be read; nothing if it has no
\* folder, or none that could be read.
MayTag(h) ==
  LET own == card.tag[h]
      number == IF Virtual(h) THEN {"folder1", "folder2"} ELSE {}
  IN IF failing = NoQuestion /\ own # "" THEN {own} ELSE {"", own} \cup number

\* Whenever a listing succeeds, it names no picture twice, under two folders, and
\* none that has gone or is known; no picture gets the name of another folder;
\* and if no question failed every other picture is named (objects.go:134-137,
\* 162-203).
NamesOnce(r) == Cardinality(r.images) = Cardinality(Handles(r.images))
NamesNew(r) == Handles(r.images) \subseteq present \ known
NamesAll(r) == failing = NoQuestion => present \ known \subseteq Handles(r.images)
TagsAreOwn(r) == \A i \in r.images : i.tag \in MayTag(i.handle)

ListingIsFaithful ==
  LET r == ListImages
  IN r.ok => NamesOnce(r) /\ NamesNew(r) /\ NamesAll(r) /\ TagsAreOwn(r)

\* Cards for which ListingIsFaithful is a theorem: no virtual handles, no folder
\* too deep, one DCIM in a storage and no two folders of one name in it.  Either
\* all pictures of a storage are in such folders, each in its home and tagged with
\* its name, or none is.
FoldersOf(c, i) ==
  LET IsFolderOf(h) == c.object[h].format = "folder"
      dcim == {h \in c.root[i] : IsFolderOf(h) /\ c.object[h].name = "DCIM"}
  IN {h \in UNION {c.below[t] : t \in dcim} : IsFolderOf(h) /\ c.object[h].name \notin {"", "DCIM"}}

DepthMap(c, depth) ==
  \A h \in ObjectsOf(c) :
    \/ depth[h] = 0 /\ h \in RootsOf(c)
    \/ \E p \in ObjectsOf(c) : /\ h \in c.below[p] /\ c.object[p].format = "folder"
                               /\ depth[h] = depth[p] + 1

HomeMap(c, home) ==
  /\ \A h \in RootsOf(c) : home[h] = Root
  /\ \A p \in ObjectsOf(c) : \A h \in c.below[p] :
       home[h] = IF \E i \in DOMAIN c.root : h \in FoldersOf(c, i) THEN h ELSE home[p]

IsPlain(c) ==
  /\ c.virtual = {}
  /\ \A i \in DOMAIN c.root : \A t, u \in c.root[i] :
       /\ c.object[t].format = "folder" /\ c.object[t].name = "DCIM"
       /\ c.object[u].format = "folder" /\ c.object[u].name = "DCIM"
       => t = u
  /\ \A i \in DOMAIN c.root : \A f, g \in FoldersOf(c, i) :
       c.object[f].name = c.object[g].name => f = g
  /\ \E depth \in [ObjectsOf(c) -> 0 .. MaxDepth] : DepthMap(c, depth)
  /\ \E home \in [ObjectsOf(c) -> ObjectsOf(c) \cup {Root}] :
       /\ HomeMap(c, home)
       /\ \A h \in PicturesOf(c) : c.tag[h] = IF home[h] = Root THEN "" ELSE c.object[home[h]].name
       /\ \E storage \in [ObjectsOf(c) -> DOMAIN c.root] :
            /\ StorageMap(c, storage)
            /\ \A h \in PicturesOf(c) : FoldersOf(c, storage[h]) # {} => home[h] \in FoldersOf(c, storage[h])

\* Every picture that stays on the card is listed, whatever questions fail on
\* the way and however the camera lays out its pictures (objects.go:134-203).
EveryPictureListed ==
  \A h \in UNION {PicturesOf(c) : c \in Layouts} : h \in present ~> (h \in known \/ h \notin present)
=============================================================================
