--------------------------- MODULE EnumerationProofs ---------------------------
(* Theorems about ObjectEnumeration for every depth and every set of cards:   *)
(* what the walk of a tree, the discovery of folders and the loop over the    *)
(* storages list.  The walk and the loop are recursive functions; that they   *)
(* satisfy their equations, and what holds of every level and every storage,  *)
(* follows by induction on a set of numbers.                                  *)
EXTENDS ObjectEnumeration, FiniteSetTheorems, WellFoundedInduction, TLAPS

-----------------------------------------------------------------------------
(* Induction.                                                                *)

\* A set of numbers that is not empty has a least element.
LEMMA LeastElement ==
  ASSUME NEW T, T \subseteq Nat, T # {}
  PROVE  \E x \in T : \A y \in T : x <= y
<1> DEFINE R == OpToRel(<, Nat)
<1>1. IsWellFoundedOn(R, Nat)
  BY NatLessThanWellFounded
<1>2. \A x, y \in Nat : x < y => <<x, y>> \in R
  BY DEF OpToRel
<1> HIDE DEF R
<1>3. PICK x \in T : \A y \in T : ~ (<<y, x>> \in R)
  <2>1. T \subseteq Nat /\ T # {}
    OBVIOUS
  <2> QED
    BY <1>1, <2>1, WFMin
<1>4. ASSUME NEW y \in T PROVE x <= y
  <2>1. x \in Nat /\ y \in Nat
    OBVIOUS
  <2>2. ~ (y < x)
    BY <1>2, <1>3, <2>1
  <2> QED
    BY <2>1, <2>2
<1> QED
  BY <1>4

\* A set that holds 0 and the successor of each of its numbers holds them all.
LEMMA SetInduction ==
  ASSUME NEW S, 0 \in S, \A n \in Nat : n \in S => n + 1 \in S
  PROVE  Nat \subseteq S
<1> DEFINE T == Nat \ S
<1> SUFFICES ASSUME T # {} PROVE FALSE
  OBVIOUS
<1>1. PICK x \in T : \A y \in T : x <= y
  <2>1. T \subseteq Nat
    OBVIOUS
  <2> HIDE DEF T
  <2> QED
    BY <2>1, LeastElement
<1>2. x # 0 /\ x - 1 \in Nat /\ x - 1 < x /\ x - 1 + 1 = x
  OBVIOUS
<1>3. x - 1 \notin T
  BY <1>1, <1>2
<1> QED
  BY <1>2, <1>3

\* The same up to a bound.
LEMMA BoundedInduction ==
  ASSUME NEW N \in Nat, NEW S, 0 \in S,
         \A n \in Nat : n < N /\ n \in S => n + 1 \in S
  PROVE  0 .. N \subseteq S
<1> DEFINE U == {n \in Nat : n <= N => n \in S}
<1>1. 0 \in U
  OBVIOUS
<1>2. \A n \in Nat : n \in U => n + 1 \in U
  OBVIOUS
<1>3. Nat \subseteq U
  <2> HIDE DEF U
  <2> QED
    BY <1>1, <1>2, SetInduction
<1> QED
  BY <1>3

-----------------------------------------------------------------------------
(* The walk of a tree.                                                       *)

\* A level is walked below the containers of the one before.
LEMMA LevelsEquation ==
  ASSUME NEW s, NEW top
  PROVE  LevelsBelow(s, top) = [d \in 0 .. MaxDepth |->
           NextLevel(s, IF d = 0 THEN {top}
                        ELSE {h \in LevelsBelow(s, top)[d - 1] : IsContainer(s, h)})]
<1> DEFINE E(f, d) == NextLevel(s, IF d = 0 THEN {top} ELSE {h \in f[d - 1] : IsContainer(s, h)})
           S == {n \in Nat : \E f : f = [d \in 0 .. n |-> E(f, d)]}
<1>1. 0 \in S
  <2> DEFINE f == [d \in 0 .. 0 |-> NextLevel(s, {top})]
  <2>1. f = [d \in 0 .. 0 |-> E(f, d)]
    OBVIOUS
  <2> HIDE DEF f, E
  <2> QED
    BY <2>1
<1>2. ASSUME NEW n \in Nat, n \in S PROVE n + 1 \in S
  <2>1. PICK f : f = [d \in 0 .. n |-> E(f, d)]
    BY <1>2
  <2> DEFINE g == [d \in 0 .. n + 1 |-> IF d <= n THEN f[d] ELSE E(f, n + 1)]
  <2>2. ASSUME NEW d \in 0 .. n + 1 PROVE g[d] = E(g, d)
    <3>1. d # 0 => g[d - 1] = f[d - 1]
      OBVIOUS
    <3>2. d <= n => f[d] = E(f, d)
      <4> HIDE DEF E
      <4> QED
        BY <2>1
    <3>3. E(f, d) = E(g, d)
      BY <3>1
    <3> HIDE DEF E
    <3> QED
      BY <3>2, <3>3
  <2>3. g = [d \in 0 .. n + 1 |-> E(g, d)]
    <3> HIDE DEF E
    <3>1. g = [d \in 0 .. n + 1 |-> g[d]]
      OBVIOUS
    <3> HIDE DEF g
    <3> QED
      BY <2>2, <3>1
  <2> HIDE DEF E, g
  <2>4. \E h : h = [d \in 0 .. n + 1 |-> E(h, d)]
    BY <2>3
  <2> QED
    BY <2>4
<1>3. MaxDepth \in S
  <2> HIDE DEF S
  <2> QED
    BY <1>1, <1>2, SetInduction, BoundsAssumption
<1>4. \E f : f = [d \in 0 .. MaxDepth |-> E(f, d)]
  <2> HIDE DEF E
  <2> QED
    BY <1>3
<1>5. LevelsBelow(s, top) = CHOOSE f : f = [d \in 0 .. MaxDepth |-> E(f, d)]
  BY DEF LevelsBelow
<1> QED
  BY <1>4, <1>5

-----------------------------------------------------------------------------
(* The forest.                                                               *)

\* The objects at the root of a storage.
Tops == RootsOf(card)

\* An object has one parent at most, and none at the root.
LEMMA Forest ==
  ASSUME card \in Layouts
  PROVE  /\ Tops \subseteq ObjectsOf(card) /\ ObjectsOf(card) \subseteq Nat \ {Root}
         /\ \A p \in ObjectsOf(card) :
              /\ card.below[p] \subseteq ObjectsOf(card)
              /\ card.below[p] \cap Tops = {}
         /\ \A p, q \in ObjectsOf(card) : \A h : h \in card.below[p] /\ h \in card.below[q] => p = q
<1> DEFINE objects == ObjectsOf(card)
<1>1. IsForest(card)
  BY LayoutsAssumption
<1>2. /\ objects \subseteq Nat \ {Root}
      /\ card.root \in Seq(SUBSET objects)
      /\ card.below \in [objects -> SUBSET objects]
      /\ \A p, q \in objects : p # q => card.below[p] \cap card.below[q] = {}
      /\ \A p \in objects : card.below[p] \cap Tops = {}
  BY <1>1 DEF IsForest, Tops
<1>3. \A i \in DOMAIN card.root : card.root[i] \subseteq objects
  BY <1>2
<1> HIDE DEF objects
<1>4. Tops \subseteq objects
  BY <1>3 DEF Tops, RootsOf
<1>5. \A p \in objects : card.below[p] \subseteq objects
  BY <1>2
<1>7. \A p, q \in objects : \A h : h \in card.below[p] /\ h \in card.below[q] => p = q
  BY <1>2
<1> QED
  BY <1>2, <1>4, <1>5, <1>7 DEF objects

\* What the camera answers lies in the tree; pictures are on the card.
LEMMA ChildrenLie ==
  ASSUME card \in Layouts, NEW s, s \subseteq Tops
  PROVE  /\ Children(s, Root) \subseteq s
         /\ \A p \in ObjectsOf(card) : Children(s, p) \subseteq card.below[p]
         /\ \A p \in ObjectsOf(card) \cup {Root} :
              /\ Children(s, p) \subseteq ObjectsOf(card)
              /\ Children(s, p) \cap PicturesOf(card) \subseteq present
<1>1. Children(s, Root) \subseteq s
  BY DEF Children
<1>2. ASSUME NEW p \in ObjectsOf(card) PROVE Children(s, p) \subseteq card.below[p]
  <2>1. p # Root
    BY Forest
  <2> QED
    BY <2>1 DEF Children
<1>3. \A p : Children(s, p) \cap PicturesOf(card) \subseteq present
  BY DEF Children
<1> QED
  BY <1>1, <1>2, <1>3, Forest

\* What is at the first level, and at the next.
LEMMA LevelZero ==
  ASSUME NEW s, NEW top
  PROVE  LevelsBelow(s, top)[0] = {h \in Children(s, top) : h \notin known}
<1> DEFINE E(e) == NextLevel(s, IF e = 0 THEN {top}
                                ELSE {h \in LevelsBelow(s, top)[e - 1] : IsContainer(s, h)})
<1>1. 0 \in 0 .. MaxDepth
  BY BoundsAssumption
<1>2. LevelsBelow(s, top) = [e \in 0 .. MaxDepth |-> E(e)]
  BY LevelsEquation
<1>3. E(0) = NextLevel(s, {top})
  OBVIOUS
<1> HIDE DEF E
<1>4. LevelsBelow(s, top)[0] = NextLevel(s, {top})
  BY <1>1, <1>2, <1>3
<1> QED
  BY <1>4 DEF NextLevel, Skipped

LEMMA LevelNext ==
  ASSUME NEW s, NEW top, NEW d \in Nat, d < MaxDepth
  PROVE  LevelsBelow(s, top)[d + 1] =
           {h \in UNION {Children(s, p) : p \in {q \in LevelsBelow(s, top)[d] : IsContainer(s, q)}} :
              h \notin known}
<1> DEFINE E(e) == NextLevel(s, IF e = 0 THEN {top}
                                ELSE {h \in LevelsBelow(s, top)[e - 1] : IsContainer(s, h)})
<1>1. d + 1 \in 0 .. MaxDepth /\ d + 1 # 0 /\ d + 1 - 1 = d
  BY BoundsAssumption
<1>2. LevelsBelow(s, top) = [e \in 0 .. MaxDepth |-> E(e)]
  BY LevelsEquation
<1>3. E(d + 1) = NextLevel(s, {h \in LevelsBelow(s, top)[d] : IsContainer(s, h)})
  BY <1>1
<1> HIDE DEF E
<1>4. LevelsBelow(s, top)[d + 1] = NextLevel(s, {h \in LevelsBelow(s, top)[d] : IsContainer(s, h)})
  BY <1>1, <1>2, <1>3
<1> QED
  BY <1>4 DEF NextLevel, Skipped

\* What is on a level has a container one level up.
LEMMA LevelParent ==
  ASSUME NEW s, NEW top, NEW d \in Nat, d < MaxDepth, NEW h \in LevelsBelow(s, top)[d + 1]
  PROVE  h \notin known /\ \E p \in LevelsBelow(s, top)[d] : IsContainer(s, p) /\ h \in Children(s, p)
<1> DEFINE L == LevelsBelow(s, top)
<1>1. L[d + 1] = {x \in UNION {Children(s, p) : p \in {q \in L[d] : IsContainer(s, q)}} : x \notin known}
  BY LevelNext
<1>2. h \in L[d + 1]
  OBVIOUS
<1> HIDE DEF L
<1>3. h \notin known /\ \E p \in L[d] : IsContainer(s, p) /\ h \in Children(s, p)
  BY <1>1, <1>2
<1> QED
  BY <1>3 DEF L

\* Every level holds objects; its pictures are on the card, and it has nothing
\* that is known.
LEMMA LevelsLie ==
  ASSUME card \in Layouts, NEW s, s \subseteq Tops, NEW top \in ObjectsOf(card) \cup {Root},
         NEW d \in 0 .. MaxDepth
  PROVE  /\ LevelsBelow(s, top)[d] \subseteq ObjectsOf(card)
         /\ LevelsBelow(s, top)[d] \cap PicturesOf(card) \subseteq present
         /\ LevelsBelow(s, top)[d] \cap known = {}
<1> DEFINE L == LevelsBelow(s, top)
           Lies(H) == /\ H \subseteq ObjectsOf(card) /\ H \cap PicturesOf(card) \subseteq present
                      /\ H \cap known = {}
           S == {n \in Nat : Lies(L[n])}
<1>1. 0 \in S
  <2>1. L[0] = {h \in Children(s, top) : h \notin known}
    BY LevelZero
  <2> HIDE DEF L
  <2> QED
    BY <2>1, ChildrenLie
<1>2. ASSUME NEW n \in Nat, n < MaxDepth, n \in S PROVE n + 1 \in S
  <2>1. L[n + 1] = {h \in UNION {Children(s, p) : p \in {q \in L[n] : IsContainer(s, q)}} :
                      h \notin known}
    BY <1>2, LevelNext
  <2>2. L[n] \subseteq ObjectsOf(card)
    BY <1>2
  <2> HIDE DEF L
  <2>3. \A h \in L[n + 1] : h \notin known /\ \E p \in ObjectsOf(card) : h \in Children(s, p)
    BY <2>1, <2>2
  <2>4. Lies(L[n + 1])
    BY <2>3, ChildrenLie
  <2> QED
    BY <2>4
<1>3. 0 .. MaxDepth \subseteq S
  <2> HIDE DEF S
  <2> QED
    BY <1>1, <1>2, BoundedInduction, BoundsAssumption
<1> QED
  BY <1>3

\* An object on a level is below the top or below a container one level up.
LEMMA Parents ==
  ASSUME card \in Layouts, NEW s, s \subseteq Tops, NEW top \in ObjectsOf(card),
         NEW d \in 0 .. MaxDepth, NEW h \in LevelsBelow(s, top)[d]
  PROVE  /\ d = 0 => h \in card.below[top]
         /\ d # 0 => /\ d - 1 \in 0 .. MaxDepth
                     /\ \E p \in LevelsBelow(s, top)[d - 1] :
                          p \in ObjectsOf(card) /\ h \in card.below[p]
<1>1. CASE d = 0
  <2>1. h \in Children(s, top)
    BY <1>1, LevelZero
  <2> QED
    BY <1>1, <2>1, ChildrenLie
<1>2. CASE d # 0
  <2>1. d - 1 \in Nat /\ d - 1 < MaxDepth /\ d - 1 + 1 = d /\ d - 1 \in 0 .. MaxDepth
    BY <1>2, BoundsAssumption
  <2>2. PICK p \in LevelsBelow(s, top)[d - 1] : h \in Children(s, p)
    BY <2>1, LevelNext
  <2>3. p \in ObjectsOf(card)
    BY <2>1, LevelsLie
  <2> QED
    BY <1>2, <2>1, <2>2, <2>3, ChildrenLie
<1> QED
  BY <1>1, <1>2

\* The trees below two folders that are below objects at the root are apart.
LEMMA BelowTops ==
  ASSUME card \in Layouts, NEW s, s \subseteq Tops, NEW top \in ObjectsOf(card),
         NEW d \in 0 .. MaxDepth, NEW f \in LevelsBelow(s, top)[d],
         NEW t \in Tops, f \in card.below[t], NEW u \in Tops, top \in card.below[u]
  PROVE  FALSE
<1>1. t \in ObjectsOf(card) /\ u \in ObjectsOf(card)
  BY Forest
<1>2. CASE d = 0
  <2>1. f \in card.below[top]
    BY <1>2, Parents
  <2>2. t = top
    BY <1>1, <2>1, Forest
  <2> QED
    BY <1>1, <2>2, Forest
<1>3. CASE d # 0
  <2>1. d - 1 \in 0 .. MaxDepth
    BY <1>3, BoundsAssumption
  <2>2. PICK p \in LevelsBelow(s, top)[d - 1] : p \in ObjectsOf(card) /\ f \in card.below[p]
    BY <1>3, Parents
  <2>3. p = t
    BY <1>1, <2>2, Forest
  <2>4. \E q \in ObjectsOf(card) : p \in card.below[q]
    BY <2>1, Parents
  <2> QED
    BY <2>3, <2>4, Forest
<1> QED
  BY <1>2, <1>3

LEMMA FoldersApart ==
  ASSUME card \in Layouts, NEW s, s \subseteq Tops,
         NEW f \in ObjectsOf(card), NEW g \in ObjectsOf(card),
         NEW t \in Tops, f \in card.below[t], NEW u \in Tops, g \in card.below[u],
         NEW h, NEW i \in 0 .. MaxDepth, NEW j \in 0 .. MaxDepth,
         h \in LevelsBelow(s, f)[i], h \in LevelsBelow(s, g)[j]
  PROVE  f = g
<1> DEFINE F == LevelsBelow(s, f)
           G == LevelsBelow(s, g)
           S == {d \in 0 .. MaxDepth :
                   \A e \in 0 .. MaxDepth : \A x : x \in F[d] /\ x \in G[e] => f = g}
<1>1. \A e \in 0 .. MaxDepth : f \notin G[e] /\ g \notin F[e]
  BY BelowTops
<1>2. 0 \in S
  <2> SUFFICES ASSUME NEW e \in 0 .. MaxDepth, NEW x, x \in F[0], x \in G[e]
               PROVE  f = g
    BY BoundsAssumption
  <2>1. x \in card.below[f]
    BY Parents, BoundsAssumption
  <2>2. CASE e = 0
    BY <2>1, <2>2, Parents, Forest
  <2>3. CASE e # 0
    <3>1. PICK p \in G[e - 1] : p \in ObjectsOf(card) /\ x \in card.below[p]
      BY <2>3, Parents
    <3>2. e - 1 \in 0 .. MaxDepth
      BY <2>3, BoundsAssumption
    <3>3. p = f
      BY <2>1, <3>1, Forest
    <3> QED
      BY <1>1, <3>1, <3>2, <3>3
  <2> QED
    BY <2>2, <2>3
<1>3. ASSUME NEW d \in Nat, d < MaxDepth, d \in S PROVE d + 1 \in S
  <2> SUFFICES ASSUME NEW e \in 0 .. MaxDepth, NEW x, x \in F[d + 1], x \in G[e]
               PROVE  f = g
    BY <1>3, BoundsAssumption
  <2>1. d + 1 \in 0 .. MaxDepth /\ d + 1 # 0 /\ d + 1 - 1 = d /\ d \in 0 .. MaxDepth
    BY <1>3, BoundsAssumption
  <2>2. PICK p \in F[d] : p \in ObjectsOf(card) /\ x \in card.below[p]
    BY <2>1, Parents
  <2>3. CASE e = 0
    <3>1. x \in card.below[g]
      BY <2>3, Parents
    <3>2. p = g
      BY <2>2, <3>1, Forest
    <3> QED
      BY <1>1, <2>1, <2>2, <3>2
  <2>4. CASE e # 0
    <3>1. PICK q \in G[e - 1] : q \in ObjectsOf(card) /\ x \in card.below[q]
      BY <2>4, Parents
    <3>2. e - 1 \in 0 .. MaxDepth
      BY <2>4, BoundsAssumption
    <3>3. p = q
      BY <2>2, <3>1, Forest
    <3> QED
      BY <1>3, <2>2, <3>1, <3>2, <3>3
  <2> QED
    BY <2>3, <2>4
<1>4. 0 .. MaxDepth \subseteq S
  <2> HIDE DEF S
  <2> QED
    BY <1>2, <1>3, BoundedInduction, BoundsAssumption
<1> QED
  BY <1>4
-----------------------------------------------------------------------------
(* The storages.                                                             *)

LEMMA StoragesExist ==
  ASSUME card \in Layouts
  PROVE  \E storage \in [ObjectsOf(card) -> DOMAIN card.root] : StorageMap(card, storage)
<1>1. IsForest(card)
  BY LayoutsAssumption
<1> QED
  BY <1>1 DEF IsForest

\* The storages that are listed: those of the card, or their union.
LEMMA StoragesLie ==
  ASSUME card \in Layouts
  PROVE  /\ Len(Storages) \in Nat
         /\ \A i \in 1 .. Len(Storages) : Storages[i] \subseteq Tops
         /\ \A i \in 1 .. Len(Storages) :
              (Storages = card.root /\ i \in DOMAIN card.root) \/ Len(Storages) = 1
         /\ failing = NoQuestion => Storages = card.root
<1>1. card.root \in Seq(SUBSET ObjectsOf(card))
  <2>1. IsForest(card)
    BY LayoutsAssumption
  <2> QED
    BY <2>1 DEF IsForest
<1>2. Storages = card.root \/ Storages = <<Tops>>
  BY DEF Storages, Tops
<1>3. \A i \in DOMAIN card.root : card.root[i] \subseteq Tops
  BY DEF Tops, RootsOf
<1>4. CASE Storages = card.root
  BY <1>1, <1>3, <1>4
<1>5. CASE Storages = <<Tops>>
  <2>1. Len(Storages) = 1 /\ Storages[1] = Tops
    BY <1>5
  <2>2. failing = NoQuestion => Storages = card.root
    BY DEF Storages, Fails, NoQuestion
  <2> QED
    BY <2>1, <2>2
<1> QED
  BY <1>2, <1>4, <1>5

LEMMA RootsAreSequence ==
  ASSUME card \in Layouts
  PROVE  DOMAIN card.root = 1 .. Len(card.root) /\ Len(card.root) \in Nat
<1>1. card.root \in Seq(SUBSET ObjectsOf(card))
  <2>1. IsForest(card)
    BY LayoutsAssumption
  <2> QED
    BY <2>1 DEF IsForest
<1> QED
  BY <1>1

\* A tree lies in one storage.
LEMMA LevelsStored ==
  ASSUME card \in Layouts, NEW storage, StorageMap(card, storage), NEW i \in DOMAIN card.root,
         NEW top, top = Root \/ (top \in ObjectsOf(card) /\ storage[top] = i),
         NEW d \in 0 .. MaxDepth, NEW h \in LevelsBelow(card.root[i], top)[d]
  PROVE  storage[h] = i
<1> DEFINE s == card.root[i]
           L == LevelsBelow(s, top)
           S == {n \in 0 .. MaxDepth : \A x \in L[n] : storage[x] = i}
<1>1. s \subseteq Tops /\ s \subseteq ObjectsOf(card)
  BY Forest DEF Tops, RootsOf
<1>2. 0 \in S
  <2>1. ASSUME NEW x \in L[0] PROVE storage[x] = i
    <3>1. x \in Children(s, top)
      BY <2>1, LevelZero
    <3>2. CASE top = Root
      <4>1. x \in s
        BY <1>1, <3>1, <3>2, ChildrenLie
      <4> QED
        BY <1>1, <4>1 DEF StorageMap
    <3>3. CASE top # Root
      <4>1. x \in card.below[top] /\ x \in ObjectsOf(card) /\ top \in ObjectsOf(card)
        BY <1>1, <3>1, <3>3, ChildrenLie
      <4> QED
        BY <3>3, <4>1 DEF StorageMap
    <3> QED
      BY <3>2, <3>3
  <2> QED
    BY <2>1, BoundsAssumption
<1>3. ASSUME NEW n \in Nat, n < MaxDepth, n \in S PROVE n + 1 \in S
  <2>1. ASSUME NEW x \in L[n + 1] PROVE storage[x] = i
    <3>1. PICK p \in L[n] : x \in Children(s, p)
      BY <1>3, LevelParent
    <3>2. p \in ObjectsOf(card)
      BY <1>1, <1>3, LevelsLie
    <3>3. x \in card.below[p] /\ x \in ObjectsOf(card)
      BY <1>1, <3>1, <3>2, ChildrenLie
    <3>4. storage[p] = i
      BY <1>3, <3>1
    <3> QED
      BY <3>2, <3>3, <3>4 DEF StorageMap
  <2> QED
    BY <1>3, <2>1, BoundsAssumption
<1>4. 0 .. MaxDepth \subseteq S
  <2> HIDE DEF S
  <2> QED
    BY <1>2, <1>3, BoundedInduction, BoundsAssumption
<1> QED
  BY <1>4

-----------------------------------------------------------------------------
(* The discovery of folders.                                                 *)

\* A folder that is discovered is below an object at the root of the storage.
LEMMA NamedPlaced ==
  ASSUME card \in Layouts, NEW s, s \subseteq Tops, NEW f \in NamedFolders(s)
  PROVE  \E t \in s : /\ ReadableFolder(t) /\ card.object[t].name = "DCIM"
                      /\ f.handle \in card.below[t] /\ ReadableFolder(f.handle)
                      /\ f = [name |-> card.object[f.handle].name, handle |-> f.handle]
                      /\ f.name \notin {"", "DCIM"}
<1> DEFINE dcim == {h \in ChildrenIfAny(s, Root) : ReadableFolder(h) /\ card.object[h].name = "DCIM"}
           first == CHOOSE h \in dcim : \A g \in dcim : h <= g
           named == {h \in ChildrenIfAny(s, first) :
                       ReadableFolder(h) /\ card.object[h].name \notin {"", "DCIM"}}
           folders == {[name |-> card.object[h].name, handle |-> h] : h \in named}
<1>1. dcim # {} /\ f \in FirstOfName(folders)
  BY DEF NamedFolders
<1>2. dcim \subseteq s /\ dcim \subseteq Nat /\ dcim \subseteq ObjectsOf(card)
  BY ChildrenLie, Forest DEF ChildrenIfAny
<1>3. first \in dcim
  <2>1. \E h \in dcim : \A g \in dcim : h <= g
    <3> HIDE DEF dcim
    <3> QED
      BY <1>1, <1>2, LeastElement
  <2> HIDE DEF dcim
  <2> QED
    BY <2>1
<1>4. PICK h \in named : f = [name |-> card.object[h].name, handle |-> h]
  BY <1>1 DEF FirstOfName
<1>5. h \in card.below[first]
  <2>1. first \in ObjectsOf(card)
    BY <1>2, <1>3
  <2> HIDE DEF first
  <2> QED
    BY <2>1, ChildrenLie DEF ChildrenIfAny
<1>6. first \in s /\ ReadableFolder(first) /\ card.object[first].name = "DCIM"
  <2> HIDE DEF first
  <2> QED
    BY <1>2, <1>3
<1>7. f.handle = h /\ ReadableFolder(h) /\ f.name \notin {"", "DCIM"}
  BY <1>4
<1> HIDE DEF first, named
<1> QED
  BY <1>4, <1>5, <1>6, <1>7

\* A virtual folder is one of the containers, under one name.
LEMMA VirtualRecords ==
  ASSUME NEW s
  PROVE  /\ \A f \in VirtualFolders(s) : f.handle \in LeafContainers(s)
         /\ \A f, g \in VirtualFolders(s) : f.handle = g.handle => f = g
<1> DEFINE containers == LeafContainers(s)
           Given(h) == IF ReadableFolder(h) THEN card.object[h].name ELSE ""
           Repeats(h) == Given(h) # "" /\ \E e \in containers : e < h /\ Given(e) = Given(h)
           Number(h) == Cardinality({e \in containers : e <= h /\ ~Repeats(e)})
           Name(h) == IF Given(h) # "" THEN Given(h) ELSE "folder" \o ToString(Number(h))
<1>1. VirtualFolders(s) = FirstOfName({[name |-> Name(h), handle |-> h] : h \in containers})
  BY DEF VirtualFolders
<1> HIDE DEF Name, containers
<1>2. \A f \in VirtualFolders(s) : /\ f.handle \in containers
                                   /\ f = [name |-> Name(f.handle), handle |-> f.handle]
  BY <1>1 DEF FirstOfName
<1>3. \A f, g \in VirtualFolders(s) : f.handle = g.handle => f = g
  BY <1>2
<1> QED
  BY <1>2, <1>3 DEF containers

LEMMA FoldersPlaced ==
  ASSUME card \in Layouts, NEW s, s \subseteq Tops, NEW f \in DiscoverFolders(s)
  PROVE  f.handle \in ObjectsOf(card) /\ \E t \in s : f.handle \in card.below[t]
<1>1. CASE f \in NamedFolders(s)
  <2>1. PICK t \in s : f.handle \in card.below[t]
    BY <1>1, NamedPlaced
  <2> QED
    BY <2>1, Forest
<1>2. CASE f \in VirtualFolders(s)
  <2>1. PICK h \in LeafContainers(s) : f.handle = h
    BY <1>2, VirtualRecords
  <2>2. PICK t \in ChildrenIfAny(s, Root) : h \in ChildrenIfAny(s, t)
    BY DEF LeafContainers
  <2>3. t \in s /\ t \in ObjectsOf(card)
    BY ChildrenLie, Forest DEF ChildrenIfAny
  <2>4. h \in card.below[t]
    BY <2>2, <2>3, ChildrenLie DEF ChildrenIfAny
  <2> QED
    BY <2>1, <2>3, <2>4, Forest
<1> QED
  BY <1>1, <1>2 DEF DiscoverFolders

\* No handle is discovered under two names.
LEMMA FoldersDistinct ==
  ASSUME card \in Layouts, NEW s, s \subseteq Tops,
         NEW f \in DiscoverFolders(s), NEW g \in DiscoverFolders(s), f.handle = g.handle
  PROVE  f = g
<1>1. CASE NamedFolders(s) # {}
  <2>1. \A e \in NamedFolders(s) : e = [name |-> card.object[e.handle].name, handle |-> e.handle]
    BY NamedPlaced
  <2>2. f \in NamedFolders(s) /\ g \in NamedFolders(s)
    BY <1>1 DEF DiscoverFolders
  <2> QED
    BY <2>1, <2>2
<1>2. CASE NamedFolders(s) = {}
  <2> QED
    BY <1>2, VirtualRecords DEF DiscoverFolders
<1> QED
  BY <1>1, <1>2
-----------------------------------------------------------------------------
(* The listing of one storage.                                               *)

\* Where a listing of a storage starts to walk, and the pictures it comes to.
Starts(s) == {Root} \cup {f.handle : f \in DiscoverFolders(s)}
PlacedIn(s, h) ==
  h \in PicturesOf(card) /\ \E top \in Starts(s) : \E d \in 0 .. MaxDepth : h \in LevelsBelow(s, top)[d]

\* Every picture is placed in the storage, and has one entry.
Lists(s, images) ==
  /\ \A x \in images : PlacedIn(s, x.handle)
  /\ \A x, y \in images : x.handle = y.handle => x = y

LEMMA EnumerateLists ==
  ASSUME NEW s, NEW top, NEW folder, NEW byHandle, Enumerate(s, top, folder, byHandle).ok
  PROVE  /\ Enumerate(s, top, folder, byHandle).images =
              {[handle |-> h, tag |-> Tag(h, folder, byHandle)] : h \in Walked(s, top) \cap PicturesOf(card)}
         /\ ~WalkFails(s, top)
  BY DEF Enumerate, Failed

\* A tree that is walked adds its pictures, each once.
LEMMA TreeLists ==
  ASSUME NEW s, NEW top \in Starts(s), NEW folder, NEW byHandle,
         Enumerate(s, top, folder, byHandle).ok
  PROVE  Lists(s, Enumerate(s, top, folder, byHandle).images)
<1> DEFINE images == Enumerate(s, top, folder, byHandle).images
           pictures == Walked(s, top) \cap PicturesOf(card)
<1>1. images = {[handle |-> h, tag |-> Tag(h, folder, byHandle)] : h \in pictures}
  BY EnumerateLists
<1>2. ASSUME NEW h \in pictures PROVE PlacedIn(s, h)
  BY DEF Walked, PlacedIn
<1> HIDE DEF images, pictures
<1>3. \A x \in images : /\ x.handle \in pictures
                        /\ x = [handle |-> x.handle, tag |-> Tag(x.handle, folder, byHandle)]
  BY <1>1
<1>4. Lists(s, images)
  BY <1>2, <1>3 DEF Lists
<1> QED
  BY <1>4 DEF images

\* The listing of the folders succeeds if that of each folder does.
LEMMA FoldersListed ==
  ASSUME NEW before, NEW s, NEW folders, ListFolders(before, s, folders).ok
  PROVE  /\ \A f \in folders : Enumerate(s, f.handle, f.name, folders).ok
         /\ ListFolders(before, s, folders).images =
              before.images \cup UNION {Enumerate(s, f.handle, f.name, folders).images : f \in folders}
<1> DEFINE E(f) == Enumerate(s, f.handle, f.name, folders)
           parts == {E(f) : f \in folders}
<1>1. ListFolders(before, s, folders) =
        IF \A p \in parts : p.ok
        THEN [ok |-> TRUE, images |-> before.images \cup UNION {p.images : p \in parts}]
        ELSE Failed
  BY DEF ListFolders
<1> HIDE DEF E
<1>2. \A p \in parts : p.ok
  BY <1>1 DEF Failed
<1>3. UNION {p.images : p \in parts} = UNION {E(f).images : f \in folders}
  OBVIOUS
<1>4. \A f \in folders : E(f).ok
  BY <1>2
<1>5. ListFolders(before, s, folders).images = before.images \cup UNION {E(f).images : f \in folders}
  BY <1>1, <1>2, <1>3
<1> QED
  BY <1>4, <1>5 DEF E

\* The folders of a storage list no picture twice.
LEMMA FoldersList ==
  ASSUME card \in Layouts, NEW s, s \subseteq Tops, NEW before, NEW folders,
         folders = DiscoverFolders(s), ListFolders(before, s, folders).ok
  PROVE  Lists(s, UNION {Enumerate(s, f.handle, f.name, folders).images : f \in folders})
<1> DEFINE E(f) == Enumerate(s, f.handle, f.name, folders).images
           images == UNION {E(f) : f \in folders}
<1>1. ASSUME NEW f \in folders PROVE Lists(s, E(f))
  <2>1. f.handle \in Starts(s)
    BY DEF Starts
  <2> QED
    BY <2>1, FoldersListed, TreeLists
<1>2. ASSUME NEW f \in folders, NEW x \in E(f)
      PROVE  \E d \in 0 .. MaxDepth : x.handle \in LevelsBelow(s, f.handle)[d]
  <2>1. x \in {[handle |-> h, tag |-> Tag(h, f.name, folders)] :
                 h \in Walked(s, f.handle) \cap PicturesOf(card)}
    BY <1>2, FoldersListed, EnumerateLists
  <2>2. x.handle \in Walked(s, f.handle)
    BY <2>1
  <2> QED
    BY <2>2 DEF Walked
<1>3. ASSUME NEW f \in folders, NEW g \in folders, NEW x \in E(f), NEW y \in E(g), x.handle = y.handle
      PROVE  x = y
  <2>1. PICK i \in 0 .. MaxDepth : x.handle \in LevelsBelow(s, f.handle)[i]
    BY <1>2
  <2>2. PICK j \in 0 .. MaxDepth : x.handle \in LevelsBelow(s, g.handle)[j]
    BY <1>2, <1>3
  <2>3. /\ f.handle \in ObjectsOf(card) /\ \E t \in Tops : f.handle \in card.below[t]
        /\ g.handle \in ObjectsOf(card) /\ \E u \in Tops : g.handle \in card.below[u]
    BY FoldersPlaced
  <2>4. f.handle = g.handle
    BY <2>1, <2>2, <2>3, FoldersApart
  <2>5. f = g
    BY <2>4, FoldersDistinct
  <2> QED
    BY <1>1, <1>3, <2>5 DEF Lists
<1> HIDE DEF E
<1>4. Lists(s, images)
  <2>1. \A x \in images : PlacedIn(s, x.handle)
    BY <1>1 DEF Lists
  <2>2. \A x, y \in images : x.handle = y.handle => x = y
    BY <1>3
  <2> QED
    BY <2>1, <2>2 DEF Lists
<1> QED
  BY <1>4 DEF E

\* The whole tree of a storage, under no name.
Tree(s, byHandle) == Enumerate(s, Root, "", byHandle)

\* What a listing of a storage that succeeds comes from.
LEMMA StorageCases ==
  ASSUME NEW s, NEW before, before.ok, ListStorage(before, s).ok, NEW folders,
         folders = DiscoverFolders(s)
  PROVE  \/ /\ folders = {} /\ Tree(s, {}).ok
            /\ ListStorage(before, s).images = before.images \cup Tree(s, {}).images
         \/ /\ folders # {} /\ ListFolders(before, s, folders).ok
            /\ ListFolders(before, s, folders).images = {}
            /\ ListStorage(before, s) = Tree(s, folders)
         \/ /\ folders # {} /\ ListFolders(before, s, folders).ok
            /\ ListStorage(before, s) = ListFolders(before, s, folders)
<1> DEFINE listed == ListFolders(before, s, folders)
<1>1. ListStorage(before, s) =
        IF folders = {} THEN Both(before, Tree(s, {}))
        ELSE IF listed.ok /\ listed.images = {} /\ known = {} THEN Tree(s, folders) ELSE listed
  BY DEF ListStorage, Tree
<1> HIDE DEF listed
<1>2. CASE folders = {}
  <2>1. Tree(s, {}).ok /\ ListStorage(before, s).images = before.images \cup Tree(s, {}).images
    BY <1>1, <1>2 DEF Both, Failed
  <2> QED
    BY <1>2, <2>1
<1>3. CASE folders # {} /\ listed.ok /\ listed.images = {} /\ known = {}
  BY <1>1, <1>3 DEF listed
<1>4. CASE folders # {} /\ ~(listed.ok /\ listed.images = {} /\ known = {})
  BY <1>1, <1>4 DEF listed
<1> QED
  BY <1>2, <1>3, <1>4

\* A storage adds pictures of its own to what was listed before.
LEMMA StorageLists ==
  ASSUME card \in Layouts, NEW s, s \subseteq Tops, NEW before, before.ok, ListStorage(before, s).ok
  PROVE  \E images : Lists(s, images) /\ ListStorage(before, s).images = before.images \cup images
<1> DEFINE folders == DiscoverFolders(s)
           listed == ListFolders(before, s, folders)
           found == UNION {Enumerate(s, f.handle, f.name, folders).images : f \in folders}
<1>1. \/ /\ Tree(s, {}).ok
         /\ ListStorage(before, s).images = before.images \cup Tree(s, {}).images
      \/ listed.ok /\ listed.images = {} /\ ListStorage(before, s) = Tree(s, folders)
      \/ listed.ok /\ ListStorage(before, s) = listed
  BY StorageCases
<1>2. \A byHandle : Tree(s, byHandle).ok => Lists(s, Tree(s, byHandle).images)
  BY TreeLists DEF Starts, Tree
<1>3. listed.ok => Lists(s, found) /\ listed.images = before.images \cup found
  BY FoldersList, FoldersListed
<1> HIDE DEF folders, listed, found
<1> QED
  BY <1>1, <1>2, <1>3

-----------------------------------------------------------------------------
(* The loop over the storages.                                               *)

LEMMA UptoEquation ==
  ASSUME card \in Layouts
  PROVE  ListedUpto = [i \in 0 .. Len(Storages) |->
           IF i = 0 THEN Nothing
           ELSE IF ListedUpto[i - 1].ok THEN ListStorage(ListedUpto[i - 1], Storages[i]) ELSE Failed]
<1> DEFINE E(f, i) == IF i = 0 THEN Nothing
                      ELSE IF f[i - 1].ok THEN ListStorage(f[i - 1], Storages[i]) ELSE Failed
           S == {n \in Nat : \E f : f = [i \in 0 .. n |-> E(f, i)]}
<1>1. 0 \in S
  <2> DEFINE f == [i \in 0 .. 0 |-> Nothing]
  <2>1. f = [i \in 0 .. 0 |-> E(f, i)]
    OBVIOUS
  <2> HIDE DEF f, E
  <2> QED
    BY <2>1
<1>2. ASSUME NEW n \in Nat, n \in S PROVE n + 1 \in S
  <2>1. PICK f : f = [i \in 0 .. n |-> E(f, i)]
    BY <1>2
  <2> DEFINE g == [i \in 0 .. n + 1 |-> IF i <= n THEN f[i] ELSE E(f, n + 1)]
  <2>2. ASSUME NEW i \in 0 .. n + 1 PROVE g[i] = E(g, i)
    <3>1. i # 0 => g[i - 1] = f[i - 1]
      OBVIOUS
    <3>2. i <= n => f[i] = E(f, i)
      <4> HIDE DEF E
      <4> QED
        BY <2>1
    <3>3. E(f, i) = E(g, i)
      BY <3>1
    <3> HIDE DEF E
    <3> QED
      BY <3>2, <3>3
  <2>3. g = [i \in 0 .. n + 1 |-> E(g, i)]
    <3> HIDE DEF E
    <3>1. g = [i \in 0 .. n + 1 |-> g[i]]
      OBVIOUS
    <3> HIDE DEF g
    <3> QED
      BY <2>2, <3>1
  <2> HIDE DEF E, g
  <2>4. \E h : h = [i \in 0 .. n + 1 |-> E(h, i)]
    BY <2>3
  <2> QED
    BY <2>4
<1>3. Len(Storages) \in S
  <2> HIDE DEF S
  <2> QED
    BY <1>1, <1>2, SetInduction, StoragesLie
<1>4. \E f : f = [i \in 0 .. Len(Storages) |-> E(f, i)]
  <2> HIDE DEF E
  <2> QED
    BY <1>3
<1>5. ListedUpto = CHOOSE f : f = [i \in 0 .. Len(Storages) |-> E(f, i)]
  BY DEF ListedUpto
<1> QED
  BY <1>4, <1>5

LEMMA UptoZero ==
  ASSUME card \in Layouts
  PROVE  ListedUpto[0] = Nothing
<1> DEFINE E(i) == IF i = 0 THEN Nothing
                   ELSE IF ListedUpto[i - 1].ok THEN ListStorage(ListedUpto[i - 1], Storages[i]) ELSE Failed
<1>1. ListedUpto = [i \in 0 .. Len(Storages) |-> E(i)]
  BY UptoEquation
<1>2. 0 \in 0 .. Len(Storages)
  BY StoragesLie
<1>3. E(0) = Nothing
  OBVIOUS
<1> HIDE DEF E
<1> QED
  BY <1>1, <1>2, <1>3

\* A storage is listed when all before it were.
LEMMA UptoNext ==
  ASSUME card \in Layouts, NEW n \in Nat, n < Len(Storages), ListedUpto[n + 1].ok
  PROVE  ListedUpto[n].ok /\ ListedUpto[n + 1] = ListStorage(ListedUpto[n], Storages[n + 1])
<1> DEFINE E(i) == IF i = 0 THEN Nothing
                   ELSE IF ListedUpto[i - 1].ok THEN ListStorage(ListedUpto[i - 1], Storages[i]) ELSE Failed
<1>1. ListedUpto = [i \in 0 .. Len(Storages) |-> E(i)]
  BY UptoEquation
<1>2. n + 1 \in 0 .. Len(Storages) /\ n + 1 # 0 /\ n + 1 - 1 = n
  BY StoragesLie
<1>3. E(n + 1) = IF ListedUpto[n].ok THEN ListStorage(ListedUpto[n], Storages[n + 1]) ELSE Failed
  BY <1>2
<1> HIDE DEF E
<1>4. ListedUpto[n + 1] = IF ListedUpto[n].ok THEN ListStorage(ListedUpto[n], Storages[n + 1]) ELSE Failed
  BY <1>1, <1>2, <1>3
<1> QED
  BY <1>4 DEF Failed

\* What is placed in a storage is in it.
LEMMA PlacedStored ==
  ASSUME card \in Layouts, NEW storage, StorageMap(card, storage),
         NEW i \in DOMAIN card.root, NEW h, PlacedIn(card.root[i], h)
  PROVE  storage[h] = i
<1>1. card.root[i] \subseteq Tops /\ card.root[i] \subseteq ObjectsOf(card)
  BY Forest DEF Tops, RootsOf
<1>2. ASSUME NEW top \in Starts(card.root[i]), top # Root
      PROVE  top \in ObjectsOf(card) /\ storage[top] = i
  <2>1. PICK f \in DiscoverFolders(card.root[i]) : top = f.handle
    BY <1>2 DEF Starts
  <2>2. top \in ObjectsOf(card) /\ \E t \in card.root[i] : top \in card.below[t]
    BY <1>1, <2>1, FoldersPlaced
  <2> QED
    BY <1>1, <2>2 DEF StorageMap
<1>3. PICK top \in Starts(card.root[i]) : \E d \in 0 .. MaxDepth : h \in LevelsBelow(card.root[i], top)[d]
  BY DEF PlacedIn
<1>4. top = Root \/ (top \in ObjectsOf(card) /\ storage[top] = i)
  BY <1>2
<1> QED
  BY <1>3, <1>4, LevelsStored

\* No picture is placed in two storages.
LEMMA PlacedInOne ==
  ASSUME card \in Layouts, NEW m \in 1 .. Len(Storages), NEW n \in 1 .. Len(Storages), NEW h,
         PlacedIn(Storages[m], h), PlacedIn(Storages[n], h)
  PROVE  m = n
<1>1. CASE Len(Storages) = 1
  BY <1>1
<1>2. CASE Storages = card.root /\ m \in DOMAIN card.root /\ n \in DOMAIN card.root
  <2>1. PICK storage : StorageMap(card, storage)
    BY StoragesExist
  <2>2. PlacedIn(card.root[m], h) /\ PlacedIn(card.root[n], h)
    BY <1>2
  <2>3. storage[h] = m
    BY <1>2, <2>1, <2>2, PlacedStored
  <2>4. storage[h] = n
    BY <1>2, <2>1, <2>2, PlacedStored
  <2> QED
    BY <2>3, <2>4
<1> QED
  BY <1>1, <1>2, StoragesLie

\* Whatever was listed was found in one of the storages, once.
UptoLists(n) ==
  LET r == ListedUpto[n]
  IN r.ok => /\ \A x \in r.images : \E m \in 1 .. n : PlacedIn(Storages[m], x.handle)
             /\ \A x, y \in r.images : x.handle = y.handle => x = y

LEMMA UptoList ==
  ASSUME card \in Layouts
  PROVE  UptoLists(Len(Storages))
<1> DEFINE S == {n \in 0 .. Len(Storages) : UptoLists(n)}
<1>0. Len(Storages) \in Nat
  BY StoragesLie
<1>1. 0 \in S
  BY <1>0, UptoZero DEF UptoLists, Nothing
<1>2. ASSUME NEW n \in Nat, n < Len(Storages), n \in S PROVE n + 1 \in S
  <2> DEFINE r == ListedUpto[n]
             next == ListedUpto[n + 1]
             s == Storages[n + 1]
  <2> SUFFICES ASSUME next.ok
               PROVE  /\ \A x \in next.images : \E m \in 1 .. n + 1 : PlacedIn(Storages[m], x.handle)
                      /\ \A x, y \in next.images : x.handle = y.handle => x = y
    BY <1>0, <1>2 DEF UptoLists
  <2>1. r.ok /\ next = ListStorage(r, s)
    BY <1>2, UptoNext
  <2>2. /\ \A x \in r.images : \E m \in 1 .. n : PlacedIn(Storages[m], x.handle)
        /\ \A x, y \in r.images : x.handle = y.handle => x = y
    BY <1>2, <2>1 DEF UptoLists
  <2>3. n + 1 \in 1 .. Len(Storages) /\ 1 .. n \subseteq 1 .. Len(Storages) /\ 1 .. n \subseteq 1 .. n + 1
        /\ n + 1 \notin 1 .. n /\ n + 1 \in 1 .. n + 1
    BY <1>0, <1>2
  <2>4. s \subseteq Tops
    BY <2>3, StoragesLie
  <2> HIDE DEF r, next
  <2>5. PICK images : Lists(s, images) /\ next.images = r.images \cup images
    BY <2>1, <2>4, StorageLists
  <2>6. ASSUME NEW x \in r.images, NEW y \in images, x.handle = y.handle PROVE FALSE
    <3>1. PICK m \in 1 .. n : PlacedIn(Storages[m], x.handle)
      BY <2>2
    <3>2. PlacedIn(Storages[n + 1], x.handle)
      BY <2>5, <2>6 DEF Lists
    <3>3. m = n + 1
      BY <2>3, <3>1, <3>2, PlacedInOne
    <3> QED
      BY <2>3, <3>3
  <2>7. \A x \in next.images : \E m \in 1 .. n + 1 : PlacedIn(Storages[m], x.handle)
    BY <2>2, <2>3, <2>5 DEF Lists
  <2>8. \A x, y \in next.images : x.handle = y.handle => x = y
    BY <2>2, <2>5, <2>6 DEF Lists
  <2> QED
    BY <2>7, <2>8
<1>3. 0 .. Len(Storages) \subseteq S
  <2> HIDE DEF S
  <2> QED
    BY <1>0, <1>1, <1>2, BoundedInduction
<1> QED
  BY <1>0, <1>3

-----------------------------------------------------------------------------
(* What a listing names.                                                     *)

LEMMA ListingNamesNew ==
  ASSUME card \in Layouts, ListImages.ok
  PROVE  NamesNew(ListImages) /\ Handles(ListImages.images) \subseteq PicturesOf(card)
<1> SUFFICES ASSUME NEW x \in ListImages.images
             PROVE  x.handle \in present \ known /\ x.handle \in PicturesOf(card)
  BY DEF NamesNew, Handles
<1>1. PICK m \in 1 .. Len(Storages) : PlacedIn(Storages[m], x.handle)
  BY UptoList DEF ListImages, UptoLists
<1>2. Storages[m] \subseteq Tops
  BY StoragesLie
<1>3. PICK top \in Starts(Storages[m]), d \in 0 .. MaxDepth :
        x.handle \in LevelsBelow(Storages[m], top)[d]
  BY <1>1 DEF PlacedIn
<1>4. top \in ObjectsOf(card) \cup {Root}
  BY <1>2, FoldersPlaced DEF Starts
<1>5. x.handle \in PicturesOf(card)
  BY <1>1 DEF PlacedIn
<1> QED
  BY <1>2, <1>3, <1>4, <1>5, LevelsLie

LEMMA ListingNamesOnce ==
  ASSUME card \in Layouts, ListImages.ok
  PROVE  NamesOnce(ListImages)
<1> DEFINE images == ListImages.images
           handles == Handles(images)
           entry == [h \in handles |-> CHOOSE x \in images : x.handle = h]
<1>1. IsFiniteSet(handles)
  <2>1. IsForest(card)
    BY LayoutsAssumption
  <2>2. IsFiniteSet(ObjectsOf(card)) /\ handles \subseteq ObjectsOf(card)
    BY <2>1, ListingNamesNew DEF IsForest, PicturesOf
  <2> HIDE DEF handles
  <2> QED
    BY <2>2, FS_Subset
<1>2. \A x, y \in images : x.handle = y.handle => x = y
  BY UptoList DEF ListImages, UptoLists
<1>3. \A h \in handles : \E x \in images : x.handle = h
  BY DEF Handles
<1>4. \A x \in images : x.handle \in handles
  BY DEF Handles
<1> HIDE DEF images, handles
<1>5. \A h \in handles : entry[h] \in images /\ entry[h].handle = h
  BY <1>3
<1>6. \A x \in images : entry[x.handle] = x
  BY <1>2, <1>4, <1>5
<1>7. entry \in Bijection(handles, images)
  <2>1. entry \in [handles -> images]
    BY <1>5
  <2>2. DOMAIN entry = handles
    OBVIOUS
  <2> HIDE DEF entry
  <2>3. \A a, b \in handles : entry[a] = entry[b] => a = b
    BY <1>5
  <2>4. \A x \in images : \E h \in handles : entry[h] = x
    BY <1>4, <1>6
  <2> QED
    BY <2>1, <2>2, <2>3, <2>4 DEF Bijection, Injection, Surjection, IsInjective
<1>8. Cardinality(images) = Cardinality(handles)
  BY <1>1, <1>7, FS_Bijection DEF ExistsBijection
<1> QED
  BY <1>8 DEF NamesOnce, images, handles

-----------------------------------------------------------------------------
(* Plain cards: every folder is discovered and every picture is in one tree.  *)

Folder(h) == card.object[h].format = "folder"
InFolders(h) == \E i \in DOMAIN card.root : h \in FoldersOf(card, i)

\* A folder that counts is below the DCIM of its storage.
LEMMA FolderOf ==
  ASSUME NEW i \in DOMAIN card.root, NEW f
  PROVE  f \in FoldersOf(card, i) <=>
           /\ Folder(f) /\ card.object[f].name \notin {"", "DCIM"}
           /\ \E t \in card.root[i] : Folder(t) /\ card.object[t].name = "DCIM" /\ f \in card.below[t]
  BY DEF FoldersOf, Folder

LEMMA RootsLie ==
  ASSUME card \in Layouts
  PROVE  \A i \in DOMAIN card.root : \A t \in card.root[i] : t \in Tops /\ t \in ObjectsOf(card)
<1>1. \A i \in DOMAIN card.root : \A t \in card.root[i] : t \in Tops
  BY DEF Tops, RootsOf
<1> QED
  BY <1>1, Forest

LEMMA FolderPlace ==
  ASSUME card \in Layouts, NEW i \in DOMAIN card.root, NEW f \in FoldersOf(card, i)
  PROVE  /\ f \in ObjectsOf(card) /\ f \notin Tops
         /\ \E t \in card.root[i] : /\ t \in ObjectsOf(card) /\ t \in Tops
                                    /\ Folder(t) /\ card.object[t].name = "DCIM" /\ f \in card.below[t]
<1>1. PICK t \in card.root[i] : Folder(t) /\ card.object[t].name = "DCIM" /\ f \in card.below[t]
  BY FolderOf
<1>2. t \in ObjectsOf(card) /\ t \in Tops
  BY RootsLie
<1> QED
  BY <1>1, <1>2, Forest

\* Only children of the root's objects are such folders.
LEMMA BelowNoTop ==
  ASSUME card \in Layouts, NEW p \in ObjectsOf(card), p \notin Tops, NEW h \in card.below[p]
  PROVE  ~InFolders(h)
<1> SUFFICES ASSUME NEW i \in DOMAIN card.root, h \in FoldersOf(card, i) PROVE FALSE
  BY DEF InFolders
<1>1. PICK t \in card.root[i] : t \in Tops /\ t \in ObjectsOf(card) /\ h \in card.below[t]
  BY FolderPlace
<1> QED
  BY <1>1, Forest

\* The tree below such a folder is at home in it.
LEMMA HomesBelow ==
  ASSUME card \in Layouts, NEW home, HomeMap(card, home), NEW f, InFolders(f),
         NEW s, s \subseteq Tops, NEW d \in 0 .. MaxDepth, NEW h \in LevelsBelow(s, f)[d]
  PROVE  home[h] = f
<1> DEFINE L == LevelsBelow(s, f)
           S == {n \in 0 .. MaxDepth : \A x \in L[n] : home[x] = f}
<1>1. PICK t \in Tops : t \in ObjectsOf(card) /\ f \in card.below[t]
  BY FolderPlace DEF InFolders
<1>2. f \in ObjectsOf(card) /\ f \notin Tops
  BY <1>1, Forest
<1>3. home[f] = f
  BY <1>1 DEF HomeMap, InFolders
<1>4. ASSUME NEW p \in ObjectsOf(card), p \notin Tops, home[p] = f, NEW x \in card.below[p]
      PROVE  home[x] = f
  <2>1. ~InFolders(x)
    BY <1>4, BelowNoTop
  <2> QED
    BY <1>4, <2>1 DEF HomeMap, InFolders
<1>5. 0 \in S
  BY <1>2, <1>3, <1>4, Parents, BoundsAssumption
<1>6. ASSUME NEW n \in Nat, n < MaxDepth, n \in S PROVE n + 1 \in S
  <2>1. n + 1 \in 0 .. MaxDepth /\ n + 1 # 0 /\ n + 1 - 1 = n /\ n \in 0 .. MaxDepth
    BY <1>6, BoundsAssumption
  <2>2. ASSUME NEW x \in L[n + 1] PROVE home[x] = f
    <3>1. PICK p \in L[n] : p \in ObjectsOf(card) /\ x \in card.below[p]
      BY <1>2, <2>1, Parents
    <3>2. \E q \in ObjectsOf(card) : p \in card.below[q]
      BY <1>2, <2>1, Parents
    <3>3. p \notin Tops
      BY <3>2, Forest
    <3>4. home[p] = f
      BY <1>6, <3>1
    <3> QED
      BY <1>4, <3>1, <3>3, <3>4
  <2> QED
    BY <2>1, <2>2
<1>7. 0 .. MaxDepth \subseteq S
  <2> HIDE DEF S
  <2> QED
    BY <1>5, <1>6, BoundedInduction, BoundsAssumption
<1> QED
  BY <1>7

\* In a storage without such folders nothing has a home.
LEMMA HomesAtRoot ==
  ASSUME card \in Layouts, NEW home, HomeMap(card, home), NEW i \in DOMAIN card.root,
         FoldersOf(card, i) = {}, NEW d \in 0 .. MaxDepth, NEW h \in LevelsBelow(card.root[i], Root)[d]
  PROVE  home[h] = Root
<1> DEFINE s == card.root[i]
           L == LevelsBelow(s, Root)
           S == {n \in 0 .. MaxDepth : \A x \in L[n] : home[x] = Root}
<1>1. s \subseteq Tops /\ s \subseteq ObjectsOf(card)
  BY Forest DEF Tops, RootsOf
<1>2. 0 \in S
  <2>1. ASSUME NEW x \in L[0] PROVE home[x] = Root
    <3>1. x \in Children(s, Root)
      BY <2>1, LevelZero
    <3>2. x \in s
      BY <1>1, <3>1, ChildrenLie
    <3> QED
      BY <1>1, <3>2 DEF HomeMap, Tops
  <2> QED
    BY <2>1, BoundsAssumption
<1>3. ASSUME NEW n \in Nat, n < MaxDepth, n \in S PROVE n + 1 \in S
  <2>1. n \in 0 .. MaxDepth /\ n + 1 \in 0 .. MaxDepth
    BY <1>3, BoundsAssumption
  <2>2. ASSUME NEW x \in L[n + 1] PROVE home[x] = Root
    <3>1. PICK p \in L[n] : x \in Children(s, p)
      BY <1>3, LevelParent
    <3>2. p \in ObjectsOf(card)
      BY <1>1, <2>1, LevelsLie
    <3>3. x \in card.below[p]
      BY <1>1, <3>1, <3>2, ChildrenLie
    <3>4. home[p] = Root
      BY <1>3, <3>1
    <3>5. ASSUME NEW j \in DOMAIN card.root, x \in FoldersOf(card, j) PROVE FALSE
      <4>1. PICK t \in card.root[j] : t \in ObjectsOf(card) /\ x \in card.below[t]
        BY <3>5, FolderPlace
      <4>2. t = p
        BY <3>2, <3>3, <4>1, Forest
      <4>3. PICK storage : StorageMap(card, storage)
        BY StoragesExist
      <4>4. storage[p] = j
        BY <4>1, <4>2, <4>3 DEF StorageMap
      <4>5. storage[p] = i
        BY <2>1, <3>1, <4>3, LevelsStored
      <4> QED
        BY <3>5, <4>4, <4>5
    <3> QED
      BY <3>2, <3>3, <3>4, <3>5 DEF HomeMap
  <2> QED
    BY <2>1, <2>2
<1>4. 0 .. MaxDepth \subseteq S
  <2> HIDE DEF S
  <2> QED
    BY <1>2, <1>3, BoundedInduction, BoundsAssumption
<1> QED
  BY <1>4

\* The folders that are discovered are such folders, under their names.
LEMMA PlainFolders ==
  ASSUME card \in Layouts, IsPlain(card), NEW s, s \subseteq Tops, NEW f \in DiscoverFolders(s)
  PROVE  /\ f \in NamedFolders(s)
         /\ f.name # "" /\ f.name = card.object[f.handle].name
         /\ InFolders(f.handle)
         /\ \A i \in DOMAIN card.root : s = card.root[i] => f.handle \in FoldersOf(card, i)
<1>1. VirtualFolders(s) = {}
  <2>1. LeafContainers(s) = {}
    BY DEF LeafContainers, Virtual, IsPlain
  <2> QED
    BY <2>1, VirtualRecords
<1>2. f \in NamedFolders(s)
  BY <1>1 DEF DiscoverFolders
<1>3. PICK t \in s : /\ ReadableFolder(t) /\ card.object[t].name = "DCIM"
                     /\ f.handle \in card.below[t] /\ ReadableFolder(f.handle)
                     /\ f = [name |-> card.object[f.handle].name, handle |-> f.handle]
                     /\ f.name \notin {"", "DCIM"}
  BY <1>2, NamedPlaced
<1>4. Folder(t) /\ Folder(f.handle)
  BY <1>3 DEF ReadableFolder, IsFolder, Folder
<1>5. f.name = card.object[f.handle].name
  <2> DEFINE h == f.handle
  <2>1. f = [name |-> card.object[h].name, handle |-> h]
    BY <1>3
  <2> HIDE DEF h
  <2>2. f.name = card.object[h].name
    BY <2>1
  <2> QED
    BY <2>2 DEF h
<1>6. \A i \in DOMAIN card.root : t \in card.root[i] => f.handle \in FoldersOf(card, i)
  BY <1>3, <1>4, <1>5, FolderOf
<1>7. \E i \in DOMAIN card.root : t \in card.root[i]
  BY DEF Tops, RootsOf
<1> QED
  BY <1>2, <1>3, <1>5, <1>6, <1>7 DEF InFolders
\* While no question fails, all of them are discovered.
LEMMA AllDiscovered ==
  ASSUME card \in Layouts, IsPlain(card), failing = NoQuestion,
         NEW i \in DOMAIN card.root, NEW h \in FoldersOf(card, i)
  PROVE  [name |-> card.object[h].name, handle |-> h] \in DiscoverFolders(card.root[i])
<1> DEFINE s == card.root[i]
           dcim == {x \in ChildrenIfAny(s, Root) : ReadableFolder(x) /\ card.object[x].name = "DCIM"}
           first == CHOOSE x \in dcim : \A y \in dcim : x <= y
           named == {x \in ChildrenIfAny(s, first) :
                       ReadableFolder(x) /\ card.object[x].name \notin {"", "DCIM"}}
           folders == {[name |-> card.object[x].name, handle |-> x] : x \in named}
           record == [name |-> card.object[h].name, handle |-> h]
<1>0. \A x \in FoldersOf(card, i) : card.object[x].name = card.object[h].name => x = h
  BY DEF IsPlain
<1>1. \A p : ~Fails("discover", "children", p) /\ ~Fails("discover", "info", p)
  BY DEF Fails, NoQuestion
<1>2. /\ \A p : ChildrenIfAny(s, p) = Children(s, p)
      /\ \A x : ReadableFolder(x) <=> Folder(x)
  BY <1>1 DEF ChildrenIfAny, ReadableFolder, InfoFails, IsFolder, Folder
<1>3. \A x : Folder(x) => x \notin PicturesOf(card)
  BY DEF Folder, PicturesOf
<1>4. PICK t \in s : /\ t \in ObjectsOf(card) /\ t \in Tops
                     /\ Folder(t) /\ card.object[t].name = "DCIM" /\ h \in card.below[t]
  BY FolderPlace
<1>5. t # Root /\ h \in Nat /\ dcim \subseteq s /\ s \subseteq Tops
  <2>1. s \subseteq Tops
    BY RootsLie
  <2>2. dcim \subseteq s
    BY <1>2, <2>1, ChildrenLie
  <2> QED
    BY <1>4, <2>1, <2>2, Forest, FolderPlace
<1>6. t \in dcim
  BY <1>2, <1>3, <1>4 DEF Children
<1>7. dcim = {t}
  <2>1. ASSUME NEW x \in dcim PROVE x = t
    <3>1. x \in s /\ Folder(x) /\ card.object[x].name = "DCIM"
      BY <1>2, <1>5
    <3> HIDE DEF dcim
    <3> QED
      BY <1>4, <3>1 DEF IsPlain, Folder
  <2> HIDE DEF dcim
  <2> QED
    BY <1>6, <2>1
<1>8. first = t
  <2>1. t <= t
    BY <1>4, Forest
  <2> HIDE DEF dcim
  <2>2. \E x \in dcim : \A y \in dcim : x <= y
    BY <1>7, <2>1
  <2>3. first \in dcim
    BY <2>2
  <2> HIDE DEF first
  <2> QED
    BY <1>7, <2>3
<1> HIDE DEF first
<1>9. h \in Children(s, t)
  <2>1. Folder(h)
    BY FolderOf
  <2> QED
    BY <1>3, <1>4, <1>5, <2>1 DEF Children
<1>10. \A x \in named : x \in FoldersOf(card, i)
  <2> SUFFICES ASSUME NEW x \in named PROVE x \in FoldersOf(card, i)
    OBVIOUS
  <2>1. x \in Children(s, t) /\ Folder(x) /\ card.object[x].name \notin {"", "DCIM"}
    BY <1>2, <1>8
  <2>2. x \in card.below[t]
    BY <1>4, <1>5, <2>1, ChildrenLie
  <2> QED
    BY <1>4, <2>1, <2>2, FolderOf
<1>11. h \in named
  <2>1. Folder(h) /\ card.object[h].name \notin {"", "DCIM"}
    BY FolderOf
  <2> QED
    BY <1>2, <1>8, <1>9, <2>1
<1>12. record \in FirstOfName(folders)
  <2>1. record \in folders
    BY <1>11
  <2>2. ASSUME NEW x \in named, card.object[x].name = card.object[h].name PROVE x >= h
    <3>1. x \in FoldersOf(card, i)
      BY <1>10, <2>2
    <3> HIDE DEF named
    <3>2. x = h
      BY <1>0, <2>2, <3>1
    <3> QED
      BY <1>5, <3>2
  <2> HIDE DEF named
  <2>3. \A g \in folders : g.name = record.name => g.handle >= record.handle
    BY <2>2
  <2> QED
    BY <2>1, <2>3 DEF FirstOfName
<1>13. NamedFolders(s) = IF dcim = {} THEN {} ELSE FirstOfName(folders)
  BY DEF NamedFolders, first
<1>14. record \in NamedFolders(s)
  <2> HIDE DEF dcim, folders, record
  <2> QED
    BY <1>6, <1>12, <1>13
<1> QED
  BY <1>14 DEF DiscoverFolders

\* A picture that a listing should name.
Awaited(h) == h \in present /\ h \notin known

\* What is not a picture is not known, and no child of its parent is overlooked.
LEMMA ChildListed ==
  ASSUME card \in Layouts, known \subseteq PicturesOf(card), NEW s, NEW p \in ObjectsOf(card),
         NEW h \in card.below[p], h \in PicturesOf(card) => Awaited(h)
  PROVE  h \in Children(s, p) /\ h \notin known
<1>1. p # Root
  BY Forest
<1> QED
  BY <1>1 DEF Children, Awaited

\* A walk from the root of a storage comes to everything in it.
LEMMA WholeTree ==
  ASSUME card \in Layouts, IsPlain(card), known \subseteq PicturesOf(card),
         NEW depth \in [ObjectsOf(card) -> 0 .. MaxDepth], DepthMap(card, depth),
         NEW storage, StorageMap(card, storage), NEW i \in DOMAIN card.root,
         NEW h \in ObjectsOf(card), storage[h] = i, Awaited(h)
  PROVE  h \in Walked(card.root[i], Root)
<1> DEFINE s == card.root[i]
           L == LevelsBelow(s, Root)
           Seen(x) == storage[x] = i /\ (x \in PicturesOf(card) => Awaited(x))
           S == {n \in 0 .. MaxDepth : \A x \in ObjectsOf(card) : depth[x] = n /\ Seen(x) => x \in L[n]}
<1>1. 0 \in S
  <2>1. ASSUME NEW x \in ObjectsOf(card), depth[x] = 0, Seen(x) PROVE x \in L[0]
    <3>1. x \in RootsOf(card)
      BY <2>1, BoundsAssumption DEF DepthMap
    <3>2. x \in s
      BY <2>1, <3>1 DEF RootsOf, StorageMap
    <3>3. x \in Children(s, Root) /\ x \notin known
      BY <2>1, <3>2 DEF Children, Awaited
    <3> QED
      BY <3>3, LevelZero
  <2> QED
    BY <2>1, BoundsAssumption
<1>2. ASSUME NEW n \in Nat, n < MaxDepth, n \in S PROVE n + 1 \in S
  <2>1. ASSUME NEW x \in ObjectsOf(card), depth[x] = n + 1, Seen(x) PROVE x \in L[n + 1]
    <3>1. PICK p \in ObjectsOf(card) : x \in card.below[p] /\ Folder(p) /\ depth[x] = depth[p] + 1
      BY <1>2, <2>1 DEF DepthMap, Folder
    <3>2. depth[p] = n /\ p \notin PicturesOf(card)
      BY <1>2, <2>1, <3>1, BoundsAssumption DEF PicturesOf, Folder
    <3>3. storage[p] = i
      BY <2>1, <3>1 DEF StorageMap
    <3>4. p \in L[n]
      BY <1>2, <3>2, <3>3
    <3>5. IsContainer(s, p)
      BY <3>1 DEF IsContainer, Virtual, IsPlain, IsFolder, Folder
    <3>6. x \in Children(s, p) /\ x \notin known
      BY <2>1, <3>1, ChildListed
    <3> HIDE DEF L
    <3>7. L[n + 1] = {y \in UNION {Children(s, q) : q \in {q \in L[n] : IsContainer(s, q)}} : y \notin known}
      BY <1>2, LevelNext DEF L
    <3> QED
      BY <3>4, <3>5, <3>6, <3>7
  <2> QED
    BY <1>2, <2>1, BoundsAssumption
<1>3. 0 .. MaxDepth \subseteq S
  <2> HIDE DEF S
  <2> QED
    BY <1>1, <1>2, BoundedInduction, BoundsAssumption
<1>4. h \in L[depth[h]] /\ depth[h] \in 0 .. MaxDepth
  BY <1>3
<1> QED
  BY <1>4 DEF Walked

\* A walk from a folder comes to everything that is at home in it.
LEMMA FolderTree ==
  ASSUME card \in Layouts, IsPlain(card), known \subseteq PicturesOf(card),
         NEW depth \in [ObjectsOf(card) -> 0 .. MaxDepth], DepthMap(card, depth),
         NEW home, HomeMap(card, home), NEW s, NEW f \in ObjectsOf(card), ~(f \in PicturesOf(card)),
         NEW h \in ObjectsOf(card), home[h] = f, Awaited(h), h \in PicturesOf(card)
  PROVE  h \in Walked(s, f)
<1> DEFINE L == LevelsBelow(s, f)
           Seen(x) == home[x] = f /\ x # f /\ (x \in PicturesOf(card) => Awaited(x))
           S == {n \in 0 .. MaxDepth : \A x \in ObjectsOf(card) :
                   depth[x] = n /\ Seen(x) => \E d \in 0 .. MaxDepth : d < n /\ x \in L[d]}
<1>1. 0 \in S
  <2>1. ASSUME NEW x \in ObjectsOf(card), depth[x] = 0, Seen(x) PROVE FALSE
    <3>1. x \in RootsOf(card)
      BY <2>1, BoundsAssumption DEF DepthMap
    <3>2. home[x] = Root
      BY <3>1 DEF HomeMap
    <3> QED
      BY <2>1, <3>2, Forest
  <2> QED
    BY <2>1, BoundsAssumption
<1>2. ASSUME NEW n \in Nat, n < MaxDepth, n \in S PROVE n + 1 \in S
  <2>1. ASSUME NEW x \in ObjectsOf(card), depth[x] = n + 1, Seen(x)
        PROVE  \E d \in 0 .. MaxDepth : d < n + 1 /\ x \in L[d]
    <3>1. PICK p \in ObjectsOf(card) : x \in card.below[p] /\ Folder(p) /\ depth[x] = depth[p] + 1
      BY <1>2, <2>1 DEF DepthMap, Folder
    <3>2. depth[p] = n /\ p \notin PicturesOf(card)
      BY <1>2, <2>1, <3>1, BoundsAssumption DEF PicturesOf, Folder
    <3>3. home[p] = f
      BY <2>1, <3>1 DEF HomeMap
    <3>4. \A t : x \in Children(t, p) /\ x \notin known
      BY <2>1, <3>1, ChildListed
    <3>5. CASE p = f
      <4>1. x \in L[0]
        BY <3>4, <3>5, LevelZero
      <4>2. 0 \in 0 .. MaxDepth /\ 0 < n + 1
        BY BoundsAssumption
      <4> QED
        BY <4>1, <4>2
    <3>6. CASE p # f
      <4>1. PICK d \in 0 .. MaxDepth : d < n /\ p \in L[d]
        BY <1>2, <3>2, <3>3, <3>6
      <4>2. IsContainer(s, p)
        BY <3>1 DEF IsContainer, Virtual, IsPlain, IsFolder, Folder
      <4>3. d \in Nat /\ d < MaxDepth /\ d + 1 \in 0 .. MaxDepth /\ d + 1 < n + 1
        BY <1>2, <4>1, BoundsAssumption
      <4> HIDE DEF L
      <4>4. L[d + 1] = {y \in UNION {Children(s, q) : q \in {q \in L[d] : IsContainer(s, q)}} :
                         y \notin known}
        BY <4>3, LevelNext DEF L
      <4>5. x \in L[d + 1]
        BY <3>4, <4>1, <4>2, <4>4
      <4> QED
        BY <4>3, <4>5
    <3> QED
      BY <3>5, <3>6
  <2> QED
    BY <1>2, <2>1, BoundsAssumption
<1>3. 0 .. MaxDepth \subseteq S
  <2> HIDE DEF S
  <2> QED
    BY <1>1, <1>2, BoundedInduction, BoundsAssumption
<1>4. \E d \in 0 .. MaxDepth : h \in L[d]
  <2>1. depth[h] \in 0 .. MaxDepth /\ Seen(h)
    OBVIOUS
  <2> HIDE DEF L, Seen
  <2> QED
    BY <1>3, <2>1
<1> QED
  BY <1>4 DEF Walked
-----------------------------------------------------------------------------
(* Plain cards: every picture is listed, under its own name.                 *)

\* What IsPlain says of where pictures are.
PlainMaps(depth, home, storage) ==
  /\ depth \in [ObjectsOf(card) -> 0 .. MaxDepth] /\ DepthMap(card, depth)
  /\ HomeMap(card, home)
  /\ \A h \in PicturesOf(card) : card.tag[h] = IF home[h] = Root THEN "" ELSE card.object[home[h]].name
  /\ storage \in [ObjectsOf(card) -> DOMAIN card.root] /\ StorageMap(card, storage)
  /\ \A h \in PicturesOf(card) :
       FoldersOf(card, storage[h]) # {} => home[h] \in FoldersOf(card, storage[h])

LEMMA MapsExist ==
  ASSUME IsPlain(card)
  PROVE  \E depth, home, storage : PlainMaps(depth, home, storage)
<1>1. PICK depth \in [ObjectsOf(card) -> 0 .. MaxDepth] : DepthMap(card, depth)
  BY DEF IsPlain
<1>2. PICK home \in [ObjectsOf(card) -> ObjectsOf(card) \cup {Root}] :
       /\ HomeMap(card, home)
       /\ \A h \in PicturesOf(card) : card.tag[h] = IF home[h] = Root THEN "" ELSE card.object[home[h]].name
       /\ \E storage \in [ObjectsOf(card) -> DOMAIN card.root] :
            /\ StorageMap(card, storage)
            /\ \A h \in PicturesOf(card) :
                 FoldersOf(card, storage[h]) # {} => home[h] \in FoldersOf(card, storage[h])
  BY DEF IsPlain
<1>3. PICK storage \in [ObjectsOf(card) -> DOMAIN card.root] :
        /\ StorageMap(card, storage)
        /\ \A h \in PicturesOf(card) :
             FoldersOf(card, storage[h]) # {} => home[h] \in FoldersOf(card, storage[h])
  BY <1>2
<1> QED
  BY <1>1, <1>2, <1>3 DEF PlainMaps

\* The entries of a tree.
LEMMA TreeEntries ==
  ASSUME NEW s, NEW top, NEW folder, NEW byHandle, Enumerate(s, top, folder, byHandle).ok
  PROVE  /\ \A h : h \in Walked(s, top) /\ h \in PicturesOf(card) =>
              \E x \in Enumerate(s, top, folder, byHandle).images : x.handle = h
         /\ \A x \in Enumerate(s, top, folder, byHandle).images :
              /\ x.handle \in Walked(s, top) /\ x.handle \in PicturesOf(card)
              /\ x.tag = Tag(x.handle, folder, byHandle)
<1> DEFINE images == Enumerate(s, top, folder, byHandle).images
           pictures == Walked(s, top) \cap PicturesOf(card)
<1>1. images = {[handle |-> h, tag |-> Tag(h, folder, byHandle)] : h \in pictures}
  BY EnumerateLists
<1> HIDE DEF images, pictures
<1>2. ASSUME NEW h \in pictures PROVE \E x \in images : x.handle = h
  <2>1. [handle |-> h, tag |-> Tag(h, folder, byHandle)] \in images
    BY <1>1
  <2> QED
    BY <2>1
<1>3. ASSUME NEW x \in images
      PROVE  x.handle \in pictures /\ x.tag = Tag(x.handle, folder, byHandle)
  <2>1. PICK h \in pictures : x = [handle |-> h, tag |-> Tag(h, folder, byHandle)]
    BY <1>1
  <2>2. x.handle = h /\ x.tag = Tag(h, folder, byHandle)
    BY <2>1
  <2> QED
    BY <2>2
<1> QED
  BY <1>2, <1>3 DEF images, pictures

\* Without virtual handles a tag is the name of the folder.
LEMMA PlainTag ==
  ASSUME IsPlain(card), NEW h, NEW folder, NEW byHandle
  PROVE  Tag(h, folder, byHandle) = folder
<1>1. ~Virtual(h)
  BY DEF IsPlain, Virtual
<1> QED
  BY <1>1 DEF Tag

\* The entries of the whole tree.
LEMMA RootPictures ==
  ASSUME NEW s, NEW byHandle, Tree(s, byHandle).ok,
         NEW h, h \in Walked(s, Root), h \in PicturesOf(card)
  PROVE  \E x \in Tree(s, byHandle).images : x.handle = h
<1> DEFINE unnamed == ""
<1>1. Tree(s, byHandle) = Enumerate(s, Root, unnamed, byHandle)
  BY DEF Tree
<1> HIDE DEF unnamed
<1> QED
  BY <1>1, TreeEntries

LEMMA RootTags ==
  ASSUME IsPlain(card), NEW s, NEW byHandle, Tree(s, byHandle).ok,
         NEW x \in Tree(s, byHandle).images
  PROVE  x.handle \in Walked(s, Root) /\ x.handle \in PicturesOf(card) /\ x.tag = ""
<1> DEFINE unnamed == ""
<1>1. Tree(s, byHandle) = Enumerate(s, Root, unnamed, byHandle)
  BY DEF Tree
<1> HIDE DEF unnamed
<1>2. x.handle \in Walked(s, Root) /\ x.handle \in PicturesOf(card) /\ x.tag = unnamed
  BY <1>1, TreeEntries, PlainTag
<1> QED
  BY <1>2 DEF unnamed

\* While no question fails, the folders of a storage list every picture that is
\* at home in one of them.
LEMMA FoldersComplete ==
  ASSUME card \in Layouts, IsPlain(card), known \subseteq PicturesOf(card), failing = NoQuestion,
         NEW depth, NEW home, NEW storage, PlainMaps(depth, home, storage),
         NEW i \in DOMAIN card.root, NEW before, NEW folders,
         folders = DiscoverFolders(card.root[i]), ListFolders(before, card.root[i], folders).ok,
         NEW h \in PicturesOf(card), Awaited(h), storage[h] = i, FoldersOf(card, i) # {}
  PROVE  \E x \in ListFolders(before, card.root[i], folders).images : x.handle = h
<1> DEFINE s == card.root[i]
           f == home[h]
           record == [name |-> card.object[f].name, handle |-> f]
           E(g) == Enumerate(s, g.handle, g.name, folders)
<1>1. f \in FoldersOf(card, i)
  BY DEF PlainMaps
<1>2. f \in ObjectsOf(card) /\ ~(f \in PicturesOf(card))
  BY <1>1, FolderPlace, FolderOf DEF PicturesOf, Folder
<1>3. record \in folders
  BY <1>1, AllDiscovered
<1>4. E(record).ok /\ E(record).images \subseteq ListFolders(before, s, folders).images
  <2> HIDE DEF record
  <2> QED
    BY <1>3, FoldersListed
<1>5. h \in Walked(s, f)
  <2>1. h \in ObjectsOf(card)
    BY DEF PicturesOf
  <2> QED
    BY <1>2, <2>1, FolderTree DEF PlainMaps
<1>6. Enumerate(s, f, record.name, folders).ok
  BY <1>4
<1>7. \E x \in Enumerate(s, f, record.name, folders).images : x.handle = h
  <2> HIDE DEF record, f
  <2> QED
    BY <1>5, <1>6, TreeEntries
<1> QED
  BY <1>4, <1>7

\* A storage has folders that are discovered if it has any that count.
LEMMA NoFolders ==
  ASSUME card \in Layouts, IsPlain(card), failing = NoQuestion, NEW i \in DOMAIN card.root
  PROVE  DiscoverFolders(card.root[i]) = {} <=> FoldersOf(card, i) = {}
<1>1. card.root[i] \subseteq Tops
  BY RootsLie
<1>2. ASSUME NEW f \in DiscoverFolders(card.root[i]) PROVE FoldersOf(card, i) # {}
  BY <1>1, PlainFolders
<1>3. ASSUME NEW h \in FoldersOf(card, i) PROVE DiscoverFolders(card.root[i]) # {}
  BY AllDiscovered
<1> QED
  BY <1>2, <1>3

LEMMA StorageComplete ==
  ASSUME card \in Layouts, IsPlain(card), known \subseteq PicturesOf(card), failing = NoQuestion,
         NEW depth, NEW home, NEW storage, PlainMaps(depth, home, storage),
         NEW i \in DOMAIN card.root, NEW before, before.ok, ListStorage(before, card.root[i]).ok,
         NEW h \in PicturesOf(card), Awaited(h), storage[h] = i
  PROVE  \E x \in ListStorage(before, card.root[i]).images : x.handle = h
<1> DEFINE s == card.root[i]
           folders == DiscoverFolders(s)
           listed == ListFolders(before, s, folders)
<1>1. CASE FoldersOf(card, i) = {}
  <2>1. folders = {}
    BY <1>1, NoFolders
  <2>2. Tree(s, {}).ok /\ Tree(s, {}).images \subseteq ListStorage(before, s).images
    BY <2>1, StorageCases
  <2>3. h \in Walked(s, Root)
    <3>1. h \in ObjectsOf(card)
      BY DEF PicturesOf
    <3> QED
      BY <3>1, WholeTree DEF PlainMaps
  <2>4. \E x \in Tree(s, {}).images : x.handle = h
    BY <2>2, <2>3, RootPictures
  <2> QED
    BY <2>2, <2>4
<1>2. CASE FoldersOf(card, i) # {}
  <2>1. listed.ok => \E x \in listed.images : x.handle = h
    BY <1>2, FoldersComplete
  <2>2. folders # {}
    BY <1>2, NoFolders
  <2>3. listed.ok /\ (listed.images = {} \/ ListStorage(before, s) = listed)
    BY <2>2, StorageCases
  <2> QED
    BY <2>1, <2>3
<1> QED
  BY <1>1, <1>2

\* What may be said of an entry, in a name.
OwnTags(images) == \A x \in images : x.tag \in MayTag(x.handle)

\* The trees of the folders carry the names of the folders.
LEMMA FoldersOwn ==
  ASSUME card \in Layouts, IsPlain(card),
         NEW depth, NEW home, NEW storage, PlainMaps(depth, home, storage),
         NEW s, s \subseteq Tops, NEW before, OwnTags(before.images), NEW folders,
         folders = DiscoverFolders(s), ListFolders(before, s, folders).ok
  PROVE  OwnTags(ListFolders(before, s, folders).images)
<1> DEFINE E(f) == Enumerate(s, f.handle, f.name, folders)
<1>1. ASSUME NEW f \in folders, NEW x \in E(f).images PROVE x.tag \in MayTag(x.handle)
  <2>1. /\ x.handle \in Walked(s, f.handle) /\ x.handle \in PicturesOf(card)
        /\ x.tag = Tag(x.handle, f.name, folders)
    BY <1>1, FoldersListed, TreeEntries
  <2>2. x.tag = f.name
    BY <2>1, PlainTag
  <2>3. f.name = card.object[f.handle].name /\ f.name # "" /\ InFolders(f.handle)
    BY PlainFolders
  <2>4. home[x.handle] = f.handle
    <3>1. PICK d \in 0 .. MaxDepth : x.handle \in LevelsBelow(s, f.handle)[d]
      BY <2>1 DEF Walked
    <3>2. HomeMap(card, home)
      BY DEF PlainMaps
    <3>3. \A g : InFolders(g) => \A x1 \in LevelsBelow(s, g)[d] : home[x1] = g
      BY <3>2, HomesBelow
    <3> QED
      BY ONLY <2>3, <3>1, <3>3
  <2>5. f.handle # Root
    BY <2>3, FolderPlace, Forest DEF InFolders
  <2>6. card.tag[x.handle] = f.name
    BY <2>1, <2>3, <2>4, <2>5 DEF PlainMaps
  <2> QED
    BY <2>2, <2>6 DEF MayTag
<1>2. \A x \in ListFolders(before, s, folders).images :
        x \in before.images \/ \E f \in folders : x \in E(f).images
  BY FoldersListed
<1> HIDE DEF E
<1> QED
  BY <1>1, <1>2 DEF OwnTags

\* A tree without a folder has pictures without a home.
LEMMA TreeOwn ==
  ASSUME card \in Layouts, IsPlain(card),
         NEW depth, NEW home, NEW storage, PlainMaps(depth, home, storage),
         NEW s, NEW byHandle, Tree(s, byHandle).ok,
         failing # NoQuestion
           \/ \E i \in DOMAIN card.root : s = card.root[i] /\ FoldersOf(card, i) = {}
  PROVE  OwnTags(Tree(s, byHandle).images)
<1> SUFFICES ASSUME NEW x \in Tree(s, byHandle).images
             PROVE  x.tag \in MayTag(x.handle)
  BY DEF OwnTags
<1>1. x.handle \in Walked(s, Root) /\ x.handle \in PicturesOf(card) /\ x.tag = ""
  BY RootTags
<1>2. CASE failing # NoQuestion
  BY <1>1, <1>2 DEF MayTag
<1>3. CASE \E i \in DOMAIN card.root : s = card.root[i] /\ FoldersOf(card, i) = {}
  <2>1. home[x.handle] = Root
    <3>1. PICK d \in 0 .. MaxDepth : x.handle \in LevelsBelow(s, Root)[d]
      BY <1>1 DEF Walked
    <3>2. HomeMap(card, home)
      BY DEF PlainMaps
    <3>3. PICK i \in DOMAIN card.root : s = card.root[i] /\ FoldersOf(card, i) = {}
      BY <1>3
    <3> QED
      BY <3>1, <3>2, <3>3, HomesAtRoot
  <2>2. card.tag[x.handle] = ""
    BY <1>1, <2>1 DEF PlainMaps
  <2> QED
    BY <1>1, <2>2 DEF MayTag
<1> QED
  BY <1>2, <1>3
LEMMA WalkedStored ==
  ASSUME card \in Layouts, NEW storage, StorageMap(card, storage), NEW i \in DOMAIN card.root,
         NEW h, h \in Walked(card.root[i], Root)
  PROVE  storage[h] = i
<1>1. PICK d \in 0 .. MaxDepth : h \in LevelsBelow(card.root[i], Root)[d]
  BY DEF Walked
<1> DEFINE root == Root
<1> HIDE DEF root
<1>2. root = Root /\ h \in LevelsBelow(card.root[i], root)[d]
  BY <1>1 DEF root
<1> QED
  BY <1>2, LevelsStored

\* When the folders list nothing, the tree around them has nothing new either.
LEMMA FallbackEmpty ==
  ASSUME card \in Layouts, IsPlain(card), known \subseteq PicturesOf(card), failing = NoQuestion,
         NEW depth, NEW home, NEW storage, PlainMaps(depth, home, storage),
         NEW i \in DOMAIN card.root, FoldersOf(card, i) # {}, NEW before, NEW folders,
         folders = DiscoverFolders(card.root[i]), ListFolders(before, card.root[i], folders).ok,
         ListFolders(before, card.root[i], folders).images = {}, Tree(card.root[i], folders).ok
  PROVE  Tree(card.root[i], folders).images = {}
<1> SUFFICES ASSUME NEW x \in Tree(card.root[i], folders).images PROVE FALSE
  OBVIOUS
<1> DEFINE h == x.handle
<1>1. h \in Walked(card.root[i], Root) /\ h \in PicturesOf(card)
  BY RootTags
<1>2. PICK d \in 0 .. MaxDepth : h \in LevelsBelow(card.root[i], Root)[d]
  BY <1>1 DEF Walked
<1>3. card.root[i] \subseteq Tops
  BY RootsLie
<1> HIDE DEF h
<1>4. Awaited(h)
  BY <1>1, <1>2, <1>3, LevelsLie DEF Awaited
<1>5. StorageMap(card, storage)
  BY DEF PlainMaps
<1>6. storage[h] = i
  BY <1>1, <1>5, WalkedStored
<1>7. \E y \in ListFolders(before, card.root[i], folders).images : y.handle = h
  BY <1>1, <1>4, <1>6, FoldersComplete
<1> QED
  BY <1>7

\* A storage, as one that is listed.
LEMMA StorageOwn ==
  ASSUME card \in Layouts, IsPlain(card), known \subseteq PicturesOf(card),
         NEW depth, NEW home, NEW storage, PlainMaps(depth, home, storage),
         NEW m \in 1 .. Len(Storages), NEW before, before.ok, OwnTags(before.images),
         ListStorage(before, Storages[m]).ok
  PROVE  OwnTags(ListStorage(before, Storages[m]).images)
<1> DEFINE s == Storages[m]
           folders == DiscoverFolders(s)
           listed == ListFolders(before, s, folders)
<1>1. s \subseteq Tops
  BY StoragesLie
<1>2. CASE folders = {}
  <2>1. /\ Tree(s, {}).ok
        /\ ListStorage(before, s).images = before.images \cup Tree(s, {}).images
    BY <1>2, StorageCases
  <2>2. failing = NoQuestion =>
          \E i \in DOMAIN card.root : s = card.root[i] /\ FoldersOf(card, i) = {}
    <3>1. SUFFICES ASSUME failing = NoQuestion
                   PROVE  \E i \in DOMAIN card.root : s = card.root[i] /\ FoldersOf(card, i) = {}
      OBVIOUS
    <3>2. m \in DOMAIN card.root /\ s = card.root[m]
      <4>1. Storages = card.root
        BY <3>1, StoragesLie
      <4>2. m \in DOMAIN card.root
        BY <4>1, StoragesLie, RootsAreSequence
      <4> QED
        BY <4>1, <4>2
    <3> QED
      BY <1>2, <3>1, <3>2, NoFolders
  <2>3. OwnTags(Tree(s, {}).images)
    BY <2>1, <2>2, TreeOwn
  <2> QED
    BY <2>1, <2>3 DEF OwnTags
<1>3. CASE folders # {} /\ listed.ok /\ listed.images = {} /\ ListStorage(before, s) = Tree(s, folders)
  <2>1. CASE failing # NoQuestion
    BY <1>3, <2>1, TreeOwn
  <2>2. CASE failing = NoQuestion
    <3>1. PICK i \in DOMAIN card.root : s = card.root[i]
      BY <2>2, StoragesLie, RootsAreSequence
    <3>2. FoldersOf(card, i) # {}
      BY <1>3, <2>2, <3>1, NoFolders
    <3>3. Tree(s, folders).images = {}
      BY <1>3, <2>2, <3>1, <3>2, FallbackEmpty
    <3> QED
      BY <1>3, <3>3 DEF OwnTags
  <2> QED
    BY <2>1, <2>2
<1>4. CASE folders # {} /\ listed.ok /\ ListStorage(before, s) = listed
  <2>1. OwnTags(listed.images)
    BY <1>1, <1>4, FoldersOwn
  <2> QED
    BY <1>4, <2>1
<1> QED
  BY <1>2, <1>3, <1>4, StorageCases

\* After each storage, the entries have their own tags.
LEMMA UptoOwn ==
  ASSUME card \in Layouts, IsPlain(card), known \subseteq PicturesOf(card), ListImages.ok
  PROVE  OwnTags(ListImages.images)
<1> DEFINE S == {n \in 0 .. Len(Storages) : ListedUpto[n].ok => OwnTags(ListedUpto[n].images)}
<1>0. Len(Storages) \in Nat
  BY StoragesLie
<1>1. PICK depth, home, storage : PlainMaps(depth, home, storage)
  BY MapsExist
<1>2. 0 \in S
  BY <1>0, UptoZero DEF OwnTags, Nothing
<1>3. ASSUME NEW n \in Nat, n < Len(Storages), n \in S PROVE n + 1 \in S
  <2>1. n + 1 \in 1 .. Len(Storages) /\ n + 1 \in 0 .. Len(Storages)
    BY <1>0, <1>3
  <2>2. ASSUME ListedUpto[n + 1].ok PROVE OwnTags(ListedUpto[n + 1].images)
    <3>1. ListedUpto[n].ok /\ ListedUpto[n + 1] = ListStorage(ListedUpto[n], Storages[n + 1])
      BY <1>3, <2>2, UptoNext
    <3>2. OwnTags(ListedUpto[n].images)
      BY <1>3, <3>1
    <3>3. OwnTags(ListStorage(ListedUpto[n], Storages[n + 1]).images)
      BY <1>1, <2>1, <2>2, <3>1, <3>2, StorageOwn
    <3> QED
      BY <3>1, <3>3
  <2> QED
    BY <2>1, <2>2
<1>4. 0 .. Len(Storages) \subseteq S
  <2> HIDE DEF S
  <2> QED
    BY <1>0, <1>2, <1>3, BoundedInduction
<1> QED
  BY <1>0, <1>4 DEF ListImages

\* After each storage, while no question fails, every picture of it is listed.
LEMMA UptoComplete ==
  ASSUME card \in Layouts, IsPlain(card), known \subseteq PicturesOf(card), failing = NoQuestion,
         ListImages.ok, NEW h \in PicturesOf(card), Awaited(h)
  PROVE  \E x \in ListImages.images : x.handle = h
<1>0. Len(Storages) \in Nat /\ Storages = card.root /\ DOMAIN card.root = 1 .. Len(Storages)
  BY StoragesLie, RootsAreSequence
<1>1. PICK depth, home, storage : PlainMaps(depth, home, storage)
  BY MapsExist
<1> DEFINE Names(r) == \E x \in r.images : x.handle = h
           S == {n \in 0 .. Len(Storages) :
                   ListedUpto[n].ok /\ storage[h] <= n => Names(ListedUpto[n])}
<1>2. storage[h] \in 1 .. Len(Storages)
  <2>1. h \in ObjectsOf(card)
    BY DEF PicturesOf
  <2> QED
    BY <1>0, <1>1, <2>1 DEF PlainMaps
<1>3. 0 \in S
  BY <1>0, <1>2
<1>4. ASSUME NEW n \in Nat, n < Len(Storages), n \in S PROVE n + 1 \in S
  <2>1. n + 1 \in DOMAIN card.root /\ n + 1 \in 0 .. Len(Storages) /\ n + 1 \in 1 .. Len(Storages)
    BY <1>0, <1>4
  <2>2. ASSUME ListedUpto[n + 1].ok, storage[h] <= n + 1 PROVE Names(ListedUpto[n + 1])
    <3>1. /\ ListedUpto[n].ok /\ ListedUpto[n + 1] = ListStorage(ListedUpto[n], Storages[n + 1])
          /\ Storages[n + 1] = card.root[n + 1]
      BY <1>0, <1>4, <2>2, UptoNext
    <3>2. CASE storage[h] = n + 1
      BY <1>1, <2>1, <2>2, <3>1, <3>2, StorageComplete
    <3>3. CASE storage[h] <= n
      <4>1. Names(ListedUpto[n])
        BY <1>4, <3>1, <3>3
      <4>2. Storages[n + 1] \subseteq Tops
        BY <2>1, StoragesLie
      <4>3. ListedUpto[n].images \subseteq ListedUpto[n + 1].images
        BY <2>2, <3>1, <4>2, StorageLists
      <4> QED
        BY <4>1, <4>3
    <3> QED
      BY <1>2, <2>2, <3>2, <3>3
  <2> QED
    BY <2>1, <2>2
<1>5. 0 .. Len(Storages) \subseteq S
  <2> HIDE DEF S
  <2> QED
    BY <1>0, <1>3, <1>4, BoundedInduction
<1> QED
  BY <1>0, <1>2, <1>5 DEF ListImages

-----------------------------------------------------------------------------
(* The specification.                                                        *)

LEMMA EnumStep ==
  ASSUME EnumTypeOK, [EnumNext]_enumVars
  PROVE  EnumTypeOK'
<1>1. CASE Scan
  <2>1. known' \subseteq taken
    BY <1>1, ListingNamesNew DEF Scan, EnumTypeOK, NamesNew
  <2> QED
    BY <1>1, <2>1 DEF Scan, EnumTypeOK
<1>2. CASE Break
  BY <1>2, BoundsAssumption DEF Break, EnumTypeOK
<1>3. CASE Repair
  BY <1>3 DEF Repair, EnumTypeOK
<1>4. ASSUME NEW h \in PicturesOf(card), ProxyDeletes(h) \/ TakePicture(h) \/ UserDeletes(h)
      PROVE  EnumTypeOK'
  BY <1>4 DEF ProxyDeletes, TakePicture, UserDeletes, EnumTypeOK
<1>5. CASE UNCHANGED enumVars
  BY <1>5 DEF enumVars, EnumTypeOK, Questions, PicturesOf, ObjectsOf
<1> QED
  BY <1>1, <1>2, <1>3, <1>4, <1>5 DEF EnumNext

LEMMA EnumStart == EnumInit => EnumTypeOK
BY BoundsAssumption DEF EnumInit, EnumTypeOK

LEMMA ListedOnce == EnumTypeOK => (ListImages.ok => NamesOnce(ListImages) /\ NamesNew(ListImages))
BY ListingNamesNew, ListingNamesOnce DEF EnumTypeOK

LEMMA PlainFaithful ==
  ASSUME \A c \in Layouts : IsPlain(c)
  PROVE  EnumTypeOK => ListingIsFaithful
<1> SUFFICES ASSUME EnumTypeOK, ListImages.ok
             PROVE  /\ NamesOnce(ListImages) /\ NamesNew(ListImages)
                    /\ NamesAll(ListImages) /\ TagsAreOwn(ListImages)
  BY DEF ListingIsFaithful
<1>1. /\ card \in Layouts /\ IsPlain(card)
      /\ known \subseteq PicturesOf(card) /\ present \subseteq PicturesOf(card)
  BY DEF EnumTypeOK
<1>2. NamesOnce(ListImages) /\ NamesNew(ListImages)
  BY <1>1, ListingNamesNew, ListingNamesOnce
<1>3. NamesAll(ListImages)
  <2> SUFFICES ASSUME failing = NoQuestion, NEW h \in present \ known
               PROVE  h \in Handles(ListImages.images)
    BY DEF NamesAll
  <2>1. \E x \in ListImages.images : x.handle = h
    BY <1>1, UptoComplete DEF Awaited
  <2> QED
    BY <2>1 DEF Handles
<1>4. TagsAreOwn(ListImages)
  BY <1>1, UptoOwn DEF OwnTags, TagsAreOwn
<1> QED
  BY <1>2, <1>3, <1>4

\* The state of the camera and of the poller has its type, for any cards: a
\* listing makes nothing known that was not a picture on the card
\* (poller.go:236-270).
THEOREM EnumTypeCorrect == EnumSpec => []EnumTypeOK
<1>1. EnumTypeOK /\ [EnumNext]_enumVars => EnumTypeOK'
  BY EnumStep
<1> QED
  BY EnumStart, <1>1, PTL DEF EnumSpec

\* Whatever the card, virtual handles or folders, and whatever question fails:
\* a listing that succeeds names every picture once, and none that has gone or is
\* known (objects.go:139-207).
THEOREM ListingNamesEachOnce ==
  EnumSpec => [](ListImages.ok => NamesOnce(ListImages) /\ NamesNew(ListImages))
BY ListedOnce, EnumTypeCorrect, PTL

\* On cards with folders, and no virtual handles, a listing that succeeds is
\* faithful: every picture gets the name of its own folder whatever question
\* fails, and while none does every picture is listed, on any number of storages
\* and whatever MaxDepth (objects.go:134-207, 224-341).
THEOREM PlainListingIsFaithful ==
  ASSUME \A c \in Layouts : IsPlain(c)
  PROVE  EnumSpec => []ListingIsFaithful
<1>1. EnumTypeOK => ListingIsFaithful
  BY PlainFaithful
<1> QED
  BY <1>1, EnumTypeCorrect, PTL
=============================================================================
