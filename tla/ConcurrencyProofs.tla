--------------------------- MODULE ConcurrencyProofs ---------------------------
(***************************************************************************)
(* Proofs about Concurrency, for any branches, names, modules, atoms and   *)
(* bounds: one content per version, handles that are not reused, then the  *)
(* lock table -- bodies of one name exclude each other, and it holds a     *)
(* name exactly while a section of it is left -- and the type invariant,   *)
(* which takes the table and the forms together.  Then the worlds of one   *)
(* fork, each grown out of root's: a module enters &self once, and a par   *)
(* makes of its branches what ParJoinsEffects says.                        *)
(***************************************************************************)
EXTENDS Concurrency, SequenceFunctionsProofs, SequenceTheorems

-----------------------------------------------------------------------------
(* Worlds.                                                                 *)

Bags == [Atoms -> Nat]
SpaceMaps == UNION {[D -> Bags] : D \in SUBSET Nat}
CellMaps == UNION {[D -> Nat] : D \in SUBSET Nat}
WorldSet == [self : Bags, removed : SUBSET Static, spaces : SpaceMaps, cells : CellMaps, version : Nat]

LEMMA MapFacts ==
    /\ \A f : f \in SpaceMaps <=> DOMAIN f \subseteq Nat /\ f \in [DOMAIN f -> Bags]
    /\ \A f : f \in CellMaps <=> DOMAIN f \subseteq Nat /\ f \in [DOMAIN f -> Nat]
<1>1. ASSUME NEW S, NEW f PROVE f \in UNION {[D -> S] : D \in SUBSET Nat} <=> DOMAIN f \subseteq Nat /\ f \in [DOMAIN f -> S]
  OBVIOUS
<1> QED
  BY <1>1 DEF SpaceMaps, CellMaps

\* A map with one more entry, or another value of one.
LEMMA PutTyped ==
    /\ \A f \in SpaceMaps, k \in Nat, b \in Bags : Put(f, k, b) \in SpaceMaps
    /\ \A f \in CellMaps, k \in Nat, v \in Nat : Put(f, k, v) \in CellMaps
<1>1. ASSUME NEW f \in SpaceMaps, NEW k \in Nat, NEW b \in Bags PROVE Put(f, k, b) \in SpaceMaps
  <2>1. DOMAIN f \subseteq Nat /\ f \in [DOMAIN f -> Bags]
    BY MapFacts
  <2>2. DOMAIN Put(f, k, b) \subseteq Nat /\ Put(f, k, b) \in [DOMAIN Put(f, k, b) -> Bags]
    BY <2>1 DEF Put
  <2> QED
    BY <2>2, MapFacts
<1>2. ASSUME NEW f \in CellMaps, NEW k \in Nat, NEW v \in Nat PROVE Put(f, k, v) \in CellMaps
  <2>1. DOMAIN f \subseteq Nat /\ f \in [DOMAIN f -> Nat]
    BY MapFacts
  <2>2. DOMAIN Put(f, k, v) \subseteq Nat /\ Put(f, k, v) \in [DOMAIN Put(f, k, v) -> Nat]
    BY <2>1 DEF Put
  <2> QED
    BY <2>2, MapFacts
<1> QED
  BY <1>1, <1>2

LEMMA NewWorldTyped == NewWorld \in WorldSet /\ EmptyBag \in Bags
<1>1. EmptyBag \in Bags
  BY DEF EmptyBag, Bags
<1>2. << >> \in SpaceMaps /\ << >> \in CellMaps
  <2>1. DOMAIN << >> = {}
    OBVIOUS
  <2>2. << >> \in [{} -> Bags] /\ << >> \in [{} -> Nat]
    OBVIOUS
  <2> QED
    BY <2>1, <2>2, MapFacts
<1> QED
  BY <1>1, <1>2 DEF NewWorld, WorldSet

\* The spaces of a world.
SpacesOf(w) == {Self} \cup DOMAIN w.spaces

LEMMA VisibleTyped ==
    ASSUME NEW w \in WorldSet, NEW s \in SpacesOf(w) PROVE Visible(w, s) \in Bags
<1>1. w.self \in Bags /\ w.spaces \in [DOMAIN w.spaces -> Bags]
  BY MapFacts DEF WorldSet
<1> QED
  BY <1>1 DEF Visible, SpacesOf, Bags

LEMMA AppendTyped ==
    ASSUME NEW w \in WorldSet, NEW s \in SpacesOf(w), NEW atoms, NEW stamp \in Nat
    PROVE  /\ AppendSpace(w, s, atoms, stamp) \in WorldSet
           /\ AppendSpace(w, s, atoms, stamp).version = stamp
<1> DEFINE plus(bag) == [a \in Atoms |-> bag[a] + IF a \in atoms THEN 1 ELSE 0]
<1>0. \A bag \in Bags : plus(bag) \in Bags
  BY DEF Bags
<1> HIDE DEF plus
<1>1. w.self \in Bags /\ w.spaces \in [DOMAIN w.spaces -> Bags] /\ DOMAIN w.spaces \subseteq Nat
  BY MapFacts DEF WorldSet
<1>2. CASE s = Self
  <2>1. AppendSpace(w, s, atoms, stamp) = [w EXCEPT !.self = plus(w.self), !.version = stamp]
    BY <1>2 DEF AppendSpace, plus
  <2> QED
    BY <1>0, <1>1, <2>1 DEF WorldSet
<1>3. CASE s # Self
  <2> DEFINE spaces == [w.spaces EXCEPT ![s] = plus(w.spaces[s])]
  <2>1. AppendSpace(w, s, atoms, stamp) = [w EXCEPT !.spaces = spaces, !.version = stamp]
    BY <1>3 DEF AppendSpace, plus
  <2>2. s \in DOMAIN w.spaces
    BY <1>3 DEF SpacesOf
  <2>3. DOMAIN spaces = DOMAIN w.spaces /\ spaces \in [DOMAIN w.spaces -> Bags]
    BY <1>0, <1>1, <2>2
  <2>4. spaces \in SpaceMaps
    BY <1>1, <2>3, MapFacts
  <2> HIDE DEF spaces
  <2> QED
    BY <2>1, <2>4 DEF WorldSet
<1> QED
  BY <1>2, <1>3

LEMMA EraseTyped ==
    ASSUME NEW w \in WorldSet, NEW s \in SpacesOf(w), NEW a \in Atoms, NEW stamp \in Nat
    PROVE  /\ EraseSpace(w, s, a, stamp) \in WorldSet
           /\ EraseSpace(w, s, a, stamp).version = stamp
<1>1. /\ w.self \in Bags /\ w.self[a] \in Nat /\ w.spaces \in [DOMAIN w.spaces -> Bags]
      /\ DOMAIN w.spaces \subseteq Nat /\ w.removed \subseteq Static
  BY MapFacts DEF WorldSet, Bags
<1>2. CASE s = Self /\ w.self[a] > 0
  <2> DEFINE bag == [w.self EXCEPT ![a] = @ - 1]
  <2>1. EraseSpace(w, s, a, stamp) = [w EXCEPT !.version = stamp, !.self = bag]
    BY <1>2 DEF EraseSpace, WorldSet
  <2>2. bag \in Bags
    BY <1>1, <1>2 DEF Bags
  <2> HIDE DEF bag
  <2> QED
    BY <2>1, <2>2 DEF WorldSet
<1>3. CASE s = Self /\ ~ (w.self[a] > 0)
  <2> DEFINE removed == w.removed \cup ({a} \cap Static)
  <2>1. EraseSpace(w, s, a, stamp) = [w EXCEPT !.version = stamp, !.removed = removed]
    BY <1>1, <1>3 DEF EraseSpace, WorldSet
  <2>2. removed \subseteq Static
    BY <1>1
  <2> HIDE DEF removed
  <2> QED
    BY <2>1, <2>2 DEF WorldSet
<1>4. CASE s # Self
  <2> DEFINE bag == [w.spaces[s] EXCEPT ![a] = IF @ > 0 THEN @ - 1 ELSE 0]
             spaces == [w.spaces EXCEPT ![s] = bag]
  <2>1. EraseSpace(w, s, a, stamp) = [w EXCEPT !.version = stamp, !.spaces = spaces]
    BY <1>4 DEF EraseSpace, WorldSet
  <2>2. s \in DOMAIN w.spaces
    BY <1>4 DEF SpacesOf
  <2>3. bag \in Bags
    BY <1>1, <2>2 DEF Bags
  <2> HIDE DEF bag
  <2>4. DOMAIN spaces = DOMAIN w.spaces /\ spaces \in [DOMAIN w.spaces -> Bags]
    BY <1>1, <2>2, <2>3
  <2>5. spaces \in SpaceMaps
    BY <1>1, <2>4, MapFacts
  <2> HIDE DEF spaces
  <2> QED
    BY <2>1, <2>5 DEF WorldSet
<1> QED
  BY <1>2, <1>3, <1>4

LEMMA AddSpaceTyped ==
    ASSUME NEW w \in WorldSet, NEW id \in Nat, NEW bag \in Bags, NEW stamp \in Nat
    PROVE  /\ AddSpace(w, id, bag, stamp) \in WorldSet
           /\ AddSpace(w, id, bag, stamp).version = stamp
<1>1. w.spaces \in SpaceMaps
  BY DEF WorldSet
<1>2. Put(w.spaces, id, bag) \in SpaceMaps
  BY <1>1, PutTyped
<1> QED
  BY <1>2 DEF AddSpace, WorldSet

LEMMA SetCellTyped ==
    ASSUME NEW w \in WorldSet, NEW id \in Nat, NEW value \in Nat
    PROVE  LET v == SetCell(w, id, value)
           IN  /\ v \in WorldSet /\ v.version = w.version
               /\ v.self = w.self /\ v.removed = w.removed /\ v.spaces = w.spaces
<1>1. w.cells \in CellMaps
  BY DEF WorldSet
<1>2. Put(w.cells, id, value) \in CellMaps
  BY <1>1, PutTyped
<1> QED
  BY <1>2 DEF SetCell, WorldSet

LEMMA ApplyDeltaTyped ==
    \A a, b, c \in Bags : ApplyDelta(a, b, c) \in Bags
BY DEF ApplyDelta, Monus, Bags

LEMMA MergeOneTyped ==
    ASSUME NEW base \in WorldSet, NEW into \in WorldSet, NEW w \in WorldSet,
           DOMAIN base.cells \subseteq DOMAIN into.cells
    PROVE  /\ MergeOne(base, into, w) \in WorldSet
           /\ DOMAIN into.cells \subseteq DOMAIN MergeOne(base, into, w).cells
<1>1. /\ base.self \in Bags /\ into.self \in Bags /\ w.self \in Bags
      /\ into.removed \cup w.removed \subseteq Static
  BY DEF WorldSet
<1> DEFINE spaces == [id \in DOMAIN into.spaces \cup DOMAIN w.spaces |->
                        IF id \in DOMAIN w.spaces
                        THEN ApplyDelta(SpaceOf(into.spaces, id), SpaceOf(base.spaces, id), w.spaces[id])
                        ELSE into.spaces[id]]
           cells == [id \in DOMAIN into.cells \cup DOMAIN w.cells |->
                        IF id \in Changed(base, w) THEN w.cells[id] ELSE into.cells[id]]
<1>2. spaces \in SpaceMaps
  <2>1. \A m \in SpaceMaps : \A id : SpaceOf(m, id) \in Bags
    BY MapFacts, NewWorldTyped DEF SpaceOf
  <2>2. base.spaces \in SpaceMaps /\ into.spaces \in SpaceMaps /\ w.spaces \in SpaceMaps
    BY DEF WorldSet
  <2>3. /\ DOMAIN into.spaces \subseteq Nat /\ DOMAIN w.spaces \subseteq Nat
        /\ \A id \in DOMAIN into.spaces : into.spaces[id] \in Bags
        /\ \A id \in DOMAIN w.spaces : w.spaces[id] \in Bags
    BY <2>2, MapFacts
  <2>4. \A id \in DOMAIN spaces : spaces[id] \in Bags
    BY <2>1, <2>2, <2>3, ApplyDeltaTyped
  <2>5. DOMAIN spaces \subseteq Nat
    BY <2>3
  <2>6. spaces \in [DOMAIN spaces -> Bags]
    BY <2>4
  <2> QED
    BY <2>5, <2>6, MapFacts
<1>3. cells \in CellMaps /\ DOMAIN into.cells \subseteq DOMAIN cells
  <2>1. base.cells \in CellMaps /\ into.cells \in CellMaps /\ w.cells \in CellMaps
    BY DEF WorldSet
  <2>2. /\ DOMAIN into.cells \subseteq Nat /\ DOMAIN w.cells \subseteq Nat
        /\ \A id \in DOMAIN into.cells : into.cells[id] \in Nat
        /\ \A id \in DOMAIN w.cells : w.cells[id] \in Nat
    BY <2>1, MapFacts
  <2>3. \A id \in DOMAIN w.cells : id \notin Changed(base, w) => id \in DOMAIN into.cells
    BY DEF Changed
  <2>4. \A id \in Changed(base, w) : id \in DOMAIN w.cells
    BY DEF Changed
  <2>5. \A id \in DOMAIN cells : cells[id] \in Nat
    BY <2>2, <2>3, <2>4
  <2>6. DOMAIN cells \subseteq Nat
    BY <2>2
  <2>7. cells \in [DOMAIN cells -> Nat]
    BY <2>5
  <2> QED
    BY <2>6, <2>7, MapFacts
<1>4. ApplyDelta(into.self, base.self, w.self) \in Bags
  BY <1>1, ApplyDeltaTyped
<1>5. MergeOne(base, into, w) =
        [into EXCEPT !.self = ApplyDelta(into.self, base.self, w.self),
                     !.removed = into.removed \cup w.removed,
                     !.spaces = spaces, !.cells = cells]
  BY DEF MergeOne
<1> HIDE DEF spaces, cells
<1> QED
  BY <1>1, <1>2, <1>3, <1>4, <1>5 DEF WorldSet

\* The turns of the loop of mergeWorlds.
Merging(g, base, worlds) ==
    /\ g \in [0..Len(worlds) -> WorldSet] /\ g[0] = base
    /\ \A i \in 1..Len(worlds) : g[i] = MergeOne(base, g[i - 1], worlds[i])

\* It ends in a world with the new version.
LEMMA MergeWorldsTyped ==
    ASSUME NEW base \in WorldSet, NEW worlds \in Seq(WorldSet), NEW stamp \in Nat
    PROVE  /\ MergeWorlds(base, worlds, stamp) \in WorldSet
           /\ MergeWorlds(base, worlds, stamp).version = stamp
           /\ \E g : /\ Merging(g, base, worlds)
                    /\ MergeWorlds(base, worlds, stamp) = [g[Len(worlds)] EXCEPT !.version = stamp]
<1> DEFINE last == Len(worlds)
           Larger == {w \in WorldSet : DOMAIN base.cells \subseteq DOMAIN w.cells}
           Merges(g, n) == /\ g \in [0..n -> Larger]
                           /\ g[0] = base
                           /\ \A i \in 1..n : g[i] = MergeOne(base, g[i - 1], worlds[i])
           HasMerges == {n \in Nat : \E g : Merges(g, n)}
<1>1. last \in Nat /\ last \in 0..last /\ \A i \in 1..last : worlds[i] \in WorldSet
  OBVIOUS
<1>2. \A i \in 1..last, w \in Larger : MergeOne(base, w, worlds[i]) \in Larger
  BY <1>1, MergeOneTyped
<1>3. \A n \in 0..last : n \in HasMerges
  <2>1. 0 \in HasMerges
    <3>1. Merges([i \in 0..0 |-> base], 0)
      OBVIOUS
    <3> QED
      BY <3>1
  <2>2. ASSUME NEW n \in 1..last, n - 1 \in HasMerges
        PROVE  n \in HasMerges
    <3>0. n \in Nat \ {0}
      BY <1>1
    <3>1. PICK g : Merges(g, n - 1)
      BY <2>2
    <3>2. MergeOne(base, g[n - 1], worlds[n]) \in Larger
      BY <3>0, <3>1, <1>2
    <3> HIDE DEF Larger
    <3>3. Merges([i \in 0..n |-> IF i = n THEN MergeOne(base, g[n - 1], worlds[n]) ELSE g[i]], n)
      BY <3>0, <3>1, <3>2
    <3> QED
      BY <3>0, <3>3
  <2> HIDE DEF HasMerges
  <2> QED
    BY <1>1, <2>1, <2>2, SetInduction
<1>4. PICK g : Merges(g, last)
  BY <1>1, <1>3
<1> DEFINE step(h) == [n \in 0..last |-> IF n = 0 THEN base ELSE MergeOne(base, h[n - 1], worlds[n])]
           merged == CHOOSE h : h = step(h)
<1>5. g = step(g)
  <2> HIDE DEF Larger
  <2> QED
    BY <1>1, <1>4
<1>6. merged = step(merged)
  BY <1>5
<1>7. \A n \in 0..last : merged[n] \in Larger
  <2> DEFINE T == {n \in Nat : merged[n] \in Larger}
  <2> HIDE DEF merged
  <2>1. 0 \in T
    BY <1>1, <1>6
  <2>2. ASSUME NEW n \in 1..last, n - 1 \in T PROVE n \in T
    <3>1. n \in 0..last /\ n # 0
      OBVIOUS
    <3>2. merged[n] = MergeOne(base, merged[n - 1], worlds[n])
      BY <1>6, <3>1
    <3> HIDE DEF Larger
    <3> QED
      BY <1>2, <2>2, <3>1, <3>2
  <2> HIDE DEF T
  <2>3. \A n \in 0..last : n \in T
    BY <1>1, <2>1, <2>2, SetInduction
  <2> QED
    BY <2>3 DEF T
<1>8. merged[last] \in WorldSet
  BY <1>1, <1>7
<1>9. MergeWorlds(base, worlds, stamp) = [merged[last] EXCEPT !.version = stamp]
  BY DEF MergeWorlds
<1> HIDE DEF merged
<1>10. Merging(merged, base, worlds)
  <2>1. merged \in [0..last -> WorldSet]
    BY <1>6, <1>7
  <2>2. merged[0] = base /\ \A i \in 1..last : merged[i] = MergeOne(base, merged[i - 1], worlds[i])
    BY <1>1, <1>6
  <2> QED
    BY <2>1, <2>2 DEF Merging
<1> QED
  BY <1>8, <1>9, <1>10 DEF WorldSet

-----------------------------------------------------------------------------
(* The inductive invariant.                                                *)

States == [counter : Nat, world : WorldSet]
FrameSet ==
    [kind : {"transaction"}, before : States]
        \cup [kind : {"mutex"}, name : Names, request : Nat, prior : Nat, waiting : BOOLEAN]
ForkSet == [kind : {"none", "par", "race"}, branches : Seq(1..Branch), winner : Tasks]

Typed ==
    /\ state \in [Tasks -> States]
    /\ frames \in [Tasks -> Seq(FrameSet)]
    /\ fork \in ForkSet
    /\ mutexes \in [Names -> Nat] /\ requests \in Nat
    /\ clock \in Nat
    /\ handed \in [Tasks -> SUBSET Nat]

\* A version is not handed out before the counter reaches it.
VersionsSound ==
    /\ \A w \in LiveWorlds : w.version <= clock
    /\ VersionIdentifiesContent

IInv == Typed /\ HandlesNotReused /\ VersionsSound

SameContent(v, w) ==
    v.version = w.version /\ v.self = w.self /\ v.removed = w.removed /\ v.spaces = w.spaces

\* The worlds a task may read from: its own, and those it may roll back to.
Own(t) == {World(t)} \cup Snapshots(t)

\* Every snapshot in these frames is a world of the task that has it.
OldSnapshots(after) ==
    \A t \in Tasks : \A i \in DOMAIN after[t] :
        after[t][i].kind = "transaction" => after[t][i].before.world \in Own(t)

LEMMA WorldsTyped ==
    ASSUME Typed PROVE LiveWorlds \subseteq WorldSet
<1>1. ASSUME NEW t \in Tasks PROVE World(t) \in WorldSet
  BY <1>1 DEF Typed, World, States
<1>2. ASSUME NEW t \in Tasks, NEW w \in Snapshots(t) PROVE w \in WorldSet
  <2>1. PICK i \in DOMAIN frames[t] : frames[t][i].kind = "transaction" /\ w = frames[t][i].before.world
    BY <1>2 DEF Snapshots
  <2>2. frames[t] \in Seq(FrameSet)
    BY DEF Typed
  <2>3. frames[t][i] \in FrameSet
    BY <2>2, ElementOfSeq, LenProperties
  <2> QED
    BY <2>1, <2>3 DEF FrameSet, States
<1> QED
  BY <1>1, <1>2 DEF LiveWorlds

\* The snapshots in the frames, and the worlds of the tasks, are live.
LEMMA Live ==
    /\ \A t \in Tasks : World(t) \in LiveWorlds /\ World(t) \in Own(t)
    /\ \A w : w \in LiveWorlds <=> \E t \in Tasks : w \in Own(t)
    /\ OldSnapshots(frames)
<1>1. \A t \in Tasks : World(t) \in LiveWorlds /\ World(t) \in Own(t)
  BY DEF LiveWorlds, Own
<1>2. ASSUME NEW t \in Tasks, NEW i \in DOMAIN frames[t], frames[t][i].kind = "transaction"
      PROVE  frames[t][i].before.world \in Own(t)
  BY <1>2 DEF Snapshots, Own
<1>3. \A w : w \in LiveWorlds <=> \E t \in Tasks : w \in Own(t)
  BY DEF LiveWorlds, Own
<1> QED
  BY <1>1, <1>2, <1>3 DEF OldSnapshots

LEMMA LiveAfter ==
    ASSUME NEW new,
           \A t \in Tasks : World(t)' \in LiveWorlds \cup {new},
           OldSnapshots(frames')
    PROVE  \A w \in LiveWorlds' : w \in LiveWorlds \cup {new}
<1>1. ASSUME NEW t \in Tasks, NEW w \in Snapshots(t)' PROVE w \in LiveWorlds
  <2>1. PICK i \in DOMAIN frames'[t] : frames'[t][i].kind = "transaction" /\ w = frames'[t][i].before.world
    BY <1>1 DEF Snapshots
  <2> QED
    BY <2>1, Live DEF OldSnapshots
<1>2. ASSUME NEW w \in LiveWorlds' PROVE (\E t \in Tasks : w = World(t)') \/ \E t \in Tasks : w \in Snapshots(t)'
  BY <1>2 DEF LiveWorlds
<1> QED
  BY <1>1, <1>2

\* A step that brings one world in: under a new version, or with the content of another.
LEMMA VersionsStep ==
    ASSUME Typed, VersionsSound, NEW new,
           \A w \in LiveWorlds' : w \in LiveWorlds \cup {new},
           \/ new.version = clock + 1 /\ clock' = clock + 1
           \/ clock' \in {clock, clock + 1} /\ \E v \in LiveWorlds : SameContent(new, v)
    PROVE  VersionsSound'
<1>1. \A w \in LiveWorlds : w.version \in Nat /\ w.version <= clock
  BY WorldsTyped DEF WorldSet, VersionsSound
<1>2. clock \in Nat /\ clock' \in Nat /\ clock <= clock'
  BY DEF Typed
<1>3. \A w \in LiveWorlds' : w.version <= clock'
  BY <1>1, <1>2 DEF SameContent
<1>4. ASSUME NEW v \in LiveWorlds', NEW w \in LiveWorlds', v.version = w.version
      PROVE  v.self = w.self /\ v.removed = w.removed /\ v.spaces = w.spaces
  <2>1. \A x, y \in LiveWorlds : x.version = y.version =>
            x.self = y.self /\ x.removed = y.removed /\ x.spaces = y.spaces
    BY DEF VersionsSound, VersionIdentifiesContent
  <2>2. CASE new.version = clock + 1
    BY <1>1, <1>2, <1>4, <2>1, <2>2
  <2>3. CASE \E x \in LiveWorlds : SameContent(new, x)
    BY <1>4, <2>1, <2>3 DEF SameContent
  <2> QED
    BY <2>2, <2>3
<1>5. VersionIdentifiesContent'
  BY <1>4 DEF VersionIdentifiesContent
<1> QED
  BY <1>3, <1>5 DEF VersionsSound

\* One task comes to a new state.
LEMMA TaskStep ==
    ASSUME IInv, NEW t \in Tasks, NEW c \in Nat, NEW w \in WorldSet,
           state' = [state EXCEPT ![t] = [counter |-> c, world |-> w]],
           handed' \in [Tasks -> SUBSET Nat],
           \A u \in Tasks : u # t => handed'[u] = handed[u],
           \A id \in handed'[t] : id < c,
           frames' \in [Tasks -> Seq(FrameSet)], OldSnapshots(frames'),
           fork' \in ForkSet, mutexes' \in [Names -> Nat], requests' \in Nat,
           \/ w.version = clock + 1 /\ clock' = clock + 1
           \/ clock' \in {clock, clock + 1} /\ \E v \in LiveWorlds : SameContent(w, v)
    PROVE  IInv'
<1>1. Typed /\ HandlesNotReused /\ VersionsSound
  BY DEF IInv
<1>2. /\ state'[t].counter = c /\ state'[t].world = w
      /\ \A u \in Tasks : u # t => state'[u] = state[u]
      /\ state' \in [Tasks -> States]
  <2>1. [counter |-> c, world |-> w] \in States
    BY DEF States
  <2>2. state \in [Tasks -> States]
    BY <1>1 DEF Typed
  <2> QED
    BY <2>1, <2>2
<1>3. Typed'
  <2>1. clock' \in Nat
    BY <1>1 DEF Typed
  <2> QED
    BY <1>2, <2>1 DEF Typed
<1>4. HandlesNotReused'
  BY <1>1, <1>2 DEF HandlesNotReused
<1>5. \A u \in Tasks : World(u)' \in LiveWorlds \cup {w}
  <2>1. \A u \in Tasks : u # t => World(u)' = World(u)
    BY <1>2 DEF World
  <2>2. World(t)' = w
    BY <1>2 DEF World
  <2> QED
    BY <1>1, <2>1, <2>2, Live
<1>6. \A v \in LiveWorlds' : v \in LiveWorlds \cup {w}
  BY <1>5, LiveAfter
<1>7. VersionsSound'
  BY <1>1, <1>6, VersionsStep
<1> QED
  BY <1>3, <1>4, <1>7 DEF IInv

\* No task changes its state.
LEMMA QuietStep ==
    ASSUME IInv, UNCHANGED <<state, handed, clock>>,
           frames' \in [Tasks -> Seq(FrameSet)], OldSnapshots(frames'),
           fork' \in ForkSet, mutexes' \in [Names -> Nat], requests' \in Nat
    PROVE  IInv'
<1>1. Typed /\ HandlesNotReused
  BY DEF IInv
<1>2. Root \in Tasks
  BY ProgramAssumption DEF Root, Tasks
<1> DEFINE c == state[Root].counter
           w == World(Root)
<1>3. c \in Nat /\ w \in WorldSet /\ state[Root] = [counter |-> c, world |-> w]
  BY <1>1, <1>2 DEF Typed, World, States
<1>4. state' = [state EXCEPT ![Root] = [counter |-> c, world |-> w]]
  BY <1>1, <1>2, <1>3 DEF Typed
<1>5. handed' \in [Tasks -> SUBSET Nat] /\ \A id \in handed'[Root] : id < c
  BY <1>1, <1>2 DEF Typed, HandlesNotReused
<1>6. w \in LiveWorlds /\ SameContent(w, w)
  BY <1>1, <1>2, Live DEF SameContent
<1> HIDE DEF c, w
<1> QED
  BY <1>2, <1>3, <1>4, <1>5, <1>6, TaskStep

-----------------------------------------------------------------------------
(* Frames.                                                                 *)

LEMMA FramesOf ==
    ASSUME Typed, NEW t \in Tasks
    PROVE  /\ frames[t] \in Seq(FrameSet) /\ Len(frames[t]) \in Nat
           /\ DOMAIN frames[t] = 1..Len(frames[t])
           /\ \A i \in DOMAIN frames[t] : frames[t][i] \in FrameSet
           /\ frames[t] # << >> => Len(frames[t]) \in DOMAIN frames[t] /\ Top(t) \in FrameSet
<1>1. frames[t] \in Seq(FrameSet)
  BY DEF Typed
<1>2. Len(frames[t]) \in Nat /\ DOMAIN frames[t] = 1..Len(frames[t])
  BY <1>1, LenProperties
<1>3. \A i \in DOMAIN frames[t] : frames[t][i] \in FrameSet
  BY <1>1, <1>2, ElementOfSeq
<1>4. frames[t] # << >> => Len(frames[t]) \in DOMAIN frames[t]
  BY <1>1, <1>2, EmptySeq
<1> QED
  BY <1>1, <1>2, <1>3, <1>4 DEF Top

LEMMA PushedTyped ==
    ASSUME Typed, NEW t \in Tasks, NEW frame \in FrameSet,
           frame.kind = "transaction" => frame.before.world \in Own(t)
    PROVE  Pushed(t, frame) \in [Tasks -> Seq(FrameSet)] /\ OldSnapshots(Pushed(t, frame))
<1> DEFINE after == Append(frames[t], frame)
<1>1. /\ after \in Seq(FrameSet) /\ DOMAIN after = 1..(Len(frames[t]) + 1)
      /\ \A i \in DOMAIN frames[t] : after[i] = frames[t][i]
      /\ after[Len(frames[t]) + 1] = frame
  BY FramesOf, AppendProperties, LenProperties
<1>2. ASSUME NEW i \in DOMAIN after, after[i].kind = "transaction"
      PROVE  after[i].before.world \in Own(t)
  <2>1. i \in DOMAIN frames[t] \/ i = Len(frames[t]) + 1
    BY <1>1, FramesOf
  <2> QED
    BY <1>1, <1>2, <2>1, Live DEF OldSnapshots
<1> HIDE DEF after
<1>3. Pushed(t, frame) = [frames EXCEPT ![t] = after]
  BY DEF Pushed, after
<1>4. frames \in [Tasks -> Seq(FrameSet)] /\ OldSnapshots(frames)
  BY Live DEF Typed
<1> QED
  BY <1>1, <1>2, <1>3, <1>4 DEF OldSnapshots

LEMMA PoppedTyped ==
    ASSUME Typed, NEW t \in Tasks, frames[t] # << >>
    PROVE  Popped(t) \in [Tasks -> Seq(FrameSet)] /\ OldSnapshots(Popped(t))
<1> DEFINE after == SubSeq(frames[t], 1, Len(frames[t]) - 1)
<1>1. /\ after \in Seq(FrameSet) /\ DOMAIN after = 1..(Len(frames[t]) - 1)
      /\ \A i \in DOMAIN after : i \in DOMAIN frames[t] /\ after[i] = frames[t][i]
  <2> DEFINE n == Len(frames[t]) - 1
  <2>0. n \in Nat /\ n <= Len(frames[t])
    BY FramesOf
  <2>1. \A i \in 1..n : i \in DOMAIN frames[t]
    BY FramesOf
  <2>2. /\ SubSeq(frames[t], 1, n) \in Seq(FrameSet)
        /\ Len(SubSeq(frames[t], 1, n)) = n
        /\ \A i \in 1..n : SubSeq(frames[t], 1, n)[i] = frames[t][i]
    BY <2>0, <2>1, FramesOf, SMTT(30)
  <2> QED
    BY <2>1, <2>2, LenProperties
<1> HIDE DEF after
<1>3. Popped(t) = [frames EXCEPT ![t] = after]
  BY DEF Popped, after
<1>4. frames \in [Tasks -> Seq(FrameSet)] /\ OldSnapshots(frames)
  BY Live DEF Typed
<1> QED
  BY <1>1, <1>3, <1>4 DEF OldSnapshots

LEMMA EmptiedTyped ==
    ASSUME Typed, NEW t \in Tasks
    PROVE  /\ [frames EXCEPT ![t] = << >>] \in [Tasks -> Seq(FrameSet)]
           /\ OldSnapshots([frames EXCEPT ![t] = << >>])
<1>1. frames \in [Tasks -> Seq(FrameSet)] /\ OldSnapshots(frames)
  BY Live DEF Typed
<1>2. << >> \in Seq(FrameSet) /\ DOMAIN << >> = {}
  OBVIOUS
<1> QED
  BY <1>1, <1>2 DEF OldSnapshots

LEMMA EnteredTyped ==
    ASSUME Typed, NEW t \in Tasks, Waiting(t)
    PROVE  LET after == [frames EXCEPT ![t][Len(frames[t])].waiting = FALSE]
           IN  after \in [Tasks -> Seq(FrameSet)] /\ OldSnapshots(after)
<1> DEFINE n == Len(frames[t])
           entered == [Top(t) EXCEPT !.waiting = FALSE]
           after == [frames[t] EXCEPT ![n] = entered]
<1>1. n \in DOMAIN frames[t] /\ Top(t) = frames[t][n] /\ Top(t) \in FrameSet /\ Top(t).kind = "mutex"
  BY FramesOf DEF Waiting, Top
<1>2. entered \in FrameSet /\ entered.kind = "mutex"
  BY <1>1 DEF FrameSet
<1> HIDE DEF entered
<1>3. /\ after \in Seq(FrameSet) /\ DOMAIN after = DOMAIN frames[t]
      /\ \A i \in DOMAIN after : after[i] = IF i = n THEN entered ELSE frames[t][i]
  BY <1>1, <1>2, FramesOf, ExceptSeq
<1> HIDE DEF after
<1>4. [frames EXCEPT ![t][Len(frames[t])].waiting = FALSE] = [frames EXCEPT ![t] = after]
  BY <1>1 DEF Typed, after, entered
<1>5. frames \in [Tasks -> Seq(FrameSet)] /\ OldSnapshots(frames)
  BY Live DEF Typed
<1>6. OldSnapshots([frames EXCEPT ![t] = after])
  BY <1>2, <1>3, <1>5 DEF OldSnapshots
<1>7. [frames EXCEPT ![t] = after] \in [Tasks -> Seq(FrameSet)]
  BY <1>3, <1>5
<1> QED
  BY <1>4, <1>6, <1>7

-----------------------------------------------------------------------------
(* Every step keeps the invariant.                                         *)

LEMMA RootIsTask == Root \in Tasks /\ \A t \in Tasks : t # Root => t \in 1..Branch
BY ProgramAssumption DEF Root, Tasks

LEMMA NoForkTyped == NoFork \in ForkSet
<1>1. << >> \in Seq(1..Branch)
  OBVIOUS
<1> QED
  BY <1>1, RootIsTask DEF ForkSet, NoFork

LEMMA StateOf ==
    ASSUME IInv, NEW t \in Tasks
    PROVE  /\ World(t) \in WorldSet /\ state[t].counter \in Nat
           /\ state[t] = [counter |-> state[t].counter, world |-> World(t)]
           /\ World(t) \in LiveWorlds
           /\ \A id \in handed[t] : id \in Nat /\ id < state[t].counter
           /\ SpacesOf(World(t)) = Spaces(t)
<1>1. Typed /\ HandlesNotReused
  BY DEF IInv
<1>2. state[t] \in States /\ handed[t] \subseteq Nat
  BY <1>1 DEF Typed
<1>3. World(t) \in WorldSet /\ state[t].counter \in Nat
      /\ state[t] = [counter |-> state[t].counter, world |-> World(t)]
  BY <1>2 DEF States, World
<1>4. SpacesOf(World(t)) = Spaces(t)
  BY DEF SpacesOf, Spaces
<1> QED
  BY <1>1, <1>2, <1>3, <1>4, Live DEF HandlesNotReused

\* A step that gives a task another world, and leaves the frames and locks.
LEMMA BecomeStep ==
    ASSUME IInv, NEW t \in Tasks, NEW w \in WorldSet, Become(t, w),
           UNCHANGED <<frames, fork, mutexes, requests, handed>>,
           \/ w.version = clock + 1 /\ clock' = clock + 1
           \/ clock' = clock /\ SameContent(w, World(t))
    PROVE  IInv'
<1>1. Typed
  BY DEF IInv
<1> DEFINE c == state[t].counter
<1>2. c \in Nat /\ World(t) \in LiveWorlds /\ \A id \in handed[t] : id < c
  BY StateOf
<1>3. state' = [state EXCEPT ![t] = [counter |-> c, world |-> w]]
  <2>1. state \in [Tasks -> States] /\ state[t] = [counter |-> c, world |-> World(t)]
    BY <1>1, StateOf DEF Typed
  <2>2. state' = [state EXCEPT ![t].world = w]
    BY DEF Become
  <2>3. state[t] \in States
    BY <2>1
  <2>4. [state[t] EXCEPT !.world = w] = [counter |-> c, world |-> w]
    BY <2>3 DEF States
  <2> HIDE DEF c
  <2> QED
    BY <2>2, <2>4
<1>4. /\ handed' \in [Tasks -> SUBSET Nat] /\ \A id \in handed'[t] : id < c
      /\ \A u \in Tasks : u # t => handed'[u] = handed[u]
      /\ fork' \in ForkSet /\ mutexes' \in [Names -> Nat] /\ requests' \in Nat
      /\ frames' \in [Tasks -> Seq(FrameSet)]
  BY <1>1, <1>2 DEF Typed
<1>5. OldSnapshots(frames')
  BY <1>1, Live
<1>6. \/ w.version = clock + 1 /\ clock' = clock + 1
      \/ clock' \in {clock, clock + 1} /\ \E v \in LiveWorlds : SameContent(w, v)
  BY <1>2
<1> HIDE DEF c
<1> QED
  BY <1>2, <1>3, <1>4, <1>5, <1>6, TaskStep

\* A step that gives a task a fresh id and the world that uses it.
LEMMA AllocateStep ==
    ASSUME IInv, NEW t \in Tasks, NEW w \in WorldSet, Allocate(t, w),
           UNCHANGED <<frames, fork, mutexes, requests>>,
           \/ w.version = clock + 1 /\ clock' = clock + 1
           \/ clock' = clock /\ SameContent(w, World(t))
    PROVE  IInv'
<1>1. Typed
  BY DEF IInv
<1> DEFINE n == state[t].counter
           c == n + 1
<1>2. /\ n \in Nat /\ c \in Nat /\ World(t) \in LiveWorlds
      /\ \A id \in handed[t] : id \in Nat /\ id < n
  <2>1. n \in Nat /\ World(t) \in LiveWorlds /\ \A id \in handed[t] : id \in Nat /\ id < n
    BY StateOf
  <2> QED
    BY <2>1
<1>3. /\ state' = [state EXCEPT ![t] = [counter |-> c, world |-> w]]
      /\ handed' = [handed EXCEPT ![t] = handed[t] \cup {n}]
  <2>1. state \in [Tasks -> States] /\ handed \in [Tasks -> SUBSET Nat]
    BY <1>1 DEF Typed
  <2> QED
    BY <2>1 DEF Allocate
<1>4. /\ handed' \in [Tasks -> SUBSET Nat]
      /\ \A u \in Tasks : u # t => handed'[u] = handed[u]
      /\ handed'[t] = handed[t] \cup {n}
  BY <1>1, <1>2, <1>3 DEF Typed
<1>5. \A id \in handed'[t] : id < c
  BY <1>2, <1>4
<1>6. /\ fork' \in ForkSet /\ mutexes' \in [Names -> Nat] /\ requests' \in Nat
      /\ frames' \in [Tasks -> Seq(FrameSet)] /\ OldSnapshots(frames')
  BY <1>1, Live DEF Typed
<1>7. \/ w.version = clock + 1 /\ clock' = clock + 1
      \/ clock' \in {clock, clock + 1} /\ \E v \in LiveWorlds : SameContent(w, v)
  BY <1>2
<1> HIDE DEF n, c
<1> QED
  BY <1>2, <1>3, <1>4, <1>5, <1>6, <1>7, TaskStep

LEMMA NewStateStep ==
    ASSUME IInv, NEW t \in Tasks, NewState(t) PROVE IInv'
<1> DEFINE w == SetCell(World(t), state[t].counter, 0)
<1>1. /\ w \in WorldSet /\ SameContent(w, World(t))
  <2>1. World(t) \in WorldSet /\ state[t].counter \in Nat /\ 0 \in Nat
    BY StateOf
  <2> QED
    BY <2>1, SetCellTyped DEF SameContent
<1>2. Allocate(t, w) /\ UNCHANGED <<frames, fork, mutexes, requests, clock>>
  BY DEF NewState, envVars
<1> HIDE DEF w
<1> QED
  BY <1>1, <1>2, AllocateStep

LEMMA ChangeStateStep ==
    ASSUME IInv, NEW t \in Tasks, ChangeState(t) PROVE IInv'
<1>1. PICK id \in DOMAIN World(t).cells : Become(t, SetCell(World(t), id, World(t).cells[id] + 1))
  BY DEF ChangeState
<1> DEFINE w == SetCell(World(t), id, World(t).cells[id] + 1)
<1>2. id \in Nat /\ World(t).cells[id] + 1 \in Nat
  <2>1. World(t).cells \in CellMaps
    BY StateOf DEF WorldSet
  <2>2. id \in Nat /\ World(t).cells[id] \in Nat
    BY <1>1, <2>1, MapFacts
  <2> QED
    BY <2>2
<1>3. /\ w \in WorldSet /\ SameContent(w, World(t))
  BY <1>2, StateOf, SetCellTyped DEF SameContent
<1>4. Become(t, w) /\ UNCHANGED <<frames, fork, mutexes, requests, handed, clock>>
  BY <1>1 DEF ChangeState, envVars
<1> HIDE DEF w
<1> QED
  BY <1>3, <1>4, BecomeStep

LEMMA NewSpaceStep ==
    ASSUME IInv, NEW t \in Tasks, NewSpace(t) PROVE IInv'
<1>1. PICK bag \in {EmptyBag} \cup {Visible(World(t), s) : s \in Spaces(t)} :
        Allocate(t, AddSpace(World(t), state[t].counter, bag, Stamp))
  BY DEF NewSpace
<1>2. bag \in Bags
  <2>1. \A s \in Spaces(t) : Visible(World(t), s) \in Bags
    BY StateOf, VisibleTyped
  <2> QED
    BY <1>1, <2>1, NewWorldTyped
<1> DEFINE w == AddSpace(World(t), state[t].counter, bag, Stamp)
<1>3. clock \in Nat /\ Stamp \in Nat /\ Stamp = clock + 1
  BY DEF IInv, Typed, Stamp
<1>4. w \in WorldSet /\ w.version = clock + 1
  BY <1>2, <1>3, StateOf, AddSpaceTyped
<1>5. Allocate(t, w) /\ UNCHANGED <<frames, fork, mutexes, requests>> /\ clock' = clock + 1
  BY <1>1 DEF NewSpace, envVars
<1> HIDE DEF w
<1> QED
  BY <1>4, <1>5, AllocateStep

LEMMA AddAtomStep ==
    ASSUME IInv, NEW t \in Tasks, AddAtom(t) PROVE IInv'
<1>1. PICK s \in Spaces(t), a \in Added : Become(t, AppendSpace(World(t), s, {a}, Stamp))
  BY DEF AddAtom
<1> DEFINE w == AppendSpace(World(t), s, {a}, Stamp)
<1>2. clock \in Nat /\ Stamp \in Nat /\ Stamp = clock + 1
  BY DEF IInv, Typed, Stamp
<1>3. w \in WorldSet /\ w.version = clock + 1
  BY <1>1, <1>2, StateOf, AppendTyped
<1>4. Become(t, w) /\ UNCHANGED <<frames, fork, mutexes, requests, handed>> /\ clock' = clock + 1
  BY <1>1 DEF AddAtom, envVars
<1> HIDE DEF w
<1> QED
  BY <1>3, <1>4, BecomeStep

LEMMA RemoveAtomStep ==
    ASSUME IInv, NEW t \in Tasks, RemoveAtom(t) PROVE IInv'
<1>1. PICK s \in Spaces(t), a \in Removed : Become(t, EraseSpace(World(t), s, a, Stamp))
  BY DEF RemoveAtom
<1> DEFINE w == EraseSpace(World(t), s, a, Stamp)
<1>2. clock \in Nat /\ Stamp \in Nat /\ Stamp = clock + 1 /\ a \in Atoms
  BY ProgramAssumption DEF IInv, Typed, Stamp
<1>3. w \in WorldSet /\ w.version = clock + 1
  BY <1>1, <1>2, StateOf, EraseTyped
<1>4. Become(t, w) /\ UNCHANGED <<frames, fork, mutexes, requests, handed>> /\ clock' = clock + 1
  BY <1>1 DEF RemoveAtom, envVars
<1> HIDE DEF w
<1> QED
  BY <1>3, <1>4, BecomeStep

\* A step that leaves the states, the frames and the locks alone.
LEMMA StillStep ==
    ASSUME IInv, UNCHANGED <<state, frames, mutexes, requests, clock, handed>>, fork' \in ForkSet
    PROVE  IInv'
<1>1. Typed
  BY DEF IInv
<1>2. frames' \in [Tasks -> Seq(FrameSet)] /\ mutexes' \in [Names -> Nat] /\ requests' \in Nat
  BY <1>1 DEF Typed
<1>3. OldSnapshots(frames')
  BY <1>1, Live
<1> QED
  BY <1>2, <1>3, QuietStep

LEMMA ImportStep ==
    ASSUME IInv, NEW t \in Tasks, NEW m \in Modules, Import(t, m) PROVE IInv'
<1>1. UNCHANGED <<frames, fork, mutexes, requests, handed>> /\ fork \in ForkSet
  BY DEF Import, IInv, Typed
<1>2. CASE m \in loaded
  BY <1>1, <1>2, StillStep DEF Import
<1>3. CASE m \notin loaded
  <2> DEFINE w == AppendSpace(World(t), Self, Defs[m], Stamp)
  <2>1. clock \in Nat /\ Stamp \in Nat /\ Stamp = clock + 1 /\ Self \in SpacesOf(World(t))
    BY DEF IInv, Typed, Stamp, SpacesOf
  <2>2. w \in WorldSet /\ w.version = clock + 1
    BY <2>1, StateOf, AppendTyped
  <2>3. Become(t, w) /\ clock' = clock + 1
    BY <1>3 DEF Import
  <2> HIDE DEF w
  <2> QED
    BY <1>1, <2>2, <2>3, BecomeStep
<1> QED
  BY <1>2, <1>3

LEMMA BeginTransactionStep ==
    ASSUME IInv, NEW t \in Tasks, BeginTransaction(t) PROVE IInv'
<1> DEFINE frame == [kind |-> "transaction", before |-> state[t]]
<1>1. Typed /\ UNCHANGED <<state, fork, mutexes, requests, clock, handed>> /\ frames' = Pushed(t, frame)
  BY DEF IInv, BeginTransaction, envVars
<1>2. state[t] \in States /\ state[t].world \in Own(t)
  BY <1>1, Live DEF Typed, World
<1>3. frame \in FrameSet /\ (frame.kind = "transaction" => frame.before.world \in Own(t))
  BY <1>2 DEF FrameSet
<1> HIDE DEF frame
<1>4. frames' \in [Tasks -> Seq(FrameSet)] /\ OldSnapshots(frames')
  BY <1>1, <1>3, PushedTyped
<1>5. fork' \in ForkSet /\ mutexes' \in [Names -> Nat] /\ requests' \in Nat
  BY <1>1 DEF Typed
<1> QED
  BY <1>1, <1>4, <1>5, QuietStep

\* A rollback restores the world of a snapshot, and keeps the counter.
LEMMA EndTransactionStep ==
    ASSUME IInv, NEW t \in Tasks, EndTransaction(t) PROVE IInv'
<1>1. /\ Typed /\ UNCHANGED <<fork, mutexes, requests, handed>> /\ frames' = Popped(t)
      /\ frames[t] # << >> /\ Top(t).kind = "transaction"
  BY DEF IInv, EndTransaction, envVars
<1>2. frames' \in [Tasks -> Seq(FrameSet)] /\ OldSnapshots(frames')
  BY <1>1, PoppedTyped
<1>3. /\ fork' \in ForkSet /\ mutexes' \in [Names -> Nat] /\ requests' \in Nat
      /\ handed' \in [Tasks -> SUBSET Nat] /\ clock \in Nat
  BY <1>1 DEF Typed
<1> DEFINE c == state[t].counter
<1>4. c \in Nat /\ \A id \in handed'[t] : id < c
  BY <1>1, StateOf
<1>5. state \in [Tasks -> States] /\ state[t] \in States
  BY <1>1 DEF Typed
<1>6. CASE Become(t, [World(t) EXCEPT !.version = Stamp]) /\ clock' = clock + 1
  <2> DEFINE w == [World(t) EXCEPT !.version = Stamp]
  <2>0. World(t) \in WorldSet /\ Stamp \in Nat /\ Stamp = clock + 1
    <3>1. Stamp \in Nat /\ Stamp = clock + 1
      BY <1>3 DEF Stamp
    <3> QED
      BY <3>1, StateOf
  <2>1. w \in WorldSet /\ w.version = clock + 1
    <3>1. \A v \in WorldSet, n \in Nat :
            [v EXCEPT !.version = n] \in WorldSet /\ [v EXCEPT !.version = n].version = n
      BY DEF WorldSet
    <3> QED
      BY <2>0, <3>1
  <2>3. state' = [state EXCEPT ![t].world = w]
    BY <1>6 DEF Become
  <2> HIDE DEF w
  <2>2. [state[t] EXCEPT !.world = w] = [counter |-> c, world |-> w]
    BY <1>5 DEF States
  <2>4. state' = [state EXCEPT ![t] = [counter |-> c, world |-> w]]
    BY <2>2, <2>3
  <2> HIDE DEF c
  <2> QED
    BY <1>1, <1>2, <1>3, <1>4, <1>6, <2>1, <2>4, TaskStep
<1>7. CASE state' = [state EXCEPT ![t] = Kept(t, Top(t).before)] /\ UNCHANGED clock
  <2> DEFINE w == Top(t).before.world
  <2>1. Top(t) \in FrameSet /\ Len(frames[t]) \in DOMAIN frames[t] /\ Top(t) = frames[t][Len(frames[t])]
    BY <1>1, FramesOf DEF Top
  <2>2. Top(t).before \in States
    BY <1>1, <2>1 DEF FrameSet
  <2>3. w \in WorldSet /\ Kept(t, Top(t).before) = [counter |-> c, world |-> w]
    BY <2>2 DEF States, Kept
  <2>4. w \in LiveWorlds /\ SameContent(w, w)
    BY <1>1, <2>1, Live DEF OldSnapshots, SameContent
  <2>5. state' = [state EXCEPT ![t] = [counter |-> c, world |-> w]]
    BY <1>7, <2>3
  <2> HIDE DEF c, w
  <2> QED
    BY <1>1, <1>2, <1>3, <1>4, <1>7, <2>3, <2>4, <2>5, TaskStep
<1> QED
  BY <1>6, <1>7 DEF EndTransaction

LEMMA RequestMutexStep ==
    ASSUME IInv, NEW t \in Tasks, RequestMutex(t) PROVE IInv'
<1>1. PICK n \in Names :
        /\ frames' = Pushed(t, [kind |-> "mutex", name |-> n, request |-> requests + 1,
                                prior |-> mutexes[n], waiting |-> TRUE])
        /\ mutexes' = [mutexes EXCEPT ![n] = requests + 1]
  BY DEF RequestMutex
<1> DEFINE frame == [kind |-> "mutex", name |-> n, request |-> requests + 1,
                     prior |-> mutexes[n], waiting |-> TRUE]
<1>2. Typed /\ UNCHANGED <<state, fork, clock, handed>> /\ requests' = requests + 1
  BY DEF IInv, RequestMutex
<1>3. fork' \in ForkSet /\ mutexes[n] \in Nat /\ requests' \in Nat /\ mutexes' \in [Names -> Nat]
  BY <1>1, <1>2 DEF Typed
<1>4. frame \in FrameSet /\ frame.kind # "transaction" /\ frames' = Pushed(t, frame)
  BY <1>1, <1>2, <1>3 DEF FrameSet
<1> HIDE DEF frame
<1>5. frames' \in [Tasks -> Seq(FrameSet)] /\ OldSnapshots(frames')
  BY <1>2, <1>4, PushedTyped
<1> QED
  BY <1>2, <1>3, <1>5, QuietStep

LEMMA EnterMutexStep ==
    ASSUME IInv, NEW t \in Tasks, EnterMutex(t) PROVE IInv'
<1>1. /\ Typed /\ UNCHANGED <<state, fork, mutexes, requests, clock, handed>> /\ Waiting(t)
      /\ frames' = [frames EXCEPT ![t][Len(frames[t])].waiting = FALSE]
  BY DEF IInv, EnterMutex, envVars
<1>2. frames' \in [Tasks -> Seq(FrameSet)] /\ OldSnapshots(frames')
  BY <1>1, EnteredTyped
<1>3. fork' \in ForkSet /\ mutexes' \in [Names -> Nat] /\ requests' \in Nat
  BY <1>1 DEF Typed
<1> QED
  BY <1>1, <1>2, <1>3, QuietStep

LEMMA ReleaseTyped ==
    ASSUME Typed, NEW fs, Release(fs) PROVE mutexes' \in [Names -> Nat] /\ requests' \in Nat
BY DEF Typed, Release, Dropped, NoRequest

LEMMA LeaveMutexStep ==
    ASSUME IInv, NEW t \in Tasks, LeaveMutex(t) PROVE IInv'
<1>1. /\ Typed /\ UNCHANGED <<state, fork, clock, handed>> /\ Release({Top(t)})
      /\ frames[t] # << >> /\ frames' = Popped(t)
  BY DEF IInv, LeaveMutex
<1>2. frames' \in [Tasks -> Seq(FrameSet)] /\ OldSnapshots(frames')
  BY <1>1, PoppedTyped
<1>3. fork' \in ForkSet /\ mutexes' \in [Names -> Nat] /\ requests' \in Nat
  BY <1>1, ReleaseTyped DEF Typed
<1> QED
  BY <1>1, <1>2, <1>3, QuietStep

\* A task is gone: thrown or cancelled, or failed by a branch.
LEMMA GoneStep ==
    ASSUME IInv, NEW t \in Tasks, UNCHANGED <<state, clock, handed>>,
           frames' = [frames EXCEPT ![t] = << >>],
           fork' \in {fork, NoFork}, mutexes' \in [Names -> Nat], requests' \in Nat
    PROVE  IInv'
<1>1. Typed
  BY DEF IInv
<1>2. frames' \in [Tasks -> Seq(FrameSet)] /\ OldSnapshots(frames')
  BY <1>1, EmptiedTyped
<1>3. fork' \in ForkSet
  BY <1>1, NoForkTyped DEF Typed
<1> QED
  BY <1>2, <1>3, QuietStep

LEMMA LeavingStep ==
    ASSUME IInv, NEW t \in Tasks, Throw(t) \/ Cancel(t) \/ FailPar PROVE IInv'
<1>1. Typed
  BY DEF IInv
<1>2. CASE Throw(t)
  <2>1. mutexes' \in [Names -> Nat] /\ requests' \in Nat
    BY <1>1, <1>2, ReleaseTyped DEF Throw
  <2> QED
    BY <1>2, <2>1, GoneStep DEF Throw
<1>3. CASE Cancel(t)
  <2>1. mutexes' \in [Names -> Nat] /\ requests' \in Nat
    BY <1>1, <1>3 DEF Typed, Cancel, envVars
  <2> QED
    BY <1>3, <2>1, GoneStep DEF Cancel
<1>4. CASE FailPar
  <2>1. mutexes' \in [Names -> Nat] /\ requests' \in Nat
    BY <1>1, <1>4, ReleaseTyped DEF FailPar
  <2> QED
    BY <1>4, <2>1, RootIsTask, GoneStep DEF FailPar
<1> QED
  BY <1>2, <1>3, <1>4

LEMMA FinishStep ==
    ASSUME IInv, NEW t \in Tasks, Finish(t) PROVE IInv'
<1>1. Typed /\ UNCHANGED <<state, frames, mutexes, requests, clock, handed>>
  BY DEF IInv, Finish, envVars
<1>2. fork' = fork \/ fork' = [fork EXCEPT !.winner = t]
  BY DEF Finish
<1>3. fork' \in ForkSet
  BY <1>1, <1>2 DEF Typed, ForkSet
<1> QED
  BY <1>1, <1>3, StillStep

\* The branches a fork takes are not used yet, and start from the state of root.
LEMMA ForkStep ==
    ASSUME IInv, Fork PROVE IInv'
<1>1. PICK kind \in {"par", "race"}, first \in 1..(Branch - Width + 1) :
        LET team == [i \in 1..Width |-> first + i - 1]
            new == {team[i] : i \in 1..Width}
        IN  /\ fork' = [kind |-> kind, branches |-> team, winner |-> Root]
            /\ state' = [t \in Tasks |-> IF t \in new THEN state[Root] ELSE state[t]]
            /\ handed' = [t \in Tasks |-> IF t \in new THEN handed[Root] ELSE handed[t]]
  BY DEF Fork
<1>2. Typed /\ HandlesNotReused /\ VersionsSound /\ UNCHANGED <<frames, mutexes, requests, clock>>
  BY DEF IInv, Fork, envVars
<1>3. Root \in Tasks
  BY RootIsTask
<1>4. fork' \in ForkSet
  <2> DEFINE team == [i \in 1..Width |-> first + i - 1]
  <2>1. \A i \in 1..Width : first + i - 1 \in 1..Branch
    BY ProgramAssumption
  <2>2. team \in [1..Width -> 1..Branch] /\ Width \in Nat
    BY <2>1, ProgramAssumption
  <2>3. team \in Seq(1..Branch)
    BY <2>2
  <2> HIDE DEF team
  <2>4. fork' = [kind |-> kind, branches |-> team, winner |-> Root]
    BY <1>1 DEF team
  <2> QED
    BY <1>3, <2>3, <2>4 DEF ForkSet
<1>5. ASSUME NEW t \in Tasks
      PROVE  \E u \in Tasks : state'[t] = state[u] /\ handed'[t] = handed[u]
  BY <1>1, <1>3
<1>6. /\ state \in [Tasks -> States] /\ handed \in [Tasks -> SUBSET Nat] /\ clock \in Nat
      /\ frames' \in [Tasks -> Seq(FrameSet)] /\ mutexes' \in [Names -> Nat] /\ requests' \in Nat
      /\ clock' \in Nat
  BY <1>2 DEF Typed
<1>7. state' \in [Tasks -> States] /\ handed' \in [Tasks -> SUBSET Nat]
  <2>1. DOMAIN state' = Tasks /\ state' = [t \in Tasks |-> state'[t]]
        /\ DOMAIN handed' = Tasks /\ handed' = [t \in Tasks |-> handed'[t]]
    BY <1>1
  <2>2. \A t \in Tasks : state'[t] \in States /\ handed'[t] \in SUBSET Nat
    BY <1>5, <1>6
  <2> QED
    BY <2>1, <2>2
<1>8. Typed'
  BY <1>4, <1>6, <1>7 DEF Typed
<1>9. HandlesNotReused'
  BY <1>2, <1>5 DEF HandlesNotReused
<1>10. \A w \in LiveWorlds' : w \in LiveWorlds \cup {World(Root)}
  <2>1. \A t \in Tasks : World(t)' \in LiveWorlds \cup {World(Root)}
    BY <1>2, <1>5, Live DEF World
  <2>2. OldSnapshots(frames')
    BY <1>2, Live
  <2> QED
    BY <2>1, <2>2, LiveAfter
<1>11. VersionsSound'
  <2>1. World(Root) \in LiveWorlds /\ SameContent(World(Root), World(Root))
    BY <1>2, <1>3, Live DEF SameContent
  <2> QED
    BY <1>2, <1>10, <2>1, VersionsStep
<1> QED
  BY <1>8, <1>9, <1>11 DEF IInv

LEMMA BranchesAreTasks ==
    ASSUME Typed
    PROVE  /\ fork.winner \in Tasks /\ Len(fork.branches) \in Nat
           /\ DOMAIN fork.branches = 1..Len(fork.branches)
           /\ \A i \in DOMAIN fork.branches : fork.branches[i] \in Tasks
           /\ Branches(fork) \subseteq Tasks
<1>1. fork.winner \in Tasks /\ fork.branches \in Seq(1..Branch)
  BY DEF Typed, ForkSet
<1>2. Len(fork.branches) \in Nat /\ DOMAIN fork.branches = 1..Len(fork.branches)
  BY <1>1, LenProperties
<1>3. \A i \in DOMAIN fork.branches : fork.branches[i] \in 1..Branch
  BY <1>1, <1>2, ElementOfSeq
<1>4. \A i \in DOMAIN fork.branches : fork.branches[i] \in Tasks
  BY <1>3, ProgramAssumption DEF Tasks
<1> QED
  BY <1>1, <1>2, <1>4 DEF Branches

\* The counter of a join is that of a joined task, and no joined task has a higher one.
LEMMA HighestCounterOf ==
    ASSUME Typed
    PROVE  LET all == Branches(fork) \cup {Root}
           IN  /\ HighestCounter(all) \in Nat
               /\ \A t \in all : state[t].counter <= HighestCounter(all)
<1> DEFINE n == Len(fork.branches)
           some(i) == {Root} \cup {fork.branches[j] : j \in 1..i}
           T == {i \in 0..n : \E u \in some(i) : \A t \in some(i) : state[t].counter <= state[u].counter}
<1>1. n \in Nat /\ \A i \in 1..n : fork.branches[i] \in Tasks
  BY BranchesAreTasks
<1>2. \A t \in Tasks : state[t].counter \in Nat
  BY DEF Typed, States
<1>3. \A i \in 0..n : some(i) \subseteq Tasks
  BY <1>1, RootIsTask
<1>4. 0 \in T
  <2>1. some(0) = {Root} /\ 0 \in 0..n
    BY <1>1
  <2>2. \A t \in some(0) : state[t].counter <= state[Root].counter
    BY <1>2, <2>1, RootIsTask
  <2> HIDE DEF some
  <2> QED
    BY <2>1, <2>2
<1>5. ASSUME NEW i \in 1..n, i - 1 \in T PROVE i \in T
  <2>1. PICK u \in some(i - 1) : \A t \in some(i - 1) : state[t].counter <= state[u].counter
    BY <1>5
  <2>2. i \in 0..n /\ i - 1 \in 0..n /\ some(i) = some(i - 1) \cup {fork.branches[i]}
    BY <1>1
  <2> DEFINE v == fork.branches[i]
  <2>3. u \in Tasks /\ v \in Tasks /\ some(i) \subseteq Tasks
    BY <1>1, <1>3, <2>2
  <2> HIDE DEF some, n
  <2>4. CASE state[v].counter <= state[u].counter
    <3>1. u \in some(i) /\ \A t \in some(i) : state[t].counter <= state[u].counter
      BY <2>1, <2>2, <2>4
    <3> QED
      BY <2>2, <3>1
  <2>5. CASE ~ (state[v].counter <= state[u].counter)
    <3>1. v \in some(i) /\ \A t \in some(i) : state[t].counter <= state[v].counter
      BY <1>2, <2>1, <2>2, <2>3, <2>5
    <3> QED
      BY <2>2, <3>1
  <2> QED
    BY <2>4, <2>5
<1> HIDE DEF T
<1>6. n \in T
  BY <1>1, <1>4, <1>5, SetInduction
<1> USE DEF T
<1>7. some(n) = Branches(fork) \cup {Root}
  BY BranchesAreTasks DEF Branches
<1> DEFINE all == Branches(fork) \cup {Root}
           Highest(c) == c \in {state[t].counter : t \in all} /\ \A t \in all : state[t].counter <= c
<1>8. PICK u \in all : \A t \in all : state[t].counter <= state[u].counter
  BY <1>6, <1>7
<1>9. Highest(state[u].counter)
  BY <1>8
<1>10. HighestCounter(all) = CHOOSE c : Highest(c)
  BY DEF HighestCounter
<1> HIDE DEF Highest
<1>11. Highest(HighestCounter(all))
  BY <1>9, <1>10
<1> USE DEF Highest
<1>12. \E t \in all : HighestCounter(all) = state[t].counter
  BY <1>11
<1>13. all \subseteq Tasks
  BY BranchesAreTasks, RootIsTask
<1> QED
  BY <1>2, <1>11, <1>12, <1>13

LEMMA JoinParStep ==
    ASSUME IInv, JoinPar PROVE IInv'
<1> DEFINE all == Branches(fork) \cup {Root}
           c == HighestCounter(all)
           worlds == [i \in DOMAIN fork.branches |-> World(fork.branches[i])]
           w == MergeWorlds(World(Root), worlds, Stamp)
<1>1. Typed /\ HandlesNotReused /\ Root \in Tasks
  BY RootIsTask DEF IInv
<1>2. /\ UNCHANGED <<frames, mutexes, requests>> /\ clock' = clock + 1 /\ fork' = NoFork
      /\ state' = [state EXCEPT ![Root] = [counter |-> c, world |-> w]]
      /\ handed' = [handed EXCEPT ![Root] = UNION {handed[b] : b \in Branches(fork)}]
  BY DEF JoinPar, envVars
<1>3. c \in Nat /\ \A t \in all : state[t].counter <= c
  BY <1>1, HighestCounterOf
<1>4. w \in WorldSet /\ w.version = clock + 1
  <2>1. \A i \in DOMAIN fork.branches : World(fork.branches[i]) \in WorldSet
    BY <1>1, BranchesAreTasks, StateOf
  <2>2. worlds \in [1..Len(fork.branches) -> WorldSet] /\ Len(fork.branches) \in Nat
    BY <1>1, <2>1, BranchesAreTasks
  <2>3. worlds \in Seq(WorldSet)
    BY <2>2
  <2>4. Stamp \in Nat /\ Stamp = clock + 1
    BY <1>1 DEF Typed, Stamp
  <2>5. World(Root) \in WorldSet
    BY <1>1, StateOf
  <2> HIDE DEF worlds
  <2> QED
    BY <2>3, <2>4, <2>5, MergeWorldsTyped
<1>5. /\ handed' \in [Tasks -> SUBSET Nat]
      /\ \A u \in Tasks : u # Root => handed'[u] = handed[u]
      /\ handed'[Root] = UNION {handed[b] : b \in Branches(fork)}
  <2>1. handed \in [Tasks -> SUBSET Nat]
    BY <1>1 DEF Typed
  <2>2. UNION {handed[b] : b \in Branches(fork)} \in SUBSET Nat
    BY <1>1, <2>1, BranchesAreTasks
  <2> QED
    BY <1>1, <1>2, <2>1, <2>2
<1>6. \A id \in handed'[Root] : id < c
  <2>1. ASSUME NEW b \in Branches(fork), NEW id \in handed[b] PROVE id < c
    <3>1. b \in Tasks /\ state[b].counter <= c
      BY <1>1, <1>3, BranchesAreTasks
    <3>2. id \in Nat /\ id < state[b].counter /\ state[b].counter \in Nat
      BY <2>1, <3>1, StateOf
    <3> HIDE DEF c
    <3> QED
      BY <1>3, <3>1, <3>2
  <2> HIDE DEF c
  <2> QED
    BY <1>5, <2>1
<1>7. /\ frames' \in [Tasks -> Seq(FrameSet)] /\ mutexes' \in [Names -> Nat] /\ requests' \in Nat
      /\ fork' \in ForkSet
  BY <1>1, <1>2, NoForkTyped DEF Typed
<1>8. OldSnapshots(frames')
  BY <1>1, <1>2, Live
<1> HIDE DEF c, w
<1> QED
  BY <1>1, <1>2, <1>3, <1>4, <1>5, <1>6, <1>7, <1>8, TaskStep

LEMMA JoinRaceStep ==
    ASSUME IInv, JoinRace PROVE IInv'
<1> DEFINE v == fork.winner
           c == state[v].counter
           w == World(v)
<1>1. Typed /\ HandlesNotReused /\ Root \in Tasks /\ v \in Tasks
  BY RootIsTask, BranchesAreTasks DEF IInv
<1>2. /\ UNCHANGED <<frames, mutexes, requests, clock>> /\ fork' = NoFork
      /\ state' = [state EXCEPT ![Root] = state[v]]
      /\ handed' = [handed EXCEPT ![Root] = handed[v]]
  BY DEF JoinRace, envVars
<1> HIDE DEF v
<1>3. /\ c \in Nat /\ w \in WorldSet /\ state[v] = [counter |-> c, world |-> w]
      /\ w \in LiveWorlds /\ SameContent(w, w) /\ \A id \in handed[v] : id < c
  BY <1>1, StateOf DEF SameContent
<1>4. /\ handed' \in [Tasks -> SUBSET Nat]
      /\ \A u \in Tasks : u # Root => handed'[u] = handed[u]
      /\ handed'[Root] = handed[v]
  BY <1>1, <1>2 DEF Typed
<1>5. /\ frames' \in [Tasks -> Seq(FrameSet)] /\ mutexes' \in [Names -> Nat] /\ requests' \in Nat
      /\ fork' \in ForkSet
  BY <1>1, <1>2, NoForkTyped DEF Typed
<1>6. OldSnapshots(frames')
  BY <1>1, <1>2, Live
<1>7. state' = [state EXCEPT ![Root] = [counter |-> c, world |-> w]]
  BY <1>2, <1>3
<1> HIDE DEF c, w
<1> QED
  BY <1>1, <1>2, <1>3, <1>4, <1>5, <1>6, <1>7, TaskStep

LEMMA InitIInv == Init => IInv
<1> SUFFICES ASSUME Init PROVE IInv
  OBVIOUS
<1>1. Typed
  <2>1. state \in [Tasks -> States]
    BY NewWorldTyped DEF Init, States
  <2>2. << >> \in Seq(FrameSet)
    OBVIOUS
  <2>3. frames \in [Tasks -> Seq(FrameSet)]
    BY <2>2 DEF Init
  <2> QED
    BY <2>1, <2>3, NoForkTyped DEF Init, Typed, NoRequest
<1>2. HandlesNotReused
  BY DEF Init, HandlesNotReused
<1>3. \A w \in LiveWorlds : w = NewWorld
  <2>1. \A t \in Tasks : World(t) = NewWorld
    BY DEF Init, World
  <2>2. \A t \in Tasks : Snapshots(t) = {}
    <3>1. \A t \in Tasks : DOMAIN frames[t] = {}
      BY DEF Init
    <3> QED
      BY <3>1 DEF Snapshots
  <2> QED
    BY <2>1, <2>2 DEF LiveWorlds
<1>4. VersionsSound
  <2>1. NewWorld.version <= clock
    BY DEF NewWorld, Init
  <2>2. \A w \in LiveWorlds : w.version <= clock
    BY <1>3, <2>1
  <2>3. VersionIdentifiesContent
    BY <1>3 DEF VersionIdentifiesContent
  <2> QED
    BY <2>2, <2>3 DEF VersionsSound
<1> QED
  BY <1>1, <1>2, <1>4 DEF IInv

LEMMA StepIInv == IInv /\ [Next]_vars => IInv'
<1> SUFFICES ASSUME IInv, [Next]_vars PROVE IInv'
  OBVIOUS
<1>1. ASSUME NEW t \in Tasks, Task(t) PROVE IInv'
  <2>1. CASE Effect(t)
    BY <2>1, NewStateStep, ChangeStateStep, NewSpaceStep, AddAtomStep, RemoveAtomStep,
       ImportStep, BeginTransactionStep, RequestMutexStep DEF Effect
  <2>2. CASE EndTransaction(t) \/ EnterMutex(t) \/ LeaveMutex(t)
    BY <2>2, EndTransactionStep, EnterMutexStep, LeaveMutexStep
  <2>3. CASE Throw(t) \/ Finish(t) \/ Cancel(t)
    BY <2>3, LeavingStep, FinishStep
  <2> QED
    BY <1>1, <2>1, <2>2, <2>3 DEF Task
<1>2. CASE Fork \/ JoinPar \/ FailPar \/ JoinRace
  BY <1>2, ForkStep, JoinParStep, LeavingStep, JoinRaceStep, RootIsTask
<1>3. CASE UNCHANGED vars
  <2>1. fork' \in ForkSet
    BY <1>3 DEF vars, IInv, Typed
  <2> QED
    BY <1>3, <2>1, StillStep DEF vars, envVars
<1> QED
  BY <1>1, <1>2, <1>3 DEF Next

\* The inductive invariant holds in every reachable state.
THEOREM Invariant == Spec => []IInv
BY InitIInv, StepIInv, PTL DEF Spec

\* A handle that new-state or new-space returned never comes to mean another cell or
\* space in the evaluation that holds it, through rollbacks, joins and lost races.
THEOREM HandlesStay == Spec => []HandlesNotReused
<1>1. IInv => HandlesNotReused
  BY DEF IInv
<1> QED
  BY <1>1, Invariant, PTL

\* Two evaluations that read under one content version read the same spaces, whatever
\* branches, rollbacks and merges the worlds went through.
THEOREM ReadsShareVersions == Spec => []VersionIdentifiesContent
<1>1. IInv => VersionIdentifiesContent
  BY DEF IInv, VersionsSound
<1> QED
  BY <1>1, Invariant, PTL

-----------------------------------------------------------------------------
(* The lock table.                                                         *)

\* The with-mutex forms tasks are in, by task and depth.
Sections ==
    {p \in Tasks \X Nat : p[2] \in DOMAIN frames[p[1]] /\ frames[p[1]][p[2]].kind = "mutex"}

At(p) == frames[p[1]][p[2]]

\* A section's request is its own, is open until the section is left, and comes after the
\* one it waits for, which is of the same name.
RequestsSound ==
    /\ \A p \in Sections :
         /\ At(p).request \in 1..requests /\ At(p).request \in open
         /\ At(p).prior \in Nat /\ At(p).prior < At(p).request
         /\ At(p).name \in Names /\ At(p).waiting \in BOOLEAN
    /\ \A p, q \in Sections : At(p).request = At(q).request => p = q
    /\ \A p, q \in Sections : At(p).request = At(q).prior => At(p).name = At(q).name

\* Behind another section of its name a section waits, for that one or one in between.
Chained ==
    \A p, q \in Sections :
        At(p).name = At(q).name /\ At(p).request < At(q).request =>
            /\ At(q).waiting /\ At(q).prior \in open
            /\ At(p).request <= At(q).prior

\* The lock table has the last request of a name some section is left of.
TableExact ==
    \A n \in Names :
        /\ mutexes[n] = NoRequest => \A p \in Sections : At(p).name # n
        /\ mutexes[n] # NoRequest =>
             /\ \E p \in Sections : At(p).name = n /\ At(p).request = mutexes[n]
             /\ \A p \in Sections : At(p).name = n => At(p).request <= mutexes[n]

\* Only the innermost form of a task waits, and root waits for no lock during a fork.
InnermostWaits ==
    \A p \in Sections : At(p).waiting =>
        p[2] = Len(frames[p[1]]) /\ (p[1] = Root => fork = NoFork)

Locks == RequestsSound /\ Chained /\ TableExact
LInv == Locks /\ InnermostWaits

-----------------------------------------------------------------------------
(* What the steps do to the sections, wherever they sit.                   *)

\* The sections stay what they are.
LEMMA LocksKept ==
    ASSUME Locks, Sections' = Sections, \A p \in Sections : At(p)' = At(p),
           UNCHANGED <<mutexes, open, requests>>
    PROVE  Locks'
<1>1. RequestsSound'
  BY DEF Locks, RequestsSound
<1>2. Chained'
  BY DEF Locks, Chained
<1>3. TableExact'
  BY DEF Locks, TableExact
<1> QED
  BY <1>1, <1>2, <1>3 DEF Locks

\* One section more: the last in the chain of its name.
LEMMA LocksRequested ==
    ASSUME Locks, requests \in Nat, mutexes \in [Names -> Nat], NEW n \in Names, NEW q,
           q \notin Sections, Sections' = Sections \cup {q},
           \A p \in Sections : At(p)' = At(p),
           At(q)' = [kind |-> "mutex", name |-> n, request |-> requests + 1,
                     prior |-> mutexes[n], waiting |-> TRUE],
           mutexes' = [mutexes EXCEPT ![n] = requests + 1],
           requests' = requests + 1, open' = open \cup {requests + 1}
    PROVE  Locks'
<1> DEFINE r == requests + 1
<1>1. /\ At(q)'.request = r /\ At(q)'.prior = mutexes[n] /\ At(q)'.name = n /\ At(q)'.waiting = TRUE
      /\ r \in Nat /\ r > requests /\ requests' = r /\ mutexes[n] \in Nat
  OBVIOUS
<1>2. \A p \in Sections :
        /\ At(p).request \in 1..requests /\ At(p).request \in open
        /\ At(p).prior \in Nat /\ At(p).prior < At(p).request
        /\ At(p).name \in Names /\ At(p).waiting \in BOOLEAN
  BY DEF Locks, RequestsSound
<1>3. \A p, o \in Sections :
        /\ At(p).request = At(o).request => p = o
        /\ At(p).request = At(o).prior => At(p).name = At(o).name
  BY DEF Locks, RequestsSound
<1>4. /\ mutexes[n] = 0 => \A p \in Sections : At(p).name # n
      /\ mutexes[n] # 0 =>
           /\ \E p \in Sections : At(p).name = n /\ At(p).request = mutexes[n]
           /\ \A p \in Sections : At(p).name = n => At(p).request <= mutexes[n]
  BY DEF Locks, TableExact, NoRequest
<1>5. /\ mutexes'[n] = r /\ \A m \in Names : m # n => mutexes'[m] = mutexes[m]
      /\ \A x \in open : x \in open'
      /\ r \in open'
  OBVIOUS
<1>6. mutexes[n] <= requests /\ (mutexes[n] # 0 => mutexes[n] \in open)
  BY <1>1, <1>2, <1>4
<1> HIDE DEF r
<1>7. RequestsSound'
  <2>1. ASSUME NEW p \in Sections'
        PROVE  /\ At(p)'.request \in 1..requests' /\ At(p)'.request \in open'
               /\ At(p)'.prior \in Nat /\ At(p)'.prior < At(p)'.request
               /\ At(p)'.name \in Names /\ At(p)'.waiting \in BOOLEAN
    <3>1. CASE p = q
      <4>1. r \in 1..requests' /\ mutexes[n] < r
        BY <1>1, <1>6
      <4>2. At(q)'.waiting \in BOOLEAN
        BY <1>1
      <4> QED
        BY <1>1, <1>5, <3>1, <4>1, <4>2
    <3>2. CASE p \in Sections
      <4>1. At(p)' = At(p)
        BY <3>2
      <4> QED
        BY <1>1, <1>2, <1>5, <3>2, <4>1
    <3> QED
      BY <3>1, <3>2
  <2>2. ASSUME NEW p \in Sections', NEW o \in Sections'
        PROVE  /\ At(p)'.request = At(o)'.request => p = o
               /\ At(p)'.request = At(o)'.prior => At(p)'.name = At(o)'.name
    <3>1. CASE p \in Sections /\ o \in Sections
      <4>1. At(p)' = At(p) /\ At(o)' = At(o)
        BY <3>1
      <4> QED
        BY <1>3, <3>1, <4>1
    <3>2. CASE p = q /\ o \in Sections
      <4>1. At(o)' = At(o)
        BY <3>2
      <4> QED
        BY <1>1, <1>2, <3>2, <4>1
    <3>3. CASE p \in Sections /\ o = q
      <4>1. At(p)' = At(p)
        BY <3>3
      <4>2. At(p)'.request # At(o)'.request
        BY <1>1, <1>2, <3>3, <4>1
      <4>3. ASSUME At(p).request = mutexes[n] PROVE At(p).name = n
        BY <1>2, <1>3, <1>4, <3>3, <4>3
      <4> QED
        BY <1>1, <3>3, <4>1, <4>2, <4>3
    <3>4. CASE p = q /\ o = q
      BY <1>1, <1>6, <3>4
    <3> QED
      BY <3>1, <3>2, <3>3, <3>4
  <2> QED
    BY <2>1, <2>2 DEF RequestsSound
<1>8. Chained'
  <2> SUFFICES ASSUME NEW p \in Sections', NEW o \in Sections',
                      At(p)'.name = At(o)'.name, At(p)'.request < At(o)'.request
               PROVE  /\ At(o)'.waiting /\ At(o)'.prior \in open'
                      /\ At(p)'.request <= At(o)'.prior
    BY DEF Chained
  <2>1. CASE p \in Sections /\ o \in Sections
    <3>1. At(p)' = At(p) /\ At(o)' = At(o)
      BY <2>1
    <3> QED
      BY <1>5, <2>1, <3>1 DEF Locks, Chained
  <2>2. CASE p = q /\ o \in Sections
    <3>1. At(o)' = At(o)
      BY <2>2
    <3> QED
      BY <1>1, <1>2, <2>2, <3>1
  <2>3. CASE p \in Sections /\ o = q
    <3>1. At(p)' = At(p)
      BY <2>3
    <3>2. At(p).name = n
      BY <1>1, <2>3, <3>1
    <3> QED
      BY <1>1, <1>4, <1>5, <1>6, <2>3, <3>1, <3>2
  <2>4. CASE p = q /\ o = q
    BY <1>1, <2>4
  <2> QED
    BY <2>1, <2>2, <2>3, <2>4
<1>9. TableExact'
  <2> SUFFICES ASSUME NEW m \in Names
               PROVE  /\ mutexes'[m] = 0 => \A p \in Sections' : At(p)'.name # m
                      /\ mutexes'[m] # 0 =>
                           /\ \E p \in Sections' : At(p)'.name = m /\ At(p)'.request = mutexes'[m]
                           /\ \A p \in Sections' : At(p)'.name = m => At(p)'.request <= mutexes'[m]
    BY DEF TableExact, NoRequest
  <2>1. CASE m = n
    <3>1. mutexes'[m] = r /\ r # 0 /\ q \in Sections'
      BY <1>1, <1>5, <2>1
    <3>2. \A p \in Sections' : At(p)'.request <= r
      BY <1>1, <1>2
    <3> QED
      BY <1>1, <2>1, <3>1, <3>2
  <2>2. CASE m # n
    <3>1. /\ mutexes[m] = 0 => \A p \in Sections : At(p).name # m
          /\ mutexes[m] # 0 =>
               /\ \E p \in Sections : At(p).name = m /\ At(p).request = mutexes[m]
               /\ \A p \in Sections : At(p).name = m => At(p).request <= mutexes[m]
      BY DEF Locks, TableExact, NoRequest
    <3>2. mutexes'[m] = mutexes[m] /\ At(q)'.name # m
      BY <1>1, <1>5, <2>2
    <3> QED
      BY <3>1, <3>2
  <2> QED
    BY <2>1, <2>2
<1> QED
  BY <1>7, <1>8, <1>9 DEF Locks

\* A section is entered: no section of its name was asked for before it.
LEMMA LocksEntered ==
    ASSUME Locks, NEW q \in Sections, At(q).prior \notin open,
           Sections' = Sections, \A p \in Sections : p # q => At(p)' = At(p),
           At(q)'.name = At(q).name, At(q)'.request = At(q).request,
           At(q)'.prior = At(q).prior, At(q)'.waiting = FALSE,
           UNCHANGED <<mutexes, open, requests>>
    PROVE  Locks'
<1>1. \A p \in Sections : /\ At(p)'.name = At(p).name /\ At(p)'.request = At(p).request
                          /\ At(p)'.prior = At(p).prior
                          /\ p # q => At(p)'.waiting = At(p).waiting
  OBVIOUS
<1>2. RequestsSound'
  <2>1. \A p \in Sections : At(p)'.waiting \in BOOLEAN
    BY <1>1 DEF Locks, RequestsSound
  <2> QED
    BY <1>1, <2>1 DEF Locks, RequestsSound
<1>3. Chained'
  <2>1. \A p \in Sections : ~ (At(p).name = At(q).name /\ At(p).request < At(q).request)
    BY DEF Locks, Chained
  <2> QED
    BY <1>1, <2>1 DEF Locks, Chained
<1>4. TableExact'
  BY <1>1 DEF Locks, TableExact
<1> QED
  BY <1>2, <1>3, <1>4 DEF Locks

\* Sections that do not wait are left together.
LEMMA LocksReleased ==
    ASSUME Locks, mutexes \in [Names -> Nat],
           NEW R \in SUBSET Sections, \A p \in R : ~ At(p).waiting,
           Sections' = Sections \ R, \A p \in Sections' : At(p)' = At(p),
           Release({At(p) : p \in R})
    PROVE  Locks'
<1>1. /\ open' = open \ {At(p).request : p \in R} /\ requests' = requests
      /\ \A n \in Names : mutexes'[n] = IF \E p \in R : At(p).request = mutexes[n]
                                        THEN NoRequest ELSE mutexes[n]
  BY DEF Release, Dropped
<1>2. \A p \in Sections' : p \in Sections /\ p \notin R
  OBVIOUS
<1>3. /\ \A p, q \in Sections : At(p).request = At(q).request => p = q
      /\ \A p, q \in Sections : At(p).request = At(q).prior => At(p).name = At(q).name
      /\ \A p \in Sections : At(p).request \in open /\ At(p).request \in Nat /\ At(p).request # 0
  BY DEF Locks, RequestsSound
<1>4. \A p, q \in Sections : At(p).name = At(q).name /\ At(p).request < At(q).request =>
        At(q).waiting /\ At(q).prior \in open /\ At(p).request <= At(q).prior
  BY DEF Locks, Chained
<1>5. \A p \in Sections' : At(p).request \in open'
  BY <1>1, <1>2, <1>3
<1>6. RequestsSound'
  BY <1>1, <1>2, <1>5 DEF Locks, RequestsSound
<1>7. Chained'
  <2> SUFFICES ASSUME NEW p \in Sections', NEW q \in Sections',
                      At(p).name = At(q).name, At(p).request < At(q).request
               PROVE  At(q).waiting /\ At(q).prior \in open' /\ At(p).request <= At(q).prior
    BY DEF Chained
  <2>1. At(q).waiting /\ At(q).prior \in open /\ At(p).request <= At(q).prior
    BY <1>2, <1>4
  <2>2. ASSUME NEW o \in R, At(o).request = At(q).prior PROVE FALSE
    <3>1. o \in Sections /\ p \in Sections /\ q \in Sections /\ o # p
      BY <1>2, <2>2
    <3>2. At(o).name = At(p).name
      BY <1>3, <2>2, <3>1
    <3>3. At(p).request < At(o).request
      BY <1>3, <2>1, <2>2, <3>1
    <3> QED
      BY <1>4, <2>2, <3>1, <3>2, <3>3
  <2> QED
    BY <1>1, <2>1, <2>2
<1>8. TableExact'
  <2> SUFFICES ASSUME NEW n \in Names
               PROVE  /\ mutexes'[n] = 0 => \A p \in Sections' : At(p).name # n
                      /\ mutexes'[n] # 0 =>
                           /\ \E p \in Sections' : At(p).name = n /\ At(p).request = mutexes'[n]
                           /\ \A p \in Sections' : At(p).name = n => At(p).request <= mutexes'[n]
    BY DEF TableExact, NoRequest
  <2>1. /\ mutexes[n] = 0 => \A p \in Sections : At(p).name # n
        /\ mutexes[n] # 0 =>
             /\ \E p \in Sections : At(p).name = n /\ At(p).request = mutexes[n]
             /\ \A p \in Sections : At(p).name = n => At(p).request <= mutexes[n]
    BY DEF Locks, TableExact, NoRequest
  <2>2. CASE \E p \in R : At(p).request = mutexes[n]
    <3>1. PICK o \in R : At(o).request = mutexes[n]
      BY <2>2
    <3>2. mutexes'[n] = 0 /\ mutexes[n] # 0 /\ o \in Sections
      BY <1>1, <1>3, <2>2, <3>1 DEF NoRequest
    <3>3. At(o).name = n
      BY <1>3, <2>1, <3>1, <3>2
    <3>4. ASSUME NEW p \in Sections', At(p).name = n PROVE FALSE
      <4>1. p \in Sections /\ p # o /\ At(p).request <= At(o).request
        BY <1>2, <2>1, <3>1, <3>2, <3>4
      <4>2. At(p).request < At(o).request
        BY <1>3, <3>2, <4>1
      <4> QED
        BY <1>4, <3>1, <3>2, <3>3, <3>4, <4>1, <4>2
    <3> QED
      BY <3>2, <3>4
  <2>3. CASE ~ \E p \in R : At(p).request = mutexes[n]
    <3>1. mutexes'[n] = mutexes[n]
      BY <1>1, <2>3
    <3>2. \A p \in Sections : At(p).request = mutexes[n] => p \in Sections'
      BY <2>3
    <3> QED
      BY <1>2, <2>1, <3>1, <3>2
  <2> QED
    BY <2>2, <2>3
<1> QED
  BY <1>6, <1>7, <1>8 DEF Locks

-----------------------------------------------------------------------------
(* Where a step leaves the sections.                                       *)

LEMMA SectionsAre ==
    ASSUME NEW p PROVE p \in Sections <=> p \in Tasks \X Nat /\ p[2] \in DOMAIN frames[p[1]] /\ At(p).kind = "mutex"
BY DEF Sections, At

LEMMA PairOf ==
    ASSUME NEW p \in Tasks \X Nat
    PROVE  p[1] \in Tasks /\ p[2] \in Nat /\ p = <<p[1], p[2]>>
OBVIOUS

\* One task has other frames.
LEMMA SectionsRewritten ==
    ASSUME Typed, NEW t \in Tasks, NEW after, frames' = [frames EXCEPT ![t] = after],
           NEW p \in Tasks \X Nat
    PROVE  /\ p[1] # t => (p \in Sections' <=> p \in Sections) /\ At(p)' = At(p)
           /\ p[1] = t => /\ p \in Sections' <=> p[2] \in DOMAIN after /\ after[p[2]].kind = "mutex"
                          /\ At(p)' = after[p[2]]
<1>1. p[1] \in Tasks
  OBVIOUS
<1>2. frames'[p[1]] = IF p[1] = t THEN after ELSE frames[p[1]]
  BY <1>1 DEF Typed
<1> QED
  BY <1>2 DEF Sections, At

\* A section that waits is the innermost form of its task, and the task waits.
LEMMA WaiterWaits ==
    ASSUME Typed, InnermostWaits, NEW p \in Sections, At(p).waiting
    PROVE  Waiting(p[1]) /\ p[2] = Len(frames[p[1]])
<1>1. p \in Tasks \X Nat /\ p[2] \in DOMAIN frames[p[1]] /\ At(p).kind = "mutex"
  BY SectionsAre
<1>2. p[1] \in Tasks /\ p[2] = Len(frames[p[1]])
  BY <1>1, PairOf DEF InnermostWaits
<1>3. frames[p[1]] # << >>
  <2>1. DOMAIN << >> = {}
    OBVIOUS
  <2> QED
    BY <1>1, <2>1
<1>4. Top(p[1]) = At(p)
  BY <1>2 DEF Top, At
<1> QED
  BY <1>1, <1>2, <1>3, <1>4 DEF Waiting

\* Frames stay, and root does not come to be suspended on a fork while it waits.
LEMMA FramesStay ==
    ASSUME Typed, LInv, UNCHANGED <<frames, mutexes, open, requests>>,
           (fork = NoFork => fork' = NoFork) \/ ~ Waiting(Root)
    PROVE  LInv'
<1>1. Sections' = Sections /\ \A p \in Sections : At(p)' = At(p)
  BY DEF Sections, At
<1>2. Locks'
  BY <1>1, LocksKept DEF LInv
<1>3. InnermostWaits'
  <2>1. ASSUME NEW p \in Sections, At(p).waiting
        PROVE  p[2] = Len(frames[p[1]]) /\ (p[1] = Root => fork' = NoFork)
    BY <2>1, WaiterWaits DEF LInv, InnermostWaits
  <2> QED
    BY <1>1, <2>1 DEF InnermostWaits
<1> QED
  BY <1>2, <1>3 DEF LInv

\* A task enters a form, when it does not wait.
LEMMA BeginTransactionLocks ==
    ASSUME IInv, LInv, NEW t \in Tasks, BeginTransaction(t) PROVE LInv'
<1> DEFINE frame == [kind |-> "transaction", before |-> state[t]]
           after == Append(frames[t], frame)
<1>1. /\ Typed /\ UNCHANGED <<fork, mutexes, open, requests>> /\ ~ Waiting(t)
      /\ frames' = [frames EXCEPT ![t] = after]
  BY DEF IInv, BeginTransaction, envVars, Pushed, Acts, Runs
<1>2. /\ DOMAIN frames[t] = 1..Len(frames[t]) /\ Len(frames[t]) \in Nat
      /\ DOMAIN after = 1..(Len(frames[t]) + 1)
      /\ \A i \in DOMAIN frames[t] : after[i] = frames[t][i]
      /\ after[Len(frames[t]) + 1].kind = "transaction"
  <2>1. frame \in FrameSet
    <3>1. state[t] \in States
      BY <1>1 DEF Typed
    <3> QED
      BY <3>1 DEF FrameSet
  <2>2. frame.kind = "transaction"
    OBVIOUS
  <2> HIDE DEF frame
  <2> QED
    BY <1>1, <2>1, <2>2, FramesOf, AppendProperties, LenProperties
<1> HIDE DEF after
<1>3. ASSUME NEW p \in Tasks \X Nat
      PROVE  /\ p \in Sections' <=> p \in Sections
             /\ p \in Sections => At(p)' = At(p)
  <2>1. CASE p[1] # t
    BY <1>1, <2>1, SectionsRewritten
  <2>2. CASE p[1] = t
    <3>1. p \in Sections' <=> p[2] \in DOMAIN after /\ after[p[2]].kind = "mutex"
      BY <1>1, <2>2, SectionsRewritten
    <3>2. At(p)' = after[p[2]]
      BY <1>1, <2>2, SectionsRewritten
    <3>3. p \in Sections <=> p[2] \in DOMAIN frames[t] /\ frames[t][p[2]].kind = "mutex"
      BY <2>2 DEF Sections
    <3> QED
      BY <1>2, <2>2, <3>1, <3>2, <3>3 DEF At
  <2> QED
    BY <2>1, <2>2
<1>4. Sections' = Sections /\ \A p \in Sections : At(p)' = At(p)
  BY <1>3 DEF Sections
<1>5. Locks'
  BY <1>1, <1>4, LocksKept DEF LInv
<1>6. InnermostWaits'
  <2>1. ASSUME NEW p \in Sections, At(p).waiting
        PROVE  p[2] = Len(frames'[p[1]]) /\ (p[1] = Root => fork = NoFork)
    <3>1. p[1] \in Tasks /\ p[1] # t /\ p[2] = Len(frames[p[1]])
      BY <1>1, <2>1, WaiterWaits, SectionsAre, PairOf DEF LInv
    <3>2. frames'[p[1]] = frames[p[1]]
      BY <1>1, <3>1 DEF Typed
    <3> QED
      BY <2>1, <3>1, <3>2 DEF LInv, InnermostWaits
  <2> QED
    BY <1>1, <1>4, <2>1 DEF InnermostWaits
<1> QED
  BY <1>5, <1>6 DEF LInv

LEMMA RequestMutexLocks ==
    ASSUME IInv, LInv, NEW t \in Tasks, RequestMutex(t) PROVE LInv'
<1>1. PICK n \in Names :
        /\ frames' = Pushed(t, [kind |-> "mutex", name |-> n, request |-> requests + 1,
                                prior |-> mutexes[n], waiting |-> TRUE])
        /\ mutexes' = [mutexes EXCEPT ![n] = requests + 1]
  BY DEF RequestMutex
<1> DEFINE frame == [kind |-> "mutex", name |-> n, request |-> requests + 1,
                     prior |-> mutexes[n], waiting |-> TRUE]
           after == Append(frames[t], frame)
<1>0. PICK depth : depth = Len(frames[t]) + 1
  OBVIOUS
<1>q. PICK q : q = <<t, depth>>
  OBVIOUS
<1>2. /\ Typed /\ UNCHANGED fork /\ ~ Waiting(t) /\ (t = Root => fork = NoFork)
      /\ requests' = requests + 1 /\ open' = open \cup {requests + 1}
      /\ frames' = [frames EXCEPT ![t] = after]
  BY <1>1 DEF IInv, RequestMutex, Pushed, Acts, Runs
<1>3. requests \in Nat /\ mutexes \in [Names -> Nat]
  BY <1>2 DEF Typed
<1>4. /\ DOMAIN frames[t] = 1..Len(frames[t]) /\ Len(frames[t]) \in Nat
      /\ DOMAIN after = 1..depth /\ Len(after) = depth
      /\ \A i \in DOMAIN frames[t] : after[i] = frames[t][i]
      /\ after[depth] = frame
  <2>1. frame \in FrameSet
    BY <1>3 DEF FrameSet
  <2> HIDE DEF frame
  <2> QED
    BY <1>0, <1>2, <2>1, FramesOf, AppendProperties, LenProperties
<1>5. frame.kind = "mutex" /\ depth \in Nat /\ depth \notin DOMAIN frames[t] /\ depth \in DOMAIN after
  BY <1>0, <1>4
<1> HIDE DEF after
<1>6. q \in Tasks \X Nat /\ q[1] = t /\ q[2] = depth /\ q \notin Sections
  <2>1. q \in Tasks \X Nat /\ q[1] = t /\ q[2] = depth
    BY <1>5, <1>q
  <2> QED
    BY <1>5, <2>1, SectionsAre
<1>7. q \in Sections' /\ At(q)' = frame
  <2>1. /\ q \in Sections' <=> q[2] \in DOMAIN after /\ after[q[2]].kind = "mutex"
        /\ At(q)' = after[q[2]]
    BY <1>2, <1>6, SectionsRewritten
  <2> HIDE DEF frame
  <2> QED
    BY <1>4, <1>5, <1>6, <2>1
<1> HIDE DEF frame
<1>8. ASSUME NEW p \in Tasks \X Nat, p # q
      PROVE  /\ p \in Sections' <=> p \in Sections
             /\ p \in Sections => At(p)' = At(p)
  <2>1. CASE p[1] # t
    BY <1>2, <2>1, SectionsRewritten
  <2>2. CASE p[1] = t
    <3>1. p \in Sections' <=> p[2] \in DOMAIN after /\ after[p[2]].kind = "mutex"
      BY <1>2, <2>2, SectionsRewritten
    <3>2. At(p)' = after[p[2]]
      BY <1>2, <2>2, SectionsRewritten
    <3>3. p \in Sections <=> p[2] \in DOMAIN frames[t] /\ frames[t][p[2]].kind = "mutex"
      BY <2>2 DEF Sections
    <3>4. p[2] # depth
      BY <1>8, <1>q, <2>2, PairOf
    <3>5. p[2] \in DOMAIN after <=> p[2] \in DOMAIN frames[t]
      BY <1>0, <1>4, <3>4, PairOf
    <3> QED
      BY <1>4, <2>2, <3>1, <3>2, <3>3, <3>5 DEF At
  <2> QED
    BY <2>1, <2>2
<1>9. Sections' = Sections \cup {q} /\ \A p \in Sections : At(p)' = At(p)
  <2>1. Sections \subseteq Tasks \X Nat /\ Sections' \subseteq Tasks \X Nat
    BY DEF Sections
  <2> QED
    BY <1>6, <1>7, <1>8, <2>1
<1>10. Locks'
  <2>1. At(q)' = [kind |-> "mutex", name |-> n, request |-> requests + 1,
                  prior |-> mutexes[n], waiting |-> TRUE]
    BY <1>7 DEF frame
  <2>2. Locks /\ mutexes' = [mutexes EXCEPT ![n] = requests + 1]
        /\ requests' = requests + 1 /\ open' = open \cup {requests + 1}
    BY <1>1, <1>2 DEF LInv
  <2> QED
    BY <1>3, <1>6, <1>9, <2>1, <2>2, LocksRequested
<1>11. InnermostWaits'
  <2>1. ASSUME NEW p \in Sections, At(p).waiting
        PROVE  p[2] = Len(frames'[p[1]]) /\ (p[1] = Root => fork = NoFork)
    <3>1. p[1] \in Tasks /\ p[1] # t /\ p[2] = Len(frames[p[1]])
      BY <1>2, <2>1, WaiterWaits, SectionsAre, PairOf DEF LInv
    <3>2. frames'[p[1]] = frames[p[1]]
      BY <1>2, <3>1 DEF Typed
    <3> QED
      BY <2>1, <3>1, <3>2 DEF LInv, InnermostWaits
  <2>2. q[2] = Len(frames'[q[1]]) /\ (q[1] = Root => fork = NoFork)
    <3>1. frames'[t] = after
      BY <1>2 DEF Typed
    <3> QED
      BY <1>2, <1>4, <1>6, <3>1
  <2> QED
    BY <1>2, <1>9, <2>1, <2>2 DEF InnermostWaits
<1> QED
  BY <1>10, <1>11 DEF LInv

\* A task that does not wait leaves some of its innermost forms.
LEMMA SectionsLeft ==
    ASSUME Typed, LInv, NEW t \in Tasks, NEW after, frames' = [frames EXCEPT ![t] = after],
           DOMAIN after \subseteq DOMAIN frames[t], \A i \in DOMAIN after : after[i] = frames[t][i],
           \A p \in Sections : p[1] = t => ~ At(p).waiting,
           fork' \in {fork, NoFork},
           NEW R, R = {p \in Sections : p[1] = t /\ p[2] \notin DOMAIN after},
           Release({At(p) : p \in R}) \/ (R = {} /\ UNCHANGED <<mutexes, open, requests>>)
    PROVE  LInv'
<1>1. ASSUME NEW p \in Tasks \X Nat
      PROVE  /\ p \in Sections' <=> p \in Sections \ R
             /\ p \in Sections' => At(p)' = At(p)
  <2>1. CASE p[1] # t
    <3>1. p \notin R
      BY <2>1
    <3>2. (p \in Sections' <=> p \in Sections) /\ At(p)' = At(p)
      BY <2>1, SectionsRewritten
    <3> QED
      BY <3>1, <3>2
  <2>2. CASE p[1] = t
    <3>0. frames'[p[1]] = after
      BY <2>2 DEF Typed
    <3>1. (p \in Sections' <=> p[2] \in DOMAIN after /\ after[p[2]].kind = "mutex") /\ At(p)' = after[p[2]]
      BY <3>0 DEF Sections, At
    <3>2. p \in Sections <=> p[2] \in DOMAIN frames[t] /\ frames[t][p[2]].kind = "mutex"
      BY <2>2 DEF Sections
    <3>3. p \in Sections \ R <=> p \in Sections /\ p[2] \in DOMAIN after
      BY <2>2
    <3> QED
      BY <2>2, <3>1, <3>2, <3>3 DEF At
  <2> QED
    BY <2>1, <2>2
<1>2. Sections' = Sections \ R /\ \A p \in Sections' : At(p)' = At(p)
  BY <1>1 DEF Sections
<1>3. R \in SUBSET Sections /\ \A p \in R : ~ At(p).waiting
  OBVIOUS
<1>4. Locks'
  <2>1. CASE Release({At(p) : p \in R})
    <3>1. mutexes \in [Names -> Nat] /\ Locks
      BY DEF Typed, LInv
    <3> QED
      BY <1>2, <1>3, <2>1, <3>1, LocksReleased
  <2>2. CASE R = {} /\ UNCHANGED <<mutexes, open, requests>>
    <3>1. Sections' = Sections
      BY <1>2, <2>2
    <3> QED
      BY <1>2, <2>2, <3>1, LocksKept DEF LInv
  <2> QED
    BY <2>1, <2>2
<1>5. InnermostWaits'
  <2>1. ASSUME NEW p \in Sections', At(p).waiting
        PROVE  p[2] = Len(frames'[p[1]]) /\ (p[1] = Root => fork' = NoFork)
    <3>1. p \in Sections /\ p[1] \in Tasks /\ p[1] # t
      BY <1>2, <2>1, SectionsAre, PairOf
    <3>2. frames'[p[1]] = frames[p[1]]
      BY <3>1 DEF Typed
    <3> QED
      BY <2>1, <3>1, <3>2 DEF LInv, InnermostWaits
  <2> QED
    BY <1>2, <2>1 DEF InnermostWaits
<1> QED
  BY <1>4, <1>5 DEF LInv

LEMMA NoneWaits ==
    ASSUME Typed, LInv, NEW t \in Tasks, ~ Waiting(t)
    PROVE  \A p \in Sections : p[1] = t => ~ At(p).waiting
BY WaiterWaits DEF LInv

\* The frames without the innermost one.
LEMMA PoppedFrames ==
    ASSUME Typed, NEW t \in Tasks, frames[t] # << >>
    PROVE  LET after == SubSeq(frames[t], 1, Len(frames[t]) - 1)
           IN  /\ DOMAIN after = 1..(Len(frames[t]) - 1)
               /\ \A i \in DOMAIN after : i \in DOMAIN frames[t] /\ after[i] = frames[t][i]
<1> DEFINE n == Len(frames[t]) - 1
<1>1. n \in Nat /\ n <= Len(frames[t]) /\ frames[t] \in Seq(FrameSet)
  BY FramesOf
<1>2. \A i \in 1..n : i \in DOMAIN frames[t]
  BY FramesOf
<1>3. /\ SubSeq(frames[t], 1, n) \in Seq(FrameSet)
      /\ Len(SubSeq(frames[t], 1, n)) = n
      /\ \A i \in 1..n : SubSeq(frames[t], 1, n)[i] = frames[t][i]
  BY <1>1, <1>2, FramesOf, SMTT(30)
<1> QED
  BY <1>2, <1>3, LenProperties

LEMMA EndTransactionLocks ==
    ASSUME IInv, LInv, NEW t \in Tasks, EndTransaction(t) PROVE LInv'
<1> DEFINE after == SubSeq(frames[t], 1, Len(frames[t]) - 1)
           R == {p \in Sections : p[1] = t /\ p[2] \notin DOMAIN after}
<1>1. /\ Typed /\ ~ Waiting(t) /\ UNCHANGED <<fork, mutexes, open, requests>>
      /\ frames[t] # << >> /\ Top(t).kind = "transaction"
      /\ frames' = [frames EXCEPT ![t] = after]
  BY DEF IInv, EndTransaction, Runs, Popped, envVars
<1>2. /\ DOMAIN after = 1..(Len(frames[t]) - 1)
      /\ \A i \in DOMAIN after : i \in DOMAIN frames[t] /\ after[i] = frames[t][i]
  BY <1>1, PoppedFrames
<1> HIDE DEF after
<1>3. R = {}
  <2>1. ASSUME NEW p \in R PROVE FALSE
    <3>1. p \in Tasks \X Nat /\ p[1] = t /\ p[2] \in DOMAIN frames[t] /\ At(p).kind = "mutex"
      BY SectionsAre
    <3>2. p[2] = Len(frames[t])
      BY <1>1, <1>2, <3>1, FramesOf
    <3> QED
      BY <1>1, <3>1, <3>2 DEF At, Top
  <2> QED
    BY <2>1
<1> HIDE DEF R
<1>4. \A p \in Sections : p[1] = t => ~ At(p).waiting
  BY <1>1, NoneWaits
<1> QED
  BY <1>1, <1>2, <1>3, <1>4, SectionsLeft DEF R

LEMMA LeaveMutexLocks ==
    ASSUME IInv, LInv, NEW t \in Tasks, LeaveMutex(t) PROVE LInv'
<1> DEFINE after == SubSeq(frames[t], 1, Len(frames[t]) - 1)
           R == {p \in Sections : p[1] = t /\ p[2] \notin DOMAIN after}
<1>1. /\ Typed /\ ~ Waiting(t) /\ UNCHANGED fork
      /\ frames[t] # << >> /\ Top(t).kind = "mutex" /\ Release({Top(t)})
      /\ frames' = [frames EXCEPT ![t] = after]
  BY DEF IInv, LeaveMutex, Runs, Popped
<1>2. /\ DOMAIN after = 1..(Len(frames[t]) - 1)
      /\ \A i \in DOMAIN after : i \in DOMAIN frames[t] /\ after[i] = frames[t][i]
  BY <1>1, PoppedFrames
<1> HIDE DEF after
<1>3. {At(p) : p \in R} = {Top(t)}
  <2>1. ASSUME NEW p \in R PROVE At(p) = Top(t)
    <3>1. p \in Tasks \X Nat /\ p[1] = t /\ p[2] \in DOMAIN frames[t]
      BY SectionsAre
    <3>2. p[2] = Len(frames[t])
      BY <1>1, <1>2, <3>1, FramesOf
    <3> QED
      BY <3>1, <3>2 DEF At, Top
  <2>2. PICK q : q = <<t, Len(frames[t])>>
    OBVIOUS
  <2>3. q \in Tasks \X Nat /\ q[1] = t /\ q[2] = Len(frames[t]) /\ q[2] \in DOMAIN frames[t]
    BY <1>1, <2>2, FramesOf
  <2>4. At(q) = Top(t)
    BY <2>3 DEF At, Top
  <2>5. q[2] \notin DOMAIN after
    BY <1>1, <1>2, <2>3, FramesOf
  <2>6. q \in R
    BY <1>1, <2>3, <2>4, <2>5, SectionsAre
  <2> HIDE DEF R
  <2> QED
    BY <2>1, <2>4, <2>6
<1> HIDE DEF R
<1>4. \A p \in Sections : p[1] = t => ~ At(p).waiting
  BY <1>1, NoneWaits
<1>5. Release({At(p) : p \in R})
  BY <1>1, <1>3
<1> QED
  BY <1>1, <1>2, <1>4, <1>5, SectionsLeft DEF R

\* A task is gone, and its bodies with it.
LEMMA GoneLocks ==
    ASSUME Typed, LInv, NEW t \in Tasks, frames' = [frames EXCEPT ![t] = << >>],
           \A p \in Sections : p[1] = t => ~ At(p).waiting,
           fork' \in {fork, NoFork},
           Release(Bodies(t)) \/ (~ Shielded(t) /\ UNCHANGED <<mutexes, open, requests>>)
    PROVE  LInv'
<1> DEFINE R == {p \in Sections : p[1] = t /\ p[2] \notin DOMAIN << >>}
<1>1. DOMAIN << >> = {}
  OBVIOUS
<1>2. \A p \in R : p \in Tasks \X Nat /\ p[1] = t /\ p[2] \in DOMAIN frames[t] /\ At(p) = frames[t][p[2]]
                   /\ frames[t][p[2]].kind = "mutex"
  BY DEF Sections, At
<1>3. ASSUME NEW i \in DOMAIN frames[t], frames[t][i].kind = "mutex"
      PROVE  \E p \in R : At(p) = frames[t][i]
  <2>1. PICK q : q = <<t, i>>
    OBVIOUS
  <2>2. i \in Nat
    BY <1>3, FramesOf
  <2>3. q \in Tasks \X Nat /\ q[1] = t /\ q[2] = i
    BY <2>1, <2>2
  <2>4. At(q) = frames[t][i] /\ q \in Sections
    BY <1>3, <2>3 DEF At, Sections
  <2> QED
    BY <1>1, <2>3, <2>4
<1> HIDE DEF R
<1>4. {At(p) : p \in R} = Bodies(t)
  BY <1>2, <1>3 DEF Bodies
<1>5. ~ Shielded(t) => R = {}
  BY <1>2 DEF Shielded
<1>6. Release({At(p) : p \in R}) \/ (R = {} /\ UNCHANGED <<mutexes, open, requests>>)
  BY <1>4, <1>5
<1> QED
  BY <1>1, <1>6, SectionsLeft DEF R

LEMMA LeavingLocks ==
    ASSUME IInv, LInv, NEW t \in Tasks, Throw(t) \/ Cancel(t) \/ FailPar PROVE LInv'
<1>1. Typed /\ Root \in Tasks
  BY RootIsTask DEF IInv
<1>2. CASE Throw(t)
  <2>1. ~ Waiting(t)
    BY <1>2 DEF Throw, Runs
  <2> QED
    BY <1>1, <1>2, <2>1, NoneWaits, GoneLocks DEF Throw
<1>3. CASE Cancel(t)
  <2>1. ~ Shielded(t) /\ UNCHANGED <<mutexes, open, requests, fork>>
        /\ frames' = [frames EXCEPT ![t] = << >>]
    BY <1>3 DEF Cancel, envVars
  <2>2. ASSUME NEW p \in Sections, p[1] = t PROVE FALSE
    BY <2>1, <2>2 DEF Sections, Shielded
  <2> QED
    BY <1>1, <2>1, <2>2, GoneLocks
<1>4. CASE FailPar
  <2>1. /\ fork # NoFork /\ fork' = NoFork /\ Release(Bodies(Root))
        /\ frames' = [frames EXCEPT ![Root] = << >>]
    BY <1>4 DEF FailPar, NoFork
  <2>2. \A p \in Sections : p[1] = Root => ~ At(p).waiting
    BY <2>1 DEF LInv, InnermostWaits
  <2> QED
    BY <1>1, <2>1, <2>2, GoneLocks
<1> QED
  BY <1>2, <1>3, <1>4

LEMMA EnterMutexLocks ==
    ASSUME IInv, LInv, NEW t \in Tasks, EnterMutex(t) PROVE LInv'
<1> DEFINE n == Len(frames[t])
           entered == [Top(t) EXCEPT !.waiting = FALSE]
           after == [frames[t] EXCEPT ![n] = entered]
<1>1. /\ Typed /\ UNCHANGED <<fork, mutexes, open, requests>> /\ Waiting(t)
      /\ Top(t).prior \notin open
      /\ frames' = [frames EXCEPT ![t][n].waiting = FALSE]
  BY DEF IInv, EnterMutex, envVars
<1>2. /\ n \in DOMAIN frames[t] /\ n \in Nat /\ Top(t) = frames[t][n] /\ Top(t) \in FrameSet
      /\ Top(t).kind = "mutex" /\ frames[t] \in Seq(FrameSet) /\ n \in 1..Len(frames[t])
      /\ DOMAIN frames[t] = 1..Len(frames[t])
  BY <1>1, FramesOf DEF Waiting, Top
<1>3. /\ entered.kind = "mutex" /\ entered.name = Top(t).name /\ entered.request = Top(t).request
      /\ entered.prior = Top(t).prior /\ entered.waiting = FALSE /\ entered \in FrameSet
  BY <1>2 DEF FrameSet
<1>4. frames' = [frames EXCEPT ![t] = after]
  BY <1>1, <1>2 DEF Typed
<1> HIDE DEF entered
<1>5. /\ after \in Seq(FrameSet) /\ Len(after) = Len(frames[t])
      /\ \A i \in 1..Len(frames[t]) : after[i] = IF i = n THEN entered ELSE frames[t][i]
  BY <1>2, <1>3, ExceptSeq
<1>6. DOMAIN after = DOMAIN frames[t]
  BY <1>2, <1>5, LenProperties
<1> HIDE DEF after
<1>7. PICK q : q = <<t, n>>
  OBVIOUS
<1>8. q \in Tasks \X Nat /\ q[1] = t /\ q[2] = n
  BY <1>2, <1>7
<1>9. q \in Sections /\ At(q) = Top(t)
  BY <1>2, <1>8 DEF Sections, At
<1>10. frames'[t] = after /\ \A u \in Tasks : u # t => frames'[u] = frames[u]
  BY <1>1, <1>4 DEF Typed
<1>11. At(q)' = entered
  BY <1>2, <1>5, <1>8, <1>10 DEF At
<1>12. ASSUME NEW p \in Tasks \X Nat
       PROVE  /\ p \in Sections' <=> p \in Sections
              /\ p \in Sections /\ p # q => At(p)' = At(p)
  <2>1. CASE p[1] # t
    <3>1. frames'[p[1]] = frames[p[1]]
      BY <1>10, <2>1, PairOf
    <3> QED
      BY <3>1 DEF Sections, At
  <2>2. CASE p[1] = t
    <3>1. frames'[p[1]] = after
      BY <1>10, <2>2
    <3>2. CASE p[2] = n
      <4>1. p = q
        BY <1>7, <2>2, <3>2, PairOf
      <4>2. after[n].kind = "mutex" /\ n \in DOMAIN after
        BY <1>2, <1>3, <1>5, <1>6
      <4>3. p \in Sections'
        BY <2>2, <3>1, <3>2, <4>2 DEF Sections
      <4> QED
        BY <1>9, <4>1, <4>3
    <3>3. CASE p[2] # n
      <4>1. p[2] \in DOMAIN frames[t] => after[p[2]] = frames[t][p[2]]
        BY <1>2, <1>5, <3>3
      <4> QED
        BY <1>6, <2>2, <3>1, <4>1 DEF Sections, At
    <3> QED
      BY <3>2, <3>3
  <2> QED
    BY <2>1, <2>2
<1>13. Sections' = Sections /\ \A p \in Sections : p # q => At(p)' = At(p)
  BY <1>12 DEF Sections
<1>14. Locks'
  <2>1. /\ At(q)'.name = At(q).name /\ At(q)'.request = At(q).request
        /\ At(q)'.prior = At(q).prior /\ At(q)'.waiting = FALSE /\ At(q).prior \notin open
    BY <1>1, <1>3, <1>9, <1>11
  <2> QED
    BY <1>1, <1>9, <1>13, <2>1, LocksEntered DEF LInv
<1>15. InnermostWaits'
  <2>1. \A u \in Tasks : Len(frames'[u]) = Len(frames[u])
    BY <1>5, <1>10
  <2>2. ASSUME NEW p \in Sections, At(p)'.waiting
        PROVE  p[2] = Len(frames'[p[1]]) /\ (p[1] = Root => fork' = NoFork)
    <3>1. p # q
      BY <1>3, <1>11, <2>2
    <3>2. At(p).waiting /\ p[1] \in Tasks
      BY <1>13, <2>2, <3>1, SectionsAre, PairOf
    <3> QED
      BY <1>1, <2>1, <3>2 DEF LInv, InnermostWaits
  <2> QED
    BY <1>13, <2>2 DEF InnermostWaits
<1> QED
  BY <1>14, <1>15 DEF LInv

-----------------------------------------------------------------------------
(* The theorem.                                                            *)

LEMMA InitLInv == Init => LInv
<1> SUFFICES ASSUME Init PROVE LInv
  OBVIOUS
<1>1. Sections = {}
  <2>1. \A t \in Tasks : DOMAIN frames[t] = {}
    BY DEF Init
  <2> QED
    BY <2>1, PairOf DEF Sections
<1>2. \A n \in Names : mutexes[n] = NoRequest
  BY DEF Init
<1> QED
  BY <1>1, <1>2 DEF LInv, Locks, RequestsSound, Chained, TableExact, InnermostWaits

LEMMA StepLInv == IInv /\ LInv /\ [Next]_vars => LInv'
<1> SUFFICES ASSUME IInv, LInv, [Next]_vars PROVE LInv'
  OBVIOUS
<1>1. Typed
  BY DEF IInv
<1>2. ASSUME NEW t \in Tasks, Task(t) PROVE LInv'
  <2>1. CASE NewState(t) \/ ChangeState(t) \/ NewSpace(t) \/ AddAtom(t) \/ RemoveAtom(t)
             \/ \E m \in Modules : Import(t, m)
    <3>1. UNCHANGED <<frames, mutexes, open, requests, fork>>
      BY <2>1 DEF NewState, ChangeState, NewSpace, AddAtom, RemoveAtom, Import, envVars
    <3> QED
      BY <1>1, <3>1, FramesStay
  <2>2. CASE BeginTransaction(t) \/ RequestMutex(t) \/ EndTransaction(t) \/ EnterMutex(t) \/ LeaveMutex(t)
    BY <2>2, BeginTransactionLocks, RequestMutexLocks, EndTransactionLocks, EnterMutexLocks,
       LeaveMutexLocks
  <2>3. CASE Throw(t) \/ Cancel(t)
    BY <2>3, LeavingLocks
  <2>4. CASE Finish(t)
    <3>1. UNCHANGED <<frames, mutexes, open, requests>> /\ (fork = NoFork => fork' = NoFork)
      BY <2>4 DEF Finish, envVars, NoFork
    <3> QED
      BY <1>1, <3>1, FramesStay
  <2> QED
    BY <1>2, <2>1, <2>2, <2>3, <2>4 DEF Task, Effect
<1>3. CASE Fork
  <2>1. UNCHANGED <<frames, mutexes, open, requests>> /\ ~ Waiting(Root)
    BY <1>3 DEF Fork, Runs, envVars
  <2> QED
    BY <1>1, <2>1, FramesStay
<1>4. CASE JoinPar \/ JoinRace
  <2>1. UNCHANGED <<frames, mutexes, open, requests>> /\ fork' = NoFork
    BY <1>4 DEF JoinPar, JoinRace, envVars
  <2> QED
    BY <1>1, <2>1, FramesStay
<1>5. CASE FailPar
  BY <1>5, LeavingLocks, RootIsTask
<1>6. CASE UNCHANGED vars
  <2>1. UNCHANGED <<frames, mutexes, open, requests, fork>>
    BY <1>6 DEF vars, envVars
  <2> QED
    BY <1>1, <2>1, FramesStay
<1> QED
  BY <1>2, <1>3, <1>4, <1>5, <1>6 DEF Next

\* One body of a lock name runs at a time, whatever branches throw, lose their race or are
\* abandoned, and the table has an entry for a name exactly while a section of it is left.
THEOREM MutexesExclude == Spec => []LocksExact
<1>1. LInv /\ Typed => LocksExact
  <2> SUFFICES ASSUME LInv, Typed PROVE LocksExact
    OBVIOUS
  <2>1. MutualExclusion
    <3> SUFFICES ASSUME NEW s \in Tasks, NEW t \in Tasks,
                        NEW i \in DOMAIN frames[s], NEW j \in DOMAIN frames[t],
                        IsBody(frames[s][i]), IsBody(frames[t][j]),
                        frames[s][i].name = frames[t][j].name
                 PROVE  s = t /\ i = j
      BY DEF MutualExclusion
    <3>1. PICK p, q : p = <<s, i>> /\ q = <<t, j>>
      OBVIOUS
    <3>2. p \in Tasks \X Nat /\ q \in Tasks \X Nat /\ p[1] = s /\ p[2] = i /\ q[1] = t /\ q[2] = j
      BY <3>1, FramesOf
    <3>3. /\ p \in Sections /\ q \in Sections /\ ~ At(p).waiting /\ ~ At(q).waiting
          /\ At(p).name = At(q).name
      BY <3>2 DEF Sections, At, IsBody
    <3>4. ~ (At(p).request < At(q).request) /\ ~ (At(q).request < At(p).request)
      BY <3>3 DEF LInv, Locks, Chained
    <3>5. \A o \in Sections : At(o).request \in Nat
      BY DEF LInv, Locks, RequestsSound
    <3>6. At(p).request = At(q).request
      BY <3>3, <3>4, <3>5
    <3>7. p = q
      BY <3>3, <3>6 DEF LInv, Locks, RequestsSound
    <3> QED
      BY <3>2, <3>7
  <2>2. LocksInUse
    <3> SUFFICES ASSUME NEW n \in Names
                 PROVE  mutexes[n] # NoRequest <=> \E t \in Tasks : \E f \in Bodies(t) : f.name = n
      BY DEF LocksInUse
    <3>1. mutexes[n] # NoRequest <=> \E p \in Sections : At(p).name = n
      BY DEF LInv, Locks, TableExact
    <3>2. ASSUME NEW p \in Sections, At(p).name = n
          PROVE  \E t \in Tasks : \E f \in Bodies(t) : f.name = n
      <4>1. p[1] \in Tasks /\ p[2] \in DOMAIN frames[p[1]] /\ frames[p[1]][p[2]].kind = "mutex"
        BY DEF Sections
      <4>2. At(p) \in Bodies(p[1])
        BY <4>1 DEF Bodies, At
      <4> QED
        BY <3>2, <4>1, <4>2
    <3>3. ASSUME NEW t \in Tasks, NEW f \in Bodies(t), f.name = n
          PROVE  \E p \in Sections : At(p).name = n
      <4>1. PICK i \in DOMAIN frames[t] : frames[t][i].kind = "mutex" /\ f = frames[t][i]
        BY <3>3 DEF Bodies
      <4>2. PICK p : p = <<t, i>>
        OBVIOUS
      <4>3. p \in Tasks \X Nat /\ p[1] = t /\ p[2] = i
        BY <4>1, <4>2, FramesOf
      <4>4. p \in Sections /\ At(p) = f
        BY <4>1, <4>3 DEF Sections, At
      <4> QED
        BY <3>3, <4>4
    <3> QED
      BY <3>1, <3>2, <3>3
  <2> QED
    BY <2>1, <2>2 DEF LocksExact
<1>2. IInv => Typed
  BY DEF IInv
<1> QED
  BY <1>1, <1>2, Invariant, InitLInv, StepLInv, PTL DEF Spec

-----------------------------------------------------------------------------
(* Type correctness, which rests on both invariants.                       *)

Phases == {"unused", "running", "results", "empty", "threw", "cancelled"}

\* The parts of the type invariant no other invariant speaks of.
RestTyped ==
    /\ control \in [Tasks -> Phases]
    /\ open \subseteq 1..requests
    /\ loaded \subseteq Modules
    /\ aborted \subseteq 1..Branch

LEMMA RestStep == Typed /\ RestTyped /\ [Next]_vars => RestTyped'
<1> SUFFICES ASSUME Typed, RestTyped, [Next]_vars PROVE RestTyped'
  OBVIOUS
<1>1. requests \in Nat /\ Root \in Tasks
  BY RootIsTask DEF Typed
<1>2. ASSUME NEW t \in Tasks, Task(t) PROVE RestTyped'
  <2>1. CASE NewState(t) \/ ChangeState(t) \/ NewSpace(t) \/ AddAtom(t) \/ RemoveAtom(t)
             \/ BeginTransaction(t) \/ EndTransaction(t) \/ EnterMutex(t)
    <3>1. UNCHANGED <<control, open, requests, loaded, aborted>>
      BY <2>1 DEF NewState, ChangeState, NewSpace, AddAtom, RemoveAtom, BeginTransaction,
                  EndTransaction, EnterMutex, envVars
    <3> QED
      BY <3>1 DEF RestTyped
  <2>2. CASE \E m \in Modules : Import(t, m)
    BY <2>2 DEF RestTyped, Import, Marked
  <2>3. CASE RequestMutex(t)
    <3>1. UNCHANGED <<control, loaded, aborted>> /\ requests' = requests + 1
          /\ open' = open \cup {requests + 1}
      BY <2>3 DEF RequestMutex
    <3>2. open' \subseteq 1..requests'
      BY <1>1, <3>1 DEF RestTyped
    <3> QED
      BY <3>1, <3>2 DEF RestTyped
  <2>4. CASE LeaveMutex(t)
    BY <2>4 DEF RestTyped, LeaveMutex, Release
  <2>5. CASE Throw(t) \/ Cancel(t)
    <3>1. UNCHANGED <<loaded, aborted, requests>> /\ open' \subseteq open
      BY <2>5 DEF Throw, Cancel, Release, envVars
    <3>2. control' \in [Tasks -> Phases]
      BY <2>5 DEF Throw, Cancel, RestTyped, Phases
    <3> QED
      BY <3>1, <3>2 DEF RestTyped
  <2>6. CASE Finish(t)
    BY <2>6 DEF Finish, RestTyped, Phases, envVars
  <2> QED
    BY <1>2, <2>1, <2>2, <2>3, <2>4, <2>5, <2>6 DEF Task, Effect
<1>3. CASE Fork
  <2>1. UNCHANGED <<open, requests, loaded, aborted>>
    BY <1>3 DEF Fork, envVars
  <2>2. \E new : control' = [t \in Tasks |-> IF t \in new THEN "running" ELSE control[t]]
    BY <1>3 DEF Fork
  <2>3. control' \in [Tasks -> Phases]
    BY <2>2 DEF RestTyped, Phases
  <2> QED
    BY <2>1, <2>3 DEF RestTyped
<1>4. CASE JoinPar
  BY <1>4 DEF JoinPar, RestTyped, envVars
<1>5. CASE FailPar
  <2>1. UNCHANGED <<loaded, aborted, requests>> /\ open' \subseteq open
    BY <1>5 DEF FailPar, Release
  <2>2. control' \in [Tasks -> Phases]
    BY <1>1, <1>5 DEF FailPar, RestTyped, Phases
  <2> QED
    BY <2>1, <2>2 DEF RestTyped
<1>6. CASE JoinRace
  <2>1. Branches(fork) \subseteq 1..Branch
    <3>1. fork.branches \in Seq(1..Branch)
      BY DEF Typed, ForkSet
    <3> QED
      BY <3>1, ElementOfSeq, LenProperties DEF Branches
  <2> QED
    BY <1>6, <2>1 DEF JoinRace, RestTyped, envVars
<1>7. CASE UNCHANGED vars
  BY <1>7 DEF vars, envVars, RestTyped
<1> QED
  BY <1>2, <1>3, <1>4, <1>5, <1>6, <1>7 DEF Next

LEMMA TypeOfParts == IInv /\ LInv /\ RestTyped => TypeOK
<1> SUFFICES ASSUME IInv, LInv, RestTyped PROVE TypeOK
  OBVIOUS
<1>1. Typed /\ VersionsSound
  BY DEF IInv
<1>2. \A t \in Tasks : state[t].counter \in Nat
  BY StateOf
<1>3. ASSUME NEW w \in LiveWorlds
      PROVE  /\ w.self \in [Atoms -> Nat] /\ w.removed \subseteq Static
             /\ \A id \in DOMAIN w.spaces : w.spaces[id] \in [Atoms -> Nat]
             /\ \A id \in DOMAIN w.cells : w.cells[id] \in Nat
             /\ w.version \in 0..clock
  <2>1. w \in WorldSet
    BY <1>1, WorldsTyped
  <2>2. w.spaces \in SpaceMaps /\ w.cells \in CellMaps /\ w.version \in Nat
    BY <2>1 DEF WorldSet
  <2>3. w.version <= clock /\ clock \in Nat
    BY <1>1 DEF VersionsSound, Typed
  <2>4. w.version \in 0..clock
    BY <2>2, <2>3
  <2>5. /\ \A id \in DOMAIN w.spaces : w.spaces[id] \in Bags
        /\ \A id \in DOMAIN w.cells : w.cells[id] \in Nat
    BY <2>2, MapFacts
  <2> QED
    BY <2>1, <2>4, <2>5 DEF WorldSet, Bags
<1>4. ASSUME NEW t \in Tasks, NEW i \in DOMAIN frames[t] PROVE frames[t][i] \in Frame
  <2>1. frames[t][i] \in FrameSet /\ i \in Nat
    BY <1>1, FramesOf
  <2>2. CASE frames[t][i].kind = "transaction"
    <3>1. frames[t][i].before.world \in LiveWorlds
      BY <1>1, <2>2, Live DEF OldSnapshots
    <3>2. frames[t][i] \in [kind : {"transaction"}, before : States]
      BY <2>1, <2>2 DEF FrameSet
    <3>3. frames[t][i].before \in [counter : Nat, world : {World(u) : u \in Tasks} \cup LiveWorlds]
      BY <3>1, <3>2 DEF States
    <3>4. frames[t][i] \in [kind : {"transaction"},
                            before : [counter : Nat, world : {World(u) : u \in Tasks} \cup LiveWorlds]]
      BY <3>2, <3>3
    <3> QED
      BY <3>4 DEF Frame
  <2>3. CASE frames[t][i].kind = "mutex"
    <3>1. PICK p : p = <<t, i>>
      OBVIOUS
    <3>2. p \in Sections /\ At(p) = frames[t][i]
      BY <2>1, <2>3, <3>1 DEF Sections, At
    <3>3. /\ At(p).request \in 1..requests /\ At(p).prior \in Nat /\ At(p).prior < At(p).request
          /\ requests \in Nat
      BY <1>1, <3>2 DEF LInv, Locks, RequestsSound, Typed
    <3>4. At(p).prior \in 0..requests
      BY <3>3
    <3>5. frames[t][i] \in [kind : {"mutex"}, name : Names, request : Nat, prior : Nat, waiting : BOOLEAN]
      BY <2>1, <2>3 DEF FrameSet
    <3> QED
      BY <3>2, <3>3, <3>4, <3>5 DEF Frame
  <2> QED
    BY <2>1, <2>2, <2>3 DEF FrameSet
<1>5. mutexes \in [Names -> 0..requests]
  <2>1. mutexes \in [Names -> Nat] /\ requests \in Nat
    BY <1>1 DEF Typed
  <2>2. ASSUME NEW n \in Names PROVE mutexes[n] \in 0..requests
    <3>1. CASE mutexes[n] = NoRequest
      BY <2>1, <3>1 DEF NoRequest
    <3>2. CASE mutexes[n] # NoRequest
      <4>1. PICK p \in Sections : At(p).request = mutexes[n]
        BY <3>2 DEF LInv, Locks, TableExact
      <4>2. At(p).request \in 1..requests
        BY DEF LInv, Locks, RequestsSound
      <4> QED
        BY <2>1, <4>1, <4>2
    <3> QED
      BY <3>1, <3>2
  <2> QED
    BY <2>1, <2>2
<1> QED
  BY <1>2, <1>3, <1>4, <1>5 DEF TypeOK, RestTyped, Phases

LEMMA RestAlways == Spec => []RestTyped
<1>1. Init => RestTyped
  <2>1. ASSUME Init PROVE control \in [Tasks -> Phases]
    BY <2>1 DEF Init, Phases
  <2> QED
    BY <2>1 DEF Init, RestTyped
<1>2. IInv => Typed
  BY DEF IInv
<1> QED
  BY <1>1, <1>2, Invariant, RestStep, PTL DEF Spec

\* Worlds, counters, forms and the lock table keep their types, and no world is newer than
\* the version counter, whatever the branches do.
THEOREM TypeCorrect == Spec => []TypeOK
BY Invariant, RestAlways, InitLInv, StepLInv, TypeOfParts, PTL DEF Spec

-----------------------------------------------------------------------------
(* Worlds grow out of one another.                                         *)

\* No space, cell or tombstone of v is missing in w.
Retains(v, w) ==
    /\ DOMAIN v.spaces \subseteq DOMAIN w.spaces /\ DOMAIN v.cells \subseteq DOMAIN w.cells
    /\ v.removed \subseteq w.removed

\* Besides, &self has no more of any atom but these.
Continues(v, w, atoms) == Retains(v, w) /\ \A a \in Atoms \ atoms : w.self[a] <= v.self[a]

\* Each world a task may read from after the step continues one it could read from before.
TasksContinue(atoms) ==
    \A t \in Tasks : \A w \in Own(t)' : \E v \in Own(t) : Continues(v, w, atoms)

LEMMA ContinuesItself ==
    \A v \in WorldSet : \A atoms : Continues(v, v, atoms)
<1>1. ASSUME NEW v \in WorldSet, NEW a \in Atoms PROVE v.self[a] <= v.self[a]
  BY DEF WorldSet, Bags
<1> QED
  BY <1>1 DEF Continues, Retains

\* A world that differs in its version, and in the other parts as said.
LEMMA EffectsContinue ==
    ASSUME NEW v \in WorldSet, NEW stamp \in Nat, NEW atoms
    PROVE  /\ Continues(v, [v EXCEPT !.version = stamp], atoms)
           /\ \A id \in Nat, value \in Nat : Continues(v, SetCell(v, id, value), atoms)
           /\ \A id \in Nat, bag \in Bags : Continues(v, AddSpace(v, id, bag, stamp), atoms)
           /\ \A s \in SpacesOf(v) : Continues(v, AppendSpace(v, s, atoms, stamp), atoms)
           /\ \A s \in SpacesOf(v), a \in Atoms : Continues(v, EraseSpace(v, s, a, stamp), atoms)
<1>1. /\ v.self \in [Atoms -> Nat] /\ \A a \in Atoms : v.self[a] \in Nat /\ v.self[a] <= v.self[a]
  BY DEF WorldSet, Bags
<1>2. ASSUME NEW w, Retains(v, w), w.self = v.self PROVE Continues(v, w, atoms)
  BY <1>1, <1>2 DEF Continues
<1>3. Retains(v, [v EXCEPT !.version = stamp]) /\ [v EXCEPT !.version = stamp].self = v.self
  BY DEF Retains, WorldSet
<1>4. ASSUME NEW id \in Nat, NEW value \in Nat
      PROVE  Retains(v, SetCell(v, id, value)) /\ SetCell(v, id, value).self = v.self
  <2> DEFINE cells == Put(v.cells, id, value)
  <2>1. DOMAIN v.cells \subseteq DOMAIN cells
    BY DEF Put
  <2>2. SetCell(v, id, value) = [v EXCEPT !.cells = cells]
    BY DEF SetCell
  <2> HIDE DEF cells
  <2> QED
    BY <2>1, <2>2 DEF Retains, WorldSet
<1>5. ASSUME NEW id \in Nat, NEW bag \in Bags
      PROVE  Retains(v, AddSpace(v, id, bag, stamp)) /\ AddSpace(v, id, bag, stamp).self = v.self
  <2> DEFINE spaces == Put(v.spaces, id, bag)
  <2>1. DOMAIN v.spaces \subseteq DOMAIN spaces
    BY DEF Put
  <2>2. AddSpace(v, id, bag, stamp) = [v EXCEPT !.spaces = spaces, !.version = stamp]
    BY DEF AddSpace
  <2> HIDE DEF spaces
  <2> QED
    BY <2>1, <2>2 DEF Retains, WorldSet
<1>6. ASSUME NEW s \in SpacesOf(v) PROVE Continues(v, AppendSpace(v, s, atoms, stamp), atoms)
  <2> DEFINE plus(bag) == [a \in Atoms |-> bag[a] + IF a \in atoms THEN 1 ELSE 0]
  <2>1. CASE s = Self
    <3> DEFINE bag == plus(v.self)
    <3>1. \A a \in Atoms \ atoms : bag[a] <= v.self[a]
      BY <1>1
    <3>2. AppendSpace(v, s, atoms, stamp) = [v EXCEPT !.self = bag, !.version = stamp]
      BY <2>1 DEF AppendSpace
    <3> HIDE DEF bag
    <3> QED
      BY <3>1, <3>2 DEF Continues, Retains, WorldSet
  <2>2. CASE s # Self
    <3> DEFINE spaces == [v.spaces EXCEPT ![s] = plus(v.spaces[s])]
    <3>1. DOMAIN spaces = DOMAIN v.spaces
      OBVIOUS
    <3>2. AppendSpace(v, s, atoms, stamp) = [v EXCEPT !.spaces = spaces, !.version = stamp]
      BY <2>2 DEF AppendSpace
    <3> HIDE DEF spaces
    <3>3. Retains(v, AppendSpace(v, s, atoms, stamp)) /\ AppendSpace(v, s, atoms, stamp).self = v.self
      BY <3>1, <3>2 DEF Retains, WorldSet
    <3> QED
      BY <1>2, <3>3
  <2> QED
    BY <2>1, <2>2
<1>7. ASSUME NEW s \in SpacesOf(v), NEW a \in Atoms
      PROVE  Continues(v, EraseSpace(v, s, a, stamp), atoms)
  <2>1. CASE s = Self /\ v.self[a] > 0
    <3> DEFINE bag == [v.self EXCEPT ![a] = @ - 1]
    <3>1. EraseSpace(v, s, a, stamp) = [v EXCEPT !.version = stamp, !.self = bag]
      BY <2>1 DEF EraseSpace, WorldSet
    <3>2. \A b \in Atoms : bag[b] <= v.self[b]
      BY <1>1
    <3> HIDE DEF bag
    <3> QED
      BY <3>1, <3>2 DEF Continues, Retains, WorldSet
  <2>2. CASE s = Self /\ ~ (v.self[a] > 0)
    <3> DEFINE removed == v.removed \cup ({a} \cap Static)
    <3>1. EraseSpace(v, s, a, stamp) = [v EXCEPT !.version = stamp, !.removed = removed]
      BY <1>1, <2>2 DEF EraseSpace, WorldSet
    <3>2. v.removed \subseteq removed
      OBVIOUS
    <3> HIDE DEF removed
    <3>3. Retains(v, EraseSpace(v, s, a, stamp)) /\ EraseSpace(v, s, a, stamp).self = v.self
      BY <3>1, <3>2 DEF Retains, WorldSet
    <3> QED
      BY <1>2, <3>3
  <2>3. CASE s # Self
    <3> DEFINE bag == [v.spaces[s] EXCEPT ![a] = IF @ > 0 THEN @ - 1 ELSE 0]
               spaces == [v.spaces EXCEPT ![s] = bag]
    <3>1. DOMAIN spaces = DOMAIN v.spaces
      OBVIOUS
    <3>2. EraseSpace(v, s, a, stamp) = [v EXCEPT !.version = stamp, !.spaces = spaces]
      BY <2>3 DEF EraseSpace, WorldSet
    <3> HIDE DEF spaces
    <3>3. Retains(v, EraseSpace(v, s, a, stamp)) /\ EraseSpace(v, s, a, stamp).self = v.self
      BY <3>1, <3>2 DEF Retains, WorldSet
    <3> QED
      BY <1>2, <3>3
  <2> QED
    BY <2>1, <2>2, <2>3
<1> QED
  BY <1>2, <1>3, <1>4, <1>5, <1>6, <1>7

\* The snapshots of a task after a step are worlds it had.
LEMMA SnapshotsStay ==
    ASSUME IInv, [Next]_vars PROVE OldSnapshots(frames')
<1>1. Typed /\ OldSnapshots(frames) /\ Root \in Tasks
  BY Live, RootIsTask DEF IInv
<1>2. ASSUME NEW t \in Tasks, Task(t) PROVE OldSnapshots(frames')
  <2>1. CASE UNCHANGED frames
    BY <1>1, <2>1
  <2>2. CASE BeginTransaction(t)
    <3> DEFINE frame == [kind |-> "transaction", before |-> state[t]]
    <3>1. state[t] \in States /\ state[t].world \in Own(t)
      BY <1>1, Live DEF Typed, World
    <3>2. frame \in FrameSet /\ (frame.kind = "transaction" => frame.before.world \in Own(t))
      BY <3>1 DEF FrameSet
    <3>3. frames' = Pushed(t, frame)
      BY <2>2 DEF BeginTransaction
    <3> HIDE DEF frame
    <3> QED
      BY <1>1, <3>2, <3>3, PushedTyped
  <2>3. CASE RequestMutex(t)
    <3>1. PICK n \in Names :
            frames' = Pushed(t, [kind |-> "mutex", name |-> n, request |-> requests + 1,
                                 prior |-> mutexes[n], waiting |-> TRUE])
      BY <2>3 DEF RequestMutex
    <3> DEFINE frame == [kind |-> "mutex", name |-> n, request |-> requests + 1,
                         prior |-> mutexes[n], waiting |-> TRUE]
    <3>2. mutexes[n] \in Nat /\ requests + 1 \in Nat
      BY <1>1 DEF Typed
    <3>3. frame \in FrameSet /\ frame.kind # "transaction" /\ frames' = Pushed(t, frame)
      BY <3>1, <3>2 DEF FrameSet
    <3> HIDE DEF frame
    <3> QED
      BY <1>1, <3>3, PushedTyped
  <2>4. CASE EndTransaction(t) \/ LeaveMutex(t)
    BY <1>1, <2>4, PoppedTyped DEF EndTransaction, LeaveMutex
  <2>5. CASE EnterMutex(t)
    BY <1>1, <2>5, EnteredTyped DEF EnterMutex
  <2>6. CASE Throw(t) \/ Cancel(t)
    BY <1>1, <2>6, EmptiedTyped DEF Throw, Cancel
  <2>7. NewState(t) \/ ChangeState(t) \/ NewSpace(t) \/ AddAtom(t) \/ RemoveAtom(t) \/ Finish(t)
          \/ (\E m \in Modules : Import(t, m)) => UNCHANGED frames
    BY DEF NewState, ChangeState, NewSpace, AddAtom, RemoveAtom, Finish, Import
  <2> QED
    BY <1>2, <2>1, <2>2, <2>3, <2>4, <2>5, <2>6, <2>7 DEF Task, Effect
<1>3. CASE FailPar
  BY <1>1, <1>3, EmptiedTyped DEF FailPar
<1>4. CASE Fork \/ JoinPar \/ JoinRace \/ UNCHANGED vars
  <2>1. UNCHANGED frames
    BY <1>4 DEF Fork, JoinPar, JoinRace, vars
  <2> QED
    BY <1>1, <2>1
<1> QED
  BY <1>2, <1>3, <1>4 DEF Next

\* A step changes the world of the task that takes it, which runs; the fork keeps its branches.
LEMMA OthersStay ==
    ASSUME IInv, NEW t \in Tasks, Task(t)
    PROVE  /\ \A u \in Tasks : u # t => World(u)' = World(u)
           /\ Runs(t) \/ World(t)' = World(t)
           /\ fork'.branches = fork.branches /\ fork'.kind = fork.kind
<1>1. state \in [Tasks -> States] /\ fork \in ForkSet
  BY DEF IInv, Typed
<1>2. ASSUME NEW s, state' = [state EXCEPT ![t] = s] PROVE \A u \in Tasks : u # t => World(u)' = World(u)
  BY <1>1, <1>2 DEF World
<1>3. ASSUME NEW w, Become(t, w) PROVE \A u \in Tasks : u # t => World(u)' = World(u)
  BY <1>1, <1>3 DEF World, Become
<1>4. ASSUME NEW w, Allocate(t, w) PROVE \A u \in Tasks : u # t => World(u)' = World(u)
  BY <1>1, <1>4 DEF World, Allocate
<1>5. ASSUME UNCHANGED state PROVE \A u \in Tasks : World(u)' = World(u)
  BY <1>5 DEF World
<1>6. CASE Effect(t) \/ EndTransaction(t)
  <2>1. Runs(t)
    BY <1>6 DEF Effect, EndTransaction, NewState, ChangeState, NewSpace, AddAtom, RemoveAtom, Import,
                BeginTransaction, RequestMutex, Acts
  <2>2. fork' = fork
    BY <1>6 DEF Effect, EndTransaction, NewState, ChangeState, NewSpace, AddAtom, RemoveAtom, Import,
                BeginTransaction, RequestMutex
  <2>3. \/ (\E w : Become(t, w)) \/ (\E w : Allocate(t, w)) \/ UNCHANGED state
        \/ \E s : state' = [state EXCEPT ![t] = s]
    <3>1. CASE NewState(t) \/ NewSpace(t)
      BY <3>1 DEF NewState, NewSpace
    <3>2. CASE ChangeState(t) \/ AddAtom(t) \/ RemoveAtom(t)
      BY <3>2 DEF ChangeState, AddAtom, RemoveAtom
    <3>3. CASE \E m \in Modules : Import(t, m)
      BY <3>3 DEF Import
    <3>4. CASE BeginTransaction(t) \/ RequestMutex(t)
      BY <3>4 DEF BeginTransaction, RequestMutex
    <3>5. CASE EndTransaction(t)
      BY <3>5 DEF EndTransaction
    <3> QED
      BY <1>6, <3>1, <3>2, <3>3, <3>4, <3>5 DEF Effect
  <2> QED
    BY <1>2, <1>3, <1>4, <1>5, <2>1, <2>2, <2>3
<1>7. CASE EnterMutex(t) \/ LeaveMutex(t) \/ Throw(t) \/ Cancel(t)
  <2>1. UNCHANGED <<state, fork>>
    BY <1>7 DEF EnterMutex, LeaveMutex, Throw, Cancel
  <2> QED
    BY <1>5, <2>1
<1>8. CASE Finish(t)
  <2>1. UNCHANGED state /\ (fork' = fork \/ fork' = [fork EXCEPT !.winner = t])
    BY <1>8 DEF Finish
  <2>2. fork'.branches = fork.branches /\ fork'.kind = fork.kind
    BY <1>1, <2>1 DEF ForkSet
  <2> QED
    BY <1>5, <2>1, <2>2
<1> QED
  BY <1>6, <1>7, <1>8 DEF Task

LEMMA OneContinues ==
    ASSUME IInv, OldSnapshots(frames'), NEW t \in Tasks, NEW atoms,
           \A u \in Tasks : u # t => World(u)' = World(u),
           NEW v \in Own(t), Continues(v, World(t)', atoms)
    PROVE  TasksContinue(atoms)
<1>1. LiveWorlds \subseteq WorldSet
  BY WorldsTyped DEF IInv
<1>2. ASSUME NEW u \in Tasks, NEW w \in Own(u)' PROVE \E x \in Own(u) : Continues(x, w, atoms)
  <2>1. CASE w \in Own(u)
    <3>1. w \in WorldSet
      BY <1>1, <2>1, Live
    <3> QED
      BY <2>1, <3>1, ContinuesItself
  <2>2. CASE w = World(u)'
    <3>1. CASE u = t
      BY <2>2, <3>1
    <3>2. CASE u # t
      <4>1. w \in Own(u)
        BY <2>2, <3>2, Live
      <4> QED
        BY <2>1, <4>1
    <3> QED
      BY <3>1, <3>2
  <2>3. CASE w \in Snapshots(u)'
    <3>1. PICK i \in DOMAIN frames'[u] : frames'[u][i].kind = "transaction" /\ w = frames'[u][i].before.world
      BY <2>3 DEF Snapshots
    <3>2. w \in Own(u)
      BY <3>1 DEF OldSnapshots
    <3> QED
      BY <2>1, <3>2
  <2> QED
    BY <1>2, <2>2, <2>3 DEF Own
<1> QED
  BY <1>2 DEF TasksContinue

\* Only an import brings atoms the program does not add, and only the first one of its module.
LEMMA TaskContinues ==
    ASSUME IInv, NEW t \in Tasks, Task(t)
    PROVE  /\ (\A m \in Modules : Import(t, m) => m \in loaded) => TasksContinue(Added)
           /\ \A m \in Modules : Import(t, m) /\ m \notin loaded => TasksContinue(Defs[m])
<1>1. OldSnapshots(frames') /\ \A u \in Tasks : u # t => World(u)' = World(u)
  BY SnapshotsStay, OthersStay DEF Next
<1>2. /\ World(t) \in WorldSet /\ World(t) \in Own(t) /\ state \in [Tasks -> States]
      /\ SpacesOf(World(t)) = Spaces(t) /\ state[t].counter \in Nat /\ Stamp \in Nat
  <2>1. Stamp \in Nat /\ state \in [Tasks -> States]
    BY DEF IInv, Typed, Stamp
  <2> QED
    BY <2>1, StateOf, Live
<1>3. ASSUME NEW w, Become(t, w) PROVE World(t)' = w
  BY <1>2, <1>3 DEF Become, World, States
<1>4. ASSUME NEW w, Allocate(t, w) PROVE World(t)' = w
  BY <1>2, <1>4 DEF Allocate, World, States
<1>5. ASSUME NEW w, NEW atoms, Continues(World(t), w, atoms), World(t)' = w PROVE TasksContinue(atoms)
  BY <1>1, <1>2, <1>5, OneContinues
<1>6. ASSUME UNCHANGED state PROVE TasksContinue(Added)
  BY <1>2, <1>5, <1>6, ContinuesItself DEF World
<1>7. ASSUME NEW m \in Modules, Import(t, m), m \notin loaded PROVE TasksContinue(Defs[m])
  <2>1. Become(t, AppendSpace(World(t), Self, Defs[m], Stamp)) /\ Self \in SpacesOf(World(t))
    BY <1>7 DEF Import, SpacesOf
  <2>2. Continues(World(t), AppendSpace(World(t), Self, Defs[m], Stamp), Defs[m])
    BY <1>2, <2>1, EffectsContinue
  <2> QED
    BY <1>3, <1>5, <2>1, <2>2
<1>8. ASSUME \A m \in Modules : Import(t, m) => m \in loaded PROVE TasksContinue(Added)
  <2>1. CASE NewState(t)
    <3>1. Continues(World(t), SetCell(World(t), state[t].counter, 0), Added)
      BY <1>2, EffectsContinue
    <3> QED
      BY <1>4, <1>5, <2>1, <3>1 DEF NewState
  <2>2. CASE ChangeState(t)
    <3>1. PICK id \in DOMAIN World(t).cells : Become(t, SetCell(World(t), id, World(t).cells[id] + 1))
      BY <2>2 DEF ChangeState
    <3>2. id \in Nat /\ World(t).cells[id] + 1 \in Nat
      <4>1. World(t).cells \in CellMaps
        BY <1>2 DEF WorldSet
      <4>2. id \in Nat /\ World(t).cells[id] \in Nat
        BY <3>1, <4>1, MapFacts
      <4> QED
        BY <4>2
    <3>3. Continues(World(t), SetCell(World(t), id, World(t).cells[id] + 1), Added)
      BY <1>2, <3>2, EffectsContinue
    <3> QED
      BY <1>3, <1>5, <3>1, <3>3
  <2>3. CASE NewSpace(t)
    <3>1. PICK bag \in {EmptyBag} \cup {Visible(World(t), s) : s \in Spaces(t)} :
            Allocate(t, AddSpace(World(t), state[t].counter, bag, Stamp))
      BY <2>3 DEF NewSpace
    <3>2. bag \in Bags
      BY <1>2, <3>1, VisibleTyped, NewWorldTyped
    <3>3. Continues(World(t), AddSpace(World(t), state[t].counter, bag, Stamp), Added)
      BY <1>2, <3>2, EffectsContinue
    <3> QED
      BY <1>4, <1>5, <3>1, <3>3
  <2>4. CASE AddAtom(t)
    <3>1. PICK s \in Spaces(t), a \in Added : Become(t, AppendSpace(World(t), s, {a}, Stamp))
      BY <2>4 DEF AddAtom
    <3>2. Continues(World(t), AppendSpace(World(t), s, {a}, Stamp), {a})
      BY <1>2, <3>1, EffectsContinue
    <3>3. Continues(World(t), AppendSpace(World(t), s, {a}, Stamp), Added)
      BY <3>1, <3>2 DEF Continues
    <3> QED
      BY <1>3, <1>5, <3>1, <3>3
  <2>5. CASE RemoveAtom(t)
    <3>1. PICK s \in Spaces(t), a \in Removed : Become(t, EraseSpace(World(t), s, a, Stamp))
      BY <2>5 DEF RemoveAtom
    <3>2. a \in Atoms
      BY <3>1, ProgramAssumption
    <3>3. Continues(World(t), EraseSpace(World(t), s, a, Stamp), Added)
      BY <1>2, <3>1, <3>2, EffectsContinue
    <3> QED
      BY <1>3, <1>5, <3>1, <3>3
  <2>6. CASE EndTransaction(t)
    <3>1. CASE Become(t, [World(t) EXCEPT !.version = Stamp])
      <4>1. Continues(World(t), [World(t) EXCEPT !.version = Stamp], Added)
        BY <1>2, EffectsContinue
      <4> QED
        BY <1>3, <1>5, <3>1, <4>1
    <3>2. CASE state' = [state EXCEPT ![t] = Kept(t, Top(t).before)]
      <4> DEFINE w == Top(t).before.world
      <4>1. /\ frames[t] # << >> /\ Top(t).kind = "transaction" /\ Top(t) \in FrameSet
            /\ Len(frames[t]) \in DOMAIN frames[t] /\ Top(t) = frames[t][Len(frames[t])]
        BY <2>6, FramesOf DEF EndTransaction, Top, IInv
      <4>2. w \in Own(t) /\ w \in WorldSet /\ Top(t).before \in States
        BY <4>1, Live DEF OldSnapshots, FrameSet, States
      <4>3. World(t)' = w
        BY <1>2, <3>2, <4>2 DEF Kept, World, States
      <4> HIDE DEF w
      <4>4. Continues(w, World(t)', Added)
        BY <4>2, <4>3, ContinuesItself
      <4> QED
        BY <1>1, <4>2, <4>4, OneContinues
    <3> QED
      BY <2>6, <3>1, <3>2 DEF EndTransaction
  <2>7. CASE \E m \in Modules : Import(t, m)
    BY <1>6, <1>8, <2>7 DEF Import
  <2>8. CASE BeginTransaction(t) \/ RequestMutex(t) \/ EnterMutex(t) \/ LeaveMutex(t) \/ Throw(t)
             \/ Finish(t) \/ Cancel(t)
    <3>1. UNCHANGED state
      BY <2>8 DEF BeginTransaction, RequestMutex, EnterMutex, LeaveMutex, Throw, Finish, Cancel
    <3> QED
      BY <1>6, <3>1
  <2> QED
    BY <2>1, <2>2, <2>3, <2>4, <2>5, <2>6, <2>7, <2>8 DEF Task, Effect
<1> QED
  BY <1>7, <1>8

-----------------------------------------------------------------------------
(* What a fork keeps.                                                      *)

\* A branch has what root has, and a task that was not forked yet has nothing to return to.
JoinsSound ==
    /\ \A t \in Tasks : control[t] = "unused" => frames[t] = << >>
    /\ fork.kind = "none" => fork.branches = << >>
    /\ fork.kind # "none" => Len(fork.branches) = Width
    /\ \A i, j \in DOMAIN fork.branches : fork.branches[i] = fork.branches[j] => i = j
    /\ \A b \in Branches(fork) : \A w \in Own(b) : Retains(World(Root), w)

LEMMA RetainsFurther ==
    \A u, v, w, atoms : Retains(u, v) /\ Continues(v, w, atoms) => Retains(u, w)
BY DEF Retains, Continues

\* A fork takes branches that were not used, one after the other, and gives them root's world.
LEMMA Forked ==
    ASSUME IInv, JoinsSound, Fork
    PROVE  /\ World(Root)' = World(Root)
           /\ fork'.kind # "none" /\ Len(fork'.branches) = Width /\ DOMAIN fork'.branches = 1..Width
           /\ \A i, j \in DOMAIN fork'.branches : fork'.branches[i] = fork'.branches[j] => i = j
           /\ \A b \in Branches(fork)' : \A w \in Own(b)' : w = World(Root)
           /\ \A w \in LiveWorlds' : w \in LiveWorlds
           /\ \A t \in Tasks : control'[t] = "unused" => control[t] = "unused"
<1>1. PICK kind \in {"par", "race"}, first \in 1..(Branch - Width + 1) :
        LET team == [i \in 1..Width |-> first + i - 1]
            new == {team[i] : i \in 1..Width}
        IN  /\ \A b \in 1..Branch : control[b] = "unused" <=> b >= first
            /\ fork' = [kind |-> kind, branches |-> team, winner |-> Root]
            /\ state' = [t \in Tasks |-> IF t \in new THEN state[Root] ELSE state[t]]
            /\ control' = [t \in Tasks |-> IF t \in new THEN "running" ELSE control[t]]
  BY DEF Fork
<1> DEFINE team == [i \in 1..Width |-> first + i - 1]
           new == {team[i] : i \in 1..Width}
<1>2. Width \in Nat /\ Branch \in Nat /\ first \in Nat /\ Root \in Tasks /\ UNCHANGED frames
  BY RootIsTask, ProgramAssumption DEF Fork
<1>3. /\ \A i \in 1..Width : team[i] = first + i - 1 /\ team[i] \in 1..Branch /\ team[i] >= first
      /\ \A i, j \in 1..Width : team[i] = team[j] => i = j
  BY <1>2
<1>4. team \in [1..Width -> 1..Branch] /\ team \in Seq(1..Branch) /\ Len(team) = Width /\ DOMAIN team = 1..Width
  <2>1. team \in [1..Width -> 1..Branch]
    BY <1>3
  <2> HIDE DEF team
  <2> QED
    BY <1>2, <2>1
<1>5. fork'.kind = kind /\ fork'.branches = team
  BY <1>1
<1>6. \A t \in Tasks : World(t)' = World(t) \/ World(t)' = World(Root)
  BY <1>1 DEF World
<1>7. World(Root)' = World(Root)
  BY <1>2, <1>6
<1>8. \A t \in Tasks : Snapshots(t)' = Snapshots(t)
  BY <1>2 DEF Snapshots
<1>9. ASSUME NEW b \in Branches(fork)', NEW w \in Own(b)' PROVE w = World(Root)
  <2>0. b \in new
    BY <1>4, <1>5 DEF Branches
  <2>1. b \in Tasks /\ control[b] = "unused"
    BY <1>1, <1>3, <2>0 DEF Tasks
  <2>2. frames[b] = << >>
    BY <2>1 DEF JoinsSound
  <2>3. Snapshots(b) = {}
    BY <2>2 DEF Snapshots
  <2>4. World(b)' = World(Root)
    BY <1>1, <2>0, <2>1 DEF World
  <2> HIDE DEF team
  <2> QED
    BY <1>8, <1>9, <2>1, <2>3, <2>4 DEF Own
<1>10. \A w \in LiveWorlds' : w \in LiveWorlds
  <2>1. ASSUME NEW t \in Tasks, NEW w \in Own(t)' PROVE w \in LiveWorlds
    <3>1. w \in Own(t) \/ w \in Own(Root)
      BY <1>2, <1>6, <1>8, <2>1 DEF Own
    <3> QED
      BY <1>2, <3>1, Live
  <2>2. ASSUME NEW w \in LiveWorlds' PROVE \E t \in Tasks : w \in Own(t)'
    BY <2>2 DEF LiveWorlds, Own
  <2> QED
    BY <2>1, <2>2
<1>11. \A t \in Tasks : control'[t] = "unused" => control[t] = "unused"
  BY <1>1
<1> HIDE DEF team
<1> QED
  BY <1>3, <1>4, <1>5, <1>7, <1>9, <1>10, <1>11

\* A task changes the frames of none but itself, and runs.
LEMMA FramesElsewhere ==
    ASSUME IInv, RestTyped, NEW t \in Tasks, Task(t)
    PROVE  \A u \in Tasks : control'[u] = "unused" => control[u] = "unused" /\ frames'[u] = frames[u]
<1>1. frames \in [Tasks -> Seq(FrameSet)] /\ control \in [Tasks -> Phases]
  BY DEF IInv, Typed, RestTyped
<1>2. control[t] = "running"
  BY DEF Task, Effect, NewState, ChangeState, NewSpace, AddAtom, RemoveAtom, Import, BeginTransaction,
         RequestMutex, EndTransaction, EnterMutex, LeaveMutex, Throw, Finish, Cancel, Acts, Runs
<1>3. \A u \in Tasks : u # t => frames'[u] = frames[u]
  <2>1. CASE Effect(t)
    BY <1>1, <2>1 DEF Effect, NewState, ChangeState, NewSpace, AddAtom, RemoveAtom, Import, BeginTransaction,
                      RequestMutex, Pushed
  <2>2. CASE ~ Effect(t)
    BY <1>1, <2>2 DEF Task, EndTransaction, EnterMutex, LeaveMutex, Throw, Finish, Cancel, Popped
  <2> QED
    BY <2>1, <2>2
<1>4. control' = control \/ \E c : c # "unused" /\ control' = [control EXCEPT ![t] = c]
  BY DEF Task, Effect, NewState, ChangeState, NewSpace, AddAtom, RemoveAtom, Import, BeginTransaction,
         RequestMutex, EndTransaction, EnterMutex, LeaveMutex, Throw, Finish, Cancel
<1> QED
  BY <1>1, <1>2, <1>3, <1>4

LEMMA JoinsStep == IInv /\ RestTyped /\ JoinsSound /\ [Next]_vars => JoinsSound'
<1> SUFFICES ASSUME IInv, RestTyped, JoinsSound, [Next]_vars PROVE JoinsSound'
  OBVIOUS
<1>0. Typed /\ Root \in Tasks /\ frames \in [Tasks -> Seq(FrameSet)] /\ control \in [Tasks -> Phases]
  BY RootIsTask DEF IInv, Typed, RestTyped
<1>1. ASSUME NEW t \in Tasks, Task(t) PROVE JoinsSound'
  <2>1. /\ fork'.branches = fork.branches /\ fork'.kind = fork.kind
        /\ \A u \in Tasks : u # t => World(u)' = World(u)
        /\ Runs(t) \/ World(t)' = World(t)
    BY <1>1, OthersStay
  <2>2. \A u \in Tasks : control'[u] = "unused" => frames'[u] = << >>
    BY <1>1, FramesElsewhere DEF JoinsSound
  <2>3. PICK atoms : TasksContinue(atoms)
    BY <1>1, TaskContinues
  <2>4. fork.branches # << >> => World(Root)' = World(Root)
    <3>1. CASE t = Root
      BY <2>1, <3>1 DEF Runs, NoFork
    <3>2. CASE t # Root
      BY <1>0, <2>1, <3>2
    <3> QED
      BY <3>1, <3>2
  <2>5. Branches(fork)' = Branches(fork)
    BY <2>1 DEF Branches
  <2>6. ASSUME NEW b \in Branches(fork), NEW w \in Own(b)'
        PROVE  Retains(World(Root)', w)
    <3>0. fork.branches # << >>
      BY <2>6 DEF Branches
    <3>1. b \in Tasks
      BY <1>0, <2>6, BranchesAreTasks
    <3>2. \A v \in Own(b) : Retains(World(Root), v)
      BY <2>6 DEF JoinsSound
    <3>3. \E v \in Own(b) : Continues(v, w, atoms)
      BY <2>3, <2>6, <3>1 DEF TasksContinue
    <3> QED
      BY <2>4, <3>0, <3>2, <3>3, RetainsFurther
  <2> QED
    BY <2>1, <2>2, <2>5, <2>6 DEF JoinsSound
<1>2. CASE Fork
  <2>1. UNCHANGED frames
    BY <1>2 DEF Fork
  <2>2. \A w \in WorldSet : Retains(w, w)
    BY DEF Retains
  <2>3. World(Root) \in WorldSet
    BY <1>0, StateOf
  <2> QED
    BY <1>2, <2>1, <2>2, <2>3, Forked DEF JoinsSound
<1>3. CASE JoinPar \/ JoinRace \/ FailPar
  <2>1. fork' = NoFork
    BY <1>3 DEF JoinPar, JoinRace, FailPar
  <2>2. \A u \in Tasks : control'[u] = "unused" => frames'[u] = << >>
    <3>1. CASE FailPar
      BY <1>0, <3>1 DEF FailPar, JoinsSound
    <3>2. CASE JoinPar \/ JoinRace
      BY <3>2 DEF JoinPar, JoinRace, JoinsSound
    <3> QED
      BY <1>3, <3>1, <3>2
  <2>3. DOMAIN << >> = {}
    OBVIOUS
  <2> QED
    BY <2>1, <2>2, <2>3 DEF JoinsSound, NoFork, Branches
<1>4. CASE UNCHANGED vars
  BY <1>4 DEF vars, JoinsSound, Own, World, Snapshots, Branches
<1> QED
  BY <1>1, <1>2, <1>3, <1>4 DEF Next

LEMMA InitJoins == Init => JoinsSound
<1> SUFFICES ASSUME Init PROVE JoinsSound
  OBVIOUS
<1>1. fork = NoFork /\ \A t \in Tasks : frames[t] = << >>
  BY DEF Init
<1>2. DOMAIN << >> = {}
  OBVIOUS
<1> QED
  BY <1>1, <1>2 DEF JoinsSound, NoFork, Branches

LEMMA JoinsAlways == Spec => []JoinsSound
BY Invariant, RestAlways, InitJoins, JoinsStep, PTL DEF Spec

-----------------------------------------------------------------------------
(* A module's atoms come in once.                                          *)

\* Modules have no atom in common that the program does not add itself.
ModulesApart == \A m, n \in Modules : m # n => Defs[m] \cap Defs[n] \subseteq Added

Imported == (UNION {Defs[m] : m \in Modules}) \ Added

Holds(t, a) == \E w \in Own(t) : w.self[a] > 0

\* No world has an imported atom twice or before its module is loaded, and of the branches
\* of a fork one at most brings it in.
ImportSound(a) ==
    /\ \A w \in LiveWorlds : w.self[a] <= 1
    /\ \A m \in Modules \ loaded : a \in Defs[m] => \A w \in LiveWorlds : w.self[a] = 0
    /\ World(Root).self[a] = 0 =>
         \A s, t \in Branches(fork) : Holds(s, a) /\ Holds(t, a) => s = t

ImportsSound == \A a \in Imported : ImportSound(a)

LEMMA CopiesNatural ==
    ASSUME IInv, NEW a \in Atoms
    PROVE  /\ \A w \in LiveWorlds : w.self[a] \in Nat
           /\ \A t \in Tasks : \A w \in Own(t) : w.self[a] \in Nat
<1>1. \A w \in LiveWorlds : w \in WorldSet
  BY WorldsTyped DEF IInv
<1>2. \A w \in WorldSet : w.self[a] \in Nat
  BY DEF WorldSet, Bags
<1> QED
  BY <1>1, <1>2, Live

LEMMA TypedAfter == Typed' => (LiveWorlds \subseteq WorldSet)'
<1>1. Typed => LiveWorlds \subseteq WorldSet
  BY WorldsTyped
<1> QED
  BY <1>1, PTL

\* Where no task comes to have more of the atom, all stays as it is.
LEMMA ImportKept ==
    ASSUME IInv, IInv', NEW a \in Atoms, ImportSound(a), NEW atoms, TasksContinue(atoms), a \notin atoms,
           loaded \subseteq loaded',
           fork'.branches = fork.branches,
           fork.branches # << >> => World(Root)' = World(Root)
    PROVE  ImportSound(a)'
<1>1. \A t \in Tasks : \A w \in Own(t)' : \E v \in Own(t) : w.self[a] <= v.self[a]
  BY DEF TasksContinue, Continues
<1>2. \A w \in LiveWorlds' : w.self[a] \in Nat
  <2>1. LiveWorlds' \subseteq WorldSet
    BY TypedAfter DEF IInv
  <2> QED
    BY <2>1 DEF WorldSet, Bags
<1>3. \A t \in Tasks : \A w \in Own(t)' : w \in LiveWorlds'
  BY DEF LiveWorlds, Own
<1>4. ASSUME NEW w \in LiveWorlds'
      PROVE  \E v \in LiveWorlds : v.self[a] \in Nat /\ w.self[a] \in Nat /\ w.self[a] <= v.self[a]
  <2>1. PICK t \in Tasks : w \in Own(t)'
    BY <1>4 DEF LiveWorlds, Own
  <2>2. PICK v \in Own(t) : w.self[a] <= v.self[a]
    BY <1>1, <2>1
  <2> QED
    BY <1>2, <1>4, <2>2, CopiesNatural, Live
<1>5. \A w \in LiveWorlds' : w.self[a] <= 1
  BY <1>4 DEF ImportSound
<1>6. \A m \in Modules \ loaded' : a \in Defs[m] => \A w \in LiveWorlds' : w.self[a] = 0
  BY <1>4 DEF ImportSound
<1>7. ASSUME World(Root)'.self[a] = 0, NEW s \in Branches(fork)', NEW t \in Branches(fork)',
             Holds(s, a)', Holds(t, a)'
      PROVE  s = t
  <2>1. s \in Branches(fork) /\ t \in Branches(fork)
    BY <1>7 DEF Branches
  <2>2. s \in Tasks /\ t \in Tasks /\ fork.branches # << >>
    BY <2>1, BranchesAreTasks DEF IInv, Branches
  <2>3. \A u \in Tasks : Holds(u, a)' => Holds(u, a)
    <3>1. ASSUME NEW u \in Tasks, NEW w \in Own(u)', w.self[a] > 0 PROVE Holds(u, a)
      <4>1. PICK v \in Own(u) : w.self[a] <= v.self[a]
        BY <1>1, <3>1
      <4>2. v.self[a] > 0
        BY <1>2, <1>3, <3>1, <4>1, CopiesNatural
      <4> QED
        BY <4>1, <4>2 DEF Holds
    <3> QED
      BY <3>1 DEF Holds
  <2>4. World(Root).self[a] = 0
    BY <1>7, <2>2
  <2> QED
    BY <1>7, <2>1, <2>2, <2>3, <2>4 DEF ImportSound
<1> QED
  BY <1>5, <1>6, <1>7 DEF ImportSound

\* No fork is under way after the step, and the live worlds are old ones.
LEMMA ImportSettled ==
    ASSUME NEW a \in Atoms, ImportSound(a), \A w \in LiveWorlds' : w \in LiveWorlds,
           UNCHANGED loaded, World(Root)'.self[a] = 0 => \A s \in Branches(fork)' : ~ Holds(s, a)'
    PROVE  ImportSound(a)'
BY DEF ImportSound

\* The first import of a module, by one task.
LEMMA ImportEnters ==
    ASSUME IInv, ModulesApart, ImportsSound, NEW t \in Tasks, NEW m \in Modules, Import(t, m),
           m \notin loaded, NEW a \in Defs[m] \ Added
    PROVE  ImportSound(a)'
<1>1. a \in Atoms /\ a \in Imported /\ ImportSound(a)
  BY ProgramAssumption DEF Imported, ImportsSound
<1>2. \A w \in LiveWorlds : w.self[a] = 0
  BY <1>1 DEF ImportSound
<1>3. /\ Task(t) /\ UNCHANGED <<frames, fork>> /\ loaded' = loaded \cup {m}
      /\ Become(t, AppendSpace(World(t), Self, Defs[m], Stamp))
  BY DEF Import, Task, Effect, Marked
<1>4. \A u \in Tasks : u # t => World(u)' = World(u)
  BY <1>3, OthersStay
<1>5. World(t)'.self[a] = 1
  <2>1. World(t) \in WorldSet /\ state \in [Tasks -> States] /\ World(t).self[a] = 0
    BY <1>2, StateOf DEF IInv, Typed
  <2>2. World(t)' = AppendSpace(World(t), Self, Defs[m], Stamp)
    BY <1>3, <2>1 DEF Become, World, States
  <2>3. AppendSpace(World(t), Self, Defs[m], Stamp).self[a] = World(t).self[a] + 1
    BY <1>1, <2>1 DEF AppendSpace, WorldSet
  <2> QED
    BY <2>1, <2>2, <2>3
<1>6. \A u \in Tasks : Snapshots(u)' = Snapshots(u)
  BY <1>3 DEF Snapshots
<1>7. \A u \in Tasks : \A w \in Own(u)' : w.self[a] = 0 \/ (u = t /\ w.self[a] = 1)
  <2>1. ASSUME NEW u \in Tasks, NEW w \in Own(u)' PROVE w.self[a] = 0 \/ (u = t /\ w.self[a] = 1)
    <3>1. CASE w \in Own(u)
      BY <1>2, <3>1, Live
    <3>2. CASE u = t /\ w = World(t)'
      BY <1>5, <3>2
    <3> QED
      BY <1>4, <1>6, <2>1, <3>1, <3>2 DEF Own
  <2> QED
    BY <2>1
<1>8. \A w \in LiveWorlds' : w.self[a] \in {0, 1}
  BY <1>7 DEF LiveWorlds, Own
<1>9. \A n \in Modules \ loaded' : a \notin Defs[n]
  BY <1>3 DEF ModulesApart
<1>10. ASSUME NEW u \in Branches(fork)', Holds(u, a)' PROVE u = t
  <2>1. u \in Tasks
    BY <1>3, <1>10, BranchesAreTasks DEF IInv, Branches
  <2> QED
    BY <1>7, <1>10, <2>1 DEF Holds
<1>11. \A w \in LiveWorlds' : w.self[a] <= 1
  BY <1>8
<1> QED
  BY <1>9, <1>10, <1>11 DEF ImportSound

\* What the loop of mergeWorlds makes of an atom none of the worlds has twice.
LEMMA MergedOnce ==
    ASSUME NEW base \in WorldSet, NEW worlds \in Seq(WorldSet), NEW g, Merging(g, base, worlds),
           NEW a \in Atoms, base.self[a] <= 1, \A i \in 1..Len(worlds) : worlds[i].self[a] <= 1,
           base.self[a] = 0 =>
              \A i, j \in 1..Len(worlds) : worlds[i].self[a] > 0 /\ worlds[j].self[a] > 0 => i = j
    PROVE  LET last == g[Len(worlds)]
           IN  /\ last.self[a] <= 1
               /\ base.self[a] = 0 /\ (\A i \in 1..Len(worlds) : worlds[i].self[a] = 0) => last.self[a] = 0
<1> DEFINE T == {n \in Nat : /\ g[n].self[a] <= 1
                             /\ base.self[a] = 0 /\ (\A i \in 1..n : worlds[i].self[a] = 0) => g[n].self[a] = 0}
<1>1. /\ Len(worlds) \in Nat /\ \A i \in 1..Len(worlds) : worlds[i] \in WorldSet
      /\ g[0] = base /\ \A i \in 0..Len(worlds) : g[i] \in WorldSet
      /\ \A i \in 1..Len(worlds) : g[i] = MergeOne(base, g[i - 1], worlds[i])
  BY DEF Merging
<1>2. \A w \in WorldSet : w.self[a] \in Nat
  BY DEF WorldSet, Bags
<1>3. 0 \in T
  BY <1>1
<1>4. ASSUME NEW n \in 1..Len(worlds), n - 1 \in T PROVE n \in T
  <2> DEFINE before == g[n - 1].self[a]
             b == base.self[a]
             w == worlds[n].self[a]
  <2>1. n \in Nat /\ n - 1 \in 0..Len(worlds) /\ n \in 0..Len(worlds) /\ n \in 1..n
    BY <1>1
  <2>2. g[n].self[a] = Monus(before, Monus(b, w)) + Monus(w, b)
    <3>1. \A into \in WorldSet : MergeOne(base, into, worlds[n]).self = ApplyDelta(into.self, base.self, worlds[n].self)
      BY DEF MergeOne, WorldSet
    <3>2. g[n].self = ApplyDelta(g[n - 1].self, base.self, worlds[n].self)
      BY <1>1, <2>1, <3>1
    <3>3. \A x, y, z : ApplyDelta(x, y, z)[a] = Monus(x[a], Monus(y[a], z[a])) + Monus(z[a], y[a])
      BY DEF ApplyDelta
    <3> QED
      BY <3>2, <3>3
  <2>3. before \in Nat /\ b \in 0..1 /\ w \in 0..1 /\ before \in 0..1
    <3>1. before \in Nat /\ b \in Nat /\ w \in Nat
      BY <1>1, <1>2, <2>1
    <3>2. before <= 1 /\ b <= 1 /\ w <= 1
      BY <1>4
    <3> HIDE DEF before, b, w
    <3> QED
      BY <3>1, <3>2
  <2>4. b = 0 /\ (\A i \in 1..(n - 1) : worlds[i].self[a] = 0) => before = 0
    BY <1>4
  <2>5. b = 0 /\ w > 0 => \A i \in 1..(n - 1) : worlds[i].self[a] = 0
    <3>1. ASSUME b = 0, w > 0, NEW i \in 1..(n - 1) PROVE worlds[i].self[a] = 0
      <4>1. i \in 1..Len(worlds) /\ i # n /\ worlds[i].self[a] \in Nat
        BY <1>1, <1>2
      <4> QED
        BY <3>1, <4>1
    <3> QED
      BY <3>1
  <2>6. (\A i \in 1..n : worlds[i].self[a] = 0) => w = 0 /\ \A i \in 1..(n - 1) : worlds[i].self[a] = 0
    BY <2>1
  <2> HIDE DEF before, b, w
  <2>7. g[n].self[a] <= 1
    BY <2>2, <2>3, <2>4, <2>5 DEF Monus
  <2>8. b = 0 /\ (\A i \in 1..n : worlds[i].self[a] = 0) => g[n].self[a] = 0
    BY <2>2, <2>3, <2>4, <2>6 DEF Monus
  <2> QED
    BY <2>1, <2>7, <2>8 DEF b
<1> HIDE DEF T
<1>5. Len(worlds) \in T
  BY <1>1, <1>3, <1>4, SetInduction
<1> QED
  BY <1>5 DEF T

\* A join of a par is a run of that loop over the worlds of the branches.
LEMMA ParMerges ==
    ASSUME IInv, JoinPar
    PROVE  \E worlds \in Seq(WorldSet) : \E g :
              /\ Len(worlds) = Len(fork.branches)
              /\ \A i \in 1..Len(worlds) : fork.branches[i] \in Branches(fork) /\ worlds[i] = World(fork.branches[i])
              /\ Merging(g, World(Root), worlds)
              /\ World(Root)' = [g[Len(worlds)] EXCEPT !.version = Stamp]
              /\ g[Len(worlds)] \in WorldSet
<1> DEFINE worlds == [i \in DOMAIN fork.branches |-> World(fork.branches[i])]
           n == Len(fork.branches)
<1>1. /\ Typed /\ Root \in Tasks /\ World(Root) \in WorldSet /\ Stamp \in Nat /\ n \in Nat
      /\ state \in [Tasks -> States] /\ DOMAIN fork.branches = 1..n
  <2>1. Typed /\ Root \in Tasks
    BY RootIsTask DEF IInv
  <2>2. clock \in Nat /\ state \in [Tasks -> States]
    BY <2>1 DEF Typed
  <2> QED
    BY <2>1, <2>2, StateOf, BranchesAreTasks DEF Stamp
<1>2. worlds \in Seq(WorldSet) /\ Len(worlds) = n
  <2>1. \A i \in DOMAIN fork.branches : World(fork.branches[i]) \in WorldSet
    BY <1>1, BranchesAreTasks, StateOf
  <2>2. worlds \in [1..n -> WorldSet]
    BY <1>1, <2>1
  <2> HIDE DEF worlds, n
  <2> QED
    BY <1>1, <2>2
<1>3. \A i \in 1..n : fork.branches[i] \in Branches(fork) /\ worlds[i] = World(fork.branches[i])
  BY <1>1 DEF Branches
<1>4. World(Root)' = MergeWorlds(World(Root), worlds, Stamp)
  BY <1>1 DEF JoinPar, World
<1> HIDE DEF worlds, n
<1>5. PICK g : /\ Merging(g, World(Root), worlds)
               /\ MergeWorlds(World(Root), worlds, Stamp) = [g[Len(worlds)] EXCEPT !.version = Stamp]
  BY <1>1, <1>2, MergeWorldsTyped
<1>6. g[Len(worlds)] \in WorldSet
  BY <1>1, <1>2, <1>5 DEF Merging
<1> QED
  BY <1>2, <1>3, <1>4, <1>5, <1>6 DEF n

LEMMA JoinParImports ==
    ASSUME IInv, JoinsSound, JoinPar, NEW a \in Atoms, ImportSound(a)
    PROVE  ImportSound(a)'
<1>1. Root \in Tasks /\ World(Root) \in WorldSet /\ World(Root) \in LiveWorlds
  BY RootIsTask, StateOf
<1>2. PICK worlds \in Seq(WorldSet) : \E g :
              /\ Len(worlds) = Len(fork.branches)
              /\ \A i \in 1..Len(worlds) : fork.branches[i] \in Branches(fork) /\ worlds[i] = World(fork.branches[i])
              /\ Merging(g, World(Root), worlds)
              /\ World(Root)' = [g[Len(worlds)] EXCEPT !.version = Stamp]
              /\ g[Len(worlds)] \in WorldSet
  BY ParMerges
<1>3. PICK g :
              /\ Len(worlds) = Len(fork.branches)
              /\ \A i \in 1..Len(worlds) : fork.branches[i] \in Branches(fork) /\ worlds[i] = World(fork.branches[i])
              /\ Merging(g, World(Root), worlds)
              /\ World(Root)' = [g[Len(worlds)] EXCEPT !.version = Stamp]
              /\ g[Len(worlds)] \in WorldSet
  BY <1>2
<1>4. \A i \in 1..Len(worlds) : /\ worlds[i] \in LiveWorlds /\ worlds[i] \in Own(fork.branches[i])
                                /\ i \in DOMAIN fork.branches
  BY <1>3, BranchesAreTasks, Live DEF IInv
<1>5. World(Root).self[a] <= 1 /\ \A i \in 1..Len(worlds) : worlds[i].self[a] <= 1
  BY <1>1, <1>4 DEF ImportSound
<1>6. ASSUME World(Root).self[a] = 0, NEW i \in 1..Len(worlds), NEW j \in 1..Len(worlds),
             worlds[i].self[a] > 0, worlds[j].self[a] > 0
      PROVE  i = j
  <2>1. Holds(fork.branches[i], a) /\ Holds(fork.branches[j], a)
    BY <1>4, <1>6 DEF Holds
  <2>2. fork.branches[i] = fork.branches[j]
    BY <1>3, <1>6, <2>1 DEF ImportSound
  <2> QED
    BY <1>4, <2>2 DEF JoinsSound
<1> DEFINE last == g[Len(worlds)]
           base == World(Root)
<1>7. /\ last.self[a] <= 1
      /\ base.self[a] = 0 /\ (\A i \in 1..Len(worlds) : worlds[i].self[a] = 0) => last.self[a] = 0
  <2>1. /\ base \in WorldSet /\ Merging(g, base, worlds)
        /\ base.self[a] <= 1 /\ \A i \in 1..Len(worlds) : worlds[i].self[a] <= 1
        /\ base.self[a] = 0 =>
              \A i, j \in 1..Len(worlds) : worlds[i].self[a] > 0 /\ worlds[j].self[a] > 0 => i = j
    BY <1>1, <1>3, <1>5, <1>6
  <2> HIDE DEF base
  <2> QED
    BY <2>1, MergedOnce
<1>8. World(Root)'.self = last.self
  BY <1>3 DEF WorldSet
<1>9. \A w \in LiveWorlds' : w \in LiveWorlds \cup {World(Root)'}
  <2>1. /\ fork' = NoFork /\ UNCHANGED <<frames, loaded>>
        /\ \A u \in Tasks : u # Root => World(u)' = World(u)
    BY DEF JoinPar, envVars, World, IInv, Typed
  <2>2. \A u \in Tasks : World(u)' \in LiveWorlds \cup {World(Root)'}
    BY <2>1, Live
  <2>3. OldSnapshots(frames')
    BY <2>1, Live
  <2>4. PICK new : new = World(Root)'
    OBVIOUS
  <2> QED
    BY <2>2, <2>3, <2>4, LiveAfter
<1>10. UNCHANGED loaded /\ Branches(fork)' = {}
  BY DEF JoinPar, envVars, NoFork, Branches
<1>11. \A w \in LiveWorlds' : w.self[a] <= 1
  BY <1>7, <1>8, <1>9 DEF ImportSound
<1>12. ASSUME NEW m \in Modules \ loaded', a \in Defs[m], NEW w \in LiveWorlds' PROVE w.self[a] = 0
  <2>1. \A v \in LiveWorlds : v.self[a] = 0
    BY <1>10, <1>12 DEF ImportSound
  <2>2. last.self[a] = 0
    BY <1>1, <1>4, <1>7, <2>1
  <2> QED
    BY <1>8, <1>9, <2>1, <2>2
<1> QED
  BY <1>10, <1>11, <1>12 DEF ImportSound

LEMMA ImportsStep ==
    ModulesApart /\ IInv /\ IInv' /\ RestTyped /\ JoinsSound /\ ImportsSound /\ [Next]_vars => ImportsSound'
<1> SUFFICES ASSUME ModulesApart, IInv, IInv', JoinsSound, ImportsSound, [Next]_vars,
                    NEW a \in Imported
             PROVE  ImportSound(a)'
  BY DEF ImportsSound, Imported
<1>0. a \in Atoms /\ a \notin Added /\ ImportSound(a) /\ Root \in Tasks
  BY RootIsTask, ProgramAssumption DEF Imported, ImportsSound
<1>1. ASSUME NEW t \in Tasks, Task(t) PROVE ImportSound(a)'
  <2>1. /\ fork'.branches = fork.branches
        /\ \A u \in Tasks : u # t => World(u)' = World(u)
        /\ Runs(t) \/ World(t)' = World(t)
    BY <1>1, OthersStay
  <2>2. fork.branches # << >> => World(Root)' = World(Root)
    <3>1. CASE t = Root
      BY <2>1, <3>1 DEF Runs, NoFork
    <3>2. CASE t # Root
      BY <1>0, <2>1, <3>2
    <3> QED
      BY <3>1, <3>2
  <2>3. loaded \subseteq loaded'
    BY <1>1 DEF Task, Effect, NewState, ChangeState, NewSpace, AddAtom, RemoveAtom, Import, BeginTransaction,
                RequestMutex, EndTransaction, EnterMutex, LeaveMutex, Throw, Finish, Cancel, Release, Marked, envVars
  <2>4. CASE \A m \in Modules : Import(t, m) => m \in loaded
    <3>1. TasksContinue(Added)
      BY <1>1, <2>4, TaskContinues
    <3> QED
      BY <1>0, <2>1, <2>2, <2>3, <3>1, ImportKept
  <2>5. ASSUME NEW m \in Modules, Import(t, m), m \notin loaded PROVE ImportSound(a)'
    <3>1. CASE a \in Defs[m]
      BY <1>0, <2>5, <3>1, ImportEnters
    <3>2. CASE a \notin Defs[m]
      <4>1. TasksContinue(Defs[m])
        BY <1>1, <2>5, TaskContinues
      <4> QED
        BY <1>0, <2>1, <2>2, <2>3, <3>2, <4>1, ImportKept
    <3> QED
      BY <3>1, <3>2
  <2> QED
    BY <2>4, <2>5
<1>2. CASE Fork
  <2>1. UNCHANGED loaded
    BY <1>2 DEF Fork, envVars
  <2>2. ASSUME World(Root)'.self[a] = 0, NEW s \in Branches(fork)', NEW w \in Own(s)', w.self[a] > 0 PROVE FALSE
    <3>1. w = World(Root) /\ World(Root)' = World(Root)
      BY <1>2, <2>2, Forked
    <3> QED
      BY <2>2, <3>1
  <2>3. \A w \in LiveWorlds' : w \in LiveWorlds
    BY <1>2, Forked
  <2> QED
    BY <1>0, <2>1, <2>2, <2>3, ImportSettled DEF Holds
<1>3. CASE JoinRace \/ FailPar
  <2>1. PICK v \in LiveWorlds : \A u \in Tasks : World(u)' = World(u) \/ World(u)' = v
    <3>1. CASE JoinRace
      <4>1. fork.winner \in Tasks
        BY BranchesAreTasks DEF IInv
      <4>2. World(fork.winner) \in LiveWorlds
        BY <4>1, Live
      <4>3. \A u \in Tasks : World(u)' = World(u) \/ World(u)' = World(fork.winner)
        BY <3>1 DEF JoinRace, World, IInv, Typed
      <4> QED
        BY <4>2, <4>3
    <3>2. CASE FailPar
      BY <1>0, <3>2, Live DEF FailPar, World
    <3> QED
      BY <1>3, <3>1, <3>2
  <2>2. \A w \in LiveWorlds' : w \in LiveWorlds
    <3>1. \A u \in Tasks : World(u)' \in LiveWorlds \cup {v}
      BY <2>1, Live
    <3>2. OldSnapshots(frames')
      BY SnapshotsStay
    <3> QED
      BY <2>1, <3>1, <3>2, LiveAfter
  <2>3. UNCHANGED loaded /\ Branches(fork)' = {}
    BY <1>3 DEF JoinRace, FailPar, Release, envVars, NoFork, Branches
  <2> QED
    BY <1>0, <2>2, <2>3, ImportSettled
<1>4. CASE JoinPar
  BY <1>0, <1>4, JoinParImports
<1>5. CASE UNCHANGED vars
  BY <1>0, <1>5 DEF vars, envVars, ImportSound, Holds, Own, World, Snapshots, Branches, LiveWorlds
<1> QED
  BY <1>1, <1>2, <1>3, <1>4, <1>5 DEF Next

LEMMA InitImports == Init => ImportsSound
<1> SUFFICES ASSUME Init, NEW a \in Imported PROVE ImportSound(a)
  BY DEF ImportsSound
<1>1. a \in Atoms
  BY ProgramAssumption DEF Imported
<1>2. \A t \in Tasks : World(t) = NewWorld /\ Snapshots(t) = {}
  <2>1. \A t \in Tasks : World(t) = NewWorld
    BY DEF Init, World
  <2>2. \A t \in Tasks : DOMAIN frames[t] = {}
    BY DEF Init
  <2> QED
    BY <2>1, <2>2 DEF Snapshots
<1>3. \A w \in LiveWorlds : w.self[a] = 0
  BY <1>1, <1>2 DEF LiveWorlds, NewWorld, EmptyBag
<1>4. Branches(fork) = {}
  BY DEF Init, NoFork, Branches
<1> QED
  BY <1>3, <1>4 DEF ImportSound

\* The atoms of a module are in &self once at most, whichever tasks import it, roll back or
\* are joined: modules that share no atom never give a world a second copy of one.
THEOREM ModulesEnterOnce ==
    ASSUME ModulesApart PROVE Spec => []ImportedOnce
<1>1. ImportsSound => ImportedOnce
  <2> SUFFICES ASSUME ImportsSound, NEW w \in LiveWorlds, NEW m \in Modules, NEW a \in Defs[m] \ Added
               PROVE  w.self[a] <= 1
    BY DEF ImportedOnce
  <2>1. a \in Imported
    BY DEF Imported
  <2> QED
    BY <2>1 DEF ImportsSound, ImportSound
<1>2. IInv /\ IInv' /\ RestTyped /\ JoinsSound /\ ImportsSound /\ [Next]_vars => ImportsSound'
  BY ImportsStep
<1> QED
  BY <1>1, <1>2, RestAlways, Invariant, JoinsAlways, InitImports, PTL DEF Spec

-----------------------------------------------------------------------------
(* What a join makes of the branches.                                      *)

\* Gains add up.
LEMMA SumsExist ==
    ASSUME NEW n \in Nat, NEW gain \in [1..n -> Int]
    PROVE  \E s : s = [i \in 0..n |-> IF i = 0 THEN 0 ELSE s[i - 1] + gain[i]]
<1> DEFINE Sums(s, k) == s = [i \in 0..k |-> IF i = 0 THEN 0 ELSE s[i - 1] + gain[i]]
           T == {k \in Nat : \E s : Sums(s, k)}
<1>1. 0 \in T
  <2>1. Sums([i \in 0..0 |-> 0], 0)
    OBVIOUS
  <2> QED
    BY <2>1
<1>2. ASSUME NEW k \in 1..n, k - 1 \in T PROVE k \in T
  <2>1. PICK s : Sums(s, k - 1)
    BY <1>2
  <2> DEFINE r == [i \in 0..k |-> IF i = k THEN s[k - 1] + gain[k] ELSE s[i]]
  <2>2. \A i \in 0..k : r[i] = IF i = 0 THEN 0 ELSE r[i - 1] + gain[i]
    BY <2>1
  <2>3. Sums(r, k)
    <3>1. r = [i \in 0..k |-> r[i]]
      OBVIOUS
    <3> HIDE DEF r
    <3> QED
      BY <2>2, <3>1
  <2>4. k \in Nat
    OBVIOUS
  <2> QED
    BY <2>3, <2>4
<1> HIDE DEF T
<1>3. \A k \in 0..n : k \in T
  BY <1>1, <1>2, SetInduction
<1> QED
  BY <1>3 DEF T

\* Deltas applied one after the other add up, unless two of them take away.
LEMMA DeltasAddUp ==
    ASSUME NEW n \in Nat, NEW b \in Nat, NEW w \in [1..n -> Nat], NEW f \in [0..n -> Nat], NEW s,
           f[0] = b, \A i \in 1..n : f[i] = Monus(f[i - 1], Monus(b, w[i])) + Monus(w[i], b),
           s[0] = 0, \A i \in 1..n : s[i] = s[i - 1] + (w[i] - b),
           \A i, j \in 1..n : i < j => ~ (w[i] - b < 0 /\ w[j] - b < 0)
    PROVE  f[n] = b + s[n]
<1> DEFINE T == {k \in Nat : /\ s[k] \in Int /\ f[k] = b + s[k]
                             /\ (\A i \in 1..k : w[i] >= b) => f[k] >= b}
<1>1. 0 \in T
  OBVIOUS
<1>2. ASSUME NEW k \in 1..n, k - 1 \in T PROVE k \in T
  <2>1. /\ k \in Nat /\ k - 1 \in 0..n /\ k \in 0..n /\ w[k] \in Nat /\ f[k - 1] \in Nat /\ s[k - 1] \in Int
        /\ f[k - 1] = b + s[k - 1] /\ s[k] = s[k - 1] + (w[k] - b)
        /\ f[k] = Monus(f[k - 1], Monus(b, w[k])) + Monus(w[k], b)
    BY <1>2
  <2>2. (\A i \in 1..(k - 1) : w[i] >= b) => f[k - 1] >= b
    BY <1>2
  <2>3. (\A i \in 1..k : w[i] >= b) => w[k] >= b /\ \A i \in 1..(k - 1) : w[i] >= b
    BY <2>1
  <2>4. w[k] < b => \A i \in 1..(k - 1) : w[i] >= b
    <3>1. ASSUME w[k] < b, NEW i \in 1..(k - 1) PROVE w[i] >= b
      <4>1. i \in 1..n /\ i < k /\ w[i] \in Nat
        BY <2>1
      <4>2. ~ (w[i] - b < 0 /\ w[k] - b < 0)
        BY <4>1
      <4> QED
        BY <2>1, <3>1, <4>1, <4>2
    <3> QED
      BY <3>1
  <2> DEFINE x == f[k - 1]
             y == w[k]
             z == s[k - 1]
  <2>0. x \in Nat /\ y \in Nat /\ z \in Int /\ x = b + z /\ s[k] = z + (y - b)
    BY <2>1
  <2> HIDE DEF x, y, z
  <2>5. CASE y >= b
    <3>1. f[k] = x + (y - b)
      BY <2>1, <2>5 DEF Monus, x, y
    <3>2. s[k] \in Int /\ f[k] = b + s[k]
      BY <2>0, <3>1
    <3>3. x >= b => f[k] >= b
      BY <2>0, <2>5, <3>1
    <3>4. (\A i \in 1..k : w[i] >= b) => f[k] >= b
      BY <2>2, <2>3, <3>3 DEF x
    <3> QED
      BY <2>1, <3>2, <3>4
  <2>6. CASE y < b
    <3>1. x >= b
      BY <2>2, <2>4, <2>6 DEF x, y
    <3>2. f[k] = x - (b - y)
      <4>1. f[k] = Monus(x, Monus(b, y)) + Monus(y, b)
        BY <2>1 DEF x, y
      <4>2. Monus(b, y) = b - y /\ Monus(y, b) = 0 /\ b - y \in Nat /\ b - y <= x
        BY <2>0, <2>6, <3>1 DEF Monus
      <4> QED
        BY <2>0, <4>1, <4>2 DEF Monus
    <3>3. s[k] \in Int /\ f[k] = b + s[k]
      BY <2>0, <3>2
    <3>4. ~ (\A i \in 1..k : w[i] >= b)
      <4>1. ~ (y >= b)
        BY <2>0, <2>6
      <4> QED
        BY <2>3, <4>1 DEF y
    <3> QED
      BY <2>1, <3>3, <3>4
  <2> QED
    BY <2>0, <2>5, <2>6
<1> HIDE DEF T
<1>3. \A k \in 0..n : k \in T
  BY <1>1, <1>2, SetInduction
<1> QED
  BY <1>3 DEF T

\* How often an atom is in &self from turn to turn of the loop.
LEMMA MergedSelf ==
    ASSUME NEW base \in WorldSet, NEW worlds \in Seq(WorldSet), NEW g, Merging(g, base, worlds),
           NEW a \in Atoms, NEW i \in 1..Len(worlds)
    PROVE  g[i].self[a] = Monus(g[i - 1].self[a], Monus(base.self[a], worlds[i].self[a]))
                              + Monus(worlds[i].self[a], base.self[a])
<1>1. g[i - 1] \in WorldSet /\ worlds[i] \in WorldSet /\ g[i] = MergeOne(base, g[i - 1], worlds[i])
  <2>1. Len(worlds) \in Nat /\ i - 1 \in 0..Len(worlds)
    OBVIOUS
  <2> QED
    BY <2>1 DEF Merging
<1>2. \A into \in WorldSet, w \in WorldSet :
        MergeOne(base, into, w).self = ApplyDelta(into.self, base.self, w.self)
  BY DEF MergeOne, WorldSet
<1>3. g[i].self = ApplyDelta(g[i - 1].self, base.self, worlds[i].self)
  BY <1>1, <1>2
<1> QED
  BY <1>3 DEF ApplyDelta

\* How often it is in a space.
LEMMA MergedSpace ==
    ASSUME NEW base \in WorldSet, NEW worlds \in Seq(WorldSet), NEW g, Merging(g, base, worlds),
           NEW a \in Atoms, NEW i \in 1..Len(worlds), Retains(base, worlds[i]), NEW id
    PROVE  SpaceOf(g[i].spaces, id)[a] =
             Monus(SpaceOf(g[i - 1].spaces, id)[a],
                   Monus(SpaceOf(base.spaces, id)[a], SpaceOf(worlds[i].spaces, id)[a]))
                 + Monus(SpaceOf(worlds[i].spaces, id)[a], SpaceOf(base.spaces, id)[a])
<1> DEFINE into == g[i - 1]
           w == worlds[i]
           spaces == [k \in DOMAIN into.spaces \cup DOMAIN w.spaces |->
                        IF k \in DOMAIN w.spaces
                        THEN ApplyDelta(SpaceOf(into.spaces, k), SpaceOf(base.spaces, k), w.spaces[k])
                        ELSE into.spaces[k]]
<1>1. into \in WorldSet /\ w \in WorldSet /\ g[i] = MergeOne(base, into, w) /\ Retains(base, w)
  <2>1. Len(worlds) \in Nat /\ i - 1 \in 0..Len(worlds)
    OBVIOUS
  <2> QED
    BY <2>1 DEF Merging
<1> HIDE DEF into, w
<1>2. g[i].spaces = spaces
  BY <1>1 DEF MergeOne, WorldSet
<1>3. \A x, y, z : ApplyDelta(x, y, z)[a] = Monus(x[a], Monus(y[a], z[a])) + Monus(z[a], y[a])
  BY DEF ApplyDelta
<1>4. CASE id \in DOMAIN w.spaces
  <2>1. SpaceOf(g[i].spaces, id) = ApplyDelta(SpaceOf(into.spaces, id), SpaceOf(base.spaces, id), SpaceOf(w.spaces, id))
    BY <1>2, <1>4 DEF SpaceOf
  <2> QED
    BY <1>3, <2>1 DEF into, w
<1>5. CASE id \notin DOMAIN w.spaces
  <2>1. id \notin DOMAIN base.spaces
    BY <1>1, <1>5 DEF Retains
  <2>2. SpaceOf(base.spaces, id)[a] = 0 /\ SpaceOf(w.spaces, id)[a] = 0
    BY <1>5, <2>1 DEF SpaceOf, EmptyBag
  <2>3. SpaceOf(g[i].spaces, id) = SpaceOf(into.spaces, id)
    BY <1>2, <1>5 DEF SpaceOf
  <2>4. SpaceOf(into.spaces, id) \in Bags
    <3>1. into.spaces \in SpaceMaps
      BY <1>1 DEF WorldSet
    <3> QED
      BY <3>1, MapFacts, NewWorldTyped DEF SpaceOf
  <2>5. SpaceOf(into.spaces, id)[a] \in Nat
    BY <2>4 DEF Bags
  <2>6. \A n \in Nat : n = Monus(n, Monus(0, 0)) + Monus(0, 0)
    BY DEF Monus
  <2> QED
    BY <2>2, <2>3, <2>5, <2>6 DEF into, w
<1> QED
  BY <1>4, <1>5

\* Tombstones, spaces and cells at the end of the loop.
LEMMA MergedRest ==
    ASSUME NEW base \in WorldSet, NEW worlds \in Seq(WorldSet), NEW g, Merging(g, base, worlds)
    PROVE  LET last == g[Len(worlds)]
               n == Len(worlds)
           IN  /\ last.removed = base.removed \cup UNION {worlds[i].removed : i \in 1..n}
               /\ \A i \in 1..n : DOMAIN worlds[i].spaces \subseteq DOMAIN last.spaces
               /\ \A id \in DOMAIN last.cells :
                    /\ id \in DOMAIN base.cells \/ \E i \in 1..n : id \in DOMAIN worlds[i].cells
                    /\ \/ \E i \in 1..n : id \in Changed(base, worlds[i]) /\ last.cells[id] = worlds[i].cells[id]
                       \/ \A i \in 1..n : id \notin Changed(base, worlds[i])
<1> DEFINE T == {k \in Nat :
                   /\ DOMAIN base.cells \subseteq DOMAIN g[k].cells
                   /\ g[k].removed = base.removed \cup UNION {worlds[i].removed : i \in 1..k}
                   /\ \A i \in 1..k : DOMAIN worlds[i].spaces \subseteq DOMAIN g[k].spaces
                   /\ \A id \in DOMAIN g[k].cells :
                        /\ id \in DOMAIN base.cells \/ \E i \in 1..k : id \in DOMAIN worlds[i].cells
                        /\ \/ \E i \in 1..k : id \in Changed(base, worlds[i]) /\ g[k].cells[id] = worlds[i].cells[id]
                           \/ \A i \in 1..k : id \notin Changed(base, worlds[i])}
<1>1. /\ Len(worlds) \in Nat /\ g[0] = base /\ \A i \in 0..Len(worlds) : g[i] \in WorldSet
      /\ \A i \in 1..Len(worlds) : g[i] = MergeOne(base, g[i - 1], worlds[i])
  BY DEF Merging
<1>2. 0 \in T
  <2>1. 1..0 = {}
    OBVIOUS
  <2> QED
    BY <1>1, <2>1
<1>3. ASSUME NEW k \in 1..Len(worlds), k - 1 \in T PROVE k \in T
  <2> DEFINE into == g[k - 1]
             w == worlds[k]
             spaces == [id \in DOMAIN into.spaces \cup DOMAIN w.spaces |->
                          IF id \in DOMAIN w.spaces
                          THEN ApplyDelta(SpaceOf(into.spaces, id), SpaceOf(base.spaces, id), w.spaces[id])
                          ELSE into.spaces[id]]
             cells == [id \in DOMAIN into.cells \cup DOMAIN w.cells |->
                          IF id \in Changed(base, w) THEN w.cells[id] ELSE into.cells[id]]
  <2>1. k \in Nat /\ k - 1 \in 0..Len(worlds) /\ 1..k = 1..(k - 1) \cup {k} /\ k \in 1..k
    BY <1>1
  <2>2. /\ g[k].removed = into.removed \cup w.removed /\ g[k].spaces = spaces /\ g[k].cells = cells
    <3>1. into \in WorldSet /\ g[k] = MergeOne(base, into, w)
      BY <1>1, <2>1
    <3> HIDE DEF into, w
    <3> QED
      BY <3>1 DEF MergeOne, WorldSet
  <2>3. /\ DOMAIN base.cells \subseteq DOMAIN into.cells
        /\ into.removed = base.removed \cup UNION {worlds[i].removed : i \in 1..(k - 1)}
        /\ \A i \in 1..(k - 1) : DOMAIN worlds[i].spaces \subseteq DOMAIN into.spaces
        /\ \A id \in DOMAIN into.cells :
             /\ id \in DOMAIN base.cells \/ \E i \in 1..(k - 1) : id \in DOMAIN worlds[i].cells
             /\ \/ \E i \in 1..(k - 1) : id \in Changed(base, worlds[i]) /\ into.cells[id] = worlds[i].cells[id]
                \/ \A i \in 1..(k - 1) : id \notin Changed(base, worlds[i])
    BY <1>3
  <2>4. g[k].removed = base.removed \cup UNION {worlds[i].removed : i \in 1..k}
    <3>1. UNION {worlds[i].removed : i \in 1..k} = (UNION {worlds[i].removed : i \in 1..(k - 1)}) \cup w.removed
      BY <2>1
    <3> QED
      BY <2>2, <2>3, <3>1
  <2>5. /\ \A i \in 1..k : DOMAIN worlds[i].spaces \subseteq DOMAIN g[k].spaces
        /\ DOMAIN base.cells \subseteq DOMAIN g[k].cells
    BY <2>1, <2>2, <2>3
  <2>6. ASSUME NEW id \in DOMAIN g[k].cells
        PROVE  /\ id \in DOMAIN base.cells \/ \E i \in 1..k : id \in DOMAIN worlds[i].cells
               /\ \/ \E i \in 1..k : id \in Changed(base, worlds[i]) /\ g[k].cells[id] = worlds[i].cells[id]
                  \/ \A i \in 1..k : id \notin Changed(base, worlds[i])
    <3>1. id \in DOMAIN into.cells \cup DOMAIN w.cells /\ g[k].cells[id] = cells[id]
      BY <2>2, <2>6
    <3>2. id \in DOMAIN base.cells \/ \E i \in 1..k : id \in DOMAIN worlds[i].cells
      BY <2>1, <2>3, <3>1
    <3>3. CASE id \in Changed(base, w)
      BY <2>1, <2>2, <2>6, <3>1, <3>2, <3>3
    <3>4. CASE id \notin Changed(base, w)
      <4>1. CASE id \in DOMAIN into.cells
        <5>1. g[k].cells[id] = into.cells[id]
          BY <3>1, <3>4
        <5> HIDE DEF into, cells
        <5> QED
          BY <2>1, <2>3, <3>2, <3>4, <4>1, <5>1 DEF w
      <4>2. CASE id \notin DOMAIN into.cells
        <5>1. id \in DOMAIN base.cells
          BY <3>1, <3>4, <4>2 DEF Changed
        <5> QED
          BY <2>3, <4>2, <5>1
      <4> QED
        BY <4>1, <4>2
    <3> QED
      BY <3>3, <3>4
  <2> HIDE DEF into, w, spaces, cells
  <2> QED
    BY <2>1, <2>4, <2>5, <2>6
<1> HIDE DEF T
<1>4. \A k \in 0..Len(worlds) : k \in T
  BY <1>1, <1>2, <1>3, SetInduction
<1>5. Len(worlds) \in T
  BY <1>1, <1>4
<1> QED
  BY <1>5 DEF T

\* The branches of a par and the turns of its merge.
LEMMA ParJoined ==
    ASSUME IInv, JoinsSound, JoinPar
    PROVE  \E worlds \in Seq(WorldSet) : \E g :
              /\ Len(worlds) = Width
              /\ \A i \in 1..Width : worlds[i] = Joined(i) /\ Retains(World(Root), worlds[i])
              /\ Merging(g, World(Root), worlds)
              /\ World(Root)' = [g[Width] EXCEPT !.version = Stamp]
              /\ g[Width] \in WorldSet
<1>1. PICK worlds \in Seq(WorldSet) : \E g :
              /\ Len(worlds) = Len(fork.branches)
              /\ \A i \in 1..Len(worlds) : fork.branches[i] \in Branches(fork) /\ worlds[i] = World(fork.branches[i])
              /\ Merging(g, World(Root), worlds)
              /\ World(Root)' = [g[Len(worlds)] EXCEPT !.version = Stamp]
              /\ g[Len(worlds)] \in WorldSet
  BY ParMerges
<1>2. PICK g :
              /\ Len(worlds) = Len(fork.branches)
              /\ \A i \in 1..Len(worlds) : fork.branches[i] \in Branches(fork) /\ worlds[i] = World(fork.branches[i])
              /\ Merging(g, World(Root), worlds)
              /\ World(Root)' = [g[Len(worlds)] EXCEPT !.version = Stamp]
              /\ g[Len(worlds)] \in WorldSet
  BY <1>1
<1>3. Len(fork.branches) = Width
  <2>1. fork.kind = "par"
    BY DEF JoinPar
  <2> QED
    BY <2>1 DEF JoinsSound
<1>4. \A i \in 1..Width : worlds[i] \in Own(fork.branches[i])
  <2>1. \A i \in 1..Width : fork.branches[i] \in Tasks
    BY <1>2, <1>3, BranchesAreTasks DEF IInv
  <2> QED
    BY <1>2, <1>3, <2>1, Live
<1>5. \A i \in 1..Width : Retains(World(Root), worlds[i])
  BY <1>2, <1>3, <1>4 DEF JoinsSound
<1> QED
  BY <1>2, <1>3, <1>5 DEF Joined

\* &self after a par.
LEMMA SelfJoined ==
    ASSUME IInv, JoinsSound, JoinPar, NEW a \in Atoms
    PROVE  LET self(w) == w.self
           IN  TakenTwice(self, a) \/
               World(Root)'.self[a] = World(Root).self[a] + GainOfAll(self, a)
<1>1. PICK worlds \in Seq(WorldSet) : \E g :
              /\ Len(worlds) = Width
              /\ \A i \in 1..Width : worlds[i] = Joined(i) /\ Retains(World(Root), worlds[i])
              /\ Merging(g, World(Root), worlds)
              /\ World(Root)' = [g[Width] EXCEPT !.version = Stamp]
              /\ g[Width] \in WorldSet
  BY ParJoined
<1>2. PICK g :
              /\ Len(worlds) = Width
              /\ \A i \in 1..Width : worlds[i] = Joined(i) /\ Retains(World(Root), worlds[i])
              /\ Merging(g, World(Root), worlds)
              /\ World(Root)' = [g[Width] EXCEPT !.version = Stamp]
              /\ g[Width] \in WorldSet
  BY <1>1
<1> DEFINE base == World(Root)
           b == base.self[a]
           wholes == [i \in 1..Width |-> worlds[i].self[a]]
           turns == [i \in 0..Width |-> g[i].self[a]]
           gain(i) == Joined(i).self[a] - World(Root).self[a]
           gains == [i \in 1..Width |-> gain(i)]
           sum == CHOOSE s : s = [i \in 0..Width |-> IF i = 0 THEN 0 ELSE s[i - 1] + gain(i)]
<1>3. /\ Width \in Nat /\ base \in WorldSet /\ g[0] = base /\ g \in [0..Width -> WorldSet]
      /\ \A i \in 1..Width : worlds[i] \in WorldSet
  BY <1>2, ProgramAssumption, RootIsTask, StateOf DEF IInv, Merging
<1>4. \A w \in WorldSet : w.self[a] \in Nat
  BY DEF WorldSet, Bags
<1>5. b \in Nat /\ wholes \in [1..Width -> Nat] /\ turns \in [0..Width -> Nat] /\ gains \in [1..Width -> Int]
  <2>1. \A i \in 1..Width : worlds[i].self[a] \in Nat /\ worlds[i] = Joined(i)
    BY <1>2, <1>3, <1>4
  <2>2. \A i \in 0..Width : g[i].self[a] \in Nat
    BY <1>3, <1>4
  <2>3. World(Root).self[a] \in Nat
    BY <1>3, <1>4
  <2>4. \A i \in 1..Width : gain(i) \in Int
    BY <2>1, <2>3
  <2> QED
    BY <2>1, <2>2, <2>3, <2>4
<1>6. sum = [i \in 0..Width |-> IF i = 0 THEN 0 ELSE sum[i - 1] + gain(i)]
  <2>1. \E s : s = [i \in 0..Width |-> IF i = 0 THEN 0 ELSE s[i - 1] + gains[i]]
    <3> HIDE DEF gains
    <3> QED
      BY <1>3, <1>5, SumsExist
  <2>2. PICK s : s = [i \in 0..Width |-> IF i = 0 THEN 0 ELSE s[i - 1] + gains[i]]
    BY <2>1
  <2>3. \A i \in 0..Width : i # 0 => gains[i] = gain(i)
    BY <1>3
  <2> HIDE DEF gains
  <2>4. s = [i \in 0..Width |-> IF i = 0 THEN 0 ELSE s[i - 1] + gain(i)]
    BY <2>2, <2>3
  <2> QED
    BY <2>4
<1> HIDE DEF sum
<1>7. sum[0] = 0 /\ \A i \in 1..Width : sum[i] = sum[i - 1] + (wholes[i] - b)
  <2>1. \A i \in 1..Width : i \in 0..Width /\ i # 0 /\ wholes[i] = Joined(i).self[a]
    BY <1>2, <1>3
  <2>2. 0 \in 0..Width
    BY <1>3
  <2> QED
    BY <1>6, <2>1, <2>2
<1>8. turns[0] = b /\ \A i \in 1..Width : turns[i] = Monus(turns[i - 1], Monus(b, wholes[i])) + Monus(wholes[i], b)
  <2>1. /\ base \in WorldSet /\ Merging(g, base, worlds) /\ Len(worlds) = Width
        /\ \A i \in 1..Len(worlds) : Retains(base, worlds[i])
    BY <1>2, <1>3
  <2> HIDE DEF base
  <2>2. \A i \in 1..Width : g[i].self[a] = Monus(g[i - 1].self[a], Monus(base.self[a], worlds[i].self[a]))
                                               + Monus(worlds[i].self[a], base.self[a])
    BY <2>1, MergedSelf
  <2> QED
    BY <1>3, <2>2
<1>9. World(Root)'.self[a] = turns[Width]
  BY <1>2, <1>3 DEF WorldSet
<1>10. SUFFICES ASSUME ~ \E i, j \in 1..Width : i < j /\ gain(i) < 0 /\ gain(j) < 0
                PROVE  World(Root)'.self[a] = World(Root).self[a] + sum[Width]
  BY DEF TakenTwice, GainOfAll, Gain, sum
<1>11. \A i, j \in 1..Width : i < j => ~ (wholes[i] - b < 0 /\ wholes[j] - b < 0)
  BY <1>2, <1>10
<1> HIDE DEF b, wholes, turns
<1>12. turns[Width] = b + sum[Width]
  BY ONLY <1>3, <1>5, <1>7, <1>8, <1>11, DeltasAddUp
<1> QED
  BY <1>9, <1>12 DEF b
\* A space that some branch has, after a par.
LEMMA SpaceJoined ==
    ASSUME IInv, JoinsSound, JoinPar, NEW a \in Atoms,
           NEW id \in UNION {DOMAIN Joined(i).spaces : i \in 1..Width}
    PROVE  LET space(w) == SpaceOf(w.spaces, id)
           IN  TakenTwice(space, a) \/
               World(Root)'.spaces[id][a] = space(World(Root))[a] + GainOfAll(space, a)
<1>1. PICK worlds \in Seq(WorldSet) : \E g :
              /\ Len(worlds) = Width
              /\ \A i \in 1..Width : worlds[i] = Joined(i) /\ Retains(World(Root), worlds[i])
              /\ Merging(g, World(Root), worlds)
              /\ World(Root)' = [g[Width] EXCEPT !.version = Stamp]
              /\ g[Width] \in WorldSet
  BY ParJoined
<1>2. PICK g :
              /\ Len(worlds) = Width
              /\ \A i \in 1..Width : worlds[i] = Joined(i) /\ Retains(World(Root), worlds[i])
              /\ Merging(g, World(Root), worlds)
              /\ World(Root)' = [g[Width] EXCEPT !.version = Stamp]
              /\ g[Width] \in WorldSet
  BY <1>1
<1> DEFINE base == World(Root)
           b == SpaceOf(base.spaces, id)[a]
           wholes == [i \in 1..Width |-> SpaceOf(worlds[i].spaces, id)[a]]
           turns == [i \in 0..Width |-> SpaceOf(g[i].spaces, id)[a]]
           gain(i) == SpaceOf(Joined(i).spaces, id)[a] - SpaceOf(World(Root).spaces, id)[a]
           gains == [i \in 1..Width |-> gain(i)]
           sum == CHOOSE s : s = [i \in 0..Width |-> IF i = 0 THEN 0 ELSE s[i - 1] + gain(i)]
<1>3. /\ Width \in Nat /\ base \in WorldSet /\ g[0] = base /\ g \in [0..Width -> WorldSet]
      /\ \A i \in 1..Width : worlds[i] \in WorldSet
  BY <1>2, ProgramAssumption, RootIsTask, StateOf DEF IInv, Merging
<1>4. \A w \in WorldSet : SpaceOf(w.spaces, id)[a] \in Nat
  <2>1. \A w \in WorldSet : SpaceOf(w.spaces, id) \in Bags
    BY MapFacts, NewWorldTyped DEF WorldSet, SpaceOf
  <2> QED
    BY <2>1 DEF Bags
<1>5. b \in Nat /\ wholes \in [1..Width -> Nat] /\ turns \in [0..Width -> Nat] /\ gains \in [1..Width -> Int]
  <2>1. \A i \in 1..Width : SpaceOf(worlds[i].spaces, id)[a] \in Nat /\ worlds[i] = Joined(i)
    BY <1>2, <1>3, <1>4
  <2>2. \A i \in 0..Width : SpaceOf(g[i].spaces, id)[a] \in Nat
    BY <1>3, <1>4
  <2>3. SpaceOf(World(Root).spaces, id)[a] \in Nat
    BY <1>3, <1>4
  <2>4. \A i \in 1..Width : gain(i) \in Int
    BY <2>1, <2>3
  <2> QED
    BY <2>1, <2>2, <2>3, <2>4
<1>6. sum = [i \in 0..Width |-> IF i = 0 THEN 0 ELSE sum[i - 1] + gain(i)]
  <2>1. \E s : s = [i \in 0..Width |-> IF i = 0 THEN 0 ELSE s[i - 1] + gains[i]]
    <3> HIDE DEF gains
    <3> QED
      BY <1>3, <1>5, SumsExist
  <2>2. PICK s : s = [i \in 0..Width |-> IF i = 0 THEN 0 ELSE s[i - 1] + gains[i]]
    BY <2>1
  <2>3. \A i \in 0..Width : i # 0 => gains[i] = gain(i)
    BY <1>3
  <2> HIDE DEF gains
  <2>4. s = [i \in 0..Width |-> IF i = 0 THEN 0 ELSE s[i - 1] + gain(i)]
    BY <2>2, <2>3
  <2> QED
    BY <2>4
<1> HIDE DEF sum
<1>7. sum[0] = 0 /\ \A i \in 1..Width : sum[i] = sum[i - 1] + (wholes[i] - b)
  <2>1. \A i \in 1..Width : i \in 0..Width /\ i # 0 /\ wholes[i] = SpaceOf(Joined(i).spaces, id)[a]
    BY <1>2, <1>3
  <2>2. 0 \in 0..Width
    BY <1>3
  <2> QED
    BY <1>6, <2>1, <2>2
<1>8. turns[0] = b /\ \A i \in 1..Width : turns[i] = Monus(turns[i - 1], Monus(b, wholes[i])) + Monus(wholes[i], b)
  <2>1. /\ base \in WorldSet /\ Merging(g, base, worlds) /\ Len(worlds) = Width
        /\ \A i \in 1..Len(worlds) : Retains(base, worlds[i])
    BY <1>2, <1>3
  <2> HIDE DEF base
  <2>2. ASSUME NEW i \in 1..Width
        PROVE  SpaceOf(g[i].spaces, id)[a] =
                 Monus(SpaceOf(g[i - 1].spaces, id)[a],
                       Monus(SpaceOf(base.spaces, id)[a], SpaceOf(worlds[i].spaces, id)[a]))
                     + Monus(SpaceOf(worlds[i].spaces, id)[a], SpaceOf(base.spaces, id)[a])
    <3>1. i \in 1..Len(worlds)
      BY <2>1
    <3> QED
      BY <2>1, <3>1, MergedSpace
  <2> QED
    BY <1>3, <2>2
<1>9. World(Root)'.spaces[id][a] = turns[Width]
  <2>1. \A i \in 1..Width : DOMAIN worlds[i].spaces \subseteq DOMAIN g[Width].spaces
    <3>1. base \in WorldSet /\ Merging(g, base, worlds) /\ Len(worlds) = Width
      BY <1>2, <1>3
    <3> HIDE DEF base
    <3>2. \A i \in 1..Len(worlds) : DOMAIN worlds[i].spaces \subseteq DOMAIN g[Len(worlds)].spaces
      BY <3>1, MergedRest
    <3> QED
      BY <3>1, <3>2
  <2>2. id \in DOMAIN g[Width].spaces
    BY <1>2, <2>1
  <2>3. World(Root)'.spaces = g[Width].spaces
    BY <1>2, <1>3 DEF WorldSet
  <2>4. turns[Width] = SpaceOf(g[Width].spaces, id)[a]
    BY <1>3
  <2> QED
    BY <2>2, <2>3, <2>4 DEF SpaceOf
<1>10. SUFFICES ASSUME ~ \E i, j \in 1..Width : i < j /\ gain(i) < 0 /\ gain(j) < 0
                PROVE  World(Root)'.spaces[id][a] = SpaceOf(World(Root).spaces, id)[a] + sum[Width]
  BY DEF TakenTwice, GainOfAll, Gain, sum
<1>11. \A i, j \in 1..Width : i < j => ~ (wholes[i] - b < 0 /\ wholes[j] - b < 0)
  BY <1>2, <1>10
<1> HIDE DEF b, wholes, turns
<1>12. turns[Width] = b + sum[Width]
  BY ONLY <1>3, <1>5, <1>7, <1>8, <1>11, DeltasAddUp
<1> QED
  BY <1>9, <1>12 DEF b

\* The rest of the world after a par.
LEMMA RestJoined ==
    ASSUME IInv, JoinsSound, JoinPar
    PROVE  /\ World(Root)'.removed = UNION {Joined(i).removed : i \in 1..Width}
           /\ \A id \in DOMAIN World(Root)'.cells :
                \E i \in 1..Width : id \in DOMAIN Joined(i).cells
                   /\ \/ World(Root)'.cells[id] = Joined(i).cells[id] /\ id \in Changed(World(Root), Joined(i))
                      \/ \A j \in 1..Width : id \notin Changed(World(Root), Joined(j))
<1>1. PICK worlds \in Seq(WorldSet) : \E g :
              /\ Len(worlds) = Width
              /\ \A i \in 1..Width : worlds[i] = Joined(i) /\ Retains(World(Root), worlds[i])
              /\ Merging(g, World(Root), worlds)
              /\ World(Root)' = [g[Width] EXCEPT !.version = Stamp]
              /\ g[Width] \in WorldSet
  BY ParJoined
<1>2. PICK g :
              /\ Len(worlds) = Width
              /\ \A i \in 1..Width : worlds[i] = Joined(i) /\ Retains(World(Root), worlds[i])
              /\ Merging(g, World(Root), worlds)
              /\ World(Root)' = [g[Width] EXCEPT !.version = Stamp]
              /\ g[Width] \in WorldSet
  BY <1>1
<1> DEFINE base == World(Root)
           last == g[Len(worlds)]
           n == Len(worlds)
<1>3. /\ n = Width /\ Width \in Nat /\ 1 \in 1..Width /\ base \in WorldSet /\ Merging(g, base, worlds)
      /\ World(Root)'.removed = last.removed /\ World(Root)'.cells = last.cells
      /\ \A i \in 1..n : worlds[i] = Joined(i) /\ Retains(base, worlds[i])
  <2>1. Width \in Nat /\ 1 \in 1..Width
    BY ProgramAssumption
  <2>2. base \in WorldSet
    BY RootIsTask, StateOf DEF IInv
  <2>3. World(Root)'.removed = last.removed /\ World(Root)'.cells = last.cells
    BY <1>2 DEF WorldSet
  <2> QED
    BY <1>2, <2>1, <2>2, <2>3
<1>4. /\ last.removed = base.removed \cup UNION {worlds[i].removed : i \in 1..n}
      /\ \A i \in 1..n : DOMAIN worlds[i].spaces \subseteq DOMAIN last.spaces
      /\ \A id \in DOMAIN last.cells :
           /\ id \in DOMAIN base.cells \/ \E i \in 1..n : id \in DOMAIN worlds[i].cells
           /\ \/ \E i \in 1..n : id \in Changed(base, worlds[i]) /\ last.cells[id] = worlds[i].cells[id]
              \/ \A i \in 1..n : id \notin Changed(base, worlds[i])
  <2> HIDE DEF base
  <2> QED
    BY <1>3, MergedRest
<1>5. UNION {worlds[i].removed : i \in 1..n} = UNION {Joined(i).removed : i \in 1..Width}
  BY <1>3
<1> HIDE DEF last, n
<1>6. base.removed \subseteq UNION {worlds[i].removed : i \in 1..n}
  <2>1. base.removed \subseteq worlds[1].removed
    BY <1>3 DEF Retains
  <2> QED
    BY <1>3, <2>1
<1>7. ASSUME NEW id \in DOMAIN last.cells
      PROVE  \E i \in 1..Width : id \in DOMAIN worlds[i].cells
                /\ \/ last.cells[id] = worlds[i].cells[id] /\ id \in Changed(base, worlds[i])
                   \/ \A j \in 1..Width : id \notin Changed(base, worlds[j])
  <2>1. CASE \E i \in 1..n : id \in Changed(base, worlds[i]) /\ last.cells[id] = worlds[i].cells[id]
    BY <1>3, <2>1 DEF Changed
  <2>2. CASE \A i \in 1..n : id \notin Changed(base, worlds[i])
    <3>1. \E i \in 1..Width : id \in DOMAIN worlds[i].cells
      BY <1>3, <1>4, <1>7 DEF Retains
    <3> QED
      BY <1>3, <2>2, <3>1
  <2> QED
    BY <1>4, <2>1, <2>2
<1>8. World(Root)'.removed = UNION {Joined(i).removed : i \in 1..Width}
  BY <1>3, <1>4, <1>5, <1>6
<1>9. ASSUME NEW id \in DOMAIN World(Root)'.cells
      PROVE  \E i \in 1..Width : id \in DOMAIN Joined(i).cells
                /\ \/ World(Root)'.cells[id] = Joined(i).cells[id] /\ id \in Changed(World(Root), Joined(i))
                   \/ \A j \in 1..Width : id \notin Changed(World(Root), Joined(j))
  BY <1>3, <1>7, <1>9
<1> QED
  BY <1>8, <1>9

\* A par joins what all its branches did, however they interleaved: the bags of atoms gain
\* the sum of the gains of the branches unless several took the same atom out, every
\* tombstone of a branch stays, and a cell that branches changed has the value of one of them.
THEOREM ParJoins == Spec => ParJoinsEffects
<1>1. ASSUME IInv, JoinsSound, JoinPar
      PROVE  /\ \A a \in Atoms :
                  LET self(w) == w.self
                  IN  TakenTwice(self, a) \/
                      World(Root)'.self[a] = World(Root).self[a] + GainOfAll(self, a)
             /\ \A id \in UNION {DOMAIN Joined(i).spaces : i \in 1..Width}, a \in Atoms :
                  LET space(w) == SpaceOf(w.spaces, id)
                  IN  TakenTwice(space, a) \/
                      World(Root)'.spaces[id][a] = space(World(Root))[a] + GainOfAll(space, a)
             /\ World(Root)'.removed = UNION {Joined(i).removed : i \in 1..Width}
             /\ \A id \in DOMAIN World(Root)'.cells :
                  \E i \in 1..Width : id \in DOMAIN Joined(i).cells
                     /\ \/ World(Root)'.cells[id] = Joined(i).cells[id] /\ id \in Changed(World(Root), Joined(i))
                        \/ \A j \in 1..Width : id \notin Changed(World(Root), Joined(j))
  BY <1>1, SelfJoined, SpaceJoined, RestJoined
<1> QED
  BY <1>1, JoinsAlways, Invariant, PTL DEF ParJoinsEffects
=============================================================================
