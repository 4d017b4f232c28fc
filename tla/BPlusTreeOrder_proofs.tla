----------------------- MODULE BPlusTreeOrder_proofs ------------------------
(***************************************************************************)
(* The search order is kept by every step, whatever the keys, the pool and *)
(* the capacities of the tree: each key is in one place, the one a descent *)
(* for it ends at, and clearing the tree empties it.  So the tree          *)
(* implements the ordered map: every step does to the content of the       *)
(* leaves what module OrderedMap says.                                     *)
(***************************************************************************)
EXTENDS BPlusTree_proofs, WellFoundedInduction

-----------------------------------------------------------------------------
(* The search order of a whole tree.                                       *)

(* The order while the tree is whole.                                      *)
WholeAt(lvl, zone) ==
  /\ Ordered(zone) /\ OneZone(lvl, zone) /\ Topped(lvl) /\ Hung
  /\ Fanned(zone) /\ Spanned(zone) /\ Threaded(zone)

(* What zones may be.                                                      *)
Zones == [Node -> SUBSET Key]

(* The blocks outside S keep their zones.                                  *)
Keeps(zone, z, S) == \A n \in Node : n \notin S => z[n] = zone[n]

(* A branch that has all its children parts its zone among them.           *)
LEMMA FanOf ==
  ASSUME TypeOK, NEW zone \in Zones, Fanned(zone), NEW n \in Live,
         ~(pc = "split" /\ path # <<>> /\ n = Parent)
  PROVE  Fan(zone, zone[n], keys[n], children[n])
  <1> SUFFICES ASSUME NEW i \in 1 .. Len(children[n]), NEW k \in Key
               PROVE  k \in zone[children[n][i]] <=> k \in zone[n] /\ k \in Slice(keys[n], i)
    BY DEF Fan
  <1>1. zone[children[n][i]] =
          {j \in zone[n] \cap Slice(keys[n], i) : Splits(n, i) => j < sep}
    BY DEF Fanned
  <1>2. ~Splits(n, i)
    BY DEF Splits
  <1>3. zone[children[n][i]] = zone[n] \cap Slice(keys[n], i)
    BY <1>1, <1>2
  <1> QED
    BY <1>3

(* Children are blocks.                                                    *)
LEMMA ChildNodes ==
  ASSUME TypeOK, NEW n \in Node
  PROVE  /\ keys[n] \in Seq(Key) /\ children[n] \in Seq(Node)
         /\ Len(children[n]) \in Nat
         /\ \A i \in 1 .. Len(children[n]) :
              children[n][i] \in Node /\ children[n][i] \in Kids(n)
         /\ \A x \in Kids(n) : x \in Node /\ \E i \in 1 .. Len(children[n]) : x = children[n][i]
  <1>1. keys[n] \in Seq(Key) /\ children[n] \in Seq(Node)
    BY DEF TypeOK
  <1>2. Len(children[n]) \in Nat /\ \A i \in 1 .. Len(children[n]) : children[n][i] \in Node
    BY <1>1
  <1>3. /\ \A i \in 1 .. Len(children[n]) : children[n][i] \in Range(children[n])
        /\ \A x \in Range(children[n]) : \E i \in 1 .. Len(children[n]) : x = children[n][i]
    BY <1>1, Entries
  <1> QED
    BY <1>1, <1>2, <1>3 DEF Kids

(* The same, for the state after a step that leaves no split.              *)
LEMMA FannedNext ==
  ASSUME TypeOK', NEW z \in Zones, pc' # "split",
         \A n \in Live' : Fan(z, z[n], keys'[n], children'[n])
  PROVE  Fanned(z)'
  <1> SUFFICES ASSUME NEW n \in Live', NEW i \in 1 .. Len(children'[n])
               PROVE  z[children'[n][i]] =
                        {k \in z[n] \cap Slice(keys'[n], i) : Splits(n, i)' => k < sep'}
    BY DEF Fanned
  <1>1. n \in Node
    BY DEF Live
  <1>2. children'[n][i] \in Node
    <2>1. children'[n] \in Seq(Node)
      BY <1>1 DEF TypeOK
    <2> QED
      BY <2>1
  <1>3. z[children'[n][i]] \subseteq Key /\ z[n] \subseteq Key
    BY <1>1, <1>2 DEF Zones
  <1>4. \A k \in Key : k \in z[children'[n][i]] <=> k \in z[n] /\ k \in Slice(keys'[n], i)
    BY DEF Fan
  <1>5. ~Splits(n, i)'
    BY DEF Splits
  <1> QED
    BY <1>3, <1>4, <1>5

(* Every key a descent looks for at a branch, it looks for at some child.  *)
LEMMA FilledChildren ==
  ASSUME TypeOK, NEW zone \in Zones, Ordered(zone), NEW n \in Node, Kids(n) \subseteq Live
  PROVE  Filled(zone, children[n])
  <1> SUFFICES ASSUME NEW i \in 1 .. Len(children[n])
               PROVE  \E k \in Key : k \in zone[children[n][i]]
    BY DEF Filled
  <1>1. children[n][i] \in Live /\ children[n][i] \in Node
    BY ChildNodes
  <1>2. zone[children[n][i]] # {} /\ zone[children[n][i]] \subseteq Key
    BY <1>1 DEF Ordered, Zones
  <1> QED
    BY <1>2

(* The root alone is as high as the root, and its children are all there   *)
(* is one level below it.                                                  *)
LEMMA TopLevels ==
  ASSUME NEW lvl \in [Node -> Nat], InvAt(lvl), NEW zone \in Zones, WholeAt(lvl, zone),
         Whole, pc # "split", root # Null, NEW n \in Live
  PROVE  /\ root \in Live /\ root \in Node /\ zone[root] = Key
         /\ lvl[n] = lvl[root] => n = root
         /\ n # root => lvl[n] < lvl[root]
         /\ lvl[n] + 1 = lvl[root] => n \in Kids(root)
  <1>1. TypeOK /\ Levels(lvl, tag, children) /\ right = Null /\ tag[root] # "free"
    BY DEF InvAt, Carried, Rooted
  <1>2. root \in Node /\ n \in Node
    BY <1>1 DEF TypeOK, Live
  <1>3. root \in Live
    BY <1>1, <1>2 DEF Live
  <1>4. zone[root] = Key
    BY DEF WholeAt, Spanned
  <1>5. ASSUME NEW m \in Live, lvl[m] = lvl[root]  PROVE m = root
    <2>1. m \in Node
      BY DEF Live
    <2>2. zone[m] # {} /\ zone[m] \subseteq Key
      BY <2>1 DEF WholeAt, Ordered, Zones
    <2>3. m # root => zone[m] \cap zone[root] = {}
      BY <1>3, <1>5 DEF WholeAt, OneZone
    <2> QED
      BY <1>4, <2>2, <2>3
  <1>6. lvl[n] \in Nat /\ lvl[root] \in Nat
    BY <1>2
  <1>7. lvl[n] <= lvl[root]
    BY DEF WholeAt, Topped
  <1>8. n # root => lvl[n] < lvl[root]
    BY <1>5, <1>6, <1>7, SMT
  <1>9. ASSUME lvl[n] + 1 = lvl[root]  PROVE n \in Kids(root)
    <2>1. n # root
      BY <1>6, <1>9, SMT
    <2>2. PICK p \in Live : n \in Kids(p)
      BY <1>1, <1>2, <2>1, NodeAssumption DEF WholeAt, Hung
    <2>3. lvl[p] = lvl[n] + 1
      BY <1>1, <2>2 DEF Levels, Live, Kids
    <2>4. p = root
      BY <1>5, <1>9, <2>3
    <2> QED
      BY <2>2, <2>4
  <1> QED
    BY <1>2, <1>3, <1>4, <1>5, <1>8, <1>9

(* A step that keeps the branches, and the zones of the leaves.            *)
LEMMA SameTree ==
  ASSUME NEW lvl \in [Node -> Nat], InvAt(lvl), InvAt(lvl)',
         NEW zone \in Zones, WholeAt(lvl, zone), Whole,
         pc # "split", pc' # "split", UNCHANGED <<root, tag, children>>,
         \A n \in Live : \/ keys'[n] = keys[n]
                         \/ tag[n] = "leaf" /\ Sorted(keys'[n]) /\ Range(keys'[n]) \subseteq zone[n],
         Threaded(zone)'
  PROVE  WholeAt(lvl, zone)'
  <1>1. TypeOK /\ TypeOK' /\ Shape /\ right = Null /\ right' = Null
    BY DEF InvAt, Carried
  <1>2. Live' = Live /\ \A n : Kids(n)' = Kids(n)
    BY DEF Live, Kids
  <1>3. Ordered(zone)'
    <2> SUFFICES ASSUME NEW n \in Live
                 PROVE  /\ zone[n] # {} /\ Sorted(keys'[n])
                        /\ tag'[n] = "leaf" => Range(keys'[n]) \subseteq zone[n]
      BY <1>2 DEF Ordered
    <2>1. /\ zone[n] # {} /\ Sorted(keys[n])
          /\ tag[n] = "leaf" => Range(keys[n]) \subseteq zone[n]
      BY DEF WholeAt, Ordered
    <2> QED
      BY <2>1
  <1>4. OneZone(lvl, zone)' /\ Topped(lvl)' /\ Hung'
    BY <1>1, <1>2 DEF WholeAt, OneZone, Topped, Hung
  <1>5. Fanned(zone)'
    <2>1. ASSUME NEW n \in Live  PROVE Fan(zone, zone[n], keys'[n], children'[n])
      <3>1. Fan(zone, zone[n], keys[n], children[n])
        BY <1>1, FanOf DEF WholeAt
      <3>2. CASE keys'[n] = keys[n]
        BY <3>1, <3>2
      <3>3. CASE tag[n] = "leaf"
        <4>1. children[n] = <<>>
          BY <1>1, <3>3 DEF Shape, Live
        <4>2. \A i : i \notin 1 .. Len(children'[n])
          BY <4>1, SMT
        <4> QED
          BY <4>2 DEF Fan
      <3> QED
        BY <3>2, <3>3
    <2> QED
      BY <1>1, <1>2, <2>1, FannedNext
  <1>6. Spanned(zone)'
    BY DEF WholeAt, Spanned
  <1> QED
    BY <1>3, <1>4, <1>5, <1>6 DEF WholeAt

(* A sorted node has no key twice.                                         *)
LEMMA SortedInjective ==
  ASSUME NEW ks \in Seq(Key), Sorted(ks)
  PROVE  IsInjective(ks)
  BY OnePlace, Entries

(* What a proof about a step on a whole tree has to show.                  *)
LEMMA OrderNext ==
  ASSUME NEW lvl \in [Node -> Nat], NEW zone, NEW S, NEW z \in Zones, Keeps(zone, z, S),
         pc' # "free", Whole' => WholeAt(lvl, z)'
  PROVE  \E Z \in Zones : OrderAt(lvl, Z)' /\ Keeps(zone, Z, S)
  <1>1. OrderAt(lvl, z)'
    BY DEF OrderAt, WholeAt
  <1> QED
    BY <1>1

(* Zones that stay are kept.                                               *)
LEMMA KeepsAll ==
  ASSUME NEW zone, NEW S
  PROVE  Keeps(zone, zone, S)
  BY DEF Keeps

(* The leaf a call has reached is the one that holds its key.              *)
LEMMA AtItsLeaf ==
  ASSUME NEW lvl \in [Node -> Nat], InvAt(lvl), NEW zone \in Zones, OrderAt(lvl, zone),
         pc = "descend", cur # Null
  PROVE  /\ WholeAt(lvl, zone) /\ cur \in Live /\ cur \in Node /\ key \in zone[cur] /\ key \in Key
         /\ keys[cur] \in Seq(Key) /\ Sorted(keys[cur])
         /\ tag[cur] = "leaf" => Range(keys[cur]) \subseteq zone[cur]
  <1>1. TypeOK /\ tag[cur] # "free"
    BY DEF InvAt, Walked
  <1>2. cur \in Node /\ keys[cur] \in Seq(Key) /\ key \in Key
    BY <1>1 DEF TypeOK
  <1>3. cur \in Live
    BY <1>1, <1>2 DEF Live
  <1>4. WholeAt(lvl, zone)
    BY DEF OrderAt, WholeAt, Whole
  <1> QED
    BY <1>2, <1>3, <1>4 DEF WholeAt, Threaded, Ordered

(* An insert into a leaf keeps it sorted and within its zone.              *)
LEMMA LeafInserts ==
  ASSUME NEW lvl \in [Node -> Nat], InvAt(lvl), NEW zone \in Zones, OrderAt(lvl, zone),
         AtLeaf("insert"), ~Hit
  PROVE  /\ Slot + 1 \in 1 .. Len(keys[cur]) + 1
         /\ InsertAt(keys[cur], Slot + 1, key) \in Seq(Key)
         /\ Sorted(InsertAt(keys[cur], Slot + 1, key))
         /\ Range(InsertAt(keys[cur], Slot + 1, key)) \subseteq zone[cur]
  <1>1. /\ pc = "descend" /\ cur # Null /\ tag[cur] = "leaf"
        /\ cur \in Node /\ key \in zone[cur] /\ key \in Key
        /\ keys[cur] \in Seq(Key) /\ Sorted(keys[cur]) /\ Range(keys[cur]) \subseteq zone[cur]
    BY AtItsLeaf DEF AtLeaf
  <1>2. TypeOK /\ Shape
    BY DEF InvAt
  <1> DEFINE i == Slot + 1
  <1>3. i \in 1 .. Len(keys[cur]) + 1
    <2>1. Slot \in 0 .. Len(keys[cur]) /\ Len(keys[cur]) \in Nat
      BY <1>1, <1>2, Searched, BlockTypes DEF Slot
    <2> QED
      BY <2>1, SMT
  <1>4. Sorted(InsertAt(keys[cur], i, key))
    BY <1>1, SortedInsert DEF Hit, Slot
  <1> HIDE DEF i
  <1>5. /\ InsertAt(keys[cur], i, key) \in Seq(Key)
        /\ Adds(keys[cur], key, InsertAt(keys[cur], i, key))
    BY <1>1, <1>3, InsertedType, InsertAdds
  <1>6. Range(InsertAt(keys[cur], i, key)) \subseteq zone[cur]
    BY <1>1, <1>5 DEF Adds
  <1> QED
    BY <1>3, <1>4, <1>5, <1>6 DEF i

(* A step inside one leaf, and a panic, keep the order.                    *)
LEMMA QuietOrder ==
  ASSUME NEW lvl \in [Node -> Nat], InvAt(lvl), InvAt(lvl)',
         NEW zone \in Zones, OrderAt(lvl, zone), Quiet
  PROVE  \E Z \in Zones : OrderAt(lvl, Z)' /\ Keeps(zone, Z, {})
  <1>1. TypeOK
    BY DEF InvAt
  <1>2. CASE AllocFails \/ MergePanics
    <2>1. pc' # "free" /\ ~Whole'
      BY <1>2 DEF AllocFails, MergePanics, Leave, Whole
    <2> QED
      BY <2>1, OrderNext, KeepsAll
  <1>3. ASSUME pc \in {"descend", "fix"}, pc' = "idle",
               UNCHANGED <<root, tag, children>>,
               \A n \in Live :
                 \/ keys'[n] = keys[n]
                 \/ tag[n] = "leaf" /\ Sorted(keys'[n]) /\ Range(keys'[n]) \subseteq zone[n]
        PROVE  \E Z \in Zones : OrderAt(lvl, Z)' /\ Keeps(zone, Z, {})
    <2>1. WholeAt(lvl, zone) /\ Whole
      BY <1>3 DEF OrderAt, WholeAt, Whole
    <2>2. Threaded(zone)'
      BY <1>3 DEF Threaded
    <2>3. WholeAt(lvl, zone)'
      BY <1>3, <2>1, <2>2, SameTree
    <2> QED
      BY <1>3, <2>3, OrderNext, KeepsAll
  <1>4. CASE MissEmpty \/ Get \/ GetMut \/ InsertReplace \/ RemoveMiss \/ RemoveReturns
    <2>1. /\ pc \in {"descend", "fix"} /\ pc' = "idle"
          /\ UNCHANGED <<root, tag, children>> /\ keys' = keys
      BY <1>4 DEF MissEmpty, Get, GetMut, InsertReplace, RemoveMiss, RemoveReturns,
                  AtLeaf, Repaired, Return, Leave, heap
    <2> QED
      BY <1>3, <2>1
  <1>5. CASE InsertIntoLeafSlot
    <2>1. /\ AtLeaf("insert") /\ ~Hit /\ pc = "descend" /\ pc' = "idle" /\ tag[cur] = "leaf"
          /\ UNCHANGED <<root, tag, children>> /\ cur \in Node
          /\ keys' = [keys EXCEPT ![cur] = InsertAt(keys[cur], Slot + 1, key)]
      BY <1>1, <1>5 DEF InsertIntoLeafSlot, AtLeaf, Return, Leave, TypeOK
    <2>2. /\ Sorted(InsertAt(keys[cur], Slot + 1, key))
          /\ Range(InsertAt(keys[cur], Slot + 1, key)) \subseteq zone[cur]
      BY <2>1, LeafInserts
    <2>3. ASSUME NEW n \in Live
          PROVE  \/ keys'[n] = keys[n]
                 \/ tag[n] = "leaf" /\ Sorted(keys'[n]) /\ Range(keys'[n]) \subseteq zone[n]
      <3>1. CASE n = cur
        <4>1. keys'[cur] = InsertAt(keys[cur], Slot + 1, key)
          BY <1>1, <2>1 DEF TypeOK
        <4> QED
          BY <2>1, <2>2, <3>1, <4>1
      <3>2. CASE n # cur
        BY <2>1, <3>2
      <3> QED
        BY <3>1, <3>2
    <2> QED
      BY <1>3, <2>1, <2>3
  <1> QED
    BY <1>2, <1>4, <1>5 DEF Quiet

(* So does the removal of an item.                                         *)
LEMMA RemoveHitOrder ==
  ASSUME NEW lvl \in [Node -> Nat], InvAt(lvl), InvAt(lvl)',
         NEW zone \in Zones, OrderAt(lvl, zone), RemoveHit
  PROVE  \E Z \in Zones : OrderAt(lvl, Z)' /\ Keeps(zone, Z, {})
  <1>1. /\ TypeOK /\ Hit /\ pc = "descend" /\ cur # Null /\ tag[cur] = "leaf" /\ pc' = "fix"
        /\ UNCHANGED <<root, tag, children>>
        /\ keys' = [keys EXCEPT ![cur] = RemoveAt(keys[cur], Slot)]
    BY DEF RemoveHit, AtLeaf, InvAt
  <1>2. /\ WholeAt(lvl, zone) /\ cur \in Node /\ key \in Key
        /\ keys[cur] \in Seq(Key) /\ Sorted(keys[cur])
        /\ Range(keys[cur]) \subseteq zone[cur]
    BY <1>1, AtItsLeaf
  <1>3. Slot \in 1 .. Len(keys[cur])
    BY <1>1, <1>2, FoundAtRank DEF Slot, Hit
  <1> DEFINE t == RemoveAt(keys[cur], Slot)
  <1>4. Sorted(t)
    BY <1>2, <1>3, SlicesRemoved
  <1>5. Range(t) \subseteq zone[cur]
    <2>1. Drops(keys[cur], keys[cur][Slot], t)
      BY <1>2, <1>3, RemoveDrops
    <2>2. IsInjective(keys[cur])
      BY <1>2, SortedInjective
    <2> QED
      BY <1>2, <2>1, <2>2 DEF Drops
  <1>6. keys'[cur] = t /\ \A n \in Node : n # cur => keys'[n] = keys[n]
    BY <1>1, <1>2 DEF TypeOK
  <1> HIDE DEF t
  <1>7. ASSUME NEW n \in Live
        PROVE  \/ keys'[n] = keys[n]
               \/ tag[n] = "leaf" /\ Sorted(keys'[n]) /\ Range(keys'[n]) \subseteq zone[n]
    BY <1>1, <1>4, <1>5, <1>6 DEF Live
  <1>8. Whole /\ Threaded(zone)'
    BY <1>1 DEF Whole, Threaded
  <1>9. WholeAt(lvl, zone)'
    BY <1>1, <1>2, <1>7, <1>8, SameTree
  <1> QED
    BY <1>1, <1>9, OrderNext, KeepsAll

(* So does a new call.                                                     *)
LEMMA CallOrder ==
  ASSUME NEW lvl \in [Node -> Nat], InvAt(lvl), InvAt(lvl)', NEW zone \in Zones, OrderAt(lvl, zone),
         NEW o, NEW k \in Key, NEW v \in Val, Call(o, k, v)
  PROVE  \E Z \in Zones : OrderAt(lvl, Z)' /\ Keeps(zone, Z, {})
  <1>1. /\ pc = "idle" /\ pc' = "descend" /\ key' = k /\ cur' = root /\ path' = path
        /\ UNCHANGED <<root, tag, keys, children>>
    BY DEF Call, heap
  <1>2. WholeAt(lvl, zone) /\ Whole
    BY <1>1 DEF OrderAt, WholeAt, Whole
  <1>3. path = <<>> /\ TypeOK
    BY <1>1 DEF InvAt, Walked, Walking
  <1>4. root # Null => zone[root] = Key
    BY <1>1, <1>2 DEF WholeAt, Spanned
  <1>5. \A i : i \notin 1 .. Len(path') - 1
    BY <1>1, <1>3, SMT
  <1>6. Threaded(zone)'
    BY <1>1, <1>3, <1>4, <1>5 DEF Threaded
  <1>7. WholeAt(lvl, zone)'
    BY <1>1, <1>2, <1>6, SameTree
  <1> QED
    BY <1>1, <1>7, OrderNext, KeepsAll

(* child_for_key finds the child with the key's zone.                      *)
LEMMA DescendOrder ==
  ASSUME NEW lvl \in [Node -> Nat], InvAt(lvl), InvAt(lvl)',
         NEW zone \in Zones, OrderAt(lvl, zone), Descend
  PROVE  \E Z \in Zones : OrderAt(lvl, Z)' /\ Keeps(zone, Z, {})
  <1> DEFINE pos == Rank(keys[cur], key) + 1
             f == [node |-> cur, pos |-> pos]
             c == children[cur][pos]
  <1>1. /\ pc = "descend" /\ cur # Null /\ tag[cur] = "branch" /\ pc' = "descend"
        /\ path' = Append(path, f) /\ cur' = c
        /\ UNCHANGED <<root, tag, keys, children, key>>
    BY DEF Descend, heap, call
  <1>2. /\ TypeOK /\ Shape /\ WholeAt(lvl, zone) /\ cur \in Live /\ cur \in Node
        /\ key \in zone[cur] /\ key \in Key /\ keys[cur] \in Seq(Key) /\ Sorted(keys[cur])
        /\ path \in Seq(Frame) /\ Whole
    BY <1>1, AtItsLeaf DEF InvAt, TypeOK, Whole
  <1>3. /\ Len(children[cur]) = Len(keys[cur]) + 1
        /\ pos \in 1 .. Len(keys[cur]) + 1 /\ key \in Slice(keys[cur], pos)
    BY <1>1, <1>2, BlockTypes, RankSlice
  <1>4. pos \in Nat
    BY <1>3
  <1>5. f \in Frame /\ f.node = cur /\ f.pos = pos
    BY <1>2, <1>4 DEF Frame
  <1>6. key \in zone[c]
    <2>1. Fan(zone, zone[cur], keys[cur], children[cur])
      BY <1>1, <1>2, FanOf DEF WholeAt
    <2> HIDE DEF pos
    <2> QED
      BY <1>2, <1>3, <2>1 DEF Fan
  <1> HIDE DEF f, pos
  <1>7. /\ path' \in Seq(Frame) /\ Len(path') = Len(path) + 1 /\ Len(path) \in Nat
        /\ \A i \in 1 .. Len(path) : path'[i] = path[i]
        /\ path'[Len(path) + 1] = f
    BY <1>1, <1>2, <1>5, Pushed, LenProperties
  <1>8. path' # <<>> /\ Last(path') = f
    <2>1. Len(path') >= 1
      BY <1>7, SMT
    <2>2. Last(path') = path'[Len(path')]
      BY <1>7, <2>1, Ends
    <2>3. path' # <<>>
      BY <2>1, SMT
    <2> QED
      BY <1>7, <2>2, <2>3
  <1>9. Threaded(zone)'
    <2>1. path'[1].node = root
      <3>1. CASE path = <<>>
        <4>1. Len(path) + 1 = 1 /\ cur = root
          BY <1>1, <1>2, <3>1, SMT DEF WholeAt, Threaded
        <4> QED
          BY <1>5, <1>7, <4>1
      <3>2. CASE path # <<>>
        <4>1. 1 \in 1 .. Len(path)
          BY <1>2, <1>7, <3>2, EmptySeq, SMT
        <4>2. path[1].node = root
          BY <1>1, <1>2, <3>2 DEF WholeAt, Threaded
        <4> QED
          BY <1>7, <4>1, <4>2
      <3> QED
        BY <3>1, <3>2
    <2>2. ASSUME NEW i \in 1 .. Len(path') - 1  PROVE Follows(i)'
      <3>1. i \in 1 .. Len(path) /\ (i \in 1 .. Len(path) - 1 \/ i = Len(path))
            /\ (i \in 1 .. Len(path) - 1 => i + 1 \in 1 .. Len(path))
        BY <1>7, SMT
      <3>2. CASE i \in 1 .. Len(path) - 1
        <4>1. path'[i] = path[i] /\ path'[i + 1] = path[i + 1]
          BY <1>7, <3>1, <3>2
        <4>2. path # <<>> /\ Follows(i)
          BY <1>1, <1>2, <3>2 DEF WholeAt, Threaded
        <4> QED
          BY <1>1, <4>1, <4>2 DEF Follows
      <3>3. CASE i = Len(path)
        <4>1. path # <<>>
          BY <1>7, <3>1, SMT
        <4>2. Top = path[Len(path)]
          BY <1>2, <4>1, TopFrame
        <4>3. cur = children[path[i].node][path[i].pos]
          BY <1>1, <1>2, <3>3, <4>1, <4>2 DEF WholeAt, Threaded, Parent
        <4>4. path'[i] = path[i] /\ path'[i + 1].node = cur
          BY <1>5, <1>7, <3>1, <3>3
        <4> QED
          BY <1>1, <4>3, <4>4 DEF Follows
      <3> QED
        BY <3>1, <3>2, <3>3
    <2>3. Parent' = cur /\ (Top.pos)' = pos
      BY <1>5, <1>8 DEF Parent, Top
    <2> QED
      BY <1>1, <1>6, <1>8, <2>1, <2>2, <2>3 DEF Threaded
  <1>10. WholeAt(lvl, zone)'
    BY <1>1, <1>2, <1>9, SameTree
  <1> QED
    BY <1>1, <1>10, OrderNext, KeepsAll

(* So does a repair with nothing to repair.                                *)
LEMMA FixNothingOrder ==
  ASSUME NEW lvl \in [Node -> Nat], InvAt(lvl), InvAt(lvl)',
         NEW zone \in Zones, OrderAt(lvl, zone), FixNothing
  PROVE  \E Z \in Zones : OrderAt(lvl, Z)' /\ Keeps(zone, Z, {})
  <1>1. pc = "fix" /\ pc' = "fix" /\ UNCHANGED <<root, tag, keys, children>>
    BY DEF FixNothing, Fixing, heap
  <1>2. WholeAt(lvl, zone) /\ Whole /\ Threaded(zone)'
    BY <1>1 DEF OrderAt, WholeAt, Whole, Threaded
  <1>3. WholeAt(lvl, zone)'
    BY <1>1, <1>2, SameTree
  <1> QED
    BY <1>1, <1>3, OrderNext, KeepsAll

-----------------------------------------------------------------------------
(* insert.                                                                 *)

(* The first leaf is looked at for every key.                              *)
LEMMA AllocRootOrder ==
  ASSUME NEW lvl \in [Node -> Nat], InvAt(lvl), InvAt(lvl)',
         NEW zone \in Zones, OrderAt(lvl, zone), AllocRoot
  PROVE  \E Z \in Zones : OrderAt(lvl, Z)' /\ Keeps(zone, Z, {NewNode})
  <1>0. PICK n : n = NewNode
    OBVIOUS
  <1> DEFINE z == [zone EXCEPT ![n] = Key]
  <1>1. /\ pc = "descend" /\ cur = Null /\ CanAlloc /\ pc' = "descend"
        /\ root' = n /\ cur' = n /\ tag' = [tag EXCEPT ![n] = "leaf"]
        /\ UNCHANGED <<keys, children, key, path>>
    BY <1>0 DEF AllocRoot, call
  <1>2. /\ TypeOK /\ TypeOK' /\ Shape /\ Rooted /\ root = Null
        /\ \A i \in 1 .. Len(path) : OnPath(lvl, path[i], i)
    BY <1>1 DEF InvAt, Walked, Walking
  <1>3. n \in Node /\ tag[n] = "free" /\ keys[n] = <<>> /\ children[n] = <<>>
    BY <1>0, <1>1, <1>2, NewBlock
  <1>4. path = <<>>
    <2>1. \A i \in 1 .. Len(path) : FALSE
      BY <1>2 DEF OnPath
    <2>2. path \in Seq(Frame)
      BY <1>2 DEF TypeOK
    <2>3. Len(path) = 0
      BY <2>1, <2>2, SMT
    <2> QED
      BY <2>2, <2>3, EmptySeq, SMT
  <1>5. Live = {}
    BY <1>1, <1>2 DEF OrderAt, Whole, Topped
  <1>6. Live' = {n}
    BY <1>1, <1>2, <1>3, <1>5 DEF Live, TypeOK
  <1>7. z \in Zones /\ z[n] = Key /\ Keeps(zone, z, {n})
    BY <1>3 DEF Zones, Keeps
  <1> HIDE DEF z
  <1>8. n # Null /\ root' # Null
    BY <1>1, <1>3, NodeAssumption
  <1>9. Ordered(z)' /\ OneZone(lvl, z)' /\ Topped(lvl)' /\ Hung'
    <2>1. Sorted(keys'[n]) /\ Range(keys'[n]) = {}
      <3>1. keys'[n] = <<>>
        BY <1>1, <1>3
      <3>2. \A i : i \notin 1 .. Len(<<>>)
        BY SMT
      <3>3. Sorted(<<>>)
        BY <3>2 DEF Sorted
      <3>4. \A y : y \notin Range(<<>>)
        BY EmptyEntries
      <3> QED
        BY <3>1, <3>3, <3>4
    <2>2. lvl[n] <= lvl[n]
      BY <1>3, SMT
    <2> QED
      BY <1>1, <1>6, <1>7, <1>8, <2>1, <2>2, KeyAssumption DEF Ordered, OneZone, Topped, Hung
  <1>10. Fanned(z)'
    <2>1. \A i : i \notin 1 .. Len(children'[n])
      BY <1>1, <1>3, SMT
    <2>2. \A m \in Live' : Fan(z, z[m], keys'[m], children'[m])
      BY <1>6, <2>1 DEF Fan
    <2> QED
      BY <1>1, <1>2, <1>7, <2>2, FannedNext
  <1>11. Spanned(z)'
    BY <1>1, <1>7 DEF Spanned
  <1>12. Threaded(z)'
    <2>1. key' \in Key
      BY <1>2 DEF TypeOK
    <2>2. \A i : i \notin 1 .. Len(path') - 1
      BY <1>1, <1>4, SMT
    <2> QED
      BY <1>1, <1>4, <1>7, <2>1, <2>2 DEF Threaded
  <1>13. WholeAt(lvl, z)'
    BY <1>9, <1>10, <1>11, <1>12 DEF WholeAt
  <1> QED
    BY <1>0, <1>1, <1>7, <1>13, OrderNext

(* x was split: its right half n took the keys from s on, and waits for    *)
(* the branch above it, if there is one.                                   *)
SplitOff(x, n, s) ==
  /\ pc' = "split" /\ root' = root /\ right' = n /\ sep' = s
  /\ tag'[n] = tag[x]
  /\ \A m \in Node : m # n => tag'[m] = tag[m]
  /\ \A m \in Node : m # x /\ m # n => keys'[m] = keys[m] /\ children'[m] = children[m]
  /\ path' = <<>> => x = root
  /\ path' # <<>> => /\ Parent' \in Live /\ Top'.pos \in 1 .. Len(children[Parent'])
                     /\ x # root /\ x = children[Parent'][Top'.pos]
                     /\ path'[1].node = root
                     /\ \A i \in 1 .. Len(path') - 1 : Follows(i)'

(* x gives the keys of its zone from s on to the new block n.              *)
LEMMA SplitOrder ==
  ASSUME NEW lvl \in [Node -> Nat], InvAt(lvl), InvAt(lvl)',
         NEW zone \in Zones, WholeAt(lvl, zone), Whole,
         NEW x \in Live, NEW n \in Node, tag[n] = "free", lvl[n] = lvl[x],
         Loose(children, n), NEW s \in Key, SplitOff(x, n, s), Hung', zone[root] = Key,
         Sorted(keys'[x]), Sorted(keys'[n]),
         \E k \in zone[x] : k < s, \E k \in zone[x] : s <= k,
         tag[x] = "leaf" => /\ Range(keys'[x]) \subseteq Low(zone[x], s)
                            /\ Range(keys'[n]) \subseteq High(zone[x], s),
         Fan(zone, Low(zone[x], s), keys'[x], children'[x]),
         Fan(zone, High(zone[x], s), keys'[n], children'[n]),
         \A m \in Live : m # x => Fan(zone, zone[m], keys[m], children[m])
  PROVE  \E Z \in Zones : OrderAt(lvl, Z)' /\ Keeps(zone, Z, {x, n})
  <1> DEFINE Z == zone[x]
             z == [zone EXCEPT ![x] = Low(Z, s), ![n] = High(Z, s)]
  <1>1. /\ TypeOK /\ TypeOK' /\ Shape /\ OneOwner(children) /\ Levels(lvl, tag, children)
        /\ Levels(lvl, tag', children') /\ Rooted
    BY DEF InvAt
  <1>2. x \in Node /\ tag[x] # "free" /\ x # n /\ n \notin Live
    BY DEF Live
  <1>3. Z \subseteq Key
    BY <1>2 DEF Zones
  <1>4. /\ z \in Zones /\ z[x] = Low(Z, s) /\ z[n] = High(Z, s)
        /\ \A m \in Node : m # x /\ m # n => z[m] = zone[m]
    BY <1>2, <1>3 DEF Zones, Low, High
  <1> HIDE DEF z
  <1>5. Live' = Live \cup {n}
    BY <1>1, <1>2 DEF Live, SplitOff
  <1>6. (\A m \in Live : m \in Node) /\ \A m \in Live' : m \in Node /\ (m # n => m \in Live)
    BY <1>5 DEF Live
  <1>7. root \in Live /\ root \in Node /\ root # Null /\ root' = root
    <2>1. root # Null /\ root' = root
      BY DEF InvAt, Rooted, SplitOff
    <2> QED
      BY <1>1, <2>1 DEF Rooted, TypeOK, Live
  <1>8. /\ \A k : k \in z[x] <=> k \in Z /\ k < s
        /\ \A k : k \in z[n] <=> k \in Z /\ s <= k
    BY <1>4 DEF Low, High
  <1>9. Ordered(z)'
    <2> SUFFICES ASSUME NEW m \in Live'
                 PROVE  /\ z[m] # {} /\ Sorted(keys'[m])
                        /\ tag'[m] = "leaf" => Range(keys'[m]) \subseteq z[m]
      BY DEF Ordered
    <2>1. CASE m = x
      <3>1. tag'[m] = tag[x] /\ z[m] # {}
        BY <1>2, <1>8, <2>1 DEF SplitOff
      <3> QED
        BY <1>4, <2>1, <3>1
    <2>2. CASE m = n
      <3>1. tag'[m] = tag[x] /\ z[m] # {}
        BY <1>2, <1>8, <2>2 DEF SplitOff
      <3> QED
        BY <1>4, <2>2, <3>1
    <2>3. CASE m # x /\ m # n
      <3>1. m \in Live /\ m \in Node
        BY <1>6, <2>3
      <3>2. z[m] = zone[m] /\ keys'[m] = keys[m] /\ tag'[m] = tag[m]
        BY <1>4, <2>3, <3>1 DEF SplitOff
      <3> QED
        BY <3>1, <3>2 DEF WholeAt, Ordered
    <2> QED
      BY <2>1, <2>2, <2>3
  <1>10. OneZone(lvl, z)'
    <2>1. ASSUME NEW m \in Live, lvl[m] = lvl[x], m # x  PROVE zone[m] \cap Z = {}
      BY <2>1 DEF WholeAt, OneZone
    <2>2. z[x] \cap z[n] = {}
      <3>1. ASSUME NEW k \in Key  PROVE ~(k < s /\ s <= k)
        <4>1. k \in Int /\ s \in Int
          BY KeyAssumption
        <4> QED
          BY ONLY <4>1, SMT
      <3> QED
        BY <1>3, <1>8, <3>1
    <2> SUFFICES ASSUME NEW l \in Live', NEW m \in Live', lvl[l] = lvl[m], l # m
                 PROVE  z[l] \cap z[m] = {}
      BY DEF OneZone
    <2>3. ASSUME NEW u \in Live', NEW w \in Live', lvl[u] = lvl[w], u # w, u \in {x, n},
                 w \notin {x, n}
          PROVE  z[u] \cap z[w] = {}
      <3>1. w \in Live /\ w \in Node /\ z[w] = zone[w] /\ lvl[w] = lvl[x]
        BY <1>4, <1>6, <2>3
      <3>2. zone[w] \cap Z = {}
        BY <2>1, <2>3, <3>1
      <3>3. z[u] \subseteq Z
        BY <1>8, <2>3
      <3> QED
        BY <3>1, <3>2, <3>3
    <2>4. CASE l \in {x, n} /\ m \in {x, n}
      BY <2>2, <2>4
    <2>5. CASE l \notin {x, n} /\ m \notin {x, n}
      <3>1. l \in Live /\ m \in Live /\ z[l] = zone[l] /\ z[m] = zone[m]
        BY <1>4, <1>6, <2>5
      <3> QED
        BY <3>1 DEF WholeAt, OneZone
    <2> QED
      BY <2>3, <2>4, <2>5
  <1>11. Topped(lvl)'
    BY <1>5, <1>7 DEF WholeAt, Topped
  <1>12. /\ \A m \in Node : \A y \in Kids(m) : y # n /\ lvl[m] = lvl[y] + 1
         /\ \A m \in Node : \A y \in Range(children'[m]) : lvl[m] = lvl[y] + 1
    BY <1>1 DEF Levels, Kids, Loose
  <1>13. ASSUME NEW m \in Live', m \in {x, n}, NEW i \in 1 .. Len(children'[m])
         PROVE  LET y == children'[m][i] IN y \in Node /\ y # x /\ y # n /\ z[y] = zone[y]
    <2> DEFINE y == children'[m][i]
    <2>1. y \in Range(children'[m]) /\ y \in Node /\ m \in Node
      <3>1. m \in Node /\ children'[m] \in Seq(Node)
        BY <1>1, <1>6 DEF TypeOK
      <3> QED
        BY <3>1, Entries
    <2>2. lvl[m] = lvl[y] + 1 /\ lvl[y] \in Nat
      BY <1>12, <2>1
    <2>3. lvl[y] # lvl[m]
      BY <2>2, SMT
    <2> QED
      BY <1>4, <1>13, <2>1, <2>3
  <1>14. ASSUME NEW m \in Live, m # x, NEW i \in 1 .. Len(children[m])
         PROVE  LET y == children[m][i]
                IN  /\ y \in Node /\ y # n
                    /\ zone[y] = zone[m] \cap Slice(keys[m], i)
                    /\ y # x => z[y] = zone[y]
                    /\ Splits(m, i)' <=> y = x
                    /\ z[m] = zone[m] \/ m = n
    <2> DEFINE y == children[m][i]
    <2>1. m \in Node /\ y \in Node /\ y \in Kids(m)
      BY <1>1, <1>6, ChildNodes
    <2>2. y # n /\ (y # x => z[y] = zone[y]) /\ (z[m] = zone[m] \/ m = n)
      BY <1>4, <1>12, <1>14, <2>1
    <2>3. zone[y] = zone[m] \cap Slice(keys[m], i)
      <3>1. \A k \in Key : k \in zone[y] <=> k \in zone[m] /\ k \in Slice(keys[m], i)
        BY <1>14 DEF Fan
      <3>2. zone[y] \subseteq Key /\ zone[m] \subseteq Key
        BY <2>1 DEF Zones
      <3> QED
        BY <3>1, <3>2
    <2>4. Splits(m, i)' => y = x
      BY DEF Splits, SplitOff
    <2>5. ASSUME y = x  PROVE Splits(m, i)'
      <3>1. x # root
        BY <1>1, <2>1, <2>5 DEF Rooted, Loose, Kids
      <3>2. /\ path' # <<>> /\ Parent' \in Live
            /\ Top'.pos \in 1 .. Len(children[Parent']) /\ x = children[Parent'][Top'.pos]
        BY <3>1 DEF SplitOff
      <3>3. Parent' \in Node
        BY <1>6, <3>2
      <3>4. x \in Range(children[Parent'])
        BY <1>1, <3>2, <3>3, ChildNodes DEF Kids
      <3>5. m = Parent'
        BY <1>1, <2>1, <2>5, <3>3, <3>4 DEF OneOwner, Kids
      <3>6. i = Top'.pos
        <4>1. children[m] \in Seq(Node) /\ IsInjective(children[m])
          BY <1>1, <2>1 DEF OneOwner, TypeOK
        <4> QED
          BY <2>5, <3>2, <3>5, <4>1, Entries
      <3> QED
        BY <3>2, <3>5, <3>6 DEF Splits, SplitOff
    <2> QED
      BY <2>1, <2>2, <2>3, <2>4, <2>5
  <1>15. path' # <<>> => Parent' # x /\ Parent' # n /\ Parent' \in Live /\ Parent' \in Node
    <2> SUFFICES ASSUME path' # <<>>  PROVE Parent' # x /\ Parent' \in Live
      BY <1>2, <1>6
    <2>1. /\ Parent' \in Live /\ Top'.pos \in 1 .. Len(children[Parent'])
          /\ x = children[Parent'][Top'.pos]
      BY DEF SplitOff
    <2>2. x \in Kids(Parent') /\ Parent' \in Node
      BY <1>1, <1>6, <2>1, ChildNodes
    <2>3. lvl[Parent'] = lvl[x] + 1 /\ lvl[x] \in Nat
      BY <1>2, <1>12, <2>2
    <2>4. lvl[Parent'] # lvl[x]
      BY <2>3, SMT
    <2> QED
      BY <2>1, <2>4
  <1>16. Fanned(z)'
    <2> SUFFICES ASSUME NEW m \in Live', NEW i \in 1 .. Len(children'[m])
                 PROVE  z[children'[m][i]] =
                          {k \in z[m] \cap Slice(keys'[m], i) : Splits(m, i)' => k < sep'}
      BY DEF Fanned
    <2>1. ASSUME m \in {x, n}, Fan(zone, z[m], keys'[m], children'[m])
          PROVE  z[children'[m][i]] =
                   {k \in z[m] \cap Slice(keys'[m], i) : Splits(m, i)' => k < sep'}
      <3> DEFINE y == children'[m][i]
      <3>1. y \in Node /\ z[y] = zone[y] /\ m \in Node
        BY <1>6, <1>13, <2>1
      <3>2. ~Splits(m, i)'
        BY <1>15, <2>1 DEF Splits
      <3>3. \A k \in Key : k \in z[y] <=> k \in z[m] /\ k \in Slice(keys'[m], i)
        BY <2>1, <3>1 DEF Fan
      <3>4. z[y] \subseteq Key /\ z[m] \subseteq Key
        BY <1>4, <3>1 DEF Zones
      <3> QED
        BY <3>2, <3>3, <3>4
    <2>2. CASE m = x
      BY <1>4, <2>1, <2>2
    <2>3. CASE m = n
      BY <1>4, <2>1, <2>3
    <2>4. CASE m # x /\ m # n
      <3> DEFINE y == children[m][i]
      <3>1. m \in Live /\ m \in Node /\ keys'[m] = keys[m] /\ children'[m] = children[m]
        BY <1>6, <2>4 DEF SplitOff
      <3>2. /\ zone[y] = zone[m] \cap Slice(keys[m], i) /\ (y # x => z[y] = zone[y])
            /\ (Splits(m, i)' <=> y = x) /\ z[m] = zone[m]
        BY <1>14, <2>4, <3>1
      <3>3. sep' = s
        BY DEF SplitOff
      <3>4. CASE y = x
        <4>1. z[y] = {k \in zone[y] : k < s}
          BY <1>4, <3>4 DEF Low
        <4> QED
          BY <3>1, <3>2, <3>3, <3>4, <4>1
      <3>5. CASE y # x
        BY <3>1, <3>2, <3>5
      <3> QED
        BY <3>4, <3>5
    <2> QED
      BY <2>2, <2>3, <2>4
  <1>17. Spanned(z)'
    <2>1. pc' = "split" /\ sep' = s /\ right' = n
      BY DEF SplitOff
    <2>2. CASE path' = <<>>
      <3>1. x = root
        BY <2>2 DEF SplitOff
      <3> QED
        BY <1>4, <1>7, <2>1, <2>2, <3>1 DEF Spanned, Low, High
    <2>3. CASE path' # <<>>
      <3>1. /\ Parent' \in Live /\ Parent' \in Node /\ Parent' # x /\ Parent' # n
            /\ Top'.pos \in 1 .. Len(children[Parent'])
            /\ x # root /\ x = children[Parent'][Top'.pos]
        BY <1>15, <2>3 DEF SplitOff
      <3>2. Z = zone[Parent'] \cap Slice(keys[Parent'], Top'.pos)
        BY <1>14, <3>1
      <3>3. keys'[Parent'] = keys[Parent'] /\ z[Parent'] = zone[Parent']
        BY <1>4, <3>1 DEF SplitOff
      <3>4. z[root] = Key
        BY <1>2, <1>4, <1>7, <3>1
      <3>5. z[n] = {k \in z[Parent'] \cap Slice(keys'[Parent'], Top'.pos) : s <= k}
        BY <1>4, <3>2, <3>3 DEF High
      <3> QED
        BY <1>7, <2>1, <2>3, <3>4, <3>5 DEF Spanned
    <2> QED
      BY <2>2, <2>3
  <1>18. Threaded(z)'
    BY <1>7 DEF SplitOff, Threaded
  <1>19. WholeAt(lvl, z)' /\ pc' # "free"
    BY <1>9, <1>10, <1>11, <1>16, <1>17, <1>18 DEF WholeAt, SplitOff
  <1>20. Keeps(zone, z, {x, n})
    BY <1>4 DEF Keeps
  <1> QED
    BY <1>4, <1>19, <1>20, OrderNext

(* A leaf split parts the zone of the leaf at the first key on the right.  *)
LEMMA SplitLeafOrder ==
  ASSUME NEW lvl \in [Node -> Nat], InvAt(lvl), InvAt(lvl)',
         NEW zone \in Zones, OrderAt(lvl, zone), SplitLeaf
  PROVE  \E Z \in Zones : OrderAt(lvl, Z)' /\ Keeps(zone, Z, {cur, NewNode})
  <1>1. PICK n : n = NewNode
    OBVIOUS
  <1>2. PICK x : x = cur
    OBVIOUS
  <1>3. PICK lk : lk = LeafSplitLeft(keys[cur], Slot, key)
    OBVIOUS
  <1>4. PICK rk : rk = LeafSplitRight(keys[cur], Slot, key)
    OBVIOUS
  <1>5. PICK s : s = rk[1]
    OBVIOUS
  <1>6. /\ AtLeaf("insert") /\ ~Hit /\ pc = "descend" /\ cur # Null /\ tag[x] = "leaf" /\ CanAlloc
        /\ Len(keys[x]) >= LeafCap
        /\ tag' = [tag EXCEPT ![n] = "leaf"]
        /\ keys' = [keys EXCEPT ![x] = lk, ![n] = rk]
        /\ right' = n /\ sep' = s /\ pc' = "split"
        /\ UNCHANGED <<root, children, path>>
    BY <1>1, <1>2, <1>3, <1>4, <1>5 DEF SplitLeaf, AtLeaf
  <1>7. /\ TypeOK /\ TypeOK' /\ Shape /\ Rooted /\ Levels(lvl, tag, children)
        /\ Levels(lvl, tag', children') /\ right = Null /\ Whole
    BY <1>6 DEF InvAt, Carried, Whole
  <1>8. /\ WholeAt(lvl, zone) /\ x \in Live /\ x \in Node /\ key \in zone[x] /\ key \in Key
        /\ keys[x] \in Seq(Key) /\ Sorted(keys[x]) /\ Range(keys[x]) \subseteq zone[x]
    BY <1>2, <1>6, AtItsLeaf
  <1>9. /\ n \in Node /\ tag[n] = "free" /\ children[n] = <<>> /\ Loose(children, n) /\ x # n
    BY <1>1, <1>6, <1>7, <1>8, NewBlock
  <1>10. /\ lk \in Seq(Key) /\ rk \in Seq(Key) /\ s \in Key
    BY <1>2, <1>3, <1>4, <1>5, <1>6, <1>7, <1>8, SplitLeafShape
  <1>11. /\ tag'[n] = "leaf" /\ (\A m \in Node : m # n => tag'[m] = tag[m])
         /\ keys'[x] = lk /\ keys'[n] = rk
         /\ \A m \in Node : m # x /\ m # n => keys'[m] = keys[m]
    BY <1>6, <1>7, <1>8, <1>9 DEF TypeOK
  <1>12. lvl[n] = 0 /\ lvl[x] = 0 /\ children[x] = <<>>
    BY <1>6, <1>7, <1>8, <1>9, <1>11, BlockTypes DEF Levels
  <1>13. /\ lk \o rk = InsertAt(keys[x], Slot + 1, key) /\ Len(lk) >= 1 /\ Len(rk) >= 1
    <2>1. Slot \in 0 .. Len(keys[x]) /\ Len(keys[x]) >= 1
      <3>1. Slot \in 0 .. Len(keys[x])
        BY <1>2, <1>7, <1>8, Searched DEF Slot
      <3>2. Len(keys[x]) >= LeafCap /\ Len(keys[x]) \in Nat
        BY <1>6, <1>8, KeysAreInts
      <3> QED
        BY <3>1, <3>2, Caps, SMT
    <2>2. LeafSplitCuts(keys[x], Slot, key)
      BY <1>8, <2>1, LeafSplitIsInsertAndCut
    <2> QED
      BY <1>2, <1>3, <1>4, <2>2 DEF LeafSplitCuts
  <1>14. Sorted(lk \o rk) /\ Range(lk \o rk) \subseteq zone[x]
    BY <1>2, <1>6, <1>13, LeafInserts
  <1>15. /\ Sorted(lk) /\ Sorted(rk)
         /\ \A i \in 1 .. Len(lk), j \in 1 .. Len(rk) : lk[i] < rk[j]
    BY <1>10, <1>14, SortedConcat
  <1>16. Range(lk) \subseteq zone[x] /\ Range(rk) \subseteq zone[x]
    BY <1>10, <1>14, ConcatJoins DEF Joins
  <1>17. 1 \in 1 .. Len(lk) /\ 1 \in 1 .. Len(rk)
         /\ (\A i \in 1 .. Len(lk) : lk[i] \in Int) /\ (\A i \in 1 .. Len(rk) : rk[i] \in Int)
    <2>1. Len(lk) \in Nat /\ Len(rk) \in Nat
      BY <1>10
    <2>2. 1 \in 1 .. Len(lk) /\ 1 \in 1 .. Len(rk)
      BY <1>13, <2>1, SMT
    <2> QED
      BY <1>10, <2>2, KeysAreInts
  <1>18. Range(lk) \subseteq Low(zone[x], s)
    <2> SUFFICES ASSUME NEW k \in Range(lk)  PROVE k < s
      BY <1>16 DEF Low
    <2>1. PICK i \in 1 .. Len(lk) : k = lk[i]
      BY <1>10, Entries
    <2> QED
      BY <1>5, <1>15, <1>17, <2>1
  <1>19. Range(rk) \subseteq High(zone[x], s)
    <2> SUFFICES ASSUME NEW k \in Range(rk)  PROVE s <= k
      BY <1>16 DEF High
    <2>1. PICK i \in 1 .. Len(rk) : k = rk[i]
      BY <1>10, Entries
    <2>2. i = 1 \/ 1 < i
      BY <2>1, SMT
    <2>3. rk[1] = rk[i] \/ rk[1] < rk[i]
      BY <1>15, <1>17, <2>1, <2>2 DEF Sorted
    <2> QED
      BY <1>5, <1>17, <2>1, <2>3
  <1>20. (\E k \in zone[x] : k < s) /\ \E k \in zone[x] : s <= k
    <2>1. lk[1] \in Range(lk) /\ rk[1] \in Range(rk)
      BY <1>10, <1>17, Entries
    <2> QED
      BY <1>18, <1>19, <2>1 DEF Low, High
  <1>21. root \in Live /\ root # Null /\ zone[root] = Key
         /\ lvl[x] + Len(path) = lvl[root]
    <2>1. root # Null /\ root \in Node /\ lvl[x] + Len(path) = lvl[root]
      BY <1>2, <1>6, <1>7 DEF InvAt, Walked, TypeOK
    <2> QED
      BY <1>6, <1>7, <1>8, <2>1 DEF Rooted, Live, WholeAt, Spanned
  <1>22. SplitOff(x, n, s)
    <2>1. path' = <<>> => x = root
      BY <1>2, <1>6, <1>8 DEF WholeAt, Threaded
    <2>2. ASSUME path' # <<>>
          PROVE  /\ Parent' \in Live /\ Top'.pos \in 1 .. Len(children[Parent'])
                 /\ x # root /\ x = children[Parent'][Top'.pos]
                 /\ path'[1].node = root
                 /\ \A i \in 1 .. Len(path') - 1 : Follows(i)'
      <3>1. path # <<>> /\ Parent' = Parent /\ Top' = Top /\ Walking
        BY <1>6, <2>2 DEF Parent, Top, Walking
      <3>2. /\ Parent \in Node /\ tag[Parent] = "branch"
            /\ Top.pos \in 1 .. Len(keys[Parent]) + 1
            /\ Len(children[Parent]) = Len(keys[Parent]) + 1
        BY <3>1, ParentFacts
      <3>3. Parent \in Live /\ Top.pos \in 1 .. Len(children[Parent])
        BY <3>2 DEF Live
      <3>4. x # root
        <4>1. Len(path) \in Nat /\ Len(path) >= 1 /\ lvl[x] \in Nat
          BY <1>7, <1>8, <3>1, TopFrame
        <4>2. lvl[x] # lvl[root]
          BY <1>21, <4>1, SMT
        <4> QED
          BY <4>2
      <3>5. x = children[Parent][Top.pos] /\ path[1].node = root
            /\ \A i \in 1 .. Len(path) - 1 : Follows(i)
        BY <1>2, <1>6, <1>8, <3>1 DEF WholeAt, Threaded
      <3>6. \A i \in 1 .. Len(path') - 1 : Follows(i)'
        BY <1>6, <3>5 DEF Follows
      <3> QED
        BY <1>6, <3>1, <3>3, <3>4, <3>5, <3>6
    <2> QED
      BY <1>6, <1>11, <2>1, <2>2 DEF SplitOff
  <1>23. Hung'
    <2>1. \A m \in Live' : m \in Live \/ m = n
      BY <1>11 DEF Live
    <2>2. \A m \in Live : m \in Live'
      BY <1>9, <1>11 DEF Live
    <2>3. \A m \in Live : m = root \/ \E p \in Live : m \in Kids(p)
      BY <1>7, <1>8, NodeAssumption DEF WholeAt, Hung, Live
    <2> QED
      BY <1>6, <2>1, <2>2, <2>3 DEF Hung, Kids
  <1>24. /\ Fan(zone, Low(zone[x], s), keys'[x], children'[x])
         /\ Fan(zone, High(zone[x], s), keys'[n], children'[n])
    <2>1. \A i : i \notin 1 .. Len(children'[x]) /\ i \notin 1 .. Len(children'[n])
      BY <1>6, <1>9, <1>12, SMT
    <2> QED
      BY <2>1 DEF Fan
  <1>25. \A m \in Live : m # x => Fan(zone, zone[m], keys[m], children[m])
    BY <1>6, <1>7, <1>8, FanOf DEF WholeAt
  <1>26. lvl[n] = lvl[x] /\ Sorted(keys'[x]) /\ Sorted(keys'[n])
         /\ Range(keys'[x]) \subseteq Low(zone[x], s) /\ Range(keys'[n]) \subseteq High(zone[x], s)
    BY <1>11, <1>12, <1>15, <1>18, <1>19
  <1>27. {x, n} = {cur, NewNode}
    BY <1>1, <1>2
  <1> QED
    BY <1>7, <1>8, <1>9, <1>10, <1>20, <1>21, <1>22, <1>23, <1>24, <1>25, <1>26, <1>27, SplitOrder

(* What the parent of a split child holds once the halves are both in it.  *)
LEMMA SplitJoins ==
  ASSUME NEW lvl \in [Node -> Nat], InvAt(lvl), NEW zone \in Zones, WholeAt(lvl, zone),
         pc = "split", path # <<>>
  PROVE  LET ks == InsertAt(keys[Parent], Top.pos, sep)
             cs == InsertAt(children[Parent], Top.pos + 1, right)
         IN  /\ ks \in Seq(Key) /\ cs \in Seq(Node) /\ Len(cs) = Len(ks) + 1
             /\ Adds(children[Parent], right, cs)
             /\ Sorted(ks) /\ Fan(zone, zone[Parent], ks, cs)
             /\ \A x \in Range(cs) : x \in Live
  <1>1. PICK p : p = Parent
    OBVIOUS
  <1>2. PICK pos : pos = Top.pos
    OBVIOUS
  <1> DEFINE ks == InsertAt(keys[p], pos, sep)
             q  == pos + 1
             cs == InsertAt(children[p], q, right)
             L  == Len(keys[p])
  <1>3. TypeOK /\ Shape /\ Rooted /\ sep \in Key
    BY DEF InvAt, TypeOK
  <1>4. /\ p \in Node /\ tag[p] = "branch" /\ p \in Live
        /\ keys[p] \in Seq(Key) /\ children[p] \in Seq(Node)
        /\ L \in Nat /\ Len(children[p]) = L + 1
        /\ pos \in 1 .. L + 1
    BY <1>1, <1>2, ParentFacts DEF Walking, Live
  <1>5. right \in Node /\ right \in Live
    BY SplitFacts DEF Live
  <1>6. pos \in 1 .. Len(children[p]) /\ q \in 1 .. Len(children[p]) + 1
    BY <1>4, SMT
  <1>7. /\ Ordered(zone) /\ Sorted(keys[p])
        /\ \A x \in Kids(p) : x \in Live
    BY <1>3, <1>4 DEF WholeAt, Ordered, Rooted, Kids
  <1>8. /\ \A i \in 1 .. Len(children[p]) :
             zone[children[p][i]] =
               {k \in zone[p] \cap Slice(keys[p], i) : i = pos => k < sep}
        /\ zone[right] = {k \in zone[p] \cap Slice(keys[p], pos) : sep <= k}
    BY <1>1, <1>2, <1>4 DEF WholeAt, Fanned, Spanned, Splits
  <1>9. \A x \in Live : x \in Node /\ \E k \in Key : k \in zone[x]
    BY <1>7 DEF Ordered, Live, Zones
  <1>10. Adds(children[p], right, cs) /\ cs \in Seq(Node) /\ Len(cs) = Len(children[p]) + 1
    <2> HIDE DEF q
    <2> QED
      BY <1>4, <1>5, <1>6, InsertAdds, InsertedType
  <1>11. ks \in Seq(Key) /\ Len(ks) = L + 1
    BY <1>3, <1>4, InsertedType
  <1>12. Sorted(ks) /\ Fan(zone, zone[p], ks, cs)
    <2>1. \A i \in 1 .. Len(children[p]) : children[p][i] \in Kids(p)
      BY <1>3, <1>4, ChildNodes
    <2>2. (\E k \in Key : k \in zone[children[p][pos]]) /\ \E k \in Key : k \in zone[right]
      BY <1>5, <1>6, <1>7, <1>9, <2>1
    <2>3. /\ \A i \in 1 .. Len(children[p]), k \in Key :
               i # pos => (k \in zone[children[p][i]] <=> k \in zone[p] /\ k \in Slice(keys[p], i))
          /\ \A k \in Key : k \in zone[children[p][pos]] <=>
               k \in zone[p] /\ k \in Slice(keys[p], pos) /\ k < sep
          /\ \A k \in Key : k \in zone[right] <=>
               k \in zone[p] /\ k \in Slice(keys[p], pos) /\ sep <= k
      BY <1>6, <1>8
    <2> QED
      BY <1>3, <1>4, <1>5, <1>6, <1>7, <2>2, <2>3, FanInsert
  <1>13. \A x \in Range(cs) : x \in Live
    BY <1>5, <1>7, <1>10 DEF Adds, Kids
  <1>14. Len(cs) = Len(ks) + 1
    BY <1>4, <1>10, <1>11
  <1> QED
    BY <1>1, <1>2, <1>10, <1>11, <1>12, <1>13, <1>14

(* A branch split parts the zone of the branch at the promoted key.        *)
LEMMA BranchInsertAndSplitOrder ==
  ASSUME NEW lvl \in [Node -> Nat], InvAt(lvl), InvAt(lvl)',
         NEW zone \in Zones, OrderAt(lvl, zone), BranchInsertAndSplit,
         lvl[NewNode] = lvl[Parent]
  PROVE  \E Z \in Zones : OrderAt(lvl, Z)' /\ Keeps(zone, Z, {Parent, NewNode})
  <1>1. PICK n : n = NewNode
    OBVIOUS
  <1>2. PICK p : p = Parent
    OBVIOUS
  <1>3. PICK b : b = BranchSplit(keys[Parent], children[Parent], Top.pos - 1, sep, right)
    OBVIOUS
  <1>4. PICK lk : lk = b.lkeys
    OBVIOUS
  <1>5. PICK rk : rk = b.rkeys
    OBVIOUS
  <1>6. PICK lc : lc = b.lchilds
    OBVIOUS
  <1>7. PICK rc : rc = b.rchilds
    OBVIOUS
  <1>8. PICK s : s = b.promote
    OBVIOUS
  <1>9. PICK ks : ks = InsertAt(keys[Parent], Top.pos, sep)
    OBVIOUS
  <1>10. PICK cs : cs = InsertAt(children[Parent], Top.pos + 1, right)
    OBVIOUS
  <1>11. /\ pc = "split" /\ path # <<>> /\ Len(keys[p]) >= BranchCap /\ CanAlloc
         /\ tag' = [tag EXCEPT ![n] = "branch"]
         /\ keys' = [keys EXCEPT ![p] = lk, ![n] = rk]
         /\ children' = [children EXCEPT ![p] = lc, ![n] = rc]
         /\ sep' = s /\ right' = n /\ path' = Front(path)
         /\ root' = root /\ pc' = "split"
    BY <1>1, <1>2, <1>3, <1>4, <1>5, <1>6, <1>7, <1>8
       DEF BranchInsertAndSplit, BranchFull, PopPath
  <1>12. /\ TypeOK /\ TypeOK' /\ Shape /\ Rooted /\ OneOwner(children)
         /\ Whole /\ WholeAt(lvl, zone) /\ sep \in Key
         /\ \A i \in 1 .. Len(path) : OnPath(lvl, path[i], i)
    BY <1>11 DEF InvAt, Whole, OrderAt, WholeAt, TypeOK, Walked, Walking
  <1>13. /\ p \in Node /\ p \in Live /\ tag[p] = "branch"
         /\ keys[p] \in Seq(Key) /\ children[p] \in Seq(Node)
         /\ Len(keys[p]) \in Nat
         /\ Len(children[p]) = Len(keys[p]) + 1
         /\ Top.pos \in 1 .. Len(keys[p]) + 1
         /\ root \in Node /\ root \in Live
         /\ lvl[p] + Len(path) = lvl[root] + 1
         /\ \A i \in 1 .. Len(path) - 1 :
              /\ path[i].node \in Node /\ tag[path[i].node] = "branch"
              /\ lvl[path[i].node] > lvl[p]
    BY <1>2, <1>11, ParentFacts DEF Walking, Live
  <1>14. right \in Node /\ right \in Live
    BY <1>11, SplitFacts DEF Live
  <1>15. n \in Node /\ tag[n] = "free" /\ Loose(children, n) /\ n # p /\ n # right /\ lvl[n] = lvl[p]
    BY <1>1, <1>2, <1>11, <1>12, <1>13, <1>14, NewBlock DEF Live
  <1>16. /\ ks \in Seq(Key) /\ cs \in Seq(Node) /\ Len(cs) = Len(ks) + 1
         /\ Adds(children[p], right, cs)
         /\ Sorted(ks) /\ Fan(zone, zone[p], ks, cs)
         /\ \A x \in Range(cs) : x \in Live
    BY <1>2, <1>9, <1>10, <1>11, <1>12, SplitJoins
  <1>17. /\ Around(lk, s, rk) = ks /\ lc \o rc = cs
         /\ Len(lc) = Len(lk) + 1 /\ Len(rc) = Len(rk) + 1
         /\ s \in Key /\ lk \in Seq(Key) /\ rk \in Seq(Key)
         /\ lc \in Seq(Node) /\ rc \in Seq(Node)
    <2>1. PICK t : t = Top.pos
      OBVIOUS
    <2>2. t - 1 \in 0 .. Len(keys[p]) /\ Len(keys[p]) >= 1 /\ t - 1 + 1 = t /\ t - 1 + 2 = t + 1
      <3>1. Len(keys[p]) \in Nat /\ Len(keys[p]) >= BranchCap /\ t \in 1 .. Len(keys[p]) + 1
        BY <1>11, <1>13, <2>1
      <3> QED
        BY <3>1, Caps, SMT
    <2>3. b = BranchSplit(keys[p], children[p], t - 1, sep, right)
      BY <1>2, <1>3, <2>1
    <2>4. BranchSplitCuts(keys[p], children[p], t - 1, sep, right) /\ BranchHalves(Key, Node, keys[p], b)
      BY <1>12, <1>13, <1>14, <2>2, <2>3, BranchSplitIsInsertAndCut
    <2>5. /\ lk \o <<s>> \o rk = InsertAt(keys[p], t, sep)
          /\ lc \o rc = InsertAt(children[p], t + 1, right)
          /\ Len(lc) = Len(lk) + 1 /\ Len(rc) = Len(rk) + 1
      BY <1>4, <1>5, <1>6, <1>7, <1>8, <2>2, <2>3, <2>4 DEF BranchSplitCuts
    <2>6. /\ s \in Key /\ lk \in Seq(Key) /\ rk \in Seq(Key)
          /\ lc \in Seq(Node) /\ rc \in Seq(Node)
      BY <1>4, <1>5, <1>6, <1>7, <1>8, <2>4 DEF BranchHalves
    <2> QED
      BY <1>2, <1>9, <1>10, <2>1, <2>5, <2>6 DEF Around
  <1>18. /\ tag'[n] = "branch" /\ (\A m \in Node : m # n => tag'[m] = tag[m])
         /\ keys'[p] = lk /\ keys'[n] = rk /\ children'[p] = lc /\ children'[n] = rc
         /\ \A m \in Node : m # p /\ m # n => keys'[m] = keys[m] /\ children'[m] = children[m]
    BY <1>11, <1>12, <1>13, <1>15 DEF TypeOK
  <1>19. /\ Fan(zone, Low(zone[p], s), lk, lc)
         /\ Fan(zone, High(zone[p], s), rk, rc)
         /\ Sorted(lk) /\ Sorted(rk)
    <2>1. Sorted(Around(lk, s, rk)) /\ Fan(zone, zone[p], Around(lk, s, rk), lc \o rc)
      BY <1>16, <1>17
    <2> QED
      BY <1>17, <2>1, FanCut, AroundSorted
  <1>20. Joins(lc, rc, cs)
    BY <1>17, ConcatJoins
  <1>21. \A x \in Live : x \in Node /\ \E k \in Key : k \in zone[x]
    BY <1>12 DEF WholeAt, Ordered, Live, Zones
  <1>22. 1 \in 1 .. Len(lc) /\ 1 \in 1 .. Len(rc)
    <2>1. Len(lk) \in Nat /\ Len(rk) \in Nat
      BY <1>17
    <2> QED
      BY <1>17, <2>1, SMT
  <1>23. \E k \in zone[p] : k < s
    <2>1. lc[1] \in Live
      BY <1>16, <1>17, <1>20, <1>22, Entries DEF Joins
    <2>2. PICK k \in Key : k \in zone[lc[1]]
      BY <1>21, <2>1
    <2>3. k \in Low(zone[p], s)
      BY <1>19, <1>22, <2>2 DEF Fan
    <2> QED
      BY <2>3 DEF Low
  <1>24. \E k \in zone[p] : s <= k
    <2>1. rc[1] \in Live
      BY <1>16, <1>17, <1>20, <1>22, Entries DEF Joins
    <2>2. PICK k \in Key : k \in zone[rc[1]]
      BY <1>21, <2>1
    <2>3. k \in High(zone[p], s)
      BY <1>19, <1>22, <2>2 DEF Fan
    <2> QED
      BY <2>3 DEF High
  <1>25. /\ Len(path) \in Nat /\ Len(path) >= 1
         /\ Top = path[Len(path)] /\ path' \in Seq(Frame) /\ Len(path') = Len(path) - 1
         /\ \A i \in 1 .. Len(path) - 1 : path'[i] = path[i] /\ i \in 1 .. Len(path)
         /\ path[1].node = root
         /\ \A i \in 1 .. Len(path) - 1 : Follows(i)
    BY <1>11, <1>12, TopFrame DEF WholeAt, Threaded
  <1>26. \A i \in 1 .. Len(path) - 1 : path[i].node # p /\ path[i].node # n /\ path[i].node \in Live
    <2> TAKE i \in 1 .. Len(path) - 1
    <2>1. path[i].node \in Node /\ tag[path[i].node] = "branch" /\ lvl[path[i].node] > lvl[p]
      BY <1>13
    <2>2. lvl[path[i].node] # lvl[p]
      BY <1>13, <2>1, SMT
    <2> QED
      BY <1>15, <2>1, <2>2 DEF Live
  <1>27. SplitOff(p, n, s)
    <2>1. ASSUME path' = <<>>  PROVE p = root
      <3>1. Len(path) = 1
        BY <1>25, <2>1, SMT
      <3> QED
        BY <1>2, <1>25, <3>1 DEF Parent
    <2>2. ASSUME path' # <<>>
          PROVE  /\ Parent' \in Live /\ Top'.pos \in 1 .. Len(children[Parent'])
                 /\ p # root /\ p = children[Parent'][Top'.pos]
                 /\ path'[1].node = root
                 /\ \A i \in 1 .. Len(path') - 1 : Follows(i)'
      <3>1. PICK l : l = Len(path) - 1
        OBVIOUS
      <3>2. Len(path') >= 1 /\ l \in 1 .. Len(path) - 1 /\ l + 1 = Len(path) /\ l = Len(path')
            /\ 1 \in 1 .. Len(path) - 1
        <4>1. Len(path') # 0 /\ Len(path') \in Nat
          BY <1>25, <2>2
        <4> QED
          BY <1>25, <3>1, <4>1, SMT
      <3>3. Top' = path[l]
        <4>1. Last(path') = path'[Len(path')]
          BY <1>25, <3>2, Ends
        <4> QED
          BY <1>25, <3>2, <4>1 DEF Top
      <3>4. OnPath(lvl, path[l], l)
        BY <1>12, <1>25, <3>2
      <3>5. Parent' = path[l].node /\ Parent' \in Live
            /\ Top'.pos \in 1 .. Len(children[Parent'])
        BY <1>26, <3>2, <3>3, <3>4 DEF OnPath, Parent
      <3>6. p = children[Parent'][Top'.pos]
        <4>1. path[l + 1].node = children[path[l].node][path[l].pos]
          BY <1>25, <3>2 DEF Follows
        <4> QED
          BY <1>2, <1>25, <3>2, <3>3, <3>5, <4>1 DEF Parent
      <3>7. p # root
        <4>1. lvl[p] \in Nat /\ lvl[root] \in Nat /\ Len(path) >= 2
          BY <1>13, <1>25, <3>2, SMT
        <4>2. lvl[p] # lvl[root]
          BY <1>13, <1>25, <4>1, SMT
        <4> QED
          BY <4>2
      <3>8. ASSUME NEW i \in 1 .. Len(path') - 1  PROVE Follows(i)'
        <4>1. i \in 1 .. Len(path) - 1 /\ i + 1 \in 1 .. Len(path) - 1
          BY <1>25, SMT
        <4>2. path'[i] = path[i] /\ path'[i + 1] = path[i + 1] /\ Follows(i)
          BY <1>25, <4>1
        <4>3. path[i].node \in Node /\ path[i].node # p /\ path[i].node # n
          BY <1>13, <1>26, <4>1
        <4> QED
          BY <1>18, <4>2, <4>3 DEF Follows
      <3> QED
        BY <1>25, <3>2, <3>5, <3>6, <3>7, <3>8
    <2> QED
      BY <1>11, <1>13, <1>18, <2>1, <2>2 DEF SplitOff
  <1>28. Hung'
    <2>1. Live' = Live \cup {n}
      BY <1>15, <1>18 DEF Live
    <2>2. ASSUME NEW m \in Range(cs)  PROVE \E q \in Live' : m \in Kids(q)'
      <3>1. m \in Range(lc) \/ m \in Range(rc)
        BY <1>20, <2>2 DEF Joins
      <3>2. Kids(p)' = Range(lc) /\ Kids(n)' = Range(rc)
        BY <1>18 DEF Kids
      <3> QED
        BY <1>13, <2>1, <3>1, <3>2
    <2>3. right \in Range(cs) /\ \A x \in Kids(p) : x \in Range(cs)
      BY <1>16 DEF Adds, Kids
    <2>4. ASSUME NEW m \in Live, NEW q \in Live, m \in Kids(q)
          PROVE  \E o \in Live' : m \in Kids(o)'
      <3>1. CASE q = p
        BY <2>2, <2>3, <2>4, <3>1
      <3>2. CASE q # p
        <4>1. q # n /\ q \in Node
          BY <1>15 DEF Live
        <4>2. Kids(q)' = Kids(q)
          BY <1>18, <3>2, <4>1 DEF Kids
        <4> QED
          BY <2>1, <2>4, <4>2
      <3> QED
        BY <3>1, <3>2
    <2> SUFFICES ASSUME NEW m \in Live'
                 PROVE  m \in {root', right'} \/ \E q \in Live' : m \in Kids(q)'
      BY DEF Hung
    <2>5. m = n \/ (m \in Live /\ (m \in {root, right} \/ \E q \in Live : m \in Kids(q)))
      BY <1>12, <2>1 DEF WholeAt, Hung
    <2> QED
      BY <1>11, <2>2, <2>3, <2>4, <2>5
  <1>29. zone[root] = Key
    BY <1>11, <1>12 DEF WholeAt, Spanned, Rooted
  <1>30. \A m \in Live : m # p => Fan(zone, zone[m], keys[m], children[m])
    BY <1>2, <1>12, FanOf DEF WholeAt
  <1>31. tag[p] # "leaf"
    BY <1>13
  <1>32. /\ Sorted(keys'[p]) /\ Sorted(keys'[n])
         /\ Fan(zone, Low(zone[p], s), keys'[p], children'[p])
         /\ Fan(zone, High(zone[p], s), keys'[n], children'[n])
    BY <1>18, <1>19
  <1>33. {p, n} = {Parent, NewNode}
    BY <1>1, <1>2
  <1> QED
    BY <1>33, <1>12, <1>13, <1>15, <1>17, <1>23, <1>24, <1>27, <1>28, <1>29, <1>30, <1>31, <1>32, SplitOrder

-----------------------------------------------------------------------------
(* Steps that leave no split.                                              *)

(* What a proof about the end of an insert or a repair has to show.        *)
LEMMA OrderSettled ==
  ASSUME NEW lvl \in [Node -> Nat], InvAt(lvl)', NEW zone, NEW S, NEW z \in Zones, Keeps(zone, z, S),
         pc' \in {"idle", "fix"},
         Ordered(z)', OneZone(lvl, z)', Topped(lvl)', Hung',
         root' # Null => z[root'] = Key,
         \A n \in Live' : Fan(z, z[n], keys'[n], children'[n])
  PROVE  \E Z \in Zones : OrderAt(lvl, Z)' /\ Keeps(zone, Z, S)
  <1>1. TypeOK'
    BY DEF InvAt
  <1>2. Fanned(z)'
    BY <1>1, FannedNext
  <1>3. Spanned(z)' /\ Threaded(z)'
    BY DEF Spanned, Threaded
  <1>4. WholeAt(lvl, z)'
    BY <1>2, <1>3 DEF WholeAt
  <1> QED
    BY <1>4, OrderNext

(* The right half gets the part of the zone it was cut off with.           *)
LEMMA InsertIntoBranchOrder ==
  ASSUME NEW lvl \in [Node -> Nat], InvAt(lvl), InvAt(lvl)',
         NEW zone \in Zones, OrderAt(lvl, zone), InsertIntoBranch
  PROVE  \E Z \in Zones : OrderAt(lvl, Z)' /\ Keeps(zone, Z, {})
  <1>1. PICK p : p = Parent
    OBVIOUS
  <1>2. PICK ks : ks = InsertAt(keys[Parent], Top.pos, sep)
    OBVIOUS
  <1>3. PICK cs : cs = InsertAt(children[Parent], Top.pos + 1, right)
    OBVIOUS
  <1>4. /\ pc = "split" /\ path # <<>> /\ pc' = "idle"
        /\ keys' = [keys EXCEPT ![p] = ks] /\ children' = [children EXCEPT ![p] = cs]
        /\ UNCHANGED <<root, tag>>
    BY <1>1, <1>2, <1>3 DEF InsertIntoBranch, Return, Leave
  <1>5. TypeOK /\ WholeAt(lvl, zone)
    BY <1>4 DEF InvAt, OrderAt, WholeAt, Whole
  <1>6. p \in Node /\ p \in Live /\ tag[p] = "branch"
    BY <1>1, <1>4, ParentFacts DEF Walking, Live
  <1>7. /\ Adds(children[p], right, cs)
        /\ Sorted(ks) /\ Fan(zone, zone[p], ks, cs)
    BY <1>1, <1>2, <1>3, <1>4, <1>5, SplitJoins
  <1>8. /\ keys'[p] = ks /\ children'[p] = cs
        /\ \A m \in Node : m # p => keys'[m] = keys[m] /\ children'[m] = children[m]
    BY <1>4, <1>5, <1>6 DEF TypeOK
  <1>9. Live' = Live /\ \A m \in Live : m \in Node
    BY <1>4 DEF Live
  <1>10. OneZone(lvl, zone)' /\ Topped(lvl)'
    BY <1>4, <1>5, <1>9 DEF WholeAt, OneZone, Topped
  <1>11. Ordered(zone)'
    <2> SUFFICES ASSUME NEW m \in Live
                 PROVE  /\ zone[m] # {} /\ Sorted(keys'[m])
                        /\ tag[m] = "leaf" => Range(keys'[m]) \subseteq zone[m]
      BY <1>4, <1>9 DEF Ordered
    <2>1. /\ zone[m] # {} /\ Sorted(keys[m])
          /\ tag[m] = "leaf" => Range(keys[m]) \subseteq zone[m]
      BY <1>5 DEF WholeAt, Ordered
    <2> QED
      BY <1>6, <1>7, <1>8, <1>9, <2>1
  <1>12. Hung'
    <2>1. \A q \in Node : \A x \in Kids(q) : x \in Kids(q)'
      BY <1>7, <1>8 DEF Adds, Kids
    <2>2. right \in Kids(p)'
      BY <1>7, <1>8 DEF Adds, Kids
    <2>3. \A m \in Live : m \in {root, right} \/ \E q \in Live : m \in Kids(q)
      BY <1>5 DEF WholeAt, Hung
    <2> QED
      BY <1>4, <1>6, <1>9, <2>1, <2>2, <2>3 DEF Hung
  <1>13. ASSUME NEW m \in Live'  PROVE Fan(zone, zone[m], keys'[m], children'[m])
    <2>1. CASE m = p
      BY <1>7, <1>8, <2>1
    <2>2. CASE m # p
      <3>1. m \in Live /\ m \in Node
        BY <1>9
      <3>2. Fan(zone, zone[m], keys[m], children[m])
        BY <1>1, <1>5, <2>2, <3>1, FanOf DEF WholeAt
      <3> QED
        BY <1>8, <2>2, <3>1, <3>2
    <2> QED
      BY <2>1, <2>2
  <1>14. root' # Null => zone[root'] = Key
    BY <1>4, <1>5 DEF WholeAt, Spanned
  <1> QED
    BY <1>4, <1>10, <1>11, <1>12, <1>13, <1>14, OrderSettled, KeepsAll

(* The root's halves part all keys between them.                           *)
LEMMA NewRootOrder ==
  ASSUME NEW lvl \in [Node -> Nat], InvAt(lvl), InvAt(lvl)',
         NEW zone \in Zones, OrderAt(lvl, zone), NewRoot, lvl[NewNode] = lvl[root] + 1
  PROVE  \E Z \in Zones : OrderAt(lvl, Z)' /\ Keeps(zone, Z, {NewNode})
  <1>1. PICK n : n = NewNode
    OBVIOUS
  <1>2. PICK ks : ks = <<sep>>
    OBVIOUS
  <1>3. PICK cs : cs = <<root, right>>
    OBVIOUS
  <1> DEFINE z == [zone EXCEPT ![n] = Key]
  <1>4. /\ pc = "split" /\ path = <<>> /\ pc' = "idle" /\ CanAlloc
        /\ keys' = [keys EXCEPT ![n] = ks] /\ children' = [children EXCEPT ![n] = cs]
        /\ tag' = [tag EXCEPT ![n] = "branch"] /\ root' = n
    BY <1>1, <1>2, <1>3 DEF NewRoot, Return, Leave
  <1>5. /\ TypeOK /\ Shape /\ Rooted /\ WholeAt(lvl, zone) /\ sep \in Key
    BY <1>4 DEF InvAt, OrderAt, WholeAt, Whole, TypeOK
  <1>6. /\ root \in Node /\ right \in Node /\ root \in Live /\ right \in Live
        /\ right # root
    BY <1>4, <1>5, SplitFacts DEF Rooted, Live
  <1>7. /\ n \in Node /\ tag[n] = "free" /\ Loose(children, n)
        /\ n \notin Live /\ n # root /\ n # right
        /\ lvl[n] = lvl[root] + 1
    BY <1>1, <1>4, <1>5, <1>6, NewBlock DEF Live
  <1>8. /\ z \in Zones /\ z[n] = Key /\ \A m \in Node : m # n => z[m] = zone[m]
    BY <1>7 DEF Zones
  <1> HIDE DEF z
  <1>9. /\ tag'[n] = "branch" /\ keys'[n] = ks /\ children'[n] = cs
        /\ \A m \in Node : m # n => /\ tag'[m] = tag[m]
                                    /\ keys'[m] = keys[m] /\ children'[m] = children[m]
    BY <1>4, <1>5, <1>7 DEF TypeOK
  <1>10. Live' = Live \cup {n} /\ \A m \in Live : m \in Node /\ m # n
    BY <1>7, <1>9 DEF Live
  <1>11. ks \in Seq(Key) /\ Len(ks) = 1 /\ ks[1] = sep /\ Sorted(ks)
    <2>1. ks \in Seq(Key) /\ Len(ks) = 1 /\ ks[1] = sep
      BY <1>2, <1>5, Single
    <2>2. \A i, j \in 1 .. 1 : ~(i < j)
      BY SMT
    <2> QED
      BY <2>1, <2>2 DEF Sorted
  <1>12. cs \in Seq(Node) /\ Len(cs) = 2 /\ cs[1] = root /\ cs[2] = right
    BY <1>3, <1>6, SMT
  <1>13. Ordered(z)'
    <2> SUFFICES ASSUME NEW m \in Live'
                 PROVE  /\ z[m] # {} /\ Sorted(keys'[m])
                        /\ tag'[m] = "leaf" => Range(keys'[m]) \subseteq z[m]
      BY DEF Ordered
    <2>1. CASE m = n
      BY <1>8, <1>9, <1>11, <2>1, KeyAssumption
    <2>2. CASE m # n
      BY <1>5, <1>8, <1>9, <1>10, <2>2 DEF WholeAt, Ordered
    <2> QED
      BY <2>1, <2>2
  <1>14. \A m \in Live : lvl[m] <= lvl[root] /\ lvl[m] \in Nat
    BY <1>5, <1>10 DEF WholeAt, Topped
  <1>15. lvl[root] \in Nat /\ lvl[n] \in Nat
    BY <1>6, <1>7
  <1>16. \A m \in Live : lvl[m] # lvl[n] /\ lvl[m] <= lvl[n]
    BY <1>7, <1>14, <1>15, SMT
  <1>17. OneZone(lvl, z)'
    <2>1. \A l, m \in Live : lvl[l] = lvl[m] /\ l # m => z[l] \cap z[m] = {}
      BY <1>5, <1>8, <1>10 DEF WholeAt, OneZone
    <2> QED
      BY <1>10, <1>16, <2>1 DEF OneZone
  <1>18. Topped(lvl)'
    <2>1. lvl[n] <= lvl[n] /\ n # Null
      BY <1>7, <1>15, NodeAssumption, SMT
    <2> QED
      BY <1>4, <1>10, <1>16, <2>1 DEF Topped
  <1>19. Hung'
    <2>1. root \in Kids(n)' /\ right \in Kids(n)'
      <3>1. cs[1] \in Range(cs) /\ cs[2] \in Range(cs)
        <4>1. 1 \in 1 .. Len(cs) /\ 2 \in 1 .. Len(cs)
          BY <1>12, SMT
        <4> QED
          BY <1>12, <4>1, Entries
      <3> QED
        BY <1>9, <1>12, <3>1 DEF Kids
    <2>2. \A q \in Live : Kids(q)' = Kids(q)
      BY <1>9, <1>10 DEF Kids
    <2>3. \A m \in Live : m \in {root, right} \/ \E q \in Live : m \in Kids(q)
      BY <1>5 DEF WholeAt, Hung
    <2> QED
      BY <1>4, <1>10, <2>1, <2>2, <2>3 DEF Hung
  <1>20. ASSUME NEW m \in Live'  PROVE Fan(z, z[m], keys'[m], children'[m])
    <2>1. CASE m = n
      <3> SUFFICES ASSUME NEW i \in 1 .. 2, NEW k \in Key
                   PROVE  k \in z[cs[i]] <=> k \in Key /\ k \in Slice(ks, i)
        BY <1>8, <1>9, <1>12, <2>1 DEF Fan
      <3>1. /\ zone[root] = {j \in Key : j < sep} /\ zone[right] = {j \in Key : sep <= j}
        BY <1>4, <1>5, <1>6, NodeAssumption DEF WholeAt, Spanned
      <3>2. z[root] = zone[root] /\ z[right] = zone[right]
        BY <1>6, <1>7, <1>8
      <3>3. i = 1 \/ i = 2
        BY SMT
      <3>4. CASE i = 1
        <4>1. k \in Slice(ks, 1) <=> k < sep
          BY <1>11, SMT DEF Slice
        <4> QED
          BY <1>12, <3>1, <3>2, <3>4, <4>1
      <3>5. CASE i = 2
        <4>1. k \in Slice(ks, 2) <=> sep <= k
          <5>1. 2 > 1 /\ 2 - 1 = 1 /\ ~(2 <= Len(ks))
            BY <1>11, SMT
          <5> QED
            BY <1>11, <5>1 DEF Slice
        <4> QED
          BY <1>12, <3>1, <3>2, <3>5, <4>1
      <3> QED
        BY <3>3, <3>4, <3>5
    <2>2. CASE m # n
      <3>1. m \in Live /\ m \in Node /\ keys'[m] = keys[m] /\ children'[m] = children[m]
            /\ z[m] = zone[m]
        BY <1>8, <1>9, <1>10, <2>2
      <3>2. Fan(zone, zone[m], keys[m], children[m])
        BY <1>4, <1>5, <3>1, FanOf DEF WholeAt
      <3>3. \A i \in 1 .. Len(children[m]) : z[children[m][i]] = zone[children[m][i]]
        <4>1. \A i \in 1 .. Len(children[m]) : children[m][i] \in Node /\ children[m][i] \in Kids(m)
          BY <1>5, <3>1, ChildNodes
        <4> QED
          BY <1>7, <1>8, <3>1, <4>1 DEF Loose, Kids
      <3> QED
        BY <3>1, <3>2, <3>3 DEF Fan
    <2> QED
      BY <2>1, <2>2
  <1>21. z[root'] = Key
    BY <1>4, <1>8
  <1>22. Keeps(zone, z, {n})
    BY <1>8 DEF Keeps
  <1> QED
    BY <1>1, <1>22, <1>4, <1>8, <1>13, <1>17, <1>18, <1>19, <1>20, <1>21, OrderSettled

-----------------------------------------------------------------------------
(* remove: two neighbours of one branch share their keys anew.             *)

(* A sequence is its front and its last, and its head and its tail.        *)
LEMMA EndsJoin ==
  ASSUME NEW S, NEW s \in Seq(S), Len(s) >= 1
  PROVE  Front(s) \o <<Last(s)>> = s /\ <<Head(s)>> \o Tail(s) = s
  <1> DEFINE f == Front(s)
             l == <<Last(s)>>
             h == <<Head(s)>>
             t == Tail(s)
             L == Len(s)
  <1>1. L \in Nat /\ L >= 1 /\ L = Len(s)
    OBVIOUS
  <1>2. /\ f \in Seq(S) /\ Len(f) = L - 1 /\ (\A j \in 1 .. L - 1 : f[j] = s[j])
        /\ t \in Seq(S) /\ Len(t) = L - 1 /\ (\A j \in 1 .. L - 1 : t[j] = s[j + 1])
        /\ Last(s) = s[L] /\ Last(s) \in S /\ Head(s) = s[1] /\ Head(s) \in S
    BY Ends
  <1>3. /\ l \in Seq(S) /\ Len(l) = 1 /\ l[1] = s[L]
        /\ h \in Seq(S) /\ Len(h) = 1 /\ h[1] = s[1]
    BY <1>2, Single
  <1> HIDE DEF f, l, h, t
  <1>4. f \o l = s
    <2>0. f \in Seq(S) /\ l \in Seq(S)
      BY <1>2, <1>3
    <2>1. /\ f \o l \in Seq(S) /\ Len(f \o l) = Len(f) + Len(l)
          /\ \A j \in 1 .. Len(f) : (f \o l)[j] = f[j]
          /\ \A j \in Len(f) + 1 .. Len(f) + Len(l) : (f \o l)[j] = l[j - Len(f)]
      BY ONLY <2>0, Concat
    <2> HIDE DEF L
    <2>2. Len(f) + Len(l) = L /\ L - Len(f) = 1 /\ L \in Len(f) + 1 .. Len(f) + Len(l)
      BY <1>1, <1>2, <1>3, SMT
    <2>3. \A j \in 1 .. L : (j \in 1 .. Len(f) /\ j \in 1 .. L - 1) \/ j = L
      BY <1>1, <1>2, SMT
    <2>4. \A j \in 1 .. L : (f \o l)[j] = s[j]
      BY <1>2, <1>3, <2>1, <2>2, <2>3
    <2> QED
      BY <1>1, <2>1, <2>2, <2>4, SeqEqual
  <1>5. h \o t = s
    <2>0. h \in Seq(S) /\ t \in Seq(S)
      BY <1>2, <1>3
    <2>1. /\ h \o t \in Seq(S) /\ Len(h \o t) = Len(h) + Len(t)
          /\ \A j \in 1 .. Len(h) : (h \o t)[j] = h[j]
          /\ \A j \in Len(h) + 1 .. Len(h) + Len(t) : (h \o t)[j] = t[j - Len(h)]
      BY ONLY <2>0, Concat
    <2> HIDE DEF L
    <2>2. Len(h) + Len(t) = L /\ 1 \in 1 .. Len(h)
      BY <1>1, <1>2, <1>3, SMT
    <2>3. \A j \in 1 .. L : (h \o t)[j] = s[j]
      <3> TAKE j \in 1 .. L
      <3>1. CASE j = 1
        BY <1>3, <2>1, <2>2, <3>1
      <3>2. CASE j > 1
        <4>1. PICK i : i = j - 1
          OBVIOUS
        <4>2. j \in Len(h) + 1 .. Len(h) + Len(t) /\ j - Len(h) = i
              /\ i \in 1 .. L - 1 /\ i + 1 = j
          BY <1>1, <1>2, <1>3, <3>2, <4>1, SMT
        <4>3. (h \o t)[j] = t[i] /\ t[i] = s[i + 1]
          BY <1>2, <2>1, <4>2
        <4> QED
          BY <4>2, <4>3
      <3>3. j = 1 \/ j > 1
        BY <1>1, SMT
      <3> QED
        BY <3>1, <3>2, <3>3
    <2> QED
      BY <1>1, <2>1, <2>2, <2>3, SeqEqual
  <1> QED
    BY <1>4, <1>5 DEF f, l, h, t

(* Which separator stands between two branches does not matter to their    *)
(* keys in a row.                                                          *)
LEMMA AroundMoves ==
  ASSUME NEW a \in Seq(Key), NEW s \in Key, NEW b \in Seq(Key),
         NEW ca \in Seq(Node), NEW cb \in Seq(Node)
  PROVE  /\ Len(a) >= 1 /\ Len(ca) >= 1 =>
              /\ Around(Front(a), Last(a), <<s>> \o b) = Around(a, s, b)
              /\ Front(ca) \o (<<Last(ca)>> \o cb) = ca \o cb
         /\ Len(b) >= 1 /\ Len(cb) >= 1 =>
              /\ Around(Append(a, s), Head(b), Tail(b)) = Around(a, s, b)
              /\ Append(ca, Head(cb)) \o Tail(cb) = ca \o cb
  <1>1. PICK e : e = <<s>>
    OBVIOUS
  <1>2. e \in Seq(Key) /\ a \o e \in Seq(Key)
    BY <1>1, Single, ConcatType
  <1>3. ASSUME Len(a) >= 1, Len(ca) >= 1
        PROVE  /\ Around(Front(a), Last(a), <<s>> \o b) = Around(a, s, b)
               /\ Front(ca) \o (<<Last(ca)>> \o cb) = ca \o cb
    <2>1. Front(a) \o <<Last(a)>> = a
      BY <1>3, EndsJoin
    <2>2. Associative(a, e, b)
      BY <1>2, ConcatAssoc
    <2>3. PICK f : f = Front(ca)
      OBVIOUS
    <2>4. PICK l : l = <<Last(ca)>>
      OBVIOUS
    <2>5. f \in Seq(Node) /\ l \in Seq(Node) /\ f \o l = ca
      BY <1>3, <2>3, <2>4, Ends, EndsJoin, Single
    <2>6. Associative(f, l, cb)
      BY <2>5, ConcatAssoc
    <2> QED
      BY <1>1, <2>1, <2>2, <2>3, <2>4, <2>5, <2>6 DEF Around, Associative
  <1>4. ASSUME Len(b) >= 1, Len(cb) >= 1
        PROVE  /\ Around(Append(a, s), Head(b), Tail(b)) = Around(a, s, b)
               /\ Append(ca, Head(cb)) \o Tail(cb) = ca \o cb
    <2>1. PICK h : h = <<Head(b)>>
      OBVIOUS
    <2>2. PICK t : t = Tail(b)
      OBVIOUS
    <2>3. h \in Seq(Key) /\ t \in Seq(Key) /\ h \o t = b
      BY <1>4, <2>1, <2>2, Ends, EndsJoin, Single
    <2>4. Append(a, s) = a \o e
      BY <1>1, AppendIsConcat
    <2>5. Associative(a \o e, h, t)
      BY <1>2, <2>3, ConcatAssoc
    <2>6. PICK g : g = <<Head(cb)>>
      OBVIOUS
    <2>7. PICK u : u = Tail(cb)
      OBVIOUS
    <2>8. g \in Seq(Node) /\ u \in Seq(Node) /\ g \o u = cb /\ Head(cb) \in Node
      BY <1>4, <2>6, <2>7, Ends, EndsJoin, Single
    <2>9. Append(ca, Head(cb)) = ca \o g
      BY <2>6, <2>8, AppendIsConcat
    <2>10. Associative(ca, g, u)
      BY <2>8, ConcatAssoc
    <2> QED
      BY <1>1, <2>1, <2>2, <2>3, <2>4, <2>5, <2>7, <2>8, <2>9, <2>10 DEF Around, Associative
  <1> QED
    BY <1>3, <1>4

(* Children q and q + 1 of the branch that is repaired, and the separator  *)
(* between them.                                                           *)
LEMMA Neighbours ==
  ASSUME NEW lvl \in [Node -> Nat], InvAt(lvl), NEW zone \in Zones, OrderAt(lvl, zone),
         Fixing, NEW q \in 1 .. Seps
  PROVE  LET p == Parent
             a == Child(q)
             b == Child(q + 1)
             w == keys[p][q]
         IN  /\ WholeAt(lvl, zone)
             /\ p \in Live /\ a \in Live /\ b \in Live /\ p \in Node /\ a \in Node /\ b \in Node
             /\ a # b /\ a # p /\ b # p /\ a # root /\ b # root
             /\ a \in Kids(p) /\ b \in Kids(p)
             /\ lvl[p] = lvl[a] + 1 /\ lvl[b] = lvl[a] /\ tag[a] = tag[b]
             /\ keys[p] \in Seq(Key) /\ children[p] \in Seq(Node)
             /\ Len(children[p]) = Len(keys[p]) + 1 /\ Sorted(keys[p])
             /\ q \in 1 .. Len(keys[p]) /\ a = children[p][q] /\ b = children[p][q + 1]
             /\ q \in 1 .. Len(children[p]) /\ q + 1 \in 1 .. Len(children[p])
             /\ Fan(zone, zone[p], keys[p], children[p])
             /\ w \in Key
             /\ \A k \in Key : k \in zone[a] => k < w
             /\ \A k \in Key : k \in zone[b] => w <= k
  <1>1. /\ TypeOK /\ pc = "fix" /\ path # <<>> /\ right = Null
    BY DEF InvAt, Fixing, Carried
  <1>2. WholeAt(lvl, zone)
    BY <1>1 DEF OrderAt, WholeAt, Whole
  <1>3. /\ Parent \in Node /\ Parent \in Live
        /\ keys[Parent] \in Seq(Key) /\ children[Parent] \in Seq(Node)
        /\ Len(children[Parent]) = Len(keys[Parent]) + 1
        /\ Len(keys[Parent]) \in Nat
    BY <1>1, ParentFacts DEF Walking, Live
  <1>4. Seps = Len(keys[Parent])
    BY DEF Seps
  <1>5. /\ q \in 1 .. Seps + 1 /\ q + 1 \in 1 .. Seps + 1 /\ q # q + 1
        /\ q \in 1 .. Len(children[Parent]) /\ q + 1 \in 1 .. Len(children[Parent])
        /\ q + 1 > 1 /\ q + 1 - 1 = q /\ q <= Len(keys[Parent])
    BY <1>3, <1>4, SMT
  <1>6. \A i \in {q, q + 1} :
          /\ Child(i) \in Node /\ Child(i) \in Kids(Parent) /\ Child(i) \in Live
          /\ Child(i) # Parent /\ Child(i) # root /\ lvl[Parent] = lvl[Child(i)] + 1
          /\ tag[Child(i)] = tag[Fixed]
    BY <1>5, FixFacts DEF Kids, Live
  <1>7. Child(q) # Child(q + 1)
    BY <1>5, FixFacts
  <1>8. lvl[Child(q)] = lvl[Child(q + 1)]
    <2>1. lvl[Child(q)] \in Nat /\ lvl[Child(q + 1)] \in Nat
      BY <1>6
    <2>2. lvl[Child(q)] + 1 = lvl[Child(q + 1)] + 1
      BY <1>6
    <2> QED
      BY <2>1, <2>2, SMT
  <1>9. Fan(zone, zone[Parent], keys[Parent], children[Parent]) /\ Sorted(keys[Parent])
    BY <1>1, <1>2, <1>3, FanOf DEF WholeAt, Ordered
  <1>10. keys[Parent][q] \in Key
    BY <1>3, <1>4, KeysAreInts
  <1>11. \A k \in Key : k \in zone[Child(q)] => k < keys[Parent][q]
    BY <1>3, <1>5, <1>9 DEF Fan, Slice, Child
  <1>12. \A k \in Key : k \in zone[Child(q + 1)] => keys[Parent][q] <= k
    <2> TAKE k \in Key
    <2>1. PICK i : i = q + 1
      OBVIOUS
    <2>2. k \in zone[Child(i)] => k \in Slice(keys[Parent], i)
      BY <1>5, <1>9, <2>1 DEF Fan, Child
    <2>3. k \in Slice(keys[Parent], i) => keys[Parent][i - 1] <= k
      BY <1>5, <2>1 DEF Slice
    <2> QED
      BY <1>5, <2>1, <2>2, <2>3
  <1> QED
    BY <1>2, <1>3, <1>4, <1>5, <1>6, <1>7, <1>8, <1>9, <1>10, <1>11, <1>12 DEF Child

(* a and b, children of p, share their zones anew; gone is b if a took all *)
(* of it.                                                                  *)
Shares(p, a, b, gone, zone, z) ==
  /\ \A n \in Node : n \notin gone => tag'[n] = tag[n]
  /\ \A n \in gone : tag'[n] = "free"
  /\ \A n \in Node : n \notin {a, b, p} => keys'[n] = keys[n] /\ children'[n] = children[n]
  /\ \A n \in Node : n \notin {a, b} => z[n] = zone[n]
  /\ Sorted(keys'[p]) /\ Fan(z, zone[p], keys'[p], children'[p])
  /\ \A c \in {a, b} \ gone :
       /\ z[c] # {} /\ z[c] \subseteq zone[a] \cup zone[b]
       /\ Sorted(keys'[c]) /\ (tag[c] = "leaf" => Range(keys'[c]) \subseteq z[c])
       /\ Fan(zone, z[c], keys'[c], children'[c])
  /\ gone # {b} => z[a] \cap z[b] = {}
  /\ \A x \in Kids(a) \cup Kids(b) : \E c \in {a, b} \ gone : x \in Kids(c)'
  /\ \A x \in Kids(p) : x \in gone \/ x \in Kids(p)'

(* Two neighbours share anew what both are looked at for.                  *)
LEMMA PairOrder ==
  ASSUME NEW lvl \in [Node -> Nat], InvAt(lvl), InvAt(lvl)',
         NEW zone \in Zones, OrderAt(lvl, zone),
         Fixing, NEW q \in 1 .. Seps, pc' = "fix", root' = root,
         NEW p, p = Parent, NEW a, a = Child(q), NEW b, b = Child(q + 1),
         NEW gone \in {{}, {b}}, NEW z \in Zones, Shares(p, a, b, gone, zone, z)
  PROVE  \E Z \in Zones : OrderAt(lvl, Z)' /\ Keeps(zone, Z, {a, b})
  <1>1. /\ TypeOK /\ TypeOK' /\ OneOwner(children) /\ Rooted /\ right = Null
        /\ Levels(lvl, tag, children) /\ Levels(lvl, tag', children')
        /\ pc = "fix" /\ root # Null
    BY DEF InvAt, Carried, Rooted, Fixing
  <1>2. /\ WholeAt(lvl, zone)
        /\ p \in Live /\ a \in Live /\ b \in Live /\ p \in Node /\ a \in Node /\ b \in Node
        /\ a # b /\ a # p /\ b # p /\ a # root /\ b # root
        /\ a \in Kids(p) /\ b \in Kids(p)
        /\ lvl[p] = lvl[a] + 1 /\ lvl[b] = lvl[a]
    BY Neighbours
  <1>3. /\ \A n \in Node : n \notin gone => tag'[n] = tag[n]
        /\ \A n \in gone : tag'[n] = "free"
        /\ \A n \in Node : n \notin {a, b, p} => keys'[n] = keys[n] /\ children'[n] = children[n]
        /\ \A n \in Node : n \notin {a, b} => z[n] = zone[n]
        /\ Sorted(keys'[p]) /\ Fan(z, zone[p], keys'[p], children'[p])
        /\ \A c \in {a, b} \ gone :
             /\ z[c] # {} /\ z[c] \subseteq zone[a] \cup zone[b]
             /\ Sorted(keys'[c]) /\ (tag[c] = "leaf" => Range(keys'[c]) \subseteq z[c])
             /\ Fan(zone, z[c], keys'[c], children'[c])
        /\ gone # {b} => z[a] \cap z[b] = {}
        /\ \A x \in Kids(a) \cup Kids(b) : \E c \in {a, b} \ gone : x \in Kids(c)'
        /\ \A x \in Kids(p) : x \in gone \/ x \in Kids(p)'
    BY DEF Shares
  <1>4. Live' = Live \ gone /\ (\A n \in Live : n \in Node) /\ gone \subseteq {b}
    BY <1>3 DEF Live
  <1>5. Ordered(z)'
    <2> SUFFICES ASSUME NEW m \in Live'
                 PROVE  /\ z[m] # {} /\ Sorted(keys'[m])
                        /\ tag'[m] = "leaf" => Range(keys'[m]) \subseteq z[m]
      BY DEF Ordered
    <2>1. m \in Live /\ m \notin gone /\ m \in Node /\ tag'[m] = tag[m]
      BY <1>3, <1>4
    <2>2. CASE m \in {a, b}
      BY <1>3, <2>1, <2>2
    <2>3. CASE m = p
      <3>1. tag[p] # "leaf" /\ z[p] # {}
        <4>1. lvl[a] \in Nat
          BY <1>2
        <4>2. lvl[p] # 0
          BY <1>2, <4>1, SMT
        <4>3. tag[p] # "leaf"
          BY <1>1, <1>2, <4>2 DEF Levels
        <4> QED
          BY <1>2, <1>3, <4>3 DEF WholeAt, Ordered
      <3> QED
        BY <1>3, <2>1, <2>3, <3>1
    <2>4. CASE m \notin {a, b, p}
      BY <1>2, <1>3, <2>1, <2>4 DEF WholeAt, Ordered
    <2> QED
      BY <2>2, <2>3, <2>4
  <1>6. OneZone(lvl, z)'
    <2>1. \A u, v \in Live : lvl[u] = lvl[v] /\ u # v => zone[u] \cap zone[v] = {}
      BY <1>2 DEF WholeAt, OneZone
    <2>2. ASSUME NEW c \in {a, b} \ gone, NEW v \in Live, v \notin {a, b}, lvl[c] = lvl[v]
          PROVE  z[c] \cap z[v] = {}
      <3>1. zone[a] \cap zone[v] = {} /\ zone[b] \cap zone[v] = {}
        BY <1>2, <2>1, <2>2
      <3> QED
        BY <1>3, <1>4, <2>2, <3>1
    <2>3. \A u, v \in Live : lvl[u] = lvl[v] /\ u # v /\ u \notin {a, b} /\ v \notin {a, b}
            => z[u] \cap z[v] = {}
      BY <1>3, <1>4, <2>1
    <2> SUFFICES ASSUME NEW u \in Live', NEW v \in Live', lvl[u] = lvl[v], u # v
                 PROVE  z[u] \cap z[v] = {}
      BY DEF OneZone
    <2>4. CASE u \in {a, b} /\ v \in {a, b}
      BY <1>2, <1>3, <1>4, <2>4
    <2>5. CASE u \in {a, b} /\ v \notin {a, b}
      BY <1>4, <2>2, <2>5
    <2>6. CASE u \notin {a, b} /\ v \in {a, b}
      BY <1>4, <2>2, <2>6
    <2>7. CASE u \notin {a, b} /\ v \notin {a, b}
      BY <1>4, <2>3, <2>7
    <2> QED
      BY <2>4, <2>5, <2>6, <2>7
  <1>7. Topped(lvl)'
    BY <1>2, <1>4 DEF WholeAt, Topped
  <1>8. Hung'
    <2> SUFFICES ASSUME NEW m \in Live', m # root  PROVE \E c \in Live' : m \in Kids(c)'
      BY DEF Hung
    <2>1. m \in Live /\ m \notin gone /\ m # Null
      BY <1>4, NodeAssumption
    <2>2. PICK c \in Live : m \in Kids(c)
      BY <1>1, <1>2, <2>1 DEF WholeAt, Hung
    <2>3. CASE c \in {a, b}
      BY <1>2, <1>3, <1>4, <2>2, <2>3
    <2>4. CASE c = p
      BY <1>2, <1>3, <1>4, <2>1, <2>2, <2>4
    <2>5. CASE c \notin {a, b, p}
      BY <1>3, <1>4, <2>2, <2>5 DEF Kids
    <2> QED
      BY <2>3, <2>4, <2>5
  <1>9. ASSUME NEW m \in Live'  PROVE Fan(z, z[m], keys'[m], children'[m])
    <2>1. m \in Live /\ m \notin gone /\ m \in Node
      BY <1>4
    <2>2. CASE m = p
      BY <1>2, <1>3, <2>2
    <2>3. ASSUME m # p, Fan(zone, z[m], keys'[m], children'[m]),
                 \A i \in 1 .. Len(children'[m]) : children'[m][i] \in Node \ {a, b}
          PROVE  Fan(z, z[m], keys'[m], children'[m])
      <3>1. \A i \in 1 .. Len(children'[m]) : z[children'[m][i]] = zone[children'[m][i]]
        BY <1>3, <2>3
      <3> QED
        BY <2>3, <3>1 DEF Fan
    <2>4. CASE m \in {a, b}
      <3>1. Fan(zone, z[m], keys'[m], children'[m])
        BY <1>3, <2>1, <2>4
      <3>2. ASSUME NEW i \in 1 .. Len(children'[m])  PROVE children'[m][i] \in Node \ {a, b}
        <4>1. PICK y : y = children'[m][i]
          OBVIOUS
        <4>2. y \in Range(children'[m]) /\ y \in Node
          <5>1. children'[m] \in Seq(Node)
            BY <1>1, <2>1 DEF TypeOK
          <5> QED
            BY <4>1, <5>1, Entries
        <4>3. lvl[m] = lvl[y] + 1 /\ lvl[y] \in Nat /\ lvl[m] = lvl[a] /\ lvl[m] = lvl[b]
          BY <1>1, <1>2, <2>1, <2>4, <4>2 DEF Levels
        <4>4. lvl[y] # lvl[m]
          BY <4>3, SMT
        <4> QED
          BY <4>1, <4>2, <4>3, <4>4
      <3> QED
        BY <1>2, <2>3, <2>4, <3>1, <3>2
    <2>5. CASE m \notin {a, b, p}
      <3>1. keys'[m] = keys[m] /\ children'[m] = children[m] /\ z[m] = zone[m]
        BY <1>3, <2>1, <2>5
      <3>2. Fan(zone, zone[m], keys[m], children[m])
        BY <1>1, <1>2, <2>1, FanOf DEF WholeAt
      <3>3. ASSUME NEW i \in 1 .. Len(children[m])  PROVE children[m][i] \in Node \ {a, b}
        <4>1. children[m][i] \in Node /\ children[m][i] \in Kids(m)
          BY <1>1, <2>1, ChildNodes
        <4>2. \A x : x \in Kids(m) /\ x \in Kids(p) => m = p
          BY <1>1, <1>2, <2>1 DEF OneOwner, Kids
        <4> QED
          BY <1>2, <2>5, <4>1, <4>2
      <3> QED
        BY <2>3, <2>5, <3>1, <3>2, <3>3
    <2> QED
      BY <2>2, <2>4, <2>5
  <1>10. root' # Null => z[root'] = Key
    <2>1. root \in Node /\ zone[root] = Key
      BY <1>1, <1>2 DEF TypeOK, WholeAt, Spanned
    <2> QED
      BY <1>2, <1>3, <2>1
  <1>11. Keeps(zone, z, {a, b})
    BY <1>3 DEF Keeps
  <1> QED
    BY <1>11, <1>5, <1>6, <1>7, <1>8, <1>9, <1>10, OrderSettled

(* a keeps the keys of both below t, b the others.                         *)
Parts(p, a, b, q, t, U, zone) ==
  /\ tag' = tag /\ U = zone[a] \cup zone[b]
  /\ (\E k \in Key : k \in Low(U, t)) /\ (\E k \in Key : k \in High(U, t))
  /\ keys'[p] = [keys[p] EXCEPT ![q] = t]
  /\ \A n \in Node : n \notin {a, b, p} => keys'[n] = keys[n]
  /\ \A n \in Node : n \notin {a, b} => children'[n] = children[n]
  /\ Sorted(keys'[a]) /\ Sorted(keys'[b])
  /\ tag[a] = "leaf" => Range(keys'[a]) \subseteq Low(U, t) /\ Range(keys'[b]) \subseteq High(U, t)
  /\ Fan(zone, Low(U, t), keys'[a], children'[a])
  /\ Fan(zone, High(U, t), keys'[b], children'[b])
  /\ Kids(a) \cup Kids(b) \subseteq Kids(a)' \cup Kids(b)'

(* They share it by a new separator.                                       *)
LEMMA ShareOrder ==
  ASSUME NEW lvl \in [Node -> Nat], InvAt(lvl), InvAt(lvl)',
         NEW zone \in Zones, OrderAt(lvl, zone),
         Fixing, NEW q \in 1 .. Seps, pc' = "fix", root' = root,
         NEW p, p = Parent, NEW a, a = Child(q), NEW b, b = Child(q + 1),
         NEW t \in Key, NEW U, Parts(p, a, b, q, t, U, zone)
  PROVE  \E Z \in Zones : OrderAt(lvl, Z)' /\ Keeps(zone, Z, {a, b})
  <1>0. /\ tag' = tag /\ U = zone[a] \cup zone[b]
        /\ (\E k \in Key : k \in Low(U, t)) /\ (\E k \in Key : k \in High(U, t))
        /\ keys'[p] = [keys[p] EXCEPT ![q] = t]
        /\ \A n \in Node : n \notin {a, b, p} => keys'[n] = keys[n]
        /\ \A n \in Node : n \notin {a, b} => children'[n] = children[n]
        /\ Sorted(keys'[a]) /\ Sorted(keys'[b])
        /\ tag[a] = "leaf" => Range(keys'[a]) \subseteq Low(U, t) /\ Range(keys'[b]) \subseteq High(U, t)
        /\ Fan(zone, Low(U, t), keys'[a], children'[a])
        /\ Fan(zone, High(U, t), keys'[b], children'[b])
        /\ Kids(a) \cup Kids(b) \subseteq Kids(a)' \cup Kids(b)'
    BY DEF Parts
  <1> DEFINE A == Low(U, t)
             B == High(U, t)
             z == [zone EXCEPT ![a] = A, ![b] = B]
  <1>1. /\ WholeAt(lvl, zone)
        /\ p \in Node /\ a \in Node /\ b \in Node
        /\ a # b /\ a # p /\ b # p
        /\ a \in Kids(p) /\ b \in Kids(p) /\ tag[a] = tag[b]
        /\ keys[p] \in Seq(Key) /\ children[p] \in Seq(Node)
        /\ Len(children[p]) = Len(keys[p]) + 1 /\ Sorted(keys[p])
        /\ q \in 1 .. Len(keys[p]) /\ a = children[p][q] /\ b = children[p][q + 1]
        /\ Fan(zone, zone[p], keys[p], children[p])
    BY Neighbours
  <1>2. TypeOK /\ OneOwner(children) /\ Live \subseteq Node
    BY DEF InvAt, Live
  <1>3. zone \in [Node -> SUBSET Key]
    BY DEF Zones
  <1>4. A \in SUBSET Key /\ B \in SUBSET Key /\ A \subseteq U /\ B \subseteq U /\ A \cap B = {}
    <2>1. U \subseteq Key
      BY <1>0, <1>1, <1>3
    <2>2. \A k \in Int : ~(k < t /\ t <= k)
      <3>1. t \in Int
        BY KeyAssumption
      <3> QED
        BY ONLY <3>1, SMT
    <2> QED
      BY <2>1, <2>2, KeyAssumption DEF Low, High
  <1>5. \A k \in Key : (k \in A <=> k \in U /\ k < t) /\ (k \in B <=> k \in U /\ t <= k)
    BY DEF Low, High
  <1> HIDE DEF A, B
  <1>6. /\ z \in Zones /\ z[a] = A /\ z[b] = B
        /\ \A n \in Node : n \notin {a, b} => z[n] = zone[n]
    BY <1>1, <1>3, <1>4 DEF Zones
  <1> HIDE DEF z
  <1>7. Sorted([keys[p] EXCEPT ![q] = t])
        /\ Fan(z, zone[p], [keys[p] EXCEPT ![q] = t], children[p])
    <2>1. \A k \in Key : k \in z[children[p][q]] <=>
            (k \in zone[children[p][q]] \/ k \in zone[children[p][q + 1]]) /\ k < t
      BY <1>0, <1>1, <1>5, <1>6
    <2>2. \A k \in Key : k \in z[children[p][q + 1]] <=>
            (k \in zone[children[p][q]] \/ k \in zone[children[p][q + 1]]) /\ t <= k
      BY <1>0, <1>1, <1>5, <1>6
    <2>3. (\E k \in Key : k \in z[children[p][q]]) /\ (\E k \in Key : k \in z[children[p][q + 1]])
      <3>1. (\E k \in Key : k \in A) /\ (\E k \in Key : k \in B)
        BY <1>0 DEF A, B
      <3>2. z[children[p][q]] = A /\ z[children[p][q + 1]] = B
        BY <1>1, <1>6
      <3> QED
        BY <3>1, <3>2
    <2>4. ASSUME NEW j \in 1 .. Len(children[p]), NEW k \in Key, j # q, j # q + 1
          PROVE  k \in z[children[p][j]] <=> k \in zone[children[p][j]]
      <3>1. q \in 1 .. Len(children[p]) /\ q + 1 \in 1 .. Len(children[p])
        BY <1>1, KeysAreInts, SMT
      <3>2. children[p][j] # a /\ children[p][j] # b
        <4>1. \A i, h \in 1 .. Len(children[p]) : children[p][i] = children[p][h] => i = h
          <5>1. IsInjective(children[p]) /\ DOMAIN children[p] = 1 .. Len(children[p])
            BY <1>1, <1>2 DEF OneOwner
          <5> QED
            BY <5>1 DEF IsInjective
        <4> QED
          BY <1>1, <2>4, <3>1, <4>1
      <3>3. children[p][j] \in Node
        BY <1>1
      <3> QED
        BY <1>6, <3>2, <3>3
    <2> QED
      BY <1>1, <2>1, <2>2, <2>3, <2>4, FanMove
  <1>8. Shares(p, a, b, {}, zone, z)
    <2>1. Sorted(keys'[p]) /\ Fan(z, zone[p], keys'[p], children'[p])
      BY <1>0, <1>1, <1>7
    <2>2. z[a] # {} /\ z[b] # {}
      BY <1>0, <1>6 DEF A, B
    <2>3. \A c \in {a, b} :
            /\ z[c] # {} /\ z[c] \subseteq zone[a] \cup zone[b]
            /\ Sorted(keys'[c]) /\ (tag[c] = "leaf" => Range(keys'[c]) \subseteq z[c])
            /\ Fan(zone, z[c], keys'[c], children'[c])
      <3>1. /\ tag[a] = "leaf" => Range(keys'[a]) \subseteq A /\ Range(keys'[b]) \subseteq B
            /\ Fan(zone, A, keys'[a], children'[a]) /\ Fan(zone, B, keys'[b], children'[b])
        BY <1>0 DEF A, B
      <3> QED
        BY <1>0, <1>1, <1>4, <1>6, <2>2, <3>1
    <2>4. \A x \in Kids(p) : x \in Kids(p)'
      BY <1>0, <1>1 DEF Kids
    <2> QED
      BY <1>0, <1>1, <1>4, <1>6, <2>1, <2>3, <2>4 DEF Shares
  <1> QED
    BY <1>6, <1>8, PairOrder

(* Two leaves share their entries anew, and the first of the right one is  *)
(* the separator.                                                          *)
Shifts(p, a, b, q, x, y, ka, kb) ==
  /\ x = keys[a] /\ y = keys[b] /\ ka \o kb = x \o y
  /\ keys'[a] = ka /\ keys'[b] = kb /\ keys'[p] = [keys[p] EXCEPT ![q] = kb[1]]
  /\ \A n \in Node : n \notin {a, b, p} => keys'[n] = keys[n]

(* An item that moves between leaves moves the separator.                  *)
LEMMA LeavesShift ==
  ASSUME NEW lvl \in [Node -> Nat], InvAt(lvl), InvAt(lvl)',
         NEW zone \in Zones, OrderAt(lvl, zone),
         Fixing, NEW q \in 1 .. Seps, pc' = "fix", UNCHANGED <<root, tag, children>>,
         NEW p, p = Parent, NEW a, a = Child(q), NEW b, b = Child(q + 1), tag[a] = "leaf",
         NEW ka \in Seq(Key), NEW kb \in Seq(Key), Len(ka) >= 1, Len(kb) >= 1,
         NEW x, NEW y, Shifts(p, a, b, q, x, y, ka, kb)
  PROVE  \E Z \in Zones : OrderAt(lvl, Z)' /\ Keeps(zone, Z, {a, b})
  <1>0. /\ x = keys[a] /\ y = keys[b] /\ ka \o kb = x \o y
        /\ keys'[a] = ka /\ keys'[b] = kb /\ keys'[p] = [keys[p] EXCEPT ![q] = kb[1]]
        /\ \A n \in Node : n \notin {a, b, p} => keys'[n] = keys[n]
    BY DEF Shifts
  <1>1. /\ WholeAt(lvl, zone)
        /\ p \in Live /\ a \in Live /\ b \in Live /\ a \in Node /\ b \in Node
        /\ a # b /\ tag[a] = tag[b] /\ keys[p][q] \in Key
        /\ \A k \in Key : k \in zone[a] => k < keys[p][q]
        /\ \A k \in Key : k \in zone[b] => keys[p][q] <= k
    BY Neighbours
  <1>2. TypeOK /\ Shape /\ Live \subseteq Node
    BY DEF InvAt, Live
  <1>3. PICK t : t = kb[1]
    OBVIOUS
  <1>4. PICK U : U = zone[a] \cup zone[b]
    OBVIOUS
  <1>5. PICK w : w = keys[p][q]
    OBVIOUS
  <1>8. /\ x \in Seq(Key) /\ y \in Seq(Key) /\ Sorted(x) /\ Sorted(y)
        /\ Range(x) \subseteq zone[a] /\ Range(y) \subseteq zone[b]
        /\ children[a] = <<>> /\ children[b] = <<>>
    BY <1>0, <1>1, <1>2, BlockTypes DEF WholeAt, Ordered
  <1>9. \A i \in 1 .. Len(x), j \in 1 .. Len(y) : x[i] < y[j]
    <2> TAKE i \in 1 .. Len(x), j \in 1 .. Len(y)
    <2>1. x[i] \in zone[a] /\ y[j] \in zone[b] /\ x[i] \in Key /\ y[j] \in Key
      BY <1>8, Entries, KeysAreInts
    <2>2. x[i] < w /\ w <= y[j] /\ x[i] \in Int /\ w \in Int /\ y[j] \in Int
      BY <1>1, <1>5, <2>1, KeyAssumption
    <2> QED
      BY <2>2, SMT
  <1>10. Sorted(ka \o kb)
    <2>1. Sorted(x \o y)
      BY <1>8, <1>9, SortedConcat
    <2> QED
      BY <1>0, <2>1
  <1>11. /\ Sorted(ka) /\ Sorted(kb)
         /\ \A i \in 1 .. Len(ka), j \in 1 .. Len(kb) : ka[i] < kb[j]
    BY <1>10, SortedConcat
  <1>12. \A k \in Range(ka) \cup Range(kb) : k \in U /\ k \in Key
    <2>1. \A k : /\ k \in Range(ka \o kb) <=> k \in Range(ka) \/ k \in Range(kb)
                 /\ k \in Range(x \o y) <=> k \in Range(x) \/ k \in Range(y)
      <3>1. Joins(ka, kb, ka \o kb)
        BY ConcatJoins
      <3>2. Joins(x, y, x \o y)
        BY <1>8, ConcatJoins
      <3> QED
        BY <3>1, <3>2 DEF Joins
    <2>2. \A k \in Range(x) \cup Range(y) : k \in Key
      BY <1>8, Entries, KeysAreInts
    <2> QED
      BY <1>0, <1>4, <1>8, <2>1, <2>2
  <1>13. /\ Len(ka) \in Nat /\ Len(kb) \in Nat /\ 1 \in 1 .. Len(ka) /\ 1 \in 1 .. Len(kb)
         /\ t \in Key /\ \A j \in 1 .. Len(kb) : j = 1 \/ 1 < j
    BY <1>3, SMT
  <1>14. \A k \in Range(ka) : k < t
    <2> TAKE k \in Range(ka)
    <2>1. PICK i \in 1 .. Len(ka) : k = ka[i]
      BY Entries
    <2> QED
      BY <1>3, <1>11, <1>13, <2>1
  <1>15. \A k \in Range(kb) : t <= k
    <2> TAKE k \in Range(kb)
    <2>1. PICK j \in 1 .. Len(kb) : k = kb[j]
      BY Entries
    <2>2. j = 1 \/ kb[1] < kb[j]
      BY <1>11, <1>13 DEF Sorted
    <2>3. k \in Int /\ t \in Int
      BY <1>12, <1>13, KeyAssumption
    <2> QED
      BY <1>3, <2>1, <2>2, <2>3, SMT
  <1>16. Range(ka) \subseteq Low(U, t) /\ Range(kb) \subseteq High(U, t)
    BY <1>12, <1>14, <1>15 DEF Low, High
  <1>17. (\E k \in Key : k \in Low(U, t)) /\ (\E k \in Key : k \in High(U, t))
    <2>1. ka[1] \in Range(ka) /\ kb[1] \in Range(kb)
      BY <1>13, Entries
    <2> QED
      BY <1>12, <1>16, <2>1
  <1>18. \A S, ks : Fan(zone, S, ks, <<>>)
    BY DEF Fan
  <1>19. Kids(a) \cup Kids(b) \subseteq Kids(a)' \cup Kids(b)'
    BY DEF Kids
  <1>20. Parts(p, a, b, q, t, U, zone)
    <2>1. Fan(zone, Low(U, t), keys'[a], children'[a]) /\ Fan(zone, High(U, t), keys'[b], children'[b])
      BY <1>0, <1>8, <1>18
    <2>2. tag' = tag /\ \A n \in Node : n \notin {a, b} => children'[n] = children[n]
      OBVIOUS
    <2>3. Sorted(keys'[a]) /\ Sorted(keys'[b])
          /\ Range(keys'[a]) \subseteq Low(U, t) /\ Range(keys'[b]) \subseteq High(U, t)
      BY <1>0, <1>11, <1>16
    <2>4. keys'[p] = [keys[p] EXCEPT ![q] = t]
      BY <1>0, <1>3
    <2> QED
      BY <1>0, <1>4, <1>17, <1>19, <2>1, <2>2, <2>3, <2>4 DEF Parts
  <1> QED
    BY <1>13, <1>20, ShareOrder

(* An end that moves to a neighbour stays in order.                        *)
LEMMA EndMoves ==
  ASSUME NEW S, NEW s \in Seq(S), NEW u \in Seq(S), Len(s) >= 1
  PROVE  /\ Front(s) \o (<<Last(s)>> \o u) = s \o u
         /\ Append(u, Head(s)) \o Tail(s) = u \o s
  <1>1. PICK f : f = Front(s)
    OBVIOUS
  <1>2. PICK l : l = <<Last(s)>>
    OBVIOUS
  <1>3. PICK h : h = <<Head(s)>>
    OBVIOUS
  <1>4. PICK t : t = Tail(s)
    OBVIOUS
  <1>5. f \in Seq(S) /\ t \in Seq(S) /\ Last(s) \in S /\ Head(s) \in S
    BY <1>1, <1>4, Ends
  <1>6. l \in Seq(S) /\ h \in Seq(S)
    BY <1>2, <1>3, <1>5, Single
  <1>7. f \o l = s /\ h \o t = s
    BY <1>1, <1>2, <1>3, <1>4, EndsJoin
  <1>8. Associative(f, l, u) /\ Associative(u, h, t)
    BY <1>5, <1>6, ConcatAssoc
  <1>9. Append(u, Head(s)) = u \o h
    BY <1>3, <1>5, AppendIsConcat
  <1> QED
    BY <1>1, <1>2, <1>4, <1>7, <1>8, <1>9 DEF Associative

(* The two borrows between leaves.                                         *)
LEMMA BorrowFromLeftLeafOrder ==
  ASSUME NEW lvl \in [Node -> Nat], InvAt(lvl), InvAt(lvl)',
         NEW zone \in Zones, OrderAt(lvl, zone), BorrowFromLeftLeaf
  PROVE  \E Z \in Zones : OrderAt(lvl, Z)' /\ Keeps(zone, Z, {Child(FixPos - 1), Fixed})
  <1>1. PICK p : p = Parent
    OBVIOUS
  <1>2. PICK q : q = FixPos - 1
    OBVIOUS
  <1>3. PICK a : a = Child(q)
    OBVIOUS
  <1>4. PICK b : b = Fixed
    OBVIOUS
  <1>5. PICK x : x = keys[a]
    OBVIOUS
  <1>6. PICK y : y = keys[b]
    OBVIOUS
  <1>7. PICK ka : ka = Front(x)
    OBVIOUS
  <1>8. PICK kb : kb = <<Last(x)>> \o y
    OBVIOUS
  <1>9. PICK kp : kp = [keys[p] EXCEPT ![q] = Last(x)]
    OBVIOUS
  <1>10. /\ Fixing /\ Underfull /\ tag[b] = "leaf" /\ FixPos > 1 /\ CanLend(a)
         /\ pc' = "fix" /\ UNCHANGED <<root, tag, children>>
         /\ keys' = [keys EXCEPT ![a] = Front(@), ![b] = <<Last(x)>> \o @, ![p][q] = Last(x)]
    BY <1>1, <1>2, <1>3, <1>4, <1>5 DEF BorrowFromLeftLeaf, LeftLends, Fixing
  <1>11. q \in 1 .. Seps + 1 /\ q \in 1 .. Seps /\ q + 1 = FixPos
    <2>1. FixPos \in 1 .. Seps + 1 /\ Seps \in Nat /\ FixPos > 1
      BY <1>10, FixFacts
    <2> QED
      BY <1>2, <2>1, SMT
  <1>12. /\ a # b /\ a \in Node /\ b \in Node /\ a # p /\ b # p /\ p \in Node
         /\ Len(x) \in Nat /\ Len(x) >= 2
    BY <1>1, <1>3, <1>4, <1>5, <1>10, <1>11, Lent
  <1>13. b = Child(q + 1) /\ tag[a] = "leaf"
    BY <1>4, <1>10, <1>11 DEF Fixed, CanLend
  <1>14. TypeOK /\ Shape /\ keys \in [Node -> Seq(Key)]
    BY DEF InvAt, TypeOK
  <1>15. /\ x \in Seq(Key) /\ y \in Seq(Key) /\ keys[p] \in Seq(Key)
         /\ q \in 1 .. Len(keys[p])
    BY <1>1, <1>5, <1>6, <1>11, <1>12, <1>14 DEF Seps
  <1>16. keys' = [keys EXCEPT ![a] = ka, ![b] = kb, ![p] = kp]
    BY <1>5, <1>6, <1>7, <1>8, <1>9, <1>10, <1>12, <1>14
  <1>17. /\ Len(x) >= 1 /\ ka \in Seq(Key) /\ Last(x) \in Key /\ Len(ka) >= 1
    <2>1. Len(x) >= 1 /\ Len(x) - 1 >= 1
      BY <1>12, SMT
    <2>2. Front(x) \in Seq(Key) /\ Last(x) \in Key /\ Len(Front(x)) = Len(x) - 1
      BY <1>15, <2>1, Ends
    <2> QED
      BY <1>7, <2>1, <2>2
  <1>18. kb \in Seq(Key) /\ kp \in Seq(Key) /\ Len(kb) >= 1 /\ kb[1] = Last(x)
    <2>1. kb \in Seq(Key) /\ Len(kb) = Len(y) + 1 /\ kb[1] = Last(x)
      BY <1>8, <1>15, <1>17, Pushed
    <2>2. Len(kb) >= 1
      BY <1>15, <2>1, SMT
    <2> QED
      BY <1>9, <1>15, <1>17, <2>1, <2>2, Replaced
  <1>19. ka \o kb = x \o y
    <2>1. x \in Seq(Key) /\ y \in Seq(Key) /\ Len(x) >= 1
      BY <1>15, <1>17
    <2>2. Front(x) \o (<<Last(x)>> \o y) = x \o y
      BY ONLY <2>1, EndMoves, ZenonT(60)
    <2> QED
      BY <1>7, <1>8, <2>2
  <1>20. /\ keys'[a] = ka /\ keys'[b] = kb /\ keys'[p] = [keys[p] EXCEPT ![q] = kb[1]]
         /\ \A n \in Node : n \notin {a, b, p} => keys'[n] = keys[n]
    BY <1>9, <1>12, <1>14, <1>16, <1>18
  <1>21. Shifts(p, a, b, q, x, y, ka, kb)
    BY <1>5, <1>6, <1>19, <1>20 DEF Shifts
  <1>22. {a, b} = {Child(FixPos - 1), Fixed}
    BY <1>2, <1>3, <1>4
  <1>23. \E Z \in Zones : OrderAt(lvl, Z)' /\ Keeps(zone, Z, {a, b})
    BY <1>1, <1>3, <1>10, <1>11, <1>13, <1>17, <1>18, <1>21, LeavesShift
  <1> QED
    BY <1>22, <1>23

LEMMA BorrowFromRightLeafOrder ==
  ASSUME NEW lvl \in [Node -> Nat], InvAt(lvl), InvAt(lvl)',
         NEW zone \in Zones, OrderAt(lvl, zone), BorrowFromRightLeaf
  PROVE  \E Z \in Zones : OrderAt(lvl, Z)' /\ Keeps(zone, Z, {Fixed, Child(FixPos + 1)})
  <1>1. PICK p : p = Parent
    OBVIOUS
  <1>2. PICK q : q = FixPos
    OBVIOUS
  <1>3. PICK a : a = Fixed
    OBVIOUS
  <1>4. PICK b : b = Child(q + 1)
    OBVIOUS
  <1>5. PICK x : x = keys[a]
    OBVIOUS
  <1>6. PICK y : y = keys[b]
    OBVIOUS
  <1>7. PICK ka : ka = Append(x, Head(y))
    OBVIOUS
  <1>8. PICK kb : kb = Tail(y)
    OBVIOUS
  <1>9. PICK kp : kp = [keys[p] EXCEPT ![q] = y[2]]
    OBVIOUS
  <1>10. /\ Fixing /\ Underfull /\ tag[a] = "leaf" /\ FixPos <= Seps /\ CanLend(b)
         /\ pc' = "fix" /\ UNCHANGED <<root, tag, children>>
         /\ keys' = [keys EXCEPT ![b] = Tail(@), ![a] = Append(@, Head(y)), ![p][q] = y[2]]
    BY <1>1, <1>2, <1>3, <1>4, <1>6 DEF BorrowFromRightLeaf, RightLends, Fixing
  <1>11. q \in 1 .. Seps /\ q + 1 \in 1 .. Seps + 1
    <2>1. FixPos \in 1 .. Seps + 1 /\ Seps \in Nat /\ FixPos <= Seps
      BY <1>10, FixFacts
    <2> QED
      BY <1>2, <2>1, SMT
  <1>12. /\ a # b /\ a \in Node /\ b \in Node /\ a # p /\ b # p /\ p \in Node
         /\ Len(y) \in Nat /\ Len(y) >= 2
    BY <1>1, <1>3, <1>4, <1>6, <1>10, <1>11, Lent
  <1>13. a = Child(q)
    BY <1>2, <1>3 DEF Fixed
  <1>14. TypeOK /\ Shape /\ keys \in [Node -> Seq(Key)]
    BY DEF InvAt, TypeOK
  <1>15. /\ x \in Seq(Key) /\ y \in Seq(Key) /\ keys[p] \in Seq(Key)
         /\ q \in 1 .. Len(keys[p])
    BY <1>1, <1>5, <1>6, <1>11, <1>12, <1>14 DEF Seps
  <1>16. keys' = [keys EXCEPT ![b] = kb, ![a] = ka, ![p] = kp]
    BY <1>5, <1>6, <1>7, <1>8, <1>9, <1>10, <1>12, <1>14
  <1>17. /\ Len(y) >= 1 /\ kb \in Seq(Key) /\ Head(y) \in Key /\ y[2] \in Key
         /\ Len(kb) >= 1 /\ kb[1] = y[2]
    <2>1. Len(y) >= 1 /\ 2 \in 1 .. Len(y) /\ 1 \in 1 .. Len(y) - 1 /\ Len(y) - 1 >= 1
      BY <1>12, SMT
    <2>2. /\ Tail(y) \in Seq(Key) /\ Head(y) \in Key
          /\ Len(Tail(y)) = Len(y) - 1
          /\ \A j \in 1 .. Len(y) - 1 : Tail(y)[j] = y[j + 1]
      BY <1>15, <2>1, Ends
    <2>3. Tail(y)[1] = y[2]
      BY <2>1, <2>2
    <2> QED
      BY <1>8, <1>15, <2>1, <2>2, <2>3, KeysAreInts
  <1>18. ka \in Seq(Key) /\ kp \in Seq(Key) /\ Len(ka) >= 1
    <2>1. ka \in Seq(Key) /\ Len(ka) = Len(x) + 1
      BY <1>7, <1>15, <1>17, Pushed
    <2>2. Len(ka) >= 1
      BY <1>15, <2>1, SMT
    <2> QED
      BY <1>9, <1>15, <1>17, <2>1, <2>2, Replaced
  <1>19. ka \o kb = x \o y
    <2>1. x \in Seq(Key) /\ y \in Seq(Key) /\ Len(y) >= 1
      BY <1>15, <1>17
    <2>2. Append(x, Head(y)) \o Tail(y) = x \o y
      BY ONLY <2>1, EndMoves, Zenon
    <2> QED
      BY <1>7, <1>8, <2>2
  <1>20. /\ keys'[a] = ka /\ keys'[b] = kb /\ keys'[p] = [keys[p] EXCEPT ![q] = kb[1]]
         /\ \A n \in Node : n \notin {a, b, p} => keys'[n] = keys[n]
    BY <1>9, <1>12, <1>14, <1>16, <1>17
  <1>21. Shifts(p, a, b, q, x, y, ka, kb)
    BY <1>5, <1>6, <1>19, <1>20 DEF Shifts
  <1>22. {a, b} = {Fixed, Child(FixPos + 1)}
    BY <1>2, <1>3, <1>4
  <1>23. \E Z \in Zones : OrderAt(lvl, Z)' /\ Keeps(zone, Z, {a, b})
    BY <1>1, <1>4, <1>10, <1>11, <1>13, <1>17, <1>18, <1>21, LeavesShift
  <1> QED
    BY <1>22, <1>23

(* Two neighbouring branches, and the separator between them, are one      *)
(* branch with the keys of both.                                           *)
Side(p, a, b, q, x, y, cx, cy, w) ==
  /\ p = Parent /\ a = Child(q) /\ b = Child(q + 1)
  /\ x = keys[a] /\ y = keys[b] /\ cx = children[a] /\ cy = children[b] /\ w = keys[p][q]

(* Two neighbouring branches and their separator are one sorted branch.    *)
LEMMA SideBySide ==
  ASSUME NEW lvl \in [Node -> Nat], InvAt(lvl), NEW zone \in Zones, OrderAt(lvl, zone),
         Fixing, NEW q \in 1 .. Seps,
         NEW p, NEW a, NEW b, NEW x, NEW y, NEW cx, NEW cy, NEW w,
         Side(p, a, b, q, x, y, cx, cy, w), tag[a] = "branch"
  PROVE  /\ x \in Seq(Key) /\ y \in Seq(Key) /\ cx \in Seq(Node) /\ cy \in Seq(Node)
         /\ Len(cx) = Len(x) + 1 /\ Len(cy) = Len(y) + 1 /\ w \in Key
         /\ Sorted(Around(x, w, y))
         /\ Fan(zone, zone[a] \cup zone[b], Around(x, w, y), cx \o cy)
         /\ \A n \in Range(cx) \cup Range(cy) : \E k \in Key : k \in zone[n]
  <1>0. PICK U : U = zone[a] \cup zone[b]
    OBVIOUS
  <1>1. /\ p = Parent /\ a = Child(q) /\ b = Child(q + 1)
        /\ x = keys[a] /\ y = keys[b] /\ cx = children[a] /\ cy = children[b] /\ w = keys[p][q]
    BY DEF Side
  <1>2. /\ WholeAt(lvl, zone)
        /\ a \in Live /\ b \in Live /\ a \in Node /\ b \in Node
        /\ a # b /\ tag[a] = tag[b] /\ w \in Key
        /\ \A k \in Key : k \in zone[a] => k < w
        /\ \A k \in Key : k \in zone[b] => w <= k
    BY <1>1, Neighbours
  <1>3. TypeOK /\ Shape /\ Rooted /\ pc = "fix" /\ Ordered(zone) /\ Fanned(zone)
    BY <1>2 DEF InvAt, Fixing, WholeAt
  <1>4. /\ x \in Seq(Key) /\ y \in Seq(Key) /\ cx \in Seq(Node) /\ cy \in Seq(Node)
        /\ Len(cx) = Len(x) + 1 /\ Len(cy) = Len(y) + 1
    BY <1>1, <1>2, <1>3, BlockTypes
  <1>5. Sorted(x) /\ Sorted(y)
    BY <1>1, <1>2, <1>3 DEF Ordered
  <1>6. Kids(a) \subseteq Live /\ Kids(b) \subseteq Live
    BY <1>2, <1>3 DEF Rooted, Kids
  <1>7. Filled(zone, cx) /\ Filled(zone, cy)
    BY <1>1, <1>2, <1>3, <1>6, FilledChildren
  <1>8. Fan(zone, zone[a], x, cx) /\ Fan(zone, zone[b], y, cy)
    BY <1>1, <1>2, <1>3, FanOf
  <1>9. /\ \A k \in Key : k \in Low(U, w) <=> k \in zone[a]
        /\ \A k \in Key : k \in High(U, w) <=> k \in zone[b]
    <2>1. w \in Int
      BY <1>2, KeyAssumption
    <2>2. \A k \in Int : ~(k < w /\ w <= k)
      BY ONLY <2>1, SMT
    <2> QED
      BY <1>0, <1>2, <2>2, KeyAssumption DEF Low, High
  <1>10. Fan(zone, Low(U, w), x, cx) /\ Fan(zone, High(U, w), y, cy)
    BY <1>8, <1>9 DEF Fan
  <1>11. Sorted(Around(x, w, y)) /\ Fan(zone, U, Around(x, w, y), cx \o cy)
    BY <1>2, <1>4, <1>5, <1>7, <1>10, FanJoin
  <1>12. \A n \in Range(cx) \cup Range(cy) : \E k \in Key : k \in zone[n]
    <2> TAKE n \in Range(cx) \cup Range(cy)
    <2>1. \/ \E i \in 1 .. Len(cx) : n = cx[i]
          \/ \E i \in 1 .. Len(cy) : n = cy[i]
      BY <1>4, Entries
    <2> QED
      BY <1>7, <2>1 DEF Filled
  <1> QED
    BY <1>0, <1>2, <1>4, <1>11, <1>12

(* Two branches share their children anew, and what separates their new    *)
(* halves is the separator.                                                *)
Turns(p, a, b, q, x, y, cx, cy, w, ka, kb, ca, cb, t) ==
  /\ Around(ka, t, kb) = Around(x, w, y) /\ ca \o cb = cx \o cy
  /\ keys'[a] = ka /\ keys'[b] = kb /\ keys'[p] = [keys[p] EXCEPT ![q] = t]
  /\ \A n \in Node : n \notin {a, b, p} => keys'[n] = keys[n]
  /\ children'[a] = ca /\ children'[b] = cb
  /\ \A n \in Node : n \notin {a, b} => children'[n] = children[n]

(* A child that moves between branches turns the separator.                *)
LEMMA BranchesShift ==
  ASSUME NEW lvl \in [Node -> Nat], InvAt(lvl), InvAt(lvl)',
         NEW zone \in Zones, OrderAt(lvl, zone),
         Fixing, NEW q \in 1 .. Seps, pc' = "fix", UNCHANGED <<root, tag>>,
         NEW p, NEW a, NEW b, NEW x, NEW y, NEW cx, NEW cy, NEW w,
         Side(p, a, b, q, x, y, cx, cy, w), tag[a] = "branch",
         NEW ka \in Seq(Key), NEW kb \in Seq(Key), NEW ca \in Seq(Node), NEW cb \in Seq(Node),
         NEW t \in Key, Len(ca) = Len(ka) + 1, Len(cb) = Len(kb) + 1,
         Turns(p, a, b, q, x, y, cx, cy, w, ka, kb, ca, cb, t)
  PROVE  \E Z \in Zones : OrderAt(lvl, Z)' /\ Keeps(zone, Z, {a, b})
  <1>1. PICK U : U = zone[a] \cup zone[b]
    OBVIOUS
  <1>2. /\ Around(ka, t, kb) = Around(x, w, y) /\ ca \o cb = cx \o cy
        /\ keys'[a] = ka /\ keys'[b] = kb /\ keys'[p] = [keys[p] EXCEPT ![q] = t]
        /\ \A n \in Node : n \notin {a, b, p} => keys'[n] = keys[n]
        /\ children'[a] = ca /\ children'[b] = cb
        /\ \A n \in Node : n \notin {a, b} => children'[n] = children[n]
    BY DEF Turns
  <1>3. /\ p = Parent /\ a = Child(q) /\ b = Child(q + 1)
        /\ cx = children[a] /\ cy = children[b]
    BY DEF Side
  <1>4. /\ cx \in Seq(Node) /\ cy \in Seq(Node)
        /\ Sorted(Around(x, w, y)) /\ Fan(zone, U, Around(x, w, y), cx \o cy)
        /\ \A n \in Range(cx) \cup Range(cy) : \E k \in Key : k \in zone[n]
    BY <1>1, SideBySide
  <1>5. Sorted(Around(ka, t, kb)) /\ Fan(zone, U, Around(ka, t, kb), ca \o cb)
    BY <1>2, <1>4
  <1>6. Fan(zone, Low(U, t), ka, ca) /\ Fan(zone, High(U, t), kb, cb)
    BY <1>5, FanCut
  <1>7. Sorted(ka) /\ Sorted(kb)
    BY <1>5, AroundSorted
  <1>8. \A n : n \in Range(ca) \/ n \in Range(cb) <=> n \in Range(cx) \/ n \in Range(cy)
    <2>1. Joins(ca, cb, ca \o cb)
      BY ConcatJoins
    <2>2. Joins(cx, cy, cx \o cy)
      BY <1>4, ConcatJoins
    <2> QED
      BY <1>2, <2>1, <2>2 DEF Joins
  <1>9. ASSUME NEW s \in Seq(Node), NEW ks \in Seq(Key), NEW S, Len(s) = Len(ks) + 1,
               Fan(zone, S, ks, s), \A n \in Range(s) : n \in Range(ca) \/ n \in Range(cb)
        PROVE  \E k \in Key : k \in S
    <2>1. 1 \in 1 .. Len(s)
      BY <1>9, SMT
    <2>2. s[1] \in Range(s)
      BY <2>1, Entries
    <2>3. PICK k \in Key : k \in zone[s[1]]
      BY <1>4, <1>8, <1>9, <2>2
    <2> QED
      BY <1>9, <2>1, <2>3 DEF Fan
  <1>10. (\E k \in Key : k \in Low(U, t)) /\ (\E k \in Key : k \in High(U, t))
    BY <1>6, <1>9
  <1>11. Kids(a) \cup Kids(b) \subseteq Kids(a)' \cup Kids(b)'
    BY <1>2, <1>3, <1>8 DEF Kids
  <1>12. Parts(p, a, b, q, t, U, zone)
    <2>1. Fan(zone, Low(U, t), keys'[a], children'[a]) /\ Fan(zone, High(U, t), keys'[b], children'[b])
      BY <1>2, <1>6
    <2>2. Sorted(keys'[a]) /\ Sorted(keys'[b]) /\ tag' = tag
      BY <1>2, <1>7
    <2> QED
      BY <1>1, <1>2, <1>10, <1>11, <2>1, <2>2 DEF Parts
  <1> QED
    BY <1>3, <1>12, ShareOrder

(* The two borrows between branches.                                       *)
LEMMA BorrowFromLeftBranchOrder ==
  ASSUME NEW lvl \in [Node -> Nat], InvAt(lvl), InvAt(lvl)',
         NEW zone \in Zones, OrderAt(lvl, zone), BorrowFromLeftBranch
  PROVE  \E Z \in Zones : OrderAt(lvl, Z)' /\ Keeps(zone, Z, {Child(FixPos - 1), Fixed})
  <1>1. PICK p : p = Parent
    OBVIOUS
  <1>2. PICK q : q = FixPos - 1
    OBVIOUS
  <1>3. PICK a : a = Child(q)
    OBVIOUS
  <1>4. PICK b : b = Fixed
    OBVIOUS
  <1>5. PICK x : x = keys[a]
    OBVIOUS
  <1>6. PICK y : y = keys[b]
    OBVIOUS
  <1>7. PICK cx : cx = children[a]
    OBVIOUS
  <1>8. PICK cy : cy = children[b]
    OBVIOUS
  <1>9. PICK w : w = keys[p][q]
    OBVIOUS
  <1>10. PICK t : t = Last(x)
    OBVIOUS
  <1>11. PICK ka : ka = Front(x)
    OBVIOUS
  <1>12. PICK kb : kb = <<w>> \o y
    OBVIOUS
  <1>13. PICK ca : ca = Front(cx)
    OBVIOUS
  <1>14. PICK cb : cb = <<Last(cx)>> \o cy
    OBVIOUS
  <1>15. PICK kp : kp = [keys[p] EXCEPT ![q] = t]
    OBVIOUS
  <1>16. /\ Fixing /\ Underfull /\ tag[b] = "branch" /\ FixPos > 1 /\ CanLend(a)
         /\ pc' = "fix" /\ UNCHANGED <<root, tag>>
         /\ keys' = [keys EXCEPT ![a] = Front(@), ![b] = <<w>> \o @, ![p][q] = t]
         /\ children' = [children EXCEPT ![a] = Front(@), ![b] = <<Last(cx)>> \o @]
    BY <1>1, <1>2, <1>3, <1>4, <1>5, <1>6, <1>7, <1>8, <1>9, <1>10
       DEF BorrowFromLeftBranch, LeftLends, Fixing
  <1>17. q \in 1 .. Seps + 1 /\ q \in 1 .. Seps /\ q + 1 = FixPos
    <2>1. FixPos \in 1 .. Seps + 1 /\ Seps \in Nat /\ FixPos > 1
      BY <1>16, FixFacts
    <2> QED
      BY <1>2, <2>1, SMT
  <1>18. /\ a # b /\ a \in Node /\ b \in Node /\ a # p /\ b # p /\ p \in Node
         /\ Len(x) \in Nat /\ Len(x) >= 2
    BY <1>1, <1>3, <1>4, <1>5, <1>16, <1>17, Lent
  <1>19. b = Child(q + 1)
    BY <1>2, <1>4, <1>17 DEF Fixed
  <1>20. Side(p, a, b, q, x, y, cx, cy, w)
    BY <1>1, <1>3, <1>4, <1>5, <1>6, <1>7, <1>8, <1>9, <1>19 DEF Side
  <1>21. tag[a] = "branch"
    BY <1>1, <1>3, <1>4, <1>16, <1>17, <1>19, Neighbours
  <1>22. /\ keys \in [Node -> Seq(Key)] /\ children \in [Node -> Seq(Node)]
         /\ keys[p] \in Seq(Key) /\ q \in 1 .. Len(keys[p])
    BY <1>1, <1>17, <1>18 DEF InvAt, TypeOK, Seps
  <1>23. /\ x \in Seq(Key) /\ y \in Seq(Key) /\ cx \in Seq(Node) /\ cy \in Seq(Node)
         /\ Len(cx) = Len(x) + 1 /\ Len(cy) = Len(y) + 1 /\ w \in Key
    <2>1. TypeOK /\ Shape /\ tag[b] = "branch"
      BY <1>1, <1>3, <1>4, <1>16, <1>17, <1>19, <1>21, Neighbours DEF InvAt
    <2> QED
      BY <1>5, <1>6, <1>7, <1>8, <1>9, <1>18, <1>21, <1>22, <2>1, BlockTypes, KeysAreInts
  <1>24. /\ keys' = [keys EXCEPT ![a] = ka, ![b] = kb, ![p] = kp]
         /\ children' = [children EXCEPT ![a] = ca, ![b] = cb]
    BY <1>5, <1>6, <1>7, <1>8, <1>11, <1>12, <1>13, <1>14, <1>15, <1>16, <1>18, <1>22
  <1>25. Len(x) \in Nat /\ Len(y) \in Nat /\ Len(x) >= 1 /\ Len(cx) >= 1
    BY <1>18, <1>23, SMT
  <1>26. /\ ka \in Seq(Key) /\ Len(ka) = Len(x) - 1 /\ t \in Key
         /\ ca \in Seq(Node) /\ Len(ca) = Len(cx) - 1 /\ Last(cx) \in Node
    BY <1>10, <1>11, <1>13, <1>23, <1>25, Ends
  <1>27. /\ kb \in Seq(Key) /\ Len(kb) = Len(y) + 1
         /\ cb \in Seq(Node) /\ Len(cb) = Len(cy) + 1
    BY <1>12, <1>14, <1>23, <1>26, Pushed
  <1>28. Len(ca) = Len(ka) + 1 /\ Len(cb) = Len(kb) + 1
    BY <1>23, <1>25, <1>26, <1>27, SMT
  <1>29. Around(ka, t, kb) = Around(x, w, y) /\ ca \o cb = cx \o cy
    <2>1. /\ x \in Seq(Key) /\ w \in Key /\ y \in Seq(Key) /\ cx \in Seq(Node) /\ cy \in Seq(Node)
          /\ Len(x) >= 1 /\ Len(cx) >= 1
      BY <1>23, <1>25
    <2>2. /\ Around(Front(x), Last(x), <<w>> \o y) = Around(x, w, y)
          /\ Front(cx) \o (<<Last(cx)>> \o cy) = cx \o cy
      BY ONLY <2>1, AroundMoves, Zenon
    <2> QED
      BY <1>10, <1>11, <1>12, <1>13, <1>14, <2>2
  <1>30. /\ keys'[a] = ka /\ keys'[b] = kb /\ keys'[p] = kp
         /\ \A n \in Node : n \notin {a, b, p} => keys'[n] = keys[n]
         /\ children'[a] = ca /\ children'[b] = cb
         /\ \A n \in Node : n \notin {a, b} => children'[n] = children[n]
    BY <1>18, <1>22, <1>24
  <1>31. Turns(p, a, b, q, x, y, cx, cy, w, ka, kb, ca, cb, t)
    BY <1>15, <1>29, <1>30 DEF Turns
  <1>32. {a, b} = {Child(FixPos - 1), Fixed}
    BY <1>2, <1>3, <1>4
  <1>33. \E Z \in Zones : OrderAt(lvl, Z)' /\ Keeps(zone, Z, {a, b})
    BY <1>16, <1>17, <1>20, <1>21, <1>26, <1>27, <1>28, <1>31, BranchesShift
  <1> QED
    BY <1>32, <1>33

LEMMA BorrowFromRightBranchOrder ==
  ASSUME NEW lvl \in [Node -> Nat], InvAt(lvl), InvAt(lvl)',
         NEW zone \in Zones, OrderAt(lvl, zone), BorrowFromRightBranch
  PROVE  \E Z \in Zones : OrderAt(lvl, Z)' /\ Keeps(zone, Z, {Fixed, Child(FixPos + 1)})
  <1>1. PICK p : p = Parent
    OBVIOUS
  <1>2. PICK q : q = FixPos
    OBVIOUS
  <1>3. PICK a : a = Fixed
    OBVIOUS
  <1>4. PICK b : b = Child(q + 1)
    OBVIOUS
  <1>5. PICK x : x = keys[a]
    OBVIOUS
  <1>6. PICK y : y = keys[b]
    OBVIOUS
  <1>7. PICK cx : cx = children[a]
    OBVIOUS
  <1>8. PICK cy : cy = children[b]
    OBVIOUS
  <1>9. PICK w : w = keys[p][q]
    OBVIOUS
  <1>10. PICK t : t = Head(y)
    OBVIOUS
  <1>11. PICK ka : ka = Append(x, w)
    OBVIOUS
  <1>12. PICK kb : kb = Tail(y)
    OBVIOUS
  <1>13. PICK ca : ca = Append(cx, Head(cy))
    OBVIOUS
  <1>14. PICK cb : cb = Tail(cy)
    OBVIOUS
  <1>15. PICK kp : kp = [keys[p] EXCEPT ![q] = t]
    OBVIOUS
  <1>16. /\ Fixing /\ Underfull /\ tag[a] = "branch" /\ FixPos <= Seps /\ CanLend(b)
         /\ pc' = "fix" /\ UNCHANGED <<root, tag>>
         /\ keys' = [keys EXCEPT ![b] = Tail(@), ![a] = Append(@, w), ![p][q] = t]
         /\ children' = [children EXCEPT ![b] = Tail(@), ![a] = Append(@, Head(cy))]
    BY <1>1, <1>2, <1>3, <1>4, <1>5, <1>6, <1>7, <1>8, <1>9, <1>10
       DEF BorrowFromRightBranch, RightLends, Fixing
  <1>17. q \in 1 .. Seps /\ q + 1 \in 1 .. Seps + 1
    <2>1. FixPos \in 1 .. Seps + 1 /\ Seps \in Nat /\ FixPos <= Seps
      BY <1>16, FixFacts
    <2> QED
      BY <1>2, <2>1, SMT
  <1>18. /\ a # b /\ a \in Node /\ b \in Node /\ a # p /\ b # p /\ p \in Node
         /\ Len(y) \in Nat /\ Len(y) >= 2
    BY <1>1, <1>3, <1>4, <1>6, <1>16, <1>17, Lent
  <1>19. a = Child(q)
    BY <1>2, <1>3, <1>17 DEF Fixed
  <1>20. Side(p, a, b, q, x, y, cx, cy, w)
    BY <1>1, <1>3, <1>4, <1>5, <1>6, <1>7, <1>8, <1>9, <1>19 DEF Side
  <1>21. tag[a] = "branch"
    BY <1>1, <1>3, <1>4, <1>16, <1>17, <1>19, Neighbours
  <1>22. /\ keys \in [Node -> Seq(Key)] /\ children \in [Node -> Seq(Node)]
         /\ keys[p] \in Seq(Key) /\ q \in 1 .. Len(keys[p])
    BY <1>1, <1>17, <1>18 DEF InvAt, TypeOK, Seps
  <1>23. /\ x \in Seq(Key) /\ y \in Seq(Key) /\ cx \in Seq(Node) /\ cy \in Seq(Node)
         /\ Len(cx) = Len(x) + 1 /\ Len(cy) = Len(y) + 1 /\ w \in Key
    <2>1. TypeOK /\ Shape /\ tag[b] = "branch"
      BY <1>1, <1>3, <1>4, <1>16, <1>17, <1>19, <1>21, Neighbours DEF InvAt
    <2> QED
      BY <1>5, <1>6, <1>7, <1>8, <1>9, <1>18, <1>21, <1>22, <2>1, BlockTypes, KeysAreInts
  <1>24. /\ keys' = [keys EXCEPT ![b] = kb, ![a] = ka, ![p] = kp]
         /\ children' = [children EXCEPT ![b] = cb, ![a] = ca]
    BY <1>5, <1>6, <1>7, <1>8, <1>11, <1>12, <1>13, <1>14, <1>15, <1>16, <1>18, <1>22
  <1>25. Len(x) \in Nat /\ Len(y) \in Nat /\ Len(y) >= 1 /\ Len(cy) >= 1
    BY <1>18, <1>23, SMT
  <1>26. /\ kb \in Seq(Key) /\ Len(kb) = Len(y) - 1 /\ t \in Key
         /\ cb \in Seq(Node) /\ Len(cb) = Len(cy) - 1 /\ Head(cy) \in Node
    BY <1>10, <1>12, <1>14, <1>23, <1>25, Ends
  <1>27. /\ ka \in Seq(Key) /\ Len(ka) = Len(x) + 1
         /\ ca \in Seq(Node) /\ Len(ca) = Len(cx) + 1
    BY <1>11, <1>13, <1>23, <1>26, Pushed
  <1>28. Len(ca) = Len(ka) + 1 /\ Len(cb) = Len(kb) + 1
    BY <1>23, <1>25, <1>26, <1>27, SMT
  <1>29. Around(ka, t, kb) = Around(x, w, y) /\ ca \o cb = cx \o cy
    <2>1. /\ x \in Seq(Key) /\ w \in Key /\ y \in Seq(Key) /\ cx \in Seq(Node) /\ cy \in Seq(Node)
          /\ Len(y) >= 1 /\ Len(cy) >= 1
      BY <1>23, <1>25
    <2>2. Around(Append(x, w), Head(y), Tail(y)) = Around(x, w, y)
      BY ONLY <2>1, AroundMoves, Zenon
    <2>3. Append(cx, Head(cy)) \o Tail(cy) = cx \o cy
      BY ONLY <2>1, EndMoves, Zenon
    <2> QED
      BY <1>10, <1>11, <1>12, <1>13, <1>14, <2>2, <2>3
  <1>30. /\ keys'[a] = ka /\ keys'[b] = kb /\ keys'[p] = kp
         /\ \A n \in Node : n \notin {a, b, p} => keys'[n] = keys[n]
         /\ children'[a] = ca /\ children'[b] = cb
         /\ \A n \in Node : n \notin {a, b} => children'[n] = children[n]
    BY <1>18, <1>22, <1>24
  <1>31. Turns(p, a, b, q, x, y, cx, cy, w, ka, kb, ca, cb, t)
    BY <1>15, <1>29, <1>30 DEF Turns
  <1>32. {a, b} = {Fixed, Child(FixPos + 1)}
    BY <1>2, <1>3, <1>4
  <1>33. \E Z \in Zones : OrderAt(lvl, Z)' /\ Keeps(zone, Z, {a, b})
    BY <1>16, <1>17, <1>20, <1>21, <1>26, <1>27, <1>28, <1>31, BranchesShift
  <1> QED
    BY <1>32, <1>33

(* a takes all of b, which is freed; the branch above them loses b and the *)
(* separator before it.                                                    *)
Takes(p, a, b, q, zone) ==
  /\ tag' = [tag EXCEPT ![b] = "free"]
  /\ keys'[p] = RemoveAt(keys[p], q) /\ children'[p] = RemoveAt(children[p], q + 1)
  /\ \A n \in Node : n \notin {a, b, p} => keys'[n] = keys[n] /\ children'[n] = children[n]
  /\ Sorted(keys'[a])
  /\ tag[a] = "leaf" => Range(keys'[a]) \subseteq zone[a] \cup zone[b]
  /\ Fan(zone, zone[a] \cup zone[b], keys'[a], children'[a])
  /\ Kids(a) \cup Kids(b) \subseteq Kids(a)'

(* The left of two neighbours takes over the zone of the right one.        *)
LEMMA MergeOrder ==
  ASSUME NEW lvl \in [Node -> Nat], InvAt(lvl), InvAt(lvl)',
         NEW zone \in Zones, OrderAt(lvl, zone),
         Fixing, NEW q \in 1 .. Seps, pc' = "fix", root' = root,
         NEW p, p = Parent, NEW a, a = Child(q), NEW b, b = Child(q + 1),
         Takes(p, a, b, q, zone)
  PROVE  \E Z \in Zones : OrderAt(lvl, Z)' /\ Keeps(zone, Z, {a, b})
  <1>1. PICK U : U = zone[a] \cup zone[b]
    OBVIOUS
  <1>2. PICK z : z = [zone EXCEPT ![a] = U]
    OBVIOUS
  <1>3. /\ tag' = [tag EXCEPT ![b] = "free"]
        /\ keys'[p] = RemoveAt(keys[p], q) /\ children'[p] = RemoveAt(children[p], q + 1)
        /\ \A n \in Node : n \notin {a, b, p} => keys'[n] = keys[n] /\ children'[n] = children[n]
        /\ Sorted(keys'[a]) /\ (tag[a] = "leaf" => Range(keys'[a]) \subseteq U)
        /\ Fan(zone, U, keys'[a], children'[a])
        /\ Kids(a) \cup Kids(b) \subseteq Kids(a)'
    BY <1>1 DEF Takes
  <1>4. /\ WholeAt(lvl, zone) /\ a \in Live
        /\ p \in Node /\ a \in Node /\ b \in Node
        /\ a # b /\ a # p /\ b # p
        /\ keys[p] \in Seq(Key) /\ children[p] \in Seq(Node)
        /\ Len(children[p]) = Len(keys[p]) + 1 /\ Sorted(keys[p])
        /\ q \in 1 .. Len(keys[p]) /\ a = children[p][q] /\ b = children[p][q + 1]
        /\ q \in 1 .. Len(children[p]) /\ q + 1 \in 1 .. Len(children[p])
        /\ Fan(zone, zone[p], keys[p], children[p])
    BY Neighbours
  <1>5. zone \in [Node -> SUBSET Key] /\ tag \in [Node -> {"free", "leaf", "branch"}]
        /\ IsInjective(children[p]) /\ DOMAIN children[p] = 1 .. Len(children[p])
    <2>1. TypeOK /\ OneOwner(children)
      BY DEF InvAt
    <2>2. zone \in [Node -> SUBSET Key]
      BY DEF Zones
    <2>3. tag \in [Node -> {"free", "leaf", "branch"}]
      BY <2>1 DEF TypeOK
    <2>4. IsInjective(children[p])
      BY <1>4, <2>1 DEF OneOwner
    <2>5. DOMAIN children[p] = 1 .. Len(children[p])
      BY <1>4, Entries
    <2> QED
      BY <2>2, <2>3, <2>4, <2>5
  <1>6. /\ z \in Zones /\ z[a] = U
        /\ \A n \in Node : n # a => z[n] = zone[n]
    <2>1. U \in SUBSET Key
      BY <1>1, <1>4, <1>5
    <2> QED
      BY <1>2, <1>4, <1>5, <2>1 DEF Zones
  <1>7. zone[a] # {} /\ U # {}
    BY <1>1, <1>4 DEF WholeAt, Ordered
  <1>8. Sorted(keys'[p])
    BY <1>3, <1>4, SlicesRemoved
  <1>9. Fan(z, zone[p], keys'[p], children'[p])
    <2>1. \A k \in Key : k \in z[children[p][q]] <=>
            k \in zone[children[p][q]] \/ k \in zone[children[p][q + 1]]
      BY <1>1, <1>4, <1>6
    <2>2. ASSUME NEW j \in 1 .. Len(children[p]), NEW k \in Key, j # q, j # q + 1
          PROVE  k \in z[children[p][j]] <=> k \in zone[children[p][j]]
      <3>1. children[p][j] # a
        BY <1>4, <1>5, <2>2 DEF IsInjective
      <3>2. children[p][j] \in Node
        BY <1>4
      <3> QED
        BY <1>6, <3>1, <3>2
    <2>3. Fan(z, zone[p], RemoveAt(keys[p], q), RemoveAt(children[p], q + 1))
      BY <1>4, <2>1, <2>2, FanRemove
    <2> QED
      BY <1>3, <2>3
  <1>10. \A x \in Kids(p) : x \in {b} \/ x \in Kids(p)'
    <2>1. Drops(children[p], b, children'[p])
      BY <1>3, <1>4, RemoveDrops
    <2> QED
      BY <1>5, <2>1 DEF Drops, Kids
  <1>11. Shares(p, a, b, {b}, zone, z)
    <2>1. /\ \A n \in Node : n \notin {b} => tag'[n] = tag[n]
          /\ tag'[b] = "free"
      BY <1>3, <1>4, <1>5
    <2>2. \A c \in {a, b} \ {b} :
            /\ z[c] # {} /\ z[c] \subseteq zone[a] \cup zone[b]
            /\ Sorted(keys'[c]) /\ (tag[c] = "leaf" => Range(keys'[c]) \subseteq z[c])
            /\ Fan(zone, z[c], keys'[c], children'[c])
      BY <1>1, <1>3, <1>6, <1>7
    <2>3. \A x \in Kids(a) \cup Kids(b) : \E c \in {a, b} \ {b} : x \in Kids(c)'
      <3> TAKE x \in Kids(a) \cup Kids(b)
      <3>1. a \in {a, b} \ {b} /\ x \in Kids(a)'
        BY <1>3, <1>4
      <3> QED
        BY <3>1
    <2> QED
      BY <1>3, <1>6, <1>8, <1>9, <1>10, <2>1, <2>2, <2>3 DEF Shares
  <1> QED
    BY <1>6, <1>11, PairOrder

(* The two merges.                                                         *)
LEMMA MergeLeavesOrder ==
  ASSUME NEW lvl \in [Node -> Nat], InvAt(lvl), InvAt(lvl)',
         NEW zone \in Zones, OrderAt(lvl, zone), MergeLeaves
  PROVE  \E Z \in Zones : OrderAt(lvl, Z)' /\ Keeps(zone, Z, {Into, From})
  <1>1. PICK p : p = Parent
    OBVIOUS
  <1>2. PICK q : q = MergePos
    OBVIOUS
  <1>3. PICK a : a = Into
    OBVIOUS
  <1>4. PICK b : b = From
    OBVIOUS
  <1>5. PICK x : x = keys[a]
    OBVIOUS
  <1>6. PICK y : y = keys[b]
    OBVIOUS
  <1>7. /\ Merging /\ Fixing /\ tag[Fixed] = "leaf" /\ pc' = "fix" /\ root' = root
        /\ tag' = [tag EXCEPT ![b] = "free"]
        /\ keys' = [keys EXCEPT ![a] = x \o y, ![b] = <<>>, ![p] = RemoveAt(@, q)]
        /\ children' = [children EXCEPT ![p] = RemoveAt(@, q + 1)]
    <2>1. TypeOK /\ a \in Node /\ Merging
      BY <1>3, MergeFacts DEF MergeLeaves, InvAt
    <2> QED
      BY <1>1, <1>2, <1>3, <1>4, <1>5, <1>6, <2>1 DEF MergeLeaves, Merging, Fixing, TypeOK
  <1>8. /\ p \in Node /\ a \in Node /\ b \in Node /\ a # b /\ a # p /\ b # p
        /\ tag[a] = "leaf" /\ tag[b] = "leaf" /\ q \in 1 .. Seps
    BY <1>1, <1>2, <1>3, <1>4, <1>7, MergeFacts DEF Seps
  <1>9. a = Child(q) /\ b = Child(q + 1)
    BY <1>2, <1>3, <1>4 DEF Into, From
  <1>10. TypeOK /\ Shape
    BY DEF InvAt
  <1>11. /\ keys'[a] = x \o y /\ keys'[p] = RemoveAt(keys[p], q)
         /\ children'[p] = RemoveAt(children[p], q + 1)
         /\ \A n \in Node : n \notin {a, b, p} => keys'[n] = keys[n] /\ children'[n] = children[n]
         /\ children'[a] = children[a]
    <2>1. keys \in [Node -> Seq(Key)] /\ children \in [Node -> Seq(Node)]
      BY <1>10 DEF TypeOK
    <2> QED
      BY <1>7, <1>8, <2>1
  <1>12. /\ WholeAt(lvl, zone) /\ a \in Live /\ b \in Live /\ keys[p][q] \in Key
         /\ \A k \in Key : k \in zone[a] => k < keys[p][q]
         /\ \A k \in Key : k \in zone[b] => keys[p][q] <= k
    BY <1>1, <1>7, <1>8, <1>9, Neighbours
  <1>13. PICK w : w = keys[p][q]
    OBVIOUS
  <1>14. /\ x \in Seq(Key) /\ y \in Seq(Key) /\ Sorted(x) /\ Sorted(y)
         /\ Range(x) \subseteq zone[a] /\ Range(y) \subseteq zone[b]
         /\ children[a] = <<>> /\ children[b] = <<>>
    BY <1>5, <1>6, <1>8, <1>10, <1>12, BlockTypes DEF WholeAt, Ordered
  <1>15. \A i \in 1 .. Len(x), j \in 1 .. Len(y) : x[i] < y[j]
    <2> TAKE i \in 1 .. Len(x), j \in 1 .. Len(y)
    <2>1. x[i] \in zone[a] /\ y[j] \in zone[b] /\ x[i] \in Key /\ y[j] \in Key
      BY <1>14, Entries, KeysAreInts
    <2>2. x[i] < w /\ w <= y[j] /\ x[i] \in Int /\ w \in Int /\ y[j] \in Int
      BY <1>12, <1>13, <2>1, KeyAssumption
    <2> QED
      BY <2>2, SMT
  <1>16. Sorted(x \o y)
    BY <1>14, <1>15, SortedConcat
  <1>17. Range(x \o y) \subseteq zone[a] \cup zone[b]
    <2>1. Joins(x, y, x \o y)
      BY <1>14, ConcatJoins
    <2> QED
      BY <1>14, <2>1 DEF Joins
  <1>18. Takes(p, a, b, q, zone)
    <2>1. Sorted(keys'[a]) /\ Range(keys'[a]) \subseteq zone[a] \cup zone[b]
      BY <1>11, <1>16, <1>17
    <2>2. Fan(zone, zone[a] \cup zone[b], keys'[a], children'[a])
      BY <1>11, <1>14 DEF Fan
    <2>3. Kids(a) \cup Kids(b) \subseteq Kids(a)'
      BY <1>11, <1>14 DEF Kids
    <2> QED
      BY <1>7, <1>11, <2>1, <2>2, <2>3 DEF Takes
  <1>19. {a, b} = {Into, From}
    BY <1>3, <1>4
  <1>20. \E Z \in Zones : OrderAt(lvl, Z)' /\ Keeps(zone, Z, {a, b})
    BY <1>1, <1>7, <1>8, <1>9, <1>18, MergeOrder
  <1> QED
    BY <1>19, <1>20

LEMMA MergeBranchesOrder ==
  ASSUME NEW lvl \in [Node -> Nat], InvAt(lvl), InvAt(lvl)',
         NEW zone \in Zones, OrderAt(lvl, zone), MergeBranches
  PROVE  \E Z \in Zones : OrderAt(lvl, Z)' /\ Keeps(zone, Z, {Into, From})
  <1>1. PICK p : p = Parent
    OBVIOUS
  <1>2. PICK q : q = MergePos
    OBVIOUS
  <1>3. PICK a : a = Into
    OBVIOUS
  <1>4. PICK b : b = From
    OBVIOUS
  <1>5. PICK x : x = keys[a]
    OBVIOUS
  <1>6. PICK y : y = keys[b]
    OBVIOUS
  <1>7. PICK cx : cx = children[a]
    OBVIOUS
  <1>8. PICK cy : cy = children[b]
    OBVIOUS
  <1>9. PICK w : w = keys[p][q]
    OBVIOUS
  <1>10. /\ Merging /\ Fixing /\ tag[Fixed] = "branch" /\ pc' = "fix" /\ root' = root
         /\ tag' = [tag EXCEPT ![b] = "free"]
         /\ keys' = [keys EXCEPT ![a] = Around(x, w, y), ![b] = <<>>, ![p] = RemoveAt(@, q)]
         /\ children' = [children EXCEPT ![a] = cx \o cy, ![b] = <<>>, ![p] = RemoveAt(@, q + 1)]
    <2>1. TypeOK /\ a \in Node /\ Merging
      BY <1>3, MergeFacts DEF MergeBranches, InvAt
    <2> QED
      BY <1>1, <1>2, <1>3, <1>4, <1>5, <1>6, <1>7, <1>8, <1>9, <2>1
         DEF MergeBranches, Merging, Fixing, TypeOK, Around
  <1>11. /\ p \in Node /\ a \in Node /\ b \in Node /\ a # b /\ a # p /\ b # p
         /\ tag[a] = "branch" /\ tag[b] = "branch" /\ q \in 1 .. Seps
    BY <1>1, <1>2, <1>3, <1>4, <1>10, MergeFacts DEF Seps
  <1>12. a = Child(q) /\ b = Child(q + 1)
    BY <1>2, <1>3, <1>4 DEF Into, From
  <1>13. TypeOK
    BY DEF InvAt
  <1>14. /\ keys'[a] = Around(x, w, y) /\ keys'[p] = RemoveAt(keys[p], q)
         /\ children'[a] = cx \o cy /\ children'[p] = RemoveAt(children[p], q + 1)
         /\ \A n \in Node : n \notin {a, b, p} => keys'[n] = keys[n] /\ children'[n] = children[n]
    <2>1. keys \in [Node -> Seq(Key)] /\ children \in [Node -> Seq(Node)]
      BY <1>13 DEF TypeOK
    <2> QED
      BY <1>10, <1>11, <2>1
  <1>15. Side(p, a, b, q, x, y, cx, cy, w)
    BY <1>1, <1>5, <1>6, <1>7, <1>8, <1>9, <1>12 DEF Side
  <1>16. /\ cx \in Seq(Node) /\ cy \in Seq(Node)
         /\ Sorted(Around(x, w, y))
         /\ Fan(zone, zone[a] \cup zone[b], Around(x, w, y), cx \o cy)
    BY <1>10, <1>11, <1>15, SideBySide
  <1>17. Joins(cx, cy, cx \o cy)
    BY <1>16, ConcatJoins
  <1>18. Takes(p, a, b, q, zone)
    <2>1. Sorted(keys'[a]) /\ Fan(zone, zone[a] \cup zone[b], keys'[a], children'[a])
      BY <1>14, <1>16
    <2>2. Kids(a) \cup Kids(b) \subseteq Kids(a)'
      BY <1>7, <1>8, <1>14, <1>17 DEF Joins, Kids
    <2> QED
      BY <1>10, <1>11, <1>14, <2>1, <2>2 DEF Takes
  <1>19. {a, b} = {Into, From}
    BY <1>3, <1>4
  <1>20. \E Z \in Zones : OrderAt(lvl, Z)' /\ Keeps(zone, Z, {a, b})
    BY <1>1, <1>10, <1>11, <1>12, <1>18, MergeOrder
  <1> QED
    BY <1>19, <1>20

-----------------------------------------------------------------------------
(* check_root_collapse: what is left hangs from the child that is kept,    *)
(* and that is looked at for every key.                                    *)

(* What is left of a root is looked at for every key.                      *)
LEMMA RootGoesOrder ==
  ASSUME NEW lvl \in [Node -> Nat], InvAt(lvl), InvAt(lvl)',
         NEW zone \in Zones, OrderAt(lvl, zone), pc = "fix", pc' = "idle",
         tag[root] = "branch",
         NEW kept, kept = Null \/ kept \in Range(children[root]),
         NEW gone \in SUBSET Range(children[root]), kept \notin gone,
         \A x \in Range(children[root]) : x = kept \/ x \in gone,
         \A x \in gone : tag[x] = "leaf",
         Collapses(kept, gone),
         \A n \in Node : n # root /\ n # kept /\ n \notin gone => keys'[n] = keys[n],
         kept # Null => Sorted(keys'[kept]),
         kept # Null /\ tag[kept] = "branch" => keys'[kept] = keys[kept] /\ zone[kept] = Key
  PROVE  \E Z \in Zones : OrderAt(lvl, Z)' /\ Keeps(zone, Z, {kept})
  <1> DEFINE z == [n \in Node |-> IF n = kept THEN Key ELSE zone[n]]
  <1>1. /\ TypeOK /\ TypeOK' /\ Shape /\ Rooted /\ OneOwner(children)
        /\ Levels(lvl, tag, children) /\ right = Null
    BY DEF InvAt, Carried
  <1>2. Whole /\ WholeAt(lvl, zone) /\ root # Null
    BY <1>1 DEF OrderAt, WholeAt, Whole, Rooted
  <1>3. /\ root \in Node /\ root \in Live /\ Loose(children, root)
        /\ \A n \in Node : \A x \in Range(children[n]) : x \in Node /\ x \in Live /\ x # root
    BY <1>1, <1>2, ZenonT(60) DEF Rooted, TypeOK, Live, Loose
  <1>4. /\ root' = kept
        /\ \A n \in Node : n \in gone \/ n = root => tag'[n] = "free"
        /\ \A n \in Node : n \notin gone /\ n # root => tag'[n] = tag[n]
        /\ \A n \in Node : n # root => children'[n] = children[n]
    BY DEF Collapses
  <1>5. kept # Null => kept \in Node /\ kept \in Live /\ kept # root /\ lvl[root] = lvl[kept] + 1
    BY <1>1, <1>3 DEF Levels
  <1>6. \A n \in Live' : n \in Node /\ n \in Live /\ n # root /\ n \notin gone
    BY <1>4 DEF Live
  <1>7. \A n \in Node : n \in Live /\ n # root /\ n \notin gone => n \in Live'
    BY <1>4 DEF Live
  <1>8. ASSUME NEW n \in Live'
        PROVE  /\ kept # Null
               /\ n # kept => lvl[n] < lvl[kept]
    <2>1. /\ n \in Node /\ n \in Live /\ n # root /\ n \notin gone
          /\ lvl[n] \in Nat /\ lvl[root] \in Nat
      BY <1>3, <1>6
    <2>2. /\ lvl[n] < lvl[root]
          /\ lvl[n] + 1 = lvl[root] => n = kept
      BY <1>2, <2>1, TopLevels DEF Kids
    <2>3. kept # Null
      <3> SUFFICES ASSUME kept = Null PROVE FALSE
        OBVIOUS
      <3>1. PICK x : x \in Range(children[root])
        <4>1. children[root] \in Seq(Node) /\ Len(children[root]) = Len(keys[root]) + 1
              /\ Len(keys[root]) \in Nat
          BY <1>1, <1>3, BlockTypes DEF TypeOK
        <4>2. 1 \in 1 .. Len(children[root])
          BY <4>1, SMT
        <4>3. children[root][1] \in Range(children[root])
          BY <4>1, <4>2, Entries
        <4> QED
          BY <4>3
      <3>2. x \in gone /\ x \in Node /\ tag[x] = "leaf" /\ lvl[root] = lvl[x] + 1
        BY <1>1, <1>3, <3>1, NodeAssumption DEF Levels
      <3>3. lvl[x] = 0
        BY <1>1, <3>2 DEF Levels
      <3>4. lvl[n] + 1 = lvl[root]
        BY <2>1, <2>2, <3>2, <3>3, SMT
      <3> QED
        BY <1>3, <2>1, <2>2, <3>4, NodeAssumption
    <2>4. n # kept => lvl[n] < lvl[kept]
      <3>1. lvl[kept] \in Nat /\ lvl[root] = lvl[kept] + 1
        BY <1>5, <2>3
      <3> QED
        BY <2>1, <2>2, <3>1, SMT
    <2> QED
      BY <2>3, <2>4
  <1>9. /\ z \in Zones
        /\ kept # Null => z[kept] = Key
        /\ \A n \in Node : n # kept => z[n] = zone[n]
    BY <1>5 DEF Zones
  <1> HIDE DEF z
  <1>10. Ordered(z)'
    <2> SUFFICES ASSUME NEW n \in Live'
                 PROVE  /\ z[n] # {} /\ Sorted(keys'[n])
                        /\ tag'[n] = "leaf" => Range(keys'[n]) \subseteq z[n]
      BY DEF Ordered
    <2>1. n \in Node /\ n \in Live /\ n # root /\ n \notin gone /\ kept # Null
      BY <1>6, <1>8
    <2>2. CASE n = kept
      <3>1. keys'[n] \in Seq(Key)
        BY <1>1, <2>1 DEF TypeOK
      <3>2. Range(keys'[n]) \subseteq Key
        BY <3>1, Entries
      <3> QED
        BY <1>9, <2>1, <2>2, <3>2, KeyAssumption
    <2>3. CASE n # kept
      <3>1. keys'[n] = keys[n] /\ tag'[n] = tag[n] /\ z[n] = zone[n]
        BY <1>4, <1>9, <2>1, <2>3
      <3> QED
        BY <1>2, <2>1, <3>1 DEF WholeAt, Ordered
    <2> QED
      BY <2>2, <2>3
  <1>11. OneZone(lvl, z)'
    <2> SUFFICES ASSUME NEW m \in Live', NEW n \in Live', lvl[m] = lvl[n], m # n
                 PROVE  z[m] \cap z[n] = {}
      BY DEF OneZone
    <2>1. /\ m \in Node /\ m \in Live /\ n \in Node /\ n \in Live /\ kept # Null
          /\ lvl[m] \in Nat /\ lvl[n] \in Nat /\ lvl[kept] \in Nat
      BY <1>5, <1>6, <1>8
    <2>2. m # kept => lvl[m] < lvl[kept]
      BY <1>8
    <2>3. n # kept => lvl[n] < lvl[kept]
      BY <1>8
    <2>4. m # kept /\ n # kept
      BY <2>1, <2>2, <2>3, SMT
    <2> QED
      BY <1>2, <1>9, <2>1, <2>4 DEF WholeAt, OneZone
  <1>12. Topped(lvl)'
    <2> SUFFICES ASSUME NEW n \in Live'  PROVE root' # Null /\ lvl[n] <= lvl[root']
      BY DEF Topped
    <2>1. /\ n \in Node /\ kept # Null /\ lvl[n] \in Nat /\ lvl[kept] \in Nat
          /\ n # kept => lvl[n] < lvl[kept]
      BY <1>5, <1>6, <1>8
    <2>2. lvl[n] <= lvl[kept]
      BY <2>1, SMT
    <2> QED
      BY <1>4, <2>1, <2>2
  <1>13. Hung'
    <2> SUFFICES ASSUME NEW n \in Live', n # kept  PROVE \E p \in Live' : n \in Kids(p)'
      BY <1>4 DEF Hung
    <2>1. n \in Node /\ n \in Live /\ n # root /\ n \notin gone
      BY <1>6
    <2>2. PICK p \in Live : n \in Kids(p)
      BY <1>1, <1>2, <2>1, NodeAssumption DEF WholeAt, Hung
    <2>3. p \in Node
      BY DEF Live
    <2>4. p # root
      BY <2>1, <2>2 DEF Kids
    <2>5. p \notin gone
      <3> SUFFICES ASSUME p \in gone PROVE FALSE
        OBVIOUS
      <3>1. children[p] = <<>>
        BY <1>1, <2>3 DEF Shape
      <3> QED
        BY <2>2, <3>1, EmptyEntries DEF Kids
    <2>6. p \in Live' /\ Kids(p)' = Kids(p)
      BY <1>4, <1>7, <2>3, <2>4, <2>5 DEF Kids
    <2> QED
      BY <2>2, <2>6
  <1>14. ASSUME NEW n \in Live'  PROVE Fan(z, z[n], keys'[n], children'[n])
    <2>1. n \in Node /\ n \in Live /\ n # root /\ n \notin gone /\ kept # Null
      BY <1>6, <1>8
    <2>2. Fan(zone, zone[n], keys[n], children[n])
      BY <1>1, <1>2, <2>1, FanOf DEF WholeAt
    <2>3. children'[n] = children[n]
      BY <1>4, <2>1
    <2>4. ASSUME NEW i \in 1 .. Len(children[n])
          PROVE  z[children[n][i]] = zone[children[n][i]]
      <3>1. children[n][i] \in Node /\ children[n][i] \in Range(children[n])
        BY <1>1, <2>1, ChildNodes DEF Kids
      <3>2. children[n][i] # kept
        BY <1>1, <1>3, <2>1, <3>1 DEF OneOwner
      <3> QED
        BY <1>9, <3>1, <3>2
    <2>5. Fan(z, zone[n], keys[n], children[n])
      BY <2>2, <2>4 DEF Fan
    <2>6. CASE n # kept
      BY <1>9, <2>1, <2>3, <2>5, <2>6
    <2>7. CASE n = kept /\ tag[kept] = "branch"
      BY <1>9, <2>1, <2>3, <2>5, <2>7
    <2>8. CASE n = kept /\ tag[kept] # "branch"
      <3>1. children'[n] = <<>>
        BY <1>1, <2>1, <2>3, <2>8 DEF Shape
      <3>2. \A i : i \notin 1 .. Len(children'[n])
        BY <3>1, SMT
      <3> QED
        BY <3>2 DEF Fan
    <2> QED
      BY <2>6, <2>7, <2>8
  <1>15. root' # Null => z[root'] = Key
    BY <1>4, <1>9
  <1>16. Keeps(zone, z, {kept})
    BY <1>9 DEF Keeps
  <1> QED
    BY <1>16, <1>9, <1>10, <1>11, <1>12, <1>13, <1>14, <1>15, OrderSettled

(* The child that is kept, if one is, and the empty leaves that go.        *)
CollapsesTo(kept, gone) ==
  /\ kept = Null \/ kept \in Range(children[root])
  /\ gone \in SUBSET Range(children[root]) /\ kept \notin gone
  /\ \A x \in Range(children[root]) : x = kept \/ x \in gone
  /\ \A x \in gone : tag[x] = "leaf"
  /\ Collapses(kept, gone)
  /\ next' = Unlinked(next, prev, gone)
  /\ \A n \in Node : prev'[n] = IF n = kept THEN Null ELSE Unlinked(prev, next, gone)[n]
  /\ kept # Null => \E g : gone \subseteq {g}

(* What check_root_collapse leaves of the root, without a merge ...        *)
LEMMA CollapseRootFacts ==
  ASSUME NEW lvl \in [Node -> Nat], InvAt(lvl), CollapseRoot
  PROVE  \E kept, gone : CollapsesTo(kept, gone)
  <1> DEFINE cs == children[root]
             kept == IF Survivors = {} THEN Null
                     ELSE cs[CHOOSE i \in Survivors : TRUE]
             gone == {cs[i] : i \in DOMAIN cs \ Survivors}
  <1>1. /\ pc = "fix" /\ pc' = "idle" /\ tag[root] = "branch" /\ Len(keys[root]) <= 1
        /\ Survivors # {1, 2} /\ root' = kept
        /\ tag' = [n \in Node |-> IF n \in gone \cup {root} THEN "free" ELSE tag[n]]
        /\ keys' = Blank(keys, root) /\ children' = Blank(children, root)
    BY DEF CollapseRoot, Repaired, RootLow, Return, Leave
  <1>2. TypeOK /\ Shape /\ Rooted /\ OneOwner(children) /\ Levels(lvl, tag, children)
    BY DEF InvAt
  <1>3. root \in Node /\ Loose(children, root)
    BY <1>1, <1>2 DEF Rooted, TypeOK
  <1>4. /\ cs \in Seq(Node) /\ DOMAIN cs = 1 .. Len(cs) /\ keys[root] \in Seq(Key)
        /\ Len(cs) = Len(keys[root]) + 1 /\ Len(keys[root]) \in Nat
        /\ \A i, j \in DOMAIN cs : cs[i] = cs[j] => i = j
        /\ \A i \in DOMAIN cs : cs[i] \in Range(cs)
        /\ \A x \in Range(cs) : x \in Node /\ tag[x] # "free" /\ lvl[root] = lvl[x] + 1
                                /\ \E i \in DOMAIN cs : x = cs[i]
    <2>1. /\ cs \in Seq(Node) /\ IsInjective(cs) /\ keys[root] \in Seq(Key)
          /\ Len(cs) = Len(keys[root]) + 1 /\ Len(keys[root]) \in Nat
      BY <1>1, <1>2, <1>3, BlockTypes DEF OneOwner
    <2>2. \A x \in Range(cs) : x \in Node /\ tag[x] # "free" /\ lvl[root] = lvl[x] + 1
      BY <1>1, <1>2, <1>3 DEF Rooted, Live, Levels
    <2> HIDE DEF cs
    <2>3. /\ DOMAIN cs = 1 .. Len(cs)
          /\ \A i, j \in 1 .. Len(cs) : cs[i] = cs[j] => i = j
          /\ \A i \in 1 .. Len(cs) : cs[i] \in Range(cs)
          /\ \A x \in Range(cs) : \E i \in 1 .. Len(cs) : x = cs[i]
      BY <2>1, Entries
    <2> QED
      BY <2>1, <2>2, <2>3
  <1>5. /\ \A i \in Survivors : i \in DOMAIN cs
        /\ \A i \in DOMAIN cs : i \notin Survivors => tag[cs[i]] # "branch"
        /\ \A i \in DOMAIN cs : tag[cs[i]] = "branch" => i \in Survivors
    BY DEF Survivors
  <1>6. DOMAIN cs \subseteq {1, 2} /\ (DOMAIN cs = {1} \/ DOMAIN cs = {1, 2})
    <2> HIDE DEF cs
    <2>1. Len(keys[root]) \in Nat /\ Len(keys[root]) <= 1 /\ Len(cs) = Len(keys[root]) + 1
      BY <1>1, <1>4
    <2>2. Len(cs) = 1 \/ Len(cs) = 2
      BY ONLY <2>1, SMT
    <2>3. 1 .. 1 = {1} /\ 1 .. 2 = {1, 2}
      BY SMT
    <2> QED
      BY <1>4, <2>2, <2>3
  <1> HIDE DEF cs
  <1>7. \A i, j \in Survivors : i = j
    BY <1>1, <1>5, <1>6
  <1>8. /\ \A x \in gone : x \in Range(cs) /\ x \in Node /\ tag[x] = "leaf"
        /\ kept = Null \/ (kept \in Range(cs) /\ kept \in Node)
        /\ kept \notin gone
        /\ \A x \in Range(cs) : x = kept \/ x \in gone
        /\ kept # Null => \E g : gone \subseteq {g}
    <2>1. \A x \in gone : x \in Range(cs) /\ x \in Node /\ tag[x] = "leaf"
      BY <1>2, <1>4, <1>5 DEF TypeOK
    <2>2. CASE Survivors = {}
      BY <1>4, <2>1, <2>2, NodeAssumption
    <2>3. CASE Survivors # {}
      <3>1. PICK i : i \in Survivors /\ kept = cs[i]
        BY <2>3
      <3>2. gone = {cs[j] : j \in DOMAIN cs \ {i}}
        BY <1>7, <3>1
      <3> HIDE DEF kept, gone
      <3>3. i \in DOMAIN cs /\ kept \in Range(cs) /\ kept \in Node
        BY <1>4, <1>5, <3>1
      <3>4. kept \notin gone
        BY <1>4, <3>1, <3>2, <3>3
      <3>5. \A x \in Range(cs) : x = kept \/ x \in gone
        BY <1>4, <3>1, <3>2
      <3>6. \E g : gone \subseteq {g}
        <4>1. PICK j : DOMAIN cs \ {i} \subseteq {j}
          BY <1>6, <3>3
        <4> QED
          BY <3>2, <4>1
      <3> QED
        BY <2>1, <3>3, <3>4, <3>5, <3>6
    <2> QED
      BY <2>1, <2>2, <2>3
  <1>9. /\ next' = Unlinked(next, prev, gone)
        /\ prev' = [n \in Node |-> IF n = kept THEN Null ELSE Unlinked(prev, next, gone)[n]]
    BY DEF CollapseRoot, cs
  <1> HIDE DEF kept, gone
  <1>10. \A n \in Node : prev'[n] = IF n = kept THEN Null ELSE Unlinked(prev, next, gone)[n]
    BY <1>9
  <1>11. Collapses(kept, gone)
    <2>1. /\ \A n \in Node : n \in gone \/ n = root => tag'[n] = "free"
          /\ \A n \in Node : n \notin gone /\ n # root => tag'[n] = tag[n]
      BY <1>1, <1>2 DEF TypeOK
    <2>2. /\ children'[root] = <<>>
          /\ \A n \in Node : n # root => children'[n] = children[n]
      BY <1>1, <1>2, <1>3 DEF TypeOK, Blank
    <2> QED
      BY <1>1, <2>1, <2>2 DEF Collapses
  <1> QED
    BY <1>8, <1>9, <1>10, <1>11 DEF CollapsesTo, cs

(* ... and that the order stays.                                           *)
LEMMA CollapseRootOrder ==
  ASSUME NEW lvl \in [Node -> Nat], InvAt(lvl), InvAt(lvl)',
         NEW zone \in Zones, OrderAt(lvl, zone), CollapseRoot
  PROVE  \E Z \in Zones : OrderAt(lvl, Z)' /\ Keeps(zone, Z, {root'})
  <1>1. PICK kept, gone : CollapsesTo(kept, gone)
    BY CollapseRootFacts
  <1>2. /\ pc = "fix" /\ pc' = "idle" /\ tag[root] = "branch" /\ keys' = Blank(keys, root)
    BY DEF CollapseRoot, Repaired, RootLow, Return, Leave
  <1>3. /\ TypeOK /\ Shape /\ Rooted /\ OneOwner(children) /\ Levels(lvl, tag, children)
        /\ WholeAt(lvl, zone)
    BY <1>2 DEF InvAt, OrderAt, WholeAt, Whole
  <1>4. root \in Node /\ Loose(children, root) /\ root \in Live /\ root # Null
    BY <1>2, <1>3 DEF Rooted, TypeOK, Live
  <1>5. /\ \A x \in Range(children[root]) : x \in Node /\ x \in Live /\ x # root
        /\ \A x \in Range(children[root]) : lvl[root] = lvl[x] + 1
    BY <1>2, <1>3, <1>4 DEF Rooted, Levels, Loose, TypeOK, Live
  <1>6. \A n \in Node : n # root => keys'[n] = keys[n]
    BY <1>2, <1>3, <1>4 DEF TypeOK, Blank
  <1>7. root' = kept
    BY <1>1 DEF CollapsesTo, Collapses
  <1>8. kept # Null => kept \in Node /\ kept \in Live /\ keys'[kept] = keys[kept] /\ Sorted(keys[kept])
    BY <1>1, <1>3, <1>5, <1>6 DEF CollapsesTo, WholeAt, Ordered
  <1>9. ASSUME kept # Null, tag[kept] = "branch"
        PROVE  zone[kept] = Key
    <2>1. PICK cs : cs = children[root]
      OBVIOUS
    <2>2. PICK ks : ks = keys[root]
      OBVIOUS
    <2>3. /\ cs \in Seq(Node) /\ IsInjective(cs) /\ Len(cs) = Len(ks) + 1 /\ Len(ks) \in Nat
      BY <1>2, <1>3, <1>4, <2>1, <2>2, BlockTypes DEF OneOwner
    <2>4. Range(cs) \subseteq {kept}
      <3> SUFFICES ASSUME NEW x \in Range(cs), x # kept PROVE FALSE
        OBVIOUS
      <3>1. x \in Node /\ tag[x] = "leaf" /\ lvl[root] = lvl[x] + 1
        BY <1>1, <1>5, <2>1 DEF CollapsesTo
      <3>2. lvl[x] = 0
        BY <1>3, <3>1 DEF Levels
      <3>3. kept \in Node /\ tag[kept] # "free" /\ lvl[root] = lvl[kept] + 1 /\ lvl[kept] \in Nat
        BY <1>1, <1>5, <1>9 DEF CollapsesTo
      <3>4. lvl[kept] # 0
        BY <1>3, <1>9, <3>3, LeafLevel
      <3> QED
        BY <3>1, <3>2, <3>3, <3>4, SMT
    <2>5. /\ 1 \in 1 .. Len(cs) /\ 2 \notin 1 .. Len(cs) /\ cs[1] = kept
      <3>1. \A i, j \in 1 .. Len(cs) : cs[i] = kept /\ cs[i] = cs[j] /\ i = j
        BY <2>3, <2>4, Entries
      <3>2. 1 \in 1 .. Len(cs) /\ 1 # 2
        BY <2>3, SMT
      <3> QED
        BY <3>1, <3>2
    <2>6. ~(1 > 1) /\ ~(1 <= Len(ks))
      BY ONLY <2>3, <2>5, SMT
    <2>7. Fan(zone, zone[root], ks, cs) /\ zone[root] = Key
      BY <1>2, <1>3, <1>4, <2>1, <2>2, FanOf DEF WholeAt, Spanned
    <2>8. \A k \in Key : k \in Slice(ks, 1)
      BY <2>6 DEF Slice
    <2>9. \A k \in Key : k \in zone[kept]
      BY <2>5, <2>7, <2>8 DEF Fan
    <2> QED
      BY <1>8, <1>9, <2>9 DEF Zones
  <1>10. /\ \A n \in Node : n # root /\ n # kept /\ n \notin gone => keys'[n] = keys[n]
         /\ kept # Null => Sorted(keys'[kept])
         /\ kept # Null /\ tag[kept] = "branch" => keys'[kept] = keys[kept] /\ zone[kept] = Key
    BY <1>6, <1>8, <1>9
  <1>11. /\ kept = Null \/ kept \in Range(children[root])
         /\ gone \in SUBSET Range(children[root]) /\ kept \notin gone
         /\ \A x \in Range(children[root]) : x = kept \/ x \in gone
         /\ \A x \in gone : tag[x] = "leaf"
         /\ Collapses(kept, gone)
    BY <1>1 DEF CollapsesTo
  <1> QED
    BY <1>2, <1>7, <1>10, <1>11, RootGoesOrder

(* The same when it merges two leaves.                                     *)
LEMMA CollapseByMergingFacts ==
  ASSUME NEW lvl \in [Node -> Nat], InvAt(lvl), CollapseByMerging,
         NEW a, a = children[root][1], NEW b, b = children[root][2]
  PROVE  /\ a \in Node /\ tag[a] = "leaf" /\ b \in Node /\ tag[b] = "leaf"
         /\ Len(children[root]) = 2 /\ Len(keys[root]) = 1 /\ keys[root][1] \in Key
         /\ CollapsesTo(a, {b})
         /\ keys'[a] = keys[a] \o keys[b]
         /\ Elsewhere(keys, keys', {root, a, b})
  <1>1. PICK cs : cs = children[root]
    OBVIOUS
  <1>2. PICK ks : ks = keys[root]
    OBVIOUS
  <1>3. a = cs[1]
    BY <1>1
  <1>4. b = cs[2]
    BY <1>1
  <1>5. PICK x : x = keys[a]
    OBVIOUS
  <1>6. PICK y : y = keys[b]
    OBVIOUS
  <1>7. /\ pc = "fix" /\ pc' = "idle" /\ tag[root] = "branch" /\ Len(ks) <= 1
        /\ tag[a] = "leaf" /\ tag[b] = "leaf" /\ Survivors = {1, 2} /\ root' = a
        /\ tag' = [tag EXCEPT ![b] = "free", ![root] = "free"]
        /\ children' = Blank(children, root)
    BY <1>1, <1>2, <1>3, <1>4
       DEF CollapseByMerging, Repaired, RootLow, TwoLeavesFit, Return, Leave
  <1>8. TypeOK /\ Shape /\ Rooted /\ OneOwner(children)
    BY DEF InvAt
  <1>9. root \in Node /\ Loose(children, root)
    BY <1>7, <1>8 DEF Rooted, TypeOK
  <1>10. /\ cs \in Seq(Node) /\ DOMAIN cs = 1 .. Len(cs) /\ ks \in Seq(Key)
         /\ Len(cs) = Len(ks) + 1 /\ Len(ks) \in Nat
         /\ \A i, j \in DOMAIN cs : cs[i] = cs[j] => i = j
         /\ \A i \in DOMAIN cs : cs[i] \in Range(cs)
         /\ \A c \in Range(cs) : c \in Node /\ tag[c] # "free" /\ c # root
                                 /\ \E i \in DOMAIN cs : c = cs[i]
    <2>1. /\ cs \in Seq(Node) /\ IsInjective(cs) /\ ks \in Seq(Key)
          /\ Len(cs) = Len(ks) + 1 /\ Len(ks) \in Nat
      BY <1>1, <1>2, <1>7, <1>8, <1>9, BlockTypes DEF OneOwner
    <2>2. \A c \in Range(cs) : c \in Node /\ tag[c] # "free" /\ c # root
      BY <1>1, <1>7, <1>8, <1>9 DEF Rooted, Live, Loose
    <2> QED
      BY <2>1, <2>2, Entries
  <1>11. 1 \in DOMAIN cs /\ 2 \in DOMAIN cs
    <2>1. 1 \in Survivors /\ 2 \in Survivors
      BY <1>7
    <2> QED
      BY <1>1, <2>1 DEF Survivors
  <1>12. Len(cs) = 2 /\ Len(ks) = 1 /\ DOMAIN cs = {1, 2} /\ 1 \in 1 .. Len(ks)
    <2>1. Len(cs) \in Nat /\ 2 \in 1 .. Len(cs)
      BY <1>10, <1>11
    <2>2. Len(cs) = 2 /\ Len(ks) = 1 /\ 1 \in 1 .. Len(ks)
      <3>1. Len(ks) \in Nat /\ Len(ks) <= 1 /\ Len(cs) = Len(ks) + 1
        BY <1>7, <1>10
      <3>2. 2 <= Len(ks) + 1
        BY <2>1, <3>1
      <3>3. Len(ks) = 1
        <4>1. \A l \in Nat : l <= 1 /\ 2 <= l + 1 => l = 1
          BY SMT
        <4> QED
          BY <3>1, <3>2, <4>1
      <3>4. 1 + 1 = 2 /\ 1 \in 1 .. 1
        BY SMT
      <3> QED
        BY <3>1, <3>3, <3>4
    <2>3. 1 .. 2 = {1, 2}
      BY SMT
    <2> QED
      BY <1>10, <2>2, <2>3
  <1>13. /\ a \in Range(cs) /\ b \in Range(cs) /\ a \in Node /\ b \in Node /\ a # b
         /\ a # root /\ b # root /\ a \in Live /\ b \in Live
         /\ \A c \in Range(cs) : c = a \/ c = b
    <2>1. 1 # 2
      BY SMT
    <2>2. a \in Range(cs) /\ b \in Range(cs) /\ a # b
      BY <1>3, <1>4, <1>10, <1>11, <2>1
    <2>3. \A c \in Range(cs) : c = a \/ c = b
      BY <1>3, <1>4, <1>10, <1>12
    <2> QED
      BY <1>10, <2>2, <2>3 DEF Live
  <1>14. keys' = [keys EXCEPT ![a] = x \o y, ![b] = <<>>, ![root] = <<>>]
    BY <1>1, <1>3, <1>4, <1>5, <1>6, <1>8, <1>13 DEF CollapseByMerging, TypeOK
  <1>15. /\ keys'[a] = x \o y
         /\ \A n \in Node : n # root /\ n # a /\ n # b => keys'[n] = keys[n]
         /\ \A n \in Node : n \in {b} \/ n = root => tag'[n] = "free"
         /\ \A n \in Node : n \notin {b} /\ n # root => tag'[n] = tag[n]
         /\ children'[root] = <<>> /\ \A n \in Node : n # root => children'[n] = children[n]
    <2>1. /\ keys \in [Node -> Seq(Key)] /\ children \in [Node -> Seq(Node)]
          /\ tag \in [Node -> {"free", "leaf", "branch"}]
      BY <1>8 DEF TypeOK
    <2> QED
      BY <1>7, <1>9, <1>13, <1>14, <2>1 DEF Blank
  <1>16. Collapses(a, {b})
    BY <1>7, <1>15 DEF Collapses
  <1>17. /\ next' = Unlinked(next, prev, {b})
         /\ prev' = [Unlinked(prev, next, {b}) EXCEPT ![a] = Null]
    BY <1>1, <1>3, <1>4 DEF CollapseByMerging
  <1>18. \A n \in Node : prev'[n] = IF n = a THEN Null ELSE Unlinked(prev, next, {b})[n]
    BY <1>13, <1>17 DEF Unlinked
  <1>19. CollapsesTo(a, {b})
    <2>1. /\ {b} \in SUBSET Range(children[root]) /\ a \in Range(children[root]) /\ a \notin {b}
          /\ \A c \in Range(children[root]) : c = a \/ c \in {b}
          /\ \A c \in {b} : tag[c] = "leaf"
          /\ \E g : {b} \subseteq {g}
      BY <1>1, <1>7, <1>13
    <2> QED
      BY <1>16, <1>17, <1>18, <2>1 DEF CollapsesTo
  <1>20. keys[root][1] \in Key
    BY <1>2, <1>10, <1>12, KeysAreInts
  <1> QED
    BY <1>1, <1>2, <1>5, <1>6, <1>7, <1>12, <1>13, <1>15, <1>19, <1>20 DEF Elsewhere

LEMMA CollapseByMergingOrder ==
  ASSUME NEW lvl \in [Node -> Nat], InvAt(lvl), InvAt(lvl)',
         NEW zone \in Zones, OrderAt(lvl, zone), CollapseByMerging
  PROVE  \E Z \in Zones : OrderAt(lvl, Z)' /\ Keeps(zone, Z, {root'})
  <1>1. PICK cs : cs = children[root]
    OBVIOUS
  <1>2. PICK ks : ks = keys[root]
    OBVIOUS
  <1>3. PICK a : a = cs[1]
    OBVIOUS
  <1>4. PICK b : b = cs[2]
    OBVIOUS
  <1>5. PICK x : x = keys[a]
    OBVIOUS
  <1>6. PICK y : y = keys[b]
    OBVIOUS
  <1>7. pc = "fix" /\ pc' = "idle" /\ tag[root] = "branch"
    BY DEF CollapseByMerging, Repaired, RootLow, Return, Leave
  <1>8. /\ a \in Node /\ tag[a] = "leaf" /\ b \in Node /\ tag[b] = "leaf"
        /\ Len(cs) = 2 /\ Len(ks) = 1 /\ ks[1] \in Key
        /\ CollapsesTo(a, {b}) /\ keys'[a] = x \o y
        /\ \A n \in Node : n # root /\ n # a /\ n # b => keys'[n] = keys[n]
    <2>1. a = children[root][1] /\ b = children[root][2]
      BY <1>1, <1>3, <1>4
    <2>2. /\ a \in Node /\ tag[a] = "leaf" /\ b \in Node /\ tag[b] = "leaf"
          /\ CollapsesTo(a, {b})
      BY <2>1, CollapseByMergingFacts
    <2>3. Len(children[root]) = 2 /\ Len(keys[root]) = 1 /\ keys[root][1] \in Key
      BY <2>1, CollapseByMergingFacts
    <2>4. keys'[a] = keys[a] \o keys[b]
      BY <2>1, CollapseByMergingFacts
    <2>5. \A n \in Node : n # root /\ n # a /\ n # b => keys'[n] = keys[n]
      <3>1. Elsewhere(keys, keys', {root, a, b})
        BY <2>1, CollapseByMergingFacts
      <3> QED
        BY <3>1 DEF Elsewhere
    <2> QED
      BY <1>1, <1>2, <1>5, <1>6, <2>2, <2>3, <2>4, <2>5
  <1>9. /\ TypeOK /\ Shape /\ WholeAt(lvl, zone) /\ root \in Live
        /\ a \in Live /\ b \in Live
    <2>1. TypeOK /\ Shape /\ Rooted
      BY DEF InvAt
    <2> QED
      BY <1>7, <1>8, <2>1 DEF OrderAt, WholeAt, Whole, Live, TypeOK, Rooted
  <1>10. Fan(zone, zone[root], ks, cs)
    BY <1>1, <1>2, <1>7, <1>9, FanOf DEF WholeAt
  <1>11. PICK w : w = ks[1]
    OBVIOUS
  <1>12. /\ \A k \in Key : k \in zone[a] => k < w
         /\ \A k \in Key : k \in zone[b] => w <= k
    <2>1. 1 \in 1 .. Len(cs) /\ 2 \in 1 .. Len(cs) /\ 1 <= Len(ks) /\ 2 > 1 /\ 2 - 1 = 1
      BY ONLY <1>8, SMT
    <2>2. \A k \in Key : k \in Slice(ks, 1) => k < w
      BY <1>11, <2>1 DEF Slice
    <2>3. \A k \in Key : k \in Slice(ks, 2) => w <= k
      BY <1>11, <2>1 DEF Slice
    <2> QED
      BY <1>3, <1>4, <1>10, <2>1, <2>2, <2>3 DEF Fan
  <1>13. /\ x \in Seq(Key) /\ y \in Seq(Key) /\ Sorted(x) /\ Sorted(y)
         /\ Range(x) \subseteq zone[a] /\ Range(y) \subseteq zone[b]
    BY <1>5, <1>6, <1>8, <1>9, BlockTypes DEF WholeAt, Ordered
  <1>14. \A i \in 1 .. Len(x), j \in 1 .. Len(y) : x[i] < y[j]
    <2> TAKE i \in 1 .. Len(x), j \in 1 .. Len(y)
    <2>1. x[i] \in zone[a] /\ y[j] \in zone[b] /\ x[i] \in Key /\ y[j] \in Key
      BY <1>13, Entries, KeysAreInts
    <2>2. x[i] < w /\ w <= y[j] /\ x[i] \in Int /\ w \in Int /\ y[j] \in Int
      BY <1>8, <1>11, <1>12, <2>1, KeyAssumption
    <2> QED
      BY <2>2, SMT
  <1>15. Sorted(keys'[a])
    BY <1>8, <1>13, <1>14, SortedConcat
  <1>16. /\ {b} \in SUBSET Range(children[root]) /\ a \in Range(children[root]) /\ a \notin {b}
         /\ \A c \in Range(children[root]) : c = a \/ c \in {b}
         /\ \A c \in {b} : tag[c] = "leaf"
         /\ tag[a] # "branch" /\ Collapses(a, {b}) /\ root' = a
         /\ \A n \in Node : n # root /\ n # a /\ n \notin {b} => keys'[n] = keys[n]
    <2>1. a # Null
      BY <1>8, NodeAssumption
    <2> QED
      BY <1>8, <2>1 DEF CollapsesTo, Collapses
  <1> QED
    BY <1>7, <1>15, <1>16, RootGoesOrder

-----------------------------------------------------------------------------
(* clear: what is left of the tree hangs from the block that goes last, so *)
(* in the end nothing is.                                                  *)

(* When each of some blocks has one of them a level above it, there is none.*)
LEMMA NoneOnTop ==
  ASSUME NEW lvl \in [Node -> Nat], NEW B, B \subseteq Node,
         NEW b \in Nat, \A n \in B : lvl[n] <= b,
         \A n \in B : \E p \in B : lvl[p] = lvl[n] + 1
  PROVE  B = {}
  <1> DEFINE T == {x \in Nat : \E n \in B : lvl[n] + x = b}
  <1> SUFFICES ASSUME NEW n \in B PROVE FALSE
    OBVIOUS
  <1>1. \A m \in B : lvl[m] \in Nat
    OBVIOUS
  <1>2. b - lvl[n] \in T
    <2>1. lvl[n] \in Nat /\ lvl[n] <= b
      BY <1>1
    <2>2. b - lvl[n] \in Nat /\ lvl[n] + (b - lvl[n]) = b
      BY ONLY <2>1, b \in Nat, SMT
    <2> QED
      BY <2>2
  <1>3. PICK x \in T : \A y \in T : x <= y
    BY <1>2, LeastOf
  <1>4. PICK m \in B : lvl[m] + x = b
    OBVIOUS
  <1>5. PICK p \in B : lvl[p] = lvl[m] + 1
    OBVIOUS
  <1>6. PICK l : l = lvl[m]
    OBVIOUS
  <1>7. x \in Nat /\ l \in Nat /\ l + x = b /\ lvl[p] = l + 1 /\ lvl[p] <= b
    BY <1>1, <1>4, <1>5, <1>6
  <1>8. l + 1 <= b
    BY <1>7
  <1>9. x - 1 \in Nat /\ (l + 1) + (x - 1) = b /\ ~(x <= x - 1)
    BY ONLY <1>7, <1>8, b \in Nat, SMT
  <1>10. x - 1 \in T
    BY <1>5, <1>7, <1>9
  <1> QED
    BY <1>3, <1>9, <1>10

(* Taking the root leaves its blocks to be freed.                          *)
LEMMA DiscardEmpties ==
  ASSUME NEW lvl \in [Node -> Nat], InvAt(lvl), Topped(lvl), Hung,
         pc \in {"idle", "overflow"}, NEW o, Discard(o)
  PROVE  Emptying(lvl)'
  <1>1. /\ path' = path /\ cur' = root /\ UNCHANGED <<tag, children>>
    BY DEF Discard
  <1>2. /\ path = <<>> /\ right = Null /\ TypeOK
    BY DEF InvAt, Walked, Walking, Carried
  <1>3. Topped(lvl) /\ Hung
    OBVIOUS
  <1>4. \A i : i \notin 1 .. Len(path')
    BY <1>1, <1>2, SMT
  <1>5. Live' = Live /\ \A n : Kids(n)' = Kids(n)
    BY <1>1 DEF Live, Kids
  <1>6. \A n \in Live : n \in Node /\ n # Null
    BY NodeAssumption DEF Live
  <1>7. ASSUME NEW n \in Live'
        PROVE  n = cur' \/ \E p \in Live' : n \in Kids(p)'
    BY <1>1, <1>2, <1>3, <1>5, <1>6 DEF Hung
  <1>8. \E b \in Nat : \A n \in Live' : lvl[n] <= b
    <2>1. CASE root = Null
      <3>1. Live = {} /\ 0 \in Nat
        BY <1>3, <2>1 DEF Topped
      <3> QED
        BY <1>5, <3>1
    <2>2. CASE root # Null
      <3>1. lvl[root] \in Nat
        BY <1>2, <2>2 DEF TypeOK
      <3> QED
        BY <1>3, <1>5, <3>1 DEF Topped
    <2> QED
      BY <2>1, <2>2
  <1> QED
    BY <1>1, <1>2, <1>4, <1>7, <1>8 DEF Emptying

(* Each step of free_tree_no_drop leaves fewer of them.                    *)
LEMMA FreeLeafEmpties ==
  ASSUME NEW lvl \in [Node -> Nat], InvAt(lvl), FreeLeaf, Emptying(lvl)
  PROVE  Emptying(lvl)'
  <1>1. /\ pc = "free" /\ cur # Null /\ tag[cur] = "leaf" /\ cur' = Null
        /\ tag' = [tag EXCEPT ![cur] = "free"]
        /\ UNCHANGED <<children, path>>
    BY DEF FreeLeaf
  <1>2. /\ TypeOK /\ Shape /\ BeingFreed(lvl)
    BY <1>1, FreeFacts
  <1>3. /\ cur \in Node /\ tag'[cur] = "free" /\ children[cur] = <<>>
        /\ \A n \in Node : n # cur => tag'[n] = tag[n]
    BY <1>1, <1>2, BlockTypes DEF TypeOK
  <1>4. \A x : tag[x] = "free" => tag'[x] = "free"
    BY <1>1, <1>2, <1>3 DEF TypeOK
  <1>5. \A n \in Live' : n \in Live /\ n # cur /\ n \in Node
    BY <1>3 DEF Live
  <1>6. \A n \in Live : n # cur => n \in Live'
    BY <1>3 DEF Live
  <1>7. \A n : Kids(n)' = Kids(n)
    BY <1>1 DEF Kids
  <1>8. \A x : x \notin Kids(cur)
    BY <1>3, EmptyEntries DEF Kids
  <1>9. \A i \in 1 .. Len(path') : Gone(i)'
    BY <1>1, <1>4 DEF Emptying, Gone
  <1>10. path' # <<>> => tag'[children'[Parent'][Top'.pos]] = "free"
    <2>1. Top' = Top /\ Parent' = Parent
      BY <1>1 DEF Top, Parent
    <2> QED
      BY <1>1, <1>2, <1>3, <2>1 DEF BeingFreed, Parent
  <1>11. ASSUME NEW n \in Live'
         PROVE  (path' # <<>> /\ n = path'[1].node) \/ \E p \in Live' : n \in Kids(p)'
    <2>1. n \in Live /\ n # cur
      BY <1>5
    <2>2. CASE path # <<>> /\ n = path[1].node
      BY <1>1, <2>2
    <2>3. CASE \E p \in Live : n \in Kids(p)
      BY <1>6, <1>7, <1>8, <2>3
    <2> QED
      BY <2>1, <2>2, <2>3 DEF Emptying
  <1>12. \E b \in Nat : \A n \in Live' : lvl[n] <= b
    BY <1>5 DEF Emptying
  <1> QED
    BY <1>1, <1>9, <1>10, <1>11, <1>12 DEF Emptying

LEMMA FreeDescendEmpties ==
  ASSUME NEW lvl \in [Node -> Nat], InvAt(lvl), InvAt(lvl)', FreeDescend, Emptying(lvl)
  PROVE  Emptying(lvl)'
  <1>1. PICK f : f = [node |-> cur, pos |-> 1]
    OBVIOUS
  <1>2. PICK n : n = Len(path)
    OBVIOUS
  <1>3. /\ pc = "free" /\ cur # Null /\ tag[cur] = "branch"
        /\ path' = Append(path, f) /\ cur' = children[cur][1]
        /\ UNCHANGED <<tag, children>>
    BY <1>1 DEF FreeDescend, heap
  <1>4. /\ TypeOK /\ Shape /\ BeingFreed(lvl) /\ path \in Seq(Frame) /\ n \in Nat
    BY <1>2, <1>3, FreeFacts
  <1>5. cur \in Node /\ f \in Frame /\ f.node = cur /\ f.pos = 1
    <2>1. cur \in Node
      BY <1>3, <1>4 DEF TypeOK
    <2> QED
      BY <1>1, <2>1, SMT DEF Frame
  <1>6. /\ Len(path') = n + 1
        /\ \A i \in 1 .. n : path'[i] = path[i]
        /\ path'[n + 1] = f
    BY <1>2, <1>3, <1>4, <1>5, Pushed
  <1>7. cur' # Null
    <2>1. /\ children[cur] \in Seq(Node) /\ Len(keys[cur]) \in Nat
          /\ Len(children[cur]) = Len(keys[cur]) + 1
      BY <1>3, <1>4, <1>5, BlockTypes
    <2>2. 1 \in 1 .. Len(children[cur])
      BY <2>1, SMT
    <2> QED
      BY <1>3, <2>1, <2>2, ElementOfSeq, NodeAssumption
  <1>8. \A i \in 1 .. Len(path') : Gone(i)'
    <2>1. ASSUME NEW i \in 1 .. n  PROVE Gone(i)'
      <3>1. path'[i] = path[i] /\ Gone(i)
        BY <1>2, <1>6 DEF Emptying
      <3> QED
        BY <1>3, <3>1 DEF Gone
    <2>2. ASSUME NEW i \in {n + 1}  PROVE Gone(i)'
      <3>1. path'[i].pos = 1
        BY <1>5, <1>6
      <3>2. \A j : j \notin 1 .. 1 - 1
        BY SMT
      <3> QED
        BY <3>1, <3>2 DEF Gone
    <2>3. \A i \in 1 .. n + 1 : i \in 1 .. n \/ i = n + 1
      BY <1>4, SMT
    <2> QED
      BY <1>6, <2>1, <2>2, <2>3
  <1>9. path' # <<>>
    <2>1. Len(path') # 0 /\ Len(<<>>) = 0
      BY <1>4, <1>6, SMT
    <2> QED
      BY <2>1
  <1>10. Live' = Live /\ \A m : Kids(m)' = Kids(m)
    BY <1>3 DEF Live, Kids
  <1>11. ASSUME NEW m \in Live
         PROVE  m = path'[1].node \/ \E p \in Live : m \in Kids(p)
    <2>1. CASE path = <<>>
      <3>1. n = 0
        BY <1>2, <2>1, SMT
      <3>2. path'[1].node = cur
        <4>1. path'[1] = f
          BY <1>6, <3>1, SMT
        <4> QED
          BY <1>5, <4>1
      <3> QED
        BY <2>1, <3>2 DEF Emptying
    <2>2. CASE path # <<>>
      <3>1. 1 \in 1 .. n /\ n \in 1 .. n
        <4>1. Len(path) >= 1
          BY <1>4, <2>2, TopFrame
        <4> QED
          BY <1>2, <1>4, <4>1, SMT
      <3>2. path'[1] = path[1]
        BY <1>6, <3>1
      <3>3. cur \in Kids(Parent) /\ Parent \in Live
        <4>1. /\ cur = children[Top.node][Top.pos] /\ Parent = Top.node /\ Parent \in Node
              /\ Top = path[n]
          BY <1>2, <1>3, <1>4, <2>2, TopFrame DEF BeingFreed, Parent
        <4>2. tag[Parent] = "branch" /\ Top.pos \in 1 .. Len(children[Parent])
          BY <1>2, <1>4, <3>1, <4>1 DEF BeingFreed, Unfreed
        <4> QED
          BY <1>4, <4>1, <4>2, ChildNodes DEF Live
      <3> QED
        BY <2>2, <3>2, <3>3 DEF Emptying
    <2> QED
      BY <2>1, <2>2
  <1>12. \E b \in Nat : \A m \in Live' : lvl[m] <= b
    BY <1>10 DEF Emptying
  <1> QED
    BY <1>7, <1>8, <1>9, <1>10, <1>11, <1>12 DEF Emptying

LEMMA FreeNextChildEmpties ==
  ASSUME NEW lvl \in [Node -> Nat], InvAt(lvl), InvAt(lvl)', FreeNextChild, Emptying(lvl)
  PROVE  Emptying(lvl)'
  <1>1. PICK n : n = Len(path)
    OBVIOUS
  <1>2. PICK p : p = Parent
    OBVIOUS
  <1>3. PICK pos : pos = Top.pos
    OBVIOUS
  <1>4. PICK f : f = [path[n] EXCEPT !.pos = pos + 1]
    OBVIOUS
  <1>5. /\ pc = "free" /\ cur = Null /\ path # <<>> /\ pos <= Len(keys[p])
        /\ path' = [path EXCEPT ![n].pos = @ + 1] /\ cur' = children[p][pos + 1]
        /\ UNCHANGED <<tag, children>>
    BY <1>1, <1>2, <1>3 DEF FreeNextChild, MoreChildren, heap
  <1>6. /\ TypeOK /\ Shape /\ BeingFreed(lvl) /\ path \in Seq(Frame) /\ n \in Nat
    BY <1>1, <1>5, FreeFacts
  <1>7. /\ n \in 1 .. n /\ p \in Node /\ pos \in Nat
        /\ p = path[n].node /\ pos = path[n].pos /\ path[n] \in Frame
    BY <1>1, <1>2, <1>3, <1>5, <1>6, TopFrame, ElementOfSeq DEF Parent
  <1>8. f \in Frame /\ f.node = p /\ f.pos = pos + 1
    BY <1>4, <1>7 DEF Frame
  <1>9. path' = [path EXCEPT ![n] = f]
    BY <1>4, <1>5, <1>7
  <1>10. /\ Len(path') = n
         /\ \A i \in 1 .. n : i # n => path'[i] = path[i]
         /\ path'[n] = f
    BY <1>1, <1>6, <1>7, <1>8, <1>9, Replaced
  <1>11. 1 \in 1 .. n /\ path'[1].node = path[1].node
    <2>1. 1 \in 1 .. n
      BY <1>6, <1>7, SMT
    <2> QED
      BY <1>7, <1>8, <1>10, <2>1
  <1>12. cur' # Null
    <2>1. children[p] \in Seq(Node) /\ Len(keys[p]) \in Nat /\ Len(children[p]) = Len(keys[p]) + 1
      BY <1>1, <1>6, <1>7, BlockTypes DEF BeingFreed, Unfreed
    <2>2. pos + 1 \in 1 .. Len(children[p])
      <3>1. \A l \in Nat : pos <= l => pos + 1 \in 1 .. l + 1
        BY <1>7, SMT
      <3> QED
        BY <1>5, <2>1, <3>1
    <2> QED
      BY <1>5, <2>1, <2>2, ElementOfSeq, NodeAssumption
  <1>13. \A i \in 1 .. Len(path') : Gone(i)'
    <2> SUFFICES ASSUME NEW i \in 1 .. n  PROVE Gone(i)'
      BY <1>10
    <2>1. Gone(i)
      BY <1>1 DEF Emptying
    <2>2. CASE i # n
      <3>1. path'[i] = path[i]
        BY <1>10, <2>2
      <3> QED
        BY <1>5, <2>1, <3>1 DEF Gone
    <2>3. CASE i = n
      <3>1. /\ path'[i].node = p /\ path'[i].pos - 1 = pos
        <4>1. path'[i].node = p /\ path'[i].pos = pos + 1
          BY <1>8, <1>10, <2>3
        <4>2. \A r : r = pos + 1 => r - 1 = pos
          BY <1>7, SMT
        <4> QED
          BY <4>1, <4>2
      <3>2. ASSUME NEW j \in 1 .. pos  PROVE tag[children[p][j]] = "free"
        <4>1. j \in 1 .. pos - 1 \/ j = pos
          BY <1>7, SMT
        <4>2. tag[children[p][pos]] = "free"
          BY <1>2, <1>3, <1>5 DEF Emptying
        <4>3. \A h \in 1 .. pos - 1 : tag[children[p][h]] = "free"
          BY <1>7, <2>1, <2>3 DEF Gone
        <4> QED
          BY <4>1, <4>2, <4>3
      <3> QED
        BY <1>5, <3>1, <3>2 DEF Gone
    <2> QED
      BY <2>2, <2>3
  <1>14. Live' = Live /\ \A m : Kids(m)' = Kids(m)
    BY <1>5 DEF Live, Kids
  <1>15. path' # <<>>
    <2>1. Len(path') # 0 /\ Len(<<>>) = 0
      BY <1>6, <1>7, <1>10, SMT
    <2> QED
      BY <2>1
  <1>16. ASSUME NEW m \in Live
         PROVE  m = path'[1].node \/ \E q \in Live : m \in Kids(q)
    <2>1. m # Null
      BY NodeAssumption DEF Live
    <2> QED
      BY <1>5, <1>11, <2>1 DEF Emptying
  <1>17. \E b \in Nat : \A m \in Live' : lvl[m] <= b
    BY <1>14 DEF Emptying
  <1> QED
    BY <1>12, <1>13, <1>14, <1>15, <1>16, <1>17 DEF Emptying

(* Its last child is gone when a branch goes.                              *)
LEMMA FreeBranchEmpties ==
  ASSUME NEW lvl \in [Node -> Nat], InvAt(lvl), InvAt(lvl)', FreeBranch, Emptying(lvl)
  PROVE  Emptying(lvl)'
  <1>1. PICK n : n = Len(path)
    OBVIOUS
  <1>2. PICK p : p = Parent
    OBVIOUS
  <1>3. PICK pos : pos = Top.pos
    OBVIOUS
  <1>4. /\ pc = "free" /\ cur = Null /\ path # <<>> /\ ~(pos <= Len(keys[p]))
        /\ tag' = [tag EXCEPT ![p] = "free"] /\ children' = Blank(children, p)
        /\ path' = Front(path) /\ cur' = Null
    BY <1>2, <1>3 DEF FreeBranch, MoreChildren, PopPath
  <1>5. /\ TypeOK /\ Shape /\ BeingFreed(lvl) /\ path \in Seq(Frame) /\ n \in Nat
        /\ \A i \in 1 .. n :
              path[i].node \in Node /\ path[i].pos \in Nat /\ Unfreed(lvl, i)
        /\ \A i, j \in 1 .. n : path[i].node = path[j].node => i = j
    BY <1>1, <1>4, FreeFacts
  <1>6. /\ n \in 1 .. n /\ p \in Node /\ p = path[n].node /\ pos = path[n].pos /\ pos \in Nat
        /\ Len(path') = n - 1
        /\ \A i \in 1 .. n - 1 : path'[i] = path[i] /\ i \in 1 .. n
    BY <1>1, <1>2, <1>3, <1>4, <1>5, TopFrame DEF Parent
  <1>7. /\ children[p] \in Seq(Node) /\ Len(keys[p]) \in Nat /\ pos = Len(children[p])
    <2>1. tag[p] = "branch" /\ pos \in 1 .. Len(children[p])
      BY <1>5, <1>6 DEF Unfreed
    <2>2. /\ children[p] \in Seq(Node) /\ Len(keys[p]) \in Nat
          /\ Len(children[p]) = Len(keys[p]) + 1
      BY <1>5, <1>6, <2>1, BlockTypes
    <2>3. \A l \in Nat : ~(pos <= l) /\ pos \in 1 .. l + 1 => pos = l + 1
      BY <1>6, SMT
    <2> QED
      BY <1>4, <2>1, <2>2, <2>3
  <1>8. \A x \in Kids(p) : tag[x] = "free"
    <2> TAKE x \in Kids(p)
    <2>1. PICK j \in 1 .. Len(children[p]) : x = children[p][j]
      BY <1>5, <1>6, ChildNodes
    <2>2. j \in 1 .. pos - 1 \/ j = pos
      BY <1>6, <1>7, SMT
    <2>3. tag[children[p][pos]] = "free"
      BY <1>2, <1>3, <1>4 DEF Emptying
    <2>4. \A h \in 1 .. pos - 1 : tag[children[p][h]] = "free"
      BY <1>1, <1>6 DEF Emptying, Gone
    <2> QED
      BY <2>1, <2>2, <2>3, <2>4
  <1>9. /\ tag'[p] = "free" /\ \A m \in Node : m # p => tag'[m] = tag[m]
        /\ \A m \in Node : m # p => children'[m] = children[m]
    BY <1>4, <1>5, <1>6 DEF TypeOK, Blank
  <1>10. \A m \in Node : tag[m] = "free" => tag'[m] = "free"
    BY <1>9
  <1>11. \A i \in 1 .. n - 1 : path[i].node # p /\ path[i].node \in Node
    <2>1. \A i \in 1 .. n - 1 : i \in 1 .. n /\ i # n
      BY <1>5, SMT
    <2> QED
      BY <1>5, <1>6, <2>1
  <1>12. \A i \in 1 .. Len(path') : Gone(i)'
    <2> SUFFICES ASSUME NEW i \in 1 .. n - 1  PROVE Gone(i)'
      BY <1>6
    <2>1. /\ path'[i] = path[i] /\ Gone(i) /\ i \in 1 .. n
          /\ children'[path[i].node] = children[path[i].node] /\ path[i].node \in Node
      BY <1>1, <1>6, <1>9, <1>11 DEF Emptying
    <2> SUFFICES ASSUME NEW j \in 1 .. path[i].pos - 1
                 PROVE  tag'[children[path[i].node][j]] = "free"
      BY <2>1 DEF Gone
    <2>2. /\ path[i].pos \in 1 .. Len(children[path[i].node])
          /\ children[path[i].node] \in Seq(Node)
      BY <1>5, <2>1, BlockTypes DEF Unfreed
    <2>3. j \in 1 .. Len(children[path[i].node])
      BY <2>2, SMT
    <2>4. children[path[i].node][j] \in Node
      BY <2>2, <2>3, ElementOfSeq
    <2> QED
      BY <1>10, <2>1, <2>4 DEF Gone
  <1>13. ASSUME path' # <<>>
         PROVE  n - 1 \in 1 .. n - 1 /\ 1 \in 1 .. n - 1
    <2>1. path' \in Seq(Frame)
      BY DEF InvAt, TypeOK
    <2>2. Len(path') >= 1
      BY <1>13, <2>1, SMT
    <2> QED
      BY <1>5, <1>6, <2>2, SMT
  <1>14. path' # <<>> => tag'[children'[Parent'][Top'.pos]] = "free"
    <2> SUFFICES ASSUME path' # <<>>  PROVE tag'[children'[Parent'][Top'.pos]] = "free"
      OBVIOUS
    <2>1. PICK k : k = n - 1
      OBVIOUS
    <2>2. k \in 1 .. n - 1 /\ k + 1 = n
      BY <1>5, <1>13, <2>1, SMT
    <2>3. Top' = path[k] /\ Parent' = path[k].node
      <3>1. Top' = path'[Len(path')] /\ Parent' = Top'.node
        BY DEF Top, Last, Parent
      <3> QED
        BY <1>6, <2>1, <2>2, <3>1
    <2>4. p = children[path[k].node][path[k].pos]
      BY <1>1, <1>5, <1>6, <2>2 DEF BeingFreed, Follows
    <2>5. children'[path[k].node] = children[path[k].node]
      BY <1>9, <1>11, <2>2
    <2> QED
      BY <1>9, <2>3, <2>4, <2>5
  <1>15. \A m \in Live' : m \in Live /\ m # p /\ m \in Node
    BY <1>9 DEF Live
  <1>16. \A m \in Live : m # p => m \in Live' /\ m \in Node
    BY <1>9 DEF Live
  <1>17. ASSUME NEW m \in Live'
         PROVE  (path' # <<>> /\ m = path'[1].node) \/ \E q \in Live' : m \in Kids(q)'
    <2>1. m \in Live /\ m # p /\ m # Null
      BY <1>15, NodeAssumption
    <2>2. CASE m = path[1].node
      <3>1. n # 1
        BY <1>6, <2>1, <2>2
      <3>2. 1 \in 1 .. n - 1 /\ n - 1 # 0
        BY <1>5, <1>6, <3>1, SMT
      <3>3. path' # <<>>
        <4>1. Len(<<>>) = 0
          BY SMT
        <4> QED
          BY <1>6, <3>2, <4>1
      <3> QED
        BY <1>6, <2>2, <3>2, <3>3
    <2>3. CASE \E q \in Live : m \in Kids(q)
      <3>1. PICK q \in Live : m \in Kids(q)
        BY <2>3
      <3>2. q # p
        BY <1>8, <2>1, <3>1 DEF Live
      <3>3. q \in Live' /\ Kids(q)' = Kids(q)
        BY <1>9, <1>16, <3>2 DEF Kids
      <3> QED
        BY <3>1, <3>3
    <2> QED
      BY <1>4, <2>1, <2>2, <2>3 DEF Emptying
  <1>18. \E b \in Nat : \A m \in Live' : lvl[m] <= b
    BY <1>15 DEF Emptying
  <1> QED
    BY <1>4, <1>12, <1>14, <1>17, <1>18 DEF Emptying

(* No block is left at the end.                                            *)
LEMMA FreeDoneEmpties ==
  ASSUME NEW lvl \in [Node -> Nat], InvAt(lvl), FreeDone, Emptying(lvl)
  PROVE  Live = {}
  <1>1. cur = Null /\ path = <<>> /\ Levels(lvl, tag, children)
    BY DEF FreeDone, InvAt
  <1>2. PICK b \in Nat : \A n \in Live : lvl[n] <= b
    BY DEF Emptying
  <1>3. ASSUME NEW n \in Live  PROVE \E p \in Live : lvl[p] = lvl[n] + 1
    <2>1. n # Null
      BY NodeAssumption DEF Live
    <2>2. PICK p \in Live : n \in Kids(p)
      BY <1>1, <2>1 DEF Emptying
    <2> QED
      BY <1>1, <2>2 DEF Levels, Kids, Live
  <1> QED
    BY <1>2, <1>3, NoneOnTop DEF Live

(* The steps of clear and Drop keep the order.                             *)
LEMMA DiscardOrder ==
  ASSUME NEW lvl \in [Node -> Nat], InvAt(lvl), NEW zone \in Zones, OrderAt(lvl, zone),
         NEW o, Discard(o)
  PROVE  \E Z \in Zones : OrderAt(lvl, Z)'
  <1>1. pc' = "free" /\ op' = o /\ (o # "drop" => pc = "idle")
    BY DEF Discard
  <1>2. o # "drop" => Emptying(lvl)'
    BY <1>1, DiscardEmpties DEF OrderAt, Whole
  <1>3. OrderAt(lvl, zone)'
    BY <1>1, <1>2 DEF OrderAt, Whole
  <1> QED
    BY <1>3

LEMMA FreeStepOrder ==
  ASSUME NEW lvl \in [Node -> Nat], InvAt(lvl), InvAt(lvl)',
         NEW zone \in Zones, OrderAt(lvl, zone), FreeStep
  PROVE  \E Z \in Zones : OrderAt(lvl, Z)'
  <1>1. CASE FreeDone
    <2>1. pc = "free" /\ pc' = (IF op = "drop" THEN "dropped" ELSE "idle") /\ tag' = tag
      BY <1>1 DEF FreeDone, Leave, heap
    <2>2. CASE op = "drop"
      BY <2>1, <2>2, OrderNext, KeepsAll DEF Whole
    <2>3. CASE op # "drop"
      <3>1. Live = {}
        BY <1>1, <2>1, <2>3, FreeDoneEmpties DEF OrderAt
      <3>2. \A n : n \notin Live'
        BY <2>1, <3>1 DEF Live
      <3>3. root' = Null
        <4>1. InvAt(lvl)' => root' \in Node \cup {Null} /\ (root' # Null => tag'[root'] # "free")
          BY DEF InvAt, TypeOK, Rooted
        <4> QED
          BY <3>2, <4>1 DEF Live
      <3>4. Ordered(zone)' /\ OneZone(lvl, zone)' /\ Topped(lvl)' /\ Hung'
        BY <3>2 DEF Ordered, OneZone, Topped, Hung
      <3> QED
        BY <2>1, <2>3, <3>2, <3>3, <3>4, OrderSettled, KeepsAll
    <2> QED
      BY <2>2, <2>3
  <1>2. CASE FreeLeaf \/ FreeDescend \/ FreeNextChild \/ FreeBranch
    <2>1. pc = "free" /\ pc' = "free" /\ op' = op
      BY <1>2 DEF FreeLeaf, FreeDescend, FreeNextChild, FreeBranch, call
    <2>2. ASSUME op # "drop"  PROVE Emptying(lvl)'
      BY <1>2, <2>1, <2>2, FreeLeafEmpties, FreeDescendEmpties, FreeNextChildEmpties,
         FreeBranchEmpties DEF OrderAt
    <2>3. OrderAt(lvl, zone)'
      BY <2>1, <2>2 DEF OrderAt, Whole
    <2> QED
      BY <2>3
  <1> QED
    BY <1>1, <1>2 DEF FreeStep

-----------------------------------------------------------------------------
(* The search order is an invariant.                                       *)

(* The empty map.                                                          *)
LEMMA InitOrder ==
  ASSUME Init
  PROVE  OrderInv
  <1>1. PICK lvl \in [Node -> Nat] : InvAt(lvl)
    BY InitSafe DEF Inv
  <1> DEFINE zone == [n \in Node |-> Key]
  <1>2. zone \in Zones /\ \A n \in Node : zone[n] = Key
    BY DEF Zones
  <1> HIDE DEF zone
  <1>3. /\ TypeOK /\ pc = "idle" /\ path = <<>>
        /\ \A n \in Node : keys[n] = <<>> /\ children[n] = <<>>
        /\ \/ root = Null /\ Live = {}
           \/ root = n0 /\ Live = {n0}
    <2>1. TypeOK /\ pc = "idle" /\ path = <<>> /\ \A n \in Node : keys[n] = <<>> /\ children[n] = <<>>
      BY <1>1 DEF Init, InvAt
    <2>2. CASE root = Null /\ tag = [n \in Node |-> "free"]
      <3>1. Live = {}
        BY <2>2 DEF Live
      <3> QED
        BY <2>1, <2>2, <3>1
    <2>3. CASE root = n0 /\ tag = [n \in Node |-> IF n = n0 THEN "leaf" ELSE "free"]
      <3>1. n0 \in Node
        BY Defaults
      <3>2. Live = {n0}
        BY <2>3, <3>1 DEF Live
      <3> QED
        BY <2>1, <2>3, <3>2
    <2> QED
      BY <2>2, <2>3 DEF Init
  <1>4. n0 \in Node /\ n0 # Null /\ lvl[n0] \in Nat
    BY Defaults, NodeAssumption
  <1>5. /\ Len(<<>>) = 0 /\ \A i : i \notin 1 .. Len(<<>>)
    BY SMT
  <1>6. Sorted(<<>>) /\ Range(<<>>) = {}
    <2>1. \A x : x \notin Range(<<>>)
      BY EmptyEntries
    <2> QED
      BY <1>5, <2>1 DEF Sorted
  <1>7. Ordered(zone)
    BY <1>2, <1>3, <1>6, KeyAssumption DEF Ordered, Live
  <1>8. OneZone(lvl, zone) /\ Hung
    BY <1>3, <1>4 DEF OneZone, Hung
  <1>9. Topped(lvl)
    <2>1. lvl[n0] <= lvl[n0]
      BY <1>4, SMT
    <2> QED
      BY <1>3, <1>4, <2>1 DEF Topped
  <1>10. Fanned(zone)
    BY <1>3, <1>5 DEF Fanned, Live
  <1>11. Spanned(zone) /\ Threaded(zone)
    BY <1>2, <1>3, <1>4 DEF Spanned, Threaded
  <1>12. OrderAt(lvl, zone)
    BY <1>3, <1>7, <1>8, <1>9, <1>10, <1>11 DEF OrderAt, Whole
  <1> QED
    BY <1>1, <1>2, <1>12 DEF OrderInv, Zones

(* It speaks of the levels of the blocks in use only.                      *)
LEMMA OtherLevels ==
  ASSUME NEW lvl \in [Node -> Nat], InvAt(lvl), NEW zone \in Zones, OrderAt(lvl, zone),
         pc # "free", NEW l \in [Node -> Nat],
         \A n \in Live : l[n] = lvl[n]
  PROVE  OrderAt(l, zone)
  <1>1. root # Null => root \in Live
    BY DEF InvAt, TypeOK, Rooted, Live
  <1>2. OneZone(lvl, zone) => OneZone(l, zone)
    BY DEF OneZone
  <1>3. Topped(lvl) => Topped(l)
    BY <1>1 DEF Topped
  <1> QED
    BY <1>2, <1>3 DEF OrderAt

(* The invariant holds after the step, for some levels and zones.          *)
OrderKept == \E lvl \in [Node -> Nat], zone \in Zones : InvAt(lvl)' /\ OrderAt(lvl, zone)'

(* The steps of insert keep the order.                                     *)
LEMMA GrowOrder ==
  ASSUME NEW lvl \in [Node -> Nat], InvAt(lvl), NEW zone \in Zones, OrderAt(lvl, zone),
         AllocRoot \/ SplitLeaf \/ BranchInsertAndSplit \/ NewRoot
  PROVE  OrderKept
  <1>1. /\ CanAlloc /\ pc # "free" /\ TypeOK /\ Shape /\ Rooted
    BY DEF AllocRoot, SplitLeaf, BranchInsertAndSplit, NewRoot, AtLeaf, InvAt
  <1>2. ASSUME NEW h \in Nat
        PROVE  \E l \in [Node -> Nat] :
                 /\ InvAt(l) /\ OrderAt(l, zone) /\ l[NewNode] = h
                 /\ \A n \in Node : tag[n] # "free" => l[n] = lvl[n]
    <2>1. PICK l \in [Node -> Nat] :
            InvAt(l) /\ l[NewNode] = h /\ \A n \in Node : n # NewNode => l[n] = lvl[n]
      BY <1>1, Reserve
    <2>2. \A n \in Node : tag[n] # "free" => l[n] = lvl[n]
      BY <1>1, <2>1, NewBlock
    <2>3. OrderAt(l, zone)
      BY <1>1, <2>2, OtherLevels DEF Live
    <2> QED
      BY <2>1, <2>2, <2>3
  <1>3. ASSUME AllocRoot \/ SplitLeaf  PROVE OrderKept
    <2>1. PICK l \in [Node -> Nat] : InvAt(l) /\ OrderAt(l, zone) /\ l[NewNode] = 0
      <3>1. 0 \in Nat
        BY SMT
      <3> QED
        BY <1>2, <3>1
    <2>2. InvAt(l)'
      BY <1>3, <2>1, AllocRootSafe, SplitLeafSafe
    <2>3. \E z \in Zones : OrderAt(l, z)'
      BY <1>3, <2>1, <2>2, AllocRootOrder, SplitLeafOrder
    <2> QED
      BY <2>2, <2>3 DEF OrderKept
  <1>4. ASSUME BranchInsertAndSplit  PROVE OrderKept
    <2>1. Parent \in Node /\ tag[Parent] = "branch"
      BY <1>4, ParentFacts DEF BranchInsertAndSplit, Walking
    <2>2. PICK l \in [Node -> Nat] : /\ InvAt(l) /\ OrderAt(l, zone) /\ l[NewNode] = lvl[Parent]
                                     /\ \A n \in Node : tag[n] # "free" => l[n] = lvl[n]
      BY <1>2, <2>1
    <2>3. l[NewNode] = l[Parent]
      BY <2>1, <2>2
    <2>4. InvAt(l)'
      BY <1>4, <2>2, <2>3, BranchInsertAndSplitSafe
    <2>5. \E z \in Zones : OrderAt(l, z)'
      BY <1>4, <2>2, <2>3, <2>4, BranchInsertAndSplitOrder
    <2> QED
      BY <2>4, <2>5 DEF OrderKept
  <1>5. ASSUME NewRoot  PROVE OrderKept
    <2>1. root \in Node /\ tag[root] # "free"
      BY <1>1, <1>5 DEF NewRoot, Rooted, TypeOK
    <2>2. lvl[root] + 1 \in Nat
      <3>1. lvl[root] \in Nat
        BY <2>1
      <3> QED
        BY <3>1, SMT
    <2>3. PICK l \in [Node -> Nat] : /\ InvAt(l) /\ OrderAt(l, zone) /\ l[NewNode] = lvl[root] + 1
                                     /\ \A n \in Node : tag[n] # "free" => l[n] = lvl[n]
      BY <1>2, <2>2
    <2>4. l[NewNode] = l[root] + 1
      BY <2>1, <2>3
    <2>5. InvAt(l)'
      BY <1>5, <2>3, <2>4, NewRootSafe
    <2>6. \E z \in Zones : OrderAt(l, z)'
      BY <1>5, <2>3, <2>4, <2>5, NewRootOrder
    <2> QED
      BY <2>5, <2>6 DEF OrderKept
  <1> QED
    BY <1>3, <1>4, <1>5

(* The steps of the program keep the order.                                *)
LEMMA StepOrder ==
  ASSUME NEW lvl \in [Node -> Nat], InvAt(lvl), NEW zone \in Zones, OrderAt(lvl, zone), Step
  PROVE  OrderKept
  <1>1. CASE Quiet \/ Descend
    <2>1. InvAt(lvl)'
      BY <1>1, QuietSafe, DescendSafe
    <2>2. \E Z \in Zones : OrderAt(lvl, Z)'
      BY <1>1, <2>1, QuietOrder, DescendOrder
    <2> QED
      BY <2>1, <2>2 DEF OrderKept
  <1>2. CASE InsertIntoBranch \/ RemoveHit \/ FixNothing
    <2>1. InvAt(lvl)'
      BY <1>2, InsertIntoBranchSafe, RemoveHitSafe, FixNothingSafe
    <2>2. \E Z \in Zones : OrderAt(lvl, Z)'
      BY <1>2, <2>1, InsertIntoBranchOrder, RemoveHitOrder, FixNothingOrder
    <2> QED
      BY <2>1, <2>2 DEF OrderKept
  <1>3. CASE \/ BorrowFromLeftLeaf \/ BorrowFromRightLeaf
             \/ BorrowFromLeftBranch \/ BorrowFromRightBranch
    <2>1. InvAt(lvl)'
      BY <1>3, BorrowFromLeftLeafSafe, BorrowFromRightLeafSafe,
         BorrowFromLeftBranchSafe, BorrowFromRightBranchSafe
    <2>2. \E Z \in Zones : OrderAt(lvl, Z)'
      BY <1>3, <2>1, BorrowFromLeftLeafOrder, BorrowFromRightLeafOrder,
         BorrowFromLeftBranchOrder, BorrowFromRightBranchOrder
    <2> QED
      BY <2>1, <2>2 DEF OrderKept
  <1>4. CASE MergeLeaves \/ MergeBranches \/ CollapseRoot \/ CollapseByMerging
    <2>1. InvAt(lvl)'
      BY <1>4, MergeLeavesSafe, MergeBranchesSafe, CollapseRootSafe, CollapseByMergingSafe
    <2>2. \E Z \in Zones : OrderAt(lvl, Z)'
      BY <1>4, <2>1, MergeLeavesOrder, MergeBranchesOrder, CollapseRootOrder, CollapseByMergingOrder
    <2> QED
      BY <2>1, <2>2 DEF OrderKept
  <1>5. CASE FreeStep
    <2>1. InvAt(lvl)'
      BY <1>5, FreeLeafSafe, FreeDescendSafe, FreeNextChildSafe, FreeBranchSafe, FreeDoneSafe
         DEF FreeStep
    <2>2. \E Z \in Zones : OrderAt(lvl, Z)'
      BY <1>5, <2>1, FreeStepOrder
    <2> QED
      BY <2>1, <2>2 DEF OrderKept
  <1>6. CASE AllocRoot \/ SplitLeaf \/ BranchInsertAndSplit \/ NewRoot
    BY <1>6, GrowOrder
  <1> QED
    BY <1>1, <1>2, <1>3, <1>4, <1>5, <1>6 DEF Step, InsertStep, RemoveStep, Quiet

(* So does no step ...                                                     *)
LEMMA StutterOrder ==
  ASSUME NEW lvl \in [Node -> Nat], InvAt(lvl), NEW zone \in Zones, OrderAt(lvl, zone),
         UNCHANGED vars
  PROVE  OrderAt(lvl, zone)'
  <1>1. UNCHANGED <<root, tag, keys, vals, children, next, prev, pc, op, key, val,
                    cur, path, sep, right, ret>>
    BY DEF vars, heap, call, split
  <1>2. /\ Live' = Live /\ Whole' = Whole /\ Top' = Top /\ Parent' = Parent
        /\ \A n : Kids(n)' = Kids(n)
    BY <1>1 DEF Live, Whole, Top, Parent, Kids
  <1>3. /\ Ordered(zone) => Ordered(zone)'
        /\ OneZone(lvl, zone) => OneZone(lvl, zone)'
        /\ Topped(lvl) => Topped(lvl)'
        /\ Hung => Hung'
    BY <1>1, <1>2 DEF Ordered, OneZone, Topped, Hung
  <1>4. /\ Fanned(zone) => Fanned(zone)'
        /\ Spanned(zone) => Spanned(zone)'
        /\ Threaded(zone) => Threaded(zone)'
    BY <1>1, <1>2 DEF Fanned, Splits, Spanned, Threaded, Follows
  <1>5. Emptying(lvl) => Emptying(lvl)'
    BY <1>1, <1>2 DEF Emptying, Gone
  <1> QED
    BY <1>1, <1>2, <1>3, <1>4, <1>5 DEF OrderAt

(* ... and any step.                                                       *)
LEMMA NextOrderKept ==
  ASSUME OrderInv, [Next]_vars
  PROVE  OrderInv'
  <1>1. PICK lvl \in [Node -> Nat], zone \in Zones : InvAt(lvl) /\ OrderAt(lvl, zone)
    BY DEF OrderInv, Zones
  <1> SUFFICES OrderKept
    BY DEF OrderInv, OrderKept, Zones
  <1>2. CASE Step
    BY <1>1, <1>2, StepOrder
  <1>3. CASE UNCHANGED vars
    <2>1. InvAt(lvl)' /\ OrderAt(lvl, zone)'
      BY <1>1, <1>3, StutterSafe, StutterOrder
    <2> QED
      BY <2>1 DEF OrderKept
  <1>4. CASE Discard("clear") \/ Discard("drop")
    <2>1. ASSUME NEW o \in {"clear", "drop"}, Discard(o)  PROVE OrderKept
      <3>1. o \in Ops \cup {"drop"}
        BY <2>1 DEF Discard
      <3>2. InvAt(lvl)'
        BY <1>1, <2>1, <3>1, DiscardSafe
      <3>3. \E Z \in Zones : OrderAt(lvl, Z)'
        BY <1>1, <2>1, DiscardOrder
      <3> QED
        BY <3>2, <3>3 DEF OrderKept
    <2> QED
      BY <1>4, <2>1
  <1>5. ASSUME NEW o, NEW k \in Key, NEW v \in Val, Call(o, k, v)  PROVE OrderKept
    <2>1. InvAt(lvl)'
      BY <1>1, <1>5, CallSafe
    <2>2. \E Z \in Zones : OrderAt(lvl, Z)'
      BY <1>1, <1>5, <2>1, CallOrder
    <2> QED
      BY <2>1, <2>2 DEF OrderKept
  <1> QED
    BY <1>2, <1>3, <1>4, <1>5, Defaults DEF Next

(* Whatever the keys, the pool and the capacities, the keys of every block *)
(* are in order, each leaf holds only keys that a descent looks for there, *)
(* and no two leaves are looked at for the same key.                       *)
THEOREM OrderInvariant == Spec => []OrderInv
  <1>1. Init => OrderInv
    BY InitOrder
  <1>2. OrderInv /\ [Next]_vars => OrderInv'
    BY NextOrderKept
  <1> QED
    BY <1>1, <1>2, PTL DEF Spec

-----------------------------------------------------------------------------
(* What the leaves hold.                                                   *)

(* What is stored is what some leaf has.                                   *)
LEMMA ItemsStored ==
  ASSUME TypeOK, NEW k \in Key, NEW v
  PROVE  v \in Stored(k) <=> \E n \in Leaves : Has(keys[n], vals[n], k, v)
  <1>1. \A n \in Leaves : DOMAIN keys[n] = 1 .. Len(keys[n])
    BY Entries DEF Leaves, TypeOK
  <1> QED
    BY <1>1 DEF Stored, Has

LEMMA ItemsStoredNext ==
  ASSUME TypeOK', NEW k \in Key, NEW v
  PROVE  v \in Stored(k)' <=> \E n \in Leaves' : Has(keys'[n], vals'[n], k, v)
  <1>1. \A n \in Leaves' : DOMAIN keys'[n] = 1 .. Len(keys'[n])
    BY Entries DEF Leaves, TypeOK
  <1> QED
    BY <1>1 DEF Stored, Has

(* The blocks in A may change; all others keep their items.                *)
Elsewise(A) ==
  \A n \in Node : n \notin A =>
    \/ tag'[n] = tag[n] /\ keys'[n] = keys[n] /\ vals'[n] = vals[n]
    \/ tag[n] # "leaf" /\ tag'[n] # "leaf"

(* A leaf in A has the item.                                               *)
Item(A, k, v) == \E n \in Leaves : n \in A /\ Has(keys[n], vals[n], k, v)

(* What is stored changes with the items of A only.                        *)
LEMMA ItemsApart ==
  ASSUME TypeOK, TypeOK', NEW A, Elsewise(A), NEW k \in Key, NEW v
  PROVE  /\ v \in Stored(k) <=>
              Item(A, k, v) \/ \E n \in Leaves : n \notin A /\ Has(keys[n], vals[n], k, v)
         /\ v \in Stored(k)' <=>
              Item(A, k, v)' \/ \E n \in Leaves : n \notin A /\ Has(keys[n], vals[n], k, v)
  <1>1. \A n : n \notin A => (n \in Leaves' <=> n \in Leaves)
    BY DEF Elsewise, Leaves
  <1>2. \A n \in Leaves : n \notin A => keys'[n] = keys[n] /\ vals'[n] = vals[n]
    BY DEF Elsewise, Leaves
  <1>3. v \in Stored(k) <=> \E n \in Leaves : Has(keys[n], vals[n], k, v)
    BY ItemsStored
  <1>4. v \in Stored(k)' <=> \E n \in Leaves' : Has(keys'[n], vals'[n], k, v)
    BY ItemsStoredNext
  <1>5. Item(A, k, v)' <=> \E n \in Leaves' : n \in A /\ Has(keys'[n], vals'[n], k, v)
    BY DEF Item
  <1> QED
    BY <1>1, <1>2, <1>3, <1>4, <1>5 DEF Item

(* Mapped: the content is that of the leaves.                              *)
Mapped == pc \notin {"free", "dropped"}

(* What is chosen of the values stored for a key.                          *)
Chosen(S) == IF S = {} THEN None ELSE CHOOSE v \in S : TRUE

(* The map chooses from what is stored.                                    *)
LEMMA ContentIsChosen ==
  /\ Mapped => Content = [k \in Key |-> Chosen(Stored(k))]
  /\ Mapped' => Content' = [k \in Key |-> Chosen(Stored(k)')]
  BY DEF Content, Mapped, Chosen

(* From one value there is one to choose.                                  *)
LEMMA ChosenOne ==
  ASSUME NEW x
  PROVE  Chosen({}) = None /\ Chosen({x}) = x
  BY DEF Chosen

(* A step that keeps the items of A keeps the map.                         *)
LEMMA ContentStays ==
  ASSUME TypeOK, TypeOK', Mapped, Mapped', NEW A, Elsewise(A),
         \A k \in Key : \A v : Item(A, k, v)' <=> Item(A, k, v)
  PROVE  Content' = Content
  <1>1. ASSUME NEW k \in Key  PROVE Stored(k)' = Stored(k)
    <2>1. ASSUME NEW v  PROVE v \in Stored(k)' <=> v \in Stored(k)
      BY ItemsApart
    <2> QED
      BY <2>1
  <1>2. [k \in Key |-> Chosen(Stored(k)')] = [k \in Key |-> Chosen(Stored(k))]
    BY <1>1
  <1> QED
    BY ONLY <1>2, ContentIsChosen, Mapped, Mapped'

(* A step that sets what key is bound to, None for nothing.                *)
LEMMA ContentSet ==
  ASSUME TypeOK, TypeOK', Mapped, Mapped', NEW A, Elsewise(A), NEW x \in Val \cup {None},
         \A n \in Leaves : \A v : Has(keys[n], vals[n], key, v) => n \in A,
         \A k \in Key : \A v : Item(A, k, v)' <=>
           \/ k # key /\ Item(A, k, v)
           \/ k = key /\ x # None /\ v = x
  PROVE  Content' = [Content EXCEPT ![key] = x]
  <1>1. key \in Key
    BY DEF TypeOK
  <1>2. ASSUME NEW k \in Key, k # key  PROVE Stored(k)' = Stored(k)
    <2>1. ASSUME NEW v  PROVE v \in Stored(k)' <=> v \in Stored(k)
      BY <1>2, ItemsApart
    <2> QED
      BY <2>1
  <1>3. ASSUME NEW k \in Key, k = key
        PROVE  Stored(k)' = IF x = None THEN {} ELSE {x}
    <2>1. ASSUME NEW v  PROVE v \in Stored(k)' <=> x # None /\ v = x
      <3>1. \A n \in Leaves : n \notin A => ~Has(keys[n], vals[n], k, v)
        BY <1>3
      <3>2. v \in Stored(k)' <=>
              Item(A, k, v)' \/ \E n \in Leaves : n \notin A /\ Has(keys[n], vals[n], k, v)
        BY ItemsApart
      <3> QED
        BY <1>3, <3>1, <3>2
    <2> QED
      BY <2>1
  <1>4. ASSUME NEW k \in Key
        PROVE  Chosen(Stored(k)') = IF k = key THEN x ELSE Chosen(Stored(k))
    <2>1. CASE k = key
      <3>1. Stored(k)' = {} \/ Stored(k)' = {x}
        BY <1>3, <2>1
      <3>2. Stored(k)' = {} <=> x = None
        BY <1>3, <2>1
      <3> QED
        BY <2>1, <3>1, <3>2, ChosenOne
    <2>2. CASE k # key
      BY <1>2, <2>2
    <2> QED
      BY <2>1, <2>2
  <1>5. Content = [k \in Key |-> Chosen(Stored(k))]
    BY ContentIsChosen
  <1>6. Content' = [k \in Key |-> Chosen(Stored(k)')]
    BY ContentIsChosen
  <1>7. [k \in Key |-> Chosen(Stored(k)')] = [Content EXCEPT ![key] = x]
    BY <1>1, <1>4, <1>5
  <1> QED
    BY ONLY <1>6, <1>7

(* The leaf a call has reached knows what its key is bound to.             *)
LEMMA Pinned ==
  ASSUME NEW lvl \in [Node -> Nat], InvAt(lvl), NEW zone \in Zones, OrderAt(lvl, zone),
         pc = "descend", cur # Null, tag[cur] = "leaf"
  PROVE  /\ \A n \in Leaves : \A v : Has(keys[n], vals[n], key, v) => n = cur
         /\ \A v : Has(keys[cur], vals[cur], key, v) <=> Hit /\ v = vals[cur][Slot]
         /\ Hit => Slot \in 1 .. Len(keys[cur]) /\ keys[cur][Slot] = key /\ vals[cur][Slot] \in Val
         /\ Content[key] = IF Hit THEN vals[cur][Slot] ELSE None
  <1>1. /\ WholeAt(lvl, zone) /\ cur \in Live /\ cur \in Node /\ key \in zone[cur] /\ key \in Key
        /\ keys[cur] \in Seq(Key) /\ Sorted(keys[cur])
    BY AtItsLeaf
  <1>2. TypeOK /\ Shape /\ Levels(lvl, tag, children)
    BY DEF InvAt
  <1>3. vals[cur] \in Seq(Val) /\ Len(vals[cur]) = Len(keys[cur]) /\ cur \in Leaves
    BY <1>1, <1>2, BlockTypes DEF Leaves
  <1>4. ASSUME NEW n \in Leaves, NEW v, Has(keys[n], vals[n], key, v)  PROVE n = cur
    <2>1. n \in Node /\ n \in Live /\ tag[n] = "leaf" /\ keys[n] \in Seq(Key)
      BY <1>2 DEF Leaves, Live, TypeOK
    <2>2. key \in Range(keys[n])
      BY <1>4, <2>1, Entries DEF Has
    <2>3. key \in zone[n]
      BY <1>1, <2>1, <2>2 DEF WholeAt, Ordered
    <2>4. lvl[n] = 0 /\ lvl[cur] = 0
      BY <1>1, <1>2, <2>1 DEF Levels
    <2> QED
      BY <1>1, <2>1, <2>3, <2>4 DEF WholeAt, OneZone
  <1>5. ASSUME Hit
        PROVE  Slot \in 1 .. Len(keys[cur]) /\ keys[cur][Slot] = key /\ vals[cur][Slot] \in Val
    <2>1. Slot \in 1 .. Len(keys[cur]) /\ keys[cur][Slot] = key
      BY <1>1, <1>5, FoundAtRank DEF Hit, Slot
    <2> QED
      BY <1>3, <2>1, ElementOfSeq
  <1>6. ASSUME NEW v
        PROVE  Has(keys[cur], vals[cur], key, v) <=> Hit /\ v = vals[cur][Slot]
    <2>1. CASE Hit
      <3>1. \A i \in 1 .. Len(keys[cur]) : keys[cur][i] = key => i = Slot
        BY <1>1, <1>5, <2>1, OnePlace
      <3> QED
        BY <1>5, <2>1, <3>1 DEF Has
    <2>2. CASE ~Hit
      <3>1. DOMAIN keys[cur] = 1 .. Len(keys[cur])
        BY <1>1, Entries
      <3> QED
        BY <2>2, <3>1 DEF Has, Hit, Found
    <2> QED
      BY <2>1, <2>2
  <1>7. Stored(key) = IF Hit THEN {vals[cur][Slot]} ELSE {}
    <2>1. ASSUME NEW v  PROVE v \in Stored(key) <=> Hit /\ v = vals[cur][Slot]
      BY <1>1, <1>2, <1>3, <1>4, <1>6, ItemsStored
    <2> QED
      BY <2>1
  <1>8. Content[key] = IF Hit THEN vals[cur][Slot] ELSE None
    BY <1>1, <1>7 DEF Content
  <1> QED
    BY <1>4, <1>5, <1>6, <1>8

-----------------------------------------------------------------------------
(* The results of calls.                                                   *)

(* Each step of the program keeps Called.                                  *)
LEMMA StepCalled ==
  ASSUME Called, Step
  PROVE  Called'
  <1>1. CASE Descend \/ MissEmpty \/ Get \/ GetMut
    BY <1>1 DEF Called, Descend, MissEmpty, Get, GetMut, Return, Leave
  <1>2. CASE AllocRoot \/ InsertReplace \/ InsertIntoLeafSlot \/ SplitLeaf
    BY <1>2 DEF Called, AllocRoot, InsertReplace, InsertIntoLeafSlot, SplitLeaf, AtLeaf,
                Return, Leave, call
  <1>3. CASE InsertIntoBranch \/ BranchInsertAndSplit \/ NewRoot \/ AllocFails
    BY <1>3 DEF Called, InsertIntoBranch, BranchInsertAndSplit, NewRoot, AllocFails,
                Return, Leave, call
  <1>4. CASE RemoveMiss \/ RemoveHit \/ FixNothing
    BY <1>4 DEF Called, RemoveMiss, RemoveHit, FixNothing, AtLeaf, Return, Leave, call
  <1>5. CASE BorrowFromLeftLeaf \/ BorrowFromRightLeaf
    BY <1>5 DEF Called, BorrowFromLeftLeaf, BorrowFromRightLeaf, call
  <1>6. CASE BorrowFromLeftBranch \/ BorrowFromRightBranch
    BY <1>6 DEF Called, BorrowFromLeftBranch, BorrowFromRightBranch, call
  <1>7. CASE MergeLeaves \/ MergeBranches
    BY <1>7 DEF Called, MergeLeaves, MergeBranches, call
  <1>8. CASE MergePanics \/ RemoveReturns \/ CollapseRoot \/ CollapseByMerging
    BY <1>8 DEF Called, MergePanics, RemoveReturns, CollapseRoot, CollapseByMerging,
                Return, Leave
  <1>9. CASE FreeStep
    BY <1>9 DEF Called, FreeStep, FreeLeaf, FreeDescend, FreeNextChild, FreeBranch, FreeDone,
                Leave, call
  <1> QED
    BY <1>1, <1>2, <1>3, <1>4, <1>5, <1>6, <1>7, <1>8, <1>9 DEF Step, InsertStep, RemoveStep

(* A call has no result before it took effect; a split belongs to an       *)
(* insert and a repair to a remove.                                        *)
THEOREM CalledAlways == Spec => []Called
  <1>1. Init => Called
    BY DEF Init, Called
  <1>2. Called /\ [Next]_vars => Called'
    <2> SUFFICES ASSUME Called, [Next]_vars  PROVE Called'
      OBVIOUS
    <2>1. ASSUME NEW o, NEW k, NEW v, Call(o, k, v)  PROVE Called'
      BY <2>1 DEF Call, Called
    <2>2. ASSUME NEW o, Discard(o)  PROVE Called'
      BY <2>2 DEF Discard, Called
    <2>3. CASE Step
      BY <2>3, StepCalled
    <2>4. CASE UNCHANGED vars
      BY <2>4 DEF vars, call, Called
    <2> QED
      BY <2>1, <2>2, <2>3, <2>4 DEF Next
  <1> QED
    BY <1>1, <1>2, PTL DEF Spec

-----------------------------------------------------------------------------
(* Steps of the map.                                                       *)

(* A step of the ordered map, or none.                                     *)
MapStep == Map!Next \/ UNCHANGED Map!mapVars

(* A step that leaves the map and the call alone.                          *)
LEMMA MapStutter ==
  ASSUME Content' = Content, Phase' = Phase, UNCHANGED <<op, key, val, ret>>
  PROVE  MapStep
  BY DEF MapStep, Map!mapVars

(* A call that takes effect and returns in one step.                       *)
LEMMA Answers ==
  ASSUME pc = "descend", NEW r, Return(r), r = Content[key], Content' = Map!Updated
  PROVE  MapStep
  <1>1. Phase = "called" /\ Phase' = "idle"
    BY DEF Phase, Return, Leave
  <1>2. Map!Leave("idle")
    BY <1>1 DEF Map!Leave, Map!k0, Map!v0, k0, v0, Return, Leave
  <1>3. Map!Apply
    BY <1>1, <1>2 DEF Map!Apply, Return, Leave
  <1> QED
    BY <1>3 DEF MapStep, Map!Next

(* A call that takes effect and goes on.                                   *)
LEMMA TakesEffect ==
  ASSUME pc = "descend", pc' \in {"split", "fix"}, UNCHANGED <<op, key, val>>,
         ret' = Content[key], Content' = Map!Updated
  PROVE  MapStep
  <1>1. Phase = "called" /\ Phase' = "applied"
    BY DEF Phase
  <1>2. Map!Apply
    BY <1>1 DEF Map!Apply
  <1> QED
    BY <1>2 DEF MapStep, Map!Next

(* A call that returns after it took effect.                               *)
LEMMA Returns ==
  ASSUME Called, pc \in {"split", "fix"}, Return(ret), Content' = Content
  PROVE  MapStep
  <1>1. Phase = "applied" /\ Phase' = "idle" /\ op # "drop"
    BY DEF Phase, Return, Leave, Called
  <1>2. Map!Leave("idle")
    BY <1>1 DEF Map!Leave, Map!k0, Map!v0, k0, v0, Return, Leave
  <1>3. Map!Return
    BY <1>1, <1>2 DEF Map!Return, Return, Leave
  <1> QED
    BY <1>3 DEF MapStep, Map!Next

(* A call that panics.                                                     *)
LEMMA Panics ==
  ASSUME pc \in {"descend", "split", "fix"}, NEW where \in {"oom", "overflow"},
         Leave(where, None), Content' = Content
  PROVE  MapStep
  <1>1. Phase \in {"called", "applied"} /\ Phase' = "panicked"
    BY DEF Phase, Leave
  <1>2. Map!Leave("panicked")
    BY <1>1 DEF Map!Leave, Map!k0, Map!v0, k0, v0, Leave
  <1>3. Map!Panic
    BY <1>1, <1>2 DEF Map!Panic, Leave
  <1> QED
    BY <1>3 DEF MapStep, Map!Next

(* A step that leaves all items alone keeps the map.                       *)
LEMMA HeapKept ==
  ASSUME TypeOK, TypeOK', Mapped, Mapped', UNCHANGED <<tag, keys, vals>>
  PROVE  Content' = Content
  <1>1. Elsewise({})
    BY DEF Elsewise
  <1>2. \A k \in Key : \A v : Item({}, k, v)' <=> Item({}, k, v)
    BY DEF Item
  <1> QED
    BY <1>1, <1>2, ContentStays

(* A step of the branches alone.                                           *)
LEMMA LeavesKept ==
  ASSUME TypeOK, TypeOK', Mapped, Mapped', Elsewise({})
  PROVE  Content' = Content
  <1>1. \A k \in Key : \A v : Item({}, k, v)' <=> Item({}, k, v)
    BY DEF Item
  <1> QED
    BY <1>1, ContentStays

-----------------------------------------------------------------------------
(* Calls and lookups.                                                      *)

(* Each action is a step of the map, or none.                              *)
LEMMA CallMaps ==
  ASSUME TypeOK, TypeOK', NEW o \in {"insert", "remove", "get", "get_mut"},
         NEW k \in Key, NEW v \in Val, Call(o, k, v)
  PROVE  MapStep
  <1>1. Content' = Content
    BY HeapKept DEF Mapped, Call, heap
  <1>2. Phase = "idle" /\ Phase' = "called"
    BY DEF Phase, Call
  <1>3. Map!Call(o, k, v)
    BY <1>1, <1>2 DEF Map!Call, Call
  <1> QED
    BY <1>3 DEF MapStep, Map!Next

LEMMA DescendMaps ==
  ASSUME TypeOK, TypeOK', Descend
  PROVE  MapStep
  <1>1. Content' = Content
    BY HeapKept DEF Mapped, Descend, heap
  <1>2. Phase' = Phase /\ UNCHANGED <<op, key, val, ret>>
    BY DEF Phase, Descend, call
  <1> QED
    BY <1>1, <1>2, MapStutter

(* A map without a root is empty.                                          *)
LEMMA NothingThere ==
  ASSUME NEW lvl \in [Node -> Nat], InvAt(lvl), NEW zone \in Zones, OrderAt(lvl, zone),
         pc = "descend", cur = Null
  PROVE  Content[key] = None /\ Content \in [Key -> Val \cup {None}] /\ Leaves = {}
  <1>1. TypeOK /\ root = Null
    BY DEF InvAt, Walked
  <1>2. Live = {}
    BY <1>1 DEF OrderAt, Whole, Topped
  <1>3. Leaves = {}
    BY <1>2 DEF Leaves, Live
  <1>4. \A k \in Key : Stored(k) = {}
    BY <1>3 DEF Stored
  <1>5. Content = [k \in Key |-> None]
    BY <1>4 DEF Content
  <1> QED
    BY <1>1, <1>3, <1>5 DEF TypeOK

(* The map is from keys to values.                                         *)
LEMMA ContentType ==
  ASSUME TypeOK, Shape
  PROVE  Content \in [Key -> Val \cup {None}]
  <1>1. ASSUME NEW k \in Key  PROVE Stored(k) \subseteq Val
    <2>1. ASSUME NEW v, v \in Stored(k)  PROVE v \in Val
      <3>1. PICK n \in Leaves : Has(keys[n], vals[n], k, v)
        BY <2>1, ItemsStored
      <3>2. PICK i \in 1 .. Len(keys[n]) : vals[n][i] = v
        BY <3>1 DEF Has
      <3>3. n \in Node /\ vals[n] \in Seq(Val) /\ Len(vals[n]) = Len(keys[n])
        BY BlockTypes DEF Leaves
      <3>4. i \in 1 .. Len(vals[n])
        BY <3>2, <3>3
      <3> QED
        BY <3>2, <3>3, <3>4, ElementOfSeq
    <2> QED
      BY <2>1
  <1>2. ASSUME NEW k \in Key  PROVE Chosen(Stored(k)) \in Val \cup {None}
    BY <1>1 DEF Chosen
  <1>3. CASE Mapped
    BY <1>2, <1>3, ContentIsChosen
  <1>4. CASE ~Mapped
    BY <1>4 DEF Mapped, Content
  <1> QED
    BY <1>3, <1>4

(* An entry set to what it is stays.                                       *)
LEMMA SameEntry ==
  ASSUME NEW S, NEW T, NEW f \in [S -> T], NEW x \in S
  PROVE  [f EXCEPT ![x] = f[x]] = f
  OBVIOUS

LEMMA MissEmptyMaps ==
  ASSUME NEW lvl \in [Node -> Nat], InvAt(lvl), NEW zone \in Zones, OrderAt(lvl, zone),
         TypeOK', MissEmpty
  PROVE  MapStep
  <1>1. /\ pc = "descend" /\ cur = Null /\ op # "insert" /\ Return(None)
        /\ UNCHANGED <<tag, keys, vals>> /\ pc' = "idle"
    BY DEF MissEmpty, heap, Return, Leave
  <1>2. TypeOK /\ Content[key] = None /\ Content \in [Key -> Val \cup {None}] /\ key \in Key
    BY <1>1, NothingThere DEF InvAt, TypeOK
  <1>3. Content' = Content
    BY <1>1, <1>2, HeapKept DEF Mapped
  <1>4. [Content EXCEPT ![key] = None] = Content
    BY ONLY <1>2, SameEntry
  <1>5. Map!Updated = Content
    BY <1>1, <1>2, <1>4 DEF Map!Updated
  <1> QED
    BY <1>1, <1>2, <1>3, <1>5, Answers

LEMMA GetMaps ==
  ASSUME NEW lvl \in [Node -> Nat], InvAt(lvl), NEW zone \in Zones, OrderAt(lvl, zone),
         TypeOK', Get
  PROVE  MapStep
  <1>1. /\ pc = "descend" /\ op = "get" /\ cur # Null /\ tag[cur] = "leaf"
        /\ Return(IF Hit THEN vals[cur][Slot] ELSE None)
        /\ UNCHANGED <<tag, keys, vals>> /\ pc' = "idle"
    BY DEF Get, AtLeaf, heap, Return, Leave
  <1>2. TypeOK /\ Content[key] = IF Hit THEN vals[cur][Slot] ELSE None
    BY <1>1, Pinned DEF InvAt
  <1>3. Content' = Content
    BY <1>1, <1>2, HeapKept DEF Mapped
  <1>4. Map!Updated = Content
    BY <1>1 DEF Map!Updated
  <1> QED
    BY <1>1, <1>2, <1>3, <1>4, Answers

(* The value of the leaf's item for key is replaced.                       *)
LEMMA ReplacedMaps ==
  ASSUME NEW lvl \in [Node -> Nat], InvAt(lvl), NEW zone \in Zones, OrderAt(lvl, zone),
         TypeOK', pc = "descend", pc' = "idle", cur # Null, tag[cur] = "leaf", Hit,
         vals' = [vals EXCEPT ![cur][Slot] = val], UNCHANGED <<tag, keys>>
  PROVE  Content' = [Content EXCEPT ![key] = val]
  <1>1. PICK c : c = cur
    OBVIOUS
  <1>2. /\ TypeOK /\ Shape /\ key \in Key /\ val \in Val /\ c \in Node /\ tag[c] = "leaf"
        /\ keys[c] \in Seq(Key) /\ Sorted(keys[c])
    BY <1>1, AtItsLeaf DEF InvAt, TypeOK
  <1>3. /\ \A n \in Leaves : \A v : Has(keys[n], vals[n], key, v) => n = c
        /\ Slot \in 1 .. Len(keys[c]) /\ keys[c][Slot] = key
    BY <1>1, Pinned
  <1>4. vals[c] \in Seq(Val) /\ Len(vals[c]) = Len(keys[c])
    BY <1>2, BlockTypes
  <1>5. vals \in [Node -> Seq(Val)]
    BY <1>2 DEF TypeOK
  <1>6. vals'[c] = [vals[c] EXCEPT ![Slot] = val] /\ keys'[c] = keys[c] /\ tag'[c] = tag[c]
    BY <1>1, <1>2, <1>5
  <1>7. Elsewise({c})
    BY <1>1, <1>5 DEF Elsewise
  <1>8. ASSUME NEW k \in Key, NEW v
        PROVE  Item({c}, k, v)' <=> (k # key /\ Item({c}, k, v)) \/ (k = key /\ v = val)
    <2>1. Item({c}, k, v)' <=> Has(keys[c], [vals[c] EXCEPT ![Slot] = val], k, v)
      BY <1>2, <1>6 DEF Item, Leaves
    <2>2. Item({c}, k, v) <=> Has(keys[c], vals[c], k, v)
      BY <1>2 DEF Item, Leaves
    <2>3. PICK i : i = Slot
      OBVIOUS
    <2>4. /\ keys[c] \in Seq(Key) /\ vals[c] \in Seq(Val) /\ Len(vals[c]) = Len(keys[c])
          /\ Sorted(keys[c]) /\ i \in 1 .. Len(keys[c]) /\ val \in Val
      BY <1>2, <1>3, <1>4, <2>3
    <2>5. Has(keys[c], [vals[c] EXCEPT ![i] = val], k, v) <=>
            (k = keys[c][i] /\ v = val) \/ (k # keys[c][i] /\ Has(keys[c], vals[c], k, v))
      BY ONLY <2>4, HasReplace, ZenonT(30)
    <2> QED
      BY <1>3, <2>1, <2>2, <2>3, <2>5
  <1>9. Mapped /\ Mapped' /\ val # None
    BY <1>2, ValAssumption DEF Mapped
  <1> QED
    BY <1>2, <1>3, <1>7, <1>8, <1>9, ContentSet

LEMMA InsertReplaceMaps ==
  ASSUME NEW lvl \in [Node -> Nat], InvAt(lvl), NEW zone \in Zones, OrderAt(lvl, zone),
         TypeOK', InsertReplace
  PROVE  MapStep
  <1>1. /\ pc = "descend" /\ op = "insert" /\ cur # Null /\ tag[cur] = "leaf" /\ Hit
        /\ vals' = [vals EXCEPT ![cur][Slot] = val] /\ Return(vals[cur][Slot])
        /\ UNCHANGED <<tag, keys>> /\ pc' = "idle"
    BY DEF InsertReplace, AtLeaf, Return, Leave
  <1>2. Content[key] = vals[cur][Slot]
    BY <1>1, Pinned
  <1>3. Content' = [Content EXCEPT ![key] = val]
    BY <1>1, ReplacedMaps
  <1>4. Map!Updated = [Content EXCEPT ![key] = val]
    BY <1>1 DEF Map!Updated
  <1> QED
    BY <1>1, <1>2, <1>3, <1>4, Answers

LEMMA GetMutMaps ==
  ASSUME NEW lvl \in [Node -> Nat], InvAt(lvl), NEW zone \in Zones, OrderAt(lvl, zone),
         TypeOK', GetMut
  PROVE  MapStep
  <1>1. /\ pc = "descend" /\ op = "get_mut" /\ cur # Null /\ tag[cur] = "leaf"
        /\ UNCHANGED <<tag, keys>> /\ pc' = "idle"
    BY DEF GetMut, AtLeaf, Return, Leave
  <1>2. TypeOK /\ Shape /\ key \in Key
    BY DEF InvAt, TypeOK
  <1>3. Content \in [Key -> Val \cup {None}]
    BY <1>2, ContentType
  <1>4. Map!Updated = [Content EXCEPT ![key] = IF Content[key] = None THEN None ELSE val]
    BY <1>1 DEF Map!Updated
  <1>5. CASE Hit
    <2>1. vals' = [vals EXCEPT ![cur][Slot] = val] /\ Return(vals[cur][Slot])
      BY <1>5 DEF GetMut
    <2>2. Content[key] = vals[cur][Slot] /\ vals[cur][Slot] \in Val
      BY <1>1, <1>5, Pinned
    <2>3. Content' = [Content EXCEPT ![key] = val]
      BY <1>1, <1>5, <2>1, ReplacedMaps
    <2>4. Content[key] # None
      BY <2>2, ValAssumption
    <2> QED
      BY <1>1, <1>4, <2>1, <2>2, <2>3, <2>4, Answers
  <1>6. CASE ~Hit
    <2>1. Return(None) /\ vals' = vals
      BY <1>6 DEF GetMut
    <2>2. Content[key] = None
      BY <1>1, <1>6, Pinned
    <2>3. Content' = Content
      BY <1>1, <1>2, <2>1, HeapKept DEF Mapped
    <2>4. [Content EXCEPT ![key] = None] = Content
      BY ONLY <1>2, <1>3, <2>2, SameEntry
    <2> QED
      BY <1>1, <1>4, <2>1, <2>2, <2>3, <2>4, Answers
  <1> QED
    BY <1>5, <1>6

-----------------------------------------------------------------------------
(* What insert and remove do to a leaf.                                    *)

LEMMA AllocRootMaps ==
  ASSUME NEW lvl \in [Node -> Nat], InvAt(lvl), TypeOK', AllocRoot
  PROVE  MapStep
  <1>1. PICK n : n = NewNode
    OBVIOUS
  <1>2. /\ pc = "descend" /\ pc' = "descend" /\ CanAlloc /\ tag' = [tag EXCEPT ![n] = "leaf"]
        /\ UNCHANGED <<keys, vals, op, key, val, ret>>
    BY <1>1 DEF AllocRoot, call
  <1>3. TypeOK /\ Shape /\ Rooted
    BY DEF InvAt
  <1>4. n \in Node /\ tag[n] = "free" /\ keys[n] = <<>>
    BY <1>1, <1>2, <1>3, NewBlock
  <1>5. tag'[n] = "leaf" /\ \A m \in Node : m # n => tag'[m] = tag[m]
    BY <1>2, <1>3, <1>4 DEF TypeOK
  <1>6. Elsewise({n})
    BY <1>2, <1>5 DEF Elsewise
  <1>7. ASSUME NEW k \in Key, NEW v  PROVE Item({n}, k, v)' <=> Item({n}, k, v)
    <2>1. ~Has(<<>>, vals[n], k, v)
      BY DEF Has
    <2> QED
      BY <1>2, <1>4, <2>1 DEF Item, Leaves
  <1>8. Content' = Content
    BY <1>2, <1>3, <1>6, <1>7, ContentStays DEF Mapped
  <1>9. Phase' = Phase
    BY <1>2 DEF Phase
  <1> QED
    BY <1>2, <1>8, <1>9, MapStutter

LEMMA InsertIntoLeafSlotMaps ==
  ASSUME NEW lvl \in [Node -> Nat], InvAt(lvl), NEW zone \in Zones, OrderAt(lvl, zone),
         TypeOK', InsertIntoLeafSlot
  PROVE  MapStep
  <1>1. PICK c : c = cur
    OBVIOUS
  <1>2. PICK i : i = Slot + 1
    OBVIOUS
  <1>3. /\ AtLeaf("insert") /\ pc = "descend" /\ op = "insert" /\ cur # Null /\ tag[c] = "leaf"
        /\ ~Hit /\ pc' = "idle" /\ Return(None)
        /\ keys' = [keys EXCEPT ![c] = InsertAt(keys[c], i, key)]
        /\ vals' = [vals EXCEPT ![c] = InsertAt(vals[c], i, val)] /\ tag' = tag
    BY <1>1, <1>2 DEF InsertIntoLeafSlot, AtLeaf, Return, Leave
  <1>4. /\ TypeOK /\ Shape /\ key \in Key /\ val \in Val /\ c \in Node /\ keys[c] \in Seq(Key)
    BY <1>1, <1>3, AtItsLeaf DEF InvAt, TypeOK
  <1>5. /\ \A n \in Leaves : \A v : Has(keys[n], vals[n], key, v) => n = c
        /\ \A v : ~Has(keys[c], vals[c], key, v)
        /\ Content[key] = None
    BY <1>1, <1>3, Pinned
  <1>6. vals[c] \in Seq(Val) /\ Len(vals[c]) = Len(keys[c]) /\ i \in 1 .. Len(keys[c]) + 1
    BY <1>1, <1>2, <1>3, <1>4, BlockTypes, LeafInserts
  <1>7. /\ keys'[c] = InsertAt(keys[c], i, key) /\ vals'[c] = InsertAt(vals[c], i, val)
        /\ \A m \in Node : m # c => keys'[m] = keys[m] /\ vals'[m] = vals[m]
    BY <1>3, <1>4 DEF TypeOK
  <1>8. Elsewise({c})
    BY <1>3, <1>7 DEF Elsewise
  <1>9. ASSUME NEW k \in Key, NEW v
        PROVE  Item({c}, k, v)' <=> (k # key /\ Item({c}, k, v)) \/ (k = key /\ v = val)
    <2>1. Item({c}, k, v)' <=> Has(InsertAt(keys[c], i, key), InsertAt(vals[c], i, val), k, v)
      BY <1>3, <1>4, <1>7 DEF Item, Leaves
    <2>2. Item({c}, k, v) <=> Has(keys[c], vals[c], k, v)
      BY <1>3, <1>4 DEF Item, Leaves
    <2>3. key \in Key /\ val \in Val /\ keys[c] \in Seq(Key)
      BY <1>4
    <2>4. vals[c] \in Seq(Val) /\ Len(vals[c]) = Len(keys[c])
      BY <1>6
    <2>5. i \in 1 .. Len(keys[c]) + 1
      BY <1>6
    <2>6. Has(InsertAt(keys[c], i, key), InsertAt(vals[c], i, val), k, v) <=>
            Has(keys[c], vals[c], k, v) \/ (k = key /\ v = val)
      BY ONLY <2>3, <2>4, <2>5, HasInsert
    <2> QED
      BY <1>5, <2>1, <2>2, <2>6
  <1>10. Mapped /\ Mapped' /\ val # None
    BY <1>3, <1>4, ValAssumption DEF Mapped
  <1>11. Content' = [Content EXCEPT ![key] = val]
    BY <1>4, <1>5, <1>8, <1>9, <1>10, ContentSet
  <1>12. Map!Updated = [Content EXCEPT ![key] = val]
    BY <1>3 DEF Map!Updated
  <1> QED
    BY <1>3, <1>5, <1>11, <1>12, Answers

LEMMA SplitLeafMaps ==
  ASSUME NEW lvl \in [Node -> Nat], InvAt(lvl), NEW zone \in Zones, OrderAt(lvl, zone),
         TypeOK', Called, SplitLeaf
  PROVE  MapStep
  <1>1. PICK c : c = cur
    OBVIOUS
  <1>2. PICK n : n = NewNode
    OBVIOUS
  <1>3. PICK lk : lk = LeafSplitLeft(keys[cur], Slot, key)
    OBVIOUS
  <1>4. PICK rk : rk = LeafSplitRight(keys[cur], Slot, key)
    OBVIOUS
  <1>5. PICK lv : lv = LeafSplitLeft(vals[cur], Slot, val)
    OBVIOUS
  <1>6. PICK rv : rv = LeafSplitRight(vals[cur], Slot, val)
    OBVIOUS
  <1>7. PICK i : i = Slot
    OBVIOUS
  <1>8. /\ AtLeaf("insert") /\ ~Hit /\ pc = "descend" /\ op = "insert" /\ cur # Null
        /\ tag[c] = "leaf" /\ CanAlloc /\ Len(keys[c]) >= LeafCap
        /\ tag' = [tag EXCEPT ![n] = "leaf"]
        /\ keys' = [keys EXCEPT ![c] = lk, ![n] = rk]
        /\ vals' = [vals EXCEPT ![c] = lv, ![n] = rv]
        /\ pc' = "split" /\ UNCHANGED <<op, key, val, ret>>
    BY <1>1, <1>2, <1>3, <1>4, <1>5, <1>6 DEF SplitLeaf, AtLeaf, call
  <1>9. /\ TypeOK /\ Shape /\ Rooted /\ key \in Key /\ val \in Val /\ c \in Node
        /\ keys[c] \in Seq(Key)
    BY <1>1, <1>8, AtItsLeaf DEF InvAt, TypeOK
  <1>10. n \in Node /\ tag[n] = "free" /\ c # n
    BY <1>2, <1>8, <1>9, NewBlock
  <1>11. /\ \A m \in Leaves : \A v : Has(keys[m], vals[m], key, v) => m = c
         /\ \A v : ~Has(keys[c], vals[c], key, v)
         /\ Content[key] = None
    BY <1>1, <1>8, Pinned
  <1>12. vals[c] \in Seq(Val) /\ Len(vals[c]) = Len(keys[c])
    BY <1>8, <1>9, BlockTypes
  <1>13. /\ lk \in Seq(Key) /\ rk \in Seq(Key) /\ lv \in Seq(Val) /\ rv \in Seq(Val)
         /\ Len(lv) = Len(lk) /\ Len(rv) = Len(rk)
    BY <1>1, <1>3, <1>4, <1>5, <1>6, <1>8, <1>9, SplitLeafShape
  <1>14. i \in 0 .. Len(keys[c]) /\ Len(keys[c]) >= 1 /\ i + 1 \in 1 .. Len(keys[c]) + 1
    <2>1. i \in 0 .. Len(keys[c])
      BY <1>1, <1>7, <1>9, Searched DEF Slot
    <2>2. Len(keys[c]) >= LeafCap /\ Len(keys[c]) \in Nat
      BY <1>8, <1>9, KeysAreInts
    <2> QED
      BY <2>1, <2>2, Caps, SMT
  <1>15. lk \o rk = InsertAt(keys[c], i + 1, key)
    <2>1. LeafSplitCuts(keys[c], i, key)
      BY <1>9, <1>14, LeafSplitIsInsertAndCut
    <2> QED
      BY <1>1, <1>3, <1>4, <1>7, <2>1 DEF LeafSplitCuts
  <1>16. lv \o rv = InsertAt(vals[c], i + 1, val)
    <2>1. LeafSplitCuts(vals[c], i, val)
      BY <1>9, <1>12, <1>14, LeafSplitIsInsertAndCut
    <2> QED
      BY <1>1, <1>5, <1>6, <1>7, <2>1 DEF LeafSplitCuts
  <1>17. /\ tag'[n] = "leaf" /\ (\A m \in Node : m # n => tag'[m] = tag[m])
         /\ keys'[c] = lk /\ keys'[n] = rk /\ vals'[c] = lv /\ vals'[n] = rv
         /\ \A m \in Node : m # c /\ m # n => keys'[m] = keys[m] /\ vals'[m] = vals[m]
    BY <1>8, <1>9, <1>10 DEF TypeOK
  <1>18. Elsewise({c, n})
    BY <1>17 DEF Elsewise
  <1>19. ASSUME NEW k \in Key, NEW v
         PROVE  Item({c, n}, k, v)' <=> (k # key /\ Item({c, n}, k, v)) \/ (k = key /\ v = val)
    <2>1. Item({c, n}, k, v)' <=> Has(lk, lv, k, v) \/ Has(rk, rv, k, v)
      BY <1>8, <1>9, <1>10, <1>17 DEF Item, Leaves
    <2>2. Item({c, n}, k, v) <=> Has(keys[c], vals[c], k, v)
      BY <1>8, <1>9, <1>10 DEF Item, Leaves
    <2>3. Has(lk \o rk, lv \o rv, k, v) <=> Has(lk, lv, k, v) \/ Has(rk, rv, k, v)
      BY ONLY <1>13, HasConcat
    <2>4. PICK j : j = i + 1
      OBVIOUS
    <2>5. j \in 1 .. Len(keys[c]) + 1
      BY <1>14, <2>4
    <2>6. Has(InsertAt(keys[c], j, key), InsertAt(vals[c], j, val), k, v) <=>
            Has(keys[c], vals[c], k, v) \/ (k = key /\ v = val)
      BY ONLY <1>9, <1>12, <2>5, HasInsert, SMTT(30)
    <2> QED
      BY <1>11, <1>15, <1>16, <2>1, <2>2, <2>3, <2>4, <2>6
  <1>20. Mapped /\ Mapped' /\ val # None
    BY <1>8, <1>9, ValAssumption DEF Mapped
  <1>21. Content' = [Content EXCEPT ![key] = val]
    BY <1>9, <1>11, <1>18, <1>19, <1>20, ContentSet
  <1>22. Map!Updated = [Content EXCEPT ![key] = val]
    BY <1>8 DEF Map!Updated
  <1>23. ret' = Content[key]
    BY <1>8, <1>11 DEF Called
  <1> QED
    BY <1>8, <1>21, <1>22, <1>23, TakesEffect

LEMMA RemoveMissMaps ==
  ASSUME NEW lvl \in [Node -> Nat], InvAt(lvl), NEW zone \in Zones, OrderAt(lvl, zone),
         TypeOK', RemoveMiss
  PROVE  MapStep
  <1>1. /\ pc = "descend" /\ op = "remove" /\ cur # Null /\ tag[cur] = "leaf" /\ ~Hit
        /\ Return(None) /\ UNCHANGED <<tag, keys, vals>> /\ pc' = "idle"
    BY DEF RemoveMiss, AtLeaf, heap, Return, Leave
  <1>2. TypeOK /\ Shape /\ key \in Key /\ Content[key] = None
    BY <1>1, Pinned DEF InvAt, TypeOK
  <1>3. Content' = Content /\ Content \in [Key -> Val \cup {None}]
    BY <1>1, <1>2, HeapKept, ContentType DEF Mapped
  <1>4. [Content EXCEPT ![key] = None] = Content
    BY ONLY <1>2, <1>3, SameEntry
  <1>5. Map!Updated = Content
    BY <1>1, <1>4 DEF Map!Updated
  <1> QED
    BY <1>1, <1>2, <1>3, <1>5, Answers

LEMMA RemoveHitMaps ==
  ASSUME NEW lvl \in [Node -> Nat], InvAt(lvl), NEW zone \in Zones, OrderAt(lvl, zone),
         TypeOK', RemoveHit
  PROVE  MapStep
  <1>1. PICK c : c = cur
    OBVIOUS
  <1>2. PICK i : i = Slot
    OBVIOUS
  <1>3. /\ pc = "descend" /\ op = "remove" /\ cur # Null /\ tag[c] = "leaf" /\ Hit
        /\ keys' = [keys EXCEPT ![c] = RemoveAt(keys[c], i)]
        /\ vals' = [vals EXCEPT ![c] = RemoveAt(vals[c], i)]
        /\ ret' = vals[c][i] /\ pc' = "fix" /\ UNCHANGED <<tag, op, key, val>>
    BY <1>1, <1>2 DEF RemoveHit, AtLeaf, call
  <1>4. /\ TypeOK /\ Shape /\ key \in Key /\ c \in Node /\ keys[c] \in Seq(Key)
        /\ Sorted(keys[c])
    BY <1>1, <1>3, AtItsLeaf DEF InvAt, TypeOK
  <1>5. /\ \A n \in Leaves : \A v : Has(keys[n], vals[n], key, v) => n = c
        /\ i \in 1 .. Len(keys[c]) /\ keys[c][i] = key /\ Content[key] = vals[c][i]
    BY <1>1, <1>2, <1>3, Pinned
  <1>6. vals[c] \in Seq(Val) /\ Len(vals[c]) = Len(keys[c])
    BY <1>3, <1>4, BlockTypes
  <1>7. /\ keys'[c] = RemoveAt(keys[c], i) /\ vals'[c] = RemoveAt(vals[c], i)
        /\ \A m \in Node : m # c => keys'[m] = keys[m] /\ vals'[m] = vals[m]
    BY <1>3, <1>4 DEF TypeOK
  <1>8. Elsewise({c})
    BY <1>3, <1>7 DEF Elsewise
  <1>9. ASSUME NEW k \in Key, NEW v
        PROVE  Item({c}, k, v)' <=> k # key /\ Item({c}, k, v)
    <2>1. Item({c}, k, v)' <=> Has(RemoveAt(keys[c], i), RemoveAt(vals[c], i), k, v)
      BY <1>3, <1>4, <1>7 DEF Item, Leaves
    <2>2. Item({c}, k, v) <=> Has(keys[c], vals[c], k, v)
      BY <1>3, <1>4 DEF Item, Leaves
    <2>3. Has(RemoveAt(keys[c], i), RemoveAt(vals[c], i), k, v) <=>
            Has(keys[c], vals[c], k, v) /\ k # keys[c][i]
      BY ONLY <1>4, <1>5, <1>6, HasRemove
    <2> QED
      BY <1>5, <2>1, <2>2, <2>3
  <1>10. Mapped /\ Mapped'
    BY <1>3 DEF Mapped
  <1>11. Content' = [Content EXCEPT ![key] = None]
    BY <1>4, <1>5, <1>8, <1>9, <1>10, ContentSet
  <1>12. Map!Updated = [Content EXCEPT ![key] = None]
    BY <1>3 DEF Map!Updated
  <1> QED
    BY <1>3, <1>5, <1>11, <1>12, TakesEffect

-----------------------------------------------------------------------------
(* The way back: branches change, and leaves pass items to each other.     *)

(* The applied phase goes on, with the map as it was.                      *)
LEMMA GoesOn ==
  ASSUME pc \in {"split", "fix"}, pc' = pc, UNCHANGED <<op, key, val, ret>>,
         Content' = Content
  PROVE  MapStep
  <1>1. Phase' = Phase
    BY DEF Phase
  <1> QED
    BY <1>1, MapStutter

LEMMA InsertIntoBranchMaps ==
  ASSUME NEW lvl \in [Node -> Nat], InvAt(lvl), TypeOK', Called, InsertIntoBranch
  PROVE  MapStep
  <1>1. PICK p : p = Parent
    OBVIOUS
  <1>2. PICK kp : kp = InsertAt(keys[p], Top.pos, sep)
    OBVIOUS
  <1>3. /\ pc = "split" /\ path # <<>> /\ Return(ret) /\ pc' = "idle"
        /\ keys' = [keys EXCEPT ![p] = kp] /\ UNCHANGED <<tag, vals>>
    BY <1>1, <1>2 DEF InsertIntoBranch, Return, Leave
  <1>4. TypeOK /\ p \in Node /\ tag[p] = "branch"
    BY <1>1, <1>3, ParentFacts DEF InvAt, Walking
  <1>5. Elsewise({})
    BY <1>3, <1>4 DEF Elsewise, TypeOK
  <1>6. Content' = Content
    BY <1>3, <1>4, <1>5, LeavesKept DEF Mapped
  <1> QED
    BY <1>3, <1>6, Returns

LEMMA BranchInsertAndSplitMaps ==
  ASSUME NEW lvl \in [Node -> Nat], InvAt(lvl), TypeOK', BranchInsertAndSplit
  PROVE  MapStep
  <1>1. PICK p : p = Parent
    OBVIOUS
  <1>2. PICK n : n = NewNode
    OBVIOUS
  <1>3. PICK s : s = BranchSplit(keys[Parent], children[Parent], Top.pos - 1, sep, right)
    OBVIOUS
  <1>4. /\ pc = "split" /\ pc' = pc /\ path # <<>> /\ CanAlloc
        /\ tag' = [tag EXCEPT ![n] = "branch"]
        /\ keys' = [keys EXCEPT ![p] = s.lkeys, ![n] = s.rkeys]
        /\ UNCHANGED <<vals, op, key, val, ret>>
    BY <1>1, <1>2, <1>3 DEF BranchInsertAndSplit, call
  <1>5. TypeOK /\ Shape /\ Rooted /\ p \in Node /\ tag[p] = "branch"
    BY <1>1, <1>4, ParentFacts DEF InvAt, Walking
  <1>6. n \in Node /\ tag[n] = "free"
    BY <1>2, <1>4, <1>5, NewBlock
  <1>7. Elsewise({})
    BY <1>4, <1>5, <1>6 DEF Elsewise, TypeOK
  <1>8. Content' = Content
    BY <1>4, <1>5, <1>7, LeavesKept DEF Mapped
  <1> QED
    BY <1>4, <1>8, GoesOn

LEMMA NewRootMaps ==
  ASSUME NEW lvl \in [Node -> Nat], InvAt(lvl), TypeOK', Called, NewRoot
  PROVE  MapStep
  <1>1. PICK n : n = NewNode
    OBVIOUS
  <1>2. /\ pc = "split" /\ CanAlloc /\ Return(ret) /\ pc' = "idle"
        /\ tag' = [tag EXCEPT ![n] = "branch"]
        /\ keys' = [keys EXCEPT ![n] = <<sep>>] /\ UNCHANGED vals
    BY <1>1 DEF NewRoot, Return, Leave
  <1>3. TypeOK /\ Shape /\ Rooted
    BY DEF InvAt
  <1>4. n \in Node /\ tag[n] = "free"
    BY <1>1, <1>2, <1>3, NewBlock
  <1>5. Elsewise({})
    BY <1>2, <1>3, <1>4 DEF Elsewise, TypeOK
  <1>6. Content' = Content
    BY <1>2, <1>3, <1>5, LeavesKept DEF Mapped
  <1> QED
    BY <1>2, <1>6, Returns

LEMMA AllocFailsMaps ==
  ASSUME TypeOK, TypeOK', AllocFails
  PROVE  MapStep
  <1>1. pc \in {"descend", "split"} /\ Leave("oom", None) /\ pc' = "oom"
        /\ UNCHANGED <<tag, keys, vals>>
    BY DEF AllocFails, NeedsBlock, AtLeaf, Leave, heap
  <1>2. Content' = Content
    BY <1>1, HeapKept DEF Mapped
  <1> QED
    BY <1>1, <1>2, Panics

LEMMA MergePanicsMaps ==
  ASSUME TypeOK, TypeOK', MergePanics
  PROVE  MapStep
  <1>1. pc = "fix" /\ Leave("overflow", None) /\ pc' = "overflow" /\ UNCHANGED <<tag, keys, vals>>
    BY DEF MergePanics, Merging, Fixing, Leave, heap
  <1>2. Content' = Content
    BY <1>1, HeapKept DEF Mapped
  <1> QED
    BY <1>1, <1>2, Panics

LEMMA FixNothingMaps ==
  ASSUME TypeOK, TypeOK', FixNothing
  PROVE  MapStep
  <1>1. pc = "fix" /\ pc' = pc /\ UNCHANGED <<tag, keys, vals, op, key, val, ret>>
    BY DEF FixNothing, Fixing, heap, call
  <1>2. Content' = Content
    BY <1>1, HeapKept DEF Mapped
  <1> QED
    BY <1>1, <1>2, GoesOn

LEMMA RemoveReturnsMaps ==
  ASSUME TypeOK, TypeOK', Called, RemoveReturns
  PROVE  MapStep
  <1>1. pc = "fix" /\ Return(ret) /\ pc' = "idle" /\ UNCHANGED <<tag, keys, vals>>
    BY DEF RemoveReturns, Repaired, Return, Leave, heap
  <1>2. Content' = Content
    BY <1>1, HeapKept DEF Mapped
  <1> QED
    BY <1>1, <1>2, Returns

(* Two leaves have the items they had between them.                        *)
LEMMA PairItems ==
  ASSUME TypeOK, TypeOK', Mapped, Mapped', NEW a \in Node, NEW b \in Node, Elsewise({a, b}),
         tag[a] = "leaf", tag[b] = "leaf", tag'[a] = "leaf",
         tag'[b] = "leaf" \/ keys'[b] = <<>>,
         \A k \in Key : \A v : Has(keys'[a], vals'[a], k, v) \/ Has(keys'[b], vals'[b], k, v)
                                 <=> Has(keys[a], vals[a], k, v) \/ Has(keys[b], vals[b], k, v)
  PROVE  Content' = Content
  <1>1. \A k, v : keys'[b] = <<>> => ~Has(keys'[b], vals'[b], k, v)
    <2>1. \A k, v : ~Has(<<>>, vals'[b], k, v)
      BY DEF Has
    <2> QED
      BY <2>1
  <1>2. ASSUME NEW k \in Key, NEW v  PROVE Item({a, b}, k, v)' <=> Item({a, b}, k, v)
    <2>1. Item({a, b}, k, v) <=> Has(keys[a], vals[a], k, v) \/ Has(keys[b], vals[b], k, v)
      BY DEF Item, Leaves
    <2>2. Item({a, b}, k, v)' <=> Has(keys'[a], vals'[a], k, v) \/ Has(keys'[b], vals'[b], k, v)
      BY <1>1 DEF Item, Leaves
    <2> QED
      BY <2>1, <2>2
  <1> QED
    BY <1>2, ContentStays

(* An item passed from the end of one leaf to the next.                    *)
LEMMA ItemPassed ==
  ASSUME NEW x \in Seq(Key), NEW y \in Seq(Key), NEW u \in Seq(Val), NEW w \in Seq(Val),
         Len(u) = Len(x), Len(w) = Len(y), NEW k, NEW v
  PROVE  /\ Len(x) >= 1 =>
              (Has(Front(x), Front(u), k, v) \/ Has(<<Last(x)>> \o y, <<Last(u)>> \o w, k, v)
                 <=> Has(x, u, k, v) \/ Has(y, w, k, v))
         /\ Len(y) >= 1 =>
              (Has(Append(x, Head(y)), Append(u, Head(w)), k, v) \/ Has(Tail(y), Tail(w), k, v)
                 <=> Has(x, u, k, v) \/ Has(y, w, k, v))
  <1>1. ASSUME Len(x) >= 1
        PROVE  Has(Front(x), Front(u), k, v) \/ Has(<<Last(x)>> \o y, <<Last(u)>> \o w, k, v)
                 <=> Has(x, u, k, v) \/ Has(y, w, k, v)
    <2>1. Len(u) >= 1
      BY <1>1
    <2>2. Last(x) \in Key /\ Last(u) \in Val
      BY <1>1, <2>1, Ends
    <2>3. Has(x, u, k, v) <=>
            Has(Front(x), Front(u), k, v) \/ (k = Last(x) /\ v = Last(u))
      BY <1>1, HasEnds
    <2>4. Has(<<Last(x)>> \o y, <<Last(u)>> \o w, k, v) <=>
            Has(y, w, k, v) \/ (k = Last(x) /\ v = Last(u))
      BY <2>2, HasPush
    <2> QED
      BY <2>3, <2>4
  <1>2. ASSUME Len(y) >= 1
        PROVE  Has(Append(x, Head(y)), Append(u, Head(w)), k, v) \/ Has(Tail(y), Tail(w), k, v)
                 <=> Has(x, u, k, v) \/ Has(y, w, k, v)
    <2>1. Len(w) >= 1
      BY <1>2
    <2>2. Head(y) \in Key /\ Head(w) \in Val
      BY <1>2, <2>1, Ends
    <2>3. Has(y, w, k, v) <=>
            Has(Tail(y), Tail(w), k, v) \/ (k = Head(y) /\ v = Head(w))
      BY <1>2, HasEnds
    <2>4. Has(Append(x, Head(y)), Append(u, Head(w)), k, v) <=>
            Has(x, u, k, v) \/ (k = Head(y) /\ v = Head(w))
      BY <2>2, HasPush
    <2> QED
      BY <2>3, <2>4
  <1> QED
    BY <1>1, <1>2

LEMMA BorrowFromLeftLeafMaps ==
  ASSUME NEW lvl \in [Node -> Nat], InvAt(lvl), TypeOK', BorrowFromLeftLeaf
  PROVE  MapStep
  <1>1. PICK p : p = Parent
    OBVIOUS
  <1>2. PICK q : q = FixPos - 1
    OBVIOUS
  <1>3. PICK a : a = Child(q)
    OBVIOUS
  <1>4. PICK b : b = Fixed
    OBVIOUS
  <1>5. /\ Fixing /\ Underfull /\ tag[b] = "leaf" /\ FixPos > 1 /\ CanLend(a)
        /\ pc = "fix" /\ pc' = pc /\ path # <<>> /\ UNCHANGED <<tag, op, key, val, ret>>
        /\ keys' = [keys EXCEPT ![a] = Front(@), ![b] = <<Last(keys[a])>> \o @,
                                ![p][q] = Last(keys[a])]
        /\ vals' = [vals EXCEPT ![a] = Front(@), ![b] = <<Last(vals[a])>> \o @]
    BY <1>1, <1>2, <1>3, <1>4 DEF BorrowFromLeftLeaf, LeftLends, Fixing, call
  <1>6. q \in 1 .. Seps + 1
    <2>1. FixPos \in 1 .. Seps + 1 /\ Seps \in Nat /\ FixPos > 1
      BY <1>5, FixFacts
    <2> QED
      BY <1>2, <2>1, SMT
  <1>7. q # FixPos
    <2>1. FixPos \in 1 .. Seps + 1
      BY <1>5, FixFacts
    <2> QED
      BY <1>2, <2>1, SMT
  <1>8. /\ a # b /\ a \in Node /\ b \in Node /\ a # p /\ b # p /\ p \in Node
        /\ Len(keys[a]) \in Nat /\ Len(keys[a]) >= 2 /\ tag[a] = "leaf"
    BY <1>1, <1>3, <1>4, <1>5, <1>6, <1>7, Lent DEF CanLend
  <1>9. TypeOK /\ Shape /\ tag[p] = "branch"
    BY <1>1, <1>5, ParentFacts DEF InvAt, Walking
  <1>10. /\ keys[a] \in Seq(Key) /\ keys[b] \in Seq(Key) /\ vals[a] \in Seq(Val)
         /\ vals[b] \in Seq(Val) /\ Len(vals[a]) = Len(keys[a]) /\ Len(vals[b]) = Len(keys[b])
         /\ Len(keys[a]) >= 1
    BY <1>5, <1>8, <1>9, BlockTypes
  <1>11. /\ keys'[a] = Front(keys[a]) /\ keys'[b] = <<Last(keys[a])>> \o keys[b]
         /\ vals'[a] = Front(vals[a]) /\ vals'[b] = <<Last(vals[a])>> \o vals[b]
         /\ \A n \in Node : n \notin {a, b, p} => keys'[n] = keys[n]
         /\ \A n \in Node : n \notin {a, b} => vals'[n] = vals[n]
    BY <1>5, <1>8, <1>9 DEF TypeOK
  <1>12. Elsewise({a, b})
    BY <1>5, <1>8, <1>9, <1>11 DEF Elsewise
  <1>13. ASSUME NEW k \in Key, NEW v
         PROVE  Has(keys'[a], vals'[a], k, v) \/ Has(keys'[b], vals'[b], k, v)
                  <=> Has(keys[a], vals[a], k, v) \/ Has(keys[b], vals[b], k, v)
    <2>1. Has(Front(keys[a]), Front(vals[a]), k, v)
            \/ Has(<<Last(keys[a])>> \o keys[b], <<Last(vals[a])>> \o vals[b], k, v)
            <=> Has(keys[a], vals[a], k, v) \/ Has(keys[b], vals[b], k, v)
      BY ONLY <1>10, ItemPassed
    <2> QED
      BY <1>11, <2>1
  <1>14. Content' = Content
    BY <1>5, <1>8, <1>9, <1>12, <1>13, PairItems DEF Mapped
  <1> QED
    BY <1>5, <1>14, GoesOn

LEMMA BorrowFromRightLeafMaps ==
  ASSUME NEW lvl \in [Node -> Nat], InvAt(lvl), TypeOK', BorrowFromRightLeaf
  PROVE  MapStep
  <1>1. PICK p : p = Parent
    OBVIOUS
  <1>2. PICK q : q = FixPos
    OBVIOUS
  <1>3. PICK a : a = Fixed
    OBVIOUS
  <1>4. PICK b : b = Child(q + 1)
    OBVIOUS
  <1>5. /\ Fixing /\ Underfull /\ tag[a] = "leaf" /\ FixPos <= Seps /\ CanLend(b)
        /\ pc = "fix" /\ pc' = pc /\ path # <<>> /\ UNCHANGED <<tag, op, key, val, ret>>
        /\ keys' = [keys EXCEPT ![b] = Tail(@), ![a] = Append(@, Head(keys[b])),
                                ![p][q] = keys[b][2]]
        /\ vals' = [vals EXCEPT ![b] = Tail(@), ![a] = Append(@, Head(vals[b]))]
    BY <1>1, <1>2, <1>3, <1>4 DEF BorrowFromRightLeaf, RightLends, Fixing, call
  <1>6. q + 1 \in 1 .. Seps + 1
    <2>1. FixPos \in 1 .. Seps + 1 /\ Seps \in Nat /\ FixPos <= Seps
      BY <1>5, FixFacts
    <2> QED
      BY <1>2, <2>1, SMT
  <1>7. /\ a # b /\ a \in Node /\ b \in Node /\ a # p /\ b # p /\ p \in Node
        /\ Len(keys[b]) \in Nat /\ Len(keys[b]) >= 2 /\ tag[b] = "leaf"
    BY <1>1, <1>3, <1>4, <1>5, <1>6, Lent DEF CanLend
  <1>8. TypeOK /\ Shape /\ tag[p] = "branch"
    BY <1>1, <1>5, ParentFacts DEF InvAt, Walking
  <1>9. /\ keys[a] \in Seq(Key) /\ keys[b] \in Seq(Key) /\ vals[a] \in Seq(Val)
        /\ vals[b] \in Seq(Val) /\ Len(vals[a]) = Len(keys[a]) /\ Len(vals[b]) = Len(keys[b])
        /\ Len(keys[b]) >= 1
    BY <1>5, <1>7, <1>8, BlockTypes, SMTT(30)
  <1>10. /\ keys'[b] = Tail(keys[b]) /\ keys'[a] = Append(keys[a], Head(keys[b]))
         /\ vals'[b] = Tail(vals[b]) /\ vals'[a] = Append(vals[a], Head(vals[b]))
         /\ \A n \in Node : n \notin {a, b, p} => keys'[n] = keys[n]
         /\ \A n \in Node : n \notin {a, b} => vals'[n] = vals[n]
    BY <1>5, <1>7, <1>8 DEF TypeOK
  <1>11. Elsewise({a, b})
    BY <1>5, <1>7, <1>8, <1>10 DEF Elsewise
  <1>12. ASSUME NEW k \in Key, NEW v
         PROVE  Has(keys'[a], vals'[a], k, v) \/ Has(keys'[b], vals'[b], k, v)
                  <=> Has(keys[a], vals[a], k, v) \/ Has(keys[b], vals[b], k, v)
    <2>1. Has(Append(keys[a], Head(keys[b])), Append(vals[a], Head(vals[b])), k, v)
            \/ Has(Tail(keys[b]), Tail(vals[b]), k, v)
            <=> Has(keys[a], vals[a], k, v) \/ Has(keys[b], vals[b], k, v)
      BY ONLY <1>9, ItemPassed
    <2> QED
      BY <1>10, <2>1
  <1>13. Content' = Content
    BY <1>5, <1>7, <1>8, <1>11, <1>12, PairItems DEF Mapped
  <1> QED
    BY <1>5, <1>13, GoesOn

LEMMA MergeLeavesMaps ==
  ASSUME NEW lvl \in [Node -> Nat], InvAt(lvl), TypeOK', MergeLeaves
  PROVE  MapStep
  <1>1. PICK p : p = Parent
    OBVIOUS
  <1>2. PICK q : q = MergePos
    OBVIOUS
  <1>3. PICK a : a = Into
    OBVIOUS
  <1>4. PICK b : b = From
    OBVIOUS
  <1>5. /\ Merging /\ pc = "fix" /\ pc' = pc /\ tag[Fixed] = "leaf"
        /\ UNCHANGED <<op, key, val, ret>>
        /\ tag' = [tag EXCEPT ![b] = "free"]
        /\ keys' = [keys EXCEPT ![a] = @ \o keys[b], ![b] = <<>>, ![p] = RemoveAt(@, q)]
        /\ vals' = [vals EXCEPT ![a] = @ \o vals[b], ![b] = <<>>]
    BY <1>1, <1>2, <1>3, <1>4 DEF MergeLeaves, Merging, Fixing, call
  <1>6. /\ p \in Node /\ a \in Node /\ b \in Node /\ a # b /\ a # p /\ b # p
        /\ tag[a] = "leaf" /\ tag[b] = "leaf" /\ tag[p] = "branch"
    BY <1>1, <1>3, <1>4, <1>5, MergeFacts
  <1>7. TypeOK /\ Shape
    BY DEF InvAt
  <1>8. /\ keys[a] \in Seq(Key) /\ keys[b] \in Seq(Key) /\ vals[a] \in Seq(Val)
        /\ vals[b] \in Seq(Val) /\ Len(vals[a]) = Len(keys[a]) /\ Len(vals[b]) = Len(keys[b])
    BY <1>6, <1>7, BlockTypes
  <1>9. /\ keys'[a] = keys[a] \o keys[b] /\ keys'[b] = <<>>
        /\ vals'[a] = vals[a] \o vals[b] /\ vals'[b] = <<>>
        /\ tag'[a] = "leaf" /\ \A n \in Node : n # b => tag'[n] = tag[n]
        /\ \A n \in Node : n \notin {a, b, p} => keys'[n] = keys[n]
        /\ \A n \in Node : n \notin {a, b} => vals'[n] = vals[n]
    BY <1>5, <1>6, <1>7 DEF TypeOK
  <1>10. Elsewise({a, b})
    BY <1>6, <1>9 DEF Elsewise
  <1>11. ASSUME NEW k \in Key, NEW v
         PROVE  Has(keys'[a], vals'[a], k, v) \/ Has(keys'[b], vals'[b], k, v)
                  <=> Has(keys[a], vals[a], k, v) \/ Has(keys[b], vals[b], k, v)
    <2>1. Has(keys[a] \o keys[b], vals[a] \o vals[b], k, v)
            <=> Has(keys[a], vals[a], k, v) \/ Has(keys[b], vals[b], k, v)
      BY ONLY <1>8, HasConcat
    <2>2. ~Has(<<>>, <<>>, k, v)
      BY DEF Has
    <2> QED
      BY <1>9, <2>1, <2>2
  <1>12. Content' = Content
    BY <1>5, <1>6, <1>7, <1>9, <1>10, <1>11, PairItems DEF Mapped
  <1> QED
    BY <1>5, <1>12, GoesOn

(* A step on the way back that changes branches alone.                     *)
LEMMA BranchesMap ==
  ASSUME TypeOK, TypeOK', pc = "fix", pc' = pc, UNCHANGED <<vals, op, key, val, ret>>,
         \A n \in Node : (tag'[n] = tag[n] /\ keys'[n] = keys[n])
                         \/ (tag[n] = "branch" /\ tag'[n] # "leaf")
  PROVE  MapStep
  <1>1. Elsewise({})
    BY DEF Elsewise
  <1>2. Content' = Content
    BY <1>1, LeavesKept DEF Mapped
  <1> QED
    BY <1>2, GoesOn

LEMMA BorrowBranchMaps ==
  ASSUME NEW lvl \in [Node -> Nat], InvAt(lvl), TypeOK',
         BorrowFromLeftBranch \/ BorrowFromRightBranch
  PROVE  MapStep
  <1>1. PICK p : p = Parent
    OBVIOUS
  <1>2. PICK l : l = Child(FixPos - 1)
    OBVIOUS
  <1>3. PICK r : r = Child(FixPos + 1)
    OBVIOUS
  <1>4. PICK b : b = Fixed
    OBVIOUS
  <1>5. /\ Fixing /\ tag[b] = "branch" /\ path # <<>> /\ pc = "fix" /\ pc' = pc
        /\ UNCHANGED <<tag, vals, op, key, val, ret>>
    BY <1>4 DEF BorrowFromLeftBranch, BorrowFromRightBranch, Fixing, call
  <1>6. TypeOK /\ p \in Node /\ tag[p] = "branch"
    BY <1>1, <1>5, ParentFacts DEF InvAt, Walking
  <1>7. /\ Seps \in Nat /\ FixPos \in 1 .. Seps + 1
        /\ \A i \in 1 .. Seps + 1 : tag[Child(i)] = "branch"
    BY <1>4, <1>5, FixFacts
  <1>8. CASE BorrowFromLeftBranch
    <2>1. FixPos > 1
      BY <1>8 DEF BorrowFromLeftBranch, LeftLends
    <2>2. FixPos - 1 \in 1 .. Seps + 1
      BY <1>7, <2>1, SMT
    <2>3. tag[l] = "branch"
      BY <1>2, <1>7, <2>2
    <2>4. \A n \in Node : n \notin {p, l, b} => keys'[n] = keys[n]
      BY <1>1, <1>2, <1>4, <1>6, <1>8 DEF BorrowFromLeftBranch, TypeOK
    <2> QED
      BY <1>5, <1>6, <2>3, <2>4, BranchesMap
  <1>9. CASE BorrowFromRightBranch
    <2>1. FixPos <= Seps
      BY <1>9 DEF BorrowFromRightBranch, RightLends
    <2>2. FixPos + 1 \in 1 .. Seps + 1
      BY <1>7, <2>1, SMT
    <2>3. tag[r] = "branch"
      BY <1>3, <1>7, <2>2
    <2>4. \A n \in Node : n \notin {p, r, b} => keys'[n] = keys[n]
      BY <1>1, <1>3, <1>4, <1>6, <1>9 DEF BorrowFromRightBranch, TypeOK
    <2> QED
      BY <1>5, <1>6, <2>3, <2>4, BranchesMap
  <1> QED
    BY <1>8, <1>9

LEMMA MergeBranchesMaps ==
  ASSUME NEW lvl \in [Node -> Nat], InvAt(lvl), TypeOK', MergeBranches
  PROVE  MapStep
  <1>1. PICK p : p = Parent
    OBVIOUS
  <1>2. PICK a : a = Into
    OBVIOUS
  <1>3. PICK b : b = From
    OBVIOUS
  <1>4. /\ Merging /\ pc = "fix" /\ pc' = pc /\ tag[Fixed] = "branch"
        /\ UNCHANGED <<vals, op, key, val, ret>> /\ tag' = [tag EXCEPT ![b] = "free"]
    BY <1>3 DEF MergeBranches, Merging, Fixing, call
  <1>5. /\ TypeOK /\ p \in Node /\ a \in Node /\ b \in Node
        /\ tag[a] = "branch" /\ tag[b] = "branch" /\ tag[p] = "branch"
    BY <1>1, <1>2, <1>3, <1>4, MergeFacts DEF InvAt
  <1>6. \A n \in Node : n \notin {a, b, p} => keys'[n] = keys[n]
    BY <1>1, <1>2, <1>3, <1>5 DEF MergeBranches, TypeOK
  <1>7. tag'[b] = "free" /\ \A n \in Node : n # b => tag'[n] = tag[n]
    BY <1>4, <1>5 DEF TypeOK
  <1> QED
    BY <1>4, <1>5, <1>6, <1>7, BranchesMap

LEMMA CollapseRootMaps ==
  ASSUME NEW lvl \in [Node -> Nat], InvAt(lvl), TypeOK', Called, CollapseRoot
  PROVE  MapStep
  <1>1. PICK gone : gone = {children[root][i] : i \in DOMAIN children[root] \ Survivors}
    OBVIOUS
  <1>2. PICK t : t = root
    OBVIOUS
  <1>3. /\ pc = "fix" /\ pc' = "idle" /\ tag[t] = "branch" /\ Return(ret) /\ vals' = vals
        /\ tag' = [n \in Node |-> IF n \in gone \cup {t} THEN "free" ELSE tag[n]]
        /\ keys' = [keys EXCEPT ![t] = <<>>]
    BY <1>1, <1>2 DEF CollapseRoot, Repaired, RootLow, Blank, Return, Leave
  <1>4. TypeOK /\ t \in Node
    BY <1>2, <1>3 DEF InvAt, Rooted, TypeOK
  <1>5. \A n \in gone : keys[n] = <<>>
    BY <1>1 DEF Survivors
  <1>6. \A n \in Node : n \notin gone \cup {t} => tag'[n] = tag[n] /\ keys'[n] = keys[n]
    BY <1>3, <1>4 DEF TypeOK
  <1>7. Elsewise(gone \cup {t})
    BY <1>3, <1>6 DEF Elsewise
  <1>8. ASSUME NEW k \in Key, NEW v
        PROVE  Item(gone \cup {t}, k, v)' <=> Item(gone \cup {t}, k, v)
    <2>1. ~Item(gone \cup {t}, k, v)'
      BY <1>3 DEF Item, Leaves
    <2>2. \A n : ~Has(<<>>, vals[n], k, v)
      BY DEF Has
    <2>3. ~Item(gone \cup {t}, k, v)
      BY <1>3, <1>5, <2>2 DEF Item, Leaves
    <2> QED
      BY <2>1, <2>3
  <1>9. Content' = Content
    BY <1>3, <1>4, <1>7, <1>8, ContentStays DEF Mapped
  <1> QED
    BY <1>3, <1>9, Returns

LEMMA CollapseByMergingMaps ==
  ASSUME NEW lvl \in [Node -> Nat], InvAt(lvl), TypeOK', Called, CollapseByMerging
  PROVE  MapStep
  <1>1. PICK cs : cs = children[root]
    OBVIOUS
  <1>2. PICK t : t = root
    OBVIOUS
  <1>3. PICK a : a = cs[1]
    OBVIOUS
  <1>4. PICK b : b = cs[2]
    OBVIOUS
  <1>5. /\ pc = "fix" /\ pc' = "idle" /\ tag[t] = "branch" /\ Return(ret)
        /\ tag[a] = "leaf" /\ tag[b] = "leaf" /\ Survivors = {1, 2}
        /\ tag' = [tag EXCEPT ![b] = "free", ![t] = "free"]
        /\ keys' = [keys EXCEPT ![a] = @ \o keys[b], ![b] = <<>>, ![t] = <<>>]
        /\ vals' = [vals EXCEPT ![a] = @ \o vals[b], ![b] = <<>>]
    BY <1>1, <1>2, <1>3, <1>4
       DEF CollapseByMerging, Repaired, RootLow, TwoLeavesFit, Return, Leave
  <1>6. TypeOK /\ Shape /\ t \in Node /\ OneOwner(children) /\ cs \in Seq(Node)
    <2>1. TypeOK /\ Shape /\ t \in Node /\ OneOwner(children)
      BY <1>2, <1>5 DEF InvAt, Rooted, TypeOK
    <2> QED
      BY <1>1, <1>2, <2>1 DEF TypeOK
  <1>7. IsInjective(cs) /\ 1 \in DOMAIN cs /\ 2 \in DOMAIN cs
    <2>1. 1 \in Survivors /\ 2 \in Survivors
      BY <1>5
    <2> QED
      BY <1>1, <1>2, <1>6, <2>1 DEF Survivors, OneOwner
  <1>8. a \in Node /\ b \in Node /\ a # b /\ a # t /\ b # t
    <2>1. 1 # 2 /\ DOMAIN cs = 1 .. Len(cs)
      BY <1>6
    <2>2. a \in Node /\ b \in Node
      BY <1>3, <1>4, <1>6, <1>7, <2>1, ElementOfSeq
    <2>3. a # b
      BY <1>3, <1>4, <1>7, <2>1 DEF IsInjective
    <2> QED
      BY <1>5, <2>2, <2>3
  <1>9. /\ keys[a] \in Seq(Key) /\ keys[b] \in Seq(Key) /\ vals[a] \in Seq(Val)
        /\ vals[b] \in Seq(Val) /\ Len(vals[a]) = Len(keys[a]) /\ Len(vals[b]) = Len(keys[b])
    BY <1>5, <1>6, <1>8, BlockTypes
  <1>10. /\ keys'[a] = keys[a] \o keys[b] /\ keys'[b] = <<>>
         /\ vals'[a] = vals[a] \o vals[b] /\ vals'[b] = <<>>
         /\ tag'[a] = "leaf" /\ tag'[t] = "free" /\ \A n \in Node : n \notin {b, t} => tag'[n] = tag[n]
         /\ \A n \in Node : n \notin {a, b, t} => keys'[n] = keys[n]
         /\ \A n \in Node : n \notin {a, b} => vals'[n] = vals[n]
    BY <1>5, <1>6, <1>8 DEF TypeOK
  <1>11. Elsewise({a, b})
    BY <1>5, <1>10 DEF Elsewise
  <1>12. ASSUME NEW k \in Key, NEW v
         PROVE  Has(keys'[a], vals'[a], k, v) \/ Has(keys'[b], vals'[b], k, v)
                  <=> Has(keys[a], vals[a], k, v) \/ Has(keys[b], vals[b], k, v)
    <2>1. Has(keys[a] \o keys[b], vals[a] \o vals[b], k, v)
            <=> Has(keys[a], vals[a], k, v) \/ Has(keys[b], vals[b], k, v)
      BY ONLY <1>9, HasConcat
    <2>2. ~Has(<<>>, <<>>, k, v)
      BY DEF Has
    <2> QED
      BY <1>10, <2>1, <2>2
  <1>13. Content' = Content
    BY <1>5, <1>6, <1>8, <1>10, <1>11, <1>12, PairItems DEF Mapped
  <1> QED
    BY <1>5, <1>13, Returns

LEMMA DiscardMaps ==
  ASSUME NEW o \in {"clear", "drop"}, Discard(o)
  PROVE  MapStep
  <1>1. /\ pc = "idle" \/ (o = "drop" /\ pc \in {"oom", "overflow"})
        /\ pc' = "free" /\ op' = o /\ ret' = None /\ UNCHANGED <<key, val>>
    BY DEF Discard
  <1>2. Phase = "idle" \/ (o = "drop" /\ Phase = "panicked")
    BY <1>1 DEF Phase
  <1>3. Phase' = "applied" /\ Content' = Map!Empty
    BY <1>1 DEF Phase, Content, Map!Empty
  <1>4. Map!Discard(o)
    BY <1>1, <1>2, <1>3 DEF Map!Discard
  <1> QED
    BY <1>4 DEF MapStep, Map!Next

LEMMA FreeingMaps ==
  ASSUME FreeLeaf \/ FreeDescend \/ FreeNextChild \/ FreeBranch
  PROVE  MapStep
  <1>1. pc = "free" /\ pc' = "free" /\ UNCHANGED <<op, key, val, ret>>
    BY DEF FreeLeaf, FreeDescend, FreeNextChild, FreeBranch, call
  <1>2. Phase' = Phase /\ Content' = Content
    BY <1>1 DEF Phase, Content
  <1> QED
    BY <1>1, <1>2, MapStutter

(* Without blocks the map is empty.                                        *)
LEMMA NothingStored ==
  ASSUME Live = {}
  PROVE  Content = Map!Empty
  <1>1. Leaves = {}
    BY DEF Leaves, Live
  <1>2. \A k \in Key : Stored(k) = {}
    BY <1>1 DEF Stored
  <1> QED
    BY <1>2 DEF Content, Map!Empty

LEMMA FreeDoneMaps ==
  ASSUME NEW lvl \in [Node -> Nat], InvAt(lvl), NEW zone \in Zones, OrderAt(lvl, zone),
         Called, FreeDone
  PROVE  MapStep
  <1>1. /\ pc = "free" /\ tag' = tag /\ ret' = None /\ ret = None
        /\ pc' = (IF op = "drop" THEN "dropped" ELSE "idle")
        /\ op' = "none" /\ key' = k0 /\ val' = v0
    BY DEF FreeDone, Leave, heap, Called
  <1>2. Phase = "applied" /\ Phase' = (IF op = "drop" THEN "dropped" ELSE "idle")
    BY <1>1 DEF Phase
  <1>3. Content = Map!Empty
    BY <1>1 DEF Content, Map!Empty
  <1>4. Content' = Map!Empty
    <2>1. CASE op = "drop"
      BY <1>1, <2>1 DEF Content, Map!Empty
    <2>2. CASE op # "drop"
      <3>1. Live = {}
        BY <1>1, <2>2, FreeDoneEmpties DEF OrderAt
      <3>2. Leaves' = {}
        BY <1>1, <3>1 DEF Leaves, Live
      <3>3. \A k \in Key : Stored(k)' = {}
        BY <3>2 DEF Stored
      <3> QED
        BY <3>3 DEF Content, Map!Empty
    <2> QED
      BY <2>1, <2>2
  <1>5. Map!Leave(IF op = "drop" THEN "dropped" ELSE "idle")
    BY <1>1, <1>2 DEF Map!Leave, Map!k0, Map!v0, k0, v0
  <1>6. Map!Return
    BY <1>1, <1>2, <1>3, <1>4, <1>5 DEF Map!Return
  <1> QED
    BY <1>6 DEF MapStep, Map!Next

-----------------------------------------------------------------------------
(* The refinement.                                                         *)

(* The steps of the program, and of their callers.                         *)
LEMMA StepMaps ==
  ASSUME OrderInv, Called, TypeOK', Step
  PROVE  MapStep
  <1>1. PICK lvl \in [Node -> Nat], zone \in Zones : InvAt(lvl) /\ OrderAt(lvl, zone)
    BY DEF OrderInv, Zones
  <1>2. TypeOK
    BY <1>1 DEF InvAt
  <1>3. CASE Descend \/ MissEmpty \/ Get \/ GetMut
    BY <1>1, <1>2, <1>3, DescendMaps, MissEmptyMaps, GetMaps, GetMutMaps
  <1>4. CASE AllocRoot \/ InsertReplace \/ InsertIntoLeafSlot \/ SplitLeaf
    BY <1>1, <1>4, AllocRootMaps, InsertReplaceMaps, InsertIntoLeafSlotMaps, SplitLeafMaps
  <1>5. CASE InsertIntoBranch \/ BranchInsertAndSplit \/ NewRoot \/ AllocFails
    BY <1>1, <1>2, <1>5, InsertIntoBranchMaps, BranchInsertAndSplitMaps, NewRootMaps,
       AllocFailsMaps
  <1>6. CASE RemoveMiss \/ RemoveHit \/ FixNothing
    BY <1>1, <1>2, <1>6, RemoveMissMaps, RemoveHitMaps, FixNothingMaps
  <1>7. CASE BorrowFromLeftLeaf \/ BorrowFromRightLeaf
    BY <1>1, <1>7, BorrowFromLeftLeafMaps, BorrowFromRightLeafMaps
  <1>8. CASE BorrowFromLeftBranch \/ BorrowFromRightBranch
    BY <1>1, <1>8, BorrowBranchMaps
  <1>9. CASE MergeLeaves \/ MergeBranches
    BY <1>1, <1>9, MergeLeavesMaps, MergeBranchesMaps
  <1>10. CASE MergePanics \/ RemoveReturns \/ CollapseRoot \/ CollapseByMerging
    BY <1>1, <1>2, <1>10, MergePanicsMaps, RemoveReturnsMaps, CollapseRootMaps,
       CollapseByMergingMaps
  <1>11. CASE FreeStep
    BY <1>1, <1>11, FreeingMaps, FreeDoneMaps DEF FreeStep
  <1> QED
    BY <1>3, <1>4, <1>5, <1>6, <1>7, <1>8, <1>9, <1>10, <1>11 DEF Step, InsertStep, RemoveStep

LEMMA StutterMaps ==
  ASSUME TypeOK, TypeOK', UNCHANGED vars
  PROVE  MapStep
  <1>1. UNCHANGED <<tag, keys, vals, pc, op, key, val, ret>>
    BY DEF vars, heap, call
  <1>2. Phase' = Phase
    BY <1>1 DEF Phase
  <1>3. CASE Mapped
    BY <1>1, <1>2, <1>3, HeapKept, MapStutter DEF Mapped
  <1>4. CASE ~Mapped
    <2>1. Content' = Content
      BY <1>1, <1>4 DEF Mapped, Content
    <2> QED
      BY <1>1, <1>2, <2>1, MapStutter
  <1> QED
    BY <1>3, <1>4

LEMMA NextMaps ==
  ASSUME OrderInv, Called, TypeOK, TypeOK', [Next]_vars
  PROVE  MapStep
  <1>1. ASSUME NEW k \in Key, NEW v \in Val, Call("insert", k, v) \/ Call("get_mut", k, v)
        PROVE  MapStep
    BY <1>1, CallMaps
  <1>2. ASSUME NEW k \in Key, Call("remove", k, v0) \/ Call("get", k, v0)
        PROVE  MapStep
    <2>1. v0 \in Val
      BY ValAssumption DEF v0
    <2> QED
      BY <1>2, <2>1, CallMaps
  <1>3. CASE Discard("clear") \/ Discard("drop")
    BY <1>3, DiscardMaps
  <1>4. CASE Step
    BY <1>4, StepMaps
  <1>5. CASE UNCHANGED vars
    BY <1>5, StutterMaps
  <1> QED
    BY <1>1, <1>2, <1>3, <1>4, <1>5 DEF Next

(* The empty tree is the empty map.                                        *)
LEMMA InitMaps ==
  ASSUME Init
  PROVE  Map!Init
  <1>1. \A n \in Node : keys[n] = <<>>
    BY DEF Init
  <1>2. ASSUME NEW k \in Key  PROVE Stored(k) = {}
    <2>1. DOMAIN <<>> = {}
      OBVIOUS
    <2> QED
      BY <1>1, <2>1 DEF Stored, Leaves
  <1>3. Content = Map!Empty
    BY <1>2 DEF Content, Map!Empty
  <1>4. Phase = "idle"
    BY DEF Init, Phase
  <1> QED
    BY <1>3, <1>4 DEF Init, Map!Init, Map!k0, Map!v0, k0, v0

(* The tree implements the ordered map, for every key set, pool and        *)
(* capacity: seen through its leaves, every step of a descent, a split, a  *)
(* repair or a release is a step of the map or leaves it as it is.  So a   *)
(* call takes effect at one instant, its result is the value the key had   *)
(* then, and the steps before and after that instant change no binding,    *)
(* also when an allocation fails between them.                             *)
THEOREM TreeImplementsMap == Spec => StepsAreMapSteps
  <1>1. Init => Map!Init
    BY InitMaps
  <1>2. OrderInv /\ Called /\ TypeOK /\ TypeOK' /\ [Next]_vars => [Map!Next]_(Map!mapVars)
    BY NextMaps DEF MapStep
  <1> QED
    BY <1>1, <1>2, OrderInvariant, CalledAlways, TreeTypes, PTL DEF Spec, StepsAreMapSteps

=============================================================================
