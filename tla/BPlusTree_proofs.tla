-------------------------- MODULE BPlusTree_proofs --------------------------
(***************************************************************************)
(* Memory safety of the tree, for every key set, pool and capacity: each   *)
(* step preserves the invariant Inv of BPlusTreeInv.                       *)
(*                                                                         *)
(* First come lemmas about the data of a tree, which the proofs of order   *)
(* use as well: how single writes to child pointers keep every block to    *)
(* one owner and one level, how the keys of a branch part its zone among   *)
(* its children, and what the items of a leaf are after each edit of it.   *)
(***************************************************************************)
EXTENDS BPlusTreeOrder, NodeOps_proofs

-----------------------------------------------------------------------------
(* Child pointers.  c are those before a write, d those after it.          *)

(* d differs from c at the nodes of W only.                                *)
Elsewhere(c, d, W) == \A n \in Node : n \notin W => d[n] = c[n]

(* A block without an owner becomes a child.                               *)
LEMMA OwnersAdd ==
  ASSUME NEW c, NEW d, OneOwner(c), NEW a \in Node, NEW x, Loose(c, x),
         Adds(c[a], x, d[a]), Elsewhere(c, d, {a})
  PROVE  OneOwner(d)
  <1>1. \A n \in Node : \/ n = a
                        \/ d[n] = c[n]
    BY DEF Elsewhere
  <1>2. ASSUME NEW n \in Node  PROVE IsInjective(d[n])
    BY <1>1 DEF OneOwner, Adds, Loose
  <1>3. ASSUME NEW m \in Node, NEW n \in Node, NEW y \in Range(d[m]), y \in Range(d[n])
        PROVE  m = n
    BY <1>1, <1>3 DEF OneOwner, Adds, Loose
  <1> QED
    BY <1>2, <1>3 DEF OneOwner

(* A block is taken from its owner.                                        *)
LEMMA OwnersDrop ==
  ASSUME NEW c, NEW d, OneOwner(c), NEW a \in Node, NEW x,
         Drops(c[a], x, d[a]), Elsewhere(c, d, {a})
  PROVE  OneOwner(d) /\ Loose(d, x)
  <1>1. \A n \in Node : n = a \/ d[n] = c[n]
    BY DEF Elsewhere
  <1>2. IsInjective(d[a]) /\ x \notin Range(d[a])
        /\ \A y : y \in Range(c[a]) <=> y \in Range(d[a]) \/ y = x
    BY DEF OneOwner, Drops
  <1>3. ASSUME NEW n \in Node  PROVE IsInjective(d[n])
    BY <1>1, <1>2 DEF OneOwner
  <1>4. ASSUME NEW m \in Node, NEW n \in Node, NEW y \in Range(d[m]), y \in Range(d[n])
        PROVE  m = n
    BY <1>1, <1>2, <1>4 DEF OneOwner
  <1>5. ASSUME NEW n \in Node  PROVE x \notin Range(d[n])
    BY <1>1, <1>2 DEF OneOwner
  <1> QED
    BY <1>3, <1>4, <1>5 DEF OneOwner, Loose

(* The children of b join those of a.                                      *)
LEMMA OwnersJoin ==
  ASSUME NEW c, NEW d, OneOwner(c), NEW a \in Node, NEW b \in Node, a # b,
         Joins(c[a], c[b], d[a]), IsInjective(d[b]), \A x : x \notin Range(d[b]),
         Elsewhere(c, d, {a, b})
  PROVE  OneOwner(d)
  <1>1. \A n \in Node : n = a \/ n = b \/ d[n] = c[n]
    BY DEF Elsewhere
  <1>2. IsInjective(c[a]) /\ IsInjective(c[b]) /\ \A x \in Range(c[a]) : x \notin Range(c[b])
    BY DEF OneOwner
  <1>3. IsInjective(d[a]) /\ \A x : x \in Range(d[a]) <=> x \in Range(c[a]) \/ x \in Range(c[b])
    BY <1>2 DEF Joins
  <1>4. ASSUME NEW n \in Node  PROVE IsInjective(d[n])
    BY <1>1, <1>3 DEF OneOwner
  <1>5. ASSUME NEW m \in Node, NEW n \in Node, NEW y \in Range(d[m]), y \in Range(d[n])
        PROVE  m = n
    BY <1>1, <1>3, <1>5 DEF OneOwner
  <1> QED
    BY <1>4, <1>5 DEF OneOwner

(* The children of a are shared with b, which had none.                    *)
LEMMA OwnersCut ==
  ASSUME NEW c, NEW d, OneOwner(c), NEW a \in Node, NEW b \in Node, a # b,
         Joins(d[a], d[b], c[a]), \A x : x \notin Range(c[b]),
         Elsewhere(c, d, {a, b})
  PROVE  OneOwner(d)
  <1>1. \A n \in Node : n = a \/ n = b \/ d[n] = c[n]
    BY DEF Elsewhere
  <1>2. /\ IsInjective(d[a]) /\ IsInjective(d[b])
        /\ \A x \in Range(d[a]) : x \notin Range(d[b])
        /\ \A x : x \in Range(c[a]) <=> x \in Range(d[a]) \/ x \in Range(d[b])
    BY DEF OneOwner, Joins
  <1>3. ASSUME NEW n \in Node  PROVE IsInjective(d[n])
    BY <1>1, <1>2 DEF OneOwner
  <1>4. ASSUME NEW m \in Node, NEW n \in Node, NEW y \in Range(d[m]), y \in Range(d[n])
        PROVE  m = n
    BY <1>1, <1>2, <1>4 DEF OneOwner
  <1> QED
    BY <1>3, <1>4 DEF OneOwner

(* The children of a block are forgotten.                                  *)
LEMMA OwnersBlank ==
  ASSUME NEW c, NEW d, OneOwner(c), NEW a \in Node,
         IsInjective(d[a]), \A x : x \notin Range(d[a]), Elsewhere(c, d, {a})
  PROVE  OneOwner(d)
  <1>1. \A n \in Node : n = a \/ d[n] = c[n]
    BY DEF Elsewhere
  <1> QED
    BY <1>1 DEF OneOwner

(* The empty sequence has no entries.                                      *)
LEMMA EmptyEntries ==
  IsInjective(<<>>) /\ \A x : x \notin Range(<<>>)
  BY SMT DEF IsInjective, Range

(* Every child after a step was a child before, at the same level.         *)
StaysOnLevel(lvl, c, d) ==
  \A n \in Node : \A x \in Range(d[n]) :
    \E m \in Node : x \in Range(c[m]) /\ lvl[m] = lvl[n]

(* Levels stay as they are when children move within a level.              *)
LEMMA LevelsStay ==
  ASSUME NEW lvl, NEW t, NEW u, NEW c, NEW d,
         Levels(lvl, t, c), StaysOnLevel(lvl, c, d),
         \A n \in Node : u[n] = "leaf" => t[n] = "leaf"
  PROVE  Levels(lvl, u, d)
  <1>1. ASSUME NEW n \in Node, NEW x \in Range(d[n])  PROVE lvl[n] = lvl[x] + 1
    <2>1. PICK m \in Node : x \in Range(c[m]) /\ lvl[m] = lvl[n]
      BY DEF StaysOnLevel
    <2> QED
      BY <2>1 DEF Levels
  <1> QED
    BY <1>1 DEF Levels

(* Of the blocks in use, those at level 0 are the leaves.                  *)
LEMMA LeafLevel ==
  ASSUME NEW lvl \in [Node -> Nat], TypeOK, Shape, Levels(lvl, tag, children),
         NEW n \in Node, tag[n] # "free"
  PROVE  tag[n] = "leaf" <=> lvl[n] = 0
  <1>1. ASSUME tag[n] # "leaf"  PROVE lvl[n] # 0
    <2>1. /\ keys[n] \in Seq(Key) /\ children[n] \in Seq(Node)
          /\ Len(children[n]) = Len(keys[n]) + 1
      BY <1>1 DEF Shape, TypeOK
    <2>2. 1 \in 1 .. Len(children[n])
      BY <2>1, SMT
    <2>3. children[n][1] \in Range(children[n]) /\ Range(children[n]) \subseteq Node
      BY <2>1, <2>2, Entries
    <2>4. lvl[n] = lvl[children[n][1]] + 1
      BY <2>3 DEF Levels
    <2> QED
      BY <2>3, <2>4, SMT
  <1>2. tag[n] = "leaf" => lvl[n] = 0
    BY DEF Levels
  <1> QED
    BY <1>1, <1>2

-----------------------------------------------------------------------------
(* Searching.                                                              *)

(* Keys are compared as integers.                                          *)
LEMMA KeysAreInts ==
  ASSUME NEW ks \in Seq(Key)
  PROVE  /\ ks \in Seq(Int) /\ Len(ks) \in Nat /\ DOMAIN ks = 1 .. Len(ks)
         /\ \A i \in 1 .. Len(ks) : ks[i] \in Key /\ ks[i] \in Int
  <1>1. Key \subseteq Int
    BY KeyAssumption
  <1>2. Len(ks) \in Nat /\ DOMAIN ks = 1 .. Len(ks) /\ \A i \in 1 .. Len(ks) : ks[i] \in Key
    BY SMT
  <1>3. ks \in Seq(Int)
    BY <1>1, SeqMonotonic
  <1> QED
    BY <1>1, <1>2, <1>3

(* child_for_key leads to the child whose slice the key is in.             *)
LEMMA RankSlice ==
  ASSUME NEW ks \in Seq(Key), Sorted(ks), NEW k \in Key
  PROVE  Rank(ks, k) + 1 \in 1 .. Len(ks) + 1 /\ k \in Slice(ks, Rank(ks, k) + 1)
  <1> DEFINE r == Rank(ks, k)
  <1>1. /\ ks \in Seq(Int) /\ Len(ks) \in Nat /\ k \in Int
        /\ \A i \in 1 .. Len(ks) : ks[i] \in Int
    BY KeysAreInts, KeyAssumption
  <1>2. r \in 0 .. Len(ks)
    BY <1>1, RankBounds
  <1>3. \A j \in 1 .. Len(ks) : ks[j] <= k <=> j <= r
    BY <1>1, RankPartsKeys DEF Sorted
  <1> HIDE DEF r
  <1> DEFINE i == r + 1
  <1>4. i \in 1 .. Len(ks) + 1 /\ i - 1 = r
    BY <1>1, <1>2, SMT
  <1>5. ASSUME i > 1  PROVE ks[i - 1] <= k
    <2>1. r \in 1 .. Len(ks) /\ r <= r
      BY <1>1, <1>2, <1>5, SMT
    <2> QED
      BY <1>3, <1>4, <2>1
  <1>6. ASSUME i <= Len(ks)  PROVE k < ks[i]
    <2>1. i \in 1 .. Len(ks) /\ ~(i <= r)
      BY <1>1, <1>2, <1>6, SMT
    <2> HIDE DEF i
    <2>2. ks[i] \in Int /\ ~(ks[i] <= k)
      BY <1>1, <1>3, <2>1
    <2> QED
      BY <1>1, <2>2, SMT
  <1> HIDE DEF i
  <1>7. k \in Slice(ks, i)
    BY <1>5, <1>6 DEF Slice
  <1> QED
    BY <1>4, <1>7 DEF i, r

(* A key that is in a sorted node is where its rank says.                  *)
LEMMA FoundAtRank ==
  ASSUME NEW ks \in Seq(Key), Sorted(ks), NEW k \in Key, Found(ks, k)
  PROVE  Rank(ks, k) \in 1 .. Len(ks) /\ ks[Rank(ks, k)] = k
  <1> DEFINE r == Rank(ks, k)
  <1>1. /\ ks \in Seq(Int) /\ Len(ks) \in Nat /\ k \in Int /\ DOMAIN ks = 1 .. Len(ks)
        /\ \A i \in 1 .. Len(ks) : ks[i] \in Int
    BY KeysAreInts, KeyAssumption
  <1>2. r \in 0 .. Len(ks)
    BY <1>1, RankBounds
  <1>3. \A j \in 1 .. Len(ks) : ks[j] <= k <=> j <= r
    BY <1>1, RankPartsKeys DEF Sorted
  <1>4. PICK i \in 1 .. Len(ks) : ks[i] = k
    BY <1>1 DEF Found
  <1> HIDE DEF r
  <1>5. i <= r /\ r \in 1 .. Len(ks)
    <2>1. ks[i] <= k
      BY <1>1, <1>4, SMT
    <2>2. i <= r
      BY <1>3, <2>1
    <2> QED
      BY <1>1, <1>2, <2>2, SMT
  <1>6. ks[r] <= k /\ ks[r] \in Int
    <2>1. r <= r
      BY <1>2, SMT
    <2> QED
      BY <1>1, <1>3, <1>5, <2>1
  <1>7. i < r => ks[i] < ks[r]
    BY <1>5 DEF Sorted
  <1>8. i = r
    BY <1>1, <1>2, <1>4, <1>5, <1>6, <1>7, SMT
  <1> QED
    BY <1>4, <1>5, <1>8 DEF r

(* A key has one place in a sorted node.                                   *)
LEMMA OnePlace ==
  ASSUME NEW ks \in Seq(Key), Sorted(ks),
         NEW i \in 1 .. Len(ks), NEW j \in 1 .. Len(ks), ks[i] = ks[j]
  PROVE  i = j
  <1>1. ks[i] \in Int /\ ks[j] \in Int /\ Len(ks) \in Nat
    BY KeysAreInts
  <1>2. (i < j => ks[i] < ks[j]) /\ (j < i => ks[j] < ks[i])
    BY DEF Sorted
  <1> QED
    BY <1>1, <1>2, SMT

-----------------------------------------------------------------------------
(* Where the keys around a separator are.                                  *)

(* a, then s, then b.                                                      *)
Around(a, s, b) == a \o <<s>> \o b

(* Where the entries of a, s and b are.                                    *)
LEMMA AroundParts ==
  ASSUME NEW a \in Seq(Key), NEW s \in Key, NEW b \in Seq(Key)
  PROVE  /\ Around(a, s, b) \in Seq(Key)
         /\ Len(Around(a, s, b)) = Len(a) + 1 + Len(b)
         /\ \A j \in 1 .. Len(a) : Around(a, s, b)[j] = a[j]
         /\ Around(a, s, b)[Len(a) + 1] = s
         /\ \A j \in 1 .. Len(b) : Around(a, s, b)[Len(a) + 1 + j] = b[j]
  <1> DEFINE t == <<s>>
             u == a \o t
             w == u \o b
  <1>1. Len(a) \in Nat /\ Len(b) \in Nat
    BY SMT
  <1>2. t \in Seq(Key) /\ Len(t) = 1 /\ t[1] = s
    BY Single
  <1> HIDE DEF t
  <1>3. /\ u \in Seq(Key) /\ Len(u) = Len(a) + 1
        /\ \A j \in 1 .. Len(a) : u[j] = a[j]
        /\ \A j \in Len(a) + 1 .. Len(a) + 1 : u[j] = t[j - Len(a)]
    BY <1>2, Concat
  <1> HIDE DEF u
  <1>4. /\ w \in Seq(Key) /\ Len(w) = Len(u) + Len(b)
        /\ \A j \in 1 .. Len(u) : w[j] = u[j]
        /\ \A j \in Len(u) + 1 .. Len(u) + Len(b) : w[j] = b[j - Len(u)]
    <2>1. u \in Seq(Key)
      BY <1>3
    <2> QED
      BY <2>1, Concat
  <1> HIDE DEF w
  <1>5. \A j \in 1 .. Len(a) : w[j] = a[j]
    <2> TAKE j \in 1 .. Len(a)
    <2>1. j \in 1 .. Len(u)
      BY <1>1, <1>3, SMT
    <2> QED
      BY <1>3, <1>4, <2>1
  <1>6. w[Len(a) + 1] = s
    <2>1. Len(a) + 1 \in 1 .. Len(u) /\ Len(a) + 1 \in Len(a) + 1 .. Len(a) + 1
          /\ Len(a) + 1 - Len(a) = 1
      BY <1>1, <1>3, SMT
    <2> QED
      BY <1>2, <1>3, <1>4, <2>1
  <1>7. \A j \in 1 .. Len(b) : w[Len(a) + 1 + j] = b[j]
    <2> TAKE j \in 1 .. Len(b)
    <2> DEFINE x == Len(a) + 1 + j
    <2>1. x \in Len(u) + 1 .. Len(u) + Len(b) /\ x - Len(u) = j
      BY <1>1, <1>3, SMT
    <2> HIDE DEF x
    <2>2. w[x] = b[x - Len(u)]
      BY <1>4, <2>1
    <2>3. w[x] = b[j]
      BY <2>1, <2>2
    <2> QED
      BY <2>3 DEF x
  <1> QED
    BY <1>3, <1>4, <1>5, <1>6, <1>7 DEF w, u, t, Around

(* When they are sorted.                                                   *)
LEMMA AroundSorted ==
  ASSUME NEW a \in Seq(Key), NEW s \in Key, NEW b \in Seq(Key)
  PROVE  Sorted(Around(a, s, b)) <=>
           /\ Sorted(a) /\ Sorted(b)
           /\ \A i \in 1 .. Len(a) : a[i] < s
           /\ \A i \in 1 .. Len(b) : s < b[i]
  <1> DEFINE c == Around(a, s, b)
             m == Len(a) + 1
  <1>1. /\ c \in Seq(Key) /\ Len(c) = m + Len(b)
        /\ \A j \in 1 .. Len(a) : c[j] = a[j]
        /\ c[m] = s
        /\ \A j \in 1 .. Len(b) : c[m + j] = b[j]
    BY AroundParts, ZenonT(60)
  <1>2. Len(a) \in Nat /\ Len(b) \in Nat /\ s \in Int
        /\ (\A i \in 1 .. Len(a) : a[i] \in Int) /\ (\A i \in 1 .. Len(b) : b[i] \in Int)
    BY KeysAreInts, KeyAssumption
  <1>3. m = Len(a) + 1
    OBVIOUS
  <1> HIDE DEF c, m
  <1>4. ASSUME Sorted(c)
        PROVE  /\ Sorted(a) /\ Sorted(b)
               /\ \A i \in 1 .. Len(a) : a[i] < s
               /\ \A i \in 1 .. Len(b) : s < b[i]
    <2>1. \A i, j \in 1 .. Len(c) : i < j => c[i] < c[j]
      BY <1>4 DEF Sorted
    <2>2. ASSUME NEW i \in 1 .. Len(a), NEW j \in 1 .. Len(a), i < j  PROVE a[i] < a[j]
      <3>1. i \in 1 .. Len(c) /\ j \in 1 .. Len(c)
        BY <1>1, <1>2, <1>3, SMT
      <3>2. c[i] = a[i] /\ c[j] = a[j]
        BY <1>1
      <3>3. c[i] < c[j]
        BY <2>1, <2>2, <3>1
      <3> QED
        BY <3>2, <3>3
    <2>3. ASSUME NEW i \in 1 .. Len(b), NEW j \in 1 .. Len(b), i < j  PROVE b[i] < b[j]
      <3>1. m + i \in 1 .. Len(c) /\ m + j \in 1 .. Len(c) /\ m + i < m + j
        BY <1>1, <1>2, <1>3, <2>3, SMT
      <3>2. c[m + i] = b[i] /\ c[m + j] = b[j]
        BY <1>1
      <3>3. c[m + i] < c[m + j]
        BY <2>1, <3>1
      <3> QED
        BY <3>2, <3>3
    <2>4. ASSUME NEW i \in 1 .. Len(a)  PROVE a[i] < s
      <3>1. i \in 1 .. Len(c) /\ m \in 1 .. Len(c) /\ i < m
        BY <1>1, <1>2, <1>3, SMT
      <3>2. c[i] = a[i]
        BY <1>1
      <3>3. c[i] < c[m]
        BY <2>1, <3>1
      <3> QED
        BY <1>1, <3>2, <3>3
    <2>5. ASSUME NEW i \in 1 .. Len(b)  PROVE s < b[i]
      <3>1. m + i \in 1 .. Len(c) /\ m \in 1 .. Len(c) /\ m < m + i
        BY <1>1, <1>2, <1>3, SMT
      <3>2. c[m + i] = b[i]
        BY <1>1
      <3>3. c[m] < c[m + i]
        BY <2>1, <3>1
      <3> QED
        BY <1>1, <3>2, <3>3
    <2> QED
      BY <2>2, <2>3, <2>4, <2>5 DEF Sorted
  <1>5. ASSUME Sorted(a), Sorted(b),
               \A i \in 1 .. Len(a) : a[i] < s, \A i \in 1 .. Len(b) : s < b[i]
        PROVE  Sorted(c)
    <2>1. \A i, j \in 1 .. Len(a) : i < j => a[i] < a[j]
      BY <1>5 DEF Sorted
    <2>2. \A i, j \in 1 .. Len(b) : i < j => b[i] < b[j]
      BY <1>5 DEF Sorted
    <2> SUFFICES ASSUME NEW i \in 1 .. Len(c), NEW j \in 1 .. Len(c), i < j
                 PROVE  c[i] < c[j]
      BY DEF Sorted
    <2>3. /\ i \in 1 .. Len(a) \/ i = m \/ (i - m \in 1 .. Len(b) /\ m + (i - m) = i)
          /\ j \in 1 .. Len(a) \/ j = m \/ (j - m \in 1 .. Len(b) /\ m + (j - m) = j)
          /\ i - m < j - m
      BY <1>1, <1>2, <1>3, SMT
    <2>4. ~(i = m /\ j \in 1 .. Len(a)) /\ ~(i = m /\ j = m)
          /\ ~(i - m \in 1 .. Len(b) /\ j \in 1 .. Len(a)) /\ ~(i - m \in 1 .. Len(b) /\ j = m)
      BY <1>1, <1>2, <1>3, SMT
    <2>5. CASE i \in 1 .. Len(a) /\ j \in 1 .. Len(a)
      <3>1. c[i] = a[i] /\ c[j] = a[j] /\ a[i] < a[j]
        BY <1>1, <2>1, <2>5
      <3> QED
        BY <3>1
    <2>6. CASE i \in 1 .. Len(a) /\ j = m
      <3>1. c[i] = a[i] /\ c[j] = s /\ a[i] < s
        BY <1>1, <1>5, <2>6
      <3> QED
        BY <3>1
    <2>7. CASE i \in 1 .. Len(a) /\ j - m \in 1 .. Len(b) /\ m + (j - m) = j
      <3> DEFINE h == j - m
      <3>1. h \in 1 .. Len(b) /\ m + h = j
        BY <2>7
      <3> HIDE DEF h
      <3>2. c[i] = a[i] /\ c[j] = b[h] /\ a[i] < s /\ s < b[h]
        BY <1>1, <1>5, <2>7, <3>1
      <3>3. a[i] \in Int /\ b[h] \in Int
        BY <1>2, <2>7, <3>1
      <3> QED
        BY <1>2, <3>2, <3>3, SMT
    <2>8. CASE i = m /\ j - m \in 1 .. Len(b) /\ m + (j - m) = j
      <3> DEFINE h == j - m
      <3>1. h \in 1 .. Len(b) /\ m + h = j
        BY <2>8
      <3> HIDE DEF h
      <3>2. c[i] = s /\ c[j] = b[h] /\ s < b[h]
        BY <1>1, <1>5, <2>8, <3>1
      <3> QED
        BY <3>2
    <2>9. CASE i - m \in 1 .. Len(b) /\ m + (i - m) = i /\ j - m \in 1 .. Len(b) /\ m + (j - m) = j
      <3> DEFINE h == j - m
                 g == i - m
      <3>1. h \in 1 .. Len(b) /\ m + h = j /\ g \in 1 .. Len(b) /\ m + g = i /\ g < h
        BY <2>3, <2>9
      <3> HIDE DEF h, g
      <3>2. c[i] = b[g] /\ c[j] = b[h] /\ b[g] < b[h]
        BY <1>1, <2>2, <3>1
      <3> QED
        BY <3>2
    <2> QED
      BY <2>3, <2>4, <2>5, <2>6, <2>7, <2>8, <2>9
  <1> QED
    BY <1>4, <1>5 DEF c

(* The children up to the separator take the keys below it, the others the *)
(* keys from it on.                                                        *)
LEMMA AroundSlices ==
  ASSUME NEW a \in Seq(Key), NEW s \in Key, NEW b \in Seq(Key), Sorted(Around(a, s, b)),
         NEW k \in Key
  PROVE  /\ \A i \in 1 .. Len(a) + 1 :
              k \in Slice(Around(a, s, b), i) <=> k < s /\ k \in Slice(a, i)
         /\ \A i \in 1 .. Len(b) + 1 :
              k \in Slice(Around(a, s, b), Len(a) + 1 + i) <=> s <= k /\ k \in Slice(b, i)
  <1> DEFINE c == Around(a, s, b)
             m == Len(a) + 1
  <1>1. /\ c \in Seq(Key) /\ Len(c) = m + Len(b)
        /\ \A j \in 1 .. Len(a) : c[j] = a[j]
        /\ c[m] = s
        /\ \A j \in 1 .. Len(b) : c[m + j] = b[j]
    BY AroundParts, ZenonT(60)
  <1>2. /\ \A i \in 1 .. Len(a) : a[i] < s
        /\ \A i \in 1 .. Len(b) : s < b[i]
    BY AroundSorted
  <1>3. Len(a) \in Nat /\ Len(b) \in Nat /\ s \in Int /\ k \in Int
        /\ (\A i \in 1 .. Len(a) : a[i] \in Int) /\ (\A i \in 1 .. Len(b) : b[i] \in Int)
    BY KeysAreInts, KeyAssumption
  <1>4. m = Len(a) + 1
    OBVIOUS
  <1> HIDE DEF c, m
  <1>5. ASSUME NEW i \in 1 .. Len(a) + 1
        PROVE  k \in Slice(c, i) <=> k < s /\ k \in Slice(a, i)
    <2>1. i <= Len(c) /\ (i > 1 => i - 1 \in 1 .. Len(a))
          /\ ((i \in 1 .. Len(a) /\ i <= Len(a)) \/ (i = m /\ ~(i <= Len(a))))
      BY <1>1, <1>3, <1>4, SMT
    <2>2. i > 1 => c[i - 1] = a[i - 1]
      BY <1>1, <2>1
    <2>3. k \in Slice(c, i) <=> (i > 1 => a[i - 1] <= k) /\ k < c[i]
      <3>1. k \in Slice(c, i) <=> (i > 1 => c[i - 1] <= k) /\ (i <= Len(c) => k < c[i])
        BY DEF Slice
      <3> QED
        BY <2>1, <2>2, <3>1
    <2>4. CASE i \in 1 .. Len(a) /\ i <= Len(a)
      <3>1. c[i] = a[i] /\ a[i] < s /\ a[i] \in Int
        BY <1>1, <1>2, <1>3, <2>4
      <3>2. k < a[i] => k < s
        BY <1>3, <3>1, SMT
      <3>3. k \in Slice(a, i) <=> (i > 1 => a[i - 1] <= k) /\ k < a[i]
        BY <2>4 DEF Slice
      <3> QED
        BY <2>3, <3>1, <3>2, <3>3
    <2>5. CASE i = m /\ ~(i <= Len(a))
      <3>1. k \in Slice(a, i) <=> (i > 1 => a[i - 1] <= k)
        BY <2>5 DEF Slice
      <3> QED
        BY <1>1, <2>3, <2>5, <3>1
    <2> QED
      BY <2>1, <2>4, <2>5
  <1>6. ASSUME NEW i \in 1 .. Len(b) + 1
        PROVE  k \in Slice(c, m + i) <=> s <= k /\ k \in Slice(b, i)
    <2> DEFINE x == m + i
    <2>1. /\ x > 1 /\ (x <= Len(c) <=> i <= Len(b)) /\ (i <= Len(b) => i \in 1 .. Len(b))
          /\ (i > 1 \/ (i = 1 /\ ~(i > 1) /\ x - 1 = m))
          /\ i > 1 => i - 1 \in 1 .. Len(b) /\ x - 1 = m + (i - 1)
      BY <1>1, <1>3, <1>4, SMT
    <2>2. x = m + i
      OBVIOUS
    <2> HIDE DEF x
    <2>3. i <= Len(b) => c[x] = b[i]
      BY <1>1, <2>1, <2>2
    <2>4. k \in Slice(c, x) <=> c[x - 1] <= k /\ (i <= Len(b) => k < b[i])
      <3>1. k \in Slice(c, x) <=> (x > 1 => c[x - 1] <= k) /\ (x <= Len(c) => k < c[x])
        BY DEF Slice
      <3> QED
        BY <2>1, <2>3, <3>1
    <2>5. CASE i > 1
      <3> DEFINE h == i - 1
      <3>1. h \in 1 .. Len(b) /\ x - 1 = m + h
        BY <2>1, <2>5
      <3>2. h = i - 1
        OBVIOUS
      <3> HIDE DEF h
      <3>3. c[x - 1] = b[h] /\ s < b[h] /\ b[h] \in Int
        BY <1>1, <1>2, <1>3, <3>1
      <3>4. b[h] <= k => s <= k
        BY <1>3, <3>3, SMT
      <3>5. k \in Slice(b, i) <=> b[h] <= k /\ (i <= Len(b) => k < b[i])
        BY <2>5, <3>2 DEF Slice
      <3> QED
        BY <2>2, <2>4, <3>3, <3>4, <3>5
    <2>6. CASE i = 1 /\ ~(i > 1) /\ x - 1 = m
      <3>1. k \in Slice(b, i) <=> (i <= Len(b) => k < b[i])
        BY <2>6 DEF Slice
      <3> QED
        BY <1>1, <2>2, <2>4, <2>6, <3>1
    <2> QED
      BY <2>1, <2>5, <2>6
  <1> QED
    BY <1>5, <1>6 DEF c, m

-----------------------------------------------------------------------------
(* A branch and the zones of its children.                                 *)

(* The branch with separators ks and children cs parts S among them.       *)
Fan(zone, S, ks, cs) ==
  \A i \in 1 .. Len(cs), k \in Key : k \in zone[cs[i]] <=> k \in S /\ k \in Slice(ks, i)

Low(S, s)  == {k \in S : k < s}
High(S, s) == {k \in S : s <= k}

(* Each child is looked at for some key.                                   *)
Filled(zone, cs) == \A i \in 1 .. Len(cs) : \E k \in Key : k \in zone[cs[i]]

(* Two branches side by side, and the separator between them, are a branch *)
(* with the keys of both.                                                  *)
LEMMA FanCut ==
  ASSUME NEW zone, NEW S,
         NEW a \in Seq(Key), NEW s \in Key, NEW b \in Seq(Key),
         NEW ca \in Seq(Node), NEW cb \in Seq(Node),
         Len(ca) = Len(a) + 1, Len(cb) = Len(b) + 1,
         Sorted(Around(a, s, b))
  PROVE  Fan(zone, S, Around(a, s, b), ca \o cb) <=>
           Fan(zone, Low(S, s), a, ca) /\ Fan(zone, High(S, s), b, cb)
  <1> DEFINE c  == Around(a, s, b)
             cs == ca \o cb
             m  == Len(a) + 1
  <1>1. /\ Len(cs) = m + Len(cb) /\ m \in Nat /\ Len(cb) \in Nat
        /\ \A j \in 1 .. m : cs[j] = ca[j]
        /\ \A j \in m + 1 .. m + Len(cb) : cs[j] = cb[j - m]
    <2>1. Len(a) \in Nat /\ Len(cb) \in Nat
      BY SMT
    <2>2. /\ Len(cs) = Len(ca) + Len(cb)
          /\ \A j \in 1 .. Len(ca) : cs[j] = ca[j]
          /\ \A j \in Len(ca) + 1 .. Len(ca) + Len(cb) : cs[j] = cb[j - Len(ca)]
      BY Concat
    <2>3. m \in Nat
      BY <2>1, SMT
    <2> QED
      BY <2>1, <2>2, <2>3
  <1>2. ASSUME NEW k \in Key
        PROVE  /\ \A i \in 1 .. m : k \in Slice(c, i) <=> k < s /\ k \in Slice(a, i)
               /\ \A i \in 1 .. Len(cb) : k \in Slice(c, m + i) <=> s <= k /\ k \in Slice(b, i)
    BY AroundSlices
  <1>3. Len(ca) = m
    OBVIOUS
  <1> HIDE DEF c, cs, m
  <1>4. ASSUME NEW j \in 1 .. Len(cb)
        PROVE  m + j \in 1 .. Len(cs) /\ cs[m + j] = cb[j]
    <2> DEFINE x == m + j
    <2>1. x \in m + 1 .. m + Len(cb) /\ x - m = j /\ x \in 1 .. Len(cs)
      BY <1>1, SMT
    <2> HIDE DEF x
    <2>2. cs[x] = cb[x - m]
      BY <1>1, <2>1
    <2>3. cs[x] = cb[j]
      BY <2>1, <2>2
    <2> QED
      BY <2>1, <2>3 DEF x
  <1>5. ASSUME NEW i \in 1 .. Len(cs)
        PROVE  i \in 1 .. m \/ (i - m \in 1 .. Len(cb) /\ i = m + (i - m))
    BY <1>1, SMT
  <1>6. \A i \in 1 .. m : i \in 1 .. Len(cs)
    BY <1>1, SMT
  <1>7. ASSUME Fan(zone, S, c, cs)
        PROVE  Fan(zone, Low(S, s), a, ca) /\ Fan(zone, High(S, s), b, cb)
    <2>1. ASSUME NEW i \in 1 .. Len(ca), NEW k \in Key
          PROVE  k \in zone[ca[i]] <=> k \in Low(S, s) /\ k \in Slice(a, i)
      <3>1. k \in zone[cs[i]] <=> k \in S /\ k \in Slice(c, i)
        BY <1>3, <1>6, <1>7 DEF Fan
      <3>2. cs[i] = ca[i] /\ (k \in Slice(c, i) <=> k < s /\ k \in Slice(a, i))
        BY <1>1, <1>2, <1>3
      <3> QED
        BY <3>1, <3>2 DEF Low
    <2>2. ASSUME NEW i \in 1 .. Len(cb), NEW k \in Key
          PROVE  k \in zone[cb[i]] <=> k \in High(S, s) /\ k \in Slice(b, i)
      <3>1. k \in zone[cs[m + i]] <=> k \in S /\ k \in Slice(c, m + i)
        BY <1>4, <1>7 DEF Fan
      <3>2. cs[m + i] = cb[i] /\ (k \in Slice(c, m + i) <=> s <= k /\ k \in Slice(b, i))
        BY <1>2, <1>4
      <3> QED
        BY <3>1, <3>2 DEF High
    <2> QED
      BY <2>1, <2>2 DEF Fan
  <1>8. ASSUME Fan(zone, Low(S, s), a, ca), Fan(zone, High(S, s), b, cb)
        PROVE  Fan(zone, S, c, cs)
    <2> SUFFICES ASSUME NEW i \in 1 .. Len(cs), NEW k \in Key
                 PROVE  k \in zone[cs[i]] <=> k \in S /\ k \in Slice(c, i)
      BY DEF Fan
    <2>1. CASE i \in 1 .. m
      <3>1. k \in zone[ca[i]] <=> k \in Low(S, s) /\ k \in Slice(a, i)
        BY <1>3, <1>8, <2>1 DEF Fan
      <3>2. cs[i] = ca[i] /\ (k \in Slice(c, i) <=> k < s /\ k \in Slice(a, i))
        BY <1>1, <1>2, <2>1
      <3> QED
        BY <3>1, <3>2 DEF Low
    <2>2. ASSUME NEW h \in 1 .. Len(cb), i = m + h
          PROVE  k \in zone[cs[i]] <=> k \in S /\ k \in Slice(c, i)
      <3>1. k \in zone[cb[h]] <=> k \in High(S, s) /\ k \in Slice(b, h)
        BY <1>8 DEF Fan
      <3>2. cs[i] = cb[h] /\ (k \in Slice(c, i) <=> s <= k /\ k \in Slice(b, h))
        BY <1>2, <1>4, <2>2
      <3> QED
        BY <3>1, <3>2 DEF High
    <2> QED
      BY <1>5, <2>1, <2>2
  <1> QED
    BY <1>7, <1>8 DEF c, cs

(* Their keys ascend across the separator, as no zone is empty.            *)
LEMMA FanJoin ==
  ASSUME NEW zone, NEW S,
         NEW a \in Seq(Key), NEW s \in Key, NEW b \in Seq(Key),
         NEW ca \in Seq(Node), NEW cb \in Seq(Node),
         Len(ca) = Len(a) + 1, Len(cb) = Len(b) + 1,
         Sorted(a), Sorted(b), Filled(zone, ca), Filled(zone, cb),
         Fan(zone, Low(S, s), a, ca), Fan(zone, High(S, s), b, cb)
  PROVE  Sorted(Around(a, s, b)) /\ Fan(zone, S, Around(a, s, b), ca \o cb)
  <1>1. Len(a) \in Nat /\ Len(b) \in Nat /\ s \in Int
        /\ (\A i \in 1 .. Len(a) : a[i] \in Int) /\ (\A i \in 1 .. Len(b) : b[i] \in Int)
        /\ \A k \in Key : k \in Int
    BY KeysAreInts, KeyAssumption
  <1>2. ASSUME NEW i \in 1 .. Len(a)  PROVE a[i] < s
    <2> DEFINE j == i + 1
    <2>1. j \in 1 .. Len(ca) /\ j > 1 /\ j - 1 = i
      BY <1>1, SMT
    <2> HIDE DEF j
    <2>2. PICK k \in Key : k \in zone[ca[j]]
      BY <2>1 DEF Filled
    <2>3. k \in Low(S, s) /\ k \in Slice(a, j)
      BY <2>1, <2>2 DEF Fan
    <2>4. k < s /\ a[i] <= k
      BY <2>1, <2>3 DEF Low, Slice
    <2> QED
      BY <1>1, <2>4, SMT
  <1>3. ASSUME NEW i \in 1 .. Len(b)  PROVE s < b[i]
    <2>1. i \in 1 .. Len(cb) /\ i <= Len(b)
      BY <1>1, SMT
    <2>2. PICK k \in Key : k \in zone[cb[i]]
      BY <2>1 DEF Filled
    <2>3. k \in High(S, s) /\ k \in Slice(b, i)
      BY <2>1, <2>2 DEF Fan
    <2>4. s <= k /\ k < b[i]
      BY <2>1, <2>3 DEF High, Slice
    <2> QED
      BY <1>1, <2>4, SMT
  <1>4. Sorted(Around(a, s, b))
    BY <1>2, <1>3, AroundSorted
  <1> QED
    BY <1>4, FanCut

(* insert_rec's update of the parent of a split child.                     *)
LEMMA FanInsert ==
  ASSUME NEW zone, NEW S,
         NEW ks \in Seq(Key), NEW cs \in Seq(Node), Len(cs) = Len(ks) + 1, Sorted(ks),
         NEW i \in 1 .. Len(cs), NEW s \in Key, NEW r \in Node,
         \A j \in 1 .. Len(cs), k \in Key :
           j # i => (k \in zone[cs[j]] <=> k \in S /\ k \in Slice(ks, j)),
         \A k \in Key : k \in zone[cs[i]] <=> k \in S /\ k \in Slice(ks, i) /\ k < s,
         \A k \in Key : k \in zone[r] <=> k \in S /\ k \in Slice(ks, i) /\ s <= k,
         \E k \in Key : k \in zone[cs[i]], \E k \in Key : k \in zone[r]
  PROVE  /\ Sorted(InsertAt(ks, i, s))
         /\ Fan(zone, S, InsertAt(ks, i, s), InsertAt(cs, i + 1, r))
  <1> DEFINE K == InsertAt(ks, i, s)
             C == InsertAt(cs, i + 1, r)
             L == Len(ks)
  <1>1. L \in Nat /\ i \in 1 .. L + 1 /\ s \in Int /\ i + 1 \in 1 .. Len(cs) + 1
        /\ (\A j \in 1 .. L : ks[j] \in Int) /\ \A k \in Key : k \in Int
    BY KeysAreInts, KeyAssumption, SMT
  <1>2. /\ Len(K) = L + 1
        /\ \A j \in 1 .. i - 1 : K[j] = ks[j]
        /\ K[i] = s
        /\ \A j \in i + 1 .. L + 1 : K[j] = ks[j - 1]
    <2>1. i \in 1 .. Len(ks) + 1
      OBVIOUS
    <2> QED
      BY <2>1, Inserted
  <1>3. /\ Len(C) = L + 2
        /\ \A j \in 1 .. i : C[j] = cs[j]
        /\ C[i + 1] = r
        /\ \A j \in i + 2 .. L + 2 : C[j] = cs[j - 1]
    <2>1. i + 1 - 1 = i /\ i + 1 + 1 = i + 2 /\ Len(cs) + 1 = L + 2
      BY <1>1, SMT
    <2> DEFINE p == i + 1
    <2>2. p \in 1 .. Len(cs) + 1 /\ cs \in Seq(Node) /\ r \in Node
      BY <1>1
    <2> HIDE DEF p
    <2>3. /\ Len(InsertAt(cs, p, r)) = Len(cs) + 1
          /\ \A j \in 1 .. p - 1 : InsertAt(cs, p, r)[j] = cs[j]
          /\ InsertAt(cs, p, r)[p] = r
          /\ \A j \in p + 1 .. Len(cs) + 1 : InsertAt(cs, p, r)[j] = cs[j - 1]
      BY ONLY <2>2, Inserted
    <2>4. p = i + 1 /\ C = InsertAt(cs, p, r)
      BY DEF p
    <2> HIDE DEF C, L
    <2> QED
      BY <2>1, <2>3, <2>4
  <1>4. L = Len(ks) /\ Len(cs) = L + 1
    OBVIOUS
  <1> HIDE DEF K, C, L
  <1>5. i > 1 => ks[i - 1] < s
    <2>1. PICK k \in Key : k \in Slice(ks, i) /\ k < s
      OBVIOUS
    <2>2. ASSUME i > 1  PROVE ks[i - 1] <= k /\ i - 1 \in 1 .. L
      BY <1>1, <2>1, <2>2, SMT DEF Slice
    <2> QED
      BY <1>1, <2>1, <2>2, SMT
  <1>6. i <= L => s < ks[i]
    <2>1. PICK k \in Key : k \in Slice(ks, i) /\ s <= k
      OBVIOUS
    <2>2. ASSUME i <= L  PROVE k < ks[i] /\ i \in 1 .. L
      BY <1>1, <1>4, <2>1, <2>2, SMT DEF Slice
    <2> QED
      BY <1>1, <2>1, <2>2, SMT
  <1>7. \A x, y \in 1 .. L : x < y => ks[x] < ks[y]
    BY <1>4 DEF Sorted
  <1>8. \A x \in 1 .. L : (x < i => ks[x] < s) /\ (i <= x => s < ks[x])
    <2> TAKE x \in 1 .. L
    <2>1. ASSUME x < i  PROVE ks[x] < s
      <3>1. i > 1 /\ i - 1 \in 1 .. L /\ (x = i - 1 \/ x < i - 1)
        BY <1>1, <2>1, SMT
      <3>2. ks[x] = ks[i - 1] \/ ks[x] < ks[i - 1]
        BY <1>7, <3>1
      <3> QED
        BY <1>1, <1>5, <3>1, <3>2, SMT
    <2>2. ASSUME i <= x  PROVE s < ks[x]
      <3>1. i <= L /\ i \in 1 .. L /\ (x = i \/ i < x)
        BY <1>1, <2>2, SMT
      <3>2. ks[x] = ks[i] \/ ks[i] < ks[x]
        BY <1>7, <3>1
      <3> QED
        BY <1>1, <1>6, <3>1, <3>2, SMT
    <2> QED
      BY <2>1, <2>2
  <1>9. Sorted(K)
    <2> SUFFICES ASSUME NEW x \in 1 .. L + 1, NEW y \in 1 .. L + 1, x < y
                 PROVE  K[x] < K[y]
      BY <1>2 DEF Sorted
    <2>1. /\ x \in 1 .. i - 1 \/ x = i \/ x \in i + 1 .. L + 1
          /\ y \in 1 .. i - 1 \/ y = i \/ y \in i + 1 .. L + 1
      BY <1>1, SMT
    <2>2. CASE y \in 1 .. i - 1
      <3>1. x \in 1 .. i - 1 /\ x \in 1 .. L /\ y \in 1 .. L
        BY <1>1, <2>2, SMT
      <3> QED
        BY <1>2, <1>7, <2>2, <3>1
    <2>3. CASE y = i
      <3>1. x \in 1 .. i - 1 /\ x \in 1 .. L /\ x < i
        BY <1>1, <2>3, SMT
      <3> QED
        BY <1>2, <1>8, <2>3, <3>1
    <2>4. CASE y \in i + 1 .. L + 1
      <3>1. y - 1 \in 1 .. L /\ K[y] = ks[y - 1] /\ i <= y - 1
        BY <1>1, <1>2, <2>4, SMT
      <3>2. CASE x \in 1 .. i - 1
        <4>1. x \in 1 .. L /\ x < y - 1
          BY <1>1, <2>4, <3>2, SMT
        <4> QED
          BY <1>2, <1>7, <3>1, <3>2, <4>1
      <3>3. CASE x = i
        BY <1>2, <1>8, <3>1, <3>3
      <3>4. CASE x \in i + 1 .. L + 1
        <4>1. x - 1 \in 1 .. L /\ K[x] = ks[x - 1] /\ x - 1 < y - 1
          BY <1>1, <1>2, <3>4, SMT
        <4> QED
          BY <1>7, <3>1, <4>1
      <3> QED
        BY <2>1, <3>2, <3>3, <3>4
    <2> QED
      BY <2>1, <2>2, <2>3, <2>4
  <1>10. Fan(zone, S, K, C)
    <2> SUFFICES ASSUME NEW j \in 1 .. L + 2, NEW k \in Key
                 PROVE  k \in zone[C[j]] <=> k \in S /\ k \in Slice(K, j)
      BY <1>3 DEF Fan
    <2>1. k \in Slice(K, j) <=> (j > 1 => K[j - 1] <= k) /\ (j <= L + 1 => k < K[j])
      BY <1>2 DEF Slice
    <2>2. CASE j < i
      <3>1. /\ j \in 1 .. i - 1 /\ j \in 1 .. i /\ j \in 1 .. Len(cs) /\ j # i
            /\ j <= L + 1 /\ j <= L /\ (j > 1 => j - 1 \in 1 .. i - 1)
        BY <1>1, <1>4, <2>2, SMT
      <3>2. C[j] = cs[j] /\ K[j] = ks[j] /\ (j > 1 => K[j - 1] = ks[j - 1])
        BY <1>2, <1>3, <3>1
      <3>3. k \in Slice(ks, j) <=> (j > 1 => ks[j - 1] <= k) /\ (j <= L => k < ks[j])
        BY <1>4 DEF Slice
      <3>4. k \in zone[cs[j]] <=> k \in S /\ k \in Slice(ks, j)
        BY <3>1
      <3> QED
        BY <2>1, <3>1, <3>2, <3>3, <3>4
    <2>3. CASE j = i
      <3>1. i \in 1 .. i /\ j <= L + 1 /\ (i > 1 => i - 1 \in 1 .. i - 1) /\ (i <= L => i \in 1 .. L)
        BY <1>1, <2>3, SMT
      <3>2. C[j] = cs[i] /\ K[j] = s /\ (j > 1 => K[j - 1] = ks[i - 1])
        BY <1>2, <1>3, <2>3, <3>1
      <3>3. k \in Slice(ks, i) <=> (i > 1 => ks[i - 1] <= k) /\ (i <= L => k < ks[i])
        BY <1>4 DEF Slice
      <3>4. k < s => (i <= L => k < ks[i])
        BY <1>1, <1>6, <3>1, SMT
      <3>5. k \in zone[cs[i]] <=> k \in S /\ k \in Slice(ks, i) /\ k < s
        OBVIOUS
      <3> QED
        BY <2>1, <2>3, <3>1, <3>2, <3>3, <3>4, <3>5
    <2>4. CASE j = i + 1
      <3>1. /\ j > 1 /\ j - 1 = i /\ (j <= L + 1 <=> i <= L) /\ j - 1 = i
            /\ (i <= L => j \in i + 1 .. L + 1 /\ i \in 1 .. L) /\ (i > 1 => i - 1 \in 1 .. L)
        BY <1>1, <2>4, SMT
      <3>2. C[j] = r /\ K[j - 1] = s /\ (i <= L => K[j] = ks[i])
        BY <1>2, <1>3, <2>4, <3>1
      <3>3. k \in Slice(ks, i) <=> (i > 1 => ks[i - 1] <= k) /\ (i <= L => k < ks[i])
        BY <1>4 DEF Slice
      <3>4. s <= k => (i > 1 => ks[i - 1] <= k)
        <4> SUFFICES ASSUME s <= k, i > 1  PROVE ks[i - 1] <= k
          OBVIOUS
        <4>1. PICK w : w = ks[i - 1]
          OBVIOUS
        <4>2. w \in Int /\ w < s
          BY <1>1, <1>5, <3>1, <4>1
        <4>3. s \in Int /\ k \in Int /\ s <= k
          BY <1>1
        <4>4. w <= k
          BY ONLY <4>2, <4>3, SMT
        <4> QED
          BY <4>1, <4>4
      <3>5. k \in zone[r] <=> k \in S /\ k \in Slice(ks, i) /\ s <= k
        OBVIOUS
      <3> QED
        BY <2>1, <3>1, <3>2, <3>3, <3>4, <3>5
    <2>5. CASE j > i + 1
      <3> DEFINE h == j - 1
      <3>0. L \in Nat /\ i \in 1 .. L + 1 /\ j \in 1 .. L + 2 /\ j > i + 1 /\ Len(cs) = L + 1
        BY <1>1, <1>4, <2>5
      <3>1. /\ j \in i + 2 .. L + 2 /\ h \in 1 .. Len(cs) /\ h # i /\ j > 1 /\ h > 1
            /\ h \in i + 1 .. L + 1 /\ (j <= L + 1 <=> h <= L)
            /\ (j <= L + 1 => j \in i + 1 .. L + 1)
        BY ONLY <3>0, SMT
      <3>2. h = j - 1
        OBVIOUS
      <3> HIDE DEF h
      <3>3. C[j] = cs[h] /\ K[h] = ks[h - 1] /\ (j <= L + 1 => K[j] = ks[h])
        BY <1>2, <1>3, <3>1, <3>2
      <3>4. k \in Slice(ks, h) <=> (h > 1 => ks[h - 1] <= k) /\ (h <= L => k < ks[h])
        BY <1>4 DEF Slice
      <3>5. k \in zone[cs[h]] <=> k \in S /\ k \in Slice(ks, h)
        BY <3>1
      <3> QED
        BY <2>1, <3>1, <3>2, <3>3, <3>4, <3>5
    <2>6. j < i \/ j = i \/ j = i + 1 \/ j > i + 1
      BY <1>1, SMT
    <2> QED
      BY <2>2, <2>3, <2>4, <2>5, <2>6
  <1> QED
    BY <1>9, <1>10 DEF K, C

(* The zones of the children beside a separator that goes become one.      *)
LEMMA SlicesRemoved ==
  ASSUME NEW ks \in Seq(Key), Sorted(ks), NEW p \in 1 .. Len(ks)
  PROVE  /\ RemoveAt(ks, p) \in Seq(Key) /\ Len(RemoveAt(ks, p)) = Len(ks) - 1
         /\ Sorted(RemoveAt(ks, p))
         /\ \A j \in 1 .. Len(ks), k \in Key :
              k \in Slice(RemoveAt(ks, p), j) <=>
                IF j < p THEN k \in Slice(ks, j)
                ELSE IF j = p THEN k \in Slice(ks, p) \/ k \in Slice(ks, p + 1)
                ELSE k \in Slice(ks, j + 1)
  <1> DEFINE K == RemoveAt(ks, p)
             L == Len(ks)
  <1>1. L \in Nat /\ p \in 1 .. L /\ (\A j \in 1 .. L : ks[j] \in Int) /\ \A k \in Key : k \in Int
    BY KeysAreInts, KeyAssumption
  <1>2. /\ K \in Seq(Key) /\ Len(K) = L - 1
        /\ \A j \in 1 .. p - 1 : K[j] = ks[j]
        /\ \A j \in p .. L - 1 : K[j] = ks[j + 1]
    BY Removed
  <1>3. L = Len(ks)
    OBVIOUS
  <1>4. \A x, y \in 1 .. L : x < y => ks[x] < ks[y]
    BY DEF Sorted
  <1> HIDE DEF K, L
  <1>5. Sorted(K)
    <2> SUFFICES ASSUME NEW x \in 1 .. L - 1, NEW y \in 1 .. L - 1, x < y
                 PROVE  K[x] < K[y]
      BY <1>2 DEF Sorted
    <2>1. /\ (x \in 1 .. p - 1 /\ x \in 1 .. L) \/ (x \in p .. L - 1 /\ x + 1 \in 1 .. L)
          /\ (y \in 1 .. p - 1 /\ y \in 1 .. L) \/ (y \in p .. L - 1 /\ y + 1 \in 1 .. L)
          /\ x < y + 1 /\ x + 1 < y + 1 /\ ~(x \in p .. L - 1 /\ y \in 1 .. p - 1)
      BY <1>1, SMT
    <2>2. CASE x \in 1 .. p - 1 /\ x \in 1 .. L /\ y \in 1 .. p - 1 /\ y \in 1 .. L
      BY <1>2, <1>4, <2>2
    <2>3. CASE x \in 1 .. p - 1 /\ x \in 1 .. L /\ y \in p .. L - 1 /\ y + 1 \in 1 .. L
      <3>1. K[x] = ks[x] /\ K[y] = ks[y + 1] /\ ks[x] < ks[y + 1]
        BY <1>2, <1>4, <2>1, <2>3
      <3> QED
        BY <3>1
    <2>4. CASE x \in p .. L - 1 /\ x + 1 \in 1 .. L /\ y \in p .. L - 1 /\ y + 1 \in 1 .. L
      <3>1. K[x] = ks[x + 1] /\ K[y] = ks[y + 1] /\ ks[x + 1] < ks[y + 1]
        BY <1>2, <1>4, <2>1, <2>4
      <3> QED
        BY <3>1
    <2> QED
      BY <2>1, <2>2, <2>3, <2>4
  <1>6. ASSUME NEW j \in 1 .. L, NEW k \in Key
        PROVE  k \in Slice(K, j) <=>
                 IF j < p THEN k \in Slice(ks, j)
                 ELSE IF j = p THEN k \in Slice(ks, p) \/ k \in Slice(ks, p + 1)
                 ELSE k \in Slice(ks, j + 1)
    <2>1. k \in Slice(K, j) <=> (j > 1 => K[j - 1] <= k) /\ (j <= L - 1 => k < K[j])
      BY <1>2 DEF Slice
    <2>2. \A i \in 1 .. L + 1 :
            k \in Slice(ks, i) <=> (i > 1 => ks[i - 1] <= k) /\ (i <= L => k < ks[i])
      BY <1>3 DEF Slice
    <2>3. CASE j < p
      <3>1. j \in 1 .. p - 1 /\ j <= L - 1 /\ j <= L /\ j \in 1 .. L + 1
            /\ (j > 1 => j - 1 \in 1 .. p - 1)
        BY <1>1, <2>3, SMT
      <3>2. K[j] = ks[j] /\ (j > 1 => K[j - 1] = ks[j - 1])
        BY <1>2, <3>1
      <3> QED
        BY <2>1, <2>2, <2>3, <3>1, <3>2
    <2>4. CASE j = p
      <3> DEFINE q == p + 1
      <3>1. /\ p \in 1 .. L + 1 /\ q \in 1 .. L + 1 /\ q > 1 /\ q - 1 = p /\ p <= L
            /\ (p <= L - 1 <=> q <= L) /\ (p <= L - 1 => p \in p .. L - 1 /\ q \in 1 .. L)
            /\ (p > 1 => p - 1 \in 1 .. p - 1 /\ p - 1 \in 1 .. L /\ p - 1 < p) /\ p < q
        BY <1>1, SMT
      <3>2. q = p + 1
        OBVIOUS
      <3> HIDE DEF q
      <3>3. (p <= L - 1 => K[p] = ks[q]) /\ (p > 1 => K[p - 1] = ks[p - 1])
        BY <1>2, <3>1, <3>2
      <3>4. k \in Slice(ks, p) <=> (p > 1 => ks[p - 1] <= k) /\ k < ks[p]
        BY <2>2, <3>1
      <3>5. k \in Slice(ks, q) <=> ks[p] <= k /\ (q <= L => k < ks[q])
        BY <2>2, <3>1
      <3>6. k < ks[p] => (q <= L => k < ks[q])
        <4>1. ASSUME q <= L, k < ks[p]  PROVE k < ks[q]
          <5>1. ks[p] < ks[q] /\ ks[p] \in Int /\ ks[q] \in Int /\ k \in Int
            BY <1>1, <1>4, <3>1, <4>1
          <5> QED
            BY <4>1, <5>1, SMT
        <4> QED
          BY <4>1
      <3>7. ks[p] <= k => (p > 1 => ks[p - 1] <= k)
        <4>1. ASSUME p > 1, ks[p] <= k  PROVE ks[p - 1] <= k
          <5> DEFINE o == p - 1
          <5>1. o \in 1 .. L /\ o < p
            BY <3>1, <4>1
          <5>2. o = p - 1
            OBVIOUS
          <5> HIDE DEF o
          <5>3. ks[o] < ks[p] /\ ks[p] \in Int /\ ks[o] \in Int /\ k \in Int
            BY <1>1, <1>4, <5>1
          <5>4. ks[o] <= k
            BY <4>1, <5>3, SMT
          <5> QED
            BY <5>2, <5>4
        <4> QED
          BY <4>1
      <3>8. k < ks[p] \/ ks[p] <= k
        BY <1>1, SMT
      <3>9. k \in Slice(K, p) <=> (p > 1 => ks[p - 1] <= k) /\ (q <= L => k < ks[q])
        BY <2>1, <2>4, <3>1, <3>3
      <3>10. k \in Slice(K, p) <=> k \in Slice(ks, p) \/ k \in Slice(ks, q)
        BY <3>4, <3>5, <3>6, <3>7, <3>8, <3>9
      <3>11. ~(j < p)
        BY <1>1, <2>4, SMT
      <3> QED
        BY <2>4, <3>2, <3>10, <3>11
    <2>5. CASE j > p
      <3> DEFINE q == j + 1
      <3>1. /\ ~(j < p) /\ j # p /\ q \in 1 .. L + 1 /\ q > 1 /\ q - 1 = j /\ j > 1
            /\ (j <= L - 1 <=> q <= L) /\ (j <= L - 1 => j \in p .. L - 1)
            /\ j - 1 \in p .. L - 1 /\ j - 1 + 1 = j
        BY <1>1, <2>5, SMT
      <3>2. q = j + 1
        OBVIOUS
      <3> HIDE DEF q
      <3>3. (j <= L - 1 => K[j] = ks[q]) /\ K[j - 1] = ks[j]
        BY <1>2, <3>1, <3>2
      <3>4. k \in Slice(ks, q) <=> ks[j] <= k /\ (q <= L => k < ks[q])
        BY <2>2, <3>1
      <3>5. k \in Slice(K, j) <=> k \in Slice(ks, q)
        BY <2>1, <3>1, <3>3, <3>4
      <3> QED
        BY <3>1, <3>2, <3>5
    <2>6. j < p \/ j = p \/ j > p
      BY <1>1, SMT
    <2> QED
      BY <2>3, <2>4, <2>5, <2>6
  <1> QED
    BY <1>2, <1>5, <1>6 DEF K, L

(* A branch without one separator, its two children made one.              *)
LEMMA FanRemove ==
  ASSUME NEW zone, NEW z, NEW S,
         NEW ks \in Seq(Key), NEW cs \in Seq(Node), Len(cs) = Len(ks) + 1, Sorted(ks),
         Fan(zone, S, ks, cs), NEW p \in 1 .. Len(ks),
         \A k \in Key : k \in z[cs[p]] <=> k \in zone[cs[p]] \/ k \in zone[cs[p + 1]],
         \A j \in 1 .. Len(cs), k \in Key :
           j # p /\ j # p + 1 => (k \in z[cs[j]] <=> k \in zone[cs[j]])
  PROVE  Fan(z, S, RemoveAt(ks, p), RemoveAt(cs, p + 1))
  <1> DEFINE L == Len(ks)
             K == RemoveAt(ks, p)
             C == RemoveAt(cs, p + 1)
             q == p + 1
  <1>1. L \in Nat /\ p \in 1 .. L /\ Len(cs) = L + 1 /\ Len(ks) = L
    BY KeysAreInts
  <1>2. q \in 1 .. Len(cs) /\ p \in 1 .. Len(cs) /\ Len(cs) - 1 = L
    BY <1>1, SMT
  <1>3. /\ \A j \in 1 .. L, k \in Key :
             k \in Slice(K, j) <=>
               IF j < p THEN k \in Slice(ks, j)
               ELSE IF j = p THEN k \in Slice(ks, p) \/ k \in Slice(ks, q)
               ELSE k \in Slice(ks, j + 1)
    BY SlicesRemoved
  <1>4. q = p + 1 /\ C = RemoveAt(cs, q)
    OBVIOUS
  <1>5. \A j \in 1 .. Len(cs), k \in Key : k \in zone[cs[j]] <=> k \in S /\ k \in Slice(ks, j)
    BY DEF Fan
  <1>6. /\ \A k \in Key : k \in z[cs[p]] <=> k \in zone[cs[p]] \/ k \in zone[cs[q]]
        /\ \A j \in 1 .. Len(cs), k \in Key :
             j # p /\ j # q => (k \in z[cs[j]] <=> k \in zone[cs[j]])
    OBVIOUS
  <1> HIDE DEF q, K, C
  <1>7. /\ Len(C) = Len(cs) - 1
        /\ \A j \in 1 .. q - 1 : C[j] = cs[j]
        /\ \A j \in q .. Len(cs) - 1 : C[j] = cs[j + 1]
    BY <1>2, <1>4, Removed
  <1> HIDE DEF L
  <1> SUFFICES ASSUME NEW j \in 1 .. L, NEW k \in Key
               PROVE  k \in z[C[j]] <=> k \in S /\ k \in Slice(K, j)
    BY <1>2, <1>4, <1>7 DEF Fan, K
  <1>8. CASE j < p
    <2>1. j \in 1 .. q - 1 /\ j \in 1 .. Len(cs) /\ j # p /\ j # q
      BY <1>1, <1>4, <1>8, SMT
    <2> QED
      BY <1>3, <1>5, <1>6, <1>7, <1>8, <2>1
  <1>9. CASE j = p
    <2>1. j \in 1 .. q - 1 /\ ~(j < p)
      BY <1>1, <1>4, <1>9, SMT
    <2>2. k \in Slice(K, p) <=> k \in Slice(ks, p) \/ k \in Slice(ks, q)
      BY <1>3, <1>9, <2>1
    <2>3. C[p] = cs[p]
      BY <1>7, <1>9, <2>1
    <2> QED
      BY <1>2, <1>5, <1>6, <1>9, <2>2, <2>3
  <1>10. CASE j > p
    <2> DEFINE h == j + 1
    <2>1. j \in q .. Len(cs) - 1 /\ h \in 1 .. Len(cs) /\ h # p /\ h # q /\ ~(j < p) /\ j # p
      BY <1>1, <1>4, <1>10, SMT
    <2>2. C[j] = cs[h] /\ (k \in Slice(K, j) <=> k \in Slice(ks, h))
      BY <1>3, <1>7, <2>1
    <2> HIDE DEF h
    <2> QED
      BY <1>5, <1>6, <2>1, <2>2
  <1>11. j < p \/ j = p \/ j > p
    BY <1>1, SMT
  <1> QED
    BY <1>8, <1>9, <1>10, <1>11

(* To remove an entry and insert one in its place is to replace it.        *)
LEMMA PutBack ==
  ASSUME NEW S, NEW s \in Seq(S), NEW p \in 1 .. Len(s), NEW e \in S
  PROVE  InsertAt(RemoveAt(s, p), p, e) = [s EXCEPT ![p] = e]
  <1> DEFINE t == RemoveAt(s, p)
             u == InsertAt(t, p, e)
             w == [s EXCEPT ![p] = e]
  <1>1. Len(s) \in Nat /\ p \in 1 .. Len(s)
    OBVIOUS
  <1>2. /\ t \in Seq(S) /\ Len(t) = Len(s) - 1
        /\ \A j \in 1 .. p - 1 : t[j] = s[j]
        /\ \A j \in p .. Len(s) - 1 : t[j] = s[j + 1]
    BY Removed
  <1>3. w \in Seq(S) /\ Len(w) = Len(s)
    BY Replaced
  <1>4. \A j \in 1 .. Len(s) : w[j] = IF j = p THEN e ELSE s[j]
    OBVIOUS
  <1> HIDE DEF t, w
  <1>5. t \in Seq(S) /\ p \in 1 .. Len(t) + 1 /\ Len(t) + 1 = Len(s)
    BY <1>1, <1>2, SMT
  <1>6. /\ u \in Seq(S) /\ Len(u) = Len(t) + 1
        /\ \A j \in 1 .. p - 1 : u[j] = t[j]
        /\ u[p] = e
        /\ \A j \in p + 1 .. Len(t) + 1 : u[j] = t[j - 1]
    BY <1>5, Inserted
  <1> HIDE DEF u
  <1>7. ASSUME NEW j \in 1 .. Len(u)  PROVE u[j] = w[j]
    <2>1. CASE j < p
      <3>1. j \in 1 .. p - 1 /\ j \in 1 .. Len(s) /\ j # p
        BY <1>1, <1>5, <1>6, <2>1, SMT
      <3> QED
        BY <1>2, <1>4, <1>6, <3>1
    <2>2. CASE j = p
      BY <1>1, <1>4, <1>6, <2>2
    <2>3. CASE j > p
      <3> DEFINE h == j - 1
      <3>1. j \in p + 1 .. Len(t) + 1 /\ j \in 1 .. Len(s) /\ j # p
            /\ h \in p .. Len(s) - 1 /\ h + 1 = j
        BY <1>1, <1>5, <1>6, <2>3, SMT
      <3>2. u[j] = t[h]
        BY <1>6, <3>1
      <3> HIDE DEF h
      <3>3. t[h] = s[h + 1]
        BY <1>2, <3>1
      <3> QED
        BY <1>4, <3>1, <3>2, <3>3
    <2>4. j < p \/ j = p \/ j > p
      BY <1>1, <1>5, <1>6, SMT
    <2> QED
      BY <2>1, <2>2, <2>3, <2>4
  <1>8. Len(u) = Len(w)
    BY <1>3, <1>5, <1>6
  <1>9. u = w
    BY <1>3, <1>6, <1>7, <1>8, SeqEqual
  <1> QED
    BY <1>9 DEF u, w, t

(* A borrow moves the separator between two children: t parts their keys.  *)
LEMMA FanMove ==
  ASSUME NEW zone, NEW z, NEW S,
         NEW ks \in Seq(Key), NEW cs \in Seq(Node), Len(cs) = Len(ks) + 1, Sorted(ks),
         Fan(zone, S, ks, cs), NEW p \in 1 .. Len(ks), NEW t \in Key,
         \A k \in Key : k \in z[cs[p]] <=>
           (k \in zone[cs[p]] \/ k \in zone[cs[p + 1]]) /\ k < t,
         \A k \in Key : k \in z[cs[p + 1]] <=>
           (k \in zone[cs[p]] \/ k \in zone[cs[p + 1]]) /\ t <= k,
         \E k \in Key : k \in z[cs[p]], \E k \in Key : k \in z[cs[p + 1]],
         \A j \in 1 .. Len(cs), k \in Key :
           j # p /\ j # p + 1 => (k \in z[cs[j]] <=> k \in zone[cs[j]])
  PROVE  Sorted([ks EXCEPT ![p] = t]) /\ Fan(z, S, [ks EXCEPT ![p] = t], cs)
  <1> DEFINE L == Len(ks)
             q == p + 1
             K == RemoveAt(ks, p)
             C == RemoveAt(cs, q)
             r == cs[q]
  <1>1. L \in Nat /\ p \in 1 .. L /\ Len(cs) = L + 1 /\ Len(ks) = L /\ q = p + 1
    BY KeysAreInts
  <1>2. q \in 1 .. Len(cs) /\ p \in 1 .. Len(cs) /\ Len(cs) - 1 = L /\ p \in 1 .. q - 1
    BY <1>1, SMT
  <1>3. /\ K \in Seq(Key) /\ Len(K) = L - 1 /\ Sorted(K)
        /\ \A j \in 1 .. L, k \in Key :
             k \in Slice(K, j) <=>
               IF j < p THEN k \in Slice(ks, j)
               ELSE IF j = p THEN k \in Slice(ks, p) \/ k \in Slice(ks, q)
               ELSE k \in Slice(ks, j + 1)
    BY SlicesRemoved
  <1>4. InsertAt(K, p, t) = [ks EXCEPT ![p] = t]
    BY PutBack
  <1>5. \A j \in 1 .. Len(cs), k \in Key : k \in zone[cs[j]] <=> k \in S /\ k \in Slice(ks, j)
    BY DEF Fan
  <1>6. /\ \A k \in Key : k \in z[cs[p]] <=> (k \in zone[cs[p]] \/ k \in zone[cs[q]]) /\ k < t
        /\ \A k \in Key : k \in z[r] <=> (k \in zone[cs[p]] \/ k \in zone[cs[q]]) /\ t <= k
        /\ \A j \in 1 .. Len(cs), k \in Key :
             j # p /\ j # q => (k \in z[cs[j]] <=> k \in zone[cs[j]])
        /\ (\E k \in Key : k \in z[cs[p]]) /\ (\E k \in Key : k \in z[r])
    OBVIOUS
  <1> HIDE DEF q, K
  <1>7. /\ C \in Seq(Node) /\ Len(C) = Len(cs) - 1
        /\ \A j \in 1 .. q - 1 : C[j] = cs[j]
        /\ \A j \in q .. Len(cs) - 1 : C[j] = cs[j + 1]
    BY <1>2, Removed
  <1>8. r \in Node
    BY <1>2
  <1>9. InsertAt(C, q, r) = cs
    <2>1. InsertAt(C, q, r) = [cs EXCEPT ![q] = r]
      BY <1>2, <1>8, PutBack
    <2>2. [cs EXCEPT ![q] = cs[q]] = cs
      OBVIOUS
    <2> QED
      BY <2>1, <2>2
  <1> HIDE DEF C, r, L
  <1>10. /\ Len(C) = Len(K) + 1 /\ p \in 1 .. Len(C) /\ Len(C) = L /\ C[p] = cs[p]
    <2>1. Len(C) = Len(K) + 1 /\ Len(C) = L
      BY <1>1, <1>2, <1>3, <1>7, SMT
    <2> QED
      BY <1>1, <1>2, <1>7, <2>1
  <1>11. \A k \in Key :
           (k \in zone[cs[p]] \/ k \in zone[cs[q]]) <=> k \in S /\ k \in Slice(K, p)
    <2> TAKE k \in Key
    <2>1. k \in Slice(K, p) <=> k \in Slice(ks, p) \/ k \in Slice(ks, q)
      <3>1. ~(p < p)
        BY <1>1, SMT
      <3> QED
        BY <1>1, <1>3, <3>1
    <2> QED
      BY <1>2, <1>5, <2>1
  <1>12. ASSUME NEW j \in 1 .. Len(C), NEW k \in Key, j # p
         PROVE  k \in z[C[j]] <=> k \in S /\ k \in Slice(K, j)
    <2>1. CASE j < p
      <3>1. j \in 1 .. q - 1 /\ j \in 1 .. Len(cs) /\ j # p /\ j # q /\ j \in 1 .. L
        BY <1>1, <1>10, <2>1, SMT
      <3> QED
        BY <1>3, <1>5, <1>6, <1>7, <2>1, <3>1
    <2>2. CASE j > p
      <3> DEFINE h == j + 1
      <3>1. j \in q .. Len(cs) - 1 /\ h \in 1 .. Len(cs) /\ h # p /\ h # q
            /\ ~(j < p) /\ j # p /\ j \in 1 .. L
        BY <1>1, <1>10, <2>2, SMT
      <3>2. C[j] = cs[h] /\ (k \in Slice(K, j) <=> k \in Slice(ks, h))
        BY <1>3, <1>7, <3>1
      <3> HIDE DEF h
      <3> QED
        BY <1>5, <1>6, <3>1, <3>2
    <2>3. j < p \/ j > p
      BY <1>1, <1>10, <1>12, SMT
    <2> QED
      BY <2>1, <2>2, <2>3
  <1>13. \A k \in Key : k \in z[C[p]] <=> k \in S /\ k \in Slice(K, p) /\ k < t
    BY <1>6, <1>10, <1>11
  <1>14. \A k \in Key : k \in z[r] <=> k \in S /\ k \in Slice(K, p) /\ t <= k
    BY <1>6, <1>11
  <1>15. /\ \E k \in Key : k \in z[C[p]]
         /\ \E k \in Key : k \in z[r]
    BY <1>6, <1>10
  <1>16. /\ Sorted(InsertAt(K, p, t))
         /\ Fan(z, S, InsertAt(K, p, t), InsertAt(C, p + 1, r))
    <2>1. C \in Seq(Node)
      BY <1>7
    <2> QED
      BY <1>3, <1>8, <1>10, <1>12, <1>13, <1>14, <1>15, <2>1, FanInsert
  <1> QED
    BY <1>1, <1>4, <1>9, <1>16

-----------------------------------------------------------------------------
(* The items of a leaf.                                                    *)

(* When two sorted sequences join to one.                                  *)
LEMMA SortedConcat ==
  ASSUME NEW a \in Seq(Key), NEW b \in Seq(Key)
  PROVE  Sorted(a \o b) <=>
           /\ Sorted(a) /\ Sorted(b)
           /\ \A i \in 1 .. Len(a), j \in 1 .. Len(b) : a[i] < b[j]
  <1> DEFINE c == a \o b
             m == Len(a)
  <1>1. m \in Nat /\ Len(b) \in Nat
    OBVIOUS
  <1>2. /\ c \in Seq(Key) /\ Len(c) = m + Len(b)
        /\ \A j \in 1 .. m : c[j] = a[j]
        /\ \A j \in m + 1 .. m + Len(b) : c[j] = b[j - m]
    BY Concat
  <1>3. m = Len(a)
    OBVIOUS
  <1> HIDE DEF c, m
  <1>4. ASSUME NEW j \in 1 .. Len(b)
        PROVE  m + j \in 1 .. Len(c) /\ c[m + j] = b[j]
    <2> DEFINE x == m + j
    <2>1. x \in m + 1 .. m + Len(b) /\ x - m = j /\ x \in 1 .. Len(c)
      BY <1>1, <1>2, SMT
    <2> HIDE DEF x
    <2>2. c[x] = b[x - m]
      BY <1>2, <2>1
    <2>3. c[x] = b[j]
      BY <2>1, <2>2
    <2> QED
      BY <2>1, <2>3 DEF x
  <1>5. ASSUME NEW i \in 1 .. m  PROVE i \in 1 .. Len(c)
    BY <1>1, <1>2, SMT
  <1>6. ASSUME NEW i \in 1 .. Len(c)
        PROVE  i \in 1 .. m \/ (i - m \in 1 .. Len(b) /\ m + (i - m) = i)
    BY <1>1, <1>2, SMT
  <1>7. ASSUME Sorted(c)
        PROVE  /\ Sorted(a) /\ Sorted(b)
               /\ \A i \in 1 .. Len(a), j \in 1 .. Len(b) : a[i] < b[j]
    <2>1. \A i, j \in 1 .. Len(c) : i < j => c[i] < c[j]
      BY <1>7 DEF Sorted
    <2>2. ASSUME NEW i \in 1 .. Len(a), NEW j \in 1 .. Len(a), i < j  PROVE a[i] < a[j]
      <3>1. c[i] = a[i] /\ c[j] = a[j] /\ c[i] < c[j]
        BY <1>2, <1>3, <1>5, <2>1, <2>2
      <3> QED
        BY <3>1
    <2>3. ASSUME NEW i \in 1 .. Len(b), NEW j \in 1 .. Len(b), i < j  PROVE b[i] < b[j]
      <3>1. m + i < m + j
        BY <1>1, <2>3, SMT
      <3>2. c[m + i] = b[i] /\ c[m + j] = b[j] /\ c[m + i] < c[m + j]
        BY <1>4, <2>1, <3>1
      <3> QED
        BY <3>2
    <2>4. ASSUME NEW i \in 1 .. Len(a), NEW j \in 1 .. Len(b)  PROVE a[i] < b[j]
      <3>1. i < m + j
        BY <1>1, <1>3, SMT
      <3>2. c[i] = a[i] /\ c[m + j] = b[j] /\ c[i] < c[m + j]
        BY <1>2, <1>3, <1>4, <1>5, <2>1, <3>1
      <3> QED
        BY <3>2
    <2> QED
      BY <2>2, <2>3, <2>4 DEF Sorted
  <1>8. ASSUME Sorted(a), Sorted(b),
               \A i \in 1 .. Len(a), j \in 1 .. Len(b) : a[i] < b[j]
        PROVE  Sorted(c)
    <2>1. \A i, j \in 1 .. m : i < j => a[i] < a[j]
      BY <1>3, <1>8 DEF Sorted
    <2>2. \A i, j \in 1 .. Len(b) : i < j => b[i] < b[j]
      BY <1>8 DEF Sorted
    <2> SUFFICES ASSUME NEW i \in 1 .. Len(c), NEW j \in 1 .. Len(c), i < j
                 PROVE  c[i] < c[j]
      BY DEF Sorted
    <2>3. CASE i \in 1 .. m /\ j \in 1 .. m
      BY <1>2, <2>1, <2>3
    <2>4. CASE i \in 1 .. m /\ j - m \in 1 .. Len(b) /\ m + (j - m) = j
      <3>1. c[i] = a[i] /\ c[m + (j - m)] = b[j - m] /\ a[i] < b[j - m]
        BY <1>2, <1>3, <1>4, <1>8, <2>4
      <3> QED
        BY <2>4, <3>1
    <2>5. CASE /\ i - m \in 1 .. Len(b) /\ m + (i - m) = i
               /\ j - m \in 1 .. Len(b) /\ m + (j - m) = j
      <3>1. i - m < j - m
        BY <1>1, <1>2, SMT
      <3>2. c[m + (i - m)] = b[i - m] /\ c[m + (j - m)] = b[j - m] /\ b[i - m] < b[j - m]
        BY <1>4, <2>2, <2>5, <3>1
      <3> QED
        BY <2>5, <3>2
    <2>6. ~(i - m \in 1 .. Len(b) /\ j \in 1 .. m)
      BY <1>1, <1>2, SMT
    <2> QED
      BY <1>6, <2>3, <2>4, <2>5, <2>6
  <1> QED
    BY <1>7, <1>8 DEF c, m

(* A new key goes in above the keys not above it.                          *)
LEMMA SortedInsert ==
  ASSUME NEW ks \in Seq(Key), Sorted(ks), NEW k \in Key, ~Found(ks, k)
  PROVE  Sorted(InsertAt(ks, Rank(ks, k) + 1, k))
  <1> DEFINE r == Rank(ks, k)
             i == r + 1
             a == SubSeq(ks, 1, r)
             b == SubSeq(ks, i, Len(ks))
  <1>1. /\ ks \in Seq(Int) /\ Len(ks) \in Nat /\ k \in Int /\ DOMAIN ks = 1 .. Len(ks)
        /\ \A j \in 1 .. Len(ks) : ks[j] \in Int
    BY KeysAreInts, KeyAssumption
  <1>2. r \in 0 .. Len(ks)
    BY <1>1, RankBounds
  <1>3. \A j \in 1 .. Len(ks) : ks[j] <= k <=> j <= r
    BY <1>1, RankPartsKeys DEF Sorted
  <1>4. \A j \in 1 .. Len(ks) : ks[j] # k
    BY <1>1 DEF Found
  <1>5. i = r + 1
    OBVIOUS
  <1>6. InsertAt(ks, i, k) = SubSeq(ks, 1, i - 1) \o <<k>> \o b
    BY DEF InsertAt
  <1> HIDE DEF r, i
  <1>7. i \in 1 .. Len(ks) + 1 /\ i - 1 = r
    BY <1>1, <1>2, <1>5, SMT
  <1>8. InsertAt(ks, i, k) = Around(a, k, b)
    BY <1>6, <1>7 DEF Around
  <1>9. /\ a \in Seq(Key) /\ Len(a) = r
        /\ \A j \in 1 .. r : a[j] = ks[j]
    BY <1>2, Prefix
  <1>10. /\ b \in Seq(Key) /\ Len(b) = Len(ks) - i + 1
         /\ \A j \in 1 .. Len(ks) - i + 1 : b[j] = ks[j + i - 1]
    BY <1>7, Suffix
  <1>11. a \o b = ks
    <2>1. 1 \in 1 .. Len(ks) + 1 /\ r \in 1 - 1 .. Len(ks) /\ Len(ks) \in r .. Len(ks)
      BY <1>1, <1>2, SMT
    <2>2. SubSeq(ks, 1, r) \o SubSeq(ks, r + 1, Len(ks)) = SubSeq(ks, 1, Len(ks))
      BY <2>1, SubsJoin
    <2>3. SubSeq(ks, 1, Len(ks)) = ks
      <3>1. Len(ks) \in 0 .. Len(ks)
        BY <1>1, SMT
      <3>2. /\ SubSeq(ks, 1, Len(ks)) \in Seq(Key)
            /\ Len(SubSeq(ks, 1, Len(ks))) = Len(ks)
            /\ \A j \in 1 .. Len(ks) : SubSeq(ks, 1, Len(ks))[j] = ks[j]
        BY <3>1, Prefix
      <3> QED
        BY <3>2, SeqEqual
    <2> QED
      BY <1>5, <2>2, <2>3
  <1> HIDE DEF a, b
  <1>12. Sorted(a) /\ Sorted(b)
    BY <1>9, <1>10, <1>11, SortedConcat
  <1>13. ASSUME NEW j \in 1 .. Len(a)  PROVE a[j] < k
    <2>1. j \in 1 .. Len(ks) /\ j <= r
      BY <1>1, <1>2, <1>9, SMT
    <2>2. a[j] = ks[j] /\ ks[j] <= k /\ ks[j] # k /\ ks[j] \in Int
      BY <1>1, <1>3, <1>4, <1>9, <2>1
    <2> QED
      BY <1>1, <2>2, SMT
  <1>14. ASSUME NEW j \in 1 .. Len(b)  PROVE k < b[j]
    <2> DEFINE h == j + i - 1
    <2>1. h \in 1 .. Len(ks) /\ ~(h <= r) /\ j \in 1 .. Len(ks) - i + 1
      BY <1>1, <1>2, <1>5, <1>10, SMT
    <2>2. b[j] = ks[h]
      BY <1>10, <2>1
    <2> HIDE DEF h
    <2>3. ks[h] \in Int /\ ~(ks[h] <= k)
      BY <1>1, <1>3, <2>1
    <2>4. k < ks[h]
      BY <1>1, <2>3, SMT
    <2> QED
      BY <2>2, <2>4
  <1>15. Sorted(Around(a, k, b))
    BY <1>9, <1>10, <1>12, <1>13, <1>14, AroundSorted
  <1> QED
    BY <1>5, <1>8, <1>15 DEF r

(* What borrowing does to the ends.                                        *)
LEMMA SortedEnds ==
  ASSUME NEW ks \in Seq(Key), Sorted(ks), Len(ks) >= 1
  PROVE  /\ Sorted(Front(ks)) /\ Sorted(Tail(ks))
         /\ \A i \in 1 .. Len(Front(ks)) : Front(ks)[i] < Last(ks)
         /\ \A i \in 1 .. Len(Tail(ks)) : Head(ks) < Tail(ks)[i]
  <1> DEFINE f == Front(ks)
             t == Tail(ks)
             L == Len(ks)
  <1>1. L \in Nat /\ L >= 1 /\ Len(ks) = L
    OBVIOUS
  <1>2. /\ f \in Seq(Key) /\ Len(f) = L - 1
        /\ \A j \in 1 .. L - 1 : f[j] = ks[j]
        /\ t \in Seq(Key) /\ Len(t) = L - 1
        /\ \A j \in 1 .. L - 1 : t[j] = ks[j + 1]
        /\ Last(ks) = ks[L] /\ Head(ks) = ks[1]
    BY Ends
  <1>3. \A x, y \in 1 .. L : x < y => ks[x] < ks[y]
    BY DEF Sorted
  <1> HIDE DEF f, t, L
  <1>4. ASSUME NEW j \in 1 .. L - 1
        PROVE  /\ j \in 1 .. L /\ j + 1 \in 1 .. L /\ j < L /\ 1 < j + 1
               /\ 1 \in 1 .. L /\ L \in 1 .. L
    BY <1>1, SMT
  <1>5. \A x, y \in 1 .. L - 1 : x < y => f[x] < f[y]
    BY <1>2, <1>3, <1>4
  <1>6. ASSUME NEW x \in 1 .. L - 1, NEW y \in 1 .. L - 1, x < y  PROVE t[x] < t[y]
    <2>1. x + 1 < y + 1
      BY <1>1, <1>6, SMT
    <2>2. ks[x + 1] < ks[y + 1]
      BY <1>3, <1>4, <2>1
    <2> QED
      BY <1>2, <2>2
  <1>7. ASSUME NEW i \in 1 .. L - 1  PROVE f[i] < ks[L] /\ ks[1] < t[i]
    <2>1. ks[i] < ks[L] /\ ks[1] < ks[i + 1]
      BY <1>3, <1>4
    <2> QED
      BY <1>2, <2>1
  <1> QED
    BY <1>2, <1>5, <1>6, <1>7 DEF Sorted, f, t

(* A key put at the fitting end keeps a node sorted.                       *)
LEMMA SortedPush ==
  ASSUME NEW ks \in Seq(Key), Sorted(ks), NEW k \in Key
  PROVE  /\ (\A i \in 1 .. Len(ks) : k < ks[i]) => Sorted(<<k>> \o ks)
         /\ (\A i \in 1 .. Len(ks) : ks[i] < k) => Sorted(Append(ks, k))
  <1> DEFINE o == <<k>>
             t == Append(ks, k)
  <1>1. o \in Seq(Key) /\ Len(o) = 1 /\ o[1] = k
    BY Single
  <1>2. t = ks \o o
    OBVIOUS
  <1> HIDE DEF o
  <1>3. Sorted(o)
    <2>1. \A i, j \in 1 .. Len(o) : ~(i < j)
      BY <1>1, SMT
    <2> QED
      BY <2>1 DEF Sorted
  <1>4. \A i \in 1 .. Len(o) : o[i] = k
    <2>1. \A i \in 1 .. Len(o) : i = 1
      BY <1>1, SMT
    <2> QED
      BY <1>1, <2>1
  <1>5. ASSUME \A i \in 1 .. Len(ks) : k < ks[i]  PROVE Sorted(o \o ks)
    BY <1>1, <1>3, <1>4, <1>5, SortedConcat
  <1>6. ASSUME \A i \in 1 .. Len(ks) : ks[i] < k  PROVE Sorted(ks \o o)
    BY <1>1, <1>3, <1>4, <1>6, SortedConcat
  <1> QED
    BY <1>2, <1>5, <1>6 DEF o

(* The item k, v is in the slots ks, vs.                                   *)
Has(ks, vs, k, v) == \E i \in 1 .. Len(ks) : ks[i] = k /\ vs[i] = v

(* What two leaves have is what their concatenation has.                   *)
LEMMA HasConcat ==
  ASSUME NEW S, NEW T, NEW a \in Seq(S), NEW b \in Seq(S), NEW x \in Seq(T), NEW y \in Seq(T),
         Len(x) = Len(a), Len(y) = Len(b), NEW k, NEW v
  PROVE  Has(a \o b, x \o y, k, v) <=> Has(a, x, k, v) \/ Has(b, y, k, v)
  <1> DEFINE c == a \o b
             z == x \o y
             m == Len(a)
             l == Len(b)
  <1>1. m \in Nat /\ l \in Nat
    OBVIOUS
  <1>2. /\ Len(c) = m + l
        /\ \A j \in 1 .. m : c[j] = a[j]
        /\ \A j \in m + 1 .. m + l : c[j] = b[j - m]
    BY Concat
  <1>3. /\ \A j \in 1 .. m : z[j] = x[j]
        /\ \A j \in m + 1 .. m + l : z[j] = y[j - m]
    <2>1. /\ \A j \in 1 .. Len(x) : z[j] = x[j]
          /\ \A j \in Len(x) + 1 .. Len(x) + Len(y) : z[j] = y[j - Len(x)]
      BY Concat
    <2> QED
      BY <2>1
  <1>4. m = Len(a) /\ l = Len(b)
    OBVIOUS
  <1> HIDE DEF c, z, m, l
  <1>5. ASSUME NEW i \in 1 .. l
        PROVE  m + i \in 1 .. Len(c) /\ c[m + i] = b[i] /\ z[m + i] = y[i]
    <2> DEFINE h == m + i
    <2>1. h \in m + 1 .. m + l /\ h - m = i /\ h \in 1 .. Len(c)
      BY <1>1, <1>2, SMT
    <2> HIDE DEF h
    <2>2. c[h] = b[h - m] /\ z[h] = y[h - m]
      BY <1>2, <1>3, <2>1
    <2>3. c[h] = b[i] /\ z[h] = y[i]
      BY <2>1, <2>2
    <2> QED
      BY <2>1, <2>3 DEF h
  <1>6. ASSUME NEW i \in 1 .. m
        PROVE  i \in 1 .. Len(c) /\ c[i] = a[i] /\ z[i] = x[i]
    <2>1. i \in 1 .. Len(c)
      BY <1>1, <1>2, SMT
    <2> QED
      BY <1>2, <1>3, <2>1
  <1>7. ASSUME NEW i \in 1 .. Len(c)
        PROVE  i \in 1 .. m \/ (i - m \in 1 .. l /\ m + (i - m) = i)
    BY <1>1, <1>2, SMT
  <1>8. Has(a, x, k, v) => Has(c, z, k, v)
    BY <1>4, <1>6 DEF Has
  <1>9. Has(b, y, k, v) => Has(c, z, k, v)
    BY <1>4, <1>5 DEF Has
  <1>10. ASSUME Has(c, z, k, v)  PROVE Has(a, x, k, v) \/ Has(b, y, k, v)
    <2>1. PICK i \in 1 .. Len(c) : c[i] = k /\ z[i] = v
      BY <1>10 DEF Has
    <2>2. CASE i \in 1 .. m
      BY <1>4, <1>6, <2>1, <2>2 DEF Has
    <2>3. CASE i - m \in 1 .. l /\ m + (i - m) = i
      <3>1. b[i - m] = k /\ y[i - m] = v
        BY <1>5, <2>1, <2>3
      <3> QED
        BY <1>4, <2>3, <3>1 DEF Has
    <2> QED
      BY <1>7, <2>2, <2>3
  <1> QED
    BY <1>8, <1>9, <1>10 DEF c, z

(* The item of a leaf with one item.                                       *)
LEMMA HasOne ==
  ASSUME NEW a, NEW x, NEW k, NEW v
  PROVE  Has(<<a>>, <<x>>, k, v) <=> k = a /\ v = x
  <1>1. Len(<<a>>) = 1 /\ <<a>>[1] = a /\ <<x>>[1] = x
    OBVIOUS
  <1>2. \A i \in 1 .. 1 : i = 1
    BY SMT
  <1>3. 1 \in 1 .. 1
    BY SMT
  <1> QED
    BY <1>1, <1>2, <1>3 DEF Has

(* An item put at either end.                                              *)
LEMMA HasPush ==
  ASSUME NEW S, NEW T, NEW ks \in Seq(S), NEW vs \in Seq(T), Len(vs) = Len(ks),
         NEW a \in S, NEW x \in T, NEW k, NEW v
  PROVE  /\ Has(<<a>> \o ks, <<x>> \o vs, k, v) <=> Has(ks, vs, k, v) \/ (k = a /\ v = x)
         /\ Has(Append(ks, a), Append(vs, x), k, v) <=> Has(ks, vs, k, v) \/ (k = a /\ v = x)
  <1> DEFINE A == <<a>>
             X == <<x>>
  <1>1. A \in Seq(S) /\ X \in Seq(T) /\ Len(A) = 1 /\ Len(X) = 1
    BY Single
  <1>2. Has(A, X, k, v) <=> k = a /\ v = x
    BY HasOne
  <1>3. Append(ks, a) = ks \o A /\ Append(vs, x) = vs \o X
    BY AppendIsConcat
  <1> HIDE DEF A, X
  <1>4. Len(X) = Len(A)
    BY <1>1
  <1>5. Has(A \o ks, X \o vs, k, v) <=> Has(A, X, k, v) \/ Has(ks, vs, k, v)
    BY <1>1, <1>4, HasConcat
  <1>6. Has(ks \o A, vs \o X, k, v) <=> Has(ks, vs, k, v) \/ Has(A, X, k, v)
    BY <1>1, <1>4, HasConcat
  <1> QED
    BY <1>2, <1>3, <1>5, <1>6 DEF A, X

(* An item inserted.                                                       *)
LEMMA HasInsert ==
  ASSUME NEW S, NEW T, NEW ks \in Seq(S), NEW vs \in Seq(T), Len(vs) = Len(ks),
         NEW i \in 1 .. Len(ks) + 1, NEW a \in S, NEW x \in T, NEW k, NEW v
  PROVE  Has(InsertAt(ks, i, a), InsertAt(vs, i, x), k, v) <=>
           Has(ks, vs, k, v) \/ (k = a /\ v = x)
  <1> DEFINE K == InsertAt(ks, i, a)
             V == InsertAt(vs, i, x)
             L == Len(ks)
  <1>1. L \in Nat /\ i \in 1 .. L + 1 /\ L = Len(ks)
    OBVIOUS
  <1>2. /\ Len(K) = L + 1
        /\ \A j \in 1 .. i - 1 : K[j] = ks[j]
        /\ K[i] = a
        /\ \A j \in i + 1 .. L + 1 : K[j] = ks[j - 1]
    <2>1. ks \in Seq(S) /\ i \in 1 .. Len(ks) + 1 /\ a \in S
      OBVIOUS
    <2> QED
      BY ONLY <2>1, Inserted
  <1>3. /\ \A j \in 1 .. i - 1 : V[j] = vs[j]
        /\ V[i] = x
        /\ \A j \in i + 1 .. L + 1 : V[j] = vs[j - 1]
    <2>1. i \in 1 .. Len(vs) + 1
      OBVIOUS
    <2>2. /\ \A j \in 1 .. i - 1 : V[j] = vs[j]
          /\ V[i] = x
          /\ \A j \in i + 1 .. Len(vs) + 1 : V[j] = vs[j - 1]
      BY <2>1, Inserted
    <2> QED
      BY <2>2
  <1> HIDE DEF K, V, L
  <1>4. ASSUME Has(K, V, k, v)  PROVE Has(ks, vs, k, v) \/ (k = a /\ v = x)
    <2>1. PICK j \in 1 .. L + 1 : K[j] = k /\ V[j] = v
      BY <1>2, <1>4 DEF Has
    <2>2. CASE j < i
      <3>1. j \in 1 .. i - 1 /\ j \in 1 .. L
        BY <1>1, <2>2, SMT
      <3>2. ks[j] = k /\ vs[j] = v
        BY <1>2, <1>3, <2>1, <3>1
      <3> QED
        BY <1>1, <3>1, <3>2 DEF Has
    <2>3. CASE j = i
      BY <1>2, <1>3, <2>1, <2>3
    <2>4. CASE j > i
      <3>1. j \in i + 1 .. L + 1 /\ j - 1 \in 1 .. L
        BY <1>1, <2>4, SMT
      <3>2. ks[j - 1] = k /\ vs[j - 1] = v
        BY <1>2, <1>3, <2>1, <3>1
      <3> QED
        BY <1>1, <3>1, <3>2 DEF Has
    <2>5. j < i \/ j = i \/ j > i
      BY <1>1, SMT
    <2> QED
      BY <2>2, <2>3, <2>4, <2>5
  <1>5. ASSUME Has(ks, vs, k, v)  PROVE Has(K, V, k, v)
    <2>1. PICK j \in 1 .. L : ks[j] = k /\ vs[j] = v
      BY <1>1, <1>5 DEF Has
    <2>2. CASE j < i
      <3>1. j \in 1 .. i - 1 /\ j \in 1 .. L + 1
        BY <1>1, <2>2, SMT
      <3>2. K[j] = k /\ V[j] = v
        BY <1>2, <1>3, <2>1, <3>1
      <3> QED
        BY <1>2, <3>1, <3>2 DEF Has
    <2>3. CASE j >= i
      <3> DEFINE h == j + 1
      <3>1. h \in i + 1 .. L + 1 /\ h - 1 = j /\ h \in 1 .. L + 1
        BY <1>1, <2>3, SMT
      <3> HIDE DEF h
      <3>2. K[h] = ks[h - 1] /\ V[h] = vs[h - 1]
        BY <1>2, <1>3, <3>1
      <3>3. K[h] = k /\ V[h] = v
        BY <2>1, <3>1, <3>2
      <3> QED
        BY <1>2, <3>1, <3>3 DEF Has
    <2>4. j < i \/ j >= i
      BY <1>1, SMT
    <2> QED
      BY <2>2, <2>3, <2>4
  <1>6. ASSUME k = a, v = x  PROVE Has(K, V, k, v)
    <2>1. i \in 1 .. Len(K)
      BY <1>1, <1>2, SMT
    <2> QED
      BY <1>2, <1>3, <1>6, <2>1 DEF Has
  <1> QED
    BY <1>4, <1>5, <1>6 DEF K, V

(* An item taken from either end.                                          *)
LEMMA HasEnds ==
  ASSUME NEW S, NEW T, NEW ks \in Seq(S), NEW vs \in Seq(T), Len(vs) = Len(ks), Len(ks) >= 1,
         NEW k, NEW v
  PROVE  /\ Has(ks, vs, k, v) <=> Has(Front(ks), Front(vs), k, v) \/ (k = Last(ks) /\ v = Last(vs))
         /\ Has(ks, vs, k, v) <=> Has(Tail(ks), Tail(vs), k, v) \/ (k = Head(ks) /\ v = Head(vs))
  <1> DEFINE L == Len(ks)
             f == Front(ks)
             g == Front(vs)
             t == Tail(ks)
             u == Tail(vs)
  <1>1. L \in Nat /\ L >= 1 /\ L = Len(ks)
    OBVIOUS
  <1>2. /\ Len(f) = L - 1 /\ Len(t) = L - 1
        /\ \A j \in 1 .. L - 1 : f[j] = ks[j] /\ t[j] = ks[j + 1]
        /\ Last(ks) = ks[L] /\ Head(ks) = ks[1]
    BY Ends
  <1>3. /\ \A j \in 1 .. L - 1 : g[j] = vs[j] /\ u[j] = vs[j + 1]
        /\ Last(vs) = vs[L] /\ Head(vs) = vs[1]
    <2>1. Len(vs) >= 1
      OBVIOUS
    <2>2. /\ \A j \in 1 .. Len(vs) - 1 : g[j] = vs[j] /\ u[j] = vs[j + 1]
          /\ Last(vs) = vs[Len(vs)] /\ Head(vs) = vs[1]
      BY <2>1, Ends
    <2> QED
      BY <2>2
  <1> HIDE DEF L, f, g, t, u
  <1>4. ASSUME NEW j \in 1 .. L - 1  PROVE j \in 1 .. L /\ j + 1 \in 1 .. L
    BY <1>1, SMT
  <1>5. 1 \in 1 .. L /\ L \in 1 .. L
    BY <1>1, SMT
  <1>6. ASSUME NEW j \in 1 .. L
        PROVE  /\ j = L \/ j \in 1 .. L - 1
               /\ j = 1 \/ (j - 1 \in 1 .. L - 1 /\ j - 1 + 1 = j)
    BY <1>1, SMT
  <1>7. Has(f, g, k, v) => Has(ks, vs, k, v)
    BY <1>1, <1>2, <1>3, <1>4 DEF Has
  <1>8. Has(t, u, k, v) => Has(ks, vs, k, v)
    <2> SUFFICES ASSUME NEW j \in 1 .. L - 1, t[j] = k, u[j] = v
                 PROVE  Has(ks, vs, k, v)
      BY <1>2 DEF Has
    <2>1. ks[j + 1] = k /\ vs[j + 1] = v
      BY <1>2, <1>3
    <2> QED
      BY <1>1, <1>4, <2>1 DEF Has
  <1>9. (k = Last(ks) /\ v = Last(vs)) \/ (k = Head(ks) /\ v = Head(vs)) => Has(ks, vs, k, v)
    BY <1>1, <1>2, <1>3, <1>5 DEF Has
  <1>10. ASSUME Has(ks, vs, k, v)
         PROVE  /\ Has(f, g, k, v) \/ (k = Last(ks) /\ v = Last(vs))
                /\ Has(t, u, k, v) \/ (k = Head(ks) /\ v = Head(vs))
    <2>1. PICK j \in 1 .. L : ks[j] = k /\ vs[j] = v
      BY <1>1, <1>10 DEF Has
    <2>2. ASSUME j \in 1 .. L - 1  PROVE Has(f, g, k, v)
      BY <1>2, <1>3, <2>1, <2>2 DEF Has
    <2>3. ASSUME j - 1 \in 1 .. L - 1, j - 1 + 1 = j  PROVE Has(t, u, k, v)
      <3> DEFINE h == j - 1
      <3>1. h \in 1 .. L - 1 /\ h + 1 = j
        BY <2>3
      <3> HIDE DEF h
      <3>2. t[h] = k /\ u[h] = v
        BY <1>2, <1>3, <2>1, <3>1
      <3> QED
        BY <1>2, <3>1, <3>2 DEF Has
    <2> QED
      BY <1>2, <1>3, <1>6, <2>1, <2>2, <2>3
  <1> QED
    BY <1>7, <1>8, <1>9, <1>10 DEF f, g, t, u

(* An item removed.                                                        *)
LEMMA HasRemove ==
  ASSUME NEW T, NEW ks \in Seq(Key), NEW vs \in Seq(T), Len(vs) = Len(ks), Sorted(ks),
         NEW i \in 1 .. Len(ks), NEW k, NEW v
  PROVE  Has(RemoveAt(ks, i), RemoveAt(vs, i), k, v) <=> Has(ks, vs, k, v) /\ k # ks[i]
  <1> DEFINE K == RemoveAt(ks, i)
             V == RemoveAt(vs, i)
             L == Len(ks)
  <1>1. L \in Nat /\ i \in 1 .. L /\ L = Len(ks)
    OBVIOUS
  <1>2. /\ Len(K) = L - 1
        /\ \A j \in 1 .. i - 1 : K[j] = ks[j]
        /\ \A j \in i .. L - 1 : K[j] = ks[j + 1]
    BY Removed
  <1>3. /\ \A j \in 1 .. i - 1 : V[j] = vs[j]
        /\ \A j \in i .. L - 1 : V[j] = vs[j + 1]
    <2>1. i \in 1 .. Len(vs)
      OBVIOUS
    <2>2. /\ \A j \in 1 .. i - 1 : V[j] = vs[j]
          /\ \A j \in i .. Len(vs) - 1 : V[j] = vs[j + 1]
      BY <2>1, Removed
    <2> QED
      BY <2>2
  <1> HIDE DEF K, V, L
  <1>4. ASSUME Has(K, V, k, v)  PROVE Has(ks, vs, k, v) /\ k # ks[i]
    <2>1. PICK j \in 1 .. L - 1 : K[j] = k /\ V[j] = v
      BY <1>2, <1>4 DEF Has
    <2>2. ASSUME NEW h \in 1 .. L, h # i, ks[h] = k, vs[h] = v
          PROVE  Has(ks, vs, k, v) /\ k # ks[i]
      <3>1. k # ks[i]
        BY <1>1, <2>2, OnePlace
      <3> QED
        BY <1>1, <2>2, <3>1 DEF Has
    <2>3. CASE j < i
      <3>1. j \in 1 .. i - 1 /\ j \in 1 .. L /\ j # i
        BY <1>1, <2>3, SMT
      <3>2. ks[j] = k /\ vs[j] = v
        BY <1>2, <1>3, <2>1, <3>1
      <3> QED
        BY <2>2, <3>1, <3>2
    <2>4. CASE j >= i
      <3> DEFINE h == j + 1
      <3>1. j \in i .. L - 1 /\ h \in 1 .. L /\ h # i
        BY <1>1, <2>4, SMT
      <3>2. ks[h] = k /\ vs[h] = v
        BY <1>2, <1>3, <2>1, <3>1
      <3> HIDE DEF h
      <3> QED
        BY <2>2, <3>1, <3>2
    <2>5. j < i \/ j >= i
      BY <1>1, SMT
    <2> QED
      BY <2>3, <2>4, <2>5
  <1>5. ASSUME Has(ks, vs, k, v), k # ks[i]  PROVE Has(K, V, k, v)
    <2>1. PICK j \in 1 .. L : ks[j] = k /\ vs[j] = v
      BY <1>1, <1>5 DEF Has
    <2>2. CASE j < i
      <3>1. j \in 1 .. i - 1 /\ j \in 1 .. L - 1
        BY <1>1, <2>2, SMT
      <3>2. K[j] = k /\ V[j] = v
        BY <1>2, <1>3, <2>1, <3>1
      <3> QED
        BY <1>2, <3>1, <3>2 DEF Has
    <2>3. CASE j > i
      <3> DEFINE h == j - 1
      <3>1. h \in i .. L - 1 /\ h + 1 = j /\ h \in 1 .. L - 1
        BY <1>1, <2>3, SMT
      <3> HIDE DEF h
      <3>2. K[h] = ks[h + 1] /\ V[h] = vs[h + 1]
        BY <1>2, <1>3, <3>1
      <3>3. K[h] = k /\ V[h] = v
        BY <2>1, <3>1, <3>2
      <3> QED
        BY <1>2, <3>1, <3>3 DEF Has
    <2>4. j # i
      BY <1>5, <2>1
    <2>5. j < i \/ j > i
      BY <1>1, <2>4, SMT
    <2> QED
      BY <2>2, <2>3, <2>5
  <1> QED
    BY <1>4, <1>5 DEF K, V

(* An item whose value is replaced.                                        *)
LEMMA HasReplace ==
  ASSUME NEW T, NEW ks \in Seq(Key), NEW vs \in Seq(T), Len(vs) = Len(ks), Sorted(ks),
         NEW i \in 1 .. Len(ks), NEW x \in T, NEW k, NEW v
  PROVE  /\ Has(ks, [vs EXCEPT ![i] = x], k, v) <=>
              (k = ks[i] /\ v = x) \/ (k # ks[i] /\ Has(ks, vs, k, v))
         /\ Has(ks, vs, ks[i], v) <=> v = vs[i]
  <1>1. \A j \in 1 .. Len(ks) : ks[j] = ks[i] <=> j = i
    BY OnePlace
  <1>2. \A j \in 1 .. Len(ks) : [vs EXCEPT ![i] = x][j] = IF j = i THEN x ELSE vs[j]
    OBVIOUS
  <1> QED
    BY <1>1, <1>2 DEF Has

-----------------------------------------------------------------------------
(* The invariant, step by step.                                            *)

LEMMA Defaults == k0 \in Key /\ v0 \in Val /\ n0 \in Node
  BY KeyAssumption, ValAssumption, NodeAssumption DEF k0, v0, n0

LEMMA Caps ==
  /\ LeafCap \in Nat /\ LeafCap >= 1 /\ BranchCap \in Nat /\ BranchCap >= 1
  BY CapAssumption, SMT

(* What TypeOK and Shape say of one block.                                 *)
LEMMA BlockTypes ==
  ASSUME TypeOK, Shape, NEW n \in Node
  PROVE  /\ keys[n] \in Seq(Key) /\ keys[n] \in Seq(Int)
         /\ vals[n] \in Seq(Val) /\ children[n] \in Seq(Node)
         /\ Len(keys[n]) \in Nat
         /\ tag[n] \in {"free", "leaf", "branch"}
         /\ tag[n] = "free" => keys[n] = <<>> /\ vals[n] = <<>> /\ children[n] = <<>>
         /\ tag[n] = "leaf" => /\ Len(vals[n]) = Len(keys[n])
                               /\ Len(keys[n]) <= LeafCap /\ children[n] = <<>>
         /\ tag[n] = "branch" => /\ Len(children[n]) = Len(keys[n]) + 1
                                 /\ Len(keys[n]) <= BranchCap /\ vals[n] = <<>>
  <1>1. keys[n] \in Seq(Key) /\ vals[n] \in Seq(Val) /\ children[n] \in Seq(Node)
        /\ tag[n] \in {"free", "leaf", "branch"}
    BY DEF TypeOK
  <1>2. keys[n] \in Seq(Int) /\ Len(keys[n]) \in Nat
    BY <1>1, KeyAssumption, SMT
  <1>3. \/ tag[n] = "free" /\ keys[n] = <<>> /\ vals[n] = <<>> /\ children[n] = <<>>
        \/ /\ tag[n] = "leaf" /\ children[n] = <<>>
           /\ Len(vals[n]) = Len(keys[n]) /\ Len(keys[n]) <= LeafCap
        \/ /\ tag[n] = "branch" /\ vals[n] = <<>>
           /\ Len(children[n]) = Len(keys[n]) + 1 /\ Len(keys[n]) <= BranchCap
    BY DEF Shape
  <1> QED
    BY <1>1, <1>2, <1>3

LEMMA FrameTypes ==
  ASSUME TypeOK, NEW i \in 1 .. Len(path)
  PROVE  path[i].node \in Node /\ path[i].pos \in Nat
  <1>1. path[i] \in Frame
    BY ElementOfSeq DEF TypeOK
  <1> QED
    BY <1>1 DEF Frame

(* The search in a block: the rank names a child, and a slot when the key  *)
(* was found.                                                              *)
LEMMA Searched ==
  ASSUME TypeOK, Shape, NEW n \in Node
  PROVE  /\ Rank(keys[n], key) \in 0 .. Len(keys[n])
         /\ Found(keys[n], key) => Rank(keys[n], key) \in 1 .. Len(keys[n])
  <1>1. keys[n] \in Seq(Int) /\ Len(keys[n]) \in Nat /\ key \in Int
    BY BlockTypes, KeyAssumption DEF TypeOK
  <1>2. Rank(keys[n], key) \in 0 .. Len(keys[n])
    BY <1>1, RankBounds
  <1>3. ASSUME Found(keys[n], key)  PROVE Rank(keys[n], key) # 0
    <2> DEFINE below == {i \in DOMAIN keys[n] : keys[n][i] <= key}
    <2>1. PICK i \in DOMAIN keys[n] : keys[n][i] = key
      BY <1>3 DEF Found
    <2>2. i \in below
      BY <1>1, <2>1, SMT
    <2>3. IsFiniteSet(below)
      <3>1. DOMAIN keys[n] = 1 .. Len(keys[n]) /\ 1 \in Int /\ Len(keys[n]) \in Int
        BY <1>1, SMT
      <3>2. IsFiniteSet(1 .. Len(keys[n]))
        BY <3>1, FS_Interval
      <3> QED
        BY <3>1, <3>2, FS_Subset
    <2> QED
      BY <2>2, <2>3, FS_EmptySet DEF Rank
  <1> QED
    BY <1>1, <1>2, <1>3, SMT

(* The end of a call leaves everything but the tree in its idle state.     *)
HeapTypes ==
  /\ root \in Node \cup {Null}
  /\ tag \in [Node -> {"free", "leaf", "branch"}]
  /\ keys \in [Node -> Seq(Key)]
  /\ vals \in [Node -> Seq(Val)]
  /\ children \in [Node -> Seq(Node)]
  /\ next \in [Node -> Node \cup {Null}]
  /\ prev \in [Node -> Node \cup {Null}]

LEMMA LeaveTypes ==
  ASSUME NEW where \in PCs, NEW result \in Val \cup {None}, Leave(where, result), HeapTypes'
  PROVE  TypeOK'
  <1>1. pc' \in PCs /\ ret' \in Val \cup {None} /\ cur' \in Node \cup {Null}
        /\ right' \in Node \cup {Null}
    BY DEF Leave
  <1>2. op' \in Ops \cup {"none", "drop"} /\ key' \in Key /\ val' \in Val /\ sep' \in Key
    BY Defaults DEF Leave
  <1>3. path' \in Seq(Frame)
    BY SMT DEF Leave
  <1> QED
    BY <1>1, <1>2, <1>3 DEF TypeOK, HeapTypes

(* A call that ends without a change to the tree's nodes.                  *)
LEMMA QuietReturn ==
  ASSUME NEW lvl \in [Node -> Nat], InvAt(lvl), pc # "free",
         NEW where \in {"idle", "oom", "overflow"}, NEW result \in Val \cup {None},
         Leave(where, result), UNCHANGED <<root, tag, children, next, prev>>,
         keys' \in [Node -> Seq(Key)], vals' \in [Node -> Seq(Val)], Shape'
  PROVE  InvAt(lvl)'
  <1>1. TypeOK'
    <2>1. where \in PCs /\ TypeOK
      BY DEF InvAt, PCs
    <2> QED
      BY <2>1, LeaveTypes DEF HeapTypes, TypeOK
  <1>2. pc' \notin {"free", "dropped", "split", "fix", "descend"} /\ pc' # "split"
        /\ cur' = Null /\ path' = <<>> /\ right' = Null
    BY DEF Leave
  <1>3. OneOwner(children)' /\ Levels(lvl, tag, children)'
    BY DEF InvAt, OneOwner, Levels
  <1>4. Rooted'
    BY <1>2 DEF InvAt, Rooted, Loose, Live
  <1>5. Carried(lvl)'
    BY <1>2 DEF Carried
  <1>6. Walked(lvl)'
    BY <1>2 DEF Walked, Walking
  <1> QED
    BY <1>1, <1>2, <1>3, <1>4, <1>5, <1>6 DEF InvAt

-----------------------------------------------------------------------------
(* Calls that end at a leaf, or without one.                               *)

(* A value in the leaf is overwritten.                                     *)
LEMMA ValueWritten ==
  ASSUME TypeOK, Shape, cur \in Node, tag[cur] = "leaf", Hit,
         vals' = [vals EXCEPT ![cur][Slot] = val], UNCHANGED <<tag, keys, children>>
  PROVE  vals' \in [Node -> Seq(Val)] /\ Shape'
  <1> DEFINE w == [vals[cur] EXCEPT ![Slot] = val]
  <1>1. /\ vals[cur] \in Seq(Val) /\ Len(vals[cur]) = Len(keys[cur])
        /\ Len(keys[cur]) <= LeafCap /\ children[cur] = <<>>
    BY BlockTypes
  <1>2. Slot \in 1 .. Len(keys[cur]) /\ val \in Val
    BY Searched DEF Hit, Slot, TypeOK
  <1>3. Slot \in 1 .. Len(vals[cur])
    BY <1>1, <1>2
  <1>4. w \in Seq(Val) /\ Len(w) = Len(vals[cur])
    BY <1>1, <1>2, <1>3, Replaced
  <1>5. vals' = [vals EXCEPT ![cur] = w]
    OBVIOUS
  <1> HIDE DEF w
  <1>6. vals \in [Node -> Seq(Val)]
    BY DEF TypeOK
  <1>7. vals' \in [Node -> Seq(Val)]
    BY <1>4, <1>5, <1>6
  <1>8. vals'[cur] = w /\ \A n \in Node : n # cur => vals'[n] = vals[n]
    BY <1>5, <1>6
  <1>9. Shape'
    BY <1>1, <1>4, <1>8 DEF Shape
  <1> QED
    BY <1>7, <1>9

(* What a lookup that hits returns.                                        *)
LEMMA SlotValue ==
  ASSUME TypeOK, Shape, cur \in Node, tag[cur] = "leaf", Hit
  PROVE  vals[cur][Slot] \in Val \cup {None}
  <1>1. vals[cur] \in Seq(Val) /\ Len(vals[cur]) = Len(keys[cur])
    BY BlockTypes
  <1>2. Slot \in 1 .. Len(keys[cur])
    BY Searched DEF Hit, Slot
  <1> QED
    BY <1>1, <1>2, ElementOfSeq

(* A block that a step leaves alone keeps its shape.                       *)
LEMMA Untouched ==
  ASSUME Shape, NEW m \in Node, tag'[m] = tag[m], keys'[m] = keys[m],
         vals'[m] = vals[m], children'[m] = children[m]
  PROVE  \/ tag'[m] = "free" /\ keys'[m] = <<>> /\ vals'[m] = <<>> /\ children'[m] = <<>>
         \/ /\ tag'[m] = "leaf" /\ children'[m] = <<>>
            /\ Len(vals'[m]) = Len(keys'[m]) /\ Len(keys'[m]) <= LeafCap
         \/ /\ tag'[m] = "branch" /\ vals'[m] = <<>>
            /\ Len(children'[m]) = Len(keys'[m]) + 1 /\ Len(keys'[m]) <= BranchCap
  <1>1. \/ tag[m] = "free" /\ keys[m] = <<>> /\ vals[m] = <<>> /\ children[m] = <<>>
        \/ /\ tag[m] = "leaf" /\ children[m] = <<>>
           /\ Len(vals[m]) = Len(keys[m]) /\ Len(keys[m]) <= LeafCap
        \/ /\ tag[m] = "branch" /\ vals[m] = <<>>
           /\ Len(children[m]) = Len(keys[m]) + 1 /\ Len(keys[m]) <= BranchCap
    BY DEF Shape
  <1> QED
    BY <1>1

LEMMA InsertIntoLeafShape ==
  ASSUME TypeOK, Shape, cur \in Node, tag[cur] = "leaf", InsertIntoLeafSlot
  PROVE  /\ keys' \in [Node -> Seq(Key)] /\ vals' \in [Node -> Seq(Val)]
         /\ Shape'
  <1> DEFINE ks == InsertAt(keys[cur], Slot + 1, key)
             vs == InsertAt(vals[cur], Slot + 1, val)
  <1>1. /\ keys[cur] \in Seq(Key) /\ vals[cur] \in Seq(Val) /\ Len(keys[cur]) \in Nat
        /\ Len(vals[cur]) = Len(keys[cur]) /\ children[cur] = <<>>
    BY BlockTypes
  <1>2. Slot \in 0 .. Len(keys[cur]) /\ val \in Val /\ key \in Key
    BY Searched DEF Slot, TypeOK
  <1>3. Slot + 1 \in 1 .. Len(keys[cur]) + 1 /\ Slot + 1 \in 1 .. Len(vals[cur]) + 1
    BY <1>1, <1>2, SMT
  <1>4. ks \in Seq(Key) /\ Len(ks) = Len(keys[cur]) + 1
    BY <1>1, <1>2, <1>3, InsertedType
  <1>5. vs \in Seq(Val) /\ Len(vs) = Len(vals[cur]) + 1
    BY <1>1, <1>2, <1>3, InsertedType
  <1>6. /\ keys' = [keys EXCEPT ![cur] = ks] /\ vals' = [vals EXCEPT ![cur] = vs]
        /\ Len(keys[cur]) < LeafCap /\ UNCHANGED <<tag, children>>
    BY DEF InsertIntoLeafSlot
  <1> HIDE DEF ks, vs
  <1>7. keys \in [Node -> Seq(Key)] /\ vals \in [Node -> Seq(Val)]
    BY DEF TypeOK
  <1>8. keys' \in [Node -> Seq(Key)] /\ vals' \in [Node -> Seq(Val)]
    BY <1>4, <1>5, <1>6, <1>7
  <1>9. /\ keys'[cur] = ks /\ vals'[cur] = vs
        /\ \A n \in Node : n # cur => keys'[n] = keys[n] /\ vals'[n] = vals[n]
    BY <1>6, <1>7
  <1>10. Len(ks) <= LeafCap /\ Len(vs) = Len(ks)
    <2>1. Len(keys[cur]) < LeafCap
      BY <1>6
    <2> QED
      BY <1>1, <1>4, <1>5, <2>1, Caps, SMT
  <1>11. Shape'
    BY <1>1, <1>6, <1>9, <1>10 DEF Shape
  <1> QED
    BY <1>8, <1>11

Quiet == MissEmpty \/ Get \/ GetMut \/ InsertReplace \/ InsertIntoLeafSlot
           \/ AllocFails \/ RemoveMiss \/ MergePanics \/ RemoveReturns

LEMMA QuietSafe ==
  ASSUME NEW lvl \in [Node -> Nat], InvAt(lvl), Quiet
  PROVE  InvAt(lvl)'
  <1>1. TypeOK /\ Shape /\ ret \in Val \cup {None}
    BY DEF InvAt, TypeOK
  <1>2. /\ keys \in [Node -> Seq(Key)] /\ vals \in [Node -> Seq(Val)]
        /\ cur # Null => cur \in Node
    BY DEF InvAt, TypeOK
  <1>3. CASE MissEmpty
    <2>1. pc # "free" /\ Leave("idle", None)
          /\ UNCHANGED <<root, tag, keys, vals, children, next, prev>>
      BY <1>3 DEF MissEmpty, Return, heap
    <2>2. Shape'
      BY <1>1, <2>1 DEF Shape
    <2> QED
      BY <1>2, <2>1, <2>2, QuietReturn
  <1>4. CASE Get
    <2> DEFINE r == IF Hit THEN vals[cur][Slot] ELSE None
    <2>1. pc # "free" /\ Leave("idle", r) /\ AtLeaf("get")
          /\ UNCHANGED <<root, tag, keys, vals, children, next, prev>>
      BY <1>4 DEF Get, AtLeaf, Return, heap
    <2>2. Shape'
      BY <1>1, <2>1 DEF Shape
    <2>3. r \in Val \cup {None}
      BY <1>1, <1>2, <2>1, SlotValue DEF AtLeaf
    <2> HIDE DEF r
    <2> QED
      BY <1>2, <2>1, <2>2, <2>3, QuietReturn
  <1>5. CASE GetMut
    <2> DEFINE r == IF Hit THEN vals[cur][Slot] ELSE None
    <2>1. /\ pc # "free" /\ Leave("idle", r)
          /\ cur \in Node /\ tag[cur] = "leaf"
          /\ UNCHANGED <<root, tag, keys, children, next, prev>>
      BY <1>2, <1>5 DEF GetMut, AtLeaf, Return
    <2>2. r \in Val \cup {None}
      BY <1>1, <2>1, SlotValue
    <2>3. vals' \in [Node -> Seq(Val)] /\ Shape'
      <3>1. ASSUME Hit  PROVE vals' \in [Node -> Seq(Val)] /\ Shape'
        BY <1>1, <1>5, <2>1, <3>1, ValueWritten DEF GetMut
      <3>2. ASSUME ~Hit  PROVE vals' \in [Node -> Seq(Val)] /\ Shape'
        BY <1>1, <1>2, <1>5, <2>1, <3>2 DEF GetMut, Shape
      <3> QED
        BY <3>1, <3>2
    <2> HIDE DEF r
    <2> QED
      BY <1>2, <2>1, <2>2, <2>3, QuietReturn
  <1>6. CASE InsertReplace
    <2> DEFINE r == vals[cur][Slot]
    <2>1. /\ pc # "free" /\ Leave("idle", r)
          /\ cur \in Node /\ tag[cur] = "leaf" /\ Hit
          /\ UNCHANGED <<root, tag, keys, children, next, prev>>
      BY <1>2, <1>6 DEF InsertReplace, AtLeaf, Return
    <2>2. r \in Val \cup {None}
      BY <1>1, <2>1, SlotValue
    <2>3. vals' \in [Node -> Seq(Val)] /\ Shape'
      BY <1>1, <1>6, <2>1, ValueWritten DEF InsertReplace
    <2> HIDE DEF r
    <2> QED
      BY <1>2, <2>1, <2>2, <2>3, QuietReturn
  <1>7. CASE InsertIntoLeafSlot
    <2>1. /\ pc # "free" /\ Leave("idle", None)
          /\ cur \in Node /\ tag[cur] = "leaf"
          /\ UNCHANGED <<root, tag, children, next, prev>>
      BY <1>2, <1>7 DEF InsertIntoLeafSlot, AtLeaf, Return
    <2>2. keys' \in [Node -> Seq(Key)] /\ vals' \in [Node -> Seq(Val)] /\ Shape'
      BY <1>1, <1>7, <2>1, InsertIntoLeafShape
    <2> QED
      BY <2>1, <2>2, QuietReturn
  <1>8. CASE AllocFails
    <2>1. pc # "free" /\ Leave("oom", None)
          /\ UNCHANGED <<root, tag, keys, vals, children, next, prev>>
      BY <1>8 DEF AllocFails, NeedsBlock, AtLeaf, heap
    <2>2. Shape'
      BY <1>1, <2>1 DEF Shape
    <2> QED
      BY <1>2, <2>1, <2>2, QuietReturn
  <1>9. CASE RemoveMiss
    <2>1. pc # "free" /\ Leave("idle", None)
          /\ UNCHANGED <<root, tag, keys, vals, children, next, prev>>
      BY <1>9 DEF RemoveMiss, AtLeaf, Return, heap
    <2>2. Shape'
      BY <1>1, <2>1 DEF Shape
    <2> QED
      BY <1>2, <2>1, <2>2, QuietReturn
  <1>10. CASE MergePanics
    <2>1. pc # "free" /\ Leave("overflow", None)
          /\ UNCHANGED <<root, tag, keys, vals, children, next, prev>>
      BY <1>10 DEF MergePanics, Merging, Fixing, heap
    <2>2. Shape'
      BY <1>1, <2>1 DEF Shape
    <2> QED
      BY <1>2, <2>1, <2>2, QuietReturn
  <1>11. CASE RemoveReturns
    <2>1. pc # "free" /\ Leave("idle", ret)
          /\ UNCHANGED <<root, tag, keys, vals, children, next, prev>>
      BY <1>11 DEF RemoveReturns, Repaired, Return, heap
    <2>2. Shape'
      BY <1>1, <2>1 DEF Shape
    <2> QED
      BY <1>1, <1>2, <2>1, <2>2, QuietReturn
  <1> QED
    BY <1>3, <1>4, <1>5, <1>6, <1>7, <1>8, <1>9, <1>10, <1>11 DEF Quiet

-----------------------------------------------------------------------------
(* The start of a call, and the way down.                                  *)

LEMMA CallSafe ==
  ASSUME NEW lvl \in [Node -> Nat], InvAt(lvl),
         NEW o, NEW k \in Key, NEW v \in Val, Call(o, k, v)
  PROVE  InvAt(lvl)'
  <1>1. /\ pc = "idle" /\ o \in Ops /\ pc' = "descend" /\ op' = o /\ key' = k /\ val' = v
        /\ cur' = root /\ ret' = None
        /\ UNCHANGED <<root, tag, keys, vals, children, next, prev, path, sep, right>>
    BY DEF Call, heap, split
  <1>2. TypeOK'
    BY <1>1 DEF InvAt, TypeOK, PCs
  <1>3. Shape' /\ OneOwner(children)' /\ Levels(lvl, tag, children)'
    BY <1>1 DEF InvAt, Shape, OneOwner, Levels
  <1>4. Rooted'
    BY <1>1 DEF InvAt, Rooted, Loose, Live
  <1>5. Carried(lvl)'
    BY <1>1 DEF InvAt, Carried
  <1>6. Walked(lvl)'
    <2>1. path = <<>> /\ (root # Null => root \in Node /\ tag[root] # "free")
      BY <1>1 DEF InvAt, TypeOK, Rooted, Walked, Walking
    <2>2. root # Null => lvl[root] + 0 = lvl[root]
      BY <2>1, SMT
    <2>3. Len(path) = 0 /\ \A i \in 1 .. Len(path) : FALSE
      BY <2>1, SMT
    <2> QED
      BY <1>1, <2>1, <2>2, <2>3 DEF Walked, Walking
  <1> QED
    BY <1>1, <1>2, <1>3, <1>4, <1>5, <1>6 DEF InvAt

LEMMA DescendSafe ==
  ASSUME NEW lvl \in [Node -> Nat], InvAt(lvl), Descend
  PROVE  InvAt(lvl)'
  <1> DEFINE pos == Rank(keys[cur], key) + 1
             f == [node |-> cur, pos |-> pos]
             c == children[cur][pos]
  <1>1. /\ pc = "descend" /\ cur # Null /\ tag[cur] = "branch"
        /\ path' = Append(path, f) /\ cur' = c
        /\ UNCHANGED <<root, tag, keys, vals, children, next, prev, pc, op, key, val, sep, right, ret>>
    BY DEF Descend, heap, call, split
  <1>2. TypeOK /\ Shape /\ cur \in Node /\ path \in Seq(Frame)
    BY <1>1 DEF InvAt, TypeOK
  <1>3. /\ children[cur] \in Seq(Node) /\ Len(keys[cur]) \in Nat
        /\ Len(children[cur]) = Len(keys[cur]) + 1
    BY <1>1, <1>2, BlockTypes
  <1>4. Rank(keys[cur], key) \in 0 .. Len(keys[cur])
    BY <1>2, Searched
  <1>5. pos \in 1 .. Len(children[cur]) /\ pos \in Nat
    BY <1>3, <1>4, SMT
  <1>6. c \in Range(children[cur]) /\ c \in Node
    BY <1>3, <1>5, Entries
  <1>7. tag[c] # "free" /\ lvl[cur] = lvl[c] + 1
    BY <1>1, <1>2, <1>6 DEF InvAt, Levels, Rooted, Live
  <1>8. /\ f \in Frame /\ f.node = cur /\ f.pos = pos
    BY <1>2, <1>5 DEF Frame
  <1> HIDE DEF f, pos, c
  <1>9. /\ path' \in Seq(Frame) /\ Len(path') = Len(path) + 1 /\ Len(path) \in Nat
        /\ \A i \in 1 .. Len(path) : path'[i] = path[i]
        /\ path'[Len(path) + 1] = f
    BY <1>1, <1>2, <1>8, Pushed, LenProperties
  <1>10. TypeOK'
    BY <1>1, <1>2, <1>6, <1>9 DEF TypeOK
  <1>11. Shape' /\ OneOwner(children)' /\ Levels(lvl, tag, children)'
    BY <1>1 DEF InvAt, Shape, OneOwner, Levels
  <1>12. Rooted'
    BY <1>1 DEF InvAt, Rooted, Loose, Live
  <1>13. Carried(lvl)'
    BY <1>1 DEF InvAt, Carried
  <1>14. /\ root # Null /\ root \in Node /\ lvl[cur] + Len(path) = lvl[root]
         /\ \A i \in 1 .. Len(path) : OnPath(lvl, path[i], i)
    BY <1>1, <1>2 DEF InvAt, Walked, Walking, TypeOK
  <1>15. Walked(lvl)'
    <2>1. lvl[cur] \in Nat /\ lvl[c] \in Nat /\ lvl[root] \in Nat
      BY <1>2, <1>6, <1>14
    <2>2. lvl[c] + Len(path') = lvl[root] /\ lvl[cur] + (Len(path) + 1) = lvl[root] + 1
      <3> DEFINE m == Len(path)
                 u == lvl[cur]
                 v == lvl[c]
                 w == lvl[root]
      <3>1. Len(path') = m + 1 /\ m \in Nat /\ u + m = w /\ u = v + 1
        BY <1>7, <1>9, <1>14
      <3>2. u \in Nat /\ v \in Nat /\ w \in Nat
        BY <2>1
      <3> HIDE DEF m, u, v, w
      <3>3. v + (m + 1) = w /\ u + (m + 1) = w + 1
        BY <3>1, <3>2, SMT
      <3> QED
        BY <3>1, <3>3 DEF m, u, v, w
    <2>3. \A i \in 1 .. Len(path') : i \in 1 .. Len(path) \/ i = Len(path) + 1
      BY <1>9, SMT
    <2>4. ASSUME NEW i \in 1 .. Len(path')  PROVE OnPath(lvl, path[i], i)'
      <3>1. ASSUME i \in 1 .. Len(path)  PROVE OnPath(lvl, path[i], i)'
        BY <1>1, <1>9, <1>14, <3>1 DEF OnPath
      <3>2. ASSUME i = Len(path) + 1  PROVE OnPath(lvl, path[i], i)'
        BY <1>1, <1>5, <1>8, <1>9, <1>14, <2>2, <3>2 DEF OnPath
      <3> QED
        BY <2>3, <3>1, <3>2
    <2>5. c # Null
      BY <1>6, NodeAssumption
    <2> QED
      BY <1>1, <1>7, <1>14, <2>2, <2>4, <2>5 DEF Walked, Walking
  <1> QED
    BY <1>1, <1>10, <1>11, <1>12, <1>13, <1>15 DEF InvAt

-----------------------------------------------------------------------------
(* Allocation.                                                             *)

(* A new block is in no place of the tree.                                 *)
LEMMA NewBlock ==
  ASSUME TypeOK, Shape, Rooted, pc # "free", CanAlloc
  PROVE  /\ NewNode \in Node /\ tag[NewNode] = "free"
         /\ keys[NewNode] = <<>> /\ vals[NewNode] = <<>> /\ children[NewNode] = <<>>
         /\ Loose(children, NewNode)
         /\ \A n \in Node : tag[n] # "free" => n # NewNode
  <1>1. \E n \in Node : tag[n] = "free"
    BY DEF CanAlloc, Live
  <1>2. NewNode \in Node /\ tag[NewNode] = "free"
    BY <1>1 DEF NewNode
  <1>3. Loose(children, NewNode)
    BY <1>2 DEF Rooted, Loose, Live
  <1> QED
    BY <1>2, <1>3, BlockTypes

(* So it can be given any level.                                           *)
LEMMA Reserve ==
  ASSUME NEW lvl \in [Node -> Nat], InvAt(lvl), pc # "free", CanAlloc, NEW h \in Nat
  PROVE  \E l \in [Node -> Nat] :
           /\ InvAt(l) /\ l[NewNode] = h
           /\ \A n \in Node : n # NewNode => l[n] = lvl[n]
  <1> DEFINE l == [lvl EXCEPT ![NewNode] = h]
  <1>1. TypeOK /\ Shape /\ Rooted /\ OneOwner(children)
    BY DEF InvAt
  <1>2. /\ NewNode \in Node /\ tag[NewNode] = "free" /\ children[NewNode] = <<>>
        /\ Loose(children, NewNode)
        /\ \A n \in Node : tag[n] # "free" => n # NewNode
    BY <1>1, NewBlock
  <1>3. /\ l \in [Node -> Nat] /\ l[NewNode] = h
        /\ \A n \in Node : n # NewNode => l[n] = lvl[n]
    BY <1>2
  <1> HIDE DEF l
  <1>4. Levels(l, tag, children)
    <2>1. ASSUME NEW n \in Node, tag[n] = "leaf"  PROVE l[n] = 0
      BY <1>2, <1>3, <2>1 DEF InvAt, Levels
    <2>2. ASSUME NEW n \in Node, NEW x \in Range(children[n])  PROVE l[n] = l[x] + 1
      <3>1. n # NewNode
        BY <1>2, EmptyEntries
      <3>2. x # NewNode
        BY <1>2 DEF Loose
      <3>3. x \in Node
        BY <1>1, BlockTypes, Entries
      <3> QED
        BY <1>3, <3>1, <3>2, <3>3 DEF InvAt, Levels
    <2> QED
      BY <2>1, <2>2 DEF Levels
  <1>5. \A n \in Node : tag[n] # "free" => l[n] = lvl[n]
    BY <1>2, <1>3
  <1>6. Carried(l)
    <2>1. right # Null /\ right \in Node /\ tag[right] # "free" => l[right] = lvl[right]
      BY <1>5
    <2>2. root # Null /\ root \in Node => l[root] = lvl[root]
      BY <1>1, <1>5 DEF Rooted
    <2>3. pc = "split" => root # Null
      BY <1>1 DEF Rooted
    <2>4. (root # Null => root \in Node) /\ (right # Null => right \in Node)
      BY <1>1 DEF TypeOK
    <2> QED
      BY <2>1, <2>2, <2>3, <2>4 DEF InvAt, Carried
  <1>7. Walked(l)
    <2>1. root # Null => l[root] = lvl[root]
      BY <1>1, <1>5 DEF Rooted, TypeOK
    <2>2. ASSUME pc = "descend", cur # Null
          PROVE  tag[cur] # "free" /\ l[cur] + Len(path) = l[root]
      <3>1. /\ cur \in Node /\ root # Null /\ tag[cur] # "free"
            /\ lvl[cur] + Len(path) = lvl[root]
        BY <1>1, <2>2 DEF InvAt, Walked, TypeOK
      <3> QED
        BY <1>5, <2>1, <3>1
    <2>3. ASSUME Walking, NEW i \in 1 .. Len(path)  PROVE OnPath(l, path[i], i)
      <3>1. OnPath(lvl, path[i], i)
        BY <2>3 DEF InvAt, Walked
      <3>2. path[i].node \in Node
        BY <1>1, FrameTypes
      <3>3. l[path[i].node] = lvl[path[i].node]
        BY <1>5, <3>1, <3>2 DEF OnPath
      <3> QED
        BY <2>1, <3>1, <3>3 DEF OnPath
    <2> QED
      BY <2>2, <2>3 DEF InvAt, Walked
  <1>8. InvAt(l)
    BY <1>1, <1>4, <1>6, <1>7 DEF InvAt
  <1> QED
    BY <1>3, <1>8

(* insert on an empty map.                                                 *)
LEMMA AllocRootSafe ==
  ASSUME NEW lvl \in [Node -> Nat], InvAt(lvl), AllocRoot, lvl[NewNode] = 0
  PROVE  InvAt(lvl)'
  <1> DEFINE n == NewNode
  <1>1. /\ pc = "descend" /\ cur = Null /\ CanAlloc
        /\ root' = n /\ cur' = n /\ tag' = [tag EXCEPT ![n] = "leaf"]
        /\ UNCHANGED <<keys, vals, children, next, prev, pc, op, key, val, path, sep, right, ret>>
    BY DEF AllocRoot, call, split
  <1>2. TypeOK /\ Shape /\ Rooted /\ OneOwner(children) /\ Levels(lvl, tag, children)
    BY DEF InvAt
  <1>3. /\ n \in Node /\ tag[n] = "free"
        /\ keys[n] = <<>> /\ vals[n] = <<>> /\ children[n] = <<>>
        /\ Loose(children, n)
    BY <1>1, <1>2, NewBlock
  <1>4. lvl[n] = 0
    OBVIOUS
  <1> HIDE DEF n
  <1>5. /\ tag'[n] = "leaf" /\ \A m \in Node : m # n => tag'[m] = tag[m]
        /\ tag' \in [Node -> {"free", "leaf", "branch"}]
    BY <1>1, <1>2, <1>3 DEF TypeOK
  <1>6. TypeOK'
    BY <1>1, <1>2, <1>3, <1>5 DEF TypeOK
  <1>7. Shape'
    <2>1. Len(keys[n]) <= LeafCap /\ Len(keys[n]) = Len(vals[n])
      BY <1>3, Caps, SMT
    <2> QED
      BY <1>1, <1>2, <1>3, <1>5, <2>1 DEF Shape
  <1>8. OneOwner(children)'
    BY <1>1, <1>2 DEF OneOwner
  <1>9. Levels(lvl, tag, children)'
    BY <1>1, <1>2, <1>4, <1>5 DEF Levels
  <1>10. Rooted'
    <2>1. \A m \in Node : tag[m] # "free" => tag'[m] # "free"
      BY <1>5
    <2>2. \A m \in Node : Range(children[m]) \subseteq {x \in Node : tag[x] # "free"}
      BY <1>1, <1>2 DEF Rooted, Live
    <2> QED
      BY <1>1, <1>3, <1>5, <2>1, <2>2 DEF Rooted, Loose, Live
  <1>11. Carried(lvl)'
    BY <1>1 DEF InvAt, Carried
  <1>12. Walked(lvl)'
    <2>1. root = Null /\ path = <<>>
      <3>1. root = Null
        BY <1>1 DEF InvAt, Walked
      <3>2. \A i \in 1 .. Len(path) : FALSE
        BY <1>1, <3>1 DEF InvAt, Walked, Walking, OnPath
      <3>3. path \in Seq(Frame)
        BY <1>2 DEF TypeOK
      <3>4. path = <<>>
        BY <3>2, <3>3, SMT
      <3> QED
        BY <3>1, <3>4
    <2>2. Len(path) = 0 /\ lvl[n] + 0 = lvl[n] /\ \A i \in 1 .. Len(path) : FALSE
      BY <1>3, <2>1, SMT
    <2>3. n # Null
      BY <1>3, NodeAssumption
    <2> QED
      BY <1>1, <1>3, <1>5, <2>1, <2>2, <2>3 DEF Walked, Walking
  <1> QED
    BY <1>1, <1>6, <1>7, <1>8, <1>9, <1>10, <1>11, <1>12 DEF InvAt

(* The blocks of a leaf that is split.                                     *)
LEMMA SplitLeafShape ==
  ASSUME TypeOK, Shape, cur \in Node, tag[cur] = "leaf", Len(keys[cur]) >= LeafCap
  PROVE  LET lk == LeafSplitLeft(keys[cur], Slot, key)
             rk == LeafSplitRight(keys[cur], Slot, key)
             lv == LeafSplitLeft(vals[cur], Slot, val)
             rv == LeafSplitRight(vals[cur], Slot, val)
         IN  /\ lk \in Seq(Key) /\ rk \in Seq(Key) /\ lv \in Seq(Val) /\ rv \in Seq(Val)
             /\ Len(lv) = Len(lk) /\ Len(rv) = Len(rk)
             /\ Len(lk) <= LeafCap /\ Len(rk) <= LeafCap
             /\ rk[1] \in Key
  <1> DEFINE lk == LeafSplitLeft(keys[cur], Slot, key)
             rk == LeafSplitRight(keys[cur], Slot, key)
             lv == LeafSplitLeft(vals[cur], Slot, val)
             rv == LeafSplitRight(vals[cur], Slot, val)
             c  == LeftCount(keys[cur])
  <1>1. /\ keys[cur] \in Seq(Key) /\ vals[cur] \in Seq(Val) /\ Len(keys[cur]) \in Nat
        /\ Len(vals[cur]) = Len(keys[cur]) /\ Len(keys[cur]) <= LeafCap
    BY BlockTypes
  <1>2. Slot \in 0 .. Len(keys[cur]) /\ val \in Val /\ key \in Key
    BY Searched DEF Slot, TypeOK
  <1>3. Len(keys[cur]) >= 1 /\ Len(vals[cur]) >= 1 /\ Slot \in 0 .. Len(vals[cur])
    <2>1. Len(keys[cur]) >= LeafCap
      OBVIOUS
    <2> QED
      BY <1>1, <1>2, <2>1, Caps, SMT
  <1>4. /\ IsCut(Key, InsertAt(keys[cur], Slot + 1, key), lk, c, rk, Len(keys[cur]) + 1 - c)
        /\ c \in 1 .. Len(keys[cur])
    BY <1>1, <1>2, <1>3, LeafSplitParts
  <1>5. IsCut(Val, InsertAt(vals[cur], Slot + 1, val),
              lv, LeftCount(vals[cur]), rv, Len(vals[cur]) + 1 - LeftCount(vals[cur]))
    BY <1>1, <1>2, <1>3, LeafSplitParts
  <1>6. LeftCount(vals[cur]) = c
    BY <1>1 DEF LeftCount
  <1>7. /\ lk \in Seq(Key) /\ Len(lk) = c
        /\ rk \in Seq(Key) /\ Len(rk) = Len(keys[cur]) + 1 - c
    BY <1>4 DEF IsCut
  <1>8. /\ lv \in Seq(Val) /\ Len(lv) = c
        /\ rv \in Seq(Val) /\ Len(rv) = Len(keys[cur]) + 1 - c
    BY <1>1, <1>5, <1>6 DEF IsCut
  <1> HIDE DEF lk, rk, lv, rv, c
  <1>9. c \in 1 .. Len(keys[cur])
    BY <1>4
  <1>10. Len(lk) <= LeafCap /\ Len(rk) <= LeafCap /\ 1 \in 1 .. Len(rk)
    BY <1>1, <1>7, <1>9, Caps, SMT
  <1>11. rk[1] \in Key
    BY <1>7, <1>10, ElementOfSeq
  <1> QED
    BY <1>7, <1>8, <1>10, <1>11 DEF lk, rk, lv, rv

LEMMA SplitLeafSafe ==
  ASSUME NEW lvl \in [Node -> Nat], InvAt(lvl), SplitLeaf, lvl[NewNode] = 0
  PROVE  InvAt(lvl)'
  <1> DEFINE n  == NewNode
             lk == LeafSplitLeft(keys[cur], Slot, key)
             rk == LeafSplitRight(keys[cur], Slot, key)
             lv == LeafSplitLeft(vals[cur], Slot, val)
             rv == LeafSplitRight(vals[cur], Slot, val)
  <1>1. /\ pc = "descend" /\ cur # Null /\ tag[cur] = "leaf" /\ CanAlloc
        /\ Len(keys[cur]) >= LeafCap
        /\ tag' = [tag EXCEPT ![n] = "leaf"]
        /\ keys' = [keys EXCEPT ![cur] = lk, ![n] = rk]
        /\ vals' = [vals EXCEPT ![cur] = lv, ![n] = rv]
        /\ next' = [next EXCEPT ![cur] = n, ![n] = next[cur]]
        /\ prev' = [m \in Node |-> IF m = n THEN cur ELSE IF m = next[cur] THEN n ELSE prev[m]]
        /\ right' = n /\ sep' = rk[1] /\ pc' = "split" /\ cur' = Null
        /\ UNCHANGED <<root, children, op, key, val, path, ret>>
    BY DEF SplitLeaf, AtLeaf, call
  <1>2. /\ TypeOK /\ Shape /\ Rooted /\ OneOwner(children) /\ Levels(lvl, tag, children)
        /\ cur \in Node
    BY <1>1 DEF InvAt, TypeOK
  <1>3. /\ n \in Node /\ tag[n] = "free" /\ children[n] = <<>>
        /\ Loose(children, n)
        /\ \A m \in Node : tag[m] # "free" => m # n
    BY <1>1, <1>2, NewBlock
  <1>4. /\ lk \in Seq(Key) /\ rk \in Seq(Key) /\ lv \in Seq(Val) /\ rv \in Seq(Val)
        /\ Len(lv) = Len(lk) /\ Len(rv) = Len(rk)
        /\ Len(lk) <= LeafCap /\ Len(rk) <= LeafCap
        /\ rk[1] \in Key
    BY <1>1, <1>2, SplitLeafShape
  <1>5. lvl[n] = 0
    OBVIOUS
  <1>6. /\ cur # n /\ children[cur] = <<>>
        /\ root # Null /\ root \in Node /\ tag[root] # "free"
        /\ lvl[cur] = 0 /\ lvl[cur] + Len(path) = lvl[root]
    BY <1>1, <1>2, <1>3, BlockTypes DEF InvAt, TypeOK, Levels, Walked, Rooted
  <1> HIDE DEF n, lk, rk, lv, rv
  <1>7. /\ tag' \in [Node -> {"free", "leaf", "branch"}]
        /\ keys' \in [Node -> Seq(Key)] /\ vals' \in [Node -> Seq(Val)]
    BY <1>1, <1>2, <1>3, <1>4 DEF TypeOK
  <1>8. next' \in [Node -> Node \cup {Null}] /\ prev' \in [Node -> Node \cup {Null}]
    BY <1>1, <1>2, <1>3 DEF TypeOK
  <1>9. /\ tag'[n] = "leaf" /\ keys'[n] = rk /\ vals'[n] = rv
        /\ tag'[cur] = "leaf" /\ keys'[cur] = lk /\ vals'[cur] = lv
        /\ \A m \in Node : m # n => tag'[m] = tag[m]
        /\ \A m \in Node : m # n /\ m # cur => keys'[m] = keys[m] /\ vals'[m] = vals[m]
    BY <1>1, <1>2, <1>3, <1>6 DEF TypeOK
  <1>10. TypeOK'
    BY <1>1, <1>2, <1>3, <1>4, <1>7, <1>8 DEF TypeOK, PCs
  <1>11. Shape'
    <2> SUFFICES ASSUME NEW m \in Node
                 PROVE  \/ tag'[m] = "free" /\ keys'[m] = <<>> /\ vals'[m] = <<>> /\ children'[m] = <<>>
                        \/ /\ tag'[m] = "leaf" /\ children'[m] = <<>>
                           /\ Len(vals'[m]) = Len(keys'[m]) /\ Len(keys'[m]) <= LeafCap
                        \/ /\ tag'[m] = "branch" /\ vals'[m] = <<>>
                           /\ Len(children'[m]) = Len(keys'[m]) + 1 /\ Len(keys'[m]) <= BranchCap
      BY DEF Shape
    <2>1. CASE m = n
      BY <1>1, <1>3, <1>4, <1>9, <2>1
    <2>2. CASE m = cur
      BY <1>1, <1>4, <1>6, <1>9, <2>2
    <2>3. CASE m # n /\ m # cur
      <3>1. tag'[m] = tag[m] /\ keys'[m] = keys[m] /\ vals'[m] = vals[m] /\ children'[m] = children[m]
        BY <1>1, <1>9, <2>3
      <3> QED
        BY <1>2, <3>1, Untouched
    <2> QED
      BY <2>1, <2>2, <2>3
  <1>12. OneOwner(children)'
    BY <1>1, <1>2 DEF OneOwner
  <1>13. Levels(lvl, tag, children)'
    BY <1>1, <1>2, <1>5, <1>9 DEF Levels
  <1>14. Rooted'
    <2>1. \A m \in Node : tag[m] # "free" => tag'[m] # "free"
      BY <1>9
    <2>2. \A m \in Node : Range(children[m]) \subseteq {x \in Node : tag[x] # "free"}
      BY <1>1, <1>2 DEF Rooted, Live
    <2> QED
      BY <1>1, <1>2, <1>6, <2>1, <2>2 DEF Rooted, Loose, Live
  <1>15. Carried(lvl)'
    <2>1. lvl[n] + Len(path) = lvl[root] /\ n # root /\ n # Null
      BY <1>3, <1>5, <1>6, NodeAssumption
    <2> QED
      BY <1>1, <1>3, <1>9, <2>1 DEF Carried, Loose
  <1>16. Walked(lvl)'
    <2>1. ASSUME NEW i \in 1 .. Len(path)  PROVE OnPath(lvl, path[i], i)'
      <3>1. OnPath(lvl, path[i], i)
        BY <1>1 DEF InvAt, Walked, Walking
      <3>2. path[i].node \in Node
        BY <1>2, FrameTypes
      <3>3. tag'[path[i].node] = tag[path[i].node]
        BY <1>3, <1>9, <3>1, <3>2 DEF OnPath
      <3> QED
        BY <1>1, <3>1, <3>3 DEF OnPath
    <2> QED
      BY <1>1, <2>1 DEF Walked, Walking
  <1> QED
    BY <1>1, <1>10, <1>11, <1>12, <1>13, <1>14, <1>15, <1>16 DEF InvAt

-----------------------------------------------------------------------------
(* The way back up with a split.                                           *)

LEMMA TopFrame ==
  ASSUME TypeOK, path # <<>>
  PROVE  /\ Len(path) \in Nat /\ Len(path) >= 1 /\ Len(path) \in 1 .. Len(path)
         /\ Top = path[Len(path)] /\ Parent \in Node /\ Top.pos \in Nat
         /\ Front(path) \in Seq(Frame) /\ Len(Front(path)) = Len(path) - 1
         /\ \A i \in 1 .. Len(path) - 1 : Front(path)[i] = path[i] /\ i \in 1 .. Len(path)
  <1>1. path \in Seq(Frame)
    BY DEF TypeOK
  <1>2. Len(path) \in Nat /\ Len(path) >= 1 /\ Len(path) \in 1 .. Len(path)
    BY <1>1, SMT
  <1>3. /\ Front(path) \in Seq(Frame) /\ Len(Front(path)) = Len(path) - 1
        /\ \A i \in 1 .. Len(path) - 1 : Front(path)[i] = path[i]
        /\ Top = path[Len(path)] /\ Top \in Frame
    BY <1>1, <1>2, Ends DEF Top
  <1>4. \A i \in 1 .. Len(path) - 1 : i \in 1 .. Len(path)
    BY <1>2, SMT
  <1>5. Parent \in Node /\ Top.pos \in Nat
    BY <1>3 DEF Frame, Parent
  <1> QED
    BY <1>2, <1>3, <1>4, <1>5

(* The branch of the top frame.                                            *)
LEMMA ParentFacts ==
  ASSUME NEW lvl \in [Node -> Nat], InvAt(lvl), Walking, path # <<>>
  PROVE  /\ Parent \in Node /\ tag[Parent] = "branch"
         /\ keys[Parent] \in Seq(Key) /\ children[Parent] \in Seq(Node)
         /\ Len(keys[Parent]) \in Nat /\ vals[Parent] = <<>>
         /\ Len(children[Parent]) = Len(keys[Parent]) + 1
         /\ Len(keys[Parent]) <= BranchCap
         /\ Top.pos \in 1 .. Len(keys[Parent]) + 1
         /\ root \in Node /\ tag[root] # "free" /\ Loose(children, root)
         /\ lvl[Parent] + Len(path) = lvl[root] + 1
         /\ \A i \in 1 .. Len(path) - 1 :
              /\ path[i].node \in Node /\ tag[path[i].node] = "branch"
              /\ lvl[path[i].node] > lvl[Parent]
  <1>1. TypeOK /\ Shape /\ Rooted
    BY DEF InvAt
  <1>2. /\ Len(path) \in Nat /\ Len(path) >= 1 /\ Len(path) \in 1 .. Len(path)
        /\ Top = path[Len(path)] /\ Parent \in Node
        /\ \A i \in 1 .. Len(path) - 1 : i \in 1 .. Len(path)
    BY <1>1, TopFrame
  <1>3. \A i \in 1 .. Len(path) : OnPath(lvl, path[i], i)
    BY DEF InvAt, Walked
  <1>4. /\ tag[Parent] = "branch" /\ Top.pos \in 1 .. Len(children[Parent]) /\ root # Null
        /\ lvl[Parent] + Len(path) = lvl[root] + 1
    BY <1>2, <1>3 DEF OnPath, Parent
  <1>5. root \in Node /\ tag[root] # "free" /\ Loose(children, root)
    BY <1>1, <1>4 DEF TypeOK, Rooted
  <1>6. ASSUME NEW i \in 1 .. Len(path) - 1
        PROVE  /\ path[i].node \in Node /\ tag[path[i].node] = "branch"
               /\ lvl[path[i].node] > lvl[Parent]
    <2>1. path[i].node \in Node
      BY <1>1, <1>2, FrameTypes
    <2>2. tag[path[i].node] = "branch" /\ lvl[path[i].node] + i = lvl[root] + 1
      BY <1>2, <1>3 DEF OnPath
    <2>3. lvl[path[i].node] \in Nat /\ lvl[Parent] \in Nat /\ lvl[root] \in Nat
      BY <1>2, <1>5, <2>1
    <2>4. Len(path) \in Nat /\ lvl[Parent] + Len(path) = lvl[root] + 1
      BY <1>2, <1>4
    <2>5. lvl[path[i].node] > lvl[Parent]
      BY <2>2, <2>3, <2>4, SMT
    <2> QED
      BY <2>1, <2>2, <2>5
  <1>7. /\ keys[Parent] \in Seq(Key) /\ children[Parent] \in Seq(Node)
        /\ Len(keys[Parent]) \in Nat /\ vals[Parent] = <<>>
        /\ Len(children[Parent]) = Len(keys[Parent]) + 1
        /\ Len(keys[Parent]) <= BranchCap
    BY <1>1, <1>2, <1>4, BlockTypes
  <1> QED
    BY <1>2, <1>4, <1>5, <1>6, <1>7

(* The right half fits below the top frame's branch.                       *)
LEMMA SplitFacts ==
  ASSUME NEW lvl \in [Node -> Nat], InvAt(lvl), pc = "split"
  PROVE  /\ right \in Node /\ tag[right] # "free" /\ right # root
         /\ Loose(children, right) /\ root \in Node
         /\ lvl[right] + Len(path) = lvl[root]
         /\ path # <<>> => lvl[Parent] = lvl[right] + 1
  <1>1. /\ right # Null /\ tag[right] # "free" /\ right # root
        /\ Loose(children, right) /\ lvl[right] + Len(path) = lvl[root]
    BY DEF InvAt, Carried
  <1>2. right \in Node /\ root \in Node
    BY <1>1 DEF InvAt, TypeOK, Rooted
  <1>3. ASSUME path # <<>>  PROVE lvl[Parent] = lvl[right] + 1
    <2>1. Parent \in Node /\ lvl[Parent] + Len(path) = lvl[root] + 1
      BY <1>3, ParentFacts DEF Walking
    <2>2. lvl[Parent] \in Nat /\ lvl[right] \in Nat /\ lvl[root] \in Nat /\ Len(path) \in Nat
      BY <1>2, <1>3, <2>1, TopFrame DEF InvAt
    <2>3. lvl[right] + Len(path) = lvl[root]
      BY <1>1
    <2> QED
      BY <2>1, <2>2, <2>3, SMT
  <1> QED
    BY <1>1, <1>2, <1>3

LEMMA InsertIntoBranchSafe ==
  ASSUME NEW lvl \in [Node -> Nat], InvAt(lvl), InsertIntoBranch
  PROVE  InvAt(lvl)'
  <1> DEFINE p  == Parent
             ks == InsertAt(keys[p], Top.pos, sep)
             cs == InsertAt(children[p], Top.pos + 1, right)
  <1>1. /\ pc = "split" /\ path # <<>> /\ ~(Len(keys[p]) >= BranchCap)
        /\ keys' = [keys EXCEPT ![p] = ks]
        /\ children' = [children EXCEPT ![p] = cs]
        /\ Leave("idle", ret)
        /\ UNCHANGED <<root, tag, vals, next, prev>>
    BY DEF InsertIntoBranch, BranchFull, Return
  <1>2. /\ TypeOK /\ Shape /\ Rooted /\ OneOwner(children) /\ Levels(lvl, tag, children)
    BY DEF InvAt
  <1>3. /\ p \in Node /\ tag[p] = "branch"
        /\ keys[p] \in Seq(Key) /\ children[p] \in Seq(Node)
        /\ Len(keys[p]) \in Nat /\ vals[p] = <<>>
        /\ Len(children[p]) = Len(keys[p]) + 1 /\ Len(keys[p]) <= BranchCap
        /\ Top.pos \in 1 .. Len(keys[p]) + 1
    BY <1>1, ParentFacts DEF Walking
  <1>4. /\ right \in Node /\ tag[right] # "free" /\ right # root
        /\ Loose(children, right) /\ lvl[p] = lvl[right] + 1
    BY <1>1, SplitFacts
  <1>5. sep \in Key
    BY <1>2 DEF TypeOK
  <1>6. ks \in Seq(Key) /\ Len(ks) = Len(keys[p]) + 1
    BY <1>3, <1>5, InsertedType
  <1>7. Top.pos + 1 \in 1 .. Len(children[p]) + 1
    BY <1>3, SMT
  <1>8. cs \in Seq(Node) /\ Len(cs) = Len(children[p]) + 1
    BY <1>3, <1>4, <1>7, InsertedType
  <1>9. Adds(children[p], right, cs)
    BY <1>3, <1>4, <1>7, InsertAdds
  <1> HIDE DEF p, ks, cs
  <1>10. /\ keys' \in [Node -> Seq(Key)] /\ children' \in [Node -> Seq(Node)]
         /\ keys'[p] = ks /\ children'[p] = cs
         /\ \A n \in Node : n # p => keys'[n] = keys[n] /\ children'[n] = children[n]
    BY <1>1, <1>2, <1>3, <1>6, <1>8 DEF TypeOK
  <1>11. TypeOK'
    <2>1. "idle" \in PCs /\ ret \in Val \cup {None} /\ HeapTypes'
      BY <1>1, <1>2, <1>10 DEF PCs, TypeOK, HeapTypes
    <2> QED
      BY <1>1, <2>1, LeaveTypes
  <1>12. Shape'
    <2>1. Len(ks) <= BranchCap
      <3>1. ~(Len(keys[p]) >= BranchCap)
        BY <1>1
      <3> QED
        BY <1>3, <1>6, <3>1, Caps, SMT
    <2>2. Len(cs) = Len(ks) + 1
      BY <1>3, <1>6, <1>8
    <2> QED
      BY <1>1, <1>2, <1>3, <1>10, <2>1, <2>2 DEF Shape
  <1>13. OneOwner(children')
    BY <1>2, <1>3, <1>4, <1>9, <1>10, OwnersAdd DEF Elsewhere
  <1>14. \A n \in Node : \A x \in Range(children'[n]) :
           x \in Range(children[n]) \/ (n = p /\ x = right)
    BY <1>9, <1>10 DEF Adds
  <1>15. Levels(lvl, tag', children')
    BY <1>1, <1>2, <1>4, <1>14 DEF Levels
  <1>16. Rooted'
    BY <1>1, <1>2, <1>4, <1>14 DEF Rooted, Loose, Live, Leave
  <1>17. Carried(lvl)' /\ Walked(lvl)' /\ pc' # "free"
    BY <1>1 DEF Carried, Walked, Walking, Leave
  <1> QED
    BY <1>11, <1>12, <1>13, <1>15, <1>16, <1>17 DEF InvAt, OneOwner, Levels

LEMMA BranchInsertAndSplitSafe ==
  ASSUME NEW lvl \in [Node -> Nat], InvAt(lvl), BranchInsertAndSplit,
         lvl[NewNode] = lvl[Parent]
  PROVE  InvAt(lvl)'
  <1> DEFINE n  == NewNode
             p  == Parent
             pos == Top.pos
             s  == BranchSplit(keys[p], children[p], pos - 1, sep, right)
             lk == s.lkeys
             rk == s.rkeys
             lc == s.lchilds
             rc == s.rchilds
             k  == s.promote
             cs == InsertAt(children[p], pos + 1, right)
             c1 == [children EXCEPT ![p] = cs]
  <1>1. /\ pc = "split" /\ path # <<>> /\ Len(keys[p]) >= BranchCap /\ CanAlloc
        /\ tag' = [tag EXCEPT ![n] = "branch"]
        /\ keys' = [keys EXCEPT ![p] = lk, ![n] = rk]
        /\ children' = [children EXCEPT ![p] = lc, ![n] = rc]
        /\ sep' = k /\ right' = n /\ path' = Front(path)
        /\ UNCHANGED <<root, vals, next, prev, pc, op, key, val, cur, ret>>
    BY DEF BranchInsertAndSplit, BranchFull, PopPath, call
  <1>2. /\ TypeOK /\ Shape /\ Rooted /\ OneOwner(children) /\ Levels(lvl, tag, children)
    BY DEF InvAt
  <1>3. /\ p \in Node /\ tag[p] = "branch"
        /\ keys[p] \in Seq(Key) /\ children[p] \in Seq(Node)
        /\ Len(keys[p]) \in Nat /\ vals[p] = <<>>
        /\ Len(children[p]) = Len(keys[p]) + 1 /\ Len(keys[p]) <= BranchCap
        /\ pos \in 1 .. Len(keys[p]) + 1
        /\ root \in Node /\ tag[root] # "free" /\ Loose(children, root)
        /\ lvl[p] + Len(path) = lvl[root] + 1
        /\ \A i \in 1 .. Len(path) - 1 :
              /\ path[i].node \in Node /\ tag[path[i].node] = "branch"
              /\ lvl[path[i].node] > lvl[p]
    BY <1>1, ParentFacts DEF Walking
  <1>4. /\ right \in Node /\ tag[right] # "free" /\ right # root
        /\ Loose(children, right) /\ lvl[p] = lvl[right] + 1
    BY <1>1, SplitFacts
  <1>5. /\ n \in Node /\ tag[n] = "free" /\ vals[n] = <<>> /\ children[n] = <<>>
        /\ Loose(children, n) /\ n # p /\ n # right /\ n # root
    BY <1>1, <1>2, <1>3, <1>4, NewBlock
  <1>6. lvl[n] = lvl[p]
    OBVIOUS
  <1>7. sep \in Key
    BY <1>2 DEF TypeOK
  <1>8. pos - 1 \in 0 .. Len(keys[p]) /\ Len(keys[p]) >= 1
        /\ pos + 1 \in 1 .. Len(children[p]) + 1 /\ pos - 1 + 2 = pos + 1
    <2> DEFINE m == Len(keys[p])
               l == Len(children[p])
    <2>1. m >= BranchCap /\ m \in Nat /\ l = m + 1 /\ pos \in 1 .. m + 1
      BY <1>1, <1>3
    <2> HIDE DEF m, l
    <2>2. pos - 1 \in 0 .. m /\ m >= 1 /\ pos + 1 \in 1 .. l + 1 /\ pos - 1 + 2 = pos + 1
      BY <2>1, Caps, SMT
    <2> QED
      BY <2>2 DEF m, l
  <1>9. /\ BranchSplitCuts(keys[p], children[p], pos - 1, sep, right)
        /\ k \in Key /\ lk \in Seq(Key) /\ rk \in Seq(Key)
        /\ lc \in Seq(Node) /\ rc \in Seq(Node)
        /\ Len(lk) = LeftKeys(keys[p]) /\ LeftKeys(keys[p]) \in 1 .. Len(keys[p])
        /\ Len(rk) = Len(keys[p]) - LeftKeys(keys[p])
    <2>1. keys[p] \in Seq(Key) /\ Len(keys[p]) >= 1 /\ children[p] \in Seq(Node)
          /\ Len(children[p]) = Len(keys[p]) + 1
      BY <1>3, <1>8
    <2>2. pos - 1 \in 0 .. Len(keys[p]) /\ right \in Node /\ sep \in Key
      BY <1>4, <1>7, <1>8
    <2> HIDE DEF p, pos
    <2>3. BranchSplitCuts(keys[p], children[p], pos - 1, sep, right)
      BY <2>1, <2>2, BranchSplitIsInsertAndCut
    <2>4. BranchHalves(Key, Node, keys[p], s)
      BY <2>1, <2>2, BranchSplitIsInsertAndCut
    <2> QED
      BY <2>3, <2>4 DEF BranchHalves
  <1>10. /\ lc \o rc = cs /\ Len(lc) = Len(lk) + 1 /\ Len(rc) = Len(rk) + 1
    BY <1>8, <1>9 DEF BranchSplitCuts
  <1>11. cs \in Seq(Node) /\ Adds(children[p], right, cs)
    BY <1>3, <1>4, <1>8, InsertAdds, InsertedType
  <1>12. c1[p] = cs /\ \A m \in Node : m # p => c1[m] = children[m]
    BY <1>2, <1>3 DEF TypeOK
  <1> HIDE DEF n, p, pos, s, lk, rk, lc, rc, k, cs, c1
  <1>13. Joins(lc, rc, cs)
    BY <1>9, <1>10, ConcatJoins
  <1>14. Len(lk) <= BranchCap /\ Len(rk) <= BranchCap
    <2> DEFINE q == LeftKeys(keys[p])
    <2>1. /\ Len(lk) = q /\ q \in 1 .. Len(keys[p]) /\ Len(rk) = Len(keys[p]) - q
          /\ Len(keys[p]) \in Nat /\ Len(keys[p]) <= BranchCap
      BY <1>3, <1>9
    <2> HIDE DEF q
    <2> QED
      BY <2>1, Caps, SMT
  <1>15. /\ tag' \in [Node -> {"free", "leaf", "branch"}]
         /\ keys' \in [Node -> Seq(Key)] /\ children' \in [Node -> Seq(Node)]
    BY <1>1, <1>2, <1>3, <1>5, <1>9 DEF TypeOK
  <1>16. /\ tag'[n] = "branch" /\ keys'[n] = rk /\ children'[n] = rc
         /\ tag'[p] = "branch" /\ keys'[p] = lk /\ children'[p] = lc
         /\ \A m \in Node : m # n => tag'[m] = tag[m]
         /\ \A m \in Node : m # n /\ m # p => keys'[m] = keys[m] /\ children'[m] = children[m]
    BY <1>1, <1>2, <1>3, <1>5 DEF TypeOK
  <1>17. /\ Len(path) \in Nat /\ Len(path) >= 1
         /\ path' \in Seq(Frame) /\ Len(path') = Len(path) - 1
         /\ \A i \in 1 .. Len(path) - 1 : path'[i] = path[i] /\ i \in 1 .. Len(path)
    BY <1>1, <1>2, TopFrame
  <1>18. TypeOK'
    BY <1>1, <1>2, <1>5, <1>9, <1>15, <1>17 DEF TypeOK
  <1>19. Shape'
    <2> SUFFICES ASSUME NEW m \in Node
                 PROVE  \/ tag'[m] = "free" /\ keys'[m] = <<>> /\ vals'[m] = <<>> /\ children'[m] = <<>>
                        \/ /\ tag'[m] = "leaf" /\ children'[m] = <<>>
                           /\ Len(vals'[m]) = Len(keys'[m]) /\ Len(keys'[m]) <= LeafCap
                        \/ /\ tag'[m] = "branch" /\ vals'[m] = <<>>
                           /\ Len(children'[m]) = Len(keys'[m]) + 1 /\ Len(keys'[m]) <= BranchCap
      BY DEF Shape
    <2>1. CASE m = n
      BY <1>1, <1>5, <1>10, <1>14, <1>16, <2>1
    <2>2. CASE m = p
      BY <1>1, <1>3, <1>10, <1>14, <1>16, <2>2
    <2>3. CASE m # n /\ m # p
      BY <1>1, <1>2, <1>16, <2>3 DEF Shape
    <2> QED
      BY <2>1, <2>2, <2>3
  <1>20. OneOwner(children')
    <2>1. OneOwner(c1)
      BY <1>2, <1>3, <1>4, <1>11, <1>12, OwnersAdd DEF Elsewhere
    <2>2. \A x : x \notin Range(c1[n])
      BY <1>5, <1>12, EmptyEntries
    <2>3. Joins(children'[p], children'[n], c1[p])
      BY <1>12, <1>13, <1>16
    <2>4. Elsewhere(c1, children', {p, n})
      BY <1>12, <1>16 DEF Elsewhere
    <2> QED
      BY <1>3, <1>5, <2>1, <2>2, <2>3, <2>4, OwnersCut
  <1>21. \A m \in Node : \A x \in Range(children'[m]) :
            \/ x \in Range(children[m])
            \/ (m = p \/ m = n) /\ (x \in Range(children[p]) \/ x = right)
    BY <1>11, <1>13, <1>16 DEF Adds, Joins
  <1>22. Levels(lvl, tag', children')
    <2>1. ASSUME NEW m \in Node, NEW x \in Range(children'[m])  PROVE lvl[m] = lvl[x] + 1
      BY <1>2, <1>3, <1>4, <1>6, <1>21 DEF Levels
    <2>2. \A m \in Node : tag'[m] = "leaf" => lvl[m] = 0
      BY <1>2, <1>16 DEF Levels
    <2> QED
      BY <2>1, <2>2 DEF Levels
  <1>23. Loose(children', n) /\ Loose(children', root)
    BY <1>3, <1>4, <1>5, <1>21 DEF Loose
  <1>24. Rooted'
    <2>1. \A m \in Node : tag[m] # "free" => tag'[m] # "free"
      BY <1>16
    <2>2. \A m \in Node : \A x \in Range(children'[m]) : x \in Node /\ tag[x] # "free"
      BY <1>1, <1>2, <1>3, <1>4, <1>21 DEF Rooted, Live
    <2>3. \A m \in Node : Range(children'[m]) \subseteq Live'
      BY <2>1, <2>2 DEF Live
    <2>4. root' = root /\ root # Null /\ tag'[root] # "free" /\ pc' = "split"
      BY <1>1, <1>3, <2>1, NodeAssumption
    <2> QED
      BY <1>23, <2>3, <2>4 DEF Rooted
  <1>25. Carried(lvl)'
    <2>1. lvl[n] \in Nat /\ lvl[root] \in Nat /\ lvl[n] + Len(path) = lvl[root] + 1
      BY <1>3, <1>5, <1>6
    <2>2. Len(path) \in Nat /\ Len(path') = Len(path) - 1
      BY <1>17
    <2>3. lvl[n] + Len(path') = lvl[root]
      BY <2>1, <2>2, SMT
    <2>4. n # Null
      BY <1>5, NodeAssumption
    <2> QED
      BY <1>1, <1>5, <1>16, <1>23, <2>3, <2>4 DEF Carried
  <1>26. Walked(lvl)'
    <2>1. ASSUME NEW i \in 1 .. Len(path) - 1  PROVE OnPath(lvl, path[i], i)'
      <3>1. OnPath(lvl, path[i], i)
        BY <1>1, <1>17 DEF InvAt, Walked, Walking
      <3>2. path'[i] = path[i]
        BY <1>17
      <3>3. path[i].node \in Node /\ path[i].node # p /\ path[i].node # n
        <4>1. path[i].node \in Node /\ lvl[path[i].node] > lvl[p] /\ lvl[p] \in Nat
          BY <1>3
        <4> QED
          BY <1>6, <4>1, SMT
      <3> QED
        BY <1>1, <1>16, <3>1, <3>2, <3>3 DEF OnPath
    <2>2. cur = Null
      BY <1>1 DEF InvAt, Walked
    <2> QED
      BY <1>1, <1>17, <2>1, <2>2 DEF Walked, Walking
  <1> QED
    BY <1>1, <1>18, <1>19, <1>20, <1>22, <1>24, <1>25, <1>26 DEF InvAt, OneOwner, Levels

LEMMA NewRootSafe ==
  ASSUME NEW lvl \in [Node -> Nat], InvAt(lvl), NewRoot, lvl[NewNode] = lvl[root] + 1
  PROVE  InvAt(lvl)'
  <1> DEFINE n  == NewNode
             rs == <<root>>
             cs == <<root, right>>
             c1 == [children EXCEPT ![n] = rs]
  <1>1. /\ pc = "split" /\ path = <<>> /\ CanAlloc
        /\ tag' = [tag EXCEPT ![n] = "branch"]
        /\ keys' = [keys EXCEPT ![n] = <<sep>>]
        /\ children' = [children EXCEPT ![n] = cs]
        /\ root' = n
        /\ Leave("idle", ret)
        /\ UNCHANGED <<vals, next, prev>>
    BY DEF NewRoot, Return
  <1>2. /\ TypeOK /\ Shape /\ Rooted /\ OneOwner(children) /\ Levels(lvl, tag, children)
    BY DEF InvAt
  <1>3. /\ right \in Node /\ tag[right] # "free" /\ right # root
        /\ Loose(children, right) /\ root \in Node /\ tag[root] # "free"
        /\ Loose(children, root) /\ lvl[right] + Len(path) = lvl[root]
    BY <1>1, <1>2, SplitFacts DEF Rooted
  <1>4. lvl[right] = lvl[root]
    <2>1. Len(path) = 0 /\ lvl[right] \in Nat
      BY <1>1, <1>3, SMT
    <2> QED
      BY <1>3, <2>1, SMT
  <1>5. /\ n \in Node /\ vals[n] = <<>> /\ children[n] = <<>>
        /\ Loose(children, n) /\ n # right /\ n # root
    BY <1>1, <1>2, <1>3, NewBlock
  <1>6. lvl[n] = lvl[root] + 1
    OBVIOUS
  <1>7. sep \in Key /\ <<sep>> \in Seq(Key) /\ Len(<<sep>>) = 1
    BY <1>2, Single DEF TypeOK
  <1>8. rs \in Seq(Node) /\ IsInjective(rs) /\ \A x : x \in Range(rs) <=> x = root
    BY <1>3, Single, SingleEntry
  <1>9. cs \in Seq(Node) /\ Len(cs) = 2 /\ cs = Append(rs, right)
    BY <1>3, SMT
  <1> HIDE DEF n, rs, cs
  <1>10. Adds(rs, right, cs)
    BY <1>3, <1>8, <1>9, PushAdds
  <1>11. c1[n] = rs /\ \A m \in Node : m # n => c1[m] = children[m]
    BY <1>2, <1>5 DEF TypeOK
  <1> HIDE DEF c1
  <1>12. /\ tag' \in [Node -> {"free", "leaf", "branch"}]
         /\ keys' \in [Node -> Seq(Key)] /\ children' \in [Node -> Seq(Node)]
    BY <1>1, <1>2, <1>5, <1>7, <1>9 DEF TypeOK
  <1>13. /\ tag'[n] = "branch" /\ keys'[n] = <<sep>> /\ children'[n] = cs
         /\ \A m \in Node : m # n => /\ tag'[m] = tag[m] /\ keys'[m] = keys[m]
                                     /\ children'[m] = children[m]
    BY <1>1, <1>2, <1>5 DEF TypeOK
  <1>14. TypeOK'
    <2>1. "idle" \in PCs /\ ret \in Val \cup {None} /\ HeapTypes'
      BY <1>1, <1>2, <1>5, <1>12 DEF PCs, TypeOK, HeapTypes
    <2> QED
      BY <1>1, <2>1, LeaveTypes
  <1>15. Shape'
    <2>1. Len(<<sep>>) <= BranchCap /\ Len(cs) = Len(<<sep>>) + 1
      BY <1>7, <1>9, Caps, SMT
    <2> SUFFICES ASSUME NEW m \in Node
                 PROVE  \/ tag'[m] = "free" /\ keys'[m] = <<>> /\ vals'[m] = <<>> /\ children'[m] = <<>>
                        \/ /\ tag'[m] = "leaf" /\ children'[m] = <<>>
                           /\ Len(vals'[m]) = Len(keys'[m]) /\ Len(keys'[m]) <= LeafCap
                        \/ /\ tag'[m] = "branch" /\ vals'[m] = <<>>
                           /\ Len(children'[m]) = Len(keys'[m]) + 1 /\ Len(keys'[m]) <= BranchCap
      BY DEF Shape
    <2>2. CASE m = n
      BY <1>1, <1>5, <1>13, <2>1, <2>2
    <2>3. CASE m # n
      <3>1. tag'[m] = tag[m] /\ keys'[m] = keys[m] /\ vals'[m] = vals[m] /\ children'[m] = children[m]
        BY <1>1, <1>13, <2>3
      <3> QED
        BY <1>2, <3>1, Untouched
    <2> QED
      BY <2>2, <2>3
  <1>16. \A m \in Node : \A x \in Range(children'[m]) :
           x \in Range(children[m]) \/ (m = n /\ (x = root \/ x = right))
    BY <1>8, <1>10, <1>13 DEF Adds
  <1>17. OneOwner(children')
    <2>1. Adds(children[n], root, c1[n])
      BY <1>5, <1>8, <1>11, EmptyEntries DEF Adds
    <2>2. OneOwner(c1)
      BY <1>2, <1>3, <1>5, <1>11, <2>1, OwnersAdd DEF Elsewhere
    <2>3. Loose(c1, right)
      BY <1>3, <1>8, <1>11 DEF Loose
    <2>4. Adds(c1[n], right, children'[n]) /\ Elsewhere(c1, children', {n})
      BY <1>10, <1>11, <1>13 DEF Elsewhere
    <2> QED
      BY <1>5, <2>2, <2>3, <2>4, OwnersAdd
  <1>18. Levels(lvl, tag', children')
    <2>1. ASSUME NEW m \in Node, NEW x \in Range(children'[m])  PROVE lvl[m] = lvl[x] + 1
      BY <1>2, <1>4, <1>6, <1>16 DEF Levels
    <2>2. \A m \in Node : tag'[m] = "leaf" => lvl[m] = 0
      BY <1>2, <1>13 DEF Levels
    <2> QED
      BY <2>1, <2>2 DEF Levels
  <1>19. Rooted'
    <2>1. \A m \in Node : tag[m] # "free" => tag'[m] # "free"
      BY <1>13
    <2>2. \A m \in Node : \A x \in Range(children'[m]) : x \in Node /\ tag[x] # "free"
      BY <1>1, <1>2, <1>3, <1>16 DEF Rooted, Live
    <2>3. Loose(children', n)
      BY <1>5, <1>16 DEF Loose
    <2> QED
      BY <1>1, <1>13, <2>1, <2>2, <2>3 DEF Rooted, Live, Leave
  <1>20. Carried(lvl)' /\ Walked(lvl)' /\ pc' # "free"
    BY <1>1 DEF Carried, Walked, Walking, Leave
  <1> QED
    BY <1>14, <1>15, <1>17, <1>18, <1>19, <1>20 DEF InvAt, OneOwner, Levels

-----------------------------------------------------------------------------
(* remove: the leaf, and the repair of one branch.                         *)

LEMMA RemoveHitSafe ==
  ASSUME NEW lvl \in [Node -> Nat], InvAt(lvl), RemoveHit
  PROVE  InvAt(lvl)'
  <1> DEFINE ks == RemoveAt(keys[cur], Slot)
             vs == RemoveAt(vals[cur], Slot)
  <1>1. /\ pc = "descend" /\ cur # Null /\ tag[cur] = "leaf" /\ Hit
        /\ keys' = [keys EXCEPT ![cur] = ks] /\ vals' = [vals EXCEPT ![cur] = vs]
        /\ ret' = vals[cur][Slot] /\ pc' = "fix" /\ cur' = Null
        /\ UNCHANGED <<root, tag, children, next, prev, op, key, val, path, sep, right>>
    BY DEF RemoveHit, AtLeaf, call, split
  <1>2. /\ TypeOK /\ Shape /\ Rooted /\ OneOwner(children) /\ Levels(lvl, tag, children)
        /\ cur \in Node
    BY <1>1 DEF InvAt, TypeOK
  <1>3. /\ keys[cur] \in Seq(Key) /\ vals[cur] \in Seq(Val) /\ Len(keys[cur]) \in Nat
        /\ Len(vals[cur]) = Len(keys[cur]) /\ Len(keys[cur]) <= LeafCap
        /\ children[cur] = <<>>
    BY <1>1, <1>2, BlockTypes
  <1>4. Slot \in 1 .. Len(keys[cur]) /\ Slot \in 1 .. Len(vals[cur])
    BY <1>1, <1>2, <1>3, Searched DEF Hit, Slot
  <1>5. ks \in Seq(Key) /\ Len(ks) = Len(keys[cur]) - 1
    BY <1>3, <1>4, Removed
  <1>6. vs \in Seq(Val) /\ Len(vs) = Len(vals[cur]) - 1
    BY <1>3, <1>4, Removed
  <1>7. ret' \in Val \cup {None}
    BY <1>1, <1>2, SlotValue
  <1> HIDE DEF ks, vs
  <1>8. /\ keys' \in [Node -> Seq(Key)] /\ vals' \in [Node -> Seq(Val)]
        /\ keys'[cur] = ks /\ vals'[cur] = vs
        /\ \A n \in Node : n # cur => keys'[n] = keys[n] /\ vals'[n] = vals[n]
    BY <1>1, <1>2, <1>5, <1>6 DEF TypeOK
  <1>9. TypeOK'
    BY <1>1, <1>2, <1>7, <1>8 DEF TypeOK, PCs
  <1>10. Shape'
    <2>1. Len(ks) <= LeafCap /\ Len(vs) = Len(ks)
      BY <1>3, <1>5, <1>6, Caps, SMT
    <2> QED
      BY <1>1, <1>2, <1>3, <1>8, <2>1 DEF Shape
  <1>11. root # Null
    BY <1>1 DEF InvAt, Walked
  <1>12. Rooted'
    BY <1>1, <1>2, <1>11 DEF Rooted, Loose, Live
  <1>13. Carried(lvl)'
    BY <1>1 DEF InvAt, Carried
  <1>14. Walked(lvl)'
    <2>1. \A i \in 1 .. Len(path) : OnPath(lvl, path[i], i)
      BY <1>1 DEF InvAt, Walked, Walking
    <2>2. \A i \in 1 .. Len(path) : OnPath(lvl, path[i], i)'
      BY <1>1, <2>1 DEF OnPath
    <2> QED
      BY <1>1, <2>2 DEF Walked, Walking
  <1> QED
    BY <1>1, <1>2, <1>9, <1>10, <1>12, <1>13, <1>14 DEF InvAt, OneOwner, Levels

(* The minimum a repaired child must reach fits in a block, twice when the *)
(* block is a leaf.                                                        *)
LEMMA MinLenBounds ==
  ASSUME NEW n \in Node
  PROVE  /\ MinLen(n) \in Nat
         /\ tag[n] = "leaf" => MinLen(n) + MinLen(n) <= LeafCap
         /\ tag[n] # "leaf" => MinLen(n) <= BranchCap
         /\ tag[n] # "leaf" /\ BranchCap >= 2 => MinLen(n) + MinLen(n) <= BranchCap
  <1>1. CASE tag[n] = "leaf"
    <2>1. MinLen(n) = LeafCap \div 2
      BY <1>1 DEF MinLen
    <2>2. LeafCap \div 2 \in Nat /\ LeafCap \div 2 + LeafCap \div 2 <= LeafCap
      BY Caps, SMT
    <2> QED
      BY <1>1, <2>1, <2>2
  <1>2. CASE tag[n] # "leaf" /\ BranchCap <= 2
    <2>1. MinLen(n) = 1
      BY <1>2 DEF MinLen
    <2>2. 1 \in Nat /\ 1 <= BranchCap /\ (BranchCap >= 2 => 1 + 1 <= BranchCap)
      BY Caps, SMT
    <2> QED
      BY <1>2, <2>1, <2>2
  <1>3. CASE tag[n] # "leaf" /\ ~(BranchCap <= 2)
    <2>1. MinLen(n) = BranchCap \div 2
      BY <1>3 DEF MinLen
    <2>2. /\ BranchCap \div 2 \in Nat /\ BranchCap \div 2 <= BranchCap
          /\ BranchCap \div 2 + BranchCap \div 2 <= BranchCap
      BY Caps, SMT
    <2> QED
      BY <1>3, <2>1, <2>2
  <1> QED
    BY <1>1, <1>2, <1>3

(* The children of the branch that is repaired.                            *)
LEMMA FixFacts ==
  ASSUME NEW lvl \in [Node -> Nat], InvAt(lvl), Fixing
  PROVE  /\ Seps \in Nat /\ FixPos \in 1 .. Seps + 1
         /\ \A i \in 1 .. Seps + 1 :
              /\ Child(i) \in Node /\ Child(i) \in Range(children[Parent])
              /\ tag[Child(i)] # "free" /\ Child(i) # Parent /\ Child(i) # root
              /\ lvl[Parent] = lvl[Child(i)] + 1
              /\ tag[Child(i)] = tag[Fixed]
         /\ \A i, j \in 1 .. Seps + 1 : Child(i) = Child(j) => i = j
         /\ Fixed = Child(FixPos)
  <1>1. pc = "fix" /\ path # <<>>
    BY DEF Fixing
  <1>2. /\ Parent \in Node /\ children[Parent] \in Seq(Node)
        /\ Len(keys[Parent]) \in Nat
        /\ Len(children[Parent]) = Len(keys[Parent]) + 1
        /\ Top.pos \in 1 .. Len(keys[Parent]) + 1
        /\ Loose(children, root)
    BY <1>1, ParentFacts DEF Walking
  <1>3. /\ TypeOK /\ Shape /\ Rooted /\ OneOwner(children) /\ Levels(lvl, tag, children)
    BY DEF InvAt
  <1>4. Seps \in Nat /\ FixPos \in 1 .. Seps + 1
    BY <1>2, SMT DEF Seps, FixPos
  <1>5. ASSUME NEW i \in 1 .. Seps + 1
        PROVE  /\ Child(i) \in Node /\ Child(i) \in Range(children[Parent])
               /\ tag[Child(i)] # "free" /\ Child(i) # Parent /\ Child(i) # root
               /\ lvl[Parent] = lvl[Child(i)] + 1
    <2>1. Child(i) \in Range(children[Parent]) /\ Range(children[Parent]) \subseteq Node
      BY <1>2, Entries DEF Child, Seps
    <2>2. lvl[Parent] = lvl[Child(i)] + 1 /\ tag[Child(i)] # "free" /\ Child(i) # root
      BY <1>1, <1>2, <1>3, <2>1 DEF Levels, Rooted, Loose, Live
    <2>3. Child(i) # Parent
      <3>1. lvl[Parent] \in Nat
        BY <1>2
      <3>2. lvl[Parent] # lvl[Parent] + 1
        BY <3>1, SMT
      <3> QED
        BY <2>2, <3>2
    <2> QED
      BY <2>1, <2>2, <2>3
  <1>6. Fixed = Child(FixPos)
    BY DEF Fixed
  <1>7. ASSUME NEW i \in 1 .. Seps + 1  PROVE tag[Child(i)] = tag[Fixed]
    <2>1. /\ Child(i) \in Node /\ tag[Child(i)] # "free" /\ lvl[Parent] = lvl[Child(i)] + 1
          /\ Fixed \in Node /\ tag[Fixed] # "free" /\ lvl[Parent] = lvl[Fixed] + 1
      BY <1>4, <1>5, <1>6
    <2>2. lvl[Child(i)] = lvl[Fixed]
      BY <2>1, SMT
    <2>3. (tag[Child(i)] = "leaf" <=> lvl[Child(i)] = 0) /\ (tag[Fixed] = "leaf" <=> lvl[Fixed] = 0)
      BY <1>3, <2>1, LeafLevel
    <2>4. tag[Child(i)] \in {"free", "leaf", "branch"} /\ tag[Fixed] \in {"free", "leaf", "branch"}
      BY <1>3, <2>1 DEF TypeOK
    <2> QED
      BY <2>1, <2>2, <2>3, <2>4
  <1>8. \A i, j \in 1 .. Seps + 1 : Child(i) = Child(j) => i = j
    <2>1. \A i, j \in 1 .. Len(children[Parent]) :
            children[Parent][i] = children[Parent][j] => i = j
      BY <1>2, <1>3, Entries DEF OneOwner
    <2> QED
      BY <1>2, <2>1 DEF Child, Seps
  <1> QED
    BY <1>4, <1>5, <1>6, <1>7, <1>8

(* A repair leaves everything above its branch alone, so the invariant     *)
(* holds again when the blocks are in order and each child stays on its    *)
(* level; gone are the blocks it freed.                                    *)
KeepsCall == UNCHANGED <<root, pc, op, key, val, cur, sep, right, ret>>
Repairs(lvl, gone) ==
  /\ \A n \in Node : n \in gone => tag'[n] = "free"
  /\ \A n \in Node : n \notin gone => tag'[n] = tag[n]
  /\ \A n \in gone : n \in Range(children[Parent]) /\ Loose(children', n)
  /\ \A n \in Node : lvl[n] > lvl[Parent] => children'[n] = children[n]

LEMMA FixStep ==
  ASSUME NEW lvl \in [Node -> Nat], InvAt(lvl), Fixing, PopPath, KeepsCall,
         HeapTypes', Shape', OneOwner(children'), StaysOnLevel(lvl, children, children'),
         NEW gone, Repairs(lvl, gone)
  PROVE  InvAt(lvl)'
  <1>1. /\ pc = "fix" /\ path # <<>> /\ path' = Front(path)
        /\ pc' = pc /\ cur' = cur /\ root' = root /\ right' = right
        /\ op' = op /\ key' = key /\ val' = val /\ sep' = sep /\ ret' = ret
    BY DEF Fixing, PopPath, KeepsCall
  <1>2. /\ TypeOK /\ Shape /\ Rooted /\ OneOwner(children) /\ Levels(lvl, tag, children)
    BY DEF InvAt
  <1>3. /\ root \in Node /\ tag[root] # "free" /\ Loose(children, root)
        /\ Parent \in Node
        /\ \A i \in 1 .. Len(path) - 1 :
              /\ path[i].node \in Node /\ tag[path[i].node] = "branch"
              /\ lvl[path[i].node] > lvl[Parent]
    BY <1>1, ParentFacts DEF Walking
  <1>4. /\ path' \in Seq(Frame) /\ Len(path') = Len(path) - 1
        /\ \A i \in 1 .. Len(path) - 1 : path'[i] = path[i] /\ i \in 1 .. Len(path)
    BY <1>1, <1>2, TopFrame
  <1>5. \A n \in Node : \/ n \in gone /\ tag'[n] = "free"
                        \/ n \notin gone /\ tag'[n] = tag[n]
    BY DEF Repairs
  <1>6. /\ \A n \in gone : n \in Range(children[Parent]) /\ Loose(children', n)
        /\ \A n \in Node : lvl[n] > lvl[Parent] => children'[n] = children[n]
    BY DEF Repairs
  <1>7. TypeOK'
    BY <1>1, <1>2, <1>4 DEF TypeOK, HeapTypes
  <1>8. Levels(lvl, tag', children')
    <2>1. \A n \in Node : tag'[n] = "leaf" => tag[n] = "leaf"
      BY <1>5
    <2> QED
      BY <1>2, <2>1, LevelsStay
  <1>9. \A n \in Node : \A x \in Range(children'[n]) : \E m \in Node : x \in Range(children[m])
    BY DEF StaysOnLevel
  <1>10. Rooted'
    <2>1. root \notin gone
      BY <1>3, <1>6 DEF Loose
    <2>2. tag'[root] # "free" /\ Loose(children', root)
      BY <1>3, <1>5, <1>9, <2>1 DEF Loose
    <2>3. ASSUME NEW n \in Node, NEW x \in Range(children'[n])  PROVE x \in Live'
      <3>1. x \in Node /\ tag[x] # "free"
        BY <1>1, <1>2, <1>9, <2>3 DEF Rooted, Live
      <3>2. x \notin gone
        BY <1>6, <2>3 DEF Loose
      <3> QED
        BY <1>5, <3>1, <3>2 DEF Live
    <2>4. root # Null
      BY <1>3, NodeAssumption
    <2> QED
      BY <1>1, <2>2, <2>3, <2>4 DEF Rooted
  <1>11. Carried(lvl)'
    BY <1>1 DEF InvAt, Carried
  <1>12. Walked(lvl)'
    <2>1. ASSUME NEW i \in 1 .. Len(path) - 1  PROVE OnPath(lvl, path[i], i)'
      <3>1. OnPath(lvl, path[i], i)
        BY <1>1, <1>4 DEF InvAt, Walked, Walking
      <3>2. path'[i] = path[i] /\ path[i].node \in Node /\ tag[path[i].node] = "branch"
            /\ children'[path[i].node] = children[path[i].node]
        <4>1. path'[i] = path[i]
          BY <1>4
        <4>2. /\ path[i].node \in Node /\ tag[path[i].node] = "branch"
              /\ lvl[path[i].node] > lvl[Parent]
          BY <1>3
        <4> QED
          BY <1>6, <4>1, <4>2
      <3>3. path[i].node \notin gone
        <4>1. ASSUME path[i].node \in gone  PROVE FALSE
          <5>1. lvl[Parent] = lvl[path[i].node] + 1 /\ lvl[path[i].node] > lvl[Parent]
            BY <1>2, <1>3, <1>6, <4>1 DEF Levels
          <5>2. lvl[Parent] \in Nat /\ lvl[path[i].node] \in Nat
            BY <1>3
          <5> QED
            BY <5>1, <5>2, SMT
        <4> QED
          BY <4>1
      <3>4. tag'[path[i].node] = tag[path[i].node]
        BY <1>5, <3>2, <3>3
      <3> QED
        BY <1>1, <3>1, <3>2, <3>4 DEF OnPath
    <2>2. cur = Null
      BY <1>1 DEF InvAt, Walked
    <2> QED
      BY <1>1, <1>4, <2>1, <2>2 DEF Walked, Walking
  <1> QED
    BY <1>1, <1>7, <1>8, <1>10, <1>11, <1>12 DEF InvAt, OneOwner, Levels

(* Children that are left alone stay where they are.                       *)
LEMMA SameChildrenStay ==
  ASSUME NEW lvl, NEW c, NEW d, d = c
  PROVE  StaysOnLevel(lvl, c, d)
  BY DEF StaysOnLevel

LEMMA FixNothingSafe ==
  ASSUME NEW lvl \in [Node -> Nat], InvAt(lvl), FixNothing
  PROVE  InvAt(lvl)'
  <1>1. /\ Fixing /\ PopPath /\ KeepsCall
        /\ UNCHANGED <<tag, keys, vals, children, next, prev>>
    BY DEF FixNothing, heap, call, split, KeepsCall
  <1>2. TypeOK /\ Shape /\ OneOwner(children)
    BY DEF InvAt
  <1>3. root' = root
    BY <1>1 DEF KeepsCall
  <1>4. HeapTypes'
    BY <1>1, <1>2, <1>3 DEF TypeOK, HeapTypes
  <1>5. Shape'
    BY <1>1, <1>2 DEF Shape
  <1>6. HeapTypes' /\ Shape' /\ OneOwner(children')
    BY <1>1, <1>2, <1>4, <1>5
  <1>7. StaysOnLevel(lvl, children, children')
    BY <1>1, SameChildrenStay
  <1>8. Repairs(lvl, {})
    BY <1>1 DEF Repairs
  <1> QED
    BY <1>1, <1>6, <1>7, <1>8, FixStep

(* A function written at two or three of its points.                       *)
Twice(f, g, a, x, b, y) ==
  g[a] = x /\ g[b] = y /\ \A n \in Node : n # a /\ n # b => g[n] = f[n]
Thrice(f, g, a, x, b, y, c, z) ==
  /\ g[a] = x /\ g[b] = y /\ g[c] = z
  /\ \A n \in Node : n # a /\ n # b /\ n # c => g[n] = f[n]

LEMMA TwoWrites ==
  ASSUME NEW S, NEW f \in [Node -> S], NEW g, NEW a \in Node, NEW b \in Node, a # b,
         NEW x \in S, NEW y \in S, g = [f EXCEPT ![a] = x, ![b] = y]
  PROVE  g \in [Node -> S] /\ Twice(f, g, a, x, b, y)
  BY DEF Twice

LEMMA ThreeWrites ==
  ASSUME NEW S, NEW f \in [Node -> S], NEW g, NEW a \in Node, NEW b \in Node, NEW c \in Node,
         a # b, a # c, b # c, NEW x \in S, NEW y \in S, NEW z \in S,
         g = [f EXCEPT ![a] = x, ![b] = y, ![c] = z]
  PROVE  g \in [Node -> S] /\ Thrice(f, g, a, x, b, y, c, z)
  BY DEF Thrice

(* One entry moves between the leaves a and b, and the separator of their  *)
(* parent changes.                                                         *)
LEMMA LeafBorrow ==
  ASSUME NEW lvl \in [Node -> Nat], InvAt(lvl), Fixing, PopPath, KeepsCall,
         UNCHANGED <<tag, children, next, prev>>,
         NEW a \in Node, NEW b \in Node, tag[a] = "leaf", tag[b] = "leaf",
         NEW ka, NEW kb, NEW kp, NEW va, NEW vb,
         Len(ka) <= LeafCap, Len(kb) <= LeafCap, Len(kp) = Len(keys[Parent]),
         Len(va) = Len(ka), Len(vb) = Len(kb),
         keys' \in [Node -> Seq(Key)], Thrice(keys, keys', a, ka, b, kb, Parent, kp),
         vals' \in [Node -> Seq(Val)], Twice(vals, vals', a, va, b, vb)
  PROVE  InvAt(lvl)'
  <1>1. /\ TypeOK /\ Shape /\ OneOwner(children) /\ pc = "fix" /\ path # <<>>
        /\ UNCHANGED root
    BY DEF InvAt, Fixing, KeepsCall
  <1>2. Parent \in Node /\ tag[Parent] = "branch"
    BY <1>1, ParentFacts DEF Walking
  <1>3. HeapTypes'
    BY <1>1 DEF TypeOK, HeapTypes
  <1>4. \A n \in Node : n # a /\ n # b /\ n # Parent => keys'[n] = keys[n]
    BY DEF Thrice
  <1>5. \A n \in Node : n # a /\ n # b => vals'[n] = vals[n]
    BY DEF Twice
  <1>6. Shape'
    <2> SUFFICES ASSUME NEW m \in Node
                 PROVE  \/ tag'[m] = "free" /\ keys'[m] = <<>> /\ vals'[m] = <<>> /\ children'[m] = <<>>
                        \/ /\ tag'[m] = "leaf" /\ children'[m] = <<>>
                           /\ Len(vals'[m]) = Len(keys'[m]) /\ Len(keys'[m]) <= LeafCap
                        \/ /\ tag'[m] = "branch" /\ vals'[m] = <<>>
                           /\ Len(children'[m]) = Len(keys'[m]) + 1 /\ Len(keys'[m]) <= BranchCap
      BY DEF Shape
    <2>1. CASE m = a
      BY <1>1, <2>1, BlockTypes DEF Thrice, Twice
    <2>2. CASE m = b
      BY <1>1, <2>2, BlockTypes DEF Thrice, Twice
    <2>3. CASE m = Parent
      <3>1. vals'[m] = vals[m] /\ keys'[m] = kp
        BY <1>2, <1>5, <2>3 DEF Thrice
      <3> QED
        BY <1>1, <1>2, <2>3, <3>1, BlockTypes
    <2>4. CASE m # a /\ m # b /\ m # Parent
      BY <1>1, <1>4, <1>5, <2>4 DEF Shape
    <2> QED
      BY <2>1, <2>2, <2>3, <2>4
  <1>7. StaysOnLevel(lvl, children, children') /\ OneOwner(children')
    BY <1>1, SameChildrenStay
  <1>8. Repairs(lvl, {})
    BY DEF Repairs
  <1> QED
    BY <1>3, <1>6, <1>7, <1>8, FixStep

(* The sibling that lends has two entries, and the child has room.         *)
LEMMA Lent ==
  ASSUME NEW lvl \in [Node -> Nat], InvAt(lvl), Fixing, Underfull,
         NEW i \in 1 .. Seps + 1, CanLend(Child(i))
  PROVE  /\ Child(i) # Fixed /\ Child(i) \in Node /\ Fixed \in Node
         /\ Child(i) # Parent /\ Fixed # Parent /\ Parent \in Node
         /\ Len(keys[Child(i)]) \in Nat /\ Len(keys[Fixed]) \in Nat
         /\ Len(keys[Child(i)]) >= 2
         /\ tag[Fixed] = "leaf" => Len(keys[Fixed]) + 1 <= LeafCap
         /\ tag[Fixed] = "branch" => Len(keys[Fixed]) + 1 <= BranchCap
  <1> DEFINE a == Child(i)
             m == MinLen(Fixed)
  <1>1. TypeOK /\ Shape /\ pc = "fix" /\ path # <<>>
    BY DEF InvAt, Fixing
  <1>2. Parent \in Node
    BY <1>1, ParentFacts DEF Walking
  <1>3. /\ a \in Node /\ a # Parent /\ Fixed \in Node /\ Fixed # Parent
    BY FixFacts
  <1>4. Len(keys[a]) \in Nat /\ Len(keys[Fixed]) \in Nat
    BY <1>1, <1>3, BlockTypes
  <1>5. Len(keys[a]) > m /\ Len(keys[Fixed]) < m
    BY DEF CanLend, Underfull
  <1>6. /\ m \in Nat /\ (tag[Fixed] = "leaf" => m + m <= LeafCap)
        /\ (tag[Fixed] # "leaf" => m <= BranchCap)
    BY <1>3, MinLenBounds
  <1> HIDE DEF a, m
  <1>7. Len(keys[a]) >= 2 /\ Len(keys[a]) # Len(keys[Fixed])
    BY <1>4, <1>5, <1>6, SMT
  <1>8. /\ tag[Fixed] = "leaf" => Len(keys[Fixed]) + 1 <= LeafCap
        /\ tag[Fixed] # "leaf" => Len(keys[Fixed]) + 1 <= BranchCap
    BY <1>4, <1>5, <1>6, Caps, SMT
  <1>9. a # Fixed
    BY <1>7
  <1> QED
    BY <1>2, <1>3, <1>4, <1>7, <1>8, <1>9 DEF a

LEMMA BorrowFromLeftLeafSafe ==
  ASSUME NEW lvl \in [Node -> Nat], InvAt(lvl), BorrowFromLeftLeaf
  PROVE  InvAt(lvl)'
  <1> DEFINE p == Parent
             a == Child(FixPos - 1)
             b == Fixed
             q == FixPos - 1
             ka == Front(keys[a])
             kb == <<Last(keys[a])>> \o keys[b]
             kp == [keys[p] EXCEPT ![q] = Last(keys[a])]
             va == Front(vals[a])
             vb == <<Last(vals[a])>> \o vals[b]
  <1>1. /\ Fixing /\ Underfull /\ tag[b] = "leaf" /\ FixPos > 1 /\ CanLend(a)
        /\ PopPath /\ KeepsCall
        /\ UNCHANGED <<tag, children, next, prev>>
    BY DEF BorrowFromLeftLeaf, LeftLends, KeepsCall, call, split
  <1>2. q \in 1 .. Seps + 1 /\ q \in 1 .. Seps
    <2>1. FixPos \in 1 .. Seps + 1 /\ Seps \in Nat /\ FixPos > 1
      BY <1>1, FixFacts
    <2> QED
      BY <2>1, SMT
  <1>3. /\ a # b /\ a \in Node /\ b \in Node /\ a # p /\ b # p /\ p \in Node
        /\ Len(keys[a]) \in Nat /\ Len(keys[b]) \in Nat
        /\ Len(keys[a]) >= 2 /\ Len(keys[b]) + 1 <= LeafCap
    BY <1>1, <1>2, Lent
  <1>4. tag[a] = "leaf"
    BY <1>1 DEF CanLend
  <1>5. TypeOK /\ Shape
    BY DEF InvAt
  <1>6. /\ keys' = [keys EXCEPT ![a] = ka, ![b] = kb, ![p] = kp]
        /\ vals' = [vals EXCEPT ![a] = va, ![b] = vb]
    BY <1>3, <1>5 DEF BorrowFromLeftLeaf, TypeOK
  <1>7. /\ keys[a] \in Seq(Key) /\ keys[b] \in Seq(Key) /\ keys[p] \in Seq(Key)
        /\ vals[a] \in Seq(Val) /\ vals[b] \in Seq(Val)
        /\ Len(vals[a]) = Len(keys[a]) /\ Len(vals[b]) = Len(keys[b])
        /\ Len(keys[a]) <= LeafCap /\ q \in 1 .. Len(keys[p])
    BY <1>1, <1>2, <1>3, <1>4, <1>5, BlockTypes DEF Seps
  <1> HIDE DEF p, a, b, q
  <1>8. ka \in Seq(Key) /\ va \in Seq(Val) /\ Last(keys[a]) \in Key /\ Last(vals[a]) \in Val
        /\ Len(ka) = Len(keys[a]) - 1 /\ Len(va) = Len(vals[a]) - 1
    <2>1. Len(keys[a]) >= 1 /\ Len(vals[a]) >= 1
      BY <1>3, <1>7, SMT
    <2> QED
      BY <1>7, <2>1, Ends
  <1>9. kb \in Seq(Key) /\ vb \in Seq(Val) /\ kp \in Seq(Key) /\ Len(kp) = Len(keys[p])
        /\ Len(kb) = Len(keys[b]) + 1 /\ Len(vb) = Len(vals[b]) + 1
    BY <1>7, <1>8, Pushed, Replaced
  <1> HIDE DEF ka, kb, kp, va, vb
  <1>10. /\ Len(ka) <= LeafCap /\ Len(kb) <= LeafCap
         /\ Len(va) = Len(ka) /\ Len(vb) = Len(kb)
    BY <1>3, <1>7, <1>8, <1>9, Caps, SMT
  <1>11. keys' \in [Node -> Seq(Key)] /\ Thrice(keys, keys', a, ka, b, kb, p, kp)
    BY <1>3, <1>5, <1>6, <1>8, <1>9, ThreeWrites DEF TypeOK
  <1>12. vals' \in [Node -> Seq(Val)] /\ Twice(vals, vals', a, va, b, vb)
    BY <1>3, <1>5, <1>6, <1>8, <1>9, TwoWrites DEF TypeOK
  <1>13. p = Parent /\ tag[b] = "leaf"
    BY <1>1 DEF p
  <1> QED
    BY <1>1, <1>3, <1>4, <1>9, <1>10, <1>11, <1>12, <1>13, LeafBorrow

LEMMA BorrowFromRightLeafSafe ==
  ASSUME NEW lvl \in [Node -> Nat], InvAt(lvl), BorrowFromRightLeaf
  PROVE  InvAt(lvl)'
  <1> DEFINE p == Parent
             a == Child(FixPos + 1)
             b == Fixed
             q == FixPos
             ka == Tail(keys[a])
             kb == Append(keys[b], Head(keys[a]))
             kp == [keys[p] EXCEPT ![q] = keys[a][2]]
             va == Tail(vals[a])
             vb == Append(vals[b], Head(vals[a]))
  <1>1. /\ Fixing /\ Underfull /\ tag[b] = "leaf" /\ FixPos <= Seps /\ CanLend(a)
        /\ PopPath /\ KeepsCall
        /\ UNCHANGED <<tag, children, next, prev>>
    BY DEF BorrowFromRightLeaf, RightLends, KeepsCall, call, split
  <1>2. q \in 1 .. Seps /\ q + 1 \in 1 .. Seps + 1
    <2>1. FixPos \in 1 .. Seps + 1 /\ Seps \in Nat /\ FixPos <= Seps
      BY <1>1, FixFacts
    <2> QED
      BY <2>1, SMT
  <1>3. /\ a # b /\ a \in Node /\ b \in Node /\ a # p /\ b # p /\ p \in Node
        /\ Len(keys[a]) \in Nat /\ Len(keys[b]) \in Nat
        /\ Len(keys[a]) >= 2 /\ Len(keys[b]) + 1 <= LeafCap
    BY <1>1, <1>2, Lent
  <1>4. tag[a] = "leaf"
    BY <1>1 DEF CanLend
  <1>5. TypeOK /\ Shape
    BY DEF InvAt
  <1>6. /\ keys' = [keys EXCEPT ![a] = ka, ![b] = kb, ![p] = kp]
        /\ vals' = [vals EXCEPT ![a] = va, ![b] = vb]
    BY <1>3, <1>5 DEF BorrowFromRightLeaf, TypeOK
  <1>7. /\ keys[a] \in Seq(Key) /\ keys[b] \in Seq(Key) /\ keys[p] \in Seq(Key)
        /\ vals[a] \in Seq(Val) /\ vals[b] \in Seq(Val)
        /\ Len(vals[a]) = Len(keys[a]) /\ Len(vals[b]) = Len(keys[b])
        /\ Len(keys[a]) <= LeafCap /\ q \in 1 .. Len(keys[p])
    BY <1>1, <1>2, <1>3, <1>4, <1>5, BlockTypes DEF Seps
  <1> HIDE DEF p, a, b, q
  <1>8. /\ ka \in Seq(Key) /\ va \in Seq(Val) /\ Head(keys[a]) \in Key /\ Head(vals[a]) \in Val
        /\ Len(ka) = Len(keys[a]) - 1 /\ Len(va) = Len(vals[a]) - 1
        /\ keys[a][2] \in Key
    <2>1. Len(keys[a]) >= 1 /\ Len(vals[a]) >= 1 /\ 2 \in 1 .. Len(keys[a])
      BY <1>3, <1>7, SMT
    <2> QED
      BY <1>7, <2>1, Ends, Replaced
  <1>9. kb \in Seq(Key) /\ vb \in Seq(Val) /\ kp \in Seq(Key) /\ Len(kp) = Len(keys[p])
        /\ Len(kb) = Len(keys[b]) + 1 /\ Len(vb) = Len(vals[b]) + 1
    BY <1>7, <1>8, Pushed, Replaced
  <1> HIDE DEF ka, kb, kp, va, vb
  <1>10. /\ Len(ka) <= LeafCap /\ Len(kb) <= LeafCap
         /\ Len(va) = Len(ka) /\ Len(vb) = Len(kb)
    BY <1>3, <1>7, <1>8, <1>9, Caps, SMT
  <1>11. keys' \in [Node -> Seq(Key)] /\ Thrice(keys, keys', a, ka, b, kb, p, kp)
    BY <1>3, <1>5, <1>6, <1>8, <1>9, ThreeWrites DEF TypeOK
  <1>12. vals' \in [Node -> Seq(Val)] /\ Twice(vals, vals', a, va, b, vb)
    BY <1>3, <1>5, <1>6, <1>8, <1>9, TwoWrites DEF TypeOK
  <1>13. p = Parent /\ tag[b] = "leaf"
    BY <1>1 DEF p
  <1> QED
    BY <1>1, <1>3, <1>4, <1>9, <1>10, <1>11, <1>12, <1>13, LeafBorrow

(* One child moves between the branches a and b, through a separator of    *)
(* their parent.                                                           *)
LEMMA BranchBorrow ==
  ASSUME NEW lvl \in [Node -> Nat], InvAt(lvl), Fixing, PopPath, KeepsCall,
         UNCHANGED <<tag, vals, next, prev>>,
         NEW a \in Node, NEW b \in Node, a # b, tag[a] = "branch", tag[b] = "branch",
         lvl[Parent] = lvl[a] + 1, lvl[Parent] = lvl[b] + 1,
         NEW ka, NEW kb, NEW kp, NEW ca, NEW cb, NEW x \in Range(children[a]),
         Len(ka) <= BranchCap, Len(kb) <= BranchCap, Len(kp) = Len(keys[Parent]),
         Len(ca) = Len(ka) + 1, Len(cb) = Len(kb) + 1,
         Drops(children[a], x, ca), Adds(children[b], x, cb),
         keys' \in [Node -> Seq(Key)], Thrice(keys, keys', a, ka, b, kb, Parent, kp),
         children' \in [Node -> Seq(Node)], Twice(children, children', a, ca, b, cb)
  PROVE  InvAt(lvl)'
  <1>1. /\ TypeOK /\ Shape /\ OneOwner(children) /\ pc = "fix" /\ path # <<>>
        /\ UNCHANGED root
    BY DEF InvAt, Fixing, KeepsCall
  <1>2. Parent \in Node /\ tag[Parent] = "branch"
    BY <1>1, ParentFacts DEF Walking
  <1>3. lvl[a] = lvl[b] /\ lvl[a] \in Nat /\ ~(lvl[a] > lvl[Parent])
    <2>1. lvl[a] \in Nat /\ lvl[b] \in Nat /\ lvl[Parent] = lvl[a] + 1 /\ lvl[Parent] = lvl[b] + 1
      OBVIOUS
    <2> QED
      BY <2>1, SMT
  <1>4. a # Parent /\ b # Parent
    <2>1. lvl[a] # lvl[a] + 1
      BY <1>3, SMT
    <2> QED
      BY <1>3, <2>1
  <1>5. HeapTypes'
    BY <1>1 DEF TypeOK, HeapTypes
  <1>6. \A n \in Node : n # a /\ n # b /\ n # Parent => keys'[n] = keys[n]
    BY DEF Thrice
  <1>7. /\ \A n \in Node : n # a /\ n # b => children'[n] = children[n]
        /\ children'[a] = ca /\ children'[b] = cb
    BY DEF Twice
  <1>8. Shape'
    <2> SUFFICES ASSUME NEW m \in Node
                 PROVE  \/ tag'[m] = "free" /\ keys'[m] = <<>> /\ vals'[m] = <<>> /\ children'[m] = <<>>
                        \/ /\ tag'[m] = "leaf" /\ children'[m] = <<>>
                           /\ Len(vals'[m]) = Len(keys'[m]) /\ Len(keys'[m]) <= LeafCap
                        \/ /\ tag'[m] = "branch" /\ vals'[m] = <<>>
                           /\ Len(children'[m]) = Len(keys'[m]) + 1 /\ Len(keys'[m]) <= BranchCap
      BY DEF Shape
    <2>1. CASE m = a
      BY <1>1, <1>7, <2>1, BlockTypes DEF Thrice
    <2>2. CASE m = b
      BY <1>1, <1>7, <2>2, BlockTypes DEF Thrice
    <2>3. CASE m = Parent
      <3>1. children'[m] = children[m] /\ keys'[m] = kp
        BY <1>2, <1>4, <1>7, <2>3 DEF Thrice
      <3> QED
        BY <1>1, <1>2, <2>3, <3>1, BlockTypes
    <2>4. CASE m # a /\ m # b /\ m # Parent
      BY <1>1, <1>6, <1>7, <2>4 DEF Shape
    <2> QED
      BY <2>1, <2>2, <2>3, <2>4
  <1>9. OneOwner(children')
    <2> DEFINE c1 == [children EXCEPT ![a] = ca]
    <2>1. c1[a] = ca /\ \A n \in Node : n # a => c1[n] = children[n]
      BY <1>1 DEF TypeOK
    <2> HIDE DEF c1
    <2>2. OneOwner(c1) /\ Loose(c1, x)
      BY <1>1, <2>1, OwnersDrop DEF Elsewhere
    <2>3. Adds(c1[b], x, children'[b]) /\ Elsewhere(c1, children', {b})
      BY <1>7, <2>1 DEF Elsewhere
    <2> QED
      BY <2>2, <2>3, OwnersAdd
  <1>10. StaysOnLevel(lvl, children, children')
    <2>0. /\ \A y : y \in Range(ca) => y \in Range(children[a])
          /\ \A y : y \in Range(cb) => y \in Range(children[b]) \/ y = x
      BY <1>1 DEF OneOwner, Adds, Drops
    <2>1. ASSUME NEW n \in Node, NEW y \in Range(children'[n])
          PROVE  \E m \in Node : y \in Range(children[m]) /\ lvl[m] = lvl[n]
      <3>1. \/ y \in Range(children[n])
            \/ n = b /\ y = x
        BY <1>7, <2>0, <2>1
      <3> QED
        BY <1>3, <3>1
    <2> QED
      BY <2>1 DEF StaysOnLevel
  <1>11. Repairs(lvl, {})
    <2>1. \A n \in Node : lvl[n] > lvl[Parent] => children'[n] = children[n]
      BY <1>3, <1>7
    <2> QED
      BY <2>1 DEF Repairs
  <1> QED
    BY <1>5, <1>8, <1>9, <1>10, <1>11, FixStep

LEMMA BorrowFromLeftBranchSafe ==
  ASSUME NEW lvl \in [Node -> Nat], InvAt(lvl), BorrowFromLeftBranch
  PROVE  InvAt(lvl)'
  <1> DEFINE p == Parent
             a == Child(FixPos - 1)
             b == Fixed
             q == FixPos - 1
             w == keys[p][q]
             x == Last(children[a])
             ka == Front(keys[a])
             kb == <<w>> \o keys[b]
             kp == [keys[p] EXCEPT ![q] = Last(keys[a])]
             ca == Front(children[a])
             cb == <<x>> \o children[b]
  <1>1. /\ Fixing /\ Underfull /\ tag[b] = "branch" /\ FixPos > 1 /\ CanLend(a)
        /\ PopPath /\ KeepsCall
        /\ UNCHANGED <<tag, vals, next, prev>>
    BY DEF BorrowFromLeftBranch, LeftLends, KeepsCall, call, split
  <1>2. q \in 1 .. Seps + 1 /\ q \in 1 .. Seps
    <2>1. FixPos \in 1 .. Seps + 1 /\ Seps \in Nat /\ FixPos > 1
      BY <1>1, FixFacts
    <2> QED
      BY <2>1, SMT
  <1>3. /\ a # b /\ a \in Node /\ b \in Node /\ a # p /\ b # p /\ p \in Node
        /\ Len(keys[a]) \in Nat /\ Len(keys[b]) \in Nat
        /\ Len(keys[a]) >= 2 /\ Len(keys[b]) + 1 <= BranchCap
    BY <1>1, <1>2, Lent
  <1>4. tag[a] = "branch" /\ lvl[p] = lvl[a] + 1 /\ lvl[p] = lvl[b] + 1
    BY <1>1, <1>2, FixFacts
  <1>5. TypeOK /\ Shape
    BY DEF InvAt
  <1>6. /\ keys' = [keys EXCEPT ![a] = ka, ![b] = kb, ![p] = kp]
        /\ children' = [children EXCEPT ![a] = ca, ![b] = cb]
    BY <1>3, <1>5 DEF BorrowFromLeftBranch, TypeOK
  <1>7. /\ keys[a] \in Seq(Key) /\ keys[b] \in Seq(Key) /\ keys[p] \in Seq(Key)
        /\ children[a] \in Seq(Node) /\ children[b] \in Seq(Node)
        /\ Len(children[a]) = Len(keys[a]) + 1 /\ Len(children[b]) = Len(keys[b]) + 1
        /\ Len(keys[a]) <= BranchCap /\ q \in 1 .. Len(keys[p])
    BY <1>1, <1>2, <1>3, <1>4, <1>5, BlockTypes DEF Seps
  <1> HIDE DEF p, a, b, q
  <1>8. /\ ka \in Seq(Key) /\ ca \in Seq(Node) /\ Last(keys[a]) \in Key /\ x \in Node
        /\ Len(ka) = Len(keys[a]) - 1 /\ Len(ca) = Len(children[a]) - 1
        /\ Drops(children[a], x, ca) /\ w \in Key /\ x \in Range(children[a])
    <2>1. Len(keys[a]) >= 1 /\ Len(children[a]) >= 1 /\ Len(children[a]) \in 1 .. Len(children[a])
      <3> DEFINE m == Len(keys[a])
                 l == Len(children[a])
      <3>1. m \in Nat /\ m >= 2 /\ l = m + 1
        BY <1>3, <1>7
      <3> HIDE DEF m, l
      <3>2. m >= 1 /\ l >= 1 /\ l \in 1 .. l
        BY <3>1, SMT
      <3> QED
        BY <3>2 DEF m, l
    <2>2. x = children[a][Len(children[a])] /\ w \in Key
      BY <1>7, <2>1, Ends, Replaced
    <2>3. x \in Range(children[a])
      BY <1>7, <2>1, <2>2, Entries
    <2> QED
      BY <1>7, <2>1, <2>2, <2>3, Ends, EndsDrop
  <1> HIDE DEF w, x
  <1>9. /\ kb \in Seq(Key) /\ cb \in Seq(Node) /\ kp \in Seq(Key) /\ Len(kp) = Len(keys[p])
        /\ Len(kb) = Len(keys[b]) + 1 /\ Len(cb) = Len(children[b]) + 1
        /\ Adds(children[b], x, cb)
    <2>1. kp \in Seq(Key) /\ Len(kp) = Len(keys[p])
      BY <1>7, <1>8, Replaced
    <2>2. kb \in Seq(Key) /\ Len(kb) = Len(keys[b]) + 1
      <3>1. w \in Key /\ keys[b] \in Seq(Key)
        BY <1>7, <1>8
      <3> QED
        BY <3>1, Pushed
    <2>3. cb \in Seq(Node) /\ Len(cb) = Len(children[b]) + 1
      <3>1. x \in Node /\ children[b] \in Seq(Node)
        BY <1>7, <1>8
      <3> QED
        BY <3>1, Pushed
    <2>4. Adds(children[b], x, cb)
      BY <1>7, <1>8, PushAdds
    <2> QED
      BY <2>1, <2>2, <2>3, <2>4
  <1> HIDE DEF ka, kb, kp, ca, cb
  <1>10. /\ Len(ka) <= BranchCap /\ Len(kb) <= BranchCap
         /\ Len(ca) = Len(ka) + 1 /\ Len(cb) = Len(kb) + 1
    <2> DEFINE m == Len(keys[a])
               l == Len(children[a])
               i == Len(keys[b])
               j == Len(children[b])
    <2>1. m \in Nat /\ i \in Nat /\ m <= BranchCap /\ i + 1 <= BranchCap
          /\ l = m + 1 /\ j = i + 1
      BY <1>3, <1>7
    <2>2. Len(ka) = m - 1 /\ Len(ca) = l - 1 /\ Len(kb) = i + 1 /\ Len(cb) = j + 1
      BY <1>8, <1>9
    <2> HIDE DEF m, l, i, j
    <2> QED
      BY <2>1, <2>2, Caps, SMT
  <1>11. keys' \in [Node -> Seq(Key)] /\ Thrice(keys, keys', a, ka, b, kb, p, kp)
    BY <1>3, <1>5, <1>6, <1>8, <1>9, ThreeWrites DEF TypeOK
  <1>12. children' \in [Node -> Seq(Node)] /\ Twice(children, children', a, ca, b, cb)
    BY <1>3, <1>5, <1>6, <1>8, <1>9, TwoWrites DEF TypeOK
  <1>13. p = Parent /\ tag[b] = "branch" /\ x \in Range(children[a])
    BY <1>1, <1>8 DEF p
  <1> QED
    BY <1>1, <1>3, <1>4, <1>8, <1>9, <1>10, <1>11, <1>12, <1>13, BranchBorrow

LEMMA BorrowFromRightBranchSafe ==
  ASSUME NEW lvl \in [Node -> Nat], InvAt(lvl), BorrowFromRightBranch
  PROVE  InvAt(lvl)'
  <1> DEFINE p == Parent
             a == Child(FixPos + 1)
             b == Fixed
             q == FixPos
             w == keys[p][q]
             x == Head(children[a])
             ka == Tail(keys[a])
             kb == Append(keys[b], w)
             kp == [keys[p] EXCEPT ![q] = Head(keys[a])]
             ca == Tail(children[a])
             cb == Append(children[b], x)
  <1>1. /\ Fixing /\ Underfull /\ tag[b] = "branch" /\ FixPos <= Seps /\ CanLend(a)
        /\ PopPath /\ KeepsCall
        /\ UNCHANGED <<tag, vals, next, prev>>
    BY DEF BorrowFromRightBranch, RightLends, KeepsCall, call, split
  <1>2. q \in 1 .. Seps /\ q + 1 \in 1 .. Seps + 1
    <2>1. FixPos \in 1 .. Seps + 1 /\ Seps \in Nat /\ FixPos <= Seps
      BY <1>1, FixFacts
    <2> QED
      BY <2>1, SMT
  <1>3. /\ a # b /\ a \in Node /\ b \in Node /\ a # p /\ b # p /\ p \in Node
        /\ Len(keys[a]) \in Nat /\ Len(keys[b]) \in Nat
        /\ Len(keys[a]) >= 2 /\ Len(keys[b]) + 1 <= BranchCap
    BY <1>1, <1>2, Lent
  <1>4. tag[a] = "branch" /\ lvl[p] = lvl[a] + 1 /\ lvl[p] = lvl[b] + 1
    BY <1>1, <1>2, FixFacts
  <1>5. TypeOK /\ Shape
    BY DEF InvAt
  <1>6. /\ keys' = [keys EXCEPT ![a] = ka, ![b] = kb, ![p] = kp]
        /\ children' = [children EXCEPT ![a] = ca, ![b] = cb]
    BY <1>3, <1>5 DEF BorrowFromRightBranch, TypeOK
  <1>7. /\ keys[a] \in Seq(Key) /\ keys[b] \in Seq(Key) /\ keys[p] \in Seq(Key)
        /\ children[a] \in Seq(Node) /\ children[b] \in Seq(Node)
        /\ Len(children[a]) = Len(keys[a]) + 1 /\ Len(children[b]) = Len(keys[b]) + 1
        /\ Len(keys[a]) <= BranchCap /\ q \in 1 .. Len(keys[p])
    BY <1>1, <1>2, <1>3, <1>4, <1>5, BlockTypes DEF Seps
  <1> HIDE DEF p, a, b, q
  <1>8. /\ ka \in Seq(Key) /\ ca \in Seq(Node) /\ Head(keys[a]) \in Key /\ x \in Node
        /\ Len(ka) = Len(keys[a]) - 1 /\ Len(ca) = Len(children[a]) - 1
        /\ Drops(children[a], x, ca) /\ w \in Key /\ x \in Range(children[a])
    <2>1. Len(keys[a]) >= 1 /\ Len(children[a]) >= 1 /\ 1 \in 1 .. Len(children[a])
      <3> DEFINE m == Len(keys[a])
                 l == Len(children[a])
      <3>1. m \in Nat /\ m >= 2 /\ l = m + 1
        BY <1>3, <1>7
      <3> HIDE DEF m, l
      <3>2. m >= 1 /\ l >= 1 /\ 1 \in 1 .. l
        BY <3>1, SMT
      <3> QED
        BY <3>2 DEF m, l
    <2>2. x = children[a][1] /\ w \in Key
      BY <1>7, <2>1, Ends, Replaced
    <2>3. x \in Range(children[a])
      BY <1>7, <2>1, <2>2, Entries
    <2> QED
      BY <1>7, <2>1, <2>2, <2>3, Ends, EndsDrop
  <1> HIDE DEF w, x
  <1>9. /\ kb \in Seq(Key) /\ cb \in Seq(Node) /\ kp \in Seq(Key) /\ Len(kp) = Len(keys[p])
        /\ Len(kb) = Len(keys[b]) + 1 /\ Len(cb) = Len(children[b]) + 1
        /\ Adds(children[b], x, cb)
    <2>1. kp \in Seq(Key) /\ Len(kp) = Len(keys[p])
      BY <1>7, <1>8, Replaced
    <2>2. kb \in Seq(Key) /\ Len(kb) = Len(keys[b]) + 1
      <3>1. w \in Key /\ keys[b] \in Seq(Key)
        BY <1>7, <1>8
      <3> QED
        BY <3>1, Pushed
    <2>3. cb \in Seq(Node) /\ Len(cb) = Len(children[b]) + 1
      <3>1. x \in Node /\ children[b] \in Seq(Node)
        BY <1>7, <1>8
      <3> QED
        BY <3>1, Pushed
    <2>4. Adds(children[b], x, cb)
      BY <1>7, <1>8, PushAdds
    <2> QED
      BY <2>1, <2>2, <2>3, <2>4
  <1> HIDE DEF ka, kb, kp, ca, cb
  <1>10. /\ Len(ka) <= BranchCap /\ Len(kb) <= BranchCap
         /\ Len(ca) = Len(ka) + 1 /\ Len(cb) = Len(kb) + 1
    <2> DEFINE m == Len(keys[a])
               l == Len(children[a])
               i == Len(keys[b])
               j == Len(children[b])
    <2>1. m \in Nat /\ i \in Nat /\ m <= BranchCap /\ i + 1 <= BranchCap
          /\ l = m + 1 /\ j = i + 1
      BY <1>3, <1>7
    <2>2. Len(ka) = m - 1 /\ Len(ca) = l - 1 /\ Len(kb) = i + 1 /\ Len(cb) = j + 1
      BY <1>8, <1>9
    <2> HIDE DEF m, l, i, j
    <2> QED
      BY <2>1, <2>2, Caps, SMT
  <1>11. keys' \in [Node -> Seq(Key)] /\ Thrice(keys, keys', a, ka, b, kb, p, kp)
    BY <1>3, <1>5, <1>6, <1>8, <1>9, ThreeWrites DEF TypeOK
  <1>12. children' \in [Node -> Seq(Node)] /\ Twice(children, children', a, ca, b, cb)
    BY <1>3, <1>5, <1>6, <1>8, <1>9, TwoWrites DEF TypeOK
  <1>13. p = Parent /\ tag[b] = "branch" /\ x \in Range(children[a])
    BY <1>1, <1>8 DEF p
  <1> QED
    BY <1>1, <1>3, <1>4, <1>8, <1>9, <1>10, <1>11, <1>12, <1>13, BranchBorrow

LEMMA UnlinkedType ==
  ASSUME NEW to \in [Node -> Node \cup {Null}], NEW fro, NEW gone \in SUBSET Node
  PROVE  Unlinked(to, fro, gone) \in [Node -> Node \cup {Null}]
  <1>1. ASSUME NEW n \in Node
        PROVE  (IF n \in gone THEN Null
                ELSE IF \E g \in gone : fro[g] = n THEN to[CHOOSE g \in gone : fro[g] = n]
                ELSE to[n]) \in Node \cup {Null}
    <2>1. CASE n \in gone
      BY <2>1
    <2>2. CASE n \notin gone /\ \E g \in gone : fro[g] = n
      <3>1. (CHOOSE g \in gone : fro[g] = n) \in gone
        BY <2>2
      <3> HIDE DEF Unlinked
      <3> QED
        BY <2>2, <3>1
    <2>3. CASE n \notin gone /\ ~\E g \in gone : fro[g] = n
      BY <2>3
    <2> QED
      BY <2>1, <2>2, <2>3
  <1> QED
    BY <1>1 DEF Unlinked

(* The two children that merge, and the separator between them.            *)
LEMMA MergeFacts ==
  ASSUME NEW lvl \in [Node -> Nat], InvAt(lvl), Merging
  PROVE  /\ Parent \in Node /\ Into \in Node /\ From \in Node
         /\ Into # From /\ Into # Parent /\ From # Parent
         /\ tag[Into] = tag[Fixed] /\ tag[From] = tag[Fixed]
         /\ tag[Parent] = "branch"
         /\ lvl[Into] = lvl[From] /\ lvl[Parent] = lvl[Into] + 1
         /\ MergePos \in 1 .. Len(keys[Parent])
         /\ MergePos + 1 \in 1 .. Len(children[Parent])
         /\ From = children[Parent][MergePos + 1]
         /\ From \in Range(children[Parent])
         /\ ~(lvl[Parent] > lvl[Parent]) /\ ~(lvl[Into] > lvl[Parent])
  <1>1. Fixing /\ Seps > 0 /\ pc = "fix" /\ path # <<>>
    BY DEF Merging, Underfull, Fixing
  <1>2. /\ Parent \in Node /\ tag[Parent] = "branch"
        /\ Len(children[Parent]) = Len(keys[Parent]) + 1
    BY <1>1, ParentFacts DEF Walking
  <1>3. /\ MergePos \in 1 .. Seps /\ MergePos \in 1 .. Seps + 1
        /\ MergePos + 1 \in 1 .. Seps + 1 /\ MergePos # MergePos + 1
    <2>1. Seps \in Nat /\ Seps > 0 /\ FixPos \in 1 .. Seps + 1
      BY <1>1, FixFacts
    <2>2. MergePos = IF FixPos > 1 THEN FixPos - 1 ELSE FixPos
      BY DEF MergePos
    <2> QED
      BY <2>1, <2>2, SMT
  <1>4. /\ Into \in Node /\ From \in Node /\ Into # Parent /\ From # Parent
        /\ tag[Into] = tag[Fixed] /\ tag[From] = tag[Fixed]
        /\ lvl[Parent] = lvl[Into] + 1 /\ lvl[Parent] = lvl[From] + 1
        /\ From \in Range(children[Parent])
    BY <1>1, <1>3, FixFacts DEF Into, From
  <1>5. Into # From
    BY <1>1, <1>3, FixFacts DEF Into, From
  <1>6. /\ lvl[Into] = lvl[From]
        /\ ~(lvl[Parent] > lvl[Parent]) /\ ~(lvl[Into] > lvl[Parent])
    <2>1. lvl[Into] \in Nat /\ lvl[From] \in Nat /\ lvl[Parent] \in Nat
      BY <1>2, <1>4
    <2> QED
      BY <1>4, <2>1, SMT
  <1>7. From = children[Parent][MergePos + 1]
    BY DEF From, Child
  <1> QED
    BY <1>2, <1>3, <1>4, <1>5, <1>6, <1>7 DEF Seps

LEMMA MergeLeavesSafe ==
  ASSUME NEW lvl \in [Node -> Nat], InvAt(lvl), MergeLeaves
  PROVE  InvAt(lvl)'
  <1> DEFINE p == Parent
             a == Into
             b == From
             ka == keys[a] \o keys[b]
             kp == RemoveAt(keys[p], MergePos)
             va == vals[a] \o vals[b]
             cp == RemoveAt(children[p], MergePos + 1)
  <1>1. /\ Merging /\ Fixing /\ MergeFits /\ tag[Fixed] = "leaf" /\ PopPath /\ KeepsCall
        /\ pc = "fix" /\ path # <<>>
        /\ tag' = [tag EXCEPT ![b] = "free"]
        /\ next' = Unlinked(next, prev, {b}) /\ prev' = Unlinked(prev, next, {b})
        /\ UNCHANGED root
    BY DEF MergeLeaves, KeepsCall, Merging, Fixing, call, split
  <1>2. TypeOK /\ Shape /\ OneOwner(children)
    BY DEF InvAt
  <1>3. /\ p \in Node /\ a \in Node /\ b \in Node /\ a # b /\ a # p /\ b # p
        /\ tag[a] = "leaf" /\ tag[b] = "leaf" /\ tag[p] = "branch"
        /\ lvl[a] = lvl[b] /\ lvl[p] = lvl[a] + 1
        /\ MergePos \in 1 .. Len(keys[p]) /\ MergePos + 1 \in 1 .. Len(children[p])
        /\ b = children[p][MergePos + 1] /\ b \in Range(children[p])
        /\ ~(lvl[p] > lvl[p])
    BY <1>1, MergeFacts
  <1>4. /\ keys' = [keys EXCEPT ![a] = ka, ![b] = <<>>, ![p] = kp]
        /\ vals' = [vals EXCEPT ![a] = va, ![b] = <<>>]
        /\ children' = [children EXCEPT ![p] = cp]
    BY <1>2, <1>3 DEF MergeLeaves, TypeOK
  <1>5. /\ keys[a] \in Seq(Key) /\ keys[b] \in Seq(Key) /\ keys[p] \in Seq(Key)
        /\ vals[a] \in Seq(Val) /\ vals[b] \in Seq(Val) /\ children[p] \in Seq(Node)
        /\ Len(vals[a]) = Len(keys[a]) /\ Len(vals[b]) = Len(keys[b])
        /\ children[a] = <<>> /\ children[b] = <<>> /\ vals[p] = <<>>
        /\ Len(children[p]) = Len(keys[p]) + 1 /\ Len(keys[p]) <= BranchCap
        /\ Len(keys[p]) \in Nat
    BY <1>2, <1>3, BlockTypes
  <1>6. Len(keys[a]) + Len(keys[b]) <= LeafCap
    BY <1>1 DEF MergeFits
  <1>7. ka \in Seq(Key) /\ Len(ka) = Len(keys[a]) + Len(keys[b])
    BY <1>5, ConcatType
  <1>8. va \in Seq(Val) /\ Len(va) = Len(vals[a]) + Len(vals[b])
    BY <1>5, ConcatType
  <1>9. kp \in Seq(Key) /\ Len(kp) = Len(keys[p]) - 1
    BY <1>3, <1>5, Removed
  <1>10. cp \in Seq(Node) /\ Len(cp) = Len(children[p]) - 1 /\ Drops(children[p], b, cp)
    BY <1>3, <1>5, Removed, RemoveDrops
  <1> HIDE DEF p, a, b, ka, kp, va, cp
  <1>11. /\ Len(ka) <= LeafCap /\ Len(va) = Len(ka)
         /\ Len(kp) <= BranchCap /\ Len(cp) = Len(kp) + 1
    <2>1. /\ Len(ka) = Len(keys[a]) + Len(keys[b]) /\ Len(va) = Len(vals[a]) + Len(vals[b])
          /\ Len(keys[a]) + Len(keys[b]) <= LeafCap
          /\ Len(vals[a]) = Len(keys[a]) /\ Len(vals[b]) = Len(keys[b])
          /\ Len(keys[a]) \in Nat /\ Len(keys[b]) \in Nat
      BY <1>2, <1>3, <1>5, <1>6, <1>7, <1>8, BlockTypes
    <2>2. /\ Len(kp) = Len(keys[p]) - 1 /\ Len(cp) = Len(children[p]) - 1
          /\ Len(children[p]) = Len(keys[p]) + 1 /\ Len(keys[p]) <= BranchCap
          /\ Len(keys[p]) \in Nat
      BY <1>5, <1>9, <1>10
    <2>3. Len(ka) <= LeafCap /\ Len(va) = Len(ka)
      BY <2>1, Zenon
    <2>4. Len(kp) <= BranchCap /\ Len(cp) = Len(kp) + 1
      BY <2>2, Caps, SMT
    <2> QED
      BY <2>3, <2>4
  <1>12. /\ keys' \in [Node -> Seq(Key)] /\ Thrice(keys, keys', a, ka, b, <<>>, p, kp)
         /\ vals' \in [Node -> Seq(Val)] /\ Twice(vals, vals', a, va, b, <<>>)
    <2> DEFINE e == <<>>
    <2>1. e \in Seq(Key) /\ e \in Seq(Val)
      BY SMT
    <2>2. keys \in [Node -> Seq(Key)] /\ vals \in [Node -> Seq(Val)]
      BY <1>2 DEF TypeOK
    <2>3. /\ keys' = [keys EXCEPT ![a] = ka, ![b] = e, ![p] = kp]
          /\ vals' = [vals EXCEPT ![a] = va, ![b] = e]
      BY <1>4
    <2> HIDE DEF e
    <2>4. keys' \in [Node -> Seq(Key)] /\ Thrice(keys, keys', a, ka, b, e, p, kp)
      BY <1>3, <1>7, <1>9, <2>1, <2>2, <2>3 DEF Thrice
    <2>5. vals' \in [Node -> Seq(Val)] /\ Twice(vals, vals', a, va, b, e)
      BY <1>3, <1>8, <2>1, <2>2, <2>3 DEF Twice
    <2> QED
      BY <2>4, <2>5 DEF e
  <1>13. /\ tag' \in [Node -> {"free", "leaf", "branch"}] /\ children' \in [Node -> Seq(Node)]
         /\ tag'[b] = "free" /\ \A n \in Node : n # b => tag'[n] = tag[n]
         /\ children'[p] = cp /\ \A n \in Node : n # p => children'[n] = children[n]
    BY <1>1, <1>2, <1>3, <1>4, <1>10 DEF TypeOK
  <1>14. next' \in [Node -> Node \cup {Null}] /\ prev' \in [Node -> Node \cup {Null}]
    <2>1. {b} \in SUBSET Node
      BY <1>3
    <2>2. next \in [Node -> Node \cup {Null}] /\ prev \in [Node -> Node \cup {Null}]
      BY <1>2 DEF TypeOK
    <2> QED
      BY <1>1, <2>1, <2>2, UnlinkedType
  <1>15. HeapTypes'
    BY <1>1, <1>2, <1>12, <1>13, <1>14 DEF TypeOK, HeapTypes
  <1>16. Shape'
    <2> SUFFICES ASSUME NEW m \in Node
                 PROVE  \/ tag'[m] = "free" /\ keys'[m] = <<>> /\ vals'[m] = <<>> /\ children'[m] = <<>>
                        \/ /\ tag'[m] = "leaf" /\ children'[m] = <<>>
                           /\ Len(vals'[m]) = Len(keys'[m]) /\ Len(keys'[m]) <= LeafCap
                        \/ /\ tag'[m] = "branch" /\ vals'[m] = <<>>
                           /\ Len(children'[m]) = Len(keys'[m]) + 1 /\ Len(keys'[m]) <= BranchCap
      BY DEF Shape
    <2>1. CASE m = a
      BY <1>3, <1>5, <1>11, <1>12, <1>13, <2>1 DEF Thrice, Twice
    <2>2. CASE m = b
      BY <1>3, <1>5, <1>12, <1>13, <2>2 DEF Thrice, Twice
    <2>3. CASE m = p
      BY <1>3, <1>5, <1>11, <1>12, <1>13, <2>3 DEF Thrice, Twice
    <2>4. CASE m # a /\ m # b /\ m # p
      BY <1>2, <1>12, <1>13, <2>4 DEF Shape, Thrice, Twice
    <2> QED
      BY <2>1, <2>2, <2>3, <2>4
  <1>17. OneOwner(children') /\ Loose(children', b)
    <2>1. Drops(children[p], b, children'[p]) /\ Elsewhere(children, children', {p})
      BY <1>10, <1>13 DEF Elsewhere
    <2> QED
      BY <1>2, <1>3, <2>1, OwnersDrop
  <1>18. StaysOnLevel(lvl, children, children')
    <2>1. \A y : y \in Range(cp) => y \in Range(children[p])
      BY <1>2, <1>3, <1>10 DEF OneOwner, Drops
    <2>2. ASSUME NEW n \in Node, NEW y \in Range(children'[n])
          PROVE  y \in Range(children[n])
      BY <1>13, <2>1, <2>2
    <2> QED
      BY <2>2 DEF StaysOnLevel
  <1>19. Repairs(lvl, {b})
    <2>1. \A n \in Node : lvl[n] > lvl[p] => children'[n] = children[n]
      BY <1>3, <1>13
    <2>2. b \in Range(children[Parent]) /\ p = Parent
      BY <1>3 DEF p
    <2> QED
      BY <1>13, <1>17, <2>1, <2>2 DEF Repairs
  <1> QED
    BY <1>1, <1>15, <1>16, <1>17, <1>18, <1>19, FixStep

LEMMA MergeBranchesSafe ==
  ASSUME NEW lvl \in [Node -> Nat], InvAt(lvl), MergeBranches
  PROVE  InvAt(lvl)'
  <1> DEFINE p == Parent
             a == Into
             b == From
             w == <<keys[p][MergePos]>>
             ka == keys[a] \o w \o keys[b]
             kp == RemoveAt(keys[p], MergePos)
             ca == children[a] \o children[b]
             cp == RemoveAt(children[p], MergePos + 1)
             e == <<>>
             c1 == [children EXCEPT ![p] = cp]
  <1>1. /\ Merging /\ Fixing /\ MergeFits /\ tag[Fixed] = "branch" /\ PopPath /\ KeepsCall
        /\ pc = "fix" /\ path # <<>>
        /\ tag' = [tag EXCEPT ![b] = "free"]
        /\ UNCHANGED <<root, vals, next, prev>>
    BY DEF MergeBranches, KeepsCall, Merging, Fixing, call, split
  <1>2. TypeOK /\ Shape /\ OneOwner(children)
    BY DEF InvAt
  <1>3. /\ p \in Node /\ a \in Node /\ b \in Node /\ a # b /\ a # p /\ b # p
        /\ tag[a] = "branch" /\ tag[b] = "branch" /\ tag[p] = "branch"
        /\ lvl[a] = lvl[b] /\ lvl[p] = lvl[a] + 1
        /\ MergePos \in 1 .. Len(keys[p]) /\ MergePos + 1 \in 1 .. Len(children[p])
        /\ b = children[p][MergePos + 1] /\ b \in Range(children[p])
        /\ ~(lvl[p] > lvl[p]) /\ ~(lvl[a] > lvl[p])
    BY <1>1, MergeFacts
  <1>4. /\ keys' = [keys EXCEPT ![a] = ka, ![b] = e, ![p] = kp]
        /\ children' = [children EXCEPT ![a] = ca, ![b] = e, ![p] = cp]
    BY <1>2, <1>3 DEF MergeBranches, TypeOK
  <1>5. /\ keys[a] \in Seq(Key) /\ keys[b] \in Seq(Key) /\ keys[p] \in Seq(Key)
        /\ children[a] \in Seq(Node) /\ children[b] \in Seq(Node) /\ children[p] \in Seq(Node)
        /\ Len(children[a]) = Len(keys[a]) + 1 /\ Len(children[b]) = Len(keys[b]) + 1
        /\ vals[a] = <<>> /\ vals[b] = <<>> /\ vals[p] = <<>>
        /\ Len(children[p]) = Len(keys[p]) + 1 /\ Len(keys[p]) <= BranchCap
        /\ Len(keys[p]) \in Nat /\ Len(keys[a]) \in Nat /\ Len(keys[b]) \in Nat
    BY <1>2, <1>3, BlockTypes
  <1>6. Len(keys[a]) + 1 + Len(keys[b]) <= BranchCap
    BY <1>1 DEF MergeFits
  <1>7. ka \in Seq(Key) /\ Len(ka) = Len(keys[a]) + 1 + Len(keys[b])
    <2>1. w \in Seq(Key) /\ Len(w) = 1
      <3>1. keys[p][MergePos] \in Key
        BY <1>3, <1>5, Replaced
      <3> QED
        BY <3>1, Single
    <2> HIDE DEF w, p, a, b
    <2>2. keys[a] \o w \in Seq(Key) /\ Len(keys[a] \o w) = Len(keys[a]) + 1
      <3>1. keys[a] \in Seq(Key)
        BY <1>5
      <3>2. keys[a] \o w \in Seq(Key) /\ Len(keys[a] \o w) = Len(keys[a]) + Len(w)
        BY <2>1, <3>1, ConcatType
      <3> QED
        BY <2>1, <3>2
    <2> DEFINE u == keys[a] \o w
    <2>3. u \in Seq(Key) /\ Len(u) = Len(keys[a]) + 1
      BY <2>2
    <2> HIDE DEF u
    <2>4. u \o keys[b] \in Seq(Key) /\ Len(u \o keys[b]) = Len(u) + Len(keys[b])
      BY <1>5, <2>3, ConcatType
    <2> QED
      BY <2>3, <2>4 DEF u
  <1>8. /\ ca \in Seq(Node) /\ Len(ca) = Len(children[a]) + Len(children[b])
        /\ Joins(children[a], children[b], ca)
    <2> HIDE DEF p, a, b
    <2>1. ca \in Seq(Node) /\ Len(ca) = Len(children[a]) + Len(children[b])
      BY <1>5, ConcatType
    <2>2. Joins(children[a], children[b], ca)
      BY <1>5, ConcatJoins
    <2> QED
      BY <2>1, <2>2
  <1>9. kp \in Seq(Key) /\ Len(kp) = Len(keys[p]) - 1
    BY <1>3, <1>5, Removed
  <1>10. cp \in Seq(Node) /\ Len(cp) = Len(children[p]) - 1 /\ Drops(children[p], b, cp)
    BY <1>3, <1>5, Removed, RemoveDrops
  <1>11. e \in Seq(Key) /\ e \in Seq(Node) /\ IsInjective(e) /\ \A x : x \notin Range(e)
    BY EmptyEntries, SMT
  <1>12. c1[p] = cp /\ \A n \in Node : n # p => c1[n] = children[n]
    BY <1>2, <1>3 DEF TypeOK
  <1> HIDE DEF p, a, b, w, ka, kp, ca, cp, e, c1
  <1>13. Len(ka) <= BranchCap /\ Len(ca) = Len(ka) + 1
    <2> DEFINE m == Len(keys[a])
               n == Len(keys[b])
    <2>1. /\ m \in Nat /\ n \in Nat /\ Len(ka) = m + 1 + n /\ m + 1 + n <= BranchCap
          /\ Len(ca) = (m + 1) + (n + 1)
      BY <1>5, <1>6, <1>7, <1>8
    <2> HIDE DEF m, n
    <2> QED
      BY <2>1, SMT
  <1>14. Len(kp) <= BranchCap /\ Len(cp) = Len(kp) + 1
    <2> DEFINE m == Len(keys[p])
    <2>1. m \in Nat /\ m <= BranchCap /\ Len(kp) = m - 1 /\ Len(cp) = (m + 1) - 1
      BY <1>5, <1>9, <1>10
    <2> HIDE DEF m
    <2> QED
      BY <2>1, Caps, SMT
  <1>15. /\ keys' \in [Node -> Seq(Key)] /\ Thrice(keys, keys', a, ka, b, e, p, kp)
         /\ children' \in [Node -> Seq(Node)] /\ Thrice(children, children', a, ca, b, e, p, cp)
    <2>1. keys \in [Node -> Seq(Key)] /\ children \in [Node -> Seq(Node)]
      BY <1>2 DEF TypeOK
    <2>2. keys' \in [Node -> Seq(Key)] /\ Thrice(keys, keys', a, ka, b, e, p, kp)
      BY <1>3, <1>4, <1>7, <1>9, <1>11, <2>1 DEF Thrice
    <2>3. children' \in [Node -> Seq(Node)] /\ Thrice(children, children', a, ca, b, e, p, cp)
      BY <1>3, <1>4, <1>8, <1>10, <1>11, <2>1 DEF Thrice
    <2> QED
      BY <2>2, <2>3
  <1>16. /\ tag' \in [Node -> {"free", "leaf", "branch"}]
         /\ tag'[b] = "free" /\ \A n \in Node : n # b => tag'[n] = tag[n]
    BY <1>1, <1>2, <1>3 DEF TypeOK
  <1>17. HeapTypes'
    BY <1>1, <1>2, <1>15, <1>16 DEF TypeOK, HeapTypes
  <1>18. Shape'
    <2> SUFFICES ASSUME NEW m \in Node
                 PROVE  \/ tag'[m] = "free" /\ keys'[m] = <<>> /\ vals'[m] = <<>> /\ children'[m] = <<>>
                        \/ /\ tag'[m] = "leaf" /\ children'[m] = <<>>
                           /\ Len(vals'[m]) = Len(keys'[m]) /\ Len(keys'[m]) <= LeafCap
                        \/ /\ tag'[m] = "branch" /\ vals'[m] = <<>>
                           /\ Len(children'[m]) = Len(keys'[m]) + 1 /\ Len(keys'[m]) <= BranchCap
      BY DEF Shape
    <2>1. CASE m = a
      BY <1>1, <1>3, <1>5, <1>13, <1>15, <1>16, <2>1 DEF Thrice
    <2>2. CASE m = b
      BY <1>1, <1>3, <1>5, <1>15, <1>16, <2>2 DEF Thrice, e
    <2>3. CASE m = p
      BY <1>1, <1>3, <1>5, <1>14, <1>15, <1>16, <2>3 DEF Thrice
    <2>4. CASE m # a /\ m # b /\ m # p
      BY <1>1, <1>2, <1>15, <1>16, <2>4 DEF Shape, Thrice
    <2> QED
      BY <2>1, <2>2, <2>3, <2>4
  <1>19. /\ children'[a] = ca /\ children'[b] = e /\ children'[p] = cp
         /\ \A n \in Node : n # a /\ n # b /\ n # p => children'[n] = children[n]
    BY <1>15 DEF Thrice
  <1>20. OneOwner(c1) /\ Loose(c1, b)
    <2>1. Drops(children[p], b, c1[p]) /\ Elsewhere(children, c1, {p})
      BY <1>10, <1>12 DEF Elsewhere
    <2> QED
      BY <1>2, <1>3, <2>1, OwnersDrop
  <1>21. OneOwner(children')
    <2>1. Joins(c1[a], c1[b], children'[a])
      BY <1>3, <1>8, <1>12, <1>19
    <2>2. IsInjective(children'[b]) /\ \A x : x \notin Range(children'[b])
      BY <1>11, <1>19
    <2>3. Elsewhere(c1, children', {a, b})
      BY <1>12, <1>19 DEF Elsewhere
    <2> QED
      BY <1>3, <1>20, <2>1, <2>2, <2>3, OwnersJoin
  <1>22. \A n \in Node : \A y \in Range(children'[n]) :
            y \in Range(c1[n]) \/ (n = a /\ y \in Range(c1[b]))
    <2>1. \A y : y \in Range(ca) => y \in Range(children[a]) \/ y \in Range(children[b])
      BY <1>8 DEF Joins
    <2> QED
      BY <1>3, <1>11, <1>12, <1>19, <2>1
  <1>23. Loose(children', b)
    BY <1>3, <1>20, <1>22 DEF Loose
  <1>24. StaysOnLevel(lvl, children, children')
    <2>1. \A y : y \in Range(cp) => y \in Range(children[p])
      BY <1>2, <1>3, <1>10 DEF OneOwner, Drops
    <2>2. \A n \in Node : \A y \in Range(c1[n]) : y \in Range(children[n])
      BY <1>12, <2>1
    <2>3. ASSUME NEW n \in Node, NEW y \in Range(children'[n])
          PROVE  \E m \in Node : y \in Range(children[m]) /\ lvl[m] = lvl[n]
      BY <1>3, <1>22, <2>2, <2>3
    <2> QED
      BY <2>3 DEF StaysOnLevel
  <1>25. Repairs(lvl, {b})
    <2>1. \A n \in Node : lvl[n] > lvl[p] => children'[n] = children[n]
      BY <1>3, <1>19
    <2>2. b \in Range(children[Parent]) /\ p = Parent
      BY <1>3 DEF p
    <2> QED
      BY <1>16, <1>23, <2>1, <2>2 DEF Repairs
  <1> QED
    BY <1>1, <1>17, <1>18, <1>21, <1>24, <1>25, FixStep

-----------------------------------------------------------------------------
(* check_root_collapse.                                                    *)

(* The root goes, some of its children with it, and one or none of them is *)
(* the root from then on.                                                  *)
Collapses(kept, gone) ==
  /\ root' = kept
  /\ \A n \in Node : n \in gone \/ n = root => tag'[n] = "free"
  /\ \A n \in Node : n \notin gone /\ n # root => tag'[n] = tag[n]
  /\ children'[root] = <<>>
  /\ \A n \in Node : n # root => children'[n] = children[n]

LEMMA RootGoes ==
  ASSUME NEW lvl \in [Node -> Nat], InvAt(lvl), pc = "fix", Return(ret),
         NEW kept, kept = Null \/ kept \in Range(children[root]),
         NEW gone \in SUBSET Range(children[root]), kept \notin gone,
         Collapses(kept, gone), HeapTypes', Shape'
  PROVE  InvAt(lvl)'
  <1>1. /\ TypeOK /\ Shape /\ Rooted /\ OneOwner(children) /\ Levels(lvl, tag, children)
    BY DEF InvAt
  <1>2. root \in Node /\ Loose(children, root)
    BY <1>1 DEF Rooted, TypeOK
  <1>3. Leave("idle", ret)
    BY DEF Return
  <1>4. TypeOK'
    BY <1>1, <1>3, LeaveTypes DEF PCs, TypeOK
  <1>5. /\ root' = kept
        /\ \A n \in Node : n \in gone \/ n = root => tag'[n] = "free"
        /\ \A n \in Node : n \notin gone /\ n # root => tag'[n] = tag[n]
        /\ IsInjective(children'[root]) /\ \A x : x \notin Range(children'[root])
        /\ \A n \in Node : n # root => children'[n] = children[n]
    BY EmptyEntries DEF Collapses
  <1>6. OneOwner(children')
    BY <1>1, <1>2, <1>5, OwnersBlank DEF Elsewhere
  <1>7. Levels(lvl, tag', children')
    <2>1. StaysOnLevel(lvl, children, children')
      BY <1>5 DEF StaysOnLevel
    <2>2. \A n \in Node : tag'[n] = "leaf" => tag[n] = "leaf"
      BY <1>5
    <2> QED
      BY <1>1, <2>1, <2>2, LevelsStay
  <1>8. \A n \in Node : \A x \in Range(children'[n]) :
          n # root /\ x \in Range(children[n])
    BY <1>5
  <1>9. \A n \in Node : \A x \in Range(children[n]) : x \in Node /\ tag[x] # "free"
    BY <1>1 DEF Rooted, Live
  <1>10. Rooted'
    <2>1. kept # Null => tag'[kept] # "free"
      BY <1>2, <1>5, <1>9 DEF Loose
    <2>2. Loose(children', kept)
      BY <1>1, <1>2, <1>8, <1>9, NodeAssumption DEF Loose, OneOwner
    <2>3. ASSUME NEW n \in Node, NEW x \in Range(children'[n])  PROVE x \in Live'
      <3>1. n # root /\ x \in Range(children[n]) /\ x \in Node /\ tag[x] # "free"
        BY <1>8, <1>9, <2>3
      <3>2. x \notin gone /\ x # root
        BY <1>1, <1>2, <3>1 DEF Loose, OneOwner
      <3> QED
        BY <1>5, <3>1, <3>2 DEF Live
    <2>4. pc' = "idle"
      BY <1>3 DEF Leave
    <2> QED
      BY <1>5, <2>1, <2>2, <2>3, <2>4 DEF Rooted
  <1>11. Carried(lvl)' /\ Walked(lvl)' /\ pc' # "free"
    BY <1>3 DEF Carried, Walked, Walking, Leave
  <1> QED
    BY <1>4, <1>6, <1>7, <1>10, <1>11 DEF InvAt, OneOwner, Levels

LEMMA CollapseRootSafe ==
  ASSUME NEW lvl \in [Node -> Nat], InvAt(lvl), CollapseRoot
  PROVE  InvAt(lvl)'
  <1> DEFINE cs == children[root]
             kept == IF Survivors = {} THEN Null
                     ELSE cs[CHOOSE i \in Survivors : TRUE]
             gone == {cs[i] : i \in DOMAIN cs \ Survivors}
  <1>1. /\ pc = "fix" /\ tag[root] = "branch" /\ Return(ret)
        /\ root' = kept
        /\ tag' = [n \in Node |-> IF n \in gone \cup {root} THEN "free" ELSE tag[n]]
        /\ next' = Unlinked(next, prev, gone)
        /\ prev' = [n \in Node |-> IF n = kept THEN Null ELSE Unlinked(prev, next, gone)[n]]
        /\ keys' = Blank(keys, root) /\ children' = Blank(children, root)
        /\ UNCHANGED vals
    BY DEF CollapseRoot, Repaired, RootLow
  <1>2. TypeOK /\ Shape /\ Rooted /\ OneOwner(children)
    BY DEF InvAt
  <1>3. root \in Node /\ Loose(children, root)
    BY <1>1, <1>2 DEF Rooted, TypeOK
  <1>4. /\ cs \in Seq(Node) /\ vals[root] = <<>>
        /\ \A i, j \in DOMAIN cs : cs[i] = cs[j] => i = j
        /\ \A i \in DOMAIN cs : cs[i] \in Range(cs) /\ cs[i] \in Node /\ tag[cs[i]] # "free"
    <2>1. cs \in Seq(Node) /\ vals[root] = <<>> /\ IsInjective(cs)
      BY <1>1, <1>2, <1>3, BlockTypes DEF OneOwner
    <2>2. \A x \in Range(cs) : x \in Node /\ tag[x] # "free"
      BY <1>1, <1>2, <1>3 DEF Rooted, Live
    <2> HIDE DEF cs
    <2> QED
      BY <2>1, <2>2, Entries
  <1>5. /\ \A i \in Survivors : i \in DOMAIN cs
        /\ \A i \in DOMAIN cs : i \notin Survivors =>
             tag[cs[i]] # "branch" /\ keys[cs[i]] = <<>>
    BY DEF Survivors
  <1>6. /\ \A x \in gone : x \in Range(cs) /\ x \in Node /\ tag[x] = "leaf" /\ keys[x] = <<>>
        /\ kept = Null \/ (kept \in Range(cs) /\ kept \in Node)
        /\ kept \notin gone
    <2>1. ASSUME NEW x \in gone
          PROVE  x \in Range(cs) /\ x \in Node /\ tag[x] = "leaf" /\ keys[x] = <<>>
      BY <1>2, <1>4, <1>5 DEF TypeOK
    <2>2. CASE Survivors = {}
      BY <1>4, <2>1, <2>2, NodeAssumption
    <2>3. CASE Survivors # {}
      <3> DEFINE i == CHOOSE i \in Survivors : TRUE
      <3>1. i \in Survivors /\ kept = cs[i]
        BY <2>3
      <3> HIDE DEF i, kept
      <3> QED
        BY <1>4, <1>5, <2>1, <3>1
    <2> QED
      BY <2>1, <2>2, <2>3
  <1>7. \A x \in gone : vals[x] = <<>> /\ children[x] = <<>>
    <2>1. ASSUME NEW x \in gone
          PROVE vals[x] = <<>> /\ children[x] = <<>>
      <3>1. x \in Node /\ tag[x] = "leaf" /\ keys[x] = <<>>
        BY <1>6, <2>1
      <3>2. vals[x] \in Seq(Val) /\ children[x] = <<>> /\ Len(vals[x]) = Len(keys[x])
        BY <1>2, <3>1, BlockTypes
      <3>3. Len(keys[x]) = 0
        BY <3>1, SMT
      <3>4. vals[x] = <<>>
        BY <3>2, <3>3, EmptySeq
      <3> QED
        BY <3>2, <3>4
    <2> QED
      BY <2>1
  <1>8. gone \in SUBSET Range(cs) /\ gone \in SUBSET Node
    BY <1>6
  <1> HIDE DEF kept, gone
  <1>9. /\ \A n \in Node : n \in gone \/ n = root => tag'[n] = "free"
        /\ \A n \in Node : n \notin gone /\ n # root => tag'[n] = tag[n]
        /\ tag' \in [Node -> {"free", "leaf", "branch"}]
    BY <1>1, <1>2 DEF TypeOK
  <1>10. /\ keys' \in [Node -> Seq(Key)] /\ children' \in [Node -> Seq(Node)]
         /\ keys'[root] = <<>> /\ children'[root] = <<>>
         /\ \A n \in Node : n # root => keys'[n] = keys[n] /\ children'[n] = children[n]
    BY <1>1, <1>2, <1>3 DEF TypeOK, Blank
  <1>11. next' \in [Node -> Node \cup {Null}] /\ prev' \in [Node -> Node \cup {Null}]
    <2>1. next \in [Node -> Node \cup {Null}] /\ prev \in [Node -> Node \cup {Null}]
      BY <1>2 DEF TypeOK
    <2>2. next' \in [Node -> Node \cup {Null}]
      BY <1>1, <1>8, <2>1, UnlinkedType
    <2> DEFINE u == Unlinked(prev, next, gone)
    <2>3. u \in [Node -> Node \cup {Null}]
      BY <1>8, <2>1, UnlinkedType
    <2>4. prev' = [n \in Node |-> IF n = kept THEN Null ELSE u[n]]
      BY <1>1
    <2> HIDE DEF u
    <2>5. prev' \in [Node -> Node \cup {Null}]
      BY <2>3, <2>4
    <2> QED
      BY <2>2, <2>5
  <1>12. HeapTypes'
    BY <1>1, <1>2, <1>6, <1>9, <1>10, <1>11 DEF TypeOK, HeapTypes
  <1>13. Shape'
    <2> SUFFICES ASSUME NEW m \in Node
                 PROVE  \/ tag'[m] = "free" /\ keys'[m] = <<>> /\ vals'[m] = <<>> /\ children'[m] = <<>>
                        \/ /\ tag'[m] = "leaf" /\ children'[m] = <<>>
                           /\ Len(vals'[m]) = Len(keys'[m]) /\ Len(keys'[m]) <= LeafCap
                        \/ /\ tag'[m] = "branch" /\ vals'[m] = <<>>
                           /\ Len(children'[m]) = Len(keys'[m]) + 1 /\ Len(keys'[m]) <= BranchCap
      BY DEF Shape
    <2>1. CASE m = root
      BY <1>1, <1>4, <1>9, <1>10, <2>1
    <2>2. CASE m \in gone /\ m # root
      BY <1>1, <1>6, <1>7, <1>9, <1>10, <2>2
    <2>3. CASE m \notin gone /\ m # root
      <3>1. tag'[m] = tag[m] /\ keys'[m] = keys[m] /\ vals'[m] = vals[m] /\ children'[m] = children[m]
        BY <1>1, <1>9, <1>10, <2>3
      <3> QED
        BY <1>2, <3>1, Untouched
    <2> QED
      BY <2>1, <2>2, <2>3
  <1>14. Collapses(kept, gone)
    BY <1>1, <1>9, <1>10 DEF Collapses
  <1>15. kept = Null \/ kept \in Range(children[root])
    BY <1>6
  <1>16. gone \in SUBSET Range(children[root]) /\ kept \notin gone
    BY <1>6, <1>8
  <1> QED
    BY <1>1, <1>12, <1>13, <1>14, <1>15, <1>16, RootGoes

LEMMA CollapseByMergingSafe ==
  ASSUME NEW lvl \in [Node -> Nat], InvAt(lvl), CollapseByMerging
  PROVE  InvAt(lvl)'
  <1> DEFINE cs == children[root]
             a == cs[1]
             b == cs[2]
             ka == keys[a] \o keys[b]
             va == vals[a] \o vals[b]
             e == <<>>
  <1>1. /\ pc = "fix" /\ tag[root] = "branch" /\ Return(ret) /\ TwoLeavesFit
        /\ root' = a
        /\ tag' = [tag EXCEPT ![b] = "free", ![root] = "free"]
        /\ next' = Unlinked(next, prev, {b})
        /\ prev' = [Unlinked(prev, next, {b}) EXCEPT ![a] = Null]
        /\ children' = Blank(children, root)
    BY DEF CollapseByMerging, Repaired, RootLow
  <1>2. TypeOK /\ Shape /\ Rooted /\ OneOwner(children)
    BY DEF InvAt
  <1>3. root \in Node /\ Loose(children, root)
    BY <1>1, <1>2 DEF Rooted, TypeOK
  <1>4. cs \in Seq(Node) /\ vals[root] = <<>> /\ IsInjective(cs)
    BY <1>1, <1>2, <1>3, BlockTypes DEF OneOwner
  <1>5. 1 \in DOMAIN cs /\ 2 \in DOMAIN cs
    <2>1. 1 \in Survivors /\ 2 \in Survivors
      BY <1>1 DEF TwoLeavesFit
    <2> QED
      BY <2>1 DEF Survivors
  <1>6. /\ tag[a] = "leaf" /\ tag[b] = "leaf" /\ Len(keys[a]) + Len(keys[b]) <= LeafCap
    BY <1>1 DEF TwoLeavesFit
  <1>7. /\ a \in Range(cs) /\ b \in Range(cs) /\ a \in Node /\ b \in Node /\ a # b
        /\ a # root /\ b # root
    <2>1. a \in Range(cs) /\ b \in Range(cs) /\ a # b
      <3> HIDE DEF cs
      <3>1. 1 # 2
        BY SMT
      <3>2. \A i, j \in DOMAIN cs : cs[i] = cs[j] => i = j
        BY <1>4, Entries
      <3>3. \A i \in DOMAIN cs : cs[i] \in Range(cs)
        BY <1>4, Entries
      <3> QED
        BY <1>5, <3>1, <3>2, <3>3
    <2>2. Range(cs) \subseteq Node
      BY <1>1, <1>2, <1>3 DEF Rooted, Live
    <2> QED
      BY <1>3, <2>1, <2>2 DEF Loose
  <1>8. /\ keys' = [keys EXCEPT ![a] = ka, ![b] = e, ![root] = e]
        /\ vals' = [vals EXCEPT ![a] = va, ![b] = e]
    BY <1>2, <1>7 DEF CollapseByMerging, TypeOK
  <1>9. /\ keys[a] \in Seq(Key) /\ keys[b] \in Seq(Key) /\ vals[a] \in Seq(Val) /\ vals[b] \in Seq(Val)
        /\ Len(vals[a]) = Len(keys[a]) /\ Len(vals[b]) = Len(keys[b])
        /\ children[a] = <<>> /\ children[b] = <<>>
    BY <1>2, <1>6, <1>7, BlockTypes
  <1> HIDE DEF a, b
  <1>10. ka \in Seq(Key) /\ Len(ka) = Len(keys[a]) + Len(keys[b])
    BY <1>9, ConcatType
  <1>11. va \in Seq(Val) /\ Len(va) = Len(vals[a]) + Len(vals[b])
    BY <1>9, ConcatType
  <1>12. e \in Seq(Key) /\ e \in Seq(Val)
    BY SMT
  <1> HIDE DEF ka, va, e
  <1>13. Len(ka) <= LeafCap /\ Len(va) = Len(ka)
    BY <1>6, <1>9, <1>10, <1>11, Zenon
  <1>14. /\ keys' \in [Node -> Seq(Key)] /\ Thrice(keys, keys', a, ka, b, e, root, e)
         /\ vals' \in [Node -> Seq(Val)] /\ Twice(vals, vals', a, va, b, e)
    <2>1. keys \in [Node -> Seq(Key)] /\ vals \in [Node -> Seq(Val)]
      BY <1>2 DEF TypeOK
    <2>2. keys' \in [Node -> Seq(Key)] /\ Thrice(keys, keys', a, ka, b, e, root, e)
      BY <1>3, <1>7, <1>8, <1>10, <1>12, <2>1 DEF Thrice
    <2>3. vals' \in [Node -> Seq(Val)] /\ Twice(vals, vals', a, va, b, e)
      BY <1>7, <1>8, <1>11, <1>12, <2>1 DEF Twice
    <2> QED
      BY <2>2, <2>3
  <1>15. /\ tag' \in [Node -> {"free", "leaf", "branch"}]
         /\ tag'[b] = "free" /\ tag'[root] = "free"
         /\ \A n \in Node : n # b /\ n # root => tag'[n] = tag[n]
         /\ children' \in [Node -> Seq(Node)]
         /\ children'[root] = <<>> /\ \A n \in Node : n # root => children'[n] = children[n]
    <2>1. /\ tag' \in [Node -> {"free", "leaf", "branch"}]
          /\ tag'[b] = "free" /\ tag'[root] = "free"
          /\ \A n \in Node : n # b /\ n # root => tag'[n] = tag[n]
      BY <1>1, <1>2, <1>3, <1>7 DEF TypeOK
    <2>2. /\ children' \in [Node -> Seq(Node)]
          /\ children'[root] = <<>> /\ \A n \in Node : n # root => children'[n] = children[n]
      BY <1>1, <1>2, <1>3 DEF TypeOK, Blank
    <2> QED
      BY <2>1, <2>2
  <1>16. next' \in [Node -> Node \cup {Null}] /\ prev' \in [Node -> Node \cup {Null}]
    <2> DEFINE u == Unlinked(prev, next, {b})
    <2>1. {b} \in SUBSET Node
      BY <1>7
    <2>2. next \in [Node -> Node \cup {Null}] /\ prev \in [Node -> Node \cup {Null}]
      BY <1>2 DEF TypeOK
    <2>3. next' \in [Node -> Node \cup {Null}] /\ u \in [Node -> Node \cup {Null}]
      BY <1>1, <2>1, <2>2, UnlinkedType
    <2>4. prev' = [u EXCEPT ![a] = Null]
      BY <1>1
    <2> HIDE DEF u
    <2> QED
      BY <1>7, <2>3, <2>4
  <1>17. HeapTypes'
    BY <1>1, <1>7, <1>14, <1>15, <1>16 DEF HeapTypes
  <1>18. Shape'
    <2> SUFFICES ASSUME NEW m \in Node
                 PROVE  \/ tag'[m] = "free" /\ keys'[m] = <<>> /\ vals'[m] = <<>> /\ children'[m] = <<>>
                        \/ /\ tag'[m] = "leaf" /\ children'[m] = <<>>
                           /\ Len(vals'[m]) = Len(keys'[m]) /\ Len(keys'[m]) <= LeafCap
                        \/ /\ tag'[m] = "branch" /\ vals'[m] = <<>>
                           /\ Len(children'[m]) = Len(keys'[m]) + 1 /\ Len(keys'[m]) <= BranchCap
      BY DEF Shape
    <2>1. CASE m = a
      BY <1>6, <1>7, <1>9, <1>13, <1>14, <1>15, <2>1 DEF Thrice, Twice
    <2>2. CASE m = b
      BY <1>7, <1>9, <1>14, <1>15, <2>2 DEF Thrice, Twice, e
    <2>3. CASE m = root
      BY <1>4, <1>7, <1>14, <1>15, <2>3 DEF Thrice, Twice, e
    <2>4. CASE m # a /\ m # b /\ m # root
      BY <1>2, <1>14, <1>15, <2>4 DEF Shape, Thrice, Twice
    <2> QED
      BY <2>1, <2>2, <2>3, <2>4
  <1>19. Collapses(a, {b}) /\ {b} \in SUBSET Range(children[root])
         /\ a \in Range(children[root]) /\ a \notin {b}
    BY <1>1, <1>7, <1>15 DEF Collapses
  <1> QED
    BY <1>1, <1>17, <1>18, <1>19, RootGoes

-----------------------------------------------------------------------------
(* clear and Drop.                                                         *)

LEMMA DiscardSafe ==
  ASSUME NEW lvl \in [Node -> Nat], InvAt(lvl), NEW o \in Ops \cup {"drop"}, Discard(o)
  PROVE  InvAt(lvl)'
  <1>1. /\ pc \in {"idle", "oom", "overflow"} /\ pc' = "free" /\ op' = o
        /\ root' = Null /\ cur' = root /\ ret' = None
        /\ UNCHANGED <<tag, keys, vals, children, next, prev, key, val, path, sep, right>>
    BY DEF Discard, split
  <1>2. TypeOK /\ Rooted /\ OneOwner(children) /\ Levels(lvl, tag, children) /\ Shape
    BY DEF InvAt
  <1>3. path = <<>> /\ right = Null
    BY <1>1 DEF InvAt, Walked, Walking, Carried
  <1>4. \A n \in Node : \A x \in Range(children[n]) : x \in Node /\ tag[x] # "free"
    BY <1>1, <1>2 DEF Rooted, Live
  <1>5. Len(path') = 0
    BY <1>1, <1>3, SMT
  <1>6. \A i : i \notin 1 .. Len(path') /\ i \notin 1 .. Len(path') - 1
    BY <1>5, SMT
  <1>7. TypeOK'
    BY <1>1, <1>2 DEF TypeOK, PCs
  <1>8. Rooted'
    <2>1. Loose(children', Null)
      BY <1>1, <1>4, NodeAssumption DEF Loose
    <2> QED
      BY <1>1, <2>1 DEF Rooted
  <1>9. Carried(lvl)' /\ Walked(lvl)'
    BY <1>1, <1>3 DEF Carried, Walked, Walking
  <1>10. BeingFreed(lvl)'
    <2>1. cur' # Null => tag'[cur'] # "free"
      BY <1>1, <1>2 DEF Rooted
    <2>2. Loose(children', cur')
      BY <1>1, <1>2 DEF Rooted
    <2>3. \A n \in Node : Range(children'[n]) \subseteq Live'
      BY <1>1, <1>4 DEF Live
    <2> QED
      BY <1>1, <1>3, <1>6, <2>1, <2>2, <2>3 DEF BeingFreed
  <1>11. Shape' /\ OneOwner(children)' /\ Levels(lvl, tag, children)'
    BY <1>1, <1>2 DEF Shape, OneOwner, Levels
  <1> QED
    BY <1>1, <1>7, <1>8, <1>9, <1>10, <1>11 DEF InvAt

(* The frames while a tree is freed.                                       *)
LEMMA FreeFacts ==
  ASSUME NEW lvl \in [Node -> Nat], InvAt(lvl), pc = "free"
  PROVE  /\ TypeOK /\ Shape /\ OneOwner(children) /\ Levels(lvl, tag, children)
         /\ BeingFreed(lvl) /\ root = Null /\ right = Null
         /\ path \in Seq(Frame) /\ Len(path) \in Nat
         /\ \A i \in 1 .. Len(path) :
              /\ path[i].node \in Node /\ path[i].pos \in Nat /\ Unfreed(lvl, i)
              /\ children[path[i].node] \in Seq(Node)
         /\ \A i, j \in 1 .. Len(path) : path[i].node = path[j].node => i = j
  <1>1. /\ TypeOK /\ Shape /\ OneOwner(children) /\ Levels(lvl, tag, children)
        /\ BeingFreed(lvl) /\ root = Null /\ right = Null
    BY DEF InvAt, Rooted, Carried
  <1>2. path \in Seq(Frame) /\ Len(path) \in Nat
    BY <1>1, LenProperties DEF TypeOK
  <1>3. ASSUME NEW i \in 1 .. Len(path)
        PROVE  /\ path[i].node \in Node /\ path[i].pos \in Nat /\ Unfreed(lvl, i)
               /\ children[path[i].node] \in Seq(Node)
    BY <1>1, FrameTypes, BlockTypes DEF BeingFreed
  <1>4. ASSUME NEW i \in 1 .. Len(path), NEW j \in 1 .. Len(path), path[i].node = path[j].node
        PROVE  i = j
    <2> DEFINE m == lvl[path[i].node]
               l == lvl[path[1].node]
    <2>1. m \in Nat /\ m + i = l + 1 /\ m + j = l + 1
      BY <1>3, <1>4 DEF Unfreed
    <2>2. 1 \in 1 .. Len(path)
      BY <1>2, SMT
    <2>3. l \in Nat
      BY <1>3, <2>2
    <2> HIDE DEF m, l
    <2> QED
      BY <1>2, <2>1, <2>3, SMT
  <1> QED
    BY <1>1, <1>2, <1>3, <1>4

(* The child a frame is at has no other owner, and is not among the        *)
(* children that are left.                                                 *)
LEMMA ChildOnce ==
  ASSUME NEW lvl \in [Node -> Nat], InvAt(lvl), pc = "free",
         NEW k \in 1 .. Len(path), NEW x, x = children[path[k].node][path[k].pos]
  PROVE  /\ x \in Node
         /\ \A i \in 1 .. Len(path) :
              \A j \in path[i].pos + 1 .. Len(children[path[i].node]) :
                children[path[i].node][j] # x
         /\ \A n \in Node : x \in Range(children[n]) => n = path[k].node
         /\ \A i \in 1 .. Len(path) : i <= k => path[i].node # x
         /\ lvl[path[k].node] = lvl[x] + 1
  <1>1. /\ OneOwner(children) /\ Levels(lvl, tag, children) /\ Len(path) \in Nat
        /\ \A i \in 1 .. Len(path) :
              /\ path[i].node \in Node /\ path[i].pos \in Nat /\ Unfreed(lvl, i)
              /\ children[path[i].node] \in Seq(Node)
        /\ \A i, j \in 1 .. Len(path) : path[i].node = path[j].node => i = j
    BY FreeFacts
  <1>2. /\ path[k].node \in Node /\ children[path[k].node] \in Seq(Node)
        /\ path[k].pos \in 1 .. Len(children[path[k].node])
    BY <1>1 DEF Unfreed
  <1>3. x \in Range(children[path[k].node]) /\ x \in Node
    BY <1>2, Entries
  <1>4. \A n \in Node : x \in Range(children[n]) => n = path[k].node
    BY <1>1, <1>2, <1>3 DEF OneOwner
  <1>5. lvl[path[k].node] = lvl[x] + 1
    BY <1>1, <1>2, <1>3 DEF Levels
  <1>6. ASSUME NEW i \in 1 .. Len(path),
               NEW j \in path[i].pos + 1 .. Len(children[path[i].node]),
               children[path[i].node][j] = x
        PROVE  FALSE
    <2>1. /\ path[i].node \in Node /\ path[i].pos \in Nat
          /\ children[path[i].node] \in Seq(Node)
      BY <1>1
    <2>2. j \in 1 .. Len(children[path[i].node]) /\ j # path[i].pos
      BY <2>1, SMT
    <2>3. x \in Range(children[path[i].node])
      BY <1>6, <2>1, <2>2, Entries
    <2>4. i = k
      BY <1>1, <1>4, <2>1, <2>3
    <2>5. IsInjective(children[path[k].node])
      BY <1>1, <1>2 DEF OneOwner
    <2>6. j = path[k].pos
      <3> DEFINE s == children[path[k].node]
                 m == path[k].pos
      <3>1. /\ s \in Seq(Node) /\ IsInjective(s) /\ m \in 1 .. Len(s) /\ j \in 1 .. Len(s)
            /\ s[j] = s[m]
        BY <1>2, <1>6, <2>2, <2>4, <2>5
      <3> HIDE DEF s, m
      <3>2. j = m
        BY <3>1, Entries
      <3> QED
        BY <3>2 DEF m
    <2> QED
      BY <2>2, <2>4, <2>6
  <1>7. ASSUME NEW i \in 1 .. Len(path), i <= k, path[i].node = x
        PROVE  FALSE
    <2> DEFINE m == lvl[path[i].node]
               n == lvl[path[k].node]
               l == lvl[path[1].node]
    <2>1. 1 \in 1 .. Len(path)
      BY <1>1, SMT
    <2>2. m \in Nat /\ n \in Nat /\ l \in Nat
      BY <1>1, <2>1
    <2>3. m + i = l + 1 /\ n + k = l + 1
      BY <1>1 DEF Unfreed
    <2>4. n = m + 1
      BY <1>5, <1>7
    <2> HIDE DEF m, n, l
    <2> QED
      BY <1>1, <1>7, <2>2, <2>3, <2>4, SMT
  <1> QED
    BY <1>3, <1>4, <1>5, <1>6, <1>7

(* What the steps of free_tree_no_drop leave alone.                        *)
LEMMA FreeStepSafe ==
  ASSUME NEW lvl \in [Node -> Nat], InvAt(lvl), pc = "free",
         UNCHANGED <<root, pc, op, key, val, sep, right, ret>>,
         HeapTypes', cur' \in Node \cup {Null}, path' \in Seq(Frame),
         Shape', OneOwner(children'), Levels(lvl, tag', children'), BeingFreed(lvl)'
  PROVE  InvAt(lvl)'
  <1>1. /\ pc = "free" /\ pc' = pc /\ root' = root /\ right' = right
        /\ op' = op /\ key' = key /\ val' = val /\ sep' = sep /\ ret' = ret
    OBVIOUS
  <1>2. TypeOK'
    BY <1>1, FreeFacts DEF TypeOK, HeapTypes
  <1>3. Rooted'
    <2>1. \A n \in Node : Range(children'[n]) \subseteq Node
      BY Entries DEF HeapTypes
    <2>2. Loose(children', Null)
      BY <2>1, NodeAssumption DEF Loose
    <2>3. root' = Null
      BY <1>1, FreeFacts
    <2> QED
      BY <1>1, <2>2, <2>3 DEF Rooted
  <1>4. Carried(lvl)' /\ Walked(lvl)'
    BY <1>1, FreeFacts DEF Carried, Walked, Walking
  <1> QED
    BY <1>1, <1>2, <1>3, <1>4 DEF InvAt, OneOwner, Levels

LEMMA FreeLeafSafe ==
  ASSUME NEW lvl \in [Node -> Nat], InvAt(lvl), FreeLeaf
  PROVE  InvAt(lvl)'
  <1>1. /\ pc = "free" /\ cur # Null /\ tag[cur] = "leaf"
        /\ tag' = [tag EXCEPT ![cur] = "free"]
        /\ keys' = Blank(keys, cur) /\ vals' = Blank(vals, cur)
        /\ next' = [next EXCEPT ![cur] = Null] /\ prev' = [prev EXCEPT ![cur] = Null]
        /\ cur' = Null
        /\ UNCHANGED <<root, children, pc, op, key, val, path, sep, right, ret>>
    BY DEF FreeLeaf, call, split
  <1>2. /\ TypeOK /\ Shape /\ OneOwner(children) /\ Levels(lvl, tag, children)
        /\ BeingFreed(lvl) /\ path \in Seq(Frame)
        /\ \A i \in 1 .. Len(path) :
              path[i].node \in Node /\ path[i].pos \in Nat /\ Unfreed(lvl, i)
    BY <1>1, FreeFacts
  <1>3. cur \in Node /\ children[cur] = <<>>
    BY <1>1, <1>2, BlockTypes DEF TypeOK
  <1>4. /\ tag' \in [Node -> {"free", "leaf", "branch"}]
        /\ tag'[cur] = "free" /\ \A n \in Node : n # cur => tag'[n] = tag[n]
    BY <1>1, <1>2, <1>3 DEF TypeOK
  <1>5. /\ keys' \in [Node -> Seq(Key)] /\ vals' \in [Node -> Seq(Val)]
        /\ keys'[cur] = <<>> /\ vals'[cur] = <<>>
        /\ \A n \in Node : n # cur => keys'[n] = keys[n] /\ vals'[n] = vals[n]
    BY <1>1, <1>2, <1>3 DEF TypeOK, Blank
  <1>6. next' \in [Node -> Node \cup {Null}] /\ prev' \in [Node -> Node \cup {Null}]
    BY <1>1, <1>2, <1>3 DEF TypeOK
  <1>7. HeapTypes'
    BY <1>1, <1>2, <1>4, <1>5, <1>6 DEF TypeOK, HeapTypes
  <1>8. Shape'
    <2> SUFFICES ASSUME NEW m \in Node
                 PROVE  \/ tag'[m] = "free" /\ keys'[m] = <<>> /\ vals'[m] = <<>> /\ children'[m] = <<>>
                        \/ /\ tag'[m] = "leaf" /\ children'[m] = <<>>
                           /\ Len(vals'[m]) = Len(keys'[m]) /\ Len(keys'[m]) <= LeafCap
                        \/ /\ tag'[m] = "branch" /\ vals'[m] = <<>>
                           /\ Len(children'[m]) = Len(keys'[m]) + 1 /\ Len(keys'[m]) <= BranchCap
      BY DEF Shape
    <2>1. CASE m = cur
      BY <1>1, <1>3, <1>4, <1>5, <2>1
    <2>2. CASE m # cur
      <3>1. tag'[m] = tag[m] /\ keys'[m] = keys[m] /\ vals'[m] = vals[m] /\ children'[m] = children[m]
        BY <1>1, <1>4, <1>5, <2>2
      <3> QED
        BY <1>2, <3>1, Untouched
    <2> QED
      BY <2>1, <2>2
  <1>9. Levels(lvl, tag', children')
    <2>1. \A n \in Node : tag'[n] = "leaf" => tag[n] = "leaf"
      BY <1>4
    <2>2. StaysOnLevel(lvl, children, children')
      BY <1>1, SameChildrenStay
    <2> QED
      BY <1>2, <2>1, <2>2, LevelsStay
  <1>10. /\ \A i \in 1 .. Len(path) :
              \A j \in path[i].pos + 1 .. Len(children[path[i].node]) :
                children[path[i].node][j] # cur
         /\ \A n \in Node : OffPath(n) => cur \notin Range(children[n])
    <2>1. CASE path = <<>>
      <3>1. Len(path) = 0 /\ Loose(children, cur)
        BY <1>2, <2>1, SMT DEF BeingFreed
      <3>2. \A i : i \notin 1 .. Len(path)
        BY <3>1, SMT
      <3> QED
        BY <3>1, <3>2 DEF Loose
    <2>2. CASE path # <<>>
      <3>1. /\ Len(path) \in 1 .. Len(path)
            /\ cur = children[path[Len(path)].node][path[Len(path)].pos]
        BY <1>1, <1>2, <2>2, TopFrame DEF BeingFreed
      <3> DEFINE k == Len(path)
      <3>2. k \in 1 .. Len(path) /\ cur = children[path[k].node][path[k].pos]
        BY <3>1
      <3> HIDE DEF k
      <3>3. /\ \A i \in 1 .. Len(path) :
                  \A j \in path[i].pos + 1 .. Len(children[path[i].node]) :
                    children[path[i].node][j] # cur
            /\ \A n \in Node : cur \in Range(children[n]) => n = path[k].node
        BY <1>1, <3>2, ChildOnce
      <3> QED
        BY <3>2, <3>3 DEF OffPath
    <2> QED
      BY <2>1, <2>2
  <1>11. \A i \in 1 .. Len(path) : Unfreed(lvl, i)'
    <2> SUFFICES ASSUME NEW i \in 1 .. Len(path)  PROVE Unfreed(lvl, i)'
      OBVIOUS
    <2>1. Unfreed(lvl, i) /\ path[i].node \in Node /\ tag[path[i].node] = "branch"
      BY <1>2 DEF Unfreed
    <2>2. tag'[path[i].node] = "branch"
      BY <1>1, <1>4, <2>1
    <2>3. ASSUME NEW j \in path[i].pos + 1 .. Len(children[path[i].node])
          PROVE  tag'[children[path[i].node][j]] # "free"
      <3> DEFINE y == children[path[i].node][j]
      <3>1. y # cur /\ tag[y] # "free"
        BY <1>10, <2>1 DEF Unfreed
      <3>2. y \in Node
        <4>1. children[path[i].node] \in Seq(Node) /\ path[i].pos \in Nat
          BY <1>2, <2>1 DEF TypeOK
        <4>2. j \in 1 .. Len(children[path[i].node])
          BY <4>1, SMT
        <4> QED
          BY <4>1, <4>2, ElementOfSeq
      <3> QED
        BY <1>4, <3>1, <3>2
    <2> QED
      BY <1>1, <2>1, <2>2, <2>3 DEF Unfreed
  <1>12. BeingFreed(lvl)'
    <2>1. \A i \in 1 .. Len(path) - 1 : Follows(i)'
      BY <1>1, <1>2 DEF BeingFreed, Follows
    <2>2. ASSUME NEW n \in Node, OffPath(n)'  PROVE Range(children'[n]) \subseteq Live'
      <3>1. OffPath(n)
        BY <1>1, <2>2 DEF OffPath
      <3>2. Range(children[n]) \subseteq Live /\ cur \notin Range(children[n])
        BY <1>2, <1>10, <3>1 DEF BeingFreed
      <3> QED
        BY <1>1, <1>4, <3>2 DEF Live
    <2>3. Loose(children', Null)
      <3>1. \A n \in Node : Range(children[n]) \subseteq Node
        BY <1>2, Entries DEF TypeOK
      <3> QED
        BY <1>1, <3>1, NodeAssumption DEF Loose
    <2>4. path' # <<>> => Loose(children', path'[1].node)
      BY <1>1, <1>2 DEF BeingFreed
    <2> QED
      BY <1>1, <1>11, <2>1, <2>2, <2>3, <2>4 DEF BeingFreed
  <1> QED
    BY <1>1, <1>2, <1>7, <1>8, <1>9, <1>12, FreeStepSafe

LEMMA FreeDescendSafe ==
  ASSUME NEW lvl \in [Node -> Nat], InvAt(lvl), FreeDescend
  PROVE  InvAt(lvl)'
  <1> DEFINE f == [node |-> cur, pos |-> 1]
             c == children[cur][1]
             n == Len(path)
  <1>1. /\ pc = "free" /\ cur # Null /\ tag[cur] = "branch"
        /\ path' = Append(path, f) /\ cur' = c
        /\ UNCHANGED <<root, tag, keys, vals, children, next, prev, pc, op, key, val, sep, right, ret>>
    BY DEF FreeDescend, heap, call, split
  <1>2. /\ TypeOK /\ Shape /\ OneOwner(children) /\ Levels(lvl, tag, children)
        /\ BeingFreed(lvl) /\ path \in Seq(Frame) /\ n \in Nat
        /\ \A i \in 1 .. n :
              path[i].node \in Node /\ path[i].pos \in Nat /\ Unfreed(lvl, i)
    BY <1>1, FreeFacts
  <1>3. cur \in Node
    BY <1>1, <1>2 DEF TypeOK
  <1>4. /\ children[cur] \in Seq(Node) /\ Len(keys[cur]) \in Nat
        /\ Len(children[cur]) = Len(keys[cur]) + 1
    BY <1>1, <1>2, <1>3, BlockTypes
  <1>5. 1 \in 1 .. Len(children[cur])
    BY <1>4, SMT
  <1>6. /\ f \in Frame /\ f.node = cur /\ f.pos = 1
    BY <1>3, SMT DEF Frame
  <1>7. path # <<>> => /\ n \in 1 .. n /\ 1 \in 1 .. n
                       /\ cur = children[path[n].node][path[n].pos]
    <2>1. ASSUME path # <<>>  PROVE n \in 1 .. n /\ 1 \in 1 .. n
      BY <1>2, <2>1, SMT
    <2>2. ASSUME path # <<>>  PROVE cur = children[path[n].node][path[n].pos]
      BY <1>1, <1>2, <2>2, TopFrame DEF BeingFreed
    <2> QED
      BY <2>1, <2>2
  <1>8. path = <<>> => n = 0
    BY SMT
  <1>9. OffPath(cur) /\ (path # <<>> => lvl[path[n].node] = lvl[cur] + 1)
    <2>1. CASE path = <<>>
      <3>1. \A i : i \notin 1 .. n
        BY <1>8, <2>1, SMT
      <3> QED
        BY <2>1, <3>1 DEF OffPath
    <2>2. CASE path # <<>>
      <3>1. \A i \in 1 .. n : i <= n
        BY <1>2, SMT
      <3>2. /\ \A i \in 1 .. n : i <= n => path[i].node # cur
            /\ lvl[path[n].node] = lvl[cur] + 1
        BY <1>1, <1>7, <2>2, ChildOnce
      <3> QED
        BY <3>1, <3>2 DEF OffPath
    <2> QED
      BY <2>1, <2>2
  <1>10. \A j \in 1 .. Len(children[cur]) :
            children[cur][j] \in Node /\ tag[children[cur][j]] # "free"
    <2>1. Range(children[cur]) \subseteq Live
      BY <1>2, <1>3, <1>9 DEF BeingFreed
    <2>2. \A j \in 1 .. Len(children[cur]) : children[cur][j] \in Range(children[cur])
      BY <1>4, Entries
    <2> QED
      BY <2>1, <2>2 DEF Live
  <1>11. c \in Node /\ tag[c] # "free"
    BY <1>5, <1>10
  <1> HIDE DEF f, c
  <1>12. /\ path' \in Seq(Frame) /\ Len(path') = n + 1
         /\ \A i \in 1 .. n : path'[i] = path[i]
         /\ path'[n + 1] = f
    BY <1>1, <1>2, <1>6, Pushed
  <1>13. path' # <<>> /\ 1 \in 1 .. n + 1
    <2>1. Len(path') # 0 /\ 1 \in 1 .. n + 1
      BY <1>2, <1>12, SMT
    <2>2. Len(<<>>) = 0
      BY SMT
    <2> QED
      BY <2>1, <2>2
  <1>14. path'[1].node = IF path = <<>> THEN cur ELSE path[1].node
    BY <1>6, <1>7, <1>8, <1>12, SMT
  <1>15. lvl[path'[1].node] + 1 = lvl[cur] + (n + 1)
    <2>1. CASE path = <<>>
      <3>1. lvl[cur] \in Nat /\ n = 0 /\ lvl[path'[1].node] = lvl[cur]
        BY <1>3, <1>8, <1>14, <2>1
      <3> QED
        BY <3>1, SMT
    <2>2. CASE path # <<>>
      <3> DEFINE l == lvl[path[1].node]
                 m == lvl[path[n].node]
                 q == lvl[cur]
      <3>1. q \in Nat /\ l \in Nat /\ m \in Nat /\ m + n = l + 1 /\ m = q + 1
        BY <1>2, <1>3, <1>7, <1>9, <2>2 DEF Unfreed
      <3>2. l + 1 = q + (n + 1)
        <4> HIDE DEF l, m, q
        <4> QED
          BY <1>2, <3>1, SMT
      <3> QED
        BY <1>14, <2>2, <3>2
    <2> QED
      BY <2>1, <2>2
  <1>16. \A i \in 1 .. n + 1 : i \in 1 .. n \/ i = n + 1
    BY <1>2, SMT
  <1>17. \A i \in 1 .. n + 1 : Unfreed(lvl, i)'
    <2>1. ASSUME NEW i \in 1 .. n  PROVE Unfreed(lvl, i)'
      <3>1. path'[1].node = path[1].node
        <4>1. path # <<>>
          BY <1>8, SMT
        <4> QED
          BY <1>14, <4>1
      <3>2. Unfreed(lvl, i) /\ path'[i] = path[i]
        BY <1>2, <1>12
      <3> QED
        BY <1>1, <3>1, <3>2 DEF Unfreed
    <2>2. ASSUME NEW i \in {n + 1}  PROVE Unfreed(lvl, i)'
      <3>1. /\ path'[i].node = cur /\ path'[i].pos = 1
            /\ tag'[cur] = "branch" /\ children' = children
        BY <1>1, <1>6, <1>12
      <3>2. \A j \in 1 + 1 .. Len(children[cur]) : j \in 1 .. Len(children[cur])
        BY <1>4, SMT
      <3>3. \A j \in 1 + 1 .. Len(children[cur]) : tag'[children[cur][j]] # "free"
        BY <1>1, <1>10, <3>2
      <3>4. lvl[cur] + i = lvl[path'[1].node] + 1
        BY <1>15
      <3> QED
        BY <1>5, <3>1, <3>3, <3>4 DEF Unfreed
    <2> QED
      BY <1>16, <2>1, <2>2
  <1>18. \A i \in 1 .. n + 1 - 1 : Follows(i)'
    <2>1. \A i \in 1 .. n + 1 - 1 : i \in 1 .. n /\ ((i \in 1 .. n - 1 /\ i + 1 \in 1 .. n) \/ i = n)
      BY <1>2, SMT
    <2>2. ASSUME NEW i \in 1 .. n - 1, i \in 1 .. n, i + 1 \in 1 .. n  PROVE Follows(i)'
      BY <1>1, <1>2, <1>12, <2>2 DEF BeingFreed, Follows
    <2>3. ASSUME NEW i \in {n}, i \in 1 .. n  PROVE Follows(i)'
      <3>1. path # <<>>
        BY <1>8, <2>3, SMT
      <3>2. path'[i + 1].node = cur /\ path'[i] = path[i]
        BY <1>6, <1>12, <2>3
      <3> QED
        BY <1>1, <1>7, <3>1, <3>2 DEF Follows
    <2> QED
      BY <2>1, <2>2, <2>3
  <1>19. cur' = children'[Top'.node][Top'.pos]
    <2>1. Top' = path'[n + 1]
      <3>1. Top' = path'[Len(path')]
        BY DEF Top, Last
      <3> QED
        BY <1>12, <3>1
    <2> QED
      BY <1>1, <1>6, <1>12, <2>1 DEF c
  <1>20. Loose(children', path'[1].node)
    BY <1>1, <1>2, <1>14 DEF BeingFreed
  <1>21. ASSUME NEW m \in Node, OffPath(m)'  PROVE Range(children'[m]) \subseteq Live'
    <2>1. ASSUME NEW i \in 1 .. n  PROVE path[i].node # m
      <3>1. i \in 1 .. Len(path')
        BY <1>2, <1>12, SMT
      <3>2. path'[i].node # m
        BY <1>21, <3>1 DEF OffPath
      <3> QED
        BY <1>12, <3>2
    <2>2. OffPath(m)
      BY <2>1 DEF OffPath
    <2> QED
      BY <1>1, <1>2, <2>2 DEF BeingFreed, Live
  <1>22. BeingFreed(lvl)'
    BY <1>1, <1>11, <1>12, <1>13, <1>17, <1>18, <1>19, <1>20, <1>21 DEF BeingFreed
  <1>23. HeapTypes' /\ Shape' /\ OneOwner(children') /\ Levels(lvl, tag', children')
    BY <1>1, <1>2 DEF HeapTypes, TypeOK, Shape, OneOwner, Levels
  <1> QED
    BY <1>1, <1>11, <1>12, <1>22, <1>23, FreeStepSafe

LEMMA FreeNextChildSafe ==
  ASSUME NEW lvl \in [Node -> Nat], InvAt(lvl), FreeNextChild
  PROVE  InvAt(lvl)'
  <1> DEFINE n == Len(path)
             p == Parent
             pos == Top.pos
             f == [path[n] EXCEPT !.pos = @ + 1]
             c == children[p][pos + 1]
  <1>1. /\ pc = "free" /\ cur = Null /\ path # <<>> /\ pos <= Len(keys[p])
        /\ path' = [path EXCEPT ![n].pos = @ + 1] /\ cur' = c
        /\ UNCHANGED <<root, tag, keys, vals, children, next, prev, pc, op, key, val, sep, right, ret>>
    BY DEF FreeNextChild, MoreChildren, heap, call, split
  <1>2. /\ TypeOK /\ Shape /\ OneOwner(children) /\ Levels(lvl, tag, children)
        /\ BeingFreed(lvl) /\ path \in Seq(Frame) /\ n \in Nat
        /\ \A i \in 1 .. n :
              path[i].node \in Node /\ path[i].pos \in Nat /\ Unfreed(lvl, i)
    BY <1>1, FreeFacts
  <1>3. /\ n \in 1 .. n /\ p \in Node /\ pos \in Nat
        /\ p = path[n].node /\ pos = path[n].pos
    BY <1>1, <1>2, TopFrame DEF Parent
  <1>4. 1 \in 1 .. n
    BY <1>2, <1>3, SMT
  <1>5. path[n] \in Frame
    BY <1>2, <1>3, ElementOfSeq
  <1>6. f \in Frame /\ f.node = p /\ f.pos = pos + 1
    BY <1>3, <1>5 DEF Frame
  <1>7. path' = [path EXCEPT ![n] = f]
    BY <1>1
  <1>8. /\ tag[p] = "branch" /\ children[p] \in Seq(Node)
        /\ Len(children[p]) = Len(keys[p]) + 1 /\ Len(keys[p]) \in Nat
        /\ \A j \in pos + 1 .. Len(children[p]) : tag[children[p][j]] # "free"
    <2>1. Unfreed(lvl, n)
      BY <1>2, <1>3
    <2>2. /\ tag[p] = "branch"
          /\ \A j \in pos + 1 .. Len(children[p]) : tag[children[p][j]] # "free"
      BY <1>3, <2>1 DEF Unfreed
    <2> QED
      BY <1>2, <1>3, <2>2, BlockTypes
  <1>9. /\ pos + 1 \in 1 .. Len(children[p]) /\ pos + 1 \in pos + 1 .. Len(children[p])
        /\ \A j \in pos + 1 + 1 .. Len(children[p]) : j \in pos + 1 .. Len(children[p])
    <2> DEFINE l == Len(children[p])
    <2>1. l \in Nat /\ pos \in Nat /\ pos < l
      BY <1>1, <1>3, <1>8
    <2> HIDE DEF l
    <2>2. /\ pos + 1 \in 1 .. l /\ pos + 1 \in pos + 1 .. l
          /\ \A j \in pos + 1 + 1 .. l : j \in pos + 1 .. l
      BY <2>1, SMT
    <2> QED
      BY <2>2 DEF l
  <1>10. c \in Node /\ tag[c] # "free"
    BY <1>8, <1>9, ElementOfSeq
  <1> HIDE DEF n, p, pos, f, c
  <1>11. /\ path' \in Seq(Frame) /\ Len(path') = n
         /\ \A i \in 1 .. n : i # n => path'[i] = path[i]
         /\ path'[n] = f
    BY <1>2, <1>3, <1>6, <1>7, Replaced DEF n
  <1>12. \A i \in 1 .. n : path'[i].node = path[i].node
    BY <1>3, <1>6, <1>11
  <1>13. \A i \in 1 .. n : Unfreed(lvl, i)'
    <2> SUFFICES ASSUME NEW i \in 1 .. n  PROVE Unfreed(lvl, i)'
      OBVIOUS
    <2>1. /\ Unfreed(lvl, i) /\ path'[i].node = path[i].node
          /\ path'[1].node = path[1].node
      BY <1>2, <1>4, <1>12
    <2>2. CASE i # n
      <3>1. path'[i] = path[i]
        BY <1>11, <2>2
      <3> QED
        BY <1>1, <2>1, <3>1 DEF Unfreed
    <2>3. CASE i = n
      <3>1. path'[i].node = p /\ path'[i].pos = pos + 1 /\ path[i].node = p
        BY <1>3, <1>6, <1>11, <2>3
      <3>2. /\ tag'[p] = "branch" /\ pos + 1 \in 1 .. Len(children'[p])
            /\ \A j \in pos + 1 + 1 .. Len(children'[p]) : tag'[children'[p][j]] # "free"
        BY <1>1, <1>8, <1>9
      <3> QED
        BY <2>1, <3>1, <3>2 DEF Unfreed
    <2> QED
      BY <2>2, <2>3
  <1>14. \A i \in 1 .. n - 1 : Follows(i)'
    <2> SUFFICES ASSUME NEW i \in 1 .. n - 1  PROVE Follows(i)'
      OBVIOUS
    <2>1. i \in 1 .. n /\ i + 1 \in 1 .. n /\ i # n
      BY <1>2, SMT
    <2>2. Follows(i)
      BY <1>2 DEF BeingFreed, n
    <2> QED
      BY <1>1, <1>11, <1>12, <2>1, <2>2 DEF Follows
  <1>15. cur' = children'[Top'.node][Top'.pos]
    <2>1. Top' = path'[n]
      <3>1. Top' = path'[Len(path')]
        BY DEF Top, Last
      <3> QED
        BY <1>11, <3>1
    <2> QED
      BY <1>1, <1>6, <1>11, <2>1 DEF c
  <1>16. path' # <<>>
    <2>1. Len(path') # 0 /\ Len(<<>>) = 0
      BY <1>2, <1>3, <1>11, SMT
    <2> QED
      BY <2>1
  <1>17. Loose(children', path'[1].node)
    BY <1>1, <1>2, <1>4, <1>12 DEF BeingFreed
  <1>18. ASSUME NEW m \in Node, OffPath(m)'  PROVE Range(children'[m]) \subseteq Live'
    <2>1. OffPath(m)
      BY <1>11, <1>12, <1>18 DEF OffPath, n
    <2> QED
      BY <1>1, <1>2, <2>1 DEF BeingFreed, Live
  <1>19. BeingFreed(lvl)'
    BY <1>1, <1>10, <1>11, <1>13, <1>14, <1>15, <1>16, <1>17, <1>18 DEF BeingFreed
  <1>20. HeapTypes' /\ Shape' /\ OneOwner(children') /\ Levels(lvl, tag', children')
    BY <1>1, <1>2 DEF HeapTypes, TypeOK, Shape, OneOwner, Levels
  <1> QED
    BY <1>1, <1>10, <1>11, <1>19, <1>20, FreeStepSafe

LEMMA FreeBranchSafe ==
  ASSUME NEW lvl \in [Node -> Nat], InvAt(lvl), FreeBranch
  PROVE  InvAt(lvl)'
  <1> DEFINE n == Len(path)
             p == Parent
  <1>1. /\ pc = "free" /\ cur = Null /\ path # <<>>
        /\ tag' = [tag EXCEPT ![p] = "free"]
        /\ keys' = Blank(keys, p) /\ children' = Blank(children, p)
        /\ path' = Front(path)
        /\ UNCHANGED <<root, vals, next, prev, pc, op, key, val, cur, sep, right, ret>>
    BY DEF FreeBranch, PopPath, call, split
  <1>2. /\ TypeOK /\ Shape /\ OneOwner(children) /\ Levels(lvl, tag, children)
        /\ BeingFreed(lvl) /\ path \in Seq(Frame) /\ n \in Nat
        /\ \A i \in 1 .. n :
              path[i].node \in Node /\ path[i].pos \in Nat /\ Unfreed(lvl, i)
        /\ \A i, j \in 1 .. n : path[i].node = path[j].node => i = j
    BY <1>1, FreeFacts
  <1>3. /\ n \in 1 .. n /\ p \in Node /\ p = path[n].node
        /\ path' \in Seq(Frame) /\ Len(path') = n - 1
        /\ \A i \in 1 .. n - 1 : path'[i] = path[i] /\ i \in 1 .. n
    BY <1>1, <1>2, TopFrame DEF Parent
  <1>4. tag[p] = "branch" /\ vals[p] = <<>>
    <2>1. Unfreed(lvl, n)
      BY <1>2, <1>3
    <2>2. tag[p] = "branch"
      BY <1>3, <2>1 DEF Unfreed
    <2> QED
      BY <1>2, <1>3, <2>2, BlockTypes
  <1>5. \A i \in 1 .. n - 1 : i # n /\ i + 1 \in 1 .. n
    BY <1>2, SMT
  <1>6. \A i \in 1 .. n - 1 : path[i].node # p
    BY <1>2, <1>3, <1>5
  (* The branch itself hangs where the frame below is at.                  *)
  <1>7. /\ \A i \in 1 .. n - 1 :
              \A j \in path[i].pos + 1 .. Len(children[path[i].node]) :
                children[path[i].node][j] # p
        /\ \A m \in Node : m # p /\ (\A i \in 1 .. n - 1 : path[i].node # m) =>
              p \notin Range(children[m])
    <2>1. CASE n - 1 \in 1 .. n - 1
      <3> DEFINE k == n - 1
      <3>1. k \in 1 .. n /\ k + 1 = n
        BY <1>2, <2>1, SMT
      <3>2. Follows(k)
        BY <1>2, <2>1 DEF BeingFreed
      <3>3. p = children[path[k].node][path[k].pos]
        BY <1>3, <3>1, <3>2 DEF Follows
      <3>4. /\ \A i \in 1 .. n :
                  \A j \in path[i].pos + 1 .. Len(children[path[i].node]) :
                    children[path[i].node][j] # p
            /\ \A m \in Node : p \in Range(children[m]) => m = path[k].node
        <4> HIDE DEF k, p
        <4> QED
          BY <1>1, <3>1, <3>3, ChildOnce
      <3> QED
        BY <1>3, <2>1, <3>4
    <2>2. CASE n - 1 \notin 1 .. n - 1
      <3>1. n = 1 /\ \A i : i \notin 1 .. n - 1
        BY <1>2, <1>3, <2>2, SMT
      <3>2. Loose(children, p)
        BY <1>1, <1>2, <1>3, <3>1 DEF BeingFreed
      <3> QED
        BY <3>1, <3>2 DEF Loose
    <2> QED
      BY <2>1, <2>2
  <1> HIDE DEF n, p
  <1>8. /\ tag' \in [Node -> {"free", "leaf", "branch"}]
        /\ tag'[p] = "free" /\ \A m \in Node : m # p => tag'[m] = tag[m]
    BY <1>1, <1>2, <1>3 DEF TypeOK
  <1>9. /\ keys' \in [Node -> Seq(Key)] /\ children' \in [Node -> Seq(Node)]
        /\ keys'[p] = <<>> /\ children'[p] = <<>>
        /\ \A m \in Node : m # p => keys'[m] = keys[m] /\ children'[m] = children[m]
    BY <1>1, <1>2, <1>3 DEF TypeOK, Blank
  <1>10. HeapTypes'
    BY <1>1, <1>2, <1>8, <1>9 DEF TypeOK, HeapTypes
  <1>11. Shape'
    <2> SUFFICES ASSUME NEW m \in Node
                 PROVE  \/ tag'[m] = "free" /\ keys'[m] = <<>> /\ vals'[m] = <<>> /\ children'[m] = <<>>
                        \/ /\ tag'[m] = "leaf" /\ children'[m] = <<>>
                           /\ Len(vals'[m]) = Len(keys'[m]) /\ Len(keys'[m]) <= LeafCap
                        \/ /\ tag'[m] = "branch" /\ vals'[m] = <<>>
                           /\ Len(children'[m]) = Len(keys'[m]) + 1 /\ Len(keys'[m]) <= BranchCap
      BY DEF Shape
    <2>1. CASE m = p
      BY <1>1, <1>4, <1>8, <1>9, <2>1
    <2>2. CASE m # p
      <3>1. tag'[m] = tag[m] /\ keys'[m] = keys[m] /\ vals'[m] = vals[m] /\ children'[m] = children[m]
        BY <1>1, <1>8, <1>9, <2>2
      <3> QED
        BY <1>2, <3>1, Untouched
    <2> QED
      BY <2>1, <2>2
  <1>12. /\ IsInjective(children'[p]) /\ \A x : x \notin Range(children'[p])
    BY <1>9, EmptyEntries
  <1>13. OneOwner(children')
    <2>1. Elsewhere(children, children', {p})
      BY <1>9 DEF Elsewhere
    <2> QED
      BY <1>2, <1>3, <1>12, <2>1, OwnersBlank
  <1>14. \A m \in Node : \A x \in Range(children'[m]) : m # p /\ x \in Range(children[m])
    BY <1>9, <1>12
  <1>15. Levels(lvl, tag', children')
    <2>1. \A m \in Node : tag'[m] = "leaf" => tag[m] = "leaf"
      BY <1>8
    <2>2. StaysOnLevel(lvl, children, children')
      BY <1>14 DEF StaysOnLevel
    <2> QED
      BY <1>2, <2>1, <2>2, LevelsStay
  <1>16. \A i \in 1 .. n - 1 : Unfreed(lvl, i)'
    <2> SUFFICES ASSUME NEW i \in 1 .. n - 1  PROVE Unfreed(lvl, i)'
      OBVIOUS
    <2> DEFINE q == path[i].node
    <2>1. /\ Unfreed(lvl, i) /\ path'[i] = path[i] /\ q \in Node /\ q # p
          /\ path[i].pos \in Nat
      BY <1>2, <1>3, <1>6
    <2>2. path'[1].node = path[1].node
      <3>1. 1 \in 1 .. n - 1
        BY <1>2, SMT
      <3> QED
        BY <1>3, <3>1
    <2>3. tag'[q] = tag[q] /\ children'[q] = children[q] /\ children[q] \in Seq(Node)
      BY <1>2, <1>8, <1>9, <2>1 DEF TypeOK
    <2>4. ASSUME NEW j \in path[i].pos + 1 .. Len(children[q])
          PROVE  tag'[children[q][j]] # "free"
      <3>1. children[q][j] # p /\ tag[children[q][j]] # "free"
        BY <1>7, <2>1 DEF Unfreed
      <3>2. j \in 1 .. Len(children[q])
        BY <2>1, <2>3, SMT
      <3>3. children[q][j] \in Node
        BY <2>3, <3>2, ElementOfSeq
      <3> QED
        BY <1>8, <3>1, <3>3
    <2> QED
      BY <2>1, <2>2, <2>3, <2>4 DEF Unfreed
  <1>17. \A i \in 1 .. n - 1 - 1 : Follows(i)'
    <2> SUFFICES ASSUME NEW i \in 1 .. n - 1 - 1  PROVE Follows(i)'
      OBVIOUS
    <2>1. i \in 1 .. n - 1 /\ i + 1 \in 1 .. n - 1
      BY <1>2, SMT
    <2>2. Follows(i)
      BY <1>2, <2>1 DEF BeingFreed, n
    <2>3. children'[path[i].node] = children[path[i].node]
      BY <1>2, <1>3, <1>6, <1>9, <2>1
    <2> QED
      BY <1>3, <2>1, <2>2, <2>3 DEF Follows
  <1>18. path' # <<>> => Loose(children', path'[1].node)
    <2>1. ASSUME path' # <<>>  PROVE Loose(children', path'[1].node)
      <3>1. 1 \in 1 .. n - 1
        BY <1>2, <1>3, <2>1, SMT
      <3>2. path'[1] = path[1] /\ Loose(children, path[1].node)
        BY <1>1, <1>2, <1>3, <3>1 DEF BeingFreed
      <3> QED
        BY <1>14, <3>2 DEF Loose
    <2> QED
      BY <2>1
  <1>19. Loose(children', Null)
    <2>1. \A m \in Node : Range(children'[m]) \subseteq Node
      BY <1>9, Entries
    <2> QED
      BY <2>1, NodeAssumption DEF Loose
  <1>20. ASSUME NEW m \in Node, OffPath(m)'  PROVE Range(children'[m]) \subseteq Live'
    <2>1. \A i \in 1 .. n - 1 : path[i].node # m
      BY <1>3, <1>20 DEF OffPath
    <2>2. CASE m = p
      BY <1>12, <2>2
    <2>3. CASE m # p
      <3>1. \A i \in 1 .. n : i \in 1 .. n - 1 \/ i = n
        BY <1>2, SMT
      <3>2. OffPath(m)
        BY <1>3, <2>1, <2>3, <3>1 DEF OffPath, n
      <3>3. Range(children[m]) \subseteq Live /\ p \notin Range(children[m])
        BY <1>2, <1>7, <2>1, <2>3, <3>2 DEF BeingFreed
      <3> QED
        BY <1>8, <1>14, <3>3 DEF Live
    <2> QED
      BY <2>2, <2>3
  <1>21. BeingFreed(lvl)'
    BY <1>1, <1>3, <1>16, <1>17, <1>18, <1>19, <1>20 DEF BeingFreed
  <1> QED
    BY <1>1, <1>2, <1>3, <1>10, <1>11, <1>13, <1>15, <1>21, FreeStepSafe DEF TypeOK

LEMMA FreeDoneSafe ==
  ASSUME NEW lvl \in [Node -> Nat], InvAt(lvl), FreeDone
  PROVE  InvAt(lvl)'
  <1> DEFINE where == IF op = "drop" THEN "dropped" ELSE "idle"
  <1>1. /\ pc = "free" /\ path = <<>> /\ Leave(where, None)
        /\ UNCHANGED <<root, tag, keys, vals, children, next, prev>>
    BY DEF FreeDone, heap
  <1>2. where \in {"idle", "dropped"} /\ where \in PCs
    BY DEF PCs
  <1> HIDE DEF where
  <1>3. /\ TypeOK /\ Shape /\ OneOwner(children) /\ Levels(lvl, tag, children)
        /\ BeingFreed(lvl) /\ root = Null
    BY <1>1, FreeFacts
  <1>4. TypeOK'
    BY <1>1, <1>2, <1>3, LeaveTypes DEF TypeOK, HeapTypes
  <1>5. \A n \in Node : Range(children[n]) \subseteq Live
    <2>1. \A i : i \notin 1 .. Len(path)
      BY <1>1, SMT
    <2>2. \A n \in Node : OffPath(n)
      BY <2>1 DEF OffPath
    <2> QED
      BY <1>3, <2>2 DEF BeingFreed
  <1>6. Rooted'
    <2>1. Loose(children, Null)
      BY <1>5, NodeAssumption DEF Loose, Live
    <2> QED
      BY <1>1, <1>2, <1>3, <1>5, <2>1 DEF Rooted, Leave, Loose, Live
  <1>7. Carried(lvl)' /\ Walked(lvl)' /\ pc' # "free"
    BY <1>1, <1>2 DEF Carried, Walked, Walking, Leave
  <1> QED
    BY <1>1, <1>3, <1>4, <1>6, <1>7 DEF InvAt, Shape, OneOwner, Levels

-----------------------------------------------------------------------------
(* The invariant.                                                          *)

LEMMA InitSafe ==
  ASSUME Init
  PROVE  Inv
  <1> DEFINE lvl == [n \in Node |-> 0]
  <1>1. lvl \in [Node -> Nat] /\ \A n \in Node : lvl[n] = 0
    OBVIOUS
  <1>2. /\ \A n \in Node : /\ tag[n] \in {"free", "leaf"} /\ keys[n] = <<>>
                           /\ vals[n] = <<>> /\ children[n] = <<>>
        /\ root \in Node \cup {Null} /\ (root # Null => tag[root] = "leaf")
    BY Defaults, NodeAssumption DEF Init
  <1>3. tag \in [Node -> {"free", "leaf", "branch"}]
    BY DEF Init
  <1>4. /\ keys \in [Node -> Seq(Key)] /\ vals \in [Node -> Seq(Val)]
        /\ children \in [Node -> Seq(Node)] /\ path \in Seq(Frame)
    BY SMT DEF Init
  <1>5. TypeOK
    BY <1>2, <1>3, <1>4, Defaults DEF Init, TypeOK, PCs
  <1>6. Len(<<>>) = 0 /\ 0 <= LeafCap
    BY Caps, SMT
  <1>7. Shape
    BY <1>2, <1>6 DEF Shape
  <1>8. OneOwner(children) /\ Levels(lvl, tag, children)
    BY <1>1, <1>2, EmptyEntries DEF OneOwner, Levels
  <1> HIDE DEF lvl
  <1>9. Rooted /\ Carried(lvl) /\ Walked(lvl) /\ pc # "free"
    BY <1>2, EmptyEntries DEF Init, Rooted, Loose, Carried, Walked, Walking
  <1> QED
    BY <1>1, <1>5, <1>7, <1>8, <1>9 DEF Inv, InvAt

(* A step that needs a block finds one at the level it wants.              *)
LEMMA GrowSafe ==
  ASSUME NEW lvl \in [Node -> Nat], InvAt(lvl),
         AllocRoot \/ SplitLeaf \/ BranchInsertAndSplit \/ NewRoot
  PROVE  Inv'
  <1>1. /\ CanAlloc /\ pc # "free" /\ TypeOK /\ Shape /\ Rooted
    BY DEF AllocRoot, SplitLeaf, BranchInsertAndSplit, NewRoot, AtLeaf, InvAt
  <1>2. ASSUME AllocRoot \/ SplitLeaf  PROVE Inv'
    <2>1. PICK l \in [Node -> Nat] : InvAt(l) /\ l[NewNode] = 0
      <3>1. 0 \in Nat
        BY SMT
      <3> QED
        BY <1>1, <3>1, Reserve
    <2>2. InvAt(l)'
      BY <1>2, <2>1, AllocRootSafe, SplitLeafSafe
    <2> QED
      BY <2>2 DEF Inv
  <1>3. ASSUME BranchInsertAndSplit  PROVE Inv'
    <2>1. Parent \in Node /\ tag[Parent] = "branch"
      BY <1>3, ParentFacts DEF BranchInsertAndSplit, Walking
    <2>2. Parent # NewNode /\ lvl[Parent] \in Nat
      BY <1>1, <2>1, NewBlock
    <2>3. PICK l \in [Node -> Nat] :
            InvAt(l) /\ l[NewNode] = lvl[Parent] /\ \A n \in Node : n # NewNode => l[n] = lvl[n]
      BY <1>1, <2>2, Reserve
    <2>4. l[NewNode] = l[Parent]
      BY <2>1, <2>2, <2>3
    <2>5. InvAt(l)'
      BY <1>3, <2>3, <2>4, BranchInsertAndSplitSafe
    <2> QED
      BY <2>5 DEF Inv
  <1>4. ASSUME NewRoot  PROVE Inv'
    <2>1. root \in Node /\ tag[root] # "free"
      BY <1>1, <1>4 DEF NewRoot, Rooted, TypeOK
    <2>2. root # NewNode
      BY <1>1, <2>1, NewBlock
    <2>3. lvl[root] + 1 \in Nat
      <3>1. lvl[root] \in Nat
        BY <2>1
      <3> QED
        BY <3>1, SMT
    <2>4. PICK l \in [Node -> Nat] :
            InvAt(l) /\ l[NewNode] = lvl[root] + 1 /\ \A n \in Node : n # NewNode => l[n] = lvl[n]
      BY <1>1, <2>3, Reserve
    <2>5. l[NewNode] = l[root] + 1
      BY <2>1, <2>2, <2>4
    <2>6. InvAt(l)'
      BY <1>4, <2>4, <2>5, NewRootSafe
    <2> QED
      BY <2>6 DEF Inv
  <1> QED
    BY <1>2, <1>3, <1>4

LEMMA StutterSafe ==
  ASSUME NEW lvl \in [Node -> Nat], InvAt(lvl), UNCHANGED vars
  PROVE  InvAt(lvl)'
  <1>1. UNCHANGED <<root, tag, keys, vals, children, next, prev, pc, op, key, val,
                    cur, path, sep, right, ret>>
    BY DEF vars, heap, call, split
  <1>2. TypeOK' /\ Shape' /\ OneOwner(children)' /\ Levels(lvl, tag, children)'
    BY <1>1 DEF InvAt, TypeOK, Shape, OneOwner, Levels
  <1>3. Rooted' /\ Carried(lvl)'
    BY <1>1 DEF InvAt, Rooted, Carried, Loose, Live
  <1>4. Walked(lvl)'
    BY <1>1 DEF InvAt, Walked, Walking, OnPath
  <1>5. pc' = "free" => BeingFreed(lvl)'
    <2>1. Top' = Top
      BY <1>1 DEF Top
    <2> QED
      BY <1>1, <2>1 DEF InvAt, BeingFreed, Unfreed, Follows, OffPath, Loose, Live
  <1> QED
    BY <1>2, <1>3, <1>4, <1>5 DEF InvAt

LEMMA StepSafe ==
  ASSUME NEW lvl \in [Node -> Nat], InvAt(lvl), Step
  PROVE  Inv'
  <1>1. CASE Quiet \/ Descend
    <2>1. InvAt(lvl)'
      BY <1>1, QuietSafe, DescendSafe
    <2> QED
      BY <2>1 DEF Inv
  <1>2. CASE InsertIntoBranch \/ RemoveHit \/ FixNothing
    <2>1. InvAt(lvl)'
      BY <1>2, InsertIntoBranchSafe, RemoveHitSafe, FixNothingSafe
    <2> QED
      BY <2>1 DEF Inv
  <1>3. CASE \/ BorrowFromLeftLeaf \/ BorrowFromRightLeaf
             \/ BorrowFromLeftBranch \/ BorrowFromRightBranch
    <2>1. InvAt(lvl)'
      BY <1>3, BorrowFromLeftLeafSafe, BorrowFromRightLeafSafe,
         BorrowFromLeftBranchSafe, BorrowFromRightBranchSafe
    <2> QED
      BY <2>1 DEF Inv
  <1>4. CASE MergeLeaves \/ MergeBranches \/ CollapseRoot \/ CollapseByMerging
    <2>1. InvAt(lvl)'
      BY <1>4, MergeLeavesSafe, MergeBranchesSafe, CollapseRootSafe, CollapseByMergingSafe
    <2> QED
      BY <2>1 DEF Inv
  <1>5. CASE FreeStep
    <2>1. InvAt(lvl)'
      BY <1>5, FreeLeafSafe, FreeDescendSafe, FreeNextChildSafe, FreeBranchSafe, FreeDoneSafe
         DEF FreeStep
    <2> QED
      BY <2>1 DEF Inv
  <1>6. CASE AllocRoot \/ SplitLeaf \/ BranchInsertAndSplit \/ NewRoot
    BY <1>6, GrowSafe
  <1> QED
    BY <1>1, <1>2, <1>3, <1>4, <1>5, <1>6 DEF Step, InsertStep, RemoveStep, Quiet

LEMMA NextSafe ==
  ASSUME Inv, [Next]_vars
  PROVE  Inv'
  <1>1. PICK lvl \in [Node -> Nat] : InvAt(lvl)
    BY DEF Inv
  <1>2. CASE Step
    BY <1>1, <1>2, StepSafe
  <1>3. CASE UNCHANGED vars
    <2>1. InvAt(lvl)'
      BY <1>1, <1>3, StutterSafe
    <2> QED
      BY <2>1 DEF Inv
  <1>4. CASE Discard("clear") \/ Discard("drop")
    <2>1. ASSUME NEW o \in {"clear", "drop"}, Discard(o)  PROVE InvAt(lvl)'
      <3>1. o \in Ops \cup {"drop"}
        BY <2>1 DEF Discard
      <3> QED
        BY <1>1, <2>1, <3>1, DiscardSafe
    <2>2. InvAt(lvl)'
      BY <1>4, <2>1
    <2> QED
      BY <2>2 DEF Inv
  <1>5. ASSUME NEW o, NEW k \in Key, NEW v \in Val, Call(o, k, v)  PROVE Inv'
    <2>1. InvAt(lvl)'
      BY <1>1, <1>5, CallSafe
    <2> QED
      BY <2>1 DEF Inv
  <1> QED
    BY <1>2, <1>3, <1>4, <1>5, Defaults DEF Next

(* Whatever the keys, the pool and the capacities, the invariant holds.    *)
THEOREM TreeInvariant == Spec => []Inv
  <1>1. Init => Inv
    BY InitSafe
  <1>2. Inv /\ [Next]_vars => Inv'
    BY NextSafe
  <1> QED
    BY <1>1, <1>2, PTL DEF Spec

(* Every variable keeps its type: in particular a slot that is in use      *)
(* holds a key, a value or a block, never something read out of a slot     *)
(* that was left behind.                                                   *)
THEOREM TreeTypes == Spec => []TypeOK
  <1>1. Inv => TypeOK
    BY DEF Inv, InvAt
  <1> QED
    BY <1>1, TreeInvariant, PTL

(* No insert or remove writes past the slots of a block, and the arrays of *)
(* a block never disagree on how many are in use.                          *)
THEOREM NoBlockOverrun == Spec => []BlocksRespected
  <1>1. Inv => BlocksRespected
    BY DEF Inv, InvAt, Shape, BlocksRespected
  <1> QED
    BY <1>1, TreeInvariant, PTL

LEMMA InvNoDangling ==
  ASSUME Inv
  PROVE  NoDangling
  <1>1. PICK lvl \in [Node -> Nat] : InvAt(lvl)
    BY DEF Inv
  <1>2. /\ TypeOK /\ Rooted /\ OneOwner(children) /\ Carried(lvl) /\ Walked(lvl)
        /\ pc = "free" => BeingFreed(lvl)
    BY <1>1 DEF InvAt
  <1>3. ASSUME pc \in {"descend", "split", "fix", "free"}
        PROVE  {cur, root, right} \cup {path[i].node : i \in DOMAIN path} \subseteq Live \cup {Null}
    <2>1. cur \in Live \cup {Null}
      BY <1>2, <1>3 DEF TypeOK, Walked, BeingFreed, Live
    <2>2. root \in Live \cup {Null}
      BY <1>2 DEF TypeOK, Rooted, Live
    <2>3. right \in Live \cup {Null}
      BY <1>2 DEF TypeOK, Carried, Live
    <2>4. DOMAIN path = 1 .. Len(path)
      BY <1>2, LenProperties DEF TypeOK
    <2>5. ASSUME NEW i \in DOMAIN path  PROVE path[i].node \in Live
      <3>1. path[i].node \in Node
        BY <1>2, <2>4, FrameTypes
      <3>2. tag[path[i].node] = "branch"
        BY <1>2, <1>3, <2>4 DEF Walked, Walking, OnPath, BeingFreed, Unfreed
      <3> QED
        BY <3>1, <3>2 DEF Live
    <2> QED
      BY <2>1, <2>2, <2>3, <2>5
  <1>4. ASSUME pc # "free"  PROVE Owned \subseteq Live /\ SoleOwners
    <2>1. Owned \subseteq Live
      BY <1>2, <1>4 DEF Owned, Kids, Rooted, Live
    <2>2. ASSUME NEW m \in Live, NEW n \in Live, NEW i \in DOMAIN children[m],
                 NEW j \in DOMAIN children[n], children[m][i] = children[n][j]
          PROVE  m = n /\ i = j
      <3>1. m \in Node /\ n \in Node
        BY DEF Live
      <3>2. children[m][i] \in Range(children[m]) /\ children[m][i] \in Range(children[n])
        BY <2>2 DEF Range
      <3>3. m = n
        BY <1>2, <3>1, <3>2 DEF OneOwner
      <3>4. IsInjective(children[m])
        BY <1>2, <3>1 DEF OneOwner
      <3> QED
        BY <2>2, <3>3, <3>4 DEF IsInjective
    <2>3. root \notin Owned /\ right \notin Owned
      <3>1. ASSUME NEW n \in Live  PROVE root \notin Kids(n)
        BY <1>2 DEF Rooted, Loose, Kids, Live
      <3>2. ASSUME NEW n \in Live  PROVE right \notin Kids(n)
        <4>1. Kids(n) \subseteq Live /\ n \in Node
          BY <1>2, <1>4 DEF Rooted, Kids, Live
        <4>2. right # Null => Loose(children, right)
          BY <1>2 DEF Carried
        <4> QED
          BY <4>1, <4>2, NodeAssumption DEF Loose, Kids, Live
      <3> QED
        BY <3>1, <3>2 DEF Owned
    <2> QED
      BY <2>1, <2>2, <2>3 DEF SoleOwners
  <1> QED
    BY <1>3, <1>4 DEF NoDangling

(* No pointer that insert, remove, clear or Drop may follow leads to a     *)
(* freed block, and every block has one owner, so none is freed twice.     *)
THEOREM NothingDangles == Spec => []NoDangling
  <1>1. Inv => NoDangling
    BY InvNoDangling
  <1> QED
    BY <1>1, TreeInvariant, PTL

(* The invariant also holds for a caller that catches panics and goes on   *)
(* with the map, as often as it likes.                                     *)
THEOREM InvariantAfterPanics == GoingOnSpec => []Inv
  <1>1. Init => Inv
    BY InitSafe
  <1>2. ASSUME Inv, GoOn  PROVE Inv'
    <2>1. PICK lvl \in [Node -> Nat] : InvAt(lvl)
      BY <1>2 DEF Inv
    <2>2. /\ pc \in {"oom", "overflow"} /\ pc' = "idle"
          /\ UNCHANGED <<root, tag, keys, vals, children, next, prev, op, key, val,
                        cur, path, sep, right, ret>>
      BY <1>2 DEF GoOn, heap, call, split
    <2>3. TypeOK' /\ Shape' /\ OneOwner(children)' /\ Levels(lvl, tag, children)'
      BY <2>1, <2>2 DEF InvAt, TypeOK, PCs, Shape, OneOwner, Levels
    <2>4. Rooted' /\ Carried(lvl)' /\ Walked(lvl)'
      BY <2>1, <2>2 DEF InvAt, Rooted, Loose, Live, Carried, Walked, Walking
    <2>5. InvAt(lvl)'
      BY <2>2, <2>3, <2>4 DEF InvAt
    <2> QED
      BY <2>5 DEF Inv
  <1>3. Inv /\ [Next \/ GoOn]_vars => Inv'
    BY <1>2, NextSafe
  <1> QED
    BY <1>1, <1>3, PTL DEF GoingOnSpec

(* So what a panic leaves behind dangles nowhere, none of it is freed      *)
(* twice, and the calls made after it overrun no block.                    *)
THEOREM PanicsLeaveNothingDangling == GoingOnSpec => [](NoDangling /\ BlocksRespected)
  <1>1. Inv => NoDangling /\ BlocksRespected
    BY InvNoDangling DEF Inv, InvAt, Shape, BlocksRespected
  <1> QED
    BY <1>1, InvariantAfterPanics, PTL

(* What the two children hold that merge: one is short of the minimum, the *)
(* other has no entry to spare.                                            *)
LEMMA MergeRoom ==
  ASSUME NEW lvl \in [Node -> Nat], InvAt(lvl), Merging, BranchCap >= 2
  PROVE  MergeFits
  <1> DEFINE m == MinLen(Fixed)
             a == Len(keys[Into])
             b == Len(keys[From])
  <1>1. Fixing /\ Seps > 0 /\ Len(keys[Fixed]) < m /\ ~LeftLends /\ ~RightLends
    BY DEF Merging, Underfull
  <1>2. /\ TypeOK /\ Shape /\ Into \in Node /\ From \in Node
        /\ tag[Into] = tag[Fixed] /\ tag[From] = tag[Fixed]
    BY MergeFacts DEF InvAt
  <1>3. /\ FixPos \in 1 .. Seps + 1 /\ Seps \in Nat /\ Fixed = Child(FixPos)
    BY <1>1, FixFacts
  <1>4. a \in Nat /\ b \in Nat
    BY <1>2, BlockTypes
  <1>5. Fixed \in Node /\ tag[Fixed] # "free"
    BY <1>1, <1>3, FixFacts
  <1>6. /\ m \in Nat
        /\ tag[Fixed] = "leaf" => m + m <= LeafCap
        /\ tag[Fixed] # "leaf" => m + m <= BranchCap
    BY <1>5, MinLenBounds
  <1>7. ASSUME NEW s, tag[s] = tag[Fixed], ~CanLend(s)  PROVE ~(Len(keys[s]) > m)
    BY <1>7 DEF CanLend
  <1>8. (a < m /\ ~(b > m)) \/ (b < m /\ ~(a > m))
    <2>1. CASE FixPos > 1
      <3>1. MergePos = FixPos - 1 /\ FixPos - 1 + 1 = FixPos
        BY <1>3, <2>1, SMT DEF MergePos
      <3>2. From = Fixed /\ Into = Child(FixPos - 1)
        BY <1>3, <3>1 DEF From, Into
      <3>3. ~CanLend(Into)
        BY <1>1, <2>1, <3>2 DEF LeftLends
      <3> QED
        BY <1>1, <1>2, <1>7, <3>2, <3>3
    <2>2. CASE ~(FixPos > 1)
      <3>1. MergePos = FixPos /\ FixPos <= Seps
        BY <1>1, <1>3, <2>2, SMT DEF MergePos
      <3>2. Into = Fixed /\ From = Child(FixPos + 1)
        BY <1>3, <3>1 DEF From, Into
      <3>3. ~CanLend(From)
        BY <1>1, <3>1, <3>2 DEF RightLends
      <3> QED
        BY <1>1, <1>2, <1>7, <3>2, <3>3
    <2> QED
      BY <2>1, <2>2
  <1> HIDE DEF m, a, b
  <1>9. a + b <= m + m /\ a + 1 + b <= m + m
    BY <1>4, <1>6, <1>8, SMT
  <1>10. /\ tag[Fixed] = "leaf" => a + b <= LeafCap
         /\ tag[Fixed] # "leaf" => a + 1 + b <= BranchCap
    BY <1>4, <1>6, <1>9, Caps, SMT
  <1> QED
    BY <1>10 DEF MergeFits, a, b

(* The panics of merge_leaf_nodes and merge_branch_nodes are dead code     *)
(* when a branch has room for two separators: whatever the sequence of     *)
(* calls, the two children of a merge fit in one block.                    *)
THEOREM MergesAlwaysFit ==
  ASSUME BranchCap >= 2
  PROVE  Spec => []MergesFit
  <1>1. Init => MergesFit
    BY DEF Init, MergesFit
  <1>2. ASSUME Inv, MergesFit, [Next]_vars  PROVE MergesFit'
    <2>1. PICK lvl \in [Node -> Nat] : InvAt(lvl)
      BY <1>2 DEF Inv
    <2>2. ~MergePanics
      BY <2>1, MergeRoom DEF MergePanics
    <2>3. CASE UNCHANGED vars
      <3>1. pc' = pc
        BY <2>3 DEF vars
      <3> QED
        BY <1>2, <3>1 DEF MergesFit
    <2>4. CASE Step
      <3>1. CASE Descend \/ MissEmpty \/ Get \/ GetMut
        BY <1>2, <3>1 DEF Descend, MissEmpty, Get, GetMut, Return, Leave, MergesFit
      <3>2. CASE InsertStep
        <4>1. CASE AllocRoot \/ InsertReplace \/ InsertIntoLeafSlot \/ SplitLeaf
          BY <1>2, <4>1
             DEF AllocRoot, InsertReplace, InsertIntoLeafSlot, SplitLeaf, Return, Leave,
                 MergesFit
        <4>2. CASE InsertIntoBranch \/ BranchInsertAndSplit
          BY <1>2, <4>2
             DEF InsertIntoBranch, BranchInsertAndSplit, Return, Leave, MergesFit
        <4>3. CASE NewRoot \/ AllocFails
          BY <1>2, <4>3 DEF NewRoot, AllocFails, Return, Leave, MergesFit
        <4> QED
          BY <3>2, <4>1, <4>2, <4>3 DEF InsertStep
      <3>3. CASE RemoveStep
        <4>1. CASE RemoveMiss \/ RemoveHit \/ FixNothing
          BY <1>2, <4>1 DEF RemoveMiss, RemoveHit, FixNothing, Return, Leave, MergesFit
        <4>2. CASE BorrowFromLeftLeaf \/ BorrowFromRightLeaf \/ MergeLeaves
          BY <1>2, <4>2 DEF BorrowFromLeftLeaf, BorrowFromRightLeaf, MergeLeaves, MergesFit
        <4>3. CASE BorrowFromLeftBranch \/ BorrowFromRightBranch \/ MergeBranches
          BY <1>2, <4>3
             DEF BorrowFromLeftBranch, BorrowFromRightBranch, MergeBranches, MergesFit
        <4>4. CASE RemoveReturns \/ CollapseRoot \/ CollapseByMerging
          BY <1>2, <4>4
             DEF RemoveReturns, CollapseRoot, CollapseByMerging, Return, Leave, MergesFit
        <4> QED
          BY <2>2, <3>3, <4>1, <4>2, <4>3, <4>4 DEF RemoveStep
      <3>4. CASE FreeStep
        BY <1>2, <3>4
           DEF FreeStep, FreeLeaf, FreeDescend, FreeNextChild, FreeBranch, FreeDone,
               Return, Leave, MergesFit
      <3> QED
        BY <2>4, <3>1, <3>2, <3>3, <3>4 DEF Step
    <2>5. CASE \E o : Discard(o) \/ \E k, v : Call(o, k, v)
      BY <2>5 DEF Discard, Call, MergesFit
    <2> QED
      BY <1>2, <2>3, <2>4, <2>5 DEF Next
  <1> QED
    BY <1>1, <1>2, TreeInvariant, PTL DEF Spec
=============================================================================
