---------------------------- MODULE Items_proofs ----------------------------
(***************************************************************************)
(* Iterators return what they promise: for every map, every bounds and     *)
(* every sequence of calls of next and next_back.                          *)
(***************************************************************************)
EXTENDS Items, NodeOps_proofs

-----------------------------------------------------------------------------
(* The chain of leaves.                                                    *)

Chain ==
  /\ leaves \in Seq(Seq(Key)) /\ seps \in Seq(Key)
  /\ leaves # <<>> => Len(leaves) = Len(seps) + 1
  /\ Ascends(seps) /\ \A m \in 1 .. Len(leaves) : Ascends(leaves[m])
  /\ \A m \in 1 .. Len(leaves) : \A k \in Range(leaves[m]) : Rank(seps, k) + 1 = m

(* Place <<m, i>> comes before place <<n, j>> in the chain.                *)
Before(m, i, n, j) == m < n \/ (m = n /\ i < j)

Place(m, i) == m \in 1 .. Len(leaves) /\ i \in 1 .. Len(leaves[m])

(* A sequence of keys is one of integers.                                  *)
LEMMA KeysAreInts ==
  ASSUME NEW s \in Seq(Key)
  PROVE  /\ s \in Seq(Int) /\ Len(s) \in Nat /\ DOMAIN s = 1 .. Len(s)
         /\ \A i \in 1 .. Len(s) : s[i] \in Key /\ s[i] \in Int
  <1>1. /\ Len(s) \in Nat /\ DOMAIN s = 1 .. Len(s) /\ s = [i \in 1 .. Len(s) |-> s[i]]
        /\ \A i \in 1 .. Len(s) : s[i] \in Key
    OBVIOUS
  <1>2. \A i \in 1 .. Len(s) : s[i] \in Int
    BY <1>1, KeysAssumption
  <1>3. s \in [1 .. Len(s) -> Int]
    BY <1>1, <1>2, Zenon
  <1>4. s \in Seq(Int)
    <2>1. Seq(Int) = UNION {[1 .. n -> Int] : n \in Nat}
      BY SeqDef, Zenon
    <2>2. \E n \in Nat : s \in [1 .. n -> Int]
      BY <1>1, <1>3
    <2> QED
      BY <2>1, <2>2, Zenon
  <1> QED
    BY <1>1, <1>2, <1>4

(* Each leaf of the chain is a sequence of keys.                           *)
LEMMA Reads ==
  ASSUME Chain
  PROVE  /\ Len(leaves) \in Nat /\ DOMAIN leaves = 1 .. Len(leaves)
         /\ \A m \in 1 .. Len(leaves) :
              /\ leaves[m] \in Seq(Key) /\ leaves[m] \in Seq(Int)
              /\ Len(leaves[m]) \in Nat /\ DOMAIN leaves[m] = 1 .. Len(leaves[m])
         /\ \A m, i : Place(m, i) => leaves[m][i] \in Key /\ leaves[m][i] \in Int
  <1>1. leaves \in Seq(Seq(Key))
    BY DEF Chain
  <1>2. Len(leaves) \in Nat /\ DOMAIN leaves = 1 .. Len(leaves)
    BY <1>1
  <1>3. \A m \in 1 .. Len(leaves) : leaves[m] \in Seq(Key)
    BY <1>1
  <1>4. \A m \in 1 .. Len(leaves) :
          /\ leaves[m] \in Seq(Int) /\ Len(leaves[m]) \in Nat
          /\ DOMAIN leaves[m] = 1 .. Len(leaves[m])
          /\ \A i \in 1 .. Len(leaves[m]) : leaves[m][i] \in Key /\ leaves[m][i] \in Int
    BY <1>3, KeysAreInts
  <1> QED
    BY <1>2, <1>3, <1>4 DEF Place

LEMMA SepsRead ==
  ASSUME Chain
  PROVE  /\ seps \in Seq(Int)
         /\ \A i, j \in 1 .. Len(seps) : i < j => seps[i] < seps[j]
  <1>1. seps \in Seq(Key)
    BY DEF Chain
  <1>2. seps \in Seq(Int) /\ DOMAIN seps = 1 .. Len(seps)
    BY <1>1, KeysAreInts
  <1> QED
    BY <1>2 DEF Chain, Ascends

(* A key goes by its rank to the leaf that holds it.                       *)
LEMMA PlaceRank ==
  ASSUME Chain, NEW m, NEW i, Place(m, i)
  PROVE  /\ Rank(seps, leaves[m][i]) = m - 1 /\ m - 1 \in 0 .. Len(seps)
  <1>1. leaves[m][i] \in Range(leaves[m])
    BY Reads, Entries DEF Place
  <1>2. Rank(seps, leaves[m][i]) + 1 = m /\ m \in Int /\ leaves[m][i] \in Int
    BY <1>1, Reads DEF Chain, Place
  <1>3. Rank(seps, leaves[m][i]) \in 0 .. Len(seps) 
    BY <1>2, SepsRead, RankBounds
  <1> QED
    BY <1>2, <1>3

(* The keys of the chain ascend, within the leaves and across them.        *)
LEMMA ChainAscends ==
  ASSUME Chain, NEW m, NEW i, Place(m, i), NEW n, NEW j, Place(n, j)
  PROVE  Before(m, i, n, j) => leaves[m][i] < leaves[n][j]
  <1>1. /\ leaves[m][i] \in Int /\ leaves[n][j] \in Int
        /\ m \in Int /\ n \in Int /\ i \in Int /\ j \in Int
    BY Reads DEF Place
  <1>2. CASE m = n /\ i < j
    <2>1. Ascends(leaves[m]) /\ i \in DOMAIN leaves[m] /\ j \in DOMAIN leaves[m]
      BY <1>2, Reads DEF Chain, Place
    <2> QED
      BY <2>1, <1>2 DEF Ascends
  <1>3. CASE m < n
    <2> DEFINE r == Rank(seps, leaves[m][i])
               q == Rank(seps, leaves[n][j])
    <2>1. /\ r = m - 1 /\ q = n - 1
          /\ m - 1 \in 0 .. Len(seps) /\ n - 1 \in 0 .. Len(seps)
      BY PlaceRank
    <2>2. seps \in Seq(Int) /\ Len(seps) \in Nat
      BY SepsRead
    <2>3. n - 1 \in 1 .. Len(seps) /\ ~(n - 1 <= m - 1) /\ n - 1 <= n - 1
      <3> PICK z \in Nat : z = Len(seps)
        BY <2>2
      <3> QED
        BY <2>1, <1>1, <1>3
    <2>4. /\ \A h \in 1 .. Len(seps) : seps[h] <= leaves[m][i] <=> h <= r
          /\ \A h \in 1 .. Len(seps) : seps[h] <= leaves[n][j] <=> h <= q
      BY <1>1, SepsRead, RankPartsKeys
    <2>5. /\ ~(seps[n - 1] <= leaves[m][i]) /\ seps[n - 1] <= leaves[n][j]
      BY <2>1, <2>3, <2>4
    <2>6. seps[n - 1] \in Int
      BY <2>2, <2>3
    <2> HIDE DEF r, q
    <2> QED
      BY <1>1, <2>5, <2>6
  <1> QED
    BY <1>2, <1>3 DEF Before

(* Each place holds a key of its own.                                      *)
LEMMA PlacesDiffer ==
  ASSUME Chain, NEW m, NEW i, Place(m, i), NEW n, NEW j, Place(n, j)
  PROVE  /\ leaves[m][i] = leaves[n][j] => m = n /\ i = j
         /\ leaves[m][i] <= leaves[n][j] <=> (Before(m, i, n, j) \/ (m = n /\ i = j))
  <1>1. /\ leaves[m][i] \in Int /\ leaves[n][j] \in Int
        /\ m \in Int /\ n \in Int /\ i \in Int /\ j \in Int
    BY Reads DEF Place
  <1>2. /\ Before(m, i, n, j) => leaves[m][i] < leaves[n][j]
        /\ Before(n, j, m, i) => leaves[n][j] < leaves[m][i]
    BY ChainAscends
  <1>3. Before(m, i, n, j) \/ Before(n, j, m, i) \/ (m = n /\ i = j)
    BY <1>1 DEF Before
  <1> QED
    BY <1>1, <1>2, <1>3

-----------------------------------------------------------------------------
(* The front.                                                              *)

(* Once the front stands at leaf l with i items of it returned, what comes *)
(* before that place has been returned if it was due, and the rest has not *)
(* been returned and is not before the start bound.  Without a leaf there  *)
(* is nothing left.                                                        *)
FrontAt(l, i, s) ==
  /\ l \in 0 .. Len(leaves) /\ i \in Nat /\ (l # 0 => i <= Len(leaves[l]))
  /\ s \in Seq(Key) /\ BeginsDue(s)
  /\ l = 0 => i = 0 /\ Range(s) = Due
  /\ l # 0 => \A m, j : Place(m, j) =>
                IF Before(m, j, l, i + 1) THEN leaves[m][j] \in Due => leaves[m][j] \in Range(s)
                ELSE leaves[m][j] \notin Range(s) /\ NotBefore(leaves[m][j], lo)

(* Within a bound is an interval of keys.                                  *)
LEMMA BoundsOrder ==
  ASSUME NEW b \in Bound
  PROVE  /\ b = Unbounded <=> b.at = "unbounded"
         /\ b.at # "unbounded" => b.at \in {"included", "excluded"} /\ b.key \in Int
         /\ \A x, y \in Int : x <= y /\ NotPast(y, b) => NotPast(x, b)
         /\ \A x, y \in Int : x <= y /\ NotBefore(x, b) => NotBefore(y, b)
  <1>1. CASE b = Unbounded
    <2>1. b.at = "unbounded"
      BY <1>1 DEF Unbounded
    <2> QED
      BY <1>1, <2>1 DEF NotPast, NotBefore
  <1>2. CASE b \in [at : {"included", "excluded"}, key : Probe]
    <2>1. b.at \in {"included", "excluded"} /\ b.key \in Probe
      BY <1>2
    <2> PICK c \in Int : c = b.key
      BY <2>1, ProbeAssumption
    <2>2. /\ \A x, y \in Int : x <= y /\ NotPast(y, b) => NotPast(x, b)
          /\ \A x, y \in Int : x <= y /\ NotBefore(x, b) => NotBefore(y, b)
      BY <2>1 DEF NotPast, NotBefore
    <2>3. b # Unbounded
      BY <2>1 DEF Unbounded
    <2> QED
      BY <2>1, <2>2, <2>3
  <1> QED
    BY <1>1, <1>2 DEF Bound

(* What is due are the keys of some places.                                *)
LEMMA DuePlaces ==
  ASSUME Chain
  PROVE  /\ \A k \in Due : \E m, j : Place(m, j) /\ k = leaves[m][j]
         /\ \A m, j : Place(m, j) => (leaves[m][j] \in Due <=>
              NotBefore(leaves[m][j], lo) /\ NotPast(leaves[m][j], hi))
         /\ Due \subseteq Key /\ Due \subseteq Int
  <1>1. \A k \in Due : \E m \in 1 .. Len(leaves) : k \in Range(leaves[m])
    BY Reads DEF Due
  <1>2. \A k \in Due : \E m, j : Place(m, j) /\ k = leaves[m][j]
    <2> TAKE k \in Due
    <2>1. PICK m \in 1 .. Len(leaves) : k \in Range(leaves[m])
      BY <1>1
    <2>2. PICK j \in 1 .. Len(leaves[m]) : k = leaves[m][j]
      BY <2>1, Reads, Entries
    <2> QED
      BY <2>1, <2>2 DEF Place
  <1>3. \A m, j : Place(m, j) => leaves[m][j] \in Range(leaves[m])
    BY Reads, Entries DEF Place
  <1>4. \A m, j : Place(m, j) => (leaves[m][j] \in Due <=>
              NotBefore(leaves[m][j], lo) /\ NotPast(leaves[m][j], hi))
    BY <1>3, Reads DEF Due, Place
  <1> QED
    BY <1>2, <1>4, Reads

(* Item j of leaf m is the next one after the first i items of leaf l.     *)
Follows(l, i, m, j) ==
  /\ Place(m, j + 1) /\ j \in Nat /\ ~Before(m, j + 1, l, i + 1)
  /\ \A n, q : Place(n, q) =>
       Before(n, q, m, j + 2) <=> (Before(n, q, l, i + 1) \/ (n = m /\ q = j + 1))
  /\ \A n, q : Place(n, q) /\ ~Before(n, q, l, i + 1) =>
       leaves[m][j + 1] <= leaves[n][q]

(* The next item: the first one of the first leaf ahead.                   *)
LEMMA FirstAhead ==
  ASSUME Chain, NEW l \in 1 .. Len(leaves), NEW i \in Nat, i <= Len(leaves[l]),
         NEW m \in Ahead(l, i), \A n \in Ahead(l, i) : m <= n,
         NEW j, j = IF m = l THEN i ELSE 0
  PROVE  Follows(l, i, m, j)
  <1>1. /\ m \in 1 .. Len(leaves) /\ m >= l /\ m \in Int /\ l \in Int
        /\ j \in Nat /\ Len(leaves[m]) > j
    BY DEF Ahead
  <1>2. Place(m, j + 1)
    <2> PICK z : z = Len(leaves[m])
      OBVIOUS
    <2>1. z \in Nat /\ z > j
      BY <1>1, Reads
    <2>2. j + 1 \in 1 .. z
      BY <1>1, <2>1
    <2> QED
      BY <1>1, <2>2 DEF Place
  <1>3. ~Before(m, j + 1, l, i + 1)
    BY <1>1 DEF Before
  <1>4. ASSUME NEW n, NEW q, Place(n, q)
        PROVE  /\ n \in Int /\ q \in Int /\ 1 <= q
               /\ l <= n /\ n < m => n = l /\ q <= i
    <2>1. /\ n \in 1 .. Len(leaves) /\ q \in 1 .. Len(leaves[n])
          /\ Len(leaves[n]) \in Nat /\ Len(leaves) \in Nat
      BY <1>4, Reads DEF Place
    <2>2. n \in Int /\ q \in Int /\ 1 <= q /\ q <= Len(leaves[n])
      BY <2>1
    <2>3. ASSUME l <= n, n < m  PROVE n = l /\ q <= i
      <3>1. n \notin Ahead(l, i)
        BY <1>1, <2>2, <2>3
      <3>2. ~(Len(leaves[n]) > (IF n = l THEN i ELSE 0))
        BY <2>1, <2>3, <3>1 DEF Ahead
      <3> PICK z : z = Len(leaves[n])
        OBVIOUS
      <3>3. z \in Nat /\ q <= z /\ ~(z > (IF n = l THEN i ELSE 0))
        BY <2>1, <2>2, <3>2
      <3> QED
        BY <2>2, <3>3
    <2> QED
      BY <2>2, <2>3
  <1>5. ASSUME NEW n, NEW q, Place(n, q)
        PROVE  Before(n, q, m, j + 2) <=> (Before(n, q, l, i + 1) \/ (n = m /\ q = j + 1))
    <2>1. /\ n \in Int /\ q \in Int /\ 1 <= q
          /\ l <= n /\ n < m => n = l /\ q <= i
      BY <1>4, <1>5
    <2> QED
      BY <1>1, <2>1 DEF Before
  <1>6. ASSUME NEW n, NEW q, Place(n, q), ~Before(n, q, l, i + 1)
        PROVE  leaves[m][j + 1] <= leaves[n][q]
    <2>1. /\ n \in Int /\ q \in Int /\ 1 <= q
          /\ l <= n /\ n < m => n = l /\ q <= i
      BY <1>4, <1>6
    <2>2. Before(m, j + 1, n, q) \/ (m = n /\ j + 1 = q)
      BY <1>1, <1>6, <2>1 DEF Before
    <2> QED
      BY <1>2, <1>6, <2>2, PlacesDiffer
  <1> QED
    BY <1>1, <1>2, <1>3, <1>5, <1>6 DEF Follows

(* The front runs out of leaves.                                           *)
LEMMA FrontRunsOut ==
  ASSUME Chain, NEW l, NEW i, NEW s, FrontAt(l, i, s), l # 0, Ahead(l, i) = {}
  PROVE  FrontAt(0, 0, s)
  <1>1. /\ l \in 1 .. Len(leaves) /\ l \in Int /\ i \in Nat /\ i <= Len(leaves[l])
        /\ s \in Seq(Key) /\ BeginsDue(s) /\ Len(leaves) \in Nat
    BY Reads DEF FrontAt
  <1>2. ASSUME NEW n, NEW q, Place(n, q)  PROVE Before(n, q, l, i + 1)
    <2>1. /\ n \in 1 .. Len(leaves) /\ q \in 1 .. Len(leaves[n])
          /\ Len(leaves[n]) \in Nat
      BY <1>2, Reads DEF Place
    <2>2. n \in Int /\ q \in Int /\ 1 <= q /\ q <= Len(leaves[n])
      BY <2>1
    <2>3. ~(n >= l) \/ ~(Len(leaves[n]) > (IF n = l THEN i ELSE 0))
      BY <2>1 DEF Ahead
    <2> PICK z : z = Len(leaves[n])
      OBVIOUS
    <2>4. z \in Nat /\ q <= z /\ (~(n >= l) \/ ~(z > (IF n = l THEN i ELSE 0)))
      BY <2>1, <2>2, <2>3
    <2> QED
      BY <1>1, <2>2, <2>4 DEF Before
  <1>3. \A m, j : Place(m, j) => (leaves[m][j] \in Due => leaves[m][j] \in Range(s))
    BY <1>1, <1>2 DEF FrontAt
  <1>4. Due \subseteq Range(s)
    BY <1>3, DuePlaces
  <1>5. Range(s) = Due
    BY <1>1, <1>4 DEF BeginsDue
  <1> QED
    BY <1>1, <1>5 DEF FrontAt

(* The front meets a key past the end bound.                               *)
LEMMA FrontPastEnd ==
  ASSUME Chain, hi \in Bound, NEW l, NEW i, NEW s, FrontAt(l, i, s), l # 0,
         NEW m \in Ahead(l, i), \A n \in Ahead(l, i) : m <= n,
         NEW j, j = IF m = l THEN i ELSE 0, ~NotPast(leaves[m][j + 1], hi)
  PROVE  FrontAt(0, 0, s)
  <1>1. /\ l \in 1 .. Len(leaves) /\ l \in Int /\ i \in Nat /\ i <= Len(leaves[l])
        /\ s \in Seq(Key) /\ BeginsDue(s) /\ Len(leaves) \in Nat
    BY Reads DEF FrontAt
  <1>2. /\ Place(m, j + 1)
        /\ \A n, q : Place(n, q) /\ ~Before(n, q, l, i + 1) =>
              leaves[m][j + 1] <= leaves[n][q]
    <2>1. Follows(l, i, m, j)
      BY <1>1, FirstAhead
    <2> QED
      BY <2>1 DEF Follows
  <1>3. leaves[m][j + 1] \in Int /\ \A n, q : Place(n, q) => leaves[n][q] \in Int
    BY <1>2, Reads
  <1>4. \A x, y \in Int : x <= y /\ NotPast(y, hi) => NotPast(x, hi)
    BY BoundsOrder
  <1>5. \A n, q : Place(n, q) /\ leaves[n][q] \in Due => Before(n, q, l, i + 1)
    BY <1>2, <1>3, <1>4, DuePlaces
  <1>6. \A n, q : Place(n, q) /\ leaves[n][q] \in Due => leaves[n][q] \in Range(s)
    BY <1>1, <1>5 DEF FrontAt
  <1>7. Due \subseteq Range(s)
    BY <1>6, DuePlaces
  <1>8. Range(s) = Due
    BY <1>1, <1>7 DEF BeginsDue
  <1> QED
    BY <1>1, <1>8 DEF FrontAt

(* The front returns the next item.                                        *)
LEMMA FrontYields ==
  ASSUME Chain, NEW l, NEW i, NEW s, FrontAt(l, i, s), l # 0,
         NEW m \in Ahead(l, i), \A n \in Ahead(l, i) : m <= n,
         NEW j, j = IF m = l THEN i ELSE 0, NotPast(leaves[m][j + 1], hi)
  PROVE  FrontAt(m, j + 1, Append(s, leaves[m][j + 1]))
  <1> DEFINE k == leaves[m][j + 1]
             t == Append(s, k)
  <1>1. /\ l \in 1 .. Len(leaves) /\ l \in Int /\ i \in Nat /\ i <= Len(leaves[l])
        /\ s \in Seq(Key) /\ BeginsDue(s) /\ Len(leaves) \in Nat
    BY Reads DEF FrontAt
  <1>2. /\ Place(m, j + 1) /\ j \in Nat /\ ~Before(m, j + 1, l, i + 1)
        /\ \A n, q : Place(n, q) =>
             Before(n, q, m, j + 2) <=> (Before(n, q, l, i + 1) \/ (n = m /\ q = j + 1))
        /\ \A n, q : Place(n, q) /\ ~Before(n, q, l, i + 1) => k <= leaves[n][q]
    <2>1. Follows(l, i, m, j)
      BY <1>1, FirstAhead
    <2> QED
      BY <2>1 DEF Follows
  <1>3. /\ k \in Key /\ k \in Int /\ k \notin Range(s) /\ NotBefore(k, lo)
    BY <1>1, <1>2, Reads DEF FrontAt
  <1>4. k \in Due
    BY <1>2, <1>3, DuePlaces
  <1>5. /\ t \in Seq(Key) /\ Len(t) = Len(s) + 1 /\ t[Len(s) + 1] = k
        /\ \A h \in 1 .. Len(s) : t[h] = s[h]
        /\ Len(s) \in Nat
        /\ \A x : x \in Range(t) <=> x \in Range(s) \/ x = k
    <2> HIDE DEF k
    <2>1. s \in Seq(Key) /\ k \in Key /\ Len(s) \in Nat
      BY <1>1, <1>3
    <2>2. /\ t \in Seq(Key) /\ Len(t) = Len(s) + 1 /\ t[Len(s) + 1] = k
          /\ \A h \in 1 .. Len(s) : t[h] = s[h]
      BY <2>1, Pushed
    <2>3. Adds(s, k, t)
      BY <2>1, PushAdds
    <2> QED
      BY <2>1, <2>2, <2>3 DEF Adds
  <1>6. \A x \in Range(s) : x \in Int /\ x < k
    <2>1. k \in Due \ Range(s) /\ Range(s) \subseteq Due
      BY <1>1, <1>3, <1>4 DEF BeginsDue
    <2> QED
      BY <1>1, <2>1, DuePlaces DEF BeginsDue
  <1>7. Ascends(t)
    <2>1. DOMAIN t = 1 .. Len(s) + 1 /\ DOMAIN s = 1 .. Len(s)
      BY <1>1, <1>5, KeysAreInts
    <2>2. ASSUME NEW x \in 1 .. Len(s) + 1, NEW y \in 1 .. Len(s) + 1, x < y
          PROVE  t[x] < t[y]
      <3>1. x \in 1 .. Len(s)
        BY <1>5, <2>2
      <3>2. CASE y \in 1 .. Len(s)
        <4>1. s[x] < s[y]
          BY <1>1, <2>1, <2>2, <3>1, <3>2 DEF BeginsDue, Ascends
        <4> QED
          BY <1>5, <3>1, <3>2, <4>1
      <3>3. CASE y = Len(s) + 1
        <4>1. s[x] \in Range(s)
          BY <1>1, <3>1, Entries
        <4> QED
          BY <1>5, <1>6, <3>1, <3>3, <4>1
      <3> QED
        BY <1>5, <3>2, <3>3
    <2> QED
      BY <2>1, <2>2 DEF Ascends
  <1>8. \A n, q : Place(n, q) =>
          IF Before(n, q, m, j + 2) THEN leaves[n][q] \in Due => leaves[n][q] \in Range(t)
          ELSE leaves[n][q] \notin Range(t) /\ NotBefore(leaves[n][q], lo)
    <2> TAKE n, q
    <2> HAVE Place(n, q)
    <2>1. /\ Before(n, q, l, i + 1) /\ leaves[n][q] \in Due => leaves[n][q] \in Range(s)
          /\ ~Before(n, q, l, i + 1) =>
               leaves[n][q] \notin Range(s) /\ NotBefore(leaves[n][q], lo)
      BY <1>1 DEF FrontAt
    <2>2. leaves[n][q] = k <=> n = m /\ q = j + 1
      BY <1>2, PlacesDiffer
    <2> HIDE DEF k, t
    <2> QED
      BY <1>2, <1>5, <2>1, <2>2
  <1>9. \A x \in Range(t), y \in Due \ Range(t) : x < y
    <2> TAKE x \in Range(t), y \in Due \ Range(t)
    <2>1. y \in Due \ Range(s) /\ y \in Int
      BY <1>5, DuePlaces
    <2>2. CASE x \in Range(s)
      BY <1>1, <2>1, <2>2 DEF BeginsDue
    <2>3. CASE x = k
      <3>1. PICK n, q : Place(n, q) /\ y = leaves[n][q]
        BY DuePlaces
      <3>2. ~Before(n, q, l, i + 1)
        BY <1>1, <2>1, <3>1 DEF FrontAt
      <3>3. k <= y /\ y # k
        BY <1>2, <1>5, <3>1, <3>2
      <3> HIDE DEF k
      <3> QED
        BY <1>3, <2>1, <2>3, <3>3
    <2> QED
      BY <1>5, <2>2, <2>3
  <1>10. Range(t) \subseteq Due
    BY <1>1, <1>4, <1>5 DEF BeginsDue
  <1>11. /\ m \in 1 .. Len(leaves) /\ m # 0 /\ j + 1 \in Nat /\ j + 1 <= Len(leaves[m])
         /\ (j + 1) + 1 = j + 2
    BY <1>2, Reads DEF Place
  <1>12. BeginsDue(t)
    BY <1>7, <1>9, <1>10 DEF BeginsDue
  <1> HIDE DEF k, t
  <1>13. FrontAt(m, j + 1, t)
    BY <1>5, <1>8, <1>11, <1>12 DEF FrontAt
  <1> QED
    BY <1>13 DEF k, t

(* The empty sequence begins what is due.                                  *)
LEMMA NothingReturned ==
  /\ <<>> \in Seq(Key) /\ Range(<<>>) = {} /\ Len(<<>>) = 0
  /\ BeginsDue(<<>>)
  <1>1. <<>> \in Seq(Key) /\ Range(<<>>) = {} /\ Len(<<>>) = 0 /\ DOMAIN <<>> = {}
    BY DEF Range
  <1> QED
    BY <1>1 DEF BeginsDue, Ascends

(* In a leaf a start bound parts the items.                                *)
LEMMA StartIdxSplits ==
  ASSUME NEW b \in Bound, b.at # "unbounded", NEW ks \in Seq(Int),
         \A x, y \in 1 .. Len(ks) : x < y => ks[x] < ks[y]
  PROVE  /\ StartIdx(b, ks) \in 0 .. Len(ks)
         /\ \A j \in 1 .. Len(ks) : NotBefore(ks[j], b) <=> j > StartIdx(b, ks)
  <1>1. b.at \in {"included", "excluded"} /\ b.key \in Int
    BY BoundsOrder
  <1> PICK c \in Int : c = b.key
    BY <1>1
  <1> PICK r : r = Rank(ks, c)
    OBVIOUS
  <1> PICK i : i = StartIdx(b, ks)
    OBVIOUS
  <1>2. /\ r \in 0 .. Len(ks) /\ Len(ks) \in Nat /\ DOMAIN ks = 1 .. Len(ks)
        /\ \A j \in 1 .. Len(ks) : (ks[j] <= c <=> j <= r) /\ ks[j] \in Int
    <2>1. Rank(ks, c) \in 0 .. Len(ks)
      BY RankBounds
    <2>2. \A j \in 1 .. Len(ks) : ks[j] <= c <=> j <= Rank(ks, c)
      BY RankPartsKeys
    <2>3. /\ Len(ks) \in Nat /\ DOMAIN ks = 1 .. Len(ks)
          /\ \A j \in 1 .. Len(ks) : ks[j] \in Int
      OBVIOUS
    <2> QED
      BY ONLY <2>1, <2>2, <2>3, r = Rank(ks, c)
  <1>3. i = IF Found(ks, c) /\ b.at = "included" THEN r - 1 ELSE r
    BY DEF StartIdx
  <1>4. CASE Found(ks, c) /\ b.at = "included"
    <2>1. PICK h \in 1 .. Len(ks) : ks[h] = c
      BY <1>2, <1>4 DEF Found
    <2>2. h <= r /\ r \in 1 .. Len(ks) /\ h \in Int /\ r \in Int
      BY ONLY <1>2, <2>1, c \in Int, SMT
    <2>3. ks[r] <= c /\ ks[r] \in Int
      BY ONLY <1>2, <2>2, c \in Int, SMT
    <2>4. h = r
      <3>1. h < r => ks[h] < ks[r]
        BY <2>2
      <3> QED
        BY ONLY <2>1, <2>2, <2>3, <3>1, c \in Int, SMT
    <2>5. i = r - 1
      BY <1>3, <1>4
    <2>6. \A j \in 1 .. Len(ks) : j < r => ks[j] < c
      BY <2>1, <2>4
    <2>7. \A j \in 1 .. Len(ks) : ks[j] >= c <=> j > i
      <3> TAKE j \in 1 .. Len(ks)
      <3>1. /\ ks[j] \in Int /\ j \in Int /\ (ks[j] <= c <=> j <= r)
            /\ (j < r => ks[j] < c) /\ (j = r => ks[j] = c)
        BY <1>2, <2>1, <2>4, <2>6
      <3> QED
        BY ONLY <2>2, <2>5, <3>1, c \in Int, SMT
    <2>8. i \in 0 .. Len(ks)
      BY ONLY <1>2, <2>2, <2>5, SMT
    <2> QED
      BY <1>4, <2>7, <2>8 DEF NotBefore
  <1>5. CASE ~Found(ks, c) /\ b.at = "included"
    <2>1. i = r
      BY <1>3, <1>5
    <2>2. \A j \in 1 .. Len(ks) : ks[j] # c
      BY <1>2, <1>5 DEF Found
    <2>3. \A j \in 1 .. Len(ks) : ks[j] >= c <=> j > i
      BY ONLY <1>2, <2>1, <2>2, c \in Int, SMT
    <2> QED
      BY <1>2, <1>5, <2>1, <2>3 DEF NotBefore
  <1>6. CASE b.at = "excluded"
    <2>1. i = r
      BY <1>3, <1>6
    <2>2. \A j \in 1 .. Len(ks) : ks[j] > c <=> j > i
      BY ONLY <1>2, <2>1, c \in Int, SMT
    <2> QED
      BY <1>2, <1>6, <2>1, <2>2 DEF NotBefore
  <1> QED
    BY <1>1, <1>4, <1>5, <1>6

(* A descent for b ends between the leaves below b and those above it.     *)
LEMMA DescentSplits ==
  ASSUME Chain, leaves # <<>>, NEW b \in Int
  PROVE  /\ LeafFor(b) \in 1 .. Len(leaves)
         /\ \A m, j : Place(m, j) => /\ m < LeafFor(b) => leaves[m][j] < b
                                     /\ m > LeafFor(b) => b < leaves[m][j]
  <1> PICK z : z = Len(seps)
    OBVIOUS
  <1> PICK l : l = LeafFor(b)
    OBVIOUS
  <1>1. /\ z \in Nat /\ Len(leaves) = z + 1
        /\ \A h \in 1 .. z : seps[h] \in Int
    BY SepsRead DEF Chain
  <1>2. /\ l - 1 = Rank(seps, b) /\ l \in 1 .. z + 1
    <2> PICK r : r = Rank(seps, b)
      OBVIOUS
    <2>1. r \in 0 .. z /\ l = r + 1
      BY SepsRead, RankBounds DEF LeafFor
    <2> QED
      BY ONLY <1>1, <2>1, r = Rank(seps, b), SMT
  <1>3. \A h \in 1 .. z : seps[h] <= b <=> h <= l - 1
    BY <1>2, SepsRead, RankPartsKeys
  <1>4. ASSUME NEW m, NEW j, Place(m, j)
        PROVE  /\ m < l => leaves[m][j] < b
               /\ m > l => b < leaves[m][j]
    <2> PICK k \in Int : k = leaves[m][j]
      BY <1>4, Reads
    <2>1. Rank(seps, k) = m - 1 /\ m \in 1 .. z + 1
      BY <1>1, <1>4, PlaceRank DEF Place
    <2>2. \A h \in 1 .. z : seps[h] <= k <=> h <= m - 1
      BY <2>1, SepsRead, RankPartsKeys
    <2>3. ASSUME m < l PROVE k < b
      <3>1. m \in 1 .. z /\ ~(m <= m - 1) /\ m <= l - 1
        BY ONLY <1>1, <1>2, <2>1, <2>3, SMT
      <3> QED
        BY ONLY <1>1, <1>3, <2>2, <3>1, k \in Int, b \in Int, SMT
    <2>4. ASSUME m > l PROVE b < k
      <3>1. l \in 1 .. z /\ ~(l <= l - 1) /\ l <= m - 1
        BY ONLY <1>1, <1>2, <2>1, <2>4, SMT
      <3> QED
        BY ONLY <1>1, <1>3, <2>2, <3>1, k \in Int, b \in Int, SMT
    <2> QED
      BY <2>3, <2>4
  <1> QED
    BY <1>1, <1>2, <1>4

(* Where to begin for a start bound, if there are leaves.                  *)
FirstLeaf(b) == IF b.at = "unbounded" THEN 1 ELSE LeafFor(b.key)
FirstIdx(b)  == IF b.at = "unbounded" THEN 0 ELSE StartIdx(b, leaves[FirstLeaf(b)])

(* What comes before this place is before the bound, and nothing else is.  *)
LEMMA BoundSplits ==
  ASSUME Chain, leaves # <<>>, NEW b \in Bound
  PROVE  /\ FirstLeaf(b) \in 1 .. Len(leaves) /\ FirstIdx(b) \in 0 .. Len(leaves[FirstLeaf(b)])
         /\ \A m, j : Place(m, j) =>
              (NotBefore(leaves[m][j], b) <=> ~Before(m, j, FirstLeaf(b), FirstIdx(b) + 1))
  <1>1. Len(leaves) \in Nat /\ (leaves = <<>> <=> Len(leaves) = 0)
    BY Reads DEF Chain
  <1> PICK l : l = FirstLeaf(b)
    OBVIOUS
  <1> PICK i : i = FirstIdx(b)
    OBVIOUS
  <1>2. CASE b.at = "unbounded"
    <2>1. l = 1 /\ i = 0
      BY <1>2 DEF FirstLeaf, FirstIdx
    <2>2. \A m, j : Place(m, j) => ~Before(m, j, 1, 0 + 1)
      BY DEF Place, Before
    <2>3. \A k : NotBefore(k, b)
      BY <1>2 DEF NotBefore
    <2>4. 0 \in 0 .. Len(leaves[1]) /\ 1 \in 1 .. Len(leaves)
      BY <1>1, Reads
    <2> QED
      BY <2>1, <2>2, <2>3, <2>4
  <1>3. CASE b.at # "unbounded"
    <2>1. b.at \in {"included", "excluded"} /\ b.key \in Int
      BY <1>3, BoundsOrder
    <2> PICK c \in Int : c = b.key
      BY <2>1
    <2>2. l = LeafFor(c) /\ i = StartIdx(b, leaves[l])
      BY <1>3 DEF FirstLeaf, FirstIdx
    <2>3. /\ l \in 1 .. Len(leaves) /\ l \in Int
          /\ \A m, j : Place(m, j) => /\ m < l => leaves[m][j] < c
                                      /\ m > l => c < leaves[m][j]
      <3>1. /\ LeafFor(c) \in 1 .. Len(leaves)
            /\ \A m, j : Place(m, j) => /\ m < LeafFor(c) => leaves[m][j] < c
                                        /\ m > LeafFor(c) => c < leaves[m][j]
        BY ONLY Chain, leaves # <<>>, c \in Int, DescentSplits
      <3>2. l \in 1 .. Len(leaves)
        BY ONLY <2>2, <3>1
      <3>3. l \in Int
        BY ONLY <3>2, <1>1, SMT
      <3> QED
        BY ONLY <2>2, <3>1, <3>2, <3>3
    <2>4. /\ leaves[l] \in Seq(Int) /\ Len(leaves[l]) \in Nat
          /\ \A x, y \in 1 .. Len(leaves[l]) : x < y => leaves[l][x] < leaves[l][y]
      BY <2>3, Reads DEF Chain, Ascends
    <2>5. /\ i \in 0 .. Len(leaves[l])
          /\ \A j \in 1 .. Len(leaves[l]) : NotBefore(leaves[l][j], b) <=> j > i
      BY <1>3, <2>2, <2>4, StartIdxSplits
    <2>6. i \in Nat
      BY <2>4, <2>5
    <2>7. ASSUME NEW m, NEW j, Place(m, j)
          PROVE  NotBefore(leaves[m][j], b) <=> ~Before(m, j, l, i + 1)
      <3>1. /\ leaves[m][j] \in Int /\ m \in 1 .. Len(leaves) /\ j \in 1 .. Len(leaves[m])
            /\ m \in Int /\ j \in Int
        BY <2>7, Reads DEF Place
      <3>2. CASE m = l
        <4>1. NotBefore(leaves[m][j], b) <=> j > i
          BY <2>5, <3>1, <3>2
        <4>2. Before(m, j, l, i + 1) <=> ~(j > i)
          BY ONLY <2>3, <2>6, <3>1, <3>2, SMT DEF Before
        <4> QED
          BY <4>1, <4>2
      <3>3. CASE m # l
        <4>1. NotBefore(leaves[m][j], b) <=> m > l
          <5> PICK k : k = leaves[m][j]
            OBVIOUS
          <5>1. /\ k \in Int /\ m \in Int /\ l \in Int
                /\ m < l => k < c
                /\ m > l => c < k
            BY <2>3, <2>7, <3>1
          <5>2. (k >= c <=> m > l) /\ (k > c <=> m > l)
            BY ONLY <5>1, <3>3, c \in Int, SMT
          <5> QED
            BY ONLY <2>1, <5>2, k = leaves[m][j], c = b.key, SMT DEF NotBefore
        <4>2. Before(m, j, l, i + 1) <=> ~(m > l)
          BY ONLY <2>3, <3>1, <3>3, SMT DEF Before
        <4> QED
          BY <4>1, <4>2
      <3> QED
        BY <3>2, <3>3
    <2> QED
      BY <2>3, <2>5, <2>7
  <1> QED
    BY <1>2, <1>3

(* So next begins at the first item that is due, wherever that one is.     *)
LEMMA StartSplits ==
  ASSUME Chain, lo \in Bound
  PROVE  FrontAt(Start[1], Start[2], <<>>)
  <1>1. Len(leaves) \in Nat /\ (leaves = <<>> <=> Len(leaves) = 0)
    BY Reads DEF Chain
  <1>2. CASE leaves = <<>>
    <2>1. Start = <<0, 0>>
      BY <1>2 DEF Start, LeafFor
    <2>2. Due = {}
      BY <1>1, <1>2, DuePlaces DEF Place
    <2>3. FrontAt(0, 0, <<>>)
      BY <1>1, <2>2, NothingReturned DEF FrontAt
    <2> QED
      BY <2>1, <2>3
  <1>3. CASE leaves # <<>>
    <2> PICK l : l = FirstLeaf(lo)
      OBVIOUS
    <2> PICK i : i = FirstIdx(lo)
      OBVIOUS
    <2>1. /\ l \in 1 .. Len(leaves) /\ i \in 0 .. Len(leaves[l])
          /\ \A m, j : Place(m, j) =>
               (NotBefore(leaves[m][j], lo) <=> ~Before(m, j, l, i + 1))
      BY <1>3, BoundSplits
    <2>2. /\ l \in Int /\ l # 0 /\ i \in Nat /\ Len(leaves[l]) \in Nat /\ i <= Len(leaves[l])
      BY <1>1, <2>1, Reads
    <2>3. \A m, j : Place(m, j) /\ Before(m, j, l, i + 1) => leaves[m][j] \notin Due
      BY <2>1, DuePlaces
    <2>4. FrontAt(l, i, <<>>)
      BY <1>1, <2>1, <2>2, <2>3, NothingReturned DEF FrontAt
    <2>5. /\ lo.at = "unbounded" => Start = <<l, i>>
          /\ lo.at # "unbounded" =>
               Start = IF i < Len(leaves[l]) THEN <<l, i>> ELSE <<NextLeaf(l), 0>>
      BY <1>3, <2>2 DEF Start, FirstLeaf, FirstIdx
    <2>6. CASE Start = <<l, i>>
      BY <2>4, <2>6
    <2>7. CASE i = Len(leaves[l]) /\ l < Len(leaves) /\ Start = <<l + 1, 0>>
      <3>1. l + 1 \in 1 .. Len(leaves) /\ l + 1 # 0
        BY <1>1, <2>1, <2>7
      <3>2. \A m, j : Place(m, j) => (Before(m, j, l, i + 1) <=> Before(m, j, l + 1, 1))
        <4> SUFFICES ASSUME NEW m, NEW j, Place(m, j)
                     PROVE  Before(m, j, l, i + 1) <=> Before(m, j, l + 1, 1)
          OBVIOUS
        <4>1. m \in Int /\ j \in Int /\ j >= 1 /\ (m = l => j <= i)
          <5>1. m \in 1 .. Len(leaves) /\ j \in 1 .. Len(leaves[m])
            BY DEF Place
          <5>2. Len(leaves) \in Nat /\ Len(leaves[m]) \in Nat
            BY <5>1, Reads
          <5>3. m = l => Len(leaves[m]) = i
            BY <2>7
          <5> QED
            BY ONLY <5>1, <5>2, <5>3, SMT
        <4> QED
          BY ONLY <2>2, <4>1, SMT DEF Before
      <3>3. Len(leaves[l + 1]) \in Nat
        BY <3>1, Reads
      <3>4. FrontAt(l + 1, 0, <<>>)
        BY <1>1, <2>1, <2>3, <3>1, <3>2, <3>3, NothingReturned DEF FrontAt
      <3> QED
        BY <2>7, <3>4
    <2>8. CASE i = Len(leaves[l]) /\ l = Len(leaves) /\ Start = <<0, 0>>
      <3>1. \A m, j : Place(m, j) => Before(m, j, l, i + 1)
        <4> SUFFICES ASSUME NEW m, NEW j, Place(m, j)
                     PROVE  Before(m, j, l, i + 1)
          OBVIOUS
        <4>1. m \in Int /\ j \in Int /\ m <= l /\ (m = l => j <= i)
          <5>1. m \in 1 .. Len(leaves) /\ j \in 1 .. Len(leaves[m])
            BY DEF Place
          <5>2. Len(leaves) \in Nat /\ Len(leaves[m]) \in Nat
            BY <5>1, Reads
          <5>3. Len(leaves) = l /\ (m = l => Len(leaves[m]) = i)
            BY <2>8
          <5> QED
            BY ONLY <5>1, <5>2, <5>3, SMT
        <4> QED
          BY ONLY <2>2, <4>1, SMT DEF Before
      <3>2. Due = {}
        BY <2>3, <3>1, DuePlaces
      <3>3. FrontAt(0, 0, <<>>)
        BY <1>1, <3>2, NothingReturned DEF FrontAt
      <3> QED
        BY <2>8, <3>3
    <2>9. CASE i >= Len(leaves[l]) /\ Start = <<NextLeaf(l), 0>>
      <3>1. i = Len(leaves[l])
        BY <2>2, <2>9
      <3>2. l < Len(leaves) \/ l = Len(leaves)
        BY <1>1, <2>1
      <3>3. NextLeaf(l) = IF l < Len(leaves) THEN l + 1 ELSE 0
        BY DEF NextLeaf
      <3>4. l = Len(leaves) => ~(l < Len(leaves))
        BY <1>1
      <3> QED
        BY <2>7, <2>8, <2>9, <3>1, <3>2, <3>3, <3>4
    <2> QED
      BY <2>2, <2>5, <2>6, <2>9
  <1> QED
    BY <1>2, <1>3

-----------------------------------------------------------------------------
(* The back of items, which has no bounds.                                 *)

(* Once the back stands behind the first i items of leaf l, what comes     *)
(* after that place has been returned, and the rest has not.               *)
BackAt(l, i, s) ==
  /\ l \in 0 .. Len(leaves) /\ i \in Nat /\ (l # 0 => i <= Len(leaves[l]))
  /\ s \in Seq(Key) /\ EndsDue(s)
  /\ l = 0 => i = 0 /\ Range(s) = Due
  /\ l # 0 => \A m, j : Place(m, j) =>
                (leaves[m][j] \in Range(s) <=> ~Before(m, j, l, i + 1))

NoBounds == lo = Unbounded /\ hi = Unbounded

(* Without bounds every place is due.                                      *)
LEMMA AllDue ==
  ASSUME Chain, NoBounds
  PROVE  /\ \A m, j : Place(m, j) => leaves[m][j] \in Due
         /\ lo \in Bound /\ hi \in Bound
  <1>1. lo.at = "unbounded" /\ hi.at = "unbounded" /\ lo \in Bound /\ hi \in Bound
    BY DEF NoBounds, Unbounded, Bound
  <1>2. \A k : NotBefore(k, lo) /\ NotPast(k, hi)
    BY <1>1 DEF NotBefore, NotPast
  <1> QED
    BY <1>1, <1>2, DuePlaces

(* Item j of leaf m is the last one of the first i items of leaf l and of  *)
(* what comes before them.                                                 *)
Precedes(l, i, m, j) ==
  /\ Place(m, j) /\ j \in Nat /\ Before(m, j, l, i + 1)
  /\ \A n, q : Place(n, q) =>
       ~Before(n, q, m, j) <=> (~Before(n, q, l, i + 1) \/ (n = m /\ q = j))
  /\ \A n, q : Place(n, q) /\ Before(n, q, l, i + 1) =>
       leaves[n][q] <= leaves[m][j]

LEMMA LastBehind ==
  ASSUME Chain, NEW l \in 1 .. Len(leaves), NEW i \in Nat, i <= Len(leaves[l]),
         NEW m \in Behind(l, i), \A n \in Behind(l, i) : m >= n,
         NEW j, j = IF m = l THEN i ELSE Len(leaves[m])
  PROVE  Precedes(l, i, m, j)
  <1>1. /\ m \in 1 .. Len(leaves) /\ m <= l /\ m \in Int /\ l \in Int
        /\ Len(leaves[m]) \in Nat /\ j \in Nat /\ j > 0 /\ j <= Len(leaves[m])
    <2>1. m \in 1 .. Len(leaves) /\ m <= l /\ j > 0
      BY DEF Behind
    <2>2. Len(leaves[m]) \in Nat /\ Len(leaves) \in Nat
      BY <2>1, Reads
    <2>3. m \in Int /\ l \in Int
      BY <2>1, <2>2
    <2>4. CASE m = l
      BY <2>1, <2>2, <2>3, <2>4
    <2>5. CASE m # l
      BY <2>1, <2>2, <2>3, <2>5
    <2> QED
      BY <2>4, <2>5
  <1>2. Place(m, j)
    <2>1. j \in 1 .. Len(leaves[m])
      BY ONLY <1>1, SMT
    <2> QED
      BY <1>1, <2>1 DEF Place
  <1>3. Before(m, j, l, i + 1)
    BY ONLY <1>1, i \in Nat, j = (IF m = l THEN i ELSE Len(leaves[m])), SMT DEF Before
  <1>4. ASSUME NEW n, NEW q, Place(n, q)
        PROVE  /\ n \in Int /\ q \in Int /\ 1 <= q
               /\ m < n => ~Before(n, q, l, i + 1)
               /\ n = m /\ m # l => q <= j
    <2>1. /\ n \in 1 .. Len(leaves) /\ q \in 1 .. Len(leaves[n])
          /\ Len(leaves[n]) \in Nat /\ Len(leaves) \in Nat
      BY <1>4, Reads DEF Place
    <2>2. n \in Int /\ q \in Int /\ 1 <= q /\ q <= Len(leaves[n])
      BY <2>1
    <2>3. ASSUME m < n  PROVE ~Before(n, q, l, i + 1)
      <3>1. n \notin Behind(l, i)
        BY <1>1, <2>2, <2>3
      <3>2. ~(n <= l) \/ ~((IF n = l THEN i ELSE Len(leaves[n])) > 0)
        BY <2>1, <3>1 DEF Behind
      <3> PICK z : z = Len(leaves[n])
        OBVIOUS
      <3>3. z \in Nat /\ q <= z /\ (~(n <= l) \/ ~((IF n = l THEN i ELSE z) > 0))
        BY <2>1, <2>2, <3>2
      <3> QED
        BY ONLY <1>1, <2>2, <3>3, i \in Nat, SMT DEF Before
    <2>4. n = m /\ m # l => q <= j
      BY <2>2
    <2> QED
      BY <2>2, <2>3, <2>4
  <1>5. ASSUME NEW n, NEW q, Place(n, q)
        PROVE  ~Before(n, q, m, j) <=> (~Before(n, q, l, i + 1) \/ (n = m /\ q = j))
    <2>1. /\ n \in Int /\ q \in Int /\ 1 <= q
          /\ m < n => ~Before(n, q, l, i + 1)
          /\ n = m /\ m # l => q <= j
      BY <1>4, <1>5
    <2>2. m = l => j = i
      OBVIOUS
    <2> QED
      BY ONLY <1>1, <2>1, <2>2, i \in Nat, SMT DEF Before
  <1>6. ASSUME NEW n, NEW q, Place(n, q), Before(n, q, l, i + 1)
        PROVE  leaves[n][q] <= leaves[m][j]
    <2>1. Before(n, q, m, j) \/ (n = m /\ q = j)
      BY <1>5, <1>6
    <2> QED
      BY <1>2, <1>6, <2>1, PlacesDiffer
  <1> QED
    BY <1>1, <1>2, <1>3, <1>5, <1>6 DEF Precedes

(* The back runs out of leaves.                                            *)
LEMMA BackRunsDry ==
  ASSUME Chain, NoBounds, NEW l, NEW i, NEW s, BackAt(l, i, s), l # 0, Behind(l, i) = {}
  PROVE  BackAt(0, 0, s)
  <1>1. /\ l \in 1 .. Len(leaves) /\ l \in Int /\ i \in Nat /\ i <= Len(leaves[l])
        /\ s \in Seq(Key) /\ EndsDue(s) /\ Len(leaves) \in Nat
    BY Reads DEF BackAt
  <1>2. ASSUME NEW n, NEW q, Place(n, q)  PROVE ~Before(n, q, l, i + 1)
    <2>1. /\ n \in 1 .. Len(leaves) /\ q \in 1 .. Len(leaves[n])
          /\ Len(leaves[n]) \in Nat
      BY <1>2, Reads DEF Place
    <2>2. n \in Int /\ q \in Int /\ 1 <= q /\ q <= Len(leaves[n])
      BY <2>1
    <2>3. ~(n <= l) \/ ~((IF n = l THEN i ELSE Len(leaves[n])) > 0)
      BY <2>1 DEF Behind
    <2> PICK z : z = Len(leaves[n])
      OBVIOUS
    <2>4. z \in Nat /\ q <= z /\ (~(n <= l) \/ ~((IF n = l THEN i ELSE z) > 0))
      BY <2>1, <2>2, <2>3
    <2> QED
      BY ONLY <1>1, <2>2, <2>4, SMT DEF Before
  <1>3. \A m, j : Place(m, j) => leaves[m][j] \in Range(s)
    BY <1>1, <1>2 DEF BackAt
  <1>4. Due \subseteq Range(s)
    BY <1>3, DuePlaces
  <1>5. Range(s) = Due
    BY <1>1, <1>4 DEF EndsDue
  <1> QED
    BY <1>1, <1>5 DEF BackAt

(* The back returns the last item not returned yet.                        *)
LEMMA BackYieldsLast ==
  ASSUME Chain, NoBounds, NEW l, NEW i, NEW s, BackAt(l, i, s), l # 0,
         NEW m \in Behind(l, i), \A n \in Behind(l, i) : m >= n,
         NEW j, j = IF m = l THEN i ELSE Len(leaves[m])
  PROVE  BackAt(m, j - 1, Append(s, leaves[m][j]))
  <1> DEFINE k == leaves[m][j]
             t == Append(s, k)
  <1>1. /\ l \in 1 .. Len(leaves) /\ l \in Int /\ i \in Nat /\ i <= Len(leaves[l])
        /\ s \in Seq(Key) /\ EndsDue(s) /\ Len(leaves) \in Nat
    BY Reads DEF BackAt
  <1>2. /\ Place(m, j) /\ j \in Nat /\ Before(m, j, l, i + 1)
        /\ \A n, q : Place(n, q) =>
             ~Before(n, q, m, j) <=> (~Before(n, q, l, i + 1) \/ (n = m /\ q = j))
        /\ \A n, q : Place(n, q) /\ Before(n, q, l, i + 1) => leaves[n][q] <= k
    <2>1. Precedes(l, i, m, j)
      BY <1>1, LastBehind
    <2> QED
      BY <2>1 DEF Precedes
  <1>3. k \in Key /\ k \in Int /\ k \notin Range(s) /\ k \in Due
    BY <1>1, <1>2, Reads, AllDue DEF BackAt
  <1>4. /\ t \in Seq(Key) /\ Len(t) = Len(s) + 1 /\ t[Len(s) + 1] = k
        /\ \A h \in 1 .. Len(s) : t[h] = s[h]
        /\ Len(s) \in Nat
        /\ \A x : x \in Range(t) <=> x \in Range(s) \/ x = k
    <2> HIDE DEF k
    <2>1. s \in Seq(Key) /\ k \in Key /\ Len(s) \in Nat
      BY <1>1, <1>3
    <2>2. /\ t \in Seq(Key) /\ Len(t) = Len(s) + 1 /\ t[Len(s) + 1] = k
          /\ \A h \in 1 .. Len(s) : t[h] = s[h]
      BY <2>1, Pushed
    <2>3. Adds(s, k, t)
      BY <2>1, PushAdds
    <2> QED
      BY <2>1, <2>2, <2>3 DEF Adds
  <1>5. \A x \in Range(s) : x \in Int /\ k < x
    <2>1. k \in Due \ Range(s) /\ Range(s) \subseteq Due
      BY <1>1, <1>3 DEF EndsDue
    <2> QED
      BY <1>1, <2>1, DuePlaces DEF EndsDue
  <1>6. Descends(t)
    <2>1. DOMAIN t = 1 .. Len(s) + 1 /\ DOMAIN s = 1 .. Len(s)
      BY <1>1, <1>4, KeysAreInts
    <2>2. ASSUME NEW x \in 1 .. Len(s) + 1, NEW y \in 1 .. Len(s) + 1, x < y
          PROVE  t[x] > t[y]
      <3>1. x \in 1 .. Len(s)
        BY <1>4, <2>2
      <3>2. CASE y \in 1 .. Len(s)
        <4>1. s[x] > s[y]
          BY <1>1, <2>1, <2>2, <3>1, <3>2 DEF EndsDue, Descends
        <4> QED
          BY <1>4, <3>1, <3>2, <4>1
      <3>3. CASE y = Len(s) + 1
        <4>1. s[x] \in Range(s)
          BY <1>1, <3>1, Entries
        <4>2. s[x] \in Int /\ k < s[x] /\ t[x] = s[x] /\ t[y] = k
          BY <1>4, <1>5, <3>1, <3>3, <4>1
        <4> QED
          BY <1>3, <4>2
      <3> QED
        BY <1>4, <3>2, <3>3
    <2> QED
      BY <2>1, <2>2 DEF Descends
  <1>7. \A n, q : Place(n, q) =>
          (leaves[n][q] \in Range(t) <=> ~Before(n, q, m, j))
    <2> TAKE n, q
    <2> HAVE Place(n, q)
    <2>1. leaves[n][q] \in Range(s) <=> ~Before(n, q, l, i + 1)
      BY <1>1 DEF BackAt
    <2>2. leaves[n][q] = k <=> n = m /\ q = j
      BY <1>2, PlacesDiffer
    <2> HIDE DEF k, t
    <2> QED
      BY <1>2, <1>4, <2>1, <2>2
  <1>8. \A x \in Range(t), y \in Due \ Range(t) : y < x
    <2> TAKE x \in Range(t), y \in Due \ Range(t)
    <2>1. y \in Due \ Range(s) /\ y \in Int
      BY <1>4, DuePlaces
    <2>2. CASE x \in Range(s)
      BY <1>1, <2>1, <2>2 DEF EndsDue
    <2>3. CASE x = k
      <3>1. PICK n, q : Place(n, q) /\ y = leaves[n][q]
        BY DuePlaces
      <3>2. Before(n, q, l, i + 1)
        BY <1>1, <2>1, <3>1 DEF BackAt
      <3>3. y <= k /\ y # k
        BY <1>2, <1>4, <3>1, <3>2
      <3> HIDE DEF k
      <3> QED
        BY <1>3, <2>1, <2>3, <3>3
    <2> QED
      BY <1>4, <2>2, <2>3
  <1>9. Range(t) \subseteq Due
    BY <1>1, <1>3, <1>4 DEF EndsDue
  <1>10. /\ m \in 0 .. Len(leaves) /\ m # 0 /\ j - 1 \in Nat /\ j - 1 <= Len(leaves[m])
         /\ (j - 1) + 1 = j
    <2>1. m \in 1 .. Len(leaves) /\ j \in 1 .. Len(leaves[m]) /\ Len(leaves[m]) \in Nat
      BY <1>2, Reads DEF Place
    <2> QED
      BY ONLY <1>1, <2>1, SMT
  <1>11. EndsDue(t)
    BY <1>6, <1>8, <1>9 DEF EndsDue
  <1> HIDE DEF k, t
  <1>12. BackAt(m, j - 1, t)
    BY <1>4, <1>7, <1>10, <1>11 DEF BackAt
  <1> QED
    BY <1>12 DEF k, t

(* The ends of a fresh iterator over all items.                            *)
LEMMA ItemsBegin ==
  ASSUME Chain, NoBounds
  PROVE  /\ Due = {} => FrontAt(0, 0, <<>>) /\ BackAt(0, 0, <<>>)
         /\ Due # {} => /\ FrontAt(1, 0, <<>>)
                        /\ BackAt(Len(leaves), Len(leaves[Len(leaves)]), <<>>)
  <1>1. Len(leaves) \in Nat /\ EndsDue(<<>>)
    BY Reads, NothingReturned DEF EndsDue, Descends
  <1>2. CASE Due = {}
    BY <1>1, <1>2, NothingReturned DEF FrontAt, BackAt
  <1>3. CASE Due # {}
    <2>1. PICK m, j : Place(m, j)
      BY <1>3, DuePlaces
    <2> PICK z : z = Len(leaves)
      OBVIOUS
    <2>2. /\ z \in 1 .. Len(leaves) /\ 1 \in 1 .. Len(leaves) /\ z # 0 /\ z \in Int
          /\ Len(leaves[z]) \in Nat /\ Len(leaves[1]) \in Nat
      BY <1>1, <2>1, Reads DEF Place
    <2>3. \A n, q : Place(n, q) => Before(n, q, z, Len(leaves[z]) + 1) /\ ~Before(n, q, 1, 1)
      <3> SUFFICES ASSUME NEW n, NEW q, Place(n, q)
                   PROVE  Before(n, q, z, Len(leaves[z]) + 1) /\ ~Before(n, q, 1, 1)
        OBVIOUS
      <3>1. /\ n \in 1 .. z /\ q \in 1 .. Len(leaves[n]) /\ Len(leaves[n]) \in Nat
        BY Reads DEF Place
      <3> QED
        BY ONLY <2>2, <3>1, SMT DEF Before
    <2>4. lo.at = "unbounded"
      BY DEF NoBounds, Unbounded
    <2>5. FrontAt(1, 0, <<>>)
      BY <2>2, <2>3, <2>4, NothingReturned DEF FrontAt, NotBefore
    <2>6. BackAt(z, Len(leaves[z]), <<>>)
      BY <1>1, <2>2, <2>3, NothingReturned DEF BackAt
    <2> QED
      BY <1>3, <2>5, <2>6
  <1> QED
    BY <1>2, <1>3

(* len is a number.                                                        *)
LEMMA LenNat ==
  ASSUME Chain
  PROVE  len \in Nat
  <1> DEFINE f == [p \in Places |-> leaves[p[1]][p[2]]]
  <1>1. \A p : p \in Places <=> \E m, j : Place(m, j) /\ p = <<m, j>>
    BY Reads DEF Places, Place
  <1>2. ASSUME NEW p \in Places
        PROVE  \E m, j : Place(m, j) /\ p = <<m, j>> /\ f[p] = leaves[m][j]
    BY <1>1
  <1>3. \A p, q \in Places : f[p] = f[q] => p = q
    BY <1>2, PlacesDiffer
  <1>4. \A p \in Places : leaves[p[1]][p[2]] \in Key
    BY <1>1, Reads
  <1>5. f \in [Places -> Key]
    BY <1>4
  <1> HIDE DEF f
  <1>6. f \in Injection(Places, Key)
    BY <1>3, <1>5, Zenon DEF Injection, IsInjective
  <1>7. IsFiniteSet(Places)
    BY <1>6, FS_Injection, KeysAssumption
  <1> QED
    BY <1>7, FS_CardinalityType DEF len

(* len counts the items.                                                   *)
LEMMA LenCounts ==
  ASSUME Chain, NoBounds
  PROVE  /\ len \in Nat /\ Cardinality(Due) = len
         /\ len = 0 <=> Due = {}
  <1> DEFINE f == [p \in Places |-> leaves[p[1]][p[2]]]
  <1>1. \A p : p \in Places <=> \E m, j : Place(m, j) /\ p = <<m, j>>
    BY Reads DEF Places, Place
  <1>2. IsFiniteSet(Due)
    <2>1. IsFiniteSet(Key) /\ Due \in SUBSET Key
      BY KeysAssumption, DuePlaces
    <2> QED
      BY <2>1, FS_Subset
  <1>3. /\ f \in [Places -> Due]
        /\ \A p, q \in Places : f[p] = f[q] => p = q
        /\ \A k \in Due : \E p \in Places : f[p] = k
    <2>1. ASSUME NEW p \in Places
          PROVE  \E m, j : Place(m, j) /\ p = <<m, j>> /\ f[p] = leaves[m][j]
      BY <1>1
    <2>2. ASSUME NEW p \in Places, NEW q \in Places, f[p] = f[q]  PROVE p = q
      BY <2>1, <2>2, PlacesDiffer
    <2>3. ASSUME NEW k \in Due  PROVE \E p \in Places : f[p] = k
      <3>1. PICK m, j : Place(m, j) /\ k = leaves[m][j]
        BY DuePlaces
      <3>2. <<m, j>> \in Places
        BY <1>1, <3>1
      <3>3. f[<<m, j>>] = k
        BY <3>1, <3>2
      <3> QED
        BY <3>2, <3>3
    <2>4. \A p \in Places : leaves[p[1]][p[2]] \in Due
      BY <1>1, AllDue
    <2> QED
      BY <2>2, <2>3, <2>4
  <1> HIDE DEF f
  <1>4. f \in Injection(Places, Due) /\ f \in Surjection(Places, Due)
    BY <1>3, Zenon DEF Injection, Surjection, IsInjective
  <1>5. IsFiniteSet(Places) /\ Cardinality(Places) = Cardinality(Due)
    BY <1>2, <1>4, FS_Injection
  <1>6. Cardinality(Due) \in Nat
    BY <1>2, FS_CardinalityType
  <1>7. Cardinality(Due) = 0 <=> Due = {}
    BY <1>2, FS_EmptySet
  <1> QED
    BY <1>5, <1>6, <1>7 DEF len

-----------------------------------------------------------------------------
(* What items_range collects.                                              *)

(* What stands in a sequence of keys.                                      *)
LEMMA InRange ==
  ASSUME NEW s \in Seq(Key)
  PROVE  \A x : x \in Range(s) <=> \E j \in 1 .. Len(s) : x = s[j]
  <1>1. \A x \in Range(s) : \E j \in 1 .. Len(s) : x = s[j]
    BY Entries
  <1>2. \A j \in 1 .. Len(s) : s[j] \in Range(s)
    BY Entries
  <1> QED
    BY <1>1, <1>2

(* Two ascending sequences, one below the other.                           *)
LEMMA JoinAscends ==
  ASSUME NEW s \in Seq(Key), NEW t \in Seq(Key), Ascends(s), Ascends(t),
         \A x \in Range(s), y \in Range(t) : x < y
  PROVE  /\ s \o t \in Seq(Key) /\ Ascends(s \o t)
         /\ Range(s \o t) = Range(s) \cup Range(t)
  <1> PICK u : u = s \o t
    OBVIOUS
  <1>1. /\ u \in Seq(Key) /\ Len(u) = Len(s) + Len(t)
        /\ \A j \in 1 .. Len(s) : u[j] = s[j]
        /\ \A j \in Len(s) + 1 .. Len(s) + Len(t) : u[j] = t[j - Len(s)]
    BY Concat
  <1>2. /\ Len(s) \in Nat /\ Len(t) \in Nat /\ DOMAIN u = 1 .. Len(u)
        /\ DOMAIN s = 1 .. Len(s) /\ DOMAIN t = 1 .. Len(t)
    BY <1>1
  <1>3. /\ \A j \in 1 .. Len(s) : s[j] \in Range(s)
        /\ \A j \in 1 .. Len(t) : t[j] \in Range(t)
    BY InRange
  <1>4. \A j \in 1 .. Len(u) : \/ j \in 1 .. Len(s) /\ u[j] = s[j]
                               \/ j - Len(s) \in 1 .. Len(t) /\ u[j] = t[j - Len(s)]
    BY <1>1, <1>2
  <1>6. Range(u) = Range(s) \cup Range(t)
    <2>1. Joins(s, t, u)
      BY ConcatJoins
    <2> QED
      BY <2>1 DEF Joins
  <1>7. ASSUME NEW x \in 1 .. Len(u), NEW y \in 1 .. Len(u), x < y  PROVE u[x] < u[y]
    <2>1. CASE y \in 1 .. Len(s)
      <3>1. x \in 1 .. Len(s)
        BY <1>2, <1>7, <2>1
      <3> QED
        BY <1>1, <1>2, <1>7, <2>1, <3>1 DEF Ascends
    <2>2. CASE y \notin 1 .. Len(s)
      <3>1. y - Len(s) \in 1 .. Len(t) /\ u[y] = t[y - Len(s)]
        BY <1>4, <2>2
      <3>2. CASE x \in 1 .. Len(s)
        BY <1>1, <1>3, <3>1, <3>2
      <3>3. CASE x \notin 1 .. Len(s)
        <4>1. x - Len(s) \in 1 .. Len(t) /\ u[x] = t[x - Len(s)]
          BY <1>4, <3>3
        <4>2. x - Len(s) < y - Len(s)
          BY <1>2, <1>7
        <4> PICK p, q : p = x - Len(s) /\ q = y - Len(s)
          OBVIOUS
        <4>3. p \in DOMAIN t /\ q \in DOMAIN t /\ p < q /\ u[x] = t[p] /\ u[y] = t[q]
          BY <1>2, <3>1, <4>1, <4>2
        <4> QED
          BY <4>3 DEF Ascends
      <3> QED
        BY <3>2, <3>3
    <2> QED
      BY <2>1, <2>2
  <1>8. Ascends(u)
    BY <1>2, <1>7 DEF Ascends
  <1> QED
    BY <1>1, <1>6, <1>8

(* A piece of an ascending sequence.                                       *)
LEMMA PieceAscends ==
  ASSUME NEW s \in Seq(Key), Ascends(s), NEW m \in 1 .. Len(s) + 1, NEW n \in m - 1 .. Len(s)
  PROVE  /\ SubSeq(s, m, n) \in Seq(Key) /\ Ascends(SubSeq(s, m, n))
         /\ \A x : x \in Range(SubSeq(s, m, n)) <=> \E j \in m .. n : x = s[j]
  <1> PICK u : u = SubSeq(s, m, n)
    OBVIOUS
  <1>1. /\ u \in Seq(Key) /\ Len(u) = n - m + 1
        /\ \A j \in 1 .. n - m + 1 : u[j] = s[m + j - 1]
    BY Piece
  <1>2. /\ Len(s) \in Nat /\ m \in Int /\ n \in Int /\ 1 <= m /\ m <= n + 1 /\ n <= Len(s)
        /\ DOMAIN s = 1 .. Len(s) /\ DOMAIN u = 1 .. n - m + 1
    <2>1. Len(s) \in Nat /\ DOMAIN s = 1 .. Len(s)
      OBVIOUS
    <2>2. m \in Int /\ n \in Int
      BY <2>1
    <2> QED
      BY <1>1, <2>1, <2>2
  <1>3. Ascends(u)
    <2>1. ASSUME NEW x \in 1 .. n - m + 1, NEW y \in 1 .. n - m + 1, x < y
          PROVE  u[x] < u[y]
      <3> PICK p, q : p = m + x - 1 /\ q = m + y - 1
        OBVIOUS
      <3>1. p \in 1 .. Len(s) /\ q \in 1 .. Len(s) /\ p < q
        BY <1>2, <2>1
      <3> QED
        BY <1>1, <1>2, <3>1 DEF Ascends
    <2> QED
      BY <1>2, <2>1 DEF Ascends
  <1>4. ASSUME NEW x  PROVE x \in Range(u) <=> \E j \in m .. n : x = s[j]
    <2>1. x \in Range(u) <=> \E j \in 1 .. n - m + 1 : x = u[j]
      <3>1. \A y : y \in Range(u) <=> \E j \in 1 .. Len(u) : y = u[j]
        BY <1>1, InRange
      <3> QED
        BY <1>1, <3>1, Zenon
    <2>2. \A j \in 1 .. n - m + 1 : m + j - 1 \in m .. n /\ u[j] = s[m + j - 1]
      BY <1>1, <1>2
    <2>3. \A j \in m .. n : j - m + 1 \in 1 .. n - m + 1 /\ u[j - m + 1] = s[j]
      <3> TAKE j \in m .. n
      <3>1. j - m + 1 \in 1 .. n - m + 1 /\ m + (j - m + 1) - 1 = j
        BY <1>2
      <3> QED
        BY <1>1, <3>1
    <2>4. (\E j \in 1 .. n - m + 1 : x = u[j]) => \E j \in m .. n : x = s[j]
      BY <2>2
    <2>5. (\E j \in m .. n : x = s[j]) => \E j \in 1 .. n - m + 1 : x = u[j]
      <3> SUFFICES ASSUME NEW j \in m .. n, x = s[j]
                   PROVE  \E q \in 1 .. n - m + 1 : x = u[q]
        OBVIOUS
      <3> QED
        BY <2>3, Zenon
    <2> QED
      BY ONLY <2>1, <2>4, <2>5, Zenon
  <1> QED
    BY <1>1, <1>3, <1>4

(* Sequences of ascending keys, each above those before it.                *)
Rising(ls) ==
  /\ ls \in Seq(Seq(Key))
  /\ \A m \in 1 .. Len(ls) : Ascends(ls[m])
  /\ \A m, n \in 1 .. Len(ls) : m < n => \A x \in Range(ls[m]), y \in Range(ls[n]) : x < y

(* FlattenSeq puts the keys of such sequences into one.                    *)
LEMMA FlattenRises ==
  ASSUME NEW ls, Rising(ls)
  PROVE  /\ FlattenSeq(ls) \in Seq(Key) /\ Ascends(FlattenSeq(ls))
         /\ \A x : x \in Range(FlattenSeq(ls)) <=> \E m \in 1 .. Len(ls) : x \in Range(ls[m])
  <1>1. ls \in Seq(Seq(Key)) /\ Len(ls) \in Nat
    BY DEF Rising
  <1>2. CASE Len(ls) = 0
    <2>1. FlattenSeq(ls) = ls /\ ls = <<>>
      BY <1>1, <1>2 DEF FlattenSeq
    <2> QED
      BY <1>2, <2>1 DEF Ascends, Range
  <1>3. CASE Len(ls) # 0
    <2> PICK z : z = Len(ls)
      OBVIOUS
    <2>1. Len(ls) >= 1
      BY <1>1, <1>3
    <2>2. PICK f : Piles(ls, f)
      BY <1>1, <2>1, FlattenPiles
    <2>3. /\ z \in Nat \ {0} /\ FlattenSeq(ls) = f[z] /\ f[1] = ls[1]
          /\ \A i \in 2 .. z : f[i] = f[i - 1] \o ls[i]
      BY <1>1, <1>3, <2>2 DEF Piles
    <2> DEFINE Good(i) == /\ f[i] \in Seq(Key) /\ Ascends(f[i])
                          /\ \A x : x \in Range(f[i]) <=> \E m \in 1 .. i : x \in Range(ls[m])
    <2>4. \A i \in 1 .. z : Good(i)
      <3> DEFINE T == {i \in 1 .. z : ~Good(i)}
      <3> SUFFICES ASSUME T # {} PROVE FALSE
        OBVIOUS
      <3> HIDE DEF Good
      <3>1. T \subseteq Nat
        OBVIOUS
      <3>2. PICK i \in T : \A y \in T : i <= y
        BY <3>1, LeastOf
      <3>3. i \in 1 .. z /\ ~Good(i) /\ i \in Nat
        BY <3>1, <3>2
      <3>4. ls[i] \in Seq(Key) /\ Ascends(ls[i])
        BY <1>1, <3>3 DEF Rising
      <3>5. CASE i = 1
        <4>1. f[1] = ls[1]
          BY <2>3
        <4>2. Good(1)
          BY <3>4, <3>5, <4>1, SMT DEF Good
        <4> QED
          BY <3>3, <3>5, <4>2
      <3>6. CASE i # 1
        <4>1. i - 1 \in 1 .. z /\ ~(i <= i - 1) /\ i \in Int
          BY <2>3, <3>3, <3>6
        <4>2. Good(i - 1)
          BY <3>2, <4>1
        <4>3. f[i] = f[i - 1] \o ls[i]
          <5>1. i \in 2 .. z
            BY <3>3, <3>6, <2>3
          <5> QED
            BY <2>3, <5>1
        <4>4. /\ f[i - 1] \in Seq(Key) /\ Ascends(f[i - 1])
              /\ \A x : x \in Range(f[i - 1]) <=> \E m \in 1 .. i - 1 : x \in Range(ls[m])
          BY <4>2 DEF Good
        <4>5. \A x \in Range(f[i - 1]), y \in Range(ls[i]) : x < y
          <5> TAKE x \in Range(f[i - 1]), y \in Range(ls[i])
          <5>1. PICK m \in 1 .. i - 1 : x \in Range(ls[m])
            BY <4>4
          <5>2. m \in 1 .. Len(ls) /\ m < i /\ i \in 1 .. Len(ls)
            BY <2>3, <3>3, <4>1, <5>1
          <5> QED
            BY <5>1, <5>2 DEF Rising
        <4>6. /\ f[i] \in Seq(Key) /\ Ascends(f[i])
              /\ Range(f[i]) = Range(f[i - 1]) \cup Range(ls[i])
          BY <3>4, <4>3, <4>4, <4>5, JoinAscends
        <4>7. \A m : m \in 1 .. i <=> m \in 1 .. i - 1 \/ m = i
          BY <3>3, <4>1
        <4>8. \A x : x \in Range(f[i]) <=> \E m \in 1 .. i : x \in Range(ls[m])
          BY <4>4, <4>6, <4>7
        <4> QED
          BY <3>3, <4>6, <4>8 DEF Good
      <3> QED
        BY <3>5, <3>6
    <2> HIDE DEF Good
    <2>5. z \in 1 .. z
      BY <2>3
    <2>6. Good(z)
      BY <2>4, <2>5
    <2> QED
      BY <2>3, <2>6 DEF Good
  <1> QED
    BY <1>2, <1>3

(* Up to the first key past the end bound.                                 *)
UpTo(s, e) == {n \in 0 .. Len(s) : \A j \in 1 .. n : NotPast(s[j], e)}
CutAt(s, e) == SubSeq(s, 1, CHOOSE n \in UpTo(s, e) : \A m \in UpTo(s, e) : m <= n)

LEMMA CutAscends ==
  ASSUME NEW s \in Seq(Key), Ascends(s), NEW e \in Bound
  PROVE  /\ CutAt(s, e) \in Seq(Key) /\ Ascends(CutAt(s, e))
         /\ \A x : x \in Range(CutAt(s, e)) <=> x \in Range(s) /\ NotPast(x, e)
  <1> PICK z : z = Len(s)
    OBVIOUS
  <1> PICK U : U = UpTo(s, e)
    OBVIOUS
  <1>1. z \in Nat /\ DOMAIN s = 1 .. z /\ \A j \in 1 .. z : s[j] \in Int
    BY KeysAreInts
  <1>2. \E n \in U : \A m \in U : m <= n
    <2> DEFINE T == {x \in Nat : z - x \in U}
    <2>1. \A n \in U : n \in Int /\ 0 <= n /\ n <= z
      BY <1>1 DEF UpTo
    <2>2. 0 \in U
      BY <1>1 DEF UpTo
    <2>3. z \in T
      BY <1>1, <2>2
    <2>4. T \subseteq Nat /\ T # {}
      BY <2>3
    <2>5. PICK x \in T : \A y \in T : x <= y
      BY <2>4, LeastOf
    <2>6. \A m \in U : m <= z - x
      <3> TAKE m \in U
      <3>1. z - m \in Nat /\ z - (z - m) = m /\ m \in Int
        BY <1>1, <2>1
      <3>2. x <= z - m /\ x \in Nat
        BY <2>5, <3>1
      <3> QED
        BY <1>1, <3>1, <3>2
    <2> QED
      BY <2>5, <2>6
  <1>3. PICK c \in U : (\A m \in U : m <= c) /\ CutAt(s, e) = SubSeq(s, 1, c)
    <2>1. \E c : c = (CHOOSE n \in U : \A m \in U : m <= n)
      OBVIOUS
    <2>2. PICK c : c = CHOOSE n \in U : \A m \in U : m <= n
      BY <2>1
    <2>3. c \in U /\ \A m \in U : m <= c
      BY ONLY <1>2, <2>2, Zenon
    <2>4. CutAt(s, e) = SubSeq(s, 1, c)
      BY ONLY <2>2, U = UpTo(s, e), Zenon DEF CutAt
    <2> QED
      BY ONLY <2>3, <2>4
  <1>4. c \in 0 .. z /\ c \in Int /\ \A j \in 1 .. c : NotPast(s[j], e)
    <2>1. c \in 0 .. z /\ \A j \in 1 .. c : NotPast(s[j], e)
      BY ONLY c \in U, U = UpTo(s, e), z = Len(s) DEF UpTo
    <2> QED
      BY ONLY <2>1, <1>1, SMT
  <1>5. CutAt(s, e) = SubSeq(s, 1, c)
    BY <1>3
  <1>6. /\ SubSeq(s, 1, c) \in Seq(Key) /\ Ascends(SubSeq(s, 1, c))
        /\ \A x : x \in Range(SubSeq(s, 1, c)) <=> \E j \in 1 .. c : x = s[j]
    BY <1>1, <1>4, PieceAscends
  <1>7. \A x : x \in Range(s) <=> \E j \in 1 .. z : x = s[j]
    BY InRange
  <1>8. \A j \in 1 .. z : NotPast(s[j], e) => j <= c
    <2> SUFFICES ASSUME NEW j \in 1 .. z, NotPast(s[j], e), ~(j <= c)  PROVE FALSE
      OBVIOUS
    <2>1. /\ c + 1 \in 1 .. z /\ c + 1 <= j /\ j \in Int /\ ~(c + 1 <= c)
          /\ c + 1 \in 0 .. z /\ \A h \in 1 .. c + 1 : h \in 1 .. c \/ h = c + 1
      BY <1>1, <1>4
    <2>2. s[c + 1] <= s[j]
      <3>1. c + 1 < j => s[c + 1] < s[j]
        BY <1>1, <2>1 DEF Ascends
      <3>2. s[c + 1] \in Int /\ s[j] \in Int
        BY <1>1, <2>1
      <3>3. c + 1 < j \/ c + 1 = j
        BY <2>1, <1>4
      <3> QED
        BY <3>1, <3>2, <3>3
    <2>3. NotPast(s[c + 1], e)
      BY <1>1, <2>1, <2>2, BoundsOrder
    <2>4. c + 1 \in U
      BY <1>4, <2>1, <2>3 DEF UpTo
    <2> QED
      BY <1>3, <2>1, <2>4
  <1>9. \A j \in 1 .. z : j <= c => j \in 1 .. c
    BY <1>1, <1>4
  <1>10. \A j \in 1 .. c : j \in 1 .. z
    BY <1>1, <1>4
  <1>11. ASSUME NEW x  PROVE x \in Range(SubSeq(s, 1, c)) <=> x \in Range(s) /\ NotPast(x, e)
    BY <1>4, <1>6, <1>7, <1>8, <1>9, <1>10
  <1> QED
    BY <1>5, <1>6, <1>11

(* What is due between two bounds.                                         *)
DueWithin(b, e) ==
  {k \in UNION {Range(leaves[m]) : m \in DOMAIN leaves} : NotBefore(k, b) /\ NotPast(k, e)}

(* The items from a place on, in one sequence.                             *)
From(l, i) ==
  SubSeq(leaves[l], i + 1, Len(leaves[l])) \o FlattenSeq(SubSeq(leaves, l + 1, Len(leaves)))

(* Keys of different leaves.                                               *)
LEMMA LeavesAscend ==
  ASSUME Chain, NEW m \in 1 .. Len(leaves), NEW n \in 1 .. Len(leaves), m < n,
         NEW p \in Range(leaves[m]), NEW q \in Range(leaves[n])
  PROVE  p < q
  <1>1. leaves[m] \in Seq(Key) /\ leaves[n] \in Seq(Key)
    BY Reads
  <1>2. PICK g \in 1 .. Len(leaves[m]) : p = leaves[m][g]
    BY <1>1, InRange
  <1>3. PICK h \in 1 .. Len(leaves[n]) : q = leaves[n][h]
    BY <1>1, InRange
  <1>4. Place(m, g) /\ Place(n, h) /\ Before(m, g, n, h)
    BY <1>2, <1>3 DEF Place, Before
  <1> QED
    BY <1>2, <1>3, <1>4, ChainAscends

(* The leaves after one.                                                   *)
LEMMA LeavesAfter ==
  ASSUME Chain, NEW l \in 1 .. Len(leaves)
  PROVE  LET ls == SubSeq(leaves, l + 1, Len(leaves))
         IN  /\ Rising(ls)
             /\ \A x : (\E m \in 1 .. Len(ls) : x \in Range(ls[m]))
                      <=> \E m \in 1 .. Len(leaves) : m > l /\ x \in Range(leaves[m])
  <1> DEFINE ls == SubSeq(leaves, l + 1, Len(leaves))
  <1>1. Len(leaves) \in Nat /\ leaves \in Seq(Seq(Key))
    BY Reads DEF Chain
  <1> PICK z \in Nat : z = Len(leaves)
    BY <1>1
  <1>2. l \in 1 .. z /\ l \in Int /\ l + 1 \in 1 .. z + 1
    OBVIOUS
  <1>3. /\ ls \in Seq(Seq(Key)) /\ Len(ls) = z - (l + 1) + 1
        /\ \A j \in 1 .. z - (l + 1) + 1 : ls[j] = leaves[j + (l + 1) - 1]
    BY ONLY <1>1, <1>2, z = Len(leaves), Suffix
  <1> HIDE DEF ls
  <1>4. /\ z - (l + 1) + 1 = z - l
        /\ \A j \in 1 .. z - l : j + (l + 1) - 1 = l + j /\ l + j \in 1 .. z /\ l + j > l
        /\ \A m \in 1 .. z : m > l => m - l \in 1 .. z - l /\ l + (m - l) = m
        /\ \A m, n \in 1 .. z - l : m < n => l + m < l + n
    BY ONLY <1>2, z \in Nat, SMT
  <1>5. Len(ls) = z - l /\ \A j \in 1 .. z - l : ls[j] = leaves[l + j]
    BY ONLY <1>3, <1>4
  <1>6. \A m \in 1 .. Len(ls) : Ascends(ls[m])
    BY <1>4, <1>5 DEF Chain
  <1>7. ASSUME NEW m \in 1 .. Len(ls), NEW n \in 1 .. Len(ls), m < n,
               NEW p \in Range(ls[m]), NEW q \in Range(ls[n])
        PROVE  p < q
    <2>1. /\ l + m \in 1 .. Len(leaves) /\ l + n \in 1 .. Len(leaves) /\ l + m < l + n
          /\ ls[m] = leaves[l + m] /\ ls[n] = leaves[l + n]
      BY <1>4, <1>5, <1>7
    <2>2. p \in Range(leaves[l + m]) /\ q \in Range(leaves[l + n])
      BY <1>7, <2>1
    <2> QED
      BY <2>1, <2>2, LeavesAscend
  <1>8. Rising(ls)
    BY <1>3, <1>6, <1>7 DEF Rising
  <1>9. ASSUME NEW x, NEW m \in 1 .. Len(ls), x \in Range(ls[m])
        PROVE  \E n \in 1 .. z : n > l /\ x \in Range(leaves[n])
    BY <1>4, <1>5, <1>9
  <1>10. ASSUME NEW x, NEW n \in 1 .. z, n > l, x \in Range(leaves[n])
         PROVE  \E m \in 1 .. Len(ls) : x \in Range(ls[m])
    <2>1. n - l \in 1 .. Len(ls) /\ ls[n - l] = leaves[n]
      BY <1>4, <1>5, <1>10
    <2> QED
      BY <1>10, <2>1
  <1>11. \A x : (\E m \in 1 .. Len(ls) : x \in Range(ls[m]))
                      <=> \E m \in 1 .. Len(leaves) : m > l /\ x \in Range(leaves[m])
    BY <1>9, <1>10
  <1> QED
    BY <1>8, <1>11 DEF ls

LEMMA FromHolds ==
  ASSUME Chain, NEW l \in 1 .. Len(leaves), NEW i \in 0 .. Len(leaves[l])
  PROVE  /\ From(l, i) \in Seq(Key) /\ Ascends(From(l, i))
         /\ \A x : x \in Range(From(l, i)) <=>
              \E m, j : Place(m, j) /\ x = leaves[m][j] /\ ~Before(m, j, l, i + 1)
  <1> DEFINE ls    == SubSeq(leaves, l + 1, Len(leaves))
             first == SubSeq(leaves[l], i + 1, Len(leaves[l]))
             rest  == FlattenSeq(ls)
  <1>1. /\ Len(leaves) \in Nat /\ leaves[l] \in Seq(Key) /\ Ascends(leaves[l])
        /\ Len(leaves[l]) \in Nat /\ l \in Int
    BY Reads DEF Chain
  <1> PICK y \in Nat : y = Len(leaves[l])
    BY <1>1
  <1>2. i \in Nat /\ i + 1 \in 1 .. y + 1 /\ y \in (i + 1) - 1 .. y
    OBVIOUS
  <1>3. /\ first \in Seq(Key) /\ Ascends(first)
        /\ \A x : x \in Range(first) <=> \E j \in i + 1 .. y : x = leaves[l][j]
    <2> PICK s : s = leaves[l]
      OBVIOUS
    <2>1. /\ s \in Seq(Key) /\ Ascends(s)
          /\ i + 1 \in 1 .. Len(s) + 1 /\ y \in (i + 1) - 1 .. Len(s)
      BY ONLY <1>1, <1>2, y = Len(leaves[l]), s = leaves[l]
    <2>2. /\ SubSeq(s, i + 1, y) \in Seq(Key) /\ Ascends(SubSeq(s, i + 1, y))
          /\ \A x : x \in Range(SubSeq(s, i + 1, y)) <=> \E j \in i + 1 .. y : x = s[j]
      BY ONLY <2>1, PieceAscends
    <2>3. first = SubSeq(s, i + 1, y)
      OBVIOUS
    <2> QED
      BY ONLY <2>2, <2>3, s = leaves[l]
  <1>4. /\ Rising(ls)
        /\ \A x : (\E m \in 1 .. Len(ls) : x \in Range(ls[m]))
                 <=> \E m \in 1 .. Len(leaves) : m > l /\ x \in Range(leaves[m])
    BY ONLY Chain, l \in 1 .. Len(leaves), LeavesAfter
  <1>5. From(l, i) = first \o rest
    BY DEF From
  <1> HIDE DEF ls, first
  <1>6. /\ rest \in Seq(Key) /\ Ascends(rest)
        /\ \A x : x \in Range(rest) <=> \E m \in 1 .. Len(ls) : x \in Range(ls[m])
    BY ONLY <1>4, FlattenRises
  <1> HIDE DEF rest
  <1>7. \A x : x \in Range(rest) <=> \E m \in 1 .. Len(leaves) : m > l /\ x \in Range(leaves[m])
    BY ONLY <1>4, <1>6
  <1>8. ASSUME NEW p \in Range(first), NEW q \in Range(rest)  PROVE p < q
    <2>1. PICK j \in i + 1 .. y : p = leaves[l][j]
      BY <1>3
    <2>2. j \in 1 .. Len(leaves[l])
      BY <1>2, <2>1
    <2>3. p \in Range(leaves[l])
      BY <1>1, <2>1, <2>2, InRange
    <2>4. PICK m \in 1 .. Len(leaves) : m > l /\ q \in Range(leaves[m])
      BY <1>7
    <2>5. l < m
      BY <1>1, <2>4
    <2> QED
      BY <2>3, <2>4, <2>5, LeavesAscend
  <1>9. /\ first \o rest \in Seq(Key) /\ Ascends(first \o rest)
        /\ Range(first \o rest) = Range(first) \cup Range(rest)
    BY ONLY <1>3, <1>6, <1>8, JoinAscends
  <1>10. ASSUME NEW x \in Range(first)
         PROVE  \E m, j : Place(m, j) /\ x = leaves[m][j] /\ ~Before(m, j, l, i + 1)
    <2>1. PICK j \in i + 1 .. y : x = leaves[l][j]
      BY <1>3
    <2>2. j \in 1 .. Len(leaves[l]) /\ ~(j < i + 1) /\ ~(l < l)
      BY <1>1, <1>2, <2>1
    <2>3. Place(l, j) /\ ~Before(l, j, l, i + 1)
      BY <2>2 DEF Place, Before
    <2> QED
      BY <2>1, <2>3
  <1>11. ASSUME NEW x \in Range(rest)
         PROVE  \E m, j : Place(m, j) /\ x = leaves[m][j] /\ ~Before(m, j, l, i + 1)
    <2>1. PICK m \in 1 .. Len(leaves) : m > l /\ x \in Range(leaves[m])
      BY <1>7
    <2>2. leaves[m] \in Seq(Key)
      BY Reads
    <2>3. PICK j \in 1 .. Len(leaves[m]) : x = leaves[m][j]
      BY <2>1, <2>2, InRange
    <2>4. ~(m < l) /\ m # l
      BY <1>1, <2>1
    <2>5. Place(m, j) /\ ~Before(m, j, l, i + 1)
      BY <2>4 DEF Place, Before
    <2> QED
      BY <2>3, <2>5
  <1>12. ASSUME NEW m, NEW j, Place(m, j), ~Before(m, j, l, i + 1)
         PROVE  leaves[m][j] \in Range(first) \/ leaves[m][j] \in Range(rest)
    <2>1. /\ m \in 1 .. Len(leaves) /\ j \in 1 .. Len(leaves[m]) /\ leaves[m] \in Seq(Key)
          /\ m \in Int /\ Len(leaves[m]) \in Nat /\ j \in Int
      BY <1>12, Reads DEF Place
    <2>2. CASE m = l
      <3>1. j \in i + 1 .. y
        BY <1>1, <1>2, <1>12, <2>1, <2>2 DEF Before
      <3> QED
        BY <1>3, <2>2, <3>1
    <2>3. CASE m # l
      <3>1. m > l
        BY <1>1, <1>12, <2>1, <2>3 DEF Before
      <3>2. leaves[m][j] \in Range(leaves[m])
        BY <2>1, InRange
      <3> QED
        BY <1>7, <2>1, <3>1, <3>2
    <2> QED
      BY <2>2, <2>3
  <1>13. \A x : x \in Range(first \o rest) <=>
              \E m, j : Place(m, j) /\ x = leaves[m][j] /\ ~Before(m, j, l, i + 1)
    <2>1. \A x : x \in Range(first \o rest) <=> x \in Range(first) \/ x \in Range(rest)
      BY ONLY <1>9
    <2> QED
      BY <2>1, <1>10, <1>11, <1>12
  <1> QED
    BY <1>5, <1>9, <1>13

(* What stands in the leaves stands in some place.                         *)
LEMMA LeavesHold ==
  ASSUME Chain
  PROVE  \A x : x \in UNION {Range(leaves[m]) : m \in DOMAIN leaves}
                 <=> \E m, j : Place(m, j) /\ x = leaves[m][j]
  <1> SUFFICES ASSUME NEW x
               PROVE  x \in UNION {Range(leaves[m]) : m \in DOMAIN leaves}
                        <=> \E m, j : Place(m, j) /\ x = leaves[m][j]
    OBVIOUS
  <1>1. x \in UNION {Range(leaves[m]) : m \in DOMAIN leaves}
          <=> \E m \in 1 .. Len(leaves) : x \in Range(leaves[m])
    BY Reads
  <1>2. \A m \in 1 .. Len(leaves) : x \in Range(leaves[m])
          <=> \E j \in 1 .. Len(leaves[m]) : x = leaves[m][j]
    BY Reads, InRange
  <1> QED
    BY <1>1, <1>2 DEF Place

(* collect_range_bounds finds what is due, in order.                       *)
LEMMA CollectedDue ==
  ASSUME Chain, NEW b \in Bound, NEW e \in Bound
  PROVE  /\ Collected(b, e) \in Seq(Key) /\ Ascends(Collected(b, e))
         /\ Range(Collected(b, e)) = DueWithin(b, e)
  <1>1. Len(leaves) \in Nat /\ (leaves = <<>> <=> Len(leaves) = 0)
    BY Reads DEF Chain
  <1>2. CASE leaves = <<>>
    <2>1. Collected(b, e) = <<>>
      BY <1>2 DEF Collected
    <2>2. DueWithin(b, e) = {}
      BY <1>1, <1>2, Reads DEF DueWithin
    <2> QED
      BY <2>1, <2>2, NothingReturned DEF BeginsDue
  <1>3. CASE leaves # <<>>
    <2> DEFINE l == FirstLeaf(b)
               i == FirstIdx(b)
    <2>1. Collected(b, e) = CutAt(From(l, i), e)
      BY <1>3, Zenon DEF Collected, CutAt, UpTo, From, FirstLeaf, FirstIdx
    <2> HIDE DEF l, i
    <2>2. /\ l \in 1 .. Len(leaves) /\ i \in 0 .. Len(leaves[l])
          /\ \A m, j : Place(m, j) =>
               (NotBefore(leaves[m][j], b) <=> ~Before(m, j, l, i + 1))
      BY ONLY <1>3, Chain, b \in Bound, BoundSplits DEF l, i
    <2> DEFINE s == From(l, i)
    <2>3. /\ s \in Seq(Key) /\ Ascends(s)
          /\ \A x : x \in Range(s) <=>
               \E m, j : Place(m, j) /\ x = leaves[m][j] /\ ~Before(m, j, l, i + 1)
      BY ONLY <2>2, Chain, FromHolds
    <2> HIDE DEF s
    <2>4. \A x : x \in Range(s) <=> \E m, j : Place(m, j) /\ x = leaves[m][j] /\ NotBefore(x, b)
      BY <2>2, <2>3
    <2>5. /\ CutAt(s, e) \in Seq(Key) /\ Ascends(CutAt(s, e))
          /\ \A x : x \in Range(CutAt(s, e)) <=> x \in Range(s) /\ NotPast(x, e)
      BY ONLY <2>3, e \in Bound, CutAscends
    <2>6. \A x : x \in DueWithin(b, e) <=> x \in Range(CutAt(s, e))
      BY <2>4, <2>5, LeavesHold DEF DueWithin
    <2>7. Collected(b, e) = CutAt(s, e)
      BY <2>1 DEF s
    <2>8. Range(CutAt(s, e)) = DueWithin(b, e)
      BY ONLY <2>6
    <2> QED
      BY <2>5, <2>7, <2>8
  <1> QED
    BY <1>2, <1>3

-----------------------------------------------------------------------------
(* The vector of items_range, handed out from both ends.                   *)

Whole(f, v, b) == f \o v \o Reverse(b)

LEMMA Reversed ==
  ASSUME NEW s \in Seq(Key)
  PROVE  Reverse(s) \in Seq(Key) /\ Len(Reverse(s)) = Len(s)
  <1>1. \A i \in 1 .. Len(s) : s[(Len(s) - i) + 1] \in Key
    BY SMT
  <1> DEFINE r == [i \in 1 .. Len(s) |-> s[(Len(s) - i) + 1]]
  <1>2. r \in [1 .. Len(s) -> Key] /\ Len(s) \in Nat
    BY <1>1
  <1>3. Seq(Key) = UNION {[1 .. n -> Key] : n \in Nat}
    BY SeqDef, Zenon
  <1>4. \E n \in Nat : r \in [1 .. n -> Key]
    BY <1>2
  <1>5. r \in Seq(Key)
    BY <1>3, <1>4, Zenon
  <1>6. DOMAIN r = 1 .. Len(s)
    OBVIOUS
  <1> HIDE DEF r
  <1>7. Len(r) = Len(s)
    BY <1>2, <1>5, <1>6
  <1> QED
    BY <1>5, <1>7 DEF Reverse, r

(* The first one left goes out at the front.                               *)
LEMMA HeadGoes ==
  ASSUME NEW f \in Seq(Key), NEW v \in Seq(Key), v # <<>>, NEW b \in Seq(Key)
  PROVE  /\ Append(f, Head(v)) \in Seq(Key) /\ Tail(v) \in Seq(Key)
         /\ Whole(Append(f, Head(v)), Tail(v), b) = Whole(f, v, b)
  <1>1. Len(v) \in Nat /\ Len(v) >= 1
    BY SMT
  <1>2. Head(v) \in Key /\ Tail(v) \in Seq(Key)
    BY <1>1, Ends
  <1>3. v = <<Head(v)>> \o Tail(v)
    BY <1>1, SMT
  <1>4. Append(f, Head(v)) = f \o <<Head(v)>> /\ Append(f, Head(v)) \in Seq(Key)
    BY <1>2, SMT
  <1>5. Associative(f, <<Head(v)>>, Tail(v))
    <2>1. <<Head(v)>> \in Seq(Key)
      BY <1>2
    <2> QED
      BY <1>2, <2>1, ConcatAssoc
  <1>6. Append(f, Head(v)) \o Tail(v) = f \o v
    BY ONLY <1>3, <1>4, <1>5, Zenon DEF Associative
  <1> QED
    BY <1>2, <1>4, <1>6 DEF Whole

(* The last one left goes out at the back.                                 *)
LEMMA LastGoes ==
  ASSUME NEW f \in Seq(Key), NEW v \in Seq(Key), v # <<>>, NEW b \in Seq(Key)
  PROVE  /\ Append(b, Last(v)) \in Seq(Key) /\ Front(v) \in Seq(Key)
         /\ Whole(f, Front(v), Append(b, Last(v))) = Whole(f, v, b)
  <1>1. Len(v) \in Nat /\ Len(v) >= 1
    BY SMT
  <1> PICK e : e = Last(v)
    OBVIOUS
  <1>2. e \in Key /\ Front(v) \in Seq(Key)
    BY <1>1, Ends
  <1>3. <<e>> \in Seq(Key)
    BY <1>2
  <1>4. v = Front(v) \o <<e>>
    BY <1>1, SMT DEF Front, Last
  <1>5. Append(b, e) \in Seq(Key) /\ Len(Append(b, e)) = Len(b) + 1 /\ Len(b) \in Nat
    BY <1>2
  <1>6. Reverse(b) \in Seq(Key)
    BY Reversed
  <1>7. Reverse(Append(b, e)) = <<e>> \o Reverse(b)
    <2> DEFINE p == Reverse(Append(b, e))
               q == <<e>> \o Reverse(b)
    <2>1. p \in Seq(Key) /\ Len(p) = Len(b) + 1
      BY <1>5, Reversed
    <2>2. q \in Seq(Key) /\ Len(q) = Len(b) + 1 /\ q[1] = e
          /\ \A j \in 2 .. Len(b) + 1 : q[j] = Reverse(b)[j - 1]
      BY <1>2, <1>6, Reversed, Pushed
    <2>3. \A j \in 1 .. Len(b) + 1 : p[j] = Append(b, e)[((Len(b) + 1) - j) + 1]
      BY <1>5 DEF Reverse
    <2>4. \A j \in 1 .. Len(b) : Reverse(b)[j] = b[(Len(b) - j) + 1]
      BY DEF Reverse
    <2>5. Append(b, e)[Len(b) + 1] = e /\ \A j \in 1 .. Len(b) : Append(b, e)[j] = b[j]
      BY <1>2, Pushed
    <2> HIDE DEF p, q
    <2>6. \A j \in 1 .. Len(b) + 1 : p[j] = q[j]
      <3> TAKE j \in 1 .. Len(b) + 1
      <3>1. CASE j = 1
        <4>1. ((Len(b) + 1) - 1) + 1 = Len(b) + 1
          BY <1>5
        <4> QED
          BY <2>2, <2>3, <2>5, <3>1, <4>1
      <3>2. CASE j # 1
        <4>1. /\ j \in 2 .. Len(b) + 1 /\ j - 1 \in 1 .. Len(b)
              /\ ((Len(b) + 1) - j) + 1 \in 1 .. Len(b)
              /\ (Len(b) - (j - 1)) + 1 = ((Len(b) + 1) - j) + 1
          BY <1>5, <3>2
        <4>2. p[j] = b[((Len(b) + 1) - j) + 1]
          BY <2>3, <2>5, <4>1
        <4>3. q[j] = b[(Len(b) - (j - 1)) + 1]
          BY <2>2, <2>4, <4>1
        <4> QED
          BY <4>1, <4>2, <4>3
      <3> QED
        BY <3>1, <3>2
    <2>7. p = q
      BY <2>1, <2>2, <2>6, SeqEqual
    <2> QED
      BY <2>7 DEF p, q
  <1>8. Associative(f, Front(v), <<e>>)
    BY <1>2, <1>3, ConcatAssoc
  <1>9. f \o Front(v) \in Seq(Key)
    BY <1>2
  <1>10. Associative(f \o Front(v), <<e>>, Reverse(b))
    BY <1>3, <1>6, <1>9, ConcatAssoc
  <1>11. (f \o Front(v)) \o (<<e>> \o Reverse(b)) = (f \o v) \o Reverse(b)
    BY ONLY <1>4, <1>8, <1>10, Zenon DEF Associative
  <1> QED
    BY <1>2, <1>5, <1>7, <1>11 DEF Whole

-----------------------------------------------------------------------------
(* The invariant.                                                          *)

(* What is set before an iterator is made, and for which kind of it.       *)
Making ==
  /\ kind \in {"none", "items", "range", "vec"}
  /\ lo \in Bound /\ hi \in Bound
  /\ initialized \in BOOLEAN /\ fdone \in BOOLEAN /\ bdone \in BOOLEAN
  /\ kind \in {"none", "items"} => NoBounds
  /\ kind = "none" => fronts = <<>> /\ backs = <<>> /\ ~fdone /\ ~bdone
  /\ kind = "items" => initialized
  /\ kind # "items" => back = 0 /\ bidx = 0 /\ remaining = 0
  /\ kind \in {"none", "vec"} => ~initialized
  /\ kind = "range" => backs = <<>>
  /\ ~initialized => front = 0 /\ fidx = 0

FrontInv ==
  Lazy => IF initialized THEN FrontAt(front, fidx, fronts) /\ (fdone => front = 0)
          ELSE fronts = <<>> /\ ~fdone

BackInv ==
  kind = "items" => BackAt(back, bidx, backs) /\ (bdone => back = 0)

(* remaining counts for whichever end has been the only one asked.         *)
Counted ==
  /\ remaining \in 0 .. len
  /\ remaining > 0 /\ backs  = <<>> => remaining = Cardinality(Due) - Len(fronts)
  /\ remaining > 0 /\ fronts = <<>> => remaining = Cardinality(Due) - Len(backs)

VecInv ==
  /\ inner \in Seq(Key) /\ (kind # "vec" => inner = <<>>)
  /\ kind = "vec" => /\ fronts \in Seq(Key) /\ backs \in Seq(Key)
                     /\ Ascends(Whole(fronts, inner, backs))
                     /\ Range(Whole(fronts, inner, backs)) = Due
                     /\ fdone \/ bdone => inner = <<>>

IInv == Chain /\ Making /\ FrontInv /\ BackInv /\ Counted /\ VecInv

(* It holds of every map.                                                  *)
LEMMA SortedSeqs ==
  ASSUME NEW s \in SortedKeys
  PROVE  s \in Seq(Key) /\ Ascends(s)
  <1>1. PICK n \in 0 .. Cardinality(Key) : s \in [1 .. n -> Key]
    BY DEF SortedKeys
  <1>2. n \in Nat
    BY FS_CardinalityType, KeysAssumption
  <1>3. Seq(Key) = UNION {[1 .. m -> Key] : m \in Nat}
    BY SeqDef, Zenon
  <1>4. s \in Seq(Key)
    BY <1>1, <1>2, <1>3, Zenon
  <1> QED
    BY <1>4 DEF SortedKeys

LEMMA InitChain ==
  ASSUME Init
  PROVE  Chain
  <1>1. CASE leaves = <<>> /\ seps = <<>>
    BY <1>1, SMT DEF Chain, Ascends
  <1>2. CASE /\ seps \in SortedKeys /\ Len(seps) <= MaxSeps
             /\ leaves \in [1 .. Len(seps) + 1 -> SortedKeys]
             /\ \A i \in DOMAIN leaves : \A k \in Range(leaves[i]) : Rank(seps, k) + 1 = i
    <2>1. seps \in Seq(Key) /\ Ascends(seps) /\ Len(seps) \in Nat
      BY <1>2, SortedSeqs
    <2> PICK z \in Nat : z = Len(seps) + 1
      BY <2>1
    <2>2. leaves \in [1 .. z -> Seq(Key)] /\ DOMAIN leaves = 1 .. z
      BY <1>2, SortedSeqs
    <2>3. Seq(Seq(Key)) = UNION {[1 .. n -> Seq(Key)] : n \in Nat}
      BY SeqDef, Zenon
    <2>4. leaves \in Seq(Seq(Key))
      BY <2>2, <2>3, Zenon
    <2>5. Len(leaves) = z
      BY <2>2, <2>4
    <2>6. \A m \in 1 .. Len(leaves) : Ascends(leaves[m])
      BY <1>2, <2>2, <2>5, SortedSeqs
    <2> QED
      BY <1>2, <2>1, <2>2, <2>4, <2>5, <2>6 DEF Chain
  <1> QED
    BY <1>1, <1>2 DEF Init

LEMMA InitInv ==
  ASSUME Init
  PROVE  IInv
  <1>1. Chain
    BY InitChain
  <1>2. /\ kind = "none" /\ front = 0 /\ fidx = 0 /\ back = 0 /\ bidx = 0 /\ remaining = 0
        /\ NoBounds /\ initialized = FALSE /\ inner = <<>>
        /\ fronts = <<>> /\ backs = <<>> /\ fdone = FALSE /\ bdone = FALSE
    BY DEF Init, NoBounds
  <1>3. len \in Nat /\ lo \in Bound /\ hi \in Bound
    BY <1>1, <1>2, LenCounts, AllDue
  <1>4. Making
    BY <1>2, <1>3 DEF Making
  <1>5. FrontInv /\ BackInv
    BY <1>2 DEF FrontInv, BackInv, Lazy
  <1>6. Counted
    BY <1>2, <1>3, SMT DEF Counted
  <1>7. VecInv
    BY <1>2, NothingReturned DEF VecInv
  <1> QED
    BY <1>1, <1>4, <1>5, <1>6, <1>7 DEF IInv

-----------------------------------------------------------------------------
(* Every step keeps it.                                                    *)

(* The map stands still.                                                   *)
LEMMA MapKept ==
  ASSUME UNCHANGED <<leaves, seps>>
  PROVE  /\ Chain => Chain'
         /\ len' = len
         /\ UNCHANGED <<lo, hi>> => Due' = Due /\ (NoBounds <=> NoBounds')
  BY DEF Chain, len, Places, Due, NoBounds

LEMMA PositionKept ==
  ASSUME UNCHANGED <<leaves, lo, hi>>
  PROVE  /\ FrontAt(front', fidx', fronts') => FrontAt(front, fidx, fronts)'
         /\ BackAt(back', bidx', backs') => BackAt(back, bidx, backs)'
  <1>1. Due' = Due
    BY DEF Due
  <1> QED
    BY <1>1 DEF FrontAt, BackAt, BeginsDue, EndsDue, Place

(* Wherever next looks first, it is in the right place.                    *)
LEMMA PositionRight ==
  ASSUME IInv, Lazy
  PROVE  FrontAt(Position[1], Position[2], fronts)
  <1>1. CASE initialized
    BY <1>1 DEF IInv, FrontInv, Position
  <1>2. CASE ~initialized
    <2>1. FrontAt(Start[1], Start[2], <<>>)
      BY StartSplits DEF IInv, Making
    <2> QED
      BY <1>2, <2>1 DEF IInv, FrontInv, Position
  <1> QED
    BY <1>1, <1>2

(* What a step of the front leaves alone.                                  *)
FrontSteps ==
  /\ UNCHANGED <<tree, kind, bend, lo, hi, inner, backs, bdone>>
  /\ Lazy /\ initialized' = TRUE

LEMMA FrontKeeps ==
  ASSUME IInv, FrontSteps, fdone' \in BOOLEAN, remaining' \in Nat, remaining' <= remaining,
         FrontAt(front', fidx', fronts'), fdone' => front' = 0
  PROVE  Chain' /\ Making' /\ FrontInv' /\ BackInv' /\ VecInv'
  <1>1. UNCHANGED <<leaves, seps, kind, back, bidx, lo, hi, inner, backs, bdone>> /\ initialized'
    BY DEF FrontSteps, tree, bend
  <1>2. Chain'
    BY <1>1, MapKept DEF IInv
  <1>3. kind \in {"items", "range"} /\ kind' = kind
    BY <1>1 DEF FrontSteps, Lazy
  <1>4. kind # "items" => remaining' = 0
    <2>1. kind # "items" => remaining = 0
      BY DEF IInv, Making
    <2> QED
      BY <2>1
  <1>5. Making'
    BY <1>1, <1>3, <1>4, MapKept DEF IInv, Making
  <1>6. FrontInv'
    BY <1>1, PositionKept DEF FrontInv
  <1>7. BackInv'
    BY <1>1, PositionKept DEF IInv, BackInv
  <1>8. VecInv'
    BY <1>1, <1>3 DEF IInv, VecInv
  <1> QED
    BY <1>2, <1>5, <1>6, <1>7, <1>8

(* The end of a front.                                                     *)
LEMMA FrontEndsKeeps ==
  ASSUME IInv, Lazy, FrontEnds, FrontAt(0, 0, fronts), remaining' \in {0, remaining}
  PROVE  IInv'
  <1>1. FrontSteps /\ fronts' = fronts /\ front' = 0 /\ fidx' = 0 /\ fdone' = TRUE
    BY DEF FrontEnds, FrontSteps
  <1>2. remaining \in Nat /\ len \in Nat
    <2>1. remaining \in 0 .. len /\ len \in Nat
      BY LenNat DEF IInv, Counted
    <2> QED
      BY <2>1
  <1>3. Chain' /\ Making' /\ FrontInv' /\ BackInv' /\ VecInv'
    BY <1>1, <1>2, FrontKeeps
  <1>4. Due' = Due /\ len' = len /\ backs' = backs
    BY <1>1, MapKept DEF FrontSteps, tree
  <1>5. Counted'
    BY <1>1, <1>2, <1>4 DEF IInv, Counted
  <1> QED
    BY <1>3, <1>5 DEF IInv

(* The least of some leaves is where next looks for its item.              *)
LEMMA NextItem ==
  ASSUME NEW l \in Int, NEW i, Ahead(l, i) # {}
  PROVE  LET m == CHOOSE m \in Ahead(l, i) : \A n \in Ahead(l, i) : m <= n
         IN  m \in Ahead(l, i) /\ \A n \in Ahead(l, i) : m <= n
  <1>1. Ahead(l, i) \subseteq Nat
    BY DEF Ahead
  <1>2. \E m \in Ahead(l, i) : \A n \in Ahead(l, i) : m <= n
    BY <1>1, LeastOf
  <1> QED
    BY <1>2, Zenon

(* Where the item is that next returns or stops at.                        *)
LEMMA FrontItemRight ==
  ASSUME IInv, Lazy, Position[1] # 0, Ahead(Position[1], Position[2]) # {}
  PROVE  \E m, j :
           /\ m \in Ahead(Position[1], Position[2])
           /\ \A n \in Ahead(Position[1], Position[2]) : m <= n
           /\ j = IF m = Position[1] THEN Position[2] ELSE 0
           /\ FrontItem[1] = m /\ FrontItem[2] = j /\ FrontKey = leaves[m][j + 1]
  <1> DEFINE l == Position[1]
             i == Position[2]
             m == CHOOSE m \in Ahead(l, i) : \A n \in Ahead(l, i) : m <= n
             j == IF m = l THEN i ELSE 0
  <1>1. FrontItem = <<m, j>>
    BY DEF FrontItem
  <1>2. l \in 0 .. Len(leaves)
    BY PositionRight DEF FrontAt
  <1>3. l \in Int
    BY <1>2
  <1> HIDE DEF l, i
  <1>4. m \in Ahead(l, i) /\ \A n \in Ahead(l, i) : m <= n
    BY ONLY <1>3, Ahead(Position[1], Position[2]) # {}, NextItem, Zenon DEF l, i
  <1> HIDE DEF m
  <1>5. FrontItem[1] = m /\ FrontItem[2] = j
    BY <1>1
  <1>6. FrontKey = leaves[m][j + 1]
    BY <1>5 DEF FrontKey
  <1> HIDE DEF j
  <1>7. j = IF m = l THEN i ELSE 0
    BY DEF j
  <1> QED
    BY ONLY <1>4, <1>5, <1>6, <1>7, Zenon DEF l, i

LEMMA NextHasNoLeafKeeps ==
  ASSUME IInv, NextHasNoLeaf
  PROVE  IInv'
  <1>1. Lazy /\ Position[1] = 0 /\ FrontEnds /\ remaining' = remaining
    BY DEF NextHasNoLeaf
  <1>2. FrontAt(Position[1], Position[2], fronts)
    BY <1>1, PositionRight
  <1>3. Position[2] = 0
    BY <1>1, <1>2 DEF FrontAt
  <1>4. FrontAt(0, 0, fronts)
    BY <1>1, <1>2, <1>3
  <1> QED
    BY <1>1, <1>4, FrontEndsKeeps

LEMMA NextRunsOutKeeps ==
  ASSUME IInv, NextRunsOut
  PROVE  IInv'
  <1>1. /\ Lazy /\ Position[1] # 0 /\ Ahead(Position[1], Position[2]) = {}
        /\ FrontEnds /\ remaining' = 0
    BY DEF NextRunsOut
  <1>2. FrontAt(0, 0, fronts)
    BY <1>1, PositionRight, FrontRunsOut DEF IInv
  <1> QED
    BY <1>1, <1>2, FrontEndsKeeps

LEMMA NextPastEndKeeps ==
  ASSUME IInv, NextPastEnd
  PROVE  IInv'
  <1>1. /\ Lazy /\ Position[1] # 0 /\ Ahead(Position[1], Position[2]) # {}
        /\ ~NotPast(FrontKey, hi)
        /\ FrontEnds /\ remaining' = 0
    BY DEF NextPastEnd
  <1>2. PICK m, j :
           /\ m \in Ahead(Position[1], Position[2])
           /\ \A n \in Ahead(Position[1], Position[2]) : m <= n
           /\ j = IF m = Position[1] THEN Position[2] ELSE 0
           /\ FrontItem[1] = m /\ FrontItem[2] = j /\ FrontKey = leaves[m][j + 1]
    BY <1>1, FrontItemRight
  <1>3. ~NotPast(leaves[m][j + 1], hi)
    BY <1>1, <1>2
  <1>4. Chain /\ hi \in Bound
    BY DEF IInv, Making
  <1>5. FrontAt(Position[1], Position[2], fronts)
    BY <1>1, PositionRight
  <1>6. FrontAt(0, 0, fronts)
    BY ONLY <1>1, <1>2, <1>3, <1>4, <1>5, FrontPastEnd
  <1> QED
    BY <1>1, <1>6, FrontEndsKeeps

LEMMA NextYieldsKeeps ==
  ASSUME IInv, NextYields
  PROVE  IInv'
  <1>1. /\ Lazy /\ Position[1] # 0 /\ Ahead(Position[1], Position[2]) # {}
        /\ NotPast(FrontKey, hi)
        /\ initialized' = TRUE /\ front' = FrontItem[1] /\ fidx' = FrontItem[2] + 1
        /\ remaining' = LessOne(remaining)
        /\ fronts' = Append(fronts, FrontKey)
        /\ UNCHANGED <<tree, kind, bend, lo, hi, inner, backs, fdone, bdone>>
    BY DEF NextYields
  <1>2. PICK m, j :
           /\ m \in Ahead(Position[1], Position[2])
           /\ \A n \in Ahead(Position[1], Position[2]) : m <= n
           /\ j = IF m = Position[1] THEN Position[2] ELSE 0
           /\ FrontItem[1] = m /\ FrontItem[2] = j /\ FrontKey = leaves[m][j + 1]
    BY <1>1, FrontItemRight
  <1>3. NotPast(leaves[m][j + 1], hi) /\ Chain
    BY <1>1, <1>2 DEF IInv
  <1>4. FrontAt(Position[1], Position[2], fronts)
    BY <1>1, PositionRight
  <1>5. FrontAt(m, j + 1, Append(fronts, leaves[m][j + 1]))
    BY ONLY <1>1, <1>2, <1>3, <1>4, FrontYields
  <1>6. FrontAt(front', fidx', fronts')
    BY <1>1, <1>2, <1>5
  <1>7. FrontSteps
    BY <1>1 DEF FrontSteps
  <1>8. /\ remaining \in Nat /\ remaining <= len /\ len \in Nat
        /\ Cardinality(Due) \in Int \/ remaining = 0
    <2>1. remaining \in 0 .. len /\ len \in Nat
      BY LenNat DEF IInv, Counted
    <2>2. remaining = 0 \/ NoBounds
      BY DEF IInv, Making
    <2>3. NoBounds => Cardinality(Due) = len /\ len \in Nat
      BY LenCounts DEF IInv
    <2> QED
      BY <2>1, <2>2, <2>3
  <1>9. /\ remaining' \in Nat /\ remaining' <= remaining
        /\ remaining' > 0 => remaining > 0 /\ remaining' = remaining - 1
    BY <1>1, <1>8 DEF LessOne
  <1>10. fdone = FALSE
    <2>1. fdone => initialized /\ front = 0
      BY <1>1 DEF IInv, FrontInv
    <2>2. fdone => Position[1] = 0
      BY <2>1 DEF Position
    <2> QED
      BY <1>1, <2>2 DEF IInv, Making
  <1>11. Chain' /\ Making' /\ FrontInv' /\ BackInv' /\ VecInv'
    BY <1>1, <1>6, <1>7, <1>9, <1>10, FrontKeeps
  <1>12. Due' = Due /\ len' = len /\ backs' = backs
    BY <1>1, MapKept DEF tree
  <1>13. fronts \in Seq(Key) /\ fronts' \in Seq(Key) /\ Len(fronts') = Len(fronts) + 1
         /\ Len(fronts) \in Nat /\ fronts' # <<>>
    <2>1. fronts \in Seq(Key) /\ fronts' \in Seq(Key)
      BY <1>4, <1>6 DEF FrontAt
    <2> PICK k : k = FrontKey
      OBVIOUS
    <2>2. fronts' = Append(fronts, k)
      BY <1>1
    <2>3. Len(fronts') = Len(fronts) + 1 /\ Len(fronts) \in Nat
      BY <2>1, <2>2, SMT
    <2> QED
      BY <2>1, <2>3, SMT
  <1>14. Counted'
    <2>1. remaining' \in 0 .. len'
      BY <1>8, <1>9, <1>12
    <2>2. ASSUME remaining' > 0, backs' = <<>>
          PROVE  remaining' = Cardinality(Due) - (Len(fronts) + 1)
      <3>1. remaining = Cardinality(Due) - Len(fronts)
        BY <1>9, <1>12, <2>2 DEF IInv, Counted
      <3>2. remaining' = remaining - 1 /\ Cardinality(Due) \in Int /\ remaining \in Int
        BY <1>8, <1>9, <2>2
      <3> QED
        BY ONLY <3>1, <3>2, <1>13, SMT
    <2> QED
      BY <1>12, <1>13, <2>1, <2>2 DEF Counted
  <1> QED
    BY <1>11, <1>14 DEF IInv

(* The back.                                                               *)
BackSteps ==
  /\ UNCHANGED <<tree, kind, fend, lo, hi, inner, fronts, fdone>>
  /\ Lazy

LEMMA BackKeeps ==
  ASSUME IInv, BackSteps, bdone' \in BOOLEAN, remaining' \in Nat, remaining' <= remaining,
         kind = "items" => BackAt(back', bidx', backs') /\ (bdone' => back' = 0),
         kind = "range" => back' = 0 /\ bidx' = 0 /\ backs' = backs
  PROVE  Chain' /\ Making' /\ FrontInv' /\ BackInv' /\ VecInv'
  <1>1. UNCHANGED <<leaves, seps, kind, front, fidx, initialized, lo, hi, inner, fronts, fdone>>
    BY DEF BackSteps, tree, fend
  <1>2. Chain'
    BY <1>1, MapKept DEF IInv
  <1>3. kind \in {"items", "range"} /\ kind' = kind
    BY <1>1 DEF BackSteps, Lazy
  <1>4. kind # "items" => remaining' = 0
    <2>1. kind # "items" => remaining = 0
      BY DEF IInv, Making
    <2> QED
      BY <2>1
  <1>5. Making'
    BY <1>1, <1>3, <1>4, MapKept DEF IInv, Making
  <1>6. FrontInv'
    BY <1>1, PositionKept DEF IInv, FrontInv, Lazy
  <1>7. BackInv'
    BY <1>1, PositionKept DEF BackInv
  <1>8. VecInv'
    BY <1>1, <1>3 DEF IInv, VecInv
  <1> QED
    BY <1>2, <1>5, <1>6, <1>7, <1>8

LEMMA BackEndsKeeps ==
  ASSUME IInv, Lazy, BackEnds, kind = "items" => BackAt(0, 0, backs),
         remaining' \in {0, remaining}
  PROVE  IInv'
  <1>1. BackSteps /\ backs' = backs /\ back' = 0 /\ bidx' = 0 /\ bdone' = TRUE
    BY DEF BackEnds, BackSteps
  <1>2. remaining \in Nat /\ len \in Nat
    <2>1. remaining \in 0 .. len /\ len \in Nat
      BY LenNat DEF IInv, Counted
    <2> QED
      BY <2>1
  <1>3. Chain' /\ Making' /\ FrontInv' /\ BackInv' /\ VecInv'
    BY <1>1, <1>2, BackKeeps
  <1>4. Due' = Due /\ len' = len /\ fronts' = fronts
    BY <1>1, MapKept DEF BackSteps, tree
  <1>5. Counted'
    BY <1>1, <1>2, <1>4 DEF IInv, Counted
  <1> QED
    BY <1>3, <1>5 DEF IInv

LEMMA BackHasNoLeafKeeps ==
  ASSUME IInv, BackHasNoLeaf
  PROVE  IInv'
  <1>1. Lazy /\ back = 0 /\ BackEnds /\ remaining' = remaining
    BY DEF BackHasNoLeaf
  <1>2. kind = "items" => BackAt(0, 0, backs)
    BY <1>1 DEF IInv, BackInv, BackAt
  <1> QED
    BY <1>1, <1>2, BackEndsKeeps

LEMMA BackRunsOutKeeps ==
  ASSUME IInv, BackRunsOut
  PROVE  IInv'
  <1>1. Lazy /\ back # 0 /\ Behind(back, bidx) = {} /\ BackEnds /\ remaining' = 0
    BY DEF BackRunsOut
  <1>2. kind = "items" => BackAt(back, bidx, backs) /\ NoBounds /\ Chain
    BY DEF IInv, BackInv, Making
  <1>3. kind = "items" => BackAt(0, 0, backs)
    BY <1>1, <1>2, BackRunsDry
  <1> QED
    BY <1>1, <1>3, BackEndsKeeps

(* The greatest of some leaves is where next_back looks for its item.      *)
LEMMA LastItem ==
  ASSUME NEW l, NEW i, Behind(l, i) # {}, Len(leaves) \in Nat
  PROVE  LET m == CHOOSE m \in Behind(l, i) : \A n \in Behind(l, i) : m >= n
         IN  m \in Behind(l, i) /\ \A n \in Behind(l, i) : m >= n
  <1> PICK z \in Nat : z = Len(leaves)
    OBVIOUS
  <1> DEFINE U == Behind(l, i)
             T == {x \in Nat : z - x \in U}
  <1>1. \A n \in U : n \in 1 .. z
    BY DEF Behind
  <1> HIDE DEF U
  <1>2. PICK p \in U : TRUE
    BY DEF U
  <1>3. z - p \in Nat /\ z - (z - p) = p
    BY <1>1, <1>2
  <1>4. T \subseteq Nat /\ T # {}
    BY <1>2, <1>3
  <1>5. PICK x \in T : \A y \in T : x <= y
    BY <1>4, LeastOf
  <1>6. \A n \in U : z - x >= n
    <2> TAKE n \in U
    <2>1. n \in Int /\ z - n \in Nat /\ z - (z - n) = n
      BY <1>1
    <2>2. x <= z - n /\ x \in Nat
      BY <1>5, <2>1
    <2> QED
      BY <2>1, <2>2
  <1>7. \E m \in U : \A n \in U : m >= n
    BY <1>5, <1>6
  <1> QED
    BY <1>7, Zenon DEF U

LEMMA BackItemRight ==
  ASSUME Len(leaves) \in Nat, Behind(back, bidx) # {}
  PROVE  \E m, j :
           /\ m \in Behind(back, bidx)
           /\ \A n \in Behind(back, bidx) : m >= n
           /\ j = IF m = back THEN bidx ELSE Len(leaves[m])
           /\ BackItem[1] = m /\ BackItem[2] = j - 1
           /\ BackKey = leaves[m][(j - 1) + 1]
  <1> DEFINE m == CHOOSE m \in Behind(back, bidx) : \A n \in Behind(back, bidx) : m >= n
             j == IF m = back THEN bidx ELSE Len(leaves[m])
  <1>1. BackItem = <<m, j - 1>>
    BY DEF BackItem
  <1>2. m \in Behind(back, bidx) /\ \A n \in Behind(back, bidx) : m >= n
    BY LastItem, Zenon
  <1> HIDE DEF m
  <1>3. j = IF m = back THEN bidx ELSE Len(leaves[m])
    OBVIOUS
  <1> HIDE DEF j
  <1>4. BackItem[1] = m /\ BackItem[2] = j - 1
    BY <1>1
  <1>5. BackKey = leaves[m][(j - 1) + 1]
    BY <1>4 DEF BackKey
  <1> QED
    BY ONLY <1>2, <1>3, <1>4, <1>5, Zenon

LEMMA BackYieldsKeeps ==
  ASSUME IInv, BackYields
  PROVE  IInv'
  <1>1. /\ Lazy /\ back # 0 /\ Behind(back, bidx) # {}
        /\ back' = BackItem[1] /\ bidx' = BackItem[2]
        /\ remaining' = LessOne(remaining)
        /\ backs' = Append(backs, BackKey)
        /\ UNCHANGED <<tree, kind, fend, lo, hi, inner, fronts, fdone, bdone>>
    BY DEF BackYields
  <1>2. /\ Chain /\ NoBounds /\ kind = "items" /\ BackAt(back, bidx, backs)
        /\ (bdone => back = 0) /\ bdone \in BOOLEAN /\ Len(leaves) \in Nat
    BY <1>1, Reads DEF IInv, BackInv, Making
  <1>3. PICK m, j :
           /\ m \in Behind(back, bidx)
           /\ \A n \in Behind(back, bidx) : m >= n
           /\ j = IF m = back THEN bidx ELSE Len(leaves[m])
           /\ BackItem[1] = m /\ BackItem[2] = j - 1
           /\ BackKey = leaves[m][(j - 1) + 1]
    BY <1>1, <1>2, BackItemRight
  <1>4. (j - 1) + 1 = j
    <2>1. m \in 1 .. Len(leaves) /\ bidx \in Nat
      BY <1>2, <1>3 DEF Behind, BackAt
    <2>2. Len(leaves[m]) \in Nat
      BY <1>2, <2>1, Reads
    <2>3. j \in Nat
      BY <1>3, <2>1, <2>2
    <2> QED
      BY ONLY <2>3, SMT
  <1>5. BackAt(m, j - 1, Append(backs, leaves[m][j]))
    BY ONLY <1>1, <1>2, <1>3, BackYieldsLast
  <1>6. BackAt(back', bidx', backs')
    BY ONLY <1>1, <1>3, <1>4, <1>5
  <1>7. BackSteps
    BY <1>1 DEF BackSteps
  <1>8. /\ remaining \in Nat /\ remaining <= len /\ len \in Nat
        /\ Cardinality(Due) \in Int
    <2>1. remaining \in 0 .. len
      BY DEF IInv, Counted
    <2>2. Cardinality(Due) = len /\ len \in Nat
      BY <1>2, LenCounts
    <2> QED
      BY <2>1, <2>2
  <1>9. /\ remaining' \in Nat /\ remaining' <= remaining
        /\ remaining' > 0 => remaining > 0 /\ remaining' = remaining - 1
    BY <1>1, <1>8 DEF LessOne
  <1>10. bdone' = FALSE
    BY <1>1, <1>2
  <1>11. Chain' /\ Making' /\ FrontInv' /\ BackInv' /\ VecInv'
    BY <1>2, <1>6, <1>7, <1>9, <1>10, BackKeeps
  <1>12. Due' = Due /\ len' = len /\ fronts' = fronts
    BY <1>1, MapKept DEF tree
  <1>13. backs \in Seq(Key) /\ backs' \in Seq(Key) /\ Len(backs') = Len(backs) + 1
         /\ Len(backs) \in Nat /\ backs' # <<>>
    <2>1. backs \in Seq(Key) /\ backs' \in Seq(Key)
      BY <1>2, <1>6 DEF BackAt
    <2> PICK k : k = BackKey
      OBVIOUS
    <2>2. backs' = Append(backs, k)
      BY <1>1
    <2>3. Len(backs') = Len(backs) + 1 /\ Len(backs) \in Nat
      BY <2>1, <2>2, SMT
    <2> QED
      BY <2>1, <2>3, SMT
  <1>14. Counted'
    <2>1. remaining' \in 0 .. len'
      BY <1>8, <1>9, <1>12
    <2>2. ASSUME remaining' > 0, fronts' = <<>>
          PROVE  remaining' = Cardinality(Due) - (Len(backs) + 1)
      <3>1. remaining = Cardinality(Due) - Len(backs)
        BY <1>9, <1>12, <2>2 DEF IInv, Counted
      <3>2. remaining' = remaining - 1 /\ Cardinality(Due) \in Int /\ remaining \in Int
        BY <1>8, <1>9, <2>2
      <3> QED
        BY ONLY <3>1, <3>2, <1>13, SMT
    <2> QED
      BY <1>12, <1>13, <2>1, <2>2 DEF Counted
  <1> QED
    BY <1>11, <1>14 DEF IInv

(* The vector.                                                             *)
LEMMA VecKeeps ==
  ASSUME IInv, kind = "vec", UNCHANGED <<tree, kind, fend, bend, remaining, lo, hi>>,
         fdone' \in BOOLEAN, bdone' \in BOOLEAN,
         inner' \in Seq(Key), fronts' \in Seq(Key), backs' \in Seq(Key),
         Whole(fronts', inner', backs') = Whole(fronts, inner, backs),
         fdone' \/ bdone' => inner' = <<>>
  PROVE  IInv'
  <1>1. UNCHANGED <<leaves, seps, kind, front, fidx, initialized, back, bidx, remaining, lo, hi>>
    BY DEF tree, fend, bend
  <1>2. Chain' /\ Due' = Due /\ len' = len
    BY <1>1, MapKept DEF IInv
  <1>3. remaining = 0 /\ len \in Nat
    BY LenNat DEF IInv, Making
  <1>4. Making'
    BY <1>1 DEF IInv, Making
  <1>5. FrontInv' /\ BackInv'
    BY <1>1 DEF FrontInv, BackInv, Lazy
  <1>6. Counted'
    BY <1>1, <1>2, <1>3 DEF Counted
  <1>7. VecInv'
    <2>1. Ascends(Whole(fronts, inner, backs)) /\ Range(Whole(fronts, inner, backs)) = Due
      BY DEF IInv, VecInv
    <2>2. Whole(fronts, inner, backs)' = Whole(fronts, inner, backs)
      BY DEF Whole
    <2>3. Ascends(Whole(fronts, inner, backs)') /\ Range(Whole(fronts, inner, backs)') = Due'
      BY ONLY <1>2, <2>1, <2>2
    <2> QED
      BY <1>1, <2>3 DEF VecInv
  <1> QED
    BY <1>2, <1>4, <1>5, <1>6, <1>7 DEF IInv

LEMMA NextOfVecKeeps ==
  ASSUME IInv, NextOfVec
  PROVE  IInv'
  <1>1. /\ kind = "vec" /\ UNCHANGED <<tree, kind, fend, bend, remaining, lo, hi, backs, bdone>>
        /\ inner = <<>> => fdone' = TRUE /\ UNCHANGED <<inner, fronts>>
        /\ inner # <<>> => /\ inner' = Tail(inner) /\ fronts' = Append(fronts, Head(inner))
                           /\ fdone' = fdone
    BY DEF NextOfVec
  <1>2. /\ inner \in Seq(Key) /\ fronts \in Seq(Key) /\ backs \in Seq(Key)
        /\ fdone \in BOOLEAN /\ bdone \in BOOLEAN
        /\ fdone \/ bdone => inner = <<>>
    BY <1>1 DEF IInv, VecInv, Making
  <1>3. /\ inner' \in Seq(Key) /\ fronts' \in Seq(Key)
        /\ Whole(fronts', inner', backs') = Whole(fronts, inner, backs)
        /\ fdone' \in BOOLEAN /\ (fdone' \/ bdone' => inner' = <<>>)
    <2>1. CASE inner = <<>>
      BY <1>1, <1>2, <2>1 DEF Whole
    <2>2. CASE inner # <<>>
      <3>1. /\ Append(fronts, Head(inner)) \in Seq(Key) /\ Tail(inner) \in Seq(Key)
            /\ Whole(Append(fronts, Head(inner)), Tail(inner), backs) = Whole(fronts, inner, backs)
        BY <1>2, <2>2, HeadGoes
      <3>2. /\ inner' = Tail(inner) /\ fronts' = Append(fronts, Head(inner)) /\ backs' = backs
            /\ fdone' = fdone /\ bdone' = bdone
        BY <1>1, <2>2, Zenon
      <3>3. /\ inner' \in Seq(Key) /\ fronts' \in Seq(Key)
            /\ Whole(fronts', inner', backs') = Whole(fronts, inner, backs)
        BY ONLY <3>1, <3>2
      <3>4. fdone' \in BOOLEAN /\ ~fdone' /\ ~bdone'
        BY ONLY <1>2, <2>2, <3>2, Zenon
      <3> QED
        BY ONLY <3>3, <3>4, Zenon
    <2> QED
      BY <2>1, <2>2
  <1> QED
    BY <1>1, <1>2, <1>3, VecKeeps

LEMMA BackOfVecKeeps ==
  ASSUME IInv, BackOfVec
  PROVE  IInv'
  <1>1. /\ kind = "vec" /\ UNCHANGED <<tree, kind, fend, bend, remaining, lo, hi, fronts, fdone>>
        /\ inner = <<>> => bdone' = TRUE /\ UNCHANGED <<inner, backs>>
        /\ inner # <<>> => /\ inner' = Front(inner) /\ backs' = Append(backs, Last(inner))
                           /\ bdone' = bdone
    BY DEF BackOfVec
  <1>2. /\ inner \in Seq(Key) /\ fronts \in Seq(Key) /\ backs \in Seq(Key)
        /\ fdone \in BOOLEAN /\ bdone \in BOOLEAN
        /\ fdone \/ bdone => inner = <<>>
    BY <1>1 DEF IInv, VecInv, Making
  <1>3. /\ inner' \in Seq(Key) /\ backs' \in Seq(Key)
        /\ Whole(fronts', inner', backs') = Whole(fronts, inner, backs)
        /\ bdone' \in BOOLEAN /\ (fdone' \/ bdone' => inner' = <<>>)
    <2>1. CASE inner = <<>>
      BY <1>1, <1>2, <2>1 DEF Whole
    <2>2. CASE inner # <<>>
      <3>1. /\ Append(backs, Last(inner)) \in Seq(Key) /\ Front(inner) \in Seq(Key)
            /\ Whole(fronts, Front(inner), Append(backs, Last(inner))) = Whole(fronts, inner, backs)
        BY <1>2, <2>2, LastGoes
      <3>2. /\ inner' = Front(inner) /\ backs' = Append(backs, Last(inner)) /\ fronts' = fronts
            /\ fdone' = fdone /\ bdone' = bdone
        BY <1>1, <2>2, Zenon
      <3>3. /\ inner' \in Seq(Key) /\ backs' \in Seq(Key)
            /\ Whole(fronts', inner', backs') = Whole(fronts, inner, backs)
        BY ONLY <3>1, <3>2
      <3>4. bdone' \in BOOLEAN /\ ~fdone' /\ ~bdone'
        BY ONLY <1>2, <2>2, <3>2, Zenon
      <3> QED
        BY ONLY <3>3, <3>4, Zenon
    <2> QED
      BY <2>1, <2>2
  <1> QED
    BY <1>1, <1>2, <1>3, VecKeeps

(* Making an iterator.                                                     *)
LEMMA MakeItemsKeeps ==
  ASSUME IInv, MakeItems
  PROVE  IInv'
  <1>1. /\ kind = "none" /\ kind' = "items"
        /\ initialized' = TRUE /\ fidx' = 0 /\ remaining' = len
        /\ len = 0 => front' = 0 /\ back' = back /\ bidx' = bidx
        /\ len # 0 => front' = 1 /\ back' = Len(leaves) /\ bidx' = Len(leaves[Len(leaves)])
        /\ UNCHANGED <<leaves, seps, lo, hi, inner, fronts, backs, fdone, bdone>>
    BY DEF MakeItems, bend, tree
  <1>2. /\ Chain /\ NoBounds /\ fronts = <<>> /\ backs = <<>> /\ ~fdone /\ ~bdone
        /\ back = 0 /\ bidx = 0
    BY <1>1 DEF IInv, Making
  <1>3. len \in Nat /\ Cardinality(Due) = len /\ (len = 0 <=> Due = {})
    BY <1>2, LenCounts
  <1>4. FrontAt(front', fidx', fronts') /\ BackAt(back', bidx', backs')
    <2>1. /\ Due = {} => FrontAt(0, 0, <<>>) /\ BackAt(0, 0, <<>>)
          /\ Due # {} => /\ FrontAt(1, 0, <<>>)
                         /\ BackAt(Len(leaves), Len(leaves[Len(leaves)]), <<>>)
      BY <1>2, ItemsBegin
    <2>2. CASE len = 0
      <3>1. front' = 0 /\ fidx' = 0 /\ fronts' = <<>> /\ back' = 0 /\ bidx' = 0 /\ backs' = <<>>
        BY <1>1, <1>2, <2>2
      <3> QED
        BY <1>3, <2>1, <2>2, <3>1
    <2>3. CASE len # 0
      <3>1. /\ front' = 1 /\ fidx' = 0 /\ fronts' = <<>> /\ backs' = <<>>
            /\ back' = Len(leaves) /\ bidx' = Len(leaves[Len(leaves)])
        BY <1>1, <1>2, <2>3
      <3> QED
        BY <1>3, <2>1, <2>3, <3>1
    <2> QED
      BY <2>2, <2>3
  <1>5. Chain' /\ Due' = Due /\ len' = len /\ NoBounds'
    BY <1>1, <1>2, MapKept
  <1>6. Making'
    BY <1>1, <1>2, <1>5 DEF IInv, Making
  <1>7. FrontInv' /\ BackInv'
    BY <1>1, <1>2, <1>4, PositionKept DEF FrontInv, BackInv
  <1>8. Counted'
    <2>1. remaining' \in 0 .. len' /\ fronts' = <<>> /\ backs' = <<>> /\ Len(<<>>) = 0
      BY <1>1, <1>2, <1>3, <1>5
    <2>2. remaining' = Cardinality(Due') - 0
      BY <1>1, <1>3, <1>5
    <2> QED
      BY <2>1, <2>2 DEF Counted
  <1>9. VecInv'
    BY <1>1 DEF IInv, VecInv
  <1> QED
    BY <1>5, <1>6, <1>7, <1>8, <1>9 DEF IInv

LEMMA MakeRangeKeeps ==
  ASSUME IInv, NEW s \in Bound, NEW e \in Bound, MakeRange(s, e)
  PROVE  IInv'
  <1>1. /\ kind = "none" /\ kind' = "range" /\ lo' = s /\ hi' = e
        /\ UNCHANGED <<leaves, seps, front, fidx, initialized, back, bidx, remaining,
                       inner, fronts, backs, fdone, bdone>>
    BY DEF MakeRange, tree, fend, bend
  <1>2. /\ fronts = <<>> /\ backs = <<>> /\ ~fdone /\ ~initialized
        /\ back = 0 /\ bidx = 0 /\ remaining = 0
    BY <1>1 DEF IInv, Making
  <1>3. Chain' /\ len' = len /\ len \in Nat
    BY <1>1, MapKept, LenNat DEF IInv
  <1>4. Making'
    BY <1>1, <1>2 DEF IInv, Making
  <1>5. FrontInv' /\ BackInv'
    BY <1>1, <1>2 DEF FrontInv, BackInv
  <1>6. Counted'
    BY <1>1, <1>2, <1>3 DEF Counted
  <1>7. VecInv'
    BY <1>1 DEF IInv, VecInv
  <1> QED
    BY <1>3, <1>4, <1>5, <1>6, <1>7 DEF IInv

LEMMA MakeItemsRangeKeeps ==
  ASSUME IInv, NEW s \in Bound, NEW e \in Bound, MakeItemsRange(s, e)
  PROVE  IInv'
  <1>1. /\ kind = "none" /\ kind' = "vec" /\ lo' = s /\ hi' = e /\ inner' = Collected(s, e)
        /\ UNCHANGED <<leaves, seps, front, fidx, initialized, back, bidx, remaining,
                       fronts, backs, fdone, bdone>>
    BY DEF MakeItemsRange, tree, fend, bend
  <1>2. /\ fronts = <<>> /\ backs = <<>> /\ ~fdone /\ ~bdone /\ ~initialized
        /\ back = 0 /\ bidx = 0 /\ remaining = 0
    BY <1>1 DEF IInv, Making
  <1>3. Chain' /\ len' = len /\ len \in Nat
    BY <1>1, MapKept, LenNat DEF IInv
  <1>4. Making'
    BY <1>1, <1>2 DEF IInv, Making
  <1>5. FrontInv' /\ BackInv'
    BY <1>1 DEF FrontInv, BackInv, Lazy
  <1>6. Counted'
    BY <1>1, <1>2, <1>3 DEF Counted
  <1>7. VecInv'
    <2> PICK v : v = Collected(s, e)
      OBVIOUS
    <2>1. v \in Seq(Key) /\ Ascends(v) /\ Range(v) = DueWithin(s, e)
      BY CollectedDue DEF IInv
    <2>2. Due' = DueWithin(s, e)
      BY <1>1 DEF Due, DueWithin
    <2>3. Whole(<<>>, v, <<>>) = v
      <3>1. Reverse(<<>>) = <<>>
        BY SMT DEF Reverse
      <3>2. <<>> \o v = v /\ v \o <<>> = v
        BY <2>1
      <3> QED
        BY <3>1, <3>2 DEF Whole
    <2>4. inner' = v /\ fronts' = <<>> /\ backs' = <<>>
      BY <1>1, <1>2
    <2>5. Ascends(Whole(fronts', inner', backs')) /\ Range(Whole(fronts', inner', backs')) = Due'
      BY ONLY <2>1, <2>2, <2>3, <2>4
    <2> QED
      BY <1>1, <1>2, <2>1, <2>4, <2>5, NothingReturned DEF VecInv
  <1> QED
    BY <1>3, <1>4, <1>5, <1>6, <1>7 DEF IInv

(* Whatever is called, the invariant stays.                                *)
LEMMA Untouched ==
  ASSUME IInv, UNCHANGED vars
  PROVE  IInv'
  <1>1. /\ UNCHANGED <<leaves, seps, kind, front, fidx, initialized, back, bidx, remaining>>
        /\ UNCHANGED <<lo, hi, inner, fronts, backs, fdone, bdone>>
    BY DEF vars, tree, fend, bend
  <1>2. Chain' /\ Due' = Due /\ len' = len /\ (NoBounds <=> NoBounds')
    BY <1>1, MapKept DEF IInv
  <1>3. Making'
    BY <1>1, <1>2 DEF IInv, Making
  <1>4. FrontInv' /\ BackInv'
    BY <1>1, PositionKept DEF IInv, FrontInv, BackInv, Lazy
  <1>5. Counted'
    BY <1>1, <1>2 DEF IInv, Counted
  <1>6. VecInv'
    BY <1>1, <1>2 DEF IInv, VecInv, Whole
  <1> QED
    BY <1>2, <1>3, <1>4, <1>5, <1>6 DEF IInv

LEMMA NextKeeps ==
  ASSUME IInv, [Next]_vars
  PROVE  IInv'
  <1>1. CASE MakeIterator
    <2>1. CASE MakeItems
      BY <2>1, MakeItemsKeeps
    <2>2. ASSUME NEW s \in Bound, NEW e \in Bound, MakeRange(s, e) \/ MakeItemsRange(s, e)
          PROVE  IInv'
      BY <2>2, MakeRangeKeeps, MakeItemsRangeKeeps
    <2> QED
      BY <1>1, <2>1, <2>2 DEF MakeIterator
  <1>2. CASE CallNext
    BY <1>2, NextHasNoLeafKeeps, NextRunsOutKeeps, NextPastEndKeeps, NextYieldsKeeps,
       NextOfVecKeeps DEF CallNext
  <1>3. CASE CallNextBack
    BY <1>3, BackHasNoLeafKeeps, BackRunsOutKeeps, BackYieldsKeeps, BackOfVecKeeps
       DEF CallNextBack
  <1>4. CASE UNCHANGED vars
    BY <1>4, Untouched
  <1> QED
    BY <1>1, <1>2, <1>3, <1>4 DEF Next

(* The positions, what was returned, the count of items left and the       *)
(* vector agree with the map after every call.                             *)
THEOREM IteratorInvariant == Spec => []IInv
  <1>1. Init => IInv
    BY InitInv
  <1>2. IInv /\ [Next]_vars => IInv'
    BY NextKeeps
  <1> QED
    BY <1>1, <1>2, PTL DEF Spec

-----------------------------------------------------------------------------
(* What follows from it.                                                   *)

(* The positions of both ends are places of the map, and remaining is at   *)
(* most its length: no call of next or next_back, in whatever order, reads *)
(* past the end of a leaf or counts below zero.                            *)
THEOREM PositionsInLeaves == Spec => []TypeOK
  <1>1. IInv => TypeOK
    <2> SUFFICES ASSUME IInv PROVE TypeOK
      OBVIOUS
    <2>1. /\ kind \in {"none", "items", "range", "vec"} /\ lo \in Bound /\ hi \in Bound
          /\ initialized \in BOOLEAN /\ fdone \in BOOLEAN /\ bdone \in BOOLEAN
          /\ remaining \in 0 .. len /\ inner \in Seq(Key)
      BY DEF IInv, Making, Counted, VecInv
    <2>2. Len(leaves) \in Nat /\ \A m \in 1 .. Len(leaves) : Len(leaves[m]) \in Nat
      BY Reads DEF IInv
    <2>3. /\ front \in 0 .. Len(leaves)
          /\ fidx \in 0 .. (IF front = 0 THEN 0 ELSE Len(leaves[front]))
      <3>1. FrontAt(front, fidx, fronts) \/ (front = 0 /\ fidx = 0)
        BY DEF IInv, FrontInv, Making, Lazy
      <3> QED
        BY <2>2, <3>1 DEF FrontAt
    <2>4. /\ back \in 0 .. Len(leaves)
          /\ bidx \in 0 .. (IF back = 0 THEN 0 ELSE Len(leaves[back]))
      <3>1. BackAt(back, bidx, backs) \/ (back = 0 /\ bidx = 0)
        BY DEF IInv, BackInv, Making
      <3> QED
        BY <2>2, <3>1 DEF BackAt
    <2>5. fronts \in Seq(Key)
      <3>1. \/ FrontAt(front, fidx, fronts)
            \/ fronts = <<>>
            \/ fronts \in Seq(Key)
        BY DEF IInv, FrontInv, Making, VecInv, Lazy
      <3> QED
        BY <3>1, NothingReturned DEF FrontAt
    <2>6. backs \in Seq(Key)
      <3>1. \/ BackAt(back, bidx, backs)
            \/ backs = <<>>
            \/ backs \in Seq(Key)
        BY DEF IInv, BackInv, Making, VecInv
      <3> QED
        BY <3>1, NothingReturned DEF BackAt
    <2> QED
      BY <2>1, <2>3, <2>4, <2>5, <2>6 DEF TypeOK
  <1> QED
    BY <1>1, IteratorInvariant, PTL

(* next returns the items within the bounds in ascending order, each once, *)
(* and None only after the last of them: for every map of sorted leaves,   *)
(* with empty leaves among them or without, whatever the bounds.           *)
THEOREM FrontAlwaysInOrder == Spec => []FrontInOrder
  <1>1. IInv => FrontInOrder
    <2> SUFFICES ASSUME IInv, Lazy PROVE BeginsDue(fronts) /\ (fdone => Range(fronts) = Due)
      BY DEF FrontInOrder
    <2>1. CASE initialized
      <3>1. FrontAt(front, fidx, fronts) /\ (fdone => front = 0)
        BY <2>1 DEF IInv, FrontInv
      <3> QED
        BY <3>1 DEF FrontAt
    <2>2. CASE ~initialized
      <3>1. fronts = <<>> /\ ~fdone
        BY <2>2 DEF IInv, FrontInv
      <3> QED
        BY <3>1, NothingReturned
    <2> QED
      BY <2>1, <2>2
  <1> QED
    BY <1>1, IteratorInvariant, PTL

(* next_back on items returns them in descending order, each once, and     *)
(* None only after the first, whatever next has returned in between.       *)
THEOREM BackAlwaysInOrder == Spec => []BackInOrder
  <1>1. IInv => BackInOrder
    BY DEF IInv, BackInv, BackAt, BackInOrder
  <1> QED
    BY <1>1, IteratorInvariant, PTL

(* items_range hands out every item within its bounds, in order, at one    *)
(* end or the other and never at both, and no end returns None before all  *)
(* of them are gone.                                                       *)
THEOREM VecHandsOutEach == Spec => []EveryItemOnce
  <1>1. IInv => EveryItemOnce
    BY DEF IInv, VecInv, Whole, EveryItemOnce
  <1> QED
    BY <1>1, IteratorInvariant, PTL

(* A size_hint that names a number names the number of items the end in    *)
(* use has still to return, as long as the other end has returned none.    *)
THEOREM HintAlwaysExact == Spec => []HintExact
  <1>1. IInv => HintExact
    <2> SUFFICES ASSUME IInv, NEW n \in SizeHint
                 PROVE  /\ backs = <<>> => n = Cardinality(Due) - Len(fronts)
                        /\ fronts = <<>> => n = Cardinality(Due) - Len(backs)
      BY DEF HintExact
    <2>1. n = remaining /\ remaining > 0
      BY DEF SizeHint
    <2> QED
      BY <2>1 DEF IInv, Counted
  <1> QED
    BY <1>1, IteratorInvariant, PTL

=============================================================================
