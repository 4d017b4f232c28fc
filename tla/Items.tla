------------------------------- MODULE Items --------------------------------
(***************************************************************************)
(* Iteration: items, keys, values, range and items_range, and the two ends *)
(* of the iterators they return.                                           *)
(*                                                                         *)
(* An iterator borrows the map, so the tree stands still.  All an iterator *)
(* sees of it is the chain of leaves and which leaf a descent ends in:     *)
(* leaves are the keys of the leaves in chain order, and seps the          *)
(* separators between each two of them.  LookupsMeetChain in               *)
(* BPlusTreeProps says that the tree is always like that between calls.    *)
(* Values travel with their keys and are left out.                         *)
(***************************************************************************)
EXTENDS NodeOps

CONSTANTS Key,       \* the keys of the map
          Probe,     \* what a range may be bounded by
          MaxSeps    \* bound of the model: the chains have at most MaxSeps + 1 leaves

ASSUME KeysAssumption == Key \subseteq Int /\ IsFiniteSet(Key) /\ MaxSeps \in Nat
ASSUME ProbeAssumption == Probe \subseteq Int

VARIABLES leaves, seps,      \* the map
          kind,              \* "none" before the iterator is made, "vec" for items_range
          front, fidx,       \* the leaf with the next item (0 is None) and the items before it
          back, bidx,        \* the leaf with the last item and the items up to it
          remaining,         \* items left, 0 if unknown
          lo, hi,            \* start_bound and end_bound
          initialized,       \* whether front and fidx are set
          inner,             \* what is left of the vector of items_range
          fronts, backs,     \* history: what next and next_back returned,
          fdone, bdone       \* and whether it ended with None

tree == <<leaves, seps>>
fend == <<front, fidx, initialized>>
bend == <<back, bidx>>
vars == <<tree, kind, fend, bend, remaining, lo, hi, inner, fronts, backs, fdone, bdone>>

Unbounded == [at |-> "unbounded"]
Bound == {Unbounded} \cup [at : {"included", "excluded"}, key : Probe]

(* k is not before the start bound b, not past the end bound b.            *)
NotBefore(k, b) ==
  \/ b.at = "unbounded"
  \/ b.at = "included" /\ k >= b.key
  \/ b.at = "excluded" /\ k > b.key
NotPast(k, b) ==
  \/ b.at = "unbounded"
  \/ b.at = "included" /\ k <= b.key
  \/ b.at = "excluded" /\ k < b.key

Ascends(s)  == \A i, j \in DOMAIN s : i < j => s[i] < s[j]
Descends(s) == \A i, j \in DOMAIN s : i < j => s[i] > s[j]
SortedKeys  == {s \in UNION {[1 .. n -> Key] : n \in 0 .. Cardinality(Key)} : Ascends(s)}

(* Any keys, spread over the leaves by any separators.  A leaf may be      *)
(* empty: capacities of one leave empty leaves behind, and the root may be *)
(* one.  Or there is no root.                                              *)
Init ==
  /\ \/ leaves = <<>> /\ seps = <<>>
     \/ /\ seps \in SortedKeys /\ Len(seps) <= MaxSeps
        /\ leaves \in [1 .. Len(seps) + 1 -> SortedKeys]
        /\ \A i \in DOMAIN leaves : \A k \in Range(leaves[i]) : Rank(seps, k) + 1 = i
  /\ kind = "none"
  /\ front = 0 /\ fidx = 0 /\ back = 0 /\ bidx = 0 /\ remaining = 0
  /\ lo = Unbounded /\ hi = Unbounded /\ initialized = FALSE /\ inner = <<>>
  /\ fronts = <<>> /\ backs = <<>> /\ fdone = FALSE /\ bdone = FALSE

-----------------------------------------------------------------------------
(* Finding one's way.                                                      *)

(* The slots in use over all leaves of the chain.                          *)
Places == UNION {{m} \X DOMAIN leaves[m] : m \in DOMAIN leaves}
len == Cardinality(Places)

(* leaf_for_key, and the leaf a leaf's next pointer leads to.              *)
LeafFor(k) == IF leaves = <<>> THEN 0 ELSE Rank(seps, k) + 1
NextLeaf(l) == IF l < Len(leaves) THEN l + 1 ELSE 0

(* The items of a leaf with keys ks that come before the start bound b.    *)
StartIdxNoSkip(b, ks) ==    \* mutant: an excluded key is found and kept
  IF Found(ks, b.key) THEN Rank(ks, b.key) - 1 ELSE Rank(ks, b.key)
StartIdx(b, ks) ==
  IF Found(ks, b.key) /\ b.at = "included" THEN Rank(ks, b.key) - 1
                                           ELSE Rank(ks, b.key)

(* Where the first call of next begins: past the end of the leaf means the *)
(* leaf after it, whatever that one holds.                                 *)
Start ==
  IF lo.at = "unbounded" THEN <<IF leaves = <<>> THEN 0 ELSE 1, 0>>
  ELSE LET l == LeafFor(lo.key)
       IN  IF l = 0 THEN <<0, 0>>
           ELSE IF StartIdx(lo, leaves[l]) < Len(leaves[l])
                THEN <<l, StartIdx(lo, leaves[l])>>
                ELSE <<NextLeaf(l), 0>>

Position == IF initialized THEN <<front, fidx>> ELSE Start

(* The leaves from leaf l on that hold an item after the first i of leaf   *)
(* l, and those up to leaf l that hold one among or before these i.        *)
Ahead(l, i) ==
  {m \in 1 .. Len(leaves) : m >= l /\ Len(leaves[m]) > (IF m = l THEN i ELSE 0)}
BehindNear(l, i) ==    \* mutant: an empty leaf is taken for the end
  {m \in 1 .. Len(leaves) : m <= l /\ m >= l - 1 /\ (IF m = l THEN i ELSE Len(leaves[m])) > 0}
Behind(l, i) ==
  {m \in 1 .. Len(leaves) : m <= l /\ (IF m = l THEN i ELSE Len(leaves[m])) > 0}

(* collect_range_bounds: from the start bound on along the chain, up to    *)
(* the first key past the end bound.                                       *)
CollectedOnce(b, e) ==    \* mutant: first_idx is not reset for the next leaf
  LET l == IF b.at = "unbounded" THEN 1 ELSE LeafFor(b.key)
      i == IF b.at = "unbounded" THEN 0 ELSE StartIdx(b, leaves[l])
      s == FlattenSeq([m \in 1 .. Len(leaves) - l + 1 |->
                         SubSeq(leaves[l + m - 1], i + 1, Len(leaves[l + m - 1]))])
  IN  IF leaves = <<>> THEN <<>> ELSE SelectSeq(s, LAMBDA k : NotPast(k, e))
Collected(b, e) ==
  LET l == IF b.at = "unbounded" THEN 1 ELSE LeafFor(b.key)
      i == IF b.at = "unbounded" THEN 0 ELSE StartIdx(b, leaves[l])
      s == SubSeq(leaves[l], i + 1, Len(leaves[l]))
           \o FlattenSeq(SubSeq(leaves, l + 1, Len(leaves)))
      upto == {n \in 0 .. Len(s) : \A j \in 1 .. n : NotPast(s[j], e)}
  IN  IF leaves = <<>> THEN <<>>
      ELSE SubSeq(s, 1, CHOOSE n \in upto : \A m \in upto : m <= n)

-----------------------------------------------------------------------------
(* Making an iterator.                                                     *)

(* items, keys and values: both ends are set at once.                      *)
MakeItems ==
  /\ kind = "none" /\ kind' = "items"
  /\ initialized' = TRUE /\ fidx' = 0 /\ remaining' = len
  /\ IF len = 0 THEN front' = 0 /\ UNCHANGED bend
     ELSE front' = 1 /\ back' = Len(leaves) /\ bidx' = Len(leaves[Len(leaves)])
  /\ UNCHANGED <<tree, lo, hi, inner, fronts, backs, fdone, bdone>>

(* range: the front is left to the first next, and the back to no one.     *)
MakeRange(s, e) ==
  /\ kind = "none" /\ kind' = "range"
  /\ lo' = s /\ hi' = e
  /\ UNCHANGED <<tree, fend, bend, remaining, inner, fronts, backs, fdone, bdone>>

(* items_range: the items are collected at once.                           *)
MakeItemsRange(s, e) ==
  /\ kind = "none" /\ kind' = "vec"
  /\ s.at \in {"unbounded", "included"} /\ e.at \in {"unbounded", "excluded"}
  /\ lo' = s /\ hi' = e /\ inner' = Collected(s, e)
  /\ UNCHANGED <<tree, fend, bend, remaining, fronts, backs, fdone, bdone>>

-----------------------------------------------------------------------------
(* The front.  A call that finds no leaf to look in leaves remaining as it *)
(* is.  An index without a leaf means nothing and is not kept.             *)

Lazy == kind \in {"items", "range"}

LessOneUnchecked(n) == n - 1    \* mutant: a range counts below zero
LessOne(n) == IF n > 0 THEN n - 1 ELSE 0

FrontEnds ==
  /\ initialized' = TRUE /\ front' = 0 /\ fidx' = 0 /\ fdone' = TRUE
  /\ UNCHANGED <<tree, kind, bend, lo, hi, inner, fronts, backs, bdone>>

NextHasNoLeaf ==
  /\ Lazy /\ Position[1] = 0
  /\ FrontEnds /\ UNCHANGED remaining

(* The leaves from here on are empty.                                      *)
NextRunsOut ==
  /\ Lazy /\ Position[1] # 0 /\ Ahead(Position[1], Position[2]) = {}
  /\ FrontEnds /\ remaining' = 0

(* The leaf and the index of the next item, when there is one.             *)
FrontItem ==
  LET l == Position[1]
      m == CHOOSE m \in Ahead(l, Position[2]) : \A n \in Ahead(l, Position[2]) : m <= n
  IN  <<m, IF m = l THEN Position[2] ELSE 0>>
FrontKey == leaves[FrontItem[1]][FrontItem[2] + 1]

NextPastEnd ==
  /\ Lazy /\ Position[1] # 0 /\ Ahead(Position[1], Position[2]) # {}
  /\ ~NotPast(FrontKey, hi)
  /\ FrontEnds /\ remaining' = 0

NextYields ==
  /\ Lazy /\ Position[1] # 0 /\ Ahead(Position[1], Position[2]) # {}
  /\ NotPast(FrontKey, hi)
  /\ initialized' = TRUE /\ front' = FrontItem[1] /\ fidx' = FrontItem[2] + 1
  /\ remaining' = LessOne(remaining)
  /\ fronts' = Append(fronts, FrontKey)
  /\ UNCHANGED <<tree, kind, bend, lo, hi, inner, backs, fdone, bdone>>

NextOfVec ==
  /\ kind = "vec"
  /\ IF inner = <<>> THEN fdone' = TRUE /\ UNCHANGED <<inner, fronts>>
     ELSE inner' = Tail(inner) /\ fronts' = Append(fronts, Head(inner)) /\ UNCHANGED fdone
  /\ UNCHANGED <<tree, kind, fend, bend, remaining, lo, hi, backs, bdone>>

-----------------------------------------------------------------------------
(* The back.  It is set by items only, and it does not look at the front.  *)
(* next_back compares with start_bound, but a back that is set has none.   *)

BackEnds ==
  /\ back' = 0 /\ bidx' = 0 /\ bdone' = TRUE
  /\ UNCHANGED <<tree, kind, fend, lo, hi, inner, fronts, backs, fdone>>

BackHasNoLeaf ==
  /\ Lazy /\ back = 0
  /\ BackEnds /\ UNCHANGED remaining

BackRunsOut ==
  /\ Lazy /\ back # 0 /\ Behind(back, bidx) = {}
  /\ BackEnds /\ remaining' = 0

(* The leaf and the index of the item at the back, when there is one.      *)
BackItem ==
  LET m == CHOOSE m \in Behind(back, bidx) : \A n \in Behind(back, bidx) : m >= n
  IN  <<m, (IF m = back THEN bidx ELSE Len(leaves[m])) - 1>>
BackKey == leaves[BackItem[1]][BackItem[2] + 1]

BackYieldsUncounted ==    \* mutant: remaining is not counted down
  /\ Lazy /\ back # 0 /\ Behind(back, bidx) # {}
  /\ back' = BackItem[1] /\ bidx' = BackItem[2]
  /\ backs' = Append(backs, BackKey)
  /\ UNCHANGED <<tree, kind, fend, remaining, lo, hi, inner, fronts, fdone, bdone>>
BackYields ==
  /\ Lazy /\ back # 0 /\ Behind(back, bidx) # {}
  /\ back' = BackItem[1] /\ bidx' = BackItem[2]
  /\ remaining' = LessOne(remaining)
  /\ backs' = Append(backs, BackKey)
  /\ UNCHANGED <<tree, kind, fend, lo, hi, inner, fronts, fdone, bdone>>

BackOfVec ==
  /\ kind = "vec"
  /\ IF inner = <<>> THEN bdone' = TRUE /\ UNCHANGED <<inner, backs>>
     ELSE inner' = Front(inner) /\ backs' = Append(backs, Last(inner)) /\ UNCHANGED bdone
  /\ UNCHANGED <<tree, kind, fend, bend, remaining, lo, hi, fronts, fdone>>

-----------------------------------------------------------------------------
MakeIterator ==
  MakeItems \/ \E s, e \in Bound : MakeRange(s, e) \/ MakeItemsRange(s, e)

CallNext == NextHasNoLeaf \/ NextRunsOut \/ NextPastEnd \/ NextYields \/ NextOfVec
CallNextBack == BackHasNoLeaf \/ BackRunsOut \/ BackYields \/ BackOfVec

Next == MakeIterator \/ CallNext \/ CallNextBack

Spec == Init /\ [][Next]_vars

-----------------------------------------------------------------------------
(* What callers rely on.                                                   *)

TypeOK ==
  /\ kind \in {"none", "items", "range", "vec"}
  /\ front \in 0 .. Len(leaves) /\ fidx \in 0 .. (IF front = 0 THEN 0 ELSE Len(leaves[front]))
  /\ back \in 0 .. Len(leaves) /\ bidx \in 0 .. (IF back = 0 THEN 0 ELSE Len(leaves[back]))
  /\ remaining \in 0 .. len
  /\ lo \in Bound /\ hi \in Bound /\ initialized \in BOOLEAN
  /\ inner \in Seq(Key) /\ fronts \in Seq(Key) /\ backs \in Seq(Key)
  /\ fdone \in BOOLEAN /\ bdone \in BOOLEAN

(* The items the iterator is for.                                          *)
Due == {k \in UNION {Range(leaves[i]) : i \in DOMAIN leaves} :
          NotBefore(k, lo) /\ NotPast(k, hi)}

(* s is those up to some item in order, each once and none left out.       *)
BeginsDue(s) ==
  Ascends(s) /\ Range(s) \subseteq Due /\ \A j \in Range(s), k \in Due \ Range(s) : j < k

(* s is those from the last one back to some item.                         *)
EndsDue(s) ==
  /\ Descends(s) /\ Range(s) \subseteq Due
  /\ \A j \in Range(s), k \in Due \ Range(s) : k < j

(* next returns the items within the bounds in ascending order, each once, *)
(* and None only after the last one: whichever leaf the start bound        *)
(* descends to, whether its key is there, and across empty leaves.         *)
FrontInOrder ==
  Lazy => BeginsDue(fronts) /\ (fdone => Range(fronts) = Due)

(* next_back on items returns them in descending order, each once, and     *)
(* None only after the first one.                                          *)
BackInOrder ==
  kind = "items" => EndsDue(backs) /\ (bdone => Range(backs) = Due)

(* items_range hands out the same items as range, each at one end only.    *)
EveryItemOnce ==
  kind = "vec" =>
    LET s == fronts \o inner \o Reverse(backs)
    IN  Ascends(s) /\ Range(s) = Due /\ (fdone \/ bdone => inner = <<>>)

(* size_hint, when it is not (0, None).  As long as a caller keeps to one  *)
(* end, it is the number of items that end has still to return.            *)
SizeHint == IF initialized /\ remaining > 0 THEN {remaining} ELSE {}
HintExact ==
  \A n \in SizeHint : /\ backs = <<>> => n = Cardinality(Due) - Len(fronts)
                      /\ fronts = <<>> => n = Cardinality(Due) - Len(backs)

(* simple_bug_tests.rs: "Range(..) should match full iteration", and       *)
(* lib.rs: "Doubly-linked leaves are used to support reverse iteration".   *)
(* From the back too, range(..) returns what items() returns.              *)
RangeMatchesItems ==
  kind = "range" /\ lo = Unbounded /\ hi = Unbounded =>
    /\ fdone => Range(fronts) = Due
    /\ bdone => Range(backs) = Due
=============================================================================
