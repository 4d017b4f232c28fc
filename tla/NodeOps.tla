------------------------------ MODULE NodeOps -------------------------------
(***************************************************************************)
(* The pure part of the tree's algorithms: searching the sorted keys of a  *)
(* node, and cutting a full node in two while one more entry goes in.      *)
(*                                                                         *)
(* Positions are those of TLA+ sequences, so index i of the code is        *)
(* position i + 1 here: child_idx = Rank(ks, k) is child Rank(ks, k) + 1.  *)
(***************************************************************************)
EXTENDS Integers, FiniteSets, SequencesExt

(* What binary_search_keys and child_for_key compute from a sorted node:   *)
(* the keys not above k.  Ok(i) is then i + 1 and Err(i) is i, which is    *)
(* both the index of the child to descend to and that of a new leaf slot.  *)
RankBelow(ks, k) == Cardinality({i \in DOMAIN ks : ks[i] < k})   \* mutant: Ok(i) => i
Rank(ks, k) == Cardinality({i \in DOMAIN ks : ks[i] <= k})

Found(ks, k) == \E i \in DOMAIN ks : ks[i] = k

-----------------------------------------------------------------------------
(* leaf_insert_or_split, a full leaf.  s is its keys or its values, r the  *)
(* rank of the new key and e the new key or value: the upper part of the   *)
(* entries moves to the right leaf, and the new one then joins its side.   *)

LeftCount(s) == (Len(s) + 1) \div 2

LeftKeepHalf(s, r) == LeftCount(s)   \* mutant: whichever side the new item joins
LeftKeep(s, r) == IF r < LeftCount(s) THEN LeftCount(s) - 1 ELSE LeftCount(s)

LeafSplitLeftLoses(s, r, e) ==    \* mutant: one entry too few stays
  LET kept == SubSeq(s, 1, LeftKeep(s, r) - 1)
  IN  IF r < LeftCount(s) THEN InsertAt(kept, r + 1, e) ELSE kept
LeafSplitLeft(s, r, e) ==
  LET kept == SubSeq(s, 1, LeftKeep(s, r))
  IN  IF r < LeftCount(s) THEN InsertAt(kept, r + 1, e) ELSE kept

LeafSplitRight(s, r, e) ==
  LET moved == SubSeq(s, LeftKeep(s, r) + 1, Len(s))
  IN  IF r < LeftCount(s) THEN moved
                          ELSE InsertAt(moved, r - LeftKeep(s, r) + 1, e)

-----------------------------------------------------------------------------
(* branch_insert_and_split, a full branch with keys ks and children cs.    *)
(* The child at index i was split: sep goes in at key index i and the new  *)
(* right sibling at child index i + 1.  pm keys stay on the left, and one  *)
(* key is promoted to the parent, in neither half.                         *)

LeftKeysHigh(ks) == Len(ks) \div 2 + 1   \* mutant: len / 2 + 1
LeftKeys(ks) == (Len(ks) + 1) \div 2

BranchSplit(ks, cs, i, sep, right) ==
  LET pm == LeftKeys(ks)
      L  == Len(ks)
  IN  CASE i < pm ->
             [promote  |-> ks[pm],
              lkeys    |-> InsertAt(SubSeq(ks, 1, pm - 1), i + 1, sep),
              lchilds  |-> InsertAt(SubSeq(cs, 1, pm), i + 2, right),
              rkeys    |-> SubSeq(ks, pm + 1, L),
              rchilds  |-> SubSeq(cs, pm + 1, L + 1)]
        [] i = pm ->
             [promote  |-> sep,
              lkeys    |-> SubSeq(ks, 1, pm),
              lchilds  |-> SubSeq(cs, 1, pm + 1),
              rkeys    |-> SubSeq(ks, pm + 1, L),
              rchilds  |-> <<right>> \o SubSeq(cs, pm + 2, L + 1)]
        [] i > pm ->
             [promote  |-> ks[pm + 1],
              lkeys    |-> SubSeq(ks, 1, pm),
              lchilds  |-> SubSeq(cs, 1, pm + 1),
              rkeys    |-> InsertAt(SubSeq(ks, pm + 2, L), i - pm, sep),
              rchilds  |-> InsertAt(SubSeq(cs, pm + 2, L + 1), i - pm + 1, right)]

-----------------------------------------------------------------------------
(* What splitting must do, for every node that is full.                    *)

(* Splitting a full leaf is insertion followed by a cut: no item is lost,  *)
(* doubled or moved past another, and each half gets its share: it is not  *)
(* empty and not below min_leaf_len.                                       *)
LeafSplitCuts(s, r, e) ==
  LET left  == LeafSplitLeft(s, r, e)
      right == LeafSplitRight(s, r, e)
  IN  /\ left \o right = InsertAt(s, r + 1, e)
      /\ Len(left)  >= 1 /\ Len(left)  >= Len(s) \div 2
      /\ Len(right) >= 1 /\ Len(right) >= Len(s) \div 2

(* Splitting a full branch is insertion of the separator and the child,    *)
(* followed by a cut around the promoted key: each half is a branch, with  *)
(* one child more than keys and not below half of the capacity, and no     *)
(* separator or child is lost, doubled or moved past another.              *)
BranchSplitCuts(ks, cs, i, sep, right) ==
  LET b == BranchSplit(ks, cs, i, sep, right)
  IN  /\ b.lkeys \o <<b.promote>> \o b.rkeys = InsertAt(ks, i + 1, sep)
      /\ b.lchilds \o b.rchilds = InsertAt(cs, i + 2, right)
      /\ Len(b.lchilds) = Len(b.lkeys) + 1 /\ Len(b.rchilds) = Len(b.rkeys) + 1
      /\ Len(b.lkeys) >= Len(ks) \div 2 /\ Len(b.rkeys) >= Len(ks) \div 2
=============================================================================
