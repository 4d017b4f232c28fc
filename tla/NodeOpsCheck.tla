---------------------------- MODULE NodeOpsCheck ----------------------------
(***************************************************************************)
(* The searches and splits of NodeOps on every node of up to MaxLen keys:  *)
(* a state is one full node, a new key and a place for a new child.        *)
(***************************************************************************)
EXTENDS NodeOps

CONSTANTS MaxLen   \* the largest capacity tried

ASSUME MaxLenAssumption == MaxLen \in Nat \ {0}

VARIABLES ks,   \* the keys of the node, full: its capacity is Len(ks)
          k,    \* the key searched for or inserted
          i     \* the index of the child that was split

(* Keys are even numbers, so that a new one may go between any two.        *)
Init == ks = <<2>> /\ k = 1 /\ i = 0

(* The next node, key or place to try.                                     *)
LongerNode == Len(ks) < MaxLen /\ ks' = Append(ks, 2 * (Len(ks) + 1)) /\ UNCHANGED <<k, i>>
NextKey    == k <= 2 * Len(ks) /\ k' = k + 1 /\ UNCHANGED <<ks, i>>
NextChild  == i < Len(ks) /\ i' = i + 1 /\ UNCHANGED <<ks, k>>

Next == LongerNode \/ NextKey \/ NextChild

Spec == Init /\ [][Next]_<<ks, k, i>>

Childs == [j \in 1 .. Len(ks) + 1 |-> <<"child", j>>]

(* The rank of a key parts the keys: those up to it are not above, those   *)
(* after it are, which is what descending and inserting rely on.           *)
RankParts ==
  \A j \in DOMAIN ks : ks[j] <= k <=> j <= Rank(ks, k)

(* Every split of a full leaf cuts the leaf with the item inserted.        *)
LeafSplits ==
  ~Found(ks, k) => LeafSplitCuts(ks, Rank(ks, k), k)

(* Every split of a full branch cuts the branch with the entry inserted.   *)
BranchSplits ==
  BranchSplitCuts(ks, Childs, i, 2 * i + 1, <<"child", 0>>)
=============================================================================
