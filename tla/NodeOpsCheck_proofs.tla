------------------------ MODULE NodeOpsCheck_proofs -------------------------
(***************************************************************************)
(* What NodeOpsCheck tries for nodes of up to MaxLen keys, for every bound.*)
(***************************************************************************)
EXTENDS NodeOpsCheck, NodeOps_proofs

(* The nodes NodeOpsCheck visits: k and i are in range, keys ascend.       *)
Tried ==
  /\ ks \in Seq(Int) /\ Len(ks) >= 1
  /\ \A j \in 1 .. Len(ks) : ks[j] = 2 * j
  /\ k \in Int /\ i \in 0 .. Len(ks)

LEMMA TriedInductive ==
  Spec => []Tried
  <1>1. Init => Tried
    BY SMT DEF Init, Tried
  <1>2. Tried /\ [Next]_<<ks, k, i>> => Tried'
    <2> SUFFICES ASSUME Tried, [Next]_<<ks, k, i>>  PROVE Tried'
      OBVIOUS
    <2>1. CASE LongerNode
      <3> DEFINE e == 2 * (Len(ks) + 1)
      <3>1. ks' = Append(ks, e) /\ UNCHANGED <<k, i>>
        BY <2>1 DEF LongerNode
      <3>2. e \in Int
        BY SMT DEF Tried
      <3> HIDE DEF e
      <3>3. /\ Append(ks, e) \in Seq(Int) /\ Len(Append(ks, e)) = Len(ks) + 1
            /\ \A j \in 1 .. Len(ks) : Append(ks, e)[j] = ks[j]
            /\ Append(ks, e)[Len(ks) + 1] = e
        BY <3>2, Pushed DEF Tried
      <3>4. e = 2 * (Len(ks) + 1) /\ Len(ks) \in Nat
        BY SMT DEF e, Tried
      <3>5. ASSUME NEW j \in 1 .. Len(ks')  PROVE  ks'[j] = 2 * j
        <4>1. j \in 1 .. Len(ks) \/ j = Len(ks) + 1
          BY <3>1, <3>3, <3>4, SMT
        <4>2. ASSUME j \in 1 .. Len(ks)  PROVE  ks'[j] = 2 * j
          BY <3>1, <3>3, <4>2 DEF Tried
        <4> QED
          BY <3>1, <3>3, <3>4, <4>1, <4>2
      <3>6. ks' \in Seq(Int) /\ Len(ks') >= 1 /\ k' \in Int /\ i' \in 0 .. Len(ks')
        BY <3>1, <3>3, <3>4, SMT DEF Tried
      <3> QED
        BY <3>5, <3>6 DEF Tried
    <2>2. CASE NextKey
      BY <2>2, SMT DEF NextKey, Tried
    <2>3. CASE NextChild
      BY <2>3, SMT DEF NextChild, Tried
    <2>4. CASE UNCHANGED <<ks, k, i>>
      BY <2>4, SMT DEF Tried
    <2> QED
      BY <2>1, <2>2, <2>3, <2>4 DEF Next
  <1> QED
    BY <1>1, <1>2, PTL DEF Spec

(* However large the leaf, splitting it for a new key loses and misplaces  *)
(* nothing and leaves both halves with their share.                        *)
THEOREM LeafSplitsAlways == Spec => []LeafSplits
  <1>1. Tried => LeafSplits
    <2> SUFFICES ASSUME Tried  PROVE LeafSplitCuts(ks, Rank(ks, k), k)
      BY DEF LeafSplits
    <2>1. ks \in Seq(Int) /\ Len(ks) >= 1 /\ k \in Int
      BY DEF Tried
    <2>2. Rank(ks, k) \in 0 .. Len(ks)
      BY <2>1, RankBounds
    <2> QED
      BY <2>1, <2>2, LeafSplitIsInsertAndCut
  <1> QED
    BY <1>1, TriedInductive, PTL

(* However wide the branch, a search parts its separators.                 *)
THEOREM RankPartsAlways == Spec => []RankParts
  <1>1. Tried => RankParts
    <2> SUFFICES ASSUME Tried  PROVE RankParts
      OBVIOUS
    <2>1. ks \in Seq(Int) /\ k \in Int /\ DOMAIN ks = 1 .. Len(ks)
      BY SMT DEF Tried
    <2>2. \A x, y \in 1 .. Len(ks) : x < y => ks[x] < ks[y]
      BY SMT DEF Tried
    <2>3. \A j \in 1 .. Len(ks) : ks[j] <= k <=> j <= Rank(ks, k)
      BY <2>1, <2>2, RankPartsKeys
    <2> QED
      BY <2>1, <2>3 DEF RankParts
  <1> QED
    BY <1>1, TriedInductive, PTL

(* However wide the branch, splitting it loses and misplaces no separator  *)
(* and no child, and neither half is below half full.                      *)
THEOREM BranchSplitsAlways == Spec => []BranchSplits
  <1>1. Tried => BranchSplits
    <2> DEFINE T == {"child"} \X Int
               s == 2 * i + 1
               c == <<"child", 0>>
    <2> SUFFICES ASSUME Tried  PROVE BranchSplitCuts(ks, Childs, i, s, c)
      BY DEF BranchSplits
    <2>1. ks \in Seq(Int) /\ Len(ks) >= 1 /\ i \in 0 .. Len(ks)
      BY DEF Tried
    <2>2. Len(ks) \in Nat /\ Len(ks) + 1 \in Nat
      BY <2>1, SMT
    <2>3. \A j \in 1 .. Len(ks) + 1 : <<"child", j>> \in T
      BY <2>2, SMT
    <2>4. c \in T
      BY SMT
    <2>5. s \in Int
      BY <2>1, SMT
    <2> HIDE DEF T, s, c
    <2>6. Childs \in [1 .. Len(ks) + 1 -> T]
      BY <2>3 DEF Childs
    <2>7. Childs \in Seq(T) /\ Len(Childs) = Len(ks) + 1
      BY <2>2, <2>6, SMT
    <2> QED
      BY <2>1, <2>4, <2>5, <2>7, BranchSplitIsInsertAndCut
  <1> QED
    BY <1>1, TriedInductive, PTL
=============================================================================
