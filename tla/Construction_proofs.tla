------------------------ MODULE Construction_proofs -------------------------
(***************************************************************************)
(* The layouts of blocks are sound for all sizes and alignments of keys    *)
(* and values, all capacities and all budgets; then the constructors and   *)
(* the blocks they lead to, for all types, budgets, capacities and sizes   *)
(* of pointers, headers and address spaces.                                *)
(***************************************************************************)
EXTENDS Construction, TLAPS, WellFoundedInduction

-----------------------------------------------------------------------------
(* Arithmetic.                                                             *)

LEMMA DivMod ==
  ASSUME NEW x \in Nat, NEW a \in Nat \ {0}
  PROVE  /\ x % a \in 0 .. a - 1
         /\ x \div a \in Nat
         /\ x = a * (x \div a) + (x % a)
  BY SMT

LEMMA MulMod ==
  ASSUME NEW q \in Nat, NEW a \in Nat \ {0}
  PROVE  (a * q) % a = 0
  BY SMT

(* align_up yields the next multiple.                                      *)
LEMMA AlignUpBounds ==
  ASSUME NEW x \in Nat, NEW a \in Nat \ {0}
  PROVE  /\ AlignUp(x, a) \in Nat
         /\ x <= AlignUp(x, a) /\ AlignUp(x, a) < x + a
         /\ AlignUp(x, a) % a = 0
  <1> DEFINE y == x + (a - 1)
  <1>1. y \in Nat
    OBVIOUS
  <1>2. y % a \in 0 .. a - 1 /\ y \div a \in Nat /\ y = a * (y \div a) + (y % a)
    BY <1>1, DivMod
  <1>3. AlignUp(x, a) = y - (y % a)
    BY DEF AlignUp
  <1>4. y - (y % a) = a * (y \div a)
    BY <1>1, <1>2
  <1>5. (a * (y \div a)) % a = 0
    BY <1>2, MulMod
  <1> HIDE DEF y
  <1>6. QED
    BY <1>1, <1>2, <1>3, <1>4, <1>5 DEF y

LEMMA Product ==
  ASSUME NEW m \in Nat, NEW n \in Nat
  PROVE  m * n \in Nat
  BY SMT

AnyType == [size : Nat, align : Nat \ {0}]

(* Two placed arrays do not overlap, and the block ends after both.        *)
LEMMA PlaceApart ==
  ASSUME NEW from \in Nat, NEW s \in AnyType, NEW n \in Nat,
         NEW t \in AnyType, NEW m \in Nat, NEW a \in Nat \ {0}
  PROVE  LET p == Place(from, s, n, t, m, a)
         IN  /\ p.one \in Nat /\ p.two \in Nat /\ p.end \in Nat
             /\ from <= p.one /\ p.one + n * s.size <= p.two
             /\ p.two + m * t.size <= p.end
             /\ p.one % s.align = 0 /\ p.two % t.align = 0 /\ p.end % a = 0
  <1> DEFINE one == AlignUp(from, s.align)
             two == AlignUp(one + n * s.size, t.align)
             end == AlignUp(two + m * t.size, a)
  <1>1. s.align \in Nat \ {0} /\ t.align \in Nat \ {0} /\ n * s.size \in Nat /\ m * t.size \in Nat
    BY Product DEF AnyType
  <1>2. one \in Nat /\ from <= one /\ one % s.align = 0
    BY <1>1, AlignUpBounds
  <1>3. two \in Nat /\ one + n * s.size <= two /\ two % t.align = 0
    <2>1. one + n * s.size \in Nat
      BY <1>1, <1>2
    <2> HIDE DEF one
    <2>2. QED
      BY <2>1, <1>1, AlignUpBounds
  <1>4. end \in Nat /\ two + m * t.size <= end /\ end % a = 0
    <2>1. two + m * t.size \in Nat
      BY <1>1, <1>3
    <2> HIDE DEF two
    <2>2. QED
      BY <2>1, <1>1, AlignUpBounds
  <1>5. Place(from, s, n, t, m, a) = [one |-> one, two |-> two, end |-> end]
    BY DEF Place
  <1> HIDE DEF one, two, end
  <1>6. QED
    BY <1>1, <1>2, <1>3, <1>4, <1>5

-----------------------------------------------------------------------------
(* Alignment.                                                              *)

LEMMA TypesAreRecords ==
  /\ Types \subseteq [size : Nat, align : Nat \ {0}]
  /\ Ptr \in [size : Nat, align : Nat \ {0}]
  /\ NodeHdr \in [size : Nat, align : Nat \ {0}]
  /\ \A t \in Types \cup {Ptr, NodeHdr} : t.align \in Alignments
  /\ Alignments \subseteq Nat \ {0}
  BY TypesAssumption, PtrAssumption DEF Ptr, NodeHdr, Alignments

LEMMA LargerOf ==
  ASSUME NEW a \in Alignments, NEW b \in Alignments
  PROVE  Larger(a, b) \in Alignments /\ Larger(a, b) >= a /\ Larger(a, b) >= b
  BY TypesAreRecords DEF Larger

LEMMA LeafAlignDivides ==
  ASSUME NEW kt \in Types, NEW vt \in Types
  PROVE  /\ LeafAlign(kt, vt) \in Alignments
         /\ \A t \in {kt, vt, Ptr, NodeHdr} : LeafAlign(kt, vt) % t.align = 0
  <1> DEFINE a1 == Larger(PtrSize, kt.align)
             a2 == Larger(a1, vt.align)
             a3 == Larger(a2, NodeHdr.align)
  <1>1. /\ kt.align \in Alignments /\ vt.align \in Alignments
        /\ PtrSize \in Alignments /\ NodeHdr.align \in Alignments
    <2>1. \A t \in Types \cup {Ptr, NodeHdr} : t.align \in Alignments
      BY TypesAreRecords
    <2>2. Ptr.align = PtrSize
      BY DEF Ptr
    <2>3. QED
      BY <2>1, <2>2
  <1>2. a1 \in Alignments /\ a1 >= PtrSize /\ a1 >= kt.align
    BY <1>1, LargerOf
  <1> HIDE DEF a1
  <1>3. a2 \in Alignments /\ a2 >= a1 /\ a2 >= vt.align
    BY <1>1, <1>2, LargerOf
  <1> HIDE DEF a2
  <1>4. a3 \in Alignments /\ a3 >= a2 /\ a3 >= NodeHdr.align
    BY <1>1, <1>3, LargerOf
  <1> HIDE DEF a3
  <1>5. LeafAlign(kt, vt) = a3
    BY DEF LeafAlign, a1, a2, a3
  <1>6. /\ a3 >= PtrSize /\ a3 >= kt.align /\ a3 >= vt.align
    BY <1>1, <1>2, <1>3, <1>4, TypesAreRecords
  <1>7. \A t \in {kt, vt, Ptr, NodeHdr} : t.align \in Alignments /\ t.align <= a3
    BY <1>1, <1>4, <1>6 DEF Ptr
  <1>8. QED
    BY <1>4, <1>5, <1>7, TypesAssumption

LEMMA BranchAlignDivides ==
  ASSUME NEW kt \in Types
  PROVE  /\ BranchAlign(kt) \in Alignments
         /\ \A t \in {kt, Ptr, NodeHdr} : BranchAlign(kt) % t.align = 0
  <1> DEFINE a1 == Larger(PtrSize, kt.align)
             a2 == Larger(a1, NodeHdr.align)
  <1>1. /\ kt.align \in Alignments
        /\ PtrSize \in Alignments /\ NodeHdr.align \in Alignments
    <2>1. \A t \in Types \cup {Ptr, NodeHdr} : t.align \in Alignments
      BY TypesAreRecords
    <2>2. Ptr.align = PtrSize
      BY DEF Ptr
    <2>3. QED
      BY <2>1, <2>2
  <1>2. a1 \in Alignments /\ a1 >= PtrSize /\ a1 >= kt.align
    BY <1>1, LargerOf
  <1> HIDE DEF a1
  <1>3. a2 \in Alignments /\ a2 >= a1 /\ a2 >= NodeHdr.align
    BY <1>1, <1>2, LargerOf
  <1> HIDE DEF a2
  <1>4. BranchAlign(kt) = a2
    BY DEF BranchAlign, a1, a2
  <1>5. \A t \in {kt, Ptr, NodeHdr} : t.align \in Alignments /\ t.align <= a2
    BY <1>1, <1>2, <1>3, TypesAreRecords DEF Ptr
  <1>6. QED
    BY <1>3, <1>4, <1>5, TypesAssumption

-----------------------------------------------------------------------------
(* Leaves.                                                                 *)

LEMMA LeafFrame ==
  ASSUME NEW kt \in Types, NEW vt \in Types
  PROVE  /\ LeafAlign(kt, vt) \in Nat \ {0}
         /\ NextOff(kt, vt) \in Nat /\ AfterSiblings(kt, vt) \in Nat
         /\ NodeHdr.size <= NextOff(kt, vt)
         /\ AfterSiblings(kt, vt) = NextOff(kt, vt) + 2 * PtrSize
         /\ NextOff(kt, vt) % PtrSize = 0 /\ (NextOff(kt, vt) + PtrSize) % PtrSize = 0
  <1> DEFINE hdr == LeafHdrSize(kt, vt)
             off == NextOff(kt, vt)
  <1>1. LeafAlign(kt, vt) \in Nat \ {0} /\ NodeHdr.size \in Nat
    BY LeafAlignDivides, TypesAreRecords
  <1>2. PtrSize \in Nat \ {0}
    BY PtrAssumption
  <1>3. hdr \in Nat /\ NodeHdr.size <= hdr
    BY <1>1, AlignUpBounds DEF LeafHdrSize
  <1> HIDE DEF hdr
  <1>4. off \in Nat /\ hdr <= off /\ off % PtrSize = 0
    BY <1>2, <1>3, AlignUpBounds DEF NextOff, hdr
  <1> HIDE DEF off
  <1>5. (off + PtrSize) % PtrSize = 0
    <2>1. off \div PtrSize \in Nat /\ off = PtrSize * (off \div PtrSize)
      BY <1>2, <1>4, DivMod
    <2>2. off + PtrSize = PtrSize * (off \div PtrSize + 1)
      BY <1>2, <2>1
    <2>3. (PtrSize * (off \div PtrSize + 1)) % PtrSize = 0
      BY <1>2, <2>1, MulMod
    <2>4. QED
      BY <2>2, <2>3
  <1>6. QED
    BY <1>1, <1>2, <1>3, <1>4, <1>5 DEF off, AfterSiblings

(* The layout that compute_for_cap makes for any capacity: fields in       *)
(* order, each array aligned and as long as the capacity asks.             *)
LEMMA LeafForCapPlaces ==
  ASSUME NEW kt \in Types, NEW vt \in Types, NEW cap \in Nat
  PROVE  LET L == LeafForCap(kt, vt, cap)
         IN  /\ L.bytes \in Nat /\ L.cap = cap /\ L.max_align = LeafAlign(kt, vt)
             /\ L.next_off = NextOff(kt, vt) /\ L.prev_off = NextOff(kt, vt) + PtrSize
             /\ L.keys_off \in Nat /\ L.vals_off \in Nat
             /\ AfterSiblings(kt, vt) <= L.keys_off /\ AfterSiblings(kt, vt) <= L.vals_off
             /\ L.keys_off % kt.align = 0 /\ L.vals_off % vt.align = 0
             /\ L.keys_off + cap * kt.size <= L.bytes
             /\ L.vals_off + cap * vt.size <= L.bytes
             /\ \/ L.keys_off + cap * kt.size <= L.vals_off
                \/ L.vals_off + cap * vt.size <= L.keys_off
  <1> DEFINE from == AfterSiblings(kt, vt)
             a == LeafAlign(kt, vt)
             p == Place(from, kt, cap, vt, cap, a)
             q == Place(from, vt, cap, kt, cap, a)
  <1>1. /\ kt \in [size : Nat, align : Nat \ {0}] /\ vt \in [size : Nat, align : Nat \ {0}]
        /\ cap * kt.size \in Nat /\ cap * vt.size \in Nat
    BY TypesAreRecords, Product
  <1>2. from \in Nat /\ a \in Nat \ {0}
    BY LeafFrame
  <1>3. /\ p.one \in Nat /\ p.two \in Nat /\ p.end \in Nat
        /\ from <= p.one /\ p.one + cap * kt.size <= p.two
        /\ p.two + cap * vt.size <= p.end
        /\ p.one % kt.align = 0 /\ p.two % vt.align = 0
    <2>1. kt \in AnyType /\ vt \in AnyType
      BY <1>1 DEF AnyType
    <2> HIDE DEF from, a
    <2>2. QED
      BY <2>1, <1>2, PlaceApart
  <1>4. /\ q.one \in Nat /\ q.two \in Nat /\ q.end \in Nat
        /\ from <= q.one /\ q.one + cap * vt.size <= q.two
        /\ q.two + cap * kt.size <= q.end
        /\ q.one % vt.align = 0 /\ q.two % kt.align = 0
    <2>1. kt \in AnyType /\ vt \in AnyType
      BY <1>1 DEF AnyType
    <2> HIDE DEF from, a
    <2>2. QED
      BY <2>1, <1>2, PlaceApart
  <1>5. CASE kt.align >= vt.align
    <2>1. LeafForCap(kt, vt, cap) =
            [bytes |-> p.end, cap |-> cap, max_align |-> a,
             next_off |-> NextOff(kt, vt), prev_off |-> NextOff(kt, vt) + PtrSize,
             keys_off |-> p.one, vals_off |-> p.two]
      BY <1>5 DEF LeafForCap
    <2> HIDE DEF p, q, from
    <2>2. /\ from <= p.two /\ p.one + cap * kt.size <= p.end
      BY <1>1, <1>2, <1>3
    <2>3. QED
      BY <2>1, <2>2, <1>3 DEF from
  <1>6. CASE ~(kt.align >= vt.align)
    <2>1. LeafForCap(kt, vt, cap) =
            [bytes |-> q.end, cap |-> cap, max_align |-> a,
             next_off |-> NextOff(kt, vt), prev_off |-> NextOff(kt, vt) + PtrSize,
             keys_off |-> q.two, vals_off |-> q.one]
      BY <1>6 DEF LeafForCap
    <2> HIDE DEF p, q, from
    <2>2. /\ from <= q.two /\ q.one + cap * vt.size <= q.end
      BY <1>1, <1>2, <1>4
    <2>3. QED
      BY <2>1, <2>2, <1>4 DEF from
  <1>7. QED
    BY <1>5, <1>6

(* Whatever the types and the capacity, the header, the sibling pointers,  *)
(* the keys and the values of a leaf from compute_for_cap lie in its       *)
(* block, aligned and apart, also in a block with bytes to spare.          *)
THEOREM LeafForCapCarved ==
  ASSUME NEW kt \in Types, NEW vt \in Types, NEW cap \in Nat,
         NEW bytes \in Nat, LeafForCap(kt, vt, cap).bytes <= bytes
  PROVE  LET L == [LeafForCap(kt, vt, cap) EXCEPT !.bytes = bytes]
         IN  Carved(LeafRegions(kt, vt, L), L)
  <1> DEFINE M == LeafForCap(kt, vt, cap)
             L == [M EXCEPT !.bytes = bytes]
             off == NextOff(kt, vt)
             from == AfterSiblings(kt, vt)
             r == LeafRegions(kt, vt, L)
             kb == cap * kt.size
             vb == cap * vt.size
  <1>1. /\ M.bytes \in Nat /\ M.cap = cap /\ M.max_align = LeafAlign(kt, vt)
        /\ M.next_off = off /\ M.prev_off = off + PtrSize
        /\ M.keys_off \in Nat /\ M.vals_off \in Nat
        /\ from <= M.keys_off /\ from <= M.vals_off
        /\ M.keys_off % kt.align = 0 /\ M.vals_off % vt.align = 0
        /\ M.keys_off + kb <= M.bytes /\ M.vals_off + vb <= M.bytes
        /\ M.keys_off + kb <= M.vals_off \/ M.vals_off + vb <= M.keys_off
    BY LeafForCapPlaces
  <1>2. /\ off \in Nat /\ from \in Nat /\ NodeHdr.size <= off
        /\ from = off + 2 * PtrSize
        /\ off % PtrSize = 0 /\ (off + PtrSize) % PtrSize = 0
    BY LeafFrame
  <1>3. kb \in Nat /\ vb \in Nat /\ PtrSize \in Nat
    BY TypesAreRecords, Product, PtrAssumption
  <1>4. /\ L.bytes = bytes /\ L.cap = cap /\ L.max_align = LeafAlign(kt, vt)
        /\ L.next_off = off /\ L.prev_off = off + PtrSize
        /\ L.keys_off = M.keys_off /\ L.vals_off = M.vals_off
    BY <1>1 DEF LeafForCap
  <1> HIDE DEF M, L, off, from, kb, vb
  <1>5. r = [hdr  |-> [from |-> 0, to |-> 6, align |-> 2],
             next |-> [from |-> off, to |-> off + PtrSize, align |-> PtrSize],
             prev |-> [from |-> off + PtrSize, to |-> off + 2 * PtrSize,
                       align |-> PtrSize],
             keys |-> [from |-> M.keys_off, to |-> M.keys_off + kb,
                       align |-> kt.align],
             vals |-> [from |-> M.vals_off, to |-> M.vals_off + vb,
                       align |-> vt.align]]
    BY <1>2, <1>3, <1>4 DEF LeafRegions, Region, NodeHdr, Ptr, kb, vb
  <1>6. /\ 6 <= off /\ 0 % 2 = 0
    BY <1>2 DEF NodeHdr
  <1>7. /\ LeafAlign(kt, vt) % kt.align = 0 /\ LeafAlign(kt, vt) % vt.align = 0
        /\ LeafAlign(kt, vt) % PtrSize = 0 /\ LeafAlign(kt, vt) % 2 = 0
    BY LeafAlignDivides DEF Ptr, NodeHdr
  <1>8. M.bytes <= bytes
    BY DEF M
  <1> HIDE DEF r
  <1>9. ASSUME NEW i \in DOMAIN r
        PROVE  /\ r[i].to <= L.bytes
               /\ r[i].from % r[i].align = 0
               /\ L.max_align % r[i].align = 0
    <2>1. i \in {"hdr", "next", "prev", "keys", "vals"}
      BY <1>5
    <2>2. QED
      BY <2>1, <1>1, <1>2, <1>3, <1>4, <1>5, <1>6, <1>7, <1>8
  <1>10. ASSUME NEW i \in DOMAIN r, NEW j \in DOMAIN r, i # j
         PROVE  r[i].to <= r[j].from \/ r[j].to <= r[i].from
    <2>1. /\ i \in {"hdr", "next", "prev", "keys", "vals"}
          /\ j \in {"hdr", "next", "prev", "keys", "vals"}
      BY <1>5
    <2>2. QED
      BY <2>1, <1>1, <1>2, <1>3, <1>5, <1>6, <1>10
  <1>11. QED
    BY <1>9, <1>10 DEF Carved, L, M, r

-----------------------------------------------------------------------------
(* Branches.                                                               *)

LEMMA BranchFrame ==
  ASSUME NEW kt \in Types
  PROVE  /\ BranchAlign(kt) \in Nat \ {0}
         /\ BranchHdrSize(kt) \in Nat /\ NodeHdr.size <= BranchHdrSize(kt)
  <1>1. BranchAlign(kt) \in Nat \ {0} /\ NodeHdr.size \in Nat
    BY BranchAlignDivides, TypesAreRecords
  <1>2. QED
    BY <1>1, AlignUpBounds DEF BranchHdrSize

LEMMA BranchForCapPlaces ==
  ASSUME NEW kt \in Types, NEW cap \in Nat
  PROVE  LET B == BranchForCap(kt, cap)
         IN  /\ B.bytes \in Nat /\ B.cap = cap /\ B.max_align = BranchAlign(kt)
             /\ B.keys_off \in Nat /\ B.children_off \in Nat
             /\ BranchHdrSize(kt) <= B.keys_off
             /\ BranchHdrSize(kt) <= B.children_off
             /\ B.keys_off % kt.align = 0 /\ B.children_off % PtrSize = 0
             /\ B.keys_off + cap * kt.size <= B.bytes
             /\ B.children_off + (cap + 1) * PtrSize <= B.bytes
             /\ \/ B.keys_off + cap * kt.size <= B.children_off
                \/ B.children_off + (cap + 1) * PtrSize <= B.keys_off
  <1> DEFINE from == BranchHdrSize(kt)
             a == BranchAlign(kt)
             m == cap + 1
             p == Place(from, Ptr, m, kt, cap, a)
             q == Place(from, kt, cap, Ptr, m, a)
  <1>1. /\ kt \in AnyType /\ Ptr \in AnyType /\ cap + 1 \in Nat
        /\ Ptr.size = PtrSize /\ Ptr.align = PtrSize
    BY TypesAreRecords DEF AnyType, Ptr
  <1>2. from \in Nat /\ a \in Nat \ {0}
    BY BranchFrame
  <1>3. cap * kt.size \in Nat /\ (cap + 1) * PtrSize \in Nat
    BY <1>1, Product, PtrAssumption DEF AnyType
  <1>4. /\ p.one \in Nat /\ p.two \in Nat /\ p.end \in Nat
        /\ from <= p.one /\ p.one + (cap + 1) * PtrSize <= p.two
        /\ p.two + cap * kt.size <= p.end
        /\ p.one % PtrSize = 0 /\ p.two % kt.align = 0
    <2>1. kt \in AnyType /\ Ptr \in AnyType /\ m \in Nat
      BY <1>1
    <2>2. /\ p.one \in Nat /\ p.two \in Nat /\ p.end \in Nat
          /\ from <= p.one /\ p.one + m * Ptr.size <= p.two
          /\ p.two + cap * kt.size <= p.end
          /\ p.one % Ptr.align = 0 /\ p.two % kt.align = 0
      <3> HIDE DEF from, a, m
      <3>1. QED
        BY <2>1, <1>2, PlaceApart
    <2>3. QED
      BY <2>2, <1>1
  <1>5. /\ q.one \in Nat /\ q.two \in Nat /\ q.end \in Nat
        /\ from <= q.one /\ q.one + cap * kt.size <= q.two
        /\ q.two + (cap + 1) * PtrSize <= q.end
        /\ q.one % kt.align = 0 /\ q.two % PtrSize = 0
    <2>1. kt \in AnyType /\ Ptr \in AnyType /\ m \in Nat
      BY <1>1
    <2>2. /\ q.one \in Nat /\ q.two \in Nat /\ q.end \in Nat
          /\ from <= q.one /\ q.one + cap * kt.size <= q.two
          /\ q.two + m * Ptr.size <= q.end
          /\ q.one % kt.align = 0 /\ q.two % Ptr.align = 0
      <3> HIDE DEF from, a, m
      <3>1. QED
        BY <2>1, <1>2, PlaceApart
    <2>3. QED
      BY <2>2, <1>1
  <1>6. CASE PtrSize >= kt.align
    <2>1. BranchForCap(kt, cap) =
            [bytes |-> p.end, cap |-> cap, max_align |-> a,
             children_off |-> p.one, keys_off |-> p.two]
      BY <1>6 DEF BranchForCap
    <2> HIDE DEF p, q, from
    <2>2. from <= p.two /\ p.one + (cap + 1) * PtrSize <= p.end
      BY <1>2, <1>3, <1>4
    <2>3. QED
      BY <2>1, <2>2, <1>4 DEF from
  <1>7. CASE ~(PtrSize >= kt.align)
    <2>1. BranchForCap(kt, cap) =
            [bytes |-> q.end, cap |-> cap, max_align |-> a,
             children_off |-> q.two, keys_off |-> q.one]
      BY <1>7 DEF BranchForCap
    <2> HIDE DEF p, q, from
    <2>2. from <= q.two /\ q.one + cap * kt.size <= q.end
      BY <1>2, <1>3, <1>5
    <2>3. QED
      BY <2>1, <2>2, <1>5 DEF from
  <1>8. QED
    BY <1>6, <1>7

(* The same for branches: the header, the keys and the children, one more  *)
(* than keys, lie in the block, aligned and apart.                         *)
THEOREM BranchForCapCarved ==
  ASSUME NEW kt \in Types, NEW cap \in Nat,
         NEW bytes \in Nat, BranchForCap(kt, cap).bytes <= bytes
  PROVE  LET B == [BranchForCap(kt, cap) EXCEPT !.bytes = bytes]
         IN  Carved(BranchRegions(kt, B), B)
  <1> DEFINE M == BranchForCap(kt, cap)
             B == [M EXCEPT !.bytes = bytes]
             from == BranchHdrSize(kt)
             r == BranchRegions(kt, B)
             kb == cap * kt.size
             cb == (cap + 1) * PtrSize
  <1>1. /\ M.bytes \in Nat /\ M.cap = cap /\ M.max_align = BranchAlign(kt)
        /\ M.keys_off \in Nat /\ M.children_off \in Nat
        /\ from <= M.keys_off /\ from <= M.children_off
        /\ M.keys_off % kt.align = 0 /\ M.children_off % PtrSize = 0
        /\ M.keys_off + kb <= M.bytes /\ M.children_off + cb <= M.bytes
        /\ M.keys_off + kb <= M.children_off \/ M.children_off + cb <= M.keys_off
    BY BranchForCapPlaces
  <1>2. from \in Nat /\ 6 <= from
    BY BranchFrame DEF NodeHdr
  <1>3. kb \in Nat /\ cb \in Nat
    BY TypesAreRecords, Product, PtrAssumption
  <1>4. /\ B.bytes = bytes /\ B.cap = cap /\ B.max_align = BranchAlign(kt)
        /\ B.keys_off = M.keys_off /\ B.children_off = M.children_off
    BY <1>1 DEF BranchForCap
  <1>5. M.bytes <= bytes
    OBVIOUS
  <1> HIDE DEF M, B, from, kb, cb
  <1>6. r = [hdr      |-> [from |-> 0, to |-> 6, align |-> 2],
             children |-> [from |-> M.children_off, to |-> M.children_off + cb,
                           align |-> PtrSize],
             keys     |-> [from |-> M.keys_off, to |-> M.keys_off + kb,
                           align |-> kt.align]]
    BY <1>4 DEF BranchRegions, Region, NodeHdr, Ptr, kb, cb
  <1>7. /\ BranchAlign(kt) % kt.align = 0
        /\ BranchAlign(kt) % PtrSize = 0 /\ BranchAlign(kt) % 2 = 0
    BY BranchAlignDivides DEF Ptr, NodeHdr
  <1> HIDE DEF r
  <1>8. ASSUME NEW i \in DOMAIN r
        PROVE  /\ r[i].to <= B.bytes
               /\ r[i].from % r[i].align = 0
               /\ B.max_align % r[i].align = 0
    <2>1. i \in {"hdr", "children", "keys"}
      BY <1>6
    <2>2. QED
      BY <2>1, <1>1, <1>2, <1>3, <1>4, <1>5, <1>6, <1>7
  <1>9. ASSUME NEW i \in DOMAIN r, NEW j \in DOMAIN r, i # j
        PROVE  r[i].to <= r[j].from \/ r[j].to <= r[i].from
    <2>1. i \in {"hdr", "children", "keys"} /\ j \in {"hdr", "children", "keys"}
      BY <1>6
    <2>2. QED
      BY <2>1, <1>1, <1>2, <1>3, <1>6, <1>9
  <1>10. QED
    BY <1>8, <1>9 DEF Carved, B, M, r

-----------------------------------------------------------------------------
(* Budgets.                                                                *)

(* A set of naturals up to n that is not empty has a largest element.      *)
LEMMA MaxIn ==
  ASSUME NEW n \in Nat, NEW S \in SUBSET (1 .. n), S # {}
  PROVE  Max(S) \in S /\ \A c \in S : c <= Max(S)
  <1> DEFINE R == {p \in Nat \X Nat : p[1] < p[2]}
             T == {n - c : c \in S}
  <1>1. IsWellFoundedOn(R, Nat)
    <2>1. R = OpToRel(<, Nat)
      BY DEF OpToRel
    <2>2. QED
      BY <2>1, NatLessThanWellFounded
  <1>2. T \subseteq Nat /\ T # {}
    <2>1. \A c \in S : c \in Nat /\ c <= n /\ n - c \in Nat
      OBVIOUS
    <2>2. QED
      BY <2>1
  <1>3. PICK t \in T : \A u \in T : ~(<<u, t>> \in R)
    <2> HIDE DEF R, T
    <2>1. QED
      BY <1>1, <1>2, WFMin
  <1>4. ASSUME NEW u \in T
        PROVE  t <= u
    <2>1. t \in Nat /\ u \in Nat
      BY <1>2
    <2>2. ~(<<u, t>> \in R)
      BY <1>3
    <2>3. QED
      BY <2>1, <2>2
  <1>5. PICK m \in S : t = n - m
    OBVIOUS
  <1>6. ASSUME NEW c \in S
        PROVE  m >= c
    <2>1. n - c \in T
      OBVIOUS
    <2>2. t <= n - c
      BY <1>4, <2>1
    <2>3. m \in Nat /\ c \in Nat
      OBVIOUS
    <2>4. QED
      BY <1>5, <2>2, <2>3
  <1>7. QED
    BY <1>6 DEF Max

LEMMA DivBounds ==
  ASSUME NEW x \in Nat, NEW d \in Nat \ {0}, NEW c \in Nat
  PROVE  c <= x \div d <=> c * d <= x
  <1> DEFINE q == x \div d
             m == x % d
  <1>1. q \in Nat /\ m \in 0 .. d - 1 /\ x = d * q + m
    BY DivMod
  <1> HIDE DEF q, m
  <1>2. CASE c <= q
    <2>1. c * d <= q * d
      BY <1>1, <1>2
    <2>2. QED
      BY <2>1, <1>1, <1>2, Product DEF q
  <1>3. CASE c > q
    <2>1. (q + 1) * d <= c * d
      BY <1>1, <1>3
    <2>2. QED
      BY <2>1, <1>1, <1>3, Product DEF q
  <1>4. QED
    BY <1>1, <1>2, <1>3

LEMMA LeafForCapSize ==
  ASSUME NEW kt \in Types, NEW vt \in Types, NEW cap \in Nat
  PROVE  /\ kt.size + vt.size \in Nat
         /\ AfterSiblings(kt, vt) + cap * (kt.size + vt.size) <= LeafForCap(kt, vt, cap).bytes
  <1> DEFINE M == LeafForCap(kt, vt, cap)
             from == AfterSiblings(kt, vt)
             kb == cap * kt.size
             vb == cap * vt.size
  <1>1. /\ kt.size \in Nat /\ vt.size \in Nat /\ kb \in Nat /\ vb \in Nat
    BY TypesAreRecords, Product
  <1>2. cap * (kt.size + vt.size) = kb + vb
    BY <1>1
  <1>3. /\ M.bytes \in Nat /\ M.keys_off \in Nat /\ M.vals_off \in Nat
        /\ from <= M.keys_off /\ from <= M.vals_off
        /\ M.keys_off + kb <= M.bytes /\ M.vals_off + vb <= M.bytes
        /\ M.keys_off + kb <= M.vals_off \/ M.vals_off + vb <= M.keys_off
    BY LeafForCapPlaces
  <1>4. from \in Nat
    BY LeafFrame
  <1> HIDE DEF M, from, kb, vb
  <1>5. from + (kb + vb) <= M.bytes
    BY <1>1, <1>2, <1>3, <1>4
  <1>6. QED
    BY <1>1, <1>2, <1>5 DEF M, from

(* The guess that ignores alignment is never below a capacity that fits.   *)
LEMMA LeafGuessBounds ==
  ASSUME NEW kt \in Types, NEW vt \in Types,
         kt.size + vt.size > 0,
         NEW bytes \in Nat
  PROVE  /\ LeafGuess(kt, vt, bytes) \in 0 .. MaxLen
         /\ \A c \in 1 .. MaxLen :
              LeafForCap(kt, vt, c).bytes <= bytes => c <= LeafGuess(kt, vt, bytes)
  <1> DEFINE from == AfterSiblings(kt, vt)
             d == kt.size + vt.size
             x == Monus(bytes, from)
             g == x \div d
  <1>1. from \in Nat /\ d \in Nat \ {0} /\ x \in Nat
    BY LeafFrame, TypesAreRecords, PtrAssumption DEF Monus
  <1> HIDE DEF d, x
  <1>2. g \in Nat
    BY <1>1, DivMod
  <1>3. LeafGuess(kt, vt, bytes) = IF g > MaxLen THEN MaxLen ELSE g
    BY DEF LeafGuess, d, x
  <1>4. ASSUME NEW c \in 1 .. MaxLen, LeafForCap(kt, vt, c).bytes <= bytes
        PROVE  c <= g
    <2>1. from + c * d <= LeafForCap(kt, vt, c).bytes
      BY LeafForCapSize DEF d
    <2>2. c * d \in Nat /\ LeafForCap(kt, vt, c).bytes \in Nat
      BY <1>1, Product, LeafForCapPlaces, MaxLenAssumption
    <2> HIDE DEF from
    <2>3. c * d <= x
      BY <1>1, <1>4, <2>1, <2>2 DEF x, Monus, from
    <2>4. QED
      BY <1>1, <2>3, DivBounds, MaxLenAssumption
  <1> HIDE DEF g
  <1>5. QED
    BY <1>2, <1>3, <1>4, MaxLenAssumption

(* An entry takes room.                                                    *)
HasEntry(kt, vt) == kt.size + vt.size > 0

(* compute finds the largest capacity that the budget has room for, and    *)
(* its layout is that of compute_for_cap in a block of the whole budget.   *)
THEOREM LeafBudgetWellSpent ==
  ASSUME NEW kt \in Types, NEW vt \in Types,
         HasEntry(kt, vt),
         NEW bytes \in Nat
  PROVE  LET L == LeafForBudget(kt, vt, bytes)
         IN  /\ L.bytes = bytes /\ L.cap \in 0 .. MaxLen
             /\ L.cap >= 1 =>
                  /\ LeafForCap(kt, vt, L.cap).bytes <= bytes
                  /\ L = [LeafForCap(kt, vt, L.cap) EXCEPT !.bytes = bytes]
             /\ L.cap = 0 =>
                  L = [LeafForCap(kt, vt, 0) EXCEPT !.bytes = bytes,
                        !.keys_off = AfterSiblings(kt, vt), !.vals_off = AfterSiblings(kt, vt)]
             /\ \A c \in 1 .. MaxLen :
                  LeafForCap(kt, vt, c).bytes <= bytes => c <= L.cap
  <1> DEFINE F == LeafFitting(kt, vt, bytes)
             g == LeafGuess(kt, vt, bytes)
  <1>1. /\ g \in 0 .. MaxLen
        /\ \A c \in 1 .. MaxLen : LeafForCap(kt, vt, c).bytes <= bytes => c <= g
    BY LeafGuessBounds DEF HasEntry
  <1>2. /\ F \in SUBSET (1 .. g) /\ F \in SUBSET (1 .. MaxLen)
        /\ \A c \in 1 .. MaxLen : c \in F <=> LeafForCap(kt, vt, c).bytes <= bytes
    BY <1>1, MaxLenAssumption DEF LeafFitting
  <1>3. \A c \in Nat : LET M == LeafForCap(kt, vt, c)
                      IN  [M EXCEPT !.bytes = bytes].bytes = bytes
                       /\ [M EXCEPT !.bytes = bytes].cap = c
    BY DEF LeafForCap
  <1>4. CASE F # {}
    <2> DEFINE m == Max(F)
    <2>0. g \in Nat /\ F \in SUBSET (1 .. g) /\ F # {}
      BY <1>1, <1>2, <1>4
    <2> HIDE DEF F, g
    <2>1. m \in F /\ \A c \in F : c <= m
      BY <2>0, MaxIn
    <2>2. m \in 1 .. MaxLen
      BY <1>2, <2>1
    <2>3. LeafForBudget(kt, vt, bytes) = [LeafForCap(kt, vt, m) EXCEPT !.bytes = bytes]
      BY <1>4 DEF LeafForBudget, F
    <2> HIDE DEF m
    <2>4. /\ LeafForBudget(kt, vt, bytes).bytes = bytes
          /\ LeafForBudget(kt, vt, bytes).cap = m
      BY <1>3, <2>2, <2>3, MaxLenAssumption
    <2>5. QED
      BY <1>2, <2>1, <2>2, <2>3, <2>4, MaxLenAssumption
  <1>5. CASE F = {}
    <2>1. LeafForBudget(kt, vt, bytes) =
            [LeafForCap(kt, vt, 0) EXCEPT !.bytes = bytes,
               !.keys_off = AfterSiblings(kt, vt), !.vals_off = AfterSiblings(kt, vt)]
      BY <1>5 DEF LeafForBudget
    <2>2. /\ LeafForBudget(kt, vt, bytes).bytes = bytes
          /\ LeafForBudget(kt, vt, bytes).cap = 0
      BY <2>1 DEF LeafForCap
    <2>3. QED
      BY <1>2, <1>5, <2>1, <2>2, MaxLenAssumption
  <1>6. QED
    BY <1>4, <1>5

LEMMA BranchForCapSize ==
  ASSUME NEW kt \in Types, NEW cap \in Nat
  PROVE  /\ kt.size + PtrSize \in Nat
         /\ BranchHdrSize(kt) + cap * (kt.size + PtrSize) <= BranchForCap(kt, cap).bytes
  <1> DEFINE M == BranchForCap(kt, cap)
             from == BranchHdrSize(kt)
             kb == cap * kt.size
             cb == (cap + 1) * PtrSize
             pb == cap * PtrSize
  <1>1. /\ kt.size \in Nat /\ PtrSize \in Nat
        /\ kb \in Nat /\ cb \in Nat /\ pb \in Nat
    BY TypesAreRecords, PtrAssumption, Product
  <1>2. cap * (kt.size + PtrSize) = kb + pb /\ pb <= cb
    BY <1>1
  <1>3. /\ M.bytes \in Nat /\ M.keys_off \in Nat /\ M.children_off \in Nat
        /\ from <= M.keys_off /\ from <= M.children_off
        /\ M.keys_off + kb <= M.bytes /\ M.children_off + cb <= M.bytes
        /\ M.keys_off + kb <= M.children_off \/ M.children_off + cb <= M.keys_off
    BY BranchForCapPlaces
  <1>4. from \in Nat
    BY BranchFrame
  <1> HIDE DEF M, from, kb, cb, pb
  <1>5. from + (kb + pb) <= M.bytes
    BY <1>1, <1>2, <1>3, <1>4
  <1>6. QED
    BY <1>1, <1>2, <1>5 DEF M, from

(* The guess that ignores alignment is never below a capacity that fits.   *)
LEMMA BranchGuessBounds ==
  ASSUME NEW kt \in Types,
         NEW bytes \in Nat
  PROVE  /\ BranchGuess(kt, bytes) \in 0 .. MaxLen
         /\ \A c \in 1 .. MaxLen :
              BranchForCap(kt, c).bytes <= bytes => c <= BranchGuess(kt, bytes)
  <1> DEFINE from == BranchHdrSize(kt)
             d == kt.size + PtrSize
             x == Monus(bytes, from)
             g == x \div d
  <1>1. from \in Nat /\ d \in Nat \ {0} /\ x \in Nat
    BY BranchFrame, TypesAreRecords, PtrAssumption DEF Monus
  <1> HIDE DEF d, x
  <1>2. g \in Nat
    BY <1>1, DivMod
  <1>3. BranchGuess(kt, bytes) = IF g > MaxLen THEN MaxLen ELSE g
    BY DEF BranchGuess, d, x
  <1>4. ASSUME NEW c \in 1 .. MaxLen, BranchForCap(kt, c).bytes <= bytes
        PROVE  c <= g
    <2>1. from + c * d <= BranchForCap(kt, c).bytes
      BY BranchForCapSize DEF d
    <2>2. c * d \in Nat /\ BranchForCap(kt, c).bytes \in Nat
      BY <1>1, Product, BranchForCapPlaces, MaxLenAssumption
    <2> HIDE DEF from
    <2>3. c * d <= x
      BY <1>1, <1>4, <2>1, <2>2 DEF x, Monus, from
    <2>4. QED
      BY <1>1, <2>3, DivBounds, MaxLenAssumption
  <1> HIDE DEF g
  <1>5. QED
    BY <1>2, <1>3, <1>4, MaxLenAssumption

(* compute finds the largest capacity that the budget has room for, and    *)
(* its layout is that of compute_for_cap in a block of the whole budget.   *)
THEOREM BranchBudgetWellSpent ==
  ASSUME NEW kt \in Types,
         NEW bytes \in Nat
  PROVE  LET L == BranchForBudget(kt, bytes)
         IN  /\ L.bytes = bytes /\ L.cap \in 0 .. MaxLen
             /\ L.cap >= 1 =>
                  /\ BranchForCap(kt, L.cap).bytes <= bytes
                  /\ L = [BranchForCap(kt, L.cap) EXCEPT !.bytes = bytes]
             /\ L.cap = 0 =>
                  L = [BranchForCap(kt, 0) EXCEPT !.bytes = bytes,
                        !.children_off = BranchHdrSize(kt), !.keys_off = BranchHdrSize(kt)]
             /\ \A c \in 1 .. MaxLen :
                  BranchForCap(kt, c).bytes <= bytes => c <= L.cap
  <1> DEFINE F == BranchFitting(kt, bytes)
             g == BranchGuess(kt, bytes)
  <1>1. /\ g \in 0 .. MaxLen
        /\ \A c \in 1 .. MaxLen : BranchForCap(kt, c).bytes <= bytes => c <= g
    BY BranchGuessBounds
  <1>2. /\ F \in SUBSET (1 .. g) /\ F \in SUBSET (1 .. MaxLen)
        /\ \A c \in 1 .. MaxLen : c \in F <=> BranchForCap(kt, c).bytes <= bytes
    BY <1>1, MaxLenAssumption DEF BranchFitting
  <1>3. \A c \in Nat : LET M == BranchForCap(kt, c)
                      IN  [M EXCEPT !.bytes = bytes].bytes = bytes
                       /\ [M EXCEPT !.bytes = bytes].cap = c
    BY DEF BranchForCap
  <1>4. CASE F # {}
    <2> DEFINE m == Max(F)
    <2>0. g \in Nat /\ F \in SUBSET (1 .. g) /\ F # {}
      BY <1>1, <1>2, <1>4
    <2> HIDE DEF F, g
    <2>1. m \in F /\ \A c \in F : c <= m
      BY <2>0, MaxIn
    <2>2. m \in 1 .. MaxLen
      BY <1>2, <2>1
    <2>3. BranchForBudget(kt, bytes) = [BranchForCap(kt, m) EXCEPT !.bytes = bytes]
      BY <1>4 DEF BranchForBudget, F
    <2> HIDE DEF m
    <2>4. /\ BranchForBudget(kt, bytes).bytes = bytes
          /\ BranchForBudget(kt, bytes).cap = m
      BY <1>3, <2>2, <2>3, MaxLenAssumption
    <2>5. QED
      BY <1>2, <2>1, <2>2, <2>3, <2>4, MaxLenAssumption
  <1>5. CASE F = {}
    <2>1. BranchForBudget(kt, bytes) =
            [BranchForCap(kt, 0) EXCEPT !.bytes = bytes,
               !.children_off = BranchHdrSize(kt), !.keys_off = BranchHdrSize(kt)]
      BY <1>5 DEF BranchForBudget
    <2>2. /\ BranchForBudget(kt, bytes).bytes = bytes
          /\ BranchForBudget(kt, bytes).cap = 0
      BY <2>1 DEF BranchForCap
    <2>3. QED
      BY <1>2, <1>5, <2>1, <2>2, MaxLenAssumption
  <1>6. QED
    BY <1>4, <1>5

-----------------------------------------------------------------------------
(* The constructors.                                                       *)

(* A map's layouts are those of compute_for_cap for the truncated capacity *)
(* given to new, or else those of compute for their own bytes.             *)
Computed ==
  made = "map" =>
    IF asked # None
    THEN /\ leaf = LeafForCap(K, V, CapFor(asked))
         /\ branch = BranchForCap(K, CapFor(asked))
    ELSE /\ K.size + V.size > 0
         /\ leaf = LeafForBudget(K, V, leaf.bytes)
         /\ branch = BranchForBudget(K, branch.bytes)

IInv == TypeOK /\ Computed

LEMMA CapForBounds ==
  ASSUME NEW c \in Capacities
  PROVE  c \in Nat /\ c # None /\ CapFor(c) \in 0 .. MaxLen
  <1>1. c \in Nat /\ MaxLen + 1 \in Nat \ {0}
    BY ArgumentsAssumption, MaxLenAssumption
  <1>2. c % (MaxLen + 1) \in 0 .. (MaxLen + 1) - 1
    BY <1>1, DivMod
  <1>3. QED
    BY <1>1, <1>2, NoneAssumption, MaxLenAssumption DEF CapFor

-----------------------------------------------------------------------------
(* Layouts are well typed.                                                 *)

LEMMA LeafForCapTyped ==
  ASSUME NEW k \in Types, NEW v \in Types, NEW cap \in 0 .. MaxLen
  PROVE  /\ LeafForCap(k, v, cap) \in LeafLayouts
         /\ LeafForCap(k, v, cap).cap = cap
  <1> DEFINE M == LeafForCap(k, v, cap)
  <1>1. cap \in Nat
    BY MaxLenAssumption
  <1>2. /\ M.bytes \in Nat /\ M.cap = cap /\ M.max_align = LeafAlign(k, v)
        /\ M.next_off = NextOff(k, v) /\ M.prev_off = NextOff(k, v) + PtrSize
        /\ M.keys_off \in Nat /\ M.vals_off \in Nat
    BY <1>1, LeafForCapPlaces
  <1>3. LeafAlign(k, v) \in Nat /\ NextOff(k, v) \in Nat /\ PtrSize \in Nat
    BY LeafFrame, PtrAssumption
  <1>4. M = [bytes |-> M.bytes, cap |-> M.cap, max_align |-> M.max_align,
             next_off |-> M.next_off, prev_off |-> M.prev_off,
             keys_off |-> M.keys_off, vals_off |-> M.vals_off]
    BY DEF LeafForCap
  <1> HIDE DEF M
  <1>5. M \in LeafLayouts
    BY <1>2, <1>3, <1>4 DEF LeafLayouts
  <1>6. QED
    BY <1>2, <1>5 DEF M

LEMMA BranchForCapTyped ==
  ASSUME NEW k \in Types, NEW cap \in 0 .. MaxLen
  PROVE  /\ BranchForCap(k, cap) \in BranchLayouts
         /\ BranchForCap(k, cap).cap = cap
  <1> DEFINE M == BranchForCap(k, cap)
  <1>1. cap \in Nat
    BY MaxLenAssumption
  <1>2. /\ M.bytes \in Nat /\ M.cap = cap /\ M.max_align = BranchAlign(k)
        /\ M.keys_off \in Nat /\ M.children_off \in Nat
    BY <1>1, BranchForCapPlaces
  <1>3. BranchAlign(k) \in Nat
    BY BranchFrame
  <1>4. M = [bytes |-> M.bytes, cap |-> M.cap, max_align |-> M.max_align,
             children_off |-> M.children_off, keys_off |-> M.keys_off]
    BY DEF BranchForCap
  <1> HIDE DEF M
  <1>5. M \in BranchLayouts
    BY <1>2, <1>3, <1>4 DEF BranchLayouts
  <1>6. QED
    BY <1>2, <1>5 DEF M

(* What LeafBudgetWellSpent says of the layout L for a budget.             *)
LeafSpent(k, v, bytes, L) ==
  /\ L.bytes = bytes /\ L.cap \in 0 .. MaxLen
  /\ L.cap >= 1 =>
       /\ LeafForCap(k, v, L.cap).bytes <= bytes
       /\ L = [LeafForCap(k, v, L.cap) EXCEPT !.bytes = bytes]
  /\ L.cap = 0 =>
       L = [LeafForCap(k, v, 0) EXCEPT !.bytes = bytes,
             !.keys_off = AfterSiblings(k, v), !.vals_off = AfterSiblings(k, v)]
  /\ \A c \in 1 .. MaxLen :
       LeafForCap(k, v, c).bytes <= bytes => c <= L.cap

LEMMA LeafBudgetSpent ==
  ASSUME NEW k \in Types, NEW v \in Types, HasEntry(k, v), NEW bytes \in Nat
  PROVE  LeafSpent(k, v, bytes, LeafForBudget(k, v, bytes))
  BY LeafBudgetWellSpent DEF LeafSpent

LEMMA LeafForBudgetTyped ==
  ASSUME NEW k \in Types, NEW v \in Types, HasEntry(k, v), NEW bytes \in Nat
  PROVE  /\ LeafForBudget(k, v, bytes) \in LeafLayouts
         /\ LeafForBudget(k, v, bytes).bytes = bytes
  <1> DEFINE L == LeafForBudget(k, v, bytes)
  <1>0. LeafSpent(k, v, bytes, L)
    BY LeafBudgetSpent
  <1>2. AfterSiblings(k, v) \in Nat
    BY LeafFrame
  <1> HIDE DEF L
  <1>1. /\ L.bytes = bytes /\ L.cap \in 0 .. MaxLen
        /\ L.cap >= 1 => L = [LeafForCap(k, v, L.cap) EXCEPT !.bytes = bytes]
        /\ L.cap = 0 =>
             L = [LeafForCap(k, v, 0) EXCEPT !.bytes = bytes,
                   !.keys_off = AfterSiblings(k, v), !.vals_off = AfterSiblings(k, v)]
    BY <1>0 DEF LeafSpent
  <1>3. /\ LeafForCap(k, v, L.cap) \in LeafLayouts
        /\ LeafForCap(k, v, 0) \in LeafLayouts
    BY <1>1, LeafForCapTyped, MaxLenAssumption
  <1> DEFINE M == LeafForCap(k, v, L.cap)
             M0 == LeafForCap(k, v, 0)
  <1> HIDE DEF M, M0
  <1>4. L \in LeafLayouts
    <2>1. CASE L.cap >= 1
      <3>1. M \in LeafLayouts /\ L = [M EXCEPT !.bytes = bytes]
        BY <1>1, <1>3, <2>1 DEF M
      <3>2. QED
        BY <3>1 DEF LeafLayouts
    <2>2. CASE L.cap = 0
      <3>1. /\ M0 \in LeafLayouts
            /\ L = [M0 EXCEPT !.bytes = bytes,
                      !.keys_off = AfterSiblings(k, v), !.vals_off = AfterSiblings(k, v)]
        BY <1>1, <1>3, <2>2 DEF M0
      <3>2. QED
        BY <1>2, <3>1 DEF LeafLayouts
    <2>3. QED
      BY <1>1, <2>1, <2>2, MaxLenAssumption
  <1>5. L.bytes = bytes
    BY <1>1
  <1>6. QED
    BY <1>4, <1>5 DEF L

LEMMA BranchForBudgetTyped ==
  ASSUME NEW k \in Types, NEW bytes \in Nat
  PROVE  /\ BranchForBudget(k, bytes) \in BranchLayouts
         /\ BranchForBudget(k, bytes).bytes = bytes
  <1> DEFINE B == BranchForBudget(k, bytes)
  <1>1. /\ B.bytes = bytes /\ B.cap \in 0 .. MaxLen
        /\ B.cap >= 1 => B = [BranchForCap(k, B.cap) EXCEPT !.bytes = bytes]
        /\ B.cap = 0 =>
             B = [BranchForCap(k, 0) EXCEPT !.bytes = bytes,
                   !.children_off = BranchHdrSize(k), !.keys_off = BranchHdrSize(k)]
    BY BranchBudgetWellSpent
  <1>2. BranchHdrSize(k) \in Nat
    BY BranchFrame
  <1> HIDE DEF B
  <1>3. /\ BranchForCap(k, B.cap) \in BranchLayouts
        /\ BranchForCap(k, 0) \in BranchLayouts
    BY <1>1, BranchForCapTyped, MaxLenAssumption
  <1> DEFINE M == BranchForCap(k, B.cap)
             M0 == BranchForCap(k, 0)
  <1> HIDE DEF M, M0
  <1>4. B \in BranchLayouts
    <2>1. CASE B.cap >= 1
      <3>1. M \in BranchLayouts /\ B = [M EXCEPT !.bytes = bytes]
        BY <1>1, <1>3, <2>1 DEF M
      <3>2. QED
        BY <3>1 DEF BranchLayouts
    <2>2. CASE B.cap = 0
      <3>1. /\ M0 \in BranchLayouts
            /\ B = [M0 EXCEPT !.bytes = bytes,
                      !.children_off = BranchHdrSize(k), !.keys_off = BranchHdrSize(k)]
        BY <1>1, <1>3, <2>2 DEF M0
      <3>2. QED
        BY <1>2, <3>1 DEF BranchLayouts
    <2>3. QED
      BY <1>1, <2>1, <2>2, MaxLenAssumption
  <1>5. B.bytes = bytes
    BY <1>1
  <1>6. QED
    BY <1>4, <1>5 DEF B

-----------------------------------------------------------------------------
(* The inductive invariant.                                                *)

LEMMA InitIInv == Init => IInv
  BY NoneAssumption DEF Init, IInv, TypeOK, Computed

LEMMA NewKeepsIInv ==
  ASSUME IInv, NEW c \in Capacities, New(c)
  PROVE  IInv'
  <1> DEFINE L == LeafForCap(K, V, CapFor(c))
  <1>1. c # None /\ CapFor(c) \in 0 .. MaxLen
    BY CapForBounds
  <1>2. K \in Types /\ V \in Types /\ made = "none" /\ asked' = c
    BY DEF IInv, TypeOK, New
  <1>3. leaf = None /\ branch = None /\ block = None
    BY <1>2 DEF IInv, TypeOK
  <1>4. L \in LeafLayouts /\ BranchForCap(K, CapFor(c)) \in BranchLayouts
    BY <1>1, <1>2, LeafForCapTyped, BranchForCapTyped
  <1>5. CASE /\ made' = "map" /\ block' = LeafBlock(L)
             /\ leaf' = L /\ branch' = BranchForCap(K, CapFor(c))
             /\ UNCHANGED <<K, V>>
    <2> HIDE DEF L
    <2>1. TypeOK'
      BY <1>2, <1>4, <1>5 DEF TypeOK, LeafBlock
    <2>2. Computed'
      BY <1>1, <1>2, <1>5 DEF Computed, CapFor, L
    <2>3. QED
      BY <2>1, <2>2 DEF IInv
  <1>6. CASE Fail("AllocationError") \/ Fail("panic")
    BY <1>2, <1>3, <1>6 DEF IInv, TypeOK, Computed, Fail
  <1>7. QED
    BY <1>5, <1>6 DEF New

LEMMA WithBudgetsKeepsIInv ==
  ASSUME IInv, NEW lb \in Nat, NEW bb \in Nat, WithBudgets(lb, bb)
  PROVE  IInv'
  <1>1. K \in Types /\ V \in Types /\ made = "none" /\ asked' = None
    BY DEF IInv, TypeOK, WithBudgets
  <1>2. leaf = None /\ branch = None /\ block = None
    BY <1>1 DEF IInv, TypeOK
  <1>3. CASE K.size + V.size = 0
    BY <1>1, <1>2, <1>3 DEF IInv, TypeOK, Computed, Fail, WithBudgets
  <1>4. CASE K.size + V.size # 0
    <2>1. K.size + V.size > 0
      BY <1>1, <1>4, TypesAreRecords
    <2>2. /\ made' = "map" /\ leaf' = LeafForBudget(K, V, lb)
          /\ branch' = BranchForBudget(K, bb) /\ K' = K /\ V' = V /\ block' = None
      BY <1>2, <1>4 DEF WithBudgets
    <2> HasEntry(K, V)
      BY <2>1 DEF HasEntry
    <2>3. /\ leaf' \in LeafLayouts /\ leaf'.bytes = lb
          /\ branch' \in BranchLayouts /\ branch'.bytes = bb
      BY <1>1, <2>1, <2>2, LeafForBudgetTyped, BranchForBudgetTyped
    <2>4. TypeOK'
      BY <1>1, <2>2, <2>3 DEF TypeOK
    <2>5. Computed'
      BY <1>1, <2>1, <2>2, <2>3 DEF Computed
    <2>6. QED
      BY <2>4, <2>5 DEF IInv
  <1>5. QED
    BY <1>3, <1>4

LEMMA LinesAreBytes ==
  ASSUME NEW n \in Nat
  PROVE  LinesToBytes(n) \in Nat
  <1>1. n * LineBytes \in Nat /\ MaxBytes \in Nat
    BY Product, ArgumentsAssumption
  <1>2. QED
    BY <1>1 DEF LinesToBytes

LEMMA NextKeepsIInv == IInv /\ [Next]_vars => IInv'
  <1> SUFFICES ASSUME IInv, [Next]_vars
               PROVE  IInv'
    OBVIOUS
  <1>1. ASSUME NEW c \in Capacities, NewTooSmall(c)
        PROVE  IInv'
    <2>1. made = "none" /\ asked' = c /\ leaf = None /\ branch = None /\ block = None
      BY <1>1 DEF NewTooSmall, IInv, TypeOK
    <2>2. QED
      BY <1>1, <2>1 DEF NewTooSmall, Fail, IInv, TypeOK, Computed
  <1>2. ASSUME NEW c \in Capacities, New(c)
        PROVE  IInv'
    BY <1>2, NewKeepsIInv
  <1>3. ASSUME NEW b \in Budgets, WithBudgets(b[1], b[2])
        PROVE  IInv'
    <2>1. b[1] \in Nat /\ b[2] \in Nat
      BY ArgumentsAssumption
    <2>2. QED
      BY <1>3, <2>1, WithBudgetsKeepsIInv
  <1>4. ASSUME NEW l \in Lines, WithCacheLines(l[1], l[2])
        PROVE  IInv'
    <2>1. LinesToBytes(l[1]) \in Nat /\ LinesToBytes(l[2]) \in Nat
      BY ArgumentsAssumption, LinesAreBytes
    <2>2. QED
      BY <1>4, <2>1, WithBudgetsKeepsIInv DEF WithCacheLines
  <1>5. CASE AllocLeaf
    <2>1. made = "map" /\ block' = LeafBlock(leaf) /\ UNCHANGED <<K, V, made, asked, leaf, branch>>
      BY <1>5 DEF AllocLeaf
    <2>2. TypeOK'
      BY <2>1 DEF IInv, TypeOK, LeafBlock
    <2>3. Computed'
      BY <2>1 DEF IInv, Computed, CapFor
    <2>4. QED
      BY <2>2, <2>3 DEF IInv
  <1>6. CASE AllocBranch
    <2>1. made = "map" /\ block' = BranchBlock(branch) /\ UNCHANGED <<K, V, made, asked, leaf, branch>>
      BY <1>6 DEF AllocBranch
    <2>2. TypeOK'
      BY <2>1 DEF IInv, TypeOK, BranchBlock
    <2>3. Computed'
      BY <2>1 DEF IInv, Computed, CapFor
    <2>4. QED
      BY <2>2, <2>3 DEF IInv
  <1>7. CASE UNCHANGED vars
    BY <1>7 DEF vars, IInv, TypeOK, Computed, LeafBlock, BranchBlock, CapFor
  <1>8. QED
    BY <1>1, <1>2, <1>3, <1>4, <1>5, <1>6, <1>7 DEF Next

LEMMA SpecIInv == Spec => []IInv
  BY InitIInv, NextKeepsIInv, PTL DEF Spec

-----------------------------------------------------------------------------
(* A layout is there exactly when there is a map, and its capacities fit   *)
(* the u16 of a header: the constructors and the allocation of blocks.     *)
THEOREM ConstructionTyped == Spec => []TypeOK
  <1>1. IInv => TypeOK
    BY DEF IInv
  <1>2. QED
    BY <1>1, SpecIInv, PTL

(* The layouts of a map that has room for an item, or was made by new, are *)
(* those of compute_for_cap in blocks that are large enough for them.      *)
LEMMA MapLayouts ==
  ASSUME IInv, made = "map"
  PROVE  /\ K \in Types /\ V \in Types
         /\ leaf.cap >= 1 \/ asked # None =>
              /\ leaf.cap \in Nat /\ leaf.bytes \in Nat
              /\ LeafForCap(K, V, leaf.cap).bytes <= leaf.bytes
              /\ leaf = [LeafForCap(K, V, leaf.cap) EXCEPT !.bytes = leaf.bytes]
         /\ branch.cap >= 1 \/ asked # None =>
              /\ branch.cap \in Nat /\ branch.bytes \in Nat
              /\ BranchForCap(K, branch.cap).bytes <= branch.bytes
              /\ branch = [BranchForCap(K, branch.cap) EXCEPT !.bytes = branch.bytes]
  <1>1. /\ K \in Types /\ V \in Types
        /\ leaf \in LeafLayouts /\ branch \in BranchLayouts
        /\ asked \in Capacities \cup {None}
    BY DEF IInv, TypeOK
  <1>2. /\ leaf.cap \in Nat /\ leaf.bytes \in Nat
        /\ branch.cap \in Nat /\ branch.bytes \in Nat
    BY <1>1, MaxLenAssumption DEF LeafLayouts, BranchLayouts
  <1>3. CASE asked # None
    <2>1. /\ leaf = LeafForCap(K, V, CapFor(asked))
          /\ branch = BranchForCap(K, CapFor(asked))
      BY <1>3 DEF IInv, Computed
    <2>2. CapFor(asked) \in 0 .. MaxLen
      BY <1>1, <1>3, CapForBounds
    <2>3. leaf.cap = CapFor(asked) /\ branch.cap = CapFor(asked)
      BY <1>1, <2>1, <2>2, LeafForCapTyped, BranchForCapTyped
    <2>4. /\ leaf = [leaf EXCEPT !.bytes = leaf.bytes]
          /\ branch = [branch EXCEPT !.bytes = branch.bytes]
      BY <1>1 DEF LeafLayouts, BranchLayouts
    <2>5. leaf = LeafForCap(K, V, leaf.cap) /\ branch = BranchForCap(K, branch.cap)
      BY <2>1, <2>3
    <2>6. QED
      BY <1>1, <1>2, <2>4, <2>5
  <1>4. CASE asked = None
    <2>1. /\ K.size + V.size > 0
          /\ leaf = LeafForBudget(K, V, leaf.bytes)
          /\ branch = BranchForBudget(K, branch.bytes)
      BY <1>4 DEF IInv, Computed
    <2>2. leaf.cap >= 1 =>
            /\ LeafForCap(K, V, leaf.cap).bytes <= leaf.bytes
            /\ leaf = [LeafForCap(K, V, leaf.cap) EXCEPT !.bytes = leaf.bytes]
      <3>1. LeafSpent(K, V, leaf.bytes, leaf)
        BY <1>1, <1>2, <2>1, LeafBudgetSpent DEF HasEntry
      <3>2. QED
        BY <3>1 DEF LeafSpent
    <2>3. branch.cap >= 1 =>
            /\ BranchForCap(K, branch.cap).bytes <= branch.bytes
            /\ branch = [BranchForCap(K, branch.cap) EXCEPT !.bytes = branch.bytes]
      BY <1>1, <1>2, <2>1, BranchBudgetWellSpent
    <2>4. QED
      BY <1>1, <1>2, <1>4, <2>2, <2>3
  <1>5. QED
    BY <1>3, <1>4

LEMMA BlockOf ==
  ASSUME IInv, block # None
  PROVE  /\ made = "map"
         /\ block.kind = "leaf" =>
              block.layout = leaf /\ block.regions = LeafRegions(K, V, leaf)
         /\ block.kind = "branch" =>
              block.layout = branch /\ block.regions = BranchRegions(K, branch)
  <1>1. made = "map" /\ (block = LeafBlock(leaf) \/ block = BranchBlock(branch))
    BY DEF IInv, TypeOK
  <1>2. CASE block = LeafBlock(leaf)
    <2>1. /\ block.kind = "leaf" /\ block.layout = leaf
          /\ block.regions = LeafRegions(K, V, leaf)
      BY <1>2 DEF LeafBlock
    <2>2. QED
      BY <1>1, <2>1
  <1>3. CASE block = BranchBlock(branch)
    <2>1. /\ block.kind = "branch" /\ block.layout = branch
          /\ block.regions = BranchRegions(K, branch)
      BY <1>3 DEF BranchBlock
    <2>2. QED
      BY <1>1, <2>1
  <1>4. QED
    BY <1>1, <1>2, <1>3

(* carve_leaf yields disjoint and aligned regions inside a leaf's block.   *)
THEOREM ConstructionLeavesCarved == Spec => []LeavesCarved
  <1>1. ASSUME IInv
        PROVE  LeavesCarved
    <2> SUFFICES ASSUME block # None, block.kind = "leaf",
                        block.layout.cap >= 1 \/ asked # None
                 PROVE  Carved(block.regions, block.layout)
      BY DEF LeavesCarved
    <2>1. /\ made = "map" /\ block.layout = leaf
          /\ block.regions = LeafRegions(K, V, leaf)
      BY <1>1, BlockOf
    <2>2. /\ K \in Types /\ V \in Types /\ leaf.cap \in Nat /\ leaf.bytes \in Nat
          /\ LeafForCap(K, V, leaf.cap).bytes <= leaf.bytes
          /\ leaf = [LeafForCap(K, V, leaf.cap) EXCEPT !.bytes = leaf.bytes]
      BY <1>1, <2>1, MapLayouts
    <2>3. LET L == [LeafForCap(K, V, leaf.cap) EXCEPT !.bytes = leaf.bytes]
          IN  Carved(LeafRegions(K, V, L), L)
      BY <2>2, LeafForCapCarved
    <2>4. QED
      BY <2>1, <2>2, <2>3
  <1>2. QED
    BY <1>1, SpecIInv, PTL

(* carve_branch yields disjoint and aligned regions in a branch's block.   *)
THEOREM ConstructionBranchesCarved == Spec => []BranchesCarved
  <1>1. ASSUME IInv
        PROVE  BranchesCarved
    <2> SUFFICES ASSUME block # None, block.kind = "branch",
                        block.layout.cap >= 1 \/ asked # None
                 PROVE  Carved(block.regions, block.layout)
      BY DEF BranchesCarved
    <2>1. /\ made = "map" /\ block.layout = branch
          /\ block.regions = BranchRegions(K, branch)
      BY <1>1, BlockOf
    <2>2. /\ K \in Types /\ branch.cap \in Nat /\ branch.bytes \in Nat
          /\ BranchForCap(K, branch.cap).bytes <= branch.bytes
          /\ branch = [BranchForCap(K, branch.cap) EXCEPT !.bytes = branch.bytes]
      BY <1>1, <2>1, MapLayouts
    <2>3. LET B == [BranchForCap(K, branch.cap) EXCEPT !.bytes = branch.bytes]
          IN  Carved(BranchRegions(K, B), B)
      BY <2>2, BranchForCapCarved
    <2>4. QED
      BY <2>1, <2>2, <2>3
  <1>2. QED
    BY <1>1, SpecIInv, PTL

(* with_budgets and with_cache_lines leave no room for one entry more.     *)
THEOREM ConstructionBudgetsWellSpent == Spec => []BudgetsWellSpent
  <1>1. ASSUME IInv
        PROVE  BudgetsWellSpent
    <2> SUFFICES ASSUME made = "map", asked = None
                 PROVE  /\ \A cap \in leaf.cap + 1 .. MaxLen :
                             LeafForCap(K, V, cap).bytes > leaf.bytes
                        /\ \A cap \in branch.cap + 1 .. MaxLen :
                             BranchForCap(K, cap).bytes > branch.bytes
      BY DEF BudgetsWellSpent
    <2>1. /\ K \in Types /\ V \in Types /\ K.size + V.size > 0
          /\ leaf = LeafForBudget(K, V, leaf.bytes)
          /\ branch = BranchForBudget(K, branch.bytes)
      BY <1>1 DEF IInv, TypeOK, Computed
    <2>2. /\ leaf.cap \in Nat /\ leaf.bytes \in Nat
          /\ branch.cap \in Nat /\ branch.bytes \in Nat
      BY <1>1, MaxLenAssumption DEF IInv, TypeOK, LeafLayouts, BranchLayouts
    <2>3. \A c \in 1 .. MaxLen : LeafForCap(K, V, c).bytes <= leaf.bytes => c <= leaf.cap
      <3>1. LeafSpent(K, V, leaf.bytes, leaf)
        BY <2>1, <2>2, LeafBudgetSpent DEF HasEntry
      <3>2. QED
        BY <3>1 DEF LeafSpent
    <2>4. \A c \in 1 .. MaxLen : BranchForCap(K, c).bytes <= branch.bytes => c <= branch.cap
      BY <2>1, <2>2, BranchBudgetWellSpent
    <2>5. \A c \in Nat : LeafForCap(K, V, c).bytes \in Nat /\ BranchForCap(K, c).bytes \in Nat
      BY <2>1, LeafForCapPlaces, BranchForCapPlaces
    <2>6. QED
      BY <2>2, <2>3, <2>4, <2>5, MaxLenAssumption
  <1>2. QED
    BY <1>1, SpecIInv, PTL

(* compute given the bytes of compute_for_cap has room for its capacity.   *)
THEOREM ConstructionBudgetOfCapSuffices == Spec => []BudgetOfCapSuffices
  <1>1. ASSUME IInv
        PROVE  BudgetOfCapSuffices
    <2> SUFFICES ASSUME made = "map", asked # None, K.size + V.size > 0
                 PROVE  /\ LeafForBudget(K, V, leaf.bytes).cap >= leaf.cap
                        /\ BranchForBudget(K, branch.bytes).cap >= branch.cap
      BY DEF BudgetOfCapSuffices
    <2>1. /\ K \in Types /\ V \in Types /\ asked \in Capacities
          /\ leaf = LeafForCap(K, V, CapFor(asked))
          /\ branch = BranchForCap(K, CapFor(asked))
      BY <1>1 DEF IInv, TypeOK, Computed
    <2>2. CapFor(asked) \in 0 .. MaxLen
      BY <2>1, CapForBounds
    <2>3. leaf.cap = CapFor(asked) /\ branch.cap = CapFor(asked)
      BY <2>1, <2>2, LeafForCapTyped, BranchForCapTyped
    <2>4. leaf.bytes \in Nat /\ branch.bytes \in Nat
      BY <1>1 DEF IInv, TypeOK, LeafLayouts, BranchLayouts
    <2>5. /\ LeafForBudget(K, V, leaf.bytes).cap \in 0 .. MaxLen
          /\ \A c \in 1 .. MaxLen : LeafForCap(K, V, c).bytes <= leaf.bytes
               => c <= LeafForBudget(K, V, leaf.bytes).cap
      <3>1. LeafSpent(K, V, leaf.bytes, LeafForBudget(K, V, leaf.bytes))
        BY <2>1, <2>4, LeafBudgetSpent DEF HasEntry
      <3>2. QED
        BY <3>1 DEF LeafSpent
    <2>6. /\ BranchForBudget(K, branch.bytes).cap \in 0 .. MaxLen
          /\ \A c \in 1 .. MaxLen : BranchForCap(K, c).bytes <= branch.bytes
               => c <= BranchForBudget(K, branch.bytes).cap
      BY <2>1, <2>4, BranchBudgetWellSpent
    <2>7. leaf.bytes <= leaf.bytes /\ branch.bytes <= branch.bytes
      BY <2>4
    <2>8. QED
      BY <2>1, <2>2, <2>3, <2>5, <2>6, <2>7, MaxLenAssumption
  <1>2. QED
    BY <1>1, SpecIInv, PTL
=============================================================================
