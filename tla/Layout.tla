------------------------------- MODULE Layout -------------------------------
(***************************************************************************)
(* How a node's block is laid out: where its header, sibling pointers and  *)
(* arrays begin, how many entries fit and how many bytes are asked of the  *)
(* allocator, from the sizes and alignments of the key and value types.    *)
(*                                                                         *)
(* A type is a record of its size and alignment.  usize is unbounded here: *)
(* sums of offsets do not wrap for types that fit in memory many times.    *)
(* Leaves are doubly linked, as with_budgets and new ask for.              *)
(***************************************************************************)
EXTENDS Integers, FiniteSetsExt

CONSTANTS
  Types,     \* the types a map may have for keys and values
  PtrSize,   \* size and alignment of a pointer
  MaxLen     \* u16::MAX, the largest length a header can record

Ptr     == [size |-> PtrSize, align |-> PtrSize]
NodeHdr == [size |-> 6, align |-> 2]             \* u8, u16, u8 in C order

Alignments == {t.align : t \in Types \cup {Ptr, NodeHdr}}

(* What Rust guarantees of types: sizes are multiples of alignments, and   *)
(* alignments are powers of two, so of two the smaller divides the larger. *)
ASSUME TypesAssumption ==
  /\ Types # {} /\ Types \subseteq [size : Nat, align : Nat \ {0}]
  /\ \A t \in Types : t.size % t.align = 0
  /\ \A a, b \in Alignments : a <= b => b % a = 0
ASSUME PtrAssumption == PtrSize \in Nat /\ PtrSize >= 2
ASSUME MaxLenAssumption == MaxLen \in Nat \ {0}

-----------------------------------------------------------------------------
Larger(a, b) == IF a >= b THEN a ELSE b

(* saturating_sub                                                          *)
Monus(a, b) == IF a >= b THEN a - b ELSE 0

AlignDown(x, a) == x - (x % a)      \* mutant: (x) & !(a - 1)
AlignUp(x, a) == (x + (a - 1)) - ((x + (a - 1)) % a)

(* Two arrays, n of type s then m of type t, after from: the offset of     *)
(* each and the end of the block.                                          *)
Place(from, s, n, t, m, a) ==
  LET one == AlignUp(from, s.align)
      two == AlignUp(one + n * s.size, t.align)
  IN  [one |-> one, two |-> two, end |-> AlignUp(two + m * t.size, a)]

-----------------------------------------------------------------------------
(* Leaves.                                                                 *)

LeafAlign(K, V) ==
  Larger(Larger(Larger(PtrSize, K.align), V.align), NodeHdr.align)
LeafHdrSize(K, V) == AlignUp(NodeHdr.size, LeafAlign(K, V))
NextOff(K, V)     == AlignUp(LeafHdrSize(K, V), PtrSize)
AfterSiblings(K, V) == NextOff(K, V) + 2 * PtrSize

(* compute_for_cap: the array of the higher alignment comes first.         *)
LeafForCap(K, V, cap) ==
  LET a == LeafAlign(K, V)
      keysFirst == K.align >= V.align
      p == IF keysFirst THEN Place(AfterSiblings(K, V), K, cap, V, cap, a)
                        ELSE Place(AfterSiblings(K, V), V, cap, K, cap, a)
  IN  [bytes |-> p.end, cap |-> cap, max_align |-> a,
       next_off |-> NextOff(K, V), prev_off |-> NextOff(K, V) + PtrSize,
       keys_off |-> IF keysFirst THEN p.one ELSE p.two,
       vals_off |-> IF keysFirst THEN p.two ELSE p.one]

(* compute: the largest capacity whose block is within the budget, found   *)
(* by counting down from a bound that ignores alignment.  Without room for *)
(* one entry the capacity is 0 and the block still has bytes bytes.        *)
LeafGuessUnclamped(K, V, bytes) ==     \* mutant: no limit of u16
  Monus(bytes, AfterSiblings(K, V)) \div (K.size + V.size)
LeafGuessLow(K, V, bytes) ==           \* mutant: sized as an array of pairs
  LET guess == Monus(bytes, AfterSiblings(K, V))
                 \div AlignUp(K.size + V.size, LeafAlign(K, V))
  IN  IF guess > MaxLen THEN MaxLen ELSE guess
LeafGuess(K, V, bytes) ==
  LET guess == Monus(bytes, AfterSiblings(K, V)) \div (K.size + V.size)
  IN  IF guess > MaxLen THEN MaxLen ELSE guess

LeafFittingStrict(K, V, bytes) ==     \* mutant: end_aligned < bytes
  {cap \in 1 .. LeafGuess(K, V, bytes) : LeafForCap(K, V, cap).bytes < bytes}
LeafFitting(K, V, bytes) ==
  {cap \in 1 .. LeafGuess(K, V, bytes) : LeafForCap(K, V, cap).bytes <= bytes}

LeafForBudget(K, V, bytes) ==
  LET fitting == LeafFitting(K, V, bytes)
  IN  IF fitting # {}
      THEN [LeafForCap(K, V, Max(fitting)) EXCEPT !.bytes = bytes]
      ELSE [LeafForCap(K, V, 0) EXCEPT !.bytes = bytes,
              !.keys_off = AfterSiblings(K, V), !.vals_off = AfterSiblings(K, V)]

-----------------------------------------------------------------------------
(* Branches: cap keys and one child pointer more.                          *)

BranchAlign(K)   == Larger(Larger(PtrSize, K.align), NodeHdr.align)
BranchHdrSize(K) == AlignUp(NodeHdr.size, BranchAlign(K))

BranchForCapFewChildren(K, cap) ==     \* mutant: as many children as keys
  LET a == BranchAlign(K)
      childrenFirst == PtrSize >= K.align
      p == IF childrenFirst THEN Place(BranchHdrSize(K), Ptr, cap, K, cap, a)
                            ELSE Place(BranchHdrSize(K), K, cap, Ptr, cap, a)
  IN  [bytes |-> p.end, cap |-> cap, max_align |-> a,
       children_off |-> IF childrenFirst THEN p.one ELSE p.two,
       keys_off     |-> IF childrenFirst THEN p.two ELSE p.one]
BranchForCap(K, cap) ==
  LET a == BranchAlign(K)
      childrenFirst == PtrSize >= K.align
      p == IF childrenFirst THEN Place(BranchHdrSize(K), Ptr, cap + 1, K, cap, a)
                            ELSE Place(BranchHdrSize(K), K, cap, Ptr, cap + 1, a)
  IN  [bytes |-> p.end, cap |-> cap, max_align |-> a,
       children_off |-> IF childrenFirst THEN p.one ELSE p.two,
       keys_off     |-> IF childrenFirst THEN p.two ELSE p.one]

BranchGuess(K, bytes) ==
  LET guess == Monus(bytes, BranchHdrSize(K)) \div (K.size + PtrSize)
  IN  IF guess > MaxLen THEN MaxLen ELSE guess

BranchFitting(K, bytes) ==
  {cap \in 1 .. BranchGuess(K, bytes) : BranchForCap(K, cap).bytes <= bytes}

BranchForBudget(K, bytes) ==
  LET fitting == BranchFitting(K, bytes)
  IN  IF fitting # {}
      THEN [BranchForCap(K, Max(fitting)) EXCEPT !.bytes = bytes]
      ELSE [BranchForCap(K, 0) EXCEPT !.bytes = bytes,
              !.children_off = BranchHdrSize(K), !.keys_off = BranchHdrSize(K)]

-----------------------------------------------------------------------------
(* carve_leaf and carve_branch: the regions of a block, each an array of   *)
(* objects of one type.                                                    *)

Region(off, n, t) == [from |-> off, to |-> off + n * t.size, align |-> t.align]

LeafRegions(K, V, L) ==
  [hdr  |-> Region(0, 1, NodeHdr),
   next |-> Region(L.next_off, 1, Ptr),
   prev |-> Region(L.prev_off, 1, Ptr),
   keys |-> Region(L.keys_off, L.cap, K),
   vals |-> Region(L.vals_off, L.cap, V)]

BranchRegions(K, B) ==
  [hdr      |-> Region(0, 1, NodeHdr),
   children |-> Region(B.children_off, B.cap + 1, Ptr),
   keys     |-> Region(B.keys_off, B.cap, K)]

(* What a carved block must be: every region inside the block and aligned  *)
(* in it, in a block aligned for all of them, and no two regions overlap.  *)
Carved(regions, L) ==
  /\ \A r \in DOMAIN regions :
       /\ regions[r].to <= L.bytes
       /\ regions[r].from % regions[r].align = 0
       /\ L.max_align % regions[r].align = 0
  /\ \A r, s \in DOMAIN regions :
       r # s => \/ regions[r].to <= regions[s].from
                \/ regions[s].to <= regions[r].from
=============================================================================
