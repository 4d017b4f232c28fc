---------------------------- MODULE Construction -----------------------------
(***************************************************************************)
(* The constructors of BPlusTreeMap, and the blocks it then allocates with *)
(* the layouts they computed.  What happens in these blocks is BPlusTree.  *)
(***************************************************************************)
EXTENDS Layout

CONSTANTS
  Capacities,   \* arguments of new
  Budgets,      \* pairs of arguments of with_budgets, in bytes
  Lines,        \* pairs of arguments of with_cache_lines
  LineBytes,    \* CACHE_LINE_BYTES
  MaxBytes,     \* isize::MAX, the largest block an allocator is asked for
  None          \* not there

ASSUME ArgumentsAssumption ==
  /\ Capacities \cup {LineBytes, MaxBytes} \subseteq Nat
  /\ Budgets \cup Lines \subseteq Nat \X Nat
ASSUME NoneAssumption == None \notin Nat

VARIABLES
  K, V,         \* the key and value types
  made,         \* "none", "map", or how the constructor failed
  asked,        \* the capacity given to new, None for the other constructors
  leaf, branch, \* leaf_layout and branch_layout
  block         \* the block allocated last: its layout and its regions

vars == <<K, V, made, asked, leaf, branch, block>>

LeafLayouts   == [bytes : Nat, cap : 0 .. MaxLen, max_align : Nat,
                  next_off : Nat, prev_off : Nat, keys_off : Nat, vals_off : Nat]
BranchLayouts == [bytes : Nat, cap : 0 .. MaxLen, max_align : Nat,
                  children_off : Nat, keys_off : Nat]

Init ==
  /\ K \in Types /\ V \in Types
  /\ made = "none" /\ asked = None
  /\ leaf = None /\ branch = None /\ block = None

-----------------------------------------------------------------------------
(* alloc_raw: a size that rounds up past isize::MAX is no Layout.          *)
ValidSize(L) == AlignUp(L.bytes, L.max_align) <= MaxBytes

LeafBlock(L) == [kind |-> "leaf", layout |-> L, regions |-> LeafRegions(K, V, L)]
BranchBlock(B) == [kind |-> "branch", layout |-> B, regions |-> BranchRegions(K, B)]

Fail(how) == made' = how /\ UNCHANGED <<K, V, leaf, branch, block>>

(* new(capacity): the layouts have room for capacity entries, after its    *)
(* conversion to u16, and the map starts with a leaf.                      *)
NewTooSmall(capacity) ==
  /\ made = "none" /\ capacity < 4
  /\ asked' = capacity
  /\ Fail("InvalidCapacity")

CapFor(capacity) == capacity % (MaxLen + 1)

New(capacity) ==
  /\ made = "none" /\ capacity >= 4
  /\ asked' = capacity
  /\ LET L == LeafForCap(K, V, CapFor(capacity))
     IN  \/ ValidSize(L) /\ made' = "map" /\ block' = LeafBlock(L)
            /\ leaf' = L /\ branch' = BranchForCap(K, CapFor(capacity))
            /\ UNCHANGED <<K, V>>
         \/ ValidSize(L) /\ Fail("AllocationError")
         \/ ~ValidSize(L) /\ Fail("panic")

(* with_budgets divides by the size of an entry, which may be zero.        *)
WithBudgets(leafBytes, branchBytes) ==
  /\ made = "none" /\ asked' = None
  /\ IF K.size + V.size = 0
     THEN Fail("panic")
     ELSE /\ made' = "map"
          /\ leaf' = LeafForBudget(K, V, leafBytes)
          /\ branch' = BranchForBudget(K, branchBytes)
          /\ UNCHANGED <<K, V, block>>

(* saturating_mul                                                          *)
LinesToBytes(n) ==
  IF n * LineBytes > 2 * MaxBytes + 1 THEN 2 * MaxBytes + 1 ELSE n * LineBytes

WithCacheLines(leafLines, branchLines) ==
  WithBudgets(LinesToBytes(leafLines), LinesToBytes(branchLines))

(* alloc_leaf_block and alloc_branch_block, called by insert.              *)
AllocLeaf ==
  /\ made = "map" /\ ValidSize(leaf)
  /\ block' = LeafBlock(leaf)
  /\ UNCHANGED <<K, V, made, asked, leaf, branch>>

AllocBranch ==
  /\ made = "map" /\ ValidSize(branch)
  /\ block' = BranchBlock(branch)
  /\ UNCHANGED <<K, V, made, asked, leaf, branch>>

Next ==
  \/ \E c \in Capacities : NewTooSmall(c) \/ New(c)
  \/ \E b \in Budgets : WithBudgets(b[1], b[2])
  \/ \E l \in Lines : WithCacheLines(l[1], l[2])
  \/ AllocLeaf \/ AllocBranch

Spec == Init /\ [][Next]_vars

-----------------------------------------------------------------------------
(* A layout is there exactly when there is a map, its offsets are natural  *)
(* numbers and its capacities fit the u16 that the headers record.         *)
TypeOK ==
  /\ K \in Types /\ V \in Types
  /\ made \in {"none", "map", "InvalidCapacity", "AllocationError", "panic"}
  /\ asked \in Capacities \cup {None}
  /\ IF made = "map" THEN leaf \in LeafLayouts /\ branch \in BranchLayouts
                     ELSE leaf = None /\ branch = None /\ block = None
  /\ block # None =>
       \/ block = LeafBlock(leaf)
       \/ block = BranchBlock(branch)

(* The header, the sibling pointers, the keys and the values of a leaf lie *)
(* inside its block, aligned, and none overlaps another, in any map that   *)
(* has room for an item or was made by new: what carve_leaf relies on.     *)
LeavesCarved ==
  block # None /\ block.kind = "leaf" /\ (block.layout.cap >= 1 \/ asked # None)
    => Carved(block.regions, block.layout)

(* So do the header, the keys and the children of a branch, which has one  *)
(* child more than keys: what carve_branch relies on.                      *)
BranchesCarved ==
  block # None /\ block.kind = "branch" /\ (block.layout.cap >= 1 \/ asked # None)
    => Carved(block.regions, block.layout)

(* compute wastes no room: one entry more would not fit the budget, though *)
(* it counts down from a bound that ignores alignment and padding.         *)
BudgetsWellSpent ==
  made = "map" /\ asked = None =>
    /\ \A cap \in leaf.cap + 1 .. MaxLen : LeafForCap(K, V, cap).bytes > leaf.bytes
    /\ \A cap \in branch.cap + 1 .. MaxLen : BranchForCap(K, cap).bytes > branch.bytes

(* The two ways to compute a layout agree: given as a budget, the bytes of *)
(* a block of compute_for_cap have room for its capacity.                  *)
BudgetOfCapSuffices ==
  made = "map" /\ asked # None /\ K.size + V.size > 0 =>
    /\ LeafForBudget(K, V, leaf.bytes).cap >= leaf.cap
    /\ BranchForBudget(K, branch.bytes).cap >= branch.cap

(* A map made by new has room for four entries in each node: lib.rs:186    *)
(* refuses a smaller capacity.  new truncates the capacity, so it has not. *)
CapacityAtLeastFour ==
  made = "map" /\ asked # None => leaf.cap >= 4 /\ branch.cap >= 4
=============================================================================
