--------------------------- MODULE MCConstruction ---------------------------
(***************************************************************************)
(* Types, capacities and budgets for Construction.                         *)
(***************************************************************************)
EXTENDS Construction

CONSTANTS MaxCapacity, MaxBudget   \* the largest capacity and budget tried

T(size, align) == [size |-> size, align |-> align]

(* (), u8, [u8; 3], u16, u32, u64, String, u128, [u64; 8]                  *)
SomeTypes == {T(0, 1), T(1, 1), T(3, 1), T(2, 2), T(4, 4), T(8, 8), T(24, 8),
              T(16, 16), T(64, 8)}
OneType   == {T(8, 8)}

UpToMaxCapacity == 0 .. MaxCapacity
U16Edge         == {65535, 65536, 65540}

(* The two layouts are computed from one budget each, so that every budget *)
(* for leaves and every one for branches is tried, not every pair.         *)
UpToMaxBudget == {<<b, MaxBudget - b>> : b \in 0 .. MaxBudget}
SomeLines     == {<<1, 10>>, <<10, 70>>, <<70, 1>>}
=============================================================================
