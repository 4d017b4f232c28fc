---------------------------- MODULE Slots_proofs -----------------------------
(***************************************************************************)
(* No procedure that insert and remove are made of runs past the slots of  *)
(* a block, for every capacity, every fill and every call of user code     *)
(* that may panic; and what a procedure that runs to its end leaves in the *)
(* slots are the sequences that NodeOps and BPlusTree compute.             *)
(***************************************************************************)
EXTENDS Slots, NodeOps_proofs, SequenceTheorems, TLAPS

-----------------------------------------------------------------------------
(* Moves that stay in their arrays.                                        *)

FitCopies == {m \in [do : {"copy"}, from : Arrays, i : Nat, to : Arrays, j : Nat, n : Nat] :
                m.i + m.n <= Room(m.from) /\ m.j + m.n <= Room(m.to)}
FitZeros  == {m \in [do : {"zero"}, to : Arrays, j : Nat, n : Nat] : m.j + m.n <= Room(m.to)}
FitReads  == {m \in [do : {"read"}, from : Arrays, i : Nat, r : Locals, n : {1}] :
                m.i + 1 <= Room(m.from)}
FitClones == {m \in [do : {"clone"}, from : Arrays, i : Nat, r : Locals, n : {1}, at : Locals] :
                m.i + 1 <= Room(m.from)}
FitWrites == {m \in [do : {"write"}, to : Arrays, j : Nat, r : Locals, n : {1}] :
                m.j + 1 <= Room(m.to)}
FitLens   == [do : {"len"}, node : Nodes, n : 0 .. MaxCap]
FitOthers == [do : {"drop"}, r : Locals, at : Locals]
             \cup [do : {"drops"}, node : Nodes, arrays : Seq(Arrays), i : Nat, at : {"slots"}]
             \cup [do : {"free"}, node : Nodes]
             \cup [do : {"enter"}, nodes : SUBSET Nodes]
Fit == FitCopies \cup FitZeros \cup FitReads \cup FitClones \cup FitWrites
       \cup FitLens \cup FitOthers

(* The one that reads too far, and the move after it.                      *)
Far == {m \in [do : {"copy"}, from : {C("P")}, i : Nat, to : {C("P")}, j : Nat, n : Nat] :
          m.i + m.n = Room(C("P")) + 1 /\ m.j + m.n = job.p + 1 /\ job.p = job.bcap}
Cover == Zero(C("P"), job.p, 1)

Safe(s) ==
  /\ s \in Seq(Fit \cup Far)
  /\ \A i \in 1 .. Len(s) : s[i] \in Fit \/ (s[i] \in Far /\ i < Len(s) /\ s[i + 1] = Cover)

(* Moves that all fit are safe.                                            *)
LEMMA SafeFits ==
  ASSUME NEW s \in Seq(Fit)
  PROVE  Safe(s)
  <1>1. \A i \in 1 .. Len(s) : s[i] \in Fit
    OBVIOUS
  <1>2. s \in Seq(Fit \cup Far)
    OBVIOUS
  <1> QED
    BY <1>1, <1>2 DEF Safe

(* So are safe moves one after the other ...                               *)
LEMMA SafeJoin ==
  ASSUME NEW s, NEW t, Safe(s), Safe(t)
  PROVE  Safe(s \o t) /\ (s # <<>> \/ t # <<>> => s \o t # <<>>)
  <1> DEFINE M == Fit \cup Far
  <1> HIDE DEF M
  <1>1. s \in Seq(M) /\ t \in Seq(M)
    BY DEF Safe, M
  <1> PICK u : u = s \o t
    OBVIOUS
  <1>2. /\ u \in Seq(M) /\ Len(u) = Len(s) + Len(t)
        /\ Len(s) \in Nat /\ Len(t) \in Nat
        /\ \A i \in 1 .. Len(s) : u[i] = s[i]
        /\ \A i \in Len(s) + 1 .. Len(s) + Len(t) : u[i] = t[i - Len(s)]
    BY <1>1
  <1>3. ASSUME NEW i \in 1 .. Len(u)
        PROVE  u[i] \in Fit \/ (u[i] \in Far /\ i < Len(u) /\ u[i + 1] = Cover)
    <2>1. CASE i \in 1 .. Len(s)
      <3>1. s[i] \in Fit \/ (s[i] \in Far /\ i < Len(s) /\ s[i + 1] = Cover)
        BY <2>1 DEF Safe
      <3>2. i < Len(s) => i < Len(u) /\ i + 1 \in 1 .. Len(s)
        BY <1>2, <2>1
      <3> QED
        BY <1>2, <2>1, <3>1, <3>2
    <2>2. CASE i \notin 1 .. Len(s)
      <3> PICK j : j = i - Len(s)
        OBVIOUS
      <3>1. j \in 1 .. Len(t) /\ i \in Len(s) + 1 .. Len(s) + Len(t)
        BY <1>2, <2>2
      <3>2. t[j] \in Fit \/ (t[j] \in Far /\ j < Len(t) /\ t[j + 1] = Cover)
        BY <3>1 DEF Safe
      <3>3. j < Len(t) => /\ i < Len(u) /\ i + 1 \in Len(s) + 1 .. Len(s) + Len(t)
                          /\ i + 1 - Len(s) = j + 1
        BY <1>2, <3>1
      <3>4. u[i] = t[j] /\ (j < Len(t) => u[i + 1] = t[j + 1])
        BY <1>2, <3>1, <3>3
      <3> QED
        BY <3>2, <3>3, <3>4
    <2> QED
      BY <2>1, <2>2
  <1>4. s # <<>> \/ t # <<>> => u # <<>>
    BY <1>1, <1>2
  <1> QED
    BY <1>2, <1>3, <1>4 DEF Safe, M

(* ... and what is left when the first was made.                           *)
LEMMA SafeTail ==
  ASSUME NEW s, Safe(s), s # <<>>
  PROVE  Safe(Tail(s))
  <1> DEFINE M == Fit \cup Far
  <1> HIDE DEF M
  <1>1. s \in Seq(M)
    BY DEF Safe, M
  <1> PICK u : u = Tail(s)
    OBVIOUS
  <1>2. /\ u \in Seq(M) /\ Len(u) = Len(s) - 1 /\ Len(s) \in Nat \ {0}
        /\ \A i \in 1 .. Len(u) : u[i] = s[i + 1]
    BY <1>1
  <1>3. ASSUME NEW i \in 1 .. Len(u)
        PROVE  u[i] \in Fit \/ (u[i] \in Far /\ i < Len(u) /\ u[i + 1] = Cover)
    <2> PICK j : j = i + 1
      OBVIOUS
    <2>1. j \in 1 .. Len(s) /\ (j < Len(s) => i < Len(u) /\ j \in 1 .. Len(u))
      BY <1>2
    <2>2. s[j] \in Fit \/ (s[j] \in Far /\ j < Len(s) /\ s[j + 1] = Cover)
      BY <2>1 DEF Safe
    <2>3. u[i] = s[j] /\ (j < Len(s) => u[i + 1] = s[j + 1])
      BY <1>2, <2>1
    <2> QED
      BY <2>1, <2>2, <2>3
  <1> QED
    BY <1>2, <1>3 DEF Safe, M

-----------------------------------------------------------------------------
(* When a single move fits.                                                *)

LEMMA ArraysAre ==
  \A n \in Nodes : K(n) \in Arrays /\ V(n) \in Arrays /\ C(n) \in Arrays
  BY DEF K, V, C, Arrays

LEMMA NodesAre ==
  "A" \in Nodes /\ "B" \in Nodes /\ "P" \in Nodes
  BY DEF Nodes

LEMMA RoomIs ==
  ASSUME NEW n \in Nodes
  PROVE  /\ Room(C(n)) = job.bcap + 1
         /\ Room(K(n)) = IF IsLeaf(n) THEN job.lcap ELSE job.bcap
         /\ Room(V(n)) = IF IsLeaf(n) THEN job.lcap ELSE job.bcap
  BY DEF K, V, C, Room

LEMMA CopyFits ==
  ASSUME NEW a \in Arrays, NEW i \in Nat, NEW b \in Arrays, NEW j \in Nat, NEW n \in Nat,
         i + n <= Room(a), j + n <= Room(b)
  PROVE  Copy(a, i, b, j, n) \in Fit
  BY DEF Copy, Fit, FitCopies

LEMMA ZeroFits ==
  ASSUME NEW a \in Arrays, NEW j \in Nat, NEW n \in Nat, j + n <= Room(a)
  PROVE  Zero(a, j, n) \in Fit
  BY DEF Zero, Fit, FitZeros

LEMMA SlotFits ==
  ASSUME NEW a \in Arrays, NEW i \in Nat, i + 1 <= Room(a), NEW r \in Locals
  PROVE  Read(a, i, r) \in Fit /\ Clone(a, i, r) \in Fit /\ Write(a, i, r) \in Fit
  <1>1. Read(a, i, r) \in FitReads
    BY DEF Read, FitReads
  <1>2. Clone(a, i, r) \in FitClones
    BY DEF Clone, FitClones
  <1>3. Write(a, i, r) \in FitWrites
    BY DEF Write, FitWrites
  <1> QED
    BY <1>1, <1>2, <1>3 DEF Fit

LEMMA OthersFit ==
  /\ \A n \in Nodes, l \in 0 .. MaxCap : SetLen(n, l) \in Fit
  /\ \A r \in Locals : DropLocal(r) \in Fit
  /\ \A n \in Nodes, as \in Seq(Arrays), i \in Nat : DropSlots(n, as, i) \in Fit
  /\ \A n \in Nodes : Free(n) \in Fit
  /\ \A S \in SUBSET Nodes : Enter(S) \in Fit
  <1>1. \A n \in Nodes, l \in 0 .. MaxCap : SetLen(n, l) \in Fit
    BY DEF SetLen, Fit, FitLens
  <1>2. \A r \in Locals : DropLocal(r) \in Fit
    BY DEF DropLocal, Fit, FitOthers
  <1>3. \A n \in Nodes, as \in Seq(Arrays), i \in Nat : DropSlots(n, as, i) \in Fit
    BY DEF DropSlots, Fit, FitOthers
  <1>4. \A n \in Nodes : Free(n) \in Fit
    BY DEF Free, Fit, FitOthers
  <1>5. \A S \in SUBSET Nodes : Enter(S) \in Fit
    BY DEF Enter, Fit, FitOthers
  <1> QED
    BY <1>1, <1>2, <1>3, <1>4, <1>5

LEMMA LocalsAre ==
  {"key", "value", "right", "sep_key", "promote", "old", "removed_key", "removed",
   "parent_key", "borrowed_key", "borrowed_child", "new_sep", "old_sep"} = Locals
  BY DEF Locals

(* The numbers of a job.                                                   *)
LEMMA JobTypes ==
  ASSUME job \in Jobs
  PROVE  /\ job.lcap \in 1 .. MaxCap /\ job.bcap \in 1 .. MaxCap /\ MaxCap \in Nat
         /\ job.lcap \in Nat /\ job.bcap \in Nat
         /\ job.a \in 0 .. MaxCap /\ job.b \in 0 .. MaxCap /\ job.p \in 0 .. MaxCap
         /\ job.idx \in 0 .. MaxCap
         /\ job.a \in Nat /\ job.b \in Nat /\ job.p \in Nat /\ job.idx \in Nat
  BY MaxCapAssumption DEF Jobs

-----------------------------------------------------------------------------
(* Moves of keys and values of leaves.                                     *)

Leaf(n) == n \in Nodes /\ IsLeaf(n)

LEMMA LeafRooms ==
  ASSUME NEW n, Leaf(n)
  PROVE  K(n) \in Arrays /\ V(n) \in Arrays /\ Room(K(n)) = job.lcap /\ Room(V(n)) = job.lcap
  BY ArraysAre, RoomIs DEF Leaf

LEMMA CopyKVFits ==
  ASSUME NEW n, Leaf(n), NEW m, Leaf(m), NEW i \in Nat, NEW j \in Nat, NEW c \in Nat,
         i + c <= job.lcap, j + c <= job.lcap
  PROVE  CopyKV(n, i, m, j, c) \in Seq(Fit)
  <1>1. Copy(K(n), i, K(m), j, c) \in Fit /\ Copy(V(n), i, V(m), j, c) \in Fit
    BY LeafRooms, CopyFits
  <1> QED
    BY <1>1 DEF CopyKV

LEMMA ZeroKVFits ==
  ASSUME NEW n, Leaf(n), NEW i \in Nat, NEW c \in Nat, i + c <= job.lcap
  PROVE  ZeroKV(n, i, c) \in Seq(Fit)
  <1>1. Zero(K(n), i, c) \in Fit /\ Zero(V(n), i, c) \in Fit
    BY LeafRooms, ZeroFits
  <1> QED
    BY <1>1 DEF ZeroKV

(* Two sequences of fitting moves.                                         *)
LEMMA FitJoin ==
  ASSUME NEW s \in Seq(Fit), NEW t \in Seq(Fit)
  PROVE  s \o t \in Seq(Fit)
  OBVIOUS

LEMMA ShiftWriteFits ==
  ASSUME job \in Jobs, NEW n, Leaf(n), NEW idx \in Nat, NEW l \in Nat, idx <= l, l + 1 <= job.lcap
  PROVE  /\ shift_right(n, idx, l) \in Seq(Fit) /\ write_kv_at(n, idx) \in Seq(Fit)
         /\ shift_and_write(n, idx, l) \in Seq(Fit)
  <1>1. shift_right(n, idx, l) \in Seq(Fit)
    <2>1. CASE idx < l
      <3> PICK c : c = l - idx
        OBVIOUS
      <3> PICK to : to = idx + 1
        OBVIOUS
      <3>1. c \in Nat /\ to \in Nat /\ idx + c <= job.lcap /\ to + c <= job.lcap
        BY <2>1, JobTypes
      <3>2. CopyKV(n, idx, n, to, c) \in Seq(Fit)
        BY ONLY <3>1, CopyKVFits, Leaf(n), idx \in Nat
      <3> QED
        BY <2>1, <3>2 DEF shift_right
    <2>2. CASE ~(idx < l)
      BY <2>2 DEF shift_right
    <2> QED
      BY <2>1, <2>2
  <1>2. write_kv_at(n, idx) \in Seq(Fit)
    <2>1. K(n) \in Arrays /\ V(n) \in Arrays /\ Room(K(n)) = job.lcap /\ Room(V(n)) = job.lcap
      BY LeafRooms
    <2>2. idx + 1 <= job.lcap /\ "key" \in Locals /\ "value" \in Locals
      BY JobTypes, LocalsAre
    <2>3. Write(K(n), idx, "key") \in Fit /\ Write(V(n), idx, "value") \in Fit
      BY ONLY <2>1, <2>2, SlotFits, idx \in Nat
    <2> QED
      BY <2>3 DEF write_kv_at
  <1> QED
    BY <1>1, <1>2, FitJoin DEF shift_and_write

LEMMA ShiftLeftFits ==
  ASSUME job \in Jobs, NEW n, Leaf(n), NEW start \in Nat, NEW c \in Nat, start + 1 + c <= job.lcap
  PROVE  shift_left_kv(n, start, c) \in Seq(Fit)
  <1> PICK from : from = start + 1
    OBVIOUS
  <1>1. from \in Nat /\ from + c <= job.lcap /\ start + c <= job.lcap
    BY JobTypes
  <1>2. CopyKV(n, from, n, start, c) \in Seq(Fit)
    BY <1>1, CopyKVFits
  <1> QED
    BY <1>2 DEF shift_left_kv

LEMMA MoveFits ==
  ASSUME job \in Jobs, NEW n, Leaf(n), NEW m, Leaf(m), NEW i \in Nat, NEW j \in Nat,
         i + 1 <= job.lcap, j + 1 <= job.lcap
  PROVE  move_kv_at(n, i, m, j) \in Seq(Fit)
  <1>1. CopyKV(n, i, m, j, 1) \in Seq(Fit)
    BY CopyKVFits
  <1>2. ZeroKV(n, i, 1) \in Seq(Fit)
    BY ZeroKVFits
  <1> QED
    BY <1>1, <1>2, FitJoin DEF move_kv_at

-----------------------------------------------------------------------------
(* The procedures.                                                         *)

Starts(what) == job \in Jobs /\ CanStart(job) /\ job.proc = what
Sound(s) == Safe(s) /\ s # <<>>

(* Moves that all fit, of which there is one at least.                     *)
LEMMA SoundFits ==
  ASSUME NEW s \in Seq(Fit), s # <<>>
  PROVE  Sound(s)
  BY SafeFits DEF Sound

(* Some more of them before or after.                                      *)
LEMMA FitJoinSome ==
  ASSUME NEW s \in Seq(Fit), NEW t \in Seq(Fit), s # <<>> \/ t # <<>>
  PROVE  s \o t \in Seq(Fit) /\ s \o t # <<>>
  <1>1. Len(s \o t) = Len(s) + Len(t) /\ (Len(s) > 0 \/ Len(t) > 0)
    OBVIOUS
  <1> QED
    BY <1>1

OnALeaf(j) == j.proc \in OnOneLeaf \cup OnLeaves

LEMMA LeafKind ==
  ASSUME OnALeaf(job)
  PROVE  Leaf("A") /\ Leaf("B") /\ Cap(job) = job.lcap
  BY DEF Leaf, IsLeaf, Nodes, Cap, OnALeaf

LEMMA BranchKind ==
  ASSUME NEW n \in Nodes, ~OnALeaf(job) \/ n = "P"
  PROVE  /\ K(n) \in Arrays /\ C(n) \in Arrays
         /\ Room(K(n)) = job.bcap /\ Room(C(n)) = job.bcap + 1
         /\ n # "P" => Cap(job) = job.bcap
  BY RoomIs, ArraysAre DEF IsLeaf, Cap, OnALeaf

LEMMA InsertSound ==
  ASSUME Starts("insert_into_leaf_slot")
  PROVE  Sound(insert_into_leaf_slot(job))
  <1>1. job \in Jobs /\ OnALeaf(job)
    BY DEF Starts, OnALeaf, OnOneLeaf
  <1>2. job.a < Cap(job) /\ job.idx <= job.a
    BY Zenon DEF Starts, CanStart
  <1>3. job.a < job.lcap /\ job.a + 1 <= job.lcap /\ job.a + 1 \in 0 .. MaxCap
    BY <1>1, <1>2, LeafKind, JobTypes
  <1>4. shift_and_write("A", job.idx, job.a) \in Seq(Fit)
    BY <1>1, <1>2, <1>3, JobTypes, LeafKind, ShiftWriteFits
  <1>5. SetLen("A", job.a + 1) \in Fit
    BY <1>3, OthersFit, NodesAre
  <1>6. <<SetLen("A", job.a + 1)>> \in Seq(Fit) /\ <<SetLen("A", job.a + 1)>> # <<>>
    BY <1>5
  <1> QED
    BY <1>4, <1>6, FitJoinSome, SoundFits DEF insert_into_leaf_slot

LEMMA ReplaceSound ==
  ASSUME Starts("leaf_replace")
  PROVE  Sound(leaf_replace(job))
  <1>1. job \in Jobs /\ OnALeaf(job) /\ job.a <= Cap(job)
    BY DEF Starts, OnALeaf, OnOneLeaf, CanStart
  <1>2. job.idx < job.a
    BY DEF Starts, CanStart
  <1>3. job.idx + 1 <= job.lcap /\ job.idx \in Nat
    BY <1>1, <1>2, LeafKind, JobTypes
  <1>4. /\ Read(V("A"), job.idx, "old") \in Fit /\ Write(V("A"), job.idx, "value") \in Fit
        /\ DropLocal("key") \in Fit
    <2>1. V("A") \in Arrays /\ Room(V("A")) = job.lcap
      BY <1>1, LeafKind, LeafRooms
    <2>2. "old" \in Locals /\ "value" \in Locals /\ "key" \in Locals
      BY LocalsAre
    <2> QED
      BY ONLY <1>3, <2>1, <2>2, SlotFits, OthersFit
  <1>5. /\ leaf_replace(job) \in Seq(Fit) /\ leaf_replace(job) # <<>>
    BY <1>4 DEF leaf_replace
  <1> QED
    BY <1>5, SoundFits

(* The numbers of a leaf split.                                            *)
Cuts(c, idx, left, keep, moved) ==
  /\ left = (c + 1) \div 2 /\ keep = (IF idx < left THEN left - 1 ELSE left)
  /\ moved = c - keep
Cut(c, idx, left, keep, moved) ==
  /\ left \in 1 .. c /\ keep \in 0 .. c /\ moved \in 0 .. c /\ keep + moved = c
  /\ c + 1 - left \in 1 .. c
  /\ idx < left => idx <= keep /\ keep + 1 <= c
  /\ ~(idx < left) => idx - keep \in 0 .. moved /\ moved + 1 <= c

LEMMA LeafCut ==
  ASSUME NEW c \in Nat \ {0}, NEW idx \in 0 .. c, NEW left, NEW keep, NEW moved,
         Cuts(c, idx, left, keep, moved)
  PROVE  Cut(c, idx, left, keep, moved)
  <1> USE DEF Cuts, Cut
  <1>1. left \in Nat /\ 1 <= left /\ left <= c
    BY SMT
  <1>2. CASE idx < left
    <2>1. keep = left - 1 /\ moved = c - keep
      BY <1>2
    <2> QED
      BY ONLY <1>1, <1>2, <2>1, c \in Nat, idx \in 0 .. c
  <1>3. CASE ~(idx < left)
    <2>1. keep = left /\ moved = c - keep
      BY <1>3
    <2> QED
      BY ONLY <1>1, <1>3, <2>1, c \in Nat, idx \in 0 .. c
  <1> QED
    BY ONLY <1>2, <1>3

LEMMA LeafSplitSound ==
  ASSUME Starts("leaf_split")
  PROVE  Sound(leaf_split(job))
  <1>1. job \in Jobs /\ OnALeaf(job)
    BY DEF Starts, OnALeaf, OnOneLeaf
  <1>2. job.a = Cap(job) /\ job.idx <= job.a
    BY Zenon DEF Starts, CanStart
  <1> PICK left : left = (job.a + 1) \div 2
    OBVIOUS
  <1> PICK keep : keep = IF job.idx < left THEN left - 1 ELSE left
    OBVIOUS
  <1> PICK moved : moved = job.a - keep
    OBVIOUS
  <1>3. /\ job.a = job.lcap /\ job.lcap \in 1 .. MaxCap /\ MaxCap \in Nat /\ job.idx \in Nat
        /\ Leaf("A") /\ Leaf("B")
    BY <1>1, <1>2, LeafKind, JobTypes
  <1>4. /\ left \in 1 .. job.lcap /\ keep \in 0 .. job.lcap /\ moved \in 0 .. job.lcap
        /\ keep + moved = job.lcap /\ job.lcap + 1 - left \in 1 .. job.lcap
        /\ job.idx < left => job.idx <= keep /\ keep + 1 <= job.lcap
        /\ ~(job.idx < left) => job.idx - keep \in 0 .. moved /\ moved + 1 <= job.lcap
    <2>1. job.lcap \in Nat \ {0} /\ job.idx \in 0 .. job.lcap
      BY <1>2, <1>3
    <2>2. Cuts(job.lcap, job.idx, left, keep, moved)
      BY <1>3 DEF Cuts
    <2>3. Cut(job.lcap, job.idx, left, keep, moved)
      BY ONLY <2>1, <2>2, LeafCut
    <2> QED
      BY ONLY <2>3 DEF Cut
  <1>5. keep \in Nat /\ moved \in Nat /\ left \in Nat /\ job.lcap \in Nat /\ job.lcap <= MaxCap
    BY ONLY <1>3, <1>4
  <1>6. CopyKV("A", keep, "B", 0, moved) \in Seq(Fit) /\ ZeroKV("A", keep, moved) \in Seq(Fit)
    <2>1. keep + moved <= job.lcap /\ 0 + moved <= job.lcap /\ 0 \in Nat
      BY ONLY <1>4, <1>5
    <2> QED
      BY ONLY <1>3, <1>5, <2>1, CopyKVFits, ZeroKVFits
  <1> DEFINE both == IF job.idx < left
                     THEN shift_and_write("A", job.idx, keep)
                          \o <<SetLen("A", left), SetLen("B", job.a + 1 - left)>>
                     ELSE shift_and_write("B", job.idx - keep, moved)
                          \o <<SetLen("A", keep), SetLen("B", moved + 1)>>
             end == <<Enter({"A", "B"}), Clone(K("B"), 0, "sep_key")>>
  <1>7. both \in Seq(Fit)
    <2>1. CASE job.idx < left
      <3>1. job.idx <= keep /\ keep + 1 <= job.lcap
        BY ONLY <1>4, <2>1
      <3>2. shift_and_write("A", job.idx, keep) \in Seq(Fit)
        BY ONLY <1>1, <1>3, <1>5, <3>1, ShiftWriteFits
      <3>3. left \in 0 .. MaxCap /\ job.a + 1 - left \in 0 .. MaxCap
        BY ONLY <1>3, <1>4, <1>5
      <3>4. SetLen("A", left) \in Fit /\ SetLen("B", job.a + 1 - left) \in Fit
        BY ONLY <3>3, OthersFit, NodesAre
      <3>5. <<SetLen("A", left), SetLen("B", job.a + 1 - left)>> \in Seq(Fit)
        BY ONLY <3>4
      <3> QED
        BY <2>1, <3>2, <3>5, FitJoin
    <2>2. CASE ~(job.idx < left)
      <3> PICK i : i = job.idx - keep
        OBVIOUS
      <3>1. i \in 0 .. moved /\ moved + 1 <= job.lcap
        BY ONLY <1>4, <2>2, i = job.idx - keep
      <3>2. shift_and_write("B", i, moved) \in Seq(Fit)
        <4>1. i \in Nat /\ i <= moved
          BY ONLY <1>5, <3>1
        <4> QED
          BY ONLY <1>1, <1>3, <1>5, <3>1, <4>1, ShiftWriteFits
      <3>3. keep \in 0 .. MaxCap /\ moved + 1 \in 0 .. MaxCap
        BY ONLY <1>3, <1>4, <1>5, <3>1
      <3>4. SetLen("A", keep) \in Fit /\ SetLen("B", moved + 1) \in Fit
        BY ONLY <3>3, OthersFit, NodesAre
      <3>5. <<SetLen("A", keep), SetLen("B", moved + 1)>> \in Seq(Fit)
        BY ONLY <3>4
      <3> QED
        BY <2>2, <3>2, <3>5, FitJoin
    <2> QED
      BY ONLY <2>1, <2>2
  <1>8. end \in Seq(Fit) /\ end # <<>>
    <2>1. Enter({"A", "B"}) \in Fit
      BY OthersFit, NodesAre
    <2>2. Clone(K("B"), 0, "sep_key") \in Fit
      <3>1. K("B") \in Arrays /\ Room(K("B")) = job.lcap /\ 0 + 1 <= job.lcap /\ 0 \in Nat
        BY <1>3, LeafRooms
      <3>2. "sep_key" \in Locals
        BY LocalsAre
      <3> QED
        BY ONLY <3>1, <3>2, SlotFits
    <2> QED
      BY ONLY <2>1, <2>2
  <1>9. leaf_split(job) = CopyKV("A", keep, "B", 0, moved) \o ZeroKV("A", keep, moved) \o both \o end
    BY DEF leaf_split
  <1> HIDE DEF both, end
  <1>10. CopyKV("A", keep, "B", 0, moved) \o ZeroKV("A", keep, moved) \o both \in Seq(Fit)
    <2>1. CopyKV("A", keep, "B", 0, moved) \o ZeroKV("A", keep, moved) \in Seq(Fit)
      BY ONLY <1>6, FitJoin
    <2> QED
      BY ONLY <1>7, <2>1, FitJoin
  <1> QED
    BY ONLY <1>8, <1>9, <1>10, FitJoinSome, SoundFits

-----------------------------------------------------------------------------
(* Moves of keys and children of branches.                                 *)

Branch(n) == n \in Nodes /\ (~OnALeaf(job) \/ n = "P")

LEMMA KeyMoves ==
  ASSUME NEW n, Branch(n), NEW i \in Nat, NEW c \in Nat, i + c <= job.bcap
  PROVE  /\ Zero(K(n), i, c) \in Fit
         /\ \A m, j : Branch(m) /\ j \in Nat /\ j + c <= job.bcap => Copy(K(n), i, K(m), j, c) \in Fit
  BY BranchKind, CopyFits, ZeroFits DEF Branch

LEMMA ChildMoves ==
  ASSUME NEW n, Branch(n), NEW i \in Nat, NEW c \in Nat, i + c <= job.bcap + 1
  PROVE  /\ Zero(C(n), i, c) \in Fit
         /\ \A m, j : Branch(m) /\ j \in Nat /\ j + c <= job.bcap + 1 => Copy(C(n), i, C(m), j, c) \in Fit
  BY BranchKind, CopyFits, ZeroFits DEF Branch

LEMMA KeySlots ==
  ASSUME NEW n, Branch(n), NEW i \in Nat, i + 1 <= job.bcap, NEW r \in Locals
  PROVE  Read(K(n), i, r) \in Fit /\ Clone(K(n), i, r) \in Fit /\ Write(K(n), i, r) \in Fit
  BY BranchKind, SlotFits DEF Branch

LEMMA ChildSlots ==
  ASSUME NEW n, Branch(n), NEW i \in Nat, i + 1 <= job.bcap + 1, NEW r \in Locals
  PROVE  Read(C(n), i, r) \in Fit /\ Write(C(n), i, r) \in Fit
  BY BranchKind, SlotFits DEF Branch

(* The nodes of a procedure on branches, and their parent.                 *)
LEMMA BranchesAre ==
  /\ Branch("P") /\ (~OnALeaf(job) => Branch("A") /\ Branch("B") /\ Cap(job) = job.bcap)
  BY NodesAre DEF Branch, Cap, OnALeaf

LEMMA BranchInsertSound ==
  ASSUME Starts("branch_insert")
  PROVE  Sound(branch_insert(job))
  <1>1. job \in Jobs /\ ~OnALeaf(job)
    BY DEF Starts, OnALeaf, OnOneLeaf, OnLeaves
  <1>2. job.a \in 1 .. Cap(job) - 1 /\ job.idx <= job.a
    BY Zenon DEF Starts, CanStart
  <1> PICK a : a = job.a
    OBVIOUS
  <1> PICK x : x = job.idx
    OBVIOUS
  <1>3. /\ a \in Nat /\ x \in Nat /\ x <= a /\ a + 1 <= job.bcap /\ job.bcap \in Nat
        /\ Branch("A") /\ a + 1 \in 0 .. MaxCap
    BY <1>1, <1>2, BranchesAre, JobTypes
  <1>4. /\ a - x \in Nat /\ x + 1 \in Nat /\ x + 2 \in Nat
        /\ x + (a - x) <= job.bcap /\ x + 1 + (a - x) <= job.bcap /\ x + 1 <= job.bcap
        /\ x + 1 + (a - x) <= job.bcap + 1 /\ x + 2 + (a - x) <= job.bcap + 1
        /\ x + 1 + 1 <= job.bcap + 1
    BY ONLY <1>3
  <1>5. "key" \in Locals /\ "right" \in Locals
    BY LocalsAre
  <1>6. Copy(K("A"), x, K("A"), x + 1, a - x) \in Fit
    BY ONLY <1>3, <1>4, KeyMoves
  <1>7. Copy(C("A"), x + 1, C("A"), x + 2, a - x) \in Fit
    BY ONLY <1>3, <1>4, ChildMoves
  <1>8. Write(K("A"), x, "key") \in Fit /\ Write(C("A"), x + 1, "right") \in Fit
    BY ONLY <1>3, <1>4, <1>5, KeySlots, ChildSlots
  <1>9. SetLen("A", a + 1) \in Fit
    BY <1>3, OthersFit, NodesAre
  <1>10. branch_insert(job) \in Seq(Fit) /\ branch_insert(job) # <<>>
    BY <1>6, <1>7, <1>8, <1>9 DEF branch_insert
  <1> QED
    BY <1>10, SoundFits

(* The key in the middle of a full branch.                                 *)
LEMMA MiddleKey ==
  ASSUME NEW c \in Nat \ {0}
  PROVE  (c + 1) \div 2 \in 1 .. c
  BY SMT

LEMMA BranchSplitSound ==
  ASSUME Starts("branch_insert_and_split")
  PROVE  Sound(branch_insert_and_split(job))
  <1>1. job \in Jobs /\ ~OnALeaf(job)
    BY DEF Starts, OnALeaf, OnOneLeaf, OnLeaves
  <1>2. job.a = Cap(job) /\ job.idx <= job.a
    BY Zenon DEF Starts, CanStart
  <1> PICK a : a = job.a
    OBVIOUS
  <1> PICK x : x = job.idx
    OBVIOUS
  <1>3. /\ a \in Nat \ {0} /\ x \in Nat /\ x <= a /\ a = job.bcap /\ job.bcap \in Nat
        /\ Branch("A") /\ Branch("B") /\ a <= MaxCap /\ MaxCap \in Nat
    BY <1>1, <1>2, BranchesAre, JobTypes
  <1> PICK pm : pm = (a + 1) \div 2
    OBVIOUS
  <1> PICK first : first = x - pm
    OBVIOUS
  <1> PICK moved : moved = a - (pm + 1)
    OBVIOUS
  <1>4. pm \in 1 .. a
    BY <1>3, MiddleKey
  <1>5. "key" \in Locals /\ "right" \in Locals /\ "promote" \in Locals
    BY LocalsAre
  <1> DEFINE low == <<Read(K("A"), pm - 1, "promote"),
                      Copy(K("A"), pm, K("B"), 0, a - pm), Zero(K("A"), pm, a - pm),
                      SetLen("B", a - pm),
                      Copy(C("A"), pm, C("B"), 0, a + 1 - pm), Zero(C("A"), pm, a + 1 - pm),
                      Copy(K("A"), x, K("A"), x + 1, pm - 1 - x),
                      Write(K("A"), x, "key"), SetLen("A", pm),
                      Copy(C("A"), x + 1, C("A"), x + 2, pm - (x + 1)),
                      Write(C("A"), x + 1, "right")>>
             mid == <<Copy(K("A"), pm, K("B"), 0, a - pm), Zero(K("A"), pm, a - pm),
                      SetLen("B", a - pm), Write(C("B"), 0, "right"),
                      Copy(C("A"), pm + 1, C("B"), 1, a - pm), Zero(C("A"), pm + 1, a - pm),
                      SetLen("A", pm)>>
             high == <<Read(K("A"), pm, "promote"),
                       Copy(K("A"), pm + 1, K("B"), 0, moved), Zero(K("A"), pm + 1, moved),
                       SetLen("B", moved),
                       Copy(C("A"), pm + 1, C("B"), 0, first), Zero(C("A"), pm + 1, first),
                       Write(C("B"), first, "right"),
                       Copy(C("A"), x + 1, C("B"), first + 1, a - x),
                       Zero(C("A"), x + 1, a - x),
                       Copy(K("B"), first - 1, K("B"), first, moved - (first - 1)),
                       Write(K("B"), first - 1, "key"), SetLen("B", moved + 1), SetLen("A", pm)>>
  <1>6. a - pm \in 0 .. MaxCap /\ pm \in 0 .. MaxCap
    BY ONLY <1>3, <1>4
  <1>7. SetLen("B", a - pm) \in Fit /\ SetLen("A", pm) \in Fit
    BY ONLY <1>6, OthersFit, NodesAre
  <1>8. Copy(K("A"), pm, K("B"), 0, a - pm) \in Fit /\ Zero(K("A"), pm, a - pm) \in Fit
    <2>1. /\ pm \in Nat /\ 0 \in Nat /\ a - pm \in Nat
          /\ pm + (a - pm) <= job.bcap /\ 0 + (a - pm) <= job.bcap
      BY ONLY <1>3, <1>4
    <2> QED
      BY ONLY <1>3, <2>1, KeyMoves
  <1>9. ASSUME x < pm  PROVE low \in Seq(Fit)
    <2>1. /\ pm - 1 \in Nat /\ pm - 1 + 1 <= job.bcap /\ x + 1 <= job.bcap
          /\ pm \in Nat /\ a + 1 - pm \in Nat /\ pm + (a + 1 - pm) <= job.bcap + 1
          /\ 0 \in Nat /\ 0 + (a + 1 - pm) <= job.bcap + 1
          /\ pm - 1 - x \in Nat /\ x + 1 \in Nat /\ x + 2 \in Nat
          /\ x + (pm - 1 - x) <= job.bcap /\ x + 1 + (pm - 1 - x) <= job.bcap
          /\ pm - (x + 1) \in Nat /\ x + 1 + (pm - (x + 1)) <= job.bcap + 1
          /\ x + 2 + (pm - (x + 1)) <= job.bcap + 1 /\ x + 1 + 1 <= job.bcap + 1
      BY ONLY <1>3, <1>4, <1>9
    <2>2. Read(K("A"), pm - 1, "promote") \in Fit /\ Write(K("A"), x, "key") \in Fit
      BY ONLY <1>3, <1>5, <2>1, KeySlots
    <2>3. Write(C("A"), x + 1, "right") \in Fit
      BY ONLY <1>3, <1>5, <2>1, ChildSlots
    <2>4. /\ Copy(C("A"), pm, C("B"), 0, a + 1 - pm) \in Fit
          /\ Zero(C("A"), pm, a + 1 - pm) \in Fit
          /\ Copy(C("A"), x + 1, C("A"), x + 2, pm - (x + 1)) \in Fit
      BY ONLY <1>3, <2>1, ChildMoves
    <2>5. Copy(K("A"), x, K("A"), x + 1, pm - 1 - x) \in Fit
      BY ONLY <1>3, <2>1, KeyMoves
    <2> QED
      BY ONLY <1>7, <1>8, <2>2, <2>3, <2>4, <2>5
  <1>10. mid \in Seq(Fit)
    <2>1. /\ pm + 1 \in Nat /\ a - pm \in Nat /\ pm + 1 + (a - pm) <= job.bcap + 1
          /\ 0 \in Nat /\ 0 + 1 <= job.bcap + 1 /\ 1 \in Nat /\ 1 + (a - pm) <= job.bcap + 1
      BY ONLY <1>3, <1>4
    <2>2. Write(C("B"), 0, "right") \in Fit
      BY ONLY <1>3, <1>5, <2>1, ChildSlots
    <2>3. /\ Copy(C("A"), pm + 1, C("B"), 1, a - pm) \in Fit
          /\ Zero(C("A"), pm + 1, a - pm) \in Fit
      BY ONLY <1>3, <2>1, ChildMoves
    <2> QED
      BY ONLY <1>7, <1>8, <2>2, <2>3
  <1>11. ASSUME x > pm  PROVE high \in Seq(Fit)
    <2>1. /\ first \in Nat /\ first >= 1 /\ moved \in Nat /\ first - 1 \in Nat
          /\ moved = a - pm - 1 /\ first = x - pm
      BY ONLY <1>3, <1>4, <1>11, first = x - pm, moved = a - (pm + 1)
    <2>2. /\ pm \in Nat /\ pm + 1 <= job.bcap /\ pm + 1 \in Nat
          /\ pm + 1 + moved <= job.bcap /\ 0 \in Nat /\ 0 + moved <= job.bcap
          /\ pm + 1 + first <= job.bcap + 1 /\ 0 + first <= job.bcap + 1
          /\ first + 1 <= job.bcap + 1 /\ first + 1 \in Nat /\ x + 1 \in Nat /\ a - x \in Nat
          /\ x + 1 + (a - x) <= job.bcap + 1 /\ first + 1 + (a - x) <= job.bcap + 1
          /\ moved - (first - 1) \in Nat /\ first - 1 + (moved - (first - 1)) <= job.bcap
          /\ first + (moved - (first - 1)) <= job.bcap /\ first - 1 + 1 <= job.bcap
          /\ moved \in 0 .. MaxCap /\ moved + 1 \in 0 .. MaxCap
      BY ONLY <1>3, <1>4, <1>11, <2>1
    <2>3. Read(K("A"), pm, "promote") \in Fit /\ Write(K("B"), first - 1, "key") \in Fit
      BY ONLY <1>3, <1>5, <2>1, <2>2, KeySlots
    <2>4. Write(C("B"), first, "right") \in Fit
      BY ONLY <1>3, <1>5, <2>1, <2>2, ChildSlots
    <2>5. /\ Copy(K("A"), pm + 1, K("B"), 0, moved) \in Fit /\ Zero(K("A"), pm + 1, moved) \in Fit
          /\ Copy(K("B"), first - 1, K("B"), first, moved - (first - 1)) \in Fit
      BY ONLY <1>3, <2>1, <2>2, KeyMoves
    <2>6. /\ Copy(C("A"), pm + 1, C("B"), 0, first) \in Fit /\ Zero(C("A"), pm + 1, first) \in Fit
          /\ Copy(C("A"), x + 1, C("B"), first + 1, a - x) \in Fit
          /\ Zero(C("A"), x + 1, a - x) \in Fit
      BY ONLY <1>3, <2>1, <2>2, ChildMoves
    <2>7. SetLen("B", moved) \in Fit /\ SetLen("B", moved + 1) \in Fit
      BY ONLY <2>2, OthersFit, NodesAre
    <2> QED
      BY ONLY <1>7, <2>3, <2>4, <2>5, <2>6, <2>7
  <1>12. Enter({"A", "B"}) \in Fit
    BY OthersFit, NodesAre
  <1>13. <<Enter({"A", "B"})>> \in Seq(Fit) /\ <<Enter({"A", "B"})>> # <<>>
    BY ONLY <1>12
  <1> DEFINE it == CASE x < pm -> low [] x = pm -> mid [] x > pm -> high
  <1>14. branch_insert_and_split(job) = it \o <<Enter({"A", "B"})>>
    BY DEF branch_insert_and_split
  <1> HIDE DEF low, mid, high
  <1>15. it \in Seq(Fit)
    <2>1. x < pm \/ x = pm \/ x > pm
      BY ONLY <1>3, <1>4
    <2>2. x \in Int /\ pm \in Int
      BY ONLY <1>3, <1>4
    <2> QED
      BY ONLY <1>9, <1>10, <1>11, <2>1, <2>2
  <1> HIDE DEF it
  <1> QED
    BY ONLY <1>13, <1>14, <1>15, FitJoinSome, SoundFits

LEMMA RemoveSound ==
  ASSUME Starts("leaf_remove")
  PROVE  Sound(leaf_remove(job))
  <1>1. job \in Jobs /\ OnALeaf(job) /\ job.a <= Cap(job)
    BY DEF Starts, OnALeaf, OnOneLeaf, CanStart
  <1>2. job.idx < job.a
    BY DEF Starts, CanStart
  <1> PICK a : a = job.a
    OBVIOUS
  <1> PICK x : x = job.idx
    OBVIOUS
  <1>3. /\ a \in Nat /\ x \in Nat /\ x < a /\ a <= job.lcap /\ job.lcap \in Nat
        /\ Leaf("A") /\ a - 1 \in 0 .. MaxCap /\ x + 1 <= job.lcap
    BY <1>1, <1>2, LeafKind, JobTypes
  <1>4. Read(K("A"), x, "removed_key") \in Fit /\ Read(V("A"), x, "value") \in Fit
    <2>1. /\ K("A") \in Arrays /\ V("A") \in Arrays
          /\ Room(K("A")) = job.lcap /\ Room(V("A")) = job.lcap
      BY <1>3, LeafRooms
    <2>2. "removed_key" \in Locals /\ "value" \in Locals
      BY LocalsAre
    <2> QED
      BY ONLY <1>3, <2>1, <2>2, SlotFits
  <1>5. shift_left_kv("A", x, a - x - 1) \in Seq(Fit)
    <2>1. a - x - 1 \in Nat /\ x + 1 + (a - x - 1) <= job.lcap
      BY ONLY <1>3
    <2> QED
      BY ONLY <1>1, <1>3, <2>1, ShiftLeftFits
  <1>6. SetLen("A", a - 1) \in Fit /\ DropLocal("removed_key") \in Fit
    BY <1>3, OthersFit, NodesAre, LocalsAre
  <1> DEFINE first == <<Read(K("A"), x, "removed_key"), Read(V("A"), x, "value")>>
             last  == <<SetLen("A", a - 1), DropLocal("removed_key")>>
  <1>7. first \in Seq(Fit) /\ last \in Seq(Fit) /\ last # <<>>
    BY ONLY <1>4, <1>6
  <1>8. leaf_remove(job) = first \o shift_left_kv("A", x, a - x - 1) \o last
    BY DEF leaf_remove
  <1> HIDE DEF first, last
  <1>9. first \o shift_left_kv("A", x, a - x - 1) \in Seq(Fit)
    BY ONLY <1>5, <1>7, FitJoin
  <1> QED
    BY ONLY <1>7, <1>8, <1>9, FitJoinSome, SoundFits

-----------------------------------------------------------------------------
(* Two siblings and their parent.                                          *)

(* The numbers of a procedure on siblings.                                 *)
LEMMA SiblingNumbers ==
  ASSUME job \in Jobs, CanStart(job), job.proc \in OnLeaves \cup OnBranches
  PROVE  /\ job.p \in 1 .. job.bcap /\ job.idx < job.p /\ job.idx + 1 <= job.bcap
         /\ job.p <= job.bcap
         /\ job.a <= Cap(job) /\ job.b <= Cap(job) /\ Cap(job) \in Nat \ {0}
         /\ Cap(job) <= MaxCap /\ MinLen(job) \in Nat
         /\ job.proc \in OnLeaves => 2 * MinLen(job) <= Cap(job)
  <1>1. job.p \in 1 .. job.bcap /\ job.idx < job.p /\ job.a <= Cap(job) /\ job.b <= Cap(job)
    BY DEF CanStart
  <1>2. Cap(job) \in Nat \ {0} /\ Cap(job) <= MaxCap
    BY JobTypes DEF Cap
  <1>3. \A c \in Nat : c \div 2 \in Nat /\ 2 * (c \div 2) <= c
    BY SMT
  <1>4. MinLen(job) \in Nat /\ (job.proc \in OnLeaves => MinLen(job) = Cap(job) \div 2)
    BY <1>2, <1>3 DEF MinLen
  <1>5. job.proc \in OnLeaves => 2 * MinLen(job) <= Cap(job)
    BY <1>2, <1>3, <1>4
  <1> QED
    BY <1>1, <1>2, <1>4, <1>5, JobTypes

(* replace_sep between leaves.                                             *)
LEMMA ReplaceSepFits ==
  ASSUME job \in Jobs, CanStart(job), job.proc \in OnLeaves
  PROVE  replace_sep(job) \in Seq(Fit) /\ replace_sep(job) # <<>>
  <1>1. OnALeaf(job) /\ Leaf("B") /\ job.lcap \in 1 .. MaxCap /\ MaxCap \in Nat
    BY LeafKind, JobTypes DEF OnALeaf
  <1>2. "new_sep" \in Locals /\ "old_sep" \in Locals
    BY LocalsAre
  <1>3. Clone(K("B"), 0, "new_sep") \in Fit
    <2>1. K("B") \in Arrays /\ Room(K("B")) = job.lcap /\ 0 + 1 <= job.lcap /\ 0 \in Nat
      BY <1>1, LeafRooms
    <2> QED
      BY ONLY <1>2, <2>1, SlotFits
  <1>4. Branch("P") /\ job.idx \in Nat /\ job.idx + 1 <= job.bcap
    BY BranchesAre, SiblingNumbers, JobTypes
  <1>5. Read(K("P"), job.idx, "old_sep") \in Fit /\ Write(K("P"), job.idx, "new_sep") \in Fit
    BY ONLY <1>2, <1>4, KeySlots
  <1>6. DropLocal("old_sep") \in Fit
    BY <1>2, OthersFit
  <1> QED
    BY <1>3, <1>5, <1>6 DEF replace_sep

LEMMA BorrowLeftLeafSound ==
  ASSUME Starts("borrow_from_left_leaf")
  PROVE  Sound(borrow_from_left_leaf(job))
  <1>1. job \in Jobs /\ CanStart(job) /\ job.proc \in OnLeaves /\ OnALeaf(job)
    BY DEF Starts, OnALeaf, OnLeaves
  <1>2. job.a > MinLen(job) /\ job.b = MinLen(job) - 1
    BY DEF Starts, CanStart
  <1> PICK a : a = job.a
    OBVIOUS
  <1> PICK b : b = job.b
    OBVIOUS
  <1>3. /\ a \in Nat /\ b \in Nat /\ b + 1 <= job.lcap /\ a <= job.lcap /\ a > 0
        /\ job.lcap \in Nat /\ Leaf("A") /\ Leaf("B")
        /\ a - 1 \in 0 .. MaxCap /\ b + 1 \in 0 .. MaxCap
    BY <1>1, <1>2, SiblingNumbers, LeafKind, JobTypes
  <1>4. /\ 0 \in Nat /\ 0 <= b /\ a - 1 \in Nat /\ a - 1 + 1 <= job.lcap /\ 0 + 1 <= job.lcap
    BY ONLY <1>3
  <1>5. shift_right("B", 0, b) \in Seq(Fit)
    BY ONLY <1>1, <1>3, <1>4, ShiftWriteFits
  <1>6. move_kv_at("A", a - 1, "B", 0) \in Seq(Fit)
    BY ONLY <1>1, <1>3, <1>4, MoveFits
  <1>7. SetLen("A", a - 1) \in Fit /\ SetLen("B", b + 1) \in Fit
    BY ONLY <1>3, OthersFit, NodesAre
  <1>8. <<SetLen("A", a - 1), SetLen("B", b + 1)>> \in Seq(Fit)
    BY ONLY <1>7
  <1>9. replace_sep(job) \in Seq(Fit) /\ replace_sep(job) # <<>>
    BY <1>1, ReplaceSepFits
  <1>10. borrow_from_left_leaf(job) =
           shift_right("B", 0, b) \o move_kv_at("A", a - 1, "B", 0)
           \o <<SetLen("A", a - 1), SetLen("B", b + 1)>> \o replace_sep(job)
    BY DEF borrow_from_left_leaf
  <1>11. shift_right("B", 0, b) \o move_kv_at("A", a - 1, "B", 0) \in Seq(Fit)
    BY ONLY <1>5, <1>6, FitJoin
  <1>12. shift_right("B", 0, b) \o move_kv_at("A", a - 1, "B", 0)
           \o <<SetLen("A", a - 1), SetLen("B", b + 1)>> \in Seq(Fit)
    BY ONLY <1>8, <1>11, FitJoin
  <1> QED
    BY ONLY <1>9, <1>10, <1>12, FitJoinSome, SoundFits

LEMMA BorrowRightLeafSound ==
  ASSUME Starts("borrow_from_right_leaf")
  PROVE  Sound(borrow_from_right_leaf(job))
  <1>1. job \in Jobs /\ CanStart(job) /\ job.proc \in OnLeaves /\ OnALeaf(job)
    BY DEF Starts, OnALeaf, OnLeaves
  <1>2. job.a = MinLen(job) - 1 /\ job.b > MinLen(job)
    BY DEF Starts, CanStart
  <1> PICK a : a = job.a
    OBVIOUS
  <1> PICK b : b = job.b
    OBVIOUS
  <1>3. /\ a \in Nat /\ b \in Nat /\ a + 1 <= job.lcap /\ b <= job.lcap /\ b > 0
        /\ job.lcap \in Nat /\ Leaf("A") /\ Leaf("B")
        /\ b - 1 \in 0 .. MaxCap /\ a + 1 \in 0 .. MaxCap
    BY <1>1, <1>2, SiblingNumbers, LeafKind, JobTypes
  <1>4. /\ 0 \in Nat /\ 1 \in Nat /\ b - 1 \in Nat /\ b - 1 + 1 <= job.lcap /\ 0 + 1 <= job.lcap
        /\ 0 + 1 + (b - 1) <= job.lcap
    BY ONLY <1>3
  <1>5. move_kv_at("B", 0, "A", a) \in Seq(Fit)
    BY ONLY <1>1, <1>3, <1>4, MoveFits
  <1>6. SetLen("A", a + 1) \in Fit /\ SetLen("B", b - 1) \in Fit
    BY ONLY <1>3, OthersFit, NodesAre
  <1>7. <<SetLen("A", a + 1)>> \in Seq(Fit) /\ <<SetLen("B", b - 1)>> \in Seq(Fit)
    BY ONLY <1>6
  <1> DEFINE rest == IF b > 1 THEN shift_left_kv("B", 0, b - 1) \o ZeroKV("B", b - 1, 1) ELSE <<>>
  <1>8. rest \in Seq(Fit)
    <2>1. shift_left_kv("B", 0, b - 1) \in Seq(Fit)
      BY ONLY <1>1, <1>3, <1>4, ShiftLeftFits
    <2>2. ZeroKV("B", b - 1, 1) \in Seq(Fit)
      BY ONLY <1>3, <1>4, ZeroKVFits
    <2>3. shift_left_kv("B", 0, b - 1) \o ZeroKV("B", b - 1, 1) \in Seq(Fit) /\ <<>> \in Seq(Fit)
      BY ONLY <2>1, <2>2, FitJoin
    <2> QED
      BY ONLY <2>3
  <1>9. replace_sep(job) \in Seq(Fit) /\ replace_sep(job) # <<>>
    BY <1>1, ReplaceSepFits
  <1> DEFINE s1 == move_kv_at("B", 0, "A", a) \o <<SetLen("A", a + 1)>>
             s2 == s1 \o rest
             s3 == s2 \o <<SetLen("B", b - 1)>>
  <1>10. borrow_from_right_leaf(job) = s3 \o replace_sep(job)
    BY DEF borrow_from_right_leaf
  <1>11. s1 \in Seq(Fit)
    BY ONLY <1>5, <1>7, FitJoin
  <1> HIDE DEF rest, s1
  <1>12. s2 \in Seq(Fit)
    BY ONLY <1>8, <1>11, FitJoin
  <1> HIDE DEF s2
  <1>13. s3 \in Seq(Fit)
    BY ONLY <1>7, <1>12, FitJoin
  <1> HIDE DEF s3
  <1> QED
    BY ONLY <1>9, <1>10, <1>13, FitJoinSome, SoundFits

LEMMA BorrowLeftBranchSound ==
  ASSUME Starts("borrow_from_left_branch")
  PROVE  Sound(borrow_from_left_branch(job))
  <1>1. job \in Jobs /\ CanStart(job) /\ job.proc \in OnLeaves \cup OnBranches /\ ~OnALeaf(job)
    BY DEF Starts, OnALeaf, OnLeaves, OnOneLeaf, OnBranches
  <1>2. job.a > MinLen(job) /\ job.b = MinLen(job) - 1
    BY DEF Starts, CanStart
  <1> PICK a : a = job.a
    OBVIOUS
  <1> PICK b : b = job.b
    OBVIOUS
  <1> PICK x : x = job.idx
    OBVIOUS
  <1>3. /\ a \in Nat /\ b \in Nat /\ x \in Nat /\ b + 1 <= job.bcap /\ a <= job.bcap /\ a > 0
        /\ x + 1 <= job.bcap /\ job.bcap \in Nat
        /\ Branch("A") /\ Branch("B") /\ Branch("P")
        /\ a - 1 \in 0 .. MaxCap /\ b + 1 \in 0 .. MaxCap
    BY <1>1, <1>2, SiblingNumbers, BranchesAre, JobTypes
  <1>4. /\ 0 \in Nat /\ 1 \in Nat /\ a - 1 \in Nat /\ a - 1 + 1 <= job.bcap
        /\ a + 1 <= job.bcap + 1 /\ 0 + b <= job.bcap /\ 1 + b <= job.bcap /\ b + 1 \in Nat
        /\ 0 + (b + 1) <= job.bcap + 1 /\ 1 + (b + 1) <= job.bcap + 1
        /\ 0 + 1 <= job.bcap /\ 0 + 1 <= job.bcap + 1
    BY ONLY <1>3
  <1>5. "parent_key" \in Locals /\ "borrowed_key" \in Locals /\ "borrowed_child" \in Locals
    BY LocalsAre
  <1>6. /\ Read(K("P"), x, "parent_key") \in Fit /\ Read(K("A"), a - 1, "borrowed_key") \in Fit
        /\ Write(K("B"), 0, "parent_key") \in Fit /\ Write(K("P"), x, "borrowed_key") \in Fit
    BY ONLY <1>3, <1>4, <1>5, KeySlots
  <1>7. Read(C("A"), a, "borrowed_child") \in Fit /\ Write(C("B"), 0, "borrowed_child") \in Fit
    BY ONLY <1>3, <1>4, <1>5, ChildSlots
  <1>8. Zero(K("A"), a - 1, 1) \in Fit /\ Copy(K("B"), 0, K("B"), 1, b) \in Fit
    BY ONLY <1>3, <1>4, KeyMoves
  <1>9. Zero(C("A"), a, 1) \in Fit /\ Copy(C("B"), 0, C("B"), 1, b + 1) \in Fit
    BY ONLY <1>3, <1>4, ChildMoves
  <1>10. SetLen("A", a - 1) \in Fit /\ SetLen("B", b + 1) \in Fit
    BY ONLY <1>3, OthersFit, NodesAre
  <1>11. borrow_from_left_branch(job) \in Seq(Fit) /\ borrow_from_left_branch(job) # <<>>
    BY <1>6, <1>7, <1>8, <1>9, <1>10 DEF borrow_from_left_branch
  <1> QED
    BY <1>11, SoundFits

LEMMA BorrowRightBranchSound ==
  ASSUME Starts("borrow_from_right_branch")
  PROVE  Sound(borrow_from_right_branch(job))
  <1>1. job \in Jobs /\ CanStart(job) /\ job.proc \in OnLeaves \cup OnBranches /\ ~OnALeaf(job)
    BY DEF Starts, OnALeaf, OnLeaves, OnOneLeaf, OnBranches
  <1>2. job.a = MinLen(job) - 1 /\ job.b > MinLen(job)
    BY DEF Starts, CanStart
  <1> PICK a : a = job.a
    OBVIOUS
  <1> PICK b : b = job.b
    OBVIOUS
  <1> PICK x : x = job.idx
    OBVIOUS
  <1>3. /\ a \in Nat /\ b \in Nat /\ x \in Nat /\ a + 1 <= job.bcap /\ b <= job.bcap /\ b > 0
        /\ x + 1 <= job.bcap /\ job.bcap \in Nat
        /\ Branch("A") /\ Branch("B") /\ Branch("P")
        /\ b - 1 \in 0 .. MaxCap /\ a + 1 \in 0 .. MaxCap
    BY <1>1, <1>2, SiblingNumbers, BranchesAre, JobTypes
  <1>4. /\ 0 \in Nat /\ 1 \in Nat /\ b - 1 \in Nat /\ b - 1 + 1 <= job.bcap /\ a + 1 \in Nat
        /\ a + 1 + 1 <= job.bcap + 1 /\ 1 + (b - 1) <= job.bcap /\ 0 + (b - 1) <= job.bcap
        /\ 1 + b <= job.bcap + 1 /\ 0 + b <= job.bcap + 1 /\ b + 1 <= job.bcap + 1
        /\ 0 + 1 <= job.bcap /\ 0 + 1 <= job.bcap + 1
    BY ONLY <1>3
  <1>5. "parent_key" \in Locals /\ "new_sep" \in Locals /\ "borrowed_child" \in Locals
    BY LocalsAre
  <1>6. /\ Read(K("P"), x, "parent_key") \in Fit /\ Read(K("B"), 0, "new_sep") \in Fit
        /\ Write(K("A"), a, "parent_key") \in Fit /\ Write(K("P"), x, "new_sep") \in Fit
    BY ONLY <1>3, <1>4, <1>5, KeySlots
  <1>7. Read(C("B"), 0, "borrowed_child") \in Fit /\ Write(C("A"), a + 1, "borrowed_child") \in Fit
    BY ONLY <1>3, <1>4, <1>5, ChildSlots
  <1>8. /\ Zero(K("B"), 0, 1) \in Fit /\ Copy(K("B"), 1, K("B"), 0, b - 1) \in Fit
        /\ Zero(K("B"), b - 1, 1) \in Fit
    BY ONLY <1>3, <1>4, KeyMoves
  <1>9. Copy(C("B"), 1, C("B"), 0, b) \in Fit /\ Zero(C("B"), b, 1) \in Fit
    BY ONLY <1>3, <1>4, ChildMoves
  <1>10. SetLen("B", b - 1) \in Fit /\ SetLen("A", a + 1) \in Fit
    BY ONLY <1>3, OthersFit, NodesAre
  <1> DEFINE first == <<Read(K("P"), x, "parent_key"), Read(K("B"), 0, "new_sep"),
                        Zero(K("B"), 0, 1), Read(C("B"), 0, "borrowed_child"),
                        Write(K("A"), a, "parent_key"),
                        Write(C("A"), a + 1, "borrowed_child"), SetLen("A", a + 1)>>
             two  == <<Copy(K("B"), 1, K("B"), 0, b - 1), Zero(K("B"), b - 1, 1)>>
             rest == IF b > 1 THEN two ELSE <<>>
             last == <<Copy(C("B"), 1, C("B"), 0, b), Zero(C("B"), b, 1),
                       SetLen("B", b - 1), Write(K("P"), x, "new_sep")>>
  <1>11. first \in Seq(Fit)
    BY ONLY <1>6, <1>7, <1>8, <1>10
  <1>12. two \in Seq(Fit) /\ <<>> \in Seq(Fit)
    BY ONLY <1>8
  <1>13. last \in Seq(Fit) /\ last # <<>>
    BY ONLY <1>6, <1>9, <1>10
  <1>14. borrow_from_right_branch(job) = first \o rest \o last
    BY DEF borrow_from_right_branch
  <1> HIDE DEF first, two, last
  <1>15. rest \in Seq(Fit)
    BY ONLY <1>12
  <1> HIDE DEF rest
  <1>16. first \o rest \in Seq(Fit)
    BY ONLY <1>11, <1>15, FitJoin
  <1> QED
    BY ONLY <1>13, <1>14, <1>16, FitJoinSome, SoundFits

(* An entry leaves the parent.  From a full one the children are moved     *)
(* with the one pointer too many, which is overwritten at once.            *)
LEMMA CloseGapSound ==
  ASSUME job \in Jobs, CanStart(job), job.proc \in OnLeaves \cup OnBranches
  PROVE  Sound(close_gap(job))
  <1> PICK p : p = job.p
    OBVIOUS
  <1> PICK x : x = job.idx
    OBVIOUS
  <1>1. /\ p \in Nat /\ x \in Nat /\ x < p /\ p <= job.bcap /\ job.bcap \in Nat
        /\ Branch("P") /\ p - 1 \in 0 .. MaxCap
    BY SiblingNumbers, BranchesAre, JobTypes
  <1>2. /\ x + 1 \in Nat /\ p - x - 1 \in Nat /\ x + 1 + (p - x - 1) <= job.bcap
        /\ x + (p - x - 1) <= job.bcap
        /\ x + 2 \in Nat /\ p - x \in Nat /\ x + 1 + (p - x) <= job.bcap + 1
        /\ p < job.bcap => x + 2 + (p - x) <= job.bcap + 1
        /\ ~(p < job.bcap) => /\ p = job.bcap /\ x + 2 + (p - x) = job.bcap + 1 + 1
                              /\ x + 1 + (p - x) = p + 1
        /\ 1 \in Nat /\ p + 1 <= job.bcap + 1
    BY ONLY <1>1
  <1> DEFINE keys == Copy(K("P"), x + 1, K("P"), x, p - x - 1)
             kids == Copy(C("P"), x + 2, C("P"), x + 1, p - x)
             zero == Zero(C("P"), p, 1)
             slen == SetLen("P", p - 1)
  <1>3. keys \in Fit
    BY ONLY <1>1, <1>2, KeyMoves
  <1>4. zero \in Fit
    BY ONLY <1>1, <1>2, ChildMoves
  <1>5. slen \in Fit
    BY ONLY <1>1, OthersFit, NodesAre
  <1>6. kids \in Fit \/ (kids \in Far /\ zero = Cover)
    <2>1. CASE p < job.bcap
      <3>1. kids \in Fit
        BY ONLY <1>1, <1>2, <2>1, ChildMoves
      <3> QED
        BY <3>1
    <2>2. CASE ~(p < job.bcap)
      <3>1. p = job.bcap /\ x + 2 + (p - x) = job.bcap + 1 + 1 /\ x + 1 + (p - x) = p + 1
        BY ONLY <1>2, <2>2
      <3>2. C("P") \in Arrays /\ Room(C("P")) = job.bcap + 1
        BY BranchKind, NodesAre
      <3>3. x + 2 + (p - x) = Room(C("P")) + 1 /\ x + 1 + (p - x) = job.p + 1 /\ job.p = job.bcap
        BY ONLY <3>1, <3>2, p = job.p
      <3>4. kids \in Far
        BY <1>2, <3>2, <3>3 DEF Far, Copy
      <3>5. zero = Cover
        BY DEF Cover
      <3> QED
        BY <3>4, <3>5
    <2> QED
      BY ONLY <2>1, <2>2
  <1>7. close_gap(job) = <<keys, kids, zero, slen>>
    BY DEF close_gap
  <1> HIDE DEF keys, kids, zero, slen
  <1> PICK s : s = <<keys, kids, zero, slen>>
    OBVIOUS
  <1>8. Len(s) = 4 /\ s[1] = keys /\ s[2] = kids /\ s[3] = zero /\ s[4] = slen /\ s # <<>>
    OBVIOUS
  <1>9. s \in Seq(Fit \cup Far)
    BY ONLY <1>3, <1>4, <1>5, <1>6, s = <<keys, kids, zero, slen>>
  <1>10. ASSUME NEW i \in 1 .. Len(s)
         PROVE  s[i] \in Fit \/ (s[i] \in Far /\ i < Len(s) /\ s[i + 1] = Cover)
    <2>1. i = 1 \/ i = 2 \/ i = 3 \/ i = 4
      BY ONLY <1>8, i \in 1 .. Len(s)
    <2>2. CASE i = 2
      BY ONLY <1>6, <1>8, <2>2
    <2>3. CASE i # 2
      BY ONLY <1>3, <1>4, <1>5, <1>8, <2>1, <2>3
    <2> QED
      BY ONLY <2>2, <2>3
  <1> QED
    BY ONLY <1>7, <1>8, <1>9, <1>10, s = <<keys, kids, zero, slen>> DEF Sound, Safe

LEMMA SoundJoin ==
  ASSUME NEW s \in Seq(Fit), NEW t, Sound(t)
  PROVE  Sound(s \o t)
  BY SafeFits, SafeJoin DEF Sound

LEMMA RemoveEntrySound ==
  ASSUME job \in Jobs, CanStart(job), job.proc \in OnLeaves \cup OnBranches
  PROVE  Sound(remove_branch_entry(job)) /\ Sound(collapse_branch_entry(job))
  <1>1. Branch("P") /\ job.idx \in Nat /\ job.idx + 1 <= job.bcap /\ "removed" \in Locals
    BY BranchesAre, SiblingNumbers, JobTypes, LocalsAre
  <1>2. Read(K("P"), job.idx, "removed") \in Fit
    BY ONLY <1>1, KeySlots
  <1>3. DropLocal("removed") \in Fit
    BY <1>1, OthersFit
  <1>4. <<Read(K("P"), job.idx, "removed"), DropLocal("removed")>> \in Seq(Fit)
    BY ONLY <1>2, <1>3
  <1> QED
    BY <1>4, CloseGapSound, SoundJoin DEF remove_branch_entry, collapse_branch_entry

(* Two leaves that fit one.                                                *)
LEMMA MergeLeafIntoFits ==
  ASSUME job \in Jobs, CanStart(job), job.proc \in OnLeaves, job.a + job.b <= Cap(job)
  PROVE  merge_leaf_into(job) \in Seq(Fit)
  <1> PICK a : a = job.a
    OBVIOUS
  <1> PICK b : b = job.b
    OBVIOUS
  <1>1. /\ a \in Nat /\ b \in Nat /\ a + b <= job.lcap /\ job.lcap \in Nat
        /\ job.lcap <= MaxCap /\ MaxCap \in Nat /\ Leaf("A") /\ Leaf("B")
    BY LeafKind, JobTypes DEF OnALeaf
  <1>2. 0 \in Nat /\ 0 + b <= job.lcap /\ a + b \in 0 .. MaxCap /\ 0 \in 0 .. MaxCap
    BY ONLY <1>1
  <1>3. CopyKV("B", 0, "A", a, b) \in Seq(Fit)
    BY ONLY <1>1, <1>2, CopyKVFits
  <1>4. SetLen("A", a + b) \in Fit /\ SetLen("B", 0) \in Fit
    BY ONLY <1>2, OthersFit, NodesAre
  <1>5. <<SetLen("A", a + b), SetLen("B", 0)>> \in Seq(Fit)
    BY ONLY <1>4
  <1> QED
    BY <1>3, <1>5, FitJoin DEF merge_leaf_into

LEMMA FreeBranchFits ==
  ASSUME NEW n \in Nodes
  PROVE  free_branch_node(n) \in Seq(Fit) /\ free_branch_node(n) # <<>>
  <1>1. K(n) \in Arrays
    BY ArraysAre
  <1>2. <<K(n)>> \in Seq(Arrays) /\ 0 \in Nat
    BY <1>1
  <1>3. DropSlots(n, <<K(n)>>, 0) \in Fit /\ Free(n) \in Fit
    BY <1>2, OthersFit
  <1> QED
    BY <1>3 DEF free_branch_node

LEMMA MergeLeavesSound ==
  ASSUME Starts("merge_leaves")
  PROVE  Sound(merge_leaves(job))
  <1>1. job \in Jobs /\ CanStart(job) /\ job.proc \in OnLeaves
    BY DEF Starts, OnLeaves
  <1>2. {job.a, job.b} = {MinLen(job) - 1, MinLen(job)}
    BY DEF Starts, CanStart
  <1>3. job.a + job.b <= Cap(job)
    <2> PICK m : m = MinLen(job)
      OBVIOUS
    <2>1. m \in Nat /\ 2 * m <= Cap(job) /\ Cap(job) \in Nat /\ job.a \in Nat /\ job.b \in Nat
      BY <1>1, SiblingNumbers, JobTypes
    <2>2. job.a \in {m - 1, m} /\ job.b \in {m - 1, m}
      BY <1>2
    <2> QED
      BY ONLY <2>1, <2>2
  <1>4. merge_leaf_into(job) \in Seq(Fit)
    BY <1>1, <1>3, MergeLeafIntoFits
  <1>5. <<Free("B")>> \in Seq(Fit)
    BY OthersFit, NodesAre
  <1>6. Sound(remove_branch_entry(job))
    BY <1>1, RemoveEntrySound
  <1>7. merge_leaf_into(job) \o <<Free("B")>> \in Seq(Fit)
    BY ONLY <1>4, <1>5, FitJoin
  <1> QED
    BY <1>6, <1>7, SoundJoin DEF merge_leaves

LEMMA MergeBranchesSound ==
  ASSUME Starts("merge_branches")
  PROVE  Sound(merge_branches(job))
  <1>1. job \in Jobs /\ CanStart(job) /\ job.proc \in OnLeaves \cup OnBranches /\ ~OnALeaf(job)
    BY DEF Starts, OnALeaf, OnLeaves, OnOneLeaf, OnBranches
  <1>2. job.a + 1 + job.b <= Cap(job)
    BY DEF Starts, CanStart
  <1> PICK a : a = job.a
    OBVIOUS
  <1> PICK b : b = job.b
    OBVIOUS
  <1> PICK x : x = job.idx
    OBVIOUS
  <1>3. /\ a \in Nat /\ b \in Nat /\ x \in Nat /\ a + 1 + b <= job.bcap
        /\ x + 1 <= job.bcap /\ job.bcap \in Nat /\ job.bcap <= MaxCap /\ MaxCap \in Nat
        /\ Branch("A") /\ Branch("B") /\ Branch("P")
    BY <1>1, <1>2, SiblingNumbers, BranchesAre, JobTypes
  <1>4. /\ 0 \in Nat /\ a + 1 <= job.bcap /\ a + 1 \in Nat /\ 0 + b <= job.bcap
        /\ b + 1 \in Nat /\ 0 + (b + 1) <= job.bcap + 1 /\ a + 1 + (b + 1) <= job.bcap + 1
        /\ a + 1 + b \in 0 .. MaxCap /\ 0 \in 0 .. MaxCap
    BY ONLY <1>3
  <1>5. "sep_key" \in Locals
    BY LocalsAre
  <1>6. Read(K("P"), x, "sep_key") \in Fit /\ Write(K("A"), a, "sep_key") \in Fit
    BY ONLY <1>3, <1>4, <1>5, KeySlots
  <1>7. Copy(K("B"), 0, K("A"), a + 1, b) \in Fit
    BY ONLY <1>3, <1>4, KeyMoves
  <1>8. Copy(C("B"), 0, C("A"), a + 1, b + 1) \in Fit
    BY ONLY <1>3, <1>4, ChildMoves
  <1>9. SetLen("A", a + 1 + b) \in Fit /\ SetLen("B", 0) \in Fit
    BY ONLY <1>4, OthersFit, NodesAre
  <1> DEFINE first == <<Read(K("P"), x, "sep_key"), Write(K("A"), a, "sep_key"),
                        Copy(K("B"), 0, K("A"), a + 1, b), Copy(C("B"), 0, C("A"), a + 1, b + 1),
                        SetLen("A", a + 1 + b), SetLen("B", 0)>>
  <1>10. first \in Seq(Fit)
    BY ONLY <1>6, <1>7, <1>8, <1>9
  <1>11. merge_branches(job) = first \o free_branch_node("B") \o collapse_branch_entry(job)
    BY DEF merge_branches
  <1> HIDE DEF first
  <1>12. free_branch_node("B") \in Seq(Fit)
    BY NodesAre, FreeBranchFits
  <1>13. first \o free_branch_node("B") \in Seq(Fit)
    BY ONLY <1>10, <1>12, FitJoin
  <1>14. Sound(collapse_branch_entry(job))
    BY <1>1, RemoveEntrySound
  <1> QED
    BY ONLY <1>11, <1>13, <1>14, SoundJoin

LEMMA RootCollapseSound ==
  ASSUME Starts("check_root_collapse")
  PROVE  Sound(check_root_collapse(job))
  <1>1. job \in Jobs /\ CanStart(job) /\ job.proc \in OnLeaves
    BY DEF Starts, OnLeaves
  <1>2. job.a + job.b <= Cap(job)
    BY DEF Starts, CanStart
  <1>3. merge_leaf_into(job) \in Seq(Fit)
    BY <1>1, <1>2, MergeLeafIntoFits
  <1>4. Zero(C("P"), 1, 1) \in Fit
    <2>1. Branch("P") /\ 1 \in Nat /\ 1 + 1 <= job.bcap + 1
      BY <1>1, BranchesAre, JobTypes
    <2> QED
      BY ONLY <2>1, ChildMoves
  <1>5. Free("B") \in Fit /\ Enter({"A"}) \in Fit
    BY OthersFit, NodesAre
  <1>6. <<Free("B"), Zero(C("P"), 1, 1), Enter({"A"})>> \in Seq(Fit)
    BY ONLY <1>4, <1>5
  <1>7. free_branch_node("P") \in Seq(Fit) /\ free_branch_node("P") # <<>>
    BY NodesAre, FreeBranchFits
  <1>8. merge_leaf_into(job) \o <<Free("B"), Zero(C("P"), 1, 1), Enter({"A"})>> \in Seq(Fit)
    BY ONLY <1>3, <1>6, FitJoin
  <1> QED
    BY <1>7, <1>8, FitJoinSome, SoundFits DEF check_root_collapse

LEMMA FreeTreeSound ==
  Sound(free_tree(job))
  <1>1. K("A") \in Arrays /\ V("A") \in Arrays
    BY ArraysAre, NodesAre
  <1>2. <<K("A"), V("A")>> \in Seq(Arrays) /\ 0 \in Nat
    BY <1>1
  <1>3. DropSlots("A", <<K("A"), V("A")>>, 0) \in Fit /\ Free("A") \in Fit /\ Enter({}) \in Fit
    BY <1>2, OthersFit, NodesAre
  <1>4. free_tree(job) \in Seq(Fit) /\ free_tree(job) # <<>>
    BY <1>3 DEF free_tree
  <1> QED
    BY <1>4, SoundFits

(* What a job starts with.                                                 *)
LEMMA MovesSound ==
  ASSUME job \in Jobs, CanStart(job)
  PROVE  Sound(Moves(job))
  <1>1. CASE job.proc = "insert_into_leaf_slot"
    BY <1>1, InsertSound DEF Starts, Moves
  <1>2. CASE job.proc = "leaf_replace"
    BY <1>2, ReplaceSound DEF Starts, Moves
  <1>3. CASE job.proc = "leaf_split"
    BY <1>3, LeafSplitSound DEF Starts, Moves
  <1>4. CASE job.proc = "branch_insert"
    BY <1>4, BranchInsertSound DEF Starts, Moves
  <1>5. CASE job.proc = "branch_insert_and_split"
    BY <1>5, BranchSplitSound DEF Starts, Moves
  <1>6. CASE job.proc = "leaf_remove"
    BY <1>6, RemoveSound DEF Starts, Moves
  <1>7. CASE job.proc = "borrow_from_left_leaf"
    BY <1>7, BorrowLeftLeafSound DEF Starts, Moves
  <1>8. CASE job.proc = "borrow_from_right_leaf"
    BY <1>8, BorrowRightLeafSound DEF Starts, Moves
  <1>9. CASE job.proc = "borrow_from_left_branch"
    BY <1>9, BorrowLeftBranchSound DEF Starts, Moves
  <1>10. CASE job.proc = "borrow_from_right_branch"
    BY <1>10, BorrowRightBranchSound DEF Starts, Moves
  <1>11. CASE job.proc = "merge_leaves"
    BY <1>11, MergeLeavesSound DEF Starts, Moves
  <1>12. CASE job.proc = "merge_branches"
    BY <1>12, MergeBranchesSound DEF Starts, Moves
  <1>13. CASE job.proc = "check_root_collapse"
    BY <1>13, RootCollapseSound DEF Starts, Moves
  <1>14. CASE job.proc = "free_tree"
    BY <1>14, FreeTreeSound DEF Moves
  <1>15. job.proc \in OnOneLeaf \cup OnOneBranch \cup OnLeaves \cup OnBranches
    BY DEF Jobs
  <1> QED
    BY ONLY <1>1, <1>2, <1>3, <1>4, <1>5, <1>6, <1>7, <1>8, <1>9, <1>10, <1>11, <1>12, <1>13,
            <1>14, <1>15 DEF OnOneLeaf, OnOneBranch, OnLeaves, OnBranches

-----------------------------------------------------------------------------
(* The machine.                                                            *)

SInv == TypeOK /\ Safe(moves)

(* What the next move is.                                                  *)
LEMMA NowIs ==
  ASSUME Safe(moves), moves # <<>>
  PROVE  /\ Now = moves[1] /\ 1 \in 1 .. Len(moves)
         /\ Now \in Fit \/ (Now \in Far /\ moves[2] = Cover)
         /\ Now.do = "copy" => Now \in FitCopies \/ (Now \in Far /\ moves[2] = Cover)
         /\ Now.do = "zero" => Now \in FitZeros
         /\ Now.do = "write" => Now \in FitWrites
         /\ Now.do = "read" => Now \in FitReads
         /\ Now.do = "clone" => Now \in FitClones
         /\ Now.do = "len" => Now \in FitLens
         /\ Now.do \in {"drop", "drops", "free", "enter"} => Now \in FitOthers
  <1> DEFINE M == Fit \cup Far
  <1> HIDE DEF M
  <1>1. moves \in Seq(M)
    BY DEF Safe, M
  <1>2. Now = moves[1] /\ 1 \in 1 .. Len(moves)
    BY <1>1 DEF Now
  <1>3. Now \in Fit \/ (Now \in Far /\ moves[2] = Cover)
    BY <1>2 DEF Safe
  <1>4. /\ Now \in Far \/ Now \in FitCopies => Now.do = "copy"
        /\ Now \in FitZeros => Now.do = "zero"
        /\ Now \in FitWrites => Now.do = "write"
        /\ Now \in FitReads => Now.do = "read"
        /\ Now \in FitClones => Now.do = "clone"
        /\ Now \in FitLens => Now.do = "len"
        /\ Now \in FitOthers => Now.do \in {"drop", "drops", "free", "enter"}
    <2> PICK m : m = Now
      OBVIOUS
    <2>1. m \in Far \/ m \in FitCopies => m.do = "copy"
      BY DEF Far, FitCopies
    <2>2. (m \in FitZeros => m.do = "zero") /\ (m \in FitWrites => m.do = "write")
      BY DEF FitZeros, FitWrites
    <2>3. (m \in FitReads => m.do = "read") /\ (m \in FitClones => m.do = "clone")
      BY DEF FitReads, FitClones
    <2>4. m \in FitLens => m.do = "len"
      BY DEF FitLens
    <2>5. m \in FitOthers => m.do \in {"drop", "drops", "free", "enter"}
      BY DEF FitOthers
    <2> QED
      BY ONLY <2>1, <2>2, <2>3, <2>4, <2>5, m = Now
  <1> QED
    BY <1>2, <1>3, <1>4 DEF Fit

(* Which moves are safe depends on the job alone.                          *)
LEMMA SafeStays ==
  ASSUME NEW s, Safe(s), UNCHANGED job, moves' = s
  PROVE  Safe(moves)'
  <1>1. \A a : Room(a)' = Room(a)
    BY DEF Room, IsLeaf
  <1>2. FitCopies' = FitCopies /\ FitZeros' = FitZeros
    BY <1>1 DEF FitCopies, FitZeros
  <1>3. FitReads' = FitReads /\ FitClones' = FitClones /\ FitWrites' = FitWrites
    BY <1>1 DEF FitReads, FitClones, FitWrites
  <1>4. Fit' = Fit
    BY <1>2, <1>3 DEF Fit, FitLens, FitOthers
  <1>5. Far' = Far /\ Cover' = Cover
    <2>1. Room(C("P"))' = Room(C("P"))
      BY <1>1
    <2> QED
      BY <2>1 DEF Far, Cover
  <1> QED
    BY <1>4, <1>5 DEF Safe

(* A loop of drops goes on to the next slot.                               *)
LEMMA DropSlotsSafe ==
  ASSUME Safe(moves), Doing("drops")
  PROVE  /\ Safe([moves EXCEPT ![1].i = @ + 1])
         /\ [moves EXCEPT ![1].i = @ + 1] # <<>>
  <1> DEFINE M == Fit \cup Far
             next == [moves[1] EXCEPT !.i = @ + 1]
  <1>1. moves \in Seq(M) /\ moves # <<>>
    BY DEF Safe, Doing
  <1>2. moves[1] \in FitOthers /\ moves[1].do = "drops" /\ 1 \in 1 .. Len(moves)
    BY NowIs DEF Doing
  <1>3. next \in Fit
    <2>1. moves[1] \in [do : {"drops"}, node : Nodes, arrays : Seq(Arrays), i : Nat, at : {"slots"}]
      BY <1>2 DEF FitOthers
    <2>2. next \in [do : {"drops"}, node : Nodes, arrays : Seq(Arrays), i : Nat, at : {"slots"}]
      BY <2>1
    <2> QED
      BY <2>2 DEF Fit, FitOthers
  <1> PICK u : u = [moves EXCEPT ![1] = next]
    OBVIOUS
  <1>4. u = [moves EXCEPT ![1].i = @ + 1]
    OBVIOUS
  <1> HIDE DEF M, next
  <1>5. next \in M
    BY <1>3 DEF M
  <1>6. /\ u \in Seq(M) /\ Len(u) = Len(moves) /\ Len(moves) \in Nat /\ u # <<>>
        /\ u[1] = next /\ \A i \in 1 .. Len(moves) : i # 1 => u[i] = moves[i]
    BY <1>1, <1>2, <1>5
  <1>7. ASSUME NEW i \in 1 .. Len(u)
        PROVE  u[i] \in Fit \/ (u[i] \in Far /\ i < Len(u) /\ u[i + 1] = Cover)
    <2>1. CASE i = 1
      BY <1>3, <1>6, <2>1
    <2>2. CASE i # 1
      <3>1. moves[i] \in Fit \/ (moves[i] \in Far /\ i < Len(moves) /\ moves[i + 1] = Cover)
        BY <1>6 DEF Safe
      <3>2. u[i] = moves[i] /\ (i < Len(moves) => i < Len(u) /\ u[i + 1] = moves[i + 1])
        BY <1>6, <2>2
      <3> QED
        BY <1>6, <3>1, <3>2
    <2> QED
      BY <2>1, <2>2
  <1>8. Safe(u)
    BY <1>6, <1>7 DEF Safe, M
  <1> QED
    BY ONLY <1>4, <1>6, <1>8

(* A move made leaves the ones after it.                                   *)
LEMMA ContinueSafe ==
  ASSUME SInv, moves # <<>>, Continue
  PROVE  /\ Safe(moves)' /\ job' \in Jobs
         /\ how' \in {"running", "done", "panicked"} /\ (how' = "running") = ~Stopped'
  <1>1. Safe(Tail(moves)) /\ moves' = Tail(moves) /\ UNCHANGED job
    BY SafeTail DEF SInv, Continue
  <1>2. Safe(moves)'
    BY <1>1, SafeStays
  <1>3. job' \in Jobs
    BY <1>1 DEF SInv, TypeOK
  <1>4. how = "running" /\ how' = IF moves' = <<>> THEN "done" ELSE how
    BY DEF SInv, TypeOK, Stopped, Continue
  <1> QED
    BY <1>2, <1>3, <1>4 DEF Stopped

LEMMA SlotsInit ==
  Init => SInv
  <1> SUFFICES ASSUME Init  PROVE  SInv
    OBVIOUS
  <1>1. job \in Jobs /\ CanStart(job)
    BY DEF Init
  <1>2. moves = Moves(job) /\ Sound(moves)
    BY <1>1, MovesSound DEF Init
  <1>3. len \in [Nodes -> 0 .. MaxCap]
    <2>1. len = [n \in Nodes |-> CASE n = "A" -> job.a [] n = "B" -> job.b [] n = "P" -> job.p]
      BY DEF Init, Len0
    <2>2. job.a \in 0 .. MaxCap /\ job.b \in 0 .. MaxCap /\ job.p \in 0 .. MaxCap
      BY <1>1, JobTypes
    <2> QED
      BY ONLY <2>1, <2>2 DEF Nodes
  <1>4. entry \subseteq Nodes /\ freed \subseteq Nodes
    BY DEF Init, Nodes
  <1>5. DOMAIN local = Locals /\ DOMAIN mem = Arrays
    BY DEF Init
  <1>6. how = "running" /\ moves # <<>>
    BY <1>2 DEF Init, Sound
  <1> QED
    BY <1>1, <1>2, <1>3, <1>4, <1>5, <1>6 DEF SInv, TypeOK, Stopped, Sound

LEMMA SlotsStep ==
  SInv /\ [Next]_vars => SInv'
  <1> SUFFICES ASSUME SInv, [Next]_vars  PROVE  SInv'
    OBVIOUS
  <1>1. CASE DoCopy \/ DoZero
    <2>1. moves # <<>> /\ Continue /\ UNCHANGED <<len, local, entry, freed>>
      BY <1>1 DEF DoCopy, DoZero, Doing
    <2>2. DOMAIN mem' = DOMAIN mem
      BY <1>1 DEF DoCopy, DoZero, Overwritten
    <2> QED
      BY <2>1, <2>2, ContinueSafe DEF SInv, TypeOK
  <1>2. CASE DoWrite
    <2>1. moves # <<>> /\ Continue /\ UNCHANGED <<len, entry, freed>>
      BY <1>2 DEF DoWrite, Doing
    <2>2. DOMAIN mem' = DOMAIN mem /\ DOMAIN local' = DOMAIN local
      BY <1>2 DEF DoWrite, Overwritten
    <2> QED
      BY <2>1, <2>2, ContinueSafe DEF SInv, TypeOK
  <1>3. CASE DoRead \/ DoClone \/ DoDrop
    <2>1. moves # <<>> /\ Continue /\ UNCHANGED <<mem, len, entry, freed>>
      BY <1>3 DEF DoRead, DoClone, DoDrop, Doing
    <2>2. DOMAIN local' = DOMAIN local
      BY <1>3 DEF DoRead, DoClone, DoDrop
    <2> QED
      BY <2>1, <2>2, ContinueSafe DEF SInv, TypeOK
  <1>4. CASE DoSetLen
    <2>1. moves # <<>> /\ Now.do = "len" /\ Continue /\ UNCHANGED <<mem, local, entry, freed>>
      BY <1>4 DEF DoSetLen, Doing
    <2>2. Now.node \in Nodes /\ Now.n \in 0 .. MaxCap
      BY <2>1, NowIs DEF SInv, FitLens
    <2>3. len' \in [Nodes -> 0 .. MaxCap]
      BY <1>4, <2>2 DEF DoSetLen, SInv, TypeOK
    <2> QED
      BY <2>1, <2>3, ContinueSafe DEF SInv, TypeOK
  <1>5. CASE DoDropSlots
    <2>1. Doing("drops") /\ UNCHANGED <<mem, len, local, entry, freed>>
      BY <1>5 DEF DoDropSlots
    <2>2. CASE SlotsLeft
      <3>1. moves' = [moves EXCEPT ![1].i = @ + 1] /\ UNCHANGED <<job, how>>
        BY <1>5, <2>2 DEF DoDropSlots
      <3>2. Safe(moves)' /\ moves' # <<>>
        BY <2>1, <3>1, DropSlotsSafe, SafeStays DEF SInv
      <3> QED
        BY <2>1, <3>1, <3>2 DEF SInv, TypeOK, Stopped, Doing
    <2>3. CASE ~SlotsLeft
      <3>1. moves # <<>> /\ Continue
        BY <1>5, <2>1, <2>3 DEF DoDropSlots, Doing
      <3> QED
        BY <2>1, <3>1, ContinueSafe DEF SInv, TypeOK
    <2> QED
      BY <2>2, <2>3
  <1>6. CASE DoFree \/ DoEnter
    <2>1. /\ moves # <<>> /\ Now.do \in {"free", "enter"} /\ Continue
          /\ UNCHANGED <<mem, len, local>>
      BY <1>6 DEF DoFree, DoEnter, Doing
    <2>2. Now \in FitOthers
      BY <2>1, NowIs DEF SInv
    <2>3. /\ Now.do = "free" => Now.node \in Nodes
          /\ Now.do = "enter" => Now.nodes \in SUBSET Nodes
      BY <2>2 DEF FitOthers
    <2>4. entry' \subseteq Nodes /\ freed' \subseteq Nodes
      BY <1>6, <2>3 DEF DoFree, DoEnter, Doing, SInv, TypeOK
    <2> QED
      BY <2>1, <2>4, ContinueSafe DEF SInv, TypeOK
  <1>7. CASE Panic
    <2>1. /\ moves' = <<>> /\ how' = "panicked" /\ local' = [r \in Locals |-> Nothing]
          /\ UNCHANGED <<job, mem, len, entry, freed>>
      BY <1>7 DEF Panic
    <2>2. Safe(<<>>)
      <3>1. <<>> \in Seq(Fit)
        OBVIOUS
      <3> QED
        BY ONLY <3>1, SafeFits
    <2>3. Safe(moves)'
      BY <2>1, <2>2, SafeStays
    <2> QED
      BY <2>1, <2>3 DEF SInv, TypeOK, Stopped
  <1>8. CASE UNCHANGED vars
    <2>1. Safe(moves)'
      BY <1>8, SafeStays DEF SInv, vars
    <2> QED
      BY <1>8, <2>1 DEF SInv, TypeOK, Stopped, vars
  <1> QED
    BY <1>1, <1>2, <1>3, <1>4, <1>5, <1>6, <1>7, <1>8 DEF Next

(* The type invariant of the machine.                                      *)
THEOREM SlotsTyped ==
  Spec => []TypeOK
  <1>1. SInv => TypeOK
    BY DEF SInv
  <1> QED
    BY <1>1, SlotsInit, SlotsStep, PTL DEF Spec

(* The copies, reads and writes of insert_into_leaf_slot, the splits, the  *)
(* borrows, the merges, the removals and the frees stay in the arrays they *)
(* are given, for every capacity and every length and index the procedures *)
(* are called with, however often user code panics.  The one copy that     *)
(* reads a pointer too far, of a full parent that loses an entry, is       *)
(* followed by the move that overwrites what it read.                      *)
THEOREM MovesStayInArrays ==
  Spec => []MovesInArrays
  <1>1. ASSUME SInv  PROVE  MovesInArrays
    <2> SUFFICES ASSUME ~Stopped  PROVE  MovesInArrays
      BY DEF MovesInArrays
    <2>1. Safe(moves) /\ moves # <<>>
      BY <1>1 DEF SInv, Stopped
    <2>2. Room(C("P")) = job.bcap + 1
      BY RoomIs, NodesAre
    <2>3. ASSUME Now \in FitCopies
          PROVE  /\ {Now.j, Now.n} \subseteq Nat /\ Now.j + Now.n <= Room(Now.to)
                 /\ {Now.i, Now.n} \subseteq Nat /\ Now.i + Now.n <= Room(Now.from)
      BY <2>3 DEF FitCopies
    <2>4. ASSUME Now \in Far, moves[2] = Cover
          PROVE  /\ {Now.j, Now.n} \subseteq Nat /\ Now.j + Now.n <= Room(Now.to)
                 /\ {Now.i, Now.n} \subseteq Nat /\ ReadsOneTooFar
      <3>1. /\ Now.from = C("P") /\ Now.to = C("P") /\ Now.i \in Nat /\ Now.j \in Nat /\ Now.n \in Nat
            /\ Now.i + Now.n = Room(C("P")) + 1 /\ Now.j + Now.n = job.p + 1 /\ job.p = job.bcap
        BY <2>4 DEF Far
      <3>2. Now.j + Now.n = Room(Now.to)
        BY <2>2, <3>1
      <3>3. Room(Now.to) \in Nat
        BY <1>1, <2>2, <3>1, JobTypes DEF SInv, TypeOK
      <3> QED
        BY <2>4, <3>1, <3>2, <3>3 DEF ReadsOneTooFar, Cover
    <2>5. ASSUME Now \in FitZeros \cup FitWrites
          PROVE  {Now.j, Now.n} \subseteq Nat /\ Now.j + Now.n <= Room(Now.to)
      BY <2>5 DEF FitZeros, FitWrites
    <2>6. ASSUME Now \in FitReads \cup FitClones
          PROVE  {Now.i, Now.n} \subseteq Nat /\ Now.i + Now.n <= Room(Now.from)
      BY <2>6 DEF FitReads, FitClones
    <2>7. Now.do = "copy" => Now \in FitCopies \/ (Now \in Far /\ moves[2] = Cover)
      BY <2>1, NowIs
    <2>8. /\ Now.do = "zero" => Now \in FitZeros
          /\ Now.do = "write" => Now \in FitWrites
          /\ Now.do = "read" => Now \in FitReads
          /\ Now.do = "clone" => Now \in FitClones
      BY <2>1, NowIs
    <2> QED
      BY <2>3, <2>4, <2>5, <2>6, <2>7, <2>8 DEF MovesInArrays
  <1> QED
    BY <1>1, SlotsInit, SlotsStep, PTL DEF Spec

-----------------------------------------------------------------------------
(* What single moves do, to states s and t of the memory: records of its   *)
(* arrays, lengths, locals, entry and freed nodes, and the number of       *)
(* values dropped.                                                         *)

Index == 0 .. MaxCap + 2

Cur == [mem |-> mem, len |-> len, local |-> local, entry |-> entry, freed |-> freed,
        gone |-> Len(dropped)]

RowsBut(b, s, t) == \A c \in Arrays : c # b => t.mem[c] = s.mem[c]
LocalsBut(r, s, t) == \A q \in Locals : q # r => t.local[q] = s.local[q]
Nodewise(s, t) == t.len = s.len /\ t.entry = s.entry /\ t.freed = s.freed

CopiedRow(t, s, u, j, i, c) ==
  \A x \in Index : t[x] = IF j <= x /\ x < j + c THEN s[x - j + i] ELSE u[x]
ZeroedRow(t, s, j, c) ==
  \A x \in Index : t[x] = IF j <= x /\ x < j + c THEN Zeros ELSE s[x]
WrittenRow(t, s, j, v) ==
  \A x \in Index : t[x] = IF x = j THEN v ELSE s[x]

CopyDid(a, i, b, j, n, s, t) ==
  /\ RowsBut(b, s, t) /\ t.local = s.local /\ Nodewise(s, t) /\ t.gone = s.gone
  /\ CopiedRow(t.mem[b], s.mem[a], s.mem[b], j, i, n)
ZeroDid(b, j, n, s, t) ==
  /\ RowsBut(b, s, t) /\ t.local = s.local /\ Nodewise(s, t) /\ t.gone = s.gone
  /\ ZeroedRow(t.mem[b], s.mem[b], j, n)
WriteDid(b, j, r, s, t) ==
  /\ RowsBut(b, s, t) /\ LocalsBut(r, s, t) /\ Nodewise(s, t) /\ t.gone = s.gone
  /\ WrittenRow(t.mem[b], s.mem[b], j, s.local[r])
ReadDid(a, i, r, s, t) ==
  /\ t.mem = s.mem /\ LocalsBut(r, s, t) /\ Nodewise(s, t) /\ t.gone = s.gone
  /\ t.local[r] = s.mem[a][i]
CloneDid(a, i, r, s, t) ==
  /\ t.mem = s.mem /\ LocalsBut(r, s, t) /\ Nodewise(s, t) /\ t.gone = s.gone
  /\ t.local[r] = CloneOf(s.mem[a][i])
LenDid(n, l, s, t) ==
  /\ t.mem = s.mem /\ t.local = s.local /\ t.entry = s.entry /\ t.freed = s.freed /\ t.gone = s.gone
  /\ t.len[n] = l /\ \A m \in Nodes : m # n => t.len[m] = s.len[m]
DropDid(r, s, t) ==
  t.mem = s.mem /\ LocalsBut(r, s, t) /\ Nodewise(s, t) /\ t.gone = s.gone + 1
DropsDid(n, as, i, s, t) ==
  /\ t.mem = s.mem /\ t.local = s.local /\ Nodewise(s, t)
  /\ LET all == Len(as) * s.len[n]
     IN  t.gone = s.gone + IF i < all THEN all - i ELSE 0
FreeDid(n, s, t) ==
  /\ t.mem = s.mem /\ t.local = s.local /\ t.len = s.len /\ t.entry = s.entry /\ t.gone = s.gone
  /\ t.freed = s.freed \cup {n}
EnterDid(S, s, t) ==
  /\ t.mem = s.mem /\ t.local = s.local /\ t.len = s.len /\ t.freed = s.freed /\ t.gone = s.gone
  /\ t.entry = S

Did(m, s, t) ==
  /\ m.do = "copy"  => CopyDid(m.from, m.i, m.to, m.j, m.n, s, t)
  /\ m.do = "zero"  => ZeroDid(m.to, m.j, m.n, s, t)
  /\ m.do = "read"  => ReadDid(m.from, m.i, m.r, s, t)
  /\ m.do = "write" => WriteDid(m.to, m.j, m.r, s, t)
  /\ m.do = "len"   => LenDid(m.node, m.n, s, t)
  /\ m.do = "clone" => CloneDid(m.from, m.i, m.r, s, t)
  /\ m.do = "drop"  => DropDid(m.r, s, t)
  /\ m.do = "drops" => DropsDid(m.node, m.arrays, m.i, s, t)
  /\ m.do = "free"  => FreeDid(m.node, s, t)
  /\ m.do = "enter" => EnterDid(m.nodes, s, t)

LEMMA DidWhat ==
  ASSUME NEW s, NEW t
  PROVE  /\ \A a, i, b, j, n : Did(Copy(a, i, b, j, n), s, t) => CopyDid(a, i, b, j, n, s, t)
         /\ \A b, j, n : Did(Zero(b, j, n), s, t) => ZeroDid(b, j, n, s, t)
         /\ \A a, i, r : Did(Read(a, i, r), s, t) => ReadDid(a, i, r, s, t)
         /\ \A a, i, r : Did(Write(a, i, r), s, t) => WriteDid(a, i, r, s, t)
         /\ \A a, i, r : Did(Clone(a, i, r), s, t) => CloneDid(a, i, r, s, t)
         /\ \A n, l : Did(SetLen(n, l), s, t) => LenDid(n, l, s, t)
         /\ \A r : Did(DropLocal(r), s, t) => DropDid(r, s, t)
         /\ \A n, as, i : Did(DropSlots(n, as, i), s, t) => DropsDid(n, as, i, s, t)
         /\ \A n : Did(Free(n), s, t) => FreeDid(n, s, t)
         /\ \A S : Did(Enter(S), s, t) => EnterDid(S, s, t)
  <1>1. /\ \A a, i, b, j, n : Did(Copy(a, i, b, j, n), s, t) => CopyDid(a, i, b, j, n, s, t)
        /\ \A b, j, n : Did(Zero(b, j, n), s, t) => ZeroDid(b, j, n, s, t)
    BY DEF Did, Copy, Zero
  <1>2. /\ \A a, i, r : Did(Read(a, i, r), s, t) => ReadDid(a, i, r, s, t)
        /\ \A a, i, r : Did(Write(a, i, r), s, t) => WriteDid(a, i, r, s, t)
        /\ \A a, i, r : Did(Clone(a, i, r), s, t) => CloneDid(a, i, r, s, t)
    BY DEF Did, Read, Write, Clone
  <1>3. /\ \A n, l : Did(SetLen(n, l), s, t) => LenDid(n, l, s, t)
        /\ \A r : Did(DropLocal(r), s, t) => DropDid(r, s, t)
        /\ \A n, as, i : Did(DropSlots(n, as, i), s, t) => DropsDid(n, as, i, s, t)
    BY DEF Did, SetLen, DropLocal, DropSlots
  <1>4. /\ \A n : Did(Free(n), s, t) => FreeDid(n, s, t)
        /\ \A S : Did(Enter(S), s, t) => EnterDid(S, s, t)
    BY DEF Did, Free, Enter
  <1> QED
    BY ONLY <1>1, <1>2, <1>3, <1>4

-----------------------------------------------------------------------------
(* Lists of moves.                                                         *)

IsSeq(p) == \E S : p \in Seq(S)

(* t is the state that the moves ms lead to from s.                        *)
Runs(ms, s, t) ==
  \E h : /\ h[0] = s /\ h[Len(ms)] = t
         /\ \A i \in 1 .. Len(ms) : Did(ms[i], h[i - 1], h[i])

(* No move changes nothing.                                                *)
LEMMA RunsNone ==
  ASSUME NEW s
  PROVE  Runs(<<>>, s, s)
  <1> PICK h : h = [i \in {0} |-> s]
    OBVIOUS
  <1>1. h[0] = s /\ Len(<<>>) = 0
    OBVIOUS
  <1> QED
    BY <1>1 DEF Runs

(* The first move, then the rest.                                          *)
LEMMA RunsFirst ==
  ASSUME NEW ms, IsSeq(ms), ms # <<>>, NEW s, NEW u, NEW t, Did(Head(ms), s, u), Runs(Tail(ms), u, t)
  PROVE  Runs(ms, s, t)
  <1> PICK S : ms \in Seq(S)
    BY DEF IsSeq
  <1> PICK rest : rest = Tail(ms)
    OBVIOUS
  <1>1. /\ Len(ms) \in Nat /\ Len(ms) >= 1 /\ Len(rest) = Len(ms) - 1
        /\ Head(ms) = ms[1] /\ \A i \in 1 .. Len(ms) - 1 : rest[i] = ms[i + 1]
    OBVIOUS
  <1>2. PICK g : /\ g[0] = u /\ g[Len(rest)] = t
                 /\ \A i \in 1 .. Len(rest) : Did(rest[i], g[i - 1], g[i])
    BY DEF Runs
  <1> PICK h : h = [i \in 0 .. Len(ms) |-> IF i = 0 THEN s ELSE g[i - 1]]
    OBVIOUS
  <1>3. h[0] = s /\ h[Len(ms)] = t
    BY <1>1, <1>2
  <1>4. ASSUME NEW i \in 1 .. Len(ms)
        PROVE  Did(ms[i], h[i - 1], h[i])
    <2>1. CASE i = 1
      <3>1. h[i - 1] = s /\ h[i] = u /\ ms[i] = Head(ms)
        BY <1>1, <1>2, <2>1
      <3> QED
        BY <3>1
    <2>2. CASE i # 1
      <3> PICK j : j = i - 1
        OBVIOUS
      <3>1. j \in 1 .. Len(rest) /\ h[j] = g[j - 1] /\ h[i] = g[j] /\ rest[j] = ms[i]
        BY <1>1, <2>2
      <3> QED
        BY <1>2, <3>1
    <2> QED
      BY <2>1, <2>2
  <1> QED
    BY <1>3, <1>4 DEF Runs

(* Lists one after the other.                                              *)
LEMMA IsSeqJoin ==
  \A p, q : IsSeq(p) /\ IsSeq(q) => IsSeq(p \o q)
  <1> SUFFICES ASSUME NEW p, NEW q, IsSeq(p), IsSeq(q)  PROVE  IsSeq(p \o q)
    OBVIOUS
  <1> PICK S1 : p \in Seq(S1)
    BY DEF IsSeq
  <1> PICK S2 : q \in Seq(S2)
    BY DEF IsSeq
  <1> PICK S : S = S1 \cup S2
    OBVIOUS
  <1>1. p \in Seq(S) /\ q \in Seq(S)
    OBVIOUS
  <1>2. p \o q \in Seq(S)
    BY ONLY <1>1, ConcatType
  <1> QED
    BY <1>2 DEF IsSeq

LEMMA RunsParts ==
  ASSUME NEW p, IsSeq(p), NEW q, IsSeq(q), NEW s, NEW t, Runs(p \o q, s, t)
  PROVE  \E u : Runs(p, s, u) /\ Runs(q, u, t)
  <1> PICK S1 : p \in Seq(S1)
    BY DEF IsSeq
  <1> PICK S2 : q \in Seq(S2)
    BY DEF IsSeq
  <1> PICK S : S = S1 \cup S2
    OBVIOUS
  <1>1. p \in Seq(S) /\ q \in Seq(S)
    OBVIOUS
  <1> PICK r : r = p \o q
    OBVIOUS
  <1>2. /\ Len(p) \in Nat /\ Len(q) \in Nat /\ Len(r) = Len(p) + Len(q)
        /\ \A i \in 1 .. Len(p) : r[i] = p[i]
        /\ \A i \in Len(p) + 1 .. Len(p) + Len(q) : r[i] = q[i - Len(p)]
    BY <1>1, Concat
  <1>3. PICK h : /\ h[0] = s /\ h[Len(r)] = t
                 /\ \A i \in 1 .. Len(r) : Did(r[i], h[i - 1], h[i])
    BY DEF Runs
  <1>4. Runs(p, s, h[Len(p)])
    <2>1. \A i \in 1 .. Len(p) : Did(p[i], h[i - 1], h[i])
      BY <1>2, <1>3
    <2> QED
      BY <1>3, <2>1 DEF Runs
  <1>5. Runs(q, h[Len(p)], t)
    <2> PICK g : g = [i \in 0 .. Len(q) |-> h[i + Len(p)]]
      OBVIOUS
    <2>1. g[0] = h[Len(p)] /\ g[Len(q)] = t
      BY <1>2, <1>3
    <2>2. ASSUME NEW i \in 1 .. Len(q)
          PROVE  Did(q[i], g[i - 1], g[i])
      <3> PICK j : j = i + Len(p)
        OBVIOUS
      <3>1. j \in 1 .. Len(r) /\ r[j] = q[i] /\ g[i] = h[j] /\ g[i - 1] = h[j - 1]
        BY <1>2
      <3> QED
        BY <1>3, <3>1
    <2> QED
      BY <2>1, <2>2 DEF Runs
  <1> QED
    BY <1>4, <1>5

(* Lists as they are written down.                                         *)
LEMMA SeqsAre ==
  /\ IsSeq(<<>>)
  /\ \A x1 : IsSeq(<<x1>>)
  /\ \A x1, x2 : IsSeq(<<x1, x2>>)
  /\ \A x1, x2, x3 : IsSeq(<<x1, x2, x3>>)
  /\ \A x1, x2, x3, x4 : IsSeq(<<x1, x2, x3, x4>>)
  /\ \A x1, x2, x3, x4, x5 : IsSeq(<<x1, x2, x3, x4, x5>>)
  /\ \A x1, x2, x3, x4, x5, x6 : IsSeq(<<x1, x2, x3, x4, x5, x6>>)
  /\ \A x1, x2, x3, x4, x5, x6, x7 : IsSeq(<<x1, x2, x3, x4, x5, x6, x7>>)
  /\ \A x1, x2, x3, x4, x5, x6, x7, x8, x9, x10, x11 :
       IsSeq(<<x1, x2, x3, x4, x5, x6, x7, x8, x9, x10, x11>>)
  /\ \A x1, x2, x3, x4, x5, x6, x7, x8, x9, x10, x11, x12 :
       IsSeq(<<x1, x2, x3, x4, x5, x6, x7, x8, x9, x10, x11, x12>>)
  /\ \A x1, x2, x3, x4, x5, x6, x7, x8, x9, x10, x11, x12, x13 :
       IsSeq(<<x1, x2, x3, x4, x5, x6, x7, x8, x9, x10, x11, x12, x13>>)
  <1>1. ASSUME NEW x1
       PROVE  IsSeq(<<x1>>)
    <2>1. <<x1>>
            \in Seq({x1})
      OBVIOUS
    <2> QED
      BY <2>1 DEF IsSeq
  <1>2. ASSUME NEW x1, NEW x2
       PROVE  IsSeq(<<x1, x2>>)
    <2>1. <<x1, x2>>
            \in Seq({x1, x2})
      OBVIOUS
    <2> QED
      BY <2>1 DEF IsSeq
  <1>3. ASSUME NEW x1, NEW x2, NEW x3
       PROVE  IsSeq(<<x1, x2, x3>>)
    <2>1. <<x1, x2, x3>>
            \in Seq({x1, x2, x3})
      OBVIOUS
    <2> QED
      BY <2>1 DEF IsSeq
  <1>4. ASSUME NEW x1, NEW x2, NEW x3, NEW x4
       PROVE  IsSeq(<<x1, x2, x3, x4>>)
    <2>1. <<x1, x2, x3, x4>>
            \in Seq({x1, x2, x3, x4})
      OBVIOUS
    <2> QED
      BY <2>1 DEF IsSeq
  <1>5. ASSUME NEW x1, NEW x2, NEW x3, NEW x4, NEW x5
       PROVE  IsSeq(<<x1, x2, x3, x4, x5>>)
    <2>1. <<x1, x2, x3, x4, x5>>
            \in Seq({x1, x2, x3, x4, x5})
      OBVIOUS
    <2> QED
      BY <2>1 DEF IsSeq
  <1>6. ASSUME NEW x1, NEW x2, NEW x3, NEW x4, NEW x5, NEW x6
       PROVE  IsSeq(<<x1, x2, x3, x4, x5, x6>>)
    <2>1. <<x1, x2, x3, x4, x5, x6>>
            \in Seq({x1, x2, x3, x4, x5, x6})
      OBVIOUS
    <2> QED
      BY <2>1 DEF IsSeq
  <1>7. ASSUME NEW x1, NEW x2, NEW x3, NEW x4, NEW x5, NEW x6, NEW x7
       PROVE  IsSeq(<<x1, x2, x3, x4, x5, x6, x7>>)
    <2>1. <<x1, x2, x3, x4, x5, x6, x7>>
            \in Seq({x1, x2, x3, x4, x5, x6, x7})
      OBVIOUS
    <2> QED
      BY <2>1 DEF IsSeq
  <1>8. ASSUME NEW x1, NEW x2, NEW x3, NEW x4, NEW x5, NEW x6, NEW x7, NEW x8, NEW x9, NEW x10,
              NEW x11
       PROVE  IsSeq(<<x1, x2, x3, x4, x5, x6, x7, x8, x9, x10, x11>>)
    <2>1. <<x1, x2, x3, x4, x5, x6, x7, x8, x9, x10, x11>>
            \in Seq({x1, x2, x3, x4, x5, x6, x7, x8, x9, x10, x11})
      OBVIOUS
    <2> QED
      BY <2>1 DEF IsSeq
  <1>9. ASSUME NEW x1, NEW x2, NEW x3, NEW x4, NEW x5, NEW x6, NEW x7, NEW x8, NEW x9, NEW x10,
              NEW x11, NEW x12
       PROVE  IsSeq(<<x1, x2, x3, x4, x5, x6, x7, x8, x9, x10, x11, x12>>)
    <2>1. <<x1, x2, x3, x4, x5, x6, x7, x8, x9, x10, x11, x12>>
            \in Seq({x1, x2, x3, x4, x5, x6, x7, x8, x9, x10, x11, x12})
      OBVIOUS
    <2> QED
      BY <2>1 DEF IsSeq
  <1>10. ASSUME NEW x1, NEW x2, NEW x3, NEW x4, NEW x5, NEW x6, NEW x7, NEW x8, NEW x9,
              NEW x10, NEW x11, NEW x12, NEW x13
       PROVE  IsSeq(<<x1, x2, x3, x4, x5, x6, x7, x8, x9, x10, x11, x12, x13>>)
    <2>1. <<x1, x2, x3, x4, x5, x6, x7, x8, x9, x10, x11, x12, x13>>
            \in Seq({x1, x2, x3, x4, x5, x6, x7, x8, x9, x10, x11, x12, x13})
      OBVIOUS
    <2> QED
      BY <2>1 DEF IsSeq
  <1>20. IsSeq(<<>>)
    <2>1. <<>> \in Seq({})
      OBVIOUS
    <2> QED
      BY <2>1 DEF IsSeq
  <1> QED
    BY ONLY <1>1, <1>2, <1>3, <1>4, <1>5, <1>6, <1>7, <1>8, <1>9, <1>10, <1>20

LEMMA RunsOne ==
  ASSUME NEW s, NEW t, NEW x1, Runs(<<x1>>, s, t)
  PROVE  Did(x1, s, t)
  <1> PICK ms : ms = <<x1>>
    OBVIOUS
  <1>1. Len(ms) = 1 /\ ms[1] = x1
    OBVIOUS
  <1>2. PICK h : /\ h[0] = s /\ h[Len(ms)] = t
                 /\ \A i \in 1 .. Len(ms) : Did(ms[i], h[i - 1], h[i])
    BY DEF Runs
  <1>3. Did(x1, h[0], h[1])
    BY ONLY <1>1, <1>2
  <1> QED
    BY ONLY <1>1, <1>2, <1>3

LEMMA RunsTwo ==
  ASSUME NEW s, NEW t, NEW x1, NEW x2, Runs(<<x1, x2>>, s, t)
  PROVE  \E u1 :
           Did(x1, s, u1) /\ Did(x2, u1, t)
  <1> PICK ms : ms = <<x1, x2>>
    OBVIOUS
  <1>1. Len(ms) = 2 /\ ms[1] = x1 /\ ms[2] = x2
    OBVIOUS
  <1>2. PICK h : /\ h[0] = s /\ h[Len(ms)] = t
                 /\ \A i \in 1 .. Len(ms) : Did(ms[i], h[i - 1], h[i])
    BY DEF Runs
  <1>3. Did(x1, h[0], h[1]) /\ Did(x2, h[1], h[2])
    BY ONLY <1>1, <1>2
  <1> QED
    BY ONLY <1>1, <1>2, <1>3

LEMMA RunsThree ==
  ASSUME NEW s, NEW t, NEW x1, NEW x2, NEW x3, Runs(<<x1, x2, x3>>, s, t)
  PROVE  \E u1, u2 :
           Did(x1, s, u1) /\ Did(x2, u1, u2) /\ Did(x3, u2, t)
  <1> PICK ms : ms = <<x1, x2, x3>>
    OBVIOUS
  <1>1. Len(ms) = 3 /\ ms[1] = x1 /\ ms[2] = x2 /\ ms[3] = x3
    OBVIOUS
  <1>2. PICK h : /\ h[0] = s /\ h[Len(ms)] = t
                 /\ \A i \in 1 .. Len(ms) : Did(ms[i], h[i - 1], h[i])
    BY DEF Runs
  <1>3. Did(x1, h[0], h[1]) /\ Did(x2, h[1], h[2]) /\ Did(x3, h[2], h[3])
    BY ONLY <1>1, <1>2
  <1> QED
    BY ONLY <1>1, <1>2, <1>3

LEMMA RunsFour ==
  ASSUME NEW s, NEW t, NEW x1, NEW x2, NEW x3, NEW x4, Runs(<<x1, x2, x3, x4>>, s, t)
  PROVE  \E u1, u2, u3 :
           Did(x1, s, u1) /\ Did(x2, u1, u2) /\ Did(x3, u2, u3) /\ Did(x4, u3, t)
  <1> PICK ms : ms = <<x1, x2, x3, x4>>
    OBVIOUS
  <1>1. Len(ms) = 4 /\ ms[1] = x1 /\ ms[2] = x2 /\ ms[3] = x3 /\ ms[4] = x4
    OBVIOUS
  <1>2. PICK h : /\ h[0] = s /\ h[Len(ms)] = t
                 /\ \A i \in 1 .. Len(ms) : Did(ms[i], h[i - 1], h[i])
    BY DEF Runs
  <1>3. Did(x1, h[0], h[1]) /\ Did(x2, h[1], h[2]) /\ Did(x3, h[2], h[3]) /\ Did(x4, h[3], h[4])
    BY ONLY <1>1, <1>2
  <1> QED
    BY ONLY <1>1, <1>2, <1>3

LEMMA RunsFive ==
  ASSUME NEW s, NEW t, NEW x1, NEW x2, NEW x3, NEW x4, NEW x5,
         Runs(<<x1, x2, x3, x4, x5>>, s, t)
  PROVE  \E u1, u2, u3, u4 :
           Did(x1, s, u1) /\ Did(x2, u1, u2) /\ Did(x3, u2, u3) /\ Did(x4, u3, u4) /\
           Did(x5, u4, t)
  <1> PICK ms : ms = <<x1, x2, x3, x4, x5>>
    OBVIOUS
  <1>1. Len(ms) = 5 /\ ms[1] = x1 /\ ms[2] = x2 /\ ms[3] = x3 /\ ms[4] = x4 /\ ms[5] = x5
    OBVIOUS
  <1>2. PICK h : /\ h[0] = s /\ h[Len(ms)] = t
                 /\ \A i \in 1 .. Len(ms) : Did(ms[i], h[i - 1], h[i])
    BY DEF Runs
  <1>3. Did(x1, h[0], h[1]) /\ Did(x2, h[1], h[2]) /\ Did(x3, h[2], h[3]) /\
        Did(x4, h[3], h[4]) /\ Did(x5, h[4], h[5])
    BY ONLY <1>1, <1>2
  <1> QED
    BY ONLY <1>1, <1>2, <1>3

LEMMA RunsSix ==
  ASSUME NEW s, NEW t, NEW x1, NEW x2, NEW x3, NEW x4, NEW x5, NEW x6,
         Runs(<<x1, x2, x3, x4, x5, x6>>, s, t)
  PROVE  \E u1, u2, u3, u4, u5 :
           Did(x1, s, u1) /\ Did(x2, u1, u2) /\ Did(x3, u2, u3) /\ Did(x4, u3, u4) /\
           Did(x5, u4, u5) /\ Did(x6, u5, t)
  <1> PICK ms : ms = <<x1, x2, x3, x4, x5, x6>>
    OBVIOUS
  <1>1. Len(ms) = 6 /\ ms[1] = x1 /\ ms[2] = x2 /\ ms[3] = x3 /\ ms[4] = x4 /\ ms[5] = x5 /\
        ms[6] = x6
    OBVIOUS
  <1>2. PICK h : /\ h[0] = s /\ h[Len(ms)] = t
                 /\ \A i \in 1 .. Len(ms) : Did(ms[i], h[i - 1], h[i])
    BY DEF Runs
  <1>3. Did(x1, h[0], h[1]) /\ Did(x2, h[1], h[2]) /\ Did(x3, h[2], h[3]) /\
        Did(x4, h[3], h[4]) /\ Did(x5, h[4], h[5]) /\ Did(x6, h[5], h[6])
    BY ONLY <1>1, <1>2
  <1> QED
    BY ONLY <1>1, <1>2, <1>3

LEMMA RunsSeven ==
  ASSUME NEW s, NEW t, NEW x1, NEW x2, NEW x3, NEW x4, NEW x5, NEW x6, NEW x7,
         Runs(<<x1, x2, x3, x4, x5, x6, x7>>, s, t)
  PROVE  \E u1, u2, u3, u4, u5, u6 :
           Did(x1, s, u1) /\ Did(x2, u1, u2) /\ Did(x3, u2, u3) /\ Did(x4, u3, u4) /\
           Did(x5, u4, u5) /\ Did(x6, u5, u6) /\ Did(x7, u6, t)
  <1> PICK ms : ms = <<x1, x2, x3, x4, x5, x6, x7>>
    OBVIOUS
  <1>1. Len(ms) = 7 /\ ms[1] = x1 /\ ms[2] = x2 /\ ms[3] = x3 /\ ms[4] = x4 /\ ms[5] = x5 /\
        ms[6] = x6 /\ ms[7] = x7
    OBVIOUS
  <1>2. PICK h : /\ h[0] = s /\ h[Len(ms)] = t
                 /\ \A i \in 1 .. Len(ms) : Did(ms[i], h[i - 1], h[i])
    BY DEF Runs
  <1>3. Did(x1, h[0], h[1]) /\ Did(x2, h[1], h[2]) /\ Did(x3, h[2], h[3]) /\
        Did(x4, h[3], h[4]) /\ Did(x5, h[4], h[5]) /\ Did(x6, h[5], h[6]) /\ Did(x7, h[6], h[7])
    BY ONLY <1>1, <1>2
  <1> QED
    BY ONLY <1>1, <1>2, <1>3

LEMMA RunsEleven ==
  ASSUME NEW s, NEW t, NEW x1, NEW x2, NEW x3, NEW x4, NEW x5, NEW x6, NEW x7, NEW x8, NEW x9,
         NEW x10, NEW x11, Runs(<<x1, x2, x3, x4, x5, x6, x7, x8, x9, x10, x11>>, s, t)
  PROVE  \E u1, u2, u3, u4, u5, u6, u7, u8, u9, u10 :
           Did(x1, s, u1) /\ Did(x2, u1, u2) /\ Did(x3, u2, u3) /\ Did(x4, u3, u4) /\
           Did(x5, u4, u5) /\ Did(x6, u5, u6) /\ Did(x7, u6, u7) /\ Did(x8, u7, u8) /\
           Did(x9, u8, u9) /\ Did(x10, u9, u10) /\ Did(x11, u10, t)
  <1> PICK ms : ms = <<x1, x2, x3, x4, x5, x6, x7, x8, x9, x10, x11>>
    OBVIOUS
  <1>1. Len(ms) = 11 /\ ms[1] = x1 /\ ms[2] = x2 /\ ms[3] = x3 /\ ms[4] = x4 /\ ms[5] = x5 /\
        ms[6] = x6 /\ ms[7] = x7 /\ ms[8] = x8 /\ ms[9] = x9 /\ ms[10] = x10 /\ ms[11] = x11
    OBVIOUS
  <1>2. PICK h : /\ h[0] = s /\ h[Len(ms)] = t
                 /\ \A i \in 1 .. Len(ms) : Did(ms[i], h[i - 1], h[i])
    BY DEF Runs
  <1>3. Did(x1, h[0], h[1]) /\ Did(x2, h[1], h[2]) /\ Did(x3, h[2], h[3]) /\
        Did(x4, h[3], h[4]) /\ Did(x5, h[4], h[5]) /\ Did(x6, h[5], h[6]) /\
        Did(x7, h[6], h[7]) /\ Did(x8, h[7], h[8]) /\ Did(x9, h[8], h[9]) /\
        Did(x10, h[9], h[10]) /\ Did(x11, h[10], h[11])
    BY ONLY <1>1, <1>2
  <1> QED
    BY ONLY <1>1, <1>2, <1>3

LEMMA RunsTwelve ==
  ASSUME NEW s, NEW t, NEW x1, NEW x2, NEW x3, NEW x4, NEW x5, NEW x6, NEW x7, NEW x8, NEW x9,
         NEW x10, NEW x11, NEW x12,
         Runs(<<x1, x2, x3, x4, x5, x6, x7, x8, x9, x10, x11, x12>>, s, t)
  PROVE  \E u1, u2, u3, u4, u5, u6, u7, u8, u9, u10, u11 :
           Did(x1, s, u1) /\ Did(x2, u1, u2) /\ Did(x3, u2, u3) /\ Did(x4, u3, u4) /\
           Did(x5, u4, u5) /\ Did(x6, u5, u6) /\ Did(x7, u6, u7) /\ Did(x8, u7, u8) /\
           Did(x9, u8, u9) /\ Did(x10, u9, u10) /\ Did(x11, u10, u11) /\ Did(x12, u11, t)
  <1> PICK ms : ms = <<x1, x2, x3, x4, x5, x6, x7, x8, x9, x10, x11, x12>>
    OBVIOUS
  <1>1. Len(ms) = 12 /\ ms[1] = x1 /\ ms[2] = x2 /\ ms[3] = x3 /\ ms[4] = x4 /\ ms[5] = x5 /\
        ms[6] = x6 /\ ms[7] = x7 /\ ms[8] = x8 /\ ms[9] = x9 /\ ms[10] = x10 /\ ms[11] = x11 /\
        ms[12] = x12
    OBVIOUS
  <1>2. PICK h : /\ h[0] = s /\ h[Len(ms)] = t
                 /\ \A i \in 1 .. Len(ms) : Did(ms[i], h[i - 1], h[i])
    BY DEF Runs
  <1>3. Did(x1, h[0], h[1]) /\ Did(x2, h[1], h[2]) /\ Did(x3, h[2], h[3]) /\
        Did(x4, h[3], h[4]) /\ Did(x5, h[4], h[5]) /\ Did(x6, h[5], h[6]) /\
        Did(x7, h[6], h[7]) /\ Did(x8, h[7], h[8]) /\ Did(x9, h[8], h[9]) /\
        Did(x10, h[9], h[10]) /\ Did(x11, h[10], h[11]) /\ Did(x12, h[11], h[12])
    BY ONLY <1>1, <1>2
  <1> QED
    BY ONLY <1>1, <1>2, <1>3

LEMMA RunsThirteen ==
  ASSUME NEW s, NEW t, NEW x1, NEW x2, NEW x3, NEW x4, NEW x5, NEW x6, NEW x7, NEW x8, NEW x9,
         NEW x10, NEW x11, NEW x12, NEW x13,
         Runs(<<x1, x2, x3, x4, x5, x6, x7, x8, x9, x10, x11, x12, x13>>, s, t)
  PROVE  \E u1, u2, u3, u4, u5, u6, u7, u8, u9, u10, u11, u12 :
           Did(x1, s, u1) /\ Did(x2, u1, u2) /\ Did(x3, u2, u3) /\ Did(x4, u3, u4) /\
           Did(x5, u4, u5) /\ Did(x6, u5, u6) /\ Did(x7, u6, u7) /\ Did(x8, u7, u8) /\
           Did(x9, u8, u9) /\ Did(x10, u9, u10) /\ Did(x11, u10, u11) /\ Did(x12, u11, u12) /\
           Did(x13, u12, t)
  <1> PICK ms : ms = <<x1, x2, x3, x4, x5, x6, x7, x8, x9, x10, x11, x12, x13>>
    OBVIOUS
  <1>1. Len(ms) = 13 /\ ms[1] = x1 /\ ms[2] = x2 /\ ms[3] = x3 /\ ms[4] = x4 /\ ms[5] = x5 /\
        ms[6] = x6 /\ ms[7] = x7 /\ ms[8] = x8 /\ ms[9] = x9 /\ ms[10] = x10 /\ ms[11] = x11 /\
        ms[12] = x12 /\ ms[13] = x13
    OBVIOUS
  <1>2. PICK h : /\ h[0] = s /\ h[Len(ms)] = t
                 /\ \A i \in 1 .. Len(ms) : Did(ms[i], h[i - 1], h[i])
    BY DEF Runs
  <1>3. Did(x1, h[0], h[1]) /\ Did(x2, h[1], h[2]) /\ Did(x3, h[2], h[3]) /\
        Did(x4, h[3], h[4]) /\ Did(x5, h[4], h[5]) /\ Did(x6, h[5], h[6]) /\
        Did(x7, h[6], h[7]) /\ Did(x8, h[7], h[8]) /\ Did(x9, h[8], h[9]) /\
        Did(x10, h[9], h[10]) /\ Did(x11, h[10], h[11]) /\ Did(x12, h[11], h[12]) /\
        Did(x13, h[12], h[13])
    BY ONLY <1>1, <1>2
  <1> QED
    BY ONLY <1>1, <1>2, <1>3

-----------------------------------------------------------------------------
(* Slots read as sequences.                                                *)

Row(r, n) == [i \in 1 .. n |-> r[i - 1]]

(* A row is a sequence.                                                    *)
LEMMA RowIs ==
  ASSUME NEW r, NEW n \in Nat, NEW S, \A x \in 0 .. n - 1 : r[x] \in S
  PROVE  Row(r, n) \in Seq(S) /\ Len(Row(r, n)) = n /\ \A i \in 1 .. n : Row(r, n)[i] = r[i - 1]
  <1> PICK q : q = Row(r, n)
    OBVIOUS
  <1>1. \A i \in 1 .. n : i - 1 \in 0 .. n - 1
    OBVIOUS
  <1>2. q \in [1 .. n -> S]
    BY <1>1 DEF Row
  <1>3. q \in Seq(S) /\ Len(q) = n
    BY <1>2
  <1> QED
    BY <1>3 DEF Row

(* A sequence that is longer by an entry.                                  *)
LEMMA RowSame ==
  ASSUME NEW n \in Nat, NEW S, NEW q \in Seq(S), Len(q) = n, NEW r,
         \A i \in 1 .. n : q[i] = r[i - 1]
  PROVE  Row(r, n) = q
  <1>1. q = [i \in 1 .. n |-> q[i]]
    OBVIOUS
  <1> QED
    BY <1>1 DEF Row

InsertedRow(q, r, n, k, e) ==
  \A x \in 0 .. n : q[x] = IF x < k THEN r[x] ELSE IF x = k THEN e ELSE r[x - 1]

LEMMA RowInsert ==
  ASSUME NEW n \in Nat, NEW k \in 0 .. n, NEW e, NEW r, NEW q, InsertedRow(q, r, n, k, e)
  PROVE  Row(q, n + 1) = InsertAt(Row(r, n), k + 1, e)
  <1> PICK S : S = {r[x] : x \in 0 .. n - 1} \cup {e}
    OBVIOUS
  <1> PICK u : u = Row(r, n)
    OBVIOUS
  <1>0. \A x \in 0 .. n - 1 : r[x] \in S
    OBVIOUS
  <1>1. u \in Seq(S) /\ Len(u) = n /\ \A i \in 1 .. n : u[i] = r[i - 1]
    BY ONLY <1>0, RowIs, n \in Nat, u = Row(r, n)
  <1> PICK p : p = k + 1
    OBVIOUS
  <1>2. p \in 1 .. Len(u) + 1 /\ e \in S
    BY <1>1
  <1> PICK v : v = InsertAt(u, p, e)
    OBVIOUS
  <1>3. /\ v \in Seq(S) /\ Len(v) = n + 1
        /\ \A j \in 1 .. p - 1 : v[j] = u[j]
        /\ v[p] = e
        /\ \A j \in p + 1 .. n + 1 : v[j] = u[j - 1]
    <2>1. /\ v \in Seq(S) /\ Len(v) = Len(u) + 1
          /\ \A j \in 1 .. p - 1 : v[j] = u[j]
          /\ v[p] = e
          /\ \A j \in p + 1 .. Len(u) + 1 : v[j] = u[j - 1]
      <3>1. /\ InsertAt(u, p, e) \in Seq(S) /\ Len(InsertAt(u, p, e)) = Len(u) + 1
            /\ \A j \in 1 .. p - 1 : InsertAt(u, p, e)[j] = u[j]
            /\ InsertAt(u, p, e)[p] = e
            /\ \A j \in p + 1 .. Len(u) + 1 : InsertAt(u, p, e)[j] = u[j - 1]
        <4>1. u \in Seq(S)
          BY <1>1
        <4> QED
          BY ONLY <4>1, <1>2, Inserted
      <3> QED
        BY ONLY <3>1, v = InsertAt(u, p, e)
    <2> QED
      BY ONLY <1>1, <2>1
  <1>4. ASSUME NEW i \in 1 .. n + 1
        PROVE  v[i] = q[i - 1]
    <2> PICK x : x = i - 1
      OBVIOUS
    <2>1. x \in 0 .. n /\ i = x + 1
      OBVIOUS
    <2>2. q[x] = IF x < k THEN r[x] ELSE IF x = k THEN e ELSE r[x - 1]
      BY <2>1 DEF InsertedRow
    <2>3. CASE x < k
      BY <1>1, <1>3, <2>1, <2>2, <2>3
    <2>4. CASE x = k
      BY <1>3, <2>1, <2>2, <2>4
    <2>5. CASE x > k
      <3>1. i \in p + 1 .. n + 1 /\ i - 1 \in 1 .. n /\ i - 1 - 1 = x - 1
        BY <2>1, <2>5
      <3> QED
        BY <1>1, <1>3, <2>2, <2>5, <3>1
    <2> QED
      BY <2>1, <2>3, <2>4, <2>5
  <1>5. n + 1 \in Nat
    OBVIOUS
  <1> QED
    <2> PICK l \in Nat : l = n + 1
      BY <1>5
    <2>1. v \in Seq(S) /\ Len(v) = l /\ \A i \in 1 .. l : v[i] = q[i - 1]
      BY ONLY <1>3, <1>4, l = n + 1
    <2>2. Row(q, l) = v
      BY ONLY <2>1, l \in Nat, RowSame, Zenon
    <2> QED
      BY ONLY <2>2, l = n + 1, u = Row(r, n), v = InsertAt(u, p, e), p = k + 1

(* ... shorter by an entry.                                                *)
RemovedRow(q, r, n, k) == \A x \in 0 .. n - 2 : q[x] = IF x < k THEN r[x] ELSE r[x + 1]

LEMMA RowRemove ==
  ASSUME NEW n \in Nat, NEW k \in 0 .. n - 1, NEW r, NEW q, RemovedRow(q, r, n, k)
  PROVE  Row(q, n - 1) = RemoveAt(Row(r, n), k + 1)
  <1> PICK S : S = {r[x] : x \in 0 .. n - 1}
    OBVIOUS
  <1> PICK u : u = Row(r, n)
    OBVIOUS
  <1>0. \A x \in 0 .. n - 1 : r[x] \in S
    OBVIOUS
  <1>1. u \in Seq(S) /\ Len(u) = n /\ \A i \in 1 .. n : u[i] = r[i - 1]
    BY ONLY <1>0, RowIs, n \in Nat, u = Row(r, n)
  <1> PICK p : p = k + 1
    OBVIOUS
  <1>2. p \in 1 .. Len(u)
    BY <1>1
  <1> PICK v : v = RemoveAt(u, p)
    OBVIOUS
  <1>3. /\ v \in Seq(S) /\ Len(v) = n - 1
        /\ \A j \in 1 .. p - 1 : v[j] = u[j]
        /\ \A j \in p .. n - 1 : v[j] = u[j + 1]
    BY ONLY <1>1, <1>2, Removed, v = RemoveAt(u, p)
  <1>4. ASSUME NEW i \in 1 .. n - 1
        PROVE  v[i] = q[i - 1]
    <2> PICK x : x = i - 1
      OBVIOUS
    <2>1. x \in 0 .. n - 2 /\ i = x + 1
      OBVIOUS
    <2>2. q[x] = IF x < k THEN r[x] ELSE r[x + 1]
      BY <2>1 DEF RemovedRow
    <2>3. CASE x < k
      <3>1. i \in 1 .. p - 1 /\ i \in 1 .. n
        BY <2>1, <2>3
      <3>2. v[i] = u[i] /\ u[i] = r[i - 1]
        BY ONLY <1>1, <1>3, <3>1
      <3> QED
        BY ONLY <2>2, <2>3, <3>2, x = i - 1
    <2>4. CASE x >= k
      <3>1. i \in p .. n - 1 /\ i + 1 \in 1 .. n /\ i + 1 - 1 = x + 1
        BY <2>1, <2>4
      <3>2. v[i] = u[i + 1]
        BY ONLY <1>3, <3>1
      <3>3. u[i + 1] = r[x + 1]
        BY ONLY <1>1, <3>1
      <3>4. q[i - 1] = r[x + 1]
        BY ONLY <2>1, <2>2, <2>4, k \in 0 .. n - 1, n \in Nat
      <3> QED
        BY ONLY <3>2, <3>3, <3>4
    <2> QED
      BY <2>1, <2>3, <2>4
  <1>5. n - 1 \in Nat
    OBVIOUS
  <1> QED
    <2> PICK l \in Nat : l = n - 1
      BY <1>5
    <2>1. v \in Seq(S) /\ Len(v) = l /\ \A i \in 1 .. l : v[i] = q[i - 1]
      BY ONLY <1>3, <1>4, l = n - 1
    <2>2. Row(q, l) = v
      BY ONLY <2>1, l \in Nat, RowSame, Zenon
    <2> QED
      BY ONLY <2>2, l = n - 1, u = Row(r, n), v = RemoveAt(u, p), p = k + 1

(* ... a piece.                                                            *)
MovedRow(q, r, m, p) == \A x \in 0 .. m - 1 : q[x] = r[x + p]

LEMMA RowPiece ==
  ASSUME NEW n \in Nat, NEW p \in 0 .. n, NEW m \in 0 .. n - p, NEW r, NEW q, MovedRow(q, r, m, p)
  PROVE  Row(q, m) = SubSeq(Row(r, n), p + 1, p + m)
  <1> PICK S : S = {r[x] : x \in 0 .. n - 1}
    OBVIOUS
  <1> PICK u : u = Row(r, n)
    OBVIOUS
  <1>0. \A x \in 0 .. n - 1 : r[x] \in S
    OBVIOUS
  <1>1. u \in Seq(S) /\ Len(u) = n /\ \A i \in 1 .. n : u[i] = r[i - 1]
    BY ONLY <1>0, RowIs, n \in Nat, u = Row(r, n)
  <1> PICK i1 : i1 = p + 1
    OBVIOUS
  <1> PICK i2 : i2 = p + m
    OBVIOUS
  <1>2. i1 \in 1 .. Len(u) + 1 /\ i2 \in i1 - 1 .. Len(u) /\ i2 - i1 + 1 = m
    BY <1>1
  <1> PICK v : v = SubSeq(u, i1, i2)
    OBVIOUS
  <1>3. v \in Seq(S) /\ Len(v) = m
    BY ONLY <1>1, <1>2, Piece, v = SubSeq(u, i1, i2)
  <1>4. ASSUME NEW i \in 1 .. m
        PROVE  v[i] = q[i - 1]
    <2> PICK z : z = i1 + i - 1
      OBVIOUS
    <2>1. z \in 1 .. n /\ z - 1 = i - 1 + p /\ i - 1 \in 0 .. m - 1
      BY ONLY i1 = p + 1, p \in 0 .. n, m \in 0 .. n - p, n \in Nat, i \in 1 .. m, z = i1 + i - 1
    <2>2. v[i] = u[z]
      <3>1. i \in 1 .. i2 - i1 + 1
        BY ONLY <1>2, i \in 1 .. m
      <3>2. v[i] = u[i1 + i - 1]
        BY ONLY <1>1, <1>2, <3>1, Piece, v = SubSeq(u, i1, i2)
      <3> QED
        BY ONLY <3>2, z = i1 + i - 1
    <2>3. u[z] = r[z - 1]
      BY ONLY <1>1, <2>1
    <2>4. q[i - 1] = r[i - 1 + p]
      BY ONLY <2>1, MovedRow(q, r, m, p) DEF MovedRow
    <2> QED
      BY ONLY <2>1, <2>2, <2>3, <2>4
  <1>5. m \in Nat
    OBVIOUS
  <1> QED
    BY <1>3, <1>4, <1>5, RowSame

(* ... one after the other.                                                *)
JoinedRow(q, r, n, s, m) == \A x \in 0 .. n + m - 1 : q[x] = IF x < n THEN r[x] ELSE s[x - n]

LEMMA RowJoin ==
  ASSUME NEW n \in Nat, NEW m \in Nat, NEW r, NEW s, NEW q, JoinedRow(q, r, n, s, m)
  PROVE  Row(q, n + m) = Row(r, n) \o Row(s, m)
  <1> PICK S : S = {r[x] : x \in 0 .. n - 1} \cup {s[x] : x \in 0 .. m - 1}
    OBVIOUS
  <1> PICK u : u = Row(r, n)
    OBVIOUS
  <1> PICK w : w = Row(s, m)
    OBVIOUS
  <1>0. \A x \in 0 .. n - 1 : r[x] \in S
    OBVIOUS
  <1>1. u \in Seq(S) /\ Len(u) = n /\ \A i \in 1 .. n : u[i] = r[i - 1]
    BY ONLY <1>0, RowIs, n \in Nat, u = Row(r, n)
  <1>9. \A x \in 0 .. m - 1 : s[x] \in S
    OBVIOUS
  <1>2. w \in Seq(S) /\ Len(w) = m /\ \A i \in 1 .. m : w[i] = s[i - 1]
    BY ONLY <1>9, RowIs, m \in Nat, w = Row(s, m)
  <1> PICK v : v = u \o w
    OBVIOUS
  <1>3. /\ v \in Seq(S) /\ Len(v) = n + m
        /\ \A j \in 1 .. n : v[j] = u[j]
        /\ \A j \in n + 1 .. n + m : v[j] = w[j - n]
    <2>1. /\ v \in Seq(S) /\ Len(v) = Len(u) + Len(w)
          /\ \A j \in 1 .. Len(u) : v[j] = u[j]
          /\ \A j \in Len(u) + 1 .. Len(u) + Len(w) : v[j] = w[j - Len(u)]
      <3>1. u \in Seq(S) /\ w \in Seq(S)
        BY <1>1, <1>2
      <3> QED
        BY ONLY <3>1, Concat, v = u \o w, Zenon
    <2> QED
      BY ONLY <1>1, <1>2, <2>1
  <1>4. ASSUME NEW i \in 1 .. n + m
        PROVE  v[i] = q[i - 1]
    <2>1. i - 1 \in 0 .. n + m - 1 /\ (i - 1 < n <=> i <= n)
      BY ONLY n \in Nat, m \in Nat, i \in 1 .. n + m
    <2>2. q[i - 1] = IF i <= n THEN r[i - 1] ELSE s[i - 1 - n]
      BY ONLY <2>1, JoinedRow(q, r, n, s, m) DEF JoinedRow
    <2>3. CASE i <= n
      <3>1. i \in 1 .. n
        BY ONLY <2>3, n \in Nat, m \in Nat, i \in 1 .. n + m
      <3> QED
        BY ONLY <1>1, <1>3, <2>2, <2>3, <3>1
    <2>4. CASE ~(i <= n)
      <3>1. i \in n + 1 .. n + m /\ i - n \in 1 .. m /\ i - 1 - n = i - n - 1
        BY ONLY <2>4, n \in Nat, m \in Nat, i \in 1 .. n + m
      <3> QED
        BY ONLY <1>2, <1>3, <2>2, <2>4, <3>1
    <2> QED
      BY <2>3, <2>4
  <1>5. n + m \in Nat
    OBVIOUS
  <1> QED
    <2> PICK l \in Nat : l = n + m
      BY <1>5
    <2>1. v \in Seq(S) /\ Len(v) = l /\ \A i \in 1 .. l : v[i] = q[i - 1]
      BY ONLY <1>3, <1>4, l = n + m
    <2>2. Row(q, l) = v
      BY ONLY <2>1, l \in Nat, RowSame, Zenon
    <2> QED
      BY ONLY <2>2, l = n + m, v = u \o w, u = Row(r, n), w = Row(s, m)

(* ... with one entry replaced, or none.                                   *)
ReplacedRow(q, r, n, k, e) == \A x \in 0 .. n - 1 : q[x] = IF x = k THEN e ELSE r[x]
Put(u, p, e) == [u EXCEPT ![p] = e]

LEMMA RowReplace ==
  ASSUME NEW n \in Nat, NEW k \in 0 .. n - 1, NEW e, NEW r, NEW q, ReplacedRow(q, r, n, k, e)
  PROVE  Row(q, n) = Put(Row(r, n), k + 1, e)
  <1> PICK u : u = Row(r, n)
    OBVIOUS
  <1> PICK v : v = [u EXCEPT ![k + 1] = e]
    OBVIOUS
  <1>1. u = [i \in 1 .. n |-> r[i - 1]]
    BY DEF Row
  <1>2. v = [i \in 1 .. n |-> IF i = k + 1 THEN e ELSE r[i - 1]]
    BY <1>1
  <1>3. \A i \in 1 .. n : q[i - 1] = IF i = k + 1 THEN e ELSE r[i - 1]
    BY DEF ReplacedRow
  <1>4. Row(q, n) = v
    BY ONLY <1>2, <1>3 DEF Row
  <1> QED
    BY <1>4 DEF Put

-----------------------------------------------------------------------------
(* Keys and values of leaves, which move alike.                            *)

Cols == {"keys", "vals"}
At(n, X) == <<n, X>>

(* The arrays of keys and of values.                                       *)
LEMMA AtAre ==
  /\ \A n : K(n) = At(n, "keys") /\ V(n) = At(n, "vals") /\ C(n) = At(n, "children")
  /\ \A n \in Nodes : K(n) \in Arrays /\ V(n) \in Arrays /\ C(n) \in Arrays
  /\ \A n \in Nodes, X \in Cols : At(n, X) \in Arrays
  /\ \A n, m, X, Y : At(n, X) = At(m, Y) <=> n = m /\ X = Y
  <1>1. \A n : K(n) = At(n, "keys") /\ V(n) = At(n, "vals") /\ C(n) = At(n, "children")
    BY DEF K, V, C, At
  <1>2. \A n \in Nodes, X \in Cols : At(n, X) \in Arrays
    BY DEF At, Arrays, Cols
  <1>3. \A n, m, X, Y : At(n, X) = At(m, Y) <=> n = m /\ X = Y
    BY DEF At
  <1> QED
    BY <1>1, <1>2, <1>3, ArraysAre

LEMMA Apart ==
  ASSUME NEW n \in Nodes, NEW m \in Nodes
  PROVE  /\ K(n) \in Arrays /\ V(n) \in Arrays /\ C(n) \in Arrays
         /\ K(n) # V(m) /\ K(n) # C(m) /\ V(n) # C(m)
         /\ K(n) = K(m) <=> n = m
         /\ V(n) = V(m) <=> n = m
         /\ C(n) = C(m) <=> n = m
  BY AtAre

KVRowsBut(m, s, t) ==
  /\ \A n \in Nodes : n # m => t.mem[K(n)] = s.mem[K(n)] /\ t.mem[V(n)] = s.mem[V(n)]
  /\ \A n \in Nodes : t.mem[C(n)] = s.mem[C(n)]

KVCopied(n, i, m, j, c, s, t) ==
  /\ KVRowsBut(m, s, t) /\ t.local = s.local /\ Nodewise(s, t) /\ t.gone = s.gone
  /\ CopiedRow(t.mem[K(m)], s.mem[K(n)], s.mem[K(m)], j, i, c)
  /\ CopiedRow(t.mem[V(m)], s.mem[V(n)], s.mem[V(m)], j, i, c)

KVZeroed(m, j, c, s, t) ==
  /\ KVRowsBut(m, s, t) /\ t.local = s.local /\ Nodewise(s, t) /\ t.gone = s.gone
  /\ ZeroedRow(t.mem[K(m)], s.mem[K(m)], j, c)
  /\ ZeroedRow(t.mem[V(m)], s.mem[V(m)], j, c)

(* What copying and zeroing keys and values does to both.                  *)
LEMMA CopyKVDid ==
  ASSUME NEW n \in Nodes, NEW m \in Nodes, NEW i, NEW j, NEW c, NEW s, NEW t,
         Runs(CopyKV(n, i, m, j, c), s, t)
  PROVE  KVCopied(n, i, m, j, c, s, t)
  <1>1. PICK u : Did(Copy(K(n), i, K(m), j, c), s, u) /\ Did(Copy(V(n), i, V(m), j, c), u, t)
    BY RunsTwo DEF CopyKV
  <1>2. CopyDid(K(n), i, K(m), j, c, s, u) /\ CopyDid(V(n), i, V(m), j, c, u, t)
    BY <1>1, DidWhat
  <1>3. \A a \in Nodes : K(a) # V(m) /\ C(a) # V(m) /\ V(a) # K(m) /\ C(a) # K(m)
                         /\ K(a) \in Arrays /\ V(a) \in Arrays /\ C(a) \in Arrays
                         /\ (a # m => K(a) # K(m) /\ V(a) # V(m))
    BY Apart
  <1>4. \A a \in Nodes : /\ a # m => u.mem[K(a)] = s.mem[K(a)] /\ t.mem[V(a)] = u.mem[V(a)]
                         /\ t.mem[K(a)] = u.mem[K(a)] /\ u.mem[V(a)] = s.mem[V(a)]
                         /\ u.mem[C(a)] = s.mem[C(a)] /\ t.mem[C(a)] = u.mem[C(a)]
    BY <1>2, <1>3 DEF CopyDid, RowsBut
  <1>5. KVRowsBut(m, s, t)
    BY <1>4 DEF KVRowsBut
  <1>6. t.local = s.local /\ Nodewise(s, t) /\ t.gone = s.gone
    BY <1>2 DEF CopyDid, Nodewise
  <1>7. CopiedRow(t.mem[K(m)], s.mem[K(n)], s.mem[K(m)], j, i, c)
    <2>1. CopiedRow(u.mem[K(m)], s.mem[K(n)], s.mem[K(m)], j, i, c)
      BY <1>2 DEF CopyDid
    <2> QED
      BY <1>4, <2>1
  <1>8. CopiedRow(t.mem[V(m)], s.mem[V(n)], s.mem[V(m)], j, i, c)
    <2>1. CopiedRow(t.mem[V(m)], u.mem[V(n)], u.mem[V(m)], j, i, c)
      BY <1>2 DEF CopyDid
    <2> QED
      BY <1>4, <2>1
  <1> QED
    BY <1>5, <1>6, <1>7, <1>8 DEF KVCopied

LEMMA ZeroKVDid ==
  ASSUME NEW m \in Nodes, NEW j, NEW c, NEW s, NEW t, Runs(ZeroKV(m, j, c), s, t)
  PROVE  KVZeroed(m, j, c, s, t)
  <1>1. PICK u : Did(Zero(K(m), j, c), s, u) /\ Did(Zero(V(m), j, c), u, t)
    BY RunsTwo DEF ZeroKV
  <1>2. ZeroDid(K(m), j, c, s, u) /\ ZeroDid(V(m), j, c, u, t)
    BY <1>1, DidWhat
  <1>3. \A a \in Nodes : K(a) # V(m) /\ C(a) # V(m) /\ V(a) # K(m) /\ C(a) # K(m)
                         /\ K(a) \in Arrays /\ V(a) \in Arrays /\ C(a) \in Arrays
                         /\ (a # m => K(a) # K(m) /\ V(a) # V(m))
    BY Apart
  <1>4. \A a \in Nodes : /\ a # m => u.mem[K(a)] = s.mem[K(a)] /\ t.mem[V(a)] = u.mem[V(a)]
                         /\ t.mem[K(a)] = u.mem[K(a)] /\ u.mem[V(a)] = s.mem[V(a)]
                         /\ u.mem[C(a)] = s.mem[C(a)] /\ t.mem[C(a)] = u.mem[C(a)]
    BY <1>2, <1>3 DEF ZeroDid, RowsBut
  <1>5. KVRowsBut(m, s, t)
    BY <1>4 DEF KVRowsBut
  <1>6. t.local = s.local /\ Nodewise(s, t) /\ t.gone = s.gone
    BY <1>2 DEF ZeroDid, Nodewise
  <1>7. ZeroedRow(t.mem[K(m)], s.mem[K(m)], j, c)
    <2>1. ZeroedRow(u.mem[K(m)], s.mem[K(m)], j, c)
      BY <1>2 DEF ZeroDid
    <2> QED
      BY <1>4, <2>1
  <1>8. ZeroedRow(t.mem[V(m)], s.mem[V(m)], j, c)
    <2>1. ZeroedRow(t.mem[V(m)], u.mem[V(m)], j, c)
      BY <1>2 DEF ZeroDid
    <2> QED
      BY <1>4, <2>1
  <1> QED
    BY <1>5, <1>6, <1>7, <1>8 DEF KVZeroed

(* shift_right makes room at idx, write_kv_at fills it.                    *)
KVInserted(n, idx, l, s, t) ==
  /\ KVRowsBut(n, s, t) /\ Nodewise(s, t) /\ t.gone = s.gone
  /\ InsertedRow(t.mem[K(n)], s.mem[K(n)], l, idx, s.local["key"])
  /\ InsertedRow(t.mem[V(n)], s.mem[V(n)], l, idx, s.local["value"])

LEMMA ShiftedRow ==
  ASSUME NEW idx \in Nat, NEW l \in Nat, idx <= l, MaxCap \in Nat, l <= MaxCap,
         NEW p, p = idx + 1, NEW c, c = l - idx,
         NEW r, NEW q, CopiedRow(q, r, r, p, idx, c),
         NEW w, NEW v, WrittenRow(w, q, idx, v)
  PROVE  InsertedRow(w, r, l, idx, v)
  <1> SUFFICES ASSUME NEW x \in 0 .. l
               PROVE  w[x] = IF x < idx THEN r[x] ELSE IF x = idx THEN v ELSE r[x - 1]
    BY DEF InsertedRow
  <1>1. x \in Index
    BY DEF Index
  <1>2. w[x] = IF x = idx THEN v ELSE q[x]
    BY <1>1 DEF WrittenRow
  <1>3. q[x] = IF p <= x /\ x < p + c THEN r[x - p + idx] ELSE r[x]
    BY <1>1 DEF CopiedRow
  <1>4. x > idx => p <= x /\ x < p + c /\ x - p + idx = x - 1
    OBVIOUS
  <1>5. x < idx => ~(p <= x)
    OBVIOUS
  <1> QED
    BY <1>2, <1>3, <1>4, <1>5

(* shift_right and write_kv_at insert an entry into both.                  *)
LEMMA ShiftWriteDid ==
  ASSUME NEW n \in Nodes, NEW idx \in Nat, NEW l \in Nat, idx <= l, MaxCap \in Nat, l <= MaxCap,
         NEW s, NEW t, Runs(shift_and_write(n, idx, l), s, t)
  PROVE  KVInserted(n, idx, l, s, t)
  <1>1. IsSeq(shift_right(n, idx, l)) /\ IsSeq(write_kv_at(n, idx))
    BY SeqsAre, Zenon DEF shift_right, write_kv_at, CopyKV
  <1>2. PICK u : Runs(shift_right(n, idx, l), s, u) /\ Runs(write_kv_at(n, idx), u, t)
    BY <1>1, RunsParts DEF shift_and_write
  <1>3. KVCopied(n, idx, n, idx + 1, l - idx, s, u)
    <2>1. CASE idx < l
      BY <1>2, <2>1, CopyKVDid DEF shift_right
    <2>2. CASE ~(idx < l)
      <3>1. u = s
        <4>1. Runs(<<>>, s, u)
          BY <1>2, <2>2 DEF shift_right
        <4> QED
          BY <4>1 DEF Runs
      <3>2. \A x \in Index : ~(idx + 1 <= x /\ x < idx + 1 + (l - idx))
        BY <2>2 DEF Index
      <3> QED
        BY <3>1, <3>2 DEF KVCopied, KVRowsBut, Nodewise, CopiedRow
    <2> QED
      BY <2>1, <2>2
  <1>4. PICK w : Did(Write(K(n), idx, "key"), u, w) /\ Did(Write(V(n), idx, "value"), w, t)
    BY <1>2, RunsTwo DEF write_kv_at
  <1>5. WriteDid(K(n), idx, "key", u, w) /\ WriteDid(V(n), idx, "value", w, t)
    BY <1>4, DidWhat
  <1>6. \A a \in Nodes : K(a) # V(n) /\ C(a) # V(n) /\ V(a) # K(n) /\ C(a) # K(n)
                         /\ K(a) \in Arrays /\ V(a) \in Arrays /\ C(a) \in Arrays
                         /\ (a # n => K(a) # K(n) /\ V(a) # V(n))
    BY Apart
  <1>7. \A a \in Nodes : /\ a # n => w.mem[K(a)] = u.mem[K(a)] /\ t.mem[V(a)] = w.mem[V(a)]
                         /\ t.mem[K(a)] = w.mem[K(a)] /\ w.mem[V(a)] = u.mem[V(a)]
                         /\ w.mem[C(a)] = u.mem[C(a)] /\ t.mem[C(a)] = w.mem[C(a)]
    BY <1>5, <1>6 DEF WriteDid, RowsBut
  <1>8. KVRowsBut(n, s, t)
    BY <1>3, <1>7 DEF KVRowsBut, KVCopied
  <1>9. Nodewise(s, t) /\ t.gone = s.gone
    BY <1>3, <1>5 DEF WriteDid, Nodewise, KVCopied
  <1>10. w.local["value"] = u.local["value"]
    BY <1>5, LocalsAre DEF WriteDid, LocalsBut
  <1>11. u.local = s.local
    BY <1>3 DEF KVCopied
  <1>12. WrittenRow(t.mem[K(n)], u.mem[K(n)], idx, s.local["key"])
    BY <1>5, <1>7, <1>11 DEF WriteDid
  <1>13. WrittenRow(t.mem[V(n)], u.mem[V(n)], idx, s.local["value"])
    BY <1>5, <1>7, <1>10, <1>11 DEF WriteDid
  <1>14. /\ CopiedRow(u.mem[K(n)], s.mem[K(n)], s.mem[K(n)], idx + 1, idx, l - idx)
         /\ CopiedRow(u.mem[V(n)], s.mem[V(n)], s.mem[V(n)], idx + 1, idx, l - idx)
    BY <1>3 DEF KVCopied
  <1>15. InsertedRow(t.mem[K(n)], s.mem[K(n)], l, idx, s.local["key"])
    BY <1>12, <1>14, ShiftedRow
  <1>16. InsertedRow(t.mem[V(n)], s.mem[V(n)], l, idx, s.local["value"])
    BY <1>13, <1>14, ShiftedRow
  <1> QED
    BY <1>8, <1>9, <1>15, <1>16 DEF KVInserted

-----------------------------------------------------------------------------
(* What the procedures leave in the slots, of a job j from state s to t.   *)

Keys(s, n) == Row(s.mem[K(n)], s.len[n])
Vals(s, n) == Row(s.mem[V(n)], s.len[n])
Kids(s, n) == Row(s.mem[C(n)], s.len[n] + 1)

(* A state to start from.                                                  *)
Begins(j, s) ==
  /\ s.len["A"] = j.a /\ s.len["B"] = j.b /\ s.len["P"] = j.p
  /\ j.proc \in {"insert_into_leaf_slot", "leaf_replace", "leaf_split"} =>
       s.local["key"] = New("keys") /\ s.local["value"] = New("vals")
  /\ j.proc \in OnOneBranch => s.local["key"] = New("keys") /\ s.local["right"] = New("children")
  /\ s.freed = {} /\ s.gone = 0

(* The numbers of a job that may start.                                    *)
LEMMA JobIs ==
  ASSUME NEW j \in Jobs
  PROVE  /\ MaxCap \in Nat /\ MaxCap >= 1
         /\ j.lcap \in 1 .. MaxCap /\ j.bcap \in 1 .. MaxCap
         /\ j.a \in Nat /\ j.b \in Nat /\ j.p \in Nat /\ j.idx \in Nat
         /\ j.a <= MaxCap /\ j.b <= MaxCap /\ j.p <= MaxCap
  BY MaxCapAssumption DEF Jobs

(* What the lengths are at the start, of one node and of siblings.         *)
LEMMA OneLen ==
  ASSUME NEW n, NEW l, NEW s, NEW t, Runs(<<SetLen(n, l)>>, s, t)
  PROVE  LenDid(n, l, s, t)
  <1>1. Did(SetLen(n, l), s, t)
    BY RunsOne
  <1> QED
    BY <1>1, DidWhat

LEMMA TwoLens ==
  ASSUME NEW n \in Nodes, NEW m \in Nodes, n # m, NEW l, NEW k, NEW s, NEW t,
         Runs(<<SetLen(n, l), SetLen(m, k)>>, s, t)
  PROVE  /\ t.mem = s.mem /\ t.local = s.local /\ t.entry = s.entry /\ t.freed = s.freed
         /\ t.gone = s.gone /\ t.len[n] = l /\ t.len[m] = k
         /\ \A a \in Nodes \ {n, m} : t.len[a] = s.len[a]
  <1>1. PICK u : Did(SetLen(n, l), s, u) /\ Did(SetLen(m, k), u, t)
    BY RunsTwo
  <1>2. LenDid(n, l, s, u) /\ LenDid(m, k, u, t)
    BY <1>1, DidWhat
  <1> QED
    BY <1>2 DEF LenDid

(* A gap that is closed.                                                   *)
LEMMA ClosedRow ==
  ASSUME NEW n \in Nat, NEW k \in 0 .. n - 1, MaxCap \in Nat, n <= MaxCap + 2,
         NEW r, NEW q, CopiedRow(q, r, r, k, k + 1, n - k - 1)
  PROVE  RemovedRow(q, r, n, k)
  <1> SUFFICES ASSUME NEW x \in 0 .. n - 2
               PROVE  q[x] = IF x < k THEN r[x] ELSE r[x + 1]
    BY DEF RemovedRow
  <1>1. x \in Index
    BY DEF Index
  <1>2. q[x] = IF k <= x /\ x < k + (n - k - 1) THEN r[x - k + (k + 1)] ELSE r[x]
    BY <1>1 DEF CopiedRow
  <1>3. x < k + (n - k - 1) /\ x - k + (k + 1) = x + 1 /\ (x < k <=> ~(k <= x))
    OBVIOUS
  <1> QED
    BY <1>2, <1>3

(* insert_into_leaf_slot inserts the item.                                 *)
LEMMA InsertHolds ==
  ASSUME NEW j \in Jobs, CanStart(j), j.proc = "insert_into_leaf_slot",
         NEW s, NEW t, Begins(j, s), Runs(insert_into_leaf_slot(j), s, t)
  PROVE  /\ Keys(t, "A") = InsertAt(Keys(s, "A"), j.idx + 1, New("keys"))
         /\ Vals(t, "A") = InsertAt(Vals(s, "A"), j.idx + 1, New("vals"))
  <1>1. j.a \in Nat /\ j.idx \in 0 .. j.a /\ j.a <= MaxCap /\ MaxCap \in Nat
    BY JobIs DEF CanStart
  <1>2. s.len["A"] = j.a /\ s.local["key"] = New("keys") /\ s.local["value"] = New("vals")
    BY DEF Begins
  <1>3. PICK u : Runs(shift_and_write("A", j.idx, j.a), s, u) /\ Runs(<<SetLen("A", j.a + 1)>>, u, t)
    <2>1. IsSeq(shift_and_write("A", j.idx, j.a)) /\ IsSeq(<<SetLen("A", j.a + 1)>>)
      BY SeqsAre, IsSeqJoin, Zenon DEF shift_and_write, shift_right, write_kv_at, CopyKV
    <2> QED
      BY <2>1, RunsParts DEF insert_into_leaf_slot
  <1>4. KVInserted("A", j.idx, j.a, s, u)
    BY <1>1, <1>3, NodesAre, ShiftWriteDid
  <1>5. t.mem = u.mem /\ t.len["A"] = j.a + 1
    BY <1>3, OneLen DEF LenDid
  <1>6. /\ InsertedRow(t.mem[K("A")], s.mem[K("A")], j.a, j.idx, New("keys"))
        /\ InsertedRow(t.mem[V("A")], s.mem[V("A")], j.a, j.idx, New("vals"))
    BY <1>2, <1>4, <1>5 DEF KVInserted
  <1> QED
    BY <1>1, <1>2, <1>5, <1>6, RowInsert DEF Keys, Vals

(* insert of a key that is there replaces the value alone.                 *)
LEMMA ReplaceHolds ==
  ASSUME NEW j \in Jobs, CanStart(j), j.proc = "leaf_replace",
         NEW s, NEW t, Begins(j, s), Runs(leaf_replace(j), s, t)
  PROVE  /\ Keys(t, "A") = Keys(s, "A")
         /\ Vals(t, "A") = [Vals(s, "A") EXCEPT ![j.idx + 1] = New("vals")]
         /\ t.local["old"] = Vals(s, "A")[j.idx + 1]
  <1>1. j.a \in Nat /\ j.idx \in 0 .. j.a - 1 /\ j.a <= MaxCap /\ MaxCap \in Nat
    BY JobIs DEF CanStart
  <1>2. s.len["A"] = j.a /\ s.local["value"] = New("vals")
    BY DEF Begins
  <1>3. PICK u1, u2 : /\ Did(Read(V("A"), j.idx, "old"), s, u1)
                      /\ Did(Write(V("A"), j.idx, "value"), u1, u2)
                      /\ Did(DropLocal("key"), u2, t)
    BY RunsThree DEF leaf_replace
  <1>4. ReadDid(V("A"), j.idx, "old", s, u1)
    BY <1>3, DidWhat
  <1>5. WriteDid(V("A"), j.idx, "value", u1, u2)
    BY <1>3, DidWhat
  <1>6. DropDid("key", u2, t)
    BY <1>3, DidWhat
  <1>7. t.len["A"] = j.a /\ t.mem = u2.mem
    BY <1>2, <1>4, <1>5, <1>6 DEF ReadDid, WriteDid, DropDid, Nodewise
  <1>8. t.mem[K("A")] = s.mem[K("A")]
    BY <1>4, <1>5, <1>7, Apart, NodesAre DEF ReadDid, WriteDid, RowsBut
  <1>9. u1.local["value"] = New("vals")
    BY <1>2, <1>4, LocalsAre DEF ReadDid, LocalsBut
  <1>10. ReplacedRow(t.mem[V("A")], s.mem[V("A")], j.a, j.idx, New("vals"))
    <2>1. \A x \in 0 .. j.a - 1 : x \in Index
      BY <1>1 DEF Index
    <2> QED
      BY <1>4, <1>5, <1>7, <1>9, <2>1 DEF ReadDid, WriteDid, WrittenRow, ReplacedRow
  <1>11. t.local["old"] = s.mem[V("A")][j.idx]
    <2>1. t.local["old"] = u2.local["old"]
      BY <1>6, LocalsAre DEF DropDid, LocalsBut
    <2>2. u2.local["old"] = u1.local["old"]
      BY <1>5, LocalsAre DEF WriteDid, LocalsBut
    <2> QED
      BY <1>4, <2>1, <2>2 DEF ReadDid
  <1>12. Vals(s, "A")[j.idx + 1] = s.mem[V("A")][j.idx]
    BY <1>1, <1>2 DEF Vals, Row
  <1>13. Keys(t, "A") = Keys(s, "A")
    BY <1>2, <1>7, <1>8 DEF Keys
  <1>14. Vals(t, "A") = [Vals(s, "A") EXCEPT ![j.idx + 1] = New("vals")]
    <2>0. j.idx \in 0 .. j.a - 1 /\ j.a \in Nat
      BY <1>1
    <2>1. Row(t.mem[V("A")], j.a) = Put(Row(s.mem[V("A")], j.a), j.idx + 1, New("vals"))
      BY ONLY <1>1, <2>0, <1>10, RowReplace
    <2> QED
      BY ONLY <2>1, <1>2, <1>7 DEF Vals, Put
  <1> QED
    BY <1>11, <1>12, <1>13, <1>14

(* leaf_remove removes the item.                                           *)
LEMMA RemoveHolds ==
  ASSUME NEW j \in Jobs, CanStart(j), j.proc = "leaf_remove",
         NEW s, NEW t, Begins(j, s), Runs(leaf_remove(j), s, t)
  PROVE  /\ Keys(t, "A") = RemoveAt(Keys(s, "A"), j.idx + 1)
         /\ Vals(t, "A") = RemoveAt(Vals(s, "A"), j.idx + 1)
         /\ t.local["value"] = Vals(s, "A")[j.idx + 1]
  <1>1. j.a \in Nat /\ j.idx \in 0 .. j.a - 1 /\ j.a <= MaxCap /\ MaxCap \in Nat
    BY JobIs DEF CanStart
  <1>2. s.len["A"] = j.a
    BY DEF Begins
  <1> DEFINE p1 == <<Read(K("A"), j.idx, "removed_key"), Read(V("A"), j.idx, "value")>>
             p2 == shift_left_kv("A", j.idx, j.a - j.idx - 1)
             p3 == <<SetLen("A", j.a - 1), DropLocal("removed_key")>>
  <1>3. PICK u, v : Runs(p1, s, u) /\ Runs(p2, u, v) /\ Runs(p3, v, t)
    <2>1. IsSeq(p1) /\ IsSeq(p2) /\ IsSeq(p3)
      BY SeqsAre, Zenon DEF shift_left_kv, CopyKV
    <2>2. Runs((p1 \o p2) \o p3, s, t)
      BY DEF leaf_remove
    <2> HIDE DEF p1, p2, p3
    <2> QED
      BY ONLY <2>1, <2>2, IsSeqJoin, RunsParts
  <1>4. PICK w : ReadDid(K("A"), j.idx, "removed_key", s, w) /\ ReadDid(V("A"), j.idx, "value", w, u)
    <2>1. PICK w : /\ Did(Read(K("A"), j.idx, "removed_key"), s, w)
                   /\ Did(Read(V("A"), j.idx, "value"), w, u)
      BY <1>3, RunsTwo
    <2> QED
      BY <2>1, DidWhat
  <1>5. KVCopied("A", j.idx + 1, "A", j.idx, j.a - j.idx - 1, u, v)
    BY <1>3, CopyKVDid, NodesAre DEF shift_left_kv
  <1>6. PICK x : LenDid("A", j.a - 1, v, x) /\ DropDid("removed_key", x, t)
    <2>1. PICK x : /\ Did(SetLen("A", j.a - 1), v, x) /\ Did(DropLocal("removed_key"), x, t)
      BY <1>3, RunsTwo
    <2> QED
      BY <2>1, DidWhat
  <1>7. u.mem = s.mem
    BY <1>4 DEF ReadDid
  <1>8. t.mem = v.mem /\ t.len["A"] = j.a - 1
    BY <1>6 DEF LenDid, DropDid, Nodewise
  <1>9. /\ CopiedRow(t.mem[K("A")], s.mem[K("A")], s.mem[K("A")], j.idx, j.idx + 1, j.a - j.idx - 1)
        /\ CopiedRow(t.mem[V("A")], s.mem[V("A")], s.mem[V("A")], j.idx, j.idx + 1, j.a - j.idx - 1)
    BY <1>5, <1>7, <1>8 DEF KVCopied
  <1>10. /\ RemovedRow(t.mem[K("A")], s.mem[K("A")], j.a, j.idx)
         /\ RemovedRow(t.mem[V("A")], s.mem[V("A")], j.a, j.idx)
    BY <1>1, <1>9, ClosedRow
  <1>11. t.local["value"] = s.mem[V("A")][j.idx]
    <2>1. x.local = v.local /\ v.local = u.local
      BY <1>5, <1>6 DEF LenDid, KVCopied
    <2>2. t.local["value"] = x.local["value"]
      BY <1>6, LocalsAre DEF DropDid, LocalsBut
    <2>3. u.local["value"] = w.mem[V("A")][j.idx] /\ w.mem = s.mem
      BY <1>4 DEF ReadDid
    <2> QED
      BY <2>1, <2>2, <2>3
  <1>12. Vals(s, "A")[j.idx + 1] = s.mem[V("A")][j.idx]
    BY <1>1, <1>2 DEF Vals, Row
  <1>13. /\ Keys(t, "A") = RemoveAt(Keys(s, "A"), j.idx + 1)
         /\ Vals(t, "A") = RemoveAt(Vals(s, "A"), j.idx + 1)
    BY <1>1, <1>2, <1>8, <1>10, RowRemove DEF Keys, Vals
  <1> QED
    BY <1>11, <1>12, <1>13

-----------------------------------------------------------------------------
(* The halves of a leaf that is split.                                     *)

IsHalf(h, n) == h = (n + 1) \div 2

LEMMA HalfIs ==
  ASSUME NEW n \in Nat, n >= 1
  PROVE  \E h \in 1 .. n : IsHalf(h, n)
  BY DEF IsHalf

LEMMA RowLen ==
  ASSUME NEW n \in Nat, NEW r
  PROVE  Len(Row(r, n)) = n
  <1> PICK S : S = {r[x] : x \in 0 .. n - 1}
    OBVIOUS
  <1>1. \A x \in 0 .. n - 1 : r[x] \in S
    OBVIOUS
  <1> QED
    BY ONLY <1>1, RowIs, n \in Nat

LEMMA SplitLow ==
  ASSUME NEW n \in Nat, NEW h \in 1 .. n, IsHalf(h, n), NEW g \in 0 .. n - 1, g = h - 1,
         NEW k \in 0 .. g, NEW e,
         NEW r, NEW w, NEW q, NEW z, MovedRow(w, r, g, 0), InsertedRow(q, w, g, k, e),
         MovedRow(z, r, n - g, g)
  PROVE  /\ Row(q, h) = LeafSplitLeft(Row(r, n), k, e)
         /\ Row(z, n - g) = LeafSplitRight(Row(r, n), k, e)
  <1> PICK u : u = Row(r, n)
    OBVIOUS
  <1>1. /\ g \in Nat /\ g \in 0 .. n /\ 0 \in 0 .. n /\ g \in 0 .. n - 0 /\ n - g \in 0 .. n - g
        /\ k \in 0 .. g /\ g + 1 = h /\ n + 1 - h = n - g /\ g + (n - g) = n /\ 0 + g = g /\ 0 + 1 = 1
    OBVIOUS
  <1>2. Len(u) = n
    BY RowLen
  <1>3. Row(w, g) = SubSeq(u, 1, g)
    <2>1. MovedRow(w, r, g, 0)
      OBVIOUS
    <2>2. Row(w, g) = SubSeq(Row(r, n), 0 + 1, 0 + g)
      BY ONLY <1>1, <2>1, n \in Nat, RowPiece
    <2> QED
      BY ONLY <1>1, <2>2, u = Row(r, n)
  <1>4. Row(z, n - g) = SubSeq(u, g + 1, n)
    <2>1. MovedRow(z, r, n - g, g)
      OBVIOUS
    <2>2. Row(z, n - g) = SubSeq(Row(r, n), g + 1, g + (n - g))
      <3> PICK d : d = n - g
        OBVIOUS
      <3>1. g \in 0 .. n /\ d \in 0 .. n - g /\ MovedRow(z, r, d, g)
        BY <1>1, <2>1
      <3>2. Row(z, d) = SubSeq(Row(r, n), g + 1, g + d)
        BY ONLY <3>1, n \in Nat, RowPiece
      <3> QED
        BY ONLY <3>2, d = n - g
    <2> QED
      BY ONLY <1>1, <2>2, u = Row(r, n)
  <1>5. Row(q, h) = InsertAt(SubSeq(u, 1, g), k + 1, e)
    <2>1. InsertedRow(q, w, g, k, e)
      OBVIOUS
    <2>2. Row(q, g + 1) = InsertAt(Row(w, g), k + 1, e)
      BY ONLY <1>1, <2>1, RowInsert
    <2> QED
      BY ONLY <1>1, <1>3, <2>2
  <1>6. LeftCount(u) = h /\ k < h /\ LeftKeep(u, k) = g
    BY <1>2 DEF LeftCount, LeftKeep, IsHalf
  <1>7. LeafSplitLeft(u, k, e) = InsertAt(SubSeq(u, 1, g), k + 1, e)
    BY ONLY <1>6, Zenon DEF LeafSplitLeft
  <1>8. LeafSplitRight(u, k, e) = SubSeq(u, g + 1, n)
    BY ONLY <1>2, <1>6, Zenon DEF LeafSplitRight
  <1> QED
    BY <1>1, <1>4, <1>5, <1>7, <1>8

LEMMA SplitHigh ==
  ASSUME NEW n \in Nat, NEW h \in 1 .. n, IsHalf(h, n), NEW k \in h .. n, NEW e,
         NEW r, NEW w, NEW q, NEW z, MovedRow(q, r, h, 0), MovedRow(w, r, n - h, h),
         InsertedRow(z, w, n - h, k - h, e)
  PROVE  /\ Row(q, h) = LeafSplitLeft(Row(r, n), k, e)
         /\ Row(z, n - h + 1) = LeafSplitRight(Row(r, n), k, e)
  <1> PICK u : u = Row(r, n)
    OBVIOUS
  <1>1. /\ h \in Nat /\ h \in 0 .. n /\ 0 \in 0 .. n /\ h \in 0 .. n - 0 /\ n - h \in 0 .. n - h
        /\ n - h \in Nat /\ k - h \in 0 .. n - h /\ h + (n - h) = n /\ 0 + h = h /\ 0 + 1 = 1
    OBVIOUS
  <1>2. Len(u) = n
    BY RowLen
  <1>3. Row(q, h) = SubSeq(u, 1, h)
    <2>2. Row(q, h) = SubSeq(Row(r, n), 0 + 1, 0 + h)
      BY ONLY <1>1, MovedRow(q, r, h, 0), n \in Nat, RowPiece
    <2> QED
      BY ONLY <1>1, <2>2, u = Row(r, n)
  <1>4. Row(w, n - h) = SubSeq(u, h + 1, n)
    <2>2. Row(w, n - h) = SubSeq(Row(r, n), h + 1, h + (n - h))
      BY ONLY <1>1, MovedRow(w, r, n - h, h), n \in Nat, RowPiece
    <2> QED
      BY ONLY <1>1, <2>2, u = Row(r, n)
  <1>5. Row(z, n - h + 1) = InsertAt(SubSeq(u, h + 1, n), k - h + 1, e)
    <2>2. Row(z, n - h + 1) = InsertAt(Row(w, n - h), k - h + 1, e)
      BY ONLY <1>1, InsertedRow(z, w, n - h, k - h, e), RowInsert
    <2> QED
      BY ONLY <1>4, <2>2
  <1>6. LeftCount(u) = h /\ ~(k < h) /\ LeftKeep(u, k) = h
    BY <1>2 DEF LeftCount, LeftKeep, IsHalf
  <1>7. LeafSplitLeft(u, k, e) = SubSeq(u, 1, h)
    BY ONLY <1>6, Zenon DEF LeafSplitLeft
  <1>8. LeafSplitRight(u, k, e) = InsertAt(SubSeq(u, h + 1, n), k - h + 1, e)
    BY ONLY <1>2, <1>6, Zenon DEF LeafSplitRight
  <1> QED
    BY <1>1, <1>3, <1>5, <1>7, <1>8

LEMMA MovedUp ==
  ASSUME NEW n \in Nat, NEW p \in Nat, MaxCap \in Nat, n <= MaxCap,
         NEW q, NEW r, NEW w, CopiedRow(q, r, w, 0, p, n)
  PROVE  MovedRow(q, r, n, p)
  <1> SUFFICES ASSUME NEW x \in 0 .. n - 1
               PROVE  q[x] = r[x + p]
    BY DEF MovedRow
  <1>1. x \in Index
    BY DEF Index
  <1>2. q[x] = IF 0 <= x /\ x < 0 + n THEN r[x - 0 + p] ELSE w[x]
    BY <1>1 DEF CopiedRow
  <1> QED
    BY <1>2

LEMMA ZeroedBelow ==
  ASSUME NEW n \in Nat, NEW c, MaxCap \in Nat, n <= MaxCap + 2,
         NEW q, NEW r, ZeroedRow(q, r, n, c)
  PROVE  MovedRow(q, r, n, 0)
  <1> SUFFICES ASSUME NEW x \in 0 .. n - 1
               PROVE  q[x] = r[x + 0]
    BY DEF MovedRow
  <1>1. x \in Index /\ ~(n <= x) /\ x + 0 = x
    BY DEF Index
  <1>2. q[x] = IF n <= x /\ x < n + c THEN Zeros ELSE r[x]
    BY <1>1 DEF ZeroedRow
  <1> QED
    BY <1>1, <1>2

(* Both halves of a leaf, with the new item in its place.                  *)
LEMMA LeafSplitHolds ==
  ASSUME NEW j \in Jobs, CanStart(j), j.proc = "leaf_split",
         NEW s, NEW t, Begins(j, s), Runs(leaf_split(j), s, t)
  PROVE  /\ Keys(t, "A") = LeafSplitLeft(Keys(s, "A"), j.idx, New("keys"))
         /\ Vals(t, "A") = LeafSplitLeft(Vals(s, "A"), j.idx, New("vals"))
         /\ Keys(t, "B") = LeafSplitRight(Keys(s, "A"), j.idx, New("keys"))
         /\ Vals(t, "B") = LeafSplitRight(Vals(s, "A"), j.idx, New("vals"))
         /\ t.local["sep_key"] = CloneOf(Keys(t, "B")[1])
  <1>1. j.a \in Nat /\ j.a >= 1 /\ j.idx \in 0 .. j.a /\ j.a <= MaxCap /\ MaxCap \in Nat
    BY JobIs DEF CanStart, Cap, OnOneLeaf
  <1>2. s.len["A"] = j.a /\ s.local["key"] = New("keys") /\ s.local["value"] = New("vals")
    BY DEF Begins
  <1>3. PICK h \in 1 .. j.a : IsHalf(h, j.a)
    BY <1>1, HalfIs
  <1> PICK keep : keep = IF j.idx < h THEN h - 1 ELSE h
    OBVIOUS
  <1>4. keep \in Nat /\ keep <= j.a /\ j.a - keep \in Nat
    BY <1>1, <1>3
  <1> DEFINE p1 == CopyKV("A", keep, "B", 0, j.a - keep)
             p2 == ZeroKV("A", keep, j.a - keep)
             p3 == IF j.idx < h
                   THEN shift_and_write("A", j.idx, keep)
                        \o <<SetLen("A", h), SetLen("B", j.a + 1 - h)>>
                   ELSE shift_and_write("B", j.idx - keep, j.a - keep)
                        \o <<SetLen("A", keep), SetLen("B", j.a - keep + 1)>>
             p4 == <<Enter({"A", "B"}), Clone(K("B"), 0, "sep_key")>>
  <1>5. leaf_split(j) = p1 \o p2 \o p3 \o p4
    BY ONLY <1>3, keep = IF j.idx < h THEN h - 1 ELSE h, Zenon DEF leaf_split, IsHalf
  <1>6. \A n, i, l : IsSeq(shift_and_write(n, i, l))
    BY SeqsAre, IsSeqJoin, Zenon DEF shift_and_write, shift_right, write_kv_at, CopyKV
  <1>7. IsSeq(p1) /\ IsSeq(p2) /\ IsSeq(p3) /\ IsSeq(p4)
    <2>1. IsSeq(p1) /\ IsSeq(p2) /\ IsSeq(p4)
      BY SeqsAre, Zenon DEF CopyKV, ZeroKV
    <2>2. IsSeq(p3)
      BY <1>6, SeqsAre, IsSeqJoin, Zenon
    <2> QED
      BY ONLY <2>1, <2>2
  <1>8. PICK u, v, w : Runs(p1, s, u) /\ Runs(p2, u, v) /\ Runs(p3, v, w) /\ Runs(p4, w, t)
    <2>1. Runs(p1 \o p2 \o p3 \o p4, s, t)
      BY <1>5
    <2> HIDE DEF p1, p2, p3, p4
    <2> QED
      BY ONLY <1>7, <2>1, IsSeqJoin, RunsParts
  <1>9. KVCopied("A", keep, "B", 0, j.a - keep, s, u)
    BY <1>8, CopyKVDid, NodesAre
  <1>10. KVZeroed("A", keep, j.a - keep, u, v)
    BY <1>8, ZeroKVDid, NodesAre
  <1>11. PICK x : EnterDid({"A", "B"}, w, x) /\ CloneDid(K("B"), 0, "sep_key", x, t)
    <2>1. PICK x : Did(Enter({"A", "B"}), w, x) /\ Did(Clone(K("B"), 0, "sep_key"), x, t)
      BY <1>8, RunsTwo
    <2> QED
      BY <2>1, DidWhat
  <1>12. t.mem = w.mem /\ t.len = w.len /\ t.local["sep_key"] = CloneOf(t.mem[K("B")][0])
    BY <1>11 DEF EnterDid, CloneDid, Nodewise
  <1>13. v.local["key"] = New("keys") /\ v.local["value"] = New("vals")
    BY <1>2, <1>9, <1>10 DEF KVCopied, KVZeroed
  <1>14. /\ MovedRow(v.mem[K("B")], s.mem[K("A")], j.a - keep, keep)
         /\ MovedRow(v.mem[V("B")], s.mem[V("A")], j.a - keep, keep)
    <2>1. v.mem[K("B")] = u.mem[K("B")] /\ v.mem[V("B")] = u.mem[V("B")]
      BY <1>10, NodesAre DEF KVZeroed, KVRowsBut
    <2> QED
      BY <1>1, <1>4, <1>9, <2>1, MovedUp DEF KVCopied
  <1>15. /\ MovedRow(v.mem[K("A")], s.mem[K("A")], keep, 0)
         /\ MovedRow(v.mem[V("A")], s.mem[V("A")], keep, 0)
    <2>1. u.mem[K("A")] = s.mem[K("A")] /\ u.mem[V("A")] = s.mem[V("A")]
      BY <1>9, NodesAre DEF KVCopied, KVRowsBut
    <2> QED
      BY <1>1, <1>4, <1>10, <2>1, ZeroedBelow DEF KVZeroed
  <1>16. CASE j.idx < h
    <2>1. keep = h - 1 /\ j.idx \in 0 .. h - 1
      BY <1>1, <1>3, <1>16
    <2>2. PICK y : /\ Runs(shift_and_write("A", j.idx, keep), v, y)
                   /\ Runs(<<SetLen("A", h), SetLen("B", j.a + 1 - h)>>, y, w)
      BY <1>6, <1>8, <1>16, SeqsAre, RunsParts
    <2>3. KVInserted("A", j.idx, keep, v, y)
      BY <1>1, <1>3, <1>4, <2>1, <2>2, NodesAre, ShiftWriteDid
    <2>4. w.mem = y.mem /\ w.len["A"] = h /\ w.len["B"] = j.a + 1 - h
      BY <2>2, NodesAre, TwoLens
    <2>5. /\ InsertedRow(t.mem[K("A")], v.mem[K("A")], keep, j.idx, New("keys"))
          /\ InsertedRow(t.mem[V("A")], v.mem[V("A")], keep, j.idx, New("vals"))
      BY <1>12, <1>13, <2>1, <2>3, <2>4 DEF KVInserted
    <2>6. t.mem[K("B")] = v.mem[K("B")] /\ t.mem[V("B")] = v.mem[V("B")]
      BY <1>12, <2>3, <2>4, NodesAre DEF KVInserted, KVRowsBut
    <2>11. /\ MovedRow(v.mem[K("A")], s.mem[K("A")], keep, 0)
           /\ MovedRow(v.mem[V("A")], s.mem[V("A")], keep, 0)
           /\ MovedRow(t.mem[K("B")], s.mem[K("A")], j.a - keep, keep)
           /\ MovedRow(t.mem[V("B")], s.mem[V("A")], j.a - keep, keep)
      BY <1>14, <1>15, <2>6
    <2>7. /\ Row(t.mem[K("A")], h) = LeafSplitLeft(Row(s.mem[K("A")], j.a), j.idx, New("keys"))
          /\ Row(t.mem[K("B")], j.a - keep) = LeafSplitRight(Row(s.mem[K("A")], j.a), j.idx, New("keys"))
      <3>1. j.a \in Nat /\ h \in 1 .. j.a /\ IsHalf(h, j.a) /\ j.idx \in 0 .. keep /\ keep = h - 1 /\ keep \in 0 .. j.a - 1
        BY <1>1, <1>3, <2>1
      <3>2. MovedRow(v.mem[K("A")], s.mem[K("A")], keep, 0)
        BY <2>11
      <3>3. MovedRow(t.mem[K("B")], s.mem[K("A")], j.a - keep, keep)
        BY <2>11
      <3>4. InsertedRow(t.mem[K("A")], v.mem[K("A")], keep, j.idx, New("keys"))
        BY <2>5
      <3> PICK q, r, o, z, n, k, e :
            /\ q = t.mem[K("A")] /\ r = s.mem[K("A")] /\ o = v.mem[K("A")] /\ z = t.mem[K("B")]
            /\ n = j.a /\ k = j.idx /\ e = New("keys")
        OBVIOUS
      <3>5. n \in Nat /\ h \in 1 .. n /\ IsHalf(h, n) /\ k \in 0 .. keep /\ keep = h - 1 /\ keep \in 0 .. n - 1
        BY <3>1
      <3>6. MovedRow(o, r, keep, 0) /\ MovedRow(z, r, n - keep, keep) /\ InsertedRow(q, o, keep, k, e)
        BY <3>2, <3>3, <3>4
      <3>7. Row(q, h) = LeafSplitLeft(Row(r, n), k, e) /\ Row(z, n - keep) = LeafSplitRight(Row(r, n), k, e)
        BY ONLY <3>5, <3>6, SplitLow
      <3> QED
        BY <3>7
    <2>8. /\ Row(t.mem[V("A")], h) = LeafSplitLeft(Row(s.mem[V("A")], j.a), j.idx, New("vals"))
          /\ Row(t.mem[V("B")], j.a - keep) = LeafSplitRight(Row(s.mem[V("A")], j.a), j.idx, New("vals"))
      <3>1. j.a \in Nat /\ h \in 1 .. j.a /\ IsHalf(h, j.a) /\ j.idx \in 0 .. keep /\ keep = h - 1 /\ keep \in 0 .. j.a - 1
        BY <1>1, <1>3, <2>1
      <3>2. MovedRow(v.mem[V("A")], s.mem[V("A")], keep, 0)
        BY <2>11
      <3>3. MovedRow(t.mem[V("B")], s.mem[V("A")], j.a - keep, keep)
        BY <2>11
      <3>4. InsertedRow(t.mem[V("A")], v.mem[V("A")], keep, j.idx, New("vals"))
        BY <2>5
      <3> PICK q, r, o, z, n, k, e :
            /\ q = t.mem[V("A")] /\ r = s.mem[V("A")] /\ o = v.mem[V("A")] /\ z = t.mem[V("B")]
            /\ n = j.a /\ k = j.idx /\ e = New("vals")
        OBVIOUS
      <3>5. n \in Nat /\ h \in 1 .. n /\ IsHalf(h, n) /\ k \in 0 .. keep /\ keep = h - 1 /\ keep \in 0 .. n - 1
        BY <3>1
      <3>6. MovedRow(o, r, keep, 0) /\ MovedRow(z, r, n - keep, keep) /\ InsertedRow(q, o, keep, k, e)
        BY <3>2, <3>3, <3>4
      <3>7. Row(q, h) = LeafSplitLeft(Row(r, n), k, e) /\ Row(z, n - keep) = LeafSplitRight(Row(r, n), k, e)
        BY ONLY <3>5, <3>6, SplitLow
      <3> QED
        BY <3>7
    <2>9. t.len["A"] = h /\ t.len["B"] = j.a - keep /\ 1 \in 1 .. j.a - keep
      BY <1>1, <1>3, <1>12, <2>1, <2>4
    <2>10. Keys(t, "B")[1] = t.mem[K("B")][0]
      BY <2>9 DEF Keys, Row
    <2> QED
      BY <1>2, <1>12, <2>7, <2>8, <2>9, <2>10 DEF Keys, Vals
  <1>17. CASE ~(j.idx < h)
    <2>1. keep = h /\ j.idx \in h .. j.a /\ j.idx - h \in Nat /\ j.idx - h <= j.a - h /\ j.a - h \in Nat
      BY <1>1, <1>3, <1>17
    <2>2. PICK y : /\ Runs(shift_and_write("B", j.idx - h, j.a - h), v, y)
                   /\ Runs(<<SetLen("A", h), SetLen("B", j.a - h + 1)>>, y, w)
      <3>1. Runs(p3, v, w) /\ ~(j.idx < h) /\ keep = h
        BY <1>8, <1>17, <2>1
      <3> QED
        BY <1>6, <3>1, SeqsAre, RunsParts
    <2>3. KVInserted("B", j.idx - h, j.a - h, v, y)
      <3>1. j.a - h <= MaxCap
        BY <1>1, <1>3
      <3> QED
        BY <1>1, <2>1, <2>2, <3>1, NodesAre, ShiftWriteDid
    <2>4. w.mem = y.mem /\ w.len["A"] = h /\ w.len["B"] = j.a - h + 1
      BY <2>2, NodesAre, TwoLens
    <2>5. /\ InsertedRow(t.mem[K("B")], v.mem[K("B")], j.a - h, j.idx - h, New("keys"))
          /\ InsertedRow(t.mem[V("B")], v.mem[V("B")], j.a - h, j.idx - h, New("vals"))
      BY <1>12, <1>13, <2>1, <2>3, <2>4 DEF KVInserted
    <2>6. t.mem[K("A")] = v.mem[K("A")] /\ t.mem[V("A")] = v.mem[V("A")]
      BY <1>12, <2>3, <2>4, NodesAre DEF KVInserted, KVRowsBut
    <2>11. /\ MovedRow(t.mem[K("A")], s.mem[K("A")], h, 0)
           /\ MovedRow(t.mem[V("A")], s.mem[V("A")], h, 0)
           /\ MovedRow(v.mem[K("B")], s.mem[K("A")], j.a - h, h)
           /\ MovedRow(v.mem[V("B")], s.mem[V("A")], j.a - h, h)
      BY <1>14, <1>15, <2>1, <2>6
    <2>7. /\ Row(t.mem[K("A")], h) = LeafSplitLeft(Row(s.mem[K("A")], j.a), j.idx, New("keys"))
          /\ Row(t.mem[K("B")], j.a - h + 1) = LeafSplitRight(Row(s.mem[K("A")], j.a), j.idx, New("keys"))
      <3>1. j.a \in Nat /\ h \in 1 .. j.a /\ IsHalf(h, j.a) /\ j.idx \in h .. j.a
        BY <1>1, <1>3, <2>1
      <3>2. MovedRow(t.mem[K("A")], s.mem[K("A")], h, 0)
        BY <2>11
      <3>3. MovedRow(v.mem[K("B")], s.mem[K("A")], j.a - h, h)
        BY <2>11
      <3>4. InsertedRow(t.mem[K("B")], v.mem[K("B")], j.a - h, j.idx - h, New("keys"))
        BY <2>5
      <3> QED
        BY ONLY <3>1, <3>2, <3>3, <3>4, SplitHigh
    <2>8. /\ Row(t.mem[V("A")], h) = LeafSplitLeft(Row(s.mem[V("A")], j.a), j.idx, New("vals"))
          /\ Row(t.mem[V("B")], j.a - h + 1) = LeafSplitRight(Row(s.mem[V("A")], j.a), j.idx, New("vals"))
      <3>1. j.a \in Nat /\ h \in 1 .. j.a /\ IsHalf(h, j.a) /\ j.idx \in h .. j.a
        BY <1>1, <1>3, <2>1
      <3>2. MovedRow(t.mem[V("A")], s.mem[V("A")], h, 0)
        BY <2>11
      <3>3. MovedRow(v.mem[V("B")], s.mem[V("A")], j.a - h, h)
        BY <2>11
      <3>4. InsertedRow(t.mem[V("B")], v.mem[V("B")], j.a - h, j.idx - h, New("vals"))
        BY <2>5
      <3> QED
        BY ONLY <3>1, <3>2, <3>3, <3>4, SplitHigh
    <2>9. t.len["A"] = h /\ t.len["B"] = j.a - h + 1 /\ 1 \in 1 .. j.a - h + 1
      BY <1>1, <1>3, <1>12, <2>4
    <2>10. Keys(t, "B")[1] = t.mem[K("B")][0]
      BY <2>9 DEF Keys, Row
    <2> QED
      BY <1>2, <1>12, <2>7, <2>8, <2>9, <2>10 DEF Keys, Vals
  <1> QED
    BY <1>16, <1>17

(* A separator and its child go into a branch with room.                   *)
LEMMA BranchInsertHolds ==
  ASSUME NEW j \in Jobs, CanStart(j), j.proc = "branch_insert",
         NEW s, NEW t, Begins(j, s), Runs(branch_insert(j), s, t)
  PROVE  /\ Keys(t, "A") = InsertAt(Keys(s, "A"), j.idx + 1, New("keys"))
         /\ Kids(t, "A") = InsertAt(Kids(s, "A"), j.idx + 2, New("children"))
  <1>1. /\ j.a \in Nat /\ j.idx \in 0 .. j.a /\ j.a + 1 <= MaxCap /\ MaxCap \in Nat
        /\ j.idx + 1 \in 0 .. j.a + 1
    BY JobIs DEF CanStart, Cap
  <1>2. s.len["A"] = j.a /\ s.local["key"] = New("keys") /\ s.local["right"] = New("children")
    BY DEF Begins, OnOneBranch
  <1>3. PICK u1, u2, u3, u4 :
          /\ Did(Copy(K("A"), j.idx, K("A"), j.idx + 1, j.a - j.idx), s, u1)
          /\ Did(Write(K("A"), j.idx, "key"), u1, u2)
          /\ Did(Copy(C("A"), j.idx + 1, C("A"), j.idx + 2, j.a - j.idx), u2, u3)
          /\ Did(Write(C("A"), j.idx + 1, "right"), u3, u4)
          /\ Did(SetLen("A", j.a + 1), u4, t)
    BY RunsFive DEF branch_insert
  <1>4. /\ CopyDid(K("A"), j.idx, K("A"), j.idx + 1, j.a - j.idx, s, u1)
        /\ WriteDid(K("A"), j.idx, "key", u1, u2)
        /\ CopyDid(C("A"), j.idx + 1, C("A"), j.idx + 2, j.a - j.idx, u2, u3)
        /\ WriteDid(C("A"), j.idx + 1, "right", u3, u4)
        /\ LenDid("A", j.a + 1, u4, t)
    BY <1>3, DidWhat
  <1>5. K("A") \in Arrays /\ C("A") \in Arrays /\ K("A") # C("A")
    BY Apart, NodesAre
  <1>6. t.mem[K("A")] = u2.mem[K("A")] /\ u2.mem[C("A")] = s.mem[C("A")]
        /\ t.mem[C("A")] = u4.mem[C("A")]
    BY <1>4, <1>5 DEF CopyDid, WriteDid, LenDid, RowsBut
  <1>7. u1.local["key"] = New("keys") /\ u3.local["right"] = New("children")
    BY <1>2, <1>4, LocalsAre DEF CopyDid, WriteDid, LocalsBut
  <1>8. InsertedRow(t.mem[K("A")], s.mem[K("A")], j.a, j.idx, New("keys"))
    <2>1. CopiedRow(u1.mem[K("A")], s.mem[K("A")], s.mem[K("A")], j.idx + 1, j.idx, j.a - j.idx)
      BY <1>4 DEF CopyDid
    <2>2. WrittenRow(t.mem[K("A")], u1.mem[K("A")], j.idx, New("keys"))
      BY <1>4, <1>6, <1>7 DEF WriteDid
    <2> QED
      BY <1>1, <2>1, <2>2, ShiftedRow
  <1>9. InsertedRow(t.mem[C("A")], s.mem[C("A")], j.a + 1, j.idx + 1, New("children"))
    <2>1. CopiedRow(u3.mem[C("A")], s.mem[C("A")], s.mem[C("A")], j.idx + 2, j.idx + 1, j.a - j.idx)
      BY <1>4, <1>6 DEF CopyDid
    <2>2. WrittenRow(t.mem[C("A")], u3.mem[C("A")], j.idx + 1, New("children"))
      BY <1>4, <1>6, <1>7 DEF WriteDid
    <2>3. /\ j.idx + 1 \in Nat /\ j.a + 1 \in Nat /\ j.idx + 1 <= j.a + 1
          /\ j.idx + 2 = (j.idx + 1) + 1 /\ j.a - j.idx = (j.a + 1) - (j.idx + 1)
      BY <1>1
    <2> QED
      BY <1>1, <2>1, <2>2, <2>3, ShiftedRow
  <1>10. t.len["A"] = j.a + 1
    BY <1>4 DEF LenDid
  <1>11. Keys(t, "A") = InsertAt(Keys(s, "A"), j.idx + 1, New("keys"))
    BY <1>1, <1>2, <1>8, <1>10, RowInsert DEF Keys
  <1>12. Kids(t, "A") = InsertAt(Kids(s, "A"), j.idx + 2, New("children"))
    <2>1. Row(t.mem[C("A")], j.a + 1 + 1) = InsertAt(Row(s.mem[C("A")], j.a + 1), j.idx + 1 + 1, New("children"))
      BY <1>1, <1>9, RowInsert
    <2>2. j.idx + 1 + 1 = j.idx + 2
      BY <1>1
    <2> QED
      BY <1>2, <1>10, <2>1, <2>2 DEF Kids
  <1> QED
    BY <1>11, <1>12

-----------------------------------------------------------------------------
(* The halves of a branch that is split: of its keys r and children c.     *)

LEMMA RowFrom ==
  ASSUME NEW n \in Nat, NEW p \in 0 .. n, NEW r, NEW q, MovedRow(q, r, n - p, p)
  PROVE  Row(q, n - p) = SubSeq(Row(r, n), p + 1, n)
  <1>1. n - p \in 0 .. n - p /\ p + (n - p) = n
    OBVIOUS
  <1>2. Row(q, n - p) = SubSeq(Row(r, n), p + 1, p + (n - p))
    BY ONLY <1>1, RowPiece, n \in Nat, p \in 0 .. n, MovedRow(q, r, n - p, p)
  <1> QED
    BY <1>1, <1>2

LEMMA RowUpTo ==
  ASSUME NEW n \in Nat, NEW m \in 0 .. n, NEW r, NEW q, MovedRow(q, r, m, 0)
  PROVE  Row(q, m) = SubSeq(Row(r, n), 1, m)
  <1>1. m \in 0 .. n - 0 /\ 0 \in 0 .. n /\ 0 + m = m /\ 0 + 1 = 1
    OBVIOUS
  <1>2. Row(q, m) = SubSeq(Row(r, n), 0 + 1, 0 + m)
    BY ONLY <1>1, RowPiece, n \in Nat, MovedRow(q, r, m, 0)
  <1> QED
    BY <1>1, <1>2

LEMMA RowAt ==
  ASSUME NEW n \in Nat, NEW k \in 0 .. n - 1, NEW r
  PROVE  Row(r, n)[k + 1] = r[k]
  <1>1. k + 1 \in 1 .. n /\ k + 1 - 1 = k
    OBVIOUS
  <1> QED
    BY <1>1 DEF Row

LEMMA BranchLow ==
  ASSUME NEW n \in Nat, NEW h \in 1 .. n, IsHalf(h, n), NEW g \in 0 .. n - 1, g = h - 1,
         NEW k \in 0 .. g, NEW e, NEW f, NEW r, NEW c, NEW w, NEW d, NEW ka, NEW ca, NEW kb, NEW cb,
         MovedRow(w, r, g, 0), InsertedRow(ka, w, g, k, e),
         MovedRow(d, c, h, 0), InsertedRow(ca, d, h, k + 1, f),
         MovedRow(kb, r, n - h, h), MovedRow(cb, c, n + 1 - h, h),
         NEW b, b = BranchSplit(Row(r, n), Row(c, n + 1), k, e, f)
  PROVE  /\ Row(ka, h) = b.lkeys /\ Row(ca, h + 1) = b.lchilds
         /\ Row(kb, n - h) = b.rkeys /\ Row(cb, n + 1 - h) = b.rchilds
         /\ b.promote = r[h - 1]
  <1> PICK ks : ks = Row(r, n)
    OBVIOUS
  <1> PICK cs : cs = Row(c, n + 1)
    OBVIOUS
  <1>1. /\ g \in Nat /\ g \in 0 .. n /\ g + 1 = h /\ h \in Nat /\ h \in 0 .. n /\ h \in 0 .. n + 1
        /\ n + 1 \in Nat /\ k \in Nat /\ k + 1 \in 0 .. h /\ k + 1 + 1 = k + 2 /\ k < h
        /\ h - 1 = g /\ g \in 0 .. n - 1
    OBVIOUS
  <1>2. Len(ks) = n /\ LeftKeys(ks) = h
    BY RowLen DEF LeftKeys, IsHalf
  <1>3. /\ b.promote = ks[h]
        /\ b.lkeys = InsertAt(SubSeq(ks, 1, h - 1), k + 1, e)
        /\ b.lchilds = InsertAt(SubSeq(cs, 1, h), k + 2, f)
        /\ b.rkeys = SubSeq(ks, h + 1, n)
        /\ b.rchilds = SubSeq(cs, h + 1, n + 1)
    <2>1. k < h /\ k # h /\ ~(k > h)
      OBVIOUS
    <2>2. b = BranchSplit(ks, cs, k, e, f)
      OBVIOUS
    <2> QED
      BY ONLY <1>2, <2>1, <2>2 DEF BranchSplit
  <1>4. Row(w, g) = SubSeq(ks, 1, g)
    BY ONLY <1>1, RowUpTo, n \in Nat, MovedRow(w, r, g, 0), ks = Row(r, n)
  <1>5. Row(ka, g + 1) = InsertAt(Row(w, g), k + 1, e)
    BY ONLY <1>1, k \in 0 .. g, InsertedRow(ka, w, g, k, e), RowInsert
  <1>6. Row(d, h) = SubSeq(cs, 1, h)
    BY ONLY <1>1, RowUpTo, MovedRow(d, c, h, 0), cs = Row(c, n + 1)
  <1>7. Row(ca, h + 1) = InsertAt(Row(d, h), k + 1 + 1, f)
    BY ONLY <1>1, InsertedRow(ca, d, h, k + 1, f), RowInsert
  <1>8. Row(kb, n - h) = SubSeq(ks, h + 1, n)
    BY ONLY <1>1, n \in Nat, RowFrom, MovedRow(kb, r, n - h, h), ks = Row(r, n)
  <1>9. Row(cb, n + 1 - h) = SubSeq(cs, h + 1, n + 1)
    BY ONLY <1>1, RowFrom, MovedRow(cb, c, n + 1 - h, h), cs = Row(c, n + 1)
  <1>10. ks[h] = r[h - 1]
    BY ONLY <1>1, n \in Nat, RowAt, ks = Row(r, n)
  <1> QED
    BY ONLY <1>1, <1>3, <1>4, <1>5, <1>6, <1>7, <1>8, <1>9, <1>10

OneIs(one, f) == one[0] = f

LEMMA BranchEqual ==
  ASSUME NEW n \in Nat, NEW h \in 1 .. n, IsHalf(h, n), NEW e, NEW f, NEW r, NEW c,
         NEW ka, NEW ca, NEW kb, NEW cb, NEW one, NEW z,
         MovedRow(ka, r, h, 0), MovedRow(ca, c, h + 1, 0), MovedRow(kb, r, n - h, h),
         OneIs(one, f), MovedRow(z, c, n - h, h + 1), JoinedRow(cb, one, 1, z, n - h),
         NEW b, b = BranchSplit(Row(r, n), Row(c, n + 1), h, e, f)
  PROVE  /\ Row(ka, h) = b.lkeys /\ Row(ca, h + 1) = b.lchilds
         /\ Row(kb, n - h) = b.rkeys /\ Row(cb, n + 1 - h) = b.rchilds
         /\ b.promote = e
  <1> PICK ks : ks = Row(r, n)
    OBVIOUS
  <1> PICK cs : cs = Row(c, n + 1)
    OBVIOUS
  <1>1. /\ h \in Nat /\ h \in 0 .. n /\ h + 1 \in 0 .. n + 1
        /\ n + 1 \in Nat /\ n - h \in Nat /\ 1 + (n - h) = n + 1 - h /\ (n + 1) - (h + 1) = n - h
        /\ h + 1 + 1 = h + 2 /\ 1 \in Nat
    OBVIOUS
  <1>2. Len(ks) = n /\ LeftKeys(ks) = h
    BY RowLen DEF LeftKeys, IsHalf
  <1>3. /\ b.promote = e
        /\ b.lkeys = SubSeq(ks, 1, h)
        /\ b.lchilds = SubSeq(cs, 1, h + 1)
        /\ b.rkeys = SubSeq(ks, h + 1, n)
        /\ b.rchilds = <<f>> \o SubSeq(cs, h + 2, n + 1)
    <2>1. ~(h < h) /\ ~(h > h)
      OBVIOUS
    <2>2. b = BranchSplit(ks, cs, h, e, f)
      OBVIOUS
    <2> QED
      BY ONLY <1>2, <2>1, <2>2 DEF BranchSplit
  <1>4. Row(ka, h) = SubSeq(ks, 1, h)
    BY ONLY <1>1, RowUpTo, n \in Nat, MovedRow(ka, r, h, 0), ks = Row(r, n)
  <1>5. Row(ca, h + 1) = SubSeq(cs, 1, h + 1)
    BY ONLY <1>1, RowUpTo, MovedRow(ca, c, h + 1, 0), cs = Row(c, n + 1)
  <1>6. Row(kb, n - h) = SubSeq(ks, h + 1, n)
    BY ONLY <1>1, n \in Nat, RowFrom, MovedRow(kb, r, n - h, h), ks = Row(r, n)
  <1>7. Row(z, n - h) = SubSeq(cs, h + 2, n + 1)
    <2>1. MovedRow(z, c, (n + 1) - (h + 1), h + 1)
      BY ONLY <1>1, MovedRow(z, c, n - h, h + 1)
    <2>2. Row(z, (n + 1) - (h + 1)) = SubSeq(Row(c, n + 1), h + 1 + 1, n + 1)
      BY ONLY <1>1, <2>1, RowFrom
    <2> QED
      BY ONLY <1>1, <2>2, cs = Row(c, n + 1)
  <1>8. Row(one, 1) = <<f>>
    BY DEF Row, OneIs
  <1>9. Row(cb, n + 1 - h) = <<f>> \o SubSeq(cs, h + 2, n + 1)
    <2>1. Row(cb, 1 + (n - h)) = Row(one, 1) \o Row(z, n - h)
      BY ONLY <1>1, JoinedRow(cb, one, 1, z, n - h), RowJoin
    <2> QED
      BY ONLY <1>1, <1>7, <1>8, <2>1
  <1> QED
    BY ONLY <1>3, <1>4, <1>5, <1>6, <1>9

LEMMA BranchHigh ==
  ASSUME NEW n \in Nat, NEW h \in 1 .. n, IsHalf(h, n), NEW k \in h + 1 .. n,
         NEW e, NEW f, NEW r, NEW c, NEW w, NEW d, NEW ka, NEW ca, NEW kb, NEW cb,
         MovedRow(ka, r, h, 0), MovedRow(ca, c, h + 1, 0),
         MovedRow(w, r, n - (h + 1), h + 1), InsertedRow(kb, w, n - (h + 1), k - h - 1, e),
         MovedRow(d, c, n - h, h + 1), InsertedRow(cb, d, n - h, k - h, f),
         NEW b, b = BranchSplit(Row(r, n), Row(c, n + 1), k, e, f)
  PROVE  /\ Row(ka, h) = b.lkeys /\ Row(ca, h + 1) = b.lchilds
         /\ Row(kb, n - h) = b.rkeys /\ Row(cb, n - h + 1) = b.rchilds
         /\ b.promote = r[h]
  <1> PICK ks : ks = Row(r, n)
    OBVIOUS
  <1> PICK cs : cs = Row(c, n + 1)
    OBVIOUS
  <1>1. /\ h \in Nat /\ h \in 0 .. n /\ h + 1 \in 0 .. n + 1 /\ h + 1 \in 0 .. n /\ h \in 0 .. n - 1
        /\ n + 1 \in Nat /\ n - h \in Nat /\ n - (h + 1) \in Nat /\ n - (h + 1) + 1 = n - h
        /\ (n + 1) - (h + 1) = n - h
        /\ h + 1 + 1 = h + 2 /\ k > h /\ k \in Nat
        /\ k - h - 1 \in 0 .. n - (h + 1) /\ k - h - 1 + 1 = k - h /\ k - h \in 0 .. n - h
    OBVIOUS
  <1>2. Len(ks) = n /\ LeftKeys(ks) = h
    BY RowLen DEF LeftKeys, IsHalf
  <1>3. /\ b.promote = ks[h + 1]
        /\ b.lkeys = SubSeq(ks, 1, h)
        /\ b.lchilds = SubSeq(cs, 1, h + 1)
        /\ b.rkeys = InsertAt(SubSeq(ks, h + 2, n), k - h, e)
        /\ b.rchilds = InsertAt(SubSeq(cs, h + 2, n + 1), k - h + 1, f)
    <2>1. ~(k < h) /\ k # h /\ k > h
      OBVIOUS
    <2>2. b = BranchSplit(ks, cs, k, e, f)
      OBVIOUS
    <2> QED
      BY ONLY <1>2, <2>1, <2>2 DEF BranchSplit
  <1>4. Row(ka, h) = SubSeq(ks, 1, h)
    BY ONLY <1>1, RowUpTo, n \in Nat, MovedRow(ka, r, h, 0), ks = Row(r, n)
  <1>5. Row(ca, h + 1) = SubSeq(cs, 1, h + 1)
    BY ONLY <1>1, RowUpTo, MovedRow(ca, c, h + 1, 0), cs = Row(c, n + 1)
  <1>6. Row(w, n - (h + 1)) = SubSeq(ks, h + 2, n)
    <2>1. Row(w, n - (h + 1)) = SubSeq(Row(r, n), h + 1 + 1, n)
      BY ONLY <1>1, n \in Nat, MovedRow(w, r, n - (h + 1), h + 1), RowFrom
    <2> QED
      BY ONLY <1>1, <2>1, ks = Row(r, n)
  <1>7. Row(d, n - h) = SubSeq(cs, h + 2, n + 1)
    <2>1. MovedRow(d, c, (n + 1) - (h + 1), h + 1)
      BY ONLY <1>1, MovedRow(d, c, n - h, h + 1)
    <2>2. Row(d, (n + 1) - (h + 1)) = SubSeq(Row(c, n + 1), h + 1 + 1, n + 1)
      BY ONLY <1>1, <2>1, RowFrom
    <2> QED
      BY ONLY <1>1, <2>2, cs = Row(c, n + 1)
  <1>8. Row(kb, n - (h + 1) + 1) = InsertAt(Row(w, n - (h + 1)), k - h - 1 + 1, e)
    BY ONLY <1>1, InsertedRow(kb, w, n - (h + 1), k - h - 1, e), RowInsert
  <1>9. Row(cb, n - h + 1) = InsertAt(Row(d, n - h), k - h + 1, f)
    BY ONLY <1>1, InsertedRow(cb, d, n - h, k - h, f), RowInsert
  <1>10. ks[h + 1] = r[h]
    BY ONLY <1>1, n \in Nat, RowAt, ks = Row(r, n)
  <1> QED
    BY ONLY <1>1, <1>3, <1>4, <1>5, <1>6, <1>7, <1>8, <1>9, <1>10

LEMMA BranchArrays ==
  /\ K("A") \in Arrays /\ C("A") \in Arrays /\ K("B") \in Arrays /\ C("B") \in Arrays
  /\ K("P") \in Arrays /\ C("P") \in Arrays
  /\ K("A") # C("A") /\ K("A") # K("B") /\ K("A") # C("B") /\ K("A") # K("P") /\ K("A") # C("P")
  /\ C("A") # K("B") /\ C("A") # C("B") /\ C("A") # K("P") /\ C("A") # C("P")
  /\ K("B") # C("B") /\ K("B") # K("P") /\ K("B") # C("P")
  /\ C("B") # K("P") /\ C("B") # C("P") /\ K("P") # C("P")
  BY Apart, NodesAre

(* The three cases of a branch split: below, at and above the middle.      *)
LEMMA SplitLowHolds ==
  ASSUME NEW n \in Nat, MaxCap \in Nat, n <= MaxCap, NEW h \in 1 .. n, IsHalf(h, n),
         NEW k \in 0 .. h - 1, NEW s, NEW t,
         Runs(<<Read(K("A"), h - 1, "promote"),
                Copy(K("A"), h, K("B"), 0, n - h), Zero(K("A"), h, n - h),
                SetLen("B", n - h),
                Copy(C("A"), h, C("B"), 0, n + 1 - h), Zero(C("A"), h, n + 1 - h),
                Copy(K("A"), k, K("A"), k + 1, h - 1 - k),
                Write(K("A"), k, "key"), SetLen("A", h),
                Copy(C("A"), k + 1, C("A"), k + 2, h - (k + 1)),
                Write(C("A"), k + 1, "right")>>, s, t),
         NEW b, b = BranchSplit(Row(s.mem[K("A")], n), Row(s.mem[C("A")], n + 1), k,
                                s.local["key"], s.local["right"])
  PROVE  /\ Keys(t, "A") = b.lkeys /\ Kids(t, "A") = b.lchilds
         /\ Keys(t, "B") = b.rkeys /\ Kids(t, "B") = b.rchilds
         /\ b.promote = t.local["promote"]
  <1> PICK g : g = h - 1
    OBVIOUS
  <1>1. PICK u1, u2, u3, u4, u5, u6, u7, u8, u9, u10 :
          /\ Did(Read(K("A"), h - 1, "promote"), s, u1)
          /\ Did(Copy(K("A"), h, K("B"), 0, n - h), u1, u2)
          /\ Did(Zero(K("A"), h, n - h), u2, u3)
          /\ Did(SetLen("B", n - h), u3, u4)
          /\ Did(Copy(C("A"), h, C("B"), 0, n + 1 - h), u4, u5)
          /\ Did(Zero(C("A"), h, n + 1 - h), u5, u6)
          /\ Did(Copy(K("A"), k, K("A"), k + 1, h - 1 - k), u6, u7)
          /\ Did(Write(K("A"), k, "key"), u7, u8)
          /\ Did(SetLen("A", h), u8, u9)
          /\ Did(Copy(C("A"), k + 1, C("A"), k + 2, h - (k + 1)), u9, u10)
          /\ Did(Write(C("A"), k + 1, "right"), u10, t)
    BY RunsEleven
  <1>2. /\ ReadDid(K("A"), h - 1, "promote", s, u1)
        /\ CopyDid(K("A"), h, K("B"), 0, n - h, u1, u2)
        /\ ZeroDid(K("A"), h, n - h, u2, u3)
        /\ LenDid("B", n - h, u3, u4)
        /\ CopyDid(C("A"), h, C("B"), 0, n + 1 - h, u4, u5)
        /\ ZeroDid(C("A"), h, n + 1 - h, u5, u6)
    BY <1>1, DidWhat
  <1>3. /\ CopyDid(K("A"), k, K("A"), k + 1, h - 1 - k, u6, u7)
        /\ WriteDid(K("A"), k, "key", u7, u8)
        /\ LenDid("A", h, u8, u9)
        /\ CopyDid(C("A"), k + 1, C("A"), k + 2, h - (k + 1), u9, u10)
        /\ WriteDid(C("A"), k + 1, "right", u10, t)
    BY <1>1, DidWhat
  <1>4. /\ u2.mem[K("A")] = s.mem[K("A")] /\ u6.mem[K("A")] = u3.mem[K("A")]
        /\ u5.mem[C("A")] = s.mem[C("A")] /\ u4.mem[C("A")] = s.mem[C("A")]
    BY <1>2, BranchArrays DEF ReadDid, CopyDid, ZeroDid, LenDid, RowsBut
  <1>5. /\ t.mem[K("A")] = u8.mem[K("A")] /\ u9.mem[C("A")] = u6.mem[C("A")]
        /\ t.mem[K("B")] = u6.mem[K("B")] /\ t.mem[C("B")] = u6.mem[C("B")]
    BY <1>3, BranchArrays DEF CopyDid, WriteDid, LenDid, RowsBut
  <1>6. u6.mem[K("B")] = u2.mem[K("B")] /\ u6.mem[C("B")] = u5.mem[C("B")]
    BY <1>2, BranchArrays DEF CopyDid, ZeroDid, LenDid, RowsBut
  <1>7. /\ u7.local["key"] = s.local["key"] /\ u10.local["right"] = s.local["right"]
        /\ t.local["promote"] = s.mem[K("A")][h - 1]
    <2>1. u6.local = u1.local
      BY <1>2 DEF CopyDid, ZeroDid, LenDid
    <2>2. u7.local = u6.local /\ u10.local = u8.local
      BY <1>3 DEF CopyDid, WriteDid, LenDid
    <2>3. /\ u1.local["key"] = s.local["key"] /\ u1.local["right"] = s.local["right"]
          /\ u1.local["promote"] = s.mem[K("A")][h - 1]
      BY <1>2, LocalsAre DEF ReadDid, LocalsBut
    <2>4. u8.local["right"] = u7.local["right"] /\ u8.local["promote"] = u7.local["promote"]
      BY <1>3, LocalsAre DEF WriteDid, LocalsBut
    <2>5. t.local["promote"] = u10.local["promote"]
      BY <1>3, LocalsAre DEF WriteDid, LocalsBut
    <2> QED
      BY <2>1, <2>2, <2>3, <2>4, <2>5
  <1>8. t.len["A"] = h /\ t.len["B"] = n - h
    <2>1. u6.len["B"] = n - h
      BY <1>2 DEF CopyDid, ZeroDid, LenDid, Nodewise
    <2> QED
      BY <1>3, <2>1, NodesAre DEF CopyDid, WriteDid, LenDid, Nodewise
  <1>9. /\ g \in 0 .. n - 1 /\ g = h - 1 /\ k \in 0 .. g /\ h <= MaxCap + 2 /\ g <= MaxCap
        /\ n - h \in Nat /\ n + 1 - h \in Nat /\ n - h <= MaxCap /\ n + 1 - h <= MaxCap /\ h <= MaxCap
        /\ g \in Nat /\ h \in Nat /\ k \in Nat /\ k + 1 \in Nat /\ k <= g /\ k + 1 <= h
        /\ h - 1 - k = g - k /\ k + 2 = (k + 1) + 1
    OBVIOUS
  <1>10. MovedRow(u3.mem[K("A")], s.mem[K("A")], g, 0)
    <2>1. MovedRow(u3.mem[K("A")], s.mem[K("A")], h, 0)
      BY <1>2, <1>4, <1>9, ZeroedBelow DEF ZeroDid
    <2> QED
      BY <1>9, <2>1 DEF MovedRow
  <1>11. InsertedRow(t.mem[K("A")], u3.mem[K("A")], g, k, s.local["key"])
    <2>1. CopiedRow(u7.mem[K("A")], u3.mem[K("A")], u3.mem[K("A")], k + 1, k, g - k)
      BY <1>3, <1>4, <1>9 DEF CopyDid
    <2>2. WrittenRow(t.mem[K("A")], u7.mem[K("A")], k, s.local["key"])
      BY <1>3, <1>5, <1>7 DEF WriteDid
    <2> QED
      BY <1>9, <2>1, <2>2, ShiftedRow
  <1>12. MovedRow(u6.mem[C("A")], s.mem[C("A")], h, 0)
    BY <1>2, <1>4, <1>9, ZeroedBelow DEF ZeroDid
  <1>13. InsertedRow(t.mem[C("A")], u6.mem[C("A")], h, k + 1, s.local["right"])
    <2>1. CopiedRow(u10.mem[C("A")], u6.mem[C("A")], u6.mem[C("A")], k + 2, k + 1, h - (k + 1))
      BY <1>3, <1>5 DEF CopyDid
    <2>2. WrittenRow(t.mem[C("A")], u10.mem[C("A")], k + 1, s.local["right"])
      BY <1>3, <1>7 DEF WriteDid
    <2> QED
      BY <1>9, <2>1, <2>2, ShiftedRow
  <1>14. MovedRow(t.mem[K("B")], s.mem[K("A")], n - h, h)
    <2>1. CopiedRow(t.mem[K("B")], s.mem[K("A")], u1.mem[K("B")], 0, h, n - h)
      BY <1>2, <1>5, <1>6 DEF CopyDid, ReadDid
    <2> QED
      BY <1>9, <2>1, MovedUp
  <1>15. MovedRow(t.mem[C("B")], s.mem[C("A")], n + 1 - h, h)
    <2>1. CopiedRow(t.mem[C("B")], s.mem[C("A")], u4.mem[C("B")], 0, h, n + 1 - h)
      BY <1>2, <1>4, <1>5, <1>6 DEF CopyDid
    <2> QED
      BY <1>9, <2>1, MovedUp
  <1>16. /\ Row(t.mem[K("A")], h) = b.lkeys /\ Row(t.mem[C("A")], h + 1) = b.lchilds
         /\ Row(t.mem[K("B")], n - h) = b.rkeys /\ Row(t.mem[C("B")], n + 1 - h) = b.rchilds
         /\ b.promote = s.mem[K("A")][h - 1]
    <2>1. /\ g \in 0 .. n - 1 /\ g = h - 1 /\ k \in 0 .. g /\ IsHalf(h, n) /\ n \in Nat /\ h \in 1 .. n
          /\ b = BranchSplit(Row(s.mem[K("A")], n), Row(s.mem[C("A")], n + 1), k,
                             s.local["key"], s.local["right"])
      BY <1>9
    <2> QED
      BY ONLY <2>1, <1>10, <1>11, <1>12, <1>13, <1>14, <1>15, BranchLow
  <1>17. n - h + 1 = n + 1 - h
    OBVIOUS
  <1> QED
    BY ONLY <1>7, <1>8, <1>16, <1>17 DEF Keys, Kids

LEMMA SplitEqualHolds ==
  ASSUME NEW n \in Nat, MaxCap \in Nat, n <= MaxCap, NEW h \in 1 .. n, IsHalf(h, n),
         NEW s, NEW t,
         Runs(<<Copy(K("A"), h, K("B"), 0, n - h), Zero(K("A"), h, n - h),
                SetLen("B", n - h), Write(C("B"), 0, "right"),
                Copy(C("A"), h + 1, C("B"), 1, n - h), Zero(C("A"), h + 1, n - h),
                SetLen("A", h)>>, s, t),
         NEW b, b = BranchSplit(Row(s.mem[K("A")], n), Row(s.mem[C("A")], n + 1), h,
                                s.local["key"], s.local["right"])
  PROVE  /\ Keys(t, "A") = b.lkeys /\ Kids(t, "A") = b.lchilds
         /\ Keys(t, "B") = b.rkeys /\ Kids(t, "B") = b.rchilds
         /\ b.promote = t.local["key"]
  <1>1. PICK u1, u2, u3, u4, u5, u6 :
          /\ Did(Copy(K("A"), h, K("B"), 0, n - h), s, u1)
          /\ Did(Zero(K("A"), h, n - h), u1, u2)
          /\ Did(SetLen("B", n - h), u2, u3)
          /\ Did(Write(C("B"), 0, "right"), u3, u4)
          /\ Did(Copy(C("A"), h + 1, C("B"), 1, n - h), u4, u5)
          /\ Did(Zero(C("A"), h + 1, n - h), u5, u6)
          /\ Did(SetLen("A", h), u6, t)
    BY RunsSeven
  <1>2. /\ CopyDid(K("A"), h, K("B"), 0, n - h, s, u1)
        /\ ZeroDid(K("A"), h, n - h, u1, u2)
        /\ LenDid("B", n - h, u2, u3)
        /\ WriteDid(C("B"), 0, "right", u3, u4)
        /\ CopyDid(C("A"), h + 1, C("B"), 1, n - h, u4, u5)
        /\ ZeroDid(C("A"), h + 1, n - h, u5, u6)
        /\ LenDid("A", h, u6, t)
    BY <1>1, DidWhat
  <1>3. /\ u1.mem[K("A")] = s.mem[K("A")] /\ t.mem[K("A")] = u2.mem[K("A")]
        /\ u5.mem[C("A")] = s.mem[C("A")] /\ u4.mem[C("A")] = s.mem[C("A")]
        /\ t.mem[C("A")] = u6.mem[C("A")]
        /\ t.mem[K("B")] = u1.mem[K("B")] /\ t.mem[C("B")] = u5.mem[C("B")]
    BY <1>2, BranchArrays DEF CopyDid, ZeroDid, WriteDid, LenDid, RowsBut
  <1>4. u3.local["right"] = s.local["right"] /\ t.local["key"] = s.local["key"]
    <2>1. u3.local = s.local /\ t.local = u4.local
      BY <1>2 DEF CopyDid, ZeroDid, LenDid
    <2>2. u4.local["key"] = u3.local["key"]
      BY <1>2, LocalsAre DEF WriteDid, LocalsBut
    <2> QED
      BY <2>1, <2>2
  <1>5. t.len["A"] = h /\ t.len["B"] = n - h
    BY <1>2, NodesAre DEF CopyDid, ZeroDid, WriteDid, LenDid, Nodewise
  <1>6. /\ h <= MaxCap + 2 /\ h + 1 <= MaxCap + 2 /\ n - h \in Nat /\ n - h <= MaxCap
        /\ h \in Nat /\ h + 1 \in Nat /\ n - h + 1 = n + 1 - h
    OBVIOUS
  <1>7. MovedRow(t.mem[K("A")], s.mem[K("A")], h, 0)
    BY <1>2, <1>3, <1>6, ZeroedBelow DEF ZeroDid
  <1>8. MovedRow(t.mem[C("A")], s.mem[C("A")], h + 1, 0)
    BY <1>2, <1>3, <1>6, ZeroedBelow DEF ZeroDid
  <1>9. MovedRow(t.mem[K("B")], s.mem[K("A")], n - h, h)
    <2>1. CopiedRow(t.mem[K("B")], s.mem[K("A")], s.mem[K("B")], 0, h, n - h)
      BY <1>2, <1>3 DEF CopyDid
    <2> QED
      BY <1>6, <2>1, MovedUp
  <1> PICK one : one = [x \in {0} |-> s.local["right"]]
    OBVIOUS
  <1> PICK z : z = [x \in 0 .. n - h - 1 |-> s.mem[C("A")][x + (h + 1)]]
    OBVIOUS
  <1>10. OneIs(one, s.local["right"])
    BY DEF OneIs
  <1>11. MovedRow(z, s.mem[C("A")], n - h, h + 1)
    BY DEF MovedRow
  <1>12. JoinedRow(t.mem[C("B")], one, 1, z, n - h)
    <2> SUFFICES ASSUME NEW x \in 0 .. 1 + (n - h) - 1
                 PROVE  t.mem[C("B")][x] = IF x < 1 THEN one[x] ELSE z[x - 1]
      BY DEF JoinedRow
    <2>1. x \in Index
      BY <1>6 DEF Index
    <2>2. t.mem[C("B")][x] = IF 1 <= x /\ x < 1 + (n - h) THEN s.mem[C("A")][x - 1 + (h + 1)]
                             ELSE u4.mem[C("B")][x]
      BY <1>2, <1>3, <2>1 DEF CopyDid, CopiedRow
    <2>3. u4.mem[C("B")][x] = IF x = 0 THEN s.local["right"] ELSE u3.mem[C("B")][x]
      BY <1>2, <1>4, <2>1 DEF WriteDid, WrittenRow
    <2>4. CASE x = 0
      BY <1>10, <2>2, <2>3, <2>4 DEF OneIs
    <2>5. CASE x # 0
      <3>1. 1 <= x /\ x < 1 + (n - h) /\ ~(x < 1) /\ x - 1 \in 0 .. n - h - 1
        BY <2>5
      <3> QED
        BY <2>2, <3>1
    <2> QED
      BY <2>4, <2>5
  <1>13. /\ Row(t.mem[K("A")], h) = b.lkeys /\ Row(t.mem[C("A")], h + 1) = b.lchilds
         /\ Row(t.mem[K("B")], n - h) = b.rkeys /\ Row(t.mem[C("B")], n + 1 - h) = b.rchilds
         /\ b.promote = s.local["key"]
    <2>1. /\ n \in Nat /\ h \in 1 .. n /\ IsHalf(h, n)
          /\ b = BranchSplit(Row(s.mem[K("A")], n), Row(s.mem[C("A")], n + 1), h,
                             s.local["key"], s.local["right"])
      OBVIOUS
    <2> QED
      BY ONLY <2>1, <1>7, <1>8, <1>9, <1>10, <1>11, <1>12, BranchEqual
  <1> QED
    BY ONLY <1>4, <1>5, <1>6, <1>13 DEF Keys, Kids

LEMMA SplitHighHolds ==
  ASSUME NEW n \in Nat, MaxCap \in Nat, n <= MaxCap, NEW h \in 1 .. n, IsHalf(h, n),
         NEW k \in h + 1 .. n, NEW m, m = n - (h + 1), NEW f, f = k - h, NEW s, NEW t,
         Runs(<<Read(K("A"), h, "promote"),
                Copy(K("A"), h + 1, K("B"), 0, m), Zero(K("A"), h + 1, m),
                SetLen("B", m),
                Copy(C("A"), h + 1, C("B"), 0, f), Zero(C("A"), h + 1, f),
                Write(C("B"), f, "right"),
                Copy(C("A"), k + 1, C("B"), f + 1, n - k), Zero(C("A"), k + 1, n - k),
                Copy(K("B"), f - 1, K("B"), f, m - (f - 1)),
                Write(K("B"), f - 1, "key"), SetLen("B", m + 1), SetLen("A", h)>>, s, t),
         NEW b, b = BranchSplit(Row(s.mem[K("A")], n), Row(s.mem[C("A")], n + 1), k,
                                s.local["key"], s.local["right"])
  PROVE  /\ Keys(t, "A") = b.lkeys /\ Kids(t, "A") = b.lchilds
         /\ Keys(t, "B") = b.rkeys /\ Kids(t, "B") = b.rchilds
         /\ b.promote = t.local["promote"]
  <1>1. PICK u1, u2, u3, u4, u5, u6, u7, u8, u9, u10, u11, u12 :
          /\ Did(Read(K("A"), h, "promote"), s, u1)
          /\ Did(Copy(K("A"), h + 1, K("B"), 0, m), u1, u2)
          /\ Did(Zero(K("A"), h + 1, m), u2, u3)
          /\ Did(SetLen("B", m), u3, u4)
          /\ Did(Copy(C("A"), h + 1, C("B"), 0, f), u4, u5)
          /\ Did(Zero(C("A"), h + 1, f), u5, u6)
          /\ Did(Write(C("B"), f, "right"), u6, u7)
          /\ Did(Copy(C("A"), k + 1, C("B"), f + 1, n - k), u7, u8)
          /\ Did(Zero(C("A"), k + 1, n - k), u8, u9)
          /\ Did(Copy(K("B"), f - 1, K("B"), f, m - (f - 1)), u9, u10)
          /\ Did(Write(K("B"), f - 1, "key"), u10, u11)
          /\ Did(SetLen("B", m + 1), u11, u12)
          /\ Did(SetLen("A", h), u12, t)
    BY RunsThirteen
  <1>2. /\ ReadDid(K("A"), h, "promote", s, u1)
        /\ CopyDid(K("A"), h + 1, K("B"), 0, m, u1, u2)
        /\ ZeroDid(K("A"), h + 1, m, u2, u3)
        /\ LenDid("B", m, u3, u4)
    BY <1>1, DidWhat
  <1>3. /\ CopyDid(C("A"), h + 1, C("B"), 0, f, u4, u5)
        /\ ZeroDid(C("A"), h + 1, f, u5, u6)
        /\ WriteDid(C("B"), f, "right", u6, u7)
        /\ CopyDid(C("A"), k + 1, C("B"), f + 1, n - k, u7, u8)
        /\ ZeroDid(C("A"), k + 1, n - k, u8, u9)
    BY <1>1, DidWhat
  <1>4. /\ CopyDid(K("B"), f - 1, K("B"), f, m - (f - 1), u9, u10)
        /\ WriteDid(K("B"), f - 1, "key", u10, u11)
        /\ LenDid("B", m + 1, u11, u12)
        /\ LenDid("A", h, u12, t)
    BY <1>1, DidWhat
  <1>5. /\ u2.mem[K("A")] = s.mem[K("A")] /\ u4.mem[K("A")] = u3.mem[K("A")]
        /\ u4.mem[C("A")] = s.mem[C("A")] /\ u4.mem[K("B")] = u2.mem[K("B")]
    BY <1>2, BranchArrays DEF ReadDid, CopyDid, ZeroDid, LenDid, RowsBut
  <1>6. /\ u9.mem[K("A")] = u4.mem[K("A")] /\ u9.mem[K("B")] = u4.mem[K("B")]
        /\ u5.mem[C("A")] = u4.mem[C("A")] /\ u8.mem[C("A")] = u6.mem[C("A")]
        /\ u7.mem[C("A")] = u6.mem[C("A")] /\ u6.mem[C("B")] = u5.mem[C("B")]
        /\ u9.mem[C("B")] = u8.mem[C("B")]
    BY <1>3, BranchArrays DEF CopyDid, ZeroDid, WriteDid, RowsBut
  <1>7. /\ t.mem[K("A")] = u9.mem[K("A")] /\ t.mem[C("A")] = u9.mem[C("A")]
        /\ t.mem[K("B")] = u11.mem[K("B")] /\ t.mem[C("B")] = u9.mem[C("B")]
    BY <1>4, BranchArrays DEF CopyDid, WriteDid, LenDid, RowsBut
  <1>8. /\ u10.local["key"] = s.local["key"] /\ u6.local["right"] = s.local["right"]
        /\ t.local["promote"] = s.mem[K("A")][h]
    <2>1. u6.local = u1.local
      BY <1>2, <1>3 DEF CopyDid, ZeroDid, LenDid
    <2>2. /\ u1.local["key"] = s.local["key"] /\ u1.local["right"] = s.local["right"]
          /\ u1.local["promote"] = s.mem[K("A")][h]
      BY <1>2, LocalsAre DEF ReadDid, LocalsBut
    <2>3. u7.local["key"] = u6.local["key"] /\ u7.local["promote"] = u6.local["promote"]
      BY <1>3, LocalsAre DEF WriteDid, LocalsBut
    <2>4. u10.local = u7.local
      BY <1>3, <1>4 DEF CopyDid, ZeroDid
    <2>5. u11.local["promote"] = u10.local["promote"]
      BY <1>4, LocalsAre DEF WriteDid, LocalsBut
    <2>6. t.local = u11.local
      BY <1>4 DEF LenDid
    <2> QED
      BY <2>1, <2>2, <2>3, <2>4, <2>5, <2>6
  <1>9. t.len["A"] = h /\ t.len["B"] = m + 1
    BY <1>4, NodesAre DEF LenDid
  <1>10. /\ h \in Nat /\ h + 1 \in Nat /\ h + 1 <= MaxCap + 2 /\ m \in Nat /\ m <= MaxCap
         /\ f \in Nat /\ f >= 1 /\ f - 1 \in Nat /\ f - 1 <= m /\ f = (f - 1) + 1
         /\ m + 1 = n - h /\ f - 1 = k - h - 1 /\ k + 1 <= MaxCap + 2 /\ k + 1 \in Nat
         /\ n - h \in Nat /\ k \in Nat
    OBVIOUS
  <1>11. MovedRow(t.mem[K("A")], s.mem[K("A")], h, 0)
    <2>1. MovedRow(t.mem[K("A")], s.mem[K("A")], h + 1, 0)
      BY <1>2, <1>5, <1>6, <1>7, <1>10, ZeroedBelow DEF ZeroDid
    <2> QED
      BY <1>10, <2>1 DEF MovedRow
  <1>12. MovedRow(t.mem[C("A")], s.mem[C("A")], h + 1, 0)
    <2>1. MovedRow(u6.mem[C("A")], s.mem[C("A")], h + 1, 0)
      BY <1>3, <1>5, <1>6, <1>10, ZeroedBelow DEF ZeroDid
    <2>2. MovedRow(u9.mem[C("A")], u6.mem[C("A")], k + 1, 0)
      BY <1>3, <1>6, <1>10, ZeroedBelow DEF ZeroDid
    <2> QED
      BY <1>7, <1>10, <2>1, <2>2 DEF MovedRow
  <1>13. MovedRow(u9.mem[K("B")], s.mem[K("A")], m, h + 1)
    <2>1. CopiedRow(u9.mem[K("B")], s.mem[K("A")], u1.mem[K("B")], 0, h + 1, m)
      BY <1>2, <1>5, <1>6 DEF CopyDid, ReadDid
    <2> QED
      BY <1>10, <2>1, MovedUp
  <1>14. InsertedRow(t.mem[K("B")], u9.mem[K("B")], m, f - 1, s.local["key"])
    <2>1. CopiedRow(u10.mem[K("B")], u9.mem[K("B")], u9.mem[K("B")], f, f - 1, m - (f - 1))
      BY <1>4 DEF CopyDid
    <2>2. WrittenRow(t.mem[K("B")], u10.mem[K("B")], f - 1, s.local["key"])
      BY <1>4, <1>7, <1>8 DEF WriteDid
    <2> QED
      BY <1>10, <2>1, <2>2, ShiftedRow
  <1> PICK d : d = [x \in 0 .. n - h - 1 |-> s.mem[C("A")][x + (h + 1)]]
    OBVIOUS
  <1>15. MovedRow(d, s.mem[C("A")], n - h, h + 1)
    BY DEF MovedRow
  <1>16. InsertedRow(t.mem[C("B")], d, n - h, f, s.local["right"])
    <2> SUFFICES ASSUME NEW x \in 0 .. n - h
                 PROVE  t.mem[C("B")][x] = IF x < f THEN d[x] ELSE IF x = f THEN s.local["right"] ELSE d[x - 1]
      BY DEF InsertedRow
    <2>1. x \in Index /\ x \in Nat
      BY <1>10 DEF Index
    <2>2. t.mem[C("B")][x] = IF f + 1 <= x /\ x < f + 1 + (n - k) THEN u6.mem[C("A")][x - (f + 1) + (k + 1)]
                             ELSE u7.mem[C("B")][x]
      BY <1>3, <1>6, <1>7, <2>1 DEF CopyDid, CopiedRow
    <2>3. u7.mem[C("B")][x] = IF x = f THEN s.local["right"] ELSE u5.mem[C("B")][x]
      BY <1>3, <1>6, <1>8, <2>1 DEF WriteDid, WrittenRow
    <2>4. u5.mem[C("B")][x] = IF 0 <= x /\ x < 0 + f THEN s.mem[C("A")][x - 0 + (h + 1)] ELSE u4.mem[C("B")][x]
      BY <1>3, <1>5, <2>1 DEF CopyDid, CopiedRow
    <2>5. CASE x < f
      <3>1. ~(f + 1 <= x) /\ x # f /\ x < 0 + f /\ 0 <= x /\ x - 0 + (h + 1) = x + (h + 1)
            /\ x \in 0 .. n - h - 1
        BY <1>10, <2>1, <2>5
      <3> QED
        BY <2>2, <2>3, <2>4, <2>5, <3>1
    <2>6. CASE x = f
      BY <1>10, <2>2, <2>3, <2>6
    <2>7. CASE x > f
      <3> PICK y : y = x + h
        OBVIOUS
      <3>1. /\ f + 1 <= x /\ x < f + 1 + (n - k) /\ x - (f + 1) + (k + 1) = y /\ ~(x < f) /\ x # f
            /\ x - 1 \in 0 .. n - h - 1 /\ (x - 1) + (h + 1) = y /\ y \in Nat /\ y >= h + 1 + f
            /\ y <= MaxCap + 2
        BY <1>10, <2>1, <2>7
      <3>2. y \in Index
        BY <3>1 DEF Index
      <3>3. u6.mem[C("A")][y] = s.mem[C("A")][y]
        <4>1. ~(y < h + 1 + f)
          BY <1>10, <3>1
        <4>2. u6.mem[C("A")][y] = IF h + 1 <= y /\ y < h + 1 + f THEN Zeros ELSE u5.mem[C("A")][y]
          BY <1>3, <3>2 DEF ZeroDid, ZeroedRow
        <4> QED
          BY <1>5, <1>6, <4>1, <4>2
      <3>4. d[x - 1] = s.mem[C("A")][y]
        BY <3>1
      <3> QED
        BY <2>2, <3>1, <3>3, <3>4
    <2> QED
      BY <1>10, <2>1, <2>5, <2>6, <2>7
  <1>17. /\ Row(t.mem[K("A")], h) = b.lkeys /\ Row(t.mem[C("A")], h + 1) = b.lchilds
         /\ Row(t.mem[K("B")], n - h) = b.rkeys /\ Row(t.mem[C("B")], n - h + 1) = b.rchilds
         /\ b.promote = s.mem[K("A")][h]
    <2>1. /\ n \in Nat /\ h \in 1 .. n /\ IsHalf(h, n) /\ k \in h + 1 .. n
          /\ b = BranchSplit(Row(s.mem[K("A")], n), Row(s.mem[C("A")], n + 1), k,
                             s.local["key"], s.local["right"])
      OBVIOUS
    <2>2. MovedRow(u9.mem[K("B")], s.mem[K("A")], n - (h + 1), h + 1)
      BY <1>13
    <2>3. InsertedRow(t.mem[K("B")], u9.mem[K("B")], n - (h + 1), k - h - 1, s.local["key"])
      BY <1>10, <1>14
    <2>4. InsertedRow(t.mem[C("B")], d, n - h, k - h, s.local["right"])
      BY <1>16
    <2> QED
      BY ONLY <2>1, <2>2, <2>3, <2>4, <1>11, <1>12, <1>15, BranchHigh
  <1> QED
    BY ONLY <1>8, <1>9, <1>10, <1>17 DEF Keys, Kids

(* Both halves of a branch, and the key that goes up.                      *)
LEMMA BranchSplitHolds ==
  ASSUME NEW j \in Jobs, CanStart(j), j.proc = "branch_insert_and_split",
         NEW s, NEW t, Begins(j, s), Runs(branch_insert_and_split(j), s, t),
         NEW b, b = BranchSplit(Keys(s, "A"), Kids(s, "A"), j.idx, New("keys"), New("children"))
  PROVE  /\ Keys(t, "A") = b.lkeys /\ Kids(t, "A") = b.lchilds
         /\ Keys(t, "B") = b.rkeys /\ Kids(t, "B") = b.rchilds
         /\ b.promote \in {t.local["key"], t.local["promote"]}
  <1>1. j.a \in Nat /\ j.a >= 1 /\ j.idx \in 0 .. j.a /\ j.a <= MaxCap /\ MaxCap \in Nat
    BY JobIs DEF CanStart, Cap, OnOneLeaf, OnLeaves
  <1>2. s.len["A"] = j.a /\ s.local["key"] = New("keys") /\ s.local["right"] = New("children")
    BY DEF Begins, OnOneBranch
  <1>3. PICK h \in 1 .. j.a : IsHalf(h, j.a)
    BY <1>1, HalfIs
  <1>4. b = BranchSplit(Row(s.mem[K("A")], j.a), Row(s.mem[C("A")], j.a + 1), j.idx,
                        s.local["key"], s.local["right"])
    BY <1>2 DEF Keys, Kids
  <1> PICK f : f = j.idx - h
    OBVIOUS
  <1> PICK m : m = j.a - (h + 1)
    OBVIOUS
  <1> DEFINE low == <<Read(K("A"), h - 1, "promote"),
                Copy(K("A"), h, K("B"), 0, j.a - h), Zero(K("A"), h, j.a - h),
                SetLen("B", j.a - h),
                Copy(C("A"), h, C("B"), 0, j.a + 1 - h), Zero(C("A"), h, j.a + 1 - h),
                Copy(K("A"), j.idx, K("A"), j.idx + 1, h - 1 - j.idx),
                Write(K("A"), j.idx, "key"), SetLen("A", h),
                Copy(C("A"), j.idx + 1, C("A"), j.idx + 2, h - (j.idx + 1)),
                Write(C("A"), j.idx + 1, "right")>>
             equal == <<Copy(K("A"), h, K("B"), 0, j.a - h), Zero(K("A"), h, j.a - h),
                SetLen("B", j.a - h), Write(C("B"), 0, "right"),
                Copy(C("A"), h + 1, C("B"), 1, j.a - h), Zero(C("A"), h + 1, j.a - h),
                SetLen("A", h)>>
             high == <<Read(K("A"), h, "promote"),
                Copy(K("A"), h + 1, K("B"), 0, m), Zero(K("A"), h + 1, m),
                SetLen("B", m),
                Copy(C("A"), h + 1, C("B"), 0, f), Zero(C("A"), h + 1, f),
                Write(C("B"), f, "right"),
                Copy(C("A"), j.idx + 1, C("B"), f + 1, j.a - j.idx), Zero(C("A"), j.idx + 1, j.a - j.idx),
                Copy(K("B"), f - 1, K("B"), f, m - (f - 1)),
                Write(K("B"), f - 1, "key"), SetLen("B", m + 1), SetLen("A", h)>>
             e == <<Enter({"A", "B"})>>
  <1>5. IsSeq(low) /\ IsSeq(equal) /\ IsSeq(high) /\ IsSeq(e)
    <2>1. IsSeq(low)
      BY SeqsAre, Zenon
    <2>2. IsSeq(equal) /\ IsSeq(e)
      BY SeqsAre, Zenon
    <2>3. IsSeq(high)
      <3>1. ASSUME NEW p, p = high  PROVE  IsSeq(p)
        <4> PICK S : S = {p[i] : i \in 1 .. 13}
          OBVIOUS
        <4>1. p \in Seq(S)
          BY <3>1
        <4> QED
          BY <4>1 DEF IsSeq
      <3> QED
        BY ONLY <3>1
    <2> QED
      BY ONLY <2>1, <2>2, <2>3
  <1>6. ASSUME NEW p, IsSeq(p), Runs(p \o e, s, t)
        PROVE  \E u : Runs(p, s, u) /\ t.mem = u.mem /\ t.len = u.len /\ t.local = u.local
    <2>1. PICK u : Runs(p, s, u) /\ Runs(e, u, t)
      BY <1>5, <1>6, RunsParts
    <2>2. EnterDid({"A", "B"}, u, t)
      BY <2>1, RunsOne, DidWhat
    <2> QED
      BY <2>1, <2>2 DEF EnterDid
  <1>7. CASE j.idx < h
    <2>1. branch_insert_and_split(j) = low \o e
      <3>1. j.idx < (j.a + 1) \div 2 /\ h = (j.a + 1) \div 2
        BY <1>3, <1>7 DEF IsHalf
      <3>2. j.idx # (j.a + 1) \div 2 /\ ~(j.idx > (j.a + 1) \div 2)
        BY <1>1, <3>1
      <3> QED
        BY ONLY <3>1, <3>2, Zenon DEF branch_insert_and_split
    <2>2. PICK u : Runs(low, s, u) /\ t.mem = u.mem /\ t.len = u.len /\ t.local = u.local
      <3>1. Runs(low \o e, s, t)
        BY <2>1
      <3> HIDE DEF low, e
      <3> QED
        BY ONLY <1>5, <1>6, <3>1
    <2>3. j.idx \in 0 .. h - 1
      BY <1>1, <1>3, <1>7
    <2>4. /\ Keys(u, "A") = b.lkeys /\ Kids(u, "A") = b.lchilds
          /\ Keys(u, "B") = b.rkeys /\ Kids(u, "B") = b.rchilds
          /\ b.promote = u.local["promote"]
      BY ONLY <1>1, <1>3, <1>4, <2>2, <2>3, SplitLowHolds
    <2> QED
      BY <2>2, <2>4 DEF Keys, Kids
  <1>8. CASE j.idx = h
    <2>1. branch_insert_and_split(j) = equal \o e
      <3>1. j.idx = (j.a + 1) \div 2 /\ h = (j.a + 1) \div 2
        BY <1>3, <1>8 DEF IsHalf
      <3>2. ~(j.idx < (j.a + 1) \div 2) /\ ~(j.idx > (j.a + 1) \div 2)
        BY <1>1, <3>1
      <3> QED
        BY ONLY <3>1, <3>2, Zenon DEF branch_insert_and_split
    <2>2. PICK u : Runs(equal, s, u) /\ t.mem = u.mem /\ t.len = u.len /\ t.local = u.local
      <3>1. Runs(equal \o e, s, t)
        BY <2>1
      <3> HIDE DEF equal, e
      <3> QED
        BY ONLY <1>5, <1>6, <3>1
    <2>4. /\ Keys(u, "A") = b.lkeys /\ Kids(u, "A") = b.lchilds
          /\ Keys(u, "B") = b.rkeys /\ Kids(u, "B") = b.rchilds
          /\ b.promote = u.local["key"]
      BY ONLY <1>1, <1>3, <1>4, <1>8, <2>2, SplitEqualHolds
    <2> QED
      BY <2>2, <2>4 DEF Keys, Kids
  <1>9. CASE j.idx > h
    <2>1. branch_insert_and_split(j) = high \o e
      <3>1. j.idx > (j.a + 1) \div 2 /\ h = (j.a + 1) \div 2
        BY <1>3, <1>9 DEF IsHalf
      <3>2. ~(j.idx < (j.a + 1) \div 2) /\ j.idx # (j.a + 1) \div 2
        BY <1>1, <3>1
      <3> QED
        BY ONLY <3>1, <3>2, f = j.idx - h, m = j.a - (h + 1), Zenon DEF branch_insert_and_split
    <2>2. PICK u : Runs(high, s, u) /\ t.mem = u.mem /\ t.len = u.len /\ t.local = u.local
      <3>1. Runs(high \o e, s, t)
        BY <2>1
      <3> HIDE DEF high, e
      <3> QED
        BY ONLY <1>5, <1>6, <3>1
    <2>3. j.idx \in h + 1 .. j.a
      BY <1>1, <1>3, <1>9
    <2>4. /\ Keys(u, "A") = b.lkeys /\ Kids(u, "A") = b.lchilds
          /\ Keys(u, "B") = b.rkeys /\ Kids(u, "B") = b.rchilds
          /\ b.promote = u.local["promote"]
      BY ONLY <1>1, <1>3, <1>4, <2>2, <2>3, f = j.idx - h, m = j.a - (h + 1), SplitHighHolds
    <2> QED
      BY <2>2, <2>4 DEF Keys, Kids
  <1> QED
    BY <1>1, <1>3, <1>7, <1>8, <1>9

-----------------------------------------------------------------------------
(* Siblings, one after the other.                                          *)

(* The last entry of r goes to the front of s.                             *)
Gave(r, n, s, m, r2, s2) ==
  /\ \A x \in 0 .. n - 2 : r2[x] = r[x]
  /\ s2[0] = r[n - 1]
  /\ \A x \in 1 .. m : s2[x] = s[x - 1]

(* Named, for a prover that looks for a formula and not for an equation.   *)
SameRows(r, n, s, m, r2, n2, s2, m2) == Row(r2, n2) \o Row(s2, m2) = Row(r, n) \o Row(s, m)

LEMMA RowsGive ==
  ASSUME NEW n, NEW m, NEW r, NEW s, NEW r2, NEW s2, NEW n2, NEW m2,
         n \in Nat, n >= 1, m \in Nat, n2 = n - 1, m2 = m + 1, Gave(r, n, s, m, r2, s2)
  PROVE  SameRows(r, n, s, m, r2, n2, s2, m2)
  <1> PICK g : g = [x \in 0 .. n + m - 1 |-> IF x < n THEN r[x] ELSE s[x - n]]
    OBVIOUS
  <1>1. JoinedRow(g, r, n, s, m)
    BY DEF JoinedRow
  <1>2. JoinedRow(g, r2, n2, s2, m2)
    <2> SUFFICES ASSUME NEW x \in 0 .. n2 + m2 - 1
                 PROVE  g[x] = IF x < n2 THEN r2[x] ELSE s2[x - n2]
      BY DEF JoinedRow
    <2>1. x \in 0 .. n + m - 1
      OBVIOUS
    <2>2. g[x] = IF x < n THEN r[x] ELSE s[x - n]
      BY <2>1
    <2>3. CASE x < n - 1
      <3>1. x \in 0 .. n - 2 /\ x < n
        BY <2>3
      <3> QED
        BY <2>2, <2>3, <3>1 DEF Gave
    <2>4. CASE x = n - 1
      <3>1. x - (n - 1) = 0 /\ ~(x < n - 1) /\ x < n
        BY <2>4
      <3> QED
        BY <2>2, <2>4, <3>1 DEF Gave
    <2>5. CASE x >= n
      <3> PICK y : y = x - (n - 1)
        OBVIOUS
      <3>1. y \in 1 .. m /\ y - 1 = x - n /\ ~(x < n - 1) /\ ~(x < n)
        BY <2>1, <2>5
      <3> QED
        BY <2>2, <3>1 DEF Gave
    <2> QED
      BY <2>1, <2>3, <2>4, <2>5
  <1>3. n2 \in Nat /\ m2 \in Nat /\ n2 + m2 = n + m
    OBVIOUS
  <1>4. Row(g, n + m) = Row(r, n) \o Row(s, m)
    BY ONLY <1>1, n \in Nat, m \in Nat, RowJoin
  <1>5. Row(g, n2 + m2) = Row(r2, n2) \o Row(s2, m2)
    BY ONLY <1>2, <1>3, RowJoin
  <1> QED
    BY ONLY <1>3, <1>4, <1>5 DEF SameRows

LEMMA RowPush ==
  ASSUME NEW n \in Nat, NEW r, NEW e, NEW q, \A x \in 0 .. n - 1 : q[x] = r[x], q[n] = e
  PROVE  Row(q, n + 1) = Row(r, n) \o <<e>>
  <1> PICK one : one = [x \in {0} |-> e]
    OBVIOUS
  <1>1. Row(one, 1) = <<e>>
    BY DEF Row
  <1>2. JoinedRow(q, r, n, one, 1)
    <2> SUFFICES ASSUME NEW x \in 0 .. n + 1 - 1
                 PROVE  q[x] = IF x < n THEN r[x] ELSE one[x - n]
      BY DEF JoinedRow
    <2> QED
      OBVIOUS
  <1>3. Row(q, n + 1) = Row(r, n) \o Row(one, 1)
    <2>1. 1 \in Nat
      OBVIOUS
    <2> QED
      BY ONLY <1>2, <2>1, n \in Nat, RowJoin
  <1> QED
    BY <1>1, <1>3

(* The last entry of r goes up, and what was there to the front of s.      *)
GaveThrough(r, n, e, s, m, r2, e2, s2) ==
  /\ \A x \in 0 .. n - 2 : r2[x] = r[x]
  /\ e2 = r[n - 1] /\ s2[0] = e
  /\ \A x \in 1 .. m : s2[x] = s[x - 1]

SameThrough(r, n, e, s, m, r2, e2, s2) ==
  Row(r2, n - 1) \o <<e2>> \o Row(s2, m + 1) = Row(r, n) \o <<e>> \o Row(s, m)

LEMMA RowsGiveThrough ==
  ASSUME NEW n \in Nat, n >= 1, NEW m \in Nat, NEW r, NEW e, NEW s, NEW r2, NEW e2, NEW s2,
         GaveThrough(r, n, e, s, m, r2, e2, s2)
  PROVE  SameThrough(r, n, e, s, m, r2, e2, s2)
  <1> PICK p : p = n - 1
    OBVIOUS
  <1>0. p \in Nat /\ p + 1 = n
    OBVIOUS
  <1>1. Row(r, n) = Row(r2, n - 1) \o <<e2>>
    <2>1. (\A x \in 0 .. p - 1 : r[x] = r2[x]) /\ r[p] = e2
      BY DEF GaveThrough
    <2>2. Row(r, p + 1) = Row(r2, p) \o <<e2>>
      BY ONLY <1>0, <2>1, RowPush
    <2> QED
      BY <1>0, <2>2
  <1> PICK re : re = [x \in 0 .. n |-> IF x = n THEN e ELSE r[x]]
    OBVIOUS
  <1>2. Row(re, n + 1) = Row(r, n) \o <<e>>
    <2>1. (\A x \in 0 .. n - 1 : re[x] = r[x]) /\ re[n] = e
      OBVIOUS
    <2> QED
      BY ONLY n \in Nat, <2>1, RowPush
  <1> PICK g : g = [x \in 0 .. n + m |-> IF x < n THEN r[x] ELSE s2[x - n]]
    OBVIOUS
  <1>3. JoinedRow(g, r, n, s2, m + 1)
    BY DEF JoinedRow
  <1>4. JoinedRow(g, re, n + 1, s, m)
    <2> SUFFICES ASSUME NEW x \in 0 .. (n + 1) + m - 1
                 PROVE  g[x] = IF x < n + 1 THEN re[x] ELSE s[x - (n + 1)]
      BY DEF JoinedRow
    <2>1. x \in 0 .. n + m
      OBVIOUS
    <2>2. g[x] = IF x < n THEN r[x] ELSE s2[x - n]
      BY <2>1
    <2>3. CASE x < n
      BY <2>1, <2>2, <2>3
    <2>4. CASE x = n
      <3>1. x - n = 0 /\ ~(x < n) /\ x < n + 1
        BY <2>4
      <3> QED
        BY <2>2, <2>4, <3>1 DEF GaveThrough
    <2>5. CASE x > n
      <3> PICK y : y = x - n
        OBVIOUS
      <3>1. y \in 1 .. m /\ y - 1 = x - (n + 1) /\ ~(x < n + 1) /\ ~(x < n)
        BY <2>1, <2>5
      <3> QED
        BY <2>2, <3>1 DEF GaveThrough
    <2> QED
      BY <2>1, <2>3, <2>4, <2>5
  <1>5. n + 1 \in Nat /\ m + 1 \in Nat /\ n + (m + 1) = (n + 1) + m
    OBVIOUS
  <1>6. Row(g, n + (m + 1)) = Row(r, n) \o Row(s2, m + 1)
    BY ONLY n \in Nat, <1>3, <1>5, RowJoin
  <1>7. Row(g, (n + 1) + m) = Row(re, n + 1) \o Row(s, m)
    BY ONLY m \in Nat, <1>4, <1>5, RowJoin
  <1> QED
    BY ONLY <1>1, <1>2, <1>5, <1>6, <1>7 DEF SameThrough

-----------------------------------------------------------------------------
(* Moves between leaves.                                                   *)

LEMMA ShiftRightDid ==
  ASSUME NEW n \in Nodes, NEW i \in Nat, NEW l \in Nat, i <= l, NEW s, NEW t,
         Runs(shift_right(n, i, l), s, t)
  PROVE  KVCopied(n, i, n, i + 1, l - i, s, t)
  <1>1. CASE i < l
    BY <1>1, CopyKVDid DEF shift_right
  <1>2. CASE ~(i < l)
    <2>1. t = s
      <3>1. Runs(<<>>, s, t)
        BY <1>2 DEF shift_right
      <3> QED
        BY <3>1 DEF Runs
    <2>2. \A x \in Index : ~(i + 1 <= x /\ x < i + 1 + (l - i))
      BY <1>2 DEF Index
    <2> QED
      BY <2>1, <2>2 DEF KVCopied, KVRowsBut, Nodewise, CopiedRow
  <1> QED
    BY <1>1, <1>2

(* Only the keys and values of n and m change.                             *)
KVRowsBut2(n, m, s, t) ==
  /\ \A a \in Nodes : a \notin {n, m} => t.mem[K(a)] = s.mem[K(a)] /\ t.mem[V(a)] = s.mem[V(a)]
  /\ \A a \in Nodes : t.mem[C(a)] = s.mem[C(a)]

LEMMA MoveKVDid ==
  ASSUME NEW n \in Nodes, NEW m \in Nodes, n # m, NEW i, NEW j, NEW s, NEW t,
         Runs(move_kv_at(n, i, m, j), s, t)
  PROVE  /\ KVRowsBut2(n, m, s, t) /\ t.local = s.local /\ Nodewise(s, t) /\ t.gone = s.gone
         /\ CopiedRow(t.mem[K(m)], s.mem[K(n)], s.mem[K(m)], j, i, 1)
         /\ CopiedRow(t.mem[V(m)], s.mem[V(n)], s.mem[V(m)], j, i, 1)
         /\ ZeroedRow(t.mem[K(n)], s.mem[K(n)], i, 1)
         /\ ZeroedRow(t.mem[V(n)], s.mem[V(n)], i, 1)
  <1>1. IsSeq(CopyKV(n, i, m, j, 1)) /\ IsSeq(ZeroKV(n, i, 1))
    BY SeqsAre, Zenon DEF CopyKV, ZeroKV
  <1>2. PICK u : Runs(CopyKV(n, i, m, j, 1), s, u) /\ Runs(ZeroKV(n, i, 1), u, t)
    BY <1>1, RunsParts DEF move_kv_at
  <1>3. KVCopied(n, i, m, j, 1, s, u) /\ KVZeroed(n, i, 1, u, t)
    BY <1>2, CopyKVDid, ZeroKVDid
  <1> QED
    BY <1>3 DEF KVCopied, KVZeroed, KVRowsBut, KVRowsBut2, Nodewise

LEMMA ReplaceSepDid ==
  ASSUME NEW j, NEW s, NEW t, Runs(replace_sep(j), s, t)
  PROVE  /\ RowsBut(K("P"), s, t) /\ t.len = s.len
         /\ WrittenRow(t.mem[K("P")], s.mem[K("P")], j.idx, CloneOf(s.mem[K("B")][0]))
  <1>1. PICK u1, u2, u3 :
          /\ Did(Clone(K("B"), 0, "new_sep"), s, u1) /\ Did(Read(K("P"), j.idx, "old_sep"), u1, u2)
          /\ Did(DropLocal("old_sep"), u2, u3) /\ Did(Write(K("P"), j.idx, "new_sep"), u3, t)
    BY RunsFour DEF replace_sep
  <1>2. /\ CloneDid(K("B"), 0, "new_sep", s, u1) /\ ReadDid(K("P"), j.idx, "old_sep", u1, u2)
        /\ DropDid("old_sep", u2, u3) /\ WriteDid(K("P"), j.idx, "new_sep", u3, t)
    BY <1>1, DidWhat
  <1>3. u3.mem = s.mem
    BY <1>2 DEF CloneDid, ReadDid, DropDid
  <1>4. u3.local["new_sep"] = CloneOf(s.mem[K("B")][0])
    BY <1>2, LocalsAre DEF CloneDid, ReadDid, DropDid, LocalsBut
  <1>5. t.len = s.len
    BY <1>2 DEF CloneDid, ReadDid, DropDid, WriteDid, Nodewise
  <1> QED
    BY <1>2, <1>3, <1>4, <1>5 DEF WriteDid, RowsBut

(* What a borrow leaves in the slots.                                      *)
BorrowHeld(j, s, t) ==
  /\ t.len["A"] = IF j.a > j.b THEN j.a - 1 ELSE j.a + 1
  /\ t.len["A"] + t.len["B"] = j.a + j.b
  /\ Kids(t, "P") = Kids(s, "P")
  /\ \A i \in 1 .. j.p : i # j.idx + 1 => Keys(t, "P")[i] = Keys(s, "P")[i]
  /\ IF j.proc \in OnLeaves
     THEN /\ Keys(t, "A") \o Keys(t, "B") = Keys(s, "A") \o Keys(s, "B")
          /\ Vals(t, "A") \o Vals(t, "B") = Vals(s, "A") \o Vals(s, "B")
          /\ Keys(t, "P")[j.idx + 1] = CloneOf(Keys(t, "B")[1])
     ELSE /\ Keys(t, "A") \o <<Keys(t, "P")[j.idx + 1]>> \o Keys(t, "B")
               = Keys(s, "A") \o <<Keys(s, "P")[j.idx + 1]>> \o Keys(s, "B")
          /\ Kids(t, "A") \o Kids(t, "B") = Kids(s, "A") \o Kids(s, "B")

LEMMA MinLenIs ==
  ASSUME NEW j \in Jobs
  PROVE  MinLen(j) \in Nat
  <1>1. j.lcap \in Nat /\ j.bcap \in Nat
    BY JobIs
  <1>2. Cap(j) \in Nat
    BY <1>1 DEF Cap
  <1>3. Cap(j) \div 2 \in Nat
    BY <1>2
  <1> QED
    BY <1>3 DEF MinLen

(* The parent of siblings when the key at idx alone is overwritten.        *)
ParentDid(j, s, t, v) ==
  /\ s.len["P"] = j.p /\ t.len["P"] = j.p /\ t.mem[C("P")] = s.mem[C("P")]
  /\ WrittenRow(t.mem[K("P")], s.mem[K("P")], j.idx, v)
ParentHeld(j, s, t, v) ==
  /\ Kids(t, "P") = Kids(s, "P")
  /\ \A i \in 1 .. j.p : i # j.idx + 1 => Keys(t, "P")[i] = Keys(s, "P")[i]
  /\ Keys(t, "P")[j.idx + 1] = v /\ Keys(s, "P")[j.idx + 1] = s.mem[K("P")][j.idx]

LEMMA ParentRows ==
  ASSUME NEW j \in Jobs, j.idx < j.p, NEW s, NEW t, NEW v, ParentDid(j, s, t, v)
  PROVE  ParentHeld(j, s, t, v)
  <1>0. /\ s.len["P"] = j.p /\ t.len["P"] = j.p /\ t.mem[C("P")] = s.mem[C("P")]
        /\ WrittenRow(t.mem[K("P")], s.mem[K("P")], j.idx, v)
    BY DEF ParentDid
  <1>1. j.p \in Nat /\ j.idx \in 0 .. j.p - 1 /\ j.p <= MaxCap /\ MaxCap \in Nat
    BY JobIs
  <1>2. Kids(t, "P") = Kids(s, "P")
    BY <1>0 DEF Kids
  <1>3. ASSUME NEW i \in 1 .. j.p, i # j.idx + 1
        PROVE  Keys(t, "P")[i] = Keys(s, "P")[i]
    <2>1. i - 1 \in Index /\ i - 1 # j.idx
      BY <1>1, <1>3 DEF Index
    <2>2. t.mem[K("P")][i - 1] = s.mem[K("P")][i - 1]
      BY <1>0, <2>1 DEF WrittenRow
    <2> QED
      BY <1>0, <2>2 DEF Keys, Row
  <1>4. Keys(t, "P")[j.idx + 1] = v
    <2>1. j.idx \in Index
      BY <1>1 DEF Index
    <2>2. t.mem[K("P")][j.idx] = v
      BY <1>0, <2>1 DEF WrittenRow
    <2>3. Row(t.mem[K("P")], j.p)[j.idx + 1] = t.mem[K("P")][j.idx]
      BY ONLY <1>1, RowAt
    <2> QED
      BY <1>0, <2>2, <2>3 DEF Keys
  <1>5. Keys(s, "P")[j.idx + 1] = s.mem[K("P")][j.idx]
    <2>1. Row(s.mem[K("P")], j.p)[j.idx + 1] = s.mem[K("P")][j.idx]
      BY ONLY <1>1, RowAt
    <2> QED
      BY <1>0, <2>1 DEF Keys
  <1> QED
    BY <1>2, <1>3, <1>4, <1>5 DEF ParentHeld

LEMMA GaveLeft ==
  ASSUME NEW n \in Nat, n >= 1, n <= MaxCap, NEW m \in Nat, m <= MaxCap, MaxCap \in Nat,
         NEW r, NEW s, NEW w, NEW r2, NEW s2, ZeroedRow(r2, r, n - 1, 1),
         CopiedRow(w, s, s, 1, 0, m), CopiedRow(s2, r, w, 0, n - 1, 1)
  PROVE  Gave(r, n, s, m, r2, s2)
  <1>1. ASSUME NEW x \in 0 .. n - 2
        PROVE  r2[x] = r[x]
    <2>1. x \in Index /\ ~(n - 1 <= x)
      BY DEF Index
    <2> QED
      BY <2>1 DEF ZeroedRow
  <1>2. s2[0] = r[n - 1]
    <2>1. 0 \in Index /\ 0 - 0 + (n - 1) = n - 1
      BY DEF Index
    <2> QED
      BY <2>1 DEF CopiedRow
  <1>3. ASSUME NEW x \in 1 .. m
        PROVE  s2[x] = s[x - 1]
    <2>1. x \in Index /\ ~(x < 0 + 1) /\ 1 <= x /\ x < 1 + m /\ x - 1 + 0 = x - 1
      BY DEF Index
    <2>2. s2[x] = w[x]
      BY <2>1 DEF CopiedRow
    <2>3. w[x] = IF 1 <= x /\ x < 1 + m THEN s[x - 1 + 0] ELSE s[x]
      BY <2>1 DEF CopiedRow
    <2> QED
      BY <2>1, <2>2, <2>3
  <1> QED
    BY <1>1, <1>2, <1>3 DEF Gave

(* The last item of the left leaf goes to the right one.                   *)
LEMMA BorrowLeftLeafHolds ==
  ASSUME NEW j \in Jobs, CanStart(j), j.proc = "borrow_from_left_leaf",
         NEW s, NEW t, Begins(j, s), Runs(borrow_from_left_leaf(j), s, t)
  PROVE  BorrowHeld(j, s, t)
  <1>1. /\ j.a \in Nat /\ j.a >= 1 /\ j.a <= MaxCap /\ j.b \in Nat /\ j.b <= MaxCap /\ MaxCap \in Nat
        /\ j.a > j.b /\ j.idx < j.p
    BY JobIs, MinLenIs DEF CanStart, OnLeaves
  <1>2. s.len["A"] = j.a /\ s.len["B"] = j.b /\ s.len["P"] = j.p
    BY DEF Begins
  <1> DEFINE p1 == shift_right("B", 0, j.b)
             p2 == move_kv_at("A", j.a - 1, "B", 0)
             p3 == <<SetLen("A", j.a - 1), SetLen("B", j.b + 1)>>
             p4 == replace_sep(j)
  <1>3. PICK u, v, w : Runs(p1, s, u) /\ Runs(p2, u, v) /\ Runs(p3, v, w) /\ Runs(p4, w, t)
    <2>1. IsSeq(p1) /\ IsSeq(p2) /\ IsSeq(p3) /\ IsSeq(p4)
      <3>1. IsSeq(p1)
        BY SeqsAre, Zenon DEF shift_right, CopyKV
      <3>2. IsSeq(p2)
        BY SeqsAre, IsSeqJoin, Zenon DEF move_kv_at, CopyKV, ZeroKV
      <3>3. IsSeq(p3) /\ IsSeq(p4)
        BY SeqsAre, Zenon DEF replace_sep
      <3> QED
        BY ONLY <3>1, <3>2, <3>3
    <2>2. Runs(p1 \o p2 \o p3 \o p4, s, t)
      BY DEF borrow_from_left_leaf
    <2> HIDE DEF p1, p2, p3, p4
    <2> QED
      BY ONLY <2>1, <2>2, IsSeqJoin, RunsParts
  <1>4. KVCopied("B", 0, "B", 1, j.b, s, u)
    <2>1. KVCopied("B", 0, "B", 0 + 1, j.b - 0, s, u)
      BY <1>1, <1>3, NodesAre, ShiftRightDid
    <2> QED
      BY <1>1, <2>1
  <1>5. /\ KVRowsBut2("A", "B", u, v) /\ Nodewise(u, v)
        /\ CopiedRow(v.mem[K("B")], u.mem[K("A")], u.mem[K("B")], 0, j.a - 1, 1)
        /\ CopiedRow(v.mem[V("B")], u.mem[V("A")], u.mem[V("B")], 0, j.a - 1, 1)
        /\ ZeroedRow(v.mem[K("A")], u.mem[K("A")], j.a - 1, 1)
        /\ ZeroedRow(v.mem[V("A")], u.mem[V("A")], j.a - 1, 1)
    BY <1>3, NodesAre, MoveKVDid
  <1>6. w.mem = v.mem /\ w.len["A"] = j.a - 1 /\ w.len["B"] = j.b + 1 /\ w.len["P"] = v.len["P"]
    BY <1>3, NodesAre, TwoLens
  <1>7. /\ RowsBut(K("P"), w, t) /\ t.len = w.len
        /\ WrittenRow(t.mem[K("P")], w.mem[K("P")], j.idx, CloneOf(w.mem[K("B")][0]))
    BY <1>3, ReplaceSepDid
  <1>8. /\ t.mem[K("A")] = v.mem[K("A")] /\ t.mem[V("A")] = v.mem[V("A")]
        /\ t.mem[K("B")] = v.mem[K("B")] /\ t.mem[V("B")] = v.mem[V("B")]
        /\ t.mem[C("P")] = s.mem[C("P")] /\ w.mem[K("P")] = s.mem[K("P")]
    <2>1. v.mem[C("P")] = s.mem[C("P")] /\ v.mem[K("P")] = s.mem[K("P")]
      BY <1>4, <1>5, NodesAre DEF KVCopied, KVRowsBut, KVRowsBut2
    <2> QED
      BY <1>6, <1>7, <2>1, Apart, NodesAre DEF RowsBut
  <1>9. t.len["A"] = j.a - 1 /\ t.len["B"] = j.b + 1 /\ t.len["P"] = j.p
    BY <1>2, <1>4, <1>5, <1>6, <1>7 DEF KVCopied, Nodewise
  <1>10. Gave(s.mem[K("A")], j.a, s.mem[K("B")], j.b, t.mem[K("A")], t.mem[K("B")])
    <2>1. u.mem[K("A")] = s.mem[K("A")]
      BY <1>4, NodesAre DEF KVCopied, KVRowsBut
    <2>2. /\ ZeroedRow(t.mem[K("A")], s.mem[K("A")], j.a - 1, 1)
          /\ CopiedRow(u.mem[K("B")], s.mem[K("B")], s.mem[K("B")], 1, 0, j.b)
          /\ CopiedRow(t.mem[K("B")], s.mem[K("A")], u.mem[K("B")], 0, j.a - 1, 1)
      BY <1>4, <1>5, <1>8, <2>1 DEF KVCopied
    <2> QED
      BY ONLY <1>1, <2>2, GaveLeft
  <1>11. Gave(s.mem[V("A")], j.a, s.mem[V("B")], j.b, t.mem[V("A")], t.mem[V("B")])
    <2>1. u.mem[V("A")] = s.mem[V("A")]
      BY <1>4, NodesAre DEF KVCopied, KVRowsBut
    <2>2. /\ ZeroedRow(t.mem[V("A")], s.mem[V("A")], j.a - 1, 1)
          /\ CopiedRow(u.mem[V("B")], s.mem[V("B")], s.mem[V("B")], 1, 0, j.b)
          /\ CopiedRow(t.mem[V("B")], s.mem[V("A")], u.mem[V("B")], 0, j.a - 1, 1)
      BY <1>4, <1>5, <1>8, <2>1 DEF KVCopied
    <2> QED
      BY ONLY <1>1, <2>2, GaveLeft
  <1>12. Keys(t, "A") \o Keys(t, "B") = Keys(s, "A") \o Keys(s, "B")
    <2> PICK n \in Nat : n = j.a
      BY <1>1
    <2> PICK m \in Nat : m = j.b
      BY <1>1
    <2>1. Row(t.mem[K("A")], n - 1) \o Row(t.mem[K("B")], m + 1)
            = Row(s.mem[K("A")], n) \o Row(s.mem[K("B")], m)
      <3>1. n >= 1 /\ Gave(s.mem[K("A")], n, s.mem[K("B")], m, t.mem[K("A")], t.mem[K("B")])
        BY <1>1, <1>10
      <3> QED
        <4> PICK r, z, r2, z2 : /\ r = s.mem[K("A")] /\ z = s.mem[K("B")]
                                /\ r2 = t.mem[K("A")] /\ z2 = t.mem[K("B")]
          OBVIOUS
        <4>1. Gave(r, n, z, m, r2, z2) /\ n >= 1
          BY <3>1
        <4> PICK n2, m2 : n2 = n - 1 /\ m2 = m + 1
          OBVIOUS
        <4>2. SameRows(r, n, z, m, r2, n2, z2, m2)
          BY ONLY n \in Nat, m \in Nat, n2 = n - 1, m2 = m + 1, <4>1, RowsGive, Zenon
        <4> QED
          BY <4>2 DEF SameRows
    <2> QED
      BY <1>2, <1>9, <2>1 DEF Keys
  <1>13. Vals(t, "A") \o Vals(t, "B") = Vals(s, "A") \o Vals(s, "B")
    <2> PICK n \in Nat : n = j.a
      BY <1>1
    <2> PICK m \in Nat : m = j.b
      BY <1>1
    <2>1. Row(t.mem[V("A")], n - 1) \o Row(t.mem[V("B")], m + 1)
            = Row(s.mem[V("A")], n) \o Row(s.mem[V("B")], m)
      <3>1. n >= 1 /\ Gave(s.mem[V("A")], n, s.mem[V("B")], m, t.mem[V("A")], t.mem[V("B")])
        BY <1>1, <1>11
      <3> QED
        <4> PICK r, z, r2, z2 : /\ r = s.mem[V("A")] /\ z = s.mem[V("B")]
                                /\ r2 = t.mem[V("A")] /\ z2 = t.mem[V("B")]
          OBVIOUS
        <4>1. Gave(r, n, z, m, r2, z2) /\ n >= 1
          BY <3>1
        <4> PICK n2, m2 : n2 = n - 1 /\ m2 = m + 1
          OBVIOUS
        <4>2. SameRows(r, n, z, m, r2, n2, z2, m2)
          BY ONLY n \in Nat, m \in Nat, n2 = n - 1, m2 = m + 1, <4>1, RowsGive, Zenon
        <4> QED
          BY <4>2 DEF SameRows
    <2> QED
      BY <1>2, <1>9, <2>1 DEF Vals
  <1>14. ParentHeld(j, s, t, CloneOf(t.mem[K("B")][0]))
    <2>1. ParentDid(j, s, t, CloneOf(t.mem[K("B")][0]))
      BY <1>2, <1>6, <1>7, <1>8, <1>9 DEF ParentDid
    <2> QED
      BY <1>1, <2>1, ParentRows
  <1>15. Keys(t, "B")[1] = t.mem[K("B")][0]
    BY <1>1, <1>9 DEF Keys, Row
  <1>16. /\ t.len["A"] = IF j.a > j.b THEN j.a - 1 ELSE j.a + 1
         /\ t.len["A"] + t.len["B"] = j.a + j.b
    BY <1>1, <1>9
  <1>17. j.proc \in OnLeaves
    BY DEF OnLeaves
  <1> QED
    BY ONLY <1>12, <1>13, <1>14, <1>15, <1>16, <1>17 DEF BorrowHeld, ParentHeld

(* The first entry of s taken to the end of r, where q was.                *)
LEMMA ClosedGap ==
  ASSUME NEW m \in Nat, m >= 1, m <= MaxCap, MaxCap \in Nat, NEW s, NEW v, NEW w, NEW s2,
         \A x \in 1 .. m - 1 : v[x] = s[x],
         CopiedRow(w, v, v, 0, 1, m - 1), ZeroedRow(s2, w, m - 1, 1)
  PROVE  \A x \in 1 .. m - 1 : s[x] = s2[x - 1]
  <1> TAKE x \in 1 .. m - 1
  <1> PICK y : y = x - 1
    OBVIOUS
  <1>1. y \in Index /\ ~(m - 1 <= y) /\ 0 <= y /\ y < 0 + (m - 1) /\ y - 0 + 1 = x
    BY DEF Index
  <1>2. s2[y] = w[y]
    BY <1>1 DEF ZeroedRow
  <1>3. w[y] = v[x]
    BY <1>1 DEF CopiedRow
  <1> QED
    BY <1>2, <1>3

LEMMA GaveRight ==
  ASSUME NEW n \in Nat, n <= MaxCap, NEW m \in Nat, m >= 1, m <= MaxCap, MaxCap \in Nat,
         NEW r, NEW s, NEW v, NEW w, NEW r2, NEW s2, CopiedRow(r2, s, r, n, 0, 1),
         ZeroedRow(v, s, 0, 1), CopiedRow(w, v, v, 0, 1, m - 1), ZeroedRow(s2, w, m - 1, 1)
  PROVE  Gave(r2, n + 1, s2, m - 1, r, s)
  <1>1. ASSUME NEW x \in 0 .. n + 1 - 2
        PROVE  r[x] = r2[x]
    <2>1. x \in Index /\ ~(n <= x)
      BY DEF Index
    <2> QED
      BY <2>1 DEF CopiedRow
  <1>2. s[0] = r2[n + 1 - 1]
    <2>1. n \in Index /\ n <= n /\ n < n + 1 /\ n - n + 0 = 0 /\ n + 1 - 1 = n
      BY DEF Index
    <2>2. r2[n] = s[0]
      BY <2>1 DEF CopiedRow
    <2> QED
      BY <2>1, <2>2
  <1>3. \A x \in 1 .. m - 1 : s[x] = s2[x - 1]
    <2>1. \A x \in 1 .. m - 1 : v[x] = s[x]
      <3> TAKE x \in 1 .. m - 1
      <3>1. x \in Index /\ ~(x < 0 + 1)
        BY DEF Index
      <3> QED
        BY <3>1 DEF ZeroedRow
    <2> QED
      BY <2>1, ClosedGap
  <1> QED
    BY <1>1, <1>2, <1>3 DEF Gave

(* The first item of the right leaf goes to the left one.                  *)
LEMMA BorrowRightLeafHolds ==
  ASSUME NEW j \in Jobs, CanStart(j), j.proc = "borrow_from_right_leaf",
         NEW s, NEW t, Begins(j, s), Runs(borrow_from_right_leaf(j), s, t)
  PROVE  BorrowHeld(j, s, t)
  <1>1. /\ j.a \in Nat /\ j.a <= MaxCap /\ j.b \in Nat /\ j.b > 1 /\ j.b <= MaxCap /\ MaxCap \in Nat
        /\ ~(j.a > j.b) /\ j.idx < j.p
    BY JobIs, MinLenIs DEF CanStart, OnLeaves
  <1>2. s.len["A"] = j.a /\ s.len["B"] = j.b /\ s.len["P"] = j.p
    BY DEF Begins
  <1> DEFINE p1 == move_kv_at("B", 0, "A", j.a)
             p2 == <<SetLen("A", j.a + 1)>>
             p3 == shift_left_kv("B", 0, j.b - 1) \o ZeroKV("B", j.b - 1, 1)
             p4 == <<SetLen("B", j.b - 1)>>
             p5 == replace_sep(j)
  <1>3. PICK u1, u2, u3, u4 :
          Runs(p1, s, u1) /\ Runs(p2, u1, u2) /\ Runs(p3, u2, u3) /\ Runs(p4, u3, u4) /\ Runs(p5, u4, t)
    <2>1. IsSeq(p1) /\ IsSeq(p2) /\ IsSeq(p3) /\ IsSeq(p4) /\ IsSeq(p5)
      <3>1. IsSeq(p1)
        BY SeqsAre, IsSeqJoin, Zenon DEF move_kv_at, CopyKV, ZeroKV
      <3>2. IsSeq(p3)
        BY SeqsAre, IsSeqJoin, Zenon DEF shift_left_kv, CopyKV, ZeroKV
      <3>3. IsSeq(p2) /\ IsSeq(p4) /\ IsSeq(p5)
        BY SeqsAre, Zenon DEF replace_sep
      <3> QED
        BY ONLY <3>1, <3>2, <3>3
    <2>2. Runs(p1 \o p2 \o p3 \o p4 \o p5, s, t)
      <3>1. borrow_from_right_leaf(j) = p1 \o p2 \o p3 \o p4 \o p5
        <4>1. j.b > 1
          BY <1>1
        <4> QED
          BY ONLY <4>1, Zenon DEF borrow_from_right_leaf
      <3> QED
        BY <3>1
    <2> HIDE DEF p1, p2, p3, p4, p5
    <2> QED
      BY ONLY <2>1, <2>2, IsSeqJoin, RunsParts
  <1>4. /\ KVRowsBut2("B", "A", s, u1) /\ Nodewise(s, u1)
        /\ CopiedRow(u1.mem[K("A")], s.mem[K("B")], s.mem[K("A")], j.a, 0, 1)
        /\ CopiedRow(u1.mem[V("A")], s.mem[V("B")], s.mem[V("A")], j.a, 0, 1)
        /\ ZeroedRow(u1.mem[K("B")], s.mem[K("B")], 0, 1)
        /\ ZeroedRow(u1.mem[V("B")], s.mem[V("B")], 0, 1)
    BY <1>3, NodesAre, MoveKVDid
  <1>5. LenDid("A", j.a + 1, u1, u2) /\ LenDid("B", j.b - 1, u3, u4)
    BY <1>3, OneLen
  <1>6. PICK w : KVCopied("B", 1, "B", 0, j.b - 1, u2, w) /\ KVZeroed("B", j.b - 1, 1, w, u3)
    <2>1. IsSeq(shift_left_kv("B", 0, j.b - 1)) /\ IsSeq(ZeroKV("B", j.b - 1, 1))
      BY SeqsAre, Zenon DEF shift_left_kv, CopyKV, ZeroKV
    <2>2. PICK w : Runs(shift_left_kv("B", 0, j.b - 1), u2, w) /\ Runs(ZeroKV("B", j.b - 1, 1), w, u3)
      BY <1>3, <2>1, RunsParts
    <2>3. KVCopied("B", 0 + 1, "B", 0, j.b - 1, u2, w)
      BY <2>2, CopyKVDid, NodesAre DEF shift_left_kv
    <2>4. KVZeroed("B", j.b - 1, 1, w, u3)
      BY <2>2, ZeroKVDid, NodesAre
    <2> QED
      BY <2>3, <2>4
  <1>7. /\ RowsBut(K("P"), u4, t) /\ t.len = u4.len
        /\ WrittenRow(t.mem[K("P")], u4.mem[K("P")], j.idx, CloneOf(u4.mem[K("B")][0]))
    BY <1>3, ReplaceSepDid
  <1>8. /\ t.mem[K("A")] = u1.mem[K("A")] /\ t.mem[V("A")] = u1.mem[V("A")]
        /\ t.mem[K("B")] = u3.mem[K("B")] /\ t.mem[V("B")] = u3.mem[V("B")]
        /\ u4.mem[K("B")] = u3.mem[K("B")]
        /\ t.mem[C("P")] = s.mem[C("P")] /\ u4.mem[K("P")] = s.mem[K("P")]
    <2>1. u1.mem[C("P")] = s.mem[C("P")] /\ u1.mem[K("P")] = s.mem[K("P")]
      BY <1>4, NodesAre DEF KVRowsBut2
    <2>2. u2.mem = u1.mem /\ u4.mem = u3.mem
      BY <1>5 DEF LenDid
    <2>3. /\ u3.mem[C("P")] = u2.mem[C("P")] /\ u3.mem[K("P")] = u2.mem[K("P")]
          /\ u3.mem[K("A")] = u2.mem[K("A")] /\ u3.mem[V("A")] = u2.mem[V("A")]
      BY <1>6, NodesAre DEF KVCopied, KVZeroed, KVRowsBut
    <2>4. /\ t.mem[K("A")] = u4.mem[K("A")] /\ t.mem[V("A")] = u4.mem[V("A")]
          /\ t.mem[K("B")] = u4.mem[K("B")] /\ t.mem[V("B")] = u4.mem[V("B")]
          /\ t.mem[C("P")] = u4.mem[C("P")]
      BY <1>7, Apart, NodesAre DEF RowsBut
    <2> QED
      BY <2>1, <2>2, <2>3, <2>4
  <1>9. t.len["A"] = j.a + 1 /\ t.len["B"] = j.b - 1 /\ t.len["P"] = j.p
    <2>1. u1.len = s.len /\ u3.len = u2.len
      BY <1>4, <1>6 DEF KVCopied, KVZeroed, Nodewise
    <2> QED
      BY <1>2, <1>5, <1>7, <2>1, NodesAre DEF LenDid
  <1>10. Gave(t.mem[K("A")], j.a + 1, t.mem[K("B")], j.b - 1, s.mem[K("A")], s.mem[K("B")])
    <2>1. u2.mem = u1.mem
      BY <1>5 DEF LenDid
    <2>2. /\ CopiedRow(t.mem[K("A")], s.mem[K("B")], s.mem[K("A")], j.a, 0, 1)
          /\ CopiedRow(w.mem[K("B")], u1.mem[K("B")], u1.mem[K("B")], 0, 1, j.b - 1)
          /\ ZeroedRow(t.mem[K("B")], w.mem[K("B")], j.b - 1, 1)
      BY <1>4, <1>6, <1>8, <2>1 DEF KVCopied, KVZeroed
    <2> QED
      BY <1>1, <1>4, <2>2, GaveRight
  <1>11. Gave(t.mem[V("A")], j.a + 1, t.mem[V("B")], j.b - 1, s.mem[V("A")], s.mem[V("B")])
    <2>1. u2.mem = u1.mem
      BY <1>5 DEF LenDid
    <2>2. /\ CopiedRow(t.mem[V("A")], s.mem[V("B")], s.mem[V("A")], j.a, 0, 1)
          /\ CopiedRow(w.mem[V("B")], u1.mem[V("B")], u1.mem[V("B")], 0, 1, j.b - 1)
          /\ ZeroedRow(t.mem[V("B")], w.mem[V("B")], j.b - 1, 1)
      BY <1>4, <1>6, <1>8, <2>1 DEF KVCopied, KVZeroed
    <2> QED
      BY <1>1, <1>4, <2>2, GaveRight
  <1> PICK n \in Nat : n = j.a + 1
    BY <1>1
  <1> PICK m \in Nat : m = j.b - 1
    BY <1>1
  <1>18. n - 1 = j.a /\ m + 1 = j.b /\ n >= 1
    BY <1>1
  <1>12. Keys(t, "A") \o Keys(t, "B") = Keys(s, "A") \o Keys(s, "B")
    <2>1. Row(s.mem[K("A")], n - 1) \o Row(s.mem[K("B")], m + 1)
            = Row(t.mem[K("A")], n) \o Row(t.mem[K("B")], m)
      <3>1. Gave(t.mem[K("A")], n, t.mem[K("B")], m, s.mem[K("A")], s.mem[K("B")])
        BY <1>10
      <3> QED
        <4> PICK r, z, r2, z2 : /\ r = t.mem[K("A")] /\ z = t.mem[K("B")]
                                /\ r2 = s.mem[K("A")] /\ z2 = s.mem[K("B")]
          OBVIOUS
        <4>1. Gave(r, n, z, m, r2, z2) /\ n >= 1
          BY <1>18, <3>1
        <4> PICK n2, m2 : n2 = n - 1 /\ m2 = m + 1
          OBVIOUS
        <4>2. SameRows(r, n, z, m, r2, n2, z2, m2)
          BY ONLY n \in Nat, m \in Nat, n2 = n - 1, m2 = m + 1, <4>1, RowsGive, Zenon
        <4> QED
          BY <4>2 DEF SameRows
    <2> QED
      BY <1>2, <1>9, <1>18, <2>1 DEF Keys
  <1>13. Vals(t, "A") \o Vals(t, "B") = Vals(s, "A") \o Vals(s, "B")
    <2>1. Row(s.mem[V("A")], n - 1) \o Row(s.mem[V("B")], m + 1)
            = Row(t.mem[V("A")], n) \o Row(t.mem[V("B")], m)
      <3>1. Gave(t.mem[V("A")], n, t.mem[V("B")], m, s.mem[V("A")], s.mem[V("B")])
        BY <1>11
      <3> QED
        <4> PICK r, z, r2, z2 : /\ r = t.mem[V("A")] /\ z = t.mem[V("B")]
                                /\ r2 = s.mem[V("A")] /\ z2 = s.mem[V("B")]
          OBVIOUS
        <4>1. Gave(r, n, z, m, r2, z2) /\ n >= 1
          BY <1>18, <3>1
        <4> PICK n2, m2 : n2 = n - 1 /\ m2 = m + 1
          OBVIOUS
        <4>2. SameRows(r, n, z, m, r2, n2, z2, m2)
          BY ONLY n \in Nat, m \in Nat, n2 = n - 1, m2 = m + 1, <4>1, RowsGive, Zenon
        <4> QED
          BY <4>2 DEF SameRows
    <2> QED
      BY <1>2, <1>9, <1>18, <2>1 DEF Vals
  <1>14. ParentHeld(j, s, t, CloneOf(t.mem[K("B")][0]))
    <2>1. ParentDid(j, s, t, CloneOf(t.mem[K("B")][0]))
      BY <1>2, <1>7, <1>8, <1>9 DEF ParentDid
    <2> QED
      BY <1>1, <2>1, ParentRows
  <1>15. Keys(t, "B")[1] = t.mem[K("B")][0]
    BY <1>1, <1>9 DEF Keys, Row
  <1>16. /\ t.len["A"] = IF j.a > j.b THEN j.a - 1 ELSE j.a + 1
         /\ t.len["A"] + t.len["B"] = j.a + j.b
    BY <1>1, <1>9
  <1>17. j.proc \in OnLeaves
    BY DEF OnLeaves
  <1> QED
    BY ONLY <1>12, <1>13, <1>14, <1>15, <1>16, <1>17 DEF BorrowHeld, ParentHeld

LEMMA GaveWritten ==
  ASSUME NEW n \in Nat, n >= 1, n <= MaxCap + 1, NEW m \in Nat, m <= MaxCap + 1, MaxCap \in Nat,
         NEW r, NEW s, NEW w, NEW e, NEW r2, NEW s2, ZeroedRow(r2, r, n - 1, 1),
         CopiedRow(w, s, s, 1, 0, m), WrittenRow(s2, w, 0, e)
  PROVE  /\ \A x \in 0 .. n - 2 : r2[x] = r[x]
         /\ s2[0] = e
         /\ \A x \in 1 .. m : s2[x] = s[x - 1]
  <1>1. ASSUME NEW x \in 0 .. n - 2
        PROVE  r2[x] = r[x]
    <2>1. x \in Index /\ ~(n - 1 <= x)
      BY DEF Index
    <2> QED
      BY <2>1 DEF ZeroedRow
  <1>2. s2[0] = e
    <2>1. 0 \in Index
      BY DEF Index
    <2> QED
      BY <2>1 DEF WrittenRow
  <1>3. ASSUME NEW x \in 1 .. m
        PROVE  s2[x] = s[x - 1]
    <2>1. x \in Index /\ x # 0 /\ 1 <= x /\ x < 1 + m /\ x - 1 + 0 = x - 1
      BY DEF Index
    <2>2. s2[x] = w[x]
      BY <2>1 DEF WrittenRow
    <2>3. w[x] = IF 1 <= x /\ x < 1 + m THEN s[x - 1 + 0] ELSE s[x]
      BY <2>1 DEF CopiedRow
    <2> QED
      BY <2>1, <2>2, <2>3
  <1> QED
    BY <1>1, <1>2, <1>3

(* The last child of the left branch goes to the right one.                *)
LEMMA BorrowLeftBranchHolds ==
  ASSUME NEW j \in Jobs, CanStart(j), j.proc = "borrow_from_left_branch",
         NEW s, NEW t, Begins(j, s), Runs(borrow_from_left_branch(j), s, t)
  PROVE  BorrowHeld(j, s, t)
  <1>1. /\ j.a \in Nat /\ j.a >= 1 /\ j.a <= MaxCap /\ j.b \in Nat /\ j.b <= MaxCap /\ MaxCap \in Nat
        /\ j.a > j.b /\ j.idx < j.p
    BY JobIs, MinLenIs DEF CanStart, OnBranches
  <1>2. s.len["A"] = j.a /\ s.len["B"] = j.b /\ s.len["P"] = j.p
    BY DEF Begins
  <1>3. PICK u1, u2, u3, u4, u5, u6, u7, u8, u9, u10, u11 :
          /\ Did(Read(K("P"), j.idx, "parent_key"), s, u1)
          /\ Did(Read(K("A"), j.a - 1, "borrowed_key"), u1, u2)
          /\ Did(Zero(K("A"), j.a - 1, 1), u2, u3)
          /\ Did(Read(C("A"), j.a, "borrowed_child"), u3, u4)
          /\ Did(SetLen("A", j.a - 1), u4, u5)
          /\ Did(Zero(C("A"), j.a, 1), u5, u6)
          /\ Did(Copy(K("B"), 0, K("B"), 1, j.b), u6, u7)
          /\ Did(Copy(C("B"), 0, C("B"), 1, j.b + 1), u7, u8)
          /\ Did(Write(K("B"), 0, "parent_key"), u8, u9)
          /\ Did(Write(C("B"), 0, "borrowed_child"), u9, u10)
          /\ Did(SetLen("B", j.b + 1), u10, u11)
          /\ Did(Write(K("P"), j.idx, "borrowed_key"), u11, t)
    BY RunsTwelve DEF borrow_from_left_branch
  <1>4. /\ ReadDid(K("P"), j.idx, "parent_key", s, u1)
        /\ ReadDid(K("A"), j.a - 1, "borrowed_key", u1, u2)
        /\ ZeroDid(K("A"), j.a - 1, 1, u2, u3)
        /\ ReadDid(C("A"), j.a, "borrowed_child", u3, u4)
        /\ LenDid("A", j.a - 1, u4, u5)
        /\ ZeroDid(C("A"), j.a, 1, u5, u6)
    BY <1>3, DidWhat
  <1>5. /\ CopyDid(K("B"), 0, K("B"), 1, j.b, u6, u7)
        /\ CopyDid(C("B"), 0, C("B"), 1, j.b + 1, u7, u8)
        /\ WriteDid(K("B"), 0, "parent_key", u8, u9)
        /\ WriteDid(C("B"), 0, "borrowed_child", u9, u10)
        /\ LenDid("B", j.b + 1, u10, u11)
        /\ WriteDid(K("P"), j.idx, "borrowed_key", u11, t)
    BY <1>3, DidWhat
  <1>6. /\ u2.mem = s.mem /\ u6.mem[K("A")] = u3.mem[K("A")]
        /\ u3.mem[C("A")] = s.mem[C("A")] /\ u5.mem[C("A")] = s.mem[C("A")]
        /\ u6.mem[K("B")] = s.mem[K("B")] /\ u6.mem[C("B")] = s.mem[C("B")]
        /\ u6.mem[K("P")] = s.mem[K("P")] /\ u6.mem[C("P")] = s.mem[C("P")]
    BY <1>4, BranchArrays DEF ReadDid, ZeroDid, LenDid, RowsBut
  <1>7. /\ t.mem[K("A")] = u6.mem[K("A")] /\ t.mem[C("A")] = u6.mem[C("A")]
        /\ t.mem[C("P")] = u6.mem[C("P")] /\ u11.mem[K("P")] = u6.mem[K("P")]
        /\ u8.mem[K("B")] = u7.mem[K("B")] /\ t.mem[K("B")] = u9.mem[K("B")]
        /\ u7.mem[C("B")] = u6.mem[C("B")] /\ u9.mem[C("B")] = u8.mem[C("B")]
        /\ t.mem[C("B")] = u10.mem[C("B")]
    BY <1>5, BranchArrays DEF CopyDid, WriteDid, LenDid, RowsBut
  <1>8. /\ u8.local["parent_key"] = s.mem[K("P")][j.idx]
        /\ u9.local["borrowed_child"] = s.mem[C("A")][j.a]
        /\ u11.local["borrowed_key"] = s.mem[K("A")][j.a - 1]
    <2>1. u1.mem = s.mem /\ u1.local["parent_key"] = s.mem[K("P")][j.idx]
      BY <1>4 DEF ReadDid
    <2>2. u2.local["parent_key"] = u1.local["parent_key"] /\ u2.local["borrowed_key"] = s.mem[K("A")][j.a - 1]
      BY <1>4, <2>1, LocalsAre DEF ReadDid, LocalsBut
    <2>3. u3.local = u2.local
      BY <1>4 DEF ZeroDid
    <2>4. /\ u4.local["parent_key"] = u3.local["parent_key"] /\ u4.local["borrowed_key"] = u3.local["borrowed_key"]
          /\ u4.local["borrowed_child"] = s.mem[C("A")][j.a]
      BY <1>4, <1>6, LocalsAre DEF ReadDid, LocalsBut
    <2>5. u8.local = u4.local
      BY <1>4, <1>5 DEF LenDid, ZeroDid, CopyDid
    <2>6. u9.local["borrowed_child"] = u8.local["borrowed_child"] /\ u9.local["borrowed_key"] = u8.local["borrowed_key"]
      BY <1>5, LocalsAre DEF WriteDid, LocalsBut
    <2>7. u10.local["borrowed_key"] = u9.local["borrowed_key"]
      BY <1>5, LocalsAre DEF WriteDid, LocalsBut
    <2>8. u11.local = u10.local
      BY <1>5 DEF LenDid
    <2> QED
      BY <2>1, <2>2, <2>3, <2>4, <2>5, <2>6, <2>7, <2>8
  <1>9. t.len["A"] = j.a - 1 /\ t.len["B"] = j.b + 1 /\ t.len["P"] = j.p
    <2>1. u6.len["A"] = j.a - 1 /\ u6.len["P"] = s.len["P"]
      BY <1>4, NodesAre DEF ReadDid, ZeroDid, LenDid, Nodewise
    <2>2. t.len["A"] = u6.len["A"] /\ t.len["P"] = u6.len["P"] /\ t.len["B"] = j.b + 1
      BY <1>5, NodesAre DEF CopyDid, WriteDid, LenDid, Nodewise
    <2> QED
      BY <1>2, <2>1, <2>2
  <1> PICK n \in Nat : n = j.a
    BY <1>1
  <1> PICK m \in Nat : m = j.b
    BY <1>1
  <1>10. /\ n >= 1 /\ n <= MaxCap + 1 /\ n + 1 >= 1 /\ n + 1 <= MaxCap + 1 /\ m <= MaxCap + 1
         /\ m + 1 <= MaxCap + 1 /\ n + 1 \in Nat /\ m + 1 \in Nat /\ MaxCap \in Nat
         /\ n + 1 - 1 = n /\ n + 1 - 2 = n - 1 /\ n - 1 + 1 = n
    BY <1>1
  <1>11. GaveThrough(s.mem[K("A")], n, s.mem[K("P")][j.idx], s.mem[K("B")], m,
                     t.mem[K("A")], s.mem[K("A")][n - 1], t.mem[K("B")])
    <2>1. /\ ZeroedRow(t.mem[K("A")], s.mem[K("A")], n - 1, 1)
          /\ CopiedRow(u8.mem[K("B")], s.mem[K("B")], s.mem[K("B")], 1, 0, m)
          /\ WrittenRow(t.mem[K("B")], u8.mem[K("B")], 0, s.mem[K("P")][j.idx])
      BY <1>4, <1>5, <1>6, <1>7, <1>8 DEF ZeroDid, CopyDid, WriteDid
    <2> QED
      BY <1>10, <2>1, GaveWritten DEF GaveThrough
  <1>12. Gave(s.mem[C("A")], n + 1, s.mem[C("B")], m + 1, t.mem[C("A")], t.mem[C("B")])
    <2>1. /\ ZeroedRow(t.mem[C("A")], s.mem[C("A")], (n + 1) - 1, 1)
          /\ CopiedRow(u8.mem[C("B")], s.mem[C("B")], s.mem[C("B")], 1, 0, m + 1)
          /\ WrittenRow(t.mem[C("B")], u8.mem[C("B")], 0, s.mem[C("A")][(n + 1) - 1])
      BY <1>4, <1>5, <1>6, <1>7, <1>8, <1>10 DEF ZeroDid, CopyDid, WriteDid
    <2> QED
      BY <1>10, <2>1, GaveWritten DEF Gave
  <1>13. ParentHeld(j, s, t, s.mem[K("A")][j.a - 1])
    <2>1. ParentDid(j, s, t, s.mem[K("A")][j.a - 1])
      BY <1>2, <1>5, <1>6, <1>7, <1>8, <1>9 DEF ParentDid, WriteDid
    <2> QED
      BY <1>1, <2>1, ParentRows
  <1>14. Keys(t, "A") \o <<Keys(t, "P")[j.idx + 1]>> \o Keys(t, "B")
           = Keys(s, "A") \o <<Keys(s, "P")[j.idx + 1]>> \o Keys(s, "B")
    <2>1. Row(t.mem[K("A")], n - 1) \o <<s.mem[K("A")][n - 1]>> \o Row(t.mem[K("B")], m + 1)
            = Row(s.mem[K("A")], n) \o <<s.mem[K("P")][j.idx]>> \o Row(s.mem[K("B")], m)
      <3>1. SameThrough(s.mem[K("A")], n, s.mem[K("P")][j.idx], s.mem[K("B")], m,
                        t.mem[K("A")], s.mem[K("A")][n - 1], t.mem[K("B")])
        BY ONLY n \in Nat, m \in Nat, <1>10, <1>11, RowsGiveThrough
      <3> QED
        BY ONLY <3>1 DEF SameThrough
    <2>2. Keys(t, "P")[j.idx + 1] = s.mem[K("A")][n - 1] /\ Keys(s, "P")[j.idx + 1] = s.mem[K("P")][j.idx]
      BY <1>13 DEF ParentHeld
    <2>3. /\ Keys(t, "A") = Row(t.mem[K("A")], n - 1) /\ Keys(t, "B") = Row(t.mem[K("B")], m + 1)
          /\ Keys(s, "A") = Row(s.mem[K("A")], n) /\ Keys(s, "B") = Row(s.mem[K("B")], m)
      BY <1>2, <1>9 DEF Keys
    <2> QED
      BY ONLY <2>1, <2>2, <2>3
  <1>15. Kids(t, "A") \o Kids(t, "B") = Kids(s, "A") \o Kids(s, "B")
    <2>1. Row(t.mem[C("A")], (n + 1) - 1) \o Row(t.mem[C("B")], (m + 1) + 1)
            = Row(s.mem[C("A")], n + 1) \o Row(s.mem[C("B")], m + 1)
      <3> PICK r, z, r2, z2 : /\ r = s.mem[C("A")] /\ z = s.mem[C("B")]
                              /\ r2 = t.mem[C("A")] /\ z2 = t.mem[C("B")]
        OBVIOUS
      <3> PICK p \in Nat, q \in Nat : p = n + 1 /\ q = m + 1
        BY <1>10
      <3>1. Gave(r, p, z, q, r2, z2) /\ p >= 1
        BY ONLY <1>10, <1>12, p = n + 1, q = m + 1, r = s.mem[C("A")], z = s.mem[C("B")],
                r2 = t.mem[C("A")], z2 = t.mem[C("B")]
      <3> PICK pl, qm : pl = p - 1 /\ qm = q + 1
        OBVIOUS
      <3>2. SameRows(r, p, z, q, r2, pl, z2, qm)
        BY ONLY p \in Nat, q \in Nat, pl = p - 1, qm = q + 1, <3>1, RowsGive, Zenon
      <3> QED
        BY <3>2 DEF SameRows
    <2>2. /\ Kids(t, "A") = Row(t.mem[C("A")], (n + 1) - 1) /\ Kids(t, "B") = Row(t.mem[C("B")], (m + 1) + 1)
          /\ Kids(s, "A") = Row(s.mem[C("A")], n + 1) /\ Kids(s, "B") = Row(s.mem[C("B")], m + 1)
      BY <1>2, <1>9, <1>10 DEF Kids
    <2> QED
      BY ONLY <2>1, <2>2
  <1>16. /\ t.len["A"] = IF j.a > j.b THEN j.a - 1 ELSE j.a + 1
         /\ t.len["A"] + t.len["B"] = j.a + j.b
    BY <1>1, <1>9
  <1>17. j.proc \notin OnLeaves
    BY DEF OnLeaves
  <1> QED
    BY ONLY <1>13, <1>14, <1>15, <1>16, <1>17 DEF BorrowHeld, ParentHeld

(* The first child of the right branch goes to the left one.               *)
LEMMA BorrowRightBranchHolds ==
  ASSUME NEW j \in Jobs, CanStart(j), j.proc = "borrow_from_right_branch",
         NEW s, NEW t, Begins(j, s), Runs(borrow_from_right_branch(j), s, t)
  PROVE  BorrowHeld(j, s, t)
  <1>1. /\ j.a \in Nat /\ j.a <= MaxCap /\ j.b \in Nat /\ j.b > 1 /\ j.b <= MaxCap /\ MaxCap \in Nat
        /\ ~(j.a > j.b) /\ j.idx < j.p
    BY JobIs, MinLenIs DEF CanStart, OnBranches
  <1>2. s.len["A"] = j.a /\ s.len["B"] = j.b /\ s.len["P"] = j.p
    BY DEF Begins
  <1> DEFINE p1 == <<Read(K("P"), j.idx, "parent_key"), Read(K("B"), 0, "new_sep"), Zero(K("B"), 0, 1),
                     Read(C("B"), 0, "borrowed_child"), Write(K("A"), j.a, "parent_key"),
                     Write(C("A"), j.a + 1, "borrowed_child"), SetLen("A", j.a + 1)>>
             p2 == <<Copy(K("B"), 1, K("B"), 0, j.b - 1), Zero(K("B"), j.b - 1, 1)>>
             p3 == <<Copy(C("B"), 1, C("B"), 0, j.b), Zero(C("B"), j.b, 1),
                     SetLen("B", j.b - 1), Write(K("P"), j.idx, "new_sep")>>
  <1>3. PICK u7, u9 : Runs(p1, s, u7) /\ Runs(p2, u7, u9) /\ Runs(p3, u9, t)
    <2>1. IsSeq(p1) /\ IsSeq(p2) /\ IsSeq(p3)
      <3>1. IsSeq(p1)
        BY SeqsAre, Zenon
      <3>2. IsSeq(p2) /\ IsSeq(p3)
        BY SeqsAre, Zenon
      <3> QED
        BY ONLY <3>1, <3>2
    <2>2. Runs(p1 \o p2 \o p3, s, t)
      <3>1. borrow_from_right_branch(j) = p1 \o p2 \o p3
        <4>1. j.b > 1
          BY <1>1
        <4> QED
          BY ONLY <4>1, Zenon DEF borrow_from_right_branch
      <3> QED
        BY <3>1
    <2> HIDE DEF p1, p2, p3
    <2> QED
      BY ONLY <2>1, <2>2, IsSeqJoin, RunsParts
  <1>4. PICK u1, u2, u3, u4, u5, u6 :
          /\ Did(Read(K("P"), j.idx, "parent_key"), s, u1)
          /\ Did(Read(K("B"), 0, "new_sep"), u1, u2)
          /\ Did(Zero(K("B"), 0, 1), u2, u3)
          /\ Did(Read(C("B"), 0, "borrowed_child"), u3, u4)
          /\ Did(Write(K("A"), j.a, "parent_key"), u4, u5)
          /\ Did(Write(C("A"), j.a + 1, "borrowed_child"), u5, u6)
          /\ Did(SetLen("A", j.a + 1), u6, u7)
    BY <1>3, RunsSeven
  <1>5. PICK u8 : /\ Did(Copy(K("B"), 1, K("B"), 0, j.b - 1), u7, u8)
                  /\ Did(Zero(K("B"), j.b - 1, 1), u8, u9)
    BY <1>3, RunsTwo
  <1>6. PICK u10, u11, u12 :
          /\ Did(Copy(C("B"), 1, C("B"), 0, j.b), u9, u10) /\ Did(Zero(C("B"), j.b, 1), u10, u11)
          /\ Did(SetLen("B", j.b - 1), u11, u12) /\ Did(Write(K("P"), j.idx, "new_sep"), u12, t)
    BY <1>3, RunsFour
  <1>7. /\ ReadDid(K("P"), j.idx, "parent_key", s, u1)
        /\ ReadDid(K("B"), 0, "new_sep", u1, u2)
        /\ ZeroDid(K("B"), 0, 1, u2, u3)
        /\ ReadDid(C("B"), 0, "borrowed_child", u3, u4)
        /\ WriteDid(K("A"), j.a, "parent_key", u4, u5)
        /\ WriteDid(C("A"), j.a + 1, "borrowed_child", u5, u6)
        /\ LenDid("A", j.a + 1, u6, u7)
    BY <1>4, DidWhat
  <1>8. /\ CopyDid(K("B"), 1, K("B"), 0, j.b - 1, u7, u8) /\ ZeroDid(K("B"), j.b - 1, 1, u8, u9)
        /\ CopyDid(C("B"), 1, C("B"), 0, j.b, u9, u10) /\ ZeroDid(C("B"), j.b, 1, u10, u11)
        /\ LenDid("B", j.b - 1, u11, u12) /\ WriteDid(K("P"), j.idx, "new_sep", u12, t)
    BY <1>5, <1>6, DidWhat
  <1>9. /\ u2.mem = s.mem /\ u4.mem[K("A")] = s.mem[K("A")] /\ u5.mem[C("A")] = s.mem[C("A")]
        /\ u7.mem[K("A")] = u5.mem[K("A")] /\ u7.mem[C("A")] = u6.mem[C("A")]
        /\ u7.mem[K("B")] = u3.mem[K("B")] /\ u7.mem[C("B")] = s.mem[C("B")]
        /\ u3.mem[C("B")] = s.mem[C("B")]
        /\ u7.mem[K("P")] = s.mem[K("P")] /\ u7.mem[C("P")] = s.mem[C("P")]
    BY <1>7, BranchArrays DEF ReadDid, ZeroDid, WriteDid, LenDid, RowsBut
  <1>10. /\ t.mem[K("A")] = u7.mem[K("A")] /\ t.mem[C("A")] = u7.mem[C("A")]
         /\ t.mem[C("P")] = u7.mem[C("P")] /\ u12.mem[K("P")] = u7.mem[K("P")]
         /\ t.mem[K("B")] = u9.mem[K("B")] /\ u9.mem[C("B")] = u7.mem[C("B")]
         /\ t.mem[C("B")] = u11.mem[C("B")]
    BY <1>8, BranchArrays DEF CopyDid, ZeroDid, WriteDid, LenDid, RowsBut
  <1>11. /\ u4.local["parent_key"] = s.mem[K("P")][j.idx]
         /\ u5.local["borrowed_child"] = s.mem[C("B")][0]
         /\ u12.local["new_sep"] = s.mem[K("B")][0]
    <2>1. u1.mem = s.mem /\ u1.local["parent_key"] = s.mem[K("P")][j.idx]
      BY <1>7 DEF ReadDid
    <2>2. u2.local["parent_key"] = u1.local["parent_key"] /\ u2.local["new_sep"] = s.mem[K("B")][0]
      BY <1>7, <2>1, LocalsAre DEF ReadDid, LocalsBut
    <2>3. u3.local = u2.local
      BY <1>7 DEF ZeroDid
    <2>4. /\ u4.local["parent_key"] = u3.local["parent_key"] /\ u4.local["new_sep"] = u3.local["new_sep"]
          /\ u4.local["borrowed_child"] = s.mem[C("B")][0]
      BY <1>7, <1>9, LocalsAre DEF ReadDid, LocalsBut
    <2>5. u5.local["borrowed_child"] = u4.local["borrowed_child"] /\ u5.local["new_sep"] = u4.local["new_sep"]
      BY <1>7, LocalsAre DEF WriteDid, LocalsBut
    <2>6. u6.local["new_sep"] = u5.local["new_sep"]
      BY <1>7, LocalsAre DEF WriteDid, LocalsBut
    <2>7. u12.local = u6.local
      BY <1>7, <1>8 DEF LenDid, ZeroDid, CopyDid
    <2> QED
      BY <2>1, <2>2, <2>3, <2>4, <2>5, <2>6, <2>7
  <1>12. t.len["A"] = j.a + 1 /\ t.len["B"] = j.b - 1 /\ t.len["P"] = j.p
    <2>1. u7.len["A"] = j.a + 1 /\ u7.len["P"] = s.len["P"]
      BY <1>7, NodesAre DEF ReadDid, ZeroDid, WriteDid, LenDid, Nodewise
    <2>2. t.len["A"] = u7.len["A"] /\ t.len["P"] = u7.len["P"] /\ t.len["B"] = j.b - 1
      BY <1>8, NodesAre DEF CopyDid, ZeroDid, WriteDid, LenDid, Nodewise
    <2> QED
      BY <1>2, <2>1, <2>2
  <1> PICK n \in Nat : n = j.a + 1
    BY <1>1
  <1> PICK m \in Nat : m = j.b - 1
    BY <1>1
  <1>13. /\ n >= 1 /\ n - 1 = j.a /\ m + 1 = j.b /\ n + 1 \in Nat /\ n + 1 >= 1 /\ m + 1 \in Nat
         /\ (n + 1) - 1 = n /\ (n + 1) - 1 = j.a + 1 /\ n - 1 <= MaxCap /\ n - 1 \in Nat
         /\ m + 1 <= MaxCap
    BY <1>1
  <1>14. GaveThrough(t.mem[K("A")], n, s.mem[K("B")][0], t.mem[K("B")], m,
                     s.mem[K("A")], s.mem[K("P")][j.idx], s.mem[K("B")])
    <2>1. WrittenRow(t.mem[K("A")], s.mem[K("A")], n - 1, s.mem[K("P")][j.idx])
      BY <1>7, <1>9, <1>10, <1>11, <1>13 DEF WriteDid
    <2>2. ASSUME NEW x \in 0 .. n - 2
          PROVE  s.mem[K("A")][x] = t.mem[K("A")][x]
      <3>1. x \in Index /\ x # n - 1
        BY <1>1, <1>13 DEF Index
      <3> QED
        BY <2>1, <3>1 DEF WrittenRow
    <2>3. s.mem[K("P")][j.idx] = t.mem[K("A")][n - 1]
      <3>1. n - 1 \in Index
        BY <1>1, <1>13 DEF Index
      <3> QED
        BY <2>1, <3>1 DEF WrittenRow
    <2>4. \A x \in 1 .. m : s.mem[K("B")][x] = t.mem[K("B")][x - 1]
      <3>1. /\ ZeroedRow(u7.mem[K("B")], s.mem[K("B")], 0, 1)
            /\ CopiedRow(u8.mem[K("B")], u7.mem[K("B")], u7.mem[K("B")], 0, 1, (m + 1) - 1)
            /\ ZeroedRow(t.mem[K("B")], u8.mem[K("B")], (m + 1) - 1, 1)
        BY <1>7, <1>8, <1>9, <1>10, <1>13 DEF ZeroDid, CopyDid
      <3>2. \A x \in 1 .. (m + 1) - 1 : u7.mem[K("B")][x] = s.mem[K("B")][x]
        <4> TAKE x \in 1 .. (m + 1) - 1
        <4>1. x \in Index /\ ~(x < 0 + 1)
          BY <1>1, <1>13 DEF Index
        <4> QED
          BY <3>1, <4>1 DEF ZeroedRow
      <3>3. \A x \in 1 .. (m + 1) - 1 : s.mem[K("B")][x] = t.mem[K("B")][x - 1]
        BY <1>1, <1>13, <3>1, <3>2, ClosedGap
      <3> QED
        BY <3>3
    <2> QED
      BY <2>2, <2>3, <2>4 DEF GaveThrough
  <1>15. Gave(t.mem[C("A")], n + 1, t.mem[C("B")], m + 1, s.mem[C("A")], s.mem[C("B")])
    <2>1. WrittenRow(t.mem[C("A")], s.mem[C("A")], n, s.mem[C("B")][0])
      BY <1>7, <1>9, <1>10, <1>11, <1>13 DEF WriteDid
    <2>2. ASSUME NEW x \in 0 .. (n + 1) - 2
          PROVE  s.mem[C("A")][x] = t.mem[C("A")][x]
      <3>1. x \in Index /\ x # n
        BY <1>1, <1>13 DEF Index
      <3> QED
        BY <2>1, <3>1 DEF WrittenRow
    <2>3. s.mem[C("B")][0] = t.mem[C("A")][(n + 1) - 1]
      <3>1. n \in Index
        BY <1>1, <1>13 DEF Index
      <3> QED
        BY <1>13, <2>1, <3>1 DEF WrittenRow
    <2>4. ASSUME NEW x \in 1 .. m + 1
          PROVE  s.mem[C("B")][x] = t.mem[C("B")][x - 1]
      <3>1. /\ CopiedRow(u10.mem[C("B")], s.mem[C("B")], s.mem[C("B")], 0, 1, m + 1)
            /\ ZeroedRow(t.mem[C("B")], u10.mem[C("B")], m + 1, 1)
        BY <1>8, <1>9, <1>10, <1>13 DEF ZeroDid, CopyDid
      <3> PICK y : y = x - 1
        OBVIOUS
      <3>2. y \in Index /\ ~(m + 1 <= y) /\ 0 <= y /\ y < 0 + (m + 1) /\ y - 0 + 1 = x
        BY <1>1, <1>13 DEF Index
      <3>3. t.mem[C("B")][y] = u10.mem[C("B")][y]
        BY <3>1, <3>2 DEF ZeroedRow
      <3>4. u10.mem[C("B")][y] = s.mem[C("B")][x]
        BY <3>1, <3>2 DEF CopiedRow
      <3> QED
        BY <3>3, <3>4
    <2> QED
      BY <2>2, <2>3, <2>4 DEF Gave
  <1>16. ParentHeld(j, s, t, s.mem[K("B")][0])
    <2>1. ParentDid(j, s, t, s.mem[K("B")][0])
      BY <1>2, <1>8, <1>9, <1>10, <1>11, <1>12 DEF ParentDid, WriteDid
    <2> QED
      BY <1>1, <2>1, ParentRows
  <1>17. Keys(t, "A") \o <<Keys(t, "P")[j.idx + 1]>> \o Keys(t, "B")
           = Keys(s, "A") \o <<Keys(s, "P")[j.idx + 1]>> \o Keys(s, "B")
    <2>1. Row(s.mem[K("A")], n - 1) \o <<s.mem[K("P")][j.idx]>> \o Row(s.mem[K("B")], m + 1)
            = Row(t.mem[K("A")], n) \o <<s.mem[K("B")][0]>> \o Row(t.mem[K("B")], m)
      <3>1. SameThrough(t.mem[K("A")], n, s.mem[K("B")][0], t.mem[K("B")], m,
                        s.mem[K("A")], s.mem[K("P")][j.idx], s.mem[K("B")])
        BY ONLY n \in Nat, m \in Nat, <1>13, <1>14, RowsGiveThrough
      <3> QED
        BY ONLY <3>1 DEF SameThrough
    <2>2. Keys(t, "P")[j.idx + 1] = s.mem[K("B")][0] /\ Keys(s, "P")[j.idx + 1] = s.mem[K("P")][j.idx]
      BY <1>16 DEF ParentHeld
    <2>3. /\ Keys(t, "A") = Row(t.mem[K("A")], n) /\ Keys(t, "B") = Row(t.mem[K("B")], m)
          /\ Keys(s, "A") = Row(s.mem[K("A")], n - 1) /\ Keys(s, "B") = Row(s.mem[K("B")], m + 1)
      BY <1>2, <1>12, <1>13 DEF Keys
    <2> QED
      BY ONLY <2>1, <2>2, <2>3
  <1>18. Kids(t, "A") \o Kids(t, "B") = Kids(s, "A") \o Kids(s, "B")
    <2>1. Row(s.mem[C("A")], (n + 1) - 1) \o Row(s.mem[C("B")], (m + 1) + 1)
            = Row(t.mem[C("A")], n + 1) \o Row(t.mem[C("B")], m + 1)
      <3> PICK r, z, r2, z2 : /\ r = t.mem[C("A")] /\ z = t.mem[C("B")]
                              /\ r2 = s.mem[C("A")] /\ z2 = s.mem[C("B")]
        OBVIOUS
      <3> PICK p \in Nat, q \in Nat : p = n + 1 /\ q = m + 1
        BY <1>13
      <3>1. Gave(r, p, z, q, r2, z2) /\ p >= 1
        BY ONLY <1>13, <1>15, p = n + 1, q = m + 1, r = t.mem[C("A")], z = t.mem[C("B")],
                r2 = s.mem[C("A")], z2 = s.mem[C("B")]
      <3> PICK pl, qm : pl = p - 1 /\ qm = q + 1
        OBVIOUS
      <3>2. SameRows(r, p, z, q, r2, pl, z2, qm)
        BY ONLY p \in Nat, q \in Nat, pl = p - 1, qm = q + 1, <3>1, RowsGive, Zenon
      <3> QED
        BY <3>2 DEF SameRows
    <2>2. /\ Kids(t, "A") = Row(t.mem[C("A")], n + 1) /\ Kids(t, "B") = Row(t.mem[C("B")], m + 1)
          /\ Kids(s, "A") = Row(s.mem[C("A")], (n + 1) - 1) /\ Kids(s, "B") = Row(s.mem[C("B")], (m + 1) + 1)
      BY <1>2, <1>12, <1>13 DEF Kids
    <2> QED
      BY ONLY <2>1, <2>2
  <1>19. /\ t.len["A"] = IF j.a > j.b THEN j.a - 1 ELSE j.a + 1
         /\ t.len["A"] + t.len["B"] = j.a + j.b
    BY <1>1, <1>12
  <1>20. j.proc \notin OnLeaves
    BY DEF OnLeaves
  <1> QED
    BY ONLY <1>16, <1>17, <1>18, <1>19, <1>20 DEF BorrowHeld, ParentHeld

-----------------------------------------------------------------------------
(* Merges.                                                                 *)

(* What a merge leaves in the slots.                                       *)
MergeHeld(j, s, t) ==
  /\ "B" \in t.freed
  /\ IF j.proc = "merge_branches"
     THEN /\ Keys(t, "A") = Keys(s, "A") \o <<Keys(s, "P")[j.idx + 1]>> \o Keys(s, "B")
          /\ Kids(t, "A") = Kids(s, "A") \o Kids(s, "B")
     ELSE Keys(t, "A") = Keys(s, "A") \o Keys(s, "B") /\ Vals(t, "A") = Vals(s, "A") \o Vals(s, "B")
  /\ IF j.proc = "check_root_collapse"
     THEN t.entry = {"A"} /\ "P" \in t.freed
     ELSE /\ Keys(t, "P") = RemoveAt(Keys(s, "P"), j.idx + 1)
          /\ Kids(t, "P") = RemoveAt(Kids(s, "P"), j.idx + 2)

(* Nodes S as they were, but for what is freed.                            *)
Kept(S, s, t) ==
  \A n \in S : /\ t.len[n] = s.len[n] /\ t.mem[K(n)] = s.mem[K(n)]
               /\ t.mem[V(n)] = s.mem[V(n)] /\ t.mem[C(n)] = s.mem[C(n)]

LEMMA KeptRows ==
  ASSUME NEW S, NEW n \in S, NEW s, NEW t, Kept(S, s, t)
  PROVE  Keys(t, n) = Keys(s, n) /\ Vals(t, n) = Vals(s, n) /\ Kids(t, n) = Kids(s, n)
  BY DEF Kept, Keys, Vals, Kids

LEMMA MovesKeep ==
  ASSUME NEW s, NEW t, NEW S, S \subseteq Nodes
  PROVE  /\ \A n, as, i : DropsDid(n, as, i, s, t) => Kept(S, s, t) /\ t.freed = s.freed /\ t.entry = s.entry
         /\ \A n : FreeDid(n, s, t) => Kept(S, s, t) /\ t.freed = s.freed \cup {n} /\ t.entry = s.entry
         /\ \A e : EnterDid(e, s, t) => Kept(S, s, t) /\ t.freed = s.freed /\ t.entry = e
         /\ \A a, i, r : ReadDid(a, i, r, s, t) => Kept(S, s, t) /\ t.freed = s.freed /\ t.entry = s.entry
         /\ \A r : DropDid(r, s, t) => Kept(S, s, t) /\ t.freed = s.freed /\ t.entry = s.entry
  BY DEF DropsDid, FreeDid, EnterDid, ReadDid, DropDid, Nodewise, Kept

LEMMA KeptTwice ==
  ASSUME NEW S, NEW s, NEW u, NEW t, Kept(S, s, u), Kept(S, u, t)
  PROVE  Kept(S, s, t)
  BY DEF Kept

LEMMA CopiedAfter ==
  ASSUME NEW n \in Nat, NEW m \in Nat, MaxCap \in Nat, n + m <= MaxCap + 2,
         NEW r, NEW s, NEW q, CopiedRow(q, s, r, n, 0, m)
  PROVE  JoinedRow(q, r, n, s, m)
  <1> SUFFICES ASSUME NEW x \in 0 .. n + m - 1
               PROVE  q[x] = IF x < n THEN r[x] ELSE s[x - n]
    BY DEF JoinedRow
  <1>1. x \in Index /\ x < n + m /\ x - n + 0 = x - n /\ (n <= x <=> ~(x < n))
    BY DEF Index
  <1>2. q[x] = IF n <= x /\ x < n + m THEN s[x - n + 0] ELSE r[x]
    BY <1>1 DEF CopiedRow
  <1> QED
    BY <1>1, <1>2

LEMMA ClosedUpTo ==
  ASSUME NEW n \in Nat, NEW k \in 0 .. n - 1, MaxCap \in Nat, n <= MaxCap + 1,
         NEW r, NEW w, NEW q, CopiedRow(w, r, r, k, k + 1, n - k), ZeroedRow(q, w, n - 1, 1)
  PROVE  RemovedRow(q, r, n, k)
  <1> SUFFICES ASSUME NEW x \in 0 .. n - 2
               PROVE  q[x] = IF x < k THEN r[x] ELSE r[x + 1]
    BY DEF RemovedRow
  <1>1. x \in Index /\ ~(n - 1 <= x)
    BY DEF Index
  <1>2. w[x] = IF k <= x /\ x < k + (n - k) THEN r[x - k + (k + 1)] ELSE r[x]
    BY <1>1 DEF CopiedRow
  <1>3. x < k + (n - k) /\ x - k + (k + 1) = x + 1 /\ (x < k <=> ~(k <= x))
    OBVIOUS
  <1>4. q[x] = w[x]
    BY <1>1 DEF ZeroedRow
  <1> QED
    BY <1>2, <1>3, <1>4

GapClosed(j, s, t) ==
  /\ Keys(t, "P") = RemoveAt(Keys(s, "P"), j.idx + 1)
  /\ Kids(t, "P") = RemoveAt(Kids(s, "P"), j.idx + 2)
  /\ Kept({"A", "B"}, s, t) /\ t.freed = s.freed

LEMMA CloseGapDid ==
  ASSUME NEW j \in Jobs, j.idx < j.p, NEW s, NEW t, s.len["P"] = j.p, Runs(close_gap(j), s, t)
  PROVE  GapClosed(j, s, t)
  <1>1. PICK u1, u2, u3 :
          /\ Did(Copy(K("P"), j.idx + 1, K("P"), j.idx, j.p - j.idx - 1), s, u1)
          /\ Did(Copy(C("P"), j.idx + 2, C("P"), j.idx + 1, j.p - j.idx), u1, u2)
          /\ Did(Zero(C("P"), j.p, 1), u2, u3) /\ Did(SetLen("P", j.p - 1), u3, t)
    BY RunsFour DEF close_gap
  <1>2. /\ CopyDid(K("P"), j.idx + 1, K("P"), j.idx, j.p - j.idx - 1, s, u1)
        /\ CopyDid(C("P"), j.idx + 2, C("P"), j.idx + 1, j.p - j.idx, u1, u2)
        /\ ZeroDid(C("P"), j.p, 1, u2, u3) /\ LenDid("P", j.p - 1, u3, t)
    BY <1>1, DidWhat
  <1> PICK p \in Nat : p = j.p
    BY JobIs
  <1> PICK k \in 0 .. p - 1 : k = j.idx
    BY JobIs
  <1>3. /\ p <= MaxCap /\ MaxCap \in Nat /\ p + 1 \in Nat /\ k + 1 \in 0 .. (p + 1) - 1
        /\ p - 1 + 1 = (p + 1) - 1 /\ k + 1 + 1 = k + 2 /\ p + 1 <= MaxCap + 1 /\ p <= MaxCap + 2
        /\ (p + 1) - (k + 1) = p - k /\ (p + 1) - 1 = p
    BY JobIs
  <1>4. /\ u3.mem[K("P")] = u1.mem[K("P")] /\ u1.mem[C("P")] = s.mem[C("P")]
        /\ t.mem = u3.mem /\ t.len["P"] = p - 1
    BY <1>2, BranchArrays DEF CopyDid, ZeroDid, LenDid, RowsBut
  <1>5. Keys(t, "P") = RemoveAt(Keys(s, "P"), j.idx + 1)
    <2>1. CopiedRow(t.mem[K("P")], s.mem[K("P")], s.mem[K("P")], k, k + 1, p - k - 1)
      BY <1>2, <1>4 DEF CopyDid
    <2>2. RemovedRow(t.mem[K("P")], s.mem[K("P")], p, k)
      BY <1>3, <2>1, ClosedRow
    <2>3. Row(t.mem[K("P")], p - 1) = RemoveAt(Row(s.mem[K("P")], p), k + 1)
      BY <2>2, RowRemove
    <2> QED
      BY <1>4, <2>3 DEF Keys
  <1>6. Kids(t, "P") = RemoveAt(Kids(s, "P"), j.idx + 2)
    <2>1. /\ CopiedRow(u2.mem[C("P")], s.mem[C("P")], s.mem[C("P")], k + 1, (k + 1) + 1, (p + 1) - (k + 1))
          /\ ZeroedRow(t.mem[C("P")], u2.mem[C("P")], (p + 1) - 1, 1)
      BY <1>2, <1>3, <1>4 DEF CopyDid, ZeroDid
    <2>2. RemovedRow(t.mem[C("P")], s.mem[C("P")], p + 1, k + 1)
      BY ONLY <1>3, <2>1, ClosedUpTo
    <2>3. Row(t.mem[C("P")], (p + 1) - 1) = RemoveAt(Row(s.mem[C("P")], p + 1), (k + 1) + 1)
      BY ONLY <1>3, <2>2, RowRemove
    <2> QED
      BY <1>3, <1>4, <2>3 DEF Kids
  <1>7. Kept({"A", "B"}, s, t)
    <2> SUFFICES ASSUME NEW n \in {"A", "B"}
                 PROVE  /\ t.len[n] = s.len[n] /\ t.mem[K(n)] = s.mem[K(n)]
                        /\ t.mem[V(n)] = s.mem[V(n)] /\ t.mem[C(n)] = s.mem[C(n)]
      BY DEF Kept
    <2>1. n \in Nodes /\ n # "P"
      BY DEF Nodes
    <2>2. /\ K(n) \in Arrays /\ V(n) \in Arrays /\ C(n) \in Arrays
          /\ K(n) \notin {K("P"), C("P")} /\ V(n) \notin {K("P"), C("P")} /\ C(n) \notin {K("P"), C("P")}
      BY <2>1, Apart, NodesAre
    <2>3. t.len[n] = s.len[n]
      BY <1>2, <2>1 DEF CopyDid, ZeroDid, LenDid, Nodewise
    <2>4. \A c \in Arrays : c \notin {K("P"), C("P")} => t.mem[c] = s.mem[c]
      BY <1>2 DEF CopyDid, ZeroDid, LenDid, RowsBut
    <2> QED
      BY <2>2, <2>3, <2>4
  <1>8. t.freed = s.freed
    BY <1>2 DEF CopyDid, ZeroDid, LenDid, Nodewise
  <1> QED
    BY <1>5, <1>6, <1>7, <1>8 DEF GapClosed

LEMMA LeavesJoined ==
  ASSUME NEW j \in Jobs, j.a + j.b <= MaxCap, NEW s, NEW t, s.len["A"] = j.a, s.len["B"] = j.b,
         Runs(merge_leaf_into(j), s, t)
  PROVE  /\ Keys(t, "A") = Keys(s, "A") \o Keys(s, "B") /\ Vals(t, "A") = Vals(s, "A") \o Vals(s, "B")
         /\ Kept({"P"}, s, t) /\ t.freed = s.freed
  <1> DEFINE p1 == CopyKV("B", 0, "A", j.a, j.b)
             p2 == <<SetLen("A", j.a + j.b), SetLen("B", 0)>>
  <1>1. PICK u : Runs(p1, s, u) /\ Runs(p2, u, t)
    <2>1. IsSeq(p1) /\ IsSeq(p2)
      BY SeqsAre, Zenon DEF CopyKV
    <2>2. Runs(p1 \o p2, s, t)
      BY DEF merge_leaf_into
    <2> HIDE DEF p1, p2
    <2> QED
      BY ONLY <2>1, <2>2, RunsParts
  <1>2. KVCopied("B", 0, "A", j.a, j.b, s, u)
    BY <1>1, CopyKVDid, NodesAre
  <1>3. /\ t.mem = u.mem /\ t.freed = u.freed
        /\ t.len["A"] = j.a + j.b /\ t.len["P"] = u.len["P"]
    <2>1. "A" \in Nodes /\ "B" \in Nodes /\ "A" # "B" /\ "P" \in Nodes \ {"A", "B"}
      BY NodesAre
    <2> QED
      BY ONLY <1>1, <2>1, TwoLens
  <1> PICK n \in Nat : n = j.a
    BY JobIs
  <1> PICK m \in Nat : m = j.b
    BY JobIs
  <1>4. MaxCap \in Nat /\ n + m <= MaxCap + 2
    BY JobIs
  <1>5. /\ CopiedRow(t.mem[K("A")], s.mem[K("B")], s.mem[K("A")], n, 0, m)
        /\ CopiedRow(t.mem[V("A")], s.mem[V("B")], s.mem[V("A")], n, 0, m)
    BY <1>2, <1>3 DEF KVCopied
  <1>6. /\ JoinedRow(t.mem[K("A")], s.mem[K("A")], n, s.mem[K("B")], m)
        /\ JoinedRow(t.mem[V("A")], s.mem[V("A")], n, s.mem[V("B")], m)
    BY <1>4, <1>5, CopiedAfter
  <1>7. /\ Row(t.mem[K("A")], n + m) = Row(s.mem[K("A")], n) \o Row(s.mem[K("B")], m)
        /\ Row(t.mem[V("A")], n + m) = Row(s.mem[V("A")], n) \o Row(s.mem[V("B")], m)
    <2> PICK q, r, z : q = t.mem[K("A")] /\ r = s.mem[K("A")] /\ z = s.mem[K("B")]
      OBVIOUS
    <2> PICK q2, r2, z2 : q2 = t.mem[V("A")] /\ r2 = s.mem[V("A")] /\ z2 = s.mem[V("B")]
      OBVIOUS
    <2>1. JoinedRow(q, r, n, z, m) /\ JoinedRow(q2, r2, n, z2, m)
      BY <1>6
    <2>2. Row(q, n + m) = Row(r, n) \o Row(z, m)
      BY ONLY <2>1, n \in Nat, m \in Nat, RowJoin
    <2>3. Row(q2, n + m) = Row(r2, n) \o Row(z2, m)
      BY ONLY <2>1, n \in Nat, m \in Nat, RowJoin
    <2> QED
      BY <2>2, <2>3
  <1>8. Kept({"P"}, s, t)
    BY <1>2, <1>3, NodesAre DEF KVCopied, KVRowsBut, Nodewise, Kept
  <1>9. t.freed = s.freed
    BY <1>2, <1>3 DEF KVCopied, Nodewise
  <1> QED
    BY <1>3, <1>7, <1>8, <1>9 DEF Keys, Vals

LEMMA TwoHalves ==
  ASSUME NEW c \in Nat, NEW a \in Nat, NEW b \in Nat, {a, b} = {c \div 2 - 1, c \div 2}
  PROVE  a + b <= c
  <1> PICK h : h = c \div 2
    OBVIOUS
  <1>1. h \in Nat /\ 2 * h <= c
    OBVIOUS
  <1>2. {a, b} = {h - 1, h}
    OBVIOUS
  <1>3. a = h - 1 \/ a = h
    BY <1>2
  <1>4. b = h - 1 \/ b = h
    BY <1>2
  <1>5. ~(a = h /\ b = h)
    <2>1. h - 1 # h
      BY <1>1
    <2> QED
      BY <1>2, <2>1
  <1> QED
    BY <1>1, <1>3, <1>4, <1>5

(* Two leaves become one, and the parent loses an entry.                   *)
LEMMA MergeLeavesHolds ==
  ASSUME NEW j \in Jobs, CanStart(j), j.proc = "merge_leaves",
         NEW s, NEW t, Begins(j, s), Runs(merge_leaves(j), s, t)
  PROVE  MergeHeld(j, s, t)
  <1>1. j.a + j.b <= MaxCap /\ j.idx < j.p
    <2>1. j.lcap \in Nat /\ j.lcap <= MaxCap /\ j.a \in Nat /\ j.b \in Nat /\ MaxCap \in Nat
      BY JobIs
    <2>2. {j.a, j.b} = {j.lcap \div 2 - 1, j.lcap \div 2} /\ j.idx < j.p
      BY DEF CanStart, MinLen, Cap, OnLeaves
    <2>3. j.a + j.b <= j.lcap
      BY ONLY <2>1, <2>2, TwoHalves
    <2> QED
      BY <2>1, <2>2, <2>3
  <1>2. s.len["A"] = j.a /\ s.len["B"] = j.b /\ s.len["P"] = j.p
    BY DEF Begins
  <1> DEFINE p1 == merge_leaf_into(j)
             p2 == <<Free("B")>>
             p3 == <<Read(K("P"), j.idx, "removed"), DropLocal("removed")>>
             p4 == close_gap(j)
  <1>3. PICK u, v, w : Runs(p1, s, u) /\ Runs(p2, u, v) /\ Runs(p3, v, w) /\ Runs(p4, w, t)
    <2>1. IsSeq(p1) /\ IsSeq(p2) /\ IsSeq(p3) /\ IsSeq(p4)
      <3>1. IsSeq(p1)
        BY SeqsAre, IsSeqJoin, Zenon DEF merge_leaf_into, CopyKV
      <3>2. IsSeq(p2) /\ IsSeq(p3)
        BY SeqsAre, Zenon
      <3>3. IsSeq(p4)
        BY SeqsAre, Zenon DEF close_gap
      <3> QED
        BY ONLY <3>1, <3>2, <3>3
    <2>2. Runs(p1 \o p2 \o (p3 \o p4), s, t)
      BY DEF merge_leaves, remove_branch_entry
    <2> HIDE DEF p1, p2, p3, p4
    <2> QED
      BY ONLY <2>1, <2>2, IsSeqJoin, RunsParts
  <1>4. /\ Keys(u, "A") = Keys(s, "A") \o Keys(s, "B") /\ Vals(u, "A") = Vals(s, "A") \o Vals(s, "B")
        /\ Kept({"P"}, s, u) /\ u.freed = s.freed
    BY <1>1, <1>2, <1>3, LeavesJoined
  <1>5. FreeDid("B", u, v)
    <2>1. Did(Free("B"), u, v)
      BY <1>3, RunsOne
    <2> QED
      BY <2>1, DidWhat
  <1>6. PICK x : ReadDid(K("P"), j.idx, "removed", v, x) /\ DropDid("removed", x, w)
    <2>1. PICK x : Did(Read(K("P"), j.idx, "removed"), v, x) /\ Did(DropLocal("removed"), x, w)
      BY <1>3, RunsTwo
    <2> QED
      BY <2>1, DidWhat
  <1>7. Kept(Nodes, u, w) /\ w.freed = u.freed \cup {"B"}
    <2>1. Kept(Nodes, u, v) /\ v.freed = u.freed \cup {"B"}
      BY <1>5, MovesKeep
    <2>2. Kept(Nodes, v, x) /\ x.freed = v.freed
      BY <1>6, MovesKeep
    <2>3. Kept(Nodes, x, w) /\ w.freed = x.freed
      BY <1>6, MovesKeep
    <2> QED
      BY <2>1, <2>2, <2>3, KeptTwice
  <1>8. w.len["P"] = j.p
    BY <1>2, <1>4, <1>7, NodesAre DEF Kept
  <1>9. GapClosed(j, w, t)
    BY <1>1, <1>3, <1>8, CloseGapDid
  <1>10. Keys(w, "P") = Keys(s, "P") /\ Kids(w, "P") = Kids(s, "P")
    <2>1. Keys(u, "P") = Keys(s, "P") /\ Kids(u, "P") = Kids(s, "P")
      BY <1>4, KeptRows
    <2>2. Keys(w, "P") = Keys(u, "P") /\ Kids(w, "P") = Kids(u, "P")
      BY <1>7, KeptRows, NodesAre
    <2> QED
      BY ONLY <2>1, <2>2
  <1>11. Keys(t, "A") = Keys(u, "A") /\ Vals(t, "A") = Vals(u, "A")
    <2>1. Keys(t, "A") = Keys(w, "A") /\ Vals(t, "A") = Vals(w, "A")
      BY <1>9, KeptRows DEF GapClosed
    <2> QED
      BY <1>7, <2>1, KeptRows, NodesAre
  <1> QED
    BY <1>4, <1>7, <1>9, <1>10, <1>11 DEF MergeHeld, GapClosed

(* The two leaves of a root become the root.                               *)
LEMMA RootCollapseHolds ==
  ASSUME NEW j \in Jobs, CanStart(j), j.proc = "check_root_collapse",
         NEW s, NEW t, Begins(j, s), Runs(check_root_collapse(j), s, t)
  PROVE  MergeHeld(j, s, t)
  <1>1. j.a + j.b <= MaxCap
    <2>1. j.a + j.b <= j.lcap
      BY DEF CanStart, Cap, OnLeaves
    <2> QED
      BY <2>1, JobIs
  <1>2. s.len["A"] = j.a /\ s.len["B"] = j.b
    BY DEF Begins
  <1> DEFINE p1 == merge_leaf_into(j)
             p2 == <<Free("B"), Zero(C("P"), 1, 1), Enter({"A"})>>
             p3 == <<DropSlots("P", <<K("P")>>, 0), Free("P")>>
  <1>3. PICK u, v : Runs(p1, s, u) /\ Runs(p2, u, v) /\ Runs(p3, v, t)
    <2>1. IsSeq(p1) /\ IsSeq(p2) /\ IsSeq(p3)
      <3>1. IsSeq(p1)
        BY SeqsAre, IsSeqJoin, Zenon DEF merge_leaf_into, CopyKV
      <3>2. IsSeq(p2) /\ IsSeq(p3)
        BY SeqsAre, Zenon
      <3> QED
        BY ONLY <3>1, <3>2
    <2>2. Runs(p1 \o p2 \o p3, s, t)
      BY DEF check_root_collapse, free_branch_node
    <2> HIDE DEF p1, p2, p3
    <2> QED
      BY ONLY <2>1, <2>2, IsSeqJoin, RunsParts
  <1>4. /\ Keys(u, "A") = Keys(s, "A") \o Keys(s, "B") /\ Vals(u, "A") = Vals(s, "A") \o Vals(s, "B")
    BY <1>1, <1>2, <1>3, LeavesJoined
  <1>5. PICK x1, x2 : FreeDid("B", u, x1) /\ ZeroDid(C("P"), 1, 1, x1, x2) /\ EnterDid({"A"}, x2, v)
    <2>1. PICK x1, x2 : /\ Did(Free("B"), u, x1) /\ Did(Zero(C("P"), 1, 1), x1, x2)
                        /\ Did(Enter({"A"}), x2, v)
      BY <1>3, RunsThree
    <2> QED
      BY <2>1, DidWhat
  <1>6. PICK x3 : DropsDid("P", <<K("P")>>, 0, v, x3) /\ FreeDid("P", x3, t)
    <2>1. PICK x3 : Did(DropSlots("P", <<K("P")>>, 0), v, x3) /\ Did(Free("P"), x3, t)
      BY <1>3, RunsTwo
    <2> QED
      BY <2>1, DidWhat
  <1>7. Kept({"A"}, u, t)
    <2>0. {"A"} \subseteq Nodes
      BY NodesAre
    <2>1. Kept({"A"}, u, x1)
      BY <1>5, <2>0, MovesKeep
    <2>2. Kept({"A"}, x1, x2)
      BY <1>5, Apart, NodesAre DEF ZeroDid, RowsBut, Nodewise, Kept
    <2>3. Kept({"A"}, x2, v)
      BY <1>5, <2>0, MovesKeep
    <2>4. Kept({"A"}, v, x3)
      BY <1>6, <2>0, MovesKeep
    <2>5. Kept({"A"}, x3, t)
      BY <1>6, <2>0, MovesKeep
    <2> QED
      BY ONLY <2>1, <2>2, <2>3, <2>4, <2>5, KeptTwice
  <1>8. "B" \in t.freed /\ "P" \in t.freed /\ t.entry = {"A"}
    BY <1>5, <1>6 DEF FreeDid, ZeroDid, EnterDid, DropsDid, Nodewise
  <1>9. Keys(t, "A") = Keys(u, "A") /\ Vals(t, "A") = Vals(u, "A")
    BY <1>7, KeptRows
  <1> QED
    BY <1>4, <1>8, <1>9 DEF MergeHeld

ThroughRow(q, r, n, e, s, m) == Row(q, n + 1 + m) = Row(r, n) \o <<e>> \o Row(s, m)

LEMMA JoinedThrough ==
  ASSUME NEW n \in Nat, NEW m \in Nat, MaxCap \in Nat, n + 1 + m <= MaxCap + 2,
         NEW r, NEW s, NEW w, NEW q, NEW e,
         WrittenRow(w, r, n, e), CopiedRow(q, s, w, n + 1, 0, m)
  PROVE  ThroughRow(q, r, n, e, s, m)
  <1>1. n + 1 \in Nat /\ (n + 1) + m = n + 1 + m /\ (n + 1) + m <= MaxCap + 2
    OBVIOUS
  <1>2. Row(w, n + 1) = Row(r, n) \o <<e>>
    <2>1. \A x \in 0 .. n - 1 : w[x] = r[x]
      <3> TAKE x \in 0 .. n - 1
      <3>1. x \in Index /\ x # n
        BY DEF Index
      <3> QED
        BY <3>1 DEF WrittenRow
    <2>2. w[n] = e
      <3>1. n \in Index
        BY DEF Index
      <3> QED
        BY <3>1 DEF WrittenRow
    <2> QED
      BY ONLY <2>1, <2>2, n \in Nat, RowPush
  <1>3. JoinedRow(q, w, n + 1, s, m)
    BY <1>1, CopiedAfter
  <1>4. Row(q, (n + 1) + m) = Row(w, n + 1) \o Row(s, m)
    BY ONLY <1>1, <1>3, m \in Nat, RowJoin
  <1> QED
    BY ONLY <1>1, <1>2, <1>4 DEF ThroughRow

(* Two branches become one around their separator.                         *)
LEMMA MergeBranchesHolds ==
  ASSUME NEW j \in Jobs, CanStart(j), j.proc = "merge_branches",
         NEW s, NEW t, Begins(j, s), Runs(merge_branches(j), s, t)
  PROVE  MergeHeld(j, s, t)
  <1>1. j.a + 1 + j.b <= MaxCap /\ j.idx < j.p /\ j.idx \in 0 .. j.p - 1 /\ j.p \in Nat
    <2>1. j.a + 1 + j.b <= j.bcap /\ j.idx < j.p
      BY DEF CanStart, Cap, OnBranches, OnOneLeaf, OnLeaves
    <2> QED
      BY <2>1, JobIs
  <1>2. s.len["A"] = j.a /\ s.len["B"] = j.b /\ s.len["P"] = j.p
    BY DEF Begins
  <1> DEFINE p1 == <<Read(K("P"), j.idx, "sep_key"), Write(K("A"), j.a, "sep_key"),
                     Copy(K("B"), 0, K("A"), j.a + 1, j.b), Copy(C("B"), 0, C("A"), j.a + 1, j.b + 1),
                     SetLen("A", j.a + 1 + j.b), SetLen("B", 0)>>
             p2 == <<DropSlots("B", <<K("B")>>, 0), Free("B")>>
             p3 == close_gap(j)
  <1>3. PICK u, v : Runs(p1, s, u) /\ Runs(p2, u, v) /\ Runs(p3, v, t)
    <2>1. IsSeq(p1) /\ IsSeq(p2) /\ IsSeq(p3)
      <3>1. IsSeq(p1)
        BY SeqsAre, Zenon
      <3>2. IsSeq(p2)
        BY SeqsAre, Zenon
      <3>3. IsSeq(p3)
        BY SeqsAre, Zenon DEF close_gap
      <3> QED
        BY ONLY <3>1, <3>2, <3>3
    <2>2. Runs(p1 \o p2 \o p3, s, t)
      BY DEF merge_branches, free_branch_node, collapse_branch_entry
    <2> HIDE DEF p1, p2, p3
    <2> QED
      BY ONLY <2>1, <2>2, IsSeqJoin, RunsParts
  <1>4. PICK u1, u2, u3, u4, u5 :
          /\ Did(Read(K("P"), j.idx, "sep_key"), s, u1)
          /\ Did(Write(K("A"), j.a, "sep_key"), u1, u2)
          /\ Did(Copy(K("B"), 0, K("A"), j.a + 1, j.b), u2, u3)
          /\ Did(Copy(C("B"), 0, C("A"), j.a + 1, j.b + 1), u3, u4)
          /\ Did(SetLen("A", j.a + 1 + j.b), u4, u5)
          /\ Did(SetLen("B", 0), u5, u)
    BY <1>3, RunsSix
  <1>5. /\ ReadDid(K("P"), j.idx, "sep_key", s, u1)
        /\ WriteDid(K("A"), j.a, "sep_key", u1, u2)
        /\ CopyDid(K("B"), 0, K("A"), j.a + 1, j.b, u2, u3)
        /\ CopyDid(C("B"), 0, C("A"), j.a + 1, j.b + 1, u3, u4)
        /\ LenDid("A", j.a + 1 + j.b, u4, u5) /\ LenDid("B", 0, u5, u)
    BY <1>4, DidWhat
  <1>6. PICK x : DropsDid("B", <<K("B")>>, 0, u, x) /\ FreeDid("B", x, v)
    <2>1. PICK x : Did(DropSlots("B", <<K("B")>>, 0), u, x) /\ Did(Free("B"), x, v)
      BY <1>3, RunsTwo
    <2> QED
      BY <2>1, DidWhat
  <1>7. Kept(Nodes, u, v) /\ "B" \in v.freed
    <2>1. Kept(Nodes, u, x)
      BY <1>6, MovesKeep
    <2>2. Kept(Nodes, x, v) /\ "B" \in v.freed
      BY <1>6, MovesKeep
    <2> QED
      BY <2>1, <2>2, KeptTwice
  <1>8. /\ u.mem[K("A")] = u3.mem[K("A")] /\ u.mem[C("A")] = u4.mem[C("A")]
        /\ u2.mem[K("B")] = s.mem[K("B")] /\ u3.mem[C("B")] = s.mem[C("B")]
        /\ u3.mem[C("A")] = s.mem[C("A")] /\ u1.mem[K("A")] = s.mem[K("A")]
    BY <1>5, BranchArrays DEF ReadDid, WriteDid, CopyDid, LenDid, RowsBut
  <1>9. Kept({"P"}, s, u)
    <2>1. /\ u.mem[K("P")] = s.mem[K("P")] /\ u.mem[C("P")] = s.mem[C("P")]
      BY <1>5, BranchArrays DEF ReadDid, WriteDid, CopyDid, LenDid, RowsBut
    <2>2. V("P") \in Arrays /\ V("P") # K("A") /\ V("P") # C("A")
      BY Apart, NodesAre
    <2>3. u.mem[V("P")] = s.mem[V("P")]
      BY <1>5, <2>2 DEF ReadDid, WriteDid, CopyDid, LenDid, RowsBut
    <2>4. u.len["P"] = s.len["P"]
      BY <1>5, NodesAre DEF ReadDid, WriteDid, CopyDid, LenDid, Nodewise
    <2> QED
      BY <2>1, <2>3, <2>4 DEF Kept
  <1>10. u.len["A"] = j.a + 1 + j.b
    BY <1>5, NodesAre DEF LenDid
  <1> PICK n \in Nat : n = j.a
    BY JobIs
  <1> PICK m \in Nat : m = j.b
    BY JobIs
  <1>11. /\ MaxCap \in Nat /\ n + 1 + m <= MaxCap + 2 /\ (n + 1) + (m + 1) <= MaxCap + 2
         /\ n + 1 \in Nat /\ m + 1 \in Nat /\ (n + 1) + (m + 1) = n + 1 + m + 1
    BY <1>1, JobIs
  <1>12. Keys(u, "A") = Keys(s, "A") \o <<Keys(s, "P")[j.idx + 1]>> \o Keys(s, "B")
    <2>1. u1.local["sep_key"] = s.mem[K("P")][j.idx]
      BY <1>5 DEF ReadDid
    <2>2. /\ WrittenRow(u2.mem[K("A")], s.mem[K("A")], n, s.mem[K("P")][j.idx])
          /\ CopiedRow(u.mem[K("A")], s.mem[K("B")], u2.mem[K("A")], n + 1, 0, m)
      BY <1>5, <1>8, <2>1 DEF WriteDid, CopyDid
    <2>3. ThroughRow(u.mem[K("A")], s.mem[K("A")], n, s.mem[K("P")][j.idx], s.mem[K("B")], m)
      BY ONLY n \in Nat, m \in Nat, <1>11, <2>2, JoinedThrough
    <2>4. Row(u.mem[K("A")], n + 1 + m)
            = Row(s.mem[K("A")], n) \o <<s.mem[K("P")][j.idx]>> \o Row(s.mem[K("B")], m)
      BY ONLY <2>3 DEF ThroughRow
    <2>5. Keys(s, "P")[j.idx + 1] = s.mem[K("P")][j.idx]
      <3>1. Row(s.mem[K("P")], j.p)[j.idx + 1] = s.mem[K("P")][j.idx]
        BY ONLY <1>1, RowAt
      <3> QED
        BY ONLY <1>2, <3>1 DEF Keys
    <2>6. /\ Keys(u, "A") = Row(u.mem[K("A")], n + 1 + m)
          /\ Keys(s, "A") = Row(s.mem[K("A")], n) /\ Keys(s, "B") = Row(s.mem[K("B")], m)
      BY <1>2, <1>10 DEF Keys
    <2> QED
      BY ONLY <2>4, <2>5, <2>6
  <1>13. Kids(u, "A") = Kids(s, "A") \o Kids(s, "B")
    <2>1. CopiedRow(u.mem[C("A")], s.mem[C("B")], s.mem[C("A")], n + 1, 0, m + 1)
      BY <1>5, <1>8 DEF CopyDid
    <2>2. JoinedRow(u.mem[C("A")], s.mem[C("A")], n + 1, s.mem[C("B")], m + 1)
      BY ONLY <1>11, <2>1, CopiedAfter
    <2>3. Row(u.mem[C("A")], (n + 1) + (m + 1)) = Row(s.mem[C("A")], n + 1) \o Row(s.mem[C("B")], m + 1)
      BY ONLY <1>11, <2>2, RowJoin
    <2>4. /\ Kids(u, "A") = Row(u.mem[C("A")], (n + 1) + (m + 1))
          /\ Kids(s, "A") = Row(s.mem[C("A")], n + 1) /\ Kids(s, "B") = Row(s.mem[C("B")], m + 1)
      BY <1>2, <1>10, <1>11 DEF Kids
    <2> QED
      BY ONLY <2>3, <2>4
  <1>14. v.len["P"] = j.p
    BY <1>2, <1>7, <1>9, NodesAre DEF Kept
  <1>15. GapClosed(j, v, t)
    BY <1>1, <1>3, <1>14, CloseGapDid
  <1>16. Keys(v, "P") = Keys(s, "P") /\ Kids(v, "P") = Kids(s, "P")
    <2>1. Keys(u, "P") = Keys(s, "P") /\ Kids(u, "P") = Kids(s, "P")
      BY <1>9, KeptRows
    <2>2. Keys(v, "P") = Keys(u, "P") /\ Kids(v, "P") = Kids(u, "P")
      BY <1>7, KeptRows, NodesAre
    <2> QED
      BY ONLY <2>1, <2>2
  <1>17. Keys(t, "A") = Keys(u, "A") /\ Kids(t, "A") = Kids(u, "A")
    <2>1. Keys(t, "A") = Keys(v, "A") /\ Kids(t, "A") = Kids(v, "A")
      BY <1>15, KeptRows DEF GapClosed
    <2> QED
      BY <1>7, <2>1, KeptRows, NodesAre
  <1> QED
    BY <1>7, <1>12, <1>13, <1>15, <1>16, <1>17 DEF MergeHeld, GapClosed

(* Every key and value of a leaf is dropped, and the leaf freed.           *)
LEMMA FreeTreeHolds ==
  ASSUME NEW j \in Jobs, CanStart(j), j.proc = "free_tree",
         NEW s, NEW t, Begins(j, s), Runs(free_tree(j), s, t)
  PROVE  t.freed = {"A"} /\ t.gone = 2 * j.a
  <1>1. PICK u1, u2 : /\ Did(Enter({}), s, u1) /\ Did(DropSlots("A", <<K("A"), V("A")>>, 0), u1, u2)
                      /\ Did(Free("A"), u2, t)
    BY RunsThree DEF free_tree
  <1>2. EnterDid({}, s, u1) /\ DropsDid("A", <<K("A"), V("A")>>, 0, u1, u2) /\ FreeDid("A", u2, t)
    BY <1>1, DidWhat
  <1>3. s.freed = {} /\ s.gone = 0 /\ s.len["A"] = j.a /\ j.a \in Nat
    BY JobIs DEF Begins
  <1>4. t.freed = {"A"}
    BY <1>2, <1>3 DEF EnterDid, DropsDid, FreeDid, Nodewise
  <1>5. u1.len["A"] = j.a /\ u1.gone = 0 /\ t.gone = u2.gone
    BY <1>2, <1>3 DEF EnterDid, FreeDid
  <1>6. u2.gone = u1.gone + IF 0 < 2 * j.a THEN 2 * j.a - 0 ELSE 0
    <2>1. Len(<<K("A"), V("A")>>) = 2
      OBVIOUS
    <2> QED
      BY <1>2, <1>5, <2>1 DEF DropsDid
  <1> QED
    BY <1>3, <1>4, <1>5, <1>6

-----------------------------------------------------------------------------
(* What a procedure that has run from s to t leaves.                       *)
InsertLeaves(j, s, t) ==
  /\ Keys(t, "A") = InsertAt(Keys(s, "A"), j.idx + 1, New("keys"))
  /\ Vals(t, "A") = InsertAt(Vals(s, "A"), j.idx + 1, New("vals"))
ReplaceLeaves(j, s, t) ==
  /\ Keys(t, "A") = Keys(s, "A")
  /\ Vals(t, "A") = [Vals(s, "A") EXCEPT ![j.idx + 1] = New("vals")]
  /\ t.local["old"] = Vals(s, "A")[j.idx + 1]
LeafSplitLeaves(j, s, t) ==
  /\ Keys(t, "A") = LeafSplitLeft(Keys(s, "A"), j.idx, New("keys"))
  /\ Vals(t, "A") = LeafSplitLeft(Vals(s, "A"), j.idx, New("vals"))
  /\ Keys(t, "B") = LeafSplitRight(Keys(s, "A"), j.idx, New("keys"))
  /\ Vals(t, "B") = LeafSplitRight(Vals(s, "A"), j.idx, New("vals"))
  /\ t.local["sep_key"] = CloneOf(Keys(t, "B")[1])
BranchInsertLeaves(j, s, t) ==
  /\ Keys(t, "A") = InsertAt(Keys(s, "A"), j.idx + 1, New("keys"))
  /\ Kids(t, "A") = InsertAt(Kids(s, "A"), j.idx + 2, New("children"))
BranchSplitLeaves(j, s, t) ==
  LET b == BranchSplit(Keys(s, "A"), Kids(s, "A"), j.idx, New("keys"), New("children"))
  IN  /\ Keys(t, "A") = b.lkeys /\ Kids(t, "A") = b.lchilds
      /\ Keys(t, "B") = b.rkeys /\ Kids(t, "B") = b.rchilds
      /\ b.promote \in {t.local["key"], t.local["promote"]}
RemoveLeaves(j, s, t) ==
  /\ Keys(t, "A") = RemoveAt(Keys(s, "A"), j.idx + 1)
  /\ Vals(t, "A") = RemoveAt(Vals(s, "A"), j.idx + 1)
  /\ t.local["value"] = Vals(s, "A")[j.idx + 1]
FreeLeaves(j, t) == t.freed = {"A"} /\ t.gone = 2 * j.a

Borrows == {"borrow_from_left_leaf", "borrow_from_right_leaf",
            "borrow_from_left_branch", "borrow_from_right_branch"}
Merges == {"merge_leaves", "merge_branches", "check_root_collapse"}

ResultOf(j, s, t) ==
  /\ j.proc = "insert_into_leaf_slot" => InsertLeaves(j, s, t)
  /\ j.proc = "leaf_replace" => ReplaceLeaves(j, s, t)
  /\ j.proc = "leaf_split" => LeafSplitLeaves(j, s, t)
  /\ j.proc = "branch_insert" => BranchInsertLeaves(j, s, t)
  /\ j.proc = "branch_insert_and_split" => BranchSplitLeaves(j, s, t)
  /\ j.proc = "leaf_remove" => RemoveLeaves(j, s, t)
  /\ j.proc = "free_tree" => FreeLeaves(j, t)
  /\ j.proc \in Merges => MergeHeld(j, s, t)
  /\ j.proc \in Borrows => BorrowHeld(j, s, t)

LEMMA MovesOf ==
  ASSUME NEW j
  PROVE  /\ j.proc = "insert_into_leaf_slot" => Moves(j) = insert_into_leaf_slot(j)
         /\ j.proc = "leaf_replace" => Moves(j) = leaf_replace(j)
         /\ j.proc = "leaf_split" => Moves(j) = leaf_split(j)
         /\ j.proc = "branch_insert" => Moves(j) = branch_insert(j)
         /\ j.proc = "branch_insert_and_split" => Moves(j) = branch_insert_and_split(j)
         /\ j.proc = "leaf_remove" => Moves(j) = leaf_remove(j)
         /\ j.proc = "borrow_from_left_leaf" => Moves(j) = borrow_from_left_leaf(j)
         /\ j.proc = "borrow_from_right_leaf" => Moves(j) = borrow_from_right_leaf(j)
         /\ j.proc = "borrow_from_left_branch" => Moves(j) = borrow_from_left_branch(j)
         /\ j.proc = "borrow_from_right_branch" => Moves(j) = borrow_from_right_branch(j)
         /\ j.proc = "merge_leaves" => Moves(j) = merge_leaves(j)
         /\ j.proc = "merge_branches" => Moves(j) = merge_branches(j)
         /\ j.proc = "check_root_collapse" => Moves(j) = check_root_collapse(j)
         /\ j.proc = "free_tree" => Moves(j) = free_tree(j)
  BY DEF Moves

(* Every procedure leaves what it should.                                  *)
LEMMA AllHold ==
  ASSUME NEW j \in Jobs, CanStart(j), NEW s, NEW t, Begins(j, s), Runs(Moves(j), s, t)
  PROVE  ResultOf(j, s, t)
  <1>1. j.proc = "insert_into_leaf_slot" => InsertLeaves(j, s, t)
    BY MovesOf, InsertHolds DEF InsertLeaves
  <1>2. j.proc = "leaf_replace" => ReplaceLeaves(j, s, t)
    BY MovesOf, ReplaceHolds DEF ReplaceLeaves
  <1>3. j.proc = "leaf_split" => LeafSplitLeaves(j, s, t)
    BY MovesOf, LeafSplitHolds DEF LeafSplitLeaves
  <1>4. j.proc = "branch_insert" => BranchInsertLeaves(j, s, t)
    BY MovesOf, BranchInsertHolds DEF BranchInsertLeaves
  <1>5. j.proc = "branch_insert_and_split" => BranchSplitLeaves(j, s, t)
    BY MovesOf, BranchSplitHolds DEF BranchSplitLeaves
  <1>6. j.proc = "leaf_remove" => RemoveLeaves(j, s, t)
    BY MovesOf, RemoveHolds DEF RemoveLeaves
  <1>7. j.proc = "free_tree" => FreeLeaves(j, t)
    BY MovesOf, FreeTreeHolds DEF FreeLeaves
  <1>8. j.proc \in Merges => MergeHeld(j, s, t)
    <2>1. j.proc = "merge_leaves" => MergeHeld(j, s, t)
      BY MovesOf, MergeLeavesHolds
    <2>2. j.proc = "merge_branches" => MergeHeld(j, s, t)
      BY MovesOf, MergeBranchesHolds
    <2>3. j.proc = "check_root_collapse" => MergeHeld(j, s, t)
      BY MovesOf, RootCollapseHolds
    <2> QED
      BY ONLY <2>1, <2>2, <2>3 DEF Merges
  <1>9. j.proc \in Borrows => BorrowHeld(j, s, t)
    <2>1. j.proc = "borrow_from_left_leaf" => BorrowHeld(j, s, t)
      BY MovesOf, BorrowLeftLeafHolds
    <2>2. j.proc = "borrow_from_right_leaf" => BorrowHeld(j, s, t)
      BY MovesOf, BorrowRightLeafHolds
    <2>3. j.proc = "borrow_from_left_branch" => BorrowHeld(j, s, t)
      BY MovesOf, BorrowLeftBranchHolds
    <2>4. j.proc = "borrow_from_right_branch" => BorrowHeld(j, s, t)
      BY MovesOf, BorrowRightBranchHolds
    <2> QED
      BY ONLY <2>1, <2>2, <2>3, <2>4 DEF Borrows
  <1> QED
    BY ONLY <1>1, <1>2, <1>3, <1>4, <1>5, <1>6, <1>7, <1>8, <1>9 DEF ResultOf

-----------------------------------------------------------------------------
(* A step of the machine does what its move does.                          *)

Shape == (\A c \in Arrays : DOMAIN mem[c] = Index) /\ IsSeq(dropped)

LEMMA CurHas ==
  ASSUME NEW s, s = Cur, NEW t, t = Cur'
  PROVE  /\ s.mem = mem /\ s.len = len /\ s.local = local /\ s.entry = entry
         /\ s.freed = freed /\ s.gone = Len(dropped)
         /\ t.mem = mem' /\ t.len = len' /\ t.local = local' /\ t.entry = entry'
         /\ t.freed = freed' /\ t.gone = Len(dropped')
  BY DEF Cur

LEMMA OneMore ==
  ASSUME NEW q, IsSeq(q), NEW e
  PROVE  IsSeq(Append(q, e)) /\ Len(Append(q, e)) = Len(q) + 1 /\ Len(q) \in Nat
  <1> PICK S : q \in Seq(S)
    BY DEF IsSeq
  <1> PICK T : T = S \cup {e}
    OBVIOUS
  <1>1. q \in Seq(T) /\ e \in T
    OBVIOUS
  <1>2. Append(q, e) \in Seq(T) /\ Len(Append(q, e)) = Len(q) + 1 /\ Len(q) \in Nat
    BY <1>1
  <1> QED
    BY <1>2 DEF IsSeq

LEMMA RowWritten ==
  ASSUME DOMAIN mem = Arrays, \A c \in Arrays : DOMAIN mem[c] = Index,
         NEW b \in Arrays, NEW row, DOMAIN row = Index, mem' = [mem EXCEPT ![b] = row]
  PROVE  /\ \A c \in Arrays : c # b => mem'[c] = mem[c]
         /\ mem'[b] = row /\ \A c \in Arrays : (DOMAIN mem[c])' = Index
  BY DEF Index

(* A step that copies, zeroes, writes, reads or does another thing.        *)
LEMMA CopyStep ==
  ASSUME SInv, Shape, DoCopy
  PROVE  Did(Now, Cur, Cur') /\ Shape'
  <1> PICK s : s = Cur
    OBVIOUS
  <1> PICK t : t = Cur'
    OBVIOUS
  <1> PICK m : m = Now
    OBVIOUS
  <1>1. m.do = "copy" /\ m.to \in Arrays /\ m.j \in Nat /\ m.n \in Nat
    <2>1. m.do = "copy" /\ (m \in FitCopies \/ m \in Far)
      BY NowIs DEF DoCopy, Doing, SInv
    <2>2. C("P") \in Arrays
      BY AtAre, NodesAre
    <2> QED
      BY <2>1, <2>2 DEF FitCopies, Far
  <1> PICK row : row = [x \in Index |-> IF x \in m.j .. m.j + m.n - 1
                                        THEN mem[m.from][x - m.j + m.i] ELSE mem[m.to][x]]
    OBVIOUS
  <1>2. mem' = [mem EXCEPT ![m.to] = row]
    <2>1. mem' = [mem EXCEPT ![m.to] = [x \in DOMAIN mem[m.to] |-> IF x \in m.j .. m.j + m.n - 1
                                        THEN mem[m.from][x - m.j + m.i] ELSE mem[m.to][x]]]
      BY DEF DoCopy, Overwritten
    <2> QED
      BY <1>1, <2>1 DEF Shape
  <1>3. /\ \A c \in Arrays : c # m.to => mem'[c] = mem[c]
        /\ mem'[m.to] = row /\ \A c \in Arrays : (DOMAIN mem[c])' = Index
    BY <1>1, <1>2, RowWritten DEF SInv, TypeOK, Shape
  <1>4. CopiedRow(t.mem[m.to], s.mem[m.from], s.mem[m.to], m.j, m.i, m.n)
    <2> SUFFICES ASSUME NEW x \in Index
                 PROVE  mem'[m.to][x] = IF m.j <= x /\ x < m.j + m.n
                                        THEN mem[m.from][x - m.j + m.i] ELSE mem[m.to][x]
      BY CurHas DEF CopiedRow
    <2>1. x \in m.j .. m.j + m.n - 1 <=> m.j <= x /\ x < m.j + m.n
      BY <1>1, MaxCapAssumption DEF Index
    <2> QED
      BY <1>3, <2>1
  <1>5. UNCHANGED <<len, local, entry, freed, dropped>>
    BY DEF DoCopy
  <1>6. CopyDid(m.from, m.i, m.to, m.j, m.n, s, t)
    BY <1>3, <1>4, <1>5, CurHas DEF CopyDid, RowsBut, Nodewise
  <1>7. Did(m, s, t)
    BY <1>1, <1>6 DEF Did
  <1>8. Shape'
    BY <1>3, <1>5 DEF Shape, IsSeq, Index, Arrays, Nodes
  <1> QED
    BY <1>7, <1>8

LEMMA ZeroStep ==
  ASSUME SInv, Shape, DoZero
  PROVE  Did(Now, Cur, Cur') /\ Shape'
  <1> PICK s : s = Cur
    OBVIOUS
  <1> PICK t : t = Cur'
    OBVIOUS
  <1> PICK m : m = Now
    OBVIOUS
  <1>1. m.do = "zero" /\ m.to \in Arrays /\ m.j \in Nat /\ m.n \in Nat
    BY NowIs DEF DoZero, Doing, SInv, FitZeros
  <1> PICK row : row = [x \in Index |-> IF x \in m.j .. m.j + m.n - 1 THEN Zeros ELSE mem[m.to][x]]
    OBVIOUS
  <1>2. mem' = [mem EXCEPT ![m.to] = row]
    <2>1. mem' = [mem EXCEPT ![m.to] = [x \in DOMAIN mem[m.to] |-> IF x \in m.j .. m.j + m.n - 1
                                        THEN Zeros ELSE mem[m.to][x]]]
      BY DEF DoZero, Overwritten
    <2> QED
      BY <1>1, <2>1 DEF Shape
  <1>3. /\ \A c \in Arrays : c # m.to => mem'[c] = mem[c]
        /\ mem'[m.to] = row /\ \A c \in Arrays : (DOMAIN mem[c])' = Index
    BY <1>1, <1>2, RowWritten DEF SInv, TypeOK, Shape
  <1>4. ZeroedRow(t.mem[m.to], s.mem[m.to], m.j, m.n)
    <2> SUFFICES ASSUME NEW x \in Index
                 PROVE  mem'[m.to][x] = IF m.j <= x /\ x < m.j + m.n THEN Zeros ELSE mem[m.to][x]
      BY CurHas DEF ZeroedRow
    <2>1. x \in m.j .. m.j + m.n - 1 <=> m.j <= x /\ x < m.j + m.n
      BY <1>1, MaxCapAssumption DEF Index
    <2> QED
      BY <1>3, <2>1
  <1>5. UNCHANGED <<len, local, entry, freed, dropped>>
    BY DEF DoZero
  <1>6. ZeroDid(m.to, m.j, m.n, s, t)
    BY <1>3, <1>4, <1>5, CurHas DEF ZeroDid, RowsBut, Nodewise
  <1>7. Did(m, s, t)
    BY <1>1, <1>6 DEF Did
  <1>8. Shape'
    BY <1>3, <1>5 DEF Shape, IsSeq, Index, Arrays, Nodes
  <1> QED
    BY <1>7, <1>8

LEMMA WriteStep ==
  ASSUME SInv, Shape, DoWrite
  PROVE  Did(Now, Cur, Cur') /\ Shape'
  <1> PICK s : s = Cur
    OBVIOUS
  <1> PICK t : t = Cur'
    OBVIOUS
  <1> PICK m : m = Now
    OBVIOUS
  <1>1. m.do = "write" /\ m.to \in Arrays /\ m.j \in Nat /\ m.r \in Locals
    BY NowIs DEF DoWrite, Doing, SInv, FitWrites
  <1> PICK row : row = [x \in Index |-> IF x \in m.j .. m.j + 1 - 1 THEN local[m.r] ELSE mem[m.to][x]]
    OBVIOUS
  <1>2. mem' = [mem EXCEPT ![m.to] = row]
    <2>1. mem' = [mem EXCEPT ![m.to] = [x \in DOMAIN mem[m.to] |-> IF x \in m.j .. m.j + 1 - 1
                                        THEN local[m.r] ELSE mem[m.to][x]]]
      BY DEF DoWrite, Overwritten
    <2> QED
      BY <1>1, <2>1 DEF Shape
  <1>3. /\ \A c \in Arrays : c # m.to => mem'[c] = mem[c]
        /\ mem'[m.to] = row /\ \A c \in Arrays : (DOMAIN mem[c])' = Index
    BY <1>1, <1>2, RowWritten DEF SInv, TypeOK, Shape
  <1>4. WrittenRow(t.mem[m.to], s.mem[m.to], m.j, s.local[m.r])
    <2> SUFFICES ASSUME NEW x \in Index
                 PROVE  mem'[m.to][x] = IF x = m.j THEN local[m.r] ELSE mem[m.to][x]
      BY CurHas DEF WrittenRow
    <2>1. x \in m.j .. m.j + 1 - 1 <=> x = m.j
      BY <1>1, MaxCapAssumption DEF Index
    <2> QED
      BY <1>3, <2>1
  <1>5. UNCHANGED <<len, entry, freed, dropped>> /\ local' = [local EXCEPT ![m.r] = Nothing]
    BY DEF DoWrite
  <1>6. WriteDid(m.to, m.j, m.r, s, t)
    <2>1. \A q \in Locals : q # m.r => local'[q] = local[q]
      BY <1>1, <1>5 DEF SInv, TypeOK
    <2>2. RowsBut(m.to, s, t)
      BY <1>3, CurHas DEF RowsBut
    <2>3. LocalsBut(m.r, s, t)
      BY <2>1, CurHas DEF LocalsBut
    <2>4. Nodewise(s, t) /\ t.gone = s.gone
      BY <1>5, CurHas DEF Nodewise
    <2> QED
      BY ONLY <1>4, <2>2, <2>3, <2>4 DEF WriteDid
  <1>7. Did(m, s, t)
    BY <1>1, <1>6 DEF Did
  <1>8. Shape'
    BY <1>3, <1>5 DEF Shape, IsSeq, Index, Arrays, Nodes
  <1> QED
    BY <1>7, <1>8

LEMMA ReadStep ==
  ASSUME SInv, Shape, DoRead \/ DoClone
  PROVE  Did(Now, Cur, Cur') /\ Shape'
  <1> PICK s : s = Cur
    OBVIOUS
  <1> PICK t : t = Cur'
    OBVIOUS
  <1> PICK m : m = Now
    OBVIOUS
  <1>1. m.do \in {"read", "clone"} /\ m.r \in Locals
    <2>1. m \in FitReads \/ m \in FitClones
      BY NowIs DEF DoRead, DoClone, Doing, SInv
    <2> QED
      BY <2>1 DEF DoRead, DoClone, Doing, FitReads, FitClones
  <1>2. UNCHANGED <<mem, len, entry, freed, dropped>>
    BY DEF DoRead, DoClone
  <1>3. /\ m.do = "read" => local' = [local EXCEPT ![m.r] = mem[m.from][m.i]]
        /\ m.do = "clone" => local' = [local EXCEPT ![m.r] = CloneOf(mem[m.from][m.i])]
    BY DEF DoRead, DoClone, Doing
  <1>4. /\ \A q \in Locals : q # m.r => local'[q] = local[q]
        /\ m.do = "read" => local'[m.r] = mem[m.from][m.i]
        /\ m.do = "clone" => local'[m.r] = CloneOf(mem[m.from][m.i])
    BY <1>1, <1>3 DEF SInv, TypeOK
  <1>5. /\ m.do = "read" => ReadDid(m.from, m.i, m.r, s, t)
        /\ m.do = "clone" => CloneDid(m.from, m.i, m.r, s, t)
    BY <1>2, <1>4, CurHas DEF ReadDid, CloneDid, LocalsBut, Nodewise
  <1>6. Did(m, s, t)
    BY <1>1, <1>5 DEF Did
  <1>7. Shape'
    BY <1>2 DEF Shape, IsSeq, Index, Arrays, Nodes
  <1> QED
    BY <1>6, <1>7

LEMMA OtherStep ==
  ASSUME SInv, Shape, DoSetLen \/ DoFree \/ DoEnter
  PROVE  Did(Now, Cur, Cur') /\ Shape'
  <1> PICK s : s = Cur
    OBVIOUS
  <1> PICK t : t = Cur'
    OBVIOUS
  <1> PICK m : m = Now
    OBVIOUS
  <1>1. UNCHANGED <<mem, local, dropped>>
    BY DEF DoSetLen, DoFree, DoEnter
  <1>2. Shape'
    BY <1>1 DEF Shape, IsSeq, Index, Arrays, Nodes
  <1>3. CASE DoSetLen
    <2>1. m.do = "len" /\ m.node \in Nodes
      BY <1>3, NowIs DEF DoSetLen, Doing, SInv, FitLens
    <2>2. len' = [len EXCEPT ![m.node] = m.n] /\ UNCHANGED <<entry, freed>>
      BY <1>3 DEF DoSetLen
    <2>3. len'[m.node] = m.n /\ \A n \in Nodes : n # m.node => len'[n] = len[n]
      BY <2>1, <2>2 DEF SInv, TypeOK
    <2>4. LenDid(m.node, m.n, s, t)
      <3>1. UNCHANGED <<mem, local, entry, freed, dropped>>
        BY <1>1, <2>2
      <3> QED
        BY ONLY <2>3, <3>1, CurHas, s = Cur, t = Cur' DEF LenDid
    <2>5. Did(m, s, t)
      BY <2>1, <2>4 DEF Did
    <2> QED
      BY <1>2, <2>5
  <1>4. CASE DoFree
    <2>1. m.do = "free" /\ freed' = freed \cup {m.node} /\ UNCHANGED <<len, entry>>
      BY <1>4 DEF DoFree, Doing
    <2>2. FreeDid(m.node, s, t)
      BY <1>1, <2>1, CurHas DEF FreeDid
    <2>3. Did(m, s, t)
      BY <2>1, <2>2 DEF Did
    <2> QED
      BY <1>2, <2>3
  <1>5. CASE DoEnter
    <2>1. m.do = "enter" /\ entry' = m.nodes /\ UNCHANGED <<len, freed>>
      BY <1>5 DEF DoEnter, Doing
    <2>2. EnterDid(m.nodes, s, t)
      BY <1>1, <2>1, CurHas DEF EnterDid
    <2>3. Did(m, s, t)
      BY <2>1, <2>2 DEF Did
    <2> QED
      BY <1>2, <2>3
  <1> QED
    BY <1>3, <1>4, <1>5

LEMMA DropStep ==
  ASSUME SInv, Shape, DoDrop
  PROVE  Did(Now, Cur, Cur') /\ Shape'
  <1> PICK s : s = Cur
    OBVIOUS
  <1> PICK t : t = Cur'
    OBVIOUS
  <1> PICK m : m = Now
    OBVIOUS
  <1>1. m.do = "drop" /\ dropped' = Append(dropped, local[m.r])
        /\ local' = [local EXCEPT ![m.r] = Nothing] /\ UNCHANGED <<mem, len, entry, freed>>
    BY DEF DoDrop, Doing
  <1>2. IsSeq(dropped') /\ Len(dropped') = Len(dropped) + 1
    BY <1>1, OneMore DEF Shape
  <1>3. \A q \in Locals : q # m.r => local'[q] = local[q]
    BY <1>1 DEF SInv, TypeOK
  <1>4. DropDid(m.r, s, t)
    <2>1. t.mem = s.mem /\ t.len = s.len /\ t.entry = s.entry /\ t.freed = s.freed
      BY ONLY <1>1, CurHas, s = Cur, t = Cur'
    <2>2. s.local = local /\ t.local = local' /\ s.gone = Len(dropped) /\ t.gone = Len(dropped')
      BY ONLY CurHas, s = Cur, t = Cur'
    <2> QED
      BY ONLY <1>2, <1>3, <2>1, <2>2 DEF DropDid, LocalsBut, Nodewise
  <1>5. Did(m, s, t)
    BY <1>1, <1>4 DEF Did
  <1>6. Shape'
    BY <1>1, <1>2 DEF Shape, IsSeq, Index, Arrays, Nodes
  <1> QED
    BY <1>5, <1>6

(* What is left of a loop of drops, before and after one of them.          *)
LEMMA OneDropOfMany ==
  ASSUME SInv, Shape, Doing("drops"), SlotsLeft, DoDropSlots, NEW u, Did(Head(moves'), Cur', u)
  PROVE  Did(Now, Cur, u)
  <1> PICK s : s = Cur
    OBVIOUS
  <1> PICK t : t = Cur'
    OBVIOUS
  <1> PICK m : m = Now
    OBVIOUS
  <1>1. /\ m.do = "drops" /\ m = moves[1] /\ moves \in Seq(Fit \cup Far) /\ 1 \in 1 .. Len(moves)
        /\ m \in [do : {"drops"}, node : Nodes, arrays : Seq(Arrays), i : Nat, at : {"slots"}]
    <2>1. m.do = "drops" /\ m = moves[1] /\ 1 \in 1 .. Len(moves) /\ m \in FitOthers
      BY NowIs DEF Doing, SInv
    <2> QED
      BY <2>1 DEF FitOthers, SInv, Safe
  <1> PICK m2 : m2 = [m EXCEPT !.i = @ + 1]
    OBVIOUS
  <1>2. /\ m2.do = "drops" /\ m2.node = m.node /\ m2.arrays = m.arrays /\ m2.i = m.i + 1
    BY <1>1
  <1>3. Head(moves') = m2
    <2>1. moves' = [moves EXCEPT ![1] = m2]
      BY <1>1 DEF DoDropSlots
    <2> PICK q : q = [moves EXCEPT ![1] = m2]
      OBVIOUS
    <2> PICK M : M = Fit \cup Far
      OBVIOUS
    <2>2. moves \in Seq(M \cup {m2})
      BY <1>1
    <2>3. q \in Seq(M \cup {m2}) /\ Len(q) = Len(moves) /\ q[1] = m2
      <3> PICK T : T = M \cup {m2}
        OBVIOUS
      <3>1. moves \in Seq(T) /\ m2 \in T /\ moves # <<>>
        BY <1>1, <2>2
      <3>2. q \in Seq(T) /\ Len(q) = Len(moves) /\ q[1] = m2
        BY ONLY <3>1, q = [moves EXCEPT ![1] = m2]
      <3> QED
        BY <3>2
    <2>4. Head(q) = m2
      BY <1>1, <2>3
    <2> QED
      BY <2>1, <2>4
  <1>4. DropsDid(m.node, m.arrays, m.i + 1, t, u)
    <2>1. Did(m2, t, u)
      BY <1>3
    <2> QED
      BY <1>2, <2>1 DEF Did
  <1>5. UNCHANGED <<mem, len, local, entry, freed>> /\ dropped' = Append(dropped, SlotNow)
    BY DEF DoDropSlots
  <1>6. Len(dropped') = Len(dropped) + 1 /\ Len(dropped) \in Nat
    BY <1>5, OneMore DEF Shape
  <1>7. m.i \in Nat /\ Len(m.arrays) \in Nat /\ len[m.node] \in Nat /\ m.i < Len(m.arrays) * len[m.node]
    BY <1>1 DEF SlotsLeft, SInv, TypeOK
  <1> PICK all \in Nat : all = Len(m.arrays) * len[m.node]
    BY <1>7
  <1> PICK i \in Nat : i = m.i
    BY <1>7
  <1>8. i < all
    BY <1>7
  <1>9. u.gone = t.gone + IF i + 1 < all THEN all - (i + 1) ELSE 0
    <2>1. t.len[m.node] = len[m.node]
      BY <1>5, CurHas
    <2> QED
      BY <1>4, <2>1 DEF DropsDid
  <1> PICK g \in Nat : g = Len(dropped)
    BY <1>6
  <1>10. t.gone = g + 1 /\ s.gone = g
    BY <1>6, CurHas
  <1>11. u.gone = s.gone + IF i < all THEN all - i ELSE 0
    BY ONLY <1>8, <1>9, <1>10, i \in Nat, all \in Nat, g \in Nat
  <1>12. s.len = t.len /\ s.mem = t.mem /\ s.local = t.local /\ s.entry = t.entry /\ s.freed = t.freed
    BY <1>5, CurHas
  <1>13. DropsDid(m.node, m.arrays, m.i, s, u)
    <2>1. Len(m.arrays) * s.len[m.node] = all
      BY CurHas
    <2>2. u.mem = s.mem /\ u.local = s.local /\ Nodewise(s, u)
      BY <1>4, <1>12 DEF DropsDid, Nodewise
    <2> QED
      BY <1>11, <2>1, <2>2 DEF DropsDid
  <1>14. Did(m, s, u)
    BY <1>1, <1>13 DEF Did
  <1> QED
    BY <1>14

(* The move just made was the first of the list.                           *)
LEMMA RunsHead ==
  ASSUME NEW ms, IsSeq(ms), ms # <<>>, NEW e, NEW ns, ns = [ms EXCEPT ![1] = e],
         NEW s, NEW t, NEW z, Runs(ns, t, z), \A u : Did(Head(ns), t, u) => Did(Head(ms), s, u)
  PROVE  Runs(ms, s, z)
  <1> PICK S1 : ms \in Seq(S1)
    BY DEF IsSeq
  <1> PICK S2 : S2 = S1 \cup {e}
    OBVIOUS
  <1>1. Len(ms) \in Nat /\ Len(ms) >= 1 /\ Head(ms) = ms[1] /\ ms \in Seq(S2)
    OBVIOUS
  <1> PICK n \in Nat : n = Len(ms)
    BY <1>1
  <1>2. ns \in Seq(S2) /\ Len(ns) = n /\ \A i \in 2 .. n : ns[i] = ms[i]
    BY <1>1
  <1>3. Len(ns) = n /\ n >= 1 /\ Head(ns) = ns[1] /\ \A i \in 2 .. n : ns[i] = ms[i]
    <2>1. n >= 1
      BY <1>1
    <2>2. Head(ns) = ns[1]
      BY <1>2, <2>1
    <2> QED
      BY <1>2, <2>1, <2>2
  <1> PICK h : /\ h[0] = t /\ h[n] = z
               /\ \A i \in 1 .. n : Did(ns[i], h[i - 1], h[i])
    BY <1>3 DEF Runs
  <1> PICK g : g = [x \in 0 .. n |-> IF x = 0 THEN s ELSE h[x]]
    OBVIOUS
  <1>4. g[0] = s /\ g[n] = z /\ \A x \in 1 .. n : g[x] = h[x]
    BY <1>3
  <1>5. ASSUME NEW i \in 1 .. n  PROVE  Did(ms[i], g[i - 1], g[i])
    <2>1. CASE i = 1
      <3>1. Did(ns[1], h[0], h[1]) /\ i - 1 = 0
        BY <1>3, <2>1
      <3>2. Did(Head(ns), t, h[1])
        BY <1>3, <3>1
      <3>3. Did(ms[1], s, h[1])
        BY <1>1, <3>2
      <3> QED
        BY <1>4, <2>1, <3>1, <3>3
    <2>2. CASE i # 1
      <3>1. i \in 2 .. n /\ i - 1 \in 1 .. n
        BY <2>2
      <3>2. Did(ns[i], h[i - 1], h[i]) /\ ns[i] = ms[i] /\ g[i] = h[i] /\ g[i - 1] = h[i - 1]
        BY <1>3, <1>4, <3>1
      <3> QED
        BY <3>2
    <2> QED
      BY <2>1, <2>2
  <1> QED
    BY <1>4, <1>5 DEF Runs

LEMMA LastOfDrops ==
  ASSUME SInv, Shape, Doing("drops"), ~SlotsLeft, DoDropSlots
  PROVE  Did(Now, Cur, Cur') /\ Shape'
  <1> PICK s : s = Cur
    OBVIOUS
  <1> PICK t : t = Cur'
    OBVIOUS
  <1> PICK m : m = Now
    OBVIOUS
  <1>1. m.do = "drops" /\ UNCHANGED <<mem, len, local, entry, freed, dropped>>
    BY DEF Doing, DoDropSlots
  <1>2. m.i \in Nat /\ Len(m.arrays) \in Nat /\ len[m.node] \in Nat
        /\ ~(m.i < Len(m.arrays) * len[m.node])
    <2>1. m \in [do : {"drops"}, node : Nodes, arrays : Seq(Arrays), i : Nat, at : {"slots"}]
      <3>1. m \in FitOthers
        BY <1>1, NowIs DEF Doing, SInv
      <3> QED
        BY <1>1, <3>1 DEF FitOthers
    <2> QED
      BY <2>1 DEF SlotsLeft, SInv, TypeOK
  <1>3. Len(dropped) \in Nat
    BY OneMore DEF Shape
  <1>4. DropsDid(m.node, m.arrays, m.i, s, t)
    BY <1>1, <1>2, <1>3, CurHas DEF DropsDid, Nodewise
  <1>5. Did(m, s, t)
    BY <1>1, <1>4 DEF Did
  <1>6. Shape'
    BY <1>1 DEF Shape, IsSeq, Index, Arrays, Nodes
  <1> QED
    BY <1>5, <1>6

-----------------------------------------------------------------------------
(* The invariant: what the moves that are left lead to, from the memory as *)
(* it is now, is the result of the procedure.                              *)

Fresh(s) == Begins(job, s) /\ \A a \in Arrays : \A i \in Index : s.mem[a][i] = First(a, i)
Leads(s) == how # "panicked" => \A t : Runs(moves, Cur, t) => ResultOf(job, s, t)
RInv == SInv /\ Shape /\ \E s : Fresh(s) /\ Leads(s)

LEMMA FirstStays ==
  ASSUME job' = job
  PROVE  \A a : \A i : First(a, i)' = First(a, i)
  <1>1. Len0' = Len0
    BY DEF Len0
  <1>2. Present' = Present
    BY DEF Present
  <1>3. \A a : Room(a)' = Room(a)
    BY DEF Room, IsLeaf
  <1>4. \A a : \A l : InUse(a, l)' = InUse(a, l)
    BY DEF InUse, IsLeaf
  <1> QED
    BY <1>1, <1>2, <1>3, <1>4 DEF First

LEMMA FreshStays ==
  ASSUME job' = job, NEW s, Fresh(s)
  PROVE  Fresh(s)'
  BY FirstStays DEF Fresh, Begins

LEMMA LeadsOn ==
  ASSUME job' = job, how # "panicked", NEW s, Leads(s),
         \A t : Runs(moves', Cur', t) => Runs(moves, Cur, t)
  PROVE  Leads(s)'
  <1>1. \A t : Runs(moves', Cur', t) => ResultOf(job, s, t)
    BY DEF Leads
  <1>2. \A t : Runs(moves', Cur', t) => ResultOf(job', s, t)
    BY <1>1
  <1> QED
    BY <1>2 DEF Leads

(* A step takes what is left to run one move further.                      *)
LEMMA StepLeads ==
  ASSUME SInv, moves # <<>>, Continue, Did(Now, Cur, Cur'), NEW s, Fresh(s), Leads(s)
  PROVE  Fresh(s)' /\ Leads(s)'
  <1>1. job' = job /\ moves' = Tail(moves) /\ how # "panicked"
    BY DEF Continue, SInv, TypeOK, Stopped
  <1>2. IsSeq(moves) /\ Now = Head(moves)
    BY DEF SInv, Safe, IsSeq, Now
  <1> PICK c : c = Cur
    OBVIOUS
  <1> PICK d : d = Cur'
    OBVIOUS
  <1>3. Did(Head(moves), c, d)
    BY <1>2
  <1>4. ASSUME NEW t, Runs(Tail(moves), d, t)
        PROVE  Runs(moves, c, t)
    BY ONLY <1>2, <1>3, <1>4, moves # <<>>, RunsFirst
  <1>5. \A t : Runs(moves', Cur', t) => Runs(moves, Cur, t)
    BY <1>1, <1>4
  <1> QED
    BY <1>1, <1>5, FreshStays, LeadsOn

LEMMA LocalsFinite ==
  IsFiniteSet(Locals)
  <1> PICK c : c = [i \in 1 .. 13 |->
        CASE i = 1 -> "key" [] i = 2 -> "value" [] i = 3 -> "right" [] i = 4 -> "sep_key"
          [] i = 5 -> "promote" [] i = 6 -> "old" [] i = 7 -> "removed_key" [] i = 8 -> "removed"
          [] i = 9 -> "parent_key" [] i = 10 -> "borrowed_key" [] i = 11 -> "borrowed_child"
          [] i = 12 -> "new_sep" [] i = 13 -> "old_sep"]
    OBVIOUS
  <1>1. /\ c[1] = "key" /\ c[2] = "value" /\ c[3] = "right" /\ c[4] = "sep_key" /\ c[5] = "promote"
        /\ c[6] = "old" /\ c[7] = "removed_key" /\ c[8] = "removed" /\ c[9] = "parent_key"
        /\ c[10] = "borrowed_key" /\ c[11] = "borrowed_child" /\ c[12] = "new_sep" /\ c[13] = "old_sep"
    OBVIOUS
  <1>2. c \in Surjection(1 .. 13, Locals)
    BY <1>1 DEF Surjection, Locals
  <1>3. IsFiniteSet(1 .. 13)
    <2>1. 1 \in Int /\ 13 \in Int
      OBVIOUS
    <2> QED
      BY ONLY <2>1, FS_Interval
  <1> QED
    BY <1>2, <1>3, FS_Surjection

LEMMA SetToSeqIs ==
  ASSUME NEW R, IsFiniteSet(R)
  PROVE  SetToSeq(R) \in Seq(R)
  <1>1. Cardinality(R) \in Nat /\ \E f \in [1 .. Cardinality(R) -> R] : IsInjective(f)
    BY FS_CardinalityType DEF ExistsBijection, Bijection, Injection
  <1>2. SetToSeq(R) \in [1 .. Cardinality(R) -> R]
    BY <1>1 DEF SetToSeq
  <1> QED
    BY <1>1, <1>2

(* The invariant holds at the start of every procedure, and is kept.       *)
LEMMA ResultInit ==
  Init => RInv
  <1> SUFFICES ASSUME Init  PROVE  RInv
    OBVIOUS
  <1> PICK s : s = Cur
    OBVIOUS
  <1>1. s.mem = mem /\ s.len = len /\ s.local = local /\ s.freed = freed /\ s.gone = Len(dropped)
    BY DEF Cur
  <1>2. SInv
    BY SlotsInit
  <1>3. job \in Jobs /\ CanStart(job) /\ moves = Moves(job)
    BY DEF Init
  <1>4. /\ mem = [a \in Arrays |-> [i \in Index |-> First(a, i)]]
        /\ len = Len0 /\ freed = {} /\ dropped = <<>>
        /\ local = [r \in Locals |-> IF r \in Arguments THEN Argument(r) ELSE Nothing]
    BY DEF Init, Index
  <1>5. Shape
    BY <1>4, SeqsAre DEF Shape
  <1>6. Begins(job, s)
    <2>1. s.len["A"] = job.a /\ s.len["B"] = job.b /\ s.len["P"] = job.p
      BY <1>1, <1>4, NodesAre DEF Len0
    <2>2. s.freed = {} /\ s.gone = 0
      BY <1>1, <1>4
    <2>3. job.proc \in {"insert_into_leaf_slot", "leaf_replace", "leaf_split"} =>
            s.local["key"] = New("keys") /\ s.local["value"] = New("vals")
      <3>1. ASSUME job.proc \in {"insert_into_leaf_slot", "leaf_replace", "leaf_split"}
            PROVE  s.local["key"] = New("keys") /\ s.local["value"] = New("vals")
        <4>1. Arguments = {"key", "value"}
          BY <3>1 DEF Arguments, OnOneBranch
        <4>2. s.local["key"] = Argument("key") /\ s.local["value"] = Argument("value")
          BY <1>1, <1>4, <4>1, LocalsAre
        <4> QED
          BY <4>2 DEF Argument
      <3> QED
        BY <3>1
    <2>4. job.proc \in OnOneBranch => s.local["key"] = New("keys") /\ s.local["right"] = New("children")
      <3>1. ASSUME job.proc \in OnOneBranch
            PROVE  s.local["key"] = New("keys") /\ s.local["right"] = New("children")
        <4>1. Arguments = {"key", "right"}
          BY <3>1 DEF Arguments, OnOneBranch
        <4>2. s.local["key"] = Argument("key") /\ s.local["right"] = Argument("right")
          BY <1>1, <1>4, <4>1, LocalsAre
        <4> QED
          BY <4>2 DEF Argument
      <3> QED
        BY <3>1
    <2> QED
      BY <2>1, <2>2, <2>3, <2>4 DEF Begins
  <1>7. Fresh(s)
    BY <1>1, <1>4, <1>6 DEF Fresh
  <1>8. Leads(s)
    <2>1. \A t : Runs(moves, s, t) => ResultOf(job, s, t)
      BY <1>3, <1>6, AllHold
    <2> QED
      BY <2>1 DEF Leads
  <1> QED
    BY <1>2, <1>5, <1>7, <1>8 DEF RInv

LEMMA ResultStep ==
  RInv /\ [Next]_vars => RInv'
  <1> SUFFICES ASSUME RInv, [Next]_vars  PROVE  RInv'
    OBVIOUS
  <1>1. SInv /\ Shape /\ SInv'
    BY SlotsStep DEF RInv
  <1> PICK s : Fresh(s) /\ Leads(s)
    BY DEF RInv
  <1>2. CASE DoCopy \/ DoZero \/ DoRead \/ DoWrite \/ DoSetLen \/ DoClone \/ DoDrop \/ DoFree \/ DoEnter
    <2>1. moves # <<>> /\ Continue
      BY <1>2 DEF DoCopy, DoZero, DoRead, DoWrite, DoSetLen, DoClone, DoDrop, DoFree, DoEnter, Doing
    <2>2. Did(Now, Cur, Cur') /\ Shape'
      BY <1>1, <1>2, CopyStep, ZeroStep, ReadStep, WriteStep, OtherStep, DropStep
    <2>3. Fresh(s)' /\ Leads(s)'
      BY <1>1, <2>1, <2>2, StepLeads
    <2> QED
      BY <1>1, <2>2, <2>3 DEF RInv
  <1>3. CASE DoDropSlots /\ ~SlotsLeft
    <2>1. moves # <<>> /\ Continue /\ Doing("drops")
      BY <1>3 DEF DoDropSlots, Doing
    <2>2. Did(Now, Cur, Cur') /\ Shape'
      BY <1>1, <1>3, <2>1, LastOfDrops
    <2>3. Fresh(s)' /\ Leads(s)'
      BY <1>1, <2>1, <2>2, StepLeads
    <2> QED
      BY <1>1, <2>2, <2>3 DEF RInv
  <1>4. CASE DoDropSlots /\ SlotsLeft
    <2>1. /\ Doing("drops") /\ moves # <<>> /\ UNCHANGED <<job, how, mem>>
          /\ dropped' = Append(dropped, SlotNow) /\ moves' = [moves EXCEPT ![1].i = @ + 1]
      BY <1>4 DEF DoDropSlots, Doing
    <2>2. Shape'
      <3>1. IsSeq(dropped')
        BY <1>1, <2>1, OneMore DEF Shape
      <3> QED
        BY <1>1, <2>1, <3>1 DEF Shape, IsSeq, Index, Arrays, Nodes
    <2>3. IsSeq(moves) /\ Now = Head(moves)
      BY <1>1 DEF SInv, Safe, IsSeq, Now
    <2>4. \A t : Runs(moves', Cur', t) => Runs(moves, Cur, t)
      <3> PICK p, q, c, d : p = moves /\ q = moves' /\ c = Cur /\ d = Cur'
        OBVIOUS
      <3>1. \A u : Did(Head(q), d, u) => Did(Head(p), c, u)
        BY <1>1, <1>4, <2>1, <2>3, OneDropOfMany
      <3> PICK e : q = [p EXCEPT ![1] = e]
        BY <2>1
      <3>2. IsSeq(p) /\ p # <<>> /\ q = [p EXCEPT ![1] = e]
        BY <2>1, <2>3
      <3>3. \A t : Runs(q, d, t) => Runs(p, c, t)
        BY ONLY <3>1, <3>2, RunsHead
      <3> QED
        BY <3>3
    <2>6. Fresh(s)' /\ Leads(s)'
      <3>1. how # "panicked"
        BY <1>1, <2>1 DEF SInv, TypeOK, Stopped
      <3> QED
        BY <2>1, <2>4, <3>1, FreshStays, LeadsOn
    <2> QED
      BY <1>1, <2>2, <2>6 DEF RInv
  <1>5. CASE Panic
    <2>1. job' = job /\ how' = "panicked" /\ mem' = mem
      BY <1>5 DEF Panic
    <2>2. IsSeq(dropped')
      <3>1. dropped' = dropped \o Given \o Unwound
        BY <1>5 DEF Panic
      <3>2. IsSeq(Given)
        BY SeqsAre, Zenon DEF Given
      <3>3. IsSeq(Unwound)
        <4> DEFINE R == {r \in Locals : local[r] # Nothing /\ ~IsPtr(local[r])}
        <4> PICK q : q = SetToSeq(R)
          OBVIOUS
        <4>1. q \in Seq(R)
          <5>1. IsFiniteSet(R)
            BY LocalsFinite, FS_Subset
          <5> QED
            BY <5>1, SetToSeqIs
        <4> HIDE DEF R
        <4>0. Len(q) \in Nat /\ DOMAIN q = 1 .. Len(q)
          <5> PICK T : T = R
            OBVIOUS
          <5>1. q \in Seq(T)
            BY <4>1
          <5> QED
            BY ONLY <5>1, LenProperties, Zenon
        <4> PICK n \in Nat : n = Len(q)
          BY <4>0
        <4> PICK z : z = [i \in 1 .. n |-> local[q[i]]]
          OBVIOUS
        <4> PICK S : S = {local[q[i]] : i \in 1 .. n}
          OBVIOUS
        <4>2. z \in [1 .. n -> S]
          OBVIOUS
        <4>3. z \in Seq(S)
          BY <4>2
        <4>4. Unwound = z
          BY <4>0 DEF Unwound, R
        <4> QED
          BY <4>3, <4>4 DEF IsSeq
      <3> QED
        BY <1>1, <3>1, <3>2, <3>3, IsSeqJoin DEF Shape
    <2>3. Shape'
      BY <1>1, <2>1, <2>2 DEF Shape, Index, Arrays, Nodes
    <2>4. Fresh(s)' /\ Leads(s)'
      BY <2>1, FreshStays DEF Leads
    <2> QED
      BY <1>1, <2>3, <2>4 DEF RInv
  <1>6. CASE UNCHANGED vars
    <2>1. UNCHANGED <<job, moves, mem, len, local, entry, freed, dropped, how>>
      BY <1>6 DEF vars
    <2>2. Shape'
      BY <1>1, <2>1 DEF Shape, IsSeq, Index, Arrays, Nodes
    <2>3. Fresh(s)'
      BY <2>1, FreshStays
    <2>4. Cur' = Cur
      BY <2>1 DEF Cur
    <2>5. Leads(s)'
      BY <2>1, <2>4 DEF Leads
    <2> QED
      BY <1>1, <2>2, <2>3, <2>5 DEF RInv
  <1> QED
    BY <1>2, <1>3, <1>4, <1>5, <1>6 DEF Next

-----------------------------------------------------------------------------
(* The slots in use as rows.                                               *)

LEMMA HowMany ==
  ASSUME NEW l \in Nat
  PROVE  Cardinality(0 .. l - 1) = l /\ Cardinality(0 .. l) = l + 1
  <1>1. 0 \in Int /\ l \in Int /\ l - 1 \in Int
    OBVIOUS
  <1>2. /\ Cardinality(0 .. l - 1) = IF 0 > l - 1 THEN 0 ELSE l - 1 - 0 + 1
        /\ Cardinality(0 .. l) = IF 0 > l THEN 0 ELSE l - 0 + 1
    BY ONLY <1>1, FS_Interval
  <1> QED
    BY <1>2

LEMMA Parts ==
  ASSUME NEW n
  PROVE  /\ K(n)[1] = n /\ V(n)[1] = n /\ C(n)[1] = n
         /\ K(n)[2] = "keys" /\ V(n)[2] = "vals" /\ C(n)[2] = "children"
  BY DEF K, V, C

LEMMA UsedSlots ==
  ASSUME NEW n, NEW l
  PROVE  /\ InUse(K(n), l) = 0 .. l - 1
         /\ IsLeaf(n) => InUse(V(n), l) = 0 .. l - 1
         /\ ~IsLeaf(n) => InUse(C(n), l) = 0 .. l
  BY Parts DEF InUse

LEMMA ContentsAre ==
  ASSUME TypeOK, NEW n \in Nodes, NEW t, t = Cur
  PROVE  /\ Contents(K(n)) = Keys(t, n)
         /\ IsLeaf(n) => Contents(V(n)) = Vals(t, n)
         /\ ~IsLeaf(n) => Contents(C(n)) = Kids(t, n)
  <1>1. t.mem = mem /\ t.len = len
    BY DEF Cur
  <1> PICK l \in Nat : l = len[n]
    BY MaxCapAssumption DEF TypeOK
  <1>2. Contents(K(n)) = Keys(t, n)
    <2>1. Cardinality(InUse(K(n), len[K(n)[1]])) = l
      <3>1. len[K(n)[1]] = l
        BY Parts
      <3>2. InUse(K(n), l) = 0 .. l - 1
        BY UsedSlots
      <3>3. Cardinality(0 .. l - 1) = l
        BY ONLY l \in Nat, HowMany
      <3> QED
        BY ONLY <3>1, <3>2, <3>3
    <2> QED
      BY <1>1, <2>1 DEF Contents, Keys, Row
  <1>3. ASSUME IsLeaf(n)  PROVE  Contents(V(n)) = Vals(t, n)
    <2>1. Cardinality(InUse(V(n), len[V(n)[1]])) = l
      <3>1. len[V(n)[1]] = l
        BY Parts
      <3>2. InUse(V(n), l) = 0 .. l - 1
        BY <1>3, UsedSlots
      <3>3. Cardinality(0 .. l - 1) = l
        BY ONLY l \in Nat, HowMany
      <3> QED
        BY ONLY <3>1, <3>2, <3>3
    <2> QED
      BY <1>1, <2>1 DEF Contents, Vals, Row
  <1>4. ASSUME ~IsLeaf(n)  PROVE  Contents(C(n)) = Kids(t, n)
    <2>1. Cardinality(InUse(C(n), len[C(n)[1]])) = l + 1
      <3>1. len[C(n)[1]] = l
        BY Parts
      <3>2. InUse(C(n), l) = 0 .. l
        BY <1>4, UsedSlots
      <3>3. Cardinality(0 .. l) = l + 1
        BY ONLY l \in Nat, HowMany
      <3> QED
        BY ONLY <3>1, <3>2, <3>3
    <2> QED
      BY <1>1, <2>1 DEF Contents, Kids, Row
  <1> QED
    BY <1>2, <1>3, <1>4

LEMMA OldRow ==
  ASSUME NEW a \in Arrays, NEW s, Fresh(s), NEW c \in Nat, c <= MaxCap + 1,
         Cardinality(InUse(a, Len0[a[1]])) = c
  PROVE  Old(a) = Row(s.mem[a], c)
  <1>1. ASSUME NEW i \in 1 .. c  PROVE  First(a, i - 1) = s.mem[a][i - 1]
    <2>1. i - 1 \in Index
      BY MaxCapAssumption DEF Index
    <2> QED
      BY <2>1 DEF Fresh
  <1> QED
    BY <1>1 DEF Old, Row

LEMMA OldAre ==
  ASSUME job \in Jobs, NEW n \in Nodes, NEW s, Fresh(s)
  PROVE  /\ Old(K(n)) = Keys(s, n)
         /\ IsLeaf(n) => Old(V(n)) = Vals(s, n)
         /\ ~IsLeaf(n) => Old(C(n)) = Kids(s, n)
  <1>1. s.len[n] = Len0[n] /\ s.len[n] \in Nat /\ s.len[n] <= MaxCap
    BY JobIs DEF Fresh, Begins, Len0, Nodes
  <1> PICK l \in Nat : l = s.len[n]
    BY <1>1
  <1>2. l = Len0[n] /\ l <= MaxCap + 1 /\ l + 1 \in Nat /\ l + 1 <= MaxCap + 1
    BY <1>1, MaxCapAssumption
  <1>3. K(n) \in Arrays /\ V(n) \in Arrays /\ C(n) \in Arrays
    BY Apart
  <1>4. Old(K(n)) = Keys(s, n)
    <2>1. Cardinality(InUse(K(n), Len0[K(n)[1]])) = l
      <3>1. Len0[K(n)[1]] = l
        BY <1>2, Parts
      <3>2. InUse(K(n), l) = 0 .. l - 1
        BY UsedSlots
      <3>3. Cardinality(0 .. l - 1) = l
        BY ONLY l \in Nat, HowMany
      <3> QED
        BY ONLY <3>1, <3>2, <3>3
    <2> QED
      BY <1>2, <1>3, <2>1, OldRow DEF Keys
  <1>5. ASSUME IsLeaf(n)  PROVE  Old(V(n)) = Vals(s, n)
    <2>1. Cardinality(InUse(V(n), Len0[V(n)[1]])) = l
      <3>1. Len0[V(n)[1]] = l
        BY <1>2, Parts
      <3>2. InUse(V(n), l) = 0 .. l - 1
        BY <1>5, UsedSlots
      <3>3. Cardinality(0 .. l - 1) = l
        BY ONLY l \in Nat, HowMany
      <3> QED
        BY ONLY <3>1, <3>2, <3>3
    <2> QED
      BY <1>2, <1>3, <2>1, OldRow DEF Vals
  <1>6. ASSUME ~IsLeaf(n)  PROVE  Old(C(n)) = Kids(s, n)
    <2>1. Cardinality(InUse(C(n), Len0[C(n)[1]])) = l + 1
      <3>1. Len0[C(n)[1]] = l
        BY <1>2, Parts
      <3>2. InUse(C(n), l) = 0 .. l
        BY <1>6, UsedSlots
      <3>3. Cardinality(0 .. l) = l + 1
        BY ONLY l \in Nat, HowMany
      <3> QED
        BY ONLY <3>1, <3>2, <3>3
    <2> QED
      BY <1>2, <1>3, <2>1, OldRow DEF Kids
  <1> QED
    BY <1>4, <1>5, <1>6

(* The rows of the arrays that node n has.                                 *)
RowsOf(n, s, t) ==
  /\ Contents(K(n)) = Keys(t, n) /\ Old(K(n)) = Keys(s, n)
  /\ IsLeaf(n) => Contents(V(n)) = Vals(t, n) /\ Old(V(n)) = Vals(s, n)
  /\ ~IsLeaf(n) => Contents(C(n)) = Kids(t, n) /\ Old(C(n)) = Kids(s, n)

(* The result of the procedure is what the run asks for.                   *)
LEMMA Meets ==
  ASSUME job \in Jobs, TypeOK, NEW s, Fresh(s), NEW t, t = Cur, ResultOf(job, s, t), how = "done"
  PROVE  SlotsHoldResult
  <1>1. RowsOf("A", s, t) /\ RowsOf("B", s, t) /\ RowsOf("P", s, t)
    BY ContentsAre, OldAre, NodesAre DEF RowsOf
  <1>2. t.local = local /\ t.len = len /\ t.freed = freed /\ t.gone = Len(dropped) /\ t.entry = entry
    BY DEF Cur
  <1>3. CASE job.proc = "insert_into_leaf_slot"
    <2>1. InsertLeaves(job, s, t) /\ IsLeaf("A")
      BY <1>3 DEF ResultOf, IsLeaf, OnOneLeaf
    <2> QED
      BY ONLY <1>1, <1>3, <2>1 DEF SlotsHoldResult, InsertLeaves, RowsOf
  <1>4. CASE job.proc = "leaf_replace"
    <2>1. ReplaceLeaves(job, s, t) /\ IsLeaf("A")
      BY <1>4 DEF ResultOf, IsLeaf, OnOneLeaf
    <2> QED
      BY ONLY <1>1, <1>2, <1>4, <2>1 DEF SlotsHoldResult, ReplaceLeaves, RowsOf
  <1>5. CASE job.proc = "leaf_split"
    <2>1. LeafSplitLeaves(job, s, t) /\ IsLeaf("A") /\ IsLeaf("B")
      BY <1>5 DEF ResultOf, IsLeaf, OnOneLeaf
    <2> QED
      BY ONLY <1>1, <1>2, <1>5, <2>1 DEF SlotsHoldResult, LeafSplitLeaves, RowsOf
  <1>6. CASE job.proc = "branch_insert"
    <2>1. BranchInsertLeaves(job, s, t) /\ ~IsLeaf("A")
      BY <1>6 DEF ResultOf, IsLeaf, OnOneLeaf, OnLeaves
    <2> QED
      BY ONLY <1>1, <1>6, <2>1 DEF SlotsHoldResult, BranchInsertLeaves, RowsOf
  <1>7. CASE job.proc = "branch_insert_and_split"
    <2>1. BranchSplitLeaves(job, s, t) /\ ~IsLeaf("A") /\ ~IsLeaf("B")
      BY <1>7 DEF ResultOf, IsLeaf, OnOneLeaf, OnLeaves
    <2>2. SplitResult
      BY ONLY <1>1, <1>2, <2>1 DEF SplitResult, BranchSplitLeaves, RowsOf
    <2> QED
      BY ONLY <1>7, <2>2 DEF SlotsHoldResult
  <1>8. CASE job.proc = "leaf_remove"
    <2>1. RemoveLeaves(job, s, t) /\ IsLeaf("A")
      BY <1>8 DEF ResultOf, IsLeaf, OnOneLeaf
    <2> QED
      BY ONLY <1>1, <1>2, <1>8, <2>1 DEF SlotsHoldResult, RemoveLeaves, RowsOf
  <1>9. CASE job.proc = "free_tree"
    <2>1. FreeLeaves(job, t)
      BY <1>9 DEF ResultOf
    <2> QED
      BY ONLY <1>2, <1>9, <2>1 DEF SlotsHoldResult, FreeLeaves
  <1>10. CASE job.proc \in Merges
    <2>1. MergeHeld(job, s, t) /\ ~IsLeaf("P")
      BY <1>10 DEF ResultOf, IsLeaf
    <2>2. IF job.proc = "merge_branches" THEN ~IsLeaf("A") /\ ~IsLeaf("B") ELSE IsLeaf("A") /\ IsLeaf("B")
      BY <1>10 DEF Merges, IsLeaf, OnOneLeaf, OnLeaves
    <2>3. MergeResult
      BY ONLY <1>1, <1>2, <2>1, <2>2 DEF MergeResult, MergeHeld, RowsOf
    <2> QED
      BY ONLY <1>10, <2>3 DEF SlotsHoldResult, Merges
  <1>11. CASE job.proc \in Borrows
    <2>1. BorrowHeld(job, s, t) /\ ~IsLeaf("P")
      BY <1>11 DEF ResultOf, IsLeaf
    <2>2. IF job.proc \in OnLeaves THEN IsLeaf("A") /\ IsLeaf("B") ELSE ~IsLeaf("A") /\ ~IsLeaf("B")
      BY <1>11 DEF Borrows, IsLeaf, OnOneLeaf, OnLeaves
    <2>3. BorrowResult
      BY ONLY <1>1, <1>2, <2>1, <2>2 DEF BorrowResult, Joined, BorrowHeld, RowsOf
    <2> QED
      BY ONLY <1>11, <2>3 DEF SlotsHoldResult, Borrows
  <1>12. job.proc \in OnOneLeaf \cup OnOneBranch \cup OnLeaves \cup OnBranches
    BY DEF Jobs
  <1> QED
    BY ONLY <1>3, <1>4, <1>5, <1>6, <1>7, <1>8, <1>9, <1>10, <1>11, <1>12
       DEF OnOneLeaf, OnOneBranch, OnLeaves, OnBranches, Merges, Borrows

(* Once a procedure has run to its end the slots of the nodes hold the     *)
(* sequences that the operators of NodeOps and BPlusTree compute from what *)
(* they held before: insert_into_leaf_slot, leaf_replace and leaf_remove,  *)
(* both splits, the four borrows, the merges, check_root_collapse and      *)
(* free_tree, for every capacity, every fill and every index.              *)
THEOREM SlotsMeetSequences ==
  Spec => []SlotsHoldResult
  <1>1. ASSUME RInv  PROVE  SlotsHoldResult
    <2> SUFFICES ASSUME how = "done"  PROVE  SlotsHoldResult
      BY DEF SlotsHoldResult
    <2>1. TypeOK /\ job \in Jobs /\ moves = <<>>
      BY <1>1 DEF RInv, SInv, TypeOK, Stopped
    <2> PICK s : Fresh(s) /\ Leads(s)
      BY <1>1 DEF RInv
    <2> PICK t : t = Cur
      OBVIOUS
    <2>2. Runs(moves, Cur, t)
      BY <2>1, RunsNone
    <2>3. ResultOf(job, s, t)
      BY <2>2 DEF Leads
    <2> QED
      BY <2>1, <2>3, Meets
  <1> QED
    BY <1>1, ResultInit, ResultStep, PTL DEF Spec

=============================================================================
