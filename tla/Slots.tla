-------------------------------- MODULE Slots --------------------------------
(***************************************************************************)
(* The raw memory below the sequences of NodeOps and BPlusTree: arrays of  *)
(* slots without bounds checks or drops, that insert and remove edit with  *)
(* ptr::copy, read, write and write_bytes.  A procedure of the code is a   *)
(* list of such moves; the machine executes them one at a time, and the    *)
(* calls of user code among them, K::clone and K::drop, may panic.  The    *)
(* caller may catch the panic and go on with what is then in memory.       *)
(*                                                                         *)
(* A procedure works on one node A, or on siblings A and B, A the left     *)
(* one, with the parent P that separates them by its key idx.              *)
(***************************************************************************)
EXTENDS NodeOps, Functions

CONSTANTS
  MaxCap,     \* the largest capacity tried, of leaves and of branches
  PanicAt     \* the calls of user code that may panic

ASSUME MaxCapAssumption == MaxCap \in Nat \ {0}

VARIABLES
  job,        \* the procedure and the node lengths and index it starts from
  moves,      \* what is left of it
  mem,        \* the slots of every array
  len,        \* the len fields of the headers
  local,      \* Rust locals that own a value or hold a pointer
  entry,      \* the nodes that can be reached other than through P
  freed,      \* the nodes whose blocks are deallocated
  dropped,    \* the values dropped so far, in order
  how         \* "running", "done" or "panicked"

vars == <<job, moves, mem, len, local, entry, freed, dropped, how>>

K(n) == <<n, "keys">>
V(n) == <<n, "vals">>
C(n) == <<n, "children">>
Nodes  == {"A", "B", "P"}
Arrays == Nodes \X {"keys", "vals", "children"}
Locals == {"key", "value", "right", "sep_key", "promote", "old", "removed_key", "removed",
           "parent_key", "borrowed_key", "borrowed_child", "new_sep", "old_sep"}

(* What slots hold: a value or a pointer, named for where it was at first; *)
(* zeros, which are also the null pointer; leftovers; or other memory.     *)
Zeros   == <<"zeros">>
Stale   == <<"stale">>
Outside == <<"outside">>
Nothing == <<>>                          \* in a local
Was(a, i)  == a \o <<i>>
New(kind)  == <<"new", kind>>
NodePtr(n) == <<"node", n>>
CloneOf(v) == <<"clone">> \o v
Held(x) == x \notin {Zeros, Stale, Outside, Nothing}
IsPtr(x) == x # Nothing /\ (x[1] = "node" \/ (Len(x) >= 2 /\ x[2] = "children"))

-----------------------------------------------------------------------------
(* The moves.                                                              *)

Copy(a, i, b, j, n) == [do |-> "copy", from |-> a, i |-> i, to |-> b, j |-> j, n |-> n]
Zero(a, i, n)  == [do |-> "zero", to |-> a, j |-> i, n |-> n]
Read(a, i, r)  == [do |-> "read", from |-> a, i |-> i, r |-> r, n |-> 1]
Write(a, i, r) == [do |-> "write", to |-> a, j |-> i, r |-> r, n |-> 1]
SetLen(n, l)   == [do |-> "len", node |-> n, n |-> l]
Clone(a, i, r) == [do |-> "clone", from |-> a, i |-> i, r |-> r, n |-> 1, at |-> r]
DropLocal(r)   == [do |-> "drop", r |-> r, at |-> r]
DropSlots(n, as, i) == [do |-> "drops", node |-> n, arrays |-> as, i |-> i, at |-> "slots"]
Free(n)  == [do |-> "free", node |-> n]
Enter(S) == [do |-> "enter", nodes |-> S]

CopyKV(n, i, m, j, c) == <<Copy(K(n), i, K(m), j, c), Copy(V(n), i, V(m), j, c)>>
ZeroKV(n, i, c) == <<Zero(K(n), i, c), Zero(V(n), i, c)>>

shift_right_far(n, idx, l) ==      \* mutant: one slot too many
  IF idx < l THEN CopyKV(n, idx, n, idx + 1, l - idx + 1) ELSE <<>>
shift_right(n, idx, l) == IF idx < l THEN CopyKV(n, idx, n, idx + 1, l - idx) ELSE <<>>
shift_left_kv(n, start, count) == CopyKV(n, start + 1, n, start, count)
write_kv_at(n, idx) == <<Write(K(n), idx, "key"), Write(V(n), idx, "value")>>
shift_and_write_late(n, idx, l) == write_kv_at(n, idx) \o shift_right(n, idx, l) \* mutant
shift_and_write(n, idx, l) == shift_right(n, idx, l) \o write_kv_at(n, idx)
move_kv_at(n, i, m, j) == CopyKV(n, i, m, j, 1) \o ZeroKV(n, i, 1)

-----------------------------------------------------------------------------
(* The procedures.  A move of no slots is left out in the code.            *)

insert_into_leaf_slot(j) == shift_and_write("A", j.idx, j.a) \o <<SetLen("A", j.a + 1)>>

leaf_replace(j) ==
  <<Read(V("A"), j.idx, "old"), Write(V("A"), j.idx, "value"), DropLocal("key")>>

leaf_split(j) ==
  LET left == (j.a + 1) \div 2
      keep == IF j.idx < left THEN left - 1 ELSE left
      moved == j.a - keep
  IN  CopyKV("A", keep, "B", 0, moved) \o ZeroKV("A", keep, moved)
      \o (IF j.idx < left
          THEN shift_and_write("A", j.idx, keep)
               \o <<SetLen("A", left), SetLen("B", j.a + 1 - left)>>
          ELSE shift_and_write("B", j.idx - keep, moved)
               \o <<SetLen("A", keep), SetLen("B", moved + 1)>>)
      \o <<Enter({"A", "B"}), Clone(K("B"), 0, "sep_key")>>

branch_insert(j) ==
  <<Copy(K("A"), j.idx, K("A"), j.idx + 1, j.a - j.idx), Write(K("A"), j.idx, "key"),
    Copy(C("A"), j.idx + 1, C("A"), j.idx + 2, j.a - j.idx),
    Write(C("A"), j.idx + 1, "right"), SetLen("A", j.a + 1)>>

branch_insert_and_split(j) ==
  LET pm == (j.a + 1) \div 2
      first == j.idx - pm
      moved == j.a - (pm + 1)
  IN  (CASE j.idx < pm ->
          <<Read(K("A"), pm - 1, "promote"),
            Copy(K("A"), pm, K("B"), 0, j.a - pm), Zero(K("A"), pm, j.a - pm),
            SetLen("B", j.a - pm),
            Copy(C("A"), pm, C("B"), 0, j.a + 1 - pm), Zero(C("A"), pm, j.a + 1 - pm),
            Copy(K("A"), j.idx, K("A"), j.idx + 1, pm - 1 - j.idx),
            Write(K("A"), j.idx, "key"), SetLen("A", pm),
            Copy(C("A"), j.idx + 1, C("A"), j.idx + 2, pm - (j.idx + 1)),
            Write(C("A"), j.idx + 1, "right")>>
       [] j.idx = pm ->
          <<Copy(K("A"), pm, K("B"), 0, j.a - pm), Zero(K("A"), pm, j.a - pm),
            SetLen("B", j.a - pm), Write(C("B"), 0, "right"),
            Copy(C("A"), pm + 1, C("B"), 1, j.a - pm), Zero(C("A"), pm + 1, j.a - pm),
            SetLen("A", pm)>>
       [] j.idx > pm ->
          <<Read(K("A"), pm, "promote"),
            Copy(K("A"), pm + 1, K("B"), 0, moved), Zero(K("A"), pm + 1, moved),
            SetLen("B", moved),
            Copy(C("A"), pm + 1, C("B"), 0, first), Zero(C("A"), pm + 1, first),
            Write(C("B"), first, "right"),
            Copy(C("A"), j.idx + 1, C("B"), first + 1, j.a - j.idx),
            Zero(C("A"), j.idx + 1, j.a - j.idx),
            Copy(K("B"), first - 1, K("B"), first, moved - (first - 1)),
            Write(K("B"), first - 1, "key"), SetLen("B", moved + 1), SetLen("A", pm)>>)
      \o <<Enter({"A", "B"})>>

leaf_remove(j) ==
  <<Read(K("A"), j.idx, "removed_key"), Read(V("A"), j.idx, "value")>>
  \o shift_left_kv("A", j.idx, j.a - j.idx - 1)
  \o <<SetLen("A", j.a - 1), DropLocal("removed_key")>>

replace_sep_low(j) ==       \* mutant: the first key of the left one
  <<Clone(K("A"), 0, "new_sep"), Read(K("P"), j.idx, "old_sep"), DropLocal("old_sep"),
    Write(K("P"), j.idx, "new_sep")>>
replace_sep(j) ==
  <<Clone(K("B"), 0, "new_sep"), Read(K("P"), j.idx, "old_sep"), DropLocal("old_sep"),
    Write(K("P"), j.idx, "new_sep")>>

borrow_from_left_leaf(j) ==
  shift_right("B", 0, j.b) \o move_kv_at("A", j.a - 1, "B", 0)
  \o <<SetLen("A", j.a - 1), SetLen("B", j.b + 1)>> \o replace_sep(j)

borrow_from_right_leaf(j) ==
  move_kv_at("B", 0, "A", j.a) \o <<SetLen("A", j.a + 1)>>
  \o (IF j.b > 1 THEN shift_left_kv("B", 0, j.b - 1) \o ZeroKV("B", j.b - 1, 1) ELSE <<>>)
  \o <<SetLen("B", j.b - 1)>> \o replace_sep(j)

borrow_from_left_branch(j) ==
  <<Read(K("P"), j.idx, "parent_key"), Read(K("A"), j.a - 1, "borrowed_key"),
    Zero(K("A"), j.a - 1, 1), Read(C("A"), j.a, "borrowed_child"),
    SetLen("A", j.a - 1), Zero(C("A"), j.a, 1),
    Copy(K("B"), 0, K("B"), 1, j.b), Copy(C("B"), 0, C("B"), 1, j.b + 1),
    Write(K("B"), 0, "parent_key"), Write(C("B"), 0, "borrowed_child"),
    SetLen("B", j.b + 1), Write(K("P"), j.idx, "borrowed_key")>>

borrow_from_right_branch(j) ==
  <<Read(K("P"), j.idx, "parent_key"), Read(K("B"), 0, "new_sep"), Zero(K("B"), 0, 1),
    Read(C("B"), 0, "borrowed_child"), Write(K("A"), j.a, "parent_key"),
    Write(C("A"), j.a + 1, "borrowed_child"), SetLen("A", j.a + 1)>>
  \o (IF j.b > 1 THEN <<Copy(K("B"), 1, K("B"), 0, j.b - 1), Zero(K("B"), j.b - 1, 1)>>
                 ELSE <<>>)
  \o <<Copy(C("B"), 1, C("B"), 0, j.b), Zero(C("B"), j.b, 1),
       SetLen("B", j.b - 1), Write(K("P"), j.idx, "new_sep")>>

merge_leaf_into(j) ==
  CopyKV("B", 0, "A", j.a, j.b) \o <<SetLen("A", j.a + j.b), SetLen("B", 0)>>

free_branch_node(n) == <<DropSlots(n, <<K(n)>>, 0), Free(n)>>

(* The entry of P that leads to B goes: the key between A and B, and B.    *)
close_gap(j) ==
  <<Copy(K("P"), j.idx + 1, K("P"), j.idx, j.p - j.idx - 1),
    Copy(C("P"), j.idx + 2, C("P"), j.idx + 1, j.p - j.idx),
    Zero(C("P"), j.p, 1), SetLen("P", j.p - 1)>>
remove_branch_entry(j) ==
  <<Read(K("P"), j.idx, "removed"), DropLocal("removed")>> \o close_gap(j)
collapse_branch_entry(j) == close_gap(j)

merge_leaves(j) == merge_leaf_into(j) \o <<Free("B")>> \o remove_branch_entry(j)

merge_branches_len_kept(j) ==       \* mutant: len of the right one stays
  <<Read(K("P"), j.idx, "sep_key"), Write(K("A"), j.a, "sep_key"),
    Copy(K("B"), 0, K("A"), j.a + 1, j.b), Copy(C("B"), 0, C("A"), j.a + 1, j.b + 1),
    SetLen("A", j.a + 1 + j.b)>> \o free_branch_node("B") \o collapse_branch_entry(j)
merge_branches(j) ==
  <<Read(K("P"), j.idx, "sep_key"), Write(K("A"), j.a, "sep_key"),
    Copy(K("B"), 0, K("A"), j.a + 1, j.b), Copy(C("B"), 0, C("A"), j.a + 1, j.b + 1),
    SetLen("A", j.a + 1 + j.b), SetLen("B", 0)>>
  \o free_branch_node("B") \o collapse_branch_entry(j)

(* check_root_collapse of a root P over two leaves that fit one.           *)
check_root_collapse(j) ==
  merge_leaf_into(j) \o <<Free("B"), Zero(C("P"), 1, 1), Enter({"A"})>>
  \o free_branch_node("P")

(* clear or Drop of a map whose root is a leaf.                            *)
free_tree(j) == <<Enter({}), DropSlots("A", <<K("A"), V("A")>>, 0), Free("A")>>

Moves(j) ==
  CASE j.proc = "insert_into_leaf_slot"    -> insert_into_leaf_slot(j)
    [] j.proc = "leaf_replace"             -> leaf_replace(j)
    [] j.proc = "leaf_split"               -> leaf_split(j)
    [] j.proc = "branch_insert"            -> branch_insert(j)
    [] j.proc = "branch_insert_and_split"  -> branch_insert_and_split(j)
    [] j.proc = "leaf_remove"              -> leaf_remove(j)
    [] j.proc = "borrow_from_left_leaf"    -> borrow_from_left_leaf(j)
    [] j.proc = "borrow_from_right_leaf"   -> borrow_from_right_leaf(j)
    [] j.proc = "borrow_from_left_branch"  -> borrow_from_left_branch(j)
    [] j.proc = "borrow_from_right_branch" -> borrow_from_right_branch(j)
    [] j.proc = "merge_leaves"             -> merge_leaves(j)
    [] j.proc = "merge_branches"           -> merge_branches(j)
    [] j.proc = "check_root_collapse"      -> check_root_collapse(j)
    [] j.proc = "free_tree"                -> free_tree(j)

-----------------------------------------------------------------------------
(* The states a procedure may start in.                                    *)

OnOneLeaf  == {"insert_into_leaf_slot", "leaf_replace", "leaf_split", "leaf_remove", "free_tree"}
OnOneBranch == {"branch_insert", "branch_insert_and_split"}
OnLeaves   == {"borrow_from_left_leaf", "borrow_from_right_leaf", "merge_leaves",
               "check_root_collapse"}
OnBranches == {"borrow_from_left_branch", "borrow_from_right_branch", "merge_branches"}

Jobs == [proc : OnOneLeaf \cup OnOneBranch \cup OnLeaves \cup OnBranches,
         lcap : 1 .. MaxCap, bcap : 1 .. MaxCap,
         a : 0 .. MaxCap, b : 0 .. MaxCap, p : 0 .. MaxCap, idx : 0 .. MaxCap]

(* The capacity of A and B and the fewest items or keys they should have.  *)
Cap(j) == IF j.proc \in OnOneLeaf \cup OnLeaves THEN j.lcap ELSE j.bcap
MinLen(j) == IF j.proc \in OnLeaves \/ j.bcap > 2 THEN Cap(j) \div 2 ELSE 1

CanStart(j) ==
  /\ j.proc \in OnOneLeaf => j.bcap = 1
  /\ j.proc \in OnOneBranch \cup OnBranches => j.lcap = 1
  /\ j.proc \in OnOneLeaf \cup OnOneBranch => j.b = 0 /\ j.p = 0
  /\ j.proc \in OnLeaves \cup OnBranches => j.p \in 1 .. j.bcap /\ j.idx < j.p
  /\ j.a <= Cap(j) /\ j.b <= Cap(j)
  /\ CASE j.proc = "insert_into_leaf_slot" -> j.a < Cap(j) /\ j.idx <= j.a
       [] j.proc \in {"leaf_replace", "leaf_remove"} -> j.idx < j.a
       [] j.proc = "leaf_split" -> j.a = Cap(j) /\ j.idx <= j.a
       [] j.proc = "branch_insert" -> j.a \in 1 .. Cap(j) - 1 /\ j.idx <= j.a
       [] j.proc = "branch_insert_and_split" -> j.a = Cap(j) /\ j.idx <= j.a
       [] j.proc \in {"borrow_from_left_leaf", "borrow_from_left_branch"} ->
            j.a > MinLen(j) /\ j.b = MinLen(j) - 1
       [] j.proc \in {"borrow_from_right_leaf", "borrow_from_right_branch"} ->
            j.a = MinLen(j) - 1 /\ j.b > MinLen(j)
       [] j.proc = "merge_leaves" -> {j.a, j.b} = {MinLen(j) - 1, MinLen(j)}
       [] j.proc = "merge_branches" ->
            {j.a, j.b} = {MinLen(j) - 1, MinLen(j)} /\ j.a + 1 + j.b <= Cap(j)
       [] j.proc = "check_root_collapse" ->
            j.p = 1 /\ j.a >= 1 /\ j.b >= 1 /\ j.a + j.b <= Cap(j)
       [] j.proc = "free_tree" -> j.idx = 0

IsLeaf(n) == n # "P" /\ job.proc \in OnOneLeaf \cup OnLeaves
Room(a) == IF a[2] = "children" THEN job.bcap + 1
           ELSE IF IsLeaf(a[1]) THEN job.lcap ELSE job.bcap

(* The slots of array a in use by a node of length l.                      *)
InUse(a, l) ==
  CASE a[2] = "keys" -> 0 .. l - 1
    [] a[2] = "vals" -> IF IsLeaf(a[1]) THEN 0 .. l - 1 ELSE {}
    [] a[2] = "children" -> IF IsLeaf(a[1]) THEN {} ELSE 0 .. l

(* Nodes that take part from the start; a split makes B.                   *)
Present == IF job.proc \in OnOneLeaf \cup OnOneBranch THEN {"A"} ELSE Nodes
Len0 == [n \in Nodes |-> CASE n = "A" -> job.a [] n = "B" -> job.b [] n = "P" -> job.p]

First(a, i) ==
  CASE i >= Room(a) -> Outside
    [] i < Room(a) /\ (a[1] \notin Present \/ i \notin InUse(a, Len0[a[1]])) -> Stale
    [] i < Room(a) /\ a[1] \in Present /\ i \in InUse(a, Len0[a[1]]) ->
         IF a = C("P") /\ i = job.idx THEN NodePtr("A")
         ELSE IF a = C("P") /\ i = job.idx + 1 THEN NodePtr("B")
         ELSE Was(a, i)

Arguments ==
  CASE job.proc \in {"insert_into_leaf_slot", "leaf_replace", "leaf_split"} -> {"key", "value"}
    [] job.proc \in OnOneBranch -> {"key", "right"}
    [] OTHER -> {}
Argument(r) == New(CASE r = "key" -> "keys" [] r = "value" -> "vals" [] r = "right" -> "children")

Init ==
  /\ job \in {j \in Jobs : CanStart(j)}
  /\ moves = Moves(job)
  /\ mem = [a \in Arrays |-> [i \in 0 .. MaxCap + 2 |-> First(a, i)]]
  /\ len = Len0
  /\ local = [r \in Locals |-> IF r \in Arguments THEN Argument(r) ELSE Nothing]
  /\ entry = IF "P" \in Present THEN {"P"} ELSE {"A"}
  /\ freed = {} /\ dropped = <<>> /\ how = "running"

-----------------------------------------------------------------------------
Now == Head(moves)
Doing(what) == moves # <<>> /\ Now.do = what
Continue ==
  /\ moves' = Tail(moves) /\ UNCHANGED job
  /\ how' = IF moves' = <<>> THEN "done" ELSE how

(* Overwrite slots j .. j + n - 1 of array a with f of their indices.      *)
Overwritten(a, j, n, f(_)) ==
  [mem EXCEPT ![a] = [i \in DOMAIN @ |-> IF i \in j .. j + n - 1 THEN f(i) ELSE @[i]]]

DoCopy ==
  /\ Doing("copy") /\ Continue
  /\ LET src(i) == mem[Now.from][i - Now.j + Now.i]
     IN  mem' = Overwritten(Now.to, Now.j, Now.n, src)
  /\ UNCHANGED <<len, local, entry, freed, dropped>>

DoZero ==
  /\ Doing("zero") /\ Continue
  /\ LET zeros(i) == Zeros
     IN  mem' = Overwritten(Now.to, Now.j, Now.n, zeros)
  /\ UNCHANGED <<len, local, entry, freed, dropped>>

DoRead ==
  /\ Doing("read") /\ Continue
  /\ local' = [local EXCEPT ![Now.r] = mem[Now.from][Now.i]]
  /\ UNCHANGED <<mem, len, entry, freed, dropped>>

DoWrite ==
  /\ Doing("write") /\ Continue
  /\ LET written(i) == local[Now.r]
     IN  mem' = Overwritten(Now.to, Now.j, 1, written)
  /\ local' = [local EXCEPT ![Now.r] = Nothing]
  /\ UNCHANGED <<len, entry, freed, dropped>>

DoSetLen ==
  /\ Doing("len") /\ Continue
  /\ len' = [len EXCEPT ![Now.node] = Now.n]
  /\ UNCHANGED <<mem, local, entry, freed, dropped>>

DoClone ==
  /\ Doing("clone") /\ Continue
  /\ local' = [local EXCEPT ![Now.r] = CloneOf(mem[Now.from][Now.i])]
  /\ UNCHANGED <<mem, len, entry, freed, dropped>>

DoDrop ==
  /\ Doing("drop") /\ Continue
  /\ dropped' = Append(dropped, local[Now.r])
  /\ local' = [local EXCEPT ![Now.r] = Nothing]
  /\ UNCHANGED <<mem, len, entry, freed>>

(* The loops of drop_in_place over the slots of a node: slot by slot, and  *)
(* at a slot array by array.                                               *)
SlotsLeft == Now.i < Len(Now.arrays) * len[Now.node]
SlotNow == mem[Now.arrays[(Now.i % Len(Now.arrays)) + 1]][Now.i \div Len(Now.arrays)]

DoDropSlots ==
  /\ Doing("drops")
  /\ IF SlotsLeft
     THEN /\ dropped' = Append(dropped, SlotNow)
          /\ moves' = [moves EXCEPT ![1].i = @ + 1]
          /\ UNCHANGED <<job, how>>
     ELSE UNCHANGED dropped /\ Continue
  /\ UNCHANGED <<mem, len, local, entry, freed>>

DoFree ==
  /\ Doing("free") /\ Continue
  /\ freed' = freed \cup {Now.node}
  /\ UNCHANGED <<mem, len, local, entry, dropped>>

(* A root is stored or taken, or a new leaf linked into the chain.         *)
DoEnter ==
  /\ Doing("enter") /\ Continue
  /\ entry' = Now.nodes
  /\ UNCHANGED <<mem, len, local, freed, dropped>>

(* User code panics.  What a drop was given is gone nevertheless, and      *)
(* unwinding drops what locals still own.                                  *)
Given == IF Now.do = "drops" THEN <<SlotNow>> ELSE <<>>
Unwound ==
  LET owners == SetToSeq({r \in Locals : local[r] # Nothing /\ ~IsPtr(local[r])})
  IN  [i \in DOMAIN owners |-> local[owners[i]]]

MayPanic ==
  /\ moves # <<>> /\ Now.do \in {"clone", "drop", "drops"} /\ Now.at \in PanicAt
  /\ Now.do = "drops" => SlotsLeft

PanicGoesOn ==     \* mutant: the panic is swallowed
  /\ MayPanic
  /\ dropped' = dropped \o Given /\ moves' = Tail(moves) /\ how' = "panicked"
  /\ UNCHANGED <<job, local, mem, len, entry, freed>>
Panic ==
  /\ MayPanic
  /\ dropped' = dropped \o Given \o Unwound
  /\ local' = [r \in Locals |-> Nothing]
  /\ moves' = <<>> /\ how' = "panicked"
  /\ UNCHANGED <<job, mem, len, entry, freed>>

Next ==
  \/ DoCopy \/ DoZero \/ DoRead \/ DoWrite \/ DoSetLen
  \/ DoClone \/ DoDrop \/ DoDropSlots \/ DoFree \/ DoEnter
  \/ Panic

Spec == Init /\ [][Next]_vars

-----------------------------------------------------------------------------
Stopped == moves = <<>>

(* The slots in use by nodes S, and what they hold.                        *)
SlotsOf(S) ==
  {s \in Arrays \X (0 .. MaxCap + 2) : s[1][1] \in S /\ s[2] \in InUse(s[1], len[s[1][1]])}
In(s) == mem[s[1]][s[2]]

Reachable ==
  entry \cup IF "P" \notin entry THEN {}
             ELSE {n \in Nodes : \E i \in 0 .. len["P"] : mem[C("P")][i] = NodePtr(n)}

TypeOK ==
  /\ job \in Jobs /\ len \in [Nodes -> 0 .. MaxCap]
  /\ entry \subseteq Nodes /\ freed \subseteq Nodes
  /\ how \in {"running", "done", "panicked"} /\ (how = "running") = ~Stopped
  /\ DOMAIN local = Locals /\ DOMAIN mem = Arrays

(* No move writes outside of its array, nor reads there, but for one: when *)
(* an entry leaves a full branch, the children are moved with one pointer  *)
(* more than there are, which the next move overwrites.  No index or count *)
(* is below zero either, which usize would take for a huge one.  Nothing   *)
(* in the code checks the bounds of its moves.                             *)
ReadsOneTooFar ==
  /\ job.p = job.bcap /\ Now.from = C("P") /\ Now.i + Now.n = Room(C("P")) + 1
  /\ moves[2] = Zero(C("P"), job.p, 1) /\ Now.to = C("P") /\ Now.j + Now.n = job.p + 1
MovesInArrays ==
  /\ ~Stopped /\ Now.do \in {"copy", "zero", "write"} =>
       {Now.j, Now.n} \subseteq Nat /\ Now.j + Now.n <= Room(Now.to)
  /\ ~Stopped /\ Now.do \in {"copy", "read", "clone"} =>
       /\ {Now.i, Now.n} \subseteq Nat
       /\ Now.i + Now.n <= Room(Now.from) \/ ReadsOneTooFar

(* No value and no child is lost: at every moment a copy is in memory or   *)
(* in a local until it is dropped, and when the procedure has returned or  *)
(* panicked it is where it will be found, in use by a block.               *)
Originals ==
  {Was(s[1], s[2]) : s \in {t \in Arrays \X (0 .. MaxCap) :
                       t[1][1] \in Present /\ First(t[1], t[2]) = Was(t[1], t[2])}}
  \cup {Argument(r) : r \in Arguments}
NothingLost ==
  LET slots == IF Stopped THEN SlotsOf(Nodes \ freed)
               ELSE {s \in Arrays \X (0 .. MaxCap) : s[1][1] \notin freed}
  IN  Originals \subseteq {In(s) : s \in slots} \cup {local[r] : r \in Locals}
                          \cup {dropped[i] : i \in DOMAIN dropped}

(* Whenever a caller sees the map again, after a panic of user code too,   *)
(* it reaches no freed block, every slot in use holds a value of its own,  *)
(* and none of these was dropped or is dropped a second time.              *)
OwnedOnce ==
  Stopped =>
    LET slots == SlotsOf(Reachable)
    IN  /\ Reachable \cap freed = {}
        /\ \A s \in slots : Held(In(s)) /\ In(s) \notin {dropped[i] : i \in DOMAIN dropped}
        /\ \A s, t \in slots : In(s) = In(t) => s = t
        /\ \A s \in slots, r \in Locals : In(s) # local[r]
        /\ IsInjective(dropped)

-----------------------------------------------------------------------------
(* A procedure that returns leaves the sequences that NodeOps and          *)
(* BPlusTree say it does, in the slots of the nodes.                       *)
Contents(a) == [i \in 1 .. Cardinality(InUse(a, len[a[1]])) |-> mem[a][i - 1]]
Old(a) == [i \in 1 .. Cardinality(InUse(a, Len0[a[1]])) |-> First(a, i - 1)]

SplitResult ==
  LET s == BranchSplit(Old(K("A")), Old(C("A")), job.idx, New("keys"), New("children"))
  IN  /\ Contents(K("A")) = s.lkeys /\ Contents(C("A")) = s.lchilds
      /\ Contents(K("B")) = s.rkeys /\ Contents(C("B")) = s.rchilds
      /\ s.promote \in {local["key"], local["promote"]}

Joined(a, b) == Contents(a) \o Contents(b) = Old(a) \o Old(b)

(* A borrow moves one entry from the one to the other, through the parent. *)
BorrowResult ==
  /\ len["A"] = IF job.a > job.b THEN job.a - 1 ELSE job.a + 1
  /\ len["A"] + len["B"] = job.a + job.b
  /\ Contents(C("P")) = Old(C("P"))
  /\ \A i \in 1 .. job.p : i # job.idx + 1 => Contents(K("P"))[i] = Old(K("P"))[i]
  /\ IF job.proc \in OnLeaves
     THEN /\ Joined(K("A"), K("B")) /\ Joined(V("A"), V("B"))
          /\ Contents(K("P"))[job.idx + 1] = CloneOf(Contents(K("B"))[1])
     ELSE /\ Contents(K("A")) \o <<Contents(K("P"))[job.idx + 1]>> \o Contents(K("B"))
               = Old(K("A")) \o <<Old(K("P"))[job.idx + 1]>> \o Old(K("B"))
          /\ Joined(C("A"), C("B"))

(* A merge leaves all in A, and P without the separator and without B.     *)
MergeResult ==
  /\ "B" \in freed
  /\ IF job.proc = "merge_branches"
     THEN /\ Contents(K("A")) = Old(K("A")) \o <<Old(K("P"))[job.idx + 1]>> \o Old(K("B"))
          /\ Contents(C("A")) = Old(C("A")) \o Old(C("B"))
     ELSE Contents(K("A")) = Old(K("A")) \o Old(K("B")) /\ Contents(V("A")) = Old(V("A")) \o Old(V("B"))
  /\ IF job.proc = "check_root_collapse"
     THEN entry = {"A"} /\ "P" \in freed
     ELSE /\ Contents(K("P")) = RemoveAt(Old(K("P")), job.idx + 1)
          /\ Contents(C("P")) = RemoveAt(Old(C("P")), job.idx + 2)

SlotsHoldResult ==
  how = "done" =>
    CASE job.proc = "insert_into_leaf_slot" ->
           /\ Contents(K("A")) = InsertAt(Old(K("A")), job.idx + 1, New("keys"))
           /\ Contents(V("A")) = InsertAt(Old(V("A")), job.idx + 1, New("vals"))
      [] job.proc = "leaf_replace" ->
           /\ Contents(K("A")) = Old(K("A"))
           /\ Contents(V("A")) = [Old(V("A")) EXCEPT ![job.idx + 1] = New("vals")]
           /\ local["old"] = Old(V("A"))[job.idx + 1]
      [] job.proc = "leaf_split" ->
           /\ Contents(K("A")) = LeafSplitLeft(Old(K("A")), job.idx, New("keys"))
           /\ Contents(V("A")) = LeafSplitLeft(Old(V("A")), job.idx, New("vals"))
           /\ Contents(K("B")) = LeafSplitRight(Old(K("A")), job.idx, New("keys"))
           /\ Contents(V("B")) = LeafSplitRight(Old(V("A")), job.idx, New("vals"))
           /\ local["sep_key"] = CloneOf(Contents(K("B"))[1])
      [] job.proc = "branch_insert" ->
           /\ Contents(K("A")) = InsertAt(Old(K("A")), job.idx + 1, New("keys"))
           /\ Contents(C("A")) = InsertAt(Old(C("A")), job.idx + 2, New("children"))
      [] job.proc = "branch_insert_and_split" -> SplitResult
      [] job.proc = "leaf_remove" ->
           /\ Contents(K("A")) = RemoveAt(Old(K("A")), job.idx + 1)
           /\ Contents(V("A")) = RemoveAt(Old(V("A")), job.idx + 1)
           /\ local["value"] = Old(V("A"))[job.idx + 1]
      [] job.proc = "free_tree" -> freed = {"A"} /\ Len(dropped) = 2 * job.a
      [] job.proc \in {"merge_leaves", "merge_branches", "check_root_collapse"} -> MergeResult
      [] OTHER -> BorrowResult
=============================================================================
