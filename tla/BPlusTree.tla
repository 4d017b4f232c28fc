----------------------------- MODULE BPlusTree ------------------------------
(***************************************************************************)
(* BPlusTreeMap: the tree of heap blocks, and every step of the recursive  *)
(* operations that read and rewrite it.                                    *)
(*                                                                         *)
(* A block is a node.  Each field of a block is a variable, a function on  *)
(* nodes: the header's tag, the key slots in use, the value slots or child *)
(* pointers, and a leaf's two sibling pointers.  A header's len is the     *)
(* length of its key sequence.                                             *)
(*                                                                         *)
(* A call is a descent from the root that pushes one frame per branch, a   *)
(* step at the leaf, and one step per frame on the way back: insert_rec    *)
(* carries a split up, remove_rec repairs each branch it returns through.  *)
(* Freeing a tree is the recursion of free_tree_no_drop.  One step is what *)
(* the code does between two calls or returns of these recursions.         *)
(*                                                                         *)
(* The pool of blocks is finite: when it is used up, allocation fails and  *)
(* the code's .expect panics; an allocator may also fail before that.      *)
(* After a panic only Drop runs.                                           *)
(***************************************************************************)
EXTENDS NodeOps

CONSTANTS
  Key,          \* keys, ordered by <
  Val,          \* values
  None,         \* Option::None for a value
  Node,         \* addresses a block may have
  Null,         \* the null pointer
  LeafCap,      \* items in a leaf: leaf_layout.cap
  BranchCap,    \* keys in a branch: branch_layout.cap
  MayFail,      \* may an allocation fail while the pool has a block?
  Ops           \* the operations callers use

ASSUME KeyAssumption   == Key \subseteq Int /\ Key # {}
ASSUME ValAssumption   == Val # {} /\ None \notin Val
ASSUME NodeAssumption  == Node # {} /\ Null \notin Node
ASSUME CapAssumption   == LeafCap \in Nat \ {0} /\ BranchCap \in Nat \ {0}
ASSUME MayFailAssumption == MayFail \in BOOLEAN
ASSUME OpsAssumption   ==
  Ops \subseteq {"insert", "remove", "get", "get_mut", "clear", "drop"}

VARIABLES
  root,         \* self.root
  tag,          \* per block: "free", "leaf" or "branch"
  keys,         \* per block: the keys of slots 0 .. len - 1
  vals,         \* per leaf: the values of slots 0 .. len - 1
  children,     \* per branch: the child pointers 0 .. len
  next, prev,   \* per leaf: the sibling pointers
  pc,           \* where the operation in progress is
  op, key, val, \* the operation and its arguments
  cur,          \* the node the recursion is at, Null for none
  path,         \* the frames above it, each a branch and a child position
  sep, right,   \* InsertResult::Split on its way up, right = Null for none
  ret           \* the result, until the next call

heap  == <<root, tag, keys, vals, children, next, prev>>
call  == <<op, key, val>>
split == <<sep, right>>
vars  == <<heap, pc, call, cur, path, split, ret>>

k0 == CHOOSE k \in Key : TRUE
v0 == CHOOSE v \in Val : TRUE
n0 == CHOOSE n \in Node : TRUE

PCs == {"idle",      \* between calls
        "descend",   \* on the way down, or at the leaf
        "split",     \* insert_rec returned: a Split may be on its way up
        "fix",       \* remove_rec returned Some: branches are repaired
        "free",      \* free_tree_no_drop
        "oom",       \* an allocation failed and .expect panicked
        "overflow",  \* a merge check failed and panicked
        "dropped"}   \* the map is gone

Frame == [node : Node, pos : Nat]

TypeOK ==
  /\ root \in Node \cup {Null}
  /\ tag \in [Node -> {"free", "leaf", "branch"}]
  /\ keys \in [Node -> Seq(Key)]
  /\ vals \in [Node -> Seq(Val)]
  /\ children \in [Node -> Seq(Node)]
  /\ next \in [Node -> Node \cup {Null}]
  /\ prev \in [Node -> Node \cup {Null}]
  /\ pc \in PCs
  /\ op \in Ops \cup {"none", "drop"} /\ key \in Key /\ val \in Val
  /\ cur \in Node \cup {Null}
  /\ path \in Seq(Frame)
  /\ sep \in Key /\ right \in Node \cup {Null}
  /\ ret \in Val \cup {None}

-----------------------------------------------------------------------------
(* Blocks.                                                                 *)

Live == {n \in Node : tag[n] # "free"}

CanAlloc == Live # Node

NewNode == CHOOSE n \in Node : tag[n] = "free"

(* Contents of a block that is not in use.                                 *)
Blank(f, n) == [f EXCEPT ![n] = <<>>]

MinLen(n) ==
  IF tag[n] = "leaf" THEN LeafCap \div 2
  ELSE IF BranchCap <= 2 THEN 1 ELSE BranchCap \div 2

(* free_leaf_node's unlinking, in one direction: the neighbours of the     *)
(* leaves in gone bypass them, and a block that is gone points nowhere.    *)
UnlinkedOnly(to, fro, gone) ==    \* mutant: the neighbours keep pointing at it
  [n \in Node |-> IF n \in gone THEN Null ELSE to[n]]
Unlinked(to, fro, gone) ==
  [n \in Node |->
     IF n \in gone THEN Null
     ELSE IF \E g \in gone : fro[g] = n THEN to[CHOOSE g \in gone : fro[g] = n]
     ELSE to[n]]

(* Frames of the recursion.                                                *)
Top     == Last(path)
Parent  == Top.node
PopPath == path' = Front(path)

(* The call is over, or its stack was unwound: only the result stays.      *)
Leave(where, result) ==
  /\ pc' = where /\ ret' = result
  /\ op' = "none" /\ key' = k0 /\ val' = v0
  /\ cur' = Null /\ path' = <<>>
  /\ sep' = k0 /\ right' = Null

Return(result) == Leave("idle", result)

-----------------------------------------------------------------------------
(* Construction: with_budgets starts with no root, new with an empty leaf. *)
Init ==
  /\ \/ root = Null /\ tag = [n \in Node |-> "free"]
     \/ root = n0 /\ tag = [n \in Node |-> IF n = n0 THEN "leaf" ELSE "free"]
  /\ keys = [n \in Node |-> <<>>]
  /\ vals = [n \in Node |-> <<>>]
  /\ children = [n \in Node |-> <<>>]
  /\ next = [n \in Node |-> Null]
  /\ prev = [n \in Node |-> Null]
  /\ pc = "idle" /\ op = "none" /\ key = k0 /\ val = v0
  /\ cur = Null /\ path = <<>> /\ sep = k0 /\ right = Null
  /\ ret = None

-----------------------------------------------------------------------------
(* Calls, and the descent they share.                                      *)

Call(o, k, v) ==
  /\ pc = "idle" /\ o \in Ops
  /\ pc' = "descend" /\ op' = o /\ key' = k /\ val' = v
  /\ cur' = root /\ ret' = None
  /\ UNCHANGED <<heap, path, split>>

(* A branch: child_for_key chooses the child, the recursion enters it.     *)
(* Mutant: an equal separator leads to its left, Ok(i) => i.               *)
DescendLeftOfEqual ==
  /\ pc = "descend" /\ cur # Null /\ tag[cur] = "branch"
  /\ LET pos == Rank(keys[cur], key - 1) + 1
     IN  /\ path' = Append(path, [node |-> cur, pos |-> pos])
         /\ cur' = children[cur][pos]
  /\ UNCHANGED <<heap, pc, call, split, ret>>

Descend ==
  /\ pc = "descend" /\ cur # Null /\ tag[cur] = "branch"
  /\ LET pos == Rank(keys[cur], key) + 1
     IN  /\ path' = Append(path, [node |-> cur, pos |-> pos])
         /\ cur' = children[cur][pos]
  /\ UNCHANGED <<heap, pc, call, split, ret>>

AtLeaf(o) == pc = "descend" /\ op = o /\ cur # Null /\ tag[cur] = "leaf"

Hit == Found(keys[cur], key)

(* The position of key in the leaf, when it is there.                      *)
Slot == Rank(keys[cur], key)

(* get, get_mut and remove of a map without a root.                        *)
MissEmpty ==
  /\ pc = "descend" /\ op # "insert" /\ cur = Null
  /\ Return(None)
  /\ UNCHANGED heap

(* get, contains_key and the others that go through leaf_search.           *)
Get ==
  /\ AtLeaf("get")
  /\ Return(IF Hit THEN vals[cur][Slot] ELSE None)
  /\ UNCHANGED heap

(* get_mut, and the assignment its caller makes through the reference.     *)
GetMut ==
  /\ AtLeaf("get_mut")
  /\ IF Hit THEN /\ Return(vals[cur][Slot])
                 /\ vals' = [vals EXCEPT ![cur][Slot] = val]
            ELSE Return(None) /\ UNCHANGED vals
  /\ UNCHANGED <<root, tag, keys, children, next, prev>>

-----------------------------------------------------------------------------
(* insert.                                                                 *)

(* insert on a map without a root.                                         *)
(* Mutant: self.root is not assigned.                                      *)
AllocRootUnset ==
  /\ pc = "descend" /\ op = "insert" /\ cur = Null /\ CanAlloc
  /\ cur' = NewNode
  /\ tag' = [tag EXCEPT ![NewNode] = "leaf"]
  /\ UNCHANGED <<root, keys, vals, children, next, prev, pc, call, path, split, ret>>

AllocRoot ==
  /\ pc = "descend" /\ op = "insert" /\ cur = Null /\ CanAlloc
  /\ root' = NewNode /\ cur' = NewNode
  /\ tag' = [tag EXCEPT ![NewNode] = "leaf"]
  /\ UNCHANGED <<keys, vals, children, next, prev, pc, call, path, split, ret>>

(* Mutant: the old value is read out of its slot, the new one not written. *)
InsertReplaceMovesOut ==
  /\ AtLeaf("insert") /\ Hit
  /\ vals' = [vals EXCEPT ![cur][Slot] = None]
  /\ Return(vals[cur][Slot])
  /\ UNCHANGED <<root, tag, keys, children, next, prev>>

InsertReplace ==
  /\ AtLeaf("insert") /\ Hit
  /\ vals' = [vals EXCEPT ![cur][Slot] = val]
  /\ Return(vals[cur][Slot])
  /\ UNCHANGED <<root, tag, keys, children, next, prev>>

InsertIntoLeafSlot ==
  /\ AtLeaf("insert") /\ ~Hit /\ Len(keys[cur]) < LeafCap
  /\ keys' = [keys EXCEPT ![cur] = InsertAt(@, Slot + 1, key)]
  /\ vals' = [vals EXCEPT ![cur] = InsertAt(@, Slot + 1, val)]
  /\ Return(None)
  /\ UNCHANGED <<root, tag, children, next, prev>>

(* A full leaf: a right sibling takes the upper half and joins the chain,  *)
(* and its first key goes up as the separator.                             *)
SplitLeaf ==
  /\ AtLeaf("insert") /\ ~Hit /\ Len(keys[cur]) >= LeafCap /\ CanAlloc
  /\ LET n     == NewNode
         upper == LeafSplitRight(keys[cur], Slot, key)
     IN  /\ tag' = [tag EXCEPT ![n] = "leaf"]
         /\ keys' = [keys EXCEPT ![cur] = LeafSplitLeft(@, Slot, key),
                                 ![n] = upper]
         /\ vals' = [vals EXCEPT ![cur] = LeafSplitLeft(@, Slot, val),
                                 ![n] = LeafSplitRight(vals[cur], Slot, val)]
         /\ next' = [next EXCEPT ![cur] = n, ![n] = next[cur]]
         /\ prev' = [m \in Node |-> IF m = n THEN cur
                                    ELSE IF m = next[cur] THEN n
                                    ELSE prev[m]]
         /\ right' = n /\ sep' = upper[1]
  /\ pc' = "split" /\ cur' = Null
  /\ UNCHANGED <<root, children, call, path, ret>>

BranchFullLate == Len(keys[Parent]) > BranchCap   \* mutant: cur_len <= cap
BranchFull == Len(keys[Parent]) >= BranchCap

(* insert_rec with a Split from the child, and room for it.                *)
InsertIntoBranch ==
  /\ pc = "split" /\ path # <<>> /\ ~BranchFull
  /\ keys' = [keys EXCEPT ![Parent] = InsertAt(@, Top.pos, sep)]
  /\ children' = [children EXCEPT ![Parent] = InsertAt(@, Top.pos + 1, right)]
  /\ Return(ret)
  /\ UNCHANGED <<root, tag, vals, next, prev>>

BranchInsertAndSplit ==
  /\ pc = "split" /\ path # <<>> /\ BranchFull /\ CanAlloc
  /\ LET n == NewNode
         s == BranchSplit(keys[Parent], children[Parent], Top.pos - 1, sep, right)
     IN  /\ tag' = [tag EXCEPT ![n] = "branch"]
         /\ keys' = [keys EXCEPT ![Parent] = s.lkeys, ![n] = s.rkeys]
         /\ children' = [children EXCEPT ![Parent] = s.lchilds, ![n] = s.rchilds]
         /\ sep' = s.promote /\ right' = n
  /\ PopPath
  /\ UNCHANGED <<root, vals, next, prev, pc, call, cur, ret>>

(* The split reached the root: the tree grows by a level.                  *)
(* Mutant: it need not have reached the root.                              *)
NewRootAnywhere ==
  /\ pc = "split" /\ CanAlloc
  /\ LET n == NewNode
     IN  /\ tag' = [tag EXCEPT ![n] = "branch"]
         /\ keys' = [keys EXCEPT ![n] = <<sep>>]
         /\ children' = [children EXCEPT ![n] = <<root, right>>]
         /\ root' = n
  /\ Return(ret)
  /\ UNCHANGED <<vals, next, prev>>

NewRoot ==
  /\ pc = "split" /\ path = <<>> /\ CanAlloc
  /\ LET n == NewNode
     IN  /\ tag' = [tag EXCEPT ![n] = "branch"]
         /\ keys' = [keys EXCEPT ![n] = <<sep>>]
         /\ children' = [children EXCEPT ![n] = <<root, right>>]
         /\ root' = n
  /\ Return(ret)
  /\ UNCHANGED <<vals, next, prev>>

(* The steps above that need a block, when they are given none.            *)
NeedsBlock ==
  \/ pc = "descend" /\ op = "insert" /\ cur = Null
  \/ AtLeaf("insert") /\ ~Hit /\ Len(keys[cur]) >= LeafCap
  \/ pc = "split" /\ (path # <<>> => BranchFull)

(* Mutant: the entries that are to move are moved before the allocation.   *)
AllocFailsLate ==
  /\ NeedsBlock /\ (MayFail \/ ~CanAlloc)
  /\ \/ /\ pc = "split" /\ path # <<>>
        /\ keys' = [keys EXCEPT ![Parent] = SubSeq(@, 1, LeftKeys(@))]
        /\ children' = [children EXCEPT
                          ![Parent] = SubSeq(@, 1, LeftKeys(keys[Parent]) + 1)]
        /\ UNCHANGED vals
     \/ /\ pc = "descend" /\ cur # Null
        /\ keys' = [keys EXCEPT ![cur] = SubSeq(@, 1, LeftKeep(@, Slot))]
        /\ vals' = [vals EXCEPT ![cur] = SubSeq(@, 1, LeftKeep(@, Slot))]
        /\ UNCHANGED children
     \/ /\ cur = Null /\ path = <<>>
        /\ UNCHANGED <<keys, vals, children>>
  /\ Leave("oom", None)
  /\ UNCHANGED <<root, tag, next, prev>>

AllocFails ==
  /\ NeedsBlock /\ (MayFail \/ ~CanAlloc)
  /\ Leave("oom", None)
  /\ UNCHANGED heap

-----------------------------------------------------------------------------
(* remove.                                                                 *)

RemoveMiss ==
  /\ AtLeaf("remove") /\ ~Hit
  /\ Return(None)
  /\ UNCHANGED heap

RemoveHit ==
  /\ AtLeaf("remove") /\ Hit
  /\ keys' = [keys EXCEPT ![cur] = RemoveAt(@, Slot)]
  /\ vals' = [vals EXCEPT ![cur] = RemoveAt(@, Slot)]
  /\ ret' = vals[cur][Slot]
  /\ pc' = "fix" /\ cur' = Null
  /\ UNCHANGED <<root, tag, children, next, prev, call, path, split>>

(* fix_branch_child, for the branch of the top frame and the child the     *)
(* removal went through.                                                   *)
Seps   == Len(keys[Parent])
FixPos == IF Top.pos <= Seps + 1 THEN Top.pos ELSE Seps + 1
Child(i) == children[Parent][i]
Fixed    == Child(FixPos)

Fixing    == pc = "fix" /\ path # <<>>
Underfull == Seps > 0 /\ Len(keys[Fixed]) < MinLen(Fixed)

(* A sibling lends an entry when it has one to spare; a leaf borrows from  *)
(* leaves only.  The left sibling is asked first.                          *)
LendsLate(s)  == Len(keys[s]) > MinLen(Fixed) + 1    \* mutant: left_len > min + 1
CanLend(s) ==
  /\ Len(keys[s]) > MinLen(Fixed)
  /\ tag[Fixed] = "leaf" => tag[s] = "leaf"
LeftLends  == FixPos > 1 /\ CanLend(Child(FixPos - 1))
RightLends == FixPos <= Seps /\ CanLend(Child(FixPos + 1))

FixNothing ==
  /\ Fixing /\ ~Underfull
  /\ PopPath
  /\ UNCHANGED <<heap, pc, call, cur, split, ret>>

BorrowFromLeftLeaf ==
  /\ Fixing /\ Underfull /\ tag[Fixed] = "leaf" /\ LeftLends
  /\ LET left == Child(FixPos - 1)
         sepPos == FixPos - 1
     IN  /\ keys' = [keys EXCEPT ![left] = Front(@),
                                 ![Fixed] = <<Last(keys[left])>> \o @,
                                 ![Parent][sepPos] = Last(keys[left])]
         /\ vals' = [vals EXCEPT ![left] = Front(@),
                                 ![Fixed] = <<Last(vals[left])>> \o @]
  /\ PopPath
  /\ UNCHANGED <<root, tag, children, next, prev, pc, call, cur, split, ret>>

(* Mutant: the separator stays as it was.                                  *)
BorrowRightKeepsSep ==
  /\ Fixing /\ Underfull /\ tag[Fixed] = "leaf" /\ ~LeftLends /\ RightLends
  /\ LET rsib == Child(FixPos + 1)
     IN  /\ keys' = [keys EXCEPT ![rsib] = Tail(@),
                                 ![Fixed] = Append(@, Head(keys[rsib]))]
         /\ vals' = [vals EXCEPT ![rsib] = Tail(@),
                                 ![Fixed] = Append(@, Head(vals[rsib]))]
  /\ PopPath
  /\ UNCHANGED <<root, tag, children, next, prev, pc, call, cur, split, ret>>

BorrowFromRightLeaf ==
  /\ Fixing /\ Underfull /\ tag[Fixed] = "leaf" /\ ~LeftLends /\ RightLends
  /\ LET rsib == Child(FixPos + 1)
     IN  /\ keys' = [keys EXCEPT ![rsib] = Tail(@),
                                 ![Fixed] = Append(@, Head(keys[rsib])),
                                 ![Parent][FixPos] = keys[rsib][2]]
         /\ vals' = [vals EXCEPT ![rsib] = Tail(@),
                                 ![Fixed] = Append(@, Head(vals[rsib]))]
  /\ PopPath
  /\ UNCHANGED <<root, tag, children, next, prev, pc, call, cur, split, ret>>

(* A branch borrows through the parent: the separator comes down and the   *)
(* sibling's outermost key takes its place.                                *)
BorrowFromLeftBranch ==
  /\ Fixing /\ Underfull /\ tag[Fixed] = "branch" /\ LeftLends
  /\ LET left == Child(FixPos - 1)
         sepPos == FixPos - 1
     IN  /\ keys' = [keys EXCEPT ![left] = Front(@),
                                 ![Fixed] = <<keys[Parent][sepPos]>> \o @,
                                 ![Parent][sepPos] = Last(keys[left])]
         /\ children' = [children EXCEPT ![left] = Front(@),
                                         ![Fixed] = <<Last(children[left])>> \o @]
  /\ PopPath
  /\ UNCHANGED <<root, tag, vals, next, prev, pc, call, cur, split, ret>>

BorrowFromRightBranch ==
  /\ Fixing /\ Underfull /\ tag[Fixed] = "branch" /\ ~LeftLends /\ RightLends
  /\ LET rsib == Child(FixPos + 1)
     IN  /\ keys' = [keys EXCEPT ![rsib] = Tail(@),
                                 ![Fixed] = Append(@, keys[Parent][FixPos]),
                                 ![Parent][FixPos] = Head(keys[rsib])]
         /\ children' = [children EXCEPT
                           ![rsib] = Tail(@),
                           ![Fixed] = Append(@, Head(children[rsib]))]
  /\ PopPath
  /\ UNCHANGED <<root, tag, vals, next, prev, pc, call, cur, split, ret>>

(* No sibling lends: the child merges with its left sibling, the first     *)
(* child with its right one.  into takes the entries of from, which is     *)
(* freed, and the parent loses the separator between them.                 *)
Merging  == Fixing /\ Underfull /\ ~LeftLends /\ ~RightLends
MergePos == IF FixPos > 1 THEN FixPos - 1 ELSE FixPos
FromIsFixed == Fixed      \* mutant: it is always the child that goes
Into     == Child(MergePos)
From     == Child(MergePos + 1)

MergeFits ==
  IF tag[Fixed] = "leaf"
  THEN Len(keys[Into]) + Len(keys[From]) <= LeafCap
  ELSE Len(keys[Into]) + 1 + Len(keys[From]) <= BranchCap

MergeLeaves ==
  /\ Merging /\ MergeFits /\ tag[Fixed] = "leaf"
  /\ tag' = [tag EXCEPT ![From] = "free"]
  /\ keys' = [keys EXCEPT ![Into] = @ \o keys[From], ![From] = <<>>,
                          ![Parent] = RemoveAt(@, MergePos)]
  /\ vals' = [vals EXCEPT ![Into] = @ \o vals[From], ![From] = <<>>]
  /\ children' = [children EXCEPT ![Parent] = RemoveAt(@, MergePos + 1)]
  /\ next' = Unlinked(next, prev, {From})
  /\ prev' = Unlinked(prev, next, {From})
  /\ PopPath
  /\ UNCHANGED <<root, pc, call, cur, split, ret>>

MergeBranches ==
  /\ Merging /\ MergeFits /\ tag[Fixed] = "branch"
  /\ tag' = [tag EXCEPT ![From] = "free"]
  /\ keys' = [keys EXCEPT ![Into] = @ \o <<keys[Parent][MergePos]>> \o keys[From],
                          ![From] = <<>>, ![Parent] = RemoveAt(@, MergePos)]
  /\ children' = [children EXCEPT ![Into] = @ \o children[From], ![From] = <<>>,
                                  ![Parent] = RemoveAt(@, MergePos + 1)]
  /\ PopPath
  /\ UNCHANGED <<root, vals, next, prev, pc, call, cur, split, ret>>

(* The capacity checks of the merges panic before anything is moved.       *)
MergePanics ==
  /\ Merging /\ ~MergeFits
  /\ Leave("overflow", None)
  /\ UNCHANGED heap

(* check_root_collapse, once every branch of the path was repaired.  Its   *)
(* caller asks for it at two separators or fewer, and it acts at one or    *)
(* none: empty leaves go, and the root goes when one child is left, or two *)
(* leaves that fit in one.                                                 *)
Repaired  == pc = "fix" /\ path = <<>>
RootLow   == tag[root] = "branch" /\ Len(keys[root]) <= 1
SurvivorsEmpty == {i \in DOMAIN children[root] :      \* mutant: len != 0
                     \/ tag[children[root][i]] = "branch"
                     \/ keys[children[root][i]] = <<>>}
Survivors == {i \in DOMAIN children[root] :
                \/ tag[children[root][i]] = "branch"
                \/ keys[children[root][i]] # <<>>}

TwoLeavesFit ==
  /\ Survivors = {1, 2}
  /\ \A i \in {1, 2} : tag[children[root][i]] = "leaf"
  /\ Len(keys[children[root][1]]) + Len(keys[children[root][2]]) <= LeafCap

RemoveReturns ==
  /\ Repaired /\ (RootLow => Survivors = {1, 2} /\ ~TwoLeavesFit)
  /\ Return(ret)
  /\ UNCHANGED heap

(* A single child is left, or none: it becomes the root.                   *)
CollapseRoot ==
  /\ Repaired /\ RootLow /\ Survivors # {1, 2}
  /\ LET kept == IF Survivors = {} THEN Null
                 ELSE children[root][CHOOSE i \in Survivors : TRUE]
         gone == {children[root][i] : i \in DOMAIN children[root] \ Survivors}
     IN  /\ root' = kept
         /\ tag' = [n \in Node |-> IF n \in gone \cup {root} THEN "free"
                                                            ELSE tag[n]]
         /\ next' = Unlinked(next, prev, gone)
         /\ prev' = [n \in Node |-> IF n = kept THEN Null
                                    ELSE Unlinked(prev, next, gone)[n]]
  /\ keys' = Blank(keys, root) /\ children' = Blank(children, root)
  /\ Return(ret)
  /\ UNCHANGED vals

(* Two leaves are left and fit in one block.                               *)
CollapseByMerging ==
  /\ Repaired /\ RootLow /\ TwoLeavesFit
  /\ LET kept == children[root][1]
         gone == children[root][2]
     IN  /\ root' = kept
         /\ tag' = [tag EXCEPT ![gone] = "free", ![root] = "free"]
         /\ keys' = [keys EXCEPT ![kept] = @ \o keys[gone], ![gone] = <<>>,
                                 ![root] = <<>>]
         /\ vals' = [vals EXCEPT ![kept] = @ \o vals[gone], ![gone] = <<>>]
         /\ next' = Unlinked(next, prev, {gone})
         /\ prev' = [Unlinked(prev, next, {gone}) EXCEPT ![kept] = Null]
  /\ children' = Blank(children, root)
  /\ Return(ret)

-----------------------------------------------------------------------------
(* clear, and Drop, which also runs when the stack of a panic unwinds.     *)

Discard(o) ==
  /\ \/ pc = "idle" /\ o \in Ops
     \/ pc \in {"oom", "overflow"} /\ o = "drop"
  /\ pc' = "free" /\ op' = o
  /\ root' = Null /\ cur' = root /\ ret' = None
  /\ UNCHANGED <<tag, keys, vals, children, next, prev, key, val, path, split>>

(* A leaf: its items are dropped and the block goes, unlinked or not.      *)
FreeLeaf ==
  /\ pc = "free" /\ cur # Null /\ tag[cur] = "leaf"
  /\ tag' = [tag EXCEPT ![cur] = "free"]
  /\ keys' = Blank(keys, cur) /\ vals' = Blank(vals, cur)
  /\ next' = [next EXCEPT ![cur] = Null]
  /\ prev' = [prev EXCEPT ![cur] = Null]
  /\ cur' = Null
  /\ UNCHANGED <<root, children, pc, call, path, split, ret>>

(* A branch frees its children first, from the left.                       *)
(* Mutant: its own block goes first.                                       *)
FreeDescendEagerly ==
  /\ pc = "free" /\ cur # Null /\ tag[cur] = "branch"
  /\ path' = Append(path, [node |-> cur, pos |-> 1])
  /\ cur' = children[cur][1] /\ tag' = [tag EXCEPT ![cur] = "free"]
  /\ UNCHANGED <<root, keys, vals, children, next, prev, pc, call, split, ret>>

FreeDescend ==
  /\ pc = "free" /\ cur # Null /\ tag[cur] = "branch"
  /\ path' = Append(path, [node |-> cur, pos |-> 1])
  /\ cur' = children[cur][1]
  /\ UNCHANGED <<heap, pc, call, split, ret>>

MoreChildrenButLast == Top.pos < Len(keys[Parent])   \* mutant: 0..len
MoreChildren == Top.pos <= Len(keys[Parent])

FreeNextChild ==
  /\ pc = "free" /\ cur = Null /\ path # <<>> /\ MoreChildren
  /\ path' = [path EXCEPT ![Len(path)].pos = @ + 1]
  /\ cur' = children[Parent][Top.pos + 1]
  /\ UNCHANGED <<heap, pc, call, split, ret>>

(* Then its separators are dropped and its own block goes.                 *)
FreeBranch ==
  /\ pc = "free" /\ cur = Null /\ path # <<>> /\ ~MoreChildren
  /\ tag' = [tag EXCEPT ![Parent] = "free"]
  /\ keys' = Blank(keys, Parent) /\ children' = Blank(children, Parent)
  /\ PopPath
  /\ UNCHANGED <<root, vals, next, prev, pc, call, cur, split, ret>>

FreeDone ==
  /\ pc = "free" /\ cur = Null /\ path = <<>>
  /\ Leave(IF op = "drop" THEN "dropped" ELSE "idle", None)
  /\ UNCHANGED heap

-----------------------------------------------------------------------------
(* The program's own steps: a call that was made runs to its end.          *)

InsertStep ==
  \/ AllocRoot \/ InsertReplace \/ InsertIntoLeafSlot \/ SplitLeaf
  \/ InsertIntoBranch \/ BranchInsertAndSplit \/ NewRoot \/ AllocFails

RemoveStep ==
  \/ RemoveMiss \/ RemoveHit \/ FixNothing
  \/ BorrowFromLeftLeaf \/ BorrowFromRightLeaf \/ MergeLeaves
  \/ BorrowFromLeftBranch \/ BorrowFromRightBranch \/ MergeBranches
  \/ MergePanics \/ RemoveReturns \/ CollapseRoot \/ CollapseByMerging

FreeStep ==
  FreeLeaf \/ FreeDescend \/ FreeNextChild \/ FreeBranch \/ FreeDone

Step ==
  Descend \/ MissEmpty \/ Get \/ GetMut \/ InsertStep \/ RemoveStep \/ FreeStep

Next ==
  \/ \E k \in Key, v \in Val : Call("insert", k, v) \/ Call("get_mut", k, v)
  \/ \E k \in Key : Call("remove", k, v0) \/ Call("get", k, v0)
  \/ Discard("clear") \/ Discard("drop")
  \/ Step

(* Nothing blocks or preempts the one thread that runs a call.             *)
Fairness == WF_vars(Step)

Spec == Init /\ [][Next]_vars /\ Fairness
=============================================================================
