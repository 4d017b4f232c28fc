# A TLA+ development of BPlusTreeMap

This directory models `BPlusTreeMap<K, V>` (crate sources in `src/src`): a B+ tree
kept in raw heap blocks, with recursive insertion and removal, leaves chained in
both directions, and hand-written memory management. The program is sequential.
What makes it hard is not concurrency but long sequences of legal calls, splits and
repairs that touch a node, its parent and two neighbours at once, pointers that must
never outlive their block, allocation that may fail between two halves of one
operation, and capacities small enough for the arithmetic of "half" to degenerate.

## Inventory

| Component | State | Operations | Hard behaviour | Modelled by |
|---|---|---|---|---|
| Insert and splits (`insert.rs`) | `root`; blocks: tag, len, keys, values, children, next, prev | `insert`, `batch_insert`, `insert_rec`, `leaf_insert_or_split`, `branch_insert_and_split` | cut points for every insertion position, three cases of a branch split, allocation failing after the leaf below was split | `NodeOps`, `BPlusTree` |
| Lookup (`get.rs`, `common.rs`) | none of its own | `get`, `get_mut`, `contains_key`, `get_many`, ... | keys equal to a separator | `BPlusTree` |
| Removal (`delete.rs`) | as insert | `remove`, `fix_branch_child`, borrows, merges, `check_root_collapse` | which sibling, strict or not strict minima, unlinking from the chain, collapse of the root, merges that do not fit | `BPlusTree` |
| Construction, `clear`, `Drop` (`lib.rs`) | `root`, the two layouts | `with_budgets`, `with_cache_lines`, `new`, `clear`, `drop`, `free_tree_no_drop` | capacities and budgets at their limits, freeing every block once, also after a panic | `Construction`, `BPlusTree` |
| Invariant checker (`common.rs`) | none | `check_invariants_detailed`, `validate_*`, `leaf_count` | it does not look at depth, nor at blocks that do not hang from the root | `BPlusTreeProps`, `BPlusTreeOrder` |
| Block allocation (`node_alloc.rs`) | the heap | `alloc_*_block`, `init_*_block`, `dealloc_raw` | failure; writes to a fresh block | pool in `BPlusTree`, sizes in `Construction` |
| Iterators (`iterate.rs`) | front and back leaf and index, bounds, `remaining` | `next`, `next_back`, `range`, `items_range` | which leaf a bound leads to, empty leaves, the lazy start, the two ends | `Items` |
| Byte layouts (`layout.rs`) | offsets, capacities | `compute`, `compute_for_cap`, `carve_*` | alignment, tiny budgets, `u16` | `Layout`, `Construction` |
| Slots (`common.rs`, and every `ptr::` call of `insert.rs`, `delete.rs`) | which slots hold a value, which locals own one | `read_kv_at`, `write_kv_at`, `shift_*`, `move_kv_at`, bulk copies | double drop, loss, a panic of `Clone` or `Drop` half way, copies past an array | `Slots` |
| Callers that catch a panic | as insert and removal | any call after the panic | a half that hangs in the chain only, branches without a separator | `AfterPanic` |
| Errors, compatibility (`lib.rs`), benches (`src/bin`), Lean files | none | wrappers and timers | none | out of scope |

Components interact through the tree itself: `insert` and `remove` own `&mut self` and
rewrite blocks; lookups and iterators borrow it and follow child and sibling pointers;
`Drop` runs on whatever state the last operation, or its panic, left behind.

What makes each component correct: the map holds exactly what was inserted and not
removed (`OrderedMap`); the tree is a search tree with bounded and, apart from the
root, minimally filled nodes, all leaves equally deep; the chain threads the leaves
in key order; every live block has one owner and every pointer leads to a live block;
no write leaves a block; nothing leaks; a failed allocation loses no more than the
subtree it was for.

## Modules

* `OrderedMap` is the abstract specification: a call is made, takes effect at one
  instant, and returns the value its key had. It may be cut short by a panic, having
  taken effect wholly or not at all.
* `NodeOps` has the pure operators: the rank a search computes (`Rank`, `Found`), the
  cut of a full leaf (`LeafSplitLeft`, `LeafSplitRight`) and of a full branch
  (`BranchSplit`), each next to what it must do (`LeafSplitCuts`, `BranchSplitCuts`).
* `NodeOpsCheck` enumerates full nodes, keys and child positions for TLC.
* `BPlusTree` is the tree. A block is an address in `Node`; each header field or array
  is a variable, a function on `Node`. The stack of the recursion is the variables
  `pc`, `cur` and `path` (one frame per branch with the chosen child position), so one
  step is what the code does between two recursive calls or returns: `Descend` per
  level, one action at the leaf (`InsertReplace`, `InsertIntoLeafSlot`, `SplitLeaf`,
  `RemoveHit`, `Get`, ...), one per frame on the way back (`InsertIntoBranch`,
  `BranchInsertAndSplit`, `BorrowFrom...`, `MergeLeaves`, `MergeBranches`, ...), and at
  the root `NewRoot`, `CollapseRoot`, `CollapseByMerging`. `sep` and `right` are
  `InsertResult::Split` on its way up. `Discard` takes the root for `clear` and
  `Drop`, and the `Free...` actions are the recursion of `free_tree_no_drop`.
  Positions are those of TLA+ sequences: index i of the code is position i + 1.
* `BPlusTreeInv`, `BPlusTreeOrder` and `BPlusTreeProps` state what must hold. The first is
  about blocks and pointers, the second about keys: the refinement `Map == INSTANCE
  OrderedMap`, which maps the tree to the items its leaves hold and `pc` to the phase of the
  call, the search order, the leaf chain, leaks, occupancy and depth. The third has what the
  code does recursively from the root down (`check_invariants`, the leaves from left to right,
  where a descent ends), as recursive functions on the blocks, which a proof can unfold once
  it is shown that the equation has a solution (below). `GoOn`, a caller that catches a panic
  and goes on, is in the first, with the specification `GoingOnSpec`.
* `Items` is the iterators, as a component of its own: an iterator borrows the map, so
  all it sees is a chain of leaves that stands still (`leaves`) and where a descent ends
  (`seps`, the separators from left to right). That the tree always looks like this
  between calls is the invariant `LookupsMeetChain` of `BPlusTreeProps`, checked in
  `AllOps`, where leaves may be empty, and proved (`LookupsAlwaysMeetChain`). `MakeItems`,
  `MakeRange` and `MakeItemsRange` make an iterator; the disjuncts of `CallNext` and
  `CallNextBack` are the outcomes of `next` and `next_back`, each with the whole loop
  over leaf boundaries. `fronts`, `backs`, `fdone` and `bdone` record the answers.
* `Layout` has the pure arithmetic of blocks: `AlignUp`, where two arrays go (`Place`), the
  layouts for a capacity (`LeafForCap`, `BranchForCap`) and for a budget (`LeafForBudget`,
  `BranchForBudget`), and the regions `carve_leaf` and `carve_branch` make of a block. The
  loop of `compute` that counts a capacity down is the maximum of the capacities that fit.
  A type is its size and its alignment. usize arithmetic is unbounded: no sum of offsets
  wraps for a block that fits in memory. `doubly_linked` is always true, as in the code.
* `Construction` is the constructors as a machine over all types and arguments: `New`,
  `NewTooSmall`, `WithBudgets`, `WithCacheLines`, with their errors and panics (a size that
  is no `Layout`, entries of size zero), then `AllocLeaf` and `AllocBranch`, which make a
  block of the layout the constructor chose. `LeavesCarved` and `BranchesCarved` are what
  makes it right that `BPlusTree` and `Slots` treat the arrays of a block as separate.
* `Slots` is the raw memory below the sequences of `BPlusTree`. Each procedure of
  `insert.rs` and `delete.rs` is the list of its moves (copy, zero, read, write, set a
  length, clone, drop, free), with the code's indices and counts, and the machine executes
  them one by one. A slot holds a named value or pointer, zeros, leftovers, or lies outside
  the array. Values are duplicated by copies, as in the code; what is owned is decided by
  the lengths in the headers and by the locals when the procedure stops. At a `Clone` or
  `Drop` in `PanicAt` the panic unwinds: locals are dropped, memory stays as it is. What a
  procedure should do is stated with the operators of `NodeOps` and with the sequence
  operations `BPlusTree` uses (`SlotsHoldResult`), so it ties the two levels together.
* `AfterPanic` lets calls continue after the panics of `BPlusTree` (`Resume`, which is `GoOn`
  with a bound on the blocks that are lost), which `tests/capacity_check_test.rs:25` does with `catch_unwind`. Its map is the one that
  lookups see (`Seen`, by descent), where that of `BPlusTreeProps` is what the leaves hold,
  as blocks that a panic cut off still hold items that no lookup finds.
* `MCBPlusTree`, `MCItems` and `MCConstruction` give the constants values; the first also
  defines the view `Canonical`, as `AfterPanic` does `Sighted`. `Slots` needs no such
  module.
* `Construction_proofs` holds the proofs about blocks; `NodeOps_proofs` and
  `NodeOpsCheck_proofs` those about sequences, searches and splits; `Items_proofs` those about
  iterators. `BPlusTree_proofs` (memory), `BPlusTreeOrder_proofs` (search order and the map) and
  `BPlusTreeValid_proofs` (chain, leaks, occupancy, depth, the invariant checker) have one lemma
  per action each. The first of these begins with what all three share: one write to the
  child pointers, zones of neighbours, items of a leaf. `Slots_proofs` has one lemma per
  procedure, for its bounds and for its result.

How they build on each other:

    NodeOps -- BPlusTree -- BPlusTreeInv -- BPlusTreeOrder -- BPlusTreeProps -- MCBPlusTree (runs)
       |                                         |    |                              |
       |                                         |    refines OrderedMap         AfterPanic (runs)
    NodeOps_proofs --------------------- BPlusTree_proofs
       |          \                              |
       |           Items_proofs          BPlusTreeOrder_proofs
       |                                         |
    NodeOpsCheck_proofs                  BPlusTreeValid_proofs -- BPlusTreeProps
       |
    NodeOpsCheck (run)

    NodeOps -- Items -- MCItems (runs)      assumes what LookupsAlwaysMeetChain proves
    NodeOps -- Slots (run)                  does the sequence steps of BPlusTree
                 |
             Slots_proofs               with the lemmas of NodeOps_proofs

    Layout -- Construction -- MCConstruction (runs)
                  |
              Construction_proofs

## Runs

All runs are exhaustive for their constants. The pool is larger than any tree the keys
can form, so allocation fails in the two runs of `AfterPanic` only, where `MayFail` lets any
fail and the pool may run out.

| Run | Instance | Question |
|---|---|---|
| `Caps22` | 8 keys, 2 items per leaf, 2 keys per branch | every mix of `insert` and `remove` on trees of up to four levels: structure, depth, chain, capacity, ownership, leaks, and each step a step of the map |
| `Caps34` | 9 keys, 3 items per leaf, 4 keys per branch | occupancy after every call where minima are not the special case of two: `min_branch_len` half of an even capacity, `min_leaf_len` of an odd one rounded, uneven halves of a split |
| `AllOps` | 4 keys, two values, capacities 1 and 1, all six operations | refinement of `OrderedMap` with liveness; `clear` and `Drop`; the degenerate minima: empty leaves, merge panics, collapse of the root with an empty child; what iterators rely on |
| `AfterPanic` | 5 keys, capacities 2 and 2, any allocation may fail; the caller goes on while at most 3 blocks are lost (`MaxLost`) | allocation failing at every point (leaf, branch, new root); inserts and removals around what it cut off; `Drop` of what a panic left |
| `AfterPanicTiny` | 4 keys, capacities 1 and 1, any allocation may fail, no bound but the pool of 8 blocks | the same when merges panic too, and with `clear` |
| `Iteration` | 4 keys, 4 leaves, bounds on every key and beyond | every iterator over every such chain, empty leaves included, driven from both ends in any order: order, completeness, bounds, `size_hint`, and `items_range` against the same answer |
| `NodeOpsCheck` | nodes of up to 12 keys | splits and searches against their definitions |
| `Layouts` | 9 types, from `()` to `[u64; 8]`, for keys and values; budgets to 160 bytes, capacities to 20, `MaxLen` 7 | where arrays go, how many entries fit, sizes no allocator accepts |
| `Slots` | capacities to 6 for leaves and branches, every fill and position at which a procedure is called | each raw move of each procedure, with panics of `Clone` and `Drop` where the code survives them |
| `NewTruncates` | capacities 65535, 65536, 65540, the real `u16` | finding: `new(65536)` has capacity 0 |
| `BranchCapOne` | capacities 2 and 1 | finding: a merge panics |
| `RangeReversed` | 2 keys | finding: `range(..).rev()` is empty |

With capacities of two, eight keys reach trees with four levels, in which branches
split, lend in both directions and merge, and a repair can climb through two branches
to the root; fewer keys never make a branch lend. Adding a key adds no new case, as a
node has at most three neighbours in any repair. In `Caps34` nine keys reach three levels
with branches that lend to either side and merge, at minima of one item and two keys.
Values matter to `StepsAreMapSteps` and the refinement only; one value suffices to see an
item lost, two to see it overwritten (`AllOps`).

`Caps22`, `Caps34` and `BranchCapOne` use the view `Canonical`, which names
blocks by their place in the tree. The program never looks at an address other than to
follow it, and `NewNode` picks one free block, whichever, so states that differ by a renaming
have the same futures up to renaming. The view separates every two states that are
not renamings of each other. `Sighted` does the same for states with lost blocks: those
in the chain are named by their place in it, and those nothing leads to are counted, as
all they do is fill the pool. Runs with liveness use neither.

`Layouts` scales the limits down with the types: `MaxLen` 7 stands for `u16::MAX` and 500
bytes for `isize::MAX`, so that both are met. The theorems hold for the real ones. In
`Slots` six entries are enough for nodes whose halves are odd and even, each side of each
cut, and first, inner and last positions. `PanicAt` has the calls of user code in a leaf
split, the ends of `insert` and `remove`, the clone in a borrow and the loops of
`drop_in_place`. It leaves out the two drops of a separator, `"old_sep"` and `"removed"`, of
which `OwnedOnce` does not hold (below). In `AfterPanic` five keys are the fewest with which
a branch splits, and three blocks the least that the right half of a branch takes with it.

Deadlock is checked where callers always have a next call (`Caps22`, `Caps34`, `Iteration`);
a dropped map stops, `NodeOpsCheck` and the procedures of `Slots` end, and a constructor
may fail.

### Fairness

`Spec` assumes weak fairness of `Step`, the program's own steps. A call runs on one
thread that nothing in the program blocks or preempts, so a call that was made keeps
taking steps. No fairness is assumed of callers: they need not call anything, nor
drop the map.

### Findings

* `BranchCapOne`: `BranchLayout::compute` gives a capacity of one key for small budgets
  and large keys. `min_branch_len` is then 1, a branch that lost its key has a sibling
  that cannot lend, and the merge needs two keys: `remove` panics with "Branch merge
  would exceed capacity", in a check whose comment says it should not happen.
* `RangeReversed`: `range` leaves the back of its iterator unset, and only `next`
  initializes it, so `range(..).rev()` is empty while `items().rev()` returns everything.
  A test says that `range(..)` should match full iteration (and looks at the front
  only), and `lib.rs` that the leaves are doubly linked for reverse iteration.
* `NewTruncates`: `new` converts its capacity with `as u16` before it clamps it, so
  `new(65536)` passes the check for a minimum of four and makes nodes of capacity 0.

`BranchCapOne` does not need an extreme budget: with `with_cache_lines(2, 2)` keys of 49 to
104 bytes get a branch capacity of one (`BranchForBudget`). `new` refuses capacities under
four, but its truncation gives 0 to 3 for 65536 to 65539.

Five more things that the models show, and that no run of their own pins down:

* With one item per leaf `min_leaf_len` is 0, so an emptied leaf stays in place and
  `check_invariants` reports "Non-root leaf is empty" (`common.rs:300`). Lookups, the chain
  and the map are unaffected (`LookupsMeetChain`, `ImplementsOrderedMap` in `AllOps`).
* When nothing fits a leaf budget, `compute` keeps the budget as the size of a block of
  capacity 0, however small (`layout.rs:74`). With 8 bytes and `u64` keys the first `insert`
  writes the sibling pointers, at 8 and 16, outside the block. `LeavesCarved` is therefore
  about maps that have room for an item or were made by `new`.
* The removal of a branch's entry copies one child pointer more than there is
  (`delete.rs:516`, `delete.rs:669`), from behind the array when the branch was full. The
  value is overwritten at once; `MovesInArrays` allows this one read and no other.
* In a borrow the old separator is dropped while it is still in its slot (`delete.rs:566`,
  `delete.rs:620`), and a merge drops a separator after it freed the leaf beside it
  (`delete.rs:663`). A `Drop` that panics there is run again on the same key, and in the
  second case leaves a pointer to a freed leaf. With these two calls in `PanicAt`,
  `OwnedOnce` fails.
* In a borrow the item moves before the new separator is cloned (`delete.rs:563`,
  `delete.rs:617`). If `Clone` panics, nothing is lost or owned twice, but the old separator
  no longer parts the leaves, and a lookup misses the moved item.

Not a finding, because no text of the repository says otherwise: the two ends of `items`
do not know of each other. A caller that takes from both gets items twice, where the
iterators of the standard library stop when the ends meet. `FrontInOrder` and
`BackInOrder` are therefore about each end by itself, and `HintExact` is about callers
that keep to one. The iterator of `items_range` is a vector's, and its ends meet
(`EveryItemOnce`).

## Proofs

`NodeOps_proofs` proves, for nodes of every length over any items, what `NodeOpsCheck`
tries up to length 12: a search stays within the node (`RankBounds`) and parts sorted
keys (`RankPartsKeys`); a leaf split is insertion followed by a cut with both halves
large enough (`LeafSplitIsInsertAndCut`), and a branch split is insertion followed by
a cut around the promoted key (`BranchSplitIsInsertAndCut`). The argument reduces each
case to one of a few ways to cut a sequence while an entry goes into one half
(`BeforeParts`, `AfterParts`, `KeyBefore`, `KeyAt`, `KeyAfter`).

`NodeOpsCheck_proofs` carries these over to the machine that `NodeOpsCheck` runs
(`LeafSplitsAlways`, `BranchSplitsAlways`, `RankPartsAlways`).

`BPlusTree_proofs` proves memory safety of the whole tree, `Spec => []...`, for every
set of keys and values, every pool, every choice of failing allocations and all
capacities from one:

| Theorem | Says |
|---|---|
| `TreeTypes` | `TypeOK`: a slot in use holds a key, a value or a block |
| `NoBlockOverrun` | `BlocksRespected`: no block is fuller than its layout and its arrays agree on their length |
| `NothingDangles` | `NoDangling`: no pointer the program may follow leads to a freed block, and no block has two owners, so none is freed twice |
| `MergesAlwaysFit` | `MergesFit`: with `BranchCap >= 2` the capacity panics of the merges never happen |
| `PanicsLeaveNothingDangling` | `NoDangling` and `BlocksRespected` in `GoingOnSpec`: also in calls that a caller makes after it caught panics, however many and whatever they cut off |
| `TreeInvariant` | `Inv`, from which the others follow |

They assume what `BPlusTree` assumes of its constants: keys are integers (any total
order would do), there is a value, `Null` is not a block, capacities are at least one.
`BranchCap >= 2` is needed: `BranchCapOne` is the counterexample.

The properties are not inductive. That the child of a branch is no freed block, say,
survives `MergeLeaves` only if nobody else points to the leaf it frees, and that holds
only if every block had one owner to begin with. `Inv` (in `BPlusTreeInv`) therefore
has these parts:

* `Shape`: what a free block, a leaf and a branch hold. A free block holds nothing, so
  it owns nothing.
* `OneOwner(children)`: no block is the child of two branches, or of one twice.
* `Levels(lvl, tag, children)`: there is a height for each block such that children are
  one level below their branch and leaves are at zero. The heights are not part of
  the program; `Inv` says that some exist. They give that the children of a branch are
  all leaves or all branches, on which `rebalance_branch_child` relies without a
  check, and that the blocks of a path are all different, so a step at one block
  leaves the frames above it as they were. A block keeps its height while it is in
  use; one that is allocated gets the height of its place (`Reserve`).
* `Rooted`, `Carried`, `Walked`: what the operation in progress holds: the root, the
  right half of a split at the level of the child it came from, and a path that
  descends from the root one level at a time.
* `BeingFreed`: where `free_tree_no_drop` is. In each branch of the path the children
  after the frame's position are still there, the one at it is being freed, and no
  branch off the path has a freed child.

`StepSafe` has a lemma for each action. The borrows, merges and splits go through
`FixStep` and the lemmas on adding, dropping and moving one child; the
arithmetic of sizes is `Lent`, `MinLenBounds` and `MergeRoom` (a repair merges only if
one node is below the minimum and the other not above it, and twice the minimum is
at most the capacity as long as that is not one).

### Search order and the map

`BPlusTreeOrder_proofs` proves that the tree is a search tree at every step, and that it is
an ordered map:

| Theorem | Says |
|---|---|
| `OrderInvariant` | `OrderInv`: each block has a set of keys that descents look for there |
| `TreeImplementsMap` | `StepsAreMapSteps`: each step of each call, panics included, is a step of `OrderedMap` or leaves the map alone |

`StepsAreMapSteps` is `Map!Init /\ [][Map!Next]_(Map!mapVars)`, the safety half of
`ImplementsOrderedMap`: lookups answer with what is stored, an insert or a removal takes
effect once and returns what was there, a panic leaves the old map or the new one, and
`clear` and `Drop` empty it. The constants are as free as above.

The order is usually stated by recursion over subtrees and their bounds. Here it is local:
`zone` gives each block in use a set of keys, some such assignment exists (`OrderInv`), and
each condition is about a block and its children.

* `Spanned`: all keys are looked for at the root. `Fanned`: a branch parts its zone among its
  children by its separators (`Slice`, which keys `child_for_key` sends where). While a
  split is under way the child that was split has only the keys below `sep`, and the
  right half that is on its way up has the others.
* `Ordered`: keys are sorted, a leaf's lie in its zone, and no zone is empty. The last is
  needed where a repair makes a new separator of a key: it must part the zone into two
  that are not empty. It holds of a branch's new halves because each has a child.
* `OneZone`: two blocks of one level have no key in common. So a key is in one leaf at
  most, and the map's value for a key is *the* value stored (`Stored`).
* `Topped` and `Hung`: every block in use hangs from another one, up to the root. An
  insert that finds no root, and a removal that frees the last leaf, know from this that
  the map is empty.
* `Threaded`: the frames of a descent lead from the root to the node it is at, and the key
  belongs there.
* `Emptying`: while `clear` frees a tree, every block left hangs from another one or is the
  next to go, so none is left at the end, and the map is whole again (for the
  next insert). That a set of blocks in which each hangs from another has to be
  empty is proved with a block of the highest level in it: there is one as levels are
  bounded, and a set of naturals has a least element (`LeastOf`, from the library's
  theorem on well-founded relations). This takes the place of an induction over the tree.

A repair is proved in two steps. The lemmas of `BPlusTree_proofs` on `Fan` say what becomes of the
zones when two neighbours share what they have anew (`ShareOrder`) or become one
(`MergeOrder`), whatever the nodes are; each borrow or merge is then an instance, once it
is shown which sequence is cut where. The proof about the map shows of each action which
items its blocks had and have (`Has`), and that the rest of the heap keeps its own
(`ItemsApart`).

### The leaf chain and leaks

`BPlusTreeValid_proofs`:

| Theorem | Says |
|---|---|
| `ChainAlways` | `ChainInOrder`: the chain threads all leaves there are, in key order, in both directions, at every step, also after any panic |
| `ChainInvariant` | `ChainInv`, from which it follows |
| `NothingEverLeaks` | `NothingLeaks`, for behaviours in which no allocation fails: between calls all blocks in use hang from the root, and `Drop` leaves none |

`ChainInOrder` quantifies over sets of leaves instead of following pointers: a set that is
closed under `next` and has a first leaf is all leaves, and what is outside a set closed
under `next` has lower keys than what is in it. `ChainInv` adds to `OrderInv` that leaves are
linked exactly as their zones are ordered (`Chained`: after a leaf come its next one and
what comes after that one), that what is no leaf has null pointers (`OffChain`: a fresh
block is linked to nothing), and that there are finitely many blocks. Zones are what makes
this inductive: an empty leaf (capacity 1) has no keys to be ordered by, but still a zone.
A step that changes no zone of a leaf and no sibling pointer needs no more than that
(`Keeps`); a split puts the right half between two leaves that nothing is between, a merge
takes a leaf out, and a borrow moves the border between two neighbours of the chain, which
are neighbours because the keys of a branch's children are intervals (`SliceConvex`). After a
panic the tree may be cut, but the leaves' zones and pointers are as they were.

`NothingEverLeaks` has `[](pc # "oom")` as a hypothesis because it needs it: an allocation that
fails above a split leaf cuts its right half off, which is what `AfterPanic` is about. Merges may
panic: they do so before anything moved. The proof is from `LeakInv`: all blocks hang from
others, so a set of blocks that has the root and the children of its own has them all.

### Occupancy and depth

Also in `BPlusTreeValid_proofs`:

| Theorem | Says |
|---|---|
| `AlwaysWellFilled` | `WellFilled`, with `BranchCap >= 2`: between calls no node but the root is below its minimum, and a root that is a branch has two children at least |
| `AlwaysBalanced` | `Balanced`: between calls all leaves are at one depth |
| `BalancedAfterPanics` | the same in `GoingOnSpec` |

`FillInv` is what makes the first inductive, next to `OrderInv`. A removal takes an entry out of
the leaf at the end of the path, and each merge one out of the next branch up; so while
branches are repaired one node may be an entry short, and it is the child that the top frame
points to (`Lacks`). That this is the child the leaf or branch was reached through is
`Retraced`, which a descent hands over (`Threaded`). In the other direction the halves of
a split have their share at once, and the root is one of them while `TopSplit`. `FillFixing`
shows that a branch that is repaired has a separator, so the shortcut of `fix_branch_child` for
a branch without one is not taken and nothing stays underfull; then a lender
has more than the minimum, and a merge adds what one node lacks to another that has
enough. At one key per branch a split leaves the right half without one, so
`BranchCap >= 2` is needed here too.

For the second, the heights of `Levels` solve the equations of `Depth`, and no other
function does: of the blocks where it would differ, one of least height has a child
where it differs as well (`DepthIsLevel`).

### The invariant checker

And in `BPlusTreeValid_proofs`, about the recursive functions of `BPlusTreeProps`:

| Theorem | Says |
|---|---|
| `ChecksAlwaysPass` | `ValidBetweenCalls`, with capacities of two at least: `check_invariants` accepts the tree between any two calls |
| `LookupsAlwaysMeetChain` | `LookupsMeetChain`, with any capacities: a descent ends in the leaf of the chain that the separators single out |

`LeafCap >= 2` is needed as well here, because the checker calls an empty leaf an error that
a leaf for one item may well be (below). The theorems on what the checker looks
at are about blocks and sets; these two are about its recursion, and about lists.

A recursive function of TLA+ is a `CHOOSE`, so its equation holds only if something solves it. On
an arbitrary heap nothing need, but in the tree children are one level lower than
their branch: that is enough (`RecursionSolves` in `NodeOps_proofs`, for any function
that asks only for what is of lower rank), with the levels of `Inv` as ranks. Properties of
its values then go by the level, with a least counterexample (`RankInduction`). What is proved
so: a descent ends in a leaf of its subtree whose zone has the key; the leaves of a subtree
are all the leaves whose zones lie in its, in the order of the zones; their separators are one
fewer and part the zone of the subtree as the leaves' zones do. So the leaves from left
to right are the chain (`ChainInv`), and the bounds that `validate_node` hands down are those of
the zones.

### Iterators

`Items_proofs`, for every set of integer keys, every chain of sorted leaves, empty ones
included, and all bounds:

| Theorem | Says |
|---|---|
| `FrontAlwaysInOrder` | `FrontInOrder`: `next` returns what lies within the bounds in ascending order, each item once, and None only after the last |
| `BackAlwaysInOrder` | `BackInOrder`: so does `next_back` on `items`, descending |
| `VecHandsOutEach` | `EveryItemOnce`: `items_range` has exactly the items within its bounds and hands each out at one end |
| `HintAlwaysExact` | `HintExact`: a `size_hint` with a number is exact for a caller that keeps to one end |
| `PositionsInLeaves` | `TypeOK`: positions stay inside their leaves, `remaining` between zero and the length of the map |
| `IteratorInvariant` | `IInv`, from which they follow |

The map is any that `Init` of `Items` allows: sorted leaves, and separators by which a descent
finds each key in its leaf. The properties speak of the set `Due` of items within the
bounds and not of a list of them, so that nothing has to be said about sorting: what
was returned ascends, is due, and is below all that is due and was not returned
(`BeginsDue`).

What makes this inductive is that the position means something for every place of the
chain (`FrontAt`): what comes before it has been returned if it is due, and what comes after it
has not, and is past the start bound. The lazy start has to establish that for the leaf the
descent ends in, for an excluded key that is found, and for an index past the end of its leaf
(`StartSplits`, from `RankPartsKeys`). `next` then takes the first place at or after the
position, across empty leaves, and nothing due lies in between; when that place is past the end
bound, so are all after it. `BackAt` mirrors it without bounds. `Counted` keeps `remaining` next to
what is due and was returned, as long as one end was not used; its start value is right
because the places of the chain and its items are equally many (`LenCounts`). For
`items_range` a cut of the sequence from the start bound on is what lies within the
bounds (`CollectedDue`); the step from a list of leaves to their concatenation goes by the
number of leaves, with a least counterexample in place of an induction (`FlattenRises`).

### Blocks

`Construction_proofs` proves of every type, capacity and budget what `Layouts` tries: a block is
carved into regions inside it, aligned and apart (`LeafForCapCarved`,
`BranchForCapCarved`), and a budget is well spent (`LeafBudgetWellSpent`,
`BranchBudgetWellSpent`: no larger capacity fits). The assumptions are what Rust says of
types: a size is a multiple of its alignment, and of two alignments the smaller divides
the larger. The argument: `AlignUp` yields the next multiple, so `Place` puts the second
array after the first; all alignments divide the block's, so an offset that is aligned in
the block is aligned in memory; and the bound that `compute` counts down from is not below
the answer, because padding only adds to a size that grows with the capacity.
The second half carries this to the machine, with an inductive invariant of two
parts: `TypeOK`, and that the layouts of a map are those some constructor computed.

| Theorem | Says |
|---|---|
| `ConstructionTyped` | `TypeOK` |
| `ConstructionLeavesCarved`, `ConstructionBranchesCarved` | `LeavesCarved`, `BranchesCarved` |
| `ConstructionBudgetsWellSpent` | `BudgetsWellSpent` |
| `ConstructionBudgetOfCapSuffices` | `BudgetOfCapSuffices` |

Both arrays of a block are aligned although `Place` would not need to align the second: the
code puts the array of the higher alignment first, and a multiple of it is one of the lower.

### Raw moves

`Slots_proofs`, for all capacities:

| Theorem | Says |
|---|---|
| `SlotsTyped` | `TypeOK` |
| `MovesStayInArrays` | `MovesInArrays`: no copy, read or write leaves the arrays of its blocks, but for the child pointer that the removal of an entry reads too far |
| `SlotsMeetSequences` | `SlotsHoldResult`: a procedure that runs to its end leaves in the slots the sequences that `BPlusTree` computes with `NodeOps` |

The lists of moves are computed from lengths that the procedure is called with, and no move
depends on what another one did. So the invariant is that all moves still to come are
safe (`Safe(moves)`), next to `TypeOK`; a step takes one off. It holds at the start because
each of the lists is a concatenation of a few kinds of moves, each of which is safe under a
condition on its counts (`Fit`, `Far`, `Cover`), and the conditions follow from what the callers
check before: that a node is full, that a lender has more than the minimum, that a merge
fits.

The third theorem looks at what the moves do. `Did(m, s, t)` is the effect of a move on a
state of the memory, `Runs(ms, s, t)` that of a list of them, and one list after another runs
through a state in between (`RunsParts`). A lemma for each procedure, `InsertHolds` to
`FreeTreeHolds`, follows its list from a state it may begin in (`Begins`) to its result
(`ResultOf`); in between, arrays are functions, and the lemmas on `Row` say which sequence a
function with one entry more, less or replaced, or with a piece moved, is. The machine is in
the midst of its list most of the time and has no sequences to speak of there, so the invariant
`RInv` looks ahead: to `SInv` (the one above) and the domains of the arrays it adds that there
is a fresh state `s`, with the entries the procedure was called with, of which `Leads` holds:
whatever state the moves that are left run to from the memory as it is now, it is the result
for `s`. It holds at the start by the lemmas of the procedures. A step executes the head of the
list, so the shorter list leads to no other states; a loop of drops, which replaces
its head, counts as one move. At the end no moves are left, and the memory itself is the result.
After a panic, which ends the procedure, `SlotsHoldResult` asks for nothing.

### Only model-checked

* Liveness: that every call is answered (`ImplementsOrderedMap` beyond its safety half).
* What calls after a panic find (`TreeStaysValid`, `SeenChangesAsMap`, `ChainThreadsTree`,
  `LostAtPanicsOnly` of `AfterPanic`): memory safety and depth are proved without the bounds of
  the runs. The proof of the search order rests on every block hanging from the root, which
  is what a panic ends; it would have to be done again for the part of the heap that does.
* That no value is lost or owned twice as the raw moves duplicate it: `NothingLost` in the midst
  of a procedure, `OwnedOnce` wherever one stops, after a panic too. Who owns what in between
  differs from move to move, so the inductive invariant would be an account of each list,
  move by move. Of a procedure that runs to its end, `SlotsMeetSequences` says which entries
  are in which slots.

## Not modelled

* Panics of `Ord`: a comparison that panics does so in a search, before anything moved, and
  leaves the tree as it was. A `Drop` that panics while another panic unwinds aborts the
  process. The tree after a panic of `Clone` in a leaf split is the one that a failed
  allocation above the split leaves (`AfterPanic`).
* `Ord` that is no total order, and `Clone` that yields another key.
* Nodes of capacity 0 in `BPlusTree` (`CapAssumption`): `Construction` shows how a map gets
  them; its first `insert` writes outside the arrays.
* Wrapping of usize in `Layout`, for budgets and types near the size of the address space
  (`with_cache_lines` saturates, and allocation then panics with "invalid layout", which is
  modelled).
* The values of bytes: `Slots` knows zeros and leftovers only as such.
* Error values and the wrappers of the compatibility layer, the benchmarks in `src/bin` and
  the Lean development add no behaviour to the map.
