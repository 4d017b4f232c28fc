--------------------------- MODULE BPlusTreeOrder ---------------------------
(***************************************************************************)
(* The map that callers see, and the search order of the tree that makes   *)
(* it one: which keys a descent looks for at which node.  No recursive     *)
(* operator is used here.                                                  *)
(***************************************************************************)
EXTENDS BPlusTreeInv

-----------------------------------------------------------------------------
(* The map callers see.                                                    *)

Leaves == {n \in Node : tag[n] = "leaf"}

(* What the leaves hold, wherever they hang.  Two leaves with one key      *)
(* would be two answers: OneZone excludes them.                            *)
Stored(k) == UNION {{vals[n][i] : i \in {j \in DOMAIN keys[n] : keys[n][j] = k}}
                      : n \in Leaves}

(* A tree whose root was taken to be freed is empty.                       *)
Content ==
  [k \in Key |-> IF pc \in {"free", "dropped"} \/ Stored(k) = {} THEN None
                 ELSE CHOOSE v \in Stored(k) : TRUE]

Phase == CASE pc \in {"idle", "dropped"}         -> pc
           [] pc = "descend"                     -> "called"
           [] pc \in {"split", "fix", "free"}    -> "applied"
           [] pc \in {"oom", "overflow"}         -> "panicked"

Map == INSTANCE OrderedMap WITH map <- Content, phase <- Phase

(* Every step is a step of the ordered map, or leaves the map as it is.    *)
StepsAreMapSteps == Map!Init /\ [][Map!Next]_(Map!mapVars)

-----------------------------------------------------------------------------
(* Search order.                                                           *)

Sorted(s) == \A i, j \in 1 .. Len(s) : i < j => s[i] < s[j]

(* The keys child_for_key sends to child i of a branch with separators ks. *)
Slice(ks, i) ==
  {k \in Key : (i > 1 => ks[i - 1] <= k) /\ (i <= Len(ks) => k < ks[i])}

(* The tree is whole, but for the split or removal in progress.            *)
Whole == pc \in {"idle", "descend", "split", "fix"}

(* zone gives each block in use the keys a descent looks for there: some   *)
(* key at every block, and at a leaf all it holds.                         *)
Ordered(zone) ==
  \A n \in Live :
    /\ zone[n] # {} /\ Sorted(keys[n])
    /\ tag[n] = "leaf" => Range(keys[n]) \subseteq zone[n]

(* No two blocks of one level are looked at for the same key.              *)
OneZone(lvl, zone) ==
  \A m, n \in Live : lvl[m] = lvl[n] /\ m # n => zone[m] \cap zone[n] = {}

Topped(lvl) == \A n \in Live : root # Null /\ lvl[n] <= lvl[root]

(* Every block in use hangs from another one.                              *)
Hung == \A n \in Live : n \in {root, right} \/ \E p \in Live : n \in Kids(p)

(* A branch parts its zone among its children; a child that was split has  *)
(* left the keys from sep on to its right half, until that joins the       *)
(* branch.                                                                 *)
Splits(n, i) == pc = "split" /\ path # <<>> /\ n = Parent /\ i = Top.pos
Fanned(zone) ==
  \A n \in Live : \A i \in 1 .. Len(children[n]) :
    zone[children[n][i]] =
      {k \in zone[n] \cap Slice(keys[n], i) : Splits(n, i) => k < sep}
Spanned(zone) ==
  /\ root # Null => zone[root] = {k \in Key : pc = "split" /\ path = <<>> => k < sep}
  /\ pc = "split" =>
       zone[right] = {k \in IF path = <<>> THEN Key
                            ELSE zone[Parent] \cap Slice(keys[Parent], Top.pos)
                        : sep <= k}

(* The frames of a descent lead from the root to the node it is at, which  *)
(* is where its key belongs.                                               *)
Threaded(zone) ==
  /\ pc \in {"descend", "split"} =>
       /\ path # <<>> => path[1].node = root
       /\ \A i \in 1 .. Len(path) - 1 : Follows(i)
  /\ pc = "descend" /\ cur # Null =>
       /\ key \in zone[cur]
       /\ cur = IF path = <<>> THEN root ELSE children[Parent][Top.pos]

(* While clear frees a tree, the children before the frames' positions are *)
(* gone, and every block left hangs from another one or is the next to go. *)
Gone(i) == \A j \in 1 .. path[i].pos - 1 : tag[children[path[i].node][j]] = "free"
Emptying(lvl) ==
  /\ \A i \in 1 .. Len(path) : Gone(i)
  /\ cur = Null /\ path # <<>> => tag[children[Parent][Top.pos]] = "free"
  /\ \A n \in Live : \/ n = cur
                     \/ path # <<>> /\ n = path[1].node
                     \/ \E p \in Live : n \in Kids(p)
  /\ \E b \in Nat : \A n \in Live : lvl[n] <= b

OrderAt(lvl, zone) ==
  /\ Whole => /\ Ordered(zone) /\ OneZone(lvl, zone) /\ Topped(lvl) /\ Hung
              /\ Fanned(zone) /\ Spanned(zone) /\ Threaded(zone)
  /\ pc = "free" /\ op # "drop" => Emptying(lvl)

OrderInv == \E lvl \in [Node -> Nat], zone \in [Node -> SUBSET Key] :
              InvAt(lvl) /\ OrderAt(lvl, zone)

(* A call has no result before it took effect, and where it is tells which *)
(* call it is.                                                             *)
Called ==
  /\ pc \in {"descend", "free"} => ret = None
  /\ pc = "split" => op = "insert"
  /\ pc = "fix" => op = "remove"

-----------------------------------------------------------------------------
(* The leaf chain.                                                         *)

(* S goes on to the end of the chain.                                      *)
Linked(S) == \A n \in S : next[n] \in S \cup {Null}

(* At every step of insert and remove, also between a split and its        *)
(* parent's update and after a failed allocation, the leaf chain threads   *)
(* all leaves there are, in the order of their keys: iterators, len and    *)
(* leaf_count walk it.  Both directions agree, what is linked up to the    *)
(* end from some leaf on has the higher keys, and from a first leaf on it  *)
(* is all leaves.                                                          *)
ChainInOrder ==
  pc \notin {"free", "dropped"} =>
    /\ \A n \in Leaves :
         /\ Sorted(keys[n])
         /\ next[n] # Null => next[n] \in Leaves /\ prev[next[n]] = n
         /\ prev[n] # Null => prev[n] \in Leaves /\ next[prev[n]] = n
    /\ Leaves # {} => \E n \in Leaves : prev[n] = Null
    /\ \A S \in SUBSET Leaves : Linked(S) =>
         /\ (\E n \in S : prev[n] = Null) => S = Leaves
         /\ \A m \in Leaves \ S, n \in S :
              \A j \in Range(keys[m]), k \in Range(keys[n]) : j < k

(* The leaves by what is looked for in them.                               *)
Lower(S, T) == \A j \in S, k \in T : j < k

(* After a leaf come its next one and all that come after that; before it  *)
(* its previous one and all that come before that.                         *)
Chained(zone) ==
  \A n \in Leaves :
    /\ next[n] \in Leaves \cup {Null} /\ prev[n] \in Leaves \cup {Null}
    /\ \A m \in Leaves :
         /\ m # n => Lower(zone[m], zone[n]) \/ Lower(zone[n], zone[m])
         /\ Lower(zone[n], zone[m]) <=>
              next[n] # Null /\ (m = next[n] \/ Lower(zone[next[n]], zone[m]))
         /\ Lower(zone[m], zone[n]) <=>
              prev[n] # Null /\ (m = prev[n] \/ Lower(zone[m], zone[prev[n]]))

(* What is no leaf is in no chain.                                         *)
OffChain == \A n \in Node : tag[n] # "leaf" => next[n] = Null /\ prev[n] = Null

(* Each leaf holds what is looked for in it.                               *)
Filed(zone) ==
  \A n \in Leaves : zone[n] # {} /\ Sorted(keys[n]) /\ Range(keys[n]) \subseteq zone[n]

(* There are finitely many blocks; the chain is whole after a panic too.   *)
ChainAt(zone) ==
  /\ IsFiniteSet(Live) /\ OffChain
  /\ pc \notin {"free", "dropped"} => Chained(zone) /\ Filed(zone)

ChainInv == \E lvl \in [Node -> Nat], zone \in [Node -> SUBSET Key] :
              InvAt(lvl) /\ OrderAt(lvl, zone) /\ ChainAt(zone)

-----------------------------------------------------------------------------
(* Leaks.                                                                  *)

(* All that can be reached from the root is in S.                          *)
Closed(S) == (root # Null => root \in S) /\ \A n \in S : Kids(n) \subseteq S

(* Nothing leaks: between calls every live block hangs from the root, and  *)
(* none is left after Drop.  An allocation failure above a split leaf      *)
(* breaks this, so it is for maps where none fails.                        *)
NothingLeaks ==
  pc \in {"idle", "dropped"} => \A S \in SUBSET Live : Closed(S) => S = Live

(* No block is left when a map was dropped, and until then each one hangs  *)
(* from another or is the next to go, also after the panic of a merge.     *)
LeakAt(lvl) ==
  /\ pc = "overflow" => Topped(lvl) /\ Hung
  /\ pc = "free" => Emptying(lvl)
  /\ pc = "dropped" => Live = {}

LeakInv == \E lvl \in [Node -> Nat], zone \in [Node -> SUBSET Key] :
             InvAt(lvl) /\ OrderAt(lvl, zone) /\ LeakAt(lvl)

-----------------------------------------------------------------------------
(* Occupancy.                                                              *)

(* Between calls no node but the root is below the minimum of its kind,    *)
(* and a root that is a branch has two children at least.  A repair that   *)
(* asks the wrong sibling, a split that cuts off too little or a root that *)
(* is not handed over would each leave such a node.                        *)
WellFilled ==
  pc = "idle" =>
    \A n \in Live : IF n = root THEN tag[n] = "branch" => Len(keys[n]) >= 1
                                ELSE Len(keys[n]) >= MinLen(n)

(* A root that was split is a child already; the child that a removal went *)
(* through may lack an entry until the branch above it is repaired.        *)
TopSplit == pc = "split" /\ path = <<>>
Lacks(n) == Fixing /\ n = Child(Top.pos)

(* The frames that are left to repair lead from the root to that child.    *)
Retraced ==
  pc = "fix" => /\ path # <<>> => path[1].node = root
                /\ \A i \in 1 .. Len(path) - 1 : Follows(i)

FillInv ==
  Whole =>
    /\ \A n \in Live : n # root \/ TopSplit =>
         IF Lacks(n) THEN Len(keys[n]) + 1 >= MinLen(n) ELSE Len(keys[n]) >= MinLen(n)
    /\ root # Null /\ tag[root] = "branch" /\ ~Repaired => Len(keys[root]) >= 1
    /\ Retraced

-----------------------------------------------------------------------------
(* Balance.                                                                *)

(* How many branches there are from a block down its first children.       *)
Depth[n \in Node] == IF tag[n] # "branch" THEN 0 ELSE 1 + Depth[children[n][1]]

(* Between calls all children of a branch are of one depth, so all leaves  *)
(* of the tree are.  check_invariants does not look, and                   *)
(* rebalance_branch_child reads its siblings as branches without asking.   *)
Balanced ==
  pc = "idle" => \A n \in Live : \A x \in Kids(n) : Depth[n] = Depth[x] + 1
=============================================================================
