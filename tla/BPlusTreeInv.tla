---------------------------- MODULE BPlusTreeInv ----------------------------
(***************************************************************************)
(* What is proved of the tree for every key set, pool and capacity: memory *)
(* safety of its blocks and pointers, and the inductive invariant it       *)
(* follows from.  No recursive operator is used here.                      *)
(***************************************************************************)
EXTENDS BPlusTree

Kids(n) == Range(children[n])

(* No write of insert or remove runs past the slots of a block, at any     *)
(* step: a block is never fuller than its layout, and its three arrays     *)
(* agree on their length.                                                  *)
BlocksRespected ==
  \A n \in Node :
    /\ tag[n] = "leaf" => /\ Len(keys[n]) <= LeafCap
                          /\ Len(vals[n]) = Len(keys[n])
    /\ tag[n] = "branch" => /\ Len(keys[n]) <= BranchCap
                            /\ Len(children[n]) = Len(keys[n]) + 1

(* The merges' capacity checks never fire: delete.rs says of each that it  *)
(* "should not happen if the rebalancing algorithm is correct".            *)
MergesFit == pc # "overflow"

(* No pointer the program may follow leads to a freed block, and no block  *)
(* has two owners, so none is freed twice: a block is the child of at most *)
(* one branch, and the root, the right half of a split and the child about *)
(* to be freed are the child of none.                                      *)
Owned == UNION {Kids(n) : n \in Live}
SoleOwners ==
  /\ \A m, n \in Live : \A i \in DOMAIN children[m], j \in DOMAIN children[n] :
       children[m][i] = children[n][j] => m = n /\ i = j
  /\ {root, right} \cap Owned = {}
NoDangling ==
  /\ pc \in {"descend", "split", "fix", "free"} =>
       {cur, root, right} \cup {path[i].node : i \in DOMAIN path}
         \subseteq Live \cup {Null}
  /\ pc # "free" => Owned \subseteq Live /\ SoleOwners

-----------------------------------------------------------------------------
(* The inductive invariant.                                                *)

(* What a block holds: nothing when it is free, items in a leaf, and one   *)
(* child more than separators in a branch.                                 *)
Shape ==
  \A n \in Node :
    \/ tag[n] = "free" /\ keys[n] = <<>> /\ vals[n] = <<>> /\ children[n] = <<>>
    \/ /\ tag[n] = "leaf" /\ children[n] = <<>>
       /\ Len(vals[n]) = Len(keys[n]) /\ Len(keys[n]) <= LeafCap
    \/ /\ tag[n] = "branch" /\ vals[n] = <<>>
       /\ Len(children[n]) = Len(keys[n]) + 1 /\ Len(keys[n]) <= BranchCap

(* In the child pointers cs every block appears at most once.              *)
OneOwner(cs) ==
  /\ \A n \in Node : IsInjective(cs[n])
  /\ \A m, n \in Node : \A x \in Range(cs[m]) : x \in Range(cs[n]) => m = n

(* x is nobody's child.                                                    *)
Loose(cs, x) == \A n \in Node : x \notin Range(cs[n])

(* lvl gives each block its height: the children of a branch are one level *)
(* below it, so they are all leaves or all branches, and no path returns   *)
(* to a block it left.                                                     *)
Levels(lvl, ts, cs) ==
  /\ \A n \in Node : ts[n] = "leaf" => lvl[n] = 0
  /\ \A n \in Node : \A x \in Range(cs[n]) : lvl[n] = lvl[x] + 1

(* The operation in progress holds the root ...                            *)
Rooted ==
  /\ root # Null => tag[root] # "free"
  /\ Loose(children, root)
  /\ pc \in {"free", "dropped"} => root = Null
  /\ pc \in {"split", "fix"} => root # Null
  /\ pc # "free" => \A n \in Node : Range(children[n]) \subseteq Live

(* ... perhaps the right half of a split, one level below the branch it is *)
(* to join ...                                                             *)
Carried(lvl) ==
  IF pc = "split"
  THEN /\ right # Null /\ tag[right] # "free" /\ right # root
       /\ Loose(children, right)
       /\ lvl[right] + Len(path) = lvl[root]
  ELSE right = Null

(* ... and a node in the tree with the branches above it.                  *)
Walking == pc \in {"descend", "split", "fix"}
OnPath(lvl, f, i) ==
  /\ root # Null
  /\ tag[f.node] = "branch" /\ f.pos \in 1 .. Len(children[f.node])
  /\ lvl[f.node] + i = lvl[root] + 1
Walked(lvl) ==
  /\ Walking => \A i \in 1 .. Len(path) : OnPath(lvl, path[i], i)
  /\ pc = "descend" =>
       /\ cur = Null <=> root = Null
       /\ cur # Null => tag[cur] # "free" /\ lvl[cur] + Len(path) = lvl[root]
  /\ pc \notin {"descend", "free"} => cur = Null
  /\ ~Walking /\ pc # "free" => path = <<>>

(* While a tree is freed, the children up to the frames' positions are     *)
(* gone or on the path, and the others are still there.                    *)
Unfreed(lvl, i) ==
  /\ tag[path[i].node] = "branch"
  /\ path[i].pos \in 1 .. Len(children[path[i].node])
  /\ lvl[path[i].node] + i = lvl[path[1].node] + 1
  /\ \A j \in path[i].pos + 1 .. Len(children[path[i].node]) :
       tag[children[path[i].node][j]] # "free"
Follows(i) == path[i + 1].node = children[path[i].node][path[i].pos]
OffPath(n) == \A i \in 1 .. Len(path) : path[i].node # n
BeingFreed(lvl) ==
  /\ cur # Null => tag[cur] # "free"
  /\ \A i \in 1 .. Len(path) : Unfreed(lvl, i)
  /\ \A i \in 1 .. Len(path) - 1 : Follows(i)
  /\ path # <<>> /\ cur # Null => cur = children[Top.node][Top.pos]
  /\ path = <<>> => Loose(children, cur)
  /\ path # <<>> => Loose(children, path[1].node)
  /\ \A n \in Node : OffPath(n) => Range(children[n]) \subseteq Live

InvAt(lvl) ==
  /\ TypeOK /\ Shape
  /\ OneOwner(children) /\ Levels(lvl, tag, children)
  /\ Rooted /\ Carried(lvl) /\ Walked(lvl)
  /\ pc = "free" => BeingFreed(lvl)

Inv == \E lvl \in [Node -> Nat] : InvAt(lvl)

-----------------------------------------------------------------------------
(* A caller may catch the panic of a failed allocation or of a capacity    *)
(* check, with std::panic::catch_unwind, and go on with what is left.      *)
GoOn ==
  /\ pc \in {"oom", "overflow"} /\ pc' = "idle"
  /\ UNCHANGED <<heap, call, cur, path, split, ret>>

GoingOnSpec == Init /\ [][Next \/ GoOn]_vars
=============================================================================
