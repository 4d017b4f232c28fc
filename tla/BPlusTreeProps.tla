--------------------------- MODULE BPlusTreeProps ---------------------------
(***************************************************************************)
(* What check_invariants asks of the tree, and what a lookup finds in it:  *)
(* what the code does recursively from the root down, as functions on the  *)
(* blocks.                                                                 *)
(***************************************************************************)
EXTENDS BPlusTreeOrder

(* The leaves of a subtree from left to right.                             *)
LeavesOf[n \in Node] ==
  IF tag[n] = "leaf" THEN <<n>>
  ELSE FlattenSeq([i \in DOMAIN children[n] |-> LeavesOf[children[n][i]]])

-----------------------------------------------------------------------------
(* check_invariants_detailed.  A node inherits a bound on either side, a   *)
(* set of at most one key, and whether it is the root.                     *)

Bound  == {{}} \cup {{k} : k \in Key}
Limits == [lower : Bound, upper : Bound, is_root : BOOLEAN]

Ascending(s) == \A i \in 1 .. Len(s) - 1 : s[i] < s[i + 1]

WithinBounds(ks, b) ==
  \A i \in DOMAIN ks : /\ \A k \in b.lower : ks[i] >= k
                       /\ \A k \in b.upper : ks[i] < k

(* What is asked of the keys of a leaf or a branch.                        *)
ValidateKeys(n, b, cap) ==
  /\ Len(keys[n]) <= cap
  /\ b.is_root \/ (keys[n] # <<>> /\ Len(keys[n]) >= MinLen(n))
  /\ Ascending(keys[n]) /\ WithinBounds(keys[n], b)

(* What child i of a branch that has the bounds b inherits.                *)
ChildLimits(n, b, i) ==
  [lower   |-> IF i = 1 THEN b.lower ELSE {keys[n][i - 1]},
   upper   |-> IF i = Len(keys[n]) + 1 THEN b.upper ELSE {keys[n][i]},
   is_root |-> FALSE]

ValidateLeaf(n, b) == ValidateKeys(n, b, LeafCap)

(* validate is ValidateNode, for the children.                             *)
ValidateBranch(n, b, validate) ==
  /\ ValidateKeys(n, b, BranchCap)
  /\ Len(children[n]) = Len(keys[n]) + 1
  /\ \A i \in DOMAIN children[n] : validate[children[n][i]][ChildLimits(n, b, i)]

ValidateNode[n \in Node] ==
  [b \in Limits |->
     \/ tag[n] = "leaf" /\ ValidateLeaf(n, b)
     \/ tag[n] = "branch" /\ ValidateBranch(n, b, ValidateNode)]

ValidateRoot == ValidateNode[root][[lower |-> {}, upper |-> {}, is_root |-> TRUE]]

(* The sibling pointers of the leaves ls, which hold ascending keys.       *)
ValidateChain(ls) ==
  /\ \A i \in DOMAIN ls :
       /\ prev[ls[i]] = IF i = 1 THEN Null ELSE ls[i - 1]
       /\ next[ls[i]] = IF i = Len(ls) THEN Null ELSE ls[i + 1]
  /\ Ascending(FlattenSeq([i \in DOMAIN ls |-> keys[ls[i]]]))

check_invariants == root # Null => ValidateRoot /\ ValidateChain(LeavesOf[root])

(* Between calls the tree passes check_invariants: the tests assert it     *)
(* after every operation they make, here it is after every sequence.       *)
ValidBetweenCalls == pc = "idle" => check_invariants

-----------------------------------------------------------------------------
(* What module Items takes the tree for.                                   *)

(* The separators that stand between the leaves of a subtree.              *)
SepsOf[n \in Node] ==
  FlattenSeq([i \in DOMAIN children[n] |->
                (IF i > 1 THEN <<keys[n][i - 1]>> ELSE <<>>) \o SepsOf[children[n][i]]])

(* The leaf a descent for a key ends in.                                   *)
LeafForKey[n \in Node] ==
  [k \in Key |-> IF tag[n] # "branch" THEN n
                 ELSE LeafForKey[children[n][Rank(keys[n], k) + 1]][k]]

(* Between calls a descent for any key ends in the leaf of the chain that  *)
(* the separators above the leaves, from left to right, single out, and    *)
(* each leaf holds only keys that a descent looks for there.               *)
LookupsMeetChain ==
  pc = "idle" /\ root # Null =>
    LET chain == LeavesOf[root]
        seps  == SepsOf[root]
    IN  /\ Len(chain) = Len(seps) + 1 /\ Ascending(seps)
        /\ \A k \in Key : LeafForKey[root][k] = chain[Rank(seps, k) + 1]
        /\ \A n \in Range(chain) : \A k \in Range(keys[n]) : LeafForKey[root][k] = n

-----------------------------------------------------------------------------
(* The map callers see.                                                    *)

(* Every call behaves as the ordered map says and is answered: it takes    *)
(* effect once, between its call and its return, and its result is the     *)
(* value the key had.                                                      *)
ImplementsOrderedMap == Map!Spec
=============================================================================
