----------------------------- MODULE AfterPanic ------------------------------
(***************************************************************************)
(* The tree in the hands of a caller that catches the panic of insert or   *)
(* remove (std::panic::catch_unwind) and goes on using the map.  BPlusTree *)
(* only drops it then; here calls continue, with all the panic left        *)
(* behind: blocks that hang in the leaf chain but under no branch, and     *)
(* branches without a separator.                                           *)
(***************************************************************************)
EXTENDS MCBPlusTree

CONSTANT MaxLost    \* bound: the caller goes on while no more blocks are lost

ASSUME MaxLostAssumption == MaxLost \in Nat

RECURSIVE Subtree(_)
Subtree(n) == {n} \cup UNION {Subtree(c) : c \in Kids(n)}

(* The blocks reachable from the node or nodes in S.                       *)
Reachable(S) == UNION {Subtree(n) : n \in S \ {Null}}

(* The leaves linked from n on.                                            *)
RECURSIVE ChainFrom(_, _)
ChainFrom(n, seen) ==
  IF n = Null \/ n \in seen THEN <<>>
  ELSE <<n>> \o ChainFrom(next[n], seen \cup {n})

(* Blocks that neither the tree nor the call in progress has, though they  *)
(* may still be in the leaf chain.                                         *)
Freeing == IF pc # "free" THEN {} ELSE {IF path = <<>> THEN cur ELSE path[1].node}
Lost == Live \ Reachable({root, right} \cup Freeing)

Resume == GoOn /\ Cardinality(Lost) <= MaxLost

ResumingSpec == Init /\ [][Next \/ Resume]_vars

-----------------------------------------------------------------------------
(* As Canonical of MCBPlusTree, with names for the cut-off leaves of the   *)
(* chain too.  Blocks that nothing named points to are counted, as they    *)
(* only fill the pool.                                                     *)
Sighted ==
  LET tree == IF pc = "free" THEN PreOrder(CHOOSE n \in Freeing : TRUE) ELSE PreOrder(root) \o PreOrder(right)
      first == SelectSeq(tree, LAMBDA n : tag[n] = "leaf")
      chain == IF first = <<>> \/ pc = "free" THEN <<>> ELSE ChainFrom(first[1], {})
      order == tree \o SelectSeq(chain, LAMBDA n : n \notin Range(tree))
      named == Range(order) \cup {Null}
      Name(n) == IF n = Null THEN 0 ELSE CHOOSE i \in DOMAIN order : order[i] = n
      Block(n) == <<tag[n], keys[n], vals[n],
                    IF pc = "free" THEN 0 ELSE <<Name(next[n]), Name(prev[n])>>,
                    [i \in DOMAIN children[n] |-> Name(children[n][i])]>>
      pointers == {cur} \cup IF pc = "free" THEN {}
                             ELSE UNION {{next[n], prev[n]} : n \in Range(order)}
  IN  IF ~(pointers \subseteq named)
      THEN vars
      ELSE <<[i \in DOMAIN order |-> Block(order[i])], Cardinality(Live),
             Name(root), Name(cur), Name(right), sep, pc, call, ret,
             [i \in DOMAIN path |-> <<Name(path[i].node), path[i].pos>>]>>

-----------------------------------------------------------------------------
AtRest == pc \notin {"free", "dropped"}

(* What a lookup in the tree under n answers, and the map that lookups     *)
(* see, in the tree and in the half of a split that goes up to its parent. *)
RECURSIVE LookupIn(_, _)
LookupIn(n, k) ==
  CASE n = Null        -> None
    [] n # Null /\ tag[n] = "leaf" ->
         IF Found(keys[n], k) THEN vals[n][Rank(keys[n], k)] ELSE None
    [] n # Null /\ tag[n] # "leaf" -> LookupIn(children[n][Rank(keys[n], k) + 1], k)
Seen ==
  [k \in Key |-> IF ~AtRest THEN None
                 ELSE IF LookupIn(root, k) # None THEN LookupIn(root, k)
                 ELSE LookupIn(right, k)]

(* However often a caller went on after a panic, the tree under the root   *)
(* is a valid search tree, with no node too full or not full enough: what  *)
(* a panic cuts off is cut off whole.                                      *)
TreeStaysValid == pc = "idle" /\ root # Null => ValidateRoot

(* The leaf chain, cut-off leaves and all, still leads from the leftmost   *)
(* leaf of the tree over all its leaves, in order, through live leaves     *)
(* only and to an end: iterators walk it without looking at the tree, and  *)
(* free_leaf_node writes through both pointers of the leaf it unlinks.     *)
ChainThreadsTree ==
  AtRest /\ root # Null =>
    LET ls == LeavesOf[root]
        chain == ChainFrom(ls[1], {})
    IN  /\ Range(chain) \subseteq Leaves
        /\ \A n \in Range(chain) : prev[n] \in Leaves \cup {Null}
        /\ next[Last(chain)] = Null
        /\ SelectSeq(chain, LAMBDA n : n \in Range(ls)) = ls

(* The map that lookups see changes as the ordered map says, also in calls *)
(* made after a panic.  The panic itself takes from it what is under the   *)
(* right half of a split on its way up, and nothing else.                  *)
SeenMap == INSTANCE OrderedMap WITH map <- Seen, phase <- Phase
CarriedKeys == UNION {Range(keys[n]) : n \in Leaves \cap Reachable({right})}
Panics ==
  /\ pc' \in {"oom", "overflow"}
  /\ Seen' = [k \in Key |-> IF k \in CarriedKeys THEN None ELSE Seen[k]]
SeenChangesAsMap == [][SeenMap!Next \/ Panics \/ Resume]_(SeenMap!mapVars)

(* Blocks are lost by panics of a call that goes up the tree only, those   *)
(* on its way down come before anything moved, and they are lost for good: *)
(* no later call frees one that it cannot reach, nor loses another, and    *)
(* clear and Drop free all the others, whatever state a panic left.        *)
LostAtPanicsOnly ==
  [][~(pc = "split" /\ pc' = "oom") => Lost' = Lost]_vars
=============================================================================
