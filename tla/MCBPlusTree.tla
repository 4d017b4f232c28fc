---------------------------- MODULE MCBPlusTree -----------------------------
(***************************************************************************)
(* Small instances of BPlusTree for TLC.                                   *)
(***************************************************************************)
EXTENDS BPlusTreeProps

CONSTANTS N,       \* number of keys
          Blocks   \* size of the pool

Keys1toN == 1 .. N
Pool     == 1 .. Blocks

(* Which address a block has is of no consequence to the program, but it   *)
(* multiplies the states.  Canonical is the state with blocks named by     *)
(* their place in the tree instead, for use as a VIEW: two states have the *)
(* same view exactly when renaming blocks makes them equal.  A state where *)
(* some live block is in no such place is its own view.                    *)
RECURSIVE PreOrder(_)
PreOrder(n) ==
  IF n = Null THEN <<>>
  ELSE <<n>> \o FlattenSeq([i \in DOMAIN children[n] |-> PreOrder(children[n][i])])

Canonical ==
  LET order == PreOrder(root) \o PreOrder(right)
      Name(n) == CASE n = Null            -> 0
                   [] n \in Range(order)  -> CHOOSE i \in DOMAIN order : order[i] = n
                   [] OTHER               -> -1
      Block(n) == <<tag[n], keys[n], vals[n], Name(next[n]), Name(prev[n]),
                    [i \in DOMAIN children[n] |-> Name(children[n][i])]>>
  IN  IF Range(order) # Live \/ pc = "free"
      THEN vars
      ELSE <<[i \in DOMAIN order |-> Block(order[i])],
             Name(root), Name(cur), Name(right), sep, pc, call, ret,
             [i \in DOMAIN path |-> <<Name(path[i].node), path[i].pos>>]>>
=============================================================================
