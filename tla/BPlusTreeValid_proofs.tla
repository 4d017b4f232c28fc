----------------------- MODULE BPlusTreeValid_proofs ------------------------
(***************************************************************************)
(* The leaf chain threads all leaves in the order of their keys at every   *)
(* step, nothing leaks as long as no allocation fails, and between calls   *)
(* no node is below its minimum, all leaves are at one depth, the tree     *)
(* passes check_invariants and a descent ends in the leaf of the chain     *)
(* that the separators say.                                                *)
(***************************************************************************)
EXTENDS BPlusTreeOrder_proofs, BPlusTreeProps

-----------------------------------------------------------------------------
(* Chains.  L are the leaves, nx and pv their pointers, and z gives each   *)
(* what is looked for in it.                                               *)

(* What Chained says of leaves and pointers, by name.                      *)
ChainOf(L, nx, pv, z) ==
  \A n \in L :
    /\ nx[n] \in L \cup {Null} /\ pv[n] \in L \cup {Null}
    /\ \A m \in L :
         /\ m # n => Lower(z[m], z[n]) \/ Lower(z[n], z[m])
         /\ Lower(z[n], z[m]) <=> nx[n] # Null /\ (m = nx[n] \/ Lower(z[nx[n]], z[m]))
         /\ Lower(z[m], z[n]) <=> pv[n] # Null /\ (m = pv[n] \/ Lower(z[m], z[pv[n]]))

(* Zones are ordered strictly.                                             *)
Strictly(L, z) ==
  /\ \A m, n \in L : Lower(z[m], z[n]) => ~Lower(z[n], z[m])
  /\ \A l, m, n \in L : Lower(z[l], z[m]) /\ Lower(z[m], z[n]) => Lower(z[l], z[n])

(* Sets that are not empty are ordered strictly.                           *)
LEMMA LowerStrict ==
  ASSUME NEW A, A \subseteq Int, A # {}, NEW B, B \subseteq Int, B # {}, NEW C, C \subseteq Int
  PROVE  /\ ~(Lower(A, B) /\ Lower(B, A))
         /\ Lower(C, A) /\ Lower(A, B) => Lower(C, B)
  <1>1. PICK a \in A : a \in Int
    OBVIOUS
  <1>2. PICK b \in B : b \in Int
    OBVIOUS
  <1>3. ~(a < b /\ b < a)
    BY <1>1, <1>2, SMT
  <1>4. ASSUME Lower(C, A), Lower(A, B), NEW j \in C, NEW k \in B
        PROVE  j < k
    <2>1. j < a /\ a < k
      BY <1>4 DEF Lower
    <2> QED
      BY <1>1, <2>1, SMT
  <1> QED
    BY <1>3, <1>4 DEF Lower

(* Zones that are not empty are ordered strictly.                          *)
LEMMA ZonesStrict ==
  ASSUME NEW L, NEW z, \A n \in L : z[n] # {} /\ z[n] \subseteq Int
  PROVE  Strictly(L, z)
  BY LowerStrict DEF Strictly

(* A part of B is on the side of A that B is on.                           *)
LEMMA PartLower ==
  ASSUME NEW A, A \subseteq Int, A # {}, NEW B, B \subseteq Int,
         NEW C, C \subseteq B, C # {}, Lower(A, B) \/ Lower(B, A)
  PROVE  (Lower(A, C) <=> Lower(A, B)) /\ (Lower(C, A) <=> Lower(B, A))
  <1>1. (Lower(A, B) => Lower(A, C)) /\ (Lower(B, A) => Lower(C, A))
    BY DEF Lower
  <1>2. C \subseteq Int
    OBVIOUS
  <1> QED
    BY <1>1, <1>2, LowerStrict

(* The two directions of a chain agree.                                    *)
LEMMA Mutual ==
  ASSUME NEW L, Null \notin L, NEW nx, NEW pv, NEW z, ChainOf(L, nx, pv, z), Strictly(L, z),
         NEW n \in L
  PROVE  /\ nx[n] # Null => nx[n] \in L /\ pv[nx[n]] = n /\ Lower(z[n], z[nx[n]])
         /\ pv[n] # Null => pv[n] \in L /\ nx[pv[n]] = n /\ Lower(z[pv[n]], z[n])
  <1>1. ASSUME nx[n] # Null
        PROVE  nx[n] \in L /\ pv[nx[n]] = n /\ Lower(z[n], z[nx[n]])
    <2>1. PICK m : m = nx[n]
      OBVIOUS
    <2>2. m \in L /\ Lower(z[n], z[m])
      BY <1>1, <2>1 DEF ChainOf
    <2>3. PICK q : q = pv[m]
      OBVIOUS
    <2>4. q \in L /\ Lower(z[q], z[m]) /\ (n = q \/ Lower(z[n], z[q]))
      BY <2>2, <2>3 DEF ChainOf
    <2>5. Lower(z[n], z[q]) => q = m \/ Lower(z[m], z[q])
      BY <2>1, <2>4 DEF ChainOf
    <2>6. ~Lower(z[m], z[q]) /\ q # m
      BY <2>2, <2>4 DEF Strictly
    <2> QED
      BY <2>1, <2>2, <2>3, <2>4, <2>5, <2>6
  <1>2. ASSUME pv[n] # Null
        PROVE  pv[n] \in L /\ nx[pv[n]] = n /\ Lower(z[pv[n]], z[n])
    <2>1. PICK m : m = pv[n]
      OBVIOUS
    <2>2. m \in L /\ Lower(z[m], z[n])
      BY <1>2, <2>1 DEF ChainOf
    <2>3. PICK q : q = nx[m]
      OBVIOUS
    <2>4. q \in L /\ Lower(z[m], z[q]) /\ (n = q \/ Lower(z[q], z[n]))
      BY <2>2, <2>3 DEF ChainOf
    <2>5. Lower(z[q], z[n]) => q = m \/ Lower(z[q], z[m])
      BY <2>1, <2>4 DEF ChainOf
    <2>6. ~Lower(z[q], z[m]) /\ q # m
      BY <2>2, <2>4 DEF Strictly
    <2> QED
      BY <2>1, <2>2, <2>3, <2>4, <2>5, <2>6
  <1> QED
    BY <1>1, <1>2

(* Only how the leaves' zones lie to each other matters.                   *)
LEMMA ChainSame ==
  ASSUME NEW L, NEW nx, NEW pv, NEW z, ChainOf(L, nx, pv, z), NEW y,
         \A m, n \in L : Lower(y[m], y[n]) <=> Lower(z[m], z[n])
  PROVE  ChainOf(L, nx, pv, y)
  <1> SUFFICES ASSUME NEW n \in L, NEW m \in L
               PROVE  /\ m # n => Lower(y[m], y[n]) \/ Lower(y[n], y[m])
                      /\ Lower(y[n], y[m]) <=> nx[n] # Null /\ (m = nx[n] \/ Lower(y[nx[n]], y[m]))
                      /\ Lower(y[m], y[n]) <=> pv[n] # Null /\ (m = pv[n] \/ Lower(y[m], y[pv[n]]))
    BY DEF ChainOf
  <1>1. /\ nx[n] \in L \cup {Null} /\ pv[n] \in L \cup {Null}
        /\ m # n => Lower(z[m], z[n]) \/ Lower(z[n], z[m])
        /\ Lower(z[n], z[m]) <=> nx[n] # Null /\ (m = nx[n] \/ Lower(z[nx[n]], z[m]))
        /\ Lower(z[m], z[n]) <=> pv[n] # Null /\ (m = pv[n] \/ Lower(z[m], z[pv[n]]))
    BY DEF ChainOf
  <1> QED
    BY <1>1

(* free_leaf_node: the neighbours of g bypass it.                          *)
LEMMA ChainRemoves ==
  ASSUME NEW L, Null \notin L, NEW nx, NEW pv, NEW z, ChainOf(L, nx, pv, z), Strictly(L, z),
         NEW g \in L, NEW ox, NEW qv,
         \A n \in L : n # g => ox[n] = IF pv[g] = n THEN nx[g] ELSE nx[n],
         \A n \in L : n # g => qv[n] = IF nx[g] = n THEN pv[g] ELSE pv[n]
  PROVE  ChainOf(L \ {g}, ox, qv, z)
  <1> SUFFICES ASSUME NEW n \in L, n # g
               PROVE  /\ ox[n] \in (L \ {g}) \cup {Null} /\ qv[n] \in (L \ {g}) \cup {Null}
                      /\ \A m \in L \ {g} :
                           /\ m # n => Lower(z[m], z[n]) \/ Lower(z[n], z[m])
                           /\ Lower(z[n], z[m]) <=>
                                ox[n] # Null /\ (m = ox[n] \/ Lower(z[ox[n]], z[m]))
                           /\ Lower(z[m], z[n]) <=>
                                qv[n] # Null /\ (m = qv[n] \/ Lower(z[m], z[qv[n]]))
    BY DEF ChainOf
  <1>1. /\ nx[n] \in L \cup {Null} /\ pv[n] \in L \cup {Null}
        /\ nx[g] \in L \cup {Null} /\ pv[g] \in L \cup {Null}
        /\ \A m \in L :
             /\ m # n => Lower(z[m], z[n]) \/ Lower(z[n], z[m])
             /\ Lower(z[n], z[m]) <=> nx[n] # Null /\ (m = nx[n] \/ Lower(z[nx[n]], z[m]))
             /\ Lower(z[m], z[n]) <=> pv[n] # Null /\ (m = pv[n] \/ Lower(z[m], z[pv[n]]))
             /\ Lower(z[g], z[m]) <=> nx[g] # Null /\ (m = nx[g] \/ Lower(z[nx[g]], z[m]))
             /\ Lower(z[m], z[g]) <=> pv[g] # Null /\ (m = pv[g] \/ Lower(z[m], z[pv[g]]))
    BY DEF ChainOf
  <1>2. /\ nx[n] = g <=> pv[g] = n
        /\ pv[n] = g <=> nx[g] = n
    BY Mutual
  <1>3. nx[g] # g /\ pv[g] # g
    BY Mutual DEF Strictly
  <1>4. ox[n] = (IF pv[g] = n THEN nx[g] ELSE nx[n]) /\ qv[n] = (IF nx[g] = n THEN pv[g] ELSE pv[n])
    OBVIOUS
  <1>5. ox[n] \in (L \ {g}) \cup {Null} /\ qv[n] \in (L \ {g}) \cup {Null}
    BY <1>1, <1>2, <1>3, <1>4
  <1>6. ASSUME NEW m \in L \ {g}
        PROVE  Lower(z[n], z[m]) <=> ox[n] # Null /\ (m = ox[n] \/ Lower(z[ox[n]], z[m]))
    <2>1. CASE pv[g] = n
      BY <1>1, <1>2, <1>4, <2>1
    <2>2. CASE pv[g] # n
      BY <1>1, <1>4, <2>2
    <2> QED
      BY <2>1, <2>2
  <1>7. ASSUME NEW m \in L \ {g}
        PROVE  Lower(z[m], z[n]) <=> qv[n] # Null /\ (m = qv[n] \/ Lower(z[m], z[qv[n]]))
    <2>1. CASE nx[g] = n
      BY <1>1, <1>2, <1>4, <2>1
    <2>2. CASE nx[g] # n
      BY <1>1, <1>4, <2>2
    <2> QED
      BY <2>1, <2>2
  <1> QED
    BY <1>1, <1>5, <1>6, <1>7

(* A leaf split: n joins the chain after x, with the upper part of its     *)
(* zone.                                                                   *)
LEMMA ChainGrows ==
  ASSUME NEW L, Null \notin L, NEW nx, NEW pv, NEW z, ChainOf(L, nx, pv, z), Strictly(L, z),
         NEW x \in L, NEW n, n \notin L, n # Null, NEW ox, NEW qv, NEW y,
         ox[x] = n, ox[n] = nx[x], \A m \in L : m # x => ox[m] = nx[m],
         qv[n] = x, \A m \in L : qv[m] = IF m = nx[x] THEN n ELSE pv[m],
         \A k, m \in L : Lower(y[k], y[m]) <=> Lower(z[k], z[m]),
         \A m \in L : m # x => /\ Lower(y[m], y[n]) <=> Lower(z[m], z[x])
                               /\ Lower(y[n], y[m]) <=> Lower(z[x], z[m]),
         Lower(y[x], y[n]), ~Lower(y[n], y[x]), ~Lower(y[n], y[n])
  PROVE  ChainOf(L \cup {n}, ox, qv, y)
  <1>1. ~Lower(z[x], z[x]) /\ ~Lower(y[x], y[x])
    BY DEF Strictly
  <1>2. /\ nx[x] \in L \cup {Null} /\ pv[x] \in L \cup {Null} /\ nx[x] # x
        /\ nx[x] # Null => pv[nx[x]] = x
        /\ \A m \in L : m # x => /\ nx[m] = Null \/ nx[m] # nx[x]
                                 /\ pv[m] = x <=> nx[x] = m
    <2>1. nx[x] \in L \cup {Null} /\ pv[x] \in L \cup {Null}
      BY DEF ChainOf
    <2>2. nx[x] # Null => pv[nx[x]] = x /\ Lower(z[x], z[nx[x]])
      BY Mutual
    <2>3. nx[x] # x
      BY <1>1, <2>2
    <2>4. ASSUME NEW m \in L, m # x
          PROVE  nx[m] = Null \/ nx[m] # nx[x]
      <3>1. nx[m] # Null => pv[nx[m]] = m
        BY Mutual
      <3> QED
        BY <2>2, <2>4, <3>1
    <2>5. ASSUME NEW m \in L, m # x
          PROVE  pv[m] = x <=> nx[x] = m
      <3>1. pv[m] # Null => nx[pv[m]] = m
        BY Mutual
      <3>2. x # Null /\ m # Null
        OBVIOUS
      <3> QED
        BY <2>2, <3>1, <3>2
    <2> QED
      BY <2>1, <2>2, <2>3, <2>4, <2>5
  <1>3. ASSUME NEW k \in L, NEW m \in L
        PROVE  /\ nx[k] \in L \cup {Null} /\ pv[k] \in L \cup {Null}
               /\ m # k => Lower(y[m], y[k]) \/ Lower(y[k], y[m])
               /\ Lower(y[k], y[m]) <=> nx[k] # Null /\ (m = nx[k] \/ Lower(y[nx[k]], y[m]))
               /\ Lower(y[m], y[k]) <=> pv[k] # Null /\ (m = pv[k] \/ Lower(y[m], y[pv[k]]))
    <2>1. ChainOf(L, nx, pv, y)
      BY ChainSame
    <2> QED
      BY <2>1 DEF ChainOf
  <1>4. ASSUME NEW m \in L
        PROVE  /\ Lower(y[m], y[n]) <=> m = x \/ Lower(y[m], y[x])
               /\ Lower(y[n], y[m]) <=> Lower(y[x], y[m])
    BY <1>1
  <1>5. ASSUME NEW k \in L
        PROVE  /\ ox[k] \in L \cup {n, Null} /\ qv[k] \in L \cup {n, Null}
               /\ \A m \in L \cup {n} :
                    /\ m # k => Lower(y[m], y[k]) \/ Lower(y[k], y[m])
                    /\ Lower(y[k], y[m]) <=> ox[k] # Null /\ (m = ox[k] \/ Lower(y[ox[k]], y[m]))
                    /\ Lower(y[m], y[k]) <=> qv[k] # Null /\ (m = qv[k] \/ Lower(y[m], y[qv[k]]))
    <2>1. ox[k] \in L \cup {n, Null} /\ qv[k] \in L \cup {n, Null}
      BY <1>2, <1>3
    <2>2. ASSUME NEW m \in L \cup {n}
          PROVE  m # k => Lower(y[m], y[k]) \/ Lower(y[k], y[m])
      BY <1>3, <1>4
    <2>3. ASSUME NEW m \in L \cup {n}
          PROVE  Lower(y[k], y[m]) <=> ox[k] # Null /\ (m = ox[k] \/ Lower(y[ox[k]], y[m]))
      <3>1. CASE k = x
        BY <1>1, <1>4, <3>1
      <3>2. CASE k # x /\ m \in L
        BY <1>3, <3>2
      <3>3. CASE k # x /\ m = n
        <4>1. Lower(y[k], y[n]) <=> Lower(y[k], y[x])
          BY <1>4, <3>3
        <4>2. Lower(y[k], y[x]) <=> nx[k] # Null /\ (x = nx[k] \/ Lower(y[nx[k]], y[x]))
          BY <1>3
        <4>3. nx[k] # Null => nx[k] \in L /\ (Lower(y[nx[k]], y[n]) <=> x = nx[k] \/ Lower(y[nx[k]], y[x]))
          BY <1>3, <1>4
        <4> QED
          BY <1>3, <3>3, <4>1, <4>2, <4>3
      <3> QED
        BY <3>1, <3>2, <3>3
    <2>4. ASSUME NEW m \in L \cup {n}
          PROVE  Lower(y[m], y[k]) <=> qv[k] # Null /\ (m = qv[k] \/ Lower(y[m], y[qv[k]]))
      <3>1. CASE k = nx[x]
        <4>1. qv[k] = n /\ n # Null /\ pv[k] = x /\ x # Null
          BY <1>2, <3>1
        <4>2. Lower(y[x], y[k])
          BY <1>3, <4>1
        <4>3. CASE m = n
          BY <1>4, <4>1, <4>2, <4>3
        <4>4. CASE m \in L
          BY <1>3, <1>4, <4>1, <4>4
        <4> QED
          BY <4>3, <4>4
      <3>2. CASE k # nx[x]
        <4>1. qv[k] = pv[k] /\ pv[k] # x
          BY <1>1, <1>2, <1>3, <3>2
        <4>2. CASE m \in L
          BY <1>3, <4>1, <4>2
        <4>3. CASE m = n
          <5>1. Lower(y[n], y[k]) <=> Lower(y[x], y[k])
            BY <1>4
          <5>2. Lower(y[x], y[k]) <=> pv[k] # Null /\ Lower(y[x], y[pv[k]])
            BY <1>3, <4>1
          <5>3. pv[k] # Null => pv[k] \in L /\ pv[k] # n /\ (Lower(y[n], y[pv[k]]) <=> Lower(y[x], y[pv[k]]))
            BY <1>3, <1>4
          <5> QED
            BY <4>1, <4>3, <5>1, <5>2, <5>3
        <4> QED
          BY <4>2, <4>3
      <3> QED
        BY <3>1, <3>2
    <2> QED
      BY <2>1, <2>2, <2>3, <2>4
  <1>6. /\ ox[n] \in L \cup {n, Null} /\ qv[n] \in L \cup {n, Null}
        /\ \A m \in L \cup {n} :
             /\ m # n => Lower(y[m], y[n]) \/ Lower(y[n], y[m])
             /\ Lower(y[n], y[m]) <=> ox[n] # Null /\ (m = ox[n] \/ Lower(y[ox[n]], y[m]))
             /\ Lower(y[m], y[n]) <=> qv[n] # Null /\ (m = qv[n] \/ Lower(y[m], y[qv[n]]))
    <2>1. ASSUME NEW m \in L
          PROVE  /\ m # n => Lower(y[m], y[n]) \/ Lower(y[n], y[m])
                 /\ Lower(y[n], y[m]) <=> ox[n] # Null /\ (m = ox[n] \/ Lower(y[ox[n]], y[m]))
                 /\ Lower(y[m], y[n]) <=> qv[n] # Null /\ (m = qv[n] \/ Lower(y[m], y[qv[n]]))
      <3>1. Lower(y[x], y[m]) <=> nx[x] # Null /\ (m = nx[x] \/ Lower(y[nx[x]], y[m]))
        BY <1>3
      <3>2. m # x => Lower(y[m], y[x]) \/ Lower(y[x], y[m])
        BY <1>3
      <3> QED
        BY <1>4, <3>1, <3>2
    <2>2. nx[x] # Null => ~Lower(y[nx[x]], y[n])
      <3> SUFFICES ASSUME nx[x] # Null PROVE ~Lower(y[nx[x]], y[n])
        OBVIOUS
      <3>1. nx[x] \in L /\ nx[x] # x
        BY <1>2
      <3>2. Lower(z[x], z[nx[x]])
        BY Mutual
      <3>3. ~Lower(z[nx[x]], z[x])
        BY <3>1, <3>2 DEF Strictly
      <3> QED
        BY <1>4, <3>1, <3>3
    <2>3. nx[x] # n
      BY <1>2
    <2> QED
      BY <1>2, <2>1, <2>2, <2>3
  <1> QED
    BY <1>5, <1>6 DEF ChainOf

-----------------------------------------------------------------------------
(* The chain and the zones.                                                *)

(* The chain of the leaves, in the terms above.                            *)
LEMMA ChainFacts ==
  ASSUME NEW zone \in Zones, ChainAt(zone), pc \notin {"free", "dropped"}
  PROVE  /\ ChainOf(Leaves, next, prev, zone) /\ Strictly(Leaves, zone) /\ Null \notin Leaves
         /\ \A n \in Leaves :
              n \in Node /\ n \in Live /\ n # Null /\ zone[n] # {} /\ zone[n] \subseteq Int
  <1>1. \A n \in Leaves : n \in Node /\ n \in Live /\ n # Null
    BY NodeAssumption DEF Leaves, Live
  <1>2. \A n \in Leaves : zone[n] # {} /\ zone[n] \subseteq Int
    BY <1>1, KeyAssumption DEF ChainAt, Filed, Zones
  <1>3. ChainOf(Leaves, next, prev, zone)
    BY DEF ChainAt, Chained, ChainOf
  <1>4. Strictly(Leaves, zone)
    BY <1>2, ZonesStrict
  <1> QED
    BY <1>1, <1>2, <1>3, <1>4

(* A step that leaves the tree whole, and a chain of its leaves.           *)
LEMMA ChainNext ==
  ASSUME NEW lvl \in [Node -> Nat], NEW Z \in Zones, OrderAt(lvl, Z)', Whole',
         IsFiniteSet(Live), NEW x, Live' \subseteq Live \cup {x}, OffChain',
         ChainOf(Leaves', next', prev', Z)
  PROVE  ChainAt(Z)'
  <1>1. Chained(Z)'
    BY DEF Chained, ChainOf
  <1>2. Filed(Z)'
    BY DEF OrderAt, Ordered, Filed, Leaves, Live
  <1>3. IsFiniteSet(Live')
    BY FS_AddElement, FS_Subset
  <1> QED
    BY <1>1, <1>2, <1>3 DEF ChainAt

(* A step that keeps the leaves, their pointers and their zones.           *)
LEMMA ChainStays ==
  ASSUME NEW lvl \in [Node -> Nat], NEW zone \in Zones, ChainAt(zone),
         pc \notin {"free", "dropped"}, pc' \notin {"free", "dropped"},
         NEW Z \in Zones, OrderAt(lvl, Z)', Whole' \/ keys' = keys,
         Leaves' = Leaves, UNCHANGED <<next, prev>>,
         NEW S, Keeps(zone, Z, S), \A n \in Leaves : n \notin S,
         NEW x, Live' \subseteq Live \cup {x}
  PROVE  ChainAt(Z)'
  <1>1. ChainOf(Leaves, next, prev, zone)
    BY ChainFacts
  <1>2. \A n \in Leaves : Z[n] = zone[n]
    BY DEF Keeps, Leaves
  <1>3. ChainOf(Leaves, next, prev, Z)
    BY <1>1, <1>2, ChainSame
  <1>4. ChainOf(Leaves', next', prev', Z)
    BY <1>3
  <1>5. Chained(Z)'
    BY <1>4 DEF Chained, ChainOf
  <1>6. OffChain'
    <2>1. \A n \in Node : tag'[n] # "leaf" => tag[n] # "leaf"
      BY DEF Leaves
    <2> QED
      BY <2>1 DEF OffChain, ChainAt
  <1>7. Filed(Z)'
    <2>1. CASE Whole'
      BY <2>1 DEF OrderAt, Ordered, Filed, Leaves, Live
    <2>2. CASE keys' = keys
      BY <1>2, <2>2 DEF ChainAt, Filed
    <2> QED
      BY <2>1, <2>2
  <1>8. IsFiniteSet(Live')
    BY FS_AddElement, FS_Subset DEF ChainAt
  <1> QED
    BY <1>5, <1>6, <1>7, <1>8 DEF ChainAt

(* A single leaf is a chain.                                               *)
LEMMA ChainOne ==
  ASSUME NEW L, NEW r, L \subseteq {r}, NEW nx, NEW pv, NEW z,
         r \in L => nx[r] = Null /\ pv[r] = Null /\ ~Lower(z[r], z[r])
  PROVE  ChainOf(L, nx, pv, z)
  BY DEF ChainOf

-----------------------------------------------------------------------------
(* Steps that leave the leaves, their pointers and their zones alone.      *)

(* A step that leaves pointers and zones of leaves alone keeps the chain.  *)
LEMMA SameChain ==
  ASSUME NEW lvl \in [Node -> Nat], NEW zone \in Zones, ChainAt(zone),
         pc \notin {"free", "dropped"}, pc' \notin {"free", "dropped"},
         Whole' \/ keys' = keys, UNCHANGED <<tag, next, prev>>,
         \E Z \in Zones : OrderAt(lvl, Z)' /\ Keeps(zone, Z, {})
  PROVE  \E Z \in Zones : OrderAt(lvl, Z)' /\ ChainAt(Z)'
  <1>1. PICK Z \in Zones : OrderAt(lvl, Z)' /\ Keeps(zone, Z, {})
    OBVIOUS
  <1>2. Leaves' = Leaves /\ Live' \subseteq Live \cup {Null} /\ \A n \in Leaves : n \notin {}
    BY DEF Leaves, Live
  <1>3. ChainAt(Z)'
    BY <1>1, <1>2, ChainStays
  <1> QED
    BY <1>1, <1>3

(* A step inside one leaf, and a panic, keep the chain.                    *)
LEMMA QuietChain ==
  ASSUME NEW lvl \in [Node -> Nat], InvAt(lvl), InvAt(lvl)',
         NEW zone \in Zones, OrderAt(lvl, zone), ChainAt(zone), Quiet
  PROVE  \E Z \in Zones : OrderAt(lvl, Z)' /\ ChainAt(Z)'
  <1>1. CASE AllocFails \/ MergePanics
    <2>1. /\ pc \in {"descend", "split", "fix"} /\ pc' \in {"oom", "overflow"} /\ keys' = keys
          /\ UNCHANGED <<tag, next, prev>>
      BY <1>1 DEF AllocFails, NeedsBlock, AtLeaf, MergePanics, Merging, Fixing, Leave, heap
    <2> QED
      BY <2>1, QuietOrder, SameChain
  <1>2. CASE ~(AllocFails \/ MergePanics)
    <2>1. /\ pc \in {"descend", "fix"} /\ pc' = "idle" /\ Whole'
          /\ UNCHANGED <<tag, next, prev>>
      BY <1>2 DEF Quiet, MissEmpty, Get, GetMut, InsertReplace, InsertIntoLeafSlot, RemoveMiss,
                  RemoveReturns, AtLeaf, Repaired, Return, Leave, heap, Whole
    <2> QED
      BY <2>1, QuietOrder, SameChain
  <1> QED
    BY <1>1, <1>2

(* So do a descent and a search that finds nothing.                        *)
LEMMA SmallStepChain ==
  ASSUME NEW lvl \in [Node -> Nat], InvAt(lvl), InvAt(lvl)',
         NEW zone \in Zones, OrderAt(lvl, zone), ChainAt(zone),
         Descend \/ RemoveHit \/ FixNothing \/ InsertIntoBranch
  PROVE  \E Z \in Zones : OrderAt(lvl, Z)' /\ ChainAt(Z)'
  <1>1. /\ pc \in {"descend", "split", "fix"} /\ pc' \in {"idle", "descend", "fix"} /\ Whole'
        /\ UNCHANGED <<tag, next, prev>>
    BY DEF Descend, RemoveHit, FixNothing, Fixing, InsertIntoBranch, AtLeaf, Return, Leave, heap, Whole
  <1>2. \E Z \in Zones : OrderAt(lvl, Z)' /\ Keeps(zone, Z, {})
    BY DescendOrder, RemoveHitOrder, FixNothingOrder, InsertIntoBranchOrder
  <1> QED
    BY <1>1, <1>2, SameChain

(* So does a new call.                                                     *)
LEMMA CallChain ==
  ASSUME NEW lvl \in [Node -> Nat], InvAt(lvl), InvAt(lvl)',
         NEW zone \in Zones, OrderAt(lvl, zone), ChainAt(zone),
         NEW o, NEW k \in Key, NEW v \in Val, Call(o, k, v)
  PROVE  \E Z \in Zones : OrderAt(lvl, Z)' /\ ChainAt(Z)'
  <1>1. pc = "idle" /\ pc' = "descend" /\ Whole' /\ UNCHANGED <<tag, next, prev>>
    BY DEF Call, heap, Whole
  <1> QED
    BY <1>1, CallOrder, SameChain

(* Branches that share their children anew, split, or go.                  *)
LEMMA BranchChain ==
  ASSUME NEW lvl \in [Node -> Nat], NEW zone \in Zones, ChainAt(zone),
         pc \in {"fix", "split"}, pc' \in {"fix", "split", "idle"},
         NEW S, \E Z \in Zones : OrderAt(lvl, Z)' /\ Keeps(zone, Z, S),
         \A n \in S : n \in Node => tag[n] # "leaf",
         UNCHANGED <<next, prev>>,
         NEW x, \A n \in Node : n # x => tag'[n] = tag[n],
         x \in Node => tag[x] # "leaf" /\ tag'[x] # "leaf"
  PROVE  \E Z \in Zones : OrderAt(lvl, Z)' /\ ChainAt(Z)'
  <1>1. PICK Z \in Zones : OrderAt(lvl, Z)' /\ Keeps(zone, Z, S)
    OBVIOUS
  <1>2. Leaves' = Leaves /\ Live' \subseteq Live \cup {x} /\ \A n \in Leaves : n \notin S
    BY DEF Leaves, Live
  <1>3. Whole' /\ pc \notin {"free", "dropped"} /\ pc' \notin {"free", "dropped"}
    BY DEF Whole
  <1>4. ChainAt(Z)'
    BY <1>1, <1>2, <1>3, ChainStays
  <1> QED
    BY <1>1, <1>4

(* So does a borrow between branches, which moves a child only.            *)
LEMMA BorrowBranchChain ==
  ASSUME NEW lvl \in [Node -> Nat], InvAt(lvl), InvAt(lvl)',
         NEW zone \in Zones, OrderAt(lvl, zone), ChainAt(zone),
         BorrowFromLeftBranch \/ BorrowFromRightBranch
  PROVE  \E Z \in Zones : OrderAt(lvl, Z)' /\ ChainAt(Z)'
  <1>1. /\ Fixing /\ pc = "fix" /\ pc' = "fix" /\ tag[Fixed] = "branch"
        /\ UNCHANGED <<tag, next, prev>>
    BY DEF BorrowFromLeftBranch, BorrowFromRightBranch, Fixing
  <1>2. Seps \in Nat /\ FixPos \in 1 .. Seps + 1
    BY <1>1, FixFacts
  <1>3. CASE BorrowFromLeftBranch
    <2>1. FixPos > 1
      BY <1>3 DEF BorrowFromLeftBranch, LeftLends
    <2>2. FixPos - 1 \in 1 .. Seps + 1
      BY <1>2, <2>1, SMT
    <2>3. \A n \in {Child(FixPos - 1), Fixed} : tag[n] # "leaf"
      BY <1>1, <2>2, FixFacts
    <2>4. PICK S : S = {Child(FixPos - 1), Fixed}
      OBVIOUS
    <2>5. \E Z \in Zones : OrderAt(lvl, Z)' /\ Keeps(zone, Z, S)
      BY <1>3, <2>4, BorrowFromLeftBranchOrder
    <2>6. Null \notin Node
      BY NodeAssumption
    <2> QED
      BY <1>1, <2>3, <2>4, <2>5, <2>6, BranchChain
  <1>4. CASE BorrowFromRightBranch
    <2>1. FixPos <= Seps
      BY <1>4 DEF BorrowFromRightBranch, RightLends
    <2>2. FixPos + 1 \in 1 .. Seps + 1
      BY <1>2, <2>1, SMT
    <2>3. \A n \in {Fixed, Child(FixPos + 1)} : tag[n] # "leaf"
      BY <1>1, <2>2, FixFacts
    <2>4. PICK S : S = {Fixed, Child(FixPos + 1)}
      OBVIOUS
    <2>5. \E Z \in Zones : OrderAt(lvl, Z)' /\ Keeps(zone, Z, S)
      BY <1>4, <2>4, BorrowFromRightBranchOrder
    <2>6. Null \notin Node
      BY NodeAssumption
    <2> QED
      BY <1>1, <2>3, <2>4, <2>5, <2>6, BranchChain
  <1> QED
    BY <1>3, <1>4

(* So does a merge of branches.                                            *)
LEMMA MergeBranchesChain ==
  ASSUME NEW lvl \in [Node -> Nat], InvAt(lvl), InvAt(lvl)',
         NEW zone \in Zones, OrderAt(lvl, zone), ChainAt(zone), MergeBranches
  PROVE  \E Z \in Zones : OrderAt(lvl, Z)' /\ ChainAt(Z)'
  <1>1. PICK a : a = Into
    OBVIOUS
  <1>2. PICK b : b = From
    OBVIOUS
  <1>3. /\ Merging /\ pc = "fix" /\ pc' = "fix" /\ tag[Fixed] = "branch"
        /\ UNCHANGED <<next, prev>> /\ tag' = [tag EXCEPT ![b] = "free"]
    BY <1>2 DEF MergeBranches, Merging, Fixing
  <1>4. tag[a] = "branch" /\ tag[b] = "branch" /\ b \in Node /\ tag \in [Node -> {"free", "leaf", "branch"}]
    BY <1>1, <1>2, <1>3, MergeFacts DEF InvAt, TypeOK
  <1>5. \E Z \in Zones : OrderAt(lvl, Z)' /\ Keeps(zone, Z, {a, b})
    BY <1>1, <1>2, MergeBranchesOrder
  <1>6. (\A n \in Node : n # b => tag'[n] = tag[n]) /\ tag'[b] = "free"
    BY <1>3, <1>4
  <1> QED
    BY <1>3, <1>4, <1>5, <1>6, BranchChain

(* So does what an insert does above the leaves.                           *)
LEMMA GrowBranchChain ==
  ASSUME NEW lvl \in [Node -> Nat], InvAt(lvl), InvAt(lvl)',
         NEW zone \in Zones, OrderAt(lvl, zone), ChainAt(zone),
         \/ BranchInsertAndSplit /\ lvl[NewNode] = lvl[Parent]
         \/ NewRoot /\ lvl[NewNode] = lvl[root] + 1
  PROVE  \E Z \in Zones : OrderAt(lvl, Z)' /\ ChainAt(Z)'
  <1>1. PICK n : n = NewNode
    OBVIOUS
  <1>2. /\ pc = "split" /\ CanAlloc /\ UNCHANGED <<next, prev>>
        /\ tag' = [tag EXCEPT ![n] = "branch"]
    BY <1>1 DEF BranchInsertAndSplit, NewRoot
  <1>3. pc' \in {"split", "idle"}
    BY <1>2 DEF BranchInsertAndSplit, NewRoot, Return, Leave
  <1>4. n \in Node /\ tag[n] = "free" /\ tag \in [Node -> {"free", "leaf", "branch"}]
    BY <1>1, <1>2, NewBlock DEF InvAt, TypeOK
  <1>5. (\A m \in Node : m # n => tag'[m] = tag[m]) /\ tag'[n] = "branch"
    BY <1>2, <1>4
  <1>6. CASE BranchInsertAndSplit /\ lvl[NewNode] = lvl[Parent]
    <2>1. PICK p : p = Parent
      OBVIOUS
    <2>2. tag[p] = "branch"
      BY <1>2, <1>6, <2>1, ParentFacts DEF BranchInsertAndSplit, Walking
    <2>3. \E Z \in Zones : OrderAt(lvl, Z)' /\ Keeps(zone, Z, {p, n})
      BY <1>1, <1>6, <2>1, BranchInsertAndSplitOrder
    <2> QED
      BY <1>2, <1>3, <1>4, <1>5, <2>2, <2>3, BranchChain
  <1>7. CASE NewRoot /\ lvl[NewNode] = lvl[root] + 1
    <2>1. \E Z \in Zones : OrderAt(lvl, Z)' /\ Keeps(zone, Z, {n})
      BY <1>1, <1>7, NewRootOrder
    <2> QED
      BY <1>2, <1>3, <1>4, <1>5, <2>1, BranchChain
  <1> QED
    BY <1>6, <1>7

-----------------------------------------------------------------------------
(* Neighbours among the leaves.                                            *)

(* What is looked for in a block has no gaps.                              *)
Convex(S) == \A i, k \in S, j \in Key : i <= j /\ j <= k => j \in S

(* The keys a branch sends to one child are an interval of its own.        *)
LEMMA SliceConvex ==
  ASSUME NEW ks \in Seq(Key), NEW i \in 1 .. Len(ks) + 1
  PROVE  Convex(Slice(ks, i))
  <1> SUFFICES ASSUME NEW a \in Slice(ks, i), NEW c \in Slice(ks, i), NEW b \in Key,
                      a <= b, b <= c
               PROVE  b \in Slice(ks, i)
    BY DEF Convex
  <1>1. /\ a \in Int /\ b \in Int /\ c \in Int
        /\ \A j \in 1 .. Len(ks) : ks[j] \in Int
        /\ Len(ks) \in Nat
    BY KeyAssumption, KeysAreInts DEF Slice
  <1>2. i > 1 => ks[i - 1] <= b
    <2> SUFFICES ASSUME i > 1 PROVE ks[i - 1] <= b
      OBVIOUS
    <2>1. i - 1 \in 1 .. Len(ks)
      BY <1>1, SMT
    <2>2. ks[i - 1] <= a /\ ks[i - 1] \in Int
      BY <1>1, <2>1 DEF Slice
    <2> QED
      BY <1>1, <2>2, SMT
  <1>3. i <= Len(ks) => b < ks[i]
    <2> SUFFICES ASSUME i <= Len(ks) PROVE b < ks[i]
      OBVIOUS
    <2>1. i \in 1 .. Len(ks)
      BY <1>1, SMT
    <2>2. c < ks[i] /\ ks[i] \in Int
      BY <1>1, <2>1 DEF Slice
    <2> QED
      BY <1>1, <2>2, SMT
  <1> QED
    BY <1>2, <1>3 DEF Slice

(* The highest block with a gap would have its parent's gap.               *)
LEMMA ZonesConvex ==
  ASSUME NEW lvl \in [Node -> Nat], InvAt(lvl), NEW zone \in Zones, OrderAt(lvl, zone),
         pc = "fix", NEW n \in Live
  PROVE  Convex(zone[n])
  <1>1. /\ TypeOK /\ Shape /\ right = Null /\ root # Null /\ root \in Node /\ tag[root] # "free"
        /\ Levels(lvl, tag, children)
    BY DEF InvAt, Carried, Rooted, TypeOK
  <1>2. WholeAt(lvl, zone) /\ Whole
    BY DEF OrderAt, WholeAt, Whole
  <1>3. PICK b : b = lvl[root]
    OBVIOUS
  <1>4. b \in Nat /\ \A m \in Live : m \in Node /\ lvl[m] \in Nat /\ lvl[m] <= b
    BY <1>1, <1>2, <1>3 DEF WholeAt, Topped, Live
  <1> DEFINE T == {x \in Nat : \E m \in Live : ~Convex(zone[m]) /\ lvl[m] + x = b}
  <1> SUFFICES ASSUME ~Convex(zone[n]) PROVE FALSE
    OBVIOUS
  <1>5. b - lvl[n] \in T
    <2>1. b - lvl[n] \in Nat /\ lvl[n] + (b - lvl[n]) = b
      BY <1>4, SMT
    <2> QED
      BY <2>1
  <1>6. PICK x \in T : \A y \in T : x <= y
    BY <1>5, LeastOf
  <1>7. PICK m \in Live : ~Convex(zone[m]) /\ lvl[m] + x = b
    OBVIOUS
  <1>8. m # root
    <2>1. zone[root] = Key
      BY <1>1, <1>2 DEF WholeAt, Spanned
    <2> QED
      BY <1>7, <2>1 DEF Convex
  <1>9. PICK p \in Live : m \in Kids(p)
    BY <1>1, <1>2, <1>4, <1>8, NodeAssumption DEF WholeAt, Hung
  <1>10. p \in Node /\ lvl[p] = lvl[m] + 1 /\ lvl[p] <= b
    BY <1>1, <1>4, <1>9 DEF Levels, Kids
  <1>11. PICK i \in 1 .. Len(children[p]) : m = children[p][i]
    BY <1>1, <1>9, <1>10, ChildNodes
  <1>12. ~Convex(zone[p])
    <2> SUFFICES ASSUME Convex(zone[p]) PROVE FALSE
      OBVIOUS
    <2>1. \A k \in Key : k \in zone[m] <=> k \in zone[p] /\ k \in Slice(keys[p], i)
      BY <1>1, <1>2, <1>11, FanOf DEF WholeAt, Fan
    <2>2. keys[p] \in Seq(Key) /\ Len(children[p]) = Len(keys[p]) + 1
      <3>1. tag[p] # "leaf" /\ tag[p] # "free"
        <4>1. Len(children[p]) # 0
          BY <1>1, <1>10, <1>11, ChildNodes, SMT
        <4>2. tag[p] = "leaf" => children[p] = <<>>
          BY <1>1, <1>10, BlockTypes
        <4> QED
          BY <4>1, <4>2 DEF Live
      <3> QED
        BY <1>1, <1>10, <3>1, BlockTypes
    <2>3. Convex(Slice(keys[p], i))
      BY <2>2, SliceConvex
    <2>4. zone[m] \subseteq Key
      BY <1>4 DEF Zones
    <2>5. Convex(zone[m])
      BY <2>1, <2>3, <2>4 DEF Convex
    <2> QED
      BY <1>7, <2>5
  <1>13. PICK l : l = lvl[m]
    OBVIOUS
  <1>14. x - 1 \in Nat /\ (l + 1) + (x - 1) = b /\ ~(x <= x - 1)
    <2>1. x \in Nat /\ l \in Nat /\ l + x = b /\ l + 1 <= b
      BY <1>4, <1>7, <1>10, <1>13
    <2> QED
      BY <1>4, <2>1, SMT
  <1>15. x - 1 \in T
    BY <1>10, <1>12, <1>13, <1>14
  <1> QED
    BY <1>6, <1>14, <1>15

(* No leaf lies between two leaves that are next to each other in their    *)
(* parent.                                                                 *)
LEMMA NoneBetween ==
  ASSUME NEW lvl \in [Node -> Nat], InvAt(lvl), NEW zone \in Zones, OrderAt(lvl, zone),
         Fixing, NEW q \in 1 .. Seps, NEW a, a = Child(q), NEW b, b = Child(q + 1),
         tag[a] = "leaf", NEW m \in Leaves, m # a, m # b
  PROVE  ~(Lower(zone[a], zone[m]) /\ Lower(zone[m], zone[b]))
  <1> SUFFICES ASSUME Lower(zone[a], zone[m]), Lower(zone[m], zone[b])  PROVE FALSE
    OBVIOUS
  <1>1. PICK p : p = Parent
    OBVIOUS
  <1>2. /\ WholeAt(lvl, zone) /\ p \in Live /\ a \in Live /\ b \in Live
        /\ p \in Node /\ a \in Node /\ b \in Node
        /\ lvl[b] = lvl[a] /\ lvl[p] = lvl[a] + 1
        /\ keys[p] \in Seq(Key) /\ Sorted(keys[p]) /\ Len(children[p]) = Len(keys[p]) + 1
        /\ a = children[p][q] /\ b = children[p][q + 1]
        /\ q \in 1 .. Len(children[p]) /\ q + 1 \in 1 .. Len(children[p])
        /\ q \in 1 .. Len(keys[p])
        /\ Fan(zone, zone[p], keys[p], children[p])
    BY <1>1, Neighbours
  <1>3. /\ TypeOK /\ Levels(lvl, tag, children) /\ pc = "fix" /\ m \in Node /\ m \in Live
        /\ tag[m] = "leaf"
    BY DEF InvAt, Fixing, Leaves, Live
  <1>4. /\ zone[a] \subseteq Key /\ zone[b] \subseteq Key /\ zone[m] \subseteq Key
        /\ zone[a] # {} /\ zone[b] # {} /\ zone[m] # {}
    BY <1>2, <1>3 DEF WholeAt, Ordered, Zones
  <1>5. PICK i \in zone[a] : i \in Key
    BY <1>4
  <1>6. PICK j \in zone[m] : j \in Key
    BY <1>4
  <1>7. PICK k \in zone[b] : k \in Key
    BY <1>4
  <1>8. i \in Int /\ j \in Int /\ k \in Int /\ i < j /\ j < k
    BY <1>5, <1>6, <1>7, KeyAssumption DEF Lower
  <1>9. j \in zone[p]
    <2>1. i \in zone[p] /\ k \in zone[p]
      BY <1>2, <1>5, <1>7 DEF Fan
    <2>2. Convex(zone[p])
      BY <1>2, <1>3, ZonesConvex
    <2>3. i <= j /\ j <= k
      BY <1>8, SMT
    <2> QED
      BY <1>6, <2>1, <2>2, <2>3 DEF Convex
  <1>10. PICK r \in 1 .. Len(keys[p]) + 1 : j \in Slice(keys[p], r)
    BY <1>2, <1>6, RankSlice
  <1>11. PICK c : c = children[p][r]
    OBVIOUS
  <1>12. r \in 1 .. Len(children[p])
    BY <1>2, <1>10
  <1>13. j \in zone[c]
    BY <1>2, <1>6, <1>9, <1>10, <1>11, <1>12 DEF Fan
  <1>14. c = m
    <2>1. c \in Live /\ c \in Node /\ c \in Kids(p)
      <3>1. c \in Node /\ c \in Kids(p)
        BY <1>2, <1>3, <1>11, <1>12, ChildNodes
      <3>2. Kids(p) \subseteq Live
        BY <1>2, <1>3 DEF InvAt, Rooted, Kids
      <3> QED
        BY <3>1, <3>2
    <2>2. lvl[p] = lvl[c] + 1
      BY <1>2, <1>3, <2>1 DEF Levels, Kids
    <2>3. lvl[c] \in Nat /\ lvl[a] \in Nat /\ lvl[a] = 0 /\ lvl[m] = 0
      BY <1>2, <1>3, <2>1 DEF Levels
    <2>4. lvl[c] = lvl[m]
      BY <1>2, <2>2, <2>3, SMT
    <2> QED
      BY <1>2, <1>3, <1>6, <1>13, <2>1, <2>4 DEF WholeAt, OneZone
  <1>15. PICK w : w = keys[p][q]
    OBVIOUS
  <1>16. r < q \/ r > q + 1
    <2>1. r # q /\ r # q + 1
      BY <1>2, <1>11, <1>14
    <2> QED
      BY <2>1, <1>2, <1>10, SMT
  <1>17. i \in Slice(keys[p], q) /\ k \in Slice(keys[p], q + 1)
    BY <1>2, <1>5, <1>7 DEF Fan
  <1>18. \A h \in 1 .. Len(keys[p]) : keys[p][h] \in Int
    BY <1>2, KeysAreInts
  <1>19. CASE r < q
    <2>1. PICK h : h = q - 1
      OBVIOUS
    <2>2. h \in 1 .. Len(keys[p]) /\ r \in 1 .. Len(keys[p]) /\ q > 1 /\ (r = h \/ r < h)
          /\ r <= Len(keys[p])
      BY <1>2, <1>10, <1>19, <2>1, SMT
    <2>3. keys[p][h] <= i /\ j < keys[p][r]
      BY <1>10, <1>17, <2>1, <2>2 DEF Slice
    <2>4. keys[p][r] = keys[p][h] \/ keys[p][r] < keys[p][h]
      BY <1>2, <2>2 DEF Sorted
    <2> QED
      BY <1>8, <1>18, <2>2, <2>3, <2>4, SMT
  <1>20. CASE r > q + 1
    <2>1. PICK h : h = r - 1
      OBVIOUS
    <2>2. PICK g : g = q + 1
      OBVIOUS
    <2>3. h \in 1 .. Len(keys[p]) /\ g \in 1 .. Len(keys[p]) /\ r > 1 /\ (h = g \/ g < h)
          /\ g <= Len(keys[p])
      BY <1>2, <1>10, <1>20, <2>1, <2>2, SMT
    <2>4. keys[p][h] <= j /\ k < keys[p][g]
      BY <1>10, <1>17, <2>1, <2>2, <2>3 DEF Slice
    <2>5. keys[p][g] = keys[p][h] \/ keys[p][g] < keys[p][h]
      BY <1>2, <2>3 DEF Sorted
    <2> QED
      BY <1>8, <1>18, <2>3, <2>4, <2>5, SMT
  <1> QED
    BY <1>16, <1>19, <1>20

(* Any other leaf lies to each part of the two as it lies to either.       *)
LEMMA PairSides ==
  ASSUME NEW lvl \in [Node -> Nat], InvAt(lvl), NEW zone \in Zones, OrderAt(lvl, zone),
         ChainAt(zone), Fixing, NEW q \in 1 .. Seps, NEW a, a = Child(q), NEW b, b = Child(q + 1),
         tag[a] = "leaf", NEW m \in Leaves, m # a, m # b,
         NEW C, C \subseteq zone[a] \cup zone[b], C # {}
  PROVE  /\ Lower(zone[m], C) <=> Lower(zone[m], zone[a])
         /\ Lower(C, zone[m]) <=> Lower(zone[a], zone[m])
         /\ Lower(zone[m], C) <=> Lower(zone[m], zone[b])
         /\ Lower(C, zone[m]) <=> Lower(zone[b], zone[m])
  <1>1. PICK A : A = zone[a]
    OBVIOUS
  <1>2. PICK B : B = zone[b]
    OBVIOUS
  <1>3. PICK M : M = zone[m]
    OBVIOUS
  <1>4. pc = "fix" /\ a \in Leaves /\ b \in Leaves
    <2>1. a \in Node /\ b \in Node /\ tag[a] = tag[b]
      BY Neighbours
    <2> QED
      BY <2>1 DEF Fixing, Leaves
  <1>5. /\ A # {} /\ A \subseteq Int /\ B # {} /\ B \subseteq Int /\ M # {} /\ M \subseteq Int
        /\ Lower(M, A) \/ Lower(A, M)
        /\ Lower(M, B) \/ Lower(B, M)
    <2>1. /\ ChainOf(Leaves, next, prev, zone)
          /\ \A n \in Leaves : zone[n] # {} /\ zone[n] \subseteq Int
      BY <1>4, ChainFacts
    <2>2. \A n \in Leaves : m # n => Lower(zone[m], zone[n]) \/ Lower(zone[n], zone[m])
      BY <2>1 DEF ChainOf
    <2> QED
      BY <1>1, <1>2, <1>3, <1>4, <2>1, <2>2
  <1>6. Lower(A, B)
    <2>1. PICK w : w = keys[Parent][q]
      OBVIOUS
    <2>2. /\ w \in Key /\ \A k \in Key : k \in A => k < w
          /\ \A k \in Key : k \in B => w <= k
          /\ a \in Node /\ b \in Node
      BY <1>1, <1>2, <2>1, Neighbours
    <2>3. A \subseteq Key /\ B \subseteq Key
      BY <1>1, <1>2, <2>2 DEF Zones
    <2> SUFFICES ASSUME NEW j \in A, NEW k \in B PROVE j < k
      BY DEF Lower
    <2>4. j < w /\ w <= k /\ j \in Int /\ w \in Int /\ k \in Int
      BY <2>2, <2>3, KeyAssumption
    <2> QED
      BY <2>4, SMT
  <1>7. ~(Lower(A, M) /\ Lower(M, B))
    BY <1>1, <1>2, <1>3, NoneBetween
  <1>8. /\ Lower(M, A) => Lower(M, B)
        /\ Lower(B, M) => Lower(A, M)
    BY <1>5, <1>6, LowerStrict
  <1>9. Lower(M, A \cup B) \/ Lower(A \cup B, M)
    BY <1>5, <1>7, <1>8 DEF Lower
  <1>10. A \cup B \subseteq Int /\ C \subseteq A \cup B /\ A \subseteq A \cup B /\ B \subseteq A \cup B
    BY <1>1, <1>2, <1>5
  <1>11. /\ Lower(M, C) <=> Lower(M, A \cup B)
         /\ Lower(C, M) <=> Lower(A \cup B, M)
    BY ONLY <1>5, <1>9, <1>10, C # {}, PartLower
  <1>12. /\ Lower(M, A) <=> Lower(M, A \cup B)
         /\ Lower(A, M) <=> Lower(A \cup B, M)
    BY ONLY <1>5, <1>9, <1>10, PartLower
  <1>13. /\ Lower(M, B) <=> Lower(M, A \cup B)
         /\ Lower(B, M) <=> Lower(A \cup B, M)
    BY ONLY <1>5, <1>9, <1>10, PartLower
  <1> QED
    BY <1>1, <1>2, <1>3, <1>11, <1>12, <1>13

(* What two neighbours share anew is what both had.                        *)
LEMMA NewShare ==
  ASSUME NEW lvl \in [Node -> Nat], InvAt(lvl), InvAt(lvl)', NEW zone \in Zones, OrderAt(lvl, zone),
         NEW Z \in Zones, OrderAt(lvl, Z)', pc' = "fix",
         Fixing, NEW q \in 1 .. Seps, NEW p, p = Parent, NEW a, a = Child(q), NEW b, b = Child(q + 1),
         Keeps(zone, Z, {a, b}), \A n \in Live : n # b => n \in Live',
         NEW c \in {a, b}, c \in Live', c \in Kids(p)'
  PROVE  Z[c] # {} /\ Z[c] \subseteq zone[a] \cup zone[b]
  <1>1. /\ WholeAt(lvl, zone) /\ p \in Live /\ a \in Live /\ b \in Live
        /\ p \in Node /\ a \in Node /\ b \in Node /\ a # p /\ b # p
        /\ lvl[b] = lvl[a] /\ lvl[p] = lvl[a] + 1
        /\ keys[p] \in Seq(Key) /\ Sorted(keys[p]) /\ Len(children[p]) = Len(keys[p]) + 1
        /\ Fan(zone, zone[p], keys[p], children[p])
    BY Neighbours
  <1>2. TypeOK /\ TypeOK' /\ Levels(lvl, tag, children)
    BY DEF InvAt
  <1>3. Ordered(Z)' /\ OneZone(lvl, Z)' /\ Fanned(Z)'
    BY DEF OrderAt, Whole
  <1>4. c \in Node /\ p \in Live' /\ Z[p] = zone[p] /\ lvl[c] = lvl[a]
    BY <1>1 DEF Keeps
  <1>5. Z[c] \subseteq zone[p]
    <2>1. children'[p] \in Seq(Node) /\ c \in Range(children'[p])
      BY <1>1, <1>2 DEF TypeOK, Kids
    <2>2. PICK i \in 1 .. Len(children'[p]) : c = children'[p][i]
      BY <2>1, Entries
    <2>3. Z[c] \subseteq Z[p]
      BY <1>3, <1>4, <2>2 DEF Fanned
    <2> QED
      BY <1>4, <2>3
  <1>6. Z[c] # {} /\ Z[c] \subseteq Key
    BY <1>3, <1>4 DEF Ordered, Zones
  <1>7. ASSUME NEW k \in Z[c]  PROVE k \in zone[a] \cup zone[b]
    <2> SUFFICES ASSUME k \notin zone[a], k \notin zone[b] PROVE FALSE
      OBVIOUS
    <2>1. k \in Key /\ k \in zone[p]
      BY <1>5, <1>6
    <2>2. PICK r \in 1 .. Len(keys[p]) + 1 : k \in Slice(keys[p], r)
      BY <1>1, <2>1, RankSlice
    <2>3. PICK x : x = children[p][r]
      OBVIOUS
    <2>4. k \in zone[x] /\ r \in 1 .. Len(children[p])
      BY <1>1, <2>1, <2>2, <2>3 DEF Fan
    <2>5. x \in Node /\ x \in Kids(p) /\ x \in Live
      <3>1. x \in Node /\ x \in Kids(p)
        BY <1>1, <1>2, <2>3, <2>4, ChildNodes
      <3>2. Kids(p) \subseteq Live
        BY <1>1 DEF InvAt, Rooted, Kids, Fixing
      <3> QED
        BY <3>1, <3>2
    <2>6. x # a /\ x # b
      BY <2>4
    <2>7. Z[x] = zone[x] /\ x \in Live'
      BY <2>5, <2>6 DEF Keeps
    <2>8. lvl[x] = lvl[c]
      <3>1. lvl[p] = lvl[x] + 1 /\ lvl[x] \in Nat /\ lvl[a] \in Nat
        BY <1>1, <1>2, <2>5 DEF Levels, Kids
      <3> QED
        BY <1>1, <1>4, <3>1, SMT
    <2> QED
      BY <1>3, <2>4, <2>6, <2>7, <2>8 DEF OneZone
  <1> QED
    BY <1>6, <1>7

(* No set of keys is below itself, nor two below each other.               *)
LEMMA NotLower ==
  ASSUME NEW A, A \subseteq Int, A # {}
  PROVE  ~Lower(A, A) /\ \A B : B \subseteq Int /\ B # {} /\ Lower(A, B) => ~Lower(B, A)
  BY LowerStrict

(* Two neighbouring leaves share anew: the chain stays.                    *)
LEMMA LeafPairChain ==
  ASSUME NEW lvl \in [Node -> Nat], InvAt(lvl), InvAt(lvl)',
         NEW zone \in Zones, OrderAt(lvl, zone), ChainAt(zone),
         Fixing, NEW q \in 1 .. Seps, NEW a, a = Child(q), NEW b, b = Child(q + 1),
         tag[a] = "leaf", pc' = "fix", UNCHANGED <<tag, children, next, prev>>,
         \E Z \in Zones : OrderAt(lvl, Z)' /\ Keeps(zone, Z, {a, b})
  PROVE  \E Z \in Zones : OrderAt(lvl, Z)' /\ ChainAt(Z)'
  <1>1. PICK Z \in Zones : OrderAt(lvl, Z)' /\ Keeps(zone, Z, {a, b})
    OBVIOUS
  <1>2. PICK p : p = Parent
    OBVIOUS
  <1>3. /\ p \in Live /\ a \in Live /\ b \in Live /\ p \in Node /\ a \in Node /\ b \in Node
        /\ a # b /\ tag[b] = "leaf" /\ a \in Kids(p) /\ b \in Kids(p)
        /\ a = children[p][q] /\ b = children[p][q + 1]
        /\ q \in 1 .. Len(children[p]) /\ q + 1 \in 1 .. Len(children[p])
        /\ Len(children[p]) = Len(keys[p]) + 1 /\ q \in 1 .. Len(keys[p])
    BY <1>2, Neighbours
  <1>4. /\ Live' = Live /\ Leaves' = Leaves /\ a \in Leaves /\ b \in Leaves
        /\ Kids(p)' = Kids(p) /\ pc = "fix" /\ Whole'
        /\ (\A n \in Live : n # b => n \in Live') /\ a \in Live' /\ b \in Live'
        /\ a \in Kids(p)' /\ b \in Kids(p)'
    BY <1>3 DEF Live, Leaves, Kids, Fixing, Whole
  <1>5. /\ ChainOf(Leaves, next, prev, zone) /\ Null \notin Leaves
        /\ \A n \in Leaves : n \in Node /\ zone[n] # {} /\ zone[n] \subseteq Int
    BY <1>4, ChainFacts
  <1>6. \A c \in {a, b} : Z[c] # {} /\ Z[c] \subseteq zone[a] \cup zone[b]
    <2> TAKE c \in {a, b}
    <2>1. c \in Live' /\ c \in Kids(p)'
      BY <1>4
    <2> QED
      BY <1>1, <1>2, <1>4, <2>1, NewShare
  <1>7. Lower(zone[a], zone[b])
    <2>1. PICK w : w = keys[p][q]
      OBVIOUS
    <2>2. /\ w \in Key /\ (\A k \in Key : k \in zone[a] => k < w)
          /\ \A k \in Key : k \in zone[b] => w <= k
      BY <1>2, <2>1, Neighbours
    <2> SUFFICES ASSUME NEW j \in zone[a], NEW k \in zone[b] PROVE j < k
      BY DEF Lower
    <2>3. j \in Key /\ k \in Key
      BY <1>3 DEF Zones
    <2>4. j < w /\ w <= k /\ j \in Int /\ w \in Int /\ k \in Int
      BY <2>2, <2>3, KeyAssumption
    <2> QED
      BY <2>4, SMT
  <1>8. Lower(Z[a], Z[b])
    <2>1. TypeOK' /\ Shape' /\ tag'[p] # "free" /\ tag'[p] # "leaf"
      BY <1>2, <1>3, ParentFacts DEF InvAt, Fixing, Walking
    <2>2. PICK ks : ks = keys'[p]
      OBVIOUS
    <2>3. ks \in Seq(Key) /\ Len(children'[p]) = Len(ks) + 1
      BY <1>3, <2>1, <2>2 DEF TypeOK, Shape
    <2>4. q \in 1 .. Len(ks) /\ q <= Len(ks) /\ q + 1 > 1 /\ q + 1 - 1 = q
      BY <1>3, <2>3, SMT
    <2>5. PICK g : g = q + 1
      OBVIOUS
    <2>6. Z[a] \subseteq Slice(ks, q) /\ Z[b] \subseteq Slice(ks, g)
      <3>1. Fanned(Z)'
        BY <1>1, <1>4 DEF OrderAt
      <3>2. /\ p \in Live' /\ a = children'[p][q] /\ b = children'[p][g]
            /\ q \in 1 .. Len(children'[p]) /\ g \in 1 .. Len(children'[p])
        BY <1>3, <1>4, <2>5
      <3> QED
        BY <2>2, <3>1, <3>2 DEF Fanned
    <2> SUFFICES ASSUME NEW j \in Z[a], NEW k \in Z[b] PROVE j < k
      BY DEF Lower
    <2>7. PICK w : w = ks[q]
      OBVIOUS
    <2>8. j < w /\ w <= k
      BY <2>4, <2>5, <2>6, <2>7 DEF Slice
    <2>9. j \in Int /\ k \in Int /\ w \in Int
      <3>1. j \in Key /\ k \in Key
        BY <1>3 DEF Zones
      <3> QED
        BY <2>3, <2>4, <2>7, <3>1, KeysAreInts, KeyAssumption
    <2> QED
      BY <2>8, <2>9, SMT
  <1>9. \A n \in Leaves : n # a /\ n # b => Z[n] = zone[n]
    BY <1>1, <1>5 DEF Keeps
  <1>10. ASSUME NEW m \in Leaves, m # a, m # b, NEW n \in {a, b}
         PROVE  /\ Lower(Z[m], Z[n]) <=> Lower(zone[m], zone[n])
                /\ Lower(Z[n], Z[m]) <=> Lower(zone[n], zone[m])
    <2>1. PICK C : C = Z[n]
      OBVIOUS
    <2>2. C # {} /\ C \subseteq zone[a] \cup zone[b]
      BY <1>6, <2>1
    <2>3. /\ Lower(zone[m], C) <=> Lower(zone[m], zone[n])
          /\ Lower(C, zone[m]) <=> Lower(zone[n], zone[m])
      BY <1>10, <2>2, PairSides
    <2> QED
      BY <1>9, <1>10, <2>1, <2>3
  <1>11. ASSUME NEW m \in {a, b}, NEW n \in {a, b}
         PROVE  Lower(Z[m], Z[n]) <=> Lower(zone[m], zone[n])
    <2>1. \A c \in {a, b} : zone[c] # {} /\ zone[c] \subseteq Int /\ Z[c] # {} /\ Z[c] \subseteq Int
      BY <1>4, <1>5, <1>6
    <2>2. \A c \in {a, b} : ~Lower(zone[c], zone[c]) /\ ~Lower(Z[c], Z[c])
      BY <2>1, NotLower
    <2>3. ~Lower(zone[b], zone[a]) /\ ~Lower(Z[b], Z[a])
      BY <1>7, <1>8, <2>1, NotLower
    <2> QED
      BY <1>7, <1>8, <2>2, <2>3
  <1>12. \A m, n \in Leaves : Lower(Z[m], Z[n]) <=> Lower(zone[m], zone[n])
    BY <1>9, <1>10, <1>11
  <1>13. ChainOf(Leaves, next, prev, Z)
    BY <1>5, <1>12, ChainSame
  <1>14. ChainOf(Leaves', next', prev', Z) /\ OffChain'
    BY <1>4, <1>13 DEF ChainAt, OffChain
  <1>15. IsFiniteSet(Live) /\ Live' \subseteq Live \cup {Null}
    BY <1>4 DEF ChainAt
  <1>16. ChainAt(Z)'
    BY <1>1, <1>4, <1>14, <1>15, ChainNext
  <1> QED
    BY <1>1, <1>16

(* A borrow between leaves moves the border of two neighbours.             *)
LEMMA BorrowLeafChain ==
  ASSUME NEW lvl \in [Node -> Nat], InvAt(lvl), InvAt(lvl)',
         NEW zone \in Zones, OrderAt(lvl, zone), ChainAt(zone),
         BorrowFromLeftLeaf \/ BorrowFromRightLeaf
  PROVE  \E Z \in Zones : OrderAt(lvl, Z)' /\ ChainAt(Z)'
  <1>1. /\ Fixing /\ pc' = "fix" /\ tag[Fixed] = "leaf"
        /\ UNCHANGED <<tag, children, next, prev>>
    BY DEF BorrowFromLeftLeaf, BorrowFromRightLeaf, Fixing
  <1>2. Seps \in Nat /\ FixPos \in 1 .. Seps + 1
    BY <1>1, FixFacts
  <1>3. CASE BorrowFromLeftLeaf
    <2>1. PICK q : q = FixPos - 1
      OBVIOUS
    <2>2. FixPos > 1
      BY <1>3 DEF BorrowFromLeftLeaf, LeftLends
    <2>3. q \in 1 .. Seps /\ q + 1 = FixPos /\ q \in 1 .. Seps + 1
      BY <1>2, <2>1, <2>2, SMT
    <2>4. PICK a : a = Child(q)
      OBVIOUS
    <2>5. PICK b : b = Child(q + 1)
      OBVIOUS
    <2>6. {Child(FixPos - 1), Fixed} = {a, b} /\ tag[a] = "leaf"
      BY <1>1, <2>1, <2>3, <2>4, <2>5, FixFacts DEF Fixed
    <2>7. \E Z \in Zones : OrderAt(lvl, Z)' /\ Keeps(zone, Z, {a, b})
      BY <1>3, <2>6, BorrowFromLeftLeafOrder
    <2> QED
      BY <1>1, <2>3, <2>4, <2>5, <2>6, <2>7, LeafPairChain
  <1>4. CASE BorrowFromRightLeaf
    <2>1. PICK q : q = FixPos
      OBVIOUS
    <2>2. FixPos <= Seps
      BY <1>4 DEF BorrowFromRightLeaf, RightLends
    <2>3. q \in 1 .. Seps
      BY <1>2, <2>1, <2>2, SMT
    <2>4. PICK a : a = Child(q)
      OBVIOUS
    <2>5. PICK b : b = Child(q + 1)
      OBVIOUS
    <2>6. {Fixed, Child(FixPos + 1)} = {a, b} /\ tag[a] = "leaf"
      BY <1>1, <2>1, <2>4, <2>5 DEF Fixed
    <2>7. \E Z \in Zones : OrderAt(lvl, Z)' /\ Keeps(zone, Z, {a, b})
      BY <1>4, <2>6, BorrowFromRightLeafOrder
    <2> QED
      BY <1>1, <2>3, <2>4, <2>5, <2>6, <2>7, LeafPairChain
  <1> QED
    BY <1>3, <1>4

(* One leaf is unlinked.                                                   *)
Bypasses(to, fro, g, new) ==
  \A n \in Node : new[n] = IF n = g THEN Null ELSE IF fro[g] = n THEN to[g] ELSE to[n]

(* Unlinked takes one leaf out.                                            *)
LEMMA UnlinkedOne ==
  ASSUME NEW to, NEW fro, NEW g, NEW new, new = Unlinked(to, fro, {g})
  PROVE  Bypasses(to, fro, g, new)
  <1> SUFFICES ASSUME NEW n \in Node
               PROVE  new[n] = IF n = g THEN Null ELSE IF fro[g] = n THEN to[g] ELSE to[n]
    BY DEF Bypasses
  <1>1. fro[g] = n => (CHOOSE h \in {g} : fro[h] = n) = g
    OBVIOUS
  <1> QED
    BY <1>1 DEF Unlinked

(* A merge of leaves takes the right one out of the chain.                 *)
LEMMA MergeLeavesChain ==
  ASSUME NEW lvl \in [Node -> Nat], InvAt(lvl), InvAt(lvl)',
         NEW zone \in Zones, OrderAt(lvl, zone), ChainAt(zone), MergeLeaves
  PROVE  \E Z \in Zones : OrderAt(lvl, Z)' /\ ChainAt(Z)'
  <1>1. PICK p : p = Parent
    OBVIOUS
  <1>2. PICK q : q = MergePos
    OBVIOUS
  <1>3. PICK a : a = Into
    OBVIOUS
  <1>4. PICK b : b = From
    OBVIOUS
  <1>5. /\ Merging /\ Fixing /\ tag[Fixed] = "leaf" /\ pc = "fix" /\ pc' = "fix" /\ Whole'
        /\ tag' = [tag EXCEPT ![b] = "free"]
        /\ children' = [children EXCEPT ![p] = RemoveAt(@, q + 1)]
        /\ next' = Unlinked(next, prev, {b}) /\ prev' = Unlinked(prev, next, {b})
    BY <1>1, <1>2, <1>4 DEF MergeLeaves, Merging, Fixing, Whole
  <1>6. /\ p \in Node /\ a \in Node /\ b \in Node /\ a # b /\ a # p /\ b # p
        /\ tag[a] = "leaf" /\ tag[b] = "leaf" /\ tag[p] = "branch" /\ q \in 1 .. Seps
        /\ q + 1 \in 1 .. Len(children[p])
    BY <1>1, <1>2, <1>3, <1>4, <1>5, MergeFacts DEF Seps
  <1>7. a = Child(q) /\ b = Child(q + 1)
    BY <1>2, <1>3, <1>4 DEF Into, From
  <1>8. /\ tag \in [Node -> {"free", "leaf", "branch"}] /\ children \in [Node -> Seq(Node)]
        /\ OneOwner(children)
    BY DEF InvAt, TypeOK
  <1>9. /\ tag'[b] = "free" /\ (\A n \in Node : n # b => tag'[n] = tag[n])
        /\ children'[p] = RemoveAt(children[p], q + 1)
    BY <1>5, <1>6, <1>8
  <1>10. /\ Leaves' = Leaves \ {b} /\ a \in Leaves /\ b \in Leaves
         /\ Live' \subseteq Live \cup {Null} /\ (\A n \in Live : n # b => n \in Live')
         /\ a \in Live' /\ a # b
    BY <1>6, <1>9 DEF Leaves, Live
  <1>11. a \in Kids(p)'
    <2>1. a \in Kids(p) /\ b = children[p][q + 1]
      BY <1>1, <1>5, <1>6, <1>7, Neighbours
    <2>2. Drops(children[p], b, children'[p])
      BY <1>6, <1>8, <1>9, <2>1, RemoveDrops
    <2> QED
      BY <1>6, <1>8, <2>1, <2>2 DEF Drops, Kids, OneOwner
  <1>12. PICK Z \in Zones : OrderAt(lvl, Z)' /\ Keeps(zone, Z, {a, b})
    BY <1>3, <1>4, MergeLeavesOrder
  <1>13. Z[a] # {} /\ Z[a] \subseteq zone[a] \cup zone[b]
    BY <1>1, <1>5, <1>6, <1>7, <1>10, <1>11, <1>12, NewShare
  <1>14. /\ ChainOf(Leaves, next, prev, zone) /\ Strictly(Leaves, zone) /\ Null \notin Leaves
         /\ \A n \in Leaves : n \in Node /\ zone[n] # {} /\ zone[n] \subseteq Int
    BY <1>5, ChainFacts
  <1>14a. Bypasses(next, prev, b, next') /\ Bypasses(prev, next, b, prev')
    <2>1. PICK nx : nx = next'
      OBVIOUS
    <2>2. PICK pv : pv = prev'
      OBVIOUS
    <2>3. PICK to : to = next
      OBVIOUS
    <2>4. PICK fro : fro = prev
      OBVIOUS
    <2>5. nx = Unlinked(to, fro, {b}) /\ pv = Unlinked(fro, to, {b})
      BY <1>5, <2>1, <2>2, <2>3, <2>4
    <2>6. Bypasses(to, fro, b, nx) /\ Bypasses(fro, to, b, pv)
      BY <2>5, UnlinkedOne
    <2> QED
      BY <2>1, <2>2, <2>3, <2>4, <2>6
  <1>15. /\ \A n \in Leaves : n # b => next'[n] = IF prev[b] = n THEN next[b] ELSE next[n]
         /\ \A n \in Leaves : n # b => prev'[n] = IF next[b] = n THEN prev[b] ELSE prev[n]
    BY <1>14, <1>14a DEF Bypasses
  <1>16. ChainOf(Leaves \ {b}, next', prev', zone)
    BY <1>10, <1>14, <1>15, ChainRemoves
  <1>17. ASSUME NEW m \in Leaves \ {b}, m # a
         PROVE  /\ Z[m] = zone[m]
                /\ Lower(Z[m], Z[a]) <=> Lower(zone[m], zone[a])
                /\ Lower(Z[a], Z[m]) <=> Lower(zone[a], zone[m])
    <2>1. Z[m] = zone[m]
      BY <1>12, <1>14, <1>17 DEF Keeps
    <2>2. PICK C : C = Z[a]
      OBVIOUS
    <2>3. C # {} /\ C \subseteq zone[a] \cup zone[b]
      BY <1>13, <2>2
    <2>4. /\ Lower(zone[m], C) <=> Lower(zone[m], zone[a])
          /\ Lower(C, zone[m]) <=> Lower(zone[a], zone[m])
      BY <1>5, <1>6, <1>7, <1>17, <2>3, PairSides
    <2> QED
      BY <2>1, <2>2, <2>4
  <1>18. ~Lower(zone[a], zone[a]) /\ ~Lower(Z[a], Z[a])
    <2>1. Z[a] \subseteq Int
      BY <1>10, <1>13, <1>14
    <2> QED
      BY <1>10, <1>13, <1>14, <2>1, NotLower
  <1>19. \A m, n \in Leaves \ {b} : Lower(Z[m], Z[n]) <=> Lower(zone[m], zone[n])
    BY <1>17, <1>18
  <1>20. ChainOf(Leaves \ {b}, next', prev', Z)
    BY <1>16, <1>19, ChainSame
  <1>21. OffChain'
    <2>1. ASSUME NEW n \in Node, tag'[n] # "leaf"
          PROVE  next'[n] = Null /\ prev'[n] = Null
      <3>1. CASE n = b
        BY <1>6, <1>14a, <3>1 DEF Bypasses
      <3>2. CASE n # b
        <4>1. tag[n] # "leaf" /\ n \notin Leaves
          BY <1>9, <2>1, <3>2 DEF Leaves
        <4>2. prev[b] # n /\ next[b] # n
          BY <1>10, <1>14, <4>1, NodeAssumption DEF ChainOf
        <4>3. next[n] = Null /\ prev[n] = Null
          BY <4>1 DEF ChainAt, OffChain
        <4> QED
          BY <1>14a, <3>2, <4>2, <4>3 DEF Bypasses
      <3> QED
        BY <3>1, <3>2
    <2> QED
      BY <2>1 DEF OffChain
  <1>22. IsFiniteSet(Live)
    BY DEF ChainAt
  <1>23. ChainAt(Z)'
    BY <1>5, <1>10, <1>12, <1>20, <1>21, <1>22, ChainNext
  <1> QED
    BY <1>12, <1>23

-----------------------------------------------------------------------------
(* A leaf joins the chain, or one is all that is left.                     *)

(* A split leaf and its right half share what the leaf had.                *)
LEMMA SplitShare ==
  ASSUME NEW lvl \in [Node -> Nat], InvAt(lvl), InvAt(lvl)',
         NEW zone \in Zones, OrderAt(lvl, zone), SplitLeaf,
         NEW x, x = cur, NEW n, n = NewNode, n \in Node, n # x, tag[n] = "free",
         NEW Z \in Zones, OrderAt(lvl, Z)', Keeps(zone, Z, {x, n})
  PROVE  /\ Z[x] # {} /\ Z[n] # {} /\ Z[x] \subseteq zone[x] /\ Z[n] \subseteq zone[x]
         /\ Lower(Z[x], Z[n])
  <1>1. PICK s : s = sep'
    OBVIOUS
  <1>2. /\ AtLeaf("insert") /\ pc = "descend" /\ x # Null /\ tag[x] = "leaf"
        /\ tag' = [tag EXCEPT ![n] = "leaf"]
        /\ right' = n /\ pc' = "split"
        /\ \A m \in Node : m # x /\ m # n => keys'[m] = keys[m]
        /\ UNCHANGED <<root, children, path>>
    <2>1. keys \in [Node -> Seq(Key)]
      BY DEF InvAt, TypeOK
    <2>2. keys' = [keys EXCEPT ![x] = LeafSplitLeft(@, Slot, key),
                               ![n] = LeafSplitRight(keys[cur], Slot, key)]
      BY DEF SplitLeaf
    <2>3. \A m \in Node : m # x /\ m # n => keys'[m] = keys[m]
      BY <2>1, <2>2
    <2> QED
      BY <2>3 DEF SplitLeaf, AtLeaf
  <1>3. TypeOK /\ TypeOK' /\ Whole' /\ tag \in [Node -> {"free", "leaf", "branch"}]
    BY <1>2 DEF InvAt, TypeOK, Whole
  <1>4. /\ WholeAt(lvl, zone) /\ x \in Live /\ x \in Node
    BY <1>2, AtItsLeaf
  <1>5. x \in Live' /\ n \in Live' /\ \A m \in Live : m \in Live'
    BY <1>2, <1>3, <1>4 DEF Live
  <1>6. /\ Ordered(Z)' /\ Fanned(Z)' /\ Spanned(Z)'
    BY <1>3 DEF OrderAt
  <1>7. Z[x] # {} /\ Z[n] # {} /\ Z[x] \subseteq Key /\ Z[n] \subseteq Key
    BY <1>4, <1>5, <1>6 DEF Ordered, Zones
  <1>8. /\ \A k \in Z[x] : k \in zone[x] /\ k < s
        /\ \A k \in Z[n] : k \in zone[x] /\ s <= k
    <2>1. CASE path = <<>>
      <3>1. x = root /\ root # Null /\ zone[root] = Key
        BY <1>2, <1>4, <2>1 DEF WholeAt, Threaded, Spanned
      <3>2. Z[x] = {k \in Key : k < s} /\ Z[n] = {k \in Key : s <= k}
        BY <1>1, <1>2, <1>6, <2>1, <3>1 DEF Spanned
      <3> QED
        BY <3>1, <3>2
    <2>2. CASE path # <<>>
      <3>1. PICK p : p = Parent
        OBVIOUS
      <3>2. PICK i : i = Top.pos
        OBVIOUS
      <3>3. /\ p \in Node /\ tag[p] = "branch" /\ i \in 1 .. Len(keys[p]) + 1
            /\ Len(children[p]) = Len(keys[p]) + 1
        BY <1>2, <2>2, <3>1, <3>2, ParentFacts DEF Walking
      <3>4. /\ p \in Live /\ p \in Live' /\ p # x /\ p # n /\ i \in 1 .. Len(children[p])
        BY <1>2, <1>5, <3>3 DEF Live
      <3>5. x = children[p][i]
        BY <1>2, <1>4, <2>2, <3>1, <3>2 DEF WholeAt, Threaded
      <3>6. Z[p] = zone[p] /\ keys'[p] = keys[p]
        BY <1>2, <3>3, <3>4 DEF Keeps
      <3>7. zone[x] = zone[p] \cap Slice(keys[p], i)
        <4>1. ~Splits(p, i)
          BY <1>2 DEF Splits
        <4>2. zone[p] \subseteq Key
          BY <3>3 DEF Zones
        <4>3. zone[x] = {k \in zone[p] \cap Slice(keys[p], i) : Splits(p, i) => k < sep}
          BY <1>4, <3>4, <3>5 DEF WholeAt, Fanned
        <4> QED
          BY <4>1, <4>3
      <3>8. Parent' = p /\ Top'.pos = i /\ path' # <<>>
        BY <1>2, <2>2, <3>1, <3>2 DEF Parent, Top
      <3>9. Splits(p, i)'
        BY <1>2, <3>8 DEF Splits
      <3>10. \A k \in Z[x] : k \in zone[p] /\ k \in Slice(keys[p], i) /\ k < s
        <4>1. Z[children'[p][i]] = {k \in Z[p] \cap Slice(keys'[p], i) : Splits(p, i)' => k < sep'}
          BY <1>2, <1>6, <3>4 DEF Fanned
        <4> QED
          BY <1>1, <1>2, <3>5, <3>6, <3>9, <4>1
      <3>11. \A k \in Z[n] : k \in zone[p] /\ k \in Slice(keys[p], i) /\ s <= k
        <4>1. Z[right'] = {k \in Z[Parent'] \cap Slice(keys'[Parent'], Top'.pos) : sep' <= k}
          BY <1>2, <1>6, <3>8 DEF Spanned
        <4> QED
          BY <1>1, <1>2, <3>6, <3>8, <4>1
      <3> QED
        BY <3>7, <3>10, <3>11
    <2> QED
      BY <2>1, <2>2
  <1>9. Lower(Z[x], Z[n])
    <2> SUFFICES ASSUME NEW j \in Z[x], NEW k \in Z[n] PROVE j < k
      BY DEF Lower
    <2>1. j < s /\ s <= k /\ j \in Int /\ k \in Int /\ s \in Int
      BY <1>1, <1>3, <1>7, <1>8, KeyAssumption DEF TypeOK
    <2> QED
      BY <2>1, SMT
  <1> QED
    BY <1>7, <1>8, <1>9

(* A split links the right half in behind the left one.                    *)
LEMMA SplitLeafChain ==
  ASSUME NEW lvl \in [Node -> Nat], InvAt(lvl), InvAt(lvl)',
         NEW zone \in Zones, OrderAt(lvl, zone), ChainAt(zone), SplitLeaf
  PROVE  \E Z \in Zones : OrderAt(lvl, Z)' /\ ChainAt(Z)'
  <1>1. PICK n : n = NewNode
    OBVIOUS
  <1>2. PICK x : x = cur
    OBVIOUS
  <1>3. /\ AtLeaf("insert") /\ pc = "descend" /\ x # Null /\ tag[x] = "leaf" /\ CanAlloc
        /\ tag' = [tag EXCEPT ![n] = "leaf"] /\ pc' = "split"
        /\ next' = [next EXCEPT ![x] = n, ![n] = next[x]]
        /\ prev' = [m \in Node |-> IF m = n THEN x ELSE IF m = next[x] THEN n ELSE prev[m]]
    BY <1>1, <1>2 DEF SplitLeaf, AtLeaf
  <1>4. /\ TypeOK /\ Whole' /\ tag \in [Node -> {"free", "leaf", "branch"}]
        /\ next \in [Node -> Node \cup {Null}] /\ x \in Node
    BY <1>2, <1>3 DEF InvAt, TypeOK, Whole
  <1>5. n \in Node /\ tag[n] = "free" /\ n # x /\ n # Null
    BY <1>1, <1>3, <1>4, NewBlock, NodeAssumption DEF InvAt
  <1>6. /\ Leaves' = Leaves \cup {n} /\ x \in Leaves /\ n \notin Leaves
        /\ Live' \subseteq Live \cup {n} /\ \A m \in Node : m # n => tag'[m] = tag[m]
    BY <1>3, <1>4, <1>5 DEF Leaves, Live
  <1>7. /\ ChainOf(Leaves, next, prev, zone) /\ Strictly(Leaves, zone) /\ Null \notin Leaves
        /\ \A m \in Leaves : m \in Node /\ zone[m] # {} /\ zone[m] \subseteq Int
    BY <1>3, ChainFacts
  <1>8. PICK Z \in Zones : OrderAt(lvl, Z)' /\ Keeps(zone, Z, {x, n})
    BY <1>1, <1>2, SplitLeafOrder
  <1>9. /\ Z[x] # {} /\ Z[n] # {} /\ Z[x] \subseteq zone[x] /\ Z[n] \subseteq zone[x]
        /\ Lower(Z[x], Z[n])
    BY <1>1, <1>2, <1>5, <1>8, SplitShare
  <1>10. /\ ~Lower(Z[n], Z[x]) /\ ~Lower(Z[n], Z[n]) /\ ~Lower(Z[x], Z[x])
         /\ ~Lower(zone[x], zone[x])
    <2>1. Z[x] \subseteq Int /\ Z[n] \subseteq Int /\ zone[x] # {} /\ zone[x] \subseteq Int
      BY <1>6, <1>7, <1>9
    <2> QED
      BY <1>9, <2>1, NotLower
  <1>11. ASSUME NEW m \in Leaves, m # x
         PROVE  /\ Z[m] = zone[m]
                /\ \A c \in {x, n} : /\ Lower(Z[m], Z[c]) <=> Lower(zone[m], zone[x])
                                     /\ Lower(Z[c], Z[m]) <=> Lower(zone[x], zone[m])
    <2>1. Z[m] = zone[m]
      BY <1>6, <1>7, <1>8, <1>11 DEF Keeps
    <2>2. Lower(zone[m], zone[x]) \/ Lower(zone[x], zone[m])
      BY <1>6, <1>7, <1>11 DEF ChainOf
    <2>3. ASSUME NEW c \in {x, n}
          PROVE  /\ Lower(Z[m], Z[c]) <=> Lower(zone[m], zone[x])
                 /\ Lower(Z[c], Z[m]) <=> Lower(zone[x], zone[m])
      <3>1. PICK A : A = zone[m]
        OBVIOUS
      <3>2. PICK B : B = zone[x]
        OBVIOUS
      <3>3. PICK C : C = Z[c]
        OBVIOUS
      <3>4. /\ A \subseteq Int /\ A # {} /\ B \subseteq Int /\ C \subseteq B /\ C # {}
            /\ Lower(A, B) \/ Lower(B, A)
        BY <1>6, <1>7, <1>9, <2>2, <3>1, <3>2, <3>3
      <3>5. (Lower(A, C) <=> Lower(A, B)) /\ (Lower(C, A) <=> Lower(B, A))
        BY ONLY <3>4, PartLower
      <3> QED
        BY <2>1, <3>1, <3>2, <3>3, <3>5
    <2> QED
      BY <2>1, <2>3
  <1>12. \A k, m \in Leaves : Lower(Z[k], Z[m]) <=> Lower(zone[k], zone[m])
    BY <1>10, <1>11
  <1>13. \A m \in Leaves : m # x => /\ Lower(Z[m], Z[n]) <=> Lower(zone[m], zone[x])
                                    /\ Lower(Z[n], Z[m]) <=> Lower(zone[x], zone[m])
    BY <1>11
  <1>14. PICK ox : ox = next'
    OBVIOUS
  <1>15. PICK qv : qv = prev'
    OBVIOUS
  <1>16. PICK nx : nx = next
    OBVIOUS
  <1>17. PICK pv : pv = prev
    OBVIOUS
  <1>18. /\ ox[x] = n /\ ox[n] = nx[x] /\ \A m \in Leaves : m # x => ox[m] = nx[m]
         /\ \A m \in Node : m # x /\ m # n => ox[m] = nx[m]
    BY <1>3, <1>4, <1>5, <1>6, <1>7, <1>14, <1>16
  <1>19. /\ qv[n] = x /\ \A m \in Leaves : qv[m] = IF m = nx[x] THEN n ELSE pv[m]
         /\ \A m \in Node : m # n => qv[m] = IF m = nx[x] THEN n ELSE pv[m]
    BY <1>3, <1>5, <1>6, <1>7, <1>15, <1>16, <1>17
  <1>20. ChainOf(Leaves, nx, pv, zone)
    BY <1>7, <1>16, <1>17
  <1>21. ChainOf(Leaves \cup {n}, ox, qv, Z)
    <2>1. PICK L : L = Leaves
      OBVIOUS
    <2>2. /\ Null \notin L /\ ChainOf(L, nx, pv, zone) /\ Strictly(L, zone) /\ x \in L
          /\ n \notin L /\ n # Null /\ ox[x] = n /\ ox[n] = nx[x] /\ qv[n] = x
          /\ \A m \in L : m # x => ox[m] = nx[m]
          /\ \A m \in L : qv[m] = IF m = nx[x] THEN n ELSE pv[m]
          /\ \A k, m \in L : Lower(Z[k], Z[m]) <=> Lower(zone[k], zone[m])
          /\ \A m \in L : m # x => /\ Lower(Z[m], Z[n]) <=> Lower(zone[m], zone[x])
                                   /\ Lower(Z[n], Z[m]) <=> Lower(zone[x], zone[m])
          /\ Lower(Z[x], Z[n]) /\ ~Lower(Z[n], Z[x]) /\ ~Lower(Z[n], Z[n])
      BY <1>5, <1>6, <1>7, <1>9, <1>10, <1>12, <1>13, <1>18, <1>19, <1>20, <2>1
    <2>3. ChainOf(L \cup {n}, ox, qv, Z)
      BY ONLY <2>2, ChainGrows
    <2> QED
      BY <2>1, <2>3
  <1>22. ChainOf(Leaves', next', prev', Z)
    BY <1>6, <1>14, <1>15, <1>21
  <1>23. OffChain'
    <2>1. ASSUME NEW m \in Node, tag'[m] # "leaf"
          PROVE  next'[m] = Null /\ prev'[m] = Null
      <3>1. m \notin Leaves /\ m # n /\ m # x
        BY <1>6, <2>1 DEF Leaves
      <3>2. next[m] = Null /\ prev[m] = Null
        BY <3>1 DEF ChainAt, OffChain, Leaves
      <3>3. m # next[x]
        BY <1>6, <1>7, <3>1, NodeAssumption DEF ChainOf
      <3> QED
        BY <1>14, <1>15, <1>16, <1>17, <1>18, <1>19, <3>1, <3>2, <3>3
    <2> QED
      BY <2>1 DEF OffChain
  <1>24. IsFiniteSet(Live)
    BY DEF ChainAt
  <1>25. ChainAt(Z)'
    BY <1>4, <1>6, <1>8, <1>22, <1>23, <1>24, ChainNext
  <1> QED
    BY <1>8, <1>25

(* The first leaf is a chain by itself.                                    *)
LEMMA AllocRootChain ==
  ASSUME NEW lvl \in [Node -> Nat], InvAt(lvl), InvAt(lvl)',
         NEW zone \in Zones, OrderAt(lvl, zone), ChainAt(zone), AllocRoot
  PROVE  \E Z \in Zones : OrderAt(lvl, Z)' /\ ChainAt(Z)'
  <1>1. PICK n : n = NewNode
    OBVIOUS
  <1>2. /\ pc = "descend" /\ pc' = "descend" /\ cur = Null /\ CanAlloc
        /\ tag' = [tag EXCEPT ![n] = "leaf"] /\ UNCHANGED <<next, prev>>
    BY <1>1 DEF AllocRoot
  <1>3. /\ TypeOK /\ Whole /\ Whole' /\ tag \in [Node -> {"free", "leaf", "branch"}] /\ root = Null
    <2>1. TypeOK /\ Walked(lvl)
      BY DEF InvAt
    <2>2. tag \in [Node -> {"free", "leaf", "branch"}]
      BY <2>1 DEF TypeOK
    <2>3. root = Null
      BY <1>2, <2>1 DEF Walked
    <2> QED
      BY <1>2, <2>1, <2>2, <2>3 DEF Whole
  <1>4. n \in Node /\ tag[n] = "free"
    BY <1>1, <1>2, <1>3, NewBlock DEF InvAt
  <1>5. Live = {}
    BY <1>3 DEF OrderAt, Topped
  <1>6. /\ Leaves' \subseteq {n} /\ Live' \subseteq Live \cup {n} /\ n \in Live'
        /\ \A m \in Node : m # n => tag'[m] = tag[m]
    BY <1>2, <1>3, <1>4, <1>5 DEF Leaves, Live
  <1>7. PICK Z \in Zones : OrderAt(lvl, Z)'
    BY AllocRootOrder
  <1>8. \A m \in Node : next'[m] = Null /\ prev'[m] = Null
    <2>1. \A m \in Node : tag[m] # "leaf"
      BY <1>5 DEF Live
    <2> QED
      BY <1>2, <2>1 DEF ChainAt, OffChain
  <1>9. ~Lower(Z[n], Z[n])
    <2>1. Z[n] # {}
      BY <1>3, <1>6, <1>7 DEF OrderAt, Ordered
    <2>2. Z[n] \subseteq Int
      BY <1>4, KeyAssumption DEF Zones
    <2> QED
      BY <2>1, <2>2, NotLower
  <1>10. ChainOf(Leaves', next', prev', Z)
    BY <1>4, <1>6, <1>8, <1>9, ChainOne
  <1>11. OffChain' /\ IsFiniteSet(Live)
    BY <1>8 DEF OffChain, ChainAt
  <1>12. ChainAt(Z)'
    BY <1>3, <1>6, <1>7, <1>10, <1>11, ChainNext
  <1> QED
    BY <1>7, <1>12

-----------------------------------------------------------------------------
(* check_root_collapse: branches are left as they are, or one leaf is all  *)
(* there is, or none.                                                      *)

(* A root that collapses leaves one leaf, or a branch and all leaves.      *)
LEMMA RootGoesChain ==
  ASSUME NEW lvl \in [Node -> Nat], InvAt(lvl), InvAt(lvl)',
         NEW zone \in Zones, OrderAt(lvl, zone), ChainAt(zone),
         pc = "fix", pc' = "idle", tag[root] = "branch",
         NEW kept, NEW gone, CollapsesTo(kept, gone),
         NEW Z \in Zones, OrderAt(lvl, Z)', Keeps(zone, Z, {kept})
  PROVE  ChainAt(Z)'
  <1>1. /\ TypeOK /\ TypeOK' /\ Shape /\ Rooted /\ Levels(lvl, tag, children) /\ OneOwner(children)
        /\ next \in [Node -> Node \cup {Null}] /\ prev \in [Node -> Node \cup {Null}]
        /\ next' \in [Node -> Node \cup {Null}] /\ prev' \in [Node -> Node \cup {Null}]
    <2>1. TypeOK /\ TypeOK'
      BY DEF InvAt
    <2>2. /\ next \in [Node -> Node \cup {Null}] /\ prev \in [Node -> Node \cup {Null}]
          /\ next' \in [Node -> Node \cup {Null}] /\ prev' \in [Node -> Node \cup {Null}]
      BY <2>1 DEF TypeOK
    <2> QED
      BY <2>1, <2>2 DEF InvAt
  <1>2. Whole /\ Whole' /\ WholeAt(lvl, zone) /\ root # Null
    BY <1>1 DEF OrderAt, WholeAt, Whole, Rooted
  <1>3. /\ root \in Node /\ root \in Live
        /\ \A x \in Range(children[root]) : x \in Node /\ x \in Live /\ lvl[root] = lvl[x] + 1
                                            /\ x # root
    BY <1>1, <1>2 DEF Rooted, TypeOK, Live, Levels, Loose
  <1>4. /\ kept = Null \/ kept \in Range(children[root])
        /\ \A x \in gone : x \in Range(children[root]) /\ x \in Leaves
        /\ kept \notin gone
        /\ \A x \in Range(children[root]) : x = kept \/ x \in gone
        /\ next' = Unlinked(next, prev, gone)
        /\ \A n \in Node : prev'[n] = IF n = kept THEN Null ELSE Unlinked(prev, next, gone)[n]
        /\ kept # Null => \E g : gone \subseteq {g}
    BY <1>3 DEF CollapsesTo, Leaves
  <1>5. /\ \A n \in Node : n \in gone \/ n = root => tag'[n] = "free"
        /\ \A n \in Node : n \notin gone /\ n # root => tag'[n] = tag[n]
    BY DEF CollapsesTo, Collapses
  <1>6. Live' \subseteq Live \cup {Null} /\ IsFiniteSet(Live)
    BY <1>5 DEF Live, ChainAt
  <1>7. /\ ChainOf(Leaves, next, prev, zone) /\ Strictly(Leaves, zone) /\ Null \notin Leaves
        /\ \A n \in Leaves : n \in Node /\ zone[n] # {} /\ zone[n] \subseteq Int
    BY ChainFacts
  <1>8. CASE kept # Null /\ tag[kept] = "branch"
    <2>1. gone = {}
      <3> SUFFICES ASSUME NEW g \in gone PROVE FALSE
        OBVIOUS
      <3>1. g \in Node /\ tag[g] = "leaf" /\ lvl[root] = lvl[g] + 1
        BY <1>3, <1>4 DEF Leaves
      <3>2. kept \in Node /\ lvl[kept] \in Nat /\ tag[kept] # "free" /\ lvl[root] = lvl[kept] + 1
        BY <1>3, <1>4, <1>8
      <3>3. lvl[g] = 0 /\ lvl[kept] # 0
        BY <1>1, <1>8, <3>1, <3>2, LeafLevel DEF Levels
      <3> QED
        BY <3>1, <3>2, <3>3, SMT
    <2>2. next' = next
      <3>1. \A n \in Node : next'[n] = next[n]
        BY <1>4, <2>1 DEF Unlinked
      <3> QED
        BY <1>1, <3>1
    <2>3. prev' = prev
      <3>1. kept \in Node /\ prev[kept] = Null
        BY <1>3, <1>4, <1>8 DEF ChainAt, OffChain
      <3>2. \A n \in Node : Unlinked(prev, next, gone)[n] = prev[n]
        BY <2>1 DEF Unlinked
      <3>3. \A n \in Node : prev'[n] = prev[n]
        BY <1>4, <3>1, <3>2
      <3> QED
        BY <1>1, <3>3
    <2>4. Leaves' = Leaves /\ \A n \in Leaves : n \notin {kept}
      BY <1>5, <1>8, <2>1 DEF Leaves
    <2> QED
      BY <1>2, <1>6, <2>2, <2>3, <2>4, ChainStays
  <1>9. CASE kept = Null \/ tag[kept] # "branch"
    <2>1. \E x \in Range(children[root]) : x \in Leaves
      <3>1. PICK cs : cs = children[root]
        OBVIOUS
      <3>2. cs \in Seq(Node) /\ Len(cs) = Len(keys[root]) + 1 /\ Len(keys[root]) \in Nat
        BY <1>1, <1>3, <3>1, BlockTypes
      <3>3. 1 \in 1 .. Len(cs)
        BY ONLY <3>2, SMT
      <3>4. PICK x : x \in Range(cs)
        BY <3>2, <3>3, Entries
      <3>5. x \in Node /\ x \in Live /\ (x = kept \/ x \in gone)
        BY <1>3, <1>4, <3>1, <3>4
      <3>6. x \in Leaves
        BY <1>1, <1>4, <1>9, <3>5, NodeAssumption DEF Leaves, Live, TypeOK
      <3> QED
        BY <3>1, <3>4, <3>6
    <2>2. lvl[root] = 0 + 1
      BY <1>1, <1>3, <2>1 DEF Levels, Leaves
    <2>3. \A n \in Leaves : n \in Kids(root) /\ (n = kept \/ n \in gone)
      <3> TAKE n \in Leaves
      <3>1. n \in Node /\ n \in Live /\ lvl[n] = 0
        BY <1>1 DEF Leaves, Live, Levels
      <3>2. n \in Kids(root)
        BY <1>2, <2>2, <3>1, TopLevels
      <3> QED
        BY <1>4, <3>2 DEF Kids
    <2>4. /\ Leaves' \subseteq {kept}
          /\ \A n \in Leaves' : n \in Leaves /\ n \in Live' /\ n \in Node
      BY <1>5, <2>3 DEF Leaves, Live
    <2>5. ASSUME kept \in Leaves'
          PROVE  next'[kept] = Null /\ prev'[kept] = Null /\ ~Lower(Z[kept], Z[kept])
      <3>1. kept \in Leaves /\ kept \in Node /\ kept # Null /\ kept \in Live'
        BY <1>7, <2>4, <2>5
      <3>2. prev'[kept] = Null
        BY <1>4, <3>1
      <3>3. ~Lower(Z[kept], Z[kept]) /\ ~Lower(zone[kept], zone[kept])
        <4>1. Z[kept] # {}
          BY <1>2, <3>1 DEF OrderAt, Ordered
        <4>2. Z[kept] \subseteq Int
          BY <3>1, KeyAssumption DEF Zones
        <4> QED
          BY <1>7, <3>1, <4>1, <4>2, NotLower
      <3>4. PICK g : gone \subseteq {g}
        BY <1>4, <3>1
      <3>5. CASE gone = {}
        <4>1. next'[kept] = next[kept]
          BY <1>4, <3>1, <3>5 DEF Unlinked
        <4>2. next[kept] # Null => next[kept] \in Leaves /\ Lower(zone[kept], zone[next[kept]])
          BY <1>7, <3>1, Mutual
        <4>3. \A n \in Leaves : n = kept
          BY <2>3, <3>5
        <4> QED
          BY <3>2, <3>3, <4>1, <4>2, <4>3
      <3>6. CASE gone = {g}
        <4>1. PICK to : to = next
          OBVIOUS
        <4>2. PICK fro : fro = prev
          OBVIOUS
        <4>3. PICK ox : ox = next'
          OBVIOUS
        <4>4. Bypasses(to, fro, g, ox)
          <5>1. ox = Unlinked(to, fro, {g})
            BY <1>4, <3>6, <4>1, <4>2, <4>3
          <5> QED
            BY <5>1, UnlinkedOne
        <4>5. PICK qv : qv = [n \in Node |-> IF to[g] = n THEN fro[g] ELSE fro[n]]
          OBVIOUS
        <4>6. g \in Leaves /\ g # kept
          BY <1>4, <3>6
        <4>7. /\ \A n \in Leaves : n # g => ox[n] = IF fro[g] = n THEN to[g] ELSE to[n]
              /\ \A n \in Leaves : n # g => qv[n] = IF to[g] = n THEN fro[g] ELSE fro[n]
          BY <1>7, <4>4, <4>5 DEF Bypasses
        <4>8. ChainOf(Leaves, to, fro, zone)
          BY <1>7, <4>1, <4>2
        <4>9. ChainOf(Leaves \ {g}, ox, qv, zone)
          BY <1>7, <4>6, <4>7, <4>8, ChainRemoves
        <4>10. Strictly(Leaves \ {g}, zone) /\ Null \notin Leaves \ {g} /\ kept \in Leaves \ {g}
          BY <1>7, <3>1, <4>6 DEF Strictly
        <4>11. ox[kept] # Null => ox[kept] \in Leaves \ {g} /\ Lower(zone[kept], zone[ox[kept]])
          BY <4>9, <4>10, Mutual
        <4>12. \A n \in Leaves \ {g} : n = kept
          BY <2>3, <3>6
        <4> QED
          BY <3>2, <3>3, <4>3, <4>11, <4>12
      <3> QED
        BY <3>4, <3>5, <3>6
    <2>6. ChainOf(Leaves', next', prev', Z)
      BY <2>4, <2>5, ChainOne
    <2>7. OffChain'
      <3>1. ASSUME NEW n \in Node, tag'[n] # "leaf"
            PROVE  next'[n] = Null /\ prev'[n] = Null
        <4>1. CASE n \in gone
          BY <1>4, <4>1 DEF Unlinked
        <4>2. CASE n \notin gone
          <5>1. n \notin Leaves /\ next[n] = Null /\ prev[n] = Null
            BY <1>5, <3>1, <4>2 DEF Leaves, ChainAt, OffChain
          <5>2. \A g \in gone : next[g] # n /\ prev[g] # n
            BY <1>4, <1>7, <5>1, NodeAssumption DEF ChainOf
          <5>3. Unlinked(next, prev, gone)[n] = Null /\ Unlinked(prev, next, gone)[n] = Null
            BY <4>2, <5>1, <5>2 DEF Unlinked
          <5> QED
            BY <1>4, <5>3
        <4> QED
          BY <4>1, <4>2
      <3> QED
        BY <3>1 DEF OffChain
    <2> QED
      BY <1>2, <1>6, <2>6, <2>7, ChainNext
  <1> QED
    BY <1>8, <1>9

(* Both ways to collapse keep the chain.                                   *)
LEMMA CollapseChain ==
  ASSUME NEW lvl \in [Node -> Nat], InvAt(lvl), InvAt(lvl)',
         NEW zone \in Zones, OrderAt(lvl, zone), ChainAt(zone),
         CollapseRoot \/ CollapseByMerging
  PROVE  \E Z \in Zones : OrderAt(lvl, Z)' /\ ChainAt(Z)'
  <1>1. pc = "fix" /\ pc' = "idle" /\ tag[root] = "branch"
    BY DEF CollapseRoot, CollapseByMerging, Repaired, RootLow, Return, Leave
  <1>2. PICK kept, gone : CollapsesTo(kept, gone)
    <2>1. CASE CollapseRoot
      BY <2>1, CollapseRootFacts
    <2>2. CASE CollapseByMerging
      <3>1. PICK a : a = children[root][1]
        OBVIOUS
      <3>2. PICK b : b = children[root][2]
        OBVIOUS
      <3>3. CollapsesTo(a, {b})
        BY <2>2, <3>1, <3>2, CollapseByMergingFacts
      <3> QED
        BY <3>3
    <2> QED
      BY <2>1, <2>2
  <1>3. root' = kept
    BY <1>2 DEF CollapsesTo, Collapses
  <1>4. PICK Z \in Zones : OrderAt(lvl, Z)' /\ Keeps(zone, Z, {kept})
    BY <1>3, CollapseRootOrder, CollapseByMergingOrder
  <1>5. ChainAt(Z)'
    BY <1>1, <1>2, <1>4, RootGoesChain
  <1> QED
    BY <1>4, <1>5, SMTT(30)

-----------------------------------------------------------------------------
(* clear and Drop: nothing is said of the chain while they take it apart.  *)

(* While the tree is freed nothing is asked of the chain ...               *)
LEMMA DiscardChain ==
  ASSUME NEW lvl \in [Node -> Nat], InvAt(lvl), NEW zone \in Zones, OrderAt(lvl, zone),
         ChainAt(zone), NEW o, Discard(o)
  PROVE  \E Z \in Zones : OrderAt(lvl, Z)' /\ ChainAt(Z)'
  <1>1. PICK Z \in Zones : OrderAt(lvl, Z)'
    BY DiscardOrder
  <1>2. pc' = "free" /\ UNCHANGED <<tag, next, prev>>
    BY DEF Discard
  <1>3. ChainAt(Z)'
    BY <1>2 DEF ChainAt, OffChain, Live
  <1> QED
    BY <1>1, <1>3

(* ... but that blocks which are no leaves stay out of it.                 *)
LEMMA FreeStepChain ==
  ASSUME NEW lvl \in [Node -> Nat], InvAt(lvl), InvAt(lvl)',
         NEW zone \in Zones, OrderAt(lvl, zone), ChainAt(zone), FreeStep
  PROVE  \E Z \in Zones : OrderAt(lvl, Z)' /\ ChainAt(Z)'
  <1>1. PICK Z \in Zones : OrderAt(lvl, Z)'
    BY FreeStepOrder
  <1>2. /\ next \in [Node -> Node \cup {Null}] /\ prev \in [Node -> Node \cup {Null}]
        /\ tag \in [Node -> {"free", "leaf", "branch"}]
    BY DEF InvAt, TypeOK
  <1>3. IsFiniteSet(Live) /\ OffChain
    BY DEF ChainAt
  <1>4. CASE FreeDescend \/ FreeNextChild
    <2>1. pc' = "free" /\ UNCHANGED <<tag, next, prev>>
      BY <1>4 DEF FreeDescend, FreeNextChild, heap
    <2>2. ChainAt(Z)'
      BY <1>3, <2>1 DEF ChainAt, OffChain, Live
    <2> QED
      BY <1>1, <2>2
  <1>5. CASE FreeLeaf \/ FreeBranch
    <2>1. PICK x : /\ \A n \in Node : n # x => tag'[n] = tag[n] /\ next'[n] = next[n]
                                               /\ prev'[n] = prev[n]
                   /\ x \in Node => tag'[x] = "free" /\ next'[x] = Null /\ prev'[x] = Null
      <3>1. CASE FreeLeaf
        BY <1>2, <3>1 DEF FreeLeaf
      <3>2. CASE FreeBranch
        <4>1. Parent \in Node => tag[Parent] = "branch"
          <5>1. BeingFreed(lvl) /\ TypeOK /\ path # <<>>
            BY <3>2 DEF FreeBranch, InvAt
          <5>2. Unfreed(lvl, Len(path)) /\ Parent = path[Len(path)].node
            BY <5>1, TopFrame DEF BeingFreed, Parent
          <5> QED
            BY <5>2 DEF Unfreed
        <4>2. Parent \in Node => next[Parent] = Null /\ prev[Parent] = Null
          BY <1>3, <4>1 DEF OffChain
        <4> QED
          BY <1>2, <3>2, <4>2 DEF FreeBranch
      <3> QED
        BY <1>5, <3>1, <3>2
    <2>2. pc' = "free"
      BY <1>5 DEF FreeLeaf, FreeBranch
    <2>3. Live' \subseteq Live
      BY <2>1 DEF Live
    <2>4. IsFiniteSet(Live')
      BY <1>3, <2>3, FS_Subset
    <2>5. OffChain'
      BY <1>3, <2>1 DEF OffChain
    <2>6. ChainAt(Z)'
      BY <2>2, <2>4, <2>5 DEF ChainAt
    <2> QED
      BY <1>1, <2>6
  <1>6. CASE FreeDone
    <2>1. /\ pc = "free" /\ pc' = (IF op = "drop" THEN "dropped" ELSE "idle")
          /\ UNCHANGED <<tag, next, prev>>
      BY <1>6 DEF FreeDone, Leave, heap
    <2>2. op # "drop" => Leaves' = {}
      <3>1. op # "drop" => Live = {}
        BY <1>6, <2>1, FreeDoneEmpties DEF OrderAt
      <3> QED
        BY <2>1, <3>1 DEF Leaves, Live
    <2>3. IsFiniteSet(Live') /\ OffChain'
      BY <1>3, <2>1 DEF OffChain, Live
    <2>4. ChainAt(Z)'
      BY <2>1, <2>2, <2>3 DEF ChainAt, Chained, Filed
    <2> QED
      BY <1>1, <2>4
  <1> QED
    BY <1>4, <1>5, <1>6 DEF FreeStep

-----------------------------------------------------------------------------
(* The chain is an invariant.                                              *)

(* An empty map has an empty chain.                                        *)
LEMMA InitChain ==
  ASSUME Init
  PROVE  ChainInv
  <1>1. PICK lvl \in [Node -> Nat], zone \in Zones : InvAt(lvl) /\ OrderAt(lvl, zone)
    BY InitOrder DEF OrderInv, Zones
  <1>2. \A n \in Node : next[n] = Null /\ prev[n] = Null
    BY DEF Init
  <1>3. Live \subseteq {n0} /\ Leaves \subseteq {n0} /\ Whole
    BY DEF Init, Live, Leaves, Whole
  <1>4. IsFiniteSet(Live) /\ OffChain
    BY <1>2, <1>3, FS_Singleton, FS_Subset DEF OffChain
  <1>5. Filed(zone)
    BY <1>1, <1>3 DEF OrderAt, Ordered, Filed, Leaves, Live
  <1>6. \A n \in Leaves : n \in Node /\ ~Lower(zone[n], zone[n])
    <2> TAKE n \in Leaves
    <2>1. n \in Node /\ zone[n] # {} /\ zone[n] \subseteq Int
      BY <1>5, KeyAssumption DEF Filed, Zones, Leaves
    <2> QED
      BY <2>1, NotLower
  <1>7. ChainOf(Leaves, next, prev, zone)
    BY <1>2, <1>3, <1>6, ChainOne
  <1>8. ChainAt(zone)
    BY <1>4, <1>5, <1>7 DEF ChainAt, Chained, ChainOf
  <1> QED
    BY <1>1, <1>8 DEF ChainInv, Zones

(* The invariant holds after the step, for some levels and zones.          *)
ChainKept ==
  \E lvl \in [Node -> Nat], zone \in Zones : InvAt(lvl)' /\ OrderAt(lvl, zone)' /\ ChainAt(zone)'

(* The steps of insert keep the chain.                                     *)
LEMMA GrowChain ==
  ASSUME NEW lvl \in [Node -> Nat], InvAt(lvl), NEW zone \in Zones, OrderAt(lvl, zone),
         ChainAt(zone), AllocRoot \/ SplitLeaf \/ BranchInsertAndSplit \/ NewRoot
  PROVE  ChainKept
  <1>1. /\ CanAlloc /\ pc # "free" /\ TypeOK /\ Shape /\ Rooted
    BY DEF AllocRoot, SplitLeaf, BranchInsertAndSplit, NewRoot, AtLeaf, InvAt
  <1>2. ASSUME NEW h \in Nat
        PROVE  \E l \in [Node -> Nat] :
                 /\ InvAt(l) /\ OrderAt(l, zone) /\ l[NewNode] = h
                 /\ \A n \in Node : tag[n] # "free" => l[n] = lvl[n]
    <2>1. PICK l \in [Node -> Nat] :
            InvAt(l) /\ l[NewNode] = h /\ \A n \in Node : n # NewNode => l[n] = lvl[n]
      BY <1>1, Reserve
    <2>2. \A n \in Node : tag[n] # "free" => l[n] = lvl[n]
      BY <1>1, <2>1, NewBlock
    <2>3. OrderAt(l, zone)
      BY <1>1, <2>2, OtherLevels DEF Live
    <2> QED
      BY <2>1, <2>2, <2>3
  <1>3. ASSUME AllocRoot \/ SplitLeaf  PROVE ChainKept
    <2>1. PICK l \in [Node -> Nat] : InvAt(l) /\ OrderAt(l, zone) /\ l[NewNode] = 0
      <3>1. 0 \in Nat
        BY SMT
      <3> QED
        BY <1>2, <3>1
    <2>2. InvAt(l)'
      BY <1>3, <2>1, AllocRootSafe, SplitLeafSafe
    <2>3. \E Z \in Zones : OrderAt(l, Z)' /\ ChainAt(Z)'
      BY <1>3, <2>1, <2>2, AllocRootChain, SplitLeafChain
    <2> QED
      BY <2>2, <2>3 DEF ChainKept
  <1>4. ASSUME BranchInsertAndSplit  PROVE ChainKept
    <2>1. Parent \in Node /\ tag[Parent] = "branch"
      BY <1>4, ParentFacts DEF BranchInsertAndSplit, Walking
    <2>2. PICK l \in [Node -> Nat] : /\ InvAt(l) /\ OrderAt(l, zone) /\ l[NewNode] = lvl[Parent]
                                     /\ \A n \in Node : tag[n] # "free" => l[n] = lvl[n]
      BY <1>2, <2>1
    <2>3. l[NewNode] = l[Parent]
      BY <2>1, <2>2
    <2>4. InvAt(l)'
      BY <1>4, <2>2, <2>3, BranchInsertAndSplitSafe
    <2>5. \E Z \in Zones : OrderAt(l, Z)' /\ ChainAt(Z)'
      BY <1>4, <2>2, <2>3, <2>4, GrowBranchChain
    <2> QED
      BY <2>4, <2>5 DEF ChainKept
  <1>5. ASSUME NewRoot  PROVE ChainKept
    <2>1. root \in Node /\ tag[root] # "free"
      BY <1>1, <1>5 DEF NewRoot, Rooted, TypeOK
    <2>2. lvl[root] + 1 \in Nat
      <3>1. lvl[root] \in Nat
        BY <2>1
      <3> QED
        BY <3>1, SMT
    <2>3. PICK l \in [Node -> Nat] : /\ InvAt(l) /\ OrderAt(l, zone) /\ l[NewNode] = lvl[root] + 1
                                     /\ \A n \in Node : tag[n] # "free" => l[n] = lvl[n]
      BY <1>2, <2>2
    <2>4. l[NewNode] = l[root] + 1
      BY <2>1, <2>3
    <2>5. InvAt(l)'
      BY <1>5, <2>3, <2>4, NewRootSafe
    <2>6. \E Z \in Zones : OrderAt(l, Z)' /\ ChainAt(Z)'
      BY <1>5, <2>3, <2>4, <2>5, GrowBranchChain
    <2> QED
      BY <2>5, <2>6 DEF ChainKept
  <1> QED
    BY <1>3, <1>4, <1>5

(* The steps of the program keep the chain.                                *)
LEMMA StepChain ==
  ASSUME NEW lvl \in [Node -> Nat], InvAt(lvl), NEW zone \in Zones, OrderAt(lvl, zone),
         ChainAt(zone), Step
  PROVE  ChainKept
  <1>1. CASE Quiet \/ Descend \/ InsertIntoBranch \/ RemoveHit \/ FixNothing
    <2>1. InvAt(lvl)'
      BY <1>1, QuietSafe, DescendSafe, InsertIntoBranchSafe, RemoveHitSafe, FixNothingSafe
    <2>2. \E Z \in Zones : OrderAt(lvl, Z)' /\ ChainAt(Z)'
      BY <1>1, <2>1, QuietChain, SmallStepChain
    <2> QED
      BY <2>1, <2>2 DEF ChainKept
  <1>2. CASE \/ BorrowFromLeftLeaf \/ BorrowFromRightLeaf
             \/ BorrowFromLeftBranch \/ BorrowFromRightBranch
    <2>1. InvAt(lvl)'
      BY <1>2, BorrowFromLeftLeafSafe, BorrowFromRightLeafSafe,
         BorrowFromLeftBranchSafe, BorrowFromRightBranchSafe
    <2>2. \E Z \in Zones : OrderAt(lvl, Z)' /\ ChainAt(Z)'
      BY <1>2, <2>1, BorrowLeafChain, BorrowBranchChain
    <2> QED
      BY <2>1, <2>2 DEF ChainKept
  <1>3. CASE MergeLeaves \/ MergeBranches \/ CollapseRoot \/ CollapseByMerging
    <2>1. InvAt(lvl)'
      BY <1>3, MergeLeavesSafe, MergeBranchesSafe, CollapseRootSafe, CollapseByMergingSafe
    <2>2. \E Z \in Zones : OrderAt(lvl, Z)' /\ ChainAt(Z)'
      BY <1>3, <2>1, MergeLeavesChain, MergeBranchesChain, CollapseChain
    <2> QED
      BY <2>1, <2>2 DEF ChainKept
  <1>4. CASE FreeStep
    <2>1. InvAt(lvl)'
      BY <1>4, FreeLeafSafe, FreeDescendSafe, FreeNextChildSafe, FreeBranchSafe, FreeDoneSafe
         DEF FreeStep
    <2>2. \E Z \in Zones : OrderAt(lvl, Z)' /\ ChainAt(Z)'
      BY <1>4, <2>1, FreeStepChain
    <2> QED
      BY <2>1, <2>2 DEF ChainKept
  <1>5. CASE AllocRoot \/ SplitLeaf \/ BranchInsertAndSplit \/ NewRoot
    BY <1>5, GrowChain
  <1> QED
    BY <1>1, <1>2, <1>3, <1>4, <1>5 DEF Step, InsertStep, RemoveStep, Quiet

(* All steps keep the chain.                                               *)
LEMMA NextChainKept ==
  ASSUME ChainInv, [Next]_vars
  PROVE  ChainInv'
  <1>1. PICK lvl \in [Node -> Nat], zone \in Zones :
          InvAt(lvl) /\ OrderAt(lvl, zone) /\ ChainAt(zone)
    BY DEF ChainInv, Zones
  <1> SUFFICES ChainKept
    BY DEF ChainInv, ChainKept, Zones
  <1>2. CASE Step
    BY <1>1, <1>2, StepChain
  <1>3. CASE UNCHANGED vars
    <2>1. InvAt(lvl)' /\ OrderAt(lvl, zone)'
      BY <1>1, <1>3, StutterSafe, StutterOrder
    <2>2. UNCHANGED <<tag, keys, next, prev, pc>>
      BY <1>3 DEF vars, heap
    <2>3. ChainAt(zone)'
      BY <1>1, <2>2 DEF ChainAt, OffChain, Chained, Filed, Leaves, Live
    <2> QED
      BY <2>1, <2>3 DEF ChainKept
  <1>4. CASE Discard("clear") \/ Discard("drop")
    <2>1. ASSUME NEW o \in {"clear", "drop"}, Discard(o)  PROVE ChainKept
      <3>1. o \in Ops \cup {"drop"}
        BY <2>1 DEF Discard
      <3>2. InvAt(lvl)'
        BY <1>1, <2>1, <3>1, DiscardSafe
      <3>3. \E Z \in Zones : OrderAt(lvl, Z)' /\ ChainAt(Z)'
        BY <1>1, <2>1, DiscardChain
      <3> QED
        BY <3>2, <3>3 DEF ChainKept
    <2> QED
      BY <1>4, <2>1
  <1>5. ASSUME NEW o, NEW k \in Key, NEW v \in Val, Call(o, k, v)  PROVE ChainKept
    <2>1. InvAt(lvl)'
      BY <1>1, <1>5, CallSafe
    <2>2. \E Z \in Zones : OrderAt(lvl, Z)' /\ ChainAt(Z)'
      BY <1>1, <1>5, <2>1, CallChain
    <2> QED
      BY <2>1, <2>2 DEF ChainKept
  <1> QED
    BY <1>2, <1>3, <1>4, <1>5, Defaults DEF Next

(* At every step outside clear and Drop, also when a split or a removal is *)
(* half done and after a panic, what is looked for in the leaves lies in   *)
(* the order in which the chain links them.                                *)
THEOREM ChainInvariant == Spec => []ChainInv
  <1>1. Init => ChainInv
    BY InitChain
  <1>2. ChainInv /\ [Next]_vars => ChainInv'
    BY NextChainKept
  <1> QED
    BY <1>1, <1>2, PTL DEF Spec

-----------------------------------------------------------------------------
(* There are finitely many leaves, so some set of them that is not empty   *)
(* has a first one.                                                        *)

(* The leaves of L before n.                                               *)
Below(L, z, n) == {m \in L : Lower(z[m], z[n])}

(* Leaves that are pairwise ordered have a first one.                      *)
LEMMA FirstOf ==
  ASSUME NEW L, IsFiniteSet(L), NEW z, Strictly(L, z),
         \A m, n \in L : m # n => Lower(z[m], z[n]) \/ Lower(z[n], z[m]),
         NEW T, T \subseteq L, T # {}
  PROVE  \E m \in T : \A n \in T : n # m => Lower(z[m], z[n])
  <1> DEFINE C == {Cardinality(Below(L, z, n)) : n \in T}
  <1>1. ASSUME NEW n \in L
        PROVE  IsFiniteSet(Below(L, z, n)) /\ Cardinality(Below(L, z, n)) \in Nat
    <2>1. Below(L, z, n) \in SUBSET L
      BY DEF Below
    <2> QED
      BY <2>1, FS_Subset, FS_CardinalityType
  <1>2. C \subseteq Nat /\ C # {}
    BY <1>1
  <1>3. PICK x \in C : \A y \in C : x <= y
    BY <1>2, LeastOf
  <1>4. PICK m \in T : x = Cardinality(Below(L, z, m))
    OBVIOUS
  <1>5. ASSUME NEW n \in T, n # m, Lower(z[n], z[m])
        PROVE  FALSE
    <2>1. PICK A : A = Below(L, z, n)
      OBVIOUS
    <2>2. PICK B : B = Below(L, z, m)
      OBVIOUS
    <2>3. A \in SUBSET B
      BY <1>5, <2>1, <2>2 DEF Below, Strictly
    <2>4. n \in B /\ n \notin A
      BY <1>5, <2>1, <2>2 DEF Below, Strictly
    <2>5. IsFiniteSet(B) /\ Cardinality(A) \in Nat /\ Cardinality(B) \in Nat
      BY <1>1, <2>1, <2>2
    <2>6. Cardinality(A) < Cardinality(B)
      BY <2>3, <2>4, <2>5, FS_Subset
    <2>7. Cardinality(B) <= Cardinality(A)
      BY <1>3, <1>4, <2>1, <2>2
    <2> QED
      BY <2>5, <2>6, <2>7, SMT
  <1>6. \A n \in T : n # m => Lower(z[m], z[n])
    BY <1>5
  <1> QED
    BY <1>6

(* What is linked up to the end from some leaf on is all leaves from it on.*)
LEMMA LinkedOn ==
  ASSUME NEW L, IsFiniteSet(L), Null \notin L, NEW nx, NEW pv, NEW z,
         ChainOf(L, nx, pv, z), Strictly(L, z),
         NEW S, S \subseteq L, \A n \in S : nx[n] \in S \cup {Null},
         NEW n \in S, NEW t \in L, t \notin S
  PROVE  Lower(z[t], z[n])
  <1> DEFINE T == {m \in L : m \notin S /\ Lower(z[n], z[m])}
  <1> SUFFICES ASSUME ~Lower(z[t], z[n]) PROVE FALSE
    OBVIOUS
  <1>1. \A k, m \in L : m # k => Lower(z[m], z[k]) \/ Lower(z[k], z[m])
    BY DEF ChainOf
  <1>2. n \in L /\ n # t
    OBVIOUS
  <1>3. t \in T
    BY <1>1, <1>2
  <1>4. PICK m \in T : \A k \in T : k # m => Lower(z[m], z[k])
    BY <1>1, <1>3, FirstOf
  <1>5. m \in L /\ m \notin S /\ Lower(z[n], z[m])
    OBVIOUS
  <1>6. PICK p : p = pv[m]
    OBVIOUS
  <1>7. p # Null /\ (n = p \/ Lower(z[n], z[p]))
    BY <1>2, <1>5, <1>6 DEF ChainOf
  <1>8. p \in L /\ nx[p] = m /\ Lower(z[p], z[m])
    BY <1>5, <1>6, <1>7, Mutual
  <1>9. p \notin S
    BY <1>5, <1>8
  <1>10. p \in T /\ p # m
    BY <1>5, <1>7, <1>8, <1>9 DEF Strictly
  <1>11. Lower(z[m], z[p])
    BY <1>4, <1>10
  <1> QED
    BY <1>5, <1>8, <1>11 DEF Strictly

(* A chain has a first leaf, and from it on it is all leaves.              *)
LEMMA ChainStarts ==
  ASSUME NEW L, IsFiniteSet(L), Null \notin L, NEW nx, NEW pv, NEW z,
         ChainOf(L, nx, pv, z), Strictly(L, z)
  PROVE  /\ L # {} => \E n \in L : pv[n] = Null
         /\ \A n, m \in L : pv[n] = Null => ~Lower(z[m], z[n])
  <1>1. \A k, m \in L : m # k => Lower(z[m], z[k]) \/ Lower(z[k], z[m])
    BY DEF ChainOf
  <1>2. ASSUME L # {}  PROVE \E n \in L : pv[n] = Null
    <2>1. PICK n \in L : \A k \in L : k # n => Lower(z[n], z[k])
      BY <1>1, <1>2, FirstOf
    <2>2. pv[n] # Null => pv[n] \in L /\ Lower(z[pv[n]], z[n])
      BY Mutual
    <2>3. pv[n] = Null
      BY <2>1, <2>2 DEF Strictly
    <2> QED
      BY <2>3
  <1>3. \A n, m \in L : pv[n] = Null => ~Lower(z[m], z[n])
    BY DEF ChainOf
  <1> QED
    BY <1>2, <1>3

(* The invariant implies what iterators rely on.                           *)
LEMMA ChainInvInOrder ==
  ASSUME ChainInv
  PROVE  ChainInOrder
  <1> SUFFICES ASSUME pc \notin {"free", "dropped"}
               PROVE  /\ \A n \in Leaves :
                           /\ Sorted(keys[n])
                           /\ next[n] # Null => next[n] \in Leaves /\ prev[next[n]] = n
                           /\ prev[n] # Null => prev[n] \in Leaves /\ next[prev[n]] = n
                      /\ Leaves # {} => \E n \in Leaves : prev[n] = Null
                      /\ \A S \in SUBSET Leaves : Linked(S) =>
                           /\ (\E n \in S : prev[n] = Null) => S = Leaves
                           /\ \A m \in Leaves \ S, n \in S :
                                \A j \in Range(keys[m]), k \in Range(keys[n]) : j < k
    BY DEF ChainInOrder
  <1>1. PICK lvl \in [Node -> Nat], zone \in Zones : ChainAt(zone)
    BY DEF ChainInv, Zones
  <1>2. PICK nx : nx = next
    OBVIOUS
  <1>3. PICK pv : pv = prev
    OBVIOUS
  <1>4. PICK L : L = Leaves
    OBVIOUS
  <1>5. ChainOf(L, nx, pv, zone) /\ Strictly(L, zone) /\ Null \notin L
    BY <1>1, <1>2, <1>3, <1>4, ChainFacts
  <1>6. IsFiniteSet(L)
    <2>1. Leaves \in SUBSET Live /\ IsFiniteSet(Live)
      BY <1>1 DEF ChainAt, Leaves, Live
    <2> QED
      BY <1>4, <2>1, FS_Subset
  <1>7. \A n \in Leaves : Sorted(keys[n]) /\ Range(keys[n]) \subseteq zone[n]
    BY <1>1 DEF ChainAt, Filed
  <1>8. ASSUME NEW n \in Leaves
        PROVE  /\ next[n] # Null => next[n] \in Leaves /\ prev[next[n]] = n
               /\ prev[n] # Null => prev[n] \in Leaves /\ next[prev[n]] = n
    <2>1. /\ nx[n] # Null => nx[n] \in L /\ pv[nx[n]] = n
          /\ pv[n] # Null => pv[n] \in L /\ nx[pv[n]] = n
      BY <1>4, <1>5, Mutual
    <2> QED
      BY <1>2, <1>3, <1>4, <2>1
  <1>9. /\ Leaves # {} => \E n \in Leaves : prev[n] = Null
        /\ \A n, m \in Leaves : prev[n] = Null => ~Lower(zone[m], zone[n])
    <2>1. /\ L # {} => \E n \in L : pv[n] = Null
          /\ \A n, m \in L : pv[n] = Null => ~Lower(zone[m], zone[n])
      BY <1>5, <1>6, ChainStarts
    <2> QED
      BY <1>3, <1>4, <2>1
  <1>10. ASSUME NEW S \in SUBSET Leaves, Linked(S), NEW m \in Leaves \ S, NEW n \in S
         PROVE  Lower(zone[m], zone[n])
    <2>1. S \subseteq L /\ n \in S /\ m \in L /\ m \notin S /\ \A k \in S : nx[k] \in S \cup {Null}
      BY <1>2, <1>4, <1>10 DEF Linked
    <2> QED
      BY <1>5, <1>6, <2>1, LinkedOn
  <1>11. ASSUME NEW S \in SUBSET Leaves, Linked(S)
         PROVE  /\ (\E n \in S : prev[n] = Null) => S = Leaves
                /\ \A m \in Leaves \ S, n \in S :
                     \A j \in Range(keys[m]), k \in Range(keys[n]) : j < k
    <2>1. \A m \in Leaves \ S, n \in S : Lower(zone[m], zone[n])
      BY <1>10, <1>11
    <2>2. (\E n \in S : prev[n] = Null) => S = Leaves
      BY <1>9, <2>1
    <2>3. \A m \in Leaves \ S, n \in S : \A j \in Range(keys[m]), k \in Range(keys[n]) : j < k
      BY <1>7, <2>1 DEF Lower
    <2> QED
      BY <2>2, <2>3
  <1> QED
    BY <1>7, <1>8, <1>9, <1>11

(* At every step outside clear and Drop the leaf chain that iterators walk *)
(* threads all leaves in the order of their keys, whatever the keys, the   *)
(* pool and the capacities.                                                *)
THEOREM ChainAlways == Spec => []ChainInOrder
  <1>1. ChainInv => ChainInOrder
    BY ChainInvInOrder
  <1> QED
    BY <1>1, ChainInvariant, PTL

-----------------------------------------------------------------------------
(* Nothing leaks.                                                          *)

(* Nothing has leaked from an empty map.                                   *)
LEMMA InitLeak ==
  ASSUME Init
  PROVE  LeakInv
  <1>1. OrderInv /\ pc = "idle"
    BY InitOrder DEF Init
  <1> QED
    BY <1>1 DEF OrderInv, LeakInv, LeakAt

(* The invariant holds after the step, for some levels and zones.          *)
LeakKept ==
  \E lvl \in [Node -> Nat], zone \in Zones : InvAt(lvl)' /\ OrderAt(lvl, zone)' /\ LeakAt(lvl)'

(* Freeing goes on until no block is left.                                 *)
LEMMA FreeStepLeak ==
  ASSUME NEW lvl \in [Node -> Nat], InvAt(lvl), InvAt(lvl)', NEW zone \in Zones,
         LeakAt(lvl), FreeStep
  PROVE  pc' = "idle" \/ LeakKept
  <1>1. CASE FreeDone
    <2>1. pc = "free" /\ pc' \in {"idle", "dropped"} /\ tag' = tag
      BY <1>1 DEF FreeDone, Leave, heap
    <2>2. Live = {}
      BY <1>1, <2>1, FreeDoneEmpties DEF LeakAt
    <2>3. pc' = "dropped" => OrderAt(lvl, zone)' /\ LeakAt(lvl)'
      BY <2>1, <2>2 DEF OrderAt, Whole, LeakAt, Live
    <2> QED
      BY <2>1, <2>3 DEF LeakKept
  <1>2. CASE FreeLeaf \/ FreeDescend \/ FreeNextChild \/ FreeBranch
    <2>1. pc = "free" /\ pc' = "free"
      BY <1>2 DEF FreeLeaf, FreeDescend, FreeNextChild, FreeBranch
    <2>2. Emptying(lvl)'
      BY <1>2, <2>1, FreeLeafEmpties, FreeDescendEmpties, FreeNextChildEmpties,
         FreeBranchEmpties DEF LeakAt
    <2>3. OrderAt(lvl, zone)' /\ LeakAt(lvl)'
      BY <2>1, <2>2 DEF OrderAt, Whole, LeakAt
    <2> QED
      BY <2>3 DEF LeakKept
  <1> QED
    BY <1>1, <1>2 DEF FreeStep

(* A tree that is whole is a tree to be freed.                             *)
LEMMA DiscardLeak ==
  ASSUME NEW lvl \in [Node -> Nat], InvAt(lvl), NEW zone \in Zones, OrderAt(lvl, zone),
         LeakAt(lvl), pc # "oom", NEW o \in {"clear", "drop"}, Discard(o)
  PROVE  LeakKept
  <1>1. pc \in {"idle", "overflow"} /\ pc' = "free" /\ o \in Ops \cup {"drop"}
    BY DEF Discard
  <1>2. Topped(lvl) /\ Hung
    BY <1>1 DEF OrderAt, Whole, LeakAt
  <1>3. Emptying(lvl)' /\ InvAt(lvl)'
    BY <1>1, <1>2, DiscardEmpties, DiscardSafe
  <1>4. OrderAt(lvl, zone)' /\ LeakAt(lvl)'
    BY <1>1, <1>3 DEF OrderAt, Whole, LeakAt
  <1> QED
    BY <1>3, <1>4 DEF LeakKept

(* A merge that panics leaves the tree as it was.                          *)
LEMMA MergePanicsLeak ==
  ASSUME NEW lvl \in [Node -> Nat], InvAt(lvl), NEW zone \in Zones, OrderAt(lvl, zone),
         MergePanics
  PROVE  LeakKept
  <1>1. pc = "fix" /\ pc' = "overflow" /\ right' = Null /\ UNCHANGED <<root, tag, children>>
    BY DEF MergePanics, Merging, Fixing, Leave, heap
  <1>2. InvAt(lvl)'
    BY QuietSafe DEF Quiet
  <1>3. Topped(lvl) /\ Hung /\ right = Null
    BY <1>1 DEF OrderAt, Whole, InvAt, Carried
  <1>4. Live' = Live /\ \A n : Kids(n)' = Kids(n)
    BY <1>1 DEF Live, Kids
  <1>5. Topped(lvl)' /\ Hung'
    BY <1>1, <1>3, <1>4 DEF Topped, Hung
  <1>6. OrderAt(lvl, zone)' /\ LeakAt(lvl)'
    BY <1>1, <1>5 DEF OrderAt, Whole, LeakAt
  <1> QED
    BY <1>2, <1>6 DEF LeakKept

(* No step leaks, unless an allocation fails.                              *)
LEMMA NextLeakKept ==
  ASSUME LeakInv, [Next]_vars, pc # "oom", pc' # "oom"
  PROVE  LeakInv'
  <1>1. PICK lvl \in [Node -> Nat], zone \in Zones :
          InvAt(lvl) /\ OrderAt(lvl, zone) /\ LeakAt(lvl)
    BY DEF LeakInv, Zones
  <1>2. LeakKept => LeakInv'
    BY DEF LeakKept, LeakInv, Zones
  <1>3. ASSUME pc' \in {"idle", "descend", "split", "fix"}  PROVE LeakInv'
    <2>1. OrderInv
      BY <1>1 DEF OrderInv, Zones
    <2>2. OrderInv'
      BY <2>1, NextOrderKept
    <2> QED
      BY <1>3, <2>2 DEF OrderInv, LeakInv, LeakAt
  <1>4. CASE FreeStep
    <2>1. InvAt(lvl)'
      BY <1>1, <1>4, FreeLeafSafe, FreeDescendSafe, FreeNextChildSafe, FreeBranchSafe,
         FreeDoneSafe DEF FreeStep
    <2> QED
      BY <1>1, <1>2, <1>3, <1>4, <2>1, FreeStepLeak
  <1>5. CASE Discard("clear") \/ Discard("drop")
    BY <1>1, <1>2, <1>5, DiscardLeak
  <1>6. CASE MergePanics
    BY <1>1, <1>2, <1>6, MergePanicsLeak
  <1>7. CASE UNCHANGED vars
    <2>1. InvAt(lvl)' /\ OrderAt(lvl, zone)'
      BY <1>1, <1>7, StutterSafe, StutterOrder
    <2>2. UNCHANGED <<root, tag, children, right, cur, path, pc>>
      BY <1>7 DEF vars, heap, split, call
    <2>3. /\ Live' = Live /\ Top' = Top /\ Parent' = Parent /\ \A n : Kids(n)' = Kids(n)
      BY <2>2 DEF Live, Top, Parent, Kids
    <2>4. LeakAt(lvl)'
      BY <1>1, <2>2, <2>3 DEF LeakAt, Topped, Hung, Emptying, Gone
    <2> QED
      BY <1>2, <2>1, <2>4 DEF LeakKept
  <1>8. CASE \/ \E k \in Key, v \in Val : Call("insert", k, v) \/ Call("get_mut", k, v)
             \/ \E k \in Key : Call("remove", k, v0) \/ Call("get", k, v0)
    <2>1. pc' = "descend"
      BY <1>8 DEF Call
    <2> QED
      BY <1>3, <2>1
  <1>9. CASE Descend \/ MissEmpty \/ Get \/ GetMut \/ InsertStep
    <2>1. pc' \in {"idle", "descend", "split", "oom"}
      BY <1>9 DEF Descend, MissEmpty, Get, GetMut, InsertStep, AllocRoot, InsertReplace,
         InsertIntoLeafSlot, SplitLeaf, InsertIntoBranch, BranchInsertAndSplit, NewRoot,
         AllocFails, AtLeaf, Return, Leave
    <2> QED
      BY <1>3, <2>1
  <1>10. CASE RemoveStep /\ ~MergePanics
    <2>1. CASE RemoveMiss \/ RemoveHit \/ RemoveReturns \/ CollapseRoot \/ CollapseByMerging
      <3>1. pc' \in {"idle", "fix"}
        BY <2>1 DEF RemoveMiss, RemoveHit, RemoveReturns, CollapseRoot, CollapseByMerging,
           Return, Leave
      <3> QED
        BY <1>3, <3>1, SMTT(30)
    <2>2. CASE FixNothing \/ MergeLeaves \/ MergeBranches
      <3>1. pc' = "fix"
        BY <2>2 DEF FixNothing, MergeLeaves, MergeBranches, Merging, Fixing
      <3> QED
        BY <1>3, <3>1
    <2>3. CASE \/ BorrowFromLeftLeaf \/ BorrowFromRightLeaf
               \/ BorrowFromLeftBranch \/ BorrowFromRightBranch
      <3>1. pc' = "fix"
        BY <2>3 DEF BorrowFromLeftLeaf, BorrowFromRightLeaf, BorrowFromLeftBranch,
           BorrowFromRightBranch, Fixing
      <3> QED
        BY <1>3, <3>1
    <2> QED
      BY <1>10, <2>1, <2>2, <2>3 DEF RemoveStep
  <1> QED
    BY <1>4, <1>5, <1>6, <1>7, <1>8, <1>9, <1>10 DEF Next, Step

(* Blocks that hang from others hang from the root in the end.             *)
LEMMA LeakInvNothingLeaks ==
  ASSUME LeakInv
  PROVE  NothingLeaks
  <1> SUFFICES ASSUME pc \in {"idle", "dropped"}, NEW S \in SUBSET Live, Closed(S)
               PROVE  \A n \in Live : n \in S
    BY DEF NothingLeaks
  <1>1. PICK lvl \in [Node -> Nat], zone \in Zones :
          InvAt(lvl) /\ OrderAt(lvl, zone) /\ LeakAt(lvl)
    BY DEF LeakInv, Zones
  <1>2. CASE pc = "dropped"
    BY <1>1, <1>2 DEF LeakAt
  <1>3. CASE pc = "idle"
    <2> DEFINE B == {n \in Live : n \notin S}
    <2>1. Topped(lvl) /\ Hung /\ right = Null /\ Levels(lvl, tag, children) /\ TypeOK
      BY <1>1, <1>3 DEF OrderAt, Whole, InvAt, Carried
    <2>2. B \subseteq Node
      BY DEF Live
    <2>3. ASSUME NEW n \in B  PROVE \E p \in B : lvl[p] = lvl[n] + 1
      <3>1. n # Null /\ n # root
        BY <2>2, NodeAssumption DEF Closed
      <3>2. PICK p \in Live : n \in Kids(p)
        BY <2>1, <3>1 DEF Hung
      <3>3. p \notin S
        BY <3>2 DEF Closed
      <3>4. lvl[p] = lvl[n] + 1
        BY <2>1, <3>2 DEF Levels, Live, Kids
      <3> QED
        BY <3>2, <3>3, <3>4
    <2>4. CASE root = Null
      BY <2>1, <2>4 DEF Topped
    <2>5. CASE root # Null
      <3>1. lvl[root] \in Nat /\ \A n \in B : lvl[n] <= lvl[root]
        BY <2>1, <2>5 DEF Topped, TypeOK
      <3>2. B = {}
        BY <2>2, <2>3, <3>1, NoneOnTop
      <3> QED
        BY <3>2
    <2> QED
      BY <2>4, <2>5
  <1> QED
    BY <1>2, <1>3

(* As long as no allocation fails, every block in use hangs from the root  *)
(* between calls, and Drop leaves none, whatever the keys, the pool and    *)
(* the capacities.                                                         *)
THEOREM NothingEverLeaks == Spec /\ [](pc # "oom") => []NothingLeaks
  <1>1. Init => LeakInv
    BY InitLeak
  <1>2. LeakInv /\ [Next]_vars /\ pc # "oom" /\ pc' # "oom" => LeakInv'
    BY NextLeakKept
  <1>3. LeakInv => NothingLeaks
    BY LeakInvNothingLeaks
  <1> DEFINE Given == pc # "oom"
  <1>4. LeakInv /\ [Next]_vars /\ Given /\ Given' => LeakInv'
    BY <1>2
  <1> HIDE DEF Given
  <1>5. Init /\ [][Next]_vars /\ []Given => []NothingLeaks
    BY <1>1, <1>3, <1>4, PTL
  <1> QED
    BY <1>5, PTL DEF Spec, Given

-----------------------------------------------------------------------------
(* Occupancy.                                                              *)

(* A block that keeps its kind keeps its minimum.                          *)
LEMMA MinLenSame ==
  ASSUME NEW n, tag'[n] = tag[n]
  PROVE  MinLen(n)' = MinLen(n)
  BY DEF MinLen

(* Minima by kind.                                                         *)
LEMMA MinLenOf ==
  ASSUME BranchCap >= 2, NEW n
  PROVE  /\ tag[n] = "leaf" => MinLen(n) = LeafCap \div 2
         /\ tag[n] # "leaf" => MinLen(n) \in Nat /\ MinLen(n) >= 1 /\ MinLen(n) <= BranchCap \div 2
  <1>1. LeafCap \in Nat /\ BranchCap \in Nat
    BY Caps
  <1>2. tag[n] # "leaf" => MinLen(n) = IF BranchCap <= 2 THEN 1 ELSE BranchCap \div 2
    BY DEF MinLen
  <1>3. tag[n] = "leaf" => MinLen(n) = LeafCap \div 2
    BY DEF MinLen
  <1>4. PICK m : m = IF BranchCap <= 2 THEN 1 ELSE BranchCap \div 2
    OBVIOUS
  <1>5. m \in Nat /\ m >= 1 /\ m <= BranchCap \div 2
    BY <1>1, <1>4, SMT
  <1> QED
    BY <1>2, <1>3, <1>4, <1>5

(* What a proof about a step that leaves no repair to do has to show.      *)
LEMMA FillSettles ==
  ASSUME pc' # "fix",
         \A n \in Live' : n # root' \/ TopSplit' => Len(keys'[n]) >= MinLen(n)',
         root' # Null /\ tag'[root'] = "branch" => Len(keys'[root']) >= 1
  PROVE  FillInv'
  <1>1. \A n \in Node : ~Lacks(n)'
    BY DEF Lacks, Fixing
  <1>2. \A n \in Live' : n \in Node
    BY DEF Live
  <1> QED
    BY <1>1, <1>2 DEF FillInv, Retraced

(* What there is before one.                                               *)
LEMMA FillBefore ==
  ASSUME FillInv, Whole, pc # "fix"
  PROVE  /\ \A n \in Live : n # root \/ TopSplit => Len(keys[n]) >= MinLen(n)
         /\ root # Null /\ tag[root] = "branch" => Len(keys[root]) >= 1
  <1>1. \A n \in Node : ~Lacks(n)
    BY DEF Lacks, Fixing
  <1>2. \A n \in Live : n \in Node
    BY DEF Live
  <1> QED
    BY <1>1, <1>2 DEF FillInv, Repaired

(* A step that takes nothing out of a block.                               *)
LEMMA FillGrows ==
  ASSUME TypeOK, TypeOK', FillInv, Whole, pc # "fix", pc' # "fix", ~TopSplit', UNCHANGED <<root, tag>>,
         \A n \in Node : Len(keys'[n]) >= Len(keys[n])
  PROVE  FillInv'
  <1>1. \A n \in Live' : n \in Node /\ n \in Live /\ MinLen(n)' = MinLen(n)
    BY MinLenSame DEF Live
  <1>2. \A n \in Node : Len(keys[n]) \in Nat /\ Len(keys'[n]) \in Nat /\ MinLen(n) \in Nat
    <2> TAKE n \in Node
    <2>1. keys[n] \in Seq(Key) /\ keys'[n] \in Seq(Key)
      BY DEF TypeOK
    <2>2. Len(keys[n]) \in Nat /\ Len(keys'[n]) \in Nat
      BY <2>1, SMT
    <2> QED
      BY <2>2, MinLenBounds
  <1>3. ASSUME NEW n \in Live', n # root'  PROVE Len(keys'[n]) >= MinLen(n)'
    <2>1. Len(keys[n]) >= MinLen(n) /\ Len(keys'[n]) >= Len(keys[n]) /\ MinLen(n)' = MinLen(n) /\ n \in Node
      BY <1>1, <1>3, FillBefore
    <2>2. PICK x \in Nat, y \in Nat, m \in Nat : x = Len(keys[n]) /\ y = Len(keys'[n]) /\ m = MinLen(n)
      BY <1>2, <2>1
    <2>3. y >= m
      BY <2>1, <2>2, SMT
    <2> QED
      BY <2>1, <2>2, <2>3
  <1>4. ASSUME root' # Null, tag'[root'] = "branch"  PROVE Len(keys'[root']) >= 1
    <2>1. root \in Node /\ Len(keys[root]) >= 1
      BY <1>4, FillBefore DEF TypeOK
    <2>2. Len(keys'[root]) >= Len(keys[root]) /\ Len(keys[root]) \in Nat /\ Len(keys'[root]) \in Nat
      BY <1>2, <2>1
    <2> QED
      BY <2>1, <2>2, SMT
  <1> QED
    BY <1>3, <1>4, FillSettles

(* The branch that is repaired has a separator, and the child it may have  *)
(* to repair is the only one that lacks an entry.                          *)
LEMMA FillFixing ==
  ASSUME NEW lvl \in [Node -> Nat], InvAt(lvl), FillInv, Fixing, BranchCap >= 2
  PROVE  /\ FixPos = Top.pos /\ Fixed = Child(Top.pos) /\ Seps >= 1
         /\ \A n \in Live : n # root /\ n # Fixed => Len(keys[n]) >= MinLen(n)
         /\ Len(keys[Fixed]) + 1 >= MinLen(Fixed)
         /\ root # Null /\ tag[root] = "branch" => Len(keys[root]) >= 1
         /\ path[1].node = root /\ \A i \in 1 .. Len(path) - 1 : Follows(i)
  <1>1. TypeOK /\ Shape /\ pc = "fix" /\ path # <<>> /\ Walking /\ Whole /\ ~TopSplit /\ ~Repaired
    BY DEF InvAt, Fixing, Walking, Whole, TopSplit, Repaired
  <1>2. /\ Parent \in Node /\ tag[Parent] = "branch" /\ Len(keys[Parent]) \in Nat
        /\ Top.pos \in 1 .. Len(keys[Parent]) + 1
    BY <1>1, ParentFacts
  <1>3. FixPos = Top.pos
    <2>1. PICK t : t = Top.pos
      OBVIOUS
    <2>2. t \in 1 .. Len(keys[Parent]) + 1
      BY <1>2, <2>1
    <2>3. t <= Len(keys[Parent]) + 1
      BY <1>2, <2>2, SMT
    <2> QED
      BY <2>1, <2>3 DEF FixPos, Seps
  <1>4. Fixed = Child(Top.pos)
    BY <1>3 DEF Fixed
  <1>5. /\ Fixed \in Node /\ tag[Fixed] # "free" /\ Fixed # Parent /\ Fixed # root /\ Seps \in Nat
    BY FixFacts
  <1>6. \A n \in Live : Lacks(n) <=> n = Fixed
    BY <1>4 DEF Lacks
  <1>7. \A n \in Live : n # root /\ n # Fixed => Len(keys[n]) >= MinLen(n)
    BY <1>1, <1>6 DEF FillInv
  <1>8. Fixed \in Live /\ Parent \in Live
    BY <1>2, <1>5 DEF Live
  <1>9. Len(keys[Fixed]) + 1 >= MinLen(Fixed)
    BY <1>1, <1>5, <1>6, <1>8 DEF FillInv
  <1>10. root # Null /\ tag[root] = "branch" => Len(keys[root]) >= 1
    BY <1>1 DEF FillInv
  <1>11. Seps >= 1
    <2>1. CASE Parent = root
      <3>1. root # Null
        BY <1>2, <2>1, NodeAssumption
      <3> QED
        BY <1>2, <1>10, <2>1, <3>1 DEF Seps
    <2>2. CASE Parent # root
      <3>1. Seps >= MinLen(Parent)
        BY <1>5, <1>7, <1>8, <2>2 DEF Seps
      <3>2. MinLen(Parent) \in Nat /\ MinLen(Parent) >= 1
        BY <1>2, MinLenOf
      <3> QED
        BY <1>5, <3>1, <3>2, SMT
    <2> QED
      BY <2>1, <2>2
  <1>12. path[1].node = root /\ \A i \in 1 .. Len(path) - 1 : Follows(i)
    BY <1>1 DEF FillInv, Retraced
  <1> QED
    BY <1>3, <1>4, <1>7, <1>9, <1>10, <1>11, <1>12

(* What a proof about a repair has to show: the child lacks nothing any    *)
(* more, and its branch, if it lost a separator, is the next child.        *)
LEMMA FillRepairs ==
  ASSUME NEW lvl \in [Node -> Nat], InvAt(lvl), TypeOK', FillInv, BranchCap >= 2,
         Fixing, pc' = "fix", root' = root, PopPath,
         \A n \in Node : lvl[n] > lvl[Parent] => children'[n] = children[n],
         \A n \in Live' : n # Parent =>
           \/ n \in Live /\ n # Fixed /\ tag'[n] = tag[n] /\ keys'[n] = keys[n]
           \/ n # root /\ Len(keys'[n]) >= MinLen(n)',
         tag'[Parent] = tag[Parent], Len(keys'[Parent]) + 1 >= Len(keys[Parent])
  PROVE  FillInv'
  <1>1. TypeOK /\ Shape /\ pc = "fix" /\ path # <<>> /\ Walking /\ path' = Front(path)
    BY DEF InvAt, Fixing, Walking, PopPath
  <1>2. /\ Parent \in Node /\ Len(keys[Parent]) \in Nat /\ root \in Node
        /\ lvl[Parent] + Len(path) = lvl[root] + 1
        /\ \A i \in 1 .. Len(path) - 1 : path[i].node \in Node /\ lvl[path[i].node] > lvl[Parent]
    BY <1>1, ParentFacts
  <1>3. /\ Len(path) \in Nat /\ Len(path) >= 1 /\ Top = path[Len(path)]
        /\ path' \in Seq(Frame) /\ Len(path') = Len(path) - 1
        /\ \A i \in 1 .. Len(path) - 1 : path'[i] = path[i]
    BY <1>1, TopFrame
  <1>4. /\ \A n \in Live : n # root /\ n # Fixed => Len(keys[n]) >= MinLen(n)
        /\ root # Null /\ tag[root] = "branch" => Len(keys[root]) >= 1
        /\ path[1].node = root /\ \A i \in 1 .. Len(path) - 1 : Follows(i)
        /\ Parent # Fixed
    BY FillFixing, FixFacts
  <1>5. \A i \in 1 .. Len(path) - 1 : children'[path[i].node] = children[path[i].node]
    BY <1>2
  <1>6. CASE path' = <<>>
    <2>1. Len(path) = 1 /\ Parent = root
      <3>1. Len(path') = 0
        BY <1>6
      <3>2. Len(path) = 1
        BY <1>3, <3>1, SMT
      <3> QED
        BY <1>3, <1>4, <3>2 DEF Parent
    <2>2. \A n \in Node : ~Lacks(n)'
      BY <1>6 DEF Lacks, Fixing
    <2>3. \A n \in Live' : n \in Node
      BY DEF Live
    <2>4. ASSUME NEW n \in Live', n # root  PROVE Len(keys'[n]) >= MinLen(n)'
      <3>1. CASE n \in Live /\ n # Fixed /\ tag'[n] = tag[n] /\ keys'[n] = keys[n]
        BY <1>4, <2>4, <3>1, MinLenSame
      <3> QED
        BY <2>1, <2>4, <3>1
    <2>5. Repaired' /\ ~TopSplit' /\ Retraced'
      <3>1. 1 .. 0 - 1 = {}
        BY SMT
      <3> QED
        BY <1>6, <3>1 DEF Repaired, TopSplit, Retraced
    <2> QED
      BY <2>2, <2>3, <2>4, <2>5 DEF FillInv
  <1>7. CASE path' # <<>>
    <2>1. PICK m \in Nat : m = Len(path) - 1 /\ m >= 1 /\ m \in 1 .. Len(path) - 1 /\ m + 1 = Len(path)
      <3>1. Len(path') # 0
        BY <1>3, <1>7
      <3> QED
        BY <1>3, <3>1, SMT
    <2>2. path'[m] = path[m] /\ Last(path') = path'[m]
      BY <1>3, <2>1 DEF Last
    <2>3. 1 \in 1 .. Len(path) - 1 /\ path'[1] = path[1]
      BY <1>3, <2>1, SMT
    <2>4. Parent # root
      <3>1. lvl[path[1].node] > lvl[Parent] /\ path[1].node = root
        BY <1>2, <1>4, <2>3
      <3>2. lvl[Parent] \in Nat
        BY <1>2
      <3>3. ~(lvl[Parent] > lvl[Parent])
        BY <3>2, SMT
      <3> QED
        BY <3>1, <3>3
    <2>5. children'[path[m].node][path[m].pos] = Parent
      <3>1. Follows(m)
        BY <1>4, <2>1
      <3>2. path[m + 1] = Top
        BY <1>3, <2>1
      <3> QED
        BY <1>5, <2>1, <3>1, <3>2 DEF Follows, Parent
    <2>6. \A n \in Node : Lacks(n)' <=> n = Parent
      <3>1. Fixing' /\ Child(Top.pos)' = children'[path[m].node][path[m].pos]
        BY <1>1, <1>7, <2>2 DEF Fixing, Child, Top, Parent
      <3> QED
        BY <2>5, <3>1 DEF Lacks
    <2>7. \A n \in Live' : n \in Node
      BY DEF Live
    <2>8. ASSUME NEW n \in Live', n # root, n # Parent  PROVE Len(keys'[n]) >= MinLen(n)'
      <3>1. CASE n \in Live /\ n # Fixed /\ tag'[n] = tag[n] /\ keys'[n] = keys[n]
        BY <1>4, <2>8, <3>1, MinLenSame
      <3> QED
        BY <2>8, <3>1
    <2>9. PICK p : p = Parent
      OBVIOUS
    <2>10. p \in Live' => Len(keys'[p]) + 1 >= MinLen(p)'
      <3>1. HAVE p \in Live'
      <3>2. tag[p] = "branch" /\ p \in Node /\ p # Fixed /\ p # root
        BY <1>1, <1>4, <2>4, <2>9, ParentFacts
      <3>3. p \in Live
        BY <3>2 DEF Live
      <3>4. MinLen(p)' = MinLen(p)
        BY <2>9, MinLenSame
      <3>5. Len(keys[p]) >= MinLen(p)
        BY <1>4, <3>2, <3>3
      <3>6. MinLen(p) \in Nat /\ keys'[p] \in Seq(Key)
        BY <3>2, MinLenBounds DEF TypeOK
      <3>7. PICK x \in Nat, y \in Nat, z \in Nat :
              x = Len(keys[p]) /\ y = Len(keys'[p]) /\ z = MinLen(p)
        <4>1. Len(keys'[p]) \in Nat
          BY <3>6, SMT
        <4> QED
          BY <1>2, <2>9, <3>6, <4>1
      <3>8. y + 1 >= x
        BY <2>9, <3>7
      <3>9. y + 1 >= z
        BY <3>5, <3>7, <3>8, SMT
      <3> QED
        BY <3>4, <3>7, <3>9
    <2>11. ASSUME root # Null, tag'[root] = "branch"  PROVE Len(keys'[root]) >= 1
      <3>1. root \in Live' /\ root # Parent
        BY <1>2, <2>4, <2>11 DEF Live
      <3>2. tag'[root] = tag[root] /\ keys'[root] = keys[root]
        BY <3>1
      <3> QED
        BY <1>4, <2>11, <3>2
    <2>12. Retraced'
      <3>1. path'[1].node = root'
        BY <1>4, <2>3
      <3>2. ASSUME NEW i \in 1 .. Len(path') - 1  PROVE Follows(i)'
        <4>1. i \in 1 .. Len(path) - 1 /\ i + 1 \in 1 .. Len(path) - 1
          BY <1>3, SMT
        <4>2. path'[i] = path[i] /\ path'[i + 1] = path[i + 1] /\ Follows(i)
              /\ children'[path[i].node] = children[path[i].node]
          BY <1>3, <1>4, <1>5, <4>1
        <4> QED
          BY <4>2 DEF Follows
      <3> QED
        BY <3>1, <3>2 DEF Retraced
    <2>13. ~TopSplit'
      BY DEF TopSplit
    <2>14. ASSUME NEW n \in Live', n # root' \/ TopSplit'
           PROVE  IF Lacks(n)' THEN Len(keys'[n]) + 1 >= MinLen(n)' ELSE Len(keys'[n]) >= MinLen(n)'
      <3>1. n \in Node /\ n # root /\ (Lacks(n)' <=> n = Parent)
        BY <2>6, <2>7, <2>13, <2>14
      <3>2. CASE n = Parent
        BY <2>9, <2>10, <3>1, <3>2
      <3>3. CASE n # Parent
        BY <2>8, <3>1, <3>3
      <3> QED
        BY <3>2, <3>3
    <2> QED
      BY <2>11, <2>12, <2>14 DEF FillInv
  <1> QED
    BY <1>6, <1>7

(* A repair with nothing to repair.                                        *)
LEMMA FixNothingFill ==
  ASSUME NEW lvl \in [Node -> Nat], InvAt(lvl), TypeOK', FillInv, BranchCap >= 2, FixNothing
  PROVE  FillInv'
  <1>1. /\ Fixing /\ ~Underfull /\ PopPath /\ pc' = "fix" /\ root' = root
        /\ UNCHANGED <<tag, keys, children>>
    BY DEF FixNothing, heap, Fixing
  <1>2. Seps \in Nat /\ Seps >= 1 /\ Fixed \in Node /\ Fixed # root /\ Parent \in Node
        /\ FixPos \in 1 .. Seps + 1
    BY <1>1, FillFixing, FixFacts, ParentFacts DEF Walking, Fixing
  <1>3. Len(keys[Fixed]) >= MinLen(Fixed) /\ Len(keys'[Parent]) + 1 >= Len(keys[Parent])
    <2>1. keys[Fixed] \in Seq(Key) /\ MinLen(Fixed) \in Nat
      BY <1>2, MinLenBounds DEF InvAt, TypeOK
    <2>2. Len(keys[Fixed]) \in Nat /\ Seps > 0
      BY <1>2, <2>1, SMT
    <2>3. ~(Len(keys[Fixed]) < MinLen(Fixed))
      BY <1>1, <2>2 DEF Underfull
    <2>4. PICK x \in Nat, m \in Nat : x = Len(keys[Fixed]) /\ m = MinLen(Fixed)
      BY <2>1, <2>2
    <2>5. x >= m
      BY <2>3, <2>4, SMT
    <2>6. keys'[Parent] = keys[Parent] /\ Len(keys[Parent]) \in Nat
      BY <1>1, <1>2 DEF Seps
    <2>7. Len(keys[Parent]) + 1 >= Len(keys[Parent])
      BY <2>6, SMT
    <2> QED
      BY <2>4, <2>5, <2>6, <2>7
  <1>4. ASSUME NEW n \in Live'
        PROVE  \/ n \in Live /\ n # Fixed /\ tag'[n] = tag[n] /\ keys'[n] = keys[n]
               \/ n # root /\ Len(keys'[n]) >= MinLen(n)'
    <2>1. n \in Live /\ MinLen(n)' = MinLen(n)
      BY <1>1, MinLenSame DEF Live
    <2> QED
      BY <1>1, <1>2, <1>3, <2>1
  <1> QED
    BY <1>1, <1>3, <1>4, FillRepairs

(* The sibling a lends to the child b: what the three blocks hold then.    *)
Lends(a, b, p, ka, kb, kp) ==
  /\ \E i \in 1 .. Seps + 1 : a = Child(i) /\ CanLend(Child(i))
  /\ a # b /\ b = Fixed /\ p = Parent
  /\ Thrice(keys, keys', a, ka, b, kb, p, kp)
  /\ Len(ka) = Len(keys[a]) - 1 /\ Len(kb) = Len(keys[b]) + 1 /\ Len(kp) = Len(keys[p])
  /\ \A n \in Node : n # a /\ n # b => children'[n] = children[n]

(* A sibling that lends has enough left, and the child is one up.          *)
LEMMA FillBorrows ==
  ASSUME NEW lvl \in [Node -> Nat], InvAt(lvl), TypeOK', FillInv, BranchCap >= 2,
         Fixing, pc' = "fix", root' = root, PopPath, tag' = tag,
         NEW a, NEW b, NEW p, NEW ka, NEW kb, NEW kp, Lends(a, b, p, ka, kb, kp)
  PROVE  FillInv'
  <1>1. PICK i \in 1 .. Seps + 1 : a = Child(i) /\ CanLend(Child(i))
    BY DEF Lends
  <1>2. /\ a # b /\ b = Fixed /\ p = Parent
         /\ Len(ka) = Len(keys[a]) - 1 /\ Len(kb) = Len(keys[b]) + 1 /\ Len(kp) = Len(keys[p])
         /\ \A n \in Node : n # a /\ n # b => children'[n] = children[n]
    BY DEF Lends
  <1>3. TypeOK /\ Shape /\ pc = "fix" /\ path # <<>> /\ Walking
    BY DEF InvAt, Fixing, Walking
  <1>4. /\ FixPos \in 1 .. Seps + 1 /\ a \in Node /\ b \in Node /\ p \in Node
        /\ a # p /\ b # p /\ a # root /\ b # root
        /\ lvl[p] = lvl[a] + 1 /\ lvl[p] = lvl[b] + 1 /\ tag[a] = tag[b]
    BY <1>1, <1>2, <1>3, FixFacts, ParentFacts
  <1>5. MinLen(a) = MinLen(b)
    BY <1>4 DEF MinLen
  <1>6. PICK m \in Nat, x \in Nat, y \in Nat, z \in Nat :
          m = MinLen(b) /\ x = Len(keys[a]) /\ y = Len(keys[b]) /\ z = Len(keys[p])
    <2>1. MinLen(b) \in Nat /\ Len(keys[a]) \in Nat /\ Len(keys[b]) \in Nat /\ Len(keys[p]) \in Nat
      BY <1>3, <1>4, MinLenBounds, BlockTypes
    <2> QED
      BY <2>1
  <1>7. x > m /\ y + 1 >= m
    BY <1>1, <1>2, <1>4, <1>6, FillFixing DEF CanLend
  <1>8. Len(ka) >= m /\ Len(kb) >= m /\ Len(kp) + 1 >= Len(keys[p])
    BY <1>2, <1>6, <1>7, SMT
  <1>9. keys'[a] = ka /\ keys'[b] = kb /\ keys'[p] = kp
        /\ \A n \in Node : n # a /\ n # b /\ n # p => keys'[n] = keys[n]
    BY DEF Lends, Thrice
  <1>10. ASSUME NEW n \in Live', n # p
        PROVE  \/ n \in Live /\ n # Fixed /\ tag'[n] = tag[n] /\ keys'[n] = keys[n]
               \/ n # root /\ Len(keys'[n]) >= MinLen(n)'
    <2>1. n \in Live /\ n \in Node /\ MinLen(n)' = MinLen(n)
      BY MinLenSame DEF Live
    <2>2. CASE n = a
      BY <1>4, <1>5, <1>6, <1>8, <1>9, <2>1, <2>2
    <2>3. CASE n = b
      BY <1>4, <1>6, <1>8, <1>9, <2>1, <2>3
    <2>4. CASE n # a /\ n # b
      BY <1>2, <1>9, <1>10, <2>1, <2>4
    <2> QED
      BY <2>2, <2>3, <2>4
  <1>11. ASSUME NEW n \in Node, lvl[n] > lvl[p]  PROVE children'[n] = children[n]
    <2>1. lvl[n] \in Nat /\ lvl[p] \in Nat /\ lvl[a] \in Nat /\ lvl[b] \in Nat
      BY <1>4
    <2>2. ~(lvl[a] > lvl[p]) /\ ~(lvl[b] > lvl[p])
      BY <1>4, <2>1, SMT
    <2> QED
      BY <1>2, <1>11, <2>2
  <1>12. Len(keys'[p]) + 1 >= Len(keys[p]) /\ tag'[p] = tag[p]
    BY <1>8, <1>9
  <1> QED
    BY <1>2, <1>10, <1>11, <1>12, FillRepairs

(* The child or sibling a takes what b holds.                              *)
Merges(a, b, p, ka, kb, kp) ==
  /\ a = Into /\ b = From /\ p = Parent
  /\ tag' = [tag EXCEPT ![b] = "free"]
  /\ Thrice(keys, keys', a, ka, b, kb, p, kp)
  /\ Len(ka) >= Len(keys[a]) /\ Len(ka) >= Len(keys[b]) /\ Len(kp) = Len(keys[p]) - 1
  /\ \A n \in Node : n # a /\ n # b /\ n # p => children'[n] = children[n]

(* Two children that merge hold what one must hold at least.               *)
LEMMA FillMerges ==
  ASSUME NEW lvl \in [Node -> Nat], InvAt(lvl), TypeOK', FillInv, BranchCap >= 2,
         Merging, pc' = "fix", root' = root, PopPath,
         NEW a, NEW b, NEW p, NEW ka, NEW kb, NEW kp, Merges(a, b, p, ka, kb, kp)
  PROVE  FillInv'
  <1>1. /\ a = Into /\ b = From /\ p = Parent /\ tag' = [tag EXCEPT ![b] = "free"]
        /\ Len(ka) >= Len(keys[a]) /\ Len(ka) >= Len(keys[b]) /\ Len(kp) = Len(keys[p]) - 1
        /\ \A n \in Node : n # a /\ n # b /\ n # p => children'[n] = children[n]
    BY DEF Merges
  <1>2. TypeOK /\ Shape /\ pc = "fix" /\ path # <<>> /\ Walking /\ Fixing
    BY DEF InvAt, Fixing, Walking, Merging
  <1>3. /\ p \in Node /\ a \in Node /\ b \in Node /\ a # b /\ a # p /\ b # p
        /\ tag[a] = tag[Fixed] /\ tag[b] = tag[Fixed] /\ lvl[a] = lvl[b] /\ lvl[p] = lvl[a] + 1
    BY <1>1, MergeFacts
  <1>4. /\ FixPos \in 1 .. Seps + 1 /\ Seps \in Nat /\ Seps >= 1 /\ Fixed = Child(FixPos)
        /\ \A i \in 1 .. Seps + 1 : Child(i) \in Node /\ Child(i) # root /\ tag[Child(i)] # "free"
        /\ \A n \in Live : n # root /\ n # Fixed => Len(keys[n]) >= MinLen(n)
    BY <1>2, FillFixing, FixFacts
  <1>5. /\ a # root /\ b # root /\ a \in Live /\ b \in Live /\ Fixed \in {a, b}
    <2>1. MergePos \in 1 .. Seps + 1 /\ MergePos + 1 \in 1 .. Seps + 1
          /\ (FixPos = MergePos \/ FixPos = MergePos + 1)
      <3>1. PICK f \in Nat, s \in Nat : f = FixPos /\ s = Seps /\ f \in 1 .. s + 1 /\ s >= 1
        BY <1>4
      <3>2. MergePos = IF f > 1 THEN f - 1 ELSE f
        BY <3>1 DEF MergePos
      <3>3. /\ MergePos \in 1 .. s + 1 /\ MergePos + 1 \in 1 .. s + 1
            /\ f = MergePos \/ f = MergePos + 1
        BY <3>1, <3>2, SMT
      <3> QED
        BY <3>1, <3>3
    <2>2. a = Child(MergePos) /\ b = Child(MergePos + 1)
      BY <1>1 DEF Into, From
    <2> QED
      BY <1>3, <1>4, <2>1, <2>2 DEF Live
  <1>6. MinLen(a) = MinLen(b)
    BY <1>3 DEF MinLen
  <1>7. Len(keys[a]) >= MinLen(a) \/ Len(keys[b]) >= MinLen(a)
    BY <1>3, <1>4, <1>5, <1>6
  <1>8. PICK m \in Nat, x \in Nat, y \in Nat, z \in Nat :
          m = MinLen(a) /\ x = Len(keys[a]) /\ y = Len(keys[b]) /\ z = Len(keys[p])
    <2>1. MinLen(a) \in Nat /\ Len(keys[a]) \in Nat /\ Len(keys[b]) \in Nat /\ Len(keys[p]) \in Nat
      BY <1>2, <1>3, MinLenBounds, BlockTypes
    <2> QED
      BY <2>1
  <1>9. keys'[a] = ka /\ keys'[b] = kb /\ keys'[p] = kp
        /\ \A n \in Node : n # a /\ n # b /\ n # p => keys'[n] = keys[n]
    BY DEF Merges, Thrice
  <1>10. Len(ka) >= m /\ Len(keys'[p]) + 1 >= Len(keys[p])
    <2>1. keys'[a] \in Seq(Key)
      BY <1>3 DEF TypeOK
    <2>2. Len(ka) \in Nat
      BY <1>9, <2>1, SMT
    <2>3. PICK w \in Nat : w = Len(ka)
      BY <2>2
    <2>4. (x >= m \/ y >= m) /\ w >= x /\ w >= y
      BY <1>1, <1>7, <1>8, <2>3
    <2>5. w >= m /\ z - 1 + 1 >= z
      BY <2>4, SMT
    <2> QED
      BY <1>1, <1>8, <1>9, <2>3, <2>5
  <1>11. tag'[b] = "free" /\ \A n \in Node : n # b => tag'[n] = tag[n]
    BY <1>1, <1>2, <1>3 DEF TypeOK
  <1>12. ASSUME NEW n \in Live', n # p
         PROVE  \/ n \in Live /\ n # Fixed /\ tag'[n] = tag[n] /\ keys'[n] = keys[n]
                \/ n # root /\ Len(keys'[n]) >= MinLen(n)'
    <2>1. n \in Node /\ n # b
      BY <1>11 DEF Live
    <2>2. tag'[n] = tag[n] /\ n \in Live /\ MinLen(n)' = MinLen(n)
      <3>1. tag'[n] = tag[n] /\ tag'[n] # "free"
        BY <1>11, <2>1 DEF Live
      <3> QED
        BY <2>1, <3>1, MinLenSame DEF Live
    <2>3. CASE n = a
      BY <1>5, <1>8, <1>9, <1>10, <2>2, <2>3
    <2>4. CASE n # a
      BY <1>1, <1>5, <1>9, <1>12, <2>1, <2>2, <2>4
    <2> QED
      BY <2>3, <2>4
  <1>13. ASSUME NEW n \in Node, lvl[n] > lvl[p]  PROVE children'[n] = children[n]
    <2>1. lvl[n] \in Nat /\ lvl[p] \in Nat /\ lvl[a] \in Nat /\ lvl[b] \in Nat
      BY <1>3
    <2>2. ~(lvl[a] > lvl[p]) /\ ~(lvl[b] > lvl[p]) /\ ~(lvl[p] > lvl[p])
      BY <1>3, <2>1, SMT
    <2> QED
      BY <1>1, <1>13, <2>2
  <1>14. tag'[p] = tag[p]
    BY <1>3, <1>11
  <1> QED
    BY <1>1, <1>2, <1>10, <1>12, <1>13, <1>14, FillRepairs

(* One entry leaves an end of the sibling, one joins the child.            *)
Moves(a, b, p, q, e, s) ==
  /\ \E i \in 1 .. Seps + 1 : a = Child(i) /\ CanLend(Child(i))
  /\ b = Fixed /\ p = Parent /\ q \in 1 .. Seps /\ e \in Key /\ s \in Key
  /\ \E ka \in {Front(keys[a]), Tail(keys[a])},
        kb \in {<<e>> \o keys[b], Append(keys[b], e)} :
       keys' = [keys EXCEPT ![a] = ka, ![b] = kb, ![p] = [keys[p] EXCEPT ![q] = s]]
  /\ \A n \in Node : n # a /\ n # b => children'[n] = children[n]

LEMMA FillMoves ==
  ASSUME NEW lvl \in [Node -> Nat], InvAt(lvl), TypeOK', FillInv, BranchCap >= 2,
         Fixing, Underfull, pc' = "fix", root' = root, PopPath, tag' = tag,
         NEW a, NEW b, NEW p, NEW q, NEW e, NEW s, Moves(a, b, p, q, e, s)
  PROVE  FillInv'
  <1>1. PICK i \in 1 .. Seps + 1 : a = Child(i) /\ CanLend(Child(i))
    BY DEF Moves
  <1>2. /\ b = Fixed /\ p = Parent /\ q \in 1 .. Seps /\ e \in Key /\ s \in Key
        /\ \A n \in Node : n # a /\ n # b => children'[n] = children[n]
    BY DEF Moves
  <1>3. PICK ka \in {Front(keys[a]), Tail(keys[a])},
             kb \in {<<e>> \o keys[b], Append(keys[b], e)} :
          keys' = [keys EXCEPT ![a] = ka, ![b] = kb, ![p] = [keys[p] EXCEPT ![q] = s]]
    BY DEF Moves
  <1>4. TypeOK /\ Shape
    BY DEF InvAt
  <1>5. /\ a # b /\ a \in Node /\ b \in Node /\ a # p /\ b # p /\ p \in Node
        /\ Len(keys[a]) \in Nat /\ Len(keys[a]) >= 2
    BY <1>1, <1>2, Lent
  <1>6. /\ keys[a] \in Seq(Key) /\ keys[b] \in Seq(Key) /\ keys[p] \in Seq(Key)
        /\ q \in 1 .. Len(keys[p]) /\ keys \in [Node -> Seq(Key)]
    BY <1>2, <1>4, <1>5, BlockTypes DEF Seps, TypeOK
  <1>7. Len(keys[a]) >= 1
    BY <1>5, SMT
  <1>8. ka \in Seq(Key) /\ Len(ka) = Len(keys[a]) - 1
    <2>1. ka = Front(keys[a]) \/ ka = Tail(keys[a])
      OBVIOUS
    <2>2. /\ Front(keys[a]) \in Seq(Key) /\ Len(Front(keys[a])) = Len(keys[a]) - 1
          /\ Tail(keys[a]) \in Seq(Key) /\ Len(Tail(keys[a])) = Len(keys[a]) - 1
      BY <1>6, <1>7, Ends
    <2> QED
      BY <2>1, <2>2
  <1>9. kb \in Seq(Key) /\ Len(kb) = Len(keys[b]) + 1
    <2>1. kb = <<e>> \o keys[b] \/ kb = Append(keys[b], e)
      OBVIOUS
    <2>2. /\ <<e>> \o keys[b] \in Seq(Key) /\ Len(<<e>> \o keys[b]) = Len(keys[b]) + 1
          /\ Append(keys[b], e) \in Seq(Key) /\ Len(Append(keys[b], e)) = Len(keys[b]) + 1
      BY <1>2, <1>6, Pushed
    <2> QED
      BY <2>1, <2>2
  <1>10. PICK kp : kp = [keys[p] EXCEPT ![q] = s]
    OBVIOUS
  <1>11. kp \in Seq(Key) /\ Len(kp) = Len(keys[p])
    BY <1>2, <1>6, <1>10, Replaced
  <1>12. keys' = [keys EXCEPT ![a] = ka, ![b] = kb, ![p] = kp]
    BY <1>3, <1>10
  <1>13. Thrice(keys, keys', a, ka, b, kb, p, kp)
    BY <1>5, <1>6, <1>8, <1>9, <1>11, <1>12 DEF Thrice
  <1>14. Lends(a, b, p, ka, kb, kp)
    BY <1>1, <1>2, <1>5, <1>8, <1>9, <1>11, <1>13 DEF Lends
  <1> QED
    BY <1>14, FillBorrows

(* The four borrows.                                                       *)
LEMMA BorrowFill ==
  ASSUME NEW lvl \in [Node -> Nat], InvAt(lvl), TypeOK', FillInv, BranchCap >= 2,
         \/ BorrowFromLeftLeaf \/ BorrowFromRightLeaf
         \/ BorrowFromLeftBranch \/ BorrowFromRightBranch
  PROVE  FillInv'
  <1>1. /\ Fixing /\ Underfull /\ PopPath /\ pc' = "fix" /\ root' = root /\ tag' = tag
    BY DEF BorrowFromLeftLeaf, BorrowFromRightLeaf, BorrowFromLeftBranch,
           BorrowFromRightBranch, Fixing
  <1>2. TypeOK /\ Shape
    BY DEF InvAt
  <1>3. FixPos \in 1 .. Seps + 1 /\ Seps \in Nat
    BY <1>1, FixFacts
  <1>4. CASE BorrowFromLeftLeaf \/ BorrowFromLeftBranch
    <2> DEFINE a == Child(FixPos - 1)
               b == Fixed
               p == Parent
               q == FixPos - 1
    <2>1. FixPos > 1 /\ CanLend(a)
      BY <1>4 DEF BorrowFromLeftLeaf, BorrowFromLeftBranch, LeftLends
    <2>2. q \in 1 .. Seps + 1 /\ q \in 1 .. Seps
      BY <1>3, <2>1, SMT
    <2>3. /\ a # b /\ a \in Node /\ b \in Node /\ a # p /\ b # p /\ p \in Node
          /\ Len(keys[a]) \in Nat /\ Len(keys[a]) >= 2
      BY <1>1, <2>1, <2>2, Lent
    <2>4. keys[a] \in Seq(Key) /\ keys[p] \in Seq(Key) /\ Len(keys[a]) >= 1 /\ q \in 1 .. Len(keys[p])
      <3>1. Len(keys[a]) >= 1
        BY <2>3, SMT
      <3> QED
        BY <1>2, <2>2, <2>3, <3>1, BlockTypes DEF Seps
    <2>5. Last(keys[a]) \in Key /\ keys[p][q] \in Key
      BY <2>4, Ends, Replaced
    <2>6. \A n \in Node : n # a /\ n # b => children'[n] = children[n]
      <3>1. CASE BorrowFromLeftLeaf
        BY <3>1 DEF BorrowFromLeftLeaf
      <3>2. CASE BorrowFromLeftBranch
        BY <1>2, <3>2 DEF BorrowFromLeftBranch, TypeOK
      <3> QED
        BY <1>4, <3>1, <3>2
    <2>7. CASE BorrowFromLeftLeaf
      <3>1. keys' = [keys EXCEPT ![a] = Front(keys[a]), ![b] = <<Last(keys[a])>> \o keys[b],
                                 ![p] = [keys[p] EXCEPT ![q] = Last(keys[a])]]
        BY <1>2, <2>3, <2>7 DEF BorrowFromLeftLeaf, TypeOK
      <3> HIDE DEF a, b, p, q
      <3>2. a = Child(q) /\ b = Fixed /\ p = Parent
        BY DEF a, b, p, q
      <3>3. Moves(a, b, p, q, Last(keys[a]), Last(keys[a]))
        BY <2>1, <2>2, <2>5, <2>6, <3>1, <3>2 DEF Moves
      <3> QED
        BY <1>1, <3>3, FillMoves
    <2>8. CASE BorrowFromLeftBranch
      <3>1. keys' = [keys EXCEPT ![a] = Front(keys[a]), ![b] = <<keys[p][q]>> \o keys[b],
                                 ![p] = [keys[p] EXCEPT ![q] = Last(keys[a])]]
        BY <1>2, <2>3, <2>8 DEF BorrowFromLeftBranch, TypeOK
      <3> HIDE DEF a, b, p, q
      <3>2. a = Child(q) /\ b = Fixed /\ p = Parent
        BY DEF a, b, p, q
      <3>3. Moves(a, b, p, q, keys[p][q], Last(keys[a]))
        BY <2>1, <2>2, <2>5, <2>6, <3>1, <3>2 DEF Moves
      <3> QED
        BY <1>1, <3>3, FillMoves
    <2> QED
      BY <1>4, <2>7, <2>8
  <1>5. CASE BorrowFromRightLeaf \/ BorrowFromRightBranch
    <2> DEFINE a == Child(FixPos + 1)
               b == Fixed
               p == Parent
               q == FixPos
    <2>1. FixPos <= Seps /\ CanLend(a)
      BY <1>5 DEF BorrowFromRightLeaf, BorrowFromRightBranch, RightLends
    <2>2. q \in 1 .. Seps /\ q + 1 \in 1 .. Seps + 1
      BY <1>3, <2>1, SMT
    <2>3. /\ a # b /\ a \in Node /\ b \in Node /\ a # p /\ b # p /\ p \in Node
          /\ Len(keys[a]) \in Nat /\ Len(keys[a]) >= 2
      BY <1>1, <2>1, <2>2, Lent
    <2>4. /\ keys[a] \in Seq(Key) /\ keys[p] \in Seq(Key) /\ Len(keys[a]) >= 1
          /\ q \in 1 .. Len(keys[p]) /\ 2 \in 1 .. Len(keys[a])
      <3>1. Len(keys[a]) >= 1 /\ 2 \in 1 .. Len(keys[a])
        BY <2>3, SMT
      <3> QED
        BY <1>2, <2>2, <2>3, <3>1, BlockTypes DEF Seps
    <2>5. Head(keys[a]) \in Key /\ keys[p][q] \in Key /\ keys[a][2] \in Key
      BY <2>4, Ends, Replaced
    <2>6. \A n \in Node : n # a /\ n # b => children'[n] = children[n]
      <3>1. CASE BorrowFromRightLeaf
        BY <3>1 DEF BorrowFromRightLeaf
      <3>2. CASE BorrowFromRightBranch
        BY <1>2, <3>2 DEF BorrowFromRightBranch, TypeOK
      <3> QED
        BY <1>5, <3>1, <3>2
    <2>7. CASE BorrowFromRightLeaf
      <3>1. keys' = [keys EXCEPT ![a] = Tail(keys[a]), ![b] = Append(keys[b], Head(keys[a])),
                                 ![p] = [keys[p] EXCEPT ![q] = keys[a][2]]]
        BY <1>2, <2>3, <2>7 DEF BorrowFromRightLeaf, TypeOK
      <3> HIDE DEF a, b, p, q
      <3>2. a = Child(q + 1) /\ b = Fixed /\ p = Parent
        BY DEF a, b, p, q
      <3>3. Moves(a, b, p, q, Head(keys[a]), keys[a][2])
        BY <2>1, <2>2, <2>5, <2>6, <3>1, <3>2 DEF Moves
      <3> QED
        BY <1>1, <3>3, FillMoves
    <2>8. CASE BorrowFromRightBranch
      <3>1. keys' = [keys EXCEPT ![a] = Tail(keys[a]), ![b] = Append(keys[b], keys[p][q]),
                                 ![p] = [keys[p] EXCEPT ![q] = Head(keys[a])]]
        BY <1>2, <2>3, <2>8 DEF BorrowFromRightBranch, TypeOK
      <3> HIDE DEF a, b, p, q
      <3>2. a = Child(q + 1) /\ b = Fixed /\ p = Parent
        BY DEF a, b, p, q
      <3>3. Moves(a, b, p, q, keys[p][q], Head(keys[a]))
        BY <2>1, <2>2, <2>5, <2>6, <3>1, <3>2 DEF Moves
      <3> QED
        BY <1>1, <3>3, FillMoves
    <2> QED
      BY <1>5, <2>7, <2>8
  <1> QED
    BY <1>4, <1>5

(* Both merges.                                                            *)
LEMMA MergeFill ==
  ASSUME NEW lvl \in [Node -> Nat], InvAt(lvl), TypeOK', FillInv, BranchCap >= 2,
         MergeLeaves \/ MergeBranches
  PROVE  FillInv'
  <1>1. PICK p, a, b : p = Parent /\ a = Into /\ b = From
    OBVIOUS
  <1> DEFINE e == <<>>
  <1>2. /\ Merging /\ PopPath /\ pc' = "fix" /\ root' = root
        /\ tag' = [tag EXCEPT ![b] = "free"]
    BY <1>1 DEF MergeLeaves, MergeBranches, Merging, Fixing
  <1>3. TypeOK /\ Shape
    BY DEF InvAt
  <1>4. /\ p \in Node /\ a \in Node /\ b \in Node /\ a # b /\ a # p /\ b # p
        /\ MergePos \in 1 .. Len(keys[p])
    BY <1>1, <1>2, MergeFacts
  <1>5. /\ keys[a] \in Seq(Key) /\ keys[b] \in Seq(Key) /\ keys[p] \in Seq(Key)
        /\ Len(keys[a]) \in Nat /\ Len(keys[b]) \in Nat /\ keys \in [Node -> Seq(Key)]
    BY <1>3, <1>4, BlockTypes DEF TypeOK
  <1>6. PICK kp : kp = RemoveAt(keys[p], MergePos)
    OBVIOUS
  <1>7. kp \in Seq(Key) /\ Len(kp) = Len(keys[p]) - 1
    BY <1>4, <1>5, <1>6, Removed
  <1>8. PICK w : w = <<keys[p][MergePos]>>
    OBVIOUS
  <1>9. w \in Seq(Key) /\ Len(w) = 1
    <2>1. keys[p][MergePos] \in Key
      BY <1>4, <1>5, Replaced
    <2> QED
      BY <1>8, <2>1, Single
  <1>10. e \in Seq(Key)
    BY SMT
  <1>11. \A n \in Node : n # a /\ n # b /\ n # p => children'[n] = children[n]
    <2>1. CASE MergeLeaves
      BY <1>1, <1>3, <2>1 DEF MergeLeaves, TypeOK
    <2>2. CASE MergeBranches
      BY <1>1, <1>3, <2>2 DEF MergeBranches, TypeOK
    <2> QED
      BY <2>1, <2>2
  <1>12. CASE MergeLeaves
    <2>1. PICK ka : ka = keys[a] \o keys[b]
      OBVIOUS
    <2>2. keys' = [keys EXCEPT ![a] = ka, ![b] = e, ![p] = kp]
      BY <1>1, <1>3, <1>4, <1>6, <1>12, <2>1 DEF MergeLeaves, TypeOK
    <2> HIDE DEF e
    <2>3. ka \in Seq(Key) /\ Len(ka) = Len(keys[a]) + Len(keys[b])
      BY <1>5, <2>1, ConcatType
    <2>4. Len(ka) >= Len(keys[a]) /\ Len(ka) >= Len(keys[b])
      <3>1. PICK x \in Nat, y \in Nat : x = Len(keys[a]) /\ y = Len(keys[b])
        BY <1>5
      <3>2. Len(ka) = x + y
        BY <2>3, <3>1
      <3>3. Len(ka) >= x /\ Len(ka) >= y
        BY <3>2, SMT
      <3> QED
        BY <3>1, <3>3
    <2>5. Thrice(keys, keys', a, ka, b, e, p, kp)
      BY <1>4, <1>5, <1>7, <1>10, <2>2, <2>3 DEF Thrice
    <2>6. Merges(a, b, p, ka, e, kp)
      BY <1>1, <1>2, <1>7, <1>11, <2>4, <2>5 DEF Merges
    <2> QED
      BY <1>2, <2>6, FillMerges
  <1>13. CASE MergeBranches
    <2>1. PICK u : u = keys[a] \o w
      OBVIOUS
    <2>2. PICK ka : ka = u \o keys[b]
      OBVIOUS
    <2>3. keys' = [keys EXCEPT ![a] = ka, ![b] = e, ![p] = kp]
      BY <1>1, <1>3, <1>4, <1>6, <1>8, <1>13, <2>1, <2>2 DEF MergeBranches, TypeOK
    <2> HIDE DEF e
    <2>4. u \in Seq(Key) /\ Len(u) = Len(keys[a]) + Len(w)
      BY <1>5, <1>9, <2>1, ConcatType
    <2>5. ka \in Seq(Key) /\ Len(ka) = Len(u) + Len(keys[b])
      <3>1. u \o keys[b] \in Seq(Key) /\ Len(u \o keys[b]) = Len(u) + Len(keys[b])
        <4>1. u \in Seq(Key) /\ keys[b] \in Seq(Key)
          BY <1>5, <2>4
        <4> QED
          BY ONLY <4>1, ConcatType
      <3> QED
        BY <2>2, <3>1
    <2>6. Len(ka) >= Len(keys[a]) /\ Len(ka) >= Len(keys[b])
      <3>1. PICK x \in Nat, y \in Nat : x = Len(keys[a]) /\ y = Len(keys[b])
        BY <1>5
      <3>2. Len(ka) = x + 1 + y
        BY <1>9, <2>4, <2>5, <3>1
      <3>3. Len(ka) >= x /\ Len(ka) >= y
        BY <3>2, SMT
      <3> QED
        BY <3>1, <3>3
    <2>7. Thrice(keys, keys', a, ka, b, e, p, kp)
      BY <1>4, <1>5, <1>7, <1>10, <2>3, <2>5 DEF Thrice
    <2>8. Merges(a, b, p, ka, e, kp)
      BY <1>1, <1>2, <1>7, <1>11, <2>6, <2>7 DEF Merges
    <2> QED
      BY <1>2, <2>8, FillMerges
  <1> QED
    BY <1>12, <1>13

(* A step that leaves the blocks alone, or adds to one, keeps the minimum. *)
LEMMA QuietFill ==
  ASSUME NEW lvl \in [Node -> Nat], InvAt(lvl), TypeOK', FillInv,
         \/ MissEmpty \/ Get \/ GetMut \/ InsertReplace \/ RemoveMiss \/ Descend
         \/ \E o, k, v : Call(o, k, v)
  PROVE  FillInv'
  <1>1. /\ Whole /\ pc # "fix" /\ pc' # "fix" /\ pc' # "split" /\ UNCHANGED <<root, tag, keys>>
    BY DEF MissEmpty, Get, GetMut, InsertReplace, RemoveMiss, Descend, Call, AtLeaf, Whole,
           Return, Leave, heap
  <1>2. \A n \in Node : Len(keys'[n]) >= Len(keys[n])
    <2> TAKE n \in Node
    <2>1. Len(keys[n]) \in Nat /\ keys' = keys
      BY <1>1, BlockTypes DEF InvAt
    <2>2. Len(keys[n]) >= Len(keys[n])
      BY <2>1, SMT
    <2> QED
      BY <2>1, <2>2
  <1>3. TypeOK /\ ~TopSplit'
    BY <1>1 DEF InvAt, TopSplit
  <1> QED
    BY <1>1, <1>2, <1>3, FillGrows

LEMMA InsertIntoLeafSlotFill ==
  ASSUME NEW lvl \in [Node -> Nat], InvAt(lvl), TypeOK', FillInv, InsertIntoLeafSlot
  PROVE  FillInv'
  <1>1. /\ Whole /\ pc # "fix" /\ pc' = "idle" /\ UNCHANGED <<root, tag>>
        /\ cur # Null /\ keys' = [keys EXCEPT ![cur] = InsertAt(keys[cur], Slot + 1, key)]
    BY DEF InsertIntoLeafSlot, AtLeaf, Whole, Return, Leave
  <1>2. TypeOK /\ Shape /\ cur \in Node /\ key \in Key /\ ~TopSplit'
    BY <1>1 DEF InvAt, TypeOK, TopSplit
  <1>3. PICK k : k = InsertAt(keys[cur], Slot + 1, key)
    OBVIOUS
  <1>4. k \in Seq(Key) /\ Len(k) = Len(keys[cur]) + 1
    <2>1. keys[cur] \in Seq(Key) /\ Slot \in 0 .. Len(keys[cur]) /\ Len(keys[cur]) \in Nat
      BY <1>2, BlockTypes, Searched DEF Slot
    <2>2. Slot + 1 \in 1 .. Len(keys[cur]) + 1
      BY <2>1, SMT
    <2> QED
      BY <1>2, <1>3, <2>1, <2>2, InsertedType
  <1>5. \A n \in Node : Len(keys'[n]) >= Len(keys[n])
    <2> TAKE n \in Node
    <2>1. Len(keys[n]) \in Nat
      BY <1>2, BlockTypes
    <2>2. PICK x \in Nat : x = Len(keys[n])
      BY <2>1
    <2>3. x >= x /\ x + 1 >= x
      BY SMT
    <2>4. keys'[cur] = k /\ (n # cur => keys'[n] = keys[n])
      BY <1>1, <1>2, <1>3 DEF TypeOK
    <2> QED
      BY <1>4, <2>2, <2>3, <2>4
  <1> QED
    BY <1>1, <1>2, <1>5, FillGrows

(* The first leaf is the root.                                             *)
LEMMA AllocRootFill ==
  ASSUME NEW lvl \in [Node -> Nat], InvAt(lvl), NEW zone \in Zones, OrderAt(lvl, zone),
         FillInv, AllocRoot
  PROVE  FillInv'
  <1>1. /\ Whole /\ pc = "descend" /\ pc' = "descend" /\ root' = NewNode /\ cur = Null
        /\ tag' = [tag EXCEPT ![NewNode] = "leaf"]
    BY DEF AllocRoot, Whole
  <1>2. TypeOK /\ Shape /\ Rooted /\ Walked(lvl) /\ CanAlloc
    BY DEF InvAt, AllocRoot
  <1>3. root = Null /\ NewNode \in Node
    BY <1>1, <1>2, NewBlock DEF Walked
  <1>4. Live = {}
    BY <1>1, <1>3 DEF OrderAt, Topped
  <1>5. tag'[NewNode] = "leaf" /\ \A n \in Live' : n = NewNode
    BY <1>1, <1>2, <1>3, <1>4 DEF TypeOK, Live
  <1>6. ~TopSplit'
    BY <1>1 DEF TopSplit
  <1> QED
    BY <1>1, <1>5, <1>6, FillSettles

(* A split that is not at the top yet leaves both halves their share.      *)
LEMMA FillHalves ==
  ASSUME TypeOK, FillInv, BranchCap >= 2, Whole, pc # "fix", ~TopSplit,
         pc' = "split", root' = root, root # Null => tag[root] # "free",
         NEW x \in Node, NEW n \in Node, tag[x] # "free", tag[n] = "free",
         path' = <<>> => x = root,
         NEW lo, NEW up, Len(lo) \in Nat, Len(up) \in Nat,
         Len(lo) >= MinLen(x), Len(up) >= MinLen(x),
         tag' = [tag EXCEPT ![n] = tag[x]], keys' = [keys EXCEPT ![x] = lo, ![n] = up]
  PROVE  FillInv'
  <1>1. x # n
    OBVIOUS
  <1>2. /\ keys'[x] = lo /\ keys'[n] = up /\ tag'[n] = tag[x] /\ tag'[x] = tag[x]
        /\ \A m \in Node : m # x /\ m # n => keys'[m] = keys[m] /\ tag'[m] = tag[m]
    BY <1>1 DEF TypeOK
  <1>3. MinLen(x)' = MinLen(x) /\ MinLen(n)' = MinLen(x)
    BY <1>2 DEF MinLen
  <1>4. ASSUME NEW m \in Live', m # root' \/ TopSplit'  PROVE Len(keys'[m]) >= MinLen(m)'
    <2>1. CASE m = x \/ m = n
      BY <1>2, <1>3, <2>1
    <2>2. CASE m # x /\ m # n
      <3>1. m \in Node /\ keys'[m] = keys[m] /\ tag'[m] = tag[m] /\ tag'[m] # "free"
        BY <1>2, <2>2 DEF Live
      <3>2. m \in Live /\ MinLen(m)' = MinLen(m)
        BY <3>1, MinLenSame DEF Live
      <3>3. m # root
        BY <1>4, <2>2 DEF TopSplit
      <3> QED
        BY <3>1, <3>2, <3>3, FillBefore
    <2> QED
      BY <2>1, <2>2
  <1>5. ASSUME root' # Null, tag'[root'] = "branch"  PROVE Len(keys'[root']) >= 1
    <2>1. root \in Node /\ root # n
      BY <1>5 DEF TypeOK
    <2>2. CASE root = x
      <3>1. tag[x] # "leaf"
        BY <1>2, <1>5, <2>2
      <3>2. MinLen(x) \in Nat /\ MinLen(x) >= 1
        BY <3>1, MinLenOf
      <3>3. Len(lo) >= 1
        BY <3>2, SMT
      <3> QED
        BY <1>2, <2>2, <3>3
    <2>3. CASE root # x
      BY <1>2, <1>5, <2>1, <2>3, FillBefore
    <2> QED
      BY <2>2, <2>3
  <1> QED
    BY <1>4, <1>5, FillSettles

LEMMA SplitLeafFill ==
  ASSUME NEW lvl \in [Node -> Nat], InvAt(lvl), NEW zone \in Zones, OrderAt(lvl, zone),
         FillInv, BranchCap >= 2, SplitLeaf
  PROVE  FillInv'
  <1>1. PICK x, n, lo, up : /\ x = cur /\ n = NewNode /\ lo = LeafSplitLeft(keys[cur], Slot, key)
                            /\ up = LeafSplitRight(keys[cur], Slot, key)
    OBVIOUS
  <1>2. /\ Whole /\ pc = "descend" /\ x # Null /\ tag[x] = "leaf" /\ Len(keys[x]) >= LeafCap
        /\ CanAlloc /\ pc' = "split" /\ path' = path /\ root' = root
        /\ tag' = [tag EXCEPT ![n] = "leaf"]
        /\ keys' = [keys EXCEPT ![x] = lo, ![n] = up]
    BY <1>1 DEF SplitLeaf, AtLeaf, Whole
  <1>3. TypeOK /\ Shape /\ Rooted /\ x \in Node /\ key \in Key
    BY <1>1, <1>2 DEF InvAt, TypeOK
  <1>4. n \in Node /\ tag[n] = "free"
    BY <1>1, <1>2, <1>3, NewBlock
  <1>5. /\ keys[x] \in Seq(Key) /\ Len(keys[x]) \in Nat /\ Slot \in 0 .. Len(keys[x])
        /\ Len(keys[x]) <= LeafCap
    BY <1>1, <1>2, <1>3, BlockTypes, Searched DEF Slot
  <1>6. Len(keys[x]) >= 1 /\ Len(keys[x]) = LeafCap
    BY <1>2, <1>5, Caps, SMT
  <1>7. /\ Len(lo) >= LeafCap \div 2 /\ Len(up) >= LeafCap \div 2
        /\ Len(lo) \in Nat /\ Len(up) \in Nat
    <2>1. LeafSplitCuts(keys[x], Slot, key)
      BY <1>1, <1>3, <1>5, <1>6, LeafSplitIsInsertAndCut
    <2>2. lo \in Seq(Key) /\ up \in Seq(Key)
      BY <1>1, <1>3, <1>5, <1>6, LeafSplitParts DEF IsCut
    <2>3. Len(lo) \in Nat /\ Len(up) \in Nat
      BY <2>2, SMT
    <2> QED
      BY <1>1, <1>6, <2>1, <2>3 DEF LeafSplitCuts
  <1>8. MinLen(x) = LeafCap \div 2
    BY <1>2 DEF MinLen
  <1>9. path' = <<>> => x = root
    BY <1>1, <1>2 DEF OrderAt, Threaded
  <1>10. ~TopSplit /\ pc # "fix" /\ (root # Null => tag[root] # "free")
    BY <1>2, <1>3 DEF TopSplit, Rooted
  <1>11. tag[x] # "free" /\ tag' = [tag EXCEPT ![n] = tag[x]]
    BY <1>2
  <1> QED
    BY <1>2, <1>3, <1>4, <1>7, <1>8, <1>9, <1>10, <1>11, FillHalves

(* A branch that takes a separator.                                        *)
LEMMA InsertIntoBranchFill ==
  ASSUME NEW lvl \in [Node -> Nat], InvAt(lvl), TypeOK', FillInv, InsertIntoBranch
  PROVE  FillInv'
  <1>1. PICK p, k : p = Parent /\ k = InsertAt(keys[Parent], Top.pos, sep)
    OBVIOUS
  <1>2. /\ Whole /\ pc = "split" /\ path # <<>> /\ pc' = "idle" /\ UNCHANGED <<root, tag>>
        /\ keys' = [keys EXCEPT ![p] = k]
    BY <1>1 DEF InsertIntoBranch, Whole, Return, Leave
  <1>3. TypeOK /\ Shape /\ Walking /\ ~TopSplit' /\ sep \in Key
    BY <1>2 DEF InvAt, TypeOK, Walking, TopSplit
  <1>4. p \in Node /\ Len(k) = Len(keys[p]) + 1
    <2>1. /\ p \in Node /\ keys[p] \in Seq(Key) /\ Top.pos \in 1 .. Len(keys[p]) + 1
      BY <1>1, <1>2, <1>3, ParentFacts
    <2> QED
      BY <1>1, <1>3, <2>1, InsertedType
  <1>5. \A n \in Node : Len(keys'[n]) >= Len(keys[n])
    <2> TAKE n \in Node
    <2>1. Len(keys[n]) \in Nat
      BY <1>3, BlockTypes
    <2>2. PICK x \in Nat : x = Len(keys[n])
      BY <2>1
    <2>3. x >= x /\ x + 1 >= x
      BY SMT
    <2>4. keys'[p] = k /\ (n # p => keys'[n] = keys[n])
      BY <1>2, <1>3, <1>4 DEF TypeOK
    <2> QED
      BY <1>4, <2>2, <2>3, <2>4
  <1> QED
    BY <1>2, <1>3, <1>5, FillGrows

LEMMA BranchInsertAndSplitFill ==
  ASSUME NEW lvl \in [Node -> Nat], InvAt(lvl), NEW zone \in Zones, OrderAt(lvl, zone),
         FillInv, BranchCap >= 2, BranchInsertAndSplit
  PROVE  FillInv'
  <1>1. PICK x, n, b : /\ x = Parent /\ n = NewNode
                       /\ b = BranchSplit(keys[Parent], children[Parent], Top.pos - 1, sep, right)
    OBVIOUS
  <1>2. /\ Whole /\ pc = "split" /\ path # <<>> /\ Len(keys[x]) >= BranchCap /\ CanAlloc
        /\ pc' = "split" /\ path' = Front(path) /\ root' = root
        /\ tag' = [tag EXCEPT ![n] = "branch"]
        /\ keys' = [keys EXCEPT ![x] = b.lkeys, ![n] = b.rkeys]
    BY <1>1 DEF BranchInsertAndSplit, BranchFull, Whole, PopPath
  <1>3. TypeOK /\ Shape /\ Rooted /\ Walking /\ sep \in Key /\ right \in Node
    BY <1>2 DEF InvAt, TypeOK, Walking, Carried
  <1>4. n \in Node /\ tag[n] = "free"
    BY <1>1, <1>2, <1>3, NewBlock
  <1>5. /\ x \in Node /\ tag[x] = "branch" /\ keys[x] \in Seq(Key) /\ children[x] \in Seq(Node)
        /\ Len(keys[x]) \in Nat /\ Len(children[x]) = Len(keys[x]) + 1
        /\ Len(keys[x]) <= BranchCap /\ Top.pos \in 1 .. Len(keys[x]) + 1
    BY <1>1, <1>2, <1>3, ParentFacts
  <1>6. Len(keys[x]) >= 1 /\ Len(keys[x]) = BranchCap /\ Top.pos - 1 \in 0 .. Len(keys[x])
    BY <1>2, <1>5, Caps, SMTT(30)
  <1>7. /\ BranchSplitCuts(keys[x], children[x], Top.pos - 1, sep, right)
        /\ BranchHalves(Key, Node, keys[x],
                        BranchSplit(keys[x], children[x], Top.pos - 1, sep, right))
    BY <1>3, <1>5, <1>6, BranchSplitIsInsertAndCut
  <1>8. /\ Len(b.lkeys) >= BranchCap \div 2 /\ Len(b.rkeys) >= BranchCap \div 2
        /\ b.lkeys \in Seq(Key) /\ b.rkeys \in Seq(Key)
    BY <1>1, <1>6, <1>7 DEF BranchSplitCuts, BranchHalves
  <1>9. PICK lo, up : lo = b.lkeys /\ up = b.rkeys
    OBVIOUS
  <1>10. MinLen(x) \in Nat /\ MinLen(x) <= BranchCap \div 2
    BY <1>5, MinLenOf
  <1>11. Len(lo) \in Nat /\ Len(up) \in Nat
    BY <1>8, <1>9, SMT
  <1>12. Len(lo) >= MinLen(x) /\ Len(up) >= MinLen(x)
    <2>1. PICK m, h : m = MinLen(x) /\ h = BranchCap \div 2
      OBVIOUS
    <2>2. BranchCap \div 2 \in Nat
      BY Caps, SMT
    <2>3. Len(lo) >= h /\ Len(up) >= h /\ m <= h /\ m \in Nat /\ h \in Nat
      BY <1>8, <1>9, <1>10, <2>1, <2>2
    <2>4. Len(lo) >= m /\ Len(up) >= m
      BY ONLY <1>11, <2>3, SMT
    <2> QED
      BY <2>1, <2>4
  <1>13. path' = <<>> => x = root
    <2>1. HAVE path' = <<>>
    <2>2. /\ Len(path) \in Nat /\ Len(Front(path)) = Len(path) - 1 /\ Top = path[Len(path)]
      BY <1>2, <1>3, TopFrame
    <2>3. Len(path') = 0
      BY <2>1
    <2>4. Len(path) = 1
      BY <1>2, <2>2, <2>3, SMT
    <2>5. path[1].node = root
      BY <1>2 DEF OrderAt, Threaded
    <2> QED
      BY <1>1, <2>2, <2>4, <2>5 DEF Parent
  <1>14. ~TopSplit /\ pc # "fix" /\ (root # Null => tag[root] # "free")
    BY <1>2, <1>3 DEF TopSplit, Rooted
  <1>15. tag[x] # "free" /\ tag' = [tag EXCEPT ![n] = tag[x]]
    BY <1>2, <1>5
  <1>16. keys' = [keys EXCEPT ![x] = lo, ![n] = up]
    BY <1>2, <1>9
  <1> QED
    BY <1>2, <1>3, <1>4, <1>5, <1>11, <1>12, <1>13, <1>14, <1>15, <1>16, FillHalves

(* A new root has its two halves and the separator between them.           *)
LEMMA NewRootFill ==
  ASSUME NEW lvl \in [Node -> Nat], InvAt(lvl), FillInv, NewRoot
  PROVE  FillInv'
  <1>1. PICK n : n = NewNode
    OBVIOUS
  <1>2. /\ Whole /\ pc = "split" /\ path = <<>> /\ CanAlloc /\ pc' = "idle" /\ root' = n
        /\ tag' = [tag EXCEPT ![n] = "branch"] /\ keys' = [keys EXCEPT ![n] = <<sep>>]
    BY <1>1 DEF NewRoot, Whole, Return, Leave
  <1>3. TypeOK /\ Shape /\ Rooted /\ TopSplit /\ ~TopSplit' /\ pc # "fix"
    BY <1>2 DEF InvAt, TopSplit
  <1>4. n \in Node
    BY <1>1, <1>2, <1>3, NewBlock
  <1>5. /\ keys'[n] = <<sep>>
        /\ \A m \in Node : m # n => keys'[m] = keys[m] /\ tag'[m] = tag[m]
    BY <1>2, <1>3, <1>4 DEF TypeOK
  <1>6. ASSUME NEW m \in Live', m # root' \/ TopSplit'  PROVE Len(keys'[m]) >= MinLen(m)'
    <2>1. m \in Node /\ m # n /\ tag'[m] # "free"
      BY <1>2, <1>3, <1>6 DEF Live
    <2>2. m \in Live /\ MinLen(m)' = MinLen(m)
      BY <1>5, <2>1, MinLenSame DEF Live
    <2> QED
      BY <1>2, <1>3, <1>5, <2>1, <2>2, FillBefore
  <1>7. Len(keys'[root']) >= 1
    <2>1. Len(<<sep>>) >= 1
      BY SMT
    <2> QED
      BY <1>2, <1>5, <2>1
  <1> QED
    BY <1>2, <1>6, <1>7, FillSettles

(* A leaf that gives up an item is the child to repair, unless it is the   *)
(* root.                                                                   *)
LEMMA RemoveHitFill ==
  ASSUME NEW lvl \in [Node -> Nat], InvAt(lvl), NEW zone \in Zones, OrderAt(lvl, zone),
         FillInv, RemoveHit
  PROVE  FillInv'
  <1>1. PICK x, k : x = cur /\ k = RemoveAt(keys[cur], Slot)
    OBVIOUS
  <1>2. /\ Whole /\ pc = "descend" /\ pc' = "fix" /\ path' = path /\ x # Null /\ tag[x] = "leaf"
        /\ Hit /\ UNCHANGED <<root, tag, children>> /\ keys' = [keys EXCEPT ![x] = k]
    BY <1>1 DEF RemoveHit, AtLeaf, Whole
  <1>3. TypeOK /\ Shape /\ x \in Node /\ ~TopSplit' /\ pc # "fix"
    BY <1>1, <1>2 DEF InvAt, TypeOK, TopSplit
  <1>4. Len(k) + 1 = Len(keys[x]) /\ Len(keys[x]) \in Nat
    <2>1. keys[x] \in Seq(Key) /\ Slot \in 1 .. Len(keys[x])
      BY <1>1, <1>2, <1>3, BlockTypes, Searched DEF Slot, Hit
    <2>2. Len(k) = Len(keys[x]) - 1
      BY <1>1, <2>1, Removed
    <2> QED
      BY <2>1, <2>2, SMT
  <1>5. /\ keys'[x] = k /\ \A n \in Node : n # x => keys'[n] = keys[n]
        /\ \A n \in Node : MinLen(n)' = MinLen(n)
    BY <1>2, <1>3, MinLenSame DEF TypeOK
  <1>6. Live' = Live /\ \A n \in Live : n \in Node
    BY <1>2 DEF Live
  <1>7. /\ x = IF path = <<>> THEN root ELSE children[Parent][Top.pos]
        /\ path # <<>> => path[1].node = root
        /\ \A i \in 1 .. Len(path) - 1 : Follows(i)
    BY <1>1, <1>2 DEF OrderAt, Threaded
  <1>8. \A n \in Node : Lacks(n)' <=> path # <<>> /\ n = x
    BY <1>2, <1>7 DEF Lacks, Fixing, Child, Parent, Top
  <1>9. Retraced'
    BY <1>2, <1>7 DEF Retraced, Follows
  <1>10. ASSUME NEW n \in Live', n # root' \/ TopSplit'
         PROVE  IF Lacks(n)' THEN Len(keys'[n]) + 1 >= MinLen(n)' ELSE Len(keys'[n]) >= MinLen(n)'
    <2>1. n \in Node /\ n \in Live /\ n # root /\ Len(keys[n]) >= MinLen(n)
      BY <1>2, <1>3, <1>6, <1>10, FillBefore
    <2>2. CASE n = x
      BY <1>4, <1>5, <1>7, <1>8, <2>1, <2>2
    <2>3. CASE n # x
      BY <1>5, <1>8, <2>1, <2>3
    <2> QED
      BY <2>2, <2>3
  <1>11. ASSUME root' # Null, tag'[root'] = "branch"  PROVE Len(keys'[root']) >= 1
    <2>1. root # Null /\ tag[root] = "branch" /\ root # x /\ root \in Node
      BY <1>2, <1>3, <1>11 DEF TypeOK
    <2> QED
      BY <1>2, <1>3, <1>5, <2>1, FillBefore
  <1> QED
    BY <1>9, <1>10, <1>11 DEF FillInv

(* When every branch was repaired only the root may be low.                *)
LEMMA FillRepaired ==
  ASSUME FillInv, Repaired
  PROVE  \A n \in Live : n # root => Len(keys[n]) >= MinLen(n)
  <1>1. Whole /\ ~TopSplit /\ \A n \in Node : ~Lacks(n)
    BY DEF Repaired, Whole, TopSplit, Lacks, Fixing
  <1>2. \A n \in Live : n \in Node
    BY DEF Live
  <1> QED
    BY <1>1, <1>2 DEF FillInv

LEMMA RemoveReturnsFill ==
  ASSUME NEW lvl \in [Node -> Nat], InvAt(lvl), FillInv, RemoveReturns
  PROVE  FillInv'
  <1>1. /\ Repaired /\ pc' = "idle" /\ UNCHANGED <<root, tag, keys>>
        /\ RootLow => Survivors = {1, 2}
    BY DEF RemoveReturns, Return, Leave, heap
  <1>2. TypeOK /\ Shape /\ ~TopSplit'
    BY <1>1 DEF InvAt, TopSplit
  <1>3. ASSUME NEW n \in Live', n # root' \/ TopSplit'  PROVE Len(keys'[n]) >= MinLen(n)'
    <2>1. n \in Live /\ n # root /\ MinLen(n)' = MinLen(n)
      BY <1>1, <1>2, <1>3, MinLenSame DEF Live
    <2> QED
      BY <1>1, <2>1, FillRepaired
  <1>4. ASSUME root' # Null, tag'[root'] = "branch"  PROVE Len(keys'[root']) >= 1
    <2>1. /\ root \in Node /\ tag[root] = "branch" /\ Len(keys[root]) \in Nat
          /\ children[root] \in Seq(Node) /\ Len(children[root]) = Len(keys[root]) + 1
      BY <1>1, <1>2, <1>4, BlockTypes DEF TypeOK, Shape
    <2>2. CASE RootLow
      <3>1. 2 \in DOMAIN children[root]
        BY <1>1, <2>2 DEF Survivors
      <3>2. 2 <= Len(children[root])
        BY <2>1, <3>1, SMT
      <3>3. Len(keys[root]) >= 1
        BY <2>1, <3>2, SMT
      <3> QED
        BY <1>1, <3>3
    <2>3. CASE ~RootLow
      <3>1. ~(Len(keys[root]) <= 1)
        BY <2>1, <2>3 DEF RootLow
      <3>2. Len(keys[root]) >= 1
        BY <2>1, <3>1, SMT
      <3> QED
        BY <1>1, <3>2
    <2> QED
      BY <2>2, <2>3
  <1> QED
    BY <1>1, <1>3, <1>4, FillSettles

(* The one child that is left was a node of the tree before.               *)
LEMMA FillCollapses ==
  ASSUME NEW lvl \in [Node -> Nat], InvAt(lvl), FillInv, BranchCap >= 2,
         Repaired, tag[root] = "branch", pc' = "idle",
         NEW kept, NEW gone, CollapsesTo(kept, gone),
         \A n \in Node : n # root /\ n # kept /\ n \notin gone => keys'[n] = keys[n],
         kept # Null /\ tag[kept] = "branch" => keys'[kept] = keys[kept]
  PROVE  FillInv'
  <1>1. TypeOK /\ Rooted /\ pc = "fix"
    BY DEF InvAt, Repaired
  <1>2. /\ kept = Null \/ kept \in Range(children[root])
        /\ kept \notin gone /\ root' = kept
        /\ \A n \in Node : n \in gone \/ n = root => tag'[n] = "free"
        /\ \A n \in Node : n \notin gone /\ n # root => tag'[n] = tag[n]
    BY DEF CollapsesTo, Collapses
  <1>3. root \in Node
    BY <1>1 DEF Rooted, TypeOK
  <1>4. ASSUME NEW n \in Live', n # root' \/ TopSplit'  PROVE Len(keys'[n]) >= MinLen(n)'
    <2>1. n \in Node /\ tag'[n] # "free" /\ n # kept
      BY <1>2, <1>4 DEF Live, TopSplit
    <2>2. n \notin gone /\ n # root
      BY <1>2, <2>1
    <2>3. tag'[n] = tag[n] /\ keys'[n] = keys[n]
      BY <1>2, <2>1, <2>2
    <2>4. n \in Live /\ MinLen(n)' = MinLen(n)
      BY <2>1, <2>3, MinLenSame DEF Live
    <2> QED
      BY <2>2, <2>3, <2>4, FillRepaired
  <1>5. ASSUME root' # Null, tag'[root'] = "branch"  PROVE Len(keys'[root']) >= 1
    <2>1. kept \in Live /\ kept \in Node /\ kept # root
      BY <1>1, <1>2, <1>3, <1>5 DEF Rooted, Loose, Live
    <2>2. tag[kept] = "branch" /\ keys'[kept] = keys[kept]
      BY <1>2, <1>5, <2>1
    <2>3. Len(keys[kept]) >= MinLen(kept)
      BY <2>1, FillRepaired
    <2>4. PICK m : m = MinLen(kept)
      OBVIOUS
    <2>5. m \in Nat /\ m >= 1
      BY <2>2, <2>4, MinLenOf
    <2>6. Len(keys[kept]) \in Nat
      <3>1. keys[kept] \in Seq(Key)
        BY <1>1, <2>1 DEF TypeOK
      <3> QED
        BY <3>1, SMT
    <2>7. PICK y \in Nat : y = Len(keys[kept])
      BY <2>6
    <2>8. y >= 1
      BY <2>3, <2>4, <2>5, <2>7, SMT
    <2> QED
      BY <1>2, <2>2, <2>7, <2>8
  <1> QED
    BY <1>4, <1>5, FillSettles

LEMMA CollapseFill ==
  ASSUME NEW lvl \in [Node -> Nat], InvAt(lvl), FillInv, BranchCap >= 2,
         CollapseRoot \/ CollapseByMerging
  PROVE  FillInv'
  <1>1. TypeOK
    BY DEF InvAt
  <1>2. CASE CollapseRoot
    <2>1. PICK kept, gone : CollapsesTo(kept, gone)
      BY <1>2, CollapseRootFacts
    <2>2. Repaired /\ tag[root] = "branch" /\ pc' = "idle" /\ keys' = Blank(keys, root)
      BY <1>2 DEF CollapseRoot, RootLow, Return, Leave
    <2>3. \A n \in Node : n # root => keys'[n] = keys[n]
      BY <1>1, <2>2 DEF Blank, TypeOK
    <2>4. kept # Null => kept \in Node /\ kept # root
      <3>1. HAVE kept # Null
      <3>2. kept \in Range(children[root]) /\ Rooted /\ root \in Node
        BY <2>1, <2>2, <3>1 DEF CollapsesTo, InvAt, Rooted, TypeOK, Repaired
      <3> QED
        BY <2>2, <3>2 DEF Rooted, Loose, Live, Repaired
    <2> QED
      BY <2>1, <2>2, <2>3, <2>4, FillCollapses
  <1>3. CASE CollapseByMerging
    <2>1. PICK a, b : a = children[root][1] /\ b = children[root][2]
      OBVIOUS
    <2>2. Repaired /\ tag[root] = "branch" /\ pc' = "idle"
      BY <1>3 DEF CollapseByMerging, RootLow, Return, Leave
    <2>3. /\ tag[a] = "leaf" /\ CollapsesTo(a, {b})
          /\ Elsewhere(keys, keys', {root, a, b})
      BY <1>3, <2>1, CollapseByMergingFacts
    <2>4. \A n \in Node : n # root /\ n # a /\ n \notin {b} => keys'[n] = keys[n]
      BY <2>3 DEF Elsewhere
    <2> QED
      BY <2>2, <2>3, <2>4, FillCollapses
  <1> QED
    BY <1>2, <1>3

(* When no blocks are left there are none to fill.                         *)
LEMMA NoneToFill ==
  ASSUME pc' = "idle", root' = Null, Live' = {}
  PROVE  FillInv'
  BY FillSettles

(* Panics, clear and Drop.                                                 *)
LEMMA EndFill ==
  ASSUME NEW lvl \in [Node -> Nat], InvAt(lvl), NEW zone \in Zones, OrderAt(lvl, zone),
         \/ AllocFails \/ MergePanics \/ FreeStep \/ \E o : Discard(o)
  PROVE  FillInv'
  <1>1. CASE FreeDone /\ op # "drop"
    <2>1. pc = "free" /\ pc' = "idle" /\ UNCHANGED <<root, tag>>
      BY <1>1 DEF FreeDone, Leave, heap
    <2>2. Live = {}
      BY <1>1, <2>1, FreeDoneEmpties DEF OrderAt
    <2>3. root = Null
      BY <2>1 DEF InvAt, Rooted
    <2>4. Live' = {} /\ root' = Null
      BY <2>1, <2>2, <2>3 DEF Live
    <2> QED
      BY <2>1, <2>4, NoneToFill
  <1>2. CASE ~(FreeDone /\ op # "drop")
    <2>1. pc' \in {"oom", "overflow", "free", "dropped"}
      BY <1>2 DEF AllocFails, MergePanics, FreeStep, FreeLeaf, FreeDescend, FreeNextChild,
                  FreeBranch, FreeDone, Discard, Leave
    <2> QED
      BY <2>1 DEF FillInv, Whole
  <1> QED
    BY <1>1, <1>2

(* The steps of the program keep every node filled.                        *)
LEMMA StepFill ==
  ASSUME NEW lvl \in [Node -> Nat], InvAt(lvl), NEW zone \in Zones, OrderAt(lvl, zone),
         TypeOK', FillInv, BranchCap >= 2, Step
  PROVE  FillInv'
  <1>1. CASE MissEmpty \/ Get \/ GetMut \/ InsertReplace \/ RemoveMiss \/ Descend
    BY <1>1, QuietFill
  <1>2. CASE AllocRoot \/ InsertIntoLeafSlot \/ SplitLeaf
    BY <1>2, AllocRootFill, InsertIntoLeafSlotFill, SplitLeafFill
  <1>3. CASE InsertIntoBranch \/ BranchInsertAndSplit \/ NewRoot
    BY <1>3, InsertIntoBranchFill, BranchInsertAndSplitFill, NewRootFill
  <1>4. CASE RemoveHit \/ FixNothing \/ RemoveReturns
    BY <1>4, RemoveHitFill, FixNothingFill, RemoveReturnsFill
  <1>5. CASE \/ BorrowFromLeftLeaf \/ BorrowFromRightLeaf
             \/ BorrowFromLeftBranch \/ BorrowFromRightBranch
    BY <1>5, BorrowFill
  <1>6. CASE MergeLeaves \/ MergeBranches
    BY <1>6, MergeFill
  <1>7. CASE CollapseRoot \/ CollapseByMerging
    BY <1>7, CollapseFill
  <1>8. CASE AllocFails \/ MergePanics \/ FreeStep
    BY <1>8, EndFill
  <1> QED
    BY <1>1, <1>2, <1>3, <1>4, <1>5, <1>6, <1>7, <1>8 DEF Step, InsertStep, RemoveStep

LEMMA NextFill ==
  ASSUME OrderInv, OrderInv', FillInv, BranchCap >= 2, [Next]_vars
  PROVE  FillInv'
  <1>1. PICK lvl \in [Node -> Nat], zone \in Zones : InvAt(lvl) /\ OrderAt(lvl, zone)
    BY DEF OrderInv, Zones
  <1>2. TypeOK'
    BY DEF OrderInv, InvAt
  <1>3. CASE Step
    BY <1>1, <1>2, <1>3, StepFill
  <1>4. CASE UNCHANGED vars
    <2>1. UNCHANGED <<root, tag, keys, children, pc, path>>
      BY <1>4 DEF vars, heap
    <2>2. /\ Live' = Live /\ Whole' = Whole /\ TopSplit' = TopSplit /\ Repaired' = Repaired
          /\ Retraced' = Retraced
      BY <2>1 DEF Live, Whole, TopSplit, Repaired, Retraced, Follows
    <2>3. \A n \in Node : Lacks(n)' = Lacks(n) /\ MinLen(n)' = MinLen(n)
      BY <2>1 DEF Lacks, Fixing, Child, Parent, Top, MinLen
    <2>4. \A n \in Live : n \in Node
      BY DEF Live
    <2> QED
      BY <2>1, <2>2, <2>3, <2>4 DEF FillInv
  <1>5. CASE \E o : Discard(o)
    BY <1>1, <1>5, EndFill
  <1>6. CASE \E o, k, v : Call(o, k, v)
    BY <1>1, <1>2, <1>6, QuietFill
  <1> QED
    BY <1>3, <1>4, <1>5, <1>6 DEF Next

LEMMA InitFill ==
  ASSUME Init
  PROVE  FillInv
  <1>1. /\ pc = "idle" /\ \A n \in Live : tag[n] = "leaf" /\ n = root
        /\ root # Null => tag[root] = "leaf"
    BY NodeAssumption DEF Init, Live, n0
  <1> QED
    BY <1>1 DEF FillInv, TopSplit, Retraced

(* Whatever the keys, the pool and the leaf capacity, no node but the root *)
(* is ever below its minimum between calls, and a root that is a branch    *)
(* has two children: what is restored up the path after a removal is no    *)
(* less than what min_leaf_len and min_branch_len ask for.  A branch with  *)
(* room for one separator cannot be split in two that have one each.       *)
THEOREM AlwaysWellFilled ==
  ASSUME BranchCap >= 2
  PROVE  Spec => []WellFilled
  <1>1. Init => OrderInv /\ FillInv
    BY InitOrder, InitFill
  <1>2. OrderInv /\ FillInv /\ [Next]_vars => OrderInv' /\ FillInv'
    BY NextOrderKept, NextFill
  <1>3. OrderInv /\ FillInv => WellFilled
    <2> SUFFICES ASSUME FillInv, pc = "idle", NEW n \in Live
                 PROVE  IF n = root THEN tag[n] = "branch" => Len(keys[n]) >= 1
                                    ELSE Len(keys[n]) >= MinLen(n)
      BY DEF WellFilled
    <2>1. Whole /\ pc # "fix" /\ n \in Node
      BY DEF Whole, Live
    <2> QED
      BY <2>1, FillBefore, NodeAssumption
  <1> QED
    BY <1>1, <1>2, <1>3, PTL DEF Spec

-----------------------------------------------------------------------------
(* Balance.                                                                *)

(* The depth of a block is its level.                                      *)
LEMMA DepthIsLevel ==
  ASSUME NEW lvl \in [Node -> Nat], InvAt(lvl), pc # "free"
  PROVE  \A n \in Live : Depth[n] = lvl[n]
  <1> DEFINE f == [n \in Node |-> IF tag[n] # "branch" THEN 0 ELSE lvl[n]]
             B == {n \in Live : Depth[n] # lvl[n]}
             T == {lvl[n] : n \in B}
  <1>1. ASSUME NEW n \in Node, tag[n] = "branch"
        PROVE  /\ children[n][1] \in Live /\ lvl[n] = 1 + lvl[children[n][1]]
               /\ tag[children[n][1]] # "branch" => lvl[children[n][1]] = 0
    <2>1. TypeOK /\ Shape /\ Rooted /\ Levels(lvl, tag, children)
      BY DEF InvAt
    <2>2. /\ children[n] \in Seq(Node) /\ Len(children[n]) = Len(keys[n]) + 1
          /\ Len(keys[n]) \in Nat
      BY <1>1, <2>1, BlockTypes DEF Shape
    <2>3. 1 \in 1 .. Len(children[n])
      BY <2>2, SMT
    <2>4. children[n][1] \in Range(children[n])
      BY <2>2, <2>3, Entries
    <2>5. children[n][1] \in Live /\ lvl[n] = lvl[children[n][1]] + 1
      BY <2>1, <2>4 DEF Rooted, Levels
    <2>6. children[n][1] \in Node /\ tag[children[n][1]] # "free"
      BY <2>5 DEF Live
    <2>7. tag[children[n][1]] # "branch" => lvl[children[n][1]] = 0
      BY <2>1, <2>6 DEF TypeOK, Levels
    <2>8. lvl[children[n][1]] \in Nat
      BY <2>6
    <2>9. lvl[n] = 1 + lvl[children[n][1]]
      BY <2>5, <2>8, SMT
    <2> QED
      BY <2>5, <2>7, <2>9
  <1>2. f = [n \in Node |-> IF tag[n] # "branch" THEN 0 ELSE 1 + f[children[n][1]]]
    <2>1. ASSUME NEW n \in Node, tag[n] = "branch"  PROVE f[n] = 1 + f[children[n][1]]
      <3>1. children[n][1] \in Node
        BY <1>1, <2>1 DEF Live
      <3> QED
        BY <1>1, <2>1, <3>1
    <2>2. \A n \in Node : f[n] = IF tag[n] # "branch" THEN 0 ELSE 1 + f[children[n][1]]
      BY <2>1
    <2> QED
      BY <2>2
  <1>3. Depth = [n \in Node |-> IF tag[n] # "branch" THEN 0 ELSE 1 + Depth[children[n][1]]]
    <2> HIDE DEF f
    <2> QED
      BY <1>2, Zenon DEF Depth
  <1>4. \A n \in Node : Depth[n] = IF tag[n] # "branch" THEN 0 ELSE 1 + Depth[children[n][1]]
    BY <1>3
  <1>5. ASSUME B # {}  PROVE FALSE
    <2>1. T \subseteq Nat /\ T # {}
      BY <1>5 DEF Live
    <2>2. PICK x \in T : \A y \in T : x <= y
      BY <2>1, LeastOf
    <2>3. PICK n \in B : x = lvl[n]
      BY <2>2
    <2>4. n \in Node /\ tag[n] # "free" /\ Depth[n] # lvl[n]
      BY <2>3 DEF Live
    <2>5. CASE tag[n] = "branch"
      <3>1. PICK c : c = children[n][1]
        OBVIOUS
      <3>2. c \in Live /\ lvl[n] = 1 + lvl[c] /\ Depth[n] = 1 + Depth[c]
        BY <1>1, <1>4, <2>4, <2>5, <3>1
      <3>3. Depth[c] # lvl[c]
        BY <2>4, <3>2
      <3>4. lvl[n] <= lvl[c] /\ lvl[c] \in Nat
        BY <2>2, <2>3, <3>2, <3>3 DEF Live
      <3> QED
        BY <3>2, <3>4, SMT
    <2>6. CASE tag[n] = "leaf"
      BY <1>4, <2>4, <2>6 DEF InvAt, Levels
    <2> QED
      BY <2>4, <2>5, <2>6 DEF InvAt, TypeOK
  <1> QED
    BY <1>5

LEMMA InvBalanced ==
  ASSUME Inv
  PROVE  Balanced
  <1> SUFFICES ASSUME pc = "idle", NEW n \in Live, NEW x \in Kids(n)
               PROVE  Depth[n] = Depth[x] + 1
    BY DEF Balanced
  <1>1. PICK lvl \in [Node -> Nat] : InvAt(lvl)
    BY DEF Inv
  <1>2. n \in Node /\ x \in Live /\ lvl[n] = lvl[x] + 1
    BY <1>1 DEF InvAt, Rooted, Levels, Kids, Live
  <1> QED
    BY <1>1, <1>2, DepthIsLevel

(* Between calls all leaves are at one depth, whatever the keys, the pool  *)
(* and the capacities.                                                     *)
THEOREM AlwaysBalanced == Spec => []Balanced
  BY InvBalanced, TreeInvariant, PTL

(* Also when the caller went on after panics.                              *)
THEOREM BalancedAfterPanics == GoingOnSpec => []Balanced
  BY InvBalanced, InvariantAfterPanics, PTL

-----------------------------------------------------------------------------
(* The tree from left to right.                                            *)

(* The leaves ls, with the separators ss between them, part Z.             *)
Spread(zone, Z, ss, ls) ==
  /\ ss \in Seq(Key) /\ ls \in Seq(Node) /\ Len(ls) = Len(ss) + 1
  /\ Sorted(ss) /\ Fan(zone, Z, ss, ls) /\ Filled(zone, ls)
  /\ \A i \in 1 .. Len(ls) : ls[i] \in Leaves

(* Of the entries of two sequences put together, each is one of theirs.    *)
LEMMA ConcatAll ==
  ASSUME NEW S, NEW s \in Seq(S), NEW t \in Seq(S), NEW P,
         \A i \in 1 .. Len(s) : s[i] \in P, \A i \in 1 .. Len(t) : t[i] \in P
  PROVE  /\ s \o t \in Seq(S) /\ Len(s \o t) = Len(s) + Len(t)
         /\ \A i \in 1 .. Len(s \o t) : (s \o t)[i] \in P
  <1> PICK u : u = s \o t
    OBVIOUS
  <1>1. /\ u \in Seq(S) /\ Len(u) = Len(s) + Len(t)
        /\ \A j \in 1 .. Len(s) : u[j] = s[j]
        /\ \A j \in Len(s) + 1 .. Len(s) + Len(t) : u[j] = t[j - Len(s)]
    BY Concat
  <1>2. ASSUME NEW i \in 1 .. Len(u)  PROVE u[i] \in P
    <2>1. i \in 1 .. Len(s) \/ (i \in Len(s) + 1 .. Len(s) + Len(t) /\ i - Len(s) \in 1 .. Len(t))
      BY <1>1, <1>2
    <2> QED
      BY <1>1, <2>1
  <1> QED
    BY <1>1, <1>2

(* Two spreads side by side, and the separator between them, are one.      *)
LEMMA SpreadJoin ==
  ASSUME NEW zone, NEW Z, NEW a, NEW s \in Key, NEW b, NEW la, NEW lb,
         Spread(zone, Low(Z, s), a, la), Spread(zone, High(Z, s), b, lb)
  PROVE  Spread(zone, Z, Around(a, s, b), la \o lb)
  <1>1. /\ a \in Seq(Key) /\ la \in Seq(Node) /\ Len(la) = Len(a) + 1 /\ Sorted(a)
        /\ Fan(zone, Low(Z, s), a, la) /\ Filled(zone, la) /\ \A i \in 1 .. Len(la) : la[i] \in Leaves
        /\ b \in Seq(Key) /\ lb \in Seq(Node) /\ Len(lb) = Len(b) + 1 /\ Sorted(b)
        /\ Fan(zone, High(Z, s), b, lb) /\ Filled(zone, lb) /\ \A i \in 1 .. Len(lb) : lb[i] \in Leaves
    BY DEF Spread
  <1>2. Sorted(Around(a, s, b)) /\ Fan(zone, Z, Around(a, s, b), la \o lb)
    BY <1>1, FanJoin
  <1>3. Around(a, s, b) \in Seq(Key) /\ Len(Around(a, s, b)) = Len(a) + 1 + Len(b)
    BY <1>1, AroundParts
  <1>4. /\ la \o lb \in Seq(Node) /\ Len(la \o lb) = Len(la) + Len(lb)
        /\ \A i \in 1 .. Len(la \o lb) : (la \o lb)[i] \in Leaves
    BY <1>1, ConcatAll
  <1>5. Filled(zone, la \o lb)
    <2> DEFINE P == {n \in Node : \E k \in Key : k \in zone[n]}
    <2>1. /\ \A i \in 1 .. Len(la) : la[i] \in P
          /\ \A i \in 1 .. Len(lb) : lb[i] \in P
      BY <1>1 DEF Filled
    <2>2. \A i \in 1 .. Len(la \o lb) : (la \o lb)[i] \in P
      BY <1>1, <2>1, ConcatAll
    <2> QED
      BY <2>2 DEF Filled
  <1>6. Len(la \o lb) = Len(Around(a, s, b)) + 1
    BY <1>1, <1>3, <1>4
  <1> QED
    BY <1>2, <1>3, <1>4, <1>5, <1>6 DEF Spread

(* A spread is the same for zones with the same keys.                      *)
LEMMA SpreadSame ==
  ASSUME NEW zone, NEW Y, NEW Z, NEW ss, NEW ls, Spread(zone, Y, ss, ls),
         \A k \in Key : k \in Y <=> k \in Z
  PROVE  Spread(zone, Z, ss, ls)
  BY DEF Spread, Fan

(* The part of a branch's zone Z up to its child i.                        *)
UpTo(Z, ks, i) == {k \in Z : i <= Len(ks) => k < ks[i]}

(* Below a separator, from it on, and up to the child after it.            *)
LEMMA UpToCut ==
  ASSUME NEW ks \in Seq(Key), Sorted(ks), NEW Z \in SUBSET Key, NEW i \in 2 .. Len(ks) + 1
  PROVE  /\ i - 1 \in 1 .. Len(ks) /\ ks[i - 1] \in Key
         /\ \A k \in Key :
              /\ k \in Low(UpTo(Z, ks, i), ks[i - 1]) <=> k \in UpTo(Z, ks, i - 1)
              /\ k \in High(UpTo(Z, ks, i), ks[i - 1]) <=> k \in Z /\ k \in Slice(ks, i)
  <1>1. /\ Len(ks) \in Nat /\ i \in Int /\ i - 1 \in 1 .. Len(ks) /\ i > 1
        /\ \A j \in 1 .. Len(ks) : ks[j] \in Key /\ ks[j] \in Int
    BY KeysAreInts
  <1>2. Key \subseteq Int
    BY KeyAssumption
  <1>3. PICK p : p = i - 1
    OBVIOUS
  <1>4. p \in 1 .. Len(ks) /\ p <= Len(ks) /\ ks[p] \in Int /\ (i <= Len(ks) => ks[i] \in Int /\ ks[p] < ks[i])
    <2>1. i <= Len(ks) => i \in 1 .. Len(ks) /\ p < i
      BY <1>1, <1>3
    <2> QED
      BY <1>1, <1>3, <2>1 DEF Sorted
  <1>5. ASSUME NEW k \in Key
        PROVE  /\ k \in Low(UpTo(Z, ks, i), ks[p]) <=> k \in UpTo(Z, ks, p)
               /\ k \in High(UpTo(Z, ks, i), ks[p]) <=> k \in Z /\ k \in Slice(ks, i)
    <2>1. k \in Int
      BY <1>2
    <2>2. i <= Len(ks) => (k < ks[p] => k < ks[i])
      BY <1>4, <2>1
    <2>3. k \in Low(UpTo(Z, ks, i), ks[p]) <=> k \in UpTo(Z, ks, p)
      BY <1>4, <2>2 DEF Low, UpTo
    <2>4. k \in Slice(ks, i) <=> (ks[p] <= k /\ (i <= Len(ks) => k < ks[i]))
      BY <1>1, <1>3 DEF Slice
    <2>5. k \in High(UpTo(Z, ks, i), ks[p]) <=> k \in Z /\ k \in Slice(ks, i)
      BY <2>4 DEF High, UpTo
    <2> QED
      BY <2>3, <2>5
  <1> QED
    BY <1>1, <1>3, <1>5

(* The leaves and separators of the children of a branch, one child after  *)
(* the other, are those of the branch.                                     *)
LeafRows(L, cs)     == [i \in DOMAIN cs |-> L[cs[i]]]
SepRows(S, ks, cs)  ==
  [i \in DOMAIN cs |-> (IF i > 1 THEN <<ks[i - 1]>> ELSE <<>>) \o S[cs[i]]]

LEMMA SpreadPiles ==
  ASSUME NEW zone, NEW Z \in SUBSET Key, NEW ks \in Seq(Key), Sorted(ks),
         NEW cs \in Seq(Node), Len(cs) = Len(ks) + 1, Fan(zone, Z, ks, cs), NEW L, NEW S,
         \A i \in 1 .. Len(cs) : Spread(zone, zone[cs[i]], S[cs[i]], L[cs[i]])
  PROVE  Spread(zone, Z, FlattenSeq(SepRows(S, ks, cs)), FlattenSeq(LeafRows(L, cs)))
  <1> PICK ss : ss = SepRows(S, ks, cs)
    OBVIOUS
  <1> PICK ll : ll = LeafRows(L, cs)
    OBVIOUS
  <1> PICK m : m = Len(cs)
    OBVIOUS
  <1>1. m \in Nat /\ m >= 1 /\ m = Len(ks) + 1 /\ Len(ks) \in Nat /\ DOMAIN cs = 1 .. m
    BY KeysAreInts
  <1>2. /\ \A i \in 1 .. m : ll[i] = L[cs[i]]
        /\ \A i \in 1 .. m : ss[i] = (IF i > 1 THEN <<ks[i - 1]>> ELSE <<>>) \o S[cs[i]]
        /\ ll = [i \in 1 .. m |-> ll[i]] /\ ss = [i \in 1 .. m |-> ss[i]]
    BY <1>1 DEF LeafRows, SepRows
  <1>3. \A i \in 1 .. m : S[cs[i]] \in Seq(Key) /\ L[cs[i]] \in Seq(Node)
    BY <1>1 DEF Spread
  <1>4. ASSUME NEW i \in 2 .. m
        PROVE  /\ i \in 1 .. m /\ i - 1 \in 1 .. Len(ks) /\ ks[i - 1] \in Key
               /\ ss[i] = <<ks[i - 1]>> \o S[cs[i]]
    <2>1. i \in 1 .. m /\ i > 1 /\ i - 1 \in 1 .. Len(ks) /\ ks[i - 1] \in Key
      BY <1>1
    <2>2. ss[i] = (IF i > 1 THEN <<ks[i - 1]>> ELSE <<>>) \o S[cs[i]]
      BY ONLY <1>2, <2>1, Zenon
    <2>3. (IF i > 1 THEN <<ks[i - 1]>> ELSE <<>>) = <<ks[i - 1]>>
      BY ONLY <2>1, Zenon
    <2> QED
      BY ONLY <2>1, <2>2, <2>3, Zenon
  <1>5. ss[1] = S[cs[1]] /\ ll[1] = L[cs[1]]
    <2>1. 1 \in 1 .. m /\ ~(1 > 1)
      BY <1>1
    <2>2. S[cs[1]] \in Seq(Key)
      BY <1>3, <2>1
    <2>3. <<>> \o S[cs[1]] = S[cs[1]]
      BY <2>2, EmptySeq, ConcatEmptySeq
    <2> QED
      BY <1>2, <2>1, <2>3
  <1>6. ll \in Seq(Seq(Node)) /\ Len(ll) = m
    <2>1. \A i \in 1 .. m : ll[i] \in Seq(Node)
      BY <1>2, <1>3
    <2>2. ll \in [1 .. m -> Seq(Node)]
      BY <1>2, <2>1
    <2> QED
      BY <1>1, <2>2
  <1>7. ss \in Seq(Seq(Key)) /\ Len(ss) = m
    <2>1. ASSUME NEW i \in 1 .. m  PROVE ss[i] \in Seq(Key)
      <3>1. CASE i = 1
        BY <1>3, <1>5, <3>1
      <3>2. CASE i # 1
        <4>1. i \in 2 .. m
          BY <1>1, <3>2
        <4>2. ss[i] = <<ks[i - 1]>> \o S[cs[i]] /\ ks[i - 1] \in Key /\ S[cs[i]] \in Seq(Key)
          BY <1>3, <1>4, <4>1
        <4>3. <<ks[i - 1]>> \in Seq(Key)
          BY ONLY <4>2, Single
        <4>4. <<ks[i - 1]>> \o S[cs[i]] \in Seq(Key)
          BY ONLY <4>2, <4>3, ConcatType
        <4> QED
          BY ONLY <4>2, <4>4, Zenon
      <3> QED
        BY <3>1, <3>2
    <2>2. ss \in [1 .. m -> Seq(Key)]
      BY <1>2, <2>1
    <2> QED
      BY ONLY <1>1, <2>2, SMT
  <1>8. PICK f : Piles(ll, f)
    BY <1>1, <1>6, FlattenPiles
  <1>9. PICK g : Piles(ss, g)
    BY <1>1, <1>7, FlattenPiles
  <1> DEFINE Good(i) == Spread(zone, UpTo(Z, ks, i), g[i], f[i])
             T == {i \in 1 .. m : ~Good(i)}
  <1>10. \A i, k : i \in 1 .. m /\ k \in Key => (k \in zone[cs[i]] <=> k \in Z /\ k \in Slice(ks, i))
    BY <1>1 DEF Fan
  <1>11. Good(1)
    <2>1. Spread(zone, zone[cs[1]], S[cs[1]], L[cs[1]])
      BY <1>1
    <2>2. g[1] = S[cs[1]] /\ f[1] = L[cs[1]]
      BY <1>5, <1>8, <1>9 DEF Piles
    <2>3. \A k \in Key : k \in zone[cs[1]] <=> k \in UpTo(Z, ks, 1)
      <3> TAKE k \in Key
      <3>1. k \in Slice(ks, 1) <=> (1 <= Len(ks) => k < ks[1])
        BY DEF Slice
      <3>2. 1 \in 1 .. m
        BY <1>1
      <3> QED
        BY <1>10, <3>1, <3>2 DEF UpTo
    <2> QED
      BY <2>1, <2>2, <2>3, SpreadSame
  <1>12. ASSUME NEW i \in 2 .. m, Good(i - 1)  PROVE Good(i)
    <2> PICK p : p = i - 1
      OBVIOUS
    <2> PICK s : s = ks[i - 1]
      OBVIOUS
    <2>1. /\ s \in Key
          /\ \A k \in Key : /\ k \in Low(UpTo(Z, ks, i), s) <=> k \in UpTo(Z, ks, p)
                            /\ k \in High(UpTo(Z, ks, i), s) <=> k \in Z /\ k \in Slice(ks, i)
      BY <1>1, UpToCut
    <2>2. Spread(zone, Low(UpTo(Z, ks, i), s), g[p], f[p])
      BY <1>12, <2>1, SpreadSame
    <2>3. i \in 1 .. m
      BY <1>1
    <2>4. Spread(zone, High(UpTo(Z, ks, i), s), S[cs[i]], L[cs[i]])
      BY <1>10, <2>1, <2>3, SpreadSame
    <2>5. Spread(zone, UpTo(Z, ks, i), Around(g[p], s, S[cs[i]]), f[p] \o L[cs[i]])
      BY <2>1, <2>2, <2>4, SpreadJoin
    <2>6. f[i] = f[p] \o L[cs[i]]
      <3>1. f[i] = f[i - 1] \o ll[i]
        BY <1>6, <1>8 DEF Piles
      <3> QED
        BY <1>2, <2>3, <3>1
    <2>9. g[i] = g[p] \o (<<s>> \o S[cs[i]])
      <3>1. g[i] = g[i - 1] \o ss[i]
        BY ONLY <1>7, <1>9, i \in 2 .. m DEF Piles
      <3>2. ss[i] = <<ks[i - 1]>> \o S[cs[i]]
        BY <1>4
      <3> QED
        BY ONLY <3>1, <3>2, s = ks[i - 1], p = i - 1, Zenon
    <2>7. g[p] \in Seq(Key) /\ <<s>> \in Seq(Key) /\ S[cs[i]] \in Seq(Key)
      BY <1>3, <2>1, <2>2, <2>3 DEF Spread
    <2>8. Around(g[p], s, S[cs[i]]) = g[i]
      <3>1. Associative(g[p], <<s>>, S[cs[i]])
        BY ONLY <2>7, ConcatAssoc
      <3> QED
        BY ONLY <2>9, <3>1, Zenon DEF Around, Associative
    <2> QED
      BY <2>5, <2>6, <2>8
  <1> HIDE DEF Good
  <1>13. ASSUME T # {}  PROVE FALSE
    <2>1. T \subseteq Nat
      OBVIOUS
    <2>2. PICK i \in T : \A y \in T : i <= y
      BY <1>13, <2>1, LeastOf
    <2>3. i \in 1 .. m /\ ~Good(i) /\ i # 1
      BY <1>11, <2>2
    <2>4. i \in 2 .. m /\ i - 1 \in 1 .. m /\ ~(i <= i - 1)
      BY <1>1, <2>3
    <2>5. Good(i - 1)
      BY <2>2, <2>4
    <2> QED
      BY <1>12, <2>3, <2>4, <2>5
  <1>14. m \in 1 .. m /\ ~(m <= Len(ks))
    BY <1>1
  <1>15. Spread(zone, UpTo(Z, ks, m), g[m], f[m])
    BY <1>13, <1>14 DEF Good
  <1>16. Spread(zone, Z, g[m], f[m])
    <2>1. \A k \in Key : k \in UpTo(Z, ks, m) <=> k \in Z
      BY <1>14 DEF UpTo
    <2> QED
      BY <1>15, <2>1, SpreadSame
  <1> QED
    BY <1>6, <1>7, <1>8, <1>9, <1>16 DEF Piles

-----------------------------------------------------------------------------
(* The recursive functions of a tree at rest.                              *)

(* Branches are above their children, and nothing is above the root.       *)
Height(lvl) == [n \in Node |-> IF tag[n] = "branch" THEN lvl[n] ELSE 0]

LEMMA KidsBelow ==
  ASSUME NEW lvl \in [Node -> Nat], InvAt(lvl), NEW zone \in Zones, OrderAt(lvl, zone),
         pc = "idle"
  PROVE  /\ Height(lvl) \in [Node -> Nat]
         /\ \E top \in Nat : \A n \in Node : Height(lvl)[n] <= top
         /\ \A n \in Node : \A i \in DOMAIN children[n] :
              /\ tag[n] = "branch" /\ children[n][i] \in Live
              /\ Height(lvl)[children[n][i]] < Height(lvl)[n]
  <1>1. TypeOK /\ Shape /\ Levels(lvl, tag, children) /\ Rooted
    BY DEF InvAt
  <1>2. Topped(lvl)
    BY DEF OrderAt, Whole
  <1>3. PICK h : h = Height(lvl)
    OBVIOUS
  <1>4. h \in [Node -> Nat] /\ \A n \in Node : h[n] = IF tag[n] = "branch" THEN lvl[n] ELSE 0
    BY <1>3 DEF Height
  <1>5. \E top \in Nat : \A n \in Node : h[n] <= top
    <2>1. CASE root = Null
      <3>1. \A n \in Node : tag[n] # "branch"
        BY <1>2, <2>1 DEF Topped, Live
      <3>2. \A n \in Node : h[n] <= 0
        BY <1>4, <3>1
      <3> QED
        BY <3>2
    <2>2. CASE root # Null
      <3>1. lvl[root] \in Nat
        BY <1>1, <2>2 DEF TypeOK
      <3>2. ASSUME NEW n \in Node  PROVE h[n] <= lvl[root]
        <4>1. CASE tag[n] = "branch"
          BY <1>2, <1>4, <4>1 DEF Topped, Live
        <4>2. CASE tag[n] # "branch"
          BY <1>4, <3>1, <4>2
        <4> QED
          BY <4>1, <4>2
      <3> QED
        BY <3>1, <3>2
    <2> QED
      BY <2>1, <2>2
  <1>6. ASSUME NEW n \in Node, NEW i \in DOMAIN children[n]
        PROVE  tag[n] = "branch" /\ children[n][i] \in Live /\ h[children[n][i]] < h[n]
    <2>1. children[n] \in Seq(Node) /\ i \in 1 .. Len(children[n])
      BY <1>1, BlockTypes
    <2>2. tag[n] = "branch"
      <3>1. children[n] # <<>>
        BY <2>1
      <3> QED
        BY <1>1, <3>1 DEF Shape
    <2>3. children[n][i] \in Range(children[n])
      BY <2>1, Entries
    <2>4. children[n][i] \in Live /\ lvl[n] = lvl[children[n][i]] + 1
      BY <1>1, <2>3 DEF Rooted, Levels
    <2>5. PICK c \in Node : c = children[n][i]
      BY <2>4 DEF Live
    <2>6. lvl[c] \in Nat /\ lvl[n] = lvl[c] + 1 /\ h[n] = lvl[n] /\ (h[c] = lvl[c] \/ h[c] = 0)
      BY <1>4, <2>2, <2>4, <2>5
    <2>7. h[c] < h[n]
      BY <2>6, SMT
    <2> QED
      BY <2>2, <2>4, <2>5, <2>7
  <1> QED
    BY <1>3, <1>4, <1>5, <1>6

LEMMA LeavesOfIs ==
  ASSUME NEW lvl \in [Node -> Nat], InvAt(lvl), NEW zone \in Zones, OrderAt(lvl, zone),
         pc = "idle"
  PROVE  \A n \in Node : LeavesOf[n] = IF tag[n] = "leaf" THEN <<n>>
                                       ELSE FlattenSeq(LeafRows(LeavesOf, children[n]))
  <1> DEFINE V == Seq(Node)
             Body(f, n) == IF tag[n] = "leaf" THEN <<n>>
                           ELSE FlattenSeq([i \in DOMAIN children[n] |-> f[children[n][i]]])
             B == [f \in [Node -> V] |-> [n \in Node |-> Body(f, n)]]
  <1>1. PICK h : h = Height(lvl)
    OBVIOUS
  <1>2. /\ h \in [Node -> Nat]
        /\ \A n \in Node : \A i \in DOMAIN children[n] :
              children[n][i] \in Node /\ h[children[n][i]] < h[n]
    BY <1>1, KidsBelow DEF Live
  <1>3. PICK top \in Nat : \A n \in Node : h[n] <= top
    BY <1>1, KidsBelow
  <1>4. \A f \in [Node -> V] : \A n \in Node : B[f][n] = Body(f, n)
    OBVIOUS
  <1>5. ASSUME NEW f \in [Node -> V], NEW n \in Node  PROVE Body(f, n) \in V
    <2>1. children[n] \in Seq(Node)
      BY DEF InvAt, TypeOK
    <2>2. [i \in DOMAIN children[n] |-> f[children[n][i]]] \in Seq(V)
      <3>1. Len(children[n]) \in Nat /\ DOMAIN children[n] = 1 .. Len(children[n])
        BY <2>1
      <3>2. [i \in 1 .. Len(children[n]) |-> f[children[n][i]]] \in [1 .. Len(children[n]) -> V]
        BY <1>2, <3>1
      <3> QED
        BY <3>1, <3>2
    <2>3. FlattenSeq([i \in DOMAIN children[n] |-> f[children[n][i]]]) \in Seq(Node)
      BY <2>2, FlattenType
    <2> QED
      BY <2>3
  <1>6. ASSUME NEW f \in [Node -> V], NEW g \in [Node -> V], NEW n \in Node,
               \A m \in Node : h[m] < h[n] => f[m] = g[m]
        PROVE  Body(f, n) = Body(g, n)
    <2>1. \A i \in DOMAIN children[n] : f[children[n][i]] = g[children[n][i]]
      BY <1>2, <1>6
    <2>2. [i \in DOMAIN children[n] |-> f[children[n][i]]]
            = [i \in DOMAIN children[n] |-> g[children[n][i]]]
      BY <2>1
    <2> QED
      BY <2>2
  <1> HIDE DEF Body
  <1>7. PICK f \in [Node -> V] : \A n \in Node : f[n] = B[f][n]
    <2>1. V # {}
      <3>1. <<>> \in V
        OBVIOUS
      <3> QED
        BY <3>1
    <2> HIDE DEF B, V
    <2>2. \A f \in [Node -> V] : \A n \in Node : B[f][n] \in V
      BY <1>4, <1>5
    <2>3. \A f, g \in [Node -> V] : \A n \in Node :
            (\A m \in Node : h[m] < h[n] => f[m] = g[m]) => B[f][n] = B[g][n]
      <3> TAKE f, g \in [Node -> V]
      <3> TAKE n \in Node
      <3> QED
        BY <1>4, <1>6
    <2>4. GoesDown(Node, V, h, B)
      BY ONLY <1>2, <1>3, <2>1, <2>2, <2>3, Zenon DEF GoesDown
    <2> QED
      BY ONLY <2>4, RecursionSolves
  <1>8. f = [n \in Node |-> Body(f, n)]
    BY <1>4, <1>7
  <1>9. LeavesOf = [n \in Node |-> Body(LeavesOf, n)]
    BY <1>8, Zenon DEF LeavesOf, Body
  <1>10. \A n \in Node : LeavesOf[n] = Body(LeavesOf, n)
    BY <1>9, Zenon
  <1> QED
    BY <1>10, Zenon DEF Body, LeafRows

LEMMA SepsOfIs ==
  ASSUME NEW lvl \in [Node -> Nat], InvAt(lvl), NEW zone \in Zones, OrderAt(lvl, zone),
         pc = "idle"
  PROVE  \A n \in Node : SepsOf[n] = FlattenSeq(SepRows(SepsOf, keys[n], children[n]))
  <1> DEFINE V == Seq(Key)
             Body(f, n) == FlattenSeq(SepRows(f, keys[n], children[n]))
             B == [f \in [Node -> V] |-> [n \in Node |-> Body(f, n)]]
  <1>1. PICK h : h = Height(lvl)
    OBVIOUS
  <1>2. /\ h \in [Node -> Nat]
        /\ \A n \in Node : \A i \in DOMAIN children[n] :
              children[n][i] \in Node /\ h[children[n][i]] < h[n]
    BY <1>1, KidsBelow DEF Live
  <1>3. PICK top \in Nat : \A n \in Node : h[n] <= top
    BY <1>1, KidsBelow
  <1>4. \A f \in [Node -> V] : \A n \in Node : B[f][n] = Body(f, n)
    OBVIOUS
  <1>5. ASSUME NEW f \in [Node -> V], NEW n \in Node  PROVE Body(f, n) \in V
    <2> PICK ss : ss = SepRows(f, keys[n], children[n])
      OBVIOUS
    <2>1. /\ children[n] \in Seq(Node) /\ keys[n] \in Seq(Key)
          /\ Len(keys[n]) \in Nat /\ Len(children[n]) \in Nat
          /\ DOMAIN children[n] = 1 .. Len(children[n])
          /\ children[n] # <<>> => Len(children[n]) = Len(keys[n]) + 1
      BY BlockTypes, KeysAreInts DEF InvAt, Shape
    <2>2. /\ ss = [i \in 1 .. Len(children[n]) |-> ss[i]]
          /\ \A i \in 1 .. Len(children[n]) :
               ss[i] = (IF i > 1 THEN <<keys[n][i - 1]>> ELSE <<>>) \o f[children[n][i]]
      BY <2>1 DEF SepRows
    <2>3. ASSUME NEW i \in 1 .. Len(children[n])  PROVE ss[i] \in Seq(Key)
      <3>1. f[children[n][i]] \in Seq(Key)
        BY <1>2, <2>1
      <3>2. (IF i > 1 THEN <<keys[n][i - 1]>> ELSE <<>>) \in Seq(Key)
        <4>1. CASE i > 1
          <5>1. keys[n][i - 1] \in Key
            <6>1. children[n] # <<>>
              BY <2>1
            <6>2. i - 1 \in 1 .. Len(keys[n])
              BY <2>1, <4>1, <6>1
            <6> QED
              BY <2>1, <6>2
          <5>2. <<keys[n][i - 1]>> \in Seq(Key)
            BY ONLY <5>1, Single
          <5> QED
            BY ONLY <4>1, <5>2
        <4>2. CASE ~(i > 1)
          BY ONLY <4>2, EmptySeq
        <4> QED
          BY <4>1, <4>2
      <3>3. ss[i] = (IF i > 1 THEN <<keys[n][i - 1]>> ELSE <<>>) \o f[children[n][i]]
        BY ONLY <2>2, <2>3, Zenon
      <3> QED
        BY ONLY <3>1, <3>2, <3>3, ConcatType
    <2>4. ss \in [1 .. Len(children[n]) -> Seq(Key)]
      BY <2>2, <2>3
    <2>5. ss \in Seq(Seq(Key))
      <3> PICK m \in Nat : m = Len(children[n])
        BY <2>1
      <3>1. ss \in [1 .. m -> Seq(Key)]
        BY <2>4
      <3> QED
        BY ONLY m \in Nat, <3>1, SMT
    <2>6. FlattenSeq(ss) \in Seq(Key)
      BY <2>5, FlattenType
    <2> QED
      BY <2>6
  <1>6. ASSUME NEW f \in [Node -> V], NEW g \in [Node -> V], NEW n \in Node,
               \A m \in Node : h[m] < h[n] => f[m] = g[m]
        PROVE  Body(f, n) = Body(g, n)
    <2>1. \A i \in DOMAIN children[n] : f[children[n][i]] = g[children[n][i]]
      BY <1>2, <1>6
    <2>2. SepRows(f, keys[n], children[n]) = SepRows(g, keys[n], children[n])
      BY <2>1, Zenon DEF SepRows
    <2> QED
      BY <2>2
  <1> HIDE DEF Body
  <1>7. PICK f \in [Node -> V] : \A n \in Node : f[n] = B[f][n]
    <2>1. V # {}
      <3>1. <<>> \in V
        OBVIOUS
      <3> QED
        BY <3>1
    <2> HIDE DEF B, V
    <2>2. \A f \in [Node -> V] : \A n \in Node : B[f][n] \in V
      BY <1>4, <1>5
    <2>3. \A f, g \in [Node -> V] : \A n \in Node :
            (\A m \in Node : h[m] < h[n] => f[m] = g[m]) => B[f][n] = B[g][n]
      <3> TAKE f, g \in [Node -> V]
      <3> TAKE n \in Node
      <3> QED
        BY <1>4, <1>6
    <2>4. GoesDown(Node, V, h, B)
      BY ONLY <1>2, <1>3, <2>1, <2>2, <2>3, Zenon DEF GoesDown
    <2> QED
      BY ONLY <2>4, RecursionSolves
  <1>8. f = [n \in Node |-> Body(f, n)]
    BY <1>4, <1>7
  <1>9. SepsOf = [n \in Node |-> Body(SepsOf, n)]
    BY <1>8, Zenon DEF SepsOf, Body, SepRows
  <1>10. \A n \in Node : SepsOf[n] = Body(SepsOf, n)
    BY <1>9, Zenon
  <1> QED
    BY <1>10, Zenon DEF Body

(* child_for_key chooses a child there is.                                 *)
LEMMA RankIsChild ==
  ASSUME TypeOK, Shape, NEW n \in Node, tag[n] = "branch", NEW k \in Key
  PROVE  Rank(keys[n], k) + 1 \in DOMAIN children[n]
  <1>1. /\ keys[n] \in Seq(Int) /\ children[n] \in Seq(Node) /\ Len(keys[n]) \in Nat
        /\ Len(children[n]) = Len(keys[n]) + 1 /\ k \in Int
    BY BlockTypes, KeyAssumption
  <1>2. PICK r : r = Rank(keys[n], k)
    OBVIOUS
  <1>3. r \in 0 .. Len(keys[n])
    BY <1>1, <1>2, RankBounds
  <1>4. r + 1 \in 1 .. Len(children[n]) /\ DOMAIN children[n] = 1 .. Len(children[n])
    BY <1>1, <1>3
  <1> QED
    BY <1>2, <1>4

LEMMA LeafForKeyIs ==
  ASSUME NEW lvl \in [Node -> Nat], InvAt(lvl), NEW zone \in Zones, OrderAt(lvl, zone),
         pc = "idle"
  PROVE  \A n \in Node, k \in Key :
           LeafForKey[n][k] = IF tag[n] # "branch" THEN n
                              ELSE LeafForKey[children[n][Rank(keys[n], k) + 1]][k]
  <1> DEFINE V == [Key -> Node]
             Body(f, n) == [k \in Key |-> IF tag[n] # "branch" THEN n
                                           ELSE f[children[n][Rank(keys[n], k) + 1]][k]]
             B == [f \in [Node -> V] |-> [n \in Node |-> Body(f, n)]]
  <1>0. TypeOK /\ Shape
    BY DEF InvAt
  <1>1. PICK h : h = Height(lvl)
    OBVIOUS
  <1>2. /\ h \in [Node -> Nat]
        /\ \A n \in Node : \A i \in DOMAIN children[n] :
              children[n][i] \in Node /\ h[children[n][i]] < h[n]
    BY <1>1, KidsBelow DEF Live
  <1>3. PICK top \in Nat : \A n \in Node : h[n] <= top
    BY <1>1, KidsBelow
  <1>4. \A f \in [Node -> V] : \A n \in Node : B[f][n] = Body(f, n)
    OBVIOUS
  <1>5. ASSUME NEW f \in [Node -> V], NEW n \in Node  PROVE Body(f, n) \in V
    <2>1. ASSUME NEW k \in Key, tag[n] = "branch"
          PROVE  f[children[n][Rank(keys[n], k) + 1]][k] \in Node
      <3>1. Rank(keys[n], k) + 1 \in DOMAIN children[n]
        BY <2>1, <1>0, RankIsChild
      <3>2. f[children[n][Rank(keys[n], k) + 1]] \in [Key -> Node]
        BY <1>2, <3>1
      <3> QED
        BY <3>2
    <2> QED
      BY <2>1
  <1>6. ASSUME NEW f \in [Node -> V], NEW g \in [Node -> V], NEW n \in Node,
               \A m \in Node : h[m] < h[n] => f[m] = g[m]
        PROVE  Body(f, n) = Body(g, n)
    <2>1. \A i \in DOMAIN children[n] : f[children[n][i]] = g[children[n][i]]
      BY <1>2, <1>6
    <2>2. ASSUME NEW k \in Key, tag[n] = "branch"
          PROVE  f[children[n][Rank(keys[n], k) + 1]] = g[children[n][Rank(keys[n], k) + 1]]
      <3>1. Rank(keys[n], k) + 1 \in DOMAIN children[n]
        BY <2>2, <1>0, RankIsChild
      <3> QED
        BY <2>1, <3>1
    <2> QED
      BY <2>2
  <1> HIDE DEF Body
  <1>7. PICK f \in [Node -> V] : \A n \in Node : f[n] = B[f][n]
    <2>1. V # {}
      <3>1. [k \in Key |-> n0] \in V
        BY NodeAssumption DEF n0
      <3> QED
        BY <3>1
    <2> HIDE DEF B, V
    <2>2. \A f \in [Node -> V] : \A n \in Node : B[f][n] \in V
      BY <1>4, <1>5
    <2>3. \A f, g \in [Node -> V] : \A n \in Node :
            (\A m \in Node : h[m] < h[n] => f[m] = g[m]) => B[f][n] = B[g][n]
      <3> TAKE f, g \in [Node -> V]
      <3> TAKE n \in Node
      <3> QED
        BY <1>4, <1>6
    <2>4. GoesDown(Node, V, h, B)
      BY ONLY <1>2, <1>3, <2>1, <2>2, <2>3, Zenon DEF GoesDown
    <2> QED
      BY ONLY <2>4, RecursionSolves
  <1>8. f = [n \in Node |-> Body(f, n)]
    BY <1>4, <1>7
  <1>9. LeafForKey = [n \in Node |-> Body(LeafForKey, n)]
    BY <1>8, Zenon DEF LeafForKey, Body
  <1>10. \A n \in Node : LeafForKey[n] = Body(LeafForKey, n)
    BY <1>9, Zenon
  <1>11. \A n \in Node, k \in Key :
           Body(LeafForKey, n)[k] = IF tag[n] # "branch" THEN n
                                    ELSE LeafForKey[children[n][Rank(keys[n], k) + 1]][k]
    BY DEF Body
  <1> QED
    BY <1>10, <1>11

(* What ValidateNode checks of node n, when f says which children pass.    *)
NodeValid(f, n, b) ==
  \/ tag[n] = "leaf" /\ ValidateLeaf(n, b)
  \/ tag[n] = "branch" /\ ValidateBranch(n, b, f)

LEMMA ValidateNodeIs ==
  ASSUME NEW lvl \in [Node -> Nat], InvAt(lvl), NEW zone \in Zones, OrderAt(lvl, zone),
         pc = "idle"
  PROVE  \A n \in Node, b \in Limits :
           ValidateNode[n][b] = NodeValid(ValidateNode, n, b)
  <1> DEFINE V == [Limits -> BOOLEAN]
             Body(f, n) == [b \in Limits |-> NodeValid(f, n, b)]
             B == [f \in [Node -> V] |-> [n \in Node |-> Body(f, n)]]
  <1>1. PICK h : h = Height(lvl)
    OBVIOUS
  <1>2. /\ h \in [Node -> Nat]
        /\ \A n \in Node : \A i \in DOMAIN children[n] :
              children[n][i] \in Node /\ h[children[n][i]] < h[n]
    BY <1>1, KidsBelow DEF Live
  <1>3. PICK top \in Nat : \A n \in Node : h[n] <= top
    BY <1>1, KidsBelow
  <1>4. \A f \in [Node -> V] : \A n \in Node : B[f][n] = Body(f, n)
    OBVIOUS
  <1>5. ASSUME NEW f \in [Node -> V], NEW n \in Node  PROVE Body(f, n) \in V
    <2>1. \A b \in Limits : NodeValid(f, n, b) \in BOOLEAN
      BY Zenon DEF NodeValid
    <2> QED
      BY <2>1, Zenon
  <1>6. ASSUME NEW f \in [Node -> V], NEW g \in [Node -> V], NEW n \in Node,
               \A m \in Node : h[m] < h[n] => f[m] = g[m]
        PROVE  Body(f, n) = Body(g, n)
    <2>1. \A i \in DOMAIN children[n] : f[children[n][i]] = g[children[n][i]]
      BY <1>2, <1>6
    <2>2. \A b \in Limits : NodeValid(f, n, b) = NodeValid(g, n, b)
      BY <2>1, Zenon DEF NodeValid, ValidateBranch
    <2> QED
      BY <2>2, Zenon
  <1> HIDE DEF Body
  <1>7. PICK f \in [Node -> V] : \A n \in Node : f[n] = B[f][n]
    <2>1. V # {}
      <3>1. [b \in Limits |-> TRUE] \in V
        OBVIOUS
      <3> QED
        BY <3>1
    <2> HIDE DEF B, V
    <2>2. \A f \in [Node -> V] : \A n \in Node : B[f][n] \in V
      BY <1>4, <1>5
    <2>3. \A f, g \in [Node -> V] : \A n \in Node :
            (\A m \in Node : h[m] < h[n] => f[m] = g[m]) => B[f][n] = B[g][n]
      <3> TAKE f, g \in [Node -> V]
      <3> TAKE n \in Node
      <3> QED
        BY <1>4, <1>6
    <2>4. GoesDown(Node, V, h, B)
      BY ONLY <1>2, <1>3, <2>1, <2>2, <2>3, Zenon DEF GoesDown
    <2> QED
      BY ONLY <2>4, RecursionSolves
  <1>8. f = [n \in Node |-> Body(f, n)]
    BY <1>4, <1>7
  <1>9. ValidateNode = [n \in Node |-> Body(ValidateNode, n)]
    BY <1>8, Zenon DEF ValidateNode, Body, NodeValid
  <1>10. \A n \in Node : ValidateNode[n] = Body(ValidateNode, n)
    BY <1>9, Zenon
  <1>11. \A n \in Node, b \in Limits :
           Body(ValidateNode, n)[b] = NodeValid(ValidateNode, n, b)
    BY Zenon DEF Body
  <1> QED
    BY <1>10, <1>11, Zenon

(* A leaf, with no separators, parts what is looked for in it.             *)
LEMMA LeafSpreads ==
  ASSUME NEW zone \in Zones, NEW n \in Node, n \in Leaves, \E k \in Key : k \in zone[n]
  PROVE  Spread(zone, zone[n], <<>>, <<n>>)
  <1>1. /\ <<>> \in Seq(Key) /\ Len(<<>>) = 0 /\ Sorted(<<>>)
    BY EmptySeq DEF Sorted
  <1>2. <<n>> \in Seq(Node) /\ Len(<<n>>) = 1 /\ <<n>>[1] = n
    BY Single
  <1>3. \A i \in 1 .. Len(<<n>>) : <<n>>[i] = n /\ i = 1
    BY <1>2
  <1>4. \A k \in Key : k \in Slice(<<>>, 1)
    BY <1>1 DEF Slice
  <1>5. Fan(zone, zone[n], <<>>, <<n>>)
    BY <1>3, <1>4 DEF Fan
  <1> QED
    BY <1>1, <1>2, <1>3, <1>5 DEF Spread, Filled

(* The leaves under a node and the separators between them part its zone,  *)
(* from left to right.                                                     *)
LEMMA TreeSpreads ==
  ASSUME NEW lvl \in [Node -> Nat], InvAt(lvl), NEW zone \in Zones, OrderAt(lvl, zone),
         pc = "idle"
  PROVE  \A n \in Live : Spread(zone, zone[n], SepsOf[n], LeavesOf[n])
  <1>1. TypeOK /\ Shape /\ Ordered(zone) /\ Fanned(zone)
    BY DEF InvAt, OrderAt, Whole
  <1> DEFINE G == {n \in Node : n \in Live => Spread(zone, zone[n], SepsOf[n], LeavesOf[n])}
  <1>2. PICK h : h = Height(lvl)
    OBVIOUS
  <1>3. /\ h \in [Node -> Nat]
        /\ \A n \in Node : \A i \in DOMAIN children[n] :
              children[n][i] \in Live /\ h[children[n][i]] < h[n]
    BY <1>2, KidsBelow
  <1>4. ASSUME NEW n \in Node, n \in Live, \A m \in Node : h[m] < h[n] => m \in G
        PROVE  Spread(zone, zone[n], SepsOf[n], LeavesOf[n])
    <2>1. /\ keys[n] \in Seq(Key) /\ children[n] \in Seq(Node)
          /\ tag[n] \in {"free", "leaf", "branch"}
          /\ tag[n] = "leaf" => children[n] = <<>>
          /\ tag[n] = "branch" => Len(children[n]) = Len(keys[n]) + 1
      BY <1>1, BlockTypes
    <2>2. SepsOf[n] = FlattenSeq(SepRows(SepsOf, keys[n], children[n]))
      BY SepsOfIs
    <2>3. LeavesOf[n] = IF tag[n] = "leaf" THEN <<n>>
                        ELSE FlattenSeq(LeafRows(LeavesOf, children[n]))
      BY LeavesOfIs
    <2>4. CASE tag[n] = "leaf"
      <3>1. \E k \in Key : k \in zone[n]
        BY <1>1, <1>4 DEF Ordered, Zones
      <3>2. Spread(zone, zone[n], <<>>, <<n>>)
        BY <2>4, <3>1, LeafSpreads DEF Leaves
      <3>3. SepRows(SepsOf, keys[n], <<>>) = <<>>
        BY DEF SepRows
      <3>4. FlattenSeq(<<>>) = <<>>
        BY EmptySeq DEF FlattenSeq
      <3> QED
        BY <2>1, <2>2, <2>3, <2>4, <3>2, <3>3, <3>4
    <2>5. CASE tag[n] = "branch"
      <3>1. Sorted(keys[n]) /\ zone[n] \in SUBSET Key
        BY <1>1, <1>4 DEF Ordered, Zones
      <3>2. Fan(zone, zone[n], keys[n], children[n])
        BY <1>1, <1>4, FanOf
      <3>3. ASSUME NEW i \in 1 .. Len(children[n])
            PROVE  Spread(zone, zone[children[n][i]], SepsOf[children[n][i]],
                          LeavesOf[children[n][i]])
        <4>1. i \in DOMAIN children[n]
          BY <2>1
        <4>2. children[n][i] \in Live /\ children[n][i] \in G
          BY <1>3, <1>4, <4>1 DEF Live
        <4> QED
          BY <4>2
      <3>4. Spread(zone, zone[n], FlattenSeq(SepRows(SepsOf, keys[n], children[n])),
                   FlattenSeq(LeafRows(LeavesOf, children[n])))
        BY <2>1, <2>5, <3>1, <3>2, <3>3, SpreadPiles
      <3> QED
        BY <2>2, <2>3, <2>5, <3>4
    <2> QED
      BY <1>4, <2>1, <2>4, <2>5 DEF Live
  <1> HIDE DEF G
  <1>5. \A n \in Node : (\A m \in Node : h[m] < h[n] => m \in G) => n \in G
    BY <1>4 DEF G
  <1>6. Node \subseteq G
    BY ONLY <1>3, <1>5, RankInduction
  <1> QED
    BY <1>6 DEF G, Live

(* A descent ends in the leaf whose zone the key is in.                    *)
LEMMA LookupsInZone ==
  ASSUME NEW lvl \in [Node -> Nat], InvAt(lvl), NEW zone \in Zones, OrderAt(lvl, zone),
         pc = "idle"
  PROVE  \A n \in Live, k \in Key :
           k \in zone[n] => LeafForKey[n][k] \in Leaves /\ k \in zone[LeafForKey[n][k]]
  <1>1. TypeOK /\ Shape /\ Ordered(zone) /\ Fanned(zone)
    BY DEF InvAt, OrderAt, Whole
  <1> DEFINE EndsIn(n, k) == LeafForKey[n][k] \in Leaves /\ k \in zone[LeafForKey[n][k]]
             G == {n \in Node : n \in Live => \A k \in Key : k \in zone[n] => EndsIn(n, k)}
  <1> HIDE DEF EndsIn
  <1>2. PICK h : h = Height(lvl)
    OBVIOUS
  <1>3. /\ h \in [Node -> Nat]
        /\ \A n \in Node : \A i \in DOMAIN children[n] :
              children[n][i] \in Live /\ h[children[n][i]] < h[n]
    BY <1>2, KidsBelow
  <1>4. ASSUME NEW n \in Node, n \in Live, \A m \in Node : h[m] < h[n] => m \in G,
               NEW k \in Key, k \in zone[n]
        PROVE  EndsIn(n, k)
    <2>1. tag[n] \in {"leaf", "branch"}
      BY <1>1, <1>4, BlockTypes DEF Live
    <2>2. LeafForKey[n][k] = IF tag[n] # "branch" THEN n
                             ELSE LeafForKey[children[n][Rank(keys[n], k) + 1]][k]
      BY LeafForKeyIs
    <2>3. CASE tag[n] = "leaf"
      BY <1>4, <2>2, <2>3 DEF EndsIn, Leaves
    <2>4. CASE tag[n] = "branch"
      <3>1. PICK i : i = Rank(keys[n], k) + 1
        OBVIOUS
      <3>2. i \in DOMAIN children[n]
        BY <1>1, <2>4, <3>1, RankIsChild
      <3>3. keys[n] \in Seq(Key) /\ Sorted(keys[n])
        BY <1>1, <1>4, BlockTypes DEF Ordered
      <3>4. k \in Slice(keys[n], i)
        BY <3>1, <3>3, RankSlice
      <3>5. i \in 1 .. Len(children[n])
        BY <1>1, <3>2, BlockTypes
      <3>6. Fan(zone, zone[n], keys[n], children[n])
        BY <1>1, <1>4, FanOf
      <3>7. k \in zone[children[n][i]]
        BY <1>4, <3>4, <3>5, <3>6 DEF Fan
      <3>8. children[n][i] \in Live /\ children[n][i] \in Node /\ children[n][i] \in G
        BY <1>3, <1>4, <3>2 DEF Live
      <3>9. EndsIn(children[n][i], k)
        BY <3>7, <3>8
      <3> QED
        BY <2>2, <2>4, <3>1, <3>9 DEF EndsIn
    <2> QED
      BY <2>1, <2>3, <2>4
  <1> HIDE DEF G
  <1>5. \A n \in Node : (\A m \in Node : h[m] < h[n] => m \in G) => n \in G
    BY <1>4 DEF G
  <1>6. Node \subseteq G
    BY ONLY <1>3, <1>5, RankInduction
  <1> QED
    BY <1>6 DEF G, Live, EndsIn

(* Ascending entry by entry is ascending.                                  *)
LEMMA SortedAscends ==
  ASSUME NEW s \in Seq(Key), Sorted(s)
  PROVE  Ascending(s)
  <1>1. Len(s) \in Nat
    OBVIOUS
  <1>2. ASSUME NEW i \in 1 .. Len(s) - 1  PROVE s[i] < s[i + 1]
    <2>1. i \in 1 .. Len(s) /\ i + 1 \in 1 .. Len(s) /\ i < i + 1
      BY <1>1
    <2> QED
      BY <2>1 DEF Sorted
  <1> QED
    BY <1>2 DEF Ascending

(* The keys S lie within the bounds b.                                     *)
Inside(S, b) == \A k \in S : /\ \A l \in b.lower : l <= k
                             /\ \A u \in b.upper : k < u

(* The separators of a branch have keys of its zone on both sides, and     *)
(* each child inherits bounds that its zone lies within.                   *)
LEMMA BranchInside ==
  ASSUME NEW zone \in Zones, NEW n \in Node, NEW b \in Limits,
         keys[n] \in Seq(Key), children[n] \in Seq(Node), Sorted(keys[n]),
         Len(children[n]) = Len(keys[n]) + 1,
         Fan(zone, zone[n], keys[n], children[n]), Filled(zone, children[n]),
         Inside(zone[n], b)
  PROVE  /\ WithinBounds(keys[n], b)
         /\ \A i \in 1 .. Len(children[n]) :
              /\ ChildLimits(n, b, i) \in Limits /\ ~ChildLimits(n, b, i).is_root
              /\ Inside(zone[children[n][i]], ChildLimits(n, b, i))
  <1> PICK ks \in Seq(Key) : ks = keys[n]
    OBVIOUS
  <1> PICK cs \in Seq(Node) : cs = children[n]
    OBVIOUS
  <1>1. /\ Len(ks) \in Nat /\ Len(cs) = Len(ks) + 1 /\ DOMAIN ks = 1 .. Len(ks)
        /\ \A i \in 1 .. Len(ks) : ks[i] \in Key /\ ks[i] \in Int
    BY KeysAreInts
  <1>2. /\ b.lower \in SUBSET Key /\ b.upper \in SUBSET Key /\ b.lower \in Bound /\ b.upper \in Bound
        /\ Key \subseteq Int /\ zone[n] \subseteq Key
    BY KeyAssumption DEF Limits, Bound, Zones
  <1>3. \A i \in 1 .. Len(cs) : \E k \in Key : k \in zone[n] /\ k \in Slice(ks, i)
    BY DEF Filled, Fan
  <1>4. ASSUME NEW i \in 1 .. Len(ks)
        PROVE  (\A l \in b.lower : ks[i] >= l) /\ (\A u \in b.upper : ks[i] < u)
    <2>1. i \in 1 .. Len(cs) /\ i + 1 \in 1 .. Len(cs) /\ i <= Len(ks) /\ i + 1 > 1 /\ (i + 1) - 1 = i
      BY <1>1
    <2>2. PICK j \in Key : j \in zone[n] /\ j \in Slice(ks, i)
      BY <1>3, <2>1
    <2>3. PICK k \in Key : k \in zone[n] /\ k \in Slice(ks, i + 1)
      BY <1>3, <2>1
    <2>4. j < ks[i] /\ ks[i] <= k
      BY <2>1, <2>2, <2>3 DEF Slice
    <2>5. ASSUME NEW l \in b.lower  PROVE ks[i] >= l
      <3>1. l <= j /\ l \in Int /\ j \in Int /\ ks[i] \in Int
        BY <1>1, <1>2, <2>2 DEF Inside
      <3> QED
        BY <2>4, <3>1
    <2>6. ASSUME NEW u \in b.upper  PROVE ks[i] < u
      <3>1. k < u /\ u \in Int /\ k \in Int /\ ks[i] \in Int
        BY <1>1, <1>2, <2>3 DEF Inside
      <3> QED
        BY <2>4, <3>1
    <2> QED
      BY <2>5, <2>6
  <1>5. WithinBounds(ks, b)
    BY <1>1, <1>4 DEF WithinBounds
  <1>6. ASSUME NEW i \in 1 .. Len(cs)
        PROVE  /\ ChildLimits(n, b, i) \in Limits /\ ~ChildLimits(n, b, i).is_root
               /\ Inside(zone[cs[i]], ChildLimits(n, b, i))
    <2> PICK c : c = ChildLimits(n, b, i)
      OBVIOUS
    <2>1. /\ c.lower = IF i = 1 THEN b.lower ELSE {ks[i - 1]}
          /\ c.upper = IF i = Len(ks) + 1 THEN b.upper ELSE {ks[i]}
          /\ c.is_root = FALSE
          /\ c = [lower |-> c.lower, upper |-> c.upper, is_root |-> c.is_root]
      BY DEF ChildLimits
    <2>2. (i # 1 => i > 1 /\ ks[i - 1] \in Key) /\ (i # Len(ks) + 1 => i <= Len(ks) /\ ks[i] \in Key)
      BY <1>1
    <2>3. c.lower \in Bound /\ c.upper \in Bound
      BY <1>2, <2>1, <2>2 DEF Bound
    <2>4. c \in Limits
      BY <2>1, <2>3 DEF Limits
    <2>5. ASSUME NEW k \in zone[cs[i]]
          PROVE  (\A l \in c.lower : l <= k) /\ (\A u \in c.upper : k < u)
      <3>1. k \in Key
        BY <2>5 DEF Zones
      <3>2. k \in zone[n] /\ k \in Slice(ks, i)
        BY <3>1, <2>5 DEF Fan
      <3>3. (i # 1 => ks[i - 1] <= k) /\ (i # Len(ks) + 1 => k < ks[i])
        BY <2>2, <3>2 DEF Slice
      <3> QED
        BY <2>1, <3>2, <3>3 DEF Inside
    <2> QED
      BY <2>1, <2>4, <2>5 DEF Inside
  <1> QED
    BY <1>5, <1>6

(* check_invariants finds nothing wrong with a node of a tree at rest.     *)
LEMMA NodesValid ==
  ASSUME LeafCap >= 2, BranchCap >= 2,
         NEW lvl \in [Node -> Nat], InvAt(lvl), NEW zone \in Zones, OrderAt(lvl, zone),
         FillInv, pc = "idle"
  PROVE  \A n \in Live, b \in Limits :
           (b.is_root \/ n # root) /\ Inside(zone[n], b) => ValidateNode[n][b]
  <1>1. TypeOK /\ Shape /\ Rooted /\ Ordered(zone) /\ Fanned(zone) /\ Whole
    BY DEF InvAt, OrderAt, Whole
  <1> DEFINE Asked(n, b) == (b.is_root \/ n # root) /\ Inside(zone[n], b)
             G == {n \in Node : n \in Live => \A b \in Limits : Asked(n, b) => ValidateNode[n][b]}
  <1>2. PICK h : h = Height(lvl)
    OBVIOUS
  <1>3. /\ h \in [Node -> Nat]
        /\ \A n \in Node : \A i \in DOMAIN children[n] :
              children[n][i] \in Live /\ h[children[n][i]] < h[n]
    BY <1>2, KidsBelow
  <1>4. ASSUME NEW n \in Node, n \in Live, n # root  PROVE keys[n] # <<>> /\ Len(keys[n]) >= MinLen(n)
    <2>1. Len(keys[n]) >= MinLen(n)
      BY <1>1, <1>4, FillBefore
    <2>2. PICK m : m = MinLen(n)
      OBVIOUS
    <2>3. m >= 1 /\ m \in Nat
      <3>1. CASE tag[n] = "leaf"
        <4>1. m = LeafCap \div 2 /\ LeafCap \in Nat
          BY <2>2, <3>1, MinLenOf, Caps
        <4> QED
          BY <4>1, LeafCap >= 2, SMT
      <3>2. CASE tag[n] # "leaf"
        BY <2>2, <3>2, MinLenOf
      <3> QED
        BY <3>1, <3>2
    <2>4. Len(keys[n]) # 0 /\ keys[n] \in Seq(Key)
      <3>1. keys[n] \in Seq(Key) /\ Len(keys[n]) \in Nat
        BY <1>1, BlockTypes
      <3> QED
        BY <2>1, <2>2, <2>3, <3>1
    <2> QED
      BY <2>1, <2>4
  <1>5. ASSUME NEW n \in Node, n \in Live, \A m \in Node : h[m] < h[n] => m \in G,
               NEW b \in Limits, Asked(n, b)
        PROVE  ValidateNode[n][b]
    <2>1. /\ keys[n] \in Seq(Key) /\ children[n] \in Seq(Node) /\ Sorted(keys[n])
          /\ tag[n] \in {"leaf", "branch"}
          /\ tag[n] = "leaf" => Len(keys[n]) <= LeafCap
          /\ tag[n] = "branch" => /\ Len(children[n]) = Len(keys[n]) + 1
                                  /\ Len(keys[n]) <= BranchCap
      BY <1>1, <1>5, BlockTypes DEF Live, Ordered
    <2>2. Ascending(keys[n])
      BY <2>1, SortedAscends
    <2>3. b.is_root \/ (keys[n] # <<>> /\ Len(keys[n]) >= MinLen(n))
      BY <1>4, <1>5
    <2>4. CASE tag[n] = "leaf"
      <3>1. Range(keys[n]) \subseteq zone[n]
        BY <1>1, <1>5, <2>4 DEF Ordered
      <3>2. \A i \in DOMAIN keys[n] : keys[n][i] \in zone[n]
        BY <2>1, <3>1, Entries
      <3>3. \A l \in b.lower, u \in b.upper : l \in Int /\ u \in Int
        BY KeyAssumption DEF Limits, Bound
      <3>4. \A i \in DOMAIN keys[n] : keys[n][i] \in Int
        BY <2>1, KeysAreInts
      <3>5. WithinBounds(keys[n], b)
        <4> SUFFICES ASSUME NEW i \in DOMAIN keys[n]
                     PROVE  (\A k \in b.lower : keys[n][i] >= k) /\ (\A k \in b.upper : keys[n][i] < k)
          BY DEF WithinBounds
        <4> PICK x : x = keys[n][i]
          OBVIOUS
        <4>1. x \in Int /\ (\A l \in b.lower : l <= x) /\ (\A u \in b.upper : x < u)
          BY <1>5, <3>2, <3>4 DEF Inside
        <4>2. \A l \in b.lower : l \in Int
          BY KeyAssumption DEF Limits, Bound
        <4> QED
          BY <4>1, <4>2
      <3>6. ValidateLeaf(n, b)
        BY <2>1, <2>2, <2>3, <2>4, <3>5, Zenon DEF ValidateLeaf, ValidateKeys
      <3> QED
        BY <2>4, <3>6, ValidateNodeIs, Zenon DEF NodeValid
    <2>5. CASE tag[n] = "branch"
      <3>1. Fan(zone, zone[n], keys[n], children[n])
        BY <1>1, <1>5, FanOf
      <3>2. Kids(n) \subseteq Live
        BY <1>1 DEF Rooted, Kids
      <3>3. Filled(zone, children[n])
        BY <1>1, <3>2, FilledChildren
      <3>4. /\ WithinBounds(keys[n], b)
            /\ \A i \in 1 .. Len(children[n]) :
                 /\ ChildLimits(n, b, i) \in Limits /\ ~ChildLimits(n, b, i).is_root
                 /\ Inside(zone[children[n][i]], ChildLimits(n, b, i))
        BY <1>5, <2>1, <2>5, <3>1, <3>3, BranchInside
      <3>5. ASSUME NEW i \in DOMAIN children[n]
            PROVE  ValidateNode[children[n][i]][ChildLimits(n, b, i)]
        <4>1. children[n][i] \in Live /\ children[n][i] \in Node /\ children[n][i] \in G
          BY <1>3, <1>5 DEF Live
        <4>2. i \in 1 .. Len(children[n])
          BY <2>1
        <4>3. children[n][i] # root
          <5>1. children[n][i] \in Range(children[n])
            BY <2>1, <4>2, Entries
          <5> QED
            BY <1>1, <5>1 DEF Rooted, Loose
        <4> QED
          BY <3>4, <4>1, <4>2, <4>3
      <3>6. ValidateBranch(n, b, ValidateNode)
        BY <2>1, <2>2, <2>3, <2>5, <3>4, <3>5, Zenon DEF ValidateBranch, ValidateKeys
      <3> QED
        BY <2>5, <3>6, ValidateNodeIs, Zenon DEF NodeValid
    <2> QED
      BY <2>1, <2>4, <2>5
  <1>6. \A n \in Node : (\A m \in Node : h[m] < h[n] => m \in G) => n \in G
    BY <1>5, Zenon
  <1> HIDE DEF G
  <1>7. Node \subseteq G
    BY ONLY <1>3, <1>6, RankInduction
  <1> QED
    BY <1>7, Zenon DEF G, Live

-----------------------------------------------------------------------------
(* The chain that check_invariants walks.                                  *)

(* Sorted keys, and more of them above, put into one sequence.             *)
LEMMA FlattenSorted ==
  ASSUME NEW ls \in Seq(Seq(Key)), \A i \in 1 .. Len(ls) : Sorted(ls[i]),
         \A i, j \in 1 .. Len(ls) : i < j => Lower(Range(ls[i]), Range(ls[j]))
  PROVE  FlattenSeq(ls) \in Seq(Key) /\ Sorted(FlattenSeq(ls))
  <1>1. CASE Len(ls) = 0
    <2>1. FlattenSeq(ls) = ls /\ ls = <<>>
      BY <1>1 DEF FlattenSeq
    <2> QED
      BY <2>1 DEF Sorted
  <1>2. CASE Len(ls) # 0
    <2> PICK z : z = Len(ls)
      OBVIOUS
    <2>1. Len(ls) >= 1 /\ z \in Nat \ {0}
      BY <1>2
    <2>2. PICK f : Piles(ls, f)
      BY <2>1, FlattenPiles
    <2>3. /\ FlattenSeq(ls) = f[z] /\ f[1] = ls[1]
          /\ \A i \in 2 .. z : f[i] = f[i - 1] \o ls[i]
      BY <2>2 DEF Piles
    <2> DEFINE Good(i) == /\ f[i] \in Seq(Key) /\ Sorted(f[i])
                          /\ \A x \in Range(f[i]) : \E m \in 1 .. i : x \in Range(ls[m])
               T == {i \in 1 .. z : ~Good(i)}
    <2> HIDE DEF Good
    <2>4. ASSUME T # {}  PROVE FALSE
      <3>1. T \subseteq Nat
        OBVIOUS
      <3>2. PICK i \in T : \A y \in T : i <= y
        BY <2>4, <3>1, LeastOf
      <3>3. i \in 1 .. z /\ ~Good(i) /\ i \in Nat
        BY <3>1, <3>2
      <3>4. ls[i] \in Seq(Key) /\ Sorted(ls[i])
        BY <3>3
      <3>5. CASE i = 1
        BY <2>3, <3>3, <3>4, <3>5, SMT DEF Good
      <3>6. CASE i # 1
        <4>1. i - 1 \in 1 .. z /\ ~(i <= i - 1) /\ i \in 2 .. z
          BY <2>1, <3>3, <3>6
        <4>2. Good(i - 1)
          BY <3>2, <4>1
        <4>3. f[i] = f[i - 1] \o ls[i]
          BY <2>3, <4>1
        <4>4. /\ f[i - 1] \in Seq(Key) /\ Sorted(f[i - 1])
              /\ \A x \in Range(f[i - 1]) : \E m \in 1 .. i - 1 : x \in Range(ls[m])
          BY <4>2 DEF Good
        <4>5. ASSUME NEW p \in 1 .. Len(f[i - 1]), NEW q \in 1 .. Len(ls[i])
              PROVE  f[i - 1][p] < ls[i][q]
          <5>1. f[i - 1][p] \in Range(f[i - 1]) /\ ls[i][q] \in Range(ls[i])
            BY <3>4, <4>4, Entries
          <5>2. PICK m \in 1 .. i - 1 : f[i - 1][p] \in Range(ls[m])
            BY <4>4, <5>1
          <5>3. m \in 1 .. Len(ls) /\ m < i /\ i \in 1 .. Len(ls)
            BY <3>3, <4>1, <5>2
          <5>4. Lower(Range(ls[m]), Range(ls[i]))
            BY <5>3
          <5> QED
            BY <5>1, <5>2, <5>4 DEF Lower
        <4>6. f[i] \in Seq(Key) /\ Sorted(f[i])
          <5>1. Sorted(f[i - 1] \o ls[i])
            BY ONLY <3>4, <4>4, <4>5, SortedConcat, Zenon
          <5>2. f[i - 1] \o ls[i] \in Seq(Key)
            BY ONLY <3>4, <4>4, ConcatType
          <5> QED
            BY ONLY <4>3, <5>1, <5>2
        <4>7. Range(f[i]) = Range(f[i - 1]) \cup Range(ls[i])
          <5>1. Joins(f[i - 1], ls[i], f[i])
            BY <3>4, <4>3, <4>4, ConcatJoins
          <5> QED
            BY <5>1 DEF Joins
        <4>8. \A m : m \in 1 .. i <=> m \in 1 .. i - 1 \/ m = i
          BY <3>3, <4>1
        <4>9. \A x \in Range(f[i]) : \E m \in 1 .. i : x \in Range(ls[m])
          BY <4>4, <4>7, <4>8
        <4> QED
          BY <3>3, <4>6, <4>9 DEF Good
      <3> QED
        BY <3>5, <3>6
    <2>5. z \in 1 .. z
      BY <2>1
    <2>6. Good(z)
      BY <2>4, <2>5
    <2> QED
      BY <2>3, <2>6 DEF Good
  <1> QED
    BY <1>1, <1>2

(* ls are the members of L, from the lowest to the highest.                *)
Lists(L, z, ls) ==
  /\ \A i \in 1 .. Len(ls) : ls[i] \in L
  /\ \A n \in L : \E i \in 1 .. Len(ls) : ls[i] = n
  /\ \A i, j \in 1 .. Len(ls) : i < j => Lower(z[ls[i]], z[ls[j]])

(* Of two leaves the one that is lower is listed first.                    *)
LEMMA ListedFirst ==
  ASSUME NEW L, NEW z, Strictly(L, z), NEW ls, Lists(L, z, ls), Len(ls) \in Nat,
         NEW i \in 1 .. Len(ls), NEW j \in 1 .. Len(ls), Lower(z[ls[i]], z[ls[j]])
  PROVE  i < j
  <1>1. ls[i] \in L /\ ls[j] \in L /\ ~Lower(z[ls[j]], z[ls[i]])
    BY DEF Lists, Strictly
  <1>2. ~(j < i)
    BY <1>1 DEF Lists
  <1>3. i # j
    BY <1>1
  <1> QED
    BY <1>2, <1>3

(* A chain links its leaves as they are listed.                            *)
LEMMA ListIsChain ==
  ASSUME NEW L, Null \notin L, NEW nx, NEW pv, NEW z, ChainOf(L, nx, pv, z), Strictly(L, z),
         NEW ls, Lists(L, z, ls), Len(ls) \in Nat, NEW i \in 1 .. Len(ls)
  PROVE  /\ pv[ls[i]] = IF i = 1 THEN Null ELSE ls[i - 1]
         /\ nx[ls[i]] = IF i = Len(ls) THEN Null ELSE ls[i + 1]
  <1> PICK n : n = ls[i]
    OBVIOUS
  <1>1. n \in L
    BY DEF Lists
  <1>2. /\ nx[n] # Null => nx[n] \in L /\ Lower(z[n], z[nx[n]])
        /\ pv[n] # Null => pv[n] \in L /\ Lower(z[pv[n]], z[n])
    BY <1>1, Mutual
  <1>3. ASSUME nx[n] # Null
        PROVE  \E j \in 1 .. Len(ls) : nx[n] = ls[j] /\ i < j
    <2>1. PICK j \in 1 .. Len(ls) : nx[n] = ls[j]
      BY <1>2, <1>3 DEF Lists
    <2> QED
      BY <1>2, <1>3, <2>1, ListedFirst
  <1>4. ASSUME pv[n] # Null
        PROVE  \E j \in 1 .. Len(ls) : pv[n] = ls[j] /\ j < i
    <2>1. PICK j \in 1 .. Len(ls) : pv[n] = ls[j]
      BY <1>2, <1>4 DEF Lists
    <2> QED
      BY <1>2, <1>4, <2>1, ListedFirst
  <1>5. nx[n] = IF i = Len(ls) THEN Null ELSE ls[i + 1]
    <2>1. CASE i = Len(ls)
      <3>1. \A j \in 1 .. Len(ls) : ~(i < j)
        BY <2>1
      <3> QED
        BY <1>3, <2>1, <3>1
    <2>2. CASE i # Len(ls)
      <3>1. i + 1 \in 1 .. Len(ls) /\ i < i + 1
        BY <2>2
      <3>2. ls[i + 1] \in L /\ Lower(z[n], z[ls[i + 1]])
        BY <3>1 DEF Lists
      <3>3. nx[n] # Null /\ (ls[i + 1] = nx[n] \/ Lower(z[nx[n]], z[ls[i + 1]]))
        BY <1>1, <3>2 DEF ChainOf
      <3>4. PICK j \in 1 .. Len(ls) : nx[n] = ls[j] /\ i < j
        BY <1>3, <3>3
      <3>5. Lower(z[nx[n]], z[ls[i + 1]]) => j < i + 1
        BY <3>1, <3>4, ListedFirst
      <3>6. ~(j < i + 1)
        BY <3>4
      <3> QED
        BY <2>2, <3>3, <3>5, <3>6
    <2> QED
      BY <2>1, <2>2
  <1>6. pv[n] = IF i = 1 THEN Null ELSE ls[i - 1]
    <2>1. CASE i = 1
      <3>1. \A j \in 1 .. Len(ls) : ~(j < i)
        BY <2>1
      <3> QED
        BY <1>4, <2>1, <3>1
    <2>2. CASE i # 1
      <3>1. i - 1 \in 1 .. Len(ls) /\ i - 1 < i
        BY <2>2
      <3>2. ls[i - 1] \in L /\ Lower(z[ls[i - 1]], z[n])
        BY <3>1 DEF Lists
      <3>3. pv[n] # Null /\ (ls[i - 1] = pv[n] \/ Lower(z[ls[i - 1]], z[pv[n]]))
        BY <1>1, <3>2 DEF ChainOf
      <3>4. PICK j \in 1 .. Len(ls) : pv[n] = ls[j] /\ j < i
        BY <1>4, <3>3
      <3>5. Lower(z[ls[i - 1]], z[pv[n]]) => i - 1 < j
        BY <3>1, <3>4, ListedFirst
      <3>6. ~(i - 1 < j)
        BY <3>4
      <3> QED
        BY <2>2, <3>3, <3>5, <3>6
    <2> QED
      BY <2>1, <2>2
  <1> QED
    BY <1>5, <1>6

(* The leaves under the root are all leaves, and as the separators between *)
(* them say.                                                               *)
LEMMA RootLists ==
  ASSUME NEW lvl \in [Node -> Nat], InvAt(lvl), NEW zone \in Zones, OrderAt(lvl, zone),
         pc = "idle", root # Null, NEW ls, ls = LeavesOf[root], NEW ss, ss = SepsOf[root]
  PROVE  /\ Spread(zone, Key, ss, ls) /\ Lists(Leaves, zone, ls)
         /\ \A n \in Leaves, k \in Key : k \in zone[n] => n = ls[Rank(ss, k) + 1]
  <1>1. /\ TypeOK /\ Shape /\ Rooted /\ Levels(lvl, tag, children)
        /\ Ordered(zone) /\ Spanned(zone) /\ OneZone(lvl, zone)
    BY DEF InvAt, OrderAt, Whole
  <1>2. root \in Live /\ zone[root] = Key
    <2>1. root \in Node /\ tag[root] # "free"
      BY <1>1 DEF Rooted, TypeOK
    <2>2. zone[root] = {k \in Key : pc = "split" /\ path = <<>> => k < sep}
      BY <1>1 DEF Spanned
    <2> QED
      BY <2>1, <2>2 DEF Live
  <1>3. Spread(zone, Key, ss, ls)
    <2>1. Spread(zone, zone[root], SepsOf[root], LeavesOf[root])
      BY <1>2, TreeSpreads
    <2> QED
      BY <1>2, <2>1
  <1>4. /\ ss \in Seq(Key) /\ Sorted(ss) /\ Len(ls) = Len(ss) + 1 /\ Len(ls) \in Nat
        /\ Len(ss) \in Nat
        /\ \A i \in 1 .. Len(ls), k \in Key : k \in zone[ls[i]] <=> k \in Slice(ss, i)
        /\ \A i \in 1 .. Len(ls) : ls[i] \in Leaves
    BY <1>3, KeysAreInts DEF Spread, Fan
  <1>5. \A n \in Leaves : n \in Node /\ n \in Live /\ lvl[n] = 0
    BY <1>1, LeafLevel DEF Leaves, Live
  <1>6. ASSUME NEW n \in Leaves, NEW k \in Key, k \in zone[n]
        PROVE  Rank(ss, k) + 1 \in 1 .. Len(ls) /\ n = ls[Rank(ss, k) + 1]
    <2> PICK r : r = Rank(ss, k) + 1
      OBVIOUS
    <2>1. r \in 1 .. Len(ls) /\ k \in Slice(ss, r)
      BY <1>4, RankSlice
    <2>2. k \in zone[ls[r]] /\ ls[r] \in Leaves
      BY <1>4, <2>1
    <2>3. n = ls[r]
      BY <1>1, <1>5, <1>6, <2>2 DEF OneZone
    <2> QED
      BY <2>1, <2>3
  <1>7. ASSUME NEW n \in Leaves  PROVE \E i \in 1 .. Len(ls) : ls[i] = n
    <2>1. PICK k \in Key : k \in zone[n]
      BY <1>1, <1>5 DEF Ordered, Zones
    <2> QED
      BY <1>6, <2>1
  <1>8. ASSUME NEW i \in 1 .. Len(ls), NEW j \in 1 .. Len(ls), i < j
        PROVE  Lower(zone[ls[i]], zone[ls[j]])
    <2> SUFFICES ASSUME NEW a \in zone[ls[i]], NEW b \in zone[ls[j]]  PROVE a < b
      BY DEF Lower
    <2>1. a \in Key /\ b \in Key /\ a \in Int /\ b \in Int
      BY <1>4, <1>5, KeyAssumption DEF Zones
    <2>2. a \in Slice(ss, i) /\ b \in Slice(ss, j)
      BY <1>4, <2>1
    <2>3. i \in 1 .. Len(ss) /\ j - 1 \in 1 .. Len(ss) /\ j > 1 /\ i <= Len(ss) /\ i <= j - 1
      BY <1>4, <1>8
    <2>4. ss[i] \in Int /\ ss[j - 1] \in Int
      BY <1>4, <2>3, KeysAreInts
    <2>5. a < ss[i] /\ ss[j - 1] <= b
      BY <2>2, <2>3 DEF Slice
    <2>6. ss[i] <= ss[j - 1]
      <3> PICK p : p = j - 1
        OBVIOUS
      <3>1. p \in 1 .. Len(ss) /\ (i = p \/ i < p)
        BY ONLY <2>3, p = j - 1, <1>4
      <3>2. i < p => ss[i] < ss[p]
        BY <1>4, <2>3, <3>1 DEF Sorted
      <3> QED
        BY <2>4, <3>1, <3>2
    <2> QED
      BY <2>1, <2>4, <2>5, <2>6
  <1> QED
    BY <1>3, <1>4, <1>6, <1>7, <1>8 DEF Lists

(* A tree at rest has a chain that check_invariants accepts.               *)
LEMMA ChainValid ==
  ASSUME NEW lvl \in [Node -> Nat], InvAt(lvl), NEW zone \in Zones, OrderAt(lvl, zone),
         ChainAt(zone), pc = "idle", root # Null, NEW ls, ls = LeavesOf[root]
  PROVE  ValidateChain(ls)
  <1>1. /\ Spread(zone, Key, SepsOf[root], ls) /\ Lists(Leaves, zone, ls)
    BY RootLists
  <1>2. ls \in Seq(Node) /\ Len(ls) \in Nat /\ DOMAIN ls = 1 .. Len(ls)
    BY <1>1 DEF Spread
  <1>3. /\ ChainOf(Leaves, next, prev, zone) /\ Strictly(Leaves, zone) /\ Null \notin Leaves
        /\ Filed(zone)
    BY ChainFacts DEF ChainAt
  <1>4. \A i \in DOMAIN ls :
          /\ prev[ls[i]] = IF i = 1 THEN Null ELSE ls[i - 1]
          /\ next[ls[i]] = IF i = Len(ls) THEN Null ELSE ls[i + 1]
    BY <1>1, <1>2, <1>3, ListIsChain
  <1> PICK rows : rows = [i \in DOMAIN ls |-> keys[ls[i]]]
    OBVIOUS
  <1>5. \A i \in 1 .. Len(ls) :
          /\ rows[i] = keys[ls[i]] /\ rows[i] \in Seq(Key) /\ Sorted(rows[i])
          /\ Range(rows[i]) \subseteq zone[ls[i]]
    <2> TAKE i \in 1 .. Len(ls)
    <2>1. ls[i] \in Leaves /\ ls[i] \in Node
      BY <1>1, <1>2 DEF Lists
    <2>2. TypeOK /\ Shape
      BY DEF InvAt
    <2>3. rows[i] = keys[ls[i]]
      BY <1>2
    <2>4. keys[ls[i]] \in Seq(Key)
      BY <2>1, <2>2, BlockTypes
    <2>5. Sorted(keys[ls[i]]) /\ Range(keys[ls[i]]) \subseteq zone[ls[i]]
      BY <1>3, <2>1 DEF Filed
    <2> QED
      BY <2>3, <2>4, <2>5, Zenon
  <1>6. rows \in Seq(Seq(Key)) /\ Len(rows) = Len(ls)
    <2>1. rows \in [1 .. Len(ls) -> Seq(Key)]
      BY <1>2, <1>5
    <2> QED
      BY <1>2, <2>1
  <1>7. \A i, j \in 1 .. Len(rows) : i < j => Lower(Range(rows[i]), Range(rows[j]))
    <2> TAKE i, j \in 1 .. Len(rows)
    <2>1. i < j => Lower(zone[ls[i]], zone[ls[j]])
      BY <1>1, <1>6 DEF Lists
    <2>2. Range(rows[i]) \subseteq zone[ls[i]] /\ Range(rows[j]) \subseteq zone[ls[j]]
      BY <1>5, <1>6
    <2> QED
      BY ONLY <2>1, <2>2, Zenon DEF Lower
  <1>8. FlattenSeq(rows) \in Seq(Key) /\ Sorted(FlattenSeq(rows))
    <2>1. \A i \in 1 .. Len(rows) : Sorted(rows[i])
      BY <1>5, <1>6
    <2> QED
      BY <1>6, <1>7, <2>1, FlattenSorted
  <1>9. Ascending(FlattenSeq(rows))
    BY <1>8, SortedAscends
  <1> QED
    BY <1>4, <1>9, Zenon DEF ValidateChain

-----------------------------------------------------------------------------
(* Between calls.                                                          *)

(* Whatever the keys, the pool and the capacities from two up, every       *)
(* sequence of calls leaves a tree that check_invariants accepts.  With    *)
(* room for one key alone a split leaves a node that is empty.             *)
THEOREM ChecksAlwaysPass ==
  ASSUME LeafCap >= 2, BranchCap >= 2
  PROVE  Spec => []ValidBetweenCalls
  <1>1. Init => OrderInv /\ FillInv
    BY InitOrder, InitFill
  <1>2. OrderInv /\ FillInv /\ [Next]_vars => OrderInv' /\ FillInv'
    BY NextOrderKept, NextFill
  <1>3. ChainInv /\ FillInv => ValidBetweenCalls
    <2> SUFFICES ASSUME ChainInv, FillInv, pc = "idle", root # Null
                 PROVE  ValidateRoot /\ ValidateChain(LeavesOf[root])
      BY DEF ValidBetweenCalls, check_invariants
    <2>1. PICK lvl \in [Node -> Nat], zone \in Zones :
             InvAt(lvl) /\ OrderAt(lvl, zone) /\ ChainAt(zone)
      BY DEF ChainInv, Zones
    <2>2. ValidateChain(LeavesOf[root])
      BY <2>1, ChainValid
    <2>3. root \in Live
      BY <2>1 DEF InvAt, Rooted, TypeOK, Live
    <2> PICK b : b = [lower |-> {}, upper |-> {}, is_root |-> TRUE]
      OBVIOUS
    <2>4. b \in Limits /\ b.is_root /\ Inside(zone[root], b)
      BY DEF Limits, Bound, Inside
    <2>5. ValidateNode[root][b]
      BY <2>1, <2>3, <2>4, NodesValid
    <2> QED
      BY <2>2, <2>5 DEF ValidateRoot
  <1>4. Spec => []ChainInv
    BY ChainInvariant
  <1> QED
    BY <1>1, <1>2, <1>3, <1>4, PTL DEF Spec

(* Whatever the keys, the pool and the capacities, between calls a descent *)
(* for any key ends in the leaf of the chain that the separators single    *)
(* out, and a leaf holds only keys that are looked for there: what module  *)
(* Items takes the tree for.                                               *)
THEOREM LookupsAlwaysMeetChain == Spec => []LookupsMeetChain
  <1>1. OrderInv => LookupsMeetChain
    <2> SUFFICES ASSUME OrderInv, pc = "idle", root # Null,
                        NEW ls, ls = LeavesOf[root], NEW ss, ss = SepsOf[root]
                 PROVE  /\ Len(ls) = Len(ss) + 1 /\ Ascending(ss)
                        /\ \A k \in Key : LeafForKey[root][k] = ls[Rank(ss, k) + 1]
                        /\ \A n \in Range(ls) : \A k \in Range(keys[n]) : LeafForKey[root][k] = n
      BY Zenon DEF LookupsMeetChain
    <2>1. PICK lvl \in [Node -> Nat], zone \in Zones : InvAt(lvl) /\ OrderAt(lvl, zone)
      BY DEF OrderInv, Zones
    <2>2. /\ Spread(zone, Key, ss, ls) /\ Lists(Leaves, zone, ls)
          /\ \A n \in Leaves, k \in Key : k \in zone[n] => n = ls[Rank(ss, k) + 1]
      BY <2>1, RootLists
    <2>3. /\ ss \in Seq(Key) /\ Sorted(ss) /\ ls \in Seq(Node) /\ Len(ls) = Len(ss) + 1
      BY <2>2 DEF Spread
    <2>4. Ascending(ss)
      BY <2>3, SortedAscends
    <2>5. TypeOK /\ Shape /\ Rooted /\ Spanned(zone) /\ Ordered(zone)
      BY <2>1 DEF InvAt, OrderAt, Whole
    <2>6. root \in Live /\ zone[root] = Key
      <3>1. root \in Live
        BY <2>5 DEF Rooted, TypeOK, Live
      <3>2. zone[root] = {k \in Key : pc = "split" /\ path = <<>> => k < sep}
        BY <2>5 DEF Spanned
      <3> QED
        BY <3>1, <3>2
    <2>7. ASSUME NEW k \in Key
          PROVE  /\ LeafForKey[root][k] = ls[Rank(ss, k) + 1]
                 /\ \A n \in Leaves : k \in zone[n] => LeafForKey[root][k] = n
      <3>1. LeafForKey[root][k] \in Leaves /\ k \in zone[LeafForKey[root][k]]
        BY <2>1, <2>6, LookupsInZone
      <3> QED
        BY <2>2, <3>1
    <2>8. ASSUME NEW n \in Range(ls), NEW k \in Range(keys[n])
          PROVE  LeafForKey[root][k] = n
      <3>1. n \in Leaves
        <4>1. PICK i \in 1 .. Len(ls) : n = ls[i]
          BY <2>3, Entries
        <4> QED
          BY <2>2, <4>1 DEF Lists
      <3>2. n \in Live /\ tag[n] = "leaf" /\ n \in Node
        BY <3>1 DEF Leaves, Live
      <3>3. k \in zone[n]
        BY <2>5, <3>2 DEF Ordered
      <3>4. k \in Key
        BY <3>2, <3>3 DEF Zones
      <3> QED
        BY <2>7, <3>1, <3>3, <3>4
    <2> QED
      BY <2>3, <2>4, <2>7, <2>8
  <1>2. Init => OrderInv
    BY InitOrder
  <1>3. OrderInv /\ [Next]_vars => OrderInv'
    BY NextOrderKept
  <1> QED
    BY <1>1, <1>2, <1>3, PTL DEF Spec

=============================================================================
