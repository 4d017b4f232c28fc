--------------------------- MODULE NodeOps_proofs ---------------------------
(***************************************************************************)
(* Proofs of the pure operators of NodeOps, for nodes of any length, and   *)
(* what the sequence operators they are built from return: membership,     *)
(* length and entries, each stated once for use by name in other proofs.   *)
(***************************************************************************)
EXTENDS NodeOps, SequenceTheorems, FiniteSetTheorems, TLAPS

-----------------------------------------------------------------------------
(* Sequences.                                                              *)

(* Concatenation of two sequences.                                         *)
LEMMA Concat ==
  ASSUME NEW S, NEW s \in Seq(S), NEW t \in Seq(S)
  PROVE  /\ s \o t \in Seq(S)
         /\ Len(s \o t) = Len(s) + Len(t)
         /\ \A j \in 1 .. Len(s) : (s \o t)[j] = s[j]
         /\ \A j \in Len(s) + 1 .. Len(s) + Len(t) : (s \o t)[j] = t[j - Len(s)]
  BY ConcatProperties, SMT

(* Named, for a prover that looks for a formula and not for an equation.   *)
Associative(s, t, u) == (s \o t) \o u = s \o (t \o u)

LEMMA ConcatAssoc ==
  ASSUME NEW S, NEW s \in Seq(S), NEW t \in Seq(S), NEW u \in Seq(S)
  PROVE  Associative(s, t, u)
  BY ConcatAssociative DEF Associative

(* A piece of a sequence, possibly empty.                                  *)
LEMMA Piece ==
  ASSUME NEW S, NEW s \in Seq(S),
         NEW m \in 1 .. Len(s) + 1, NEW n \in m - 1 .. Len(s)
  PROVE  /\ SubSeq(s, m, n) \in Seq(S)
         /\ Len(SubSeq(s, m, n)) = n - m + 1
         /\ \A j \in 1 .. n - m + 1 : SubSeq(s, m, n)[j] = s[m + j - 1]
  BY SMT

LEMMA Prefix ==
  ASSUME NEW S, NEW s \in Seq(S), NEW n \in 0 .. Len(s)
  PROVE  /\ SubSeq(s, 1, n) \in Seq(S)
         /\ Len(SubSeq(s, 1, n)) = n
         /\ \A j \in 1 .. n : SubSeq(s, 1, n)[j] = s[j]
  BY SMT

LEMMA Suffix ==
  ASSUME NEW S, NEW s \in Seq(S), NEW m \in 1 .. Len(s) + 1
  PROVE  /\ SubSeq(s, m, Len(s)) \in Seq(S)
         /\ Len(SubSeq(s, m, Len(s))) = Len(s) - m + 1
         /\ \A j \in 1 .. Len(s) - m + 1 : SubSeq(s, m, Len(s))[j] = s[j + m - 1]
  BY SMT

(* A sequence of one entry.                                                *)
LEMMA Single ==
  ASSUME NEW S, NEW e \in S
  PROVE  <<e>> \in Seq(S) /\ Len(<<e>>) = 1 /\ <<e>>[1] = e
  BY SMT

(* An entry goes in before position i.                                     *)
LEMMA Inserted ==
  ASSUME NEW S, NEW s \in Seq(S), NEW i \in 1 .. Len(s) + 1, NEW e \in S
  PROVE  /\ InsertAt(s, i, e) \in Seq(S)
         /\ Len(InsertAt(s, i, e)) = Len(s) + 1
         /\ \A j \in 1 .. i - 1 : InsertAt(s, i, e)[j] = s[j]
         /\ InsertAt(s, i, e)[i] = e
         /\ \A j \in i + 1 .. Len(s) + 1 : InsertAt(s, i, e)[j] = s[j - 1]
  <1> DEFINE a == SubSeq(s, 1, i - 1)
             b == a \o <<e>>
             c == SubSeq(s, i, Len(s))
  <1>1. i - 1 \in 0 .. Len(s)
    BY SMT
  <1>2. a \in Seq(S) /\ Len(a) = i - 1 /\ \A j \in 1 .. i - 1 : a[j] = s[j]
    BY <1>1, Prefix
  <1>3. /\ c \in Seq(S) /\ Len(c) = Len(s) - i + 1
        /\ \A j \in 1 .. Len(s) - i + 1 : c[j] = s[j + i - 1]
    BY Suffix
  <1>4. InsertAt(s, i, e) = b \o c
    BY DEF InsertAt
  <1> HIDE DEF a, c
  <1>5. b \in Seq(S) /\ Len(b) = i /\ b[i] = e /\ \A j \in 1 .. i - 1 : b[j] = s[j]
    <2> DEFINE t == <<e>>
    <2>1. t \in Seq(S) /\ Len(t) = 1 /\ t[1] = e
      BY Single
    <2> HIDE DEF t
    <2>2. /\ a \o t \in Seq(S)
          /\ Len(a \o t) = Len(a) + Len(t)
          /\ \A j \in 1 .. Len(a) : (a \o t)[j] = a[j]
          /\ \A j \in Len(a) + 1 .. Len(a) + Len(t) : (a \o t)[j] = t[j - Len(a)]
      BY <1>2, <2>1, Concat
    <2>3. b = a \o t
      BY DEF t
    <2> HIDE DEF b
    <2>4. i \in Len(a) + 1 .. Len(a) + Len(t) /\ i - Len(a) = 1
      BY <1>2, <2>1, SMT
    <2> QED
      BY <1>2, <2>1, <2>2, <2>3, <2>4, SMT
  <1> HIDE DEF b
  <1>6. /\ b \o c \in Seq(S)
        /\ Len(b \o c) = Len(b) + Len(c)
        /\ \A j \in 1 .. Len(b) : (b \o c)[j] = b[j]
        /\ \A j \in Len(b) + 1 .. Len(b) + Len(c) : (b \o c)[j] = c[j - Len(b)]
    BY <1>3, <1>5, Concat
  <1> QED
    BY <1>3, <1>4, <1>5, <1>6, SMTT(30)

LEMMA InsertedType ==
  ASSUME NEW S, NEW s \in Seq(S), NEW i \in 1 .. Len(s) + 1, NEW e \in S
  PROVE  InsertAt(s, i, e) \in Seq(S) /\ Len(InsertAt(s, i, e)) = Len(s) + 1
  BY Inserted

LEMMA ConcatType ==
  ASSUME NEW S, NEW s \in Seq(S), NEW t \in Seq(S)
  PROVE  s \o t \in Seq(S) /\ Len(s \o t) = Len(s) + Len(t)
  BY Concat

(* The entry at position i goes out.                                       *)
LEMMA Removed ==
  ASSUME NEW S, NEW s \in Seq(S), NEW i \in 1 .. Len(s)
  PROVE  /\ RemoveAt(s, i) \in Seq(S)
         /\ Len(RemoveAt(s, i)) = Len(s) - 1
         /\ \A j \in 1 .. i - 1 : RemoveAt(s, i)[j] = s[j]
         /\ \A j \in i .. Len(s) - 1 : RemoveAt(s, i)[j] = s[j + 1]
  <1> DEFINE a == SubSeq(s, 1, i - 1)
             c == SubSeq(s, i + 1, Len(s))
  <1>1. i - 1 \in 0 .. Len(s) /\ i + 1 \in 1 .. Len(s) + 1
    BY SMT
  <1>2. a \in Seq(S) /\ Len(a) = i - 1 /\ \A j \in 1 .. i - 1 : a[j] = s[j]
    BY <1>1, Prefix
  <1>3. /\ c \in Seq(S) /\ Len(c) = Len(s) - (i + 1) + 1
        /\ \A j \in 1 .. Len(s) - (i + 1) + 1 : c[j] = s[j + (i + 1) - 1]
    BY <1>1, Suffix
  <1>4. RemoveAt(s, i) = a \o c
    BY DEF RemoveAt
  <1> HIDE DEF a, c
  <1>5. /\ a \o c \in Seq(S)
        /\ Len(a \o c) = Len(a) + Len(c)
        /\ \A j \in 1 .. Len(a) : (a \o c)[j] = a[j]
        /\ \A j \in Len(a) + 1 .. Len(a) + Len(c) : (a \o c)[j] = c[j - Len(a)]
    BY <1>2, <1>3, Concat
  <1> QED
    BY <1>2, <1>3, <1>4, <1>5, SMTT(30)

(* The entry at position i is replaced.                                    *)
LEMMA Replaced ==
  ASSUME NEW S, NEW s \in Seq(S), NEW i \in 1 .. Len(s), NEW e \in S
  PROVE  /\ [s EXCEPT ![i] = e] \in Seq(S)
         /\ Len([s EXCEPT ![i] = e]) = Len(s)
         /\ s[i] \in S
  BY SMT

(* The first or the last entry of a sequence goes out.                     *)
LEMMA Ends ==
  ASSUME NEW S, NEW s \in Seq(S), Len(s) >= 1
  PROVE  /\ Front(s) \in Seq(S) /\ Len(Front(s)) = Len(s) - 1
         /\ \A j \in 1 .. Len(s) - 1 : Front(s)[j] = s[j]
         /\ Tail(s) \in Seq(S) /\ Len(Tail(s)) = Len(s) - 1
         /\ \A j \in 1 .. Len(s) - 1 : Tail(s)[j] = s[j + 1]
         /\ Last(s) = s[Len(s)] /\ Last(s) \in S
         /\ Head(s) = s[1] /\ Head(s) \in S
  <1>1. /\ Front(s) \in Seq(S) /\ Len(Front(s)) = Len(s) - 1
        /\ \A j \in 1 .. Len(s) - 1 : Front(s)[j] = s[j]
    <2>1. Len(s) - 1 \in 0 .. Len(s)
      BY SMT
    <2> QED
      BY <2>1, Prefix DEF Front
  <1>2. /\ Tail(s) \in Seq(S) /\ Len(Tail(s)) = Len(s) - 1
        /\ \A j \in 1 .. Len(s) - 1 : Tail(s)[j] = s[j + 1]
    BY SMT
  <1>3. Last(s) = s[Len(s)] /\ Last(s) \in S /\ Head(s) = s[1] /\ Head(s) \in S
    BY SMT DEF Last
  <1> QED
    BY <1>1, <1>2, <1>3

(* An entry goes in at the front or at the end.                            *)
LEMMA Pushed ==
  ASSUME NEW S, NEW s \in Seq(S), NEW e \in S
  PROVE  /\ <<e>> \o s \in Seq(S) /\ Len(<<e>> \o s) = Len(s) + 1
         /\ (<<e>> \o s)[1] = e
         /\ \A j \in 2 .. Len(s) + 1 : (<<e>> \o s)[j] = s[j - 1]
         /\ Append(s, e) \in Seq(S) /\ Len(Append(s, e)) = Len(s) + 1
         /\ \A j \in 1 .. Len(s) : Append(s, e)[j] = s[j]
         /\ Append(s, e)[Len(s) + 1] = e
  <1>1. /\ <<e>> \o s \in Seq(S) /\ Len(<<e>> \o s) = Len(s) + 1
        /\ (<<e>> \o s)[1] = e
        /\ \A j \in 2 .. Len(s) + 1 : (<<e>> \o s)[j] = s[j - 1]
    BY Concat, Single, SMT
  <1>2. /\ Append(s, e) \in Seq(S) /\ Len(Append(s, e)) = Len(s) + 1
        /\ \A j \in 1 .. Len(s) : Append(s, e)[j] = s[j]
        /\ Append(s, e)[Len(s) + 1] = e
    BY SMT
  <1> QED
    BY <1>1, <1>2

(* A piece of a piece.                                                    *)
LEMMA SubOfSub ==
  ASSUME NEW S, NEW s \in Seq(S),
         NEW m \in 1 .. Len(s) + 1, NEW n \in m - 1 .. Len(s),
         NEW i \in 1 .. n - m + 2, NEW j \in i - 1 .. n - m + 1
  PROVE  SubSeq(SubSeq(s, m, n), i, j) = SubSeq(s, m + i - 1, m + j - 1)
  <1> DEFINE b == SubSeq(s, m, n)
             t == SubSeq(b, i, j)
             u == SubSeq(s, m + i - 1, m + j - 1)
  <1>1. /\ b \in Seq(S) /\ Len(b) = n - m + 1
        /\ \A h \in 1 .. n - m + 1 : b[h] = s[m + h - 1]
    BY Piece
  <1> HIDE DEF b
  <1>2. i \in 1 .. Len(b) + 1 /\ j \in i - 1 .. Len(b)
    BY <1>1, SMT
  <1>3. /\ t \in Seq(S) /\ Len(t) = j - i + 1
        /\ \A h \in 1 .. j - i + 1 : t[h] = b[i + h - 1]
    BY <1>1, <1>2, Piece
  <1>4. /\ u \in Seq(S) /\ Len(u) = j - i + 1
        /\ \A h \in 1 .. j - i + 1 : u[h] = s[m + i - 1 + h - 1]
    BY SMT
  <1> HIDE DEF t, u
  <1>5. ASSUME NEW h \in 1 .. Len(t)  PROVE  t[h] = u[h]
    <2>1. i + h - 1 \in 1 .. n - m + 1 /\ h \in 1 .. j - i + 1
      BY <1>3, SMT
    <2>2. t[h] = b[i + h - 1] /\ b[i + h - 1] = s[m + (i + h - 1) - 1]
      BY <1>1, <1>3, <2>1
    <2>3. m + (i + h - 1) - 1 = m + i - 1 + h - 1
      BY <2>1, SMT
    <2> QED
      BY <1>4, <2>1, <2>2, <2>3
  <1>6. t = u
    BY <1>3, <1>4, <1>5, SeqEqual
  <1> QED
    BY <1>6 DEF t, u, b

(* Two pieces that meet.                                                   *)
LEMMA SubsJoin ==
  ASSUME NEW S, NEW s \in Seq(S),
         NEW m \in 1 .. Len(s) + 1, NEW n \in m - 1 .. Len(s), NEW q \in n .. Len(s)
  PROVE  SubSeq(s, m, n) \o SubSeq(s, n + 1, q) = SubSeq(s, m, q)
  <1> DEFINE k == n + 1
             a == SubSeq(s, m, n)
             b == SubSeq(s, k, q)
             u == SubSeq(s, m, q)
  <1>1. k \in 1 .. Len(s) + 1 /\ q \in k - 1 .. Len(s) /\ q \in m - 1 .. Len(s) /\ k = n + 1
    BY SMT
  <1> HIDE DEF k
  <1>2. /\ a \in Seq(S) /\ Len(a) = n - m + 1
        /\ \A h \in 1 .. n - m + 1 : a[h] = s[m + h - 1]
    BY Piece
  <1>3. /\ b \in Seq(S) /\ Len(b) = q - k + 1
        /\ \A h \in 1 .. q - k + 1 : b[h] = s[k + h - 1]
    BY <1>1, Piece
  <1>4. /\ u \in Seq(S) /\ Len(u) = q - m + 1
        /\ \A h \in 1 .. q - m + 1 : u[h] = s[m + h - 1]
    BY <1>1, Piece
  <1> HIDE DEF a, b, u
  <1>5. /\ a \o b \in Seq(S) /\ Len(a \o b) = Len(a) + Len(b)
        /\ \A h \in 1 .. Len(a) : (a \o b)[h] = a[h]
        /\ \A h \in Len(a) + 1 .. Len(a) + Len(b) : (a \o b)[h] = b[h - Len(a)]
    BY <1>2, <1>3, Concat
  <1>6. Len(a \o b) = Len(u)
    BY <1>1, <1>2, <1>3, <1>4, <1>5, SMT
  <1>7. ASSUME NEW h \in 1 .. Len(u)  PROVE  (a \o b)[h] = u[h]
    <2>1. CASE h <= Len(a)
      <3>1. h \in 1 .. Len(a) /\ h \in 1 .. n - m + 1 /\ h \in 1 .. q - m + 1
        BY <1>2, <1>4, <2>1, SMT
      <3> QED
        BY <1>2, <1>4, <1>5, <3>1
    <2>2. CASE h > Len(a)
      <3> DEFINE i == h - Len(a)
      <3>1. h \in Len(a) + 1 .. Len(a) + Len(b) /\ h \in 1 .. q - m + 1
            /\ i \in 1 .. q - k + 1 /\ k + i - 1 = m + h - 1
        BY <1>1, <1>2, <1>3, <1>4, <2>2, SMT
      <3>2. (a \o b)[h] = b[i]
        BY <1>5, <3>1
      <3> HIDE DEF i
      <3> QED
        BY <1>3, <1>4, <3>1, <3>2
    <2>3. h <= Len(a) \/ h > Len(a)
      BY <1>2, <1>4, SMT
    <2> QED
      BY <2>1, <2>2, <2>3
  <1>8. a \o b = u
    BY <1>4, <1>5, <1>6, <1>7, SeqEqual
  <1> QED
    BY <1>8 DEF a, b, u, k

-----------------------------------------------------------------------------
(* What the operators do to the entries as a set, and to their being       *)
(* distinct.                                                               *)

(* The entries of a sequence.                                              *)
LEMMA Entries ==
  ASSUME NEW S, NEW s \in Seq(S)
  PROVE  /\ DOMAIN s = 1 .. Len(s) /\ Range(s) \subseteq S
         /\ \A i \in 1 .. Len(s) : s[i] \in Range(s)
         /\ \A x \in Range(s) : \E i \in 1 .. Len(s) : x = s[i]
         /\ IsInjective(s) <=> \A i, j \in 1 .. Len(s) : s[i] = s[j] => i = j
  <1>1. DOMAIN s = 1 .. Len(s) /\ \A i \in 1 .. Len(s) : s[i] \in S
    BY SMT
  <1>2. Range(s) = {s[i] : i \in 1 .. Len(s)}
    BY <1>1 DEF Range
  <1>3. IsInjective(s) <=> \A i, j \in 1 .. Len(s) : s[i] = s[j] => i = j
    BY <1>1 DEF IsInjective
  <1> QED
    BY <1>1, <1>2, <1>3

(* u has the entries of s and those of t, each as often as they have it.   *)
Joins(s, t, u) ==
  /\ \A x : x \in Range(u) <=> x \in Range(s) \/ x \in Range(t)
  /\ IsInjective(u) <=> /\ IsInjective(s) /\ IsInjective(t)
                        /\ \A x \in Range(s) : x \notin Range(t)

LEMMA ConcatJoins ==
  ASSUME NEW S, NEW s \in Seq(S), NEW t \in Seq(S)
  PROVE  Joins(s, t, s \o t)
  <1> DEFINE u == s \o t
  <1>1. /\ u \in Seq(S)
        /\ Len(u) = Len(s) + Len(t)
        /\ \A j \in 1 .. Len(s) : u[j] = s[j]
        /\ \A j \in Len(s) + 1 .. Len(s) + Len(t) : u[j] = t[j - Len(s)]
    BY Concat
  <1> HIDE DEF u
  <1>0. Len(s) \in Nat /\ Len(t) \in Nat
    BY SMT
  <1>2. \A j \in 1 .. Len(t) : u[Len(s) + j] = t[j] /\ Len(s) + j \in 1 .. Len(u)
    <2> TAKE j \in 1 .. Len(t)
    <2>1. PICK q \in Len(s) + 1 .. Len(s) + Len(t) : q = Len(s) + j /\ q - Len(s) = j
      BY <1>0, SMT
    <2>2. q \in 1 .. Len(u)
      BY <1>0, <1>1, <2>1, SMT
    <2>3. u[q] = t[q - Len(s)]
      BY ONLY <1>1, <2>1, Zenon
    <2> QED
      BY ONLY <2>1, <2>2, <2>3, Zenon
  <1>3. \A j \in 1 .. Len(s) : u[j] = s[j] /\ j \in 1 .. Len(u)
    BY <1>0, <1>1, SMT
  <1>4. \A j \in 1 .. Len(u) : \/ j \in 1 .. Len(s)
                               \/ j - Len(s) \in 1 .. Len(t) /\ j = Len(s) + (j - Len(s))
    BY <1>0, <1>1, SMT
  <1>5. /\ \A i \in 1 .. Len(s) : s[i] \in Range(s)
        /\ \A x \in Range(s) : \E i \in 1 .. Len(s) : x = s[i]
        /\ IsInjective(s) <=> \A i, j \in 1 .. Len(s) : s[i] = s[j] => i = j
    BY Entries
  <1>6. /\ \A i \in 1 .. Len(t) : t[i] \in Range(t)
        /\ \A x \in Range(t) : \E i \in 1 .. Len(t) : x = t[i]
        /\ IsInjective(t) <=> \A i, j \in 1 .. Len(t) : t[i] = t[j] => i = j
    BY Entries
  <1>7. /\ \A i \in 1 .. Len(u) : u[i] \in Range(u)
        /\ \A x \in Range(u) : \E i \in 1 .. Len(u) : x = u[i]
        /\ IsInjective(u) <=> \A i, j \in 1 .. Len(u) : u[i] = u[j] => i = j
    BY <1>1, Entries
  <1>8. ASSUME NEW x  PROVE x \in Range(u) <=> x \in Range(s) \/ x \in Range(t)
    <2>1. ASSUME x \in Range(u)  PROVE x \in Range(s) \/ x \in Range(t)
      <3>1. PICK j \in 1 .. Len(u) : x = u[j]
        BY <1>7, <2>1
      <3>2. ASSUME j \in 1 .. Len(s) PROVE x \in Range(s)
        BY <1>3, <1>5, <3>1, <3>2
      <3>3. ASSUME j - Len(s) \in 1 .. Len(t), j = Len(s) + (j - Len(s))
            PROVE  x \in Range(t)
        <4>1. u[Len(s) + (j - Len(s))] = t[j - Len(s)]
          BY <1>2, <3>3
        <4> QED
          BY <1>6, <3>1, <3>3, <4>1
      <3> QED
        BY <1>4, <3>2, <3>3
    <2>2. ASSUME x \in Range(s)  PROVE x \in Range(u)
      BY <1>3, <1>5, <1>7, <2>2
    <2>3. ASSUME x \in Range(t)  PROVE x \in Range(u)
      BY <1>2, <1>6, <1>7, <2>3, SMTT(30)
    <2> QED
      BY <2>1, <2>2, <2>3
  <1>9. ASSUME IsInjective(u)
        PROVE  /\ IsInjective(s) /\ IsInjective(t)
               /\ \A x \in Range(s) : x \notin Range(t)
    <2>1. ASSUME NEW i \in 1 .. Len(s), NEW j \in 1 .. Len(s), s[i] = s[j]
          PROVE  i = j
      BY <1>3, <1>7, <1>9, <2>1
    <2>2. ASSUME NEW i \in 1 .. Len(t), NEW j \in 1 .. Len(t), t[i] = t[j]
          PROVE  i = j
      <3>1. Len(s) + i = Len(s) + j
        BY <1>2, <1>7, <1>9, <2>2
      <3> QED
        BY <1>0, <3>1, SMT
    <2>3. ASSUME NEW x \in Range(s), x \in Range(t)  PROVE FALSE
      <3>1. PICK i \in 1 .. Len(s) : x = s[i]
        BY <1>5
      <3>2. PICK j \in 1 .. Len(t) : x = t[j]
        BY <1>6, <2>3
      <3>3. /\ u[i] = x /\ i \in 1 .. Len(u)
            /\ u[Len(s) + j] = x /\ Len(s) + j \in 1 .. Len(u)
        BY <1>2, <1>3, <3>1, <3>2
      <3>4. \A p, q \in 1 .. Len(u) : u[p] = u[q] => p = q
        BY <1>7, <1>9
      <3>5. i = Len(s) + j
        BY <3>3, <3>4
      <3> QED
        BY <1>0, <3>5, SMT
    <2> QED
      BY <1>5, <1>6, <2>1, <2>2, <2>3
  <1>10. ASSUME IsInjective(s), IsInjective(t), \A x \in Range(s) : x \notin Range(t),
                NEW i \in 1 .. Len(u), NEW j \in 1 .. Len(u), u[i] = u[j]
         PROVE  i = j
    <2>1. ASSUME i \in 1 .. Len(s), j \in 1 .. Len(s)  PROVE i = j
      BY <1>3, <1>5, <1>10, <2>1
    <2> DEFINE p == i - Len(s)
               q == j - Len(s)
    <2>2. /\ i \in 1 .. Len(s) \/ (p \in 1 .. Len(t) /\ i = Len(s) + p)
          /\ j \in 1 .. Len(s) \/ (q \in 1 .. Len(t) /\ j = Len(s) + q)
      BY <1>4
    <2> HIDE DEF p, q
    <2>3. ASSUME p \in 1 .. Len(t), i = Len(s) + p, j \in 1 .. Len(s)  PROVE i = j
      BY <1>2, <1>3, <1>5, <1>6, <1>10, <2>3
    <2>4. ASSUME q \in 1 .. Len(t), j = Len(s) + q, i \in 1 .. Len(s)  PROVE i = j
      BY <1>2, <1>3, <1>5, <1>6, <1>10, <2>4
    <2>5. ASSUME p \in 1 .. Len(t), i = Len(s) + p, q \in 1 .. Len(t), j = Len(s) + q
          PROVE  i = j
      BY <1>2, <1>6, <1>10, <2>5
    <2> QED
      BY <2>1, <2>2, <2>3, <2>4, <2>5
  <1>11. IsInjective(u) <=> /\ IsInjective(s) /\ IsInjective(t)
                            /\ \A x \in Range(s) : x \notin Range(t)
    BY <1>7, <1>9, <1>10
  <1>12. Joins(s, t, u)
    BY <1>8, <1>11 DEF Joins
  <1> QED
    BY <1>12 DEF u

(* t has the entries of s, and e.                                          *)
Adds(s, e, t) ==
  /\ \A x : x \in Range(t) <=> x \in Range(s) \/ x = e
  /\ IsInjective(t) <=> IsInjective(s) /\ e \notin Range(s)

(* t has the entries of s but for e, which s has once.                     *)
Drops(s, e, t) ==
  IsInjective(s) => /\ IsInjective(t) /\ e \notin Range(t)
                    /\ \A x : x \in Range(s) <=> x \in Range(t) \/ x = e

LEMMA SingleEntry ==
  ASSUME NEW e
  PROVE  /\ IsInjective(<<e>>) /\ \A x : x \in Range(<<e>>) <=> x = e
  BY SMT DEF IsInjective, Range

LEMMA PushAdds ==
  ASSUME NEW S, NEW s \in Seq(S), NEW e \in S
  PROVE  Adds(s, e, <<e>> \o s) /\ Adds(s, e, Append(s, e))
  <1> DEFINE t == <<e>>
  <1>1. t \in Seq(S) /\ IsInjective(t) /\ \A x : x \in Range(t) <=> x = e
    BY Single, SingleEntry
  <1>2. Append(s, e) = s \o t
    BY SMT
  <1> HIDE DEF t
  <1>3. Joins(t, s, t \o s) /\ Joins(s, t, s \o t)
    BY <1>1, ConcatJoins
  <1>4. Adds(s, e, t \o s) /\ Adds(s, e, s \o t)
    BY <1>1, <1>3 DEF Joins, Adds
  <1> QED
    BY <1>2, <1>4 DEF t
LEMMA InsertAdds ==
  ASSUME NEW S, NEW s \in Seq(S), NEW i \in 1 .. Len(s) + 1, NEW e \in S
  PROVE  Adds(s, e, InsertAt(s, i, e))
  <1> DEFINE n == i - 1
             a == SubSeq(s, 1, n)
             c == SubSeq(s, n + 1, Len(s))
             b == a \o <<e>>
             t == <<e>>
  <1>1. n \in 0 .. Len(s) /\ n + 1 = i /\ n + 1 \in 1 .. Len(s) + 1
    BY SMT
  <1>2. a \in Seq(S)
    BY <1>1, Prefix
  <1>3. c \in Seq(S)
    BY <1>1, Suffix
  <1>4. /\ 1 \in 1 .. Len(s) + 1 /\ n \in 1 - 1 .. Len(s) /\ Len(s) \in n .. Len(s)
        /\ SubSeq(s, 1, Len(s)) = s
    BY <1>1, SMTT(30)
  <1>5. a \o c = s
    BY <1>4, SubsJoin
  <1>6. InsertAt(s, i, e) = b \o c
    BY <1>1 DEF InsertAt
  <1>7. t \in Seq(S) /\ IsInjective(t) /\ \A x : x \in Range(t) <=> x = e
    BY Single, SingleEntry
  <1>8. b = a \o t
    OBVIOUS
  <1> HIDE DEF a, b, c, t
  <1>9. b \in Seq(S)
    BY <1>2, <1>7, <1>8, ConcatType
  <1>10. Joins(a, c, a \o c) /\ Joins(a, t, a \o t) /\ Joins(b, c, b \o c)
    BY <1>2, <1>3, <1>7, <1>9, ConcatJoins
  <1>11. Adds(s, e, b \o c)
    BY <1>5, <1>7, <1>8, <1>10 DEF Joins, Adds
  <1> QED
    BY <1>6, <1>11

LEMMA RemoveDrops ==
  ASSUME NEW S, NEW s \in Seq(S), NEW i \in 1 .. Len(s)
  PROVE  Drops(s, s[i], RemoveAt(s, i))
  <1> DEFINE n == i - 1
             a == SubSeq(s, 1, n)
             b == SubSeq(s, i, Len(s))
             c == SubSeq(s, i + 1, Len(s))
             t == <<s[i]>>
  <1>1. /\ n \in 0 .. Len(s) /\ n + 1 = i /\ i + 1 \in 1 .. Len(s) + 1
        /\ i \in 1 .. Len(s) + 1 /\ i \in i - 1 .. Len(s) /\ Len(s) \in i .. Len(s)
        /\ 1 \in 1 .. Len(s) + 1 /\ n \in 1 - 1 .. Len(s) /\ Len(s) \in n .. Len(s)
        /\ SubSeq(s, 1, Len(s)) = s /\ s[i] \in S
    BY SMT
  <1>0. SubSeq(s, i, i) = t
    <2>1. /\ SubSeq(s, i, i) \in Seq(S) /\ Len(SubSeq(s, i, i)) = i - i + 1
          /\ \A j \in 1 .. i - i + 1 : SubSeq(s, i, i)[j] = s[i + j - 1]
      BY <1>1, Piece
    <2>2. SubSeq(s, i, i)[1] = s[i] /\ Len(SubSeq(s, i, i)) = 1
      BY <1>1, <2>1, SMT
    <2>3. t \in Seq(S) /\ Len(t) = 1 /\ t[1] = s[i]
      BY <1>1, Single
    <2>4. \A j \in 1 .. Len(t) : SubSeq(s, i, i)[j] = t[j]
      BY <2>2, <2>3, SMT
    <2> QED
      BY <2>1, <2>2, <2>3, <2>4, SeqEqual
  <1>2. a \in Seq(S)
    BY <1>1, Prefix
  <1>3. b \in Seq(S) /\ c \in Seq(S)
    BY <1>1, Suffix
  <1>4. a \o SubSeq(s, n + 1, Len(s)) = s
    BY <1>1, SubsJoin
  <1>5. SubSeq(s, i, i) \o c = b
    BY <1>1, SubsJoin
  <1>6. RemoveAt(s, i) = a \o c
    BY <1>1 DEF RemoveAt
  <1>7. t \in Seq(S) /\ IsInjective(t) /\ \A x : x \in Range(t) <=> x = s[i]
    BY <1>1, Single, SingleEntry
  <1>8. a \o b = s /\ t \o c = b
    BY <1>0, <1>1, <1>4, <1>5
  <1> HIDE DEF a, b, c, t
  <1>9. Joins(a, c, a \o c) /\ Joins(a, b, a \o b) /\ Joins(t, c, t \o c)
    BY <1>2, <1>3, <1>7, ConcatJoins
  <1>10. Drops(s, s[i], a \o c)
    BY <1>7, <1>8, <1>9 DEF Joins, Drops
  <1> QED
    BY <1>6, <1>10

LEMMA EndsDrop ==
  ASSUME NEW S, NEW s \in Seq(S), Len(s) >= 1
  PROVE  Drops(s, Last(s), Front(s)) /\ Drops(s, Head(s), Tail(s))
  <1>1. 1 \in 1 .. Len(s) /\ Len(s) \in 1 .. Len(s) /\ Len(s) \in Nat
    BY SMT
  <1>2. Drops(s, s[1], RemoveAt(s, 1)) /\ Drops(s, s[Len(s)], RemoveAt(s, Len(s)))
    BY <1>1, RemoveDrops
  <1>3. /\ Front(s) \in Seq(S) /\ Len(Front(s)) = Len(s) - 1
        /\ \A j \in 1 .. Len(s) - 1 : Front(s)[j] = s[j]
        /\ Tail(s) \in Seq(S) /\ Len(Tail(s)) = Len(s) - 1
        /\ \A j \in 1 .. Len(s) - 1 : Tail(s)[j] = s[j + 1]
        /\ Last(s) = s[Len(s)] /\ Head(s) = s[1]
    BY Ends
  <1>4. /\ RemoveAt(s, 1) \in Seq(S) /\ Len(RemoveAt(s, 1)) = Len(s) - 1
        /\ \A j \in 1 .. Len(s) - 1 : RemoveAt(s, 1)[j] = s[j + 1]
    BY <1>1, Removed
  <1>5. /\ RemoveAt(s, Len(s)) \in Seq(S) /\ Len(RemoveAt(s, Len(s))) = Len(s) - 1
        /\ \A j \in 1 .. Len(s) - 1 : RemoveAt(s, Len(s))[j] = s[j]
    BY <1>1, Removed
  <1>6. RemoveAt(s, 1) = Tail(s)
    BY <1>1, <1>3, <1>4, SeqEqual
  <1>7. RemoveAt(s, Len(s)) = Front(s)
    BY <1>1, <1>3, <1>5, SeqEqual
  <1> QED
    BY <1>2, <1>3, <1>6, <1>7

-----------------------------------------------------------------------------
(* Search and splits.                                                      *)

(* The order of the naturals, as a relation.                               *)
LessThan == {p \in Nat \X Nat : p[1] < p[2]}

(* A set of naturals has a least element.                                  *)
LEMMA LeastOf ==
  ASSUME NEW T, T \subseteq Nat, T # {}
  PROVE  \E x \in T : \A y \in T : x <= y
  <1>1. IsWellFoundedOn(LessThan, Nat)
    BY NatLessThanWellFounded DEF OpToRel, LessThan
  <1>2. PICK x \in T : \A y \in T : ~(<<y, x>> \in LessThan)
    BY ONLY <1>1, T \subseteq Nat, T # {}, WFMin, Zenon
  <1>3. \A y \in T : x <= y
    <2> TAKE y \in T
    <2>1. x \in Nat /\ y \in Nat /\ ~(<<y, x>> \in LessThan)
      BY <1>2
    <2>2. ~(y < x)
      BY <2>1 DEF LessThan
    <2> QED
      BY <2>1, <2>2, SMT
  <1> QED
    BY <1>3

(* binary_search_keys never leaves the node: a rank is a child index.      *)
THEOREM RankBounds ==
  ASSUME NEW ks \in Seq(Int), NEW k \in Int
  PROVE  Rank(ks, k) \in 0 .. Len(ks)
  <1> DEFINE below == {i \in 1 .. Len(ks) : ks[i] <= k}
  <1>1. IsFiniteSet(1 .. Len(ks)) /\ Cardinality(1 .. Len(ks)) = Len(ks)
    <2>1. Len(ks) \in Nat /\ 1 \in Int /\ Len(ks) \in Int
      BY SMT
    <2>2. Cardinality(1 .. Len(ks)) = IF 1 > Len(ks) THEN 0 ELSE Len(ks) - 1 + 1
      BY <2>1, FS_Interval
    <2> QED
      BY <2>1, <2>2, FS_Interval, SMTT(30)
  <1>2. IsFiniteSet(below) /\ Cardinality(below) <= Cardinality(1 .. Len(ks))
    BY <1>1, FS_Subset
  <1>3. Cardinality(below) \in Nat
    BY <1>2, FS_CardinalityType
  <1>4. Rank(ks, k) = Cardinality(below)
    <2>1. DOMAIN ks = 1 .. Len(ks)
      BY SMT
    <2> QED
      BY <2>1 DEF Rank
  <1> HIDE DEF below
  <1> QED
    BY <1>1, <1>2, <1>3, <1>4, SMT

(* In a sorted node the rank parts the keys: those up to it are not above  *)
(* the key searched for, those after it are.  So child_for_key descends    *)
(* between the right separators, and Err(idx) is where a new key belongs.  *)
THEOREM RankPartsKeys ==
  ASSUME NEW ks \in Seq(Int), NEW k \in Int,
         \A i, j \in 1 .. Len(ks) : i < j => ks[i] < ks[j]
  PROVE  \A j \in 1 .. Len(ks) : ks[j] <= k <=> j <= Rank(ks, k)
  <1> DEFINE below == {i \in 1 .. Len(ks) : ks[i] <= k}
  <1> SUFFICES ASSUME NEW j \in 1 .. Len(ks)
               PROVE  ks[j] <= k <=> j <= Rank(ks, k)
    OBVIOUS
  <1>1. Rank(ks, k) = Cardinality(below)
    <2>1. DOMAIN ks = 1 .. Len(ks)
      BY SMT
    <2> QED
      BY <2>1 DEF Rank
  <1>2. \A n \in 0 .. Len(ks) : IsFiniteSet(1 .. n) /\ Cardinality(1 .. n) = n
    <2> TAKE n \in 0 .. Len(ks)
    <2>1. n \in Int /\ 1 \in Int
      BY SMT
    <2>2. Cardinality(1 .. n) = IF 1 > n THEN 0 ELSE n - 1 + 1
      BY <2>1, FS_Interval
    <2> QED
      BY <2>1, <2>2, FS_Interval, SMT
  <1>3. Len(ks) \in 0 .. Len(ks) /\ j \in 0 .. Len(ks) /\ j - 1 \in 0 .. Len(ks)
    BY SMT
  <1>4. IsFiniteSet(below)
    BY <1>2, <1>3, FS_Subset
  <1>5. ASSUME ks[j] <= k  PROVE  j <= Rank(ks, k)
    <2>1. 1 .. j \subseteq below
      BY <1>5, SMT
    <2>2. Cardinality(1 .. j) <= Cardinality(below)
      BY <1>4, <2>1, FS_Subset
    <2> QED
      BY <1>1, <1>2, <1>3, <2>2
  <1>6. ASSUME ~ (ks[j] <= k)  PROVE  ~ (j <= Rank(ks, k))
    <2>1. below \subseteq 1 .. (j - 1)
      <3> SUFFICES ASSUME NEW i \in 1 .. Len(ks), ks[i] <= k  PROVE  i \in 1 .. (j - 1)
        OBVIOUS
      <3>1. ks[i] \in Int /\ ks[j] \in Int
        BY ElementOfSeq
      <3>2. ~ (j < i) /\ j # i
        BY <1>6, <3>1, SMT
      <3> QED
        BY <3>2, SMT
    <2>2. Cardinality(below) <= Cardinality(1 .. (j - 1))
      BY <1>2, <1>3, <2>1, FS_Subset
    <2>3. Cardinality(below) <= j - 1
      BY <1>2, <1>3, <2>2
    <2>4. Cardinality(below) \in Nat
      BY <1>4, FS_CardinalityType
    <2> HIDE DEF below
    <2> QED
      BY <1>1, <2>3, <2>4, SMT
  <1> QED
    BY <1>5, <1>6

-----------------------------------------------------------------------------
(* A node cut in two, an entry inserted in one of the two halves: the cuts *)
(* that splits are made of.                                                *)
LEMMA CutBeforeInsert ==
  ASSUME NEW S, NEW s \in Seq(S), NEW e \in S,
         NEW p \in 0 .. Len(s), NEW x \in 1 .. p + 1
  PROVE  InsertAt(SubSeq(s, 1, p), x, e) \o SubSeq(s, p + 1, Len(s))
           = InsertAt(s, x, e)
  <1> DEFINE a == SubSeq(s, 1, p)
             b == SubSeq(s, p + 1, Len(s))
             l == SubSeq(s, 1, x - 1)
             m == SubSeq(s, x, p)
             t == l \o <<e>>
  <1>1. a \in Seq(S) /\ Len(a) = p
    BY Prefix
  <1>2. SubSeq(a, 1, x - 1) = l
    <2>1. /\ 1 \in 1 .. Len(s) + 1 /\ p \in 1 - 1 .. Len(s)
          /\ 1 \in 1 .. p - 1 + 2 /\ x - 1 \in 1 - 1 .. p - 1 + 1
          /\ 1 + 1 - 1 = 1 /\ 1 + (x - 1) - 1 = x - 1
      BY SMT
    <2>2. SubSeq(SubSeq(s, 1, p), 1, x - 1) = SubSeq(s, 1 + 1 - 1, 1 + (x - 1) - 1)
      BY <2>1, SubOfSub
    <2> QED
      BY <2>1, <2>2
  <1>3. SubSeq(a, x, Len(a)) = m
    <2>1. /\ 1 \in 1 .. Len(s) + 1 /\ p \in 1 - 1 .. Len(s)
          /\ x \in 1 .. p - 1 + 2 /\ p \in x - 1 .. p - 1 + 1
          /\ 1 + x - 1 = x /\ 1 + p - 1 = p
      BY SMT
    <2>2. SubSeq(SubSeq(s, 1, p), x, p) = SubSeq(s, 1 + x - 1, 1 + p - 1)
      BY <2>1, SubOfSub
    <2> QED
      BY <1>1, <2>1, <2>2
  <1>4. m \o b = SubSeq(s, x, Len(s))
    <2>1. x \in 1 .. Len(s) + 1 /\ p \in x - 1 .. Len(s) /\ Len(s) \in p .. Len(s)
      BY SMT
    <2> QED
      BY <2>1, SubsJoin
  <1>5. t \in Seq(S) /\ m \in Seq(S) /\ b \in Seq(S)
    <2>1. x - 1 \in 0 .. Len(s) /\ x \in 1 .. Len(s) + 1 /\ p \in x - 1 .. Len(s)
          /\ p + 1 \in 1 .. Len(s) + 1
      BY SMT
    <2>2. l \in Seq(S) /\ <<e>> \in Seq(S)
      BY <2>1, Prefix, Single
    <2>3. m \in Seq(S) /\ b \in Seq(S)
      BY <2>1, Piece, Suffix
    <2> QED
      BY <2>2, <2>3, Concat
  <1>6. InsertAt(a, x, e) = t \o m
    BY <1>2, <1>3 DEF InsertAt
  <1>7. InsertAt(s, x, e) = t \o SubSeq(s, x, Len(s))
    BY DEF InsertAt
  <1> HIDE DEF a, b, l, m, t
  <1>8. InsertAt(a, x, e) \o b = InsertAt(s, x, e)
    <2>1. (t \o m) \o b = t \o (m \o b)
      BY <1>5, ConcatAssociative, SMTT(30)
    <2> QED
      BY <1>4, <1>6, <1>7, <2>1
  <1> QED
    BY <1>8 DEF a, b

LEMMA CutAfterInsert ==
  ASSUME NEW S, NEW s \in Seq(S), NEW e \in S,
         NEW p \in 1 .. Len(s) + 1, NEW x \in p .. Len(s) + 1
  PROVE  SubSeq(s, 1, p - 1) \o InsertAt(SubSeq(s, p, Len(s)), x - p + 1, e)
           = InsertAt(s, x, e)
  <1> DEFINE y == x - p + 1
             a == SubSeq(s, 1, p - 1)
             b == SubSeq(s, p, Len(s))
             m == SubSeq(s, p, x - 1)
             u == SubSeq(s, x, Len(s))
  <1>1. b \in Seq(S) /\ Len(b) = Len(s) - p + 1
    BY Suffix
  <1>2. SubSeq(b, 1, y - 1) = m
    <2>1. /\ p \in 1 .. Len(s) + 1 /\ Len(s) \in p - 1 .. Len(s)
          /\ 1 \in 1 .. Len(s) - p + 2 /\ y - 1 \in 1 - 1 .. Len(s) - p + 1
          /\ p + 1 - 1 = p /\ p + (y - 1) - 1 = x - 1
      BY SMT
    <2>2. SubSeq(SubSeq(s, p, Len(s)), 1, y - 1) = SubSeq(s, p + 1 - 1, p + (y - 1) - 1)
      BY <2>1, SubOfSub
    <2> QED
      BY <2>1, <2>2
  <1>3. SubSeq(b, y, Len(b)) = u
    <2>1. /\ p \in 1 .. Len(s) + 1 /\ Len(s) \in p - 1 .. Len(s)
          /\ y \in 1 .. Len(s) - p + 2 /\ Len(b) \in y - 1 .. Len(s) - p + 1
          /\ p + y - 1 = x /\ p + Len(b) - 1 = Len(s)
      BY <1>1, SMT
    <2>2. SubSeq(SubSeq(s, p, Len(s)), y, Len(b)) = SubSeq(s, p + y - 1, p + Len(b) - 1)
      BY <2>1, SubOfSub
    <2> QED
      BY <2>1, <2>2
  <1>4. a \o m = SubSeq(s, 1, x - 1)
    <2>1. /\ 1 \in 1 .. Len(s) + 1 /\ p - 1 \in 1 - 1 .. Len(s)
          /\ x - 1 \in p - 1 .. Len(s) /\ p - 1 + 1 = p
      BY SMT
    <2>2. SubSeq(s, 1, p - 1) \o SubSeq(s, p - 1 + 1, x - 1) = SubSeq(s, 1, x - 1)
      BY <2>1, SubsJoin
    <2> QED
      BY <2>1, <2>2
  <1>5. a \in Seq(S) /\ m \in Seq(S) /\ u \in Seq(S) /\ <<e>> \in Seq(S)
    <2>1. /\ p - 1 \in 0 .. Len(s) /\ x \in 1 .. Len(s) + 1
          /\ x - 1 \in p - 1 .. Len(s)
      BY SMT
    <2> QED
      BY <2>1, Prefix, Piece, Suffix, Single
  <1>6. InsertAt(b, y, e) = (m \o <<e>>) \o u
    BY <1>2, <1>3 DEF InsertAt
  <1>7. InsertAt(s, x, e) = (SubSeq(s, 1, x - 1) \o <<e>>) \o u
    BY DEF InsertAt
  <1> HIDE DEF a, b, m, u
  <1>8. a \o InsertAt(b, y, e) = InsertAt(s, x, e)
    <2> DEFINE g == <<e>>
               h == m \o g
    <2>1. h \in Seq(S)
      BY <1>5, Concat
    <2>2. a \o h = (a \o m) \o g
      BY <1>5, ConcatAssociative
    <2>3. InsertAt(b, y, e) = h \o u
      BY <1>6
    <2> HIDE DEF h
    <2>4. (a \o h) \o u = a \o (h \o u)
      BY <1>5, <2>1, ConcatAssociative, SMTT(30)
    <2> QED
      BY <1>4, <1>7, <2>2, <2>3, <2>4
  <1> QED
    BY <1>8 DEF a, b

(* l and r, of lengths n and m, are u cut in two; or cut around an entry.  *)
IsCut(S, u, l, n, r, m) ==
  /\ l \in Seq(S) /\ Len(l) = n
  /\ r \in Seq(S) /\ Len(r) = m
  /\ l \o r = u

IsCutAround(S, u, l, n, k, r, m) ==
  /\ l \in Seq(S) /\ Len(l) = n
  /\ k \in S
  /\ r \in Seq(S) /\ Len(r) = m
  /\ l \o <<k>> \o r = u

LEMMA BeforeParts ==
  ASSUME NEW S, NEW s \in Seq(S), NEW e \in S,
         NEW p \in 0 .. Len(s), NEW x \in 1 .. p + 1
  PROVE  IsCut(S, InsertAt(s, x, e),
               InsertAt(SubSeq(s, 1, p), x, e), p + 1,
               SubSeq(s, p + 1, Len(s)), Len(s) - p)
  <1> DEFINE a == SubSeq(s, 1, p)
  <1>1. a \in Seq(S) /\ Len(a) = p
    BY Prefix
  <1> HIDE DEF a
  <1>2. x \in 1 .. Len(a) + 1
    BY <1>1
  <1>3. InsertAt(a, x, e) \in Seq(S) /\ Len(InsertAt(a, x, e)) = Len(a) + 1
    BY <1>1, <1>2, InsertedType
  <1>4. p + 1 \in 1 .. Len(s) + 1 /\ Len(s) - (p + 1) + 1 = Len(s) - p
    BY SMT
  <1>5. /\ SubSeq(s, p + 1, Len(s)) \in Seq(S)
        /\ Len(SubSeq(s, p + 1, Len(s))) = Len(s) - (p + 1) + 1
    BY <1>4, Suffix
  <1> QED
    BY <1>1, <1>3, <1>4, <1>5, CutBeforeInsert DEF a, IsCut

LEMMA AfterParts ==
  ASSUME NEW S, NEW s \in Seq(S), NEW e \in S,
         NEW p \in 1 .. Len(s) + 1, NEW x \in p .. Len(s) + 1
  PROVE  IsCut(S, InsertAt(s, x, e),
               SubSeq(s, 1, p - 1), p - 1,
               InsertAt(SubSeq(s, p, Len(s)), x - p + 1, e), Len(s) - p + 2)
  <1> DEFINE b == SubSeq(s, p, Len(s))
             y == x - p + 1
  <1>1. b \in Seq(S) /\ Len(b) = Len(s) - p + 1
    BY Suffix
  <1> HIDE DEF b
  <1>2. y \in 1 .. Len(b) + 1 /\ Len(b) + 1 = Len(s) - p + 2
    BY <1>1, SMT
  <1> HIDE DEF y
  <1>3. InsertAt(b, y, e) \in Seq(S) /\ Len(InsertAt(b, y, e)) = Len(b) + 1
    BY <1>1, <1>2, InsertedType
  <1>4. p - 1 \in 0 .. Len(s)
    BY SMT
  <1>5. SubSeq(s, 1, p - 1) \in Seq(S) /\ Len(SubSeq(s, 1, p - 1)) = p - 1
    BY <1>4, Prefix
  <1> QED
    BY <1>2, <1>3, <1>5, CutAfterInsert DEF b, y, IsCut

(* The same with an entry of s, or the new one, standing between the       *)
(* halves: the key that a branch split promotes.                           *)
LEMMA KeyBefore ==
  ASSUME NEW S, NEW s \in Seq(S), NEW e \in S,
         NEW p \in 1 .. Len(s), NEW x \in 1 .. p
  PROVE  IsCutAround(S, InsertAt(s, x, e),
                     InsertAt(SubSeq(s, 1, p - 1), x, e), p, s[p],
                     SubSeq(s, p + 1, Len(s)), Len(s) - p)
  <1> DEFINE q == p - 1
             a == InsertAt(SubSeq(s, 1, q), x, e)
             b == SubSeq(s, p, Len(s))
             c == SubSeq(s, p + 1, Len(s))
             g == <<s[p]>>
  <1>1. /\ q \in 0 .. Len(s) /\ x \in 1 .. q + 1 /\ q + 1 = p
        /\ p + 1 \in 1 .. Len(s) + 1 /\ Len(s) - (p + 1) + 1 = Len(s) - p
        /\ Len(s) \in p .. Len(s)
    BY SMT
  <1> HIDE DEF q
  <1>2. IsCut(S, InsertAt(s, x, e), a, q + 1, SubSeq(s, q + 1, Len(s)), Len(s) - q)
    BY <1>1, BeforeParts
  <1>3. c \in Seq(S) /\ Len(c) = Len(s) - (p + 1) + 1
    BY <1>1, Suffix
  <1>4. s[p] \in S
    BY ElementOfSeq
  <1>5. b = g \o c
    BY <1>1, SubSeqRecursiveFirst
  <1>6. g \in Seq(S)
    BY <1>4, Single
  <1> HIDE DEF a, b, c, g
  <1>7. Associative(a, g, c)
    BY <1>2, <1>3, <1>6, ConcatAssoc, SMTT(30) DEF IsCut
  <1>8. (a \o g) \o c = InsertAt(s, x, e)
    BY <1>1, <1>2, <1>5, <1>7 DEF b, IsCut, Associative
  <1>9. a \in Seq(S) /\ Len(a) = p /\ Len(c) = Len(s) - p
    BY <1>1, <1>2, <1>3 DEF IsCut
  <1> QED
    BY <1>3, <1>4, <1>8, <1>9 DEF a, c, g, q, IsCutAround

LEMMA KeyAt ==
  ASSUME NEW S, NEW s \in Seq(S), NEW e \in S, NEW p \in 0 .. Len(s)
  PROVE  /\ IsCutAround(S, InsertAt(s, p + 1, e),
                        SubSeq(s, 1, p), p, e, SubSeq(s, p + 1, Len(s)), Len(s) - p)
         /\ IsCut(S, InsertAt(s, p + 1, e),
                  SubSeq(s, 1, p), p,
                  <<e>> \o SubSeq(s, p + 1, Len(s)), Len(s) - p + 1)
  <1> DEFINE a == SubSeq(s, 1, p)
             c == SubSeq(s, p + 1, Len(s))
             g == <<e>>
  <1>1. p + 1 \in 1 .. Len(s) + 1 /\ Len(s) - (p + 1) + 1 = Len(s) - p /\ p + 1 - 1 = p
    BY SMT
  <1>2. a \in Seq(S) /\ Len(a) = p
    BY Prefix
  <1>3. c \in Seq(S) /\ Len(c) = Len(s) - p
    <2>1. c \in Seq(S) /\ Len(c) = Len(s) - (p + 1) + 1
      BY <1>1, Suffix
    <2> QED
      BY <1>1, <2>1
  <1>4. g \in Seq(S)
    BY Single
  <1>5. (a \o g) \o c = InsertAt(s, p + 1, e)
    <2> DEFINE x == p + 1
    <2>1. x - 1 = p
      BY <1>1
    <2> HIDE DEF x
    <2>2. InsertAt(s, x, e) = (SubSeq(s, 1, x - 1) \o <<e>>) \o SubSeq(s, x, Len(s))
      BY DEF InsertAt
    <2> QED
      BY <2>1, <2>2 DEF x
  <1> HIDE DEF a, c
  <1>6. g \o c \in Seq(S) /\ Len(g \o c) = Len(c) + 1
    BY <1>3, Pushed
  <1> HIDE DEF g
  <1>7. Associative(a, g, c)
    BY <1>2, <1>3, <1>4, ConcatAssoc
  <1>8. a \o (g \o c) = InsertAt(s, p + 1, e)
    BY <1>5, <1>7 DEF Associative
  <1> QED
    BY <1>2, <1>3, <1>5, <1>6, <1>8 DEF a, c, g, IsCut, IsCutAround

LEMMA KeyAfter ==
  ASSUME NEW S, NEW s \in Seq(S), NEW e \in S,
         NEW p \in 1 .. Len(s), NEW x \in p + 1 .. Len(s) + 1
  PROVE  IsCutAround(S, InsertAt(s, x, e),
                     SubSeq(s, 1, p - 1), p - 1, s[p],
                     InsertAt(SubSeq(s, p + 1, Len(s)), x - p, e), Len(s) - p + 1)
  <1> DEFINE q == p + 1
             a == SubSeq(s, 1, p - 1)
             b == SubSeq(s, 1, p)
             c == InsertAt(SubSeq(s, q, Len(s)), x - q + 1, e)
             g == <<s[p]>>
  <1>1. /\ q \in 1 .. Len(s) + 1 /\ x \in q .. Len(s) + 1 /\ q - 1 = p
        /\ Len(s) - q + 2 = Len(s) - p + 1 /\ x - q + 1 = x - p
        /\ p - 1 \in 0 .. Len(s) /\ 1 \in 1 .. Len(s) /\ p \in 1 .. Len(s)
    BY SMT
  <1> HIDE DEF q
  <1>2. IsCut(S, InsertAt(s, x, e), SubSeq(s, 1, q - 1), q - 1, c, Len(s) - q + 2)
    BY <1>1, AfterParts
  <1>3. a \in Seq(S) /\ Len(a) = p - 1
    BY <1>1, Prefix
  <1>4. s[p] \in S
    BY ElementOfSeq
  <1>5. b = a \o g
    BY <1>1, SubSeqRecursiveSecond
  <1>6. c = InsertAt(SubSeq(s, p + 1, Len(s)), x - p, e)
    BY <1>1 DEF q
  <1> HIDE DEF a, b, c, g
  <1>7. (a \o g) \o c = InsertAt(s, x, e) /\ c \in Seq(S) /\ Len(c) = Len(s) - p + 1
    BY <1>1, <1>2, <1>5 DEF b, IsCut
  <1> QED
    BY <1>3, <1>4, <1>6, <1>7 DEF a, g, IsCutAround

-----------------------------------------------------------------------------
(* Splits.                                                                 *)

LEMMA Halves ==
  ASSUME NEW n \in Nat, n >= 1
  PROVE  LET c == (n + 1) \div 2
         IN  c \in 1 .. n /\ c >= n \div 2 /\ n + 1 - c >= n \div 2 /\ n - c >= n \div 2
  BY SMT

(* The two halves of a full leaf that takes one more item.                 *)
LEMMA LeafSplitParts ==
  ASSUME NEW S, NEW s \in Seq(S), Len(s) >= 1, NEW r \in 0 .. Len(s), NEW e \in S
  PROVE  /\ IsCut(S, InsertAt(s, r + 1, e),
                  LeafSplitLeft(s, r, e), LeftCount(s),
                  LeafSplitRight(s, r, e), Len(s) + 1 - LeftCount(s))
         /\ LeftCount(s) \in 1 .. Len(s)
  <1> DEFINE c == LeftCount(s)
             x == r + 1
             left == LeafSplitLeft(s, r, e)
             rght == LeafSplitRight(s, r, e)
  <1>1. Len(s) \in Nat
    BY SMT
  <1>2. c \in 1 .. Len(s)
    BY <1>1, Halves DEF LeftCount
  <1> HIDE DEF c
  <1>3. CASE r < c
    <2> DEFINE p == c - 1
    <2>1. /\ p \in 0 .. Len(s) /\ x \in 1 .. p + 1
          /\ p + 1 = c /\ Len(s) - p = Len(s) + 1 - c
      BY <1>1, <1>2, <1>3, SMT
    <2>2. left = InsertAt(SubSeq(s, 1, p), x, e) /\ rght = SubSeq(s, p + 1, Len(s))
      BY <1>3 DEF LeafSplitLeft, LeafSplitRight, LeftKeep, c
    <2> HIDE DEF p, x, left, rght
    <2>3. IsCut(S, InsertAt(s, x, e), InsertAt(SubSeq(s, 1, p), x, e), p + 1,
                SubSeq(s, p + 1, Len(s)), Len(s) - p)
      BY <2>1, BeforeParts
    <2> QED
      BY <1>2, <2>1, <2>2, <2>3 DEF c, x, left, rght
  <1>4. CASE ~ (r < c)
    <2> DEFINE p == c + 1
    <2>1. /\ p \in 1 .. Len(s) + 1 /\ x \in p .. Len(s) + 1 /\ p - 1 = c
          /\ x - p + 1 = r - c + 1 /\ Len(s) - p + 2 = Len(s) + 1 - c
      BY <1>1, <1>2, <1>4, SMT
    <2>2. /\ left = SubSeq(s, 1, p - 1)
          /\ rght = InsertAt(SubSeq(s, p, Len(s)), x - p + 1, e)
      BY <1>4, <2>1 DEF LeafSplitLeft, LeafSplitRight, LeftKeep, c
    <2> HIDE DEF p, x, left, rght
    <2>3. IsCut(S, InsertAt(s, x, e), SubSeq(s, 1, p - 1), p - 1,
                InsertAt(SubSeq(s, p, Len(s)), x - p + 1, e), Len(s) - p + 2)
      BY <2>1, AfterParts
    <2> QED
      BY <1>2, <2>1, <2>2, <2>3 DEF c, x, left, rght
  <1> QED
    BY <1>3, <1>4

(* leaf_insert_or_split loses, doubles and reorders nothing, and leaves    *)
(* neither half empty or below min_leaf_len, whatever the capacity, the    *)
(* place of the new item and the items.                                    *)
THEOREM LeafSplitIsInsertAndCut ==
  ASSUME NEW S, NEW s \in Seq(S), Len(s) >= 1, NEW r \in 0 .. Len(s), NEW e \in S
  PROVE  LeafSplitCuts(s, r, e)
  <1>1. Len(s) \in Nat
    BY SMT
  <1>2. /\ IsCut(S, InsertAt(s, r + 1, e),
                 LeafSplitLeft(s, r, e), LeftCount(s),
                 LeafSplitRight(s, r, e), Len(s) + 1 - LeftCount(s))
        /\ LeftCount(s) \in 1 .. Len(s)
    BY LeafSplitParts
  <1>3. LeftCount(s) >= Len(s) \div 2 /\ Len(s) + 1 - LeftCount(s) >= Len(s) \div 2
    BY <1>1, Halves DEF LeftCount
  <1>4. LeftCount(s) >= 1 /\ Len(s) + 1 - LeftCount(s) >= 1
    BY <1>1, <1>2, SMT
  <1> QED
    BY <1>2, <1>3, <1>4 DEF LeafSplitCuts, IsCut

(* What the parts b of a branch with keys ks are, and how long.            *)
BranchHalves(S, T, ks, b) ==
  /\ b.promote \in S
  /\ b.lkeys \in Seq(S) /\ b.rkeys \in Seq(S)
  /\ b.lchilds \in Seq(T) /\ b.rchilds \in Seq(T)
  /\ Len(b.lkeys) = LeftKeys(ks) /\ LeftKeys(ks) \in 1 .. Len(ks)
  /\ Len(b.rkeys) = Len(ks) - LeftKeys(ks)

(* branch_insert_and_split, whatever the capacity and the child that was   *)
(* split: every separator and every child ends up in one of the halves or  *)
(* in the promoted key, in order, and neither half is below half full.     *)
THEOREM BranchSplitIsInsertAndCut ==
  ASSUME NEW S, NEW ks \in Seq(S), Len(ks) >= 1, NEW sep \in S,
         NEW T, NEW cs \in Seq(T), Len(cs) = Len(ks) + 1, NEW right \in T,
         NEW i \in 0 .. Len(ks)
  PROVE  /\ BranchSplitCuts(ks, cs, i, sep, right)
         /\ BranchHalves(S, T, ks, BranchSplit(ks, cs, i, sep, right))
  <1> DEFINE pm == LeftKeys(ks)
             L  == Len(ks)
             b  == BranchSplit(ks, cs, i, sep, right)
             Goal == /\ b.promote \in S
                     /\ b.lkeys \in Seq(S) /\ b.rkeys \in Seq(S)
                     /\ b.lchilds \in Seq(T) /\ b.rchilds \in Seq(T)
                     /\ Len(b.lkeys) = pm /\ Len(b.rkeys) = L - pm
                     /\ Len(b.lchilds) = pm + 1 /\ Len(b.rchilds) = L - pm + 1
                     /\ b.lkeys \o <<b.promote>> \o b.rkeys = InsertAt(ks, i + 1, sep)
                     /\ b.lchilds \o b.rchilds = InsertAt(cs, i + 2, right)
  <1>1. L \in Nat /\ L >= 1 /\ Len(cs) = L + 1 /\ i \in 0 .. L
    BY SMT
  <1>2. pm \in 1 .. L /\ pm >= L \div 2 /\ L - pm >= L \div 2
    BY <1>1, Halves DEF LeftKeys
  <1> HIDE DEF pm, L
  <1>3. ASSUME i < pm  PROVE Goal
    <2> DEFINE x == i + 1
               y == i + 2
               lk == InsertAt(SubSeq(ks, 1, pm - 1), x, sep)
               rk == SubSeq(ks, pm + 1, L)
               lc == InsertAt(SubSeq(cs, 1, pm), y, right)
               rc == SubSeq(cs, pm + 1, Len(cs))
    <2>1. /\ pm \in 0 .. Len(cs) /\ x \in 1 .. pm /\ y \in 1 .. pm + 1
          /\ ~ (i = pm) /\ ~ (i > pm) /\ Len(cs) - pm = L - pm + 1
      BY <1>1, <1>2, <1>3, SMT
    <2>2. b = [promote |-> ks[pm], lkeys |-> lk, lchilds |-> lc,
               rkeys |-> rk, rchilds |-> rc]
      BY <1>1, <1>3, <2>1 DEF BranchSplit, L, pm
    <2> HIDE DEF x, y
    <2>3. IsCutAround(S, InsertAt(ks, x, sep), lk, pm, ks[pm], rk, L - pm)
      BY <1>2, <2>1, KeyBefore DEF L
    <2>4. IsCut(T, InsertAt(cs, y, right), lc, pm + 1, rc, Len(cs) - pm)
      BY <2>1, BeforeParts
    <2> HIDE DEF lk, rk, lc, rc, b
    <2> QED
      BY <2>1, <2>2, <2>3, <2>4 DEF x, y, IsCut, IsCutAround
  <1>4. ASSUME i = pm  PROVE Goal
    <2> DEFINE q == pm + 1
               lk == SubSeq(ks, 1, pm)
               rk == SubSeq(ks, pm + 1, L)
               lc == SubSeq(cs, 1, q)
               rc == <<right>> \o SubSeq(cs, q + 1, Len(cs))
    <2>1. /\ pm \in 0 .. L /\ q \in 0 .. Len(cs) /\ q + 1 = pm + 2
          /\ i + 1 = pm + 1 /\ i + 2 = q + 1 /\ q = pm + 1
          /\ ~ (i < pm) /\ Len(cs) - q + 1 = L - pm + 1
      BY <1>1, <1>2, <1>4, SMT
    <2>2. b = [promote |-> sep, lkeys |-> lk, lchilds |-> lc,
               rkeys |-> rk, rchilds |-> rc]
      BY <1>1, <1>4, <2>1 DEF BranchSplit, L, pm
    <2> HIDE DEF q
    <2>3. IsCutAround(S, InsertAt(ks, pm + 1, sep), lk, pm, sep, rk, L - pm)
      BY <2>1, KeyAt DEF L
    <2>4. IsCut(T, InsertAt(cs, q + 1, right), lc, q, rc, Len(cs) - q + 1)
      BY <2>1, KeyAt
    <2> HIDE DEF lk, rk, lc, rc, b
    <2> QED
      BY <2>1, <2>2, <2>3, <2>4 DEF IsCut, IsCutAround
  <1>5. ASSUME i > pm  PROVE Goal
    <2> DEFINE p == pm + 1
               q == pm + 2
               x == i + 1
               y == i + 2
               lk == SubSeq(ks, 1, p - 1)
               rk == InsertAt(SubSeq(ks, p + 1, L), x - p, sep)
               lc == SubSeq(cs, 1, q - 1)
               rc == InsertAt(SubSeq(cs, q, Len(cs)), y - q + 1, right)
    <2>1. /\ p \in 1 .. L /\ x \in p + 1 .. L + 1 /\ p - 1 = pm /\ p + 1 = pm + 2
          /\ q \in 1 .. Len(cs) + 1 /\ y \in q .. Len(cs) + 1 /\ q - 1 = pm + 1
          /\ ~ (i < pm) /\ ~ (i = pm) /\ x - p = i - pm /\ y - q + 1 = i - pm + 1
          /\ L - p + 1 = L - pm /\ Len(cs) - q + 2 = L - pm + 1
      BY <1>1, <1>2, <1>5, SMT
    <2>2. b = [promote |-> ks[p], lkeys |-> lk, lchilds |-> lc,
               rkeys |-> rk, rchilds |-> rc]
      BY <1>1, <1>5, <2>1 DEF BranchSplit, L, pm
    <2> HIDE DEF p, q, x, y
    <2>3. IsCutAround(S, InsertAt(ks, x, sep), lk, p - 1, ks[p], rk, L - p + 1)
      BY <2>1, KeyAfter DEF L
    <2>4. IsCut(T, InsertAt(cs, y, right), lc, q - 1, rc, Len(cs) - q + 2)
      BY <2>1, AfterParts
    <2> HIDE DEF lk, rk, lc, rc, b
    <2> QED
      BY <2>1, <2>2, <2>3, <2>4 DEF x, y, IsCut, IsCutAround
  <1>6. Goal
    <2>1. i < pm \/ i = pm \/ i > pm
      BY <1>1, <1>2, SMT
    <2> QED
      BY <1>3, <1>4, <1>5, <2>1
  <1> HIDE DEF b
  <1>7. Len(b.lchilds) = Len(b.lkeys) + 1 /\ Len(b.rchilds) = Len(b.rkeys) + 1
    BY <1>6
  <1> QED
    BY <1>2, <1>6, <1>7 DEF BranchSplitCuts, BranchHalves, b, pm, L

-----------------------------------------------------------------------------
(* Recursion.                                                              *)

(* B gives the value at x from the values of f, and looks at f only at     *)
(* what is lower than x.                                                   *)
GoesDown(D, V, rank, B) ==
  /\ V # {} /\ rank \in [D -> Nat] /\ \E top \in Nat : \A x \in D : rank[x] <= top
  /\ \A f \in [D -> V] : \A x \in D : B[f][x] \in V
  /\ \A f, g \in [D -> V] : \A x \in D :
       (\A y \in D : rank[y] < rank[x] => f[y] = g[y]) => B[f][x] = B[g][x]

(* A recursion that goes down in rank has a solution.                      *)
LEMMA RecursionSolves ==
  ASSUME NEW D, NEW V, NEW rank, NEW B, GoesDown(D, V, rank, B)
  PROVE  \E f \in [D -> V] : \A x \in D : f[x] = B[f][x]
  <1> PICK top \in Nat : \A x \in D : rank[x] <= top
    BY DEF GoesDown
  <1> USE DEF GoesDown
  <1> DEFINE Solves(f, m) == \A x \in D : rank[x] < m => f[x] = B[f][x]
             T == {m \in Nat : ~ \E f \in [D -> V] : Solves(f, m)}
  <1>1. ASSUME T # {}  PROVE FALSE
    <2>1. PICK m \in T : \A y \in T : m <= y
      BY <1>1, LeastOf
    <2>2. m \in Nat /\ ~ \E f \in [D -> V] : Solves(f, m)
      BY <2>1
    <2>3. CASE m = 0
      <3> PICK v \in V : TRUE
        OBVIOUS
      <3> PICK f : f = [x \in D |-> v]
        OBVIOUS
      <3>1. f \in [D -> V] /\ \A x \in D : ~(rank[x] < 0)
        OBVIOUS
      <3> QED
        BY <2>2, <2>3, <3>1
    <2>4. CASE m # 0
      <3> PICK l : l = m - 1
        OBVIOUS
      <3>1. l \in Nat /\ ~(m <= l) /\ \A x \in D : rank[x] < m => rank[x] <= l
        BY <2>2, <2>4
      <3>2. PICK f \in [D -> V] : Solves(f, l)
        BY <2>1, <3>1
      <3> PICK g : g = [x \in D |-> IF rank[x] < l THEN f[x] ELSE B[f][x]]
        OBVIOUS
      <3>3. g \in [D -> V]
        OBVIOUS
      <3>4. ASSUME NEW x \in D, rank[x] < m  PROVE g[x] = B[g][x]
        <4>1. \A y \in D : rank[y] < rank[x] => f[y] = g[y]
          <5> TAKE y \in D
          <5>1. rank[y] < rank[x] => rank[y] < l
            BY <3>1, <3>4
          <5> QED
            BY <5>1
        <4>2. B[f][x] = B[g][x]
          BY <3>3, <4>1
        <4>3. g[x] = B[f][x]
          BY <3>2
        <4> QED
          BY <4>2, <4>3
      <3> QED
        BY <2>2, <3>3, <3>4
    <2> QED
      BY <2>3, <2>4
  <1>2. PICK f \in [D -> V] : Solves(f, top + 1)
    <2>1. top + 1 \in Nat
      OBVIOUS
    <2> QED
      BY <1>1, <2>1
  <1>3. \A x \in D : rank[x] < top + 1
    OBVIOUS
  <1> QED
    BY <1>2, <1>3

(* g is what the recursion of FlattenSeq goes through, up to n.            *)
Accumulates(ls, g, n) == g = [i \in 1 .. n |-> IF i = 1 THEN ls[i] ELSE g[i - 1] \o ls[i]]

(* The recursion of FlattenSeq has a solution.                             *)
LEMMA AccumulatesExist ==
  ASSUME NEW ls, NEW n \in Nat
  PROVE  \E g : Accumulates(ls, g, n)
  <1> DEFINE T == {m \in Nat : ~ \E g : Accumulates(ls, g, m)}
  <1> SUFFICES ASSUME T # {} PROVE FALSE
    OBVIOUS
  <1>1. PICK m \in T : \A y \in T : m <= y
    BY LeastOf
  <1>2. m \in Nat /\ ~ \E g : Accumulates(ls, g, m)
    BY <1>1
  <1>3. CASE m = 0
    <2> PICK g : g = [i \in 1 .. 0 |-> ls[i]]
      OBVIOUS
    <2>1. Accumulates(ls, g, 0)
      BY SMT DEF Accumulates
    <2> QED
      BY <1>2, <1>3, <2>1
  <1>4. CASE m # 0
    <2>1. m - 1 \in Nat /\ ~(m <= m - 1)
      BY <1>2, <1>4
    <2>2. PICK g : Accumulates(ls, g, m - 1)
      BY <1>1, <2>1
    <2> PICK h : h = [i \in 1 .. m |->
                        IF i = m THEN (IF i = 1 THEN ls[i] ELSE g[i - 1] \o ls[i]) ELSE g[i]]
      OBVIOUS
    <2>3. ASSUME NEW i \in 1 .. m
          PROVE  h[i] = IF i = 1 THEN ls[i] ELSE h[i - 1] \o ls[i]
      <3>1. CASE i = m
        <4>1. i # 1 => i - 1 \in 1 .. m /\ i - 1 # m
          BY <1>2, <3>1
        <4> QED
          BY <3>1, <4>1
      <3>2. CASE i # m
        <4>1. i \in 1 .. m - 1 /\ (i # 1 => i - 1 \in 1 .. m /\ i - 1 # m)
          BY <1>2, <3>2
        <4>2. g[i] = IF i = 1 THEN ls[i] ELSE g[i - 1] \o ls[i]
          BY <2>2, <4>1 DEF Accumulates
        <4> QED
          BY <3>2, <4>1, <4>2
      <3> QED
        BY <3>1, <3>2
    <2>4. h = [i \in 1 .. m |-> h[i]]
      OBVIOUS
    <2>5. Accumulates(ls, h, m)
      BY <2>3, <2>4, Zenon DEF Accumulates
    <2> QED
      BY <1>2, <2>5
  <1> QED
    BY <1>3, <1>4

(* FlattenSeq puts sequences into one, from the left.                      *)
Piles(ls, f) ==
  /\ f[1] = ls[1]
  /\ \A i \in 2 .. Len(ls) : f[i] = f[i - 1] \o ls[i]
  /\ FlattenSeq(ls) = f[Len(ls)]

LEMMA FlattenPiles ==
  ASSUME NEW S, NEW ls \in Seq(S), Len(ls) >= 1
  PROVE  \E f : Piles(ls, f)
  <1>1. Len(ls) \in Nat /\ Len(ls) # 0
    OBVIOUS
  <1> DEFINE f == CHOOSE g : g = [i \in 1 .. Len(ls) |->
                                    IF i = 1 THEN ls[i] ELSE g[i - 1] \o ls[i]]
  <1>2. FlattenSeq(ls) = f[Len(ls)]
    BY <1>1, Zenon DEF FlattenSeq
  <1>3. Accumulates(ls, f, Len(ls))
    BY <1>1, AccumulatesExist, Zenon DEF Accumulates
  <1> HIDE DEF f
  <1>4. \A i \in 1 .. Len(ls) : f[i] = IF i = 1 THEN ls[i] ELSE f[i - 1] \o ls[i]
    BY <1>3 DEF Accumulates
  <1>5. f[1] = ls[1] /\ \A i \in 2 .. Len(ls) : f[i] = f[i - 1] \o ls[i]
    <2>1. 1 \in 1 .. Len(ls) /\ \A i \in 2 .. Len(ls) : i \in 1 .. Len(ls) /\ i # 1
      BY <1>1
    <2> QED
      BY <1>4, <2>1
  <1> QED
    BY <1>2, <1>5 DEF Piles

(* What follows at each x from what is lower than x holds everywhere.      *)
LEMMA RankInduction ==
  ASSUME NEW D, NEW rank \in [D -> Nat], NEW G,
         \A x \in D : (\A y \in D : rank[y] < rank[x] => y \in G) => x \in G
  PROVE  D \subseteq G
  <1> DEFINE T == {rank[x] : x \in D \ G}
  <1> SUFFICES ASSUME ~(D \subseteq G)  PROVE FALSE
    OBVIOUS
  <1>1. T \subseteq Nat /\ T # {}
    OBVIOUS
  <1>2. PICK m \in T : \A y \in T : m <= y
    BY <1>1, LeastOf
  <1>3. PICK x \in D \ G : m = rank[x]
    BY <1>2
  <1>4. ASSUME NEW y \in D, rank[y] < rank[x], y \notin G  PROVE FALSE
    <2>1. m <= rank[y]
      BY <1>2, <1>4
    <2> QED
      BY <1>3, <1>4, <2>1
  <1> QED
    BY <1>3, <1>4

(* The entries of sequences put into one.                                  *)
LEMMA FlattenType ==
  ASSUME NEW S, NEW ls \in Seq(Seq(S))
  PROVE  FlattenSeq(ls) \in Seq(S)
  <1>1. CASE Len(ls) = 0
    BY <1>1 DEF FlattenSeq
  <1>2. CASE Len(ls) # 0
    <2>1. Len(ls) >= 1 /\ Len(ls) \in Nat
      BY <1>2
    <2>2. PICK f : Piles(ls, f)
      BY <2>1, FlattenPiles
    <2> DEFINE T == {i \in 1 .. Len(ls) : f[i] \notin Seq(S)}
    <2>3. ASSUME T # {}  PROVE FALSE
      <3>1. T \subseteq Nat
        OBVIOUS
      <3>2. PICK i \in T : \A y \in T : i <= y
        BY <2>3, <3>1, LeastOf
      <3>3. i \in 1 .. Len(ls) /\ f[i] \notin Seq(S) /\ ls[i] \in Seq(S)
        BY <3>2
      <3>4. i # 1
        BY <2>2, <3>3 DEF Piles
      <3>5. i \in 2 .. Len(ls) /\ i - 1 \in 1 .. Len(ls) /\ ~(i <= i - 1)
        BY <3>3, <3>4
      <3>6. f[i - 1] \in Seq(S)
        BY <3>2, <3>5
      <3>7. f[i] = f[i - 1] \o ls[i]
        BY <2>2, <3>5 DEF Piles
      <3> QED
        BY <3>3, <3>6, <3>7
    <2>4. Len(ls) \in 1 .. Len(ls)
      BY <2>1
    <2>5. f[Len(ls)] \in Seq(S)
      BY <2>3, <2>4
    <2> QED
      BY <2>2, <2>5 DEF Piles
  <1> QED
    BY <1>1, <1>2

=============================================================================
