------------------------- MODULE PageReclaimProofs -------------------------
(***************************************************************************)
(* Proofs about page ageing and reclaim, for every set of pages and every  *)
(* finite set of reclaimers.                                               *)
(*                                                                         *)
(* ReclaimIInv is inductive.  The lists are handled through the sets of    *)
(* their members: a list without repetitions is as long as its set is      *)
(* large, and a reference count is a sum over the reclaimers of which a    *)
(* step changes one term.                                                  *)
(***************************************************************************)
EXTENDS PageReclaimInv, FiniteSetTheorems, FunctionTheorems, WellFoundedInduction, TLAPS

-----------------------------------------------------------------------------
(* Sequences.                                                              *)

\* A set of natural numbers has a least element.
LEMMA Least ==
    ASSUME NEW S \in SUBSET Nat, S # {}
    PROVE  \E x \in S : \A y \in S : x <= y
<1> DEFINE R == OpToRel(<, Nat)
<1>1. IsWellFoundedOn(R, Nat)
  BY NatLessThanWellFounded
<1>2. \A x, y \in Nat : y < x => <<y, x>> \in R
  BY DEF OpToRel
<1> HIDE DEF R
<1>3. PICK x \in S : \A y \in S : ~(<<y, x>> \in R)
  BY <1>1, WFMin
<1>4. ASSUME NEW y \in S PROVE x <= y
  <2>1. x \in Nat /\ y \in Nat
    OBVIOUS
  <2>2. ~(y < x)
    BY <1>2, <1>3, <2>1
  <2> QED
    BY <2>1, <2>2
<1> QED
  BY <1>4

\* The places of a sequence.
LEMMA Places ==
    ASSUME NEW S, NEW s \in Seq(S)
    PROVE  /\ Len(s) \in Nat /\ DOMAIN s = 1..Len(s)
           /\ \A k \in 1..Len(s) : s[k] \in S /\ s[k] \in ToSet(s)
           /\ ToSet(s) \subseteq S
           /\ \A x \in ToSet(s) : \E k \in 1..Len(s) : s[k] = x
           /\ (s = <<>> <=> Len(s) = 0) /\ (s = <<>> <=> ToSet(s) = {})
<1>1. Len(s) \in Nat /\ DOMAIN s = 1..Len(s) /\ (s = <<>> <=> Len(s) = 0)
  OBVIOUS
<1>2. ASSUME s # <<>> PROVE ToSet(s) # {}
  <2>1. 1 \in DOMAIN s
    BY <1>2
  <2> QED
    BY <2>1 DEF ToSet
<1>3. s = <<>> => ToSet(s) = {}
  BY DEF ToSet
<1> QED
  <2>1. \A x \in ToSet(s) : \E k \in 1..Len(s) : s[k] = x
    BY <1>1 DEF ToSet
  <2>2. \A k \in 1..Len(s) : s[k] \in S
    OBVIOUS
  <2>3. \A k \in 1..Len(s) : s[k] \in ToSet(s)
    BY <1>1 DEF ToSet
  <2>4. ToSet(s) \subseteq S
    BY <2>1, <2>2
  <2> HIDE DEF ToSet
  <2> QED
    BY <1>1, <1>2, <1>3, <2>1, <2>2, <2>3, <2>4

\* An element in front of a sequence.
LEMMA Prepended ==
    ASSUME NEW S, NEW s \in Seq(S), NEW e \in S
    PROVE  /\ <<e>> \o s \in Seq(S) /\ Len(<<e>> \o s) = Len(s) + 1
           /\ ToSet(<<e>> \o s) = ToSet(s) \cup {e}
           /\ NoTwice(s) /\ e \notin ToSet(s) => NoTwice(<<e>> \o s)
<1> DEFINE r == <<e>> \o s
<1>1. /\ r \in Seq(S) /\ Len(r) = Len(s) + 1 /\ r[1] = e
      /\ \A k \in 1..Len(s) : r[k + 1] = s[k]
  OBVIOUS
<1> HIDE DEF r
<1>2. DOMAIN r = 1..Len(s) + 1 /\ DOMAIN s = 1..Len(s) /\ Len(s) \in Nat
  BY <1>1
<1>3. \A k \in DOMAIN r : \/ k = 1 /\ r[k] = e
                          \/ k - 1 \in DOMAIN s /\ r[k] = s[k - 1]
  BY <1>1, <1>2
<1>4. ASSUME NoTwice(s), e \notin ToSet(s) PROVE NoTwice(r)
  <2> SUFFICES ASSUME NEW m \in DOMAIN r, NEW n \in DOMAIN r, r[m] = r[n]
               PROVE  m = n
    BY DEF NoTwice
  <2>1. \A k \in DOMAIN s : s[k] # e
    BY <1>4 DEF ToSet
  <2> QED
    BY <1>2, <1>3, <1>4, <2>1 DEF NoTwice
<1>5. ToSet(r) = ToSet(s) \cup {e}
  <2>1. \A x \in ToSet(r) : x \in ToSet(s) \cup {e}
    BY <1>3 DEF ToSet
  <2>2. \A x \in ToSet(s) : x \in ToSet(r)
    <3> SUFFICES ASSUME NEW k \in DOMAIN s PROVE s[k] \in ToSet(r)
      BY DEF ToSet
    <3>1. k + 1 \in DOMAIN r /\ r[k + 1] = s[k]
      BY <1>1, <1>2
    <3> QED
      BY <3>1 DEF ToSet
  <2>3. e \in ToSet(r)
    BY <1>1, <1>2 DEF ToSet
  <2> QED
    BY <2>1, <2>2, <2>3
<1> QED
  BY <1>1, <1>4, <1>5 DEF r

\* A part of a sequence.
LEMMA Part ==
    ASSUME NEW S, NEW s \in Seq(S), NEW m \in Nat \ {0}, NEW n \in 0..Len(s)
    PROVE  /\ SubSeq(s, m, n) \in Seq(S)
           /\ ToSet(SubSeq(s, m, n)) = {s[k] : k \in m..n}
           /\ m <= n + 1 => Len(SubSeq(s, m, n)) = n - m + 1
           /\ NoTwice(s) => NoTwice(SubSeq(s, m, n))
<1> DEFINE r == SubSeq(s, m, n)
<1>1. \A k \in m..n : k \in 1..Len(s) /\ s[k] \in S
  OBVIOUS
<1>2. /\ r \in Seq(S) /\ DOMAIN r = 1..n - m + 1
      /\ m <= n + 1 => Len(r) = n - m + 1
      /\ \A k \in 1..n - m + 1 : r[k] = s[m + k - 1]
  BY <1>1
<1> HIDE DEF r
<1>3. \A k \in DOMAIN r : m + k - 1 \in m..n
  BY <1>2
<1>4. ToSet(r) = {s[k] : k \in m..n}
  <2>1. \A x \in ToSet(r) : x \in {s[k] : k \in m..n}
    BY <1>2, <1>3 DEF ToSet
  <2>2. ASSUME NEW k \in m..n PROVE s[k] \in ToSet(r)
    <3>1. k - m + 1 \in DOMAIN r /\ m + (k - m + 1) - 1 = k
      BY <1>2
    <3> QED
      BY <1>2, <3>1 DEF ToSet
  <2> QED
    BY <2>1, <2>2
<1>5. ASSUME NoTwice(s) PROVE NoTwice(r)
  <2> SUFFICES ASSUME NEW i \in DOMAIN r, NEW j \in DOMAIN r, r[i] = r[j]
               PROVE  i = j
    BY DEF NoTwice
  <2>1. m + i - 1 \in DOMAIN s /\ m + j - 1 \in DOMAIN s
    BY <1>1, <1>3
  <2>2. m + i - 1 = m + j - 1
    BY <1>2, <1>5, <2>1 DEF NoTwice
  <2> QED
    BY <1>2, <2>2
<1> QED
  BY <1>2, <1>4, <1>5 DEF r

\* The last element and the others.
LEMMA Shortened ==
    ASSUME NEW S, NEW s \in Seq(S), s # <<>>
    PROVE  /\ Last(s) \in S /\ Last(s) \in ToSet(s)
           /\ Front(s) \in Seq(S) /\ Len(Front(s)) = Len(s) - 1
           /\ ToSet(s) = ToSet(Front(s)) \cup {Last(s)}
           /\ NoTwice(s) => NoTwice(Front(s)) /\ Last(s) \notin ToSet(Front(s))
<1>1. /\ Len(s) \in Nat \ {0} /\ DOMAIN s = 1..Len(s) /\ Last(s) = s[Len(s)]
      /\ s[Len(s)] \in S
  BY DEF Last
<1>2. /\ Front(s) \in Seq(S) /\ Len(Front(s)) = Len(s) - 1
      /\ ToSet(Front(s)) = {s[k] : k \in 1..Len(s) - 1}
      /\ NoTwice(s) => NoTwice(Front(s))
  <2>1. Len(s) - 1 \in 0..Len(s) /\ 1 \in Nat \ {0} /\ 1 <= (Len(s) - 1) + 1
        /\ (Len(s) - 1) - 1 + 1 = Len(s) - 1
    BY <1>1
  <2>2. Front(s) = SubSeq(s, 1, Len(s) - 1)
    BY DEF Front
  <2> DEFINE m == Len(s) - 1
             q == SubSeq(s, 1, m)
  <2>3. /\ q \in Seq(S) /\ Len(q) = m - 1 + 1
        /\ ToSet(q) = {s[k] : k \in 1..m}
        /\ NoTwice(s) => NoTwice(q)
    <3> HIDE DEF m
    <3>1. m \in 0..Len(s) /\ 1 \in Nat \ {0} /\ 1 <= m + 1
      BY <2>1 DEF m
    <3> QED
      BY <3>1, Part
  <2> QED
    BY <2>1, <2>2, <2>3
<1> DEFINE n == Len(s)
           r == Front(s)
           last == Last(s)
<1>3. /\ n \in Nat \ {0} /\ DOMAIN s = 1..n /\ last = s[n] /\ last \in S
      /\ ToSet(r) = {s[k] : k \in 1..n - 1}
  BY <1>1, <1>2
<1> HIDE DEF n, r, last
<1>4. \A k \in 1..n : k = n \/ k \in 1..n - 1
  BY <1>3
<1>5. (\A k \in 1..n - 1 : k \in 1..n /\ k # n) /\ n \in 1..n
  BY <1>3
<1>6. last \in ToSet(s)
  BY <1>3, <1>5 DEF ToSet
<1>7. ToSet(s) = ToSet(r) \cup {last}
  <2>1. \A x \in ToSet(s) : x \in ToSet(r) \cup {last}
    BY <1>3, <1>4 DEF ToSet
  <2>2. \A x \in ToSet(r) : x \in ToSet(s)
    BY <1>3, <1>5 DEF ToSet
  <2> QED
    BY <1>6, <2>1, <2>2
<1>8. ASSUME NoTwice(s) PROVE last \notin ToSet(r)
  BY <1>3, <1>5, <1>8 DEF NoTwice
<1> QED
  BY <1>2, <1>3, <1>6, <1>7, <1>8 DEF r, last

\* Two sequences, one behind the other.
LEMMA Joined ==
    ASSUME NEW S, NEW s \in Seq(S), NEW t \in Seq(S)
    PROVE  /\ s \o t \in Seq(S) /\ Len(s \o t) = Len(s) + Len(t)
           /\ ToSet(s \o t) = ToSet(s) \cup ToSet(t)
           /\ NoTwice(s) /\ NoTwice(t) /\ Disjoint(s, t) => NoTwice(s \o t)
<1> DEFINE r == s \o t
<1>1. /\ r \in Seq(S) /\ Len(r) = Len(s) + Len(t)
      /\ \A k \in 1..Len(s) : r[k] = s[k]
      /\ \A k \in 1..Len(t) : r[Len(s) + k] = t[k]
  OBVIOUS
<1> HIDE DEF r
<1>2. /\ Len(s) \in Nat /\ Len(t) \in Nat
      /\ DOMAIN r = 1..Len(s) + Len(t) /\ DOMAIN s = 1..Len(s) /\ DOMAIN t = 1..Len(t)
  BY <1>1
<1>3. \A k \in DOMAIN r : \/ k \in 1..Len(s) /\ r[k] = s[k]
                          \/ k - Len(s) \in 1..Len(t) /\ r[k] = t[k - Len(s)]
  BY <1>1, <1>2
<1>4. ToSet(r) = ToSet(s) \cup ToSet(t)
  <2>1. \A x \in ToSet(r) : x \in ToSet(s) \cup ToSet(t)
    BY <1>2, <1>3 DEF ToSet
  <2>2. \A k \in 1..Len(s) : k \in DOMAIN r
    BY <1>2
  <2>3. \A k \in 1..Len(t) : Len(s) + k \in DOMAIN r
    BY <1>2
  <2> QED
    <3>1. \A x \in ToSet(s) : x \in ToSet(r)
      BY <1>1, <1>2, <2>2 DEF ToSet
    <3>2. \A x \in ToSet(t) : x \in ToSet(r)
      BY <1>1, <1>2, <2>3 DEF ToSet
    <3> QED
      BY <2>1, <3>1, <3>2
<1>5. ASSUME NoTwice(s), NoTwice(t), Disjoint(s, t) PROVE NoTwice(r)
  <2> SUFFICES ASSUME NEW m \in DOMAIN r, NEW n \in DOMAIN r, r[m] = r[n]
               PROVE  m = n
    BY DEF NoTwice
  <2>1. \A j \in 1..Len(s), k \in 1..Len(t) : s[j] # t[k]
    BY <1>2, <1>5 DEF Disjoint, ToSet
  <2>2. CASE m \in 1..Len(s) /\ n \in 1..Len(s)
    BY <1>1, <1>2, <1>5, <2>2 DEF NoTwice
  <2>3. CASE m - Len(s) \in 1..Len(t) /\ n - Len(s) \in 1..Len(t)
    <3>1. t[m - Len(s)] = t[n - Len(s)]
      BY <1>2, <1>3, <2>3
    <3>2. m - Len(s) = n - Len(s)
      BY <1>2, <1>5, <2>3, <3>1 DEF NoTwice
    <3> QED
      BY <1>2, <3>2
  <2> QED
    BY <1>2, <1>3, <2>1, <2>2, <2>3
<1> QED
  BY <1>1, <1>4, <1>5 DEF r

\* Lists with different pages, joined.
LEMMA JoinedApart ==
    ASSUME NEW S, NEW s \in Seq(S), NEW t \in Seq(S),
           NoTwice(s), NoTwice(t), ToSet(s) \cap ToSet(t) = {}
    PROVE  /\ s \o t \in Seq(S) /\ NoTwice(s \o t)
           /\ ToSet(s \o t) = ToSet(s) \cup ToSet(t)
BY Joined DEF Disjoint

\* A list without repetitions is as long as its set of members is large.
LEMMA LengthIsSize ==
    ASSUME NEW S, NEW s \in Seq(S), NoTwice(s)
    PROVE  IsFiniteSet(ToSet(s)) /\ Len(s) = Cardinality(ToSet(s))
<1>1. Len(s) \in Nat /\ DOMAIN s = 1..Len(s)
  OBVIOUS
<1>2. s \in Bijection(1..Len(s), ToSet(s))
  <2>1. s \in [1..Len(s) -> ToSet(s)]
    BY <1>1 DEF ToSet
  <2>2. \A i, j \in 1..Len(s) : s[i] = s[j] => i = j
    BY <1>1 DEF NoTwice
  <2>3. \A x \in ToSet(s) : \E i \in 1..Len(s) : s[i] = x
    BY <1>1 DEF ToSet
  <2> QED
    BY <2>1, <2>2, <2>3, Fun_IsBij
<1>3. IsFiniteSet(1..Len(s)) /\ Cardinality(1..Len(s)) = Len(s)
  BY <1>1, FS_Interval
<1> QED
  BY <1>2, <1>3, FS_Bijection DEF ExistsBijection

\* The recursion of Only: g is it up to n.
Keeps(g, s, K, n) ==
    g = [k \in 0..n |->
            IF k = 0 THEN <<>>
            ELSE IF s[k] \in K THEN Append(g[k - 1], s[k]) ELSE g[k - 1]]

\* The recursion has a solution: otherwise there is a least n up to which it
\* has none.
LEMMA KeepsExists ==
    ASSUME NEW s, NEW K, NEW N \in Nat
    PROVE  \E g : Keeps(g, s, K, N)
<1> DEFINE Solved(n) == \E g : Keeps(g, s, K, n)
           T == {n \in 0..N : ~Solved(n)}
<1> SUFFICES ASSUME ~Solved(N) PROVE FALSE
  OBVIOUS
<1>1. T \in SUBSET Nat /\ T # {}
  OBVIOUS
<1>2. Solved(0)
  <2> DEFINE g == [k \in 0..0 |-> <<>>]
  <2>1. \A k \in 0..0 : k = 0
    OBVIOUS
  <2>2. Keeps(g, s, K, 0)
    BY <2>1 DEF Keeps
  <2> QED
    BY <2>2
<1>3. ASSUME NEW x \in Nat, x >= 1, Solved(x - 1) PROVE Solved(x)
  <2>1. PICK g : Keeps(g, s, K, x - 1)
    BY <1>3
  <2> DEFINE h == [k \in 0..x |->
                      IF k = x
                      THEN IF s[x] \in K THEN Append(g[x - 1], s[x]) ELSE g[x - 1]
                      ELSE g[k]]
  <2>2. \A k \in 0..x - 1 : k \in 0..x /\ k # x /\ h[k] = g[k]
    BY <1>3
  <2>3. h[x] = IF s[x] \in K THEN Append(g[x - 1], s[x]) ELSE g[x - 1]
    BY <1>3
  <2>4. \A k \in 0..x - 1 :
           g[k] = IF k = 0 THEN <<>>
                  ELSE IF s[k] \in K THEN Append(g[k - 1], s[k]) ELSE g[k - 1]
    BY <2>1 DEF Keeps
  <2>5. DOMAIN h = 0..x /\ h = [k \in 0..x |-> h[k]]
    OBVIOUS
  <2> HIDE DEF h
  <2>6. \A k \in 0..x :
           h[k] = IF k = 0 THEN <<>>
                  ELSE IF s[k] \in K THEN Append(h[k - 1], s[k]) ELSE h[k - 1]
    <3> SUFFICES ASSUME NEW k \in 0..x
                 PROVE  h[k] = IF k = 0 THEN <<>>
                               ELSE IF s[k] \in K THEN Append(h[k - 1], s[k])
                                    ELSE h[k - 1]
      OBVIOUS
    <3>1. CASE k = x
      <4>1. x - 1 \in 0..x - 1 /\ k # 0
        BY <1>3, <3>1
      <4> QED
        BY <2>2, <2>3, <3>1, <4>1
    <3>2. CASE k = 0
      <4>1. 0 \in 0..x - 1
        BY <1>3
      <4> QED
        BY <2>2, <2>4, <3>2, <4>1
    <3>3. CASE k # x /\ k # 0
      <4>1. k \in 0..x - 1 /\ k - 1 \in 0..x - 1
        BY <3>3
      <4> QED
        BY <2>2, <2>4, <3>3, <4>1
    <3> QED
      BY <3>1, <3>2, <3>3
  <2>7. Keeps(h, s, K, x)
    BY <2>5, <2>6 DEF Keeps
  <2> QED
    BY <2>7
<1> HIDE DEF Solved
<1>4. PICK x \in T : \A y \in T : x <= y
  BY <1>1, Least
<1>5. x \in Nat /\ x >= 1 /\ ~Solved(x)
  BY <1>2, <1>4
<1>6. x - 1 \in 0..N /\ x - 1 \notin T
  BY <1>4, <1>5
<1>7. Solved(x - 1)
  BY <1>6
<1> QED
  BY <1>3, <1>5, <1>7

\* Only takes the members of K, each as often as it was there, and nothing
\* else.
LEMMA OnlyIs ==
    ASSUME NEW S, NEW s \in Seq(S), NEW K
    PROVE  /\ Only(s, K) \in Seq(S)
           /\ ToSet(Only(s, K)) = ToSet(s) \cap K
           /\ NoTwice(s) => NoTwice(Only(s, K))
<1> DEFINE f == CHOOSE g : Keeps(g, s, K, Len(s))
           Upto(n) == {s[k] : k \in 1..n}
           Good(n) == /\ f[n] \in Seq(S)
                      /\ ToSet(f[n]) = Upto(n) \cap K
                      /\ NoTwice(s) => NoTwice(f[n])
           T == {n \in 0..Len(s) : ~Good(n)}
<1>1. Only(s, K) = f[Len(s)]
  BY DEF Only, Keeps
<1>2. Keeps(f, s, K, Len(s))
  <2>1. Len(s) \in Nat
    OBVIOUS
  <2> QED
    BY <2>1, KeepsExists
<1> HIDE DEF f
<1>3. \A k \in 0..Len(s) :
         f[k] = IF k = 0 THEN <<>>
                ELSE IF s[k] \in K THEN Append(f[k - 1], s[k]) ELSE f[k - 1]
  BY <1>2 DEF Keeps
<1>4. Good(0)
  <2>1. f[0] = <<>> /\ Upto(0) = {}
    BY <1>3
  <2> QED
    BY <2>1 DEF NoTwice, ToSet
<1>5. ASSUME NEW x \in 1..Len(s), Good(x - 1) PROVE Good(x)
  <2>1. s[x] \in S /\ f[x - 1] \in Seq(S) /\ x \in 0..Len(s) /\ x # 0
    BY <1>5
  <2>2. Upto(x) = Upto(x - 1) \cup {s[x]}
    <3>1. \A k \in 1..x : k = x \/ k \in 1..x - 1
      OBVIOUS
    <3>2. \A k \in 1..x - 1 : k \in 1..x
      OBVIOUS
    <3> QED
      BY <3>1, <3>2
  <2>3. ASSUME NoTwice(s) PROVE s[x] \notin Upto(x - 1)
    <3>1. \A k \in 1..x - 1 : k \in DOMAIN s /\ x \in DOMAIN s /\ k # x
      OBVIOUS
    <3> QED
      BY <2>3, <3>1 DEF NoTwice
  <2>4. CASE s[x] \in K
    <3> DEFINE e == s[x]
               old == f[x - 1]
    <3>1. e \in S /\ old \in Seq(S) /\ e \in K /\ f[x] = Append(old, e)
      BY <1>3, <2>1, <2>4
    <3>2. ToSet(old) = Upto(x - 1) \cap K /\ (NoTwice(s) => NoTwice(old))
      BY <1>5
    <3>3. Upto(x) = Upto(x - 1) \cup {e} /\ (NoTwice(s) => e \notin Upto(x - 1))
      BY <2>2, <2>3
    <3> HIDE DEF Upto, e, old
    <3>4. f[x] = old \o <<e>> /\ <<e>> \in Seq(S)
      <4>1. <<e>> \in Seq(S)
        BY <3>1
      <4>2. Append(old, e) = old \o <<e>>
        <5>1. old \in Seq(S) /\ e \in S
          BY <3>1
        <5> HIDE DEF T
        <5> QED
          BY <5>1
      <4> QED
        BY <3>1, <4>1, <4>2
    <3>5. ToSet(<<e>>) = {e} /\ NoTwice(<<e>>)
      BY DEF ToSet, NoTwice
    <3>6. /\ old \o <<e>> \in Seq(S) /\ ToSet(old \o <<e>>) = ToSet(old) \cup {e}
          /\ NoTwice(old) /\ e \notin ToSet(old) => NoTwice(old \o <<e>>)
      <4>1. e \notin ToSet(old) => Disjoint(old, <<e>>)
        BY <3>5 DEF Disjoint
      <4>2. /\ old \o <<e>> \in Seq(S)
            /\ ToSet(old \o <<e>>) = ToSet(old) \cup ToSet(<<e>>)
            /\ NoTwice(old) /\ NoTwice(<<e>>) /\ Disjoint(old, <<e>>)
                  => NoTwice(old \o <<e>>)
        <5> DEFINE one == <<e>>
        <5>1. old \in Seq(S) /\ one \in Seq(S)
          BY <3>1, <3>4
        <5> HIDE DEF one
        <5>2. /\ old \o one \in Seq(S)
              /\ ToSet(old \o one) = ToSet(old) \cup ToSet(one)
              /\ NoTwice(old) /\ NoTwice(one) /\ Disjoint(old, one)
                    => NoTwice(old \o one)
          BY <5>1, Joined
        <5> QED
          BY <5>2 DEF one
      <4> QED
        BY <3>5, <4>1, <4>2, Zenon
        <3> QED
      BY <3>1, <3>2, <3>3, <3>4, <3>6
  <2>5. CASE s[x] \notin K
    <3>1. f[x] = f[x - 1]
      BY <1>3, <2>1, <2>5
    <3> HIDE DEF Upto
    <3> QED
      BY <1>5, <2>2, <2>5, <3>1
  <2> QED
    BY <2>4, <2>5
<1>6. ASSUME NEW n \in 0..Len(s) PROVE Good(n)
  <2> SUFFICES ASSUME ~Good(n) PROVE FALSE
    OBVIOUS
  <2> HIDE DEF Good
  <2>1. T \in SUBSET Nat /\ T # {}
    OBVIOUS
  <2>2. PICK x \in T : \A y \in T : x <= y
    BY <2>1, Least
  <2>3. x \in 1..Len(s) /\ ~Good(x)
    BY <1>4, <2>2
  <2>4. x - 1 \in 0..Len(s) /\ x - 1 \notin T
    BY <2>2, <2>3
  <2>5. Good(x - 1)
    BY <2>4
  <2> QED
    BY <1>5, <2>3, <2>5
<1>7. Len(s) \in 0..Len(s) /\ Upto(Len(s)) = ToSet(s)
  BY DEF ToSet
<1> QED
  BY <1>1, <1>6, <1>7

-----------------------------------------------------------------------------
(* Numbers of occurrences, and sums.                                       *)

\* How often an element is in a sequence.
LEMMA Occurs ==
    ASSUME NEW S, NEW s \in Seq(S), NEW p
    PROVE  /\ IsFiniteSet({i \in DOMAIN s : s[i] = p}) /\ Occurrences(p, s) \in Nat
           /\ Occurrences(p, s) = 0 <=> p \notin ToSet(s)
           /\ NoTwice(s) /\ p \in ToSet(s) => Occurrences(p, s) = 1
<1> DEFINE A == {i \in DOMAIN s : s[i] = p}
<1>1. IsFiniteSet(A)
  <2>1. Len(s) \in Nat /\ DOMAIN s = 1..Len(s)
    OBVIOUS
  <2>2. IsFiniteSet(DOMAIN s)
    BY <2>1, FS_Interval
  <2> QED
    BY <2>2, FS_Subset
<1>2. Cardinality(A) \in Nat /\ (Cardinality(A) = 0 <=> A = {})
  BY <1>1, FS_CardinalityType, FS_EmptySet
<1>3. A = {} <=> p \notin ToSet(s)
  BY DEF ToSet
<1>4. ASSUME NoTwice(s), p \in ToSet(s) PROVE Cardinality(A) = 1
  <2>1. PICK i \in DOMAIN s : s[i] = p
    BY <1>4 DEF ToSet
  <2>2. A = {i}
    BY <1>4, <2>1 DEF NoTwice
  <2> QED
    BY <2>2, FS_Singleton
<1> QED
  BY <1>1, <1>2, <1>3, <1>4 DEF Occurrences

\* In two sequences together, and with one element more.
LEMMA OccursJoined ==
    ASSUME NEW S, NEW s \in Seq(S), NEW t \in Seq(S), NEW p
    PROVE  Occurrences(p, s \o t) = Occurrences(p, s) + Occurrences(p, t)
<1> DEFINE r == s \o t
           A == {i \in DOMAIN s : s[i] = p}
           B == {i \in DOMAIN t : t[i] = p}
           C == {i \in DOMAIN r : r[i] = p}
           D == {i \in C : i - Len(s) \in DOMAIN t}
           f == [i \in B |-> Len(s) + i]
<1>1. /\ Len(s) \in Nat /\ Len(t) \in Nat
      /\ DOMAIN r = 1..Len(s) + Len(t) /\ DOMAIN s = 1..Len(s) /\ DOMAIN t = 1..Len(t)
      /\ \A k \in 1..Len(s) : r[k] = s[k]
      /\ \A k \in 1..Len(t) : r[Len(s) + k] = t[k]
  OBVIOUS
<1> HIDE DEF r
<1>2. \A k \in DOMAIN r : \/ k \in DOMAIN s /\ k - Len(s) \notin DOMAIN t /\ r[k] = s[k]
                          \/ /\ k \notin DOMAIN s /\ k - Len(s) \in DOMAIN t
                             /\ r[k] = t[k - Len(s)]
  BY <1>1
<1>3. \A k \in DOMAIN t : Len(s) + k \in DOMAIN r /\ Len(s) + k - Len(s) = k
  BY <1>1
<1>4. \A k \in DOMAIN s : k \in DOMAIN r
  BY <1>1
<1>5. C = A \cup D /\ A \cap D = {}
  BY <1>1, <1>2, <1>4
<1>6. IsFiniteSet(A) /\ IsFiniteSet(B)
  BY Occurs
<1>7. f \in Bijection(B, D)
  <2>1. \A i \in B : f[i] = Len(s) + i /\ f[i] \in D
    BY <1>1, <1>3
  <2>2. f \in [B -> D]
    BY <2>1
  <2>3. \A i, j \in B : f[i] = f[j] => i = j
    BY <1>1, <2>1
  <2>4. ASSUME NEW k \in D PROVE \E i \in B : f[i] = k
    <3>1. k - Len(s) \in B /\ Len(s) + (k - Len(s)) = k
      BY <1>1, <1>2
    <3> QED
      BY <2>1, <3>1
  <2> QED
    BY <2>2, <2>3, <2>4, Fun_IsBij
<1>8. IsFiniteSet(D) /\ Cardinality(D) = Cardinality(B)
  BY <1>6, <1>7, FS_Bijection DEF ExistsBijection
<1> HIDE DEF A, B, C, D
<1>9. Cardinality(C) = Cardinality(A) + Cardinality(D) - Cardinality({})
  BY <1>5, <1>6, <1>8, FS_Union
<1>10. Cardinality({}) = 0 /\ Cardinality(A) \in Nat /\ Cardinality(D) \in Nat
  BY <1>6, <1>8, FS_EmptySet, FS_CardinalityType
<1> QED
  <2>1. Cardinality(C) = Cardinality(A) + Cardinality(B)
    BY <1>8, <1>9, <1>10
  <2> QED
    BY <2>1 DEF Occurrences, r, A, B, C

\* A page in a list that got one more element.
LEMMA OccursAppended ==
    ASSUME NEW S, NEW s \in Seq(S), NEW e \in S, NEW p
    PROVE  /\ Append(s, e) \in Seq(S)
           /\ Occurrences(p, Append(s, e)) =
                 Occurrences(p, s) + (IF p = e THEN 1 ELSE 0)
<1>1. <<e>> \in Seq(S) /\ Append(s, e) = s \o <<e>> /\ Append(s, e) \in Seq(S)
  OBVIOUS
<1>2. ToSet(<<e>>) = {e} /\ NoTwice(<<e>>)
  BY DEF ToSet, NoTwice
<1>3. Occurrences(p, <<e>>) = IF p = e THEN 1 ELSE 0
  BY <1>1, <1>2, Occurs
<1> QED
  BY <1>1, <1>3, OccursJoined

\* A sum over a finite set, by one of its terms.
LEMMA TotalSplit ==
    ASSUME NEW S, IsFiniteSet(S), NEW f \in [S -> Nat], NEW x \in S
    PROVE  /\ Total(f) \in Nat /\ Total([y \in S \ {x} |-> f[y]]) \in Nat
           /\ Total(f) = f[x] + Total([y \in S \ {x} |-> f[y]])
<1> DEFINE g == [y \in S \ {x} |-> f[y]]
           Heap(y) == {y} \X (1..f[y])
           All == UNION {Heap(y) : y \in S}
           Rest == UNION {Heap(y) : y \in S \ {x}}
           h == [y \in S |-> Heap(y)]
<1>1. \A y \in S : IsFiniteSet(Heap(y)) /\ Cardinality(Heap(y)) = f[y]
  <2> SUFFICES ASSUME NEW y \in S
               PROVE  IsFiniteSet(Heap(y)) /\ Cardinality(Heap(y)) = f[y]
    OBVIOUS
  <2>1. IsFiniteSet({y}) /\ Cardinality({y}) = 1
    BY FS_Singleton
  <2>2. f[y] \in Nat /\ IsFiniteSet(1..f[y]) /\ Cardinality(1..f[y]) = f[y]
    <3>1. f[y] \in Nat /\ 1 \in Int
      OBVIOUS
    <3> QED
      BY <3>1, FS_Interval
  <2>3. IsFiniteSet(Heap(y)) /\ Cardinality(Heap(y)) = Cardinality({y}) * Cardinality(1..f[y])
    BY <2>1, <2>2, FS_Product
  <2> QED
    BY <2>1, <2>2, <2>3
<1>2. IsFiniteSet(All)
  <2>1. h \in Surjection(S, {Heap(y) : y \in S})
    <3>1. h \in [S -> {Heap(y) : y \in S}]
      OBVIOUS
    <3>2. \A z \in {Heap(y) : y \in S} : \E y \in S : h[y] = z
      OBVIOUS
    <3> QED
      BY <3>1, <3>2, Fun_IsSurj
  <2>2. IsFiniteSet({Heap(y) : y \in S})
    BY <2>1, FS_Surjection
  <2> HIDE DEF Heap
  <2> QED
    BY <1>1, <2>2, FS_UNION
<1>3. All = Rest \cup Heap(x) /\ Rest \cap Heap(x) = {}
  <2>1. All = Rest \cup Heap(x)
    <3> HIDE DEF Heap
    <3> QED
      OBVIOUS
  <2>2. \A y \in S \ {x} : Heap(y) \cap Heap(x) = {}
    OBVIOUS
  <2> HIDE DEF Heap
  <2> QED
    BY <2>1, <2>2
<1>4. Rest \in SUBSET All /\ IsFiniteSet(Rest)
  <2>1. Rest \in SUBSET All
    BY <1>3
  <2> QED
    BY <1>2, <2>1, FS_Subset
<1>5. Total(f) = Cardinality(All)
  BY DEF Total
<1>6. Total(g) = Cardinality(Rest)
  <2>1. {{y} \X (1..g[y]) : y \in DOMAIN g} = {Heap(y) : y \in S \ {x}}
    OBVIOUS
  <2> QED
    BY <2>1 DEF Total
<1> HIDE DEF Heap, All, Rest, g
<1>7. Cardinality(All) = Cardinality(Rest) + Cardinality(Heap(x)) - Cardinality({})
  BY <1>1, <1>3, <1>4, FS_Union
<1>8. Cardinality({}) = 0 /\ Cardinality(All) \in Nat /\ Cardinality(Rest) \in Nat
  BY <1>2, <1>4, FS_EmptySet, FS_CardinalityType
<1>9. Total(f) \in Nat /\ Total(g) \in Nat /\ Total(f) = f[x] + Total(g)
  BY <1>1, <1>5, <1>6, <1>7, <1>8
<1> QED
  BY <1>9 DEF g

\* One term of a sum changes.
LEMMA TotalChanges ==
    ASSUME NEW S, IsFiniteSet(S), NEW f \in [S -> Nat], NEW g \in [S -> Nat],
           NEW x \in S, \A y \in S : y # x => g[y] = f[y]
    PROVE  /\ Total(f) \in Nat /\ Total(g) \in Nat
           /\ Total(g) - g[x] = Total(f) - f[x]
<1> DEFINE h == [y \in S \ {x} |-> f[y]]
<1>1. h = [y \in S \ {x} |-> g[y]]
  OBVIOUS
<1>2. Total(f) \in Nat /\ Total(h) \in Nat /\ Total(f) = f[x] + Total(h)
  BY TotalSplit
<1>3. Total(g) \in Nat /\ Total(g) = g[x] + Total([y \in S \ {x} |-> g[y]])
  BY TotalSplit
<1>4. f[x] \in Nat /\ g[x] \in Nat
  OBVIOUS
<1> HIDE DEF h
<1> QED
  BY <1>1, <1>2, <1>3, <1>4

\* The terms of a sum are not more than the sum.
LEMMA TotalBound ==
    ASSUME NEW S, IsFiniteSet(S), NEW f \in [S -> Nat], NEW x \in S
    PROVE  /\ Total(f) \in Nat /\ f[x] <= Total(f)
           /\ \A y \in S : y # x => f[x] + f[y] <= Total(f)
<1>1. Total(f) \in Nat /\ f[x] <= Total(f)
  <2>1. f[x] \in Nat /\ Total([y \in S \ {x} |-> f[y]]) \in Nat
    BY TotalSplit
  <2> QED
    BY <2>1, TotalSplit
<1>2. ASSUME NEW y \in S, y # x PROVE f[x] + f[y] <= Total(f)
  <2> DEFINE T == S \ {x}
             g == [z \in T |-> f[z]]
             h == [z \in T \ {y} |-> g[z]]
  <2>1. y \in T /\ g \in [T -> Nat] /\ g[y] = f[y]
    BY <1>2
  <2>2. IsFiniteSet(T)
    BY FS_Subset
  <2>3. Total(f) = f[x] + Total(g)
    BY TotalSplit
  <2> HIDE DEF T, g
  <2>4. Total(h) \in Nat /\ Total(g) = g[y] + Total(h)
    BY <2>1, <2>2, TotalSplit
  <2>5. f[x] \in Nat /\ f[y] \in Nat
    OBVIOUS
  <2> HIDE DEF h
  <2> QED
    BY <2>1, <2>3, <2>4, <2>5
<1> QED
  BY <1>1, <1>2

\* A sum without terms, or of nothing.
LEMMA TotalNothing ==
    ASSUME NEW S, NEW f \in [S -> Nat], \A x \in S : f[x] = 0
    PROVE  Total(f) = 0
<1>1. \A x \in S : {x} \X (1..f[x]) = {}
  OBVIOUS
<1>2. UNION {{x} \X (1..f[x]) : x \in DOMAIN f} = {}
  BY <1>1
<1> QED
  BY <1>2, FS_EmptySet DEF Total

\* A total of numbers is a number.
LEMMA TotalNat ==
    ASSUME NEW S, IsFiniteSet(S), NEW f \in [S -> Nat]
    PROVE  Total(f) \in Nat
<1>1. CASE S = {}
  <2>1. \A x \in S : f[x] = 0
    BY <1>1
  <2> QED
    BY <2>1, TotalNothing
<1>2. CASE S # {}
  BY <1>2, TotalSplit
<1> QED
  BY <1>1, <1>2

-----------------------------------------------------------------------------
(* The lists of the zone, and isolation.                                   *)

\* A list without some pages.
LEMMA Dropped ==
    ASSUME NEW s \in Seq(Pages), NoTwice(s), NEW D
    PROVE  /\ Drop(s, D) \in Seq(Pages) /\ NoTwice(Drop(s, D))
           /\ ToSet(Drop(s, D)) = ToSet(s) \ D
<1>1. ToSet(s) \cap (Pages \ D) = ToSet(s) \ D
  BY Places
<1> QED
  BY <1>1, OnlyIs DEF Drop

\* Isolation divides a list into what is taken and what remains.
LEMMA Divided ==
    ASSUME ReclaimConstants, pg \in [Pages -> PageRecords],
           NEW src \in Seq(Pages), NoTwice(src), NEW n \in Nat \ {0}
    PROVE  /\ Taken(src, n) \in Seq(Pages) /\ NoTwice(Taken(src, n))
           /\ ToSet(Taken(src, n)) \subseteq ToSet(src)
           /\ \A p \in ToSet(Taken(src, n)) : pg[p].count > 0
           /\ Remaining(src, n) \in Seq(Pages) /\ NoTwice(Remaining(src, n))
           /\ ToSet(Remaining(src, n)) = ToSet(src) \ ToSet(Taken(src, n))
           /\ Len(src) = Len(Remaining(src, n)) + Len(Taken(src, n))
           /\ NrScan(src, n) \in Nat
<1> DEFINE m == IF n < Len(src) THEN Len(src) - n + 1 ELSE 1
           in == {p \in Pages : pg[p].count > 0}
           out == {p \in Pages : pg[p].count = 0}
           L == Len(src)
           S == Scanned(src, n)
           U == Unscanned(src, n)
           A == Only(S, in)
           B == Only(S, out)
<1>1. /\ L \in Nat /\ m \in Nat \ {0} /\ L \in 0..Len(src) /\ m - 1 \in 0..Len(src)
      /\ m <= L + 1
      /\ S = SubSeq(src, m, L) /\ U = SubSeq(src, 1, m - 1)
  BY DEF Scanned, Unscanned
<1>3. ToSet(src) = {src[k] : k \in 1..L} /\ DOMAIN src = 1..L
  BY DEF ToSet
<1> HIDE DEF m, L, S, U
<1>2. /\ S \in Seq(Pages) /\ ToSet(S) = {src[k] : k \in m..L} /\ NoTwice(S)
      /\ U \in Seq(Pages) /\ ToSet(U) = {src[k] : k \in 1..m - 1} /\ NoTwice(U)
  <2>1. S \in Seq(Pages) /\ ToSet(S) = {src[k] : k \in m..L} /\ NoTwice(S)
    BY <1>1, Part
  <2>2. 1 \in Nat \ {0}
    OBVIOUS
  <2>3. U \in Seq(Pages) /\ ToSet(U) = {src[k] : k \in 1..m - 1} /\ NoTwice(U)
    BY <1>1, <2>2, Part
  <2> QED
    BY <2>1, <2>3
<1>4. ToSet(src) = ToSet(S) \cup ToSet(U) /\ ToSet(S) \cap ToSet(U) = {}
  <2>1. \A k \in 1..L : k \in m..L \/ k \in 1..m - 1
    BY <1>1
  <2>2. \A k \in m..L : k \in 1..L /\ k \notin 1..m - 1
    BY <1>1
  <2>3. \A k \in 1..m - 1 : k \in 1..L
    BY <1>1
  <2>4. ToSet(S) \cap ToSet(U) = {}
    BY <1>2, <1>3, <2>2, <2>3 DEF NoTwice
  <2>5. ToSet(src) = ToSet(S) \cup ToSet(U)
    BY <1>2, <1>3, <2>1, <2>2, <2>3
  <2> QED
    BY <2>4, <2>5
<1>5. /\ A \in Seq(Pages) /\ NoTwice(A)
      /\ ToSet(A) = ToSet(S) \cap in
  BY <1>2, OnlyIs
<1>6. /\ B \in Seq(Pages) /\ NoTwice(B)
      /\ ToSet(B) = ToSet(S) \cap out
  BY <1>2, OnlyIs
<1> HIDE DEF A, B
<1>7. ToSet(S) \subseteq in \cup out /\ in \cap out = {}
  <2>1. \A p \in Pages : pg[p].count \in Nat
    BY DEF PageRecords
  <2>2. ToSet(S) \subseteq Pages
    BY <1>2, Places
  <2> QED
    BY <2>1, <2>2
<1>8. Taken(src, n) = A /\ Remaining(src, n) = B \o U
  BY DEF Taken, Remaining, S, U, A, B
<1>9. /\ B \o U \in Seq(Pages) /\ NoTwice(B \o U)
      /\ ToSet(B \o U) = ToSet(B) \cup ToSet(U)
  <2>1. ToSet(B) \cap ToSet(U) = {}
    BY <1>4, <1>6
  <2>2. B \in Seq(Pages) /\ U \in Seq(Pages) /\ NoTwice(B) /\ NoTwice(U)
    BY <1>2, <1>6
  <2> QED
    BY <2>1, <2>2, JoinedApart
<1>10. \A p \in ToSet(Taken(src, n)) : pg[p].count > 0
  BY <1>5, <1>8
<1> HIDE DEF in, out
<1>11. ToSet(Remaining(src, n)) = ToSet(src) \ ToSet(Taken(src, n))
  BY <1>4, <1>5, <1>6, <1>7, <1>8, <1>9
<1>12. ToSet(Taken(src, n)) \in SUBSET ToSet(src)
  BY <1>4, <1>5, <1>8
<1>13. Len(src) = Len(Remaining(src, n)) + Len(Taken(src, n))
  <2>1. IsFiniteSet(ToSet(src)) /\ Len(src) = Cardinality(ToSet(src))
    BY LengthIsSize
  <2>2. Len(Taken(src, n)) = Cardinality(ToSet(Taken(src, n)))
    BY <1>5, <1>8, LengthIsSize
  <2>3. Len(Remaining(src, n)) = Cardinality(ToSet(Remaining(src, n)))
    BY <1>8, <1>9, LengthIsSize
  <2>4. Cardinality(ToSet(Remaining(src, n))) =
           Cardinality(ToSet(src)) - Cardinality(ToSet(src) \cap ToSet(Taken(src, n)))
    BY <1>11, <2>1, FS_Difference
  <2>5. ToSet(src) \cap ToSet(Taken(src, n)) = ToSet(Taken(src, n))
    BY <1>12
  <2>6. IsFiniteSet(ToSet(Taken(src, n)))
    BY <1>12, <2>1, FS_Subset
  <2>7. Cardinality(ToSet(src)) \in Nat /\ Cardinality(ToSet(Taken(src, n))) \in Nat
    BY <2>1, <2>6, FS_CardinalityType
  <2>8. Cardinality(ToSet(Remaining(src, n))) =
           Cardinality(ToSet(src)) - Cardinality(ToSet(Taken(src, n)))
    BY <2>4, <2>5
  <2> DEFINE k1 == Cardinality(ToSet(src))
             k2 == Cardinality(ToSet(Taken(src, n)))
             k3 == Cardinality(ToSet(Remaining(src, n)))
  <2>9. k1 \in Nat /\ k2 \in Nat /\ k3 = k1 - k2
    BY <2>7, <2>8
  <2> HIDE DEF k1, k2, k3
  <2>10. k1 = k3 + k2
    BY <2>9
  <2> QED
    BY <2>1, <2>2, <2>3, <2>10 DEF k1, k2, k3
<1>14. NrScan(src, n) \in Nat
  BY DEF NrScan
<1> QED
  BY <1>5, <1>8, <1>9, <1>10, <1>11, <1>12, <1>13, <1>14

-----------------------------------------------------------------------------
(* The lists of one reclaimer.                                             *)

\* The pages of a reclaimer, in one list.
OneList(c) == c.hold \o c.inact \o c.act \o c.back
                \o (IF c.page = Nobody THEN <<>> ELSE <<c.page>>)

\* A reclaimer counts a page once when it has isolated it, and for every place
\* of its pagevec.
Mine(p, c) == (IF p \in Private(c) THEN 1 ELSE 0) + Occurrences(p, c.pvec)

\* The references of a reclaimer: one for a page it has isolated, one for each
\* slot of its pagevec.
LEMMA MineIs ==
    ASSUME ReclaimConstants, NEW c \in Locals, Neat(c), NEW p \in Pages
    PROVE  /\ ToSet(OneList(c)) = Private(c) /\ Occurrences(p, OneList(c)) \in {0, 1}
           /\ Occurrences(p, OneList(c) \o c.pvec) = Mine(p, c) /\ Mine(p, c) \in Nat
<1> DEFINE s == c.hold
           t == c.inact
           u == c.act
           v == c.back
           w == IF c.page = Nobody THEN <<>> ELSE <<c.page>>
<1>1. /\ s \in Seq(Pages) /\ t \in Seq(Pages) /\ u \in Seq(Pages) /\ v \in Seq(Pages)
      /\ c.pvec \in Seq(Pages) /\ c.page \in Pages \cup {Nobody}
  BY DEF Locals
<1>2. /\ w \in Seq(Pages) /\ NoTwice(w) /\ ToSet(w) = {c.page} \cap Pages
  <2>1. CASE c.page = Nobody
    BY <2>1 DEF ReclaimConstants, NoTwice, ToSet
  <2>2. CASE c.page # Nobody
    <3>1. w = <<c.page>> /\ c.page \in Pages
      BY <1>1, <2>2
    <3> QED
      BY <3>1 DEF NoTwice, ToSet
  <2> QED
    BY <2>1, <2>2
<1>3. /\ NoTwice(s) /\ NoTwice(t) /\ NoTwice(u) /\ NoTwice(v)
      /\ Disjoint(s, t) /\ Disjoint(s, u) /\ Disjoint(s, v)
      /\ Disjoint(t, u) /\ Disjoint(t, v) /\ Disjoint(u, v)
      /\ c.page \notin ToSet(s) \cup ToSet(t) \cup ToSet(u) \cup ToSet(v)
  BY DEF Neat
<1>4. /\ OneList(c) = s \o t \o u \o v \o w
      /\ Private(c) = ToSet(s) \cup ToSet(t) \cup ToSet(u) \cup ToSet(v) \cup ToSet(w)
  BY <1>2 DEF OneList, Private
<1>5. c.pvec \in Seq(Pages)
  BY <1>1
<1> HIDE DEF s, t, u, v, w
<1> DEFINE st == s \o t
           stu == st \o u
           stuv == stu \o v
<1>6. st \in Seq(Pages) /\ NoTwice(st) /\ ToSet(st) = ToSet(s) \cup ToSet(t)
  BY <1>1, <1>3, JoinedApart DEF Disjoint
<1>7. stu \in Seq(Pages) /\ NoTwice(stu) /\ ToSet(stu) = ToSet(st) \cup ToSet(u)
  <2>1. ToSet(st) \cap ToSet(u) = {}
    BY <1>3, <1>6 DEF Disjoint
  <2> HIDE DEF st
  <2> QED
    BY <1>1, <1>3, <1>6, <2>1, JoinedApart
<1>8. stuv \in Seq(Pages) /\ NoTwice(stuv) /\ ToSet(stuv) = ToSet(stu) \cup ToSet(v)
  <2>1. ToSet(stu) \cap ToSet(v) = {}
    BY <1>3, <1>6, <1>7 DEF Disjoint
  <2> HIDE DEF stu
  <2> QED
    BY <1>1, <1>3, <1>7, <2>1, JoinedApart
<1>9. /\ stuv \o w \in Seq(Pages) /\ NoTwice(stuv \o w)
      /\ ToSet(stuv \o w) = ToSet(stuv) \cup ToSet(w)
  <2>1. ToSet(stuv) \cap ToSet(w) = {}
    BY <1>2, <1>3, <1>6, <1>7, <1>8 DEF Disjoint
  <2> HIDE DEF stuv
  <2> QED
    BY <1>2, <1>8, <2>1, JoinedApart
<1> DEFINE I == OneList(c)
<1>10. I \in Seq(Pages) /\ ToSet(I) = Private(c) /\ NoTwice(I)
  BY <1>4, <1>6, <1>7, <1>8, <1>9
<1> HIDE DEF I
<1>11. Occurrences(p, I) = IF p \in Private(c) THEN 1 ELSE 0
  BY <1>10, Occurs
<1>12. /\ Occurrences(p, I \o c.pvec) = Occurrences(p, I) + Occurrences(p, c.pvec)
       /\ Occurrences(p, c.pvec) \in Nat
  BY <1>5, <1>10, Occurs, OccursJoined
<1> QED
  BY <1>10, <1>11, <1>12 DEF I, Mine

\* The lists and the page stay.
LEMMA SameLists ==
    ASSUME NEW c \in Locals, NEW d \in Locals, Neat(c),
           d.hold = c.hold, d.inact = c.inact, d.act = c.act, d.back = c.back,
           d.page = c.page
    PROVE  Neat(d) /\ Private(d) = Private(c)
BY DEF Neat, Private

\* A field of the locals has its type.
LEMMA ListTypes ==
    ASSUME NEW c \in Locals
    PROVE  /\ c.hold \in Seq(Pages) /\ c.inact \in Seq(Pages) /\ c.act \in Seq(Pages)
           /\ c.back \in Seq(Pages) /\ c.pvec \in Seq(Pages)
           /\ c.page \in Pages \cup {Nobody}
BY DEF Locals

\* The last page of page_list or l_hold is looked at.
LEMMA HoldToPage ==
    ASSUME ReclaimConstants, NEW c \in Locals, NEW d \in Locals, Neat(c),
           c.hold # <<>>, c.page = Nobody,
           d.hold = Front(c.hold), d.page = Last(c.hold),
           d.inact = c.inact, d.act = c.act, d.back = c.back
    PROVE  /\ Neat(d) /\ Private(d) = Private(c)
           /\ d.page \in Pages /\ d.page \in ToSet(c.hold) /\ d.page \in Private(c)
           /\ ToSet(d.hold) \subseteq ToSet(c.hold)
<1>1. /\ ToSet(c.hold) = ToSet(d.hold) \cup {d.page} /\ d.page \in Pages
      /\ NoTwice(c.hold) => NoTwice(d.hold) /\ d.page \notin ToSet(d.hold)
  BY ListTypes, Shortened
<1>2. Neat(d)
  BY <1>1 DEF Neat, Disjoint
<1>3. Nobody \notin Pages
  BY DEF ReclaimConstants
<1> QED
  BY <1>1, <1>2, <1>3 DEF Private

\* The last page of page_list goes to ret_pages at once.
LEMMA HoldToBack ==
    ASSUME ReclaimConstants, NEW c \in Locals, NEW d \in Locals, Neat(c),
           c.hold # <<>>, c.page = Nobody,
           d.hold = Front(c.hold), d.back = <<Last(c.hold)>> \o c.back,
           d.page = c.page, d.inact = c.inact, d.act = c.act
    PROVE  /\ Neat(d) /\ Private(d) = Private(c)
           /\ ToSet(d.hold) \subseteq ToSet(c.hold)
<1> DEFINE p == Last(c.hold)
<1>1. /\ ToSet(c.hold) = ToSet(d.hold) \cup {p} /\ p \in Pages
      /\ NoTwice(c.hold) => NoTwice(d.hold) /\ p \notin ToSet(d.hold)
  BY ListTypes, Shortened
<1>2. d.back = <<p>> \o c.back
  OBVIOUS
<1>3. Nobody \notin Pages /\ ToSet(c.back) \subseteq Pages /\ ToSet(c.hold) \subseteq Pages
  BY ListTypes, Places DEF ReclaimConstants
<1> HIDE DEF p
<1>4. /\ ToSet(d.back) = ToSet(c.back) \cup {p}
      /\ NoTwice(c.back) /\ p \notin ToSet(c.back) => NoTwice(d.back)
  BY <1>1, <1>2, ListTypes, Prepended
<1>5. p \notin ToSet(c.back) \cup ToSet(c.inact) \cup ToSet(c.act)
  BY <1>1 DEF Neat, Disjoint
<1>6. Neat(d)
  BY <1>1, <1>3, <1>4, <1>5 DEF Neat, Disjoint
<1> QED
  BY <1>1, <1>4, <1>6 DEF Private

\* The page goes to one of the lists.
LEMMA PageToList ==
    ASSUME ReclaimConstants, NEW c \in Locals, NEW d \in Locals, Neat(c),
           c.page # Nobody, d.page = Nobody, d.hold = c.hold,
           \/ d.inact = <<c.page>> \o c.inact /\ d.act = c.act /\ d.back = c.back
           \/ d.act = <<c.page>> \o c.act /\ d.inact = c.inact /\ d.back = c.back
           \/ d.back = <<c.page>> \o c.back /\ d.inact = c.inact /\ d.act = c.act
    PROVE  /\ Neat(d) /\ Private(d) = Private(c)
           /\ c.page \in Pages /\ c.page \in Private(c)
           /\ ToSet(d.inact) \subseteq ToSet(c.inact) \cup {c.page}
           /\ ToSet(d.act) \subseteq ToSet(c.act) \cup {c.page}
<1> DEFINE p == c.page
<1>1. /\ p \in Pages /\ Nobody \notin Pages
      /\ ToSet(c.hold) \subseteq Pages /\ ToSet(c.inact) \subseteq Pages
      /\ ToSet(c.act) \subseteq Pages /\ ToSet(c.back) \subseteq Pages
  BY ListTypes, Places DEF ReclaimConstants
<1>2. p \notin ToSet(c.hold) \cup ToSet(c.inact) \cup ToSet(c.act) \cup ToSet(c.back)
  BY DEF Neat
<1>3. Private(c) = ToSet(c.hold) \cup ToSet(c.inact) \cup ToSet(c.act) \cup ToSet(c.back)
                   \cup {p}
  BY <1>1 DEF Private
<1>4. Private(d) = ToSet(d.hold) \cup ToSet(d.inact) \cup ToSet(d.act) \cup ToSet(d.back)
  BY <1>1 DEF Private
<1>5. CASE d.inact = <<c.page>> \o c.inact /\ d.act = c.act /\ d.back = c.back
  <2>1. /\ ToSet(d.inact) = ToSet(c.inact) \cup {p}
        /\ NoTwice(c.inact) /\ p \notin ToSet(c.inact) => NoTwice(d.inact)
    <3>1. c.inact \in Seq(Pages)
      BY ListTypes
    <3> HIDE DEF p
    <3>2. /\ ToSet(<<p>> \o c.inact) = ToSet(c.inact) \cup {p}
          /\ NoTwice(c.inact) /\ p \notin ToSet(c.inact) => NoTwice(<<p>> \o c.inact)
      BY <1>1, <3>1, Prepended
    <3>3. d.inact = <<p>> \o c.inact
      BY <1>5 DEF p
    <3> QED
      BY <3>2, <3>3, Zenon
  <2> HIDE DEF p
  <2>2. Neat(d)
    BY <1>1, <1>2, <1>5, <2>1 DEF Neat, Disjoint
  <2> QED
    BY <1>1, <1>3, <1>4, <1>5, <2>1, <2>2 DEF p
<1>6. CASE d.act = <<c.page>> \o c.act /\ d.inact = c.inact /\ d.back = c.back
  <2>1. /\ ToSet(d.act) = ToSet(c.act) \cup {p}
        /\ NoTwice(c.act) /\ p \notin ToSet(c.act) => NoTwice(d.act)
    <3>1. c.act \in Seq(Pages)
      BY ListTypes
    <3> HIDE DEF p
    <3>2. /\ ToSet(<<p>> \o c.act) = ToSet(c.act) \cup {p}
          /\ NoTwice(c.act) /\ p \notin ToSet(c.act) => NoTwice(<<p>> \o c.act)
      BY <1>1, <3>1, Prepended
    <3>3. d.act = <<p>> \o c.act
      BY <1>6 DEF p
    <3> QED
      BY <3>2, <3>3, Zenon
  <2> HIDE DEF p
  <2>2. Neat(d)
    BY <1>1, <1>2, <1>6, <2>1 DEF Neat, Disjoint
  <2> QED
    BY <1>1, <1>3, <1>4, <1>6, <2>1, <2>2 DEF p
<1>7. CASE d.back = <<c.page>> \o c.back /\ d.inact = c.inact /\ d.act = c.act
  <2>1. /\ ToSet(d.back) = ToSet(c.back) \cup {p}
        /\ NoTwice(c.back) /\ p \notin ToSet(c.back) => NoTwice(d.back)
    <3>1. c.back \in Seq(Pages)
      BY ListTypes
    <3> HIDE DEF p
    <3>2. /\ ToSet(<<p>> \o c.back) = ToSet(c.back) \cup {p}
          /\ NoTwice(c.back) /\ p \notin ToSet(c.back) => NoTwice(<<p>> \o c.back)
      BY <1>1, <3>1, Prepended
    <3>3. d.back = <<p>> \o c.back
      BY <1>7 DEF p
    <3> QED
      BY <3>2, <3>3, Zenon
  <2> HIDE DEF p
  <2>2. Neat(d)
    BY <1>1, <1>2, <1>7, <2>1 DEF Neat, Disjoint
  <2> QED
    BY <1>1, <1>3, <1>4, <1>7, <2>1, <2>2 DEF p
<1> QED
  BY <1>5, <1>6, <1>7

\* The last page of a list goes back to the zone.
LEMMA ListToZone ==
    ASSUME ReclaimConstants, NEW c \in Locals, NEW d \in Locals, Neat(c), NEW p,
           c.page = Nobody, d.page = Nobody, d.hold = c.hold,
           \/ /\ c.inact # <<>> /\ p = Last(c.inact)
              /\ d.inact = Front(c.inact) /\ d.act = c.act /\ d.back = c.back
           \/ /\ c.act # <<>> /\ p = Last(c.act)
              /\ d.act = Front(c.act) /\ d.inact = c.inact /\ d.back = c.back
           \/ /\ c.back # <<>> /\ p = Last(c.back)
              /\ d.back = Front(c.back) /\ d.inact = c.inact /\ d.act = c.act
    PROVE  /\ Neat(d) /\ p \in Pages /\ p \in Private(c) /\ Private(d) = Private(c) \ {p}
           /\ ToSet(d.inact) \subseteq ToSet(c.inact) /\ ToSet(d.act) \subseteq ToSet(c.act)
<1>1. Nobody \notin Pages
  BY DEF ReclaimConstants
<1>2. /\ Private(c) = ToSet(c.hold) \cup ToSet(c.inact) \cup ToSet(c.act) \cup ToSet(c.back)
      /\ Private(d) = ToSet(d.hold) \cup ToSet(d.inact) \cup ToSet(d.act) \cup ToSet(d.back)
  BY <1>1 DEF Private
<1>3. CASE /\ c.inact # <<>> /\ p = Last(c.inact)
           /\ d.inact = Front(c.inact) /\ d.act = c.act /\ d.back = c.back
  <2>1. /\ p \in Pages /\ ToSet(c.inact) = ToSet(d.inact) \cup {p}
        /\ NoTwice(c.inact) => NoTwice(d.inact) /\ p \notin ToSet(d.inact)
    <3>1. c.inact \in Seq(Pages) /\ c.inact # <<>>
      BY <1>3, ListTypes
    <3>2. p = Last(c.inact) /\ d.inact = Front(c.inact)
      BY <1>3
    <3> QED
      BY <3>1, <3>2, Shortened
  <2>2. Neat(d)
    BY <1>3, <2>1 DEF Neat, Disjoint
  <2> QED
    BY <1>2, <1>3, <2>1, <2>2 DEF Neat, Disjoint
<1>4. CASE /\ c.act # <<>> /\ p = Last(c.act)
           /\ d.act = Front(c.act) /\ d.inact = c.inact /\ d.back = c.back
  <2>1. /\ p \in Pages /\ ToSet(c.act) = ToSet(d.act) \cup {p}
        /\ NoTwice(c.act) => NoTwice(d.act) /\ p \notin ToSet(d.act)
    <3>1. c.act \in Seq(Pages) /\ c.act # <<>>
      BY <1>4, ListTypes
    <3>2. p = Last(c.act) /\ d.act = Front(c.act)
      BY <1>4
    <3> QED
      BY <3>1, <3>2, Shortened
  <2>2. Neat(d)
    BY <1>4, <2>1 DEF Neat, Disjoint
  <2> QED
    BY <1>2, <1>4, <2>1, <2>2 DEF Neat, Disjoint
<1>5. CASE /\ c.back # <<>> /\ p = Last(c.back)
           /\ d.back = Front(c.back) /\ d.inact = c.inact /\ d.act = c.act
  <2>1. /\ p \in Pages /\ ToSet(c.back) = ToSet(d.back) \cup {p}
        /\ NoTwice(c.back) => NoTwice(d.back) /\ p \notin ToSet(d.back)
    <3>1. c.back \in Seq(Pages) /\ c.back # <<>>
      BY <1>5, ListTypes
    <3>2. p = Last(c.back) /\ d.back = Front(c.back)
      BY <1>5
    <3> QED
      BY <3>1, <3>2, Shortened
  <2>2. Neat(d)
    BY <1>5, <2>1 DEF Neat, Disjoint
  <2> QED
    BY <1>2, <1>5, <2>1, <2>2 DEF Neat, Disjoint
<1> QED
  BY <1>3, <1>4, <1>5

\* A batch is the only thing the reclaimer has.
LEMMA OnlyHold ==
    ASSUME ReclaimConstants, NEW d \in Locals, NoTwice(d.hold),
           d.inact = <<>>, d.act = <<>>, d.back = <<>>, d.page = Nobody
    PROVE  Neat(d) /\ Private(d) = ToSet(d.hold)
<1>1. ToSet(<<>>) = {} /\ NoTwice(<<>>)
  BY DEF ToSet, NoTwice
<1>2. Nobody \notin Pages /\ ToSet(d.hold) \subseteq Pages
  BY ListTypes, Places DEF ReclaimConstants
<1>3. d.page \notin ToSet(d.hold)
  BY <1>2
<1>4. Neat(d)
  BY <1>1, <1>3 DEF Neat, Disjoint
<1> QED
  BY <1>1, <1>2, <1>4 DEF Private

-----------------------------------------------------------------------------
(* Reference counts.                                                       *)

\* The users of a page other than the reclaimers.
Others(x) == (IF x.cached THEN 1 ELSE 0) + (IF x.mapped THEN 1 ELSE 0)
             + (IF x.user # "none" THEN 1 ELSE 0)

\* What every reclaimer counts of a page, l being the locals of all.
Shares(p, l) == [r \in Reclaimers |-> Mine(p, l[r])]

\* The references of each reclaimer to a page are a number, that of the page's
\* places on its lists and in its pagevec.
LEMMA SharesAre ==
    ASSUME ReclaimConstants, NEW l \in [Reclaimers -> Locals],
           \A r \in Reclaimers : Neat(l[r]), NEW p \in Pages
    PROVE  /\ Shares(p, l) \in [Reclaimers -> Nat]
           /\ Shares(p, l) =
                 [r \in Reclaimers |-> Occurrences(p, OneList(l[r]) \o l[r].pvec)]
<1>1. \A r \in Reclaimers : /\ Mine(p, l[r]) \in Nat
                            /\ Occurrences(p, OneList(l[r]) \o l[r].pvec) = Mine(p, l[r])
  BY MineIs
<1> QED
  BY <1>1 DEF Shares

\* The count of a page is that of its other users and of the shares.
LEMMA CountIs ==
    ASSUME ReclaimConstants, rc \in [Reclaimers -> Locals],
           \A r \in Reclaimers : Neat(rc[r])
    PROVE  RefCountExact <=>
              \A p \in Pages : pg[p].count = Others(pg[p]) + Total(Shares(p, rc))
<1>1. ASSUME NEW p \in Pages PROVE RefsOf(p) = Others(pg[p]) + Total(Shares(p, rc))
  <2>1. Shares(p, rc) = [r \in Reclaimers |-> Occurrences(p, Isolates(r) \o rc[r].pvec)]
    BY SharesAre DEF OneList, Isolates
  <2> QED
    BY <2>1 DEF RefsOf, Others
<1> QED
  BY <1>1 DEF RefCountExact

\* In the next state.
LEMMA CountIsNext ==
    ASSUME ReclaimConstants, rc' \in [Reclaimers -> Locals],
           \A r \in Reclaimers : Neat(rc'[r])
    PROVE  RefCountExact' <=>
              \A p \in Pages : pg'[p].count = Others(pg'[p]) + Total(Shares(p, rc'))
<1>1. ASSUME NEW p \in Pages PROVE RefsOf(p)' = Others(pg'[p]) + Total(Shares(p, rc'))
  <2>1. Shares(p, rc') = [r \in Reclaimers |-> Occurrences(p, Isolates(r)' \o rc'[r].pvec)]
    BY SharesAre DEF OneList, Isolates
  <2> QED
    BY <2>1 DEF RefsOf, Others
<1> QED
  BY <1>1 DEF RefCountExact

\* The buffers, the mapping and the list are at most three users.
LEMMA OthersType ==
    ASSUME NEW page \in PageRecords
    PROVE  Others(page) \in 0..3 /\ page.count \in Nat
BY DEF Others, PageRecords

\* What the count of a page says of its users.
LEMMA CountTells ==
    ASSUME ReclaimConstants, RTypeOK, LocalsInv, RefCountExact,
           NEW p \in Pages, NEW r \in Reclaimers
    PROVE  /\ pg[p].count \in Nat /\ Others(pg[p]) \in 0..3 /\ Mine(p, rc[r]) \in Nat
           /\ Others(pg[p]) + Mine(p, rc[r]) <= pg[p].count
           /\ \A s \in Reclaimers : s # r =>
                 Others(pg[p]) + Mine(p, rc[r]) + Mine(p, rc[s]) <= pg[p].count
           /\ \A s \in Reclaimers : Mine(p, rc[s]) \in Nat
<1> DEFINE f == Shares(p, rc)
<1>1. /\ rc \in [Reclaimers -> Locals] /\ \A s \in Reclaimers : Neat(rc[s])
      /\ pg[p] \in PageRecords
  BY DEF RTypeOK, LocalsInv
<1>2. f \in [Reclaimers -> Nat] /\ \A s \in Reclaimers : f[s] = Mine(p, rc[s])
  <2>1. f \in [Reclaimers -> Nat]
    BY <1>1, SharesAre
  <2> QED
    BY <2>1 DEF Shares
<1>3. pg[p].count = Others(pg[p]) + Total(f)
  BY <1>1, CountIs
<1>4. Others(pg[p]) \in 0..3 /\ pg[p].count \in Nat
  BY <1>1, OthersType
<1>5. IsFiniteSet(Reclaimers)
  BY DEF ReclaimConstants
<1> HIDE DEF f
<1>6. /\ Total(f) \in Nat /\ f[r] <= Total(f)
      /\ \A s \in Reclaimers : s # r => f[r] + f[s] <= Total(f)
  BY <1>2, <1>5, TotalBound
<1>7. \A s \in Reclaimers : f[s] \in Nat
  BY <1>2
<1> QED
  BY <1>2, <1>3, <1>4, <1>6, <1>7

\* A reclaimer's step changes its own share, and its page's users.
LEMMA CountStep ==
    ASSUME ReclaimConstants, RTypeOK, LocalsInv, RefCountExact, RTypeOK', LocalsInv',
           NEW r \in Reclaimers, \A s \in Reclaimers : s # r => rc'[s] = rc[s],
           \A p \in Pages : pg'[p].count - Others(pg'[p]) - Mine(p, rc'[r]) =
                               pg[p].count - Others(pg[p]) - Mine(p, rc[r])
    PROVE  RefCountExact'
<1>1. /\ rc \in [Reclaimers -> Locals] /\ \A s \in Reclaimers : Neat(rc[s])
      /\ rc' \in [Reclaimers -> Locals] /\ \A s \in Reclaimers : Neat(rc'[s])
  BY DEF RTypeOK, LocalsInv
<1>2. IsFiniteSet(Reclaimers)
  BY DEF ReclaimConstants
<1> SUFFICES ASSUME NEW p \in Pages
             PROVE  pg'[p].count = Others(pg'[p]) + Total(Shares(p, rc'))
  BY <1>1, CountIsNext
<1> DEFINE f == Shares(p, rc)
           g == Shares(p, rc')
<1>3. f \in [Reclaimers -> Nat] /\ g \in [Reclaimers -> Nat]
  BY <1>1, SharesAre
<1>4. /\ f[r] = Mine(p, rc[r]) /\ g[r] = Mine(p, rc'[r])
      /\ \A s \in Reclaimers : s # r => g[s] = f[s]
  BY DEF Shares
<1>5. pg[p].count = Others(pg[p]) + Total(f)
  BY <1>1, CountIs
<1>6. /\ Others(pg[p]) \in 0..3 /\ pg[p].count \in Nat
      /\ Others(pg'[p]) \in 0..3 /\ pg'[p].count \in Nat
  BY OthersType DEF RTypeOK
<1> HIDE DEF f, g
<1>7. Total(f) \in Nat /\ Total(g) \in Nat /\ Total(g) - g[r] = Total(f) - f[r]
  BY <1>2, <1>3, <1>4, TotalChanges
<1>8. f[r] \in Nat /\ g[r] \in Nat
  BY <1>3
<1>9. pg'[p].count - Others(pg'[p]) - g[r] = pg[p].count - Others(pg[p]) - f[r]
  BY <1>4
<1>10. pg'[p].count = Others(pg'[p]) + Total(g)
  BY <1>5, <1>6, <1>7, <1>8, <1>9
<1> QED
  BY <1>10 DEF g

\* The rest of the kernel changes the count of a page with its other users.
LEMMA CountKernel ==
    ASSUME ReclaimConstants, RTypeOK, LocalsInv, RefCountExact, RTypeOK', rc' = rc,
           \A p \in Pages : pg'[p].count - Others(pg'[p]) = pg[p].count - Others(pg[p])
    PROVE  RefCountExact'
<1>1. /\ rc \in [Reclaimers -> Locals] /\ \A s \in Reclaimers : Neat(rc[s])
      /\ rc' \in [Reclaimers -> Locals] /\ \A s \in Reclaimers : Neat(rc'[s])
  BY DEF RTypeOK, LocalsInv
<1>2. IsFiniteSet(Reclaimers)
  BY DEF ReclaimConstants
<1> SUFFICES ASSUME NEW p \in Pages
             PROVE  pg'[p].count = Others(pg'[p]) + Total(Shares(p, rc'))
  BY <1>1, CountIsNext
<1>3. pg[p].count = Others(pg[p]) + Total(Shares(p, rc)) /\ Shares(p, rc') = Shares(p, rc)
  BY <1>1, CountIs
<1>4. /\ Others(pg[p]) \in 0..3 /\ pg[p].count \in Nat
      /\ Others(pg'[p]) \in 0..3 /\ pg'[p].count \in Nat
  <2>1. pg[p] \in PageRecords /\ pg'[p] \in PageRecords
    BY DEF RTypeOK
  <2> QED
    BY <2>1 DEF Others, PageRecords
<1>5. Total(Shares(p, rc)) = pg[p].count - Others(pg[p])
  <2> DEFINE k == Total(Shares(p, rc))
  <2>1. k \in Nat
    <3>1. Shares(p, rc) \in [Reclaimers -> Nat]
      BY <1>1, SharesAre
    <3> QED
      BY <1>2, <3>1, TotalNat
  <2> HIDE DEF k
  <2> QED
    BY <1>3, <1>4, <2>1 DEF k
<1> QED
  BY <1>3, <1>4, <1>5

-----------------------------------------------------------------------------
(* Steps.                                                                  *)

\* The parts of the invariant that are about the reclaimers' pages.
Framed == /\ LocalsInv /\ LockInv /\ OwnedInv /\ FlagsInv /\ KeptInv /\ TreeInv
          /\ AgeKept /\ RefCountExact

\* A page that another reclaimer has isolated stays as it needs it.
Undisturbed(x, y) ==
    /\ y.lru = x.lru /\ y.active = x.active /\ y.ref_cnt = x.ref_cnt
    /\ x.cached /\ x.count = 2 => y.cached /\ y.count = 2 /\ (~x.dirty => ~y.dirty)

\* What a reclaimer with the locals d has to make true of its own pages.
Own(d) ==
    /\ \A p \in Private(d) : ~pg[p].lru
    /\ \A p \in ToSet(d.inact) \cup ToSet(d.act) : pg[p].active
    /\ \A p \in ToSet(d.hold) \cup ({d.page} \cap Pages) :
          pg[p].active <=> d.pc \in Deactivating
    /\ d.pc \in {"test", "free"} => pg[d.page].cached /\ pg[d.page].count = 2
    /\ d.pc = "free" => ~pg[d.page].dirty
    /\ d.pc = "age" => pg[d.page].ref_cnt = d.old

\* The page that is being looked at is one of the reclaimer's.
LEMMA PageIsPrivate ==
    ASSUME ReclaimConstants, NEW c \in Locals, Stages(c),
           c.pc \in {"age"} \cup OnPage
    PROVE  c.page \in Pages /\ c.page \in Private(c) /\ c.page # Nobody
BY ListTypes DEF Stages, Private

\* A step of a reclaimer, and the pages of the others.
LEMMA StepFrame ==
    ASSUME ReclaimConstants, RTypeOK, Framed, RTypeOK', NEW r \in Reclaimers,
           \A s \in Reclaimers : s # r => rc'[s] = rc[s],
           \A s \in Reclaimers : s # r =>
              \A p \in Private(rc[s]) : Undisturbed(pg[p], pg'[p]),
           Stages(rc'[r]), Neat(rc'[r]), Own(rc[r])',
           \A p \in Private(rc'[r]) : p \in Private(rc[r]) \/ pg[p].lru,
           \/ lru_lock' = lru_lock
           \/ lru_lock \in {r, Nobody} /\ lru_lock' \in {r, Nobody},
           lru_lock' = r <=> rc'[r].pc \in PuttingBack,
           \A p \in Pages : pg'[p].count > 0 =>
              \/ pg'[p].lru \/ p \in Private(rc'[r])
              \/ pg[p].count > 0 /\ ~pg[p].lru /\ p \notin Private(rc[r]),
           \A p \in Pages : pg'[p].count - Others(pg'[p]) - Mine(p, rc'[r]) =
                               pg[p].count - Others(pg[p]) - Mine(p, rc[r])
    PROVE  Framed'
<1>1. /\ LocalsInv /\ LockInv /\ OwnedInv /\ FlagsInv /\ KeptInv /\ TreeInv
      /\ AgeKept /\ RefCountExact
  BY DEF Framed
<1>2. LocalsInv'
  BY <1>1 DEF LocalsInv
<1>3. LockInv'
  BY <1>1 DEF LockInv, ReclaimConstants
<1>4. RefCountExact'
  BY <1>1, <1>2, CountStep
<1>5. \A s \in Reclaimers : /\ rc[s] \in Locals /\ rc'[s] \in Locals
                            /\ Stages(rc[s]) /\ Neat(rc[s])
                            /\ Private(rc[s]) \subseteq Pages
  <2>1. \A s \in Reclaimers : /\ rc[s] \in Locals /\ rc'[s] \in Locals
                              /\ Stages(rc[s]) /\ Neat(rc[s])
    BY <1>1 DEF RTypeOK, LocalsInv
  <2>2. \A c \in Locals : Private(c) \subseteq Pages
    BY ListTypes, Places DEF Private
  <2> QED
    BY <2>1, <2>2
<1>6. OwnedInv'
  <2> SUFFICES ASSUME NEW t \in Reclaimers, NEW p \in Private(rc'[t])
               PROVE  /\ ~pg'[p].lru
                      /\ \A s \in Reclaimers : p \in Private(rc'[s]) => s = t
    BY DEF OwnedInv
  <2>1. \A s \in Reclaimers : \A q \in Private(rc[s]) :
           ~pg[q].lru /\ \A u \in Reclaimers : q \in Private(rc[u]) => u = s
    BY <1>1 DEF OwnedInv
  <2>2. \A s \in Reclaimers : s # r =>
           \A q \in Private(rc[s]) : ~pg'[q].lru /\ q \notin Private(rc'[r])
    BY <2>1 DEF Undisturbed
  <2>3. \A q \in Private(rc'[r]) : ~pg'[q].lru
    BY DEF Own
  <2> QED
    BY <2>1, <2>2, <2>3
<1>7. FlagsInv'
  <2> SUFFICES ASSUME NEW s \in Reclaimers
               PROVE  /\ \A p \in ToSet(rc'[s].inact) \cup ToSet(rc'[s].act) :
                            pg'[p].active
                      /\ \A p \in ToSet(rc'[s].hold) \cup ({rc'[s].page} \cap Pages) :
                            pg'[p].active <=> rc'[s].pc \in Deactivating
    BY DEF FlagsInv
  <2>1. CASE s = r
    BY <2>1 DEF Own
  <2>2. CASE s # r
    <3>1. \A p \in Private(rc[s]) : pg'[p].active = pg[p].active
      BY <2>2 DEF Undisturbed
    <3>2. ToSet(rc[s].inact) \cup ToSet(rc[s].act) \cup ToSet(rc[s].hold)
             \cup ({rc[s].page} \cap Pages) \subseteq Private(rc[s])
      BY DEF Private
    <3>3. rc'[s] = rc[s]
      BY <2>2
    <3>4. /\ \A p \in ToSet(rc[s].inact) \cup ToSet(rc[s].act) : pg[p].active
          /\ \A p \in ToSet(rc[s].hold) \cup ({rc[s].page} \cap Pages) :
                pg[p].active <=> rc[s].pc \in Deactivating
      BY <1>1 DEF FlagsInv
    <3> QED
      BY <3>1, <3>2, <3>3, <3>4
  <2> QED
    BY <2>1, <2>2
<1>8. KeptInv'
  <2> SUFFICES ASSUME NEW p \in Pages, pg'[p].count > 0, ~pg'[p].lru,
                      p \notin Private(rc'[r])
               PROVE  \E s \in Reclaimers : p \in Private(rc'[s])
    BY DEF KeptInv
  <2>1. pg[p].count > 0 /\ ~pg[p].lru /\ p \notin Private(rc[r])
    OBVIOUS
  <2>2. PICK s \in Reclaimers : p \in Private(rc[s])
    BY <1>1, <2>1 DEF KeptInv
  <2> QED
    BY <2>1, <2>2
<1>9. TreeInv'
  <2> SUFFICES ASSUME NEW s \in Reclaimers
               PROVE  /\ rc'[s].pc \in {"test", "free"} =>
                            pg'[rc'[s].page].cached /\ pg'[rc'[s].page].count = 2
                      /\ rc'[s].pc = "free" => ~pg'[rc'[s].page].dirty
    BY DEF TreeInv
  <2>1. CASE s = r
    BY <2>1 DEF Own
  <2>2. CASE s # r
    <3>1. rc[s].pc \in {"test", "free"} => rc[s].page \in Private(rc[s])
      BY <1>5, PageIsPrivate DEF OnPage
    <3>2. rc'[s] = rc[s]
      BY <2>2
    <3>3. /\ rc[s].pc \in {"test", "free"} =>
               pg[rc[s].page].cached /\ pg[rc[s].page].count = 2
          /\ rc[s].pc = "free" => ~pg[rc[s].page].dirty
      BY <1>1 DEF TreeInv
    <3> QED
      BY <2>2, <3>1, <3>2, <3>3 DEF Undisturbed
  <2> QED
    BY <2>1, <2>2
<1>10. AgeKept'
  <2> SUFFICES ASSUME NEW s \in Reclaimers, rc'[s].pc = "age"
               PROVE  pg'[rc'[s].page].ref_cnt = rc'[s].old
    BY DEF AgeKept, At
  <2>1. CASE s = r
    BY <2>1 DEF Own
  <2>2. CASE s # r
    <3>1. rc'[s] = rc[s]
      BY <2>2
    <3>2. rc[s].page \in Private(rc[s])
      BY <1>5, <3>1, PageIsPrivate
    <3>3. pg[rc[s].page].ref_cnt = rc[s].old
      BY <1>1, <3>1 DEF AgeKept, At
    <3> QED
      BY <2>2, <3>1, <3>2, <3>3 DEF Undisturbed
  <2> QED
    BY <2>1, <2>2
<1> QED
  BY <1>2, <1>3, <1>4, <1>6, <1>7, <1>8, <1>9, <1>10 DEF Framed

\* A step of the rest of the kernel.
LEMMA KernelFrame ==
    ASSUME ReclaimConstants, RTypeOK, Framed, RTypeOK', rc' = rc, lru_lock' = lru_lock,
           \A s \in Reclaimers : \A p \in Private(rc[s]) :
              /\ pg'[p].lru = pg[p].lru /\ pg'[p].active = pg[p].active
              /\ pg'[p].ref_cnt = pg[p].ref_cnt
              /\ rc[s].pc \in {"test", "free"} /\ rc[s].page = p =>
                    Undisturbed(pg[p], pg'[p]),
           \A p \in Pages :
              pg'[p].count > 0 => pg'[p].lru \/ (pg[p].count > 0 /\ ~pg[p].lru),
           \A p \in Pages : pg'[p].count - Others(pg'[p]) = pg[p].count - Others(pg[p])
    PROVE  Framed'
<1>1. /\ LocalsInv /\ LockInv /\ OwnedInv /\ FlagsInv /\ KeptInv /\ TreeInv
      /\ AgeKept /\ RefCountExact
  BY DEF Framed
<1>2. LocalsInv' /\ LockInv'
  BY <1>1 DEF LocalsInv, LockInv
<1>3. RefCountExact'
  BY <1>1, CountKernel
<1>4. \A s \in Reclaimers : rc[s] \in Locals /\ Stages(rc[s])
  BY <1>1 DEF RTypeOK, LocalsInv
<1>5. OwnedInv'
  BY <1>1 DEF OwnedInv
<1>6. FlagsInv'
  <2> SUFFICES ASSUME NEW s \in Reclaimers
               PROVE  /\ \A p \in ToSet(rc[s].inact) \cup ToSet(rc[s].act) :
                            pg'[p].active
                      /\ \A p \in ToSet(rc[s].hold) \cup ({rc[s].page} \cap Pages) :
                            pg'[p].active <=> rc[s].pc \in Deactivating
    BY DEF FlagsInv
  <2>1. ToSet(rc[s].inact) \cup ToSet(rc[s].act) \cup ToSet(rc[s].hold)
           \cup ({rc[s].page} \cap Pages) \subseteq Private(rc[s])
    BY DEF Private
  <2>2. \A p \in Private(rc[s]) : pg'[p].active = pg[p].active
    OBVIOUS
  <2>3. /\ \A p \in ToSet(rc[s].inact) \cup ToSet(rc[s].act) : pg[p].active
        /\ \A p \in ToSet(rc[s].hold) \cup ({rc[s].page} \cap Pages) :
              pg[p].active <=> rc[s].pc \in Deactivating
    BY <1>1 DEF FlagsInv
  <2> QED
    BY <2>1, <2>2, <2>3
<1>7. KeptInv'
  BY <1>1 DEF KeptInv
<1>8. TreeInv'
  <2> SUFFICES ASSUME NEW s \in Reclaimers, rc[s].pc \in {"test", "free"}
               PROVE  /\ pg'[rc[s].page].cached /\ pg'[rc[s].page].count = 2
                      /\ rc[s].pc = "free" => ~pg'[rc[s].page].dirty
    BY DEF TreeInv
  <2>1. rc[s].page \in Private(rc[s])
    BY <1>4, PageIsPrivate DEF OnPage
  <2>2. /\ pg[rc[s].page].cached /\ pg[rc[s].page].count = 2
        /\ rc[s].pc = "free" => ~pg[rc[s].page].dirty
    BY <1>1 DEF TreeInv
  <2> QED
    BY <2>1, <2>2 DEF Undisturbed
<1>9. AgeKept'
  <2> SUFFICES ASSUME NEW s \in Reclaimers, rc[s].pc = "age"
               PROVE  pg'[rc[s].page].ref_cnt = rc[s].old
    BY DEF AgeKept, At
  <2>1. rc[s].page \in Private(rc[s])
    BY <1>4, PageIsPrivate
  <2>2. pg[rc[s].page].ref_cnt = rc[s].old
    BY <1>1 DEF AgeKept, At
  <2> QED
    BY <2>1, <2>2
<1> QED
  BY <1>2, <1>3, <1>5, <1>6, <1>7, <1>8, <1>9 DEF Framed

\* A step of a reclaimer on the pages it has isolated: each stays as it was,
\* or what is known of it holds again.
LEMMA OwnStep ==
    ASSUME ReclaimConstants, ReclaimIInv, RTypeOK', NEW r \in Reclaimers,
           \A s \in Reclaimers : s # r => rc'[s] = rc[s],
           active' = active, inactive' = inactive,
           \A p \in Pages : p \notin Private(rc[r]) => pg'[p] = pg[p],
           \A p \in Private(rc[r]) :
              \/ /\ pg'[p] = pg[p] /\ p \in Private(rc'[r])
                 /\ rc[r].page = p => rc'[r].page = p /\ rc'[r].bit = rc[r].bit
              \/ /\ ~pg'[p].lru
                 /\ pg'[p].mapped => pg'[p].cached
                 /\ pg'[p].touched => pg'[p].active
                 /\ pg'[p].cached \/ ~pg'[p].dirty
                 /\ pg'[p].touched =>
                       \/ pg'[p].referenced \/ pg'[p].ref_cnt > 0
                       \/ rc'[r].page = p /\ rc'[r].bit # 0
                 /\ \/ /\ p \in Private(rc'[r])
                       /\ pg'[p].count - Others(pg'[p]) = pg[p].count - Others(pg[p])
                    \/ /\ p \notin Private(rc'[r]) /\ pg'[p].count = 0
                       /\ Others(pg'[p]) = 0 /\ pg[p].count - Others(pg[p]) = 1,
           Private(rc'[r]) \subseteq Private(rc[r]), rc'[r].pvec = rc[r].pvec,
           Stages(rc'[r]), Neat(rc'[r]), Own(rc[r])',
           \/ lru_lock' = lru_lock
           \/ lru_lock \in {r, Nobody} /\ lru_lock' \in {r, Nobody},
           lru_lock' = r <=> rc'[r].pc \in PuttingBack,
           CountInv', DeactivatedCounted'
    PROVE  ReclaimIInv'
<1>1. /\ RTypeOK /\ LocalsInv /\ ListsInv /\ OwnedInv /\ KeptInv /\ CacheInv
      /\ NoLostWrite /\ TouchRemembered /\ Framed
  BY DEF ReclaimIInv, Framed
<1>2. \A s \in Reclaimers : rc[s] \in Locals /\ Stages(rc[s]) /\ Neat(rc[s])
  BY <1>1 DEF RTypeOK, LocalsInv
<1>3. \A s \in Reclaimers : Private(rc[s]) \subseteq Pages
  <2>1. \A c \in Locals : Private(c) \subseteq Pages
    BY ListTypes, Places DEF Private
  <2> QED
    BY <1>2, <2>1
<1>4. /\ \A p \in Private(rc[r]) : ~pg[p].lru
      /\ \A s \in Reclaimers : s # r => \A p \in Private(rc[s]) : p \notin Private(rc[r])
  BY <1>1 DEF OwnedInv
<1>5. \A s \in Reclaimers : s # r => \A p \in Private(rc[s]) : Undisturbed(pg[p], pg'[p])
  BY <1>3, <1>4 DEF Undisturbed
<1>6. \A p \in Pages : /\ pg[p].count \in Nat /\ Others(pg[p]) \in 0..3
                       /\ pg'[p].count \in Nat /\ Others(pg'[p]) \in 0..3
  <2>1. \A p \in Pages : pg[p] \in PageRecords /\ pg'[p] \in PageRecords
    BY <1>1 DEF RTypeOK
  <2> QED
    BY <2>1 DEF Others, PageRecords
<1>7. ASSUME NEW p \in Pages
      PROVE  /\ pg'[p].count - Others(pg'[p]) - Mine(p, rc'[r]) =
                   pg[p].count - Others(pg[p]) - Mine(p, rc[r])
             /\ pg'[p].count > 0 =>
                   \/ pg'[p].lru \/ p \in Private(rc'[r])
                   \/ pg[p].count > 0 /\ ~pg[p].lru /\ p \notin Private(rc[r])
             /\ pg'[p].mapped => pg'[p].cached
             /\ pg'[p].touched => pg'[p].active
             /\ pg'[p].cached \/ ~pg'[p].dirty
             /\ pg'[p].lru = pg[p].lru
             /\ pg[p].lru => pg'[p].active = pg[p].active
  <2> DEFINE k == Occurrences(p, rc[r].pvec)
  <2>1. k \in Nat
    BY <1>2, ListTypes, Occurs
  <2>2. /\ Mine(p, rc[r]) = (IF p \in Private(rc[r]) THEN 1 ELSE 0) + k
        /\ Mine(p, rc'[r]) = (IF p \in Private(rc'[r]) THEN 1 ELSE 0) + k
    BY DEF Mine
  <2> HIDE DEF k
  <2>3. /\ pg[p].count \in Nat /\ Others(pg[p]) \in 0..3
        /\ pg'[p].count \in Nat /\ Others(pg'[p]) \in 0..3
    BY <1>6
  <2>4. /\ pg[p].mapped => pg[p].cached
        /\ pg[p].touched => pg[p].active
        /\ pg[p].cached \/ ~pg[p].dirty
    <3>1. pg[p].cached \/ ~pg[p].dirty
      BY <1>1 DEF NoLostWrite
    <3> QED
      BY <1>1, <3>1 DEF CacheInv
  <2>5. CASE p \notin Private(rc[r])
    <3>1. pg'[p] = pg[p] /\ p \notin Private(rc'[r])
      BY <2>5
    <3>2. Mine(p, rc'[r]) = Mine(p, rc[r])
      BY <2>2, <2>5, <3>1
    <3> QED
      BY <2>4, <2>5, <3>1, <3>2
  <2>6. CASE p \in Private(rc[r]) /\ pg'[p] = pg[p] /\ p \in Private(rc'[r])
    <3>1. Mine(p, rc'[r]) = Mine(p, rc[r])
      BY <2>2, <2>6
    <3> QED
      BY <2>4, <2>6, <3>1
  <2>7. CASE /\ p \in Private(rc[r]) /\ ~pg'[p].lru
             /\ pg'[p].mapped => pg'[p].cached
             /\ pg'[p].touched => pg'[p].active
             /\ pg'[p].cached \/ ~pg'[p].dirty
             /\ \/ /\ p \in Private(rc'[r])
                   /\ pg'[p].count - Others(pg'[p]) = pg[p].count - Others(pg[p])
                \/ /\ p \notin Private(rc'[r]) /\ pg'[p].count = 0
                   /\ Others(pg'[p]) = 0 /\ pg[p].count - Others(pg[p]) = 1
    <3>1. pg'[p].lru = pg[p].lru /\ ~pg[p].lru
      <4>1. pg[p] \in PageRecords /\ pg'[p] \in PageRecords
        BY <1>1 DEF RTypeOK
      <4> QED
        BY <1>4, <2>7, <4>1 DEF PageRecords
    <3>2. pg'[p].count > 0 => p \in Private(rc'[r])
      BY <2>3, <2>7
    <3>3. pg'[p].count - Others(pg'[p]) - Mine(p, rc'[r]) =
             pg[p].count - Others(pg[p]) - Mine(p, rc[r])
      BY <2>1, <2>2, <2>3, <2>7
    <3> QED
      BY <2>7, <3>1, <3>2, <3>3
  <2> QED
    BY <2>5, <2>6, <2>7
<1>8. \A p \in Private(rc'[r]) : p \in Private(rc[r]) \/ pg[p].lru
  OBVIOUS
<1>9. Framed'
  BY <1>1, <1>5, <1>7, <1>8, StepFrame
<1>10. ListsInv'
  BY <1>1, <1>7 DEF ListsInv
<1>11. CacheInv' /\ NoLostWrite'
  BY <1>7 DEF CacheInv, NoLostWrite
<1>12. TouchRemembered'
  <2> SUFFICES ASSUME NEW p \in Pages, pg'[p].touched, pg'[p].active
               PROVE  \/ pg'[p].referenced \/ pg'[p].ref_cnt > 0
                      \/ \E s \in Reclaimers : rc'[s].page = p /\ rc'[s].bit # 0
    BY DEF TouchRemembered
  <2>1. CASE pg'[p] = pg[p] /\ (rc[r].page = p => rc'[r].page = p /\ rc'[r].bit = rc[r].bit)
    <3>1. \/ pg[p].referenced \/ pg[p].ref_cnt > 0
          \/ \E s \in Reclaimers : rc[s].page = p /\ rc[s].bit # 0
      BY <1>1, <2>1 DEF TouchRemembered
    <3> QED
      BY <2>1, <3>1
  <2>2. CASE p \notin Private(rc[r])
    <3>1. rc[r].page # p
      BY <2>2 DEF Private
    <3> QED
      BY <2>1, <2>2, <3>1
  <2> QED
    BY <2>1, <2>2
<1> QED
  BY <1>9, <1>10, <1>11, <1>12 DEF ReclaimIInv, Framed

\* Nothing of the zone changes, and the reclaimer does not hold lru_lock.
LEMMA SameCounts ==
    ASSUME ReclaimConstants, ReclaimIInv, NEW r \in Reclaimers,
           \A s \in Reclaimers : s # r => rc'[s] = rc[s],
           active' = active, inactive' = inactive, nr_active' = nr_active,
           nr_inactive' = nr_inactive, lru_lock' = lru_lock, rc[r].pc \notin PuttingBack
    PROVE  CountInv'
<1>1. CountInv /\ lru_lock # r
  BY DEF ReclaimIInv, LockInv
<1>2. lru_lock \in Reclaimers \cup {Nobody}
  BY DEF ReclaimIInv, RTypeOK
<1>3. \A l : Batch(l)' = Batch(l)
  BY <1>1, <1>2 DEF Batch, At
<1> QED
  BY <1>1, <1>3 DEF CountInv

\* The pages moved and not yet counted by a reclaimer with the locals c.
Pend(c) == c.deact + IF c.pc = "put_active" THEN 0 ELSE c.moved

\* A step after which a reclaimer has as many deactivations to report as before.
LEMMA SamePending ==
    ASSUME ReclaimIInv, NEW r \in Reclaimers,
           \A s \in Reclaimers : s # r => rc'[s] = rc[s],
           num_active_to_inactive' = num_active_to_inactive,
           deactivated' = deactivated, Pend(rc'[r]) = Pend(rc[r])
    PROVE  DeactivatedCounted'
<1>1. \A s \in Reclaimers : Pend(rc'[s]) = Pend(rc[s])
  OBVIOUS
<1>2. [s \in Reclaimers |-> Pend(rc'[s])] = [s \in Reclaimers |-> Pend(rc[s])]
  BY <1>1
<1>3. Plus(num_active_to_inactive, Total([s \in Reclaimers |-> Pend(rc[s])])) = deactivated
  BY DEF ReclaimIInv, DeactivatedCounted, Pend, At
<1>4. Plus(num_active_to_inactive', Total([s \in Reclaimers |-> Pend(rc'[s])])) = deactivated'
  BY <1>2, <1>3
<1> QED
  BY <1>4 DEF DeactivatedCounted, Pend, At

-----------------------------------------------------------------------------
(* The invariant, in the parts a step needs.                               *)

\* The pages of a reclaimer are pages.
LEMMA PrivatePages ==
    ASSUME NEW c \in Locals
    PROVE  /\ Private(c) \subseteq Pages
           /\ ToSet(c.hold) \subseteq Private(c) /\ ToSet(c.inact) \subseteq Private(c)
           /\ ToSet(c.act) \subseteq Private(c) /\ ToSet(c.back) \subseteq Private(c)
BY ListTypes, Places DEF Private

\* Of one reclaimer.
LEMMA OfReclaimer ==
    ASSUME ReclaimConstants, ReclaimIInv, NEW r \in Reclaimers
    PROVE  /\ rc \in [Reclaimers -> Locals] /\ rc[r] \in Locals
           /\ Stages(rc[r]) /\ Neat(rc[r]) /\ Own(rc[r])
           /\ lru_lock = r <=> rc[r].pc \in PuttingBack
           /\ r # Nobody /\ Nobody \notin Pages
<1>1. /\ RTypeOK /\ LocalsInv /\ LockInv /\ OwnedInv /\ FlagsInv /\ TreeInv /\ AgeKept
  BY DEF ReclaimIInv
<1>2. Own(rc[r])
  BY <1>1 DEF Own, OwnedInv, FlagsInv, TreeInv, AgeKept, At
<1> QED
  BY <1>1, <1>2 DEF RTypeOK, LocalsInv, LockInv, ReclaimConstants

\* Of one page.
LEMMA OfPage ==
    ASSUME ReclaimIInv, NEW p \in Pages
    PROVE  /\ pg \in [Pages -> PageRecords] /\ pg[p] \in PageRecords
           /\ pg[p].mapped => pg[p].cached
           /\ pg[p].touched => pg[p].active
           /\ ~pg[p].cached => ~pg[p].dirty
<1>1. RTypeOK /\ CacheInv /\ NoLostWrite
  BY DEF ReclaimIInv
<1> QED
  BY <1>1 DEF RTypeOK, CacheInv, NoLostWrite

\* A page that was touched and is isolated, and not the one looked at.
LEMMA TouchedBefore ==
    ASSUME ReclaimConstants, ReclaimIInv, NEW r \in Reclaimers,
           NEW p \in Private(rc[r]), rc[r].page # p \/ rc[r].bit = 0,
           pg[p].touched, pg[p].active
    PROVE  pg[p].referenced \/ pg[p].ref_cnt > 0
<1>1. rc[r] \in Locals /\ OwnedInv /\ TouchRemembered
  BY DEF ReclaimIInv, RTypeOK
<1>2. p \in Pages
  BY <1>1, PrivatePages
<1>3. ASSUME NEW s \in Reclaimers, rc[s].page = p, rc[s].bit # 0 PROVE FALSE
  <2>1. p \in Private(rc[s])
    BY <1>2, <1>3 DEF Private
  <2>2. s = r
    BY <1>1, <2>1 DEF OwnedInv
  <2> QED
    BY <1>3, <2>2
<1> QED
  BY <1>1, <1>2, <1>3 DEF TouchRemembered

\* The types, when the zone's lists and numbers stay.
LEMMA SameTypes ==
    ASSUME ReclaimIInv, UNCHANGED <<zoneVars, statVars>>,
           lru_lock' \in Reclaimers \cup {Nobody},
           pg' \in [Pages -> PageRecords], rc' \in [Reclaimers -> Locals]
    PROVE  RTypeOK'
BY DEF ReclaimIInv, RTypeOK, zoneVars, statVars

\* A step of a reclaimer, not with lru_lock, that changes one of its pages to y
\* and moves no other one.
LEMMA OnePageStep ==
    ASSUME ReclaimConstants, ReclaimIInv, NEW r \in Reclaimers,
           NEW p \in Private(rc[r]), NEW y \in PageRecords, NEW d \in Locals,
           pg' = [pg EXCEPT ![p] = y], rc' = [rc EXCEPT ![r] = d],
           UNCHANGED <<zoneVars, lru_lock, statVars>>,
           rc[r].pc \notin PuttingBack, d.pc \notin PuttingBack, Stages(d), Neat(d),
           Private(d) = Private(rc[r]), d.pvec = rc[r].pvec, Pend(d) = Pend(rc[r]),
           rc[r].page \in {p, Nobody}, d.page \in {p, Nobody},
           ToSet(d.hold) \subseteq ToSet(rc[r].hold), p \notin ToSet(d.hold),
           d.pc \in Deactivating <=> rc[r].pc \in Deactivating,
           ToSet(d.inact) \cup ToSet(d.act)
              \subseteq ToSet(rc[r].inact) \cup ToSet(rc[r].act) \cup {p},
           p \in ToSet(d.inact) \cup ToSet(d.act) => y.active,
           d.page = p => (y.active <=> d.pc \in Deactivating),
           d.pc \in {"test", "free"} => y.cached /\ y.count = 2,
           d.pc = "free" => ~y.dirty,
           d.pc = "age" => y.ref_cnt = d.old,
           ~y.lru, y.mapped => y.cached, y.touched => y.active, y.cached \/ ~y.dirty,
           y.touched => \/ y.referenced \/ y.ref_cnt > 0
                        \/ d.page = p /\ d.bit # 0,
           y.count - Others(y) = pg[p].count - Others(pg[p])
    PROVE  ReclaimIInv'
<1> DEFINE c == rc[r]
<1>1. /\ rc \in [Reclaimers -> Locals] /\ c \in Locals /\ Stages(c) /\ Own(c)
      /\ lru_lock = r <=> c.pc \in PuttingBack
      /\ r # Nobody /\ Nobody \notin Pages
  BY OfReclaimer
<1>2. /\ Private(c) \subseteq Pages
      /\ ToSet(c.hold) \subseteq Private(c) /\ ToSet(c.inact) \subseteq Private(c)
      /\ ToSet(c.act) \subseteq Private(c) /\ ToSet(c.back) \subseteq Private(c)
  BY <1>1, PrivatePages
<1>3. p \in Pages /\ p # Nobody /\ pg \in [Pages -> PageRecords]
  BY <1>1, <1>2, OfPage
<1>4. /\ pg'[p] = y /\ pg' \in [Pages -> PageRecords]
      /\ \A q \in Pages : q # p => pg'[q] = pg[q]
  BY <1>3
<1>5. /\ rc'[r] = d /\ rc' \in [Reclaimers -> Locals]
      /\ \A s \in Reclaimers : s # r => rc'[s] = rc[s]
  BY <1>1
<1>6. lru_lock' \in Reclaimers \cup {Nobody}
  BY DEF ReclaimIInv, RTypeOK
<1>7. RTypeOK'
  BY <1>4, <1>5, <1>6, SameTypes
<1>8. CountInv' /\ DeactivatedCounted'
  <2>1. CountInv'
    BY <1>5, SameCounts DEF zoneVars
  <2>2. DeactivatedCounted'
    BY <1>5, SamePending DEF statVars
  <2> QED
    BY <2>1, <2>2
<1>9. \A q \in Private(c) : ~pg'[q].lru
  BY <1>1, <1>2, <1>4 DEF Own
<1>10. \A q \in ToSet(d.inact) \cup ToSet(d.act) : pg'[q].active
  BY <1>1, <1>2, <1>4 DEF Own
<1>11. \A q \in ToSet(d.hold) \cup ({d.page} \cap Pages) :
          pg'[q].active <=> d.pc \in Deactivating
  <2>1. \A q \in ToSet(d.hold) : pg'[q].active <=> d.pc \in Deactivating
    BY <1>1, <1>2, <1>4 DEF Own
  <2>2. \A q \in {d.page} \cap Pages : q = p
    BY <1>1
  <2> QED
    BY <1>4, <2>1, <2>2
<1>12. d.pc \in {"test", "free", "age"} => d.page = p
  <2>1. d.pc \in {"test", "free", "age"} => d.page # Nobody
    BY DEF Stages, OnPage
  <2> QED
    BY <2>1
<1>13. Own(rc[r])'
  BY <1>4, <1>5, <1>9, <1>10, <1>11, <1>12 DEF Own
<1>14. \A q \in Private(c) :
          \/ /\ pg'[q] = pg[q] /\ q \in Private(d)
             /\ c.page = q => d.page = q /\ d.bit = c.bit
          \/ /\ ~pg'[q].lru
             /\ pg'[q].mapped => pg'[q].cached
             /\ pg'[q].touched => pg'[q].active
             /\ pg'[q].cached \/ ~pg'[q].dirty
             /\ pg'[q].touched =>
                   \/ pg'[q].referenced \/ pg'[q].ref_cnt > 0
                   \/ d.page = q /\ d.bit # 0
             /\ \/ /\ q \in Private(d)
                   /\ pg'[q].count - Others(pg'[q]) = pg[q].count - Others(pg[q])
                \/ /\ q \notin Private(d) /\ pg'[q].count = 0
                   /\ Others(pg'[q]) = 0 /\ pg[q].count - Others(pg[q]) = 1
  <2> SUFFICES ASSUME NEW q \in Private(c), q # p
               PROVE  pg'[q] = pg[q] /\ q \in Private(d) /\ c.page # q
    BY <1>4
  <2> QED
    BY <1>1, <1>2, <1>4
<1>15. /\ \A q \in Pages : q \notin Private(c) => pg'[q] = pg[q]
       /\ active' = active /\ inactive' = inactive
       /\ Private(d) \subseteq Private(c)
       /\ lru_lock' = lru_lock /\ (lru_lock' = r <=> d.pc \in PuttingBack)
  BY <1>1, <1>4 DEF zoneVars
<1> QED
  BY <1>5, <1>7, <1>8, <1>13, <1>14, <1>15, OwnStep

-----------------------------------------------------------------------------
(* shrink_active_list: the pages of l_hold.                                *)

\* The counter after a bit was added: in its range, and not 0 when it was not
\* or there was a bit.
LEMMA AgedFacts ==
    ASSUME ReclaimConstants, NEW cnt \in 0..MaxRefCnt, NEW bit \in {0, 1, -1}
    PROVE  /\ Aged(cnt, bit) \in 0..MaxRefCnt
           /\ cnt > 0 \/ bit # 0 => Aged(cnt, bit) > 0
<1> DEFINE m == MaxRefCnt + 1
           a == cnt + bit
           d == a \div m
           sum == a % m
<1>1. MaxRefCnt \in Nat /\ m \in Nat /\ m >= 2 /\ a \in Int
  BY DEF ReclaimConstants
<1>2. Aged(cnt, bit) = IF sum > 0 THEN sum ELSE cnt
  BY DEF Aged
<1>3. m - 1 = MaxRefCnt /\ (cnt = 0 => a = bit)
  BY <1>1
<1> HIDE DEF m, a
<1>4. a = m * d + sum /\ sum \in 0..m - 1 /\ d \in Int
  BY <1>1, SMT
<1> HIDE DEF d, sum
<1>5. Aged(cnt, bit) \in 0..MaxRefCnt
  BY <1>1, <1>2, <1>3, <1>4
<1>6. ASSUME cnt = 0, bit # 0, sum = 0 PROVE FALSE
  <2>1. a = m * d /\ a \in {1, -1}
    BY <1>1, <1>3, <1>4, <1>6
  <2>2. CASE d = 0
    BY <1>1, <2>1, <2>2, SMT
  <2>3. CASE d >= 1
    <3>1. m * d >= m
      BY <1>1, <1>4, <2>3, SMT
    <3> QED
      BY <1>1, <2>1, <3>1
  <2>4. CASE d <= -1
    <3>1. m * d <= -m
      BY <1>1, <1>4, <2>4, SMT
    <3> QED
      BY <1>1, <2>1, <3>1
  <2> QED
    BY <1>4, <2>2, <2>3, <2>4
<1> QED
  BY <1>2, <1>4, <1>5, <1>6

\* shrink_active_list looks at a page of l_hold and reads its ref_cnt.
LEMMA HoldReadKeeps ==
    ASSUME ReclaimConstants, ReclaimIInv, NEW r \in Reclaimers, HoldRead(r)
    PROVE  ReclaimIInv'
<1> DEFINE c == rc[r]
           p == Last(c.hold)
           y == [pg[p] EXCEPT !.referenced = FALSE]
           d == [c EXCEPT !.hold = Front(c.hold), !.page = p, !.pc = "age",
                          !.old = pg[p].ref_cnt, !.bit = Bit(p)]
<1>1. /\ rc \in [Reclaimers -> Locals] /\ c \in Locals
      /\ Stages(c) /\ Neat(c) /\ Own(c) /\ Nobody \notin Pages
  BY OfReclaimer
<1>2. c.pc = "hold" /\ c.hold # <<>> /\ c.page = Nobody
  BY <1>1 DEF HoldRead, At, Stages, OnPage
<1>3. p \in Pages /\ p \in ToSet(c.hold) /\ Front(c.hold) \in Seq(Pages)
  BY <1>1, <1>2, ListTypes, Shortened
<1>4. /\ pg \in [Pages -> PageRecords] /\ pg[p] \in PageRecords
      /\ pg[p].mapped => pg[p].cached
      /\ pg[p].touched => pg[p].active
      /\ ~pg[p].cached => ~pg[p].dirty
  BY <1>3, OfPage
<1>5. /\ pg' = [pg EXCEPT ![p] = y] /\ rc' = [rc EXCEPT ![r] = d]
      /\ UNCHANGED <<zoneVars, lru_lock, statVars>>
  BY <1>1, <1>3, <1>4 DEF HoldRead
<1> HIDE DEF p
<1>6. d \in Locals
  <2>1. pg[p].ref_cnt \in Nat /\ Bit(p) \in {0, 1, -1} /\ "age" \in PCs
    BY <1>4 DEF PageRecords, Bit, PCs, ReclaimConstants
  <2> QED
    BY <1>1, <1>3, <2>1 DEF Locals
<1>7. /\ d.hold = Front(c.hold) /\ d.page = p /\ d.pc = "age" /\ d.old = pg[p].ref_cnt
      /\ d.bit = Bit(p) /\ d.then = c.then /\ d.inact = c.inact /\ d.act = c.act
      /\ d.back = c.back /\ d.pvec = c.pvec /\ d.moved = c.moved /\ d.deact = c.deact
      /\ d.freed = c.freed
  BY <1>1 DEF Locals
<1>8. /\ y \in PageRecords /\ y.lru = pg[p].lru /\ y.active = pg[p].active /\ ~y.referenced
      /\ y.ref_cnt = pg[p].ref_cnt /\ y.touched = pg[p].touched /\ y.cached = pg[p].cached
      /\ y.mapped = pg[p].mapped /\ y.dirty = pg[p].dirty
      /\ y.count - Others(y) = pg[p].count - Others(pg[p])
  BY <1>4 DEF PageRecords, Others
<1> HIDE DEF d, y
<1>9. Stages(d) /\ Pend(d) = Pend(c)
  BY <1>1, <1>2, <1>3, <1>7
     DEF Stages, Stage, Deactivating, Scanning, OnPage, PuttingBack, Pend
<1>10. /\ Neat(d) /\ Private(d) = Private(c) /\ p \in Private(c)
       /\ ToSet(d.hold) \subseteq ToSet(c.hold)
  <2>1. d.page = Last(c.hold)
    BY <1>7 DEF p
  <2>2. /\ Neat(d) /\ Private(d) = Private(c) /\ d.page \in Private(c)
        /\ ToSet(d.hold) \subseteq ToSet(c.hold)
    BY <1>1, <1>2, <1>6, <1>7, <2>1, HoldToPage
  <2>3. d.page = p
    BY <1>7
  <2> QED
    BY <2>2, <2>3
<1>11. p \notin ToSet(d.hold) \cup ToSet(d.inact) \cup ToSet(d.act)
  BY <1>7, <1>10 DEF Neat
<1>12. ~pg[p].lru /\ pg[p].active
  BY <1>1, <1>2, <1>3, <1>10 DEF Own, Deactivating
<1>13. y.touched => y.referenced \/ y.ref_cnt > 0 \/ (d.page = p /\ d.bit # 0)
  <2> SUFFICES ASSUME pg[p].touched PROVE y.ref_cnt > 0 \/ (d.page = p /\ d.bit # 0)
    BY <1>8
  <2>1. pg[p].touched => pg[p].referenced \/ pg[p].ref_cnt > 0
    BY <1>2, <1>3, <1>10, <1>12, TouchedBefore
  <2>2. d.page = p /\ (pg[p].referenced => d.bit # 0)
    BY <1>7 DEF Bit, ReclaimConstants
  <2>3. y.ref_cnt = pg[p].ref_cnt /\ pg[p].ref_cnt \in Nat
    BY <1>4, <1>8 DEF PageRecords
  <2>4. CASE pg[p].referenced
    BY <2>2, <2>4
  <2>5. CASE pg[p].ref_cnt > 0
    BY <2>3, <2>5
  <2> QED
    BY <2>1, <2>4, <2>5
<1>14. /\ c.pc \notin PuttingBack /\ d.pc \notin PuttingBack
       /\ d.pc \in Deactivating /\ c.pc \in Deactivating
       /\ d.pc \notin {"test", "free"} /\ d.pc # "free"
  BY <1>2, <1>7 DEF PuttingBack, Deactivating
<1>15. /\ d.pc \in Deactivating <=> c.pc \in Deactivating
       /\ c.page \in {p, Nobody} /\ d.page \in {p, Nobody} /\ d.pvec = c.pvec
       /\ ToSet(d.inact) \cup ToSet(d.act) \subseteq ToSet(c.inact) \cup ToSet(c.act) \cup {p}
       /\ y.active /\ y.ref_cnt = d.old /\ ~y.lru
       /\ y.mapped => y.cached
       /\ y.touched => y.active
       /\ y.cached \/ ~y.dirty
  BY <1>2, <1>4, <1>7, <1>8, <1>12, <1>14
<1>16. p \notin ToSet(d.hold)
  BY <1>11
<1> HIDE DEF c
<1> QED
  BY <1>5, <1>6, <1>8, <1>9, <1>10, <1>13, <1>14, <1>15, <1>16, OnePageStep DEF c

\* It writes the ref_cnt it computed, and moves the page to l_active or l_inactive.
LEMMA HoldWriteKeeps ==
    ASSUME ReclaimConstants, ReclaimIInv, NEW r \in Reclaimers, HoldWrite(r)
    PROVE  ReclaimIInv'
<1> DEFINE c == rc[r]
           p == c.page
           cnt == Aged(c.old, c.bit)
           asked == pg[p].mapped /\ c.reclaim_mapped
           ref == cs2456_page_referenced(cnt)
           stays == pg[p].mapped /\ (~c.reclaim_mapped \/ ref.yes)
           y == [pg[p] EXCEPT !.touched = pg[p].referenced,
                              !.ref_cnt = IF asked THEN ref.left ELSE cnt]
           d == [c EXCEPT !.pc = "hold", !.page = Nobody, !.old = 0, !.bit = 0,
                          !.act = IF stays THEN <<p>> \o c.act ELSE c.act,
                          !.inact = IF stays THEN c.inact ELSE <<p>> \o c.inact]
<1>1. /\ rc \in [Reclaimers -> Locals] /\ c \in Locals
      /\ Stages(c) /\ Neat(c) /\ Own(c) /\ Nobody \notin Pages
  BY OfReclaimer
<1>2. c.pc = "age"
  BY DEF HoldWrite, At
<1>3. p \in Pages /\ p \in Private(c) /\ p # Nobody
  BY <1>1, <1>2, PageIsPrivate
<1>4. /\ pg \in [Pages -> PageRecords] /\ pg[p] \in PageRecords
      /\ pg[p].mapped => pg[p].cached
      /\ pg[p].touched => pg[p].active
      /\ ~pg[p].cached => ~pg[p].dirty
  BY <1>3, OfPage
<1>5. /\ pg' = [pg EXCEPT ![p] = y] /\ rc' = [rc EXCEPT ![r] = d]
      /\ UNCHANGED <<zoneVars, lru_lock, statVars>>
  BY <1>1, <1>3, <1>4 DEF HoldWrite
<1>6. ~pg[p].lru /\ pg[p].active /\ pg[p].ref_cnt = c.old
  BY <1>1, <1>2, <1>3 DEF Own, Deactivating
<1>7. cnt \in 0..MaxRefCnt /\ (IF asked THEN ref.left ELSE cnt) \in 0..MaxRefCnt
  <2>1. c.old \in 0..MaxRefCnt /\ c.bit \in {0, 1, -1} /\ MaxRefCnt \in Nat
    BY <1>1, <1>4, <1>6 DEF PageRecords, Locals, ReclaimConstants
  <2>2. cnt \in 0..MaxRefCnt
    BY <2>1, AgedFacts
  <2> HIDE DEF cnt
  <2>3. ref.left \in 0..MaxRefCnt
    BY <2>1, <2>2 DEF cs2456_page_referenced
  <2> HIDE DEF ref
  <2> QED
    BY <2>2, <2>3
<1>8. /\ c.act \in Seq(Pages) /\ c.inact \in Seq(Pages)
      /\ <<p>> \o c.act \in Seq(Pages) /\ <<p>> \o c.inact \in Seq(Pages)
  BY <1>1, <1>3, ListTypes, Prepended
<1>9. stays \in BOOLEAN
  OBVIOUS
<1> HIDE DEF cnt, asked, ref, stays
<1>10. d \in Locals
  <2>1. "hold" \in PCs
    BY DEF PCs
  <2> QED
    BY <1>1, <1>8, <2>1 DEF Locals
<1>11. /\ d.hold = c.hold /\ d.page = Nobody /\ d.pc = "hold" /\ d.bit = 0
       /\ d.then = c.then /\ d.back = c.back /\ d.pvec = c.pvec /\ d.moved = c.moved
       /\ d.deact = c.deact /\ d.freed = c.freed
       /\ \/ d.act = <<p>> \o c.act /\ d.inact = c.inact
          \/ d.inact = <<p>> \o c.inact /\ d.act = c.act
  BY <1>1 DEF Locals
<1>12. /\ y \in PageRecords /\ y.lru = pg[p].lru /\ y.active = pg[p].active
       /\ y.referenced = pg[p].referenced /\ y.touched = pg[p].referenced
       /\ y.cached = pg[p].cached /\ y.mapped = pg[p].mapped /\ y.dirty = pg[p].dirty
       /\ y.count - Others(y) = pg[p].count - Others(pg[p])
  BY <1>4, <1>7 DEF PageRecords, Others
<1> HIDE DEF p, y, d
<1>13. Stages(d) /\ Pend(d) = Pend(c)
  BY <1>1, <1>2, <1>3, <1>11
     DEF Stages, Stage, Deactivating, Scanning, OnPage, PuttingBack, Pend
<1>14. /\ Neat(d) /\ Private(d) = Private(c)
       /\ ToSet(d.inact) \subseteq ToSet(c.inact) \cup {p}
       /\ ToSet(d.act) \subseteq ToSet(c.act) \cup {p}
  BY <1>1, <1>3, <1>10, <1>11, PageToList DEF p
<1>15. p \notin ToSet(d.hold) /\ c.page = p
  BY <1>1, <1>11 DEF Neat, p
<1>16. /\ c.pc \notin PuttingBack /\ d.pc \notin PuttingBack
       /\ d.pc \in Deactivating /\ c.pc \in Deactivating
       /\ d.pc \notin {"test", "free"} /\ d.pc # "free" /\ d.pc # "age"
  BY <1>2, <1>11 DEF PuttingBack, Deactivating
<1>17. ToSet(d.inact) \cup ToSet(d.act) \subseteq ToSet(c.inact) \cup ToSet(c.act) \cup {p}
  BY <1>14
<1> QED
  BY <1>1, <1>3, <1>4, <1>5, <1>6, <1>10, <1>11, <1>12, <1>13, <1>14, <1>15, <1>16,
     <1>17, OnePageStep

-----------------------------------------------------------------------------
(* shrink_page_list.                                                       *)

\* The page being looked at in shrink_page_list: isolated, and not active.
LEMMA OfOnPage ==
    ASSUME ReclaimConstants, ReclaimIInv, NEW r \in Reclaimers, rc[r].pc \in OnPage
    PROVE  LET p == rc[r].page
               x == pg[p]
           IN  /\ p \in Pages /\ p \in Private(rc[r]) /\ p # Nobody /\ x \in PageRecords
               /\ ~x.lru /\ ~x.active /\ ~x.touched
               /\ x.mapped => x.cached
               /\ ~x.cached => ~x.dirty
               /\ rc[r].pc \in {"test", "free"} => x.cached /\ x.count = 2
               /\ rc[r].pc = "free" => ~x.dirty
<1> DEFINE c == rc[r]
           p == c.page
<1>1. c \in Locals /\ Stages(c) /\ Own(c)
  BY OfReclaimer
<1>2. p \in Pages /\ p \in Private(c) /\ p # Nobody
  BY <1>1, PageIsPrivate
<1>3. /\ pg[p] \in PageRecords
      /\ pg[p].mapped => pg[p].cached
      /\ pg[p].touched => pg[p].active
      /\ ~pg[p].cached => ~pg[p].dirty
  BY <1>2, OfPage
<1>4. ~pg[p].lru /\ ~pg[p].active
  BY <1>1, <1>2 DEF Own, OnPage, Deactivating
<1>5. /\ c.pc \in {"test", "free"} => pg[p].cached /\ pg[p].count = 2
      /\ c.pc = "free" => ~pg[p].dirty
  BY <1>1 DEF Own
<1> QED
  BY <1>2, <1>3, <1>4, <1>5

\* The page goes to ret_pages.
LEMMA KeepKeeps ==
    ASSUME ReclaimConstants, ReclaimIInv, NEW r \in Reclaimers, rc[r].pc \in OnPage,
           NEW page \in PageRecords, ~page.lru, ~page.touched, page.mapped => page.cached,
           page.cached \/ ~page.dirty,
           page.count - Others(page) = pg[rc[r].page].count - Others(pg[rc[r].page]),
           Keep(r, page)
    PROVE  ReclaimIInv'
<1> DEFINE c == rc[r]
           p == c.page
           y == [page EXCEPT !.locked = FALSE]
           d == [c EXCEPT !.back = <<p>> \o c.back, !.page = Nobody, !.pc = "scan",
                          !.bit = 0]
<1>1. /\ rc \in [Reclaimers -> Locals] /\ c \in Locals
      /\ Stages(c) /\ Neat(c) /\ Own(c) /\ Nobody \notin Pages
  BY OfReclaimer
<1>2. p \in Pages /\ p \in Private(c) /\ p # Nobody /\ pg \in [Pages -> PageRecords]
  BY OfOnPage, OfPage
<1>3. /\ pg' = [pg EXCEPT ![p] = y] /\ rc' = [rc EXCEPT ![r] = d]
      /\ UNCHANGED <<zoneVars, lru_lock, statVars>>
  BY <1>1 DEF Keep
<1>4. <<p>> \o c.back \in Seq(Pages)
  BY <1>1, <1>2, ListTypes, Prepended
<1>5. d \in Locals
  <2>1. "scan" \in PCs
    BY DEF PCs
  <2> QED
    BY <1>1, <1>4, <2>1 DEF Locals
<1>6. /\ d.hold = c.hold /\ d.page = Nobody /\ d.pc = "scan" /\ d.bit = 0
      /\ d.then = c.then /\ d.inact = c.inact /\ d.act = c.act /\ d.pvec = c.pvec
      /\ d.moved = c.moved /\ d.deact = c.deact /\ d.freed = c.freed
      /\ d.back = <<p>> \o c.back
  BY <1>1 DEF Locals
<1>7. /\ y \in PageRecords /\ y.lru = page.lru /\ y.touched = page.touched
      /\ y.cached = page.cached /\ y.mapped = page.mapped /\ y.dirty = page.dirty
      /\ y.count - Others(y) = pg[p].count - Others(pg[p])
  BY DEF PageRecords, Others
<1> HIDE DEF p, y, d
<1>8. Stages(d) /\ Pend(d) = Pend(c)
  BY <1>1, <1>2, <1>6
     DEF Stages, Stage, Deactivating, Scanning, OnPage, PuttingBack, Pend
<1>9. Neat(d) /\ Private(d) = Private(c)
  BY <1>1, <1>2, <1>5, <1>6, PageToList DEF p
<1>10. p \notin ToSet(d.hold) /\ p \notin ToSet(d.inact) \cup ToSet(d.act) /\ c.page = p
  BY <1>1, <1>6 DEF Neat, p
<1>11. /\ c.pc \notin PuttingBack /\ d.pc \notin PuttingBack
       /\ d.pc \notin Deactivating /\ c.pc \notin Deactivating
       /\ d.pc \notin {"test", "free"} /\ d.pc # "free" /\ d.pc # "age"
  BY <1>6 DEF PuttingBack, Deactivating, OnPage
<1> QED
  BY <1>2, <1>3, <1>5, <1>6, <1>7, <1>8, <1>9, <1>10, <1>11, OnePageStep

\* The page is looked at further.
LEMMA OnPageKeeps ==
    ASSUME ReclaimConstants, ReclaimIInv, NEW r \in Reclaimers, rc[r].pc \in OnPage,
           NEW y \in PageRecords, NEW k \in OnPage, NEW b \in {0, 1, -1},
           ~y.lru, ~y.active, ~y.touched, y.mapped => y.cached,
           y.cached \/ ~y.dirty,
           y.count - Others(y) = pg[rc[r].page].count - Others(pg[rc[r].page]),
           k \in {"test", "free"} => y.cached /\ y.count = 2,
           k = "free" => ~y.dirty,
           pg' = [pg EXCEPT ![rc[r].page] = y],
           rc' = [rc EXCEPT ![r] = [rc[r] EXCEPT !.pc = k, !.bit = b]],
           UNCHANGED <<zoneVars, lru_lock, statVars>>
    PROVE  ReclaimIInv'
<1> DEFINE c == rc[r]
           p == c.page
           d == [c EXCEPT !.pc = k, !.bit = b]
<1>1. c \in Locals /\ Stages(c) /\ Neat(c)
  BY OfReclaimer
<1>2. p \in Pages /\ p \in Private(c) /\ p # Nobody
  BY OfOnPage
<1>3. d \in Locals
  <2>1. k \in PCs
    BY DEF PCs, OnPage
  <2> QED
    BY <1>1, <2>1 DEF Locals
<1>4. /\ d.hold = c.hold /\ d.page = p /\ d.pc = k /\ d.bit = b /\ d.back = c.back
      /\ d.then = c.then /\ d.inact = c.inact /\ d.act = c.act /\ d.pvec = c.pvec
      /\ d.moved = c.moved /\ d.deact = c.deact /\ d.freed = c.freed
  BY <1>1 DEF Locals
<1>5. rc' = [rc EXCEPT ![r] = d]
  OBVIOUS
<1> HIDE DEF p, d
<1>6. Stages(d) /\ Pend(d) = Pend(c)
  BY <1>1, <1>2, <1>4
     DEF Stages, Stage, Deactivating, Scanning, OnPage, PuttingBack, Pend
<1>7. Neat(d) /\ Private(d) = Private(c)
  BY <1>1, <1>3, <1>4, SameLists DEF p
<1>8. p \notin ToSet(d.hold) /\ p \notin ToSet(d.inact) \cup ToSet(d.act) /\ c.page = p
  BY <1>1, <1>4 DEF Neat, p
<1>9. /\ c.pc \notin PuttingBack /\ d.pc \notin PuttingBack
      /\ d.pc \notin Deactivating /\ c.pc \notin Deactivating /\ d.pc # "age"
  BY <1>4 DEF PuttingBack, Deactivating, OnPage
<1> QED
  BY <1>2, <1>3, <1>4, <1>5, <1>6, <1>7, <1>8, <1>9, OnePageStep DEF p

\* shrink_page_list goes on to its next stage.
LEMMA GoOnKeeps ==
    ASSUME ReclaimConstants, ReclaimIInv, NEW r \in Reclaimers, rc[r].pc \in OnPage,
           NEW y \in PageRecords, NEW k \in OnPage,
           ~y.lru, ~y.active, ~y.touched, y.mapped => y.cached, y.cached \/ ~y.dirty,
           y.count - Others(y) = pg[rc[r].page].count - Others(pg[rc[r].page]),
           k \in {"test", "free"} => y.cached /\ y.count = 2,
           k = "free" => ~y.dirty,
           GoOn(r, y, k)
    PROVE  ReclaimIInv'
<1>1. /\ rc \in [Reclaimers -> Locals] /\ rc[r] \in Locals
  BY OfReclaimer
<1>2. rc[r].bit \in {0, 1, -1}
  BY <1>1 DEF Locals
<1>3. rc' = [rc EXCEPT ![r] = [rc[r] EXCEPT !.pc = k, !.bit = rc[r].bit]]
  BY <1>1 DEF GoOn, Locals
<1> QED
  BY <1>2, <1>3, OnPageKeeps DEF GoOn

\* shrink_page_list locks the next page.
LEMMA PageLockKeeps ==
    ASSUME ReclaimConstants, ReclaimIInv, NEW r \in Reclaimers, PageLock(r)
    PROVE  ReclaimIInv'
<1> DEFINE c == rc[r]
           p == Last(c.hold)
           y == [pg[p] EXCEPT !.locked = TRUE]
           d == [c EXCEPT !.hold = Front(c.hold), !.page = p, !.pc = "locked"]
           e == [c EXCEPT !.hold = Front(c.hold), !.back = <<p>> \o c.back]
<1>1. /\ rc \in [Reclaimers -> Locals] /\ c \in Locals
      /\ Stages(c) /\ Neat(c) /\ Own(c) /\ Nobody \notin Pages
  BY OfReclaimer
<1>2. c.pc = "scan" /\ c.hold # <<>> /\ c.page = Nobody
  BY <1>1 DEF PageLock, At, Stages, OnPage
<1>3. p \in Pages /\ p \in ToSet(c.hold) /\ Front(c.hold) \in Seq(Pages)
  BY <1>1, <1>2, ListTypes, Shortened
<1>4. /\ pg \in [Pages -> PageRecords] /\ pg[p] \in PageRecords
      /\ pg[p].mapped => pg[p].cached
      /\ pg[p].touched => pg[p].active
      /\ ~pg[p].cached => ~pg[p].dirty
  BY <1>3, OfPage
<1>5. p \in Private(c) /\ p # Nobody /\ ~pg[p].lru /\ ~pg[p].active
  <2>1. p \in Private(c) /\ p # Nobody
    BY <1>1, <1>3, PrivatePages
  <2> QED
    BY <1>1, <1>2, <1>3, <2>1 DEF Own, Deactivating
<1>6. UNCHANGED <<zoneVars, lru_lock, statVars>>
  BY DEF PageLock
<1>7. CASE pg' = [pg EXCEPT ![p] = y] /\ rc' = [rc EXCEPT ![r] = d]
  <2> HIDE DEF p
  <2>1. d \in Locals
    <3>1. "locked" \in PCs
      BY DEF PCs
    <3> QED
      BY <1>1, <1>3, <3>1 DEF Locals
  <2>2. /\ d.hold = Front(c.hold) /\ d.page = p /\ d.pc = "locked" /\ d.back = c.back
        /\ d.then = c.then /\ d.inact = c.inact /\ d.act = c.act /\ d.pvec = c.pvec
        /\ d.moved = c.moved /\ d.deact = c.deact /\ d.freed = c.freed
    BY <1>1 DEF Locals
  <2>3. /\ y \in PageRecords /\ y.lru = pg[p].lru /\ y.active = pg[p].active
        /\ y.touched = pg[p].touched /\ y.cached = pg[p].cached
        /\ y.mapped = pg[p].mapped /\ y.dirty = pg[p].dirty
        /\ y.count - Others(y) = pg[p].count - Others(pg[p])
    BY <1>4 DEF PageRecords, Others
  <2> HIDE DEF d, y
  <2>4. Stages(d) /\ Pend(d) = Pend(c)
    BY <1>1, <1>2, <1>5, <2>2
       DEF Stages, Stage, Deactivating, Scanning, OnPage, PuttingBack, Pend
  <2>5. /\ Neat(d) /\ Private(d) = Private(c)
        /\ ToSet(d.hold) \subseteq ToSet(c.hold)
    <3>1. d.page = Last(c.hold)
      BY <2>2 DEF p
    <3> QED
      BY <1>1, <1>2, <2>1, <2>2, <3>1, HoldToPage
  <2>6. p \notin ToSet(d.hold) \cup ToSet(d.inact) \cup ToSet(d.act)
    BY <2>2, <2>5 DEF Neat
  <2>7. /\ c.pc \notin PuttingBack /\ d.pc \notin PuttingBack
        /\ d.pc \notin Deactivating /\ c.pc \notin Deactivating
        /\ d.pc \notin {"test", "free"} /\ d.pc # "free" /\ d.pc # "age"
    BY <1>2, <2>2 DEF PuttingBack, Deactivating
  <2> QED
    BY <1>2, <1>4, <1>5, <1>6, <1>7, <2>1, <2>2, <2>3, <2>4, <2>5, <2>6, <2>7, OnePageStep
<1>8. CASE pg' = pg /\ rc' = [rc EXCEPT ![r] = e]
  <2>1. <<p>> \o c.back \in Seq(Pages)
    BY <1>1, <1>3, ListTypes, Prepended
  <2>2. e \in Locals
    <3> HIDE DEF p
    <3> QED
      BY <1>1, <1>3, <2>1 DEF Locals
  <2>3. /\ e.hold = Front(c.hold) /\ e.page = c.page /\ e.pc = c.pc /\ e.bit = c.bit
        /\ e.then = c.then /\ e.inact = c.inact /\ e.act = c.act /\ e.pvec = c.pvec
        /\ e.moved = c.moved /\ e.deact = c.deact /\ e.freed = c.freed
        /\ e.back = <<Last(c.hold)>> \o c.back
    BY <1>1 DEF Locals
  <2>4. pg' = [pg EXCEPT ![p] = pg[p]]
    BY <1>3, <1>4, <1>8
  <2> HIDE DEF p, e
  <2>5. Stages(e) /\ Pend(e) = Pend(c)
    BY <1>1, <1>2, <2>3
       DEF Stages, Stage, Deactivating, Scanning, OnPage, PuttingBack, Pend
  <2>6. Neat(e) /\ Private(e) = Private(c) /\ ToSet(e.hold) \subseteq ToSet(c.hold)
    BY <1>1, <1>2, <2>2, <2>3, HoldToBack
  <2>7. p \notin ToSet(e.hold)
    <3>1. e.back = <<p>> \o c.back /\ c.back \in Seq(Pages)
      BY <1>1, <2>3, ListTypes DEF p
    <3>2. p \in ToSet(e.back)
      BY <1>3, <3>1, Prepended
    <3> QED
      BY <2>6, <3>2 DEF Neat, Disjoint
  <2>8. p \notin ToSet(e.inact) \cup ToSet(e.act)
    BY <1>1, <1>3, <2>3 DEF Neat, Disjoint
  <2>9. /\ c.pc \notin PuttingBack /\ e.pc \notin PuttingBack
        /\ e.pc \notin Deactivating /\ c.pc \notin Deactivating
        /\ e.pc \notin {"test", "free"} /\ e.pc # "free" /\ e.pc # "age"
    BY <1>2, <2>3 DEF PuttingBack, Deactivating
  <2> QED
    BY <1>2, <1>4, <1>5, <1>6, <1>8, <2>2, <2>3, <2>4, <2>5, <2>6, <2>7, <2>8, <2>9,
       OnePageStep
<1> QED
  BY <1>1, <1>3, <1>4, <1>7, <1>8 DEF PageLock

\* page_referenced.
LEMMA PageReferencedKeeps ==
    ASSUME ReclaimConstants, ReclaimIInv, NEW r \in Reclaimers, PageReferenced(r)
    PROVE  ReclaimIInv'
<1> DEFINE p == rc[r].page
           x == pg[p]
           page == [x EXCEPT !.referenced = FALSE]
<1>1. rc[r].pc \in OnPage /\ rc \in [Reclaimers -> Locals] /\ rc[r] \in Locals
  BY OfReclaimer DEF PageReferenced, At, OnPage
<1>2. /\ p \in Pages /\ x \in PageRecords /\ ~x.lru /\ ~x.active /\ ~x.touched
      /\ x.mapped => x.cached
      /\ ~x.cached => ~x.dirty
  BY <1>1, OfOnPage
<1>3. /\ page \in PageRecords /\ ~page.lru /\ ~page.active /\ ~page.touched
      /\ page.mapped => page.cached
      /\ page.cached \/ ~page.dirty
      /\ page.count - Others(page) = x.count - Others(x)
  BY <1>2 DEF PageRecords, Others
<1>4. CASE KeepLocked(r)
  BY <1>1, <1>2, <1>4, KeepKeeps DEF KeepLocked
<1>5. CASE Keep(r, [page EXCEPT !.active = TRUE])
  <2> DEFINE y == [page EXCEPT !.active = TRUE]
  <2>1. /\ y \in PageRecords /\ ~y.lru /\ ~y.touched
        /\ y.mapped => y.cached
        /\ y.cached \/ ~y.dirty
        /\ y.count - Others(y) = x.count - Others(x)
    BY <1>2, <1>3 DEF PageRecords, Others
  <2> HIDE DEF y
  <2>2. Keep(r, y)
    BY <1>5 DEF y
  <2> QED
    BY <1>1, <2>1, <2>2, KeepKeeps
<1>6. ASSUME NEW b \in {0, 1, -1}, rc' = [rc EXCEPT ![r].pc = "unmap", ![r].bit = b],
             pg' = [pg EXCEPT ![p] = page], UNCHANGED <<zoneVars, lru_lock, statVars>>
      PROVE  ReclaimIInv'
  <2>1. rc' = [rc EXCEPT ![r] = [rc[r] EXCEPT !.pc = "unmap", !.bit = b]]
    BY <1>1, <1>6
  <2>2. "unmap" \in OnPage /\ "unmap" \notin {"test", "free"}
    BY DEF OnPage
  <2> HIDE DEF page
  <2> QED
    BY <1>1, <1>3, <1>6, <2>1, <2>2, OnPageKeeps
<1>7. \/ KeepLocked(r) \/ Keep(r, [page EXCEPT !.active = TRUE])
      \/ \E b \in {0, 1, -1} : /\ rc' = [rc EXCEPT ![r].pc = "unmap", ![r].bit = b]
                           /\ pg' = [pg EXCEPT ![p] = page]
                           /\ UNCHANGED <<zoneVars, lru_lock, statVars>>
  BY DEF PageReferenced
<1> QED
  BY <1>4, <1>5, <1>6, <1>7

\* The page as it is, made active or unlocked; or the next step with it.
LEMMA SamePage ==
    ASSUME ReclaimConstants, ReclaimIInv, NEW r \in Reclaimers, rc[r].pc \in OnPage,
           \/ KeepLocked(r) \/ ActivateLocked(r)
           \/ GoOn(r, pg[rc[r].page], "dirty") \/ GoOn(r, pg[rc[r].page], "remove")
           \/ /\ GoOn(r, pg[rc[r].page], "test")
              /\ pg[rc[r].page].cached /\ pg[rc[r].page].count = 2
           \/ /\ rc[r].pc = "test" /\ ~pg[rc[r].page].dirty
              /\ GoOn(r, pg[rc[r].page], "free")
    PROVE  ReclaimIInv'
<1> DEFINE x == pg[rc[r].page]
           y == [x EXCEPT !.active = TRUE]
<1>1. /\ x \in PageRecords /\ ~x.lru /\ ~x.active /\ ~x.touched
      /\ x.mapped => x.cached
      /\ x.cached \/ ~x.dirty
      /\ rc[r].pc \in {"test", "free"} => x.cached /\ x.count = 2
      /\ x.count - Others(x) = pg[rc[r].page].count - Others(pg[rc[r].page])
  BY OfOnPage
<1>2. /\ y \in PageRecords /\ ~y.lru /\ ~y.touched
      /\ y.mapped => y.cached
      /\ y.cached \/ ~y.dirty
      /\ y.count - Others(y) = pg[rc[r].page].count - Others(pg[rc[r].page])
  BY <1>1 DEF PageRecords, Others
<1>3. {"dirty", "remove", "test", "free"} \subseteq OnPage
  BY DEF OnPage
<1>4. CASE KeepLocked(r)
  BY <1>1, <1>4, KeepKeeps DEF KeepLocked
<1>5. CASE ActivateLocked(r)
  <2>1. Keep(r, y)
    BY <1>5 DEF ActivateLocked
  <2> HIDE DEF y
  <2> QED
    BY <1>2, <2>1, KeepKeeps
<1>6. ASSUME NEW k \in {"dirty", "remove", "test", "free"}, GoOn(r, x, k),
             k \in {"test", "free"} => x.cached /\ x.count = 2,
             k = "free" => ~x.dirty
      PROVE  ReclaimIInv'
  BY <1>1, <1>3, <1>6, GoOnKeeps
<1> QED
  BY <1>1, <1>4, <1>5, <1>6

\* try_to_unmap.
LEMMA PageUnmapKeeps ==
    ASSUME ReclaimConstants, ReclaimIInv, NEW r \in Reclaimers, PageUnmap(r)
    PROVE  ReclaimIInv'
<1> DEFINE x == pg[rc[r].page]
<1>1. rc[r].pc \in OnPage
  BY DEF PageUnmap, At, OnPage
<1>2. /\ x \in PageRecords /\ ~x.lru /\ ~x.active /\ ~x.touched
      /\ x.mapped => x.cached
      /\ x.cached \/ ~x.dirty
  BY <1>1, OfOnPage
<1>3. ASSUME NEW wrote \in BOOLEAN, x.mapped,
             GoOn(r, [x EXCEPT !.mapped = FALSE, !.count = @ - 1,
                               !.dirty = @ \/ wrote], "dirty")
      PROVE  ReclaimIInv'
  <2> DEFINE y == [x EXCEPT !.mapped = FALSE, !.count = @ - 1, !.dirty = @ \/ wrote]
  <2>1. x.count \in Nat /\ x.count >= 1
    <3>1. /\ RTypeOK /\ LocalsInv /\ RefCountExact
      BY DEF ReclaimIInv
    <3>2. /\ rc[r].page \in Pages
      BY <1>1, OfOnPage
    <3>3. /\ x.count \in Nat /\ Others(x) \in 0..3 /\ Mine(rc[r].page, rc[r]) \in Nat
          /\ Others(x) + Mine(rc[r].page, rc[r]) <= x.count
      BY <3>1, <3>2, CountTells
    <3>4. Others(x) >= 1
      BY <1>3 DEF Others
    <3> QED
      BY <3>3, <3>4
  <2>2. /\ y \in PageRecords /\ ~y.lru /\ ~y.active /\ ~y.touched
        /\ y.mapped => y.cached
        /\ y.cached \/ ~y.dirty
        /\ y.count - Others(y) = x.count - Others(x)
    <3>1. /\ y \in PageRecords /\ y.lru = x.lru /\ y.active = x.active
          /\ y.touched = x.touched /\ y.cached = x.cached /\ y.mapped = FALSE
          /\ y.count = x.count - 1 /\ y.user = x.user
      <4>1. (x.dirty \/ wrote) \in BOOLEAN /\ x.count - 1 \in Nat
        BY <2>1
      <4> QED
        BY <1>2, <4>1 DEF PageRecords
    <3>2. Others(y) = Others(x) - 1
      BY <1>3, <3>1 DEF Others
    <3>3. Others(x) \in Int
      BY DEF Others
    <3> HIDE DEF y
    <3> QED
      BY <1>2, <1>3, <2>1, <3>1, <3>2, <3>3
  <2>3. "dirty" \in OnPage /\ "dirty" \notin {"test", "free"}
    BY DEF OnPage
  <2>4. GoOn(r, y, "dirty")
    BY <1>3
  <2> HIDE DEF y
  <2> QED
    BY <1>1, <2>2, <2>3, <2>4, GoOnKeeps
<1> QED
  BY <1>1, <1>3, SamePage DEF PageUnmap

\* pageout.
LEMMA PageOutKeeps ==
    ASSUME ReclaimConstants, ReclaimIInv, NEW r \in Reclaimers, PageOut(r)
    PROVE  ReclaimIInv'
<1> DEFINE x == pg[rc[r].page]
           page == [x EXCEPT !.dirty = FALSE, !.locked = FALSE]
           y == [page EXCEPT !.writeback = TRUE]
<1>1. rc[r].pc \in OnPage
  BY DEF PageOut, At, OnPage
<1>2. /\ x \in PageRecords /\ ~x.lru /\ ~x.active /\ ~x.touched
      /\ x.mapped => x.cached
      /\ x.cached \/ ~x.dirty
  BY <1>1, OfOnPage
<1>3. /\ page \in PageRecords /\ ~page.lru /\ ~page.active /\ ~page.touched
      /\ page.mapped => page.cached
      /\ page.cached \/ ~page.dirty
      /\ page.count - Others(page) = x.count - Others(x)
  BY <1>2 DEF PageRecords, Others
<1>4. /\ y \in PageRecords /\ ~y.lru /\ ~y.active /\ ~y.touched
      /\ y.mapped => y.cached
      /\ y.cached \/ ~y.dirty
      /\ y.count - Others(y) = x.count - Others(x)
  BY <1>2 DEF PageRecords, Others
<1>5. CASE Keep(r, y)
  <2> HIDE DEF y
  <2> QED
    BY <1>1, <1>4, <1>5, KeepKeeps
<1>6. CASE GoOn(r, page, "written")
  <2>1. "written" \in OnPage /\ "written" \notin {"test", "free"}
    BY DEF OnPage
  <2> HIDE DEF page
  <2> QED
    BY <1>1, <1>3, <1>6, <2>1, GoOnKeeps
<1> QED
  BY <1>1, <1>5, <1>6, SamePage DEF PageOut

\* The page after pageout.
LEMMA PageWrittenKeeps ==
    ASSUME ReclaimConstants, ReclaimIInv, NEW r \in Reclaimers, PageWritten(r)
    PROVE  ReclaimIInv'
<1> DEFINE x == pg[rc[r].page]
           y == [x EXCEPT !.locked = TRUE]
<1>1. rc[r].pc \in OnPage
  BY DEF PageWritten, At, OnPage
<1>2. /\ x \in PageRecords /\ ~x.lru /\ ~x.active /\ ~x.touched
      /\ x.mapped => x.cached
      /\ x.cached \/ ~x.dirty
  BY <1>1, OfOnPage
<1>3. /\ y \in PageRecords /\ ~y.lru /\ ~y.active /\ ~y.touched
      /\ y.mapped => y.cached
      /\ y.cached \/ ~y.dirty
      /\ y.count - Others(y) = x.count - Others(x)
  BY <1>2 DEF PageRecords, Others
<1>4. CASE GoOn(r, y, "remove")
  <2>1. "remove" \in OnPage /\ "remove" \notin {"test", "free"}
    BY DEF OnPage
  <2> HIDE DEF y
  <2> QED
    BY <1>1, <1>3, <1>4, <2>1, GoOnKeeps
<1> QED
  BY <1>1, <1>4, SamePage DEF PageWritten

\* The two tests of remove_mapping.
LEMMA RemoveMappingKeeps ==
    ASSUME ReclaimConstants, ReclaimIInv, NEW r \in Reclaimers, RemoveMapping(r)
    PROVE  ReclaimIInv'
<1>1. rc[r].pc \in OnPage
  BY DEF RemoveMapping, RemoveTest, At, OnPage
<1> QED
  BY <1>1, SamePage DEF RemoveMapping, RemoveTest, At

-----------------------------------------------------------------------------
(* The numbers.                                                            *)

\* A positive multiple of m is at least m.
LEMMA Multiple ==
    ASSUME NEW m \in Nat \ {0}, NEW k \in Int, m * k > 0
    PROVE  m * k >= m
<1>1. k >= 1
  <2>1. CASE k <= 0
    <3>1. m * k <= 0
      BY <2>1, SMT
    <3> QED
      BY <3>1
  <2> QED
    BY <2>1
<1>2. m * k >= m * 1
  BY <1>1, SMT
<1> QED
  BY <1>2

\* Reducing a number before something is added to it.
LEMMA ModPlus ==
    ASSUME NEW m \in Nat \ {0}, NEW x \in Nat, NEW k \in Nat
    PROVE  ((x % m) + k) % m = (x + k) % m
<1> DEFINE y == (x % m) + k
           z == x + k
           d == x \div m
           p == y \div m
           q == z \div m
           s == y % m
           t == z % m
<1>1. x = m * d + (x % m) /\ x % m \in 0..m - 1 /\ d \in Int
  BY SMT
<1>2. y \in Int /\ z \in Int
  BY <1>1
<1>3. y = m * p + s /\ p \in Int /\ s \in 0..m - 1
  BY <1>2, SMT
<1>4. z = m * q + t /\ q \in Int /\ t \in 0..m - 1
  BY <1>2, SMT
<1>5. z = y + m * d
  BY <1>1
<1> HIDE DEF y, z, d, p, q, s, t
<1>6. m * p \in Int /\ m * q \in Int /\ m * d \in Int
  BY <1>1, <1>3, <1>4
<1>7. s - t = m * q - m * p - m * d /\ t - s = m * p + m * d - m * q
  BY <1>1, <1>2, <1>3, <1>4, <1>5, <1>6
<1>8. m * q - m * p - m * d = m * (q - p - d) /\ m * p + m * d - m * q = m * (p + d - q)
  BY <1>1, <1>3, <1>4, SMT
<1>9. s - t \in Int /\ s - t < m /\ t - s < m
  BY <1>3, <1>4
<1>10. ~(s - t > 0)
  <2>1. s - t = m * (q - p - d) /\ q - p - d \in Int
    BY <1>1, <1>3, <1>4, <1>7, <1>8
  <2> QED
    BY <2>1, <1>9, Multiple
<1>11. ~(t - s > 0)
  <2>1. t - s = m * (p + d - q) /\ p + d - q \in Int
    BY <1>1, <1>3, <1>4, <1>7, <1>8
  <2> QED
    BY <2>1, <1>9, Multiple
<1>12. s = t
  BY <1>3, <1>4, <1>10, <1>11
<1> QED
  BY <1>12 DEF s, t, y, z

\* A sum in the counters: of the right type, and reduced once.
LEMMA PlusIs ==
    ASSUME ReclaimConstants, NEW a \in Nat, NEW b \in Nat
    PROVE  /\ Plus(a, b) \in 0..Wrap - 1
           /\ \A k \in Nat : Plus(Plus(a, b), k) = Plus(a, b + k)
           /\ a < Wrap => Plus(a, 0) = a
<1>1. Wrap \in Nat \ {0}
  BY DEF ReclaimConstants
<1>2. a + b \in Nat /\ (a + b) % Wrap \in 0..Wrap - 1
  BY <1>1
<1>3. ASSUME NEW k \in Nat PROVE (((a + b) % Wrap) + k) % Wrap = (a + (b + k)) % Wrap
  <2>1. (((a + b) % Wrap) + k) % Wrap = ((a + b) + k) % Wrap
    BY <1>1, <1>2, ModPlus
  <2> QED
    BY <2>1
<1>4. a < Wrap => (a + 0) % Wrap = a
  BY <1>1
<1> QED
  BY <1>2, <1>3, <1>4 DEF Plus

\* The pages put back in step l and not yet counted, of the locals c.
Moving(c, l) == IF c.pc = l THEN c.moved ELSE 0

\* The counters of the zone, for the reclaimer that has lru_lock or may take it.
LEMMA LockedCounts ==
    ASSUME ReclaimConstants, ReclaimIInv, NEW r \in Reclaimers, lru_lock \in {r, Nobody}
    PROVE  /\ Len(active) = nr_active + Moving(rc[r], "put_active")
           /\ Len(inactive) = nr_inactive + Moving(rc[r], "put_inactive")
<1>1. CountInv /\ r # Nobody /\ (lru_lock = r <=> rc[r].pc \in PuttingBack)
  BY OfReclaimer DEF ReclaimIInv
<1>2. \A l \in {"put_active", "put_inactive"} : Batch(l) = Moving(rc[r], l)
  BY <1>1 DEF Batch, At, Moving, PuttingBack
<1> QED
  BY <1>1, <1>2 DEF CountInv

\* After its step.
LEMMA LockedCountsNext ==
    ASSUME ReclaimConstants, NEW r \in Reclaimers, lru_lock' \in {r, Nobody},
           lru_lock' = r <=> rc'[r].pc \in PuttingBack,
           Len(active') = nr_active' + Moving(rc'[r], "put_active"),
           Len(inactive') = nr_inactive' + Moving(rc'[r], "put_inactive")
    PROVE  CountInv'
<1>1. r # Nobody
  BY DEF ReclaimConstants
<1>2. \A l \in {"put_active", "put_inactive"} : Batch(l)' = Moving(rc'[r], l)
  BY <1>1 DEF Batch, At, Moving, PuttingBack
<1> QED
  BY <1>2 DEF CountInv

\* The pages not yet counted: all but one reclaimer's stay.
LEMMA PendingChanges ==
    ASSUME ReclaimConstants, ReclaimIInv, NEW r \in Reclaimers,
           rc' \in [Reclaimers -> Locals], \A s \in Reclaimers : s # r => rc'[s] = rc[s]
    PROVE  \E T, U \in Nat :
              /\ DeactivatedCounted <=> Plus(num_active_to_inactive, T) = deactivated
              /\ DeactivatedCounted' <=> Plus(num_active_to_inactive', U) = deactivated'
              /\ U - Pend(rc'[r]) = T - Pend(rc[r])
              /\ Pend(rc[r]) \in Nat /\ Pend(rc'[r]) \in Nat
              /\ Pend(rc[r]) <= T /\ Pend(rc'[r]) <= U
<1> DEFINE f == [s \in Reclaimers |-> Pend(rc[s])]
           g == [s \in Reclaimers |-> Pend(rc'[s])]
<1>1. rc \in [Reclaimers -> Locals] /\ IsFiniteSet(Reclaimers)
  BY OfReclaimer DEF ReclaimConstants
<1>2. \A c \in Locals : Pend(c) \in Nat
  <2>1. \A c \in Locals : c.deact \in Nat /\ c.moved \in Nat
    BY DEF Locals
  <2> QED
    BY <2>1 DEF Pend
<1>3. f \in [Reclaimers -> Nat] /\ g \in [Reclaimers -> Nat]
  BY <1>1, <1>2
<1>4. f[r] = Pend(rc[r]) /\ g[r] = Pend(rc'[r]) /\ \A s \in Reclaimers : s # r => g[s] = f[s]
  OBVIOUS
<1>5. /\ f = [s \in Reclaimers |-> rc[s].deact + IF At(s, "put_active") THEN 0 ELSE rc[s].moved]
      /\ g = [s \in Reclaimers |->
                 rc'[s].deact + IF At(s, "put_active")' THEN 0 ELSE rc'[s].moved]
  BY DEF Pend, At
<1>6. /\ DeactivatedCounted <=> Plus(num_active_to_inactive, Total(f)) = deactivated
      /\ DeactivatedCounted' <=> Plus(num_active_to_inactive', Total(g)) = deactivated'
  BY <1>5 DEF DeactivatedCounted
<1> HIDE DEF f, g
<1>7. /\ Total(f) \in Nat /\ Total(g) \in Nat /\ Total(g) - g[r] = Total(f) - f[r]
      /\ f[r] <= Total(f) /\ g[r] <= Total(g)
  BY <1>1, <1>3, <1>4, TotalChanges, TotalBound
<1>8. f[r] \in Nat /\ g[r] \in Nat
  BY <1>3
<1> DEFINE T == Total(f)
           U == Total(g)
<1>9. /\ T \in Nat /\ U \in Nat
      /\ DeactivatedCounted <=> Plus(num_active_to_inactive, T) = deactivated
      /\ DeactivatedCounted' <=> Plus(num_active_to_inactive', U) = deactivated'
      /\ U - Pend(rc'[r]) = T - Pend(rc[r])
      /\ Pend(rc[r]) \in Nat /\ Pend(rc'[r]) \in Nat
      /\ Pend(rc[r]) <= T /\ Pend(rc'[r]) <= U
  BY <1>4, <1>6, <1>7, <1>8
<1> HIDE DEF T, U
<1> QED
  BY <1>9

-----------------------------------------------------------------------------
(* Steps that move no page.                                                *)

\* The reclaimer has no batch and looks at no page; its lists stay.
LEMMA ControlStep ==
    ASSUME ReclaimConstants, ReclaimIInv, NEW r \in Reclaimers, NEW d \in Locals,
           rc' = [rc EXCEPT ![r] = d], pg' = pg, active' = active, inactive' = inactive,
           nr_active' \in Nat, nr_inactive' \in Nat,
           num_active_to_inactive' \in 0..Wrap - 1, num_inactive_to_free' \in 0..Wrap - 1,
           rc[r].hold = <<>>, rc[r].page = Nobody, d.hold = rc[r].hold,
           d.inact = rc[r].inact, d.act = rc[r].act, d.back = rc[r].back,
           d.page = rc[r].page, d.pvec = rc[r].pvec, Stages(d),
           lru_lock' = lru_lock
              \/ (lru_lock \in {r, Nobody} /\ lru_lock' \in {r, Nobody}),
           lru_lock' = r <=> d.pc \in PuttingBack,
           CountInv', DeactivatedCounted'
    PROVE  ReclaimIInv'
<1> DEFINE c == rc[r]
<1>1. /\ rc \in [Reclaimers -> Locals] /\ c \in Locals /\ Stages(c) /\ Neat(c) /\ Own(c)
      /\ r # Nobody /\ Nobody \notin Pages
  BY OfReclaimer
<1>2. /\ rc'[r] = d /\ rc' \in [Reclaimers -> Locals]
      /\ \A s \in Reclaimers : s # r => rc'[s] = rc[s]
  BY <1>1
<1>3. RTypeOK'
  <2>1. RTypeOK
    BY DEF ReclaimIInv
  <2> QED
    BY <1>2, <2>1 DEF RTypeOK
<1>4. Neat(d) /\ Private(d) = Private(c)
  BY <1>1, SameLists
<1>5. Private(c) \subseteq Pages
  BY <1>1, PrivatePages
<1>6. d.pc \notin {"test", "free", "age"}
  BY DEF Stages, OnPage
<1>7. ToSet(d.hold) \cup ({d.page} \cap Pages) = {}
  BY <1>1 DEF ToSet
<1>8. /\ \A p \in Private(d) : ~pg[p].lru
      /\ \A p \in ToSet(d.inact) \cup ToSet(d.act) : pg[p].active
  BY <1>1, <1>4 DEF Own
<1>9. Own(rc[r])'
  BY <1>2, <1>6, <1>7, <1>8 DEF Own
<1>10. \A p \in Private(c) : c.page # p
  BY <1>1, <1>5
<1> QED
  BY <1>2, <1>3, <1>4, <1>9, <1>10, OwnStep

\* Nor does it change the numbers.
LEMMA ControlKeeps ==
    ASSUME ReclaimConstants, ReclaimIInv, NEW r \in Reclaimers, NEW d \in Locals,
           rc' = [rc EXCEPT ![r] = d], pg' = pg, UNCHANGED <<zoneVars, statVars>>,
           rc[r].hold = <<>>, rc[r].page = Nobody, d.hold = rc[r].hold,
           d.inact = rc[r].inact, d.act = rc[r].act, d.back = rc[r].back,
           d.page = rc[r].page, d.pvec = rc[r].pvec, Stages(d),
           d.deact = rc[r].deact, d.moved = 0, rc[r].moved = 0,
           \/ lru_lock \in {r, Nobody} /\ lru_lock' \in {r, Nobody}
              /\ (lru_lock' = r <=> d.pc \in PuttingBack)
           \/ lru_lock' = lru_lock /\ rc[r].pc \notin PuttingBack /\ d.pc \notin PuttingBack
    PROVE  ReclaimIInv'
<1> DEFINE c == rc[r]
<1>1. /\ rc \in [Reclaimers -> Locals] /\ c \in Locals
      /\ lru_lock = r <=> c.pc \in PuttingBack
      /\ r # Nobody /\ Nobody \notin Pages
  BY OfReclaimer
<1>2. /\ rc'[r] = d /\ rc' \in [Reclaimers -> Locals]
      /\ \A s \in Reclaimers : s # r => rc'[s] = rc[s]
  BY <1>1
<1>3. /\ active' = active /\ inactive' = inactive /\ nr_active' = nr_active
      /\ nr_inactive' = nr_inactive
      /\ num_active_to_inactive' = num_active_to_inactive
      /\ num_inactive_to_free' = num_inactive_to_free /\ deactivated' = deactivated
  BY DEF zoneVars, statVars
<1>4. CountInv'
  <2>1. CASE /\ lru_lock \in {r, Nobody} /\ lru_lock' \in {r, Nobody}
             /\ lru_lock' = r <=> d.pc \in PuttingBack
    <3>1. /\ Len(active) = nr_active + Moving(c, "put_active")
          /\ Len(inactive) = nr_inactive + Moving(c, "put_inactive")
      BY <2>1, LockedCounts
    <3>2. /\ Moving(d, "put_active") = Moving(c, "put_active")
          /\ Moving(d, "put_inactive") = Moving(c, "put_inactive")
      BY DEF Moving
    <3> QED
      BY <1>2, <1>3, <2>1, <3>1, <3>2, LockedCountsNext
  <2>2. CASE lru_lock' = lru_lock /\ c.pc \notin PuttingBack
    BY <1>2, <1>3, <2>2, SameCounts
  <2> QED
    BY <2>1, <2>2
<1>5. DeactivatedCounted'
  <2>1. Pend(d) = Pend(c)
    BY DEF Pend
  <2> QED
    BY <1>2, <1>3, <2>1, SamePending
<1>6. /\ nr_active \in Nat /\ nr_inactive \in Nat
      /\ num_active_to_inactive \in 0..Wrap - 1 /\ num_inactive_to_free \in 0..Wrap - 1
  BY DEF ReclaimIInv, RTypeOK
<1>7. lru_lock' = r <=> d.pc \in PuttingBack
  BY <1>1
<1> QED
  BY <1>3, <1>4, <1>5, <1>6, <1>7, ControlStep

\* l_hold is divided: the pages are put back.
LEMMA HoldDoneKeeps ==
    ASSUME ReclaimConstants, ReclaimIInv, NEW r \in Reclaimers, HoldDone(r)
    PROVE  ReclaimIInv'
<1> DEFINE c == rc[r]
           d == [c EXCEPT !.pc = "put_inactive", !.reclaim_mapped = FALSE]
<1>1. /\ rc \in [Reclaimers -> Locals] /\ c \in Locals /\ Stages(c)
  BY OfReclaimer
<1>2. /\ c.pc = "hold" /\ c.hold = <<>> /\ lru_lock = Nobody /\ lru_lock' = r
      /\ pg' = pg /\ UNCHANGED <<zoneVars, statVars>>
  BY DEF HoldDone, At, LruFree
<1>3. rc' = [rc EXCEPT ![r] = d]
  BY <1>1 DEF HoldDone
<1>4. d \in Locals
  BY <1>1 DEF Locals, PCs
<1>5. /\ d.pc = "put_inactive" /\ d.then = c.then /\ d.hold = c.hold /\ d.inact = c.inact
      /\ d.act = c.act /\ d.back = c.back /\ d.page = c.page /\ d.pvec = c.pvec
      /\ d.moved = c.moved /\ d.deact = c.deact /\ d.freed = c.freed
  BY <1>1 DEF Locals
<1> HIDE DEF d
<1>6. c.page = Nobody /\ c.moved = 0 /\ Stages(d) /\ d.pc \in PuttingBack
  BY <1>1, <1>2, <1>5 DEF Stages, Stage, Deactivating, Scanning, OnPage, PuttingBack
<1> QED
  BY <1>2, <1>3, <1>4, <1>5, <1>6, ControlKeeps

\* The whole page list was looked at.
LEMMA ScanDoneKeeps ==
    ASSUME ReclaimConstants, ReclaimIInv, NEW r \in Reclaimers, ScanDone(r)
    PROVE  ReclaimIInv'
<1> DEFINE c == rc[r]
           d == [c EXCEPT !.pc = "put_back"]
<1>1. /\ rc \in [Reclaimers -> Locals] /\ c \in Locals /\ Stages(c)
  BY OfReclaimer
<1>2. /\ c.pc = "scan" /\ c.hold = <<>> /\ lru_lock = Nobody /\ lru_lock' = r
      /\ pg' = pg /\ UNCHANGED <<zoneVars, statVars>>
  BY DEF ScanDone, At, LruFree
<1>3. rc' = [rc EXCEPT ![r] = d]
  BY <1>1 DEF ScanDone
<1>4. d \in Locals
  BY <1>1 DEF Locals, PCs
<1>5. /\ d.pc = "put_back" /\ d.then = c.then /\ d.hold = c.hold /\ d.inact = c.inact
      /\ d.act = c.act /\ d.back = c.back /\ d.page = c.page /\ d.pvec = c.pvec
      /\ d.moved = c.moved /\ d.deact = c.deact /\ d.freed = c.freed
  BY <1>1 DEF Locals
<1> HIDE DEF d
<1>6. c.page = Nobody /\ c.moved = 0 /\ Stages(d) /\ d.pc \in PuttingBack
  BY <1>1, <1>2, <1>5 DEF Stages, Stage, Deactivating, Scanning, OnPage, PuttingBack
<1> QED
  BY <1>2, <1>3, <1>4, <1>5, <1>6, ControlKeeps

\* lru_lock is taken again where it was dropped.
LEMMA RelockKeeps ==
    ASSUME ReclaimConstants, ReclaimIInv, NEW r \in Reclaimers, Relock(r)
    PROVE  ReclaimIInv'
<1> DEFINE c == rc[r]
           d == [c EXCEPT !.pc = c.then, !.then = "idle"]
<1>1. /\ rc \in [Reclaimers -> Locals] /\ c \in Locals /\ Stages(c)
  BY OfReclaimer
<1>2. /\ c.pc = "relock" /\ lru_lock = Nobody /\ lru_lock' = r
      /\ pg' = pg /\ UNCHANGED <<zoneVars, statVars>>
  BY DEF Relock, At, LruFree
<1>3. rc' = [rc EXCEPT ![r] = d]
  BY <1>1 DEF Relock
<1>4. d \in Locals
  BY <1>1 DEF Locals, PCs
<1>5. /\ d.pc = c.then /\ d.then = "idle" /\ d.hold = c.hold /\ d.inact = c.inact
      /\ d.act = c.act /\ d.back = c.back /\ d.page = c.page /\ d.pvec = c.pvec
      /\ d.moved = c.moved /\ d.deact = c.deact /\ d.freed = c.freed
  BY <1>1 DEF Locals
<1> HIDE DEF d
<1>6. /\ c.hold = <<>> /\ c.page = Nobody /\ c.moved = 0 /\ Stages(d)
      /\ d.pc \in PuttingBack
  BY <1>1, <1>2, <1>5 DEF Stages, Stage, Deactivating, Scanning, OnPage, PuttingBack
<1> QED
  BY <1>2, <1>3, <1>4, <1>5, <1>6, ControlKeeps

\* All max_scan pages were scanned.
LEMMA ShrinkInactiveEndKeeps ==
    ASSUME ReclaimConstants, ReclaimIInv, NEW r \in Reclaimers, ShrinkInactiveEnd(r)
    PROVE  ReclaimIInv'
<1> DEFINE c == rc[r]
           d == [c EXCEPT !.pc = "release", !.then = "report"]
<1>1. /\ rc \in [Reclaimers -> Locals] /\ c \in Locals /\ Stages(c)
      /\ lru_lock = r <=> c.pc \in PuttingBack
      /\ r # Nobody
  BY OfReclaimer
<1>2. /\ c.pc = "put_back" /\ c.back = <<>> /\ lru_lock' = Nobody
      /\ pg' = pg /\ UNCHANGED <<zoneVars, statVars>>
  BY DEF ShrinkInactiveEnd, At
<1>3. rc' = [rc EXCEPT ![r] = d]
  BY <1>1 DEF ShrinkInactiveEnd
<1>4. d \in Locals
  BY <1>1 DEF Locals, PCs
<1>5. /\ d.pc = "release" /\ d.then = "report" /\ d.hold = c.hold /\ d.inact = c.inact
      /\ d.act = c.act /\ d.back = c.back /\ d.page = c.page /\ d.pvec = c.pvec
      /\ d.moved = c.moved /\ d.deact = c.deact /\ d.freed = c.freed
  BY <1>1 DEF Locals
<1> HIDE DEF d
<1>6. /\ c.hold = <<>> /\ c.page = Nobody /\ c.moved = 0 /\ Stages(d)
      /\ d.pc \notin PuttingBack /\ c.pc \in PuttingBack
  BY <1>1, <1>2, <1>5 DEF Stages, Stage, Deactivating, Scanning, OnPage, PuttingBack
<1> QED
  BY <1>1, <1>2, <1>3, <1>4, <1>5, <1>6, ControlKeeps

\* The statistics are read.
LEMMA ReportReadKeeps ==
    ASSUME ReclaimConstants, ReclaimIInv, NEW r \in Reclaimers, ReportRead(r)
    PROVE  ReclaimIInv'
<1> DEFINE c == rc[r]
           k == ReportSum(r)
           d == [c EXCEPT !.pc = "store", !.then = "idle", !.left = 0, !.old = k]
<1>1. /\ rc \in [Reclaimers -> Locals] /\ c \in Locals /\ Stages(c)
  BY OfReclaimer
<1>2. /\ c.pc = "report" /\ lru_lock' = lru_lock
      /\ pg' = pg /\ UNCHANGED <<zoneVars, statVars>>
  BY DEF ReportRead, At
<1>3. rc' = [rc EXCEPT ![r] = d]
  BY <1>1 DEF ReportRead
<1>4. k \in 0..Wrap - 1 /\ k \in Nat
  <2>1. Wrap \in Nat
    BY DEF ReclaimConstants
  <2>2. num_inactive_to_free \in Nat /\ c.freed \in Nat
    BY <1>1, <2>1 DEF ReclaimIInv, RTypeOK, Locals
  <2>3. k \in 0..Wrap - 1
    BY <2>2, PlusIs DEF ReportSum
  <2> HIDE DEF k
  <2> QED
    BY <2>1, <2>3
<1> HIDE DEF k
<1>5. d \in Locals
  BY <1>1, <1>4 DEF Locals, PCs
<1>6. /\ d.pc = "store" /\ d.then = "idle" /\ d.hold = c.hold /\ d.inact = c.inact
      /\ d.act = c.act /\ d.back = c.back /\ d.page = c.page /\ d.pvec = c.pvec
      /\ d.moved = c.moved /\ d.deact = c.deact /\ d.freed = c.freed /\ d.old = k
  BY <1>1 DEF Locals
<1> HIDE DEF d
<1>7. /\ c.hold = <<>> /\ c.page = Nobody /\ c.moved = 0 /\ Stages(d)
      /\ d.pc \notin PuttingBack /\ c.pc \notin PuttingBack
  BY <1>1, <1>2, <1>4, <1>6
     DEF Stages, Stage, Deactivating, Scanning, OnPage, PuttingBack
<1> QED
  BY <1>2, <1>3, <1>5, <1>6, <1>7, ControlKeeps

\* The statistics are written, and the call is over.
LEMMA ReportWriteKeeps ==
    ASSUME ReclaimConstants, ReclaimIInv, NEW r \in Reclaimers, ReportWrite(r)
    PROVE  ReclaimIInv'
<1> DEFINE c == rc[r]
<1>1. /\ rc \in [Reclaimers -> Locals] /\ c \in Locals /\ Stages(c)
      /\ lru_lock = r <=> c.pc \in PuttingBack
  BY OfReclaimer
<1>2. /\ c.pc = "store" /\ rc' = [rc EXCEPT ![r] = Idle] /\ pg' = pg
      /\ num_inactive_to_free' = c.old /\ lru_lock' = lru_lock
      /\ active' = active /\ inactive' = inactive /\ nr_active' = nr_active
      /\ nr_inactive' = nr_inactive
      /\ num_active_to_inactive' = num_active_to_inactive /\ deactivated' = deactivated
  BY DEF ReportWrite, At, zoneVars
<1>3. Idle \in Locals
  <2>1. <<>> \in Seq(Pages)
    OBVIOUS
  <2> QED
    BY <2>1 DEF Idle, Locals, PCs
<1>4. /\ Idle.pc = "idle" /\ Idle.then = "idle" /\ Idle.hold = <<>> /\ Idle.inact = <<>>
      /\ Idle.act = <<>> /\ Idle.back = <<>> /\ Idle.page = Nobody /\ Idle.pvec = <<>>
      /\ Idle.moved = 0 /\ Idle.deact = 0 /\ Idle.freed = 0
  BY DEF Idle
<1>5. Stages(Idle) /\ "idle" \notin PuttingBack /\ c.pc \notin PuttingBack
  BY <1>2, <1>4 DEF Stages, Stage, Deactivating, Scanning, OnPage, PuttingBack
<1>6. /\ c.hold = <<>> /\ c.page = Nobody /\ c.moved = 0 /\ c.deact = 0
      /\ c.inact = <<>> /\ c.act = <<>> /\ c.back = <<>> /\ c.pvec = <<>>
      /\ c.old \in 0..Wrap - 1
  BY <1>1, <1>2 DEF Stages, Stage, Deactivating, Scanning, OnPage, PuttingBack
<1>7. /\ rc'[r] = Idle /\ \A s \in Reclaimers : s # r => rc'[s] = rc[s]
  BY <1>1, <1>2
<1>8. CountInv'
  BY <1>2, <1>5, <1>7, SameCounts
<1>9. DeactivatedCounted'
  <2>1. Pend(Idle) = Pend(c)
    BY <1>2, <1>4, <1>6 DEF Pend
  <2> QED
    BY <1>2, <1>7, <2>1, SamePending
<1>10. /\ nr_active \in Nat /\ nr_inactive \in Nat
       /\ num_active_to_inactive \in 0..Wrap - 1
  BY DEF ReclaimIInv, RTypeOK
<1>11. lru_lock' = r <=> Idle.pc \in PuttingBack
  BY <1>1, <1>2, <1>4, <1>5
<1> QED
  BY <1>2, <1>3, <1>4, <1>5, <1>6, <1>8, <1>9, <1>10, <1>11, ControlStep

\* NR_INACTIVE is brought up to date after l_inactive; the lock may be dropped.
LEMMA PutInactiveDoneKeeps ==
    ASSUME ReclaimConstants, ReclaimIInv, NEW r \in Reclaimers, PutInactiveDone(r)
    PROVE  ReclaimIInv'
<1> DEFINE c == rc[r]
<1>1. /\ rc \in [Reclaimers -> Locals] /\ c \in Locals /\ Stages(c)
      /\ lru_lock = r <=> c.pc \in PuttingBack
      /\ r # Nobody
  BY OfReclaimer
<1>2. PICK over_limit \in BOOLEAN :
         /\ lru_lock' = IF over_limit THEN Nobody ELSE r
         /\ rc' = [rc EXCEPT
                      ![r].deact = @ + c.moved, ![r].moved = 0,
                      ![r].then = IF over_limit THEN "put_active" ELSE @,
                      ![r].pc = IF over_limit THEN "relock" ELSE "put_active"]
  BY DEF PutInactiveDone
<1> DEFINE d == [c EXCEPT !.deact = c.deact + c.moved, !.moved = 0,
                          !.then = IF over_limit THEN "put_active" ELSE c.then,
                          !.pc = IF over_limit THEN "relock" ELSE "put_active"]
<1>3. /\ c.pc = "put_inactive" /\ c.inact = <<>> /\ pg' = pg
      /\ active' = active /\ inactive' = inactive /\ nr_active' = nr_active
      /\ nr_inactive' = nr_inactive + c.moved
      /\ num_inactive_to_free' = num_inactive_to_free
      /\ num_active_to_inactive' = num_active_to_inactive /\ deactivated' = deactivated
  BY DEF PutInactiveDone, At, statVars
<1>4. rc' = [rc EXCEPT ![r] = d]
  BY <1>1, <1>2
<1>5. d \in Locals
  <2>1. /\ (IF over_limit THEN "put_active" ELSE c.then) \in PCs
        /\ (IF over_limit THEN "relock" ELSE "put_active") \in PCs
        /\ c.deact + c.moved \in Nat
    BY <1>1 DEF Locals, PCs
  <2> QED
    BY <1>1, <2>1 DEF Locals
<1>6. /\ d.pc = (IF over_limit THEN "relock" ELSE "put_active")
      /\ d.then = (IF over_limit THEN "put_active" ELSE c.then)
      /\ d.hold = c.hold /\ d.inact = c.inact
      /\ d.act = c.act /\ d.back = c.back /\ d.page = c.page /\ d.pvec = c.pvec
      /\ d.moved = 0 /\ d.deact = c.deact + c.moved /\ d.freed = c.freed
      /\ c.moved \in Nat /\ c.deact \in Nat
  BY <1>1 DEF Locals
<1> HIDE DEF d
<1>7. /\ c.hold = <<>> /\ c.page = Nobody /\ Stages(d)
      /\ lru_lock' \in {r, Nobody} /\ (lru_lock' = r <=> d.pc \in PuttingBack)
      /\ lru_lock = r
  BY <1>1, <1>2, <1>3, <1>6
     DEF Stages, Stage, Deactivating, Scanning, OnPage, PuttingBack
<1>8. /\ rc'[r] = d /\ \A s \in Reclaimers : s # r => rc'[s] = rc[s]
  BY <1>1, <1>4
<1>9. /\ nr_active \in Nat /\ nr_inactive \in Nat
      /\ num_active_to_inactive \in 0..Wrap - 1 /\ num_inactive_to_free \in 0..Wrap - 1
  BY DEF ReclaimIInv, RTypeOK
<1>10. CountInv'
  <2>1. /\ Len(active) = nr_active + Moving(c, "put_active")
        /\ Len(inactive) = nr_inactive + Moving(c, "put_inactive")
    BY <1>7, LockedCounts
  <2>2. /\ Moving(c, "put_active") = 0 /\ Moving(c, "put_inactive") = c.moved
        /\ Moving(d, "put_active") = 0 /\ Moving(d, "put_inactive") = 0
    BY <1>3, <1>6 DEF Moving
  <2>3. /\ Len(active') = nr_active' + Moving(d, "put_active")
        /\ Len(inactive') = nr_inactive' + Moving(d, "put_inactive")
    BY <1>3, <1>6, <1>9, <2>1, <2>2
  <2> QED
    BY <1>7, <1>8, <2>3, LockedCountsNext
<1>11. DeactivatedCounted'
  <2>1. Pend(d) = Pend(c)
    BY <1>3, <1>6 DEF Pend
  <2> QED
    BY <1>3, <1>8, <2>1, SamePending
<1>12. nr_inactive' \in Nat
  BY <1>3, <1>6, <1>9
<1> QED
  BY <1>3, <1>4, <1>5, <1>6, <1>7, <1>9, <1>10, <1>11, <1>12, ControlStep

\* NR_ACTIVE and the statistics are brought up to date.
LEMMA ShrinkActiveEndKeeps ==
    ASSUME ReclaimConstants, ReclaimIInv, NEW r \in Reclaimers, ShrinkActiveEnd(r)
    PROVE  ReclaimIInv'
<1> DEFINE c == rc[r]
           d == [c EXCEPT !.pc = "release", !.then = "idle", !.moved = 0, !.deact = 0]
<1>1. /\ rc \in [Reclaimers -> Locals] /\ c \in Locals /\ Stages(c)
      /\ lru_lock = r <=> c.pc \in PuttingBack
      /\ r # Nobody
  BY OfReclaimer
<1>2. /\ c.pc = "put_active" /\ c.act = <<>> /\ pg' = pg /\ lru_lock' = Nobody
      /\ active' = active /\ inactive' = inactive /\ nr_inactive' = nr_inactive
      /\ nr_active' = nr_active + c.moved
      /\ num_inactive_to_free' = num_inactive_to_free
      /\ num_active_to_inactive' = Plus(num_active_to_inactive, c.deact)
      /\ deactivated' = deactivated
  BY DEF ShrinkActiveEnd, At
<1>3. rc' = [rc EXCEPT ![r] = d]
  BY <1>1 DEF ShrinkActiveEnd
<1>4. d \in Locals
  BY <1>1 DEF Locals, PCs
<1>5. /\ d.pc = "release" /\ d.then = "idle" /\ d.hold = c.hold /\ d.inact = c.inact
      /\ d.act = c.act /\ d.back = c.back /\ d.page = c.page /\ d.pvec = c.pvec
      /\ d.moved = 0 /\ d.deact = 0 /\ d.freed = c.freed
      /\ c.moved \in Nat /\ c.deact \in Nat
  BY <1>1 DEF Locals
<1> HIDE DEF d
<1>6. /\ c.hold = <<>> /\ c.page = Nobody /\ Stages(d) /\ lru_lock = r
      /\ lru_lock' = r <=> d.pc \in PuttingBack
  BY <1>1, <1>2, <1>5
     DEF Stages, Stage, Deactivating, Scanning, OnPage, PuttingBack
<1>7. /\ rc'[r] = d /\ rc' \in [Reclaimers -> Locals]
      /\ \A s \in Reclaimers : s # r => rc'[s] = rc[s]
  BY <1>1, <1>3, <1>4
<1>8. /\ nr_active \in Nat /\ nr_inactive \in Nat /\ Wrap \in Nat \ {0}
      /\ num_active_to_inactive \in 0..Wrap - 1 /\ num_inactive_to_free \in 0..Wrap - 1
  BY DEF ReclaimIInv, RTypeOK, ReclaimConstants
<1>9. CountInv'
  <2>1. /\ Len(active) = nr_active + Moving(c, "put_active")
        /\ Len(inactive) = nr_inactive + Moving(c, "put_inactive")
    BY <1>6, LockedCounts
  <2>2. /\ Moving(c, "put_active") = c.moved /\ Moving(c, "put_inactive") = 0
        /\ Moving(d, "put_active") = 0 /\ Moving(d, "put_inactive") = 0
    BY <1>2, <1>5 DEF Moving
  <2>3. /\ Len(active') = nr_active' + Moving(d, "put_active")
        /\ Len(inactive') = nr_inactive' + Moving(d, "put_inactive")
    BY <1>2, <1>5, <1>8, <2>1, <2>2
  <2> QED
    BY <1>2, <1>6, <1>7, <2>3, LockedCountsNext
<1>10. DeactivatedCounted' /\ num_active_to_inactive' \in 0..Wrap - 1
  <2>1. PICK T, U \in Nat :
           /\ DeactivatedCounted <=> Plus(num_active_to_inactive, T) = deactivated
           /\ DeactivatedCounted' <=> Plus(num_active_to_inactive', U) = deactivated'
           /\ U - Pend(d) = T - Pend(c)
    BY <1>7, PendingChanges
  <2>2. Pend(c) = c.deact /\ Pend(d) = 0
    BY <1>2, <1>5 DEF Pend
  <2>3. T = c.deact + U
    BY <1>5, <2>1, <2>2
  <2>4. DeactivatedCounted
    BY DEF ReclaimIInv
  <2>5. num_active_to_inactive \in Nat
    BY <1>8
  <2>6. /\ Plus(num_active_to_inactive, c.deact) \in 0..Wrap - 1
        /\ \A k \in Nat : Plus(Plus(num_active_to_inactive, c.deact), k) =
                           Plus(num_active_to_inactive, c.deact + k)
    BY <1>5, <2>5, PlusIs
  <2> QED
    BY <1>2, <2>1, <2>3, <2>4, <2>6
<1>11. nr_active' \in Nat
  BY <1>2, <1>5, <1>8
<1> QED
  BY <1>2, <1>3, <1>4, <1>5, <1>6, <1>8, <1>9, <1>10, <1>11, ControlStep

-----------------------------------------------------------------------------
(* A page is freed.                                                        *)

\* The page that was looked at is gone.
LEMMA PageGone ==
    ASSUME ReclaimConstants, NEW c \in Locals, NEW d \in Locals, Neat(c),
           c.page # Nobody, d.page = Nobody, d.hold = c.hold, d.inact = c.inact,
           d.act = c.act, d.back = c.back
    PROVE  Neat(d) /\ c.page \in Private(c) /\ Private(d) = Private(c) \ {c.page}
<1>1. /\ c.page \in Pages /\ Nobody \notin Pages
      /\ ToSet(c.hold) \subseteq Pages /\ ToSet(c.inact) \subseteq Pages
      /\ ToSet(c.act) \subseteq Pages /\ ToSet(c.back) \subseteq Pages
  BY ListTypes, Places DEF ReclaimConstants
<1>2. Neat(d)
  BY <1>1 DEF Neat
<1>3. c.page \notin ToSet(c.hold) \cup ToSet(c.inact) \cup ToSet(c.act) \cup ToSet(c.back)
  BY DEF Neat
<1> QED
  BY <1>1, <1>2, <1>3 DEF Private

\* remove_mapping has found only the page cache and the reclaimer with a
\* reference: nobody else is left when the page leaves the page cache.
LEMMA FreeItKeeps ==
    ASSUME ReclaimConstants, ReclaimIInv, NEW r \in Reclaimers, FreeIt(r)
    PROVE  ReclaimIInv'
<1> DEFINE c == rc[r]
           p == c.page
           x == pg[p]
           y == [x EXCEPT !.cached = FALSE, !.count = x.count - 2, !.locked = FALSE]
           d == [c EXCEPT !.page = Nobody, !.pc = "scan", !.freed = c.freed + 1,
                          !.bit = 0]
<1>1. /\ rc \in [Reclaimers -> Locals] /\ c \in Locals
      /\ Stages(c) /\ Neat(c) /\ Own(c) /\ Nobody \notin Pages
      /\ lru_lock = r <=> c.pc \in PuttingBack
  BY OfReclaimer
<1>2. c.pc = "free" /\ c.pc \in OnPage
  BY DEF FreeIt, At, OnPage
<1>3. p \in Pages /\ p \in Private(c) /\ p # Nobody
  BY <1>1, <1>2, PageIsPrivate
<1>4. /\ x \in PageRecords /\ ~x.lru /\ ~x.active /\ ~x.touched
      /\ x.mapped => x.cached
      /\ x.cached /\ x.count = 2 /\ ~x.dirty
  <2>1. /\ x \in PageRecords /\ ~x.lru /\ ~x.active /\ ~x.touched
        /\ x.mapped => x.cached
        /\ x.cached /\ x.count = 2
    BY <1>2, OfOnPage
  <2>2. ~x.dirty
    BY <1>1, <1>2 DEF Own
  <2> QED
    BY <2>1, <2>2
<1>5. pg \in [Pages -> PageRecords]
  BY <1>3, OfPage
<1>6. /\ pg' = [pg EXCEPT ![p] = y] /\ rc' = [rc EXCEPT ![r] = d]
      /\ lru_lock' = lru_lock /\ active' = active /\ inactive' = inactive
      /\ nr_active' = nr_active /\ nr_inactive' = nr_inactive
      /\ num_inactive_to_free' = num_inactive_to_free
      /\ num_active_to_inactive' = num_active_to_inactive /\ deactivated' = deactivated
  BY <1>1, <1>3, <1>4, <1>5 DEF FreeIt, zoneVars
<1>7. Others(x) = 1 /\ ~x.mapped /\ x.user = "none"
  <2>1. RTypeOK /\ LocalsInv /\ RefCountExact
    BY DEF ReclaimIInv
  <2>2. Mine(p, c) \in Nat /\ Others(x) + Mine(p, c) <= x.count
    BY <1>3, <2>1, CountTells
  <2>3. Mine(p, c) >= 1
    <3>1. Occurrences(p, c.pvec) \in Nat
      BY <1>1, ListTypes, Occurs
    <3> QED
      BY <1>3, <3>1 DEF Mine
  <2>4. Others(x) <= 1
    <3>1. Others(x) \in Int
      BY DEF Others
    <3> QED
      BY <1>4, <2>2, <2>3, <3>1
  <2> QED
    BY <1>4, <2>4 DEF Others
<1>8. /\ y \in PageRecords /\ ~y.lru /\ ~y.touched /\ ~y.mapped /\ ~y.dirty
      /\ y.count = 0 /\ Others(y) = 0 /\ x.count - Others(x) = 1
  <2>1. x.count - 2 \in Nat
    BY <1>4
  <2>2. /\ y \in PageRecords /\ y.lru = x.lru /\ y.touched = x.touched
        /\ y.mapped = x.mapped /\ y.dirty = x.dirty /\ y.count = 0 /\ y.cached = FALSE
        /\ y.user = x.user
    <3> DEFINE k == x.count - 2
    <3>1. k \in Nat /\ k = 0
      BY <1>4
    <3> HIDE DEF k
    <3>2. [x EXCEPT !.cached = FALSE, !.count = k, !.locked = FALSE] = y
      BY DEF k
    <3> HIDE DEF y
    <3>3. y \in PageRecords
      BY <1>4, <3>1, <3>2 DEF PageRecords
    <3> QED
      BY <1>4, <3>1, <3>2, <3>3 DEF PageRecords
  <2> HIDE DEF y
  <2>3. Others(y) = 0
    BY <1>7, <2>2 DEF Others
  <2> QED
    BY <1>4, <1>7, <2>2, <2>3
<1>9. d \in Locals
  <2>1. c.freed + 1 \in Nat /\ "scan" \in PCs
    BY <1>1 DEF Locals, PCs
  <2> QED
    BY <1>1, <2>1 DEF Locals
<1>10. /\ d.pc = "scan" /\ d.then = c.then /\ d.hold = c.hold /\ d.inact = c.inact
       /\ d.act = c.act /\ d.back = c.back /\ d.page = Nobody /\ d.pvec = c.pvec
       /\ d.moved = c.moved /\ d.deact = c.deact
  BY <1>1 DEF Locals
<1> HIDE DEF d, y
<1>11. Stages(d) /\ d.pc \notin PuttingBack /\ c.pc \notin PuttingBack /\ Pend(d) = Pend(c)
  BY <1>1, <1>2, <1>10
     DEF Stages, Stage, Deactivating, Scanning, OnPage, PuttingBack, Pend
<1>12. Neat(d) /\ Private(d) = Private(c) \ {p}
  BY <1>1, <1>3, <1>9, <1>10, PageGone
<1>13. /\ pg'[p] = y /\ pg' \in [Pages -> PageRecords]
       /\ \A q \in Pages : q # p => pg'[q] = pg[q]
  BY <1>3, <1>5, <1>6, <1>8
<1>14. /\ rc'[r] = d /\ rc' \in [Reclaimers -> Locals]
       /\ \A s \in Reclaimers : s # r => rc'[s] = rc[s]
  BY <1>1, <1>6, <1>9
<1>15. RTypeOK'
  <2>1. RTypeOK
    BY DEF ReclaimIInv
  <2> QED
    BY <1>6, <1>13, <1>14, <2>1 DEF RTypeOK
<1>16. CountInv'
  BY <1>6, <1>11, <1>14, SameCounts
<1>17. DeactivatedCounted'
  BY <1>6, <1>11, <1>14, SamePending
<1>18. /\ Private(c) \subseteq Pages /\ Private(d) \subseteq Pages
       /\ ToSet(d.hold) \subseteq Private(d) /\ ToSet(d.inact) \subseteq Private(d)
       /\ ToSet(d.act) \subseteq Private(d)
  BY <1>1, <1>9, PrivatePages
<1>19. \A q \in Private(d) : pg'[q] = pg[q]
  BY <1>12, <1>13, <1>18
<1>20. Own(rc[r])'
  <2>1. \A q \in Private(d) : ~pg'[q].lru
    BY <1>1, <1>12, <1>19 DEF Own
  <2>2. \A q \in ToSet(d.inact) \cup ToSet(d.act) : pg'[q].active
    BY <1>1, <1>10, <1>18, <1>19 DEF Own
  <2>3. \A q \in ToSet(d.hold) : pg'[q].active <=> d.pc \in Deactivating
    BY <1>1, <1>2, <1>10, <1>18, <1>19 DEF Own, Deactivating
  <2>4. {d.page} \cap Pages = {}
    BY <1>1, <1>10
  <2>5. d.pc \notin {"test", "free", "age"}
    BY <1>10
  <2> QED
    BY <1>14, <2>1, <2>2, <2>3, <2>4, <2>5 DEF Own
<1>21. \A q \in Pages : q \notin Private(c) => pg'[q] = pg[q]
  BY <1>3, <1>13
<1>22. \A q \in Private(c) : q # p =>
          pg'[q] = pg[q] /\ q \in Private(d) /\ c.page # q
  BY <1>12, <1>19
<1>23. /\ ~pg'[p].lru /\ ~pg'[p].mapped /\ ~pg'[p].touched /\ ~pg'[p].dirty
       /\ p \notin Private(d) /\ pg'[p].count = 0 /\ Others(pg'[p]) = 0
       /\ pg[p].count - Others(pg[p]) = 1
  BY <1>8, <1>12, <1>13
<1>24. \A q \in Private(c) :
          \/ /\ pg'[q] = pg[q] /\ q \in Private(d)
             /\ c.page = q => d.page = q /\ d.bit = c.bit
          \/ /\ ~pg'[q].lru
             /\ pg'[q].mapped => pg'[q].cached
             /\ pg'[q].touched => pg'[q].active
             /\ pg'[q].cached \/ ~pg'[q].dirty
             /\ pg'[q].touched =>
                   \/ pg'[q].referenced \/ pg'[q].ref_cnt > 0
                   \/ d.page = q /\ d.bit # 0
             /\ \/ /\ q \in Private(d)
                   /\ pg'[q].count - Others(pg'[q]) = pg[q].count - Others(pg[q])
                \/ /\ q \notin Private(d) /\ pg'[q].count = 0
                   /\ Others(pg'[q]) = 0 /\ pg[q].count - Others(pg[q]) = 1
  <2> SUFFICES ASSUME NEW q \in Private(c), q = p
               PROVE  /\ ~pg'[q].lru /\ ~pg'[q].mapped /\ ~pg'[q].touched /\ ~pg'[q].dirty
                      /\ q \notin Private(d) /\ pg'[q].count = 0 /\ Others(pg'[q]) = 0
                      /\ pg[q].count - Others(pg[q]) = 1
    BY <1>22
  <2> QED
    BY <1>23
<1>25. lru_lock' = r <=> d.pc \in PuttingBack
  BY <1>1, <1>6, <1>11
<1> QED
  BY <1>6, <1>10, <1>11, <1>12, <1>14, <1>15, <1>16, <1>17, <1>20, <1>21, <1>24, <1>25, OwnStep

-----------------------------------------------------------------------------
(* A page is put back on a list of the zone.                               *)

\* What the page is to be.
Returned(x, y) ==
    /\ y.lru /\ y.count = x.count /\ y.ref_cnt = x.ref_cnt /\ y.cached = x.cached
    /\ y.mapped = x.mapped /\ y.dirty = x.dirty /\ y.user = x.user
    /\ y.referenced = x.referenced
    /\ y.active => x.active
    /\ y.touched => x.touched /\ y.active

\* The last page of one of its lists goes to the head of the list of its
\* PG_active, and the pagevec has a place more.
LEMMA PutStep ==
    ASSUME ReclaimConstants, ReclaimIInv, RTypeOK', NEW r \in Reclaimers,
           NEW d \in Locals, NEW p \in Private(rc[r]), NEW y \in PageRecords,
           rc' = [rc EXCEPT ![r] = d], pg' = [pg EXCEPT ![p] = y],
           Returned(pg[p], y),
           \/ y.active /\ active' = <<p>> \o active /\ inactive' = inactive
           \/ ~y.active /\ active' = active /\ inactive' = <<p>> \o inactive,
           rc[r].hold = <<>>, rc[r].page = Nobody, d.hold = <<>>, d.page = Nobody,
           Neat(d), Private(d) = Private(rc[r]) \ {p},
           ToSet(d.inact) \subseteq ToSet(rc[r].inact),
           ToSet(d.act) \subseteq ToSet(rc[r].act),
           d.pvec = Append(rc[r].pvec, p), Stages(d),
           lru_lock = r, lru_lock' \in {r, Nobody}, lru_lock' = r <=> d.pc \in PuttingBack,
           CountInv', DeactivatedCounted'
    PROVE  ReclaimIInv'
<1> DEFINE c == rc[r]
<1>1. /\ rc \in [Reclaimers -> Locals] /\ c \in Locals /\ Stages(c) /\ Neat(c) /\ Own(c)
      /\ r # Nobody /\ Nobody \notin Pages
  BY OfReclaimer
<1>2. /\ Private(c) \subseteq Pages /\ Private(d) \subseteq Pages
      /\ ToSet(d.inact) \subseteq Private(d) /\ ToSet(d.act) \subseteq Private(d)
  BY <1>1, PrivatePages
<1>3. p \in Pages /\ pg \in [Pages -> PageRecords] /\ ~pg[p].lru
  BY <1>1, <1>2, OfPage DEF Own
<1>4. /\ pg'[p] = y /\ \A q \in Pages : q # p => pg'[q] = pg[q]
  BY <1>3
<1>5. /\ rc'[r] = d /\ \A s \in Reclaimers : s # r => rc'[s] = rc[s]
  BY <1>1
<1>6. /\ RTypeOK /\ LocalsInv /\ ListsInv /\ OwnedInv /\ KeptInv /\ CacheInv
      /\ NoLostWrite /\ TouchRemembered /\ Framed
  BY DEF ReclaimIInv, Framed
<1>7. \A s \in Reclaimers : s # r => \A q \in Private(rc[s]) : Undisturbed(pg[q], pg'[q])
  <2> SUFFICES ASSUME NEW s \in Reclaimers, s # r, NEW q \in Private(rc[s])
               PROVE  pg'[q] = pg[q]
    BY DEF Undisturbed
  <2>1. rc[s] \in Locals
    BY <1>1
  <2>2. q \in Pages
    BY <2>1, PrivatePages
  <2>3. q # p
    BY <1>6 DEF OwnedInv
  <2> QED
    BY <1>4, <2>2, <2>3
<1>8. Own(rc[r])'
  <2>1. \A q \in Private(d) : pg'[q] = pg[q]
    BY <1>2, <1>4
  <2>2. \A q \in Private(d) : ~pg'[q].lru
    BY <1>1, <2>1 DEF Own
  <2>3. \A q \in ToSet(d.inact) \cup ToSet(d.act) : pg'[q].active
    BY <1>1, <1>2, <2>1 DEF Own
  <2>4. ToSet(d.hold) \cup ({d.page} \cap Pages) = {}
    BY <1>1 DEF ToSet
  <2>5. d.pc \notin {"test", "free", "age"}
    BY DEF Stages, OnPage
  <2> QED
    BY <1>5, <2>2, <2>3, <2>4, <2>5 DEF Own
<1>9. \A q \in Pages : Others(pg'[q]) = Others(pg[q]) /\ pg'[q].count = pg[q].count
  <2>1. Others(y) = Others(pg[p]) /\ y.count = pg[p].count
    BY DEF Others, Returned
  <2> QED
    BY <1>4, <2>1
<1>10. \A q \in Pages : Mine(q, d) = Mine(q, c)
  <2> SUFFICES ASSUME NEW q \in Pages PROVE Mine(q, d) = Mine(q, c)
    OBVIOUS
  <2> DEFINE k == Occurrences(q, c.pvec)
             l == Occurrences(q, d.pvec)
  <2>1. k \in Nat
    BY <1>1, ListTypes, Occurs
  <2>2. l = k + (IF q = p THEN 1 ELSE 0)
    BY <1>1, <1>3, ListTypes, OccursAppended
  <2>3. /\ Mine(q, c) = (IF q \in Private(c) THEN 1 ELSE 0) + k
        /\ Mine(q, d) = (IF q \in Private(d) THEN 1 ELSE 0) + l
    BY DEF Mine
  <2> HIDE DEF k, l
  <2>4. CASE q = p
    BY <2>1, <2>2, <2>3, <2>4
  <2>5. CASE q # p
    <3>1. q \in Private(d) <=> q \in Private(c)
      BY <2>5
    <3> QED
      BY <2>1, <2>2, <2>3, <2>5, <3>1
  <2> QED
    BY <2>4, <2>5
<1>11. \A q \in Pages : pg'[q].count - Others(pg'[q]) - Mine(q, rc'[r]) =
                           pg[q].count - Others(pg[q]) - Mine(q, rc[r])
  BY <1>5, <1>9, <1>10
<1>12. \A q \in Pages : pg'[q].count > 0 =>
          \/ pg'[q].lru \/ q \in Private(rc'[r])
          \/ pg[q].count > 0 /\ ~pg[q].lru /\ q \notin Private(rc[r])
  <2> SUFFICES ASSUME NEW q \in Pages, pg'[q].count > 0, ~pg'[q].lru, q \notin Private(d)
               PROVE  pg[q].count > 0 /\ ~pg[q].lru /\ q \notin Private(c)
    BY <1>5
  <2>1. q # p
    BY <1>4 DEF Returned
  <2> QED
    BY <1>4, <1>9, <2>1
<1>13. Framed'
  <2>1. \A q \in Private(rc'[r]) : q \in Private(rc[r]) \/ pg[q].lru
    BY <1>5
  <2> QED
    BY <1>5, <1>6, <1>7, <1>8, <1>11, <1>12, <2>1, StepFrame
<1>14. ListsInv'
  <2>1. /\ NoTwice(active) /\ NoTwice(inactive)
        /\ \A q \in Pages : /\ q \in ToSet(active) <=> pg[q].lru /\ pg[q].active
                            /\ q \in ToSet(inactive) <=> pg[q].lru /\ ~pg[q].active
    BY <1>6 DEF ListsInv
  <2>2. p \notin ToSet(active) /\ p \notin ToSet(inactive)
    BY <1>3, <2>1
  <2>3. active \in Seq(Pages) /\ inactive \in Seq(Pages)
    BY <1>6 DEF RTypeOK
  <2>4. /\ ToSet(<<p>> \o active) = ToSet(active) \cup {p} /\ NoTwice(<<p>> \o active)
    BY <1>3, <2>1, <2>2, <2>3, Prepended
  <2>5. /\ ToSet(<<p>> \o inactive) = ToSet(inactive) \cup {p} /\ NoTwice(<<p>> \o inactive)
    BY <1>3, <2>1, <2>2, <2>3, Prepended
  <2>6. y.lru
    BY DEF Returned
  <2>7. CASE y.active /\ active' = <<p>> \o active /\ inactive' = inactive
    <3>1. /\ ToSet(active') = ToSet(active) \cup {p} /\ NoTwice(active')
          /\ ToSet(inactive') = ToSet(inactive) /\ NoTwice(inactive')
      BY <2>1, <2>4, <2>7
    <3>2. \A q \in Pages : /\ q \in ToSet(active') <=> pg'[q].lru /\ pg'[q].active
                           /\ q \in ToSet(inactive') <=> pg'[q].lru /\ ~pg'[q].active
      BY <1>4, <2>1, <2>2, <2>6, <2>7, <3>1
    <3> QED
      BY <3>1, <3>2 DEF ListsInv
  <2>8. CASE ~y.active /\ active' = active /\ inactive' = <<p>> \o inactive
    <3>1. /\ ToSet(active') = ToSet(active) /\ NoTwice(active')
          /\ ToSet(inactive') = ToSet(inactive) \cup {p} /\ NoTwice(inactive')
      BY <2>1, <2>5, <2>8
    <3>2. \A q \in Pages : /\ q \in ToSet(active') <=> pg'[q].lru /\ pg'[q].active
                           /\ q \in ToSet(inactive') <=> pg'[q].lru /\ ~pg'[q].active
      BY <1>4, <2>1, <2>2, <2>6, <2>8, <3>1
    <3> QED
      BY <3>1, <3>2 DEF ListsInv
  <2> QED
    BY <2>7, <2>8
<1>15. CacheInv' /\ NoLostWrite'
  <2>1. /\ y.mapped => y.cached
        /\ y.touched => y.active
        /\ ~y.cached => ~y.dirty
    BY <1>3, <1>6 DEF Returned, CacheInv, NoLostWrite
  <2>2. CacheInv'
    BY <1>4, <1>6, <2>1 DEF CacheInv
  <2>3. NoLostWrite'
    BY <1>4, <1>6, <2>1 DEF NoLostWrite
  <2> QED
    BY <2>2, <2>3
<1>16. TouchRemembered'
  <2> SUFFICES ASSUME NEW q \in Pages, pg'[q].touched, pg'[q].active
               PROVE  \/ pg'[q].referenced \/ pg'[q].ref_cnt > 0
                      \/ \E s \in Reclaimers : rc'[s].page = q /\ rc'[s].bit # 0
    BY DEF TouchRemembered
  <2>1. /\ pg[q].touched /\ pg[q].active /\ pg'[q].referenced = pg[q].referenced
        /\ pg'[q].ref_cnt = pg[q].ref_cnt
    BY <1>4 DEF Returned
  <2>2. CASE pg[q].referenced \/ pg[q].ref_cnt > 0
    BY <2>1, <2>2
  <2>3. ASSUME NEW s \in Reclaimers, rc[s].page = q, rc[s].bit # 0
        PROVE  \E t \in Reclaimers : rc'[t].page = q /\ rc'[t].bit # 0
    <3>1. s # r
      BY <1>1, <2>3
    <3> QED
      BY <1>5, <2>3, <3>1
  <2> QED
    BY <1>6, <2>1, <2>2, <2>3 DEF TouchRemembered
<1> QED
  BY <1>6, <1>13, <1>14, <1>15, <1>16 DEF ReclaimIInv, Framed

\* A page of l_inactive.
LEMMA PutInactiveKeeps ==
    ASSUME ReclaimConstants, ReclaimIInv, NEW r \in Reclaimers, PutInactive(r)
    PROVE  ReclaimIInv'
<1> DEFINE c == rc[r]
           p == Last(c.inact)
           x == pg[p]
           y == [x EXCEPT !.lru = TRUE, !.active = FALSE, !.touched = FALSE]
           k == c.moved + 1
           full == Len(c.pvec) + 1 = PAGEVEC_SIZE
           d == [c EXCEPT !.inact = Front(c.inact), !.pvec = Append(c.pvec, p),
                          !.moved = IF full THEN 0 ELSE k,
                          !.deact = IF full THEN c.deact + k ELSE c.deact,
                          !.then = IF full THEN "put_inactive" ELSE c.then,
                          !.pc = IF full THEN "release" ELSE c.pc]
<1>1. /\ rc \in [Reclaimers -> Locals] /\ c \in Locals /\ Stages(c) /\ Neat(c)
      /\ lru_lock = r <=> c.pc \in PuttingBack
      /\ r # Nobody /\ Nobody \notin Pages
  BY OfReclaimer
<1>2. c.pc = "put_inactive" /\ c.inact # <<>>
  BY DEF PutInactive, At
<1>3. /\ p \in Pages /\ Front(c.inact) \in Seq(Pages)
  BY <1>1, <1>2, ListTypes, Shortened
<1>4. pg \in [Pages -> PageRecords] /\ x \in PageRecords
  BY <1>3, OfPage
<1>5. /\ pg' = [pg EXCEPT ![p] = y] /\ rc' = [rc EXCEPT ![r] = d]
      /\ inactive' = <<p>> \o inactive /\ active' = active /\ nr_active' = nr_active
      /\ deactivated' = Plus(deactivated, 1)
      /\ num_active_to_inactive' = num_active_to_inactive
      /\ num_inactive_to_free' = num_inactive_to_free
      /\ nr_inactive' = (IF full THEN nr_inactive + k ELSE nr_inactive)
      /\ lru_lock' = (IF full THEN Nobody ELSE r)
  BY <1>1, <1>3, <1>4 DEF PutInactive, Full, PgMoved
<1> HIDE DEF p
<1>6. Append(c.pvec, p) \in Seq(Pages)
  BY <1>1, <1>3, ListTypes
<1>7. d \in Locals
  <2>1. /\ (IF full THEN 0 ELSE k) \in Nat
        /\ (IF full THEN c.deact + k ELSE c.deact) \in Nat
        /\ (IF full THEN "put_inactive" ELSE c.then) \in PCs
        /\ (IF full THEN "release" ELSE c.pc) \in PCs
    BY <1>1 DEF Locals, PCs
  <2> HIDE DEF full, k
  <2> QED
    BY <1>1, <1>3, <1>6, <2>1 DEF Locals
<1>8. /\ d.hold = c.hold /\ d.inact = Front(c.inact) /\ d.act = c.act /\ d.back = c.back
      /\ d.page = c.page /\ d.pvec = Append(c.pvec, p)
      /\ d.moved = (IF full THEN 0 ELSE k)
      /\ d.deact = (IF full THEN c.deact + k ELSE c.deact)
      /\ d.then = (IF full THEN "put_inactive" ELSE c.then)
      /\ d.pc = (IF full THEN "release" ELSE c.pc) /\ d.freed = c.freed
      /\ c.moved \in Nat /\ c.deact \in Nat
  <2> HIDE DEF full, k
  <2> QED
    BY <1>1 DEF Locals
<1>9. y \in PageRecords /\ Returned(x, y) /\ ~y.active
  BY <1>4 DEF PageRecords, Returned
<1> HIDE DEF d, y, full
<1>10. /\ c.hold = <<>> /\ c.page = Nobody /\ Stages(d) /\ lru_lock = r
       /\ lru_lock' \in {r, Nobody} /\ (lru_lock' = r <=> d.pc \in PuttingBack)
  BY <1>1, <1>2, <1>5, <1>8
     DEF Stages, Stage, Deactivating, Scanning, OnPage, PuttingBack
<1>11. /\ Neat(d) /\ p \in Private(c) /\ Private(d) = Private(c) \ {p}
       /\ ToSet(d.inact) \subseteq ToSet(c.inact) /\ ToSet(d.act) \subseteq ToSet(c.act)
  <2>1. p = Last(c.inact)
    BY DEF p
  <2>2. c.page = Nobody /\ d.page = Nobody /\ d.hold = c.hold
    BY <1>8, <1>10
  <2>3. \/ /\ c.inact # <<>> /\ p = Last(c.inact)
           /\ d.inact = Front(c.inact) /\ d.act = c.act /\ d.back = c.back
        \/ /\ c.act # <<>> /\ p = Last(c.act)
           /\ d.act = Front(c.act) /\ d.inact = c.inact /\ d.back = c.back
        \/ /\ c.back # <<>> /\ p = Last(c.back)
           /\ d.back = Front(c.back) /\ d.inact = c.inact /\ d.act = c.act
    BY <1>2, <1>8, <2>1
  <2> HIDE DEF c
  <2> QED
    BY <1>1, <1>7, <2>2, <2>3, ListToZone
<1>12. /\ rc'[r] = d /\ rc' \in [Reclaimers -> Locals]
       /\ \A s \in Reclaimers : s # r => rc'[s] = rc[s]
  BY <1>1, <1>5, <1>7
<1>13. RTypeOK
  BY DEF ReclaimIInv
<1>14. /\ Len(inactive') = Len(inactive) + 1 /\ inactive' \in Seq(Pages)
       /\ Len(inactive) \in Nat
  BY <1>3, <1>5, <1>13, Prepended DEF RTypeOK
<1>15. nr_active \in Nat /\ nr_inactive \in Nat
  BY <1>13 DEF RTypeOK
<1>16. RTypeOK'
  <2>1. nr_inactive' \in Nat
    BY <1>5, <1>8, <1>15
  <2>2. pg' \in [Pages -> PageRecords]
    BY <1>4, <1>5, <1>9
  <2> QED
    BY <1>5, <1>10, <1>12, <1>13, <1>14, <2>1, <2>2 DEF RTypeOK
<1>17. CountInv'
  <2>1. /\ Len(active) = nr_active + Moving(c, "put_active")
        /\ Len(inactive) = nr_inactive + Moving(c, "put_inactive")
    BY <1>10, LockedCounts
  <2>2. /\ Moving(c, "put_active") = 0 /\ Moving(c, "put_inactive") = c.moved
        /\ Moving(d, "put_active") = 0
        /\ Moving(d, "put_inactive") = IF full THEN 0 ELSE k
    BY <1>2, <1>8 DEF Moving
  <2>3. /\ Len(active') = nr_active' + Moving(d, "put_active")
        /\ Len(inactive') = nr_inactive' + Moving(d, "put_inactive")
    BY <1>5, <1>8, <1>14, <1>15, <2>1, <2>2
  <2> QED
    BY <1>10, <1>12, <2>3, LockedCountsNext
<1>18. DeactivatedCounted'
  <2>1. PICK T, U \in Nat :
           /\ DeactivatedCounted <=> Plus(num_active_to_inactive, T) = deactivated
           /\ DeactivatedCounted' <=> Plus(num_active_to_inactive', U) = deactivated'
           /\ U - Pend(d) = T - Pend(c)
    BY <1>12, PendingChanges
  <2>2. Pend(c) = c.deact + c.moved /\ Pend(d) = c.deact + k
    BY <1>2, <1>8 DEF Pend
  <2>3. U = T + 1
    <3> DEFINE v == c.deact
               w == c.moved
    <3>1. /\ v \in Nat /\ w \in Nat /\ T \in Nat /\ U \in Nat
          /\ U - (v + (w + 1)) = T - (v + w)
      BY <1>8, <2>1, <2>2
    <3> HIDE DEF v, w
    <3> QED
      BY <3>1
  <2>4. DeactivatedCounted
    BY DEF ReclaimIInv
  <2>5. num_active_to_inactive \in Nat
    BY <1>13 DEF RTypeOK, ReclaimConstants
  <2>6. \A j \in Nat : Plus(Plus(num_active_to_inactive, T), j) =
                          Plus(num_active_to_inactive, T + j)
    BY <2>1, <2>5, PlusIs
  <2>7. Plus(Plus(num_active_to_inactive, T), 1) = Plus(num_active_to_inactive, T + 1)
    BY <2>6
  <2> QED
    BY <1>5, <2>1, <2>3, <2>4, <2>7
<1> QED
  <2>1. /\ d.hold = <<>> /\ d.page = Nobody /\ d.pvec = Append(c.pvec, p)
        /\ active' = active /\ inactive' = <<p>> \o inactive
    BY <1>5, <1>8, <1>10
  <2> QED
    BY <1>5, <1>7, <1>9, <1>10, <1>11, <1>16, <1>17, <1>18, <2>1, PutStep

\* A page of l_active.
LEMMA PutActiveKeeps ==
    ASSUME ReclaimConstants, ReclaimIInv, NEW r \in Reclaimers, PutActive(r)
    PROVE  ReclaimIInv'
<1> DEFINE c == rc[r]
           p == Last(c.act)
           x == pg[p]
           y == [x EXCEPT !.lru = TRUE]
           k == c.moved + 1
           full == Len(c.pvec) + 1 = PAGEVEC_SIZE
           d == [c EXCEPT !.act = Front(c.act), !.pvec = Append(c.pvec, p),
                          !.moved = IF full THEN 0 ELSE k,
                          !.then = IF full THEN "put_active" ELSE c.then,
                          !.pc = IF full THEN "release" ELSE c.pc]
<1>1. /\ rc \in [Reclaimers -> Locals] /\ c \in Locals /\ Stages(c) /\ Neat(c) /\ Own(c)
      /\ lru_lock = r <=> c.pc \in PuttingBack
      /\ r # Nobody /\ Nobody \notin Pages
  BY OfReclaimer
<1>2. c.pc = "put_active" /\ c.act # <<>>
  BY DEF PutActive, At
<1>3. /\ p \in Pages /\ p \in ToSet(c.act) /\ Front(c.act) \in Seq(Pages)
  BY <1>1, <1>2, ListTypes, Shortened
<1>4. /\ pg \in [Pages -> PageRecords] /\ x \in PageRecords /\ x.active
      /\ x.touched => x.active
  BY <1>1, <1>3, OfPage DEF Own
<1>5. /\ pg' = [pg EXCEPT ![p] = y] /\ rc' = [rc EXCEPT ![r] = d]
      /\ active' = <<p>> \o active /\ inactive' = inactive /\ nr_inactive' = nr_inactive
      /\ deactivated' = deactivated
      /\ num_active_to_inactive' = num_active_to_inactive
      /\ num_inactive_to_free' = num_inactive_to_free
      /\ nr_active' = (IF full THEN nr_active + k ELSE nr_active)
      /\ lru_lock' = (IF full THEN Nobody ELSE r)
  BY <1>1, <1>3, <1>4 DEF PutActive, Full, PgMoved, statVars
<1> HIDE DEF p
<1>6. Append(c.pvec, p) \in Seq(Pages)
  BY <1>1, <1>3, ListTypes
<1>7. d \in Locals
  <2>1. /\ (IF full THEN 0 ELSE k) \in Nat
        /\ (IF full THEN "put_active" ELSE c.then) \in PCs
        /\ (IF full THEN "release" ELSE c.pc) \in PCs
    BY <1>1 DEF Locals, PCs
  <2> HIDE DEF full, k
  <2> QED
    BY <1>1, <1>3, <1>6, <2>1 DEF Locals
<1>8. /\ d.hold = c.hold /\ d.inact = c.inact /\ d.act = Front(c.act) /\ d.back = c.back
      /\ d.page = c.page /\ d.pvec = Append(c.pvec, p)
      /\ d.moved = (IF full THEN 0 ELSE k) /\ d.deact = c.deact
      /\ d.then = (IF full THEN "put_active" ELSE c.then)
      /\ d.pc = (IF full THEN "release" ELSE c.pc) /\ d.freed = c.freed
      /\ c.moved \in Nat /\ c.deact \in Nat
  <2> HIDE DEF full, k
  <2> QED
    BY <1>1 DEF Locals
<1>9. y \in PageRecords /\ Returned(x, y) /\ y.active
  BY <1>4 DEF PageRecords, Returned
<1> HIDE DEF d, y, full
<1>10. /\ c.hold = <<>> /\ c.page = Nobody /\ Stages(d) /\ lru_lock = r
       /\ lru_lock' \in {r, Nobody} /\ (lru_lock' = r <=> d.pc \in PuttingBack)
  BY <1>1, <1>2, <1>5, <1>8
     DEF Stages, Stage, Deactivating, Scanning, OnPage, PuttingBack
<1>11. /\ Neat(d) /\ p \in Private(c) /\ Private(d) = Private(c) \ {p}
       /\ ToSet(d.inact) \subseteq ToSet(c.inact) /\ ToSet(d.act) \subseteq ToSet(c.act)
  <2>1. p = Last(c.act)
    BY DEF p
  <2>2. c.page = Nobody /\ d.page = Nobody /\ d.hold = c.hold
    BY <1>8, <1>10
  <2>3. \/ /\ c.inact # <<>> /\ p = Last(c.inact)
           /\ d.inact = Front(c.inact) /\ d.act = c.act /\ d.back = c.back
        \/ /\ c.act # <<>> /\ p = Last(c.act)
           /\ d.act = Front(c.act) /\ d.inact = c.inact /\ d.back = c.back
        \/ /\ c.back # <<>> /\ p = Last(c.back)
           /\ d.back = Front(c.back) /\ d.inact = c.inact /\ d.act = c.act
    BY <1>2, <1>8, <2>1
  <2> HIDE DEF c
  <2> QED
    BY <1>1, <1>7, <2>2, <2>3, ListToZone
<1>12. /\ rc'[r] = d /\ rc' \in [Reclaimers -> Locals]
       /\ \A s \in Reclaimers : s # r => rc'[s] = rc[s]
  BY <1>1, <1>5, <1>7
<1>13. RTypeOK
  BY DEF ReclaimIInv
<1>14. /\ Len(active') = Len(active) + 1 /\ active' \in Seq(Pages)
       /\ Len(active) \in Nat
  BY <1>3, <1>5, <1>13, Prepended DEF RTypeOK
<1>15. nr_active \in Nat /\ nr_inactive \in Nat
  BY <1>13 DEF RTypeOK
<1>16. RTypeOK'
  <2>1. nr_active' \in Nat
    BY <1>5, <1>8, <1>15
  <2>2. pg' \in [Pages -> PageRecords]
    BY <1>4, <1>5, <1>9
  <2> QED
    BY <1>5, <1>10, <1>12, <1>13, <1>14, <2>1, <2>2 DEF RTypeOK
<1>17. CountInv'
  <2>1. /\ Len(active) = nr_active + Moving(c, "put_active")
        /\ Len(inactive) = nr_inactive + Moving(c, "put_inactive")
    BY <1>10, LockedCounts
  <2>2. /\ Moving(c, "put_active") = c.moved /\ Moving(c, "put_inactive") = 0
        /\ Moving(d, "put_active") = IF full THEN 0 ELSE k
        /\ Moving(d, "put_inactive") = 0
    BY <1>2, <1>8 DEF Moving
  <2>3. /\ Len(active') = nr_active' + Moving(d, "put_active")
        /\ Len(inactive') = nr_inactive' + Moving(d, "put_inactive")
    BY <1>5, <1>8, <1>14, <1>15, <2>1, <2>2
  <2> QED
    BY <1>10, <1>12, <2>3, LockedCountsNext
<1>18. DeactivatedCounted'
  <2>1. Pend(d) = Pend(c)
    BY <1>2, <1>8 DEF Pend
  <2> QED
    BY <1>5, <1>12, <2>1, SamePending
<1> QED
  <2>1. /\ d.hold = <<>> /\ d.page = Nobody /\ d.pvec = Append(c.pvec, p)
        /\ active' = <<p>> \o active /\ inactive' = inactive
    BY <1>5, <1>8, <1>10
  <2> QED
    BY <1>5, <1>7, <1>9, <1>10, <1>11, <1>16, <1>17, <1>18, <2>1, PutStep

\* A page of ret_pages.
LEMMA PutBackKeeps ==
    ASSUME ReclaimConstants, ReclaimIInv, NEW r \in Reclaimers, PutBack(r)
    PROVE  ReclaimIInv'
<1> DEFINE c == rc[r]
           p == Last(c.back)
           x == pg[p]
           y == [x EXCEPT !.lru = TRUE]
           full == Len(c.pvec) + 1 = PAGEVEC_SIZE
           d == [c EXCEPT !.back = Front(c.back), !.pvec = Append(c.pvec, p),
                          !.then = IF full THEN "put_back" ELSE c.then,
                          !.pc = IF full THEN "release" ELSE c.pc]
<1>1. /\ rc \in [Reclaimers -> Locals] /\ c \in Locals /\ Stages(c) /\ Neat(c) /\ Own(c)
      /\ lru_lock = r <=> c.pc \in PuttingBack
      /\ r # Nobody /\ Nobody \notin Pages
  BY OfReclaimer
<1>2. c.pc = "put_back" /\ c.back # <<>>
  BY DEF PutBack, At
<1>3. /\ p \in Pages /\ p \in ToSet(c.back) /\ Front(c.back) \in Seq(Pages)
  BY <1>1, <1>2, ListTypes, Shortened
<1>4. /\ pg \in [Pages -> PageRecords] /\ x \in PageRecords
      /\ x.touched => x.active
  BY <1>1, <1>3, OfPage
<1>5. /\ pg' = [pg EXCEPT ![p] = y] /\ rc' = [rc EXCEPT ![r] = d]
      /\ \/ /\ x.active /\ active' = <<p>> \o active /\ nr_active' = nr_active + 1
            /\ inactive' = inactive /\ nr_inactive' = nr_inactive
         \/ /\ ~x.active /\ inactive' = <<p>> \o inactive
            /\ nr_inactive' = nr_inactive + 1
            /\ active' = active /\ nr_active' = nr_active
      /\ deactivated' = deactivated
      /\ num_active_to_inactive' = num_active_to_inactive
      /\ num_inactive_to_free' = num_inactive_to_free
      /\ lru_lock' = (IF full THEN Nobody ELSE r)
  BY <1>1, <1>3, <1>4 DEF PutBack, Full, ToActive, statVars
<1> HIDE DEF p
<1>6. Append(c.pvec, p) \in Seq(Pages)
  BY <1>1, <1>3, ListTypes
<1>7. d \in Locals
  <2>1. /\ (IF full THEN "put_back" ELSE c.then) \in PCs
        /\ (IF full THEN "release" ELSE c.pc) \in PCs
    BY <1>1 DEF Locals, PCs
  <2> HIDE DEF full
  <2> QED
    BY <1>1, <1>3, <1>6, <2>1 DEF Locals
<1>8. /\ d.hold = c.hold /\ d.inact = c.inact /\ d.act = c.act /\ d.back = Front(c.back)
      /\ d.page = c.page /\ d.pvec = Append(c.pvec, p)
      /\ d.moved = c.moved /\ d.deact = c.deact
      /\ d.then = (IF full THEN "put_back" ELSE c.then)
      /\ d.pc = (IF full THEN "release" ELSE c.pc) /\ d.freed = c.freed
  <2> HIDE DEF full
  <2> QED
    BY <1>1 DEF Locals
<1>9. y \in PageRecords /\ Returned(x, y) /\ y.active = x.active
  BY <1>4 DEF PageRecords, Returned
<1> HIDE DEF d, y, full
<1>10. /\ c.hold = <<>> /\ c.page = Nobody /\ c.moved = 0 /\ Stages(d) /\ lru_lock = r
       /\ lru_lock' \in {r, Nobody} /\ (lru_lock' = r <=> d.pc \in PuttingBack)
  BY <1>1, <1>2, <1>5, <1>8
     DEF Stages, Stage, Deactivating, Scanning, OnPage, PuttingBack
<1>11. /\ Neat(d) /\ p \in Private(c) /\ Private(d) = Private(c) \ {p}
       /\ ToSet(d.inact) \subseteq ToSet(c.inact) /\ ToSet(d.act) \subseteq ToSet(c.act)
  <2>1. p = Last(c.back)
    BY DEF p
  <2>2. c.page = Nobody /\ d.page = Nobody /\ d.hold = c.hold
    BY <1>8, <1>10
  <2>3. \/ /\ c.inact # <<>> /\ p = Last(c.inact)
           /\ d.inact = Front(c.inact) /\ d.act = c.act /\ d.back = c.back
        \/ /\ c.act # <<>> /\ p = Last(c.act)
           /\ d.act = Front(c.act) /\ d.inact = c.inact /\ d.back = c.back
        \/ /\ c.back # <<>> /\ p = Last(c.back)
           /\ d.back = Front(c.back) /\ d.inact = c.inact /\ d.act = c.act
    BY <1>2, <1>8, <2>1
  <2> HIDE DEF c
  <2> QED
    BY <1>1, <1>7, <2>2, <2>3, ListToZone
<1>12. /\ rc'[r] = d /\ rc' \in [Reclaimers -> Locals]
       /\ \A s \in Reclaimers : s # r => rc'[s] = rc[s]
  BY <1>1, <1>5, <1>7
<1>13. RTypeOK
  BY DEF ReclaimIInv
<1>14. /\ active \in Seq(Pages) /\ Len(active) \in Nat
       /\ <<p>> \o active \in Seq(Pages) /\ Len(<<p>> \o active) = Len(active) + 1
       /\ inactive \in Seq(Pages) /\ Len(inactive) \in Nat
       /\ <<p>> \o inactive \in Seq(Pages) /\ Len(<<p>> \o inactive) = Len(inactive) + 1
  BY <1>3, <1>13, Prepended DEF RTypeOK
<1>15. nr_active \in Nat /\ nr_inactive \in Nat
  BY <1>13 DEF RTypeOK
<1>16. RTypeOK'
  <2>1. /\ nr_active' \in Nat /\ nr_inactive' \in Nat
        /\ active' \in Seq(Pages) /\ inactive' \in Seq(Pages)
    <3>1. nr_active + 1 \in Nat /\ nr_inactive + 1 \in Nat
      BY <1>15
    <3> QED
      BY <1>5, <1>14, <1>15, <3>1, Zenon
  <2>2. pg' \in [Pages -> PageRecords]
    BY <1>4, <1>5, <1>9
  <2> QED
    BY <1>5, <1>10, <1>12, <1>13, <2>1, <2>2 DEF RTypeOK
<1>17. CountInv'
  <2>1. /\ Len(active) = nr_active + Moving(c, "put_active")
        /\ Len(inactive) = nr_inactive + Moving(c, "put_inactive")
    BY <1>10, LockedCounts
  <2>2. /\ Moving(c, "put_active") = 0 /\ Moving(c, "put_inactive") = 0
        /\ Moving(d, "put_active") = 0 /\ Moving(d, "put_inactive") = 0
    BY <1>8, <1>10 DEF Moving
  <2>3. /\ Len(active') = nr_active' + Moving(d, "put_active")
        /\ Len(inactive') = nr_inactive' + Moving(d, "put_inactive")
    BY <1>5, <1>14, <1>15, <2>1, <2>2
  <2> QED
    BY <1>10, <1>12, <2>3, LockedCountsNext
<1>18. DeactivatedCounted'
  <2>1. Pend(d) = Pend(c)
    BY <1>2, <1>8, <1>10 DEF Pend
  <2> QED
    BY <1>5, <1>12, <2>1, SamePending
<1> QED
  <2>1. /\ d.hold = <<>> /\ d.page = Nobody /\ d.pvec = Append(c.pvec, p)
        /\ \/ y.active /\ active' = <<p>> \o active /\ inactive' = inactive
           \/ ~y.active /\ active' = active /\ inactive' = <<p>> \o inactive
    BY <1>5, <1>8, <1>9, <1>10
  <2> QED
    BY <1>5, <1>7, <1>9, <1>10, <1>11, <1>16, <1>17, <1>18, <2>1, PutStep

-----------------------------------------------------------------------------
(* Pages are isolated.                                                     *)

\* What becomes of an isolated page.
Aside(x, y) ==
    /\ ~y.lru /\ y.count = x.count + 1 /\ y.active = x.active /\ y.cached = x.cached
    /\ y.mapped = x.mapped /\ y.user = x.user /\ y.dirty = x.dirty
    /\ y.touched = x.touched /\ y.referenced = x.referenced /\ y.ref_cnt = x.ref_cnt

\* The pages of K leave a list of the zone, and are all that the reclaimer has.
LEMMA IsolateStep ==
    ASSUME ReclaimConstants, ReclaimIInv, RTypeOK', NEW r \in Reclaimers,
           NEW d \in Locals, NEW K,
           rc' = [rc EXCEPT ![r] = d],
           \A p \in Pages : IF p \in K THEN Aside(pg[p], pg'[p]) ELSE pg'[p] = pg[p],
           K = ToSet(d.hold), NoTwice(d.hold), \A p \in K : pg[p].count > 0,
           NoTwice(active'), NoTwice(inactive'),
           ToSet(active') = ToSet(active) \ K, ToSet(inactive') = ToSet(inactive) \ K,
           \/ K \subseteq ToSet(active) /\ d.pc \in Deactivating
           \/ K \subseteq ToSet(inactive) /\ d.pc \notin Deactivating,
           Private(rc[r]) = {}, rc[r].page = Nobody,
           d.inact = <<>>, d.act = <<>>, d.back = <<>>, d.page = Nobody,
           d.pvec = rc[r].pvec, Stages(d), d.pc \notin PuttingBack,
           lru_lock \in {r, Nobody}, lru_lock' = Nobody,
           CountInv', DeactivatedCounted'
    PROVE  ReclaimIInv'
<1> DEFINE c == rc[r]
<1>1. /\ rc \in [Reclaimers -> Locals] /\ c \in Locals /\ Stages(c)
      /\ r # Nobody /\ Nobody \notin Pages
  BY OfReclaimer
<1>2. /\ RTypeOK /\ LocalsInv /\ ListsInv /\ OwnedInv /\ KeptInv /\ CacheInv
      /\ NoLostWrite /\ TouchRemembered /\ Framed
  BY DEF ReclaimIInv, Framed
<1>3. rc'[r] = d /\ \A s \in Reclaimers : s # r => rc'[s] = rc[s]
  BY <1>1
<1>4. Neat(d) /\ Private(d) = K /\ K \subseteq Pages
  <2>1. ToSet(d.hold) \subseteq Pages
    <3>1. d.hold \in Seq(Pages)
      BY ListTypes
    <3> QED
      BY <3>1, Places
  <2> QED
    BY <2>1, OnlyHold
<1>5. /\ \A p \in Pages : p \in ToSet(active) <=> pg[p].lru /\ pg[p].active
      /\ \A p \in Pages : p \in ToSet(inactive) <=> pg[p].lru /\ ~pg[p].active
      /\ pg \in [Pages -> PageRecords]
  BY <1>2 DEF ListsInv, RTypeOK
<1>6. \A p \in K : pg[p].lru /\ (pg[p].active <=> d.pc \in Deactivating)
  BY <1>4, <1>5
<1>7. \A p \in Pages : p \notin K => pg'[p] = pg[p]
  OBVIOUS
<1>8. \A p \in K : /\ ~pg'[p].lru /\ pg'[p].count = pg[p].count + 1
                   /\ pg'[p].active = pg[p].active
  BY <1>4 DEF Aside
<1>9. \A p \in Pages : /\ pg'[p].active = pg[p].active /\ pg'[p].cached = pg[p].cached
                       /\ pg'[p].mapped = pg[p].mapped /\ pg'[p].user = pg[p].user
                       /\ pg'[p].dirty = pg[p].dirty /\ pg'[p].touched = pg[p].touched
                       /\ pg'[p].referenced = pg[p].referenced
                       /\ pg'[p].ref_cnt = pg[p].ref_cnt
  BY <1>7 DEF Aside
<1>10. \A s \in Reclaimers : s # r => \A p \in Private(rc[s]) : Undisturbed(pg[p], pg'[p])
  <2> SUFFICES ASSUME NEW s \in Reclaimers, s # r, NEW p \in Private(rc[s])
               PROVE  pg'[p] = pg[p]
    BY DEF Undisturbed
  <2>1. rc[s] \in Locals
    BY <1>1
  <2>2. p \in Pages
    BY <2>1, PrivatePages
  <2>3. p \notin K
    BY <1>2, <1>6 DEF OwnedInv
  <2> QED
    BY <1>7, <2>2, <2>3
<1>11. Own(rc[r])'
  <2>1. \A p \in Private(d) : ~pg'[p].lru
    BY <1>4, <1>8
  <2>2. ToSet(d.inact) \cup ToSet(d.act) = {} /\ {d.page} \cap Pages = {}
    <3>1. ToSet(<<>>) = {}
      BY DEF ToSet
    <3> QED
      BY <1>1, <3>1
  <2>3. \A p \in ToSet(d.hold) : pg'[p].active <=> d.pc \in Deactivating
    BY <1>6, <1>8
  <2>4. d.pc \notin {"test", "free", "age"}
    BY DEF Stages, OnPage
  <2> QED
    BY <1>3, <2>1, <2>2, <2>3, <2>4 DEF Own
<1>12. \A p \in Pages : pg[p].count \in Nat /\ Others(pg[p]) \in 0..3
  <2>1. \A p \in Pages : pg[p] \in PageRecords
    BY <1>5
  <2> QED
    BY <2>1 DEF Others, PageRecords
<1>13. \A p \in Pages : pg'[p].count - Others(pg'[p]) - Mine(p, rc'[r]) =
                           pg[p].count - Others(pg[p]) - Mine(p, rc[r])
  <2> SUFFICES ASSUME NEW p \in Pages
               PROVE  pg'[p].count - Others(pg'[p]) - Mine(p, d) =
                           pg[p].count - Others(pg[p]) - Mine(p, c)
    BY <1>3
  <2> DEFINE k == Occurrences(p, c.pvec)
  <2>1. k \in Nat
    BY <1>1, ListTypes, Occurs
  <2>2. Mine(p, c) = k /\ Mine(p, d) = (IF p \in K THEN 1 ELSE 0) + k
    BY <1>4, <2>1 DEF Mine
  <2>3. Others(pg'[p]) = Others(pg[p])
    BY <1>9 DEF Others
  <2>4. pg'[p].count = pg[p].count + (IF p \in K THEN 1 ELSE 0)
    BY <1>7, <1>8, <1>12
  <2> HIDE DEF k
  <2> QED
    BY <1>12, <2>1, <2>2, <2>3, <2>4
<1>14. \A p \in Pages : pg'[p].count > 0 =>
          \/ pg'[p].lru \/ p \in Private(rc'[r])
          \/ pg[p].count > 0 /\ ~pg[p].lru /\ p \notin Private(rc[r])
  BY <1>3, <1>4, <1>7
<1>15. Framed'
  <2>1. \A p \in Private(rc'[r]) : p \in Private(rc[r]) \/ pg[p].lru
    BY <1>3, <1>4, <1>6
  <2>2. /\ lru_lock \in {r, Nobody} /\ lru_lock' \in {r, Nobody}
        /\ lru_lock' = r <=> rc'[r].pc \in PuttingBack
    BY <1>1, <1>3
  <2> QED
    BY <1>2, <1>3, <1>4, <1>10, <1>11, <1>13, <1>14, <2>1, <2>2, StepFrame
<1>16. ListsInv'
  <2>1. \A p \in Pages : /\ p \in ToSet(active') <=> pg'[p].lru /\ pg'[p].active
                         /\ p \in ToSet(inactive') <=> pg'[p].lru /\ ~pg'[p].active
    BY <1>5, <1>7, <1>8
  <2> QED
    BY <2>1 DEF ListsInv
<1>17. CacheInv' /\ NoLostWrite'
  BY <1>2, <1>9 DEF CacheInv, NoLostWrite
<1>18. TouchRemembered'
  <2> SUFFICES ASSUME NEW p \in Pages, pg[p].touched, pg[p].active
               PROVE  \/ pg[p].referenced \/ pg[p].ref_cnt > 0
                      \/ \E s \in Reclaimers : rc'[s].page = p /\ rc'[s].bit # 0
    BY <1>9 DEF TouchRemembered
  <2>1. ASSUME NEW s \in Reclaimers, rc[s].page = p, rc[s].bit # 0
        PROVE  \E t \in Reclaimers : rc'[t].page = p /\ rc'[t].bit # 0
    <3>1. s # r
      BY <1>1, <2>1
    <3> QED
      BY <1>3, <2>1, <3>1
  <2> QED
    BY <1>2, <2>1 DEF TouchRemembered
<1> QED
  BY <1>2, <1>15, <1>16, <1>17, <1>18 DEF ReclaimIInv, Framed

\* __isolate_lru_page.
LEMMA IsolatedPages ==
    ASSUME NEW s, pg \in [Pages -> PageRecords], pg' = Isolated(s)
    PROVE  /\ pg' \in [Pages -> PageRecords]
           /\ \A p \in Pages : IF p \in ToSet(s) THEN Aside(pg[p], pg'[p])
                               ELSE pg'[p] = pg[p]
<1> DEFINE y(p) == [pg[p] EXCEPT !.lru = FALSE, !.count = @ + 1]
<1>1. \A p \in Pages : y(p) \in PageRecords /\ Aside(pg[p], y(p))
  <2> SUFFICES ASSUME NEW p \in Pages PROVE y(p) \in PageRecords /\ Aside(pg[p], y(p))
    OBVIOUS
  <2>1. pg[p] \in PageRecords /\ pg[p].count + 1 \in Nat
    BY DEF PageRecords
  <2> QED
    BY <2>1 DEF PageRecords, Aside
<1>2. pg' = [p \in Pages |-> IF p \in ToSet(s) THEN y(p) ELSE pg[p]]
  BY DEF Isolated
<1> HIDE DEF y
<1> QED
  BY <1>1, <1>2

\* shrink_active_list isolates its pages.
LEMMA ShrinkActiveKeeps ==
    ASSUME ReclaimConstants, ReclaimIInv, NEW r \in Reclaimers, NEW n \in Nat \ {0},
           ShrinkActive(r, n)
    PROVE  ReclaimIInv'
<1> DEFINE c == rc[r]
           taken == Taken(active, n)
           rest == Remaining(active, n)
           K == ToSet(taken)
<1>1. /\ rc \in [Reclaimers -> Locals] /\ c \in Locals /\ Stages(c)
      /\ lru_lock = r <=> c.pc \in PuttingBack
      /\ r # Nobody /\ Nobody \notin Pages
  BY OfReclaimer
<1>2. RTypeOK /\ ListsInv
  BY DEF ReclaimIInv
<1>3. /\ active \in Seq(Pages) /\ NoTwice(active) /\ NoTwice(inactive)
      /\ pg \in [Pages -> PageRecords]
      /\ \A p \in Pages : /\ p \in ToSet(active) <=> pg[p].lru /\ pg[p].active
                          /\ p \in ToSet(inactive) <=> pg[p].lru /\ ~pg[p].active
  BY <1>2 DEF RTypeOK, ListsInv
<1>4. /\ c.pc = "idle" /\ lru_lock = Nobody /\ lru_lock' = Nobody
      /\ active' = rest /\ inactive' = inactive /\ pg' = Isolated(taken)
      /\ nr_active' = nr_active - Len(taken) /\ nr_inactive' = nr_inactive
      /\ num_active_to_inactive' = num_active_to_inactive
      /\ num_inactive_to_free' = num_inactive_to_free /\ deactivated' = deactivated
  BY DEF ShrinkActive, At, LruFree, statVars
<1>5. PICK m \in BOOLEAN : rc' = [rc EXCEPT ![r].pc = "hold", ![r].reclaim_mapped = m,
                                            ![r].hold = taken]
  BY DEF ShrinkActive, calc_reclaim_mapped
<1> DEFINE d == [c EXCEPT !.pc = "hold", !.reclaim_mapped = m, !.hold = taken]
<1>6. rc' = [rc EXCEPT ![r] = d]
  BY <1>1, <1>5
<1>7. /\ taken \in Seq(Pages) /\ NoTwice(taken) /\ K \subseteq ToSet(active)
      /\ \A p \in K : pg[p].count > 0
      /\ rest \in Seq(Pages) /\ NoTwice(rest) /\ ToSet(rest) = ToSet(active) \ K
      /\ Len(active) = Len(rest) + Len(taken)
  BY <1>3, Divided
<1> HIDE DEF taken, rest
<1>8. d \in Locals
  BY <1>1, <1>7 DEF Locals, PCs
<1>9. /\ d.pc = "hold" /\ d.then = c.then /\ d.hold = taken /\ d.inact = c.inact
      /\ d.act = c.act /\ d.back = c.back /\ d.page = c.page /\ d.pvec = c.pvec
      /\ d.moved = c.moved /\ d.deact = c.deact /\ d.freed = c.freed
  BY <1>1 DEF Locals
<1> HIDE DEF d
<1>10. /\ c.hold = <<>> /\ c.inact = <<>> /\ c.act = <<>> /\ c.back = <<>>
       /\ c.page = Nobody /\ c.pvec = <<>> /\ c.moved = 0 /\ Stages(d)
       /\ d.pc \notin PuttingBack /\ d.pc \in Deactivating
  BY <1>1, <1>4, <1>9
     DEF Stages, Stage, Deactivating, Scanning, OnPage, PuttingBack
<1>11. Private(c) = {}
  <2>1. ToSet(<<>>) = {}
    BY DEF ToSet
  <2> QED
    BY <1>1, <1>10, <2>1 DEF Private
<1>12. /\ rc'[r] = d /\ rc' \in [Reclaimers -> Locals]
       /\ \A s \in Reclaimers : s # r => rc'[s] = rc[s]
  BY <1>1, <1>6, <1>8
<1>13. /\ pg' \in [Pages -> PageRecords]
       /\ \A p \in Pages : IF p \in K THEN Aside(pg[p], pg'[p]) ELSE pg'[p] = pg[p]
  BY <1>3, <1>4, IsolatedPages
<1>14. /\ nr_active \in Nat /\ nr_inactive \in Nat
       /\ Len(rest) \in Nat /\ Len(taken) \in Nat
  BY <1>2, <1>7 DEF RTypeOK
<1>15. /\ Len(active) = nr_active + Moving(c, "put_active")
       /\ Len(inactive) = nr_inactive + Moving(c, "put_inactive")
  BY <1>4, LockedCounts
<1>16. /\ Moving(c, "put_active") = 0 /\ Moving(c, "put_inactive") = 0
       /\ Moving(d, "put_active") = 0 /\ Moving(d, "put_inactive") = 0
  BY <1>4, <1>9 DEF Moving
<1>17. nr_active' = Len(rest)
  BY <1>4, <1>7, <1>14, <1>15, <1>16
<1>18. RTypeOK'
  BY <1>2, <1>4, <1>7, <1>12, <1>13, <1>14, <1>17 DEF RTypeOK
<1>19. CountInv'
  <2>1. /\ Len(active') = nr_active' + Moving(d, "put_active")
        /\ Len(inactive') = nr_inactive' + Moving(d, "put_inactive")
    BY <1>4, <1>14, <1>15, <1>16, <1>17
  <2> QED
    BY <1>1, <1>4, <1>10, <1>12, <2>1, LockedCountsNext
<1>20. DeactivatedCounted'
  <2>1. Pend(d) = Pend(c)
    BY <1>4, <1>9, <1>10 DEF Pend
  <2> QED
    BY <1>4, <1>12, <2>1, SamePending
<1>21. ToSet(inactive') = ToSet(inactive) \ K
  <2>1. inactive \in Seq(Pages)
    BY <1>2 DEF RTypeOK
  <2>2. ToSet(inactive) \subseteq Pages /\ ToSet(active) \subseteq Pages
    BY <1>3, <2>1, Places
  <2> QED
    BY <1>3, <1>4, <1>7, <2>2
<1>22. /\ NoTwice(active') /\ NoTwice(inactive') /\ ToSet(active') = ToSet(active) \ K
       /\ K = ToSet(d.hold) /\ NoTwice(d.hold)
       /\ d.inact = <<>> /\ d.act = <<>> /\ d.back = <<>> /\ d.page = Nobody
  BY <1>3, <1>4, <1>7, <1>9, <1>10
<1> HIDE DEF K
<1> QED
  BY <1>4, <1>6, <1>7, <1>8, <1>9, <1>10, <1>11, <1>13, <1>18, <1>19, <1>20, <1>21,
     <1>22, IsolateStep

\* shrink_inactive_list isolates a batch.
LEMMA IsolateKeeps ==
    ASSUME ReclaimConstants, ReclaimIInv, NEW r \in Reclaimers, NEW left \in Nat,
           Isolate(r, left), lru_lock \in {r, Nobody},
           rc[r].pc \in {"idle", "put_back"}, rc[r].back = <<>>
    PROVE  ReclaimIInv'
<1> DEFINE c == rc[r]
           taken == Taken(inactive, SWAP_CLUSTER_MAX)
           rest == Remaining(inactive, SWAP_CLUSTER_MAX)
           scan == NrScan(inactive, SWAP_CLUSTER_MAX)
           K == ToSet(taken)
           none == taken = <<>>
           d == [c EXCEPT !.hold = taken,
                          !.left = IF scan < left THEN left - scan ELSE 0,
                          !.then = IF none THEN "report" ELSE c.then,
                          !.pc = IF none THEN "release" ELSE "scan"]
<1>1. /\ rc \in [Reclaimers -> Locals] /\ c \in Locals /\ Stages(c)
      /\ lru_lock = r <=> c.pc \in PuttingBack
      /\ r # Nobody /\ Nobody \notin Pages
  BY OfReclaimer
<1>2. RTypeOK /\ ListsInv
  BY DEF ReclaimIInv
<1>3. /\ inactive \in Seq(Pages) /\ NoTwice(active) /\ NoTwice(inactive)
      /\ pg \in [Pages -> PageRecords]
      /\ \A p \in Pages : /\ p \in ToSet(active) <=> pg[p].lru /\ pg[p].active
                          /\ p \in ToSet(inactive) <=> pg[p].lru /\ ~pg[p].active
  BY <1>2 DEF RTypeOK, ListsInv
<1>4. /\ lru_lock' = Nobody
      /\ inactive' = rest /\ active' = active /\ pg' = Isolated(taken)
      /\ nr_inactive' = nr_inactive - Len(taken) /\ nr_active' = nr_active
      /\ num_active_to_inactive' = num_active_to_inactive
      /\ num_inactive_to_free' = num_inactive_to_free /\ deactivated' = deactivated
  BY DEF Isolate, statVars
<1>5. rc' = [rc EXCEPT ![r] = d]
  BY <1>1 DEF Isolate, NoneTaken
<1>6. /\ taken \in Seq(Pages) /\ NoTwice(taken) /\ K \subseteq ToSet(inactive)
      /\ \A p \in K : pg[p].count > 0
      /\ rest \in Seq(Pages) /\ NoTwice(rest) /\ ToSet(rest) = ToSet(inactive) \ K
      /\ Len(inactive) = Len(rest) + Len(taken) /\ scan \in Nat
  <2>1. SWAP_CLUSTER_MAX \in Nat \ {0}
    BY DEF ReclaimConstants
  <2> QED
    BY <1>3, <2>1, Divided
<1> HIDE DEF taken, rest, scan
<1>7. d \in Locals
  <2>1. /\ (IF scan < left THEN left - scan ELSE 0) \in Nat
        /\ (IF none THEN "report" ELSE c.then) \in PCs
        /\ (IF none THEN "release" ELSE "scan") \in PCs
    BY <1>1, <1>6 DEF Locals, PCs
  <2> HIDE DEF none
  <2> QED
    BY <1>1, <1>6, <2>1 DEF Locals
<1>8. /\ d.hold = taken /\ d.inact = c.inact
      /\ d.act = c.act /\ d.back = c.back /\ d.page = c.page /\ d.pvec = c.pvec
      /\ d.moved = c.moved /\ d.deact = c.deact /\ d.freed = c.freed
      /\ d.then = (IF none THEN "report" ELSE c.then)
      /\ d.pc = (IF none THEN "release" ELSE "scan")
  <2> HIDE DEF none
  <2> QED
    BY <1>1 DEF Locals
<1> HIDE DEF d
<1>9. /\ c.hold = <<>> /\ c.inact = <<>> /\ c.act = <<>>
      /\ c.page = Nobody /\ c.moved = 0 /\ c.deact = 0 /\ Stages(d)
      /\ d.pc \notin PuttingBack /\ d.pc \notin Deactivating
      /\ d.pc \notin {"put_active", "put_inactive"}
      /\ c.pc \notin {"put_active", "put_inactive"}
  BY <1>1, <1>8 DEF Stages, Stage, Deactivating, Scanning, OnPage, PuttingBack
<1>10. Private(c) = {}
  <2>1. ToSet(<<>>) = {}
    BY DEF ToSet
  <2> QED
    BY <1>1, <1>9, <2>1 DEF Private
<1>11. /\ rc'[r] = d /\ rc' \in [Reclaimers -> Locals]
       /\ \A s \in Reclaimers : s # r => rc'[s] = rc[s]
  BY <1>1, <1>5, <1>7
<1>12. /\ pg' \in [Pages -> PageRecords]
       /\ \A p \in Pages : IF p \in K THEN Aside(pg[p], pg'[p]) ELSE pg'[p] = pg[p]
  BY <1>3, <1>4, IsolatedPages
<1>13. /\ nr_active \in Nat /\ nr_inactive \in Nat
       /\ Len(rest) \in Nat /\ Len(taken) \in Nat
  BY <1>2, <1>6 DEF RTypeOK
<1>14. /\ Len(active) = nr_active + Moving(c, "put_active")
       /\ Len(inactive) = nr_inactive + Moving(c, "put_inactive")
  BY LockedCounts
<1>15. /\ Moving(c, "put_active") = 0 /\ Moving(c, "put_inactive") = 0
       /\ Moving(d, "put_active") = 0 /\ Moving(d, "put_inactive") = 0
  BY <1>9 DEF Moving
<1>16. nr_inactive' = Len(rest)
  BY <1>4, <1>6, <1>13, <1>14, <1>15
<1>17. RTypeOK'
  BY <1>2, <1>4, <1>6, <1>11, <1>12, <1>13, <1>16 DEF RTypeOK
<1>18. CountInv'
  <2>1. /\ Len(active') = nr_active' + Moving(d, "put_active")
        /\ Len(inactive') = nr_inactive' + Moving(d, "put_inactive")
    BY <1>4, <1>13, <1>14, <1>15, <1>16
  <2> QED
    BY <1>1, <1>4, <1>9, <1>11, <2>1, LockedCountsNext
<1>19. DeactivatedCounted'
  <2>1. Pend(d) = Pend(c)
    BY <1>8, <1>9 DEF Pend
  <2> QED
    BY <1>4, <1>11, <2>1, SamePending
<1>20. ToSet(active') = ToSet(active) \ K
  <2>1. active \in Seq(Pages)
    BY <1>2 DEF RTypeOK
  <2>2. ToSet(inactive) \subseteq Pages /\ ToSet(active) \subseteq Pages
    BY <1>3, <2>1, Places
  <2> QED
    BY <1>3, <1>4, <1>6, <2>2
<1>21. /\ NoTwice(active') /\ NoTwice(inactive') /\ ToSet(inactive') = ToSet(inactive) \ K
       /\ K = ToSet(d.hold) /\ NoTwice(d.hold)
       /\ d.inact = <<>> /\ d.act = <<>> /\ d.back = <<>> /\ d.page = Nobody
  BY <1>3, <1>4, <1>6, <1>8, <1>9
<1> HIDE DEF K
<1> QED
  BY <1>4, <1>5, <1>6, <1>7, <1>8, <1>9, <1>10, <1>12, <1>17, <1>18, <1>19, <1>20,
     <1>21, IsolateStep

-----------------------------------------------------------------------------
(* The pagevec is released.                                                *)

\* What stays of a page whose references are dropped.
Released(x, y) ==
    /\ y.active = x.active /\ y.ref_cnt = x.ref_cnt /\ y.cached = x.cached
    /\ y.mapped = x.mapped /\ y.user = x.user /\ y.dirty = x.dirty
    /\ y.touched = x.touched /\ y.referenced = x.referenced

\* A list without the pages of D, which were on it.
LEMMA DroppedLength ==
    ASSUME NEW s \in Seq(Pages), NoTwice(s), NEW D, NEW E, E = ToSet(s) \cap D
    PROVE  Len(Drop(s, D)) = Len(s) - Cardinality(E) /\ Len(s) \in Nat
           /\ Len(Drop(s, D)) \in Nat /\ Cardinality(E) \in Nat
<1>1. /\ Drop(s, D) \in Seq(Pages) /\ NoTwice(Drop(s, D))
      /\ ToSet(Drop(s, D)) = ToSet(s) \ D
  BY Dropped
<1>2. IsFiniteSet(ToSet(s)) /\ Len(s) = Cardinality(ToSet(s))
  BY LengthIsSize
<1>3. Len(Drop(s, D)) = Cardinality(ToSet(s) \ D)
  BY <1>1, LengthIsSize
<1>4. Cardinality(ToSet(s) \ D) = Cardinality(ToSet(s)) - Cardinality(ToSet(s) \cap D)
  BY <1>2, FS_Difference
<1>5. IsFiniteSet(E)
  BY <1>2, FS_Subset
<1>6. Cardinality(E) \in Nat
  BY <1>5, FS_CardinalityType
<1>7. Len(s) \in Nat /\ Len(Drop(s, D)) \in Nat
  BY <1>1
<1> QED
  BY <1>2, <1>3, <1>4, <1>6, <1>7

\* A page whose last references are in the pagevec is on its list, and nobody
\* else uses it.
LEMMA Dying ==
    ASSUME ReclaimConstants, ReclaimIInv, NEW r \in Reclaimers, NEW p \in Pages
    PROVE  LET refs == Occurrences(p, rc[r].pvec)
           IN  /\ refs \in Nat /\ refs <= pg[p].count /\ pg[p].count \in Nat
               /\ pg[p].count - refs \in Nat
               /\ p \in ToSet(rc[r].pvec) <=> refs > 0
               /\ refs > 0 /\ pg[p].count = refs =>
                     pg[p].lru /\ p \notin Private(rc[r])
<1> DEFINE c == rc[r]
           refs == Occurrences(p, c.pvec)
<1>1. RTypeOK /\ LocalsInv /\ RefCountExact /\ KeptInv /\ c \in Locals
  BY OfReclaimer DEF ReclaimIInv
<1>2. refs \in Nat /\ (refs = 0 <=> p \notin ToSet(c.pvec))
  <2>1. c.pvec \in Seq(Pages)
    BY <1>1, ListTypes
  <2> QED
    BY <2>1, Occurs
<1>3. Mine(p, c) = (IF p \in Private(c) THEN 1 ELSE 0) + refs
  BY DEF Mine
<1>4. /\ pg[p].count \in Nat /\ Others(pg[p]) \in 0..3 /\ Mine(p, c) \in Nat
      /\ Others(pg[p]) + Mine(p, c) <= pg[p].count
      /\ \A s \in Reclaimers : s # r =>
            Others(pg[p]) + Mine(p, c) + Mine(p, rc[s]) <= pg[p].count
      /\ \A s \in Reclaimers : Mine(p, rc[s]) \in Nat
  BY <1>1, CountTells
<1> HIDE DEF refs
<1>5. refs <= Mine(p, c)
  BY <1>2, <1>3
<1>6. refs <= pg[p].count /\ pg[p].count - refs \in Nat
  BY <1>2, <1>4, <1>5
<1>7. ASSUME refs > 0, pg[p].count = refs PROVE pg[p].lru /\ p \notin Private(c)
  <2>1. p \notin Private(c)
    <3>1. Mine(p, c) <= refs
      BY <1>2, <1>4, <1>7
    <3> QED
      BY <1>2, <1>3, <3>1
  <2>2. \A s \in Reclaimers : s # r => p \notin Private(rc[s])
    <3> SUFFICES ASSUME NEW s \in Reclaimers, s # r, p \in Private(rc[s])
                 PROVE  FALSE
      OBVIOUS
    <3>1. Mine(p, rc[s]) >= 1
      <4>1. rc[s] \in Locals
        BY <1>1 DEF RTypeOK
      <4>2. Occurrences(p, rc[s].pvec) \in Nat
        BY <4>1, ListTypes, Occurs
      <4> QED
        BY <4>2 DEF Mine
    <3>2. Mine(p, rc[s]) \in Nat /\ Others(pg[p]) + Mine(p, c) + Mine(p, rc[s]) <= refs
      BY <1>4, <1>7
    <3> QED
      BY <1>2, <1>4, <1>5, <3>1, <3>2
  <2> QED
    BY <1>1, <1>7, <2>1, <2>2 DEF KeptInv
<1> QED
  BY <1>2, <1>4, <1>6, <1>7 DEF refs

\* The references of isolation are dropped; what nobody else uses leaves the
\* lists.
LEMMA ReleaseKeeps ==
    ASSUME ReclaimConstants, ReclaimIInv, NEW r \in Reclaimers, Release(r)
    PROVE  ReclaimIInv'
<1> DEFINE c == rc[r]
           refs(p) == Occurrences(p, c.pvec)
           dead == {p \in ToSet(c.pvec) : pg[p].count = refs(p)}
           y(p) == [pg[p] EXCEPT !.count = pg[p].count - refs(p),
                                 !.lru = pg[p].lru /\ p \notin dead]
           d == [c EXCEPT !.pvec = <<>>,
                          !.pc = IF c.then \in {"idle", "report"} THEN c.then ELSE "relock"]
           da == {p \in dead : pg[p].active}
           di == {p \in dead : ~pg[p].active}
<1>1. /\ rc \in [Reclaimers -> Locals] /\ c \in Locals /\ Stages(c) /\ Neat(c) /\ Own(c)
      /\ lru_lock = r <=> c.pc \in PuttingBack
      /\ r # Nobody /\ Nobody \notin Pages
  BY OfReclaimer
<1>2. /\ RTypeOK /\ LocalsInv /\ ListsInv /\ OwnedInv /\ KeptInv /\ CacheInv
      /\ NoLostWrite /\ TouchRemembered /\ RefCountExact /\ Framed
  BY DEF ReclaimIInv, Framed
<1>3. /\ c.pc = "release" /\ lru_lock = Nobody /\ lru_lock' = Nobody
      /\ active' = Drop(active, dead) /\ inactive' = Drop(inactive, dead)
      /\ nr_active' = nr_active - Cardinality(da)
      /\ nr_inactive' = nr_inactive - Cardinality(di)
      /\ num_active_to_inactive' = num_active_to_inactive
      /\ num_inactive_to_free' = num_inactive_to_free /\ deactivated' = deactivated
  BY DEF Release, At, LruFree, statVars
<1>4. pg' = [p \in Pages |-> y(p)]
  BY DEF Release
<1>5. rc' = [rc EXCEPT ![r] = d]
  BY <1>1 DEF Release
<1>6. \A p \in Pages :
         /\ refs(p) \in Nat /\ refs(p) <= pg[p].count /\ pg[p].count \in Nat
         /\ pg[p].count - refs(p) \in Nat
         /\ p \in ToSet(c.pvec) <=> refs(p) > 0
         /\ refs(p) > 0 /\ pg[p].count = refs(p) =>
               pg[p].lru /\ p \notin Private(c)
  BY Dying
<1> HIDE DEF refs
<1>7. pg \in [Pages -> PageRecords]
  BY <1>2 DEF RTypeOK
<1>8. dead \subseteq Pages /\ \A p \in dead : pg[p].lru /\ p \notin Private(c)
  <2>1. ToSet(c.pvec) \subseteq Pages
    <3>1. c.pvec \in Seq(Pages)
      BY <1>1, ListTypes
    <3> QED
      BY <3>1, Places
  <2> QED
    BY <1>6, <2>1
<1>9. \A p \in Pages : pg[p].count - refs(p) > 0 => p \notin dead
  BY <1>6
<1>10. \A p \in Pages : pg[p].count > 0 /\ refs(p) = 0 => p \notin dead
  BY <1>6
<1> HIDE DEF dead
<1>11. \A p \in Pages : /\ pg'[p] \in PageRecords /\ Released(pg[p], pg'[p])
                        /\ pg'[p].count = pg[p].count - refs(p)
                        /\ pg'[p].lru <=> pg[p].lru /\ p \notin dead
  <2> SUFFICES ASSUME NEW p \in Pages
               PROVE  /\ y(p) \in PageRecords /\ Released(pg[p], y(p))
                      /\ y(p).count = pg[p].count - refs(p)
                      /\ y(p).lru <=> pg[p].lru /\ p \notin dead
    BY <1>4
  <2> DEFINE k == pg[p].count - refs(p)
             b == pg[p].lru /\ p \notin dead
  <2>1. k \in Nat /\ b \in BOOLEAN /\ pg[p] \in PageRecords
    BY <1>6, <1>7
  <2>2. y(p) = [pg[p] EXCEPT !.count = k, !.lru = b]
    OBVIOUS
  <2> HIDE DEF y, k, b
  <2>3. /\ y(p) \in PageRecords /\ y(p).count = k /\ y(p).lru = b
        /\ Released(pg[p], y(p))
    BY <2>1, <2>2 DEF PageRecords, Released
  <2> QED
    BY <2>3 DEF k, b
<1> HIDE DEF y
<1>12. pg' \in [Pages -> PageRecords]
  BY <1>4, <1>11
<1>13. d \in Locals
  <2>1. /\ (IF c.then \in {"idle", "report"} THEN c.then ELSE "relock") \in PCs
        /\ <<>> \in Seq(Pages)
    BY <1>1 DEF Locals, PCs
  <2> QED
    BY <1>1, <2>1 DEF Locals
<1>14. /\ d.hold = c.hold /\ d.inact = c.inact
       /\ d.act = c.act /\ d.back = c.back /\ d.page = c.page /\ d.pvec = <<>>
       /\ d.moved = c.moved /\ d.deact = c.deact /\ d.freed = c.freed
       /\ d.then = c.then
       /\ d.pc = (IF c.then \in {"idle", "report"} THEN c.then ELSE "relock")
  BY <1>1 DEF Locals
<1> HIDE DEF d
<1>15. /\ c.hold = <<>> /\ c.page = Nobody /\ c.moved = 0 /\ Stages(d)
       /\ d.pc \notin PuttingBack /\ c.pc \notin PuttingBack
  BY <1>1, <1>3, <1>14
     DEF Stages, Stage, Deactivating, Scanning, OnPage, PuttingBack
<1>16. Neat(d) /\ Private(d) = Private(c) /\ Private(c) \subseteq Pages
  <2>1. Neat(d) /\ Private(d) = Private(c)
    BY <1>1, <1>13, <1>14, SameLists
  <2>2. Private(c) \subseteq Pages
    BY <1>1, PrivatePages
  <2> QED
    BY <2>1, <2>2
<1>17. /\ rc'[r] = d /\ rc' \in [Reclaimers -> Locals]
       /\ \A s \in Reclaimers : s # r => rc'[s] = rc[s]
  BY <1>1, <1>5, <1>13
<1>18. \A s \in Reclaimers : s # r => \A p \in Private(rc[s]) : Undisturbed(pg[p], pg'[p])
  <2> SUFFICES ASSUME NEW s \in Reclaimers, s # r, NEW p \in Private(rc[s])
               PROVE  Undisturbed(pg[p], pg'[p])
    OBVIOUS
  <2>1. rc[s] \in Locals
    BY <1>1
  <2>2. p \in Pages
    BY <2>1, PrivatePages
  <2>3. ~pg[p].lru
    BY <1>2 DEF OwnedInv
  <2>4. /\ Released(pg[p], pg'[p]) /\ pg'[p].count = pg[p].count - refs(p)
        /\ pg'[p].lru <=> pg[p].lru /\ p \notin dead
    BY <1>11, <2>2
  <2>5. pg'[p].lru = pg[p].lru
    <3>1. pg'[p] \in PageRecords /\ pg[p] \in PageRecords
      BY <1>7, <1>11, <2>2
    <3> QED
      BY <2>3, <2>4, <3>1 DEF PageRecords
  <2>6. ASSUME pg[p].cached, pg[p].count = 2 PROVE refs(p) = 0
    <3>1. /\ Others(pg[p]) \in 0..3 /\ Mine(p, c) \in Nat /\ Mine(p, rc[s]) \in Nat
          /\ Others(pg[p]) + Mine(p, c) + Mine(p, rc[s]) <= 2
      BY <1>2, <2>2, <2>6, CountTells
    <3>2. Others(pg[p]) >= 1
      BY <2>6 DEF Others
    <3>3. Mine(p, rc[s]) >= 1
      <4>1. Occurrences(p, rc[s].pvec) \in Nat
        BY <2>1, ListTypes, Occurs
      <4> QED
        BY <4>1 DEF Mine
    <3>4. Mine(p, c) = 0
      BY <3>1, <3>2, <3>3
    <3>5. Mine(p, c) = (IF p \in Private(c) THEN 1 ELSE 0) + refs(p)
      BY DEF Mine, refs
    <3>6. refs(p) \in Nat
      BY <1>6, <2>2
    <3> QED
      BY <3>4, <3>5, <3>6
  <2>7. refs(p) = 0 /\ pg[p].count = 2 => pg'[p].count = 2
    BY <2>4
  <2> QED
    BY <2>4, <2>5, <2>6, <2>7 DEF Released, Undisturbed
<1>19. Own(rc[r])'
  <2>1. \A p \in Private(d) : ~pg'[p].lru
    BY <1>1, <1>11, <1>16 DEF Own
  <2>2. \A p \in ToSet(d.inact) \cup ToSet(d.act) : pg'[p].active
    <3>1. ToSet(c.inact) \subseteq Pages /\ ToSet(c.act) \subseteq Pages
      <4>1. ToSet(c.inact) \subseteq Private(c) /\ ToSet(c.act) \subseteq Private(c)
        BY <1>1, PrivatePages
      <4> QED
        BY <1>16, <4>1
    <3> QED
      BY <1>1, <1>11, <1>14, <3>1 DEF Own, Released
  <2>3. ToSet(d.hold) \cup ({d.page} \cap Pages) = {}
    <3>1. ToSet(<<>>) = {}
      BY DEF ToSet
    <3> QED
      BY <1>1, <1>14, <1>15, <3>1
  <2>4. d.pc \notin {"test", "free", "age"}
    BY <1>14
  <2> QED
    BY <1>17, <2>1, <2>2, <2>3, <2>4 DEF Own
<1>20. \A p \in Pages : pg'[p].count - Others(pg'[p]) - Mine(p, rc'[r]) =
                           pg[p].count - Others(pg[p]) - Mine(p, rc[r])
  <2> SUFFICES ASSUME NEW p \in Pages
               PROVE  pg'[p].count - Others(pg'[p]) - Mine(p, d) =
                           pg[p].count - Others(pg[p]) - Mine(p, c)
    BY <1>17
  <2> DEFINE k == refs(p)
             m == IF p \in Private(c) THEN 1 ELSE 0
             o == Others(pg[p])
             n == pg[p].count
  <2>1. k \in Nat /\ n \in Nat /\ m \in Nat /\ pg'[p].count = n - k
    BY <1>6, <1>11
  <2>2. Occurrences(p, <<>>) = 0
    BY FS_EmptySet DEF Occurrences
  <2>3. Mine(p, c) = m + k /\ Mine(p, d) = m
    BY <1>14, <1>16, <2>1, <2>2 DEF Mine, refs
  <2>4. Others(pg'[p]) = o
    BY <1>11 DEF Others, Released
  <2>5. o \in Int
    BY DEF Others
  <2> HIDE DEF k, m, o, n
  <2>6. n - k - o - m = n - o - (m + k)
    BY <2>1, <2>5
  <2> QED
    BY <2>1, <2>3, <2>4, <2>6 DEF n, o
<1>21. \A p \in Pages : pg'[p].count > 0 =>
          \/ pg'[p].lru \/ p \in Private(rc'[r])
          \/ pg[p].count > 0 /\ ~pg[p].lru /\ p \notin Private(rc[r])
  <2> SUFFICES ASSUME NEW p \in Pages, pg'[p].count > 0, ~pg'[p].lru, p \notin Private(c)
               PROVE  pg[p].count > 0 /\ ~pg[p].lru
    BY <1>16, <1>17
  <2>1. p \notin dead
    BY <1>9, <1>11
  <2>2. pg[p].count > 0
    BY <1>6, <1>11
  <2> QED
    BY <1>11, <2>1, <2>2
<1>22. /\ active \in Seq(Pages) /\ inactive \in Seq(Pages)
       /\ NoTwice(active) /\ NoTwice(inactive)
       /\ \A p \in Pages : /\ p \in ToSet(active) <=> pg[p].lru /\ pg[p].active
                           /\ p \in ToSet(inactive) <=> pg[p].lru /\ ~pg[p].active
       /\ ToSet(active) \subseteq Pages /\ ToSet(inactive) \subseteq Pages
  <2>1. active \in Seq(Pages) /\ inactive \in Seq(Pages)
    BY <1>2 DEF RTypeOK
  <2> QED
    BY <1>2, <2>1, Places DEF ListsInv
<1>23. /\ Drop(active, dead) \in Seq(Pages) /\ NoTwice(Drop(active, dead))
       /\ ToSet(Drop(active, dead)) = ToSet(active) \ dead
       /\ Drop(inactive, dead) \in Seq(Pages) /\ NoTwice(Drop(inactive, dead))
       /\ ToSet(Drop(inactive, dead)) = ToSet(inactive) \ dead
  BY <1>22, Dropped
<1>24. da = ToSet(active) \cap dead /\ di = ToSet(inactive) \cap dead
  BY <1>8, <1>22
<1>25. /\ Len(Drop(active, dead)) = Len(active) - Cardinality(da)
       /\ Len(Drop(inactive, dead)) = Len(inactive) - Cardinality(di)
       /\ Len(active) \in Nat /\ Len(inactive) \in Nat
       /\ Len(Drop(active, dead)) \in Nat /\ Len(Drop(inactive, dead)) \in Nat
  BY <1>22, <1>24, DroppedLength
<1> HIDE DEF da, di
<1>26. /\ Len(active) = nr_active + Moving(c, "put_active")
       /\ Len(inactive) = nr_inactive + Moving(c, "put_inactive")
  BY <1>3, LockedCounts
<1>27. /\ Moving(c, "put_active") = 0 /\ Moving(c, "put_inactive") = 0
       /\ Moving(d, "put_active") = 0 /\ Moving(d, "put_inactive") = 0
  BY <1>14, <1>15 DEF Moving
<1>28. nr_active \in Nat /\ nr_inactive \in Nat
  BY <1>2 DEF RTypeOK
<1>29. /\ nr_active' = Len(Drop(active, dead)) /\ nr_inactive' = Len(Drop(inactive, dead))
       /\ nr_active' \in Nat /\ nr_inactive' \in Nat
  BY <1>3, <1>25, <1>26, <1>27, <1>28
<1>30. RTypeOK'
  BY <1>2, <1>3, <1>12, <1>17, <1>23, <1>29 DEF RTypeOK
<1>31. CountInv'
  <2>1. /\ Len(active') = nr_active' + Moving(d, "put_active")
        /\ Len(inactive') = nr_inactive' + Moving(d, "put_inactive")
    BY <1>3, <1>27, <1>29
  <2> QED
    BY <1>1, <1>3, <1>15, <1>17, <2>1, LockedCountsNext
<1>32. DeactivatedCounted'
  <2>1. Pend(d) = Pend(c)
    BY <1>14, <1>15 DEF Pend
  <2> QED
    BY <1>3, <1>17, <2>1, SamePending
<1>33. Framed'
  <2>1. \A p \in Private(rc'[r]) : p \in Private(rc[r]) \/ pg[p].lru
    BY <1>16, <1>17
  <2>2. /\ lru_lock' = lru_lock
        /\ lru_lock' = r <=> rc'[r].pc \in PuttingBack
    BY <1>1, <1>3, <1>15, <1>17
  <2> QED
    BY <1>2, <1>15, <1>16, <1>17, <1>18, <1>19, <1>20, <1>21, <1>30, <2>1, <2>2, StepFrame
<1>34. ListsInv'
  <2>1. \A p \in Pages : /\ p \in ToSet(active') <=> pg'[p].lru /\ pg'[p].active
                         /\ p \in ToSet(inactive') <=> pg'[p].lru /\ ~pg'[p].active
    BY <1>3, <1>11, <1>22, <1>23 DEF Released
  <2> QED
    BY <1>3, <1>23, <2>1 DEF ListsInv
<1>35. CacheInv' /\ NoLostWrite'
  BY <1>2, <1>11 DEF CacheInv, NoLostWrite, Released
<1>36. TouchRemembered'
  <2> SUFFICES ASSUME NEW p \in Pages, pg'[p].touched, pg'[p].active
               PROVE  \/ pg'[p].referenced \/ pg'[p].ref_cnt > 0
                      \/ \E s \in Reclaimers : rc'[s].page = p /\ rc'[s].bit # 0
    BY DEF TouchRemembered
  <2>1. /\ pg[p].touched /\ pg[p].active /\ pg'[p].referenced = pg[p].referenced
        /\ pg'[p].ref_cnt = pg[p].ref_cnt
    BY <1>11 DEF Released
  <2>2. CASE pg[p].referenced \/ pg[p].ref_cnt > 0
    BY <2>1, <2>2
  <2>3. ASSUME NEW s \in Reclaimers, rc[s].page = p, rc[s].bit # 0
        PROVE  \E t \in Reclaimers : rc'[t].page = p /\ rc'[t].bit # 0
    <3>1. s # r
      BY <1>1, <1>15, <2>3
    <3> QED
      BY <1>17, <2>3, <3>1
  <2> QED
    BY <1>2, <2>1, <2>2, <2>3 DEF TouchRemembered
<1> QED
  BY <1>30, <1>31, <1>32, <1>33, <1>34, <1>35, <1>36 DEF ReclaimIInv, Framed

-----------------------------------------------------------------------------
(* The steps of a reclaimer, together.                                     *)

\* Every step of a reclaimer keeps the invariant.
LEMMA ReclaimerKeeps ==
    ASSUME ReclaimConstants, ReclaimIInv, NEW r \in Reclaimers, Step(r) \/ ShrinkZone(r)
    PROVE  ReclaimIInv'
<1>1. CASE shrink_active_list(r)
  BY <1>1, HoldReadKeeps, HoldWriteKeeps, HoldDoneKeeps, PutInactiveKeeps,
     PutInactiveDoneKeeps, PutActiveKeeps, ShrinkActiveEndKeeps DEF shrink_active_list
<1>2. CASE shrink_page_list(r)
  BY <1>2, PageLockKeeps, PageReferencedKeeps, PageUnmapKeeps, PageOutKeeps,
     PageWrittenKeeps, RemoveMappingKeeps, FreeItKeeps DEF shrink_page_list
<1>3. CASE NextBatch(r)
  <2>1. rc[r].left \in Nat /\ (lru_lock = r <=> rc[r].pc \in PuttingBack)
    BY OfReclaimer DEF Locals
  <2>2. rc[r].pc = "put_back" /\ rc[r].back = <<>> /\ Isolate(r, rc[r].left)
    BY <1>3 DEF NextBatch, At
  <2>3. lru_lock = r
    BY <2>1, <2>2 DEF PuttingBack
  <2> QED
    BY <2>1, <2>2, <2>3, IsolateKeeps
<1>4. CASE shrink_inactive_list(r)
  BY <1>3, <1>4, ScanDoneKeeps, PutBackKeeps, ShrinkInactiveEndKeeps, ReportReadKeeps,
     ReportWriteKeeps DEF shrink_inactive_list
<1>5. CASE Release(r) \/ Relock(r)
  BY <1>5, ReleaseKeeps, RelockKeeps
<1>6. CASE ShrinkZone(r)
  <2>1. PICK n \in 1..SWAP_CLUSTER_MAX : ShrinkActive(r, n) \/ ShrinkInactive(r, n)
    BY <1>6 DEF ShrinkZone
  <2>2. n \in Nat \ {0} /\ n \in Nat
    BY <2>1 DEF ReclaimConstants
  <2>3. CASE ShrinkActive(r, n)
    BY <2>2, <2>3, ShrinkActiveKeeps
  <2>4. CASE ShrinkInactive(r, n)
    <3>1. rc[r].pc = "idle" /\ lru_lock = Nobody /\ Isolate(r, n)
      BY <2>4 DEF ShrinkInactive, At, LruFree
    <3>2. rc[r].back = <<>>
      <4>1. Stages(rc[r])
        BY OfReclaimer
      <4> QED
        BY <3>1, <4>1 DEF Stages, Stage, Scanning, OnPage
    <3> QED
      BY <2>2, <3>1, <3>2, IsolateKeeps
  <2> QED
    BY <2>1, <2>3, <2>4
<1> QED
  BY <1>1, <1>2, <1>4, <1>5, <1>6 DEF Step

-----------------------------------------------------------------------------
(* The rest of the kernel.                                                 *)

\* A page has at least as many references as users other than the reclaimers.
LEMMA AtLeast ==
    ASSUME ReclaimConstants, ReclaimIInv, NEW p \in Pages
    PROVE  /\ pg[p].count \in Nat /\ Others(pg[p]) \in 0..3
           /\ Others(pg[p]) <= pg[p].count
           /\ \A r \in Reclaimers : p \in Private(rc[r]) => Others(pg[p]) + 1 <= pg[p].count
<1>1. RTypeOK /\ LocalsInv /\ RefCountExact
  BY DEF ReclaimIInv
<1>2. rc \in [Reclaimers -> Locals] /\ \A s \in Reclaimers : Neat(rc[s])
  BY <1>1 DEF RTypeOK, LocalsInv
<1>3. pg[p].count = Others(pg[p]) + Total(Shares(p, rc))
  BY <1>1, <1>2, CountIs
<1>4. Total(Shares(p, rc)) \in Nat
  <2>1. Shares(p, rc) \in [Reclaimers -> Nat]
    BY <1>2, SharesAre
  <2>2. IsFiniteSet(Reclaimers)
    BY DEF ReclaimConstants
  <2> QED
    BY <2>1, <2>2, TotalNat
<1>5. Others(pg[p]) \in 0..3
  BY DEF Others
<1>6. ASSUME NEW r \in Reclaimers, p \in Private(rc[r])
      PROVE  Others(pg[p]) + 1 <= pg[p].count
  <2>1. /\ Mine(p, rc[r]) \in Nat /\ pg[p].count \in Nat
        /\ Others(pg[p]) + Mine(p, rc[r]) <= pg[p].count
    BY <1>1, CountTells
  <2>2. Mine(p, rc[r]) >= 1
    <3>1. Occurrences(p, rc[r].pvec) \in Nat
      <4>1. rc[r] \in Locals
        BY <1>2
      <4> QED
        BY <4>1, ListTypes, Occurs
    <3> QED
      BY <1>6, <3>1 DEF Mine
  <2> QED
    BY <1>5, <2>1, <2>2
<1> DEFINE k == Total(Shares(p, rc))
           o == Others(pg[p])
<1>7. pg[p].count = o + k /\ o \in 0..3 /\ k \in Nat
  BY <1>3, <1>4, <1>5
<1> HIDE DEF k, o
<1>8. pg[p].count \in Nat /\ o <= pg[p].count
  BY <1>7
<1> QED
  BY <1>5, <1>6, <1>8 DEF o

\* Of a page under tree_lock the reclaimer and the page cache are the users.
LEMMA NoUsers ==
    ASSUME ReclaimConstants, ReclaimIInv, NEW p \in Pages, TreeLocked(p)
    PROVE  pg[p].cached /\ ~pg[p].mapped /\ pg[p].user = "none" /\ pg[p].count = 2
<1>1. PICK r \in Reclaimers : rc[r].page = p /\ rc[r].pc \in {"test", "free"}
  BY DEF TreeLocked
<1>2. rc[r] \in Locals /\ Stages(rc[r]) /\ Own(rc[r])
  BY OfReclaimer
<1>3. p \in Private(rc[r])
  BY <1>1, <1>2, PageIsPrivate DEF OnPage
<1>4. pg[p].cached /\ pg[p].count = 2
  BY <1>1, <1>2 DEF Own
<1>5. Others(pg[p]) \in 0..3 /\ Others(pg[p]) + 1 <= pg[p].count
  BY <1>3, AtLeast
<1>6. pg[p] \in PageRecords
  BY OfPage
<1>7. Others(pg[p]) <= 1
  BY <1>4, <1>5
<1> QED
  BY <1>4, <1>6, <1>7 DEF Others, PageRecords

\* A step that changes one page to y, and neither the lists nor the reclaimers.
LEMMA PageStep ==
    ASSUME ReclaimConstants, ReclaimIInv, NEW p \in Pages, NEW y \in PageRecords,
           pg' = [pg EXCEPT ![p] = y], UNCHANGED <<zoneVars, lru_lock, rc, statVars>>,
           y.lru = pg[p].lru, y.active = pg[p].active, y.ref_cnt = pg[p].ref_cnt,
           y.count - Others(y) = pg[p].count - Others(pg[p]),
           y.count > 0 => pg[p].count > 0,
           ~TreeLocked(p) \/ (y.cached /\ y.count = 2 /\ y.dirty = pg[p].dirty),
           y.mapped => y.cached, y.touched => y.active, ~y.cached => ~y.dirty,
           y.touched => y.referenced \/ (pg[p].touched /\ ~pg[p].referenced)
    PROVE  ReclaimIInv'
<1>1. /\ RTypeOK /\ LocalsInv /\ ListsInv /\ OwnedInv /\ KeptInv /\ CacheInv
      /\ NoLostWrite /\ TouchRemembered /\ Framed /\ CountInv /\ DeactivatedCounted
  BY DEF ReclaimIInv, Framed
<1>2. /\ active' = active /\ inactive' = inactive /\ nr_active' = nr_active
      /\ nr_inactive' = nr_inactive /\ lru_lock' = lru_lock /\ rc' = rc
      /\ num_active_to_inactive' = num_active_to_inactive
      /\ num_inactive_to_free' = num_inactive_to_free /\ deactivated' = deactivated
  BY DEF zoneVars, statVars
<1>3. pg \in [Pages -> PageRecords]
  BY <1>1 DEF RTypeOK
<1>4. /\ pg'[p] = y /\ pg' \in [Pages -> PageRecords]
      /\ \A q \in Pages : q # p => pg'[q] = pg[q]
  BY <1>3
<1>5. RTypeOK'
  BY <1>1, <1>2, <1>4 DEF RTypeOK
<1>6. \A s \in Reclaimers : \A q \in Private(rc[s]) :
         /\ pg'[q].lru = pg[q].lru /\ pg'[q].active = pg[q].active
         /\ pg'[q].ref_cnt = pg[q].ref_cnt
         /\ rc[s].pc \in {"test", "free"} /\ rc[s].page = q => Undisturbed(pg[q], pg'[q])
  <2> SUFFICES ASSUME NEW s \in Reclaimers, NEW q \in Private(rc[s])
               PROVE  /\ pg'[q].lru = pg[q].lru /\ pg'[q].active = pg[q].active
                      /\ pg'[q].ref_cnt = pg[q].ref_cnt
                      /\ rc[s].pc \in {"test", "free"} /\ rc[s].page = q =>
                            Undisturbed(pg[q], pg'[q])
    OBVIOUS
  <2>1. q \in Pages
    <3>1. rc[s] \in Locals
      BY <1>1 DEF RTypeOK
    <3> QED
      BY <3>1, PrivatePages
  <2>2. CASE q # p
    BY <1>4, <2>1, <2>2 DEF Undisturbed
  <2>3. CASE q = p
    <3>1. rc[s].pc \in {"test", "free"} /\ rc[s].page = q => TreeLocked(p)
      BY <2>3 DEF TreeLocked
    <3> QED
      BY <1>4, <2>3, <3>1 DEF Undisturbed
  <2> QED
    BY <2>2, <2>3
<1>7. \A q \in Pages :
         pg'[q].count > 0 => pg'[q].lru \/ (pg[q].count > 0 /\ ~pg[q].lru)
  BY <1>4
<1>8. \A q \in Pages : pg'[q].count - Others(pg'[q]) = pg[q].count - Others(pg[q])
  BY <1>4
<1>9. Framed'
  BY <1>1, <1>2, <1>5, <1>6, <1>7, <1>8, KernelFrame
<1>10. ListsInv'
  <2>1. \A q \in Pages : pg'[q].lru = pg[q].lru /\ pg'[q].active = pg[q].active
    BY <1>4
  <2> QED
    BY <1>1, <1>2, <2>1 DEF ListsInv
<1>11. CacheInv' /\ NoLostWrite'
  <2>1. CacheInv'
    BY <1>1, <1>4 DEF CacheInv
  <2>2. NoLostWrite'
    BY <1>1, <1>4 DEF NoLostWrite
  <2> QED
    BY <2>1, <2>2
<1>12. TouchRemembered'
  <2> SUFFICES ASSUME NEW q \in Pages, pg'[q].touched, pg'[q].active
               PROVE  \/ pg'[q].referenced \/ pg'[q].ref_cnt > 0
                      \/ \E s \in Reclaimers : rc[s].page = q /\ rc[s].bit # 0
    BY <1>2 DEF TouchRemembered
  <2>1. pg[q].touched /\ pg[q].active =>
           \/ pg[q].referenced \/ pg[q].ref_cnt > 0
           \/ \E s \in Reclaimers : rc[s].page = q /\ rc[s].bit # 0
    BY <1>1 DEF TouchRemembered
  <2>2. CASE q # p
    BY <1>4, <2>1, <2>2
  <2>3. CASE q = p
    BY <1>4, <2>1, <2>3
  <2> QED
    BY <2>2, <2>3
<1>13. CountInv' /\ DeactivatedCounted'
  <2>1. \A l : Batch(l)' = Batch(l)
    BY <1>2 DEF Batch, At
  <2>2. CountInv'
    BY <1>1, <1>2, <2>1 DEF CountInv
  <2>3. DeactivatedCounted'
    BY <1>1, <1>2 DEF DeactivatedCounted, At
  <2> QED
    BY <2>2, <2>3
<1> QED
  BY <1>5, <1>9, <1>10, <1>11, <1>12, <1>13 DEF ReclaimIInv, Framed

\* A process maps a page.
LEMMA MapKeeps ==
    ASSUME ReclaimConstants, ReclaimIInv, NEW p \in Pages, Map(p)
    PROVE  ReclaimIInv'
<1> DEFINE x == pg[p]
           y == [x EXCEPT !.mapped = TRUE, !.count = @ + 1]
<1>1. /\ pg \in [Pages -> PageRecords] /\ x \in PageRecords
      /\ x.touched => x.active
      /\ ~x.cached => ~x.dirty
  BY OfPage
<1>2. /\ x.cached /\ ~x.mapped /\ ~TreeLocked(p)
      /\ UNCHANGED <<zoneVars, lru_lock, rc, statVars>>
  BY DEF Map
<1>3. pg' = [pg EXCEPT ![p] = y]
  BY <1>1 DEF Map
<1>4. x.count \in Nat /\ Others(x) \in 0..3 /\ Others(x) <= x.count
  BY AtLeast
<1>5. x.count > 0 /\ x.count + 1 \in Nat
  <2>1. Others(x) >= 1
    BY <1>2 DEF Others
  <2> QED
    BY <1>4, <2>1
<1>6. /\ y \in PageRecords /\ y.lru = x.lru /\ y.active = x.active
      /\ y.ref_cnt = x.ref_cnt /\ y.cached = x.cached /\ y.dirty = x.dirty
      /\ y.touched = x.touched /\ y.referenced = x.referenced
      /\ y.count = x.count + 1 /\ y.mapped /\ y.user = x.user
  BY <1>1, <1>5 DEF PageRecords
<1>7. y.count - Others(y) = x.count - Others(x)
  <2>1. Others(y) = Others(x) + 1
    BY <1>2, <1>6 DEF Others
  <2> QED
    BY <1>4, <1>6, <2>1
<1> HIDE DEF x, y
<1>8. y.touched => y.referenced \/ (x.touched /\ ~x.referenced)
  BY <1>6
<1> QED
  BY <1>1, <1>2, <1>3, <1>5, <1>6, <1>7, <1>8, PageStep DEF x

\* A process unmaps a page.
LEMMA UnmapKeeps ==
    ASSUME ReclaimConstants, ReclaimIInv, NEW p \in Pages, Unmap(p)
    PROVE  ReclaimIInv'
<1>1. PICK wrote \in BOOLEAN :
         pg' = [pg EXCEPT ![p].mapped = FALSE, ![p].count = @ - 1,
                          ![p].dirty = @ \/ wrote]
  BY DEF Unmap
<1> DEFINE x == pg[p]
           y == [x EXCEPT !.mapped = FALSE, !.count = @ - 1, !.dirty = @ \/ wrote]
<1>2. /\ pg \in [Pages -> PageRecords] /\ x \in PageRecords
      /\ x.mapped => x.cached
      /\ x.touched => x.active
      /\ ~x.cached => ~x.dirty
  BY OfPage
<1>3. x.mapped /\ UNCHANGED <<zoneVars, lru_lock, rc, statVars>>
  BY DEF Unmap
<1>4. pg' = [pg EXCEPT ![p] = y]
  BY <1>1, <1>2
<1>5. ~TreeLocked(p)
  BY <1>3, NoUsers
<1>6. x.count \in Nat /\ x.count > 0 /\ x.count - 1 \in Nat /\ Others(x) \in 0..3
  <2>1. x.count \in Nat /\ Others(x) \in 0..3 /\ Others(x) <= x.count
    BY AtLeast
  <2>2. Others(x) >= 1
    BY <1>3 DEF Others
  <2> QED
    BY <2>1, <2>2
<1>7. /\ y \in PageRecords /\ y.lru = x.lru /\ y.active = x.active
      /\ y.ref_cnt = x.ref_cnt /\ y.cached = x.cached
      /\ y.touched = x.touched /\ y.referenced = x.referenced
      /\ y.count = x.count - 1 /\ ~y.mapped /\ y.user = x.user
  BY <1>2, <1>6 DEF PageRecords
<1>8. y.count - Others(y) = x.count - Others(x)
  <2>1. Others(y) = Others(x) - 1
    BY <1>3, <1>7 DEF Others
  <2> QED
    BY <1>6, <1>7, <2>1
<1> HIDE DEF x, y
<1>9. /\ y.touched => y.referenced \/ (x.touched /\ ~x.referenced)
      /\ y.touched => y.active
      /\ ~y.cached => ~y.dirty
      /\ y.mapped => y.cached
  BY <1>2, <1>3, <1>7
<1> QED
  BY <1>3, <1>4, <1>5, <1>6, <1>7, <1>8, <1>9, PageStep DEF x

\* A process pins a page, through its page tables or the page cache.
LEMMA PinKeeps ==
    ASSUME ReclaimConstants, ReclaimIInv, NEW p \in Pages, Pin(p)
    PROVE  ReclaimIInv'
<1> DEFINE x == pg[p]
           y == [x EXCEPT !.user = "pinned", !.count = @ + 1]
<1>1. /\ pg \in [Pages -> PageRecords] /\ x \in PageRecords
      /\ x.mapped => x.cached
      /\ x.touched => x.active
      /\ ~x.cached => ~x.dirty
  BY OfPage
<1>2. /\ x.cached /\ x.user = "none" /\ (x.mapped \/ ~TreeLocked(p))
      /\ UNCHANGED <<zoneVars, lru_lock, rc, statVars>>
  BY DEF Pin
<1>3. pg' = [pg EXCEPT ![p] = y]
  BY <1>1 DEF Pin
<1>4. ~TreeLocked(p)
  BY <1>2, NoUsers
<1>5. x.count \in Nat /\ x.count > 0 /\ x.count + 1 \in Nat /\ Others(x) \in 0..3
  <2>1. x.count \in Nat /\ Others(x) \in 0..3 /\ Others(x) <= x.count
    BY AtLeast
  <2>2. Others(x) >= 1
    BY <1>2 DEF Others
  <2> QED
    BY <2>1, <2>2
<1>6. /\ y \in PageRecords /\ y.lru = x.lru /\ y.active = x.active
      /\ y.ref_cnt = x.ref_cnt /\ y.cached = x.cached /\ y.dirty = x.dirty
      /\ y.touched = x.touched /\ y.referenced = x.referenced
      /\ y.count = x.count + 1 /\ y.mapped = x.mapped /\ y.user # "none"
  BY <1>1, <1>5 DEF PageRecords
<1>7. y.count - Others(y) = x.count - Others(x)
  <2>1. Others(y) = Others(x) + 1
    BY <1>2, <1>6 DEF Others
  <2> QED
    BY <1>5, <1>6, <2>1
<1> HIDE DEF x, y
<1>8. y.touched => y.referenced \/ (x.touched /\ ~x.referenced)
  BY <1>6
<1> QED
  BY <1>1, <1>2, <1>3, <1>4, <1>5, <1>6, <1>7, <1>8, PageStep DEF x

\* The pinner writes: the page is dirty.
LEMMA SetDirtyKeeps ==
    ASSUME ReclaimConstants, ReclaimIInv, NEW p \in Pages, SetDirty(p)
    PROVE  ReclaimIInv'
<1> DEFINE x == pg[p]
           y == [x EXCEPT !.user = "written", !.dirty = TRUE]
<1>1. /\ pg \in [Pages -> PageRecords] /\ x \in PageRecords
      /\ x.mapped => x.cached
      /\ x.touched => x.active
  BY OfPage
<1>2. /\ x.cached /\ x.user = "pinned"
      /\ UNCHANGED <<zoneVars, lru_lock, rc, statVars>>
  BY DEF SetDirty
<1>3. pg' = [pg EXCEPT ![p] = y]
  BY <1>1 DEF SetDirty
<1>4. ~TreeLocked(p)
  BY <1>2, NoUsers
<1>5. /\ y \in PageRecords /\ y.lru = x.lru /\ y.active = x.active
      /\ y.ref_cnt = x.ref_cnt /\ y.cached = x.cached
      /\ y.touched = x.touched /\ y.referenced = x.referenced
      /\ y.count = x.count /\ y.mapped = x.mapped
      /\ Others(y) = Others(x)
  BY <1>1, <1>2 DEF PageRecords, Others
<1> HIDE DEF x, y
<1>6. /\ y.touched => y.referenced \/ (x.touched /\ ~x.referenced)
      /\ y.touched => y.active
      /\ ~y.cached => ~y.dirty
      /\ y.mapped => y.cached
      /\ y.count - Others(y) = x.count - Others(x)
      /\ y.count > 0 => x.count > 0
  BY <1>1, <1>2, <1>5
<1> QED
  BY <1>2, <1>3, <1>4, <1>5, <1>6, PageStep DEF x

\* The pinner puts the page.
LEMMA UnpinKeeps ==
    ASSUME ReclaimConstants, ReclaimIInv, NEW p \in Pages, Unpin(p)
    PROVE  ReclaimIInv'
<1> DEFINE x == pg[p]
           y == [x EXCEPT !.user = "none", !.count = @ - 1]
<1>1. /\ pg \in [Pages -> PageRecords] /\ x \in PageRecords
      /\ x.mapped => x.cached
      /\ x.touched => x.active
      /\ ~x.cached => ~x.dirty
  BY OfPage
<1>2. x.user # "none" /\ UNCHANGED <<zoneVars, lru_lock, rc, statVars>>
  BY DEF Unpin
<1>3. pg' = [pg EXCEPT ![p] = y]
  BY <1>1 DEF Unpin
<1>4. ~TreeLocked(p)
  BY <1>2, NoUsers
<1>5. x.count \in Nat /\ x.count > 0 /\ x.count - 1 \in Nat /\ Others(x) \in 0..3
  <2>1. x.count \in Nat /\ Others(x) \in 0..3 /\ Others(x) <= x.count
    BY AtLeast
  <2>2. Others(x) >= 1
    BY <1>2 DEF Others
  <2> QED
    BY <2>1, <2>2
<1>6. /\ y \in PageRecords /\ y.lru = x.lru /\ y.active = x.active
      /\ y.ref_cnt = x.ref_cnt /\ y.cached = x.cached /\ y.dirty = x.dirty
      /\ y.touched = x.touched /\ y.referenced = x.referenced
      /\ y.count = x.count - 1 /\ y.mapped = x.mapped /\ y.user = "none"
  BY <1>1, <1>5 DEF PageRecords
<1>7. y.count - Others(y) = x.count - Others(x)
  <2>1. Others(y) = Others(x) - 1
    BY <1>2, <1>6 DEF Others
  <2> QED
    BY <1>5, <1>6, <2>1
<1> HIDE DEF x, y
<1>8. /\ y.touched => y.referenced \/ (x.touched /\ ~x.referenced)
      /\ y.touched => y.active
      /\ ~y.cached => ~y.dirty
      /\ y.mapped => y.cached
  BY <1>1, <1>6
<1> QED
  BY <1>2, <1>3, <1>4, <1>5, <1>6, <1>7, <1>8, PageStep DEF x

\* The writeback of a page ends.
LEMMA EndWritebackKeeps ==
    ASSUME ReclaimConstants, ReclaimIInv, NEW p \in Pages, EndWriteback(p)
    PROVE  ReclaimIInv'
<1> DEFINE x == pg[p]
           y == [x EXCEPT !.writeback = FALSE]
<1>1. /\ pg \in [Pages -> PageRecords] /\ x \in PageRecords
      /\ x.mapped => x.cached
      /\ x.touched => x.active
      /\ ~x.cached => ~x.dirty
  BY OfPage
<1>2. UNCHANGED <<zoneVars, lru_lock, rc, statVars>>
  BY DEF EndWriteback
<1>3. pg' = [pg EXCEPT ![p] = y]
  BY <1>1 DEF EndWriteback
<1>4. TreeLocked(p) => x.cached /\ x.count = 2
  BY NoUsers
<1>5. /\ y \in PageRecords /\ y.lru = x.lru /\ y.active = x.active
      /\ y.ref_cnt = x.ref_cnt /\ y.cached = x.cached /\ y.dirty = x.dirty
      /\ y.touched = x.touched /\ y.referenced = x.referenced
      /\ y.count = x.count /\ y.mapped = x.mapped
      /\ Others(y) = Others(x)
  BY <1>1 DEF PageRecords, Others
<1> HIDE DEF x, y
<1>6. /\ y.touched => y.referenced \/ (x.touched /\ ~x.referenced)
      /\ y.touched => y.active
      /\ ~y.cached => ~y.dirty
      /\ y.mapped => y.cached
      /\ y.count - Others(y) = x.count - Others(x)
      /\ y.count > 0 => x.count > 0
      /\ ~TreeLocked(p) \/ (y.cached /\ y.count = 2 /\ y.dirty = x.dirty)
  BY <1>1, <1>4, <1>5
<1> QED
  BY <1>2, <1>3, <1>5, <1>6, PageStep DEF x

\* The page leaves the page cache.
LEMMA TruncateKeeps ==
    ASSUME ReclaimConstants, ReclaimIInv, NEW p \in Pages, Truncate(p)
    PROVE  ReclaimIInv'
<1> DEFINE x == pg[p]
           y == [x EXCEPT !.cached = FALSE, !.dirty = FALSE, !.count = @ - 1]
<1>1. /\ pg \in [Pages -> PageRecords] /\ x \in PageRecords
      /\ x.touched => x.active
  BY OfPage
<1>2. /\ x.cached /\ ~x.mapped /\ ~TreeLocked(p)
      /\ UNCHANGED <<zoneVars, lru_lock, rc, statVars>>
  BY DEF Truncate
<1>3. pg' = [pg EXCEPT ![p] = y]
  BY <1>1 DEF Truncate
<1>4. x.count \in Nat /\ x.count > 0 /\ x.count - 1 \in Nat /\ Others(x) \in 0..3
  <2>1. x.count \in Nat /\ Others(x) \in 0..3 /\ Others(x) <= x.count
    BY AtLeast
  <2>2. Others(x) >= 1
    BY <1>2 DEF Others
  <2> QED
    BY <2>1, <2>2
<1>5. /\ y \in PageRecords /\ y.lru = x.lru /\ y.active = x.active
      /\ y.ref_cnt = x.ref_cnt /\ ~y.cached /\ ~y.dirty
      /\ y.touched = x.touched /\ y.referenced = x.referenced
      /\ y.count = x.count - 1 /\ y.mapped = x.mapped /\ y.user = x.user
  BY <1>1, <1>4 DEF PageRecords
<1>6. y.count - Others(y) = x.count - Others(x)
  <2>1. Others(y) = Others(x) - 1
    BY <1>2, <1>5 DEF Others
  <2> QED
    BY <1>4, <1>5, <2>1
<1> HIDE DEF x, y
<1>7. /\ y.touched => y.referenced \/ (x.touched /\ ~x.referenced)
      /\ y.touched => y.active
      /\ y.mapped => y.cached
  BY <1>1, <1>2, <1>5
<1> QED
  BY <1>2, <1>3, <1>4, <1>5, <1>6, <1>7, PageStep DEF x

\* An access that leaves the page on its list.
LEMMA MarkKeeps ==
    ASSUME ReclaimConstants, ReclaimIInv, NEW p \in Pages, Touch(p),
           ~(pg[p].lru /\ pg[p].referenced /\ ~pg[p].active)
    PROVE  ReclaimIInv'
<1> DEFINE x == pg[p]
           y == [x EXCEPT !.referenced = TRUE, !.touched = x.active]
<1>1. /\ pg \in [Pages -> PageRecords] /\ x \in PageRecords
      /\ x.mapped => x.cached
      /\ ~x.cached => ~x.dirty
  BY OfPage
<1>2. UNCHANGED <<zoneVars, lru_lock, rc, statVars>>
  BY DEF Touch
<1>3. pg' = [pg EXCEPT ![p] = y]
  BY <1>1 DEF Touch
<1>4. TreeLocked(p) => x.cached /\ x.count = 2
  BY NoUsers
<1>5. /\ y \in PageRecords /\ y.lru = x.lru /\ y.active = x.active
      /\ y.ref_cnt = x.ref_cnt /\ y.cached = x.cached /\ y.dirty = x.dirty
      /\ y.touched = x.active /\ y.referenced
      /\ y.count = x.count /\ y.mapped = x.mapped
      /\ Others(y) = Others(x)
  BY <1>1 DEF PageRecords, Others
<1> HIDE DEF x, y
<1>6. /\ y.touched => y.active
      /\ ~y.cached => ~y.dirty
      /\ y.mapped => y.cached
      /\ y.count - Others(y) = x.count - Others(x)
      /\ y.count > 0 => x.count > 0
      /\ ~TreeLocked(p) \/ (y.cached /\ y.count = 2 /\ y.dirty = x.dirty)
  BY <1>1, <1>4, <1>5
<1> QED
  BY <1>2, <1>3, <1>5, <1>6, PageStep DEF x

\* With lru_lock free the zone's counters are the lengths of its lists.
LEMMA FreeCounts ==
    ASSUME ReclaimIInv, LruFree
    PROVE  nr_active = Len(active) /\ nr_inactive = Len(inactive)
<1>1. CountInv /\ \A l : Batch(l) = 0
  BY DEF ReclaimIInv, Batch, LruFree
<1>2. /\ nr_active \in Nat /\ nr_inactive \in Nat
      /\ active \in Seq(Pages) /\ inactive \in Seq(Pages)
  BY DEF ReclaimIInv, RTypeOK
<1>3. Len(active) = nr_active + 0 /\ Len(inactive) = nr_inactive + 0
  BY <1>1 DEF CountInv
<1> QED
  BY <1>2, <1>3

\* A step under lru_lock that changes one page to y, which nobody has
\* isolated, and its place on the lists of the zone.
LEMMA LruStep ==
    ASSUME ReclaimConstants, ReclaimIInv, LruFree,
           NEW p \in Pages, NEW y \in PageRecords,
           pg' = [pg EXCEPT ![p] = y], UNCHANGED <<lru_lock, rc, statVars>>,
           \A r \in Reclaimers : p \notin Private(rc[r]),
           active' \in Seq(Pages), inactive' \in Seq(Pages),
           NoTwice(active'), NoTwice(inactive'),
           ToSet(active') = IF y.lru /\ y.active THEN ToSet(active) \cup {p}
                            ELSE ToSet(active) \ {p},
           ToSet(inactive') = IF y.lru /\ ~y.active THEN ToSet(inactive) \cup {p}
                              ELSE ToSet(inactive) \ {p},
           nr_active' = Len(active'), nr_inactive' = Len(inactive'),
           y.count - Others(y) = pg[p].count - Others(pg[p]),
           y.count > 0 => y.lru,
           y.mapped => y.cached, y.touched => y.active, ~y.cached => ~y.dirty,
           y.touched => /\ pg[p].touched /\ y.referenced = pg[p].referenced
                        /\ y.active = pg[p].active /\ y.ref_cnt = pg[p].ref_cnt
    PROVE  ReclaimIInv'
<1>1. /\ RTypeOK /\ LocalsInv /\ ListsInv /\ OwnedInv /\ KeptInv /\ CacheInv
      /\ NoLostWrite /\ TouchRemembered /\ Framed /\ CountInv /\ DeactivatedCounted
  BY DEF ReclaimIInv, Framed
<1>2. /\ lru_lock' = lru_lock /\ rc' = rc /\ lru_lock = Nobody
      /\ num_active_to_inactive' = num_active_to_inactive
      /\ num_inactive_to_free' = num_inactive_to_free /\ deactivated' = deactivated
  BY DEF statVars, LruFree
<1>3. pg \in [Pages -> PageRecords]
  BY <1>1 DEF RTypeOK
<1>4. /\ pg'[p] = y /\ pg' \in [Pages -> PageRecords]
      /\ \A q \in Pages : q # p => pg'[q] = pg[q]
  BY <1>3
<1>5. Len(active') \in Nat /\ Len(inactive') \in Nat
  OBVIOUS
<1>6. RTypeOK'
  BY <1>1, <1>2, <1>4, <1>5 DEF RTypeOK
<1>7. \A s \in Reclaimers : \A q \in Private(rc[s]) : q # p /\ q \in Pages
  <2>1. \A s \in Reclaimers : rc[s] \in Locals
    BY <1>1 DEF RTypeOK
  <2> QED
    BY <2>1, PrivatePages
<1>8. \A s \in Reclaimers : \A q \in Private(rc[s]) :
         /\ pg'[q].lru = pg[q].lru /\ pg'[q].active = pg[q].active
         /\ pg'[q].ref_cnt = pg[q].ref_cnt
         /\ rc[s].pc \in {"test", "free"} /\ rc[s].page = q => Undisturbed(pg[q], pg'[q])
  BY <1>4, <1>7 DEF Undisturbed
<1>9. \A q \in Pages :
         pg'[q].count > 0 => pg'[q].lru \/ (pg[q].count > 0 /\ ~pg[q].lru)
  BY <1>4
<1>10. \A q \in Pages : pg'[q].count - Others(pg'[q]) = pg[q].count - Others(pg[q])
  BY <1>4
<1>11. Framed'
  BY <1>1, <1>2, <1>6, <1>8, <1>9, <1>10, KernelFrame
<1>12. ListsInv'
  <2> SUFFICES ASSUME NEW q \in Pages
               PROVE  /\ q \in ToSet(active') <=> pg'[q].lru /\ pg'[q].active
                      /\ q \in ToSet(inactive') <=> pg'[q].lru /\ ~pg'[q].active
    BY DEF ListsInv
  <2>1. CASE q = p
    BY <1>4, <2>1
  <2>2. CASE q # p
    <3>1. /\ q \in ToSet(active) <=> pg[q].lru /\ pg[q].active
          /\ q \in ToSet(inactive) <=> pg[q].lru /\ ~pg[q].active
      BY <1>1 DEF ListsInv
    <3> QED
      BY <1>4, <2>2, <3>1
  <2> QED
    BY <2>1, <2>2
<1>13. CacheInv' /\ NoLostWrite'
  <2>1. CacheInv'
    BY <1>1, <1>4 DEF CacheInv
  <2>2. NoLostWrite'
    BY <1>1, <1>4 DEF NoLostWrite
  <2> QED
    BY <2>1, <2>2
<1>14. TouchRemembered'
  <2> SUFFICES ASSUME NEW q \in Pages, pg'[q].touched, pg'[q].active
               PROVE  \/ pg'[q].referenced \/ pg'[q].ref_cnt > 0
                      \/ \E s \in Reclaimers : rc[s].page = q /\ rc[s].bit # 0
    BY <1>2 DEF TouchRemembered
  <2>1. pg[q].touched /\ pg[q].active =>
           \/ pg[q].referenced \/ pg[q].ref_cnt > 0
           \/ \E s \in Reclaimers : rc[s].page = q /\ rc[s].bit # 0
    BY <1>1 DEF TouchRemembered
  <2>2. CASE q # p
    BY <1>4, <2>1, <2>2
  <2>3. CASE q = p
    BY <1>4, <2>1, <2>3
  <2> QED
    BY <2>2, <2>3
<1>15. CountInv' /\ DeactivatedCounted'
  <2>1. \A l : Batch(l)' = 0
    BY <1>2 DEF Batch
  <2>2. /\ Len(active') = nr_active' + 0 /\ Len(inactive') = nr_inactive' + 0
    BY <1>5
  <2>3. CountInv'
    BY <2>1, <2>2 DEF CountInv
  <2>4. DeactivatedCounted'
    BY <1>1, <1>2 DEF DeactivatedCounted, At
  <2> QED
    BY <2>3, <2>4
<1> QED
  BY <1>6, <1>11, <1>12, <1>13, <1>14, <1>15 DEF ReclaimIInv, Framed

\* The lists of the zone, and a page of theirs.
LEMMA OfLists ==
    ASSUME ReclaimIInv, NEW p \in Pages
    PROVE  /\ active \in Seq(Pages) /\ inactive \in Seq(Pages)
           /\ NoTwice(active) /\ NoTwice(inactive)
           /\ Len(active) \in Nat /\ Len(inactive) \in Nat
           /\ p \in ToSet(active) <=> pg[p].lru /\ pg[p].active
           /\ p \in ToSet(inactive) <=> pg[p].lru /\ ~pg[p].active
           /\ pg[p].lru => \A r \in Reclaimers : p \notin Private(rc[r])
<1>1. RTypeOK /\ ListsInv /\ OwnedInv
  BY DEF ReclaimIInv
<1>2. active \in Seq(Pages) /\ inactive \in Seq(Pages)
  BY <1>1 DEF RTypeOK
<1>3. Len(active) \in Nat /\ Len(inactive) \in Nat
  BY <1>2
<1> QED
  BY <1>1, <1>2, <1>3 DEF ListsInv, OwnedInv

\* A list without one of its members, or without a page that is not on it.
LEMMA DroppedOne ==
    ASSUME NEW s \in Seq(Pages), NoTwice(s), NEW p
    PROVE  /\ Drop(s, {p}) \in Seq(Pages) /\ NoTwice(Drop(s, {p}))
           /\ ToSet(Drop(s, {p})) = ToSet(s) \ {p}
           /\ Len(s) \in Nat /\ Len(Drop(s, {p})) \in Nat
           /\ p \in ToSet(s) => Len(Drop(s, {p})) = Len(s) - 1
           /\ p \notin ToSet(s) => Len(Drop(s, {p})) = Len(s)
<1>1. /\ Drop(s, {p}) \in Seq(Pages) /\ NoTwice(Drop(s, {p}))
      /\ ToSet(Drop(s, {p})) = ToSet(s) \ {p}
  BY Dropped
<1>2. /\ Len(Drop(s, {p})) = Len(s) - Cardinality(ToSet(s) \cap {p})
      /\ Len(s) \in Nat /\ Len(Drop(s, {p})) \in Nat
  BY DroppedLength
<1>3. ASSUME p \in ToSet(s) PROVE Len(Drop(s, {p})) = Len(s) - 1
  <2>1. ToSet(s) \cap {p} = {p} /\ Cardinality({p}) = 1
    BY <1>3, FS_Singleton
  <2> QED
    BY <1>2, <2>1
<1>4. ASSUME p \notin ToSet(s) PROVE Len(Drop(s, {p})) = Len(s)
  <2>1. ToSet(s) \cap {p} = {} /\ Cardinality({}) = 0
    BY <1>4, FS_EmptySet
  <2>2. Len(Drop(s, {p})) = Len(s) - 0
    BY <1>2, <2>1
  <2> QED
    BY <1>2, <2>2
<1> QED
  BY <1>1, <1>2, <1>3, <1>4

\* A free page is read in.
LEMMA ReadInKeeps ==
    ASSUME ReclaimConstants, ReclaimIInv, NEW p \in Pages, ReadIn(p)
    PROVE  ReclaimIInv'
<1> DEFINE x == pg[p]
           y == [FreePage EXCEPT !.ref_cnt = x.ref_cnt, !.lru = TRUE, !.cached = TRUE,
                                 !.count = 1]
<1>1. pg \in [Pages -> PageRecords] /\ x \in PageRecords
  BY OfPage
<1>2. /\ x.count = 0 /\ ~x.lru /\ LruFree
      /\ inactive' = <<p>> \o inactive /\ nr_inactive' = nr_inactive + 1
      /\ pg' = [pg EXCEPT ![p] = y]
      /\ active' = active /\ nr_active' = nr_active
      /\ UNCHANGED <<lru_lock, rc, statVars>>
  BY DEF ReadIn
<1>3. /\ y \in PageRecords /\ y.lru /\ ~y.active /\ y.cached /\ ~y.mapped /\ ~y.touched
      /\ y.count = 1 /\ y.user = "none"
  BY <1>1 DEF PageRecords, FreePage
<1>4. /\ Others(x) \in 0..3 /\ Others(x) <= x.count
      /\ \A r \in Reclaimers : p \in Private(rc[r]) => Others(x) + 1 <= x.count
  BY AtLeast
<1>5. /\ Others(x) = 0 /\ \A r \in Reclaimers : p \notin Private(rc[r])
  BY <1>2, <1>4
<1>6. y.count - Others(y) = x.count - Others(x)
  <2>1. Others(y) = 1
    BY <1>3 DEF Others
  <2> QED
    BY <1>2, <1>3, <1>5, <2>1
<1> HIDE DEF x, y
<1>7. /\ active \in Seq(Pages) /\ inactive \in Seq(Pages)
      /\ NoTwice(active) /\ NoTwice(inactive)
      /\ p \notin ToSet(active) /\ p \notin ToSet(inactive)
  BY <1>2, OfLists DEF x
<1>8. /\ inactive' \in Seq(Pages) /\ NoTwice(inactive')
      /\ ToSet(inactive') = ToSet(inactive) \cup {p}
      /\ Len(inactive') = Len(inactive) + 1
  BY <1>2, <1>7, Prepended
<1>9. nr_active' = Len(active') /\ nr_inactive' = Len(inactive')
  BY <1>2, <1>8, FreeCounts
<1>10. ToSet(active') = ToSet(active) \ {p}
  BY <1>2, <1>7
<1>11. /\ active' \in Seq(Pages) /\ NoTwice(active')
       /\ y.count > 0 => y.lru
  BY <1>2, <1>3, <1>7
<1>12. /\ ToSet(active') = IF y.lru /\ y.active THEN ToSet(active) \cup {p}
                           ELSE ToSet(active) \ {p}
       /\ ToSet(inactive') = IF y.lru /\ ~y.active THEN ToSet(inactive) \cup {p}
                             ELSE ToSet(inactive) \ {p}
  BY <1>3, <1>8, <1>10
<1> QED
  BY <1>2, <1>3, <1>5, <1>6, <1>8, <1>9, <1>11, <1>12, LruStep DEF x

\* The second access to an inactive page activates it.
LEMMA ActivateKeeps ==
    ASSUME ReclaimConstants, ReclaimIInv, NEW p \in Pages, Touch(p),
           pg[p].lru, pg[p].referenced, ~pg[p].active
    PROVE  ReclaimIInv'
<1> DEFINE x == pg[p]
           y == [x EXCEPT !.active = TRUE, !.referenced = FALSE]
<1>1. /\ pg \in [Pages -> PageRecords] /\ x \in PageRecords
      /\ x.mapped => x.cached
      /\ x.touched => x.active
      /\ ~x.cached => ~x.dirty
  BY OfPage
<1>2. /\ LruFree /\ x.lru /\ ~x.active
      /\ inactive' = Drop(inactive, {p}) /\ active' = <<p>> \o active
      /\ nr_active' = nr_active + 1 /\ nr_inactive' = nr_inactive - 1
      /\ UNCHANGED <<lru_lock, rc, statVars>>
  BY DEF Touch
<1>3. pg' = [pg EXCEPT ![p] = y]
  BY <1>1 DEF Touch
<1>4. /\ y \in PageRecords /\ y.lru = x.lru /\ y.active
      /\ y.cached = x.cached /\ y.dirty = x.dirty /\ y.mapped = x.mapped
      /\ y.touched = x.touched /\ y.count = x.count /\ Others(y) = Others(x)
  BY <1>1 DEF PageRecords, Others
<1> HIDE DEF x, y
<1>5. /\ active \in Seq(Pages) /\ inactive \in Seq(Pages)
      /\ NoTwice(active) /\ NoTwice(inactive)
      /\ p \notin ToSet(active) /\ p \in ToSet(inactive)
      /\ \A r \in Reclaimers : p \notin Private(rc[r])
  BY <1>2, OfLists DEF x
<1>6. /\ active' \in Seq(Pages) /\ NoTwice(active')
      /\ ToSet(active') = ToSet(active) \cup {p} /\ Len(active') = Len(active) + 1
  BY <1>2, <1>5, Prepended
<1>7. /\ inactive' \in Seq(Pages) /\ NoTwice(inactive')
      /\ ToSet(inactive') = ToSet(inactive) \ {p} /\ Len(inactive') = Len(inactive) - 1
  BY <1>2, <1>5, DroppedOne
<1>8. nr_active' = Len(active') /\ nr_inactive' = Len(inactive')
  BY <1>2, <1>6, <1>7, FreeCounts
<1>9. /\ ToSet(active') = IF y.lru /\ y.active THEN ToSet(active) \cup {p}
                          ELSE ToSet(active) \ {p}
      /\ ToSet(inactive') = IF y.lru /\ ~y.active THEN ToSet(inactive) \cup {p}
                            ELSE ToSet(inactive) \ {p}
  BY <1>2, <1>4, <1>6, <1>7
<1>10. /\ ~y.touched /\ y.lru
       /\ y.mapped => y.cached
       /\ ~y.cached => ~y.dirty
       /\ y.count - Others(y) = x.count - Others(x)
  BY <1>1, <1>2, <1>4
<1> QED
  BY <1>2, <1>3, <1>4, <1>5, <1>6, <1>7, <1>8, <1>9, <1>10, LruStep DEF x

\* A dying page leaves its list.
LEMMA DeletePageKeeps ==
    ASSUME ReclaimConstants, ReclaimIInv, NEW p \in Pages, DeletePage(p)
    PROVE  ReclaimIInv'
<1> DEFINE x == pg[p]
           y == [x EXCEPT !.lru = FALSE]
<1>1. /\ pg \in [Pages -> PageRecords] /\ x \in PageRecords
      /\ x.mapped => x.cached
      /\ x.touched => x.active
      /\ ~x.cached => ~x.dirty
  BY OfPage
<1>2. /\ x.lru /\ x.count = 0 /\ LruFree
      /\ active' = Drop(active, {p}) /\ inactive' = Drop(inactive, {p})
      /\ IF x.active THEN nr_active' = nr_active - 1 /\ nr_inactive' = nr_inactive
         ELSE nr_inactive' = nr_inactive - 1 /\ nr_active' = nr_active
      /\ UNCHANGED <<lru_lock, rc, statVars>>
  BY DEF DeletePage
<1>3. pg' = [pg EXCEPT ![p] = y]
  BY <1>1 DEF DeletePage
<1>4. /\ y \in PageRecords /\ ~y.lru /\ y.active = x.active
      /\ y.referenced = x.referenced /\ y.ref_cnt = x.ref_cnt
      /\ y.cached = x.cached /\ y.dirty = x.dirty /\ y.mapped = x.mapped
      /\ y.touched = x.touched /\ y.count = x.count /\ Others(y) = Others(x)
  BY <1>1 DEF PageRecords, Others
<1> HIDE DEF x, y
<1>5. /\ active \in Seq(Pages) /\ inactive \in Seq(Pages)
      /\ NoTwice(active) /\ NoTwice(inactive)
      /\ p \in ToSet(active) <=> x.active
      /\ p \in ToSet(inactive) <=> ~x.active
      /\ \A r \in Reclaimers : p \notin Private(rc[r])
  BY <1>2, OfLists DEF x
<1>6. /\ active' \in Seq(Pages) /\ NoTwice(active')
      /\ ToSet(active') = ToSet(active) \ {p}
      /\ x.active => Len(active') = Len(active) - 1
      /\ ~x.active => Len(active') = Len(active)
  BY <1>2, <1>5, DroppedOne
<1>7. /\ inactive' \in Seq(Pages) /\ NoTwice(inactive')
      /\ ToSet(inactive') = ToSet(inactive) \ {p}
      /\ ~x.active => Len(inactive') = Len(inactive) - 1
      /\ x.active => Len(inactive') = Len(inactive)
  BY <1>2, <1>5, DroppedOne
<1>8. nr_active' = Len(active') /\ nr_inactive' = Len(inactive')
  <2>1. nr_active = Len(active) /\ nr_inactive = Len(inactive)
    BY <1>2, FreeCounts
  <2> QED
    BY <1>2, <1>6, <1>7, <2>1
<1>9. /\ ToSet(active') = IF y.lru /\ y.active THEN ToSet(active) \cup {p}
                          ELSE ToSet(active) \ {p}
      /\ ToSet(inactive') = IF y.lru /\ ~y.active THEN ToSet(inactive) \cup {p}
                            ELSE ToSet(inactive) \ {p}
  BY <1>4, <1>6, <1>7
<1>10. /\ y.mapped => y.cached
       /\ ~y.cached => ~y.dirty
       /\ y.touched => y.active
       /\ ~(y.count > 0)
       /\ y.count - Others(y) = x.count - Others(x)
       /\ y.touched => /\ x.touched /\ y.referenced = x.referenced
                       /\ y.active = x.active /\ y.ref_cnt = x.ref_cnt
  BY <1>1, <1>2, <1>4
<1> QED
  BY <1>2, <1>3, <1>4, <1>5, <1>6, <1>7, <1>8, <1>9, <1>10, LruStep DEF x

\* The timer ages the pages of the active list.
LEMMA TimerActiveKeeps ==
    ASSUME ReclaimConstants, ReclaimIInv, TimerActive
    PROVE  ReclaimIInv'
<1>1. /\ RTypeOK /\ LocalsInv /\ ListsInv /\ OwnedInv /\ KeptInv /\ CacheInv
      /\ NoLostWrite /\ TouchRemembered /\ Framed /\ CountInv /\ DeactivatedCounted
  BY DEF ReclaimIInv, Framed
<1>2. /\ active' = active /\ inactive' = inactive /\ nr_active' = nr_active
      /\ nr_inactive' = nr_inactive /\ lru_lock' = lru_lock /\ rc' = rc
      /\ num_active_to_inactive' = num_active_to_inactive
      /\ num_inactive_to_free' = num_inactive_to_free /\ deactivated' = deactivated
  BY DEF TimerActive, zoneVars, statVars
<1>3. pg \in [Pages -> PageRecords]
  BY <1>1 DEF RTypeOK
<1>4. ASSUME NEW p \in Pages
      PROVE  /\ pg'[p] \in PageRecords /\ pg'[p].lru = pg[p].lru
             /\ pg'[p].active = pg[p].active /\ pg'[p].touched = pg[p].touched
             /\ pg'[p].mapped = pg[p].mapped /\ pg'[p].cached = pg[p].cached
             /\ pg'[p].dirty = pg[p].dirty /\ pg'[p].count = pg[p].count
             /\ Others(pg'[p]) = Others(pg[p])
             /\ ~pg[p].lru => pg'[p] = pg[p]
             /\ pg[p].referenced \/ pg[p].ref_cnt > 0 =>
                   pg'[p].referenced \/ pg'[p].ref_cnt > 0
  <2> DEFINE n == Aged(pg[p].ref_cnt, Bit(p))
  <2>1. pg[p] \in PageRecords /\ pg[p].ref_cnt \in 0..MaxRefCnt
    BY <1>3 DEF PageRecords
  <2>2. /\ n \in 0..MaxRefCnt
        /\ pg[p].referenced \/ pg[p].ref_cnt > 0 => n > 0
    <3>1. Bit(p) \in {0, 1, -1} /\ (pg[p].referenced => Bit(p) # 0)
      BY DEF Bit, ReclaimConstants
    <3>2. n \in 0..MaxRefCnt /\ (pg[p].ref_cnt > 0 \/ Bit(p) # 0 => n > 0)
      BY <2>1, <3>1, AgedFacts
    <3> HIDE DEF n
    <3> QED
      BY <3>1, <3>2
  <2>3. CASE TimerAges(p)
    <3>1. pg[p].lru
      BY <2>3 DEF TimerAges
    <3> HIDE DEF n
    <3>2. pg'[p] = [pg[p] EXCEPT !.ref_cnt = n, !.referenced = FALSE]
      BY <2>3 DEF TimerActive, n
    <3> QED
      BY <2>1, <2>2, <3>1, <3>2 DEF PageRecords, Others
  <2>4. CASE ~TimerAges(p)
    <3>1. pg'[p] = pg[p]
      BY <2>4 DEF TimerActive
    <3> QED
      BY <2>1, <3>1
  <2> QED
    BY <2>3, <2>4
<1>5. pg' \in [Pages -> PageRecords]
  <2>1. pg' = [p \in Pages |-> pg'[p]]
    BY DEF TimerActive
  <2> QED
    BY <1>4, <2>1
<1>6. RTypeOK'
  BY <1>1, <1>2, <1>5 DEF RTypeOK
<1>7. \A s \in Reclaimers : \A q \in Private(rc[s]) : pg'[q] = pg[q]
  <2>1. \A s \in Reclaimers : rc[s] \in Locals
    BY <1>1 DEF RTypeOK
  <2>2. \A s \in Reclaimers : \A q \in Private(rc[s]) : q \in Pages /\ ~pg[q].lru
    BY <1>1, <2>1, PrivatePages DEF OwnedInv
  <2> QED
    BY <1>4, <2>2
<1>8. \A s \in Reclaimers : \A q \in Private(rc[s]) :
         /\ pg'[q].lru = pg[q].lru /\ pg'[q].active = pg[q].active
         /\ pg'[q].ref_cnt = pg[q].ref_cnt
         /\ rc[s].pc \in {"test", "free"} /\ rc[s].page = q => Undisturbed(pg[q], pg'[q])
  BY <1>7 DEF Undisturbed
<1>9. \A q \in Pages :
         pg'[q].count > 0 => pg'[q].lru \/ (pg[q].count > 0 /\ ~pg[q].lru)
  BY <1>4
<1>10. \A q \in Pages : pg'[q].count - Others(pg'[q]) = pg[q].count - Others(pg[q])
  BY <1>4
<1>11. Framed'
  BY <1>1, <1>2, <1>6, <1>8, <1>9, <1>10, KernelFrame
<1>12. ListsInv'
  BY <1>1, <1>2, <1>4 DEF ListsInv
<1>13. CacheInv' /\ NoLostWrite'
  BY <1>1, <1>4 DEF CacheInv, NoLostWrite
<1>14. TouchRemembered'
  BY <1>1, <1>2, <1>4 DEF TouchRemembered
<1>15. CountInv' /\ DeactivatedCounted'
  <2>1. \A l : Batch(l)' = Batch(l)
    BY <1>2 DEF Batch, At
  <2>2. CountInv'
    BY <1>1, <1>2, <2>1 DEF CountInv
  <2>3. DeactivatedCounted'
    BY <1>1, <1>2 DEF DeactivatedCounted, At
  <2> QED
    BY <2>2, <2>3
<1> QED
  BY <1>6, <1>11, <1>12, <1>13, <1>14, <1>15 DEF ReclaimIInv, Framed

\* Every step of the rest of the kernel keeps the invariant.
LEMMA KernelKeeps ==
    ASSUME ReclaimConstants, ReclaimIInv, NEW p \in Pages, Kernel(p)
    PROVE  ReclaimIInv'
BY ReadInKeeps, ActivateKeeps, MarkKeeps, MapKeeps, UnmapKeeps, PinKeeps, SetDirtyKeeps,
   UnpinKeeps, EndWritebackKeeps, TruncateKeeps, DeletePageKeeps DEF Kernel

\* Nothing changes.
LEMMA StutterKeeps ==
    ASSUME ReclaimIInv, UNCHANGED pvars
    PROVE  ReclaimIInv'
<1>1. /\ active' = active /\ inactive' = inactive /\ nr_active' = nr_active
      /\ nr_inactive' = nr_inactive /\ lru_lock' = lru_lock /\ pg' = pg /\ rc' = rc
      /\ num_active_to_inactive' = num_active_to_inactive
      /\ num_inactive_to_free' = num_inactive_to_free /\ deactivated' = deactivated
  BY DEF pvars, zoneVars, statVars
<1>2. /\ RTypeOK /\ LocalsInv /\ LockInv /\ ListsInv /\ OwnedInv /\ FlagsInv /\ KeptInv
      /\ CacheInv /\ NoLostWrite /\ TreeInv /\ RefCountExact /\ AgeKept
      /\ TouchRemembered /\ CountInv /\ DeactivatedCounted
  BY DEF ReclaimIInv
<1>3. /\ RTypeOK' /\ LocalsInv' /\ LockInv' /\ ListsInv' /\ OwnedInv' /\ FlagsInv'
      /\ KeptInv'
  BY <1>1, <1>2
     DEF RTypeOK, LocalsInv, LockInv, ListsInv, OwnedInv, FlagsInv, KeptInv
<1>4. CacheInv' /\ NoLostWrite' /\ TreeInv' /\ AgeKept' /\ TouchRemembered'
  BY <1>1, <1>2 DEF CacheInv, NoLostWrite, TreeInv, AgeKept, TouchRemembered, At
<1>5. RefCountExact'
  <2>1. \A p : RefsOf(p)' = RefsOf(p)
    BY <1>1 DEF RefsOf, Isolates
  <2> QED
    BY <1>1, <1>2, <2>1 DEF RefCountExact
<1>6. CountInv' /\ DeactivatedCounted'
  <2>1. \A l : Batch(l)' = Batch(l)
    BY <1>1 DEF Batch, At
  <2>2. CountInv'
    BY <1>1, <1>2, <2>1 DEF CountInv
  <2>3. DeactivatedCounted'
    BY <1>1, <1>2 DEF DeactivatedCounted, At
  <2> QED
    BY <2>2, <2>3
<1> QED
  BY <1>3, <1>4, <1>5, <1>6 DEF ReclaimIInv

\* The invariant is kept by every step.
LEMMA NextKeeps ==
    ASSUME ReclaimConstants, ReclaimIInv, [PNext]_pvars
    PROVE  ReclaimIInv'
<1>1. CASE \E p \in Pages : Kernel(p)
  BY <1>1, KernelKeeps
<1>2. CASE TimerActive
  BY <1>2, TimerActiveKeeps
<1>3. CASE TimerInactive \/ UNCHANGED pvars
  BY <1>3, StutterKeeps DEF TimerInactive
<1>4. CASE \E r \in Reclaimers : Step(r) \/ ShrinkZone(r)
  BY <1>4, ReclaimerKeeps
<1> QED
  BY <1>1, <1>2, <1>3, <1>4 DEF PNext

\* At the start everything is free.
LEMMA InitHolds ==
    ASSUME ReclaimConstants, PInit
    PROVE  ReclaimIInv
<1>1. /\ active = <<>> /\ inactive = <<>> /\ nr_active = 0 /\ nr_inactive = 0
      /\ lru_lock = Nobody /\ pg = [p \in Pages |-> FreePage]
      /\ rc = [r \in Reclaimers |-> Idle]
      /\ num_active_to_inactive = 0 /\ num_inactive_to_free = 0 /\ deactivated = 0
  BY DEF PInit
<1>2. /\ <<>> \in Seq(Pages) /\ ToSet(<<>>) = {} /\ NoTwice(<<>>) /\ Len(<<>>) = 0
  BY DEF ToSet, NoTwice
<1>3. /\ FreePage \in PageRecords /\ ~FreePage.lru /\ ~FreePage.touched
      /\ ~FreePage.mapped /\ ~FreePage.dirty /\ FreePage.count = 0
  BY DEF FreePage, PageRecords, ReclaimConstants
<1>4. "idle" \in PCs
  BY DEF PCs
<1>5. /\ Idle.pc = "idle" /\ Idle.then = "idle" /\ Idle.hold = <<>> /\ Idle.inact = <<>>
      /\ Idle.act = <<>> /\ Idle.back = <<>> /\ Idle.pvec = <<>> /\ Idle.page = Nobody
      /\ Idle.moved = 0 /\ Idle.deact = 0 /\ Idle.freed = 0
  BY DEF Idle
<1>6. Idle \in Locals
  BY <1>2, <1>4 DEF Idle, Locals
<1>7. Stages(Idle)
  BY <1>5 DEF Stages, Stage, Scanning, OnPage, PuttingBack, Deactivating
<1>8. Neat(Idle) /\ Private(Idle) = {}
  <2>1. NoTwice(Idle.hold) /\ ToSet(Idle.hold) = {}
    BY <1>2, <1>5
  <2> QED
    BY <1>5, <1>6, <2>1, OnlyHold
<1>9. /\ \A p \in Pages : pg[p] = FreePage
      /\ \A r \in Reclaimers : rc[r] = Idle
  BY <1>1
<1>10. RTypeOK
  BY <1>1, <1>2, <1>3, <1>6 DEF RTypeOK, ReclaimConstants
<1>11. LocalsInv /\ OwnedInv /\ KeptInv
  BY <1>3, <1>7, <1>8, <1>9 DEF LocalsInv, OwnedInv, KeptInv
<1>12. LockInv
  BY <1>1, <1>5, <1>9 DEF LockInv, PuttingBack, ReclaimConstants
<1>13. ListsInv
  BY <1>1, <1>2, <1>3, <1>9 DEF ListsInv
<1>14. FlagsInv
  BY <1>2, <1>5, <1>9 DEF FlagsInv, ReclaimConstants
<1>15. CacheInv /\ NoLostWrite /\ TouchRemembered
  BY <1>3, <1>9 DEF CacheInv, NoLostWrite, TouchRemembered
<1>16. TreeInv /\ AgeKept
  BY <1>5, <1>9 DEF TreeInv, AgeKept, At
<1>17. RefCountExact
  <2> SUFFICES ASSUME NEW p \in Pages
               PROVE  pg[p].count = Others(pg[p]) + Total(Shares(p, rc))
    BY <1>8, <1>9, <1>10, CountIs DEF RTypeOK
  <2>1. Others(FreePage) = 0
    BY DEF FreePage, Others
  <2>2. Occurrences(p, <<>>) = 0
    BY FS_EmptySet DEF Occurrences
  <2>3. \A r \in Reclaimers : Mine(p, rc[r]) = 0
    BY <1>5, <1>8, <1>9, <2>2 DEF Mine
  <2>4. Total(Shares(p, rc)) = 0
    BY <2>3, TotalNothing DEF Shares
  <2> QED
    BY <1>3, <1>9, <2>1, <2>4
<1>18. CountInv
  <2>1. \A l : Batch(l) = 0
    BY <1>1 DEF Batch
  <2> QED
    BY <1>1, <1>2, <2>1 DEF CountInv
<1>19. DeactivatedCounted
  <2> DEFINE f == [r \in Reclaimers |->
                      rc[r].deact + IF At(r, "put_active") THEN 0 ELSE rc[r].moved]
  <2>1. f \in [Reclaimers -> Nat] /\ \A r \in Reclaimers : f[r] = 0
    BY <1>5, <1>9 DEF At
  <2> HIDE DEF f
  <2>2. Total(f) = 0
    BY <2>1, TotalNothing
  <2>3. Plus(0, 0) = 0
    BY PlusIs DEF ReclaimConstants
  <2> QED
    BY <1>1, <2>2, <2>3 DEF DeactivatedCounted, f
<1> QED
  BY <1>10, <1>11, <1>12, <1>13, <1>14, <1>15, <1>16, <1>17, <1>18, <1>19
     DEF ReclaimIInv

-----------------------------------------------------------------------------
(* What follows.                                                           *)

\* The inductive invariant of page reclaim, for any finite set of reclaimers
\* (shrink_active_list, shrink_inactive_list, the timer and the rest of the
\* kernel in any order).
THEOREM ReclaimCorrect == PSpec => []ReclaimIInv
<1>1. PInit => ReclaimIInv
  BY ReclaimConstants, InitHolds
<1>2. ReclaimIInv /\ [PNext]_pvars => ReclaimIInv'
  BY ReclaimConstants, NextKeeps
<1> QED
  BY <1>1, <1>2, PTL DEF PSpec

\* The pages a reclaimer has isolated are those of Private.
LEMMA IsolatesAre ==
    ASSUME ReclaimConstants, ReclaimIInv, NEW r \in Reclaimers, NEW p \in Pages
    PROVE  /\ p \in ToSet(Isolates(r)) <=> p \in Private(rc[r])
           /\ p \in Private(rc[r]) => Occurrences(p, Isolates(r)) = 1
<1>1. rc[r] \in Locals /\ Neat(rc[r])
  BY OfReclaimer
<1>2. Isolates(r) = OneList(rc[r])
  BY DEF Isolates, OneList
<1>3. ToSet(OneList(rc[r])) = Private(rc[r]) /\ Occurrences(p, OneList(rc[r])) \in {0, 1}
  BY <1>1, MineIs
<1>4. OneList(rc[r]) \in Seq(Pages)
  <2>1. /\ rc[r].hold \in Seq(Pages) /\ rc[r].inact \in Seq(Pages)
        /\ rc[r].act \in Seq(Pages) /\ rc[r].back \in Seq(Pages)
        /\ rc[r].page \in Pages \cup {Nobody}
    BY <1>1, ListTypes
  <2> DEFINE w == IF rc[r].page = Nobody THEN <<>> ELSE <<rc[r].page>>
  <2>2. w \in Seq(Pages)
    BY <2>1
  <2> HIDE DEF w
  <2>3. rc[r].hold \o rc[r].inact \o rc[r].act \o rc[r].back \o w \in Seq(Pages)
    BY <2>1, <2>2
  <2> QED
    BY <2>3 DEF OneList, w
<1>5. Occurrences(p, OneList(rc[r])) = 0 <=> p \notin ToSet(OneList(rc[r]))
  BY <1>4, Occurs
<1> QED
  BY <1>2, <1>3, <1>5

\* A page is in one place.
LEMMA InOnePlace ==
    ASSUME ReclaimConstants, ReclaimIInv
    PROVE  OneHome
<1> SUFFICES ASSUME NEW p \in Pages
             PROVE  LET onLists == Occurrences(p, active) + Occurrences(p, inactive)
                        holders == {r \in Reclaimers : p \in ToSet(Isolates(r))}
                    IN  /\ onLists = (IF pg[p].lru THEN 1 ELSE 0)
                        /\ pg[p].lru => (pg[p].active <=> p \in ToSet(active))
                        /\ Cardinality(holders) <= (IF pg[p].lru THEN 0 ELSE 1)
                        /\ \A r \in holders : Occurrences(p, Isolates(r)) = 1
                        /\ \A r \in Reclaimers :
                              /\ p \in ToSet(rc[r].inact) \cup ToSet(rc[r].act) =>
                                    pg[p].active
                              /\ At(r, "locked") /\ rc[r].page = p => ~pg[p].active
  BY DEF OneHome
<1> DEFINE holders == {r \in Reclaimers : p \in ToSet(Isolates(r))}
<1>1. OwnedInv /\ FlagsInv
  BY DEF ReclaimIInv
<1>2. /\ active \in Seq(Pages) /\ inactive \in Seq(Pages)
      /\ NoTwice(active) /\ NoTwice(inactive)
      /\ p \in ToSet(active) <=> pg[p].lru /\ pg[p].active
      /\ p \in ToSet(inactive) <=> pg[p].lru /\ ~pg[p].active
  BY OfLists
<1>3. Occurrences(p, active) + Occurrences(p, inactive) = (IF pg[p].lru THEN 1 ELSE 0)
  <2>1. /\ p \in ToSet(active) => Occurrences(p, active) = 1
        /\ p \notin ToSet(active) => Occurrences(p, active) = 0
    BY <1>2, Occurs
  <2>2. /\ p \in ToSet(inactive) => Occurrences(p, inactive) = 1
        /\ p \notin ToSet(inactive) => Occurrences(p, inactive) = 0
    BY <1>2, Occurs
  <2> QED
    BY <1>2, <2>1, <2>2
<1>4. holders = {r \in Reclaimers : p \in Private(rc[r])}
  BY IsolatesAre
<1>5. Cardinality(holders) <= (IF pg[p].lru THEN 0 ELSE 1)
  <2>1. CASE holders = {}
    <3>1. Cardinality(holders) = 0
      BY <2>1, FS_EmptySet
    <3> QED
      BY <3>1
  <2>2. ASSUME NEW s \in holders PROVE Cardinality(holders) = 1 /\ ~pg[p].lru
    <3>1. ~pg[p].lru /\ \A r \in holders : r = s
      BY <1>1, <1>4, <2>2 DEF OwnedInv
    <3>2. holders = {s}
      BY <2>2, <3>1
    <3> QED
      BY <3>1, <3>2, FS_Singleton
  <2> HIDE DEF holders
  <2> QED
    BY <2>1, <2>2
<1>6. \A r \in holders : Occurrences(p, Isolates(r)) = 1
  BY <1>4, IsolatesAre
<1>7. ASSUME NEW r \in Reclaimers
      PROVE  /\ p \in ToSet(rc[r].inact) \cup ToSet(rc[r].act) => pg[p].active
             /\ At(r, "locked") /\ rc[r].page = p => ~pg[p].active
  BY <1>1 DEF FlagsInv, At, Deactivating
<1> QED
  BY <1>2, <1>3, <1>5, <1>6, <1>7

\* Every page is in one place, its flags tell which, and its reference count
\* is the number of its users (isolate_lru_pages, the lists of
\* shrink_active_list and shrink_inactive_list, the pagevec).
THEOREM PagesAccounted == PSpec => []PageInv
<1>1. ReclaimIInv => PageInv
  <2> SUFFICES ASSUME ReclaimIInv PROVE PageInv
    OBVIOUS
  <2>1. OneHome /\ RefCountExact
    BY ReclaimConstants, InOnePlace DEF ReclaimIInv
  <2>2. PTypeOK
    BY DEF ReclaimIInv, RTypeOK, PTypeOK, PageRecords, Locals
  <2> QED
    BY <2>1, <2>2 DEF PageInv
<1> QED
  BY <1>1, ReclaimCorrect, PTL

\* No write to a page is lost: it leaves the page cache clean (the order of the
\* tests of remove_mapping, under tree_lock).
THEOREM WritesKept == PSpec => []NoLostWrite
<1>1. ReclaimIInv => NoLostWrite
  BY DEF ReclaimIInv
<1> QED
  BY <1>1, ReclaimCorrect, PTL

\* The ageing timer does not touch a page whose counter a reclaimer is about to
\* write (timer1_routine, cs2456_ref_cnt_update).
THEOREM AgesKept == PSpec => []AgeKept
<1>1. ReclaimIInv => AgeKept
  BY DEF ReclaimIInv
<1> QED
  BY <1>1, ReclaimCorrect, PTL

\* An access to an active page is in its bit or its counter until
\* shrink_active_list looks at it.
THEOREM TouchesRemembered == PSpec => []TouchRemembered
<1>1. ReclaimIInv => TouchRemembered
  BY DEF ReclaimIInv
<1> QED
  BY <1>1, ReclaimCorrect, PTL

\* The lengths that memstats prints are the zone's counters, and every page
\* that was deactivated is counted, for any number of reclaimers.
THEOREM CountsAgree == PSpec => [](CountersAgree /\ DeactivatedCounted)
<1>1. ReclaimIInv => CountersAgree /\ DeactivatedCounted
  BY FreeCounts DEF ReclaimIInv, CountersAgree, memstats
<1> QED
  BY <1>1, ReclaimCorrect, PTL

-----------------------------------------------------------------------------
(* The pages one reclaimer has freed.                                      *)

\* A step that neither frees a page nor reports the pages freed.
Quiet(k) ==
    /\ num_inactive_to_free' = num_inactive_to_free /\ reclaimed' = reclaimed
    /\ rc'[k].freed = rc[k].freed /\ rc[k].pc # "store" /\ rc'[k].pc # "store"

\* Such are the steps of shrink_active_list.
LEMMA QuietActive ==
    ASSUME rc \in [Reclaimers -> Locals], NEW k \in Reclaimers, shrink_active_list(k)
    PROVE  Quiet(k)
<1>1. rc[k] \in Locals
  OBVIOUS
<1>2. CASE HoldRead(k)
  BY <1>1, <1>2 DEF HoldRead, Quiet, At, Locals, statVars
<1>3. CASE HoldWrite(k)
  BY <1>1, <1>3 DEF HoldWrite, Quiet, At, Locals, statVars
<1>4. CASE HoldDone(k)
  BY <1>1, <1>4 DEF HoldDone, Quiet, At, Locals, statVars
<1>5. CASE PutInactive(k)
  BY <1>1, <1>5 DEF PutInactive, Quiet, At, Locals, statVars
<1>6. CASE PutInactiveDone(k)
  BY <1>1, <1>6 DEF PutInactiveDone, Quiet, At, Locals, statVars
<1>7. CASE PutActive(k)
  BY <1>1, <1>7 DEF PutActive, Quiet, At, Locals, statVars
<1>8. CASE ShrinkActiveEnd(k)
  BY <1>1, <1>8 DEF ShrinkActiveEnd, Quiet, At, Locals, statVars
<1> QED
  BY <1>2, <1>3, <1>4, <1>5, <1>6, <1>7, <1>8 DEF shrink_active_list

\* The page that is looked at goes on or is kept.
LEMMA QuietPage ==
    ASSUME rc \in [Reclaimers -> Locals], NEW k \in Reclaimers, rc[k].pc # "store",
           NEW y, NEW l, l # "store", GoOn(k, y, l) \/ Keep(k, y)
    PROVE  Quiet(k)
<1>1. rc[k] \in Locals
  OBVIOUS
<1>2. CASE GoOn(k, y, l)
  BY <1>1, <1>2 DEF GoOn, Quiet, Locals, statVars
<1>3. CASE Keep(k, y)
  BY <1>1, <1>3 DEF Keep, Quiet, Locals, statVars
<1> QED
  BY <1>2, <1>3

\* The steps of shrink_page_list before the page is freed.
LEMMA QuietPageList ==
    ASSUME rc \in [Reclaimers -> Locals], NEW k \in Reclaimers,
           shrink_page_list(k), ~FreeIt(k)
    PROVE  Quiet(k)
<1>1. rc[k] \in Locals
  OBVIOUS
<1>2. CASE PageLock(k)
  <2> DEFINE p == Last(rc[k].hold)
  <2>1. /\ rc[k].pc = "scan" /\ UNCHANGED statVars
        /\ \/ rc' = [rc EXCEPT ![k].hold = Front(@), ![k].page = p, ![k].pc = "locked"]
           \/ rc' = [rc EXCEPT ![k].hold = Front(@), ![k].back = <<p>> \o @]
    BY <1>2 DEF PageLock, At
  <2>2. CASE rc' = [rc EXCEPT ![k].hold = Front(@), ![k].page = p, ![k].pc = "locked"]
    BY <1>1, <2>1, <2>2 DEF Quiet, Locals, statVars
  <2>3. CASE rc' = [rc EXCEPT ![k].hold = Front(@), ![k].back = <<p>> \o @]
    BY <1>1, <2>1, <2>3 DEF Quiet, Locals, statVars
  <2> QED
    BY <2>1, <2>2, <2>3
<1>3. ASSUME rc[k].pc # "store", KeepLocked(k) \/ ActivateLocked(k) PROVE Quiet(k)
  <2>1. \E y : Keep(k, y)
    BY <1>3 DEF KeepLocked, ActivateLocked
  <2>2. "free" # "store"
    OBVIOUS
  <2> QED
    BY <1>3, <2>1, <2>2, QuietPage
<1>4. CASE PageReferenced(k)
  <2> DEFINE Done == \/ \E y : Keep(k, y)
                     \/ KeepLocked(k)
                     \/ /\ \E b : rc' = [rc EXCEPT ![k].pc = "unmap", ![k].bit = b]
                        /\ UNCHANGED statVars
  <2>1. rc[k].pc # "store" /\ Done
    <3>1. rc[k].pc = "locked"
      BY <1>4 DEF PageReferenced, At
    <3> DEFINE p == rc[k].page
               page == [pg[p] EXCEPT !.referenced = FALSE]
    <3>2. \/ KeepLocked(k)
          \/ \E young \in {FALSE, pg[p].mapped} :
                LET ref == pg[p].referenced \/ young
                IN  \/ ref /\ Keep(k, [page EXCEPT !.active = TRUE])
                    \/ /\ rc' = [rc EXCEPT ![k].pc = "unmap",
                                           ![k].bit = IF ref THEN 1 ELSE 0]
                       /\ UNCHANGED statVars
      BY <1>4 DEF PageReferenced
    <3> HIDE DEF page
    <3>3. CASE KeepLocked(k)
      BY <3>1, <3>3
    <3>4. ASSUME NEW young \in {FALSE, pg[p].mapped},
                 LET ref == pg[p].referenced \/ young
                 IN  \/ ref /\ Keep(k, [page EXCEPT !.active = TRUE])
                     \/ /\ rc' = [rc EXCEPT ![k].pc = "unmap",
                                            ![k].bit = IF ref THEN 1 ELSE 0]
                        /\ UNCHANGED statVars
          PROVE  Done
      <4> DEFINE ref == pg[p].referenced \/ young
                 b == IF ref THEN 1 ELSE 0
      <4>1. CASE Keep(k, [page EXCEPT !.active = TRUE])
        BY <4>1
      <4>2. CASE /\ rc' = [rc EXCEPT ![k].pc = "unmap", ![k].bit = b]
                 /\ UNCHANGED statVars
        <5> HIDE DEF b
        <5> QED
          BY <4>2
      <4> QED
        BY <3>4, <4>1, <4>2
    <3> QED
      BY <3>1, <3>2, <3>3, <3>4
  <2>2. CASE \E y : Keep(k, y)
    <3>1. "free" # "store"
      OBVIOUS
    <3> QED
      BY <2>1, <2>2, <3>1, QuietPage
  <2>3. CASE /\ \E b : rc' = [rc EXCEPT ![k].pc = "unmap", ![k].bit = b]
             /\ UNCHANGED statVars
    <3>1. PICK b : rc' = [rc EXCEPT ![k].pc = "unmap", ![k].bit = b]
      BY <2>3
    <3>2. UNCHANGED statVars
      BY <2>3
    <3>3. rc'[k].pc = "unmap" /\ rc'[k].freed = rc[k].freed
      BY <1>1, <3>1 DEF Locals
    <3> QED
      BY <2>1, <3>2, <3>3 DEF Quiet, statVars
  <2> QED
    BY <1>3, <2>1, <2>2, <2>3
<1>5. CASE PageUnmap(k)
  <2>1. /\ rc[k].pc # "store" /\ "dirty" # "store"
        /\ \/ KeepLocked(k) \/ ActivateLocked(k)
           \/ \E y : GoOn(k, y, "dirty")
    BY <1>5 DEF PageUnmap, At
  <2> QED
    BY <1>3, <2>1, QuietPage
<1>6. CASE PageOut(k)
  <2>1. /\ rc[k].pc # "store" /\ "remove" # "store" /\ "written" # "store"
        /\ \/ KeepLocked(k) \/ ActivateLocked(k)
           \/ \E y : GoOn(k, y, "remove") \/ GoOn(k, y, "written") \/ Keep(k, y)
    BY <1>6 DEF PageOut, At
  <2> QED
    BY <1>3, <2>1, QuietPage
<1>7. CASE PageWritten(k)
  <2>1. /\ rc[k].pc # "store" /\ "remove" # "store"
        /\ KeepLocked(k) \/ \E y : GoOn(k, y, "remove")
    BY <1>7 DEF PageWritten, At
  <2> QED
    BY <1>3, <2>1, QuietPage
<1>8. CASE RemoveMapping(k)
  <2>1. /\ rc[k].pc # "store" /\ "test" # "store" /\ "free" # "store"
        /\ KeepLocked(k) \/ \E y : GoOn(k, y, "test") \/ GoOn(k, y, "free")
    BY <1>8 DEF RemoveMapping, RemoveTest, At
  <2> QED
    BY <1>3, <2>1, QuietPage
<1> QED
  BY <1>2, <1>4, <1>5, <1>6, <1>7, <1>8 DEF shrink_page_list

\* And the steps of shrink_inactive_list before the pages are reported.
LEMMA QuietInactive ==
    ASSUME rc \in [Reclaimers -> Locals], NEW k \in Reclaimers, Stages(rc[k]),
           \/ ScanDone(k) \/ PutBack(k) \/ NextBatch(k) \/ ShrinkInactiveEnd(k)
           \/ Release(k) \/ Relock(k) \/ ShrinkZone(k)
    PROVE  Quiet(k)
<1>1. rc[k] \in Locals
  OBVIOUS
<1>2. CASE ScanDone(k)
  BY <1>1, <1>2 DEF ScanDone, Quiet, At, Locals, statVars
<1>3. CASE PutBack(k)
  BY <1>1, <1>3 DEF PutBack, Quiet, At, Locals, statVars
<1>4. ASSUME rc[k].pc # "store", NEW n, Isolate(k, n) PROVE Quiet(k)
  BY <1>1, <1>4 DEF Isolate, Quiet, Locals, statVars
<1>5. CASE NextBatch(k)
  BY <1>4, <1>5 DEF NextBatch, At
<1>6. CASE ShrinkInactiveEnd(k)
  BY <1>1, <1>6 DEF ShrinkInactiveEnd, Quiet, At, Locals, statVars
<1>7. CASE Release(k)
  <2>1. /\ rc[k].pc = "release" /\ UNCHANGED statVars
        /\ rc' = [rc EXCEPT ![k].pvec = <<>>,
                            ![k].pc = IF rc[k].then \in {"idle", "report"}
                                      THEN rc[k].then ELSE "relock"]
    BY <1>7 DEF Release, At
  <2> QED
    BY <1>1, <2>1 DEF Quiet, Locals, statVars
<1>8. CASE Relock(k)
  <2>1. rc[k].then \in PuttingBack
    BY <1>8 DEF Relock, At, Stages
  <2> QED
    BY <1>1, <1>8, <2>1 DEF Relock, Quiet, At, Locals, statVars, PuttingBack
<1>9. CASE ShrinkZone(k)
  <2>1. ASSUME NEW n, ShrinkActive(k, n) PROVE Quiet(k)
    BY <1>1, <2>1 DEF ShrinkActive, Quiet, At, Locals, statVars
  <2> QED
    BY <1>4, <1>9, <2>1 DEF ShrinkZone, ShrinkInactive, At
<1> QED
  BY <1>2, <1>3, <1>5, <1>6, <1>7, <1>8, <1>9

\* With one reclaimer nothing it frees is forgotten.
LEMMA FreedKeeps ==
    ASSUME ReclaimConstants, ReclaimIInv, NEW k, Reclaimers = {k}, FreedKept, [PNext]_pvars
    PROVE  FreedKept'
<1>1. /\ k \in Reclaimers /\ rc \in [Reclaimers -> Locals] /\ rc[k] \in Locals
      /\ Stages(rc[k])
  BY OfReclaimer
<1>2. /\ rc[k].pc = "store" => rc[k].old = reclaimed
      /\ rc[k].pc # "store" => Plus(num_inactive_to_free, rc[k].freed) = reclaimed
  BY <1>1 DEF FreedKept, At
<1>3. SUFFICES IF rc'[k].pc = "store" THEN rc'[k].old = reclaimed'
               ELSE Plus(num_inactive_to_free', rc'[k].freed) = reclaimed'
  BY DEF FreedKept, At
<1>4. num_inactive_to_free \in Nat /\ num_inactive_to_free < Wrap /\ rc[k].freed \in Nat
  <2>1. num_inactive_to_free \in 0..Wrap - 1
    BY DEF ReclaimIInv, RTypeOK
  <2> QED
    BY <1>1, <2>1 DEF Locals, ReclaimConstants
<1>5. CASE Quiet(k)
  BY <1>2, <1>5 DEF Quiet
<1>6. CASE rc' = rc /\ num_inactive_to_free' = num_inactive_to_free /\ reclaimed' = reclaimed
  BY <1>2, <1>6
<1>7. CASE FreeIt(k)
  <2>1. /\ rc[k].pc = "free" /\ rc'[k].pc = "scan" /\ rc'[k].freed = rc[k].freed + 1
        /\ num_inactive_to_free' = num_inactive_to_free /\ reclaimed' = Plus(reclaimed, 1)
    BY <1>1, <1>7 DEF FreeIt, At, Locals
  <2>2. Plus(Plus(num_inactive_to_free, rc[k].freed), 1) =
           Plus(num_inactive_to_free, rc[k].freed + 1)
    <3> DEFINE a == num_inactive_to_free
               b == rc[k].freed
    <3>1. a \in Nat /\ b \in Nat /\ 1 \in Nat
      BY <1>4
    <3> HIDE DEF a, b
    <3>2. Plus(Plus(a, b), 1) = Plus(a, b + 1)
      BY <3>1, PlusIs
    <3> QED
      BY <3>2 DEF a, b
  <2> QED
    BY <1>2, <2>1, <2>2
<1>8. CASE ReportRead(k)
  <2>1. /\ rc[k].pc = "report" /\ rc'[k].pc = "store"
        /\ rc'[k].old = Plus(num_inactive_to_free, rc[k].freed) /\ reclaimed' = reclaimed
    BY <1>1, <1>8 DEF ReportRead, ReportSum, At, Locals, statVars
  <2> QED
    BY <1>2, <2>1
<1>9. CASE ReportWrite(k)
  <2>1. /\ rc[k].pc = "store" /\ num_inactive_to_free' = rc[k].old /\ rc'[k] = Idle
        /\ reclaimed' = reclaimed
    BY <1>1, <1>9 DEF ReportWrite, At
  <2>2. Idle.pc = "idle" /\ Idle.freed = 0
    BY DEF Idle
  <2>3. rc[k].old \in Nat /\ rc[k].old < Wrap
    BY <1>1, <2>1 DEF Stages, ReclaimConstants
  <2>4. Plus(rc[k].old, 0) = rc[k].old
    BY <2>3, PlusIs
  <2> QED
    BY <1>2, <2>1, <2>2, <2>4
<1>10. CASE \E p \in Pages : Kernel(p)
  <2>1. UNCHANGED <<rc, statVars>>
    BY <1>10 DEF Kernel, ReadIn, Touch, Map, Unmap, Pin, SetDirty, Unpin, EndWriteback,
                 Truncate, DeletePage
  <2> QED
    BY <1>6, <2>1 DEF statVars
<1>11. CASE TimerActive \/ TimerInactive \/ UNCHANGED pvars
  BY <1>6, <1>11 DEF TimerActive, TimerInactive, pvars, statVars
<1>12. CASE Step(k) \/ ShrinkZone(k)
  BY <1>1, <1>5, <1>7, <1>8, <1>9, <1>12, QuietActive, QuietPageList, QuietInactive
     DEF Step, shrink_inactive_list
<1>13. CASE \E r \in Reclaimers : Step(r) \/ ShrinkZone(r)
  BY <1>12, <1>13
<1> QED
  BY <1>10, <1>11, <1>13 DEF PNext

\* With one reclaimer, kswapd, the numbers of memstats are right: also every
\* page freed is in num_inactive_to_free.  (With two, what one adds may be
\* overwritten by the other.)
THEOREM MemstatsRight ==
    ASSUME NEW k, Reclaimers = {k}
    PROVE  PSpec => []Accounting
<1>1. PInit => FreedKept
  <2> SUFFICES ASSUME PInit PROVE FreedKept
    OBVIOUS
  <2>1. \A r \in Reclaimers : rc[r] = Idle
    BY DEF PInit
  <2>2. Idle.pc = "idle" /\ Idle.freed = 0
    BY DEF Idle
  <2>3. Plus(0, 0) = 0
    BY ReclaimConstants, PlusIs DEF ReclaimConstants
  <2> QED
    BY <2>1, <2>2, <2>3 DEF PInit, FreedKept, At
<1>2. ReclaimIInv /\ FreedKept /\ [PNext]_pvars => FreedKept'
  BY ReclaimConstants, FreedKeeps
<1>3. ReclaimIInv /\ FreedKept => Accounting
  <2> SUFFICES ASSUME ReclaimIInv, FreedKept PROVE Accounting
    OBVIOUS
  <2>1. CountersAgree /\ DeactivatedCounted
    BY FreeCounts DEF ReclaimIInv, CountersAgree, memstats
  <2>2. FreedCounted
    <3> SUFFICES ASSUME \A r \in Reclaimers : At(r, "idle")
                 PROVE  num_inactive_to_free = reclaimed
      BY DEF FreedCounted
    <3>1. rc[k].pc = "idle" /\ Stages(rc[k])
      BY ReclaimConstants, OfReclaimer DEF At
    <3>2. rc[k].freed = 0
      BY <3>1 DEF Stages, Stage, Scanning, OnPage
    <3>3. Plus(num_inactive_to_free, 0) = reclaimed
      BY <3>1, <3>2 DEF FreedKept, At
    <3>4. num_inactive_to_free \in Nat /\ num_inactive_to_free < Wrap
      <4>1. num_inactive_to_free \in 0..Wrap - 1
        BY DEF ReclaimIInv, RTypeOK
      <4> QED
        BY <4>1, ReclaimConstants DEF ReclaimConstants
    <3> QED
      BY ReclaimConstants, <3>3, <3>4, PlusIs
  <2> QED
    BY <2>1, <2>2 DEF Accounting
<1> QED
  BY <1>1, <1>2, <1>3, ReclaimCorrect, PTL DEF PSpec

=============================================================================
