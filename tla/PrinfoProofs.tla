----------------------------- MODULE PrinfoProofs -----------------------------
(***************************************************************************)
(* Proofs about prinfo: what the loops over the children and over the      *)
(* ring of the siblings have found when they end, for any family, whatever *)
(* the head of the ring is read as.                                        *)
(***************************************************************************)
EXTENDS Prinfo, FiniteSetTheorems, TLAPS

-----------------------------------------------------------------------------
(* The inductive invariant.                                                *)

\* The tasks, which do not change during the call.
Family ==
    /\ family \in Seq(Pids) /\ IsInjective(family) /\ me \in 1..Len(family)
    /\ children \in Seq(Pids) /\ IsInjective(children)
    /\ head_pid \in Nat

Least(x, S) == x \in S /\ \A y \in S : x <= y
Largest(x, S) == x \in S /\ \A y \in S : y <= x

\* The children before the cursor.
Seen(n) == {children[k] : k \in 1..n}
NSeen == IF list = 0 THEN Len(children) ELSE list - 1

\* The part of the ring from the task to the cursor, and the pids read there.
Visited == IF list > me THEN me + 1..list - 1
           ELSE (me + 1..Len(family)) \cup (0..list - 1)
MetSoFar == {PidAt(i) : i \in Visited}

\* The pid of the first sibling the loop looks at, and all the pids it reads.
First == PidAt(After(me))
Met == (ToSet(family) \ {my_pid}) \cup {head_pid}

\* The two answers that a set of pids gives about the siblings.
Older(x, S) == Largest(x, {0} \cup {p \in S : p < my_pid})
Younger(x, S) == IF First > my_pid THEN Least(x, {p \in S : p > my_pid}) ELSE x = First

ChildrenInv ==
    pc = "children" =>
        /\ list \in 0..Len(children)
        /\ IsFiniteSet(TicksOf(Seen(NSeen))) /\ cutime = Times(Seen(NSeen))
        /\ NSeen > 0 => Least(youngest_pid, Seen(NSeen))
SiblingsInv ==
    pc = "siblings" =>
        /\ list \in 0..Len(family)
        /\ Older(oldest_of_youngers, MetSoFar)
        /\ Visited # {} => Younger(youngest_of_olders, MetSoFar)
        /\ list = me => Visited # {}
AnswerInv ==
    /\ pc \in {"siblings", "done"} =>
          /\ info.cutime = Times(ToSet(children))
          /\ children # <<>> => Least(info.youngest_child, ToSet(children))
    /\ pc = "done" =>
          Older(info.older_sibling, Met) /\ Younger(info.younger_sibling, Met)

\* The locals and the answer have their types.
Typed ==
    /\ pc \in {"start", "children", "siblings", "done"}
    /\ {list, youngest_pid, youngest_of_olders, oldest_of_youngers, cutime} \subseteq Nat
    /\ info \in [youngest_child : Nat, younger_sibling : Nat, older_sibling : Nat,
                 cutime : Nat]

PrinfoInv ==
    /\ Family
    /\ Typed
    /\ ChildrenInv
    /\ SiblingsInv
    /\ AnswerInv

-----------------------------------------------------------------------------
(* Numbers.                                                                *)

\* Reducing an index of a ring of n + 1 places.
LEMMA NextIndex ==
    ASSUME NEW n \in Nat, NEW i \in 0..n
    PROVE  (i + 1) % (n + 1) = IF i = n THEN 0 ELSE i + 1
<1> DEFINE m == n + 1
           a == i + 1
           d == a \div m
           r == a % m
<1>1. m \in Nat \ {0} /\ a \in 1..m
  OBVIOUS
<1> HIDE DEF m, a
<1>2. a = m * d + r /\ r \in 0..m - 1 /\ d \in Int
  BY <1>1, SMT
<1> HIDE DEF d, r
<1>3. \A k \in Int : ~(0 < m * k /\ m * k < m)
  <2> SUFFICES ASSUME NEW k \in Int, 0 < m * k, m * k < m PROVE FALSE
    OBVIOUS
  <2>1. k > 0
    BY <1>1, SMT
  <2>2. k >= 1
    BY <2>1
  <2>3. m * k >= m
    BY <1>1, <2>2, SMT
  <2> QED
    BY <1>1, <2>3
<1>4. CASE a = m
  <2>1. m * (1 - d) = r
    <3>1. m * (1 - d) = m - m * d
      BY <1>1, <1>2, SMT
    <3> QED
      BY <1>1, <1>2, <1>4, <3>1
  <2>2. 1 - d \in Int
    BY <1>2
  <2>3. ~(0 < r /\ r < m)
    BY <1>3, <2>1, <2>2
  <2>4. r = 0
    BY <1>1, <1>2, <2>3
  <2> QED
    BY <1>4, <2>4 DEF m, a, r
<1>5. CASE a # m
  <2>1. m * (-d) = -(m * d) /\ -d \in Int /\ m * d = a - r
    BY <1>1, <1>2, SMT
  <2>2. ~(0 < a - r /\ a - r < m) /\ ~(0 < r - a /\ r - a < m)
    <3>1. m * (-d) = r - a
      BY <1>1, <1>2, <2>1
    <3> QED
      BY <1>2, <1>3, <2>1, <3>1
  <2>3. r = a
    BY <1>1, <1>2, <1>5, <2>2
  <2> QED
    BY <1>5, <2>3 DEF m, a, r
<1> QED
  BY <1>4, <1>5

\* The time of one more task.
LEMMA TimesAdd ==
    ASSUME PrinfoConstants, NEW S, IsFiniteSet(TicksOf(S)), NEW x \in Pids, x \notin S
    PROVE  /\ IsFiniteSet(TicksOf(S \cup {x})) /\ Times(S \cup {x}) = Times(S) + UTime[x]
           /\ Times(S \cup {x}) \in Nat
<1> DEFINE Heap(y) == {y} \X (1..UTime[y])
           T == TicksOf(S)
           U == TicksOf(S \cup {x})
<1>1. IsFiniteSet(Heap(x)) /\ Cardinality(Heap(x)) = UTime[x] /\ UTime[x] \in Nat
  <2>1. IsFiniteSet({x}) /\ Cardinality({x}) = 1
    BY FS_Singleton
  <2>2. UTime[x] \in Nat /\ IsFiniteSet(1..UTime[x]) /\ Cardinality(1..UTime[x]) = UTime[x]
    <3>1. UTime[x] \in Nat /\ 1 \in Int
      BY DEF PrinfoConstants
    <3> QED
      BY <3>1, FS_Interval
  <2>3. IsFiniteSet(Heap(x)) /\ Cardinality(Heap(x)) = Cardinality({x}) * Cardinality(1..UTime[x])
    BY <2>1, <2>2, FS_Product
  <2> QED
    BY <2>1, <2>2, <2>3
<1>2. \A y \in S : Heap(y) \cap Heap(x) = {}
  OBVIOUS
<1>3. T = UNION {Heap(y) : y \in S} /\ U = UNION {Heap(y) : y \in S \cup {x}}
  BY DEF TicksOf
<1> HIDE DEF Heap, T, U
<1>4. U = T \cup Heap(x) /\ T \cap Heap(x) = {}
  BY <1>2, <1>3
<1>5. IsFiniteSet(T)
  BY DEF T
<1>6. /\ IsFiniteSet(U)
      /\ Cardinality(U) = Cardinality(T) + Cardinality(Heap(x)) - Cardinality({})
  BY <1>1, <1>4, <1>5, FS_Union
<1>7. Cardinality({}) = 0 /\ Cardinality(T) \in Nat /\ Cardinality(U) \in Nat
  BY <1>5, <1>6, FS_EmptySet, FS_CardinalityType
<1>8. Cardinality(U) = Cardinality(T) + UTime[x]
  BY <1>1, <1>6, <1>7
<1> QED
  BY <1>6, <1>7, <1>8 DEF Times, T, U

\* The tasks of a family are positive numbers, and different.
LEMMA FamilyFacts ==
    ASSUME PrinfoConstants, Family
    PROVE  /\ Len(family) \in Nat \ {0} /\ Len(children) \in Nat
           /\ \A i \in 1..Len(family) : family[i] \in Nat \ {0}
           /\ \A i, j \in 1..Len(family) : family[i] = family[j] => i = j
           /\ \A i \in 1..Len(children) : children[i] \in Pids /\ children[i] \in Nat
           /\ \A i, j \in 1..Len(children) : children[i] = children[j] => i = j
           /\ ToSet(children) = Seen(Len(children))
           /\ children = <<>> <=> Len(children) = 0
           /\ my_pid \in Nat \ {0} /\ head_pid \in Nat /\ me \in 1..Len(family)
<1>1. /\ Len(family) \in Nat /\ DOMAIN family = 1..Len(family)
      /\ \A i \in 1..Len(family) : family[i] \in Pids
  BY DEF Family
<1>2. /\ Len(children) \in Nat /\ DOMAIN children = 1..Len(children)
      /\ \A i \in 1..Len(children) : children[i] \in Pids
      /\ children = <<>> <=> Len(children) = 0
  BY DEF Family
<1>3. me \in 1..Len(family) /\ head_pid \in Nat /\ Pids \subseteq Nat \ {0}
  BY DEF Family, PrinfoConstants
<1>4. Len(family) # 0
  BY <1>1, <1>3
<1>5. ToSet(children) = Seen(Len(children))
  BY <1>2 DEF ToSet, Seen
<1> QED
  BY <1>1, <1>2, <1>3, <1>4, <1>5 DEF Family, IsInjective, my_pid

-----------------------------------------------------------------------------
(* The loops.                                                              *)

\* One more task of the ring is looked at.
LEMMA VisitedMore ==
    ASSUME PrinfoConstants, Family, list \in 0..Len(family), list # me,
           UNCHANGED taskVars, list' = After(list)
    PROVE  /\ list' \in 0..Len(family) /\ Visited' = Visited \cup {list}
           /\ MetSoFar' = MetSoFar \cup {PidAt(list)}
           /\ Visited # {} <=> list # After(me)
           /\ Visited = {} => PidAt(list) = First
<1> DEFINE n == Len(family)
<1>1. n \in Nat \ {0} /\ me \in 1..n /\ list \in 0..n
  BY FamilyFacts
<1>2. family' = family /\ me' = me /\ head_pid' = head_pid
  BY DEF taskVars
<1>3. /\ After(list) = IF list = n THEN 0 ELSE list + 1
      /\ After(me) = IF me = n THEN 0 ELSE me + 1
  BY <1>1, NextIndex DEF After
<1>4. /\ Visited = IF list > me THEN me + 1..list - 1 ELSE (me + 1..n) \cup (0..list - 1)
      /\ Visited' = IF list' > me THEN me + 1..list' - 1
                    ELSE (me + 1..n) \cup (0..list' - 1)
  BY <1>2 DEF Visited
<1>5. list' = IF list = n THEN 0 ELSE list + 1
  BY <1>3
<1> HIDE DEF n
<1>6. list' \in 0..n /\ Visited' = Visited \cup {list}
  <2>1. CASE list > me /\ list = n
    <3>1. Visited = me + 1..n - 1 /\ list' = 0 /\ Visited' = (me + 1..n) \cup (0..-1)
      BY <1>1, <1>4, <1>5, <2>1
    <3> QED
      BY <1>1, <2>1, <3>1
  <2>2. CASE list > me /\ list # n
    <3>1. Visited = me + 1..list - 1 /\ list' = list + 1 /\ Visited' = me + 1..list
      BY <1>1, <1>4, <1>5, <2>2
    <3> QED
      BY <1>1, <2>2, <3>1
  <2>3. CASE list < me
    <3>1. /\ Visited = (me + 1..n) \cup (0..list - 1) /\ list' = list + 1
          /\ Visited' = (me + 1..n) \cup (0..list)
      BY <1>1, <1>4, <1>5, <2>3
    <3> QED
      BY <1>1, <2>3, <3>1
  <2> QED
    BY <1>1, <2>1, <2>2, <2>3
<1>7. Visited # {} <=> list # After(me)
  <2>1. CASE list = After(me)
    <3>1. CASE me = n
      <4>1. list = 0 /\ Visited = (n + 1..n) \cup (0..-1)
        BY <1>1, <1>3, <1>4, <2>1, <3>1
      <4> QED
        BY <1>1, <2>1, <4>1
    <3>2. CASE me # n
      <4>1. list = me + 1 /\ Visited = me + 1..me
        BY <1>1, <1>3, <1>4, <2>1, <3>2
      <4> QED
        BY <1>1, <2>1, <4>1
    <3> QED
      BY <3>1, <3>2
  <2>2. CASE list # After(me)
    <3>1. CASE list > me
      <4>1. me + 1 \in Visited
        BY <1>1, <1>3, <1>4, <2>2, <3>1
      <4> QED
        BY <2>2, <4>1
    <3>2. CASE list < me /\ list > 0
      <4>1. 0 \in Visited
        BY <1>1, <1>4, <3>2
      <4> QED
        BY <2>2, <4>1
    <3>3. CASE list = 0
      <4>1. n \in Visited
        BY <1>1, <1>3, <1>4, <2>2, <3>3
      <4> QED
        BY <2>2, <4>1
    <3> QED
      BY <1>1, <3>1, <3>2, <3>3
  <2> QED
    BY <2>1, <2>2
<1>8. MetSoFar' = MetSoFar \cup {PidAt(list)}
  <2>1. \A i : PidAt(i)' = PidAt(i)
    BY <1>2 DEF PidAt
  <2> QED
    BY <1>6, <2>1 DEF MetSoFar
<1> QED
  BY <1>6, <1>7, <1>8 DEF First, n

\* Back at the task every other one has been looked at.
LEMMA VisitedAll ==
    ASSUME PrinfoConstants, Family, list = me
    PROVE  MetSoFar = Met
<1> DEFINE n == Len(family)
<1>1. /\ n \in Nat \ {0} /\ me \in 1..n /\ my_pid = family[me]
      /\ \A i, j \in 1..n : family[i] = family[j] => i = j
      /\ \A i \in 1..n : family[i] \in Nat \ {0}
  BY FamilyFacts DEF my_pid
<1>2. Visited = (me + 1..n) \cup (0..me - 1)
  BY <1>1 DEF Visited
<1>3. ToSet(family) = {family[i] : i \in 1..n}
  BY DEF ToSet, Family
<1> HIDE DEF n
<1>4. Visited = {0} \cup {i \in 1..n : i # me}
  BY <1>1, <1>2
<1>5. {PidAt(i) : i \in {j \in 1..n : j # me}} = ToSet(family) \ {my_pid}
  <2>1. \A i \in 1..n : PidAt(i) = family[i]
    BY <1>1 DEF PidAt
  <2>2. \A i \in 1..n : i # me <=> family[i] # my_pid
    BY <1>1
  <2> QED
    BY <1>3, <2>1, <2>2
<1>6. PidAt(0) = head_pid
  BY DEF PidAt
<1> QED
  BY <1>4, <1>5, <1>6 DEF MetSoFar, Met

-----------------------------------------------------------------------------
(* The steps of the call.                                                  *)

\* What only the tasks and the answer decide stays with them.
LEMMA SameFamily ==
    ASSUME Family, UNCHANGED taskVars
    PROVE  /\ Family' /\ my_pid' = my_pid /\ First' = First /\ Met' = Met
           /\ \A x, S : (Older(x, S) <=> Older(x, S)') /\ (Younger(x, S) <=> Younger(x, S)')
  BY DEF taskVars, Family, my_pid, First, PidAt, After, Met, Older, Younger

\* At the start nothing has been looked at.
LEMMA InitInv ==
    ASSUME PrinfoConstants, RInit
    PROVE  PrinfoInv
<1>1. Family
  <2>1. ASSUME NEW n \in Nat, NEW s \in Lists(n)
        PROVE  s \in Seq(Pids) /\ IsInjective(s)
    <3>1. PICK m \in 0..n : s \in [1..m -> Pids]
      BY <2>1 DEF Lists, SeqOf
    <3> QED
      BY <2>1, <3>1 DEF Lists
  <2>2. family \in Lists(MaxFamily) /\ children \in Lists(MaxChildren)
    BY DEF RInit
  <2>3. MaxFamily \in Nat /\ MaxChildren \in Nat
    BY DEF PrinfoConstants
  <2>4. /\ family \in Seq(Pids) /\ IsInjective(family)
        /\ children \in Seq(Pids) /\ IsInjective(children)
    BY <2>1, <2>2, <2>3
  <2>5. me \in 1..Len(family) /\ head_pid \in Nat
    BY <2>4 DEF RInit, PrinfoConstants
  <2> QED
    BY <2>4, <2>5 DEF Family
<1>2. pc = "start" /\ info = prinfo
  BY DEF RInit
<1>3. Typed
  BY DEF RInit, PrinfoConstants, Typed, prinfo
<1> QED
  BY <1>1, <1>2, <1>3 DEF PrinfoInv, ChildrenInv, SiblingsInv, AnswerInv, Typed

\* The loop over the children begins.
LEMMA StartInv ==
    ASSUME PrinfoConstants, PrinfoInv, Start
    PROVE  PrinfoInv'
<1>1. Family /\ Typed
  BY DEF PrinfoInv, Typed
<1>2. /\ pc' = "children" /\ cutime' = 0 /\ UNCHANGED taskVars
      /\ list' = (IF children = <<>> THEN 0 ELSE 1) /\ children' = children
      /\ UNCHANGED <<youngest_pid, youngest_of_olders, oldest_of_youngers, info>>
  BY DEF Start, taskVars
<1>3. Family' /\ Typed'
  BY <1>1, <1>2, SameFamily DEF Typed
<1>4. Len(children) \in Nat /\ (children = <<>> <=> Len(children) = 0)
  BY <1>1, FamilyFacts
<1>5. NSeen' = 0 /\ list' \in 0..Len(children')
  BY <1>2, <1>4 DEF NSeen
<1>6. TicksOf(Seen(0)) = {} /\ Seen(NSeen)' = Seen(0)
  BY <1>2, <1>5 DEF TicksOf, Seen
<1>7. IsFiniteSet(TicksOf(Seen(NSeen)))' /\ Times(Seen(NSeen))' = 0
  <2>1. IsFiniteSet({}) /\ Cardinality({}) = 0
    BY FS_EmptySet
  <2> QED
    BY <1>6, <2>1 DEF Times, TicksOf
<1>8. ChildrenInv'
  BY <1>2, <1>5, <1>7 DEF ChildrenInv
<1>9. SiblingsInv' /\ AnswerInv'
  BY <1>2 DEF SiblingsInv, AnswerInv
<1> QED
  BY <1>3, <1>8, <1>9 DEF PrinfoInv, Typed

\* One more child.
LEMMA ChildInv ==
    ASSUME PrinfoConstants, PrinfoInv, Child
    PROVE  PrinfoInv'
<1> DEFINE n == Len(children)
           c == children[list]
           S == Seen(list - 1)
<1>1. Family /\ Typed /\ ChildrenInv
  BY DEF PrinfoInv, Typed
<1>2. /\ pc = "children" /\ pc' = pc /\ list # 0 /\ UNCHANGED taskVars
      /\ children' = children
      /\ youngest_pid' = (IF list = 1 \/ c < youngest_pid THEN c ELSE youngest_pid)
      /\ cutime' = cutime + UTime[c] /\ list' = (list + 1) % (n + 1)
      /\ UNCHANGED <<youngest_of_olders, oldest_of_youngers, info>>
  BY DEF Child, taskVars, LeastSoFar
<1>3. /\ n \in Nat /\ list \in 1..n /\ NSeen = list - 1 /\ cutime = Times(S)
      /\ IsFiniteSet(TicksOf(S))
      /\ NSeen > 0 => Least(youngest_pid, S)
  BY <1>1, <1>2, FamilyFacts DEF ChildrenInv, NSeen
<1>4. /\ c \in Pids /\ c \in Nat
      /\ \A k \in 1..n : children[k] \in Nat
      /\ \A i, j \in 1..n : children[i] = children[j] => i = j
  BY <1>1, <1>3, FamilyFacts
<1>5. list' = (IF list = n THEN 0 ELSE list + 1)
  BY <1>2, <1>3, NextIndex
<1>6. NSeen' = list /\ list' \in 0..n
  BY <1>2, <1>3, <1>5 DEF NSeen
<1>7. Seen(list) = S \cup {c} /\ Seen(NSeen)' = Seen(list)
  <2>1. 1..list = (1..list - 1) \cup {list}
    BY <1>3
  <2> QED
    BY <1>2, <1>6, <2>1 DEF Seen
<1>8. c \notin S
  <2>1. \A k \in 1..list - 1 : k \in 1..n /\ k # list
    BY <1>3
  <2> QED
    BY <1>3, <1>4, <2>1 DEF Seen
<1> HIDE DEF c, S, n
<1>9. /\ IsFiniteSet(TicksOf(S \cup {c})) /\ Times(S \cup {c}) = Times(S) + UTime[c]
      /\ Times(S \cup {c}) \in Nat
  BY <1>3, <1>4, <1>8, TimesAdd
<1>10. Least(youngest_pid', S \cup {c}) /\ youngest_pid' \in Nat
  <2>1. youngest_pid \in Nat
    BY <1>1 DEF Typed
  <2>2. CASE list = 1
    <3>1. S = {}
      BY <2>2 DEF S, Seen
    <3> QED
      BY <1>2, <1>4, <2>2, <3>1 DEF Least
  <2>3. CASE list # 1
    <3>1. Least(youngest_pid, S)
      BY <1>3, <2>3
    <3>2. \A y \in S : y \in Nat
      <4>1. \A k \in 1..list - 1 : k \in 1..n
        BY <1>3
      <4> QED
        BY <1>4, <4>1 DEF S, Seen
    <3> QED
      BY <1>2, <1>4, <2>1, <2>3, <3>1, <3>2 DEF Least
  <2> QED
    BY <2>2, <2>3
<1>11. Family' /\ Typed'
  <2>1. cutime' \in Nat /\ list' \in Nat
    BY <1>2, <1>3, <1>6, <1>9
  <2> QED
    BY <1>1, <1>2, <1>10, <2>1, SameFamily DEF Typed
<1>12. ChildrenInv'
  <2>1. cutime' = Times(Seen(NSeen))' /\ IsFiniteSet(TicksOf(Seen(NSeen)))'
    BY <1>2, <1>3, <1>7, <1>9 DEF Times, TicksOf
  <2> QED
    BY <1>2, <1>6, <1>7, <1>10, <2>1 DEF ChildrenInv, n
<1>13. SiblingsInv' /\ AnswerInv'
  BY <1>2 DEF SiblingsInv, AnswerInv
<1> QED
  BY <1>11, <1>12, <1>13 DEF PrinfoInv, Typed

\* The answers about the children, and the loop over the ring begins.
LEMMA ChildrenDoneInv ==
    ASSUME PrinfoConstants, PrinfoInv, ChildrenDone
    PROVE  PrinfoInv'
<1>1. Family /\ Typed /\ ChildrenInv
  BY DEF PrinfoInv, Typed
<1>2. /\ pc = "children" /\ pc' = "siblings" /\ list = 0 /\ UNCHANGED taskVars
      /\ info' = [info EXCEPT !.youngest_child = youngest_pid, !.cutime = cutime]
      /\ oldest_of_youngers' = 0 /\ list' = After(me)
      /\ children' = children /\ family' = family /\ me' = me
      /\ UNCHANGED <<youngest_pid, youngest_of_olders, cutime>>
  BY DEF ChildrenDone, taskVars
<1>3. /\ Len(children) \in Nat /\ ToSet(children) = Seen(Len(children))
      /\ children = <<>> <=> Len(children) = 0
      /\ Len(family) \in Nat \ {0} /\ me \in 1..Len(family) /\ my_pid \in Nat \ {0}
  BY <1>1, FamilyFacts
<1>4. /\ cutime = Times(ToSet(children))
      /\ children # <<>> => Least(youngest_pid, ToSet(children))
  <2>1. NSeen = Len(children)
    BY <1>2 DEF NSeen
  <2>2. Len(children) # 0 => Len(children) > 0
    BY <1>3
  <2> QED
    BY <1>1, <1>2, <1>3, <2>1, <2>2 DEF ChildrenInv
<1>5. info'.cutime = cutime /\ info'.youngest_child = youngest_pid
  BY <1>1, <1>2 DEF Typed
<1>6. list' = (IF me = Len(family) THEN 0 ELSE me + 1)
  <2>1. /\ Len(family) \in Nat /\ me \in 0..Len(family)
        /\ list' = (me + 1) % (Len(family) + 1)
    BY <1>2, <1>3 DEF After
  <2> QED
    BY <2>1, NextIndex
<1>7. list' \in 0..Len(family) /\ list' # me
  BY <1>3, <1>6
<1>8. Visited' = {}
  <2>1. CASE me = Len(family)
    <3>1. Visited' = (Len(family) + 1..Len(family)) \cup (0..-1)
      BY <1>2, <1>3, <1>6, <2>1 DEF Visited
    <3> QED
      BY <1>3, <3>1
  <2>2. CASE me # Len(family)
    <3>1. Visited' = me + 1..me
      BY <1>2, <1>3, <1>6, <2>2 DEF Visited
    <3> QED
      BY <1>3, <3>1
  <2> QED
    BY <2>1, <2>2
<1>9. Family' /\ Typed'
  <2>1. info' \in [youngest_child : Nat, younger_sibling : Nat, older_sibling : Nat,
                   cutime : Nat]
    BY <1>1, <1>2 DEF Typed
  <2> QED
    BY <1>1, <1>2, <1>7, <2>1, SameFamily DEF Typed
<1>10. SiblingsInv'
  <2>1. MetSoFar' = {}
    BY <1>8 DEF MetSoFar
  <2>2. Older(oldest_of_youngers, MetSoFar)'
    BY <1>2, <2>1 DEF Older, Largest
  <2> QED
    BY <1>2, <1>7, <1>8, <2>2 DEF SiblingsInv
<1>11. ChildrenInv' /\ AnswerInv'
  <2>1. Times(ToSet(children))' = Times(ToSet(children))
    BY <1>2 DEF Times, TicksOf
  <2> QED
    BY <1>2, <1>4, <1>5, <2>1 DEF ChildrenInv, AnswerInv
<1> QED
  BY <1>9, <1>10, <1>11 DEF PrinfoInv, Typed

\* One more place of the ring.
LEMMA SiblingInv ==
    ASSUME PrinfoConstants, PrinfoInv, Sibling
    PROVE  PrinfoInv'
<1> DEFINE S == MetSoFar
           cnt == PidAt(list)
<1>1. Family /\ Typed /\ SiblingsInv /\ AnswerInv
  BY DEF PrinfoInv, Typed
<1>2. /\ pc = "siblings" /\ pc' = pc /\ list # me /\ list' = After(list)
      /\ UNCHANGED taskVars /\ children' = children /\ family' = family /\ me' = me
      /\ youngest_of_olders' =
            Above(cnt, IF list = After(me) THEN cnt ELSE youngest_of_olders)
      /\ oldest_of_youngers' = Below(cnt)
      /\ UNCHANGED <<youngest_pid, cutime, info>>
  BY DEF Sibling, BackAtStart, taskVars
<1>3. /\ list \in 0..Len(family) /\ Older(oldest_of_youngers, S)
      /\ Visited # {} => Younger(youngest_of_olders, S)
  BY <1>1, <1>2 DEF SiblingsInv
<1>4. /\ list' \in 0..Len(family) /\ Visited' = Visited \cup {list}
      /\ MetSoFar' = S \cup {cnt}
      /\ Visited # {} <=> list # After(me)
      /\ Visited = {} => cnt = First
  BY <1>1, <1>2, <1>3, VisitedMore
<1>5. /\ \A i \in 1..Len(family) : family[i] \in Nat
      /\ my_pid \in Nat /\ head_pid \in Nat /\ me \in 1..Len(family)
      /\ Len(family) \in Nat \ {0}
  BY <1>1, FamilyFacts
<1>6. \A i \in 0..Len(family) : PidAt(i) \in Nat
  BY <1>5 DEF PidAt
<1>7. S \in SUBSET Nat /\ cnt \in Nat /\ First \in Nat
  <2>1. Visited \subseteq 0..Len(family)
    BY <1>3, <1>5 DEF Visited
  <2>2. After(me) \in 0..Len(family)
    BY <1>5, NextIndex DEF After
  <2> QED
    BY <1>3, <1>6, <2>1, <2>2 DEF MetSoFar, First
<1>8. S = {} <=> Visited = {}
  BY DEF MetSoFar
<1>9. youngest_of_olders \in Nat /\ oldest_of_youngers \in Nat
  BY <1>1 DEF Typed
<1> HIDE DEF S, cnt
<1> DEFINE x == youngest_of_olders
           old == oldest_of_youngers
           start == IF S = {} THEN cnt ELSE x
           y == IF cnt > my_pid /\ cnt < start THEN cnt ELSE start
           o == IF cnt < my_pid /\ cnt > old THEN cnt ELSE old
           T == S \cup {cnt}
<1>10. y = youngest_of_olders' /\ o = oldest_of_youngers'
  BY <1>2, <1>4, <1>8 DEF Above, Below
<1>11. /\ Largest(o, {0} \cup {p \in T : p < my_pid}) /\ o \in Nat /\ y \in Nat
       /\ IF First > my_pid THEN Least(y, {p \in T : p > my_pid}) ELSE y = First
  <2>1. Largest(old, {0} \cup {p \in S : p < my_pid})
    BY <1>3 DEF Older
  <2>2. S = {} => cnt = First
    BY <1>4, <1>8
  <2>3. S # {} => IF First > my_pid THEN Least(x, {p \in S : p > my_pid}) ELSE x = First
    BY <1>3, <1>8 DEF Younger
  <2>4. x \in Nat /\ old \in Nat /\ my_pid \in Nat
    BY <1>5, <1>9
  <2>5. start \in Nat /\ (S = {} => start = cnt) /\ (S # {} => start = x)
    BY <1>7, <2>4
  <2>6. /\ y = (IF cnt > my_pid /\ cnt < start THEN cnt ELSE start)
        /\ o = (IF cnt < my_pid /\ cnt > old THEN cnt ELSE old)
        /\ T = S \cup {cnt}
    OBVIOUS
  <2> HIDE DEF x, old, start, y, o, T
  <2>7. Largest(o, {0} \cup {p \in T : p < my_pid}) /\ o \in Nat /\ y \in Nat
    <3>1. /\ old \in {0} \cup {p \in S : p < my_pid}
          /\ \A p \in S : p < my_pid => p <= old
      BY <2>1 DEF Largest
    <3>2. o \in {0} \cup {p \in T : p < my_pid}
      BY <2>6, <3>1
    <3>3. \A p \in T : p < my_pid => p <= o
      BY <1>7, <2>4, <2>6, <3>1
    <3>4. o \in Nat /\ y \in Nat
      BY <1>7, <2>4, <2>5, <2>6
    <3> QED
      BY <3>2, <3>3, <3>4 DEF Largest
  <2>8. CASE S = {}
    <3>1. y = First /\ T = {First}
      BY <1>7, <2>2, <2>4, <2>5, <2>6, <2>8
    <3> QED
      BY <1>7, <2>7, <3>1 DEF Least
  <2>9. CASE S # {} /\ First > my_pid
    <3>1. x \in S /\ x > my_pid /\ \A p \in S : p > my_pid => x <= p
      BY <2>3, <2>9 DEF Least
    <3>2. y = IF cnt > my_pid /\ cnt < x THEN cnt ELSE x
      BY <2>5, <2>6, <2>9
    <3>3. y \in T /\ y > my_pid
      BY <2>6, <3>1, <3>2
    <3>4. \A p \in T : p > my_pid => y <= p
      BY <1>7, <2>4, <2>6, <3>1, <3>2
    <3> QED
      BY <2>7, <2>9, <3>3, <3>4 DEF Least
  <2>10. CASE S # {} /\ ~(First > my_pid)
    <3>1. x = First /\ y = x
      <4>1. x = First
        BY <2>3, <2>10
      <4> QED
        BY <1>7, <2>4, <2>5, <2>6, <2>10, <4>1
    <3> QED
      BY <2>7, <2>10, <3>1
  <2> QED
    BY <2>7, <2>8, <2>9, <2>10
<1> HIDE DEF y, o, T
<1>12. Older(o, T) /\ Younger(y, T)
  BY <1>11 DEF Older, Younger
<1>13. Family' /\ Typed'
  BY <1>1, <1>2, <1>4, <1>10, <1>11, SameFamily DEF Typed
<1>14. SiblingsInv'
  <2>1. /\ Older(oldest_of_youngers, MetSoFar)'
        /\ Younger(youngest_of_olders, MetSoFar)'
    <3>1. MetSoFar' = T
      BY <1>4 DEF T
    <3>2. my_pid' = my_pid /\ First' = First
      BY <1>1, <1>2, SameFamily
    <3> QED
      BY <1>10, <1>12, <3>1, <3>2 DEF Older, Younger
  <2>2. Visited' # {}
    BY <1>4
  <2> QED
    BY <1>2, <1>4, <2>1, <2>2 DEF SiblingsInv
<1>15. ChildrenInv' /\ AnswerInv'
  <2>1. Times(ToSet(children))' = Times(ToSet(children))
    BY <1>2 DEF Times, TicksOf
  <2> QED
    BY <1>1, <1>2, <2>1 DEF ChildrenInv, AnswerInv
<1> QED
  BY <1>13, <1>14, <1>15 DEF PrinfoInv, Typed

\* The answers about the siblings.
LEMMA SiblingsDoneInv ==
    ASSUME PrinfoConstants, PrinfoInv, SiblingsDone
    PROVE  PrinfoInv'
<1>1. Family /\ Typed /\ SiblingsInv /\ AnswerInv
  BY DEF PrinfoInv, Typed
<1>2. /\ pc = "siblings" /\ pc' = "done" /\ list = me /\ UNCHANGED taskVars
      /\ children' = children
      /\ info' = [info EXCEPT !.younger_sibling = youngest_of_olders,
                              !.older_sibling = oldest_of_youngers]
      /\ UNCHANGED <<list, youngest_pid, youngest_of_olders, oldest_of_youngers, cutime>>
  BY DEF SiblingsDone, BackAtStart, taskVars
<1>3. MetSoFar = Met
  BY <1>1, <1>2, VisitedAll
<1>4. Older(oldest_of_youngers, Met) /\ Younger(youngest_of_olders, Met)
  BY <1>1, <1>2, <1>3 DEF SiblingsInv
<1>5. /\ info'.younger_sibling = youngest_of_olders
      /\ info'.older_sibling = oldest_of_youngers
      /\ info'.cutime = info.cutime /\ info'.youngest_child = info.youngest_child
      /\ info' \in [youngest_child : Nat, younger_sibling : Nat, older_sibling : Nat,
                    cutime : Nat]
  BY <1>1, <1>2 DEF Typed
<1>6. Family' /\ Typed'
  BY <1>1, <1>2, <1>5, SameFamily DEF Typed
<1>7. ChildrenInv' /\ SiblingsInv'
  BY <1>2 DEF ChildrenInv, SiblingsInv
<1>8. AnswerInv'
  <2>1. Times(ToSet(children))' = Times(ToSet(children))
    BY <1>2 DEF Times, TicksOf
  <2>2. my_pid' = my_pid /\ First' = First /\ Met' = Met
    BY <1>1, <1>2, SameFamily
  <2>3. Older(info.older_sibling, Met)' /\ Younger(info.younger_sibling, Met)'
    BY <1>4, <1>5, <2>2 DEF Older, Younger
  <2> QED
    BY <1>1, <1>2, <1>5, <2>1, <2>3 DEF AnswerInv
<1> QED
  BY <1>6, <1>7, <1>8 DEF PrinfoInv, Typed

\* Nothing changes.
LEMMA StutterInv ==
    ASSUME PrinfoInv, UNCHANGED rvars
    PROVE  PrinfoInv'
<1>1. Family /\ Typed /\ ChildrenInv /\ SiblingsInv /\ AnswerInv
  BY DEF PrinfoInv
<1>2. /\ UNCHANGED taskVars
      /\ family' = family /\ me' = me /\ children' = children /\ head_pid' = head_pid
      /\ pc' = pc /\ list' = list /\ info' = info /\ cutime' = cutime
      /\ youngest_pid' = youngest_pid /\ youngest_of_olders' = youngest_of_olders
      /\ oldest_of_youngers' = oldest_of_youngers
  BY DEF rvars, taskVars
<1>3. Family' /\ Typed'
  BY <1>1, <1>2, SameFamily DEF Typed
<1>4. ChildrenInv'
  BY <1>1, <1>2 DEF ChildrenInv, NSeen, Seen, TicksOf, Times
<1>5. /\ Visited' = Visited /\ MetSoFar' = MetSoFar
      /\ my_pid' = my_pid /\ First' = First /\ Met' = Met
  BY <1>2 DEF Visited, MetSoFar, PidAt, First, After, my_pid, Met
<1>6. SiblingsInv'
  BY <1>1, <1>2, <1>5 DEF SiblingsInv, Older, Younger
<1>7. AnswerInv'
  <2>1. Times(ToSet(children))' = Times(ToSet(children))
    BY <1>2 DEF Times, TicksOf
  <2> QED
    BY <1>1, <1>2, <1>5, <2>1 DEF AnswerInv, Older, Younger
<1> QED
  BY <1>3, <1>4, <1>6, <1>7 DEF PrinfoInv

\* The inductive invariant of prinfo: what each loop has found so far.
THEOREM PrinfoCorrect == RSpec => []PrinfoInv
<1>1. RInit => PrinfoInv
  BY PrinfoConstants, InitInv
<1>2. PrinfoInv /\ [RNext]_rvars => PrinfoInv'
  BY PrinfoConstants, StartInv, ChildInv, ChildrenDoneInv, SiblingInv, SiblingsDoneInv,
     StutterInv DEF RNext
<1> QED
  BY <1>1, <1>2, PTL DEF RSpec

-----------------------------------------------------------------------------
(* What the caller is told.                                                *)

\* The pids met are numbers, and those of the other siblings are among them.
LEMMA MetFacts ==
    ASSUME PrinfoConstants, Family
    PROVE  /\ Met \subseteq Nat /\ First \in Nat
           /\ \A p \in Met : p = head_pid \/ \E i \in 1..Len(family) : i # me /\ p = family[i]
           /\ \A i \in 1..Len(family) : i # me => family[i] \in Met
           /\ me < Len(family) => First = family[me + 1]
<1>1. /\ \A i \in 1..Len(family) : family[i] \in Nat
      /\ \A i, j \in 1..Len(family) : family[i] = family[j] => i = j
      /\ head_pid \in Nat /\ me \in 1..Len(family) /\ Len(family) \in Nat
      /\ my_pid = family[me]
  BY FamilyFacts DEF my_pid
<1>2. ToSet(family) = {family[i] : i \in 1..Len(family)}
  BY DEF ToSet, Family
<1>3. /\ \A p \in Met : p = head_pid \/ \E i \in 1..Len(family) : i # me /\ p = family[i]
      /\ \A i \in 1..Len(family) : i # me => family[i] \in Met
  BY <1>1, <1>2 DEF Met
<1>4. After(me) = IF me = Len(family) THEN 0 ELSE me + 1
  <2>1. me \in 0..Len(family) /\ After(me) = (me + 1) % (Len(family) + 1)
    BY <1>1 DEF After
  <2> QED
    BY <1>1, <2>1, NextIndex
<1>5. First \in Nat /\ (me < Len(family) => First = family[me + 1])
  BY <1>1, <1>4 DEF First, PidAt
<1>6. Met \subseteq Nat
  BY <1>1, <1>3
<1> QED
  BY <1>3, <1>5, <1>6

\* The answers are those that prinfo.h promises.
LEMMA InvReports ==
    ASSUME PrinfoConstants, PrinfoInv
    PROVE  RelativesReported
<1> SUFFICES ASSUME pc = "done"
             PROVE  RelativesReported
  BY DEF RelativesReported, ChildrenReported, NeighboursReported
<1> DEFINE n == Len(family)
           Smaller == {p \in Met : p < my_pid}
           Larger == {p \in Met : p > my_pid}
<1>1. /\ Family
      /\ info.cutime = Times(ToSet(children))
      /\ children # <<>> => Least(info.youngest_child, ToSet(children))
      /\ Largest(info.older_sibling, {0} \cup Smaller)
      /\ IF First > my_pid THEN Least(info.younger_sibling, Larger)
         ELSE info.younger_sibling = First
  BY DEF PrinfoInv, AnswerInv, Older, Younger
<1>2. /\ \A i \in 1..n : family[i] \in Nat \ {0}
      /\ \A k \in 1..Len(children) : children[k] \in Nat
      /\ ToSet(children) = Seen(Len(children))
      /\ n \in Nat /\ me \in 1..n /\ my_pid = family[me] /\ my_pid \in Nat /\ head_pid \in Nat
  BY <1>1, FamilyFacts DEF my_pid
<1>3. /\ Met \subseteq Nat /\ First \in Nat
      /\ \A p \in Met : p = head_pid \/ \E i \in 1..n : i # me /\ p = family[i]
      /\ \A i \in 1..n : i # me => family[i] \in Met
      /\ me < n => First = family[me + 1]
  BY <1>1, MetFacts
<1>4. ChildrenReported
  BY <1>1 DEF ChildrenReported, Least
<1>5. NeighboursReported
  <2> SUFFICES ASSUME InOrder(family)
               PROVE  /\ me < n /\ ~(my_pid < head_pid /\ head_pid < family[me + 1]) =>
                            info.younger_sibling = family[me + 1]
                      /\ me > 1 /\ ~(family[me - 1] < head_pid /\ head_pid < my_pid) =>
                            info.older_sibling = family[me - 1]
    BY DEF NeighboursReported
  <2>1. \A i, j \in 1..n : i < j => family[i] < family[j]
    <3>1. DOMAIN family = 1..n
      BY <1>1 DEF Family
    <3> QED
      BY <3>1 DEF InOrder
  <2>2. ASSUME me < n, ~(my_pid < head_pid /\ head_pid < family[me + 1])
        PROVE  info.younger_sibling = family[me + 1]
    <3> DEFINE next == family[me + 1]
               y == info.younger_sibling
    <3>1. me + 1 \in 1..n /\ me + 1 # me /\ next \in Nat
      BY <1>2, <2>2
    <3>2. next \in Larger /\ First = next
      BY <1>2, <1>3, <2>1, <2>2, <3>1
    <3>3. \A p \in Larger : next <= p
      <4>1. \A i \in 1..n : i # me /\ family[i] > my_pid => next <= family[i]
        <5>1. ASSUME NEW i \in 1..n, i # me, family[i] > my_pid
              PROVE  next <= family[i]
          <6>1. i > me
            BY <1>2, <2>1, <5>1
          <6>2. i = me + 1 \/ i > me + 1
            BY <1>2, <6>1
          <6> QED
            BY <1>2, <2>1, <3>1, <6>2
        <5> QED
          BY <5>1
      <4> QED
        BY <1>2, <1>3, <2>2, <3>1, <4>1
    <3>4. Least(y, Larger)
      BY <1>1, <1>2, <3>2
    <3>5. y \in Larger /\ y <= next
      BY <3>2, <3>4 DEF Least
    <3>6. y \in Nat /\ next <= y
      BY <1>3, <3>3, <3>5
    <3> HIDE DEF next, y
    <3>7. y = next
      BY <3>1, <3>5, <3>6
    <3> QED
      BY <3>7 DEF next, y
  <2>3. ASSUME me > 1, ~(family[me - 1] < head_pid /\ head_pid < my_pid)
        PROVE  info.older_sibling = family[me - 1]
    <3> DEFINE prev == family[me - 1]
               o == info.older_sibling
    <3>1. me - 1 \in 1..n /\ me - 1 # me /\ prev \in Nat \ {0}
      BY <1>2, <2>3
    <3>2. prev \in Smaller
      BY <1>2, <1>3, <2>1, <3>1
    <3>3. \A p \in Smaller : p <= prev
      <4>1. ASSUME NEW i \in 1..n, i # me, family[i] < my_pid
            PROVE  family[i] <= prev
        <5>1. i < me
          BY <1>2, <2>1, <4>1
        <5>2. i = me - 1 \/ i < me - 1
          BY <1>2, <5>1
        <5> QED
          BY <1>2, <2>1, <3>1, <5>2
      <4>2. ASSUME NEW p \in Smaller, p = head_pid
            PROVE  p <= prev
        BY <1>2, <2>3, <3>1, <4>2
      <4>3. ASSUME NEW p \in Smaller, NEW i \in 1..n, i # me, p = family[i]
            PROVE  p <= prev
        BY <4>1, <4>3
      <4> QED
        BY <1>3, <4>2, <4>3
    <3>4. o \in {0} \cup Smaller /\ prev <= o
      BY <1>1, <3>2 DEF Largest
    <3>5. o # 0
      BY <3>1, <3>4
    <3>6. o \in Nat /\ o <= prev
      BY <1>3, <3>3, <3>4, <3>5
    <3> HIDE DEF prev, o
    <3>7. o = prev
      BY <3>1, <3>4, <3>6
    <3> QED
      BY <3>7 DEF prev, o
  <2> QED
    BY <2>2, <2>3
<1> QED
  BY <1>4, <1>5 DEF RelativesReported

\* For every family of tasks, what prinfo says of the children is about all of
\* them and no other task, and the siblings it names are the neighbours in the
\* list while this is in the order of the pids.
THEOREM RelativesAreReported == RSpec => []RelativesReported
<1>1. PrinfoInv => RelativesReported
  BY PrinfoConstants, InvReports
<1> QED
  BY <1>1, PrinfoCorrect, PTL

=============================================================================
