----------------------------- MODULE GwrrProofs -----------------------------
(***************************************************************************)
(* Proofs about the run queue of the group weighted round robin class, for *)
(* every set of tasks and of groups and every default weight.              *)
(*                                                                         *)
(* GwrrInv is inductive: there is never a second group, so what the list   *)
(* operations do is what they do to one queue of tasks.                    *)
(***************************************************************************)
EXTENDS Gwrr, TLAPS

-----------------------------------------------------------------------------
(* Sequences.                                                              *)

\* A function on 1..n is a sequence of that length.
LEMMA FunctionIsSeq ==
    ASSUME NEW S, NEW n \in Nat, NEW x \in [1..n -> S]
    PROVE  x \in Seq(S) /\ Len(x) = n
  OBVIOUS

\* A sequence that is not empty has a length.
LEMMA NotEmpty ==
    ASSUME NEW S, NEW s \in Seq(S), s # <<>>
    PROVE  Len(s) \in Nat /\ Len(s) >= 1
  OBVIOUS

\* An element in front of a sequence.
LEMMA Prepended ==
    ASSUME NEW S, NEW s \in Seq(S), NEW e \in S
    PROVE  /\ <<e>> \o s \in Seq(S) /\ Len(<<e>> \o s) = Len(s) + 1
           /\ (<<e>> \o s)[1] = e
           /\ \A k \in 1..Len(s) : (<<e>> \o s)[k + 1] = s[k]
  OBVIOUS

\* An element in front of a sequence without it.
LEMMA PrependedOnce ==
    ASSUME NEW S, NEW s \in Seq(S), NEW e \in S, NoTwice(s), e \notin ToSet(s)
    PROVE  /\ NoTwice(<<e>> \o s) /\ ToSet(<<e>> \o s) = ToSet(s) \cup {e}
<1> DEFINE r == <<e>> \o s
<1>1. /\ r \in Seq(S) /\ Len(r) = Len(s) + 1 /\ r[1] = e
      /\ \A k \in 1..Len(s) : r[k + 1] = s[k]
  BY Prepended
<1> HIDE DEF r
<1>2. DOMAIN r = 1..Len(s) + 1 /\ DOMAIN s = 1..Len(s) /\ Len(s) \in Nat
  BY <1>1
<1>3. \A k \in DOMAIN r : \/ k = 1 /\ r[k] = e
                          \/ k - 1 \in DOMAIN s /\ r[k] = s[k - 1]
  BY <1>1, <1>2
<1>4. NoTwice(r)
  <2> SUFFICES ASSUME NEW m \in DOMAIN r, NEW n \in DOMAIN r, r[m] = r[n]
               PROVE  m = n
    BY DEF NoTwice
  <2>1. \A k \in DOMAIN s : s[k] # e
    BY DEF ToSet
  <2> QED
    BY <1>2, <1>3, <2>1 DEF NoTwice
<1>5. ToSet(r) = ToSet(s) \cup {e}
  <2>1. \A x \in ToSet(r) : x \in ToSet(s) \cup {e}
    BY <1>3 DEF ToSet
  <2>2. \A x \in ToSet(s) : x \in ToSet(r)
    <3> SUFFICES ASSUME NEW k \in DOMAIN s PROVE s[k] \in ToSet(r)
      BY DEF ToSet
    <3>1. k + 1 \in DOMAIN r /\ r[k + 1] = s[k]
      BY <1>1, <1>2
    <3> QED
      BY <3>1 DEF ToSet
  <2>3. e \in ToSet(r)
    BY <1>1, <1>2 DEF ToSet
  <2> QED
    BY <2>1, <2>2, <2>3
<1> QED
  BY <1>4, <1>5 DEF r

\* RemoveAt shifts what stands behind the place.
LEMMA RemovedAt ==
    ASSUME NEW S, NEW s \in Seq(S), NEW i \in 1..Len(s)
    PROVE  /\ RemoveAt(s, i) \in Seq(S) /\ Len(RemoveAt(s, i)) = Len(s) - 1
           /\ \A k \in 1..Len(s) - 1 :
                 RemoveAt(s, i)[k] = IF k < i THEN s[k] ELSE s[k + 1]
<1> DEFINE a == SubSeq(s, 1, i - 1)
           b == SubSeq(s, i + 1, Len(s))
<1>1. a \in Seq(S) /\ Len(a) = i - 1 /\ \A k \in 1..(i - 1) : a[k] = s[k]
  OBVIOUS
<1>2. b \in Seq(S) /\ Len(b) = Len(s) - i /\ \A k \in 1..(Len(s) - i) : b[k] = s[k + i]
  OBVIOUS
<1>3. Len(s) \in Nat
  OBVIOUS
<1> HIDE DEF a, b
<1>4. a \o b \in Seq(S) /\ Len(a \o b) = Len(s) - 1
  <2>1. a \o b \in Seq(S)
    BY <1>1, <1>2
  <2>2. Len(a \o b) = Len(a) + Len(b)
    <3>1. ASSUME NEW x \in Seq(S), NEW y \in Seq(S)
          PROVE  Len(x \o y) = Len(x) + Len(y)
      OBVIOUS
    <3> QED
      BY <1>1, <1>2, <3>1
  <2> QED
    BY <1>1, <1>2, <1>3, <2>1, <2>2
<1>5. ASSUME NEW k \in 1..Len(s) - 1
      PROVE  (a \o b)[k] = IF k < i THEN s[k] ELSE s[k + 1]
  <2>1. (a \o b)[k] = IF k <= Len(a) THEN a[k] ELSE b[k - Len(a)]
    BY <1>1, <1>2, <1>3
  <2>2. CASE k < i
    BY <1>1, <2>1, <2>2
  <2>3. CASE ~(k < i)
    <3>1. k - Len(a) \in 1..(Len(s) - i) /\ ~(k <= Len(a)) /\ k - Len(a) + i = k + 1
      BY <1>1, <1>3, <2>3
    <3> QED
      BY <1>2, <2>1, <2>3, <3>1
  <2> QED
    BY <2>2, <2>3
<1> QED
  BY <1>4, <1>5 DEF a, b, RemoveAt

\* RemoveFirst of an element that is there once: the places of the others do
\* not grow.
LEMMA RemovedFirst ==
    ASSUME NEW S, NEW s \in Seq(S), NEW e, NoTwice(s)
    PROVE  LET r == RemoveFirst(s, e)
           IN  /\ r \in Seq(S) /\ NoTwice(r) /\ ToSet(r) = ToSet(s) \ {e}
               /\ \A m \in DOMAIN s, n \in DOMAIN r : s[m] = r[n] => n <= m
<1>1. DOMAIN s = 1..Len(s) /\ Len(s) \in Nat
  OBVIOUS
<1>2. CASE ~ \E i \in 1..Len(s) : s[i] = e
  <2>1. RemoveFirst(s, e) = s
    BY <1>2 DEF RemoveFirst
  <2>2. e \notin ToSet(s)
    BY <1>1, <1>2 DEF ToSet
  <2>3. \A m, n \in DOMAIN s : s[m] = s[n] => n <= m
    BY <1>1 DEF NoTwice
  <2> QED
    BY <2>1, <2>2, <2>3
<1>3. CASE \E i \in 1..Len(s) : s[i] = e
  <2>1. PICK i \in 1..Len(s) : s[i] = e
    BY <1>3
  <2> DEFINE r == RemoveAt(s, i)
  <2>2. RemoveFirst(s, e) = r
    <3>1. {k \in 1..Len(s) : s[k] = e} = {i}
      BY <1>1, <2>1 DEF NoTwice
    <3>2. Min({i}) = i
      BY DEF Min
    <3> QED
      BY <1>3, <3>1, <3>2 DEF RemoveFirst, SelectInSeq
  <2>3. /\ r \in Seq(S) /\ Len(r) = Len(s) - 1
        /\ \A k \in 1..Len(s) - 1 : r[k] = IF k < i THEN s[k] ELSE s[k + 1]
    BY <2>1, RemovedAt
  <2> HIDE DEF r
  <2>4. DOMAIN r = 1..Len(s) - 1
    BY <2>3
  <2> DEFINE from(k) == IF k < i THEN k ELSE k + 1
  <2>5. \A k \in DOMAIN r : /\ r[k] = s[from(k)] /\ from(k) \in DOMAIN s
                            /\ from(k) # i /\ k <= from(k)
    BY <1>1, <2>1, <2>3, <2>4
  <2>6. \A m, n \in DOMAIN r : from(m) = from(n) => m = n
    BY <1>1, <2>1, <2>4
  <2>7. \A m \in DOMAIN s : m # i => \E k \in DOMAIN r : from(k) = m
    <3> SUFFICES ASSUME NEW m \in DOMAIN s, m # i
                 PROVE  \E k \in DOMAIN r : from(k) = m
      OBVIOUS
    <3>1. CASE m < i
      BY <1>1, <2>1, <2>4, <3>1
    <3>2. CASE m > i
      <4>1. m - 1 \in DOMAIN r /\ from(m - 1) = m
        BY <1>1, <2>1, <2>4, <3>2
      <4> QED
        BY <4>1
    <3> QED
      BY <1>1, <2>1, <3>1, <3>2
  <2> HIDE DEF from
  <2>8. NoTwice(r)
    BY <2>5, <2>6 DEF NoTwice
  <2>9. ToSet(r) = ToSet(s) \ {e}
    <3>1. \A k \in DOMAIN s : s[k] = e <=> k = i
      BY <1>1, <2>1 DEF NoTwice
    <3>2. \A x \in ToSet(r) : x \in ToSet(s) /\ x # e
      BY <2>5, <3>1 DEF ToSet
    <3>3. \A x \in ToSet(s) \ {e} : x \in ToSet(r)
      BY <2>5, <2>7, <3>1 DEF ToSet
    <3> QED
      BY <3>2, <3>3
  <2>10. \A m \in DOMAIN s, n \in DOMAIN r : s[m] = r[n] => n <= m
    BY <2>5 DEF NoTwice
  <2> QED
    BY <2>2, <2>3, <2>8, <2>9, <2>10
<1> QED
  BY <1>2, <1>3

\* The first element moved to the end: all others move up by one.
LEMMA Rotated ==
    ASSUME NEW S, NEW s \in Seq(S), s # <<>>, NoTwice(s)
    PROVE  LET r == Append(Tail(s), Head(s))
           IN  /\ r \in Seq(S) /\ r # <<>> /\ NoTwice(r) /\ ToSet(r) = ToSet(s)
               /\ \A m \in DOMAIN s, n \in DOMAIN r :
                     s[m] = r[n] /\ s[m] # Head(s) => n < m
<1> DEFINE r == Append(Tail(s), Head(s))
           L == Len(s)
<1>1. L \in Nat /\ L >= 1 /\ DOMAIN s = 1..L /\ Head(s) = s[1]
  OBVIOUS
<1>2. Tail(s) \in Seq(S) /\ Len(Tail(s)) = L - 1 /\ \A k \in 1..L - 1 : Tail(s)[k] = s[k + 1]
  BY <1>1
<1>3. r \in Seq(S) /\ Len(r) = L
  BY <1>1, <1>2
<1>4. \A k \in 1..L - 1 : r[k] = s[k + 1]
  BY <1>1, <1>2
<1>5. r[L] = s[1]
  BY <1>1, <1>2
<1>6. DOMAIN r = 1..L /\ r # <<>>
  BY <1>1, <1>3
<1> HIDE DEF r, L
<1> DEFINE from(k) == IF k = L THEN 1 ELSE k + 1
<1>7. \A k \in 1..L : r[k] = s[from(k)] /\ from(k) \in 1..L
  BY <1>1, <1>4, <1>5
<1>8. \A m, n \in 1..L : from(m) = from(n) => m = n
  BY <1>1
<1>9. \A m \in 1..L : \E k \in 1..L : from(k) = m
  <2> SUFFICES ASSUME NEW m \in 1..L PROVE \E k \in 1..L : from(k) = m
    OBVIOUS
  <2>1. CASE m = 1
    BY <1>1, <2>1
  <2>2. CASE m # 1
    <3>1. m - 1 \in 1..L /\ from(m - 1) = m
      BY <1>1, <2>2
    <3> QED
      BY <3>1
  <2> QED
    BY <2>1, <2>2
<1>10. \A k \in 1..L : from(k) # 1 => k < from(k)
  BY <1>1
<1> HIDE DEF from
<1>11. NoTwice(r)
  BY <1>1, <1>6, <1>7, <1>8 DEF NoTwice
<1>12. ToSet(r) = ToSet(s)
  <2>1. \A x \in ToSet(r) : x \in ToSet(s)
    BY <1>1, <1>6, <1>7 DEF ToSet
  <2>2. \A x \in ToSet(s) : x \in ToSet(r)
    BY <1>1, <1>6, <1>7, <1>9, SMTT(60) DEF ToSet
  <2> QED
    BY <2>1, <2>2
<1>13. \A m \in DOMAIN s, n \in DOMAIN r : s[m] = r[n] /\ s[m] # s[1] => n < m
  BY <1>1, <1>6, <1>7, <1>10 DEF NoTwice
<1> QED
  BY <1>1, <1>3, <1>6, <1>11, <1>12, <1>13 DEF r
-----------------------------------------------------------------------------
(* The operations on the list of groups.                                   *)

\* The element of a list of one group.
LEMMA Single ==
    ASSUME NEW x \in Seq(group_member), Len(x) = 1
    PROVE  DOMAIN x = {1} /\ x[1] \in group_member
  OBVIOUS

\* A sound list that is not empty is one group with tasks.
LEMMA TheGroup ==
    ASSUME NEW groups, Sound(groups), groups # <<>>
    PROVE  /\ groups \in Seq(group_member) /\ Len(groups) = 1 /\ DOMAIN groups = {1}
           /\ groups[1] \in group_member
           /\ groups[1].tasks_holder \in Seq(Tasks)
           /\ groups[1].tasks_holder # <<>> /\ NoTwice(groups[1].tasks_holder)
           /\ groups[1].weight = GWRR_DWEIGHT
           /\ groups[1].curr_weight \in 0 .. GWRR_DWEIGHT
           /\ Listed(groups) = ToSet(groups[1].tasks_holder)
<1>1. groups \in Seq(group_member) /\ Len(groups) = 1
  <2>1. groups \in Seq(group_member) /\ Len(groups) <= 1
    BY DEF Sound
  <2>2. Len(groups) \in Nat /\ Len(groups) >= 1
    BY <2>1, NotEmpty, Zenon
  <2>3. \A n \in Nat : n <= 1 /\ n >= 1 => n = 1
    OBVIOUS
  <2> QED
    BY <2>1, <2>2, <2>3, Zenon
<1>2. DOMAIN groups = {1} /\ groups[1] \in group_member
  BY <1>1
<1>3. Listed(groups) = ToSet(groups[1].tasks_holder)
  BY <1>2 DEF Listed
<1> QED
  BY <1>1, <1>2, <1>3 DEF Sound, group_member

\* The other way round: what one group must satisfy.
LEMMA SoundGroup ==
    ASSUME NEW r \in group_member, r.tasks_holder # <<>>, NoTwice(r.tasks_holder),
           NEW groups, groups \in Seq(group_member), Len(groups) = 1, groups[1] = r
    PROVE  Sound(groups) /\ groups # <<>> /\ Listed(groups) = ToSet(r.tasks_holder)
<1>1. DOMAIN groups = {1} /\ groups # <<>>
  OBVIOUS
<1>2. Listed(groups) = ToSet(groups[1].tasks_holder)
  BY <1>1 DEF Listed
<1> QED
  BY <1>1, <1>2 DEF Sound

\* A store in the only group.
LEMMA Replaced ==
    ASSUME NEW groups \in Seq(group_member), Len(groups) = 1, NEW r \in group_member
    PROVE  LET new == [groups EXCEPT ![1] = r]
           IN  new \in Seq(group_member) /\ Len(new) = 1 /\ new[1] = r
<1> DEFINE new == [groups EXCEPT ![1] = r]
<1>1. new \in [1..1 -> group_member]
  OBVIOUS
<1>2. new[1] = r
  OBVIOUS
<1> HIDE DEF new
<1>3. new \in Seq(group_member) /\ Len(new) = 1
  BY <1>1, FunctionIsSeq
<1> QED
  BY <1>2, <1>3 DEF new

\* The empty list is sound.
LEMMA SoundEmpty ==
    Sound(<<>>) /\ Listed(<<>>) = {}
<1>1. <<>> \in Seq(group_member) /\ Len(<<>>) = 0 /\ DOMAIN <<>> = {}
  OBVIOUS
<1>2. Listed(<<>>) = {}
  BY <1>1 DEF Listed
<1> QED
  BY <1>1, <1>2 DEF Sound

\* enqueue adds the task to the only group, or makes that group: never a
\* second one.
LEMMA EnqueueIs ==
    ASSUME NEW groups, Sound(groups), NEW t \in Tasks, t \notin Listed(groups), NEW g \in Gids
    PROVE  LET new == enqueue_task_gwrr(groups, t, g)
           IN  Sound(new) /\ Listed(new) = Listed(groups) \cup {t}
<1> DEFINE new == enqueue_task_gwrr(groups, t, g)
<1>1. CASE groups = <<>>
  <2>1. FindGroup(groups, g) = 0
    <3>1. {k \in 1..Len(groups) : groups[k].gid = g} = {} /\ Len(groups) = 0
      BY <1>1
    <3> QED
      BY <3>1 DEF FindGroup, GroupOf, SelectInSeq
  <2>2. new = AddTo(<<NewGroup(g)>> \o groups, 1, t)
    BY <2>1 DEF enqueue_task_gwrr
  <2>3. <<NewGroup(g)>> \o groups = <<NewGroup(g)>>
    BY <1>1
  <2> DEFINE q == <<t>>
             r == [gid |-> g, weight |-> GWRR_DWEIGHT, curr_weight |-> GWRR_DWEIGHT,
                   tasks_holder |-> q]
  <2>4. NewGroup(g).tasks_holder = <<>> /\ <<t>> \o <<>> = q
    BY DEF NewGroup
  <2>5. new = <<r>>
    BY <2>2, <2>3, <2>4 DEF AddTo, NewGroup
  <2>6. q \in Seq(Tasks) /\ q # <<>> /\ NoTwice(q) /\ ToSet(q) = {t}
    BY DEF NoTwice, ToSet
  <2> HIDE DEF q
  <2>7. r \in group_member /\ r.tasks_holder = q
    BY <2>6, GwrrConstants DEF group_member
  <2> HIDE DEF r, new
  <2>8. new \in Seq(group_member) /\ Len(new) = 1 /\ new[1] = r
    BY <2>5, <2>7
  <2>9. Sound(new) /\ Listed(new) = {t}
    BY <2>6, <2>7, <2>8, SoundGroup
  <2> QED
    BY <1>1, <2>9, SoundEmpty DEF new
<1>2. CASE groups # <<>>
  <2> DEFINE s == groups[1].tasks_holder
             q == <<t>> \o s
             r == [groups[1] EXCEPT !.tasks_holder = q]
  <2>1. FindGroup(groups, g) = 1
    <3>1. /\ Len(groups) = 1
          /\ {k \in 1..Len(groups) : groups[k].gid = g} \in {{}, {1}}
      BY <1>2, TheGroup
    <3>2. Min({1}) = 1
      BY DEF Min
    <3> QED
      BY <3>1, <3>2 DEF FindGroup, GroupOf, SelectInSeq
  <2>2. new = [groups EXCEPT ![1] = r]
    BY <2>1 DEF enqueue_task_gwrr, AddTo
  <2>3. s \in Seq(Tasks) /\ NoTwice(s) /\ t \notin ToSet(s)
    BY <1>2, TheGroup
  <2>4. /\ q \in Seq(Tasks) /\ q # <<>> /\ NoTwice(q)
        /\ ToSet(q) = Listed(groups) \cup {t}
    BY <1>2, <2>3, TheGroup, Prepended, PrependedOnce
  <2> HIDE DEF q
  <2>5. r \in group_member /\ r.tasks_holder = q
    BY <1>2, <2>4, TheGroup DEF group_member
  <2> HIDE DEF r, new
  <2>6. new \in Seq(group_member) /\ Len(new) = 1 /\ new[1] = r
    BY <1>2, <2>2, <2>5, TheGroup, Replaced
  <2> QED
    BY <2>4, <2>5, <2>6, SoundGroup DEF new
<1> QED
  BY <1>1, <1>2

\* dequeue takes out at most the task, and the group with its last task; the
\* others do not move back.
LEMMA DequeueIs ==
    ASSUME NEW groups, Sound(groups), NEW t, NEW g
    PROVE  LET new == dequeue_task_gwrr(groups, t, g)
           IN  /\ Sound(new)
               /\ Listed(new) \in {Listed(groups), Listed(groups) \ {t}}
               /\ new # <<>> => /\ groups # <<>>
                                /\ \A m \in DOMAIN groups[1].tasks_holder,
                                      n \in DOMAIN new[1].tasks_holder :
                                      groups[1].tasks_holder[m] = new[1].tasks_holder[n]
                                        => n <= m
<1> DEFINE new == dequeue_task_gwrr(groups, t, g)
           I == {k \in 1..Len(groups) : groups[k].gid = g}
<1>1. groups = <<>> => I = {}
  OBVIOUS
<1>2. groups # <<>> => I \in {{}, {1}}
  BY TheGroup
<1>3. CASE I = {}
  <2>1. new = groups
    BY <1>3 DEF dequeue_task_gwrr, GroupOf, SelectInSeq
  <2>2. groups # <<>> =>
           \A m, n \in DOMAIN groups[1].tasks_holder :
              groups[1].tasks_holder[m] = groups[1].tasks_holder[n] => n <= m
    BY TheGroup DEF NoTwice
  <2> QED
    BY <2>1, <2>2
<1>4. CASE I = {1} /\ groups # <<>>
  <2> DEFINE s == groups[1].tasks_holder
             left == RemoveFirst(s, t)
             r == [groups[1] EXCEPT !.tasks_holder = left]
  <2>1. new = IF left = <<>> THEN RemoveAt(groups, 1) ELSE [groups EXCEPT ![1] = r]
    <3>1. Min({1}) = 1
      BY DEF Min
    <3>2. GroupOf(groups, g) = 1
      BY <1>4, <3>1 DEF GroupOf, SelectInSeq
    <3> QED
      BY <3>2 DEF dequeue_task_gwrr
  <2>2. /\ left \in Seq(Tasks) /\ NoTwice(left) /\ ToSet(left) = Listed(groups) \ {t}
        /\ \A m \in DOMAIN s, n \in DOMAIN left : s[m] = left[n] => n <= m
    BY <1>4, TheGroup, RemovedFirst
  <2> HIDE DEF left
  <2>3. CASE left = <<>>
    <3>1. RemoveAt(groups, 1) \in Seq(group_member) /\ Len(RemoveAt(groups, 1)) = 0
      BY <1>4, TheGroup, RemovedAt
    <3>2. new = <<>>
      BY <2>1, <2>3, <3>1
    <3>3. Listed(groups) \ {t} = {}
      BY <2>2, <2>3 DEF ToSet
    <3> QED
      BY <3>2, <3>3, SoundEmpty
  <2>4. CASE left # <<>>
    <3>1. r \in group_member /\ r.tasks_holder = left
      BY <1>4, <2>2, TheGroup DEF group_member
    <3> HIDE DEF r, new
    <3>2. new \in Seq(group_member) /\ Len(new) = 1 /\ new[1] = r
      BY <1>4, <2>1, <2>4, <3>1, TheGroup, Replaced
    <3>3. Sound(new) /\ new # <<>> /\ Listed(new) = Listed(groups) \ {t}
      BY <2>2, <2>4, <3>1, <3>2, SoundGroup
    <3> QED
      BY <1>4, <2>2, <3>1, <3>2, <3>3 DEF new
  <2> QED
    BY <2>3, <2>4
<1> QED
  BY <1>1, <1>2, <1>3, <1>4

\* pick takes the head of the queue and moves it to the end; no task is lost,
\* and the group chosen is never empty.
LEMMA PickIs ==
    ASSUME NEW groups, Sound(groups)
    PROVE  LET pick == pick_next_task_gwrr(groups)
               s == groups[1].tasks_holder
           IN  /\ Sound(pick[2]) /\ Listed(pick[2]) = Listed(groups)
               /\ groups = <<>> => pick = <<NoTask, <<>>>>
               /\ groups # <<>> =>
                     /\ pick[1] = Head(s) /\ pick[2] # <<>>
                     /\ pick[2][1].tasks_holder = Append(Tail(s), Head(s))
<1> DEFINE pick == pick_next_task_gwrr(groups)
<1>1. CASE groups = <<>>
  BY <1>1, SoundEmpty DEF pick_next_task_gwrr
<1>2. CASE groups # <<>>
  <2> DEFINE round == Refill(groups)
             s == groups[1].tasks_holder
             q == Append(Tail(s), Head(s))
  <2>1. /\ groups \in Seq(group_member) /\ Len(groups) = 1 /\ DOMAIN groups = {1}
        /\ groups[1] \in group_member /\ s \in Seq(Tasks) /\ s # <<>> /\ NoTwice(s)
        /\ groups[1].weight = GWRR_DWEIGHT
        /\ groups[1].curr_weight \in 0 .. GWRR_DWEIGHT
        /\ Listed(groups) = ToSet(s)
    BY <1>2, TheGroup
  <2>2. ASSUME NEW x \in Seq(group_member), Len(x) = 1
        PROVE  Heaviest(x) = IF x[1].curr_weight > 0 THEN 1 ELSE 0
    <3>1. x[1].curr_weight <= x[1].curr_weight /\ ToSet(x) = {x[1]}
      <4>1. DOMAIN x = {1} /\ x[1] \in group_member
        BY <2>2, Single
      <4>2. x[1].curr_weight \in Int
        BY <4>1, GwrrConstants DEF group_member
      <4> QED
        BY <4>1, <4>2 DEF ToSet
    <3>2. {k \in 1..Len(x) : /\ x[k].curr_weight > 0
                             /\ \A h \in ToSet(x) : h.curr_weight <= x[k].curr_weight}
             = IF x[1].curr_weight > 0 THEN {1} ELSE {}
      BY <2>2, <3>1
    <3>3. Min({1}) = 1
      BY DEF Min
    <3> QED
      BY <3>2, <3>3 DEF Heaviest, SelectInSeq
  <2>3. /\ round \in Seq(group_member) /\ Len(round) = 1
        /\ round[1].curr_weight \in 1 .. GWRR_DWEIGHT /\ round[1].tasks_holder = s
    <3>1. CASE groups[1].curr_weight > 0
      <4>1. round = groups
        BY <2>1, <2>2, <3>1 DEF Refill
      <4> QED
        BY <2>1, <3>1, <4>1, GwrrConstants
    <3>2. CASE ~(groups[1].curr_weight > 0)
      <4> DEFINE full == [groups[1] EXCEPT !.curr_weight = groups[1].weight]
      <4>1. round = [k \in {1} |-> full]
        BY <2>1, <2>2, <3>2 DEF Refill
      <4>2. full \in group_member /\ full.curr_weight = GWRR_DWEIGHT /\ full.tasks_holder = s
        <5>1. /\ groups[1].gid \in Gids /\ groups[1].weight = GWRR_DWEIGHT
              /\ groups[1].curr_weight \in 0 .. GWRR_DWEIGHT
              /\ DOMAIN groups[1] = {"gid", "weight", "curr_weight", "tasks_holder"}
          BY <2>1 DEF group_member
        <5>2. GWRR_DWEIGHT \in 0 .. GWRR_DWEIGHT
          BY GwrrConstants
        <5>3. full.curr_weight = GWRR_DWEIGHT /\ full.tasks_holder = s
          BY <2>1, <5>1
        <5>4. full = [gid |-> groups[1].gid, weight |-> GWRR_DWEIGHT,
                      curr_weight |-> GWRR_DWEIGHT, tasks_holder |-> s]
          BY <2>1, <5>1 DEF group_member
        <5> QED
          BY <2>1, <5>1, <5>2, <5>3, <5>4 DEF group_member
      <4> HIDE DEF full
      <4> HIDE DEF round
      <4>3. round \in [1..1 -> group_member]
        BY <4>1, <4>2
      <4>4. round[1] = full
        BY <4>1
      <4>5. round \in Seq(group_member) /\ Len(round) = 1
        BY <4>3, FunctionIsSeq
      <4> QED
        BY <4>2, <4>4, <4>5, GwrrConstants
    <3> QED
      BY <3>1, <3>2
  <2> DEFINE r1 == [round[1] EXCEPT !.curr_weight = @ - 1]
             paid == [round EXCEPT ![1] = r1]
             r2 == [r1 EXCEPT !.tasks_holder = q]
  <2>4. pick = IF paid[1].tasks_holder = <<>> THEN <<NoTask, paid>>
               ELSE <<Head(paid[1].tasks_holder),
                      [paid EXCEPT ![1].tasks_holder = Append(Tail(@), Head(paid[1].tasks_holder))]>>
    <3>1. Heaviest(round) = 1
      BY <2>2, <2>3, GwrrConstants
    <3> QED
      BY <1>2, <3>1 DEF pick_next_task_gwrr
  <2>5. round[1] \in group_member
    BY <2>3, Single
  <2> HIDE DEF round
  <2>6. r1 \in group_member /\ r1.tasks_holder = s
    BY <2>3, <2>5, GwrrConstants DEF group_member
  <2> HIDE DEF r1
  <2>7. paid \in Seq(group_member) /\ Len(paid) = 1 /\ paid[1] = r1
    BY <2>3, <2>6, Replaced
  <2> HIDE DEF paid
  <2>8. pick = <<Head(s), [paid EXCEPT ![1] = r2]>>
    BY <2>1, <2>4, <2>6, <2>7
  <2>9. q \in Seq(Tasks) /\ q # <<>> /\ NoTwice(q) /\ ToSet(q) = ToSet(s)
    BY <2>1, Rotated
  <2> HIDE DEF q
  <2>10. r2 \in group_member /\ r2.tasks_holder = q
    BY <2>6, <2>9 DEF group_member
  <2> HIDE DEF r2
  <2> DEFINE new == [paid EXCEPT ![1] = r2]
  <2>11. new \in Seq(group_member) /\ Len(new) = 1 /\ new[1] = r2
    BY <2>7, <2>10, Replaced
  <2> HIDE DEF new
  <2>12. Sound(new) /\ new # <<>> /\ Listed(new) = ToSet(q)
    BY <2>9, <2>10, <2>11, SoundGroup
  <2>13. pick = <<Head(s), new>>
    BY <2>8 DEF new
  <2> HIDE DEF pick
  <2> QED
    BY <1>2, <2>1, <2>9, <2>10, <2>11, <2>12, <2>13 DEF q, pick
<1> QED
  BY <1>1, <1>2
-----------------------------------------------------------------------------
(* The inductive invariant.                                                *)

\* What the tasks of a sound list are.
LEMMA ListedIs ==
    ASSUME NEW groups, Sound(groups)
    PROVE  Listed(groups) \subseteq Tasks
<1>1. CASE groups = <<>>
  BY <1>1, SoundEmpty
<1>2. CASE groups # <<>>
  <2>1. groups[1].tasks_holder \in Seq(Tasks) /\ Listed(groups) = ToSet(groups[1].tasks_holder)
    BY <1>2, TheGroup
  <2> QED
    BY <2>1 DEF ToSet
<1> QED
  BY <1>1, <1>2

\* kfree gets tasks.
LEMMA FreedIs ==
    ASSUME Sound(groups_holder), NEW t
    PROVE  FreedBy(groups_holder, t) \subseteq Tasks
  BY ListedIs DEF FreedBy

\* activate_task: the task is listed afterwards, or the list is a loop.
LEMMA ActivateIs ==
    ASSUME NEW groups, Sound(groups), NEW t \in Tasks, gid \in [Tasks -> Gids],
           Activate(groups, t)
    PROVE  /\ Sound(groups_holder') /\ hung' \in BOOLEAN
           /\ ~hung' => Listed(groups_holder') = Listed(groups) \cup {t}
<1>1. gid[t] \in Gids
  OBVIOUS
<1>2. CASE t \in Listed(groups)
  BY <1>2 DEF Activate
<1>3. CASE t \notin Listed(groups)
  <2>1. groups_holder' = enqueue_task_gwrr(groups, t, gid[t])
    BY <1>3 DEF Activate
  <2>2. Sound(groups_holder') /\ Listed(groups_holder') = Listed(groups) \cup {t}
    BY <1>1, <1>3, <2>1, EnqueueIs
  <2> QED
    BY <2>2 DEF Activate
<1> QED
  BY <1>2, <1>3

\* schedule() takes out at most its caller, who is not runnable any more.
LEMMA ScheduleKeeps ==
    ASSUME GwrrInv, NEW sleeps \in BOOLEAN, NEW others \in BOOLEAN, Schedule(sleeps, others)
    PROVE  GwrrInv'
<1> USE DEF GwrrInv
<1> DEFINE deactivates == sleeps /\ sched_class[curr] = "gwrr"
           groups == IF deactivates
                     THEN dequeue_task_gwrr(groups_holder, curr, gid[curr])
                     ELSE groups_holder
           pick == IF others THEN <<NoTask, groups>> ELSE pick_next_task_gwrr(groups)
<1>1. /\ Sound(groups)
      /\ Listed(groups) \in {Listed(groups_holder), Listed(groups_holder) \ {curr}}
      /\ ~sleeps => Listed(groups) = Listed(groups_holder)
  BY DequeueIs
<1>2. /\ curr' = pick[1] /\ groups_holder' = pick[2]
      /\ on_rq' = [t \in Tasks |-> on_rq[t] /\ ~(sleeps /\ t = curr)]
      /\ freed' = freed \cup (IF deactivates THEN FreedBy(groups_holder, curr) ELSE {})
      /\ UNCHANGED <<gid, sched_class, hung>> /\ ~hung
  BY DEF Schedule
<1> HIDE DEF groups, deactivates
<1>3. Sound(pick[2]) /\ Listed(pick[2]) = Listed(groups) /\ pick[1] \in Tasks \cup {NoTask}
  <2>1. CASE others
    BY <1>1, <2>1
  <2>2. CASE ~others /\ groups = <<>>
    BY <1>1, <2>2, PickIs
  <2>3. CASE ~others /\ groups # <<>>
    <3>1. Sound(pick[2]) /\ Listed(pick[2]) = Listed(groups)
          /\ pick[1] = Head(groups[1].tasks_holder)
      BY <1>1, <2>3, PickIs
    <3>2. groups[1].tasks_holder \in Seq(Tasks) /\ groups[1].tasks_holder # <<>>
      BY <1>1, <2>3, TheGroup
    <3>3. Head(groups[1].tasks_holder) \in Tasks
      BY <3>2
    <3> QED
      BY <3>1, <3>3
  <2> QED
    BY <2>1, <2>2, <2>3
<1> HIDE DEF pick
<1>4. freed' \subseteq Tasks
  BY <1>2, FreedIs DEF GTypeOK
<1>5. on_rq' \in [Tasks -> BOOLEAN]
  BY <1>2 DEF GTypeOK
<1>6. GTypeOK'
  BY <1>2, <1>3, <1>4, <1>5 DEF GTypeOK, Sound
<1>7. ASSUME NEW t \in Tasks, on_rq'[t], sched_class'[t] = "gwrr"
      PROVE  t \in Listed(groups_holder')
  <2>1. on_rq[t] /\ sched_class[t] = "gwrr" /\ ~(sleeps /\ t = curr)
    BY <1>2, <1>7
  <2>2. t \in Listed(groups_holder)
    BY <1>2, <2>1
  <2>3. t \in Listed(groups)
    BY <1>1, <2>1, <2>2
  <2> QED
    BY <1>2, <1>3, <2>3
<1> QED
  BY <1>2, <1>3, <1>6, <1>7

\* A task wakes up.
LEMMA WakeKeeps ==
    ASSUME GwrrInv, NEW t \in Tasks, Wake(t)
    PROVE  GwrrInv'
<1> USE DEF GwrrInv
<1>1. /\ Sound(groups_holder') /\ hung' \in BOOLEAN
      /\ ~hung' => /\ Listed(groups_holder) \subseteq Listed(groups_holder')
                   /\ sched_class[t] = "gwrr" => t \in Listed(groups_holder')
  BY ActivateIs DEF Wake, GTypeOK
<1>2. /\ UNCHANGED <<gid, sched_class, curr, freed>> /\ ~hung
      /\ on_rq' = [on_rq EXCEPT ![t] = TRUE]
  BY DEF Wake
<1>3. GTypeOK'
  BY <1>1, <1>2 DEF GTypeOK, Sound
<1>4. \A u \in Tasks : u # t => on_rq'[u] = on_rq[u]
  BY <1>2 DEF GTypeOK
<1> QED
  BY <1>1, <1>2, <1>3, <1>4

\* A task comes into the class.
LEMMA JoinKeeps ==
    ASSUME GwrrInv, NEW t \in Tasks, Join(t)
    PROVE  GwrrInv'
<1> USE DEF GwrrInv
<1>1. /\ Sound(groups_holder') /\ hung' \in BOOLEAN
      /\ ~hung' => /\ Listed(groups_holder) \subseteq Listed(groups_holder')
                   /\ on_rq[t] => t \in Listed(groups_holder')
  BY ActivateIs DEF Join, GTypeOK
<1>2. /\ UNCHANGED <<gid, on_rq, freed>> /\ ~hung /\ curr' \in {curr, t}
      /\ sched_class' = [sched_class EXCEPT ![t] = "gwrr"]
  BY DEF Join
<1>3. GTypeOK'
  BY <1>1, <1>2 DEF GTypeOK, Sound
<1>4. \A u \in Tasks : u # t => sched_class'[u] = sched_class[u]
  BY <1>2 DEF GTypeOK
<1> QED
  BY <1>1, <1>2, <1>3, <1>4

\* A task is taken off the queue and put on again: a task that setgid hid from
\* dequeue makes the list a loop.
LEMMA RequeueKeeps ==
    ASSUME GwrrInv, NEW t \in Tasks, Requeue(t)
    PROVE  GwrrInv'
<1> USE DEF GwrrInv
<1> DEFINE groups == dequeue_task_gwrr(groups_holder, t, gid[t])
<1>1. Sound(groups) /\ Listed(groups_holder) \ {t} \subseteq Listed(groups)
  BY DequeueIs
<1>2. /\ UNCHANGED <<gid, sched_class, on_rq, curr>> /\ ~hung /\ Activate(groups, t)
      /\ freed' = freed \cup FreedBy(groups_holder, t)
  BY DEF Requeue
<1> HIDE DEF groups
<1>3. /\ Sound(groups_holder') /\ hung' \in BOOLEAN
      /\ ~hung' => Listed(groups_holder') = Listed(groups) \cup {t}
  BY <1>1, <1>2, ActivateIs DEF GTypeOK
<1>4. freed' \subseteq Tasks
  BY <1>2, FreedIs DEF GTypeOK
<1>5. GTypeOK'
  BY <1>2, <1>3, <1>4 DEF GTypeOK, Sound
<1> QED
  BY <1>1, <1>2, <1>3, <1>5

\* A task leaves the class.
LEMMA LeaveKeeps ==
    ASSUME GwrrInv, NEW t \in Tasks, Leave(t)
    PROVE  GwrrInv'
<1> USE DEF GwrrInv
<1>1. Sound(groups_holder') /\ Listed(groups_holder) \ {t} \subseteq Listed(groups_holder')
  BY DequeueIs DEF Leave
<1>2. /\ UNCHANGED <<gid, on_rq, hung>> /\ ~hung /\ curr' \in {curr, NoTask}
      /\ sched_class' = [sched_class EXCEPT ![t] = "fair"]
      /\ freed' = freed \cup (IF on_rq[t] THEN FreedBy(groups_holder, t) ELSE {})
  BY DEF Leave
<1>3. freed' \subseteq Tasks
  BY <1>2, FreedIs DEF GTypeOK
<1>4. GTypeOK'
  BY <1>1, <1>2, <1>3 DEF GTypeOK, Sound
<1>5. /\ sched_class'[t] = "fair"
      /\ \A u \in Tasks : u # t => sched_class'[u] = sched_class[u]
  BY <1>2 DEF GTypeOK
<1> QED
  BY <1>1, <1>2, <1>4, <1>5

\* setgid changes no list.
LEMMA SetGidKeeps ==
    ASSUME GwrrInv, NEW t \in Tasks, NEW g \in Gids, SetGid(t, g)
    PROVE  GwrrInv'
<1> USE DEF GwrrInv, SetGid
<1>1. gid' \in [Tasks -> Gids]
  BY DEF GTypeOK
<1>2. GTypeOK'
  BY <1>1 DEF GTypeOK
<1> QED
  BY <1>2 DEF Sound

\* The empty list satisfies the invariant.
LEMMA InitGwrr ==
    ASSUME GInit
    PROVE  GwrrInv
<1> USE DEF GInit
<1>1. Sound(groups_holder)
  BY SoundEmpty
<1>2. sched_class \in [Tasks -> {"fair", "gwrr"}] /\ \A t \in Tasks : sched_class[t] = "fair"
  OBVIOUS
<1>3. on_rq \in [Tasks -> BOOLEAN] /\ hung \in BOOLEAN
  OBVIOUS
<1>4. GTypeOK
  BY <1>1, <1>2, <1>3 DEF GTypeOK, Sound
<1> QED
  BY <1>1, <1>2, <1>4 DEF GwrrInv

\* Every step keeps the invariant: one case per action.
LEMMA NextGwrr ==
    ASSUME GwrrInv, [GNext]_gvars
    PROVE  GwrrInv'
<1>1. CASE \E sleeps, others \in BOOLEAN : Schedule(sleeps, others)
  BY <1>1, ScheduleKeeps
<1>2. CASE \E t \in Tasks : Wake(t)
  BY <1>2, WakeKeeps
<1>3. CASE \E t \in Tasks : Join(t)
  BY <1>3, JoinKeeps
<1>4. CASE \E t \in Tasks : Rejoin(t) \/ set_user_nice(t)
  BY <1>4, RequeueKeeps DEF Rejoin, set_user_nice
<1>5. CASE \E t \in Tasks : Quit(t) \/ rt_mutex_setprio(t)
  BY <1>5, LeaveKeeps DEF Quit, rt_mutex_setprio
<1>6. CASE \E t \in Tasks, g \in Gids : SetGid(t, g)
  BY <1>6, SetGidKeeps
<1>7. CASE UNCHANGED gvars
  BY <1>7 DEF gvars, GwrrInv, GTypeOK, Sound
<1> QED
  BY <1>1, <1>2, <1>3, <1>4, <1>5, <1>6, <1>7 DEF GNext

\* The inductive invariant of the run queue.
THEOREM GwrrCorrect == GSpec => []GwrrInv
<1>1. GInit => GwrrInv
  BY InitGwrr
<1>2. GwrrInv /\ [GNext]_gvars => GwrrInv'
  BY NextGwrr
<1> QED
  BY <1>1, <1>2, PTL DEF GSpec

\* Every curr_weight stays between 0 and the weight, whatever is enqueued,
\* picked and refilled.
THEOREM GwrrTypeOK == GSpec => []GTypeOK
<1>1. GwrrInv => GTypeOK
  BY DEF GwrrInv
<1> QED
  BY <1>1, GwrrCorrect, PTL

\* A runnable task of the class is in exactly one place of the queue, unless
\* the list has become a loop.
THEOREM RunnableIsQueued == GSpec => []RunnableIsListed
<1>1. ASSUME GwrrInv PROVE RunnableIsListed
  <2> SUFFICES ASSUME ~hung, NEW t \in Tasks, on_rq[t], sched_class[t] = "gwrr"
               PROVE  /\ 1 \in DOMAIN groups_holder
                      /\ t \in ToSet(groups_holder[1].tasks_holder)
                      /\ \A k \in DOMAIN groups_holder :
                            \A m, n \in DOMAIN groups_holder[k].tasks_holder :
                                groups_holder[k].tasks_holder[m] = t
                                  /\ groups_holder[k].tasks_holder[n] = t => m = n
                      /\ \A k \in DOMAIN groups_holder :
                            t \in ToSet(groups_holder[k].tasks_holder) => k = 1
    BY DEF RunnableIsListed
  <2>1. Sound(groups_holder) /\ t \in Listed(groups_holder)
    BY <1>1 DEF GwrrInv
  <2>2. groups_holder # <<>>
    BY <2>1, SoundEmpty
  <2>3. /\ DOMAIN groups_holder = {1} /\ NoTwice(groups_holder[1].tasks_holder)
        /\ Listed(groups_holder) = ToSet(groups_holder[1].tasks_holder)
    BY <2>1, <2>2, TheGroup
  <2> QED
    BY <2>1, <2>3 DEF NoTwice
<1>2. GwrrInv => RunnableIsListed
  BY <1>1
<1> QED
  BY <1>2, GwrrCorrect, PTL
\* Between two picks dequeue moves nobody back and the pick moves everybody but
\* the picked task one place up.
LEMMA ScheduleMovesUp ==
    ASSUME GwrrInv, NEW sleeps \in BOOLEAN, Schedule(sleeps, FALSE),
           NEW t \in (Listed(groups_holder) \cap Listed(groups_holder')) \ {curr'},
           NEW i \in Place(groups_holder, t), NEW j \in Place(groups_holder', t)
    PROVE  j < i
<1> DEFINE groups == IF sleeps /\ sched_class[curr] = "gwrr"
                     THEN dequeue_task_gwrr(groups_holder, curr, gid[curr])
                     ELSE groups_holder
           s == groups_holder[1].tasks_holder
           q == groups[1].tasks_holder
           r == Append(Tail(q), Head(q))
<1>1. Sound(groups_holder) /\ groups_holder # <<>>
  BY SoundEmpty DEF GwrrInv
<1>2. /\ Sound(groups)
      /\ groups # <<>> => \A m \in DOMAIN s, n \in DOMAIN q : s[m] = q[n] => n <= m
  <2>1. \A m, n \in DOMAIN s : s[m] = s[n] => n <= m
    BY <1>1, TheGroup DEF NoTwice
  <2> QED
    BY <1>1, <2>1, DequeueIs
<1>3. /\ curr' = pick_next_task_gwrr(groups)[1]
      /\ groups_holder' = pick_next_task_gwrr(groups)[2]
  BY DEF Schedule
<1> HIDE DEF groups
<1>4. groups # <<>>
  <2> SUFFICES ASSUME groups = <<>> PROVE FALSE
    OBVIOUS
  <2>1. groups_holder' = <<>>
    BY <1>2, <1>3, PickIs
  <2> QED
    BY <2>1, SoundEmpty
<1>5. curr' = Head(q) /\ groups_holder'[1].tasks_holder = r
  BY <1>2, <1>3, <1>4, PickIs
<1>6. s \in Seq(Tasks) /\ q \in Seq(Tasks) /\ q # <<>> /\ NoTwice(q)
  BY <1>1, <1>2, <1>4, TheGroup
<1>7. /\ r \in Seq(Tasks) /\ ToSet(r) = ToSet(q)
      /\ \A m \in DOMAIN q, n \in DOMAIN r : q[m] = r[n] /\ q[m] # Head(q) => n < m
  BY <1>6, Rotated
<1>8. i \in DOMAIN s /\ s[i] = t
  BY <1>6 DEF Place
<1> HIDE DEF r
<1>9. j \in DOMAIN r /\ r[j] = t /\ t # Head(q)
  BY <1>5, <1>7 DEF Place
<1>10. PICK m \in DOMAIN q : q[m] = t
  BY <1>7, <1>9 DEF ToSet
<1>11. m <= i
  BY <1>2, <1>4, <1>8, <1>10
<1>12. j < m
  BY <1>7, <1>9, <1>10
<1>13. i \in Nat /\ j \in Nat /\ m \in Nat
  BY <1>6, <1>7, <1>8, <1>9, <1>10
<1> QED
  BY <1>11, <1>12, <1>13

\* Round robin: a pick moves every other queued task towards the front.
THEOREM PicksRoundRobin == GSpec => RoundRobin
<1> DEFINE A == (\E sleeps \in BOOLEAN : Schedule(sleeps, FALSE)) =>
                  \A t \in (Listed(groups_holder) \cap Listed(groups_holder')) \ {curr'} :
                      \A i \in Place(groups_holder, t), j \in Place(groups_holder', t) :
                          j < i
<1>1. GwrrInv /\ [GNext]_gvars => [A]_gvars
  BY ScheduleMovesUp
<1>2. GSpec => [][A]_gvars
  BY <1>1, GwrrCorrect, PTL DEF GSpec
<1> QED
  BY <1>2 DEF RoundRobin

\* A runnable task of the class is queued when the pick looks, so that the pick
\* names a task.
LEMMA SchedulePicks ==
    ASSUME GwrrConstants, GwrrInv, NEW sleeps \in BOOLEAN, Schedule(sleeps, FALSE),
           NEW t \in Tasks, on_rq'[t], sched_class'[t] = "gwrr"
    PROVE  curr' # NoTask
<1> DEFINE groups == IF sleeps /\ sched_class[curr] = "gwrr"
                     THEN dequeue_task_gwrr(groups_holder, curr, gid[curr])
                     ELSE groups_holder
           q == groups[1].tasks_holder
<1>1. GwrrInv'
  BY ScheduleKeeps
<1>2. Sound(groups)
  BY DequeueIs DEF GwrrInv
<1>3. /\ curr' = pick_next_task_gwrr(groups)[1]
      /\ groups_holder' = pick_next_task_gwrr(groups)[2]
      /\ ~hung'
  BY DEF Schedule
<1> HIDE DEF groups
<1>4. t \in Listed(groups_holder')
  BY <1>1, <1>3 DEF GwrrInv
<1>5. groups # <<>>
  <2> SUFFICES ASSUME groups = <<>> PROVE FALSE
    OBVIOUS
  <2>1. groups_holder' = <<>>
    BY <1>2, <1>3, PickIs
  <2> QED
    BY <1>4, <2>1, SoundEmpty
<1>6. curr' = Head(q)
  BY <1>2, <1>3, <1>5, PickIs
<1>7. q \in Seq(Tasks) /\ q # <<>>
  BY <1>2, <1>5, TheGroup
<1>8. Head(q) \in Tasks
  BY <1>7
<1> QED
  BY <1>6, <1>8 DEF GwrrConstants

\* The class names a task whenever it is asked and has a runnable one, for any
\* number of tasks and gids, in spite of misplaced tasks and used-up weights.
THEOREM NeverIdle == GSpec => WorkConserving
<1> DEFINE A == (\E sleeps \in BOOLEAN : Schedule(sleeps, FALSE))
                  /\ (\E t \in Tasks : on_rq'[t] /\ sched_class'[t] = "gwrr")
                     => curr' # NoTask
<1>1. GwrrInv /\ [GNext]_gvars => [A]_gvars
  BY GwrrConstants, SchedulePicks
<1>2. GSpec => [][A]_gvars
  BY <1>1, GwrrCorrect, PTL DEF GSpec
<1> QED
  BY <1>2 DEF WorkConserving

=============================================================================
