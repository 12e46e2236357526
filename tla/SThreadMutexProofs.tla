------------------------- MODULE SThreadMutexProofs -------------------------
(***************************************************************************)
(* Proofs about the SThread mutex.                                         *)
(*                                                                         *)
(* SpecAll implies []TypeOK: every operation, misuse included, keeps the   *)
(* structure well typed.  Spec implies []MutexInv, and with it mutual      *)
(* exclusion, the recursion count, no lost wake-up, a free spinlock        *)
(* between calls and indices inside the ring buffer, for every number of   *)
(* threads, queue size and nesting depth.  The last part is about clients  *)
(* that misuse the mutex.                                                  *)
(***************************************************************************)
EXTENDS SThreadMutexInv, FiniteSetTheorems, TLAPS

-----------------------------------------------------------------------------
(* Remainders.                                                             *)

\* No multiple of m lies strictly between 0 and m.
LEMMA MulBound ==
    ASSUME NEW m \in Nat \ {0}, NEW k \in Int, 0 < m * k, m * k < m
    PROVE  FALSE
<1>1. k > 0
  BY SMT
<1>2. k >= 1
  BY <1>1
<1>3. m * k >= m
  BY <1>2, SMT
<1> QED
  BY <1>3

\* Quotient and remainder.
LEMMA DivMod ==
    ASSUME NEW m \in Nat \ {0}, NEW a \in Int
    PROVE  a = m * (a \div m) + (a % m) /\ a % m \in 0 .. m - 1 /\ a \div m \in Int
  BY SMT

\* Two numbers less than m apart have different remainders: m consecutive
\* positions of the ring buffer are m different slots.
LEMMA ModDistinct ==
    ASSUME NEW m \in Nat \ {0}, NEW a \in Int, NEW b \in Int, a < b, b < a + m
    PROVE  a % m # b % m
<1> SUFFICES ASSUME a % m = b % m PROVE FALSE
  OBVIOUS
<1> DEFINE p == a \div m
           q == b \div m
<1>1. a = m * p + (a % m) /\ b = m * q + (b % m) /\ p \in Int /\ q \in Int
  BY DivMod
<1>2. a % m \in Int /\ b % m \in Int
  BY DivMod
<1> HIDE DEF p, q
<1>3. b - a = m * q - m * p
  BY <1>1, <1>2
<1>4. m * q - m * p = m * (q - p)
  BY <1>1, SMT
<1>5. 0 < m * (q - p) /\ m * (q - p) < m
  BY <1>3, <1>4
<1>6. q - p \in Int
  BY <1>1
<1> QED
  BY <1>5, <1>6, MulBound

\* Reducing before or after an increment gives the same slot: what push does
\* to tail, and what pop would do to head if it reduced it.
LEMMA ModSucc ==
    ASSUME NEW m \in Nat \ {0}, NEW x \in Int
    PROVE  ((x % m) + 1) % m = (x + 1) % m
<1> DEFINE y == (x % m) + 1
           z == x + 1
           d == x \div m
           p == y \div m
           q == z \div m
           s == y % m
           t == z % m
<1>1. x = m * d + (x % m) /\ x % m \in 0 .. m - 1 /\ d \in Int
  BY DivMod
<1>2. y \in Int /\ z \in Int
  BY <1>1
<1>3. y = m * p + s /\ p \in Int /\ s \in 0 .. m - 1
  BY <1>2, DivMod
<1>4. z = m * q + t /\ q \in Int /\ t \in 0 .. m - 1
  BY <1>2, DivMod
<1>5. z = y + m * d
  BY <1>1
<1> HIDE DEF y, z, d, p, q, s, t
<1>6. s - t = m * q - m * p - m * d
  BY <1>1, <1>2, <1>3, <1>4, <1>5
<1>7. m * q - m * p - m * d = m * (q - p - d)
  BY <1>1, <1>3, <1>4, SMT
<1>8. m * p + m * d - m * q = m * (p + d - q)
  BY <1>1, <1>3, <1>4, SMT
<1>9. s - t \in Int /\ s - t < m /\ t - s < m
  BY <1>3, <1>4
<1>10. ~(s - t > 0)
  <2>1. s - t = m * (q - p - d)
    BY <1>6, <1>7
  <2>2. q - p - d \in Int
    BY <1>1, <1>3, <1>4
  <2> QED
    BY <2>1, <2>2, <1>9, MulBound
<1>11. ~(t - s > 0)
  <2>1. t - s = m * (p + d - q)
    BY <1>6, <1>8, <1>1, <1>3, <1>4
  <2>2. p + d - q \in Int
    BY <1>1, <1>3, <1>4
  <2> QED
    BY <2>1, <2>2, <1>9, MulBound
<1>12. s = t
  BY <1>10, <1>11, <1>3, <1>4
<1> QED
  BY <1>12 DEF s, t, y, z

-----------------------------------------------------------------------------
(* Type correctness, for every operation.                                  *)

QType == [member : [Slots -> Q_member], size : 0 .. MAX_Q_SIZE, head : Int, tail : Slots]

\* An empty mutex is well typed.
LEMMA InitType == Init => TypeOK
  BY MutexConstants
  DEF Init, TypeOK, Q_init, Q_member, Slots, Locations

\* Q_push keeps the queue a queue, full or not.
LEMMA PushType ==
    ASSUME NEW q \in QType, NEW t \in Threads
    PROVE  Q_push(q, t) \in QType
<1>1. CASE q.size >= MAX_Q_SIZE
  BY <1>1 DEF Q_push
<1>2. CASE ~(q.size >= MAX_Q_SIZE)
  <2> DEFINE last == (q.tail + 1) % MAX_Q_SIZE
             m == [ptr_thread |-> t, count |-> 1]
  <2>1. q.tail + 1 \in Int /\ MAX_Q_SIZE \in Nat \ {0}
    BY MutexConstants DEF QType, Slots
  <2>2. last \in Slots
    BY <2>1, DivMod DEF Slots
  <2>3. m \in Q_member
    BY DEF Q_member
  <2>4. q.size + 1 \in 0 .. MAX_Q_SIZE /\ q.head \in Int
    BY <1>2, MutexConstants DEF QType
  <2>5. [q.member EXCEPT ![last] = m] \in [Slots -> Q_member]
    BY <2>3 DEF QType
  <2>6. Q_push(q, t) = [member |-> [q.member EXCEPT ![last] = m],
                        size |-> q.size + 1, head |-> q.head, tail |-> last]
    BY <1>2 DEF Q_push
  <2> HIDE DEF last, m
  <2> QED
    BY <2>2, <2>4, <2>5, <2>6 DEF QType
<1> QED
  BY <1>1, <1>2

\* Q_pop of a queue that is not empty.
LEMMA PopType ==
    ASSUME NEW q \in QType, ~Q_empty(q)
    PROVE  Q_pop(q) \in QType
<1>1. q.size - 1 \in 0 .. MAX_Q_SIZE
  BY MutexConstants DEF QType, Q_empty
<1>2. 1 % MAX_Q_SIZE \in Int
  BY MutexConstants, DivMod
<1>3. q.head \in Int /\ q.member \in [Slots -> Q_member] /\ q.tail \in Slots
  BY DEF QType
<1>4. IntWrap(q.head + (1 % MAX_Q_SIZE)) \in Int
  BY <1>2, <1>3, MutexConstants DEF IntWrap
<1> QED
  BY <1>1, <1>3, <1>4 DEF QType, Q_pop

\* Changing the first slot's count, as long as the result is a number.
LEMMA CountType ==
    ASSUME NEW q \in QType, NEW d \in Int,
           Index(q, 1) \in Slots => Q_first(q).count + d \in Nat
    PROVE  AddCount(q, d) \in QType
<1> DEFINE x == Index(q, 1)
           m == [ptr_thread |-> q.member[x].ptr_thread, count |-> q.member[x].count + d]
<1>1. q.member \in [Slots -> Q_member] /\ q.size \in 0 .. MAX_Q_SIZE
      /\ q.head \in Int /\ q.tail \in Slots
  BY DEF QType
<1>2. x \in Slots => m \in Q_member
  BY <1>1 DEF Q_member, Q_first
<1>3. [q.member EXCEPT ![x] = m] \in [Slots -> Q_member]
  BY <1>1, <1>2
<1>4. AddCount(q, d) = [member |-> [q.member EXCEPT ![x] = m], size |-> q.size,
                        head |-> q.head, tail |-> q.tail]
  BY DEF AddCount
<1> HIDE DEF x, m
<1> QED
  BY <1>1, <1>3, <1>4 DEF QType

\* A step keeps the types of the variables if each variable keeps its own.
LEMMA TypeParts ==
    /\ TypeOK => /\ M \in {0, 1}
                 /\ Q \in QType
                 /\ pc \in [Threads -> Locations]
                 /\ pipe \in [Threads -> Nat]
                 /\ depth \in [Threads -> Nat]
    /\ /\ M' \in {0, 1}
       /\ Q' \in QType
       /\ pc' \in [Threads -> Locations]
       /\ pipe' \in [Threads -> Nat]
       /\ depth' \in [Threads -> Nat]
       => TypeOK'
  BY DEF TypeOK, QType

\* The spinning program points and where a successful test_and_set leads.
LEMMA SpinFacts ==
    /\ Spinning = {"lock_spin", "trylock_spin", "unlock_spin", "destroy_spin"}
    /\ SpinTarget["lock_spin"] = "lock_q"
    /\ SpinTarget["trylock_spin"] = "trylock_q"
    /\ SpinTarget["unlock_spin"] = "unlock_q"
    /\ SpinTarget["destroy_spin"] = "destroy_q"
  BY DEF Spinning, SpinTarget

\* No step of any operation, misuse included, leaves the types.
LEMMA NextType ==
    ASSUME TypeOK, [NextAll]_vars
    PROVE  TypeOK'
<1> USE TypeParts
<1>1. CASE UNCHANGED vars
  BY <1>1 DEF vars
<1>2. ASSUME NEW q \in QType, Q = q
      PROVE  Q_first(q).count > 1 => AddCount(q, -1) \in QType
  <2>1. Index(q, 1) \in Slots => Q_first(q).count \in Nat
    BY <1>2 DEF QType, Q_member, Q_first
  <2> QED
    BY <1>2, <2>1, CountType
<1>3. Q \in QType => AddCount(Q, 1) \in QType
  <2>1. Q \in QType /\ Index(Q, 1) \in Slots => Q_first(Q).count \in Nat
    BY DEF QType, Q_member, Q_first
  <2> QED
    BY <2>1, CountType
<1>4. ASSUME NEW t \in Threads, TestAndSet(t)
      PROVE  TypeOK'
  BY <1>4, SpinFacts DEF TestAndSet, Goto, Locations, InSection
<1>5. ASSUME NEW t \in Threads, LockCall(t)
      PROVE  TypeOK'
  BY <1>5 DEF LockCall, Goto, Locations, Spinning, SpinTarget, InSection
<1>6. ASSUME NEW t \in Threads, Resume(t)
      PROVE  TypeOK'
  BY <1>6 DEF Resume, Goto, Locations, Spinning, SpinTarget, InSection
<1>7. ASSUME NEW t \in Threads, UnlockCall(t)
      PROVE  TypeOK'
  BY <1>7 DEF UnlockCall, Goto, Locations, Spinning, SpinTarget, InSection
<1>8. ASSUME NEW t \in Threads, UnlockWake(t)
      PROVE  TypeOK'
  <2> DEFINE w == Q_first(Q).ptr_thread
  <2>1. pipe' = [pipe EXCEPT ![w] = pipe[w] + 1] /\ UNCHANGED <<M, Q, depth>>
    BY <1>8 DEF UnlockWake
  <2>2. pc' \in [Threads -> Locations]
    BY <1>8 DEF UnlockWake, Goto, Locations, InSection
  <2> HIDE DEF w
  <2>3. pipe' \in [Threads -> Nat]
    <3>1. pipe \in [Threads -> Nat]
      OBVIOUS
    <3>2. CASE w \in Threads
      BY <2>1, <3>1, <3>2
    <3>3. CASE w \notin Threads
      <4>1. pipe' = pipe
        BY <2>1, <3>1, <3>3
      <4> QED
        BY <3>1, <4>1
    <3> QED
      BY <3>2, <3>3
  <2> QED
    BY <2>1, <2>2, <2>3
<1>9. ASSUME NEW t \in Threads, UnlockRelease(t)
      PROVE  TypeOK'
  BY <1>9 DEF UnlockRelease, Goto, Locations, Spinning, SpinTarget, InSection
<1>10. ASSUME NEW t \in Threads, UnlockError(t)
      PROVE  TypeOK'
  BY <1>10 DEF UnlockError, Goto, Locations, Spinning, SpinTarget, InSection
<1>11. ASSUME NEW t \in Threads, UnlockNull(t)
      PROVE  TypeOK'
  BY <1>11 DEF UnlockNull, Goto, Locations, Spinning, SpinTarget, InSection
<1>12. ASSUME NEW t \in Threads, TrylockCall(t)
      PROVE  TypeOK'
  BY <1>12 DEF TrylockCall, Goto, Locations, Spinning, SpinTarget, InSection
<1>13. ASSUME NEW t \in Threads, ForeignUnlockCall(t)
      PROVE  TypeOK'
  BY <1>13 DEF ForeignUnlockCall, Goto, Locations, Spinning, SpinTarget, InSection
<1>14. ASSUME NEW t \in Threads, DestroyCall(t)
      PROVE  TypeOK'
  BY <1>14 DEF DestroyCall, Goto, Locations, Spinning, SpinTarget, InSection
<1>15. ASSUME NEW t \in Threads, DestroyReturn(t)
      PROVE  TypeOK'
  BY <1>15 DEF DestroyReturn, Goto, Locations, Spinning, SpinTarget, InSection
<1>16. ASSUME NEW t \in Threads, LockFree(t)
      PROVE  TypeOK'
  BY <1>16, PushType DEF LockFree, Goto, Locations, Spinning, SpinTarget, InSection
<1>17. ASSUME NEW t \in Threads, LockBusy(t)
      PROVE  TypeOK'
  BY <1>17, PushType DEF LockBusy, Goto, Locations, Spinning, SpinTarget, InSection
<1>18. ASSUME NEW t \in Threads, TrylockPush(t)
      PROVE  TypeOK'
  BY <1>18, PushType DEF TrylockPush, Goto, Locations, Spinning, SpinTarget, InSection
<1>19. ASSUME NEW t \in Threads, LockAgain(t)
      PROVE  TypeOK'
  BY <1>19, <1>3 DEF LockAgain, Goto, Locations, Spinning, SpinTarget, InSection
<1>20. ASSUME NEW t \in Threads, TrylockAgain(t)
      PROVE  TypeOK'
  BY <1>20, <1>3 DEF TrylockAgain, Goto, Locations, Spinning, SpinTarget, InSection
<1>21. ASSUME NEW t \in Threads, UnlockNested(t)
      PROVE  TypeOK'
  BY <1>21, <1>2 DEF UnlockNested, Goto, Locations, Spinning, SpinTarget, InSection
<1>22. ASSUME NEW t \in Threads, UnlockLast(t)
      PROVE  TypeOK'
  BY <1>22, PopType DEF UnlockLast, Goto, Locations, Spinning, SpinTarget, InSection
<1> QED
  BY <1>1, <1>4, <1>5, <1>6, <1>7, <1>8, <1>9, <1>10, <1>11, <1>12, <1>13, <1>14, <1>15, <1>16, <1>17, <1>18, <1>19, <1>20, <1>21, <1>22
  DEF NextAll, Next, LibraryStep, ForeignStep, TrylockStep, DestroyStep

\* M stays a flag, the queue a queue of at most MAX_Q_SIZE threads with its
\* tail inside the array, and no counter goes below zero, whatever operations
\* of sync.c the threads call in whatever order.
THEOREM AllTypeCorrect == SpecAll => []TypeOK
<1>1. Init => TypeOK
  BY InitType
<1>2. TypeOK /\ [NextAll]_vars => TypeOK'
  BY NextType
<1> QED
  BY <1>1, <1>2, PTL DEF SpecAll

-----------------------------------------------------------------------------
(* The ring buffer as a line.                                              *)

\* Every remainder is a slot.
LEMMA SlotOf ==
    ASSUME NEW x \in Int
    PROVE  x % MAX_Q_SIZE \in Slots
  BY MutexConstants, DivMod DEF Slots

\* Below the overflow the slots that Q_first and the queue's indices name are
\* the positions of Line, all inside the array.
LEMMA LineIndex ==
    ASSUME TypeOK, RingOK
    PROVE  /\ Line \in [1 .. MAX_Q_SIZE -> Q_member]
           /\ \A i \in 1 .. MAX_Q_SIZE : /\ Index(Q, i) \in Slots
                                         /\ Q.member[Index(Q, i)] = Line[i]
           /\ Q_first(Q) = Line[1]
<1>1. Q.head \in Int /\ Q.member \in [Slots -> Q_member] /\ MAX_Q_SIZE \in Nat \ {0}
  BY MutexConstants DEF TypeOK
<1>2. ASSUME NEW i \in 1 .. MAX_Q_SIZE
      PROVE  /\ Index(Q, i) = (Q.head + i) % MAX_Q_SIZE
             /\ (Q.head + i) % MAX_Q_SIZE \in Slots
  <2>1. Q.head + i >= 0 /\ Q.head + i =< INT_MAX /\ Q.head + i \in Int
    BY <1>1, MutexConstants DEF RingOK
  <2>2. (Q.head + i) % MAX_Q_SIZE \in Slots
    BY <1>1, <2>1, DivMod DEF Slots
  <2> QED
    BY <2>1, <2>2, MutexConstants DEF Index, IntWrap, CRem
<1>3. Line \in [1 .. MAX_Q_SIZE -> Q_member]
  BY <1>1, <1>2 DEF Line
<1>4. \A i \in 1 .. MAX_Q_SIZE : Q.member[Index(Q, i)] = Line[i]
  BY <1>2 DEF Line
<1>5. 1 \in 1 .. MAX_Q_SIZE
  BY <1>1
<1> QED
  BY <1>2, <1>3, <1>4, <1>5 DEF Q_first

\* A push below the limit adds the thread at the end and nothing else.
LEMMA PushLine ==
    ASSUME TypeOK, RingOK, NEW t \in Threads, Q.size < MAX_Q_SIZE,
           Q' = Q_push(Q, t)
    PROVE  /\ Q'.size = Q.size + 1
           /\ Q'.head = Q.head
           /\ Q'.tail = (Q'.head + Q'.size) % MAX_Q_SIZE
           /\ \A i \in 1 .. Q.size : Line'[i] = Line[i]
           /\ Line'[Q.size + 1] = [ptr_thread |-> t, count |-> 1]
<1> DEFINE last == (Q.tail + 1) % MAX_Q_SIZE
           new == [ptr_thread |-> t, count |-> 1]
<1>1. /\ Q.head \in Int /\ Q.member \in [Slots -> Q_member] /\ Q.size \in Nat
      /\ MAX_Q_SIZE \in Nat \ {0} /\ Q.size \in 0 .. MAX_Q_SIZE
  BY MutexConstants DEF TypeOK
<1>2. /\ Q'.member = [Q.member EXCEPT ![last] = new]
      /\ Q'.size = Q.size + 1 /\ Q'.head = Q.head /\ Q'.tail = last
  BY <1>1 DEF Q_push
<1>3. last = (Q.head + (Q.size + 1)) % MAX_Q_SIZE
  <2>1. Q.tail = (Q.head + Q.size) % MAX_Q_SIZE /\ Q.head + Q.size \in Int
    BY <1>1 DEF RingOK
  <2>2. last = ((Q.head + Q.size) + 1) % MAX_Q_SIZE
    BY <2>1, <1>1, ModSucc
  <2>3. (Q.head + Q.size) + 1 = Q.head + (Q.size + 1)
    BY <1>1
  <2> QED
    BY <2>2, <2>3
<1> HIDE DEF last, new
<1>4. ASSUME NEW i \in 1 .. Q.size
      PROVE  Line'[i] = Line[i]
  <2>1. i \in 1 .. MAX_Q_SIZE /\ i \in Int
    BY <1>1
  <2>2. (Q.head + i) % MAX_Q_SIZE # last
    <3>1. /\ Q.head + i < Q.head + (Q.size + 1)
          /\ Q.head + (Q.size + 1) < (Q.head + i) + MAX_Q_SIZE
          /\ Q.head + i \in Int /\ Q.head + (Q.size + 1) \in Int
      BY <1>1
    <3> QED
      BY <3>1, <1>1, <1>3, ModDistinct
  <2>3. (Q.head + i) % MAX_Q_SIZE \in Slots
    <3>1. Q.head + i \in Int
      BY <1>1, <2>1
    <3> QED
      BY <3>1, SlotOf
  <2> QED
    BY <1>1, <1>2, <2>1, <2>2, <2>3 DEF Line
<1>5. Line'[Q.size + 1] = new
  <2>1. Q.size + 1 \in 1 .. MAX_Q_SIZE
    BY <1>1
  <2>2. last \in Slots
    <3>1. Q.head + (Q.size + 1) \in Int
      BY <1>1
    <3> QED
      BY <3>1, <1>3, SlotOf
  <2> QED
    BY <1>1, <1>2, <1>3, <2>1, <2>2 DEF Line
<1> QED
  BY <1>2, <1>3, <1>4, <1>5 DEF new

\* A pop moves everybody one place forward, although head is not reduced.
LEMMA PopLine ==
    ASSUME TypeOK, RingOK, Q.size > 0, Q' = Q_pop(Q)
    PROVE  /\ Q'.size = Q.size - 1
           /\ Q'.head \in {Q.head, Q.head + 1} /\ Q'.member = Q.member
           /\ Q'.tail = (Q'.head + Q'.size) % MAX_Q_SIZE
           /\ \A i \in 1 .. Q.size - 1 : Line'[i] = Line[i + 1]
<1>1. /\ Q.head \in Int /\ Q.member \in [Slots -> Q_member]
      /\ MAX_Q_SIZE \in Nat \ {0} /\ Q.size \in 1 .. MAX_Q_SIZE
      /\ INT_MAX \in Nat
  BY MutexConstants DEF TypeOK
<1>2. CASE MAX_Q_SIZE = 1
  <2>1. 1 % 1 = 0
    BY SMT
  <2>2. IntWrap(Q.head + 0) = Q.head
    BY <1>1 DEF IntWrap, RingOK
  <2>3. /\ Q'.size = Q.size - 1 /\ Q'.head = Q.head /\ Q'.tail = Q.tail
        /\ Q'.member = Q.member
    BY <1>1, <1>2, <2>1, <2>2 DEF Q_pop
  <2>4. (Q.head + Q.size) % 1 = 0 /\ (Q.head + (Q.size - 1)) % 1 = 0
    <3>1. Q.head + Q.size \in Int /\ Q.head + (Q.size - 1) \in Int
      BY <1>1
    <3>2. \A x \in Int : x % 1 = 0
      <4>1. \A x \in Int : x % 1 \in 0 .. 1 - 1
        BY DivMod
      <4> QED
        BY <4>1
    <3> QED
      BY <3>1, <3>2
  <2> QED
    BY <1>1, <1>2, <2>3, <2>4 DEF RingOK
<1>3. CASE MAX_Q_SIZE > 1
  <2>1. 1 % MAX_Q_SIZE = 1
    <3>1. /\ 1 = MAX_Q_SIZE * (1 \div MAX_Q_SIZE) + (1 % MAX_Q_SIZE)
          /\ 1 % MAX_Q_SIZE \in 0 .. MAX_Q_SIZE - 1 /\ 1 \div MAX_Q_SIZE \in Int
      BY <1>1, DivMod
    <3> QED
      BY <1>1, <1>3, SMT
  <2>2. IntWrap(Q.head + 1) = Q.head + 1
    BY <1>1, <1>3 DEF IntWrap, RingOK
  <2>3. /\ Q'.size = Q.size - 1 /\ Q'.head = Q.head + 1 /\ Q'.tail = Q.tail
        /\ Q'.member = Q.member
    BY <1>1, <2>1, <2>2 DEF Q_pop
  <2>4. Q'.head + Q'.size = Q.head + Q.size
    BY <1>1, <2>3
  <2>5. ASSUME NEW i \in 1 .. Q.size - 1
        PROVE  Line'[i] = Line[i + 1]
    <3>1. i \in 1 .. MAX_Q_SIZE /\ i + 1 \in 1 .. MAX_Q_SIZE
          /\ (Q.head + 1) + i = Q.head + (i + 1)
      BY <1>1
    <3> QED
      BY <3>1, <2>3 DEF Line
  <2> QED
    BY <1>1, <2>3, <2>4, <2>5 DEF RingOK
<1> QED
  BY <1>1, <1>2, <1>3

\* Counting a nested lock or unlock touches the first slot's count only.
LEMMA CountLine ==
    ASSUME TypeOK, RingOK, NEW d \in {-1, 1}, Q.size > 0, Q' = AddCount(Q, d)
    PROVE  /\ Q'.size = Q.size /\ Q'.head = Q.head /\ Q'.tail = Q.tail
           /\ Line'[1].ptr_thread = Line[1].ptr_thread
           /\ Line'[1].count = Line[1].count + d
           /\ \A i \in 2 .. Q.size : Line'[i] = Line[i]
<1> DEFINE x == Index(Q, 1)
           new == [ptr_thread |-> Q.member[x].ptr_thread,
                   count |-> Q.member[x].count + d]
<1>1. /\ Q.head \in Int /\ Q.member \in [Slots -> Q_member]
      /\ MAX_Q_SIZE \in Nat \ {0} /\ Q.size \in 1 .. MAX_Q_SIZE
  BY MutexConstants DEF TypeOK
<1>2. x = (Q.head + 1) % MAX_Q_SIZE /\ x \in Slots /\ Q.member[x] = Line[1]
  <2>1. 1 \in 1 .. MAX_Q_SIZE
    BY <1>1
  <2>2. x \in Slots /\ Q.member[x] = Line[1]
    BY <2>1, LineIndex
  <2>3. Q.head + 1 >= 0 /\ Q.head + 1 =< INT_MAX
    BY <1>1, MutexConstants DEF RingOK
  <2> QED
    BY <2>2, <2>3, <1>1, MutexConstants DEF Index, IntWrap, CRem
<1>3. /\ Q'.size = Q.size /\ Q'.head = Q.head /\ Q'.tail = Q.tail
      /\ Q'.member = [Q.member EXCEPT ![x] = new]
  BY DEF AddCount
<1> HIDE DEF x
<1>4. Line'[1] = new
  <2>1. 1 \in 1 .. MAX_Q_SIZE
    BY <1>1
  <2> QED
    BY <2>1, <1>1, <1>2, <1>3 DEF Line
<1>5. new.ptr_thread = Line[1].ptr_thread /\ new.count = Line[1].count + d
  BY <1>2
<1> HIDE DEF new
<1>6. ASSUME NEW i \in 2 .. Q.size
      PROVE  Line'[i] = Line[i]
  <2>1. i \in 1 .. MAX_Q_SIZE /\ Q.head + i \in Int /\ Q.head + 1 \in Int
        /\ Q.head + 1 < Q.head + i /\ Q.head + i < (Q.head + 1) + MAX_Q_SIZE
    BY <1>1
  <2>2. (Q.head + i) % MAX_Q_SIZE # x
    BY <2>1, <1>1, <1>2, ModDistinct
  <2>3. (Q.head + i) % MAX_Q_SIZE \in Slots
    BY <2>1, <1>1, DivMod DEF Slots
  <2> QED
    BY <2>1, <2>2, <2>3, <1>1, <1>3 DEF Line
<1> QED
  BY <1>3, <1>4, <1>5, <1>6

-----------------------------------------------------------------------------
(* The invariant, action by action.                                        *)

\* Before the bound on outermost unlocks, head is far from the overflow.
LEMMA RingFacts == TypeOK /\ RingInv => RingOK
  BY MutexConstants, HeadFits DEF TypeOK, RingInv, RingOK

\* Every step of lock and unlock keeps the types.
LEMMA StepType ==
    ASSUME MutexInv, NEW t \in Threads,
           LibraryStep(t) \/ LockCall(t) \/ UnlockCall(t)
    PROVE  TypeOK'
  BY NextType DEF MutexInv, NextAll, Next

\* The program points of a thread that works on the queue.
LEMMA SectionFacts ==
    InSection = {"lock_q", "trylock_q", "unlock_q", "destroy_q", "unlock_wake", "unlock_rel"}
  BY DEF InSection

\* The call of sthread_mutex_lock changes nothing but the caller's place.
LEMMA LockCallInv ==
    ASSUME MutexInv, NEW t \in Threads, LockCall(t)
    PROVE  MutexInv'
<1>1. /\ TypeOK /\ SpinInv /\ RingInv /\ LineInv /\ OwnerInv
      /\ TokenInv /\ WakeInv /\ IdleInv /\ ServedInv
  BY DEF MutexInv
<1>2. TypeOK'
  BY StepType DEF LibraryStep
<1>3. Q' = Q /\ Line' = Line
  BY DEF LockCall, Line
<1>4. /\ pc[t] = "client" /\ pc' = [pc EXCEPT ![t] = "lock_spin"]
      /\ UNCHANGED <<M, pipe, depth>>
  BY DEF LockCall, Goto
<1>5. SpinInv'
  BY <1>1, <1>3, <1>4 DEF SpinInv, InSection, TypeOK
<1>6. RingInv'
  BY <1>1, <1>3, <1>4 DEF RingInv, Unlocking, TypeOK
<1>7. LineInv'
  BY <1>1, <1>3, <1>4 DEF LineInv, TypeOK
<1>8. OwnerInv'
  BY <1>1, <1>3, <1>4 DEF OwnerInv, Owns, Unlocking, TypeOK, IdleInv, LineInv
<1>9. TokenInv'
  BY <1>1, <1>3, <1>4 DEF TokenInv, TypeOK
<1>10. WakeInv'
  BY <1>1, <1>3, <1>4 DEF WakeInv, LineInv, TypeOK
<1>11. IdleInv'
  BY <1>1, <1>3, <1>4 DEF IdleInv, TypeOK
<1>12. ServedInv'
  BY <1>1, <1>3, <1>4 DEF ServedInv, LineInv, Owns, TypeOK
<1> QED
  BY <1>2, <1>5, <1>6, <1>7, <1>8, <1>9, <1>10, <1>11, <1>12 DEF MutexInv

\* A successful test_and_set makes the thread the only one in the section.
LEMMA TestAndSetInv ==
    ASSUME MutexInv, NEW t \in Threads, TestAndSet(t)
    PROVE  MutexInv'
<1>1. /\ TypeOK /\ SpinInv /\ RingInv /\ LineInv /\ OwnerInv
      /\ TokenInv /\ WakeInv /\ IdleInv /\ ServedInv
  BY DEF MutexInv
<1>2. TypeOK'
  BY StepType DEF LibraryStep
<1>3. Q' = Q /\ Line' = Line
  BY DEF TestAndSet, Line
<1>4. /\ pc[t] \in {"lock_spin", "trylock_spin", "unlock_spin", "destroy_spin"}
      /\ pc' = [pc EXCEPT ![t] = SpinTarget[pc[t]]]
      /\ M = 0 /\ M' = 1 /\ UNCHANGED <<pipe, depth>>
  BY SpinFacts DEF TestAndSet, Goto
<1>5. SpinInv'
  BY <1>1, <1>3, <1>4, SpinFacts DEF SpinInv, InSection, TypeOK
<1>6. RingInv'
  BY <1>1, <1>3, <1>4, SpinFacts DEF RingInv, Unlocking, TypeOK
<1>7. LineInv'
  BY <1>1, <1>3, <1>4, SpinFacts DEF LineInv, TypeOK
<1>8. OwnerInv'
  BY <1>1, <1>3, <1>4, SpinFacts DEF OwnerInv, Owns, Unlocking, TypeOK, IdleInv, LineInv
<1>9. TokenInv'
  BY <1>1, <1>3, <1>4, SpinFacts DEF TokenInv, TypeOK
<1>10. WakeInv'
  BY <1>1, <1>3, <1>4, SpinFacts DEF WakeInv, LineInv, TypeOK
<1>11. IdleInv'
  BY <1>1, <1>3, <1>4, SpinFacts DEF IdleInv, TypeOK
<1>12. ServedInv'
  BY <1>1, <1>3, <1>4, SpinFacts DEF ServedInv, LineInv, Owns, TypeOK
<1> QED
  BY <1>2, <1>5, <1>6, <1>7, <1>8, <1>9, <1>10, <1>11, <1>12 DEF MutexInv

\* The sleeper that reads its message is first in line and becomes the owner.
LEMMA ResumeInv ==
    ASSUME MutexInv, NEW t \in Threads, Resume(t)
    PROVE  MutexInv'
<1>1. /\ TypeOK /\ SpinInv /\ RingInv /\ LineInv /\ OwnerInv
      /\ TokenInv /\ WakeInv /\ IdleInv /\ ServedInv
  BY DEF MutexInv
<1>2. TypeOK'
  BY StepType DEF LibraryStep
<1>3. Q' = Q /\ Line' = Line
  BY DEF Resume, Line
<1>4. /\ pc[t] = "suspended" /\ pipe[t] > 0
      /\ pc' = [pc EXCEPT ![t] = "client"]
      /\ pipe' = [pipe EXCEPT ![t] = pipe[t] - 1]
      /\ depth' = [depth EXCEPT ![t] = depth[t] + 1] /\ UNCHANGED M
  BY DEF Resume, Goto
<1>5. /\ 1 \in 1 .. Q.size /\ Line[1].ptr_thread = t /\ Line[1].count = 1
      /\ pipe[t] = 1 /\ depth[t] = 0
  BY <1>1, <1>4 DEF TokenInv, IdleInv, TypeOK
<1>6. SpinInv'
  BY <1>1, <1>3, <1>4, <1>5 DEF SpinInv, InSection, TypeOK
<1>7. RingInv'
  BY <1>1, <1>3, <1>4, <1>5 DEF RingInv, Unlocking, TypeOK
<1>8. LineInv'
  <2>1. \A i \in 2 .. Q.size : Line[i].ptr_thread # t
    <3>1. \A i \in 2 .. Q.size : i \in 1 .. Q.size /\ i # 1
      BY <1>1 DEF TypeOK
    <3> QED
      BY <3>1, <1>1, <1>5 DEF LineInv
  <2> QED
    BY <1>1, <1>3, <1>4, <2>1 DEF LineInv, TypeOK
<1>9. OwnerInv'
  <2>1. \A u \in Threads : Owns(u) => u = t
    BY <1>1, <1>5 DEF OwnerInv
  <2>2. \A u \in Threads \ {t} : pc'[u] = pc[u] /\ depth'[u] = depth[u]
    BY <1>1, <1>4 DEF TypeOK
  <2>3. depth'[t] = 1 /\ pc'[t] = "client"
    BY <1>1, <1>4, <1>5 DEF TypeOK
  <2> QED
    BY <1>1, <1>3, <1>5, <2>1, <2>2, <2>3 DEF OwnerInv, Owns, Unlocking, TypeOK
<1>10. TokenInv'
  BY <1>1, <1>3, <1>4, <1>5 DEF TokenInv, TypeOK
<1>11. WakeInv'
  BY <1>1, <1>3, <1>4, <1>5 DEF WakeInv, LineInv, TypeOK
<1>12. IdleInv'
  BY <1>1, <1>3, <1>4, <1>5 DEF IdleInv, TypeOK
<1>13. ServedInv'
  BY <1>1, <1>3, <1>4, <1>5 DEF ServedInv, LineInv, Owns, TypeOK
<1> QED
  BY <1>2, <1>6, <1>7, <1>8, <1>9, <1>10, <1>11, <1>12, <1>13 DEF MutexInv

\* The call of sthread_mutex_unlock turns a level held into one to be given back.
LEMMA UnlockCallInv ==
    ASSUME MutexInv, NEW t \in Threads, UnlockCall(t)
    PROVE  MutexInv'
<1>1. /\ TypeOK /\ SpinInv /\ RingInv /\ LineInv /\ OwnerInv
      /\ TokenInv /\ WakeInv /\ IdleInv /\ ServedInv
  BY DEF MutexInv
<1>2. TypeOK'
  BY StepType DEF LibraryStep
<1>3. Q' = Q /\ Line' = Line
  BY DEF UnlockCall, Line
<1>4. /\ pc[t] = "client" /\ depth[t] > 0 /\ Q.head < MaxHead
      /\ pc' = [pc EXCEPT ![t] = "unlock_spin"]
      /\ depth' = [depth EXCEPT ![t] = depth[t] - 1] /\ UNCHANGED <<M, pipe>>
  BY DEF UnlockCall, Goto
<1>5. SpinInv'
  BY <1>1, <1>3, <1>4 DEF SpinInv, InSection, TypeOK
<1>6. RingInv'
  BY <1>1, <1>3, <1>4 DEF RingInv, Unlocking, TypeOK
<1>7. LineInv'
  BY <1>1, <1>3, <1>4 DEF LineInv, TypeOK
<1>8. OwnerInv'
  BY <1>1, <1>3, <1>4 DEF OwnerInv, Owns, Unlocking, TypeOK, IdleInv, LineInv
<1>9. TokenInv'
  BY <1>1, <1>3, <1>4 DEF TokenInv, TypeOK
<1>10. WakeInv'
  BY <1>1, <1>3, <1>4 DEF WakeInv, LineInv, TypeOK
<1>11. IdleInv'
  BY <1>1, <1>3, <1>4 DEF IdleInv, TypeOK
<1>12. ServedInv'
  BY <1>1, <1>3, <1>4 DEF ServedInv, LineInv, Owns, TypeOK
<1> QED
  BY <1>2, <1>5, <1>6, <1>7, <1>8, <1>9, <1>10, <1>11, <1>12 DEF MutexInv

\* The message goes to the sleeping first thread, whose pipe is empty.
LEMMA UnlockWakeInv ==
    ASSUME MutexInv, NEW t \in Threads, UnlockWake(t)
    PROVE  MutexInv'
<1>1. /\ TypeOK /\ SpinInv /\ RingInv /\ LineInv /\ OwnerInv
      /\ TokenInv /\ WakeInv /\ IdleInv /\ ServedInv
  BY DEF MutexInv
<1>2. TypeOK'
  BY StepType DEF LibraryStep
<1>3. Q' = Q /\ Line' = Line
  BY DEF UnlockWake, Line
<1>4. /\ pc[t] = "unlock_wake" /\ pc' = [pc EXCEPT ![t] = "unlock_rel"]
      /\ pipe' = [pipe EXCEPT ![Line[1].ptr_thread] = pipe[Line[1].ptr_thread] + 1]
      /\ UNCHANGED <<M, depth>>
  BY <1>1, RingFacts, LineIndex DEF UnlockWake, Goto
<1>5. /\ 1 \in 1 .. Q.size /\ Line[1].ptr_thread \in Threads
      /\ pc[Line[1].ptr_thread] = "suspended" /\ Line[1].count = 1
      /\ \A u \in Threads : pipe[u] = 0
      /\ \A u \in Threads : pc[u] = "unlock_wake" => u = t
  BY <1>1, <1>4 DEF WakeInv, LineInv, SpinInv, InSection, TypeOK
<1>6. SpinInv'
  BY <1>1, <1>3, <1>4, <1>5 DEF SpinInv, InSection, TypeOK
<1>7. RingInv'
  BY <1>1, <1>3, <1>4, <1>5 DEF RingInv, Unlocking, TypeOK
<1>8. LineInv'
  BY <1>1, <1>3, <1>4, <1>5 DEF LineInv, TypeOK
<1>9. OwnerInv'
  BY <1>1, <1>3, <1>4, <1>5 DEF OwnerInv, Owns, Unlocking, TypeOK, IdleInv, LineInv
<1>10. TokenInv'
  BY <1>1, <1>3, <1>4, <1>5 DEF TokenInv, TypeOK
<1>11. WakeInv'
  BY <1>1, <1>3, <1>4, <1>5 DEF WakeInv, LineInv, TypeOK
<1>12. IdleInv'
  BY <1>1, <1>3, <1>4, <1>5 DEF IdleInv, TypeOK
<1>13. ServedInv'
  BY <1>1, <1>3, <1>4, <1>5 DEF ServedInv, LineInv, Owns, TypeOK
<1> QED
  BY <1>2, <1>6, <1>7, <1>8, <1>9, <1>10, <1>11, <1>12, <1>13 DEF MutexInv

\* The last store of unlock frees the spinlock.
LEMMA UnlockReleaseInv ==
    ASSUME MutexInv, NEW t \in Threads, UnlockRelease(t)
    PROVE  MutexInv'
<1>1. /\ TypeOK /\ SpinInv /\ RingInv /\ LineInv /\ OwnerInv
      /\ TokenInv /\ WakeInv /\ IdleInv /\ ServedInv
  BY DEF MutexInv
<1>2. TypeOK'
  BY StepType DEF LibraryStep
<1>3. Q' = Q /\ Line' = Line
  BY DEF UnlockRelease, Line
<1>4. /\ pc[t] = "unlock_rel" /\ pc' = [pc EXCEPT ![t] = "client"]
      /\ M' = 0 /\ UNCHANGED <<pipe, depth>>
  BY DEF UnlockRelease, Goto
<1>5. SpinInv'
  BY <1>1, <1>3, <1>4 DEF SpinInv, InSection, TypeOK
<1>6. RingInv'
  BY <1>1, <1>3, <1>4 DEF RingInv, Unlocking, TypeOK
<1>7. LineInv'
  BY <1>1, <1>3, <1>4 DEF LineInv, TypeOK
<1>8. OwnerInv'
  BY <1>1, <1>3, <1>4 DEF OwnerInv, Owns, Unlocking, TypeOK, IdleInv, LineInv
<1>9. TokenInv'
  BY <1>1, <1>3, <1>4 DEF TokenInv, TypeOK
<1>10. WakeInv'
  BY <1>1, <1>3, <1>4 DEF WakeInv, LineInv, TypeOK
<1>11. IdleInv'
  BY <1>1, <1>3, <1>4 DEF IdleInv, TypeOK
<1>12. ServedInv'
  BY <1>1, <1>3, <1>4 DEF ServedInv, LineInv, Owns, TypeOK
<1> QED
  BY <1>2, <1>5, <1>6, <1>7, <1>8, <1>9, <1>10, <1>11, <1>12 DEF MutexInv

\* The first to come finds nobody and becomes the owner.
LEMMA LockFreeInv ==
    ASSUME MutexInv, NEW t \in Threads, LockFree(t)
    PROVE  MutexInv'
<1>1. /\ TypeOK /\ SpinInv /\ RingInv /\ LineInv /\ OwnerInv
      /\ TokenInv /\ WakeInv /\ IdleInv /\ ServedInv
  BY DEF MutexInv
<1>2. TypeOK'
  BY StepType DEF LibraryStep
<1>3. Q.size \in 0 .. MAX_Q_SIZE /\ Q.head \in Int /\ MAX_Q_SIZE \in Nat \ {0}
      /\ Line \in [1 .. MAX_Q_SIZE -> Q_member]
  BY <1>1, MutexConstants, RingFacts, LineIndex DEF TypeOK
<1>4. /\ pc[t] = "lock_q" /\ Q.size = 0 /\ M' = 0
      /\ pc' = [pc EXCEPT ![t] = "client"]
      /\ depth' = [depth EXCEPT ![t] = depth[t] + 1] /\ UNCHANGED pipe
  BY DEF LockFree, Goto, Q_empty
<1>5. /\ Q'.size = 1 /\ Q'.head = Q.head
      /\ Q'.tail = (Q'.head + Q'.size) % MAX_Q_SIZE
      /\ Line'[1].ptr_thread = t /\ Line'[1].count = 1
  <2>1. Q' = Q_push(Q, t) /\ Q.size < MAX_Q_SIZE
    BY <1>3, <1>4 DEF LockFree
  <2>2. /\ Q'.size = Q.size + 1 /\ Q'.head = Q.head
        /\ Q'.tail = (Q'.head + Q'.size) % MAX_Q_SIZE
        /\ Line'[Q.size + 1] = [ptr_thread |-> t, count |-> 1]
    BY <1>1, <2>1, RingFacts, PushLine
  <2>3. Q.size + 1 = 1
    BY <1>4
  <2> QED
    BY <2>2, <2>3
<1>6. /\ \A u \in Threads : ~Owns(u) /\ pipe[u] = 0 /\ pc[u] # "unlock_wake"
      /\ depth[t] = 0
  BY <1>1, <1>4 DEF OwnerInv, TokenInv, WakeInv, TypeOK, Owns
<1>7. SpinInv'
  BY <1>1, <1>4 DEF SpinInv, InSection, TypeOK
<1>8. RingInv'
  BY <1>1, <1>4, <1>5 DEF RingInv, Unlocking, TypeOK
<1>9. LineInv'
  BY <1>5 DEF LineInv
<1>10. OwnerInv'
  BY <1>1, <1>4, <1>5, <1>6 DEF OwnerInv, Owns, Unlocking, TypeOK
<1>11. TokenInv'
  BY <1>4, <1>6 DEF TokenInv
<1>12. WakeInv'
  BY <1>1, <1>4, <1>6 DEF WakeInv, TypeOK
<1>13. IdleInv'
  BY <1>1, <1>4 DEF IdleInv, TypeOK
<1>14. ServedInv'
  BY <1>1, <1>4, <1>5, <1>6 DEF ServedInv, Owns, TypeOK
<1> QED
  BY <1>2, <1>7, <1>8, <1>9, <1>10, <1>11, <1>12, <1>13, <1>14 DEF MutexInv

\* The owner locks again: the count follows the depth.
LEMMA LockAgainInv ==
    ASSUME MutexInv, NEW t \in Threads, LockAgain(t)
    PROVE  MutexInv'
<1>1. /\ TypeOK /\ SpinInv /\ RingInv /\ LineInv /\ OwnerInv
      /\ TokenInv /\ WakeInv /\ IdleInv /\ ServedInv
  BY DEF MutexInv
<1>2. TypeOK'
  BY StepType DEF LibraryStep
<1>3. Q.size \in 0 .. MAX_Q_SIZE /\ Q.head \in Int /\ MAX_Q_SIZE \in Nat \ {0}
      /\ Line \in [1 .. MAX_Q_SIZE -> Q_member]
  BY <1>1, MutexConstants, RingFacts, LineIndex DEF TypeOK
<1>4. /\ pc[t] = "lock_q" /\ Q.size > 0 /\ Line[1].ptr_thread = t /\ M' = 0
      /\ pc' = [pc EXCEPT ![t] = "client"]
      /\ depth' = [depth EXCEPT ![t] = depth[t] + 1] /\ UNCHANGED pipe
  BY <1>1, <1>3, RingFacts, LineIndex DEF LockAgain, Goto, Q_empty
<1>5. /\ Q'.size = Q.size /\ Q'.head = Q.head /\ Q'.tail = Q.tail
      /\ Line'[1].ptr_thread = t
      /\ Line'[1].count = Line[1].count + 1
      /\ \A i \in 2 .. Q.size : Line'[i] = Line[i]
  BY <1>1, <1>4, RingFacts, CountLine DEF LockAgain
<1>6. /\ \A u \in Threads : pipe[u] = 0 /\ pc[u] # "unlock_wake"
      /\ \A u \in Threads : Owns(u) => u = t
      /\ depth[t] > 0 /\ Line[1].count = depth[t]
  <2>1. \A u \in Threads : pipe[u] = 0 /\ pc[u] # "unlock_wake"
    BY <1>1, <1>4 DEF TokenInv, SpinInv, InSection
  <2>2. Owns(t)
    BY <1>1, <1>4, <2>1 DEF ServedInv
  <2>3. depth[t] > 0
    BY <1>4, <2>2 DEF Owns
  <2> QED
    BY <1>1, <1>4, <2>1, <2>3 DEF OwnerInv, Unlocking
<1>7. SpinInv'
  BY <1>1, <1>4 DEF SpinInv, InSection, TypeOK
<1>8. RingInv'
  BY <1>1, <1>4, <1>5 DEF RingInv, Unlocking, TypeOK
<1>9. LineInv'
  <2>1. \A i \in 1 .. Q.size : Line'[i].ptr_thread = Line[i].ptr_thread
    BY <1>3, <1>4, <1>5
  <2>2. \A i \in 2 .. Q.size : Line[i].ptr_thread # t
    <3>1. 1 \in 1 .. Q.size /\ \A i \in 2 .. Q.size : i \in 1 .. Q.size /\ i # 1
      BY <1>3, <1>4
    <3> QED
      BY <3>1, <1>1, <1>4 DEF LineInv
  <2>3. \A i \in 2 .. Q.size : pc'[Line[i].ptr_thread] = "suspended"
    BY <1>1, <1>4, <2>2 DEF LineInv, TypeOK
  <2> QED
    BY <1>1, <1>5, <2>1, <2>3 DEF LineInv
<1>10. OwnerInv'
  <2>1. \A u \in Threads \ {t} : pc'[u] = pc[u] /\ depth'[u] = depth[u]
    BY <1>1, <1>4 DEF TypeOK
  <2>2. depth'[t] = depth[t] + 1 /\ pc'[t] = "client"
    BY <1>1, <1>4 DEF TypeOK
  <2> QED
    BY <1>1, <1>4, <1>5, <1>6, <2>1, <2>2 DEF OwnerInv, Owns, Unlocking, TypeOK
<1>11. TokenInv'
  BY <1>4, <1>6 DEF TokenInv
<1>12. WakeInv'
  BY <1>1, <1>4, <1>6 DEF WakeInv, TypeOK
<1>13. IdleInv'
  BY <1>1, <1>4 DEF IdleInv, TypeOK
<1>14. ServedInv'
  BY <1>1, <1>4, <1>5, <1>6 DEF ServedInv, Owns, TypeOK
<1> QED
  BY <1>2, <1>7, <1>8, <1>9, <1>10, <1>11, <1>12, <1>13, <1>14 DEF MutexInv

\* The owner gives back an inner level: the count follows the depth.
LEMMA UnlockNestedInv ==
    ASSUME MutexInv, NEW t \in Threads, UnlockNested(t)
    PROVE  MutexInv'
<1>1. /\ TypeOK /\ SpinInv /\ RingInv /\ LineInv /\ OwnerInv
      /\ TokenInv /\ WakeInv /\ IdleInv /\ ServedInv
  BY DEF MutexInv
<1>2. TypeOK'
  BY StepType DEF LibraryStep
<1>3. Q.size \in 0 .. MAX_Q_SIZE /\ Q.head \in Int /\ MAX_Q_SIZE \in Nat \ {0}
      /\ Line \in [1 .. MAX_Q_SIZE -> Q_member]
  BY <1>1, MutexConstants, RingFacts, LineIndex DEF TypeOK
<1>4. /\ pc[t] = "unlock_q" /\ Q.size > 0 /\ Line[1].count > 1 /\ M' = 0
      /\ pc' = [pc EXCEPT ![t] = "client"] /\ UNCHANGED <<pipe, depth>>
  BY <1>1, <1>3, RingFacts, LineIndex DEF UnlockNested, Goto, Q_empty
<1>5. /\ Line[1].ptr_thread = t /\ Line[1].count = depth[t] + 1 /\ depth[t] > 0
      /\ \A u \in Threads : Owns(u) => u = t
      /\ \A u \in Threads : pipe[u] = 0 /\ pc[u] # "unlock_wake"
  <2>1. Owns(t) /\ pc[t] \in Unlocking
    BY <1>4 DEF Owns, Unlocking
  <2>2. Line[1].ptr_thread = t /\ Line[1].count = depth[t] + 1
    BY <1>1, <2>1 DEF OwnerInv
  <2>3. depth[t] > 0
    BY <1>1, <1>4, <2>2 DEF TypeOK
  <2>4. \A u \in Threads : pipe[u] = 0 /\ pc[u] # "unlock_wake"
    BY <1>1, <1>4, <2>2 DEF TokenInv, SpinInv, InSection
  <2> QED
    BY <1>1, <2>2, <2>3, <2>4 DEF OwnerInv
<1>6. /\ Q'.size = Q.size /\ Q'.head = Q.head /\ Q'.tail = Q.tail
      /\ Line'[1].ptr_thread = t
      /\ Line'[1].count = depth[t]
      /\ \A i \in 2 .. Q.size : Line'[i] = Line[i]
  <2>1. Line'[1].count = Line[1].count + (-1)
    BY <1>1, <1>4, RingFacts, CountLine DEF UnlockNested
  <2>2. Line'[1].count = depth[t]
    BY <1>1, <1>5, <2>1 DEF TypeOK
  <2> QED
    BY <1>1, <1>4, <1>5, <2>2, RingFacts, CountLine DEF UnlockNested
<1>7. SpinInv'
  BY <1>1, <1>4 DEF SpinInv, InSection, TypeOK
<1>8. RingInv'
  BY <1>1, <1>4, <1>6 DEF RingInv, Unlocking, TypeOK
<1>9. LineInv'
  <2>1. \A i \in 1 .. Q.size : Line'[i].ptr_thread = Line[i].ptr_thread
    BY <1>3, <1>4, <1>5, <1>6
  <2>2. \A i \in 2 .. Q.size : Line[i].ptr_thread # t
    <3>1. 1 \in 1 .. Q.size /\ \A i \in 2 .. Q.size : i \in 1 .. Q.size /\ i # 1
      BY <1>3, <1>4
    <3> QED
      BY <3>1, <1>1, <1>5 DEF LineInv
  <2>3. \A i \in 2 .. Q.size : pc'[Line[i].ptr_thread] = "suspended"
    BY <1>1, <1>4, <2>2 DEF LineInv, TypeOK
  <2> QED
    BY <1>1, <1>6, <2>1, <2>3 DEF LineInv
<1>10. OwnerInv'
  <2>1. \A u \in Threads \ {t} : pc'[u] = pc[u] /\ depth'[u] = depth[u]
    BY <1>1, <1>4 DEF TypeOK
  <2>2. depth'[t] = depth[t] /\ pc'[t] = "client"
    BY <1>1, <1>4 DEF TypeOK
  <2> QED
    BY <1>1, <1>4, <1>5, <1>6, <2>1, <2>2 DEF OwnerInv, Owns, Unlocking, TypeOK
<1>11. TokenInv'
  BY <1>4, <1>5 DEF TokenInv
<1>12. WakeInv'
  BY <1>1, <1>4, <1>5 DEF WakeInv, TypeOK
<1>13. IdleInv'
  BY <1>1, <1>4 DEF IdleInv, TypeOK
<1>14. ServedInv'
  BY <1>1, <1>4, <1>5, <1>6 DEF ServedInv, Owns, TypeOK
<1> QED
  BY <1>2, <1>7, <1>8, <1>9, <1>10, <1>11, <1>12, <1>13, <1>14 DEF MutexInv

\* A latecomer is added at the end of the line, or not at all, and sleeps.
LEMMA LockBusyInv ==
    ASSUME MutexInv, NEW t \in Threads, LockBusy(t)
    PROVE  MutexInv'
<1>1. /\ TypeOK /\ SpinInv /\ RingInv /\ LineInv /\ OwnerInv
      /\ TokenInv /\ WakeInv /\ IdleInv /\ ServedInv
  BY DEF MutexInv
<1>2. TypeOK'
  BY StepType DEF LibraryStep
<1>3. Q.size \in 0 .. MAX_Q_SIZE /\ Q.head \in Int /\ MAX_Q_SIZE \in Nat \ {0}
      /\ Line \in [1 .. MAX_Q_SIZE -> Q_member]
  BY <1>1, MutexConstants, RingFacts, LineIndex DEF TypeOK
<1>4. /\ pc[t] = "lock_q" /\ Q.size > 0 /\ Line[1].ptr_thread # t /\ M' = 0
      /\ pc' = [pc EXCEPT ![t] = "suspended"] /\ UNCHANGED <<pipe, depth>>
  BY <1>1, <1>3, RingFacts, LineIndex DEF LockBusy, Goto, Q_empty
<1>5. /\ Q'.head = Q.head
      /\ Q'.tail = (Q'.head + Q'.size) % MAX_Q_SIZE
      /\ \A i \in 1 .. Q.size : Line'[i] = Line[i]
      /\ \/ Q'.size = Q.size
         \/ Q'.size = Q.size + 1 /\ Line'[Q.size + 1] = [ptr_thread |-> t, count |-> 1]
  <2>1. Q' = Q_push(Q, t)
    BY DEF LockBusy
  <2>2. CASE Q.size >= MAX_Q_SIZE
    <3>1. Q' = Q
      BY <2>1, <2>2 DEF Q_push
    <3>2. Line' = Line
      BY <3>1 DEF Line
    <3> QED
      BY <1>1, <3>1, <3>2 DEF RingInv
  <2>3. CASE Q.size < MAX_Q_SIZE
    BY <1>1, <2>1, <2>3, RingFacts, PushLine
  <2> QED
    BY <1>3, <2>2, <2>3
<1>6. /\ 1 \in 1 .. Q.size /\ Line'[1] = Line[1]
      /\ \A u \in Threads : pc[u] # "unlock_wake"
      /\ \A i \in 1 .. Q.size : Line[i].ptr_thread \in Threads \ {t}
      /\ ~Owns(t) /\ depth[t] = 0 /\ pipe[t] = 0
  <2>1. 1 \in 1 .. Q.size
    BY <1>3, <1>4
  <2>2. \A i \in 1 .. Q.size : i = 1 \/ i \in 2 .. Q.size
    BY <1>3
  <2>3. \A i \in 1 .. Q.size : Line[i].ptr_thread \in Threads \ {t}
    BY <1>1, <1>4, <2>2 DEF LineInv
  <2>4. \A u \in Threads : pc[u] # "unlock_wake"
    BY <1>1, <1>4 DEF SpinInv, InSection
  <2>5. ~Owns(t)
    BY <1>1, <1>4 DEF OwnerInv
  <2>6. depth[t] = 0
    BY <1>1, <2>5 DEF Owns, TypeOK
  <2>7. pipe[t] = 0
    BY <1>1, <1>4 DEF TokenInv
  <2> QED
    BY <1>5, <2>1, <2>3, <2>4, <2>5, <2>6, <2>7
<1>7. SpinInv'
  BY <1>1, <1>4 DEF SpinInv, InSection, TypeOK
<1>8. RingInv'
  BY <1>1, <1>4, <1>5 DEF RingInv, Unlocking, TypeOK
<1>9. LineInv'
  <2>1. \A i \in 1 .. Q.size : pc[Line[i].ptr_thread] = pc'[Line[i].ptr_thread]
    BY <1>1, <1>4, <1>6 DEF TypeOK
  <2>2. pc'[t] = "suspended"
    BY <1>1, <1>4 DEF TypeOK
  <2>3. \A i \in 2 .. Q.size : i \in 1 .. Q.size
    BY <1>3
  <2>4. CASE Q'.size = Q.size
    BY <1>1, <1>5, <2>1, <2>3, <2>4 DEF LineInv
  <2>5. CASE Q'.size = Q.size + 1 /\ Line'[Q.size + 1] = [ptr_thread |-> t, count |-> 1]
    <3>1. /\ \A i \in 1 .. Q'.size : i \in 1 .. Q.size \/ i = Q.size + 1
          /\ \A i \in 2 .. Q'.size : i \in 2 .. Q.size \/ i = Q.size + 1
      BY <1>3, <2>5
    <3>2. Line'[Q.size + 1].ptr_thread = t /\ Line'[Q.size + 1].count = 1
      BY <2>5
    <3>3. \A i \in 1 .. Q'.size : Line'[i].ptr_thread \in Threads
      BY <1>5, <1>6, <3>1, <3>2
    <3>4. \A i \in 2 .. Q'.size : /\ pc'[Line'[i].ptr_thread] = "suspended"
                                  /\ Line'[i].count = 1
      BY <1>1, <1>5, <2>1, <2>2, <2>3, <3>1, <3>2 DEF LineInv
    <3>5. \A i, j \in 1 .. Q'.size :
            Line'[i].ptr_thread = Line'[j].ptr_thread => i = j
      BY <1>1, <1>5, <1>6, <3>1, <3>2 DEF LineInv
    <3> QED
      BY <3>3, <3>4, <3>5 DEF LineInv
  <2> QED
    BY <1>5, <2>4, <2>5
<1>10. OwnerInv'
  <2>1. \A u \in Threads \ {t} : pc'[u] = pc[u]
    BY <1>1, <1>4 DEF TypeOK
  <2>2. pc'[t] = "suspended" /\ depth'[t] = 0 /\ Q'.size > 0
    BY <1>1, <1>3, <1>4, <1>5, <1>6 DEF TypeOK
  <2> QED
    BY <1>1, <1>4, <1>6, <2>1, <2>2 DEF OwnerInv, Owns, Unlocking, TypeOK
<1>11. TokenInv'
  <2>1. Q'.size > 0
    BY <1>3, <1>4, <1>5
  <2> QED
    BY <1>1, <1>4, <1>6, <2>1 DEF TokenInv, TypeOK
<1>12. WakeInv'
  BY <1>1, <1>4, <1>6 DEF WakeInv, TypeOK
<1>13. IdleInv'
  BY <1>1, <1>4, <1>6 DEF IdleInv, TypeOK
<1>14. ServedInv'
  BY <1>1, <1>4, <1>5, <1>6 DEF ServedInv, Owns, TypeOK
<1> QED
  BY <1>2, <1>7, <1>8, <1>9, <1>10, <1>11, <1>12, <1>13, <1>14 DEF MutexInv

\* The owner leaves the line and the next thread, asleep, comes first.
LEMMA UnlockLastInv ==
    ASSUME MutexInv, NEW t \in Threads, UnlockLast(t)
    PROVE  MutexInv'
<1>1. /\ TypeOK /\ SpinInv /\ RingInv /\ LineInv /\ OwnerInv
      /\ TokenInv /\ WakeInv /\ IdleInv /\ ServedInv
  BY DEF MutexInv
<1>2. TypeOK'
  BY StepType DEF LibraryStep
<1>3. Q.size \in 0 .. MAX_Q_SIZE /\ Q.head \in Int /\ MAX_Q_SIZE \in Nat \ {0}
      /\ Line \in [1 .. MAX_Q_SIZE -> Q_member]
  BY <1>1, MutexConstants, RingFacts, LineIndex DEF TypeOK
<1>4. /\ pc[t] = "unlock_q" /\ Q.size > 0 /\ Line[1].count = 1
      /\ Line[1].ptr_thread = t /\ UNCHANGED <<M, pipe, depth>>
      /\ pc' = [pc EXCEPT ![t] = IF Q'.size = 0 THEN "unlock_rel" ELSE "unlock_wake"]
  BY <1>1, <1>3, RingFacts, LineIndex DEF UnlockLast, Goto, Q_empty
<1>5. /\ Q.head < MaxHead /\ depth[t] = 0
      /\ \A u \in Threads : Owns(u) => u = t
      /\ \A u \in Threads : pipe[u] = 0 /\ pc[u] # "unlock_wake"
  <2>1. Q.head < MaxHead
    BY <1>1, <1>4 DEF RingInv, Unlocking
  <2>2. \A u \in Threads : pipe[u] = 0 /\ pc[u] # "unlock_wake"
    BY <1>1, <1>4 DEF TokenInv, SpinInv, InSection
  <2>3. depth[t] = 0
    BY <1>1, <1>4 DEF OwnerInv, Unlocking, TypeOK
  <2> QED
    BY <1>1, <1>4, <2>1, <2>2, <2>3 DEF OwnerInv
<1>6. /\ Q'.size = Q.size - 1
      /\ Q'.head >= Q.head /\ Q'.head =< MaxHead
      /\ Q'.tail = (Q'.head + Q'.size) % MAX_Q_SIZE
      /\ \A i \in 1 .. Q.size - 1 : Line'[i] = Line[i + 1]
  <2>1. /\ Q'.size = Q.size - 1 /\ Q'.head \in {Q.head, Q.head + 1}
        /\ Q'.tail = (Q'.head + Q'.size) % MAX_Q_SIZE
        /\ \A i \in 1 .. Q.size - 1 : Line'[i] = Line[i + 1]
    BY <1>1, <1>4, RingFacts, PopLine DEF UnlockLast
  <2>2. Q'.head >= Q.head /\ Q'.head =< MaxHead
    BY <1>3, <1>5, <2>1, MutexConstants
  <2> QED
    BY <2>1, <2>2
<1>7. /\ \A i \in 1 .. Q'.size : i \in 1 .. Q.size /\ i + 1 \in 2 .. Q.size
                               /\ i + 1 \in 1 .. Q.size /\ Line'[i] = Line[i + 1]
      /\ \A i \in 2 .. Q'.size : i \in 1 .. Q'.size
      /\ \A i \in 2 .. Q.size : i \in 1 .. Q.size /\ i # 1
      /\ 1 \in 1 .. Q.size
  BY <1>3, <1>4, <1>6
<1>8. \A i \in 2 .. Q.size : /\ Line[i].ptr_thread \in Threads \ {t}
                             /\ pc'[Line[i].ptr_thread] = "suspended"
                             /\ Line[i].count = 1
  <2>1. \A i \in 2 .. Q.size : Line[i].ptr_thread \in Threads \ {t}
    BY <1>1, <1>4, <1>7 DEF LineInv
  <2> QED
    BY <1>1, <1>4, <2>1 DEF LineInv, TypeOK
<1>9. SpinInv'
  <2>1. pc'[t] \in InSection /\ \A u \in Threads \ {t} : pc'[u] = pc[u]
    BY <1>1, <1>4 DEF InSection, TypeOK
  <2>2. pc[t] \in InSection
    BY <1>4 DEF InSection
  <2> QED
    BY <1>1, <1>4, <2>1, <2>2 DEF SpinInv
<1>10. RingInv'
  <2>1. \A u \in Threads : pc'[u] \notin Unlocking
    BY <1>1, <1>4, <1>5 DEF Unlocking, TypeOK, Owns
  <2>2. MAX_Q_SIZE - 1 =< Q'.head
    BY <1>1, <1>2, <1>3, <1>6 DEF RingInv, TypeOK
  <2> QED
    BY <1>6, <2>1, <2>2 DEF RingInv
<1>11. LineInv'
  <2>1. \A i \in 1 .. Q'.size : Line'[i].ptr_thread \in Threads
    BY <1>7, <1>8
  <2>2. \A i \in 2 .. Q'.size : /\ pc'[Line'[i].ptr_thread] = "suspended"
                                /\ Line'[i].count = 1
    BY <1>7, <1>8
  <2>3. ASSUME NEW i \in 1 .. Q'.size, NEW j \in 1 .. Q'.size,
               Line'[i].ptr_thread = Line'[j].ptr_thread
        PROVE  i = j
    <3>1. i + 1 = j + 1
      BY <1>1, <1>7, <2>3 DEF LineInv
    <3> QED
      BY <3>1
  <2> QED
    BY <2>1, <2>2, <2>3 DEF LineInv
<1>12. OwnerInv'
  <2>1. \A u \in Threads : pc'[u] \notin Unlocking /\ depth'[u] = 0
    BY <1>1, <1>4, <1>5 DEF Unlocking, TypeOK, Owns
  <2> QED
    BY <2>1 DEF OwnerInv, Owns, Unlocking
<1>13. TokenInv'
  BY <1>4, <1>5 DEF TokenInv
<1>14. WakeInv'
  <2>1. \A u \in Threads : pc'[u] = "unlock_wake" => u = t
    BY <1>1, <1>4, <1>5 DEF TypeOK
  <2>2. CASE Q'.size = 0
    BY <1>1, <1>4, <2>1, <2>2 DEF WakeInv, TypeOK
  <2>3. CASE Q'.size # 0
    <3>1. Q'.size > 0 /\ 1 \in 1 .. Q'.size
      BY <1>3, <1>4, <1>6, <2>3
    <3> QED
      BY <1>4, <1>5, <1>7, <1>8, <3>1 DEF WakeInv
  <2> QED
    BY <2>2, <2>3
<1>15. IdleInv'
  BY <1>1, <1>4, <1>5 DEF IdleInv, TypeOK
<1>16. ServedInv'
  <2>1. Q'.size > 0 => pc'[t] = "unlock_wake"
    BY <1>1, <1>4 DEF TypeOK
  <2> QED
    BY <2>1 DEF ServedInv
<1> QED
  BY <1>2, <1>9, <1>10, <1>11, <1>12, <1>13, <1>14, <1>15, <1>16 DEF MutexInv

-----------------------------------------------------------------------------
(* The theorems.                                                           *)

\* The mutex as sthread_mutex_init leaves it.
LEMMA InitInv == Init => MutexInv
<1> SUFFICES ASSUME Init PROVE MutexInv
  OBVIOUS
<1>1. TypeOK
  BY InitType
<1>2. Q.size = 0 /\ Q.head = -1 + MAX_Q_SIZE /\ Q.tail = -1 + MAX_Q_SIZE
  BY DEF Init, Q_init
<1>3. \A t \in Threads : pc[t] = "client" /\ pipe[t] = 0 /\ depth[t] = 0
  BY DEF Init
<1>4. (Q.head + Q.size) % MAX_Q_SIZE = Q.tail
  <2>0. MAX_Q_SIZE - 1 \in Int /\ MAX_Q_SIZE \in Nat \ {0}
    BY MutexConstants
  <2>1. /\ MAX_Q_SIZE - 1 = MAX_Q_SIZE * ((MAX_Q_SIZE - 1) \div MAX_Q_SIZE)
                              + ((MAX_Q_SIZE - 1) % MAX_Q_SIZE)
        /\ (MAX_Q_SIZE - 1) % MAX_Q_SIZE \in 0 .. MAX_Q_SIZE - 1
        /\ (MAX_Q_SIZE - 1) \div MAX_Q_SIZE \in Int
    BY <2>0, DivMod
  <2>2. (MAX_Q_SIZE - 1) % MAX_Q_SIZE = MAX_Q_SIZE - 1
    BY <2>1, MutexConstants, SMT
  <2>3. Q.head + Q.size = MAX_Q_SIZE - 1 /\ Q.tail = MAX_Q_SIZE - 1
    BY <1>2, MutexConstants
  <2> QED
    BY <2>2, <2>3
<1>5. RingInv
  BY <1>2, <1>3, <1>4, MutexConstants, HeadFits DEF RingInv, Unlocking
<1>6. SpinInv
  BY <1>3 DEF SpinInv, InSection, Init
<1>7. LineInv /\ ServedInv
  BY <1>2 DEF LineInv, ServedInv
<1>8. OwnerInv /\ TokenInv /\ WakeInv /\ IdleInv
  BY <1>3 DEF OwnerInv, Owns, Unlocking, TokenInv, WakeInv, IdleInv
<1> QED
  BY <1>1, <1>5, <1>6, <1>7, <1>8 DEF MutexInv

\* A step that changes nothing the mutex consists of.
LEMMA StutterInv ==
    ASSUME MutexInv, UNCHANGED vars
    PROVE  MutexInv'
<1>1. Q' = Q /\ M' = M /\ pc' = pc /\ pipe' = pipe /\ depth' = depth
  BY DEF vars
<1>2. Line' = Line
  BY <1>1 DEF Line
<1>3. TypeOK' /\ SpinInv' /\ RingInv' /\ LineInv'
  BY <1>1, <1>2 DEF MutexInv, TypeOK, SpinInv, RingInv, LineInv
<1>4. OwnerInv' /\ TokenInv' /\ WakeInv' /\ IdleInv' /\ ServedInv'
  BY <1>1, <1>2 DEF MutexInv, OwnerInv, Owns, TokenInv, WakeInv, IdleInv, ServedInv
<1> QED
  BY <1>3, <1>4 DEF MutexInv

\* The invariant of sthread_mutex_lock and sthread_mutex_unlock, for every set
\* of threads, every MAX_Q_SIZE and every nesting depth, as long as head has
\* not overflowed.
THEOREM MutexCorrect == Spec => []MutexInv
<1>1. Init => MutexInv
  BY InitInv
<1>2. MutexInv /\ [Next]_vars => MutexInv'
  <2> SUFFICES ASSUME MutexInv, [Next]_vars PROVE MutexInv'
    OBVIOUS
  <2>1. ASSUME NEW t \in Threads, TestAndSet(t) PROVE MutexInv'
    BY <2>1, TestAndSetInv
  <2>2. ASSUME NEW t \in Threads, LockCall(t) PROVE MutexInv'
    BY <2>2, LockCallInv
  <2>3. ASSUME NEW t \in Threads, LockFree(t) PROVE MutexInv'
    BY <2>3, LockFreeInv
  <2>4. ASSUME NEW t \in Threads, LockAgain(t) PROVE MutexInv'
    BY <2>4, LockAgainInv
  <2>5. ASSUME NEW t \in Threads, LockBusy(t) PROVE MutexInv'
    BY <2>5, LockBusyInv
  <2>6. ASSUME NEW t \in Threads, Resume(t) PROVE MutexInv'
    BY <2>6, ResumeInv
  <2>7. ASSUME NEW t \in Threads, UnlockCall(t) PROVE MutexInv'
    BY <2>7, UnlockCallInv
  <2>8. ASSUME NEW t \in Threads, UnlockLast(t) PROVE MutexInv'
    BY <2>8, UnlockLastInv
  <2>9. ASSUME NEW t \in Threads, UnlockWake(t) PROVE MutexInv'
    BY <2>9, UnlockWakeInv
  <2>10. ASSUME NEW t \in Threads, UnlockRelease(t) PROVE MutexInv'
    BY <2>10, UnlockReleaseInv
  <2>11. ASSUME NEW t \in Threads, UnlockNested(t) PROVE MutexInv'
    BY <2>11, UnlockNestedInv
  <2>12. CASE UNCHANGED vars
    BY <2>12, StutterInv
  <2> QED
    BY <2>1, <2>2, <2>3, <2>4, <2>5, <2>6, <2>7, <2>8, <2>9, <2>10, <2>11, <2>12 DEF Next, LibraryStep
<1> QED
  BY <1>1, <1>2, PTL DEF Spec

\* What the invariant says about the properties the runs check.
LEMMA InvImplies ==
    ASSUME MutexInv
    PROVE  /\ MutualExclusion
           /\ CountMatchesDepth
           /\ FirstIsServed
           /\ SpinlockReleased
           /\ IndexInBounds
<1>1. /\ TypeOK /\ SpinInv /\ RingInv /\ LineInv /\ OwnerInv /\ ServedInv /\ IdleInv
  BY DEF MutexInv
<1>2. Q_first(Q) = Line[1] /\ Index(Q, 1) \in Slots
  <2>1. 1 \in 1 .. MAX_Q_SIZE
    BY MutexConstants
  <2> QED
    BY <1>1, <2>1, RingFacts, LineIndex
<1>3. MutualExclusion
  BY <1>1 DEF MutualExclusion, OwnerInv, Owns
<1>4. CountMatchesDepth
  <2> SUFFICES ASSUME NEW t \in Threads, Owns(t)
               PROVE  /\ ~Q_empty(Q)
                      /\ Q_first(Q).ptr_thread = t
                      /\ Q_first(Q).count = depth[t] +
                           (IF pc[t] \in {"unlock_spin", "unlock_q"} THEN 1 ELSE 0)
    BY DEF CountMatchesDepth
  <2>1. Q.size > 0 /\ Line[1].ptr_thread = t /\ depth[t] \in Nat
    BY <1>1 DEF OwnerInv, TypeOK
  <2>2. CASE pc[t] \in Unlocking
    BY <1>1, <1>2, <2>1, <2>2 DEF OwnerInv, Unlocking, Q_empty
  <2>3. CASE pc[t] \notin Unlocking
    <3>1. depth[t] > 0
      BY <2>3 DEF Owns, Unlocking
    <3> QED
      BY <1>1, <1>2, <2>1, <2>3, <3>1 DEF OwnerInv, Unlocking, Q_empty
  <2> QED
    BY <2>2, <2>3
<1>5. FirstIsServed
  BY <1>1, <1>2 DEF FirstIsServed, ServedInv, Q_empty, TypeOK
<1>6. SpinlockReleased
  BY <1>1 DEF SpinlockReleased, SpinInv
<1>7. IndexInBounds
  BY <1>1, <1>2 DEF IndexInBounds, TypeOK
<1> QED
  BY <1>3, <1>4, <1>5, <1>6, <1>7

\* No two threads are ever between the return of an outermost
\* sthread_mutex_lock and the call of the matching sthread_mutex_unlock.
THEOREM MutualExclusionHolds == Spec => []MutualExclusion
  BY MutexCorrect, InvImplies, PTL

\* The first slot's count is exactly the number of levels its owner has to
\* give back, so the outermost unlock, and no other, hands the mutex over.
THEOREM CountIsDepth == Spec => []CountMatchesDepth
  BY MutexCorrect, InvImplies, PTL

\* No wake-up is lost: the thread that is first in the queue owns the mutex,
\* has its message, or is about to be sent it.
THEOREM NoLostWakeup == Spec => []FirstIsServed
  BY MutexCorrect, InvImplies, PTL

\* lock and unlock, used as intended, never leave the spinlock set.
THEOREM SpinlockIsReleased == Spec => []SpinlockReleased
  BY MutexCorrect, InvImplies, PTL

\* Before the overflow every access to the ring buffer is inside the array,
\* although head runs past its end.
THEOREM IndicesInBounds == Spec => []IndexInBounds
  BY MutexCorrect, InvImplies, PTL

-----------------------------------------------------------------------------
(***************************************************************************)
(* Clients that also try, destroy and unlock what they do not hold         *)
(* (SpecAll).  The spinlock still protects the queue, and the queue keeps  *)
(* its shape, so that unlock's last else branch is never reached through a *)
(* slot without a count.                                                   *)
(***************************************************************************)

\* Every operation of the library, in the order in which the proofs take them.
LEMMA AllSteps ==
    ASSUME NextAll
    PROVE  \E t \in Threads :
              \/ TestAndSet(t) \/ LockCall(t) \/ UnlockCall(t) \/ Resume(t)
              \/ ForeignUnlockCall(t) \/ TrylockCall(t) \/ DestroyCall(t)
              \/ LockFree(t) \/ LockAgain(t) \/ LockBusy(t)
              \/ UnlockLast(t) \/ UnlockWake(t) \/ UnlockRelease(t) \/ UnlockNested(t)
              \/ UnlockError(t) \/ UnlockNull(t)
              \/ TrylockPush(t) \/ TrylockAgain(t) \/ DestroyReturn(t)
  BY DEF NextAll, Next, LibraryStep, ForeignStep, TrylockStep, DestroyStep

\* A thread enters the section through test_and_set only, and inside it no
\* other thread clears M.
LEMMA SpinHeldStep ==
    ASSUME TypeOK, SpinHeld, [NextAll]_vars
    PROVE  SpinHeld'
<1> USE DEF SpinHeld, SpinlockExclusive, TypeOK, InSection, Goto
<1>1. CASE UNCHANGED vars
  BY <1>1 DEF vars
<1>2. ASSUME NEW t \in Threads, TestAndSet(t) PROVE SpinHeld'
  BY <1>2, SpinFacts DEF TestAndSet
<1>3. ASSUME NEW t \in Threads,
             \/ LockCall(t) \/ UnlockCall(t) \/ Resume(t)
             \/ ForeignUnlockCall(t) \/ TrylockCall(t) \/ DestroyCall(t)
      PROVE  SpinHeld'
  BY <1>3 DEF LockCall, UnlockCall, Resume, ForeignUnlockCall, TrylockCall, DestroyCall
<1>4. ASSUME NEW t \in Threads,
             \/ LockFree(t) \/ LockAgain(t) \/ LockBusy(t) \/ UnlockRelease(t)
             \/ UnlockNested(t) \/ TrylockPush(t) \/ TrylockAgain(t)
      PROVE  SpinHeld'
  BY <1>4 DEF LockFree, LockAgain, LockBusy, UnlockRelease, UnlockNested,
              TrylockPush, TrylockAgain
<1>5. ASSUME NEW t \in Threads,
             \/ UnlockLast(t) \/ UnlockWake(t) \/ UnlockError(t) \/ UnlockNull(t)
             \/ DestroyReturn(t)
      PROVE  SpinHeld'
  BY <1>5 DEF UnlockLast, UnlockWake, UnlockError, UnlockNull, DestroyReturn
<1> QED
  BY <1>1, <1>2, <1>3, <1>4, <1>5, AllSteps

\* The queue routines never run concurrently, whatever operations the threads
\* call (sync.c: every routine spins on test_and_set first).
THEOREM SpinlockIsExclusive == SpecAll => []SpinlockExclusive
<1>1. Init => SpinHeld
  BY DEF Init, SpinHeld, SpinlockExclusive, InSection
<1>2. TypeOK /\ SpinHeld /\ [NextAll]_vars => SpinHeld'
  BY SpinHeldStep
<1>3. SpinHeld => SpinlockExclusive
  BY DEF SpinHeld
<1> QED
  BY <1>1, <1>2, <1>3, AllTypeCorrect, PTL DEF SpecAll

-----------------------------------------------------------------------------
(* The queue.                                                              *)

\* Every set of threads has a size.
LEMMA ThreadSets ==
    ASSUME IsFiniteSet(Threads), NEW S \in SUBSET Threads
    PROVE  /\ IsFiniteSet(S)
           /\ Cardinality(S) \in Nat
           /\ Cardinality(S) =< Cardinality(Threads)
           /\ Cardinality(Threads) \in Nat
           /\ S = {} <=> Cardinality(S) = 0
  BY FS_Subset, FS_CardinalityType, FS_EmptySet

\* The arithmetic of head cannot overflow within the bounds.
LEMMA AllRing ==
    ASSUME IsFiniteSet(Threads), MaxHead + Cardinality(Threads) + MAX_Q_SIZE =< INT_MAX,
           TypeOK, HeadBound, SlotsInv
    PROVE  RingOK
<1>1. Cardinality(Unlockers) \in Nat /\ Cardinality(Threads) \in Nat
  BY ThreadSets DEF Unlockers
<1>2. Q.head \in Int
  BY DEF TypeOK
<1> QED
  BY <1>1, <1>2, MutexConstants DEF HeadBound, SlotsInv, RingOK

\* A step that leaves the queue alone and starts no unlock.
LEMMA QueueFrame ==
    ASSUME IsFiniteSet(Threads), TypeOK, HeadBound, SlotsInv, Q' = Q,
           Unlockers' \subseteq Unlockers
    PROVE  HeadBound' /\ SlotsInv'
<1>1. Line' = Line
  BY DEF Line
<1>2. /\ Cardinality(Unlockers') \in Nat /\ Cardinality(Unlockers) \in Nat
      /\ Cardinality(Unlockers') =< Cardinality(Unlockers)
  BY ThreadSets, FS_Subset DEF Unlockers
<1>3. Q.head \in Int /\ Cardinality(Threads) \in Nat
  BY ThreadSets DEF TypeOK
<1>4. HeadBound'
  BY <1>2, <1>3, MutexConstants DEF HeadBound
<1>5. SlotsInv'
  BY <1>1 DEF SlotsInv
<1> QED
  BY <1>4, <1>5

\* An unlock begins while head is below its bound.
LEMMA UnlockBegins ==
    ASSUME IsFiniteSet(Threads), TypeOK, HeadBound, SlotsInv, Q' = Q,
           Q.head < MaxHead
    PROVE  HeadBound' /\ SlotsInv'
<1>1. Line' = Line
  BY DEF Line
<1>2. /\ Cardinality(Unlockers') \in Nat
      /\ Cardinality(Unlockers') =< Cardinality(Threads)
      /\ Cardinality(Threads) \in Nat
  <2>1. Unlockers' \in SUBSET Threads
    BY DEF Unlockers
  <2> QED
    BY <2>1, ThreadSets
<1>3. HeadBound'
  BY <1>2, MutexConstants DEF HeadBound, TypeOK
<1>4. SlotsInv'
  BY <1>1 DEF SlotsInv
<1> QED
  BY <1>3, <1>4

\* Q_push adds a slot with a thread and count 1, or nothing.
LEMMA PushSlots ==
    ASSUME IsFiniteSet(Threads), TypeOK, RingOK, HeadBound, SlotsInv,
           NEW t \in Threads, Q' = Q_push(Q, t), Unlockers' \subseteq Unlockers
    PROVE  HeadBound' /\ SlotsInv'
<1>1. CASE Q.size >= MAX_Q_SIZE
  <2>1. Q' = Q
    BY <1>1 DEF Q_push
  <2> QED
    BY <2>1, QueueFrame
<1>2. CASE ~(Q.size >= MAX_Q_SIZE)
  <2>1. Q.size \in 0 .. MAX_Q_SIZE /\ MAX_Q_SIZE \in Nat /\ Q.head \in Int
    BY MutexConstants DEF TypeOK
  <2>2. Q.size < MAX_Q_SIZE
    BY <1>2, <2>1
  <2>3. /\ Q'.size = Q.size + 1
        /\ Q'.head = Q.head
        /\ Q'.tail = (Q'.head + Q'.size) % MAX_Q_SIZE
        /\ \A i \in 1 .. Q.size : Line'[i] = Line[i]
        /\ Line'[Q.size + 1] = [ptr_thread |-> t, count |-> 1]
    BY <2>2, PushLine
  <2>4. \A i \in 1 .. Q'.size : i \in 1 .. Q.size \/ i = Q.size + 1
    BY <2>1, <2>3
  <2>5. SlotsInv'
    BY <2>3, <2>4 DEF SlotsInv
  <2>6. /\ Cardinality(Unlockers') \in Nat /\ Cardinality(Unlockers) \in Nat
        /\ Cardinality(Unlockers') =< Cardinality(Unlockers)
        /\ Cardinality(Threads) \in Nat
    BY ThreadSets, FS_Subset DEF Unlockers
  <2>7. HeadBound'
    BY <2>1, <2>3, <2>6, MutexConstants DEF HeadBound
  <2> QED
    BY <2>5, <2>7
<1> QED
  BY <1>1, <1>2

\* A nested lock or unlock changes the first slot's count.
LEMMA CountSlots ==
    ASSUME IsFiniteSet(Threads), TypeOK, RingOK, HeadBound, SlotsInv,
           NEW d \in {-1, 1}, Q.size > 0, Line[1].count + d > 0,
           Q' = AddCount(Q, d), Unlockers' \subseteq Unlockers
    PROVE  HeadBound' /\ SlotsInv'
<1>1. Q.size \in 0 .. MAX_Q_SIZE /\ MAX_Q_SIZE \in Nat /\ Q.head \in Int
  BY MutexConstants DEF TypeOK
<1>2. /\ Q'.size = Q.size /\ Q'.head = Q.head /\ Q'.tail = Q.tail
      /\ Line'[1].ptr_thread = Line[1].ptr_thread
      /\ Line'[1].count = Line[1].count + d
      /\ \A i \in 2 .. Q.size : Line'[i] = Line[i]
  BY CountLine
<1>3. \A i \in 1 .. Q.size : i = 1 \/ i \in 2 .. Q.size
  BY <1>1
<1>4. SlotsInv'
  BY <1>2, <1>3 DEF SlotsInv
<1>5. /\ Cardinality(Unlockers') \in Nat /\ Cardinality(Unlockers) \in Nat
      /\ Cardinality(Unlockers') =< Cardinality(Unlockers)
      /\ Cardinality(Threads) \in Nat
  BY ThreadSets, FS_Subset DEF Unlockers
<1>6. HeadBound'
  BY <1>1, <1>2, <1>5, MutexConstants DEF HeadBound
<1> QED
  BY <1>4, <1>6

\* Q_pop by an unlock under way, which is over with it.
LEMMA PopSlots ==
    ASSUME IsFiniteSet(Threads), TypeOK, RingOK, HeadBound, SlotsInv,
           NEW t \in Unlockers, Q.size > 0, Q' = Q_pop(Q),
           Unlockers' = Unlockers \ {t}
    PROVE  HeadBound' /\ SlotsInv'
<1>1. Q.size \in 1 .. MAX_Q_SIZE /\ MAX_Q_SIZE \in Nat /\ Q.head \in Int
  BY MutexConstants DEF TypeOK
<1>2. /\ Q'.size = Q.size - 1
      /\ Q'.head \in {Q.head, Q.head + 1}
      /\ Q'.tail = (Q'.head + Q'.size) % MAX_Q_SIZE
      /\ \A i \in 1 .. Q.size - 1 : Line'[i] = Line[i + 1]
  BY PopLine
<1>3. \A i \in 1 .. Q'.size : i \in 1 .. Q.size - 1 /\ i + 1 \in 1 .. Q.size
  BY <1>1, <1>2
<1>4. SlotsInv'
  BY <1>2, <1>3 DEF SlotsInv
<1>5. /\ Cardinality(Unlockers) \in Nat /\ Cardinality(Threads) \in Nat
      /\ Cardinality(Unlockers') = Cardinality(Unlockers) - 1
  <2>1. Unlockers \in SUBSET Threads
    BY DEF Unlockers
  <2>2. /\ IsFiniteSet(Unlockers)
        /\ Cardinality(Unlockers) \in Nat /\ Cardinality(Threads) \in Nat
    BY <2>1, ThreadSets
  <2>3. Cardinality(Unlockers \ {t}) = Cardinality(Unlockers) - 1
    BY <2>2, FS_RemoveElement
  <2> QED
    BY <2>2, <2>3
<1>6. HeadBound'
  BY <1>1, <1>2, <1>5, MutexConstants DEF HeadBound
<1> QED
  BY <1>4, <1>6

\* Every operation keeps the queue's shape.
LEMMA AllInvStep ==
    ASSUME IsFiniteSet(Threads), MaxHead + Cardinality(Threads) + MAX_Q_SIZE =< INT_MAX
    PROVE  AllInv /\ [NextAll]_vars => AllInv'
<1> SUFFICES ASSUME AllInv, [NextAll]_vars PROVE AllInv'
  OBVIOUS
<1>1. TypeOK /\ SpinHeld /\ HeadBound /\ SlotsInv /\ RingOK
  BY AllRing DEF AllInv
<1>2. TypeOK' /\ SpinHeld'
  BY <1>1, NextType, SpinHeldStep
<1>3. /\ Q.size \in 0 .. MAX_Q_SIZE
      /\ Line \in [1 .. MAX_Q_SIZE -> Q_member] /\ Q_first(Q) = Line[1]
      /\ MAX_Q_SIZE \in Nat \ {0}
  BY <1>1, LineIndex, MutexConstants DEF TypeOK
<1>4. Q.size > 0 => Line[1].count \in Nat /\ Line[1].count > 0
  BY <1>1, <1>3 DEF SlotsInv, Q_member
<1> SUFFICES HeadBound' /\ SlotsInv'
  BY <1>2 DEF AllInv
<1>5. CASE UNCHANGED vars
  BY <1>1, <1>5, QueueFrame DEF vars, Unlockers
<1>6. ASSUME NEW t \in Threads, TestAndSet(t) PROVE HeadBound' /\ SlotsInv'
  <2>1. Unlockers' \subseteq Unlockers
    BY <1>1, <1>6, SpinFacts DEF TestAndSet, Goto, Unlockers, Unlocking, TypeOK
  <2> QED
    BY <1>1, <1>6, <2>1, QueueFrame DEF TestAndSet
<1>7. ASSUME NEW t \in Threads,
             \/ LockCall(t) \/ Resume(t) \/ TrylockCall(t) \/ DestroyCall(t)
             \/ UnlockWake(t) \/ UnlockRelease(t) \/ UnlockError(t) \/ UnlockNull(t)
             \/ DestroyReturn(t)
      PROVE  HeadBound' /\ SlotsInv'
  <2>1. Unlockers' \subseteq Unlockers /\ Q' = Q
    BY <1>1, <1>7 DEF LockCall, Resume, TrylockCall, DestroyCall, UnlockWake,
       UnlockRelease, UnlockError, UnlockNull, DestroyReturn, Goto, Unlockers,
       Unlocking, TypeOK
  <2> QED
    BY <1>1, <2>1, QueueFrame
<1>8. ASSUME NEW t \in Threads, UnlockCall(t) \/ ForeignUnlockCall(t)
      PROVE  HeadBound' /\ SlotsInv'
  BY <1>1, <1>8, UnlockBegins DEF UnlockCall, ForeignUnlockCall
<1>9. ASSUME NEW t \in Threads, LockFree(t) \/ LockBusy(t) \/ TrylockPush(t)
      PROVE  HeadBound' /\ SlotsInv'
  <2>1. Unlockers' \subseteq Unlockers /\ Q' = Q_push(Q, t)
    BY <1>1, <1>9 DEF LockFree, LockBusy, TrylockPush, Goto, Unlockers, Unlocking, TypeOK
  <2> QED
    BY <1>1, <2>1, PushSlots
<1>10. ASSUME NEW t \in Threads, LockAgain(t) \/ TrylockAgain(t)
       PROVE  HeadBound' /\ SlotsInv'
  <2>1. Unlockers' \subseteq Unlockers /\ Q' = AddCount(Q, 1) /\ Q.size > 0
    BY <1>1, <1>3, <1>10 DEF LockAgain, TrylockAgain, Goto, Unlockers, Unlocking,
       TypeOK, Q_empty
  <2>2. Line[1].count + 1 > 0
    BY <1>4, <2>1
  <2> QED
    BY <1>1, <2>1, <2>2, CountSlots
<1>11. ASSUME NEW t \in Threads, UnlockNested(t) PROVE HeadBound' /\ SlotsInv'
  <2>1. /\ Unlockers' \subseteq Unlockers /\ Q' = AddCount(Q, -1) /\ Q.size > 0
        /\ Line[1].count > 1
    BY <1>1, <1>3, <1>11 DEF UnlockNested, Goto, Unlockers, Unlocking, TypeOK, Q_empty
  <2>2. Line[1].count + (-1) > 0
    BY <1>4, <2>1
  <2> QED
    BY <1>1, <2>1, <2>2, CountSlots
<1>12. ASSUME NEW t \in Threads, UnlockLast(t) PROVE HeadBound' /\ SlotsInv'
  <2>1. t \in Unlockers /\ Unlockers' = Unlockers \ {t} /\ Q' = Q_pop(Q) /\ Q.size > 0
    BY <1>1, <1>3, <1>12 DEF UnlockLast, Goto, Unlockers, Unlocking, TypeOK, Q_empty
  <2> QED
    BY <1>1, <2>1, PopSlots
<1> QED
  BY <1>5, <1>6, <1>7, <1>8, <1>9, <1>10, <1>11, <1>12, AllSteps

\* An empty queue has its shape.
LEMMA AllInvInit ==
    ASSUME IsFiniteSet(Threads)
    PROVE  Init => AllInv
<1> SUFFICES ASSUME Init PROVE AllInv
  OBVIOUS
<1>1. TypeOK /\ RingInv /\ Q.size = 0
  BY InitInv DEF MutexInv, Init, Q_init
<1>2. SpinHeld
  BY DEF Init, SpinHeld, SpinlockExclusive, InSection
<1>3. SlotsInv
  BY <1>1 DEF RingInv, SlotsInv
<1>4. Unlockers = {}
  BY DEF Unlockers, Unlocking, Init
<1>5. HeadBound
  <2>1. Cardinality(Unlockers) = 0 /\ Cardinality(Threads) \in Nat
    BY <1>4, FS_EmptySet, FS_CardinalityType
  <2> QED
    BY <1>1, <2>1, MutexConstants, HeadFits DEF HeadBound, RingInv, TypeOK
<1> QED
  BY <1>1, <1>2, <1>3, <1>5 DEF AllInv

\* The invariant of all operations together, for every finite set of threads,
\* as long as head is kept below the overflow.
THEOREM AllCorrect ==
    ASSUME IsFiniteSet(Threads), MaxHead + Cardinality(Threads) + MAX_Q_SIZE =< INT_MAX
    PROVE  SpecAll => []AllInv
<1> QED
  BY AllInvInit, AllInvStep, PTL DEF SpecAll

\* head and tail enclose size slots, each with a thread and a positive count,
\* after any sequence of lock, trylock, unlock and destroy, misuse included.
THEOREM QueueKeepsShape ==
    ASSUME IsFiniteSet(Threads), MaxHead + Cardinality(Threads) + MAX_Q_SIZE =< INT_MAX
    PROVE  SpecAll => []QueueShape
<1>1. AllInv => QueueShape
  <2> SUFFICES ASSUME AllInv PROVE QueueShape
    OBVIOUS
  <2>1. TypeOK /\ SlotsInv /\ RingOK
    BY AllRing DEF AllInv
  <2>2. \A i \in 1 .. Q.size : i \in 1 .. MAX_Q_SIZE
    BY <2>1, MutexConstants DEF TypeOK
  <2> QED
    BY <2>1, <2>2, LineIndex DEF SlotsInv, QueueShape
<1> QED
  BY <1>1, AllCorrect, PTL

=============================================================================
