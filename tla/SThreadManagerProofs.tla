------------------------ MODULE SThreadManagerProofs ------------------------
(***************************************************************************)
(* Proofs about the thread manager, for every number of threads.           *)
(*                                                                         *)
(* ManagerIInv is inductive: one lemma per action shows that the action    *)
(* keeps it.  The lemmas about the list come first; after them Listed and  *)
(* Senders stay unexpanded wherever the list and the pipe do not change.   *)
(***************************************************************************)
EXTENDS SThreadManagerInv, TLAPS

-----------------------------------------------------------------------------
(* The thread list.                                                        *)

\* threadlist_del looks at everything but the last two records.
LEMMA FrontIs ==
    ASSUME MTypeOK, ListShape
    PROVE  /\ Len(list) \in Nat
           /\ InFront = 1 .. (Len(list) - 2)
<1>1. Len(list) \in Nat /\ \A i \in 1..Len(list) : list[i] \in Records
  BY DEF MTypeOK
<1>2. \A i \in 1..Len(list) : list[i] = Manager <=> i = Len(list) - 1
  BY <1>1 DEF ListShape
<1> QED
  BY <1>1, <1>2, SMTT(60) DEF InFront, ListShape

\* The manager and the main thread are always listed.
LEMMA BothListed ==
    ASSUME MTypeOK, ListShape
    PROVE  Main \in Listed /\ Manager \in Listed /\ Listed \subseteq Records
<1>1. Len(list) \in Nat /\ \A i \in 1..Len(list) : list[i] \in Records
  BY DEF MTypeOK
<1>2. /\ Len(list) \in 1..Len(list) /\ list[Len(list)] = Main
      /\ Len(list) - 1 \in 1..Len(list) /\ list[Len(list) - 1] = Manager
  BY <1>1 DEF ListShape
<1> QED
  BY <1>1, <1>2 DEF Listed

\* A listed thread is at one place, in front of the manager.
LEMMA Place ==
    ASSUME MTypeOK, ListShape, NEW t \in Threads \cap Listed
    PROVE  \E i \in InFront : list[i] = t
<1>1. PICK i \in 1..Len(list) : list[i] = t
  BY DEF Listed
<1>2. i # Len(list) /\ i # Len(list) - 1
  BY <1>1, ManagerConstants DEF ListShape
<1> QED
  BY <1>1, <1>2, FrontIs

\* threadlist_add puts a record that is not listed in the list.
LEMMA Added ==
    ASSUME MTypeOK, ListShape, NEW t \in Threads \ Listed, threadlist_add(t)
    PROVE  /\ list' \in Seq(Records)
           /\ ListShape'
           /\ Listed' = Listed \cup {t}
<1>1. Len(list) \in Nat /\ list \in Seq(Records) /\ t \in Records
  BY DEF MTypeOK, Records
<1>2. /\ list' \in Seq(Records)
      /\ Len(list') = Len(list) + 1
      /\ list'[1] = t
      /\ \A i \in 1..Len(list) : list'[i + 1] = list[i]
  BY <1>1 DEF threadlist_add
<1>3. \A i \in 1..Len(list') : i = 1 \/ (i - 1 \in 1..Len(list) /\
      list'[i] = list[i - 1])
  BY <1>1, <1>2
<1>4. Listed' = Listed \cup {t}
  BY <1>1, <1>2, <1>3, SMTT(60) DEF Listed
<1>5. \A i \in 1..Len(list) : list[i] # t
  BY DEF Listed
<1>6. \A i, j \in 1..Len(list') : list'[i] = list'[j] => i = j
  BY <1>1, <1>2, <1>3, <1>5, SMTT(60) DEF ListShape
<1>7. Len(list') >= 2 /\ list'[Len(list')] = Main /\ list'[Len(list') - 1] = Manager
  <2>1. Len(list) >= 2 /\ list[Len(list)] = Main /\ list[Len(list) - 1] = Manager
    BY DEF ListShape
  <2>2. Len(list) \in 1..Len(list) /\ Len(list) - 1 \in 1..Len(list)
    BY <1>1, <2>1
  <2> QED
    BY <1>1, <1>2, <2>1, <2>2
<1> QED
  BY <1>2, <1>4, <1>6, <1>7 DEF ListShape

\* threadlist_del takes the record it was called for out of the list, if no
\* other listed record has its pid.
LEMMA Deleted ==
    ASSUME MTypeOK, ListShape, NEW t \in Threads \cap Listed,
           \A r \in Listed : pid[r] = pid[t] => r = t
    PROVE  /\ DelHits(t) # {}
           /\ threadlist_del(t) =>
                 /\ list' \in Seq(Records)
                 /\ ListShape'
                 /\ Listed' = Listed \ {t}
<1>1. PICK k \in InFront : list[k] = t
  BY Place
<1>2. Len(list) \in Nat /\ list \in Seq(Records) /\ k \in 1 .. (Len(list) - 2)
  BY FrontIs, <1>1 DEF MTypeOK
<1>3. \A i \in 1..Len(list) : list[i] \in Listed /\ (list[i] = t => i = k)
  BY <1>1, <1>2 DEF Listed, ListShape
<1>4. DelHits(t) = {k}
  <2>1. \A i \in InFront : i \in 1..Len(list)
    BY DEF InFront
  <2> QED
    BY <1>1, <1>3, <2>1 DEF DelHits
<1> SUFFICES ASSUME threadlist_del(t)
             PROVE  list' \in Seq(Records) /\ ListShape' /\ Listed' = Listed \ {t}
  BY <1>4
<1>5. list' = Without(list, k)
  <2>1. (CHOOSE i \in DelHits(t) : \A j \in DelHits(t) : i =< j) = k
    BY <1>2, <1>4
  <2> QED
    BY <2>1 DEF threadlist_del
<1>6. /\ list' \in Seq(Records)
      /\ Len(list') = Len(list) - 1
      /\ \A i \in 1 .. (k - 1) : list'[i] = list[i]
      /\ \A i \in k .. (Len(list) - 1) : list'[i] = list[i + 1]
  <2> DEFINE a == SubSeq(list, 1, k - 1)
             b == SubSeq(list, k + 1, Len(list))
  <2>1. a \in Seq(Records) /\ Len(a) = k - 1 /\ \A i \in 1 .. (k - 1) :
        a[i] = list[i]
    BY <1>2
  <2>2. /\ b \in Seq(Records) /\ Len(b) = Len(list) - k
        /\ \A i \in 1 .. (Len(list) - k) : b[i] = list[k + i]
    BY <1>2
  <2>3. list' = a \o b
    BY <1>5 DEF Without
  <2> HIDE DEF a, b
  <2>4. list' \in Seq(Records) /\ Len(list') = Len(list) - 1
    <3>1. a \in Seq(Records) /\ b \in Seq(Records)
      BY <2>1, <2>2
    <3>2. list' \in Seq(Records)
      BY <2>3, <3>1
    <3>3. Len(list') = Len(a) + Len(b)
      BY <2>3, <3>1
    <3> QED
      BY <1>2, <2>1, <2>2, <3>2, <3>3
  <2>5. ASSUME NEW i \in 1 .. (k - 1) PROVE list'[i] = list[i]
    BY <1>2, <2>1, <2>2, <2>3
  <2>6. ASSUME NEW i \in k .. (Len(list) - 1) PROVE list'[i] = list[i + 1]
    <3>1. i - (k - 1) \in 1 .. (Len(list) - k) /\ k + (i - (k - 1)) = i + 1
      BY <1>2
    <3>2. list'[i] = b[i - (k - 1)]
      BY <1>2, <2>1, <2>2, <2>3
    <3>3. b[i - (k - 1)] = list[k + (i - (k - 1))]
      BY <2>2, <3>1
    <3> QED
      BY <3>1, <3>2, <3>3
  <2> QED
    BY <2>4, <2>5, <2>6
<1>7. Listed' = Listed \ {t}
  <2>1. ASSUME NEW i \in 1..Len(list') PROVE list'[i] \in Listed \ {t}
    <3>1. CASE i < k
      BY <1>2, <1>3, <1>6, <3>1
    <3>2. CASE i >= k
      <4>1. i + 1 \in 1..Len(list) /\ i + 1 # k /\ list'[i] = list[i + 1]
        BY <1>2, <1>6, <3>2
      <4> QED
        BY <1>3, <4>1
    <3> QED
      BY <1>2, <1>6, <3>1, <3>2
  <2>2. ASSUME NEW i \in 1..Len(list), list[i] # t
        PROVE  \E j \in 1..Len(list') : list'[j] = list[i]
    <3>1. CASE i < k
      BY <1>2, <1>6, <3>1
    <3>2. CASE i > k
      <4>1. i - 1 \in 1..Len(list') /\ list'[i - 1] = list[i]
        BY <1>2, <1>6, <3>2
      <4> QED
        BY <4>1
    <3> QED
      BY <1>1, <1>2, <2>2, <3>1, <3>2
  <2> QED
    BY <2>1, <2>2 DEF Listed
<1>8. \A i, j \in 1..Len(list') : list'[i] = list'[j] => i = j
  <2> DEFINE old(i) == IF i < k THEN i ELSE i + 1
  <2>1. \A i \in 1..Len(list') : old(i) \in 1..Len(list) /\ list'[i] = list[old(i)]
    BY <1>2, <1>6
  <2>2. \A i, j \in 1..Len(list') : old(i) = old(j) => i = j
    BY <1>2, <1>6
  <2> HIDE DEF old
  <2> QED
    BY <2>1, <2>2 DEF ListShape
<1>9. Len(list') >= 2 /\ list'[Len(list')] = Main /\ list'[Len(list') - 1] = Manager
  <2>1. Len(list) >= 2 /\ list[Len(list)] = Main /\ list[Len(list) - 1] = Manager
    BY DEF ListShape
  <2>2. Len(list') - 1 \in k .. (Len(list) - 1) /\
        Len(list') \in k .. (Len(list) - 1)
    BY <1>2, <1>6
  <2> QED
    BY <1>2, <1>6, <2>1, <2>2
<1> QED
  BY <1>6, <1>7, <1>8, <1>9 DEF ListShape

\* threadlist_findbypid finds the record of a listed thread that has its pid.
LEMMA Found ==
    ASSUME MTypeOK, ListShape, RecordInv, NEW c \in Clients \cap Listed, pid[c] = c
    PROVE  FindByPid(c) = c
<1> DEFINE hits == {i \in 1..Len(list) : pid[list[i]] = c}
<1>1. Len(list) \in Nat /\ \A i \in 1..Len(list) : list[i] \in Records
  BY DEF MTypeOK
<1>2. \A i \in hits : list[i] = c
  BY <1>1, ManagerConstants DEF RecordInv, Clients, Records
<1>3. PICK k \in 1..Len(list) : list[k] = c
  BY DEF Listed
<1>4. hits = {k}
  BY <1>2, <1>3 DEF ListShape
<1>5. (CHOOSE i \in hits : \A j \in hits : i =< j) = k
  BY <1>1, <1>4
<1>6. FindByPid(c) = list[CHOOSE i \in hits : \A j \in hits : i =< j]
  BY <1>4 DEF FindByPid
<1> QED
  BY <1>3, <1>5, <1>6

-----------------------------------------------------------------------------
(* The pipe of the manager.                                                *)

\* A write adds one message and one sender.
LEMMA Sent ==
    ASSUME MTypeOK, NEW m \in Messages, mq' = Append(mq, m)
    PROVE  /\ mq' \in Seq(Messages)
           /\ Len(mq) \in Nat /\ Len(mq') = Len(mq) + 1
           /\ \A i \in 1..Len(mq) : mq'[i] = mq[i]
           /\ mq'[Len(mq) + 1] = m
           /\ Senders' = Senders \cup {m.caller}
<1>1. /\ mq' \in Seq(Messages)
      /\ Len(mq) \in Nat /\ Len(mq') = Len(mq) + 1
      /\ \A i \in 1..Len(mq) : mq'[i] = mq[i]
      /\ mq'[Len(mq) + 1] = m
  BY DEF MTypeOK
<1>2. \A i \in 1..Len(mq') : i \in 1..Len(mq) \/ i = Len(mq) + 1
  BY <1>1
<1>3. Len(mq) + 1 \in 1..Len(mq') /\ \A i \in 1..Len(mq) : i \in 1..Len(mq')
  BY <1>1
<1>4. Senders' = Senders \cup {m.caller}
  BY <1>1, <1>2, <1>3 DEF Senders
<1> QED
  BY <1>1, <1>4

\* A sound message of somebody who has none under way keeps the queue sound.
LEMMA SentIsSound ==
    ASSUME MTypeOK, QueueInv, NEW m \in Messages, mq' = Append(mq, m),
           UNCHANGED <<msg, mpc, killed>>,
           m.caller \notin Senders, msg.caller # m.caller,
           Sound(m)', \A n \in Messages : Sound(n) => Sound(n)'
    PROVE  QueueInv'
<1> SUFFICES ASSUME ~Ending PROVE QueueInv'
  BY DEF QueueInv, Ending
<1>1. \A i \in 1..Len(mq') : i \in 1..Len(mq) \/ i = Len(mq) + 1
  BY Sent
<1>2. \A i \in 1..Len(mq) : mq[i] \in Messages /\ mq[i].caller \in Senders
  BY DEF MTypeOK, Senders
<1>3. \A i, j \in 1..Len(mq') : mq'[i].caller = mq'[j].caller => i = j
  BY <1>1, <1>2, Sent DEF QueueInv
<1>4. (\A i \in 1..Len(mq) : Sound(mq[i]))'
  <2>1. \A i \in 1..Len(mq') : \E n \in Messages : mq'[i] = n /\ (n = m \/ Sound(n))
    BY <1>1, <1>2, Sent DEF QueueInv
  <2> QED
    BY <2>1 DEF Sound
<1>5. killed' = {} /\ msg'.caller \notin Senders'
  BY Sent DEF QueueInv
<1> QED
  BY <1>3, <1>4, <1>5 DEF QueueInv

\* A read takes the first message.
LEMMA Received ==
    ASSUME MTypeOK, mq # <<>>, mq' = Tail(mq)
    PROVE  /\ Len(mq) \in Nat /\ 1 \in 1..Len(mq)
           /\ Head(mq) = mq[1] /\ Head(mq) \in Messages
           /\ mq' \in Seq(Messages)
           /\ Len(mq') = Len(mq) - 1
           /\ \A i \in 1..Len(mq') : i + 1 \in 1..Len(mq) /\ mq'[i] = mq[i + 1]
           /\ Senders' \subseteq Senders /\ Head(mq).caller \in Senders
<1>1. /\ Len(mq) \in Nat /\ 1 \in 1..Len(mq)
      /\ Head(mq) = mq[1] /\ Head(mq) \in Messages
      /\ mq' \in Seq(Messages)
      /\ Len(mq') = Len(mq) - 1
      /\ \A i \in 1..Len(mq') : i + 1 \in 1..Len(mq) /\ mq'[i] = mq[i + 1]
  BY DEF MTypeOK
<1> QED
  BY <1>1 DEF Senders

-----------------------------------------------------------------------------
(* thread_dealloc.                                                         *)

\* thread_dealloc of a listed thread that has its pid finds the record.
LEMMA Dealloc ==
    ASSUME MTypeOK, ListShape, RecordInv, NEW t \in Threads \cap Listed, pid[t] = t,
           NEW next, thread_dealloc(t, next)
    PROVE  /\ list' \in Seq(Records) /\ ListShape' /\ Listed' = Listed \ {t}
           /\ mem' = [mem EXCEPT ![t] = "freed"]
           /\ held' = [held EXCEPT ![t] = @ \ {"stack", "pipe"}]
           /\ mpc' = next /\ list_lock' = list_lock
<1>1. \A r \in Listed : pid[r] = pid[t] => r = t
  BY BothListed, ManagerConstants DEF RecordInv, Records
<1>2. DelHits(t) # {}
  BY <1>1, Deleted
<1>3. threadlist_del(t)
  BY <1>2 DEF thread_dealloc
<1> QED
  BY <1>1, <1>2, <1>3, Deleted DEF thread_dealloc

\* thread_dealloc of the main thread aborts.
LEMMA DeallocMain ==
    ASSUME MTypeOK, ListShape, RecordInv, NEW next, thread_dealloc(Main, next)
    PROVE  /\ list_lock' = Manager /\ mpc' = "aborted"
           /\ UNCHANGED <<list, mem, held>>
<1>1. Len(list) \in Nat /\ \A i \in 1..Len(list) : list[i] \in Records
  BY DEF MTypeOK
<1>2. \A i \in InFront : i \in 1..Len(list) /\ list[i] # Main
  BY <1>1, FrontIs DEF ListShape
<1>3. DelHits(Main) = {}
  BY <1>1, <1>2, ManagerConstants DEF DelHits, RecordInv, Records
<1> QED
  BY <1>3 DEF thread_dealloc

-----------------------------------------------------------------------------
(* The steps of the threads.                                               *)

\* A new thread starts.
LEMMA StartThreadKeeps ==
    ASSUME ManagerIInv, NEW c \in Threads, StartThread(c)
    PROVE  ManagerIInv'
<1> USE ManagerConstants DEF ManagerIInv, StartThread, heapVars, clientVars,
   signalVars, managerVars
<1>1. Listed' = Listed /\ Senders' = Senders
  BY DEF Listed, Senders
<1>2. MTypeOK'
  BY <1>1, SMTT(60) DEF MTypeOK, Locations, ManagerLocations, Clients, Records
<1>3. ListShape' /\ AbortCause'
  BY <1>1 DEF ListShape, AbortCause
<1>4. ReapInv' /\ RestInv'
  BY <1>1 DEF ReapInv, MTypeOK, Clients, RestInv
<1>5. SelfFound' /\ NothingLeft' /\ RecordInv'
  BY <1>1 DEF SelfFound, MTypeOK, NothingLeft, Records, RecordInv, Clients
<1>6. ListedInv' /\ PresentInv'
  BY <1>1 DEF ListedInv, HalfMade, MTypeOK, PresentInv, Clients
<1>7. LockInv' /\ NewInv'
  BY <1>1 DEF LockInv, LockHolder, Dead, MTypeOK, Clients, Records, NewInv
<1>8. WakeInv'
  BY <1>1 DEF WakeInv, OneWakeUp, Dead, Ending, Unanswered, Creating, MTypeOK,
     Clients, Records
<1>9. QueueInv'
  BY <1>1 DEF QueueInv, Sound, Ending, Fresh, MTypeOK, Clients, Records
<1>10. ServeInv'
  BY <1>1 DEF ServeInv, Creating, NoMessage, Message, MTypeOK, Clients
<1>11. CreateInv'
  BY <1>1 DEF CreateInv, ServeInv, Creating, HalfMade, Fresh, GivenUp,
     MTypeOK, Clients
<1>12. AnswerInv'
  BY <1>1 DEF AnswerInv, GivenUp, MTypeOK, Clients, Records
<1> QED
  BY <1>2, <1>3, <1>4, <1>5, <1>6, <1>7, <1>8, <1>9, <1>10, <1>11, <1>12

\* A thread calls the library.
LEMMA CallKeeps ==
    ASSUME ManagerIInv, NEW c \in Clients, NEW o \in {"create", "suspend",
       "exit"}, Call(c, o)
    PROVE  ManagerIInv'
<1> USE ManagerConstants DEF ManagerIInv, Call, heapVars, clientVars,
   signalVars, managerVars
<1>1. Listed' = Listed /\ Senders' = Senders
  BY DEF Listed, Senders
<1>2. MTypeOK'
  BY SMTT(60), <1>1 DEF MTypeOK, Locations, ManagerLocations, Clients, Records
<1>3. ListShape' /\ AbortCause'
  BY <1>1 DEF ListShape, AbortCause
<1>4. ReapInv' /\ RestInv'
  BY <1>1 DEF ReapInv, MTypeOK, Clients, RestInv
<1>5. SelfFound' /\ NothingLeft' /\ RecordInv'
  BY <1>1 DEF SelfFound, MTypeOK, NothingLeft, Records, RecordInv, Clients
<1>6. ListedInv' /\ PresentInv'
  BY <1>1 DEF ListedInv, HalfMade, MTypeOK, PresentInv, Clients
<1>7. LockInv' /\ NewInv'
  BY <1>1 DEF LockInv, LockHolder, Dead, MTypeOK, Clients, Records, NewInv
<1>8. WakeInv'
  BY <1>1 DEF WakeInv, OneWakeUp, Dead, Ending, Unanswered, Creating, MTypeOK,
     Clients, Records
<1>9. QueueInv'
  BY <1>1 DEF QueueInv, Sound, Ending, Fresh, MTypeOK, Clients, Records
<1>10. ServeInv'
  BY <1>1 DEF ServeInv, Creating, NoMessage, Message, MTypeOK, Clients
<1>11. CreateInv'
  BY <1>1 DEF CreateInv, ServeInv, Creating, HalfMade, Fresh, GivenUp,
     MTypeOK, Clients
<1>12. AnswerInv'
  BY <1>1 DEF AnswerInv, GivenUp, MTypeOK, Clients, Records
<1> QED
  BY <1>2, <1>3, <1>4, <1>5, <1>6, <1>7, <1>8, <1>9, <1>10, <1>11, <1>12

\* The thread sets list_lock.
LEMMA SelfLockKeeps ==
    ASSUME ManagerIInv, NEW c \in Clients, SelfLock(c)
    PROVE  ManagerIInv'
<1> USE ManagerConstants DEF ManagerIInv, SelfLock, Unlocked, heapVars,
   clientVars, signalVars, managerVars
<1>1. Listed' = Listed /\ Senders' = Senders
  BY DEF Listed, Senders
<1>2. MTypeOK'
  BY <1>1 DEF MTypeOK, Locations, ManagerLocations, Clients, Records
<1>3. ListShape' /\ AbortCause'
  BY <1>1 DEF ListShape, AbortCause
<1>4. ReapInv' /\ RestInv'
  BY <1>1 DEF ReapInv, MTypeOK, Clients, RestInv
<1>5. SelfFound' /\ NothingLeft' /\ RecordInv'
  BY <1>1 DEF SelfFound, MTypeOK, NothingLeft, Records, RecordInv, Clients
<1>6. ListedInv' /\ PresentInv'
  BY <1>1 DEF ListedInv, HalfMade, MTypeOK, PresentInv, Clients
<1>7. LockInv' /\ NewInv'
  BY <1>1 DEF LockInv, LockHolder, Dead, MTypeOK, Clients, Records, NewInv
<1>8. WakeInv'
  BY <1>1 DEF WakeInv, OneWakeUp, Dead, Ending, Unanswered, Creating, MTypeOK,
     Clients, Records
<1>9. QueueInv'
  BY <1>1 DEF QueueInv, Sound, Ending, Fresh, MTypeOK, Clients, Records
<1>10. ServeInv'
  BY <1>1 DEF ServeInv, Creating, NoMessage, Message, MTypeOK, Clients
<1>11. CreateInv'
  BY <1>1 DEF CreateInv, ServeInv, Creating, HalfMade, Fresh, GivenUp,
     MTypeOK, Clients
<1>12. AnswerInv'
  BY <1>1 DEF AnswerInv, GivenUp, MTypeOK, Clients, Records
<1> QED
  BY <1>2, <1>3, <1>4, <1>5, <1>6, <1>7, <1>8, <1>9, <1>10, <1>11, <1>12

\* The search ends: it has found the thread's own record.
LEMMA SelfFindKeeps ==
    ASSUME ManagerIInv, NEW c \in Clients, SelfFind(c)
    PROVE  ManagerIInv'
<1> USE ManagerConstants DEF ManagerIInv, SelfFind, heapVars, clientVars,
   signalVars, managerVars
<1>1. Listed' = Listed /\ Senders' = Senders
  BY DEF Listed, Senders
<1>2. FindByPid(c) = c
  <2>1. c \in Clients \cap Listed /\ pid[c] = c
    BY BothListed DEF PresentInv, RecordInv, LockInv, MTypeOK, Clients, Records
  <2> QED
    BY <2>1, Found
<1>3. op[c] \in {"create", "suspend", "exit"}
  BY DEF WakeInv, OneWakeUp, MTypeOK
<1>4. MTypeOK'
  BY <1>1, <1>2, <1>3 DEF MTypeOK, Locations, ManagerLocations, Clients,
     Records
<1>5. ListShape' /\ AbortCause'
  BY <1>1 DEF ListShape, AbortCause
<1>6. ReapInv' /\ RestInv'
  BY <1>1 DEF ReapInv, MTypeOK, Clients, RestInv
<1>7. SelfFound'
  BY <1>1, <1>2, <1>3 DEF SelfFound, MTypeOK
<1>8. NothingLeft' /\ RecordInv'
  BY <1>1, <1>3 DEF NothingLeft, MTypeOK, Records, RecordInv, Clients
<1>9. ListedInv'
  BY <1>1 DEF ListedInv, HalfMade, MTypeOK
<1>10. PresentInv'
  BY <1>1, <1>3 DEF PresentInv, MTypeOK, Clients
<1>11. LockInv' /\ NewInv'
  BY <1>1 DEF LockInv, LockHolder, Dead, MTypeOK, Clients, Records, NewInv
<1>12. WakeInv'
  BY <1>1, <1>3 DEF WakeInv, OneWakeUp, Dead, Ending, Unanswered, Creating,
     MTypeOK, Clients, Records
<1>13. QueueInv'
  BY <1>1, <1>3 DEF QueueInv, Sound, Ending, Fresh, MTypeOK, Clients, Records
<1>14. ServeInv'
  BY <1>1, <1>3 DEF ServeInv, Creating, NoMessage, Message, MTypeOK, Clients
<1>15. CreateInv'
  BY <1>1, <1>3 DEF CreateInv, ServeInv, Creating, HalfMade, Fresh, GivenUp,
     MTypeOK, Clients
<1>16. AnswerInv'
  BY <1>1, <1>3 DEF AnswerInv, GivenUp, MTypeOK, Clients, Records
<1> QED
  BY <1>4, <1>5, <1>6, <1>7, <1>8, <1>9, <1>10, <1>11, <1>12, <1>13, <1>14,
     <1>15, <1>16

\* sthread_create asks the manager for a thread on a fresh record.
LEMMA CreateRequestKeeps ==
    ASSUME ManagerIInv, NEW c \in Clients, CreateRequest(c)
    PROVE  ManagerIInv'
<1> USE ManagerConstants DEF ManagerIInv, CreateRequest, heapVars, clientVars,
   signalVars, managerVars
<1>1. Listed' = Listed
  BY DEF Listed
<1>2. PICK t \in Threads :
         /\ mem[t] = "none"
         /\ mem' = [mem EXCEPT ![t] = "alloc"]
         /\ new' = [new EXCEPT ![c] = t]
         /\ mq' = Append(mq, Message("create", self[c], t))
  OBVIOUS
<1>3. self[c] = c /\ t \in Records /\ c \in Records /\ t # NoPid
  BY <1>2 DEF SelfFound, Records, Clients
<1>4. Message("create", c, t) \in Messages
  BY DEF Messages, Message
<1>5. mq' = Append(mq, Message("create", c, t))
  BY <1>2, <1>3
<1>6. mq' \in Seq(Messages) /\ Senders' = Senders \cup {c}
  BY <1>4, <1>5, Sent DEF Message
<1>7. c \notin Senders /\ msg.caller # c /\ pipe[c] = 0 /\ t \notin Listed /\
      pc[t] = "none" /\ pid[t] = NoPid /\ held[t] = {}
  BY <1>2 DEF WakeInv, OneWakeUp, RecordInv
<1>8. \A d \in Clients : new[d] # t
  BY <1>2, <1>3 DEF NewInv
<1>9. MTypeOK'
  BY <1>2, <1>3, <1>6 DEF MTypeOK, Locations, ManagerLocations
<1>10. ListShape' /\ AbortCause'
  BY <1>1 DEF ListShape, AbortCause
<1>11. ReapInv' /\ RestInv'
  BY <1>1 DEF ReapInv, MTypeOK, Clients, RestInv
<1>12. SelfFound' /\ NothingLeft' /\ RecordInv'
  BY <1>1, <1>2, <1>3, <1>7 DEF SelfFound, MTypeOK, NothingLeft, Records,
     RecordInv, Clients
<1>13. ListedInv' /\ PresentInv'
  BY <1>1, <1>2, <1>3, <1>7 DEF ListedInv, HalfMade, MTypeOK, PresentInv,
     Clients
<1>14. LockInv' /\ NewInv'
  BY <1>1, <1>2, <1>3, <1>8 DEF LockInv, LockHolder, Dead, MTypeOK, Clients,
     Records, NewInv
<1>15. WakeInv'
  <2>1. OneWakeUp(c)'
    BY SMTT(60), <1>2, <1>3, <1>6, <1>7
    DEF WakeInv, OneWakeUp, Dead, Ending, Unanswered, Creating, MTypeOK,
        Clients, Records
  <2>2. ASSUME NEW d \in Clients, d # c PROVE OneWakeUp(d)'
    BY <1>2, <1>3, <1>6, <2>2
    DEF WakeInv, OneWakeUp, Dead, Ending, Unanswered, Creating, MTypeOK,
        Clients, Records
  <2> QED
    BY <2>1, <2>2 DEF WakeInv
<1>16. QueueInv'
  <2>1. Sound(Message("create", c, t))'
    BY <1>1, <1>2, <1>3, <1>7
    DEF Sound, Fresh, Message, MTypeOK, Records, Clients
  <2>2. \A n \in Messages : Sound(n) => Sound(n)'
    BY <1>1, <1>2, <1>3 DEF Sound, Fresh, MTypeOK, Records, Clients
  <2>3. Message("create", c, t).caller = c
    BY DEF Message
  <2> QED
    BY <1>4, <1>5, <1>7, <2>1, <2>2, <2>3, SentIsSound
<1>17. ServeInv'
  BY <1>7 DEF ServeInv, Creating, NoMessage, Message, MTypeOK, Clients
<1>18. CreateInv'
  BY <1>1, <1>2, <1>3, <1>7 DEF CreateInv, ServeInv, Creating, HalfMade,
     Fresh, GivenUp, MTypeOK, Clients, Records
<1>19. AnswerInv'
  BY <1>1, <1>2, <1>3, <1>7, SMTT(60) DEF AnswerInv, GivenUp, MTypeOK, Clients,
     Records
<1> QED
  BY <1>9, <1>10, <1>11, <1>12, <1>13, <1>14, <1>15, <1>16, <1>17, <1>18, <1>19

\* sthread_create runs out of memory.
LEMMA CreateNoMemoryKeeps ==
    ASSUME ManagerIInv, NEW c \in Clients, CreateNoMemory(c)
    PROVE  ManagerIInv'
<1> USE ManagerConstants DEF ManagerIInv, CreateNoMemory, heapVars,
   clientVars, signalVars, managerVars
<1>1. Listed' = Listed /\ Senders' = Senders
  BY DEF Listed, Senders
<1>2. MTypeOK'
  BY <1>1 DEF MTypeOK, Locations, ManagerLocations
<1>3. ListShape' /\ AbortCause'
  BY <1>1 DEF ListShape, AbortCause
<1>4. ReapInv' /\ RestInv'
  BY <1>1 DEF ReapInv, MTypeOK, Clients, RestInv
<1>5. SelfFound' /\ NothingLeft' /\ RecordInv'
  BY <1>1 DEF SelfFound, MTypeOK, NothingLeft, Records, RecordInv, Clients
<1>6. ListedInv' /\ PresentInv'
  BY <1>1 DEF ListedInv, HalfMade, MTypeOK, PresentInv, Clients
<1>7. LockInv' /\ NewInv'
  BY <1>1 DEF LockInv, LockHolder, Dead, MTypeOK, Clients, Records, NewInv
<1>8. WakeInv'
  BY <1>1 DEF WakeInv, OneWakeUp, Dead, Ending, Unanswered, Creating, MTypeOK,
     Clients, Records
<1>9. QueueInv'
  BY <1>1 DEF QueueInv, Sound, Ending, Fresh, MTypeOK, Clients, Records
<1>10. ServeInv'
  BY <1>1 DEF ServeInv, Creating, NoMessage, Message, MTypeOK, Clients
<1>11. CreateInv'
  BY <1>1 DEF CreateInv, ServeInv, Creating, HalfMade, Fresh, GivenUp,
     MTypeOK, Clients
<1>12. AnswerInv'
  BY <1>1 DEF AnswerInv, GivenUp, MTypeOK, Clients, Records
<1> QED
  BY <1>2, <1>3, <1>4, <1>5, <1>6, <1>7, <1>8, <1>9, <1>10, <1>11, <1>12

\* sthread_create gets its answer: a record it frees is nobody else's.
LEMMA CreateAnswerKeeps ==
    ASSUME ManagerIInv, NEW c \in Clients, CreateAnswer(c)
    PROVE  ManagerIInv'
<1> USE ManagerConstants DEF ManagerIInv, CreateAnswer, Read, heapVars,
   clientVars, signalVars, managerVars
<1>1. Listed' = Listed /\ Senders' = Senders
  BY DEF Listed, Senders
<1>2. self[c] = c /\ pipe[c] = 1
  BY DEF SelfFound, WakeInv, OneWakeUp, MTypeOK, Clients, Records
<1>3. status[c] # 0 => GivenUp(new[c]) /\ new[c] \in Threads /\ new[c] # NoPid /\
      new[c] \in Records
  BY <1>2 DEF AnswerInv, GivenUp, Records
<1>4. msg.caller # c
  BY <1>2 DEF WakeInv, OneWakeUp, CreateInv, ServeInv, MTypeOK, Messages,
     NoMessage, Message, Clients, Records
<1>5. \A i \in 1..Len(mq) : mq[i].caller # c
  BY <1>2 DEF WakeInv, OneWakeUp, Senders
<1>6. status[c] # 0 /\ ~Ending => \A i \in 1..Len(mq) : mq[i].type = "create" =>
      mq[i].thread # new[c]
  BY <1>3, <1>5 DEF QueueInv, Sound, NewInv
<1>7. status[c] # 0 => \A d \in Clients : new[d] = new[c] => d = c
  BY <1>3 DEF NewInv
<1>8. MTypeOK'
  BY <1>1, <1>2, <1>3, SMTT(60) DEF MTypeOK, Locations, ManagerLocations, Clients,
     Records
<1>9. ListShape' /\ AbortCause'
  BY <1>1 DEF ListShape, AbortCause
<1>10. ReapInv' /\ RestInv'
  BY <1>1 DEF ReapInv, MTypeOK, Clients, RestInv
<1>11. NothingLeft' /\ RecordInv' /\ SelfFound'
  BY SMTT(60), <1>1, <1>2, <1>3 DEF NothingLeft, MTypeOK, Records, RecordInv,
     Clients,
     SelfFound, GivenUp
<1>12. ListedInv' /\ PresentInv'
  BY <1>1, <1>2, <1>3 DEF ListedInv, HalfMade, MTypeOK, PresentInv, Clients,
     GivenUp, Records
<1>13. LockInv' /\ NewInv'
  BY <1>1, <1>2, <1>3 DEF LockInv, LockHolder, Dead, MTypeOK, Clients,
     Records, NewInv, GivenUp
<1>14. WakeInv'
  <2>1. OneWakeUp(c)'
    BY <1>1, <1>2, <1>4
    DEF WakeInv, OneWakeUp, Dead, Ending, Unanswered, Creating, MTypeOK,
        Clients, Records
  <2>2. ASSUME NEW d \in Clients, d # c PROVE OneWakeUp(d)'
    BY <1>1, <1>2, <2>2
    DEF WakeInv, OneWakeUp, Dead, Ending, Unanswered, Creating, MTypeOK,
        Clients, Records
  <2> QED
    BY <2>1, <2>2 DEF WakeInv
<1>15. QueueInv'
  BY <1>1, <1>2, <1>3, <1>5, <1>6, SMTT(60) DEF QueueInv, Sound, Ending, Fresh, MTypeOK,
     Clients, Records
<1>16. ServeInv'
  BY <1>1, <1>2, <1>4 DEF ServeInv, Creating, NoMessage, Message, MTypeOK,
     Clients
<1>17. CreateInv'
  BY <1>1, <1>2, <1>3, <1>4, <1>7, SMTT(60) DEF CreateInv, ServeInv, Creating, HalfMade,
     Fresh, GivenUp, MTypeOK, Clients, NewInv, Records
<1>18. AnswerInv'
  BY <1>1, <1>2, <1>3, <1>7, SMTT(60) DEF AnswerInv, GivenUp, MTypeOK, Clients, Records
<1> QED
  BY <1>8, <1>9, <1>10, <1>11, <1>12, <1>13, <1>14, <1>15, <1>16, <1>17, <1>18

\* sthread_suspend returns.
LEMMA SuspendReturnsKeeps ==
    ASSUME ManagerIInv, NEW c \in Clients, SuspendReturns(c)
    PROVE  ManagerIInv'
<1> USE ManagerConstants DEF ManagerIInv, SuspendReturns, Read, heapVars,
   clientVars, signalVars, managerVars
<1>1. Listed' = Listed /\ Senders' = Senders
  BY DEF Listed, Senders
<1>2. self[c] = c /\ pipe[c] = 1
  BY DEF SelfFound, WakeInv, OneWakeUp, MTypeOK, Clients, Records
<1>3. msg.caller # c /\ c \notin Senders /\ c \notin owed
  BY <1>2 DEF WakeInv, OneWakeUp
<1>4. pipe'[c] = 0 /\ pc'[c] = "user"
  BY <1>2 DEF MTypeOK, Clients, Records
<1>5. MTypeOK'
  BY SMTT(60), <1>1, <1>2 DEF MTypeOK, Locations, ManagerLocations, Clients, Records
<1>6. ListShape' /\ AbortCause'
  BY <1>1 DEF ListShape, AbortCause
<1>7. ReapInv' /\ RestInv'
  BY <1>1 DEF ReapInv, MTypeOK, Clients, RestInv
<1>8. SelfFound' /\ NothingLeft' /\ RecordInv'
  BY <1>1 DEF SelfFound, MTypeOK, NothingLeft, Records, RecordInv, Clients
<1>9. ListedInv' /\ PresentInv'
  BY <1>1 DEF ListedInv, HalfMade, MTypeOK, PresentInv, Clients
<1>10. LockInv' /\ NewInv'
  BY <1>1 DEF LockInv, LockHolder, Dead, MTypeOK, Clients, Records, NewInv
<1>11. WakeInv'
  <2>1. OneWakeUp(c)'
    BY <1>1, <1>2, <1>3, <1>4
    DEF WakeInv, OneWakeUp, Dead, Ending, Unanswered, Creating, MTypeOK,
        Clients, Records
  <2>2. ASSUME NEW d \in Clients, d # c PROVE OneWakeUp(d)'
    BY <1>1, <1>2, <2>2
    DEF WakeInv, OneWakeUp, Dead, Ending, Unanswered, Creating, MTypeOK,
        Clients, Records
  <2> QED
    BY <2>1, <2>2 DEF WakeInv
<1>12. QueueInv'
  BY <1>1, <1>2 DEF QueueInv, Sound, Ending, Fresh, MTypeOK, Clients, Records
<1>13. ServeInv'
  BY <1>1, <1>2, <1>3 DEF ServeInv, Creating, NoMessage, Message, MTypeOK,
     Clients
<1>14. CreateInv'
  BY <1>1, <1>2, <1>3 DEF CreateInv, ServeInv, Creating, HalfMade, Fresh,
     GivenUp, MTypeOK, Clients
<1>15. AnswerInv'
  BY <1>1, <1>2 DEF AnswerInv, GivenUp, MTypeOK, Clients, Records
<1> QED
  BY <1>5, <1>6, <1>7, <1>8, <1>9, <1>10, <1>11, <1>12, <1>13, <1>14, <1>15

\* A thread wakes one that is suspended.
LEMMA WakeKeeps ==
    ASSUME ManagerIInv, NEW c \in Clients, NEW t \in Clients, Wake(c, t)
    PROVE  ManagerIInv'
<1> USE ManagerConstants DEF ManagerIInv, Wake, sthread_wake, heapVars,
   clientVars, signalVars, managerVars
<1>1. Listed' = Listed /\ Senders' = Senders
  BY DEF Listed, Senders
<1>2. pipe[t] = 0 /\ pc[t] \in {"suspend", "self"} /\ msg.caller # t
  BY DEF WakeInv, OneWakeUp
<1>3. MTypeOK'
  BY <1>1, <1>2, SMTT(60) DEF MTypeOK, Locations, ManagerLocations, Clients, Records
<1>4. ListShape' /\ AbortCause'
  BY <1>1 DEF ListShape, AbortCause
<1>5. ReapInv' /\ RestInv'
  BY <1>1 DEF ReapInv, MTypeOK, Clients, RestInv
<1>6. SelfFound' /\ NothingLeft' /\ RecordInv'
  BY <1>1 DEF SelfFound, MTypeOK, NothingLeft, Records, RecordInv, Clients
<1>7. ListedInv' /\ PresentInv'
  BY <1>1 DEF ListedInv, HalfMade, MTypeOK, PresentInv, Clients
<1>8. LockInv' /\ NewInv'
  BY <1>1 DEF LockInv, LockHolder, Dead, MTypeOK, Clients, Records, NewInv
<1>9. WakeInv'
  BY SMTT(60), <1>1, <1>2 DEF WakeInv, OneWakeUp, Dead, Ending, Unanswered,
     Creating,
     MTypeOK, Clients, Records
<1>10. QueueInv'
  BY <1>1 DEF QueueInv, Sound, Ending, Fresh, MTypeOK, Clients, Records
<1>11. ServeInv'
  BY <1>1, <1>2 DEF ServeInv, Creating, NoMessage, Message, MTypeOK, Clients
<1>12. CreateInv'
  BY <1>1, <1>2 DEF CreateInv, ServeInv, Creating, HalfMade, Fresh, GivenUp,
     MTypeOK, Clients
<1>13. AnswerInv'
  BY <1>1, <1>2 DEF AnswerInv, GivenUp, MTypeOK, Clients, Records
<1> QED
  BY <1>3, <1>4, <1>5, <1>6, <1>7, <1>8, <1>9, <1>10, <1>11, <1>12, <1>13

\* A thread's main routine returns.
LEMMA ReturnKeeps ==
    ASSUME ManagerIInv, NEW t \in Threads, Return(t)
    PROVE  ManagerIInv'
<1> USE ManagerConstants DEF ManagerIInv, Return, heapVars, clientVars,
   signalVars, managerVars
<1>1. Listed' = Listed
  BY DEF Listed
<1>2. mq' = Append(mq, Message("thread_exit", t, NoPid)) /\ self'[t] = t
      /\ t \in Clients /\ pc'[t] = "leave"
  BY DEF SelfFound, MTypeOK, Clients
<1>3. Message("thread_exit", t, NoPid) \in Messages
  BY <1>2 DEF Messages, Message
<1>4. mq' \in Seq(Messages) /\ Senders' = Senders \cup {t}
  BY <1>2, <1>3, Sent DEF Message
<1>5. /\ t \notin Senders /\ t \notin owed /\ msg.caller # t
      /\ pipe[t] = 0
  BY <1>2 DEF WakeInv, OneWakeUp
<1>6. MTypeOK'
  BY <1>2, <1>4, SMTT(60) DEF MTypeOK, Locations, ManagerLocations, Clients, Records
<1>7. ListShape' /\ AbortCause'
  BY DEF ListShape, AbortCause
<1>8. ReapInv' /\ RestInv'
  BY <1>1 DEF ReapInv, MTypeOK, Clients, RestInv
<1>9. SelfFound' /\ NothingLeft' /\ RecordInv'
  BY <1>1, <1>2 DEF SelfFound, MTypeOK, NothingLeft, Records, RecordInv,
     Clients
<1>10. ListedInv' /\ PresentInv'
  BY <1>1 DEF ListedInv, HalfMade, MTypeOK, PresentInv, Clients
<1>11. LockInv' /\ NewInv'
  BY <1>1 DEF LockInv, LockHolder, Dead, MTypeOK, Clients, Records, NewInv
<1>12. WakeInv'
  <2>1. OneWakeUp(t)'
    BY <1>2, <1>4, <1>5
    DEF WakeInv, OneWakeUp, Dead, Ending, Unanswered, Creating, MTypeOK,
        Clients, Records
  <2>2. ASSUME NEW d \in Clients, d # t PROVE OneWakeUp(d)'
    BY <1>2, <1>4, <2>2
    DEF WakeInv, OneWakeUp, Dead, Ending, Unanswered, Creating, MTypeOK,
        Clients, Records
  <2> QED
    BY <2>1, <2>2 DEF WakeInv
<1>13. QueueInv'
  <2>1. Sound(Message("thread_exit", t, NoPid))'
    BY <1>2 DEF Sound, Message, MTypeOK, Clients
  <2>2. \A n \in Messages : Sound(n) => Sound(n)'
    BY <1>1 DEF Sound, Fresh, MTypeOK, Clients
  <2>3. Message("thread_exit", t, NoPid).caller = t
    BY DEF Message
  <2> QED
    BY <1>2, <1>3, <1>5, <2>1, <2>2, <2>3, SentIsSound
<1>14. ServeInv'
  BY <1>5 DEF ServeInv, Creating, NoMessage, Message, MTypeOK, Clients
<1>15. CreateInv'
  BY <1>1, <1>5 DEF CreateInv, ServeInv, Creating, HalfMade, Fresh, GivenUp,
     MTypeOK, Clients
<1>16. AnswerInv'
  BY <1>1, <1>5 DEF AnswerInv, GivenUp, MTypeOK, Clients, Records
<1> QED
  BY <1>6, <1>7, <1>8, <1>9, <1>10, <1>11, <1>12, <1>13, <1>14, <1>15, <1>16

\* A thread asks for the end of the process.
LEMMA CleanupKeeps ==
    ASSUME ManagerIInv, NEW c \in Clients, Cleanup(c)
    PROVE  ManagerIInv'
<1> USE ManagerConstants DEF ManagerIInv, Cleanup, heapVars, clientVars,
   signalVars, managerVars
<1>1. Listed' = Listed
  BY DEF Listed
<1>2. mq' = Append(mq, Message("all_exit", c, NoPid)) /\ self'[c] = c
      /\ c \in Clients /\ pc'[c] = "leave"
  BY DEF SelfFound, MTypeOK, Clients
<1>3. Message("all_exit", c, NoPid) \in Messages
  BY <1>2 DEF Messages, Message
<1>4. mq' \in Seq(Messages) /\ Senders' = Senders \cup {c}
  BY <1>2, <1>3, Sent DEF Message
<1>5. /\ c \notin Senders /\ c \notin owed /\ msg.caller # c
      /\ pipe[c] = 0
  BY <1>2 DEF WakeInv, OneWakeUp
<1>6. MTypeOK'
  BY <1>2, <1>4, SMTT(60) DEF MTypeOK, Locations, ManagerLocations, Clients, Records
<1>7. ListShape' /\ AbortCause'
  BY DEF ListShape, AbortCause
<1>8. ReapInv' /\ RestInv'
  BY <1>1 DEF ReapInv, MTypeOK, Clients, RestInv
<1>9. SelfFound' /\ NothingLeft' /\ RecordInv'
  BY <1>1, <1>2 DEF SelfFound, MTypeOK, NothingLeft, Records, RecordInv,
     Clients
<1>10. ListedInv' /\ PresentInv'
  BY <1>1 DEF ListedInv, HalfMade, MTypeOK, PresentInv, Clients
<1>11. LockInv' /\ NewInv'
  BY <1>1 DEF LockInv, LockHolder, Dead, MTypeOK, Clients, Records, NewInv
<1>12. WakeInv'
  <2>1. OneWakeUp(c)'
    BY <1>2, <1>4, <1>5
    DEF WakeInv, OneWakeUp, Dead, Ending, Unanswered, Creating, MTypeOK,
        Clients, Records
  <2>2. ASSUME NEW d \in Clients, d # c PROVE OneWakeUp(d)'
    BY <1>2, <1>4, <2>2
    DEF WakeInv, OneWakeUp, Dead, Ending, Unanswered, Creating, MTypeOK,
        Clients, Records
  <2> QED
    BY <2>1, <2>2 DEF WakeInv
<1>13. QueueInv'
  <2>1. Sound(Message("all_exit", c, NoPid))'
    BY <1>2 DEF Sound, Message, MTypeOK, Clients
  <2>2. \A n \in Messages : Sound(n) => Sound(n)'
    BY <1>1 DEF Sound, Fresh, MTypeOK, Clients
  <2>3. Message("all_exit", c, NoPid).caller = c
    BY DEF Message
  <2> QED
    BY <1>2, <1>3, <1>5, <2>1, <2>2, <2>3, SentIsSound
<1>14. ServeInv'
  BY <1>5 DEF ServeInv, Creating, NoMessage, Message, MTypeOK, Clients
<1>15. CreateInv'
  BY <1>1, <1>5 DEF CreateInv, ServeInv, Creating, HalfMade, Fresh, GivenUp,
     MTypeOK, Clients
<1>16. AnswerInv'
  BY <1>1, <1>5 DEF AnswerInv, GivenUp, MTypeOK, Clients, Records
<1> QED
  BY <1>6, <1>7, <1>8, <1>9, <1>10, <1>11, <1>12, <1>13, <1>14, <1>15, <1>16

\* A thread that the manager has woken ends.
LEMMA LeaveKeeps ==
    ASSUME ManagerIInv, NEW c \in Clients, Leave(c)
    PROVE  ManagerIInv'
<1> USE ManagerConstants DEF ManagerIInv, Leave, Read, heapVars, clientVars,
   signalVars, managerVars
<1>1. Listed' = Listed /\ Senders' = Senders
  BY DEF Listed, Senders
<1>2. self[c] = c /\ pipe[c] = 1
  BY DEF SelfFound, WakeInv, OneWakeUp, MTypeOK, Clients, Records
<1>3. msg.caller = c => mpc \notin Unanswered /\ msg.type # "create"
  BY <1>2 DEF WakeInv, OneWakeUp, CreateInv
<1>4. \A i \in 1..Len(mq) : mq[i].caller # c
  BY <1>2 DEF WakeInv, OneWakeUp, Senders
<1>5. MTypeOK'
  BY SMTT(60), <1>1, <1>2 DEF MTypeOK, Locations, ManagerLocations, Clients, Records
<1>6. ListShape' /\ AbortCause'
  BY <1>1 DEF ListShape, AbortCause
<1>7. ReapInv' /\ RestInv'
  BY <1>1 DEF ReapInv, MTypeOK, Clients, RestInv
<1>8. SelfFound' /\ NothingLeft' /\ RecordInv'
  BY <1>1 DEF SelfFound, MTypeOK, NothingLeft, Records, RecordInv, Clients
<1>9. ListedInv' /\ PresentInv'
  BY <1>1 DEF ListedInv, HalfMade, MTypeOK, PresentInv, Clients
<1>10. LockInv' /\ NewInv'
  BY <1>1 DEF LockInv, LockHolder, Dead, MTypeOK, Clients, Records, NewInv
<1>11. WakeInv'
  BY <1>1, <1>2 DEF WakeInv, OneWakeUp, Dead, Ending, Unanswered, Creating,
     MTypeOK, Clients, Records
<1>12. QueueInv'
  BY <1>1, <1>2, <1>4, SMTT(60) DEF QueueInv, Sound, Ending, Fresh, MTypeOK, Clients,
     Records
<1>13. ServeInv'
  BY <1>1, <1>2, <1>3 DEF ServeInv, Creating, NoMessage, Message, MTypeOK,
     Clients, Unanswered
<1>14. CreateInv'
  BY <1>1, <1>2, <1>3 DEF CreateInv, ServeInv, Creating, HalfMade, Fresh,
     GivenUp, MTypeOK, Clients
<1>15. AnswerInv'
  BY <1>1, <1>2 DEF AnswerInv, GivenUp, MTypeOK, Clients, Records
<1> QED
  BY <1>5, <1>6, <1>7, <1>8, <1>9, <1>10, <1>11, <1>12, <1>13, <1>14, <1>15

\* A signal of kill() arrives: the process is ending.
LEMMA CancelKeeps ==
    ASSUME ManagerIInv, NEW c \in Clients, Cancel(c)
    PROVE  ManagerIInv'
<1> USE ManagerConstants DEF ManagerIInv, Cancel, Alive, Dead, heapVars,
   clientVars, signalVars, managerVars
<1>1. Listed' = Listed /\ Senders' = Senders
  BY DEF Listed, Senders
<1>2. Ending /\ msg.type # "create"
  BY DEF QueueInv, CreateInv
<1>3. MTypeOK'
  BY <1>1 DEF MTypeOK, Locations, ManagerLocations, Clients, Records
<1>4. ListShape' /\ AbortCause'
  BY <1>1 DEF ListShape, AbortCause
<1>5. ReapInv' /\ RestInv'
  BY <1>1 DEF ReapInv, MTypeOK, Clients, RestInv
<1>6. SelfFound' /\ NothingLeft' /\ RecordInv'
  BY <1>1 DEF SelfFound, MTypeOK, NothingLeft, Records, RecordInv, Clients
<1>7. ListedInv' /\ PresentInv'
  BY <1>1 DEF ListedInv, HalfMade, MTypeOK, PresentInv, Clients
<1>8. LockInv' /\ NewInv'
  BY <1>1 DEF LockInv, LockHolder, Dead, MTypeOK, Clients, Records, NewInv
<1>9. WakeInv'
  BY <1>1, <1>2 DEF WakeInv, OneWakeUp, Dead, Ending, Unanswered, Creating,
     MTypeOK, Clients, Records
<1>10. QueueInv'
  BY <1>1, <1>2 DEF QueueInv, Sound, Ending, Fresh, MTypeOK, Clients, Records
<1>11. ServeInv'
  BY <1>1, <1>2 DEF ServeInv, Creating, NoMessage, Message, MTypeOK, Clients,
     Ending
<1>12. CreateInv'
  BY <1>1, <1>2 DEF CreateInv, ServeInv, Creating, HalfMade, Fresh, GivenUp,
     MTypeOK, Clients
<1>13. AnswerInv'
  BY <1>1, SMTT(60) DEF AnswerInv, GivenUp, MTypeOK, Clients, Records
<1> QED
  BY <1>3, <1>4, <1>5, <1>6, <1>7, <1>8, <1>9, <1>10, <1>11, <1>12, <1>13

\* A thread dies of a fault.
LEMMA FaultKeeps ==
    ASSUME ManagerIInv, NEW c \in Clients, Fault(c)
    PROVE  ManagerIInv'
<1> USE ManagerConstants DEF ManagerIInv, Fault, heapVars, clientVars,
   signalVars, managerVars
<1>1. Listed' = Listed /\ Senders' = Senders
  BY DEF Listed, Senders
<1>2. MTypeOK'
  BY <1>1, SMTT(60) DEF MTypeOK, Locations, ManagerLocations, Clients, Records
<1>3. ListShape' /\ AbortCause'
  BY <1>1 DEF ListShape, AbortCause
<1>4. ReapInv' /\ RestInv'
  BY <1>1 DEF ReapInv, MTypeOK, Clients, RestInv
<1>5. SelfFound' /\ NothingLeft' /\ RecordInv'
  BY <1>1 DEF SelfFound, MTypeOK, NothingLeft, Records, RecordInv, Clients
<1>6. ListedInv' /\ PresentInv'
  BY <1>1 DEF ListedInv, HalfMade, MTypeOK, PresentInv, Clients
<1>7. LockInv' /\ NewInv'
  BY <1>1 DEF LockInv, LockHolder, Dead, MTypeOK, Clients, Records, NewInv
<1>8. WakeInv'
  BY <1>1 DEF WakeInv, OneWakeUp, Dead, Ending, Unanswered, Creating, MTypeOK,
     Clients, Records
<1>9. QueueInv'
  BY <1>1 DEF QueueInv, Sound, Ending, Fresh, MTypeOK, Clients, Records
<1>10. ServeInv'
  BY <1>1 DEF ServeInv, Creating, NoMessage, Message, MTypeOK, Clients
<1>11. CreateInv'
  BY <1>1 DEF CreateInv, ServeInv, Creating, HalfMade, Fresh, GivenUp,
     MTypeOK, Clients
<1>12. AnswerInv'
  BY <1>1 DEF AnswerInv, GivenUp, MTypeOK, Clients, Records
<1> QED
  BY <1>2, <1>3, <1>4, <1>5, <1>6, <1>7, <1>8, <1>9, <1>10, <1>11, <1>12

-----------------------------------------------------------------------------
(* The steps of the manager.                                               *)

\* The manager looks after the main thread.
LEMMA CheckMainKeeps ==
    ASSUME ManagerIInv, CheckMain
    PROVE  ManagerIInv'
<1> USE ManagerConstants DEF ManagerIInv, CheckMain, heapVars, clientVars,
   signalVars, managerVars
<1>1. Listed' = Listed /\ Senders' = Senders
  BY DEF Listed, Senders
<1>2. Everybody \subseteq Records
  BY DEF Everybody, InFront, MTypeOK
<1>3. MTypeOK'
  BY <1>1, <1>2 DEF MTypeOK, Locations, ManagerLocations
<1>4. ListShape' /\ AbortCause'
  BY <1>1 DEF ListShape, AbortCause
<1>5. ReapInv' /\ RestInv'
  BY <1>1 DEF ReapInv, MTypeOK, Clients, RestInv
<1>6. SelfFound' /\ NothingLeft' /\ RecordInv'
  BY <1>1 DEF SelfFound, MTypeOK, NothingLeft, Records, RecordInv, Clients
<1>7. ListedInv' /\ PresentInv'
  BY <1>1 DEF ListedInv, HalfMade, MTypeOK, PresentInv, Clients
<1>8. LockInv' /\ NewInv'
  BY <1>1 DEF LockInv, LockHolder, Dead, MTypeOK, Clients, Records, NewInv
<1>9. WakeInv'
  BY <1>1 DEF WakeInv, OneWakeUp, Dead, Ending, Unanswered, Creating, MTypeOK,
     Clients, Records
<1>10. QueueInv'
  BY <1>1 DEF QueueInv, Sound, Ending, Fresh, MTypeOK, Clients, Records
<1>11. ServeInv'
  BY <1>1 DEF ServeInv, Creating, NoMessage, Message, MTypeOK, Clients
<1>12. CreateInv'
  BY <1>1 DEF CreateInv, ServeInv, Creating, HalfMade, Fresh, GivenUp,
     MTypeOK, Clients
<1>13. AnswerInv'
  BY <1>1 DEF AnswerInv, GivenUp, MTypeOK, Clients, Records
<1> QED
  BY <1>3, <1>4, <1>5, <1>6, <1>7, <1>8, <1>9, <1>10, <1>11, <1>12, <1>13

\* waitpid finds a dead child, which is in the list.
LEMMA ReapKeeps ==
    ASSUME ManagerIInv, Reap
    PROVE  ManagerIInv'
<1> USE ManagerConstants DEF ManagerIInv, Reap, Zombies, heapVars, clientVars,
   signalVars, managerVars
<1>1. Listed' = Listed /\ Senders' = Senders
  BY DEF Listed, Senders
<1>2. PICK t \in Threads : pc[t] = "zombie" /\ mp' = t /\
      pc' = [pc EXCEPT ![t] = "reaped"]
  OBVIOUS
<1>3. t \in Listed /\ pid[t] = t /\ t \in Clients /\ t \in Records /\ t # Main
  BY <1>2 DEF PresentInv, Clients, Records
<1>4. MTypeOK'
  BY <1>1, <1>2, <1>3 DEF MTypeOK, Locations, ManagerLocations
<1>5. ListShape' /\ AbortCause' /\ RestInv'
  BY <1>1, <1>2 DEF ListShape, AbortCause, RestInv, MTypeOK, Clients
<1>6. ReapInv'
  BY <1>1, <1>2, <1>3 DEF ReapInv, MTypeOK, Clients
<1>7. SelfFound' /\ NothingLeft' /\ RecordInv'
  BY <1>1, <1>2, <1>3 DEF SelfFound, MTypeOK, NothingLeft, Records, RecordInv,
     Clients
<1>8. ListedInv' /\ PresentInv'
  BY <1>1, <1>2, <1>3 DEF ListedInv, HalfMade, MTypeOK, PresentInv, Clients
<1>9. LockInv' /\ NewInv'
  BY <1>1, <1>2, <1>3 DEF LockInv, LockHolder, Dead, MTypeOK, Clients,
     Records, NewInv
<1>10. WakeInv'
  BY <1>1, <1>2, <1>3 DEF WakeInv, OneWakeUp, Dead, Ending, Unanswered,
     Creating, MTypeOK, Clients, Records
<1>11. QueueInv'
  BY <1>1, <1>2, <1>3 DEF QueueInv, Sound, Ending, Fresh, MTypeOK, Clients,
     Records
<1>12. ServeInv'
  BY <1>1, <1>2, <1>3 DEF ServeInv, Creating, NoMessage, Message, MTypeOK,
     Clients
<1>13. CreateInv'
  BY <1>1, <1>2, <1>3 DEF CreateInv, ServeInv, Creating, HalfMade, Fresh,
     GivenUp, MTypeOK, Clients
<1>14. AnswerInv'
  BY <1>1, <1>2, <1>3 DEF AnswerInv, GivenUp, MTypeOK, Clients, Records
<1> QED
  BY <1>4, <1>5, <1>6, <1>7, <1>8, <1>9, <1>10, <1>11, <1>12, <1>13, <1>14

\* waitpid finds no dead child.
LEMMA ReapNoneKeeps ==
    ASSUME ManagerIInv, ReapNone
    PROVE  ManagerIInv'
<1> USE ManagerConstants DEF ManagerIInv, ReapNone, heapVars, clientVars,
   signalVars, managerVars
<1>1. Listed' = Listed /\ Senders' = Senders
  BY DEF Listed, Senders
<1>2. MTypeOK'
  BY <1>1 DEF MTypeOK, Locations, ManagerLocations
<1>3. ListShape' /\ AbortCause'
  BY <1>1 DEF ListShape, AbortCause
<1>4. ReapInv' /\ RestInv'
  BY <1>1 DEF ReapInv, MTypeOK, Clients, RestInv
<1>5. SelfFound' /\ NothingLeft' /\ RecordInv'
  BY <1>1 DEF SelfFound, MTypeOK, NothingLeft, Records, RecordInv, Clients
<1>6. ListedInv' /\ PresentInv'
  BY <1>1 DEF ListedInv, HalfMade, MTypeOK, PresentInv, Clients
<1>7. LockInv' /\ NewInv'
  BY <1>1 DEF LockInv, LockHolder, Dead, MTypeOK, Clients, Records, NewInv
<1>8. WakeInv'
  BY <1>1 DEF WakeInv, OneWakeUp, Dead, Ending, Unanswered, Creating, MTypeOK,
     Clients, Records
<1>9. QueueInv'
  BY <1>1 DEF QueueInv, Sound, Ending, Fresh, MTypeOK, Clients, Records
<1>10. ServeInv'
  BY <1>1 DEF ServeInv, Creating, NoMessage, Message, MTypeOK, Clients
<1>11. CreateInv'
  BY <1>1 DEF CreateInv, ServeInv, Creating, HalfMade, Fresh, GivenUp,
     MTypeOK, Clients
<1>12. AnswerInv'
  BY <1>1 DEF AnswerInv, GivenUp, MTypeOK, Clients, Records
<1> QED
  BY <1>2, <1>3, <1>4, <1>5, <1>6, <1>7, <1>8, <1>9, <1>10, <1>11, <1>12

\* The record of the dead child is found.
LEMMA ReapFindKeeps ==
    ASSUME ManagerIInv, ReapFind
    PROVE  ManagerIInv'
<1> USE ManagerConstants DEF ManagerIInv, ReapFind, heapVars, clientVars,
   signalVars, managerVars
<1>1. Listed' = Listed /\ Senders' = Senders
  BY DEF Listed, Senders
<1>2. FindByPid(mp) = mp /\ mp # NoPid
  <2>1. mp \in Clients \cap Listed /\ pid[mp] = mp /\ mp # NoPid
    BY DEF ReapInv, Clients, Records
  <2> QED
    BY <2>1, Found
<1>3. MTypeOK'
  BY <1>1, <1>2 DEF MTypeOK, Locations, ManagerLocations
<1>4. ListShape' /\ AbortCause' /\ ReapInv' /\ RestInv'
  BY <1>1, <1>2 DEF ListShape, AbortCause, ReapInv, MTypeOK, Clients, RestInv
<1>5. SelfFound' /\ NothingLeft' /\ RecordInv'
  BY <1>1, <1>2 DEF SelfFound, MTypeOK, NothingLeft, Records, RecordInv,
     Clients
<1>6. ListedInv' /\ PresentInv'
  BY <1>1, <1>2 DEF ListedInv, HalfMade, MTypeOK, PresentInv, Clients
<1>7. LockInv' /\ NewInv'
  BY <1>1, <1>2 DEF LockInv, LockHolder, Dead, MTypeOK, Clients, Records,
     NewInv
<1>8. WakeInv'
  BY <1>1, <1>2 DEF WakeInv, OneWakeUp, Dead, Ending, Unanswered, Creating,
     MTypeOK, Clients, Records
<1>9. QueueInv'
  BY <1>1, <1>2 DEF QueueInv, Sound, Ending, Fresh, MTypeOK, Clients, Records
<1>10. ServeInv'
  BY <1>1, <1>2 DEF ServeInv, Creating, NoMessage, Message, MTypeOK, Clients
<1>11. CreateInv'
  BY <1>1, <1>2 DEF CreateInv, ServeInv, Creating, HalfMade, Fresh, GivenUp,
     MTypeOK, Clients
<1>12. AnswerInv'
  BY <1>1, <1>2 DEF AnswerInv, GivenUp, MTypeOK, Clients, Records
<1> QED
  BY <1>3, <1>4, <1>5, <1>6, <1>7, <1>8, <1>9, <1>10, <1>11, <1>12

\* The record of a dead child is freed, once.
LEMMA ReapDeallocKeeps ==
    ASSUME ManagerIInv, ReapDealloc
    PROVE  ManagerIInv'
<1> USE ManagerConstants DEF ManagerIInv, ReapDealloc, heapVars, clientVars,
   signalVars, managerVars
<1>1. Senders' = Senders
  BY DEF Senders
<1>2. mp \in Threads \cap Listed /\ mp \in Records /\ mp # Main /\ mp # Manager
  BY DEF ReapInv, Records
<1>3. pid[mp] = mp /\ pc[mp] = "reaped"
  BY DEF ReapInv
<1>4. /\ list' \in Seq(Records) /\ ListShape' /\ Listed' = Listed \ {mp}
      /\ mem' = [mem EXCEPT ![mp] = "freed"]
      /\ held' = [held EXCEPT ![mp] = @ \ {"stack", "pipe"}]
      /\ mpc' \in {"reap_kill", "reap"} /\ list_lock' = list_lock
  BY <1>2, <1>3, Dealloc
<1>5. MTypeOK'
  BY <1>2, <1>4 DEF MTypeOK, Locations, ManagerLocations
<1>6. ListShape' /\ AbortCause'
  BY <1>4 DEF ListShape, AbortCause
<1>7. ReapInv' /\ RestInv'
  BY <1>4 DEF ReapInv, MTypeOK, Clients, RestInv
<1>8. SelfFound' /\ NothingLeft' /\ RecordInv'
  BY <1>2, <1>3, <1>4 DEF SelfFound, MTypeOK, NothingLeft, Records, RecordInv,
     Clients
<1>9. ListedInv' /\ PresentInv'
  BY <1>2, <1>3, <1>4 DEF ListedInv, HalfMade, MTypeOK, PresentInv, Clients,
     Records
<1>10. LockInv' /\ NewInv'
  BY <1>2, <1>4 DEF LockInv, LockHolder, Dead, MTypeOK, Clients, Records,
     NewInv
<1>11. WakeInv'
  BY <1>1, <1>4 DEF WakeInv, OneWakeUp, Dead, Ending, Unanswered, Creating,
     MTypeOK, Clients, Records
<1>12. QueueInv'
  BY <1>1, <1>2, <1>3, <1>4 DEF QueueInv, Sound, Ending, Fresh, MTypeOK,
     Clients, Records
<1>13. ServeInv'
  BY <1>1, <1>4 DEF ServeInv, Creating, NoMessage, Message, MTypeOK, Clients
<1>14. CreateInv'
  BY <1>2, <1>4 DEF CreateInv, ServeInv, Creating, HalfMade, Fresh, GivenUp,
     MTypeOK, Clients
<1>15. AnswerInv'
  BY <1>2, <1>3, <1>4 DEF AnswerInv, GivenUp, MTypeOK, Clients, Records
<1> QED
  BY <1>5, <1>6, <1>7, <1>8, <1>9, <1>10, <1>11, <1>12, <1>13, <1>14, <1>15

\* A signal that killed a thread goes to everybody.
LEMMA ReapKillKeeps ==
    ASSUME ManagerIInv, ReapKill
    PROVE  ManagerIInv'
<1> USE ManagerConstants DEF ManagerIInv, ReapKill, heapVars, clientVars,
   signalVars, managerVars
<1>1. Listed' = Listed /\ Senders' = Senders
  BY DEF Listed, Senders
<1>2. Everybody \subseteq Records /\ Main \in Records
  BY DEF Everybody, InFront, MTypeOK, Records
<1>3. MTypeOK'
  BY <1>1, <1>2 DEF MTypeOK, Locations, ManagerLocations
<1>4. ListShape' /\ AbortCause'
  BY <1>1 DEF ListShape, AbortCause
<1>5. ReapInv' /\ RestInv'
  BY <1>1 DEF ReapInv, MTypeOK, Clients, RestInv
<1>6. SelfFound' /\ NothingLeft' /\ RecordInv'
  BY <1>1 DEF SelfFound, MTypeOK, NothingLeft, Records, RecordInv, Clients
<1>7. ListedInv' /\ PresentInv'
  BY <1>1 DEF ListedInv, HalfMade, MTypeOK, PresentInv, Clients
<1>8. LockInv' /\ NewInv'
  BY <1>1 DEF LockInv, LockHolder, Dead, MTypeOK, Clients, Records, NewInv
<1>9. WakeInv'
  BY <1>1 DEF WakeInv, OneWakeUp, Dead, Ending, Unanswered, Creating, MTypeOK,
     Clients, Records
<1>10. QueueInv'
  BY <1>1 DEF QueueInv, Sound, Ending, Fresh, MTypeOK, Clients, Records
<1>11. ServeInv'
  BY <1>1 DEF ServeInv, Creating, NoMessage, Message, MTypeOK, Clients
<1>12. CreateInv'
  BY <1>1 DEF CreateInv, ServeInv, Creating, HalfMade, Fresh, GivenUp,
     MTypeOK, Clients
<1>13. AnswerInv'
  BY <1>1 DEF AnswerInv, GivenUp, MTypeOK, Clients, Records
<1> QED
  BY <1>3, <1>4, <1>5, <1>6, <1>7, <1>8, <1>9, <1>10, <1>11, <1>12, <1>13

\* The manager reads a message, whose sender waits.
LEMMA ReadMessageKeeps ==
    ASSUME ManagerIInv, ReadMessage
    PROVE  ManagerIInv'
<1> USE ManagerConstants DEF ManagerIInv, ReadMessage, heapVars, clientVars,
   signalVars, managerVars
<1>1. Listed' = Listed
  BY DEF Listed
<1>2. /\ msg' = mq[1] /\ mq[1] \in Messages /\ mq' \in Seq(Messages)
      /\ Head(mq) = mq[1] /\ mq[1].caller \in Senders /\ Senders' \subseteq Senders
  BY Received
<1>3. ~Ending /\ msg = NoMessage /\ mp' = mp
  BY DEF Ending, ServeInv
<1>4. Sound(mq[1])
  BY <1>3, Received DEF QueueInv
<1>5. /\ mq[1].caller \in Clients /\ mq[1].caller \in Records
      /\ mpc' = mq[1].type /\ mpc' \in {"create", "thread_exit", "all_exit"}
  BY <1>2, <1>4 DEF Sound, Messages, Clients, Records
<1>6. pipe[mq[1].caller] = 0 /\ pc[mq[1].caller] \in {"answer", "leave"}
  BY <1>2, <1>4, <1>5 DEF Sound, WakeInv, OneWakeUp, MTypeOK, Clients, Records
<1>7. mq[1].caller \notin Senders'
  BY <1>3, Received DEF QueueInv, Senders
<1>8. MTypeOK'
  BY <1>2, <1>5 DEF MTypeOK, Locations, ManagerLocations
<1>9. ListShape' /\ AbortCause'
  BY <1>1, <1>5 DEF ListShape, AbortCause
<1>10. ReapInv' /\ RestInv'
  BY <1>1, <1>5 DEF ReapInv, MTypeOK, Clients, RestInv
<1>11. SelfFound' /\ NothingLeft' /\ RecordInv'
  BY <1>1 DEF SelfFound, MTypeOK, NothingLeft, Records, RecordInv, Clients
<1>12. ListedInv' /\ PresentInv'
  BY <1>1, <1>3, <1>5 DEF ListedInv, HalfMade, MTypeOK, PresentInv, Clients
<1>13. LockInv' /\ NewInv'
  BY <1>1, <1>3, <1>5 DEF LockInv, LockHolder, Dead, MTypeOK, Clients,
     Records, NewInv
<1>14. WakeInv'
  BY <1>2, <1>3, <1>5, <1>6, <1>7, SMTT(60) DEF WakeInv, OneWakeUp, Dead, Ending,
     Unanswered, Creating, MTypeOK, Clients, Records
<1>15. QueueInv'
  <2>1. \A i, j \in 1..Len(mq') : mq'[i].caller = mq'[j].caller => i = j
    <3>1. \A i, j \in 1..Len(mq') :
             mq'[i].caller = mq'[j].caller => i + 1 = j + 1
      BY <1>3, Received DEF QueueInv
    <3>2. Len(mq') \in Nat
      BY <1>2
    <3> QED
      BY <3>1, <3>2
  <2>2. (\A i \in 1..Len(mq) : Sound(mq[i]))'
    <3>1. \A i \in 1..Len(mq') : \E n \in Messages : mq'[i] = n /\ Sound(n)
      BY <1>2, <1>3, Received DEF QueueInv, MTypeOK
    <3>2. \A n \in Messages : Sound(n) => Sound(n)'
      BY <1>1 DEF Sound, Fresh
    <3> QED
      BY <3>1, <3>2 DEF Sound
  <2> QED
    BY <1>2, <1>3, <1>7, <2>1, <2>2 DEF QueueInv
<1>16. ServeInv'
  BY <1>2, <1>3, <1>4, <1>5, <1>6 DEF ServeInv, Creating, NoMessage, Message,
     MTypeOK, Clients, Sound, Messages
<1>17. CreateInv'
  <2> SUFFICES ASSUME NEW m \in Messages, m = mq[1], m.type = "create"
               PROVE  CreateInv'
    BY <1>2 DEF CreateInv
  <2>1. /\ pc[m.caller] = "answer" /\ new[m.caller] = m.thread
        /\ m.thread \in Threads /\ mem[m.thread] = "alloc" /\ Fresh(m.thread)
    BY <1>4 DEF Sound, Fresh
  <2>2. mpc' = "create" /\ killed' = {} /\ status'[m.caller] = 0
    BY <1>2, <1>3, <1>5 DEF QueueInv, MTypeOK
  <2>3. Fresh(m.thread)'
    BY <1>1, <2>1 DEF Fresh
  <2> QED
    BY <1>2, <1>6, <2>1, <2>2, <2>3 DEF CreateInv, HalfMade
<1>18. AnswerInv'
  BY SMTT(60), <1>1, <1>2, <1>5, <1>6 DEF AnswerInv, GivenUp, MTypeOK, Clients,
     Records
<1> QED
  BY <1>8, <1>9, <1>10, <1>11, <1>12, <1>13, <1>14, <1>15, <1>16, <1>17, <1>18

\* do_create lists the record.
LEMMA CreateAddKeeps ==
    ASSUME ManagerIInv, CreateAdd
    PROVE  ManagerIInv'
<1> USE ManagerConstants DEF ManagerIInv, CreateAdd, heapVars, clientVars,
   signalVars, managerVars
<1>1. Senders' = Senders
  BY DEF Senders
<1>2. msg.caller \in Clients /\ msg.caller \in Records
  BY DEF ServeInv, Creating, Clients, Records
<1>3. msg.type = "create" /\ pipe[msg.caller] = 0 /\ Fresh(msg.thread)
  BY DEF ServeInv, Creating, CreateInv
<1>4. msg.thread \in Threads \ Listed /\ msg.thread \in Records
  BY <1>3 DEF Fresh, Records
<1>5. \A d \in Clients : new[d] = msg.thread => d = msg.caller
  BY <1>2, <1>4 DEF NewInv, CreateInv, ServeInv, Creating
<1>6. ~Ending' => \A i \in 1..Len(mq) : mq[i].type = "create" =>
      mq[i].thread # msg.thread
  BY <1>2, <1>4, <1>5 DEF QueueInv, Sound, Ending, Senders
<1>7. \A c \in Clients : pc[c] = "answer" /\ pipe[c] > 0 => c # msg.caller /\
      new[c] # msg.thread
  BY <1>2, <1>3, <1>5
<1>8. list' \in Seq(Records) /\ ListShape' /\ Listed' = Listed \cup {msg.thread}
  BY <1>4, Added
<1>9. MTypeOK'
  BY <1>4, <1>8 DEF MTypeOK, Locations, ManagerLocations
<1>10. ListShape' /\ AbortCause'
  BY <1>8 DEF ListShape, AbortCause
<1>11. ReapInv' /\ RestInv'
  BY <1>8 DEF ReapInv, MTypeOK, Clients, RestInv
<1>12. SelfFound' /\ NothingLeft' /\ RecordInv'
  BY <1>3, <1>4, <1>8 DEF SelfFound, MTypeOK, NothingLeft, Records, RecordInv,
     Clients, Fresh
<1>13. ListedInv' /\ PresentInv'
  BY <1>3, <1>4, <1>8 DEF ListedInv, HalfMade, MTypeOK, PresentInv, Clients,
     Fresh
<1>14. LockInv' /\ NewInv'
  BY DEF LockInv, LockHolder, Dead, MTypeOK, Clients, Records, NewInv
<1>15. WakeInv'
  BY <1>1 DEF WakeInv, OneWakeUp, Dead, Ending, Unanswered, Creating, MTypeOK,
     Clients, Records
<1>16. QueueInv'
  BY <1>1, <1>4, <1>6, <1>8 DEF QueueInv, Sound, Ending, Fresh, MTypeOK,
     Clients, Records
<1>17. ServeInv'
  BY <1>1 DEF ServeInv, Creating, NoMessage, Message, MTypeOK, Clients
<1>18. CreateInv'
  BY <1>2, <1>3, <1>4, <1>8 DEF CreateInv, ServeInv, Creating, HalfMade,
     Fresh, GivenUp, MTypeOK, Clients, Records
<1>19. AnswerInv'
  BY <1>4, <1>7, <1>8 DEF AnswerInv, GivenUp, MTypeOK, Clients, Records
<1> QED
  BY <1>9, <1>10, <1>11, <1>12, <1>13, <1>14, <1>15, <1>16, <1>17, <1>18, <1>19

\* do_create has no stack: the record stays as it was.
LEMMA CreateNoStackKeeps ==
    ASSUME ManagerIInv, CreateNoStack
    PROVE  ManagerIInv'
<1> USE ManagerConstants DEF ManagerIInv, CreateNoStack, CreateOut, heapVars,
   clientVars, signalVars, managerVars
<1>1. Listed' = Listed /\ Senders' = Senders
  BY DEF Listed, Senders
<1>2. msg.caller \in Clients /\ msg.caller \in Records
  BY DEF ServeInv, Creating, Clients, Records
<1>3. msg.type = "create" /\ pipe[msg.caller] = 0 /\ Fresh(msg.thread)
  BY DEF ServeInv, Creating, CreateInv
<1>4. MTypeOK'
  BY <1>1, <1>2 DEF MTypeOK, Locations, ManagerLocations
<1>5. ListShape' /\ AbortCause'
  BY <1>1 DEF ListShape, AbortCause
<1>6. ReapInv' /\ RestInv'
  BY <1>1 DEF ReapInv, MTypeOK, Clients, RestInv
<1>7. SelfFound' /\ NothingLeft' /\ RecordInv'
  BY <1>1 DEF SelfFound, MTypeOK, NothingLeft, Records, RecordInv, Clients
<1>8. ListedInv' /\ PresentInv'
  BY <1>1 DEF ListedInv, HalfMade, MTypeOK, PresentInv, Clients
<1>9. LockInv' /\ NewInv'
  BY <1>1 DEF LockInv, LockHolder, Dead, MTypeOK, Clients, Records, NewInv
<1>10. WakeInv'
  BY <1>1 DEF WakeInv, OneWakeUp, Dead, Ending, Unanswered, Creating, MTypeOK,
     Clients, Records
<1>11. QueueInv'
  BY <1>1, <1>2 DEF QueueInv, Sound, Ending, Fresh, MTypeOK, Clients, Records
<1>12. ServeInv'
  BY <1>1 DEF ServeInv, Creating, NoMessage, Message, MTypeOK, Clients
<1>13. CreateInv'
  BY <1>1, <1>2, <1>3 DEF CreateInv, ServeInv, Creating, HalfMade, Fresh,
     GivenUp, MTypeOK, Clients, Records
<1>14. AnswerInv'
  BY <1>1, <1>2, <1>3 DEF AnswerInv, GivenUp, MTypeOK, Clients, Records
<1> QED
  BY <1>4, <1>5, <1>6, <1>7, <1>8, <1>9, <1>10, <1>11, <1>12, <1>13, <1>14

\* do_create has no pipe or no start_struct: the stack stays.
LEMMA CreateNoPipeKeeps ==
    ASSUME ManagerIInv, CreateNoPipe
    PROVE  ManagerIInv'
<1> USE ManagerConstants DEF ManagerIInv, CreateNoPipe, CreateOut, FreeStack,
   heapVars, clientVars, signalVars, managerVars
<1>1. Listed' = Listed /\ Senders' = Senders
  BY DEF Listed, Senders
<1>2. msg.caller \in Clients /\ msg.caller \in Records
  BY DEF ServeInv, Creating, Clients, Records
<1>3. msg.type = "create" /\ pipe[msg.caller] = 0 /\ Fresh(msg.thread)
  BY DEF ServeInv, Creating, CreateInv
<1>4. msg.thread \in Threads /\ msg.thread \in Records
  BY <1>3 DEF Fresh, Records
<1>5. \A d \in Clients : new[d] = msg.thread => d = msg.caller
  BY <1>2, <1>4 DEF NewInv, CreateInv, ServeInv, Creating
<1>6. ~Ending' => \A i \in 1..Len(mq) : mq[i].type = "create" =>
      mq[i].thread # msg.thread
  BY <1>2, <1>4, <1>5 DEF QueueInv, Sound, Ending, Senders
<1>7. \A c \in Clients : pc[c] = "answer" /\ pipe[c] > 0 => c # msg.caller /\
      new[c] # msg.thread
  BY <1>2, <1>3, <1>5
<1>8. GivenUp(msg.thread)'
  BY <1>1, <1>3, <1>4 DEF GivenUp, Fresh, MTypeOK
<1>9. MTypeOK'
  BY <1>1, <1>2, <1>3, <1>4 DEF MTypeOK, Locations, ManagerLocations
<1>10. ListShape' /\ AbortCause'
  BY <1>1 DEF ListShape, AbortCause
<1>11. ReapInv' /\ RestInv'
  BY <1>1 DEF ReapInv, MTypeOK, Clients, RestInv
<1>12. SelfFound' /\ NothingLeft' /\ RecordInv'
  BY <1>1, <1>2, <1>3, <1>4 DEF SelfFound, MTypeOK, NothingLeft, Records,
     RecordInv, Clients, Fresh
<1>13. ListedInv' /\ PresentInv'
  BY <1>1 DEF ListedInv, HalfMade, MTypeOK, PresentInv, Clients
<1>14. LockInv' /\ NewInv'
  BY <1>1 DEF LockInv, LockHolder, Dead, MTypeOK, Clients, Records, NewInv
<1>15. WakeInv'
  BY <1>1 DEF WakeInv, OneWakeUp, Dead, Ending, Unanswered, Creating, MTypeOK,
     Clients, Records
<1>16. QueueInv'
  BY <1>1, <1>2, <1>4, <1>6 DEF QueueInv, Sound, Ending, Fresh, MTypeOK,
     Clients, Records
<1>17. ServeInv'
  BY <1>1 DEF ServeInv, Creating, NoMessage, Message, MTypeOK, Clients
<1>18. CreateInv'
  BY SMTT(60), <1>2, <1>3, <1>4, <1>8
  DEF CreateInv, ServeInv, Creating, HalfMade, MTypeOK, Clients, Records
<1>19. AnswerInv'
  BY <1>1, <1>2, <1>4, <1>7, SMTT(60) DEF AnswerInv, GivenUp, MTypeOK, Clients, Records
<1> QED
  BY <1>9, <1>10, <1>11, <1>12, <1>13, <1>14, <1>15, <1>16, <1>17, <1>18, <1>19

\* clone: the new thread is listed before it runs.
LEMMA CloneKeeps ==
    ASSUME ManagerIInv, Clone
    PROVE  ManagerIInv'
<1> USE ManagerConstants DEF ManagerIInv, Clone, Unlocked, heapVars,
   clientVars, signalVars, managerVars
<1>1. Listed' = Listed /\ Senders' = Senders
  BY DEF Listed, Senders
<1>2. msg.caller \in Clients /\ msg.caller \in Records
  BY DEF ServeInv, Creating, Clients, Records
<1>3. msg.type = "create" /\ pipe[msg.caller] = 0 /\ mem[msg.thread] = "alloc"
  BY DEF ServeInv, Creating, CreateInv
<1>4. msg.thread \in Threads /\ msg.thread \in Clients /\
      msg.thread \in Records /\ msg.thread # Main /\ msg.thread # Manager
  BY <1>3 DEF CreateInv, Clients, Records
<1>5. \A d \in Clients : new[d] = msg.thread => d = msg.caller
  BY <1>2, <1>3, <1>4 DEF NewInv, CreateInv
<1>6. ~Ending' => \A i \in 1..Len(mq) : mq[i].type = "create" =>
      mq[i].thread # msg.thread
  BY <1>2, <1>4, <1>5 DEF QueueInv, Sound, Ending, Senders
<1>7. pc[msg.thread] = "none" /\ msg.thread \in Listed
  BY <1>3, <1>4 DEF CreateInv, HalfMade
<1>8. MTypeOK'
  BY <1>1, <1>4 DEF MTypeOK, Locations, ManagerLocations, Records
<1>9. ListShape' /\ AbortCause'
  BY <1>1 DEF ListShape, AbortCause
<1>10. ReapInv' /\ RestInv'
  BY <1>1 DEF ReapInv, MTypeOK, Clients, RestInv
<1>11. SelfFound' /\ NothingLeft' /\ RecordInv'
  BY SMTT(60), <1>1, <1>3, <1>4, <1>7 DEF SelfFound, MTypeOK, NothingLeft, Records,
     RecordInv, Clients
<1>12. ListedInv' /\ PresentInv'
  BY <1>1, <1>4, <1>7 DEF ListedInv, HalfMade, MTypeOK, PresentInv, Clients
<1>13. LockInv' /\ NewInv'
  BY <1>1, <1>4, <1>7 DEF LockInv, LockHolder, Dead, MTypeOK, Clients,
     Records, NewInv
<1>14. WakeInv'
  BY <1>1, <1>3, <1>4, <1>7, SMTT(60) DEF WakeInv, OneWakeUp, Dead, Ending,
     Unanswered,
     Creating, MTypeOK, Clients, Records
<1>15. QueueInv'
  BY <1>1, <1>2, <1>4, <1>6, <1>7, SMTT(60) DEF QueueInv, Sound, Ending, Fresh,
     MTypeOK,
     Clients, Records
<1>16. ServeInv'
  BY <1>1, <1>3, <1>4, <1>7 DEF ServeInv, Creating, NoMessage, Message,
     MTypeOK, Clients
<1>17. CreateInv'
  BY <1>1, <1>2, <1>3, <1>4, <1>7 DEF CreateInv, ServeInv, Creating, HalfMade,
     Fresh, GivenUp, MTypeOK, Clients
<1>18. AnswerInv'
  BY SMTT(60), <1>1, <1>2, <1>3, <1>4, <1>5, <1>7 DEF AnswerInv, GivenUp, MTypeOK,
     Clients, Records
<1> QED
  BY <1>8, <1>9, <1>10, <1>11, <1>12, <1>13, <1>14, <1>15, <1>16, <1>17, <1>18

\* The result of clone is stored.
LEMMA StorePidKeeps ==
    ASSUME ManagerIInv, StorePid
    PROVE  ManagerIInv'
<1> USE ManagerConstants DEF ManagerIInv, StorePid, heapVars, clientVars,
   signalVars, managerVars
<1>1. Listed' = Listed /\ Senders' = Senders
  BY DEF Listed, Senders
<1>2. msg.caller \in Clients /\ msg.caller \in Records
  BY DEF ServeInv, Creating, Clients, Records
<1>3. msg.type = "create" /\ pipe[msg.caller] = 0 /\ mem[msg.thread] = "alloc"
  BY DEF ServeInv, Creating, CreateInv
<1>4. msg.thread \in Threads /\ msg.thread \in Clients /\
      msg.thread \in Records /\ msg.thread # Main /\ msg.thread # Manager
  BY <1>3 DEF CreateInv, Clients, Records
<1>5. \A d \in Clients : new[d] = msg.thread => d = msg.caller
  BY <1>2, <1>3, <1>4 DEF NewInv, CreateInv
<1>6. ~Ending' => \A i \in 1..Len(mq) : mq[i].type = "create" =>
      mq[i].thread # msg.thread
  BY <1>2, <1>4, <1>5 DEF QueueInv, Sound, Ending, Senders
<1>7. \A c \in Clients : pc[c] = "answer" /\ pipe[c] > 0 => c # msg.caller /\
      new[c] # msg.thread
  BY <1>2, <1>3, <1>5
<1>8. msg.thread \in Listed
  BY <1>3 DEF CreateInv, HalfMade
<1>9. mpc = "create_nopid" => pc[msg.thread] = "none"
  BY <1>3 DEF CreateInv
<1>10. status[msg.caller] = 0
  BY <1>3 DEF CreateInv
<1>11. MTypeOK'
  BY <1>1, <1>4 DEF MTypeOK, Locations, ManagerLocations, Records
<1>12. ListShape' /\ AbortCause'
  BY <1>1 DEF ListShape, AbortCause
<1>13. ReapInv' /\ RestInv'
  BY <1>1 DEF ReapInv, MTypeOK, Clients, RestInv
<1>14. SelfFound' /\ NothingLeft' /\ RecordInv'
  BY <1>1, <1>3, <1>4, <1>8 DEF SelfFound, MTypeOK, NothingLeft, Records,
     RecordInv, Clients
<1>15. ListedInv' /\ PresentInv'
  BY <1>1, <1>4, <1>8, <1>9 DEF ListedInv, HalfMade, MTypeOK, PresentInv,
     Clients
<1>16. LockInv' /\ NewInv'
  BY <1>1, <1>4 DEF LockInv, LockHolder, Dead, MTypeOK, Clients, Records,
     NewInv
<1>17. WakeInv'
  BY <1>1 DEF WakeInv, OneWakeUp, Dead, Ending, Unanswered, Creating, MTypeOK,
     Clients, Records
<1>18. QueueInv'
  BY <1>1, <1>4, <1>6, <1>8 DEF QueueInv, Sound, Ending, Fresh, MTypeOK,
     Clients, Records
<1>19. ServeInv'
  BY <1>1 DEF ServeInv, Creating, NoMessage, Message, MTypeOK, Clients
<1>20. CreateInv'
  BY <1>1, <1>2, <1>3, <1>4, <1>8, <1>9, <1>10 DEF CreateInv, ServeInv,
     Creating, HalfMade, Fresh, GivenUp, MTypeOK, Clients, Records
<1>21. AnswerInv'
  BY SMTT(60), <1>1, <1>4, <1>7, <1>8 DEF AnswerInv, GivenUp, MTypeOK, Clients,
     Records
<1> QED
  BY <1>11, <1>12, <1>13, <1>14, <1>15, <1>16, <1>17, <1>18, <1>19, <1>20, <1>21

\* do_create gives up: the record it takes out of the list is the new one.
LEMMA CreateUndoKeeps ==
    ASSUME ManagerIInv, CreateUndo
    PROVE  ManagerIInv'
<1> USE ManagerConstants DEF ManagerIInv, CreateUndo, FreeStack, CreateOut,
   heapVars, clientVars, signalVars, managerVars
<1>1. Senders' = Senders
  BY DEF Senders
<1>2. msg.caller \in Clients /\ msg.caller \in Records
  BY DEF ServeInv, Creating, Clients, Records
<1>3. msg.type = "create" /\ pipe[msg.caller] = 0 /\ mem[msg.thread] = "alloc"
  BY DEF ServeInv, Creating, CreateInv
<1>4. msg.thread \in Threads /\ msg.thread \in Clients /\
      msg.thread \in Records /\ msg.thread # Main /\ msg.thread # Manager
  BY <1>3 DEF CreateInv, Clients, Records
<1>5. \A d \in Clients : new[d] = msg.thread => d = msg.caller
  BY <1>2, <1>3, <1>4 DEF NewInv, CreateInv
<1>6. ~Ending' => \A i \in 1..Len(mq) : mq[i].type = "create" =>
      mq[i].thread # msg.thread
  BY <1>2, <1>4, <1>5 DEF QueueInv, Sound, Ending, Senders
<1>7. \A c \in Clients : pc[c] = "answer" /\ pipe[c] > 0 => c # msg.caller /\
      new[c] # msg.thread
  BY <1>2, <1>3, <1>5
<1>8. /\ msg.thread \in Threads \cap Listed /\ pid[msg.thread] = Failed
      /\ pc[msg.thread] = "none"
  BY <1>3, <1>4 DEF CreateInv, HalfMade
<1>9. \A r \in Listed : pid[r] = pid[msg.thread] => r = msg.thread
  BY <1>8, BothListed DEF ListedInv, HalfMade
<1>10. list' \in Seq(Records) /\ ListShape' /\ Listed' = Listed \ {msg.thread}
  BY <1>8, <1>9, Deleted
<1>11. GivenUp(msg.thread)'
  BY <1>3, <1>4, <1>8, <1>10 DEF GivenUp, MTypeOK
<1>12. MTypeOK'
  BY <1>2, <1>4, <1>10 DEF MTypeOK, Locations, ManagerLocations
<1>13. ListShape' /\ AbortCause'
  BY <1>10 DEF ListShape, AbortCause
<1>14. ReapInv' /\ RestInv'
  BY <1>10 DEF ReapInv, MTypeOK, Clients, RestInv
<1>15. SelfFound' /\ NothingLeft' /\ RecordInv'
  BY <1>3, <1>4, <1>8, <1>10 DEF SelfFound, MTypeOK, NothingLeft, Records,
     RecordInv, Clients
<1>16. ListedInv' /\ PresentInv'
  BY <1>4, <1>8, <1>10 DEF ListedInv, HalfMade, MTypeOK, PresentInv, Clients
<1>17. LockInv' /\ NewInv'
  BY DEF LockInv, LockHolder, Dead, MTypeOK, Clients, Records, NewInv
<1>18. WakeInv'
  BY <1>1 DEF WakeInv, OneWakeUp, Dead, Ending, Unanswered, Creating, MTypeOK,
     Clients, Records
<1>19. QueueInv'
  BY <1>1, <1>4, <1>6, <1>10 DEF QueueInv, Sound, Ending, Fresh, MTypeOK,
     Clients, Records
<1>20. ServeInv'
  BY <1>1 DEF ServeInv, Creating, NoMessage, Message, MTypeOK, Clients
<1>21. CreateInv'
  BY <1>2, <1>3, <1>4, <1>11, SMTT(60)
  DEF CreateInv, ServeInv, Creating, HalfMade, MTypeOK, Clients, Records
<1>22. AnswerInv'
  BY <1>2, <1>4, <1>7, <1>10, SMTT(60) DEF AnswerInv, GivenUp, MTypeOK, Clients, Records
<1> QED
  BY <1>12, <1>13, <1>14, <1>15, <1>16, <1>17, <1>18, <1>19, <1>20, <1>21, <1>22

\* The caller of sthread_create gets its answer.
LEMMA CreateWakeKeeps ==
    ASSUME ManagerIInv, CreateWake
    PROVE  ManagerIInv'
<1> USE ManagerConstants DEF ManagerIInv, CreateWake, Done, sthread_wake,
   NoMessage, Message, heapVars, clientVars, signalVars, managerVars
<1>1. Listed' = Listed /\ Senders' = Senders
  BY DEF Listed, Senders
<1>2. msg.caller \in Clients /\ msg.caller \in Records
  BY DEF ServeInv, Creating, Clients, Records
<1>3. /\ msg.type = "create" /\ pipe[msg.caller] = 0 /\ pc[msg.caller] = "answer"
      /\ new[msg.caller] = msg.thread
  BY DEF ServeInv, Creating, CreateInv
<1>4. msg.caller \notin Senders /\ killed = {}
  BY DEF QueueInv, Ending
<1>5. IF status[msg.caller] = 0 THEN pid[msg.thread] = msg.thread ELSE GivenUp(msg.thread)
  BY <1>3 DEF CreateInv
<1>6. \A r \in Records : pipe'[r] = IF r = msg.caller THEN 1 ELSE pipe[r]
  BY <1>2, <1>3 DEF MTypeOK
<1>7. MTypeOK'
  BY <1>1, <1>2 DEF MTypeOK, Locations, ManagerLocations, Messages
<1>8. ListShape' /\ AbortCause'
  BY <1>1 DEF ListShape, AbortCause
<1>9. ReapInv' /\ RestInv'
  BY <1>1 DEF ReapInv, MTypeOK, Clients, RestInv
<1>10. SelfFound' /\ NothingLeft' /\ RecordInv'
  BY <1>1 DEF SelfFound, MTypeOK, NothingLeft, Records, RecordInv, Clients
<1>11. ListedInv' /\ PresentInv'
  BY <1>1 DEF ListedInv, HalfMade, MTypeOK, PresentInv, Clients
<1>12. LockInv' /\ NewInv'
  BY <1>1 DEF LockInv, LockHolder, Dead, MTypeOK, Clients, Records, NewInv
<1>13. WakeInv'
  BY <1>1, <1>2, <1>3, <1>4, <1>6, SMTT(60) DEF WakeInv, OneWakeUp, Dead, Ending,
     Unanswered, Creating, MTypeOK, Clients, Records, ServeInv
<1>14. QueueInv'
  BY <1>1, <1>2, <1>4, SMTT(60) DEF QueueInv, Sound, Ending, Fresh, MTypeOK, Clients,
     Records, Senders
<1>15. ServeInv'
  BY <1>1 DEF ServeInv, Creating, NoMessage, Message, MTypeOK, Clients
<1>16. CreateInv'
  BY <1>1 DEF CreateInv, ServeInv, Creating, HalfMade, Fresh, GivenUp,
     MTypeOK, Clients
<1>17. AnswerInv'
  BY <1>1, <1>2, <1>3, <1>5, <1>6 DEF AnswerInv, GivenUp, MTypeOK, Clients,
     Records
<1> QED
  BY <1>7, <1>8, <1>9, <1>10, <1>11, <1>12, <1>13, <1>14, <1>15, <1>16, <1>17

\* A finished thread is woken, to end.
LEMMA ThreadExitWakeKeeps ==
    ASSUME ManagerIInv, ThreadExitWake
    PROVE  ManagerIInv'
<1> USE ManagerConstants DEF ManagerIInv, ThreadExitWake, sthread_wake,
   heapVars, clientVars, signalVars, managerVars
<1>1. Listed' = Listed /\ Senders' = Senders
  BY DEF Listed, Senders
<1>2. msg.caller \in Clients /\ msg.caller \in Records
  BY DEF ServeInv, Creating, Clients, Records
<1>3. pc[msg.caller] = "leave" /\ pipe[msg.caller] = 0 /\ msg.type = "thread_exit"
  BY DEF ServeInv
<1>4. msg.caller \notin Senders
  BY DEF QueueInv, Ending
<1>5. \A r \in Records : pipe'[r] = IF r = msg.caller THEN 1 ELSE pipe[r]
  BY <1>2, <1>3 DEF MTypeOK
<1>6. MTypeOK'
  BY <1>1, <1>2, SMTT(60) DEF MTypeOK, Locations, ManagerLocations, Records
<1>7. ListShape' /\ AbortCause'
  BY <1>1 DEF ListShape, AbortCause
<1>8. ReapInv' /\ RestInv'
  BY <1>1 DEF ReapInv, MTypeOK, Clients, RestInv
<1>9. SelfFound' /\ NothingLeft' /\ RecordInv'
  BY <1>1 DEF SelfFound, MTypeOK, NothingLeft, Records, RecordInv, Clients
<1>10. ListedInv' /\ PresentInv'
  BY <1>1 DEF ListedInv, HalfMade, MTypeOK, PresentInv, Clients
<1>11. LockInv' /\ NewInv'
  BY <1>1 DEF LockInv, LockHolder, Dead, MTypeOK, Clients, Records, NewInv
<1>12. WakeInv'
  BY <1>1, <1>2, <1>3, <1>4, <1>5, SMTT(60) DEF WakeInv, OneWakeUp, Dead, Ending,
     Unanswered, Creating, MTypeOK, Clients, Records
<1>13. QueueInv'
  BY <1>1 DEF QueueInv, Sound, Ending, Fresh, MTypeOK, Clients, Records
<1>14. ServeInv'
  BY <1>1, <1>2, <1>3, <1>5 DEF ServeInv, Creating, NoMessage, Message,
     MTypeOK, Clients, Records
<1>15. CreateInv'
  BY <1>1, <1>3 DEF CreateInv, ServeInv, Creating, HalfMade, Fresh, GivenUp,
     MTypeOK, Clients
<1>16. AnswerInv'
  BY <1>1, <1>2, <1>3, <1>5 DEF AnswerInv, GivenUp, MTypeOK, Clients, Records
<1> QED
  BY <1>6, <1>7, <1>8, <1>9, <1>10, <1>11, <1>12, <1>13, <1>14, <1>15, <1>16

\* The manager waits for the thread, which is still listed.
LEMMA ThreadExitWaitKeeps ==
    ASSUME ManagerIInv, ThreadExitWait
    PROVE  ManagerIInv'
<1> USE ManagerConstants DEF ManagerIInv, ThreadExitWait, Dead, heapVars,
   clientVars, signalVars, managerVars
<1>1. Listed' = Listed /\ Senders' = Senders
  BY DEF Listed, Senders
<1>2. msg.caller \in Threads /\ msg.caller \in Clients /\
      pc[msg.caller] = "zombie" /\ msg.caller # Main
  BY DEF ServeInv, Clients
<1>3. msg.caller \in Listed /\ pid[msg.caller] = msg.caller
  BY <1>2 DEF PresentInv
<1>4. MTypeOK'
  BY <1>1 DEF MTypeOK, Locations, ManagerLocations
<1>5. ListShape' /\ AbortCause' /\ RestInv'
  BY <1>1 DEF ListShape, AbortCause, RestInv, MTypeOK, Clients
<1>6. ReapInv'
  BY <1>1, <1>2, <1>3 DEF ReapInv, MTypeOK, Clients
<1>7. SelfFound' /\ NothingLeft' /\ RecordInv'
  BY <1>1, <1>2 DEF SelfFound, MTypeOK, NothingLeft, Records, RecordInv,
     Clients
<1>8. ListedInv' /\ PresentInv'
  BY <1>1, <1>2 DEF ListedInv, HalfMade, MTypeOK, PresentInv, Clients
<1>9. LockInv' /\ NewInv'
  BY <1>1, <1>2 DEF LockInv, LockHolder, Dead, MTypeOK, Clients, Records,
     NewInv
<1>10. WakeInv'
  BY <1>1, <1>2 DEF WakeInv, OneWakeUp, Dead, Ending, Unanswered, Creating,
     MTypeOK, Clients, Records
<1>11. QueueInv'
  BY <1>1, <1>2 DEF QueueInv, Sound, Ending, Fresh, MTypeOK, Clients, Records
<1>12. ServeInv'
  BY <1>1, <1>2 DEF ServeInv, Creating, NoMessage, Message, MTypeOK, Clients
<1>13. CreateInv'
  BY <1>1, <1>2 DEF CreateInv, ServeInv, Creating, HalfMade, Fresh, GivenUp,
     MTypeOK, Clients
<1>14. AnswerInv'
  BY <1>1, <1>2 DEF AnswerInv, GivenUp, MTypeOK, Clients, Records
<1> QED
  BY <1>4, <1>5, <1>6, <1>7, <1>8, <1>9, <1>10, <1>11, <1>12, <1>13, <1>14

\* The record of a finished thread is freed, once.
LEMMA ThreadExitDeallocKeeps ==
    ASSUME ManagerIInv, ThreadExitDealloc
    PROVE  ManagerIInv'
<1> USE ManagerConstants DEF ManagerIInv, ThreadExitDealloc, Done, NoMessage,
   Message, heapVars, clientVars, signalVars, managerVars
<1>1. Senders' = Senders
  BY DEF Senders
<1>2. msg.caller \in Threads \cap Listed /\ msg.caller \in Records /\
      msg.caller # Main /\ msg.caller # Manager
  BY DEF ReapInv, ServeInv, Records
<1>3. pid[msg.caller] = msg.caller /\ pc[msg.caller] = "reaped"
  BY DEF ReapInv
<1>4. /\ list' \in Seq(Records) /\ ListShape' /\ Listed' = Listed \ {msg.caller}
      /\ mem' = [mem EXCEPT ![msg.caller] = "freed"]
      /\ held' = [held EXCEPT ![msg.caller] = @ \ {"stack", "pipe"}]
      /\ mpc' = "loop" /\ list_lock' = list_lock
  BY <1>2, <1>3, Dealloc
<1>5. MTypeOK'
  BY <1>2, <1>4 DEF MTypeOK, Locations, ManagerLocations, Messages
<1>6. ListShape' /\ AbortCause'
  BY <1>4 DEF ListShape, AbortCause
<1>7. ReapInv' /\ RestInv'
  BY <1>4 DEF ReapInv, MTypeOK, Clients, RestInv
<1>8. SelfFound' /\ NothingLeft' /\ RecordInv'
  BY <1>2, <1>3, <1>4, SMTT(60) DEF SelfFound, MTypeOK, NothingLeft, Records, RecordInv,
     Clients
<1>9. ListedInv' /\ PresentInv'
  BY <1>2, <1>3, <1>4 DEF ListedInv, HalfMade, MTypeOK, PresentInv, Clients,
     Records
<1>10. LockInv' /\ NewInv'
  BY <1>2, <1>4 DEF LockInv, LockHolder, Dead, MTypeOK, Clients, Records,
     NewInv
<1>11. WakeInv'
  BY <1>1, <1>4 DEF WakeInv, OneWakeUp, Dead, Ending, Unanswered, Creating,
     MTypeOK, Clients, Records
<1>12. QueueInv'
  <2>1. ~Ending /\ msg'.caller = NoPid
    BY DEF Ending
  <2>2. killed = {} /\ NoPid \notin Senders
    BY <2>1 DEF QueueInv, Sound, Senders, Clients, Records
  <2>3. \A n \in Messages : Sound(n) => Sound(n)'
    BY <1>2, <1>3, <1>4 DEF Sound, Fresh, MTypeOK
  <2>4. \A i \in 1..Len(mq) : \E n \in Messages : mq[i] = n /\ Sound(n)
    BY <2>1 DEF QueueInv, MTypeOK
  <2>5. (\A i \in 1..Len(mq) : Sound(mq[i]))'
    BY <2>3, <2>4 DEF Sound
  <2> QED
    BY <1>1, <2>1, <2>2, <2>5 DEF QueueInv
<1>13. ServeInv'
  BY <1>1, <1>4 DEF ServeInv, Creating, NoMessage, Message, MTypeOK, Clients
<1>14. CreateInv'
  BY <1>4 DEF CreateInv, ServeInv, Creating, HalfMade, Fresh, GivenUp,
     MTypeOK, Clients
<1>15. AnswerInv'
  BY <1>2, <1>3, <1>4 DEF AnswerInv, GivenUp, MTypeOK, Clients, Records
<1> QED
  BY <1>5, <1>6, <1>7, <1>8, <1>9, <1>10, <1>11, <1>12, <1>13, <1>14, <1>15

\* The thread that called exit() is woken, to end.
LEMMA AllExitWakeKeeps ==
    ASSUME ManagerIInv, AllExitWake
    PROVE  ManagerIInv'
<1> USE ManagerConstants DEF ManagerIInv, AllExitWake, sthread_wake, heapVars,
   clientVars, signalVars, managerVars
<1>1. Listed' = Listed /\ Senders' = Senders
  BY DEF Listed, Senders
<1>2. msg.caller \in Clients /\ msg.caller \in Records
  BY DEF ServeInv, Creating, Clients, Records
<1>3. pc[msg.caller] = "leave" /\ pipe[msg.caller] = 0 /\ msg.type = "all_exit"
  BY DEF ServeInv
<1>4. msg.caller \notin Senders
  BY DEF QueueInv, Ending
<1>5. \A r \in Records : pipe'[r] = IF r = msg.caller THEN 1 ELSE pipe[r]
  BY <1>2, <1>3 DEF MTypeOK
<1>6. killed = {}
  BY DEF QueueInv, Ending
<1>7. MTypeOK'
  BY SMTT(60), <1>1, <1>2 DEF MTypeOK, Locations, ManagerLocations, Records
<1>8. ListShape' /\ AbortCause'
  BY <1>1 DEF ListShape, AbortCause
<1>9. ReapInv' /\ RestInv'
  BY <1>1 DEF ReapInv, MTypeOK, Clients, RestInv
<1>10. SelfFound' /\ NothingLeft' /\ RecordInv'
  BY <1>1 DEF SelfFound, MTypeOK, NothingLeft, Records, RecordInv, Clients
<1>11. ListedInv' /\ PresentInv'
  BY <1>1 DEF ListedInv, HalfMade, MTypeOK, PresentInv, Clients
<1>12. LockInv' /\ NewInv'
  BY <1>1 DEF LockInv, LockHolder, Dead, MTypeOK, Clients, Records, NewInv
<1>13. WakeInv'
  BY <1>1, <1>2, <1>3, <1>4, <1>5 DEF WakeInv, OneWakeUp, Dead, Ending,
     Unanswered, Creating, MTypeOK, Clients, Records
<1>14. QueueInv'
  BY <1>1 DEF QueueInv, Sound, Ending, Fresh, MTypeOK, Clients, Records
<1>15. ServeInv'
  BY <1>1, <1>2, <1>3, <1>5, <1>6 DEF ServeInv, Creating, NoMessage, Message,
     MTypeOK, Clients, Records
<1>16. CreateInv'
  BY <1>1, <1>3 DEF CreateInv, ServeInv, Creating, HalfMade, Fresh, GivenUp,
     MTypeOK, Clients
<1>17. AnswerInv'
  BY <1>1, <1>2, <1>3, <1>5 DEF AnswerInv, GivenUp, MTypeOK, Clients, Records
<1> QED
  BY <1>7, <1>8, <1>9, <1>10, <1>11, <1>12, <1>13, <1>14, <1>15, <1>16, <1>17

\* Everybody else is signalled.
LEMMA AllExitKillKeeps ==
    ASSUME ManagerIInv, AllExitKill
    PROVE  ManagerIInv'
<1> USE ManagerConstants DEF ManagerIInv, AllExitKill, heapVars, clientVars,
   signalVars, managerVars
<1>1. Listed' = Listed /\ Senders' = Senders
  BY DEF Listed, Senders
<1>2. Others \subseteq Records
  BY BothListed DEF Others, Listed
<1>3. list \in Seq(Records) /\ \A i \in 1..Len(list) : list[i] \in Listed
  BY DEF MTypeOK, Listed
<1>4. MTypeOK'
  BY <1>1, <1>2, <1>3 DEF MTypeOK, Locations, ManagerLocations
<1>5. ListShape' /\ AbortCause' /\ ReapInv'
  BY <1>1 DEF ListShape, AbortCause, ReapInv, MTypeOK, Clients
<1>6. RestInv'
  BY <1>1, <1>3 DEF RestInv, MTypeOK, Clients, ListShape
<1>7. SelfFound' /\ NothingLeft' /\ RecordInv'
  BY <1>1 DEF SelfFound, MTypeOK, NothingLeft, Records, RecordInv, Clients
<1>8. ListedInv' /\ PresentInv'
  BY <1>1 DEF ListedInv, HalfMade, MTypeOK, PresentInv, Clients
<1>9. LockInv' /\ NewInv'
  BY <1>1 DEF LockInv, LockHolder, Dead, MTypeOK, Clients, Records, NewInv
<1>10. WakeInv'
  BY <1>1 DEF WakeInv, OneWakeUp, Dead, Ending, Unanswered, Creating, MTypeOK,
     Clients, Records
<1>11. QueueInv'
  BY <1>1 DEF QueueInv, Sound, Ending, Fresh, MTypeOK, Clients, Records
<1>12. ServeInv'
  BY <1>1 DEF ServeInv, Creating, NoMessage, Message, MTypeOK, Clients
<1>13. CreateInv'
  BY <1>1 DEF CreateInv, ServeInv, Creating, HalfMade, Fresh, GivenUp,
     MTypeOK, Clients
<1>14. AnswerInv'
  BY <1>1 DEF AnswerInv, GivenUp, MTypeOK, Clients, Records
<1> QED
  BY <1>4, <1>5, <1>6, <1>7, <1>8, <1>9, <1>10, <1>11, <1>12, <1>13, <1>14

\* The next record of the loop: its thread is dead and waited for.
LEMMA AllExitWaitKeeps ==
    ASSUME ManagerIInv, AllExitWait
    PROVE  ManagerIInv'
<1> USE ManagerConstants DEF ManagerIInv, AllExitWait, Dead, heapVars,
   clientVars, signalVars, managerVars
<1>1. Listed' = Listed /\ Senders' = Senders
  BY DEF Listed, Senders
<1>2. /\ Head(rest) \in Listed /\ Head(rest) \in Records
      /\ mem[Head(rest)] = "alloc"
  <2>1. Head(rest) = rest[1] /\ 1 \in 1..Len(rest)
    BY DEF MTypeOK
  <2> QED
    BY <2>1, BothListed DEF RestInv, ListedInv
<1>3. Head(rest) # Main => Head(rest) \in Threads /\ Head(rest) \in Clients
  BY <1>2 DEF Records, Clients
<1>4. msg.type = "all_exit" /\ Ending
  BY DEF ServeInv, Ending
<1>5. MTypeOK'
  BY <1>1, <1>2, <1>3 DEF MTypeOK, Locations, ManagerLocations
<1>6. ListShape' /\ AbortCause' /\ ReapInv'
  BY <1>1 DEF ListShape, AbortCause, ReapInv
<1>7. RestInv'
  BY <1>1, <1>2, <1>3 DEF RestInv, MTypeOK, Clients, PresentInv
<1>8. SelfFound' /\ NothingLeft' /\ RecordInv'
  BY <1>1, <1>2, <1>3 DEF SelfFound, MTypeOK, NothingLeft, Records, RecordInv,
     Clients
<1>9. ListedInv'
  BY <1>1 DEF ListedInv, HalfMade
<1>10. PresentInv'
  BY SMTT(60), <1>1, <1>2, <1>3 DEF PresentInv, MTypeOK, Clients
<1>11. LockInv' /\ NewInv'
  BY <1>1, <1>3 DEF LockInv, LockHolder, Dead, MTypeOK, Clients, Records,
     NewInv
<1>12. WakeInv'
  BY <1>1, <1>3, <1>4, SMTT(60) DEF WakeInv, OneWakeUp, Dead, Ending, Unanswered,
     Creating, MTypeOK, Clients, Records
<1>13. QueueInv'
  BY <1>1 DEF QueueInv, Sound, Ending, Fresh, MTypeOK, Clients, Records
<1>14. ServeInv'
  BY <1>1, <1>3, <1>4 DEF ServeInv, Creating, NoMessage, Message, MTypeOK,
     Clients
<1>15. CreateInv'
  BY <1>1, <1>4 DEF CreateInv, ServeInv, Creating, HalfMade, Fresh, GivenUp,
     MTypeOK, Clients
<1>16. AnswerInv'
  BY <1>1, <1>3 DEF AnswerInv, GivenUp, MTypeOK, Clients, Records
<1> QED
  BY <1>5, <1>6, <1>7, <1>8, <1>9, <1>10, <1>11, <1>12, <1>13, <1>14, <1>15, <1>16

\* The loop passes over the manager and the sender.
LEMMA AllExitSkipKeeps ==
    ASSUME ManagerIInv, AllExitSkip
    PROVE  ManagerIInv'
<1> USE ManagerConstants DEF ManagerIInv, AllExitSkip, heapVars, clientVars,
   signalVars, managerVars
<1>1. Listed' = Listed /\ Senders' = Senders
  BY DEF Listed, Senders
<1>2. /\ Tail(rest) \in Seq(Records) /\ Head(rest) = rest[1] /\ 1 \in 1..Len(rest)
      /\ Len(Tail(rest)) \in Nat
      /\ \A i \in 1..Len(Tail(rest)) : i + 1 \in 1..Len(rest) /\
         Tail(rest)[i] = rest[i + 1]
  BY DEF MTypeOK
<1>3. \A i, j \in 1..Len(Tail(rest)) : Tail(rest)[i] = Tail(rest)[j] => i = j
  <2>1. \A i, j \in 1..Len(Tail(rest)) : Tail(rest)[i] = Tail(rest)[j] =>
        i + 1 = j + 1
    BY <1>2 DEF RestInv
  <2> QED
    BY <1>2, <2>1
<1>4. MTypeOK'
  BY <1>1, <1>2 DEF MTypeOK, Locations, ManagerLocations
<1>5. ListShape' /\ AbortCause' /\ ReapInv'
  BY <1>1 DEF ListShape, AbortCause, ReapInv, MTypeOK, Clients
<1>6. RestInv'
  BY <1>1, <1>2, <1>3 DEF RestInv, MTypeOK, Clients
<1>7. SelfFound' /\ NothingLeft' /\ RecordInv'
  BY <1>1 DEF SelfFound, MTypeOK, NothingLeft, Records, RecordInv, Clients
<1>8. ListedInv' /\ PresentInv'
  BY <1>1 DEF ListedInv, HalfMade, MTypeOK, PresentInv, Clients
<1>9. LockInv' /\ NewInv'
  BY <1>1 DEF LockInv, LockHolder, Dead, MTypeOK, Clients, Records, NewInv
<1>10. WakeInv'
  BY <1>1 DEF WakeInv, OneWakeUp, Dead, Ending, Unanswered, Creating, MTypeOK,
     Clients, Records
<1>11. QueueInv'
  BY <1>1 DEF QueueInv, Sound, Ending, Fresh, MTypeOK, Clients, Records
<1>12. ServeInv'
  BY <1>1 DEF ServeInv, Creating, NoMessage, Message, MTypeOK, Clients
<1>13. CreateInv'
  BY <1>1 DEF CreateInv, ServeInv, Creating, HalfMade, Fresh, GivenUp,
     MTypeOK, Clients
<1>14. AnswerInv'
  BY <1>1 DEF AnswerInv, GivenUp, MTypeOK, Clients, Records
<1> QED
  BY <1>4, <1>5, <1>6, <1>7, <1>8, <1>9, <1>10, <1>11, <1>12, <1>13, <1>14

\* The record of the loop is freed, or the loop has met the main thread.
LEMMA AllExitDeallocKeeps ==
    ASSUME ManagerIInv, AllExitDealloc
    PROVE  ManagerIInv'
<1> USE ManagerConstants DEF ManagerIInv, AllExitDealloc, heapVars, clientVars,
   signalVars, managerVars
<1>1. Senders' = Senders
  BY DEF Senders
<1>2. rest # <<>>
  BY DEF RestInv
<1>3. /\ Tail(rest) \in Seq(Records) /\ Head(rest) = rest[1] /\ 1 \in 1..Len(rest)
      /\ Len(Tail(rest)) \in Nat
      /\ \A i \in 1..Len(Tail(rest)) :
            i + 1 \in 1..Len(rest) /\ Tail(rest)[i] = rest[i + 1]
  BY <1>2 DEF MTypeOK
<1>4. \A i, j \in 1..Len(Tail(rest)) : Tail(rest)[i] = Tail(rest)[j] => i = j
  <2>1. \A i, j \in 1..Len(Tail(rest)) : Tail(rest)[i] = Tail(rest)[j] =>
        i + 1 = j + 1
    BY <1>3 DEF RestInv
  <2> QED
    BY <1>3, <2>1
<1>5. msg.type = "all_exit" /\ Ending /\ Ending'
  BY DEF ServeInv, Ending, thread_dealloc
<1>6. Head(rest) \in Listed /\ Head(rest) \notin {Manager, msg.caller}
  BY <1>3 DEF RestInv
<1>7. CASE Head(rest) = Main
  <2>1. /\ list_lock' = Manager /\ mpc' = "aborted"
        /\ UNCHANGED <<list, mem, held>>
    BY <1>7, DeallocMain
  <2>2. Listed' = Listed
    BY <2>1 DEF Listed
  <2>3. MTypeOK'
    BY <1>3, <2>1 DEF MTypeOK, ManagerLocations, Records
  <2>4. ListShape' /\ AbortCause' /\ ReapInv' /\ RestInv'
    BY <1>5, <1>6, <1>7, <2>1 DEF ListShape, AbortCause, ReapInv, RestInv
  <2>5. SelfFound' /\ NothingLeft' /\ RecordInv' /\ ListedInv' /\ PresentInv'
    BY <1>5, <2>1, <2>2
    DEF SelfFound, NothingLeft, RecordInv, ListedInv, HalfMade, PresentInv
  <2>6. LockInv' /\ NewInv' /\ QueueInv'
    BY <1>5, <2>1
    DEF LockInv, LockHolder, NewInv, QueueInv, Clients
  <2>7. WakeInv' /\ ServeInv' /\ CreateInv'
    BY <1>1, <1>5, <2>1
    DEF WakeInv, OneWakeUp, Dead, Unanswered, Creating, ServeInv, CreateInv
  <2>8. AnswerInv'
    BY <2>1, <2>2 DEF AnswerInv, GivenUp
  <2> QED
    BY <2>3, <2>4, <2>5, <2>6, <2>7, <2>8
<1>8. CASE Head(rest) # Main
  <2> DEFINE t == Head(rest)
  <2>1. t \in Threads \cap Listed /\ t \in Records /\ t # Main /\ t # Manager
    BY <1>6, <1>8, BothListed DEF Records
  <2>2. pid[t] = t /\ pc[t] = "reaped"
    BY <1>6, <1>8 DEF RestInv, ListedInv, HalfMade
  <2> HIDE DEF t
  <2>3. /\ list' \in Seq(Records) /\ ListShape' /\ Listed' = Listed \ {t}
        /\ mem' = [mem EXCEPT ![t] = "freed"]
        /\ held' = [held EXCEPT ![t] = @ \ {"stack", "pipe"}]
        /\ mpc' = "all_exit_wait" /\ list_lock' = list_lock
    BY <2>1, <2>2, Dealloc DEF t
  <2>4. MTypeOK'
    BY <1>3, <2>1, <2>3 DEF MTypeOK, ManagerLocations
  <2>5. RestInv'
    <3>1. \A i \in 1..Len(Tail(rest)) : rest[i + 1] \in Listed /\
          rest[i + 1] # rest[1]
      BY <1>3 DEF RestInv
    <3> QED
      BY <1>3, <1>4, <2>3, <3>1 DEF RestInv, t
  <2>6. AbortCause' /\ ReapInv'
    BY <2>3 DEF AbortCause, ReapInv
  <2>7. SelfFound' /\ NothingLeft' /\ RecordInv'
    BY <2>1, <2>2, <2>3 DEF SelfFound, NothingLeft, RecordInv, MTypeOK, Records
  <2>8. ListedInv' /\ PresentInv'
    BY <2>1, <2>2, <2>3, BothListed DEF ListedInv, HalfMade, PresentInv, MTypeOK
  <2>9. LockInv' /\ QueueInv'
    BY <1>5, <2>3 DEF LockInv, LockHolder, Dead, QueueInv, Clients
  <2>12. NewInv'
    BY <2>1, <2>3 DEF NewInv, MTypeOK, Records
  <2>10. WakeInv' /\ ServeInv' /\ CreateInv'
    BY <1>1, <1>5, <2>3
    DEF WakeInv, OneWakeUp, Dead, Unanswered, Creating, ServeInv, CreateInv
  <2>11. AnswerInv'
    BY <2>1, <2>2, <2>3 DEF AnswerInv, GivenUp, MTypeOK, Records
  <2> QED
    BY <2>3, <2>4, <2>5, <2>6, <2>7, <2>8, <2>9, <2>10, <2>11,
       <2>12
<1> QED
  BY <1>7, <1>8

\* The loop is over.
LEMMA AllExitDoneKeeps ==
    ASSUME ManagerIInv, AllExitDone
    PROVE  ManagerIInv'
<1> USE ManagerConstants DEF ManagerIInv, AllExitDone, heapVars, clientVars,
   signalVars, managerVars
<1>1. Listed' = Listed /\ Senders' = Senders
  BY DEF Listed, Senders
<1>2. MTypeOK'
  BY <1>1 DEF MTypeOK, Locations, ManagerLocations
<1>3. ListShape' /\ AbortCause'
  BY <1>1 DEF ListShape, AbortCause
<1>4. ReapInv' /\ RestInv'
  BY <1>1 DEF ReapInv, MTypeOK, Clients, RestInv
<1>5. SelfFound' /\ NothingLeft' /\ RecordInv'
  BY <1>1 DEF SelfFound, MTypeOK, NothingLeft, Records, RecordInv, Clients
<1>6. ListedInv' /\ PresentInv'
  BY <1>1 DEF ListedInv, HalfMade, MTypeOK, PresentInv, Clients
<1>7. LockInv' /\ NewInv'
  BY <1>1 DEF LockInv, LockHolder, Dead, MTypeOK, Clients, Records, NewInv
<1>8. WakeInv'
  BY <1>1 DEF WakeInv, OneWakeUp, Dead, Ending, Unanswered, Creating, MTypeOK,
     Clients, Records
<1>9. QueueInv'
  BY <1>1 DEF QueueInv, Sound, Ending, Fresh, MTypeOK, Clients, Records
<1>10. ServeInv'
  BY <1>1 DEF ServeInv, Creating, NoMessage, Message, MTypeOK, Clients
<1>11. CreateInv'
  BY <1>1 DEF CreateInv, ServeInv, Creating, HalfMade, Fresh, GivenUp,
     MTypeOK, Clients
<1>12. AnswerInv'
  BY <1>1 DEF AnswerInv, GivenUp, MTypeOK, Clients, Records
<1> QED
  BY <1>2, <1>3, <1>4, <1>5, <1>6, <1>7, <1>8, <1>9, <1>10, <1>11, <1>12

-----------------------------------------------------------------------------
(* The theorems.                                                           *)

\* sthread_init establishes the invariant.
LEMMA InitManager == MInit => ManagerIInv
<1> SUFFICES ASSUME MInit PROVE ManagerIInv
  OBVIOUS
<1> USE ManagerConstants DEF MInit
<1>1. /\ Len(list) = 2 /\ list[1] = Manager /\ list[2] = Main
      /\ list \in Seq(Records)
  BY DEF Records
<1>2. Listed = {Manager, Main}
  BY <1>1 DEF Listed
<1>3. Len(mq) = 0 /\ Senders = {} /\ mq \in Seq(Messages)
  BY DEF Senders
<1>4. MTypeOK
  <2>1. msg \in Messages /\ rest \in Seq(Records)
    BY DEF NoMessage, Message, Messages
  <2> QED
    BY <1>1, <1>3, <2>1
    DEF MTypeOK, Locations, ManagerLocations, Clients, Records
<1>5. ListShape
  BY <1>1 DEF ListShape
<1>6. SelfFound /\ NothingLeft /\ AbortCause
  BY DEF SelfFound, NothingLeft, AbortCause, Clients, Records
<1>7. RecordInv /\ ListedInv /\ PresentInv
  BY <1>2 DEF RecordInv, ListedInv, PresentInv, Clients, Records
<1>8. LockInv /\ NewInv
  BY DEF LockInv, LockHolder, NewInv, Clients, Records
<1>9. WakeInv
  BY <1>3
  DEF WakeInv, OneWakeUp, Dead, NoMessage, Message, Clients, Records
<1>10. QueueInv
  BY <1>3 DEF QueueInv
<1>11. ServeInv /\ CreateInv
  BY DEF ServeInv, CreateInv, Creating, NoMessage, Message
<1>12. AnswerInv /\ ReapInv /\ RestInv
  BY DEF AnswerInv, ReapInv, RestInv, Clients, Records
<1> QED
  BY <1>4, <1>5, <1>6, <1>7, <1>8, <1>9, <1>10, <1>11, <1>12 DEF ManagerIInv

\* Every step keeps the invariant.
LEMMA NextManager == ManagerIInv /\ [MNext]_mvars => ManagerIInv'
<1> SUFFICES ASSUME ManagerIInv, [MNext]_mvars PROVE ManagerIInv'
  OBVIOUS
<1>1. CASE ManagerStep
  BY CheckMainKeeps, ReapKeeps, ReapNoneKeeps, ReapFindKeeps,
     ReapDeallocKeeps, ReapKillKeeps, ReadMessageKeeps, CreateAddKeeps,
     CreateNoStackKeeps, CreateNoPipeKeeps, CloneKeeps, StorePidKeeps,
     CreateUndoKeeps, CreateWakeKeeps, ThreadExitWakeKeeps,
     ThreadExitWaitKeeps, ThreadExitDeallocKeeps, AllExitWakeKeeps,
     AllExitKillKeeps, AllExitWaitKeeps, AllExitSkipKeeps,
     AllExitDeallocKeeps, AllExitDoneKeeps,
     <1>1 DEF ManagerStep
<1>2. ASSUME NEW c \in Clients, LibraryStep(c) PROVE ManagerIInv'
  BY StartThreadKeeps, SelfLockKeeps, SelfFindKeeps, CreateRequestKeeps,
     CreateNoMemoryKeeps, CreateAnswerKeeps, SuspendReturnsKeeps,
     CleanupKeeps, LeaveKeeps,
     <1>2 DEF LibraryStep
<1>3. ASSUME NEW c \in Clients, UserStep(c) \/ Cancel(c) PROVE ManagerIInv'
  BY CallKeeps, WakeKeeps, ReturnKeeps, FaultKeeps, CancelKeeps, <1>3
  DEF UserStep
<1>4. CASE UNCHANGED mvars
  <2> USE <1>4 DEF mvars, heapVars, clientVars, signalVars, managerVars, ManagerIInv
  <2>1. Listed' = Listed /\ Senders' = Senders
    BY DEF Listed, Senders
  <2>2. MTypeOK' /\ ListShape' /\ SelfFound' /\ NothingLeft' /\ AbortCause'
    BY DEF MTypeOK, ListShape, SelfFound, NothingLeft, AbortCause
  <2>3. RecordInv' /\ ListedInv' /\ PresentInv' /\ LockInv' /\ NewInv'
    BY <2>1
    DEF RecordInv, ListedInv, HalfMade, PresentInv, LockInv, LockHolder, Dead,
       NewInv
  <2>4. WakeInv'
    BY <2>1 DEF WakeInv, OneWakeUp, Dead, Ending
  <2>5. QueueInv'
    BY <2>1 DEF QueueInv, Sound, Fresh, Ending
  <2>6. ServeInv' /\ CreateInv' /\ AnswerInv'
    BY <2>1 DEF ServeInv, CreateInv, AnswerInv, GivenUp, Fresh, HalfMade
  <2>7. ReapInv' /\ RestInv'
    BY <2>1 DEF ReapInv, RestInv
  <2> QED
    BY <2>2, <2>3, <2>4, <2>5, <2>6, <2>7
<1> QED
  BY <1>1, <1>2, <1>3, <1>4 DEF MNext

\* The invariant of the thread manager holds in every behaviour, however many
\* threads there are, whatever fails, faults or exits.
THEOREM ManagerCorrect == MSpec => []ManagerIInv
  BY InitManager, NextManager, PTL DEF MSpec

\* The records of the senders are allocated.
LEMMA NothingDangles == ManagerIInv => NoDangling
<1> SUFFICES ASSUME ManagerIInv PROVE NoDangling
  OBVIOUS
<1> USE ManagerConstants DEF ManagerIInv
<1>1. \A r \in Listed : mem[r] = "alloc"
  BY DEF ListedInv
<1>2. ASSUME ~Ending, NEW i \in 1..Len(mq)
      PROVE  /\ mem[mq[i].caller] = "alloc"
             /\ mq[i].type = "create" => mem[mq[i].thread] = "alloc"
  <2>1. Sound(mq[i])
    BY <1>2 DEF QueueInv
  <2> QED
    BY <1>1, <2>1 DEF Sound, Fresh, PresentInv, RecordInv, Clients
<1> QED
  BY <1>1, <1>2 DEF NoDangling

\* threadlist_lock, threadlist_del, thread_dealloc and sthread_create: the list
\* keeps its shape, list_lock is held by somebody inside a section, every
\* record the manager follows is allocated, nothing of a freed thread is left,
\* and threadlist_del aborts only after exit() in a thread other than main.
THEOREM RecordsAreKept == MSpec => []ManagerInv
<1>1. ManagerIInv => ManagerInv
  BY NothingDangles DEF ManagerIInv, ManagerInv, LockInv
<1> QED
  BY <1>1, ManagerCorrect, PTL

\* sthread_self returns the caller's own record, in every thread and from its
\* first instruction on.
THEOREM SelfIsFound == MSpec => []SelfFound
<1>1. ManagerIInv => SelfFound
  BY DEF ManagerIInv
<1> QED
  BY <1>1, ManagerCorrect, PTL

\* sthread_create and do_create: the status a caller reads when it is woken is
\* true of its record.
THEOREM AnswersAreTrue == MSpec => []AnswerIsTrue
<1>1. ManagerIInv => AnswerIsTrue
  <2> SUFFICES ASSUME ManagerIInv, NEW c \in Clients, pc[c] = "answer", pipe[c] > 0
               PROVE  /\ status[c] = 0 => pid[new[c]] = new[c]
                      /\ status[c] = 1 => new[c] \notin Listed /\
                         msg.thread # new[c]
    BY DEF AnswerIsTrue
  <2> USE ManagerConstants DEF ManagerIInv
  <2>1. IF status[c] = 0 THEN pid[new[c]] = new[c] ELSE GivenUp(new[c])
    BY DEF AnswerInv
  <2>2. ASSUME GivenUp(new[c]) PROVE msg.thread # new[c]
    <3>1. new[c] \in Threads /\ new[c] # NoPid
      BY <2>2 DEF GivenUp, Records
    <3>2. CASE msg.type = "create"
      <4>1. pipe[msg.caller] = 0 /\ new[msg.caller] = msg.thread
        BY <3>2 DEF CreateInv
      <4>2. msg.caller \in Clients
        BY <3>2 DEF ServeInv
      <4> QED
        BY <3>1, <4>1, <4>2 DEF NewInv
    <3>3. CASE msg.type # "create"
      BY <3>1, <3>3 DEF ServeInv
    <3> QED
      BY <3>2, <3>3
  <2> QED
    BY <2>1, <2>2 DEF GivenUp
<1> QED
  BY <1>1, ManagerCorrect, PTL

=============================================================================
