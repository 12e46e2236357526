--------------------------- MODULE KersyncProofs ---------------------------
(***************************************************************************)
(* Proofs about the doevent system calls, for every number of processes,   *)
(* events and calls.                                                       *)
(*                                                                         *)
(* On any kernel, ListInv is inductive: the list, the ids and the closes   *)
(* are right even where the counts are not.  On a uniprocessor UsersInv is *)
(* inductive: counts are exact, nobody is left with a freed event, nobody  *)
(* sleeps on a closed one.                                                 *)
(***************************************************************************)
EXTENDS Kersync, FiniteSetTheorems, TLAPS

-----------------------------------------------------------------------------
(* Cardinalities.                                                          *)

\* Every set of processes is finite, and no larger than Procs.
LEMMA ProcSets ==
    ASSUME NEW S \in SUBSET Procs
    PROVE  /\ IsFiniteSet(S)
           /\ Cardinality(S) \in Nat
           /\ Cardinality(S) =< Cardinality(Procs)
           /\ S = {} <=> Cardinality(S) = 0
  BY KersyncConstants, FS_Subset, FS_CardinalityType, FS_EmptySet

\* A process joins a set of processes.
LEMMA ProcJoins ==
    ASSUME NEW S \in SUBSET Procs, NEW p \in Procs, p \notin S
    PROVE  Cardinality(S \cup {p}) = Cardinality(S) + 1
  BY ProcSets, FS_AddElement

\* A process leaves a set of processes.
LEMMA ProcLeaves ==
    ASSUME NEW S \in SUBSET Procs, NEW p \in S
    PROVE  Cardinality(S \ {p}) = Cardinality(S) - 1
  BY ProcSets, FS_RemoveElement

\* The number of processes is a number.
LEMMA ProcsNat == Cardinality(Procs) \in Nat
  BY KersyncConstants, FS_CardinalityType

-----------------------------------------------------------------------------
(* What wake_up changes.                                                   *)

\* wake_up moves sleepers of the event to "woken" and nobody else.
LEMMA WakeUp ==
    ASSUME NEW e, NEW f \in [Procs -> Locations]
    PROVE  /\ wake_up(e, f) \in [Procs -> Locations]
           /\ \A q \in Procs :
                 \/ wake_up(e, f)[q] = f[q] /\ ~(f[q] = "asleep" /\ arg[q] = e)
                 \/ f[q] = "asleep" /\ arg[q] = e /\ wake_up(e, f)[q] = "woken"
  BY DEF wake_up, Locations, Using

-----------------------------------------------------------------------------
(* Types.                                                                  *)

\* doevent_init establishes the types.
LEMMA InitType == doevent_init => KTypeOK
  BY KersyncConstants, ProcsNat
  DEF doevent_init, KTypeOK, Events, Event_t, Locations, Using

\* At boot the list is empty and no id has been given out.
LEMMA InitListInv == doevent_init => ListInv
<1> SUFFICES ASSUME doevent_init PROVE ListInv
  OBVIOUS
<1>1. KTypeOK
  BY InitType
<1>2. Allocating = {}
  BY DEF doevent_init, Allocating
<1>3. IdBound
  BY <1>2, FS_EmptySet, ProcsNat, KersyncConstants DEF IdBound, doevent_init
<1>4. FreshIds /\ ListedIsOpen /\ OneCloser /\ ListLockInv
  BY DEF doevent_init, FreshIds, ListedIsOpen, OneCloser, ListLockInv
<1> QED
  BY <1>1, <1>3, <1>4 DEF ListInv

-----------------------------------------------------------------------------
(* ListInv, on any kernel.                                                 *)

\* A step that leaves the list, the ids and what is on record about the events
\* alone, and starts no open or close, keeps ListInv.
LEMMA ListFrame ==
    ASSUME ListInv, KTypeOK', ListLockInv',
           event_list' = event_list, next_event_id' = next_event_id,
           \A e \in Events : /\ event'[e].state = event[e].state
                             /\ event'[e].invalid = event[e].invalid,
           \A p \in Procs : /\ pc'[p] = "close_elock" =>
                                   pc[p] = "close_elock" /\ arg'[p] = arg[p]
                            /\ pc'[p] = "open_kmalloc" <=> pc[p] = "open_kmalloc"
    PROVE  ListInv'
<1>1. Allocating' = Allocating
  BY DEF Allocating
<1>2. IdBound'
  BY <1>1 DEF IdBound, ListInv
<1>3. FreshIds'
  BY DEF FreshIds, ListInv
<1>4. ListedIsOpen'
  BY DEF ListedIsOpen, ListInv, KTypeOK
<1>5. OneCloser'
  BY DEF OneCloser, ListInv
<1> QED
  BY <1>2, <1>3, <1>4, <1>5 DEF ListInv

\* A system call begins.
LEMMA CallKeeps ==
    ASSUME ListInv, NEW p \in Procs, NEW e \in 0 .. MAX_EVENT_ID,
           NEW l \in {"open_lock", "wait_lock", "sig_lock", "close_lock"},
           Call(p, l, e)
    PROVE  ListInv'
<1> USE DEF Call, At, Goto, Continue
<1>1. e \in Events
  BY KersyncConstants, ProcsNat DEF Events
<1>2. KTypeOK'
  BY <1>1 DEF ListInv, KTypeOK, Locations, Using
<1>3. ListLockInv'
  BY KersyncConstants DEF ListInv, KTypeOK, ListLockInv, ListLocked
<1> QED
  BY <1>2, <1>3, ListFrame DEF ListInv, KTypeOK

\* sys_doevent_open passes the id check: one more process allocates.
LEMMA OpenAllocKeeps ==
    ASSUME ListInv, NEW p \in Procs, OpenAlloc(p)
    PROVE  ListInv'
<1> USE DEF OpenAlloc, At, Goto, Continue, Leave
<1>1. KTypeOK'
  BY DEF ListInv, KTypeOK, Locations, Using
<1>2. IdBound'
  <2>1. Allocating' \in SUBSET Procs
    BY DEF Allocating
  <2>2. Cardinality(Allocating') \in Nat /\ Cardinality(Allocating') =< Cardinality(Procs)
    BY <2>1, ProcSets
  <2>3. next_event_id \in Nat /\ next_event_id =< MAX_EVENT_ID
    BY DEF ListInv, KTypeOK
  <2> QED
    BY <2>2, <2>3, ProcsNat, KersyncConstants DEF IdBound
<1>3. FreshIds' /\ ListedIsOpen' /\ OneCloser'
  BY DEF ListInv, KTypeOK, FreshIds, ListedIsOpen, OneCloser
<1>4. ListLockInv'
  BY DEF ListInv, KTypeOK, ListLockInv, ListLocked
<1> QED
  BY <1>1, <1>2, <1>3, <1>4 DEF ListInv

\* The rest of sys_doevent_open: a fresh id becomes an open event.
LEMMA OpenInitKeeps ==
    ASSUME ListInv, NEW p \in Procs, OpenInit(p)
    PROVE  ListInv' /\ next_event_id \in Events
<1> USE DEF OpenInit, At, Goto, Leave
<1>1. Allocating \in SUBSET Procs /\ p \in Allocating /\ Allocating' = Allocating \ {p}
  BY DEF Allocating, ListInv, KTypeOK
<1>2. Cardinality(Allocating) \in Nat /\ Cardinality(Allocating) # 0
  BY <1>1, ProcSets
<1>3. Cardinality(Allocating') = Cardinality(Allocating) - 1
  BY <1>1, ProcLeaves
<1>4. next_event_id \in Events
  BY <1>2, ProcsNat, KersyncConstants DEF ListInv, KTypeOK, IdBound, Events
<1>5. KTypeOK'
  BY <1>4 DEF ListInv, KTypeOK, Locations, Using, Event_t
<1>6. IdBound'
  BY <1>2, <1>3, ProcsNat, KersyncConstants DEF ListInv, KTypeOK, IdBound
<1>7. Events \subseteq Int
  BY DEF Events
<1>8. FreshIds'
  <2>1. ASSUME NEW e \in Events, e >= next_event_id'
        PROVE  e \notin event_list' /\ event'[e].state = "none"
    <3>1. e \in Int /\ e >= next_event_id /\ e # next_event_id
      BY <1>7, <2>1 DEF ListInv, KTypeOK
    <3> QED
      BY <3>1, <1>4 DEF ListInv, KTypeOK, FreshIds
  <2>2. ASSUME NEW q \in Procs, pc'[q] = "close_elock"
        PROVE  arg'[q] < next_event_id'
    <3>1. arg[q] \in Int /\ next_event_id \in Int
      BY DEF ListInv, KTypeOK, Events
    <3>2. pc[q] = "close_elock"
      BY <2>2 DEF ListInv, KTypeOK
    <3> QED
      BY <3>1, <3>2 DEF ListInv, FreshIds
  <2> QED
    BY <2>1, <2>2 DEF FreshIds
<1>9. ListedIsOpen'
  BY <1>4 DEF ListInv, KTypeOK, FreshIds, ListedIsOpen
<1>10. OneCloser' /\ ListLockInv'
  BY DEF ListInv, KTypeOK, OneCloser, ListLockInv
<1> QED
  BY <1>4, <1>5, <1>6, <1>8, <1>9, <1>10 DEF ListInv

\* sys_doevent_close takes the event off the list: it is the only one to do so.
LEMMA CloseUnlistListInv ==
    ASSUME ListInv, NEW p \in Procs, CloseUnlist(p)
    PROVE  ListInv'
<1> USE DEF CloseUnlist, At, Goto, Continue
<1>1. KTypeOK' /\ Allocating' = Allocating
  BY DEF ListInv, KTypeOK, Locations, Using, Allocating
<1>2. IdBound'
  BY <1>1 DEF IdBound, ListInv
<1>3. arg[p] < next_event_id
  BY DEF ListInv, KTypeOK, FreshIds, Events
<1>4. FreshIds'
  BY <1>3 DEF ListInv, KTypeOK, FreshIds
<1>5. ListedIsOpen' /\ OneCloser'
  BY DEF ListInv, KTypeOK, ListedIsOpen, OneCloser
<1>6. ListLockInv'
  BY KersyncConstants DEF ListInv, KTypeOK, ListLockInv, ListLocked
<1> QED
  BY <1>1, <1>2, <1>4, <1>5, <1>6 DEF ListInv

\* sys_doevent_close marks, and perhaps frees, an event that is off the list.
LEMMA CloseMarkKeeps ==
    ASSUME ListInv, NEW p \in Procs, CloseMark(p)
    PROVE  ListInv'
<1> DEFINE f == [pc EXCEPT ![p] = "user"]
<1>1. KTypeOK /\ pc[p] = "close_elock"
  BY DEF CloseMark, Holds, At, ListInv
<1>2. f \in [Procs -> Locations]
  BY <1>1 DEF KTypeOK, Locations, Using
<1>3. pc' = wake_up(arg[p], f)
  BY DEF CloseMark
<1>4. \A q \in Procs : f[q] = IF q = p THEN "user" ELSE pc[q]
  BY <1>1 DEF KTypeOK
<1> HIDE DEF f
<1>5. /\ pc' \in [Procs -> Locations]
      /\ \A q \in Procs : pc'[q] = f[q] \/ (f[q] = "asleep" /\ pc'[q] = "woken")
  BY <1>2, <1>3, WakeUp
<1>6. \A q \in Procs : /\ pc'[q] = "close_elock" => pc[q] = "close_elock" /\ q # p
                       /\ pc'[q] = "open_kmalloc" <=> pc[q] = "open_kmalloc"
                       /\ pc'[q] \in ListLocked <=> pc[q] \in ListLocked
  BY <1>1, <1>4, <1>5 DEF ListLocked
<1>7. /\ event' \in [Events -> Event_t]
      /\ \A e \in Events : e # arg[p] => event'[e] = event[e]
      /\ UNCHANGED <<list_lock, event_list, next_event_id, arg, reg>>
      /\ cpu' = NoProc
  BY <1>1 DEF CloseMark, KTypeOK, Event_t, Leave
<1>8. KTypeOK'
  BY <1>1, <1>5, <1>7 DEF KTypeOK
<1>9. IdBound'
  <2>1. Allocating' = Allocating
    BY <1>6 DEF Allocating
  <2> QED
    BY <2>1, <1>7 DEF IdBound, ListInv
<1>10. FreshIds'
  <2>1. arg[p] \in Int /\ next_event_id \in Int /\ arg[p] < next_event_id
    BY <1>1 DEF KTypeOK, Events, ListInv, FreshIds
  <2>2. \A e \in Events : e >= next_event_id => e # arg[p]
    BY <2>1
  <2> QED
    BY <2>2, <1>6, <1>7 DEF ListInv, FreshIds
<1>11. ListedIsOpen'
  <2>1. arg[p] \notin event_list
    BY <1>1 DEF ListInv, ListedIsOpen
  <2> QED
    BY <2>1, <1>1, <1>6, <1>7 DEF ListInv, KTypeOK, ListedIsOpen
<1>12. OneCloser' /\ ListLockInv'
  BY <1>1, <1>6, <1>7 DEF ListInv, KTypeOK, OneCloser, ListLockInv
<1> QED
  BY <1>8, <1>9, <1>10, <1>11, <1>12 DEF ListInv

\* sys_doevent_sig wakes the sleepers.
LEMMA SigWakeKeeps ==
    ASSUME ListInv, NEW p \in Procs, SigWake(p)
    PROVE  ListInv'
<1> DEFINE f == [pc EXCEPT ![p] = "drop"]
<1>1. KTypeOK /\ pc[p] = "sig_elock"
  BY DEF SigWake, Holds, At, ListInv
<1>2. f \in [Procs -> Locations]
  BY <1>1 DEF KTypeOK, Locations, Using
<1>3. pc' = wake_up(arg[p], f)
  BY DEF SigWake
<1>4. \A q \in Procs : f[q] = IF q = p THEN "drop" ELSE pc[q]
  BY <1>1 DEF KTypeOK
<1> HIDE DEF f
<1>5. /\ pc' \in [Procs -> Locations]
      /\ \A q \in Procs : pc'[q] = f[q] \/ (f[q] = "asleep" /\ pc'[q] = "woken")
  BY <1>2, <1>3, WakeUp
<1>6. \A q \in Procs : /\ pc'[q] = "close_elock" => pc[q] = "close_elock"
                       /\ pc'[q] = "open_kmalloc" <=> pc[q] = "open_kmalloc"
                       /\ pc'[q] \in ListLocked <=> pc[q] \in ListLocked
  BY <1>1, <1>4, <1>5 DEF ListLocked
<1>7. KTypeOK'
  <2>1. DropLoad(p)
    BY DEF SigWake
  <2>2. event' \in [Events -> Event_t] /\ reg' \in [Procs -> Int]
    BY <1>1, <2>1 DEF KTypeOK, Event_t, DropLoad
  <2>3. cpu' \in Procs \cup {NoProc}
    BY <2>1 DEF DropLoad, Continue
  <2> QED
    BY <1>1, <1>5, <2>1, <2>2, <2>3 DEF KTypeOK, DropLoad
<1>8. ListLockInv'
  BY <1>1, <1>6 DEF ListInv, KTypeOK, ListLockInv, SigWake, DropLoad
<1> QED
  BY <1>1, <1>6, <1>7, <1>8, ListFrame DEF KTypeOK, Event_t, SigWake, DropLoad

\* The calls' other steps change locks, counts and their own place only.
LEMMA QuietKeeps ==
    ASSUME ListInv, NEW p \in Procs,
           \/ OpenFull(p) \/ NotFound(p)
           \/ UseLoad(p, "wait_lock", "wait_inc") \/ UseStore(p, "wait_inc", "wait_elock")
           \/ UseLoad(p, "sig_lock", "sig_inc") \/ UseStore(p, "sig_inc", "sig_elock")
           \/ FoundInvalid(p) \/ WaitCheck(p) \/ WaitSleep(p) \/ WaitWoken(p)
           \/ DropStore(p)
    PROVE  ListInv'
<1> USE DEF At, Goto
<1>1. CASE OpenFull(p)
  <2> USE <1>1 DEF OpenFull, Leave
  <2>1. KTypeOK'
    BY DEF ListInv, KTypeOK, Locations, Using, Event_t
  <2>2. ListLockInv'
    BY KersyncConstants DEF ListInv, KTypeOK, ListLockInv, ListLocked
  <2> QED
    BY <2>1, <2>2, ListFrame DEF ListInv, KTypeOK, Event_t
<1>2. CASE NotFound(p)
  <2> USE <1>2 DEF NotFound, Leave
  <2>1. KTypeOK'
    BY DEF ListInv, KTypeOK, Locations, Using, Event_t
  <2>2. ListLockInv'
    BY KersyncConstants DEF ListInv, KTypeOK, ListLockInv, ListLocked
  <2> QED
    BY <2>1, <2>2, ListFrame DEF ListInv, KTypeOK, Event_t
<1>3. CASE UseLoad(p, "wait_lock", "wait_inc")
  <2> USE <1>3 DEF UseLoad, Continue
  <2>1. KTypeOK'
    BY DEF ListInv, KTypeOK, Locations, Using, Event_t
  <2>2. ListLockInv'
    BY KersyncConstants DEF ListInv, KTypeOK, ListLockInv, ListLocked
  <2> QED
    BY <2>1, <2>2, ListFrame DEF ListInv, KTypeOK, Event_t
<1>4. CASE UseLoad(p, "sig_lock", "sig_inc")
  <2> USE <1>4 DEF UseLoad, Continue
  <2>1. KTypeOK'
    BY DEF ListInv, KTypeOK, Locations, Using, Event_t
  <2>2. ListLockInv'
    BY KersyncConstants DEF ListInv, KTypeOK, ListLockInv, ListLocked
  <2> QED
    BY <2>1, <2>2, ListFrame DEF ListInv, KTypeOK, Event_t
<1>5. CASE UseStore(p, "wait_inc", "wait_elock")
  <2> USE <1>5 DEF UseStore, Continue
  <2>1. KTypeOK'
    BY DEF ListInv, KTypeOK, Locations, Using, Event_t
  <2>2. ListLockInv'
    BY KersyncConstants DEF ListInv, KTypeOK, ListLockInv, ListLocked
  <2> QED
    BY <2>1, <2>2, ListFrame DEF ListInv, KTypeOK, Event_t
<1>6. CASE UseStore(p, "sig_inc", "sig_elock")
  <2> USE <1>6 DEF UseStore, Continue
  <2>1. KTypeOK'
    BY DEF ListInv, KTypeOK, Locations, Using, Event_t
  <2>2. ListLockInv'
    BY KersyncConstants DEF ListInv, KTypeOK, ListLockInv, ListLocked
  <2> QED
    BY <2>1, <2>2, ListFrame DEF ListInv, KTypeOK, Event_t
<1>7. CASE FoundInvalid(p)
  <2> USE <1>7 DEF FoundInvalid, DropLoad, Holds, Continue
  <2>1. KTypeOK'
    BY DEF ListInv, KTypeOK, Locations, Using, Event_t
  <2>2. ListLockInv'
    BY KersyncConstants DEF ListInv, KTypeOK, ListLockInv, ListLocked
  <2> QED
    BY <2>1, <2>2, ListFrame DEF ListInv, KTypeOK, Event_t
<1>8. CASE WaitCheck(p)
  <2> USE <1>8 DEF WaitCheck, Holds, Continue
  <2>1. KTypeOK'
    BY DEF ListInv, KTypeOK, Locations, Using, Event_t
  <2>2. ListLockInv'
    BY KersyncConstants DEF ListInv, KTypeOK, ListLockInv, ListLocked
  <2> QED
    BY <2>1, <2>2, ListFrame DEF ListInv, KTypeOK, Event_t
<1>9. CASE WaitSleep(p)
  <2> USE <1>9 DEF WaitSleep, Holds, Leave
  <2>1. KTypeOK'
    BY DEF ListInv, KTypeOK, Locations, Using, Event_t
  <2>2. ListLockInv'
    BY KersyncConstants DEF ListInv, KTypeOK, ListLockInv, ListLocked
  <2> QED
    BY <2>1, <2>2, ListFrame DEF ListInv, KTypeOK, Event_t
<1>10. CASE WaitWoken(p)
  <2> USE <1>10 DEF WaitWoken, DropLoad, Holds, Continue
  <2>1. KTypeOK'
    BY SMTT(60) DEF ListInv, KTypeOK, Locations, Using, Event_t
  <2>2. ListLockInv'
    BY KersyncConstants DEF ListInv, KTypeOK, ListLockInv, ListLocked
  <2> QED
    BY <2>1, <2>2, ListFrame DEF ListInv, KTypeOK, Event_t
<1>11. CASE DropStore(p)
  <2> USE <1>11 DEF DropStore, Holds, Leave
  <2>1. KTypeOK'
    BY DEF ListInv, KTypeOK, Locations, Using, Event_t
  <2>2. ListLockInv'
    BY KersyncConstants DEF ListInv, KTypeOK, ListLockInv, ListLocked
  <2> QED
    BY <2>1, <2>2, ListFrame DEF ListInv, KTypeOK, Event_t
<1> QED
  BY <1>1, <1>2, <1>3, <1>4, <1>5, <1>6, <1>7, <1>8, <1>9, <1>10, <1>11

\* Every step keeps the list, its ids and its lock right, on any kernel.
LEMMA ListInvStep == ListInv /\ [KNext]_kvars => ListInv'
<1> SUFFICES ASSUME ListInv, [KNext]_kvars PROVE ListInv'
  OBVIOUS
<1>1. CASE UNCHANGED kvars
  BY <1>1, ListFrame DEF kvars, ListInv, KTypeOK, ListLockInv
<1>2. ASSUME NEW p \in Procs, KernelStep(p) PROVE ListInv'
  BY <1>2, QuietKeeps, OpenAllocKeeps, OpenInitKeeps, SigWakeKeeps,
     CloseUnlistListInv, CloseMarkKeeps DEF KernelStep
<1>3. ASSUME NEW p \in Procs, NEW e \in 0 .. MAX_EVENT_ID,
             \/ Call(p, "open_lock", 0) \/ Call(p, "wait_lock", e)
             \/ Call(p, "sig_lock", e) \/ Call(p, "close_lock", e)
      PROVE ListInv'
  <2>1. 0 \in 0 .. MAX_EVENT_ID
    BY KersyncConstants
  <2> QED
    BY <2>1, <1>3, CallKeeps
<1>4. 0 \in 0 .. MAX_EVENT_ID
  BY KersyncConstants
<1> QED
  BY <1>1, <1>2, <1>3, <1>4 DEF KNext

\* The event list on any kernel (sys_doevent_open, _close): ids are given out
\* once and stay in range, an event on the list is open, and a close has the
\* event it took off the list for itself.
THEOREM ListCorrect == KSpec => []ListInv
<1> QED
  BY InitListInv, ListInvStep, PTL DEF KSpec

-----------------------------------------------------------------------------
(* UsersInv, on a uniprocessor.                                            *)

Resting == {"user", "open_kmalloc", "asleep", "woken"}

\* While one process takes a step the others are outside the calls or asleep.
LEMMA OthersRest ==
    ASSUME SMP = FALSE, UsersInv, NEW p \in Procs, Runs(p)
    PROVE  \A q \in Procs : q # p => pc[q] \in Resting
  BY KersyncConstants DEF UsersInv, UniInv, Runs, Resting

\* UniInv asks nothing of a process that rests.
LEMMA UniFrame ==
    ASSUME NEW p \in Procs,
           \A q \in Procs : q # p => pc'[q] \in Resting,
           pc'[p] \notin Resting => cpu' = p,
           pc'[p] \in {"wait_inc", "sig_inc"} => arg'[p] \in event_list',
           pc'[p] \in {"wait_inc", "sig_inc", "drop"} =>
               reg'[p] = event'[arg'[p]].count,
           pc'[p] = "wait_sleep" => event'[arg'[p]].invalid = 0
    PROVE  UniInv'
  BY DEF UniInv, Resting

\* If nobody begins or ends using an event and no count changes, the counts
\* stay exact.
LEMMA CountFrame ==
    ASSUME CountExact,
           \A q \in Procs : /\ pc'[q] \in Using <=> pc[q] \in Using
                            /\ pc'[q] \in Using => arg'[q] = arg[q],
           \A e \in Events : event'[e].count = event[e].count
    PROVE  CountExact'
<1> SUFFICES ASSUME NEW e \in Events
             PROVE  event'[e].count = Cardinality(Users(e)')
  BY DEF CountExact
<1>1. Users(e)' = Users(e)
  BY DEF Users
<1> QED
  BY <1>1 DEF CountExact

\* The state at the start of a step of p on a uniprocessor.
LEMMA StepFacts ==
    ASSUME SMP = FALSE, UsersInv, NEW p \in Procs, Runs(p)
    PROVE  /\ KTypeOK /\ ListedIsOpen /\ FreshIds /\ CountExact
           /\ NoDanglingUser /\ NoSleeperOnClosed /\ UniInv
           /\ \A q \in Procs : q # p => pc[q] \in Resting
  BY OthersRest DEF UsersInv, ListInv

\* sleep, wake_up and the calls' steps that change no event's state.
LEMMA StateFrame ==
    ASSUME NoDanglingUser, NoSleeperOnClosed,
           KTypeOK,
           \A e \in Events : /\ event'[e].state = event[e].state
                             /\ event'[e].invalid = event[e].invalid,
           \A q \in Procs :
              /\ pc'[q] \in Using => /\ arg'[q] \in Events
                                     /\ event[arg'[q]].state = "live"
              /\ pc'[q] = "asleep" => event[arg'[q]].invalid = 0
    PROVE  NoDanglingUser' /\ NoSleeperOnClosed'
  BY DEF NoDanglingUser, NoSleeperOnClosed, Using

\* The steps that neither begin nor end the use of an event.
LEMMA QuietUses ==
    ASSUME SMP = FALSE, UsersInv, ListInv', NEW p \in Procs,
           \/ OpenFull(p) \/ NotFound(p) \/ OpenAlloc(p)
           \/ UseLoad(p, "wait_lock", "wait_inc") \/ UseLoad(p, "sig_lock", "sig_inc")
           \/ FoundInvalid(p) \/ WaitCheck(p) \/ WaitSleep(p) \/ WaitWoken(p)
           \/ CloseUnlist(p)
    PROVE  UsersInv'
<1> USE DEF At, Goto, Leave, Continue
<1>1. CASE OpenFull(p)
  <2> USE <1>1 DEF OpenFull
  <2>1. Runs(p)
    OBVIOUS
  <2>2. UniInv'
    BY <2>1, StepFacts, UniFrame DEF KTypeOK, UniInv, Resting, Event_t
  <2>3. CountExact'
    BY <2>1, StepFacts, CountFrame DEF KTypeOK, Event_t, Using
  <2>4. NoDanglingUser' /\ NoSleeperOnClosed'
    BY <2>1, StepFacts, StateFrame
    DEF KTypeOK, Event_t, Using, NoDanglingUser, NoSleeperOnClosed, UniInv
  <2> QED
    BY <2>2, <2>3, <2>4 DEF UsersInv
<1>2. CASE NotFound(p)
  <2> USE <1>2 DEF NotFound
  <2>1. Runs(p)
    OBVIOUS
  <2>2. UniInv'
    BY <2>1, StepFacts, UniFrame, ZenonT(60) DEF KTypeOK, UniInv, Resting, Event_t
  <2>3. CountExact'
    BY <2>1, StepFacts, CountFrame DEF KTypeOK, Event_t, Using
  <2>4. NoDanglingUser' /\ NoSleeperOnClosed'
    BY <2>1, StepFacts, StateFrame
    DEF KTypeOK, Event_t, Using, NoDanglingUser, NoSleeperOnClosed, UniInv
  <2> QED
    BY <2>2, <2>3, <2>4 DEF UsersInv
<1>3. CASE OpenAlloc(p)
  <2> USE <1>3 DEF OpenAlloc
  <2>1. Runs(p)
    OBVIOUS
  <2>2. UniInv'
    BY <2>1, StepFacts, UniFrame DEF KTypeOK, UniInv, Resting, Event_t
  <2>3. CountExact'
    BY <2>1, StepFacts, CountFrame DEF KTypeOK, Event_t, Using
  <2>4. NoDanglingUser' /\ NoSleeperOnClosed'
    BY <2>1, StepFacts, StateFrame
    DEF KTypeOK, Event_t, Using, NoDanglingUser, NoSleeperOnClosed, UniInv
  <2> QED
    BY <2>2, <2>3, <2>4 DEF UsersInv
<1>4. CASE UseLoad(p, "wait_lock", "wait_inc")
  <2> USE <1>4 DEF UseLoad
  <2>1. Runs(p)
    OBVIOUS
  <2>2. UniInv'
    BY <2>1, StepFacts, UniFrame DEF KTypeOK, UniInv, Resting, Event_t
  <2>3. CountExact'
    BY <2>1, StepFacts, CountFrame DEF KTypeOK, Event_t, Using
  <2>4. NoDanglingUser' /\ NoSleeperOnClosed'
    BY <2>1, StepFacts, StateFrame
    DEF KTypeOK, Event_t, Using, NoDanglingUser, NoSleeperOnClosed, UniInv
  <2> QED
    BY <2>2, <2>3, <2>4 DEF UsersInv
<1>5. CASE UseLoad(p, "sig_lock", "sig_inc")
  <2> USE <1>5 DEF UseLoad
  <2>1. Runs(p)
    OBVIOUS
  <2>2. UniInv'
    BY <2>1, StepFacts, UniFrame DEF KTypeOK, UniInv, Resting, Event_t
  <2>3. CountExact'
    BY <2>1, StepFacts, CountFrame DEF KTypeOK, Event_t, Using
  <2>4. NoDanglingUser' /\ NoSleeperOnClosed'
    BY <2>1, StepFacts, StateFrame
    DEF KTypeOK, Event_t, Using, NoDanglingUser, NoSleeperOnClosed, UniInv
  <2> QED
    BY <2>2, <2>3, <2>4 DEF UsersInv
<1>6. CASE FoundInvalid(p)
  <2> USE <1>6 DEF FoundInvalid, DropLoad, Holds
  <2>1. Runs(p)
    OBVIOUS
  <2>2. UniInv'
    BY <2>1, StepFacts, UniFrame, ZenonT(60) DEF KTypeOK, UniInv, Resting, Event_t
  <2>3. CountExact'
    BY <2>1, StepFacts, CountFrame DEF KTypeOK, Event_t, Using
  <2>4. NoDanglingUser' /\ NoSleeperOnClosed'
    BY <2>1, StepFacts, StateFrame
    DEF KTypeOK, Event_t, Using, NoDanglingUser, NoSleeperOnClosed, UniInv
  <2> QED
    BY <2>2, <2>3, <2>4 DEF UsersInv
<1>7. CASE WaitCheck(p)
  <2> USE <1>7 DEF WaitCheck, Holds
  <2>1. Runs(p)
    OBVIOUS
  <2>2. UniInv'
    BY <2>1, StepFacts, UniFrame DEF KTypeOK, UniInv, Resting, Event_t
  <2>3. CountExact'
    BY <2>1, StepFacts, CountFrame DEF KTypeOK, Event_t, Using
  <2>4. NoDanglingUser' /\ NoSleeperOnClosed'
    BY <2>1, StepFacts, StateFrame
    DEF KTypeOK, Event_t, Using, NoDanglingUser, NoSleeperOnClosed, UniInv
  <2> QED
    BY <2>2, <2>3, <2>4 DEF UsersInv
<1>8. CASE WaitSleep(p)
  <2> USE <1>8 DEF WaitSleep, Holds
  <2>1. Runs(p)
    OBVIOUS
  <2>2. UniInv'
    BY <2>1, StepFacts, UniFrame, ZenonT(60) DEF KTypeOK, UniInv, Resting, Event_t
  <2>3. CountExact'
    BY <2>1, StepFacts, CountFrame DEF KTypeOK, Event_t, Using
  <2>4. NoDanglingUser' /\ NoSleeperOnClosed'
    BY <2>1, StepFacts, StateFrame
    DEF KTypeOK, Event_t, Using, NoDanglingUser, NoSleeperOnClosed, UniInv
  <2> QED
    BY <2>2, <2>3, <2>4 DEF UsersInv
<1>9. CASE WaitWoken(p)
  <2> USE <1>9 DEF WaitWoken, DropLoad, Holds
  <2>1. Runs(p)
    OBVIOUS
  <2>2. UniInv'
    BY <2>1, StepFacts, UniFrame, ZenonT(60) DEF KTypeOK, UniInv, Resting, Event_t
  <2>3. CountExact'
    BY <2>1, StepFacts, CountFrame DEF KTypeOK, Event_t, Using
  <2>4. NoDanglingUser' /\ NoSleeperOnClosed'
    BY <2>1, StepFacts, StateFrame, ZenonT(60)
    DEF KTypeOK, Event_t, Using, NoDanglingUser, NoSleeperOnClosed, UniInv
  <2> QED
    BY <2>2, <2>3, <2>4 DEF UsersInv
<1>10. CASE CloseUnlist(p)
  <2> USE <1>10 DEF CloseUnlist
  <2>1. Runs(p)
    OBVIOUS
  <2>2. UniInv'
    BY <2>1, StepFacts, UniFrame, ZenonT(60) DEF KTypeOK, UniInv, Resting, Event_t
  <2>3. CountExact'
    BY <2>1, StepFacts, CountFrame DEF KTypeOK, Event_t, Using
  <2>4. NoDanglingUser' /\ NoSleeperOnClosed'
    BY <2>1, StepFacts, StateFrame
    DEF KTypeOK, Event_t, Using, NoDanglingUser, NoSleeperOnClosed, UniInv
  <2> QED
    BY <2>2, <2>3, <2>4 DEF UsersInv
<1> QED
  BY <1>1, <1>2, <1>3, <1>4, <1>5, <1>6, <1>7, <1>8, <1>9, <1>10

\* A system call begins: the caller uses no event yet.
LEMMA CallUses ==
    ASSUME SMP = FALSE, UsersInv, ListInv', NEW p \in Procs, NEW e,
           NEW l \in {"open_lock", "wait_lock", "sig_lock", "close_lock"},
           Call(p, l, e)
    PROVE  UsersInv'
<1> USE DEF At, Goto, Continue, Call
<1>1. Runs(p)
  OBVIOUS
<1>2. UniInv'
  BY <1>1, StepFacts, UniFrame DEF KTypeOK, UniInv, Resting
<1>3. CountExact'
  BY <1>1, StepFacts, CountFrame DEF KTypeOK, Using
<1>4. NoDanglingUser' /\ NoSleeperOnClosed'
  BY <1>1, StepFacts, StateFrame
  DEF KTypeOK, Using, NoDanglingUser, NoSleeperOnClosed
<1> QED
  BY <1>2, <1>3, <1>4 DEF UsersInv

\* An open makes a fresh id an event: nobody uses it yet.
LEMMA OpenInitUses ==
    ASSUME SMP = FALSE, UsersInv, ListInv', NEW p \in Procs, OpenInit(p)
    PROVE  UsersInv'
<1> DEFINE n == next_event_id
<1> USE DEF At, Goto, Leave, OpenInit
<1>1. Runs(p) /\ n \in Events /\ n \in Int
  BY OpenInitKeeps DEF UsersInv, ListInv, KTypeOK
<1>2. event[n].state = "none"
  <2>1. FreshIds
    BY <1>1, StepFacts
  <2>2. n >= n
    BY <1>1
  <2> QED
    BY <1>1, <2>1, <2>2 DEF FreshIds
<1>3. \A q \in Procs : pc[q] \in Using => arg[q] # n
  BY <1>1, <1>2, StepFacts DEF NoDanglingUser
<1>4. UniInv'
  BY <1>1, StepFacts, UniFrame, ZenonT(60) DEF KTypeOK, UniInv, Resting
<1>5. event[n].count = 0
  <2>1. Users(n) = {}
    BY <1>3 DEF Users
  <2> QED
    BY <2>1, <1>1, StepFacts, FS_EmptySet DEF CountExact
<1>6. CountExact'
  <2>1. \A e \in Events : event'[e].count = event[e].count
    BY <1>1, <1>5, StepFacts DEF KTypeOK
  <2> QED
    BY <2>1, <1>1, StepFacts, CountFrame DEF KTypeOK, Using
<1>7. NoDanglingUser' /\ NoSleeperOnClosed'
  BY <1>1, <1>3, StepFacts DEF KTypeOK, NoDanglingUser, NoSleeperOnClosed, Using
<1> QED
  BY <1>4, <1>6, <1>7 DEF UsersInv

\* event->count++ makes p a user: the loaded value was still the count.
LEMMA UseStoreUses ==
    ASSUME SMP = FALSE, UsersInv, ListInv', NEW p \in Procs,
           NEW from \in {"wait_inc", "sig_inc"}, NEW to \in {"wait_elock", "sig_elock"},
           UseStore(p, from, to)
    PROVE  UsersInv'
<1> DEFINE a == arg[p]
<1> USE DEF At, Goto, Continue, UseStore
<1>1. Runs(p) /\ pc[p] \in {"wait_inc", "sig_inc"}
  OBVIOUS
<1>2. a \in Events /\ a \in event_list /\ reg[p] = event[a].count
  BY <1>1, StepFacts DEF KTypeOK, UniInv
<1>3. event[a].state = "live"
  BY <1>1, <1>2, StepFacts DEF ListedIsOpen
<1>4. UniInv'
  BY <1>1, StepFacts, UniFrame, ZenonT(60) DEF KTypeOK, UniInv, Resting
<1>5. /\ \A e \in Events : e # a => event'[e].count = event[e].count
      /\ event'[a].count = event[a].count + 1
  BY <1>1, <1>2, StepFacts DEF KTypeOK, Event_t
<1>6. CountExact'
  <2> SUFFICES ASSUME NEW e \in Events
               PROVE  event'[e].count = Cardinality(Users(e)')
    BY DEF CountExact
  <2>1. CASE e # a
    <3>1. Users(e)' = Users(e)
      BY <1>1, <2>1, StepFacts DEF Users, KTypeOK, Using
    <3> QED
      BY <1>1, <1>5, <2>1, <3>1, StepFacts DEF CountExact
  <2>2. CASE e = a
    <3>1. Users(a)' = Users(a) \cup {p} /\ p \notin Users(a)
      BY <1>1, StepFacts DEF Users, KTypeOK, Using
    <3>2. Cardinality(Users(a)') = Cardinality(Users(a)) + 1
      BY <3>1, ProcJoins DEF Users
    <3> QED
      BY <1>1, <1>2, <1>5, <2>2, <3>2, StepFacts DEF CountExact
  <2> QED
    BY <2>1, <2>2
<1>7. NoDanglingUser' /\ NoSleeperOnClosed'
  BY <1>1, <1>3, StepFacts, StateFrame
  DEF KTypeOK, Event_t, Using, NoDanglingUser, NoSleeperOnClosed
<1> QED
  BY <1>4, <1>6, <1>7 DEF UsersInv

\* event->count-- and the return: p was counted.
LEMMA DropStoreUses ==
    ASSUME SMP = FALSE, UsersInv, ListInv', NEW p \in Procs, DropStore(p)
    PROVE  UsersInv'
<1> DEFINE a == arg[p]
<1> USE DEF At, Goto, Leave, Holds, DropStore
<1>1. Runs(p) /\ pc[p] = "drop"
  OBVIOUS
<1>2. a \in Events /\ reg[p] = event[a].count
  BY <1>1, StepFacts DEF KTypeOK, UniInv
<1>3. UniInv'
  <2>1. pc'[p] = "user" /\ \A q \in Procs : q # p => pc'[q] \in Resting
    BY <1>1, StepFacts DEF KTypeOK
  <2> QED
    BY <2>1, UniFrame DEF Resting
<1>4. /\ \A e \in Events : e # a => event'[e].count = event[e].count
      /\ event'[a].count = event[a].count - 1
  BY <1>1, <1>2, StepFacts DEF KTypeOK, Event_t
<1>5. CountExact'
  <2> SUFFICES ASSUME NEW e \in Events
               PROVE  event'[e].count = Cardinality(Users(e)')
    BY DEF CountExact
  <2>1. CASE e # a
    <3>1. Users(e)' = Users(e)
      BY <1>1, <2>1, StepFacts DEF Users, KTypeOK, Using
    <3> QED
      BY <1>1, <1>4, <2>1, <3>1, StepFacts DEF CountExact
  <2>2. CASE e = a
    <3>1. Users(a)' = Users(a) \ {p} /\ p \in Users(a)
      BY <1>1, StepFacts DEF Users, KTypeOK, Using
    <3>2. Cardinality(Users(a)') = Cardinality(Users(a)) - 1
      BY <3>1, ProcLeaves DEF Users
    <3> QED
      BY <1>1, <1>2, <1>4, <2>2, <3>2, StepFacts DEF CountExact
  <2> QED
    BY <2>1, <2>2
<1>6. NoDanglingUser' /\ NoSleeperOnClosed'
  BY <1>1, StepFacts, StateFrame, ZenonT(60)
  DEF KTypeOK, Event_t, Using, NoDanglingUser, NoSleeperOnClosed
<1> QED
  BY <1>3, <1>5, <1>6 DEF UsersInv

\* A signal moves the sleepers on; they stay users of the event.
LEMMA SigWakeUses ==
    ASSUME SMP = FALSE, UsersInv, ListInv', NEW p \in Procs, SigWake(p)
    PROVE  UsersInv'
<1> DEFINE f == [pc EXCEPT ![p] = "drop"]
<1>1. Runs(p) /\ pc[p] = "sig_elock" /\ DropLoad(p) /\ pc' = wake_up(arg[p], f)
  BY DEF SigWake, Holds, At
<1>2. KTypeOK /\ arg[p] \in Events
  BY <1>1, StepFacts DEF KTypeOK
<1>3. f \in [Procs -> Locations]
  BY <1>2 DEF KTypeOK, Locations, Using
<1>4. \A q \in Procs : f[q] = IF q = p THEN "drop" ELSE pc[q]
  BY <1>2 DEF KTypeOK
<1> HIDE DEF f
<1>5. \A q \in Procs : pc'[q] = f[q] \/ (f[q] = "asleep" /\ pc'[q] = "woken")
  BY <1>1, <1>3, WakeUp
<1>6. /\ pc'[p] = "drop"
      /\ \A q \in Procs : pc'[q] \in Using <=> pc[q] \in Using
      /\ \A q \in Procs : q # p => pc'[q] \in Resting
      /\ \A q \in Procs : pc'[q] = "asleep" => pc[q] = "asleep"
  BY <1>1, <1>4, <1>5, StepFacts DEF Using, Resting
<1>7. /\ \A e \in Events : /\ event'[e].state = event[e].state
                           /\ event'[e].invalid = event[e].invalid
                           /\ event'[e].count = event[e].count
      /\ reg'[p] = event'[arg'[p]].count /\ arg' = arg /\ cpu' = p
  BY <1>1, <1>2 DEF KTypeOK, Event_t, DropLoad, Continue
<1>8. UniInv'
  BY <1>6, <1>7, UniFrame
<1>9. CountExact'
  BY <1>1, <1>6, <1>7, StepFacts, CountFrame
<1>10. NoDanglingUser' /\ NoSleeperOnClosed'
  BY <1>1, <1>2, <1>6, <1>7, StepFacts, StateFrame
  DEF KTypeOK, NoDanglingUser, NoSleeperOnClosed
<1> QED
  BY <1>8, <1>9, <1>10 DEF UsersInv

\* A close frees the event only when nobody uses it, and leaves nobody asleep.
LEMMA CloseMarkUses ==
    ASSUME SMP = FALSE, UsersInv, ListInv', NEW p \in Procs, CloseMark(p)
    PROVE  UsersInv'
<1> DEFINE f == [pc EXCEPT ![p] = "user"]
           a == arg[p]
<1>1. /\ Runs(p) /\ pc[p] = "close_elock" /\ pc' = wake_up(a, f)
      /\ event[a].state = "live" /\ arg' = arg
  BY DEF CloseMark, Holds, At
<1>2. KTypeOK /\ a \in Events
  BY <1>1, StepFacts DEF KTypeOK
<1>3. f \in [Procs -> Locations]
  BY <1>2 DEF KTypeOK, Locations, Using
<1>4. \A q \in Procs : f[q] = IF q = p THEN "user" ELSE pc[q]
  BY <1>2 DEF KTypeOK
<1> HIDE DEF f
<1>5. \A q \in Procs :
         \/ pc'[q] = f[q] /\ ~(f[q] = "asleep" /\ arg[q] = a)
         \/ f[q] = "asleep" /\ arg[q] = a /\ pc'[q] = "woken"
  BY <1>1, <1>3, WakeUp
<1>6. /\ pc'[p] = "user"
      /\ \A q \in Procs : pc'[q] \in Using <=> pc[q] \in Using
      /\ \A q \in Procs : q # p => pc'[q] \in Resting
      /\ \A q \in Procs : pc'[q] = "asleep" => pc[q] = "asleep" /\ arg[q] # a
  BY <1>1, <1>4, <1>5, StepFacts DEF Using, Resting
<1>7. /\ \A e \in Events : e # a => event'[e] = event[e]
      /\ event'[a].count = event[a].count
      /\ event[a].count # 0 => event'[a].state = "live"
  BY <1>1, <1>2 DEF KTypeOK, Event_t, CloseMark
<1>8. UniInv'
  BY <1>6, UniFrame DEF Resting
<1>9. CountExact'
  BY <1>1, <1>6, <1>7, StepFacts, CountFrame
<1>10. NoDanglingUser'
  <2> SUFFICES ASSUME NEW q \in Procs, pc'[q] \in Using
               PROVE  event'[arg[q]].state = "live"
    BY <1>1 DEF NoDanglingUser
  <2>1. pc[q] \in Using /\ event[arg[q]].state = "live" /\ arg[q] \in Events
    BY <1>1, <1>2, <1>6, StepFacts DEF NoDanglingUser, KTypeOK
  <2>2. CASE arg[q] # a
    BY <1>7, <2>1, <2>2
  <2>3. CASE arg[q] = a
    <3>1. q \in Users(a) /\ Users(a) \in SUBSET Procs
      BY <2>1, <2>3 DEF Users
    <3>2. event[a].count # 0
      BY <1>1, <1>2, <3>1, ProcSets, StepFacts DEF CountExact
    <3> QED
      BY <1>7, <2>3, <3>2
  <2> QED
    BY <2>2, <2>3
<1>11. NoSleeperOnClosed'
  BY <1>1, <1>2, <1>6, <1>7, StepFacts DEF NoSleeperOnClosed, KTypeOK
<1> QED
  BY <1>8, <1>9, <1>10, <1>11 DEF UsersInv

\* At boot nobody uses an event.
LEMMA UsersInvInit == doevent_init => UsersInv
<1> SUFFICES ASSUME doevent_init PROVE UsersInv
  OBVIOUS
<1>1. \A e \in Events : Users(e) = {}
  BY DEF Users, Using, doevent_init
<1>2. CountExact
  BY <1>1, FS_EmptySet DEF CountExact, doevent_init
<1>3. UniInv /\ NoDanglingUser /\ NoSleeperOnClosed
  BY DEF doevent_init, UniInv, NoDanglingUser, NoSleeperOnClosed, Using
<1> QED
  BY <1>2, <1>3, InitListInv DEF UsersInv

\* Every step on a uniprocessor keeps counts, pointers and sleepers right.
LEMMA UsersInvStep ==
    ASSUME SMP = FALSE
    PROVE  UsersInv /\ [KNext]_kvars => UsersInv'
<1> SUFFICES ASSUME UsersInv, [KNext]_kvars PROVE UsersInv'
  OBVIOUS
<1>1. ListInv'
  BY ListInvStep DEF UsersInv
<1>2. CASE UNCHANGED kvars
  <2>1. CountExact'
    BY <1>2, CountFrame DEF kvars, UsersInv
  <2>2. UniInv' /\ NoDanglingUser' /\ NoSleeperOnClosed'
    BY <1>2 DEF kvars, UsersInv, UniInv, NoDanglingUser, NoSleeperOnClosed
  <2> QED
    BY <1>1, <2>1, <2>2 DEF UsersInv
<1>3. ASSUME NEW p \in Procs, KernelStep(p) PROVE UsersInv'
  BY <1>1, <1>3, QuietUses, OpenInitUses, UseStoreUses, SigWakeUses,
     DropStoreUses, CloseMarkUses DEF KernelStep
<1>4. ASSUME NEW p \in Procs, NEW e,
             \/ Call(p, "open_lock", e) \/ Call(p, "wait_lock", e)
             \/ Call(p, "sig_lock", e) \/ Call(p, "close_lock", e)
      PROVE UsersInv'
  BY <1>1, <1>4, CallUses
<1> QED
  BY <1>2, <1>3, <1>4 DEF KNext

\* The uniprocessor kernel the assignment was built for: counts, pointers and
\* sleepers stay right through every interleaving of opens that sleep in
\* kmalloc, waiters, signals and closes.
THEOREM UsersCorrect ==
    ASSUME SMP = FALSE
    PROVE  KSpec => []UsersInv
<1> QED
  BY UsersInvInit, UsersInvStep, PTL DEF KSpec

\* event->count is the number of processes between its count++ and count--.
THEOREM CountIsExact ==
    ASSUME SMP = FALSE
    PROVE  KSpec => []CountExact
<1>1. UsersInv => CountExact
  BY DEF UsersInv
<1> QED
  BY <1>1, UsersCorrect, PTL

\* sys_doevent_close never frees an event under a process that still uses it.
THEOREM NobodyDangles ==
    ASSUME SMP = FALSE
    PROVE  KSpec => []NoDanglingUser
<1>1. UsersInv => NoDanglingUser
  BY DEF UsersInv
<1> QED
  BY <1>1, UsersCorrect, PTL

\* sys_doevent_wait never goes to sleep on an event that a close has marked,
\* and a close wakes everybody who sleeps on it.
THEOREM NobodySleepsOnClosed ==
    ASSUME SMP = FALSE
    PROVE  KSpec => []NoSleeperOnClosed
<1>1. UsersInv => NoSleeperOnClosed
  BY DEF UsersInv
<1> QED
  BY <1>1, UsersCorrect, PTL

=============================================================================
