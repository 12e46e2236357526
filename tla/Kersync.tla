------------------------------ MODULE Kersync ------------------------------
(***************************************************************************)
(* The doevent system calls (kersync.c): a list of events under a global   *)
(* spinlock, and per event a lock, a use count, an invalid flag and a wait *)
(* queue.                                                                  *)
(*                                                                         *)
(* SMP chooses the kernel the calls are built into.  With SMP = FALSE      *)
(* (uniprocessor, no preemption) spinlocks compile to nothing and a call   *)
(* runs until it returns, sleeps, or blocks in kmalloc.  With SMP = TRUE   *)
(* calls interleave between any two accesses that no common lock protects; *)
(* count++ and count-- are then a load and a store, and they are made      *)
(* under different locks.                                                  *)
(*                                                                         *)
(* An event is named by its event_id, and kmalloc always succeeds.  What a *)
(* process does with an event after kfree is undefined: it stops there,    *)
(* and NoDanglingUser says whether that can happen.                        *)
(***************************************************************************)
EXTENDS Integers, FiniteSets

CONSTANTS
    Procs,          \* processes that make the system calls
    NoProc,         \* nobody
    SMP,            \* TRUE: multiprocessor or preemptible kernel
    MAX_EVENT_ID,   \* 5000 in the code
    MaxCalls        \* bound: system calls per process

ASSUME KersyncConstants ==
    /\ NoProc \notin Procs
    /\ IsFiniteSet(Procs)
    /\ SMP \in BOOLEAN
    /\ MAX_EVENT_ID \in Nat
    /\ MaxCalls \in Nat

VARIABLES
    list_lock,       \* holder of the global lock, or NoProc
    event_list,      \* ids of the events on the list
    next_event_id,
    event,           \* event[e]: the event_t with id e
    pc,              \* where each process is; "user" is outside the calls
    arg,             \* the call's event_id, and the pointer found with it
    reg,             \* count as loaded by a read-modify-write in progress
    calls,           \* system calls made so far
    cpu              \* uniprocessor: the process inside the kernel, or NoProc

kvars == <<list_lock, event_list, next_event_id, event, pc, arg, reg, calls, cpu>>

\* On a uniprocessor, opens that sleep in kmalloc let others past the check.
Events == 0 .. MAX_EVENT_ID + Cardinality(Procs)

Event_t == [state : {"none", "live", "freed"}, invalid : {0, 1},
            count : Int, e_lock : Procs \cup {NoProc}]

doevent_init ==
    /\ list_lock = NoProc
    /\ event_list = {}
    /\ next_event_id = 0
    /\ event = [e \in Events |->
                  [state |-> "none", invalid |-> 0, count |-> 0, e_lock |-> NoProc]]
    /\ pc = [p \in Procs |-> "user"]
    /\ arg = [p \in Procs |-> 0]
    /\ reg = [p \in Procs |-> 0]
    /\ calls = [p \in Procs |-> 0]
    /\ cpu = NoProc

-----------------------------------------------------------------------------
(* Scheduling and locks.                                                   *)

Runs(p) == SMP \/ cpu \in {p, NoProc}

Continue(p) == cpu' = IF SMP THEN NoProc ELSE p

Leave == cpu' = NoProc

\* spin_lock returns.
CanLock(l) == SMP => l = NoProc

At(p, l) == pc[p] = l /\ Runs(p)

Goto(p, l) == pc' = [pc EXCEPT ![p] = l]

\* p is at l with a pointer to an event that has not been freed.
Holds(p, l) == At(p, l) /\ event[arg[p]].state = "live"

CanLockEvent(p) == CanLock(event[arg[p]].e_lock)

\* wake_up(&event->Q): the sleepers are not exclusive, so all of them go on.
wake_up(e, pcs) ==
    [q \in Procs |-> IF pcs[q] = "asleep" /\ arg[q] = e THEN "woken" ELSE pcs[q]]

\* A process enters one of the calls, with any event_id.
Call(p, l, e) ==
    /\ At(p, "user")
    /\ calls[p] < MaxCalls
    /\ calls' = [calls EXCEPT ![p] = @ + 1]
    /\ arg' = [arg EXCEPT ![p] = e]
    /\ Goto(p, l)
    /\ Continue(p)
    /\ UNCHANGED <<list_lock, event_list, next_event_id, event, reg>>

-----------------------------------------------------------------------------
(* sys_doevent_open.                                                       *)

\* No more ids: return -1, with list_lock held.
OpenFull(p) ==
    /\ At(p, "open_lock")
    /\ CanLock(list_lock)
    /\ next_event_id > MAX_EVENT_ID
    /\ list_lock' = p
    /\ Goto(p, "user")
    /\ Leave
    /\ UNCHANGED <<event_list, next_event_id, event, arg, reg, calls>>

\* kmalloc(GFP_KERNEL) may put the caller to sleep.
OpenAlloc(p) ==
    /\ At(p, "open_lock")
    /\ CanLock(list_lock)
    /\ next_event_id =< MAX_EVENT_ID
    /\ list_lock' = p
    /\ Goto(p, "open_kmalloc")
    /\ Continue(p) \/ Leave
    /\ UNCHANGED <<event_list, next_event_id, event, arg, reg, calls>>

\* event_init, list_add, and the return of 0.
OpenInit(p) ==
    /\ At(p, "open_kmalloc")
    /\ event' = [event EXCEPT ![next_event_id] =
                   [state |-> "live", invalid |-> 0, count |-> 0, e_lock |-> NoProc]]
    /\ event_list' = event_list \cup {next_event_id}
    /\ next_event_id' = next_event_id + 1
    /\ list_lock' = NoProc
    /\ Goto(p, "user")
    /\ Leave
    /\ UNCHANGED <<arg, reg, calls>>

-----------------------------------------------------------------------------
(* The prologue that wait and signal share: look the event up and count    *)
(* its new user, under list_lock.                                          *)

\* find_event_by_id returns NULL in wait, sig or close: unlock, return -1.
NotFound(p) ==
    /\ \E l \in {"wait_lock", "sig_lock", "close_lock"} : At(p, l)
    /\ CanLock(list_lock)
    /\ arg[p] \notin event_list
    /\ Goto(p, "user")
    /\ Leave
    /\ UNCHANGED <<list_lock, event_list, next_event_id, event, arg, reg, calls>>

\* event->count++, the load.
UseLoad(p, from, to) ==
    /\ At(p, from)
    /\ CanLock(list_lock)
    /\ arg[p] \in event_list
    /\ list_lock' = p
    /\ reg' = [reg EXCEPT ![p] = event[arg[p]].count]
    /\ Goto(p, to)
    /\ Continue(p)
    /\ UNCHANGED <<event_list, next_event_id, event, arg, calls>>

\* Mutant: the new user is not counted.
UseStoreUncounted(p, from, to) ==
    /\ At(p, from)
    /\ list_lock' = NoProc
    /\ Goto(p, to)
    /\ Continue(p)
    /\ UNCHANGED <<event_list, next_event_id, event, arg, reg, calls>>

\* event->count++, the store, and spin_unlock(&list_lock).
UseStore(p, from, to) ==
    /\ At(p, from)
    /\ event' = [event EXCEPT ![arg[p]].count = reg[p] + 1]
    /\ list_lock' = NoProc
    /\ Goto(p, to)
    /\ Continue(p)
    /\ UNCHANGED <<event_list, next_event_id, arg, reg, calls>>

\* Taking e_lock for event->count--: the load.
DropLoad(p) ==
    /\ event' = [event EXCEPT ![arg[p]].e_lock = p]
    /\ reg' = [reg EXCEPT ![p] = event[arg[p]].count]
    /\ Continue(p)
    /\ UNCHANGED <<list_lock, event_list, next_event_id, arg, calls>>

\* event->count--, the store, spin_unlock(&event->e_lock), and the return.
DropStore(p) ==
    /\ Holds(p, "drop")
    /\ event' = [event EXCEPT ![arg[p]].count = reg[p] - 1,
                              ![arg[p]].e_lock = NoProc]
    /\ Goto(p, "user")
    /\ Leave
    /\ UNCHANGED <<list_lock, event_list, next_event_id, arg, reg, calls>>

\* The event was closed between the two locks: give it back, return -1.
FoundInvalid(p) ==
    /\ Holds(p, "wait_elock") \/ Holds(p, "sig_elock")
    /\ CanLockEvent(p)
    /\ event[arg[p]].invalid = 1
    /\ DropLoad(p)
    /\ Goto(p, "drop")

-----------------------------------------------------------------------------
(* sys_doevent_wait.                                                       *)

\* Mutant: the process yields the processor between the check and the sleep.
WaitCheckYields(p) ==
    /\ Holds(p, "wait_elock")
    /\ CanLockEvent(p)
    /\ event[arg[p]].invalid = 0
    /\ Goto(p, "wait_sleep")
    /\ Leave
    /\ UNCHANGED <<list_lock, event_list, next_event_id, event, arg, reg, calls>>

\* The event is valid; e_lock is released before sleep_on.
WaitCheck(p) ==
    /\ Holds(p, "wait_elock")
    /\ CanLockEvent(p)
    /\ event[arg[p]].invalid = 0
    /\ Goto(p, "wait_sleep")
    /\ Continue(p)
    /\ UNCHANGED <<list_lock, event_list, next_event_id, event, arg, reg, calls>>

\* sleep_on(&event->Q)
WaitSleep(p) ==
    /\ Holds(p, "wait_sleep")
    /\ Goto(p, "asleep")
    /\ Leave
    /\ UNCHANGED <<list_lock, event_list, next_event_id, event, arg, reg, calls>>

WaitWoken(p) ==
    /\ Holds(p, "woken")
    /\ CanLockEvent(p)
    /\ DropLoad(p)
    /\ Goto(p, "drop")

-----------------------------------------------------------------------------
(* sys_doevent_sig.                                                        *)

SigWake(p) ==
    /\ Holds(p, "sig_elock")
    /\ CanLockEvent(p)
    /\ event[arg[p]].invalid = 0
    /\ DropLoad(p)
    /\ pc' = wake_up(arg[p], [pc EXCEPT ![p] = "drop"])

-----------------------------------------------------------------------------
(* sys_doevent_close.                                                      *)

\* Mutant: the event stays on the list.
CloseUnlistKeeps(p) ==
    /\ At(p, "close_lock")
    /\ CanLock(list_lock)
    /\ arg[p] \in event_list
    /\ Goto(p, "close_elock")
    /\ Continue(p)
    /\ UNCHANGED <<list_lock, event_list, next_event_id, event, arg, reg, calls>>

\* list_del under list_lock: from here on nobody else finds the event.
CloseUnlist(p) ==
    /\ At(p, "close_lock")
    /\ CanLock(list_lock)
    /\ arg[p] \in event_list
    /\ event_list' = event_list \ {arg[p]}
    /\ Goto(p, "close_elock")
    /\ Continue(p)
    /\ UNCHANGED <<list_lock, next_event_id, event, arg, reg, calls>>

\* Mutants: the sleepers are not woken; the count is not looked at.
CloseMarkSilent(p) ==
    /\ Holds(p, "close_elock")
    /\ CanLockEvent(p)
    /\ event' = [event EXCEPT
                   ![arg[p]].invalid = 1,
                   ![arg[p]].state = IF event[arg[p]].count = 0 THEN "freed" ELSE "live"]
    /\ Goto(p, "user")
    /\ Leave
    /\ UNCHANGED <<list_lock, event_list, next_event_id, arg, reg, calls>>

CloseMarkFrees(p) ==
    /\ Holds(p, "close_elock")
    /\ CanLockEvent(p)
    /\ event' = [event EXCEPT ![arg[p]].invalid = 1, ![arg[p]].state = "freed"]
    /\ pc' = wake_up(arg[p], [pc EXCEPT ![p] = "user"])
    /\ Leave
    /\ UNCHANGED <<list_lock, event_list, next_event_id, arg, reg, calls>>

\* Wake the sleepers and mark the event; the closer frees it only if nobody
\* uses it now (and returns 0), else leaves it (and returns -1).
CloseMark(p) ==
    /\ Holds(p, "close_elock")
    /\ CanLockEvent(p)
    /\ event' = [event EXCEPT
                   ![arg[p]].invalid = 1,
                   ![arg[p]].state = IF event[arg[p]].count = 0 THEN "freed" ELSE "live"]
    /\ pc' = wake_up(arg[p], [pc EXCEPT ![p] = "user"])
    /\ Leave
    /\ UNCHANGED <<list_lock, event_list, next_event_id, arg, reg, calls>>

-----------------------------------------------------------------------------
(* Specification.                                                          *)

KernelStep(p) ==
    \/ OpenFull(p) \/ OpenAlloc(p) \/ OpenInit(p) \/ NotFound(p)
    \/ UseLoad(p, "wait_lock", "wait_inc") \/ UseStore(p, "wait_inc", "wait_elock")
    \/ UseLoad(p, "sig_lock", "sig_inc") \/ UseStore(p, "sig_inc", "sig_elock")
    \/ FoundInvalid(p) \/ WaitCheck(p) \/ WaitSleep(p) \/ WaitWoken(p)
    \/ SigWake(p) \/ DropStore(p) \/ CloseUnlist(p) \/ CloseMark(p)

KNext ==
    \E p \in Procs :
        \/ KernelStep(p)
        \/ Call(p, "open_lock", 0)
        \/ \E e \in 0 .. MAX_EVENT_ID :
              \/ Call(p, "wait_lock", e) \/ Call(p, "sig_lock", e)
              \/ Call(p, "close_lock", e)

KSpec == doevent_init /\ [][KNext]_kvars

\* The kernel schedules every runnable process.
KFairSpec == KSpec /\ \A p \in Procs : WF_kvars(KernelStep(p))

-----------------------------------------------------------------------------
(* Properties.                                                             *)

\* Between count++ and count--.
Using == {"wait_elock", "sig_elock", "wait_sleep", "asleep", "woken", "drop"}

Users(e) == {p \in Procs : pc[p] \in Using /\ arg[p] = e}

\* Program points, from the call to the return.
Locations ==
    Using \cup {"user", "open_lock", "open_kmalloc", "wait_lock", "wait_inc",
                "sig_lock", "sig_inc", "close_lock", "close_elock"}

\* Ids stay in range (a few beyond the limit when opens overlap in kmalloc),
\* so every id on the list names an event, and locks are held by processes.
KTypeOK ==
    /\ list_lock \in Procs \cup {NoProc}
    /\ event_list \subseteq Events
    /\ next_event_id \in Nat
    /\ event \in [Events -> Event_t]
    /\ pc \in [Procs -> Locations]
    /\ arg \in [Procs -> Events]
    /\ reg \in [Procs -> Int]
    /\ cpu \in Procs \cup {NoProc}

\* count is the number of processes that use the event, as the comment at its
\* increments says; it decides whether close frees the event.
CountExact == \A e \in Events : event[e].count = Cardinality(Users(e))

\* No process holds a pointer to an event that close has freed.
NoDanglingUser ==
    \A p \in Procs : pc[p] \in Using => event[arg[p]].state = "live"

\* Nobody sleeps on an event that has been closed: the close woke everybody,
\* and everybody after it sees invalid.
NoSleeperOnClosed ==
    \A p \in Procs : pc[p] = "asleep" => event[arg[p]].invalid = 0

\* An event on the list can be found and used: it is allocated, not closed,
\* and no close of it is under way.
ListedIsOpen ==
    \A e \in event_list :
        /\ event[e].state = "live" /\ event[e].invalid = 0
        /\ \A p \in Procs : ~(pc[p] = "close_elock" /\ arg[p] = e)

\* Of all closes of an event one gets to mark and free it.
OneCloser ==
    \A p, q \in Procs :
        pc[p] = "close_elock" /\ pc[q] = "close_elock" /\ arg[p] = arg[q] => p = q

\* Processes that have passed the id check and wait for their memory.
Allocating == {p \in Procs : pc[p] = "open_kmalloc"}

\* Overlapping opens push next_event_id past the limit by at most one id per
\* process: each of them passed the check when there was an id left.
IdBound ==
    next_event_id + Cardinality(Allocating) =< MAX_EVENT_ID + Cardinality(Procs)

\* An id that has not been given out names nothing; a close works on one
\* that has.
FreshIds ==
    /\ \A e \in Events : e >= next_event_id =>
          e \notin event_list /\ event[e].state = "none"
    /\ \A p \in Procs : pc[p] = "close_elock" => arg[p] < next_event_id

\* The program points between taking list_lock and releasing it.
ListLocked == {"open_kmalloc", "wait_inc", "sig_inc"}

\* The recorded holder of list_lock is at one of them, or the ids are used up.
ListLockInv ==
    list_lock # NoProc =>
        pc[list_lock] \in ListLocked \/ next_event_id > MAX_EVENT_ID

\* What the list of events keeps, whatever happens to the counts: a close that
\* takes an event off the list has it for itself, and ids are given out once.
ListInv ==
    /\ KTypeOK
    /\ IdBound
    /\ FreshIds
    /\ ListedIsOpen
    /\ OneCloser
    /\ ListLockInv

\* Uniprocessor: a process that is neither outside the calls nor asleep in one
\* has the processor, and what it loaded and checked still holds.
UniInv ==
    \A p \in Procs :
        /\ pc[p] \notin {"user", "open_kmalloc", "asleep", "woken"} => cpu = p
        /\ pc[p] \in {"wait_inc", "sig_inc"} => arg[p] \in event_list
        /\ pc[p] \in {"wait_inc", "sig_inc", "drop"} => reg[p] = event[arg[p]].count
        /\ pc[p] = "wait_sleep" => event[arg[p]].invalid = 0

\* The inductive invariant behind the counts on a uniprocessor.
UsersInv ==
    /\ ListInv
    /\ UniInv
    /\ CountExact
    /\ NoDanglingUser
    /\ NoSleeperOnClosed

\* Everybody who uses an event when it is closed leaves the call.
ClosedIsLeft ==
    \A p \in Procs, e \in Events :
        (pc[p] \in Using /\ arg[p] = e /\ event[e].invalid = 1) ~> pc[p] = "user"

=============================================================================
