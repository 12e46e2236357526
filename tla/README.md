# TLA+ models of the CS2456 course repository

The repository holds the programs of an operating systems course: user-level
synchronisation, three extensions of the Linux kernel, a shell and a few
measuring programs. The modules here model the parts that have state and
concurrency or long histories of calls, TLC checks them on small instances, and
TLAPS proves, for every instance, the safety of each of them: the SThread mutex and its
manager, the kernel events, the GWRR queue, the shell's job table, page ageing and
reclaim, and prinfo.
All paths below are relative to `src/`.

## Inventory

| Part | State | Operations | What is hard | What makes it correct |
|---|---|---|---|---|
| SThread mutex, `hw3/personal/SThread/sync.c`, `sync.h` | spinlock word `M`; ring buffer `Q` of threads with recursion counts | lock, trylock, unlock, destroy | threads interleave around the spinlock; a thread releases `M` before it sleeps; the woken thread runs while `M` is still set; index arithmetic | mutual exclusion, exact recursion count, no lost wake-up, FIFO order, `M` released |
| SThread suspend/wake, `sthread.c` | one pipe per thread | suspend, wake, test_and_set | a wake-up before the suspend | the message waits in the pipe |
| SThread manager, `sthread.c` | thread list, `list_lock`, manager pipe | create, exit, reap, exit of the process | signals in the middle of a list search; a freed record whose `next` is read; one pipe for two purposes | every create answered, every thread reaped, the process exits |
| Kernel events, `hw3/group/TURNED_IN_Qiyuan_Qiguang/kersync/` | list of events under `list_lock`; per event `e_lock`, `count`, `invalid`, wait queue | open, wait, sig, close | two locks, one count; sleep after unlock; free while in use | count exact, nothing freed in use, nobody asleep on a closed event |
| GWRR scheduling class, `hw4/sched_gwrr.c` with the calls in `hw4/sched.c` | list of groups, each with weight and task list; `rq->curr` | enqueue, dequeue, pick_next; schedule, wake-up, sched_setscheduler around them | long legal histories: a task changes group while queued, sleeps, wakes, changes class | runnable tasks queued once, sleeping ones not at all, round robin, weights respected |
| Shell job control, `hw1/part_two.c` | 16-entry job table | addjob, deletejob, fg, the SIGCHLD handler | the handler interrupts addjob and the foreground wait | the table is consistent wherever it is interrupted, a foreground command is waited for and returns |
| Monitor, `hw1/part_one.c` | one number per counter of `/proc` | sample, print | a difference kept in place of the last reading | not modelled |
| Page ageing, `hw5/memstats.c`, `hw5/vmscan.c` | LRU lists, `ref_cnt`, two counters | timer, sys_memstats, shrink_active_list, shrink_inactive_list with all they call | the timer and the scanner change `ref_cnt` under different locks; `lru_lock` is dropped in the middle of a scan; pages die, are pinned and dirtied meanwhile | a page is in one place, counts are exact, no access and no write is forgotten, scans end |
| prinfo, `hw2/group/` | none (walks the task tree) | one system call | uninitialised answers at the boundary | the times of exactly the children, the neighbours in the ring of siblings |
| Measurements, `hw2/min_*`, `hw2/switch`, `hw3/warmup` | none | loops around a clock | nothing to interleave | not modelled |

The mutex calls test_and_set, suspend and wake of `sthread.c`; the manager uses
the same suspend and wake for its own answers. The timer and the scanners of
page reclaim share the lists and `ref_cnt`. The other kernel parts do not
interact with each other. `hw3/personal/SThread_qqy_v*`, `hw3/group/backup_kernel` and
`hw4/1105` are earlier versions of modelled files; `hw4/sched*.c` (but for the
calls into GWRR), most of `hw5/vmscan.c` and the two `main.c` are Linux; the
lines marked cs2456 in `vmscan.c` sit in the middle of the functions that
`PageReclaim` models.

## Modules

| Module | Models | Notes |
|---|---|---|
| `SThreadMutex` | `sync.c`, and suspend/wake/test_and_set | specifications for disciplined and for other clients |
| `FifoMutex` | nothing: the promise | recursive mutex handed over in queue order |
| `SThreadMutexRefines` | | refinement mapping from the ring buffer to the abstract queue |
| `SThreadMutexInv` | | inductive invariants |
| `SThreadMutexProofs` | | theorems about disciplined clients and about all clients |
| `SThreadMutexFifoProofs` | | refinement and order of the queue |
| `Kersync`, `KersyncProofs` | `kersync.c`, `kersync.h` | `SMP` chooses the kernel |
| `Gwrr`, `GwrrProofs` | `sched_gwrr.c`, its callers in `sched.c` | one processor |
| `SThreadManager` | `sthread.c` | manager, thread list, clients; failing calls, faults, signals |
| `SThreadManagerInv`, `SThreadManagerProofs` | | inductive invariant, theorems |
| `ShellJobs`, `ShellJobsProofs` | `part_two.c` | main loop and signal handler |
| `PageReclaim` | `memstats.c`, the shrinking half of `vmscan.c` | one zone, file pages, order 0 |
| `PageReclaimInv`, `PageReclaimProofs` | | inductive invariant, theorems |
| `Prinfo`, `PrinfoProofs` | `cs2456_test.c` | one call for any family of tasks |
| `MCMutex`, `MCKersync`, `MCGwrr`, `MCManager`, `MCShell`, `MCReclaim`, `MCPrinfo` | | symmetry, views and values for TLC |

Definitions called "Mutant" in a comment are altered forms of the definition
that follows them. They are used by no specification; each stands for a
plausible bug, and each property is known to fail when the original is replaced
by one of them.

### SThreadMutex

`M` and `Q` are the two fields of `sthread_mutex_struct`, `Q` with the same four
fields as `struct queue`. `pc` is where each thread is: `lock_spin` and the like
are the `while(test_and_set(...))` loops, `lock_q`, `unlock_q`, ... the code
after them, `suspended` the read in `sthread_suspend`. `pipe[t]` counts the
messages in the pipe of thread t. `depth` belongs to the clients: how many levels
a thread believes it holds.

Everything a thread does between its test_and_set and `M = 0` concerns data that
no other thread touches meanwhile, so it is one step. The exception is the
outermost unlock, where pop, wake and the clearing of `M` are three steps, since the
woken thread runs from the second one on. The loop that fails its test_and_set
changes nothing and is not a step.

C arithmetic is kept where the code depends on it: `Q_pop` computes
`head + (1 % MAX_Q_SIZE)`, which never reduces `head`; `IntWrap` and `CRem` are
the sum and the remainder of C. A missing return (trylock by the owner) is a
nondeterministic result.

Clients come in three kinds: `Spec` locks, nests and unlocks what it locked;
`SpecTrylock` also calls trylock and believes its 0; `SpecAll` also unlocks what
is not its own and destroys.

### Kersync

One step for each stretch of code under one lock. `count++` and `count--` are a load
and a store, because they happen under different locks. With `SMP = FALSE`
spinlocks are empty and a process runs until it returns, sleeps in `sleep_on`, or
sleeps in `kmalloc` (variable `cpu`). With `SMP = TRUE` processes interleave
at every step. An event is its id; the life of an event ends with `kfree`. The
unlock of the freed `e_lock` at line 177, and a kmalloc that fails, are not modelled.

### Gwrr

The list operations are operators from groups to groups, named like the C
functions; the actions are `schedule()`, the wake-up, `sched_setscheduler` into,
inside and out of the class, `set_user_nice`, `rt_mutex_setprio` and `setgid`.
Everything happens under `rq->lock` with interrupts off, so that each is one step.
Whether the real-time and fair classes have something to run is an input of
`Schedule`. `sched_fork` puts every child in the fair class, so a new task is one
that has not joined yet; a task that exits is one that sleeps and is not woken
again. Two things the code does are kept visible: `freed` (dequeue frees the
`task_struct` it unlinks; the model follows histories in which the memory is not
reused) and `hung` (linking a task that is still linked turns the list into a loop
that misses its head, and `print_structure` never ends; nothing happens
afterwards).

### SThreadManager

A member of `Threads` is a `struct sthread_struct`, the thread on it and its pid.
Clients call create, suspend, wake, `sthread_exit` (by returning) and `exit()`;
each call begins with `sthread_self`, which takes `list_lock` and searches the
list (`pc` = `self`). `mq` is the manager's pipe, `pipe[c]` the wake-ups in a
thread's own. The manager is a program counter `mpc` through its loop: look at the
main thread, reap dead children, read a message, and the steps of `do_create`,
`MSG_THREAD_EXIT` and `MSG_ALL_EXIT`. Its critical sections are single steps that
wait for the lock, except the one around `clone`, during which the new thread
already runs. `mmap`, `pipe`, `malloc` and `clone` may fail; a client may die by a
fault at any point; a client that was sent SIGUSR2 dies at any point after that,
also with the lock. `free()` of a stack that came from `mmap` crashes the manager
or does nothing. A freed record keeps its `next`.

### ShellJobs

The main loop (`pc`) and the handler (`hi`, `hj`: its two loop variables) share
the table. The handler can start before any step of the main loop and runs to its
end; children die at any time. `addjob` is cut at every store that the handler could
see. `waitpid` means what the kernel makes of it, also for the pids 0 and -1 that
the code passes it. An uninitialised `child_status` answers either way. A zombie is
"exited", "killed", or "shot" if the shell itself killed it. A command line is the
number of its commands. An empty line has none and leaves `cmds[0]` as it was, so it
repeats what the line before it did: `cd`, `bg`, `jobs` or `fg`, or (`program`) the way
through `eval_cmd` and `addjob`, which then records the pid of the last pipeline once
more, with no processes. Other text handling is left out.

### PageReclaim

`pg` is the `struct page` of each page with its users, `rc` the place and the locals
of each reclaimer (kswapd or a process in direct reclaim). Steps are the stretches
under one hold of `lru_lock`, cut further where the code works on a page without it:
`ref_cnt` is read in one step (`HoldRead`) and written in another (`HoldWrite`);
`shrink_page_list` is a step per stage; `remove_mapping` makes its two tests in two
steps; the unlocked `num_inactive_to_free` is a load and a store. What the rest of the
kernel does (read in, touch, map, pin, dirty, truncate, end of I/O) is external, and
so are the answers of the rmap and I/O functions and the permissions in
`scan_control`. `RefBit` is what `TestClearPageReferenced` returns for a set bit: -1
on x86, where the answer is the carry flag subtracted from itself (`sbb`), 1 where it
is made a truth value. `Aged` adds it to `ref_cnt` as C does, in an unsigned long:
with -1 a count of 0 becomes the largest and a larger one falls. `touched`,
`deactivated` and `reclaimed` are ghosts. `TimerInactive` changes nothing: the loop
over the inactive list takes its page from the cursor of the loop before
(`memstats.c:85`), which is the list head then; the flags it reads there are padding
of the zone, which is zero, and the page is skipped.

### Prinfo

Initial states are all small families: the siblings in list order, the task among
them, its children, and garbage for uninitialised locals and for the list head
read as a task. The actions are the two loops. The calls run in a kernel that does
not preempt itself, so that the lists do not change meanwhile.

## Runs

| Run | Instance | States | Question |
|---|---|---|---|
| `mutex` | 3 threads, 3 slots, nesting 2 | 9.8 thousand | mutual exclusion, no lost wake-up, order, everybody queued; the inductive invariant, which includes counts, indices and the spinlock; sleepers get the mutex, unlock returns, `FifoMutex` is implemented; deadlock checked |
| `mutex_all` | 3 threads, 2 slots, all operations | 459 thousand (symmetric) | ring buffer and spinlock under misuse and overload |
| `manager_safety` | 2 threads and main, all calls may fail, all may fault and exit | 390 thousand (symmetric) | everybody finds itself, answers are true, nothing freed is followed or left, who may hold `list_lock`, why the manager may abort |
| `manager_live` | 2 threads and main, no failures | 95 thousand | create returns, finished threads are reclaimed, exit ends the process |
| `kersync_up` | 3 processes, 2 ids, 2 calls each | 158 thousand | the calls on a uniprocessor, with liveness |
| `kersync_smp` | 3 processes, 1 id, 2 calls each | 88 thousand (symmetric) | what survives on a multiprocessor |
| `gwrr_queue` | 3 tasks, 2 groups, weight 2 | 66 thousand (symmetric) | runnable tasks are queued once, picks go round, the class is never idle while one of its tasks can run |
| `shell_jobs` | 2 slots, pipelines of 2, 3 forks | 2.6 million | the table at every interruption, the foreground wait |
| `reclaim` | 2 pages, 1 reclaimer, pagevec 2, cluster 2 | 3.7 million | places, counts, statistics, ageing |
| `reclaim_two` | 1 page mapped and written, 2 reclaimers | 299 thousand | isolation, ageing and dirty pages between reclaimers; scans end |
| `prinfo` | families of 3, 2 children, 5 pids | 128 thousand | the right relatives, the loop ends |
| `prinfo_youngest` | as `prinfo` | stops at the violation | the youngest child is the one reported: false, see below |

All runs pass but `prinfo_youngest`, which shows a violation. Some of the properties
are conjunctions of named parts, each with its own comment in its module: `MutexInv`
(`SThreadMutexInv`), `ManagerInv` (types, shape of the list, holder of `list_lock`, no
dangling record, nothing left behind, cause of an abort), `ListInv` (types, ids
bounded and given out once, listed events are open, one closer, who may hold
`list_lock`), `JobTable` (types, free slots have no processes, one slot with processes
per pid, pids of one pipeline), `PageInv` (types, one home, exact reference counts),
`Accounting` (list lengths, deactivated and freed pages) and `RelativesReported`
(children, neighbours). `CountMatchesDepth`, `IndexInBounds` and `SpinlockReleased`
follow from `MutexInv`, as the theorems show, and have no run of their own.

Bounds. Three threads are an owner, a first waiter and somebody behind it, whose order
can be wrong. The head goes around the ring without end. Queues of two slots with
three threads make the full queue happen (`mutex_all`; in `mutex` there are as many
slots as threads). Nesting of two tells a nested from an outermost unlock. Three
processes are a waiter, a signaller and a closer; two ids make an open fail at the
limit while another event exists. Weight two exhausts and refills a round. Two threads
besides main make one that is created while another ends, and one that creates threads
itself; one suspend per thread leaves a wake-up to be confused with an answer. Three
forks in two slots make a pipeline next to a single command, a reused slot, and a
table that is full. Two pages fill a pagevec, so that `lru_lock` is dropped in the
middle of a list, and leave a list shorter than the scan; `ref_cnt` up to 2 has a
largest value, a count that can fall and 0, and statistics modulo 2 (`Wrap`) tell one
more from one less. A second reclaimer needs only one page to compete for. Families of
three with five pids put the task first, last and in the middle, in and out of pid
order, with the garbage below, between and above. Deadlock is not checked where the
instance ends by its bounds (calls used up, head at its bound), where the system ends
(the process, the shell, one call of prinfo), where a full queue or a stuck spinlock
really stops everybody (`mutex_all`), and after `hung`; it is checked in `mutex`.

`mutex` uses the view `HeadView`, which keeps `head` modulo the queue size.
Nothing but the bound `MaxHead` reads `head` otherwise, and states that agree on
the view have the same future, so a run with a bound far away (1000) explores the
behaviours without the bound.

Fairness. `LibraryStep` is weakly fair for each thread: threads are Linux tasks,
which the kernel schedules. That includes the spin, which is not strongly fair:
nothing in `test_and_set` makes a rival lose. `UnlockCall` is weakly fair and the
outermost unlock strongly fair: clients leave their critical sections, as the
loops of `sample.c` and `test.c` do, however often they nest. In `Kersync` the
steps inside the kernel are weakly fair; no process is obliged to make a call. In
`SThreadManager` the manager, the library code of each thread and the arrival of
signals are weakly fair; what client code calls is not. In `ShellJobs` handler and
main loop are weakly fair and foreground commands end; background commands need
not, and the user types what he likes. In `PageReclaim` the steps of a reclaimer are
strongly fair: `lru_lock` is a ticket spinlock on x86 kernels of this age, so a
waiter gets it after those before it; nothing else moves fairly. `Prinfo` is one
sequential call.

### Where the code does not keep what it says

The following statements of comments and documents are false of the code. Each is
a definition of its module, so the counterexample is reproduced by checking that
definition under the specification and constants named.

* `MutualExclusion` under `SpecTrylock` (2 threads): on a busy mutex trylock queues
  its caller and returns 0, which callers take for success.
* `WaiterIsQueued` under `Spec` with fewer slots than threads: a locker that finds
  the queue full sleeps unqueued; no unlock can wake it.
* `SpinlockReleased` under `SpecAll`: destroy, and unlock by a thread that is not
  the owner, return with `M` set.
* `NoDanglingUser` under `KSpec` with `SMP = TRUE`, 3 processes with 3 calls: an
  increment under `list_lock` and a decrement under `e_lock` overlap, one is lost,
  and close frees an event that is in use.
* `NoSleeperOnClosed` under `KSpec` with `SMP = TRUE`: wait releases `e_lock`
  before it joins the wait queue.
* `DeactivatedIsRemoved` under `GSpec`: dequeue looks under the gid of the task,
  which is not always where the task is.
* `NeverNotFound` under `MSpec` (`sthread.c:187`, "shouldn't happen"): `exit()` by a
  thread other than main makes the manager look for the main thread in front of
  itself, and abort. `AbortCause` shows that this is the only way.
* `SignalSpreads` under `MFairSpec` with `Faulty` not empty (`sthread.c:272`): a
  thread that dies by a signal is noticed only when a message arrives, and the
  manager may sleep in `read` for ever.
* `ForegroundUnharmed` under `SSpec` (`hw1/README:9`): SIGCHLD of one process of a
  pipeline makes the handler read an uninitialised status for another one that
  still runs, and kill it.
* `OneSlotPerPid` under `SSpec` (`part_two.c:368`, `:396`: "the" job of a pid): an empty
  line after a command records its pid again. `deletejob` takes the first
  of the slots, whichever was meant; a slot without processes is otherwise never
  deleted, and such slots fill the table.
* `QueuedUnderOwnGid` under `GSpec` (`hw4/demo/Jane.c:32` gives its group a weight of its
  own): the test for NULL at `sched_gwrr.c:49` is never true for a list with a group in
  it, so a task of any other gid is put into that group. The earlier version makes the
  new group (`hw4/1105/sched_gwrr.c:23`).
* `AccessAddsOne` under `PSpec` with `RefBit = -1` (`hw5/README.txt:29-33`: the
  reference bit is added to the counter, which stays at its largest value): the bit
  reads as -1, so one access turns 0 into the largest value and the next ones lower
  it.
* `YoungestChildReported` under `RSpec`, run `prinfo_youngest` (`prinfo.h:7`: "process id of
  youngest child"): `youngest_child_pid` is the smallest pid, which is the child born
  first while pids have not wrapped around.
* `FreedCounted` under `PSpec` with two reclaimers and `Wrap` above 1
  (`hw5/README.txt`: "We accumulate this number"): both read `num_inactive_to_free`
  before either writes.

Seen while modelling: `head` overflows after 2^31 outermost unlocks (`sync.c:112`); a
nested level can be given back by a thread that does not hold the mutex
(`sync.c:352`); a lock call can lose the spin for ever (`sync.c:154`); an event
closed while in use is never freed (`kersync.c:173`); an open that fails keeps
`list_lock` (`kersync.c:48`); close unlocks
`e_lock` of the event it has freed (`kersync.c:177`), and open does not look at the
result of `kmalloc` (`kersync.c:49`); dequeue frees the `task_struct` of a task that
only sleeps (`sched_gwrr.c:91`), and on a second processor the picked task could be
picked again (`sched_gwrr.c:184`); two GWRR tasks
that take turns sleeping can keep a third from being picked; priority inheritance
takes a GWRR task out of its class for good; the group weight system calls that the
demo programs use do not exist; inactive pages are never aged (`memstats.c:85`); a page
that is not mapped is deactivated whatever its `ref_cnt`, and `ref_cnt` outlives the
page; `waitfg` reads pids of a job that the handler may have cleared, and then
signals process 0 (`part_two.c:470`); two jobs can get the same id
(`part_two.c:347`); `youngest_child_pid` of prinfo is uninitialised without children
(`cs2456_test.c:77`); a pid that no task has is followed as NULL
(`cs2456_test.c:24`); a task
with the largest pid of its family is told a younger sibling that is not one.

## Proofs

Every theorem holds for every value of the constants that satisfies the named
assumption of its module (`MutexConstants`, `HeadFits`, `KersyncConstants`, ...), which
TLC evaluates on every run, and the hypotheses stated here. In each component one
invariant is shown to hold initially and to be kept by every action, one lemma per
action, and the results follow from it. Where the invariant is not itself a property
of a run, TLC checked it on the instances of the runs before it was proved.

### SThread mutex

Assumptions: the queue has a slot, the null handle is not a thread
(`MutexConstants`); `head` stays below the overflow (`HeadFits`).

* `AllTypeCorrect`: `SpecAll => []TypeOK`. The ring buffer never holds more than
  its size, whatever clients do.
* `MutexCorrect`: `Spec => []MutexInv`, and from it `MutualExclusionHolds`,
  `CountIsDepth`, `NoLostWakeup`, `SpinlockIsReleased`, `IndicesInBounds`.
* `FifoImplemented`: `Spec => ImplementsFifoSafety`, the refinement of `FifoMutex`
  without its fairness. `NobodyOvertakes` is the action property `NoOvertaking`.
* `WaitersAreQueued`: `WaiterIsQueued`, for a finite number of threads that is at
  most the number of slots. With one thread more it is false (see above).
* `SpinlockIsExclusive`: at most one thread is inside the spinlock, also under
  `SpecAll`.
* `QueueKeepsShape`: `QueueShape` under `SpecAll`, for finitely many threads with
  `MaxHead + Cardinality(Threads) + MAX_Q_SIZE <= INT_MAX`. The bound on head is
  tested when unlock is called, and every unlock under way may still pop once; that
  is `HeadBound`, and why the number of threads appears in it.

Mutual exclusion is not inductive: a thread enters its critical
section by reading a message, and nothing in the property says who may have one.
`MutexInv` adds what connects the four pieces of state. `SpinInv`: `M` is 1
exactly when one thread is between test_and_set and release. `RingInv`: `tail` is
`head + size` reduced, so `Line`, the ring unrolled from `head`, is the queue.
`LineInv`: queued threads are different, and all but the first sleep. `OwnerInv`:
an owner is `Line[1]` and its count is its depth. `TokenInv`: a message exists only
in the pipe of a sleeping `Line[1]`, once. `WakeInv`: while an unlock is about to
wake, no message exists. `ServedInv`: `Line[1]` owns the mutex, has a message, or is
about to get one. Full queues are allowed: a thread that was not queued sleeps
without a message and is in nobody's way, which is why the theorem needs no bound on
the number of threads.
The arithmetic is confined to lemmas about remainders (a push and a pop seen from
`Line`). The refinement maps `Line` to the abstract queue: a successful push is an
append, the pop of an outermost unlock a tail, and every other step a
change of the abstract program counter or a stutter.

### Kernel events

* On any kernel: `ListCorrect` (`ListInv`).
* For `SMP = FALSE`: `UsersCorrect`, and from it `CountIsExact`, `NobodyDangles` and
  `NobodySleepsOnClosed`. The hypothesis is needed: with `SMP = TRUE` the last two
  are false, by the counterexamples above, and so is the count.

`ListInv` needs `IdBound` (opens that overlap in `kmalloc` push `next_event_id` past
the limit, by at most one id for each of them) and `FreshIds`, from which an event
that open creates is not one that somebody uses. `UsersInv` adds `UniInv`: a process
between two steps of the kernel has the processor, so that the count it loaded
and the list entry it found are still current. The count as a cardinality changes by
one with the process that enters or leaves the set of users. `KersyncConstants` asks
for a finite set of processes, without which the count is not a number.

### SThread manager

`ManagerCorrect`: `MSpec => []ManagerIInv`, for any set of threads, any of the four
calls failing, any of the clients faulting. It gives `RecordsAreKept` (`ManagerInv`),
`SelfIsFound` and `AnswersAreTrue`.

`SThreadManagerInv` ties the list to the program counters: a listed record is
allocated and has its pid, except between `CreateAdd` and `StorePid` (`ListedInv`); a
thread is listed from clone until it is waited for (`PresentInv`); the lock covers
clone (`LockInv`). The rest is about what is on its way: a client has at most one
message or one wake-up outstanding, since its one pipe serves suspend and the
answers (`WakeInv`); the messages in the pipe (`QueueInv`) and the one being served
(`ServeInv`, `CreateInv`) come from clients that wait for them, with a record
that nobody else has (`NewInv`); an answer tells how the creation ended
(`AnswerInv`). `ReapInv` and `RestInv` say of the manager's two loops that free
records that each is visited once, before it is freed. The only abort that the
invariant leaves is the one of `AbortCause`.

### Shell job control

`ShellCorrect`: `SSpec => []ShellInv`, for every table size, pipeline length and number
of forks. It gives `JobTableIsSound` (`JobTable`) and `ForegroundIsWaitedFor`, the
action property `ForegroundWaits`.

`JobTable` speaks of what the handler may see; `ShellInv` adds why it stays so. The
pids of a pipeline that is being forked are newer than every job, and follow each
other (`ForkInv`); the pid that addjob takes after an empty line is an old one, with a
length of 0, so that of the slots with one pid at most one has processes
(`OneQueuePerPid`). While addjob runs,
each store it has made and each it has not made yet is known (`AddInv`): the handler
cannot delete the job of a pipeline before its length is set; one it deletes after
that, and one of an empty line, which it may delete at any point, stays without a pid
and without processes, although addjob goes on writing to its slot. A child that was
waited for stays "gone", which carries the foreground wait from one child to the
next over any number of interruptions (`ChildInv`). `FgInv` keeps the loop of fg
inside the array. The loops
that look for the first free slot and the largest jid are definitions by
`CHOOSE`; that they find one is shown by the least counterexample (`Least`,
`Greatest`), since the prover cannot do inductions.

### GWRR queue

`GwrrCorrect`: `GSpec => []GwrrInv`, for any set of tasks, gids and default weight. It
gives `GwrrTypeOK`, `NeverIdle` (`WorkConserving`), `RunnableIsQueued`
(`RunnableIsListed`) and `PicksRoundRobin`, the action property `RoundRobin`.

The list holds one group at most, with tasks in it, none of them twice (`Sound`), and
every runnable task of the class is in it. That is not clear from `dequeue`, which
looks for the task under its present gid and may miss it: the task stays in the list,
and its next enqueue either finds it there (and hangs) or finds a list without it.
That there is one group, which `QueuedUnderOwnGid` shows not to be meant, is what
makes both results true of this code: the group is never empty, and after a refill its
task can be picked. The lemmas say what the operators on lists do: linking, unlinking,
and rotating the picked task to the end, which moves every other one forward.

### Page ageing and reclaim

`ReclaimCorrect`: `PSpec => []ReclaimIInv`, for any finite set of reclaimers, any set
of pages, lists and pagevecs of any length, any largest `ref_cnt`, and either value of
a set reference bit (`ReclaimConstants`). It gives `PagesAccounted` (`PageInv`),
`WritesKept` (`NoLostWrite`), `AgesKept` (`AgeKept`), `TouchesRemembered`
(`TouchRemembered`), and `CountsAgree` (the first two parts of `Accounting`).
`MemstatsRight` is all of `Accounting`, under the hypothesis that there is one
reclaimer. The hypothesis is needed: with two reclaimers `FreedCounted` is false (see
above). Its invariant is `FreedKept`, checked by TLC with one reclaimer.

That a page has one home is not inductive, because a step knows only its own
lists. `PageReclaimInv` says of each reclaimer which of its lists may hold pages at
which step (`Stages`) and that they share none (`Neat`); of a page, that its flags name
its list of the zone (`ListsInv`), that an isolated page has `PG_lru` clear and one
isolator (`OwnedInv`), which of the private lists hold active pages (`FlagsInv`), and that
a page with a reference is somewhere (`KeptInv`). `LockInv` says that pages are put
back only under `lru_lock`, so that `CountInv` may allow one reclaimer, its
holder, a batch of pages that are linked and not yet added to the zone's counters.
`TreeInv` and `CacheInv` carry the first test of `remove_mapping` to the second: the
count it saw leaves no room for anybody who could dirty the page, since the count is
exact.

The exact count is a sum over the reclaimers of what each holds, isolated pages and
slots of its pagevec. `Total` is the size of a disjoint union, and the lemmas
say that it changes by what one summand changes, and is at least two summands
together. A list taken apart by `Only` (`isolate_lru_pages`) is a recursive function;
the prover needs its members and the absence of repetitions only, and those are
stated by an invariant over its prefix (`OnlyIs`) that is shown by the least
counterexample. Each action then has a lemma that names what it changes: the
reclaimer's locals, at most one page, at most one list. `OnePageStep`, `PutStep`,
`IsolateStep`, `ControlStep` and `PageStep` say that this is enough.

### prinfo

`PrinfoCorrect`: `RSpec => []PrinfoInv`, for families of any size in any order, and
whatever the head of the ring is read as; from it `RelativesAreReported`
(`RelativesReported`).

`PrinfoInv` is the two loop invariants. Of the children before the cursor the locals
hold the smallest pid and the time of all (`ChildrenInv`; the time of a set of tasks
is the number of its ticks, so that adding a task adds its time). Of the part of
the ring from the task to the cursor (`Visited`, in one piece or two around the
head) they hold the two candidates (`SiblingsInv`). Back at the task that part is
the whole ring. While the list is in pid order the candidates are the neighbours;
a head read as a pid between the two is the only thing that can displace them, which is
the exception in `NeighboursReported`.

### Only model-checked

Liveness, and the fairness half of `ImplementsFifo`: fairness and `ENABLED` are outside
the prover's reach. These are the properties `ImplementsFifo`, `SleeperGetsLock`,
`UnlockReturns`, `CreateReturns`, `FinishedIsReclaimed`, `ExitEnds`, `ClosedIsLeft`,
`ForegroundReturns`, `ScanEnds` and `CallReturns`. Every other property that a run
checks is stated by a theorem, `Accounting` for one reclaimer.

## Plan

What the section "Not modelled" does not name is modelled, and its safety is proved.
What could come next is a model of more of the Linux code around the changes
(`balance_pgdat` and direct reclaim around `shrink_zone`), and liveness, when the
prover supports it.

## Not modelled

* The Linux code carried for the build, which is nine tenths of the lines of the
  repository: `hw4/sched.c` (and its copy in `hw4/1105`) beyond the paths into the GWRR
  class, `sched.h`, `sched_fair.c`, `sched_rt.c` and their like, `hw5/main.c`, and
  of `hw5/vmscan.c` swap, buffers, lumpy reclaim, slab shrinking, suspend, zone
  reclaim and the loops of kswapd and direct reclaim around `shrink_zone`. It
  carries none of the marks this repository puts on its changes, and a model of it
  would be a model of Linux.
* The monitor: one loop that parses `/proc` around one subtraction.
* The measuring programs: their result is a time.
* Earlier versions and backups of modelled files; test programs, except as the
  source of the clients' behaviour.
* The text interface of the shell (parsing, pipes, redirection, the end of the input); the
  memory allocator behind `free` and `kfree`, so that nothing is said of writes into
  freed memory; on the prinfo call, tasks that come and go during it on a
  multiprocessor, and a pid that no task has.
