--------------------------- MODULE SThreadManager ---------------------------
(***************************************************************************)
(* The thread manager of the SThread library                               *)
(* (src/hw3/personal/SThread/sthread.c): threads ask a manager thread, over *)
(* one pipe, to create a thread, to end one, or to end the process; each   *)
(* thread has a pipe of its own, on which it suspends and is woken.        *)
(*                                                                         *)
(* A member of Threads stands for one struct sthread_struct that malloc    *)
(* hands out, for the thread that runs on it and for that thread's pid;    *)
(* memory and pids are not reused.  A freshly allocated record holds no    *)
(* pid of a thread (NoPid).  A critical section of list_lock that the      *)
(* manager runs by itself is one step that waits for the lock: everybody   *)
(* else looks at the list under the lock only.  The section around clone   *)
(* is two steps, because the new thread runs during it.                    *)
(***************************************************************************)
EXTENDS Naturals, Sequences, FiniteSets

CONSTANTS
    Threads,      \* the records sthread_create may allocate
    Main,         \* main_thread
    Manager,      \* manager_thread
    NoPid,        \* a pid field that was never stored
    Failed,       \* the -1 of a clone that failed
    Failing,      \* the calls that may fail: "mmap", "pipe", "malloc", "clone"
    Faulty,       \* the threads that may be killed by a fault in their own code
    Exiters,      \* the threads that may call exit()
    MaxSuspends   \* bound: calls of sthread_suspend per thread

Clients == Threads \cup {Main}
Records == Threads \cup {Main, Manager}

ASSUME ManagerConstants ==
    /\ Main \notin Threads /\ Manager \notin Threads /\ Main # Manager
    /\ NoPid \notin Records /\ Failed \notin Records /\ NoPid # Failed
    /\ Failing \subseteq {"mmap", "pipe", "malloc", "clone"}
    /\ Faulty \subseteq Clients
    /\ Exiters \subseteq Clients
    /\ MaxSuspends \in Nat

VARIABLES
    list,       \* the thread list from list_hd on
    list_lock,  \* who set list_lock, or NoPid
    mem,        \* malloc's view of a record: "none", "alloc" or "freed"
    held,       \* what else a record owns: "stack", "pipe", "ss"
    pid,        \* the field pid
    status,     \* the field status: 0 or 1 (for -1)
    pipe,       \* wake-ups in the pipe of a record
    mq,         \* messages in the pipe of the manager
    pc,         \* where a client is
    op,         \* the library call that waits for sthread_self
    self,       \* what sthread_self returned to it
    new,        \* newthr of its sthread_create
    owed,       \* the threads that called sthread_suspend and were not woken yet
    nsusp,      \* calls of sthread_suspend so far
    killed,     \* the threads a kill() was sent to
    signalled,  \* the dead threads with WIFSIGNALED
    mpc,        \* where the manager is
    msg,        \* the message it is serving
    mp,         \* its p
    rest        \* the list from its p on, in the second loop of MSG_ALL_EXIT

heapVars   == <<mem, held, pid, status>>
clientVars == <<op, self, new, owed, nsusp>>
signalVars == <<killed, signalled>>
managerVars == <<msg, mp, rest>>
mvars == <<list, list_lock, heapVars, pipe, mq, pc, clientVars, signalVars,
           mpc, managerVars>>

Message(type, caller, thread) ==
    [type |-> type, caller |-> caller, thread |-> thread]
NoMessage == Message("none", NoPid, NoPid)

Dead(c)  == pc[c] \in {"zombie", "reaped"}
Alive(c) == pc[c] # "none" /\ ~Dead(c)

-----------------------------------------------------------------------------
(***************************************************************************)
(* The thread list.                                                        *)
(***************************************************************************)
Unlocked == list_lock = NoPid

\* threadlist_findbypid: the first record with that pid, NoPid for NULL.
FindByPid(q) ==
    LET hits == {i \in 1..Len(list) : pid[list[i]] = q}
    IN  IF hits = {} THEN NoPid
        ELSE list[CHOOSE i \in hits : \A j \in hits : i <= j]

\* The record becomes the head of the list.
threadlist_add(t) == list' = <<t>> \o list

\* The records in front of the manager, where threadlist_del looks.
InFront == {i \in 1..Len(list) : \A j \in 1..i : list[j] # Manager}

DelHits(t) == {i \in InFront : pid[list[i]] = pid[t]}
Without(s, i) == SubSeq(s, 1, i - 1) \o SubSeq(s, i + 1, Len(s))

\* threadlist_del, when it finds the record.
threadlist_del(t) ==
    list' = Without(list,
                    CHOOSE i \in DelHits(t) : \A j \in DelHits(t) : i <= j)

\* Mutant: the record is freed and stays in the list.
ThreadDeallocKeepsRecord(t, next) ==
    /\ Unlocked /\ DelHits(t) # {}
    /\ mem' = [mem EXCEPT ![t] = "freed"]
    /\ held' = [held EXCEPT ![t] = @ \ {"stack", "pipe"}]
    /\ mpc' = next
    /\ UNCHANGED <<list, list_lock>>
\* thread_dealloc, then on to "next".  A pid that is not in front of the
\* manager ends in abort(), with list_lock set.
thread_dealloc(t, next) ==
    /\ Unlocked
    /\ IF DelHits(t) = {}
       THEN /\ list_lock' = Manager
            /\ mpc' = "aborted"
            /\ UNCHANGED <<list, mem, held>>
       ELSE /\ threadlist_del(t)
            /\ mem' = [mem EXCEPT ![t] = "freed"]
            /\ held' = [held EXCEPT ![t] = @ \ {"stack", "pipe"}]
            /\ mpc' = next
            /\ UNCHANGED list_lock

sthread_wake(t) == pipe' = [pipe EXCEPT ![t] = @ + 1]

-----------------------------------------------------------------------------
(***************************************************************************)
(* The threads.  sthread_create, sthread_suspend and exit() all begin with *)
(* sthread_self (pc "self"); pc is "user" between two calls.               *)
(***************************************************************************)
\* start_thread up to the call of the thread's main routine.
StartThread(t) ==
    /\ pc[t] = "start"
    /\ held' = [held EXCEPT ![t] = @ \ {"ss"}]
    /\ pc' = [pc EXCEPT ![t] = "user"]
    /\ UNCHANGED <<list, list_lock, mem, pid, status, pipe, mq, clientVars,
                   signalVars, mpc, managerVars>>

\* Bound: a call of sthread_create has a record left to allocate.
RecordLeft ==
    Cardinality({c \in Clients : pc[c] \in {"self", "create"} /\ op[c] = "create"})
        < Cardinality({t \in Threads : mem[t] = "none"})

\* The calls of a thread; self[c] = NoPid until sthread_self has answered.
\* A thread that suspends has first told somebody to wake it (sync.c queues
\* it in the mutex): it is owed one wake-up.
Call(c, o) ==
    /\ pc[c] = "user"
    /\ o = "create" => RecordLeft
    /\ o = "suspend" => nsusp[c] < MaxSuspends
    /\ o = "exit" => c \in Exiters
    /\ pc' = [pc EXCEPT ![c] = "self"]
    /\ op' = [op EXCEPT ![c] = o]
    /\ self' = [self EXCEPT ![c] = NoPid]
    /\ owed' = IF o = "suspend" THEN owed \cup {c} ELSE owed
    /\ nsusp' = IF o = "suspend" THEN [nsusp EXCEPT ![c] = @ + 1] ELSE nsusp
    /\ UNCHANGED <<list, list_lock, heapVars, pipe, mq, new, signalVars,
                   mpc, managerVars>>

\* sthread_self: threadlist_lock takes the lock ...
SelfLock(c) ==
    /\ pc[c] = "self" /\ Unlocked
    /\ list_lock' = c
    /\ UNCHANGED <<list, heapVars, pipe, mq, pc, clientVars, signalVars,
                   mpc, managerVars>>

\* ... and the search ends with threadlist_unlock.
SelfFind(c) ==
    /\ pc[c] = "self" /\ list_lock = c
    /\ self' = [self EXCEPT ![c] = FindByPid(c)]
    /\ list_lock' = NoPid
    /\ pc' = [pc EXCEPT ![c] = op[c]]
    /\ UNCHANGED <<list, heapVars, pipe, mq, op, new, owed, nsusp, signalVars,
                   mpc, managerVars>>

\* sthread_create from malloc to the write to the manager.
CreateRequest(c) ==
    /\ pc[c] = "create"
    /\ \E t \in Threads :
          /\ mem[t] = "none"
          /\ mem' = [mem EXCEPT ![t] = "alloc"]
          /\ new' = [new EXCEPT ![c] = t]
          /\ mq' = Append(mq, Message("create", self[c], t))
    /\ pc' = [pc EXCEPT ![c] = "answer"]
    /\ UNCHANGED <<list, list_lock, held, pid, status, pipe, op, self, owed,
                   nsusp, signalVars, mpc, managerVars>>

\* sthread_create without memory: return -1.
CreateNoMemory(c) ==
    /\ pc[c] = "create"
    /\ "malloc" \in Failing
    /\ pc' = [pc EXCEPT ![c] = "user"]
    /\ UNCHANGED <<list, list_lock, heapVars, pipe, mq, clientVars,
                   signalVars, mpc, managerVars>>

\* _sthread_self_suspend of c, which then goes on to "next".
Read(c, next) ==
    /\ pipe[self[c]] > 0
    /\ pipe' = [pipe EXCEPT ![self[c]] = @ - 1]
    /\ pc' = [pc EXCEPT ![c] = next]

\* sthread_create reads its answer and looks at its own status.
CreateAnswer(c) ==
    /\ pc[c] = "answer"
    /\ Read(c, "user")
    /\ mem' = IF status[self[c]] # 0 THEN [mem EXCEPT ![new[c]] = "freed"]
              ELSE mem
    /\ UNCHANGED <<list, list_lock, held, pid, status, mq, clientVars,
                   signalVars, mpc, managerVars>>

SuspendReturns(c) ==
    /\ pc[c] = "suspend"
    /\ Read(c, "user")
    /\ UNCHANGED <<list, list_lock, heapVars, mq, clientVars, signalVars,
                   mpc, managerVars>>

\* A thread wakes one that has asked for it.
Wake(c, t) ==
    /\ pc[c] = "user" /\ t \in owed
    /\ sthread_wake(t)
    /\ owed' = owed \ {t}
    /\ UNCHANGED <<list, list_lock, heapVars, mq, pc, op, self, new, nsusp,
                   signalVars, mpc, managerVars>>

\* The main routine returns to start_thread, which reports to the manager.
Return(t) ==
    /\ pc[t] = "user" /\ t \in Threads
    /\ mq' = Append(mq, Message("thread_exit", t, NoPid))
    /\ self' = [self EXCEPT ![t] = t]
    /\ pc' = [pc EXCEPT ![t] = "leave"]
    /\ UNCHANGED <<list, list_lock, heapVars, pipe, op, new, owed, nsusp,
                   signalVars, mpc, managerVars>>

\* cleanup, on behalf of exit().
Cleanup(c) ==
    /\ pc[c] = "exit"
    /\ mq' = Append(mq, Message("all_exit", self[c], NoPid))
    /\ pc' = [pc EXCEPT ![c] = "leave"]
    /\ UNCHANGED <<list, list_lock, heapVars, pipe, clientVars, signalVars,
                   mpc, managerVars>>

\* The end of start_thread and of cleanup: woken, the thread exits.
Leave(c) ==
    /\ pc[c] = "leave"
    /\ Read(c, "zombie")
    /\ UNCHANGED <<list, list_lock, heapVars, mq, clientVars, signalVars,
                   mpc, managerVars>>

\* A signal of kill() arrives, wherever the thread is: handle_cancel for
\* SIGUSR2, the default action for the others.
Cancel(c) ==
    /\ c \in killed /\ Alive(c)
    /\ pc' = [pc EXCEPT ![c] = "zombie"]
    /\ owed' = owed \ {c}
    /\ UNCHANGED <<list, list_lock, heapVars, pipe, mq, op, self, new, nsusp,
                   signalVars, mpc, managerVars>>

\* A thread dies of a fault in its own code.
Fault(c) ==
    /\ c \in Faulty /\ pc[c] = "user"
    /\ pc' = [pc EXCEPT ![c] = "zombie"]
    /\ signalled' = signalled \cup {c}
    /\ UNCHANGED <<list, list_lock, heapVars, pipe, mq, clientVars, killed,
                   mpc, managerVars>>

-----------------------------------------------------------------------------
(***************************************************************************)
(* The manager.  manager_main is a loop: is the main thread still there,   *)
(* reap_children, read a message, serve it.                                *)
(***************************************************************************)
Everybody == {list[i] : i \in InFront}

CheckMain ==
    /\ mpc = "loop"
    /\ IF pc[Main] = "zombie"
       THEN /\ killed' = killed \cup Everybody
            /\ mpc' = "gone"
       ELSE /\ mpc' = "reap"
            /\ UNCHANGED killed
    /\ UNCHANGED <<list, list_lock, heapVars, pipe, mq, pc, clientVars,
                   signalled, managerVars>>

Zombies == {t \in Threads : pc[t] = "zombie"}

\* reap_children: waitpid finds a dead child ...
Reap ==
    /\ mpc = "reap"
    /\ \E t \in Zombies :
          /\ mp' = t
          /\ pc' = [pc EXCEPT ![t] = "reaped"]
    /\ mpc' = "reap_find"
    /\ UNCHANGED <<list, list_lock, heapVars, pipe, mq, clientVars,
                   signalVars, msg, rest>>

\* ... or none.
ReapNone ==
    /\ mpc = "reap" /\ Zombies = {}
    /\ mpc' = "read"
    /\ UNCHANGED <<list, list_lock, heapVars, pipe, mq, pc, clientVars,
                   signalVars, managerVars>>

\* The record of the dead child.
ReapFind ==
    /\ mpc = "reap_find" /\ Unlocked
    /\ mp' = FindByPid(mp)
    /\ mpc' = IF FindByPid(mp) = NoPid THEN "aborted" ELSE "reap_dealloc"
    /\ UNCHANGED <<list, list_lock, heapVars, pipe, mq, pc, clientVars,
                   signalVars, msg, rest>>

\* It is given back; if a signal killed the thread, everybody dies of it.
ReapDealloc ==
    /\ mpc = "reap_dealloc"
    /\ thread_dealloc(mp, IF mp \in signalled THEN "reap_kill" ELSE "reap")
    /\ UNCHANGED <<pid, status, pipe, mq, pc, clientVars, signalVars,
                   managerVars>>
ReapKill ==
    /\ mpc = "reap_kill"
    /\ killed' = killed \cup Everybody \cup {Main}
    /\ mpc' = "gone"
    /\ UNCHANGED <<list, list_lock, heapVars, pipe, mq, pc, clientVars,
                   signalled, managerVars>>

\* The next message; do_create begins by clearing the caller's status.
ReadMessage ==
    /\ mpc = "read" /\ mq # <<>>
    /\ msg' = Head(mq)
    /\ mq' = Tail(mq)
    /\ mpc' = Head(mq).type
    /\ status' = IF Head(mq).type = "create"
                 THEN [status EXCEPT ![Head(mq).caller] = 0] ELSE status
    /\ UNCHANGED <<list, list_lock, mem, held, pid, pipe, pc, clientVars,
                   signalVars, mp, rest>>

\* do_create gets a stack, a pipe and the start_struct and lists the record.
CreateAdd ==
    /\ mpc = "create" /\ Unlocked
    /\ held' = [held EXCEPT ![msg.thread] = {"stack", "pipe", "ss"}]
    /\ threadlist_add(msg.thread)
    /\ mpc' = "create_clone"
    /\ UNCHANGED <<list_lock, mem, pid, status, pipe, mq, pc, clientVars,
                   signalVars, managerVars>>

\* Mutant: status is not set.
CreateOutForgetsStatus == mpc' = "create_wake" /\ UNCHANGED status
\* create_out.
CreateOut ==
    /\ status' = [status EXCEPT ![msg.caller] = 1]
    /\ mpc' = "create_wake"

\* free() of the stack, which came from mmap and not from malloc: either the
\* manager crashes in it, or nothing happens and the stack stays mapped.
FreeStack == CreateOut \/ (mpc' = "crashed" /\ UNCHANGED status)

\* The failures before the record is in the list.
CreateNoStack ==
    /\ mpc = "create" /\ "mmap" \in Failing
    /\ CreateOut
    /\ UNCHANGED <<list, list_lock, mem, held, pid, pipe, mq, pc, clientVars,
                   signalVars, managerVars>>
CreateNoPipe ==
    /\ mpc = "create" /\ Failing \cap {"pipe", "malloc"} # {}
    /\ held' = [held EXCEPT ![msg.thread] = {"stack"}]
    /\ FreeStack
    /\ UNCHANGED <<list, list_lock, mem, pid, pipe, mq, pc, clientVars,
                   signalVars, managerVars>>

\* Mutant: clone without list_lock.
CloneUnlocked ==
    /\ mpc = "create_clone" /\ Unlocked
    /\ mpc' = "create_pid"
    /\ pc' = [pc EXCEPT ![msg.thread] = "start"]
    /\ UNCHANGED <<list, list_lock, heapVars, pipe, mq, clientVars, signalVars,
                   managerVars>>
\* clone, with list_lock held until its result is stored.
Clone ==
    /\ mpc = "create_clone" /\ Unlocked
    /\ list_lock' = Manager
    /\ \/ /\ pc' = [pc EXCEPT ![msg.thread] = "start"]
          /\ mpc' = "create_pid"
       \/ /\ "clone" \in Failing
          /\ mpc' = "create_nopid"
          /\ UNCHANGED pc
    /\ UNCHANGED <<list, heapVars, pipe, mq, clientVars, signalVars,
                   managerVars>>

StorePid ==
    /\ mpc \in {"create_pid", "create_nopid"}
    /\ pid' = [pid EXCEPT ![msg.thread] =
                  IF mpc = "create_pid" THEN msg.thread ELSE Failed]
    /\ list_lock' = NoPid
    /\ mpc' = IF mpc = "create_pid" THEN "create_wake" ELSE "create_undo"
    /\ UNCHANGED <<list, mem, held, status, pipe, mq, pc, clientVars,
                   signalVars, managerVars>>

\* create_listdel and what follows it.
CreateUndo ==
    /\ mpc = "create_undo" /\ Unlocked
    /\ threadlist_del(msg.thread)
    /\ held' = [held EXCEPT ![msg.thread] = {"stack"}]
    /\ FreeStack
    /\ UNCHANGED <<list_lock, mem, pid, pipe, mq, pc, clientVars,
                   signalVars, managerVars>>

\* The end of a message: back to the top of the loop.
Done == msg' = NoMessage /\ mp' = NoPid

\* Mutant: the new thread is woken, not the caller.
CreateWakesThread ==
    /\ mpc = "create_wake"
    /\ sthread_wake(msg.thread)
    /\ mpc' = "loop"
    /\ Done
    /\ UNCHANGED <<list, list_lock, heapVars, mq, pc, clientVars, signalVars,
                   rest>>
CreateWake ==
    /\ mpc = "create_wake"
    /\ sthread_wake(msg.caller)
    /\ mpc' = "loop"
    /\ Done
    /\ UNCHANGED <<list, list_lock, heapVars, mq, pc, clientVars, signalVars,
                   rest>>

\* Mutant: the thread is not woken.
ThreadExitSilent ==
    /\ mpc = "thread_exit"
    /\ mpc' = "thread_exit_wait"
    /\ UNCHANGED <<list, list_lock, heapVars, pipe, mq, pc, clientVars,
                   signalVars, managerVars>>
\* MSG_THREAD_EXIT: wake the thread, wait for its death, deallocate it.
ThreadExitWake ==
    /\ mpc = "thread_exit"
    /\ sthread_wake(msg.caller)
    /\ mpc' = "thread_exit_wait"
    /\ UNCHANGED <<list, list_lock, heapVars, mq, pc, clientVars, signalVars,
                   managerVars>>
ThreadExitWait ==
    /\ mpc = "thread_exit_wait"
    /\ Dead(msg.caller)
    /\ pc' = [pc EXCEPT ![msg.caller] = "reaped"]
    /\ mpc' = "thread_exit_dealloc"
    /\ UNCHANGED <<list, list_lock, heapVars, pipe, mq, clientVars,
                   signalVars, managerVars>>
ThreadExitDealloc ==
    /\ mpc = "thread_exit_dealloc"
    /\ thread_dealloc(msg.caller, "loop")
    /\ Done
    /\ UNCHANGED <<pid, status, pipe, mq, pc, clientVars, signalVars, rest>>

\* MSG_ALL_EXIT: wake the sender ...
AllExitWake ==
    /\ mpc = "all_exit"
    /\ sthread_wake(msg.caller)
    /\ mpc' = "all_exit_kill"
    /\ UNCHANGED <<list, list_lock, heapVars, mq, pc, clientVars, signalVars,
                   managerVars>>

\* ... signal everybody else ...
Others == {list[i] : i \in 1..Len(list)} \ {Manager, msg.caller}
\* Mutant: the loop stops after the first thread.
AllExitKillOne ==
    /\ mpc = "all_exit_kill"
    /\ killed' = killed \cup {t \in Others : t = list[1]}
    /\ rest' = list
    /\ mpc' = "all_exit_wait"
    /\ UNCHANGED <<list, list_lock, heapVars, pipe, mq, pc, clientVars,
                   signalled, msg, mp>>
AllExitKill ==
    /\ mpc = "all_exit_kill"
    /\ killed' = killed \cup Others
    /\ rest' = list
    /\ mpc' = "all_exit_wait"
    /\ UNCHANGED <<list, list_lock, heapVars, pipe, mq, pc, clientVars,
                   signalled, msg, mp>>

\* ... and wait for them one by one.  The main thread is no child of the
\* manager: waitpid returns at once.
AllExitWait ==
    /\ mpc = "all_exit_wait" /\ rest # <<>>
    /\ Head(rest) \notin {Manager, msg.caller}
    /\ IF Head(rest) = Main THEN UNCHANGED pc
       ELSE /\ Dead(Head(rest))
            /\ pc' = [pc EXCEPT ![Head(rest)] = "reaped"]
    /\ mpc' = "all_exit_dealloc"
    /\ UNCHANGED <<list, list_lock, heapVars, pipe, mq, clientVars,
                   signalVars, managerVars>>
AllExitSkip ==
    /\ mpc = "all_exit_wait" /\ rest # <<>>
    /\ Head(rest) \in {Manager, msg.caller}
    /\ rest' = Tail(rest)
    /\ UNCHANGED <<list, list_lock, heapVars, pipe, mq, pc, clientVars,
                   signalVars, mpc, msg, mp>>

\* p->next is read after p was freed; free() leaves that field as it was.
AllExitDealloc ==
    /\ mpc = "all_exit_dealloc"
    /\ thread_dealloc(Head(rest), "all_exit_wait")
    /\ rest' = Tail(rest)
    /\ UNCHANGED <<pid, status, pipe, mq, pc, clientVars, signalVars, msg, mp>>

\* The loop ends, the manager closes its pipe and exits.
AllExitDone ==
    /\ mpc = "all_exit_wait" /\ rest = <<>>
    /\ mpc' = "gone"
    /\ UNCHANGED <<list, list_lock, heapVars, pipe, mq, pc, clientVars,
                   signalVars, managerVars>>

-----------------------------------------------------------------------------
\* The state sthread_init leaves.
MInit ==
    /\ list = <<Manager, Main>> /\ list_lock = NoPid
    /\ mem = [r \in Records |-> IF r \in Threads THEN "none" ELSE "alloc"]
    /\ held = [r \in Records |-> IF r \in Threads THEN {}
                                 ELSE IF r = Main THEN {"pipe"}
                                 ELSE {"stack", "pipe"}]
    /\ pid = [r \in Records |-> IF r \in Threads THEN NoPid ELSE r]
    /\ status = [r \in Records |-> 0]
    /\ pipe = [r \in Records |-> 0]
    /\ mq = <<>>
    /\ pc = [c \in Clients |-> IF c = Main THEN "user" ELSE "none"]
    /\ op = [c \in Clients |-> "none"]
    /\ self = [c \in Clients |-> NoPid]
    /\ new = [c \in Clients |-> NoPid]
    /\ owed = {} /\ nsusp = [c \in Clients |-> 0]
    /\ killed = {} /\ signalled = {}
    /\ mpc = "loop" /\ msg = NoMessage /\ mp = NoPid /\ rest = <<>>

\* What a thread does once its code has called the library.
LibraryStep(c) ==
    \/ c \in Threads /\ StartThread(c)
    \/ SelfLock(c) \/ SelfFind(c)
    \/ CreateRequest(c) \/ CreateNoMemory(c) \/ CreateAnswer(c)
    \/ SuspendReturns(c)
    \/ Cleanup(c) \/ Leave(c)

\* What the code of a thread chooses to do.
UserStep(c) ==
    \/ \E o \in {"create", "suspend", "exit"} : Call(c, o)
    \/ \E t \in Clients : Wake(c, t)
    \/ c \in Threads /\ Return(c)
    \/ Fault(c)

ManagerStep ==
    \/ CheckMain
    \/ Reap \/ ReapNone \/ ReapFind \/ ReapDealloc \/ ReapKill
    \/ ReadMessage
    \/ CreateAdd \/ CreateNoStack \/ CreateNoPipe
    \/ Clone \/ StorePid \/ CreateUndo \/ CreateWake
    \/ ThreadExitWake \/ ThreadExitWait \/ ThreadExitDealloc
    \/ AllExitWake \/ AllExitKill
    \/ AllExitWait \/ AllExitSkip \/ AllExitDealloc \/ AllExitDone

MNext ==
    \/ ManagerStep
    \/ \E c \in Clients : LibraryStep(c) \/ UserStep(c) \/ Cancel(c)

MSpec == MInit /\ [][MNext]_mvars

\* The scheduler runs every thread that can go on, and signals arrive; what
\* the code of a thread chooses to call is up to it.
MFairSpec ==
    /\ MSpec
    /\ WF_mvars(ManagerStep)
    /\ \A c \in Clients : WF_mvars(LibraryStep(c)) /\ WF_mvars(Cancel(c))

-----------------------------------------------------------------------------
(***************************************************************************)
(* Properties.                                                             *)
(***************************************************************************)
Locations == {"none", "start", "user", "self", "create", "answer", "suspend",
              "exit", "leave", "zombie", "reaped"}
ManagerLocations ==
    {"loop", "reap", "reap_find", "reap_dealloc", "reap_kill", "read",
     "create", "create_clone", "create_pid", "create_nopid", "create_undo",
     "create_wake", "thread_exit", "thread_exit_wait", "thread_exit_dealloc",
     "all_exit", "all_exit_kill", "all_exit_wait", "all_exit_dealloc",
     "gone", "aborted", "crashed"}
Messages == [type : {"none", "create", "thread_exit", "all_exit"},
             caller : Clients \cup {NoPid}, thread : Threads \cup {NoPid}]

\* The shape of the state: among others, messages name records of threads,
\* no pipe is read below zero, and a status is 0 or -1.
MTypeOK ==
    /\ list \in Seq(Records) /\ list_lock \in Records \cup {NoPid}
    /\ mem \in [Records -> {"none", "alloc", "freed"}]
    /\ held \in [Records -> SUBSET {"stack", "pipe", "ss"}]
    /\ pid \in [Records -> Records \cup {NoPid, Failed}]
    /\ status \in [Records -> {0, 1}]
    /\ pipe \in [Records -> Nat]
    /\ mq \in Seq(Messages)
    /\ pc \in [Clients -> Locations]
    /\ op \in [Clients -> {"none", "create", "suspend", "exit"}]
    /\ self \in [Clients -> Records \cup {NoPid}]
    /\ new \in [Clients -> Threads \cup {NoPid}]
    /\ owed \subseteq Clients /\ nsusp \in [Clients -> 0..MaxSuspends]
    /\ killed \subseteq Records /\ signalled \subseteq Clients
    /\ mpc \in ManagerLocations /\ msg \in Messages
    /\ mp \in Records \cup {NoPid} /\ rest \in Seq(Records)

Listed == {list[i] : i \in 1..Len(list)}

\* The comment above list_hd: the main thread is always last and the manager
\* second to last; and no record is listed twice.
ListShape ==
    /\ Len(list) >= 2
    /\ list[Len(list)] = Main /\ list[Len(list) - 1] = Manager
    /\ \A i, j \in 1..Len(list) : list[i] = list[j] => i = j

\* sthread_self gives every thread its own record, from the first instruction
\* of a new thread on (list_lock is held from before clone until the pid is
\* stored): no thread gets NULL or the record of another.
SelfFound ==
    \A c \in Clients :
        pc[c] \in {"create", "answer", "suspend", "exit", "leave"} => self[c] = c

\* The manager has begun to end the process or is dead: it reads no more.
Ending == mpc \in {"all_exit_kill", "all_exit_wait", "all_exit_dealloc",
                   "gone", "aborted", "crashed"}

\* Records the manager will follow are allocated: those in the list and
\* those named in the messages it has still to read, while sthread_create
\* frees the record of a failure and the manager frees those of the dead.
NoDangling ==
    /\ \A r \in Listed : mem[r] = "alloc"
    /\ ~Ending => \A i \in 1..Len(mq) :
          /\ mem[mq[i].caller] = "alloc"
          /\ mq[i].type = "create" => mem[mq[i].thread] = "alloc"

\* The wake-up that ends sthread_create is its answer: a status of 0 comes
\* with a thread that has its pid, a status of -1 with a record that is not
\* in the list and that the manager is done with.
AnswerIsTrue ==
    \A c \in Clients : pc[c] = "answer" /\ pipe[c] > 0 =>
        /\ status[c] = 0 => pid[new[c]] = new[c]
        /\ status[c] = 1 => new[c] \notin Listed /\ msg.thread # new[c]

\* list_lock is set only by somebody inside a critical section, except that
\* a thread killed inside threadlist_findbypid never releases it.
LockHolder ==
    /\ list_lock = Manager => mpc \in {"create_pid", "create_nopid", "aborted"}
    /\ list_lock \in Clients =>
          pc[list_lock] = "self" \/ (Dead(list_lock) /\ list_lock \in killed)

\* thread_dealloc leaves nothing of a thread mapped or open, and a record
\* goes back to malloc only after its thread is dead and waited for.
NothingLeft ==
    \A t \in Threads : mem[t] = "freed" =>
        IF pid[t] = t THEN pc[t] = "reaped" /\ held[t] \subseteq {"ss"}
        ELSE pc[t] = "none" /\ held[t] \subseteq {"stack"}

\* threadlist_del fails to find a record only when a thread other than the
\* main thread has called exit(): no record is deleted twice.
AbortCause == mpc = "aborted" => msg.type = "all_exit" /\ msg.caller # Main

\* What every operation on the list and on the records keeps.
ManagerInv ==
    /\ MTypeOK
    /\ ListShape
    /\ LockHolder
    /\ NoDangling
    /\ NothingLeft
    /\ AbortCause

\* list_lock stays set for ever: its holder was killed.
LockLost == list_lock \in Clients /\ Dead(list_lock)

\* Every sthread_create returns, unless the process ends first.
CreateReturns ==
    \A c \in Clients : pc[c] = "answer" ~> (pc[c] # "answer")

\* A thread whose main routine has returned is given back in the end, unless
\* list_lock died with somebody at the end of the process.
FinishedIsReclaimed ==
    \A t \in Threads :
        (pc[t] = "leave" /\ pid[t] = t) ~> (mem[t] = "freed" \/ LockLost)

\* exit() in the main thread ends the main thread, every other thread and
\* the manager, with the same exception: the manager then spins.
ExitEnds ==
    pc[Main] = "leave" ~>
        /\ \A c \in Clients : ~Alive(c)
        /\ mpc = "gone" \/ LockLost

\* sthread.c line 187: not found in list; shouldn't happen.
NeverNotFound == mpc # "aborted"

\* sthread.c lines 272-273: if a thread died due to a signal, the same signal
\* is sent to all other threads, including the main thread.
SignalSpreads ==
    \A t \in Threads : t \in signalled ~> \A c \in Clients : ~Alive(c)

=============================================================================
