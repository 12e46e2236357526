------------------------- MODULE SThreadManagerInv -------------------------
(***************************************************************************)
(* The inductive invariant of the thread manager, proved in                *)
(* SThreadManagerProofs.                                                   *)
(***************************************************************************)
EXTENDS SThreadManager

\* The manager before the wake-up that answers the message it serves.
Creating  == {"create", "create_clone", "create_pid", "create_nopid",
              "create_undo", "create_wake"}
Unanswered == Creating \cup {"thread_exit", "all_exit"}

\* Whose messages are still in the pipe of the manager.
Senders == {mq[i].caller : i \in 1..Len(mq)}

\* A record do_create has not touched, and one it has given up.
Fresh(t) ==
    /\ t \in Threads \ Listed
    /\ mem[t] = "alloc" /\ pc[t] = "none" /\ pid[t] = NoPid /\ held[t] = {}
GivenUp(t) ==
    /\ t \in Threads \ Listed
    /\ mem[t] = "alloc" /\ pc[t] = "none" /\ pid[t] # t
    /\ held[t] \subseteq {"stack"}

\* A pid is that of the record it is stored in; what malloc has not handed
\* out is in its first state.
RecordInv ==
    /\ \A r \in Records : pid[r] \in {r, NoPid, Failed}
    /\ \A r \in {Main, Manager} : pid[r] = r /\ mem[r] = "alloc"
    /\ \A t \in Threads : mem[t] = "none" =>
          t \notin Listed /\ pc[t] = "none" /\ pid[t] = NoPid /\ held[t] = {}

\* Between CreateAdd and StorePid a listed record is without its pid.
HalfMade(t) ==
    t = msg.thread /\ mpc \in {"create_clone", "create_pid", "create_nopid",
                               "create_undo"}

ListedInv ==
    \A r \in Listed : mem[r] = "alloc" /\ (pid[r] = r \/ HalfMade(r))

\* A thread is in the list from clone until it is waited for.
PresentInv ==
    /\ pc[Main] \notin {"none", "reaped"}
    /\ \A t \in Threads : pc[t] \notin {"none", "reaped"} =>
          t \in Listed /\ (pid[t] = t \/ (mpc = "create_pid" /\ t = msg.thread))

\* list_lock covers clone.
LockInv ==
    /\ LockHolder
    /\ mpc \in {"create_pid", "create_nopid"} => list_lock = Manager

\* Every thread owns the record it asked for last.
NewInv ==
    \A c \in Clients : new[c] # NoPid =>
        /\ mem[new[c]] # "none"
        /\ \A d \in Clients : new[d] = new[c] => d = c

\* A thread that is not waiting is owed nothing; one that waits for the
\* manager has sent one message and gets one wake-up for it; one that is
\* suspended gets one from another thread.
OneWakeUp(c) ==
    /\ pc[c] = "self" => op[c] # "none"
    /\ pipe[c] =< 1
    /\ c \in owed =>
          /\ pc[c] = "suspend" \/ (pc[c] = "self" /\ op[c] = "suspend")
          /\ pipe[c] = 0
    /\ pc[c] \in {"none", "start", "user", "create", "exit"} => pipe[c] = 0
    /\ pc[c] = "self" /\ op[c] # "suspend" => pipe[c] = 0
    /\ pc[c] \notin {"answer", "leave", "zombie", "reaped"} =>
          c \notin Senders /\ msg.caller # c
    /\ pc[c] \in {"answer", "leave"} /\ pipe[c] > 0 =>
          c \notin Senders /\ (msg.caller = c => mpc \notin Unanswered)
    /\ Dead(c) /\ ~Ending => c \notin Senders

WakeInv == \A c \in Clients : OneWakeUp(c)

\* A message whose sender waits for the manager; a new record is untouched.
Sound(m) ==
    /\ m.type # "none" /\ m.caller \in Clients
    /\ m.type = "create" =>
          /\ pc[m.caller] = "answer" /\ new[m.caller] = m.thread
          /\ Fresh(m.thread)
    /\ m.type = "thread_exit" => m.caller \in Threads
    /\ m.type # "create" => pc[m.caller] = "leave" /\ m.thread = NoPid

\* The messages the manager will read.
QueueInv ==
    ~Ending =>
        /\ killed = {}
        /\ msg.caller \notin Senders
        /\ \A i, j \in 1..Len(mq) : mq[i].caller = mq[j].caller => i = j
        /\ \A i \in 1..Len(mq) : Sound(mq[i])

\* The message the manager serves.
ServeInv ==
    /\ mpc \in {"loop", "reap", "reap_find", "reap_dealloc", "reap_kill", "read"}
           => msg = NoMessage
    /\ msg.type = "create" <=> mpc \in Creating \cup {"crashed"}
    /\ msg.type = "thread_exit" <=>
           mpc \in {"thread_exit", "thread_exit_wait", "thread_exit_dealloc"}
    /\ mpc \in {"all_exit", "all_exit_kill", "all_exit_wait",
                "all_exit_dealloc", "aborted"} => msg.type = "all_exit"
    /\ msg.type # "create" => msg.thread = NoPid
    /\ IF msg.type = "none" THEN msg = NoMessage ELSE msg.caller \in Clients
    /\ msg.type \in {"thread_exit", "all_exit"} =>
           pc[msg.caller] \in {"leave", "zombie", "reaped"}
    /\ mpc \in {"thread_exit", "all_exit"} =>
           pc[msg.caller] = "leave" /\ pipe[msg.caller] = 0
    /\ mpc \in {"thread_exit", "thread_exit_wait", "thread_exit_dealloc"} =>
           msg.caller \in Threads
    /\ mpc = "thread_exit_wait" =>
           pc[msg.caller] = "zombie" \/ (pc[msg.caller] = "leave" /\ pipe[msg.caller] > 0)
    /\ mpc = "all_exit_kill" => killed = {}

\* The creation the manager serves.
CreateInv ==
    msg.type = "create" =>
        /\ pc[msg.caller] = "answer" /\ pipe[msg.caller] = 0
        /\ new[msg.caller] = msg.thread
        /\ msg.thread \in Threads /\ mem[msg.thread] = "alloc"
        /\ killed = {}
        /\ mpc # "create_wake" /\ mpc # "crashed" => status[msg.caller] = 0
        /\ mpc = "create" => Fresh(msg.thread)
        /\ HalfMade(msg.thread) => msg.thread \in Listed
        /\ mpc \in {"create_clone", "create_nopid", "create_undo"} =>
              pc[msg.thread] = "none"
        /\ mpc = "create_undo" => pid[msg.thread] = Failed
        /\ mpc = "create_wake" => IF status[msg.caller] = 0
                                  THEN pid[msg.thread] = msg.thread
                                  ELSE GivenUp(msg.thread)
        /\ mpc = "crashed" => GivenUp(msg.thread)

\* What sthread_create finds when it is woken.
AnswerInv ==
    \A c \in Clients : pc[c] = "answer" /\ pipe[c] > 0 =>
        IF status[c] = 0 THEN pid[new[c]] = new[c] ELSE GivenUp(new[c])

\* The record whose thread was waited for is still listed.
ReapInv ==
    /\ mpc \in {"reap_find", "reap_dealloc"} =>
          mp \in Threads \cap Listed /\ pc[mp] = "reaped" /\ pid[mp] = mp
    /\ mpc = "thread_exit_dealloc" =>
          /\ msg.caller \in Listed
          /\ pc[msg.caller] = "reaped" /\ pid[msg.caller] = msg.caller

\* The loop of MSG_ALL_EXIT visits every record once, and before it is freed.
RestInv ==
    /\ mpc \in {"all_exit_wait", "all_exit_dealloc"} =>
          /\ \A i \in 1..Len(rest) : rest[i] \in Listed
          /\ \A i, j \in 1..Len(rest) : rest[i] = rest[j] => i = j
    /\ mpc = "all_exit_dealloc" =>
          /\ rest # <<>> /\ Head(rest) \notin {Manager, msg.caller}
          /\ Head(rest) = Main \/ pc[Head(rest)] = "reaped"

\* The inductive invariant.
ManagerIInv ==
    /\ MTypeOK /\ ListShape /\ SelfFound /\ NothingLeft /\ AbortCause
    /\ RecordInv /\ ListedInv /\ PresentInv /\ LockInv /\ NewInv
    /\ WakeInv /\ QueueInv /\ ServeInv /\ CreateInv /\ AnswerInv
    /\ ReapInv /\ RestInv

=============================================================================
