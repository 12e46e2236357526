------------------------------ MODULE ShellJobs ------------------------------
(***************************************************************************)
(* The job table of the shell (src/hw1/part_two.c): the main loop forks    *)
(* pipelines, records them with addjob and waits for the ones in the       *)
(* foreground, while the SIGCHLD handler interrupts it at any point, waits *)
(* for children itself and deletes jobs.                                   *)
(*                                                                         *)
(* Pids are 1, 2, ... in the order of the forks and are not reused; 0 and  *)
(* -1 mean to waitpid and kill what they mean to the kernel.  The handler  *)
(* runs to its end before the main loop goes on; children die meanwhile.   *)
(* An uninitialised child_status answers WIFEXITED either way.             *)
(***************************************************************************)
EXTENDS Integers, Sequences, FiniteSets

CONSTANTS
    MAXJOBS,      \* slots of the job table
    MAX_CMD_NUM,  \* commands in a pipeline
    MaxPid,       \* bound: forks in one behaviour
    MaxJid,       \* bound: job ids a user types after fg
    ForkFails     \* may fork return -1

ASSUME ShellConstants ==
    /\ MAXJOBS \in Nat \ {0} /\ MAX_CMD_NUM \in Nat \ {0}
    /\ MaxPid \in Nat /\ MaxJid \in Nat /\ ForkFails \in BOOLEAN

Slots == 1..MAXJOBS
Pids  == 1..MaxPid

VARIABLES
    jobs,        \* the job table
    nextjid,
    num_cmds,
    child_pids,
    proc,        \* a child: "none", "run", "gone", or a zombie: "exited",
                 \* "killed", "shot" (killed by the shell)
    forked,      \* pids handed out so far
    sigchld,     \* SIGCHLD is pending
    hi, hj,      \* i and j of child_handler, hi = 0 outside it
    pc,          \* where the main loop is
    program,     \* cmds[0] names a program, or nothing yet: not fg, cd, bg, jobs
    bg,          \* cnt_pipe_bg
    i,           \* its loop index
    slot,        \* the slot addjob or waitfg works on
    old,         \* addjob: the value nextjid++ has read; waitfg: n
    cnt_pid      \* waitfg

tableVars   == <<jobs, nextjid>>
handlerVars == <<hi, hj>>
mainVars    == <<num_cmds, child_pids, pc, program, bg, i, slot, old, cnt_pid>>
svars == <<tableVars, proc, forked, sigchld, handlerVars, mainVars>>

Zombies == {p \in Pids : proc[p] \in {"exited", "killed", "shot"}}
Children == {p \in Pids : proc[p] = "run"} \cup Zombies

\* The children waitpid(p, ...) is about.
Waited(p) == IF p >= 1 THEN {p} \cap Children ELSE Children

-----------------------------------------------------------------------------
(***************************************************************************)
(* The helpers on the table.  The main loop runs deletejob in one step: the *)
(* handler skips the slot once its pid is 0.                               *)
(***************************************************************************)
NoJob == [pid |-> 0, jid |-> 0, state |-> "UNDEF", pid_q_length |-> 0,
          pid_q |-> [k \in 1..MAX_CMD_NUM |-> 0]]

\* pid_q is zeroed up to pid_q_length only.
clearjob(s) ==
    [jobs EXCEPT ![s] = [NoJob EXCEPT !.pid_q =
        [k \in 1..MAX_CMD_NUM |->
            IF k <= jobs[s].pid_q_length THEN 0 ELSE jobs[s].pid_q[k]]]]

maxjid(js) == LET ids == {js[s].jid : s \in Slots}
              IN  CHOOSE m \in ids : \A n \in ids : n <= m

\* The first slot with a property, 0 if there is none.
First(S) == IF S = {} THEN 0 ELSE CHOOSE s \in S : \A t \in S : s <= t

deletejob(p) ==
    LET s == First({t \in Slots : jobs[t].pid = p})
    IN  IF p < 1 \/ s = 0 THEN UNCHANGED tableVars
        ELSE /\ jobs' = clearjob(s)
             /\ nextjid' = maxjid(clearjob(s)) + 1

getjobjid(j) == IF j < 1 THEN 0 ELSE First({s \in Slots : jobs[s].jid = j})

-----------------------------------------------------------------------------
(***************************************************************************)
(* The children.                                                           *)
(***************************************************************************)
Exit(p) ==
    /\ proc[p] = "run"
    /\ \E how \in {"exited", "killed"} : proc' = [proc EXCEPT ![p] = how]
    /\ sigchld' = TRUE
    /\ UNCHANGED <<tableVars, forked, handlerVars, mainVars>>

-----------------------------------------------------------------------------
(***************************************************************************)
(* child_handler.                                                          *)
(***************************************************************************)
HandlerStart ==
    /\ sigchld /\ hi = 0 /\ pc \notin {"exit", "crash", "dead"}
    /\ sigchld' = FALSE
    /\ hi' = 1 /\ hj' = 1
    /\ UNCHANGED <<tableVars, proc, forked, mainVars>>

\* The loops move on: past the last process of the job to the next slot, and
\* past the last slot out of the handler.
HandlerNext ==
    /\ hi # 0 /\ (jobs[hi].pid = 0 \/ hj > jobs[hi].pid_q_length)
    /\ hi' = IF hi = MAXJOBS THEN 0 ELSE hi + 1
    /\ hj' = 1
    /\ UNCHANGED <<tableVars, proc, forked, sigchld, mainVars>>

\* What follows waitpid when the status says that the child has exited.
\* reaped is the child waitpid has taken, 0 if it took none.
HandlerTerminated(reaped) ==
    LET p == jobs[hi].pid
    IN  /\ proc' = [c \in Pids |->
               IF c = reaped THEN "gone"
               ELSE IF c = p /\ proc[c] = "run" THEN "shot" ELSE proc[c]]
        /\ sigchld' = (sigchld \/ proc[p] = "run")
        /\ deletejob(p)
        /\ hj' = hj + 1
        /\ UNCHANGED <<forked, hi, mainVars>>

HandlerKept(reaped) ==
    /\ proc' = [c \in Pids |-> IF c = reaped THEN "gone" ELSE proc[c]]
    /\ hj' = hj + 1
    /\ UNCHANGED <<tableVars, forked, sigchld, hi, mainVars>>

InJob == hi # 0 /\ jobs[hi].pid # 0 /\ hj <= jobs[hi].pid_q_length
Candidates == Waited(jobs[hi].pid_q[hj]) \cap Zombies

HandlerReaps ==
    /\ InJob
    /\ \E c \in Candidates :
          IF proc[c] = "exited" THEN HandlerTerminated(c) ELSE HandlerKept(c)

\* waitpid took nothing (still running, or waited for before): child_status
\* is uninitialised.
HandlerNothing ==
    /\ InJob /\ Candidates = {}
    /\ HandlerTerminated(0) \/ HandlerKept(0)

-----------------------------------------------------------------------------
(***************************************************************************)
(* The main loop.  Its steps wait for the handler to end.                  *)
(***************************************************************************)
At(l) == pc = l /\ hi = 0

\* A command line with n commands.  An empty line (n = 0) has no '&' and keeps
\* cmds[0]: after a program it goes on to eval_cmd and addjob.
ReadCommand(n, b) ==
    /\ At("prompt") /\ forked + n <= MaxPid
    /\ n = 0 => program /\ ~b
    /\ num_cmds' = n /\ bg' = b /\ i' = 1 /\ program' = TRUE
    /\ pc' = "fork"
    /\ UNCHANGED <<tableVars, proc, forked, sigchld, handlerVars, child_pids,
                   slot, old, cnt_pid>>

ReadExit ==
    /\ At("prompt")
    /\ pc' = "exit"
    /\ UNCHANGED <<tableVars, proc, forked, sigchld, handlerVars, num_cmds,
                   child_pids, program, bg, i, slot, old, cnt_pid>>

\* cd, bg and jobs, which an empty line after them repeats; nothing reads the
\* num_cmds of such a line.
ReadBuiltin ==
    /\ At("prompt")
    /\ program' = FALSE
    /\ UNCHANGED <<tableVars, proc, forked, sigchld, handlerVars, num_cmds,
                   child_pids, pc, bg, i, slot, old, cnt_pid>>

\* fg with a job id, or an empty line after it: waitfg follows a null pointer
\* when there is no such job, and otherwise begins by reading pid_q_length.
ReadFg(j) ==
    /\ At("prompt")
    /\ program' = FALSE
    /\ slot' = getjobjid(j)
    /\ IF getjobjid(j) = 0 THEN pc' = "crash" /\ old' = old
       ELSE pc' = "fg" /\ old' = jobs[getjobjid(j)].pid_q_length
    /\ i' = 1
    /\ UNCHANGED <<tableVars, proc, forked, sigchld, handlerVars, num_cmds,
                   child_pids, bg, cnt_pid>>

\* eval_cmd: one fork after the other.
Fork ==
    /\ At("fork") /\ i <= num_cmds
    /\ \/ /\ forked' = forked + 1
          /\ proc' = [proc EXCEPT ![forked + 1] = "run"]
          /\ child_pids' = [child_pids EXCEPT ![i] = forked + 1]
       \/ /\ ForkFails
          /\ child_pids' = [child_pids EXCEPT ![i] = -1]
          /\ UNCHANGED <<forked, proc>>
    /\ i' = i + 1
    /\ UNCHANGED <<tableVars, sigchld, handlerVars, num_cmds, pc, program, bg,
                   slot, old, cnt_pid>>

\* The first slot without a pid.
FreeSlot == First({s \in Slots : jobs[s].pid = 0})
AfterAdd == pc' = (IF bg THEN "prompt" ELSE "wait") /\ i' = 1 /\ slot' = 0
\* Mutant: the length is set before the job id.
AddPidAndLength ==
    /\ At("fork") /\ i > num_cmds
    /\ IF child_pids[1] < 1 \/ FreeSlot = 0
       THEN AfterAdd /\ UNCHANGED jobs
       ELSE /\ jobs' = [jobs EXCEPT ![FreeSlot].pid = child_pids[1],
                                    ![FreeSlot].pid_q_length = num_cmds]
            /\ slot' = FreeSlot
            /\ pc' = "add_state" /\ i' = 1
    /\ UNCHANGED <<nextjid, proc, forked, sigchld, handlerVars, num_cmds,
                   child_pids, program, bg, old, cnt_pid>>
\* addjob takes a free slot; after an empty line child_pids[0] is the pid of
\* an earlier pipeline, and the handler may delete the slot from now on ...
AddPid ==
    /\ At("fork") /\ i > num_cmds
    /\ IF child_pids[1] < 1 \/ FreeSlot = 0
       THEN AfterAdd /\ UNCHANGED jobs
       ELSE /\ jobs' = [jobs EXCEPT ![FreeSlot].pid = child_pids[1]]
            /\ slot' = FreeSlot
            /\ pc' = "add_state" /\ i' = 1
    /\ UNCHANGED <<nextjid, proc, forked, sigchld, handlerVars, num_cmds,
                   child_pids, program, bg, old, cnt_pid>>

\* ... sets the state ...
AddState ==
    /\ At("add_state")
    /\ jobs' = [jobs EXCEPT ![slot].state = IF bg THEN "BG" ELSE "FG"]
    /\ pc' = "add_jid"
    /\ UNCHANGED <<nextjid, proc, forked, sigchld, handlerVars, num_cmds,
                   child_pids, program, bg, i, slot, old, cnt_pid>>

\* ... reads nextjid ...
AddReadJid ==
    /\ At("add_jid")
    /\ old' = nextjid
    /\ pc' = "add_inc"
    /\ UNCHANGED <<tableVars, proc, forked, sigchld, handlerVars, num_cmds,
                   child_pids, program, bg, i, slot, cnt_pid>>

\* ... and writes it back incremented, and the job id ...
AddJid ==
    /\ At("add_inc")
    /\ jobs' = [jobs EXCEPT ![slot].jid = old]
    /\ nextjid' = old + 1 /\ old' = 0
    /\ pc' = "add_len"
    /\ UNCHANGED <<proc, forked, sigchld, handlerVars, num_cmds, child_pids,
                   program, bg, i, slot, cnt_pid>>

\* ... sets pid_q_length, and wraps nextjid around ...
AddLength ==
    /\ At("add_len")
    /\ jobs' = [jobs EXCEPT ![slot].pid_q_length = num_cmds]
    /\ nextjid' = IF nextjid > MAXJOBS THEN 1 ELSE nextjid
    /\ pc' = "add_q"
    /\ UNCHANGED <<proc, forked, sigchld, handlerVars, num_cmds, child_pids,
                   program, bg, i, slot, old, cnt_pid>>

\* ... and copies the pids, as many as pid_q_length says each time.  The
\* handler may clear the slot between the test and the store.
AddTest ==
    /\ At("add_q")
    /\ IF i <= jobs[slot].pid_q_length THEN pc' = "add_store" /\ UNCHANGED <<i, slot>>
       ELSE AfterAdd
    /\ UNCHANGED <<tableVars, proc, forked, sigchld, handlerVars, num_cmds,
                   child_pids, program, bg, old, cnt_pid>>
AddStore ==
    /\ At("add_store")
    /\ jobs' = [jobs EXCEPT ![slot].pid_q[i] = child_pids[i]]
    /\ pc' = "add_q" /\ i' = i + 1
    /\ UNCHANGED <<nextjid, proc, forked, sigchld, handlerVars, num_cmds,
                   child_pids, program, bg, slot, old, cnt_pid>>

\* waitpid(p, ..., 0) has returned: a zombie was taken, or there is no such
\* child (reaped = 0).
Returned(p, reaped) ==
    /\ \/ reaped \in Waited(p) \cap Zombies
       \/ reaped = 0 /\ Waited(p) = {}
    /\ proc' = [c \in Pids |-> IF c = reaped THEN "gone" ELSE proc[c]]

\* Mutant: only the first process is waited for.
WaitOnlyFirst ==
    /\ At("wait") /\ i <= 1
    /\ \E c \in Pids \cup {0} : Returned(child_pids[i], c)
    /\ i' = num_cmds + 1
    /\ UNCHANGED <<tableVars, forked, sigchld, handlerVars, num_cmds,
                   child_pids, pc, program, bg, slot, old, cnt_pid>>
\* Mutant: a child the handler took is waited for.
WaitZombie ==
    /\ At("wait") /\ i <= num_cmds
    /\ \E c \in Pids : Returned(child_pids[i], c)
    /\ i' = i + 1
    /\ UNCHANGED <<tableVars, forked, sigchld, handlerVars, num_cmds,
                   child_pids, pc, program, bg, slot, old, cnt_pid>>
\* The foreground pipeline is waited for, process after process.
Wait ==
    /\ At("wait") /\ i <= num_cmds
    /\ \E c \in Pids \cup {0} : Returned(child_pids[i], c)
    /\ i' = i + 1
    /\ UNCHANGED <<tableVars, forked, sigchld, handlerVars, num_cmds,
                   child_pids, pc, program, bg, slot, old, cnt_pid>>
WaitDone ==
    /\ At("wait") /\ i > num_cmds
    /\ pc' = "prompt" /\ i' = 1
    /\ UNCHANGED <<tableVars, proc, forked, sigchld, handlerVars, num_cmds,
                   child_pids, program, bg, slot, old, cnt_pid>>

\* waitfg reads the next pid of a job the handler may have cleared ...
FgRead ==
    /\ At("fg")
    /\ IF i > old THEN pc' = "prompt" /\ i' = 1 /\ slot' = 0 /\ old' = 0 /\ cnt_pid' = 0
       ELSE /\ cnt_pid' = jobs[slot].pid_q[i]
            /\ pc' = "fg_wait" /\ UNCHANGED <<i, slot, old>>
    /\ UNCHANGED <<tableVars, proc, forked, sigchld, handlerVars, num_cmds,
                   child_pids, program, bg>>

\* ... waits for it, and kills and deletes it if it has exited.  The signal
\* finds a dead process, but a cnt_pid of 0 or -1 makes it hit the shell.
FgWait ==
    /\ At("fg_wait")
    /\ \E c \in Pids \cup {0}, exited \in BOOLEAN :
          /\ Returned(cnt_pid, c)
          /\ c # 0 => exited = (proc[c] = "exited")
          /\ IF exited /\ cnt_pid < 1
             THEN pc' = "dead" /\ UNCHANGED tableVars
             ELSE /\ pc' = "fg"
                  /\ IF exited THEN deletejob(cnt_pid) ELSE UNCHANGED tableVars
    /\ i' = i + 1
    /\ UNCHANGED <<forked, sigchld, handlerVars, num_cmds, child_pids, program,
                   bg, slot, old, cnt_pid>>

-----------------------------------------------------------------------------
SInit ==
    /\ jobs = [s \in Slots |-> NoJob] /\ nextjid = 1
    /\ num_cmds = 0 /\ child_pids = [k \in 1..MAX_CMD_NUM |-> 0]
    /\ proc = [p \in Pids |-> "none"] /\ forked = 0 /\ sigchld = FALSE
    /\ hi = 0 /\ hj = 1
    /\ pc = "prompt" /\ program = TRUE /\ bg = FALSE /\ i = 1 /\ slot = 0 /\ old = 0
    /\ cnt_pid = 0

Handler == HandlerStart \/ HandlerNext \/ HandlerReaps \/ HandlerNothing

MainStep == Fork \/ AddPid \/ AddState \/ AddReadJid \/ AddJid \/ AddLength
            \/ AddTest \/ AddStore \/ Wait \/ WaitDone \/ FgRead \/ FgWait

\* What the user types.
User ==
    \/ \E n \in 0..MAX_CMD_NUM, b \in BOOLEAN : ReadCommand(n, b)
    \/ \E j \in 0..MaxJid : ReadFg(j)
    \/ ReadBuiltin \/ ReadExit

SNext == Handler \/ MainStep \/ User \/ \E p \in Pids : Exit(p)

\* The processes the main loop is waiting for.
Foreground == IF pc = "wait" THEN {child_pids[k] : k \in 1..num_cmds} ELSE {}

\* The shell runs, signals arrive, and a command in the foreground ends;
\* nothing is assumed of background commands and of the user.
SSpec ==
    /\ SInit /\ [][SNext]_svars
    /\ WF_svars(Handler) /\ WF_svars(MainStep)
    /\ \A p \in Pids : WF_svars(p \in Foreground /\ Exit(p))

-----------------------------------------------------------------------------
(***************************************************************************)
(* Properties.                                                             *)
(***************************************************************************)
JobRecords == [pid : 0..MaxPid, jid : Nat, state : {"UNDEF", "FG", "BG"},
               pid_q_length : 0..MAX_CMD_NUM,
               pid_q : [1..MAX_CMD_NUM -> -1..MaxPid]]

\* The shape of the state; in particular the handler's indexes stay inside
\* the table and the pids of a job are children or the fork error.
STypeOK ==
    /\ jobs \in [Slots -> JobRecords]
    /\ nextjid \in Nat \ {0} /\ num_cmds \in 0..MAX_CMD_NUM
    /\ child_pids \in [1..MAX_CMD_NUM -> -1..MaxPid]
    /\ proc \in [Pids -> {"none", "run", "exited", "killed", "shot", "gone"}]
    /\ forked \in 0..MaxPid /\ sigchld \in BOOLEAN
    /\ hi \in 0..MAXJOBS /\ hj \in 1..MAX_CMD_NUM + 1
    /\ pc \in {"prompt", "fork", "add_state", "add_jid", "add_inc", "add_len",
               "add_q", "add_store", "wait", "fg", "fg_wait", "exit", "crash",
               "dead"}
    /\ program \in BOOLEAN /\ bg \in BOOLEAN
    /\ i \in 1..MAX_CMD_NUM + 1 /\ slot \in 0..MAXJOBS
    /\ old \in Nat /\ cnt_pid \in -1..MaxPid

AddLocs == {"add_state", "add_jid", "add_inc", "add_len", "add_q", "add_store"}
Adding(s) == slot = s /\ pc \in AddLocs

\* A slot without a pid has no processes, even when the handler has deleted the
\* job while addjob was filling in its slot: neither the handler nor waitfg,
\* which may find its old job id, waits for anybody there.
FreeSlotIsEmpty ==
    \A s \in Slots : jobs[s].pid = 0 => jobs[s].pid_q_length = 0

\* A pid stands for one pipeline: the other slots that an empty line has given
\* the same pid have no processes.
OneQueuePerPid ==
    \A s, t \in Slots : jobs[s].pid = jobs[t].pid /\ s # t =>
        jobs[s].pid_q_length = 0 \/ jobs[t].pid_q_length = 0

\* Outside addjob, the pids recorded for a job begin with its own and are
\* those of one pipeline: increasing, or -1 where the fork failed.
QueueIsPipeline ==
    \A s \in Slots : jobs[s].pid_q_length > 0 /\ ~Adding(s) =>
        LET q == SubSeq(jobs[s].pid_q, 1, jobs[s].pid_q_length)
        IN  /\ q[1] = jobs[s].pid
            /\ \A k \in 2..Len(q) :
                  q[k] = -1 \/ q[k] \in jobs[s].pid + 1 .. jobs[s].pid + k - 1

\* The table is sound wherever the handler has interrupted the main loop.
JobTable ==
    /\ STypeOK
    /\ FreeSlotIsEmpty
    /\ OneQueuePerPid
    /\ QueueIsPipeline

\* What deletejob (part_two.c:368) and getjobpid (part_two.c:396) take for
\* granted: "the" job with a pid.  An empty line after a command breaks it.
OneSlotPerPid ==
    \A s, t \in Slots : jobs[s].pid = jobs[t].pid /\ jobs[s].pid # 0 => s = t

\* When the prompt comes back after a foreground command, every process of
\* the pipeline is dead and waited for, by the main loop or by the handler.
ForegroundWaits ==
    [][pc = "wait" /\ pc' = "prompt" =>
          \A k \in 1..num_cmds :
              child_pids[k] > 0 => proc[child_pids[k]] = "gone"]_svars

\* It does come back, if every fork succeeded: no wait is for a child that
\* the handler has taken.
ForegroundReturns ==
    (pc = "wait" /\ \A k \in 1..num_cmds : child_pids[k] > 0) ~> pc = "prompt"

\* src/hw1/README line 9: any pipeline works perfectly as long as it does not
\* have a '&' at the end; so the shell does not kill one.
ForegroundUnharmed == \A p \in Foreground \cap Pids : proc[p] # "shot"

-----------------------------------------------------------------------------
(***************************************************************************)
(* The inductive invariant, proved in ShellJobsProofs.                     *)
(***************************************************************************)
\* QueueIsPipeline of one slot, by its entries.
Pipeline(s) ==
    /\ jobs[s].pid_q[1] = jobs[s].pid
    /\ \A k \in 2..jobs[s].pid_q_length :
          \/ jobs[s].pid_q[k] = -1
          \/ jobs[s].pid_q[k] \in jobs[s].pid + 1 .. jobs[s].pid + k - 1

PipelineInv == \A s \in Slots : jobs[s].pid_q_length > 0 /\ ~Adding(s) => Pipeline(s)

\* The first n commands have been forked, the first one with success: its pid
\* is newer than every job, and those of the others follow it.
Forked(n) ==
    /\ child_pids[1] \in 1..forked
    /\ \A k \in 2..n : \/ child_pids[k] = -1
                       \/ child_pids[k] \in child_pids[1] + 1 .. child_pids[1] + k - 1
    /\ \A s \in Slots :
          jobs[s].pid < child_pids[1] \/ (Adding(s) /\ jobs[s].pid = child_pids[1])

ForkInv ==
    /\ \A s \in Slots : jobs[s].pid <= forked
    /\ pc = "fork" =>
          /\ i <= num_cmds + 1 /\ forked + num_cmds < MaxPid + i
          /\ i > 1 /\ child_pids[1] # -1 =>
                Forked(i - 1) /\ forked <= child_pids[1] + i - 2

\* addjob: nobody deletes the job of a pipeline before its length is set;
\* afterwards the handler may, and then the slot stays without a pid.
AddInv ==
    pc \in AddLocs =>
        /\ slot \in Slots /\ jobs[slot].pid \in {0, child_pids[1]}
        /\ num_cmds >= 1 => Forked(num_cmds)
        /\ pc \in {"add_state", "add_jid", "add_inc", "add_len"} =>
              /\ i = 1 /\ jobs[slot].pid_q_length = 0
              /\ num_cmds >= 1 => jobs[slot].pid # 0
        /\ pc \in {"add_q", "add_store"} /\ jobs[slot].pid # 0 =>
              /\ jobs[slot].pid_q_length = num_cmds
              /\ \A k \in 1..i - 1 : jobs[slot].pid_q[k] = child_pids[k]
        /\ pc = "add_q" => i <= num_cmds + 1
        /\ pc = "add_store" => i <= num_cmds

FgInv ==
    /\ pc \in {"fg", "fg_wait"} => slot \in Slots /\ old <= MAX_CMD_NUM
    /\ pc = "fg_wait" => i <= old

\* A pid handed out stays the pid of that child, also after it was waited for.
ChildInv ==
    /\ \A p \in Pids : proc[p] = "none" <=> p > forked
    /\ \A k \in 1..MAX_CMD_NUM : child_pids[k] <= forked
    /\ pc = "wait" => \A k \in 1..i - 1 : k <= num_cmds /\ child_pids[k] > 0
                                             => proc[child_pids[k]] = "gone"

ShellInv ==
    /\ STypeOK /\ FreeSlotIsEmpty /\ OneQueuePerPid /\ PipelineInv
    /\ ForkInv /\ AddInv /\ FgInv /\ ChildInv

=============================================================================
