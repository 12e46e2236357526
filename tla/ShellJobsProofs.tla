--------------------------- MODULE ShellJobsProofs ---------------------------
(***************************************************************************)
(* Proofs about the job table of the shell, for every size of the table    *)
(* and of a pipeline and every number of forks.                            *)
(*                                                                         *)
(* ShellInv is inductive; it follows the fields of the table one by one.   *)
(* deletejob chooses the first slot and the largest job id: the lemmas     *)
(* about numbers show that both exist.                                     *)
(***************************************************************************)
EXTENDS ShellJobs, WellFoundedInduction, TLAPS

-----------------------------------------------------------------------------
(* Numbers.                                                                *)

\* A set of natural numbers has a least element.
LEMMA Least ==
    ASSUME NEW S \in SUBSET Nat, S # {}
    PROVE  \E x \in S : \A y \in S : x <= y
<1> DEFINE R == OpToRel(<, Nat)
<1>1. IsWellFoundedOn(R, Nat)
  BY NatLessThanWellFounded
<1>2. \A x, y \in Nat : y < x => <<y, x>> \in R
  BY DEF OpToRel
<1> HIDE DEF R
<1>3. PICK x \in S : \A y \in S : ~(<<y, x>> \in R)
  BY <1>1, WFMin
<1>4. ASSUME NEW y \in S PROVE x <= y
  <2>1. x \in Nat /\ y \in Nat
    OBVIOUS
  <2>2. ~(y < x)
    BY <1>2, <1>3, <2>1
  <2> QED
    BY <2>1, <2>2
<1> QED
  BY <1>4

\* The values of a function on 1..N have an upper bound: otherwise there is a
\* least n for which those on 1..n have none.
LEMMA Bounded ==
    ASSUME NEW N \in Nat, NEW f, \A s \in 1..N : f[s] \in Nat
    PROVE  \E b \in Nat : \A s \in 1..N : f[s] <= b
<1> DEFINE Bound(n) == \E b \in Nat : \A s \in 1..n : f[s] <= b
           T == {n \in 0..N : ~Bound(n)}
<1> SUFFICES ASSUME ~Bound(N) PROVE FALSE
  OBVIOUS
<1>1. T \in SUBSET Nat /\ T # {}
  OBVIOUS
<1>2. Bound(0)
  <2>1. \A s \in 1..0 : f[s] <= 0
    OBVIOUS
  <2> QED
    BY <2>1
<1> HIDE DEF Bound
<1>3. PICK x \in T : \A y \in T : x <= y
  BY <1>1, Least
<1>4. x \in Nat /\ x \in 1..N /\ ~Bound(x)
  BY <1>2, <1>3
<1>5. x - 1 \in 0..N /\ x - 1 \notin T
  BY <1>3, <1>4
<1>6. Bound(x - 1)
  BY <1>5
<1>7. PICK b \in Nat : \A s \in 1..(x - 1) : f[s] <= b
  BY <1>6 DEF Bound
<1>8. f[x] \in Nat /\ b + f[x] \in Nat
  BY <1>4, <1>7
<1>9. ASSUME NEW s \in 1..x PROVE f[s] <= b + f[x]
  <2>1. CASE s = x
    BY <1>7, <1>8, <2>1
  <2>2. CASE s # x
    <3>1. s \in 1..(x - 1) /\ s \in 1..N
      BY <1>4, <2>2
    <3> QED
      BY <1>7, <1>8, <3>1
  <2> QED
    BY <2>1, <2>2
<1>10. Bound(x)
  BY <1>8, <1>9 DEF Bound
<1> QED
  BY <1>4, <1>10

\* A bounded set of natural numbers has a greatest element.
LEMMA Greatest ==
    ASSUME NEW S \in SUBSET Nat, S # {}, NEW b \in Nat, \A m \in S : m <= b
    PROVE  \E x \in S : \A y \in S : y <= x
<1> DEFINE U == {n \in Nat : \A m \in S : m <= n}
<1>1. U \in SUBSET Nat /\ U # {}
  OBVIOUS
<1>2. PICK u \in U : \A v \in U : u <= v
  BY <1>1, Least
<1>3. u \in S
  <2> SUFFICES ASSUME u \notin S PROVE FALSE
    OBVIOUS
  <2>1. \A m \in S : m \in Nat /\ m < u
    BY <1>2
  <2>2. u # 0
    <3>1. PICK m \in S : TRUE
      OBVIOUS
    <3> QED
      BY <1>2, <2>1, <3>1
  <2>3. u - 1 \in U
    BY <1>2, <2>1, <2>2
  <2> QED
    BY <1>2, <2>3
<1> QED
  BY <1>2, <1>3

-----------------------------------------------------------------------------
(* The helpers on the table.                                               *)

\* First returns a slot of the set, if there is one.
LEMMA FirstIs ==
    ASSUME NEW S \in SUBSET Slots
    PROVE  IF S = {} THEN First(S) = 0 ELSE First(S) \in S
<1>1. CASE S = {}
  BY <1>1 DEF First
<1>2. CASE S # {}
  <2>1. S \in SUBSET Nat
    BY ShellConstants DEF Slots
  <2>2. \E x \in S : \A y \in S : x <= y
    BY <1>2, <2>1, Least
  <2> QED
    BY <1>2, <2>2 DEF First
<1> QED
  BY <1>1, <1>2

\* The largest job id is one of the table.
LEMMA MaxJidIs ==
    ASSUME NEW js \in [Slots -> JobRecords]
    PROVE  maxjid(js) \in Nat
<1> DEFINE ids == {js[s].jid : s \in Slots}
           f == [s \in Slots |-> js[s].jid]
<1>1. \A s \in Slots : js[s].jid \in Nat
  BY DEF JobRecords
<1>2. MAXJOBS \in Nat /\ 1 \in Slots /\ Slots = 1..MAXJOBS
  BY ShellConstants DEF Slots
<1>3. ids \in SUBSET Nat /\ ids # {}
  BY <1>1, <1>2
<1>4. \A s \in 1..MAXJOBS : f[s] \in Nat
  BY <1>1, <1>2
<1>5. PICK b \in Nat : \A s \in 1..MAXJOBS : f[s] <= b
  <2> HIDE DEF f
  <2> QED
    BY <1>2, <1>4, Bounded
<1>6. \A m \in ids : m <= b
  BY <1>2, <1>5
<1>7. \E x \in ids : \A y \in ids : y <= x
  <2> HIDE DEF ids
  <2> QED
    BY <1>3, <1>6, Greatest
<1>8. (CHOOSE m \in ids : \A n \in ids : n <= m) \in ids
  BY <1>7
<1> QED
  BY <1>3, <1>8 DEF maxjid

\* The slot is empty afterwards and the others are as they were.
Cleared(s) ==
    /\ jobs' \in [Slots -> JobRecords]
    /\ \A t \in Slots : t # s => jobs'[t] = jobs[t]
    /\ jobs'[s].pid = 0 /\ jobs'[s].jid = 0
    /\ jobs'[s].state = "UNDEF" /\ jobs'[s].pid_q_length = 0

\* clearjob empties one slot.
LEMMA Clears ==
    ASSUME STypeOK, NEW s \in Slots
    PROVE  /\ clearjob(s) \in [Slots -> JobRecords]
           /\ jobs' = clearjob(s) => Cleared(s)
<1>1. jobs \in [Slots -> JobRecords]
  BY DEF STypeOK
<1> DEFINE q == [k \in 1..MAX_CMD_NUM |->
                   IF k <= jobs[s].pid_q_length THEN 0 ELSE jobs[s].pid_q[k]]
           r == [NoJob EXCEPT !.pid_q = q]
<1>2. q \in [1..MAX_CMD_NUM -> -1..MaxPid]
  BY <1>1, ShellConstants DEF JobRecords
<1> HIDE DEF q
<1>3. /\ r \in JobRecords
      /\ r.pid = 0 /\ r.jid = 0 /\ r.state = "UNDEF" /\ r.pid_q_length = 0
  BY <1>2, ShellConstants DEF JobRecords, NoJob
<1>4. clearjob(s) = [jobs EXCEPT ![s] = r]
  BY DEF clearjob, q
<1> HIDE DEF r
<1> QED
  BY <1>1, <1>3, <1>4 DEF Cleared

\* deletejob empties a slot with that pid, or does nothing.
LEMMA Deletes ==
    ASSUME STypeOK, NEW p \in Int, deletejob(p)
    PROVE  /\ nextjid' \in Nat \ {0}
           /\ \/ jobs' = jobs
              \/ \E s \in Slots : p >= 1 /\ jobs[s].pid = p /\ Cleared(s)
<1> DEFINE S == {t \in Slots : jobs[t].pid = p}
<1>1. CASE p < 1 \/ First(S) = 0
  BY <1>1 DEF deletejob, tableVars, STypeOK
<1>2. CASE ~(p < 1 \/ First(S) = 0)
  <2>1. First(S) \in S
    BY <1>2, FirstIs
  <2> DEFINE s == First(S)
  <2>2. s \in Slots /\ jobs[s].pid = p /\ p >= 1
    BY <1>2, <2>1
  <2>3. jobs' = clearjob(s) /\ nextjid' = maxjid(clearjob(s)) + 1
    BY <1>2 DEF deletejob
  <2> HIDE DEF s
  <2>4. maxjid(clearjob(s)) \in Nat
    BY <2>2, Clears, MaxJidIs
  <2>5. Cleared(s)
    BY <2>2, <2>3, Clears
  <2> QED
    BY <2>2, <2>3, <2>4, <2>5
<1> QED
  BY <1>1, <1>2

\* The fields of a slot, from the type of the table.
LEMMA Fields ==
    ASSUME STypeOK, NEW s \in Slots
    PROVE  /\ jobs[s].pid \in 0..MaxPid /\ jobs[s].jid \in Nat
           /\ jobs[s].pid_q_length \in 0..MAX_CMD_NUM
           /\ jobs[s].pid_q \in [1..MAX_CMD_NUM -> -1..MaxPid]
  BY DEF STypeOK, JobRecords

\* deletejob keeps what is said of the slots: it empties one of them.
LEMMA DeleteKeepsTable ==
    ASSUME ShellInv, NEW s \in Slots, jobs[s].pid # 0, Cleared(s)
    PROVE  /\ FreeSlotIsEmpty' /\ OneQueuePerPid'
           /\ \A t \in Slots : jobs'[t].pid = jobs[t].pid \/ jobs'[t].pid = 0
           /\ \A t \in Slots : jobs'[t].pid # 0 \/ jobs'[t].pid_q_length > 0
                                => jobs'[t] = jobs[t]
<1>1. \A t \in Slots : t # s => jobs'[t] = jobs[t]
  BY DEF Cleared
<1>2. jobs'[s].pid = 0 /\ jobs'[s].pid_q_length = 0
  BY DEF Cleared
<1>3. FreeSlotIsEmpty'
  BY DEF Cleared, FreeSlotIsEmpty, ShellInv
<1>4. OneQueuePerPid'
  BY <1>1, <1>2 DEF OneQueuePerPid, ShellInv
<1> QED
  BY <1>1, <1>2, <1>3, <1>4

-----------------------------------------------------------------------------
(* The handler and the children.                                           *)

\* The handler starts.
LEMMA HandlerStartKeeps ==
    ASSUME ShellInv, HandlerStart
    PROVE  ShellInv'
<1> USE ShellConstants DEF ShellInv, HandlerStart, tableVars, mainVars
<1>1. STypeOK'
  <2>1. hi' \in 0..MAXJOBS /\ hj' \in 1..MAX_CMD_NUM + 1
    OBVIOUS
  <2> QED
    BY <2>1 DEF STypeOK
<1>2. FreeSlotIsEmpty' /\ OneQueuePerPid' /\ PipelineInv'
  BY DEF FreeSlotIsEmpty, OneQueuePerPid, PipelineInv, Pipeline, Adding, AddLocs
<1>3. ForkInv' /\ AddInv' /\ FgInv' /\ ChildInv'
  BY DEF ForkInv, AddInv, Forked, Adding, FgInv, ChildInv
<1> QED
  BY <1>1, <1>2, <1>3

\* The handler goes on to the next slot.
LEMMA HandlerNextKeeps ==
    ASSUME ShellInv, HandlerNext
    PROVE  ShellInv'
<1> USE ShellConstants DEF ShellInv, HandlerNext, tableVars, mainVars
<1>1. STypeOK'
  BY DEF STypeOK
<1>2. FreeSlotIsEmpty' /\ OneQueuePerPid' /\ PipelineInv'
  BY DEF FreeSlotIsEmpty, OneQueuePerPid, PipelineInv, Pipeline, Adding, AddLocs
<1>3. ForkInv' /\ AddInv' /\ FgInv' /\ ChildInv'
  BY DEF ForkInv, AddInv, Forked, Adding, FgInv, ChildInv
<1> QED
  BY <1>1, <1>2, <1>3

\* The slot and the place in it where the handler waits.
LEMMA InJobIs ==
    ASSUME ShellInv, InJob
    PROVE  /\ hi \in Slots /\ jobs[hi].pid \in 1..MaxPid
           /\ hj \in 1..MAX_CMD_NUM /\ hj <= jobs[hi].pid_q_length
           /\ jobs[hi].pid_q_length >= 1
<1>1. hi \in Slots
  BY ShellConstants DEF ShellInv, STypeOK, InJob, Slots
<1>2. jobs[hi].pid \in 0..MaxPid /\ jobs[hi].pid_q_length \in 0..MAX_CMD_NUM
  BY <1>1, Fields DEF ShellInv
<1> QED
  BY <1>1, <1>2, ShellConstants DEF ShellInv, STypeOK, InJob

\* A child that is gone was a zombie: it had been forked.
LEMMA HandlerKeptKeeps ==
    ASSUME ShellInv, InJob, NEW c \in Zombies \cup {0}, HandlerKept(c)
    PROVE  ShellInv'
<1> USE ShellConstants DEF ShellInv, HandlerKept, tableVars, mainVars
<1>1. hj' \in 1..MAX_CMD_NUM + 1
  BY InJobIs
<1>2. STypeOK'
  BY <1>1 DEF STypeOK
<1>3. FreeSlotIsEmpty' /\ OneQueuePerPid' /\ PipelineInv'
  BY DEF FreeSlotIsEmpty, OneQueuePerPid, PipelineInv, Pipeline, Adding, AddLocs
<1>4. ForkInv' /\ AddInv' /\ FgInv'
  BY DEF ForkInv, AddInv, Forked, Adding, FgInv
<1>5. ChildInv'
  BY DEF ChildInv, Zombies, AddLocs, STypeOK, Pids
<1> QED
  BY <1>2, <1>3, <1>4, <1>5

\* The handler deletes the job it stands on or another slot with its pid, but
\* never that of a pipeline whose length addjob has still to set: its pid is new.
LEMMA HandlerTerminatedKeeps ==
    ASSUME ShellInv, InJob, NEW c \in Zombies \cup {0}, HandlerTerminated(c)
    PROVE  ShellInv'
<1> USE ShellConstants DEF ShellInv
<1> DEFINE p == jobs[hi].pid
<1>1. p \in Pids /\ p \in Int /\ hi \in Slots
  BY InJobIs DEF Pids
<1>2. /\ UNCHANGED <<forked, hi, num_cmds, child_pids, pc, program, bg, i, slot, old,
                     cnt_pid>>
      /\ deletejob(p) /\ hj' = hj + 1
  BY DEF HandlerTerminated, mainVars
<1>3. /\ nextjid' \in Nat \ {0}
      /\ jobs' = jobs \/ \E s \in Slots : p >= 1 /\ jobs[s].pid = p /\ Cleared(s)
  BY <1>1, <1>2, Deletes
<1>4. jobs' \in [Slots -> JobRecords]
  BY <1>3 DEF Cleared, STypeOK
<1>5. STypeOK'
  <2>1. hj' \in 1..MAX_CMD_NUM + 1
    BY <1>2, InJobIs
  <2>2. proc' \in [Pids -> {"none", "run", "exited", "killed", "shot", "gone"}]
    BY DEF HandlerTerminated, STypeOK
  <2>3. sigchld' \in BOOLEAN
    BY <1>1 DEF HandlerTerminated, STypeOK
  <2> QED
    BY <1>2, <1>3, <1>4, <2>1, <2>2, <2>3 DEF STypeOK
<1>6. ChildInv'
  <2>1. \A x \in Pids : /\ proc[x] = "none" <=> proc'[x] = "none"
                        /\ proc[x] = "gone" => proc'[x] = "gone"
    BY DEF HandlerTerminated, Zombies, STypeOK, Pids
  <2>2. \A k \in 1..MAX_CMD_NUM : child_pids[k] > 0 => child_pids[k] \in Pids
    BY DEF STypeOK, Pids
  <2> QED
    BY <1>2, <2>1, <2>2 DEF ChildInv, AddLocs, STypeOK
<1>7. FgInv'
  BY <1>2 DEF FgInv
<1>8. CASE jobs' = jobs
  <2>1. FreeSlotIsEmpty' /\ OneQueuePerPid' /\ PipelineInv'
    BY <1>2, <1>8 DEF FreeSlotIsEmpty, OneQueuePerPid, PipelineInv, Pipeline, Adding, AddLocs
  <2>2. ForkInv' /\ AddInv'
    BY <1>2, <1>8 DEF ForkInv, AddInv, Forked, Adding
  <2> QED
    BY <1>5, <1>6, <1>7, <2>1, <2>2
<1>9. ASSUME NEW s \in Slots, p >= 1, jobs[s].pid = p, Cleared(s)
      PROVE  ShellInv'
  <2>1. jobs[s].pid # 0
    BY <1>1, <1>9, InJobIs
  <2>2. /\ FreeSlotIsEmpty' /\ OneQueuePerPid'
        /\ \A t \in Slots : jobs'[t].pid = jobs[t].pid \/ jobs'[t].pid = 0
        /\ \A t \in Slots : jobs'[t].pid # 0 \/ jobs'[t].pid_q_length > 0
                             => jobs'[t] = jobs[t]
    BY <1>9, <2>1, DeleteKeepsTable
  <2>3. PipelineInv'
    BY <1>2, <2>2 DEF PipelineInv, Pipeline, Adding, AddLocs
  <2>4. \A n : Forked(n) => Forked(n)'
    BY <1>2, <2>2 DEF Forked, Adding, STypeOK
  <2>5. ForkInv'
    BY <1>2, <2>2, <2>4, SMTT(60) DEF ForkInv, STypeOK
  <2>6. AddInv'
    <3> SUFFICES ASSUME pc \in AddLocs PROVE AddInv'
      BY <1>2 DEF AddInv
    <3>1. /\ slot \in Slots /\ jobs[slot].pid \in {0, child_pids[1]}
          /\ num_cmds >= 1 => Forked(num_cmds)
      BY DEF AddInv
    <3>2. jobs'[slot].pid \in {0, child_pids[1]}
      BY <2>2, <3>1
    <3>3. ASSUME pc \in {"add_state", "add_jid", "add_inc", "add_len"}
          PROVE  /\ i = 1 /\ jobs'[slot].pid_q_length = 0
                 /\ num_cmds >= 1 => jobs'[slot].pid # 0
      <4>1. /\ i = 1 /\ jobs[slot].pid_q_length = 0
            /\ num_cmds >= 1 => jobs[slot].pid # 0
        BY <3>3 DEF AddInv
      <4>2. jobs'[slot].pid_q_length = 0
        <5>1. jobs'[slot].pid_q_length \in 0..MAX_CMD_NUM
          BY <1>4, <3>1 DEF JobRecords
        <5> QED
          BY <2>2, <3>1, <4>1, <5>1
      <4>3. ASSUME num_cmds >= 1 PROVE slot # s
        <5>1. hi # slot
          BY <4>1, InJobIs
        <5>2. jobs[hi].pid < child_pids[1]
          BY <1>1, <3>1, <4>3, <5>1 DEF Forked, Adding, AddLocs
        <5>3. jobs[slot].pid = child_pids[1]
          BY <3>1, <4>1, <4>3
        <5> QED
          BY <1>1, <1>9, <5>2, <5>3 DEF Pids
      <4>4. \A t \in Slots : t # s => jobs'[t] = jobs[t]
        BY <1>9 DEF Cleared
      <4> QED
        BY <3>1, <4>1, <4>2, <4>3, <4>4
    <3>4. ASSUME pc \in {"add_q", "add_store"}, jobs'[slot].pid # 0
          PROVE  /\ jobs'[slot].pid_q_length = num_cmds
                 /\ \A k \in 1..i - 1 : jobs'[slot].pid_q[k] = child_pids[k]
      <4>1. jobs'[slot] = jobs[slot]
        BY <2>2, <3>1, <3>4
      <4> QED
        BY <3>4, <4>1 DEF AddInv
    <3>5. /\ pc = "add_q" => i <= num_cmds + 1
          /\ pc = "add_store" => i <= num_cmds
      BY DEF AddInv
    <3> QED
      BY <1>2, <2>4, <3>1, <3>2, <3>3, <3>4, <3>5 DEF AddInv
  <2> QED
    BY <1>5, <1>6, <1>7, <2>2, <2>3, <2>5, <2>6
<1> QED
  BY <1>3, <1>8, <1>9

\* Both branches of the handler, with the child that waitpid took.
LEMMA HandlerWaitKeeps ==
    ASSUME ShellInv, HandlerReaps \/ HandlerNothing
    PROVE  ShellInv'
<1>1. CASE HandlerReaps
  <2>1. PICK c \in Candidates :
            IF proc[c] = "exited" THEN HandlerTerminated(c) ELSE HandlerKept(c)
    BY <1>1 DEF HandlerReaps
  <2>2. InJob /\ c \in Zombies \cup {0}
    BY <1>1, <2>1 DEF HandlerReaps, Candidates
  <2> QED
    BY <2>1, <2>2, HandlerTerminatedKeeps, HandlerKeptKeeps
<1>2. CASE HandlerNothing
  BY <1>2, HandlerTerminatedKeeps, HandlerKeptKeeps DEF HandlerNothing
<1> QED
  BY <1>1, <1>2

\* A child dies.
LEMMA ExitKeeps ==
    ASSUME ShellInv, NEW p \in Pids, Exit(p)
    PROVE  ShellInv'
<1> USE ShellConstants DEF ShellInv, Exit, tableVars, handlerVars, mainVars
<1>1. STypeOK'
  BY DEF STypeOK
<1>2. FreeSlotIsEmpty' /\ OneQueuePerPid' /\ PipelineInv'
  BY DEF FreeSlotIsEmpty, OneQueuePerPid, PipelineInv, Pipeline, Adding, AddLocs
<1>3. ForkInv' /\ AddInv' /\ FgInv'
  BY DEF ForkInv, AddInv, Forked, Adding, FgInv
<1>4. ChildInv'
  BY DEF ChildInv, AddLocs, STypeOK, Pids
<1> QED
  BY <1>1, <1>2, <1>3, <1>4

-----------------------------------------------------------------------------
(* The main loop.                                                          *)

\* A command line.
LEMMA ReadCommandKeeps ==
    ASSUME ShellInv, NEW n \in 0..MAX_CMD_NUM, NEW b \in BOOLEAN, ReadCommand(n, b)
    PROVE  ShellInv'
<1> USE ShellConstants DEF ShellInv, ReadCommand, At, tableVars, handlerVars
<1>1. STypeOK'
  BY DEF STypeOK
<1>2. FreeSlotIsEmpty' /\ OneQueuePerPid' /\ PipelineInv'
  BY DEF FreeSlotIsEmpty, OneQueuePerPid, PipelineInv, Pipeline, Adding, AddLocs
<1>3. ForkInv'
  BY DEF ForkInv, STypeOK
<1>4. AddInv' /\ FgInv' /\ ChildInv'
  BY DEF AddInv, AddLocs, FgInv, ChildInv
<1> QED
  BY <1>1, <1>2, <1>3, <1>4

\* A command without a process.
LEMMA ReadBuiltinKeeps ==
    ASSUME ShellInv, ReadBuiltin
    PROVE  ShellInv'
<1> USE ShellConstants DEF ShellInv, ReadBuiltin, At, tableVars, handlerVars
<1>1. STypeOK'
  BY DEF STypeOK
<1>2. FreeSlotIsEmpty' /\ OneQueuePerPid' /\ PipelineInv'
  BY DEF FreeSlotIsEmpty, OneQueuePerPid, PipelineInv, Pipeline, Adding, AddLocs
<1>3. ForkInv' /\ AddInv' /\ FgInv' /\ ChildInv'
  BY DEF ForkInv, AddInv, AddLocs, FgInv, ChildInv
<1> QED
  BY <1>1, <1>2, <1>3

\* The shell exits.
LEMMA ReadExitKeeps ==
    ASSUME ShellInv, ReadExit
    PROVE  ShellInv'
<1> USE ShellConstants DEF ShellInv, ReadExit, At, tableVars, handlerVars
<1>1. STypeOK'
  BY DEF STypeOK
<1>2. FreeSlotIsEmpty' /\ OneQueuePerPid' /\ PipelineInv'
  BY DEF FreeSlotIsEmpty, OneQueuePerPid, PipelineInv, Pipeline, Adding, AddLocs
<1>3. ForkInv' /\ AddInv' /\ FgInv' /\ ChildInv'
  BY DEF ForkInv, AddInv, AddLocs, FgInv, ChildInv
<1> QED
  BY <1>1, <1>2, <1>3

\* fg: getjobjid returns a slot or nothing.
LEMMA ReadFgKeeps ==
    ASSUME ShellInv, NEW j \in 0..MaxJid, ReadFg(j)
    PROVE  ShellInv'
<1> USE ShellConstants DEF ShellInv, ReadFg, At, tableVars, handlerVars
<1>1. getjobjid(j) = 0 \/ getjobjid(j) \in Slots
  BY FirstIs DEF getjobjid
<1>2. getjobjid(j) # 0 => jobs[getjobjid(j)].pid_q_length \in 0..MAX_CMD_NUM
  BY <1>1, Fields
<1>3. STypeOK'
  <2>1. slot' \in 0..MAXJOBS /\ i' \in 1..MAX_CMD_NUM + 1
    BY <1>1 DEF Slots
  <2>2. old' \in Nat /\ program' \in BOOLEAN /\ pc' \in {"crash", "fg"}
    <3>1. old \in Nat
      BY DEF STypeOK
    <3>2. \/ pc' = "crash" /\ old' = old
          \/ pc' = "fg" /\ getjobjid(j) # 0 /\ old' = jobs[getjobjid(j)].pid_q_length
      OBVIOUS
    <3>3. old' \in Nat
      BY <1>2, <3>1, <3>2
    <3> QED
      BY <3>2, <3>3
  <2>3. UNCHANGED <<jobs, nextjid, num_cmds, child_pids, proc, forked, sigchld, hi, hj,
                    bg, cnt_pid>>
    OBVIOUS
  <2> QED
    BY <2>1, <2>2, <2>3 DEF STypeOK
<1>4. FreeSlotIsEmpty' /\ OneQueuePerPid' /\ PipelineInv'
  BY DEF FreeSlotIsEmpty, OneQueuePerPid, PipelineInv, Pipeline, Adding, AddLocs
<1>5. ForkInv' /\ AddInv' /\ ChildInv'
  BY DEF ForkInv, AddInv, AddLocs, ChildInv
<1>6. FgInv'
  BY <1>1, <1>2 DEF FgInv
<1> QED
  BY <1>3, <1>4, <1>5, <1>6

\* fork: the new pid is larger than every pid before it.
LEMMA ForkKeeps ==
    ASSUME ShellInv, Fork
    PROVE  ShellInv'
<1> USE ShellConstants DEF ShellInv, tableVars, handlerVars
<1>1. /\ pc = "fork" /\ pc' = "fork" /\ i' = i + 1 /\ i <= num_cmds
      /\ UNCHANGED <<jobs, nextjid, sigchld, hi, hj, num_cmds, program, bg, slot,
                     old, cnt_pid>>
  BY DEF Fork, At
<1>2. i \in 1..MAX_CMD_NUM /\ num_cmds \in 1..MAX_CMD_NUM /\ forked \in 0..MaxPid
  BY <1>1 DEF STypeOK
<1>3. forked + 1 \in Pids
  BY <1>1, <1>2 DEF ForkInv, Pids
<1>4. \A k \in 1..MAX_CMD_NUM : child_pids[k] \in -1..MaxPid
  BY DEF STypeOK
<1>5. FreeSlotIsEmpty' /\ OneQueuePerPid' /\ PipelineInv' /\ AddInv' /\ FgInv'
  BY <1>1
  DEF FreeSlotIsEmpty, OneQueuePerPid, PipelineInv, Pipeline, Adding, AddInv, AddLocs, FgInv
<1>6. CASE /\ forked' = forked + 1
           /\ proc' = [proc EXCEPT ![forked + 1] = "run"]
           /\ child_pids' = [child_pids EXCEPT ![i] = forked + 1]
  <2>1. STypeOK'
    BY <1>1, <1>2, <1>3, <1>6 DEF STypeOK, Pids
  <2>2. \A k \in 1..MAX_CMD_NUM :
           child_pids'[k] = IF k = i THEN forked + 1 ELSE child_pids[k]
    BY <1>6 DEF STypeOK
  <2>3. \A s \in Slots : jobs[s].pid \in 0..MaxPid
    BY Fields
  <2>4. ForkInv'
    <3>1. \A s \in Slots : jobs'[s].pid <= forked'
      BY <1>1, <1>2, <1>6, <2>3 DEF ForkInv
    <3>2. i' <= num_cmds' + 1 /\ forked' + num_cmds' < MaxPid + i'
      BY <1>1, <1>2, <1>6 DEF ForkInv
    <3>3. ASSUME child_pids'[1] # -1
          PROVE  /\ child_pids'[1] \in 1..forked'
                 /\ forked' <= child_pids'[1] + i' - 2
                 /\ \A k \in 2..i : \/ child_pids'[k] = -1
                                    \/ child_pids'[k] \in child_pids'[1] + 1 ..
                                                          child_pids'[1] + k - 1
                 /\ \A s \in Slots : jobs'[s].pid < child_pids'[1]
      <4>1. CASE i = 1
        BY <1>1, <1>2, <1>6, <2>2, <2>3, <4>1 DEF ForkInv
      <4>2. CASE i > 1
        <5>1. child_pids'[1] = child_pids[1] /\ child_pids'[i] = forked + 1
          BY <1>2, <2>2, <4>2
        <5>2. Forked(i - 1) /\ forked <= child_pids[1] + i - 2
          BY <1>1, <3>3, <4>2, <5>1 DEF ForkInv
        <5>3. /\ child_pids[1] \in 1..forked
              /\ \A s \in Slots : jobs[s].pid < child_pids[1]
          BY <1>1, <5>2 DEF Forked, Adding, AddLocs
        <5>4. ASSUME NEW k \in 2..i
              PROVE  \/ child_pids'[k] = -1
                     \/ child_pids'[k] \in child_pids[1] + 1 .. child_pids[1] + k - 1
          <6>1. CASE k = i
            BY <1>2, <4>2, <5>1, <5>2, <5>3, <6>1
          <6>2. CASE k # i
            <7>1. k \in 2..(i - 1) /\ child_pids'[k] = child_pids[k]
              BY <1>2, <2>2, <6>2
            <7> QED
              BY <5>2, <7>1 DEF Forked
          <6> QED
            BY <6>1, <6>2
        <5> QED
          BY <1>1, <1>2, <1>6, <5>1, <5>2, <5>3, <5>4
      <4> QED
        BY <1>2, <4>1, <4>2
    <3> QED
      BY <1>1, <1>2, <3>1, <3>2, <3>3 DEF ForkInv, Forked
  <2>5. ChildInv'
    BY <1>1, <1>2, <1>3, <1>4, <1>6, <2>2 DEF ChildInv, AddLocs, STypeOK, Pids
  <2> QED
    BY <1>5, <2>1, <2>4, <2>5
<1>7. CASE UNCHANGED <<forked, proc>> /\ child_pids' = [child_pids EXCEPT ![i] = -1]
  <2>1. STypeOK'
    BY <1>1, <1>2, <1>7 DEF STypeOK, Pids
  <2>2. \A k \in 1..MAX_CMD_NUM :
           child_pids'[k] = IF k = i THEN -1 ELSE child_pids[k]
    BY <1>7 DEF STypeOK
  <2>3. ForkInv'
    <3>1. i' <= num_cmds' + 1 /\ forked' + num_cmds' < MaxPid + i'
      BY <1>1, <1>2, <1>7 DEF ForkInv
    <3>2. ASSUME child_pids'[1] # -1
          PROVE  /\ child_pids'[1] \in 1..forked'
                 /\ forked' <= child_pids'[1] + i' - 2
                 /\ \A k \in 2..i : \/ child_pids'[k] = -1
                                    \/ child_pids'[k] \in child_pids'[1] + 1 ..
                                                          child_pids'[1] + k - 1
                 /\ \A s \in Slots : jobs'[s].pid < child_pids'[1]
      <4>1. i > 1 /\ child_pids'[1] = child_pids[1]
        BY <1>2, <2>2, <3>2
      <4>2. Forked(i - 1) /\ forked <= child_pids[1] + i - 2
        BY <1>1, <3>2, <4>1 DEF ForkInv
      <4>3. \A k \in 2..i : k \in 2..(i - 1) \/ k = i
        BY <1>2
      <4>4. (\A k \in 2..i : \/ child_pids'[k] = -1
                             \/ child_pids'[k] \in child_pids'[1] + 1 ..
                                                   child_pids'[1] + k - 1)
        BY <1>2, <2>2, <4>1, <4>2, <4>3 DEF Forked
      <4>5. /\ child_pids[1] \in 1..forked
            /\ \A s \in Slots : jobs[s].pid < child_pids[1]
        BY <1>1, <4>2 DEF Forked, Adding, AddLocs
      <4> QED
        BY <1>1, <1>2, <1>4, <1>7, <4>1, <4>2, <4>4, <4>5
    <3> QED
      BY <1>1, <1>2, <1>7, <3>1, <3>2 DEF ForkInv, Forked
  <2>4. ChildInv'
    BY <1>1, <1>2, <1>4, <1>7, <2>2 DEF ChildInv, AddLocs, STypeOK
  <2> QED
    BY <1>5, <2>1, <2>3, <2>4
<1> QED
  BY <1>6, <1>7 DEF Fork

\* addjob takes the slot: it was free, and the pid is in no other slot.
LEMMA AddPidKeeps ==
    ASSUME ShellInv, AddPid
    PROVE  ShellInv'
<1> USE ShellConstants DEF ShellInv, handlerVars
<1>1. /\ pc = "fork" /\ i > num_cmds /\ i' = 1
      /\ UNCHANGED <<nextjid, proc, forked, sigchld, hi, hj, num_cmds, child_pids,
                     program, bg, old, cnt_pid>>
  BY DEF AddPid, At, AfterAdd
<1>2. /\ i = num_cmds + 1 /\ num_cmds \in 0..MAX_CMD_NUM /\ bg \in BOOLEAN
      /\ child_pids[1] \in -1..MaxPid /\ forked \in 0..MaxPid
  BY <1>1 DEF ForkInv, STypeOK
<1>3. CASE child_pids[1] < 1 \/ FreeSlot = 0
  <2>1. jobs' = jobs /\ slot' = 0 /\ pc' \in {"prompt", "wait"}
    BY <1>3 DEF AddPid, AfterAdd
  <2>2. STypeOK'
    BY <1>1, <2>1 DEF STypeOK
  <2>3. FreeSlotIsEmpty' /\ OneQueuePerPid' /\ PipelineInv'
    BY <1>1, <2>1 DEF FreeSlotIsEmpty, OneQueuePerPid, PipelineInv, Pipeline, Adding, AddLocs
  <2>4. ForkInv' /\ AddInv' /\ FgInv'
    BY <1>1, <2>1 DEF ForkInv, AddInv, AddLocs, FgInv
  <2>5. ChildInv'
    BY <1>1, <1>2, <2>1 DEF ChildInv, AddLocs
  <2> QED
    BY <2>2, <2>3, <2>4, <2>5
<1>4. CASE ~(child_pids[1] < 1 \/ FreeSlot = 0)
  <2> DEFINE f == FreeSlot
             p == child_pids[1]
  <2>1. f \in Slots /\ jobs[f].pid = 0
    BY <1>4, FirstIs DEF FreeSlot
  <2>2. slot' = f /\ pc' = "add_state" /\ jobs' = [jobs EXCEPT ![f].pid = p]
    BY <1>4 DEF AddPid
  <2> HIDE DEF f
  <2>3. jobs \in [Slots -> JobRecords] /\ p \in 1..MaxPid /\ p <= forked
    BY <1>2, <1>4 DEF STypeOK, ChildInv
  <2>4. /\ jobs' \in [Slots -> JobRecords]
        /\ \A t \in Slots : t # f => jobs'[t] = jobs[t]
        /\ jobs'[f].pid = p /\ jobs'[f].pid_q_length = jobs[f].pid_q_length
    <3> DEFINE r == [jobs[f] EXCEPT !.pid = p]
    <3>1. ASSUME NEW j \in JobRecords, NEW x \in 0..MaxPid
          PROVE  LET y == [j EXCEPT !.pid = x]
                 IN  y \in JobRecords /\ y.pid = x /\ y.pid_q_length = j.pid_q_length
      BY DEF JobRecords
    <3> HIDE DEF p
    <3>2. r \in JobRecords /\ r.pid = p /\ r.pid_q_length = jobs[f].pid_q_length
      BY <2>1, <2>3, <3>1
    <3>3. jobs' = [jobs EXCEPT ![f] = r]
      BY <2>1, <2>2, <2>3
    <3> HIDE DEF r
    <3> QED
      BY <2>1, <2>3, <3>2, <3>3
  <2>5. jobs[f].pid_q_length = 0
    BY <2>1 DEF FreeSlotIsEmpty
  <2>6. num_cmds >= 1 => Forked(num_cmds) /\ \A s \in Slots : jobs[s].pid < p
    BY <1>1, <1>2, <1>4 DEF ForkInv, Forked, Adding, AddLocs
  <2>7. STypeOK'
    BY <1>1, <2>1, <2>2, <2>4, SMTT(60) DEF STypeOK, Slots
  <2>8. FreeSlotIsEmpty' /\ OneQueuePerPid'
    BY <2>1, <2>4, <2>5 DEF FreeSlotIsEmpty, OneQueuePerPid
  <2>9. PipelineInv'
    BY <1>1, <2>1, <2>2, <2>4, <2>5 DEF PipelineInv, Pipeline, Adding, AddLocs
  <2>10. ForkInv'
    BY <1>1, <2>2, <2>3, <2>4 DEF ForkInv
  <2>11. AddInv'
    <3>1. num_cmds >= 1 => (Forked(num_cmds))'
      BY <1>1, <2>1, <2>2, <2>4, <2>6 DEF Forked, Adding, AddLocs
    <3> QED
      BY <1>1, <1>2, <2>1, <2>2, <2>3, <2>4, <2>5, <3>1 DEF AddInv, AddLocs
  <2>12. FgInv' /\ ChildInv'
    BY <1>1, <1>2, <2>2 DEF FgInv, ChildInv, AddLocs
  <2> QED
    BY <2>7, <2>8, <2>9, <2>10, <2>11, <2>12
<1> QED
  BY <1>3, <1>4

\* addjob reads nextjid.
LEMMA AddReadJidKeeps ==
    ASSUME ShellInv, AddReadJid
    PROVE  ShellInv'
<1> USE ShellConstants DEF ShellInv, AddReadJid, At, tableVars, handlerVars
<1>1. STypeOK'
  BY DEF STypeOK
<1>2. FreeSlotIsEmpty' /\ OneQueuePerPid' /\ PipelineInv'
  BY DEF FreeSlotIsEmpty, OneQueuePerPid, PipelineInv, Pipeline, Adding, AddLocs
<1>3. ForkInv' /\ AddInv'
  BY DEF ForkInv, AddInv, AddLocs, Forked, Adding
<1>4. FgInv' /\ ChildInv'
  BY DEF FgInv, ChildInv, AddLocs
<1> QED
  BY <1>1, <1>2, <1>3, <1>4

\* A store of addjob in its slot: of the other slots nothing changes, and of
\* this one not the pid.
StoresInSlot ==
    /\ jobs' \in [Slots -> JobRecords]
    /\ \A t \in Slots : t # slot => jobs'[t] = jobs[t]
    /\ jobs'[slot].pid = jobs[slot].pid

\* Such a store keeps what is said of the pids.
LEMMA StoreKeeps ==
    ASSUME ShellInv, pc \in AddLocs, pc' \in AddLocs, StoresInSlot,
           UNCHANGED <<slot, child_pids, forked, num_cmds, proc>>
    PROVE  /\ PipelineInv' /\ ForkInv' /\ FgInv' /\ ChildInv'
           /\ num_cmds >= 1 => (Forked(num_cmds))'
           /\ jobs'[slot].pid_q_length = jobs[slot].pid_q_length =>
                 FreeSlotIsEmpty' /\ OneQueuePerPid'
<1> USE DEF ShellInv, StoresInSlot
<1>1. \A t \in Slots : jobs'[t].pid = jobs[t].pid
  OBVIOUS
<1>2. FgInv' /\ ForkInv'
  BY <1>1 DEF FgInv, ForkInv, AddLocs
<1>3. PipelineInv'
  BY DEF PipelineInv, Pipeline, Adding, AddLocs
<1>4. ChildInv'
  BY DEF ChildInv, AddLocs
<1>5. num_cmds >= 1 => (Forked(num_cmds))'
  BY <1>1 DEF AddInv, Forked, Adding, AddLocs
<1>6. jobs'[slot].pid_q_length = jobs[slot].pid_q_length =>
         FreeSlotIsEmpty' /\ OneQueuePerPid'
  <2>1. jobs'[slot].pid_q_length = jobs[slot].pid_q_length =>
           \A t \in Slots : jobs'[t].pid_q_length = jobs[t].pid_q_length
    OBVIOUS
  <2> QED
    BY <1>1, <2>1 DEF FreeSlotIsEmpty, OneQueuePerPid
<1> QED
  BY <1>2, <1>3, <1>4, <1>5, <1>6

\* addjob stores the state.
LEMMA AddStateKeeps ==
    ASSUME ShellInv, AddState
    PROVE  ShellInv'
<1> USE ShellConstants DEF ShellInv, AddState, At, handlerVars
<1>1. slot \in Slots /\ jobs \in [Slots -> JobRecords]
  BY DEF AddInv, AddLocs, STypeOK
<1>2. /\ StoresInSlot
      /\ jobs'[slot].pid_q_length = jobs[slot].pid_q_length
  BY <1>1 DEF StoresInSlot, JobRecords
<1>3. STypeOK'
  BY <1>1, <1>2, SMTT(60) DEF STypeOK, StoresInSlot
<1>4. /\ FreeSlotIsEmpty' /\ OneQueuePerPid' /\ PipelineInv' /\ ForkInv' /\ FgInv'
      /\ ChildInv' /\ (num_cmds >= 1 => (Forked(num_cmds))')
  BY <1>2, StoreKeeps DEF AddLocs
<1>5. AddInv'
  BY <1>2, <1>4 DEF AddInv, AddLocs, StoresInSlot
<1> QED
  BY <1>3, <1>4, <1>5

\* addjob stores the job id.
LEMMA AddJidKeeps ==
    ASSUME ShellInv, AddJid
    PROVE  ShellInv'
<1> USE ShellConstants DEF ShellInv, AddJid, At, handlerVars
<1>1. slot \in Slots /\ jobs \in [Slots -> JobRecords] /\ old \in Nat
  BY DEF AddInv, AddLocs, STypeOK
<1>2. /\ StoresInSlot
      /\ jobs'[slot].pid_q_length = jobs[slot].pid_q_length
  BY <1>1 DEF StoresInSlot, JobRecords
<1>3. STypeOK'
  BY <1>1, <1>2, SMTT(60) DEF STypeOK, StoresInSlot
<1>4. /\ FreeSlotIsEmpty' /\ OneQueuePerPid' /\ PipelineInv' /\ ForkInv' /\ FgInv'
      /\ ChildInv' /\ (num_cmds >= 1 => (Forked(num_cmds))')
  BY <1>2, StoreKeeps DEF AddLocs
<1>5. AddInv'
  BY <1>2, <1>4 DEF AddInv, AddLocs, StoresInSlot
<1> QED
  BY <1>3, <1>4, <1>5

\* addjob stores the length: from here on the handler may delete the job.
LEMMA AddLengthKeeps ==
    ASSUME ShellInv, AddLength
    PROVE  ShellInv'
<1> USE ShellConstants DEF ShellInv, AddLength, At, handlerVars
<1>1. /\ slot \in Slots /\ jobs \in [Slots -> JobRecords]
      /\ num_cmds \in 0..MAX_CMD_NUM /\ i = 1
      /\ num_cmds >= 1 => jobs[slot].pid # 0 /\ jobs[slot].pid = child_pids[1]
                          /\ Forked(num_cmds)
  BY DEF AddInv, AddLocs, STypeOK
<1>2. StoresInSlot /\ jobs'[slot].pid_q_length = num_cmds
  BY <1>1 DEF StoresInSlot, JobRecords
<1>3. STypeOK'
  BY <1>1, <1>2 DEF STypeOK, StoresInSlot
<1>4. /\ PipelineInv' /\ ForkInv' /\ FgInv' /\ ChildInv'
      /\ num_cmds >= 1 => (Forked(num_cmds))'
  BY <1>2, StoreKeeps DEF AddLocs
<1>5. FreeSlotIsEmpty'
  BY <1>1, <1>2 DEF FreeSlotIsEmpty, StoresInSlot
<1>6. OneQueuePerPid'
  <2>1. \A t \in Slots : jobs'[t].pid = jobs[t].pid
    BY <1>2 DEF StoresInSlot
  <2>2. num_cmds >= 1 => \A t \in Slots : t # slot => jobs[t].pid # jobs[slot].pid
    BY <1>1, Fields DEF Forked, Adding, AddLocs
  <2>3. \A t \in Slots : t # slot => jobs'[t].pid_q_length = jobs[t].pid_q_length
    BY <1>2 DEF StoresInSlot
  <2> QED
    BY <1>1, <1>2, <2>1, <2>2, <2>3 DEF OneQueuePerPid
<1>7. AddInv'
  BY <1>1, <1>2, <1>4 DEF AddInv, AddLocs, StoresInSlot
<1> QED
  BY <1>3, <1>4, <1>5, <1>6, <1>7

\* addjob is done: the pids it has copied are the pipeline, unless the handler
\* has emptied the slot.
LEMMA AddTestKeeps ==
    ASSUME ShellInv, AddTest
    PROVE  ShellInv'
<1> USE ShellConstants DEF ShellInv, AddTest, At, tableVars, handlerVars
<1>1. /\ slot \in Slots /\ (num_cmds >= 1 => Forked(num_cmds))
      /\ i \in 1..MAX_CMD_NUM + 1 /\ num_cmds \in 0..MAX_CMD_NUM /\ i <= num_cmds + 1
  BY DEF AddInv, AddLocs, STypeOK
<1>2. /\ jobs[slot].pid \in 0..MaxPid
      /\ jobs[slot].pid_q_length \in 0..MAX_CMD_NUM
      /\ jobs[slot].pid # 0 => /\ jobs[slot].pid = child_pids[1]
                               /\ jobs[slot].pid_q_length = num_cmds
                               /\ \A k \in 1..(i - 1) : jobs[slot].pid_q[k] = child_pids[k]
      /\ jobs[slot].pid = 0 => jobs[slot].pid_q_length = 0
  BY <1>1, Fields DEF AddInv, AddLocs, FreeSlotIsEmpty
<1>3. STypeOK'
  BY <1>1 DEF STypeOK, AfterAdd
<1>4. FreeSlotIsEmpty' /\ OneQueuePerPid'
  BY DEF FreeSlotIsEmpty, OneQueuePerPid
<1>5. CASE i <= jobs[slot].pid_q_length
  <2>1. jobs[slot].pid # 0 /\ pc' = "add_store" /\ i' = i /\ slot' = slot
    BY <1>1, <1>2, <1>5
  <2>2. PipelineInv' /\ ForkInv' /\ FgInv' /\ ChildInv'
    BY <2>1 DEF PipelineInv, Pipeline, Adding, ForkInv, FgInv, ChildInv, AddLocs
  <2>3. AddInv'
    BY <1>1, <1>2, <1>5, <2>1 DEF AddInv, AddLocs, Forked, Adding
  <2> QED
    BY <1>3, <1>4, <2>2, <2>3
<1>6. CASE ~(i <= jobs[slot].pid_q_length)
  <2>1. pc' \in {"prompt", "wait"} /\ i' = 1
    BY <1>6 DEF AfterAdd
  <2>2. jobs[slot].pid_q_length > 0 => Pipeline(slot)
    <3> SUFFICES ASSUME jobs[slot].pid_q_length > 0 PROVE Pipeline(slot)
      OBVIOUS
    <3>1. /\ jobs[slot].pid # 0 /\ jobs[slot].pid = child_pids[1]
          /\ jobs[slot].pid_q_length = num_cmds /\ num_cmds >= 1 /\ Forked(num_cmds)
      BY <1>1, <1>2
    <3>2. \A k \in 1..num_cmds : jobs[slot].pid_q[k] = child_pids[k]
      BY <1>1, <1>2, <1>6, <3>1
    <3> QED
      BY <1>1, <3>1, <3>2 DEF Pipeline, Forked
  <2>3. PipelineInv'
    <3>1. \A t \in Slots : jobs[t].pid_q_length > 0 => Pipeline(t)
      BY <2>2 DEF PipelineInv, Adding
    <3> QED
      BY <3>1 DEF PipelineInv, Pipeline
  <2>4. ForkInv' /\ AddInv' /\ FgInv'
    BY <2>1 DEF ForkInv, AddInv, AddLocs, FgInv
  <2>5. ChildInv'
    BY <1>1, <2>1 DEF ChildInv, AddLocs
  <2> QED
    BY <1>3, <1>4, <2>3, <2>4, <2>5
<1> QED
  BY <1>5, <1>6

\* addjob copies a pid.
LEMMA AddStoreKeeps ==
    ASSUME ShellInv, AddStore
    PROVE  ShellInv'
<1> USE ShellConstants DEF ShellInv, AddStore, At, handlerVars
<1>1. /\ slot \in Slots /\ jobs \in [Slots -> JobRecords]
      /\ i \in 1..MAX_CMD_NUM /\ i <= num_cmds /\ num_cmds \in 1..MAX_CMD_NUM
      /\ child_pids[i] \in -1..MaxPid
  BY SMTT(60) DEF AddInv, AddLocs, STypeOK
<1>2. jobs[slot].pid_q \in [1..MAX_CMD_NUM -> -1..MaxPid]
  BY <1>1, Fields
<1>3. /\ StoresInSlot
      /\ jobs'[slot].jid = jobs[slot].jid /\ jobs'[slot].state = jobs[slot].state
      /\ jobs'[slot].pid_q_length = jobs[slot].pid_q_length
      /\ jobs'[slot].pid_q = [jobs[slot].pid_q EXCEPT ![i] = child_pids[i]]
  BY <1>1, <1>2 DEF StoresInSlot, JobRecords
<1>4. STypeOK'
  BY <1>1, <1>3, SMTT(60) DEF STypeOK, StoresInSlot
<1>5. /\ FreeSlotIsEmpty' /\ OneQueuePerPid' /\ PipelineInv' /\ ForkInv' /\ FgInv'
      /\ ChildInv' /\ (num_cmds >= 1 => (Forked(num_cmds))')
  BY <1>3, StoreKeeps DEF AddLocs
<1>6. AddInv'
  <2>1. jobs[slot].pid # 0 =>
           \A k \in 1..(i' - 1) : jobs'[slot].pid_q[k] = child_pids[k]
    <3> SUFFICES ASSUME jobs[slot].pid # 0, NEW k \in 1..i
                 PROVE  jobs'[slot].pid_q[k] = child_pids[k]
      BY <1>1
    <3>1. k \in 1..MAX_CMD_NUM /\ (k = i \/ k \in 1..(i - 1))
      BY <1>1
    <3>2. \A m \in 1..(i - 1) : jobs[slot].pid_q[m] = child_pids[m]
      BY DEF AddInv, AddLocs
    <3>3. jobs'[slot].pid_q[k] = IF k = i THEN child_pids[i] ELSE jobs[slot].pid_q[k]
      BY <1>2, <1>3, <3>1
    <3> QED
      BY <3>1, <3>2, <3>3
  <2> QED
    BY <1>1, <1>3, <1>5, <2>1 DEF AddInv, AddLocs, StoresInSlot
<1> QED
  BY <1>4, <1>5, <1>6

\* waitpid has returned for a pipeline's process: the child is gone, or it was
\* before.
LEMMA WaitKeeps ==
    ASSUME ShellInv, Wait
    PROVE  ShellInv'
<1> USE ShellConstants DEF ShellInv, tableVars, handlerVars
<1>1. /\ pc = "wait" /\ i <= num_cmds /\ i' = i + 1
      /\ UNCHANGED <<jobs, nextjid, forked, sigchld, hi, hj, num_cmds, child_pids,
                     pc, program, bg, slot, old, cnt_pid>>
  BY DEF Wait, At
<1>2. PICK c \in Pids \cup {0} : Returned(child_pids[i], c)
  BY DEF Wait
<1>3. /\ i \in 1..MAX_CMD_NUM /\ num_cmds \in 1..MAX_CMD_NUM /\ forked \in 0..MaxPid
      /\ \A k \in 1..MAX_CMD_NUM : child_pids[k] \in -1..MaxPid
  BY <1>1 DEF STypeOK
<1>4. /\ proc \in [Pids -> {"none", "run", "exited", "killed", "shot", "gone"}]
      /\ proc' = [x \in Pids |-> IF x = c THEN "gone" ELSE proc[x]]
  BY <1>2 DEF Returned, STypeOK
<1>5. STypeOK'
  BY <1>1, <1>3, <1>4 DEF STypeOK
<1>6. FreeSlotIsEmpty' /\ OneQueuePerPid' /\ PipelineInv'
  BY <1>1 DEF FreeSlotIsEmpty, OneQueuePerPid, PipelineInv, Pipeline, Adding, AddLocs
<1>7. ForkInv' /\ AddInv' /\ FgInv'
  BY <1>1 DEF ForkInv, AddInv, AddLocs, FgInv
<1>8. \A x \in Pids : /\ proc[x] = "none" <=> proc'[x] = "none"
                      /\ proc[x] = "gone" => proc'[x] = "gone"
  <2>1. c \in Pids => proc[c] # "none"
    BY <1>2 DEF Returned, Zombies, Pids
  <2> QED
    BY <1>4, <2>1
<1>9. child_pids[i] > 0 => proc'[child_pids[i]] = "gone"
  <2> SUFFICES ASSUME child_pids[i] > 0 PROVE proc'[child_pids[i]] = "gone"
    OBVIOUS
  <2> DEFINE p == child_pids[i]
  <2>1. p \in Pids /\ p <= forked
    BY <1>1, <1>3 DEF ChildInv, Pids
  <2>2. proc[p] # "none" /\ p >= 1
    BY <2>1, <1>3 DEF ChildInv, Pids
  <2>3. CASE c \in Waited(p) \cap Zombies
    BY <1>4, <2>1, <2>2, <2>3 DEF Waited
  <2>4. CASE c = 0 /\ Waited(p) = {}
    <3>1. p \notin Children
      BY <2>2, <2>4 DEF Waited
    <3>2. proc[p] = "gone"
      BY <1>4, <2>1, <2>2, <3>1 DEF Children, Zombies
    <3> QED
      BY <1>8, <2>1, <3>2
  <2> QED
    BY <1>2, <2>3, <2>4 DEF Returned
<1>10. ChildInv'
  <2>1. \A k \in 1..i : k <= num_cmds /\ child_pids[k] > 0 => proc'[child_pids[k]] = "gone"
    <3> SUFFICES ASSUME NEW k \in 1..i, child_pids[k] > 0
                 PROVE  proc'[child_pids[k]] = "gone"
      OBVIOUS
    <3>1. CASE k = i
      BY <1>9, <3>1
    <3>2. CASE k # i
      <4>1. k \in 1..(i - 1) /\ k <= num_cmds /\ k \in 1..MAX_CMD_NUM
        BY <1>1, <1>3, <3>2
      <4>2. proc[child_pids[k]] = "gone" /\ child_pids[k] \in Pids
        BY <1>1, <1>3, <4>1 DEF ChildInv, Pids
      <4> QED
        BY <1>8, <4>2
    <3> QED
      BY <3>1, <3>2
  <2>2. i' - 1 = i
    BY <1>1, <1>3
  <2> QED
    BY <1>1, <1>3, <1>8, <2>1, <2>2 DEF ChildInv, AddLocs
<1> QED
  BY <1>5, <1>6, <1>7, <1>10

\* The pipeline has been waited for.
LEMMA WaitDoneKeeps ==
    ASSUME ShellInv, WaitDone
    PROVE  ShellInv'
<1> USE ShellConstants DEF ShellInv, WaitDone, At, tableVars, handlerVars
<1>1. STypeOK'
  BY DEF STypeOK
<1>2. FreeSlotIsEmpty' /\ OneQueuePerPid' /\ PipelineInv'
  BY DEF FreeSlotIsEmpty, OneQueuePerPid, PipelineInv, Pipeline, Adding, AddLocs
<1>3. ForkInv' /\ AddInv' /\ FgInv' /\ ChildInv'
  BY DEF ForkInv, AddInv, AddLocs, FgInv, ChildInv
<1> QED
  BY <1>1, <1>2, <1>3

\* waitfg reads the next pid: its place lies in the array, since the length it
\* began with did.
LEMMA FgReadKeeps ==
    ASSUME ShellInv, FgRead
    PROVE  ShellInv'
<1> USE ShellConstants DEF ShellInv, FgRead, At, tableVars, handlerVars
<1>1. slot \in Slots /\ old \in 0..MAX_CMD_NUM /\ i \in 1..MAX_CMD_NUM + 1
  BY DEF FgInv, STypeOK
<1>2. jobs[slot].pid_q \in [1..MAX_CMD_NUM -> -1..MaxPid]
  BY <1>1, Fields
<1>3. i <= old => jobs[slot].pid_q[i] \in -1..MaxPid
  BY <1>1, <1>2
<1>4. STypeOK'
  <2>1. CASE i > old
    <3>1. /\ pc' = "prompt" /\ i' = 1 /\ slot' = 0 /\ old' = 0 /\ cnt_pid' = 0
      BY <2>1
    <3>2. /\ i' \in 1..MAX_CMD_NUM + 1 /\ slot' \in 0..MAXJOBS
          /\ old' \in Nat /\ cnt_pid' \in -1..MaxPid
      BY <3>1
    <3> QED
      BY <3>1, <3>2 DEF STypeOK
  <2>2. CASE ~(i > old)
    <3>1. /\ pc' = "fg_wait" /\ UNCHANGED <<i, slot, old>>
          /\ cnt_pid' = jobs[slot].pid_q[i]
      BY <2>2
    <3>2. cnt_pid' \in -1..MaxPid
      BY <3>1, <2>2, <1>1, <1>3
    <3> QED
      BY <3>1, <3>2 DEF STypeOK
  <2> QED
    BY <2>1, <2>2
<1>5. FreeSlotIsEmpty' /\ OneQueuePerPid' /\ PipelineInv'
  BY DEF FreeSlotIsEmpty, OneQueuePerPid, PipelineInv, Pipeline, Adding, AddLocs
<1>6. ForkInv' /\ AddInv' /\ ChildInv'
  BY DEF ForkInv, AddInv, AddLocs, ChildInv
<1>7. FgInv'
  BY <1>1 DEF FgInv
<1> QED
  BY <1>4, <1>5, <1>6, <1>7

\* waitfg waits for the pid and may delete its job; no job is being added.
LEMMA FgWaitKeeps ==
    ASSUME ShellInv, FgWait
    PROVE  ShellInv'
<1> USE ShellConstants DEF ShellInv, tableVars, handlerVars
<1>1. /\ pc = "fg_wait" /\ i' = i + 1
      /\ UNCHANGED <<forked, sigchld, hi, hj, num_cmds, child_pids, program, bg, slot,
                     old, cnt_pid>>
  BY DEF FgWait, At
<1>2. PICK c \in Pids \cup {0}, exited \in BOOLEAN :
          /\ Returned(cnt_pid, c)
          /\ IF exited /\ cnt_pid < 1
             THEN pc' = "dead" /\ UNCHANGED tableVars
             ELSE /\ pc' = "fg"
                  /\ IF exited THEN deletejob(cnt_pid) ELSE UNCHANGED tableVars
  BY DEF FgWait
<1>3. pc' \in {"fg", "dead"} /\ (deletejob(cnt_pid) \/ UNCHANGED <<jobs, nextjid>>)
  BY <1>2
<1>4. /\ i \in 1..MAX_CMD_NUM /\ old \in 0..MAX_CMD_NUM /\ slot \in Slots
      /\ cnt_pid \in Int /\ forked \in 0..MaxPid
  BY <1>1 DEF FgInv, STypeOK
<1>5. /\ nextjid' \in Nat \ {0}
      /\ \/ jobs' = jobs
         \/ \E s \in Slots : cnt_pid >= 1 /\ jobs[s].pid = cnt_pid /\ Cleared(s)
  BY <1>3, <1>4, Deletes DEF STypeOK
<1>6. /\ proc \in [Pids -> {"none", "run", "exited", "killed", "shot", "gone"}]
      /\ proc' = [x \in Pids |-> IF x = c THEN "gone" ELSE proc[x]]
  BY <1>2 DEF Returned, STypeOK
<1>7. jobs' \in [Slots -> JobRecords]
  BY <1>5 DEF Cleared, STypeOK
<1>8. STypeOK'
  BY <1>1, <1>3, <1>4, <1>5, <1>6, <1>7 DEF STypeOK
<1>9. ChildInv'
  <2>1. c \in Pids => proc[c] # "none"
    BY <1>2 DEF Returned, Zombies, Pids
  <2> QED
    BY <1>1, <1>3, <1>6, <2>1 DEF ChildInv, AddLocs
<1>10. AddInv' /\ FgInv'
  BY <1>1, <1>3 DEF AddInv, AddLocs, FgInv
<1>11. /\ FreeSlotIsEmpty' /\ OneQueuePerPid'
       /\ \A t \in Slots : jobs'[t].pid = jobs[t].pid \/ jobs'[t].pid = 0
       /\ \A t \in Slots : jobs'[t].pid # 0 \/ jobs'[t].pid_q_length > 0
                            => jobs'[t] = jobs[t]
  <2>1. CASE jobs' = jobs
    BY <2>1 DEF FreeSlotIsEmpty, OneQueuePerPid
  <2>2. ASSUME NEW s \in Slots, cnt_pid >= 1, jobs[s].pid = cnt_pid, Cleared(s)
        PROVE  /\ FreeSlotIsEmpty' /\ OneQueuePerPid'
               /\ \A t \in Slots : jobs'[t].pid = jobs[t].pid \/ jobs'[t].pid = 0
               /\ \A t \in Slots : jobs'[t].pid # 0 \/ jobs'[t].pid_q_length > 0
                                    => jobs'[t] = jobs[t]
    <3>1. jobs[s].pid # 0
      BY <1>4, <2>2
    <3> QED
      BY <2>2, <3>1, DeleteKeepsTable
  <2> QED
    BY <1>5, <2>1, <2>2
<1>12. PipelineInv'
  BY <1>1, <1>3, <1>11 DEF PipelineInv, Pipeline, Adding, AddLocs
<1>13. ForkInv'
  BY <1>1, <1>3, <1>4, <1>11 DEF ForkInv
<1> QED
  BY <1>8, <1>9, <1>10, <1>11, <1>12, <1>13

-----------------------------------------------------------------------------
(* The theorems.                                                           *)

\* The empty table satisfies the invariant.
LEMMA InitShell ==
    ASSUME SInit
    PROVE  ShellInv
<1> USE ShellConstants DEF SInit
<1>1. NoJob \in JobRecords
  BY DEF NoJob, JobRecords
<1>2. STypeOK
  <2>1. jobs \in [Slots -> JobRecords]
    BY <1>1
  <2>2. child_pids \in [1..MAX_CMD_NUM -> -1..MaxPid]
    OBVIOUS
  <2>3. proc \in [Pids -> {"none", "run", "exited", "killed", "shot", "gone"}]
    OBVIOUS
  <2>4. sigchld \in BOOLEAN /\ program \in BOOLEAN /\ bg \in BOOLEAN
    OBVIOUS
  <2> QED
    BY <2>1, <2>2, <2>3, <2>4 DEF STypeOK
<1>3. \A s \in Slots : /\ jobs[s].pid = 0 /\ jobs[s].jid = 0
                       /\ jobs[s].state = "UNDEF" /\ jobs[s].pid_q_length = 0
  BY DEF NoJob
<1>4. FreeSlotIsEmpty /\ OneQueuePerPid /\ PipelineInv
  BY <1>3 DEF FreeSlotIsEmpty, OneQueuePerPid, PipelineInv
<1>5. ForkInv /\ AddInv /\ FgInv /\ ChildInv
  BY <1>3 DEF ForkInv, AddInv, AddLocs, FgInv, ChildInv, Pids
<1> QED
  BY <1>2, <1>4, <1>5 DEF ShellInv

\* Every step keeps the invariant: one case per action.
LEMMA NextShell ==
    ASSUME ShellInv, [SNext]_svars
    PROVE  ShellInv'
<1>1. CASE HandlerStart
  BY <1>1, HandlerStartKeeps
<1>2. CASE HandlerNext
  BY <1>2, HandlerNextKeeps
<1>3. CASE HandlerReaps \/ HandlerNothing
  BY <1>3, HandlerWaitKeeps
<1>4. CASE Fork
  BY <1>4, ForkKeeps
<1>5. CASE AddPid \/ AddState
  BY <1>5, AddPidKeeps, AddStateKeeps
<1>6. CASE AddReadJid
  BY <1>6, AddReadJidKeeps
<1>7. CASE AddJid
  BY <1>7, AddJidKeeps
<1>8. CASE AddLength
  BY <1>8, AddLengthKeeps
<1>9. CASE AddTest
  BY <1>9, AddTestKeeps
<1>10. CASE AddStore
  BY <1>10, AddStoreKeeps
<1>11. CASE Wait
  BY <1>11, WaitKeeps
<1>12. CASE WaitDone
  BY <1>12, WaitDoneKeeps
<1>13. CASE FgRead
  BY <1>13, FgReadKeeps
<1>14. CASE FgWait
  BY <1>14, FgWaitKeeps
<1>15. CASE User
  BY <1>15, ReadCommandKeeps, ReadFgKeeps, ReadBuiltinKeeps, ReadExitKeeps DEF User
<1>16. CASE \E p \in Pids : Exit(p)
  BY <1>16, ExitKeeps
<1>17. CASE UNCHANGED svars
  <2> USE <1>17 DEF svars, tableVars, handlerVars, mainVars, ShellInv
  <2>1. STypeOK'
    BY DEF STypeOK
  <2>2. FreeSlotIsEmpty' /\ OneQueuePerPid' /\ PipelineInv'
    BY DEF FreeSlotIsEmpty, OneQueuePerPid, PipelineInv, Pipeline, Adding, AddLocs
  <2>3. ForkInv' /\ AddInv'
    BY DEF ForkInv, AddInv, Forked, Adding
  <2>4. FgInv' /\ ChildInv'
    BY DEF FgInv, ChildInv
  <2> QED
    BY <2>1, <2>2, <2>3, <2>4
<1> QED
  BY <1>1, <1>2, <1>3, <1>4, <1>5, <1>6, <1>7, <1>8, <1>9, <1>10, <1>11, <1>12,
     <1>13, <1>14, <1>15, <1>16, <1>17 DEF SNext, Handler, MainStep

\* What the inductive invariant says of the entries of a queue is what JobTable
\* says of it as a sequence.
LEMMA TableFromFields ==
    ASSUME ShellInv
    PROVE  JobTable
<1> USE ShellConstants DEF ShellInv
<1>1. QueueIsPipeline
  <2> SUFFICES ASSUME NEW s \in Slots, jobs[s].pid_q_length > 0 /\ ~Adding(s)
               PROVE  LET q == SubSeq(jobs[s].pid_q, 1, jobs[s].pid_q_length)
                      IN  /\ q[1] = jobs[s].pid
                          /\ \A k \in 2..Len(q) :
                                q[k] = -1 \/ q[k] \in jobs[s].pid + 1 .. jobs[s].pid + k - 1
    BY DEF QueueIsPipeline
  <2> DEFINE n == jobs[s].pid_q_length
             q == SubSeq(jobs[s].pid_q, 1, n)
  <2>1. Pipeline(s)
    BY DEF PipelineInv
  <2>2. n \in 1..MAX_CMD_NUM /\ jobs[s].pid_q \in [1..MAX_CMD_NUM -> -1..MaxPid]
    BY Fields
  <2>3. jobs[s].pid_q \in Seq(-1..MaxPid) /\ Len(jobs[s].pid_q) = MAX_CMD_NUM
    <3>1. MAX_CMD_NUM \in Nat
      OBVIOUS
    <3>2. ASSUME NEW f \in [1..MAX_CMD_NUM -> -1..MaxPid]
          PROVE  f \in Seq(-1..MaxPid) /\ Len(f) = MAX_CMD_NUM
      BY <3>1
    <3> QED
      BY <2>2, <3>2
  <2>4. Len(q) = n /\ \A k \in 1..n : q[k] = jobs[s].pid_q[k]
    BY <2>2, <2>3
  <2> HIDE DEF q
  <2>5. q[1] = jobs[s].pid
    BY <2>1, <2>2, <2>4 DEF Pipeline
  <2>6. ASSUME NEW k \in 2..Len(q)
        PROVE  q[k] = -1 \/ q[k] \in jobs[s].pid + 1 .. jobs[s].pid + k - 1
    <3>1. k \in 2..n /\ k \in 1..n
      BY <2>2, <2>4
    <3>2. q[k] = jobs[s].pid_q[k]
      BY <2>4, <3>1
    <3> QED
      BY <2>1, <3>1, <3>2 DEF Pipeline
  <2> QED
    BY <2>5, <2>6 DEF q
<1> QED
  BY <1>1 DEF JobTable

\* A step from the wait to the prompt is WaitDone, and then every process of
\* the pipeline is gone.
LEMMA PromptAfterWait ==
    ASSUME ShellInv, SNext, pc = "wait", pc' = "prompt",
           NEW k \in 1..num_cmds, child_pids[k] > 0
    PROVE  proc[child_pids[k]] = "gone"
<1>1. WaitDone
  BY DEF SNext, Handler, MainStep, User, HandlerStart, HandlerNext, HandlerReaps,
         HandlerNothing, HandlerTerminated, HandlerKept, mainVars, At, Fork, AddPid,
         AddState, AddReadJid, AddJid, AddLength, AddTest, AddStore, Wait, FgRead, FgWait,
         ReadCommand, ReadFg, ReadBuiltin, ReadExit, Exit
<1>2. i > num_cmds /\ num_cmds \in Nat /\ i \in Nat
  BY <1>1, ShellConstants DEF WaitDone, ShellInv, STypeOK
<1>3. k \in 1..(i - 1) /\ k <= num_cmds
  BY <1>2
<1> QED
  BY <1>3 DEF ShellInv, ChildInv

\* The inductive invariant of the shell, for every interleaving of the main
\* loop, the handler and the deaths of children.
THEOREM ShellCorrect == SSpec => []ShellInv
<1>1. SInit => ShellInv
  BY InitShell
<1>2. ShellInv /\ [SNext]_svars => ShellInv'
  BY NextShell
<1> QED
  BY <1>1, <1>2, PTL DEF SSpec

\* The table the handler, deletejob and getjobjid read is sound in every
\* state: free slots have no processes, a pid has one queue, and it records
\* one pipeline.
THEOREM JobTableIsSound == SSpec => []JobTable
<1>1. ShellInv => JobTable
  BY TableFromFields
<1> QED
  BY <1>1, ShellCorrect, PTL

\* The prompt comes back only when every process of the foreground pipeline is
\* dead and waited for, by the main loop or by the handler.
THEOREM ForegroundIsWaitedFor == SSpec => ForegroundWaits
<1> DEFINE A == pc = "wait" /\ pc' = "prompt" =>
                  \A k \in 1..num_cmds :
                      child_pids[k] > 0 => proc[child_pids[k]] = "gone"
<1>1. ShellInv /\ [SNext]_svars => [A]_svars
  BY PromptAfterWait
<1>2. SSpec => [][A]_svars
  BY <1>1, ShellCorrect, PTL DEF SSpec
<1> QED
  BY <1>2 DEF ForegroundWaits

==============================================================================
