-------------------------------- MODULE Gwrr --------------------------------
(***************************************************************************)
(* The group weighted round robin scheduling class (sched_gwrr.c) and the  *)
(* places of sched.c that call it, on one processor: everything here runs  *)
(* under rq->lock with interrupts off, so one call is one step.            *)
(*                                                                         *)
(* Tasks change their own group; their class and their nice value may be   *)
(* changed by anybody.  A child of fork starts in the fair class, and a    *)
(* task that exits goes to sleep for good.                                 *)
(*                                                                         *)
(* dequeue frees the task_struct of a task that only leaves the queue; the *)
(* model records that in freed and follows the histories in which the      *)
(* memory has not been handed out again.  list_add of a task that is still *)
(* linked closes the list into a loop that misses its head, and            *)
(* print_structure then runs for ever with group_lock held: hung.          *)
(***************************************************************************)
EXTENDS Integers, Sequences, SequencesExt

CONSTANTS
    Tasks,          \* tasks that use SCHED_GWRR
    Gids,           \* group ids
    NoTask,         \* idle, or a task of another class
    GWRR_DWEIGHT    \* default weight of a group, 10 in the code

ASSUME GwrrConstants ==
    /\ NoTask \notin Tasks
    /\ GWRR_DWEIGHT \in Nat \ {0}

VARIABLES
    groups_holder,  \* the list of groups, each with its list of tasks
    gid,            \* p->gid
    sched_class,    \* p->sched_class: "gwrr", or "fair" for any other
    on_rq,          \* p->se.on_rq
    curr,           \* rq->curr
    freed,          \* task_structs given to kfree
    hung            \* a list has become a loop

gvars == <<groups_holder, gid, sched_class, on_rq, curr, freed, hung>>

group_member ==
    [gid : Gids, weight : {GWRR_DWEIGHT}, curr_weight : 0 .. GWRR_DWEIGHT,
     tasks_holder : Seq(Tasks)]

Listed(groups) == UNION {ToSet(groups[i].tasks_holder) : i \in DOMAIN groups}

GInit ==
    /\ groups_holder = <<>>
    /\ gid \in [Tasks -> Gids]
    /\ sched_class = [t \in Tasks |-> "fair"]
    /\ on_rq = [t \in Tasks |-> TRUE]
    /\ curr = NoTask
    /\ freed = {}
    /\ hung = FALSE

-----------------------------------------------------------------------------
(* sched_gwrr.c                                                            *)

\* The index of the first group with that gid, 0 if there is none.
GroupOf(groups, g) == SelectInSeq(groups, LAMBDA grp : grp.gid = g)

\* The index at which a loop that breaks at the group of g leaves tmp: that
\* group, or the last one looked at; 0 when the list is empty.
FindGroup(groups, g) ==
    LET found == GroupOf(groups, g)
    IN  IF found = 0 THEN Len(groups) ELSE found

NewGroup(g) ==
    [gid |-> g, weight |-> GWRR_DWEIGHT, curr_weight |-> GWRR_DWEIGHT,
     tasks_holder |-> <<>>]

AddTo(groups, i, t) == [groups EXCEPT ![i].tasks_holder = <<t>> \o @]

\* Mutant: the task of a group that is not there is forgotten.
enqueueOnlyFound(groups, t, g) ==
    LET i == GroupOf(groups, g)
    IN  IF groups = <<>> THEN AddTo(<<NewGroup(g)>>, 1, t)
        ELSE IF i = 0 THEN groups
        ELSE AddTo(groups, i, t)

\* A group is made only when tmp is still NULL, that is when there was none.
enqueue_task_gwrr(groups, t, g) ==
    LET i == FindGroup(groups, g)
    IN  IF i = 0 THEN AddTo(<<NewGroup(g)>> \o groups, 1, t)
        ELSE AddTo(groups, i, t)

\* t is looked for in the group of its gid only; the group goes with its
\* last task.
dequeue_task_gwrr(groups, t, g) ==
    LET i == GroupOf(groups, g)
        left == RemoveFirst(groups[i].tasks_holder, t)
    IN  IF i = 0 THEN groups
        ELSE IF left = <<>> THEN RemoveAt(groups, i)
        ELSE [groups EXCEPT ![i].tasks_holder = left]

\* Mutant: off by one at zero.
HeaviestOrZero(groups) ==
    SelectInSeq(groups, LAMBDA grp :
        grp.curr_weight >= 0 /\ \A h \in ToSet(groups) : h.curr_weight =< grp.curr_weight)

\* The first group with the largest positive curr_weight; 0 if there is none.
Heaviest(groups) ==
    SelectInSeq(groups, LAMBDA grp :
        grp.curr_weight > 0 /\ \A h \in ToSet(groups) : h.curr_weight =< grp.curr_weight)

\* All weights used up: start a new round.
Refill(groups) ==
    IF Heaviest(groups) # 0 THEN groups
    ELSE [i \in DOMAIN groups |-> [groups[i] EXCEPT !.curr_weight = groups[i].weight]]

\* Mutant: the picked task stays in front.
pickStays(groups) ==
    LET round == Refill(groups)
        i == Heaviest(round)
    IN  IF groups = <<>> THEN <<NoTask, groups>>
        ELSE <<Head(round[i].tasks_holder),
               [round EXCEPT ![i].curr_weight = @ - 1]>>

\* Mutant: nothing is picked when the weights are used up.
pickNeverRefills(groups) ==
    LET i == Heaviest(groups)
        paid == [groups EXCEPT ![i].curr_weight = @ - 1]
        p == Head(paid[i].tasks_holder)
    IN  IF i = 0 THEN <<NoTask, groups>>
        ELSE <<p, [paid EXCEPT ![i].tasks_holder = Append(Tail(@), p)]>>

\* The first task of the heaviest group, which it moves to the end of its
\* list, and the groups after that.  No task if there is no group, or if the
\* group it has chosen is empty.
pick_next_task_gwrr(groups) ==
    LET round == Refill(groups)
        i == Heaviest(round)
        paid == [round EXCEPT ![i].curr_weight = @ - 1]
        p == Head(paid[i].tasks_holder)
    IN  IF groups = <<>> THEN <<NoTask, groups>>
        ELSE IF paid[i].tasks_holder = <<>> THEN <<NoTask, paid>>
        ELSE <<p, [paid EXCEPT ![i].tasks_holder = Append(Tail(@), p)]>>

-----------------------------------------------------------------------------
(* sched.c                                                                 *)

\* The task_struct that dequeue_task_gwrr frees, if it finds one.
FreedBy(groups, t) ==
    Listed(groups) \ Listed(dequeue_task_gwrr(groups, t, gid[t]))

\* schedule(): the caller may be going to sleep; rt and fair have nothing to
\* run, or take the processor.
Schedule(sleeps, others) ==
    LET deactivates == sleeps /\ sched_class[curr] = "gwrr"
        groups == IF deactivates
                  THEN dequeue_task_gwrr(groups_holder, curr, gid[curr])
                  ELSE groups_holder
        pick == IF others THEN <<NoTask, groups>> ELSE pick_next_task_gwrr(groups)
    IN  /\ ~hung
        /\ sleeps => curr # NoTask
        /\ curr' = pick[1]
        /\ groups_holder' = pick[2]
        /\ on_rq' = [t \in Tasks |-> on_rq[t] /\ ~(sleeps /\ t = curr)]
        /\ freed' = freed \cup (IF deactivates THEN FreedBy(groups_holder, curr) ELSE {})
        /\ UNCHANGED <<gid, sched_class, hung>>

\* activate_task for a task that is put into the groups as they are.
Activate(groups, t) ==
    /\ hung' = (t \in Listed(groups))
    /\ groups_holder' = IF t \in Listed(groups) THEN groups
                        ELSE enqueue_task_gwrr(groups, t, gid[t])

\* t is running, in this class or, unseen, in another one.
Running(t) == curr = t \/ (curr = NoTask /\ sched_class[t] = "fair")

\* try_to_wake_up
Wake(t) ==
    /\ ~hung
    /\ ~on_rq[t]
    /\ IF sched_class[t] = "gwrr" THEN Activate(groups_holder, t)
       ELSE UNCHANGED <<groups_holder, hung>>
    /\ on_rq' = [on_rq EXCEPT ![t] = TRUE]
    /\ UNCHANGED <<gid, sched_class, curr, freed>>

\* sched_setscheduler(t, SCHED_GWRR, ...) for a task of another class, which
\* may be the caller.
Join(t) ==
    /\ ~hung
    /\ sched_class[t] = "fair"
    /\ sched_class' = [sched_class EXCEPT ![t] = "gwrr"]
    /\ curr' \in {curr} \cup {u \in {t} : Running(u) /\ on_rq[u]}
    /\ IF on_rq[t] THEN Activate(groups_holder, t)
       ELSE UNCHANGED <<groups_holder, hung>>
    /\ UNCHANGED <<gid, on_rq, freed>>

\* A queued task of this class is taken off the queue and put on again.
Requeue(t) ==
    /\ ~hung
    /\ sched_class[t] = "gwrr" /\ on_rq[t]
    /\ Activate(dequeue_task_gwrr(groups_holder, t, gid[t]), t)
    /\ freed' = freed \cup FreedBy(groups_holder, t)
    /\ UNCHANGED <<gid, sched_class, on_rq, curr>>

\* The same call of sched_setscheduler for a task of this class.
Rejoin(t) == Requeue(t)

set_user_nice(t) == Requeue(t)

\* The task leaves the class, and the queue if it was runnable.
Leave(t) ==
    /\ ~hung
    /\ sched_class[t] = "gwrr"
    /\ sched_class' = [sched_class EXCEPT ![t] = "fair"]
    /\ groups_holder' = IF on_rq[t] THEN dequeue_task_gwrr(groups_holder, t, gid[t])
                        ELSE groups_holder
    /\ freed' = freed \cup (IF on_rq[t] THEN FreedBy(groups_holder, t) ELSE {})
    /\ curr' = IF curr = t THEN NoTask ELSE curr
    /\ UNCHANGED <<gid, on_rq, hung>>

\* sched_setscheduler(t, SCHED_NORMAL, ...)
Quit(t) == Leave(t)

\* Priority inheritance: the task goes to the real-time class or, also when
\* it is given its own priority back, to the fair class.
rt_mutex_setprio(t) == Leave(t)

\* setgid by the running task.
SetGid(t, g) ==
    /\ ~hung
    /\ Running(t)
    /\ gid' = [gid EXCEPT ![t] = g]
    /\ UNCHANGED <<groups_holder, sched_class, on_rq, curr, freed, hung>>

GNext ==
    \/ \E sleeps, others \in BOOLEAN : Schedule(sleeps, others)
    \/ \E t \in Tasks : Wake(t) \/ Join(t) \/ Rejoin(t) \/ set_user_nice(t)
                        \/ Quit(t) \/ rt_mutex_setprio(t)
    \/ \E t \in Tasks, g \in Gids : SetGid(t, g)

GSpec == GInit /\ [][GNext]_gvars

-----------------------------------------------------------------------------
(* Properties.                                                             *)

\* Where t stands in the queue of its group.
Place(groups, t) ==
    {i \in 1 .. Len(groups[1].tasks_holder) : groups[1].tasks_holder[i] = t}

\* The groups are well formed: no curr_weight is negative or above weight.
GTypeOK ==
    /\ groups_holder \in Seq(group_member)
    /\ gid \in [Tasks -> Gids]
    /\ sched_class \in [Tasks -> {"fair", "gwrr"}]
    /\ on_rq \in [Tasks -> BOOLEAN]
    /\ curr \in Tasks \cup {NoTask}
    /\ freed \subseteq Tasks
    /\ hung \in BOOLEAN

\* A runnable task of the class is in exactly one place of one list.
RunnableIsListed ==
    ~hung => \A t \in Tasks : on_rq[t] /\ sched_class[t] = "gwrr" =>
        \E i \in DOMAIN groups_holder :
            /\ t \in ToSet(groups_holder[i].tasks_holder)
            /\ \A k \in DOMAIN groups_holder :
                  \A m, n \in DOMAIN groups_holder[k].tasks_holder :
                      groups_holder[k].tasks_holder[m] = t
                        /\ groups_holder[k].tasks_holder[n] = t => m = n
            /\ \A k \in DOMAIN groups_holder :
                  t \in ToSet(groups_holder[k].tasks_holder) => k = i

\* The processor is never left idle by the class: when it is asked for a task
\* and has a runnable one, it names one.  The list of a task that was
\* misplaced, a group whose weight is used up and a group that has just lost a
\* task to sleep or to another class must not hide it.
WorkConserving ==
    [][(\E sleeps \in BOOLEAN : Schedule(sleeps, FALSE))
         /\ (\E t \in Tasks : on_rq'[t] /\ sched_class'[t] = "gwrr")
            => curr' # NoTask]_gvars

\* "found gid" (line 44): a task is queued in the group of its gid, which the
\* demo programs create by joining the class and then give a weight
\* (hw4/demo/Jane.c lines 20 to 32).  The NULL test at line 49 makes a group only
\* when there is none at all: every other task joins that one.
QueuedUnderOwnGid ==
    [][\A t \in Tasks : t \notin Listed(groups_holder) =>
          \A i \in DOMAIN groups_holder' :
              t \in ToSet(groups_holder'[i].tasks_holder)
                  => groups_holder'[i].gid = gid'[t]]_gvars

\* Round robin: whenever the class picks, every other task of the queue moves
\* towards the front, so that only enqueues can come before a waiting task.
RoundRobin ==
    [][(\E sleeps \in BOOLEAN : Schedule(sleeps, FALSE)) =>
          \A t \in (Listed(groups_holder) \cap Listed(groups_holder')) \ {curr'} :
              \A i \in Place(groups_holder, t), j \in Place(groups_holder', t) :
                  j < i]_gvars

\* deactivate_task removes a task from the run queue: a task that is not
\* runnable is not in a list that pick_next_task_gwrr looks at.
DeactivatedIsRemoved ==
    \A t \in Tasks : ~on_rq[t] => t \notin Listed(groups_holder)
-----------------------------------------------------------------------------
(***************************************************************************)
(* The inductive invariant, proved in GwrrProofs.                          *)
(***************************************************************************)
NoTwice(s) == \A m, n \in DOMAIN s : s[m] = s[n] => m = n

\* One group at most, with tasks in it, none of them twice.
Sound(groups) ==
    /\ groups \in Seq(group_member) /\ Len(groups) <= 1
    /\ groups # <<>> => /\ groups[1].tasks_holder # <<>>
                        /\ NoTwice(groups[1].tasks_holder)

GwrrInv ==
    /\ GTypeOK
    /\ Sound(groups_holder)
    /\ ~hung => \A t \in Tasks :
          on_rq[t] /\ sched_class[t] = "gwrr" => t \in Listed(groups_holder)

=============================================================================
