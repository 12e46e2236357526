-------------------------------- MODULE Prinfo --------------------------------
(***************************************************************************)
(* The prinfo system call, sys_cs2456_test in                              *)
(* src/hw2/group/cs2456/cs2456_test.c: which relatives of a task it        *)
(* reports.  The kernel does not preempt itself, so the lists of tasks do  *)
(* not change during the call.  A task is its pid.                         *)
(*                                                                         *)
(* A list is a ring through a head that is no task.  The loop over the     *)
(* children starts and ends at that head.  The loop over the siblings      *)
(* starts and ends at the task itself, and takes the head for a task on    *)
(* its way: the memory next to it is read as a pid.                        *)
(***************************************************************************)
EXTENDS Integers, FiniteSets, SequencesExt

CONSTANTS
    Pids,          \* positive numbers
    MaxFamily,     \* bound: the children of the parent, the task included
    MaxChildren,   \* bound: the children of the task
    Garbage,       \* what memory that holds no pid may be read as
    UTime          \* pid -> its utime; stime is added up the same way

ASSUME PrinfoConstants ==
    /\ Pids \subseteq Nat \ {0} /\ Garbage \subseteq Nat
    /\ MaxFamily \in Nat /\ MaxChildren \in Nat
    /\ UTime \in [Pids -> Nat]

VARIABLES
    family,     \* the children of the parent in the order of the list
    me,         \* index of the task in family
    children,   \* the children of the task in the order of the list
    head_pid,   \* what the head of family is read as
    pc,
    list,       \* the cursor: an index, 0 for the head
    youngest_pid, youngest_of_olders, oldest_of_youngers, cutime,
    info        \* the struct prinfo of the caller

taskVars == <<family, me, children, head_pid>>
rvars == <<taskVars, pc, list, youngest_pid, youngest_of_olders,
           oldest_of_youngers, cutime, info>>

Lists(n) == {s \in SeqOf(Pids, n) : IsInjective(s)}
my_pid == family[me]

\* The fields of struct prinfo that are computed from the relatives.
prinfo == [youngest_child |-> 0, younger_sibling |-> 0, older_sibling |-> 0,
           cutime |-> 0]

\* Any task with any relatives; the locals are not initialised.
RInit ==
    /\ family \in Lists(MaxFamily) \ {<<>>} /\ me \in DOMAIN family
    /\ children \in Lists(MaxChildren) /\ ToSet(children) \cap ToSet(family) = {}
    /\ head_pid \in Garbage
    /\ pc = "start" /\ list = 0
    /\ youngest_pid \in Garbage /\ youngest_of_olders \in Garbage
    /\ oldest_of_youngers = 0 /\ cutime = 0
    /\ info = prinfo

\* The fields copied from the task itself, then list_for_each over children.
Start ==
    /\ pc = "start"
    /\ pc' = "children" /\ cutime' = 0
    /\ list' = IF children = <<>> THEN 0 ELSE 1
    /\ UNCHANGED <<taskVars, youngest_pid, youngest_of_olders,
                   oldest_of_youngers, info>>

\* The first child, or one with a smaller pid.
LeastSoFar(cnt_pid, first) ==
    IF first \/ cnt_pid < youngest_pid THEN cnt_pid ELSE youngest_pid

Child ==
    /\ pc = "children" /\ list # 0
    /\ youngest_pid' = LeastSoFar(children[list], list = 1)
    /\ cutime' = cutime + UTime[children[list]]
    /\ list' = (list + 1) % (Len(children) + 1)
    /\ UNCHANGED <<taskVars, pc, youngest_of_olders, oldest_of_youngers, info>>

\* The ring of the siblings, from an index to the next.
After(i) == (i + 1) % (Len(family) + 1)
PidAt(i) == IF i = 0 THEN head_pid ELSE family[i]

ChildrenDone ==
    /\ pc = "children" /\ list = 0
    /\ info' = [info EXCEPT !.youngest_child = youngest_pid, !.cutime = cutime]
    /\ pc' = "siblings" /\ oldest_of_youngers' = 0 /\ list' = After(me)
    /\ UNCHANGED <<taskVars, youngest_pid, youngest_of_olders, cutime>>

\* The smallest pid above my own, starting from the first one met whatever it
\* is.
Above(cnt_pid, start) ==
    IF cnt_pid > my_pid /\ cnt_pid < start THEN cnt_pid ELSE start
\* Mutant: the first pid below is kept.
BelowFirst(cnt_pid) ==
    IF cnt_pid < my_pid /\ oldest_of_youngers = 0 THEN cnt_pid ELSE oldest_of_youngers
\* The largest pid below my own, starting from 0.
Below(cnt_pid) ==
    IF cnt_pid < my_pid /\ cnt_pid > oldest_of_youngers THEN cnt_pid
    ELSE oldest_of_youngers

\* Mutant: the loop looks for a head that is not in the ring.
BackAtOwnHead(i) == FALSE
\* The loop ends where it started, at the task itself.  (The head of its own
\* children is not in this ring.)
BackAtStart(i) == i = me

Sibling ==
    /\ pc = "siblings" /\ ~BackAtStart(list)
    /\ LET cnt_pid == PidAt(list)
           first == list = After(me)
       IN  /\ youngest_of_olders' =
                  Above(cnt_pid, IF first THEN cnt_pid ELSE youngest_of_olders)
           /\ oldest_of_youngers' = Below(cnt_pid)
    /\ list' = After(list)
    /\ UNCHANGED <<taskVars, pc, youngest_pid, cutime, info>>
SiblingsDone ==
    /\ pc = "siblings" /\ BackAtStart(list)
    /\ info' = [info EXCEPT !.younger_sibling = youngest_of_olders,
                            !.older_sibling = oldest_of_youngers]
    /\ pc' = "done"
    /\ UNCHANGED <<taskVars, list, youngest_pid, youngest_of_olders,
                   oldest_of_youngers, cutime>>

RNext == Start \/ Child \/ ChildrenDone \/ Sibling \/ SiblingsDone
RSpec == RInit /\ [][RNext]_rvars /\ WF_rvars(RNext)

-----------------------------------------------------------------------------
InOrder(s) == \A i, j \in DOMAIN s : i < j => s[i] < s[j]

\* The time of a set of tasks: how many ticks they have got.
TicksOf(S) == UNION {{p} \X (1..UTime[p]) : p \in S}
Times(S) == Cardinality(TicksOf(S))

\* The fields about the children cover all of them and no other task: cutime
\* is the sum of their times, youngest_child_pid one of their pids.
ChildrenReported ==
    pc = "done" =>
        /\ info.cutime = Times(ToSet(children))
        /\ children # <<>> => info.youngest_child \in ToSet(children)

\* prinfo.h line 7: "process id of youngest child", the last one born, which
\* has the largest pid while pids have not wrapped around.  The loop keeps the
\* smallest pid, that of the child born first.
YoungestChildReported ==
    pc = "done" /\ children # <<>> /\ InOrder(children) =>
        info.youngest_child = Last(children)

\* While pids have not wrapped around and the head of the list is not read as
\* a pid between those of the neighbours, the siblings reported are the
\* neighbours in the list, "the oldest among younger siblings" and "the
\* youngest among older siblings" of prinfo.h, although the loop compares pids
\* and looks at the younger ones first.
NeighboursReported ==
    pc = "done" /\ InOrder(family) =>
        /\ me < Len(family) /\ ~(my_pid < head_pid /\ head_pid < family[me + 1]) =>
              info.younger_sibling = family[me + 1]
        /\ me > 1 /\ ~(family[me - 1] < head_pid /\ head_pid < my_pid) =>
              info.older_sibling = family[me - 1]

\* What the caller is told about the relatives of the task.
RelativesReported ==
    /\ ChildrenReported
    /\ NeighboursReported

\* The call returns: the loop over the siblings, which never meets a head it
\* would stop at, comes back to the task.
CallReturns == <>(pc = "done")
==============================================================================
