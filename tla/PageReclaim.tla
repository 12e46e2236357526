----------------------------- MODULE PageReclaim -----------------------------
(***************************************************************************)
(* Page ageing and reclaim in one memory zone: the changed                 *)
(* shrink_active_list and its helpers in src/hw5/vmscan.c, and the ageing  *)
(* timer and sys_memstats in src/hw5/memstats.c.                           *)
(*                                                                         *)
(* Pages are page cache pages of files without buffers; allocations are of *)
(* order 0, so isolation takes single pages.  The lists are sequences      *)
(* whose first element is the head: pages are added at the head and taken  *)
(* from the tail.  lru_lock is explicit where it is dropped in the middle  *)
(* of an operation; a critical section that does not drop it is one step.  *)
(* What the rest of the kernel does to a page (touch, map, pin, write,     *)
(* truncate) is external, and so are the results of the I/O and rmap       *)
(* functions the reclaim code calls and the permissions of scan_control:   *)
(* each may answer either way.                                             *)
(***************************************************************************)
EXTENDS Integers, FiniteSets, SequencesExt

CONSTANTS
    Pages,
    Mappable,          \* bound: the pages that processes map
    Writable,          \* bound: the pages that processes pin and write
    Reclaimers,        \* kswapd and the processes in direct reclaim
    Nobody,            \* no holder of a lock, no page
    SWAP_CLUSTER_MAX,  \* pages per scan
    PAGEVEC_SIZE,      \* pages per pagevec
    MaxRefCnt,         \* the largest value of ref_cnt (an unsigned long)
    RefBit,            \* what TestClearPageReferenced returns for a set bit
    Wrap               \* bound: the statistics counters are kept modulo Wrap

ASSUME ReclaimConstants ==
    /\ IsFiniteSet(Reclaimers)
    /\ Nobody \notin Pages \cup Reclaimers
    /\ Mappable \subseteq Pages /\ Writable \subseteq Pages
    /\ SWAP_CLUSTER_MAX \in Nat \ {0} /\ PAGEVEC_SIZE \in Nat \ {0}
    /\ MaxRefCnt \in Nat \ {0} /\ Wrap \in Nat \ {0}
    /\ RefBit \in {1, -1}  \* -1 on x86, where test_and_clear_bit is btr, sbb

VARIABLES
    active, inactive,        \* zone->active_list, zone->inactive_list
    nr_active, nr_inactive,  \* NR_ACTIVE, NR_INACTIVE of the zone
    lru_lock,                \* its holder
    pg,                      \* page -> its struct page and who uses it
    rc,                      \* reclaimer -> its place and its locals
    num_active_to_inactive, num_inactive_to_free,
    deactivated, reclaimed   \* what the two should be: pages moved, pages freed

zoneVars == <<active, inactive, nr_active, nr_inactive>>
statVars == <<num_active_to_inactive, num_inactive_to_free, deactivated,
              reclaimed>>
pvars == <<zoneVars, lru_lock, pg, rc, statVars>>

\* The elements of s that are in K, in their order, and those not in S.
Only(s, K) ==
    LET kept[n \in 0..Len(s)] ==
            IF n = 0 THEN <<>>
            ELSE IF s[n] \in K THEN Append(kept[n - 1], s[n]) ELSE kept[n - 1]
    IN  kept[Len(s)]
Drop(s, S) == Only(s, Pages \ S)

\* The sum of the values of a function to Nat.
Total(f) == Cardinality(UNION {{x} \X (1..f[x]) : x \in DOMAIN f})
Plus(a, b) == (a + b) % Wrap

\* A page nobody uses, and one just read in: on the inactive list and in the
\* page cache.  touched is a ghost: accessed while active, and not yet looked
\* at by shrink_active_list.  user: of the page outside the page tables.
FreePage == [ref_cnt |-> 0, lru |-> FALSE, active |-> FALSE,
             referenced |-> FALSE, locked |-> FALSE, dirty |-> FALSE,
             writeback |-> FALSE, mapped |-> FALSE, cached |-> FALSE,
             count |-> 0, user |-> "none", touched |-> FALSE]

\* A reclaimer between two calls.  hold: l_hold or page_list; inact, act:
\* l_inactive and l_active; back: ret_pages; then: where to go on when the
\* pagevec is released; moved, deact: pgmoved, pgdeactivate; left: max_scan
\* less nr_scanned; freed: nr_reclaimed; old: a number read from memory.
Idle == [pc |-> "idle", then |-> "idle", hold |-> <<>>, inact |-> <<>>,
         act |-> <<>>, back |-> <<>>, pvec |-> <<>>, page |-> Nobody,
         old |-> 0, bit |-> 0, moved |-> 0, deact |-> 0, left |-> 0,
         freed |-> 0, reclaim_mapped |-> FALSE]

At(r, l) == rc[r].pc = l
LruFree == lru_lock = Nobody
TreeLocked(p) == \E r \in Reclaimers : rc[r].page = p /\ rc[r].pc \in {"test", "free"}

-----------------------------------------------------------------------------
(***************************************************************************)
(* The rest of the kernel.                                                 *)
(***************************************************************************)
\* A free page is read in.  Nothing resets ref_cnt.
ReadIn(p) ==
    /\ pg[p].count = 0 /\ ~pg[p].lru /\ LruFree
    /\ inactive' = <<p>> \o inactive /\ nr_inactive' = nr_inactive + 1
    /\ pg' = [pg EXCEPT ![p] = [FreePage EXCEPT !.ref_cnt = pg[p].ref_cnt,
                                   !.lru = TRUE, !.cached = TRUE, !.count = 1]]
    /\ UNCHANGED <<active, nr_active, lru_lock, rc, statVars>>

\* mark_page_accessed: the second access of an inactive page activates it.
Touch(p) ==
    /\ pg[p].cached
    /\ IF pg[p].lru /\ pg[p].referenced /\ ~pg[p].active
       THEN /\ LruFree
            /\ inactive' = Drop(inactive, {p}) /\ active' = <<p>> \o active
            /\ nr_active' = nr_active + 1 /\ nr_inactive' = nr_inactive - 1
            /\ pg' = [pg EXCEPT ![p].active = TRUE, ![p].referenced = FALSE]
       ELSE /\ pg' = [pg EXCEPT ![p].referenced = TRUE,
                                ![p].touched = pg[p].active]
            /\ UNCHANGED zoneVars
    /\ UNCHANGED <<lru_lock, rc, statVars>>

\* A process maps the page, or unmaps it and leaves its dirt behind.
Map(p) ==
    /\ p \in Mappable /\ pg[p].cached /\ ~pg[p].mapped /\ ~pg[p].locked /\ ~TreeLocked(p)
    /\ pg' = [pg EXCEPT ![p].mapped = TRUE, ![p].count = @ + 1]
    /\ UNCHANGED <<zoneVars, lru_lock, rc, statVars>>
Unmap(p) ==
    /\ pg[p].mapped
    /\ \E wrote \in BOOLEAN :
          pg' = [pg EXCEPT ![p].mapped = FALSE, ![p].count = @ - 1,
                           ![p].dirty = @ \/ wrote]
    /\ UNCHANGED <<zoneVars, lru_lock, rc, statVars>>

\* get_user_pages (through the page tables) or a look-up in the page cache;
\* then the data is written, SetPageDirty, put_page.
Pin(p) ==
    /\ p \in Writable /\ pg[p].cached /\ pg[p].user = "none"
    /\ pg[p].mapped \/ ~TreeLocked(p)
    /\ pg' = [pg EXCEPT ![p].user = "pinned", ![p].count = @ + 1]
    /\ UNCHANGED <<zoneVars, lru_lock, rc, statVars>>
SetDirty(p) ==
    /\ pg[p].user = "pinned" /\ pg[p].cached
    /\ pg' = [pg EXCEPT ![p].user = "written", ![p].dirty = TRUE]
    /\ UNCHANGED <<zoneVars, lru_lock, rc, statVars>>
Unpin(p) ==
    /\ pg[p].user # "none"
    /\ pg' = [pg EXCEPT ![p].user = "none", ![p].count = @ - 1]
    /\ UNCHANGED <<zoneVars, lru_lock, rc, statVars>>

\* The I/O that pageout started ends.
EndWriteback(p) ==
    /\ pg[p].writeback
    /\ pg' = [pg EXCEPT ![p].writeback = FALSE]
    /\ UNCHANGED <<zoneVars, lru_lock, rc, statVars>>

\* The file is truncated: the page leaves the page cache, and when this was
\* the last reference it is dying, on its list until lru_lock is free.
Truncate(p) ==
    /\ pg[p].cached /\ ~pg[p].mapped /\ ~pg[p].locked /\ ~pg[p].writeback
    /\ ~TreeLocked(p)
    /\ pg' = [pg EXCEPT ![p].cached = FALSE, ![p].dirty = FALSE,
                        ![p].count = @ - 1]
    /\ UNCHANGED <<zoneVars, lru_lock, rc, statVars>>
DeletePage(p) ==
    /\ pg[p].lru /\ pg[p].count = 0 /\ LruFree
    /\ active' = Drop(active, {p}) /\ inactive' = Drop(inactive, {p})
    /\ IF pg[p].active THEN nr_active' = nr_active - 1 /\ UNCHANGED nr_inactive
       ELSE nr_inactive' = nr_inactive - 1 /\ UNCHANGED nr_active
    /\ pg' = [pg EXCEPT ![p].lru = FALSE]
    /\ UNCHANGED <<lru_lock, rc, statVars>>

Kernel(p) == ReadIn(p) \/ Touch(p) \/ Map(p) \/ Unmap(p) \/ Pin(p)
             \/ SetDirty(p) \/ Unpin(p) \/ EndWriteback(p) \/ Truncate(p)
             \/ DeletePage(p)

-----------------------------------------------------------------------------
(***************************************************************************)
(* memstats.c.                                                             *)
(***************************************************************************)
\* Mutant: the sum is not tested.
AgedWraps(cnt, bit) == (cnt + bit) % (MaxRefCnt + 1)
\* ref_cnt + ref_bit in the arithmetic of unsigned long, not stored when the
\* sum is 0.  A bit of -1 lowers a count above 1 and turns 0 into the largest.
Aged(cnt, bit) ==
    LET sum == (cnt + bit) % (MaxRefCnt + 1)
    IN  IF sum > 0 THEN sum ELSE cnt
Bit(p) == IF pg[p].referenced THEN RefBit ELSE 0

\* Mutant: every page with PG_active, isolated or not.
TimerAgesAll(p) == pg[p].active
\* The pages the timer ages: the page is on the list and has PG_lru.
TimerAges(p) == p \in ToSet(active) /\ pg[p].lru

\* timer1_routine, first loop: the reference bits of the active pages go into
\* their counters, under lru_lock.
TimerActive ==
    /\ LruFree
    /\ pg' = [p \in Pages |->
                 IF TimerAges(p)
                 THEN [pg[p] EXCEPT !.ref_cnt = Aged(@, Bit(p)),
                                    !.referenced = FALSE]
                 ELSE pg[p]]
    /\ UNCHANGED <<zoneVars, lru_lock, rc, statVars>>

\* Its second loop takes the page from pos1, which is the head of the active
\* list by then: no page changes, however many pages are inactive.
TimerInactive ==
    /\ LruFree
    /\ UNCHANGED pvars

\* sys_memstats.
memstats ==
    [active_count |-> Len(active), inactive_count |-> Len(inactive),
     active_ref_bit_count |->
         Cardinality({p \in ToSet(active) : pg[p].referenced}),
     inactive_ref_bit_count |->
         Cardinality({p \in ToSet(inactive) : pg[p].referenced})]

-----------------------------------------------------------------------------
(***************************************************************************)
(* Isolation.                                                              *)
(***************************************************************************)
\* isolate_lru_pages with order 0: of the last n pages of a list, those with
\* a reference are taken; those being freed elsewhere go to its head, where a
\* longer scan meets them again.
Scanned(src, n) == SubSeq(src, IF n < Len(src) THEN Len(src) - n + 1 ELSE 1,
                          Len(src))
Unscanned(src, n) == SubSeq(src, 1, IF n < Len(src) THEN Len(src) - n ELSE 0)
\* Mutant: dying pages are taken too.
TakenBlindly(src, n) == Scanned(src, n)
\* __isolate_lru_page fails for a page without a reference.
Taken(src, n) == Only(Scanned(src, n), {p \in Pages : pg[p].count > 0})
Remaining(src, n) == Only(Scanned(src, n), {p \in Pages : pg[p].count = 0})
                     \o Unscanned(src, n)
NrScan(src, n) == IF n > Len(src) /\ Remaining(src, n) = <<>> THEN Len(src) ELSE n

\* __isolate_lru_page of every taken page.
Isolated(s) == [p \in Pages |-> IF p \in ToSet(s)
                                THEN [pg[p] EXCEPT !.lru = FALSE, !.count = @ + 1]
                                ELSE pg[p]]

-----------------------------------------------------------------------------
(***************************************************************************)
(* The pagevec of the pages put back: their references of isolation are    *)
(* dropped in batches, without lru_lock.                                   *)
(***************************************************************************)
Occurrences(p, s) == Cardinality({i \in DOMAIN s : s[i] = p})
\* Mutant: counted after the flush.
PgMovedLate(r) == rc[r].moved
\* pgmoved when one more page has been put back.
PgMoved(r) == rc[r].moved + 1
Full(r) == Len(rc[r].pvec) + 1 = PAGEVEC_SIZE

\* pagevec_release: a page whose last reference it was leaves its list.
Release(r) ==
    /\ At(r, "release") /\ LruFree
    /\ LET refs(p) == Occurrences(p, rc[r].pvec)
           dead == {p \in ToSet(rc[r].pvec) : pg[p].count = refs(p)}
       IN  /\ active' = Drop(active, dead) /\ inactive' = Drop(inactive, dead)
           /\ nr_active' = nr_active - Cardinality({p \in dead : pg[p].active})
           /\ nr_inactive' = nr_inactive - Cardinality({p \in dead : ~pg[p].active})
           /\ pg' = [p \in Pages |->
                        [pg[p] EXCEPT !.count = @ - refs(p),
                                      !.lru = @ /\ p \notin dead]]
    /\ rc' = [rc EXCEPT ![r].pvec = <<>>,
                        ![r].pc = IF rc[r].then \in {"idle", "report"}
                                  THEN rc[r].then ELSE "relock"]
    /\ UNCHANGED <<lru_lock, statVars>>

Relock(r) ==
    /\ At(r, "relock") /\ LruFree
    /\ lru_lock' = r
    /\ rc' = [rc EXCEPT ![r].pc = rc[r].then, ![r].then = "idle"]
    /\ UNCHANGED <<zoneVars, pg, statVars>>

-----------------------------------------------------------------------------
(***************************************************************************)
(* shrink_active_list.                                                     *)
(***************************************************************************)
\* Whether mapped pages are taken too: a matter of the ratio of mapped pages,
\* of the priority and of swappiness.  Any answer.
calc_reclaim_mapped == BOOLEAN

\* Whether the page has a count, and the count that is left.
cs2456_page_referenced(cnt) == [yes |-> cnt > 0, left |-> IF cnt > 0 THEN cnt - 1 ELSE 0]

\* Up to n pages are isolated; without may_swap no mapped page is taken.
ShrinkActive(r, n) ==
    /\ At(r, "idle") /\ LruFree
    /\ active' = Remaining(active, n)
    /\ nr_active' = nr_active - Len(Taken(active, n))
    /\ pg' = Isolated(Taken(active, n))
    /\ \E m \in calc_reclaim_mapped :
          rc' = [rc EXCEPT ![r].pc = "hold", ![r].reclaim_mapped = m,
                           ![r].hold = Taken(active, n)]
    /\ UNCHANGED <<inactive, nr_inactive, lru_lock, statVars>>

\* The next page of l_hold: its bit is taken and its counter read ...
HoldRead(r) ==
    /\ At(r, "hold") /\ rc[r].hold # <<>>
    /\ LET p == Last(rc[r].hold)
       IN  /\ pg' = [pg EXCEPT ![p].referenced = FALSE]
           /\ rc' = [rc EXCEPT ![r].hold = Front(@), ![r].page = p,
                               ![r].pc = "age", ![r].old = pg[p].ref_cnt,
                               ![r].bit = Bit(p)]
    /\ UNCHANGED <<zoneVars, lru_lock, statVars>>

\* ... and written, one less for a page that is mapped, could be reclaimed
\* and has a count (cs2456_page_referenced); that page stays active.
HoldWrite(r) ==
    /\ At(r, "age")
    /\ LET p == rc[r].page
           cnt == Aged(rc[r].old, rc[r].bit)
           asked == pg[p].mapped /\ rc[r].reclaim_mapped
           ref == cs2456_page_referenced(cnt)
           stays == pg[p].mapped /\ (~rc[r].reclaim_mapped \/ ref.yes)
       IN  /\ pg' = [pg EXCEPT ![p].touched = pg[p].referenced,
                               ![p].ref_cnt = IF asked THEN ref.left ELSE cnt]
           /\ rc' = [rc EXCEPT ![r].pc = "hold", ![r].page = Nobody,
                               ![r].old = 0, ![r].bit = 0,
                               ![r].act = IF stays THEN <<p>> \o @ ELSE @,
                               ![r].inact = IF stays THEN @ ELSE <<p>> \o @]
    /\ UNCHANGED <<zoneVars, lru_lock, statVars>>

\* The pages go back under lru_lock ...
HoldDone(r) ==
    /\ At(r, "hold") /\ rc[r].hold = <<>> /\ LruFree
    /\ lru_lock' = r
    /\ rc' = [rc EXCEPT ![r].pc = "put_inactive", ![r].reclaim_mapped = FALSE]
    /\ UNCHANGED <<zoneVars, pg, statVars>>

\* ... first l_inactive; a full pagevec is released after NR_INACTIVE is
\* brought up to date ...
PutInactive(r) ==
    /\ At(r, "put_inactive") /\ rc[r].inact # <<>>
    /\ LET p == Last(rc[r].inact)
           k == PgMoved(r)
       IN  /\ pg' = [pg EXCEPT ![p].lru = TRUE, ![p].active = FALSE,
                               ![p].touched = FALSE]
           /\ inactive' = <<p>> \o inactive
           /\ deactivated' = Plus(deactivated, 1)
           /\ nr_inactive' = IF Full(r) THEN nr_inactive + k ELSE nr_inactive
           /\ lru_lock' = IF Full(r) THEN Nobody ELSE r
           /\ rc' = [rc EXCEPT ![r].inact = Front(@),
                               ![r].pvec = Append(@, p),
                               ![r].moved = IF Full(r) THEN 0 ELSE k,
                               ![r].deact = IF Full(r) THEN @ + k ELSE @,
                               ![r].then = IF Full(r) THEN "put_inactive" ELSE @,
                               ![r].pc = IF Full(r) THEN "release" ELSE @]
    /\ UNCHANGED <<active, nr_active, num_active_to_inactive,
                   num_inactive_to_free, reclaimed>>

\* (between the two lists lru_lock may be dropped to strip buffers) ...
PutInactiveDone(r) ==
    /\ At(r, "put_inactive") /\ rc[r].inact = <<>>
    /\ nr_inactive' = nr_inactive + rc[r].moved
    /\ \E over_limit \in BOOLEAN :
          /\ lru_lock' = IF over_limit THEN Nobody ELSE r
          /\ rc' = [rc EXCEPT
                       ![r].deact = @ + rc[r].moved, ![r].moved = 0,
                       ![r].then = IF over_limit THEN "put_active" ELSE @,
                       ![r].pc = IF over_limit THEN "relock" ELSE "put_active"]
    /\ UNCHANGED <<active, inactive, nr_active, pg, statVars>>

\* ... then l_active.
PutActive(r) ==
    /\ At(r, "put_active") /\ rc[r].act # <<>>
    /\ LET p == Last(rc[r].act)
           k == PgMoved(r)
       IN  /\ pg' = [pg EXCEPT ![p].lru = TRUE]
           /\ active' = <<p>> \o active
           /\ nr_active' = IF Full(r) THEN nr_active + k ELSE nr_active
           /\ lru_lock' = IF Full(r) THEN Nobody ELSE r
           /\ rc' = [rc EXCEPT ![r].act = Front(@),
                               ![r].pvec = Append(@, p),
                               ![r].moved = IF Full(r) THEN 0 ELSE k,
                               ![r].then = IF Full(r) THEN "put_active" ELSE @,
                               ![r].pc = IF Full(r) THEN "release" ELSE @]
    /\ UNCHANGED <<inactive, nr_inactive, statVars>>

\* The end: NR_ACTIVE, the statistics, unlock; then the pagevec.
ShrinkActiveEnd(r) ==
    /\ At(r, "put_active") /\ rc[r].act = <<>>
    /\ nr_active' = nr_active + rc[r].moved
    /\ num_active_to_inactive' = Plus(num_active_to_inactive, rc[r].deact)
    /\ lru_lock' = Nobody
    /\ rc' = [rc EXCEPT ![r].pc = "release", ![r].then = "idle",
                        ![r].moved = 0, ![r].deact = 0]
    /\ UNCHANGED <<active, inactive, nr_inactive, pg, num_inactive_to_free,
                   deactivated, reclaimed>>

-----------------------------------------------------------------------------
(***************************************************************************)
(* shrink_inactive_list.                                                   *)
(***************************************************************************)
\* Mutant: an empty batch does not end the call.
NeverEmpty(taken) == FALSE
\* nr_taken is 0: goto done.
NoneTaken(taken) == taken = <<>>

\* A batch is isolated (lru_lock is held from the last one); with nothing
\* taken the call is over, otherwise shrink_page_list looks at the batch.
Isolate(r, left) ==
    /\ inactive' = Remaining(inactive, SWAP_CLUSTER_MAX)
    /\ nr_inactive' = nr_inactive - Len(Taken(inactive, SWAP_CLUSTER_MAX))
    /\ pg' = Isolated(Taken(inactive, SWAP_CLUSTER_MAX))
    /\ lru_lock' = Nobody
    /\ LET taken == Taken(inactive, SWAP_CLUSTER_MAX)
           scan == NrScan(inactive, SWAP_CLUSTER_MAX)
       IN  rc' = [rc EXCEPT ![r].hold = taken,
                            ![r].left = IF scan < left THEN left - scan ELSE 0,
                            ![r].then = IF NoneTaken(taken) THEN "report" ELSE @,
                            ![r].pc = IF NoneTaken(taken) THEN "release" ELSE "scan"]
    /\ UNCHANGED <<active, nr_active, statVars>>

ShrinkInactive(r, max_scan) == At(r, "idle") /\ LruFree /\ Isolate(r, max_scan)

\* The page goes on to ret_pages: left alone, unlocked, or made active.
Keep(r, page) == rc' = [rc EXCEPT ![r].back = <<rc[r].page>> \o @,
                                  ![r].page = Nobody, ![r].pc = "scan",
                                  ![r].bit = 0]
                 /\ pg' = [pg EXCEPT ![rc[r].page] = [page EXCEPT !.locked = FALSE]]
                 /\ UNCHANGED <<zoneVars, lru_lock, statVars>>
KeepLocked(r) == Keep(r, pg[rc[r].page])
ActivateLocked(r) == Keep(r, [pg[rc[r].page] EXCEPT !.active = TRUE])
GoOn(r, page, pc) == rc' = [rc EXCEPT ![r].pc = pc]
                     /\ pg' = [pg EXCEPT ![rc[r].page] = page]
                     /\ UNCHANGED <<zoneVars, lru_lock, statVars>>

\* The next page of page_list is locked, unless somebody has it locked.
PageLock(r) ==
    /\ At(r, "scan") /\ rc[r].hold # <<>>
    /\ LET p == Last(rc[r].hold)
       IN  \/ /\ pg' = [pg EXCEPT ![p].locked = TRUE]
              /\ rc' = [rc EXCEPT ![r].hold = Front(@), ![r].page = p,
                                  ![r].pc = "locked"]
           \/ /\ rc' = [rc EXCEPT ![r].hold = Front(@), ![r].back = <<p>> \o @]
              /\ UNCHANGED pg
    /\ UNCHANGED <<zoneVars, lru_lock, statVars>>

\* Writeback or a mapped page without may_swap: keep.  A referenced page that
\* is in use (mapped, or its file is): activate.
PageReferenced(r) ==
    /\ At(r, "locked")
    /\ LET p == rc[r].page
           page == [pg[p] EXCEPT !.referenced = FALSE]
       IN  \/ (pg[p].writeback \/ pg[p].mapped) /\ KeepLocked(r)
           \/ /\ ~pg[p].writeback
              /\ \E young \in {FALSE, pg[p].mapped} :
                    LET ref == pg[p].referenced \/ young
                    IN  \/ ref /\ Keep(r, [page EXCEPT !.active = TRUE])
                        \/ /\ ~(ref /\ pg[p].mapped)
                           /\ rc' = [rc EXCEPT ![r].pc = "unmap",
                                               ![r].bit = IF ref THEN 1 ELSE 0]
                           /\ pg' = [pg EXCEPT ![p] = page]
                           /\ UNCHANGED <<zoneVars, lru_lock, statVars>>

\* try_to_unmap: SWAP_FAIL, SWAP_AGAIN or SWAP_SUCCESS, which leaves the dirt
\* of the page table entry in the page.
PageUnmap(r) ==
    /\ At(r, "unmap")
    /\ LET p == rc[r].page
       IN  \/ ~pg[p].mapped /\ GoOn(r, pg[p], "dirty")
           \/ pg[p].mapped /\ (ActivateLocked(r) \/ KeepLocked(r))
           \/ /\ pg[p].mapped
              /\ \E wrote \in BOOLEAN :
                    GoOn(r, [pg[p] EXCEPT !.mapped = FALSE, !.count = @ - 1,
                                          !.dirty = @ \/ wrote], "dirty")

\* A dirty page: kept when it was referenced or may not be written; pageout
\* keeps or activates it, or writes it: the page is unlocked, under writeback
\* or already clean.
PageOut(r) ==
    /\ At(r, "dirty")
    /\ LET p == rc[r].page
           page == [pg[p] EXCEPT !.dirty = FALSE, !.locked = FALSE]
       IN  \/ ~pg[p].dirty /\ GoOn(r, pg[p], "remove")
           \/ pg[p].dirty /\ KeepLocked(r)
           \/ /\ pg[p].dirty /\ rc[r].bit = 0 /\ pg[p].cached /\ pg[p].count = 2
              /\ \/ ActivateLocked(r)
                 \/ Keep(r, [page EXCEPT !.writeback = TRUE])
                 \/ GoOn(r, page, "written")

\* After a synchronous write the page is locked again, if it still can be
\* reclaimed.
PageWritten(r) ==
    /\ At(r, "written")
    /\ LET p == rc[r].page
       IN  \/ KeepLocked(r)
           \/ ~pg[p].dirty /\ GoOn(r, [pg[p] EXCEPT !.locked = TRUE], "remove")

\* One test of remove_mapping, made under tree_lock.
RemoveTest(r, here, ok, next) ==
    /\ At(r, here)
    /\ \/ ~ok /\ KeepLocked(r)
       \/ ok /\ GoOn(r, pg[rc[r].page], next)
\* Mutant: the tests in the other order.
RemoveSwapped(r) ==
    LET page == pg[rc[r].page]
    IN  \/ RemoveTest(r, "remove", page.cached /\ ~page.dirty, "test")
        \/ RemoveTest(r, "test", page.count = 2, "free")
\* remove_mapping: first nobody else may have a reference, then the page may
\* not be dirty; the page leaves the page cache and is free.
RemoveMapping(r) ==
    LET page == pg[rc[r].page]
    IN  \/ RemoveTest(r, "remove", page.cached /\ page.count = 2, "test")
        \/ RemoveTest(r, "test", ~page.dirty, "free")

FreeIt(r) ==
    /\ At(r, "free")
    /\ pg' = [pg EXCEPT ![rc[r].page].cached = FALSE, ![rc[r].page].count = @ - 2,
                        ![rc[r].page].locked = FALSE]
    /\ rc' = [rc EXCEPT ![r].page = Nobody, ![r].pc = "scan",
                        ![r].freed = @ + 1, ![r].bit = 0]
    /\ reclaimed' = Plus(reclaimed, 1)
    /\ UNCHANGED <<zoneVars, lru_lock, num_active_to_inactive,
                   num_inactive_to_free, deactivated>>

\* Mutant: PG_active is not looked at.
ToInactive(p) == FALSE
\* Which list the page goes back to.
ToActive(p) == pg[p].active

\* What could not be freed goes back under lru_lock, each page to the list of
\* its PG_active.
ScanDone(r) ==
    /\ At(r, "scan") /\ rc[r].hold = <<>> /\ LruFree
    /\ lru_lock' = r
    /\ rc' = [rc EXCEPT ![r].pc = "put_back"]
    /\ UNCHANGED <<zoneVars, pg, statVars>>

PutBack(r) ==
    /\ At(r, "put_back") /\ rc[r].back # <<>>
    /\ LET p == Last(rc[r].back)
       IN  /\ pg' = [pg EXCEPT ![p].lru = TRUE]
           /\ IF ToActive(p)
              THEN /\ active' = <<p>> \o active /\ nr_active' = nr_active + 1
                   /\ UNCHANGED <<inactive, nr_inactive>>
              ELSE /\ inactive' = <<p>> \o inactive /\ nr_inactive' = nr_inactive + 1
                   /\ UNCHANGED <<active, nr_active>>
           /\ lru_lock' = IF Full(r) THEN Nobody ELSE r
           /\ rc' = [rc EXCEPT ![r].back = Front(@), ![r].pvec = Append(@, p),
                               ![r].then = IF Full(r) THEN "put_back" ELSE @,
                               ![r].pc = IF Full(r) THEN "release" ELSE @]
    /\ UNCHANGED statVars

\* Another batch while fewer than max_scan pages were scanned; then the
\* pagevec is released and the statistics, which no lock protects, read and
\* written.
NextBatch(r) ==
    At(r, "put_back") /\ rc[r].back = <<>> /\ rc[r].left > 0 /\ Isolate(r, rc[r].left)
ShrinkInactiveEnd(r) ==
    /\ At(r, "put_back") /\ rc[r].back = <<>> /\ rc[r].left = 0
    /\ lru_lock' = Nobody
    /\ rc' = [rc EXCEPT ![r].pc = "release", ![r].then = "report"]
    /\ UNCHANGED <<zoneVars, pg, statVars>>

\* The value the counter gets.
ReportSum(r) == Plus(num_inactive_to_free, rc[r].freed)

ReportRead(r) ==
    /\ At(r, "report")
    /\ rc' = [rc EXCEPT ![r].pc = "store", ![r].then = "idle", ![r].left = 0,
                        ![r].old = ReportSum(r)]
    /\ UNCHANGED <<zoneVars, lru_lock, pg, statVars>>
ReportWrite(r) ==
    /\ At(r, "store")
    /\ num_inactive_to_free' = rc[r].old
    /\ rc' = [rc EXCEPT ![r] = Idle]
    /\ UNCHANGED <<zoneVars, lru_lock, pg, num_active_to_inactive, deactivated,
                   reclaimed>>

-----------------------------------------------------------------------------
PInit ==
    /\ active = <<>> /\ inactive = <<>> /\ nr_active = 0 /\ nr_inactive = 0
    /\ lru_lock = Nobody
    /\ pg = [p \in Pages |-> FreePage]
    /\ rc = [r \in Reclaimers |-> Idle]
    /\ num_active_to_inactive = 0 /\ num_inactive_to_free = 0
    /\ deactivated = 0 /\ reclaimed = 0

shrink_active_list(r) ==
    HoldRead(r) \/ HoldWrite(r) \/ HoldDone(r) \/ PutInactive(r)
    \/ PutInactiveDone(r) \/ PutActive(r) \/ ShrinkActiveEnd(r)
shrink_page_list(r) ==
    PageLock(r) \/ PageReferenced(r) \/ PageUnmap(r) \/ PageOut(r)
    \/ PageWritten(r) \/ RemoveMapping(r) \/ FreeIt(r)
shrink_inactive_list(r) ==
    ScanDone(r) \/ PutBack(r) \/ NextBatch(r) \/ ShrinkInactiveEnd(r)
    \/ ReportRead(r) \/ ReportWrite(r)
Step(r) == shrink_active_list(r) \/ shrink_page_list(r) \/ shrink_inactive_list(r)
           \/ Release(r) \/ Relock(r)

\* The loop of shrink_zone: calls for up to SWAP_CLUSTER_MAX pages, until both
\* numbers it computed from the sizes and the priority (any numbers) are used.
ShrinkZone(r) ==
    \E n \in 1..SWAP_CLUSTER_MAX : ShrinkActive(r, n) \/ ShrinkInactive(r, n)

PNext ==
    \/ \E p \in Pages : Kernel(p)
    \/ TimerActive \/ TimerInactive
    \/ \E r \in Reclaimers : Step(r) \/ ShrinkZone(r)

PSpec == PInit /\ [][PNext]_pvars
\* A reclaimer in the middle of a call goes on, and gets lru_lock though other
\* reclaimers take it again and again.
PFairSpec == PSpec /\ \A r \in Reclaimers : SF_pvars(Step(r))

-----------------------------------------------------------------------------
PCs == {"idle", "hold", "age", "put_inactive", "put_active", "release", "relock",
        "scan", "locked", "unmap", "dirty", "written", "remove", "test", "free",
        "put_back", "report", "store"}

\* Every variable has its type: the lists hold pages, counters are natural.
PTypeOK ==
    /\ active \in Seq(Pages) /\ inactive \in Seq(Pages)
    /\ nr_active \in Nat /\ nr_inactive \in Nat
    /\ lru_lock \in Reclaimers \cup {Nobody}
    /\ \A p \in Pages : pg[p].ref_cnt \in 0..MaxRefCnt /\ pg[p].count \in Nat
    /\ \A r \in Reclaimers : rc[r].pc \in PCs /\ rc[r].page \in Pages \cup {Nobody}
    /\ {num_active_to_inactive, num_inactive_to_free} \subseteq 0..Wrap - 1

Isolates(r) == rc[r].hold \o rc[r].inact \o rc[r].act \o rc[r].back
               \o (IF rc[r].page = Nobody THEN <<>> ELSE <<rc[r].page>>)

\* A page is in one place only: once on one of the zone's lists, or once on
\* one private list of one reclaimer, or nowhere.  PG_lru tells which, and
\* PG_active on which list: VM_BUG_ON(!PageLRU), VM_BUG_ON(PageLRU) and
\* VM_BUG_ON(!PageActive) never fire.
OneHome ==
    \A p \in Pages :
        LET onLists == Occurrences(p, active) + Occurrences(p, inactive)
            holders == {r \in Reclaimers : p \in ToSet(Isolates(r))}
        IN  /\ onLists = (IF pg[p].lru THEN 1 ELSE 0)
            /\ pg[p].lru => (pg[p].active <=> p \in ToSet(active))
            /\ Cardinality(holders) <= (IF pg[p].lru THEN 0 ELSE 1)
            /\ \A r \in holders : Occurrences(p, Isolates(r)) = 1
            /\ \A r \in Reclaimers :
                  /\ p \in ToSet(rc[r].inact) \cup ToSet(rc[r].act) => pg[p].active
                  /\ At(r, "locked") /\ rc[r].page = p => ~pg[p].active

\* Whenever lru_lock is free, the lengths memstats counts are the kernel's own
\* NR_ACTIVE and NR_INACTIVE, although shrink_active_list adds to them in
\* batches and drops the lock in between.
CountersAgree ==
    LruFree => memstats.active_count = nr_active /\ memstats.inactive_count = nr_inactive

\* page->_count is the number of its users: the page cache, the page tables,
\* a pinner, the reclaimer that isolated it and every pagevec slot.
RefsOf(p) ==
    LET one(b) == IF b THEN 1 ELSE 0
        held == [r \in Reclaimers |-> Occurrences(p, Isolates(r) \o rc[r].pvec)]
    IN  one(pg[p].cached) + one(pg[p].mapped) + one(pg[p].user # "none") + Total(held)
RefCountExact == \A p \in Pages : pg[p].count = RefsOf(p)

\* Where every page is, and who has a reference to it.
PageInv ==
    /\ PTypeOK
    /\ OneHome
    /\ RefCountExact

\* A page leaves the page cache through reclaim only when it is clean and
\* unmapped and nobody has it pinned, so no write is lost, although pinners
\* dirty pages without tree_lock.
NoLostWrite == \A p \in Pages : ~pg[p].cached => ~pg[p].dirty

\* ref_cnt is changed outside lru_lock only by the reclaimer that isolated the
\* page: between its read and its write nobody else ages the page.
AgeKept == \A r \in Reclaimers : At(r, "age") => pg[rc[r].page].ref_cnt = rc[r].old

\* An access to an active page is remembered until shrink_active_list looks at
\* the page: in its reference bit or, when the timer cleared that, its counter.
TouchRemembered ==
    \A p \in Pages :
        pg[p].touched /\ pg[p].active =>
            \/ pg[p].referenced \/ pg[p].ref_cnt > 0
            \/ \E r \in Reclaimers : rc[r].page = p /\ rc[r].bit # 0

\* Every page moved to the inactive list is in num_active_to_inactive or
\* still to be added to it by the call that moved it.
DeactivatedCounted ==
    LET pending == [r \in Reclaimers |->
                       rc[r].deact + IF At(r, "put_active") THEN 0 ELSE rc[r].moved]
    IN  Plus(num_active_to_inactive, Total(pending)) = deactivated

\* With one reclaimer, between two of its calls every page freed is in
\* num_inactive_to_free, whatever number of batches freed it.  (With two, both
\* may read the counter before either writes it.)
FreedCounted ==
    (\A r \in Reclaimers : At(r, "idle")) => num_inactive_to_free = reclaimed

\* The numbers that memstats prints are those of the kernel's own accounts,
\* and nothing moved or freed is missing from them.
Accounting ==
    /\ CountersAgree
    /\ DeactivatedCounted
    /\ FreedCounted

\* What hw5/README.txt:29-33 says of the timer: an access adds one to ref_cnt, which
\* is kept at its largest value.  It holds where RefBit is 1.
AccessAddsOne ==
    [][\A p \in Pages :
          TimerActive /\ TimerAges(p) /\ pg[p].referenced =>
              pg'[p].ref_cnt = IF pg[p].ref_cnt = MaxRefCnt THEN MaxRefCnt
                               ELSE pg[p].ref_cnt + 1]_pvars

\* A call of shrink_inactive_list or shrink_active_list comes to its end, also
\* when the list is shorter than max_scan or holds only dying pages.
ScanEnds == \A r \in Reclaimers : ~At(r, "idle") ~> At(r, "idle")
=============================================================================
