--------------------------- MODULE PageReclaimInv ---------------------------
(***************************************************************************)
(* The inductive invariant of page reclaim: which lists a reclaimer may    *)
(* have pages on at each of its steps, where every page is, who counts it, *)
(* and what the numbers read from memory are worth.                        *)
(***************************************************************************)
EXTENDS PageReclaim

PageRecords ==
    [ref_cnt : 0..MaxRefCnt, lru : BOOLEAN, active : BOOLEAN, referenced : BOOLEAN,
     locked : BOOLEAN, dirty : BOOLEAN, writeback : BOOLEAN, mapped : BOOLEAN,
     cached : BOOLEAN, count : Nat, user : {"none", "pinned", "written"},
     touched : BOOLEAN]

Locals ==
    [pc : PCs, then : PCs, hold : Seq(Pages), inact : Seq(Pages),
     act : Seq(Pages), back : Seq(Pages), pvec : Seq(Pages),
     page : Pages \cup {Nobody}, old : Nat, bit : {0, 1, -1}, moved : Nat, deact : Nat,
     left : Nat, freed : Nat, reclaim_mapped : BOOLEAN]

RTypeOK ==
    /\ active \in Seq(Pages) /\ inactive \in Seq(Pages)
    /\ nr_active \in Nat /\ nr_inactive \in Nat
    /\ lru_lock \in Reclaimers \cup {Nobody}
    /\ pg \in [Pages -> PageRecords]
    /\ rc \in [Reclaimers -> Locals]
    /\ num_active_to_inactive \in 0..Wrap - 1
    /\ num_inactive_to_free \in 0..Wrap - 1

-----------------------------------------------------------------------------
(* One reclaimer, by the record c of its locals.                           *)

Deactivating == {"hold", "age"}
OnPage == {"locked", "unmap", "dirty", "written", "remove", "test", "free"}
Scanning == {"scan"} \cup OnPage
PuttingBack == {"put_inactive", "put_active", "put_back"}

\* Where it is, or will be when the pagevec is released.
Stage(c) == IF c.pc \in {"release", "relock"} THEN c.then ELSE c.pc

\* Its lists are used in some of its steps, and empty in the others.
Stages(c) ==
    /\ c.pc = "release" => c.then \in PuttingBack \cup {"idle", "report"}
    /\ c.pc = "relock" => c.then \in PuttingBack
    /\ c.pc \notin {"release", "relock", "report"} => c.then = "idle"
    /\ c.hold # <<>> => c.pc \in Deactivating \cup Scanning
    /\ c.inact # <<>> => Stage(c) \in Deactivating \cup {"put_inactive"}
    /\ c.act # <<>> => Stage(c) \in Deactivating \cup {"put_inactive", "put_active"}
    /\ c.back # <<>> => Stage(c) \in Scanning \cup {"put_back"}
    /\ c.page # Nobody <=> c.pc \in {"age"} \cup OnPage
    /\ c.pvec # <<>> => c.pc \notin Deactivating \cup {"idle", "report", "store"}
    /\ c.moved # 0 => c.pc \in {"put_inactive", "put_active"}
    /\ c.deact # 0 => Stage(c) \in {"put_inactive", "put_active"}
    /\ c.freed # 0 => Stage(c) \in Scanning \cup {"put_back", "report", "store"}
    /\ c.pc = "store" => c.old \in 0..Wrap - 1

\* The pages it has isolated.
Private(c) == ToSet(c.hold) \cup ToSet(c.inact) \cup ToSet(c.act) \cup ToSet(c.back)
              \cup ({c.page} \cap Pages)

NoTwice(s) == \A i, j \in DOMAIN s : s[i] = s[j] => i = j
Disjoint(s, t) == ToSet(s) \cap ToSet(t) = {}

\* Each of them is in one place only.
Neat(c) ==
    /\ NoTwice(c.hold) /\ NoTwice(c.inact) /\ NoTwice(c.act) /\ NoTwice(c.back)
    /\ Disjoint(c.hold, c.inact) /\ Disjoint(c.hold, c.act) /\ Disjoint(c.hold, c.back)
    /\ Disjoint(c.inact, c.act) /\ Disjoint(c.inact, c.back) /\ Disjoint(c.act, c.back)
    /\ c.page \notin ToSet(c.hold) \cup ToSet(c.inact) \cup ToSet(c.act) \cup ToSet(c.back)

LocalsInv == \A r \in Reclaimers : Stages(rc[r]) /\ Neat(rc[r])

-----------------------------------------------------------------------------
(* Pages and reclaimers.                                                   *)

\* lru_lock is held while pages are put back.
LockInv == \A r \in Reclaimers : lru_lock = r <=> rc[r].pc \in PuttingBack

\* PG_lru and PG_active tell the list of a page.
ListsInv ==
    /\ NoTwice(active) /\ NoTwice(inactive)
    /\ \A p \in Pages : /\ p \in ToSet(active) <=> pg[p].lru /\ pg[p].active
                        /\ p \in ToSet(inactive) <=> pg[p].lru /\ ~pg[p].active

\* An isolated page is on no list of the zone and has one isolator.
OwnedInv ==
    \A r \in Reclaimers : \A p \in Private(rc[r]) :
        ~pg[p].lru /\ \A s \in Reclaimers : p \in Private(rc[s]) => s = r

\* The lists of shrink_active_list hold active pages, page_list inactive ones.
FlagsInv ==
    \A r \in Reclaimers :
        /\ \A p \in ToSet(rc[r].inact) \cup ToSet(rc[r].act) : pg[p].active
        /\ \A p \in ToSet(rc[r].hold) \cup ({rc[r].page} \cap Pages) :
              pg[p].active <=> rc[r].pc \in Deactivating

\* A page with a reference is on a list of the zone or isolated.
KeptInv ==
    \A p \in Pages : pg[p].count > 0 =>
        pg[p].lru \/ \E r \in Reclaimers : p \in Private(rc[r])

\* Only pages of the page cache are mapped, only active ones are "touched".
CacheInv ==
    \A p \in Pages : /\ pg[p].mapped => pg[p].cached
                     /\ pg[p].touched => pg[p].active

\* What remove_mapping has tested stays true.
TreeInv ==
    \A r \in Reclaimers :
        /\ rc[r].pc \in {"test", "free"} =>
              pg[rc[r].page].cached /\ pg[rc[r].page].count = 2
        /\ rc[r].pc = "free" => ~pg[rc[r].page].dirty

\* pgmoved of the holder of lru_lock, when it is at step l.
Batch(l) == IF lru_lock # Nobody /\ At(lru_lock, l) THEN rc[lru_lock].moved ELSE 0

\* The pages put back and not yet added to the zone's counters.
CountInv ==
    /\ Len(active) = nr_active + Batch("put_active")
    /\ Len(inactive) = nr_inactive + Batch("put_inactive")

\* The inductive invariant.
ReclaimIInv ==
    /\ RTypeOK /\ LocalsInv /\ LockInv
    /\ ListsInv /\ OwnedInv /\ FlagsInv /\ KeptInv
    /\ CacheInv /\ NoLostWrite /\ TreeInv /\ RefCountExact
    /\ AgeKept /\ TouchRemembered
    /\ CountInv /\ DeactivatedCounted

\* What one reclaimer has freed is in the counter with what it is about to add
\* to it, or in the number it is about to store.
FreedKept ==
    \A r \in Reclaimers :
        IF At(r, "store") THEN rc[r].old = reclaimed
        ELSE Plus(num_inactive_to_free, rc[r].freed) = reclaimed

=============================================================================
