------------------------------ MODULE DtStart -------------------------------
(***************************************************************************)
(* The start of a job: dthread_run (dt_init.c) on every rank up to the     *)
(* point where the manager runs, with the shared memory segments           *)
(* established collectively (dthread_shmseg_establish in dt_segops.c), the *)
(* bootstrap allocations in segment 0, and then the default arena the      *)
(* initial application thread publishes through shared memory              *)
(* (dt_shmops.c, and xthread's application main).                          *)
(*                                                                         *)
(* Ranks run at their own speed and meet in MPI's collective calls: a      *)
(* reduction completes when all ranks have entered it, a broadcast lets    *)
(* its root go on at once.  The kernel's choice of an address, and every   *)
(* call that may fail, is nondeterministic.                                *)
(***************************************************************************)
EXTENDS Integers, Sequences, FiniteSets

CONSTANTS
    WSize,        \* MPI world size
    Sources,      \* shared memory sources: "umap", "plain" or "addr"
    NAddr,        \* addresses 1 .. NAddr can hold a mapping
    MaxRetries,   \* retries for a uniform mapping (9 in the code)
    AppBytes,     \* application_bytes of the xthread configuration
    PageLen,      \* page size; a segment's metadata takes its first page
    GtabLen,      \* length of the global thread table
    Readers,      \* ranks, other than 0, with a thread that uses the default arena
    Faults        \* calls that may fail: "map", "remap", "setup"

ASSUME StartConstants ==
    /\ WSize \in Nat \ {0} /\ PageLen \in Nat \ {0} /\ AppBytes \in Nat
    /\ NAddr \in Nat \ {0} /\ MaxRetries \in Nat
    /\ Len(Sources) > 0 /\ Readers \subseteq 1 .. WSize - 1
    /\ \A s \in DOMAIN Sources : Sources[s] \in {"umap", "plain", "addr"}

Ranks == 0 .. WSize - 1
Segs == DOMAIN Sources
NULL == 0
MAP_FAILED == NAddr + WSize + 1    \* above every address, as (void *)-1 is
DaLen == 1                    \* sizeof(dthread_shmref_t)


\* dthread_mapping_size (xthread): the application's bytes, a page of metadata,
\* and for segment 0 the thread table and a page for the allocator; in pages.
dthread_mapping_size ==
    LET total == AppBytes + PageLen + GtabLen + PageLen
    IN  ((total + PageLen - 1) \div PageLen) * PageLen

SegEnd == dthread_mapping_size

VARIABLES
    job,      \* "run", "aborted" (MPI_Abort) or "crashed"
    pc,       \* where each rank is in dthread_run
    lcv,      \* the segment each rank is establishing
    shmmap,   \* the address of each segment's mapping, per rank
    loc,      \* the other locals of dthread_shmseg_establish, per rank
    taken,    \* addresses something else occupies, per rank
    r0info,   \* what rank 0 has broadcast for each segment
    out,      \* result of the latest reduction
    fresh,    \* segments this job has initialised
    seg0,     \* first_avail of segment 0
    boot,     \* bootstrap references, per rank: made, then broadcast
    app,      \* the initial application thread: where it is, and its arena
    da_src,   \* the default arena in shared memory, and the words not yet stored
    dflt      \* default arena of a thread on each rank, as cached there

mapvars == <<lcv, shmmap, loc, taken, r0info, out, fresh>>
appvars == <<app, da_src, dflt>>
vars == <<job, pc, mapvars, seg0, boot, appvars>>

NoRef == [off |-> 0, len |-> 0]
NoLoc == [fd |-> FALSE, rv |-> 0, hint |-> NULL, retries |-> 0, mapping |-> NULL]

Init ==
    /\ job = "run"
    /\ pc = [r \in Ranks |-> IF r = 0 THEN "establish" ELSE "bcast"]
    /\ lcv = [r \in Ranks |-> 1]
    /\ shmmap = [r \in Ranks |-> [s \in Segs |-> NULL]]
    /\ loc = [r \in Ranks |-> NoLoc]
    /\ taken \in [Ranks -> SUBSET (1 .. NAddr)]
    /\ r0info = << >>
    /\ out = [min |-> 0, max |-> 0, rv |-> 0]
    /\ fresh = {}
    /\ seg0 = PageLen
    /\ boot = [r \in Ranks |-> [da |-> NoRef, gtab |-> NoRef]]
    /\ app = [pc |-> "none", arena |-> NoRef]
    /\ da_src = [ref |-> NoRef, todo |-> {}]
    /\ dflt = [r \in Ranks |-> [pc |-> "none", ref |-> NoRef, todo |-> {}, early |-> FALSE]]

-----------------------------------------------------------------------------
(* Mapping a segment.                                                      *)

\* Where mmap may put a mapping on rank r: at the hint if that is free, at any
\* free address otherwise, nowhere if there is none.
FreeAddrs(r) == (1 .. NAddr) \ (taken[r] \cup {shmmap[r][s] : s \in Segs})

mmap(r, hint) ==
    IF hint \in FreeAddrs(r) THEN {hint}
    ELSE IF FreeAddrs(r) = {} THEN {MAP_FAILED} ELSE FreeAddrs(r)

\* What establish may return for the segment: the address of the mapping.
\* Memory already mapped (dt_addr) stays where it is.
establish(r, hint) ==
    LET s == lcv[r]
    IN  (IF Sources[s] = "addr" THEN {NAddr + 1 + r} ELSE mmap(r, hint))
            \cup (IF "map" \in Faults THEN {MAP_FAILED} ELSE {})

\* A descriptor is open after establish, unless it failed or opened none.
OpensFd(r, m) == m # MAP_FAILED /\ Sources[lcv[r]] # "addr"

\* Rank 0 establishes and initialises the segment, and broadcasts the result.
Establish0 ==
    LET s == lcv[0] IN
    /\ pc[0] = "establish"
    /\ \E m \in establish(0, NULL) :
          /\ r0info' = Append(r0info, m)
          /\ fresh' = IF m = MAP_FAILED THEN fresh ELSE fresh \cup {s}
          /\ shmmap' = IF m = MAP_FAILED THEN shmmap
                       ELSE [shmmap EXCEPT ![0][s] = m]
          /\ loc' = [loc EXCEPT ![0] = [NoLoc EXCEPT !.fd = OpensFd(0, m)]]
    /\ pc' = [pc EXCEPT ![0] = "bcast"]
    /\ UNCHANGED <<job, lcv, taken, out, seg0, boot, appvars>>

\* A rank leaves the broadcast with rank 0's result.
Bcast(r) ==
    LET s == lcv[r]
        umap == Sources[s] = "umap"
    IN  /\ pc[r] = "bcast" /\ Len(r0info) >= s
        /\ IF r0info[s] = MAP_FAILED
           THEN /\ loc' = [loc EXCEPT ![r].rv = 1]
                /\ pc' = [pc EXCEPT ![r] = "failed"]
           ELSE /\ loc' = [loc EXCEPT
                             ![r].rv = 0,
                             ![r].hint = IF umap THEN r0info[s] ELSE NULL,
                             ![r].retries = IF umap THEN MaxRetries ELSE 0]
                /\ pc' = [pc EXCEPT ![r] = "retry"]
        /\ UNCHANGED <<job, lcv, shmmap, taken, r0info, out, fresh, seg0, boot, appvars>>


\* A rank without a mapping tries to get one; then it enters the reduction.
Retry(r) ==
    LET s == lcv[r]
        first == ~loc[r].fd
        choices == IF shmmap[r][s] # NULL THEN {shmmap[r][s]}
                   ELSE IF first THEN establish(r, loc[r].hint)
                   ELSE mmap(r, loc[r].hint)
                          \cup (IF "remap" \in Faults THEN {MAP_FAILED} ELSE {})
    IN  /\ pc[r] = "retry"
        /\ \E m \in choices :
              /\ loc' = [loc EXCEPT ![r].mapping = m,
                                    ![r].rv = IF m = MAP_FAILED THEN 1 ELSE 0,
                                    ![r].fd = @ \/ OpensFd(r, m)]
              /\ shmmap' = IF m = MAP_FAILED THEN shmmap
                           ELSE [shmmap EXCEPT ![r][s] = m]
        /\ pc' = [pc EXCEPT ![r] = "reduce"]
        /\ UNCHANGED <<job, lcv, taken, r0info, out, fresh, seg0, boot, appvars>>

\* MPI_Allreduce of the mappings (minimum and maximum) and of rv (maximum).
Allreduce ==
    LET maps == {loc[r].mapping : r \in Ranks}
    IN  /\ \A r \in Ranks : pc[r] = "reduce"
        /\ out' = [min |-> CHOOSE x \in maps : \A y \in maps : x <= y,
                   max |-> CHOOSE x \in maps : \A y \in maps : x >= y,
                   rv  |-> IF \E r \in Ranks : loc[r].rv # 0 THEN 1 ELSE 0]
        /\ pc' = [r \in Ranks |-> "decide"]
        /\ UNCHANGED <<job, lcv, shmmap, loc, taken, r0info, fresh, seg0, boot, appvars>>

\* The three outcomes of a reduction, decided by each rank for itself.
MapFails(r) ==
    \/ out.min = MAP_FAILED \/ out.max = MAP_FAILED \/ out.rv # 0
    \/ (Sources[lcv[r]] = "umap" /\ out.min # out.max /\ loc[r].retries = 0)
MapAgain(r) ==
    ~MapFails(r) /\ Sources[lcv[r]] = "umap" /\ out.min # out.max

\* A segment is mapped: on to the next one, or out of the function.
MapDone(r) ==
    /\ pc[r] = "decide" /\ ~MapFails(r) /\ ~MapAgain(r)
    /\ loc' = [loc EXCEPT ![r] = NoLoc]
    /\ IF lcv[r] < Len(Sources)
       THEN /\ lcv' = [lcv EXCEPT ![r] = @ + 1]
            /\ pc' = [pc EXCEPT ![r] = IF r = 0 THEN "establish" ELSE "bcast"]
       ELSE /\ lcv' = lcv
            /\ pc' = [pc EXCEPT ![r] = "sum"]
    /\ UNCHANGED <<job, shmmap, taken, r0info, out, fresh, seg0, boot, appvars>>

\* Uniform mapping: a rank not at the maximum drops its mapping and tries there.
MapRetry(r) ==
    LET s == lcv[r] IN
    /\ pc[r] = "decide" /\ MapAgain(r)
    /\ shmmap' = IF loc[r].mapping = out.max THEN shmmap
                 ELSE [shmmap EXCEPT ![r][s] = NULL]
    /\ loc' = [loc EXCEPT ![r].hint = out.max, ![r].retries = @ - 1]
    /\ pc' = [pc EXCEPT ![r] = "retry"]
    /\ UNCHANGED <<job, lcv, taken, r0info, out, fresh, seg0, boot, appvars>>

\* Mutant: the segment that failed stays mapped.
FailedKeeps(r) ==
    /\ pc[r] = "failed" \/ (pc[r] = "decide" /\ MapFails(r))
    /\ loc' = [loc EXCEPT ![r] = [NoLoc EXCEPT !.rv = 1]]
    /\ shmmap' = [shmmap EXCEPT ![r] =
                    [s \in Segs |-> IF s < lcv[r] THEN NULL ELSE @[s]]]
    /\ pc' = [pc EXCEPT ![r] = "sum"]
    /\ UNCHANGED <<job, lcv, taken, r0info, out, fresh, seg0, boot, appvars>>

\* The failed label: close, unmap all segments so far, return an error.
Failed(r) ==
    /\ pc[r] = "failed" \/ (pc[r] = "decide" /\ MapFails(r))
    /\ loc' = [loc EXCEPT ![r] = [NoLoc EXCEPT !.rv = 1]]
    /\ shmmap' = [shmmap EXCEPT ![r] =
                    [s \in Segs |-> IF s <= lcv[r] THEN NULL ELSE @[s]]]
    /\ pc' = [pc EXCEPT ![r] = "sum"]
    /\ UNCHANGED <<job, lcv, taken, r0info, out, fresh, seg0, boot, appvars>>

-----------------------------------------------------------------------------
(* The rest of dthread_run.                                                *)

\* MPI_Allreduce of the successes: all ranks go on, or the job is aborted.
Sum ==
    /\ \A r \in Ranks : pc[r] = "sum"
    /\ IF \A r \in Ranks : loc[r].rv = 0
       THEN pc' = [r \in Ranks |-> "boot_da"] /\ UNCHANGED job
       ELSE job' = "aborted" /\ UNCHANGED pc
    /\ UNCHANGED <<mapvars, seg0, boot, appvars>>

\* dthread_shmseg_alloc in segment 0, under its spin lock; NoRef when there is
\* not enough left.  A length of 0 asks for what is left.  Lengths are in units
\* of the alignment here, so nothing is padded.
shmseg_alloc(want) ==
    LET total == IF want = 0 THEN SegEnd - seg0 ELSE want
    IN  IF seg0 < SegEnd /\ total <= SegEnd - seg0
        THEN [off |-> seg0, len |-> total] ELSE NoRef

\* dthread_shm_bootstrap, on every rank: room for the default arena's
\* reference (cleared without a check for NULL) ...
BootDa(r) ==
    LET ref == shmseg_alloc(DaLen) IN
    /\ pc[r] = "boot_da"
    /\ IF ref = NoRef
       THEN job' = "crashed" /\ UNCHANGED <<pc, seg0, boot>>
       ELSE /\ seg0' = seg0 + ref.len
            /\ boot' = [boot EXCEPT ![r].da = ref]
            /\ pc' = [pc EXCEPT ![r] = "boot_gtab"]
            /\ UNCHANGED job
    /\ UNCHANGED <<mapvars, appvars>>

\* ... and the global thread table.
BootGtab(r) ==
    LET ref == shmseg_alloc(GtabLen) IN
    /\ pc[r] = "boot_gtab"
    /\ IF ref = NoRef
       THEN job' = "aborted" /\ UNCHANGED <<pc, seg0, boot>>
       ELSE /\ seg0' = seg0 + ref.len
            /\ boot' = [boot EXCEPT ![r].gtab = ref]
            /\ pc' = [pc EXCEPT ![r] = "boot_bcast"]
            /\ UNCHANGED job
    /\ UNCHANGED <<mapvars, appvars>>

\* Mutant: every rank keeps its own references.
BootBcastOwn(r) ==
    /\ pc[r] = "boot_bcast"
    /\ pc[0] \in {"boot_bcast", "setup", "up"}
    /\ pc' = [pc EXCEPT ![r] = "setup"]
    /\ UNCHANGED <<job, mapvars, seg0, boot, appvars>>

\* MPI_Bcast of rank 0's bootstrap references: every rank uses those.
BootBcast(r) ==
    /\ pc[r] = "boot_bcast"
    /\ pc[0] \in {"boot_bcast", "setup", "up"}
    /\ boot' = [boot EXCEPT ![r] = boot[0]]
    /\ pc' = [pc EXCEPT ![r] = "setup"]
    /\ UNCHANGED <<job, mapvars, seg0, appvars>>

\* Local tables, queues and the MPI thread; then this is the manager.
Setup(r) ==
    /\ pc[r] = "setup"
    /\ \/ pc' = [pc EXCEPT ![r] = "up"] /\ UNCHANGED job
       \/ "setup" \in Faults /\ job' = "aborted" /\ UNCHANGED pc
    /\ UNCHANGED <<mapvars, seg0, boot, appvars>>

-----------------------------------------------------------------------------
(* The initial application thread, on rank 0, and the default arena.       *)

\* Manager 0 starts the initial thread once it runs itself.
AppStart ==
    /\ pc[0] = "up" /\ app.pc = "none"
    /\ app' = [app EXCEPT !.pc = "run"]
    /\ UNCHANGED <<job, pc, mapvars, seg0, boot, da_src, dflt>>

\* dthread_shm_new_arena(0, ..., 0): the arena takes what is left of segment 0.
NewArena ==
    LET ref == shmseg_alloc(0) IN
    /\ app.pc = "run"
    /\ IF ref = NoRef THEN app' = [app EXCEPT !.pc = "end"] /\ UNCHANGED seg0
       ELSE /\ app' = [pc |-> "arena", arena |-> ref]
            /\ seg0' = seg0 + ref.len
    /\ UNCHANGED <<job, pc, mapvars, boot, da_src, dflt>>

\* dthread_shm_set_defaultarena: rank 0's own copy, then the words of the
\* reference in shared memory, one at a time in an order of the compiler's.
SetDefault ==
    /\ app.pc = "arena"
    /\ app' = [app EXCEPT !.pc = "set"]
    /\ da_src' = [da_src EXCEPT !.todo = {"off", "len"}]
    /\ dflt' = [dflt EXCEPT ![0].ref = app.arena, ![0].todo = {}]
    /\ UNCHANGED <<job, pc, mapvars, seg0, boot>>

\* Mutant: only the length is published.
StoreLen ==
    /\ app.pc = "set"
    /\ da_src' = [ref |-> [da_src.ref EXCEPT !.len = app.arena.len], todo |-> {}]
    /\ app' = [app EXCEPT !.pc = "ready"]
    /\ UNCHANGED <<job, pc, mapvars, seg0, boot, dflt>>

StoreWord ==
    /\ app.pc = "set"
    /\ \E w \in da_src.todo :
          da_src' = [ref |-> [da_src.ref EXCEPT ![w] = app.arena[w]],
                     todo |-> da_src.todo \ {w}]
    /\ app' = [app EXCEPT !.pc = IF da_src'.todo = {} THEN "ready" ELSE "set"]
    /\ UNCHANGED <<job, pc, mapvars, seg0, boot, dflt>>

\* A thread of the application starts on a rank of Readers (a bound).  The
\* initial thread may create it before the default arena is set; early says so.
ThreadStart(r) ==
    /\ app.pc \in {"run", "arena", "ready"} /\ pc[r] = "up" /\ r \in Readers
    /\ dflt[r].pc = "none"
    /\ dflt' = [dflt EXCEPT ![r].pc = "run", ![r].early = app.pc # "ready"]
    /\ UNCHANGED <<job, pc, mapvars, seg0, boot, app, da_src>>

\* dthread_shm_get_defaultarena on a rank that has not cached the default: a
\* length of 0 means it is not set; otherwise the reference is copied under a
\* lock of this rank, which does not stop rank 0 from writing it.
GetDefault(r) ==
    /\ dflt[r].pc = "run" /\ dflt[r].ref = NoRef /\ da_src.ref.len # 0
    /\ dflt' = [dflt EXCEPT ![r].pc = "copy", ![r].todo = {"off", "len"}]
    /\ UNCHANGED <<job, pc, mapvars, seg0, boot, app, da_src>>

CopyWord(r) ==
    /\ dflt[r].pc = "copy"
    /\ \E w \in dflt[r].todo :
          dflt' = [dflt EXCEPT ![r].ref[w] = da_src.ref[w],
                               ![r].todo = @ \ {w},
                               ![r].pc = IF dflt[r].todo = {w} THEN "run" ELSE "copy"]
    /\ UNCHANGED <<job, pc, mapvars, seg0, boot, app, da_src>>

\* dthread_shm_validate_args: the reference must lead to an arena's metadata,
\* which holds the same reference.  The only arena here is the one set.
validate_args(ref) == ref = app.arena

-----------------------------------------------------------------------------
(* References and pointers.  A mapping at address m covers SegEnd bytes     *)
(* from m * SegEnd.                                                        *)

\* Mutant: a pointer just past a mapping counts as in it.
ptr2shmref_past(r, ptr, len) ==
    LET offset(s) == ptr - shmmap[r][s] * SegEnd
        in == {s \in Segs : offset(s) >= 0 /\ offset(s) <= SegEnd}
        shmid == CHOOSE s \in in : \A x \in in : s <= x
    IN  IF in = {} \/ len > SegEnd - offset(shmid) THEN NoRef
        ELSE [shmid |-> shmid, off |-> offset(shmid), len |-> len]

ptr2shmref(r, ptr, len) ==
    LET offset(s) == ptr - shmmap[r][s] * SegEnd
        in == {s \in Segs : offset(s) >= 0 /\ offset(s) < SegEnd}
        shmid == CHOOSE s \in in : \A x \in in : s <= x
    IN  IF in = {} \/ len > SegEnd - offset(shmid) THEN NoRef
        ELSE [shmid |-> shmid, off |-> offset(shmid), len |-> len]

shmref2ptr(r, ref, len) ==
    IF ref.shmid \notin Segs \/ ref.off >= SegEnd \/ ref.len > SegEnd - ref.off
         \/ len > ref.len
    THEN NULL ELSE shmmap[r][ref.shmid] * SegEnd + ref.off

-----------------------------------------------------------------------------
Step(r) ==
    \/ r = 0 /\ Establish0
    \/ Bcast(r) \/ Retry(r) \/ MapDone(r) \/ MapRetry(r) \/ Failed(r)
    \/ BootDa(r) \/ BootGtab(r) \/ BootBcast(r) \/ Setup(r)
    \/ GetDefault(r) \/ CopyWord(r) \/ ThreadStart(r)

App == AppStart \/ NewArena \/ SetDefault \/ StoreWord

Next ==
    /\ job = "run"
    /\ \/ \E r \in Ranks : Step(r)
       \/ Allreduce \/ Sum \/ App

Spec == Init /\ [][Next]_vars

\* Every rank keeps running, and MPI completes the calls all ranks made.
FairSpec ==
    /\ Spec
    /\ \A r \in Ranks : WF_vars(job = "run" /\ Step(r))
    /\ WF_vars(job = "run" /\ (Allreduce \/ Sum))

-----------------------------------------------------------------------------
(* Properties.                                                             *)

\* A rank that has left dthread_shmseg_establish with success.
Established(r) == pc[r] \notin {"establish", "bcast", "retry", "reduce", "decide", "failed"}
                    /\ loc[r].rv = 0

\* Establishing the segments is all or nothing, whatever mmap answers on which
\* rank and however often the mapping is retried.  Ranks that leave
\* dthread_shmseg_establish agree whether it worked.  With success every
\* segment is mapped, and one with a uniform mapping at the same address
\* everywhere; with an error nothing stays mapped.  No descriptor stays open.
\* A uniform mapping is given up only when the address asked for last is
\* occupied on some rank.  And a rank other than 0 looks at a segment's metadata
\* only after this job has initialised it: what an earlier job left in the file
\* passes every check.
MappedAlike ==
    \A r, q \in Ranks :
        /\ r # 0 => {s \in Segs : shmmap[r][s] # NULL} \subseteq fresh
        /\ pc[r] = "decide" /\ out.rv = 0 /\ MapFails(r) =>
             \E p \in Ranks : loc[r].hint \in taken[p] \cup {shmmap[p][s] : s \in 1 .. lcv[r] - 1}
        /\ Established(r) /\ pc[q] = "sum" => Established(q)
        /\ pc[r] = "sum" /\ ~Established(r) => \A s \in Segs : shmmap[r][s] = NULL
        /\ Established(r) =>
             \A s \in Segs :
                /\ shmmap[r][s] # NULL
                /\ Sources[s] = "umap" => shmmap[q][s] = shmmap[r][s]
        /\ pc[r] \notin {"bcast", "retry", "reduce", "decide", "failed"} => ~loc[r].fd

\* Ranks that are up use one thread table and one default arena reference, and
\* these overlap neither each other nor the arena of the application.
TablesShared ==
    LET overlap(x, y) == x.off < y.off + y.len /\ y.off < x.off + x.len
    IN  \A r \in Ranks : pc[r] \in {"setup", "up"} =>
            /\ boot[r] = boot[0]
            /\ boot[r].da.len = DaLen /\ boot[r].gtab.len = GtabLen
            /\ ~overlap(boot[r].da, boot[r].gtab)
            /\ app.arena # NoRef => /\ ~overlap(boot[r].da, app.arena)
                                    /\ ~overlap(boot[r].gtab, app.arena)


\* A pointer into a segment travels between ranks (dthread_ptr2shmref on one,
\* dthread_shmref2ptr on another, as xthread passes arguments) and still leads
\* to the same byte of the same segment, also where mappings adjoin.
PointersTravel ==
    \A r, q \in Ranks : Established(r) /\ Established(q) =>
        \A s \in Segs, off \in {0, SegEnd - 1}, len \in 0 .. 2 :
            LET ref == ptr2shmref(r, shmmap[r][s] * SegEnd + off, len)
            IN  IF off + len > SegEnd THEN ref = NoRef
                ELSE /\ ref # NoRef /\ ref.shmid = s
                     /\ shmref2ptr(q, ref, len) = shmmap[q][s] * SegEnd + off

\* A default arena a rank has cached is the one set, or dthread_shm_validate_args
\* refuses it; it is refused only on a rank where a thread ran before the
\* default was set, against the advice at dthread_shm_set_defaultarena.
DefaultAgrees ==
    \A r \in Ranks :
        dflt[r].ref # NoRef /\ dflt[r].todo = {} =>
            validate_args(dflt[r].ref) \/ dflt[r].early


\* Bootstrap allocations are made before the system is fully up: when the
\* application takes memory of segment 0, no rank still has to take its own.
BootBeforeApp ==
    app.arena # NoRef => \A r \in Ranks : pc[r] \notin {"boot_da", "boot_gtab"}
=============================================================================
