------------------------------- MODULE DtShm --------------------------------
(***************************************************************************)
(* Shared memory arenas (dt_shmops.c) in one segment (dthread_shmseg_alloc *)
(* of dt_segops.c): the "break" and the "bsd" malloc driver, and the       *)
(* malloc, free and realloc calls of application threads on any rank.      *)
(*                                                                         *)
(* All state is in the segment, as the code keeps it: the segment's break  *)
(* line, each arena's metadata, and the words the drivers write in front   *)
(* of blocks (mem).  What a driver does under the arena's spin lock is one *)
(* step; a realloc that moves a block is three (malloc, copy, free), so    *)
(* other threads run in between.  Widths are scaled down: size_t has       *)
(* SizeBits bits, int has IntBits, a page and the alignment are small.     *)
(***************************************************************************)
EXTENDS Integers, Sequences, FiniteSets, Functions

CONSTANTS
    Threads,      \* application threads, on any rank
    AlignBits,    \* the alignment is 2^AlignBits (4: sizeof(max_align_t) is 16)
    PageSz,       \* getpagesize()
    SizeBits,     \* width of size_t and uint64_t (64)
    IntBits,      \* width of int (32)
    SegFirst,     \* first_avail of the segment when the model starts
    SegEnd,       \* end_avail of the segment
    MdSize,       \* per driver: sizeof its metadata
    ArenaSizes,   \* sizes asked of new_arena (0: what is left)
    Requests,     \* per driver: sizes asked of malloc and realloc
    MaxArenas,    \* bound: arenas made
    MaxOps        \* bound: malloc and realloc calls that succeed

Drivers == {"break", "bsd"}            \* internal_mops[]

ASSUME ShmConstants ==
    /\ {AlignBits, SizeBits, IntBits, PageSz, SegFirst, SegEnd} \subseteq Nat
    /\ SegFirst > 0 /\ SegFirst < SegEnd
    /\ MdSize \in [Drivers -> Nat] /\ DOMAIN Requests = Drivers

VARIABLES
    seg,      \* segment metadata: first_avail, end_avail
    arenas,   \* arenas made, with their metadata
    mem,      \* offset -> what is stored there: a header or a block's data
    held,     \* blocks the application holds
    lost,     \* blocks it let go of and the driver did not take back
    thr,      \* realloc in progress, per thread
    nops      \* calls so far (bounded by MaxOps)

vars == <<seg, arenas, mem, held, lost, thr, nops>>

alignsz == 2^AlignBits
SizeMod == 2^SizeBits

\* The padding that brings a size to a multiple of alignsz.
Pad(n) == (alignsz - (n % alignsz)) % alignsz

\* Both headers are shorter than alignsz, and rounded up to it: break's
\* hdrlen (4 words) and bsd's oversize (one word).
hdrlen == alignsz
oversize == alignsz

NoBlock == [off |-> 0, len |-> 0]
Idle == [pc |-> "idle"]

-----------------------------------------------------------------------------
(* The segment allocator.                                                  *)

\* dthread_shmseg_alloc: the padded size wraps at the top of size_t, and a
\* total of zero takes what is left.
dthread_shmseg_alloc(s, want) ==
    LET total == (want + Pad(want)) % SizeMod
        avail == s.end_avail - s.first_avail
        got   == IF total = 0 THEN avail ELSE total
    IN  IF avail > 0 /\ got <= avail
        THEN [off |-> s.first_avail, len |-> got]
        ELSE NoBlock

\* mdalign_size: metadata padded so that what follows it is aligned.
mdalign_size(off, base) == base + Pad(off + base)

-----------------------------------------------------------------------------
(* Memory.                                                                 *)

Hdr(kind, n) == [kind |-> kind, n |-> n]

Put(m, off, w) == [x \in DOMAIN m \cup {off} |-> IF x = off THEN w ELSE m[x]]

Stored(m, off, kind) == off \in DOMAIN m /\ m[off].kind = kind

\* Storing the data w in [off, off + len): headers there are overwritten.
Fill(m, off, len, w) ==
    IF len = 0 THEN m
    ELSE LET kept == {x \in DOMAIN m : x + alignsz <= off \/ x >= off + len}
         IN  Put(Restrict(m, kept), off, Hdr("data", w))

-----------------------------------------------------------------------------
(* The break driver.  A driver's malloc returns the arena, the memory and  *)
(* the offset of the block, 0 when there is none.                          *)

break_init(a) ==
    LET mdsize == mdalign_size(a.off, MdSize["break"])
    IN  [mopid |-> "break", off |-> a.off, len |-> a.len,
         min_uoffset |-> a.off + mdsize, max_uoffset |-> a.off + a.len,
         allocated |-> mdsize, nalloc |-> 0]

break_malloc(A, m, size) ==
    LET total == (size + Pad(size) + hdrlen) % SizeMod
        hdr   == A.off + A.allocated
    IN  IF total <= A.len - A.allocated
        THEN [A   |-> [A EXCEPT !.allocated = @ + total, !.nalloc = @ + 1],
              m   |-> Put(m, hdr, Hdr("break", size)),
              off |-> hdr + hdrlen]
        ELSE [A |-> A, m |-> m, off |-> 0]

\* Mutant: the line is reset one block too early.
break_free_early(A, m, off) ==
    IF off >= A.min_uoffset + hdrlen /\ Stored(m, off - hdrlen, "break")
    THEN LET n == IF A.nalloc > 0 THEN A.nalloc - 1 ELSE 0
         IN  [A  |-> [A EXCEPT !.nalloc = n,
                               !.allocated = IF n <= 1 THEN A.min_uoffset - A.off
                                                       ELSE @],
              m  |-> Restrict(m, DOMAIN m \ {off - hdrlen}),
              ok |-> TRUE]
    ELSE [A |-> A, m |-> m, ok |-> FALSE]

break_free(A, m, off) ==
    IF off >= A.min_uoffset + hdrlen /\ Stored(m, off - hdrlen, "break")
    THEN LET n == IF A.nalloc > 0 THEN A.nalloc - 1 ELSE 0
         IN  [A  |-> [A EXCEPT !.nalloc = n,
                               !.allocated = IF n = 0 THEN A.min_uoffset - A.off
                                                      ELSE @],
              m  |-> Restrict(m, DOMAIN m \ {off - hdrlen}),
              ok |-> TRUE]
    ELSE [A |-> A, m |-> m, ok |-> FALSE]

\* What break_realloc decides before it moves anything: fail, keep the block,
\* or move it and copy `copy' bytes.
break_realloc(A, m, off, size) ==
    IF ~(off >= A.min_uoffset + hdrlen /\ Stored(m, off - hdrlen, "break"))
    THEN [do |-> "fail", copy |-> 0]
    ELSE LET old == m[off - hdrlen].n
         IN  [do |-> IF size <= old THEN "keep" ELSE "move", copy |-> old]

-----------------------------------------------------------------------------
(* The bsd driver.                                                         *)

NBUCKETS == SizeBits - AlignBits

\* BUCKSIZE as an int, converted to uint64_t: the shift that reaches the sign
\* bit is sign-extended, a longer one is taken modulo the width of int.
BUCKSIZE(X) ==
    LET c == (X + AlignBits) % IntBits
    IN  IF c = IntBits - 1 THEN SizeMod - 2^c ELSE 2^c

MinOf(S) == CHOOSE x \in S : \A y \in S : x <= y

minbucket == MinOf({b \in 0 .. NBUCKETS - 1 : BUCKSIZE(b) >= 1 + oversize})
pagebucket == MinOf({b \in 0 .. NBUCKETS - 1 : BUCKSIZE(b) >= PageSz})

bsd_init(a) ==
    LET mdsize == mdalign_size(a.off, MdSize["bsd"])
    IN  [mopid |-> "bsd", off |-> a.off, len |-> a.len,
         min_uoffset |-> a.off + mdsize, max_uoffset |-> a.off + a.len,
         nextf |-> [b \in 0 .. NBUCKETS - 1 |-> 0],
         nmalloc |-> [b \in 0 .. NBUCKETS - 1 |-> 0],
         mycore |-> a.off + mdsize, core_resid |-> a.len - mdsize]

\* What bsd_morecore takes from the core for a bucket, and in how many blocks.
MoreAmt(bucket) ==
    IF BUCKSIZE(bucket) < PageSz THEN PageSz
    ELSE (BUCKSIZE(bucket) + PageSz) % SizeMod
MoreBlks(bucket) ==
    IF BUCKSIZE(bucket) < PageSz THEN PageSz \div BUCKSIZE(bucket) ELSE 1

bsd_morecore(A, m, bucket) ==
    LET sz    == BUCKSIZE(bucket)
        amt   == MoreAmt(bucket)
        nblks == MoreBlks(bucket)
        blk(i) == A.mycore + i * sz
        new   == {blk(i) : i \in 0 .. nblks - 1}
    IN  IF bucket < minbucket \/ bucket >= NBUCKETS \/ A.core_resid < amt
        THEN [A |-> A, m |-> m]
        ELSE [A |-> [A EXCEPT !.mycore = @ + amt, !.core_resid = @ - amt,
                              !.nextf[bucket] = blk(0)],
              m |-> [x \in DOMAIN m \cup new |->
                        IF x \notin new THEN m[x]
                        ELSE Hdr("free", IF x = blk(nblks - 1) THEN 0
                                                               ELSE x + sz)]]

\* The bucket bsd_malloc takes a request from; NBUCKETS when the doubling of
\* amt runs out of size_t.
BucketFor(size) ==
    LET small == size <= PageSz \div 2 - oversize
        from  == IF small THEN minbucket ELSE pagebucket
        amt(k) == ((IF small THEN BUCKSIZE(minbucket) ELSE PageSz) * 2^k) % SizeMod
        n     == IF small THEN -oversize ELSE PageSz - oversize
        k     == MinOf({i \in 0 .. SizeBits : amt(i) = 0 \/ size <= amt(i) + n})
    IN  IF amt(k) = 0 THEN NBUCKETS ELSE from + k

bsd_malloc(A, m, size) ==
    LET bucket == BucketFor(size)
        none   == [A |-> A, m |-> m, off |-> 0]
        more   == IF A.nextf[bucket] = 0 THEN bsd_morecore(A, m, bucket)
                                         ELSE [A |-> A, m |-> m]
        ov     == more.A.nextf[bucket]
    IN  CASE bucket = NBUCKETS -> none
          [] bucket < NBUCKETS /\ ov = 0 -> none
          [] OTHER ->
               [A   |-> [more.A EXCEPT !.nextf[bucket] = more.m[ov].n,
                                       !.nmalloc[bucket] = @ + 1],
                m   |-> Put(more.m, ov, Hdr("bsd", bucket)),
                off |-> ov + oversize]

\* Mutant: the freed block does not link to the rest of the list.
bsd_free_unlinked(A, m, off) ==
    IF off >= A.min_uoffset + oversize /\ Stored(m, off - oversize, "bsd")
    THEN LET ov == off - oversize
             bucket == m[ov].n
         IN  [A  |-> [A EXCEPT !.nextf[bucket] = ov, !.nmalloc[bucket] = @ - 1],
              m  |-> Put(m, ov, Hdr("free", 0)),
              ok |-> TRUE]
    ELSE [A |-> A, m |-> m, ok |-> FALSE]

bsd_free(A, m, off) ==
    IF off >= A.min_uoffset + oversize /\ Stored(m, off - oversize, "bsd")
    THEN LET ov == off - oversize
             bucket == m[ov].n
         IN  [A  |-> [A EXCEPT !.nextf[bucket] = ov, !.nmalloc[bucket] = @ - 1],
              m  |-> Put(m, ov, Hdr("free", A.nextf[bucket])),
              ok |-> TRUE]
    ELSE [A |-> A, m |-> m, ok |-> FALSE]

\* What a block of a bucket holds besides its overhead.
BuckRoom(b) ==
    IF BUCKSIZE(b) < PageSz THEN BUCKSIZE(b) - oversize
    ELSE BUCKSIZE(b) + PageSz - oversize

bsd_realloc(A, m, off, size) ==
    IF ~(off >= A.min_uoffset + oversize /\ Stored(m, off - oversize, "bsd"))
    THEN [do |-> "fail", copy |-> 0]
    ELSE LET b    == m[off - oversize].n
             prev == IF b <= minbucket THEN 0 ELSE BuckRoom(b - 1)
         IN  [do   |-> IF size <= BuckRoom(b) /\ (prev = 0 \/ size > prev)
                       THEN "keep" ELSE "move",
              copy |-> IF size < BuckRoom(b) THEN size ELSE BuckRoom(b)]

\* bsd_mstats: the blocks of a bucket's free list, found by walking it, and
\* the number in use.
bsd_mstats(A, m, b) ==
    LET limit == Cardinality({x \in DOMAIN m : m[x].kind = "free"})
        walk[i \in 0 .. limit] ==
            IF i = 0 THEN A.nextf[b]
            ELSE LET fp == walk[i - 1] IN IF fp = 0 THEN 0 ELSE m[fp].n
    IN  [free |-> {walk[i] : i \in 0 .. limit} \ {0},
         ends |-> walk[limit] = 0,
         used |-> A.nmalloc[b]]

-----------------------------------------------------------------------------
(* The calls of dt_shmops.c.                                               *)

drv_malloc(A, m, size) ==
    IF A.mopid = "break" THEN break_malloc(A, m, size) ELSE bsd_malloc(A, m, size)
\* (what a freed block held is nobody's any more)
drv_free(A, m, off) ==
    LET gone == IF Stored(m, off, "data") THEN {off} ELSE {}
        left == Restrict(m, DOMAIN m \ gone)
    IN  IF A.mopid = "break" THEN break_free(A, left, off)
                             ELSE bsd_free(A, left, off)
drv_realloc(A, m, off, size) ==
    IF A.mopid = "break" THEN break_realloc(A, m, off, size)
                         ELSE bsd_realloc(A, m, off, size)

\* dthread_shm_validate_args, for the offset of a block.
validate_args(A, off) ==
    off >= A.min_uoffset /\ off < A.max_uoffset /\ off % alignsz = 0

Blk(a, off, len) == [a |-> a, off |-> off, len |-> len]

\* The blocks being moved by a realloc in progress, old and new.
Moving == {t \in Threads : thr[t].pc # "idle"}
Olds == {thr[t].old : t \in Moving}
News == {thr[t].new : t \in Moving}

\* Data at an offset, "junk" when none was stored there.
Data(m, off) == IF Stored(m, off, "data") THEN m[off].n ELSE "junk"

Init ==
    /\ seg = [first_avail |-> SegFirst, end_avail |-> SegEnd]
    /\ arenas = << >>
    /\ mem = << >>
    /\ held = {} /\ lost = {}
    /\ thr = [t \in Threads |-> Idle]
    /\ nops = 0

\* dthread_shm_new_arena: when the driver's metadata does not fit, the memory
\* taken from the segment is lost.
dthread_shm_new_arena(drv, size) ==
    LET a == dthread_shmseg_alloc(seg, size)
    IN  /\ Len(arenas) < MaxArenas
        /\ size = 0 \/ size >= PageSz
        /\ a # NoBlock
        /\ seg' = [seg EXCEPT !.first_avail = @ + a.len]
        /\ arenas' = IF mdalign_size(a.off, MdSize[drv]) > a.len THEN arenas
                     ELSE Append(arenas, IF drv = "break" THEN break_init(a)
                                                          ELSE bsd_init(a))
        /\ UNCHANGED <<mem, held, lost, thr, nops>>

\* dthread_shm_malloc; the caller fills its block.
dthread_shm_malloc(t, a, size) ==
    LET R == drv_malloc(arenas[a], mem, size)
    IN  /\ thr[t].pc = "idle" /\ nops < MaxOps
        /\ R.off # 0
        /\ arenas' = [arenas EXCEPT ![a] = R.A]
        /\ mem' = Fill(R.m, R.off, size, t)
        /\ held' = held \cup {Blk(a, R.off, size)}
        /\ nops' = nops + 1
        /\ UNCHANGED <<seg, lost, thr>>

\* dthread_shm_free, and dthread_shm_free_ref (byref), which ignores a
\* reference of length 0.
dthread_shm_free(t, b, byref) ==
    LET A == arenas[b.a]
        R == drv_free(A, mem, b.off)
        taken == ~(byref /\ b.len = 0) /\ validate_args(A, b.off) /\ R.ok
    IN  /\ thr[t].pc = "idle"
        /\ held' = held \ {b}
        /\ arenas' = IF taken THEN [arenas EXCEPT ![b.a] = R.A] ELSE arenas
        /\ mem' = IF taken THEN R.m ELSE mem
        /\ lost' = IF taken THEN lost ELSE lost \cup {b}
        /\ UNCHANGED <<seg, thr, nops>>

\* dthread_shm_realloc_ref of a reference of length 0 is a malloc: the old
\* block is not freed.
realloc_null(t, b, size) ==
    LET R == drv_malloc(arenas[b.a], mem, size)
    IN  /\ thr[t].pc = "idle" /\ nops < MaxOps
        /\ b.len = 0 /\ R.off # 0
        /\ arenas' = [arenas EXCEPT ![b.a] = R.A]
        /\ mem' = Fill(R.m, R.off, size, t)
        /\ held' = (held \ {b}) \cup {Blk(b.a, R.off, size)}
        /\ lost' = lost \cup {b}
        /\ nops' = nops + 1
        /\ UNCHANGED <<seg, thr>>

\* dthread_shm_realloc that keeps the block; the caller fills it to its new
\* length.
realloc_keep(t, b, size) ==
    LET A == arenas[b.a]
    IN  /\ thr[t].pc = "idle" /\ nops < MaxOps
        /\ validate_args(A, b.off)
        /\ drv_realloc(A, mem, b.off, size).do = "keep"
        /\ held' = (held \ {b}) \cup {Blk(b.a, b.off, size)}
        /\ mem' = Fill(mem, b.off, size, IF b.len > 0 THEN Data(mem, b.off) ELSE t)
        /\ nops' = nops + 1
        /\ UNCHANGED <<seg, arenas, lost, thr>>

\* dthread_shm_realloc that moves the block: the new block is allocated ...
realloc_move(t, b, size) ==
    LET A == arenas[b.a]
        D == drv_realloc(A, mem, b.off, size)
        R == drv_malloc(A, mem, size)
    IN  /\ thr[t].pc = "idle" /\ nops < MaxOps
        /\ validate_args(A, b.off)
        /\ D.do = "move" /\ R.off # 0
        /\ arenas' = [arenas EXCEPT ![b.a] = R.A]
        /\ mem' = R.m
        /\ thr' = [thr EXCEPT ![t] = [pc |-> "copy", old |-> b, copy |-> D.copy,
                                      new |-> Blk(b.a, R.off, size)]]
        /\ nops' = nops + 1
        /\ UNCHANGED <<seg, held, lost>>

\* Mutant: the block moves without its contents.
realloc_copy_nothing(t) ==
    /\ thr[t].pc = "copy"
    /\ thr' = [thr EXCEPT ![t].pc = "free"]
    /\ UNCHANGED <<seg, arenas, mem, held, lost, nops>>

\* ... the old contents are copied ...
realloc_copy(t) ==
    /\ thr[t].pc = "copy"
    /\ mem' = Fill(mem, thr[t].new.off, thr[t].copy, Data(mem, thr[t].old.off))
    /\ thr' = [thr EXCEPT ![t].pc = "free"]
    /\ UNCHANGED <<seg, arenas, held, lost, nops>>

\* ... and the old block is freed; the caller fills the block to its new length.
realloc_free(t) ==
    LET old == thr[t].old
        new == thr[t].new
        R   == drv_free(arenas[old.a], mem, old.off)
        val == IF old.len > 0 /\ thr[t].copy > 0 THEN Data(mem, new.off) ELSE t
    IN  /\ thr[t].pc = "free"
        /\ arenas' = [arenas EXCEPT ![old.a] = R.A]
        /\ mem' = Fill(R.m, new.off, new.len, val)
        /\ held' = (held \ {old}) \cup {new}
        /\ lost' = IF R.ok THEN lost ELSE lost \cup {old}
        /\ thr' = [thr EXCEPT ![t] = Idle]
        /\ UNCHANGED <<seg, nops>>

\* A block is used by one thread at a time.
Next ==
    \/ \E drv \in Drivers, size \in ArenaSizes : dthread_shm_new_arena(drv, size)
    \/ \E t \in Threads, a \in DOMAIN arenas :
          \E size \in Requests[arenas[a].mopid] : dthread_shm_malloc(t, a, size)
    \/ \E t \in Threads, b \in held \ Olds, byref \in BOOLEAN :
          dthread_shm_free(t, b, byref)
    \/ \E t \in Threads, b \in held \ Olds :
          \E size \in Requests[arenas[b.a].mopid] :
             realloc_null(t, b, size) \/ realloc_keep(t, b, size)
               \/ realloc_move(t, b, size)
    \/ \E t \in Threads : realloc_copy(t) \/ realloc_free(t)

Spec == Init /\ [][Next]_vars

-----------------------------------------------------------------------------
(* Properties.                                                             *)

Live(a) == {b \in held \cup lost \cup News : b.a = a}

\* Where the memory an arena has assigned to blocks ends.
BreakLine(A) == IF A.mopid = "break" THEN A.off + A.allocated ELSE A.mycore

\* Every block handed out lies, over its whole length, in memory the driver
\* has assigned: between the arena's metadata (and the block's own header) and
\* the break line.  break resets its line when its last block is freed, bsd
\* hands out blocks of the size class it computed; either is wrong if some
\* block still in use sticks out.
BlocksBelowBreak ==
    \A a \in DOMAIN arenas : \A b \in Live(a) :
        /\ b.off >= arenas[a].min_uoffset + alignsz
        /\ b.off + b.len <= BreakLine(arenas[a])

\* The bookkeeping of an arena adds up.  break: nalloc counts the blocks not
\* freed, and with none the line is back behind the metadata.  bsd (what
\* bsd_mstats reports): every free list ends and holds no block in use, nmalloc
\* counts the blocks in use, and the blocks of all buckets, free or in use,
\* make up the core taken: no block is lost or on two lists.
CoreAccounted ==
    \A a \in DOMAIN arenas :
        LET A == arenas[a]
            span(b) == MoreAmt(b) \div MoreBlks(b)
            st == [b \in minbucket .. NBUCKETS - 1 |-> bsd_mstats(A, mem, b)]
            inuse(b) == {x \in Live(a) : mem[x.off - oversize] = Hdr("bsd", b)}
            size == [b \in DOMAIN st |->
                        (Cardinality(st[b].free) + st[b].used) * span(b)]
        IN  IF A.mopid = "break"
            THEN /\ A.nalloc = Cardinality(Live(a))
                 /\ A.nalloc = 0 => A.allocated = A.min_uoffset - A.off
            ELSE /\ \A b \in DOMAIN st :
                       /\ st[b].ends
                       /\ st[b].used = Cardinality(inuse(b))
                       /\ \A x \in Live(a) : x.off - oversize \notin st[b].free
                 /\ FoldFunction(+, 0, size) = A.mycore - A.min_uoffset

\* The arenas implement the abstract heap: blocks in use never overlap, keep
\* their alignment and stay in the segment, a realloc, however it interleaves
\* with other calls, keeps the contents of its block, and no call changes the
\* contents of another block.
Heap == INSTANCE ShmHeap WITH
    Space  <- SegFirst .. SegEnd - 1,
    blocks <- {[off |-> b.off, len |-> b.len,
                val |-> IF b.len = 0 THEN "none" ELSE Data(mem, b.off)] : b \in held}
HeapRefined == Heap!Spec
=============================================================================
