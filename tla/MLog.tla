-------------------------------- MODULE MLog --------------------------------
(***************************************************************************)
(* The logging library (mlog.c, mlog.h): one log of the process, used by   *)
(* all of its threads.  The filter reads the facility array without the    *)
(* lock; everything else that changes state does so under mlog_lock and is *)
(* one action, except where a function drops the lock half way.            *)
(*                                                                         *)
(* Text is left out: a message is its length, a byte of the message buffer *)
(* a running number, a facility name or an UDP console a model value.      *)
(* stdout, stderr and syslog, which vmlog writes after it dropped the lock,*)
(* are outputs only.                                                       *)
(***************************************************************************)
EXTENDS Integers, Sequences, FiniteSets, SequencesExt

CONSTANTS
    Threads,    \* threads that use the log
    Programs,   \* sets of operations; the process uses those of one set
    Hint,       \* maxfac_hint of mlog_open (with the default facility)
    FacPad,     \* spare slots of a new facility array (32)
    MaxFacs,    \* bound: facility numbers of a process that uses "grow"
    Levels,     \* priorities used; below Info they are sets of debug streams
    Names,      \* facility names
    Hosts,      \* UDP consoles
    MaxUcons,   \* bound: consoles added
    MbLens,     \* msgbuf_len of mlog_open; 0 is none
    MsgLens     \* lengths of messages (tlen)

ASSUME MLogConstants ==
    /\ Hint \in Nat \ {0} /\ FacPad \in Nat /\ MaxFacs \in Nat \ {0}
    /\ Levels \subseteq Nat /\ MbLens \subseteq Nat /\ MsgLens \subseteq Nat \ {0}
    /\ MaxUcons \in Nat

None == "none"
Info == 16      \* MLOG_INFO, in units of a debug stream's bit

VARIABLES
    uses,       \* the operations this process uses
    mst,        \* mlog_xst and mst, and the process's open descriptors
    tail,       \* history: the last bytes logged since the log was opened
    byte,       \* history: the number of the next byte
    thr         \* what each thread is doing

vars == <<uses, mst, tail, byte, thr>>

-----------------------------------------------------------------------------
(* The message buffer: len bytes, cnt of them used, the next at wp.        *)

NewMb(len) == [len |-> len, cnt |-> 0, wp |-> 0, data |-> [i \in 0 .. len - 1 |-> 0]]

\* A piece of the buffer: where it starts and how long it is.
mlog_getmbptrs(mb) ==
    [b1 |-> [p |-> mb.wp, l |-> mb.len - mb.wp], b2 |-> [p |-> 0, l |-> mb.wp]]

\* Mutant: the write pointer also advances for a message that fills the buffer.
AdvanceAlways(mb, tlen) == (mb.wp + tlen) % mb.len

\* The write pointer after a message of tlen bytes.
AdvanceWp(mb, tlen) ==
    IF tlen >= mb.len THEN mb.wp
    ELSE IF mb.wp + tlen >= mb.len THEN mb.wp + tlen - mb.len ELSE mb.wp + tlen

\* vmlog, part 1: the message, or the end of it that fits, goes to the buffer.
PutMbuf(mb, msg) ==
    LET tlen  == Len(msg)
        b     == IF tlen > mb.len THEN SubSeq(msg, tlen - mb.len + 1, tlen) ELSE msg
        m     == mlog_getmbptrs(mb)
        ncpy  == IF Len(b) > m.b1.l THEN m.b1.l ELSE Len(b)
        cnt   == mb.cnt + tlen
    IN  [mb EXCEPT
           !.data = [i \in DOMAIN @ |->
               IF i >= m.b1.p /\ i < m.b1.p + ncpy THEN b[i - m.b1.p + 1]
               ELSE IF i < Len(b) - ncpy THEN b[i + ncpy + 1] ELSE @[i]],
           !.wp  = AdvanceWp(mb, tlen),
           !.cnt = IF @ < mb.len THEN (IF cnt > mb.len THEN mb.len ELSE cnt) ELSE @]

\* Skip what was never written; the whole first piece when whole holds.
SkipUnused(m, skip, whole) ==
    LET p == IF whole THEN [b1 |-> m.b2, b2 |-> [p |-> 0, l |-> 0]] ELSE m
        s == IF whole THEN skip - m.b1.l ELSE skip
    IN  [p EXCEPT !.b1 = [p |-> @.p + s, l |-> @.l - s]]

\* mlog_dmesg_mbuf: the contents, oldest bytes first, in two pieces.
mlog_dmesg_mbuf(mb) ==
    LET m == mlog_getmbptrs(mb)
        skip == mb.len - mb.cnt
    IN  SkipUnused(m, skip, skip >= m.b1.l)

\* mlog_findmesgbuf: the same from a copy of the process's memory.
mlog_findmesgbuf(mb) ==
    LET m == mlog_getmbptrs(mb)
        skip == mb.len - mb.cnt
    IN  SkipUnused(m, skip, skip > m.b1.l)

Bytes(mb, m) ==
    [i \in 1 .. m.b1.l |-> mb.data[m.b1.p + i - 1]]
    \o [i \in 1 .. m.b2.l |-> mb.data[m.b2.p + i - 1]]

Less(l, n) == IF n > l THEN 0 ELSE l - n

\* mlog_mbcopy: at most len bytes, the newest but for offset.
mlog_mbcopy(mb, offset, len) ==
    LET m     == mlog_dmesg_mbuf(mb)
        back  == IF offset > m.b2.l THEN offset - m.b2.l ELSE 0
        l2    == Less(m.b2.l, offset)
        l1    == Less(m.b1.l, back)
        skip  == Less(l1 + l2, len)
        skip2 == Less(skip, l1)
        s1    == IF skip > l1 THEN l1 ELSE skip
    IN  Bytes(mb, [b1 |-> [p |-> m.b1.p + s1, l |-> l1 - s1],
                   b2 |-> [p |-> m.b2.p + skip2, l |-> l2 - skip2]])

-----------------------------------------------------------------------------
(* The state of the log.                                                   *)

NoFacs == [i \in {} |-> 0]

\* memset(&mst, 0, ..) and the -1 of the descriptors; tag is NULL.
Zeroed(s) ==
    [s EXCEPT !.tag = FALSE, !.logfile = None, !.logfd = -1, !.mb = NewMb(0),
              !.udpsock = -1, !.ucon_on = FALSE, !.ucons = << >>,
              !.ucon_nslots = 0, !.fac_alloc = 0]

\* The lowest free descriptor: what open and socket return.
NewFd(s) == CHOOSE n \in 0 .. Cardinality(s.fds) :
               n \notin s.fds /\ \A k \in 0 .. n - 1 : k \in s.fds

Close(s, fd) == [s EXCEPT !.fds = @ \ {fd}]

OpenLogfile(s) == [s EXCEPT !.logfd = NewFd(s), !.fds = @ \cup {NewFd(s)}]
OpenUdp(s) == [s EXCEPT !.udpsock = NewFd(s), !.fds = @ \cup {NewFd(s)}]


\* Whether n facilities need a new array.
MustGrow(s, n) == n > s.fac_alloc

\* mlog_setnfac: at least n facilities; a new array takes the old one's place
\* and the old one is freed.
mlog_setnfac(s, n) ==
    IF n <= s.fac_cnt THEN s
    ELSE IF ~MustGrow(s, n) THEN [s EXCEPT !.fac_cnt = n]
    ELSE [s EXCEPT
            !.facs = 1 - s.facs, !.fac_cnt = n, !.fac_alloc = n + FacPad,
            !.fac = [i \in 0 .. n + FacPad - 1 |->
                       IF i < s.fac_cnt /\ i \in DOMAIN @ THEN @[i]
                       ELSE [mask |-> s.def_mask,
                             name |-> IF i = 0 THEN "MLOG" ELSE None]]]

\* calloc may fail only when the array grows.
NeedsMemory(s, n) == n > s.fac_cnt /\ MustGrow(s, n)

\* Mutant: the console socket is forgotten.
KeepUdp(s) ==
    LET s1 == IF s.logfile = None THEN s
              ELSE [Close(s, s.logfd) EXCEPT !.logfd = -1, !.logfile = None]
    IN  [s1 EXCEPT !.fac = NoFacs, !.fac_cnt = 0, !.fac_alloc = 0, !.mb = NewMb(0),
                   !.udpsock = -1, !.ucons = << >>]

\* mlog_cleanout: everything the log holds is released.
mlog_cleanout(s) ==
    LET s1 == IF s.logfile = None THEN s
              ELSE [Close(s, s.logfd) EXCEPT !.logfd = -1, !.logfile = None]
    IN  [Close(s1, s1.udpsock) EXCEPT
            !.fac = NoFacs, !.fac_cnt = 0, !.fac_alloc = 0, !.mb = NewMb(0),
            !.udpsock = -1, !.ucons = << >>]

Idle == [pc |-> "idle", flags |-> [fac |-> 0, lvl |-> 0], fac |-> 0, arr |-> 0,
         pass |-> 0]

Init ==
    /\ uses \in Programs
    /\ mst = [tag |-> FALSE, facs |-> 0, fac_cnt |-> 0, fac_alloc |-> 0,
              fac |-> NoFacs, def_mask |-> 0, logfile |-> None, logfd |-> 0,
              mb |-> NewMb(0), udpsock |-> 0, ucon_on |-> FALSE, ucons |-> << >>,
              ucon_nslots |-> 0, fds |-> {}]
    /\ tail = << >>
    /\ byte = 1
    /\ thr = [t \in Threads |-> Idle]

Uses(op) == op \in uses

\* A process that does not use "grow" keeps to the room mlog_open made.
FacBound == IF Uses("grow") THEN MaxFacs ELSE Hint + FacPad
At(t, pc) == thr[t].pc = pc
Goto(t, pc) == thr' = [thr EXCEPT ![t].pc = pc]
Done(t) == thr' = [thr EXCEPT ![t] = Idle]
NoLog == UNCHANGED <<uses, tail, byte>>

-----------------------------------------------------------------------------
(* Opening and closing.  One thread does either, while no other is inside. *)

Alone == \A t \in Threads : thr[t] = Idle

\* What mlog_open has done when it fails at a step, in the order of the code;
\* "done" is the end.
OpenSteps == <<"strdup", "open", "setnfac", "msgbuf", "socket", "ucons", "done">>

\* mlog_getucon: the entries of $MLOG_UCON whose host resolves.
mlog_getucon(env) == SelectSeq(env, LAMBDA h : h \in Hosts)

mlog_open(mask, file, mblen, console, env, at) ==
    LET past(step) == \E i, j \in DOMAIN OpenSteps :
                         OpenSteps[i] = step /\ OpenSteps[j] = at /\ i < j
        s0 == [Zeroed(mst) EXCEPT !.def_mask = mask]
        s1 == IF file # None /\ past("strdup") THEN [s0 EXCEPT !.logfile = file] ELSE s0
        s2 == IF file # None /\ past("open") THEN OpenLogfile(s1) ELSE s1
        s3 == IF past("setnfac") THEN mlog_setnfac(s2, Hint) ELSE s2
        s4 == IF past("msgbuf") THEN [s3 EXCEPT !.mb = NewMb(mblen)] ELSE s3
        s5 == IF console /\ past("socket") THEN [OpenUdp(s4) EXCEPT !.ucon_on = TRUE] ELSE s4
        s6 == IF past("ucons") THEN [s5 EXCEPT !.ucons = mlog_getucon(env),
                                               !.ucon_nslots = Len(env)]
              ELSE s5
    IN  /\ ~mst.tag /\ Alone
        /\ at \in {"strdup", "open"} => file # None
        /\ at = "msgbuf" => mblen > 0
        /\ at = "socket" => console
        /\ at = "ucons" => env # << >>
        /\ mst' = IF at = "done" THEN [s6 EXCEPT !.tag = TRUE] ELSE mlog_cleanout(s6)
        /\ tail' = << >>
        /\ byte' = 1
        /\ UNCHANGED <<uses, thr>>

mlog_close ==
    /\ mst.tag /\ Alone
    /\ mst' = mlog_cleanout([mst EXCEPT !.tag = FALSE])
    /\ UNCHANGED <<uses, tail, byte, thr>>

\* mlog_reopen: a new console socket and a new log file.  name is NULL (None),
\* "" for the same file, or a file; what may fail is socket, strdup or open.
mlog_reopen(name, fails) ==
    LET s1 == IF ~mst.ucon_on THEN mst
              ELSE IF "socket" \in fails
              THEN [Close(mst, mst.udpsock) EXCEPT !.udpsock = -1, !.ucon_on = FALSE]
              ELSE OpenUdp(Close(mst, mst.udpsock))
        s2 == [Close(s1, s1.logfd) EXCEPT !.logfd = -1]
        s3 == IF name = "" THEN s2 ELSE [s2 EXCEPT !.logfile = name]
        s4 == IF s3.logfile = None \/ "open" \in fails THEN s3 ELSE OpenLogfile(s3)
    IN  /\ mst.tag
        /\ "strdup" \in fails => name \notin {None, "", mst.logfile}
        /\ mst' = IF "strdup" \in fails THEN s2 ELSE s4
        /\ UNCHANGED thr /\ NoLog

-----------------------------------------------------------------------------
(* Logging a message.                                                      *)

Bit(n, b) == (n \div 2^b) % 2 = 1

\* The test of mlog_filter and vmlog: does a mask let a level through?
Passes(lvl, mask) ==
    IF lvl >= Info THEN lvl >= mask ELSE \E b \in 0 .. 3 : Bit(lvl, b) /\ Bit(mask, b)

\* mlog_filter, then vmlog's own test: without the lock, the facility number is
\* checked against fac_cnt and the array's address is read ..
FilterLoad(t, fac, lvl) ==
    /\ Uses("log")
    /\ \/ At(t, "idle")
       \/ At(t, "again") /\ thr[t].flags = [fac |-> fac, lvl |-> lvl]
    /\ IF mst.tag
       THEN thr' = [thr EXCEPT ![t] =
                [pc |-> "mask", flags |-> [fac |-> fac, lvl |-> lvl],
                 fac |-> IF fac >= mst.fac_cnt THEN 0 ELSE fac,
                 arr |-> mst.facs, pass |-> @.pass + 1]]
       ELSE Done(t)
    /\ UNCHANGED mst /\ NoLog

\* .. and then the mask in that array; from one that was freed, any.
FilterMask(t) ==
    /\ At(t, "mask")
    /\ \E mask \in IF thr[t].arr = mst.facs THEN {mst.fac[thr[t].fac].mask} ELSE Levels :
          IF ~Passes(thr[t].flags.lvl, mask) THEN Done(t)
          ELSE Goto(t, IF thr[t].pass = 2 THEN "lock" ELSE "again")
    /\ UNCHANGED mst /\ NoLog

\* vmlog, under the lock: the message goes to the message buffer, the log file
\* and the consoles.  The bytes of the history are numbered round and round.
vmlog(t, tlen) ==
    LET len == mst.mb.len
        msg == [i \in 1 .. tlen |-> 1 + ((byte + i - 2) % (2 * len))]
        all == tail \o msg
    IN  /\ At(t, "lock")
        /\ IF len = 0 THEN UNCHANGED <<mst, tail, byte>>
           ELSE /\ mst' = [mst EXCEPT !.mb = PutMbuf(@, msg)]
                /\ tail' = SubSeq(all, 1 + Less(Len(all), len), Len(all))
                /\ byte' = 1 + ((byte + tlen - 1) % (2 * len))
        /\ Done(t)
        /\ UNCHANGED uses

-----------------------------------------------------------------------------
(* Facilities.                                                             *)

\* What may go wrong: no memory for the array, or none for the name.
Memory == {"ok", "noname", "nofacs"}
MayBe(mem, fac) == mem = "nofacs" => NeedsMemory(mst, fac + 1)

mlog_namefacility(fac, name, mem) ==
    /\ MayBe(mem, fac)
    /\ LET s == mlog_setnfac(mst, fac + 1) IN
       mst' = CASE mem = "ok" -> [s EXCEPT !.fac[fac].name = name]
                [] mem = "noname" -> s
                [] mem = "nofacs" -> mst

mlog_setlogmask(fac, mask, mem) ==
    /\ MayBe(mem, fac) /\ mem # "noname"
    /\ mst' = IF mem = "ok" THEN [mlog_setnfac(mst, fac + 1) EXCEPT !.fac[fac].mask = mask]
              ELSE mst

NameFacility(t, fac, name, mem) ==
    /\ Uses("facility") /\ At(t, "idle") /\ mst.tag
    /\ mlog_namefacility(fac, name, mem)
    /\ UNCHANGED thr /\ NoLog

SetLogmask(t, fac, mask, mem) ==
    /\ Uses("facility") /\ At(t, "idle") /\ mst.tag
    /\ mlog_setlogmask(fac, mask, mem)
    /\ UNCHANGED thr /\ NoLog

\* mlog_allocfacility: the number under the lock, its name under the lock again.
mlog_allocfacility(t, mem) ==
    /\ Uses("facility") /\ At(t, "idle") /\ mst.tag /\ mst.fac_cnt < FacBound
    /\ MayBe(mem, mst.fac_cnt) /\ mem # "noname"
    /\ IF mem = "ok"
       THEN /\ mst' = mlog_setnfac(mst, mst.fac_cnt + 1)
            /\ thr' = [thr EXCEPT ![t].pc = "name", ![t].fac = mst.fac_cnt]
       ELSE UNCHANGED <<mst, thr>>
    /\ NoLog

AllocNamed(t, name, mem) ==
    /\ At(t, "name")
    /\ mlog_namefacility(thr[t].fac, name, mem)
    /\ Done(t) /\ NoLog

\* mlog_setmasks with NAME=LEVEL: the facility is looked up under the lock, and
\* its mask set under the lock again.
SetmasksFind(t, name, lvl) ==
    LET named == {i \in 0 .. mst.fac_cnt - 1 : mst.fac[i].name = name} IN
    /\ Uses("facility") /\ At(t, "idle") /\ mst.tag /\ named # {}
    /\ thr' = [thr EXCEPT ![t].pc = "set", ![t].flags.lvl = lvl,
                          ![t].fac = CHOOSE i \in named : \A j \in named : i <= j]
    /\ UNCHANGED mst /\ NoLog

SetmasksSet(t, mem) ==
    /\ At(t, "set")
    /\ mlog_setlogmask(thr[t].fac, thr[t].flags.lvl, mem)
    /\ Done(t) /\ NoLog

\* mlog_setmasks with LEVEL: one facility after the other, up to fac_cnt as it is
\* by then.
SetmasksAll(t, lvl) ==
    LET i == thr[t].fac IN
    /\ \/ Uses("facility") /\ At(t, "idle") /\ mst.tag
       \/ At(t, "setall") /\ thr[t].flags.lvl = lvl
    /\ IF i < mst.fac_cnt
       THEN /\ mlog_setlogmask(i, lvl, "ok")
            /\ thr' = [thr EXCEPT ![t].pc = "setall", ![t].flags.lvl = lvl,
                                  ![t].fac = i + 1]
       ELSE UNCHANGED mst /\ Done(t)
    /\ NoLog

-----------------------------------------------------------------------------
(* UDP consoles.                                                           *)

Ucon(t) == Uses("ucon") /\ At(t, "idle") /\ mst.tag /\ UNCHANGED thr /\ NoLog

mlog_ucon_on(t, ok) ==
    /\ Ucon(t)
    /\ mst' = IF mst.ucon_on THEN mst
              ELSE IF ok THEN [OpenUdp(mst) EXCEPT !.ucon_on = TRUE]
              ELSE [mst EXCEPT !.udpsock = -1]

mlog_ucon_off(t) ==
    /\ Ucon(t)
    /\ mst' = [Close(mst, mst.udpsock) EXCEPT !.ucon_on = FALSE, !.udpsock = -1]

\* mlog_ucon_add: the array grows by one if it is full, then the host is resolved.
mlog_ucon_add(t, host, mem) ==
    LET full == Len(mst.ucons) = mst.ucon_nslots
        s == IF full THEN [mst EXCEPT !.ucon_nslots = @ + 1] ELSE mst
    IN  /\ Ucon(t) /\ Len(mst.ucons) < MaxUcons
        /\ mem \/ full
        /\ mst' = IF ~mem THEN mst
                  ELSE IF host \in Hosts THEN [s EXCEPT !.ucons = Append(@, host)] ELSE s

\* mlog_ucon_rm: the last console takes the place of the one removed.
mlog_ucon_rm(t, host) ==
    LET u == mst.ucons
        i == SelectInSeq(u, LAMBDA h : h = host)
    IN  /\ Ucon(t) /\ i # 0
        /\ mst' = [mst EXCEPT !.ucons = Front([u EXCEPT ![i] = u[Len(u)]])]

-----------------------------------------------------------------------------
Open == \E mask \in Levels, file \in {None, "file"}, mblen \in MbLens,
           console \in BOOLEAN, env \in {<< >>} \cup {<<h, None>> : h \in Hosts},
           at \in {OpenSteps[i] : i \in DOMAIN OpenSteps} :
            /\ mblen > 0 <=> Uses("msgbuf")
            /\ ~Uses("ucon") => file = None /\ ~console /\ env = << >>
            /\ mlog_open(mask, file, mblen, console, env, at)

Reopen == \E name \in {None, "", "file", "other"}, fails \in SUBSET {"socket", "strdup", "open"} :
            Uses("ucon") /\ mlog_reopen(name, fails)

Log(t) ==
    \/ \E fac \in IF Uses("facility") THEN 0 .. FacBound ELSE {0}, lvl \in Levels :
          FilterLoad(t, fac, lvl)
    \/ FilterMask(t)
    \/ \E tlen \in MsgLens : vmlog(t, tlen)

Facility(t) ==
    \/ \E fac \in 0 .. FacBound - 1, name \in Names, mem \in Memory :
          NameFacility(t, fac, name, mem) \/ AllocNamed(t, name, mem)
    \/ \E fac \in 0 .. FacBound - 1, lvl \in Levels, mem \in Memory : SetLogmask(t, fac, lvl, mem)
    \/ \E mem \in Memory : mlog_allocfacility(t, mem) \/ SetmasksSet(t, mem)
    \/ \E lvl \in Levels : SetmasksAll(t, lvl) \/ \E name \in Names : SetmasksFind(t, name, lvl)

Console(t) ==
    \/ mlog_ucon_off(t)
    \/ \E ok \in BOOLEAN : mlog_ucon_on(t, ok)
    \/ \E h \in Hosts \cup {None}, mem \in BOOLEAN : mlog_ucon_add(t, h, mem)
    \/ \E h \in Hosts : mlog_ucon_rm(t, h)

Next ==
    \/ Open \/ mlog_close \/ Reopen
    \/ \E t \in Threads : Log(t) \/ Facility(t) \/ Console(t)

Spec == Init /\ [][Next]_vars

-----------------------------------------------------------------------------
\* The message buffer holds the last bytes logged, oldest first, whatever the
\* lengths of the messages, also when a message is longer than the buffer.
\* mlog_dmesg, mlog_findmesgbuf and, for every offset and length, mlog_mbcopy
\* return them.
MbufIsTail ==
    mst.mb.len > 0 =>
        LET mb == mst.mb
            upto(n) == SubSeq(tail, 1, Less(Len(tail), n))
        IN  /\ Bytes(mb, mlog_dmesg_mbuf(mb)) = tail
            /\ Bytes(mb, mlog_findmesgbuf(mb)) = tail
            /\ \A offset \in 0 .. mb.len + 1, len \in 1 .. mb.len + 1 :
                  LET u == upto(offset) IN
                  mlog_mbcopy(mb, offset, len) = SubSeq(u, 1 + Less(Len(u), len), Len(u))


\* The process holds open the descriptors of its log and no others, through
\* failed opens, reopens and consoles switched on and off; and vmlog's "UCON_ON
\* bit can only be set if there is a valid mst.udpsock open".
DescriptorsKept ==
    /\ mst.fds = IF mst.tag THEN {mst.logfd, mst.udpsock} \ {-1} ELSE {}
    /\ mst.tag => /\ mst.ucon_on <=> mst.udpsock # -1
                  /\ Len(mst.ucons) <= mst.ucon_nslots
=============================================================================
