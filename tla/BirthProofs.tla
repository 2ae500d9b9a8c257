---------------------------- MODULE BirthProofs ----------------------------
(***************************************************************************)
(* create_thread, start_thread and RETCLEAN keep LifeInv: a thread takes a *)
(* slot of gtab under a fresh seq, gets its pthread, and leaves it.        *)
(***************************************************************************)
EXTENDS LifeProofs

\* Leaves are for Zenon unless they name another prover.
USE Zenon

\* A slot is claimed and given back at once, by a manager 0 that drains.
LEMMA CreateDrainsLife ==
    ASSUME TypeOK, TypeOK', LifeInv, AppKnown', NEW s \in Ranks, NEW g \in Slots,
           net[s][0] # <<>>, Head(net[s][0]).op = "CREATE", ~gtab[g].allocated,
           NEW e \in GtabEntry, gtab' = [gtab EXCEPT ![g] = gtab_free(e)],
           net' = dtq_send_enqueue(Received(s, 0), 0, s,
                      Answer("CREATED", Head(net[s][0]).xid, "EIO", NoData)),
           UNCHANGED <<ltab, app, known, mgrstate, rpending>>
    PROVE  LifeInv'
<1> net \in Net /\ 0 \in Ranks /\ gtab \in Gtab
  BY ZeroInRange DEF TypeOK, Net, Gtab
<1>1. Head(net[s][0]).xid \in Nat
  BY HeadFacts DEF Msg
<1>2. QuietlyTaken(s, 0)
  BY <1>1, QuietAnswer, RetType DEF Errors
<1>3. SameEntries(g) /\ SlotFreed(g) /\ ~gtab'[g].has_ltab
  BY FreeEffect
<1>4. /\ SlotClear(s, g, -1)
      /\ \A p : StartPending(p) => p.thread.idx # g
      /\ \A r \in Ranks, l \in Slots : Lives(r, l) => ltab[r][l].gtab_idx # g
  BY IdleSlotClear
<1>5. net[s][0][1].op # "STARTED"
  BY HeadFacts
<1>6. \A p : StartPending(p)' =>
         /\ StartPending(p) /\ p.thread.idx # g
         /\ ~(net[s][0][1].op = "STARTED" /\ net[s][0][1].xid = p.xid)
  BY <1>4, <1>5 DEF StartPending
<1>7. \A p : JoinWaiting(p)' => JoinWaiting(p) /\ p.thread.idx # g
  BY DEF JoinWaiting, LifeInv, JoinWaitHasFuture, dthread_dt2gtab
<1>8. StartsKept(-1)
  BY DEF StartsKept, StartPending
<1> QED
  BY <1>2, <1>3, <1>4, <1>6, <1>7, <1>8, SlotGoneLife

-----------------------------------------------------------------------------
(* A slot is taken under a fresh seq *)

\* Slot g becomes that of thread h, and p is the request to start it on rank d.
Born(g, h, p, d) ==
    /\ h \in Handle /\ h.idx = g /\ h.seq = seqsrc[0]
    /\ p.op = "START" /\ p.thread = h /\ p.xid = seqsrc[0] + NRanks
    /\ ~gtab[g].allocated /\ SameEntries(g)
    /\ gtab'[g].allocated /\ gtab'[g].seq = seqsrc[0] /\ gtab'[g].rank = d
    /\ gtab'[g].terminated = "NONE" /\ ~gtab'[g].has_ltab /\ ~gtab'[g].detached
    /\ \A q : StartPending(q)' <=> StartPending(q) \/ q = p
    /\ \A q : JoinWaiting(q)' <=> JoinWaiting(q)

\* No message, request or pthread has the new seq.
LEMMA BornFresh ==
    ASSUME TypeOK, HandleInv, LifeInv, seqsrc[0] \in Nat
    PROVE  /\ seqsrc[0] # 0
           /\ \A k \in Slots : gtab[k].seq \in Nat /\ gtab[k].seq < seqsrc[0]
           /\ \A h \in known : h.seq # seqsrc[0]
           /\ \A q : StartPending(q) => q.xid \in Nat /\ q.xid < seqsrc[0] + NRanks
           /\ \A t, d \in Ranks : \A i \in 1 .. Len(net[t][d]) :
                 /\ net[t][d][i].thread.seq \in Nat /\ net[t][d][i].thread.seq < seqsrc[0]
                 /\ net[t][d][i].op \in {"START", "STARTED"}
                       => net[t][d][i].xid # seqsrc[0] + NRanks
           /\ \A r \in Ranks, l \in Slots : HandleOf(r, l).seq # seqsrc[0]
<1> 0 \in Ranks /\ 0 \in Slots /\ NRanks \in Nat /\ net \in Net
  BY ZeroInRange, NMaxThreadAssumption, NRanksAssumption DEF TypeOK, Net, Slots
<1>1. \A k \in Slots : gtab[k].seq \in Nat /\ gtab[k].seq < seqsrc[0]
  BY DEF TypeOK, GtabEntry, HandleInv, SeqsOld
<1>2. seqsrc[0] # 0
  BY <1>1, SMT
<1>3. ASSUME NEW h \in known
      PROVE  h.seq # seqsrc[0]
  <2>1. h \in Handle /\ h.seq < seqsrc[0]
    BY DEF TypeOK, HandleInv, SeqsOld
  <2> QED
    BY <2>1, SMT DEF Handle
<1>4. ASSUME NEW q, StartPending(q)
      PROVE  q.xid \in Nat /\ q.xid < seqsrc[0] + NRanks
  <2>1. q.thread \in Handle /\ q.xid = q.thread.seq + NRanks
    BY <1>4, StartFacts DEF LifeInv
  <2>2. q.thread.seq < seqsrc[0]
    BY <1>4 DEF HandleInv, SeqsOld, StartPending
  <2> QED
    BY <2>1, <2>2, SMT DEF Handle
<1>5. ASSUME NEW t \in Ranks, NEW d \in Ranks, NEW i \in 1 .. Len(net[t][d])
      PROVE  /\ net[t][d][i].thread.seq \in Nat /\ net[t][d][i].thread.seq < seqsrc[0]
             /\ net[t][d][i].op \in {"START", "STARTED"}
                   => net[t][d][i].xid # seqsrc[0] + NRanks
  <2>1. net[t][d][i] \in Msg
    BY SMT DEF Net
  <2>2. net[t][d][i].thread.seq \in Nat
    BY <2>1 DEF Msg, Handle
  <2>3. net[t][d][i].thread.seq < seqsrc[0]
    BY DEF HandleInv, SeqsOld, NetOld
  <2>4. InTransit(t, d, net[t][d][i])
    BY DEF LifeInv, TransitInv
  <2>5. net[t][d][i].op \in {"START", "STARTED"} =>
           \E q : StartPending(q) /\ q.xid = net[t][d][i].xid
    BY <2>4 DEF InTransit, StartPending
  <2>6. \A q : StartPending(q) => q.xid # seqsrc[0] + NRanks
    BY <1>4, SMT
  <2> QED
    BY <2>2, <2>3, <2>5, <2>6
<1>6. ASSUME NEW r \in Ranks, NEW l \in Slots
      PROVE  HandleOf(r, l).seq # seqsrc[0]
  <2>1. ltab[r][l].seq \in Nat /\ ltab[r][l].seq < seqsrc[0]
    BY DEF TypeOK, LtabEntry, HandleInv, SeqsOld
  <2> QED
    BY <2>1, SMT DEF HandleOf
<1> QED
  BY <1>1, <1>2, <1>3, <1>4, <1>5, <1>6

\* The message that asks rank d to start h, on its way behind a taken CREATE.
StartSent(s, h, d, m) ==
    /\ net[s][0] # <<>> /\ Head(net[s][0]).op = "CREATE"
    /\ m.op = "START" /\ m.thread = h /\ m.xid = seqsrc[0] + NRanks
    /\ NetMove(s, 0, 1, 0, d, m)

\* The new START request is alone.
LEMMA BornStarts ==
    ASSUME TypeOK, HandleInv, LifeInv, seqsrc[0] \in Nat, NEW g \in Slots, NEW h, NEW p,
           NEW d \in Ranks, Born(g, h, p, d)
    PROVE  StartInv' /\ SameSlots(g) /\ StartsKept(-1)
<1>1. SameSlots(g)
  BY DEF Born, SameEntries, SameSlots
<1>2. StartsKept(-1)
  BY DEF Born, StartsKept
<1>3. \A q : StartPending(q) => q.xid \in Nat /\ q.xid < seqsrc[0] + NRanks
  BY BornFresh
<1> SUFFICES ASSUME NEW q, StartPending(q)'
             PROVE  /\ q.xid = q.thread.seq + NRanks /\ Unended(q.thread)'
                    /\ \A x : StartPending(x)' /\ x.xid = q.xid => x = q
  BY <1>1, <1>2 DEF StartInv, StartPending
<1>4. CASE q = p
  <2>1. q.xid = q.thread.seq + NRanks
    BY <1>4 DEF Born
  <2>2. Unended(q.thread)'
    BY <1>4 DEF Born, Unended, dthread_dt2gtab
  <2>3. seqsrc[0] + NRanks \in Nat
    BY NRanksAssumption, SMT
  <2>4. ASSUME NEW x, StartPending(x)', x.xid = q.xid
        PROVE  x = q
    <3>1. StartPending(x) => x.xid < seqsrc[0] + NRanks /\ x.xid \in Nat
      BY <1>3, SMT
    <3>2. x.xid = seqsrc[0] + NRanks
      BY <1>4, <2>4 DEF Born
    <3> QED
      BY <1>4, <2>3, <2>4, <3>1, <3>2, SMT DEF Born
  <2> QED
    BY <2>1, <2>2, <2>4
<1>5. CASE StartPending(q)
  <2>1. /\ q.xid = q.thread.seq + NRanks /\ dthread_dt2gtab(q.thread)
        /\ gtab[q.thread.idx].terminated = "NONE"
        /\ \A x : StartPending(x) /\ x.xid = q.xid => x = q
    BY <1>5, StartFacts DEF LifeInv
  <2>2. q.thread.idx # g
    BY <2>1 DEF Born, dthread_dt2gtab
  <2>3. Unended(q.thread)'
    BY <1>1, <2>1, <2>2 DEF SameSlots, Unended, dthread_dt2gtab
  <2>4. q.xid \in Nat /\ q.xid < seqsrc[0] + NRanks
    BY <1>3, <1>5
  <2>5. q.xid # p.xid
    BY <2>4, NRanksAssumption, SMT DEF Born
  <2> QED
    BY <2>1, <2>3, <2>5 DEF Born
<1> QED
  BY <1>4, <1>5 DEF Born

\* START is the only message about the new thread.
LEMMA BornTraffic ==
    ASSUME TypeOK, TypeOK', HandleInv, LifeInv, seqsrc[0] \in Nat, NEW s \in Ranks,
           NEW g \in Slots, NEW h, NEW p, NEW d \in Ranks, Born(g, h, p, d),
           NEW m, StartSent(s, h, d, m), UNCHANGED <<ltab, app, known, mgrstate>>
    PROVE  Traffic'
<1> net \in Net /\ net' \in Net
  BY DEF TypeOK, Net
<1> 0 \in Ranks /\ NRanks \in Nat
  BY ZeroInRange, NRanksAssumption
<1>1. StartInv' /\ SameSlots(g) /\ StartsKept(-1)
  BY BornStarts
<1>2. /\ SlotClear(s, g, -1)
      /\ \A q : StartPending(q) => q.thread.idx # g
      /\ \A r \in Ranks, l \in Slots : Lives(r, l) => ltab[r][l].gtab_idx # g
  BY IdleSlotClear DEF Born
<1>3. SameHooks(g)
  BY DEF SameHooks, Born, SameEntries, Lives
<1>4. NetMove(s, 0, 1, 0, d, m)
  BY DEF StartSent
<1>5. TransitInv'
  <2>1. Clear(s, 0, 1, g, g, -1)
    BY <1>2 DEF Clear, SlotClear
  <2>2. \A t, e \in Ranks : \A n : Remains(s, 0, 1, t, e, n) => InTransit(t, e, n)'
    BY <1>1, <1>3, <2>1, TransitKept DEF LifeInv
  <2>3. Unhooked(h)'
    BY <1>2 DEF Born, Unhooked, Unended, dthread_dt2gtab, Lives
  <2>4. h \notin known
    BY BornFresh DEF Born
  <2>5. p \in rpending'[0] /\ p.op = "START" /\ p.xid = m.xid /\ p.thread = m.thread
    BY DEF Born, StartPending, StartSent
  <2>6. InTransit(0, d, m)'
    BY <2>3, <2>4, <2>5 DEF InTransit, StartSent, Born
  <2> QED
    BY <1>4, <2>2, <2>6, TransitMove
<1>6. OnePlace'
  <2>1. ASSUME NEW t \in Ranks, NEW e \in Ranks, NEW n, Remains(s, 0, 1, t, e, n)
        PROVE  ~Exclusive(m, n) /\ ~Exclusive(n, m)
    <3>1. PICK i \in 1 .. Len(net[t][e]) : n = net[t][e][i]
      BY <2>1 DEF Remains
    <3>2. /\ n.thread.seq \in Nat /\ n.thread.seq < seqsrc[0]
          /\ n.op \in {"START", "STARTED"} => n.xid # seqsrc[0] + NRanks
      BY <3>1, BornFresh
    <3>3. n.thread # h /\ n.thread.seq + NRanks # seqsrc[0] + NRanks
      BY <3>2, SMT DEF Born
    <3> QED
      BY <3>2, <3>3 DEF Exclusive, StartSent
  <2> QED
    BY <1>4, <2>1, OnePlaceMove DEF LifeInv
<1>7. StartedFirst'
  <2> SUFFICES ASSUME NEW q, StartPending(q)'
               PROVE  StartedFor(q)'
    BY DEF StartedFirst, StartPending, StartedFor
  <2>1. StartedFor(q)
    <3>1. CASE StartPending(q)
      BY <3>1 DEF LifeInv, StartedFirst, StartPending, StartedFor
    <3>2. CASE q = p
      <4>1. \A t, e \in Ranks : \A i \in 1 .. Len(net[t][e]) : net[t][e][i].thread # q.thread
        BY <3>2, BornFresh, SMTT(20) DEF Born
      <4>2. \A r \in Ranks, l \in Slots : HandleOf(r, l) # q.thread
        BY <3>2, BornFresh, ZenonT(60) DEF Born
      <4> QED
        BY <4>1, <4>2 DEF StartedFor
    <3> QED
      BY <3>1, <3>2 DEF Born
  <2>2. ~(m.op = "TERMINATED") /\ net[s][0][1].op # "STARTED"
    BY HeadFacts DEF StartSent
  <2>3. \A r \in Ranks, l \in Slots :
            Lives(r, l)' /\ HandleOf(r, l)' = q.thread /\ ~draining(r)' =>
                Lives(r, l) /\ HandleOf(r, l) = q.thread /\ ~draining(r)
    BY DEF Lives, HandleOf, draining
  <2> QED
    BY <1>4, <2>1, <2>2, <2>3, StartedForMove
<1> QED
  BY <1>1, <1>5, <1>6, <1>7 DEF Traffic

\* A thread is born.
LEMMA BornLife ==
    ASSUME TypeOK, TypeOK', HandleInv, LifeInv, AppKnown', seqsrc[0] \in Nat,
           NEW s \in Ranks, NEW g \in Slots, NEW h, NEW p, NEW d \in Ranks,
           Born(g, h, p, d), NEW m, StartSent(s, h, d, m),
           UNCHANGED <<ltab, app, known, mgrstate>>
    PROVE  LifeInv'
<1>a. net \in Net /\ net' \in Net
  BY DEF TypeOK, Net
<1>1. Traffic'
  BY BornTraffic
<1>2. SameSlots(g) /\ SameDetached(g)
  BY DEF Born, SameEntries, SameSlots, SameDetached
<1>3. SlotInv'
  <2>1. /\ seqsrc[0] # 0
        /\ \A k \in Slots : gtab[k].seq \in Nat /\ gtab[k].seq < seqsrc[0]
    BY BornFresh
  <2> SUFFICES ASSUME NEW f \in Slots
               PROVE  /\ gtab'[f].allocated <=> gtab'[f].seq # 0
                      /\ gtab'[f].allocated => gtab'[f].terminated \in FinalStates \cup {"NONE"}
                      /\ \A k \in Slots : gtab'[f].allocated /\ gtab'[k].seq = gtab'[f].seq
                                             => k = f
    BY DEF SlotInv
  <2>2. CASE f = g
    BY <2>1, <2>2, SMT DEF Born, SameEntries
  <2>3. CASE f # g
    BY <2>1, <2>3, SMT DEF Born, SameEntries, LifeInv, SlotInv
  <2> QED
    BY <2>2, <2>3
<1>4. LiveInv'
  <2>1. SameLives
    BY DEF SameLives, Lives
  <2>2. \A r \in Ranks, l \in Slots : Lives(r, l) => ltab[r][l].gtab_idx # g
    BY IdleSlotClear DEF Born
  <2>3. ASSUME NEW r \in Ranks, NEW l \in Slots, Lives(r, l)'
        PROVE  ltab[r][l].gtab_idx # g /\ LiveState(r, l)'
    <3>1. LiveState(r, l) /\ ltab[r][l].gtab_idx \in Slots /\ ltab[r][l].gtab_idx # g
      BY <2>1, <2>2, <2>3, LiveFacts, ZenonT(60) DEF LifeInv, SameLives
    <3> QED
      BY <3>1 DEF LiveState, Born, SameEntries
  <2> QED
    BY <1>2, <2>1, <2>3, LiveMove DEF LifeInv
<1>5. LtabCounted'
  BY DEF LifeInv, LtabCounted, InUse
<1>6. KnownInv'
  <2>1. \A f \in Slots : gtab'[f].allocated /\ gtab'[f].detached =>
            gtab[f].allocated /\ gtab[f].detached /\ gtab'[f].seq = gtab[f].seq
    BY DEF Born, SameEntries
  <2>2. m.op \in {"DETACH", "CANCEL", "JOIN"} => m.thread \in known \cup {NoThread}
    BY DEF StartSent
  <2>3. known \subseteq known' /\ \A q : JoinWaiting(q)' => JoinWaiting(q)
    BY DEF Born
  <2>4. NetMove(s, 0, 1, 0, d, m)
    BY DEF StartSent
  <2> QED
    BY <1>a, <2>1, <2>2, <2>3, <2>4, KnownMove DEF LifeInv
<1>7. JoinWaitHasFuture'
  <2>1. \A q : JoinWaiting(q) => dthread_dt2gtab(q.thread)
    BY DEF LifeInv, JoinWaitHasFuture, JoinWaiting
  <2>2. \A q : JoinWaiting(q)' => JoinWaiting(q) /\ q.thread.idx # g
    BY <2>1 DEF Born, dthread_dt2gtab
  <2> QED
    BY <1>2, <2>2, JoinWaitMove DEF LifeInv
<1> QED
  BY <1>1, <1>3, <1>4, <1>5, <1>6, <1>7 DEF LifeInv, Traffic

\* create_thread.
LEMMA CreateLife ==
    ASSUME TypeOK, TypeOK', HandleInv, LifeInv, AppKnown', NEW s \in Ranks,
           create_thread(s)
    PROVE  LifeInv'
<1> net \in Net /\ 0 \in Ranks /\ gtab \in Gtab
  BY ZeroInRange DEF TypeOK, Net, Gtab
<1> seqsrc[0] \in Nat /\ mgr0.next_rank \in Ranks
  BY DEF TypeOK, Mgr0
<1>1. /\ net[s][0] # <<>> /\ Head(net[s][0]).op = "CREATE"
      /\ UNCHANGED <<ltab, app, known, mgrstate>>
  BY DEF create_thread, HasMessage
<1>2. PICK g \in Slots : ScanFinds(FreeSlots, mgr0.last_slot, g) /\ create_thread_at(s, g)
  BY DEF create_thread
<1>3. ~gtab[g].allocated /\ gtab[g] \in GtabEntry
  BY <1>2 DEF ScanFinds, FreeSlots, Gtab
<1>4. PICK e : /\ e = gtab_alloc(gtab[g], mgr0.next_rank, seqsrc[0])
               /\ FreshEntry(e, mgr0.next_rank, seqsrc[0])
  BY <1>3, BornEntry
<1>5. /\ e \in GtabEntry /\ e.allocated /\ e.seq = seqsrc[0] /\ e.rank = mgr0.next_rank
      /\ e.terminated = "NONE" /\ ~e.has_ltab /\ ~e.detached
  BY <1>4 DEF FreshEntry
<1>6. CASE draining(0)
  <2>1. /\ gtab' = [gtab EXCEPT ![g] = gtab_free(e)]
        /\ net' = dtq_send_enqueue(Received(s, 0), 0, s,
                      Answer("CREATED", Head(net[s][0]).xid, "EIO", NoData))
        /\ UNCHANGED rpending
    BY <1>2, <1>4, <1>6, ZenonT(30) DEF create_thread_at, CreateFailed, Answer
  <2> QED
    BY <1>1, <1>3, <1>5, <2>1, CreateDrainsLife
<1>7. CASE ~draining(0)
  <2> DEFINE x == seqsrc[0] + NRanks
  <2>h. PICK h : h = [idx |-> g, seq |-> seqsrc[0]]
    OBVIOUS
  <2>p. PICK p : p = pending("START", x, Head(net[s][0]).xid, NMaxThread, h, s)
    OBVIOUS
  <2>m. PICK m : m = message("START", x, h, "OK", NoData)
    OBVIOUS
  <2>1. /\ gtab' = [gtab EXCEPT ![g] = e]
        /\ net' = dtq_send_enqueue(Received(s, 0), 0, mgr0.next_rank, m)
        /\ rpending' = [rpending EXCEPT ![0] = @ \cup {p}]
    BY <1>2, <1>4, <1>7, <2>h, <2>p, <2>m, ZenonT(60) DEF create_thread_at
  <2>2. h \in Handle /\ h.idx = g /\ h.seq = seqsrc[0]
    BY <2>h, SMT DEF Handle, Slots
  <2>3. p.op = "START" /\ p.thread = h /\ p.xid = x
    BY <2>p DEF pending
  <2>4. m \in Msg /\ m.op = "START" /\ m.thread = h /\ m.xid = x
    <3>1. x \in Nat
      BY NRanksAssumption, SMT
    <3>2. m \in Msg
      BY <2>2, <2>m, <3>1, MessageType, RetType DEF MsgOps, Errors
    <3> QED
      BY <2>m, <3>2 DEF message
  <2>5. gtab'[g] = e /\ SameEntries(g)
    BY <2>1 DEF Gtab, SameEntries
  <2>6. rpending'[0] = rpending[0] \cup {p}
    BY <2>1, ZenonT(60) DEF TypeOK
  <2>7. /\ \A q : StartPending(q)' <=> StartPending(q) \/ q = p
        /\ \A q : JoinWaiting(q)' <=> JoinWaiting(q)
    BY <2>3, <2>6 DEF StartPending, JoinWaiting
  <2>8. Born(g, h, p, mgr0.next_rank)
    BY <1>3, <1>5, <2>2, <2>3, <2>5, <2>7 DEF Born
  <2>9. NetMove(s, 0, 1, 0, mgr0.next_rank, m)
    BY <1>1, <2>1, <2>4, AnswerMove
  <2>10. StartSent(s, h, mgr0.next_rank, m)
    BY <1>1, <2>4, <2>9 DEF StartSent
  <2> QED
    BY <1>1, <2>8, <2>10, BornLife
<1> QED
  BY <1>6, <1>7

-----------------------------------------------------------------------------
(* A thread gets its pthread *)

\* The next message from s to r asks to start h.
StartAt(s, r, h, x) ==
    /\ net[s][r] # <<>> /\ Head(net[s][r]).op = "START"
    /\ Head(net[s][r]).thread = h /\ Head(net[s][r]).xid = x

\* The thread that START is about.
LEMMA StartHead ==
    ASSUME TypeOK, LifeInv, NEW s \in Ranks, NEW r \in Ranks, NEW h, NEW x,
           StartAt(s, r, h, x)
    PROVE  /\ s = 0 /\ h \in Handle /\ Unhooked(h) /\ gtab[h.idx].rank = r
           /\ dthread_dt2gtab(h) /\ h \notin known /\ x = h.seq + NRanks
           /\ \E p : StartPending(p) /\ p.xid = x /\ p.thread = h
           /\ \A p : StartPending(p) /\ p.thread.idx = h.idx => p.xid = x
<1>0. net \in Net
  BY DEF TypeOK, Net
<1>1. /\ 1 \in 1 .. Len(net[s][r]) /\ Head(net[s][r]) = net[s][r][1]
      /\ Head(net[s][r]) \in Msg
  BY <1>0, HeadFacts DEF StartAt
<1>2. InTransit(s, r, Head(net[s][r]))
  BY <1>1 DEF LifeInv, TransitInv
<1>3. /\ s = 0 /\ Unhooked(h) /\ gtab[h.idx].rank = r /\ h \notin known
      /\ \E p : StartPending(p) /\ p.xid = x /\ p.thread = h
  BY <1>2 DEF InTransit, StartAt, StartPending
<1> h \in Handle
  BY <1>1 DEF StartAt, Msg
<1>5. dthread_dt2gtab(h)
  BY <1>3 DEF Unhooked, Unended
<1>6. \A p : StartPending(p) => /\ p.thread \in Handle /\ dthread_dt2gtab(p.thread)
                                /\ p.xid = p.thread.seq + NRanks
  BY StartFacts DEF LifeInv
<1>7. x = h.seq + NRanks
  BY <1>3, <1>6
<1>8. \A p : StartPending(p) /\ p.thread.idx = h.idx => p.xid = x
  BY <1>5, <1>6, <1>7, OneGeneration
<1> QED
  BY <1>3, <1>5, <1>7, <1>8

\* No message that remains is about it.
LEMMA StartAlone ==
    ASSUME TypeOK, LifeInv, NEW s \in Ranks, NEW r \in Ranks, NEW h, NEW x,
           StartAt(s, r, h, x), NEW t \in Ranks, NEW d \in Ranks, NEW n,
           Remains(s, r, 1, t, d, n)
    PROVE  /\ n.op \in {"START", "STARTED"} => n.xid # x
           /\ n.op \in {"START", "TERMINATED"} => n.thread.idx # h.idx
           /\ n.op = "TERMINATED" => n.thread.seq + NRanks # x
           /\ n.op = "CREATED" /\ n.errstatus = "OK" => n.thread.seq + NRanks # x
<1> net \in Net /\ NRanks \in Nat
  BY NRanksAssumption DEF TypeOK, Net
<1>1. /\ h \in Handle /\ dthread_dt2gtab(h) /\ x = h.seq + NRanks
      /\ \A p : StartPending(p) /\ p.thread.idx = h.idx => p.xid = x
  BY StartHead, SMT
<1>2. InTransit(t, d, n) /\ n \in Msg
  BY RemainsInTransit, RemainsTyped DEF LifeInv
<1>3. ~Exclusive(n, Head(net[s][r])) /\ ~Exclusive(Head(net[s][r]), n)
  BY RemainsAlone DEF LifeInv, StartAt
<1>4. /\ n.op \in {"START", "STARTED"} => n.xid # x
      /\ n.op = "CREATED" /\ n.errstatus = "OK" => n.thread.seq + NRanks # x
      /\ n.op = "TERMINATED" => n.thread # h
  BY <1>3 DEF Exclusive, StartAt
<1>5. n.op = "START" => n.thread.idx # h.idx
  BY <1>1, <1>2, <1>4 DEF InTransit, StartPending
<1>6. ASSUME n.op = "TERMINATED"
      PROVE  n.thread.idx # h.idx /\ n.thread.seq + NRanks # x
  <2>1. n.thread \in Handle /\ dthread_dt2gtab(n.thread)
    BY <1>2, <1>6 DEF InTransit, Unhooked, Unended, Msg
  <2>2. n.thread.idx # h.idx
    BY <1>1, <1>4, <1>6, <2>1, OneGeneration
  <2>3. n.thread.seq # h.seq
    BY <1>1, <2>1, <2>2 DEF LifeInv, SlotInv, dthread_dt2gtab
  <2> QED
    BY <1>1, <2>1, <2>2, <2>3, SMT DEF Handle
<1> QED
  BY <1>4, <1>5, <1>6

\* A pthread of q's thread was there before, or STARTED for it is under way.
Accounted(q) ==
    \A r \in Ranks, l \in Slots :
        Lives(r, l)' /\ HandleOf(r, l)' = q.thread /\ ~draining(r)' =>
            \/ Lives(r, l) /\ HandleOf(r, l) = q.thread /\ ~draining(r)
            \/ \E i \in 1 .. Len(net'[r][0]) :
                  net'[r][0][i].op = "STARTED" /\ net'[r][0][i].xid = q.xid

\* START becomes STARTED.
LEMMA StartTraffic ==
    ASSUME TypeOK, TypeOK', LifeInv, NEW s \in Ranks, NEW r \in Ranks, NEW h, NEW x,
           StartAt(s, r, h, x), NEW m, NetMove(s, r, 1, r, 0, m), m.op = "STARTED",
           m.xid = x, m.errstatus # "OK" => Unhooked(h)',
           SameSlots(NMaxThread), SameHooks(h.idx), UNCHANGED <<rpending, known>>,
           \A q : StartPending(q) => Accounted(q)
    PROVE  Traffic'
<1> net \in Net /\ net' \in Net
  BY DEF TypeOK, Net
<1> 0 \in Ranks /\ NMaxThread \notin Slots
  BY ZeroInRange, NMaxThreadAssumption, SMT DEF Slots
<1>1. /\ h \in Handle /\ h \notin known /\ x = h.seq + NRanks
      /\ \A p : StartPending(p) /\ p.thread.idx = h.idx => p.xid = x
  BY StartHead, SMT
<1>p. PICK p : StartPending(p) /\ p.xid = x /\ p.thread = h
  BY StartHead, SMT
<1>2. \A t, d \in Ranks : \A n : Remains(s, r, 1, t, d, n) =>
          /\ n.op \in {"START", "STARTED"} => n.xid # x
          /\ n.op \in {"START", "TERMINATED"} => n.thread.idx # h.idx
          /\ n.op = "TERMINATED" => n.thread.seq + NRanks # x
          /\ n.op = "CREATED" /\ n.errstatus = "OK" => n.thread.seq + NRanks # x
  BY StartAlone, SMT
<1>3. \A q : StartPending(q)' <=> StartPending(q)
  BY DEF StartPending
<1>4. \A q : StartPending(q) => q.thread.idx # NMaxThread
  BY StartFacts DEF LifeInv, dthread_dt2gtab
<1>5. StartInv'
  BY <1>3, <1>4, StartsMove DEF LifeInv
<1>6. TransitInv'
  <2>1. StartsKept(-1)
    BY <1>3 DEF StartsKept
  <2>2. Clear(s, r, 1, NMaxThread, h.idx, -1)
    <3> SUFFICES ASSUME NEW t \in Ranks, NEW d \in Ranks, NEW n, Remains(s, r, 1, t, d, n)
                 PROVE  /\ n.op \in {"START", "TERMINATED"} => n.thread.idx # NMaxThread
                        /\ n.xid # -1
      BY <1>1, <1>2, <1>4, SMT DEF Clear, Waiting
    <3>1. InTransit(t, d, n) /\ n \in Msg
      BY RemainsInTransit, RemainsTyped DEF LifeInv
    <3>2. n.xid # -1
      BY <3>1, SMT DEF Msg
    <3> QED
      BY <3>1, <3>2 DEF InTransit, Unhooked, Unended, dthread_dt2gtab
  <2>3. \A t, d \in Ranks : \A n : Remains(s, r, 1, t, d, n) => InTransit(t, d, n)'
    BY <2>1, <2>2, TransitKept DEF LifeInv
  <2>4. InTransit(r, 0, m)'
    BY <1>1, <1>p DEF InTransit, StartPending
  <2> QED
    BY <2>3, <2>4, TransitMove
<1>7. OnePlace'
  <2>1. \A t, d \in Ranks : \A n : Remains(s, r, 1, t, d, n)
            => ~Exclusive(m, n) /\ ~Exclusive(n, m)
    BY <1>2, ZenonT(60) DEF Exclusive
  <2> QED
    BY <2>1, OnePlaceMove DEF LifeInv
<1>8. StartedFirst'
  <2> SUFFICES ASSUME NEW q, StartPending(q)
               PROVE  StartedFor(q)'
    BY <1>3 DEF StartedFirst, StartPending, StartedFor
  <2>1. StartedFor(q)
    BY DEF LifeInv, StartedFirst, StartPending, StartedFor
  <2>2. ~(m.op = "TERMINATED") /\ net[s][r][1].op # "STARTED"
    BY HeadFacts DEF StartAt
  <2>3. Accounted(q)
    OBVIOUS
  <2> QED
    BY <2>1, <2>2, <2>3, StartedForMove DEF Accounted
<1> QED
  BY <1>5, <1>6, <1>7, <1>8 DEF Traffic

\* No ltab entry and no pthread changes but those of slot l of rank r.
OthersKept(r, l) ==
    \A q \in Ranks, k \in Slots :
        ~(q = r /\ k = l) => ltab'[q][k] = ltab[q][k] /\ app'[q][k].pc = app[q][k].pc

\* Managers drain as they did.
SameDrains == \A r \in Ranks : draining(r)' <=> draining(r)

\* The pthread of h begins in a free ltab entry.
Begins(r, l, h) ==
    /\ ~Lives(r, l) /\ OthersKept(r, l) /\ app'[r][l].pc = "wrap"
    /\ ltab'[r][l].gtab_idx = h.idx /\ ltab'[r][l].seq = h.seq
    /\ ltab'[r][l].pth_state = "STARTING"

\* It owns its entries.
LEMMA BeginsLive ==
    ASSUME TypeOK, LifeInv, NEW r \in Ranks, NEW l \in Slots, NEW h \in Handle, Unhooked(h),
           gtab[h.idx].rank = r, Begins(r, l, h), UNCHANGED gtab
    PROVE  LiveInv'
<1>0. h.idx \in Slots /\ Unended(h) /\ ~gtab[h.idx].has_ltab
  BY DEF Unhooked, Unended, dthread_dt2gtab
<1>1. \A q \in Ranks, k \in Slots : Lives(q, k)' =>
          \/ q = r /\ k = l
          \/ /\ Lives(q, k) /\ ltab'[q][k] = ltab[q][k] /\ app'[q][k].pc = app[q][k].pc
             /\ ltab[q][k].gtab_idx # h.idx
  BY SMT DEF Lives, Begins, OthersKept, Unhooked
<1> SUFFICES ASSUME NEW q \in Ranks, NEW k \in Slots, Lives(q, k)'
             PROVE  /\ Unended(HandleOf(q, k))' /\ gtab'[ltab'[q][k].gtab_idx].rank = q
                    /\ \A j \in Slots :
                          Lives(q, j)' /\ ltab'[q][j].gtab_idx = ltab'[q][k].gtab_idx
                              => j = k
                    /\ LiveState(q, k)'
  BY ZenonT(60) DEF LiveInv, LiveState
<1>2. CASE q = r /\ k = l
  <2>1. Unended(HandleOf(q, k))'
    BY <1>0, <1>2 DEF Unended, dthread_dt2gtab, HandleOf, Begins
  <2>2. LiveState(q, k)'
    BY <1>0, <1>2 DEF LiveState, Begins, Running
  <2>3. \A j \in Slots : Lives(q, j)' /\ ltab'[q][j].gtab_idx = ltab'[q][k].gtab_idx
                            => j = k
    BY <1>1, <1>2, SMT DEF Begins
  <2> QED
    BY <1>2, <2>1, <2>2, <2>3 DEF Begins
<1>3. CASE ~(q = r /\ k = l)
  <2>1. /\ Lives(q, k) /\ ltab'[q][k] = ltab[q][k] /\ app'[q][k].pc = app[q][k].pc
        /\ ltab[q][k].gtab_idx # h.idx
    BY <1>1, <1>3
  <2>2. /\ Unended(HandleOf(q, k)) /\ gtab[ltab[q][k].gtab_idx].rank = q
        /\ LiveState(q, k)
        /\ \A j \in Slots : Lives(q, j) /\ ltab[q][j].gtab_idx = ltab[q][k].gtab_idx
                               => j = k
    BY <2>1 DEF LifeInv, LiveInv, LiveState
  <2>3. Unended(HandleOf(q, k))'
    BY <2>1, <2>2 DEF Unended, dthread_dt2gtab, HandleOf
  <2>4. LiveState(q, k)'
    BY <2>1, <2>2 DEF LiveState
  <2>5. ASSUME NEW j \in Slots, Lives(q, j)', ltab'[q][j].gtab_idx = ltab'[q][k].gtab_idx
        PROVE  j = k
    BY <1>1, <2>1, <2>2, <2>5, SMTT(20) DEF Begins
  <2> QED
    BY <2>1, <2>2, <2>3, <2>4, <2>5
<1> QED
  BY <1>2, <1>3

\* What manager 0 knows stays as it is.
LEMMA StartFrame ==
    ASSUME TypeOK, TypeOK', LifeInv, AppKnown', UNCHANGED <<gtab, rpending, known>>,
           NEW s, NEW r, NEW m, NetMove(s, r, 1, r, 0, m), m.op = "STARTED"
    PROVE  SlotInv' /\ KnownInv' /\ JoinWaitHasFuture'
<1>a. net \in Net /\ net' \in Net
  BY DEF TypeOK, Net
<1>1. SlotInv'
  BY DEF LifeInv, SlotInv
<1>2. \A p : JoinWaiting(p)' <=> JoinWaiting(p)
  BY DEF JoinWaiting
<1>3. KnownInv'
  <2>1. \A g \in Slots : gtab'[g].allocated /\ gtab'[g].detached =>
            gtab[g].allocated /\ gtab[g].detached /\ gtab'[g].seq = gtab[g].seq
    OBVIOUS
  <2>2. m.op \in {"DETACH", "CANCEL", "JOIN"} => m.thread \in known \cup {NoThread}
    OBVIOUS
  <2>3. known \subseteq known' /\ \A q : JoinWaiting(q)' => JoinWaiting(q)
    BY <1>2
  <2> QED
    BY <1>a, <2>1, <2>2, <2>3, KnownMove DEF LifeInv
<1>4. JoinWaitHasFuture'
  BY DEF LifeInv, JoinWaitHasFuture, dthread_dt2gtab, joinwait_search
<1> QED
  BY <1>1, <1>3, <1>4, SMT

\* The last message of a rank that does not drain.
LEMMA LastSent ==
    ASSUME net \in Net, NEW s \in Ranks, NEW r \in Ranks, net[s][r] # <<>>, ~draining(r),
           NEW m, net' = dtq_send_enqueue(Received(s, r), r, 0, m), net' \in Net
    PROVE  \E i \in 1 .. Len(net'[r][0]) : net'[r][0][i] = m
<1> 0 \in Ranks
  BY ZeroInRange
<1>1. PICK n : n = Received(s, r)
  OBVIOUS
<1> n \in Net
  BY <1>1, ReceivedType
<1>3. PICK v : v = Append(n[r][0], m)
  OBVIOUS
<1>4. net'[r][0] = v
  <2>1. net' = [n EXCEPT ![r][0] = v]
    BY <1>1, <1>3 DEF dtq_send_enqueue
  <2>2. n[r] \in [Ranks -> Seq(Msg)] /\ n \in [Ranks -> [Ranks -> Seq(Msg)]]
    BY DEF Net
  <2> QED
    BY <2>1, <2>2
<1>5. n[r][0] \in Seq(Msg)
  BY DEF Net
<1>6. Len(n[r][0]) \in Nat /\ Len(net'[r][0]) = Len(n[r][0]) + 1
      /\ net'[r][0][Len(n[r][0]) + 1] = m
  BY <1>3, <1>4, <1>5, SMTT(20)
<1> QED
  BY <1>6, SMT

\* start_thread creates the pthread.
LEMMA BeginsLife ==
    ASSUME TypeOK, TypeOK', LifeInv, AppKnown', LtabCounted', NEW s \in Ranks,
           NEW r \in Ranks, NEW h, NEW x, StartAt(s, r, h, x), NEW l \in Slots,
           Begins(r, l, h), NEW m \in Msg, m.op = "STARTED", m.xid = x, m.errstatus = "OK",
           net' = dtq_send_enqueue(Received(s, r), r, 0, m), SameDrains,
           UNCHANGED <<gtab, rpending, known>>
    PROVE  LifeInv'
<1> net \in Net /\ net' \in Net
  BY DEF TypeOK, Net
<1>b. 0 \in Ranks /\ net[s][r] # <<>>
  BY ZeroInRange DEF StartAt
<1>1. /\ h \in Handle /\ Unhooked(h) /\ gtab[h.idx].rank = r
      /\ \A p : StartPending(p) /\ p.thread.idx = h.idx => p.xid = x
  BY StartHead, SMT
<1>2. NetMove(s, r, 1, r, 0, m)
  BY <1>b, AnswerMove
<1>3. SlotInv' /\ KnownInv' /\ JoinWaitHasFuture'
  BY <1>2, StartFrame
<1>4. LiveInv'
  BY <1>1, BeginsLive
<1>5. \A q \in Ranks, k \in Slots : Lives(q, k)' =>
          \/ q = r /\ k = l
          \/ Lives(q, k) /\ ltab'[q][k] = ltab[q][k]
  BY DEF Lives, Begins, OthersKept
<1>6. SameSlots(NMaxThread) /\ SameHooks(h.idx)
  BY <1>5 DEF SameSlots, SameHooks, Begins
<1>7. ASSUME NEW q, StartPending(q)
      PROVE  Accounted(q)
  <2> SUFFICES ASSUME NEW t \in Ranks, NEW k \in Slots, Lives(t, k)',
                      HandleOf(t, k)' = q.thread, ~draining(t)'
               PROVE  \/ Lives(t, k) /\ HandleOf(t, k) = q.thread /\ ~draining(t)
                      \/ \E i \in 1 .. Len(net'[t][0]) :
                            net'[t][0][i].op = "STARTED" /\ net'[t][0][i].xid = q.xid
    BY DEF Accounted
  <2>1. ~draining(t)
    BY DEF SameDrains
  <2>2. CASE t = r /\ k = l
    <3>1. q.thread.idx = h.idx
      BY <2>2, SMT DEF HandleOf, Begins
    <3>2. q.xid = x
      BY <1>1, <1>7, <3>1
    <3>3. \E i \in 1 .. Len(net'[r][0]) : net'[r][0][i] = m
      BY <1>b, <2>1, <2>2, LastSent, SMTT(20)
    <3> QED
      BY <2>2, <3>2, <3>3
  <2>3. CASE Lives(t, k) /\ ltab'[t][k] = ltab[t][k]
    BY <2>1, <2>3 DEF HandleOf
  <2> QED
    BY <1>5, <2>2, <2>3
<1>8. Traffic'
  BY <1>2, <1>6, <1>7, StartTraffic
<1> QED
  BY <1>3, <1>4, <1>8 DEF LifeInv, Traffic

\* Filling an ltab entry leaves the phase of the manager alone.
LEMMA FillDrains ==
    ASSUME TypeOK, NEW r \in Ranks, NEW l, NEW v,
           \/ mgrstate' = [mgrstate EXCEPT ![r].ltab_alloc = v, ![r].ltab_lastslot = l]
           \/ mgrstate' = [mgrstate EXCEPT ![r].ltab_lastslot = l]
           \/ mgrstate' = [mgrstate EXCEPT ![r].ltab_alloc = v]
    PROVE  SameDrains
<1>1. mgrstate \in [Ranks -> MgrEntry]
  BY DEF TypeOK
<1>2. PICK e : /\ mgrstate' = [mgrstate EXCEPT ![r] = e]
               /\ \/ e = [mgrstate[r] EXCEPT !.ltab_alloc = v, !.ltab_lastslot = l]
                  \/ e = [mgrstate[r] EXCEPT !.ltab_lastslot = l]
                  \/ e = [mgrstate[r] EXCEPT !.ltab_alloc = v]
  BY <1>1
<1>3. e.phase = mgrstate[r].phase
  BY <1>1, <1>2 DEF MgrEntry
<1>4. \A q \in Ranks : mgrstate'[q].phase = mgrstate[q].phase
  BY <1>1, <1>2, <1>3, SMT
<1> QED
  BY <1>4 DEF SameDrains, draining

\* start_thread when pthread_create() fails.
LEMMA BeginFailsLife ==
    ASSUME TypeOK, TypeOK', LifeInv, AppKnown', LtabCounted', NEW s \in Ranks,
           NEW r \in Ranks, NEW h, NEW x, StartAt(s, r, h, x), NEW l \in Slots,
           ~Lives(r, l), OthersKept(r, l), app' = app,
           NEW m \in Msg, m.op = "STARTED", m.xid = x, m.errstatus # "OK",
           net' = dtq_send_enqueue(Received(s, r), r, 0, m), SameDrains,
           UNCHANGED <<gtab, rpending, known>>
    PROVE  LifeInv'
<1>a. net \in Net /\ net' \in Net
  BY DEF TypeOK, Net
<1>b. 0 \in Ranks /\ net[s][r] # <<>> /\ NMaxThread \notin Slots
  BY ZeroInRange, NMaxThreadAssumption, SMT DEF StartAt, Slots
<1>1. h \in Handle /\ Unhooked(h)
  BY StartHead, ZenonT(60)
<1>2. NetMove(s, r, 1, r, 0, m)
  BY <1>a, <1>b, AnswerMove
<1>3. SlotInv' /\ KnownInv' /\ JoinWaitHasFuture'
  BY <1>2, StartFrame
<1>4. \A q \in Ranks, k \in Slots : Lives(q, k)' => Lives(q, k) /\ ltab'[q][k] = ltab[q][k]
  BY DEF Lives, OthersKept
<1>5. SameLives /\ SameSlots(NMaxThread) /\ SameHooks(h.idx)
  BY <1>4 DEF SameLives, SameSlots, SameHooks
<1>6. LiveInv'
  <2>1. ASSUME NEW q \in Ranks, NEW k \in Slots, Lives(q, k)'
        PROVE  ltab[q][k].gtab_idx # NMaxThread /\ LiveState(q, k)'
    <3>1. LiveState(q, k) /\ ltab[q][k].gtab_idx \in Slots /\ ltab'[q][k] = ltab[q][k]
      BY <1>4, <2>1, LiveFacts DEF LifeInv
    <3> QED
      BY <1>b, <3>1 DEF LiveState
  <2> QED
    BY <1>5, <2>1, LiveMove DEF LifeInv
<1>7. Unhooked(h)'
  BY <1>1, <1>4, SMT DEF Unhooked, Unended, dthread_dt2gtab
<1>8. \A q : Accounted(q)
  BY <1>4, ZenonT(60) DEF Accounted, HandleOf, SameDrains
<1>9. Traffic'
  BY <1>2, <1>5, <1>7, <1>8, StartTraffic
<1> QED
  BY <1>3, <1>6, <1>9 DEF LifeInv, Traffic

\* start_thread; that its entry is counted is shown apart.
LEMMA StartLife ==
    ASSUME TypeOK, TypeOK', LifeInv, FreeEntries, AppKnown', LtabCounted',
           NEW s \in Ranks, NEW r \in Ranks, start_thread(s, r)
    PROVE  LifeInv'
<1> net \in Net /\ ltab \in Ltab /\ app \in App /\ 0 \in Ranks
  BY ZeroInRange DEF TypeOK, Net, Ltab, App
<1>h. PICK h : h = Head(net[s][r]).thread
  OBVIOUS
<1>x. PICK x : x = Head(net[s][r]).xid
  OBVIOUS
<1>1. StartAt(s, r, h, x) /\ UNCHANGED <<gtab, rpending, known>>
  BY <1>h, <1>x DEF start_thread, HasMessage, StartAt
<1>2. h \in Handle /\ h.idx \in Slots
  BY <1>1, StartHead DEF dthread_dt2gtab
<1>3. x \in Nat
  BY <1>x, <1>1, HeadFacts, SMT DEF StartAt, Msg
<1>4. PICK l \in ltab_alloc(r) :
        \/ /\ ltab' = [ltab EXCEPT ![r][l] =
                          [gtab_idx |-> h.idx, seq |-> h.seq, pth_state |-> "STARTING"]]
           /\ app' = [app EXCEPT ![r][l] = [NoApp EXCEPT !.pc = "wrap"]]
           /\ mgrstate' = [mgrstate EXCEPT ![r].ltab_alloc = @ + 1, ![r].ltab_lastslot = l]
           /\ net' = dtq_send_enqueue(Received(s, r), r, 0, Answer("STARTED", x, "OK", NoData))
        \/ /\ ltab' = [ltab EXCEPT ![r][l] =
                          [gtab_idx |-> h.idx, seq |-> 0, pth_state |-> "NONE"]]
           /\ mgrstate' = [mgrstate EXCEPT ![r].ltab_lastslot = l]
           /\ net' = dtq_send_enqueue(Received(s, r), r, 0, Answer("STARTED", x, "EAGAIN", NoData))
           /\ app' = app
  BY <1>h, <1>x, ZenonT(60) DEF start_thread, Answer
<1>5. l \in Slots /\ ~Lives(r, l)
  BY FreeLtabEntry DEF LifeInv
<1>6. \A err \in {"OK", "EAGAIN"} :
        LET m == Answer("STARTED", x, err, NoData) IN
        m \in Msg /\ m.op = "STARTED" /\ m.xid = x /\ m.errstatus = err
  <2> SUFFICES ASSUME NEW err \in {"OK", "EAGAIN"}, NEW m, m = Answer("STARTED", x, err, NoData)
               PROVE  m \in Msg /\ m.op = "STARTED" /\ m.xid = x /\ m.errstatus = err
    OBVIOUS
  <2>1. m \in Msg
    BY <1>3, MessageType, NoThreadType, RetType DEF Answer, MsgOps, Errors
  <2> QED
    BY <2>1 DEF Answer, message
<1>7. ASSUME NEW e, ltab' = [ltab EXCEPT ![r][l] = e],
             app' = app \/ \E a : app' = [app EXCEPT ![r][l] = a]
      PROVE  OthersKept(r, l) /\ ltab'[r][l] = e
  <2>1. /\ ltab'[r][l] = e
        /\ \A q \in Ranks, k \in Slots : ~(q = r /\ k = l) => ltab'[q][k] = ltab[q][k]
    BY <1>5, <1>7 DEF Ltab
  <2>2. \A q \in Ranks, k \in Slots : ~(q = r /\ k = l) => app'[q][k] = app[q][k]
    BY <1>5, <1>7, SMT DEF App
  <2> QED
    BY <2>1, <2>2 DEF OthersKept
<1>8. ASSUME NEW e, ltab' = [ltab EXCEPT ![r][l] = e], e.gtab_idx = h.idx, e.seq = h.seq,
             e.pth_state = "STARTING",
             NEW a, app' = [app EXCEPT ![r][l] = a], a.pc = "wrap",
             NEW v, mgrstate' = [mgrstate EXCEPT ![r].ltab_alloc = v, ![r].ltab_lastslot = l],
             net' = dtq_send_enqueue(Received(s, r), r, 0, Answer("STARTED", x, "OK", NoData))
      PROVE  LifeInv'
  <2>1. OthersKept(r, l) /\ ltab'[r][l] = e
    BY <1>7, <1>8
  <2>2. app'[r][l] = a
    BY <1>5, <1>8 DEF App
  <2>3. Begins(r, l, h)
    BY <1>5, <1>8, <2>1, <2>2 DEF Begins
  <2>4. SameDrains
    BY <1>8, FillDrains
  <2>5. PICK m : /\ m = Answer("STARTED", x, "OK", NoData)
                 /\ m \in Msg /\ m.op = "STARTED" /\ m.xid = x /\ m.errstatus = "OK"
    BY <1>6
  <2> QED
    BY <1>1, <1>5, <1>8, <2>3, <2>4, <2>5, BeginsLife
<1>9. ASSUME NEW e, ltab' = [ltab EXCEPT ![r][l] = e], app' = app,
             mgrstate' = [mgrstate EXCEPT ![r].ltab_lastslot = l],
             net' = dtq_send_enqueue(Received(s, r), r, 0, Answer("STARTED", x, "EAGAIN", NoData))
      PROVE  LifeInv'
  <2>1. OthersKept(r, l)
    BY <1>7, <1>9
  <2>2. SameDrains
    BY <1>9, FillDrains
  <2>3. PICK m : /\ m = Answer("STARTED", x, "EAGAIN", NoData)
                 /\ m \in Msg /\ m.op = "STARTED" /\ m.xid = x /\ m.errstatus # "OK"
    BY <1>6
  <2> QED
    BY <1>1, <1>5, <1>9, <2>1, <2>2, <2>3, BeginFailsLife
<1>10. CASE /\ ltab' = [ltab EXCEPT ![r][l] =
                          [gtab_idx |-> h.idx, seq |-> h.seq, pth_state |-> "STARTING"]]
            /\ app' = [app EXCEPT ![r][l] = [NoApp EXCEPT !.pc = "wrap"]]
            /\ mgrstate' = [mgrstate EXCEPT ![r].ltab_alloc = @ + 1, ![r].ltab_lastslot = l]
            /\ net' = dtq_send_enqueue(Received(s, r), r, 0, Answer("STARTED", x, "OK", NoData))
  <2>1. PICK e : e = [gtab_idx |-> h.idx, seq |-> h.seq, pth_state |-> "STARTING"]
    OBVIOUS
  <2>2. e.gtab_idx = h.idx /\ e.seq = h.seq /\ e.pth_state = "STARTING"
    BY <2>1
  <2>3. PICK a : a = [NoApp EXCEPT !.pc = "wrap"]
    OBVIOUS
  <2>4. a.pc = "wrap"
    BY <2>3, BlankBlocks
  <2>5. PICK v : v = mgrstate[r].ltab_alloc + 1
    OBVIOUS
  <2>6. /\ ltab' = [ltab EXCEPT ![r][l] = e] /\ app' = [app EXCEPT ![r][l] = a]
        /\ mgrstate' = [mgrstate EXCEPT ![r].ltab_alloc = v, ![r].ltab_lastslot = l]
    BY <1>10, <2>1, <2>3, <2>5
  <2> QED
    BY <1>8, <1>10, <2>2, <2>4, <2>6
<1> QED
  BY <1>4, <1>9, <1>10

-----------------------------------------------------------------------------
(* process_req_retclean *)

\* The pthread of h, in entry l of rank r, is joined and its entry given back.
Gone(r, l, h) ==
    /\ Lives(r, l) /\ ltab[r][l].gtab_idx = h.idx /\ ltab[r][l].seq = h.seq
    /\ OthersKept(r, l) /\ app'[r][l].pc = "none"
    /\ SameSlots(NMaxThread) /\ SameDetached(NMaxThread) /\ NoHook
    /\ \A g \in Slots : g # h.idx => /\ gtab'[g].has_ltab = gtab[g].has_ltab
                                     /\ gtab'[g].ltab_idx = gtab[g].ltab_idx
    /\ ~gtab'[h.idx].has_ltab

\* The slot of the thread that leaves.
GoneSlot(r, l, h) ==
    /\ h.idx \in Slots /\ gtab[h.idx].rank = r /\ gtab[h.idx].allocated
    /\ gtab[h.idx].terminated = "NONE" /\ gtab[h.idx].seq = h.seq
    /\ \A k \in Slots : Lives(r, k) /\ ltab[r][k].gtab_idx = h.idx => k = l

\* It is that of the ltab entry.
LEMMA GoneFacts ==
    ASSUME LifeInv, NEW r \in Ranks, NEW l \in Slots, NEW h, Gone(r, l, h)
    PROVE  GoneSlot(r, l, h)
<1>1. Lives(r, l) /\ ltab[r][l].gtab_idx = h.idx /\ ltab[r][l].seq = h.seq
  BY DEF Gone
<1>2. OwnSlot(r, l)
  BY <1>1, LiveOwns
<1> QED
  BY <1>1, <1>2 DEF OwnSlot, GoneSlot

\* The thread has no pthread left, and the others are as they were.
LEMMA GoneLives ==
    ASSUME TypeOK, LifeInv, NEW r \in Ranks, NEW l \in Slots, NEW h \in Handle,
           Gone(r, l, h)
    PROVE  /\ SameLives /\ LiveInv' /\ Unhooked(h)' /\ gtab'[h.idx].rank = r
           /\ \A q \in Ranks, k \in Slots : Lives(q, k)' => LiveState(q, k)'
<1> NMaxThread \notin Slots
  BY NMaxThreadAssumption, SMT DEF Slots
<1>1. \A q \in Ranks, k \in Slots : Lives(q, k)' =>
          /\ ~(q = r /\ k = l) /\ Lives(q, k) /\ ltab'[q][k] = ltab[q][k]
          /\ app'[q][k].pc = app[q][k].pc
  BY DEF Lives, Gone, OthersKept
<1>2. SameLives
  BY <1>1 DEF SameLives
<1>3. /\ h.idx \in Slots /\ gtab[h.idx].rank = r /\ gtab[h.idx].allocated
      /\ gtab[h.idx].terminated = "NONE" /\ gtab[h.idx].seq = h.seq
      /\ \A k \in Slots : Lives(r, k) /\ ltab[r][k].gtab_idx = h.idx => k = l
  BY GoneFacts DEF GoneSlot
<1>4. ASSUME NEW q \in Ranks, NEW k \in Slots, Lives(q, k)'
      PROVE  ltab[q][k].gtab_idx # h.idx /\ ltab'[q][k].gtab_idx # h.idx
  <2>1. gtab[ltab[q][k].gtab_idx].rank = q
    BY <1>1, <1>4, LiveFacts DEF LifeInv
  <2>2. ASSUME ltab[q][k].gtab_idx = h.idx
        PROVE  FALSE
    <3>1. q = r
      BY <1>3, <2>1, <2>2
    <3>2. Lives(r, k) /\ ltab[r][k].gtab_idx = h.idx
      BY <1>1, <1>4, <2>2, <3>1
    <3> QED
      BY <1>1, <1>3, <1>4, <3>1, <3>2
  <2> QED
    BY <1>1, <1>4, <2>2
<1>5. Unhooked(h)' /\ gtab'[h.idx].rank = r
  <2>1. /\ gtab'[h.idx].rank = r /\ gtab'[h.idx].allocated
        /\ gtab'[h.idx].terminated = "NONE" /\ gtab'[h.idx].seq = h.seq
        /\ ~gtab'[h.idx].has_ltab
    BY <1>3 DEF Gone, SameSlots
  <2>2. Unended(h) /\ gtab[h.idx].seq = gtab'[h.idx].seq
    BY <1>3, <2>1, LiveFacts DEF LifeInv, Gone, Unended, dthread_dt2gtab, HandleOf
  <2>3. Unended(h)'
    BY <1>3, <2>1, <2>2 DEF Unended, dthread_dt2gtab
  <2> QED
    BY <1>4, <2>1, <2>3 DEF Unhooked
<1>6. ASSUME NEW q \in Ranks, NEW k \in Slots, Lives(q, k)'
      PROVE  LiveState(q, k)' /\ ltab[q][k].gtab_idx # NMaxThread
  <2>1. LiveState(q, k) /\ ltab[q][k].gtab_idx \in Slots
    BY <1>1, <1>6, LiveFacts DEF LifeInv
  <2>2. /\ gtab'[ltab[q][k].gtab_idx].has_ltab = gtab[ltab[q][k].gtab_idx].has_ltab
        /\ gtab'[ltab[q][k].gtab_idx].ltab_idx = gtab[ltab[q][k].gtab_idx].ltab_idx
    BY <1>4, <1>6, <2>1 DEF Gone
  <2> QED
    BY <1>1, <1>6, <2>1, <2>2 DEF LiveState
<1>7. LiveInv'
  <2>1. SameSlots(NMaxThread)
    BY DEF Gone
  <2> QED
    BY <1>2, <1>6, <2>1, LiveMove DEF LifeInv
<1> QED
  BY <1>2, <1>5, <1>6, <1>7

\* No message is about the thread yet.
LEMMA GoneAlone ==
    ASSUME TypeOK, LifeInv, NEW r \in Ranks, NEW l \in Slots, NEW h \in Handle,
           Gone(r, l, h), NEW s \in Ranks, NEW d \in Ranks, NEW n,
           Remains(0, 0, 0, s, d, n)
    PROVE  /\ n.op \in {"START", "TERMINATED"} => n.thread.idx # h.idx
           /\ Waiting(n) => n.xid # h.seq + NRanks
<1>0. net \in Net /\ Traffic /\ n \in Msg
  BY RemainsTyped DEF TypeOK, Net, LifeInv, Traffic
<1>1. \A g : Unhooked(g) => g.idx # h.idx
  BY DEF Unhooked, Gone
<1>2. n.op \in {"START", "TERMINATED"} => n.thread.idx # h.idx
  <2>1. InTransit(s, d, n)
    BY RemainsInTransit DEF LifeInv
  <2> QED
    BY <1>1, <2>1 DEF InTransit
<1>3. ASSUME Waiting(n), n.xid = h.seq + NRanks
      PROVE  FALSE
  <2>1. PICK p : /\ StartPending(p) /\ p.xid = n.xid
                 /\ p.xid = p.thread.seq + NRanks /\ Unhooked(p.thread)
    BY <1>0, <1>3, WaitingUnhooked, SMT
  <2>2. p.thread \in Handle
    BY <2>1, StartFacts DEF LifeInv
  <2>3. p.thread.seq = h.seq
    BY <1>3, <2>1, <2>2, NRanksAssumption, SMT DEF Handle
  <2>4. h.idx \in Slots /\ gtab[h.idx].allocated /\ gtab[h.idx].seq = h.seq
    <3>1. GoneSlot(r, l, h)
      BY GoneFacts
    <3> QED
      BY <3>1 DEF GoneSlot
  <2>5. p.thread.idx = h.idx
    BY <2>1, <2>3, <2>4, SameGeneration DEF LifeInv, Unhooked, Unended
  <2> QED
    BY <1>1, <2>1, <2>5
<1> QED
  BY <1>2, <1>3

\* The traffic when TERMINATED is sent.
LEMMA GoneTraffic ==
    ASSUME TypeOK, TypeOK', LifeInv, NEW r \in Ranks, NEW l \in Slots, NEW h \in Handle,
           Gone(r, l, h), ~draining(r), NEW m \in Msg, m.op = "TERMINATED", m.thread = h,
           m.finalstate \in FinalStates, net' = dtq_send_enqueue(net, r, 0, m),
           SameDrains, UNCHANGED <<rpending, known>>
    PROVE  Traffic'
<1> net \in Net /\ net' \in Net
  BY DEF TypeOK, Net
<1> 0 \in Ranks /\ NMaxThread \notin Slots
  BY ZeroInRange, NMaxThreadAssumption, SMT DEF Slots
<1>1. NetMove(0, 0, 0, r, 0, m)
  BY SendExtends, SentMove
<1>2. SameLives /\ Unhooked(h)' /\ gtab'[h.idx].rank = r
  BY GoneLives
<1>3. \A s, d \in Ranks : \A n : Remains(0, 0, 0, s, d, n) =>
          /\ n.op \in {"START", "TERMINATED"} => n.thread.idx # h.idx
          /\ Waiting(n) => n.xid # h.seq + NRanks
  BY GoneAlone
<1>4. \A q : StartPending(q)' <=> StartPending(q)
  BY DEF StartPending
<1>5. \A q : StartPending(q) => q.thread.idx # NMaxThread
  BY StartFacts DEF LifeInv, dthread_dt2gtab
<1>6. SameSlots(NMaxThread) /\ SameHooks(NMaxThread)
  BY <1>2 DEF Gone, SameHooks, SameLives, NoHook
<1>7. StartInv'
  BY <1>4, <1>5, <1>6, StartsMove DEF LifeInv
<1>8. TransitInv'
  <2>1. StartsKept(-1)
    BY <1>4 DEF StartsKept
  <2>2. Clear(0, 0, 0, NMaxThread, NMaxThread, -1)
    <3> SUFFICES ASSUME NEW t \in Ranks, NEW d \in Ranks, NEW n, Remains(0, 0, 0, t, d, n)
                 PROVE  /\ n.op \in {"START", "TERMINATED"} => n.thread.idx # NMaxThread
                        /\ n.xid # -1
      BY <1>5 DEF Clear
    <3>1. InTransit(t, d, n) /\ n \in Msg
      BY RemainsInTransit, RemainsTyped DEF LifeInv
    <3>2. n.xid # -1
      BY <3>1, SMT DEF Msg
    <3> QED
      BY <3>1, <3>2 DEF InTransit, Unhooked, Unended, dthread_dt2gtab
  <2>3. \A t, d \in Ranks : \A n : Remains(0, 0, 0, t, d, n) => InTransit(t, d, n)'
    BY <1>6, <2>1, <2>2, TransitKept DEF LifeInv
  <2>4. InTransit(r, 0, m)'
    BY <1>2 DEF InTransit
  <2> QED
    BY <1>1, <2>3, <2>4, TransitMove
<1>9. OnePlace'
  <2>1. \A t, d \in Ranks : \A n : Remains(0, 0, 0, t, d, n)
            => ~Exclusive(m, n) /\ ~Exclusive(n, m)
    BY <1>3 DEF Exclusive, Waiting
  <2> QED
    BY <1>1, <2>1, OnePlaceMove DEF LifeInv
<1>10. StartedFirst'
  <2> SUFFICES ASSUME NEW q, StartPending(q)
               PROVE  StartedFor(q)'
    BY <1>4 DEF StartedFirst, StartPending, StartedFor
  <2>1. StartedFor(q)
    BY DEF LifeInv, StartedFirst, StartPending, StartedFor
  <2>2. ASSUME m.thread = q.thread
        PROVE  \E i \in 1 .. Len(net'[r][0]) - 1 :
                  net'[r][0][i].op = "STARTED" /\ net'[r][0][i].xid = q.xid
    <3>1. q.thread \in Handle
      BY StartFacts DEF LifeInv
    <3>2. HandleOf(r, l) = q.thread
      BY <2>2, <3>1 DEF Gone, HandleOf, Handle
    <3>3. PICK i \in 1 .. Len(net[r][0]) :
              net[r][0][i].op = "STARTED" /\ net[r][0][i].xid = q.xid
      BY <2>1, <3>2 DEF StartedFor, Gone
    <3>4. net'[r][0] = Append(net[r][0], m)
      BY DEF dtq_send_enqueue, Net
    <3>5. net[r][0] \in Seq(Msg)
      BY DEF Net
    <3>6. i \in 1 .. Len(net'[r][0]) - 1 /\ net'[r][0][i] = net[r][0][i]
      BY <3>3, <3>4, <3>5, SMTT(20)
    <3> QED
      BY <3>3, <3>6
  <2>3. \A t \in Ranks, k \in Slots :
            Lives(t, k)' /\ HandleOf(t, k)' = q.thread /\ ~draining(t)' =>
                Lives(t, k) /\ HandleOf(t, k) = q.thread /\ ~draining(t)
    BY <1>2, ZenonT(60) DEF SameLives, SameDrains, HandleOf
  <2>4. 0 = 1 /\ 0 = 0 =>
          ~(net[0][0][1].op = "STARTED" /\ net[0][0][1].xid = q.xid)
    BY SMT
  <2>5. m.op = "TERMINATED" /\ m.thread = q.thread /\ 0 = 0
            => \E i \in 1 .. Len(net'[r][0]) - 1 :
                  net'[r][0][i].op = "STARTED" /\ net'[r][0][i].xid = q.xid
    BY <2>2
  <2>6. Accounted(q)
    BY <2>3 DEF Accounted
  <2> QED
    BY <1>1, <2>1, <2>4, <2>5, <2>6, StartedForMove DEF Accounted
<1> QED
  BY <1>7, <1>8, <1>9, <1>10 DEF Traffic

\* LifeInv when a pthread is gone.
LEMMA GoneLife ==
    ASSUME TypeOK, TypeOK', LifeInv, AppKnown', LtabCounted', NEW r \in Ranks,
           NEW l \in Slots, NEW h \in Handle, Gone(r, l, h), NEW m \in Msg,
           m.op = "TERMINATED", m.thread = h, m.finalstate \in FinalStates,
           net' = dtq_send_enqueue(net, r, 0, m), SameDrains, UNCHANGED <<rpending, known>>
    PROVE  LifeInv'
<1> net \in Net /\ net' \in Net /\ 0 \in Ranks
  BY ZeroInRange DEF TypeOK, Net
<1> NMaxThread \notin Slots
  BY NMaxThreadAssumption, SMT DEF Slots
<1>1. SameSlots(NMaxThread) /\ SameDetached(NMaxThread) /\ NoHook
  BY DEF Gone
<1>2. /\ SameLives /\ LiveInv'
      /\ \A q \in Ranks, k \in Slots : Lives(q, k)' => LiveState(q, k)'
  BY GoneLives
<1>3. \A p : JoinWaiting(p)' <=> JoinWaiting(p)
  BY DEF JoinWaiting
<1>4. CASE draining(r)
  <2>1. UNCHANGED net
    BY <1>4 DEF dtq_send_enqueue
  <2>2. PICK n : Mute(n) /\ Quiet(n) /\ NetMove(0, 0, 0, 0, 0, n)
    BY <2>1, NetStays
  <2>3. ~(n.op \in {"DETACH", "CANCEL", "JOIN"})
    BY <2>2 DEF Quiet
  <2>4. DrainsOn
    BY DEF SameDrains, DrainsOn
  <2>5. \A p : StartPending(p)' <=> StartPending(p)
    BY DEF StartPending
  <2>6. 0 = 1 => net[0][0][1].op # "STARTED"
    BY SMT
  <2> QED
    BY <1>1, <1>2, <1>3, <2>2, <2>3, <2>4, <2>5, <2>6, QuietLife
<1>5. CASE ~draining(r)
  <2>1. Traffic'
    BY <1>5, GoneTraffic
  <2>2. SlotInv'
    BY <1>1, SlotsMove DEF LifeInv
  <2>3. JoinWaitHasFuture'
    <3>1. \A p : JoinWaiting(p)' => JoinWaiting(p) /\ p.thread.idx # NMaxThread
      BY <1>3 DEF LifeInv, JoinWaiting, JoinWaitHasFuture, dthread_dt2gtab
    <3> QED
      BY <1>1, <3>1, JoinWaitMove DEF LifeInv
  <2>4. KnownInv'
    <3>1. NetMove(0, 0, 0, r, 0, m)
      BY SendExtends, SentMove
    <3>2. \A g \in Slots : gtab'[g].allocated /\ gtab'[g].detached =>
              gtab[g].allocated /\ gtab[g].detached /\ gtab'[g].seq = gtab[g].seq
      BY <1>1 DEF SameSlots, SameDetached
    <3> QED
      BY <1>3, <3>1, <3>2, KnownMove DEF LifeInv
  <2> QED
    BY <1>2, <2>1, <2>2, <2>3, <2>4 DEF LifeInv, Traffic
<1> QED
  BY <1>4, <1>5

\* The thread of a RETCLEAN request lives, and its gtab entry is its own.
LEMMA RetcleanEntry ==
    ASSUME CallInv, LifeInv, NEW r \in Ranks, NEW l \in Slots, app[r][l].op = "RETCLEAN"
    PROVE  /\ Lives(r, l) /\ ltab[r][l].pth_state \in FinalStates
           /\ gtab[ltab[r][l].gtab_idx].seq = ltab[r][l].seq
           /\ gtab[ltab[r][l].gtab_idx].has_ltab => gtab[ltab[r][l].gtab_idx].ltab_idx = l
<1>1. app[r][l].pc = "clean"
  BY DEF CallInv, RequestBlocks
<1>2. Lives(r, l)
  BY <1>1 DEF Lives
<1>3. LiveState(r, l) /\ OwnSlot(r, l)
  BY <1>2, LiveOwns
<1> QED
  BY <1>1, <1>2, <1>3 DEF LiveState, OwnSlot

\* The gtab entry is unhooked, if it was hooked.
LEMMA UnhookTable ==
    ASSUME gtab \in Gtab, NEW g \in Slots, NEW c \in BOOLEAN, gtab[g].has_ltab => c,
           gtab' = IF c THEN [gtab EXCEPT ![g].has_ltab = FALSE] ELSE gtab
    PROVE  /\ SameSlots(NMaxThread) /\ SameDetached(NMaxThread) /\ NoHook
           /\ \A k \in Slots : k # g => /\ gtab'[k].has_ltab = gtab[k].has_ltab
                                        /\ gtab'[k].ltab_idx = gtab[k].ltab_idx
           /\ ~gtab'[g].has_ltab
<1>1. CASE c
  <2>1. gtab' = [gtab EXCEPT ![g] = [gtab[g] EXCEPT !.has_ltab = FALSE]]
    BY <1>1, SMT
  <2>2. PICK e : e = [gtab[g] EXCEPT !.has_ltab = FALSE]
    OBVIOUS
  <2>3. /\ ~e.has_ltab /\ e.allocated = gtab[g].allocated /\ e.seq = gtab[g].seq
        /\ e.rank = gtab[g].rank /\ e.terminated = gtab[g].terminated
        /\ e.detached = gtab[g].detached
    BY <2>2, SMT DEF Gtab, GtabEntry
  <2>4. \A k \in Slots : gtab'[k] = IF k = g THEN e ELSE gtab[k]
    BY <2>1, <2>2 DEF Gtab
  <2> QED
    BY <2>3, <2>4 DEF SameSlots, SameDetached, NoHook
<1>2. CASE ~c
  BY <1>2, SMT DEF SameSlots, SameDetached, NoHook
<1> QED
  BY <1>1, <1>2

\* process_req_retclean; that its entry is no longer counted is shown apart.
LEMMA RetcleanLife ==
    ASSUME TypeOK, TypeOK', CallInv, LifeInv, AppKnown', LtabCounted', NEW r \in Ranks,
           process_req_retclean(r)
    PROVE  LifeInv'
<1> gtab \in Gtab /\ ltab \in Ltab /\ app \in App /\ 0 \in Ranks
  BY ZeroInRange DEF TypeOK, Gtab, Ltab, App
<1>l. PICK l : l = Head(mgrreqq[r])
  OBVIOUS
<1>e. PICK e : e = ltab[r][l]
  OBVIOUS
<1>h. PICK h : h = [idx |-> e.gtab_idx, seq |-> e.seq]
  OBVIOUS
<1>m. PICK m : m = [message("TERMINATED", 0, h, "OK", NoData) EXCEPT !.finalstate = e.pth_state]
  OBVIOUS
<1>c. PICK c : c = (gtab[e.gtab_idx].has_ltab /\ gtab[e.gtab_idx].ltab_idx = l
                    /\ gtab[e.gtab_idx].seq = e.seq)
  OBVIOUS
<1>1. l \in Slots /\ app[r][l].op = "RETCLEAN" /\ e \in LtabEntry
  <2>1. mgrreqq[r] # <<>> /\ app[r][l].op = "RETCLEAN"
    BY <1>l DEF process_req_retclean, HasRequest
  <2>2. l \in Slots
    BY <1>l, <2>1, FirstRequest
  <2> QED
    BY <1>e, <2>1, <2>2 DEF Ltab
<1>2. /\ l \in Slots /\ Lives(r, l) /\ e \in LtabEntry /\ e.pth_state \in FinalStates
      /\ gtab[e.gtab_idx].seq = e.seq
      /\ gtab[e.gtab_idx].has_ltab => gtab[e.gtab_idx].ltab_idx = l
  BY <1>1, <1>e, RetcleanEntry
<1>3. /\ gtab' = IF c THEN [gtab EXCEPT ![e.gtab_idx].has_ltab = FALSE] ELSE gtab
      /\ net' = dtq_send_enqueue(net, r, 0, m)
      /\ ltab' = [ltab EXCEPT ![r][l].pth_state = "NONE", ![r][l].seq = 0]
      /\ mgrstate' = [mgrstate EXCEPT ![r].ltab_alloc = mgrstate[r].ltab_alloc - 1]
      /\ app' = [app EXCEPT ![r][l] = NoApp]
      /\ UNCHANGED <<rpending, known>>
  BY <1>l, <1>e, <1>h, <1>m, <1>c, ZenonT(60) DEF process_req_retclean
<1>4. h \in Handle /\ h.idx = e.gtab_idx /\ h.seq = e.seq /\ h.idx \in Slots
  <2> e.gtab_idx \in Slots /\ e.seq \in Nat
    BY <1>2 DEF LtabEntry
  <2>2. h.idx = e.gtab_idx /\ h.seq = e.seq
    BY <1>h
  <2>3. h \in Handle
    BY <1>h, SMT DEF Handle, Slots
  <2> QED
    BY <2>2, <2>3
<1>5. /\ SameSlots(NMaxThread) /\ SameDetached(NMaxThread) /\ NoHook
      /\ \A k \in Slots : k # h.idx => /\ gtab'[k].has_ltab = gtab[k].has_ltab
                                       /\ gtab'[k].ltab_idx = gtab[k].ltab_idx
      /\ ~gtab'[h.idx].has_ltab
  <2>1. c \in BOOLEAN /\ (gtab[h.idx].has_ltab => c)
    BY <1>c, <1>2, <1>4
  <2>2. gtab' = IF c THEN [gtab EXCEPT ![h.idx].has_ltab = FALSE] ELSE gtab
    BY <1>3, <1>4
  <2> QED
    BY <1>4, <2>1, <2>2, UnhookTable
<1>6. OthersKept(r, l) /\ app'[r][l].pc = "none"
  <2>1. \A q \in Ranks, k \in Slots : ~(q = r /\ k = l) => ltab'[q][k] = ltab[q][k]
    BY <1>2, <1>3 DEF Ltab
  <2>2. Sets(r, l, NoApp)
    BY <1>2, <1>3, AppSet
  <2>3. NoApp.pc = "none"
    BY BlankBlocks, SMT
  <2> QED
    BY <1>2, <2>1, <2>2, <2>3 DEF OthersKept, Sets
<1>7. Gone(r, l, h)
  BY <1>2, <1>e, <1>4, <1>5, <1>6 DEF Gone
<1>8. m \in Msg /\ m.op = "TERMINATED" /\ m.thread = h /\ m.finalstate \in FinalStates
  <2>1. PICK n : n = message("TERMINATED", 0, h, "OK", NoData)
    OBVIOUS
  <2>2. n \in Msg /\ n.op = "TERMINATED" /\ n.thread = h
    <3>1. n \in Msg
      BY <1>4, <2>1, MessageType, RetType DEF MsgOps, Errors
    <3> QED
      BY <2>1, <3>1 DEF message
  <2>3. m = [n EXCEPT !.finalstate = e.pth_state] /\ e.pth_state \in LT
    BY <1>m, <1>2, <2>1 DEF LT
  <2> QED
    BY <1>2, <2>2, <2>3 DEF Msg
<1>9. SameDrains
  BY <1>3, FillDrains
<1> QED
  BY <1>2, <1>3, <1>4, <1>7, <1>8, <1>9, GoneLife

\* The request at the head of the queue is that of a thread that lives.
LEMMA RetcleanHead ==
    ASSUME TypeOK, CallInv, LifeInv, NEW r \in Ranks, process_req_retclean(r)
    PROVE  Head(mgrreqq[r]) \in Slots /\ Lives(r, Head(mgrreqq[r]))
<1>1. mgrreqq[r] # <<>> /\ app[r][Head(mgrreqq[r])].op = "RETCLEAN"
  BY DEF process_req_retclean, HasRequest
<1>2. Head(mgrreqq[r]) \in Slots
  BY <1>1, FirstRequest
<1> QED
  BY <1>1, <1>2, RetcleanEntry
=============================================================================
