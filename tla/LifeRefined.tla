---------------------------- MODULE LifeRefined -----------------------------
(***************************************************************************)
(* Proofs that Dthread implements ThreadLife under the mapping of          *)
(* DthreadLife: first what every handler does to the tables of manager 0,  *)
(* case by case, then that each of those effects is a step of ThreadLife   *)
(* or a stutter.                                                           *)
(***************************************************************************)
EXTENDS DthreadLemmas, DthreadLife

\* Leaves are for Zenon unless they name another prover.
USE Zenon

\* The handles of allocated slots are the valid ones.
ValidAllocated == /\ \A h \in Handle : h \in Allocated <=> dthread_dt2gtab(h)
                  /\ Allocated \subseteq Handle

\* The handles of allocated slots are those that dthread_dt2gtab accepts.
LEMMA AllocatedValid == TypeOK => ValidAllocated
<1> HAVE TypeOK
<1>1. ASSUME NEW h \in Allocated PROVE h \in Handle /\ dthread_dt2gtab(h)
  <2>1. PICK g \in Slots : gtab[g].allocated /\ h = [idx |-> g, seq |-> gtab[g].seq]
    BY <1>1, SMT DEF Allocated
  <2>2. g \in Nat /\ gtab[g].seq \in Nat
    BY NMaxThreadAssumption, SMT DEF TypeOK, GtabEntry, Slots
  <2> QED
    BY <2>1, <2>2, SMT DEF Handle, dthread_dt2gtab
<1>2. ASSUME NEW h \in Handle, dthread_dt2gtab(h) PROVE h \in Allocated
  <2>1. h = [idx |-> h.idx, seq |-> gtab[h.idx].seq]
    BY <1>2, SMT DEF Handle, dthread_dt2gtab
  <2> QED
    BY <1>2, <2>1, SMT DEF Allocated, dthread_dt2gtab
<1> QED
  BY <1>1, <1>2, SMT DEF ValidAllocated

\* Threads that keep their slots and their standing.
LEMMA ThreadsKept ==
    ASSUME Allocated' = Allocated, \A h \in Allocated : Standing(h)' = Standing(h)
    PROVE  Threads' = Threads
BY SMT DEF Threads

\* A step that releases one thread.
LEMMA ThreadsLess ==
    ASSUME NEW h, Allocated' = Allocated \ {h},
           \A x \in Allocated \ {h} : Standing(x)' = Standing(x)
    PROVE  Threads' = Life!Without(h)
BY SMT DEF Threads, Life!Without

\* A step that creates one.
LEMMA ThreadsMore ==
    ASSUME NEW h, Allocated' = Allocated \cup {h}, Standing(h)' = Life!Fresh,
           \A x \in Allocated \ {h} : Standing(x)' = Standing(x)
    PROVE  Threads' = [x \in DOMAIN Threads \cup {h} |->
                          IF x = h THEN Life!Fresh ELSE Threads[x]]
BY SMT DEF Threads

\* The table of slots decides which handles are valid.
LEMMA AllocatedKept ==
    ASSUME TypeOK, TypeOK', \A g \in Slots : SlotKept(g)
    PROVE  Allocated' = Allocated
<1>1. \A h \in Handle : dthread_dt2gtab(h)' <=> dthread_dt2gtab(h)
  BY SMT DEF SlotKept, dthread_dt2gtab
<1>2. ValidAllocated
  BY AllocatedValid
<1>3. ValidAllocated'
  BY AllocatedValid, PTL
<1> QED
  BY <1>1, <1>2, <1>3, SMT DEF ValidAllocated

\* Freeing the slot of a valid handle takes exactly that handle away.
LEMMA AllocatedLess ==
    ASSUME TypeOK, TypeOK', NEW h \in Handle, dthread_dt2gtab(h), SameEntries(h.idx),
           ~gtab'[h.idx].allocated
    PROVE  Allocated' = Allocated \ {h}
<1>1. \A x \in Handle : dthread_dt2gtab(x)' <=> dthread_dt2gtab(x) /\ x.idx # h.idx
  BY DEF SameEntries, dthread_dt2gtab
<1>2. \A x \in Handle : dthread_dt2gtab(x) /\ x.idx = h.idx => x = h
  BY OneGeneration
<1>3. ValidAllocated
  BY AllocatedValid
<1>4. ValidAllocated'
  BY AllocatedValid, PTL
<1> QED
  BY <1>1, <1>2, <1>3, <1>4, SMT DEF ValidAllocated

\* Taking a free slot under a seq adds exactly the handle of the two.
LEMMA AllocatedMore ==
    ASSUME TypeOK, TypeOK', NEW h \in Handle, h.idx \in Slots, ~gtab[h.idx].allocated,
           gtab'[h.idx].allocated, gtab'[h.idx].seq = h.seq, SameEntries(h.idx)
    PROVE  Allocated' = Allocated \cup {h} /\ h \notin Allocated
<1>1. \A x \in Handle : dthread_dt2gtab(x)' <=> dthread_dt2gtab(x) \/ x = h
  <2> SUFFICES ASSUME NEW x \in Handle
               PROVE  dthread_dt2gtab(x)' <=> dthread_dt2gtab(x) \/ x = h
    BY SMT
  <2>1. CASE x.idx = h.idx
    BY <2>1, HandleEq DEF dthread_dt2gtab
  <2>2. CASE x.idx # h.idx
    BY <2>2 DEF dthread_dt2gtab, SameEntries
  <2> QED
    BY <2>1, <2>2, SMT
<1>2. ~dthread_dt2gtab(h)
  BY SMT DEF dthread_dt2gtab
<1>3. ValidAllocated
  BY AllocatedValid
<1>4. ValidAllocated'
  BY AllocatedValid, PTL
<1> QED
  BY <1>1, <1>2, <1>3, <1>4, SMT DEF ValidAllocated

\* A thread's standing depends on its slot and on who waits for it.
WaitKept(h) == \A p : p.thread = h => (JoinWaiting(p)' <=> JoinWaiting(p))

\* The joiners of a thread change only with its JOINWAIT requests.
LEMMA WaitedKept ==
    ASSUME NEW h, WaitKept(h)
    PROVE  joinwait_search(h)' = joinwait_search(h)
BY SMT DEF WaitKept, JoinWaiting, joinwait_search

\* A thread stands as before if its entry and its joiners do.
LEMMA StandingKept ==
    ASSUME NEW h, gtab'[h.idx].terminated = gtab[h.idx].terminated,
           gtab'[h.idx].detached = gtab[h.idx].detached, WaitKept(h)
    PROVE  Standing(h)' = Standing(h)
BY WaitedKept DEF Standing

\* A step on the slot of one handle leaves how all others stand.
LEMMA OtherStandings ==
    ASSUME TypeOK, NEW h \in Handle, ~dthread_dt2gtab(h) => ~gtab[h.idx].allocated,
           SameEntries(h.idx), \A x : x # h => WaitKept(x)
    PROVE  \A x \in Allocated \ {h} : Standing(x)' = Standing(x)
<1> SUFFICES ASSUME NEW x \in Allocated, x # h
             PROVE  Standing(x)' = Standing(x)
  BY SMT
<1>1. x \in Handle /\ dthread_dt2gtab(x)
  BY AllocatedValid, SMT DEF ValidAllocated
<1>2. x.idx # h.idx
  BY <1>1, OneGeneration DEF dthread_dt2gtab
<1>3. gtab'[x.idx] = gtab[x.idx]
  BY <1>1, <1>2 DEF SameEntries, dthread_dt2gtab
<1> QED
  BY <1>3, StandingKept, SMT

\* A step of Dthread is a step of ThreadLife, or leaves its threads alone.
Refines == Life!Next \/ UNCHANGED Life!vars

\* A step that leaves the threads and the joins may still advance seqsrc (Tick).
LEMMA TickRefines ==
    ASSUME TypeOK, TypeOK', [Next]_vars, Threads' = Threads, joinok' = joinok
    PROVE  Refines
<1>1. Joined' = Joined
  BY SMT DEF Joined
<1>2. seqsrc[0] \in Nat /\ seqsrc'[0] \in Nat /\ seqsrc[0] <= seqsrc'[0]
  BY SeqsrcStep
<1>3. CASE seqsrc'[0] = seqsrc[0]
  BY <1>1, <1>3, SMT DEF Refines, Life!vars
<1>4. CASE seqsrc'[0] > seqsrc[0]
  <2>1. Life!Tick
    BY <1>1, <1>4, SMT DEF Life!Tick
  <2> QED
    BY <2>1, SMT DEF Refines, Life!Next
<1> QED
  BY <1>2, <1>3, <1>4, SMT

\* So does a step that leaves all but the ret and ltab fields of gtab.
LEMMA QuietRefines ==
    ASSUME TypeOK, TypeOK', [Next]_vars, SameSlots(NMaxThread), SameDetached(NMaxThread),
           \A p : JoinWaiting(p)' <=> JoinWaiting(p), joinok' = joinok
    PROVE  Refines
<1>1. \A g \in Slots : g # NMaxThread
  BY NMaxThreadAssumption, SMT DEF Slots
<1>2. Allocated' = Allocated
  BY <1>1, AllocatedKept, SMT DEF SameSlots, SlotKept
<1>3. ASSUME NEW h \in Allocated PROVE Standing(h)' = Standing(h)
  <2>1. h.idx \in Slots
    BY AllocatedValid, SMT DEF ValidAllocated, dthread_dt2gtab
  <2> QED
    BY <1>1, <2>1, StandingKept DEF SameSlots, SameDetached, WaitKept
<1>4. Threads' = Threads
  BY <1>2, <1>3, ThreadsKept, SMT
<1> QED
  BY <1>4, TickRefines

\* A step that leaves gtab, the joins and the waits.
LEMMA TableRefines ==
    ASSUME TypeOK, TypeOK', [Next]_vars, UNCHANGED <<gtab, joinok>>,
           \A p : JoinWaiting(p)' <=> JoinWaiting(p)
    PROVE  Refines
BY QuietRefines, SMT DEF SameSlots, SameDetached

\* The calls and ends of application threads change no thread of ThreadLife.
LEMMA AppRefines ==
    ASSUME TypeOK, TypeOK', [Next]_vars, NEW r \in Ranks, NEW l \in Slots,
           AppChoice(r, l) \/ AppStep(r, l)
    PROVE  Refines
<1>1. UNCHANGED <<rpending, joinok>>
  BY AppFrame, SMT
<1>2. \A p : JoinWaiting(p)' <=> JoinWaiting(p)
  BY <1>1 DEF JoinWaiting
<1>3. CASE AppMoves(r, l)
  <2>1. SameSlots(NMaxThread) /\ SameDetached(NMaxThread)
    BY <1>3 DEF AppMoves, OnlyRet, SameSlots, SameDetached
  <2> QED
    BY <1>1, <1>2, <2>1, QuietRefines, SMT
<1>4. CASE dthreadwrap(r, l)
  <2>1. gtab \in Gtab /\ ltab[r][l].gtab_idx \in Slots
    BY SMT DEF TypeOK, Gtab, LtabEntry
  <2>2. Hooked(ltab[r][l].gtab_idx, l)
    BY <1>4, <2>1, HookTable DEF dthreadwrap
  <2> QED
    BY <1>1, <1>2, <2>2, QuietRefines DEF Hooked
<1> QED
  BY <1>3, <1>4, AppEffect, SMT

\* Nor does process_req_forward, which only draws a seq for its request.
LEMMA ForwardRefines ==
    ASSUME TypeOK, TypeOK', [Next]_vars, NEW r \in Ranks, process_req_forward(r)
    PROVE  Refines
<1>1. UNCHANGED <<gtab, joinok>>
  BY DEF process_req_forward, history
<1>2. app[r][Head(mgrreqq[r])].op \in Requests
  BY DEF process_req_forward, HasRequest
<1>3. \/ rpending' = rpending
      \/ \E p : /\ p.op = app[r][Head(mgrreqq[r])].op
                /\ rpending' = [rpending EXCEPT ![r] = @ \cup {p}]
  BY ZenonT(30) DEF process_req_forward, pending
<1>4. \A p : JoinWaiting(p)' <=> JoinWaiting(p)
  <2>1. 0 \in Ranks
    BY ZeroInRange, SMT
  <2>2. "JOINWAIT" \notin Requests
    BY SMT DEF Requests
  <2>3. \/ rpending'[0] = rpending[0]
        \/ \E p : p.op # "JOINWAIT" /\ rpending'[0] = rpending[0] \cup {p}
    <3>1. CASE rpending' = rpending
      BY <3>1, SMT
    <3>2. CASE rpending' # rpending
      <4>1. PICK p : /\ p.op = app[r][Head(mgrreqq[r])].op
                     /\ rpending' = [rpending EXCEPT ![r] = @ \cup {p}]
        BY <1>3, <3>2
      <4>2. p.op # "JOINWAIT"
        BY <1>2, <2>2, <4>1
      <4> QED
        BY <2>1, <4>1, <4>2 DEF TypeOK
    <3> QED
      BY <3>1, <3>2, SMT
  <2> QED
    BY <2>3, SMT DEF JoinWaiting
<1> QED
  BY <1>1, <1>4, TableRefines, SMT

\* Nor does process_req_retclean: the thread ends when TERMINATED is handled.
LEMMA RetcleanRefines ==
    ASSUME TypeOK, TypeOK', [Next]_vars, NEW r \in Ranks, process_req_retclean(r)
    PROVE  Refines
<1>1. UNCHANGED <<rpending, joinok>>
  BY MgrFrame
<1>2. \A p : JoinWaiting(p)' <=> JoinWaiting(p)
  BY <1>1, SMT DEF JoinWaiting
<1>3. \/ gtab' = gtab
      \/ \E k : gtab' = [gtab EXCEPT ![k].has_ltab = FALSE]
  BY ZenonT(30) DEF process_req_retclean
<1>4. SameSlots(NMaxThread) /\ SameDetached(NMaxThread)
  <2>1. ASSUME NEW k, gtab' = [gtab EXCEPT ![k].has_ltab = FALSE], NEW g \in Slots
        PROVE  /\ gtab'[g].allocated = gtab[g].allocated /\ gtab'[g].seq = gtab[g].seq
               /\ gtab'[g].rank = gtab[g].rank /\ gtab'[g].detached = gtab[g].detached
               /\ gtab'[g].terminated = gtab[g].terminated
    BY <2>1, ZenonT(60) DEF TypeOK, GtabEntry
  <2>2. CASE gtab' = gtab
    BY <2>2, SMT DEF SameSlots, SameDetached
  <2>3. CASE gtab' # gtab
    BY <1>3, <2>1, <2>3, SMT DEF SameSlots, SameDetached
  <2> QED
    BY <2>2, <2>3, SMT
<1> QED
  BY <1>1, <1>2, <1>4, QuietRefines, SMT

-----------------------------------------------------------------------------
(* What manager 0's handlers do to its tables, case by case *)

\* create_thread while draining, and create_thread of thread h in slot g.
CreateDrains(s, g) ==
    /\ \E e \in GtabEntry : gtab' = [gtab EXCEPT ![g] = gtab_free(e)]
    /\ net' = dtq_send_enqueue(Received(s, 0), 0, s,
                  Answer("CREATED", Head(net[s][0]).xid, "EIO", NoData))
    /\ mgr0' = [mgr0 EXCEPT !.last_slot = g, !.next_rank = NextRank]
    /\ UNCHANGED <<rpending, detattr>>

Creates(s, h) ==
    /\ h.seq = seqsrc[0]
    /\ gtab' = [gtab EXCEPT ![h.idx] = gtab_alloc(gtab[h.idx], mgr0.next_rank, seqsrc[0])]
    /\ net' = dtq_send_enqueue(Received(s, 0), 0, mgr0.next_rank,
                  message("START", seqsrc[0] + NRanks, h, "OK", NoData))
    /\ mgr0' = [mgr0 EXCEPT !.last_slot = h.idx, !.next_rank = NextRank,
                            !.threads_alloc = @ + 1, !.threads_starting = @ + 1]
    /\ rpending' = [rpending EXCEPT ![0] = @ \cup
                       {pending("START", seqsrc[0] + NRanks, Head(net[s][0]).xid,
                                NMaxThread, h, s)}]

\* create_thread takes a free slot, or gives it back when rank 0 drains.
LEMMA CreateEffect ==
    ASSUME TypeOK, NEW s \in Ranks, create_thread(s)
    PROVE  /\ net[s][0] # <<>> /\ Head(net[s][0]).op = "CREATE"
           /\ UNCHANGED <<ltab, app, mgrreqq, mgrstate, calls, known, joinok, results, asked>>
           /\ seqsrc' = [seqsrc EXCEPT ![0] = @ + 2 * NRanks]
           /\ \E g \in Slots : /\ ~gtab[g].allocated
                               /\ \/ CreateDrains(s, g)
                                  \/ \E h \in Handle : h.idx = g /\ Creates(s, h)
<1> 0 \in Ranks /\ gtab \in Gtab
  BY ZeroInRange DEF TypeOK, Gtab
<1> seqsrc[0] \in Nat /\ mgr0.next_rank \in Ranks
  BY DEF TypeOK, Mgr0
<1>1. /\ net[s][0] # <<>> /\ Head(net[s][0]).op = "CREATE"
      /\ UNCHANGED <<ltab, app, mgrreqq, mgrstate, calls, known, joinok, results, asked>>
      /\ seqsrc' = [seqsrc EXCEPT ![0] = @ + 2 * NRanks]
  BY DEF create_thread, HasMessage
<1>2. PICK g \in Slots : ScanFinds(FreeSlots, mgr0.last_slot, g) /\ create_thread_at(s, g)
  BY DEF create_thread
<1>3. ~gtab[g].allocated /\ gtab[g] \in GtabEntry
  BY <1>2, SMT DEF ScanFinds, FreeSlots, Gtab
<1>4. PICK e \in GtabEntry : e = gtab_alloc(gtab[g], mgr0.next_rank, seqsrc[0])
  BY <1>3, BornEntry DEF FreshEntry
<1>6. CASE draining(0)
  <2>1. CreateDrains(s, g)
    BY <1>2, <1>4, <1>6, ZenonT(30) DEF create_thread_at, CreateFailed, Answer, CreateDrains
  <2> QED
    BY <1>1, <1>3, <2>1
<1>7. CASE ~draining(0)
  <2>h. PICK h : h = [idx |-> g, seq |-> seqsrc[0]]
    OBVIOUS
  <2>2. h \in Handle /\ h.idx = g /\ h.seq = seqsrc[0]
    BY <2>h, SMT DEF Handle, Slots
  <2>3. Creates(s, h)
    BY <1>2, <1>7, <2>h, <2>2, ZenonT(60) DEF create_thread_at, Creates
  <2> QED
    BY <1>1, <1>3, <2>2, <2>3
<1> QED
  BY <1>6, <1>7

\* process_started answers START request p with err.
StartedWith(s, p, err) ==
    /\ Starts(s, p) /\ err \in Errors /\ err = Head(net[s][0]).errstatus
    /\ rpending' = [rpending EXCEPT ![0] = @ \ {p}]
    /\ net' = dtq_send_enqueue(Received(s, 0), 0, p.peer,
                  message("CREATED", p.cxid,
                          IF err = "OK" THEN p.thread ELSE NoThread, err, NoData))
    /\ gtab' = IF err = "OK" THEN gtab
               ELSE [gtab EXCEPT ![p.thread.idx] = gtab_free(@)]
    /\ mgr0' = StartedCounts(err = "OK")
    /\ err # "OK" => Unhooked(p.thread) /\ p.thread \notin known

\* process_started answers the CREATE that its START was sent for.
LEMMA StartedEffect ==
    ASSUME TypeOK, LifeInv, NEW s \in Ranks, process_started(s)
    PROVE  /\ UNCHANGED <<ltab, app, mgrreqq, mgrstate, seqsrc, calls, known, history>>
           /\ \E p, err : StartedWith(s, p, err)
<1>0. net \in Net /\ 0 \in Ranks
  BY ZeroInRange DEF TypeOK, Net
<1>1. /\ net[s][0] # <<>> /\ Head(net[s][0]).op = "STARTED"
      /\ UNCHANGED <<ltab, app, mgrreqq, mgrstate, seqsrc, calls, known, history>>
  BY DEF process_started, HasMessage
<1>2. PICK p : /\ StartPending(p) /\ p.xid = Head(net[s][0]).xid
               /\ find_pending_msgreq(0, "START", Head(net[s][0]).xid) = {p}
               /\ Head(net[s][0]).errstatus # "OK" =>
                     Unhooked(p.thread) /\ p.thread \notin known
  BY <1>1, StartedRequest
<1>3. Starts(s, p)
  BY <1>1, <1>2 DEF Starts
<1>4. PICK err \in Errors : err = Head(net[s][0]).errstatus
  <2>1. Head(net[s][0]) \in Msg
    BY <1>0, <1>1, HeadFacts
  <2> QED
    BY <2>1 DEF Msg
<1>5. (CHOOSE q \in {p} : TRUE) = p
  BY SMT
<1>6. /\ rpending' = [rpending EXCEPT ![0] = @ \ {p}]
      /\ net' = dtq_send_enqueue(Received(s, 0), 0, p.peer,
                    message("CREATED", p.cxid,
                        IF err = "OK" THEN p.thread ELSE NoThread, err, NoData))
      /\ gtab' = IF err = "OK" THEN gtab
                 ELSE [gtab EXCEPT ![p.thread.idx] = gtab_free(@)]
      /\ mgr0' = StartedCounts(err = "OK")
  BY <1>2, <1>4, <1>5, ZenonT(60) DEF process_started
<1>7. StartedWith(s, p, err)
  BY <1>2, <1>3, <1>4, <1>6 DEF StartedWith
<1> QED
  BY <1>1, <1>7

\* detach_thread of an unknown thread, and of thread h.
DetachMisses(s) ==
    /\ net' = dtq_send_enqueue(Received(s, 0), 0, s,
                  Answer("DETACHED", Head(net[s][0]).xid, "ESRCH", NoData))
    /\ UNCHANGED <<gtab, rpending>>

Detaches(s, h) ==
    /\ dthread_dt2gtab(h)
    /\ gtab' = [gtab EXCEPT ![h.idx].detached = TRUE]
    /\ rpending' = [rpending EXCEPT ![0] = @ \ joinwait_search(h)]
    /\ net' = joinwait_end_release(
                  dtq_send_enqueue(Received(s, 0), 0, s,
                      Answer("DETACHED", Head(net[s][0]).xid, "OK", NoData)),
                  joinwait_search(h), "EINVAL", NoData)

\* detach_thread answers ESRCH, or detaches and releases the waiting joiner.
LEMMA DetachEffect ==
    ASSUME TypeOK, NEW s \in Ranks, detach_thread(s)
    PROVE  /\ UNCHANGED <<ltab, app, mgrreqq, mgrstate, mgr0, seqsrc, calls, known, history>>
           /\ \E h \in Handle : Asks(s, "DETACH", h) /\ (DetachMisses(s) \/ Detaches(s, h))
<1> net \in Net /\ 0 \in Ranks
  BY ZeroInRange DEF TypeOK, Net
<1>1. /\ net[s][0] # <<>> /\ Head(net[s][0]).op = "DETACH"
      /\ UNCHANGED <<ltab, app, mgrreqq, mgrstate, mgr0, seqsrc, calls, known, history>>
  BY DEF detach_thread, HasMessage
<1>2. PICK h : h = Head(net[s][0]).thread
  BY SMT
<1>3. h \in Handle /\ Asks(s, "DETACH", h)
  <2>1. Head(net[s][0]) \in Msg
    BY <1>1, HeadFacts
  <2> QED
    BY <1>1, <1>2, <2>1 DEF Msg, Asks
<1>4. CASE dthread_dt2gtab(h)
  <2>1. Detaches(s, h)
    BY <1>2, <1>4, ZenonT(60) DEF detach_thread, Detaches, Answer
  <2> QED
    BY <1>1, <1>3, <2>1
<1>5. CASE ~dthread_dt2gtab(h)
  <2>1. /\ rpending' = [rpending EXCEPT ![0] = @ \ {}]
        /\ gtab' = gtab
        /\ net' = joinwait_end_release(
                      dtq_send_enqueue(Received(s, 0), 0, s,
                          Answer("DETACHED", Head(net[s][0]).xid, "ESRCH", NoData)),
                      {}, "EINVAL", NoData)
    BY <1>2, <1>5, ZenonT(60) DEF detach_thread, Answer
  <2>2. DetachMisses(s)
    BY <2>1 DEF DetachMisses, joinwait_end_release, TypeOK
  <2> QED
    BY <1>1, <1>3, <2>2
<1> QED
  BY <1>4, <1>5

\* join_thread refuses, answers from a zombie, or lets the caller wait.
JoinRefused(s) ==
    /\ \E err \in {"ESRCH", "EINVAL", "ENOMEM"} :
          net' = dtq_send_enqueue(Received(s, 0), 0, s,
                     Answer("JOINED", Head(net[s][0]).xid, err, NoData))
    /\ UNCHANGED <<gtab, rpending, mgr0, joinok>>

JoinTakes(s, h) ==
    /\ dthread_dt2gtab(h) /\ ~gtab[h.idx].detached
    /\ ~LT_NEED_FINALSTATE(gtab[h.idx].terminated)
    /\ net' = dtq_send_enqueue(Received(s, 0), 0, s,
                  Answer("JOINED", Head(net[s][0]).xid, "OK", gtab[h.idx].ret))
    /\ gtab' = [gtab EXCEPT ![h.idx] = gtab_free(gtab[h.idx])]
    /\ mgr0' = [mgr0 EXCEPT !.threads_alloc = @ - 1]
    /\ joinok' = joinok \cup {[thread |-> h, xid |-> Head(net[s][0]).xid]}
    /\ UNCHANGED rpending

JoinWaits(s, h) ==
    /\ dthread_dt2gtab(h) /\ ~gtab[h.idx].detached
    /\ LT_NEED_FINALSTATE(gtab[h.idx].terminated)
    /\ joinwait_search(h) = {}
    /\ net' = Received(s, 0)
    /\ rpending' = [rpending EXCEPT ![0] = @ \cup
                       {pending("JOINWAIT", Head(net[s][0]).xid, 0, NMaxThread, h, s)}]
    /\ UNCHANGED <<gtab, mgr0, joinok>>

\* join_thread refuses, takes the value of an ended thread, or waits.
LEMMA JoinEffect ==
    ASSUME TypeOK, NEW s \in Ranks, join_thread(s)
    PROVE  /\ UNCHANGED <<ltab, app, mgrreqq, mgrstate, seqsrc, calls, known, results,
                          asked, detattr>>
           /\ \E h \in Handle : /\ Asks(s, "JOIN", h)
                                /\ JoinRefused(s) \/ JoinTakes(s, h) \/ JoinWaits(s, h)
<1>0. net \in Net /\ 0 \in Ranks
  BY ZeroInRange DEF TypeOK, Net
<1>1. /\ net[s][0] # <<>> /\ Head(net[s][0]).op = "JOIN"
      /\ UNCHANGED <<ltab, app, mgrreqq, mgrstate, seqsrc, calls, known, results,
                     asked, detattr>>
  BY DEF join_thread, HasMessage
<1>2. PICK h : h = Head(net[s][0]).thread
  BY SMT
<1>3. h \in Handle /\ Asks(s, "JOIN", h)
  <2>1. Head(net[s][0]) \in Msg
    BY <1>0, <1>1, HeadFacts
  <2> QED
    BY <1>1, <1>2, <2>1 DEF Msg, Asks
<1>4. JoinRefused(s) \/ JoinTakes(s, h) \/ JoinWaits(s, h)
  BY <1>2, ZenonT(60) DEF join_thread, Answer, JoinRefused, JoinTakes, JoinWaits
<1> QED
  BY <1>1, <1>3, <1>4

\* terminated_thread of h: its slot goes, if someone waits or nobody will, or
\* becomes a zombie.
Ends(s, h, v, waiting, done) ==
    /\ Asks(s, "TERMINATED", h) /\ h \in Handle /\ Unhooked(h) /\ v \in FinalStates
    /\ waiting = joinwait_search(h) /\ done \in BOOLEAN
    /\ done <=> gtab[h.idx].detached \/ waiting # {}
    /\ gtab' = [gtab EXCEPT ![h.idx] = IF done THEN gtab_free(Zombie(gtab[h.idx], v))
                                               ELSE Zombie(gtab[h.idx], v)]
    /\ mgr0' = [mgr0 EXCEPT !.threads_running = @ - 1,
                            !.threads_alloc = IF done THEN @ - 1 ELSE @]
    /\ rpending' = [rpending EXCEPT ![0] = @ \ waiting]
    /\ net' = joinwait_end_release(Received(s, 0), waiting,
                  IF gtab[h.idx].detached THEN "EINVAL" ELSE "OK", gtab[h.idx].ret)
    /\ joinok' = joinok \cup {[thread |-> h, xid |-> p.xid] :
                                 p \in IF gtab[h.idx].detached THEN {} ELSE waiting}

\* terminated_thread makes a zombie, and frees it if detached or joined.
LEMMA TerminatedEffect ==
    ASSUME TypeOK, LifeInv, NEW s \in Ranks, terminated_thread(s)
    PROVE  /\ UNCHANGED <<ltab, app, mgrreqq, mgrstate, seqsrc, calls, known, results,
                          asked, detattr>>
           /\ \E h, v, waiting, done : Ends(s, h, v, waiting, done)
<1>h. PICK h : h = Head(net[s][0]).thread
  BY SMT
<1>v. PICK v : v = Head(net[s][0]).finalstate
  BY SMT
<1>w. PICK waiting : waiting = joinwait_search(h)
  BY SMT
<1>1. /\ net[s][0] # <<>> /\ Head(net[s][0]).op = "TERMINATED"
      /\ UNCHANGED <<ltab, app, mgrreqq, mgrstate, seqsrc, calls, known, results,
                     asked, detattr>>
  BY DEF terminated_thread, HasMessage
<1>2. Asks(s, "TERMINATED", h)
  BY <1>1, <1>h DEF Asks
<1>3. h \in Handle /\ Unhooked(h) /\ v \in FinalStates
  BY <1>2, <1>v, TerminatedClear
<1>4. h.idx \in Slots /\ gtab[h.idx].seq = h.seq /\ v # "RUNNING"
  BY <1>3 DEF Unhooked, Unended, dthread_dt2gtab, FinalStates
<1>5. PICK done \in BOOLEAN : done <=> gtab[h.idx].detached \/ waiting # {}
  OBVIOUS
<1>6. /\ gtab' = [gtab EXCEPT ![h.idx] = IF done THEN gtab_free(Zombie(gtab[h.idx], v))
                                                 ELSE Zombie(gtab[h.idx], v)]
      /\ mgr0' = [mgr0 EXCEPT !.threads_running = @ - 1,
                              !.threads_alloc = IF done THEN @ - 1 ELSE @]
      /\ rpending' = [rpending EXCEPT ![0] = @ \ waiting]
      /\ net' = joinwait_end_release(Received(s, 0), waiting,
                    IF gtab[h.idx].detached THEN "EINVAL" ELSE "OK", gtab[h.idx].ret)
      /\ joinok' = joinok \cup {[thread |-> h, xid |-> p.xid] :
                                   p \in IF gtab[h.idx].detached THEN {} ELSE waiting}
  BY <1>4, <1>5, <1>h, <1>v, <1>w, ZenonT(60) DEF terminated_thread, Zombie
<1>7. Ends(s, h, v, waiting, done)
  BY <1>2, <1>3, <1>5, <1>6, <1>w DEF Ends
<1> QED
  BY <1>1, <1>7

-----------------------------------------------------------------------------
(* Each handler of manager 0 is a step of ThreadLife *)

\* create_thread is Create, or a Tick.
LEMMA CreateRefines ==
    ASSUME TypeOK, TypeOK', [Next]_vars, LifeInv, NEW s \in Ranks, create_thread(s)
    PROVE  Refines
<1> 0 \in Ranks /\ gtab \in Gtab /\ seqsrc[0] \in Nat /\ mgr0.next_rank \in Ranks
  BY ZeroInRange DEF TypeOK, Gtab, Mgr0
<1>1. joinok' = joinok /\ seqsrc' = [seqsrc EXCEPT ![0] = @ + 2 * NRanks]
  BY CreateEffect
<1>2. PICK g \in Slots : /\ ~gtab[g].allocated
                         /\ \/ CreateDrains(s, g)
                            \/ \E h \in Handle : h.idx = g /\ Creates(s, h)
  BY CreateEffect
<1>3. CASE CreateDrains(s, g)
  <2>1. PICK e \in GtabEntry : gtab' = [gtab EXCEPT ![g] = gtab_free(e)]
    BY <1>3 DEF CreateDrains
  <2>2. SameEntries(g) /\ SlotFreed(g)
    BY <2>1, FreeEffect
  <2>3. gtab[g].seq = 0 /\ gtab[g] \in GtabEntry
    BY <1>2 DEF LifeInv, SlotInv, Gtab
  <2>4. \A k \in Slots : SlotKept(k)
    <3>1. gtab[g].allocated \in BOOLEAN /\ gtab'[g].allocated \in BOOLEAN
      BY DEF TypeOK, GtabEntry
    <3>2. SlotKept(g)
      BY <1>2, <2>2, <2>3, <3>1 DEF SlotFreed, SlotKept
    <3> QED
      BY <2>2, <3>2 DEF SameEntries, SlotKept
  <2>5. Allocated' = Allocated
    BY <2>4, AllocatedKept
  <2>6. ASSUME NEW h \in Allocated PROVE Standing(h)' = Standing(h)
    <3>1. h.idx \in Slots /\ gtab[h.idx].allocated
      BY AllocatedValid, SMT DEF ValidAllocated, dthread_dt2gtab
    <3>2. gtab'[h.idx] = gtab[h.idx]
      BY <1>2, <2>2, <3>1 DEF SameEntries
    <3>3. WaitKept(h)
      BY <1>3 DEF CreateDrains, WaitKept, JoinWaiting
    <3> QED
      BY <3>2, <3>3, StandingKept
  <2>7. Threads' = Threads
    BY <2>5, <2>6, ThreadsKept
  <2> QED
    BY <1>1, <2>7, TickRefines
<1>4. ASSUME NEW h \in Handle, h.idx = g, Creates(s, h)
      PROVE  Refines
  <2>1. gtab[g] \in GtabEntry
    BY DEF Gtab
  <2>f. PICK e : /\ e = gtab_alloc(gtab[g], mgr0.next_rank, seqsrc[0])
                 /\ FreshEntry(e, mgr0.next_rank, seqsrc[0])
    BY <2>1, BornEntry
  <2>2. /\ e.allocated /\ e.seq = seqsrc[0] /\ e.terminated = "NONE" /\ ~e.detached
        /\ e \in GtabEntry
    BY <2>f DEF FreshEntry
  <2>3. gtab'[g] = e /\ SameEntries(g)
    <3>1. gtab' = [gtab EXCEPT ![g] = e]
      BY <1>4, <2>f DEF Creates
    <3> QED
      BY <3>1 DEF Gtab, SameEntries
  <2>4. h.seq = seqsrc[0]
    BY <1>4 DEF Creates
  <2>5. Allocated' = Allocated \cup {h} /\ h \notin Allocated
    BY <1>2, <1>4, <2>2, <2>3, <2>4, AllocatedMore
  <2>6. PICK p : /\ p.op = "START" /\ rpending' = [rpending EXCEPT ![0] = @ \cup {p}]
    <3>1. PICK p : p = pending("START", seqsrc[0] + NRanks, Head(net[s][0]).xid,
                               NMaxThread, h, s)
      OBVIOUS
    <3>2. p.op = "START"
      BY <3>1 DEF pending
    <3> QED
      BY <1>4, <3>1, <3>2 DEF Creates
  <2>7. \A x : WaitKept(x)
    <3>1. rpending'[0] = rpending[0] \cup {p}
      BY <2>6 DEF TypeOK
    <3> QED
      BY <2>6, <3>1 DEF WaitKept, JoinWaiting
  <2>8. \A x \in Allocated \ {h} : Standing(x)' = Standing(x)
    BY <1>2, <1>4, <2>3, <2>7, OtherStandings
  <2>9. Standing(h)' = Life!Fresh
    <3>1. joinwait_search(h)' = {}
      <4>1. joinwait_search(h)' = joinwait_search(h)
        BY <2>7, WaitedKept
      <4>2. \A q \in joinwait_search(h) : dthread_dt2gtab(h)
        BY DEF LifeInv, JoinWaitHasFuture, joinwait_search
      <4>3. ~dthread_dt2gtab(h)
        BY <1>2, <1>4 DEF dthread_dt2gtab
      <4> QED
        BY <4>1, <4>2, <4>3, SMT
    <3>2. gtab'[h.idx].terminated = "NONE" /\ gtab'[h.idx].detached = FALSE
      BY <1>4, <2>2, <2>3 DEF GtabEntry
    <3> QED
      BY <3>1, <3>2 DEF Standing, Life!Fresh, LT_NEED_FINALSTATE
  <2>10. Threads' = [x \in DOMAIN Threads \cup {h} |->
                        IF x = h THEN Life!Fresh ELSE Threads[x]]
    BY <2>5, <2>8, <2>9, ThreadsMore
  <2>11. h \in DOMAIN Threads' \ DOMAIN Threads
    BY <2>5, SMT DEF Threads
  <2>12. h.seq >= seqsrc[0] /\ h.seq < seqsrc'[0]
    <3>1. seqsrc'[0] = seqsrc[0] + 2 * NRanks
      BY <1>1 DEF TypeOK
    <3> QED
      BY <2>4, <3>1, NRanksAssumption, SMT
  <2>13. Joined' = Joined
    BY <1>1 DEF Joined
  <2>14. Life!Create
    BY <2>10, <2>11, <2>12, <2>13 DEF Life!Create
  <2> QED
    BY <2>14, SMT DEF Refines, Life!Next
<1> QED
  BY <1>2, <1>3, <1>4, SMT

\* process_started leaves the threads alone, or is CreateFails.
LEMMA StartedRefines ==
    ASSUME TypeOK, TypeOK', [Next]_vars, LifeInv, NEW s \in Ranks, process_started(s)
    PROVE  Refines
<1> 0 \in Ranks /\ gtab \in Gtab
  BY ZeroInRange DEF TypeOK, Gtab
<1>1. UNCHANGED <<joinok, seqsrc>>
  BY StartedEffect DEF history
<1>2. PICK p, err : StartedWith(s, p, err)
  BY StartedEffect
<1>3. /\ StartPending(p) /\ rpending' = [rpending EXCEPT ![0] = @ \ {p}]
      /\ gtab' = IF err = "OK" THEN gtab ELSE [gtab EXCEPT ![p.thread.idx] = gtab_free(@)]
      /\ err # "OK" => Unhooked(p.thread) /\ p.thread \notin known
  BY <1>2 DEF StartedWith, Starts
<1>4. \A q : JoinWaiting(q)' <=> JoinWaiting(q)
  <2>1. rpending'[0] = rpending[0] \ {p}
    BY <1>3 DEF TypeOK
  <2> QED
    BY <1>3, <2>1 DEF JoinWaiting, StartPending
<1>5. CASE err = "OK"
  BY <1>1, <1>3, <1>4, <1>5, TableRefines
<1>6. CASE err # "OK"
  <2> DEFINE h == p.thread
  <2>1. h \in Handle /\ dthread_dt2gtab(h) /\ gtab[h.idx].terminated = "NONE" /\ h \notin known
    BY <1>3, <1>6, StartFacts DEF LifeInv
  <2>2. h.idx \in Slots /\ gtab[h.idx].allocated /\ gtab[h.idx] \in GtabEntry
    BY <2>1 DEF dthread_dt2gtab, Gtab
  <2>3. gtab' = [gtab EXCEPT ![h.idx] = gtab_free(gtab[h.idx])]
    BY <1>3, <1>6
  <2>4. SameEntries(h.idx) /\ SlotFreed(h.idx)
    BY <2>2, <2>3, FreeEffect
  <2>5. Allocated' = Allocated \ {h} /\ h \in Allocated
    BY <2>1, <2>4, AllocatedLess, AllocatedValid DEF SlotFreed, ValidAllocated
  <2>6. \A x \in Allocated \ {h} : Standing(x)' = Standing(x)
    BY <1>4, <2>1, <2>4, OtherStandings DEF WaitKept
  <2>7. Threads' = Life!Without(h)
    BY <2>5, <2>6, ThreadsLess, SMT
  <2>8. Threads[h] = Life!Fresh
    <3>1. h = [idx |-> h.idx, seq |-> gtab[h.idx].seq]
      BY <2>1 DEF dthread_dt2gtab, Handle
    <3>2. ~gtab[h.idx].detached
      BY <2>1, <2>2, <3>1, SMT DEF LifeInv, KnownInv
    <3>3. joinwait_search(h) = {}
      BY <2>1 DEF LifeInv, KnownInv, joinwait_search
    <3> QED
      BY <2>1, <2>2, <2>5, <3>2, <3>3
         DEF Threads, Standing, Life!Fresh, LT_NEED_FINALSTATE, GtabEntry
  <2>9. Life!CreateFails(h)
    BY <1>1, <2>7, <2>8 DEF Life!CreateFails, Joined
  <2> QED
    BY <2>5, <2>9 DEF Refines, Life!Next, Threads
<1> QED
  BY <1>5, <1>6, SMT

\* Changes of a thread's standing.
Stand == [ended : BOOLEAN, detached : BOOLEAN, waited : BOOLEAN]

\* How a thread stands is well typed, and follows the detached field.
LEMMA StandingIs ==
    ASSUME NEW h, gtab[h.idx].detached \in BOOLEAN, gtab'[h.idx].detached \in BOOLEAN
    PROVE  /\ Standing(h) \in Stand /\ Standing(h)' \in Stand
           /\ Standing(h).detached = gtab[h.idx].detached
           /\ Standing(h)'.detached = gtab'[h.idx].detached
BY DEF Standing, Stand

\* Whether a thread is waited for follows the joiners.
LEMMA WaitedIs ==
    ASSUME NEW h
    PROVE  /\ joinwait_search(h) = {} => Standing(h).waited = FALSE
           /\ joinwait_search(h)' = {} => Standing(h)'.waited = FALSE
           /\ joinwait_search(h)' # {} => Standing(h)'.waited = TRUE
           /\ joinwait_search(h)' = joinwait_search(h)
                  => Standing(h)'.waited = Standing(h).waited
BY DEF Standing

\* Whether a thread has ended follows the terminated field.
LEMMA EndedIs ==
    ASSUME NEW h
    PROVE  /\ LT_NEED_FINALSTATE(gtab[h.idx].terminated) => Standing(h).ended = FALSE
           /\ LT_NEED_FINALSTATE(gtab'[h.idx].terminated) => Standing(h)'.ended = FALSE
           /\ ~LT_NEED_FINALSTATE(gtab'[h.idx].terminated) => Standing(h)'.ended = TRUE
           /\ gtab'[h.idx].terminated = gtab[h.idx].terminated
                  => Standing(h)'.ended = Standing(h).ended
BY DEF Standing

\* The standing that Detach leaves.
LEMMA StandingDetached ==
    ASSUME NEW s \in Stand, NEW t \in Stand,
           t.ended = s.ended, t.detached = TRUE, t.waited = FALSE
    PROVE  t = [s EXCEPT !.detached = TRUE, !.waited = FALSE]
BY DEF Stand

\* The standing that JoinWait leaves.
LEMMA StandingWaited ==
    ASSUME NEW s \in Stand, NEW t \in Stand,
           t.ended = s.ended, t.detached = s.detached, t.waited = TRUE
    PROVE  t = [s EXCEPT !.waited = TRUE]
BY SMT DEF Stand

\* The standing that End leaves when the thread is kept.
LEMMA StandingEnded ==
    ASSUME NEW s \in Stand, NEW t \in Stand,
           t.ended = TRUE, t.detached = s.detached, t.waited = s.waited
    PROVE  t = [s EXCEPT !.ended = TRUE]
BY SMT DEF Stand

\* The standing of a new thread.
LEMMA StandingFresh ==
    ASSUME NEW s \in Stand, s.ended = FALSE, s.detached = FALSE, s.waited = FALSE
    PROVE  s = Life!Fresh
BY SMT DEF Stand, Life!Fresh

\* A step that changes how one thread stands.
LEMMA ThreadsSet ==
    ASSUME NEW h \in Allocated, Allocated' = Allocated,
           \A x \in Allocated \ {h} : Standing(x)' = Standing(x)
    PROVE  Threads' = [Threads EXCEPT ![h] = Standing(h)']
BY DEF Threads

\* Slot h.idx keeps its thread.
LEMMA HolderKept ==
    ASSUME TypeOK, TypeOK', NEW h \in Handle, dthread_dt2gtab(h), SameEntries(h.idx),
           gtab'[h.idx].allocated, gtab'[h.idx].seq = gtab[h.idx].seq
    PROVE  Allocated' = Allocated /\ h \in Allocated
<1>1. \A x \in Handle : dthread_dt2gtab(x)' <=> dthread_dt2gtab(x)
  BY DEF dthread_dt2gtab, SameEntries
<1>2. ValidAllocated
  BY AllocatedValid
<1>3. ValidAllocated'
  BY AllocatedValid, PTL
<1> QED
  BY <1>1, <1>2, <1>3 DEF ValidAllocated

\* detach_thread is Detach, or leaves the threads alone.
LEMMA DetachRefines ==
    ASSUME TypeOK, TypeOK', [Next]_vars, LifeInv, NEW s \in Ranks, detach_thread(s)
    PROVE  Refines
<1> 0 \in Ranks /\ gtab \in Gtab
  BY ZeroInRange, SMT DEF TypeOK, Gtab
<1>1. UNCHANGED <<joinok, seqsrc>>
  BY DetachEffect DEF history
<1>2. PICK h \in Handle : DetachMisses(s) \/ Detaches(s, h)
  BY DetachEffect
<1>3. CASE DetachMisses(s)
  <2>1. UNCHANGED <<gtab, rpending>>
    BY <1>3 DEF DetachMisses
  <2> QED
    BY <1>1, <2>1, TableRefines DEF JoinWaiting
<1>4. CASE Detaches(s, h)
  <2>1. /\ dthread_dt2gtab(h) /\ gtab' = [gtab EXCEPT ![h.idx].detached = TRUE]
        /\ rpending' = [rpending EXCEPT ![0] = @ \ joinwait_search(h)]
    BY <1>4 DEF Detaches
  <2>2. /\ SameEntries(h.idx) /\ gtab'[h.idx].allocated
        /\ gtab'[h.idx].seq = gtab[h.idx].seq /\ gtab'[h.idx].detached = TRUE
        /\ gtab'[h.idx].terminated = gtab[h.idx].terminated
    BY <2>1 DEF SameEntries, dthread_dt2gtab, Gtab, GtabEntry
  <2>3. rpending'[0] = rpending[0] \ joinwait_search(h)
    BY <2>1 DEF TypeOK
  <2>4. \A x : x # h => WaitKept(x)
    BY <2>3 DEF WaitKept, JoinWaiting, joinwait_search
  <2>5. joinwait_search(h)' = {}
    BY <2>3 DEF joinwait_search
  <2>6. Allocated' = Allocated /\ h \in Allocated
    BY <2>1, <2>2, HolderKept
  <2>7. \A x \in Allocated \ {h} : Standing(x)' = Standing(x)
    BY <2>1, <2>2, <2>4, OtherStandings
  <2>8. Standing(h)' = [Standing(h) EXCEPT !.detached = TRUE, !.waited = FALSE]
    <3> gtab[h.idx].detached \in BOOLEAN
      BY <2>1 DEF Gtab, GtabEntry, dthread_dt2gtab
    <3> gtab'[h.idx].detached \in BOOLEAN
      BY <2>2
    <3>4. Standing(h) \in Stand /\ Standing(h)' \in Stand
      BY StandingIs, SMT
    <3>5. Standing(h)'.ended = Standing(h).ended
      BY <2>2, EndedIs
    <3>6. Standing(h)'.detached = TRUE
      BY <2>2, StandingIs, SMT
    <3>7. Standing(h)'.waited = FALSE
      BY <2>5, WaitedIs
    <3> QED
      BY <3>4, <3>5, <3>6, <3>7, StandingDetached
  <2>9. Threads' = [Threads EXCEPT ![h] = Standing(h)']
    BY <2>6, <2>7, ThreadsSet
  <2>10. Threads' = [Threads EXCEPT ![h].detached = TRUE, ![h].waited = FALSE]
    BY <2>6, <2>8, <2>9 DEF Threads
  <2>11. Life!Detach(h)
    BY <1>1, <2>10, SMT DEF Life!Detach, Joined
  <2> QED
    BY <2>6, <2>11 DEF Refines, Life!Next, Threads
<1> QED
  BY <1>2, <1>3, <1>4, SMT

\* join_thread is Join or JoinWait, or leaves the threads alone.
LEMMA JoinRefines ==
    ASSUME TypeOK, TypeOK', [Next]_vars, LifeInv, NEW s \in Ranks, join_thread(s)
    PROVE  Refines
<1> 0 \in Ranks /\ gtab \in Gtab
  BY ZeroInRange, SMT DEF TypeOK, Gtab
<1>1. UNCHANGED seqsrc
  BY JoinEffect
<1>2. PICK h \in Handle : JoinRefused(s) \/ JoinTakes(s, h) \/ JoinWaits(s, h)
  BY JoinEffect
<1>3. CASE JoinRefused(s)
  <2>1. UNCHANGED <<gtab, rpending, joinok>>
    BY <1>3 DEF JoinRefused
  <2> QED
    BY <2>1, TableRefines, SMT DEF JoinWaiting
<1>4. CASE JoinTakes(s, h)
  <2>1. /\ dthread_dt2gtab(h) /\ ~gtab[h.idx].detached
        /\ ~LT_NEED_FINALSTATE(gtab[h.idx].terminated)
        /\ gtab' = [gtab EXCEPT ![h.idx] = gtab_free(gtab[h.idx])]
        /\ UNCHANGED rpending
    BY <1>4 DEF JoinTakes
  <2>2. PICK x : joinok' = joinok \cup {[thread |-> h, xid |-> x]}
    BY <1>4 DEF JoinTakes
  <2>3. h.idx \in Slots /\ gtab[h.idx] \in GtabEntry
    BY <2>1 DEF dthread_dt2gtab, Gtab
  <2>4. SameEntries(h.idx) /\ SlotFreed(h.idx)
    BY <2>1, <2>3, FreeEffect
  <2>5. Allocated' = Allocated \ {h} /\ h \in Allocated
    BY <2>1, <2>4, AllocatedLess, AllocatedValid DEF SlotFreed, ValidAllocated
  <2>6. \A y \in Allocated \ {h} : Standing(y)' = Standing(y)
    BY <2>1, <2>4, OtherStandings DEF WaitKept, JoinWaiting
  <2>7. Threads' = Life!Without(h)
    BY <2>5, <2>6, ThreadsLess
  <2>8. Threads[h].ended /\ ~Threads[h].detached
    BY <2>1, <2>5 DEF Threads, Standing
  <2>9. Joined' = Joined \cup {h}
    <3>1. PICK j : j = [thread |-> h, xid |-> x]
      OBVIOUS
    <3>2. j.thread = h /\ joinok' = joinok \cup {j}
      BY <2>2, <3>1
    <3> QED
      BY <3>2 DEF Joined
  <2>10. Life!Join(h)
    BY <1>1, <2>7, <2>8, <2>9 DEF Life!Join
  <2> QED
    BY <2>5, <2>10, SMT DEF Refines, Life!Next, Threads
<1>5. CASE JoinWaits(s, h)
  <2>1. /\ dthread_dt2gtab(h) /\ ~gtab[h.idx].detached
        /\ LT_NEED_FINALSTATE(gtab[h.idx].terminated) /\ joinwait_search(h) = {}
        /\ UNCHANGED <<gtab, joinok>>
    BY <1>5 DEF JoinWaits
  <2>2. PICK p : /\ p.op = "JOINWAIT" /\ p.thread = h
                 /\ rpending' = [rpending EXCEPT ![0] = @ \cup {p}]
    <3>1. PICK p : p = pending("JOINWAIT", Head(net[s][0]).xid, 0, NMaxThread, h, s)
      OBVIOUS
    <3>2. p.op = "JOINWAIT" /\ p.thread = h
      BY <3>1 DEF pending
    <3> QED
      BY <1>5, <3>1, <3>2 DEF JoinWaits
  <2>3. rpending'[0] = rpending[0] \cup {p}
    BY <2>2 DEF TypeOK
  <2>4. \A x : x # h => WaitKept(x)
    BY <2>2, <2>3 DEF WaitKept, JoinWaiting
  <2>5. joinwait_search(h)' # {}
    BY <2>2, <2>3 DEF joinwait_search
  <2>6. Allocated' = Allocated /\ h \in Allocated /\ SameEntries(h.idx)
    <3>1. SameEntries(h.idx) /\ gtab'[h.idx].allocated
      BY <2>1 DEF SameEntries, dthread_dt2gtab
    <3> QED
      BY <2>1, <3>1, HolderKept
  <2>7. \A x \in Allocated \ {h} : Standing(x)' = Standing(x)
    BY <2>1, <2>4, <2>6, OtherStandings
  <2>8. gtab[h.idx].detached = FALSE
    BY <2>1 DEF Gtab, GtabEntry, dthread_dt2gtab
  <2>9. Standing(h) = Life!Fresh /\ Standing(h)' = [Standing(h) EXCEPT !.waited = TRUE]
    <3>1. gtab[h.idx].detached = FALSE /\ gtab'[h.idx] = gtab[h.idx]
      BY <2>1, <2>8
    <3> gtab[h.idx].detached \in BOOLEAN /\ gtab'[h.idx].detached \in BOOLEAN
      BY <3>1
    <3> Standing(h) \in Stand /\ Standing(h)' \in Stand
      BY StandingIs, SMT
    <3>4. Standing(h).ended = FALSE /\ Standing(h)'.ended = FALSE
      BY <2>1, <3>1, EndedIs
    <3>5. Standing(h).detached = FALSE /\ Standing(h)'.detached = FALSE
      BY <3>1, StandingIs, SMT
    <3>6. Standing(h).waited = FALSE /\ Standing(h)'.waited = TRUE
      BY <2>1, <2>5, WaitedIs
    <3>7. Standing(h) = Life!Fresh
      BY <3>4, <3>5, <3>6, StandingFresh
    <3>8. /\ Standing(h)'.ended = Standing(h).ended
          /\ Standing(h)'.detached = Standing(h).detached
      BY <3>4, <3>5
    <3> QED
      BY <3>6, <3>7, <3>8, StandingWaited
  <2>10. Threads' = [Threads EXCEPT ![h].waited = TRUE] /\ Threads[h] = Life!Fresh
    <3>1. Threads' = [Threads EXCEPT ![h] = Standing(h)']
      BY <2>6, <2>7, ThreadsSet
    <3> QED
      BY <2>6, <2>9, <3>1, SMT DEF Threads
  <2>11. Life!JoinWait(h)
    BY <1>1, <2>1, <2>10, SMT DEF Life!JoinWait, Joined
  <2> QED
    BY <2>6, <2>11 DEF Refines, Life!Next, Threads
<1> QED
  BY <1>2, <1>3, <1>4, <1>5

\* terminated_thread is End.
LEMMA TerminatedRefines ==
    ASSUME TypeOK, TypeOK', [Next]_vars, LifeInv, NEW s \in Ranks, terminated_thread(s)
    PROVE  Refines
<1> 0 \in Ranks /\ gtab \in Gtab
  BY ZeroInRange, SMT DEF TypeOK, Gtab
<1>1. UNCHANGED seqsrc
  BY TerminatedEffect
<1>2. PICK h, v, waiting, done : Ends(s, h, v, waiting, done)
  BY TerminatedEffect
<1>3. /\ h \in Handle /\ Unhooked(h) /\ v \in FinalStates /\ waiting = joinwait_search(h)
      /\ done \in BOOLEAN /\ (done <=> gtab[h.idx].detached \/ waiting # {})
      /\ rpending' = [rpending EXCEPT ![0] = @ \ waiting]
  BY <1>2 DEF Ends
<1>4. /\ dthread_dt2gtab(h) /\ h.idx \in Slots /\ gtab[h.idx] \in GtabEntry
      /\ gtab[h.idx].terminated = "NONE" /\ gtab[h.idx].allocated
  BY <1>3 DEF Unhooked, Unended, dthread_dt2gtab, Gtab
<1>5. /\ SameEntries(h.idx)
      /\ done => SlotFreed(h.idx)
      /\ ~done => /\ gtab'[h.idx].allocated /\ gtab'[h.idx].seq = gtab[h.idx].seq
                  /\ gtab'[h.idx].terminated = v
                  /\ gtab'[h.idx].detached = gtab[h.idx].detached
  <2>1. PICK z : z = Zombie(gtab[h.idx], v)
    OBVIOUS
  <2>2. /\ z \in GtabEntry /\ z.terminated = v /\ z.allocated = gtab[h.idx].allocated
        /\ z.seq = gtab[h.idx].seq /\ z.detached = gtab[h.idx].detached
    <3>1. PICK e \in GtabEntry : e = gtab[h.idx]
      BY <1>4
    <3>2. z = Zombie(e, v) /\ v \in FinalStates
      BY <1>3, <2>1, <3>1
    <3>3. /\ z \in GtabEntry /\ z.terminated = v /\ z.allocated = e.allocated
          /\ z.seq = e.seq /\ z.detached = e.detached
      BY <3>2, ZombieEntry, SMT
    <3> QED
      BY <3>1, <3>3
  <2>3. gtab' = [gtab EXCEPT ![h.idx] = IF done THEN gtab_free(z) ELSE z]
    BY <1>2, <2>1 DEF Ends
  <2>4. CASE done
    <3>1. gtab' = [gtab EXCEPT ![h.idx] = gtab_free(z)]
      BY <2>3, <2>4
    <3> QED
      BY <1>4, <2>2, <2>4, <3>1, FreeEffect
  <2>5. CASE ~done
    <3>1. gtab' = [gtab EXCEPT ![h.idx] = z]
      BY <2>3, <2>5
    <3> QED
      BY <1>4, <2>2, <2>5, <3>1 DEF Gtab, SameEntries
  <2> QED
    BY <2>4, <2>5
<1>6. rpending'[0] = rpending[0] \ waiting
  BY <1>3 DEF TypeOK
<1>7. \A x : x # h => WaitKept(x)
  BY <1>3, <1>6 DEF WaitKept, JoinWaiting, joinwait_search
<1>8. joinwait_search(h)' = {}
  BY <1>3, <1>6 DEF joinwait_search
<1>9. \A x \in Allocated \ {h} : Standing(x)' = Standing(x)
  BY <1>3, <1>4, <1>5, <1>7, OtherStandings
<1> h \in Allocated
  BY <1>3, <1>4, AllocatedValid DEF ValidAllocated
<1>11. /\ Threads[h].ended = FALSE /\ Threads[h].detached = gtab[h.idx].detached
       /\ Threads[h].waited = (waiting # {})
  BY <1>3, <1>4 DEF Threads, Standing, LT_NEED_FINALSTATE
<1>12. Joined' = IF waiting # {} THEN Joined \cup {h} ELSE Joined
  <2>1. joinok' = joinok \cup {[thread |-> h, xid |-> p.xid] :
                                  p \in IF gtab[h.idx].detached THEN {} ELSE waiting}
    BY <1>2 DEF Ends
  <2>2. waiting # {} => ~gtab[h.idx].detached
    BY <1>3 DEF LifeInv, JoinWaitHasFuture, joinwait_search
  <2>3. CASE waiting = {}
    BY <2>1, <2>3 DEF Joined
  <2>4. CASE waiting # {}
    <3>1. joinok' = joinok \cup {[thread |-> h, xid |-> p.xid] : p \in waiting}
      BY <2>1, <2>2, <2>4
    <3>2. \A p : [thread |-> h, xid |-> p.xid].thread = h
      OBVIOUS
    <3>3. \A j \in joinok' : j \in joinok \/ j.thread = h
      BY <3>1, <3>2
    <3>4. joinok \subseteq joinok' /\ \E j \in joinok' : j.thread = h
      BY <2>4, <3>1, <3>2
    <3> QED
      BY <2>4, <3>3, <3>4 DEF Joined
  <2> QED
    BY <2>3, <2>4
<1>13. Threads' = IF Threads[h].detached \/ Threads[h].waited THEN Life!Without(h)
                  ELSE [Threads EXCEPT ![h].ended = TRUE]
  <2>1. done <=> Threads[h].detached \/ Threads[h].waited
    BY <1>3, <1>11
  <2>2. CASE done
    <3>1. Allocated' = Allocated \ {h}
      BY <1>3, <1>4, <1>5, <2>2, AllocatedLess DEF SlotFreed
    <3> QED
      BY <1>9, <2>1, <2>2, <3>1, ThreadsLess
  <2>3. CASE ~done
    <3>1. Allocated' = Allocated
      BY <1>3, <1>4, <1>5, <2>3, HolderKept
    <3>2. Threads' = [Threads EXCEPT ![h] = Standing(h)']
      BY <1>9, <3>1, ThreadsSet
    <3>3. Standing(h)' = [Standing(h) EXCEPT !.ended = TRUE]
      <4>1. ~LT_NEED_FINALSTATE(gtab'[h.idx].terminated)
        BY <1>3, <1>5, <2>3 DEF LT_NEED_FINALSTATE, FinalStates
      <4>2. gtab'[h.idx].detached = gtab[h.idx].detached
        BY <1>5, <2>3
      <4> gtab[h.idx].detached \in BOOLEAN /\ gtab'[h.idx].detached \in BOOLEAN
        BY <1>4, <4>2 DEF Gtab, GtabEntry
      <4>4. Standing(h) \in Stand /\ Standing(h)' \in Stand
        BY StandingIs, SMT
      <4>5. Standing(h)'.ended = TRUE
        BY <4>1, EndedIs
      <4>6. Standing(h)'.detached = Standing(h).detached
        BY <4>2, StandingIs, SMT
      <4>7. Standing(h)'.waited = Standing(h).waited
        <5>1. joinwait_search(h)' = joinwait_search(h)
          BY <1>3, <1>8, <2>3
        <5> QED
          BY <5>1, WaitedIs
      <4> QED
        BY <4>4, <4>5, <4>6, <4>7, StandingEnded
    <3> QED
      BY <2>1, <2>3, <3>2, <3>3, SMT DEF Threads
  <2> QED
    BY <1>3, <2>2, <2>3
<1>14. Life!End(h)
  BY <1>1, <1>11, <1>12, <1>13 DEF Life!End
<1> QED
  BY <1>14 DEF Refines, Life!Next, Threads

-----------------------------------------------------------------------------
(* Every step of Dthread is a step of ThreadLife, or leaves its threads alone *)

\* Steps that change neither gtab nor what manager 0 waits for.
LEMMA StillRefines ==
    ASSUME TypeOK, TypeOK', [Next]_vars, UNCHANGED <<gtab, rpending, joinok>>
    PROVE  Refines
<1>1. \A p : JoinWaiting(p)' <=> JoinWaiting(p)
  BY DEF JoinWaiting
<1> QED
  BY <1>1, TableRefines

\* The requests of a rank and the shutdown change no thread of ThreadLife.
LEMMA MgrRefines ==
    ASSUME TypeOK, TypeOK', [Next]_vars, NEW r \in Ranks,
           MgrRequest(r) \/ cancel_thread_act(r) \/ mgr_exit(r) \/ idle_shutdown
    PROVE  Refines
<1>1. CASE process_req_forward(r)
  BY <1>1, ForwardRefines
<1>2. CASE process_req_retclean(r)
  BY <1>2, RetcleanRefines, SMT
<1>3. CASE \/ process_req_app0_ret(r) \/ cancel_thread_act(r) \/ mgr_exit(r)
           \/ idle_shutdown
  <2>1. gtab' = gtab
    BY <1>3 DEF process_req_app0_ret, cancel_thread_act, mgr_exit, idle_shutdown
  <2>2. UNCHANGED <<rpending, joinok>>
    BY <1>3, MgrFrame
  <2> QED
    BY <2>1, <2>2, StillRefines
<1> QED
  BY <1>1, <1>2, <1>3 DEF MgrRequest

\* Every message handler is a step of ThreadLife or leaves its threads alone.
LEMMA MessageRefines ==
    ASSUME TypeOK, TypeOK', [Next]_vars, CallInv, LifeInv,
           NEW s \in Ranks, NEW r \in Ranks, MgrMessage(s, r)
    PROVE  Refines
<1>1. CASE create_thread(s)
  BY <1>1, CreateRefines, SMT
<1>2. CASE process_started(s)
  BY <1>2, StartedRefines
<1>3. CASE detach_thread(s)
  BY <1>3, DetachRefines, SMT
<1>4. CASE join_thread(s)
  BY <1>4, JoinRefines, SMT
<1>5. CASE terminated_thread(s)
  BY <1>5, TerminatedRefines, SMT
<1>6. CASE process_reply(s, r)
  <2>1. gtab' = gtab /\ \A p : JoinWaiting(p)' <=> JoinWaiting(p)
    BY <1>6, ReplyEffect
  <2>2. joinok' = joinok
    BY <1>6, MessageFrame
  <2> QED
    BY <2>1, <2>2, TableRefines
<1>7. CASE \/ start_thread(s, r) \/ cancel_thread(s, r) \/ process_bcastshutdown(s, r)
           \/ create_thread_full(s) \/ create_thread_nomem(s)
  <2>1. gtab' = gtab
    BY <1>7 DEF start_thread, cancel_thread, process_bcastshutdown,
       create_thread_full, create_thread_nomem
  <2>2. UNCHANGED <<rpending, joinok>>
    BY <1>7, MessageFrame
  <2> QED
    BY <2>1, <2>2, StillRefines
<1> QED
  BY <1>1, <1>2, <1>3, <1>4, <1>5, <1>6, <1>7 DEF MgrMessage

\* Every step of Dthread is a step of ThreadLife or leaves its variables alone.
LEMMA StepRefines ==
    ASSUME TypeOK, TypeOK', CallInv, LifeInv, [Next]_vars
    PROVE  [Life!Next]_(Life!vars)
<1>0. 0 \in Ranks
  BY ZeroInRange, SMT
<1>1. ASSUME NEW r \in Ranks, NEW l \in Slots, AppChoice(r, l) \/ AppStep(r, l)
      PROVE  Refines
  BY <1>1, AppRefines
<1>2. ASSUME NEW r \in Ranks, MgrRequest(r) \/ cancel_thread_act(r) \/ mgr_exit(r)
      PROVE  Refines
  BY <1>2, MgrRefines
<1>3. ASSUME NEW s \in Ranks, NEW r \in Ranks, MgrMessage(s, r)
      PROVE  Refines
  BY <1>3, MessageRefines
<1>4. ASSUME idle_shutdown PROVE Refines
  BY <1>0, <1>4, MgrRefines
<1>5. ASSUME UNCHANGED vars PROVE Refines
  <2>1. UNCHANGED <<gtab, rpending, joinok>>
    BY <1>5 DEF vars, history
  <2> QED
    BY <2>1, StillRefines
<1>6. Refines
  BY <1>1, <1>2, <1>3, <1>4, <1>5 DEF Next
<1> QED
  BY <1>6, SMT DEF Refines

\* In the beginning the only thread is app0, on rank 0.
LEMMA InitRefines == ASSUME Init PROVE Life!Init
<1>0. 0 \in Ranks /\ 0 \in Slots /\ NRanks \in Nat /\ NRanks # 0
  BY ZeroInRange, NRanksAssumption, SMT
<1>1. /\ \A g \in Slots : /\ gtab[g].allocated <=> g = 0
                          /\ gtab[g].terminated = "NONE"
      /\ gtab[0].seq = NRanks
  BY <1>0 DEF Init, App0Seq
<1>d. \A g \in Slots : gtab[g].detached = FALSE
  BY DEF Init
<1>2. rpending[0] = {} /\ joinok = {} /\ seqsrc[0] = 2 * NRanks
  BY <1>0 DEF Init
<1>3. PICK h : h = [idx |-> 0, seq |-> NRanks]
  OBVIOUS
<1>4. h.idx = 0 /\ h.seq = NRanks
  BY <1>3
<1>5. Allocated = {h}
  <2>1. {g \in Slots : gtab[g].allocated} = {0}
    BY <1>0, <1>1
  <2>2. h = [idx |-> 0, seq |-> gtab[0].seq]
    BY <1>1, <1>3
  <2> QED
    BY <2>1, <2>2 DEF Allocated
<1>6. Standing(h) = Life!Fresh
  <2>1. LT_NEED_FINALSTATE(gtab[h.idx].terminated) /\ joinwait_search(h) = {}
    <3>1. gtab[h.idx].terminated = "NONE"
      BY <1>0, <1>1, <1>4
    <3> QED
      BY <1>2, <3>1 DEF LT_NEED_FINALSTATE, joinwait_search
  <2>2. gtab[h.idx].detached = FALSE
    BY <1>0, <1>4, <1>d
  <2>3. Standing(h).ended = FALSE /\ Standing(h).waited = FALSE
    BY <2>1, EndedIs, WaitedIs
  <2>4. Standing(h).detached = FALSE
    BY <2>2 DEF Standing
  <2>5. Standing(h) \in Stand
    BY <2>2 DEF Standing, Stand
  <2> QED
    BY <2>3, <2>4, <2>5, StandingFresh
<1>7. Threads = [x \in {h} |-> Life!Fresh]
  BY <1>5, <1>6 DEF Threads
<1>8. h \in DOMAIN Threads
  BY <1>7, SMT
<1>9. Joined = {}
  BY <1>2 DEF Joined
<1> QED
  BY <1>0, <1>2, <1>4, <1>7, <1>8, <1>9, SMT DEF Life!Init
=============================================================================
