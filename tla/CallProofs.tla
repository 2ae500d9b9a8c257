----------------------------- MODULE CallProofs ------------------------------
(***************************************************************************)
(* Proofs about handles and calls: no step brings back a handle that was   *)
(* freed, every place that keeps a handle keeps an old one, and a thread   *)
(* blocked in a call has one request, queued or pending, that only its     *)
(* reply takes away.                                                       *)
(***************************************************************************)
EXTENDS DthreadLemmas

\* Leaves are for Zenon unless they name another prover.
USE Zenon

-----------------------------------------------------------------------------
(* What a step does to the slots of gtab *)

\* Writing another field of an entry keeps every slot as it is.
LEMMA KeptTable ==
    ASSUME gtab \in Gtab,
           \/ gtab' = gtab
           \/ \E k, v : gtab' = [gtab EXCEPT ![k].ret = v]
           \/ \E k, v : gtab' = [gtab EXCEPT ![k].has_ltab = v]
           \/ \E k, v : gtab' = [gtab EXCEPT ![k].detached = v]
           \/ \E k, v, w : gtab' = [gtab EXCEPT ![k].ltab_idx = v,
                                                ![k].has_ltab = w]
    PROVE  \A g \in Slots : SlotKept(g)
<1>1. CASE gtab' = gtab
  BY <1>1, SMT DEF SlotKept
<1>2. CASE \E k, v : gtab' = [gtab EXCEPT ![k].ret = v]
  BY <1>2, SMT DEF Gtab, GtabEntry, SlotKept
<1>3. CASE \E k, v : gtab' = [gtab EXCEPT ![k].has_ltab = v]
  BY <1>3, SMT DEF Gtab, GtabEntry, SlotKept
<1>4. CASE \E k, v : gtab' = [gtab EXCEPT ![k].detached = v]
  BY <1>4, SMT DEF Gtab, GtabEntry, SlotKept
<1>5. CASE \E k, v, w : gtab' = [gtab EXCEPT ![k].ltab_idx = v,
                                            ![k].has_ltab = w]
  BY <1>5, SMT DEF Gtab, GtabEntry, SlotKept
<1> QED
  BY <1>1, <1>2, <1>3, <1>4, <1>5

\* Freeing slot k keeps or frees each slot.
LEMMA FreedTable ==
    ASSUME gtab \in Gtab, NEW k,
           gtab' = [gtab EXCEPT ![k] = gtab_free(@)]
    PROVE  \A g \in Slots : SlotOK(g)
<1> TAKE g \in Slots
<1>1. CASE g = k
  BY <1>1, FreedSlot, SMT DEF Gtab, SlotOK, SlotFreed
<1>2. CASE g # k
  BY <1>2, SMT DEF Gtab, SlotOK, SlotKept
<1> QED
  BY <1>1, <1>2, SMT

\* Application threads write to their own entry, but never its allocated or seq.
LEMMA AppSlots ==
    ASSUME TypeOK, NEW r \in Ranks, NEW l \in Slots,
           AppChoice(r, l) \/ AppStep(r, l)
    PROVE  UNCHANGED seqsrc /\ \A g \in Slots : SlotKept(g)
<1> gtab \in Gtab
  BY SMT DEF TypeOK, Gtab
<1>1. ASSUME NEW state, retclean_request(r, l, state)
      PROVE  UNCHANGED seqsrc /\ \A g \in Slots : SlotKept(g)
  <2>1. \E k, v : gtab' = [gtab EXCEPT ![k].ret = v]
    BY <1>1 DEF retclean_request
  <2> QED
    BY <1>1, <2>1, KeptTable DEF retclean_request
<1>2. CASE AppChoice(r, l)
  <2>1. ASSUME NEW how, app_leaves(r, l, how)
        PROVE  UNCHANGED seqsrc /\ \A g \in Slots : SlotKept(g)
    <3>1. gtab' = gtab \/ \E k, v : gtab' = [gtab EXCEPT ![k].ret = v]
      BY <2>1 DEF app_leaves
    <3> QED
      BY <2>1, <3>1, KeptTable DEF app_leaves
  <2>2. ASSUME NEW op, NEW h, NEW peer, NEW attr, Call(r, l, op, h, peer, attr)
        PROVE  UNCHANGED seqsrc /\ \A g \in Slots : SlotKept(g)
    BY <2>2, SMT DEF Call, SlotKept
  <2> QED
    BY <1>1, <1>2, <2>1, <2>2 DEF AppChoice, dthreadcleanup_unwound,
       dthread_create, dthread_detach, dthread_cancel, dthread_join
<1>3. CASE AppStep(r, l)
  <2>1. CASE dthreadwrap(r, l)
    <3>1. \E k, v, w : gtab' = [gtab EXCEPT ![k].ltab_idx = v, ![k].has_ltab = w]
      BY <2>1 DEF dthreadwrap
    <3> QED
      BY <2>1, <3>1, KeptTable DEF dthreadwrap
  <2>2. CASE app0wrap(r, l) \/ api_return(r, l)
    BY <2>2, SMT DEF app0wrap, api_return, SlotKept
  <2> QED
    BY <1>1, <1>3, <2>1, <2>2 DEF AppStep, dthreadwrap_decode_fails,
       dthread_exit_common, dthreadcleanup_returned
<1> QED
  BY <1>2, <1>3, SMT

\* A manager that is not handling CREATE keeps or frees slots.
LEMMA ManagerSlots ==
    ASSUME TypeOK, NEW s \in Ranks, NEW r \in Ranks,
           \/ MgrRequest(r) \/ cancel_thread_act(r) \/ mgr_exit(r)
           \/ idle_shutdown \/ start_thread(s, r) \/ cancel_thread(s, r)
           \/ process_reply(s, r) \/ process_bcastshutdown(s, r)
           \/ create_thread_full(s) \/ create_thread_nomem(s)
           \/ process_started(s) \/ detach_thread(s)
    PROVE  \A g \in Slots : SlotOK(g)
<1> gtab \in Gtab
  BY SMT DEF TypeOK, Gtab
<1>1. CASE process_req_retclean(r)
  <2>1. gtab' = gtab \/ \E k, v : gtab' = [gtab EXCEPT ![k].has_ltab = v]
    BY <1>1 DEF process_req_retclean
  <2> QED
    BY <2>1, KeptTable, SMT DEF SlotOK
<1>2. CASE detach_thread(s)
  <2>1. gtab' = gtab \/ \E k, v : gtab' = [gtab EXCEPT ![k].detached = v]
    BY <1>2 DEF detach_thread
  <2> QED
    BY <2>1, KeptTable, SMT DEF SlotOK
<1>3. CASE process_started(s)
  <2>1. CASE gtab' = gtab
    BY <2>1, SMT DEF SlotOK, SlotKept
  <2>2. CASE \E k : gtab' = [gtab EXCEPT ![k] = gtab_free(@)]
    BY <2>2, FreedTable
  <2> QED
    BY <1>3, <2>1, <2>2 DEF process_started
<1>4. CASE gtab' = gtab
  BY <1>4, SMTT(30) DEF SlotOK, SlotKept
<1> QED
  BY <1>1, <1>2, <1>3, <1>4 DEF MgrRequest, process_req_forward,
     process_req_app0_ret, cancel_thread_act, mgr_exit, idle_shutdown,
     start_thread, cancel_thread, process_reply, process_bcastshutdown,
     create_thread_full, create_thread_nomem

\* join_thread frees the slot of a zombie or leaves all alone.
LEMMA JoinSlots ==
    ASSUME TypeOK, NEW s \in Ranks, join_thread(s)
    PROVE  \A g \in Slots : SlotOK(g)
<1>0. gtab \in Gtab
  BY SMT DEF TypeOK, Gtab
<1>1. CASE gtab' = gtab
  BY <1>1, SMT DEF SlotOK, SlotKept
<1>2. CASE \E k : gtab' = [gtab EXCEPT ![k] = gtab_free(@)]
  BY <1>0, <1>2, FreedTable
<1> QED
  BY <1>1, <1>2 DEF join_thread

\* terminated_thread frees the slot of its thread or leaves all alone.
LEMMA TerminatedSlots ==
    ASSUME TypeOK, NEW s \in Ranks, terminated_thread(s)
    PROVE  \A g \in Slots : SlotOK(g)
<1> DEFINE m == Head(net[s][0])
           k == m.thread.idx
           zombie == [gtab[k] EXCEPT !.terminated = m.finalstate,
                                     !.has_ltab = FALSE]
<1> gtab \in Gtab
  BY SMTT(30) DEF TypeOK, Gtab
<1>1. CASE gtab' = gtab
  BY <1>1, SMTT(30) DEF SlotOK, SlotKept
<1>2. CASE /\ k \in Slots
           /\ \/ gtab' = [gtab EXCEPT ![k] = zombie]
              \/ gtab' = [gtab EXCEPT ![k] = gtab_free(zombie)]
  <2>1. m.finalstate \in LT
    BY TakenMessage, ZeroInRange, ZenonT(30) DEF terminated_thread
  <2>2. gtab[k] \in GtabEntry
    BY <1>2 DEF Gtab
  <2> HIDE DEF m
  <2>3. /\ zombie \in GtabEntry
        /\ zombie.allocated = gtab[k].allocated /\ zombie.seq = gtab[k].seq
    BY <2>1, <2>2 DEF GtabEntry
  <2> HIDE DEF zombie, k
  <2>4. ~gtab_free(zombie).allocated /\ gtab_free(zombie).seq = 0
    BY <2>3, FreedSlot, SMT
  <2> TAKE g \in Slots
  <2>5. CASE g # k
    BY <1>2, <2>5, SMT DEF Gtab, SlotOK, SlotKept
  <2>6. CASE g = k
    BY <1>2, <2>3, <2>4, <2>6, SMT DEF Gtab, SlotOK, SlotKept, SlotFreed
  <2> QED
    BY <2>5, <2>6, SMT
<1> QED
  BY <1>1, <1>2 DEF terminated_thread

\* No step gives a slot a seq other than the next of rank 0.
LEMMA SlotStep ==
    ASSUME TypeOK, [Next]_vars
    PROVE  \A g \in Slots : SlotOK(g)
<1>1. CASE UNCHANGED vars
  BY <1>1, SMT DEF vars, SlotOK, SlotKept
<1>2. CASE \E r \in Ranks, l \in Slots : AppChoice(r, l) \/ AppStep(r, l)
  BY <1>2, AppSlots, SMT DEF SlotOK
<1>3. CASE \/ \E r \in Ranks : MgrRequest(r) \/ cancel_thread_act(r) \/ mgr_exit(r)
           \/ idle_shutdown
  BY <1>3, ManagerSlots, ZeroInRange, SMT
<1>4. CASE \E s, r \in Ranks : MgrMessage(s, r)
  BY <1>4, ManagerSlots, JoinSlots, TerminatedSlots, CreateSlots, SMT DEF MgrMessage
<1> QED
  BY <1>1, <1>2, <1>3, <1>4, SMT DEF Next

-----------------------------------------------------------------------------
(* What a step does to the other places that keep a thread's seq *)

\* An ltab entry keeps its seq, is reset, or takes that of a START.
LEMMA LtabStep ==
    ASSUME TypeOK, [Next]_vars, NEW r \in Ranks, NEW l \in Slots
    PROVE  \/ ltab'[r][l].seq \in {ltab[r][l].seq, 0}
           \/ \E s \in Ranks : /\ net[s][r] # <<>>
                               /\ ltab'[r][l].seq = Head(net[s][r]).thread.seq
<1> ltab \in Ltab
  BY SMT DEF TypeOK, Ltab
<1>1. CASE ltab' = ltab
  BY <1>1, SMT
<1>2. CASE \E q \in Ranks : \E k, v : ltab' = [ltab EXCEPT ![q][k].pth_state = v]
  BY <1>2, SMT DEF Ltab, LtabEntry
<1>3. CASE \E q \in Ranks : process_req_retclean(q)
  <2> PICK q \in Ranks : process_req_retclean(q)
    BY <1>3, SMT
  <2> DEFINE k == Head(mgrreqq[q])
  <2>1. ltab' = [ltab EXCEPT ![q][k].pth_state = "NONE", ![q][k].seq = 0]
    BY DEF process_req_retclean
  <2> HIDE DEF k
  <2>2. ltab[r][l] \in LtabEntry
    BY SMT DEF Ltab
  <2>3. CASE q = r /\ k = l
    BY <2>1, <2>2, <2>3 DEF Ltab, LtabEntry
  <2>4. CASE ~(q = r /\ k = l)
    BY <2>1, <2>4 DEF Ltab
  <2> QED
    BY <2>3, <2>4
<1>4. CASE \E s, q \in Ranks : start_thread(s, q)
  <2> PICK s \in Ranks, q \in Ranks : start_thread(s, q)
    BY <1>4, SMT
  <2> DEFINE m == Head(net[s][q])
  <2>1. net[s][q] # <<>>
    BY DEF start_thread, HasMessage
  <2>2. PICK k, e : /\ ltab' = [ltab EXCEPT ![q][k] = e]
                    /\ e.seq \in {m.thread.seq, 0}
    <3> DEFINE E(x, st) == [gtab_idx |-> m.thread.idx, seq |-> x, pth_state |-> st]
    <3>1. \E k : \/ ltab' = [ltab EXCEPT ![q][k] = E(m.thread.seq, "STARTING")]
                 \/ ltab' = [ltab EXCEPT ![q][k] = E(0, "NONE")]
      BY DEF start_thread
    <3>2. \A x, st : E(x, st).seq = x
      BY SMT
    <3> HIDE DEF E
    <3>3. ASSUME NEW k, ltab' = [ltab EXCEPT ![q][k] = E(m.thread.seq, "STARTING")]
          PROVE  \E e : /\ ltab' = [ltab EXCEPT ![q][k] = e]
                        /\ e.seq \in {m.thread.seq, 0}
      <4>1. E(m.thread.seq, "STARTING").seq \in {m.thread.seq, 0}
        BY <3>2
      <4> QED
        BY <3>3, <4>1
    <3>4. ASSUME NEW k, ltab' = [ltab EXCEPT ![q][k] = E(0, "NONE")]
          PROVE  \E e : /\ ltab' = [ltab EXCEPT ![q][k] = e]
                        /\ e.seq \in {m.thread.seq, 0}
      <4>1. E(0, "NONE").seq \in {m.thread.seq, 0}
        BY <3>2
      <4> QED
        BY <3>4, <4>1
    <3> QED
      BY <3>1, <3>3, <3>4
  <2> HIDE DEF m
  <2>3. CASE q = r /\ k = l
    BY <2>1, <2>2, <2>3 DEF Ltab, m
  <2>4. CASE ~(q = r /\ k = l)
    BY <2>2, <2>4 DEF Ltab
  <2> QED
    BY <2>3, <2>4
<1>5. CASE \E q \in Ranks, k \in Slots : AppChoice(q, k) \/ AppStep(q, k)
  <2> PICK q \in Ranks, k \in Slots : AppChoice(q, k) \/ AppStep(q, k)
    BY <1>5, SMT
  <2>1. \/ ltab' = ltab
        \/ \E v : ltab' = [ltab EXCEPT ![q][k].pth_state = v]
    <3>1. ASSUME NEW state, retclean_request(q, k, state)
          PROVE  \E v : ltab' = [ltab EXCEPT ![q][k].pth_state = v]
      BY <3>1, ZenonT(30) DEF retclean_request
    <3>2. ASSUME dthreadwrap(q, k) \/ app0wrap(q, k)
          PROVE  \E v : ltab' = [ltab EXCEPT ![q][k].pth_state = v]
      <4>1. \/ ltab' = [ltab EXCEPT ![q][k].pth_state = "RUNNING"]
            \/ ltab' = [ltab EXCEPT ![q][k].pth_state = "RETURNED"]
        BY <3>2, ZenonT(30) DEF dthreadwrap, app0wrap
      <4> QED
        BY <4>1
    <3>3. ASSUME NEW op, NEW h, NEW peer, NEW attr, Call(q, k, op, h, peer, attr)
          PROVE  ltab' = ltab
      BY <3>3, SMT DEF Call
    <3>4. ASSUME NEW how, app_leaves(q, k, how)
          PROVE  ltab' = ltab
      BY <3>4 DEF app_leaves
    <3>5. api_return(q, k) => ltab' = ltab
      BY SMT DEF api_return
    <3> QED
      BY <3>1, <3>2, <3>3, <3>4, <3>5 DEF AppChoice, AppStep,
         dthreadcleanup_unwound, dthread_create, dthread_detach,
         dthread_cancel, dthread_join, dthreadwrap_decode_fails,
         dthread_exit_common, dthreadcleanup_returned
  <2> QED
    BY <1>1, <1>2, <2>1
<1>6. CASE \E q \in Ranks : cancel_thread_act(q)
  <2> PICK q \in Ranks : cancel_thread_act(q)
    BY <1>6, SMTT(30)
  <2> DEFINE k == gtab[mgrstate[q].thread.idx].ltab_idx
  <2>1. ltab' = ltab \/ ltab' = [ltab EXCEPT ![q][k].pth_state = "CANCELED"]
    BY DEF cancel_thread_act
  <2> HIDE DEF k
  <2> QED
    BY <1>1, <1>2, <2>1
<1>7. CASE UNCHANGED vars
  BY <1>1, <1>7, SMT DEF vars
<1>8. CASE Next
  BY <1>1, <1>3, <1>4, <1>5, <1>6, <1>8, MgrFrame, MessageFrame, ZeroInRange,
     ZenonT(30)
     DEF Next, MgrRequest, MgrMessage
<1> QED
  BY <1>7, <1>8

\* A handle becomes known from a thread's own entry or from a CREATED.
LEMMA KnownStep ==
    ASSUME [Next]_vars, NEW h \in known', h \notin known
    PROVE  \/ \E r \in Ranks, l \in Slots : h.seq = ltab[r][l].seq
           \/ \E s, r \in Ranks : net[s][r] # <<>> /\ h = Head(net[s][r]).thread
<1>1. CASE UNCHANGED known
  BY <1>1, SMT
<1>2. CASE \E r \in Ranks, l \in Slots : dthreadwrap(r, l)
  <2> PICK r \in Ranks, l \in Slots : dthreadwrap(r, l)
    BY <1>2, SMTT(30)
  <2>1. h = [idx |-> ltab[r][l].gtab_idx, seq |-> ltab[r][l].seq]
    BY DEF dthreadwrap
  <2> QED
    BY <2>1
<1>3. CASE \E s, r \in Ranks : process_reply(s, r)
  <2> PICK s \in Ranks, r \in Ranks : process_reply(s, r)
    BY <1>3, SMT
  <2>1. h = Head(net[s][r]).thread /\ net[s][r] # <<>>
    BY DEF process_reply, HasMessage
  <2> QED
    BY <2>1
<1>4. CASE \E r \in Ranks, l \in Slots : AppStep(r, l)
  <2> PICK r \in Ranks, l \in Slots : AppStep(r, l)
    BY <1>4, SMTT(30)
  <2>1. ASSUME NEW state, retclean_request(r, l, state)
        PROVE  UNCHANGED known
    BY <2>1 DEF retclean_request
  <2>2. app0wrap(r, l) \/ api_return(r, l) => UNCHANGED known
    BY SMT DEF app0wrap, api_return
  <2> QED
    BY <1>1, <1>2, <2>1, <2>2 DEF AppStep, dthreadwrap_decode_fails,
       dthread_exit_common, dthreadcleanup_returned
<1>5. CASE UNCHANGED vars
  BY <1>1, <1>5, SMT DEF vars
<1>6. CASE Next
  BY <1>1, <1>3, <1>4, <1>6, AppFrame, MgrFrame, MessageFrame, ZeroInRange
     DEF Next, MgrRequest, MgrMessage
<1> QED
  BY <1>5, <1>6

\* A new pending request is one of an application thread, a START under the
\* next seq, or manager 0's JOINWAIT for a thread that no one waits for yet.
Forwarded(r, p) == \E l \in Slots : p.thread = app[r][l].thread /\ p.op # "JOINWAIT"

Starting(p) == p.op = "START" /\ p.thread.seq = seqsrc[0] /\ seqsrc[0] < seqsrc'[0]

Joining(p) == /\ dthread_dt2gtab(p.thread)
              /\ joinwait_search(p.thread) = {}
              /\ rpending'[0] = rpending[0] \cup {p}

\* What comes on a pending list is an API request of a local thread, or
\* manager 0's START or JOINWAIT.
LEMMA PendingStep ==
    ASSUME TypeOK, [Next]_vars, NEW r \in Ranks,
           NEW p \in rpending'[r], p \notin rpending[r]
    PROVE  \/ Forwarded(r, p)
           \/ r = 0 /\ (Starting(p) \/ Joining(p))
<1> rpending \in Rpending /\ 0 \in Ranks
  BY ZeroInRange, SMT DEF TypeOK, Rpending
<1>1. CASE UNCHANGED rpending
  BY <1>1, SMT
<1>2. CASE \E q \in Ranks : \E P : rpending' = [rpending EXCEPT ![q] = @ \ P]
  BY <1>2, SMT DEF Rpending
<1>3. CASE \E q \in Ranks : process_req_forward(q)
  <2> PICK q \in Ranks : process_req_forward(q)
    BY <1>3, SMT
  <2> DEFINE l == Head(mgrreqq[q])
             a == app[q][l]
             n == pending(a.op, seqsrc[q], 0, l, a.thread, a.peer)
  <2>1. rpending' = rpending \/ rpending' = [rpending EXCEPT ![q] = @ \cup {n}]
    BY DEF process_req_forward
  <2> l \in Slots /\ a.op \in Requests
    BY HeadRequestType DEF process_req_forward, HasRequest
  <2>3. n.thread = app[q][l].thread /\ n.op = a.op
    BY DEF pending
  <2> HIDE DEF n, l, a
  <2>4. p = n /\ q = r
    BY <2>1, SMT DEF Rpending
  <2>5. n.op # "JOINWAIT"
    BY <2>3, SMT DEF Requests
  <2> QED
    BY <2>3, <2>4, <2>5, SMT DEF Forwarded
<1>4. CASE \E s \in Ranks : create_thread(s)
  <2> PICK s \in Ranks : create_thread(s)
    BY <1>4, SMTT(30)
  <2>1. PICK g \in Slots : create_thread_at(s, g)
    BY SMT DEF create_thread
  <2> DEFINE h == [idx |-> g, seq |-> seqsrc[0]]
             n == pending("START", seqsrc[0] + NRanks, Head(net[s][0]).xid,
                          NMaxThread, h, s)
  <2>2. rpending' = rpending \/ rpending' = [rpending EXCEPT ![0] = @ \cup {n}]
    BY <2>1 DEF create_thread_at
  <2>3. n.op = "START" /\ n.thread.seq = seqsrc[0]
    BY DEF pending
  <2> HIDE DEF n
  <2>4. p = n /\ r = 0
    BY <2>2, SMT DEF Rpending
  <2> QED
    BY <2>3, <2>4, CreateSlots, SMT DEF Starting
<1>5. CASE \E s \in Ranks : join_thread(s)
  <2> PICK s \in Ranks : join_thread(s)
    BY <1>5, SMTT(30)
  <2> DEFINE h == Head(net[s][0]).thread
             n == pending("JOINWAIT", Head(net[s][0]).xid, 0, NMaxThread, h, s)
  <2>1. \/ rpending' = rpending
        \/ /\ rpending' = [rpending EXCEPT ![0] = @ \cup {n}]
           /\ dthread_dt2gtab(h) /\ joinwait_search(h) = {}
    BY DEF join_thread
  <2>2. n.thread = h
    BY SMT DEF pending
  <2> HIDE DEF n, h
  <2>3. p = n /\ r = 0
    BY <2>1, SMT DEF Rpending
  <2>4. rpending'[0] = rpending[0] \cup {p}
    BY <2>1, <2>3, SMT DEF Rpending
  <2> QED
    BY <2>1, <2>2, <2>3, <2>4, SMT DEF Joining
<1>6. CASE \E s, q \in Ranks : \/ process_started(s) \/ detach_thread(s)
                               \/ terminated_thread(s) \/ process_reply(s, q)
  <2>1. PICK s \in Ranks, q \in Ranks :
           \/ process_started(s) \/ detach_thread(s)
           \/ terminated_thread(s) \/ process_reply(s, q)
    BY <1>6, SMT
  <2>2. CASE process_started(s)
    BY <1>2, <2>2 DEF process_started
  <2>3. CASE detach_thread(s)
    BY <1>2, <2>3 DEF detach_thread
  <2>4. CASE terminated_thread(s)
    BY <1>1, <1>2, <2>4, ZenonT(30) DEF terminated_thread
  <2>5. CASE process_reply(s, q)
    BY <1>2, <2>5 DEF process_reply
  <2> QED
    BY <2>1, <2>2, <2>3, <2>4, <2>5, SMT
<1>7. CASE UNCHANGED vars
  BY <1>1, <1>7, SMT DEF vars
<1>8. CASE Next
  BY <1>1, <1>3, <1>4, <1>5, <1>6, <1>8, AppFrame, MgrFrame, MessageFrame,
     ZeroInRange DEF Next, MgrRequest, MgrMessage
<1> QED
  BY <1>7, <1>8, SMT

-----------------------------------------------------------------------------
(* Messages in flight *)

\* A seq older than j is older than any k from j on.
LEMMA NetOldMono ==
    ASSUME NEW n \in Net, NEW j \in Nat, NEW k \in Nat, j <= k, NetOld(n, j)
    PROVE  NetOld(n, k)
<1>1. ASSUME NEW s \in Ranks, NEW d \in Ranks, NEW i \in 1 .. Len(n[s][d])
      PROVE  n[s][d][i].thread.seq < k
  <2>1. n[s][d][i] \in Msg
    BY SMT DEF Net
  <2>2. n[s][d][i].thread.seq \in Nat
    BY <2>1 DEF Msg, Handle
  <2>3. n[s][d][i].thread.seq < j
    BY DEF NetOld
  <2> QED
    BY <2>2, <2>3, SMT
<1> QED
  BY <1>1 DEF NetOld

\* Sending a message with an old seq.
LEMMA SendOld ==
    ASSUME NEW n \in Net, NEW k \in Nat, NetOld(n, k), NEW r \in Ranks,
           NEW to \in Ranks, NEW m \in Msg, m.thread.seq < k
    PROVE  NetOld(dtq_send_enqueue(n, r, to, m), k)
<1>1. CASE draining(r)
  BY <1>1, SMT DEF dtq_send_enqueue
<1>2. CASE ~draining(r)
  <2> DEFINE q == n[r][to]
             n1 == [n EXCEPT ![r][to] = Append(@, m)]
  <2> q \in Seq(Msg)
    BY SMT DEF Net
  <2>2. /\ Len(Append(q, m)) = Len(q) + 1
        /\ \A i \in 1 .. Len(q) + 1 :
              Append(q, m)[i] = IF i = Len(q) + 1 THEN m ELSE q[i]
    BY SMT
  <2>3. \A s, d \in Ranks :
           n1[s][d] = IF s = r /\ d = to THEN Append(q, m) ELSE n[s][d]
    BY DEF Net
  <2>4. Len(q) \in Nat
    BY SMT
  <2> HIDE DEF q, n1
  <2>5. \A i \in 1 .. Len(q) : q[i].thread.seq < k
    BY DEF NetOld, q
  <2>6. \A i \in 1 .. Len(Append(q, m)) : Append(q, m)[i].thread.seq < k
    BY <2>2, <2>4, <2>5, SMT
  <2>7. ASSUME NEW s \in Ranks, NEW d \in Ranks, NEW i \in 1 .. Len(n1[s][d])
        PROVE  n1[s][d][i].thread.seq < k
    <3>1. CASE s = r /\ d = to
      BY <2>3, <2>6, <2>7, <3>1
    <3>2. CASE ~(s = r /\ d = to)
      <4>1. n1[s][d] = n[s][d]
        BY <2>3, <3>2, SMT
      <4> QED
        BY <2>7, <4>1 DEF NetOld
    <3> QED
      BY <3>1, <3>2
  <2> QED
    BY <1>2, <2>7 DEF dtq_send_enqueue, n1, NetOld
<1> QED
  BY <1>1, <1>2, SMT

\* The same for a message that is put together on the spot.
LEMMA SendMessageOld ==
    ASSUME NEW n \in Net, NEW k \in Nat, NetOld(n, k), NEW r \in Ranks,
           NEW to \in Ranks, NEW op \in MsgOps, NEW xid \in Nat, NEW t \in Handle,
           NEW err \in Errors, NEW v \in Ret, t.seq < k
    PROVE  /\ dtq_send_enqueue(n, r, to, message(op, xid, t, err, v)) \in Net
           /\ NetOld(dtq_send_enqueue(n, r, to, message(op, xid, t, err, v)), k)
<1> DEFINE m == message(op, xid, t, err, v)
<1>1. m \in Msg
  BY MessageType, SMT
<1>2. m.thread = t
  BY SMT DEF message
<1> HIDE DEF m
<1>3. /\ dtq_send_enqueue(n, r, to, m) \in Net
      /\ NetOld(dtq_send_enqueue(n, r, to, m), k)
  BY <1>1, <1>2, SendType, SendOld, SMT
<1> QED
  BY <1>3, SMT DEF m

\* Taking a message: the rest is as old, and so is what it names.
LEMMA ReceivedOld ==
    ASSUME net \in Net, NEW k \in Nat, NetOld(net, k), NEW s \in Ranks,
           NEW r \in Ranks, net[s][r] # <<>>
    PROVE  /\ Received(s, r) \in Net
           /\ NetOld(Received(s, r), k)
           /\ Head(net[s][r]).thread.seq < k
<1> DEFINE q == net[s][r]
           n1 == Received(s, r)
<1>1. q \in Seq(Msg) /\ q # <<>>
  BY SMT DEF Net
<1>2. /\ Len(q) \in Nat \ {0} /\ Head(q) = q[1] /\ Len(Tail(q)) = Len(q) - 1
      /\ \A i \in 1 .. Len(q) - 1 : Tail(q)[i] = q[i + 1]
  BY <1>1, SMT
<1>3. \A a, d \in Ranks : n1[a][d] = IF a = s /\ d = r THEN Tail(q) ELSE net[a][d]
  BY DEF Net, Received
<1>4. \A i \in 1 .. Len(q) : q[i].thread.seq < k
  BY DEF NetOld
<1>5. n1 \in Net
  BY ReceivedType, SMT
<1> HIDE DEF q, n1
<1>6. \A i \in 1 .. Len(Tail(q)) : Tail(q)[i].thread.seq < k
  BY <1>2, <1>4, SMT
<1>7. NetOld(n1, k)
  <2>1. ASSUME NEW a \in Ranks, NEW d \in Ranks, NEW i \in 1 .. Len(n1[a][d])
        PROVE  n1[a][d][i].thread.seq < k
    <3>1. CASE a = s /\ d = r
      BY <1>3, <1>6, <2>1, <3>1
    <3>2. CASE ~(a = s /\ d = r)
      <4>1. n1[a][d] = net[a][d]
        BY <1>3, <3>2, SMT
      <4> QED
        BY <2>1, <4>1 DEF NetOld
    <3> QED
      BY <3>1, <3>2
  <2> QED
    BY <2>1 DEF NetOld
<1>8. Head(q).thread.seq < k
  BY <1>2, <1>4, SMT
<1> QED
  BY <1>5, <1>7, <1>8 DEF q, n1

\* A shutdown notice names no thread.
LEMMA BroadcastOld ==
    ASSUME NEW n \in Net, NEW k \in Nat \ {0}, NetOld(n, k), NEW r \in Ranks,
           broadcast_shutdown(n, r)
    PROVE  NetOld(net', k)
<1> DEFINE m == message("BCASTSHUTDOWN", 0, NoThread, "OK", NoData)
<1>1. m \in Msg /\ m.thread.seq = 0
  <2>1. m \in Msg
    BY MessageType, NoThreadType, RetType DEF MsgOps, Errors
  <2> QED
    BY <2>1, SMT DEF message, NoThread
<1>2. \A s, d \in Ranks : net'[s][d] \in {n[s][d], Append(n[s][d], m)}
  BY DEF broadcast_shutdown, Net
<1> HIDE DEF m
<1>3. ASSUME NEW s \in Ranks, NEW d \in Ranks, NEW i \in 1 .. Len(net'[s][d])
      PROVE  net'[s][d][i].thread.seq < k
  <2> DEFINE q == n[s][d]
  <2>1. q \in Seq(Msg) /\ \A x \in 1 .. Len(q) : q[x].thread.seq < k
    BY DEF Net, NetOld
  <2> HIDE DEF q
  <2>2. CASE net'[s][d] = q
    BY <1>3, <2>1, <2>2, SMT
  <2>3. CASE net'[s][d] = Append(q, m)
    <3>1. /\ Len(Append(q, m)) = Len(q) + 1 /\ Len(q) \in Nat
          /\ \A x \in 1 .. Len(q) + 1 :
                Append(q, m)[x] = IF x = Len(q) + 1 THEN m ELSE q[x]
      BY <1>1, <2>1, SMT
    <3> QED
      BY <1>1, <1>3, <2>1, <2>3, <3>1, SMT
  <2> QED
    BY <1>2, <2>2, <2>3 DEF q
<1> QED
  BY <1>3 DEF NetOld

\* manager 0's answer to a waiting JOIN names no thread.
LEMMA JoinwaitEndOld ==
    ASSUME NEW n \in Net, NEW k \in Nat \ {0}, NetOld(n, k),
           NEW P \in SUBSET Pending, NEW err \in Errors, NEW v \in Ret
    PROVE  NetOld(joinwait_end_release(n, P, err, v), k)
<1>1. CASE P = {}
  BY <1>1, SMT DEF joinwait_end_release
<1>2. CASE P # {}
  <2> DEFINE p == CHOOSE q \in P : TRUE
             w == IF err = "OK" THEN v ELSE NoData
  <2>1. p \in Pending
    BY <1>2, SMT
  <2>2. p.peer \in Ranks /\ p.xid \in Nat
    BY <2>1, SMT DEF Pending
  <2>3. w \in Ret /\ NoThread.seq = 0 /\ "JOINED" \in MsgOps
    BY RetType, SMT DEF NoThread, MsgOps, Replies
  <2> HIDE DEF p, w
  <2>4. NetOld(dtq_send_enqueue(n, 0, p.peer,
                   message("JOINED", p.xid, NoThread, err, w)), k)
    BY <2>2, <2>3, SendMessageOld, ZeroInRange, NoThreadType, SMTT(30)
  <2> QED
    BY <1>2, <2>4 DEF joinwait_end_release, p, w
<1> QED
  BY <1>1, <1>2, SMT

\* A handler that takes a message and answers without naming a thread.
LEMMA AnswerOld ==
    ASSUME TypeOK, NEW k \in Nat \ {0}, NetOld(net, k), NEW s \in Ranks,
           NEW r \in Ranks, NEW ops, HasMessage(s, r, ops)
    PROVE  /\ Received(s, r) \in Net /\ NetOld(Received(s, r), k)
           /\ Head(net[s][r]).thread.seq < k
           /\ Head(net[s][r]).xid \in Nat
           /\ \A to \in Ranks, op \in MsgOps, xid \in Nat, err \in Errors,
                 v \in Ret :
                 LET n == dtq_send_enqueue(Received(s, r), r, to,
                              message(op, xid, NoThread, err, v))
                 IN  n \in Net /\ NetOld(n, k)
<1>1. net \in Net /\ net[s][r] # <<>>
  BY SMTT(30) DEF TypeOK, Net, HasMessage
<1>2. /\ Received(s, r) \in Net /\ NetOld(Received(s, r), k)
      /\ Head(net[s][r]).thread.seq < k
  BY <1>1, ReceivedOld
<1>3. Head(net[s][r]).xid \in Nat
  BY TakenMessage
<1>4. NoThread \in Handle /\ NoThread.seq < k
  BY NoThreadType, SMTT(30) DEF NoThread
<1>5. ASSUME NEW to \in Ranks, NEW op \in MsgOps, NEW xid \in Nat,
             NEW err \in Errors, NEW v \in Ret
      PROVE  LET n == dtq_send_enqueue(Received(s, r), r, to,
                          message(op, xid, NoThread, err, v))
             IN  n \in Net /\ NetOld(n, k)
  BY <1>2, <1>4, SendMessageOld
<1> QED
  BY <1>2, <1>3, <1>5

\* Handlers of manager 0 that answer at once.
LEMMA AnsweredNet ==
    ASSUME TypeOK, NEW k \in Nat \ {0}, NetOld(net, k), NEW s \in Ranks,
           \/ create_thread_full(s) \/ create_thread_nomem(s)
           \/ detach_thread(s) \/ join_thread(s) \/ terminated_thread(s)
    PROVE  NetOld(net', k)
<1> DEFINE m == Head(net[s][0])
           n0 == Received(s, 0)
           Answered(op, err, v) ==
               dtq_send_enqueue(n0, 0, s, message(op, m.xid, NoThread, err, v))
<1>0. HasMessage(s, 0, {"CREATE", "DETACH", "JOIN", "TERMINATED"})
  BY DEF HasMessage, create_thread_full, create_thread_nomem, detach_thread,
     join_thread, terminated_thread
<1>1. /\ n0 \in Net /\ NetOld(n0, k)
      /\ \A op \in MsgOps, err \in Errors, v \in Ret :
            Answered(op, err, v) \in Net /\ NetOld(Answered(op, err, v), k)
  BY <1>0, AnswerOld, ZeroInRange
<1>2. /\ {"CREATED", "DETACHED", "JOINED"} \subseteq MsgOps
      /\ {"OK", "EAGAIN", "ENOMEM", "ESRCH", "EINVAL"} \subseteq Errors
      /\ NoData \in Ret
  BY RetType, SMT DEF MsgOps, Replies, Errors
<1>a. \A P \in SUBSET Pending, err \in Errors, v \in Ret, n \in Net :
         NetOld(n, k) => NetOld(joinwait_end_release(n, P, err, v), k)
  BY JoinwaitEndOld, SMT
<1> rpending[0] \in SUBSET Pending
  BY ZeroInRange, SMT DEF TypeOK
<1>3. CASE create_thread_full(s) \/ create_thread_nomem(s)
  <2>1. net' = Answered("CREATED", "EAGAIN", NoData)
        \/ net' = Answered("CREATED", "ENOMEM", NoData)
    BY <1>3 DEF create_thread_full, create_thread_nomem, CreateFailed
  <2> HIDE DEF Answered
  <2> QED
    BY <1>1, <1>2, <2>1
<1>4. CASE detach_thread(s)
  <2> DEFINE found == dthread_dt2gtab(m.thread)
             waiting == IF found THEN joinwait_search(m.thread) ELSE {}
             err == IF found THEN "OK" ELSE "ESRCH"
  <2>1. net' = joinwait_end_release(Answered("DETACHED", err, NoData), waiting,
                                    "EINVAL", NoData)
    BY <1>4 DEF detach_thread
  <2>2. waiting \in SUBSET Pending /\ err \in {"OK", "ESRCH"}
    BY SMT DEF joinwait_search
  <2> HIDE DEF Answered, waiting, err
  <2> QED
    BY <1>1, <1>2, <1>a, <2>1, <2>2
<1>5. CASE join_thread(s)
  <2>1. \/ net' = n0
        \/ \E err \in {"ESRCH", "EINVAL", "ENOMEM"} :
              net' = Answered("JOINED", err, NoData)
        \/ /\ net' = Answered("JOINED", "OK", gtab[m.thread.idx].ret)
           /\ m.thread.idx \in Slots
    BY <1>5, ZenonT(30) DEF join_thread, dthread_dt2gtab
  <2>2. m.thread.idx \in Slots => gtab[m.thread.idx].ret \in Ret
    <3>1. gtab \in [Slots -> GtabEntry]
      BY DEF TypeOK
    <3> QED
      BY <3>1 DEF GtabEntry
  <2> HIDE DEF Answered, n0, m
  <2> QED
    BY <1>1, <1>2, <2>1, <2>2
<1>6. CASE terminated_thread(s)
  <2> DEFINE gt == gtab[m.thread.idx]
             waiting == joinwait_search(m.thread)
             err == IF gt.detached THEN "EINVAL" ELSE "OK"
  <2>1. \/ net' = n0
        \/ /\ net' = joinwait_end_release(n0, waiting, err, gt.ret)
           /\ m.thread.idx \in Slots
    BY <1>6 DEF terminated_thread
  <2>2. m.thread.idx \in Slots => gt.ret \in Ret
    BY DEF TypeOK, GtabEntry
  <2>3. waiting \in SUBSET Pending /\ err \in {"OK", "EINVAL"}
    BY SMT DEF joinwait_search
  <2> HIDE DEF n0, waiting, err, gt, m
  <2> QED
    BY <1>1, <1>2, <1>a, <2>1, <2>2, <2>3, ZenonT(60)
<1> QED
  BY <1>3, <1>4, <1>5, <1>6, SMT

\* create_thread's START names the thread by the seq just given out.
LEMMA CreateNet ==
    ASSUME TypeOK, NEW k \in Nat \ {0}, NetOld(net, k), k = seqsrc[0],
           NEW s \in Ranks, create_thread(s)
    PROVE  NetOld(net', seqsrc'[0])
<1> DEFINE m == Head(net[s][0])
           j == seqsrc'[0]
           n0 == Received(s, 0)
           xid == seqsrc[0] + NRanks
           target == mgr0.next_rank
<1>0. HasMessage(s, 0, {"CREATE"})
  BY SMT DEF create_thread
<1>1. j = k + 2 * NRanks
  BY ZeroInRange DEF TypeOK, create_thread
<1>2. j \in Nat \ {0} /\ k < j /\ xid \in Nat /\ target \in Ranks
  <2>1. target \in Ranks
    BY SMT DEF TypeOK, Mgr0
  <2> HIDE DEF j
  <2> QED
    BY <1>1, <2>1, NRanksAssumption, SMT
<1> HIDE DEF j
<1>3. net \in Net
  BY SMT DEF TypeOK, Net
<1>4. NetOld(net, j)
  BY <1>2, <1>3, NetOldMono, SMTT(30)
<1>5. /\ n0 \in Net /\ NetOld(n0, j) /\ m.xid \in Nat
      /\ \A op \in MsgOps, err \in Errors, v \in Ret :
            NetOld(dtq_send_enqueue(n0, 0, s,
                       message(op, m.xid, NoThread, err, v)), j)
  BY <1>0, <1>2, <1>4, AnswerOld, ZeroInRange
<1>6. PICK g \in Slots : create_thread_at(s, g)
  BY SMT DEF create_thread
<1> DEFINE h == [idx |-> g, seq |-> seqsrc[0]]
<1>7. h \in Handle /\ h.seq < j
  <2>1. g \in Nat /\ seqsrc[0] \in Nat
    BY NMaxThreadAssumption, SMT DEF Slots
  <2> QED
    BY <1>2, <2>1, SMT DEF Handle
<1>8. "CREATED" \in MsgOps /\ "START" \in MsgOps /\ "EIO" \in Errors /\ "OK" \in Errors
  BY SMT DEF MsgOps, Replies, Errors
<1>9. \/ net' = dtq_send_enqueue(n0, 0, s,
                    message("CREATED", m.xid, NoThread, "EIO", NoData))
      \/ net' = dtq_send_enqueue(n0, 0, target,
                    message("START", xid, h, "OK", NoData))
  BY <1>6 DEF create_thread_at, CreateFailed
<1> HIDE DEF h, n0, m, xid, target
<1>10. NetOld(dtq_send_enqueue(n0, 0, target,
                  message("START", xid, h, "OK", NoData)), j)
  BY <1>2, <1>5, <1>7, <1>8, SendMessageOld, ZeroInRange, RetType
<1>11. NetOld(net', j)
  BY <1>5, <1>8, <1>9, <1>10, RetType, SMT
<1> QED
  BY <1>11, SMT DEF j

\* The other managers' steps send nothing but the handles they were given.
LEMMA ManagerNet ==
    ASSUME TypeOK, SeqsOld, NEW k \in Nat \ {0}, k = seqsrc[0],
           NEW s \in Ranks, NEW r \in Ranks,
           \/ MgrRequest(r) \/ cancel_thread_act(r) \/ mgr_exit(r) \/ idle_shutdown
           \/ process_started(s) \/ start_thread(s, r) \/ cancel_thread(s, r)
           \/ process_reply(s, r) \/ process_bcastshutdown(s, r)
    PROVE  NetOld(net', k)
<1>0. net \in Net /\ NetOld(net, k) /\ NoThread \in Handle /\ NoThread.seq = 0
  BY NoThreadType DEF TypeOK, Net, SeqsOld, NoThread
<1>1. CASE process_req_forward(r)
  <2> DEFINE l == Head(mgrreqq[r])
             a == app[r][l]
             e == message(a.op, seqsrc[r], a.thread, "OK", NoData)
             m == [e EXCEPT !.attr = a.attr]
  <2> l \in Slots
    BY <1>1, HeadRequestType DEF process_req_forward, HasRequest
  <2>2. a \in AppEntry
    BY DEF TypeOK
  <2>3. a.op \in Requests
    BY <1>1 DEF process_req_forward, HasRequest
  <2>4. a.thread.seq < k
    BY DEF SeqsOld
  <2>5. net' = dtq_send_enqueue(net, r, a.peer, m)
    BY <1>1 DEF process_req_forward
  <2> HIDE DEF l, a
  <2> a.thread \in Handle /\ a.peer \in Ranks /\ a.attr \in BOOLEAN
    BY <2>2, SMT DEF AppEntry
  <2>7. e \in Msg /\ e.thread = a.thread
    <3>1. seqsrc[r] \in Nat
      BY DEF TypeOK
    <3>2. e \in Msg
      BY <2>3, <3>1, MessageType, RetType, SMT DEF MsgOps, Errors
    <3> QED
      BY <3>2 DEF message
  <2> HIDE DEF e
  <2>8. m \in Msg /\ m.thread = a.thread
    BY <2>7, SMT DEF Msg
  <2> HIDE DEF m
  <2> QED
    BY <1>0, <2>4, <2>5, <2>8, SendOld, ZenonT(30)
<1>2. CASE process_req_retclean(r)
  <2> DEFINE lt == ltab[r][Head(mgrreqq[r])]
             h == [idx |-> lt.gtab_idx, seq |-> lt.seq]
             e == message("TERMINATED", 0, h, "OK", NoData)
             m == [e EXCEPT !.finalstate = lt.pth_state]
  <2>1. Head(mgrreqq[r]) \in Slots
    BY <1>2, HeadRequestType, ZenonT(30) DEF process_req_retclean, HasRequest
  <2>2. lt \in LtabEntry /\ lt.seq < k
    <3>1. ltab \in [Ranks -> [Slots -> LtabEntry]]
      BY DEF TypeOK
    <3>2. \A l \in Slots : ltab[r][l].seq < k
      BY DEF SeqsOld
    <3> QED
      BY <2>1, <3>1, <3>2
  <2>3. net' = dtq_send_enqueue(net, r, 0, m)
    BY <1>2 DEF process_req_retclean
  <2> HIDE DEF lt
  <2>4. h \in Handle /\ h.seq = lt.seq /\ lt.pth_state \in LT
    BY <2>2, NMaxThreadAssumption, SMT DEF LtabEntry, Handle, Slots
  <2> HIDE DEF h
  <2>5. e \in Msg /\ e.thread = h
    <3>1. e \in Msg
      BY <2>4, MessageType, RetType DEF MsgOps, Errors
    <3> QED
      BY <3>1 DEF message
  <2> HIDE DEF e
  <2>6. m \in Msg /\ m.thread = h
    BY <2>4, <2>5, SMT DEF Msg
  <2> HIDE DEF m
  <2> QED
    BY <1>0, <2>2, <2>3, <2>4, <2>6, SendOld, ZeroInRange, ZenonT(30)
<1>3. CASE process_req_app0_ret(r) \/ idle_shutdown
  BY <1>0, <1>3, BroadcastOld, ZeroInRange DEF process_req_app0_ret, idle_shutdown
<1>4. CASE process_bcastshutdown(s, r)
  <2>1. HasMessage(s, r, {"BCASTSHUTDOWN"})
    BY <1>4 DEF process_bcastshutdown
  <2>2. Received(s, r) \in Net /\ NetOld(Received(s, r), k)
    BY <1>0, <2>1, AnswerOld
  <2> QED
    BY <1>4, <2>2, BroadcastOld DEF process_bcastshutdown
<1>5. CASE cancel_thread_act(r)
  <2> DEFINE st == mgrstate[r]
  <2>1. net' = dtq_send_enqueue(net, r, st.cancelling,
                   message("CANCELED", st.xid, NoThread, "OK", NoData))
    BY <1>5 DEF cancel_thread_act
  <2>2. st \in MgrEntry /\ st.cancelling # NRanks
    BY <1>5 DEF TypeOK, cancel_thread_act
  <2> HIDE DEF st
  <2> st.cancelling \in 0 .. NRanks /\ st.xid \in Nat
    BY <2>2, SMT DEF MgrEntry
  <2>4. st.cancelling \in Ranks
    BY <2>2, NRanksAssumption, SMT DEF Ranks
  <2>5. /\ "CANCELED" \in MsgOps /\ "OK" \in Errors /\ NoData \in Ret
        /\ NoThread.seq < k
    BY <1>0, RetType, SMT DEF MsgOps, Replies, Errors
  <2> QED
    BY <1>0, <2>1, <2>4, <2>5, SendMessageOld
<1>6. CASE start_thread(s, r) \/ cancel_thread(s, r)
  <2>1. HasMessage(s, r, {"START", "CANCEL"})
    BY <1>6, ZenonT(30) DEF HasMessage, start_thread, cancel_thread
  <2> DEFINE n0 == Received(s, r)
             x == Head(net[s][r]).xid
             Answered(to, op, err) ==
                 dtq_send_enqueue(n0, r, to, message(op, x, NoThread, err, NoData))
  <2>2. /\ NetOld(n0, k)
        /\ \A to \in Ranks, op \in MsgOps, err \in Errors :
              NetOld(Answered(to, op, err), k)
    BY <1>0, <2>1, AnswerOld, RetType
  <2>3. \/ net' = n0
        \/ \E err \in {"OK", "EAGAIN"} : net' = Answered(0, "STARTED", err)
        \/ \E err \in {"EINVAL", "ESRCH"} : net' = Answered(s, "CANCELED", err)
    <3>1. CASE start_thread(s, r)
      BY <3>1 DEF start_thread
    <3>2. CASE cancel_thread(s, r)
      BY <3>2 DEF cancel_thread
    <3> QED
      BY <1>6, <3>1, <3>2
  <2>4. /\ {"STARTED", "CANCELED"} \subseteq MsgOps
        /\ {"OK", "EAGAIN", "EINVAL", "ESRCH"} \subseteq Errors
    BY SMT DEF MsgOps, Replies, Errors
  <2> HIDE DEF n0, Answered
  <2> QED
    BY <2>2, <2>3, <2>4, ZeroInRange
<1>7. CASE process_started(s)
  <2> DEFINE m == Head(net[s][0])
             found == find_pending_msgreq(0, "START", m.xid)
             p == CHOOSE q \in found : TRUE
             h == IF m.errstatus = "OK" THEN p.thread ELSE NoThread
             n0 == Received(s, 0)
  <2>1. HasMessage(s, 0, {"STARTED"})
    BY <1>7 DEF process_started
  <2>2. n0 \in Net /\ NetOld(n0, k) /\ m.errstatus \in Errors
    BY <1>0, <2>1, AnswerOld, TakenMessage, ZeroInRange, ZenonT(30)
  <2>3. CASE found = {}
    BY <1>7, <2>2, <2>3, ZenonT(30) DEF process_started
  <2>4. CASE found # {}
    <3>1. p \in rpending[0] /\ rpending[0] \subseteq Pending
      BY <2>4, ZeroInRange, ZenonT(30) DEF find_pending_msgreq, TypeOK
    <3>2. p.thread.seq < k
      BY <3>1, ZeroInRange, ZenonT(30) DEF SeqsOld
    <3>3. net' = dtq_send_enqueue(n0, 0, p.peer,
                     message("CREATED", p.cxid, h, m.errstatus, NoData))
      BY <1>7, <2>4, ZenonT(30) DEF process_started
    <3> HIDE DEF p, n0, m, found
    <3> p.thread \in Handle /\ p.peer \in Ranks /\ p.cxid \in Nat
      BY <3>1 DEF Pending
    <3>5. h \in Handle /\ h.seq < k
      BY <1>0, <3>2, SMT
    <3> HIDE DEF h
    <3> QED
      BY <2>2, <3>3, <3>5, SendMessageOld, ZeroInRange, RetType,
         ZenonT(30)
         DEF MsgOps, Replies
  <2> QED
    BY <2>3, <2>4
<1>8. CASE process_reply(s, r)
  <2>1. HasMessage(s, r, Replies) /\ net' = Received(s, r)
    BY <1>8 DEF process_reply
  <2> QED
    BY <1>0, <2>1, AnswerOld, ZenonT(30)
<1>9. CASE mgr_exit(r)
  BY <1>0, <1>9, SMT DEF mgr_exit
<1> QED
  BY <1>1, <1>2, <1>3, <1>4, <1>5, <1>6, <1>7, <1>8, <1>9 DEF MgrRequest

\* No message names a thread that has not been given its seq.
LEMMA NetStep ==
    ASSUME TypeOK, TypeOK', SeqsOld, [Next]_vars
    PROVE  NetOld(net', seqsrc'[0])
<1> DEFINE k == seqsrc[0]
<1>0. /\ k \in Nat \ {0} /\ seqsrc'[0] \in Nat /\ k <= seqsrc'[0]
      /\ NetOld(net, k) /\ net' \in Net
  <2>1. gtab[0].seq \in Nat /\ gtab[0].seq < k
    BY ZeroInRange DEF TypeOK, GtabEntry, SeqsOld
  <2>2. net' \in Net /\ NetOld(net, k)
    BY DEF TypeOK, Net, SeqsOld
  <2>3. k \in Nat /\ seqsrc'[0] \in Nat /\ k <= seqsrc'[0]
    BY SeqsrcStep, SMT
  <2> HIDE DEF k
  <2> QED
    BY <2>1, <2>2, <2>3, SMTT(30)
<1>1. ASSUME NetOld(net', k)
      PROVE  NetOld(net', seqsrc'[0])
  BY <1>0, <1>1, NetOldMono
<1>2. CASE UNCHANGED vars
  BY <1>0, <1>1, <1>2, SMT DEF vars
<1>3. CASE \E r \in Ranks, l \in Slots : AppChoice(r, l) \/ AppStep(r, l)
  <2>1. UNCHANGED net
    BY <1>3, AppFrame, SMT
  <2> QED
    BY <1>0, <1>1, <2>1, SMT
<1>4. CASE \E s \in Ranks : create_thread(s)
  BY <1>0, <1>4, CreateNet, SMT
<1>5. CASE \E s, r \in Ranks :
              \/ MgrRequest(r) \/ cancel_thread_act(r) \/ mgr_exit(r)
              \/ idle_shutdown
              \/ process_started(s) \/ start_thread(s, r) \/ cancel_thread(s, r)
              \/ process_reply(s, r) \/ process_bcastshutdown(s, r)
  BY <1>0, <1>1, <1>5, ManagerNet
<1>6. CASE \E s \in Ranks :
              \/ create_thread_full(s) \/ create_thread_nomem(s)
              \/ detach_thread(s) \/ join_thread(s) \/ terminated_thread(s)
  BY <1>0, <1>1, <1>6, AnsweredNet
<1> QED
  BY <1>2, <1>3, <1>4, <1>5, <1>6, ZeroInRange DEF Next, MgrMessage

-----------------------------------------------------------------------------
(* Handles are used once *)

\* A successful join is new, of a thread that had its slot and loses it.
NewJoin(j) ==
    /\ j.thread.idx \in Slots
    /\ gtab[j.thread.idx].seq = j.thread.seq /\ j.thread.seq # 0
    /\ gtab'[j.thread.idx].seq = 0
    /\ \A i \in joinok' \ joinok : i = j

\* A join succeeds only for a thread whose slot is given up by this step.
LEMMA JoinokStep ==
    ASSUME TypeOK, JoinedGone, [Next]_vars, NEW j \in joinok', j \notin joinok
    PROVE  NewJoin(j)
<1> gtab \in Gtab
  BY DEF TypeOK, Gtab
<1>1. CASE UNCHANGED joinok
  BY <1>1, SMT
<1>2. CASE \E s \in Ranks : join_thread(s)
  <2> PICK s \in Ranks : join_thread(s)
    BY <1>2, SMT
  <2> DEFINE m == Head(net[s][0])
             h == m.thread
             n == [thread |-> h, xid |-> m.xid]
  <2>1. /\ joinok' = joinok \cup {n} /\ dthread_dt2gtab(h)
        /\ gtab' = [gtab EXCEPT ![h.idx] = gtab_free(@)]
    BY DEF join_thread
  <2>2. n.thread = h
    OBVIOUS
  <2> HIDE DEF n, h
  <2>3. j = n
    BY <2>1
  <2>4. h.idx \in Slots /\ gtab[h.idx].seq = h.seq /\ h.seq # 0
    BY <2>1 DEF dthread_dt2gtab, JoinedGone
  <2>5. gtab'[h.idx].seq = 0
    BY <2>1, <2>4, FreedSlot DEF Gtab
  <2> QED
    BY <2>1, <2>2, <2>3, <2>4, <2>5 DEF NewJoin
<1>3. CASE \E s \in Ranks : terminated_thread(s)
  <2> PICK s \in Ranks : terminated_thread(s)
    BY <1>3, SMTT(30)
  <2> DEFINE m == Head(net[s][0])
             h == m.thread
             waiting == joinwait_search(h)
             zombie == [gtab[h.idx] EXCEPT !.terminated = m.finalstate,
                                           !.has_ltab = FALSE]
  <2>1. /\ h.idx \in Slots /\ gtab[h.idx].seq = h.seq
        /\ joinok' \subseteq joinok \cup {[thread |-> h, xid |-> p.xid] :
                                             p \in waiting}
        /\ waiting # {} =>
              gtab' = [gtab EXCEPT ![h.idx] = gtab_free(zombie)]
    BY DEF terminated_thread
  <2>2. m.finalstate \in LT
    BY TakenMessage, ZeroInRange DEF terminated_thread
  <2>3. zombie \in GtabEntry
    <3>1. gtab[h.idx] \in GtabEntry
      BY <2>1, ZenonT(30) DEF Gtab
    <3> HIDE DEF m
    <3> QED
      BY <2>2, <3>1 DEF GtabEntry
  <2>4. \A p \in waiting : p.thread = h /\ p.thread.seq # 0
    BY DEF joinwait_search, JoinedGone
  <2>5. \A p, q \in waiting : p = q
    BY DEF joinwait_search, JoinedGone
  <2> HIDE DEF waiting, zombie, h
  <2>6. PICK p \in waiting : j = [thread |-> h, xid |-> p.xid]
    BY <2>1
  <2>7. j.thread = h
    BY <2>6, SMT
  <2>8. gtab'[h.idx].seq = 0
    BY <2>1, <2>3, <2>6, FreedSlot DEF Gtab
  <2>9. \A i \in joinok' \ joinok : i = j
    BY <2>1, <2>5, <2>6
  <2> QED
    BY <2>1, <2>4, <2>6, <2>7, <2>8, <2>9 DEF NewJoin
<1>4. CASE UNCHANGED vars
  BY <1>1, <1>4 DEF vars, history
<1>5. CASE Next
  BY <1>1, <1>2, <1>3, <1>5, AppFrame, MgrFrame, MessageFrame, ZeroInRange
     DEF Next, MgrRequest, MgrMessage
<1> QED
  BY <1>4, <1>5, SMT

\* Every step keeps the invariant.
LEMMA HandleStep ==
    ASSUME TypeOK, TypeOK', HandleInv, [Next]_vars
    PROVE  HandleInv'
<1> DEFINE k == seqsrc[0]
           j == seqsrc'[0]
<1>0. /\ SeqsOld /\ JoinedGone /\ JoinOnce
      /\ TypeOK'
      /\ k \in Nat /\ j \in Nat /\ k <= j
  BY SeqsrcStep, SMT DEF HandleInv
<1>a. \A g \in Slots : gtab[g].seq \in Nat /\ gtab[g].seq < k
  BY <1>0 DEF SeqsOld, TypeOK, GtabEntry
<1>b. 0 < k
  BY <1>0, <1>a, ZeroInRange, SMT
<1>c. \A s, r \in Ranks : net[s][r] # <<>> =>
         Head(net[s][r]).thread.seq \in Nat /\ Head(net[s][r]).thread.seq < k
  <2> SUFFICES ASSUME NEW s \in Ranks, NEW r \in Ranks, net[s][r] # <<>>
               PROVE  /\ Head(net[s][r]).thread.seq \in Nat
                      /\ Head(net[s][r]).thread.seq < k
    OBVIOUS
  <2>1. net \in Net /\ NetOld(net, k)
    BY <1>0 DEF TypeOK, Net, SeqsOld
  <2>2. Head(net[s][r]).thread.seq < k
    BY <1>0, <2>1, ReceivedOld
  <2>3. Head(net[s][r]) \in Msg
    BY <2>1, ReceivedType
  <2>4. Head(net[s][r]).thread.seq \in Nat
    BY <2>3 DEF Msg, Handle
  <2> QED
    BY <2>2, <2>4
<1>1. \A g \in Slots : gtab'[g].seq < j /\ (gtab'[g].allocated => gtab'[g].seq # 0)
  <2> TAKE g \in Slots
  <2>1. SlotOK(g)
    BY SlotStep, SMT
  <2>2. gtab[g].allocated => gtab[g].seq # 0
    BY <1>0 DEF JoinedGone
  <2> HIDE DEF k, j
  <2> QED
    BY <1>0, <1>a, <1>b, <2>1, <2>2, SMT
       DEF SlotOK, SlotKept, SlotFreed, SlotTaken, k, j
<1>2. \A r \in Ranks, l \in Slots : ltab'[r][l].seq < j
  <2> TAKE r \in Ranks, l \in Slots
  <2>1. ltab[r][l].seq \in Nat /\ ltab[r][l].seq < k
    BY <1>0, ZenonT(30) DEF TypeOK, LtabEntry, SeqsOld
  <2>2. ltab'[r][l].seq \in Nat /\ ltab'[r][l].seq < k
    <3>1. CASE ltab'[r][l].seq = ltab[r][l].seq
      BY <2>1, <3>1
    <3>2. CASE ltab'[r][l].seq = 0
      BY <1>b, <3>2, SMT
    <3>3. CASE \E s \in Ranks : /\ net[s][r] # <<>>
                               /\ ltab'[r][l].seq = Head(net[s][r]).thread.seq
      BY <1>c, <3>3
    <3> QED
      BY <3>1, <3>2, <3>3, LtabStep
  <2> HIDE DEF k, j
  <2> QED
    BY <1>0, <2>2, SMT
<1>3. \A r \in Ranks, l \in Slots : app'[r][l].thread.seq < j
  <2> TAKE r \in Ranks, l \in Slots
  <2>1. app[r][l].thread.seq < k /\ \A h \in known : h.seq < k
    BY <1>0 DEF SeqsOld
  <2>2. NoThread.seq < k
    BY <1>b, SMT DEF NoThread
  <2>3. app'[r][l].thread.seq < k
    BY <2>1, <2>2, AppThreadStep
  <2>4. app'[r][l].thread.seq \in Nat
    BY <1>0, SMTT(20) DEF TypeOK, AppEntry, Handle
  <2> HIDE DEF k, j
  <2> QED
    BY <1>0, <2>3, <2>4, SMT
<1>4. NetOld(net', j)
  BY <1>0, NetStep, SMT
<1>5. \A r \in Ranks : \A p \in rpending'[r] : p.thread.seq < j
  <2> TAKE r \in Ranks
  <2> TAKE p \in rpending'[r]
  <2> p.thread.seq \in Nat
    <3>1. rpending' \in [Ranks -> SUBSET Pending]
      BY <1>0 DEF TypeOK
    <3>2. p \in Pending
      BY <3>1, SMT
    <3> QED
      BY <3>2, SMT DEF Pending, Handle
  <2>2. CASE p \in rpending[r]
    BY <1>0, <2>2, SMT DEF SeqsOld
  <2>3. CASE p \notin rpending[r]
    <3>1. CASE Forwarded(r, p)
      BY <1>0, <3>1, SMT DEF Forwarded, SeqsOld
    <3>2. CASE Starting(p)
      BY <3>2, SMT DEF Starting
    <3>3. CASE Joining(p)
      BY <1>0, <1>a, <3>3, SMT DEF Joining, dthread_dt2gtab
    <3>4. Forwarded(r, p) \/ Starting(p) \/ Joining(p)
      BY <2>3, PendingStep
    <3> QED
      BY <3>1, <3>2, <3>3, <3>4
  <2> QED
    BY <2>2, <2>3
<1>6. \A h \in known' : h.seq < j
  <2> TAKE h \in known'
  <2>1. h.seq \in Nat
    BY <1>0 DEF TypeOK, Handle
  <2>2. h.seq < k
    BY <1>0, <1>c, KnownStep, ZenonT(60) DEF SeqsOld
  <2> HIDE DEF k, j
  <2> QED
    BY <1>0, <2>1, <2>2, SMT
<1>7. ASSUME NEW i \in joinok'
      PROVE  /\ i.thread.seq < j /\ i.thread.idx \in Slots /\ i.thread.seq # 0
             /\ gtab'[i.thread.idx].seq # i.thread.seq
  <2> i.thread.seq \in Nat
    BY <1>0, <1>7 DEF TypeOK, Handle
  <2>2. CASE i \in joinok
    <3>1. /\ i.thread.seq < k /\ i.thread.idx \in Slots /\ i.thread.seq # 0
          /\ gtab[i.thread.idx].seq # i.thread.seq
      BY <1>0, <2>2 DEF SeqsOld, JoinedGone
    <3>2. SlotOK(i.thread.idx)
      BY <3>1, SlotStep, SMT
    <3> QED
      BY <1>0, <3>1, <3>2, SMTT(30)
         DEF SlotOK, SlotKept, SlotFreed, SlotTaken
  <2>3. CASE i \notin joinok
    <3>1. NewJoin(i)
      BY <1>0, <1>7, <2>3, JoinokStep, SMT
    <3> QED
      BY <1>0, <1>a, <3>1, SMTT(20) DEF NewJoin
  <2> QED
    BY <2>2, <2>3
<1>8. ASSUME NEW p \in rpending'[0], p.op = "JOINWAIT"
      PROVE  /\ p.thread.seq # 0
             /\ \A q \in rpending'[0] :
                   q.op = "JOINWAIT" /\ p.thread = q.thread => p = q
  <2>1. ASSUME NEW q \in rpending'[0], q.op = "JOINWAIT", q \notin rpending[0]
        PROVE  Joining(q)
    BY <2>1, PendingStep, ZeroInRange DEF Forwarded, Starting
  <2>2. CASE p \in rpending[0] /\ \A q \in rpending'[0] :
                 q.op = "JOINWAIT" => q \in rpending[0]
    BY <1>0, <1>8, <2>2 DEF JoinedGone
  <2>3. CASE p \notin rpending[0]
    <3>1. Joining(p)
      BY <1>8, <2>1, <2>3, SMT
    <3>2. p.thread.seq # 0
      BY <1>0, <3>1 DEF Joining, dthread_dt2gtab, JoinedGone
    <3>3. \A q \in rpending'[0] :
             q.op = "JOINWAIT" /\ p.thread = q.thread => p = q
      BY <3>1, SMT DEF Joining, joinwait_search
    <3> QED
      BY <3>2, <3>3, SMT
  <2>4. CASE p \in rpending[0] /\ \E q \in rpending'[0] :
                 q.op = "JOINWAIT" /\ q \notin rpending[0]
    <3>1. PICK q \in rpending'[0] : q.op = "JOINWAIT" /\ q \notin rpending[0]
      BY <2>4, SMT
    <3>2. Joining(q)
      BY <2>1, <3>1, SMT
    <3>3. p.thread # q.thread
      BY <1>8, <2>4, <3>2, SMT DEF Joining, joinwait_search
    <3> QED
      BY <1>0, <1>8, <2>4, <3>2, <3>3 DEF Joining, JoinedGone
  <2> QED
    BY <2>2, <2>3, <2>4
<1>9. JoinOnce'
  <2> SUFFICES ASSUME NEW a \in joinok', NEW b \in joinok', a.thread = b.thread
               PROVE  a = b
    BY SMT DEF JoinOnce
  <2>0. ASSUME NEW x \in joinok', NEW y \in joinok', x.thread = y.thread,
               x \notin joinok
        PROVE  x = y
    <3>1. NewJoin(x)
      BY <1>0, <2>0, JoinokStep, SMT
    <3>2. CASE y \in joinok
      <4>1. gtab[y.thread.idx].seq # y.thread.seq
        BY <1>0, <3>2 DEF JoinedGone
      <4> QED
        BY <2>0, <3>1, <4>1 DEF NewJoin
    <3>3. CASE y \notin joinok
      BY <2>0, <3>1, <3>3 DEF NewJoin
    <3> QED
      BY <3>2, <3>3, SMT
  <2>1. CASE a \in joinok /\ b \in joinok
    BY <1>0, <2>1 DEF JoinOnce
  <2>2. CASE a \notin joinok
    BY <2>2, <2>0
  <2>3. CASE b \notin joinok
    BY <2>3, <2>0
  <2> QED
    BY <2>1, <2>2, <2>3, SMT
<1> QED
  BY <1>1, <1>2, <1>3, <1>4, <1>5, <1>6, <1>7, <1>8, <1>9, ZeroInRange, ZenonT(30)
     DEF HandleInv, SeqsOld, JoinedGone, NetOld

\* A step makes no handle that is in use, and invalid, valid.
LEMMA InvalidStep ==
    ASSUME TypeOK, TypeOK', HandleInv, [Next]_vars, NEW h \in known, ~dthread_dt2gtab(h)
    PROVE  ~(dthread_dt2gtab(h)')
<1>1. CASE h.idx \notin Slots
  BY <1>1, SMT DEF dthread_dt2gtab
<1>2. CASE h.idx \in Slots
  <2>1. SlotOK(h.idx)
    BY <1>2, SlotStep, SMT
  <2>2. h.seq < seqsrc[0] /\ h.seq \in Nat /\ seqsrc[0] \in Nat
    BY SeqsrcStep DEF HandleInv, SeqsOld, TypeOK, Handle
  <2>3. CASE SlotKept(h.idx)
    BY <1>2, <2>3 DEF dthread_dt2gtab, SlotKept
  <2>4. CASE SlotFreed(h.idx)
    BY <2>4 DEF dthread_dt2gtab, SlotFreed
  <2>5. CASE SlotTaken(h.idx)
    <3>1. gtab'[h.idx].seq # h.seq
      BY <2>2, <2>5, SMT DEF SlotTaken
    <3> QED
      BY <3>1 DEF dthread_dt2gtab
  <2> QED
    BY <2>1, <2>3, <2>4, <2>5, SMT DEF SlotOK
<1> QED
  BY <1>1, <1>2, SMT

-----------------------------------------------------------------------------
(* Calls: the request block, the request queue and the pending requests *)

\* The request queues hold entries of the local tables.
LEMMA QueueSlots ==
    ASSUME TypeOK
    PROVE  \A q \in Ranks : /\ mgrreqq[q] \in Seq(Slots)
                            /\ \A i \in 1 .. Len(mgrreqq[q]) : mgrreqq[q][i] \in Slots
<1>1. \A q \in Ranks : mgrreqq[q] \in Seq(Slots)
  BY DEF TypeOK
<1> QED
  BY <1>1, SMT

\* No entry of the queue occurs twice in it; x is not in it; the entries of t
\* are all in it.
Once(s) == \A i, j \in 1 .. Len(s) : s[i] = s[j] => i = j
Avoids(s, x) == \A i \in 1 .. Len(s) : s[i] # x
Within(t, s) == \A i \in 1 .. Len(t) : \E j \in 1 .. Len(s) : t[i] = s[j]

\* A part of a queue avoids what the queue avoids.
LEMMA WithinAvoids ==
    ASSUME NEW s, NEW t, NEW x, Within(t, s), Avoids(s, x)
    PROVE  Avoids(t, x)
BY DEF Within, Avoids

\* A queue without its head.
LEMMA OnceTail ==
    ASSUME NEW S, NEW s \in Seq(S), s # <<>>, Once(s)
    PROVE  Once(Tail(s)) /\ Within(Tail(s), s) /\ Avoids(Tail(s), Head(s))
<1>1. /\ Len(s) \in Nat /\ Len(s) >= 1 /\ Head(s) = s[1]
      /\ Len(Tail(s)) = Len(s) - 1
      /\ \A i \in 1 .. Len(s) - 1 : Tail(s)[i] = s[i + 1]
  BY TailFacts
<1> DEFINE t == Tail(s)
<1>2. \A i \in 1 .. Len(t) :
         i \in Nat /\ i + 1 \in 1 .. Len(s) /\ i + 1 # 1 /\ t[i] = s[i + 1]
  BY <1>1, SMT
<1>3. 1 \in 1 .. Len(s) /\ Head(s) = s[1]
  BY <1>1, SMT
<1> HIDE DEF t
<1>4. Within(t, s)
  BY <1>2 DEF Within
<1>5. Avoids(t, Head(s))
  BY <1>2, <1>3, SMT DEF Avoids, Once
<1>6. Once(t)
  BY <1>2, SMT DEF Once
<1> QED
  BY <1>4, <1>5, <1>6 DEF t

\* A queue with one more entry.
LEMMA OnceAppend ==
    ASSUME NEW S, NEW s \in Seq(S), NEW x \in S, Once(s), Avoids(s, x)
    PROVE  /\ Once(Append(s, x))
           /\ \A y : Avoids(s, y) /\ x # y => Avoids(Append(s, x), y)
           /\ \A i \in 1 .. Len(Append(s, x)) :
                 \/ Append(s, x)[i] = x
                 \/ \E j \in 1 .. Len(s) : Append(s, x)[i] = s[j]
BY SMTT(30) DEF Once, Avoids

\* The invariant in these terms.
LEMMA QueuedOnceDef ==
    ASSUME CallInv
    PROVE  \A q \in Ranks :
              /\ Once(mgrreqq[q])
              /\ \A i \in 1 .. Len(mgrreqq[q]) :
                    app[q][mgrreqq[q][i]].pc \in {"busy", "clean"}
BY DEF CallInv, QueuedOnce, Once
LEMMA PendingOnceDef ==
    ASSUME CallInv
    PROVE  \A q \in Ranks : \A p \in rpending[q] :
              /\ p.op \notin Requests => p.lidx = NMaxThread
              /\ p.op \in Requests =>
                    /\ p.lidx \in Slots
                    /\ app[q][p.lidx].pc = "busy"
                    /\ Avoids(mgrreqq[q], p.lidx)
                    /\ \A x \in rpending[q] : x.lidx = p.lidx => x = p
BY DEF CallInv, PendingOnce, Avoids
LEMMA QueuedOnceNext ==
    ASSUME \A q \in Ranks :
              /\ Once(mgrreqq'[q])
              /\ \A i \in 1 .. Len(mgrreqq'[q]) :
                    app'[q][mgrreqq'[q][i]].pc \in {"busy", "clean"}
    PROVE  QueuedOnce'
BY DEF QueuedOnce, Once
LEMMA PendingOnceNext ==
    ASSUME \A q \in Ranks : \A p \in rpending'[q] :
              /\ p.op \notin Requests => p.lidx = NMaxThread
              /\ p.op \in Requests =>
                    /\ p.lidx \in Slots
                    /\ app'[q][p.lidx].pc = "busy"
                    /\ Avoids(mgrreqq'[q], p.lidx)
                    /\ \A x \in rpending'[q] : x.lidx = p.lidx => x = p
    PROVE  PendingOnce'
BY DEF PendingOnce, Avoids

\* A request block that is not that of the thread is not written.
LEMMA SetsOther ==
    ASSUME NEW r \in Ranks, NEW l \in Slots, NEW e, Sets(r, l, e),
           NEW q \in Ranks, NEW k \in Slots, ~(q = r /\ k = l)
    PROVE  app'[q][k] = app[q][k]
BY DEF Sets

\* A thread that neither waits nor is gone moves on.
LEMMA CallMoved ==
    ASSUME TypeOK, CallInv, NEW r \in Ranks, NEW l \in Slots, NEW e,
           Sets(r, l, e), BlockOK(e), app[r][l].pc \notin {"busy", "clean"},
           UNCHANGED <<mgrreqq, rpending>>
    PROVE  CallInv'
<1>1. RequestBlocks'
  BY SMT DEF CallInv, RequestBlocks, Sets, BlockOK
<1>2. QueuedOnce'
  <2>1. ASSUME NEW q \in Ranks
        PROVE  /\ Once(mgrreqq[q])
               /\ \A i \in 1 .. Len(mgrreqq[q]) :
                     app'[q][mgrreqq[q][i]].pc \in {"busy", "clean"}
    <3>1. ASSUME NEW i \in 1 .. Len(mgrreqq[q])
          PROVE  app'[q][mgrreqq[q][i]].pc \in {"busy", "clean"}
      <4>1. app[q][mgrreqq[q][i]].pc \in {"busy", "clean"} /\ mgrreqq[q][i] \in Slots
        BY QueuedOnceDef, QueueSlots
      <4>2. ~(q = r /\ mgrreqq[q][i] = l)
        BY <4>1
      <4>3. app'[q][mgrreqq[q][i]] = app[q][mgrreqq[q][i]]
        BY <4>1, <4>2, SetsOther, ZenonT(60)
      <4> QED
        BY <4>1, <4>3
    <3> QED
      BY <3>1, QueuedOnceDef
  <2> QED
    BY <2>1, QueuedOnceNext
<1>3. PendingOnce'
  <2>1. ASSUME NEW q \in Ranks, NEW p \in rpending[q], p.op \in Requests
        PROVE  app'[q][p.lidx].pc = "busy"
    <3>1. p.lidx \in Slots /\ app[q][p.lidx].pc = "busy"
      BY <2>1, PendingOnceDef
    <3>2. ~(q = r /\ p.lidx = l)
      BY <3>1
    <3>3. app'[q][p.lidx] = app[q][p.lidx]
      BY <3>1, <3>2, SetsOther, ZenonT(60)
    <3> QED
      BY <3>1, <3>3
  <2> QED
    BY <2>1, PendingOnceDef, PendingOnceNext, ZenonT(60)
<1> QED
  BY <1>1, <1>2, <1>3 DEF CallInv

\* A thread hands its manager a request.
LEMMA CallQueued ==
    ASSUME TypeOK, CallInv, NEW r \in Ranks, NEW l \in Slots, NEW e,
           Sets(r, l, e), BlockOK(e), e.pc \in {"busy", "clean"},
           app[r][l].pc \notin {"busy", "clean"},
           mgrreqq' = [mgrreqq EXCEPT ![r] = Append(@, l)],
           UNCHANGED rpending
    PROVE  CallInv'
<1>1. RequestBlocks'
  BY SMT DEF CallInv, RequestBlocks, Sets, BlockOK
<1>2. Avoids(mgrreqq[r], l)
  BY QueuedOnceDef DEF Avoids
<1>3. mgrreqq[r] \in Seq(Slots)
  BY QueueSlots
<1>4. \A q \in Ranks : mgrreqq'[q] = IF q = r THEN Append(mgrreqq[q], l)
                                             ELSE mgrreqq[q]
  BY DEF TypeOK
<1>5. /\ Once(mgrreqq'[r])
      /\ \A y : Avoids(mgrreqq[r], y) /\ l # y => Avoids(mgrreqq'[r], y)
      /\ \A i \in 1 .. Len(mgrreqq'[r]) :
            \/ mgrreqq'[r][i] = l
            \/ \E j \in 1 .. Len(mgrreqq[r]) : mgrreqq'[r][i] = mgrreqq[r][j]
  <2>1. mgrreqq'[r] = Append(mgrreqq[r], l)
    BY <1>4
  <2>2. Once(mgrreqq[r])
    BY QueuedOnceDef
  <2>3. /\ Once(Append(mgrreqq[r], l))
        /\ \A y : Avoids(mgrreqq[r], y) /\ l # y => Avoids(Append(mgrreqq[r], l), y)
        /\ \A i \in 1 .. Len(Append(mgrreqq[r], l)) :
              \/ Append(mgrreqq[r], l)[i] = l
              \/ \E j \in 1 .. Len(mgrreqq[r]) : Append(mgrreqq[r], l)[i] = mgrreqq[r][j]
    BY <1>2, <1>3, <2>2, OnceAppend, SMT
  <2> QED
    BY <2>1, <2>3
<1>6. \A q \in Ranks : q # r => mgrreqq'[q] = mgrreqq[q]
  BY <1>4
<1>7. ASSUME NEW q \in Ranks, NEW j \in 1 .. Len(mgrreqq[q])
      PROVE  app'[q][mgrreqq[q][j]].pc \in {"busy", "clean"}
  <2>1. app[q][mgrreqq[q][j]].pc \in {"busy", "clean"} /\ mgrreqq[q][j] \in Slots
    BY <1>7, QueuedOnceDef, QueueSlots
  <2>2. ~(q = r /\ mgrreqq[q][j] = l)
    BY <2>1
  <2>3. app'[q][mgrreqq[q][j]] = app[q][mgrreqq[q][j]]
    BY <2>1, <2>2, SetsOther, ZenonT(60)
  <2> QED
    BY <2>1, <2>3
<1>8. QueuedOnce'
  <2>1. app'[r][l].pc \in {"busy", "clean"}
    BY DEF Sets
  <2>2. ASSUME NEW q \in Ranks
        PROVE  /\ Once(mgrreqq'[q])
               /\ \A i \in 1 .. Len(mgrreqq'[q]) :
                     app'[q][mgrreqq'[q][i]].pc \in {"busy", "clean"}
    <3>1. CASE q = r
      <4>1. \A i \in 1 .. Len(mgrreqq'[r]) :
               app'[r][mgrreqq'[r][i]].pc \in {"busy", "clean"}
        BY <1>5, <1>7, <2>1
      <4> QED
        BY <1>5, <3>1, <4>1
    <3>2. CASE q # r
      <4>1. mgrreqq'[q] = mgrreqq[q]
        BY <1>6, <3>2
      <4>2. Once(mgrreqq[q])
        BY QueuedOnceDef
      <4> QED
        BY <1>7, <4>1, <4>2
    <3> QED
      BY <3>1, <3>2
  <2> QED
    BY <2>2, QueuedOnceNext
<1>9. PendingOnce'
  <2>1. ASSUME NEW q \in Ranks, NEW p \in rpending[q], p.op \in Requests
        PROVE  app'[q][p.lidx].pc = "busy" /\ Avoids(mgrreqq'[q], p.lidx)
    <3>1. /\ p.lidx \in Slots /\ app[q][p.lidx].pc = "busy"
          /\ Avoids(mgrreqq[q], p.lidx)
      BY <2>1, PendingOnceDef
    <3>2. ~(q = r /\ p.lidx = l)
      BY <3>1
    <3>3. app'[q][p.lidx] = app[q][p.lidx]
      BY <3>1, <3>2, SetsOther, ZenonT(60)
    <3>4. Avoids(mgrreqq'[q], p.lidx)
      <4>1. CASE q = r
        <5>1. Avoids(mgrreqq[r], p.lidx) /\ l # p.lidx
          BY <3>1, <3>2, <4>1
        <5>2. Avoids(mgrreqq'[r], p.lidx)
          BY <1>5, <5>1
        <5> QED
          BY <4>1, <5>2
      <4>2. CASE q # r
        <5>1. mgrreqq'[q] = mgrreqq[q]
          BY <1>6, <4>2
        <5> QED
          BY <3>1, <5>1
      <4> QED
        BY <4>1, <4>2
    <3> QED
      BY <3>1, <3>3, <3>4
  <2> QED
    BY <2>1, PendingOnceDef, PendingOnceNext, ZenonT(60)
<1> QED
  BY <1>1, <1>8, <1>9 DEF CallInv

\* Manager 0's own requests are nobody's call.
LEMMA CallInternal ==
    ASSUME TypeOK, CallInv, UNCHANGED <<app, mgrreqq>>,
           \A r \in Ranks : \A p \in rpending'[r] :
               \/ p \in rpending[r]
               \/ p.op \notin Requests /\ p.lidx = NMaxThread
    PROVE  CallInv'
<1>1. NMaxThread \notin Slots
  BY NMaxThreadAssumption, SMT DEF Slots
<1>2. RequestBlocks'
  BY SMTT(20) DEF CallInv, RequestBlocks
<1>3. QueuedOnce'
  BY SMTT(20) DEF CallInv, QueuedOnce
<1>4. PendingOnce'
  BY <1>1, SMTT(20) DEF CallInv, PendingOnce
<1> QED
  BY <1>2, <1>3, <1>4 DEF CallInv

\* What leaves the calls, the queues and the pending requests alone keeps them
\* in order.
LEMMA CallSame ==
    ASSUME CallInv, UNCHANGED <<app, mgrreqq, rpending>>
    PROVE  CallInv'
<1>1. RequestBlocks'
  BY SMT DEF CallInv, RequestBlocks
<1>2. QueuedOnce'
  BY SMT DEF CallInv, QueuedOnce
<1>3. PendingOnce'
  BY SMT DEF CallInv, PendingOnce
<1> QED
  BY <1>1, <1>2, <1>3 DEF CallInv

\* The thread in entry l of rank r moves to v, and nothing else of its request
\* block is written.
WritesPc(r, l, v) == app' = WithPc(r, l, v)
SetsPc(r, l, v) ==
    \E e : /\ Sets(r, l, e) /\ e.pc = v
          /\ e.op = app[r][l].op /\ e.thread = app[r][l].thread

\* A thread that moves keeps its call.
LEMMA PcWritten ==
    ASSUME app \in App, NEW r \in Ranks, NEW l \in Slots, NEW v,
           WritesPc(r, l, v)
    PROVE  SetsPc(r, l, v)
BY AppSetPc, SMT DEF WritesPc, SetsPc

\* Taking the first request leaves the others, none of which is its thread's.
LEMMA Dequeued ==
    ASSUME TypeOK, CallInv, NEW r \in Ranks, mgrreqq[r] # <<>>,
           mgrreqq' = [mgrreqq EXCEPT ![r] = Tail(@)]
    PROVE  /\ \A q \in Ranks : Once(mgrreqq'[q]) /\ Within(mgrreqq'[q], mgrreqq[q])
           /\ Avoids(mgrreqq'[r], Head(mgrreqq[r]))
<1>1. /\ Once(Tail(mgrreqq[r])) /\ Within(Tail(mgrreqq[r]), mgrreqq[r])
      /\ Avoids(Tail(mgrreqq[r]), Head(mgrreqq[r]))
  <2>1. mgrreqq[r] \in Seq(Slots) /\ Once(mgrreqq[r])
    BY QueueSlots, QueuedOnceDef
  <2> QED
    BY <2>1, OnceTail
<1>2. \A q \in Ranks : mgrreqq'[q] = IF q = r THEN Tail(mgrreqq[q]) ELSE mgrreqq[q]
  BY DEF TypeOK
<1>3. mgrreqq'[r] = Tail(mgrreqq[r])
  BY <1>2
<1>4. ASSUME NEW q \in Ranks
      PROVE  Once(mgrreqq'[q]) /\ Within(mgrreqq'[q], mgrreqq[q])
  <2>1. CASE q = r
    BY <1>1, <1>3, <2>1
  <2>2. CASE q # r
    <3>1. mgrreqq'[q] = mgrreqq[q]
      BY <1>2, <2>2
    <3>2. Once(mgrreqq[q]) /\ Within(mgrreqq[q], mgrreqq[q])
      BY QueuedOnceDef DEF Within
    <3> QED
      BY <3>1, <3>2
  <2> QED
    BY <2>1, <2>2
<1> QED
  BY <1>1, <1>3, <1>4

\* A thread that is still queued is not the one whose request was taken.
LEMMA StillQueued ==
    ASSUME TypeOK, CallInv, NEW r \in Ranks, mgrreqq[r] # <<>>,
           mgrreqq' = [mgrreqq EXCEPT ![r] = Tail(@)],
           NEW q \in Ranks, NEW i \in 1 .. Len(mgrreqq'[q])
    PROVE  /\ mgrreqq'[q][i] \in Slots
           /\ ~(q = r /\ mgrreqq'[q][i] = Head(mgrreqq[r]))
           /\ app[q][mgrreqq'[q][i]].pc \in {"busy", "clean"}
<1>1. PICK j \in 1 .. Len(mgrreqq[q]) : mgrreqq'[q][i] = mgrreqq[q][j]
  <2>1. Within(mgrreqq'[q], mgrreqq[q])
    BY Dequeued
  <2> QED
    BY <2>1 DEF Within
<1>2. mgrreqq[q][j] \in Slots /\ app[q][mgrreqq[q][j]].pc \in {"busy", "clean"}
  BY QueueSlots, QueuedOnceDef
<1>3. ASSUME q = r, mgrreqq'[q][i] = Head(mgrreqq[r])
      PROVE  FALSE
  <2>1. Avoids(mgrreqq'[r], Head(mgrreqq[r]))
    BY Dequeued
  <2>2. i \in 1 .. Len(mgrreqq'[r]) /\ mgrreqq'[r][i] = Head(mgrreqq[r])
    BY <1>3
  <2> QED
    BY <2>1, <2>2 DEF Avoids
<1> QED
  BY <1>1, <1>2, <1>3

\* A request is taken and its thread is done with it or gone.
LEMMA CallEnded ==
    ASSUME TypeOK, CallInv, NEW r \in Ranks, mgrreqq[r] # <<>>, NEW e,
           mgrreqq' = [mgrreqq EXCEPT ![r] = Tail(@)],
           Sets(r, Head(mgrreqq[r]), e), BlockOK(e), UNCHANGED rpending
    PROVE  CallInv'
<1> DEFINE l == Head(mgrreqq[r])
<1>0. /\ l \in Slots
      /\ \A p \in rpending[r] : p.op \in Requests => p.lidx # l
  BY FirstRequest
<1>1. \A q \in Ranks : Once(mgrreqq'[q]) /\ Within(mgrreqq'[q], mgrreqq[q])
  BY Dequeued
<1>2. Sets(r, l, e)
  BY SMT
<1>3. \A q \in Ranks : \A i \in 1 .. Len(mgrreqq'[q]) :
         /\ mgrreqq'[q][i] \in Slots /\ ~(q = r /\ mgrreqq'[q][i] = l)
         /\ app[q][mgrreqq'[q][i]].pc \in {"busy", "clean"}
  BY StillQueued
<1> HIDE DEF l
<1>4. RequestBlocks'
  BY <1>2, SMT DEF CallInv, RequestBlocks, Sets, BlockOK
<1>5. QueuedOnce'
  <2>1. ASSUME NEW q \in Ranks, NEW i \in 1 .. Len(mgrreqq'[q])
        PROVE  app'[q][mgrreqq'[q][i]].pc \in {"busy", "clean"}
    <3> DEFINE k == mgrreqq'[q][i]
    <3> SUFFICES app'[q][k].pc \in {"busy", "clean"}
      OBVIOUS
    <3>1. /\ k \in Slots /\ ~(q = r /\ k = l)
          /\ app[q][k].pc \in {"busy", "clean"}
      BY <1>3, <2>1
    <3> HIDE DEF k
    <3>2. app'[q][k] = app[q][k]
      BY <1>0, <1>2, <3>1, SetsOther, ZenonT(60)
    <3> QED
      BY <3>1, <3>2
  <2> QED
    BY <1>1, <2>1, QueuedOnceNext
<1>6. PendingOnce'
  <2>1. ASSUME NEW q \in Ranks, NEW p \in rpending[q], p.op \in Requests
        PROVE  app'[q][p.lidx].pc = "busy" /\ Avoids(mgrreqq'[q], p.lidx)
    <3>1. /\ p.lidx \in Slots /\ app[q][p.lidx].pc = "busy"
          /\ Avoids(mgrreqq[q], p.lidx)
      BY <2>1, PendingOnceDef
    <3>2. ~(q = r /\ p.lidx = l)
      BY <1>0, <2>1
    <3>3. app'[q][p.lidx] = app[q][p.lidx]
      BY <1>0, <1>2, <3>1, <3>2, SetsOther, ZenonT(60)
    <3>4. Avoids(mgrreqq'[q], p.lidx)
      BY <1>1, <3>1, WithinAvoids
    <3> QED
      BY <3>1, <3>3, <3>4
  <2> QED
    BY <2>1, PendingOnceDef, PendingOnceNext, ZenonT(60)
<1> QED
  BY <1>4, <1>5, <1>6 DEF CallInv

\* A request is taken and becomes pending.
LEMMA CallForwarded ==
    ASSUME TypeOK, CallInv, NEW r \in Ranks, mgrreqq[r] # <<>>,
           mgrreqq' = [mgrreqq EXCEPT ![r] = Tail(@)], UNCHANGED app,
           NEW p, p.op \in Requests, p.lidx = Head(mgrreqq[r]),
           app[r][Head(mgrreqq[r])].op \in Requests,
           rpending' = [rpending EXCEPT ![r] = @ \cup {p}]
    PROVE  CallInv'
<1>0. /\ p.lidx \in Slots /\ app[r][p.lidx].pc = "busy"
      /\ \A x \in rpending[r] : x.op \in Requests => x.lidx # p.lidx
  BY FirstRequest, ZenonT(60) DEF CallInv, RequestBlocks, Requests
<1>1. /\ \A q \in Ranks : Once(mgrreqq'[q]) /\ Within(mgrreqq'[q], mgrreqq[q])
      /\ Avoids(mgrreqq'[r], p.lidx)
  BY Dequeued
<1>2. \A q \in Ranks : \A x : x \in rpending'[q] <=> x \in rpending[q] \/ (q = r /\ x = p)
  BY DEF TypeOK
<1>3. \A x \in rpending[r] : x.lidx # p.lidx
  <2>1. NMaxThread \notin Slots
    BY NMaxThreadAssumption, SMT DEF Slots
  <2> QED
    BY <1>0, <2>1, PendingOnceDef, ZenonT(60)
<1>4. RequestBlocks'
  BY DEF CallInv, RequestBlocks
<1>5. QueuedOnce'
  <2>1. \A q \in Ranks : \A i \in 1 .. Len(mgrreqq'[q]) :
           app'[q][mgrreqq'[q][i]].pc \in {"busy", "clean"}
    BY StillQueued
  <2> QED
    BY <1>1, <2>1, QueuedOnceNext
<1>6. PendingOnce'
  <2>1. ASSUME NEW q \in Ranks, NEW x \in rpending'[q]
        PROVE  /\ x.op \notin Requests => x.lidx = NMaxThread
               /\ x.op \in Requests =>
                     /\ x.lidx \in Slots
                     /\ app[q][x.lidx].pc = "busy"
                     /\ Avoids(mgrreqq'[q], x.lidx)
                     /\ \A y \in rpending'[q] : y.lidx = x.lidx => y = x
    <3>1. CASE q = r /\ x = p
      <4>1. \A y \in rpending'[r] : y.lidx = p.lidx => y = p
        BY <1>2, <1>3
      <4> QED
        BY <1>0, <1>1, <3>1, <4>1
    <3>2. CASE x \in rpending[q]
      <4>1. /\ x.op \notin Requests => x.lidx = NMaxThread
            /\ x.op \in Requests =>
                  /\ x.lidx \in Slots /\ app[q][x.lidx].pc = "busy"
                  /\ Avoids(mgrreqq[q], x.lidx)
                  /\ \A y \in rpending[q] : y.lidx = x.lidx => y = x
        BY <3>2, PendingOnceDef
      <4>2. Avoids(mgrreqq[q], x.lidx) => Avoids(mgrreqq'[q], x.lidx)
        BY <1>1, WithinAvoids
      <4>3. q = r => x.lidx # p.lidx
        BY <1>3, <3>2
      <4>4. x.op \in Requests => \A y \in rpending'[q] : y.lidx = x.lidx => y = x
        BY <1>2, <4>1, <4>3
      <4> QED
        BY <4>1, <4>2, <4>4
    <3> QED
      BY <1>2, <2>1, <3>1, <3>2
  <2> QED
    BY <2>1, PendingOnceNext
<1> QED
  BY <1>4, <1>5, <1>6 DEF CallInv

\* A reply wakes the threads whose calls it ends.
LEMMA CallAnswered ==
    ASSUME TypeOK, CallInv, NEW r \in Ranks, NEW found \in SUBSET rpending[r],
           \A p \in found : p.op \in Requests,
           UNCHANGED mgrreqq, rpending' = [rpending EXCEPT ![r] = @ \ found],
           \A q \in Ranks, k \in Slots :
              /\ app'[q][k].op = app[q][k].op
              /\ app'[q][k].pc = IF q = r /\ (\E p \in found : p.lidx = k)
                                 THEN "done" ELSE app[q][k].pc
    PROVE  CallInv'
<1>a. \A q \in Ranks, k \in Slots :
         \/ app'[q][k].pc = app[q][k].pc
         \/ app'[q][k].pc = "done" /\ \E p \in found : p.lidx = k /\ q = r
  BY SMT
<1>b. \A p \in found : app[r][p.lidx].pc = "busy" /\ Avoids(mgrreqq[r], p.lidx)
  BY PendingOnceDef
<1>0. \A q \in Ranks, k \in Slots :
         app'[q][k].pc # app[q][k].pc => app[q][k].pc = "busy" /\ app'[q][k].pc = "done"
  BY <1>a, <1>b, SMT
<1>1. RequestBlocks'
  BY <1>0, SMTT(20) DEF CallInv, RequestBlocks
<1>2. QueuedOnce'
  <2>1. ASSUME NEW q \in Ranks, NEW i \in 1 .. Len(mgrreqq[q])
        PROVE  app'[q][mgrreqq[q][i]].pc \in {"busy", "clean"}
    <3> DEFINE k == mgrreqq[q][i]
    <3> SUFFICES app'[q][k].pc \in {"busy", "clean"}
      OBVIOUS
    <3>1. k \in Slots /\ app[q][k].pc \in {"busy", "clean"}
      BY <2>1, QueueSlots, QueuedOnceDef
    <3>2. ASSUME NEW p \in found, p.lidx = k, q = r
          PROVE  FALSE
      <4>1. Avoids(mgrreqq[q], p.lidx)
        BY <1>b, <3>2
      <4> QED
        BY <2>1, <3>2, <4>1 DEF Avoids
    <3> HIDE DEF k
    <3>3. app'[q][k].pc = app[q][k].pc \/ \E p \in found : p.lidx = k /\ q = r
      BY <1>a, <3>1
    <3> QED
      BY <3>1, <3>2, <3>3
  <2> QED
    BY <2>1, QueuedOnceDef, QueuedOnceNext
<1>3. PendingOnce'
  <2>1. \A q \in Ranks : \A x : x \in rpending'[q] <=>
                               x \in rpending[q] /\ ~(q = r /\ x \in found)
    BY DEF TypeOK
  <2>2. ASSUME NEW q \in Ranks, NEW x \in rpending'[q]
        PROVE  /\ x.op \notin Requests => x.lidx = NMaxThread
               /\ x.op \in Requests =>
                     /\ x.lidx \in Slots
                     /\ app'[q][x.lidx].pc = "busy"
                     /\ Avoids(mgrreqq[q], x.lidx)
                     /\ \A y \in rpending'[q] : y.lidx = x.lidx => y = x
    <3>1. x \in rpending[q] /\ ~(q = r /\ x \in found)
      BY <2>1, <2>2
    <3>2. /\ x.op \notin Requests => x.lidx = NMaxThread
          /\ x.op \in Requests =>
                /\ x.lidx \in Slots /\ app[q][x.lidx].pc = "busy"
                /\ Avoids(mgrreqq[q], x.lidx)
                /\ \A y \in rpending[q] : y.lidx = x.lidx => y = x
      BY <3>1, PendingOnceDef
    <3>3. ASSUME x.op \in Requests, NEW p \in found, p.lidx = x.lidx, q = r
          PROVE  FALSE
      <4>1. p \in rpending[q]
        BY <3>3
      <4> QED
        BY <3>1, <3>2, <3>3, <4>1
    <3>4. x.op \in Requests => app'[q][x.lidx].pc = "busy"
      <4> DEFINE k == x.lidx
      <4> SUFFICES ASSUME x.op \in Requests, k \in Slots, app[q][k].pc = "busy"
                   PROVE  app'[q][k].pc = "busy"
        BY <3>2
      <4>1. ~ \E p \in found : p.lidx = k /\ q = r
        BY <3>3
      <4> HIDE DEF k
      <4>2. app'[q][k].pc = app[q][k].pc \/ \E p \in found : p.lidx = k /\ q = r
        BY <1>a
      <4> QED
        BY <4>1, <4>2
    <3>5. \A y \in rpending'[q] : y \in rpending[q]
      BY <2>1
    <3> QED
      BY <3>2, <3>4, <3>5
  <2> QED
    BY <2>2, PendingOnceNext, ZenonT(60)
<1> QED
  BY <1>1, <1>2, <1>3 DEF CallInv

\* Application threads keep the calls in order.
LEMMA AppCalls ==
    ASSUME TypeOK, CallInv, NEW r \in Ranks, NEW l \in Slots,
           AppChoice(r, l) \/ AppStep(r, l)
    PROVE  CallInv'
<1> app \in App
  BY DEF TypeOK, App
<1>1. ASSUME NEW state, retclean_request(r, l, state),
             app[r][l].pc \in {"wrap", "run", "exit", "return"}
      PROVE  CallInv'
  <2>1. app[r][l].pc \notin {"busy", "clean"}
    BY <1>1
  <2> QED
    BY <1>1, <2>1, RetcleanEffect, BlankBlocks, CallQueued
<1>2. CASE AppChoice(r, l)
  <2>1. ASSUME NEW how \in {"exit", "return"}, app_leaves(r, l, how)
        PROVE  CallInv'
    <3>1. /\ WritesPc(r, l, how)
          /\ UNCHANGED <<mgrreqq, rpending>> /\ app[r][l].pc = "run"
      BY <2>1 DEF app_leaves, Alive, WritesPc, WithPc
    <3>2. PICK e : /\ Sets(r, l, e) /\ e.pc = how
                   /\ e.op = app[r][l].op /\ e.thread = app[r][l].thread
      <4>1. SetsPc(r, l, how)
        BY <3>1, PcWritten
      <4> QED
        BY <4>1 DEF SetsPc
    <3>3. BlockOK(app[r][l])
      BY DEF CallInv, RequestBlocks, BlockOK
    <3>4. BlockOK(e)
      BY <2>1, <3>1, <3>2, <3>3 DEF BlockOK
    <3> QED
      BY <3>1, <3>2, <3>4, CallMoved
  <2>2. ASSUME NEW op \in Requests, NEW h, NEW peer, NEW attr,
               Call(r, l, op, h, peer, attr)
        PROVE  CallInv'
    <3> DEFINE e == [pc |-> "busy", op |-> op, thread |-> h, peer |-> peer,
                     attr |-> attr]
    <3>1. /\ app' = [app EXCEPT ![r][l] = e]
          /\ mgrreqq' = [mgrreqq EXCEPT ![r] = Append(@, l)]
          /\ UNCHANGED rpending /\ app[r][l].pc = "run"
      BY <2>2 DEF Call, Alive
    <3>2. BlockOK(e) /\ e.pc = "busy"
      BY DEF BlockOK, Requests
    <3> HIDE DEF e
    <3>3. Sets(r, l, e)
      BY <3>1, AppSet
    <3> QED
      BY <3>1, <3>2, <3>3, CallQueued
  <2>3. dthreadcleanup_unwound(r, l) => CallInv'
    BY <1>1 DEF dthreadcleanup_unwound, Alive
  <2> QED
    BY <1>2, <2>1, <2>2, <2>3 DEF AppChoice, dthread_create,
       dthread_detach, dthread_cancel, dthread_join, Requests
<1>3. CASE dthreadwrap(r, l)
  <2>1. /\ WritesPc(r, l, "run")
        /\ UNCHANGED <<mgrreqq, rpending>> /\ app[r][l].pc = "wrap"
    BY <1>3 DEF dthreadwrap, Alive, WritesPc, WithPc
  <2>2. PICK e : /\ Sets(r, l, e) /\ e.pc = "run"
                 /\ e.op = app[r][l].op /\ e.thread = app[r][l].thread
    <3>1. SetsPc(r, l, "run")
      BY <2>1, PcWritten
    <3> QED
      BY <3>1 DEF SetsPc
  <2>3. BlockOK(app[r][l])
    BY DEF CallInv, RequestBlocks, BlockOK
  <2>4. BlockOK(e)
    BY <2>1, <2>2, <2>3 DEF BlockOK
  <2> QED
    BY <2>1, <2>2, <2>4, CallMoved
<1>4. CASE app0wrap(r, l)
  <2> DEFINE e == [NoApp EXCEPT !.pc = "clean", !.op = "APP0_RET"]
  <2>1. /\ app' = [app EXCEPT ![r][l] = e]
        /\ mgrreqq' = [mgrreqq EXCEPT ![r] = Append(@, l)]
        /\ UNCHANGED rpending /\ app[r][l].pc = "return"
    BY <1>4 DEF app0wrap, Alive
  <2>2. BlockOK(e) /\ e.pc = "clean"
    BY BlankBlocks, SMT
  <2> HIDE DEF e
  <2>3. Sets(r, l, e)
    BY <2>1, AppSet
  <2> QED
    BY <2>1, <2>2, <2>3, CallQueued
<1>5. CASE api_return(r, l)
  <2> DEFINE e == [NoApp EXCEPT !.pc = "run"]
  <2>1. /\ app' = [app EXCEPT ![r][l] = e]
        /\ UNCHANGED <<mgrreqq, rpending>> /\ app[r][l].pc = "done"
    BY <1>5 DEF api_return, Alive
  <2>2. BlockOK(e)
    BY BlankBlocks, SMT
  <2> HIDE DEF e
  <2>3. Sets(r, l, e)
    BY <2>1, AppSet
  <2> QED
    BY <2>1, <2>2, <2>3, CallMoved
<1>6. CASE \/ dthreadwrap_decode_fails(r, l) \/ dthread_exit_common(r, l)
           \/ dthreadcleanup_returned(r, l)
  BY <1>1, <1>6 DEF dthreadwrap_decode_fails, dthread_exit_common,
     dthreadcleanup_returned, Alive
<1> QED
  BY <1>2, <1>3, <1>4, <1>5, <1>6 DEF AppStep

\* process_req keeps the calls in order.
LEMMA RequestCalls ==
    ASSUME TypeOK, CallInv, NEW r \in Ranks, MgrRequest(r)
    PROVE  CallInv'
<1> DEFINE l == Head(mgrreqq[r])
<1>0. app \in App /\ mgrreqq[r] # <<>> /\ l \in Slots
      /\ mgrreqq' = [mgrreqq EXCEPT ![r] = Tail(@)]
  <2>1. mgrreqq[r] # <<>> /\ mgrreqq' = [mgrreqq EXCEPT ![r] = Tail(@)]
    BY DEF MgrRequest, process_req_forward, process_req_retclean,
       process_req_app0_ret, HasRequest
  <2> QED
    BY <2>1, FirstRequest DEF TypeOK, App
<1>1. CASE process_req_forward(r) /\ draining(r)
  <2>1. /\ WritesPc(r, l, "done") /\ UNCHANGED rpending
        /\ app[r][l].op \in Requests
    BY <1>1 DEF process_req_forward, HasRequest, WritesPc, WithPc
  <2> HIDE DEF l
  <2>2. PICK e : /\ Sets(r, l, e) /\ e.pc = "done"
                 /\ e.op = app[r][l].op /\ e.thread = app[r][l].thread
    <3>1. SetsPc(r, l, "done")
      BY <1>0, <2>1, PcWritten
    <3> QED
      BY <3>1 DEF SetsPc
  <2>3. BlockOK(e)
    BY <2>1, <2>2 DEF BlockOK, Requests
  <2> QED
    BY <1>0, <2>1, <2>2, <2>3, CallEnded DEF l
<1>2. CASE process_req_forward(r) /\ ~draining(r)
  <2> DEFINE a == app[r][l]
             p == pending(a.op, seqsrc[r], 0, l, a.thread, a.peer)
  <2>1. /\ rpending' = [rpending EXCEPT ![r] = @ \cup {p}]
        /\ UNCHANGED app /\ a.op \in Requests
    BY <1>2 DEF process_req_forward, HasRequest
  <2>2. p.op = a.op /\ p.lidx = l
    BY DEF pending
  <2> HIDE DEF p
  <2> QED
    BY <1>0, <2>1, <2>2, CallForwarded
<1>3. CASE process_req_retclean(r) \/ process_req_app0_ret(r)
  <2>1. app' = [app EXCEPT ![r][l] = NoApp] /\ UNCHANGED rpending
    BY <1>3 DEF process_req_retclean, process_req_app0_ret
  <2>2. Sets(r, l, NoApp)
    BY <1>0, <2>1, AppSet
  <2> QED
    BY <1>0, <2>1, <2>2, BlankBlocks, CallEnded
<1> QED
  BY <1>1, <1>2, <1>3, SMT DEF MgrRequest

\* A manager's answers keep the calls in order.
LEMMA ReplyCalls ==
    ASSUME TypeOK, CallInv, NEW s \in Ranks, NEW r \in Ranks, process_reply(s, r)
    PROVE  CallInv'
<1> DEFINE op == RequestOf(Head(net[s][r]).op)
           found == find_pending_msgreq(r, op, Head(net[s][r]).xid)
<1>1. op \in Requests
  <2>1. Head(net[s][r]).op \in Replies
    BY DEF process_reply, HasMessage
  <2> QED
    BY <2>1 DEF RequestOf, Replies, Requests
<1>2. found \in SUBSET rpending[r] /\ \A p \in found : p.op \in Requests
  <2> HIDE DEF op
  <2> QED
    BY <1>1 DEF find_pending_msgreq
<1>3. /\ rpending' = [rpending EXCEPT ![r] = @ \ found] /\ UNCHANGED mgrreqq
      /\ app' = [app EXCEPT ![r] = [k \in Slots |->
                    IF \E p \in found : p.lidx = k
                    THEN [app[r][k] EXCEPT !.pc = "done"] ELSE app[r][k]]]
  BY DEF process_reply
<1> HIDE DEF found
<1>4. \A q \in Ranks, k \in Slots :
         /\ app'[q][k].op = app[q][k].op
         /\ app'[q][k].pc = IF q = r /\ (\E p \in found : p.lidx = k)
                            THEN "done" ELSE app[q][k].pc
  <2> TAKE q \in Ranks, k \in Slots
  <2>1. app[q][k] \in AppEntry
    BY DEF TypeOK
  <2>2. app'[q][k] = IF q = r /\ (\E p \in found : p.lidx = k)
                     THEN [app[q][k] EXCEPT !.pc = "done"] ELSE app[q][k]
    BY <1>3 DEF TypeOK
  <2>3. /\ [app[q][k] EXCEPT !.pc = "done"].pc = "done"
        /\ [app[q][k] EXCEPT !.pc = "done"].op = app[q][k].op
    BY <2>1, SMT DEF AppEntry
  <2> QED
    BY <2>2, <2>3, SMT
<1> QED
  BY <1>2, <1>3, <1>4, CallAnswered

\* Messages between managers keep the calls in order.
LEMMA MessageCalls ==
    ASSUME TypeOK, CallInv, LiveInv, FreeEntries, NEW s \in Ranks, NEW r \in Ranks,
           MgrMessage(s, r)
    PROVE  CallInv'
<1>1. CASE start_thread(s, r)
  <2>1. PICK l \in ltab_alloc(r) :
           \/ app' = [app EXCEPT ![r][l] = [NoApp EXCEPT !.pc = "wrap"]]
           \/ app' = app
    BY <1>1 DEF start_thread
  <2>2. l \in Slots /\ app[r][l].pc = "none"
    BY FreeLtabEntry DEF Lives
  <2>3. UNCHANGED <<mgrreqq, rpending>> /\ app \in App
    BY <1>1 DEF start_thread, TypeOK, App
  <2>4. CASE app' = app
    BY <2>3, <2>4, CallInternal
  <2>5. CASE app' = [app EXCEPT ![r][l] = [NoApp EXCEPT !.pc = "wrap"]]
    <3>1. Sets(r, l, [NoApp EXCEPT !.pc = "wrap"])
      BY <2>2, <2>3, <2>5, AppSet
    <3> QED
      BY <2>2, <2>3, <3>1, BlankBlocks, CallMoved, SMT
  <2> QED
    BY <2>1, <2>4, <2>5, SMT
<1>2. ASSUME UNCHANGED <<app, mgrreqq>>, NEW P,
             \/ rpending' = rpending
             \/ rpending' = [rpending EXCEPT ![0] = @ \ P]
      PROVE  CallInv'
  BY <1>2, CallInternal, ZeroInRange, ZenonT(60) DEF TypeOK
<1>3. ASSUME UNCHANGED <<app, mgrreqq>>, NEW op \in {"START", "JOINWAIT"},
             NEW xid, NEW cxid, NEW h, NEW peer,
             rpending' = [rpending EXCEPT ![0] = @ \cup
                             {pending(op, xid, cxid, NMaxThread, h, peer)}]
      PROVE  CallInv'
  <2> DEFINE p == pending(op, xid, cxid, NMaxThread, h, peer)
  <2>1. p.op \notin Requests /\ p.lidx = NMaxThread
    BY DEF pending, Requests
  <2>2. rpending' = [rpending EXCEPT ![0] = @ \cup {p}]
    BY <1>3
  <2> HIDE DEF p
  <2>3. \A q \in Ranks : \A x \in rpending'[q] : x \in rpending[q] \/ x = p
    BY <2>2, ZeroInRange DEF TypeOK
  <2> QED
    BY <1>3, <2>1, <2>3, CallInternal
<1>4. CASE create_thread_full(s) \/ create_thread_nomem(s)
  BY <1>2, <1>4 DEF create_thread_full, create_thread_nomem
<1>5. CASE create_thread(s)
  <2>1. PICK g \in Slots : create_thread_at(s, g)
    BY <1>5 DEF create_thread
  <2>2. UNCHANGED <<app, mgrreqq>>
    BY <1>5 DEF create_thread
  <2>3. CASE draining(0)
    BY <1>2, <2>1, <2>2, <2>3 DEF create_thread_at
  <2>4. CASE ~draining(0)
    BY <1>3, <2>1, <2>2, <2>4, SMT DEF create_thread_at
  <2> QED
    BY <2>3, <2>4, SMT
<1>6. CASE process_started(s) \/ detach_thread(s) \/ terminated_thread(s)
  <2>1. UNCHANGED <<app, mgrreqq>>
    BY <1>6 DEF process_started, detach_thread, terminated_thread
  <2>2. \/ rpending' = rpending
        \/ \E P : rpending' = [rpending EXCEPT ![0] = @ \ P]
    BY <1>6, ZenonT(30) DEF process_started, detach_thread, terminated_thread
  <2> QED
    BY <1>2, <2>1, <2>2, SMT
<1>7. CASE join_thread(s)
  <2>1. UNCHANGED <<app, mgrreqq>>
    BY <1>7 DEF join_thread
  <2>2. \/ rpending' = rpending
        \/ rpending' = [rpending EXCEPT ![0] = @ \cup
               {pending("JOINWAIT", Head(net[s][0]).xid, 0, NMaxThread,
                        Head(net[s][0]).thread, s)}]
    BY <1>7 DEF join_thread
  <2> QED
    BY <1>2, <1>3, <2>1, <2>2
<1>8. CASE cancel_thread(s, r) \/ process_bcastshutdown(s, r)
  BY <1>2, <1>8 DEF cancel_thread, process_bcastshutdown
<1>9. CASE process_reply(s, r)
  BY <1>9, ReplyCalls, SMT
<1> QED
  BY <1>1, <1>4, <1>5, <1>6, <1>7, <1>8, <1>9 DEF MgrMessage

\* Every step keeps the calls in order.
LEMMA CallStep ==
    ASSUME TypeOK, CallInv, LiveInv, FreeEntries, [Next]_vars
    PROVE  CallInv'
<1>1. ASSUME UNCHANGED <<app, mgrreqq, rpending>>
      PROVE  CallInv'
  BY <1>1, CallSame
<1>2. CASE \E r \in Ranks : cancel_thread_act(r) \/ mgr_exit(r)
  BY <1>1, <1>2 DEF cancel_thread_act, mgr_exit
<1>3. CASE idle_shutdown
  BY <1>1, <1>3 DEF idle_shutdown
<1>4. CASE UNCHANGED vars
  BY <1>1, <1>4 DEF vars
<1> QED
  BY <1>2, <1>3, <1>4, AppCalls, RequestCalls, MessageCalls DEF Next

-----------------------------------------------------------------------------
(* Slots are freed only by manager 0, while no thread moves *)

\* Manager 0 frees slots, and leaves pthreads alone when it does.
LEMMA FreeStep ==
    ASSUME TypeOK, [Next]_vars
    PROVE  (\A g \in Slots : SlotKept(g)) \/ UNCHANGED <<ltab, app>>
<1> gtab \in Gtab
  BY DEF TypeOK, Gtab
<1>1. ASSUME NEW r \in Ranks, NEW l \in Slots, AppChoice(r, l) \/ AppStep(r, l)
      PROVE  \A g \in Slots : SlotKept(g)
  BY <1>1, AppSlots
<1>2. ASSUME gtab' = gtab
      PROVE  \A g \in Slots : SlotKept(g)
  BY <1>2, KeptTable, SMT
<1>3. ASSUME NEW r \in Ranks, MgrRequest(r)
      PROVE  \A g \in Slots : SlotKept(g)
  <2>1. CASE process_req_retclean(r)
    <3>1. gtab' = gtab \/ \E k, v : gtab' = [gtab EXCEPT ![k].has_ltab = v]
      BY <2>1 DEF process_req_retclean
    <3> QED
      BY <3>1, KeptTable, SMT
  <2>2. CASE process_req_forward(r) \/ process_req_app0_ret(r)
    BY <1>2, <2>2 DEF process_req_forward, process_req_app0_ret
  <2> QED
    BY <1>3, <2>1, <2>2 DEF MgrRequest
<1>4. ASSUME NEW r \in Ranks, cancel_thread_act(r) \/ mgr_exit(r) \/ idle_shutdown
      PROVE  \A g \in Slots : SlotKept(g)
  BY <1>2, <1>4 DEF cancel_thread_act, mgr_exit, idle_shutdown
<1>5. ASSUME NEW s \in Ranks, NEW r \in Ranks, MgrMessage(s, r)
      PROVE  (\A g \in Slots : SlotKept(g)) \/ UNCHANGED <<ltab, app>>
  <2>1. CASE \/ start_thread(s, r) \/ cancel_thread(s, r) \/ process_reply(s, r)
             \/ process_bcastshutdown(s, r) \/ create_thread_full(s)
             \/ create_thread_nomem(s)
    BY <1>2, <2>1 DEF start_thread, cancel_thread, process_reply,
       process_bcastshutdown, create_thread_full, create_thread_nomem
  <2>2. CASE create_thread(s) \/ process_started(s) \/ detach_thread(s)
    BY <2>2 DEF create_thread, process_started, detach_thread
  <2>3. CASE join_thread(s) \/ terminated_thread(s)
    BY <2>3 DEF join_thread, terminated_thread
  <2> QED
    BY <1>5, <2>1, <2>2, <2>3 DEF MgrMessage
<1>6. CASE UNCHANGED vars
  BY <1>6 DEF vars
<1> QED
  BY ZeroInRange, <1>1, <1>3, <1>4, <1>5, <1>6 DEF Next

\* A slot is freed only when its thread has no pthread.
LEMMA FreedDead ==
    ASSUME TypeOK, ThreadInv', [Next]_vars, NEW g \in Slots, gtab[g].allocated,
           ~gtab'[g].allocated, NEW r \in Ranks, NEW l \in Slots, Lives(r, l),
           ltab[r][l].gtab_idx = g
    PROVE  FALSE
<1>1. UNCHANGED <<ltab, app>>
  BY FreeStep DEF SlotKept
<1>2. Lives(r, l)' /\ ltab'[r][l].gtab_idx = g
  BY <1>1 DEF Lives
<1>3. LiveInv'
  BY DEF ThreadInv, LifeInv
<1>4. Unended(HandleOf(r, l))'
  BY <1>2, <1>3 DEF LiveInv
<1>5. gtab'[ltab'[r][l].gtab_idx].allocated
  BY <1>4 DEF Unended, dthread_dt2gtab, HandleOf
<1> QED
  BY <1>2, <1>5
=============================================================================
