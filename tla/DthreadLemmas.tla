---------------------------- MODULE DthreadLemmas ----------------------------
(***************************************************************************)
(* Facts about the steps of Dthread that more than one part of its proofs  *)
(* rests on: what every action changes of the slots of gtab, of the        *)
(* messages under way and of the requests of manager 0.                    *)
(***************************************************************************)
EXTENDS DthreadInv, TLAPS

\* Leaves are for Zenon unless they name another prover.
USE Zenon

Net == [Ranks -> [Ranks -> Seq(Msg)]]

Gtab == [Slots -> GtabEntry]

Ltab == [Ranks -> [Slots -> LtabEntry]]

App == [Ranks -> [Slots -> AppEntry]]

Rpending == [Ranks -> SUBSET Pending]

MsgOps == Requests \cup Replies \cup
              {"START", "STARTED", "TERMINATED", "BCASTSHUTDOWN"}

-----------------------------------------------------------------------------
(* Types of the operators the actions are built from *)

\* Rank 0 and slot 0, where the job begins, exist.
LEMMA ZeroInRange == 0 \in Ranks /\ 0 \in Slots
BY NRanksAssumption, NMaxThreadAssumption, SMT DEF Ranks, Slots

\* The return values that carry no data are values.
LEMMA RetType == NoData \in Ret /\ Canceled \in Ret
BY SMT DEF NoData, Canceled, Ret

\* The handle create_thread puts in a failed CREATED is a handle.
LEMMA NoThreadType == NoThread \in Handle
BY NMaxThreadAssumption, SMT DEF NoThread, Handle

\* A message put together from well-typed fields is a message.
LEMMA MessageType ==
    ASSUME NEW op \in MsgOps, NEW xid \in Nat, NEW t \in Handle,
           NEW e \in Errors, NEW v \in Ret
    PROVE  message(op, xid, t, e, v) \in Msg
BY SMT DEF message, Msg, MsgOps, LT

\* dtq_send_enqueue adds to the paths between managers, or refuses.
LEMMA SendType ==
    ASSUME NEW n \in Net, NEW r \in Ranks, NEW to \in Ranks, NEW m \in Msg
    PROVE  dtq_send_enqueue(n, r, to, m) \in Net
BY SMT DEF dtq_send_enqueue, Net

\* Taking a message off a path keeps the paths well formed.
LEMMA ReceivedType ==
    ASSUME net \in Net, NEW s \in Ranks, NEW r \in Ranks, net[s][r] # <<>>
    PROVE  /\ Received(s, r) \in Net
           /\ Head(net[s][r]) \in Msg
BY SMT DEF Received, Net

\* gtab_alloc fills in every field of its slot.
LEMMA GtabAllocType ==
    ASSUME NEW e \in GtabEntry, NEW target \in Ranks, NEW seq \in Nat
    PROVE  gtab_alloc(e, target, seq) \in GtabEntry
BY RetType DEF gtab_alloc, GtabEntry, LT

-----------------------------------------------------------------------------
(* The request or message that a manager takes *)

\* The manager's first request is one of a local slot.
LEMMA HeadRequestType ==
    ASSUME TypeOK, NEW r \in Ranks, mgrreqq[r] # <<>>
    PROVE  /\ Head(mgrreqq[r]) \in Slots
           /\ [mgrreqq EXCEPT ![r] = Tail(@)] \in [Ranks -> Seq(Slots)]
BY SMT DEF TypeOK

\* What handlers of manager 0 and of other ranks know of the message they take.
LEMMA TakenMessage ==
    ASSUME TypeOK, NEW s \in Ranks, NEW r \in Ranks, NEW ops,
           HasMessage(s, r, ops)
    PROVE  /\ Head(net[s][r]) \in Msg
           /\ Head(net[s][r]).op \in ops
           /\ Head(net[s][r]).xid \in Nat
           /\ Head(net[s][r]).thread \in Handle
           /\ Head(net[s][r]).ret \in Ret
           /\ Head(net[s][r]).errstatus \in Errors
           /\ Head(net[s][r]).finalstate \in LT
           /\ Received(s, r) \in Net
<1>1. net \in Net /\ net[s][r] # <<>> /\ Head(net[s][r]).op \in ops
  BY SMT DEF TypeOK, Net, HasMessage
<1>2. Head(net[s][r]) \in Msg /\ Received(s, r) \in Net
  BY <1>1, ReceivedType, SMT
<1> QED
  BY <1>1, <1>2 DEF Msg

-----------------------------------------------------------------------------
(* What a step does to the slots of gtab *)

SlotKept(g) == /\ gtab'[g].allocated = gtab[g].allocated
               /\ gtab'[g].seq = gtab[g].seq

SlotFreed(g) == ~gtab'[g].allocated /\ gtab'[g].seq = 0

SlotTaken(g) == gtab'[g].seq = seqsrc[0] /\ seqsrc[0] < seqsrc'[0]

SlotOK(g) == SlotKept(g) \/ SlotFreed(g) \/ SlotTaken(g)

\* gtab_free resets the seq of its slot.
LEMMA FreedSlot ==
    ASSUME NEW e \in GtabEntry
    PROVE  ~gtab_free(e).allocated /\ gtab_free(e).seq = 0
BY SMT DEF gtab_free, GtabEntry

\* gtab_alloc gives its slot the new seq.
LEMMA TakenSlot ==
    ASSUME NEW e \in GtabEntry, NEW target, NEW seq
    PROVE  gtab_alloc(e, target, seq).seq = seq
BY SMT DEF gtab_alloc, GtabEntry

\* create_thread takes a slot under the next seq, or frees it while draining.
LEMMA CreateSlots ==
    ASSUME TypeOK, NEW s \in Ranks, create_thread(s)
    PROVE  seqsrc[0] < seqsrc'[0] /\ \A g \in Slots : SlotOK(g)
<1> gtab \in Gtab
  BY SMTT(30) DEF TypeOK, Gtab
<1>1. seqsrc[0] < seqsrc'[0]
  BY ZeroInRange, NRanksAssumption, SMT DEF TypeOK, create_thread
<1>2. PICK k \in Slots : create_thread_at(s, k)
  BY SMT DEF create_thread
<1> DEFINE entry == gtab_alloc(gtab[k], mgr0.next_rank, seqsrc[0])
<1>3. entry \in GtabEntry /\ entry.seq = seqsrc[0]
  <2>1. gtab[k] \in GtabEntry /\ mgr0.next_rank \in Ranks /\ seqsrc[0] \in Nat
    BY ZeroInRange, SMT DEF TypeOK, Mgr0
  <2> QED
    BY <2>1, GtabAllocType, TakenSlot, SMT
<1>4. \/ gtab' = [gtab EXCEPT ![k] = entry]
      \/ gtab' = [gtab EXCEPT ![k] = gtab_free(entry)]
  BY <1>2, SMT DEF create_thread_at
<1> HIDE DEF entry
<1>5. ~gtab_free(entry).allocated /\ gtab_free(entry).seq = 0
  BY <1>3, FreedSlot, SMT
<1>6. ASSUME NEW g \in Slots
      PROVE  SlotOK(g)
  <2>1. CASE g # k
    BY <1>4, <2>1, SMT DEF Gtab, SlotOK, SlotKept
  <2>2. CASE g = k
    BY <1>1, <1>3, <1>4, <1>5, <2>2, SMT DEF Gtab, SlotOK, SlotFreed, SlotTaken
  <2> QED
    BY <2>1, <2>2, SMT
<1> QED
  BY <1>1, <1>6, SMT

-----------------------------------------------------------------------------
(* What a step does to the other places that keep a thread's seq *)

\* What the managers' own steps leave alone, besides what they list.
LEMMA MgrFrame ==
    ASSUME NEW r \in Ranks
    PROVE  /\ process_req_forward(r) => UNCHANGED <<ltab, known, joinok>>
           /\ process_req_retclean(r) => UNCHANGED <<rpending, seqsrc, known, joinok>>
           /\ process_req_app0_ret(r) =>
                  UNCHANGED <<ltab, rpending, seqsrc, known, joinok>>
           /\ cancel_thread_act(r) =>
                  UNCHANGED <<app, rpending, seqsrc, known, joinok>>
           /\ mgr_exit(r) =>
                  UNCHANGED <<ltab, app, net, rpending, seqsrc, known, joinok>>
           /\ idle_shutdown =>
                  UNCHANGED <<ltab, app, rpending, seqsrc, known, joinok>>
<1>1. process_req_forward(r) => UNCHANGED <<ltab, known, joinok>>
  BY DEF process_req_forward, history
<1>2. process_req_retclean(r) => UNCHANGED <<rpending, seqsrc, known, joinok>>
  BY DEF process_req_retclean, history
<1>3. process_req_app0_ret(r) =>
          UNCHANGED <<ltab, rpending, seqsrc, known, joinok>>
  BY SMT DEF process_req_app0_ret, history
<1>4. cancel_thread_act(r) => UNCHANGED <<app, rpending, seqsrc, known, joinok>>
  BY DEF cancel_thread_act, history
<1>5. mgr_exit(r) =>
          UNCHANGED <<ltab, app, net, rpending, seqsrc, known, joinok>>
  BY SMT DEF mgr_exit, history
<1>6. idle_shutdown => UNCHANGED <<ltab, app, rpending, seqsrc, known, joinok>>
  BY SMT DEF idle_shutdown, history
<1> QED
  BY <1>1, <1>2, <1>3, <1>4, <1>5, <1>6, SMT

\* What the message handlers leave alone.
LEMMA MessageFrame ==
    ASSUME NEW s \in Ranks, NEW r \in Ranks
    PROVE  /\ create_thread_full(s) \/ create_thread_nomem(s) =>
                  UNCHANGED <<ltab, app, rpending, seqsrc, known, joinok>>
           /\ create_thread(s) => UNCHANGED <<ltab, app, known, joinok>>
           /\ process_started(s) \/ detach_thread(s) =>
                  UNCHANGED <<ltab, app, seqsrc, known, joinok>>
           /\ join_thread(s) \/ terminated_thread(s) =>
                  UNCHANGED <<ltab, app, seqsrc, known>>
           /\ start_thread(s, r) => UNCHANGED <<rpending, seqsrc, known, joinok>>
           /\ cancel_thread(s, r) \/ process_bcastshutdown(s, r) =>
                  UNCHANGED <<ltab, app, rpending, seqsrc, known, joinok>>
           /\ process_reply(s, r) => UNCHANGED <<ltab, seqsrc, joinok>>
<1>1. create_thread_full(s) \/ create_thread_nomem(s) =>
          UNCHANGED <<ltab, app, rpending, seqsrc, known, joinok>>
  BY SMT DEF create_thread_full, create_thread_nomem, history
<1>2. create_thread(s) => UNCHANGED <<ltab, app, known, joinok>>
  BY SMT DEF create_thread
<1>3. process_started(s) \/ detach_thread(s) =>
          UNCHANGED <<ltab, app, seqsrc, known, joinok>>
  BY DEF process_started, detach_thread, history
<1>4. join_thread(s) \/ terminated_thread(s) =>
          UNCHANGED <<ltab, app, seqsrc, known>>
  BY DEF join_thread, terminated_thread
<1>5. start_thread(s, r) => UNCHANGED <<rpending, seqsrc, known, joinok>>
  BY DEF start_thread, history
<1>6. cancel_thread(s, r) \/ process_bcastshutdown(s, r) =>
          UNCHANGED <<ltab, app, rpending, seqsrc, known, joinok>>
  BY DEF cancel_thread, process_bcastshutdown, history
<1>7. process_reply(s, r) => UNCHANGED <<ltab, seqsrc, joinok>>
  BY DEF process_reply
<1> QED
  BY <1>1, <1>2, <1>3, <1>4, <1>5, <1>6, <1>7, SMT

\* What application threads leave alone.
LEMMA AppFrame ==
    ASSUME NEW r \in Ranks, NEW l \in Slots
    PROVE  /\ AppChoice(r, l) => UNCHANGED <<net, rpending, seqsrc, known, joinok>>
           /\ AppStep(r, l) => UNCHANGED <<net, rpending, seqsrc, joinok>>
<1>1. ASSUME NEW state, retclean_request(r, l, state)
      PROVE  UNCHANGED <<net, rpending, seqsrc, known, joinok>>
  BY <1>1 DEF retclean_request, history
<1>2. ASSUME NEW op, NEW h, NEW peer, NEW attr, Call(r, l, op, h, peer, attr)
      PROVE  UNCHANGED <<net, rpending, seqsrc, known, joinok>>
  BY <1>2, SMT DEF Call
<1>3. ASSUME NEW how, app_leaves(r, l, how)
      PROVE  UNCHANGED <<net, rpending, seqsrc, known, joinok>>
  BY <1>3 DEF app_leaves, history
<1>4. dthreadwrap(r, l) => UNCHANGED <<net, rpending, seqsrc, joinok>>
  BY DEF dthreadwrap, history
<1>5. app0wrap(r, l) \/ api_return(r, l) =>
          UNCHANGED <<net, rpending, seqsrc, joinok>>
  BY SMT DEF app0wrap, api_return, history
<1> QED
  BY <1>1, <1>2, <1>3, <1>4, <1>5 DEF AppChoice, AppStep,
     dthreadcleanup_unwound, dthread_create, dthread_detach, dthread_cancel,
     dthread_join, dthreadwrap_decode_fails, dthread_exit_common,
     dthreadcleanup_returned

\* Sequence numbers are given out in increasing order.
LEMMA SeqsrcStep ==
    ASSUME TypeOK, TypeOK', [Next]_vars
    PROVE  /\ seqsrc[0] \in Nat /\ seqsrc'[0] \in Nat
           /\ seqsrc[0] <= seqsrc'[0]
<1>0. seqsrc \in [Ranks -> Nat] /\ seqsrc' \in [Ranks -> Nat]
  BY SMT DEF TypeOK
<1>1. CASE UNCHANGED seqsrc
  BY <1>0, <1>1, ZeroInRange, SMT
<1>2. CASE \E r \in Ranks : process_req_forward(r)
  <2>1. PICK r \in Ranks : seqsrc' = [seqsrc EXCEPT ![r] = @ + NRanks]
    BY <1>2 DEF process_req_forward
  <2> QED
    BY <1>0, <2>1, ZeroInRange, NRanksAssumption, SMT
<1>3. CASE \E s \in Ranks : create_thread(s)
  BY <1>0, <1>3, CreateSlots, ZeroInRange, SMT
<1>4. CASE UNCHANGED vars
  BY <1>1, <1>4, SMT DEF vars
<1>5. CASE Next
  BY <1>1, <1>2, <1>3, <1>5, AppFrame, MgrFrame, MessageFrame, ZeroInRange,
     ZenonT(30)
     DEF Next, MgrRequest, MgrMessage
<1> QED
  BY <1>4, <1>5, SMT

\* A request block keeps its thread, is cleared, or takes a handle the
\* application knows.
LEMMA AppThreadStep ==
    ASSUME TypeOK, [Next]_vars, NEW r \in Ranks, NEW l \in Slots
    PROVE  app'[r][l].thread \in {app[r][l].thread, NoThread} \cup known
<1> app \in App
  BY SMT DEF TypeOK, App
<1>a. /\ [NoApp EXCEPT !.pc = "run"].thread = NoThread
      /\ [NoApp EXCEPT !.pc = "wrap"].thread = NoThread
      /\ \A op : [NoApp EXCEPT !.pc = "clean", !.op = op].thread = NoThread
      /\ NoApp.thread = NoThread
  BY SMT DEF NoApp
<1>1. CASE app' = app
  BY <1>1, SMT
<1>2. CASE \E q \in Ranks : \E k, v : app' = [app EXCEPT ![q][k].pc = v]
  BY <1>2, SMT DEF App, AppEntry
<1>3. CASE \E q \in Ranks : \E k, e :
              /\ app' = [app EXCEPT ![q][k] = e]
              /\ e.thread \in {NoThread} \cup known
  BY <1>3, SMT DEF App
<1>4. CASE \E q \in Ranks, k \in Slots : AppChoice(q, k) \/ AppStep(q, k)
  <2> PICK q \in Ranks, k \in Slots : AppChoice(q, k) \/ AppStep(q, k)
    BY <1>4, SMTT(30)
  <2>1. ASSUME NEW op, NEW h, NEW peer, NEW attr, Call(q, k, op, h, peer, attr),
               h \in {NoThread} \cup known
        PROVE  app'[r][l].thread \in {app[r][l].thread, NoThread} \cup known
    <3> DEFINE e == [pc |-> "busy", op |-> op, thread |-> h, peer |-> peer,
                     attr |-> attr]
    <3>1. app' = [app EXCEPT ![q][k] = e]
      BY <2>1, SMT DEF Call
    <3>2. e.thread = h
      BY SMT
    <3> HIDE DEF e
    <3> QED
      BY <1>3, <2>1, <3>1, <3>2
  <2>2. ASSUME NEW op, app' = [app EXCEPT ![q][k] =
                          [NoApp EXCEPT !.pc = "clean", !.op = op]]
        PROVE  app'[r][l].thread \in {app[r][l].thread, NoThread} \cup known
    BY <1>a, <1>3, <2>2
  <2>3. CASE AppChoice(q, k)
    BY <1>2, <2>1, <2>2, <2>3, ZenonT(30)
       DEF AppChoice, app_leaves, retclean_request,
       dthreadcleanup_unwound, dthread_create, dthread_detach, dthread_cancel,
       dthread_join
  <2>4. CASE AppStep(q, k)
    <3>1. CASE api_return(q, k)
      BY <1>a, <1>3, <3>1 DEF api_return
    <3>2. CASE dthreadwrap(q, k)
      BY <1>2, <3>2 DEF dthreadwrap
    <3>3. CASE app0wrap(q, k)
      BY <2>2, <3>3 DEF app0wrap
    <3>4. ASSUME NEW state, retclean_request(q, k, state)
          PROVE  app'[r][l].thread \in {app[r][l].thread, NoThread} \cup known
      BY <2>2, <3>4 DEF retclean_request
    <3> QED
      BY <2>4, <3>1, <3>2, <3>3, <3>4
         DEF AppStep, dthreadwrap_decode_fails,
         dthread_exit_common, dthreadcleanup_returned
  <2> QED
    BY <2>3, <2>4
<1>5. CASE \E q \in Ranks : process_req_retclean(q) \/ process_req_app0_ret(q)
  <2>1. \E q \in Ranks : \E k : app' = [app EXCEPT ![q][k] = NoApp]
    BY <1>5 DEF process_req_retclean, process_req_app0_ret
  <2>2. NoApp.thread \in {NoThread} \cup known
    BY <1>a, SMT
  <2> QED
    BY <1>3, <2>1, <2>2
<1>6. CASE \E q \in Ranks : process_req_forward(q)
  <2> PICK q \in Ranks : process_req_forward(q)
    BY <1>6, SMTT(30)
  <2> DEFINE k == Head(mgrreqq[q])
  <2>1. app' = app \/ app' = [app EXCEPT ![q][k].pc = "done"]
    BY DEF process_req_forward
  <2> HIDE DEF k
  <2> QED
    BY <1>1, <1>2, <2>1
<1>7. CASE \E s, q \in Ranks : start_thread(s, q)
  <2>1. \/ app' = app
        \/ \E q \in Ranks : \E k : app' = [app EXCEPT ![q][k] =
                                          [NoApp EXCEPT !.pc = "wrap"]]
    BY <1>7, SMT DEF start_thread
  <2> QED
    BY <1>a, <1>1, <1>3, <2>1, ZenonT(60)
<1>8. CASE \E s, q \in Ranks : process_reply(s, q)
  <2> PICK s \in Ranks, q \in Ranks : process_reply(s, q)
    BY <1>8, SMTT(30)
  <2>1. app'[r][l] = app[r][l] \/ app'[r][l] = [app[r][l] EXCEPT !.pc = "done"]
    BY DEF process_reply, App
  <2>2. app[r][l] \in AppEntry
    BY SMT DEF App
  <2> QED
    BY <2>1, <2>2 DEF AppEntry
<1>9. CASE UNCHANGED vars
  BY <1>1, <1>9, SMT DEF vars
<1>10. CASE Next
  BY <1>1, <1>4, <1>5, <1>6, <1>7, <1>8, <1>10, MgrFrame, MessageFrame,
     ZeroInRange DEF Next, MgrRequest, MgrMessage
<1> QED
  BY <1>9, <1>10

-----------------------------------------------------------------------------
(* What a step does to the messages under way *)

\* The first k messages from ts to tr are taken (k is 0 or 1), others added as
\* for Extends.
Cut(ts, tr, k, s, d) == IF s = ts /\ d = tr THEN k ELSE 0

-----------------------------------------------------------------------------
(* Calls: the request block, the request queue and the pending requests *)

BlockOK(a) == /\ a.op \in Requests => a.pc \in {"busy", "done"}
              /\ a.op \in {"RETCLEAN", "APP0_RET"} <=> a.pc = "clean"

\* The step writes e to the request block of slot l of rank r, and to no other.
Sets(r, l, e) ==
    \A q \in Ranks, k \in Slots :
        app'[q][k] = IF q = r /\ k = l THEN e ELSE app[q][k]

\* A request block written whole.
LEMMA AppSet ==
    ASSUME app \in App, NEW r \in Ranks, NEW l \in Slots, NEW e,
           app' = [app EXCEPT ![r][l] = e]
    PROVE  Sets(r, l, e)
BY SMT DEF Sets, App

\* The request blocks after the thread of slot l of rank r moves to v.
WithPc(r, l, v) == [app EXCEPT ![r][l].pc = v]

\* A thread that moves keeps the rest of its request block.
LEMMA AppSetPc ==
    ASSUME app \in App, NEW r \in Ranks, NEW l \in Slots, NEW v,
           app' = WithPc(r, l, v)
    PROVE  \E e : /\ Sets(r, l, e) /\ e.pc = v
                  /\ e.op = app[r][l].op /\ e.thread = app[r][l].thread
<1> DEFINE e == [app[r][l] EXCEPT !.pc = v]
<1>1. app[r][l] \in AppEntry
  BY SMT DEF App
<1>2. e.pc = v /\ e.op = app[r][l].op /\ e.thread = app[r][l].thread
  BY <1>1, SMT DEF AppEntry
<1>3. Sets(r, l, e)
  BY SMT DEF Sets, App, WithPc
<1> HIDE DEF e
<1> QED
  BY <1>2, <1>3

\* What is left of a sequence without its head.
LEMMA TailFacts ==
    ASSUME NEW S, NEW q \in Seq(S), q # <<>>
    PROVE  /\ Len(q) \in Nat /\ Len(q) >= 1
           /\ Head(q) = q[1] /\ Head(q) \in S
           /\ Len(Tail(q)) = Len(q) - 1
           /\ \A i \in 1 .. Len(q) - 1 : Tail(q)[i] = q[i + 1]
BY SMT

\* The thread whose request is taken waits, and has no pending call.
LEMMA FirstRequest ==
    ASSUME TypeOK, CallInv, NEW r \in Ranks, mgrreqq[r] # <<>>
    PROVE  /\ Head(mgrreqq[r]) \in Slots
           /\ app[r][Head(mgrreqq[r])].pc \in {"busy", "clean"}
           /\ \A p \in rpending[r] : p.op \in Requests => p.lidx # Head(mgrreqq[r])
<1> mgrreqq[r] \in Seq(Slots)
  BY SMT DEF TypeOK
<1>2. 1 \in 1 .. Len(mgrreqq[r]) /\ Head(mgrreqq[r]) = mgrreqq[r][1]
  BY SMT
<1> QED
  BY <1>2, SMT DEF CallInv, QueuedOnce, PendingOnce

\* A thread's state says that its ltab entry is in use.
LEMMA LivesInUse ==
    ASSUME TypeOK, LiveInv, NEW r \in Ranks, NEW l \in Slots, Lives(r, l)
    PROVE  InUse(r, l)
<1>1. app[r][l].pc \in Running \cup {"wrap", "clean"}
  BY SMT DEF TypeOK, AppEntry, Lives, Running
<1> QED
  BY <1>1 DEF LiveInv, InUse, FinalStates

\* ltab_alloc only finds entries that are not in use.
FreeEntries == \A r \in Ranks : \A l \in ltab_alloc(r) : l \in Slots /\ ~InUse(r, l)

\* ltab_alloc only ever finds an entry without a thread.
LEMMA FreeLtabEntry ==
    ASSUME TypeOK, LiveInv, FreeEntries, NEW r \in Ranks, NEW l \in ltab_alloc(r)
    PROVE  l \in Slots /\ ~InUse(r, l) /\ ~Lives(r, l)
BY LivesInUse, SMT DEF FreeEntries

\* What NoApp and its variants say.
LEMMA BlankBlocks ==
    /\ BlockOK(NoApp) /\ NoApp.pc = "none" /\ NoApp.thread = NoThread
    /\ \A v \in {"run", "wrap"} :
          LET e == [NoApp EXCEPT !.pc = v] IN
          BlockOK(e) /\ e.pc = v /\ e.thread = NoThread
    /\ \A op \in {"RETCLEAN", "APP0_RET"} :
          LET e == [NoApp EXCEPT !.pc = "clean", !.op = op] IN
          BlockOK(e) /\ e.pc = "clean" /\ e.thread = NoThread /\ e.op = op
BY SMT DEF NoApp, BlockOK, Requests

\* A thread's last request.
LEMMA RetcleanEffect ==
    ASSUME TypeOK, NEW r \in Ranks, NEW l \in Slots, NEW state,
           retclean_request(r, l, state)
    PROVE  /\ Sets(r, l, [NoApp EXCEPT !.pc = "clean", !.op = "RETCLEAN"])
           /\ mgrreqq' = [mgrreqq EXCEPT ![r] = Append(@, l)]
           /\ UNCHANGED <<net, rpending, mgrstate, known>>
<1>1. app \in App
  BY SMT DEF TypeOK, App
<1>2. /\ app' = [app EXCEPT ![r][l] = [NoApp EXCEPT !.pc = "clean",
                                                   !.op = "RETCLEAN"]]
      /\ mgrreqq' = [mgrreqq EXCEPT ![r] = Append(@, l)]
      /\ UNCHANGED <<net, rpending, mgrstate, known>>
  BY DEF retclean_request
<1> QED
  BY <1>1, <1>2, AppSet

-----------------------------------------------------------------------------
(* What is left of the invariants when messages come and go *)

\* n stays on the path from s to d when the first k from ts to tr are taken.
Remains(ts, tr, k, s, d, n) ==
    \E i \in 1 .. Len(net[s][d]) : i > Cut(ts, tr, k, s, d) /\ n = net[s][d][i]

-----------------------------------------------------------------------------
(* What is under way, when a slot is freed or a thread gets its pthread *)

\* No slot but f is taken, freed, moved or ended.
SameSlots(f) ==
    \A g \in Slots : g # f =>
        /\ gtab'[g].allocated = gtab[g].allocated /\ gtab'[g].seq = gtab[g].seq
        /\ gtab'[g].rank = gtab[g].rank /\ gtab'[g].terminated = gtab[g].terminated

\* A message about a thread that has yet to get its pthread.
Waiting(n) == n.op = "START" \/ (n.op = "STARTED" /\ n.errstatus # "OK")

\* What remains was under way before.
LEMMA RemainsInTransit ==
    ASSUME TransitInv, NEW ts, NEW tr, NEW k, NEW s \in Ranks, NEW d \in Ranks, NEW n,
           Remains(ts, tr, k, s, d, n)
    PROVE  InTransit(s, d, n)
<1>1. PICK i \in 1 .. Len(net[s][d]) : n = net[s][d][i]
  BY SMT DEF Remains
<1>2. InTransit(s, d, net[s][d][i])
  BY SMT DEF TransitInv
<1> QED
  BY <1>1, <1>2, SMT

\* What remains is a message.
LEMMA RemainsTyped ==
    ASSUME net \in Net, NEW ts, NEW tr, NEW k, NEW s \in Ranks, NEW d \in Ranks, NEW n,
           Remains(ts, tr, k, s, d, n)
    PROVE  n \in Msg
<1>1. PICK i \in 1 .. Len(net[s][d]) : n = net[s][d][i]
  BY SMT DEF Remains
<1>2. net[s][d] \in Seq(Msg)
  BY SMT DEF Net
<1> QED
  BY <1>1, <1>2, SMT

-----------------------------------------------------------------------------
(* What application threads do *)

\* No field of ltab but the pth_state of slot l of rank r is written.
OnlyState(r, l) ==
    \A q \in Ranks, k \in Slots :
        /\ ltab'[q][k].gtab_idx = ltab[q][k].gtab_idx
        /\ ltab'[q][k].seq = ltab[q][k].seq
        /\ (q = r /\ k = l) \/ ltab'[q][k].pth_state = ltab[q][k].pth_state

\* The local tables after slot l of rank r gets state v.
WithState(r, l, v) == [ltab EXCEPT ![r][l].pth_state = v]

\* Writing one pth_state leaves the rest of ltab.
LEMMA StateSet ==
    ASSUME ltab \in Ltab, NEW r \in Ranks, NEW l \in Slots, NEW v,
           ltab' = WithState(r, l, v)
    PROVE  OnlyState(r, l) /\ ltab'[r][l].pth_state = v
BY SMT DEF WithState, OnlyState, Ltab, LtabEntry

-----------------------------------------------------------------------------
(* Handles the application knows *)

JoinWaiting(p) == p \in rpending[0] /\ p.op = "JOINWAIT"

SameDetached(f) ==
    \A g \in Slots : g # f => gtab'[g].detached = gtab[g].detached

\* dthreadwrap ties slot g to entry l.
Hooked(g, l) ==
    /\ SameSlots(NMaxThread) /\ SameDetached(NMaxThread)
    /\ gtab'[g].has_ltab /\ gtab'[g].ltab_idx = l
    /\ \A k \in Slots : k # g => /\ gtab'[k].has_ltab = gtab[k].has_ltab
                                 /\ gtab'[k].ltab_idx = gtab[k].ltab_idx

\* That is what dthreadwrap writes.
LEMMA HookTable ==
    ASSUME gtab \in Gtab, NEW g \in Slots, NEW l,
           gtab' = [gtab EXCEPT ![g].ltab_idx = l, ![g].has_ltab = TRUE]
    PROVE  Hooked(g, l)
<1>1. \A k \in Slots : gtab[k] \in GtabEntry
  BY SMT DEF Gtab
<1>2. /\ gtab'[g] = [gtab[g] EXCEPT !.ltab_idx = l, !.has_ltab = TRUE]
      /\ \A k \in Slots : k # g => gtab'[k] = gtab[k]
  BY SMT DEF Gtab
<1>3. /\ gtab'[g].allocated = gtab[g].allocated /\ gtab'[g].seq = gtab[g].seq
      /\ gtab'[g].rank = gtab[g].rank /\ gtab'[g].terminated = gtab[g].terminated
      /\ gtab'[g].detached = gtab[g].detached
      /\ gtab'[g].has_ltab /\ gtab'[g].ltab_idx = l
  <2>1. PICK e \in GtabEntry : e = gtab[g]
    BY <1>1, SMT
  <2> DEFINE x == [e EXCEPT !.ltab_idx = l, !.has_ltab = TRUE]
  <2>2. /\ x.allocated = e.allocated /\ x.seq = e.seq /\ x.rank = e.rank
        /\ x.terminated = e.terminated /\ x.detached = e.detached
        /\ x.has_ltab = TRUE /\ x.ltab_idx = l
    BY SMT DEF GtabEntry
  <2>3. x = gtab'[g]
    BY <1>2, <2>1, SMT
  <2> HIDE DEF x
  <2> QED
    BY <2>1, <2>2, <2>3, SMT
<1> QED
  BY <1>2, <1>3 DEF Hooked, SameSlots, SameDetached

-----------------------------------------------------------------------------
(* What managers do that leaves the tables alone *)

\* Threads move on in their code, or are gone.
PcKept ==
    \A q \in Ranks, k \in Slots :
        \/ app'[q][k].pc = app[q][k].pc
        \/ app[q][k].pc \in Running /\ app'[q][k].pc \in Running
        \/ app'[q][k].pc = "none"

-----------------------------------------------------------------------------
(* A message is taken and answered *)

\* Handles with the same slot and generation are the same.
LEMMA HandleEq ==
    ASSUME NEW g \in Handle, NEW h \in Handle, g.idx = h.idx, g.seq = h.seq
    PROVE  g = h
BY SMT DEF Handle

\* The message at the head of a path.
LEMMA HeadFacts ==
    ASSUME net \in Net, NEW s \in Ranks, NEW r \in Ranks, net[s][r] # <<>>
    PROVE  /\ 1 \in 1 .. Len(net[s][r]) /\ Head(net[s][r]) = net[s][r][1]
           /\ Head(net[s][r]) \in Msg
<1>1. net[s][r] \in Seq(Msg)
  BY SMT DEF Net
<1>2. Len(net[s][r]) \in Nat /\ Len(net[s][r]) >= 1
      /\ Head(net[s][r]) = net[s][r][1] /\ Head(net[s][r]) \in Msg
  BY <1>1, TailFacts, SMT
<1> QED
  BY <1>2, SMT

\* The answers that managers give.
Answer(op, xid, err, ret) == message(op, xid, NoThread, err, ret)

-----------------------------------------------------------------------------
(* Manager 0 frees a slot, or sees its thread end *)

SameEntries(f) == \A g \in Slots : g # f => gtab'[g] = gtab[g]

\* No message that remains is about slot f or START x.
SlotClear(s, f, x) ==
    \A t, d \in Ranks : \A n : Remains(s, 0, 1, t, d, n) =>
        /\ n.op \in {"START", "TERMINATED"} => n.thread.idx # f
        /\ n.op \in {"START", "STARTED"} => n.xid # x
        /\ Waiting(n) => \A p : StartPending(p) /\ p.xid = n.xid => p.thread.idx # f

\* Two handles that name the same slot are the same.
LEMMA OneGeneration ==
    ASSUME NEW g \in Handle, NEW h \in Handle, dthread_dt2gtab(g), dthread_dt2gtab(h),
           g.idx = h.idx
    PROVE  g = h
BY HandleEq, SMT DEF dthread_dt2gtab

\* No message that remains says the same as the one taken.
LEMMA RemainsAlone ==
    ASSUME net \in Net, OnePlace, NEW s \in Ranks, NEW r \in Ranks, net[s][r] # <<>>,
           NEW t \in Ranks, NEW d \in Ranks, NEW n, Remains(s, r, 1, t, d, n)
    PROVE  ~Exclusive(n, Head(net[s][r])) /\ ~Exclusive(Head(net[s][r]), n)
<1>1. 1 \in 1 .. Len(net[s][r]) /\ Head(net[s][r]) = net[s][r][1]
  BY HeadFacts, SMT
<1>2. PICK i \in 1 .. Len(net[t][d]) : i > Cut(s, r, 1, t, d) /\ n = net[t][d][i]
  BY SMT DEF Remains
<1>3. ~(s = t /\ r = d /\ i = 1)
  BY <1>2, SMT DEF Cut
<1>4. Exclusive(net[t][d][i], net[s][r][1]) => t = s /\ d = r /\ i = 1
  BY <1>1, SMT DEF OnePlace
<1>5. Exclusive(net[s][r][1], net[t][d][i]) => s = t /\ r = d /\ 1 = i
  BY <1>1, SMT DEF OnePlace
<1> QED
  BY <1>1, <1>2, <1>3, <1>4, <1>5

\* The START requests of manager 0, one by one.
LEMMA StartFacts ==
    ASSUME TypeOK, StartInv, NEW p, StartPending(p)
    PROVE  /\ p \in Pending /\ p.thread \in Handle /\ p.xid = p.thread.seq + NRanks
           /\ Unended(p.thread) /\ dthread_dt2gtab(p.thread)
           /\ gtab[p.thread.idx].terminated = "NONE"
           /\ \A q : StartPending(q) /\ q.xid = p.xid => q = p
<1> p \in Pending
  BY ZeroInRange, SMT DEF StartPending, TypeOK
<1>2. p.thread \in Handle
  BY SMT DEF Pending
<1>3. p.xid = p.thread.seq + NRanks /\ Unended(p.thread)
      /\ \A q : StartPending(q) /\ q.xid = p.xid => q = p
  BY SMT DEF StartInv, StartPending
<1> QED
  BY <1>2, <1>3, SMT DEF Unended

\* gtab_free of slot f.
LEMMA FreeEffect ==
    ASSUME gtab \in Gtab, NEW f \in Slots, NEW e \in GtabEntry,
           gtab' = [gtab EXCEPT ![f] = gtab_free(e)]
    PROVE  SameEntries(f) /\ SlotFreed(f) /\ ~gtab'[f].has_ltab
<1>1. gtab'[f] = gtab_free(e) /\ SameEntries(f)
  BY SMT DEF Gtab, SameEntries
<1>2. ~gtab_free(e).allocated /\ gtab_free(e).seq = 0 /\ ~gtab_free(e).has_ltab
  BY SMT DEF gtab_free, GtabEntry
<1> QED
  BY <1>1, <1>2, SMT DEF SlotFreed

\* The next message from s to manager 0 is an op about the thread h.
Asks(s, op, h) ==
    /\ net[s][0] # <<>>
    /\ Head(net[s][0]).op = op
    /\ Head(net[s][0]).thread = h

\* A thread whose end arrives has neither a pthread nor another message.
LEMMA TerminatedClear ==
    ASSUME TypeOK, LifeInv, NEW s \in Ranks, NEW h, Asks(s, "TERMINATED", h)
    PROVE  /\ h \in Handle /\ Unhooked(h) /\ Head(net[s][0]).finalstate \in FinalStates
           /\ SlotClear(s, h.idx, -1)
           /\ \A p : StartPending(p) => p.thread.idx # h.idx
<1> net \in Net /\ 0 \in Ranks
  BY ZeroInRange, SMT DEF TypeOK, Net
<1>1. /\ net[s][0] # <<>> /\ 1 \in 1 .. Len(net[s][0])
      /\ Head(net[s][0]) = net[s][0][1] /\ Head(net[s][0]) \in Msg
  BY HeadFacts, SMT DEF Asks
<1>2. InTransit(s, 0, Head(net[s][0]))
  BY <1>1, SMT DEF LifeInv, TransitInv
<1>3. h \in Handle /\ Unhooked(h) /\ Head(net[s][0]).finalstate \in FinalStates
  BY <1>1, <1>2 DEF InTransit, Asks, Msg
<1>4. dthread_dt2gtab(h)
  BY <1>3, SMT DEF Unhooked, Unended
<1>5. ASSUME NEW p, StartPending(p), p.thread.idx = h.idx
      PROVE  FALSE
  <2>1. p.thread \in Handle /\ dthread_dt2gtab(p.thread)
    BY <1>5, StartFacts, SMT DEF LifeInv
  <2>2. p.thread = h
    BY <1>3, <1>4, <1>5, <2>1, OneGeneration, SMT
  <2>3. net[s][0][1].op = "TERMINATED" /\ net[s][0][1].thread = p.thread
    BY <1>1, <2>2 DEF Asks
  <2>4. \E i \in 1 .. 1 - 1 : net[s][0][i].op = "STARTED"
    BY <1>1, <1>5, <2>3 DEF LifeInv, StartedFirst, StartPending
  <2> QED
    BY <2>4, SMT
<1>6. SlotClear(s, h.idx, -1)
  <2> SUFFICES ASSUME NEW t \in Ranks, NEW d \in Ranks, NEW n, Remains(s, 0, 1, t, d, n)
               PROVE  /\ n.op \in {"START", "TERMINATED"} => n.thread.idx # h.idx
                      /\ n.xid # -1
    BY <1>5, SMT DEF SlotClear
  <2>1. InTransit(t, d, n) /\ ~Exclusive(n, Head(net[s][0]))
    BY <1>1, RemainsInTransit, RemainsAlone DEF LifeInv
  <2>2. n \in Msg
    BY RemainsTyped, SMT
  <2> n.thread \in Handle /\ n.xid \in Nat
    BY <2>2, SMT DEF Msg
  <2>4. ASSUME n.op \in {"START", "TERMINATED"}, n.thread.idx = h.idx
        PROVE  FALSE
    <3>1. dthread_dt2gtab(n.thread)
      BY <2>1, <2>4 DEF InTransit, Unhooked, Unended
    <3>2. n.thread = h
      BY <1>3, <1>4, <2>4, <3>1, OneGeneration, SMT
    <3> QED
      BY <2>1, <2>4, <3>2 DEF Exclusive, Asks
  <2> QED
    BY <2>4, SMT
<1> QED
  BY <1>3, <1>5, <1>6

\* The entry of a thread that has ended: a zombie, or free.
Zombie(e, v) == [e EXCEPT !.terminated = v, !.has_ltab = FALSE]

\* A zombie is well formed and keeps its handle.
LEMMA ZombieEntry ==
    ASSUME NEW e \in GtabEntry, NEW v \in FinalStates, NEW z, z = Zombie(e, v)
    PROVE  /\ z \in GtabEntry /\ z.terminated = v /\ ~z.has_ltab
           /\ z.allocated = e.allocated /\ z.seq = e.seq /\ z.detached = e.detached
<1>1. v \in LT
  BY SMT DEF LT
<1> QED
  BY <1>1 DEF GtabEntry, Zombie

\* The START request that STARTED answers.
LEMMA StartedRequest ==
    ASSUME TypeOK, LifeInv, NEW s \in Ranks, net[s][0] # <<>>,
           Head(net[s][0]).op = "STARTED"
    PROVE  \E p : /\ StartPending(p) /\ p.xid = Head(net[s][0]).xid
                  /\ find_pending_msgreq(0, "START", Head(net[s][0]).xid) = {p}
                  /\ Head(net[s][0]).errstatus # "OK" =>
                        Unhooked(p.thread) /\ p.thread \notin known
<1> net \in Net /\ 0 \in Ranks
  BY ZeroInRange, SMT DEF TypeOK, Net
<1>1. 1 \in 1 .. Len(net[s][0]) /\ Head(net[s][0]) = net[s][0][1]
  BY HeadFacts
<1>2. InTransit(s, 0, Head(net[s][0]))
  BY <1>1 DEF LifeInv, TransitInv
<1>3. PICK p \in rpending[0] :
          /\ p.op = "START" /\ p.xid = Head(net[s][0]).xid
          /\ Head(net[s][0]).errstatus # "OK" =>
                Unhooked(p.thread) /\ p.thread \notin known
  BY <1>2 DEF InTransit
<1>4. \A q \in rpending[0] : q.op = "START" /\ q.xid = p.xid => q = p
  BY <1>3 DEF LifeInv, StartInv
<1>5. find_pending_msgreq(0, "START", Head(net[s][0]).xid) = {p}
  BY <1>3, <1>4 DEF find_pending_msgreq
<1> QED
  BY <1>3, <1>5 DEF StartPending

\* STARTED at manager 0, for the request p.
Starts(s, p) ==
    /\ net[s][0] # <<>> /\ Head(net[s][0]).op = "STARTED"
    /\ StartPending(p) /\ p.xid = Head(net[s][0]).xid

-----------------------------------------------------------------------------
(* A reply wakes its caller *)

\* What process_reply does to requests, threads and handles.
LEMMA ReplyEffect ==
    ASSUME TypeOK, CallInv, NEW s \in Ranks, NEW r \in Ranks, process_reply(s, r)
    PROVE  /\ net[s][r] # <<>> /\ Head(net[s][r]).op \in Replies
           /\ net' = Received(s, r) /\ UNCHANGED <<gtab, ltab, mgrstate>>
           /\ \A p : StartPending(p)' <=> StartPending(p)
           /\ \A p : JoinWaiting(p)' <=> JoinWaiting(p)
           /\ PcKept /\ known \subseteq known'
           /\ \A h \in known' : \/ h \in known
                                \/ /\ h = Head(net[s][r]).thread
                                   /\ Head(net[s][r]).op = "CREATED"
                                   /\ Head(net[s][r]).errstatus = "OK"
<1>1. /\ net[s][r] # <<>> /\ Head(net[s][r]).op \in Replies
      /\ net' = Received(s, r) /\ UNCHANGED <<gtab, ltab, mgrstate>>
  BY DEF process_reply, HasMessage
<1>2. PICK op : op = RequestOf(Head(net[s][r]).op)
  BY SMT
<1>3. op \in Requests /\ (op = "CREATE" => Head(net[s][r]).op = "CREATED")
  BY <1>1, <1>2 DEF RequestOf, Replies, Requests
<1>4. PICK found : found = find_pending_msgreq(r, op, Head(net[s][r]).xid)
  BY SMT
<1>5. \A p \in found : p \in rpending[r] /\ p.op = op
  BY <1>4, SMT DEF find_pending_msgreq
<1>6. /\ rpending' = [rpending EXCEPT ![r] = @ \ found]
      /\ app' = [app EXCEPT ![r] = [l \in Slots |->
                    IF \E p \in found : p.lidx = l THEN [app[r][l] EXCEPT !.pc = "done"]
                                                   ELSE app[r][l]]]
      /\ known' = known \cup
            {Head(net[s][r]).thread :
                p \in {q \in {p \in found : Head(net[s][r]).errstatus = "OK"} :
                          op = "CREATE"}}
  BY <1>2, <1>4, ZenonT(60) DEF process_reply
<1>7. \A q \in Ranks : rpending'[q] = IF q = r THEN rpending[q] \ found ELSE rpending[q]
  BY <1>6 DEF TypeOK
<1>8. /\ \A p : StartPending(p)' <=> StartPending(p)
      /\ \A p : JoinWaiting(p)' <=> JoinWaiting(p)
  BY <1>3, <1>5, <1>7, ZeroInRange DEF StartPending, JoinWaiting, Requests
<1>9. PcKept
  <2> SUFFICES ASSUME NEW q \in Ranks, NEW k \in Slots, app'[q][k] # app[q][k]
               PROVE  app[q][k].pc = "busy" /\ app'[q][k].pc = "done"
    BY DEF PcKept, Running
  <2>1. q = r /\ (\E p \in found : p.lidx = k) /\ app'[r][k] = [app[r][k] EXCEPT !.pc = "done"]
    BY <1>6 DEF TypeOK
  <2>2. app[r][k].pc = "busy"
    BY <1>3, <1>5, <2>1, SMT DEF CallInv, PendingOnce
  <2>3. app[r][k] \in AppEntry
    BY SMT DEF TypeOK
  <2> QED
    BY <2>1, <2>2, <2>3 DEF AppEntry
<1>10. /\ known \subseteq known'
       /\ \A h \in known' : \/ h \in known
                            \/ /\ h = Head(net[s][r]).thread
                               /\ Head(net[s][r]).op = "CREATED"
                               /\ Head(net[s][r]).errstatus = "OK"
  BY <1>3, <1>6
<1> QED
  BY <1>1, <1>8, <1>9, <1>10

-----------------------------------------------------------------------------
(* A slot is taken under a fresh seq *)

\* The entry that gtab_alloc fills in.
FreshEntry(x, d, seq) ==
    /\ x \in GtabEntry /\ x.allocated /\ x.seq = seq /\ x.rank = d
    /\ x.terminated = "NONE" /\ ~x.has_ltab /\ ~x.detached

\* gtab_alloc makes a fresh entry of any slot.
LEMMA BornEntry ==
    ASSUME NEW e \in GtabEntry, NEW d \in Ranks, NEW seq \in Nat
    PROVE  FreshEntry(gtab_alloc(e, d, seq), d, seq)
<1>1. PICK x : x = gtab_alloc(e, d, seq)
  OBVIOUS
<1>2. x \in GtabEntry
  BY <1>1, GtabAllocType, SMT
<1>3. /\ x.allocated /\ x.seq = seq /\ x.rank = d
      /\ x.terminated = "NONE" /\ ~x.has_ltab /\ ~x.detached
  BY <1>1, <1>2, SMT DEF gtab_alloc, GtabEntry
<1> QED
  BY <1>1, <1>2, <1>3 DEF FreshEntry

-----------------------------------------------------------------------------
(* What application threads do *)

\* No field of gtab but ret is written.
OnlyRet ==
    \A g \in Slots :
        /\ gtab'[g].allocated = gtab[g].allocated /\ gtab'[g].seq = gtab[g].seq
        /\ gtab'[g].rank = gtab[g].rank /\ gtab'[g].terminated = gtab[g].terminated
        /\ gtab'[g].has_ltab = gtab[g].has_ltab
        /\ gtab'[g].ltab_idx = gtab[g].ltab_idx
        /\ gtab'[g].detached = gtab[g].detached

\* Threads write only their ret field of gtab.
LEMMA OnlyRetTable ==
    ASSUME gtab \in Gtab,
           gtab' = gtab \/ \E k, v : gtab' = [gtab EXCEPT ![k].ret = v]
    PROVE  OnlyRet
<1>1. CASE gtab' = gtab
  BY <1>1, SMT DEF OnlyRet
<1>2. CASE \E k, v : gtab' = [gtab EXCEPT ![k].ret = v]
  BY <1>2, SMT DEF Gtab, GtabEntry, OnlyRet
<1> QED
  BY <1>1, <1>2

\* A thread of rank r moves on in its code, or makes its last request.
AppMoves(r, l) ==
    /\ OnlyRet /\ OnlyState(r, l)
    /\ \E e : /\ Sets(r, l, e)
              /\ \/ /\ e.pc \in Running /\ app[r][l].pc \in Running
                    /\ ltab'[r][l].pth_state = ltab[r][l].pth_state
                 \/ /\ e.pc = "clean" /\ app[r][l].pc \in Running \cup {"wrap"}
                    /\ ltab'[r][l].pth_state \in FinalStates
    /\ UNCHANGED <<net, rpending, mgrstate, known>>

\* retclean_request is such a move.
LEMMA RetcleanMoves ==
    ASSUME TypeOK, NEW r \in Ranks, NEW l \in Slots, NEW state \in FinalStates,
           retclean_request(r, l, state), app[r][l].pc \in Running \cup {"wrap"}
    PROVE  AppMoves(r, l)
<1> gtab \in Gtab /\ ltab \in Ltab
  BY SMT DEF TypeOK, Gtab, Ltab
<1>2. OnlyRet
  <2>1. \E k, v : gtab' = [gtab EXCEPT ![k].ret = v]
    BY DEF retclean_request
  <2> QED
    BY <2>1, OnlyRetTable
<1>3. OnlyState(r, l) /\ ltab'[r][l].pth_state = state
  <2>1. ltab' = WithState(r, l, state)
    BY DEF retclean_request, WithState
  <2> QED
    BY <2>1, StateSet
<1>4. PICK e : Sets(r, l, e) /\ e.pc = "clean"
  BY RetcleanEffect, BlankBlocks
<1>5. UNCHANGED <<net, rpending, mgrstate, known>>
  BY DEF retclean_request
<1> QED
  BY <1>2, <1>3, <1>4, <1>5 DEF AppMoves

\* The final state of a thread is one.
LEMMA FinalStateFinal ==
    ASSUME TypeOK, NEW r \in Ranks, NEW l \in Slots, NEW final \in FinalStates
    PROVE  FinalState(r, l, final) \in FinalStates
BY DEF TypeOK, FinalState, LtabEntry, LT_NEED_FINALSTATE, LT

\* Every step of an application thread is one of these.
LEMMA AppEffect ==
    ASSUME TypeOK, NEW r \in Ranks, NEW l \in Slots, AppChoice(r, l) \/ AppStep(r, l)
    PROVE  AppMoves(r, l) \/ dthreadwrap(r, l)
<1> app \in App /\ gtab \in Gtab /\ ltab \in Ltab
  BY SMT DEF TypeOK, App, Gtab, Ltab
<1>a. UNCHANGED ltab =>
         OnlyState(r, l) /\ ltab'[r][l].pth_state = ltab[r][l].pth_state
  BY SMT DEF OnlyState
<1>1. ASSUME NEW how \in {"exit", "return"}, app_leaves(r, l, how)
      PROVE  AppMoves(r, l)
  <2>1. /\ app' = WithPc(r, l, how) /\ app[r][l].pc = "run"
        /\ UNCHANGED <<ltab, net, rpending, mgrstate, known>>
        /\ gtab' = gtab \/ \E k, v : gtab' = [gtab EXCEPT ![k].ret = v]
    BY <1>1 DEF app_leaves, Alive, WithPc
  <2>2. PICK e : Sets(r, l, e) /\ e.pc = how
    BY <2>1, AppSetPc, SMT
  <2>3. OnlyRet
    BY <2>1, OnlyRetTable, SMT
  <2> QED
    BY <1>1, <1>a, <2>1, <2>2, <2>3, SMT DEF AppMoves, Running
<1>2. ASSUME NEW op, NEW h, NEW peer, NEW attr, Call(r, l, op, h, peer, attr)
      PROVE  AppMoves(r, l)
  <2> DEFINE e == [pc |-> "busy", op |-> op, thread |-> h, peer |-> peer,
                   attr |-> attr]
  <2>1. /\ app' = [app EXCEPT ![r][l] = e] /\ app[r][l].pc = "run"
        /\ UNCHANGED <<ltab, gtab, net, rpending, mgrstate, known>>
    BY <1>2 DEF Call, Alive
  <2>2. e.pc = "busy"
    BY SMT
  <2> HIDE DEF e
  <2>3. Sets(r, l, e)
    BY <2>1, AppSet
  <2>4. OnlyRet
    BY <2>1, OnlyRetTable, SMT
  <2> QED
    BY <1>a, <2>1, <2>2, <2>3, <2>4 DEF AppMoves, Running
<1>3. CASE api_return(r, l)
  <2> DEFINE e == [NoApp EXCEPT !.pc = "run"]
  <2>1. /\ app' = [app EXCEPT ![r][l] = e] /\ app[r][l].pc = "done"
        /\ UNCHANGED <<ltab, gtab, net, rpending, mgrstate, known>>
    BY <1>3 DEF api_return, Alive
  <2>2. e.pc = "run"
    BY BlankBlocks, SMT
  <2> HIDE DEF e
  <2>3. Sets(r, l, e)
    BY <2>1, AppSet
  <2>4. OnlyRet
    BY <2>1, OnlyRetTable, SMT
  <2> QED
    BY <1>a, <2>1, <2>2, <2>3, <2>4 DEF AppMoves, Running
<1>4. CASE app0wrap(r, l)
  <2> DEFINE e == [NoApp EXCEPT !.pc = "clean", !.op = "APP0_RET"]
  <2>1. /\ app' = [app EXCEPT ![r][l] = e] /\ app[r][l].pc = "return"
        /\ ltab' = WithState(r, l, "RETURNED")
        /\ UNCHANGED <<gtab, net, rpending, mgrstate, known>>
    BY <1>4 DEF app0wrap, Alive, WithState
  <2>2. e.pc = "clean"
    BY BlankBlocks, SMT
  <2> HIDE DEF e
  <2>3. Sets(r, l, e)
    BY <2>1, AppSet
  <2>4. OnlyRet
    BY <2>1, OnlyRetTable, SMT
  <2>5. OnlyState(r, l) /\ ltab'[r][l].pth_state = "RETURNED"
    BY <2>1, StateSet
  <2> QED
    BY <2>1, <2>2, <2>3, <2>4, <2>5 DEF AppMoves, Running, FinalStates
<1>5. CASE dthreadcleanup_unwound(r, l) \/ dthreadwrap_decode_fails(r, l)
  <2>1. PICK final \in {"CANCELED", "CLEANUP"} :
           /\ retclean_request(r, l, FinalState(r, l, final))
           /\ app[r][l].pc \in {"run", "wrap"}
    BY <1>5 DEF dthreadcleanup_unwound, dthreadwrap_decode_fails, Alive
  <2>2. FinalState(r, l, final) \in FinalStates
    BY FinalStateFinal, SMT DEF FinalStates
  <2> QED
    BY <2>1, <2>2, RetcleanMoves DEF Running
<1>6. CASE dthread_exit_common(r, l)
  BY <1>6, RetcleanMoves DEF dthread_exit_common, FinalStates, Alive, Running
<1>7. CASE dthreadcleanup_returned(r, l)
  <2>1. PICK final \in {"CANCELED", "RETURNED"} :
           /\ retclean_request(r, l, FinalState(r, l, final))
           /\ app[r][l].pc = "return"
    BY <1>7 DEF dthreadcleanup_returned, Alive
  <2>2. FinalState(r, l, final) \in FinalStates
    BY FinalStateFinal, SMT DEF FinalStates
  <2> QED
    BY <2>1, <2>2, RetcleanMoves DEF Running
<1>8. CASE AppChoice(r, l)
  BY <1>1, <1>2, <1>5, <1>8 DEF AppChoice, dthread_create, dthread_detach,
     dthread_cancel, dthread_join
<1> QED
  BY <1>3, <1>4, <1>5, <1>6, <1>7, <1>8 DEF AppStep
=============================================================================
