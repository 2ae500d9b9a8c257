---------------------------- MODULE ThreadProofs -----------------------------
(***************************************************************************)
(* Detaching, joining, ending, cancelling and shutting down keep LifeInv.  *)
(***************************************************************************)
EXTENDS LifeProofs

\* Leaves are for Zenon unless they name another prover.
USE Zenon

-----------------------------------------------------------------------------
(* What a step does to the messages under way *)

\* Two additions in a row, the first of them quiet.
LEMMA ExtendsTwice ==
    ASSUME NEW n1 \in Net, NEW n2 \in Net, NEW n3 \in Net, NEW a, NEW b, NEW c,
           NEW e, NEW m1, NEW m2, Quiet(m1),
           Extends(n1, n2, a, b, m1), Extends(n2, n3, c, e, m2)
    PROVE  Extends(n1, n3, c, e, m2)
<1> SUFFICES ASSUME NEW s \in Ranks, NEW d \in Ranks
             PROVE  /\ Len(n1[s][d]) <= Len(n3[s][d])
                    /\ \A i \in 1 .. Len(n3[s][d]) :
                          \/ i <= Len(n1[s][d]) /\ n3[s][d][i] = n1[s][d][i]
                          \/ /\ i > Len(n1[s][d])
                             /\ \/ Quiet(n3[s][d][i])
                                \/ /\ s = c /\ d = e /\ i = Len(n3[s][d])
                                   /\ n3[s][d][i] = m2
  BY DEF Extends
<1>1. /\ n1[s][d] \in Seq(Msg) /\ n2[s][d] \in Seq(Msg) /\ n3[s][d] \in Seq(Msg)
      /\ Len(n1[s][d]) \in Nat /\ Len(n2[s][d]) \in Nat /\ Len(n3[s][d]) \in Nat
  BY SMT DEF Net
<1>2. /\ Len(n1[s][d]) <= Len(n2[s][d])
      /\ \A i \in 1 .. Len(n2[s][d]) :
            \/ i <= Len(n1[s][d]) /\ n2[s][d][i] = n1[s][d][i]
            \/ i > Len(n1[s][d]) /\ Quiet(n2[s][d][i])
  BY ZenonT(60) DEF Extends
<1>3. /\ Len(n2[s][d]) <= Len(n3[s][d])
      /\ \A i \in 1 .. Len(n3[s][d]) :
            \/ i <= Len(n2[s][d]) /\ n3[s][d][i] = n2[s][d][i]
            \/ /\ i > Len(n2[s][d])
               /\ \/ Quiet(n3[s][d][i])
                  \/ s = c /\ d = e /\ i = Len(n3[s][d]) /\ n3[s][d][i] = m2
  BY DEF Extends
<1> QED
  BY <1>1, <1>2, <1>3, SMTT(20)

\* broadcast_shutdown sends only quiet messages.
LEMMA BroadcastExtends ==
    ASSUME NEW n \in Net, NEW r \in Ranks, broadcast_shutdown(n, r)
    PROVE  Extends(n, net', 0, 0, message("CREATE", 0, NoThread, "OK", NoData))
<1> DEFINE m == message("BCASTSHUTDOWN", 0, NoThread, "OK", NoData)
<1>1. Quiet(m)
  BY SMT DEF message, Quiet
<1> SUFFICES ASSUME NEW s \in Ranks, NEW d \in Ranks
             PROVE  /\ Len(n[s][d]) <= Len(net'[s][d])
                    /\ \A i \in 1 .. Len(net'[s][d]) :
                          \/ i <= Len(n[s][d]) /\ net'[s][d][i] = n[s][d][i]
                          \/ i > Len(n[s][d]) /\ Quiet(net'[s][d][i])
  BY ZenonT(60) DEF Extends
<1>2. n[s][d] \in Seq(Msg)
  BY SMT DEF Net
<1>3. net'[s][d] = n[s][d] \/ net'[s][d] = Append(n[s][d], m)
  BY DEF broadcast_shutdown, Net
<1>4. m \in Msg
  BY MessageType, NoThreadType, RetType DEF MsgOps, Errors
<1> HIDE DEF m
<1> QED
  BY <1>1, <1>2, <1>3, <1>4, SMTT(20)

-----------------------------------------------------------------------------
(* Handles the application knows, and joins that wait *)

\* The application forgets no handle.
LEMMA KnownGrows ==
    ASSUME [Next]_vars
    PROVE  known \subseteq known'
<1>1. CASE UNCHANGED known
  BY <1>1, SMT
<1>2. CASE \E r \in Ranks, l \in Slots : dthreadwrap(r, l)
  BY <1>2 DEF dthreadwrap
<1>3. CASE \E s, r \in Ranks : process_reply(s, r)
  <2>1. PICK s \in Ranks, r \in Ranks : process_reply(s, r)
    BY <1>3, SMT
  <2>2. PICK S : known' = known \cup S
    BY <2>1 DEF process_reply
  <2> QED
    BY <2>2, SMT
<1>4. CASE UNCHANGED vars
  BY <1>1, <1>4, SMT DEF vars
<1>5. ASSUME NEW r \in Ranks, NEW l \in Slots, AppChoice(r, l) \/ AppStep(r, l),
             ~dthreadwrap(r, l)
      PROVE  UNCHANGED known
  <2>1. ASSUME NEW state, retclean_request(r, l, state)
        PROVE  UNCHANGED known
    BY <2>1 DEF retclean_request
  <2> QED
    BY <1>5, <2>1, AppFrame DEF AppStep, dthreadwrap_decode_fails, dthread_exit_common,
       dthreadcleanup_returned, app0wrap, api_return
<1>6. CASE \E r \in Ranks : MgrRequest(r) \/ cancel_thread_act(r) \/ mgr_exit(r)
  BY <1>1, <1>6, MgrFrame, SMT DEF MgrRequest
<1>7. CASE idle_shutdown
  BY <1>1, <1>7, SMT DEF idle_shutdown
<1>8. ASSUME NEW s \in Ranks, NEW r \in Ranks, MgrMessage(s, r), ~process_reply(s, r)
      PROVE  UNCHANGED known
  BY <1>8, MessageFrame, SMT DEF MgrMessage
<1> QED
  BY <1>1, <1>2, <1>3, <1>4, <1>5, <1>6, <1>7, <1>8, SMT DEF Next

\* The handles in request blocks are known.
LEMMA AppKnownStep ==
    ASSUME TypeOK, KnownInv, [Next]_vars
    PROVE  AppKnown'
<1> SUFFICES ASSUME NEW r \in Ranks, NEW l \in Slots
             PROVE  app'[r][l].thread \in known' \cup {NoThread}
  BY SMT DEF AppKnown
<1>1. app'[r][l].thread \in {app[r][l].thread, NoThread} \cup known
  BY AppThreadStep
<1>2. app[r][l].thread \in known \cup {NoThread}
  BY DEF KnownInv
<1> QED
  BY <1>1, <1>2, KnownGrows

-----------------------------------------------------------------------------
(* What managers do that leaves the tables alone *)

\* A manager enters a phase of its shutdown.
LEMMA MgrPhase ==
    ASSUME TypeOK, NEW r \in Ranks, NEW v \in {"drain", "exit"},
           mgrstate' = [mgrstate EXCEPT ![r].phase = v]
    PROVE  MgrKept
BY SMTT(20) DEF TypeOK, MgrEntry, MgrKept, draining

\* A shutdown is passed on.
LEMMA BroadcastMove ==
    ASSUME TypeOK, NEW r \in Ranks, NEW n \in Net, broadcast_shutdown(n, r)
    PROVE  /\ MgrKept
           /\ \E m : Quiet(m) /\ Mute(m) /\ Extends(n, net', 0, 0, m)
<1> DEFINE m == message("CREATE", 0, NoThread, "OK", NoData)
<1>1. Quiet(m) /\ Mute(m)
  BY SMT DEF Quiet, Mute, Still, message
<1>2. Extends(n, net', 0, 0, m)
  BY BroadcastExtends, SMT
<1>3. MgrKept
  BY MgrPhase DEF broadcast_shutdown
<1> HIDE DEF m
<1> QED
  BY <1>1, <1>2, <1>3, SMT

\* app0 has returned; or no thread is left; or a manager leaves.
LEMMA ShutdownLife ==
    ASSUME TypeOK, TypeOK', CallInv, LifeInv, AppKnown', NEW r \in Ranks,
           process_req_app0_ret(r) \/ idle_shutdown \/ mgr_exit(r)
    PROVE  LifeInv'
<1> net \in Net /\ app \in App /\ 0 \in Ranks
  BY ZeroInRange DEF TypeOK, Net, App
<1>1. UNCHANGED <<gtab, ltab, known, rpending>>
  BY DEF process_req_app0_ret, idle_shutdown, mgr_exit
<1>2. /\ \A q : StartPending(q)' <=> StartPending(q)
      /\ \A q : JoinWaiting(q)' => JoinWaiting(q)
  BY <1>1, SMT DEF StartPending, JoinWaiting
<1>3. PcKept
  <2>1. CASE app' = app
    BY <2>1, SMT DEF PcKept
  <2>2. CASE process_req_app0_ret(r)
    <3>1. app' = [app EXCEPT ![r][Head(mgrreqq[r])] = NoApp] /\ mgrreqq[r] # <<>>
      BY <2>2 DEF process_req_app0_ret, HasRequest
    <3>2. Sets(r, Head(mgrreqq[r]), NoApp)
      BY <3>1, FirstRequest, AppSet
    <3> QED
      BY <3>2, BlankBlocks, SMT DEF PcKept, Sets
  <2> QED
    BY <2>1, <2>2, SMT DEF idle_shutdown, mgr_exit
<1>4. CASE mgr_exit(r)
  <2>1. UNCHANGED net /\ mgrstate' = [mgrstate EXCEPT ![r].phase = "exit"]
    BY <1>4 DEF mgr_exit
  <2>2. PICK m : Mute(m) /\ Quiet(m) /\ NetMove(0, 0, 0, 0, 0, m)
    BY <2>1, NetStays, SMT
  <2>3. MgrKept
    BY <2>1, MgrPhase
  <2>4. m.op \in {"DETACH", "CANCEL", "JOIN"} => m.thread \in known \cup {NoThread}
    BY <2>2, SMT DEF Quiet
  <2> QED
    BY <1>1, <1>2, <1>3, <2>2, <2>3, <2>4, TablesLife, SMT
<1>5. CASE process_req_app0_ret(r) \/ idle_shutdown
  <2>1. PICK q \in Ranks : broadcast_shutdown(net, q)
    BY <1>5 DEF process_req_app0_ret, idle_shutdown
  <2>2. PICK m : Quiet(m) /\ Mute(m) /\ Extends(net, net', 0, 0, m)
    BY <2>1, BroadcastMove, SMT
  <2>3. NetMove(0, 0, 0, 0, 0, m)
    BY <2>2, SentMove, SMT
  <2>4. m.op \in {"DETACH", "CANCEL", "JOIN"} => m.thread \in known \cup {NoThread}
    BY <2>2, SMT DEF Quiet
  <2>5. MgrKept
    BY <2>1, BroadcastMove, SMT
  <2> QED
    BY <1>1, <1>2, <1>3, <2>2, <2>3, <2>4, <2>5, TablesLife, SMT
<1> QED
  BY <1>4, <1>5, SMT

-----------------------------------------------------------------------------
(* A message is taken and answered *)

\* A thread that a call asks for is known.
LEMMA AskedKnown ==
    ASSUME TypeOK, KnownInv, NEW s \in Ranks, NEW r \in Ranks, net[s][r] # <<>>,
           Head(net[s][r]).op \in {"DETACH", "CANCEL", "JOIN"},
           dthread_dt2gtab(Head(net[s][r]).thread)
    PROVE  Head(net[s][r]).thread \in known
<1>1. 1 \in 1 .. Len(net[s][r]) /\ Head(net[s][r]) = net[s][r][1]
  <2>1. net \in Net
    BY DEF TypeOK, Net
  <2> QED
    BY <2>1, HeadFacts
<1>2. net[s][r][1].op \in {"DETACH", "CANCEL", "JOIN"}
         => net[s][r][1].thread \in known \cup {NoThread}
  BY <1>1 DEF KnownInv
<1>3. ~dthread_dt2gtab(NoThread)
  <2>1. NoThread.idx = NMaxThread + 1 /\ NMaxThread + 1 \notin Slots
    BY NMaxThreadAssumption, SMT DEF NoThread, Slots
  <2> QED
    BY <2>1 DEF dthread_dt2gtab
<1> QED
  BY <1>1, <1>2, <1>3

\* A message is taken and nothing is sent.
LEMMA DropMove ==
    ASSUME net \in Net, NEW s \in Ranks, NEW r \in Ranks, net[s][r] # <<>>,
           net' = Received(s, r)
    PROVE  QuietlyTaken(s, r)
<1> DEFINE m == message("CREATE", 0, NoThread, "OK", NoData)
<1>1. Quiet(m)
  BY SMT DEF Quiet, message
<1>2. Received(s, r) \in Net
  BY ReceivedType, SMT
<1>3. Extends(Received(s, r), net', 0, 0, m)
  BY <1>2, SMT DEF Extends, Net
<1>4. NetMove(s, r, 1, 0, 0, m)
  BY <1>3, TakenMove, SMT
<1> QED
  BY <1>1, <1>4 DEF QuietlyTaken

\* Managers that only answer keep LifeInv.
LEMMA AnswerLife ==
    ASSUME TypeOK, TypeOK', LifeInv, AppKnown', NEW s \in Ranks, NEW r \in Ranks,
           net[s][r] # <<>>, Head(net[s][r]).op # "STARTED", QuietlyTaken(s, r),
           UNCHANGED <<gtab, ltab, app, known>>, MgrKept,
           \A p : StartPending(p)' <=> StartPending(p),
           \A p : JoinWaiting(p)' => JoinWaiting(p)
    PROVE  LifeInv'
<1>1. PICK a, b, m : Quiet(m) /\ NetMove(s, r, 1, a, b, m)
  BY DEF QuietlyTaken
<1>2. Mute(m) /\ (m.op \in {"DETACH", "CANCEL", "JOIN"} => m.thread \in known \cup {NoThread})
  BY <1>1, QuietMute DEF Quiet
<1>3. net[s][r][1].op # "STARTED"
  <2>1. net[s][r] \in Seq(Msg)
    BY SMT DEF TypeOK
  <2> QED
    BY <2>1, TailFacts
<1>4. PcKept
  BY DEF PcKept
<1> QED
  BY <1>1, <1>2, <1>3, <1>4, TablesLife

\* create_thread fails: no slot is free, or the request cannot be allocated.
LEMMA CreateFailsLife ==
    ASSUME TypeOK, TypeOK', LifeInv, AppKnown', NEW s \in Ranks,
           create_thread_full(s) \/ create_thread_nomem(s)
    PROVE  LifeInv'
<1> net \in Net /\ 0 \in Ranks
  BY ZeroInRange DEF TypeOK, Net
<1>1. PICK err \in {"EAGAIN", "ENOMEM"} :
         /\ net[s][0] # <<>> /\ Head(net[s][0]).op = "CREATE"
         /\ net' = dtq_send_enqueue(Received(s, 0), 0, s,
                       Answer("CREATED", Head(net[s][0]).xid, err, NoData))
         /\ UNCHANGED <<gtab, ltab, app, known, rpending, mgrstate>>
  BY DEF create_thread_full, create_thread_nomem, HasMessage, CreateFailed, Answer
<1>2. Head(net[s][0]).xid \in Nat
  BY <1>1, ReceivedType DEF Msg
<1>3. QuietlyTaken(s, 0)
  BY <1>1, <1>2, QuietAnswer, RetType DEF Errors
<1>4. MgrKept
  BY <1>1, MgrSame
<1>5. /\ \A q : StartPending(q)' <=> StartPending(q)
      /\ \A q : JoinWaiting(q)' => JoinWaiting(q)
  BY <1>1 DEF StartPending, JoinWaiting
<1>6. Head(net[s][0]).op # "STARTED"
  BY <1>1
<1> QED
  BY <1>1, <1>3, <1>4, <1>5, <1>6, AnswerLife

\* cancel_thread, first part.
LEMMA CancelLife ==
    ASSUME TypeOK, TypeOK', LifeInv, AppKnown', NEW s \in Ranks, NEW r \in Ranks,
           cancel_thread(s, r)
    PROVE  LifeInv'
<1> DEFINE m == Head(net[s][r])
<1> net \in Net
  BY DEF TypeOK, Net
<1>1. /\ net[s][r] # <<>> /\ m.op = "CANCEL"
      /\ UNCHANGED <<gtab, ltab, app, known, rpending>>
  BY DEF cancel_thread, HasMessage
<1>2. m.xid \in Nat
  BY <1>1, ReceivedType DEF Msg
<1>3. CASE /\ net' = Received(s, r)
           /\ mgrstate' = [mgrstate EXCEPT ![r].cancelling = s, ![r].xid = m.xid,
                                           ![r].thread = m.thread]
  <2>1. MgrKept
    <3>1. \A q \in Ranks : mgrstate[q] \in MgrEntry
      BY DEF TypeOK
    <3>2. \A q \in Ranks : q # r => mgrstate'[q] = mgrstate[q]
      BY <1>3, ZenonT(60) DEF TypeOK
    <3>3. mgrstate'[r] = [mgrstate[r] EXCEPT !.cancelling = s, !.xid = m.xid,
                                             !.thread = m.thread]
      BY <1>3, ZenonT(60) DEF TypeOK
    <3>4. mgrstate'[r].phase = mgrstate[r].phase
          /\ mgrstate'[r].ltab_alloc = mgrstate[r].ltab_alloc
      BY <3>1, <3>3, SMT DEF MgrEntry
    <3> QED
      BY <3>2, <3>4, SMT DEF MgrKept, draining
  <2>2. QuietlyTaken(s, r)
    BY <1>1, <1>3, DropMove
  <2> QED
    BY <1>1, <2>1, <2>2, AnswerLife DEF StartPending, JoinWaiting
<1>4. CASE /\ mgrstate' = mgrstate
           /\ \E err \in {"EINVAL", "ESRCH"} :
                 net' = dtq_send_enqueue(Received(s, r), r, s,
                            Answer("CANCELED", m.xid, err, NoData))
  <2>1. MgrKept
    BY <1>4, MgrSame, SMT
  <2>2. QuietlyTaken(s, r)
    BY <1>1, <1>2, <1>4, QuietAnswer, RetType DEF Errors
  <2> QED
    BY <1>1, <2>1, <2>2, AnswerLife, SMT DEF StartPending, JoinWaiting
<1> QED
  BY <1>3, <1>4 DEF cancel_thread, Answer

\* A shutdown comes down the tree.
LEMMA ShutdownMessageLife ==
    ASSUME TypeOK, TypeOK', LifeInv, AppKnown', NEW s \in Ranks, NEW r \in Ranks,
           process_bcastshutdown(s, r)
    PROVE  LifeInv'
<1> net \in Net
  BY SMT DEF TypeOK, Net
<1>1. /\ net[s][r] # <<>> /\ Head(net[s][r]).op = "BCASTSHUTDOWN"
      /\ UNCHANGED <<gtab, ltab, app, known, rpending>>
      /\ broadcast_shutdown(Received(s, r), r)
  BY DEF process_bcastshutdown, HasMessage
<1>2. Received(s, r) \in Net
  BY <1>1, ReceivedType
<1>3. PICK m : Quiet(m) /\ Mute(m) /\ Extends(Received(s, r), net', 0, 0, m)
  BY <1>1, <1>2, BroadcastMove
<1>4. QuietlyTaken(s, r)
  <2>1. NetMove(s, r, 1, 0, 0, m)
    BY <1>1, <1>3, TakenMove
  <2> QED
    BY <1>3, <2>1 DEF QuietlyTaken
<1>5. MgrKept
  BY <1>1, <1>2, BroadcastMove
<1> QED
  BY <1>1, <1>4, <1>5, AnswerLife DEF StartPending, JoinWaiting

\* A waiting JOIN, if there is one, is answered with a quiet message.
LEMMA ReleaseExtends ==
    ASSUME TypeOK, NEW n \in Net, NEW waiting \in SUBSET rpending[0],
           NEW err \in Errors, NEW ret \in Ret
    PROVE  /\ joinwait_end_release(n, waiting, err, ret) \in Net
           /\ \E a, b, m : /\ Quiet(m)
                           /\ Extends(n, joinwait_end_release(n, waiting, err, ret), a, b, m)
<1> DEFINE n2 == joinwait_end_release(n, waiting, err, ret)
<1>1. CASE waiting = {}
  <2> DEFINE m == message("CREATE", 0, NoThread, "OK", NoData)
  <2>1. n2 = n
    BY <1>1, SMT DEF joinwait_end_release
  <2>2. Extends(n, n, 0, 0, m)
    BY SMT DEF Extends, Net
  <2>3. Quiet(m)
    BY SMT DEF message, Quiet
  <2> HIDE DEF m
  <2> QED
    BY <2>1, <2>2, <2>3, SMT
<1>2. CASE waiting # {}
  <2> DEFINE p == CHOOSE q \in waiting : TRUE
             m == message("JOINED", p.xid, NoThread, err, IF err = "OK" THEN ret ELSE NoData)
  <2>1. n2 = dtq_send_enqueue(n, 0, p.peer, m)
    BY <1>2 DEF joinwait_end_release
  <2>2. p \in Pending
    <3>1. p \in waiting
      BY <1>2, SMT
    <3>2. rpending[0] \subseteq Pending
      BY ZeroInRange, SMT DEF TypeOK
    <3> QED
      BY <3>1, <3>2, SMT
  <2> HIDE DEF p
  <2> p.xid \in Nat /\ p.peer \in Ranks
    BY <2>2, SMT DEF Pending
  <2>4. m \in Msg
    BY MessageType, NoThreadType, RetType DEF MsgOps, Replies
  <2>5. Quiet(m)
    BY DEF message, Quiet
  <2> HIDE DEF m
  <2>6. n2 \in Net /\ Extends(n, n2, 0, p.peer, m)
    BY <2>1, <2>4, ZeroInRange, SendExtends, SendType
  <2> QED
    BY <2>5, <2>6, SMT
<1> QED
  BY <1>1, <1>2

\* detach_thread's effect on gtab.
LEMMA DetachTable ==
    ASSUME gtab \in Gtab, NEW f \in Slots,
           gtab' = [gtab EXCEPT ![f].detached = TRUE]
    PROVE  /\ SameSlots(NMaxThread) /\ SameDetached(f) /\ NoHook
           /\ \A g \in Slots : /\ gtab'[g].has_ltab = gtab[g].has_ltab
                               /\ gtab'[g].ltab_idx = gtab[g].ltab_idx
BY SMT DEF Gtab, GtabEntry, SameSlots, SameDetached, NoHook

\* detach_thread.
LEMMA DetachLife ==
    ASSUME TypeOK, TypeOK', LifeInv, AppKnown', NEW s \in Ranks, detach_thread(s)
    PROVE  LifeInv'
<1> DEFINE m == Head(net[s][0])
           h == m.thread
           found == dthread_dt2gtab(h)
           waiting == IF found THEN joinwait_search(h) ELSE {}
           err == IF found THEN "OK" ELSE "ESRCH"
           n == dtq_send_enqueue(Received(s, 0), 0, s, Answer("DETACHED", m.xid, err, NoData))
<1> net \in Net /\ net' \in Net /\ gtab \in Gtab
  BY DEF TypeOK, Net, Gtab
<1> 0 \in Ranks /\ NMaxThread \notin Slots
  BY ZeroInRange, NMaxThreadAssumption, SMT DEF Slots
<1>1. /\ net[s][0] # <<>> /\ m.op = "DETACH"
      /\ gtab' = IF found THEN [gtab EXCEPT ![h.idx].detached = TRUE] ELSE gtab
      /\ rpending' = [rpending EXCEPT ![0] = @ \ waiting]
      /\ net' = joinwait_end_release(n, waiting, "EINVAL", NoData)
      /\ UNCHANGED <<ltab, app, mgrstate, known>>
  BY DEF detach_thread, HasMessage, Answer
<1> m \in Msg /\ m.xid \in Nat /\ h \in Handle
  <2>1. m \in Msg
    BY <1>1, ReceivedType
  <2> QED
    BY <2>1 DEF Msg
<1>3. m = net[s][0][1]
  BY <1>1, HeadFacts
<1>4. found => h \in known
  BY <1>1, AskedKnown DEF LifeInv
<1>5. QuietlyTaken(s, 0)
  <2> DEFINE a == Answer("DETACHED", m.xid, err, NoData)
  <2>1. a \in Msg
    BY MessageType, NoThreadType, RetType DEF Answer, MsgOps, Replies, Errors
  <2>2. Quiet(a)
    BY DEF Answer, message, Quiet
  <2>3. Received(s, 0) \in Net
    BY <1>1, ReceivedType
  <2> HIDE DEF a
  <2>4. n \in Net /\ Extends(Received(s, 0), n, 0, s, a)
    BY <2>1, <2>3, SendExtends, SendType DEF a
  <2>5. waiting \in SUBSET rpending[0]
    BY DEF joinwait_search
  <2> HIDE DEF waiting, n
  <2>6. PICK b, c, o : Quiet(o) /\ Extends(n, net', b, c, o)
    BY <1>1, <2>4, <2>5, ReleaseExtends, RetType DEF Errors
  <2>7. Extends(Received(s, 0), net', b, c, o)
    BY <2>2, <2>3, <2>4, <2>6, ExtendsTwice
  <2>8. NetMove(s, 0, 1, b, c, o)
    BY <1>1, <2>7, TakenMove
  <2> QED
    BY <2>6, <2>8 DEF QuietlyTaken
<1>6. rpending'[0] = rpending[0] \ waiting
  BY <1>1, ZenonT(60) DEF TypeOK
<1>7. \A p : StartPending(p)' <=> StartPending(p)
  BY <1>6 DEF StartPending, joinwait_search
<1>8. MgrKept
  BY <1>1, MgrSame
<1>9. CASE ~found
  BY <1>1, <1>5, <1>6, <1>7, <1>8, <1>9, AnswerLife DEF JoinWaiting
<1>10. CASE found
  <2>1. h.idx \in Slots /\ gtab[h.idx].allocated /\ gtab[h.idx].seq = h.seq
    BY <1>10 DEF dthread_dt2gtab
  <2>2. /\ SameSlots(NMaxThread) /\ SameDetached(h.idx) /\ NoHook
        /\ \A g \in Slots : /\ gtab'[g].has_ltab = gtab[g].has_ltab
                            /\ gtab'[g].ltab_idx = gtab[g].ltab_idx
    BY <1>1, <1>10, <2>1, DetachTable
  <2>3. SlotInv'
    BY <2>2, SlotsMove DEF LifeInv
  <2>4. SameLives
    BY <1>1 DEF SameLives, Lives
  <2>5. LiveInv'
    <3>1. ASSUME NEW r \in Ranks, NEW l \in Slots, Lives(r, l)'
          PROVE  ltab[r][l].gtab_idx # NMaxThread /\ LiveState(r, l)'
      <4>1. LiveState(r, l) /\ ltab[r][l].gtab_idx \in Slots
        BY <2>4, <3>1, LiveFacts DEF LifeInv, SameLives
      <4> QED
        BY <1>1, <2>2, <4>1 DEF LiveState
    <3> QED
      BY <2>2, <2>4, <3>1, LiveMove DEF LifeInv
  <2>6. LtabCounted'
    BY <1>1 DEF LifeInv, LtabCounted, InUse
  <2>7. PICK b, c, o : Quiet(o) /\ NetMove(s, 0, 1, b, c, o)
    BY <1>5 DEF QuietlyTaken
  <2>8. Mute(o) /\ (o.op \in {"DETACH", "CANCEL", "JOIN"} => o.thread \in known \cup {NoThread})
    BY <2>7, QuietMute DEF Quiet
  <2>9. Traffic'
    <3>1. Traffic
      BY DEF LifeInv, Traffic
    <3>2. DrainsOn /\ known' = known /\ net[s][0][1].op # "STARTED"
      BY <1>1, <1>3, <1>8 DEF DrainsOn, MgrKept
    <3> HIDE DEF m
    <3> QED
      BY <1>7, <2>2, <2>4, <2>7, <2>8, <3>1, <3>2, QuietTraffic
  <2>10. KnownInv'
    <3>1. ASSUME NEW g \in Slots, gtab'[g].allocated, gtab'[g].detached
          PROVE  \/ /\ gtab[g].allocated /\ gtab[g].detached
                    /\ gtab'[g].seq = gtab[g].seq
                 \/ [idx |-> g, seq |-> gtab'[g].seq] \in known
      <4>1. gtab[g].allocated /\ gtab'[g].seq = gtab[g].seq
        BY <2>2, <3>1 DEF SameSlots
      <4>2. CASE g = h.idx
        <5>1. h = [idx |-> g, seq |-> gtab'[g].seq]
          BY <2>1, <4>1, <4>2 DEF Handle
        <5> QED
          BY <1>4, <1>10, <5>1
      <4>3. CASE g # h.idx
        BY <2>2, <3>1, <4>1, <4>3 DEF SameDetached
      <4> QED
        BY <4>2, <4>3
    <3>2. \A p : JoinWaiting(p)' => JoinWaiting(p)
      BY <1>6 DEF JoinWaiting
    <3>3. known \subseteq known'
      BY <1>1
    <3> HIDE DEF m
    <3> QED
      BY <2>7, <2>8, <3>1, <3>2, <3>3, KnownMove DEF LifeInv
  <2>11. JoinWaitHasFuture'
    <3>1. ASSUME NEW p, JoinWaiting(p)'
          PROVE  JoinWaiting(p) /\ p.thread.idx # h.idx
      <4>1. JoinWaiting(p) /\ p \notin joinwait_search(h)
        BY <1>6, <1>10, <3>1 DEF JoinWaiting
      <4>2. p.thread # h
        BY <4>1 DEF joinwait_search, JoinWaiting
      <4>3. dthread_dt2gtab(p.thread) /\ p.thread \in Handle
        <5>1. p \in Pending
          BY <4>1 DEF JoinWaiting, TypeOK
        <5> QED
          BY <4>1, <5>1 DEF JoinWaiting, LifeInv, JoinWaitHasFuture, Pending
      <4> QED
        BY <2>1, <4>1, <4>2, <4>3, HandleEq DEF dthread_dt2gtab
    <3>2. SameSlots(h.idx)
      BY <2>2 DEF SameSlots
    <3> QED
      BY <2>2, <3>1, <3>2, JoinWaitMove DEF LifeInv
  <2> QED
    BY <2>3, <2>5, <2>6, <2>9, <2>10, <2>11 DEF LifeInv, Traffic
<1> QED
  BY <1>9, <1>10

-----------------------------------------------------------------------------
(* Manager 0 frees a slot, or sees its thread end *)

\* join_thread refuses, at once.
LEMMA JoinRefusedLife ==
    ASSUME TypeOK, TypeOK', LifeInv, AppKnown', NEW s \in Ranks, net[s][0] # <<>>,
           Head(net[s][0]).op = "JOIN", NEW err \in Errors,
           net' = dtq_send_enqueue(Received(s, 0), 0, s,
                      Answer("JOINED", Head(net[s][0]).xid, err, NoData)),
           UNCHANGED <<gtab, ltab, app, known, mgrstate, rpending>>
    PROVE  LifeInv'
<1> net \in Net /\ 0 \in Ranks
  BY ZeroInRange DEF TypeOK, Net
<1>1. Head(net[s][0]).xid \in Nat
  BY HeadFacts DEF Msg
<1>2. QuietlyTaken(s, 0)
  BY <1>1, QuietAnswer, RetType
<1>3. MgrKept
  BY MgrSame
<1>4. /\ \A q : StartPending(q)' <=> StartPending(q)
      /\ \A q : JoinWaiting(q)' => JoinWaiting(q)
  BY DEF StartPending, JoinWaiting
<1>5. Head(net[s][0]).op # "STARTED"
  OBVIOUS
<1> QED
  BY <1>2, <1>3, <1>4, <1>5, AnswerLife

\* join_thread answers from a zombie and frees its slot.
LEMMA JoinFreesLife ==
    ASSUME TypeOK, TypeOK', LifeInv, AppKnown', NEW s \in Ranks, net[s][0] # <<>>,
           Head(net[s][0]).op = "JOIN", NEW f \in Slots,
           gtab[f].allocated, ~LT_NEED_FINALSTATE(gtab[f].terminated),
           net' = dtq_send_enqueue(Received(s, 0), 0, s,
                      Answer("JOINED", Head(net[s][0]).xid, "OK", gtab[f].ret)),
           gtab' = [gtab EXCEPT ![f] = gtab_free(gtab[f])],
           UNCHANGED <<ltab, app, known, mgrstate, rpending>>
    PROVE  LifeInv'
<1> net \in Net /\ 0 \in Ranks /\ gtab \in Gtab
  BY ZeroInRange DEF TypeOK, Net, Gtab
<1> Head(net[s][0]).xid \in Nat /\ gtab[f] \in GtabEntry
  BY HeadFacts DEF Msg, Gtab
<1>2. QuietlyTaken(s, 0)
  <2>1. gtab[f].ret \in Ret
    BY DEF GtabEntry
  <2> QED
    BY <2>1, QuietAnswer DEF Errors
<1>3. SameEntries(f) /\ SlotFreed(f) /\ ~gtab'[f].has_ltab
  BY FreeEffect
<1>4. gtab[f].terminated # "NONE"
  BY DEF LT_NEED_FINALSTATE
<1>5. /\ SlotClear(s, f, -1)
      /\ \A p : StartPending(p) => p.thread.idx # f
      /\ \A r \in Ranks, l \in Slots : Lives(r, l) => ltab[r][l].gtab_idx # f
  BY <1>4, IdleSlotClear
<1>6. net[s][0][1].op # "STARTED"
  BY HeadFacts
<1>7. \A p : StartPending(p)' =>
         /\ StartPending(p) /\ p.thread.idx # f
         /\ ~(net[s][0][1].op = "STARTED" /\ net[s][0][1].xid = p.xid)
  BY <1>5, <1>6 DEF StartPending
<1>8. \A p : JoinWaiting(p)' => JoinWaiting(p) /\ p.thread.idx # f
  BY DEF JoinWaiting, LifeInv, JoinWaitHasFuture
<1>9. StartsKept(-1)
  BY DEF StartsKept, StartPending
<1>10. gtab'[f].has_ltab => gtab[f].has_ltab
  BY <1>3
<1> QED
  BY <1>2, <1>3, <1>5, <1>7, <1>8, <1>9, <1>10, SlotGoneLife

\* The tables keep their invariants when they stay as they are.
LEMMA SameTables ==
    ASSUME TypeOK, LifeInv, UNCHANGED <<gtab, ltab, app, mgrstate>>
    PROVE  SlotInv' /\ LiveInv' /\ LtabCounted'
<1>b. NMaxThread \notin Slots
  BY NMaxThreadAssumption, SMT DEF Slots
<1>1. SlotInv'
  BY DEF LifeInv, SlotInv
<1>2. SameLives /\ SameSlots(NMaxThread)
  BY DEF SameLives, Lives, SameSlots
<1>3. ASSUME NEW r \in Ranks, NEW l \in Slots, Lives(r, l)'
      PROVE  ltab[r][l].gtab_idx # NMaxThread /\ LiveState(r, l)'
  <2>1. LiveState(r, l) /\ ltab[r][l].gtab_idx \in Slots
    BY <1>2, <1>3, LiveFacts DEF LifeInv, SameLives
  <2> QED
    BY <1>b, <2>1 DEF LiveState
<1>4. LiveInv'
  BY <1>2, <1>3, LiveMove DEF LifeInv
<1>5. LtabCounted'
  BY DEF LifeInv, LtabCounted, InUse
<1> QED
  BY <1>1, <1>4, <1>5, SMT

\* join_thread waits.
LEMMA JoinWaitsLife ==
    ASSUME TypeOK, TypeOK', LifeInv, AppKnown', NEW s \in Ranks, NEW h,
           Asks(s, "JOIN", h), dthread_dt2gtab(h), ~gtab[h.idx].detached,
           LT_NEED_FINALSTATE(gtab[h.idx].terminated), joinwait_search(h) = {},
           net' = Received(s, 0), NEW p, p.op = "JOINWAIT", p.thread = h,
           rpending' = [rpending EXCEPT ![0] = @ \cup {p}],
           UNCHANGED <<gtab, ltab, app, known, mgrstate>>
    PROVE  LifeInv'
<1> net \in Net /\ net' \in Net
  BY DEF TypeOK, Net
<1> 0 \in Ranks /\ NMaxThread \notin Slots
  BY ZeroInRange, NMaxThreadAssumption, SMT DEF Slots
<1>1. rpending'[0] = rpending[0] \cup {p}
  BY DEF TypeOK
<1>2. /\ \A q : StartPending(q)' <=> StartPending(q)
      /\ \A q : JoinWaiting(q)' <=> JoinWaiting(q) \/ q = p
  BY <1>1 DEF StartPending, JoinWaiting
<1>3. h \in known
  BY AskedKnown DEF LifeInv, Asks
<1>4. PICK b, c, o : Quiet(o) /\ NetMove(s, 0, 1, b, c, o)
  BY DropMove DEF QuietlyTaken, Asks
<1>5. Mute(o) /\ (o.op \in {"DETACH", "CANCEL", "JOIN"} => o.thread \in known \cup {NoThread})
  BY <1>4, QuietMute DEF Quiet
<1>6. SlotInv' /\ LiveInv' /\ LtabCounted'
  BY SameTables
<1>7. Traffic'
  <2>1. Traffic
    BY DEF LifeInv, Traffic
  <2>2. SameSlots(NMaxThread) /\ NoHook /\ SameLives /\ DrainsOn
    BY DEF SameSlots, NoHook, SameLives, Lives, DrainsOn, draining
  <2>3. 1 = 1 => net[s][0][1].op # "STARTED"
    BY HeadFacts DEF Asks
  <2> QED
    BY <1>2, <1>4, <1>5, <2>1, <2>2, <2>3, QuietTraffic
<1>8. KnownInv'
  <2>1. \A q : JoinWaiting(q)' => JoinWaiting(q) \/ q.thread \in known
    BY <1>2, <1>3
  <2>2. \A g \in Slots : gtab'[g].allocated /\ gtab'[g].detached =>
            gtab[g].allocated /\ gtab[g].detached /\ gtab'[g].seq = gtab[g].seq
    OBVIOUS
  <2> QED
    BY <1>4, <1>5, <2>1, <2>2, KnownMove DEF LifeInv
<1>9. JoinWaitHasFuture'
  <2> SUFFICES ASSUME NEW q, JoinWaiting(q)'
               PROVE  /\ dthread_dt2gtab(q.thread) /\ ~gtab[q.thread.idx].detached
                      /\ LT_NEED_FINALSTATE(gtab[q.thread.idx].terminated)
                      /\ joinwait_search(q.thread)' = {q}
    BY DEF JoinWaitHasFuture, JoinWaiting, dthread_dt2gtab, LT_NEED_FINALSTATE
  <2>1. \A x : x \in joinwait_search(q.thread)' <=>
               x \in joinwait_search(q.thread) \/ (x = p /\ q.thread = h)
    BY <1>1 DEF joinwait_search
  <2>2. CASE q = p
    BY <2>1, <2>2
  <2>3. CASE JoinWaiting(q)
    <3>1. /\ dthread_dt2gtab(q.thread) /\ ~gtab[q.thread.idx].detached
          /\ LT_NEED_FINALSTATE(gtab[q.thread.idx].terminated)
          /\ joinwait_search(q.thread) = {q}
      BY <2>3 DEF LifeInv, JoinWaitHasFuture, JoinWaiting
    <3>2. q.thread # h
      BY <3>1
    <3> QED
      BY <2>1, <3>1, <3>2
  <2> QED
    BY <1>2, <2>2, <2>3
<1> QED
  BY <1>6, <1>7, <1>8, <1>9 DEF LifeInv, Traffic

\* join_thread.
LEMMA JoinLife ==
    ASSUME TypeOK, TypeOK', LifeInv, AppKnown', NEW s \in Ranks, join_thread(s)
    PROVE  LifeInv'
<1> DEFINE xid == Head(net[s][0]).xid
<1>1. /\ net[s][0] # <<>> /\ Head(net[s][0]).op = "JOIN"
      /\ UNCHANGED <<ltab, app, known, mgrstate>>
  BY DEF join_thread, HasMessage
<1>h. PICK h : h = Head(net[s][0]).thread
  BY SMT
<1>2. \/ /\ \E err \in {"ESRCH", "EINVAL", "ENOMEM"} :
               net' = dtq_send_enqueue(Received(s, 0), 0, s,
                          Answer("JOINED", xid, err, NoData))
         /\ UNCHANGED <<gtab, rpending>>
      \/ /\ dthread_dt2gtab(h) /\ ~LT_NEED_FINALSTATE(gtab[h.idx].terminated)
         /\ net' = dtq_send_enqueue(Received(s, 0), 0, s,
                       Answer("JOINED", xid, "OK", gtab[h.idx].ret))
         /\ gtab' = [gtab EXCEPT ![h.idx] = gtab_free(gtab[h.idx])]
         /\ UNCHANGED rpending
      \/ /\ dthread_dt2gtab(h) /\ ~gtab[h.idx].detached
         /\ LT_NEED_FINALSTATE(gtab[h.idx].terminated) /\ joinwait_search(h) = {}
         /\ net' = Received(s, 0)
         /\ rpending' = [rpending EXCEPT ![0] = @ \cup
                            {pending("JOINWAIT", xid, 0, NMaxThread, h, s)}]
         /\ UNCHANGED gtab
  BY <1>h, ZenonT(30) DEF join_thread, Answer
<1>3. ASSUME NEW err \in {"ESRCH", "EINVAL", "ENOMEM"},
             net' = dtq_send_enqueue(Received(s, 0), 0, s,
                        Answer("JOINED", xid, err, NoData)),
             UNCHANGED <<gtab, rpending>>
      PROVE  LifeInv'
  BY <1>1, <1>3, JoinRefusedLife DEF Errors
<1>4. ASSUME dthread_dt2gtab(h), ~LT_NEED_FINALSTATE(gtab[h.idx].terminated),
             net' = dtq_send_enqueue(Received(s, 0), 0, s,
                        Answer("JOINED", xid, "OK", gtab[h.idx].ret)),
             gtab' = [gtab EXCEPT ![h.idx] = gtab_free(gtab[h.idx])],
             UNCHANGED rpending
      PROVE  LifeInv'
  <2>1. h.idx \in Slots /\ gtab[h.idx].allocated
    BY <1>4 DEF dthread_dt2gtab
  <2> QED
    BY <1>1, <1>4, <2>1, JoinFreesLife
<1>5. ASSUME dthread_dt2gtab(h), ~gtab[h.idx].detached,
             LT_NEED_FINALSTATE(gtab[h.idx].terminated), joinwait_search(h) = {},
             net' = Received(s, 0),
             rpending' = [rpending EXCEPT ![0] = @ \cup
                             {pending("JOINWAIT", xid, 0, NMaxThread, h, s)}],
             UNCHANGED gtab
      PROVE  LifeInv'
  <2>1. Asks(s, "JOIN", h)
    BY <1>1, <1>h DEF Asks
  <2>2. PICK p : p = pending("JOINWAIT", xid, 0, NMaxThread, h, s)
    BY SMT
  <2>3. p.op = "JOINWAIT" /\ p.thread = h
    BY <2>2 DEF pending
  <2>4. rpending' = [rpending EXCEPT ![0] = @ \cup {p}]
    BY <1>5, <2>2
  <2> QED
    BY <1>1, <1>5, <2>1, <2>3, <2>4, JoinWaitsLife
<1> QED
  BY <1>2, <1>3, <1>4, <1>5

\* What the end of a thread does to its slot.
LEMMA EndedEffect ==
    ASSUME gtab \in Gtab, NEW f \in Slots, NEW v \in FinalStates, NEW done \in BOOLEAN,
           ~done => ~gtab[f].detached,
           gtab' = [gtab EXCEPT ![f] = IF done THEN gtab_free(Zombie(gtab[f], v))
                                               ELSE Zombie(gtab[f], v)]
    PROVE  SameEntries(f) /\ (SlotFreed(f) \/ SlotEnded(f)) /\ ~gtab'[f].has_ltab
<1>1. gtab[f] \in GtabEntry
  BY SMT DEF Gtab
<1>2. PICK z : z = Zombie(gtab[f], v)
  BY SMT
<1>3. /\ z \in GtabEntry /\ z.terminated = v /\ ~z.has_ltab
      /\ z.allocated = gtab[f].allocated /\ z.seq = gtab[f].seq
      /\ z.detached = gtab[f].detached
  BY <1>1, <1>2, ZombieEntry, SMT
<1>4. CASE done
  <2>1. gtab' = [gtab EXCEPT ![f] = gtab_free(z)]
    BY <1>2, <1>4
  <2> QED
    BY <1>3, <2>1, FreeEffect
<1>5. CASE ~done
  <2>1. gtab' = [gtab EXCEPT ![f] = z]
    BY <1>2, <1>5
  <2>2. gtab'[f] = z /\ SameEntries(f)
    BY <2>1 DEF Gtab, SameEntries
  <2> QED
    BY <1>3, <1>5, <2>2 DEF SlotEnded
<1> QED
  BY <1>4, <1>5

\* terminated_thread.
LEMMA TerminatedLife ==
    ASSUME TypeOK, TypeOK', LifeInv, AppKnown', NEW s \in Ranks, terminated_thread(s)
    PROVE  LifeInv'
<1> net \in Net /\ net' \in Net /\ gtab \in Gtab
  BY DEF TypeOK, Net, Gtab
<1> 0 \in Ranks
  BY ZeroInRange, SMT
<1>h. PICK h : h = Head(net[s][0]).thread
  BY SMT
<1>v. PICK v : v = Head(net[s][0]).finalstate
  BY SMT
<1>w. PICK waiting : waiting = joinwait_search(h)
  BY SMT
<1>1. /\ net[s][0] # <<>> /\ Head(net[s][0]).op = "TERMINATED"
      /\ UNCHANGED <<ltab, app, known, mgrstate>>
  BY DEF terminated_thread, HasMessage
<1>2. Asks(s, "TERMINATED", h)
  BY <1>1, <1>h DEF Asks
<1>3. /\ h \in Handle /\ Unhooked(h) /\ v \in FinalStates
      /\ SlotClear(s, h.idx, -1)
      /\ \A p : StartPending(p) => p.thread.idx # h.idx
  BY <1>2, <1>v, TerminatedClear
<1>4. /\ h.idx \in Slots /\ gtab[h.idx].seq = h.seq /\ v # "RUNNING" /\ dthread_dt2gtab(h)
      /\ \A r \in Ranks, l \in Slots : Lives(r, l) => ltab[r][l].gtab_idx # h.idx
  BY <1>3 DEF Unhooked, Unended, dthread_dt2gtab, FinalStates
<1>5. PICK done \in BOOLEAN : done <=> gtab[h.idx].detached \/ waiting # {}
  OBVIOUS
<1>6. /\ gtab' = [gtab EXCEPT ![h.idx] = IF done THEN gtab_free(Zombie(gtab[h.idx], v))
                                                 ELSE Zombie(gtab[h.idx], v)]
      /\ rpending' = [rpending EXCEPT ![0] = @ \ waiting]
      /\ net' = joinwait_end_release(Received(s, 0), waiting,
                    IF gtab[h.idx].detached THEN "EINVAL" ELSE "OK", gtab[h.idx].ret)
  BY <1>4, <1>5, <1>h, <1>v, <1>w, ZenonT(60) DEF terminated_thread, Zombie
<1>7. QuietlyTaken(s, 0)
  <2>1. Received(s, 0) \in Net
    BY <1>1, ReceivedType
  <2>2. waiting \in SUBSET rpending[0]
    BY <1>w DEF joinwait_search
  <2>3. gtab[h.idx] \in GtabEntry
    BY <1>4 DEF Gtab
  <2>4. gtab[h.idx].ret \in Ret
    BY <2>3 DEF GtabEntry
  <2>5. PICK err \in Errors : err = IF gtab[h.idx].detached THEN "EINVAL" ELSE "OK"
    BY DEF Errors
  <2>6. net' = joinwait_end_release(Received(s, 0), waiting, err, gtab[h.idx].ret)
    BY <1>6, <2>5
  <2>7. PICK b, c, o : Quiet(o) /\ Extends(Received(s, 0), net', b, c, o)
    BY <2>1, <2>2, <2>4, <2>6, ReleaseExtends
  <2>8. NetMove(s, 0, 1, b, c, o)
    BY <1>1, <2>7, TakenMove
  <2> QED
    BY <2>7, <2>8 DEF QuietlyTaken
<1>8. /\ SameEntries(h.idx) /\ (SlotFreed(h.idx) \/ SlotEnded(h.idx))
      /\ ~gtab'[h.idx].has_ltab
  BY <1>3, <1>4, <1>5, <1>6, EndedEffect
<1>9. rpending'[0] = rpending[0] \ waiting
  BY <1>6, ZenonT(60) DEF TypeOK
<1>10. \A p : StartPending(p)' <=> StartPending(p)
  BY <1>9, <1>w DEF StartPending, joinwait_search
<1>11. \A p : JoinWaiting(p)' => JoinWaiting(p) /\ p.thread.idx # h.idx
  <2> SUFFICES ASSUME NEW p, JoinWaiting(p)'
               PROVE  JoinWaiting(p) /\ p.thread.idx # h.idx
    OBVIOUS
  <2>1. JoinWaiting(p) /\ p \notin waiting
    BY <1>9 DEF JoinWaiting
  <2>2. p.thread # h
    BY <1>w, <2>1 DEF JoinWaiting, joinwait_search
  <2>3. dthread_dt2gtab(p.thread)
    BY <2>1 DEF LifeInv, JoinWaitHasFuture, JoinWaiting
  <2>4. p.thread \in Handle
    <3>1. p \in Pending
      BY <2>1 DEF TypeOK, JoinWaiting
    <3> QED
      BY <3>1, SMT DEF Pending
  <2> QED
    BY <1>3, <1>4, <2>1, <2>2, <2>3, <2>4, OneGeneration
<1>12. net[s][0][1].op # "STARTED"
  BY <1>1, HeadFacts
<1>13. \A p : StartPending(p)' =>
         /\ StartPending(p) /\ p.thread.idx # h.idx
         /\ ~(net[s][0][1].op = "STARTED" /\ net[s][0][1].xid = p.xid)
  BY <1>3, <1>10, <1>12
<1>14. StartsKept(-1)
  BY <1>10, SMT DEF StartsKept
<1> QED
  BY <1>1, <1>3, <1>4, <1>7, <1>8, <1>11, <1>13, <1>14, SlotGoneLife

\* What remains is about other START requests.
LEMMA StartedAlone ==
    ASSUME TypeOK, LifeInv, NEW s \in Ranks, net[s][0] # <<>>,
           Head(net[s][0]).op = "STARTED", NEW t \in Ranks, NEW d \in Ranks, NEW n,
           Remains(s, 0, 1, t, d, n)
    PROVE  /\ n.op \in {"START", "STARTED"} => n.xid # Head(net[s][0]).xid
           /\ n.op = "TERMINATED" /\ Head(net[s][0]).errstatus # "OK" =>
                 Head(net[s][0]).xid # n.thread.seq + NRanks
<1>0. net \in Net /\ 0 \in Ranks
  BY ZeroInRange DEF TypeOK, Net
<1>1. ~Exclusive(n, Head(net[s][0])) /\ ~Exclusive(Head(net[s][0]), n)
  BY <1>0, RemainsAlone DEF LifeInv
<1> QED
  BY <1>1 DEF Exclusive

\* A thread that could not be started has no other message.
LEMMA StartedClear ==
    ASSUME TypeOK, LifeInv, NEW s \in Ranks, net[s][0] # <<>>,
           Head(net[s][0]).op = "STARTED", Head(net[s][0]).errstatus # "OK",
           NEW p, StartPending(p), p.xid = Head(net[s][0]).xid
    PROVE  SlotClear(s, p.thread.idx, p.xid)
<1>0. net \in Net
  BY DEF TypeOK, Net
<1>1. /\ p.thread \in Handle /\ p.xid = p.thread.seq + NRanks
      /\ dthread_dt2gtab(p.thread)
  BY StartFacts DEF LifeInv
<1> SUFFICES ASSUME NEW t \in Ranks, NEW d \in Ranks, NEW n, Remains(s, 0, 1, t, d, n)
             PROVE  /\ n.op \in {"START", "TERMINATED"} => n.thread.idx # p.thread.idx
                    /\ n.op \in {"START", "STARTED"} => n.xid # p.xid
                    /\ Waiting(n) => \A q : StartPending(q) /\ q.xid = n.xid
                                        => q.thread.idx # p.thread.idx
  BY DEF SlotClear
<1>2. /\ n.op \in {"START", "STARTED"} => n.xid # p.xid
      /\ n.op = "TERMINATED" => p.xid # n.thread.seq + NRanks
  BY StartedAlone
<1>3. ASSUME NEW q, StartPending(q), q.xid = n.xid, n.op \in {"START", "STARTED"}
      PROVE  q.thread.idx # p.thread.idx
  <2>1. /\ q.thread \in Handle /\ q.xid = q.thread.seq + NRanks
        /\ dthread_dt2gtab(q.thread)
    BY <1>3, StartFacts DEF LifeInv
  <2> QED
    BY <1>1, <1>2, <1>3, <2>1, OneGeneration
<1>4. InTransit(t, d, n) /\ n \in Msg
  BY <1>0, RemainsInTransit, RemainsTyped DEF LifeInv
<1>5. n.op = "START" => n.thread.idx # p.thread.idx
  BY <1>3, <1>4 DEF InTransit, StartPending
<1>6. n.op = "TERMINATED" => n.thread.idx # p.thread.idx
  <2>1. n.thread \in Handle
    BY <1>4 DEF Msg
  <2>2. n.op = "TERMINATED" => dthread_dt2gtab(n.thread)
    BY <1>4 DEF InTransit, Unhooked, Unended
  <2> QED
    BY <1>1, <1>2, <2>1, <2>2, OneGeneration
<1> QED
  BY <1>2, <1>3, <1>5, <1>6 DEF Waiting

\* Taking the request that STARTED answers leaves the other STARTs and all waits.
LEMMA StartedPending ==
    ASSUME TypeOK, LifeInv, NEW s \in Ranks, NEW p, Starts(s, p),
           rpending' = [rpending EXCEPT ![0] = @ \ {p}]
    PROVE  /\ \A q : StartPending(q)' =>
                 /\ StartPending(q) /\ q.thread.idx # p.thread.idx
                 /\ ~(net[s][0][1].op = "STARTED" /\ net[s][0][1].xid = q.xid)
           /\ \A q : JoinWaiting(q)' <=> JoinWaiting(q)
           /\ StartsKept(p.xid)
           /\ p.peer \in Ranks /\ p.cxid \in Nat /\ p.thread.idx \in Slots
<1> net \in Net /\ 0 \in Ranks
  BY ZeroInRange DEF TypeOK, Net
<1>1. /\ p \in Pending /\ p.thread \in Handle /\ p.xid = p.thread.seq + NRanks
      /\ dthread_dt2gtab(p.thread) /\ \A q : StartPending(q) /\ q.xid = p.xid => q = p
  BY StartFacts DEF LifeInv, Starts
<1>2. rpending'[0] = rpending[0] \ {p}
  BY DEF TypeOK
<1>3. \A q : JoinWaiting(q)' <=> JoinWaiting(q)
  BY <1>2 DEF JoinWaiting, Starts, StartPending
<1>4. StartsKept(p.xid)
  BY <1>2, SMT DEF StartsKept, StartPending
<1>5. ASSUME NEW q, StartPending(q)'
      PROVE  /\ StartPending(q) /\ q.thread.idx # p.thread.idx
             /\ net[s][0][1].xid # q.xid
  <2>1. StartPending(q) /\ q # p
    BY <1>2, <1>5, SMT DEF StartPending
  <2>2. q.thread \in Handle /\ q.xid = q.thread.seq + NRanks /\ dthread_dt2gtab(q.thread)
    BY <2>1, StartFacts DEF LifeInv
  <2>3. net[s][0][1].xid = p.xid
    BY HeadFacts DEF Starts
  <2> QED
    BY <1>1, <2>1, <2>2, <2>3, OneGeneration
<1>6. p.peer \in Ranks /\ p.cxid \in Nat /\ p.thread.idx \in Slots
  BY <1>1 DEF Pending, dthread_dt2gtab
<1> QED
  BY <1>3, <1>4, <1>5, <1>6

\* The thread could not be started: its slot is freed.
LEMMA StartedFailsLife ==
    ASSUME TypeOK, TypeOK', LifeInv, AppKnown', NEW s \in Ranks, NEW p, Starts(s, p),
           NEW err \in Errors, Head(net[s][0]).errstatus = err, err # "OK",
           Unhooked(p.thread), p.thread \notin known,
           rpending' = [rpending EXCEPT ![0] = @ \ {p}],
           net' = dtq_send_enqueue(Received(s, 0), 0, p.peer,
                      Answer("CREATED", p.cxid, err, NoData)),
           gtab' = [gtab EXCEPT ![p.thread.idx] = gtab_free(@)],
           UNCHANGED <<ltab, app, known, mgrstate>>
    PROVE  LifeInv'
<1> net \in Net /\ 0 \in Ranks /\ gtab \in Gtab
  BY ZeroInRange DEF TypeOK, Net, Gtab
<1>1. /\ \A q : StartPending(q)' =>
            /\ StartPending(q) /\ q.thread.idx # p.thread.idx
            /\ ~(net[s][0][1].op = "STARTED" /\ net[s][0][1].xid = q.xid)
      /\ \A q : JoinWaiting(q)' <=> JoinWaiting(q)
      /\ StartsKept(p.xid)
      /\ p.peer \in Ranks /\ p.cxid \in Nat /\ p.thread.idx \in Slots
  BY StartedPending
<1>2. SlotClear(s, p.thread.idx, p.xid)
  BY StartedClear DEF Starts
<1>3. \A r \in Ranks, l \in Slots : Lives(r, l) => ltab[r][l].gtab_idx # p.thread.idx
  BY DEF Unhooked
<1>4. net[s][0] # <<>> /\ QuietlyTaken(s, 0)
  BY <1>1, QuietAnswer, RetType DEF Starts
<1>5. /\ SameEntries(p.thread.idx) /\ SlotFreed(p.thread.idx)
      /\ ~gtab'[p.thread.idx].has_ltab
  <2>1. gtab[p.thread.idx] \in GtabEntry
    BY <1>1 DEF Gtab
  <2> QED
    BY <1>1, <2>1, FreeEffect
<1>6. ASSUME NEW q, JoinWaiting(q)
      PROVE  q.thread.idx # p.thread.idx
  <2>1. dthread_dt2gtab(q.thread) /\ q.thread \in known
    BY <1>6 DEF LifeInv, JoinWaitHasFuture, JoinWaiting, KnownInv
  <2>2. q \in Pending
    BY <1>6 DEF TypeOK, JoinWaiting
  <2>3. q.thread \in Handle
    BY <2>2 DEF Pending
  <2>4. p.thread \in Handle /\ dthread_dt2gtab(p.thread)
    BY StartFacts DEF LifeInv, Starts
  <2> QED
    BY <2>1, <2>3, <2>4, OneGeneration
<1>7. \A q : JoinWaiting(q)' => JoinWaiting(q) /\ q.thread.idx # p.thread.idx
  BY <1>1, <1>6
<1> QED
  BY <1>1, <1>2, <1>3, <1>4, <1>5, <1>7, SlotGoneLife

\* The thread runs: its creator is told.
LEMMA StartedRunsLife ==
    ASSUME TypeOK, TypeOK', LifeInv, AppKnown', NEW s \in Ranks, NEW p, Starts(s, p),
           rpending' = [rpending EXCEPT ![0] = @ \ {p}],
           net' = dtq_send_enqueue(Received(s, 0), 0, p.peer,
                      message("CREATED", p.cxid, p.thread, "OK", NoData)),
           UNCHANGED <<gtab, ltab, app, known, mgrstate>>
    PROVE  LifeInv'
<1> net \in Net /\ net' \in Net
  BY DEF TypeOK, Net
<1> 0 \in Ranks /\ NMaxThread \notin Slots
  BY ZeroInRange, NMaxThreadAssumption, SMT DEF Slots
<1>1. /\ \A q : StartPending(q)' =>
            /\ StartPending(q) /\ q.thread.idx # p.thread.idx
            /\ ~(net[s][0][1].op = "STARTED" /\ net[s][0][1].xid = q.xid)
      /\ \A q : JoinWaiting(q)' <=> JoinWaiting(q)
      /\ StartsKept(p.xid)
      /\ p.peer \in Ranks /\ p.cxid \in Nat /\ p.thread.idx \in Slots
  BY StartedPending
<1>2. p.thread \in Handle /\ p.xid = p.thread.seq + NRanks
  BY StartFacts DEF LifeInv, Starts
<1>3. PICK m : m = message("CREATED", p.cxid, p.thread, "OK", NoData)
  OBVIOUS
<1>4. m \in Msg /\ m.op = "CREATED" /\ m.thread = p.thread
  <2>1. m \in Msg
    BY <1>1, <1>2, <1>3, MessageType, RetType DEF MsgOps, Replies, Errors
  <2> QED
    BY <1>3, <2>1 DEF message
<1>5. NetMove(s, 0, 1, 0, p.peer, m)
  <2>1. net[s][0] # <<>>
    BY DEF Starts
  <2>2. net' = dtq_send_enqueue(Received(s, 0), 0, p.peer, m)
    BY <1>3
  <2> QED
    BY <1>1, <1>4, <2>1, <2>2, AnswerMove
<1>6. SlotInv' /\ LiveInv' /\ LtabCounted'
  BY SameTables
<1>7. \A t, d \in Ranks : \A n : Remains(s, 0, 1, t, d, n) =>
          (n.op \in {"START", "STARTED"} => n.xid # p.xid)
  BY StartedAlone DEF Starts
<1>8. \A q : StartPending(q) => q.thread.idx \in Slots
  BY StartFacts DEF LifeInv, dthread_dt2gtab
<1>9. Traffic'
  <2>1. Traffic /\ DrainsOn /\ Still(m)
    BY <1>4 DEF LifeInv, Traffic, DrainsOn, draining, Still
  <2>2. SameSlots(NMaxThread) /\ SameHooks(NMaxThread) /\ SameLives
    BY DEF SameSlots, SameHooks, SameLives, Lives
  <2>3. \A t, d \in Ranks : \A n : Remains(s, 0, 1, t, d, n)
            => ~Exclusive(m, n) /\ ~Exclusive(n, m)
    BY <1>2, <1>4, <1>7 DEF Exclusive
  <2>4. Clear(s, 0, 1, NMaxThread, NMaxThread, p.xid)
    <3> SUFFICES ASSUME NEW t \in Ranks, NEW d \in Ranks, NEW n, Remains(s, 0, 1, t, d, n)
                 PROVE  n.op \in {"START", "TERMINATED"} => n.thread.idx # NMaxThread
      BY <1>7, <1>8 DEF Clear
    <3>1. InTransit(t, d, n)
      BY RemainsInTransit DEF LifeInv
    <3> QED
      BY <3>1 DEF InTransit, Unhooked, Unended, dthread_dt2gtab
  <2>5. \A q : StartPending(q)' =>
           /\ StartPending(q) /\ q.thread.idx # NMaxThread
           /\ 1 = 1 /\ 0 = 0 =>
                 ~(net[s][0][1].op = "STARTED" /\ net[s][0][1].xid = q.xid)
    BY <1>1, <1>8
  <2> QED
    BY <1>1, <1>5, <2>1, <2>2, <2>3, <2>4, <2>5, TrafficMove
<1>10. KnownInv'
  <2>1. \A g \in Slots : gtab'[g].allocated /\ gtab'[g].detached =>
            gtab[g].allocated /\ gtab[g].detached /\ gtab'[g].seq = gtab[g].seq
    OBVIOUS
  <2>2. m.op \in {"DETACH", "CANCEL", "JOIN"} => m.thread \in known \cup {NoThread}
    BY <1>4
  <2>3. known \subseteq known' /\ \A q : JoinWaiting(q)' => JoinWaiting(q)
    BY <1>1
  <2> QED
    BY <1>5, <2>1, <2>2, <2>3, KnownMove DEF LifeInv
<1>11. JoinWaitHasFuture'
  <2>1. SameSlots(NMaxThread) /\ SameDetached(NMaxThread)
    BY DEF SameSlots, SameDetached
  <2>2. \A q : JoinWaiting(q)' => JoinWaiting(q) /\ q.thread.idx # NMaxThread
    BY <1>1 DEF LifeInv, JoinWaitHasFuture, JoinWaiting, dthread_dt2gtab
  <2> QED
    BY <2>1, <2>2, JoinWaitMove DEF LifeInv
<1> QED
  BY <1>6, <1>9, <1>10, <1>11 DEF LifeInv, Traffic

\* process_started.
LEMMA StartedLife ==
    ASSUME TypeOK, TypeOK', LifeInv, AppKnown', NEW s \in Ranks, process_started(s)
    PROVE  LifeInv'
<1>0. net \in Net /\ 0 \in Ranks
  BY ZeroInRange DEF TypeOK, Net
<1>1. /\ net[s][0] # <<>> /\ Head(net[s][0]).op = "STARTED"
      /\ UNCHANGED <<ltab, app, known, mgrstate>>
  BY DEF process_started, HasMessage
<1>2. PICK p : /\ StartPending(p) /\ p.xid = Head(net[s][0]).xid
               /\ find_pending_msgreq(0, "START", Head(net[s][0]).xid) = {p}
               /\ Head(net[s][0]).errstatus # "OK" =>
                     Unhooked(p.thread) /\ p.thread \notin known
  BY <1>1, StartedRequest
<1>3. Starts(s, p)
  BY <1>1, <1>2 DEF Starts
<1>4. PICK err \in Errors : err = Head(net[s][0]).errstatus
  <2>1. Head(net[s][0]) \in Msg
    BY <1>0, <1>1, HeadFacts
  <2> QED
    BY <2>1 DEF Msg
<1>5. (CHOOSE q \in {p} : TRUE) = p
  OBVIOUS
<1>6. /\ rpending' = [rpending EXCEPT ![0] = @ \ {p}]
      /\ net' = dtq_send_enqueue(Received(s, 0), 0, p.peer,
                    message("CREATED", p.cxid,
                        IF err = "OK" THEN p.thread ELSE NoThread, err, NoData))
      /\ gtab' = IF err = "OK" THEN gtab
                 ELSE [gtab EXCEPT ![p.thread.idx] = gtab_free(@)]
  BY <1>2, <1>4, <1>5, ZenonT(60) DEF process_started
<1>7. CASE err = "OK"
  <2>1. /\ net' = dtq_send_enqueue(Received(s, 0), 0, p.peer,
                      message("CREATED", p.cxid, p.thread, "OK", NoData))
        /\ gtab' = gtab
    BY <1>6, <1>7
  <2> QED
    BY <1>1, <1>3, <1>6, <2>1, StartedRunsLife
<1>8. CASE err # "OK"
  <2>1. /\ net' = dtq_send_enqueue(Received(s, 0), 0, p.peer,
                      Answer("CREATED", p.cxid, err, NoData))
        /\ gtab' = [gtab EXCEPT ![p.thread.idx] = gtab_free(@)]
    BY <1>6, <1>8 DEF Answer
  <2>2. Unhooked(p.thread) /\ p.thread \notin known /\ Head(net[s][0]).errstatus = err
    BY <1>2, <1>4, <1>8
  <2> QED
    BY <1>1, <1>3, <1>6, <1>8, <2>1, <2>2, StartedFailsLife
<1> QED
  BY <1>7, <1>8

-----------------------------------------------------------------------------
(* A reply wakes its caller *)

\* A handle that becomes known is that of a thread past its start.
LEMMA ReplyClear ==
    ASSUME TypeOK, LifeInv, NEW s \in Ranks, NEW r \in Ranks, net[s][r] # <<>>,
           Head(net[s][r]).op \in Replies,
           \A h \in known' : \/ h \in known
                             \/ /\ h = Head(net[s][r]).thread
                                /\ Head(net[s][r]).op = "CREATED"
                                /\ Head(net[s][r]).errstatus = "OK"
    PROVE  Clear(s, r, 1, NMaxThread, NMaxThread, -1)
<1>a. net \in Net
  BY DEF TypeOK, Net
<1> NMaxThread \notin Slots
  BY NMaxThreadAssumption, SMT DEF Slots
<1> SUFFICES ASSUME NEW t \in Ranks, NEW d \in Ranks, NEW n, Remains(s, r, 1, t, d, n)
             PROVE  /\ n.op \in {"START", "TERMINATED"} => n.thread.idx # NMaxThread
                    /\ n.xid # -1
                    /\ Waiting(n) =>
                          /\ \A p : StartPending(p) => p.thread.idx # NMaxThread
                          /\ \A h \in known' : h \in known \/ n.xid # h.seq + NRanks
  BY DEF Clear
<1>1. InTransit(t, d, n) /\ ~Exclusive(n, Head(net[s][r])) /\ n \in Msg
  BY <1>a, RemainsInTransit, RemainsAlone, RemainsTyped DEF LifeInv
<1>2. n.op \in {"START", "TERMINATED"} => n.thread.idx # NMaxThread
  BY <1>1 DEF InTransit, Unhooked, Unended, dthread_dt2gtab
<1>3. n.xid # -1
  BY <1>1, SMTT(20) DEF Msg
<1>4. \A p : StartPending(p) => p.thread.idx # NMaxThread
  BY StartFacts DEF LifeInv, dthread_dt2gtab
<1>5. Waiting(n) => \A h \in known' : h \in known \/ n.xid # h.seq + NRanks
  BY <1>1 DEF Waiting, Exclusive
<1> QED
  BY <1>2, <1>3, <1>4, <1>5

\* process_reply.
LEMMA ReplyLife ==
    ASSUME TypeOK, TypeOK', CallInv, LifeInv, AppKnown', NEW s \in Ranks, NEW r \in Ranks,
           process_reply(s, r)
    PROVE  LifeInv'
<1> net \in Net /\ net' \in Net
  BY DEF TypeOK, Net
<1> NMaxThread \notin Slots
  BY NMaxThreadAssumption, SMT DEF Slots
<1>1. /\ net[s][r] # <<>> /\ Head(net[s][r]).op \in Replies
      /\ net' = Received(s, r) /\ UNCHANGED <<gtab, ltab, mgrstate>>
      /\ \A p : StartPending(p)' <=> StartPending(p)
      /\ \A p : JoinWaiting(p)' <=> JoinWaiting(p)
      /\ PcKept /\ known \subseteq known'
  BY ReplyEffect
<1>2. Clear(s, r, 1, NMaxThread, NMaxThread, -1)
  BY ReplyEffect, ReplyClear
<1>3. PICK b, c, o : Quiet(o) /\ NetMove(s, r, 1, b, c, o)
  BY <1>1, DropMove DEF QuietlyTaken
<1>4. Mute(o) /\ (o.op \in {"DETACH", "CANCEL", "JOIN"} => o.thread \in known \cup {NoThread})
  BY <1>3, QuietMute DEF Quiet
<1>5. /\ SameSlots(NMaxThread) /\ SameDetached(NMaxThread) /\ SameHooks(NMaxThread)
      /\ SameLives
  BY <1>1 DEF SameSlots, SameDetached, SameHooks, SameLives, Lives, PcKept, Running
<1>6. ASSUME NEW q \in Ranks, NEW l \in Slots, Lives(q, l)'
      PROVE  ltab[q][l].gtab_idx # NMaxThread /\ LiveState(q, l)'
  <2>1. LiveState(q, l) /\ ltab[q][l].gtab_idx \in Slots
    BY <1>5, <1>6, LiveFacts DEF LifeInv, SameLives
  <2>2. \/ app'[q][l].pc = app[q][l].pc
        \/ app[q][l].pc \in Running /\ app'[q][l].pc \in Running
    BY <1>1, <1>6 DEF PcKept, Lives
  <2> QED
    BY <1>1, <2>1, <2>2 DEF LiveState, Running
<1>7. SlotInv' /\ LiveInv' /\ LtabCounted'
  <2>1. SlotInv'
    BY <1>1 DEF LifeInv, SlotInv
  <2>2. LiveInv'
    BY <1>5, <1>6, LiveMove DEF LifeInv
  <2>3. LtabCounted'
    BY <1>1 DEF LifeInv, LtabCounted, InUse
  <2> QED
    BY <2>1, <2>2, <2>3
<1>8. \A p : StartPending(p) => p.thread.idx # NMaxThread
  BY StartFacts DEF LifeInv, dthread_dt2gtab
<1>9. Traffic'
  <2>1. Traffic /\ DrainsOn /\ Still(o) /\ StartsKept(-1)
    BY <1>1, <1>4 DEF LifeInv, Traffic, DrainsOn, draining, Mute, StartsKept
  <2>2. \A t, d \in Ranks : \A n : Remains(s, r, 1, t, d, n)
            => ~Exclusive(o, n) /\ ~Exclusive(n, o)
    BY <1>4, MuteAlone
  <2>3. net[s][r][1].op # "STARTED"
    BY <1>1, HeadFacts DEF Replies
  <2>4. \A p : StartPending(p)' =>
           /\ StartPending(p) /\ p.thread.idx # NMaxThread
           /\ 1 = 1 /\ r = 0 =>
                 ~(net[s][r][1].op = "STARTED" /\ net[s][r][1].xid = p.xid)
    BY <1>1, <1>8, <2>3
  <2> QED
    BY <1>2, <1>3, <1>5, <2>1, <2>2, <2>4, TrafficMove
<1>10. KnownInv'
  <2>1. \A g \in Slots : gtab'[g].allocated /\ gtab'[g].detached =>
            gtab[g].allocated /\ gtab[g].detached /\ gtab'[g].seq = gtab[g].seq
    BY <1>1
  <2>2. \A p : JoinWaiting(p)' => JoinWaiting(p)
    BY <1>1
  <2> QED
    BY <1>1, <1>3, <1>4, <2>1, <2>2, KnownMove DEF LifeInv
<1>11. JoinWaitHasFuture'
  <2>1. \A p : JoinWaiting(p)' => JoinWaiting(p) /\ p.thread.idx # NMaxThread
    BY <1>1 DEF LifeInv, JoinWaitHasFuture, JoinWaiting, dthread_dt2gtab
  <2> QED
    BY <1>5, <2>1, JoinWaitMove DEF LifeInv
<1> QED
  BY <1>7, <1>9, <1>10, <1>11 DEF LifeInv, Traffic

-----------------------------------------------------------------------------
(* The messages about threads that have been created *)

\* Every message but the CREATE that takes a slot and the START that takes an
\* ltab entry.
LEMMA OldThreadLife ==
    ASSUME TypeOK, TypeOK', CallInv, LifeInv, AppKnown', NEW s \in Ranks, NEW r \in Ranks,
           MgrMessage(s, r), ~create_thread(s), ~start_thread(s, r)
    PROVE  LifeInv'
<1>1. CASE create_thread_full(s) \/ create_thread_nomem(s)
  BY <1>1, CreateFailsLife
<1>2. CASE process_started(s)
  BY <1>2, StartedLife
<1>3. CASE detach_thread(s)
  BY <1>3, DetachLife
<1>4. CASE join_thread(s)
  BY <1>4, JoinLife
<1>5. CASE terminated_thread(s)
  BY <1>5, TerminatedLife
<1>6. CASE cancel_thread(s, r)
  BY <1>6, CancelLife
<1>7. CASE process_reply(s, r)
  BY <1>7, ReplyLife
<1>8. CASE process_bcastshutdown(s, r)
  BY <1>8, ShutdownMessageLife
<1> QED
  BY <1>1, <1>2, <1>3, <1>4, <1>5, <1>6, <1>7, <1>8 DEF MgrMessage
=============================================================================
