--------------------------- MODULE DthreadProofs ----------------------------
(***************************************************************************)
(* Proofs about Dthread for every number of ranks, every table size and    *)
(* every bound on the calls the application makes: type correctness, the   *)
(* steps that change the count of a manager's ltab, the initial states.    *)
(***************************************************************************)
EXTENDS DthreadLemmas

\* Leaves are for Zenon unless they name another prover.
USE Zenon

Mgr == [Ranks -> MgrEntry]

-----------------------------------------------------------------------------
(* Types of the operators the actions are built from *)

\* An ltab slot without a thread is well formed.
LEMMA NoAppType == NoApp \in AppEntry
BY ZeroInRange, NoThreadType DEF NoApp, AppEntry

\* Round-robin placement stays within the ranks of the job.
LEMMA NextRankType ==
    ASSUME mgr0.next_rank \in Ranks
    PROVE  NextRank \in Ranks
BY NRanksAssumption, SMT DEF NextRank, Ranks

\* gtab_free leaves a well-formed slot.
LEMMA GtabFreeType ==
    ASSUME NEW e \in GtabEntry
    PROVE  gtab_free(e) \in GtabEntry
BY DEF gtab_free, GtabEntry

\* Changing the state of a thread keeps the local tables well formed.
LEMMA LtabStateUpdate ==
    ASSUME NEW t \in Ltab, NEW r \in Ranks, NEW l, NEW state \in LT
    PROVE  [t EXCEPT ![r][l].pth_state = state] \in Ltab
<1>1. \A e \in LtabEntry : [e EXCEPT !.pth_state = state] \in LtabEntry
  BY SMT DEF LtabEntry
<1>2. t[r] \in [Slots -> LtabEntry]
  BY SMT DEF Ltab
<1>3. [t[r] EXCEPT ![l] = [@ EXCEPT !.pth_state = state]] \in [Slots -> LtabEntry]
  BY <1>1, <1>2
<1> QED
  BY <1>3, SMT DEF Ltab

\* So does replacing a whole entry (ltab_alloc, ltab_free).
LEMMA LtabUpdate ==
    ASSUME NEW t \in Ltab, NEW r \in Ranks, NEW l \in Slots, NEW e \in LtabEntry
    PROVE  [t EXCEPT ![r][l] = e] \in Ltab
BY SMT DEF Ltab

\* Storing a return value keeps the global table well formed.
LEMMA GtabRetUpdate ==
    ASSUME NEW t \in Gtab, NEW g \in Slots, NEW v \in Ret
    PROVE  [t EXCEPT ![g].ret = v] \in Gtab
BY SMT DEF Gtab, GtabEntry

\* So does tying a slot to a local entry (dthreadwrap).
LEMMA GtabHookUpdate ==
    ASSUME NEW t \in Gtab, NEW g \in Slots, NEW l \in Slots
    PROVE  [t EXCEPT ![g].ltab_idx = l, ![g].has_ltab = TRUE] \in Gtab
BY ZenonT(60) DEF Gtab, GtabEntry

\* So does untying it (process_req on RETCLEAN).
LEMMA GtabUnhookUpdate ==
    ASSUME NEW t \in Gtab, NEW g \in Slots
    PROVE  [t EXCEPT ![g].has_ltab = FALSE] \in Gtab
BY DEF Gtab, GtabEntry

\* So does marking it detached (detach_thread).
LEMMA GtabDetachUpdate ==
    ASSUME NEW t \in Gtab, NEW g
    PROVE  [t EXCEPT ![g].detached = TRUE] \in Gtab
BY DEF Gtab, GtabEntry

\* Replacing a thread's request keeps the requests well formed.
LEMMA AppUpdate ==
    ASSUME NEW t \in App, NEW r \in Ranks, NEW l \in Slots, NEW e \in AppEntry
    PROVE  [t EXCEPT ![r][l] = e] \in App
BY SMTT(30) DEF App

\* So does moving a thread on.
LEMMA AppPcUpdate ==
    ASSUME NEW t \in App, NEW r \in Ranks, NEW l \in Slots,
           NEW pc \in {"run", "done", "exit", "return"}
    PROVE  [t EXCEPT ![r][l].pc = pc] \in App
<1>1. t[r][l] \in AppEntry
  BY SMT DEF App
<1>2. [t[r][l] EXCEPT !.pc = pc] \in AppEntry
  BY <1>1, SMT DEF AppEntry
<1> QED
  BY <1>2, SMT DEF App

\* A manager that starts to drain or exits stays well formed.
LEMMA MgrPhaseUpdate ==
    ASSUME NEW t \in Mgr, NEW r \in Ranks, NEW phase \in {"drain", "exit"}
    PROVE  [t EXCEPT ![r].phase = phase] \in Mgr
BY SMT DEF Mgr, MgrEntry

\* The manager's count and last slot of its local table, each on its own.
LEMMA MgrLtabUpdate ==
    ASSUME NEW t \in Mgr, NEW r \in Ranks, NEW k \in Int, NEW l \in Slots
    PROVE  /\ [t EXCEPT ![r].ltab_alloc = k] \in Mgr
           /\ [t EXCEPT ![r].ltab_lastslot = l] \in Mgr
BY SMT DEF Mgr, MgrEntry

\* Both of them together.
LEMMA MgrLtabTakeUpdate ==
    ASSUME NEW t \in Mgr, NEW r \in Ranks, NEW k \in Int, NEW l \in Slots
    PROVE  [t EXCEPT ![r].ltab_alloc = k, ![r].ltab_lastslot = l] \in Mgr
BY ZenonT(60) DEF Mgr, MgrEntry

\* Both of them as ltab_alloc changes them.
LEMMA MgrLtabTaken ==
    ASSUME NEW t \in Mgr, NEW r \in Ranks, NEW l \in Slots
    PROVE  [t EXCEPT ![r].ltab_alloc = @ + 1, ![r].ltab_lastslot = l] \in Mgr
<1>1. t[r].ltab_alloc + 1 \in Int
  BY SMT DEF Mgr, MgrEntry
<1> QED
  BY <1>1, MgrLtabTakeUpdate

\* Manager 0's last slot and next rank.
LEMMA Mgr0PlaceUpdate ==
    ASSUME NEW t \in Mgr0, NEW g \in Slots, NEW n \in Ranks
    PROVE  [t EXCEPT !.last_slot = g, !.next_rank = n] \in Mgr0
BY DEF Mgr0

\* The same with the counts of allocated and starting threads.
LEMMA Mgr0CountUpdate ==
    ASSUME NEW t \in Mgr0, NEW g \in Slots, NEW n \in Ranks,
           NEW a \in Int, NEW b \in Int
    PROVE  [t EXCEPT !.last_slot = g, !.next_rank = n,
                     !.threads_alloc = a, !.threads_starting = b] \in Mgr0
BY DEF Mgr0

\* The same as a successful create_thread changes them.
LEMMA Mgr0Counted ==
    ASSUME NEW t \in Mgr0, NEW g \in Slots, NEW n \in Ranks
    PROVE  [t EXCEPT !.last_slot = g, !.next_rank = n,
                     !.threads_alloc = @ + 1,
                     !.threads_starting = @ + 1] \in Mgr0
<1>1. t.threads_alloc + 1 \in Int /\ t.threads_starting + 1 \in Int
  BY SMT DEF Mgr0
<1> QED
  BY <1>1, Mgr0CountUpdate

\* The counts as a STARTED changes them, with or without an error.
LEMMA StartedCountsType ==
    ASSUME mgr0 \in Mgr0, NEW ok
    PROVE  StartedCounts(ok) \in Mgr0
<1>1. ASSUME NEW a \in Int, NEW b \in Int, NEW c \in Int
      PROVE  [mgr0 EXCEPT !.threads_starting = a, !.threads_running = b,
                          !.threads_alloc = c] \in Mgr0
  BY DEF Mgr0
<1>2. /\ mgr0.threads_starting - 1 \in Int
      /\ (IF ok THEN mgr0.threads_running + 1 ELSE mgr0.threads_running) \in Int
      /\ (IF ok THEN mgr0.threads_alloc ELSE mgr0.threads_alloc - 1) \in Int
  BY SMT DEF Mgr0
<1> QED
  BY <1>1, <1>2 DEF StartedCounts

\* The count of allocated threads as gtab_free changes it.
LEMMA Mgr0FreeUpdate ==
    ASSUME NEW t \in Mgr0
    PROVE  [t EXCEPT !.threads_alloc = @ - 1] \in Mgr0
BY SMT DEF Mgr0

\* The counts as terminated_thread changes them.
LEMMA Mgr0EndUpdate ==
    ASSUME NEW t \in Mgr0, NEW done
    PROVE  [t EXCEPT !.threads_running = @ - 1,
                     !.threads_alloc = IF done THEN @ - 1 ELSE @] \in Mgr0
<1>1. ASSUME NEW a \in Int, NEW b \in Int
      PROVE  [t EXCEPT !.threads_running = a, !.threads_alloc = b] \in Mgr0
  BY DEF Mgr0
<1>2. /\ t.threads_running - 1 \in Int
      /\ (IF done THEN t.threads_alloc - 1 ELSE t.threads_alloc) \in Int
  BY SMT DEF Mgr0
<1> QED
  BY <1>1, <1>2

\* What a manager remembers of a CANCEL it works on.
LEMMA MgrCancelUpdate ==
    ASSUME NEW t \in Mgr, NEW r \in Ranks, NEW s \in 0 .. NRanks, NEW x \in Nat,
           NEW h \in Handle
    PROVE  [t EXCEPT ![r].cancelling = s, ![r].xid = x, ![r].thread = h] \in Mgr
BY ZenonT(60) DEF Mgr, MgrEntry

\* Requests put on and taken off a pending list.
LEMMA PendingUpdate ==
    ASSUME NEW t \in Rpending, NEW r \in Ranks, NEW P
    PROVE  /\ \A p \in Pending : [t EXCEPT ![r] = @ \cup {p}] \in Rpending
           /\ [t EXCEPT ![r] = @ \ P] \in Rpending
BY SMT DEF Rpending

\* The job starts in a well-formed state.
LEMMA InitType == Init => TypeOK
<1> SUFFICES ASSUME Init PROVE TypeOK
  BY SMT
<1>1. gtab \in [Slots -> GtabEntry]
  BY ZeroInRange, RetType, NRanksAssumption, SMT DEF Init, GtabEntry, LT, App0Seq
<1>2. ltab \in [Ranks -> [Slots -> LtabEntry]]
  BY ZeroInRange, NRanksAssumption, SMT DEF Init, LtabEntry, LT, App0Seq
<1>3. app \in [Ranks -> [Slots -> AppEntry]]
  BY NoAppType, ZenonT(30) DEF Init, AppEntry
<1>4. mgrreqq \in [Ranks -> Seq(Slots)] /\ net \in [Ranks -> [Ranks -> Seq(Msg)]]
  BY SMT DEF Init
<1>5. mgrstate \in [Ranks -> MgrEntry]
  BY ZeroInRange, NRanksAssumption, NoThreadType, SMT DEF Init, MgrEntry
<1>6. mgr0 \in Mgr0
  <2>1. 1 % NRanks \in Ranks
    BY NRanksAssumption, SMT DEF Ranks
  <2> QED
    BY <2>1, ZeroInRange, SMT DEF Init, Mgr0
<1>7. seqsrc \in [Ranks -> Nat]
  BY NRanksAssumption, SMT DEF Init, Ranks
<1>8. known \subseteq Handle
  BY NRanksAssumption, SMT DEF Init, App0, App0Seq, Handle
<1>9. /\ rpending \in [Ranks -> SUBSET Pending]
      /\ calls \in 0 .. MaxCalls
      /\ joinok = {} /\ results = {} /\ asked = {} /\ detattr = {}
  BY MaxCallsAssumption, SMT DEF Init
<1> QED
  BY <1>1, <1>2, <1>3, <1>4, <1>5, <1>6, <1>7, <1>8, <1>9, SMT DEF TypeOK

-----------------------------------------------------------------------------
(* Every action keeps the types *)

\* A thread that hands its manager a RETCLEAN request.
LEMMA RetcleanRequestType ==
    ASSUME TypeOK, NEW r \in Ranks, NEW l \in Slots, NEW state \in LT,
           retclean_request(r, l, state)
    PROVE  TypeOK'
<1> ltab \in Ltab /\ gtab \in Gtab /\ app \in App
  BY SMT DEF TypeOK, Ltab, Gtab, App
<1>1. ltab' \in Ltab
  BY LtabStateUpdate DEF retclean_request
<1>2. gtab' \in Gtab
  <2> DEFINE g == ltab[r][l].gtab_idx
             v == IF state \in {"CANCELED", "CLEANUP"} THEN Canceled
                                                       ELSE gtab[g].ret
  <2> g \in Slots
    BY SMT DEF Ltab, LtabEntry
  <2>2. v \in Ret
    BY RetType, SMT DEF Gtab, GtabEntry
  <2>3. gtab' = [gtab EXCEPT ![g].ret = v]
    BY DEF retclean_request
  <2> QED
    BY <2>2, <2>3, GtabRetUpdate
<1>3. app' \in App
  <2>1. [NoApp EXCEPT !.pc = "clean", !.op = "RETCLEAN"] \in AppEntry
    BY NoAppType DEF AppEntry
  <2> QED
    BY <2>1, AppUpdate DEF retclean_request
<1>4. mgrreqq' \in [Ranks -> Seq(Slots)]
  BY SMT DEF TypeOK, retclean_request
<1> QED
  BY <1>1, <1>2, <1>3, <1>4
     DEF TypeOK, retclean_request, history, Ltab, Gtab, App

\* The final state retclean_request chooses is a thread state.
LEMMA FinalStateType ==
    ASSUME TypeOK, NEW r \in Ranks, NEW l \in Slots, NEW final \in LT
    PROVE  FinalState(r, l, final) \in LT
BY SMT DEF TypeOK, FinalState, LtabEntry

\* A thread that hands its manager an API request.
LEMMA CallType ==
    ASSUME TypeOK, NEW r \in Ranks, NEW l \in Slots, NEW op \in Requests,
           NEW h \in Handle, NEW peer \in Ranks, NEW attr \in BOOLEAN,
           Call(r, l, op, h, peer, attr), asked' \subseteq Handle
    PROVE  TypeOK'
<1>1. app' \in [Ranks -> [Slots -> AppEntry]]
  BY DEF TypeOK, Call, AppEntry
<1>2. mgrreqq' \in [Ranks -> Seq(Slots)]
  BY SMT DEF TypeOK, Call
<1>3. calls' \in 0 .. MaxCalls
  BY MaxCallsAssumption, SMT DEF TypeOK, Call
<1> QED
  BY <1>1, <1>2, <1>3 DEF TypeOK, Call

\* What application threads choose to do keeps the types.
LEMMA AppChoiceType ==
    ASSUME TypeOK, NEW r \in Ranks, NEW l \in Slots, AppChoice(r, l)
    PROVE  TypeOK'
<1>1. CASE \E how \in {"exit", "return"} : app_leaves(r, l, how)
  <2> PICK how \in {"exit", "return"} : app_leaves(r, l, how)
    BY <1>1, SMT
  <2> gtab \in Gtab /\ app \in App /\ ltab \in Ltab
    BY SMT DEF TypeOK, Gtab, App, Ltab
  <2>1. app' \in App
    BY AppPcUpdate DEF app_leaves
  <2>2. ltab[r][l].gtab_idx \in Slots /\ <<"DATA", ltab[r][l].seq>> \in Ret
    BY SMT DEF Ltab, LtabEntry, Ret
  <2>3. gtab' \in Gtab
    BY <2>2, RetType, GtabRetUpdate, SMTT(20) DEF app_leaves
  <2> QED
    BY <2>1, <2>3 DEF TypeOK, app_leaves, history, Gtab, App
<1>2. CASE dthreadcleanup_unwound(r, l)
  BY <1>2, FinalStateType, RetcleanRequestType, SMT
     DEF dthreadcleanup_unwound, LT, FinalStates
<1>3. CASE \E attr \in DetachAttrs : dthread_create(r, l, attr)
  <2> PICK attr \in DetachAttrs : dthread_create(r, l, attr)
    BY <1>3, SMT
  <2>1. attr \in BOOLEAN
    BY DetachAttrsAssumption, SMT
  <2>2. asked' \subseteq Handle
    BY SMT DEF dthread_create, TypeOK
  <2> QED
    BY <2>1, <2>2, CallType, NoThreadType, ZeroInRange, SMT
       DEF dthread_create, Requests
<1>4. CASE \E h \in known : \/ dthread_detach(r, l, h)
                            \/ dthread_cancel(r, l, h)
                            \/ dthread_join(r, l, h)
  <2> PICK h \in known : \/ dthread_detach(r, l, h)
                         \/ dthread_cancel(r, l, h)
                         \/ dthread_join(r, l, h)
    BY <1>4, SMT
  <2>0. h \in Handle /\ dthread_dt2gtab(h)
    BY DEF TypeOK, dthread_detach, dthread_cancel, dthread_join
  <2>1. gtab[h.idx].rank \in Ranks
    BY <2>0 DEF TypeOK, dthread_dt2gtab, GtabEntry
  <2>2. asked' \subseteq Handle
    BY <2>0 DEF TypeOK, dthread_detach, dthread_cancel, dthread_join
  <2> QED
    BY <2>0, <2>1, <2>2, CallType, ZeroInRange
       DEF dthread_detach, dthread_cancel, dthread_join, Requests
<1> QED
  BY <1>1, <1>2, <1>3, <1>4, SMT DEF AppChoice

\* The library's wrappers on application threads keep the types.
LEMMA AppStepType ==
    ASSUME TypeOK, NEW r \in Ranks, NEW l \in Slots, AppStep(r, l)
    PROVE  TypeOK'
<1>1. CASE dthreadwrap(r, l)
  <2> gtab \in Gtab /\ app \in App /\ ltab \in Ltab
    BY SMT DEF TypeOK, Gtab, App, Ltab
  <2>1. gtab' \in Gtab
    <3>1. ltab[r][l].gtab_idx \in Slots
      BY SMT DEF Ltab, LtabEntry
    <3> QED
      BY <1>1, <3>1, GtabHookUpdate DEF dthreadwrap
  <2>2. ltab' \in Ltab
    BY <1>1, LtabStateUpdate DEF dthreadwrap, LT
  <2>3. app' \in App
    BY <1>1, AppPcUpdate, ZenonT(30) DEF dthreadwrap
  <2>4. known' \subseteq Handle
    <3>1. ltab[r][l].gtab_idx \in Slots /\ ltab[r][l].seq \in Nat
      BY SMT DEF Ltab, LtabEntry
    <3>2. [idx |-> ltab[r][l].gtab_idx, seq |-> ltab[r][l].seq] \in Handle
      BY <3>1, NMaxThreadAssumption, SMT DEF Handle, Slots
    <3>3. known' = known \cup {[idx |-> ltab[r][l].gtab_idx, seq |-> ltab[r][l].seq]}
      BY <1>1 DEF dthreadwrap
    <3> QED
      BY <3>2, <3>3 DEF TypeOK
  <2> QED
    BY <1>1, <2>1, <2>2, <2>3, <2>4
       DEF TypeOK, dthreadwrap, history, Gtab, App, Ltab
<1>2. CASE dthreadwrap_decode_fails(r, l)
  BY <1>2, FinalStateType, RetcleanRequestType
     DEF dthreadwrap_decode_fails, LT, FinalStates
<1>3. CASE dthread_exit_common(r, l)
  BY <1>3, RetcleanRequestType, SMT DEF dthread_exit_common, LT, FinalStates
<1>4. CASE dthreadcleanup_returned(r, l)
  BY <1>4, FinalStateType, RetcleanRequestType
     DEF dthreadcleanup_returned, LT, FinalStates
<1>5. CASE app0wrap(r, l)
  <2>1. ltab' \in [Ranks -> [Slots -> LtabEntry]]
    BY <1>5, LtabStateUpdate DEF TypeOK, app0wrap, Ltab, LT, FinalStates
  <2>2. app' \in [Ranks -> [Slots -> AppEntry]]
    BY <1>5, NoAppType DEF TypeOK, app0wrap, AppEntry
  <2>3. mgrreqq' \in [Ranks -> Seq(Slots)]
    BY <1>5, SMT DEF TypeOK, app0wrap
  <2> QED
    BY <1>5, <2>1, <2>2, <2>3 DEF TypeOK, app0wrap, history
<1>6. CASE api_return(r, l)
  <2>1. app' \in [Ranks -> [Slots -> AppEntry]]
    BY <1>6, NoAppType DEF TypeOK, api_return, AppEntry
  <2> QED
    BY <1>6, <2>1, SMT DEF TypeOK, api_return, history
<1> QED
  BY <1>1, <1>2, <1>3, <1>4, <1>5, <1>6, SMT DEF AppStep

\* broadcast_shutdown addresses ranks of the job only.
LEMMA BroadcastType ==
    ASSUME TypeOK, NEW n \in Net, NEW r \in Ranks, broadcast_shutdown(n, r)
    PROVE  /\ net' \in Net
           /\ mgrstate' \in [Ranks -> MgrEntry]
<1> DEFINE m == message("BCASTSHUTDOWN", 0, NoThread, "OK", NoData)
<1>1. m \in Msg
  BY MessageType, NoThreadType, RetType DEF MsgOps, Errors
<1>2. net' \in Net
  <2>1. \A d \in Ranks : n[r][d] \in Seq(Msg) /\ Append(n[r][d], m) \in Seq(Msg)
    BY <1>1, SMT DEF Net
  <2> HIDE DEF m
  <2> QED
    BY <2>1, SMT DEF broadcast_shutdown, Net, m
<1>3. mgrstate' \in [Ranks -> MgrEntry]
  BY MgrPhaseUpdate DEF TypeOK, broadcast_shutdown, Mgr
<1> QED
  BY <1>2, <1>3, SMT

\* Giving out sequence numbers (get_free_seq).
LEMMA SeqsrcType ==
    ASSUME TypeOK, NEW r \in Ranks, NEW k \in Nat
    PROVE  [seqsrc EXCEPT ![r] = @ + k] \in [Ranks -> Nat]
BY SMT DEF TypeOK

\* process_req keeps the types, one step per kind of request.
LEMMA MgrRequestType ==
    ASSUME TypeOK, NEW r \in Ranks, MgrRequest(r)
    PROVE  TypeOK'
<1> DEFINE l == Head(mgrreqq[r])
<1>0. /\ l \in Slots
      /\ [mgrreqq EXCEPT ![r] = Tail(@)] \in [Ranks -> Seq(Slots)]
  BY HeadRequestType DEF MgrRequest, process_req_forward,
     process_req_retclean, process_req_app0_ret, HasRequest
<1> HIDE DEF l
<1> gtab \in Gtab /\ app \in App /\ ltab \in Ltab /\ net \in Net
  BY SMT DEF TypeOK, Gtab, App, Ltab, Net
<1> l \in Slots
  BY <1>0, SMT
<1>1. CASE process_req_forward(r)
  <2> DEFINE a == app[r][l]
             m == [message(a.op, seqsrc[r], a.thread, "OK", NoData)
                      EXCEPT !.attr = a.attr]
             p == pending(a.op, seqsrc[r], 0, l, a.thread, a.peer)
  <2> /\ a.op \in Requests /\ a.thread \in Handle /\ a.peer \in Ranks
        /\ a.attr \in BOOLEAN /\ seqsrc[r] \in Nat
    <3>1. a \in AppEntry
      BY <1>0, SMT DEF App
    <3>2. a.op \in Requests
      BY <1>1 DEF process_req_forward, HasRequest, l
    <3> QED
      BY <3>1, <3>2 DEF AppEntry, TypeOK
  <2>2. m \in Msg
    <3>1. message(a.op, seqsrc[r], a.thread, "OK", NoData) \in Msg
      BY MessageType, RetType DEF MsgOps, Errors
    <3> QED
      BY <3>1 DEF Msg
  <2>3. p \in Pending
    BY <1>0, NMaxThreadAssumption, SMT DEF pending, Pending, Slots
  <2>4. net' \in Net
    <3>1. net' = dtq_send_enqueue(net, r, a.peer, m)
      BY <1>1 DEF process_req_forward, l
    <3> QED
      BY <2>2, <3>1, SendType
  <2>5. app' \in App
    <3>1. app' = app \/ app' = [app EXCEPT ![r][l].pc = "done"]
      BY <1>1 DEF process_req_forward, l
    <3>2. [app EXCEPT ![r][l].pc = "done"] \in App
      BY AppPcUpdate
    <3> QED
      BY <3>1, <3>2
  <2>6. rpending' \in [Ranks -> SUBSET Pending]
    <3>1. rpending' = rpending \/ rpending' = [rpending EXCEPT ![r] = @ \cup {p}]
      BY <1>1 DEF process_req_forward, l
    <3> rpending \in Rpending
      BY DEF TypeOK, Rpending
    <3>3. [rpending EXCEPT ![r] = @ \cup {p}] \in Rpending
      BY <2>3, PendingUpdate, ZenonT(30)
    <3> QED
      BY <3>1, <3>3 DEF Rpending
  <2>7. seqsrc' \in [Ranks -> Nat]
    BY <1>1, SeqsrcType, NRanksAssumption DEF process_req_forward
  <2> QED
    BY <1>0, <1>1, <2>4, <2>5, <2>6, <2>7
       DEF TypeOK, process_req_forward, history, Net, App
<1>2. CASE process_req_retclean(r)
  <2> DEFINE lt == ltab[r][l]
             t == message("TERMINATED", 0, [idx |-> lt.gtab_idx, seq |-> lt.seq],
                          "OK", NoData)
             m == [t EXCEPT !.finalstate = lt.pth_state]
  <2> lt.gtab_idx \in Slots /\ lt.seq \in Nat /\ lt.pth_state \in LT
    BY <1>0, SMT DEF Ltab, LtabEntry
  <2>2. m \in Msg
    <3>1. [idx |-> lt.gtab_idx, seq |-> lt.seq] \in Handle
      BY NMaxThreadAssumption, SMT DEF Handle, Slots
    <3>2. t \in Msg
      BY <3>1, MessageType, RetType DEF MsgOps, Errors
    <3> HIDE DEF t
    <3> QED
      BY <3>2, SMT DEF Msg
  <2>3. net' \in Net
    <3>1. net' = dtq_send_enqueue(net, r, 0, m)
      BY <1>2, ZenonT(30) DEF process_req_retclean, l
    <3> QED
      BY <2>2, <3>1, SendType, ZeroInRange
  <2>4. gtab' \in Gtab
    BY <1>2, GtabUnhookUpdate DEF process_req_retclean, l
  <2>5. ltab' \in Ltab
    <3> DEFINE e == [lt EXCEPT !.pth_state = "NONE", !.seq = 0]
    <3>1. ltab' = [ltab EXCEPT ![r][l].pth_state = "NONE", ![r][l].seq = 0]
      BY <1>2, ZenonT(30) DEF process_req_retclean, l
    <3>2. ltab' = [ltab EXCEPT ![r][l] = e]
      BY <3>1, <1>0 DEF Ltab, LtabEntry
    <3>3. e \in LtabEntry
      <4>1. lt \in LtabEntry
        BY <1>0 DEF Ltab
      <4> HIDE DEF lt
      <4> QED
        BY <4>1 DEF LtabEntry, LT
    <3> QED
      BY <1>0, <3>2, <3>3, LtabUpdate
  <2>6. app' \in App
    BY <1>2, <1>0, AppUpdate, NoAppType DEF process_req_retclean, l
  <2>7. mgrstate' \in [Ranks -> MgrEntry]
    <3> mgrstate \in Mgr
      BY DEF TypeOK, Mgr
    <3>2. mgrstate[r].ltab_alloc - 1 \in Int
      BY SMT DEF Mgr, MgrEntry
    <3>3. mgrstate' = [mgrstate EXCEPT ![r].ltab_alloc =
                                           mgrstate[r].ltab_alloc - 1]
      BY <1>2 DEF process_req_retclean
    <3> QED
      BY <3>2, <3>3, MgrLtabUpdate DEF Mgr
  <2> QED
    BY <1>0, <1>2, <2>3, <2>4, <2>5, <2>6, <2>7
       DEF TypeOK, process_req_retclean, history, Net, App, Gtab, Ltab
<1>3. CASE process_req_app0_ret(r)
  <2>1. app' \in App
    BY <1>3, <1>0, AppUpdate, NoAppType DEF process_req_app0_ret, l
  <2>2. net' \in Net /\ mgrstate' \in [Ranks -> MgrEntry]
    BY <1>3, BroadcastType DEF process_req_app0_ret
  <2> QED
    BY <1>0, <1>3, <2>1, <2>2
       DEF TypeOK, process_req_app0_ret, history, Net, App
<1> QED
  BY <1>1, <1>2, <1>3, SMT DEF MgrRequest

\* The shutdown and the exit of a manager keep the types.
LEMMA MgrOwnType ==
    ASSUME TypeOK,
           idle_shutdown \/ \E r \in Ranks : mgr_exit(r)
    PROVE  TypeOK'
<1>1. CASE idle_shutdown
  <2>1. net' \in Net /\ mgrstate' \in [Ranks -> MgrEntry]
    BY <1>1, BroadcastType, ZeroInRange DEF idle_shutdown, TypeOK, Net
  <2> QED
    BY <1>1, <2>1 DEF TypeOK, idle_shutdown, history, Net
<1>2. CASE \E r \in Ranks : mgr_exit(r)
  <2>1. mgrstate' \in [Ranks -> MgrEntry]
    <3> PICK r \in Ranks : mgr_exit(r)
      BY <1>2, SMT
    <3>1. mgrstate \in Mgr
      BY SMT DEF TypeOK, Mgr
    <3>2. mgrstate' = [mgrstate EXCEPT ![r].phase = "exit"]
      BY SMT DEF mgr_exit
    <3> QED
      BY <3>1, <3>2, MgrPhaseUpdate DEF Mgr
  <2> QED
    BY <1>2, <2>1 DEF TypeOK, mgr_exit, history
<1> QED
  BY <1>1, <1>2, SMT

\* create_thread keeps the types on each of its paths.
LEMMA CreateType ==
    ASSUME TypeOK, NEW s \in Ranks,
           \/ create_thread_full(s)
           \/ create_thread_nomem(s)
           \/ create_thread(s)
    PROVE  TypeOK'
<1> DEFINE m == Head(net[s][0])
<1>0. /\ m \in Msg
      /\ Received(s, 0) \in Net
      /\ 0 \in Ranks
  BY ReceivedType, ZeroInRange DEF TypeOK, Net, HasMessage,
     create_thread_full, create_thread_nomem, create_thread
<1> HIDE DEF m
<1> m.xid \in Nat
  BY <1>0, SMT DEF Msg
<1>b. ASSUME NEW err \in Errors, CreateFailed(s, m, err)
      PROVE  net' \in Net
  <2>1. message("CREATED", m.xid, NoThread, err, NoData) \in Msg
    BY MessageType, NoThreadType, RetType DEF MsgOps, Replies
  <2> QED
    BY <1>0, <1>b, <2>1, SendType, SMT DEF CreateFailed
<1> NextRank \in Ranks
  BY NextRankType DEF TypeOK, Mgr0
<1>1. CASE create_thread_full(s)
  <2>1. net' \in Net
    BY <1>1, <1>b DEF create_thread_full, m, Errors
  <2> QED
    BY <1>1, <2>1 DEF TypeOK, create_thread_full, history, Net
<1>2. CASE create_thread_nomem(s)
  <2>1. net' \in Net
    BY <1>2, <1>b DEF create_thread_nomem, m, Errors
  <2> QED
    <3>1. mgr0' \in Mgr0
      BY <1>2 DEF TypeOK, create_thread_nomem, Mgr0
    <3> QED
      BY <1>2, <2>1, <3>1 DEF TypeOK, create_thread_nomem, history, Net
<1>3. CASE create_thread(s)
  <2> DEFINE seq == seqsrc[0]
             xid == seqsrc[0] + NRanks
             target == mgr0.next_rank
  <2> /\ seq \in Nat /\ xid \in Nat
        /\ target \in Ranks
    <3>1. seqsrc \in [Ranks -> Nat] /\ mgr0 \in Mgr0
      BY DEF TypeOK
    <3> QED
      BY <1>0, <3>1, NRanksAssumption, SMT DEF Mgr0
  <2>1. PICK g \in Slots : create_thread_at(s, g)
    BY <1>3 DEF create_thread
  <2> DEFINE h == [idx |-> g, seq |-> seq]
             entry == gtab_alloc(gtab[g], target, seq)
  <2> h \in Handle
    BY NMaxThreadAssumption, SMT DEF Handle, Slots
  <2>3. entry \in GtabEntry /\ gtab_free(entry) \in GtabEntry
    <3>1. gtab[g] \in GtabEntry
      BY DEF TypeOK
    <3> QED
      BY <3>1, GtabAllocType, GtabFreeType
  <2> HIDE DEF entry
  <2>4. gtab' \in Gtab
    <3>1. \/ gtab' = [gtab EXCEPT ![g] = gtab_free(entry)]
          \/ gtab' = [gtab EXCEPT ![g] = entry]
      BY <2>1 DEF create_thread_at, entry
    <3> QED
      BY <3>1, <2>3, ZenonT(30) DEF TypeOK, Gtab
  <2>5. mgr0' \in Mgr0
    <3>1. \/ mgr0' = [mgr0 EXCEPT !.last_slot = g, !.next_rank = NextRank]
          \/ mgr0' = [mgr0 EXCEPT !.last_slot = g, !.next_rank = NextRank,
                                  !.threads_alloc = @ + 1,
                                  !.threads_starting = @ + 1]
      BY <2>1 DEF create_thread_at
    <3> mgr0 \in Mgr0
      BY DEF TypeOK
    <3>3. [mgr0 EXCEPT !.last_slot = g, !.next_rank = NextRank] \in Mgr0
      BY Mgr0PlaceUpdate
    <3>4. [mgr0 EXCEPT !.last_slot = g, !.next_rank = NextRank,
                       !.threads_alloc = @ + 1,
                       !.threads_starting = @ + 1] \in Mgr0
      BY Mgr0Counted
    <3> QED
      BY <3>1, <3>3, <3>4, SMT
  <2>6. net' \in Net
    <3>1. message("START", xid, h, "OK", NoData) \in Msg
      BY MessageType, RetType DEF MsgOps, Errors
    <3>2. CASE draining(0)
      BY <3>2, <2>1, <1>b DEF create_thread_at, Errors, m
    <3>3. CASE ~draining(0)
      <4>1. net' = dtq_send_enqueue(Received(s, 0), 0, target,
                       message("START", xid, h, "OK", NoData))
        BY <3>3, <2>1 DEF create_thread_at
      <4> QED
        BY <4>1, <3>1, <1>0, SendType
    <3> QED
      BY <3>2, <3>3, SMT
  <2>7. rpending' \in Rpending
    <3> DEFINE p == pending("START", xid, m.xid, NMaxThread, h, s)
    <3>1. p \in Pending
      BY NMaxThreadAssumption, SMT DEF pending, Pending
    <3> rpending \in Rpending
      BY DEF TypeOK, Rpending
    <3>3. [rpending EXCEPT ![0] = @ \cup {p}] \in Rpending
      BY <1>0, <3>1, PendingUpdate
    <3>4. rpending' = rpending \/ rpending' = [rpending EXCEPT ![0] = @ \cup {p}]
      BY <2>1 DEF create_thread_at, m
    <3> QED
      BY <3>3, <3>4
  <2>8. detattr' \subseteq Handle
    <3>1. detattr' \subseteq detattr \cup {h}
      BY <2>1 DEF create_thread_at
    <3> QED
      BY <3>1 DEF TypeOK
  <2>9. seqsrc' \in [Ranks -> Nat]
    <3>1. 2 * NRanks \in Nat
      BY NRanksAssumption, SMT
    <3> QED
      BY <1>0, <1>3, <3>1, SeqsrcType DEF create_thread
  <2>10. UNCHANGED <<ltab, app, mgrreqq, mgrstate, calls, known, joinok, results,
                     asked>>
    BY <1>3 DEF create_thread
  <2> QED
    BY <2>4, <2>5, <2>6, <2>7, <2>8, <2>9, <2>10
       DEF TypeOK, Gtab, Net, Rpending
<1> QED
  BY <1>1, <1>2, <1>3, SMT

\* start_thread keeps the types.
LEMMA StartType ==
    ASSUME TypeOK, NEW s \in Ranks, NEW r \in Ranks, start_thread(s, r)
    PROVE  TypeOK'
<1> DEFINE m == Head(net[s][r])
           Started(err) == message("STARTED", m.xid, NoThread, err, NoData)
<1>0. /\ m \in Msg
      /\ Received(s, r) \in Net
  BY ReceivedType DEF TypeOK, Net, HasMessage, start_thread
<1> HIDE DEF m
<1> m.thread.idx \in Slots /\ m.thread.seq \in Nat /\ m.xid \in Nat
  BY <1>0 DEF start_thread, StartValid, dthread_dt2gtab, Msg, Handle, m
<1>2. \A err \in Errors :
         dtq_send_enqueue(Received(s, r), r, 0, Started(err)) \in Net
  <2> TAKE err \in Errors
  <2>1. Started(err) \in Msg
    BY MessageType, NoThreadType, RetType DEF MsgOps
  <2> QED
    BY <1>0, <2>1, SendType, ZeroInRange
<1>3. PICK l \in ltab_alloc(r) :
        \/ /\ ltab' = [ltab EXCEPT ![r][l] =
                          [gtab_idx |-> m.thread.idx, seq |-> m.thread.seq,
                           pth_state |-> "STARTING"]]
           /\ app' = [app EXCEPT ![r][l] = [NoApp EXCEPT !.pc = "wrap"]]
           /\ mgrstate' = [mgrstate EXCEPT ![r].ltab_alloc = @ + 1,
                                           ![r].ltab_lastslot = l]
           /\ net' = dtq_send_enqueue(Received(s, r), r, 0, Started("OK"))
        \/ /\ ltab' = [ltab EXCEPT ![r][l] =
                          [gtab_idx |-> m.thread.idx, seq |-> 0,
                           pth_state |-> "NONE"]]
           /\ mgrstate' = [mgrstate EXCEPT ![r].ltab_lastslot = l]
           /\ net' = dtq_send_enqueue(Received(s, r), r, 0, Started("EAGAIN"))
           /\ app' = app
  BY DEF start_thread, m
<1> HIDE DEF Started
<1> l \in Slots
  BY ZeroInRange DEF ltab_alloc
<1>5. net' \in Net
  <2>1. "OK" \in Errors /\ "EAGAIN" \in Errors
    BY SMT DEF Errors
  <2> QED
    BY <1>2, <1>3, <2>1
<1>6. ltab' \in Ltab
  <2> DEFINE e1 == [gtab_idx |-> m.thread.idx, seq |-> m.thread.seq,
                    pth_state |-> "STARTING"]
             e2 == [gtab_idx |-> m.thread.idx, seq |-> 0, pth_state |-> "NONE"]
  <2>1. e1 \in LtabEntry /\ e2 \in LtabEntry
    BY SMT DEF LtabEntry, LT
  <2>2. ltab' = [ltab EXCEPT ![r][l] = e1] \/ ltab' = [ltab EXCEPT ![r][l] = e2]
    BY <1>3
  <2>3. ltab \in Ltab
    BY DEF TypeOK, Ltab
  <2> HIDE DEF e1, e2
  <2> QED
    BY <2>1, <2>2, <2>3, LtabUpdate, SMT
<1>7. app' \in App
  <2>1. [NoApp EXCEPT !.pc = "wrap"] \in AppEntry
    BY NoAppType, SMT DEF AppEntry
  <2>2. app \in App
    BY DEF TypeOK, App
  <2>3. \/ app' = app
        \/ app' = [app EXCEPT ![r][l] = [NoApp EXCEPT !.pc = "wrap"]]
    BY <1>3
  <2> QED
    BY <2>1, <2>2, <2>3, AppUpdate, SMT
<1>8. mgrstate' \in Mgr
  <2> mgrstate \in Mgr
    BY DEF TypeOK, Mgr
  <2>2. \/ mgrstate' = [mgrstate EXCEPT ![r].ltab_alloc = @ + 1,
                                        ![r].ltab_lastslot = l]
        \/ mgrstate' = [mgrstate EXCEPT ![r].ltab_lastslot = l]
    BY <1>3
  <2>3. [mgrstate EXCEPT ![r].ltab_alloc = @ + 1, ![r].ltab_lastslot = l] \in Mgr
    BY MgrLtabTaken, SMT
  <2>4. [mgrstate EXCEPT ![r].ltab_lastslot = l] \in Mgr
    BY SMT DEF Mgr, MgrEntry
  <2> QED
    BY <2>2, <2>3, <2>4
<1>9. UNCHANGED <<gtab, mgrreqq, rpending, mgr0, seqsrc, calls, known, history>>
  BY DEF start_thread
<1> QED
  BY <1>5, <1>6, <1>7, <1>8, <1>9 DEF TypeOK, history, Net, Ltab, App, Mgr

\* Sending a reply.
LEMMA ReplyType ==
    ASSUME NEW n \in Net, NEW r \in Ranks, NEW to \in Ranks,
           NEW op \in Replies, NEW xid \in Nat, NEW t \in Handle,
           NEW err \in Errors, NEW v \in Ret
    PROVE  dtq_send_enqueue(n, r, to, message(op, xid, t, err, v)) \in Net
<1>1. message(op, xid, t, err, v) \in Msg
  BY MessageType, SMT DEF MsgOps
<1> QED
  BY <1>1, SendType, SMT

\* Answering a waiting JOIN (joinwait_end_release).
LEMMA JoinwaitEndType ==
    ASSUME NEW n \in Net, NEW P \in SUBSET Pending, NEW err \in Errors,
           NEW v \in Ret
    PROVE  joinwait_end_release(n, P, err, v) \in Net
<1>1. CASE P = {}
  BY <1>1, SMT DEF joinwait_end_release
<1>2. CASE P # {}
  <2> DEFINE p == CHOOSE q \in P : TRUE
             w == IF err = "OK" THEN v ELSE NoData
  <2>1. p \in Pending
    BY <1>2, SMT
  <2>2. p.peer \in Ranks /\ p.xid \in Nat
    BY <2>1, SMT DEF Pending
  <2>3. w \in Ret
    BY RetType, SMT
  <2> HIDE DEF p, w
  <2>4. dtq_send_enqueue(n, 0, p.peer, message("JOINED", p.xid, NoThread, err, w))
            \in Net
    BY <2>2, <2>3, ReplyType, ZeroInRange, NoThreadType, SMT DEF Replies
  <2> QED
    BY <1>2, <2>4, SMT DEF joinwait_end_release, p, w
<1> QED
  BY <1>1, <1>2, SMT

\* The handler of STARTED keeps the types.
LEMMA StartedType ==
    ASSUME TypeOK, NEW s \in Ranks, process_started(s)
    PROVE  TypeOK'
<1> DEFINE m == Head(net[s][0])
           found == find_pending_msgreq(0, "START", m.xid)
           p == CHOOSE q \in found : TRUE
           h == IF m.errstatus = "OK" THEN p.thread ELSE NoThread
<1>0. /\ m.errstatus \in Errors
      /\ Received(s, 0) \in Net
  BY TakenMessage, ZeroInRange DEF process_started
<1>1. found \in SUBSET Pending
  BY ZeroInRange DEF TypeOK, find_pending_msgreq
<1> rpending' \in Rpending
  <2>1. rpending' = [rpending EXCEPT ![0] = @ \ found]
    BY ZenonT(30) DEF process_started
  <2>2. rpending \in Rpending
    BY DEF TypeOK, Rpending
  <2> HIDE DEF found
  <2> QED
    BY <2>1, <2>2, PendingUpdate, ZeroInRange, ZenonT(30)
<1>3. UNCHANGED <<ltab, app, mgrreqq, mgrstate, seqsrc, calls, known, history>>
  BY DEF process_started
<1>4. CASE found = {}
  <2>1. net' = Received(s, 0) /\ UNCHANGED <<gtab, mgr0>>
    BY <1>4 DEF process_started
  <2> QED
    BY <1>0, <1>3, <2>1 DEF TypeOK, history, Net, Rpending
<1>5. CASE found # {}
  <2>1. p \in Pending
    BY <1>1, <1>5
  <2> p.thread \in Handle /\ p.peer \in Ranks /\ p.cxid \in Nat
    BY <2>1 DEF Pending
  <2>3. h \in Handle
    BY NoThreadType
  <2>4. net' \in Net
    <3>1. net' = dtq_send_enqueue(Received(s, 0), 0, p.peer,
                     message("CREATED", p.cxid, h, m.errstatus, NoData))
      BY <1>5 DEF process_started
    <3> HIDE DEF p, h, m
    <3> QED
      BY <1>0, <2>3, <3>1, ReplyType, ZeroInRange, RetType
         DEF Replies
  <2>5. gtab' \in Gtab
    <3>1. gtab' = gtab \/ gtab' = [gtab EXCEPT ![p.thread.idx] = gtab_free(@)]
      BY <1>5 DEF process_started
    <3>2. gtab \in Gtab
      BY DEF TypeOK, Gtab
    <3> HIDE DEF p
    <3> QED
      BY <3>1, <3>2, GtabFreeType, SMT DEF Gtab
  <2>6. mgr0' \in Mgr0
    <3>1. mgr0' = StartedCounts(m.errstatus = "OK")
      BY <1>5 DEF process_started
    <3>2. mgr0 \in Mgr0
      BY DEF TypeOK
    <3> HIDE DEF m
    <3> QED
      BY <3>1, <3>2, StartedCountsType, SMT
  <2> QED
    BY <1>3, <2>4, <2>5, <2>6 DEF TypeOK, history, Net, Rpending, Gtab
<1> QED
  BY <1>4, <1>5

\* detach_thread keeps the types.
LEMMA DetachType ==
    ASSUME TypeOK, NEW s \in Ranks, detach_thread(s)
    PROVE  TypeOK'
<1> DEFINE m == Head(net[s][0])
           found == dthread_dt2gtab(m.thread)
           waiting == IF found THEN joinwait_search(m.thread) ELSE {}
           n1 == dtq_send_enqueue(Received(s, 0), 0, s,
                     message("DETACHED", m.xid, NoThread,
                             IF found THEN "OK" ELSE "ESRCH", NoData))
<1>0. /\ m.xid \in Nat
      /\ Received(s, 0) \in Net
  BY TakenMessage, ZeroInRange DEF detach_thread
<1>1. waiting \in SUBSET Pending
  BY ZeroInRange DEF TypeOK, joinwait_search
<1>2. rpending' \in Rpending
  <2>1. rpending' = [rpending EXCEPT ![0] = @ \ waiting]
    BY DEF detach_thread
  <2>2. rpending \in Rpending
    BY SMTT(30) DEF TypeOK, Rpending
  <2> HIDE DEF waiting
  <2> QED
    BY <2>1, <2>2, PendingUpdate, ZeroInRange, ZenonT(30)
<1>3. net' \in Net
  <2>1. (IF found THEN "OK" ELSE "ESRCH") \in Errors /\ "EINVAL" \in Errors
    BY SMT DEF Errors
  <2>2. n1 \in Net
    <3> HIDE DEF found, m
    <3> QED
      BY <1>0, <2>1, ReplyType, ZeroInRange, NoThreadType, RetType DEF Replies
  <2>3. net' = joinwait_end_release(n1, waiting, "EINVAL", NoData)
    BY DEF detach_thread
  <2> HIDE DEF n1, waiting
  <2> QED
    BY <1>1, <2>1, <2>2, <2>3, JoinwaitEndType, RetType, SMT
<1>4. gtab' \in Gtab
  <2>1. gtab' = gtab \/ gtab' = [gtab EXCEPT ![m.thread.idx].detached = TRUE]
    BY DEF detach_thread
  <2>2. gtab \in Gtab
    BY DEF TypeOK, Gtab
  <2> HIDE DEF m
  <2> QED
    BY <2>1, <2>2, GtabDetachUpdate
<1> QED
  BY <1>2, <1>3, <1>4, ZenonT(30)
     DEF TypeOK, detach_thread, history, Net, Rpending, Gtab

\* join_thread keeps the types.
LEMMA JoinType ==
    ASSUME TypeOK, NEW s \in Ranks, join_thread(s)
    PROVE  TypeOK'
<1> DEFINE m == Head(net[s][0])
           h == m.thread
           j == [thread |-> h, xid |-> m.xid]
           p == pending("JOINWAIT", m.xid, 0, NMaxThread, h, s)
           Joined(err, v) == dtq_send_enqueue(Received(s, 0), 0, s,
                                 message("JOINED", m.xid, NoThread, err, v))
<1>0. /\ m.xid \in Nat /\ h \in Handle
      /\ Received(s, 0) \in Net
  BY TakenMessage, ZeroInRange DEF join_thread
<1>1. \A err \in Errors, v \in Ret : Joined(err, v) \in Net
  <2> TAKE err \in Errors, v \in Ret
  <2> HIDE DEF m
  <2> QED
    BY <1>0, ReplyType, ZeroInRange, NoThreadType DEF Replies
<1> HIDE DEF Joined
<1>2. net' \in Net
  <2>1. \/ net' = Received(s, 0)
        \/ \E err \in {"ESRCH", "EINVAL", "ENOMEM"} : net' = Joined(err, NoData)
        \/ net' = Joined("OK", gtab[h.idx].ret) /\ h.idx \in Slots
    BY DEF join_thread, Joined, dthread_dt2gtab
  <2>2. {"ESRCH", "EINVAL", "ENOMEM", "OK"} \subseteq Errors
    BY SMT DEF Errors
  <2>3. h.idx \in Slots => gtab[h.idx].ret \in Ret
    BY DEF TypeOK, GtabEntry
  <2> HIDE DEF h
  <2> QED
    BY <1>0, <1>1, <2>1, <2>2, <2>3, RetType
<1>3. gtab' \in Gtab
  <2>1. gtab' = gtab \/ gtab' = [gtab EXCEPT ![h.idx] = gtab_free(@)]
    BY DEF join_thread
  <2>2. gtab \in Gtab
    BY SMTT(30) DEF TypeOK, Gtab
  <2> HIDE DEF h
  <2> QED
    BY <2>1, <2>2, GtabFreeType, SMT DEF Gtab
<1>4. rpending' \in Rpending
  <2>1. p \in Pending
    <3> HIDE DEF m
    <3> QED
      BY <1>0, NMaxThreadAssumption, SMT DEF pending, Pending
  <2> rpending \in Rpending
    BY SMTT(30) DEF TypeOK, Rpending
  <2>3. rpending' = rpending \/ rpending' = [rpending EXCEPT ![0] = @ \cup {p}]
    BY DEF join_thread
  <2> HIDE DEF p
  <2>4. [rpending EXCEPT ![0] = @ \cup {p}] \in Rpending
    BY <2>1, PendingUpdate, ZeroInRange
  <2> QED
    BY <2>3, <2>4, SMT
<1>5. mgr0' \in Mgr0
  <2>1. mgr0' = mgr0 \/ mgr0' = [mgr0 EXCEPT !.threads_alloc = @ - 1]
    BY DEF join_thread
  <2>2. mgr0 \in Mgr0
    BY DEF TypeOK
  <2> QED
    BY <2>1, <2>2, Mgr0FreeUpdate, SMT
<1>6. joinok' \subseteq [thread : Handle, xid : Nat]
  <2>1. joinok' \subseteq joinok \cup {j}
    BY DEF join_thread
  <2>2. j \in [thread : Handle, xid : Nat]
    BY <1>0
  <2> HIDE DEF j
  <2> QED
    BY <2>1, <2>2 DEF TypeOK
<1>7. UNCHANGED <<ltab, app, mgrreqq, mgrstate, seqsrc, calls, known, results,
                  asked, detattr>>
  BY ZenonT(30) DEF join_thread
<1> QED
  BY <1>2, <1>3, <1>4, <1>5, <1>6, <1>7 DEF TypeOK, Net, Gtab, Rpending

\* terminated_thread keeps the types.
LEMMA TerminatedType ==
    ASSUME TypeOK, NEW s \in Ranks, terminated_thread(s)
    PROVE  TypeOK'
<1> DEFINE m == Head(net[s][0])
           h == m.thread
           gt == gtab[h.idx]
           waiting == joinwait_search(h)
           done == gt.detached \/ waiting # {}
           zombie == [gt EXCEPT !.terminated = m.finalstate, !.has_ltab = FALSE]
           err == IF gt.detached THEN "EINVAL" ELSE "OK"
<1>0. /\ m.finalstate \in LT /\ h \in Handle
      /\ Received(s, 0) \in Net
  BY TakenMessage, ZeroInRange, ZenonT(30) DEF terminated_thread
<1> waiting \in SUBSET Pending
  BY ZeroInRange DEF TypeOK, joinwait_search
<1> gtab \in Gtab /\ rpending \in Rpending /\ mgr0 \in Mgr0
  BY DEF TypeOK, Gtab, Rpending
<1>3. UNCHANGED <<ltab, app, mgrreqq, mgrstate, seqsrc, calls, known, results,
                  asked, detattr>>
  BY DEF terminated_thread
<1>4. CASE ~(h.idx \in Slots /\ gt.seq = h.seq /\ m.finalstate # "RUNNING")
  <2>1. net' = Received(s, 0) /\ UNCHANGED <<gtab, mgr0, rpending, joinok>>
    BY <1>4 DEF terminated_thread
  <2> QED
    BY <1>0, <1>3, <2>1 DEF TypeOK, Net
<1>5. CASE h.idx \in Slots /\ gt.seq = h.seq /\ m.finalstate # "RUNNING"
  <2>1. gtab' \in Gtab
    <3>1. gtab' = [gtab EXCEPT ![h.idx] = IF done THEN gtab_free(zombie)
                                                  ELSE zombie]
      BY <1>5 DEF terminated_thread
    <3> zombie \in GtabEntry
      <4>1. gt \in GtabEntry
        BY <1>5 DEF Gtab
      <4> HIDE DEF gt, m
      <4> QED
        BY <1>0, <4>1, ZenonT(30) DEF GtabEntry
    <3> HIDE DEF zombie, done, h
    <3>3. gtab_free(zombie) \in GtabEntry
      BY GtabFreeType, SMT
    <3> QED
      BY <3>1, <3>3 DEF Gtab
  <2>2. mgr0' \in Mgr0
    <3>1. mgr0' = [mgr0 EXCEPT !.threads_running = @ - 1,
                       !.threads_alloc = IF done THEN @ - 1 ELSE @]
      BY <1>5 DEF terminated_thread
    <3> HIDE DEF done
    <3> QED
      BY <3>1, Mgr0EndUpdate
  <2>3. rpending' \in Rpending
    <3>1. rpending' = [rpending EXCEPT ![0] = @ \ waiting]
      BY <1>5 DEF terminated_thread
    <3> HIDE DEF waiting
    <3> QED
      BY <3>1, PendingUpdate, ZeroInRange
  <2>4. net' \in Net
    <3>1. net' = joinwait_end_release(Received(s, 0), waiting, err, gt.ret)
      BY <1>5, ZenonT(30) DEF terminated_thread
    <3>2. err \in Errors /\ gt.ret \in Ret
      BY <1>5 DEF Errors, Gtab, GtabEntry
    <3> HIDE DEF err, gt, waiting
    <3> QED
      BY <1>0, <3>1, <3>2, JoinwaitEndType
  <2>5. joinok' \subseteq [thread : Handle, xid : Nat]
    <3>1. joinok' \subseteq joinok \cup {[thread |-> h, xid |-> p.xid] :
                                            p \in waiting}
      BY <1>5 DEF terminated_thread
    <3>2. \A p \in waiting : p.xid \in Nat
      BY DEF Pending
    <3>3. joinok \subseteq [thread : Handle, xid : Nat]
      BY DEF TypeOK
    <3> HIDE DEF h, waiting
    <3>4. \A p \in waiting : [thread |-> h, xid |-> p.xid]
                                 \in [thread : Handle, xid : Nat]
      BY <1>0, <3>2
    <3> QED
      BY <3>1, <3>3, <3>4
  <2> QED
    BY <1>3, <2>1, <2>2, <2>3, <2>4, <2>5 DEF TypeOK, Net, Gtab, Rpending
<1> QED
  BY <1>4, <1>5

\* The look-up of cancel_thread keeps the types.
LEMMA CancelType ==
    ASSUME TypeOK, NEW s \in Ranks, NEW r \in Ranks, cancel_thread(s, r)
    PROVE  TypeOK'
<1> DEFINE m == Head(net[s][r])
           err == IF dthread_dt2gtab(m.thread) THEN "EINVAL" ELSE "ESRCH"
<1>0. /\ m.xid \in Nat /\ m.thread \in Handle
      /\ Received(s, r) \in Net
  BY TakenMessage DEF cancel_thread
<1>1. mgrstate' \in Mgr
  <2>1. \/ mgrstate' = mgrstate
        \/ mgrstate' = [mgrstate EXCEPT ![r].cancelling = s, ![r].xid = m.xid,
                                        ![r].thread = m.thread]
    BY DEF cancel_thread
  <2> mgrstate \in Mgr
    BY DEF TypeOK, Mgr
  <2>3. s \in 0 .. NRanks
    BY NRanksAssumption, SMT DEF Ranks
  <2> HIDE DEF m
  <2>4. [mgrstate EXCEPT ![r].cancelling = s, ![r].xid = m.xid,
                         ![r].thread = m.thread] \in Mgr
    BY <1>0, <2>3, MgrCancelUpdate
  <2> QED
    BY <2>1, <2>4
<1>2. net' \in Net
  <2>1. \/ net' = Received(s, r)
        \/ net' = dtq_send_enqueue(Received(s, r), r, s,
                      message("CANCELED", m.xid, NoThread, err, NoData))
    BY DEF cancel_thread
  <2>2. err \in Errors
    BY SMT DEF Errors
  <2> HIDE DEF m, err
  <2>3. dtq_send_enqueue(Received(s, r), r, s,
            message("CANCELED", m.xid, NoThread, err, NoData)) \in Net
    BY <1>0, <2>2, ReplyType, NoThreadType, RetType DEF Replies
  <2> QED
    BY <1>0, <2>1, <2>3, SMTT(30)
<1> QED
  BY <1>1, <1>2 DEF TypeOK, cancel_thread, history, Net, Mgr

\* The rest of cancel_thread keeps the types.
LEMMA CancelActType ==
    ASSUME TypeOK, NEW r \in Ranks, cancel_thread_act(r)
    PROVE  TypeOK'
<1> DEFINE st == mgrstate[r]
           l == gtab[st.thread.idx].ltab_idx
<1> mgrstate \in Mgr /\ ltab \in Ltab /\ net \in Net
  BY DEF TypeOK, Mgr, Ltab, Net
<1>1. st.cancelling \in Ranks /\ st.xid \in Nat
  <2>1. st.cancelling \in 0 .. NRanks /\ st.xid \in Nat
    BY SMT DEF Mgr, MgrEntry
  <2>2. st.cancelling # NRanks
    BY DEF cancel_thread_act
  <2> HIDE DEF st
  <2> QED
    BY <2>1, <2>2, NRanksAssumption, SMT DEF Ranks
<1>2. ltab' \in Ltab
  <2>1. ltab' = ltab \/ ltab' = [ltab EXCEPT ![r][l].pth_state = "CANCELED"]
    BY DEF cancel_thread_act
  <2>2. "CANCELED" \in LT
    BY SMT DEF LT, FinalStates
  <2> HIDE DEF l
  <2>3. [ltab EXCEPT ![r][l].pth_state = "CANCELED"] \in Ltab
    BY <2>2, LtabStateUpdate, ZenonT(30)
  <2> QED
    BY <2>1, <2>3, SMT
<1>3. net' \in Net
  <2>1. net' = dtq_send_enqueue(net, r, st.cancelling,
                   message("CANCELED", st.xid, NoThread, "OK", NoData))
    BY DEF cancel_thread_act
  <2> HIDE DEF st
  <2> QED
    BY <1>1, <2>1, ReplyType, NoThreadType, RetType
       DEF Replies, Errors
<1>4. mgrstate' \in Mgr
  <2>1. mgrstate' = [mgrstate EXCEPT ![r].cancelling = NRanks, ![r].xid = 0,
                                     ![r].thread = NoThread]
    BY DEF cancel_thread_act
  <2>2. NRanks \in 0 .. NRanks
    BY NRanksAssumption, SMT
  <2> QED
    BY <2>1, <2>2, MgrCancelUpdate, NoThreadType, ZenonT(30)
<1> QED
  BY <1>2, <1>3, <1>4
     DEF TypeOK, cancel_thread_act, history, Net, Mgr, Ltab

\* Passing a reply to the thread that waits for it keeps the types.
LEMMA ProcessReplyType ==
    ASSUME TypeOK, NEW s \in Ranks, NEW r \in Ranks, process_reply(s, r)
    PROVE  TypeOK'
<1> DEFINE m == Head(net[s][r])
           op == RequestOf(m.op)
           found == find_pending_msgreq(r, op, m.xid)
<1>0. /\ m.thread \in Handle /\ m.ret \in Ret /\ m.op \in Replies
      /\ Received(s, r) \in Net
  BY TakenMessage DEF process_reply
<1>1. op \in Requests
  <2> HIDE DEF m
  <2> QED
    BY <1>0, SMTT(30) DEF RequestOf, Replies, Requests
<1>2. found \in SUBSET Pending
  BY DEF TypeOK, find_pending_msgreq
<1>3. net' \in Net
  BY <1>0 DEF process_reply
<1>4. rpending' \in Rpending
  <2>1. rpending' = [rpending EXCEPT ![r] = @ \ found]
    BY DEF process_reply
  <2>2. rpending \in Rpending
    BY DEF TypeOK, Rpending
  <2> HIDE DEF found
  <2> QED
    BY <2>1, <2>2, PendingUpdate
<1>5. app' \in App
  <2> DEFINE row == [l \in Slots |->
                        IF \E p \in found : p.lidx = l
                        THEN [app[r][l] EXCEPT !.pc = "done"] ELSE app[r][l]]
  <2>1. app' = [app EXCEPT ![r] = row]
    BY DEF process_reply
  <2> app \in App
    BY DEF TypeOK, App
  <2>3. \A e \in AppEntry : [e EXCEPT !.pc = "done"] \in AppEntry
    BY SMT DEF AppEntry
  <2>4. \A l \in Slots : app[r][l] \in AppEntry
    BY SMT DEF App
  <2> HIDE DEF found
  <2>5. row \in [Slots -> AppEntry]
    BY <2>3, <2>4, SMT
  <2> HIDE DEF row
  <2> QED
    BY <2>1, <2>5, SMT DEF App
<1>6. known' \subseteq Handle
  <2>1. known' \subseteq known \cup {m.thread}
    BY DEF process_reply
  <2> HIDE DEF m
  <2> QED
    BY <1>0, <2>1 DEF TypeOK
<1>7. results' \subseteq [op : Requests, thread : Handle, ret : Ret]
  <2>1. results' \subseteq results \cup
            {[op |-> op, thread |-> p.thread, ret |-> m.ret] : p \in found}
    BY DEF process_reply
  <2>2. \A p \in found : p.thread \in Handle
    BY <1>2 DEF Pending
  <2>3. results \subseteq [op : Requests, thread : Handle, ret : Ret]
    BY DEF TypeOK
  <2> HIDE DEF m, op, found
  <2>4. \A p \in found : [op |-> op, thread |-> p.thread, ret |-> m.ret]
                            \in [op : Requests, thread : Handle, ret : Ret]
    BY <1>0, <1>1, <2>2
  <2> QED
    BY <2>1, <2>3, <2>4, ZenonT(30)
<1>8. UNCHANGED <<gtab, ltab, mgrreqq, mgrstate, mgr0, seqsrc, calls, joinok,
                  asked, detattr>>
  BY DEF process_reply
<1> QED
  BY <1>3, <1>4, <1>5, <1>6, <1>7, <1>8 DEF TypeOK, Net, Rpending, App

\* The handler of BCASTSHUTDOWN keeps the types.
LEMMA BcastType ==
    ASSUME TypeOK, NEW s \in Ranks, NEW r \in Ranks, process_bcastshutdown(s, r)
    PROVE  TypeOK'
<1>1. Received(s, r) \in Net
  BY TakenMessage DEF process_bcastshutdown
<1>2. net' \in Net /\ mgrstate' \in [Ranks -> MgrEntry]
  BY <1>1, BroadcastType, SMT DEF process_bcastshutdown
<1> QED
  BY <1>2 DEF TypeOK, process_bcastshutdown, history, Net

\* process_mqe keeps the types.
LEMMA MgrMessageType ==
    ASSUME TypeOK, NEW s \in Ranks, NEW r \in Ranks, MgrMessage(s, r)
    PROVE  TypeOK'
BY CreateType, StartType, StartedType, DetachType, JoinType, TerminatedType,
   CancelType, ProcessReplyType, BcastType DEF MgrMessage

\* Every step keeps the types.
LEMMA StepType ==
    ASSUME TypeOK, [Next]_vars
    PROVE  TypeOK'
<1>1. CASE Next
  BY <1>1, AppChoiceType, AppStepType, MgrRequestType, CancelActType,
     MgrOwnType, MgrMessageType DEF Next
<1>2. CASE UNCHANGED vars
  BY <1>2 DEF TypeOK, vars, history
<1> QED
  BY <1>1, <1>2, SMT

\* Every state the managers and application threads reach is well typed: every
\* index that the handlers of dt_mgrthread.c store lies inside its table, and
\* every message and pending request has the fields that its handler reads.
THEOREM TypeCorrect == Spec => []TypeOK
BY InitType, StepType, PTL DEF Spec

-----------------------------------------------------------------------------
(* Handles are used once *)

\* At the start app0 is the only thread there is.
LEMMA HandleInit == Init => HandleInv
<1> SUFFICES ASSUME Init PROVE HandleInv
  BY SMT
<1>0. seqsrc[0] = 2 * NRanks
  BY ZeroInRange, SMT DEF Init
<1>1. \A g \in Slots : gtab[g].seq < seqsrc[0] /\ (gtab[g].allocated => gtab[g].seq # 0)
  <2> TAKE g \in Slots
  <2>1. gtab[g].seq = IF g = 0 THEN App0Seq ELSE 0
    BY SMT DEF Init
  <2>2. gtab[g].allocated => g = 0
    BY DEF Init
  <2>3. App0Seq # 0 /\ App0Seq < seqsrc[0] /\ 0 < seqsrc[0]
    BY <1>0, NRanksAssumption, SMT DEF App0Seq
  <2> QED
    BY <2>1, <2>2, <2>3, SMT
<1>2. \A r \in Ranks, l \in Slots : ltab[r][l].seq < seqsrc[0]
  BY <1>0, NRanksAssumption, SMT DEF Init, App0Seq
<1>3. \A r \in Ranks, l \in Slots : app[r][l].thread.seq < seqsrc[0]
  <2>1. \A r \in Ranks, l \in Slots : app[r][l].thread = NoThread
    BY DEF Init, NoApp
  <2>2. NoThread.seq = 0
    BY SMT DEF NoThread
  <2> QED
    BY <1>0, <2>1, <2>2, NRanksAssumption, SMT
<1>4. NetOld(net, seqsrc[0])
  BY SMT DEF Init, NetOld
<1>5. \A h \in known : h.seq < seqsrc[0]
  BY <1>0, NRanksAssumption, SMT DEF Init, App0, App0Seq
<1>6. (\A r \in Ranks : rpending[r] = {}) /\ joinok = {}
  BY SMT DEF Init
<1> QED
  BY <1>1, <1>2, <1>3, <1>4, <1>5, <1>6, ZeroInRange
     DEF HandleInv, SeqsOld, JoinedGone, JoinOnce

-----------------------------------------------------------------------------
(* Calls: the request block, the request queue and the pending requests *)

\* At first no thread waits and nothing is pending.
LEMMA CallInit == Init => CallInv
<1> SUFFICES ASSUME Init PROVE CallInv
  BY SMT
<1>1. \A r \in Ranks : mgrreqq[r] = <<>> /\ rpending[r] = {}
  BY SMT DEF Init
<1>2. \A r \in Ranks, l \in Slots : BlockOK(app[r][l])
  BY BlankBlocks DEF Init
<1> QED
  BY <1>1, <1>2, SMT DEF CallInv, RequestBlocks, QueuedOnce, PendingOnce, BlockOK

-----------------------------------------------------------------------------
(* Counting the entries of ltab *)

Used(r) == {l \in Slots : InUse(r, l)}

\* One entry of rank r is filled, given back or left free, and counted so.
EntryCounted(r, l) ==
    /\ \A q \in Ranks : q # r => mgrstate'[q].ltab_alloc = mgrstate[q].ltab_alloc
    /\ \A q \in Ranks, k \in Slots :
          ~(q = r /\ k = l) => (InUse(q, k)' <=> InUse(q, k))
    /\ \/ /\ ~InUse(r, l) /\ InUse(r, l)'
          /\ mgrstate'[r].ltab_alloc = mgrstate[r].ltab_alloc + 1
       \/ /\ InUse(r, l) /\ ~InUse(r, l)'
          /\ mgrstate'[r].ltab_alloc = mgrstate[r].ltab_alloc - 1
       \/ /\ ~InUse(r, l) /\ ~InUse(r, l)'
          /\ mgrstate'[r].ltab_alloc = mgrstate[r].ltab_alloc

\* The fields of a manager's state when an entry is counted.
LEMMA CountFields ==
    ASSUME TypeOK, NEW r \in Ranks, NEW l, NEW v,
           \/ mgrstate' = [mgrstate EXCEPT ![r].ltab_alloc = v, ![r].ltab_lastslot = l]
           \/ mgrstate' = [mgrstate EXCEPT ![r].ltab_alloc = v]
           \/ /\ mgrstate' = [mgrstate EXCEPT ![r].ltab_lastslot = l]
              /\ v = mgrstate[r].ltab_alloc
    PROVE  /\ mgrstate'[r].ltab_alloc = v
           /\ \A q \in Ranks : q # r => mgrstate'[q].ltab_alloc = mgrstate[q].ltab_alloc
<1>1. mgrstate \in [Ranks -> MgrEntry]
  BY DEF TypeOK
<1>2. PICK e : /\ mgrstate' = [mgrstate EXCEPT ![r] = e]
               /\ \/ e = [mgrstate[r] EXCEPT !.ltab_alloc = v, !.ltab_lastslot = l]
                  \/ e = [mgrstate[r] EXCEPT !.ltab_alloc = v]
                  \/ /\ e = [mgrstate[r] EXCEPT !.ltab_lastslot = l]
                     /\ v = mgrstate[r].ltab_alloc
  BY <1>1
<1>3. e.ltab_alloc = v
  BY <1>1, <1>2 DEF MgrEntry
<1> QED
  BY <1>1, <1>2, <1>3

\* start_thread counts the entry it fills.
LEMMA StartCounted ==
    ASSUME TypeOK, FreeEntries, NEW s \in Ranks, NEW r \in Ranks, start_thread(s, r)
    PROVE  \E l \in Slots : EntryCounted(r, l)
<1>a. ltab \in Ltab
  BY DEF TypeOK, Ltab
<1>h. PICK h : h = Head(net[s][r]).thread
  OBVIOUS
<1>0. PICK l \in ltab_alloc(r) :
        \/ /\ ltab' = [ltab EXCEPT ![r][l] =
                          [gtab_idx |-> h.idx, seq |-> h.seq, pth_state |-> "STARTING"]]
           /\ mgrstate' = [mgrstate EXCEPT ![r].ltab_alloc = @ + 1, ![r].ltab_lastslot = l]
        \/ /\ ltab' = [ltab EXCEPT ![r][l] =
                          [gtab_idx |-> h.idx, seq |-> 0, pth_state |-> "NONE"]]
           /\ mgrstate' = [mgrstate EXCEPT ![r].ltab_lastslot = l]
  BY <1>h, ZenonT(60) DEF start_thread
<1>1. PICK e :
        \/ /\ e.pth_state = "STARTING" /\ ltab' = [ltab EXCEPT ![r][l] = e]
           /\ mgrstate' = [mgrstate EXCEPT ![r].ltab_alloc = mgrstate[r].ltab_alloc + 1,
                                           ![r].ltab_lastslot = l]
        \/ /\ e.pth_state = "NONE" /\ ltab' = [ltab EXCEPT ![r][l] = e]
           /\ mgrstate' = [mgrstate EXCEPT ![r].ltab_lastslot = l]
  <2>1. /\ [gtab_idx |-> h.idx, seq |-> h.seq, pth_state |-> "STARTING"].pth_state = "STARTING"
        /\ [gtab_idx |-> h.idx, seq |-> 0, pth_state |-> "NONE"].pth_state = "NONE"
    OBVIOUS
  <2> QED
    BY <1>0, <2>1, ZenonT(30)
<1>2. l \in Slots /\ ~InUse(r, l)
  BY DEF FreeEntries
<1>3. /\ ltab'[r][l] = e
      /\ \A q \in Ranks, k \in Slots : ~(q = r /\ k = l) => ltab'[q][k] = ltab[q][k]
  BY <1>a, <1>1, <1>2, SMT DEF Ltab
<1>4. \A q \in Ranks, k \in Slots : ~(q = r /\ k = l) => (InUse(q, k)' <=> InUse(q, k))
  BY <1>3 DEF InUse
<1>5. CASE /\ e.pth_state = "STARTING"
           /\ mgrstate' = [mgrstate EXCEPT ![r].ltab_alloc = mgrstate[r].ltab_alloc + 1,
                                           ![r].ltab_lastslot = l]
  <2>1. InUse(r, l)'
    BY <1>3, <1>5 DEF InUse
  <2>2. /\ mgrstate'[r].ltab_alloc = mgrstate[r].ltab_alloc + 1
        /\ \A q \in Ranks : q # r => mgrstate'[q].ltab_alloc = mgrstate[q].ltab_alloc
    BY <1>5, CountFields
  <2> QED
    BY <1>2, <1>4, <2>1, <2>2 DEF EntryCounted
<1>6. CASE /\ e.pth_state = "NONE"
           /\ mgrstate' = [mgrstate EXCEPT ![r].ltab_lastslot = l]
  <2>1. ~InUse(r, l)'
    BY <1>3, <1>6 DEF InUse
  <2>2. /\ mgrstate'[r].ltab_alloc = mgrstate[r].ltab_alloc
        /\ \A q \in Ranks : q # r => mgrstate'[q].ltab_alloc = mgrstate[q].ltab_alloc
    BY <1>6, CountFields
  <2> QED
    BY <1>2, <1>4, <2>1, <2>2 DEF EntryCounted
<1> QED
  BY <1>1, <1>2, <1>5, <1>6

\* process_req_retclean counts the entry it gives back.
LEMMA RetcleanCounted ==
    ASSUME TypeOK, LifeInv, NEW r \in Ranks, process_req_retclean(r),
           Head(mgrreqq[r]) \in Slots, Lives(r, Head(mgrreqq[r]))
    PROVE  \E l \in Slots : EntryCounted(r, l)
<1>a. ltab \in Ltab
  BY DEF TypeOK, Ltab
<1>l. PICK l : l = Head(mgrreqq[r])
  OBVIOUS
<1>1. /\ ltab' = [ltab EXCEPT ![r][l].pth_state = "NONE", ![r][l].seq = 0]
      /\ mgrstate' = [mgrstate EXCEPT ![r].ltab_alloc = mgrstate[r].ltab_alloc - 1]
  BY <1>l, ZenonT(30) DEF process_req_retclean
<1>2. l \in Slots /\ Lives(r, l)
  BY <1>l
<1>3. InUse(r, l)
  BY <1>2, LivesInUse DEF LifeInv
<1>4. /\ ltab'[r][l].pth_state = "NONE"
      /\ \A q \in Ranks, k \in Slots : ~(q = r /\ k = l) => ltab'[q][k] = ltab[q][k]
  BY <1>a, <1>1, <1>2, SMT DEF Ltab, LtabEntry
<1>5. /\ ~InUse(r, l)'
      /\ \A q \in Ranks, k \in Slots : ~(q = r /\ k = l) => (InUse(q, k)' <=> InUse(q, k))
  BY <1>4 DEF InUse
<1>6. /\ mgrstate'[r].ltab_alloc = mgrstate[r].ltab_alloc - 1
      /\ \A q \in Ranks : q # r => mgrstate'[q].ltab_alloc = mgrstate[q].ltab_alloc
  BY <1>1, CountFields
<1> QED
  BY <1>2, <1>3, <1>5, <1>6 DEF EntryCounted

-----------------------------------------------------------------------------
(* The threads at first *)

\* The first thread owns its entries when it is the only one.
LEMMA OnlyLive ==
    ASSUME 0 \in Slots, Unended(HandleOf(0, 0)), app[0][0].pc = "run",
           \A r \in Ranks, l \in Slots : Lives(r, l) <=> r = 0 /\ l = 0,
           gtab[0].rank = 0, gtab[0].has_ltab, gtab[0].ltab_idx = 0,
           ltab[0][0].gtab_idx = 0, ltab[0][0].pth_state = "RUNNING"
    PROVE  LiveInv
BY SMTT(20) DEF LiveInv, Running

\* In the beginning app0 runs on rank 0, and nothing is under way.
LEMMA LifeInit ==
    ASSUME Init, Cardinality({}) = 0, Cardinality({0}) = 1
    PROVE  LifeInv
<1>0. 0 \in Ranks /\ 0 \in Slots /\ NRanks \in Nat /\ NRanks # 0
  BY ZeroInRange, NRanksAssumption
<1>1. /\ \A g \in Slots : /\ gtab[g].allocated <=> g = 0
                          /\ gtab[g].rank = 0 /\ ~gtab[g].detached
                          /\ gtab[g].seq = (IF g = 0 THEN NRanks ELSE 0)
                          /\ gtab[g].terminated = "NONE" /\ gtab[g].has_ltab <=> g = 0
                          /\ gtab[g].ltab_idx = 0
  BY DEF Init, App0Seq
<1>2. /\ \A r \in Ranks, l \in Slots : InUse(r, l) <=> r = 0 /\ l = 0
      /\ ltab[0][0].gtab_idx = 0 /\ ltab[0][0].seq = NRanks
      /\ ltab[0][0].pth_state = "RUNNING"
  BY <1>0 DEF Init, App0Seq, InUse
<1>3. /\ \A r \in Ranks, l \in Slots : Lives(r, l) <=> r = 0 /\ l = 0
      /\ app[0][0].pc = "run"
      /\ \A r \in Ranks, l \in Slots : app[r][l].thread = NoThread
  <2>1. PICK e : e = [NoApp EXCEPT !.pc = "run"]
    OBVIOUS
  <2>2. \A r \in Ranks, l \in Slots : app[r][l] = IF r = 0 /\ l = 0 THEN e ELSE NoApp
    BY <2>1 DEF Init
  <2>3. e.pc = "run" /\ e.thread = NoThread /\ NoApp.pc = "none" /\ NoApp.thread = NoThread
    BY <2>1, BlankBlocks
  <2> QED
    BY <1>0, <2>2, <2>3 DEF Lives
<1>4. /\ \A s, d \in Ranks : net[s][d] = <<>>
      /\ \A r \in Ranks : rpending[r] = {}
  BY DEF Init
<1>5. \A r \in Ranks : mgrstate[r].ltab_alloc = IF r = 0 THEN 1 ELSE 0
  BY DEF Init
<1>6. SlotInv
  BY <1>0, <1>1, SMT DEF SlotInv
<1>7. LiveInv
  <2>1. Unended(HandleOf(0, 0))
    BY <1>0, <1>1, <1>2 DEF Unended, HandleOf, dthread_dt2gtab
  <2> QED
    BY <1>0, <1>1, <1>2, <1>3, <2>1, OnlyLive
<1>8. LtabCounted
  <2>1. Used(0) = {0}
    BY <1>0, <1>2 DEF Used
  <2>2. \A r \in Ranks : r # 0 => Used(r) = {}
    BY <1>2 DEF Used
  <2> QED
    BY <1>5, <2>1, <2>2 DEF LtabCounted, Used
<1>9. \A s, d \in Ranks : 1 .. Len(net[s][d]) = {}
  BY <1>4, SMT
<1>10. StartInv /\ TransitInv /\ OnePlace /\ StartedFirst /\ JoinWaitHasFuture
  BY <1>0, <1>4, <1>9, ZenonT(60) DEF StartInv, TransitInv, OnePlace, StartedFirst, JoinWaitHasFuture
<1>11. KnownInv
  <2>1. \A g \in Slots : ~gtab[g].detached
    BY <1>1
  <2> QED
    BY <1>0, <1>3, <1>4, <1>9, <2>1 DEF KnownInv
<1> QED
  BY <1>6, <1>7, <1>8, <1>10, <1>11 DEF LifeInv
=============================================================================
