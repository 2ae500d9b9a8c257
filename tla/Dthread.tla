------------------------------ MODULE Dthread -------------------------------
(***************************************************************************)
(* The life of dthreads across the ranks of an MPI job: creation, running, *)
(* join, detach, cancel, termination and the shutdown of the job           *)
(* (dt_mgrthread.c, dt_threadops.c, dt_ops.c).                             *)
(*                                                                         *)
(* Every rank runs a manager; application threads ask their own manager,   *)
(* which forwards the request to a peer manager (rank 0 for all but        *)
(* CANCEL) and keeps it pending until the reply.  Rank 0's manager owns    *)
(* the global thread table gtab, which lies in memory all ranks share.     *)
(*                                                                         *)
(* net[s][d] is the FIFO path from manager s to manager d: s's mpisendq,   *)
(* MPI, and s's entries in d's mpirecvq (loopback when s = d).  MPI keeps  *)
(* order per pair of ranks; the order between senders is left open.        *)
(***************************************************************************)
EXTENDS DtRouter, Sequences, FiniteSets

CONSTANTS
    NRanks,       \* mpi_wsize
    NMaxThread,   \* nmaxthread, the size of gtab[] and of every ltab[]
    MaxCalls,     \* bound on the number of API calls the application makes
    ApiCalls,     \* the API calls it makes
    DetachAttrs,  \* which detach-state attributes CREATE uses (TRUE: detached)
    Faults        \* which library calls may fail

ASSUME NRanksAssumption == NRanks \in Nat \ {0}
ASSUME NMaxThreadAssumption == NMaxThread \in Nat \ {0}
ASSUME MaxCallsAssumption == MaxCalls \in Nat
ASSUME ApiCallsAssumption ==
    ApiCalls \subseteq {"CREATE", "DETACH", "CANCEL", "JOIN"}
ASSUME DetachAttrsAssumption == DetachAttrs \subseteq BOOLEAN
ASSUME FaultsAssumption ==
    Faults \subseteq {"pthread_create", "req_alloc", "decode", "encode"}

Ranks == 0 .. NRanks - 1
Slots == 0 .. NMaxThread - 1

\* pth_state / gtab terminated values and API results
FinalStates == {"EXITED", "RETURNED", "CANCELED", "CLEANUP"}
LT == {"NONE", "STARTING", "RUNNING"} \cup FinalStates
\* Mutant: the zero value counts as final.
need_finalstate_nonzero(s) == s \in {"STARTING", "RUNNING"}

LT_NEED_FINALSTATE(s) == s \in {"NONE", "STARTING", "RUNNING"}
Errors == {"OK", "EINVAL", "EAGAIN", "ENOMEM", "ESRCH", "EIO"}

Requests == {"CREATE", "DETACH", "CANCEL", "JOIN"}
Replies == {"CREATED", "DETACHED", "CANCELED", "JOINED"}
\* The request a reply answers, as process_mqe passes it to find_pending_msgreq.
RequestOf(op) == CASE op = "CREATED"  -> "CREATE"
                   [] op = "DETACHED" -> "DETACH"
                   [] op = "CANCELED" -> "CANCEL"
                   [] op = "JOINED"   -> "JOIN"

\* A thread handle (dthread_t), and the invalid one.
Handle == [idx : Nat, seq : Nat]
NoThread == [idx |-> NMaxThread + 1, seq |-> 0]

\* What a thread leaves for its joiner: "DATA" carries the seq of the thread
\* that produced it, so that a mixed-up value can be told from the right one.
Ret == {"NODATA", "CANCELED", "DATA"} \X Nat
NoData == <<"NODATA", 0>>
Canceled == <<"CANCELED", 0>>

\* One shape for all messages: errstatus is for replies, finalstate for
\* TERMINATED and attr, the detach-state attribute, for CREATE.
Msg == [op : Requests \cup Replies \cup
              {"START", "STARTED", "TERMINATED", "BCASTSHUTDOWN"},
        xid : Nat, thread : Handle, errstatus : Errors, ret : Ret,
        finalstate : LT, attr : BOOLEAN]
message(op, xid, thread, errstatus, ret) ==
    [op |-> op, xid |-> xid, thread |-> thread, errstatus |-> errstatus,
     ret |-> ret, finalstate |-> "NONE", attr |-> FALSE]

VARIABLES
    gtab,      \* the global thread table, in shared memory
    ltab,      \* each rank's local thread table
    app,       \* each ltab entry's pthread and its request block
    mgrreqq,   \* each rank's queue of requests from its app threads
    net,       \* messages between managers
    rpending,  \* each manager's pending requests
    mgrstate,  \* each manager's own state
    mgr0,      \* the fields of mgrstate that only rank 0 uses
    seqsrc,    \* each rank's source of sequence numbers
    calls,     \* API calls made so far
    known,     \* handles the application has seen
    joinok,    \* history: successful JOINED answers built by manager 0
    results,   \* history: successful CANCEL and JOIN calls, as callers saw them
    asked,     \* history: handles some thread passed to dthread_cancel()
    detattr    \* history: handles created with PTHREAD_CREATE_DETACHED

history == <<joinok, results, asked, detattr>>
vars == <<gtab, ltab, app, mgrreqq, net, rpending, mgrstate, mgr0, seqsrc,
          calls, known, history>>

-----------------------------------------------------------------------------
(* State and helpers *)

GtabEntry == [allocated : BOOLEAN, rank : Ranks, seq : Nat, detached : BOOLEAN,
              terminated : LT, has_ltab : BOOLEAN, ltab_idx : Slots, ret : Ret]
LtabEntry == [gtab_idx : Slots, seq : Nat, pth_state : LT]

\* Where a pthread is: "wrap" in dthreadwrap before LT_RUNNING; "run" in the
\* application, cancel enabled; "busy" and "done" inside an API call (reqstate
\* BUSY, DONE); "exit" and "return" leaving with its value set and cancel
\* disabled; "clean" after its last request.
AppEntry == [pc : {"none", "wrap", "run", "busy", "done", "exit", "return",
                   "clean"},
             op : Requests \cup {"NONE", "RETCLEAN", "APP0_RET"},
             thread : Handle, peer : Ranks, attr : BOOLEAN]
NoApp == [pc |-> "none", op |-> "NONE", thread |-> NoThread, peer |-> 0,
          attr |-> FALSE]

\* A pending request.  For an app thread's request, lidx is its ltab slot; for
\* manager 0's internal START and JOINWAIT, lidx is NMaxThread, thread is
\* c_thread or waitthread, peer and cxid say whom to answer.
Pending == [op : Requests \cup {"START", "JOINWAIT"}, xid : Nat, cxid : Nat,
            lidx : 0 .. NMaxThread, thread : Handle, peer : Ranks]
pending(op, xid, cxid, lidx, thread, peer) ==
    [op |-> op, xid |-> xid, cxid |-> cxid, lidx |-> lidx, thread |-> thread,
     peer |-> peer]

\* cancelling is the peer whose CANCEL the manager is working on, or NRanks;
\* xid and thread are then that message's.
MgrEntry == [phase : {"run", "drain", "exit"}, ltab_alloc : Int,
             ltab_lastslot : Slots, cancelling : 0 .. NRanks, xid : Nat,
             thread : Handle]

Mgr0 == [threads_alloc : Int, threads_starting : Int, threads_running : Int,
         last_slot : Slots, next_rank : Ranks]

\* Type invariant.  Slots, ranks and local indices stay within the tables they
\* index, and messages and pending requests have the fields handlers read.
TypeOK ==
    /\ gtab \in [Slots -> GtabEntry]
    /\ ltab \in [Ranks -> [Slots -> LtabEntry]]
    /\ app \in [Ranks -> [Slots -> AppEntry]]
    /\ mgrreqq \in [Ranks -> Seq(Slots)]
    /\ net \in [Ranks -> [Ranks -> Seq(Msg)]]
    /\ rpending \in [Ranks -> SUBSET Pending]
    /\ mgrstate \in [Ranks -> MgrEntry]
    /\ mgr0 \in Mgr0
    /\ seqsrc \in [Ranks -> Nat]
    /\ calls \in 0 .. MaxCalls
    /\ known \subseteq Handle
    /\ joinok \subseteq [thread : Handle, xid : Nat]
    /\ results \subseteq [op : Requests, thread : Handle, ret : Ret]
    /\ asked \subseteq Handle
    /\ detattr \subseteq Handle

\* Only the first seq of rank 0 names the main application thread.
App0Seq == NRanks
App0 == [idx |-> 0, seq |-> App0Seq]

\* dthread_run and mgr_startapp: only app0 exists, in slot 0 of both tables.
Init ==
    /\ gtab = [g \in Slots |->
          [allocated |-> g = 0, rank |-> 0, seq |-> IF g = 0 THEN App0Seq ELSE 0,
           detached |-> FALSE, terminated |-> "NONE", has_ltab |-> g = 0,
           ltab_idx |-> 0, ret |-> NoData]]
    /\ ltab = [r \in Ranks |-> [l \in Slots |->
          IF r = 0 /\ l = 0
          THEN [gtab_idx |-> 0, seq |-> App0Seq, pth_state |-> "RUNNING"]
          ELSE [gtab_idx |-> 0, seq |-> 0, pth_state |-> "NONE"]]]
    /\ app = [r \in Ranks |-> [l \in Slots |->
          IF r = 0 /\ l = 0 THEN [NoApp EXCEPT !.pc = "run"] ELSE NoApp]]
    /\ mgrreqq = [r \in Ranks |-> <<>>]
    /\ net = [s \in Ranks |-> [d \in Ranks |-> <<>>]]
    /\ rpending = [r \in Ranks |-> {}]
    /\ mgrstate = [r \in Ranks |->
          [phase |-> "run", ltab_alloc |-> IF r = 0 THEN 1 ELSE 0,
           ltab_lastslot |-> 0, cancelling |-> NRanks, xid |-> 0,
           thread |-> NoThread]]
    /\ mgr0 = [threads_alloc |-> 1, threads_starting |-> 0,
               threads_running |-> 1, last_slot |-> 0,
               next_rank |-> 1 % NRanks]
    /\ seqsrc = [r \in Ranks |-> IF r = 0 THEN 2 * NRanks ELSE r + NRanks]
    /\ calls = 0
    /\ known = {App0}
    /\ joinok = {} /\ results = {} /\ asked = {} /\ detattr = {}

\* Mutant: the generation is not compared.
dt2gtab_any_seq(h) == h.idx \in Slots /\ gtab[h.idx].allocated

\* h names an allocated gtab entry of the same generation.
dthread_dt2gtab(h) ==
    h.idx \in Slots /\ gtab[h.idx].allocated /\ gtab[h.idx].seq = h.seq

\* Slot p is the first of free met by a circular scan from last + 1.
Distance(last, p) == IF p > last THEN p - last ELSE p - last + NMaxThread
ScanFinds(free, last, p) ==
    p \in free /\ \A q \in free : Distance(last, p) <= Distance(last, q)

draining(r) == mgrstate[r].phase # "run"

\* dtq_send_enqueue from r: refused, and the message dropped, while draining.
dtq_send_enqueue(n, r, to, m) ==
    IF draining(r) THEN n ELSE [n EXCEPT ![r][to] = Append(@, m)]

\* Take the message at the head of the path from s to r.
Received(s, r) == [net EXCEPT ![s][r] = Tail(@)]

-----------------------------------------------------------------------------
(* Application threads (dt_threadops.c and the wrappers of dt_mgrthread.c) *)

Alive(r, l, at) == mgrstate[r].phase # "exit" /\ app[r][l].pc = at

\* Mutant: has_ltab is set but ltab_idx is not.
dthreadwrap_no_ltab_idx(r, l) ==
    LET g == ltab[r][l].gtab_idx IN
    /\ Alive(r, l, "wrap")
    /\ gtab' = [gtab EXCEPT ![g].has_ltab = TRUE]
    /\ ltab' = [ltab EXCEPT ![r][l].pth_state = "RUNNING"]
    /\ app' = [app EXCEPT ![r][l].pc = "run"]
    /\ known' = known \cup {[idx |-> g, seq |-> ltab[r][l].seq]}
    /\ UNCHANGED <<mgrreqq, net, rpending, mgrstate, mgr0, seqsrc, calls,
                   history>>

\* dthreadwrap hooks the thread's ltab entry to gtab and starts user code.
dthreadwrap(r, l) ==
    LET g == ltab[r][l].gtab_idx IN
    /\ Alive(r, l, "wrap")
    /\ gtab[g].seq = ltab[r][l].seq
    /\ gtab' = [gtab EXCEPT ![g].ltab_idx = l, ![g].has_ltab = TRUE]
    /\ ltab' = [ltab EXCEPT ![r][l].pth_state = "RUNNING"]
    /\ app' = [app EXCEPT ![r][l].pc = "run"]
    /\ known' = known \cup {[idx |-> g, seq |-> ltab[r][l].seq]}
    /\ UNCHANGED <<mgrreqq, net, rpending, mgrstate, mgr0, seqsrc, calls,
                   history>>

\* The thread's last request to its manager.  state is its final pth_state.
retclean_request(r, l, state) ==
    /\ ltab' = [ltab EXCEPT ![r][l].pth_state = state]
    /\ gtab' = [gtab EXCEPT ![ltab[r][l].gtab_idx].ret =
                   IF state \in {"CANCELED", "CLEANUP"} THEN Canceled ELSE @]
    /\ app' = [app EXCEPT ![r][l] = [NoApp EXCEPT !.pc = "clean",
                                                  !.op = "RETCLEAN"]]
    /\ mgrreqq' = [mgrreqq EXCEPT ![r] = Append(@, l)]
    /\ UNCHANGED <<net, rpending, mgrstate, mgr0, seqsrc, calls, known, history>>

\* The final state retclean_request settles on when it is passed final.
FinalState(r, l, final) ==
    IF LT_NEED_FINALSTATE(ltab[r][l].pth_state) THEN final
    ELSE ltab[r][l].pth_state

\* dthreadwrap cannot decode a pthread-style argument: never runs, is canceled.
dthreadwrap_decode_fails(r, l) ==
    /\ Alive(r, l, "wrap")
    /\ "decode" \in Faults
    /\ gtab[ltab[r][l].gtab_idx].seq = ltab[r][l].seq
    /\ retclean_request(r, l, FinalState(r, l, "CANCELED"))

\* A pthread_cancel() takes effect, or the application leaves by a direct
\* pthread_exit(): the cleanup routine runs without a return value.
dthreadcleanup_unwound(r, l) ==
    /\ Alive(r, l, "run")
    /\ retclean_request(r, l, FinalState(r, l, "CLEANUP"))

IsApp0(r, l) == r = 0 /\ ltab[r][l].seq = App0Seq

\* The application function returns (how = "return") or calls dthread_exit();
\* the value goes to gtab, unless a pthread-style one cannot be encoded.
\* app0's int goes to app0exitval instead.
app_leaves(r, l, how) ==
    LET lt == ltab[r][l] IN
    /\ Alive(r, l, "run")
    /\ app' = [app EXCEPT ![r][l].pc = how]
    /\ \/ /\ ~(IsApp0(r, l) /\ how = "return")
          /\ gtab' = [gtab EXCEPT ![lt.gtab_idx].ret = <<"DATA", lt.seq>>]
       \/ /\ ~IsApp0(r, l)
          /\ "encode" \in Faults
          /\ gtab' = [gtab EXCEPT ![lt.gtab_idx].ret = Canceled]
       \/ /\ IsApp0(r, l) /\ how = "return"
          /\ gtab' = gtab
    /\ UNCHANGED <<ltab, mgrreqq, net, rpending, mgrstate, mgr0, seqsrc, calls,
                   known, history>>

\* dthread_exit_common marks the thread EXITED, whatever it was, and unwinds.
dthread_exit_common(r, l) ==
    /\ Alive(r, l, "exit")
    /\ retclean_request(r, l, "EXITED")

\* dthreadcleanup of a thread that returned; a failed encode means CANCELED.
dthreadcleanup_returned(r, l) ==
    LET failed == gtab[ltab[r][l].gtab_idx].ret = Canceled IN
    /\ Alive(r, l, "return")
    /\ ~IsApp0(r, l)
    /\ retclean_request(r, l,
           FinalState(r, l, IF failed THEN "CANCELED" ELSE "RETURNED"))

\* app0wrap: when the main function returns the whole job is to shut down.
app0wrap(r, l) ==
    /\ Alive(r, l, "return")
    /\ IsApp0(r, l)
    /\ ltab' = [ltab EXCEPT ![r][l].pth_state = "RETURNED"]
    /\ app' = [app EXCEPT ![r][l] = [NoApp EXCEPT !.pc = "clean",
                                                  !.op = "APP0_RET"]]
    /\ mgrreqq' = [mgrreqq EXCEPT ![r] = Append(@, l)]
    /\ UNCHANGED <<gtab, net, rpending, mgrstate, mgr0, seqsrc, calls, known,
                   history>>

\* A running thread fills in its request block and waits for its manager.
Call(r, l, op, h, peer, attr) ==
    /\ Alive(r, l, "run")
    /\ op \in ApiCalls
    /\ calls < MaxCalls
    /\ calls' = calls + 1
    /\ app' = [app EXCEPT ![r][l] = [pc |-> "busy", op |-> op, thread |-> h,
                                     peer |-> peer, attr |-> attr]]
    /\ mgrreqq' = [mgrreqq EXCEPT ![r] = Append(@, l)]
    /\ UNCHANGED <<gtab, ltab, net, rpending, mgrstate, mgr0, seqsrc, known,
                   joinok, results, detattr>>

dthread_create(r, l, attr) ==
    /\ Call(r, l, "CREATE", NoThread, 0, attr)
    /\ UNCHANGED asked

dthread_detach(r, l, h) ==
    /\ dthread_dt2gtab(h)
    /\ Call(r, l, "DETACH", h, 0, FALSE)
    /\ UNCHANGED asked

\* The request goes to the rank that gtab says the thread is on right now.
dthread_cancel(r, l, h) ==
    /\ dthread_dt2gtab(h)
    /\ Call(r, l, "CANCEL", h, gtab[h.idx].rank, FALSE)
    /\ asked' = asked \cup {h}

\* A thread may not join itself.
dthread_join(r, l, h) ==
    /\ dthread_dt2gtab(h)
    /\ h # [idx |-> ltab[r][l].gtab_idx, seq |-> ltab[r][l].seq]
    /\ Call(r, l, "JOIN", h, 0, FALSE)
    /\ UNCHANGED asked

\* The caller wakes with reqstate DONE, takes the result, and runs on.
api_return(r, l) ==
    /\ Alive(r, l, "done")
    /\ app' = [app EXCEPT ![r][l] = [NoApp EXCEPT !.pc = "run"]]
    /\ UNCHANGED <<gtab, ltab, mgrreqq, net, rpending, mgrstate, mgr0, seqsrc,
                   calls, known, history>>

-----------------------------------------------------------------------------
(* The manager: requests of local threads (process_req) *)

\* At the top of its loop manager 0 starts a shutdown before taking a message.
ShutdownDue(r) ==
    r = 0 /\ mgr0.threads_running = 0 /\ mgrstate[0].phase = "run"

MgrIdle(r) == mgrstate[r].phase # "exit" /\ mgrstate[r].cancelling = NRanks

\* A request may be taken right after a message in the same loop iteration.
HasRequest(r, ops) ==
    MgrIdle(r) /\ mgrreqq[r] # <<>> /\ app[r][Head(mgrreqq[r])].op \in ops

\* Forward an API request to its peer; it stays pending until the reply.
\* While draining the send is refused and the caller gets EIO.
process_req_forward(r) ==
    LET l == Head(mgrreqq[r])
        a == app[r][l]
        xid == seqsrc[r]
        m == [message(a.op, xid, a.thread, "OK", NoData) EXCEPT !.attr = a.attr]
    IN
    /\ HasRequest(r, Requests)
    /\ mgrreqq' = [mgrreqq EXCEPT ![r] = Tail(@)]
    /\ seqsrc' = [seqsrc EXCEPT ![r] = @ + NRanks]
    /\ net' = dtq_send_enqueue(net, r, a.peer, m)
    /\ IF draining(r)
       THEN /\ app' = [app EXCEPT ![r][l].pc = "done"]
            /\ rpending' = rpending
       ELSE /\ app' = app
            /\ rpending' = [rpending EXCEPT ![r] = @ \cup
                               {pending(a.op, xid, 0, l, a.thread, a.peer)}]
    /\ UNCHANGED <<gtab, ltab, mgrstate, mgr0, calls, known, history>>

\* A local thread is gone: unhook its ltab entry from gtab, tell manager 0,
\* and free the ltab entry.
process_req_retclean(r) ==
    LET l == Head(mgrreqq[r])
        lt == ltab[r][l]
        gt == gtab[lt.gtab_idx]
        m == [message("TERMINATED", 0, [idx |-> lt.gtab_idx, seq |-> lt.seq],
                      "OK", NoData) EXCEPT !.finalstate = lt.pth_state]
    IN
    /\ HasRequest(r, {"RETCLEAN"})
    /\ mgrreqq' = [mgrreqq EXCEPT ![r] = Tail(@)]
    /\ gtab' = IF gt.has_ltab /\ gt.ltab_idx = l /\ gt.seq = lt.seq
               THEN [gtab EXCEPT ![lt.gtab_idx].has_ltab = FALSE] ELSE gtab
    /\ net' = dtq_send_enqueue(net, r, 0, m)
    /\ ltab' = [ltab EXCEPT ![r][l].pth_state = "NONE", ![r][l].seq = 0]
    /\ mgrstate' = [mgrstate EXCEPT ![r].ltab_alloc = @ - 1]
    /\ app' = [app EXCEPT ![r][l] = NoApp]
    /\ UNCHANGED <<rpending, mgr0, seqsrc, calls, known, history>>

\* Tell the children in the tree, then refuse all further sends.
broadcast_shutdown(n, r) ==
    /\ net' = [n EXCEPT ![r] = [d \in Ranks |->
                  IF d \in binary_router(0, NRanks, r) /\ ~draining(r)
                  THEN Append(n[r][d], message("BCASTSHUTDOWN", 0, NoThread,
                                               "OK", NoData))
                  ELSE n[r][d]]]
    /\ mgrstate' = [mgrstate EXCEPT ![r].phase = "drain"]

\* app0 returned: shut the job down, whatever still runs.
process_req_app0_ret(r) ==
    /\ HasRequest(r, {"APP0_RET"})
    /\ mgrreqq' = [mgrreqq EXCEPT ![r] = Tail(@)]
    /\ app' = [app EXCEPT ![r][Head(mgrreqq[r])] = NoApp]
    /\ broadcast_shutdown(net, r)
    /\ UNCHANGED <<gtab, ltab, rpending, mgr0, seqsrc, calls, known, history>>

\* mgr_main, top of the loop at rank 0: no application thread is left.
idle_shutdown ==
    /\ MgrIdle(0)
    /\ ShutdownDue(0)
    /\ broadcast_shutdown(net, 0)
    /\ UNCHANGED <<gtab, ltab, app, mgrreqq, rpending, mgr0, seqsrc, calls,
                   known, history>>

\* mgr_main leaves its loop once its sends have drained (they are part of net,
\* so that may be at any time); the process exits with all of its threads.
mgr_exit(r) ==
    /\ MgrIdle(r)
    /\ mgrstate[r].phase = "drain"
    /\ mgrstate' = [mgrstate EXCEPT ![r].phase = "exit"]
    /\ UNCHANGED <<gtab, ltab, app, mgrreqq, net, rpending, mgr0, seqsrc, calls,
                   known, history>>

-----------------------------------------------------------------------------
(* The manager: messages of its peers (process_mqe) *)

HasMessage(s, r, ops) ==
    MgrIdle(r) /\ ~ShutdownDue(r) /\ net[s][r] # <<>> /\ Head(net[s][r]).op \in ops

\* Mutant: the slot stays allocated.
gtab_free_keeps(entry) == [entry EXCEPT !.has_ltab = FALSE]

\* Mutant: the slot keeps the seq of the thread that had it.
gtab_free_keeps_seq(entry) ==
    [entry EXCEPT !.allocated = FALSE, !.has_ltab = FALSE]

gtab_free(entry) ==
    [entry EXCEPT !.allocated = FALSE, !.seq = 0, !.has_ltab = FALSE]

\* The entry gtab_alloc fills in; ltab_idx keeps its old value.
gtab_alloc(entry, target, seq) ==
    [entry EXCEPT !.allocated = TRUE, !.rank = target, !.seq = seq,
                  !.detached = FALSE, !.terminated = "NONE",
                  !.has_ltab = FALSE, !.ret = NoData]

\* Mutant: the caller is not told.
CreateFailedSilently(s, m, err) == net' = Received(s, 0)

CreateFailed(s, m, err) ==
    net' = dtq_send_enqueue(Received(s, 0), 0, s,
               message("CREATED", m.xid, NoThread, err, NoData))

\* Mutant: no wrap-around.
NextRankNoWrap == mgr0.next_rank + 1

NextRank == (mgr0.next_rank + 1) % NRanks
\* Mutant: the scan does not look at allocated.
AnySlot == Slots

FreeSlots == {g \in Slots : ~gtab[g].allocated}

\* create_thread when gtab is full.
create_thread_full(s) ==
    /\ HasMessage(s, 0, {"CREATE"})
    /\ mgr0.threads_alloc >= NMaxThread
    /\ CreateFailed(s, Head(net[s][0]), "EAGAIN")
    /\ UNCHANGED <<gtab, ltab, app, mgrreqq, rpending, mgrstate, mgr0, seqsrc,
                   calls, known, history>>

\* create_thread when the START request cannot be allocated.
create_thread_nomem(s) ==
    /\ HasMessage(s, 0, {"CREATE"})
    /\ mgr0.threads_alloc < NMaxThread
    /\ "req_alloc" \in Faults
    /\ mgr0' = [mgr0 EXCEPT !.next_rank = NextRank]
    /\ CreateFailed(s, Head(net[s][0]), "ENOMEM")
    /\ UNCHANGED <<gtab, ltab, app, mgrreqq, rpending, mgrstate, seqsrc, calls,
                   known, history>>

\* create_thread with gtab slot g: ask the target rank to start the thread.
\* The detach-state attribute is dropped.  While draining the slot is given
\* back at once.
create_thread_at(s, g) ==
    LET m == Head(net[s][0])
        xid == seqsrc[0] + NRanks
        target == mgr0.next_rank
        h == [idx |-> g, seq |-> seqsrc[0]]
        entry == gtab_alloc(gtab[g], target, seqsrc[0])
    IN
    IF draining(0)
    THEN /\ gtab' = [gtab EXCEPT ![g] = gtab_free(entry)]
         /\ mgr0' = [mgr0 EXCEPT !.last_slot = g, !.next_rank = NextRank]
         /\ CreateFailed(s, m, "EIO")
         /\ UNCHANGED <<rpending, detattr>>
    ELSE /\ gtab' = [gtab EXCEPT ![g] = entry]
         /\ mgr0' = [mgr0 EXCEPT !.last_slot = g, !.next_rank = NextRank,
                                 !.threads_alloc = @ + 1,
                                 !.threads_starting = @ + 1]
         /\ net' = dtq_send_enqueue(Received(s, 0), 0, target,
                       message("START", xid, h, "OK", NoData))
         /\ rpending' = [rpending EXCEPT ![0] = @ \cup
                            {pending("START", xid, m.xid, NMaxThread, h, s)}]
         /\ detattr' = IF m.attr THEN detattr \cup {h} ELSE detattr

\* create_thread: place the thread round robin and claim a gtab slot for it
\* under a fresh seq.
create_thread(s) ==
    /\ HasMessage(s, 0, {"CREATE"})
    /\ mgr0.threads_alloc < NMaxThread
    /\ seqsrc' = [seqsrc EXCEPT ![0] = @ + 2 * NRanks]
    /\ \E g \in Slots : /\ ScanFinds(FreeSlots, mgr0.last_slot, g)
                        /\ create_thread_at(s, g)
    /\ UNCHANGED <<ltab, app, mgrreqq, mgrstate, calls, known, joinok, results,
                   asked>>

\* The ltab slots ltab_alloc may take: slot 0 of an empty table, else the first
\* free one after ltab_lastslot.
ltab_alloc(r) ==
    LET free == {l \in Slots : ltab[r][l].pth_state = "NONE"} IN
    IF mgrstate[r].ltab_alloc >= NMaxThread THEN {}
    ELSE IF mgrstate[r].ltab_alloc = 0 THEN {0}
    ELSE {l \in free : ScanFinds(free, mgrstate[r].ltab_lastslot, l)}

StartValid(h) == dthread_dt2gtab(h) /\ ~gtab[h.idx].has_ltab

\* start_thread: claim an ltab entry and create the pthread, which goes on in
\* dthreadwrap; or, when pthread_create() fails, give the entry back.
start_thread(s, r) ==
    LET m == Head(net[s][r])
        Started(err) == dtq_send_enqueue(Received(s, r), r, 0,
                            message("STARTED", m.xid, NoThread, err, NoData))
    IN
    /\ HasMessage(s, r, {"START"})
    /\ StartValid(m.thread)
    /\ \E l \in ltab_alloc(r) :
        \/ /\ ltab' = [ltab EXCEPT ![r][l] =
                          [gtab_idx |-> m.thread.idx, seq |-> m.thread.seq,
                           pth_state |-> "STARTING"]]
           /\ app' = [app EXCEPT ![r][l] = [NoApp EXCEPT !.pc = "wrap"]]
           /\ mgrstate' = [mgrstate EXCEPT ![r].ltab_alloc = @ + 1,
                                           ![r].ltab_lastslot = l]
           /\ net' = Started("OK")
        \/ /\ "pthread_create" \in Faults
           /\ ltab' = [ltab EXCEPT ![r][l] =
                          [gtab_idx |-> m.thread.idx, seq |-> 0,
                           pth_state |-> "NONE"]]
           /\ mgrstate' = [mgrstate EXCEPT ![r].ltab_lastslot = l]
           /\ net' = Started("EAGAIN")
           /\ app' = app
    /\ UNCHANGED <<gtab, mgrreqq, rpending, mgr0, seqsrc, calls, known, history>>

\* Mutant: the transaction number is not compared.
find_pending_msgreq_op(r, op, xid) == {p \in rpending[r] : p.op = op}

\* The pending requests a reply answers; xids make it at most one.
find_pending_msgreq(r, op, xid) ==
    {p \in rpending[r] : p.op = op /\ p.xid = xid}

\* Mutant: a started thread is not counted as running.
StartedCountsNone(ok) ==
    [mgr0 EXCEPT !.threads_starting = @ - 1,
                 !.threads_alloc = IF ok THEN @ ELSE @ - 1]

\* The thread counts after STARTED: it runs, or gtab_free took it back.
StartedCounts(ok) ==
    [mgr0 EXCEPT !.threads_starting = @ - 1,
                 !.threads_running = IF ok THEN @ + 1 ELSE @,
                 !.threads_alloc = IF ok THEN @ ELSE @ - 1]

\* STARTED at manager 0: pass the outcome on to the caller of CREATE.
process_started(s) ==
    LET m == Head(net[s][0])
        found == find_pending_msgreq(0, "START", m.xid)
        p == CHOOSE q \in found : TRUE
        h == IF m.errstatus = "OK" THEN p.thread ELSE NoThread
    IN
    /\ HasMessage(s, 0, {"STARTED"})
    /\ rpending' = [rpending EXCEPT ![0] = @ \ found]
    /\ IF found = {}
       THEN /\ net' = Received(s, 0)
            /\ UNCHANGED <<gtab, mgr0>>
       ELSE /\ net' = dtq_send_enqueue(Received(s, 0), 0, p.peer,
                          message("CREATED", p.cxid, h, m.errstatus, NoData))
            /\ gtab' = IF m.errstatus = "OK" THEN gtab
                       ELSE [gtab EXCEPT ![p.thread.idx] = gtab_free(@)]
            /\ mgr0' = StartedCounts(m.errstatus = "OK")
    /\ UNCHANGED <<ltab, app, mgrreqq, mgrstate, seqsrc, calls, known, history>>

\* Mutant: the waiter's xidseq is compared instead of its waitthread.
joinwait_search_xid(h) ==
    {p \in rpending[0] : p.op = "JOINWAIT" /\ p.xid = h.seq}

joinwait_search(h) ==
    {p \in rpending[0] : p.op = "JOINWAIT" /\ p.thread = h}

\* Answer the waiting JOIN, if there is one.
joinwait_end_release(n, waiting, err, ret) ==
    LET p == CHOOSE q \in waiting : TRUE IN
    IF waiting = {} THEN n
    ELSE dtq_send_enqueue(n, 0, p.peer,
             message("JOINED", p.xid, NoThread, err,
                     IF err = "OK" THEN ret ELSE NoData))

\* Mutant: a waiting joiner is left alone.
detach_thread_only(s) ==
    LET m == Head(net[s][0])
        found == dthread_dt2gtab(m.thread)
        reply == message("DETACHED", m.xid, NoThread,
                         IF found THEN "OK" ELSE "ESRCH", NoData)
    IN
    /\ HasMessage(s, 0, {"DETACH"})
    /\ gtab' = IF found THEN [gtab EXCEPT ![m.thread.idx].detached = TRUE]
               ELSE gtab
    /\ net' = dtq_send_enqueue(Received(s, 0), 0, s, reply)
    /\ UNCHANGED <<ltab, app, mgrreqq, rpending, mgrstate, mgr0, seqsrc, calls,
                   known, history>>

\* detach_thread: mark the thread and turn away a waiting joiner.
detach_thread(s) ==
    LET m == Head(net[s][0])
        h == m.thread
        found == dthread_dt2gtab(h)
        waiting == IF found THEN joinwait_search(h) ELSE {}
        reply == message("DETACHED", m.xid, NoThread,
                         IF found THEN "OK" ELSE "ESRCH", NoData)
    IN
    /\ HasMessage(s, 0, {"DETACH"})
    /\ gtab' = IF found THEN [gtab EXCEPT ![h.idx].detached = TRUE] ELSE gtab
    /\ rpending' = [rpending EXCEPT ![0] = @ \ waiting]
    /\ net' = joinwait_end_release(
                  dtq_send_enqueue(Received(s, 0), 0, s, reply),
                  waiting, "EINVAL", NoData)
    /\ UNCHANGED <<ltab, app, mgrreqq, mgrstate, mgr0, seqsrc, calls, known,
                   history>>

\* join_thread: refuse, answer at once from a zombie, or wait.
join_thread(s) ==
    LET m == Head(net[s][0])
        h == m.thread
        gt == gtab[h.idx]
        Joined(err, ret) == dtq_send_enqueue(Received(s, 0), 0, s,
                                message("JOINED", m.xid, NoThread, err, ret))
    IN
    /\ HasMessage(s, 0, {"JOIN"})
    /\ \/ /\ ~dthread_dt2gtab(h)
          /\ net' = Joined("ESRCH", NoData)
          /\ UNCHANGED <<gtab, rpending, mgr0, joinok>>
       \/ /\ dthread_dt2gtab(h)
          /\ gt.detached
          /\ net' = Joined("EINVAL", NoData)
          /\ UNCHANGED <<gtab, rpending, mgr0, joinok>>
       \/ /\ dthread_dt2gtab(h)
          /\ ~gt.detached
          /\ ~LT_NEED_FINALSTATE(gt.terminated)
          /\ net' = Joined("OK", gt.ret)
          /\ gtab' = [gtab EXCEPT ![h.idx] = gtab_free(@)]
          /\ mgr0' = [mgr0 EXCEPT !.threads_alloc = @ - 1]
          /\ joinok' = joinok \cup {[thread |-> h, xid |-> m.xid]}
          /\ UNCHANGED rpending
       \/ /\ dthread_dt2gtab(h)
          /\ ~gt.detached
          /\ LT_NEED_FINALSTATE(gt.terminated)
          /\ \/ /\ joinwait_search(h) = {}
                /\ net' = Received(s, 0)
                /\ rpending' = [rpending EXCEPT ![0] = @ \cup
                       {pending("JOINWAIT", m.xid, 0, NMaxThread, h, s)}]
             \/ /\ joinwait_search(h) = {}
                /\ "req_alloc" \in Faults
                /\ net' = Joined("ENOMEM", NoData)
                /\ UNCHANGED rpending
             \/ /\ joinwait_search(h) # {}
                /\ net' = Joined("EINVAL", NoData)
                /\ UNCHANGED rpending
          /\ UNCHANGED <<gtab, mgr0, joinok>>
    /\ UNCHANGED <<ltab, app, mgrreqq, mgrstate, seqsrc, calls, known, results,
                   asked, detattr>>

\* Mutant: a detached thread becomes a zombie like any other.
terminated_thread_zombies(s) ==
    LET m == Head(net[s][0])
        h == m.thread
        gt == gtab[h.idx]
        waiting == joinwait_search(h)
        done == waiting # {}
        zombie == [gt EXCEPT !.terminated = m.finalstate, !.has_ltab = FALSE]
    IN
    /\ HasMessage(s, 0, {"TERMINATED"})
    /\ IF h.idx \in Slots /\ gt.seq = h.seq /\ m.finalstate # "RUNNING"
       THEN /\ gtab' = [gtab EXCEPT ![h.idx] = IF done THEN gtab_free(zombie)
                                                       ELSE zombie]
            /\ mgr0' = [mgr0 EXCEPT !.threads_running = @ - 1,
                            !.threads_alloc = IF done THEN @ - 1 ELSE @]
            /\ rpending' = [rpending EXCEPT ![0] = @ \ waiting]
            /\ net' = joinwait_end_release(Received(s, 0), waiting,
                          IF gt.detached THEN "EINVAL" ELSE "OK", gt.ret)
            /\ joinok' = joinok \cup
                  {[thread |-> h, xid |-> p.xid] :
                      p \in IF gt.detached THEN {} ELSE waiting}
       ELSE /\ net' = Received(s, 0)
            /\ UNCHANGED <<gtab, mgr0, rpending, joinok>>
    /\ UNCHANGED <<ltab, app, mgrreqq, mgrstate, seqsrc, calls, known, results,
                   asked, detattr>>

\* terminated_thread: the thread becomes a zombie, or its slot is freed when
\* it is detached or its joiner is waiting.  A stale message is dropped.
terminated_thread(s) ==
    LET m == Head(net[s][0])
        h == m.thread
        gt == gtab[h.idx]
        waiting == joinwait_search(h)
        done == gt.detached \/ waiting # {}
        zombie == [gt EXCEPT !.terminated = m.finalstate, !.has_ltab = FALSE]
    IN
    /\ HasMessage(s, 0, {"TERMINATED"})
    /\ IF h.idx \in Slots /\ gt.seq = h.seq /\ m.finalstate # "RUNNING"
       THEN /\ gtab' = [gtab EXCEPT ![h.idx] = IF done THEN gtab_free(zombie)
                                                       ELSE zombie]
            /\ mgr0' = [mgr0 EXCEPT !.threads_running = @ - 1,
                            !.threads_alloc = IF done THEN @ - 1 ELSE @]
            /\ rpending' = [rpending EXCEPT ![0] = @ \ waiting]
            /\ net' = joinwait_end_release(Received(s, 0), waiting,
                          IF gt.detached THEN "EINVAL" ELSE "OK", gt.ret)
            /\ joinok' = joinok \cup
                  {[thread |-> h, xid |-> p.xid] :
                      p \in IF gt.detached THEN {} ELSE waiting}
       ELSE /\ net' = Received(s, 0)
            /\ UNCHANGED <<gtab, mgr0, rpending, joinok>>
    /\ UNCHANGED <<ltab, app, mgrreqq, mgrstate, seqsrc, calls, known, results,
                   asked, detattr>>

\* cancel_thread, first part: the handle is looked up and its rank compared.
\* gtab belongs to manager 0 and may change before the second part.
cancel_thread(s, r) ==
    LET m == Head(net[s][r])
        err == IF dthread_dt2gtab(m.thread) THEN "EINVAL" ELSE "ESRCH"
    IN
    /\ HasMessage(s, r, {"CANCEL"})
    /\ IF dthread_dt2gtab(m.thread) /\ gtab[m.thread.idx].rank = r
       THEN /\ mgrstate' = [mgrstate EXCEPT ![r].cancelling = s, ![r].xid = m.xid,
                                            ![r].thread = m.thread]
            /\ net' = Received(s, r)
       ELSE /\ mgrstate' = mgrstate
            /\ net' = dtq_send_enqueue(Received(s, r), r, s,
                          message("CANCELED", m.xid, NoThread, err, NoData))
    /\ UNCHANGED <<gtab, ltab, app, mgrreqq, rpending, mgr0, seqsrc, calls,
                   known, history>>

\* cancel_thread, second part: cancel the pthread if gtab leads to a running
\* one.  The reply is success whether or not there was one.
cancel_thread_act(r) ==
    LET gt == gtab[mgrstate[r].thread.idx]
        l == gt.ltab_idx
    IN
    /\ mgrstate[r].phase # "exit"
    /\ mgrstate[r].cancelling # NRanks
    /\ ltab' = IF /\ gt.has_ltab
                  /\ ltab[r][l].seq = gt.seq
                  /\ ltab[r][l].pth_state = "RUNNING"
               THEN [ltab EXCEPT ![r][l].pth_state = "CANCELED"] ELSE ltab
    /\ net' = dtq_send_enqueue(net, r, mgrstate[r].cancelling,
                  message("CANCELED", mgrstate[r].xid, NoThread, "OK", NoData))
    /\ mgrstate' = [mgrstate EXCEPT ![r].cancelling = NRanks, ![r].xid = 0,
                                    ![r].thread = NoThread]
    /\ UNCHANGED <<gtab, app, mgrreqq, rpending, mgr0, seqsrc, calls, known,
                   history>>

\* A reply completes the pending request with its xid and wakes the caller.
process_reply(s, r) ==
    LET m == Head(net[s][r])
        op == RequestOf(m.op)
        found == find_pending_msgreq(r, op, m.xid)
        good == {p \in found : m.errstatus = "OK"}
    IN
    /\ HasMessage(s, r, Replies)
    /\ net' = Received(s, r)
    /\ rpending' = [rpending EXCEPT ![r] = @ \ found]
    /\ app' = [app EXCEPT ![r] = [l \in Slots |->
                  IF \E p \in found : p.lidx = l THEN [@[l] EXCEPT !.pc = "done"]
                                                 ELSE @[l]]]
    /\ known' = known \cup {m.thread : p \in {q \in good : op = "CREATE"}}
    /\ results' = results \cup
          {[op |-> op, thread |-> p.thread, ret |-> m.ret] :
              p \in {q \in good : op \in {"CANCEL", "JOIN"}}}
    /\ UNCHANGED <<gtab, ltab, mgrreqq, mgrstate, mgr0, seqsrc, calls, joinok,
                   asked, detattr>>

\* A shutdown comes down the tree.
process_bcastshutdown(s, r) ==
    /\ HasMessage(s, r, {"BCASTSHUTDOWN"})
    /\ broadcast_shutdown(Received(s, r), r)
    /\ UNCHANGED <<gtab, ltab, app, mgrreqq, rpending, mgr0, seqsrc, calls,
                   known, history>>

-----------------------------------------------------------------------------
(* The specification *)

\* What an application thread decides by itself.
AppChoice(r, l) ==
    \/ \E how \in {"exit", "return"} : app_leaves(r, l, how)
    \/ dthreadcleanup_unwound(r, l)
    \/ \E attr \in DetachAttrs : dthread_create(r, l, attr)
    \/ \E h \in known : \/ dthread_detach(r, l, h)
                        \/ dthread_cancel(r, l, h)
                        \/ dthread_join(r, l, h)

\* What the library's code on the application thread does next.
AppStep(r, l) ==
    \/ dthreadwrap(r, l)
    \/ dthreadwrap_decode_fails(r, l)
    \/ dthread_exit_common(r, l)
    \/ dthreadcleanup_returned(r, l)
    \/ app0wrap(r, l)
    \/ api_return(r, l)

MgrRequest(r) ==
    \/ process_req_forward(r)
    \/ process_req_retclean(r)
    \/ process_req_app0_ret(r)

MgrMessage(s, r) ==
    \/ r = 0 /\ (\/ create_thread_full(s)
                 \/ create_thread_nomem(s)
                 \/ create_thread(s)
                 \/ process_started(s)
                 \/ detach_thread(s)
                 \/ join_thread(s)
                 \/ terminated_thread(s))
    \/ start_thread(s, r)
    \/ cancel_thread(s, r)
    \/ process_reply(s, r)
    \/ process_bcastshutdown(s, r)

Next ==
    \/ \E r \in Ranks, l \in Slots : AppChoice(r, l) \/ AppStep(r, l)
    \/ \E r \in Ranks : MgrRequest(r) \/ cancel_thread_act(r) \/ mgr_exit(r)
    \/ \E s, r \in Ranks : MgrMessage(s, r)
    \/ idle_shutdown

Spec == Init /\ [][Next]_vars

\* The library's own steps go on: MPI delivers, managers loop, the wrappers
\* run.  Nothing is assumed of the application's choices.
Fairness ==
    /\ \A r \in Ranks, l \in Slots : WF_vars(AppStep(r, l))
    /\ \A r \in Ranks : /\ WF_vars(MgrRequest(r))
                        /\ WF_vars(cancel_thread_act(r))
                        /\ WF_vars(mgr_exit(r))
    /\ \A s, r \in Ranks : WF_vars(MgrMessage(s, r))
    /\ WF_vars(idle_shutdown)

FairSpec == Spec /\ Fairness

-----------------------------------------------------------------------------
(* Safety *)

\* Paths a message with one of ops is on, as <<sender, receiver, position>>.
InFlight(ops) ==
    UNION {{<<s, d, i>> : i \in {j \in 1 .. Len(net[s][d]) :
                                    net[s][d][j].op \in ops}} :
              s \in Ranks, d \in Ranks}
MsgAt(x) == net[x[1]][x[2]][x[3]]

InUse(r, l) == ltab[r][l].pth_state # "NONE"
\* The pthread of ltab entry l exists.  (process_req joins it before it sends
\* TERMINATED, and frees the ltab entry right after.)
Lives(r, l) == app[r][l].pc # "none"
HandleOf(r, l) == [idx |-> ltab[r][l].gtab_idx, seq |-> ltab[r][l].seq]

\* Every pthread's ltab entry belongs to an allocated gtab entry of its own
\* rank and generation, and no two belong to the same one: the sanity checks of
\* dthreadwrap that "should never fail" do not.
LtabGtabAgree ==
    \A r \in Ranks, l \in Slots : Lives(r, l) =>
        /\ InUse(r, l)
        /\ dthread_dt2gtab(HandleOf(r, l))
        /\ gtab[ltab[r][l].gtab_idx].rank = r
        /\ \A k \in Slots : Lives(r, k) /\ HandleOf(r, k) = HandleOf(r, l)
                               => k = l

\* The manager's counters are the numbers of entries they stand for.
CountersAgree ==
    LET running == {g \in Slots : /\ gtab[g].allocated
                                  /\ LT_NEED_FINALSTATE(gtab[g].terminated)}
        starting == {p \in rpending[0] : p.op = "START"}
    IN
    /\ mgr0.threads_alloc = Cardinality({g \in Slots : gtab[g].allocated})
    /\ mgr0.threads_starting = Cardinality(starting)
    /\ mgr0.threads_running + mgr0.threads_starting = Cardinality(running)
    /\ \A r \in Ranks :
          mgrstate[r].ltab_alloc = Cardinality({l \in Slots : InUse(r, l)})

\* When manager 0's count of running threads calls for a shutdown, no thread
\* runs on any rank and none is being created: the main loop's "should not
\* happen, we cannot have starting threads without a running thread".
IdleMeansIdle ==
    ShutdownDue(0) =>
        /\ mgr0.threads_starting = 0
        /\ InFlight({"CREATE", "START"}) = {}
        /\ \A r \in Ranks, l \in Slots : app[r][l].pc = "none"

\* A waiting join has something to wait for: its thread exists, is not
\* detached and has not terminated; and it is the only one to wait for it.
JoinWaitHasFuture ==
    \A p \in rpending[0] : p.op = "JOINWAIT" =>
        /\ dthread_dt2gtab(p.thread)
        /\ ~gtab[p.thread.idx].detached
        /\ LT_NEED_FINALSTATE(gtab[p.thread.idx].terminated)
        /\ joinwait_search(p.thread) = {p}

\* A thread is joined with success at most once, even when joins race with
\* its termination and with one another.
JoinOnce == \A a, b \in joinok : a.thread = b.thread => a = b

\* No thread's seq, wherever one is kept, is one that rank 0 has yet to give.
NetOld(n, k) ==
    \A s, d \in Ranks : \A i \in 1 .. Len(n[s][d]) : n[s][d][i].thread.seq < k
SeqsOld ==
    /\ \A g \in Slots : gtab[g].seq < seqsrc[0]
    /\ \A r \in Ranks, l \in Slots : /\ ltab[r][l].seq < seqsrc[0]
                                     /\ app[r][l].thread.seq < seqsrc[0]
    /\ NetOld(net, seqsrc[0])
    /\ \A r \in Ranks : \A p \in rpending[r] : p.thread.seq < seqsrc[0]
    /\ \A h \in known : h.seq < seqsrc[0]
    /\ \A j \in joinok : j.thread.seq < seqsrc[0]

\* A slot in use has a seq, and a joined thread's handle no longer has a slot.
JoinedGone ==
    /\ \A g \in Slots : gtab[g].allocated => gtab[g].seq # 0
    /\ \A p \in rpending[0] : p.op = "JOINWAIT" => p.thread.seq # 0
    /\ \A p, q \in rpending[0] :
          p.op = "JOINWAIT" /\ q.op = "JOINWAIT" /\ p.thread = q.thread => p = q
    /\ \A j \in joinok : /\ j.thread.idx \in Slots /\ j.thread.seq # 0
                          /\ gtab[j.thread.idx].seq # j.thread.seq

\* Handles are used once: every seq in the system has been given out before the
\* next one is, and a handle that was joined names no slot any more.
HandleInv == SeqsOld /\ JoinedGone /\ JoinOnce

\* A successful join hands its caller the value that very thread left, or
\* DTHREAD_CANCELED, although by then the slot may belong to another thread.
JoinValue ==
    \A x \in results : x.op = "JOIN" =>
        x.ret = Canceled \/ x.ret = <<"DATA", x.thread.seq>>

\* Whatever stands for the answer to pending request p of rank r: the request
\* or its reply on the way, a CANCEL being worked on, or manager 0's START or
\* JOINWAIT entry for it.
AnswerTokens(r, p) ==
    {x \in InFlight({p.op}) : x[1] = r /\ MsgAt(x).xid = p.xid}
    \cup {x \in InFlight(Replies) : /\ x[2] = r
                                    /\ RequestOf(MsgAt(x).op) = p.op
                                    /\ MsgAt(x).xid = p.xid}
    \cup {<<d>> : d \in {d \in Ranks : /\ p.op = "CANCEL"
                                       /\ mgrstate[d].cancelling = r
                                       /\ mgrstate[d].xid = p.xid}}
    \cup {<<q.op, q.xid>> : q \in {q \in rpending[0] :
             /\ q.peer = r
             /\ \/ q.op = "START" /\ p.op = "CREATE" /\ q.cxid = p.xid
                \/ q.op = "JOINWAIT" /\ p.op = "JOIN" /\ q.xid = p.xid}}

\* Until a shutdown begins no call is lost and none is answered twice: each
\* pending request has exactly one answer under way, each reply under way has
\* a request, and each blocked thread is queued or pending, once.
OneAnswerPerCall ==
    (\A r \in Ranks : ~draining(r)) =>
        /\ \A r \in Ranks : \A p \in rpending[r] :
              p.op \in Requests => Cardinality(AnswerTokens(r, p)) = 1
        /\ \A x \in InFlight(Replies) : \E p \in rpending[x[2]] :
              p.op = RequestOf(MsgAt(x).op) /\ p.xid = MsgAt(x).xid
        /\ \A r \in Ranks, l \in Slots : app[r][l].pc = "busy" =>
              Cardinality({i \in 1 .. Len(mgrreqq[r]) : mgrreqq[r][i] = l})
              + Cardinality({p \in rpending[r] : p.lidx = l}) = 1

\* A TERMINATED under way names a slot that still is that thread's, no longer
\* tied to an ltab entry or a pthread: "we must disconnect our ltab entry from gtab before
\* we send the DTOP_TERMINATED msg".
UnhookedBeforeTerminated ==
    \A x \in InFlight({"TERMINATED"}) :
        LET h == MsgAt(x).thread IN
        /\ dthread_dt2gtab(h)
        /\ ~gtab[h.idx].has_ltab
        /\ \A r \in Ranks, l \in Slots : ~(Lives(r, l) /\ HandleOf(r, l) = h)


\* A shutdown notice comes to each rank at most once.
ShutdownOnce ==
    \A r \in Ranks :
        Cardinality({x \in InFlight({"BCASTSHUTDOWN"}) : x[2] = r})
        + (IF draining(r) THEN 1 ELSE 0) <= 1

-----------------------------------------------------------------------------
(* What a step may never do *)

\* A handle that has become invalid stays so: sequence numbers "validate that
\* a data structure has not been freed and reused".
NoHandleRevived ==
    [][\A h \in known : ~dthread_dt2gtab(h) => ~dthread_dt2gtab(h)']_vars

\* gtab_free is only applied to a thread whose pthread is gone: "caller should
\* ensure that the thread is no longer running".
FreeOnlyDead ==
    [][\A g \in Slots : gtab[g].allocated /\ ~gtab'[g].allocated =>
          \A r \in Ranks, l \in Slots :
              ~(Lives(r, l) /\ ltab[r][l].gtab_idx = g)]_vars

-----------------------------------------------------------------------------
(* Liveness *)

Busy(r, l) == app[r][l].pc = "busy"

\* The thread a JOIN waits for no longer exists, or has become a zombie.
JoinTargetGone(r, l) ==
    LET h == app[r][l].thread IN
    ~dthread_dt2gtab(h) \/ ~LT_NEED_FINALSTATE(gtab[h.idx].terminated)

\* Every create, detach and cancel call returns, and every join of a thread
\* that terminates, unless the job begins to shut down.
CallsReturn ==
    \A r \in Ranks, l \in Slots :
        (Busy(r, l) /\ (app[r][l].op = "JOIN" => JoinTargetGone(r, l)))
            ~> (~Busy(r, l) \/ draining(0))

\* When no application thread runs any more, or app0 has returned, every rank
\* leaves its main loop, through however many hops of the broadcast tree.
EveryRankExits ==
    (mgr0.threads_running = 0 \/ app[0][0].op = "APP0_RET" \/ draining(0))
        ~> (\A r \in Ranks : mgrstate[r].phase = "exit")

-----------------------------------------------------------------------------
(* What the documentation says of the program *)

\* README, dthread_detach(): "release all resources when the thread
\* terminates"; process_mqe: a zombie waits "for someone to join it (or detach
\* it) later".  So no detached thread keeps its gtab slot once terminated.
DetachedIsReleased ==
    \A g \in Slots : gtab[g].allocated /\ gtab[g].detached
                        => LT_NEED_FINALSTATE(gtab[g].terminated)

\* create_thread: "we manage detach at <mgr,0>, no need to detach underlying
\* thread".  So a thread created with the detached attribute is detached.
DetachAttrKept ==
    \A h \in detattr : dthread_dt2gtab(h) => gtab[h.idx].detached

\* README, dthread_cancel(): "kill the specified thread".  So once the call
\* has returned success the thread is not left to start or run untouched.
CancelTakesEffect ==
    \A x \in results : x.op = "CANCEL" =>
        \A r \in Ranks, l \in Slots :
            InUse(r, l) /\ HandleOf(r, l) = x.thread
                => ~LT_NEED_FINALSTATE(ltab[r][l].pth_state)
=============================================================================
