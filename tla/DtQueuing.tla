----------------------------- MODULE DtQueuing ------------------------------
(***************************************************************************)
(* One rank's threads and the queues between them (dt_queuing.c,           *)
(* dt_mpithread.c, the loop of mgr_main and the end of dthread_run).       *)
(*                                                                         *)
(* Application threads hand requests to the manager through mgrreqq and    *)
(* block; the manager sends messages through mpisendq, which the MPI       *)
(* thread empties, and receives them through mpirecvq, which the MPI       *)
(* thread and the manager itself (loopback) fill.  Messages travel in      *)
(* queue entries ("mqe") that are recycled through a free list.            *)
(*                                                                         *)
(* A function that holds dtqlock from beginning to end is one update of    *)
(* dtq.  The manager's handlers make several of them in one action: what   *)
(* they read there, only the manager changes.  broadcast_shutdown is not   *)
(* atomic, nor are the manager's test for the end of the drain and the     *)
(* wait that follows it.                                                   *)
(*                                                                         *)
(* What managers say to each other is in module Dthread.  Here a message   *)
(* is a request, its reply, a notice without reply (TERMINATED) or a       *)
(* shutdown notice.                                                        *)
(***************************************************************************)
EXTENDS DtMts, FiniteSets

CONSTANTS
    AllApps,    \* application threads
    NoApp,      \* not an application thread of this rank
    InitSlots,  \* MPIMTS_INITSZ
    Roles       \* what this rank may be, and what may happen on it

ASSUME AppsAssumption == NoApp \notin AllApps
ASSUME SlotsAssumption == InitSlots \in Nat \ {0}
ASSUME RolesAssumption ==
    \A x \in Roles :
        /\ x.Apps \subseteq AllApps        \* the application threads of this rank
        /\ x.App0 \in x.Apps \cup {NoApp}  \* the main one if this is rank 0
        /\ x.NKids \in 0 .. 2             \* its children in the broadcast tree
        /\ x.MaxCalls \in Nat             \* bound on the application's API calls
        /\ x.MaxIn \in Nat                \* bound on other ranks' requests to us
        /\ x.Faults \subseteq {"mts_init", "mts_grow", "isend", "recv", "iprobe"}

VARIABLES
    role,     \* one of Roles, for good
    dtq,      \* struct dtq_state
    frame,    \* the contents of the queue entries malloc'd so far
    app,      \* where each application thread is
    req,      \* each application thread's request block
    mgr,      \* the manager thread
    rpending, \* the threads whose requests wait for a reply
    mpit,     \* the MPI thread, with mpit_state
    mts,      \* its table of sends in progress
    mpi       \* MPI and the other ranks

vars == <<role, dtq, frame, app, req, mgr, rpending, mpit, mts, mpi>>

Apps == role.Apps
App0 == role.App0
NKids == role.NKids
MaxCalls == role.MaxCalls
MaxIn == role.MaxIn
Faults == role.Faults

\* Where rank 0's manager is, seen from here.
Mgr0 == IF App0 = NoApp THEN "net" ELSE "self"

Requesters == Apps \cup {NoApp}
Mqes == 1 .. Len(frame)

\* dtq_init has been called; the main thread is about to create the MPI thread.
Init ==
    /\ role \in Roles
    /\ dtq = [mgrreqq |-> <<>>, mpisendq |-> <<>>, mpirecvq |-> <<>>,
              mqefree |-> <<>>, mpindequeuedsends |-> 0,
              mpisq_draindown |-> "INIT", notifytimelimit |-> 0]
    /\ frame = <<>>
    /\ app = [a \in Apps |-> "none"]
    /\ req = [a \in Apps |-> [state |-> "IDLE", op |-> "NONE", mqe |-> NULL]]
    /\ mgr = [pc |-> "init", mqe |-> NULL, req |-> NoApp, kids |-> 0,
              draining |-> FALSE, running |-> Cardinality(Apps),
              joinwait |-> [a \in Requesters |-> 0]]
    /\ rpending = {}
    /\ mpit = [pc |-> "none", state |-> "INIT", mqe |-> NULL, done |-> {},
               abort |-> FALSE]
    /\ mts = mpimts_init(InitSlots)
    /\ mpi = [active |-> {}, owed |-> {}, nreqs |-> 0, ncalls |-> 0,
              shut |-> FALSE, told |-> 0]

-----------------------------------------------------------------------------
(* The queue operations, as updates of dtq. *)

\* dtq_mqe_alloc: the entry it returns, and what it leaves.
dtq_mqe_alloc(q) == IF q.mqefree = <<>> THEN Len(frame) + 1 ELSE Head(q.mqefree)
AfterAlloc(q) ==
    IF q.mqefree = <<>> THEN q ELSE [q EXCEPT !.mqefree = Tail(@)]

\* The entries once entry m has been filled with f.
Filled(m, f) ==
    [k \in 1 .. (IF m > Len(frame) THEN m ELSE Len(frame)) |->
        IF k = m THEN f ELSE frame[k]]

\* dtq_mqe_unalloc and dtq_recv_release.
dtq_recv_release(q, m) == [q EXCEPT !.mqefree = <<m>> \o @]

\* The manager's two input queues are empty: who enqueues now signals.
was_empty(q) == q.mpirecvq = <<>> /\ q.mgrreqq = <<>>

\* pthread_cond_signal(mgr_notify): only the manager waits there.
signal(cond) ==
    mgr' = IF cond /\ mgr.pc = "wait" THEN [mgr EXCEPT !.pc = "woken"] ELSE mgr

\* dtq_send_enqueue of entry m with contents f.  All callers unalloc an entry
\* that is refused because of the drain.
dtq_send_enqueue(q, m, f) ==
    IF q.mpisq_draindown # "INIT" THEN dtq_recv_release(q, m)
    ELSE IF f.peer = "self" THEN [q EXCEPT !.mpirecvq = Append(@, m)]
    ELSE [q EXCEPT !.mpisendq = Append(@, m)]

dtq_send_dequeue(q) ==
    [q EXCEPT !.mpisendq = Tail(@), !.mpindequeuedsends = @ + 1]

\* Mutant: only what is still queued keeps the drain from ending.
just_drained_queue(q) == q.mpisq_draindown # "INIT" /\ q.mpisendq = <<>>

\* dtq_send_release: no send is left, queued or dequeued.
just_drained(q) ==
    /\ q.mpisq_draindown # "INIT"
    /\ q.mpisendq = <<>> /\ q.mpindequeuedsends = 0

dtq_send_release(q, m) ==
    LET r == [q EXCEPT !.mpindequeuedsends = @ - 1, !.mqefree = <<m>> \o @]
    IN  IF just_drained(r) THEN [r EXCEPT !.mpisq_draindown = "DRAINED"] ELSE r

dtq_send_draindown(q) ==
    [q EXCEPT !.mpisq_draindown =
        IF Len(q.mpisendq) + q.mpindequeuedsends > 0 THEN "DRAINING" ELSE "DRAINED"]

-----------------------------------------------------------------------------
(* Application threads. *)

\* An API call up to dtq_req_enqueue: CREATE, DETACH and JOIN go to rank 0's
\* manager, CANCEL to any rank's.
api_call(a, peer) ==
    LET m == dtq_mqe_alloc(dtq) IN
    /\ app[a] = "run" /\ req[a].state = "IDLE"
    /\ mpi.ncalls < MaxCalls
    /\ dtq' = AfterAlloc(dtq)
    /\ frame' = Filled(m, [op |-> "REQ", app |-> a, peer |-> peer])
    /\ req' = [req EXCEPT ![a] = [state |-> "BUSY", op |-> "API", mqe |-> m]]
    /\ app' = [app EXCEPT ![a] = "call"]
    /\ mpi' = [mpi EXCEPT !.ncalls = @ + 1]
    /\ UNCHANGED <<mgr, rpending, mpit, mts>>

\* The thread returns, exits or is cancelled: retclean_request, or the end of
\* app0wrap, up to dtq_req_enqueue.
leave(a, op) ==
    /\ app[a] = "run"
    /\ op = "APP0_RET" => a = App0
    /\ req' = [req EXCEPT ![a] = [state |-> "BUSY", op |-> op, mqe |-> NULL]]
    /\ app' = [app EXCEPT ![a] = "leave"]
    /\ UNCHANGED <<dtq, frame, mgr, rpending, mpit, mts, mpi>>

\* Mutant: whether the queues were empty is looked at after the insertion.
dtq_req_enqueue_late(a) ==
    /\ app[a] \in {"call", "leave"}
    /\ dtq' = [dtq EXCEPT !.mgrreqq = Append(@, a)]
    /\ signal(was_empty(dtq'))
    /\ app' = [app EXCEPT ![a] = IF @ = "call" THEN "wait" ELSE "gone"]
    /\ UNCHANGED <<frame, req, rpending, mpit, mts, mpi>>

dtq_req_enqueue(a) ==
    /\ app[a] \in {"call", "leave"}
    /\ signal(was_empty(dtq))
    /\ dtq' = [dtq EXCEPT !.mgrreqq = Append(@, a)]
    /\ app' = [app EXCEPT ![a] = IF @ = "call" THEN "wait" ELSE "gone"]
    /\ UNCHANGED <<frame, req, rpending, mpit, mts, mpi>>

\* The blocked call sees DONE and returns.
api_return(a) ==
    /\ app[a] = "wait" /\ req[a].state # "BUSY"
    /\ req' = [req EXCEPT ![a].state = "IDLE"]
    /\ app' = [app EXCEPT ![a] = "run"]
    /\ UNCHANGED <<dtq, frame, mgr, rpending, mpit, mts, mpi>>

-----------------------------------------------------------------------------
(* The main thread, which becomes the manager. *)

\* dthread_run creates the MPI thread, holding mpit_slock until it waits.
mpit_create ==
    /\ mgr.pc = "init"
    /\ mgr' = [mgr EXCEPT !.pc = "startwait"]
    /\ mpit' = [mpit EXCEPT !.pc = "born", !.state = "START"]
    /\ UNCHANGED <<dtq, frame, app, req, rpending, mts, mpi>>

\* The MPI thread runs; mgr_main begins.  (Application threads start here: app0
\* in mgr_startapp, the others when their START messages come.)
mgr_startapp ==
    /\ mgr.pc = "startwait" /\ mpit.state # "START"
    /\ mgr' = [mgr EXCEPT !.pc = "top"]
    /\ app' = [a \in Apps |-> "run"]
    /\ UNCHANGED <<dtq, frame, req, rpending, mpit, mts, mpi>>

\* mgr_main, on rank 0 with no thread left.  Threads of other ranks are not
\* counted here: mgr_top may as well go on, as if there were some.
idle_shutdown ==
    /\ mgr.pc = "top" /\ App0 # NoApp /\ mgr.running = 0 /\ ~mgr.draining
    /\ mgr' = [mgr EXCEPT !.pc = "bcast", !.kids = NKids]
    /\ UNCHANGED <<dtq, frame, app, req, rpending, mpit, mts, mpi>>

\* mgr_main: leave the loop once all sends are complete.
mgr_top ==
    /\ mgr.pc = "top"
    /\ mgr' = [mgr EXCEPT !.pc =
           IF mgr.draining /\ dtq.mpisq_draindown = "DRAINED" THEN "stop"
           ELSE "notify"]
    /\ UNCHANGED <<dtq, frame, app, req, rpending, mpit, mts, mpi>>

\* dtq_notifywait: block if both queues are empty, else, or after the wait,
\* take the first of each.
dtq_notifywait ==
    /\ mgr.pc \in {"notify", "woken"}
    /\ IF mgr.pc = "notify" /\ was_empty(dtq)
       THEN mgr' = [mgr EXCEPT !.pc = "wait"] /\ UNCHANGED dtq
       ELSE /\ mgr' = [mgr EXCEPT !.pc = "mqe",
                 !.mqe = IF dtq.mpirecvq = <<>> THEN NULL ELSE Head(dtq.mpirecvq),
                 !.req = IF dtq.mgrreqq = <<>> THEN NoApp ELSE Head(dtq.mgrreqq)]
            /\ dtq' = [dtq EXCEPT
                 !.mpirecvq = IF @ = <<>> THEN @ ELSE Tail(@),
                 !.mgrreqq = IF @ = <<>> THEN @ ELSE Tail(@)]
    /\ UNCHANGED <<frame, app, req, rpending, mpit, mts, mpi>>

\* A condition wait ends by itself: it may always, and must when it is timed.
wakeup ==
    /\ mgr.pc = "wait"
    /\ mgr' = [mgr EXCEPT !.pc = "woken"]
    /\ UNCHANGED <<dtq, frame, app, req, rpending, mpit, mts, mpi>>

timeout == dtq.notifytimelimit # 0 /\ wakeup

\* Mutant: the last child is left out.
broadcast_shutdown_but_one ==
    LET m == dtq_mqe_alloc(dtq)
        f == [op |-> "SHUT", app |-> NoApp, peer |-> "net"]
    IN
    /\ mgr.pc = "bcast" /\ mgr.kids > 0
    /\ IF mgr.kids = 1 THEN UNCHANGED <<frame, dtq>>
       ELSE /\ frame' = Filled(m, f)
            /\ dtq' = dtq_send_enqueue(AfterAlloc(dtq), m, f)
    /\ mgr' = [mgr EXCEPT !.kids = @ - 1]
    /\ UNCHANGED <<app, req, rpending, mpit, mts, mpi>>

\* broadcast_shutdown: one notice to each child ...
broadcast_shutdown ==
    LET m == dtq_mqe_alloc(dtq)
        f == [op |-> "SHUT", app |-> NoApp, peer |-> "net"]
    IN
    /\ mgr.pc = "bcast" /\ mgr.kids > 0
    /\ frame' = Filled(m, f)
    /\ dtq' = dtq_send_enqueue(AfterAlloc(dtq), m, f)
    /\ mgr' = [mgr EXCEPT !.kids = @ - 1]
    /\ UNCHANGED <<app, req, rpending, mpit, mts, mpi>>

\* ... then the drain.  What asked for the shutdown (the notice in hand, app0's
\* request, or the loop) is released, and the manager goes on from there.
start_draindown(limit) ==
    LET q == [dtq_send_draindown(dtq) EXCEPT !.notifytimelimit = limit] IN
    /\ mgr.pc = "bcast" /\ mgr.kids = 0
    /\ dtq' = IF mgr.mqe = NULL THEN q ELSE dtq_recv_release(q, mgr.mqe)
    /\ IF mgr.mqe # NULL
       THEN /\ mgr' = [mgr EXCEPT !.draining = TRUE, !.mqe = NULL, !.pc = "req"]
            /\ UNCHANGED req
       ELSE /\ mgr' = [mgr EXCEPT !.draining = TRUE, !.req = NoApp, !.pc = "top"]
            /\ req' = IF mgr.req = NoApp THEN req
                      ELSE [req EXCEPT ![mgr.req].state = "IDLE"]
    /\ UNCHANGED <<frame, app, rpending, mpit, mts, mpi>>

\* Mutant: the manager's waits stay untimed.
draindown_untimed == start_draindown(0)

draindown == start_draindown(10)

\* process_mqe without a message.
process_mqe_none ==
    /\ mgr.pc = "mqe" /\ mgr.mqe = NULL
    /\ mgr' = [mgr EXCEPT !.pc = "req"]
    /\ UNCHANGED <<dtq, frame, app, req, rpending, mpit, mts, mpi>>

HasMqe(op) == mgr.pc = "mqe" /\ mgr.mqe # NULL /\ frame[mgr.mqe].op = op
MqeProcessed == [mgr EXCEPT !.pc = "req", !.mqe = NULL]
ReplyTo(a) == [op |-> "REPLY", app |-> a,
               peer |-> IF a = NoApp THEN "net" ELSE "self"]

\* Mutant: the recycled entry is released as well.
process_request_recycle_twice ==
    LET m == mgr.mqe
        f == ReplyTo(frame[m].app)
    IN
    /\ HasMqe("REQ")
    /\ frame' = Filled(m, f)
    /\ dtq' = dtq_recv_release(dtq_send_enqueue(dtq, m, f), m)
    /\ mgr' = MqeProcessed
    /\ UNCHANGED <<app, req, rpending, mpit, mts, mpi>>

\* detach_thread, cancel_thread, join_thread and STARTED: the message's own
\* entry is recycled for the reply.
process_request_recycle ==
    LET m == mgr.mqe
        f == ReplyTo(frame[m].app)
    IN
    /\ HasMqe("REQ")
    /\ frame' = Filled(m, f)
    /\ dtq' = dtq_send_enqueue(dtq, m, f)
    /\ mgr' = MqeProcessed
    /\ UNCHANGED <<app, req, rpending, mpit, mts, mpi>>

\* create_thread and start_thread: another entry is sent, then the message's
\* own one is released.
process_request_fresh ==
    LET m == dtq_mqe_alloc(dtq)
        f == ReplyTo(frame[mgr.mqe].app)
    IN
    /\ HasMqe("REQ")
    /\ frame' = Filled(m, f)
    /\ dtq' = dtq_recv_release(dtq_send_enqueue(AfterAlloc(dtq), m, f), mgr.mqe)
    /\ mgr' = MqeProcessed
    /\ UNCHANGED <<app, req, rpending, mpit, mts, mpi>>

\* join_thread of a running thread: the reply has to wait.
process_request_joinwait ==
    /\ HasMqe("REQ") /\ App0 # NoApp
    /\ dtq' = dtq_recv_release(dtq, mgr.mqe)
    /\ mgr' = [MqeProcessed EXCEPT !.joinwait[frame[mgr.mqe].app] = @ + 1]
    /\ UNCHANGED <<frame, app, req, rpending, mpit, mts, mpi>>

\* CREATED, DETACHED, CANCELED and JOINED: wake the thread that called.
process_reply ==
    LET a == frame[mgr.mqe].app IN
    /\ HasMqe("REPLY")
    /\ rpending' = rpending \ {a}
    /\ req' = [req EXCEPT ![a].state = IF a \in rpending THEN "DONE" ELSE @]
    /\ dtq' = dtq_recv_release(dtq, mgr.mqe)
    /\ mgr' = MqeProcessed
    /\ UNCHANGED <<frame, app, mpit, mts, mpi>>

\* 1 if the thread that TERMINATED is one of this rank's, else 0.
NoteOfOurs == IF frame[mgr.mqe].peer = "self" THEN 1 ELSE 0

\* TERMINATED, with no join waiting for the thread ...
process_terminated ==
    /\ HasMqe("NOTE")
    /\ dtq' = dtq_recv_release(dtq, mgr.mqe)
    /\ mgr' = [MqeProcessed EXCEPT !.running = @ - NoteOfOurs]
    /\ UNCHANGED <<frame, app, req, rpending, mpit, mts, mpi>>

\* ... and with one, which joinwait_end_release answers.
process_terminated_joined(a) ==
    LET m == dtq_mqe_alloc(dtq) IN
    /\ HasMqe("NOTE") /\ mgr.joinwait[a] > 0
    /\ frame' = Filled(m, ReplyTo(a))
    /\ dtq' = dtq_recv_release(dtq_send_enqueue(AfterAlloc(dtq), m, ReplyTo(a)),
                               mgr.mqe)
    /\ mgr' = [MqeProcessed EXCEPT !.running = @ - NoteOfOurs, !.joinwait[a] = @ - 1]
    /\ UNCHANGED <<app, req, rpending, mpit, mts, mpi>>

process_bcastshutdown ==
    /\ HasMqe("SHUT")
    /\ mgr' = [mgr EXCEPT !.pc = "bcast", !.kids = NKids]
    /\ UNCHANGED <<dtq, frame, app, req, rpending, mpit, mts, mpi>>

\* process_req without a request.
process_req_none ==
    /\ mgr.pc = "req" /\ mgr.req = NoApp
    /\ mgr' = [mgr EXCEPT !.pc = "top"]
    /\ UNCHANGED <<dtq, frame, app, req, rpending, mpit, mts, mpi>>

HasReq(op) == mgr.pc = "req" /\ mgr.req # NoApp /\ req[mgr.req].op = op
ReqProcessed == [mgr EXCEPT !.pc = "top", !.req = NoApp]

\* Mutant: a call refused because of the drain is not woken.
process_req_forward_unanswered ==
    LET m == req[mgr.req].mqe
        refused == dtq.mpisq_draindown # "INIT"
    IN
    /\ HasReq("API")
    /\ dtq' = dtq_send_enqueue(dtq, m, frame[m])
    /\ req' = [req EXCEPT ![mgr.req].mqe = NULL]
    /\ rpending' = IF refused THEN rpending ELSE rpending \cup {mgr.req}
    /\ mgr' = ReqProcessed
    /\ UNCHANGED <<frame, app, mpit, mts, mpi>>

\* CREATE, DETACH, CANCEL and JOIN: send the message, or fail with EIO.
process_req_forward ==
    LET m == req[mgr.req].mqe
        refused == dtq.mpisq_draindown # "INIT"
    IN
    /\ HasReq("API")
    /\ dtq' = dtq_send_enqueue(dtq, m, frame[m])
    /\ req' = [req EXCEPT ![mgr.req].mqe = NULL,
                          ![mgr.req].state = IF refused THEN "DONE" ELSE @]
    /\ rpending' = IF refused THEN rpending ELSE rpending \cup {mgr.req}
    /\ mgr' = ReqProcessed
    /\ UNCHANGED <<frame, app, mpit, mts, mpi>>

process_req_retclean ==
    LET m == dtq_mqe_alloc(dtq)
        f == [op |-> "NOTE", app |-> NoApp, peer |-> Mgr0]
    IN
    /\ HasReq("RETCLEAN")
    /\ frame' = Filled(m, f)
    /\ dtq' = dtq_send_enqueue(AfterAlloc(dtq), m, f)
    /\ req' = [req EXCEPT ![mgr.req].state = "IDLE"]
    /\ mgr' = ReqProcessed
    /\ UNCHANGED <<app, rpending, mpit, mts, mpi>>

process_req_app0_ret ==
    /\ HasReq("APP0_RET")
    /\ mgr' = [mgr EXCEPT !.pc = "bcast", !.kids = NKids]
    /\ UNCHANGED <<dtq, frame, app, req, rpending, mpit, mts, mpi>>

-----------------------------------------------------------------------------
(* The manager's exit. *)

\* mpit_stop, before it waits.
mpit_stop ==
    /\ mgr.pc = "stop"
    /\ IF mpit.state = "RUN"
       THEN /\ mpit' = [mpit EXCEPT !.state = "STOP"]
            /\ mgr' = [mgr EXCEPT !.pc = "stopwait"]
       ELSE /\ mgr' = [mgr EXCEPT !.pc = "final"] /\ UNCHANGED mpit
    /\ UNCHANGED <<dtq, frame, app, req, rpending, mts, mpi>>

mpit_stopped ==
    /\ mgr.pc = "stopwait" /\ mpit.state = "DONE"
    /\ mgr' = [mgr EXCEPT !.pc = "final"]
    /\ UNCHANGED <<dtq, frame, app, req, rpending, mpit, mts, mpi>>

\* exit() or MPI_Abort: all threads of the process are gone.
ProcessEnds ==
    /\ mgr' = [mgr EXCEPT !.pc = "exit"]
    /\ app' = [a \in Apps |-> "gone"]
    /\ mpit' = [mpit EXCEPT !.pc = "gone"]
    /\ UNCHANGED <<frame, req, rpending, mts, mpi>>

\* dtq_finalize frees all that is queued, and the main thread exits.
dtq_finalize ==
    /\ mgr.pc = "final"
    /\ dtq' = [dtq EXCEPT !.mgrreqq = <<>>, !.mpisendq = <<>>, !.mpirecvq = <<>>,
                          !.mqefree = <<>>]
    /\ ProcessEnds

-----------------------------------------------------------------------------
(* The MPI thread. *)

\* mpit_main begins; it may fail to allocate its table.
mpit_main ==
    /\ mpit.pc = "born"
    /\ \/ mpit' = [mpit EXCEPT !.pc = "test", !.state = "RUN"]
       \/ "mts_init" \in Faults /\ mpit' = [mpit EXCEPT !.pc = "gone"]
    /\ UNCHANGED <<dtq, frame, app, req, mgr, rpending, mts, mpi>>

\* The loop's condition, and MPI_Testsome.
mpimts_test ==
    LET got == {i \in 1 .. nused(mts) : mts.reqs[i] \notin mpi.active} IN
    /\ mpit.pc = "test"
    /\ mpit' = IF mpit.state # "RUN" THEN [mpit EXCEPT !.pc = "fin"]
               ELSE IF got = {} THEN [mpit EXCEPT !.pc = "send"]
               ELSE [mpit EXCEPT !.pc = "release", !.done = got]
    /\ UNCHANGED <<dtq, frame, app, req, mgr, rpending, mts, mpi>>

\* mpimts_done for one of the completed sends, in any order; the table is
\* compacted after the last.
mpimts_done(i) ==
    LET q == dtq_send_release(dtq, mts.mqes[i]) IN
    /\ mpit.pc = "release" /\ i \in mpit.done
    /\ dtq' = q
    /\ signal(just_drained(q))
    /\ mpit' = [mpit EXCEPT !.done = @ \ {i},
                            !.pc = IF mpit.done = {i} THEN "send" ELSE @]
    /\ mts' = IF mpit.done = {i} THEN mpimts_compact(hole(mts, i)) ELSE hole(mts, i)
    /\ UNCHANGED <<frame, app, req, rpending, mpi>>

\* dtq_send_dequeue, MPI_Isend and mpimts_add.  A request that goes out will be
\* answered, if it is.
mpi_isend ==
    LET m == Head(dtq.mpisendq)
        started == [mpi EXCEPT !.active = @ \cup {m},
                     !.owed = IF frame[m].op = "REQ" THEN @ \cup {frame[m].app} ELSE @]
        dropped == [mpit EXCEPT !.pc = "drop", !.mqe = m]
    IN
    /\ mpit.pc = "send" /\ dtq.mpisendq # <<>>
    /\ dtq' = dtq_send_dequeue(dtq)
    /\ \/ /\ mts' = mpimts_add(mts, m, m)
          /\ mpi' = started
          /\ mpit' = [mpit EXCEPT !.pc = "recv"]
       \/ /\ "mts_grow" \in Faults /\ mustgrow(mts)
          /\ mpi' = started
          /\ mpit' = dropped
          /\ UNCHANGED mts
       \/ /\ "isend" \in Faults
          /\ mpit' = dropped
          /\ UNCHANGED <<mts, mpi>>
    /\ UNCHANGED <<frame, app, req, mgr, rpending>>

mpi_isend_none ==
    /\ mpit.pc = "send" /\ dtq.mpisendq = <<>>
    /\ mpit' = [mpit EXCEPT !.pc = "recv"]
    /\ UNCHANGED <<dtq, frame, app, req, mgr, rpending, mts, mpi>>

\* mpimts_done for an entry that could not be sent or tracked.
mpi_isend_drop ==
    LET q == dtq_send_release(dtq, mpit.mqe) IN
    /\ mpit.pc = "drop"
    /\ dtq' = q
    /\ signal(just_drained(q))
    /\ mpit' = [mpit EXCEPT !.pc = "recv", !.mqe = NULL]
    /\ UNCHANGED <<frame, app, req, rpending, mts, mpi>>

\* MPI_Iprobe finds nothing, or fails.
mpi_iprobe ==
    /\ mpit.pc = "recv"
    /\ \/ mpit' = [mpit EXCEPT !.pc = "test"]
       \/ "iprobe" \in Faults /\ mpit' = [mpit EXCEPT !.pc = "fin", !.abort = TRUE]
    /\ UNCHANGED <<dtq, frame, app, req, mgr, rpending, mts, mpi>>

\* mpimqerecv of a message with contents f, up to dtq_recv_enqueue.
mpimqerecv(f) ==
    LET m == dtq_mqe_alloc(dtq) IN
    /\ mpit.pc = "recv"
    /\ frame' = Filled(m, f)
    /\ \/ /\ dtq' = AfterAlloc(dtq)
          /\ mpit' = [mpit EXCEPT !.pc = "enqueue", !.mqe = m]
       \/ /\ "recv" \in Faults
          /\ dtq' = dtq_recv_release(AfterAlloc(dtq), m)
          /\ mpit' = [mpit EXCEPT !.pc = "test"]
    /\ UNCHANGED <<app, req, mgr, rpending, mts>>

\* Mutant: a message that arrives is queued without a signal.
dtq_recv_enqueue_silent ==
    /\ mpit.pc = "enqueue"
    /\ dtq' = [dtq EXCEPT !.mpirecvq = Append(@, mpit.mqe)]
    /\ mpit' = [mpit EXCEPT !.pc = "test", !.mqe = NULL]
    /\ UNCHANGED <<frame, app, req, mgr, rpending, mts, mpi>>

dtq_recv_enqueue ==
    /\ mpit.pc = "enqueue"
    /\ signal(was_empty(dtq))
    /\ dtq' = [dtq EXCEPT !.mpirecvq = Append(@, mpit.mqe)]
    /\ mpit' = [mpit EXCEPT !.pc = "test", !.mqe = NULL]
    /\ UNCHANGED <<frame, app, req, rpending, mts, mpi>>

\* The end of mpit_main: mpimts_finalize releases what is left, the state
\* becomes DONE.
mpimts_finalize ==
    LET q == dtq_send_release(dtq, Head(mts.mqes)) IN
    /\ mpit.pc = "fin" /\ nused(mts) > 0
    /\ dtq' = q
    /\ signal(just_drained(q))
    /\ mts' = [mts EXCEPT !.mqes = Tail(@), !.reqs = Tail(@)]
    /\ UNCHANGED <<frame, app, req, rpending, mpit, mpi>>

mpit_done ==
    /\ mpit.pc = "fin" /\ nused(mts) = 0
    /\ mpit' = [mpit EXCEPT !.state = "DONE", !.pc = "gone"]
    /\ UNCHANGED <<dtq, frame, app, req, mgr, rpending, mts, mpi>>

\* After an MPI error the thread aborts the job.
MPI_Abort ==
    /\ mpit.pc = "gone" /\ mpit.abort /\ mgr.pc # "exit"
    /\ UNCHANGED dtq
    /\ ProcessEnds

-----------------------------------------------------------------------------
(* MPI and the other ranks. *)

\* A send completes: its buffer is MPI's no longer.
MPI_Complete(m) ==
    /\ m \in mpi.active
    /\ mpi' = [mpi EXCEPT !.active = @ \ {m},
                          !.told = IF frame[m].op = "SHUT" THEN @ + 1 ELSE @]
    /\ UNCHANGED <<dtq, frame, app, req, mgr, rpending, mpit, mts>>

\* Another rank's request, or TERMINATED, arrives; the latter only at rank 0.
ReceiveRequest(op) ==
    /\ mpi.nreqs < MaxIn
    /\ op = "NOTE" => App0 # NoApp
    /\ mpimqerecv([op |-> op, app |-> NoApp, peer |-> "net"])
    /\ mpi' = [mpi EXCEPT !.nreqs = @ + 1]

\* The reply to a request of ours arrives.
ReceiveReply(a) ==
    /\ a \in mpi.owed
    /\ mpimqerecv([op |-> "REPLY", app |-> a, peer |-> "net"])
    /\ mpi' = [mpi EXCEPT !.owed = @ \ {a}]

\* The shutdown notice arrives from the parent in the broadcast tree.
ReceiveShutdown ==
    /\ App0 = NoApp /\ ~mpi.shut
    /\ mpimqerecv([op |-> "SHUT", app |-> NoApp, peer |-> "net"])
    /\ mpi' = [mpi EXCEPT !.shut = TRUE]

-----------------------------------------------------------------------------
Manager ==
    \/ mpit_create \/ mgr_startapp \/ idle_shutdown \/ mgr_top \/ dtq_notifywait
    \/ broadcast_shutdown \/ draindown
    \/ process_mqe_none
    \/ process_request_recycle \/ process_request_fresh \/ process_request_joinwait
    \/ process_reply \/ process_terminated
    \/ \E a \in Requesters : process_terminated_joined(a)
    \/ process_bcastshutdown
    \/ process_req_none \/ process_req_forward \/ process_req_retclean
    \/ process_req_app0_ret
    \/ mpit_stop \/ mpit_stopped \/ dtq_finalize

MpiThread ==
    \/ mpit_main \/ mpimts_test \/ \E i \in mpit.done : mpimts_done(i)
    \/ mpi_isend \/ mpi_isend_none \/ mpi_isend_drop \/ mpi_iprobe
    \/ ReceiveRequest("REQ") \/ ReceiveRequest("NOTE")
    \/ \E a \in mpi.owed : ReceiveReply(a)
    \/ ReceiveShutdown
    \/ dtq_recv_enqueue \/ mpimts_finalize \/ mpit_done \/ MPI_Abort

AppThread(a) ==
    \/ \E peer \in {"self", "net"} : api_call(a, peer)
    \/ \E op \in {"RETCLEAN", "APP0_RET"} : leave(a, op)
    \/ dtq_req_enqueue(a)
    \/ api_return(a)

Steps ==
    \/ Manager \/ wakeup
    \/ MpiThread
    \/ \E a \in Apps : AppThread(a)
    \/ \E m \in mpi.active : MPI_Complete(m)

Next == Steps /\ UNCHANGED role

Spec == Init /\ [][Next]_vars

\* Threads that can run do, condition waits with a time limit end, and the sends
\* that MPI was given complete.
Fairness ==
    /\ WF_vars(Manager /\ UNCHANGED role) /\ WF_vars(MpiThread /\ UNCHANGED role)
    /\ WF_vars(timeout /\ UNCHANGED role)
    /\ \A a \in AllApps : WF_vars(a \in Apps /\ dtq_req_enqueue(a) /\ UNCHANGED role)
    /\ WF_vars(\E m \in mpi.active : MPI_Complete(m) /\ UNCHANGED role)

FairSpec == Spec /\ Fairness

-----------------------------------------------------------------------------
(* Properties. *)

\* No lost wake-up for work: while the manager sleeps in dtq_notifywait there is
\* nothing for it to do, though each enqueuer signals only if it finds both
\* queues empty.
SleepsOnlyIdle == mgr.pc = "wait" => was_empty(dtq)

\* Number of times x occurs in s.
Occurs(s, x) == Cardinality({i \in DOMAIN s : s[i] = x})
One(b) == IF b THEN 1 ELSE 0

\* The ways in which the rest of the program can get at entry m.
Owners(m) ==
    Occurs(dtq.mqefree, m) + Occurs(dtq.mpisendq, m) + Occurs(dtq.mpirecvq, m)
    + Cardinality({a \in Apps : req[a].mqe = m}) + One(mgr.mqe = m)
    + One(mpit.mqe = m) + Occurs(mts.mqes, m)

\* Every queue entry ever allocated is in exactly one place: none is leaked,
\* none released twice or used by two threads, on all paths of the handlers
\* that recycle, release, refuse and unalloc entries.
MqeConserved == mgr.pc # "exit" => \A m \in Mqes : Owners(m) = 1

\* The sends the MPI thread has taken off the queue and not released.
Dequeued == Cardinality({i \in 1 .. nused(mts) : mts.mqes[i] # NULL})
            + One(mpit.pc = "drop")

\* When the drain has ended nothing is left to send, in the queue or in MPI, and
\* it has ended as soon as that is so: the counter dtq_send_release and
\* dtq_send_draindown go by counts the MPI thread's sends exactly.
DrainedMeansSent ==
    mgr.pc # "exit" =>
        /\ dtq.mpindequeuedsends = Dequeued
        /\ dtq.mpisq_draindown = "DRAINED" => dtq.mpisendq = <<>> /\ Dequeued = 0
        /\ dtq.mpisq_draindown = "DRAINING" => dtq.mpisendq # <<>> \/ Dequeued > 0

\* When the manager stops the MPI thread, every child in the broadcast tree has
\* been sent the shutdown notice: the drain comes after the notices, and ends
\* after MPI has delivered them.  (A rank whose MPI calls fail may not tell them.)
KidsTold ==
    Faults = {} /\ mgr.pc \in {"stop", "stopwait", "final"} => mpi.told = NKids

\* A buffer that MPI is sending from is neither free nor in use elsewhere: it
\* stays in the MPI thread's table until MPI says its request is complete,
\* whatever else is compacted around it.  (A send the table could not grow for is
\* released at once: see "mts_grow".)
BufferStable ==
    mgr.pc # "exit" /\ "mts_grow" \notin Faults =>
        \A m \in mpi.active : \E i \in 1 .. nused(mts) : mts.mqes[i] = m

\* The sends a table tracks, each entry with its request.
Tracked(t) == {<<t.mqes[i], t.reqs[i]>> : i \in 1 .. nused(t)}

\* When the last completed send of a test is released the table is compacted: it
\* forgets the completed sends and no others, however they lie, holds each entry
\* once and with its own request, and has no holes.
CompactKeepsRest ==
    [][mpit.pc = "release" /\ mpit'.pc = "send" =>
          /\ Tracked(mts') = {x \in Tracked(mts) : x[1] # NULL}
                             \ {<<mts.mqes[i], mts.reqs[i]>> : i \in mpit.done}
          /\ Cardinality(Tracked(mts')) = nused(mts')
          /\ \A x \in Tracked(mts') : x[1] = x[2]]_vars

\* A thread blocked in a call is blocked on a request that is somewhere: queued,
\* in the manager's hands, pending a reply, or done; and in only one of them.
BlockedHasRequest ==
    \A a \in Apps : app[a] = "wait" =>
        Occurs(dtq.mgrreqq, a) + One(mgr.req = a) + One(a \in rpending)
        + One(req[a].state = "DONE") = 1

\* Once a shutdown has begun the manager leaves its loop, stops the MPI thread
\* and exits, also if the end of the drain is signalled between its test of the
\* drain state and its wait (the time limit is what saves it then).
DrainEnds == mgr.draining ~> mgr.pc = "exit"

\* A request that has been queued is taken by the manager, or the process exits.
RequestTaken ==
    \A a \in AllApps : Occurs(dtq.mgrreqq, a) > 0 ~> Occurs(dtq.mgrreqq, a) = 0
=============================================================================
