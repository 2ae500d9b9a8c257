----------------------------- MODULE DthreadInv -----------------------------
(***************************************************************************)
(* Why the safety properties of Dthread hold: the facts about calls,       *)
(* threads on their way through the tables, and values that every step     *)
(* keeps.  A thread that holds a slot of gtab is in at most one place: in   *)
(* a START or failed STARTED under way, in an ltab entry with a pthread,   *)
(* or in a TERMINATED under way.                                           *)
(***************************************************************************)
EXTENDS Dthread

Running == {"run", "busy", "done", "exit", "return"}

\* A thread's request block says what it waits for.
RequestBlocks ==
    \A r \in Ranks, l \in Slots :
        LET a == app[r][l] IN
        /\ a.op \in Requests => a.pc \in {"busy", "done"}
        /\ a.op \in {"RETCLEAN", "APP0_RET"} <=> a.pc = "clean"

\* The request queue holds threads that wait, each once.
QueuedOnce ==
    \A r \in Ranks : \A i \in 1 .. Len(mgrreqq[r]) :
        /\ app[r][mgrreqq[r][i]].pc \in {"busy", "clean"}
        /\ \A j \in 1 .. Len(mgrreqq[r]) :
              mgrreqq[r][i] = mgrreqq[r][j] => i = j

\* A pending call is that of a blocked thread, which has no other.
PendingOnce ==
    \A r \in Ranks : \A p \in rpending[r] :
        /\ p.op \notin Requests => p.lidx = NMaxThread
        /\ p.op \in Requests =>
              /\ p.lidx \in Slots
              /\ app[r][p.lidx].pc = "busy"
              /\ \A i \in 1 .. Len(mgrreqq[r]) : mgrreqq[r][i] # p.lidx
              /\ \A q \in rpending[r] : q.lidx = p.lidx => q = p

\* process_reply only ever wakes a thread that is blocked in the very call.
CallInv == RequestBlocks /\ QueuedOnce /\ PendingOnce

-----------------------------------------------------------------------------

\* h is the thread of its slot and manager 0 has not seen it end.
Unended(h) == dthread_dt2gtab(h) /\ gtab[h.idx].terminated = "NONE"

\* And it has no pthread.
Unhooked(h) ==
    /\ Unended(h)
    /\ ~gtab[h.idx].has_ltab
    /\ \A r \in Ranks, l \in Slots : Lives(r, l) => ltab[r][l].gtab_idx # h.idx

\* A slot that is free has no seq; seqs in use differ.
SlotInv ==
    \A g \in Slots :
        /\ gtab[g].allocated <=> gtab[g].seq # 0
        /\ gtab[g].allocated => gtab[g].terminated \in FinalStates \cup {"NONE"}
        /\ \A k \in Slots : gtab[g].allocated /\ gtab[k].seq = gtab[g].seq => k = g

\* Every pthread owns its ltab entry and its gtab entry.
LiveInv ==
    \A r \in Ranks, l \in Slots : Lives(r, l) =>
        LET lt == ltab[r][l]
            gt == gtab[lt.gtab_idx]
            pc == app[r][l].pc
        IN
        /\ Unended(HandleOf(r, l))
        /\ gt.rank = r
        /\ \A k \in Slots : Lives(r, k) /\ ltab[r][k].gtab_idx = lt.gtab_idx
                               => k = l
        /\ pc = "wrap" => lt.pth_state = "STARTING" /\ ~gt.has_ltab
        /\ pc \in Running => /\ lt.pth_state \in {"RUNNING", "CANCELED"}
                             /\ gt.has_ltab /\ gt.ltab_idx = l
        /\ pc = "clean" => /\ lt.pth_state \in FinalStates
                           /\ gt.has_ltab => gt.ltab_idx = l

\* ltab_alloc counts the entries in use, so that slot 0 of an empty table is free.
LtabCounted ==
    \A r \in Ranks :
        mgrstate[r].ltab_alloc = Cardinality({l \in Slots : InUse(r, l)})

\* The START requests of manager 0: the xid follows the thread's seq.
StartPending(p) == p \in rpending[0] /\ p.op = "START"
StartInv ==
    \A p \in rpending[0] : p.op = "START" =>
        /\ p.xid = p.thread.seq + NRanks
        /\ Unended(p.thread)
        /\ \A q \in rpending[0] : q.op = "START" /\ q.xid = p.xid => q = p

\* A thread between START and its pthread, or between its pthread and the end.
InTransit(s, d, m) ==
    /\ m.op = "START" =>
          /\ s = 0
          /\ Unhooked(m.thread) /\ gtab[m.thread.idx].rank = d
          /\ m.thread \notin known
          /\ \E p \in rpending[0] : /\ p.op = "START" /\ p.xid = m.xid
                                    /\ p.thread = m.thread
    /\ m.op = "STARTED" =>
          /\ d = 0
          /\ \E p \in rpending[0] :
                /\ p.op = "START" /\ p.xid = m.xid
                /\ m.errstatus # "OK" => Unhooked(p.thread) /\ p.thread \notin known
    /\ m.op = "TERMINATED" =>
          /\ d = 0
          /\ Unhooked(m.thread) /\ gtab[m.thread.idx].rank = s
          /\ m.finalstate \in FinalStates
TransitInv ==
    \A s, d \in Ranks : \A i \in 1 .. Len(net[s][d]) : InTransit(s, d, net[s][d][i])

\* Two messages that cannot be under way together.
Exclusive(m, n) ==
    \/ /\ m.op \in {"START", "STARTED"} /\ n.op \in {"START", "STARTED"}
       /\ m.xid = n.xid
    \/ m.op = "TERMINATED" /\ n.op = "TERMINATED" /\ m.thread = n.thread
    \/ m.op = "START" /\ n.op = "TERMINATED" /\ m.thread = n.thread
    \/ /\ m.op = "STARTED" /\ m.errstatus # "OK" /\ n.op = "TERMINATED"
       /\ m.xid = n.thread.seq + NRanks
    \/ /\ m.op \in {"START", "STARTED"} /\ n.op = "CREATED" /\ n.errstatus = "OK"
       /\ m.xid = n.thread.seq + NRanks
OnePlace ==
    \A s, d, t, e \in Ranks :
        \A i \in 1 .. Len(net[s][d]), j \in 1 .. Len(net[t][e]) :
            Exclusive(net[s][d][i], net[t][e][j]) => s = t /\ d = e /\ i = j

\* STARTED is sent, if at all, before TERMINATED, and arrives before it.
StartedFirst ==
    \A p \in rpending[0] : p.op = "START" =>
        /\ \A s \in Ranks : \A j \in 1 .. Len(net[s][0]) :
              net[s][0][j].op = "TERMINATED" /\ net[s][0][j].thread = p.thread
                  => \E i \in 1 .. j - 1 : /\ net[s][0][i].op = "STARTED"
                                           /\ net[s][0][i].xid = p.xid
        /\ \A r \in Ranks, l \in Slots :
              Lives(r, l) /\ HandleOf(r, l) = p.thread /\ ~draining(r)
                  => \E i \in 1 .. Len(net[r][0]) :
                        net[r][0][i].op = "STARTED" /\ net[r][0][i].xid = p.xid

\* Calls use handles the application has seen, and so does what they lead to.
KnownInv ==
    /\ \A r \in Ranks, l \in Slots : app[r][l].thread \in known \cup {NoThread}
    /\ \A s, d \in Ranks : \A i \in 1 .. Len(net[s][d]) :
          net[s][d][i].op \in {"DETACH", "CANCEL", "JOIN"}
              => net[s][d][i].thread \in known \cup {NoThread}
    /\ \A p \in rpending[0] : p.op = "JOINWAIT" => p.thread \in known
    /\ \A g \in Slots : gtab[g].allocated /\ gtab[g].detached
                           => [idx |-> g, seq |-> gtab[g].seq] \in known

LifeInv ==
    /\ SlotInv /\ LiveInv /\ LtabCounted /\ StartInv /\ TransitInv /\ OnePlace
    /\ StartedFirst /\ KnownInv /\ JoinWaitHasFuture
ThreadInv == HandleInv /\ CallInv /\ LifeInv
=============================================================================
