---------------------------- MODULE DthreadLife -----------------------------
(***************************************************************************)
(* Dthread implements ThreadLife: the threads are the allocated entries of *)
(* the global table, as rank 0's manager keeps them.                       *)
(***************************************************************************)
EXTENDS Dthread

\* The handles whose threads hold a slot of gtab, and what is known of them.
Allocated == {[idx |-> g, seq |-> gtab[g].seq] : g \in {g \in Slots : gtab[g].allocated}}
Standing(h) == [ended    |-> ~LT_NEED_FINALSTATE(gtab[h.idx].terminated),
                detached |-> gtab[h.idx].detached,
                waited   |-> joinwait_search(h) # {}]
Threads == [h \in Allocated |-> Standing(h)]
Joined == {j.thread : j \in joinok}

Life == INSTANCE ThreadLife WITH
    threads <- Threads, last <- seqsrc[0], joined <- Joined

\* Whatever the managers of all ranks do, and in whatever order messages, calls
\* and terminations meet, threads live as ThreadLife says: handles are new,
\* every thread ends once, and join, detach and end release it once between them.
ThreadLives == Life!Spec
=============================================================================
