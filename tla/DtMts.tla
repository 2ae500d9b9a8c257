------------------------------- MODULE DtMts --------------------------------
(***************************************************************************)
(* The MPI thread's table of sends in progress (struct mpimtsmgr of        *)
(* dt_mpithread.c): two arrays kept in step, the queue entries being sent  *)
(* and the MPI requests to test for them.  A table is a record; its arrays *)
(* are sequences of the slots in use, so nused is their length, and slots  *)
(* count from 1.                                                           *)
(***************************************************************************)
EXTENDS Integers, Sequences

\* The pointer of a slot whose entry has been released.
NULL == 0

mpimts_init(n) == [nalloc |-> n, mqes |-> <<>>, reqs |-> <<>>]

nused(mts) == Len(mts.mqes)

\* mpimts_add finds no free slot and has to call mpimts_setslots.
mustgrow(mts) == nused(mts) = mts.nalloc

mpimts_add(mts, mqe, req) ==
    [nalloc |-> IF mustgrow(mts) THEN 2 * mts.nalloc ELSE mts.nalloc,
     mqes   |-> Append(mts.mqes, mqe),
     reqs   |-> Append(mts.reqs, req)]

\* mpimts_test, first loop: slot i has completed and leaves a hole.
hole(mts, i) == [mts EXCEPT !.mqes[i] = NULL]

\* Mutant: the requests are not moved along with the entries.
mpimts_fill_mqes(s, lcv) ==
    IF s.mqes[lcv] # NULL THEN s
    ELSE LET from == CHOOSE p \in s.pullfrom .. Len(s.mqes) :
                        /\ s.mqes[p] # NULL
                        /\ \A k \in s.pullfrom .. p - 1 : s.mqes[k] = NULL
         IN  [s EXCEPT !.mqes[lcv] = s.mqes[from], !.pullfrom = from + 1]

\* mpimts_test, second loop: fill hole lcv with the next entry from the part
\* that is cut off.  (There is one: the "pull overflow" branch is dead.)
mpimts_fill(s, lcv) ==
    IF s.mqes[lcv] # NULL THEN s
    ELSE LET from == CHOOSE p \in s.pullfrom .. Len(s.mqes) :
                        /\ s.mqes[p] # NULL
                        /\ \A k \in s.pullfrom .. p - 1 : s.mqes[k] = NULL
         IN  [s EXCEPT !.mqes[lcv] = s.mqes[from], !.reqs[lcv] = s.reqs[from],
                       !.pullfrom = from + 1]

\* Mutant: the table ends at the first hole.
mpimts_compact_cut(mts) ==
    LET holes == {i \in 1 .. nused(mts) : mts.mqes[i] = NULL}
        firsthole == CHOOSE i \in holes : \A k \in holes : i <= k
    IN  IF holes = {} THEN mts
        ELSE [mts EXCEPT !.mqes = SubSeq(@, 1, firsthole - 1),
                         !.reqs = SubSeq(@, 1, firsthole - 1)]

\* mpimts_test, after the first loop: close the holes.
mpimts_compact(mts) ==
    LET holes == {i \in 1 .. nused(mts) : mts.mqes[i] = NULL}
        firsthole == CHOOSE i \in holes : \A k \in holes : i <= k
        new_nused == Len(SelectSeq(mts.mqes, LAMBDA e : e # NULL))
        start == [mqes |-> mts.mqes, reqs |-> mts.reqs,
                  pullfrom |-> new_nused + 1]
        after[lcv \in firsthole - 1 .. new_nused] ==
            IF lcv < firsthole THEN start ELSE mpimts_fill(after[lcv - 1], lcv)
        result == IF firsthole > new_nused THEN start ELSE after[new_nused]
    IN  IF holes = {} THEN mts
        ELSE [mts EXCEPT !.mqes = SubSeq(result.mqes, 1, new_nused),
                         !.reqs = SubSeq(result.reqs, 1, new_nused)]
=============================================================================
