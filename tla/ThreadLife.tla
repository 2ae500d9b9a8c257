----------------------------- MODULE ThreadLife -----------------------------
(***************************************************************************)
(* What dthreads promise their users, without ranks, managers or messages: *)
(* a thread's handle is new, the thread ends once, and it is released by   *)
(* exactly one of its creation failing, a join, or a detach and its end.   *)
(* A thread that has ended and is then detached keeps its resources, as in *)
(* the code; so nothing is promised of it.                                 *)
(***************************************************************************)
EXTENDS Naturals

VARIABLES
    threads,    \* the threads that hold resources, by handle
    last,       \* no handle's sequence number is this or above
    joined      \* handles of the threads joined so far

vars == <<threads, last, joined>>

Fresh == [ended |-> FALSE, detached |-> FALSE, waited |-> FALSE]
Without(h) == [x \in DOMAIN threads \ {h} |-> threads[x]]

Init ==
    /\ joined = {} /\ last \in Nat
    /\ \E h \in DOMAIN threads : threads = [x \in {h} |-> Fresh] /\ h.seq < last

\* Sequence numbers are used for other things as well.
Tick == last' > last /\ UNCHANGED <<threads, joined>>

Create ==
    \E h \in DOMAIN threads' \ DOMAIN threads :
        /\ h.seq >= last /\ h.seq < last'
        /\ threads' = [x \in DOMAIN threads \cup {h} |->
                          IF x = h THEN Fresh ELSE threads[x]]
        /\ UNCHANGED joined

\* The thread could not be started; nobody has its handle.
CreateFails(h) ==
    /\ threads[h] = Fresh
    /\ threads' = Without(h)
    /\ UNCHANGED <<last, joined>>

Detach(h) ==
    /\ threads' = [threads EXCEPT ![h].detached = TRUE, ![h].waited = FALSE]
    /\ UNCHANGED <<last, joined>>

JoinWait(h) ==
    /\ threads[h] = Fresh
    /\ threads' = [threads EXCEPT ![h].waited = TRUE]
    /\ UNCHANGED <<last, joined>>

Join(h) ==
    /\ threads[h].ended /\ ~threads[h].detached
    /\ threads' = Without(h)
    /\ joined' = joined \cup {h}
    /\ UNCHANGED last

End(h) ==
    /\ ~threads[h].ended
    /\ threads' = IF threads[h].detached \/ threads[h].waited THEN Without(h)
                  ELSE [threads EXCEPT ![h].ended = TRUE]
    /\ joined' = IF threads[h].waited THEN joined \cup {h} ELSE joined
    /\ UNCHANGED last

Next ==
    \/ Tick \/ Create
    \/ \E h \in DOMAIN threads :
          CreateFails(h) \/ Detach(h) \/ JoinWait(h) \/ Join(h) \/ End(h)

Spec == Init /\ [][Next]_vars
=============================================================================
