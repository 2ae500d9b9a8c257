---------------------------- MODULE MCDtQueuing -----------------------------
(***************************************************************************)
(* Instances of DtQueuing for TLC.                                         *)
(***************************************************************************)
EXTENDS DtQueuing

CONSTANTS a0, a1

\* A rank inside the broadcast tree, where nothing fails; and rank 0, with a
\* request from elsewhere and all the failures the code handles.
MCRoles ==
    {[Apps |-> {a1}, App0 |-> NoApp, NKids |-> 2, MaxCalls |-> 1, MaxIn |-> 0,
      Faults |-> {}],
     [Apps |-> {a0}, App0 |-> a0, NKids |-> 1, MaxCalls |-> 1, MaxIn |-> 1,
      Faults |-> {"mts_init", "mts_grow", "isend", "recv", "iprobe"}]}

\* Rank 0 with two application threads.
MCLiveRoles ==
    {[Apps |-> {a0, a1}, App0 |-> a0, NKids |-> 1, MaxCalls |-> 1, MaxIn |-> 0,
      Faults |-> {}]}
=============================================================================
