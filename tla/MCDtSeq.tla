------------------------------- MODULE MCDtSeq ------------------------------
(***************************************************************************)
(* Model checking of DtSeq: two threads, on every placement over two ranks,*)
(* which TLC takes as interchangeable.                                     *)
(***************************************************************************)
EXTENDS DtSeq, TLC

ThreadSymmetry == Permutations(Threads)
=============================================================================
