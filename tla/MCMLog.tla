------------------------------- MODULE MCMLog -------------------------------
(***************************************************************************)
(* Model checking of MLog.  A process uses the message buffer, or adds     *)
(* facilities while it logs, or before, or works with files and consoles:  *)
(* parts that share no state but the log itself.                           *)
(***************************************************************************)
EXTENDS MLog, TLC

MCPrograms == {{"log", "msgbuf"}, {"log", "facility"}, {"log", "ucon"},
               {"facility", "grow"}}
ThreadSymmetry == Permutations(Threads)
=============================================================================
