------------------------------ MODULE MCDtShm -------------------------------
(***************************************************************************)
(* Model checking of DtShm: a segment of 128 bytes with pages of 16 and an *)
(* alignment of 2, size_t of 8 bits, int of 7.                             *)
(***************************************************************************)
EXTENDS DtShm, TLC

MCMdSize == [d \in Drivers |-> IF d = "break" THEN 3 ELSE 6]

\* Sizes at the edges of the drivers' size classes.
MCRequests == [d \in Drivers |-> IF d = "break" THEN {3, 8} ELSE {0, 3, 7, 31, 255}]

\* A bsd request of 100 bytes: the bucket of 128 is beyond an int of 7 bits, as
\* the one of 4 GiB and more is beyond an int of 32.
MCLargeRequests == [d \in Drivers |-> IF d = "break" THEN {3} ELSE {7, 100}]

ThreadSymmetry == Permutations(Threads)
=============================================================================
