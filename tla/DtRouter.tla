------------------------------ MODULE DtRouter ------------------------------
(***************************************************************************)
(* The broadcast tree that managers use to spread a shutdown over the MPI  *)
(* ranks (dt_mgrthread.c, binary_router).  A rank's next hops are a set of *)
(* at most two ranks; the code returns them as a count and children[2].    *)
(***************************************************************************)
EXTENDS Integers

\* The rank numbers shifted so that the root is 0.
AdjustedRank(root_rank, world_size, my_rank) ==
    LET d == my_rank - root_rank IN IF d < 0 THEN d + world_size ELSE d

\* Mutant: the children start one too low, so the root is its own child.
binary_router_low(root_rank, world_size, my_rank) ==
    LET c == 2 * AdjustedRank(root_rank, world_size, my_rank) IN
    {(d + root_rank) % world_size : d \in {c, c + 1} \cap 0 .. world_size - 1}

\* Mutant: an only child is forgotten.
binary_router_pairs(root_rank, world_size, my_rank) ==
    LET c == 2 * AdjustedRank(root_rank, world_size, my_rank) + 1 IN
    IF c >= world_size - 1 THEN {}
    ELSE {(c + root_rank) % world_size, (c + 1 + root_rank) % world_size}

\* children[] of my_rank in the tree rooted at root_rank.
binary_router(root_rank, world_size, my_rank) ==
    LET adjusted_child0 == 2 * AdjustedRank(root_rank, world_size, my_rank) + 1
        child0 == (adjusted_child0 + root_rank) % world_size
    IN  IF adjusted_child0 >= world_size THEN {}
        ELSE IF adjusted_child0 = world_size - 1 THEN {child0}
        ELSE {child0, (child0 + 1) % world_size}
=============================================================================
