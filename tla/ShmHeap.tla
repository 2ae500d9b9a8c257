------------------------------ MODULE ShmHeap -------------------------------
(***************************************************************************)
(* What the shared memory allocators promise (dthread_shm_malloc and its   *)
(* relatives in dt_shmops.c), whatever the driver: a set of blocks the     *)
(* application holds, each with its contents.  A new block is aligned,     *)
(* lies in the memory given to arenas and overlaps no other block; a       *)
(* reallocated block keeps its contents; nothing else changes a block.     *)
(***************************************************************************)
EXTENDS Integers

CONSTANTS Space,    \* the offsets that may be given out
          alignsz   \* alignment of blocks

VARIABLE blocks     \* the blocks held: offset, length and contents

\* The offsets of a block.
Range(b) == b.off .. b.off + b.len - 1

Fits(b, others) ==
    /\ b.off % alignsz = 0
    /\ Range(b) \subseteq Space
    /\ \A c \in others : Range(b) \cap Range(c) = {}

Init == blocks = {}

Malloc == \E b \in blocks' : blocks' = blocks \cup {b} /\ Fits(b, blocks)

Free == \E b \in blocks : blocks' = blocks \ {b}

\* realloc, in place or elsewhere.
Realloc ==
    \E b \in blocks, c \in blocks' :
        /\ blocks' = (blocks \ {b}) \cup {c}
        /\ Fits(c, blocks \ {b})
        /\ b.len > 0 /\ c.len > 0 => c.val = b.val

Next == Malloc \/ Free \/ Realloc

Spec == Init /\ [][Next]_blocks
=============================================================================
