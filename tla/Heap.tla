-------------------------------- MODULE Heap --------------------------------
(***************************************************************************)
(* What the users of the shared memory allocator of rcp100 rely on         *)
(* (librcp/smem.c): a block that has been handed out is as long as they    *)
(* asked for, and theirs until they give it back: it stays at the place    *)
(* they got it and no other block has a chunk of it.                       *)
(***************************************************************************)
EXTENDS Integers

CONSTANT Size      \* chunks of the heap

VARIABLES
    blocks,        \* the blocks handed out: first chunk and length
    want           \* chunks that the current call asks for

Block == [at : 0..Size - 1, len : 1..Size]

Disjoint(b, c) == b.at + b.len <= c.at \/ c.at + c.len <= b.at

Fits(b) == b.at + b.len <= Size

Init == blocks = {}

Take ==
    \E b \in blocks' \ blocks :
        /\ b \in Block
        /\ b.len = want
        /\ Fits(b)
        /\ \A c \in blocks : Disjoint(b, c)
        /\ blocks' = blocks \cup {b}

Release == blocks' \subseteq blocks

Next == Take \/ Release

Spec == Init /\ [][Next]_blocks

=============================================================================
