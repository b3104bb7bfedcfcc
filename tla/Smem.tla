-------------------------------- MODULE Smem --------------------------------
(***************************************************************************)
(* The shared memory allocator of rcp100 (librcp/smem.c).                  *)
(*                                                                         *)
(* Memory is a row of chunks of 16 bytes with one byte of bookkeeping      *)
(* each: 0 for a free chunk, and in a block of n chunks n, n - 1, ..., 1.  *)
(* rcpAlloc() walks from the block it allocated last, jumps over blocks by *)
(* what their cells say, starts again at the first chunk when it reaches   *)
(* the end and gives up when it reaches it a second time.  One step of the *)
(* model is one turn of that loop.                                         *)
(***************************************************************************)
EXTENDS Integers

CONSTANTS
    Chunks,      \* max_chunks
    Cell         \* values of a cell: 256 in the code

ASSUME SmemConstants ==
    /\ Chunks \in Nat \ {0}
    /\ Cell \in Nat \ {0, 1}

VARIABLES
    pmem,              \* the cells
    last_allocation,
    walk               \* the loop of rcpAlloc(), or what it returned

smem == <<pmem, last_allocation, walk>>

Index == 0..Chunks - 1
NULL == -1

\* Between calls a walk is over and holds the result of the last one.
Idle(r) == [on |-> FALSE, chunks |-> 0, i |-> r, start |-> 0]

SmemTypeOK ==
    /\ pmem \in [Index -> 0..Cell - 1]
    /\ last_allocation \in Index
    /\ walk \in [on : BOOLEAN, chunks : 0..Cell - 1, i : -1..Chunks, start : Index]

smem_initialize ==
    /\ pmem = [i \in Index |-> 0]
    /\ last_allocation = 0
    /\ walk = Idle(NULL)

\* rcpAlloc() is called
rcpAlloc(chunks) ==
    /\ ~walk.on
    /\ walk' = [on |-> TRUE, chunks |-> chunks,
                i |-> last_allocation, start |-> last_allocation]
    /\ UNCHANGED <<pmem, last_allocation>>

Run(i, n) == i..i + n - 1

\* the loop's condition
InReach == walk.i < Chunks - walk.chunks

\* A block: jump behind it.
Jump ==
    /\ walk.on /\ InReach
    /\ pmem[walk.i] # 0
    /\ walk' = [walk EXCEPT !.i = @ + pmem[walk.i]]
    /\ UNCHANGED <<pmem, last_allocation>>

\* Not enough room here: go on behind the first chunk in use.
Skip ==
    /\ walk.on /\ InReach
    /\ pmem[walk.i] = 0
    /\ \E j \in Run(walk.i, walk.chunks) :
          /\ pmem[j] # 0
          /\ \A k \in Run(walk.i, walk.chunks) : k < j => pmem[k] = 0
          /\ walk' = [walk EXCEPT !.i = j + 1]
    /\ UNCHANGED <<pmem, last_allocation>>

\* Mutant: a block of several chunks ends one chunk early.
MarkedShort(i, n) ==
    LET m == IF n > 1 THEN n - 1 ELSE n
    IN [k \in Index |-> IF k \in Run(i, m) THEN (m - (k - i)) % Cell ELSE pmem[k]]

\* What the cells of a new block hold
Marked(i, n) ==
    [k \in Index |-> IF k \in Run(i, n) THEN (n - (k - i)) % Cell ELSE pmem[k]]

Found ==
    /\ walk.on /\ InReach
    /\ \A j \in Run(walk.i, walk.chunks) : pmem[j] = 0
    /\ pmem' = Marked(walk.i, walk.chunks)
    /\ last_allocation' = walk.i
    /\ walk' = Idle(walk.i)

\* Mutant: the second walk starts where the first one did.
WrapStays ==
    /\ walk.on /\ ~InReach
    /\ walk.start # 0
    /\ walk' = [walk EXCEPT !.i = walk.start]
    /\ UNCHANGED <<pmem, last_allocation>>

\* The end was reached: once more from the start
Wrap ==
    /\ walk.on /\ ~InReach
    /\ walk.start # 0
    /\ last_allocation' = 0
    /\ walk' = [walk EXCEPT !.i = 0, !.start = 0]
    /\ UNCHANGED pmem

GiveUp ==
    /\ walk.on /\ ~InReach
    /\ walk.start = 0
    /\ walk' = Idle(NULL)
    /\ UNCHANGED <<pmem, last_allocation>>

Walk == Jump \/ Skip \/ Found \/ Wrap \/ GiveUp

\* The cells after rcpFree() of the blocks at the places in S
Freed(S) ==
    [k \in Index |-> IF \E a \in S : k \in Run(a, pmem[a]) THEN 0 ELSE pmem[k]]

-----------------------------------------------------------------------------
(* The blocks that the cells describe *)

Starts(i) == pmem[i] # 0 /\ (i = 0 \/ pmem[i - 1] < 2)

Blocks == {[at |-> i, len |-> pmem[i]] : i \in {j \in Index : Starts(j)}}

\* The cells of a block count down to its end, which is inside the memory, and
\* the next walk starts on a block or a free chunk: rcpAlloc() relies on both
\* when it jumps, and after a failed try it jumps from within a block.
CellsOK ==
    /\ \A i \in Index, d \in 0..Cell - 1 :
          d < pmem[i] => i + d \in Index /\ pmem[i + d] = pmem[i] - d
    /\ pmem[last_allocation] = 0 \/ Starts(last_allocation)

=============================================================================
