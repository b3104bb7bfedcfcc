--------------------------- MODULE LogStoreProofs ---------------------------
(* Proofs about the shared memory allocator and the log, for every size of the *)
(* memory, of a cell and of the messages.                                      *)
(*                                                                             *)
(* Two lemmas carry the argument: what Found does to the blocks that the cells *)
(* describe (it adds one), and what rcpFree() of blocks does (it removes them).*)
(* CellsOK says of every cell what the whole rest of its block holds; said of  *)
(* neighbouring cells only, the end of a block could not be reached without an *)
(* induction.                                                                  *)
EXTENDS LogStore, SequenceTheorems, TLAPS

Countdown ==
    \A i \in Index, d \in 0..Cell - 1 :
        d < pmem[i] => i + d \in Index /\ pmem[i + d] = pmem[i] - d

(* ----------------------------- allocation ------------------------------- *)

(* rcpAlloc() has found room: there is one block more, the others are as they *)
(* were, and none of them has a chunk of it.                                  *)
LEMMA FoundBlock ==
  ASSUME SmemTypeOK, Countdown, Found, walk.chunks \in 1..Cell - 1, walk.i \in Index
  PROVE  /\ pmem' \in [Index -> 0..Cell - 1]
         /\ Countdown'
         /\ walk.i + walk.chunks <= Chunks
         /\ pmem'[walk.i] = walk.chunks
         /\ \A j \in Index : Starts(j)' <=> Starts(j) \/ j = walk.i
         /\ ~Starts(walk.i)
         /\ \A j \in Index : Starts(j) =>
               /\ pmem'[j] = pmem[j]
               /\ j + pmem[j] <= walk.i \/ walk.i + walk.chunks <= j
<1> DEFINE a == walk.i
           n == walk.chunks
<1>0. /\ n \in Nat /\ n >= 1 /\ n < Cell /\ a \in Nat /\ Chunks \in Nat /\ Cell \in Nat
      /\ a + n < Chunks
  BY SmemConstants DEF Found, InReach, Index, SmemTypeOK
<1>1. \A j \in Index : a <= j /\ j < a + n => pmem[j] = 0
  BY <1>0 DEF Found, Run, Index
<1>2. \A j \in Index : pmem'[j] = IF a <= j /\ j < a + n THEN n - (j - a) ELSE pmem[j]
  <2> SUFFICES ASSUME NEW j \in Index
               PROVE  pmem'[j] = IF a <= j /\ j < a + n THEN n - (j - a) ELSE pmem[j]
    OBVIOUS
  <2>1. pmem'[j] = IF j \in Run(a, n) THEN (n - (j - a)) % Cell ELSE pmem[j]
    BY DEF Found, Marked
  <2>2. j \in Run(a, n) <=> a <= j /\ j < a + n
    BY <1>0 DEF Run, Index
  <2>3. ASSUME a <= j, j < a + n PROVE (n - (j - a)) % Cell = n - (j - a)
    <3>1. n - (j - a) \in 0..Cell - 1
      BY <1>0, <2>3 DEF Index
    <3> QED BY <1>0, <3>1
  <2> QED BY <2>1, <2>2, <2>3
<1>3. pmem' = [j \in Index |-> pmem'[j]]
  BY DEF Found, Marked
<1> HIDE DEF a, n
<1>4. \A j \in Index : pmem[j] \in 0..Cell - 1
  BY DEF SmemTypeOK
<1>5. \A j \in Index : pmem'[j] \in 0..Cell - 1
  BY <1>0, <1>2, <1>4 DEF Index
<1>6. pmem' \in [Index -> 0..Cell - 1]
  BY <1>3, <1>5
<1>7. \A j \in Index : pmem[j] > 0 => pmem'[j] = pmem[j] /\ (j + pmem[j] <= a \/ a + n <= j)
  <2> SUFFICES ASSUME NEW j \in Index, pmem[j] > 0
               PROVE  pmem'[j] = pmem[j] /\ (j + pmem[j] <= a \/ a + n <= j)
    OBVIOUS
  <2>1. j < a \/ a + n <= j
    BY <1>0, <1>1, <1>4 DEF Index
  <2>2. pmem'[j] = pmem[j]
    BY <1>0, <1>2, <2>1 DEF Index
  <2>3. ASSUME j < a, j + pmem[j] > a PROVE FALSE
    <3>1. a - j \in 0..Cell - 1 /\ a - j < pmem[j]
      BY <1>0, <1>4, <2>3 DEF Index
    <3>2. pmem[j + (a - j)] = pmem[j] - (a - j)
      BY <3>1 DEF Countdown
    <3>3. j + (a - j) = a /\ a \in Index
      BY <1>0 DEF Index
    <3> QED BY <1>0, <1>1, <1>4, <3>1, <3>2, <3>3 DEF Index
  <2> QED BY <1>0, <1>4, <2>1, <2>2, <2>3 DEF Index
<1>8. Countdown'
  <2> SUFFICES ASSUME NEW i \in Index, NEW d \in 0..Cell - 1, d < pmem'[i]
               PROVE  i + d \in Index /\ pmem'[i + d] = pmem'[i] - d
    BY DEF Countdown, Index
  <2>1. CASE a <= i /\ i < a + n
    <3>1. pmem'[i] = n - (i - a)
      BY <1>2, <2>1
    <3>2. i + d \in Index /\ a <= i + d /\ i + d < a + n
      BY <1>0, <2>1, <3>1 DEF Index
    <3> QED BY <1>0, <1>2, <3>1, <3>2 DEF Index
  <2>2. CASE ~(a <= i /\ i < a + n)
    <3>1. pmem'[i] = pmem[i] /\ d < pmem[i] /\ pmem[i] > 0
      BY <1>2, <1>4, <2>2
    <3>2. i + d \in Index /\ pmem[i + d] = pmem[i] - d
      BY <3>1 DEF Countdown
    <3>3. pmem[i + d] > 0
      BY <1>4, <3>1, <3>2
    <3> QED BY <1>7, <3>1, <3>2, <3>3
  <2> QED BY <2>1, <2>2
<1>9. \A j \in Index : Starts(j)' <=> Starts(j) \/ j = a
  <2> SUFFICES ASSUME NEW j \in Index PROVE Starts(j)' <=> Starts(j) \/ j = a
    OBVIOUS
  <2>1. Starts(j)' <=> pmem'[j] # 0 /\ (j = 0 \/ pmem'[j - 1] < 2)
    BY DEF Starts
  <2>2. Starts(j) <=> pmem[j] # 0 /\ (j = 0 \/ pmem[j - 1] < 2)
    BY DEF Starts
  <2>3. CASE j = a
    <3>1. pmem'[j] # 0
      BY <1>0, <1>2, <2>3
    <3>2. ASSUME j # 0, pmem[j - 1] >= 2 PROVE FALSE
      <4>1. j - 1 \in Index /\ 1 \in 0..Cell - 1 /\ 1 < pmem[j - 1]
        BY <1>4, <3>2, <1>0 DEF Index
      <4>2. pmem[(j - 1) + 1] = pmem[j - 1] - 1
        BY <4>1 DEF Countdown
      <4>3. (j - 1) + 1 = j
        BY DEF Index
      <4>4. pmem[j] = 0
        BY <1>0, <1>1, <2>3 DEF Index
      <4> QED BY <1>4, <3>2, <4>1, <4>2, <4>3, <4>4 DEF Index
    <3>3. j # 0 => j - 1 \in Index /\ pmem'[j - 1] = pmem[j - 1]
      BY <1>0, <1>2, <2>3 DEF Index
    <3> QED BY <1>4, <2>1, <2>3, <3>1, <3>2, <3>3 DEF Index
  <2>4. CASE j # a /\ a < j /\ j < a + n
    <3>1. pmem[j] = 0
      BY <1>1, <2>4, <1>0 DEF Index
    <3>2. j - 1 \in Index /\ a <= j - 1 /\ j - 1 < a + n /\ j # 0
      BY <1>0, <2>4 DEF Index
    <3>3. pmem'[j - 1] = n - (j - 1 - a)
      BY <1>2, <3>2
    <3>4. pmem'[j - 1] >= 2
      BY <1>0, <2>4, <3>3 DEF Index
    <3> QED BY <1>0, <2>1, <2>2, <2>4, <3>1, <3>2, <3>4, <1>5 DEF Index
  <2>5. CASE j # a /\ ~(a < j /\ j < a + n)
    <3>1. pmem'[j] = pmem[j]
      BY <1>0, <1>2, <2>5 DEF Index
    <3>2. CASE j = a + n
      <4>1. j - 1 \in Index /\ a <= j - 1 /\ j - 1 < a + n /\ j # 0
        BY <1>0, <3>2 DEF Index
      <4>2. pmem'[j - 1] = 1 /\ pmem[j - 1] = 0
        <5>1. pmem'[j - 1] = n - (j - 1 - a)
          BY <1>2, <4>1
        <5> QED BY <1>0, <1>1, <3>2, <4>1, <5>1
      <4> QED BY <2>1, <2>2, <2>5, <3>1, <4>1, <4>2
    <3>3. CASE j # a + n
      <4>1. j # 0 => j - 1 \in Index /\ pmem'[j - 1] = pmem[j - 1]
        BY <1>0, <1>2, <2>5, <3>3 DEF Index
      <4> QED BY <2>1, <2>2, <2>5, <3>1, <4>1
    <3> QED BY <3>2, <3>3
  <2> QED BY <1>0, <2>3, <2>4, <2>5 DEF Index
<1>10. \A j \in Index : Starts(j) => pmem[j] > 0
  BY <1>4 DEF Starts
<1>11. ~Starts(a) /\ pmem'[a] = n /\ a \in Index
  <2>1. a \in Index
    BY <1>0 DEF Index
  <2>2. pmem[a] = 0 /\ pmem'[a] = n
    BY <1>0, <1>1, <1>2, <2>1
  <2> QED BY <2>1, <2>2 DEF Starts
<1> QED BY <1>0, <1>6, <1>7, <1>8, <1>9, <1>10, <1>11 DEF a, n

(* ------------------------------- release -------------------------------- *)

(* rcpFree() of blocks: they are gone, and the others are as they were. *)
LEMMA FreedBlocks ==
  ASSUME SmemTypeOK, Countdown, NEW S, S \subseteq {j \in Index : Starts(j)}, pmem' = Freed(S)
  PROVE  /\ pmem' \in [Index -> 0..Cell - 1]
         /\ Countdown'
         /\ \A j \in Index : Starts(j)' <=> Starts(j) /\ j \notin S
         /\ \A j \in Index : pmem'[j] # 0 => pmem'[j] = pmem[j]
<1> DEFINE Gone(k) == \E b \in S : b <= k /\ k < b + pmem[b]
<1>0. Chunks \in Nat /\ Cell \in Nat /\ Cell >= 2
  BY SmemConstants
<1>1. \A j \in Index : pmem[j] \in 0..Cell - 1
  BY DEF SmemTypeOK
<1>2. \A b \in S : b \in Index /\ pmem[b] # 0 /\ (b = 0 \/ pmem[b - 1] < 2)
  BY DEF Starts
<1>3. \A j \in Index : pmem'[j] = IF Gone(j) THEN 0 ELSE pmem[j]
  <2> SUFFICES ASSUME NEW j \in Index PROVE pmem'[j] = IF Gone(j) THEN 0 ELSE pmem[j]
    OBVIOUS
  <2>1. pmem'[j] = IF \E b \in S : j \in Run(b, pmem[b]) THEN 0 ELSE pmem[j]
    BY DEF Freed
  <2>2. \A b \in S : j \in Run(b, pmem[b]) <=> b <= j /\ j < b + pmem[b]
    BY <1>0, <1>1, <1>2 DEF Run, Index
  <2> QED BY <2>1, <2>2
<1>4. pmem' \in [Index -> 0..Cell - 1]
  <2>1. pmem' = [j \in Index |-> pmem'[j]]
    BY DEF Freed
  <2>2. \A j \in Index : pmem'[j] \in 0..Cell - 1
    BY <1>0, <1>1, <1>3
  <2> QED BY <2>1, <2>2
\* A block that starts is not in the middle of another one.
<1>5. ASSUME NEW k \in Index, NEW d \in 0..Cell - 1, d < pmem[k], NEW b \in S, b <= k + d,
             k + d < b + pmem[b]
      PROVE  b <= k
  <2> SUFFICES ASSUME k < b PROVE FALSE
    BY <1>2 DEF Index
  <2>1. b - 1 - k \in 0..Cell - 1 /\ b - 1 - k < pmem[k] /\ b # 0
    BY <1>0, <1>1, <1>2, <1>5 DEF Index
  <2>2. pmem[k + (b - 1 - k)] = pmem[k] - (b - 1 - k)
    BY <2>1 DEF Countdown
  <2>3. k + (b - 1 - k) = b - 1
    BY <1>2 DEF Index
  <2>4. pmem[b - 1] >= 2
    BY <1>1, <1>2, <1>5, <2>2, <2>3 DEF Index
  <2>5. b - 1 \in Index
    BY <1>0, <1>2, <2>1 DEF Index
  <2> QED BY <1>1, <1>2, <2>1, <2>4, <2>5
<1>6. Countdown'
  <2> SUFFICES ASSUME NEW i \in Index, NEW d \in 0..Cell - 1, d < pmem'[i]
               PROVE  i + d \in Index /\ pmem'[i + d] = pmem'[i] - d
    BY DEF Countdown, Index
  <2>1. pmem'[i] = pmem[i] /\ ~Gone(i) /\ d < pmem[i]
    BY <1>3
  <2>2. i + d \in Index /\ pmem[i + d] = pmem[i] - d
    BY <2>1 DEF Countdown
  <2>3. ASSUME NEW b \in S, b <= i + d, i + d < b + pmem[b] PROVE FALSE
    <3>1. b <= i
      BY <1>5, <2>1, <2>3
    <3>2. i < b + pmem[b]
      BY <1>1, <1>2, <2>3 DEF Index
    <3> QED BY <2>1, <3>1, <3>2
  <2>4. ~Gone(i + d)
    BY <2>3
  <2> QED BY <1>3, <2>1, <2>2, <2>4
<1>7. \A j \in Index : Starts(j)' <=> Starts(j) /\ j \notin S
  <2> SUFFICES ASSUME NEW j \in Index PROVE Starts(j)' <=> Starts(j) /\ j \notin S
    OBVIOUS
  <2>1. Starts(j)' <=> pmem'[j] # 0 /\ (j = 0 \/ pmem'[j - 1] < 2)
    BY DEF Starts
  <2>2. Starts(j) <=> pmem[j] # 0 /\ (j = 0 \/ pmem[j - 1] < 2)
    BY DEF Starts
  <2>3. CASE Gone(j)
    <3>1. pmem'[j] = 0
      BY <1>3, <2>3
    <3>2. PICK b \in S : b <= j /\ j < b + pmem[b]
      BY <2>3
    <3>3. CASE b = j
      BY <2>1, <3>1, <3>3
    <3>4. CASE b # j
      <4>1. j - 1 - b \in 0..Cell - 1 /\ j - 1 - b < pmem[b] /\ j # 0
        BY <1>0, <1>1, <1>2, <3>2, <3>4 DEF Index
      <4>2. pmem[b + (j - 1 - b)] = pmem[b] - (j - 1 - b)
        BY <1>2, <4>1 DEF Countdown
      <4>3. b + (j - 1 - b) = j - 1
        BY <1>2 DEF Index
      <4>4. pmem[j - 1] >= 2
        BY <1>1, <1>2, <3>2, <4>2, <4>3 DEF Index
      <4>5. j - 1 \in Index
        BY <1>0, <4>1 DEF Index
      <4>6. ~(pmem[j - 1] < 2)
        BY <1>1, <4>4, <4>5
      <4> QED BY <2>1, <2>2, <3>1, <4>1, <4>6
    <3> QED BY <3>3, <3>4
  <2>4. CASE ~Gone(j)
    <3>1. pmem'[j] = pmem[j]
      BY <1>3, <2>4
    <3>2. j \notin S
      BY <1>1, <1>2, <2>4 DEF Index
    <3>3. ASSUME j # 0, pmem[j] # 0 PROVE pmem'[j - 1] < 2 <=> pmem[j - 1] < 2
      <4>1. j - 1 \in Index
        BY <1>0, <3>3 DEF Index
      <4>2. CASE ~Gone(j - 1)
        BY <1>3, <4>1, <4>2
      <4>3. CASE Gone(j - 1)
        <5>1. PICK b \in S : b <= j - 1 /\ j - 1 < b + pmem[b]
          BY <4>3
        <5>2. j >= b + pmem[b]
          BY <1>1, <1>2, <2>4, <5>1 DEF Index
        <5>3. j - 1 - b \in 0..Cell - 1 /\ j - 1 - b < pmem[b]
          BY <1>0, <1>1, <1>2, <5>1 DEF Index
        <5>4. pmem[b + (j - 1 - b)] = pmem[b] - (j - 1 - b)
          BY <1>2, <5>3 DEF Countdown
        <5>5. b + (j - 1 - b) = j - 1
          BY <1>2 DEF Index
        <5>6. pmem[j - 1] = 1
          BY <1>1, <1>2, <5>1, <5>2, <5>4, <5>5 DEF Index
        <5>7. pmem'[j - 1] = 0
          BY <1>3, <4>1, <4>3
        <5> QED BY <5>6, <5>7
      <4> QED BY <4>2, <4>3
    <3> QED BY <2>1, <2>2, <3>1, <3>2, <3>3
  <2> QED BY <2>3, <2>4
<1>8. \A j \in Index : pmem'[j] # 0 => pmem'[j] = pmem[j]
  BY <1>3
<1> QED BY <1>4, <1>6, <1>7, <1>8

(* ------------------------------ invariant ------------------------------- *)

(* Where logStore() is, and what it has. *)
Control ==
    /\ pc = "idle" => entry = NULL /\ ~walk.on /\ room = 0
    /\ pc = "entry" => entry = NULL
    /\ pc = "text" => entry # NULL
    /\ pc # "idle" => size \in TextChunks
    /\ walk.on => pc # "idle" /\ room = 0 /\ walk.chunks # 0 /\ walk.i # NULL
    /\ room > 0 => pc # "idle" /\ ~walk.on /\ walk.i = NULL

Inv == TypeOK /\ CellsOK /\ NothingLost /\ Control

\* The assumptions on the constants, as the proofs use them.
LEMMA ConstFacts ==
  /\ Chunks \in Nat /\ Chunks > 0 /\ Cell \in Nat /\ Cell > 1
  /\ EntryChunks \in 1..Cell - 1 /\ TextChunks \subseteq 1..Cell - 1
  /\ Batch \in Nat /\ Batch > 0 /\ rate_limit \in Nat
  /\ 0 \in Index /\ NULL \notin Index
BY SmemConstants, LogConstants DEF Index, NULL

\* The cells of a block count down to its end.
LEMMA CellsCountdown == CellsOK => Countdown
BY DEF CellsOK, Countdown

\* smem_initialize leaves an empty heap and an empty log.
LEMMA InvInit == Init => Inv
<1> SUFFICES ASSUME Init PROVE Inv
  OBVIOUS
<1> USE ConstFacts DEF Init, smem_initialize, Idle
<1>1. \A i \in Index : pmem[i] = 0
  OBVIOUS
<1>2. walk.on = FALSE /\ walk.i = NULL
  OBVIOUS
<1>3. TypeOK
  <2>1. walk \in [on : BOOLEAN, chunks : 0..Cell - 1, i : -1..Chunks, start : Index]
    BY DEF NULL
  <2>2. pmem \in [Index -> 0..Cell - 1]
    OBVIOUS
  <2>3. log \in Seq([entry : Index, text : Index])
    OBVIOUS
  <2>4. current_rate \in 0..rate_limit + 1 /\ room \in 0..3 * Batch /\ log_stored_messages \in Nat
    OBVIOUS
  <2>5. SmemTypeOK
    BY <2>1, <2>2 DEF SmemTypeOK
  <2>6. sent \in BOOLEAN /\ again \in BOOLEAN
    OBVIOUS
  <2> QED BY <2>3, <2>4, <2>5, <2>6 DEF TypeOK
<1>4. CellsOK
  BY <1>1 DEF CellsOK
<1>5. Entries = {} /\ Texts = {} /\ InHand = {}
  BY DEF Entries, Texts, InHand, Returned
<1>6. {i \in Index : Starts(i)} = {}
  BY <1>1 DEF Starts
<1>7. Separate
  BY <1>5 DEF Separate, Returned
<1>8. NothingLost
  BY <1>5, <1>6, <1>7 DEF NothingLost
<1>9. Control
  BY <1>2 DEF Control
<1> QED BY <1>3, <1>4, <1>8, <1>9 DEF Inv

(* A call of rcpAlloc() gives the walk its type. *)
LEMMA CallTyped ==
  ASSUME SmemTypeOK, NEW n \in 1..Cell - 1
  PROVE  [on |-> TRUE, chunks |-> n, i |-> last_allocation, start |-> last_allocation]
           \in [on : BOOLEAN, chunks : 0..Cell - 1, i : -1..Chunks, start : Index]
BY ConstFacts DEF SmemTypeOK, Index

(* A step that leaves the cells, the list and the blocks in hand alone. *)
LEMMA HeapKept ==
  ASSUME Inv, UNCHANGED <<pmem, log, log_stored_messages>>, InHand' = InHand,
         pmem[last_allocation'] = 0 \/ Starts(last_allocation'),
         Returned' => entry' # walk'.i \/ walk'.i = NULL
  PROVE  CellsOK' /\ NothingLost'
<1>1. CellsOK'
  BY DEF Inv, CellsOK, Starts
<1>2. Entries' = Entries /\ Texts' = Texts
  BY DEF Entries, Texts
<1>3. Separate'
  BY <1>2 DEF Inv, NothingLost, Separate
<1>4. {i \in Index : Starts(i)}' = {i \in Index : Starts(i)}
  BY DEF Starts
<1>5. NothingLost'
  BY <1>2, <1>3, <1>4 DEF Inv, NothingLost
<1> QED BY <1>1, <1>5

(* The steps that leave the cells alone. *)
LEMMA QuietSteps ==
  ASSUME Inv,
         \/ \E n \in TextChunks, wanted \in BOOLEAN : Message(n, wanted)
         \/ RateTimer \/ EntryDone \/ MakeRoom
         \/ (Jump \/ Skip \/ Wrap \/ GiveUp) /\ UNCHANGED store
         \/ UNCHANGED vars
  PROVE  Inv' /\ UNCHANGED pmem
<1> USE ConstFacts
<1>0. /\ TypeOK /\ SmemTypeOK /\ CellsOK /\ Control /\ Countdown
      /\ \A j \in Index : pmem[j] \in 0..Cell - 1
      /\ pmem[0] = 0 \/ Starts(0)
      /\ pmem[last_allocation] = 0 \/ Starts(last_allocation)
      /\ Returned => entry # walk.i \/ walk.i = NULL
      /\ walk.on \in BOOLEAN /\ walk.chunks \in 0..Cell - 1 /\ walk.i \in -1..Chunks /\ walk.start \in Index
  BY CellsCountdown DEF Inv, TypeOK, SmemTypeOK, CellsOK, Starts, NothingLost, Separate
<1>1. ASSUME NEW n \in TextChunks, NEW wanted \in BOOLEAN, Message(n, wanted)
      PROVE  Inv' /\ UNCHANGED pmem
  <2>1. UNCHANGED <<pmem, last_allocation, log, log_stored_messages, entry, room, sent>>
    BY <1>1 DEF Message, rcpLogAccept, rcpAlloc, smem
  <2>2. pc = "idle" /\ entry = NULL /\ ~walk.on /\ room = 0
    BY <1>0, <1>1 DEF Message, rcpLogAccept, Control
  <2>3. current_rate' \in 0..rate_limit + 1 /\ again' = FALSE
    BY <1>0, <1>1 DEF Message, rcpLogAccept, TypeOK
  <2>4. CASE current_rate' <= rate_limit /\ wanted
    <3>1. /\ pc' = "entry" /\ size' = n
          /\ walk' = [on |-> TRUE, chunks |-> EntryChunks, i |-> last_allocation, start |-> last_allocation]
      BY <1>1, <2>4 DEF Message, rcpLogAccept, rcpAlloc
    <3>2. walk' \in [on : BOOLEAN, chunks : 0..Cell - 1, i : -1..Chunks, start : Index]
      BY <1>0, <3>1, CallTyped
    <3>3. TypeOK'
      BY <1>0, <2>1, <2>3, <3>1, <3>2 DEF TypeOK, SmemTypeOK
    <3>4. InHand' = InHand /\ ~Returned'
      BY <2>1, <2>2, <3>1 DEF InHand, Returned
    <3>5. Control'
      BY <1>0, <2>1, <2>2, <3>1 DEF Control, SmemTypeOK
    <3> QED BY <1>0, <2>1, <3>3, <3>4, <3>5, HeapKept DEF Inv
  <2>5. CASE ~(current_rate' <= rate_limit /\ wanted)
    <3>1. UNCHANGED <<pc, size, walk>>
      BY <1>1, <2>5 DEF Message, rcpLogAccept, smem
    <3>2. TypeOK'
      BY <1>0, <2>1, <2>3, <3>1 DEF TypeOK, SmemTypeOK
    <3>3. InHand' = InHand /\ ~Returned'
      BY <2>1, <2>2, <3>1 DEF InHand, Returned
    <3>4. Control'
      BY <1>0, <2>1, <3>1 DEF Control
    <3> QED BY <1>0, <2>1, <3>2, <3>3, <3>4, HeapKept DEF Inv
  <2> QED BY <2>4, <2>5
<1>2. ASSUME RateTimer PROVE Inv' /\ UNCHANGED pmem
  <2>1. /\ UNCHANGED <<pmem, last_allocation, walk, log, log_stored_messages, pc, entry, size, again, room, sent>>
        /\ current_rate' = 0
    BY <1>2 DEF RateTimer, smem
  <2>2. TypeOK' /\ Control'
    BY <1>0, <2>1 DEF TypeOK, SmemTypeOK, Control
  <2>3. InHand' = InHand /\ (Returned' <=> Returned)
    BY <2>1 DEF InHand, Returned
  <2> QED BY <1>0, <2>1, <2>2, <2>3, HeapKept DEF Inv
<1>3. ASSUME EntryDone PROVE Inv' /\ UNCHANGED pmem
  <2>1. /\ UNCHANGED <<pmem, last_allocation, log, log_stored_messages, current_rate, size, room, sent>>
        /\ walk' = [on |-> TRUE, chunks |-> size, i |-> last_allocation, start |-> last_allocation]
        /\ entry' = walk.i /\ pc' = "text" /\ again' = FALSE
        /\ pc = "entry" /\ walk.i # NULL /\ Returned
    BY <1>3 DEF EntryDone, rcpAlloc
  <2>2. entry = NULL /\ size \in 1..Cell - 1 /\ size \in TextChunks /\ room = 0
    BY <1>0, <2>1 DEF Control, Returned
  <2>3. walk' \in [on : BOOLEAN, chunks : 0..Cell - 1, i : -1..Chunks, start : Index]
    BY <1>0, <2>1, <2>2, CallTyped
  <2>4. InHand = {walk.i}
    BY <2>1, <2>2 DEF InHand
  <2>5. walk.i \in Index
    BY <2>4 DEF Inv, NothingLost
  <2>6. InHand' = InHand /\ ~Returned'
    BY <2>1, <2>4 DEF InHand, Returned
  <2>7. TypeOK'
    BY <1>0, <2>1, <2>2, <2>3, <2>5 DEF TypeOK, SmemTypeOK
  <2>8. Control'
    BY <1>0, <2>1, <2>2 DEF Control, SmemTypeOK
  <2> QED BY <1>0, <2>1, <2>6, <2>7, <2>8, HeapKept DEF Inv
<1>4. ASSUME MakeRoom PROVE Inv' /\ UNCHANGED pmem
  <2>1. /\ UNCHANGED <<pmem, last_allocation, walk, log, log_stored_messages, current_rate, pc, entry, size, sent>>
        /\ again' = TRUE /\ Returned /\ walk.i = NULL
        /\ room' \in {Batch, 3 * Batch}
    BY <1>4 DEF MakeRoom, smem
  <2>2. TypeOK'
    BY <1>0, <2>1 DEF TypeOK, SmemTypeOK
  <2>3. InHand' = InHand /\ ~Returned'
    BY <2>1 DEF InHand, Returned
  <2>4. Control'
    BY <1>0, <2>1 DEF Control, Returned
  <2> QED BY <1>0, <2>1, <2>2, <2>3, <2>4, HeapKept DEF Inv
<1>5. ASSUME Jump \/ Skip \/ Wrap, UNCHANGED store PROVE Inv' /\ UNCHANGED pmem
  <2>1. UNCHANGED <<log, log_stored_messages, current_rate, pc, entry, size, again, room, sent>>
    BY <1>5 DEF store
  <2>2. UNCHANGED pmem /\ last_allocation' \in {last_allocation, 0} /\ walk.on
    BY <1>5 DEF Jump, Skip, Wrap
  <2>3. walk.chunks # 0 /\ walk.i # NULL /\ room = 0 /\ pc # "idle"
    BY <1>0, <2>2 DEF Control
  <2>4. walk.i \in 0..Chunks
    BY <1>0, <2>3 DEF NULL
  <2>5. \/ \E i \in 0..Chunks : walk' = [walk EXCEPT !.i = i]
        \/ walk' = [walk EXCEPT !.i = 0, !.start = 0]
    <3>1. ASSUME Jump PROVE \E i \in 0..Chunks : walk' = [walk EXCEPT !.i = i]
      <4>1. walk.i \in Index /\ pmem[walk.i] # 0
        BY <1>0, <2>3, <2>4, <3>1 DEF Jump, InReach, Index
      <4>2. pmem[walk.i] - 1 \in 0..Cell - 1 /\ pmem[walk.i] - 1 < pmem[walk.i]
        BY <1>0, <4>1
      <4>3. walk.i + (pmem[walk.i] - 1) \in Index
        BY <1>0, <4>1, <4>2 DEF Countdown
      <4>4. walk.i + pmem[walk.i] \in 0..Chunks
        BY <1>0, <4>1, <4>3 DEF Index
      <4> QED BY <3>1, <4>4 DEF Jump
    <3>2. ASSUME Skip PROVE \E i \in 0..Chunks : walk' = [walk EXCEPT !.i = i]
      <4>1. PICK j \in Run(walk.i, walk.chunks) : walk' = [walk EXCEPT !.i = j + 1]
        BY <3>2 DEF Skip
      <4>2. j + 1 \in 0..Chunks
        BY <1>0, <2>4, <3>2, <4>1 DEF Skip, InReach, Run
      <4> QED BY <4>1, <4>2
    <3>3. ASSUME Wrap PROVE walk' = [walk EXCEPT !.i = 0, !.start = 0]
      BY <3>3 DEF Wrap
    <3> QED BY <1>5, <3>1, <3>2, <3>3
  <2>6. /\ walk' \in [on : BOOLEAN, chunks : 0..Cell - 1, i : -1..Chunks, start : Index]
        /\ walk'.on /\ walk'.chunks = walk.chunks /\ walk'.i \in 0..Chunks
    <3>1. walk \in [on : BOOLEAN, chunks : 0..Cell - 1, i : -1..Chunks, start : Index]
      BY <1>0 DEF SmemTypeOK
    <3>2. \A i \in 0..Chunks : i \in -1..Chunks
      OBVIOUS
    <3>3. CASE \E i \in 0..Chunks : walk' = [walk EXCEPT !.i = i]
      BY <2>2, <3>1, <3>2, <3>3
    <3>4. CASE walk' = [walk EXCEPT !.i = 0, !.start = 0]
      <4>1. walk' = [on |-> walk.on, chunks |-> walk.chunks, i |-> 0, start |-> 0]
        BY <3>1, <3>4
      <4>2. 0 \in -1..Chunks /\ 0 \in 0..Chunks
        OBVIOUS
      <4> QED BY <1>0, <2>2, <4>1, <4>2
    <3> QED BY <2>5, <3>3, <3>4
  <2>7. TypeOK'
    BY <1>0, <2>1, <2>2, <2>6 DEF TypeOK, SmemTypeOK
  <2>8. Control'
    BY <1>0, <2>1, <2>2, <2>3, <2>6 DEF Control, NULL
  <2>9. InHand' = InHand /\ ~Returned'
    BY <2>1, <2>2, <2>6 DEF InHand, Returned
  <2> QED BY <1>0, <2>1, <2>2, <2>7, <2>8, <2>9, HeapKept DEF Inv
<1>6. ASSUME GiveUp, UNCHANGED store PROVE Inv' /\ UNCHANGED pmem
  <2>1. UNCHANGED <<pmem, last_allocation, log, log_stored_messages, current_rate, pc, entry, size, again, room, sent>>
    BY <1>6 DEF store, GiveUp
  <2>2. walk' = Idle(NULL) /\ walk.on
    BY <1>6 DEF GiveUp
  <2>3. TypeOK'
    BY <1>0, <2>1, <2>2 DEF TypeOK, SmemTypeOK, Idle, NULL
  <2>4. Control'
    BY <1>0, <2>1, <2>2 DEF Control, Idle
  <2>5. InHand' = InHand /\ walk'.i = NULL
    BY <2>1, <2>2 DEF InHand, Returned, Idle
  <2> QED BY <1>0, <2>1, <2>3, <2>4, <2>5, HeapKept DEF Inv
<1>7. ASSUME UNCHANGED vars PROVE Inv' /\ UNCHANGED pmem
  <2>1. UNCHANGED <<pmem, last_allocation, walk, log, log_stored_messages, current_rate, pc, entry, size, again, room, sent>>
    BY <1>7 DEF vars, smem, store
  <2>2. TypeOK' /\ Control'
    BY <1>0, <2>1 DEF TypeOK, SmemTypeOK, Control
  <2>3. InHand' = InHand /\ (Returned' <=> Returned)
    BY <2>1 DEF InHand, Returned
  <2> QED BY <1>0, <2>1, <2>2, <2>3, HeapKept DEF Inv
<1> QED BY <1>1, <1>2, <1>3, <1>4, <1>5, <1>6, <1>7

(* rcpAlloc() succeeds: the new block is in hand. *)
LEMMA FoundStep ==
  ASSUME Inv, Found, UNCHANGED store
  PROVE  Inv' /\ walk.chunks \in 1..Cell - 1 /\ walk.i \in Index
<1> USE ConstFacts
<1>0. /\ TypeOK /\ SmemTypeOK /\ CellsOK /\ Control /\ Countdown /\ walk.on
      /\ walk.chunks \in 0..Cell - 1 /\ walk.i \in -1..Chunks
  BY CellsCountdown DEF Inv, TypeOK, SmemTypeOK, Found
<1>1. walk.chunks # 0 /\ walk.i # NULL /\ room = 0 /\ pc # "idle"
  BY <1>0 DEF Control
<1>2. walk.chunks \in 1..Cell - 1 /\ walk.i \in Index
  BY <1>0, <1>1 DEF Found, InReach, Index, NULL
<1>3. UNCHANGED <<log, log_stored_messages, current_rate, pc, entry, size, again, room, sent>>
  BY DEF store
<1>4. walk' = Idle(walk.i) /\ last_allocation' = walk.i
  BY DEF Found
<1>5. /\ pmem' \in [Index -> 0..Cell - 1] /\ Countdown' /\ ~Starts(walk.i)
      /\ \A j \in Index : Starts(j)' <=> Starts(j) \/ j = walk.i
  BY <1>0, <1>2, FoundBlock
<1>6. TypeOK'
  <2>1. walk' \in [on : BOOLEAN, chunks : 0..Cell - 1, i : -1..Chunks, start : Index]
    BY <1>0, <1>4 DEF Idle
  <2> QED BY <1>0, <1>2, <1>3, <1>4, <1>5, <2>1 DEF TypeOK, SmemTypeOK
<1>7. CellsOK'
  <2>1. Starts(last_allocation)'
    <3>1. pmem'[walk.i] # 0 /\ (walk.i = 0 \/ pmem'[walk.i - 1] < 2)
      BY <1>2, <1>5 DEF Starts
    <3> QED BY <1>4, <3>1 DEF Starts
  <2> QED BY <1>5, <2>1 DEF CellsOK, Countdown
<1>8. Control'
  BY <1>0, <1>1, <1>3, <1>4 DEF Control, Idle
<1>9. Entries' = Entries /\ Texts' = Texts
  BY <1>3 DEF Entries, Texts
<1>10. InHand' = InHand \cup {walk.i}
  BY <1>0, <1>1, <1>2, <1>3, <1>4 DEF InHand, Returned, Idle
<1>11. {i \in Index : Starts(i)} = Entries \cup Texts \cup InHand /\ Separate
  BY DEF Inv, NothingLost
<1>12. walk.i \notin Entries \cup Texts \cup InHand
  BY <1>2, <1>5, <1>11
<1>13. {i \in Index : Starts(i)'} = Entries \cup Texts \cup InHand \cup {walk.i}
  BY <1>2, <1>5, <1>11
<1>14. entry # walk.i
  BY <1>1, <1>12 DEF InHand
<1>15. Separate'
  BY <1>3, <1>4, <1>9, <1>10, <1>11, <1>12, <1>14 DEF Separate, Idle
<1>16. NothingLost'
  BY <1>3, <1>9, <1>10, <1>13, <1>15 DEF Inv, NothingLost
<1> QED BY <1>2, <1>6, <1>7, <1>8, <1>16 DEF Inv

(* What freeing does to CellsOK and to the set of blocks. *)
LEMMA FreeStep ==
  ASSUME Inv, NEW S, S \subseteq {j \in Index : Starts(j)}, pmem' = Freed(S),
         last_allocation' = last_allocation
  PROVE  /\ pmem' \in [Index -> 0..Cell - 1]
         /\ CellsOK'
         /\ {i \in Index : Starts(i)'} = {i \in Index : Starts(i)} \ S
<1>0. SmemTypeOK /\ CellsOK /\ Countdown /\ last_allocation \in Index
  BY CellsCountdown DEF Inv, TypeOK, SmemTypeOK
<1>1. /\ pmem' \in [Index -> 0..Cell - 1] /\ Countdown'
      /\ \A j \in Index : Starts(j)' <=> Starts(j) /\ j \notin S
      /\ \A j \in Index : pmem'[j] # 0 => pmem'[j] = pmem[j]
  BY <1>0, FreedBlocks
<1>2. pmem'[last_allocation'] = 0 \/ Starts(last_allocation)'
  <2>1. CASE pmem'[last_allocation] = 0
    BY <2>1
  <2>2. CASE pmem'[last_allocation] # 0
    <3>1. Starts(last_allocation)
      BY <1>0, <1>1, <2>2 DEF CellsOK
    <3>2. last_allocation \notin S
      <4> SUFFICES ASSUME last_allocation \in S PROVE FALSE
        OBVIOUS
      <4>1. pmem[last_allocation] \in 0..Cell - 1 /\ pmem[last_allocation] # 0
        BY <1>0, <3>1 DEF SmemTypeOK, Starts
      <4>2. last_allocation \in Run(last_allocation, pmem[last_allocation])
        BY <1>0, <4>1, ConstFacts DEF Run, Index
      <4>3. pmem'[last_allocation] = 0
        BY <1>0, <4>2 DEF Freed
      <4> QED BY <2>2, <4>3
    <3>3. pmem'[last_allocation] # 0 /\ (last_allocation = 0 \/ pmem'[last_allocation - 1] < 2)
      BY <1>0, <1>1, <3>1, <3>2 DEF Starts
    <3> QED BY <3>3 DEF Starts
  <2> QED BY <2>1, <2>2
<1>3. CellsOK'
  BY <1>1, <1>2 DEF CellsOK, Countdown
<1> QED BY <1>1, <1>3

(* The oldest message makes room. *)
LEMMA RemoveStep ==
  ASSUME Inv, RemoveLast
  PROVE  /\ Inv'
         /\ UNCHANGED pmem \/ \E S \in SUBSET {j \in Index : Starts(j)} : pmem' = Freed(S)
<1> USE ConstFacts
<1>0. /\ TypeOK /\ SmemTypeOK /\ CellsOK /\ Control /\ room \in Nat /\ room > 0 /\ room' = room - 1
      /\ log \in Seq([entry : Index, text : Index]) /\ Len(log) \in Nat
      /\ log_stored_messages = Len(log)
  BY DEF Inv, TypeOK, NothingLost, RemoveLast
<1>1. pc # "idle" /\ ~walk.on /\ walk.i = NULL /\ size \in TextChunks /\ ~Returned
  BY <1>0 DEF Control, Returned
<1>2. UNCHANGED <<last_allocation, current_rate, pc, entry, size, again, sent>>
  BY DEF RemoveLast
<1>3. /\ walk' \in [on : BOOLEAN, chunks : 0..Cell - 1, i : -1..Chunks, start : Index]
      /\ room' = 0 => walk'.on /\ walk'.chunks # 0 /\ walk'.i # NULL
      /\ room' # 0 => walk' = walk
  <2>1. CASE room' = 0
    <3> DEFINE n == IF pc = "entry" THEN EntryChunks ELSE size
    <3>1. n \in 1..Cell - 1
      BY <1>1
    <3> HIDE DEF n
    <3>2. walk' = [on |-> TRUE, chunks |-> n, i |-> last_allocation, start |-> last_allocation]
      BY <2>1 DEF RemoveLast, n
    <3>3. walk' \in [on : BOOLEAN, chunks : 0..Cell - 1, i : -1..Chunks, start : Index]
      BY <1>0, <3>1, <3>2, CallTyped
    <3> QED BY <1>0, <2>1, <3>1, <3>2, <3>3 DEF SmemTypeOK
  <2>2. CASE room' # 0
    BY <1>0, <2>2 DEF RemoveLast, SmemTypeOK
  <2> QED BY <2>1, <2>2
<1>4. Control'
  BY <1>0, <1>1, <1>2, <1>3 DEF Control
<1>5. ~Returned'
  BY <1>0, <1>3 DEF Returned
<1>6. InHand' = InHand
  BY <1>1, <1>2, <1>5 DEF InHand
<1>7. room' \in 0..3 * Batch
  BY <1>0 DEF TypeOK
<1>8. CASE Len(log) < 2
  <2>1. UNCHANGED <<pmem, log, log_stored_messages>>
    BY <1>8 DEF RemoveLast
  <2>2. TypeOK'
    BY <1>0, <1>2, <1>3, <1>7, <2>1 DEF TypeOK, SmemTypeOK
  <2> QED BY <1>0, <1>2, <1>4, <1>5, <1>6, <2>1, <2>2, HeapKept DEF Inv, CellsOK
<1>9. CASE Len(log) >= 2
  <2> DEFINE n == Len(log)
             S == {log[n].entry, log[n].text}
  <2>1. /\ pmem' = Freed(S)
        /\ log' = SubSeq(log, 1, n - 1)
        /\ log_stored_messages' = log_stored_messages - 1
    BY <1>0, <1>9 DEF RemoveLast
  <2>2. /\ log' \in Seq([entry : Index, text : Index]) /\ Len(log') = n - 1
        /\ \A k \in 1..n - 1 : log'[k] = log[k]
    <3>1. \A k \in 1..n : log[k] \in [entry : Index, text : Index]
      BY <1>0, ElementOfSeq, Zenon
    <3>2. \A k \in 1..n - 1 : k \in 1..n
      BY <1>0
    <3>3. /\ SubSeq(log, 1, n - 1) \in Seq([entry : Index, text : Index])
          /\ Len(SubSeq(log, 1, n - 1)) = n - 1
          /\ \A k \in 1..n - 1 : SubSeq(log, 1, n - 1)[k] = log[k]
      <4> HIDE DEF n
      <4>1. n \in Int /\ 1 \in Int /\ n - 1 \in Int /\ 1 <= n - 1 /\ (n - 1) - 1 + 1 = n - 1
        BY <1>0, <1>9 DEF n
      <4>2. \A k \in 1..n - 1 : log[k] \in [entry : Index, text : Index]
        BY <3>1, <3>2
      <4>3. /\ SubSeq(log, 1, n - 1) \in Seq([entry : Index, text : Index])
            /\ Len(SubSeq(log, 1, n - 1)) = IF 1 <= n - 1 THEN (n - 1) - 1 + 1 ELSE 0
            /\ \A k \in 1..(n - 1) - 1 + 1 : SubSeq(log, 1, n - 1)[k] = log[1 + k - 1]
        <5> DEFINE T == [entry : Index, text : Index]
                   l == n - 1
        <5>1. \A k \in 1..l : log[k] \in T
          BY <4>2
        <5>2. 1 \in Int /\ l \in Int
          BY <4>1
        <5> HIDE DEF T, l
        <5>3. /\ SubSeq(log, 1, l) \in Seq(T)
              /\ Len(SubSeq(log, 1, l)) = IF 1 <= l THEN l - 1 + 1 ELSE 0
              /\ \A k \in 1..l - 1 + 1 : SubSeq(log, 1, l)[k] = log[1 + k - 1]
          BY <5>1, <5>2, SubSeqProperties
        <5> QED BY <5>3 DEF T, l
      <4>4. \A k \in 1..n - 1 : 1 + k - 1 = k
        OBVIOUS
      <4> QED BY <4>1, <4>3, <4>4
    <3> QED BY <2>1, <3>3
  <2>3. n \in 1..Len(log) /\ \A k \in 1..Len(log) : log[k].entry \in Entries /\ log[k].text \in Texts
    BY <1>0, <1>9 DEF Entries, Texts
  <2>4. {i \in Index : Starts(i)} = Entries \cup Texts \cup InHand /\ Separate
    BY DEF Inv, NothingLost
  <2>5. S \subseteq {j \in Index : Starts(j)}
    BY <2>3, <2>4
  <2>6. /\ pmem' \in [Index -> 0..Cell - 1] /\ CellsOK'
        /\ {i \in Index : Starts(i)'} = {i \in Index : Starts(i)} \ S
    BY <1>2, <2>1, <2>5, FreeStep
  <2>7. Entries' = {log[k].entry : k \in 1..n - 1} /\ Texts' = {log[k].text : k \in 1..n - 1}
    BY <2>2 DEF Entries, Texts
  <2>8. Entries = {log[k].entry : k \in 1..n - 1} \cup {log[n].entry}
    <3>1. \A k \in 1..n : k \in 1..n - 1 \/ k = n
      BY <1>0
    <3>2. \A k \in 1..n - 1 : k \in 1..n
      BY <1>0
    <3> QED BY <2>3, <3>1, <3>2 DEF Entries
  <2>9. Texts = {log[k].text : k \in 1..n - 1} \cup {log[n].text}
    <3>1. \A k \in 1..n : k \in 1..n - 1 \/ k = n
      BY <1>0
    <3>2. \A k \in 1..n - 1 : k \in 1..n
      BY <1>0
    <3> QED BY <2>3, <3>1, <3>2 DEF Texts
  <2>10. \A k \in 1..n - 1 : k \in 1..n /\ k # n
    BY <1>0
  <2>11. log[n].entry \notin Entries' /\ log[n].text \notin Texts'
    BY <2>3, <2>4, <2>7, <2>10 DEF Separate
  <2>12. Entries' = Entries \ {log[n].entry} /\ Texts' = Texts \ {log[n].text}
    BY <2>7, <2>8, <2>9, <2>11
  <2>13. Entries \cap Texts = {} /\ InHand \cap (Entries \cup Texts) = {}
    BY <2>4 DEF Separate
  <2>14. {i \in Index : Starts(i)'} = Entries' \cup Texts' \cup InHand'
    BY <1>6, <2>3, <2>4, <2>6, <2>12, <2>13
  <2>15. Separate'
    <3>1. \A k, l \in 1..Len(log') :
             k # l => log'[k].entry # log'[l].entry /\ log'[k].text # log'[l].text
      BY <2>2, <2>4, <2>10 DEF Separate
    <3>2. Entries' \cap Texts' = {} /\ InHand' \cap (Entries' \cup Texts') = {}
      BY <1>6, <2>12, <2>13
    <3> QED BY <1>5, <3>1, <3>2 DEF Separate
  <2>16. log_stored_messages' = Len(log') /\ log_stored_messages' \in Nat
    BY <1>0, <1>9, <2>1, <2>2
  <2>17. NothingLost'
    BY <2>14, <2>15, <2>16 DEF NothingLost
  <2>18. TypeOK'
    BY <1>0, <1>2, <1>3, <1>7, <2>2, <2>6, <2>16 DEF TypeOK, SmemTypeOK
  <2> QED BY <1>4, <2>1, <2>5, <2>6, <2>17, <2>18 DEF Inv
<1> QED BY <1>0, <1>8, <1>9

(* No room: the entry in hand is given back. *)
LEMMA GiveUpStep ==
  ASSUME Inv, GiveUpMessage
  PROVE  /\ Inv'
         /\ UNCHANGED pmem \/ \E S \in SUBSET {j \in Index : Starts(j)} : pmem' = Freed(S)
<1> USE ConstFacts
<1>0. /\ TypeOK /\ SmemTypeOK /\ CellsOK /\ Control /\ Returned /\ walk.i = NULL
      /\ UNCHANGED <<last_allocation, walk, log, log_stored_messages, sent, current_rate, again, room>>
      /\ pc' = "idle" /\ entry' = NULL /\ size' = 0
  BY DEF Inv, TypeOK, GiveUpMessage, Finish
<1>1. ~walk.on /\ room = 0 /\ ~Returned' /\ InHand' = {} /\ InHand = {entry} \ {NULL}
  BY <1>0 DEF Returned, InHand
<1>2. Control'
  BY <1>0, <1>1 DEF Control
<1>3. CASE entry = NULL
  <2>1. UNCHANGED pmem /\ InHand' = InHand
    BY <1>1, <1>3 DEF GiveUpMessage
  <2>2. TypeOK'
    BY <1>0, <2>1 DEF TypeOK, SmemTypeOK
  <2> QED BY <1>0, <1>1, <1>2, <2>1, <2>2, HeapKept DEF Inv, CellsOK
<1>4. CASE entry # NULL
  <2>1. pmem' = Freed({entry}) /\ InHand = {entry}
    BY <1>1, <1>4 DEF GiveUpMessage
  <2>2. {i \in Index : Starts(i)} = Entries \cup Texts \cup InHand /\ Separate
    BY DEF Inv, NothingLost
  <2>3. {entry} \subseteq {j \in Index : Starts(j)}
    BY <2>1, <2>2
  <2>4. /\ pmem' \in [Index -> 0..Cell - 1] /\ CellsOK'
        /\ {i \in Index : Starts(i)'} = {i \in Index : Starts(i)} \ {entry}
    BY <1>0, <2>1, <2>3, FreeStep
  <2>5. Entries' = Entries /\ Texts' = Texts
    BY <1>0 DEF Entries, Texts
  <2>6. InHand \cap (Entries \cup Texts) = {}
    BY <2>2 DEF Separate
  <2>7. {i \in Index : Starts(i)'} = Entries' \cup Texts' \cup InHand'
    BY <1>1, <2>1, <2>2, <2>4, <2>5, <2>6
  <2>8. Separate'
    BY <1>0, <1>1, <2>2, <2>5 DEF Separate
  <2>9. NothingLost'
    BY <1>0, <2>7, <2>8 DEF Inv, NothingLost
  <2>10. TypeOK'
    BY <1>0, <2>4 DEF TypeOK, SmemTypeOK
  <2> QED BY <1>2, <2>1, <2>3, <2>4, <2>9, <2>10 DEF Inv
<1> QED BY <1>3, <1>4

(* The message is linked in: what was in hand is now in the list. *)
LEMMA LinkStep ==
  ASSUME Inv, Link
  PROVE  Inv' /\ UNCHANGED pmem
<1> USE ConstFacts
<1>0. /\ TypeOK /\ SmemTypeOK /\ CellsOK /\ Control /\ Returned /\ pc = "text" /\ walk.i # NULL
      /\ UNCHANGED <<pmem, last_allocation, walk, current_rate, again, room>>
      /\ pc' = "idle" /\ entry' = NULL /\ size' = 0 /\ sent' \in BOOLEAN
      /\ log_stored_messages' = log_stored_messages + 1
      /\ log \in Seq([entry : Index, text : Index]) /\ Len(log) \in Nat
      /\ log_stored_messages = Len(log)
  BY DEF Inv, TypeOK, Link, Finish, smem, NothingLost
<1>1. ~walk.on /\ room = 0 /\ ~Returned' /\ InHand' = {} /\ entry # NULL
  BY <1>0 DEF Returned, InHand, Control
<1>2. InHand = {entry, walk.i}
  BY <1>0, <1>1 DEF InHand
<1>3. {i \in Index : Starts(i)} = Entries \cup Texts \cup InHand /\ Separate
  BY DEF Inv, NothingLost
<1>4. entry \in Index /\ walk.i \in Index
  BY <1>2, <1>3
<1> DEFINE m == [entry |-> entry, text |-> walk.i]
           n == Len(log)
<1>5. m \in [entry : Index, text : Index] /\ m.entry = entry /\ m.text = walk.i
  BY <1>4
<1>6. log' = <<m>> \o log
  BY DEF Link
<1> HIDE DEF m
<1>7. /\ log' \in Seq([entry : Index, text : Index])
      /\ Len(log') = n + 1 /\ log'[1] = m
      /\ \A k \in 1..n : log'[k + 1] = log[k]
  <2>1. <<m>> \in Seq([entry : Index, text : Index]) /\ Len(<<m>>) = 1 /\ <<m>>[1] = m
    BY <1>5
  <2>2. /\ log' \in Seq([entry : Index, text : Index]) /\ Len(log') = n + 1
    BY <1>0, <1>6, <2>1
  <2>3. \A k \in 1..n + 1 : log'[k] = IF k <= 1 THEN <<m>>[k] ELSE log[k - 1]
    BY <1>0, <1>6, <2>1
  <2>4. 1 \in 1..n + 1 /\ \A k \in 1..n : k + 1 \in 1..n + 1 /\ ~(k + 1 <= 1) /\ (k + 1) - 1 = k
    BY <1>0
  <2> QED BY <2>1, <2>2, <2>3, <2>4
<1>8. \A k \in 1..n + 1 : k = 1 \/ (k - 1 \in 1..n /\ log'[k] = log[k - 1])
  BY <1>0, <1>7
<1>9. \A k \in 1..n : k + 1 \in 1..n + 1
  BY <1>0
<1>10. 1 \in 1..n + 1
  BY <1>0
<1>11. Entries' = Entries \cup {entry}
  <2>1. \A x \in Entries' : x \in Entries \cup {entry}
    <3>1. SUFFICES ASSUME NEW k \in 1..n + 1 PROVE log'[k].entry \in Entries \cup {entry}
      BY <1>7 DEF Entries
    <3> QED BY <1>5, <1>7, <1>8 DEF Entries
  <2>2. \A k \in 1..n : log[k].entry \in Entries'
    BY <1>7, <1>9 DEF Entries
  <2>3. entry \in Entries'
    BY <1>5, <1>7, <1>10 DEF Entries
  <2>4. \A x \in Entries : x \in Entries'
    BY <2>2 DEF Entries
  <2> QED BY <2>1, <2>3, <2>4
<1>12. Texts' = Texts \cup {walk.i}
  <2>1. \A x \in Texts' : x \in Texts \cup {walk.i}
    <3>1. SUFFICES ASSUME NEW k \in 1..n + 1 PROVE log'[k].text \in Texts \cup {walk.i}
      BY <1>7 DEF Texts
    <3> QED BY <1>5, <1>7, <1>8 DEF Texts
  <2>2. \A k \in 1..n : log[k].text \in Texts'
    BY <1>7, <1>9 DEF Texts
  <2>3. walk.i \in Texts'
    BY <1>5, <1>7, <1>10 DEF Texts
  <2>4. \A x \in Texts : x \in Texts'
    BY <2>2 DEF Texts
  <2> QED BY <2>1, <2>3, <2>4
<1>13. /\ Entries \cap Texts = {} /\ {entry, walk.i} \cap (Entries \cup Texts) = {}
       /\ entry # walk.i
  BY <1>0, <1>2, <1>3 DEF Separate
<1>14. \A k, l \in 1..n + 1 :
          k # l => log'[k].entry # log'[l].entry /\ log'[k].text # log'[l].text
  <2> SUFFICES ASSUME NEW k \in 1..n + 1, NEW l \in 1..n + 1, k # l
               PROVE  log'[k].entry # log'[l].entry /\ log'[k].text # log'[l].text
    OBVIOUS
  <2>1. \A i \in 1..n : log[i].entry \in Entries /\ log[i].text \in Texts
    BY DEF Entries, Texts
  <2>2. CASE k = 1
    <3>1. l - 1 \in 1..n /\ log'[l] = log[l - 1]
      BY <1>8, <2>2
    <3> QED BY <1>5, <1>7, <1>13, <2>1, <2>2, <3>1
  <2>3. CASE l = 1
    <3>1. k - 1 \in 1..n /\ log'[k] = log[k - 1]
      BY <1>8, <2>3
    <3> QED BY <1>5, <1>7, <1>13, <2>1, <2>3, <3>1
  <2>4. CASE k # 1 /\ l # 1
    <3>1. k - 1 \in 1..n /\ l - 1 \in 1..n /\ log'[k] = log[k - 1] /\ log'[l] = log[l - 1]
      BY <1>8, <2>4
    <3>2. k - 1 # l - 1
      BY <1>0
    <3> QED BY <1>3, <3>1, <3>2 DEF Separate
  <2> QED BY <2>2, <2>3, <2>4
<1>15. Separate'
  <2>1. Entries' \cap Texts' = {} /\ InHand' \cap (Entries' \cup Texts') = {}
    BY <1>1, <1>11, <1>12, <1>13
  <2> QED BY <1>1, <1>7, <1>14, <2>1 DEF Separate
<1>16. {i \in Index : Starts(i)'} = {i \in Index : Starts(i)}
  BY <1>0 DEF Starts
<1>17. {i \in Index : Starts(i)'} = Entries' \cup Texts' \cup InHand'
  BY <1>1, <1>2, <1>3, <1>11, <1>12, <1>16
<1>18. NothingLost'
  BY <1>0, <1>7, <1>15, <1>17 DEF NothingLost
<1>19. CellsOK'
  BY <1>0 DEF CellsOK, Starts
<1>20. TypeOK'
  BY <1>0, <1>7 DEF TypeOK, SmemTypeOK
<1>21. Control'
  BY <1>0, <1>1 DEF Control
<1> QED BY <1>0, <1>18, <1>19, <1>20, <1>21 DEF Inv

(* clear logging gives every block back: none is left. *)
LEMMA ClearStep ==
  ASSUME Inv, ClearLogging
  PROVE  Inv' /\ \E S \in SUBSET {j \in Index : Starts(j)} : pmem' = Freed(S)
<1> USE ConstFacts
<1>0. /\ TypeOK /\ SmemTypeOK /\ CellsOK /\ Control /\ pc = "idle"
      /\ UNCHANGED <<last_allocation, walk, current_rate, pc, entry, size, again, room, sent>>
      /\ pmem' = Freed(Entries \cup Texts) /\ log' = <<>>
      /\ log_stored_messages' = log_stored_messages - Len(log)
      /\ log_stored_messages = Len(log) /\ Len(log) \in Nat
  BY DEF Inv, TypeOK, ClearLogging, Entries, Texts, NothingLost
<1>1. entry = NULL /\ ~Returned /\ ~Returned' /\ InHand = {} /\ InHand' = {}
  BY <1>0 DEF Control, Returned, InHand
<1>2. {i \in Index : Starts(i)} = Entries \cup Texts
  BY <1>1 DEF Inv, NothingLost
<1>3. Entries \cup Texts \subseteq {j \in Index : Starts(j)}
  BY <1>2
<1>4. /\ pmem' \in [Index -> 0..Cell - 1] /\ CellsOK'
      /\ {i \in Index : Starts(i)'} = {i \in Index : Starts(i)} \ (Entries \cup Texts)
  BY <1>0, <1>3, FreeStep
<1>5. Entries' = {} /\ Texts' = {} /\ Len(log') = 0 /\ log' \in Seq([entry : Index, text : Index])
  BY <1>0 DEF Entries, Texts
<1>6. Separate'
  BY <1>1, <1>5 DEF Separate
<1>7. log_stored_messages' = 0
  BY <1>0
<1>8. NothingLost'
  BY <1>1, <1>2, <1>4, <1>5, <1>6, <1>7 DEF NothingLost
<1>9. TypeOK'
  <2>1. /\ current_rate' \in 0..rate_limit + 1 /\ pc' \in {"idle", "entry", "text"}
        /\ entry' \in Index \cup {NULL} /\ size' \in TextChunks \cup {0}
        /\ again' \in BOOLEAN /\ room' \in 0..3 * Batch /\ sent' \in BOOLEAN
    BY <1>0 DEF TypeOK
  <2>2. SmemTypeOK'
    BY <1>0, <1>4 DEF SmemTypeOK
  <2> QED BY <1>5, <1>7, <2>1, <2>2 DEF TypeOK
<1>10. Control'
  BY <1>0 DEF Control
<1> QED BY <1>0, <1>3, <1>4, <1>8, <1>9, <1>10 DEF Inv

(* ------------------------------- theorems ------------------------------- *)

(* What a step does to the cells: nothing, or one allocation, or one release. *)
LEMMA InvStep ==
  ASSUME Inv, [Next]_vars
  PROVE  /\ Inv'
         /\ \/ UNCHANGED pmem
            \/ Found /\ walk.chunks \in 1..Cell - 1 /\ walk.i \in Index
            \/ \E S \in SUBSET {j \in Index : Starts(j)} : pmem' = Freed(S)
<1>1. CASE \/ \E n \in TextChunks, wanted \in BOOLEAN : Message(n, wanted)
           \/ RateTimer \/ EntryDone \/ MakeRoom
           \/ (Jump \/ Skip \/ Wrap \/ GiveUp) /\ UNCHANGED store
           \/ UNCHANGED vars
  BY <1>1, QuietSteps
<1>2. CASE Found /\ UNCHANGED store
  BY <1>2, FoundStep
<1>3. CASE RemoveLast
  BY <1>3, RemoveStep
<1>4. CASE GiveUpMessage
  BY <1>4, GiveUpStep
<1>5. CASE Link
  BY <1>5, LinkStep
<1>6. CASE ClearLogging
  BY <1>6, ClearStep
<1> QED BY <1>1, <1>2, <1>3, <1>4, <1>5, <1>6 DEF Next, logStore, Allocating, Walk

(* For every size of the memory, of a cell and of the messages: the cells of a *)
(* block count down to its end, so that rcpAlloc() never jumps out of memory   *)
(* or into a block, and every block is in use by exactly one message or by     *)
(* logStore(), whatever allocation failed.                                     *)
THEOREM LogHeap == Spec => [](CellsOK /\ NothingLost)
<1>1. Init => Inv
  BY InvInit
<1>2. Inv /\ [Next]_vars => Inv'
  BY InvStep
<1>3. Inv => CellsOK /\ NothingLost
  BY DEF Inv
<1> QED BY <1>1, <1>2, <1>3, PTL DEF Spec

(* The type invariant of the log and of the allocator. *)
THEOREM LogTyped == Spec => []TypeOK
<1>1. Init => Inv
  BY InvInit
<1>2. Inv /\ [Next]_vars => Inv'
  BY InvStep
<1>3. Inv => TypeOK
  BY DEF Inv
<1> QED BY <1>1, <1>2, <1>3, PTL DEF Spec

(* One allocation adds one block, as long as asked for, that shares no chunk  *)
(* with another one.                                                          *)
LEMMA FoundIsTake ==
  ASSUME Inv, Found, walk.chunks \in 1..Cell - 1, walk.i \in Index
  PROVE  HeapOf!Take
<1> USE ConstFacts
<1> DEFINE b == [at |-> walk.i, len |-> walk.chunks]
<1>0. SmemTypeOK /\ Countdown
  BY CellsCountdown DEF Inv, TypeOK
<1>1. /\ walk.i + walk.chunks <= Chunks
      /\ pmem'[walk.i] = walk.chunks
      /\ \A j \in Index : Starts(j)' <=> Starts(j) \/ j = walk.i
      /\ ~Starts(walk.i)
      /\ \A j \in Index : Starts(j) =>
            pmem'[j] = pmem[j] /\ (j + pmem[j] <= walk.i \/ walk.i + walk.chunks <= j)
  BY <1>0, FoundBlock
<1>2. b.at = walk.i /\ b.len = walk.chunks
  OBVIOUS
<1>3. b \in [at : 0..Chunks - 1, len : 1..Chunks]
  BY <1>1 DEF Index
<1>4. ASSUME NEW c \in Blocks
      PROVE  /\ c.at \in Index /\ c.at # walk.i /\ c \in Blocks'
             /\ b.at + b.len <= c.at \/ c.at + c.len <= b.at
  <2>1. PICK j \in Index : Starts(j) /\ c = [at |-> j, len |-> pmem[j]]
    BY DEF Blocks
  <2>2. c.at = j /\ c.len = pmem[j]
    BY <2>1
  <2>3. Starts(j)' /\ c = [at |-> j, len |-> pmem'[j]]
    BY <1>1, <2>1
  <2>4. c \in Blocks'
    BY <2>3 DEF Blocks
  <2> QED BY <1>1, <1>2, <2>1, <2>2, <2>4
<1>5. b \in Blocks'
  <2>1. PICK j \in Index : j = walk.i
    OBVIOUS
  <2>2. Starts(j)' /\ b = [at |-> j, len |-> pmem'[j]]
    BY <1>1, <2>1
  <2> HIDE DEF b
  <2> QED BY <2>2 DEF Blocks
<1>6. b \notin Blocks
  BY <1>2, <1>4
<1>7. ASSUME NEW c \in Blocks' PROVE c \in Blocks \cup {b}
  <2>1. PICK j \in Index : Starts(j)' /\ c = [at |-> j, len |-> pmem'[j]]
    BY DEF Blocks
  <2>2. CASE j = walk.i
    BY <1>1, <2>1, <2>2
  <2>3. CASE j # walk.i
    <3>1. Starts(j) /\ c = [at |-> j, len |-> pmem[j]]
      BY <1>1, <2>1, <2>3
    <3> QED BY <3>1 DEF Blocks
  <2> QED BY <2>2, <2>3
<1>8. Blocks' = Blocks \cup {b}
  BY <1>4, <1>5, <1>7
<1> HIDE DEF b
<1> QED BY <1>1, <1>2, <1>3, <1>4, <1>5, <1>6, <1>8
         DEF HeapOf!Take, HeapOf!Block, HeapOf!Fits, HeapOf!Disjoint

(* What rcpFree() leaves are blocks that were there before. *)
LEMMA FreedIsRelease ==
  ASSUME Inv, NEW S \in SUBSET {j \in Index : Starts(j)}, pmem' = Freed(S)
  PROVE  HeapOf!Release
<1>0. SmemTypeOK /\ Countdown
  BY CellsCountdown DEF Inv, TypeOK
<1>1. /\ \A j \in Index : Starts(j)' <=> Starts(j) /\ j \notin S
      /\ \A j \in Index : pmem'[j] # 0 => pmem'[j] = pmem[j]
  BY <1>0, FreedBlocks
<1>2. ASSUME NEW c \in Blocks' PROVE c \in Blocks
  <2>1. PICK j \in Index : Starts(j)' /\ c = [at |-> j, len |-> pmem'[j]]
    BY DEF Blocks
  <2>2. pmem'[j] # 0
    BY <2>1 DEF Starts
  <2>3. Starts(j) /\ c = [at |-> j, len |-> pmem[j]]
    BY <1>1, <2>1, <2>2
  <2> QED BY <2>3 DEF Blocks
<1> QED BY <1>2 DEF HeapOf!Release

(* The allocator, as the log uses it, is the heap its users rely on: a block *)
(* is as long as asked for, and nobody else has a chunk of it until it is    *)
(* freed.                                                                    *)
THEOREM HeapImplemented == Spec => HeapSpec
<1>1. Init => Inv
  BY InvInit
<1>2. Inv /\ [Next]_vars => Inv'
  BY InvStep
<1>3. Init => HeapOf!Init
  <2> SUFFICES ASSUME Init PROVE Blocks = {}
    BY DEF HeapOf!Init
  <2>1. \A j \in Index : ~Starts(j)
    BY DEF Init, smem_initialize, Starts
  <2> QED BY <2>1 DEF Blocks
<1>4. Inv /\ [Next]_vars => [HeapOf!Next]_Blocks
  <2> SUFFICES ASSUME Inv, [Next]_vars PROVE HeapOf!Next \/ Blocks' = Blocks
    OBVIOUS
  <2>1. CASE UNCHANGED pmem
    BY <2>1 DEF Blocks, Starts
  <2>2. CASE Found /\ walk.chunks \in 1..Cell - 1 /\ walk.i \in Index
    BY <2>2, FoundIsTake DEF HeapOf!Next
  <2>3. CASE \E S \in SUBSET {j \in Index : Starts(j)} : pmem' = Freed(S)
    BY <2>3, FreedIsRelease DEF HeapOf!Next
  <2> QED BY <2>1, <2>2, <2>3, InvStep
<1> QED BY <1>1, <1>2, <1>3, <1>4, PTL DEF Spec, HeapSpec, HeapOf!Spec

=============================================================================
