------------------------------ MODULE LogStore ------------------------------
(***************************************************************************)
(* The log of rcp100 (services/exec/log.c): messages of the daemons are    *)
(* kept in a list in shared memory, newest first, each one as an entry and *)
(* a text that are two blocks of the log's heap.  When the heap is full    *)
(* the oldest messages make room.                                          *)
(*                                                                         *)
(* Only the services process writes the log: one message is stored, or the *)
(* log is cleared, at a time.  The steps are the allocator's.              *)
(***************************************************************************)
EXTENDS Smem, Sequences

CONSTANTS
    EntryChunks,  \* sizeof(RcpLogEntry): 3 chunks
    TextChunks,   \* lengths of a text: 1 to 65 chunks
    Batch,        \* messages removed by free_some_space(): 10
    rate_limit    \* messages accepted in a second

ASSUME LogConstants ==
    /\ EntryChunks \in 1..Cell - 1
    /\ TextChunks \subseteq 1..Cell - 1
    /\ Batch \in Nat \ {0} /\ rate_limit \in Nat

VARIABLES
    log,          \* log_head to log_tail: the blocks of each message
    log_stored_messages,
    current_rate,
    pc,           \* where logStore() is
    entry,        \* its entry
    size,         \* chunks of its text
    again,        \* it has made room already
    room,         \* messages it still removes
    sent          \* the last message stored went to the syslog servers

store == <<log, log_stored_messages, current_rate, pc, entry, size, again, room, sent>>

vars == <<smem, store>>

TypeOK ==
    /\ SmemTypeOK
    /\ log \in Seq([entry : Index, text : Index])
    /\ log_stored_messages \in Nat
    /\ current_rate \in 0..rate_limit + 1
    /\ pc \in {"idle", "entry", "text"}
    /\ entry \in Index \cup {NULL}
    /\ size \in TextChunks \cup {0}
    /\ again \in BOOLEAN
    /\ room \in 0..3 * Batch
    /\ sent \in BOOLEAN

Init ==
    /\ smem_initialize
    /\ log = <<>>
    /\ log_stored_messages = 0
    /\ current_rate = 0
    /\ pc = "idle"
    /\ entry = NULL
    /\ size = 0
    /\ again = FALSE
    /\ room = 0
    /\ sent = TRUE

\* Mutant: the text is measured one chunk too long.
MessageLong(n, wanted) ==
    /\ pc = "idle"
    /\ current_rate < rate_limit /\ wanted
    /\ current_rate' = current_rate + 1
    /\ pc' = "entry"
    /\ size' = n + 1
    /\ rcpAlloc(EntryChunks)
    /\ again' = FALSE
    /\ UNCHANGED <<log, log_stored_messages, entry, room, sent>>

\* wanted: the level or the facility of the message is logged.
rcpLogAccept(rate, wanted) == rate <= rate_limit /\ wanted

\* A message comes in: it is counted, and stored if it is accepted.  The rate
\* is counted up to the first value beyond the limit.
Message(n, wanted) ==
    /\ pc = "idle"
    /\ current_rate' = IF current_rate <= rate_limit THEN current_rate + 1 ELSE current_rate
    /\ IF rcpLogAccept(current_rate', wanted)
       THEN /\ pc' = "entry"
            /\ size' = n
            /\ rcpAlloc(EntryChunks)
       ELSE UNCHANGED <<smem, pc, size>>
    /\ again' = FALSE
    /\ UNCHANGED <<log, log_stored_messages, entry, room, sent>>

\* The timer branch of the services process
RateTimer ==
    /\ pc = "idle"
    /\ current_rate # 0
    /\ current_rate' = 0
    /\ UNCHANGED <<smem, log, log_stored_messages, pc, entry, size, again, room, sent>>

Returned == pc # "idle" /\ ~walk.on /\ room = 0

\* rcpAlloc() is at work
Allocating ==
    /\ Walk
    /\ UNCHANGED store

\* The entry is allocated: now the text
EntryDone ==
    /\ Returned /\ pc = "entry" /\ walk.i # NULL
    /\ entry' = walk.i
    /\ pc' = "text"
    /\ again' = FALSE
    /\ rcpAlloc(size)
    /\ UNCHANGED <<log, log_stored_messages, current_rate, size, room, sent>>

\* No memory: free_some_space(), once for an entry, three times for a text
MakeRoom ==
    /\ Returned /\ walk.i = NULL /\ ~again
    /\ again' = TRUE
    /\ room' = IF pc = "entry" THEN Batch ELSE 3 * Batch
    /\ UNCHANGED <<smem, log, log_stored_messages, current_rate, pc, entry, size, sent>>

\* One remove_last_message() of free_some_space(); the newest message stays.
\* After the last one rcpAlloc() is called once more.
RemoveLast ==
    /\ room > 0
    /\ room' = room - 1
    /\ IF Len(log) < 2
       THEN UNCHANGED <<pmem, log, log_stored_messages>>
       ELSE LET oldest == log[Len(log)]
            IN /\ pmem' = Freed({oldest.entry, oldest.text})
               /\ log' = SubSeq(log, 1, Len(log) - 1)
               /\ log_stored_messages' = log_stored_messages - 1
    /\ walk' = IF room' = 0
               THEN [on |-> TRUE, chunks |-> IF pc = "entry" THEN EntryChunks ELSE size,
                     i |-> last_allocation, start |-> last_allocation]
               ELSE walk
    /\ UNCHANGED <<last_allocation, current_rate, pc, entry, size, again, sent>>

Finish ==
    /\ pc' = "idle"
    /\ entry' = NULL
    /\ size' = 0
    /\ UNCHANGED <<current_rate, again, room>>

\* Mutant: the entry stays allocated when there is no room for the text.
GiveUpLeaks ==
    /\ Returned /\ walk.i = NULL /\ again
    /\ Finish
    /\ UNCHANGED <<smem, log, log_stored_messages, sent>>

\* Still no memory: the message is dropped, and its entry freed.
GiveUpMessage ==
    /\ Returned /\ walk.i = NULL /\ again
    /\ pmem' = IF entry = NULL THEN pmem ELSE Freed({entry})
    /\ Finish
    /\ UNCHANGED <<last_allocation, walk, log, log_stored_messages, sent>>

\* Both are allocated: the message is linked in.  The first one is not sent:
\* logStore() returns as soon as it is linked.
Link ==
    /\ Returned /\ pc = "text" /\ walk.i # NULL
    /\ log' = <<[entry |-> entry, text |-> walk.i]>> \o log
    /\ log_stored_messages' = log_stored_messages + 1
    /\ sent' = (log # <<>>)
    /\ Finish
    /\ UNCHANGED smem

\* clear logging
ClearLogging ==
    /\ pc = "idle"
    /\ log # <<>>
    /\ pmem' = Freed({log[k].entry : k \in 1..Len(log)} \cup {log[k].text : k \in 1..Len(log)})
    /\ log' = <<>>
    /\ log_stored_messages' = log_stored_messages - Len(log)
    /\ UNCHANGED <<last_allocation, walk, current_rate, pc, entry, size, again, room, sent>>

logStore ==
    Allocating \/ EntryDone \/ MakeRoom \/ RemoveLast \/ GiveUpMessage \/ Link

Next ==
    \/ \E n \in TextChunks, wanted \in BOOLEAN : Message(n, wanted)
    \/ RateTimer
    \/ logStore
    \/ ClearLogging

Spec == Init /\ [][Next]_vars

\* The services process goes on with what it has begun.
FairSpec == Spec /\ WF_vars(logStore)

-----------------------------------------------------------------------------
(* What the log and its heap promise *)

\* The allocator implements the heap its users rely on.
HeapOf == INSTANCE Heap WITH Size <- Chunks, blocks <- Blocks, want <- walk.chunks

HeapSpec == HeapOf!Spec

\* The places that the log, and the message being stored, use
Entries == {log[k].entry : k \in 1..Len(log)}
Texts == {log[k].text : k \in 1..Len(log)}
InHand == ({entry} \cup (IF Returned THEN {walk.i} ELSE {})) \ {NULL}

\* No block belongs to two messages, or is a message's entry and a text.
Separate ==
    /\ \A k, l \in 1..Len(log) :
          k # l => log[k].entry # log[l].entry /\ log[k].text # log[l].text
    /\ Entries \cap Texts = {}
    /\ InHand \cap (Entries \cup Texts) = {}
    /\ Returned => entry # walk.i \/ walk.i = NULL

\* Every block of the heap is the entry or the text of one message of the log,
\* or belongs to the message that is being stored: nothing is used after it was
\* freed, used twice, or lost, whatever step failed.
NothingLost ==
    /\ {i \in Index : Starts(i)} = Entries \cup Texts \cup InHand
    /\ Separate
    /\ log_stored_messages = Len(log)

\* A call of logStore() returns: the walk through the heap and its second
\* start come to an end.
Returns == []<>(pc = "idle")

\* log.c:327: "send log message to all syslog servers"
AllSent == sent

=============================================================================
