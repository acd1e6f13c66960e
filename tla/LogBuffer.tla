------------------------------ MODULE LogBuffer ------------------------------
(***************************************************************************)
(* The operational log of one process (SystemLogsService): events are      *)
(* buffered in memory, written in batches that nobody waits for, dropped   *)
(* when a batch cannot be written, and purged from the table in chunks     *)
(* when they are old (SystemLogsRetentionService).                         *)
(***************************************************************************)
EXTENDS Naturals, Sequences, FiniteSets, SequencesExt

CONSTANTS
    Events,      \* the events a run may record
    Batch,       \* FLUSH_BATCH_SIZE
    Ceiling,     \* BUFFER_CEILING
    Chunk,       \* CHUNK_SIZE
    MaxChunks    \* MAX_CHUNKS

VARIABLES
    buffer,      \* SystemLogsService.buffer
    timer,       \* a flush is scheduled
    flights,     \* batches handed to the database and not answered
    stored,      \* rows of system_logs
    aged,        \* those older than the retention period
    over,        \* events that are nowhere any more: dropped or purged
    purge,       \* the purge under way: chunks left, rows before its cutoff
    serving      \* the module was not destroyed

vars == <<buffer, timer, flights, stored, aged, over, purge, serving>>

NoPurge == [left |-> 0, doomed |-> {}]

TypeOK ==
    /\ buffer \in UNION {[1..k -> Events] : k \in 0..Batch}
    /\ timer \in BOOLEAN /\ serving \in BOOLEAN
    /\ flights \subseteq SUBSET Events
    /\ stored \subseteq Events /\ aged \subseteq stored /\ over \subseteq Events
    /\ purge \in [left : 0..MaxChunks, doomed : SUBSET Events]

Init ==
    /\ buffer = <<>> /\ timer = FALSE
    /\ flights = {} /\ stored = {} /\ aged = {} /\ over = {}
    /\ purge = NoPurge
    /\ serving = TRUE

-----------------------------------------------------------------------------
Known == ToSet(buffer) \cup (UNION flights) \cup stored \cup over

Newest(s, k) == SubSeq(s, Len(s) - k + 1, Len(s))

\* Faulty: the buffer is emptied by whoever wrote it, after the insert.
FlushKeepingBuffer(b) ==
    /\ buffer' = b
    /\ timer' = FALSE
    /\ flights' = flights \cup ({ToSet(b)} \ {{}})

\* flush up to its await: the whole buffer becomes a batch in flight.
Flush(b) ==
    /\ buffer' = <<>>
    /\ timer' = FALSE
    /\ flights' = flights \cup ({ToSet(b)} \ {{}})

\* Faulty: a partial buffer waits for the next event.
AppendUnscheduled(e) ==
    LET b == Append(buffer, e) IN
    IF Len(b) >= Batch THEN Flush(b)
    ELSE buffer' = b /\ UNCHANGED <<timer, flights>>

\* record of an event that is enabled and loud enough: the oldest go beyond
\* the ceiling, a full buffer is flushed at once, another within the interval.
AppendEvent(e) ==
    LET all  == Append(buffer, e)
        kept == IF Len(all) > Ceiling THEN Newest(all, Ceiling) ELSE all
    IN  IF Len(kept) >= Batch THEN Flush(kept)
        ELSE buffer' = kept /\ timer' = TRUE /\ UNCHANGED flights

Beyond(e) == IF Len(buffer) + 1 > Ceiling THEN {Head(Append(buffer, e))} ELSE {}

Record(e) ==
    /\ e \notin Known
    /\ AppendEvent(e)
    /\ over' = over \cup Beyond(e)
    /\ UNCHANGED <<stored, aged, purge, serving>>

TimerFires ==
    /\ timer
    /\ Flush(buffer)
    /\ UNCHANGED <<stored, aged, over, purge, serving>>

\* onModuleDestroy.  Requests are still being answered and may log more.
Destroy ==
    /\ serving
    /\ serving' = FALSE
    /\ Flush(buffer)
    /\ UNCHANGED <<stored, aged, over, purge>>

\* createMany: all of the batch or nothing; a failed batch is not retried.
Written(b) ==
    /\ b \in flights
    /\ flights' = flights \ {b}
    /\ stored' = stored \cup b
    /\ UNCHANGED <<buffer, timer, aged, over, purge, serving>>

WriteFails(b) ==
    /\ b \in flights
    /\ flights' = flights \ {b}
    /\ over' = over \cup b
    /\ UNCHANGED <<buffer, timer, stored, aged, purge, serving>>

\* The process ends, killed or after onModuleDestroy, and another one starts:
\* the buffer is gone, a batch in flight may have been committed.
Restart ==
    /\ \E done \in SUBSET flights :
          /\ stored' = stored \cup UNION done
          /\ over' = over \cup ToSet(buffer) \cup UNION (flights \ done)
    /\ buffer' = <<>> /\ timer' = FALSE /\ flights' = {}
    /\ purge' = NoPurge /\ serving' = TRUE
    /\ UNCHANGED aged

-----------------------------------------------------------------------------
Age(e) ==
    /\ e \in stored \ aged
    /\ aged' = aged \cup {e}
    /\ UNCHANGED <<buffer, timer, flights, stored, over, purge, serving>>

BeginPurge ==
    /\ purge = NoPurge
    /\ purge' = [left |-> MaxChunks, doomed |-> aged]
    /\ UNCHANGED <<buffer, timer, flights, stored, aged, over, serving>>

\* purge records its outcome when it is done.
Report(e) == e \notin Known /\ AppendEvent(e)

\* Faulty: a chunk that was not full does not end the purge, a full one does.
LastChunkFull(n, left) == n = Chunk \/ left = 1
LastChunk(n, left)     == n < Chunk \/ left = 1

PurgeChunk(e) ==
    /\ purge.left > 0
    /\ LET doomed == purge.doomed \cap stored
       IN  \E gone \in SUBSET doomed :
             /\ Cardinality(gone) = IF Cardinality(doomed) < Chunk
                                    THEN Cardinality(doomed) ELSE Chunk
             /\ stored' = stored \ gone
             /\ aged' = aged \ gone
             /\ over' = over \cup gone \cup
                    IF LastChunk(Cardinality(gone), purge.left) THEN Beyond(e) ELSE {}
             /\ IF LastChunk(Cardinality(gone), purge.left)
                THEN purge' = NoPurge /\ Report(e)
                ELSE /\ purge' = [purge EXCEPT !.left = @ - 1]
                     /\ UNCHANGED <<buffer, timer, flights>>
    /\ UNCHANGED serving

PurgeFails(e) ==
    /\ purge.left > 0
    /\ purge' = NoPurge
    /\ Report(e)
    /\ over' = over \cup Beyond(e)
    /\ UNCHANGED <<stored, aged, serving>>

Next ==
    \/ \E e \in Events : Record(e) \/ Age(e) \/ PurgeChunk(e) \/ PurgeFails(e)
    \/ TimerFires \/ Destroy \/ Restart \/ BeginPurge
    \/ \E b \in flights : Written(b) \/ WriteFails(b)

Spec == Init /\ [][Next]_vars

-----------------------------------------------------------------------------
\* "A partially-filled buffer never waits longer than" the interval, and no
\* flush takes an event that another one has taken: what is buffered has a
\* flush scheduled, and an event is in one place.  (record, flush)
BufferedIsScheduled ==
    /\ buffer # <<>> => timer
    /\ \A b \in flights : b \cap (ToSet(buffer) \cup stored \cup over) = {}
    /\ \A b, c \in flights : b # c => b \cap c = {}

\* A purge that ends because a chunk was not full has left nothing of what
\* was old when it began.  (purge, purgeBatch)
PurgeDrains ==
    [][ purge.left > 1 /\ purge' = NoPurge /\ ~(stored \subseteq stored')
           => purge.doomed \cap stored' = {} ]_vars

=============================================================================
