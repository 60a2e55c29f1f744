---------------------------- MODULE IngestQueue ----------------------------
(***************************************************************************)
(* The ingest service's QueueWriter (queue.go) with its write-ahead log    *)
(* (wal.go): HTTP handlers append payloads to a bounded memory queue, up   *)
(* to three goroutines flush its head to Kafka, and the WAL carries the    *)
(* unflushed items over a restart.                                         *)
(*                                                                         *)
(* A payload is its arrival number.  A critical section of QueueWriter.mu  *)
(* is one step, except the loop over the payloads of a request, which can  *)
(* be cut short by a crash between two WAL records.  Kafka and the disk    *)
(* are external.  Whether a dial succeeds is nondeterministic, so          *)
(* kafkaConnected, kafkaConnecting and kafkaLastPing are not state here.   *)
(* The WAL is synced on every append (WAL_SYNC_EVERY=1, as deployed) and   *)
(* is enabled.                                                             *)
(***************************************************************************)
EXTENDS Naturals, Sequences, FiniteSets

CONSTANTS
    NumPayloads,  \* bound: payloads that ever arrive
    MaxRequest,   \* bound: queue payloads one request is split into
    Stream,       \* Stream[p]: the topic of payload p
    MaxQueue,     \* MEMORY_QUEUE_MAX_SIZE
    BatchSize,    \* MEMORY_QUEUE_FLUSH_BATCH_SIZE
    DropOldest,   \* MEMORY_QUEUE_DROP_OLDEST_WHEN_FULL
    Async,        \* KAFKA_WRITE_MODE = async
    WalMax,       \* WAL_MAX_SIZE_MB, in records
    CompactAt,    \* WAL_COMPACT_THRESHOLD_MB, in records
    MaxRestarts,  \* bound: crashes and shutdowns together
    MaxLog,       \* bound: length of the WAL a failed sync may extend
    Faults        \* the environment faults of this instance

(***************************************************************************)
(* walWrite: an append fails and leaves the file as it was.                *)
(* walTorn:  an append fails and leaves part of its last line behind.      *)
(* walSync:  an append reaches the file but its fsync fails.               *)
(* compact:  a step of Compact after it closed the file fails.             *)
(* oversize: the file may be longer than WAL_MAX_SIZE_MB at startup.       *)
(* early:    requests arrive before Init has replayed the WAL.             *)
(* partial:  a failed Kafka write has stored an arbitrary part of a batch. *)
(***************************************************************************)
FaultKinds ==
    {"walWrite", "walTorn", "walSync", "compact", "oversize", "early", "partial"}

Payload == 1..NumPayloads

ASSUME ConstantsAssumption ==
    /\ NumPayloads \in Nat
    /\ MaxRequest \in Nat
    /\ DOMAIN Stream = Payload
    /\ MaxQueue \in Nat \ {0}
    /\ BatchSize \in Nat \ {0}
    /\ DropOldest \in BOOLEAN
    /\ Async \in BOOLEAN
    /\ WalMax \in Nat
    /\ CompactAt \in Nat
    /\ MaxRestarts \in Nat
    /\ MaxLog \in Nat
    /\ Faults \subseteq FaultKinds

Item == [id : Nat, payload : Payload]
Record == [op : {"add"}, id : Nat, payload : Payload]
            \cup [op : {"ack"}, id : Nat]
            \cup [op : {"torn", "bad"}]
Flusher == {"init", "loop", "shutdown"}

VARIABLES
    phase,     \* of the process: down, starting, up, closing, closed
    queue,     \* memoryQueue
    nextID,    \* nextMemoryItemID
    wal,       \* the handle: none (nil), open, broken (non-nil, its file nil)
    log,       \* the records of the WAL file
    loop,      \* the reconnect loop: off, running or cancelled
    pc,        \* pc[f]: where goroutine f is in its flush
    batch,     \* batch[f]: the items goroutine f has picked
    arrived,   \* how many payloads have arrived
    todo,      \* how many of them the handler holding mu still has to enqueue
    turn,      \* which record it logs next: its add, or the ack of the dropped head
    outcome,   \* outcome[p]: what the client of payload p was told
    dropped,   \* payloads removed by drop-oldest
    topic,     \* topic[p]: copies of p in Kafka, 2 standing for more than one
    restarts   \* crashes and shutdowns so far

vars == <<phase, queue, nextID, wal, log, loop, pc, batch, arrived, todo,
          turn, outcome, dropped, topic, restarts>>
request == <<arrived, todo, turn, outcome>>
process == <<phase, loop, restarts>>

-----------------------------------------------------------------------------
(* The WAL file *)

Torn == [op |-> "torn"]   \* the start of a line, at the end of the file
Bad == [op |-> "bad"]     \* a line that is no JSON

AddRec(item) == [op |-> "add", id |-> item.id, payload |-> item.payload]
AckRec(item) == [op |-> "ack", id |-> item.id]
ItemOf(rec) == [id |-> rec.id, payload |-> rec.payload]

Having(l, op) == {k \in DOMAIN l : l[k].op = op}
Acked(l) == {l[k].id : k \in Having(l, "ack")}
Added(l) == {ItemOf(l[k]) : k \in Having(l, "add")}
Pending(l) == {item \in Added(l) : item.id \notin Acked(l)}
\* Mutant: a maximum taken over the acks only.
IdsOfAcks(l) == Acked(l)
Ids(l) == {item.id : item \in Added(l)} \cup Acked(l)

\* The file with recs written at its end: what follows a torn line extends it.
Extend(l, recs) ==
    IF l # <<>> /\ recs # <<>> /\ l[Len(l)] = Torn
    THEN SubSeq(l, 1, Len(l) - 1)
            \o <<IF Head(recs) = Torn THEN Torn ELSE Bad>> \o Tail(recs)
    ELSE l \o recs

\* The file when a write of recs stops within its (k+1)st line.
Cut(l, recs, k) == Extend(l, Append(SubSeq(recs, 1, k), Torn))

\* The files a failed append may leave behind.
FailedAppends(l, recs) ==
    (IF "walWrite" \in Faults THEN {l} ELSE {})
    \cup (IF "walSync" \in Faults /\ Len(l) < MaxLog THEN {Extend(l, recs)} ELSE {})
    \cup (IF "walTorn" \in Faults /\ Len(l) < MaxLog
          THEN {Cut(l, recs, k - 1) : k \in 1..Len(recs)} ELSE {})

\* The file after appendRecord or appendAcks, and what it returns;
\* without a WAL the queue appends nothing and reports success.
AppendOutcomes(l, recs) ==
    IF wal = "none" THEN {[log |-> l, res |-> "ok"]}
    ELSE IF wal = "broken" THEN {[log |-> l, res |-> "error"]}
    ELSE {[log |-> Extend(l, recs), res |-> "ok"]}
            \cup {[log |-> f, res |-> "error"] : f \in FailedAppends(l, recs)}

\* Mutants: a rewrite that iterates over the map of pending adds, and one that
\* keeps the acked adds.
CompactedUnordered(l) ==
    LET I == {k \in Having(l, "add") : l[k].id \notin Acked(l)}
    IN {[k \in DOMAIN f |-> l[f[k]]] :
            f \in {g \in [1..Cardinality(I) -> I] :
                      \A a, b \in DOMAIN g : a # b => g[a] # g[b]}}
CompactedWithAcked(l) ==
    LET I == Having(l, "add")
    IN {[k \in DOMAIN f |-> l[f[k]]] :
            f \in {g \in [1..Cardinality(I) -> I] :
                      \A a, b \in DOMAIN g : a < b => g[a] < g[b]}}

\* Compact holds the lock of the WAL while the handle has no file; appendAcks
\* looks at the file before it takes that lock.
AckOutcomes(l, recs) ==
    AppendOutcomes(l, recs)
    \cup (IF pc["loop"] = "compact" /\ wal = "open"
          THEN {[log |-> l, res |-> "error"]} ELSE {})

\* The file rewritten with its pending adds only, in file order (one sequence).
Compacted(l) ==
    LET I == {k \in Having(l, "add") : l[k].id \notin Acked(l)}
    IN {[k \in DOMAIN f |-> l[f[k]]] :
            f \in {g \in [1..Cardinality(I) -> I] :
                      \A a, b \in DOMAIN g : a < b => g[a] < g[b]}}

Whole(l) == \A k \in DOMAIN l : l[k].op \in {"add", "ack"}
\* readPendingFromWAL forgives an unreadable line only at the end of the file.
Unreadable(l) == \E k \in DOMAIN l : l[k].op \in {"torn", "bad"} /\ k < Len(l)
\* readAllRecords forgives none.
Uncompactable(l) == Having(l, "torn") \cup Having(l, "bad") # {}

-----------------------------------------------------------------------------
(* Helpers of the actions *)

MuFree == todo = 0
PayloadsOf(b) == {b[k].payload : k \in DOMAIN b}

Stored(S) == [p \in Payload |-> IF p \in S /\ topic[p] < 2 THEN topic[p] + 1 ELSE topic[p]]
\* What a failed or timed out Kafka write of S may have stored.
FailedWrites(S) == IF "partial" \in Faults THEN SUBSET S ELSE {{}, S}
Told(old, new) == [p \in Payload |-> IF outcome[p] = old THEN new ELSE outcome[p]]

Init ==
    /\ phase = "down" /\ loop = "off" /\ restarts = 0
    /\ queue = <<>> /\ nextID = 0 /\ wal = "none" /\ log = <<>>
    /\ pc = [f \in Flusher |-> "idle"] /\ batch = [f \in Flusher |-> <<>>]
    /\ arrived = 0 /\ todo = 0 /\ turn = "add"
    /\ outcome = [p \in Payload |-> "none"]
    /\ dropped = {} /\ topic = [p \in Payload |-> 0]

-----------------------------------------------------------------------------
(* The process *)

\* http.go Run: the HTTP server listens before queue.Init is called.
Start ==
    /\ phase = "down"
    /\ phase' = "starting"
    /\ UNCHANGED <<queue, nextID, wal, log, loop, pc, batch, request, dropped,
                   topic, restarts>>

\* The memory of the process is gone; a client still waiting never hears.
Reset ==
    /\ phase' = "down"
    /\ queue' = <<>> /\ nextID' = 0 /\ wal' = "none" /\ loop' = "off"
    /\ pc' = [f \in Flusher |-> "idle"] /\ batch' = [f \in Flusher |-> <<>>]
    /\ todo' = 0 /\ turn' = "add"
    /\ outcome' = Told("writing", "unknown")
    /\ UNCHANGED <<arrived, dropped, topic>>

\* openQueueWAL removes a file that has grown over WAL_MAX_SIZE_MB.
FileAtOpen == IF "oversize" \in Faults /\ Len(log) > WalMax THEN <<>> ELSE log

\* Init returns the parse error of readPendingFromWAL and Run gives up.
InitFails ==
    /\ phase = "starting" /\ MuFree
    /\ Unreadable(FileAtOpen)
    /\ log' = FileAtOpen
    /\ Reset
    /\ UNCHANGED restarts

\* Mutant: the rename is forgotten and the old file opened again.
NotRenamed(rewritten) == FileAtOpen
\* rewriteWAL writes a temporary file and renames it over the WAL.
Renamed(rewritten) == rewritten

\* Init: read, rewrite and open the WAL, append its pending items to the
\* queue; in async mode start the reconnect loop and, with items to drain, a
\* second goroutine that flushes them if it can reach Kafka.
InitQueue ==
    /\ phase = "starting" /\ MuFree
    /\ ~Unreadable(FileAtOpen)
    /\ phase' = "up"
    /\ wal' = "open"
    /\ \E rewritten \in Compacted(FileAtOpen) :
         /\ log' = Renamed(rewritten)
         /\ queue' = queue \o [k \in DOMAIN rewritten |-> ItemOf(rewritten[k])]
         /\ \E next \in IF Async /\ rewritten # <<>> THEN {"pick", "idle"} ELSE {"idle"} :
              pc' = [pc EXCEPT !["init"] = next]
    /\ \E m \in Ids(FileAtOpen) \cup {nextID} :
         /\ \A i \in Ids(FileAtOpen) \cup {nextID} : i <= m
         /\ nextID' = m
    /\ loop' = IF Async THEN "running" ELSE loop
    /\ UNCHANGED <<batch, request, dropped, topic, restarts>>

\* n is how far the head of the queue still is the batch of goroutine f.
Matches(f, n) ==
    /\ n <= Len(batch[f]) /\ n <= Len(queue)
    /\ \A k \in 1..n : queue[k].id = batch[f][k].id
\* Mutant: pops as many items as were written, whatever the head is now.
PoppedBlindly(f, n) ==
    /\ n <= Len(batch[f]) /\ n <= Len(queue)
    /\ ~(n + 1 <= Len(batch[f]) /\ n + 1 <= Len(queue))
Popped(f, n) == Matches(f, n) /\ ~Matches(f, n + 1)

InHand == arrived - todo + 1      \* the payload the handler is enqueueing
NewItem == [id |-> nextID + 1, payload |-> InHand]
Newcomer == [id |-> nextID, payload |-> InHand]   \* once drop-oldest has logged it
\* Mutant: the last ack of a batch is left out.
AcksButLast(b, n) == [k \in 1..n - 1 |-> AckRec(b[k])]
Acks(b, n) == [k \in 1..n |-> AckRec(b[k])]
\* The WAL appends a crash can cut: one of a goroutine that owns mu.
AppendsUnderWay ==
    IF todo > 0
    THEN {<<IF turn = "ack" THEN AckRec(Head(queue)) ELSE AddRec(NewItem)>>}
    ELSE {Acks(batch[x[1]], x[2]) :
             x \in {y \in Flusher \X (1..BatchSize) :
                       pc[y[1]] = "finalize" /\ Popped(y[1], y[2])}}

\* SIGKILL, OOM or a panic: the page cache keeps what was written.  A crash
\* after the last record of a request and before its reply is the crash after
\* that step, which holds the queue to the promise the reply would have made.
Crash ==
    /\ phase # "down" /\ restarts < MaxRestarts
    /\ restarts' = restarts + 1
    /\ \/ log' = log
       \/ /\ wal = "open"
          /\ \E recs \in AppendsUnderWay : \E k \in 1..Len(recs) :
               log' = Cut(log, recs, k - 1)
    /\ Reset

\* SIGTERM: the HTTP server has drained, the loop is cancelled (its select may
\* still choose a tick), and Shutdown flushes once if Kafka can be reached.
BeginShutdown ==
    /\ phase = "up" /\ MuFree /\ restarts < MaxRestarts
    /\ phase' = "closing" /\ restarts' = restarts + 1
    /\ loop' = IF loop = "running" THEN "cancelled" ELSE loop
    /\ \E next \in {"pick", "done"} : pc' = [pc EXCEPT !["shutdown"] = next]
    /\ UNCHANGED <<queue, nextID, wal, log, batch, request, dropped, topic>>

CloseWAL ==
    /\ phase = "closing" /\ pc["shutdown"] = "done"
    /\ phase' = "closed" /\ wal' = "none"
    /\ UNCHANGED <<queue, nextID, log, loop, pc, batch, request, dropped,
                   topic, restarts>>

Exit ==
    /\ phase = "closed"
    /\ Reset
    /\ UNCHANGED <<log, restarts>>

-----------------------------------------------------------------------------
(* WriteToQueue *)

New(n) == arrived + 1 .. arrived + n

Arrives(n) ==
    /\ phase = "up" \/ (phase = "starting" /\ "early" \in Faults)
    /\ MuFree
    /\ n <= NumPayloads - arrived
    /\ arrived' = arrived + n

\* In sync mode the handler has tried Kafka before; a write that failed with
\* a timeout may have stored the payloads all the same.
TriedBefore(n) ==
    /\ \E S \in IF Async THEN {{}} ELSE FailedWrites(New(n)) : topic' = Stored(S)
    /\ UNCHANGED <<phase, queue, nextID, wal, log, loop, pc, batch, turn,
                   dropped, restarts>>

TooMany(n) == ~DropOldest /\ Len(queue) + n > MaxQueue

\* writePayloadsToMemory refuses a request that does not fit as a whole.
Refuse(n) ==
    /\ Arrives(n) /\ TooMany(n)
    /\ outcome' = [p \in Payload |-> IF p \in New(n) THEN "rejected" ELSE outcome[p]]
    /\ UNCHANGED todo
    /\ TriedBefore(n)

Admit(n) ==
    /\ Arrives(n) /\ ~TooMany(n)
    /\ outcome' = [p \in Payload |-> IF p \in New(n) THEN "writing" ELSE outcome[p]]
    /\ todo' = n
    /\ TriedBefore(n)

\* Sync mode with Kafka up: the queue is not involved.
DirectWrite(n) ==
    /\ ~Async
    /\ Arrives(n)
    /\ topic' = Stored(New(n))
    /\ outcome' = [p \in Payload |-> IF p \in New(n) THEN "accepted" ELSE outcome[p]]
    /\ UNCHANGED <<phase, queue, nextID, wal, log, loop, pc, batch, todo,
                   turn, dropped, restarts>>

\* The payload in hand is queued; after the last one the client is told so
\* and the reconnect loop is started.
PayloadQueued ==
    /\ todo' = todo - 1
    /\ turn' = "add"
    /\ IF todo = 1
       THEN outcome' = Told("writing", "accepted") /\ loop' = "running"
       ELSE UNCHANGED <<outcome, loop>>
    /\ UNCHANGED arrived

\* An error ends the request; payloads already queued stay queued.
RequestFails ==
    /\ todo' = 0 /\ turn' = "add"
    /\ outcome' = Told("writing", "rejected")
    /\ UNCHANGED <<arrived, loop>>

Enqueue ==
    /\ todo > 0 /\ Len(queue) < MaxQueue
    /\ nextID' = nextID + 1
    /\ \E o \in AppendOutcomes(log, <<AddRec(NewItem)>>) :
         /\ log' = o.log
         /\ IF o.res = "error"
            THEN RequestFails /\ UNCHANGED queue
            ELSE PayloadQueued /\ queue' = Append(queue, NewItem)
    /\ UNCHANGED <<phase, wal, pc, batch, dropped, topic, restarts>>

\* Drop-oldest logs the newcomer first ...
LogNewcomer ==
    /\ todo > 0 /\ turn = "add" /\ Len(queue) >= MaxQueue /\ DropOldest
    /\ nextID' = nextID + 1
    /\ \E o \in AppendOutcomes(log, <<AddRec(NewItem)>>) :
         /\ log' = o.log
         /\ IF o.res = "error"
            THEN RequestFails
            ELSE turn' = "ack" /\ UNCHANGED <<arrived, todo, outcome, loop>>
    /\ UNCHANGED <<phase, queue, wal, pc, batch, dropped, topic, restarts>>

\* ... then acks the head in the WAL and replaces it; if the ack fails it acks
\* the newcomer instead.
DropHead ==
    /\ turn = "ack"
    /\ \E o \in AckOutcomes(log, <<AckRec(Head(queue))>>) :
         \/ /\ o.res = "ok"
            /\ log' = o.log
            /\ queue' = Append(Tail(queue), Newcomer)
            /\ dropped' = dropped \cup {Head(queue).payload}
            /\ PayloadQueued
         \/ /\ o.res = "error"
            /\ \E undo \in AckOutcomes(o.log, <<AckRec(Newcomer)>>) :
                 log' = undo.log
            /\ RequestFails
            /\ UNCHANGED <<queue, dropped>>
    /\ UNCHANGED <<phase, nextID, wal, pc, batch, topic, restarts>>

-----------------------------------------------------------------------------
(* flushMemoryQueue, run by the reconnect loop, by Init and by Shutdown *)

\* One turn of the loop, on a tick or on flushNotify, with Kafka reachable.
LoopWakes ==
    /\ loop # "off" /\ pc["loop"] = "idle"
    /\ pc' = [pc EXCEPT !["loop"] = "pick"]
    /\ UNCHANGED <<queue, nextID, wal, log, batch, request, dropped, topic, process>>

\* Mutant: every goroutine goes on to the loop's size check.
AfterFlushChecks == [f \in Flusher |-> "check"]
AfterFlush == [init |-> "idle", loop |-> "check", shutdown |-> "done"]

\* The longest head of the queue, up to BatchSize, of one stream.
Homogeneous(n) ==
    /\ n <= BatchSize /\ n <= Len(queue)
    /\ \A k \in 1..n : Stream[queue[k].payload] = Stream[queue[1].payload]

Pick(f) ==
    /\ pc[f] = "pick" /\ MuFree
    /\ IF queue = <<>>
       THEN pc' = [pc EXCEPT ![f] = AfterFlush[f]] /\ UNCHANGED batch
       ELSE \E n \in 1..Len(queue) :
              /\ Homogeneous(n) /\ ~Homogeneous(n + 1)
              /\ batch' = [batch EXCEPT ![f] = SubSeq(queue, 1, n)]
              /\ pc' = [pc EXCEPT ![f] = "write"]
    /\ UNCHANGED <<queue, nextID, wal, log, request, dropped, topic, process>>

WriteSucceeds(f) ==
    /\ pc[f] = "write"
    /\ topic' = Stored(PayloadsOf(batch[f]))
    /\ pc' = [pc EXCEPT ![f] = "finalize"]
    /\ UNCHANGED <<queue, nextID, wal, log, batch, request, dropped, process>>

\* Mutant: the error of the write is ignored.
WriteErrorIgnored(f) ==
    /\ pc[f] = "write"
    /\ \E S \in FailedWrites(PayloadsOf(batch[f])) : topic' = Stored(S)
    /\ pc' = [pc EXCEPT ![f] = "finalize"]
    /\ UNCHANGED <<queue, nextID, wal, log, batch, request, dropped, process>>

\* The write fails or times out; the flush is given up until the next turn.
WriteFails(f) ==
    /\ pc[f] = "write"
    /\ \E S \in FailedWrites(PayloadsOf(batch[f])) : topic' = Stored(S)
    /\ pc' = [pc EXCEPT ![f] = AfterFlush[f]]
    /\ batch' = [batch EXCEPT ![f] = <<>>]
    /\ UNCHANGED <<queue, nextID, wal, log, request, dropped, process>>

\* finalizeFlushedBatchLocked pops what is still at the head and acks it in the
\* WAL; if that fails it puts the items back and the flush is given up.
Finalize(f) ==
    /\ pc[f] = "finalize" /\ MuFree
    /\ batch' = [batch EXCEPT ![f] = <<>>]
    /\ \E n \in 0..Len(batch[f]) :
         LET rest == SubSeq(queue, n + 1, Len(queue))
         IN /\ Popped(f, n)
            /\ \E o \in IF n = 0 THEN {[log |-> log, res |-> "ok"]}
                        ELSE AckOutcomes(log, Acks(batch[f], n)) :
                 /\ log' = o.log
                 /\ queue' = IF o.res = "error" THEN SubSeq(batch[f], 1, n) \o rest ELSE rest
                 /\ pc' = [pc EXCEPT ![f] = IF o.res = "error" THEN AfterFlush[f] ELSE "pick"]
    /\ UNCHANGED <<nextID, wal, request, dropped, topic, process>>

\* The loop's size check after a flush.
CheckSize ==
    /\ pc["loop"] = "check" /\ MuFree
    /\ pc' = [pc EXCEPT !["loop"] = IF wal = "open" /\ Len(log) > CompactAt
                                   THEN "compact" ELSE "idle"]
    /\ UNCHANGED <<queue, nextID, wal, log, batch, request, dropped, topic, process>>

\* Compact returns at once if Shutdown has closed the WAL or if its sync fails.
NothingToCompact ==
    /\ pc["loop"] = "compact"
    /\ wal # "open" \/ "compact" \in Faults
    /\ pc' = [pc EXCEPT !["loop"] = "idle"]
    /\ UNCHANGED <<queue, nextID, wal, log, batch, request, dropped, topic, process>>

\* Compact closes the file, rewrites it and opens it again.
Compact ==
    /\ pc["loop"] = "compact" /\ wal = "open"
    /\ pc' = [pc EXCEPT !["loop"] = "idle"]
    /\ \/ /\ ~Uncompactable(log)
          /\ log' \in Compacted(log)
          /\ UNCHANGED wal
       \/ \* the file is closed first, so every later failure leaves it closed
          /\ "compact" \in Faults \/ Uncompactable(log)
          /\ log' \in {log} \cup (IF Uncompactable(log) THEN {} ELSE Compacted(log))
          /\ wal' = "broken"
    /\ UNCHANGED <<queue, nextID, batch, request, dropped, topic, process>>

-----------------------------------------------------------------------------
Request == \E n \in 1..MaxRequest : Refuse(n) \/ Admit(n) \/ DirectWrite(n)
Handler == Enqueue \/ LogNewcomer \/ DropHead
Flush(f) == Pick(f) \/ WriteSucceeds(f) \/ WriteFails(f) \/ Finalize(f)
Lifecycle == \/ Start \/ InitFails \/ InitQueue
             \/ Crash \/ BeginShutdown \/ CloseWAL \/ Exit
Next ==
    \/ Lifecycle
    \/ Request
    \/ Handler
    \/ LoopWakes
    \/ \E f \in Flusher : Flush(f)
    \/ CheckSize \/ NothingToCompact \/ Compact

Spec == Init /\ [][Next]_vars

-----------------------------------------------------------------------------
(* Properties *)

DataTypes ==
    /\ phase \in {"down", "starting", "up", "closing", "closed"}
    /\ queue \in Seq(Item)
    /\ nextID \in Nat
    /\ wal \in {"none", "open", "broken"}
    /\ log \in Seq(Record)
    /\ loop \in {"off", "running", "cancelled"}
    /\ arrived \in 0..NumPayloads
    /\ todo \in 0..arrived
    /\ turn \in {"add", "ack"}
    /\ turn = "ack" => todo > 0 /\ queue # <<>>
    /\ outcome \in [Payload -> {"none", "writing", "accepted", "rejected", "unknown"}]
    /\ dropped \subseteq Payload
    /\ topic \in [Payload -> 0..2]
    /\ restarts \in 0..MaxRestarts

FlusherTypes ==
    /\ pc \in [Flusher -> {"idle", "pick", "write", "finalize", "check", "compact", "done"}]
    /\ pc["init"] \notin {"check", "compact", "done"}
    /\ pc["loop"] # "done" /\ pc["shutdown"] \notin {"check", "compact"}
    /\ phase \in {"down", "starting"} => pc["init"] = "idle"
    /\ phase \in {"down", "starting", "up"} => pc["shutdown"] = "idle"
    /\ batch \in [Flusher -> Seq(Item)]
    /\ \A f \in Flusher : batch[f] # <<>> <=> pc[f] \in {"write", "finalize"}

\* The variables have their types; only the loop compacts, only Shutdown is
\* done, the goroutines of Init and Shutdown run in their phases, and a
\* goroutine holds a batch exactly while it writes or finalizes it.
TypeOK == DataTypes /\ FlusherTypes

\* A payload whose client was told "success" is in Kafka, was dropped by the
\* drop-oldest rule, or is replayed from the WAL by the next start: at no point
\* would a crash lose it.
Durable ==
    \A p \in Payload : outcome[p] = "accepted" /\ p \notin dropped =>
        topic[p] > 0 \/ p \in {item.payload : item \in Pending(log)}

PayloadsPending == {item.payload : item \in Pending(log)}

Justified(p) == topic[p] > 0 \/ p \in dropped \/ outcome[p] = "rejected"

\* finalizeFlushedBatchLocked and drop-oldest ack the item they mean: an add
\* acked in the WAL is of a payload that is in Kafka, dropped or refused.
AckJustified ==
    \A item \in Added(log) : item.id \in Acked(log) => Justified(item.payload)

\* Whenever the process dies, the next start can read the WAL it left
\* (TestQueueWriterWALRecoversFromTruncatedLastLine).
WalReadable == ~Unreadable(log)

Queued == {queue[k] : k \in DOMAIN queue}

\* The queue after a crash and a replay would be the queue of this moment
\* (TestWritePayloadsToMemoryDropOldestWithWALEnabledReplayConsistent), until a
\* write stops within a line of the file.
ReplayConsistent ==
    wal = "open" /\ MuFree /\ Whole(log) => Pending(log) = Queued

\* The queue keeps to MEMORY_QUEUE_MAX_SIZE, across restarts too; with
\* drop-oldest each crash between the two WAL records adds at most one item.
QueueBounded == Len(queue) <= MaxQueue + (IF DropOldest THEN restarts ELSE 0)

\* Payloads taken by the memory queue reach Kafka in the order they arrived,
\* whatever goroutines flush, fail, requeue and replay them.
OrderKept ==
    Async => \A p, q \in Payload :
        /\ p < q /\ {outcome[p], outcome[q]} = {"accepted"} /\ p \notin dropped
        /\ topic[q] > 0
        => topic[p] > 0

\* Once the restarts are over and no payload arrives any more, the queue and
\* the WAL run empty, so that what was accepted is in Kafka or dropped, unless a
\* compaction that failed has left the WAL without its file.
EventuallyDrained ==
    <>[](wal # "broken") => <>[](queue = <<>> /\ Pending(log) = {})

\* The ingest service is a stage that takes payloads over and passes them on to
\* Kafka: what it lets go from the WAL was in Kafka before.
Stage == INSTANCE AtLeastOnce WITH
    Message <- Payload,
    accepted <- {p \in Payload : outcome[p] = "accepted"},
    kept <- PayloadsPending,
    delivered <- {p \in Payload : topic[p] > 0}
IsAtLeastOnce == Stage!Spec

-----------------------------------------------------------------------------
(* The inductive invariant behind Durable, AckJustified and WalReadable.  It
   holds where the disk does not tear or half-sync the records of the WAL, the
   file keeps under its maximum and requests wait for Init. *)

Benign ==
    /\ Faults \cap {"walTorn", "oversize", "early"} = {}
    /\ "walSync" \in Faults => ~DropOldest

Serving == phase \in {"up", "closing", "closed"}

\* The items in the memory of the process.
Picked(f) == {batch[f][k] : k \in DOMAIN batch[f]}
Held == Queued \cup (UNION {Picked(f) : f \in Flusher})
               \cup (IF turn = "ack" THEN {Newcomer} ELSE {})

\* A process that does not serve holds nothing; one that serves has read the
\* WAL, and a crash tears at most the last line of the file.
ControlInv ==
    /\ ~Serving => Held = {} /\ wal = "none" /\ todo = 0
    /\ Serving => Whole(log)
    /\ ~Unreadable(log)
    /\ phase = "up" => wal # "none"
    /\ todo > 0 => phase = "up"
    /\ turn = "ack" => DropOldest

\* An id names one item, in the file and in memory, and new ids are fresh.
IdInv ==
    /\ \A a \in Held \cup Added(log), b \in Added(log) : a.id = b.id => a = b
    /\ Serving => \A i \in Ids(log) \cup {a.id : a \in Held} : i <= nextID

\* A batch to finalize is in Kafka.
StoredInv ==
    \A f \in Flusher : pc[f] = "finalize" =>
        \A k \in DOMAIN batch[f] : topic[batch[f][k].payload] > 0

\* The payloads of the request in progress, and how far each has got.
RequestInv ==
    /\ \A p \in Payload : outcome[p] # "none" => p <= arrived
    /\ \A p \in Payload : arrived - todo < p /\ p <= arrived => outcome[p] = "writing"
Taken(p) ==
    \/ outcome[p] = "accepted"
    \/ outcome[p] = "writing" /\ (p < InHand \/ (turn = "ack" /\ p = InHand))

\* What has been taken is in Kafka, dropped, or has an add in the WAL.
LoggedInv ==
    \A p \in Payload : Taken(p) =>
        topic[p] > 0 \/ p \in dropped \/ \E a \in Added(log) : a.payload = p

DurableInv ==
    ControlInv /\ IdInv /\ StoredInv /\ RequestInv /\ LoggedInv /\ AckJustified

-----------------------------------------------------------------------------
(* What OrderKept, ReplayConsistent and QueueBounded rest on besides. *)

Rising(s) == \A i, j \in DOMAIN s : i < j => s[i].payload < s[j].payload
RisingAdds(l) == \A i, j \in Having(l, "add") : i < j => l[i].payload < l[j].payload

\* The file and the queue are in order of arrival, the payload in hand comes
\* after all that is there, an id names one item in memory, and drop-oldest
\* acts on a full queue.
SortInv ==
    /\ Rising(queue) /\ RisingAdds(log)
    /\ \A a \in Queued \cup UNION {Picked(f) : f \in Flusher} : a.payload < InHand
    /\ \A a \in Added(log) : a.payload < InHand \/ (turn = "ack" /\ a.payload = InHand)
    /\ \A a, b \in Held : a.id = b.id => a = b
    /\ turn = "ack" => Len(queue) >= MaxQueue

\* In async mode, with writes to Kafka that store all or nothing: an undelivered
\* payload is in the queue, and nothing behind it is in Kafka, or in a batch
\* without it.
Entered(p) == outcome[p] = "accepted" \/ (outcome[p] = "writing" /\ p < InHand)
Ahead(p, q) == Entered(p) /\ p \notin dropped /\ p < q
OrderInv ==
    /\ \A p \in Payload : topic[p] > 0 => p < InHand
    /\ Serving => \A p \in Payload : Entered(p) =>
          topic[p] > 0 \/ p \in dropped \/ \E a \in Queued : a.payload = p
    /\ \A p, q \in Payload : Ahead(p, q) /\ topic[q] > 0 => topic[p] > 0
    /\ \A f \in Flusher : \A q \in Picked(f) : \A p \in Payload : Ahead(p, q.payload) =>
          topic[p] > 0 \/ \E b \in Picked(f) : b.payload = p

\* The records of the file are what the queue holds, where no append of
\* drop-oldest fails: neither the disk nor a compaction gets in its way.
Faithful == Benign /\ "walSync" \notin Faults /\ (DropOldest => "walWrite" \notin Faults)
DropAlone == turn = "ack" => pc["loop"] # "compact"
Room == MaxQueue + (IF DropOldest THEN restarts ELSE 0)
MirrorInv ==
    /\ wal = "open" => Pending(log) = Queued \cup (IF turn = "ack" THEN {Newcomer} ELSE {})
    /\ turn = "ack" => wal = "open"
    /\ Len(queue) <= Room
    /\ wal # "open" => Cardinality(Pending(log)) <= Room

-----------------------------------------------------------------------------
(* Fairness: Kubernetes restarts the process, a goroutine that can run does,
   the ticker of the loop fires, and Kafka and the disk do not fail every time
   they are asked. *)

LoopTurn == LoopWakes \/ Pick("loop") \/ CheckSize \/ Compact \/ NothingToCompact
Fairness ==
    /\ WF_vars(Start \/ InitQueue \/ CloseWAL \/ Exit)
    /\ WF_vars(Handler)
    /\ WF_vars(LoopTurn)
    /\ \A f \in Flusher :
         /\ WF_vars(Pick(f))
         /\ WF_vars(WriteSucceeds(f) \/ WriteFails(f))
         /\ WF_vars(Finalize(f))
    /\ SF_vars(WriteSucceeds("loop"))
    /\ SF_vars(Finalize("loop") /\ pc'["loop"] = "pick")

FairSpec == Spec /\ Fairness

=============================================================================
