---------------------------- MODULE LogConsumer ----------------------------
(***************************************************************************)
(* The semantic engine's log worker: KafkaQueue (kafka_adapter.py) polls   *)
(* batches of a partition and hands every record to LogWorker (worker.py), *)
(* which puts the rows of a log record into the buffer of a                *)
(* BatchClickHouseWriter (clickhouse_writer.py) and writes metrics and     *)
(* traces at once.  After a batch the buffer is flushed and the offset     *)
(* committed; a record that stays refused goes to a dead letter topic.     *)
(*                                                                         *)
(* A record is a pair <<partition, offset>>, offsets counting from 1, and  *)
(* stands for all its rows.  Every await and every section under the       *)
(* writer's lock is a step.  Partitions of one topic are consumed in turn  *)
(* by the code and independently here, which allows more interleavings.    *)
(* The group has committed before, so auto_offset_reset plays no part.     *)
(* Kafka and ClickHouse are external.                                      *)
(***************************************************************************)
EXTENDS Naturals, Sequences

CONSTANTS
    Worker,          \* the worker processes of the consumer group
    NoWorker,        \* the owner of a partition that nobody consumes
    Partition,
    Buffered,        \* the partitions of the logs topic
    MaxRecords,      \* bound: records of a partition
    MaxPoll,         \* KAFKA_MAX_BATCH_SIZE
    WriterBatch,     \* CH_BATCH_SIZE
    FlushTries,      \* KAFKA_FLUSH_RETRY_ATTEMPTS
    DlqOn,           \* DLQ_ENABLED, and no fewer attempts than DLQ_MAX_RETRIES
    WaitForInsert,   \* CH_BATCH_WAIT_FOR_ASYNC_INSERT
    MaxDisruptions,  \* bound: crashes, shutdowns and rebalances together
    Faults           \* the environment faults of this instance

(***************************************************************************)
(* poison:     a record no attempt of the callback accepts.                *)
(* storage:    every attempt to write a metrics or traces record fails.    *)
(* insert:     an INSERT of buffered rows fails, some of them being in.    *)
(* dlq:        a send to the dead letter topic fails or times out.         *)
(* commit:     a commit fails, in a rebalance or otherwise.                *)
(* clickhouse: the server restarts before it has written an async insert.  *)
(***************************************************************************)
FaultKinds == {"poison", "storage", "insert", "dlq", "commit", "clickhouse"}

ASSUME ConsumerAssumption ==
    /\ NoWorker \notin Worker
    /\ Buffered \subseteq Partition
    /\ MaxRecords \in Nat
    /\ MaxPoll \in Nat \ {0}
    /\ WriterBatch \in Nat \ {0}
    /\ FlushTries \in Nat \ {0}
    /\ DlqOn \in BOOLEAN
    /\ WaitForInsert \in BOOLEAN
    /\ MaxDisruptions \in Nat
    /\ Faults \subseteq FaultKinds

VARIABLES
    topic,        \* topic[p]: the records of partition p, good or poison
    committed,    \* committed[p]: the last offset the group has committed
    owner,        \* owner[p]: the worker partition p is assigned to
    position,     \* position[w][p]: the last offset w has polled
    mode,         \* of worker w: down, up or stopping
    task,         \* task[w][p]: where w is with the batch it has polled
    buffer,       \* buffer[w]: the rows its BatchClickHouseWriter holds
    backoff,      \* backoff[w]: the writer waits before its next INSERT
    inserting,    \* rows ClickHouse has acknowledged and not written yet
    stored,       \* rows in ClickHouse
    dlq,          \* records in the dead letter topic
    disruptions   \* crashes, shutdowns and rebalances so far

vars == <<topic, committed, owner, position, mode, task, buffer, backoff,
          inserting, stored, dlq, disruptions>>
group == <<topic, committed, owner, position>>
writer == <<buffer, backoff, inserting, stored>>
life == <<mode, disruptions>>

-----------------------------------------------------------------------------
(* The batch of a partition *)

\* A batch first..last, of which next is in hand, ok is the last offset that
\* may be committed (0 for none) and rows says whether a record succeeded.
Batch == [pc : {"idle", "process", "dlq", "flush", "commit"},
          first : Nat, next : Nat, last : Nat, ok : Nat, rows : BOOLEAN,
          tries : Nat]
Idle == [pc |-> "idle", first |-> 1, next |-> 1, last |-> 0, ok |-> 0,
         rows |-> FALSE, tries |-> 0]

\* Mutant: a batch of which nothing may be committed is not given up.
ClosedAnyway(t) == [t EXCEPT !.pc = IF t.rows THEN "flush" ELSE "commit"]
\* The batch when its records are through: flushed if one of them succeeded,
\* committed at once if all of them went to the dead letter topic.
Closed(t) ==
    IF t.ok = 0 THEN Idle
    ELSE [t EXCEPT !.pc = IF t.rows THEN "flush" ELSE "commit"]

Advanced(t) == IF t.next = t.last THEN Closed(t)
               ELSE [t EXCEPT !.pc = "process", !.next = @ + 1]
Succeeded(t) == Advanced([t EXCEPT !.ok = t.next, !.rows = TRUE])
Moved(t) == Advanced([t EXCEPT !.ok = t.next])

Rows(b) == {b[k] : k \in DOMAIN b}

\* Mutant: the rows of a failed INSERT do not go back to the buffer.
FlushOutcomesLossy(b, waiting) ==
    IF b = <<>> THEN {[left |-> b, rows |-> {}, wait |-> waiting, ok |-> TRUE]}
    ELSE IF waiting THEN {[left |-> b, rows |-> {}, wait |-> TRUE, ok |-> FALSE]}
    ELSE {[left |-> <<>>, rows |-> Rows(b), wait |-> FALSE, ok |-> TRUE]}
         \cup {[left |-> <<>>, rows |-> {}, wait |-> TRUE, ok |-> FALSE] :
                 n \in IF "insert" \in Faults THEN {0} ELSE {}}
\* _do_flush of the rows b: nothing to do, too early, all written, or an
\* INSERT fails after the first n of them and the whole of b is put back.
FlushOutcomes(b, waiting) ==
    IF b = <<>> THEN {[left |-> b, rows |-> {}, wait |-> waiting, ok |-> TRUE]}
    ELSE IF waiting THEN {[left |-> b, rows |-> {}, wait |-> TRUE, ok |-> FALSE]}
    ELSE {[left |-> <<>>, rows |-> Rows(b), wait |-> FALSE, ok |-> TRUE]}
         \cup {[left |-> b, rows |-> Rows(SubSeq(b, 1, n)), wait |-> TRUE, ok |-> FALSE] :
                 n \in IF "insert" \in Faults THEN 0..Len(b) ELSE {}}

\* The writer of worker w after a flush with outcome o.
Written(w, o) ==
    /\ buffer' = [buffer EXCEPT ![w] = o.left]
    /\ backoff' = [backoff EXCEPT ![w] = o.wait]
    /\ IF WaitForInsert
       THEN stored' = stored \cup o.rows /\ UNCHANGED inserting
       ELSE inserting' = inserting \cup o.rows /\ UNCHANGED stored

SetTask(w, p, t) == task' = [task EXCEPT ![w][p] = t]

Init ==
    /\ topic = [p \in Partition |-> <<>>]
    /\ committed = [p \in Partition |-> 0]
    /\ owner = [p \in Partition |-> NoWorker]
    /\ position = [w \in Worker |-> [p \in Partition |-> 0]]
    /\ mode = [w \in Worker |-> "down"]
    /\ task = [w \in Worker |-> [p \in Partition |-> Idle]]
    /\ buffer = [w \in Worker |-> <<>>]
    /\ backoff = [w \in Worker |-> FALSE]
    /\ inserting = {} /\ stored = {} /\ dlq = {}
    /\ disruptions = 0

-----------------------------------------------------------------------------
(* Kafka and the consumer group *)

Produce(p) ==
    /\ Len(topic[p]) < MaxRecords
    /\ \E kind \in {"good"} \cup (IF "poison" \in Faults THEN {"poison"} ELSE {}) :
         topic' = [topic EXCEPT ![p] = Append(@, kind)]
    /\ UNCHANGED <<committed, owner, position, task, writer, dlq, life>>

\* A worker that is given a partition reads on from the committed offset; a
\* batch it has polled before stays in its hands.
Given(p, w) ==
    /\ mode[w] = "up"
    /\ owner' = [owner EXCEPT ![p] = w]
    /\ position' = [position EXCEPT ![w][p] = committed[p]]
    /\ UNCHANGED <<topic, committed, mode, task, writer, dlq>>

Assign(p, w) ==
    /\ owner[p] = NoWorker
    /\ Given(p, w)
    /\ UNCHANGED disruptions

Rebalance(p, w) ==
    /\ owner[p] # NoWorker
    /\ disruptions < MaxDisruptions /\ disruptions' = disruptions + 1
    /\ Given(p, w)

-----------------------------------------------------------------------------
(* _consume_partition_records *)

Poll(w, p) ==
    /\ mode[w] # "down" /\ owner[p] = w /\ task[w][p] = Idle
    /\ \E n \in 1..MaxPoll :
         LET from == position[w][p] + 1
             to == position[w][p] + n
         IN /\ to <= Len(topic[p])
            /\ position' = [position EXCEPT ![w][p] = to]
            /\ SetTask(w, p, [Idle EXCEPT !.pc = "process", !.first = from,
                                          !.next = from, !.last = to])
    /\ UNCHANGED <<topic, committed, owner, writer, dlq, life>>

InHand(w, p) == <<p, task[w][p].next>>
Processing(w, p, kind) ==
    task[w][p].pc = "process" /\ topic[p][task[w][p].next] = kind

\* A log record goes to the buffer; the result of a flush that this triggers
\* is not looked at.
Buffer(w, p) ==
    /\ Processing(w, p, "good") /\ p \in Buffered
    /\ LET b == Append(buffer[w], InHand(w, p))
       IN IF Len(b) >= WriterBatch
          THEN \E o \in FlushOutcomes(b, backoff[w]) : Written(w, o)
          ELSE buffer' = [buffer EXCEPT ![w] = b]
               /\ UNCHANGED <<backoff, inserting, stored>>
    /\ SetTask(w, p, Succeeded(task[w][p]))
    /\ UNCHANGED <<group, dlq, life>>

\* A metrics or traces record is written to ClickHouse by the callback.
Save(w, p) ==
    /\ Processing(w, p, "good") /\ p \notin Buffered
    /\ stored' = stored \cup {InHand(w, p)}
    /\ SetTask(w, p, Succeeded(task[w][p]))
    /\ UNCHANGED <<group, buffer, backoff, inserting, dlq, life>>

\* Every attempt of the callback has failed.
Refused(w, p) ==
    /\ \/ Processing(w, p, "poison") /\ UNCHANGED stored
       \/ /\ Processing(w, p, "good") /\ p \notin Buffered /\ "storage" \in Faults
          /\ stored' \in {stored, stored \cup {InHand(w, p)}}
    /\ SetTask(w, p, IF DlqOn THEN [task[w][p] EXCEPT !.pc = "dlq"]
                     ELSE Closed(task[w][p]))
    /\ UNCHANGED <<group, buffer, backoff, inserting, dlq, life>>

MoveToDlq(w, p) ==
    /\ task[w][p].pc = "dlq"
    /\ dlq' = dlq \cup {InHand(w, p)}
    /\ SetTask(w, p, Moved(task[w][p]))
    /\ UNCHANGED <<group, writer, life>>

\* Mutant: the loop goes on after a record that it could not move.
DlqErrorIgnored(w, p) ==
    /\ task[w][p].pc = "dlq" /\ "dlq" \in Faults
    /\ SetTask(w, p, Moved(task[w][p]))
    /\ UNCHANGED <<group, writer, dlq, life>>
\* The record cannot be moved: the rest of the batch is left alone.
DlqFails(w, p) ==
    /\ task[w][p].pc = "dlq" /\ "dlq" \in Faults
    /\ dlq' \in {dlq, dlq \cup {InHand(w, p)}}
    /\ SetTask(w, p, Closed(task[w][p]))
    /\ UNCHANGED <<group, writer, life>>

\* Mutant: the commit follows whatever the flush returned.
FlushUnchecked(w, p) ==
    /\ task[w][p].pc = "flush"
    /\ \E o \in FlushOutcomes(buffer[w], backoff[w]) : Written(w, o)
    /\ SetTask(w, p, [task[w][p] EXCEPT !.pc = "commit"])
    /\ UNCHANGED <<group, dlq, life>>
\* An attempt of flush_pending_writes; after the last one the commit is
\* skipped, and the rows stay in the buffer.
FlushPending(w, p) ==
    /\ task[w][p].pc = "flush"
    /\ \E o \in FlushOutcomes(buffer[w], backoff[w]) :
         /\ Written(w, o)
         /\ SetTask(w, p,
              IF o.ok THEN [task[w][p] EXCEPT !.pc = "commit"]
              ELSE IF task[w][p].tries + 1 < FlushTries
                   THEN [task[w][p] EXCEPT !.tries = @ + 1]
                   ELSE Idle)
    /\ UNCHANGED <<group, dlq, life>>

\* Kafka refuses the commit of a worker that has lost the partition; a failed
\* commit is logged and forgotten.
Commit(w, p) ==
    /\ task[w][p].pc = "commit"
    /\ \E done \in {owner[p] = w} \cup (IF "commit" \in Faults THEN {FALSE} ELSE {}) :
         committed' = IF done THEN [committed EXCEPT ![p] = task[w][p].ok] ELSE committed
    /\ SetTask(w, p, Idle)
    /\ UNCHANGED <<topic, owner, position, writer, dlq, life>>

-----------------------------------------------------------------------------
(* BatchClickHouseWriter and ClickHouse *)

\* One turn of _flush_loop that finds rows; it ends when the writer stops.
FlushLoop(w) ==
    /\ mode[w] = "up" /\ buffer[w] # <<>> /\ ~backoff[w]
    /\ \E o \in FlushOutcomes(buffer[w], FALSE) : Written(w, o)
    /\ UNCHANGED <<group, task, dlq, life>>

BackoffOver(w) ==
    /\ backoff[w]
    /\ backoff' = [backoff EXCEPT ![w] = FALSE]
    /\ UNCHANGED <<group, task, buffer, inserting, stored, dlq, life>>

\* ClickHouse writes the acknowledged rows, unless it restarts first.
ServerWrites ==
    /\ inserting # {}
    /\ inserting' = {}
    /\ \E kept \in {inserting} \cup (IF "clickhouse" \in Faults THEN {{}} ELSE {}) :
         stored' = stored \cup kept
    /\ UNCHANGED <<group, task, buffer, backoff, dlq, life>>

-----------------------------------------------------------------------------
(* The worker process *)

StartWorker(w) ==
    /\ mode[w] = "down"
    /\ mode' = [mode EXCEPT ![w] = "up"]
    /\ UNCHANGED <<group, task, writer, dlq, disruptions>>

\* The process ends: its memory is gone and it leaves the group.
Ends(w) ==
    /\ mode' = [mode EXCEPT ![w] = "down"]
    /\ owner' = [p \in Partition |-> IF owner[p] = w THEN NoWorker ELSE owner[p]]
    /\ position' = [position EXCEPT ![w] = [p \in Partition |-> 0]]
    /\ task' = [task EXCEPT ![w] = [p \in Partition |-> Idle]]
    /\ buffer' = [buffer EXCEPT ![w] = <<>>]
    /\ backoff' = [backoff EXCEPT ![w] = FALSE]
    /\ UNCHANGED <<topic, committed, inserting, stored, dlq>>

Crash(w) ==
    /\ mode[w] # "down"
    /\ disruptions < MaxDisruptions /\ disruptions' = disruptions + 1
    /\ Ends(w)

\* Worker.stop flushes the writer first; the consumer loops still run ...
Stop(w) ==
    /\ mode[w] = "up"
    /\ disruptions < MaxDisruptions /\ disruptions' = disruptions + 1
    /\ mode' = [mode EXCEPT ![w] = "stopping"]
    /\ \E o \in FlushOutcomes(buffer[w], backoff[w]) : Written(w, o)
    /\ UNCHANGED <<group, task, dlq>>

\* ... until KafkaQueue.close cancels them.
Close(w) ==
    /\ mode[w] = "stopping"
    /\ Ends(w)
    /\ UNCHANGED disruptions

-----------------------------------------------------------------------------
Group(p) == Produce(p) \/ \E w \in Worker : Assign(p, w) \/ Rebalance(p, w)
Records(w, p) ==
    \/ Poll(w, p) \/ Buffer(w, p) \/ Save(w, p) \/ Refused(w, p)
    \/ MoveToDlq(w, p) \/ DlqFails(w, p)
Confirm(w, p) == FlushPending(w, p) \/ Commit(w, p)
Process(w) == StartWorker(w) \/ Crash(w) \/ Stop(w) \/ Close(w)

Next ==
    \/ \E p \in Partition : Group(p)
    \/ \E w \in Worker, p \in Partition : Records(w, p) \/ Confirm(w, p)
    \/ \E w \in Worker : FlushLoop(w) \/ BackoffOver(w) \/ Process(w)
    \/ ServerWrites

Spec == Init /\ [][Next]_vars

-----------------------------------------------------------------------------
(* Properties *)

\* A batch in its record loop has a record in hand and may commit what precedes
\* it; one that is flushed or committed has something to commit.
BatchOK(w, p) ==
    LET t == task[w][p]
    IN /\ t.pc # "idle" => t.first > 0 /\ t.last \in 1..Len(topic[p])
       /\ t.pc \in {"process", "dlq"} =>
            /\ t.next \in t.first..t.last
            /\ t.ok = IF t.next = t.first THEN 0 ELSE t.next - 1
       /\ t.pc \in {"flush", "commit"} => t.ok \in t.first..t.last

\* The variables have their types, offsets stay within the topic, and every
\* batch is in one of the states of _consume_partition_records.
TypeOK ==
    /\ topic \in [Partition -> Seq({"good", "poison"})]
    /\ committed \in [Partition -> Nat]
    /\ owner \in [Partition -> Worker \cup {NoWorker}]
    /\ position \in [Worker -> [Partition -> Nat]]
    /\ mode \in [Worker -> {"down", "up", "stopping"}]
    /\ task \in [Worker -> [Partition -> Batch]]
    /\ buffer \in [Worker -> Seq(Partition \X Nat)]
    /\ backoff \in [Worker -> BOOLEAN]
    /\ inserting \subseteq Partition \X Nat
    /\ stored \subseteq Partition \X Nat
    /\ dlq \subseteq Partition \X Nat
    /\ disruptions \in 0..MaxDisruptions
    /\ \A p \in Partition : committed[p] <= Len(topic[p])
    /\ \A w \in Worker, p \in Partition : BatchOK(w, p)

\* The records that are not lost if every worker dies now.
Safe == stored \cup inserting \cup dlq

\* An offset is committed only when every record up to it is in ClickHouse or
\* in the dead letter topic (_flush_pending_writes: "在提交 offset 前刷新批量写缓冲").
CommittedIsSafe ==
    \A p \in Partition : \A k \in 1..committed[p] : <<p, k>> \in Safe

\* The offset about to be committed closes a run of records of this batch of
\* which each is in ClickHouse or in the dead letter topic.
BatchConfirmed ==
    \A w \in Worker, p \in Partition :
        task[w][p].pc = "commit" =>
            \A k \in task[w][p].first..task[w][p].ok : <<p, k>> \in Safe

\* A running worker does not forget a record it has polled: it is safe, or in
\* the buffer, or still ahead in the batch.
NothingForgotten ==
    \A w \in Worker, p \in Partition :
        mode[w] # "down" /\ owner[p] = w =>
            \A k \in 1..position[w][p] :
                \/ <<p, k>> \in Safe \cup Rows(buffer[w])
                \/ task[w][p].pc \in {"process", "dlq"}
                   /\ k \in task[w][p].next..task[w][p].last

Record == Partition \X (1..MaxRecords)
Produced == {r \in Record : r[2] <= Len(topic[r[1]])}
Uncommitted == {r \in Produced : r[2] > committed[r[1]]}

\* The consumer group is a stage that takes the records of Kafka over as they are
\* produced, finds them again after a crash unless their offset is committed,
\* and passes every one of them on to ClickHouse or to the dead letter topic.
Stage == INSTANCE AtLeastOnce WITH
    Message <- Record,
    accepted <- Produced,
    kept <- Uncommitted,
    delivered <- stored,
    dropped <- dlq
IsAtLeastOnce == Stage!LiveSpec

-----------------------------------------------------------------------------
(* The inductive invariants behind BatchConfirmed, CommittedIsSafe and
   NothingForgotten. *)

\* What a worker has of a partition: safe, or in its buffer.
Kept(w) == Safe \cup Rows(buffer[w])

\* BatchConfirmed needs ClickHouse to write what it has acknowledged.
ServerKeeps == "clickhouse" \notin Faults

\* What a batch may commit is kept, and is in the dead letter topic alone as
\* long as no record of the batch has succeeded.
Confirmed(w, p) ==
    LET t == task[w][p]
    IN /\ t.pc \in {"process", "dlq", "flush"} =>
            \A k \in t.first..t.ok : <<p, k>> \in Kept(w)
       /\ t.pc \in {"process", "dlq"} /\ ~t.rows =>
            \A k \in t.first..t.ok : <<p, k>> \in dlq
       /\ t.pc = "commit" => \A k \in t.first..t.ok : <<p, k>> \in Safe
ConfirmInv == \A w \in Worker, p \in Partition : Confirmed(w, p)

\* CommittedIsSafe holds where every refused record can be moved to the dead
\* letter topic, and refused log records do not meet failing INSERTs.
Benign ==
    /\ Faults \cap {"dlq", "clickhouse"} = {}
    /\ Faults \cap {"poison", "storage"} # {} => DlqOn
    /\ "poison" \in Faults => "insert" \notin Faults

\* Everything before a batch is kept, a batch is confirmed as a whole, and
\* everything up to the position is kept or ahead in the batch.
Prefix(w, p) ==
    LET t == task[w][p]
    IN /\ t.pc # "idle" => \A k \in 1..t.first - 1 : <<p, k>> \in Kept(w)
       /\ t.pc \in {"flush", "commit"} => t.ok = t.last
       /\ t.pc = "commit" => \A k \in 1..t.ok : <<p, k>> \in Safe
       /\ \A k \in 1..position[w][p] :
            \/ <<p, k>> \in Kept(w)
            \/ t.pc \in {"process", "dlq"} /\ k \in t.next..t.last
PrefixInv == \A w \in Worker, p \in Partition : Prefix(w, p)

\* A batch without a success has no row in the buffer: its partition is not
\* buffered, or no INSERT fails and the last batch has emptied the buffer.
Residue(w, p) ==
    LET t == task[w][p]
    IN /\ t.pc = "dlq" \/ (t.pc = "process" /\ t.ok # 0 /\ ~t.rows)
            => p \notin Buffered \/ "poison" \in Faults
       /\ "insert" \notin Faults => ~backoff[w]
       /\ \A k \in Nat : <<p, k>> \in Rows(buffer[w]) =>
            /\ p \in Buffered
            /\ "insert" \notin Faults =>
                 t.pc \in {"process", "dlq", "flush"} /\ t.rows
ResidueInv == \A w \in Worker, p \in Partition : Residue(w, p)

PoisonInv ==
    \A p \in Partition : \A k \in DOMAIN topic[p] :
        topic[p][k] = "poison" => "poison" \in Faults

CommittedInv ==
    ConfirmInv /\ PrefixInv /\ ResidueInv /\ PoisonInv /\ CommittedIsSafe

\* For the refinement: rows are of records, and none is acknowledged unwritten.
InRecords ==
    /\ \A p \in Partition : Len(topic[p]) <= MaxRecords
    /\ \A w \in Worker : Rows(buffer[w]) \subseteq Record
    /\ inserting = {}

-----------------------------------------------------------------------------
(* Fairness: a worker that is down is restarted, a task that can run does, a
   backoff ends, the group assigns partitions, ClickHouse writes what it has
   acknowledged and does not refuse every INSERT of the flush loop. *)

Fairness ==
    /\ \A w \in Worker :
         /\ WF_vars(StartWorker(w) \/ Close(w))
         /\ WF_vars(BackoffOver(w))
         /\ WF_vars(FlushLoop(w))
         /\ SF_vars(FlushLoop(w) /\ ~backoff'[w])
         /\ \A p \in Partition : WF_vars(Records(w, p)) /\ WF_vars(Confirm(w, p))
    /\ \A p \in Partition : WF_vars(\E w \in Worker : Assign(p, w))
    /\ WF_vars(ServerWrites)

FairSpec == Spec /\ Fairness

=============================================================================
