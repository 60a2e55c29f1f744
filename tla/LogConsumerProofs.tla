------------------------- MODULE LogConsumerProofs -------------------------
(***************************************************************************)
(* Proofs about LogConsumer, for every value of its constants: its types,  *)
(* its safety properties, which say that what is committed is in           *)
(* ClickHouse or in the dead letter topic, and that the group is a stage   *)
(* of the pipeline (AtLeastOnce).                                          *)
(***************************************************************************)
EXTENDS LogConsumer, SequenceTheorems, TLAPS

(***************************************************************************)
(* The batch of a partition.                                               *)
(***************************************************************************)

LEMMA BatchFields ==
    ASSUME NEW t \in Batch
    PROVE  /\ t.pc \in {"idle", "process", "dlq", "flush", "commit"}
           /\ t.first \in Nat /\ t.next \in Nat /\ t.last \in Nat
           /\ t.ok \in Nat /\ t.rows \in BOOLEAN /\ t.tries \in Nat
BY DEF Batch

LEMMA IdleType == Idle \in Batch /\ Idle.pc = "idle"
BY DEF Idle, Batch

\* Changing the task of one partition of one worker changes no other.
LEMMA TaskSet ==
    ASSUME task \in [Worker -> [Partition -> Batch]],
           NEW w \in Worker, NEW p \in Partition, NEW t \in Batch,
           SetTask(w, p, t)
    PROVE  /\ task' \in [Worker -> [Partition -> Batch]]
           /\ task'[w][p] = t
           /\ \A v \in Worker, q \in Partition :
                v # w \/ q # p => task'[v][q] = task[v][q]
BY DEF SetTask

\* A batch whose records are through keeps its range, is given up if it has
\* nothing to commit, and is flushed or committed otherwise.
LEMMA ClosedShape ==
    ASSUME NEW t \in Batch
    PROVE  /\ Closed(t) \in Batch
           /\ t.ok = 0 => Closed(t) = Idle
           /\ t.ok # 0 => /\ Closed(t).pc = IF t.rows THEN "flush" ELSE "commit"
                          /\ Closed(t).first = t.first /\ Closed(t).last = t.last
                          /\ Closed(t).ok = t.ok /\ Closed(t).rows = t.rows
BY IdleType DEF Closed, Batch

\* After a record that may be committed, the next one is in hand, or the batch
\* is flushed or committed up to its end.
LEMMA AdvancedShape ==
    ASSUME NEW t \in Batch, t.ok = t.next, t.first > 0, t.next \in t.first..t.last
    PROVE  LET a == Advanced(t)
           IN /\ a \in Batch
              /\ a.first = t.first /\ a.last = t.last /\ a.ok = t.ok /\ a.rows = t.rows
              /\ t.next = t.last => a.pc = IF t.rows THEN "flush" ELSE "commit"
              /\ t.next # t.last => /\ a.pc = "process" /\ a.next = t.next + 1
                                    /\ a.next \in t.first..t.last
<1>1. CASE t.next = t.last
  <2>1. t.ok # 0
    BY BatchFields
  <2>2. Advanced(t) = Closed(t)
    BY <1>1 DEF Advanced
  <2>3. /\ Closed(t) \in Batch
        /\ Closed(t).pc = IF t.rows THEN "flush" ELSE "commit"
        /\ Closed(t).first = t.first /\ Closed(t).last = t.last
        /\ Closed(t).ok = t.ok /\ Closed(t).rows = t.rows
    BY <2>1, ClosedShape
  <2> QED  BY <1>1, <2>2, <2>3
<1>2. CASE t.next # t.last
  <2>1. Advanced(t) = [t EXCEPT !.pc = "process", !.next = t.next + 1]
    BY <1>2 DEF Advanced
  <2>2. t.next + 1 \in Nat /\ t.next + 1 \in t.first..t.last
    BY <1>2, BatchFields
  <2>3. /\ Advanced(t) \in Batch /\ Advanced(t).pc = "process"
        /\ Advanced(t).next = t.next + 1
        /\ Advanced(t).first = t.first /\ Advanced(t).last = t.last
        /\ Advanced(t).ok = t.ok /\ Advanced(t).rows = t.rows
    BY <2>1, <2>2 DEF Batch
  <2> QED  BY <1>2, <2>2, <2>3
<1> QED  BY <1>1, <1>2

LEMMA SucceededShape ==
    ASSUME NEW t \in Batch, t.first > 0, t.next \in t.first..t.last
    PROVE  LET a == Succeeded(t)
           IN /\ a \in Batch
              /\ a.first = t.first /\ a.last = t.last /\ a.ok = t.next /\ a.rows
              /\ t.next = t.last => a.pc = "flush"
              /\ t.next # t.last => /\ a.pc = "process" /\ a.next = t.next + 1
                                    /\ a.next \in t.first..t.last
<1> DEFINE s == [t EXCEPT !.ok = t.next, !.rows = TRUE]
<1>1. /\ s \in Batch /\ s.ok = t.next /\ s.next = t.next /\ s.first = t.first
      /\ s.last = t.last /\ s.rows
  BY DEF Batch
<1>2. Succeeded(t) = Advanced(s)
  BY DEF Succeeded
<1> HIDE DEF s
<1> QED  BY <1>1, <1>2, AdvancedShape

LEMMA MovedShape ==
    ASSUME NEW t \in Batch, t.first > 0, t.next \in t.first..t.last
    PROVE  LET a == Moved(t)
           IN /\ a \in Batch
              /\ a.first = t.first /\ a.last = t.last /\ a.ok = t.next /\ a.rows = t.rows
              /\ t.next = t.last => a.pc = IF t.rows THEN "flush" ELSE "commit"
              /\ t.next # t.last => /\ a.pc = "process" /\ a.next = t.next + 1
                                    /\ a.next \in t.first..t.last
<1> DEFINE s == [t EXCEPT !.ok = t.next]
<1>1. /\ s \in Batch /\ s.ok = t.next /\ s.next = t.next /\ s.first = t.first
      /\ s.last = t.last /\ s.rows = t.rows
  BY DEF Batch
<1>2. Moved(t) = Advanced(s)
  BY DEF Moved
<1> HIDE DEF s
<1> QED  BY <1>1, <1>2, AdvancedShape

(***************************************************************************)
(* The buffer.                                                             *)
(***************************************************************************)

LEMMA RowsOf ==
    ASSUME NEW S, NEW b \in Seq(S)
    PROVE  /\ Rows(b) \subseteq S
           /\ Rows(<<>>) = {}
           /\ \A x \in S : Rows(Append(b, x)) = Rows(b) \cup {x}
           /\ \A n \in 0..Len(b) : Rows(SubSeq(b, 1, n)) \subseteq Rows(b)
<1>1. Rows(b) \subseteq S /\ Rows(<<>>) = {}
  BY DEF Rows
<1>2. ASSUME NEW x \in S
      PROVE  Rows(Append(b, x)) = Rows(b) \cup {x}
  <2>1. /\ DOMAIN Append(b, x) = 1..Len(b) + 1 /\ DOMAIN b = 1..Len(b)
        /\ \A k \in 1..Len(b) : Append(b, x)[k] = b[k]
        /\ Append(b, x)[Len(b) + 1] = x
    OBVIOUS
  <2>2. 1..Len(b) + 1 = 1..Len(b) \cup {Len(b) + 1}
    OBVIOUS
  <2> QED  BY <2>1, <2>2 DEF Rows
<1>3. \A n \in 0..Len(b) : Rows(SubSeq(b, 1, n)) \subseteq Rows(b)
  BY DEF Rows
<1> QED  BY <1>1, <1>2, <1>3

\* A flush loses no row: each is written or still there, and all are written
\* if it reports success.  Without failing INSERTs only a backoff stops it.
LEMMA FlushShape ==
    ASSUME NEW S, NEW b \in Seq(S), NEW waiting \in BOOLEAN,
           NEW o \in FlushOutcomes(b, waiting)
    PROVE  /\ o.left \in Seq(S) /\ o.rows \subseteq Rows(b)
           /\ o.wait \in BOOLEAN /\ o.ok \in BOOLEAN
           /\ Rows(o.left) \subseteq Rows(b) /\ Rows(b) \subseteq o.rows \cup Rows(o.left)
           /\ o.ok => Rows(o.left) = {}
           /\ "insert" \notin Faults /\ ~waiting => o.ok /\ ~o.wait
<1>0. <<>> \in Seq(S) /\ Rows(<<>>) = {}
  BY DEF Rows
<1>1. CASE b = <<>>
  <2>1. o = [left |-> b, rows |-> {}, wait |-> waiting, ok |-> TRUE]
    BY <1>1 DEF FlushOutcomes
  <2> QED  BY <1>0, <1>1, <2>1
<1>2. CASE b # <<>> /\ waiting
  <2>1. o = [left |-> b, rows |-> {}, wait |-> TRUE, ok |-> FALSE]
    BY <1>2 DEF FlushOutcomes
  <2> QED  BY <1>2, <2>1
<1>3. CASE b # <<>> /\ ~waiting
  <2>1. CASE o = [left |-> <<>>, rows |-> Rows(b), wait |-> FALSE, ok |-> TRUE]
    BY <1>0, <1>3, <2>1
  <2>2. CASE o # [left |-> <<>>, rows |-> Rows(b), wait |-> FALSE, ok |-> TRUE]
    <3>1. PICK n \in IF "insert" \in Faults THEN 0..Len(b) ELSE {} :
            o = [left |-> b, rows |-> Rows(SubSeq(b, 1, n)), wait |-> TRUE, ok |-> FALSE]
      BY <1>3, <2>2 DEF FlushOutcomes
    <3>2. "insert" \in Faults /\ n \in 0..Len(b)
      BY <3>1
    <3>3. Rows(SubSeq(b, 1, n)) \subseteq Rows(b)
      BY <3>2, RowsOf
    <3> QED  BY <3>1, <3>2, <3>3
  <2> QED  BY <2>1, <2>2
<1> QED  BY <1>1, <1>2, <1>3

(***************************************************************************)
(* Type correctness.                                                       *)
(***************************************************************************)

LEMMA TypeInit == Init => TypeOK
<1> SUFFICES ASSUME Init PROVE TypeOK
  OBVIOUS
<1>1. /\ topic \in [Partition -> Seq({"good", "poison"})]
      /\ committed \in [Partition -> Nat] /\ owner \in [Partition -> Worker \cup {NoWorker}]
      /\ position \in [Worker -> [Partition -> Nat]]
      /\ mode \in [Worker -> {"down", "up", "stopping"}]
      /\ buffer \in [Worker -> Seq(Partition \X Nat)] /\ backoff \in [Worker -> BOOLEAN]
  BY DEF Init
<1>2. task \in [Worker -> [Partition -> Batch]]
  BY IdleType DEF Init
<1>3. \A p \in Partition : committed[p] <= Len(topic[p])
  BY DEF Init
<1>4. \A w \in Worker, p \in Partition : BatchOK(w, p)
  BY IdleType DEF Init, BatchOK
<1>5. /\ inserting = {} /\ stored = {} /\ dlq = {} /\ disruptions \in 0..MaxDisruptions
  BY ConsumerAssumption DEF Init
<1> QED  BY <1>1, <1>2, <1>3, <1>4, <1>5 DEF TypeOK

\* A batch that a step leaves alone stays well formed.
LEMMA BatchStays ==
    ASSUME NEW w \in Worker, NEW p \in Partition, BatchOK(w, p),
           task'[w][p] = task[w][p], Len(topic[p]) \in Nat,
           Len(topic'[p]) \in Nat, Len(topic'[p]) >= Len(topic[p]),
           task[w][p] \in Batch
    PROVE  BatchOK(w, p)'
BY BatchFields DEF BatchOK

\* A step of one batch keeps the type of all.
LEMMA TaskType ==
    ASSUME TypeOK, NEW w \in Worker, NEW p \in Partition, NEW t \in Batch,
           SetTask(w, p, t), UNCHANGED topic,
           t.pc # "idle" => t.first > 0 /\ t.last \in 1..Len(topic[p]),
           t.pc \in {"process", "dlq"} =>
              /\ t.next \in t.first..t.last
              /\ t.ok = IF t.next = t.first THEN 0 ELSE t.next - 1,
           t.pc \in {"flush", "commit"} => t.ok \in t.first..t.last
    PROVE  /\ task' \in [Worker -> [Partition -> Batch]]
           /\ \A v \in Worker, q \in Partition : BatchOK(v, q)'
<1>1. /\ task' \in [Worker -> [Partition -> Batch]]
      /\ task'[w][p] = t
      /\ \A v \in Worker, q \in Partition :
           v # w \/ q # p => task'[v][q] = task[v][q]
  BY TaskSet DEF TypeOK
<1>2. BatchOK(w, p)'
  BY <1>1 DEF BatchOK
<1>3. ASSUME NEW v \in Worker, NEW q \in Partition, v # w \/ q # p
      PROVE  BatchOK(v, q)'
  <2>1. /\ task'[v][q] = task[v][q] /\ task[v][q] \in Batch
        /\ BatchOK(v, q) /\ Len(topic[q]) \in Nat
    BY <1>1, <1>3 DEF TypeOK
  <2> QED  BY <2>1, BatchStays
<1> QED  BY <1>1, <1>2, <1>3

\* The batch in hand, with what TypeOK says of it.
LEMMA TaskInHand ==
    ASSUME TypeOK, NEW w \in Worker, NEW p \in Partition
    PROVE  /\ task[w][p] \in Batch /\ BatchOK(w, p)
           /\ topic[p] \in Seq({"good", "poison"}) /\ Len(topic[p]) \in Nat
           /\ <<p, task[w][p].next>> \in Partition \X Nat
<1>1. task[w][p] \in Batch
  BY DEF TypeOK
<1> QED  BY <1>1, BatchFields DEF TypeOK

LEMMA WrittenType ==
    ASSUME TypeOK, NEW w \in Worker, NEW b \in Seq(Partition \X Nat),
           NEW o \in FlushOutcomes(b, backoff[w]), Written(w, o)
    PROVE  /\ buffer' \in [Worker -> Seq(Partition \X Nat)]
           /\ backoff' \in [Worker -> BOOLEAN]
           /\ inserting' \subseteq Partition \X Nat /\ stored' \subseteq Partition \X Nat
<1>1. backoff[w] \in BOOLEAN
  BY DEF TypeOK
<1>2. /\ o.left \in Seq(Partition \X Nat) /\ o.wait \in BOOLEAN
      /\ o.rows \subseteq Rows(b) /\ Rows(b) \subseteq Partition \X Nat
  BY <1>1, FlushShape, RowsOf
<1> QED  BY <1>2 DEF Written, TypeOK

LEMMA SucceededType ==
    ASSUME TypeOK, NEW w \in Worker, NEW p \in Partition,
           task[w][p].pc = "process", UNCHANGED topic,
           SetTask(w, p, Succeeded(task[w][p]))
    PROVE  /\ task' \in [Worker -> [Partition -> Batch]]
           /\ \A v \in Worker, q \in Partition : BatchOK(v, q)'
<1> DEFINE t == task[w][p]
           a == Succeeded(t)
<1>1. /\ t \in Batch /\ t.first > 0 /\ t.next \in t.first..t.last
      /\ t.last \in 1..Len(topic[p])
  BY TaskInHand DEF BatchOK
<1>2. /\ a \in Batch
      /\ a.first = t.first /\ a.last = t.last /\ a.ok = t.next
      /\ t.next = t.last => a.pc = "flush"
      /\ t.next # t.last => /\ a.pc = "process" /\ a.next = t.next + 1
                            /\ a.next \in t.first..t.last
  BY <1>1, SucceededShape
<1>3. t.first \in Nat /\ t.next \in Nat /\ t.last \in Nat
  BY <1>1, BatchFields
<1> HIDE DEF t, a
<1>4. /\ a.pc # "idle" => a.first > 0 /\ a.last \in 1..Len(topic[p])
      /\ a.pc \in {"process", "dlq"} =>
           /\ a.next \in a.first..a.last
           /\ a.ok = IF a.next = a.first THEN 0 ELSE a.next - 1
      /\ a.pc \in {"flush", "commit"} => a.ok \in a.first..a.last
  BY <1>1, <1>2, <1>3
<1>5. SetTask(w, p, a)
  BY DEF a, t
<1> QED  BY <1>2, <1>4, <1>5, TaskType

LEMMA MovedType ==
    ASSUME TypeOK, NEW w \in Worker, NEW p \in Partition,
           task[w][p].pc = "dlq", UNCHANGED topic,
           SetTask(w, p, Moved(task[w][p]))
    PROVE  /\ task' \in [Worker -> [Partition -> Batch]]
           /\ \A v \in Worker, q \in Partition : BatchOK(v, q)'
<1> DEFINE t == task[w][p]
           a == Moved(t)
<1>1. /\ t \in Batch /\ t.first > 0 /\ t.next \in t.first..t.last
      /\ t.last \in 1..Len(topic[p])
  BY TaskInHand DEF BatchOK
<1>2. /\ a \in Batch
      /\ a.first = t.first /\ a.last = t.last /\ a.ok = t.next
      /\ t.next = t.last => a.pc \in {"flush", "commit"}
      /\ t.next # t.last => /\ a.pc = "process" /\ a.next = t.next + 1
                            /\ a.next \in t.first..t.last
  BY <1>1, MovedShape
<1>3. t.first \in Nat /\ t.next \in Nat /\ t.last \in Nat
  BY <1>1, BatchFields
<1> HIDE DEF t, a
<1>4. /\ a.pc # "idle" => a.first > 0 /\ a.last \in 1..Len(topic[p])
      /\ a.pc \in {"process", "dlq"} =>
           /\ a.next \in a.first..a.last
           /\ a.ok = IF a.next = a.first THEN 0 ELSE a.next - 1
      /\ a.pc \in {"flush", "commit"} => a.ok \in a.first..a.last
  BY <1>1, <1>2, <1>3
<1>5. SetTask(w, p, a)
  BY DEF a, t
<1> QED  BY <1>2, <1>4, <1>5, TaskType

LEMMA ClosedType ==
    ASSUME TypeOK, NEW w \in Worker, NEW p \in Partition,
           task[w][p].pc \in {"process", "dlq"}, UNCHANGED topic,
           SetTask(w, p, Closed(task[w][p]))
    PROVE  /\ task' \in [Worker -> [Partition -> Batch]]
           /\ \A v \in Worker, q \in Partition : BatchOK(v, q)'
<1> DEFINE t == task[w][p]
           a == Closed(t)
<1>1. /\ t \in Batch /\ t.first > 0 /\ t.next \in t.first..t.last
      /\ t.last \in 1..Len(topic[p])
      /\ t.ok = IF t.next = t.first THEN 0 ELSE t.next - 1
  BY TaskInHand DEF BatchOK
<1>2. /\ a \in Batch
      /\ a.pc \in {"idle", "flush", "commit"}
      /\ a.pc # "idle" => a.first = t.first /\ a.last = t.last /\ a.ok = t.ok /\ t.ok # 0
  BY <1>1, ClosedShape, IdleType
<1>3. t.first \in Nat /\ t.next \in Nat /\ t.last \in Nat
  BY <1>1, BatchFields
<1> HIDE DEF t, a
<1>4. /\ a.pc # "idle" => a.first > 0 /\ a.last \in 1..Len(topic[p])
      /\ a.pc \in {"process", "dlq"} =>
           /\ a.next \in a.first..a.last
           /\ a.ok = IF a.next = a.first THEN 0 ELSE a.next - 1
      /\ a.pc \in {"flush", "commit"} => a.ok \in a.first..a.last
  BY <1>1, <1>2, <1>3
<1>5. SetTask(w, p, a)
  BY DEF a, t
<1> QED  BY <1>2, <1>4, <1>5, TaskType

\* A process that ends leaves idle batches behind.
LEMMA EndsType ==
    ASSUME TypeOK, NEW w \in Worker, Ends(w)
    PROVE  /\ owner' \in [Partition -> Worker \cup {NoWorker}]
           /\ position' \in [Worker -> [Partition -> Nat]]
           /\ mode' \in [Worker -> {"down", "up", "stopping"}]
           /\ task' \in [Worker -> [Partition -> Batch]]
           /\ buffer' \in [Worker -> Seq(Partition \X Nat)]
           /\ backoff' \in [Worker -> BOOLEAN]
           /\ \A v \in Worker, q \in Partition : BatchOK(v, q)'
<1>1. /\ owner' \in [Partition -> Worker \cup {NoWorker}]
      /\ position' \in [Worker -> [Partition -> Nat]]
      /\ mode' \in [Worker -> {"down", "up", "stopping"}]
      /\ buffer' \in [Worker -> Seq(Partition \X Nat)]
      /\ backoff' \in [Worker -> BOOLEAN]
  BY DEF TypeOK, Ends
<1>2. /\ task' \in [Worker -> [Partition -> Batch]]
      /\ \A q \in Partition : task'[w][q] = Idle
      /\ \A v \in Worker \ {w}, q \in Partition : task'[v][q] = task[v][q]
  BY IdleType DEF TypeOK, Ends
<1>3. UNCHANGED topic
  BY DEF Ends
<1>4. \A q \in Partition : BatchOK(w, q)'
  BY <1>2, IdleType DEF BatchOK
<1>5. ASSUME NEW v \in Worker \ {w}, NEW q \in Partition
      PROVE  BatchOK(v, q)'
  <2>1. task'[v][q] = task[v][q] /\ topic'[q] = topic[q]
    BY <1>2, <1>3
  <2>2. BatchOK(v, q) /\ task[v][q] \in Batch /\ Len(topic[q]) \in Nat
    BY TaskInHand
  <2> QED  BY <2>1, <2>2, BatchStays
<1> QED  BY <1>1, <1>2, <1>4, <1>5

LEMMA TypeStep == TypeOK /\ [Next]_vars => TypeOK'
<1> SUFFICES ASSUME TypeOK, [Next]_vars PROVE TypeOK'
  OBVIOUS
<1>1. ASSUME NEW p \in Partition, Produce(p)
      PROVE  TypeOK'
  <2>1. /\ topic' \in [Partition -> Seq({"good", "poison"})]
        /\ \A q \in Partition : Len(topic'[q]) \in Nat /\ Len(topic'[q]) >= Len(topic[q])
    <3>1. PICK kind \in {"good", "poison"} :
            topic' = [topic EXCEPT ![p] = Append(@, kind)]
      BY <1>1 DEF Produce
    <3>2. \A q \in Partition : topic[q] \in Seq({"good", "poison"})
      BY DEF TypeOK
    <3>3. \A q \in Partition : topic'[q] = IF q = p THEN Append(topic[p], kind) ELSE topic[q]
      BY <3>1 DEF TypeOK
    <3> QED  BY <3>1, <3>2, <3>3 DEF TypeOK
  <2>2. \A v \in Worker, q \in Partition : BatchOK(v, q)'
    <3> SUFFICES ASSUME NEW v \in Worker, NEW q \in Partition PROVE BatchOK(v, q)'
      OBVIOUS
    <3>1. task'[v][q] = task[v][q]
      BY <1>1 DEF Produce
    <3> QED  BY <2>1, <3>1, TaskInHand, BatchStays
  <2>3. \A q \in Partition : committed'[q] <= Len(topic'[q])
    <3>1. \A q \in Partition : committed[q] \in Nat /\ committed[q] <= Len(topic[q])
      BY DEF TypeOK
    <3>2. \A q \in Partition : Len(topic[q]) \in Nat
      BY DEF TypeOK
    <3> QED  BY <1>1, <2>1, <3>1, <3>2 DEF Produce
  <2> QED  BY <1>1, <2>1, <2>2, <2>3 DEF Produce, TypeOK, writer, life
<1>2. ASSUME NEW p \in Partition, NEW w \in Worker, Assign(p, w) \/ Rebalance(p, w)
      PROVE  TypeOK'
  <2>1. Given(p, w) /\ disruptions' \in 0..MaxDisruptions
    BY <1>2, ConsumerAssumption DEF Assign, Rebalance, TypeOK
  <2>2. /\ owner' \in [Partition -> Worker \cup {NoWorker}]
        /\ position' \in [Worker -> [Partition -> Nat]]
    BY <2>1 DEF Given, TypeOK
  <2>3. UNCHANGED <<topic, committed, mode, task>> /\ UNCHANGED writer /\ UNCHANGED dlq
    BY <2>1 DEF Given
  <2>4. \A v \in Worker, q \in Partition : BatchOK(v, q)'
    BY <2>3, TaskInHand DEF BatchOK
  <2> QED  BY <2>1, <2>2, <2>3, <2>4 DEF TypeOK, writer
<1>3. ASSUME NEW w \in Worker, NEW p \in Partition, Poll(w, p)
      PROVE  TypeOK'
  <2>1. PICK n \in 1..MaxPoll :
          LET from == position[w][p] + 1
              to == position[w][p] + n
          IN /\ to <= Len(topic[p])
             /\ position' = [position EXCEPT ![w][p] = to]
             /\ SetTask(w, p, [Idle EXCEPT !.pc = "process", !.first = from,
                                           !.next = from, !.last = to])
    BY <1>3 DEF Poll
  <2> DEFINE from == position[w][p] + 1
             to == position[w][p] + n
             t == [Idle EXCEPT !.pc = "process", !.first = from, !.next = from, !.last = to]
  <2>2. /\ position[w][p] \in Nat /\ n \in Nat \ {0}
        /\ position' \in [Worker -> [Partition -> Nat]]
    BY <2>1, ConsumerAssumption DEF TypeOK
  <2>3. from \in Nat /\ to \in Nat /\ from > 0 /\ from <= to /\ to <= Len(topic[p])
    BY <2>1, <2>2
  <2>4. SetTask(w, p, t)
    BY <2>1
  <2> HIDE DEF from, to
  <2>5. /\ t \in Batch /\ t.pc = "process" /\ t.first = from /\ t.next = from
        /\ t.last = to /\ t.ok = 0
    BY <2>3 DEF Idle, Batch
  <2> HIDE DEF t
  <2>6. UNCHANGED topic /\ Len(topic[p]) \in Nat
    BY <1>3, TaskInHand DEF Poll
  <2>7. /\ task' \in [Worker -> [Partition -> Batch]]
        /\ \A v \in Worker, q \in Partition : BatchOK(v, q)'
    BY <2>3, <2>4, <2>5, <2>6, TaskType
  <2> QED  BY <1>3, <2>2, <2>7 DEF Poll, TypeOK, writer, life
<1>4. ASSUME NEW w \in Worker, NEW p \in Partition, Buffer(w, p)
      PROVE  TypeOK'
  <2>1. /\ task' \in [Worker -> [Partition -> Batch]]
        /\ \A v \in Worker, q \in Partition : BatchOK(v, q)'
    BY <1>4, SucceededType DEF Buffer, Processing, group
  <2> DEFINE b == Append(buffer[w], InHand(w, p))
  <2>2. b \in Seq(Partition \X Nat)
    <3>1. buffer[w] \in Seq(Partition \X Nat) /\ InHand(w, p) \in Partition \X Nat
      BY TaskInHand DEF TypeOK, InHand
    <3> QED  BY <3>1
  <2>3. /\ buffer' \in [Worker -> Seq(Partition \X Nat)]
        /\ backoff' \in [Worker -> BOOLEAN]
        /\ inserting' \subseteq Partition \X Nat /\ stored' \subseteq Partition \X Nat
    <3>1. CASE Len(b) >= WriterBatch
      <4>1. PICK o \in FlushOutcomes(b, backoff[w]) : Written(w, o)
        BY <1>4, <3>1 DEF Buffer
      <4> HIDE DEF b
      <4> QED  BY <2>2, <4>1, WrittenType
    <3>2. CASE ~(Len(b) >= WriterBatch)
      <4>1. buffer' = [buffer EXCEPT ![w] = b] /\ UNCHANGED <<backoff, inserting, stored>>
        BY <1>4, <3>2 DEF Buffer
      <4> HIDE DEF b
      <4> QED  BY <2>2, <4>1 DEF TypeOK
    <3> QED  BY <3>1, <3>2
  <2> QED  BY <1>4, <2>1, <2>3 DEF Buffer, TypeOK, group, life
<1>5. ASSUME NEW w \in Worker, NEW p \in Partition, Save(w, p)
      PROVE  TypeOK'
  <2>1. /\ task' \in [Worker -> [Partition -> Batch]]
        /\ \A v \in Worker, q \in Partition : BatchOK(v, q)'
    BY <1>5, SucceededType DEF Save, Processing, group
  <2>2. stored' \subseteq Partition \X Nat
    BY <1>5, TaskInHand DEF Save, InHand, TypeOK
  <2> QED  BY <1>5, <2>1, <2>2 DEF Save, TypeOK, group, life
<1>6. ASSUME NEW w \in Worker, NEW p \in Partition, Refused(w, p)
      PROVE  TypeOK'
  <2>1. task[w][p].pc = "process" /\ UNCHANGED topic
    BY <1>6 DEF Refused, Processing, group
  <2>2. /\ task' \in [Worker -> [Partition -> Batch]]
        /\ \A v \in Worker, q \in Partition : BatchOK(v, q)'
    <3>1. CASE DlqOn
      <4> DEFINE t == [task[w][p] EXCEPT !.pc = "dlq"]
      <4>1. SetTask(w, p, t)
        BY <1>6, <3>1 DEF Refused
      <4>2. /\ t \in Batch /\ t.pc = "dlq" /\ t.first = task[w][p].first
            /\ t.next = task[w][p].next /\ t.last = task[w][p].last
            /\ t.ok = task[w][p].ok
        <5>1. task[w][p] \in Batch
          BY TaskInHand
        <5> QED  BY <5>1 DEF Batch
      <4>3. BatchOK(w, p)
        BY TaskInHand
      <4> HIDE DEF t
      <4> QED  BY <2>1, <4>1, <4>2, <4>3, TaskType DEF BatchOK
    <3>2. CASE ~DlqOn
      <4>1. SetTask(w, p, Closed(task[w][p]))
        BY <1>6, <3>2 DEF Refused
      <4> QED  BY <2>1, <4>1, ClosedType
    <3> QED  BY <3>1, <3>2
  <2>3. stored' \subseteq Partition \X Nat
    BY <1>6, TaskInHand DEF Refused, InHand, TypeOK
  <2> QED  BY <1>6, <2>2, <2>3 DEF Refused, TypeOK, group, life
<1>7. ASSUME NEW w \in Worker, NEW p \in Partition, MoveToDlq(w, p)
      PROVE  TypeOK'
  <2>1. /\ task' \in [Worker -> [Partition -> Batch]]
        /\ \A v \in Worker, q \in Partition : BatchOK(v, q)'
    BY <1>7, MovedType DEF MoveToDlq, group
  <2>2. dlq' \subseteq Partition \X Nat
    BY <1>7, TaskInHand DEF MoveToDlq, InHand, TypeOK
  <2> QED  BY <1>7, <2>1, <2>2 DEF MoveToDlq, TypeOK, group, writer, life
<1>8. ASSUME NEW w \in Worker, NEW p \in Partition, DlqFails(w, p)
      PROVE  TypeOK'
  <2>1. /\ task' \in [Worker -> [Partition -> Batch]]
        /\ \A v \in Worker, q \in Partition : BatchOK(v, q)'
    BY <1>8, ClosedType DEF DlqFails, group
  <2>2. dlq' \subseteq Partition \X Nat
    BY <1>8, TaskInHand DEF DlqFails, InHand, TypeOK
  <2> QED  BY <1>8, <2>1, <2>2 DEF DlqFails, TypeOK, group, writer, life
<1>9. ASSUME NEW w \in Worker, NEW p \in Partition, FlushPending(w, p)
      PROVE  TypeOK'
  <2>1. PICK o \in FlushOutcomes(buffer[w], backoff[w]) :
          /\ Written(w, o)
          /\ SetTask(w, p,
               IF o.ok THEN [task[w][p] EXCEPT !.pc = "commit"]
               ELSE IF task[w][p].tries + 1 < FlushTries
                    THEN [task[w][p] EXCEPT !.tries = @ + 1]
                    ELSE Idle)
    BY <1>9 DEF FlushPending
  <2> DEFINE t == IF o.ok THEN [task[w][p] EXCEPT !.pc = "commit"]
                  ELSE IF task[w][p].tries + 1 < FlushTries
                       THEN [task[w][p] EXCEPT !.tries = @ + 1]
                       ELSE Idle
  <2>2. task[w][p] \in Batch /\ BatchOK(w, p) /\ task[w][p].pc = "flush"
    BY <1>9, TaskInHand DEF FlushPending
  <2>3. /\ t \in Batch /\ t.pc \in {"idle", "flush", "commit"}
        /\ t.pc # "idle" => /\ t.first = task[w][p].first /\ t.last = task[w][p].last
                            /\ t.ok = task[w][p].ok
    <3>1. CASE o.ok
      BY <2>2, <3>1 DEF Batch
    <3>2. CASE ~o.ok /\ task[w][p].tries + 1 < FlushTries
      <4>1. task[w][p].tries + 1 \in Nat
        BY <2>2, BatchFields
      <4> QED  BY <2>2, <3>2, <4>1 DEF Batch
    <3>3. CASE ~o.ok /\ ~(task[w][p].tries + 1 < FlushTries)
      BY <3>3, IdleType
    <3> QED  BY <3>1, <3>2, <3>3
  <2>4. SetTask(w, p, t) /\ UNCHANGED topic
    BY <1>9, <2>1 DEF FlushPending, group
  <2> HIDE DEF t
  <2>5. /\ task' \in [Worker -> [Partition -> Batch]]
        /\ \A v \in Worker, q \in Partition : BatchOK(v, q)'
    BY <2>2, <2>3, <2>4, TaskType DEF BatchOK
  <2>6. /\ buffer' \in [Worker -> Seq(Partition \X Nat)]
        /\ backoff' \in [Worker -> BOOLEAN]
        /\ inserting' \subseteq Partition \X Nat /\ stored' \subseteq Partition \X Nat
    <3>1. buffer[w] \in Seq(Partition \X Nat)
      BY DEF TypeOK
    <3> QED  BY <2>1, <3>1, WrittenType
  <2> QED  BY <1>9, <2>5, <2>6 DEF FlushPending, TypeOK, group, life
<1>10. ASSUME NEW w \in Worker, NEW p \in Partition, Commit(w, p)
       PROVE  TypeOK'
  <2>1. /\ task' \in [Worker -> [Partition -> Batch]]
        /\ \A v \in Worker, q \in Partition : BatchOK(v, q)'
    BY <1>10, IdleType, TaskType DEF Commit
  <2>2. task[w][p].ok \in Nat /\ task[w][p].ok <= Len(topic[p])
    <3>1. task[w][p] \in Batch /\ BatchOK(w, p) /\ Len(topic[p]) \in Nat
      BY TaskInHand
    <3>2. /\ task[w][p].first \in Nat /\ task[w][p].last \in Nat /\ task[w][p].ok \in Nat
      BY <3>1, BatchFields
    <3>3. /\ task[w][p].last \in 1..Len(topic[p])
          /\ task[w][p].ok \in task[w][p].first..task[w][p].last
      BY <1>10, <3>1 DEF Commit, BatchOK
    <3> QED  BY <3>1, <3>2, <3>3
  <2>3. committed' = [committed EXCEPT ![p] = task[w][p].ok] \/ committed' = committed
    BY <1>10 DEF Commit
  <2>4. /\ committed' \in [Partition -> Nat]
        /\ \A q \in Partition : committed'[q] <= Len(topic[q])
    BY <2>2, <2>3 DEF TypeOK
  <2> QED  BY <1>10, <2>1, <2>4 DEF Commit, TypeOK, writer, life
<1>11. ASSUME NEW w \in Worker, FlushLoop(w)
       PROVE  TypeOK'
  <2>1. PICK o \in FlushOutcomes(buffer[w], backoff[w]) : Written(w, o)
    BY <1>11 DEF FlushLoop, TypeOK
  <2>2. buffer[w] \in Seq(Partition \X Nat)
    BY DEF TypeOK
  <2>3. /\ buffer' \in [Worker -> Seq(Partition \X Nat)]
        /\ backoff' \in [Worker -> BOOLEAN]
        /\ inserting' \subseteq Partition \X Nat /\ stored' \subseteq Partition \X Nat
    BY <2>1, <2>2, WrittenType
  <2>4. \A v \in Worker, q \in Partition : BatchOK(v, q)'
    BY <1>11, TaskInHand DEF FlushLoop, BatchOK, group
  <2> QED  BY <1>11, <2>3, <2>4 DEF FlushLoop, TypeOK, group, life
<1>12. ASSUME NEW w \in Worker, BackoffOver(w)
       PROVE  TypeOK'
  <2>1. \A v \in Worker, q \in Partition : BatchOK(v, q)'
    BY <1>12, TaskInHand DEF BackoffOver, BatchOK, group
  <2> QED  BY <1>12, <2>1 DEF BackoffOver, TypeOK, group, life
<1>13. ASSUME ServerWrites
       PROVE  TypeOK'
  <2>1. \A v \in Worker, q \in Partition : BatchOK(v, q)'
    BY <1>13, TaskInHand DEF ServerWrites, BatchOK, group
  <2>2. inserting' \subseteq Partition \X Nat /\ stored' \subseteq Partition \X Nat
    BY <1>13 DEF ServerWrites, TypeOK
  <2> QED  BY <1>13, <2>1, <2>2 DEF ServerWrites, TypeOK, group, life
<1>14. ASSUME NEW w \in Worker, StartWorker(w)
       PROVE  TypeOK'
  <2>1. \A v \in Worker, q \in Partition : BatchOK(v, q)'
    BY <1>14, TaskInHand DEF StartWorker, BatchOK, group
  <2> QED  BY <1>14, <2>1 DEF StartWorker, TypeOK, group, writer
<1>15. ASSUME NEW w \in Worker, Crash(w) \/ Close(w)
       PROVE  TypeOK'
  <2>1. Ends(w) /\ disruptions' \in 0..MaxDisruptions
    BY <1>15, ConsumerAssumption DEF Crash, Close, TypeOK
  <2> QED  BY <2>1, EndsType DEF Ends, TypeOK
<1>16. ASSUME NEW w \in Worker, Stop(w)
       PROVE  TypeOK'
  <2>1. PICK o \in FlushOutcomes(buffer[w], backoff[w]) : Written(w, o)
    BY <1>16 DEF Stop
  <2>2. buffer[w] \in Seq(Partition \X Nat)
    BY DEF TypeOK
  <2>3. /\ buffer' \in [Worker -> Seq(Partition \X Nat)]
        /\ backoff' \in [Worker -> BOOLEAN]
        /\ inserting' \subseteq Partition \X Nat /\ stored' \subseteq Partition \X Nat
    BY <2>1, <2>2, WrittenType
  <2>4. \A v \in Worker, q \in Partition : BatchOK(v, q)'
    BY <1>16, TaskInHand DEF Stop, BatchOK, group
  <2>5. mode' \in [Worker -> {"down", "up", "stopping"}] /\ disruptions' \in 0..MaxDisruptions
    BY <1>16, ConsumerAssumption DEF Stop, TypeOK
  <2> QED  BY <1>16, <2>3, <2>4, <2>5 DEF Stop, TypeOK, group
<1>17. CASE UNCHANGED vars
  <2>1. \A v \in Worker, q \in Partition : BatchOK(v, q)'
    BY <1>17, TaskInHand DEF vars, BatchOK
  <2> QED  BY <1>17, <2>1 DEF vars, TypeOK
<1> QED
  BY <1>1, <1>2, <1>3, <1>4, <1>5, <1>6, <1>7, <1>8, <1>9, <1>10, <1>11, <1>12,
     <1>13, <1>14, <1>15, <1>16, <1>17
  DEF Next, Group, Records, Confirm, Process

\* The consumer's variables keep their types and its batches their shape,
\* under every fault.
THEOREM TypeCorrect == Spec => []TypeOK
BY TypeInit, TypeStep, PTL DEF Spec

(***************************************************************************)
(* What a step does to the rows and to the batches it is not about.        *)
(***************************************************************************)

\* A flush loses nothing, and what it reports as written is safe.
LEMMA WrittenKeeps ==
    ASSUME TypeOK, NEW w \in Worker, NEW b \in Seq(Partition \X Nat),
           Rows(buffer[w]) \subseteq Rows(b),
           NEW o \in FlushOutcomes(b, backoff[w]), Written(w, o), UNCHANGED dlq
    PROVE  /\ Safe \subseteq Safe'
           /\ Rows(b) \subseteq Kept(w)'
           /\ \A v \in Worker : Kept(v) \subseteq Kept(v)'
           /\ o.ok => Rows(b) \subseteq Safe' /\ Rows(buffer'[w]) = {}
           /\ Rows(buffer'[w]) \subseteq Rows(b)
           /\ "insert" \notin Faults /\ ~backoff[w] => ~backoff'[w] /\ o.ok
           /\ \A v \in Worker \ {w} : buffer'[v] = buffer[v] /\ backoff'[v] = backoff[v]
<1>1. /\ o.rows \subseteq Rows(b) /\ Rows(b) \subseteq o.rows \cup Rows(o.left)
      /\ Rows(o.left) \subseteq Rows(b)
      /\ o.ok => Rows(o.left) = {}
      /\ "insert" \notin Faults /\ ~backoff[w] => o.ok /\ ~o.wait
  <2>1. backoff[w] \in BOOLEAN
    BY DEF TypeOK
  <2> QED  BY <2>1, FlushShape
<1>2. /\ buffer' = [buffer EXCEPT ![w] = o.left]
      /\ backoff' = [backoff EXCEPT ![w] = o.wait]
  BY DEF Written
<1>3. /\ buffer'[w] = o.left /\ backoff'[w] = o.wait
      /\ \A v \in Worker \ {w} : buffer'[v] = buffer[v] /\ backoff'[v] = backoff[v]
  BY <1>2 DEF TypeOK
<1>4. Safe' = Safe \cup o.rows
  BY DEF Written, Safe
<1>5. Rows(b) \subseteq Kept(w)'
  BY <1>1, <1>3, <1>4 DEF Kept
<1>6. ASSUME NEW v \in Worker PROVE Kept(v) \subseteq Kept(v)'
  <2>1. CASE v = w
    BY <1>4, <1>5, <2>1 DEF Kept
  <2>2. CASE v # w
    BY <1>3, <1>4, <2>2 DEF Kept
  <2> QED  BY <2>1, <2>2
<1>7. o.ok => Rows(b) \subseteq Safe' /\ Rows(buffer'[w]) = {}
  BY <1>1, <1>3, <1>4
<1> QED  BY <1>1, <1>3, <1>4, <1>5, <1>6, <1>7

\* What Buffer does to the buffer.
LEMMA BufferKeeps ==
    ASSUME TypeOK, NEW w \in Worker, NEW p \in Partition, Buffer(w, p)
    PROVE  /\ Safe \subseteq Safe' /\ InHand(w, p) \in Kept(w)'
           /\ \A v \in Worker : Kept(v) \subseteq Kept(v)'
           /\ Rows(buffer'[w]) \subseteq Rows(buffer[w]) \cup {InHand(w, p)}
           /\ "insert" \notin Faults /\ ~backoff[w] => ~backoff'[w]
           /\ \A v \in Worker \ {w} : buffer'[v] = buffer[v] /\ backoff'[v] = backoff[v]
<1> DEFINE b == Append(buffer[w], InHand(w, p))
<1>1. /\ buffer[w] \in Seq(Partition \X Nat) /\ InHand(w, p) \in Partition \X Nat
  BY TaskInHand DEF TypeOK, InHand
<1>2. b \in Seq(Partition \X Nat) /\ Rows(b) = Rows(buffer[w]) \cup {InHand(w, p)}
  BY <1>1, RowsOf
<1>3. UNCHANGED dlq
  BY DEF Buffer
<1>4. CASE Len(b) >= WriterBatch
  <2>1. PICK o \in FlushOutcomes(b, backoff[w]) : Written(w, o)
    BY <1>4 DEF Buffer
  <2> HIDE DEF b
  <2> QED  BY <1>2, <1>3, <2>1, WrittenKeeps
<1>5. CASE ~(Len(b) >= WriterBatch)
  <2>1. buffer' = [buffer EXCEPT ![w] = b] /\ UNCHANGED <<backoff, inserting, stored>>
    BY <1>5 DEF Buffer
  <2> HIDE DEF b
  <2>2. buffer'[w] = b /\ \A v \in Worker \ {w} : buffer'[v] = buffer[v]
    BY <2>1 DEF TypeOK
  <2>3. Safe' = Safe
    BY <1>3, <2>1 DEF Safe
  <2> QED  BY <1>2, <2>1, <2>2, <2>3 DEF Kept
<1> QED  BY <1>4, <1>5

\* A step that leaves the buffers alone.
LEMMA RowsStay ==
    ASSUME UNCHANGED buffer, Safe \subseteq Safe'
    PROVE  \A v \in Worker : Kept(v) \subseteq Kept(v)'
BY DEF Kept

\* While ClickHouse writes what it has acknowledged nothing that is safe gets
\* lost, and what a worker keeps is lost only with the worker.
LEMMA Growth ==
    ASSUME TypeOK, ServerKeeps, [Next]_vars
    PROVE  /\ Safe \subseteq Safe' /\ dlq \subseteq dlq'
           /\ \A v \in Worker : Kept(v) \subseteq Kept(v)' \/ Ends(v)
<1> DEFINE G == /\ Safe \subseteq Safe' /\ dlq \subseteq dlq'
                /\ \A v \in Worker : Kept(v) \subseteq Kept(v)' \/ Ends(v)
<1>1. CASE UNCHANGED buffer /\ Safe \subseteq Safe' /\ dlq \subseteq dlq'
  BY <1>1, RowsStay
<1>2. ASSUME NEW p \in Partition, Produce(p) PROVE G
  BY <1>1, <1>2 DEF Produce, writer, Safe
<1>3. ASSUME NEW p \in Partition, NEW w \in Worker, Assign(p, w) \/ Rebalance(p, w) PROVE G
  BY <1>1, <1>3 DEF Assign, Rebalance, Given, writer, Safe
<1>4. ASSUME NEW w \in Worker, NEW p \in Partition, Poll(w, p) PROVE G
  BY <1>1, <1>4 DEF Poll, writer, Safe
<1>5. ASSUME NEW w \in Worker, NEW p \in Partition, Buffer(w, p) PROVE G
  BY <1>5, BufferKeeps DEF Buffer
<1>6. ASSUME NEW w \in Worker, NEW p \in Partition, Save(w, p) PROVE G
  BY <1>1, <1>6 DEF Save, Safe
<1>7. ASSUME NEW w \in Worker, NEW p \in Partition, Refused(w, p) PROVE G
  BY <1>1, <1>7 DEF Refused, Safe
<1>8. ASSUME NEW w \in Worker, NEW p \in Partition, MoveToDlq(w, p) PROVE G
  BY <1>1, <1>8 DEF MoveToDlq, writer, Safe
<1>9. ASSUME NEW w \in Worker, NEW p \in Partition, DlqFails(w, p) PROVE G
  BY <1>1, <1>9 DEF DlqFails, writer, Safe
<1>10. ASSUME NEW w \in Worker, NEW b \in Seq(Partition \X Nat), b = buffer[w],
              NEW o \in FlushOutcomes(b, backoff[w]), Written(w, o), UNCHANGED dlq
       PROVE  G
  BY <1>10, WrittenKeeps
<1>11. \A w \in Worker : buffer[w] \in Seq(Partition \X Nat)
  BY DEF TypeOK
<1>12. ASSUME NEW w \in Worker, NEW p \in Partition, FlushPending(w, p) PROVE G
  <2>1. PICK o \in FlushOutcomes(buffer[w], backoff[w]) : Written(w, o)
    BY <1>12 DEF FlushPending
  <2> QED  BY <1>10, <1>11, <1>12, <2>1 DEF FlushPending
<1>13. ASSUME NEW w \in Worker, NEW p \in Partition, Commit(w, p) PROVE G
  BY <1>1, <1>13 DEF Commit, writer, Safe
<1>14. ASSUME NEW w \in Worker, FlushLoop(w) PROVE G
  <2>1. PICK o \in FlushOutcomes(buffer[w], backoff[w]) : Written(w, o)
    BY <1>14 DEF FlushLoop, TypeOK
  <2> QED  BY <1>10, <1>11, <1>14, <2>1 DEF FlushLoop
<1>15. ASSUME NEW w \in Worker, BackoffOver(w) PROVE G
  BY <1>1, <1>15 DEF BackoffOver, Safe
<1>16. ASSUME ServerWrites PROVE G
  BY <1>1, <1>16 DEF ServerWrites, ServerKeeps, Safe
<1>17. ASSUME NEW w \in Worker, StartWorker(w) PROVE G
  BY <1>1, <1>17 DEF StartWorker, writer, Safe
<1>18. ASSUME NEW w \in Worker, Crash(w) \/ Close(w) PROVE G
  <2>1. Ends(w)
    BY <1>18 DEF Crash, Close
  <2>2. Safe' = Safe /\ dlq' = dlq
    BY <2>1 DEF Ends, Safe
  <2>3. \A v \in Worker \ {w} : buffer'[v] = buffer[v]
    BY <2>1 DEF Ends, TypeOK
  <2> QED  BY <2>1, <2>2, <2>3 DEF Kept
<1>19. ASSUME NEW w \in Worker, Stop(w) PROVE G
  <2>1. PICK o \in FlushOutcomes(buffer[w], backoff[w]) : Written(w, o)
    BY <1>19 DEF Stop
  <2> QED  BY <1>10, <1>11, <1>19, <2>1 DEF Stop
<1>20. CASE UNCHANGED vars
  BY <1>1, <1>20 DEF vars, Safe
<1> QED
  BY <1>2, <1>3, <1>4, <1>5, <1>6, <1>7, <1>8, <1>9, <1>12, <1>13, <1>14, <1>15,
     <1>16, <1>17, <1>18, <1>19, <1>20
  DEF Next, Group, Records, Confirm, Process

\* A step changes the batch of one partition of one worker, or ends the worker.
LEMMA OneBatch ==
    ASSUME TypeOK, [Next]_vars, NEW v \in Worker, NEW q \in Partition
    PROVE  task'[v][q] = task[v][q] \/ Ends(v) \/ Records(v, q) \/ Confirm(v, q)
<1>1. CASE UNCHANGED task
  BY <1>1
<1>2. ASSUME NEW w \in Worker, NEW p \in Partition, NEW t, SetTask(w, p, t),
             w # v \/ p # q
      PROVE  task'[v][q] = task[v][q]
  BY <1>2 DEF SetTask, TypeOK
<1>3. ASSUME NEW w \in Worker, NEW p \in Partition, Records(w, p) \/ Confirm(w, p)
      PROVE  \E t : SetTask(w, p, t)
  BY <1>3 DEF Records, Confirm, Poll, Buffer, Save, Refused, MoveToDlq, DlqFails,
              FlushPending, Commit
<1>4. ASSUME NEW w \in Worker, NEW p \in Partition, Records(w, p) \/ Confirm(w, p)
      PROVE  task'[v][q] = task[v][q] \/ Records(v, q) \/ Confirm(v, q)
  BY <1>2, <1>3, <1>4
<1>5. ASSUME NEW w \in Worker, Ends(w), w # v
      PROVE  task'[v][q] = task[v][q]
  BY <1>5 DEF Ends, TypeOK
<1>6. ASSUME NEW w \in Worker, Process(w)
      PROVE  task'[v][q] = task[v][q] \/ Ends(v)
  BY <1>5, <1>6 DEF Process, StartWorker, Crash, Close, Stop
<1>7. ASSUME NEW w \in Worker, FlushLoop(w) \/ BackoffOver(w)
      PROVE  UNCHANGED task
  BY <1>7 DEF FlushLoop, BackoffOver
<1>8. ASSUME NEW p \in Partition, Group(p)
      PROVE  UNCHANGED task
  BY <1>8 DEF Group, Produce, Assign, Rebalance, Given
<1>9. CASE ServerWrites \/ UNCHANGED vars
  BY <1>9 DEF ServerWrites, vars
<1> QED  BY <1>1, <1>4, <1>6, <1>7, <1>8, <1>9 DEF Next

\* What an ended worker has left.
LEMMA Ended ==
    ASSUME TypeOK, NEW v \in Worker, NEW q \in Partition, Ends(v)
    PROVE  task'[v][q] = Idle /\ position'[v][q] = 0 /\ Rows(buffer'[v]) = {}
             /\ ~backoff'[v]
BY DEF Ends, TypeOK, Rows

\* The batch that a poll starts.
LEMMA PollShape ==
    ASSUME TypeOK, NEW v \in Worker, NEW q \in Partition, Poll(v, q)
    PROVE  /\ task[v][q] = Idle
           /\ \E n \in Nat :
                LET a == task'[v][q]
                    from == position[v][q] + 1
                    to == position[v][q] + n
                IN /\ a.pc = "process" /\ a.first = from /\ a.next = from
                   /\ a.last = to /\ a.ok = 0 /\ position'[v][q] = to
<1>1. PICK n \in 1..MaxPoll :
        /\ position' = [position EXCEPT ![v][q] = position[v][q] + n]
        /\ SetTask(v, q, [Idle EXCEPT !.pc = "process",
                                      !.first = position[v][q] + 1,
                                      !.next = position[v][q] + 1,
                                      !.last = position[v][q] + n])
  BY DEF Poll
<1>2. position[v][q] \in Nat /\ n \in Nat
  BY ConsumerAssumption DEF TypeOK
<1>3. position[v][q] + 1 \in Nat /\ position[v][q] + n \in Nat
  BY <1>2
<1> DEFINE a == [Idle EXCEPT !.pc = "process", !.first = position[v][q] + 1,
                             !.next = position[v][q] + 1,
                             !.last = position[v][q] + n]
<1>4. /\ a \in Batch /\ a.pc = "process" /\ a.ok = 0
      /\ a.first = position[v][q] + 1 /\ a.next = position[v][q] + 1
      /\ a.last = position[v][q] + n
  BY <1>3 DEF Idle, Batch
<1>5. task'[v][q] = a
  BY <1>1, <1>4, TaskSet DEF TypeOK
<1>6. position'[v][q] = position[v][q] + n
  BY <1>1 DEF TypeOK
<1> HIDE DEF a
<1> QED  BY <1>2, <1>4, <1>5, <1>6 DEF Poll

(***************************************************************************)
(* A batch commits a run of its records that is confirmed.                 *)
(***************************************************************************)

LEMMA ConfirmedStays ==
    ASSUME NEW v \in Worker, NEW q \in Partition, Confirmed(v, q),
           task'[v][q] = task[v][q], Kept(v) \subseteq Kept(v)',
           Safe \subseteq Safe', dlq \subseteq dlq'
    PROVE  Confirmed(v, q)'
BY DEF Confirmed

LEMMA SafeIsKept == \A w \in Worker : Safe \subseteq Kept(w) /\ dlq \subseteq Safe
BY DEF Kept, Safe

\* The batch is closed after a record that was not confirmed.
LEMMA ConfirmedClosed ==
    ASSUME TypeOK, NEW v \in Worker, NEW q \in Partition, Confirmed(v, q),
           task[v][q].pc \in {"process", "dlq"},
           SetTask(v, q, Closed(task[v][q])),
           Kept(v) \subseteq Kept(v)', Safe \subseteq Safe', dlq \subseteq dlq'
    PROVE  Confirmed(v, q)'
<1> DEFINE t == task[v][q]
           a == Closed(t)
<1>1. t \in Batch
  BY TaskInHand
<1>2. /\ a \in Batch
      /\ t.ok = 0 => a.pc = "idle"
      /\ t.ok # 0 => /\ a.pc = IF t.rows THEN "flush" ELSE "commit"
                     /\ a.first = t.first /\ a.ok = t.ok
  BY <1>1, ClosedShape, IdleType
<1>3. task'[v][q] = a
  BY <1>2, TaskSet DEF TypeOK
<1>4. /\ \A k \in t.first..t.ok : <<q, k>> \in Kept(v)
      /\ ~t.rows => \A k \in t.first..t.ok : <<q, k>> \in dlq
  BY DEF Confirmed
<1>5. dlq' \subseteq Safe'
  BY DEF Safe
<1> HIDE DEF t, a
<1>6. CASE t.ok = 0
  BY <1>2, <1>3, <1>6 DEF Confirmed
<1>7. CASE t.ok # 0 /\ t.rows
  BY <1>2, <1>3, <1>4, <1>7 DEF Confirmed
<1>8. CASE t.ok # 0 /\ ~t.rows
  BY <1>2, <1>3, <1>4, <1>5, <1>8 DEF Confirmed
<1> QED  BY <1>6, <1>7, <1>8

\* The record in hand is confirmed, as a success or in the dead letter topic.
LEMMA ConfirmedAdvanced ==
    ASSUME TypeOK, NEW v \in Worker, NEW q \in Partition, Confirmed(v, q),
           task[v][q].pc \in {"process", "dlq"}, NEW a \in Batch,
           SetTask(v, q, a),
           a.first = task[v][q].first, a.ok = task[v][q].next,
           a.pc \in {"process", "flush", "commit"},
           a.pc = "commit" => ~a.rows,
           ~a.rows => ~task[v][q].rows /\ InHand(v, q) \in dlq',
           InHand(v, q) \in Kept(v)',
           Kept(v) \subseteq Kept(v)', Safe \subseteq Safe', dlq \subseteq dlq'
    PROVE  Confirmed(v, q)'
<1> DEFINE t == task[v][q]
<1>1. /\ t.first > 0 /\ t.next \in t.first..t.last
      /\ t.first \in Nat /\ t.next \in Nat /\ t.ok \in Nat
      /\ t.ok = IF t.next = t.first THEN 0 ELSE t.next - 1
  <2>1. t \in Batch /\ BatchOK(v, q)
    BY TaskInHand
  <2>2. t.first \in Nat /\ t.next \in Nat /\ t.ok \in Nat
    BY <2>1, BatchFields
  <2> QED  BY <2>1, <2>2 DEF BatchOK
<1>2. task'[v][q] = a
  BY TaskSet DEF TypeOK
<1>3. /\ \A k \in t.first..t.ok : <<q, k>> \in Kept(v)
      /\ ~t.rows => \A k \in t.first..t.ok : <<q, k>> \in dlq
  BY DEF Confirmed
<1>4. InHand(v, q) = <<q, t.next>>
  BY DEF InHand
<1>5. a.first = t.first /\ a.ok = t.next /\ (~a.rows => ~t.rows)
  OBVIOUS
<1> HIDE DEF t
<1>6. \A k \in t.first..t.next : k = t.next \/ k \in t.first..t.ok
  BY <1>1
<1>7. \A k \in a.first..a.ok : <<q, k>> \in Kept(v)'
  BY <1>3, <1>4, <1>5, <1>6
<1>8. ~a.rows => \A k \in a.first..a.ok : <<q, k>> \in dlq'
  BY <1>3, <1>4, <1>5, <1>6
<1>9. dlq' \subseteq Safe'
  BY DEF Safe
<1> QED  BY <1>2, <1>7, <1>8, <1>9 DEF Confirmed

LEMMA ConfirmInit == Init => ConfirmInv
BY IdleType DEF Init, ConfirmInv, Confirmed

LEMMA ConfirmStep ==
    ASSUME ServerKeeps, TypeOK, ConfirmInv, [Next]_vars
    PROVE  ConfirmInv'
<1> SUFFICES ASSUME NEW v \in Worker, NEW q \in Partition PROVE Confirmed(v, q)'
  BY DEF ConfirmInv
<1>1. Confirmed(v, q)
  BY DEF ConfirmInv
<1>2. Safe \subseteq Safe' /\ dlq \subseteq dlq' /\ (Kept(v) \subseteq Kept(v)' \/ Ends(v))
  BY Growth
<1>3. CASE Ends(v)
  BY <1>3, Ended, IdleType DEF Confirmed
<1>4. CASE task'[v][q] = task[v][q] /\ ~Ends(v)
  BY <1>1, <1>2, <1>4, ConfirmedStays
<1> DEFINE t == task[v][q]
<1>5. ASSUME Kept(v) \subseteq Kept(v)', Records(v, q) \/ Confirm(v, q)
      PROVE  Confirmed(v, q)'
  <2>1. CASE Poll(v, q)
    <3>1. /\ task'[v][q].pc = "process" /\ task'[v][q].ok = 0
          /\ task'[v][q].first \in Nat /\ task'[v][q].first > 0
      <4>1. position[v][q] \in Nat
        BY DEF TypeOK
      <4> QED  BY <2>1, <4>1, PollShape
    <3>2. task'[v][q].first..task'[v][q].ok = {}
      BY <3>1
    <3> QED  BY <3>1, <3>2 DEF Confirmed
  <2>2. ASSUME t.pc = "process", SetTask(v, q, Succeeded(t)), InHand(v, q) \in Kept(v)'
        PROVE  Confirmed(v, q)'
    <3>1. t \in Batch /\ t.first > 0 /\ t.next \in t.first..t.last
      BY <2>2, TaskInHand DEF BatchOK
    <3>2. /\ Succeeded(t) \in Batch /\ Succeeded(t).first = t.first
          /\ Succeeded(t).ok = t.next /\ Succeeded(t).rows
          /\ Succeeded(t).pc \in {"process", "flush"}
      BY <3>1, SucceededShape
    <3> QED  BY <1>1, <1>2, <1>5, <2>2, <3>2, ConfirmedAdvanced
  <2>3. CASE Buffer(v, q)
    BY <2>2, <2>3, BufferKeeps DEF Buffer, Processing
  <2>4. CASE Save(v, q)
    <3>1. InHand(v, q) \in Kept(v)'
      BY <2>4 DEF Save, Kept, Safe
    <3> QED  BY <2>2, <2>4, <3>1 DEF Save, Processing
  <2>5. CASE Refused(v, q)
    <3>1. t.pc = "process" /\ t \in Batch
      BY <2>5, TaskInHand DEF Refused, Processing
    <3>2. CASE DlqOn
      <4> DEFINE a == [t EXCEPT !.pc = "dlq"]
      <4>1. /\ a \in Batch /\ a.pc = "dlq" /\ a.first = t.first /\ a.ok = t.ok
            /\ a.rows = t.rows
        BY <3>1 DEF Batch
      <4>2. SetTask(v, q, a)
        BY <2>5, <3>2 DEF Refused
      <4>3. task'[v][q] = a
        BY <4>1, <4>2, TaskSet DEF TypeOK
      <4>4. /\ \A k \in t.first..t.ok : <<q, k>> \in Kept(v)
            /\ ~t.rows => \A k \in t.first..t.ok : <<q, k>> \in dlq
        BY <1>1, <3>1 DEF Confirmed
      <4> HIDE DEF a, t
      <4> QED  BY <1>2, <1>5, <4>1, <4>3, <4>4 DEF Confirmed
    <3>3. CASE ~DlqOn
      BY <1>1, <1>2, <1>5, <2>5, <3>1, <3>3, ConfirmedClosed DEF Refused
    <3> QED  BY <3>2, <3>3
  <2>6. CASE MoveToDlq(v, q)
    <3>1. t \in Batch /\ t.first > 0 /\ t.next \in t.first..t.last /\ t.pc = "dlq"
      BY <2>6, TaskInHand DEF BatchOK, MoveToDlq
    <3>2. /\ Moved(t) \in Batch /\ Moved(t).first = t.first
          /\ Moved(t).ok = t.next /\ Moved(t).rows = t.rows
          /\ Moved(t).pc \in {"process", "flush", "commit"}
          /\ Moved(t).pc = "commit" => ~t.rows
      BY <3>1, MovedShape
    <3>3. InHand(v, q) \in dlq' /\ InHand(v, q) \in Kept(v)'
      BY <2>6 DEF MoveToDlq, Kept, Safe
    <3>4. SetTask(v, q, Moved(t))
      BY <2>6 DEF MoveToDlq
    <3> QED  BY <1>1, <1>2, <1>5, <3>1, <3>2, <3>3, <3>4, ConfirmedAdvanced
  <2>7. CASE DlqFails(v, q)
    BY <1>1, <1>2, <1>5, <2>7, ConfirmedClosed DEF DlqFails
  <2>8. CASE FlushPending(v, q)
    <3>1. PICK o \in FlushOutcomes(buffer[v], backoff[v]) :
            /\ Written(v, o)
            /\ SetTask(v, q,
                 IF o.ok THEN [t EXCEPT !.pc = "commit"]
                 ELSE IF t.tries + 1 < FlushTries
                      THEN [t EXCEPT !.tries = @ + 1]
                      ELSE Idle)
      BY <2>8 DEF FlushPending
    <3>2. t \in Batch /\ t.pc = "flush" /\ UNCHANGED dlq
      BY <2>8, TaskInHand DEF FlushPending
    <3>3. \A k \in t.first..t.ok : <<q, k>> \in Kept(v)
      BY <1>1, <3>2 DEF Confirmed
    <3>4. o.ok => Kept(v) \subseteq Safe'
      <4>1. buffer[v] \in Seq(Partition \X Nat)
        BY DEF TypeOK
      <4> QED  BY <1>2, <3>1, <3>2, <4>1, WrittenKeeps DEF Kept
    <3>5. CASE o.ok
      <4> DEFINE a == [t EXCEPT !.pc = "commit"]
      <4>1. a \in Batch /\ a.pc = "commit" /\ a.first = t.first /\ a.ok = t.ok
        BY <3>2 DEF Batch
      <4>2. task'[v][q] = a
        BY <3>1, <3>5, <4>1, TaskSet DEF TypeOK
      <4> HIDE DEF a, t
      <4> QED  BY <3>3, <3>4, <3>5, <4>1, <4>2 DEF Confirmed
    <3>6. CASE ~o.ok /\ t.tries + 1 < FlushTries
      <4> DEFINE a == [t EXCEPT !.tries = @ + 1]
      <4>1. a \in Batch /\ a.pc = "flush" /\ a.first = t.first /\ a.ok = t.ok
        <5>1. t.tries + 1 \in Nat
          BY <3>2, BatchFields
        <5> QED  BY <3>2, <5>1 DEF Batch
      <4>2. task'[v][q] = a
        BY <3>1, <3>6, <4>1, TaskSet DEF TypeOK
      <4> HIDE DEF a, t
      <4> QED  BY <1>5, <3>3, <4>1, <4>2 DEF Confirmed
    <3>7. CASE ~o.ok /\ ~(t.tries + 1 < FlushTries)
      <4>1. task'[v][q] = Idle
        BY <3>1, <3>7, IdleType, TaskSet DEF TypeOK
      <4> QED  BY <4>1, IdleType DEF Confirmed
    <3> QED  BY <3>5, <3>6, <3>7
  <2>9. CASE Commit(v, q)
    <3>1. task'[v][q] = Idle
      BY <2>9, IdleType, TaskSet DEF Commit, TypeOK
    <3> QED  BY <3>1, IdleType DEF Confirmed
  <2> HIDE DEF t
  <2> QED  BY <1>5, <2>1, <2>3, <2>4, <2>5, <2>6, <2>7, <2>8, <2>9 DEF Records, Confirm
<1> QED  BY <1>2, <1>3, <1>4, <1>5, OneBatch

\* The records that the commit of a batch confirms are in ClickHouse or in the
\* dead letter topic, under every fault but a restart of ClickHouse.
THEOREM BatchesAreConfirmed == ServerKeeps => (Spec => []BatchConfirmed)
<1> SUFFICES ASSUME ServerKeeps PROVE Spec => []BatchConfirmed
  OBVIOUS
<1>1. Init => TypeOK /\ ConfirmInv
  BY TypeInit, ConfirmInit
<1>2. TypeOK /\ ConfirmInv /\ [Next]_vars => TypeOK' /\ ConfirmInv'
  BY TypeStep, ConfirmStep
<1>3. ConfirmInv => BatchConfirmed
  BY DEF ConfirmInv, Confirmed, BatchConfirmed
<1> QED  BY <1>1, <1>2, <1>3, PTL DEF Spec

(***************************************************************************)
(* An offset is committed only when everything up to it is safe.           *)
(***************************************************************************)

\* Rows come into the buffer of a worker only with the record in its hands.
LEMMA BufferSteps ==
    ASSUME TypeOK, [Next]_vars, NEW v \in Worker, NEW q \in Partition
    PROVE  /\ \A k \in Nat : <<q, k>> \in Rows(buffer'[v]) =>
                <<q, k>> \in Rows(buffer[v]) \/ Buffer(v, q)
           /\ "insert" \notin Faults /\ ~backoff[v] => ~backoff'[v]
<1> DEFINE G == /\ \A k \in Nat : <<q, k>> \in Rows(buffer'[v]) =>
                     <<q, k>> \in Rows(buffer[v]) \/ Buffer(v, q)
                /\ "insert" \notin Faults /\ ~backoff[v] => ~backoff'[v]
<1>1. CASE buffer'[v] = buffer[v] /\ backoff'[v] = backoff[v]
  BY <1>1
<1>2. ASSUME NEW w \in Worker, NEW p \in Partition, Buffer(w, p) PROVE G
  <2>1. CASE w # v
    BY <1>1, <1>2, <2>1, BufferKeeps
  <2>2. CASE w = v /\ p = q
    BY <1>2, <2>2, BufferKeeps
  <2>3. CASE w = v /\ p # q
    <3>1. Rows(buffer'[v]) \subseteq Rows(buffer[v]) \cup {<<p, task[v][p].next>>}
      BY <1>2, <2>3, BufferKeeps DEF InHand
    <3>2. "insert" \notin Faults /\ ~backoff[v] => ~backoff'[v]
      BY <1>2, <2>3, BufferKeeps
    <3>3. \A k \in Nat : <<q, k>> # <<p, task[v][p].next>>
      BY <2>3
    <3> QED  BY <3>1, <3>2, <3>3
  <2> QED  BY <2>1, <2>2, <2>3
<1>3. ASSUME NEW w \in Worker, NEW o \in FlushOutcomes(buffer[w], backoff[w]),
             Written(w, o), UNCHANGED dlq
      PROVE  G
  <2>1. buffer[w] \in Seq(Partition \X Nat)
    BY DEF TypeOK
  <2>2. /\ Rows(buffer'[w]) \subseteq Rows(buffer[w])
        /\ "insert" \notin Faults /\ ~backoff[w] => ~backoff'[w]
        /\ v # w => buffer'[v] = buffer[v] /\ backoff'[v] = backoff[v]
    BY <1>3, <2>1, WrittenKeeps
  <2> QED  BY <1>1, <2>2
<1>4. ASSUME NEW p \in Partition, Group(p) PROVE G
  BY <1>1, <1>4 DEF Group, Produce, Assign, Rebalance, Given, writer
<1>5. ASSUME NEW w \in Worker, NEW p \in Partition, Records(w, p) PROVE G
  <2>1. CASE Buffer(w, p)
    BY <1>2, <2>1
  <2>2. CASE ~Buffer(w, p)
    BY <1>1, <1>5, <2>2 DEF Records, Poll, Save, Refused, MoveToDlq, DlqFails, writer
  <2> QED  BY <2>1, <2>2
<1>6. ASSUME NEW w \in Worker, NEW p \in Partition, Confirm(w, p) PROVE G
  <2>1. CASE FlushPending(w, p)
    <3>1. PICK o \in FlushOutcomes(buffer[w], backoff[w]) : Written(w, o)
      BY <2>1 DEF FlushPending
    <3> QED  BY <1>3, <2>1, <3>1 DEF FlushPending
  <2>2. CASE Commit(w, p)
    BY <1>1, <2>2 DEF Commit, writer
  <2> QED  BY <1>6, <2>1, <2>2 DEF Confirm
<1>7. ASSUME NEW w \in Worker, FlushLoop(w) PROVE G
  <2>1. PICK o \in FlushOutcomes(buffer[w], backoff[w]) : Written(w, o)
    BY <1>7 DEF FlushLoop, TypeOK
  <2> QED  BY <1>3, <1>7, <2>1 DEF FlushLoop
<1>8. ASSUME NEW w \in Worker, BackoffOver(w) PROVE G
  BY <1>8 DEF BackoffOver, TypeOK
<1>9. ASSUME NEW w \in Worker, Process(w) PROVE G
  <2>1. CASE StartWorker(w)
    BY <1>1, <2>1 DEF StartWorker, writer
  <2>2. CASE Stop(w)
    <3>1. PICK o \in FlushOutcomes(buffer[w], backoff[w]) : Written(w, o)
      BY <2>2 DEF Stop
    <3> QED  BY <1>3, <2>2, <3>1 DEF Stop
  <2>3. CASE Crash(w) \/ Close(w)
    <3>1. Ends(w)
      BY <2>3 DEF Crash, Close
    <3>2. CASE v = w
      BY <3>1, <3>2, Ended
    <3>3. CASE v # w
      BY <1>1, <3>1, <3>3 DEF Ends, TypeOK
    <3> QED  BY <3>2, <3>3
  <2> QED  BY <1>9, <2>1, <2>2, <2>3 DEF Process
<1>10. CASE ServerWrites \/ UNCHANGED vars
  BY <1>1, <1>10 DEF ServerWrites, vars
<1> QED  BY <1>4, <1>5, <1>6, <1>7, <1>8, <1>9, <1>10 DEF Next

\* The position of a worker moves with a poll, an assignment or its end.
LEMMA PositionSteps ==
    ASSUME TypeOK, [Next]_vars, NEW v \in Worker, NEW q \in Partition
    PROVE  \/ position'[v][q] = position[v][q] \/ Poll(v, q)
           \/ position'[v][q] = committed[q] /\ UNCHANGED task
           \/ Ends(v)
<1> DEFINE G == \/ position'[v][q] = position[v][q] \/ Poll(v, q)
                \/ position'[v][q] = committed[q] /\ UNCHANGED task
                \/ Ends(v)
<1>1. ASSUME NEW p \in Partition, Group(p) PROVE G
  <2>1. CASE Produce(p)
    BY <2>1 DEF Produce
  <2>2. ASSUME NEW w \in Worker, Given(p, w) PROVE G
    BY <2>2 DEF Given, TypeOK
  <2> QED  BY <1>1, <2>1, <2>2 DEF Group, Assign, Rebalance
<1>2. ASSUME NEW w \in Worker, NEW p \in Partition, Records(w, p) PROVE G
  <2>1. CASE Poll(w, p)
    <3>1. PICK n \in 1..MaxPoll :
            position' = [position EXCEPT ![w][p] = position[w][p] + n]
      BY <2>1 DEF Poll
    <3>2. w # v \/ p # q => position'[v][q] = position[v][q]
      BY <3>1 DEF TypeOK
    <3> QED  BY <2>1, <3>2
  <2>2. CASE ~Poll(w, p)
    BY <1>2, <2>2 DEF Records, Buffer, Save, Refused, MoveToDlq, DlqFails, group
  <2> QED  BY <2>1, <2>2
<1>3. ASSUME NEW w \in Worker, NEW p \in Partition, Confirm(w, p) PROVE G
  BY <1>3 DEF Confirm, FlushPending, Commit, group
<1>4. ASSUME NEW w \in Worker, FlushLoop(w) \/ BackoffOver(w) PROVE G
  BY <1>4 DEF FlushLoop, BackoffOver, group
<1>5. ASSUME NEW w \in Worker, Process(w) PROVE G
  <2>1. CASE StartWorker(w) \/ Stop(w)
    BY <2>1 DEF StartWorker, Stop, group
  <2>2. CASE Crash(w) \/ Close(w)
    <3>1. Ends(w)
      BY <2>2 DEF Crash, Close
    <3>2. w # v => position'[v][q] = position[v][q]
      BY <3>1 DEF Ends, TypeOK
    <3> QED  BY <3>1, <3>2
  <2> QED  BY <1>5, <2>1, <2>2 DEF Process
<1>6. CASE ServerWrites \/ UNCHANGED vars
  BY <1>6 DEF ServerWrites, vars, group
<1> QED  BY <1>1, <1>2, <1>3, <1>4, <1>5, <1>6 DEF Next

LEMMA PoisonStep ==
    ASSUME TypeOK, PoisonInv, [Next]_vars
    PROVE  PoisonInv'
<1>1. CASE UNCHANGED topic
  BY <1>1 DEF PoisonInv
<1>2. ASSUME NEW p \in Partition, Produce(p) PROVE PoisonInv'
  <2>1. PICK kind \in {"good", "poison"} :
          /\ kind = "poison" => "poison" \in Faults
          /\ topic' = [topic EXCEPT ![p] = Append(@, kind)]
    BY <1>2 DEF Produce
  <2>2. \A q \in Partition : topic[q] \in Seq({"good", "poison"})
    BY DEF TypeOK
  <2>3. \A q \in Partition : topic'[q] = IF q = p THEN Append(topic[p], kind) ELSE topic[q]
    BY <2>1 DEF TypeOK
  <2>4. \A k \in DOMAIN topic'[p] :
          topic'[p][k] = kind \/ (k \in DOMAIN topic[p] /\ topic'[p][k] = topic[p][k])
    <3>1. topic'[p] = Append(topic[p], kind) /\ topic[p] \in Seq({"good", "poison"})
      BY <2>2, <2>3
    <3>2. DOMAIN topic'[p] = 1..Len(topic[p]) + 1 /\ DOMAIN topic[p] = 1..Len(topic[p])
      BY <3>1
    <3>3. topic'[p][Len(topic[p]) + 1] = kind
      BY <3>1
    <3>4. \A k \in 1..Len(topic[p]) : topic'[p][k] = topic[p][k]
      BY <3>1
    <3>5. Len(topic[p]) \in Nat
      BY <3>1
    <3>6. \A k \in 1..Len(topic[p]) + 1 : k = Len(topic[p]) + 1 \/ k \in 1..Len(topic[p])
      BY <3>5
    <3> QED  BY <3>2, <3>3, <3>4, <3>6
  <2> QED  BY <2>1, <2>3, <2>4 DEF PoisonInv
<1>3. ASSUME NEW p \in Partition, Group(p) PROVE PoisonInv'
  BY <1>1, <1>2, <1>3 DEF Group, Assign, Rebalance, Given
<1>4. ASSUME NEW w \in Worker, NEW p \in Partition, Records(w, p) PROVE PoisonInv'
  BY <1>1, <1>4 DEF Records, Poll, Buffer, Save, Refused, MoveToDlq, DlqFails, group
<1>5. ASSUME NEW w \in Worker, NEW p \in Partition, Confirm(w, p) PROVE PoisonInv'
  BY <1>1, <1>5 DEF Confirm, FlushPending, Commit, group
<1>6. ASSUME NEW w \in Worker, FlushLoop(w) \/ BackoffOver(w) PROVE PoisonInv'
  BY <1>1, <1>6 DEF FlushLoop, BackoffOver, group
<1>7. ASSUME NEW w \in Worker, Process(w) PROVE PoisonInv'
  BY <1>1, <1>7 DEF Process, StartWorker, Crash, Stop, Close, Ends, group
<1>8. CASE ServerWrites \/ UNCHANGED vars
  BY <1>1, <1>8 DEF ServerWrites, vars, group
<1> QED  BY <1>3, <1>4, <1>5, <1>6, <1>7, <1>8 DEF Next

LEMMA BenignKeeps == Benign => ServerKeeps
BY DEF Benign, ServerKeeps

\* In the benign case a refused record finds the dead letter topic open, and a
\* refused log record excludes failing INSERTs.
LEMMA RefusedIsMoved ==
    ASSUME TypeOK, Benign, PoisonInv, NEW v \in Worker, NEW q \in Partition,
           Refused(v, q)
    PROVE  DlqOn /\ (q \notin Buffered \/ "poison" \in Faults)
<1>1. CASE Processing(v, q, "good")
  BY <1>1 DEF Refused, Processing, Benign
<1>2. CASE Processing(v, q, "poison")
  <2>1. task[v][q].next \in DOMAIN topic[q]
    <3> DEFINE t == task[v][q]
    <3>1. /\ t \in Batch /\ t.first > 0 /\ t.next \in t.first..t.last
          /\ t.last \in 1..Len(topic[q])
      BY <1>2, TaskInHand DEF Processing, BatchOK
    <3>2. t.first \in Nat /\ t.next \in Nat /\ t.last \in Nat /\ Len(topic[q]) \in Nat
      BY <3>1, BatchFields, TaskInHand
    <3>3. t.next \in 1..Len(topic[q])
      BY <3>1, <3>2
    <3> QED  BY <3>3, TaskInHand
  <2>2. "poison" \in Faults
    BY <1>2, <2>1 DEF Processing, PoisonInv
  <2> QED  BY <2>2 DEF Benign
<1> QED  BY <1>1, <1>2 DEF Refused

LEMMA ResidueStep ==
    ASSUME TypeOK, Benign, ResidueInv, PoisonInv, [Next]_vars
    PROVE  ResidueInv'
<1> SUFFICES ASSUME NEW v \in Worker, NEW q \in Partition PROVE Residue(v, q)'
  BY DEF ResidueInv
<1> DEFINE t == task[v][q]
           First(s) == s.pc = "dlq" \/ (s.pc = "process" /\ s.ok # 0 /\ ~s.rows)
           Holds(s) == s.pc \in {"process", "dlq", "flush"} /\ s.rows
           Open == q \notin Buffered \/ "poison" \in Faults
<1>1. /\ First(t) => Open
      /\ "insert" \notin Faults => ~backoff[v]
      /\ \A k \in Nat : <<q, k>> \in Rows(buffer[v]) =>
           q \in Buffered /\ ("insert" \notin Faults => Holds(t))
  BY DEF ResidueInv, Residue
<1>2. /\ \A k \in Nat : <<q, k>> \in Rows(buffer'[v]) =>
           <<q, k>> \in Rows(buffer[v]) \/ Buffer(v, q)
      /\ "insert" \notin Faults => ~backoff'[v]
  BY <1>1, BufferSteps
<1>3. ASSUME NEW a, task'[v][q] = a, First(a) => Open,
             \A k \in Nat : <<q, k>> \in Rows(buffer'[v]) =>
               q \in Buffered /\ ("insert" \notin Faults => Holds(a))
      PROVE  Residue(v, q)'
  BY <1>2, <1>3 DEF Residue
<1>4. CASE Ends(v)
  BY <1>4, Ended, IdleType DEF Residue
<1>5. ASSUME NEW a, task'[v][q] = a, First(a) => Open, Holds(t) => Holds(a),
             ~Buffer(v, q)
      PROVE  Residue(v, q)'
  BY <1>1, <1>2, <1>3, <1>5
<1>6. CASE Buffer(v, q)
  <2> DEFINE a == Succeeded(t)
  <2>1. t \in Batch /\ t.first > 0 /\ t.next \in t.first..t.last /\ q \in Buffered
    BY <1>6, TaskInHand DEF Buffer, Processing, BatchOK
  <2>2. a \in Batch /\ a.rows /\ a.pc \in {"process", "flush"}
    BY <2>1, SucceededShape
  <2>3. task'[v][q] = a
    BY <1>6, <2>2, TaskSet DEF Buffer, TypeOK
  <2> QED  BY <1>3, <2>1, <2>2, <2>3
<1>7. CASE task'[v][q] = t /\ ~Buffer(v, q)
  BY <1>1, <1>5, <1>7
<1>8. CASE Poll(v, q) /\ ~Buffer(v, q)
  <2>1. t.pc = "idle" /\ task'[v][q].pc = "process" /\ task'[v][q].ok = 0
    BY <1>8, PollShape, IdleType
  <2> QED  BY <1>5, <1>8, <2>1
<1>9. CASE Save(v, q) /\ ~Buffer(v, q)
  <2>1. t \in Batch /\ t.first > 0 /\ t.next \in t.first..t.last
    BY <1>9, TaskInHand DEF Save, Processing, BatchOK
  <2>2. /\ Succeeded(t) \in Batch /\ Succeeded(t).rows
        /\ Succeeded(t).pc \in {"process", "flush"}
    BY <2>1, SucceededShape
  <2>3. task'[v][q] = Succeeded(t)
    BY <1>9, <2>2, TaskSet DEF Save, TypeOK
  <2> QED  BY <1>5, <1>9, <2>2, <2>3
<1>10. CASE Refused(v, q) /\ ~Buffer(v, q)
  <2> DEFINE a == [t EXCEPT !.pc = "dlq"]
  <2>1. DlqOn /\ Open
    BY <1>10, RefusedIsMoved
  <2>2. t \in Batch
    BY TaskInHand
  <2>3. a \in Batch /\ a.pc = "dlq" /\ a.rows = t.rows
    BY <2>2 DEF Batch
  <2>4. SetTask(v, q, a)
    BY <1>10, <2>1 DEF Refused
  <2>5. task'[v][q] = a
    BY <2>3, <2>4, TaskSet DEF TypeOK
  <2> HIDE DEF a
  <2> QED  BY <1>5, <1>10, <2>1, <2>3, <2>5
<1>11. CASE MoveToDlq(v, q) /\ ~Buffer(v, q)
  <2>1. t \in Batch /\ t.first > 0 /\ t.next \in t.first..t.last /\ t.pc = "dlq"
    BY <1>11, TaskInHand DEF BatchOK, MoveToDlq
  <2>2. /\ Moved(t) \in Batch /\ Moved(t).rows = t.rows
        /\ Moved(t).pc \in {"process", "flush", "commit"}
        /\ Moved(t).pc = "commit" => ~t.rows
    BY <2>1, MovedShape
  <2>3. task'[v][q] = Moved(t)
    BY <1>11, <2>2, TaskSet DEF MoveToDlq, TypeOK
  <2>4. Open
    BY <1>1, <2>1
  <2> QED  BY <1>5, <1>11, <2>2, <2>3, <2>4
<1>12. CASE FlushPending(v, q) /\ ~Buffer(v, q)
  <2>1. t \in Batch /\ t.pc = "flush" /\ UNCHANGED dlq
    BY <1>12, TaskInHand DEF FlushPending
  <2>2. PICK o \in FlushOutcomes(buffer[v], backoff[v]) :
          /\ Written(v, o)
          /\ SetTask(v, q,
               IF o.ok THEN [t EXCEPT !.pc = "commit"]
               ELSE IF t.tries + 1 < FlushTries
                    THEN [t EXCEPT !.tries = @ + 1]
                    ELSE Idle)
    BY <1>12 DEF FlushPending
  <2>3. /\ o.ok => Rows(buffer'[v]) = {}
        /\ "insert" \notin Faults => o.ok
        /\ Rows(buffer'[v]) \subseteq Rows(buffer[v])
    <3>1. buffer[v] \in Seq(Partition \X Nat)
      BY DEF TypeOK
    <3> QED  BY <1>1, <2>1, <2>2, <3>1, WrittenKeeps
  <2>4. PICK a \in Batch : SetTask(v, q, a) /\ a.pc \in {"flush", "commit", "idle"}
    <3>1. /\ [t EXCEPT !.pc = "commit"] \in Batch
          /\ [t EXCEPT !.pc = "commit"].pc = "commit"
      BY <2>1 DEF Batch
    <3>2. /\ [t EXCEPT !.tries = @ + 1] \in Batch
          /\ [t EXCEPT !.tries = @ + 1].pc = "flush"
      <4>1. t.tries + 1 \in Nat
        BY <2>1, BatchFields
      <4> QED  BY <2>1, <4>1 DEF Batch
    <3> QED  BY <2>2, <3>1, <3>2, IdleType
  <2>5. task'[v][q] = a
    BY <2>4, TaskSet DEF TypeOK
  <2> HIDE DEF t
  <2> QED  BY <1>1, <1>3, <2>3, <2>4, <2>5
<1>13. CASE Commit(v, q) /\ ~Buffer(v, q)
  <2>1. task'[v][q] = Idle /\ t.pc = "commit"
    BY <1>13, IdleType, TaskSet DEF Commit, TypeOK
  <2> QED  BY <1>5, <1>13, <2>1, IdleType
<1>14. ~DlqFails(v, q)
  BY DEF DlqFails, Benign
<1> HIDE DEF t, First, Holds, Open
<1> QED
  BY <1>4, <1>6, <1>7, <1>8, <1>9, <1>10, <1>11, <1>12, <1>13, <1>14, OneBatch
  DEF Records, Confirm, t

\* A batch with nothing but records in the dead letter topic has no row in the
\* buffer.
LEMMA NoResidue ==
    ASSUME Benign, NEW v \in Worker, NEW q \in Partition, Residue(v, q),
           task[v][q].pc = "dlq", ~task[v][q].rows, NEW k \in Nat
    PROVE  <<q, k>> \notin Rows(buffer[v])
BY DEF Residue, Benign

\* The record in hand is confirmed: Prefix for the batch as it goes on.
LEMMA PrefixAdvanced ==
    ASSUME TypeOK, NEW v \in Worker, NEW q \in Partition,
           Prefix(v, q), Confirmed(v, q), task[v][q].pc \in {"process", "dlq"},
           task[v][q].pc = "process" \/ Residue(v, q), Benign,
           NEW a \in Batch, SetTask(v, q, a), position'[v][q] = position[v][q],
           a.first = task[v][q].first, a.last = task[v][q].last,
           a.ok = task[v][q].next,
           task[v][q].next = task[v][q].last => a.pc \in {"flush", "commit"},
           task[v][q].next # task[v][q].last =>
              a.pc = "process" /\ a.next = task[v][q].next + 1,
           a.pc = "commit" => task[v][q].pc = "dlq" /\ ~task[v][q].rows,
           InHand(v, q) \in Kept(v)', a.pc = "commit" => InHand(v, q) \in Safe',
           Kept(v) \subseteq Kept(v)', Safe \subseteq Safe'
    PROVE  Prefix(v, q)'
<1> DEFINE t == task[v][q]
<1>1. /\ t.first > 0 /\ t.next \in t.first..t.last
      /\ t.first \in Nat /\ t.next \in Nat /\ t.last \in Nat /\ t.ok \in Nat
      /\ t.ok = IF t.next = t.first THEN 0 ELSE t.next - 1
      /\ position[v][q] \in Nat
  <2>1. t \in Batch /\ BatchOK(v, q) /\ position[v][q] \in Nat
    BY TaskInHand DEF TypeOK
  <2>2. t.first \in Nat /\ t.next \in Nat /\ t.last \in Nat /\ t.ok \in Nat
    BY <2>1, BatchFields
  <2> QED  BY <2>1, <2>2 DEF BatchOK
<1>2. task'[v][q] = a
  BY TaskSet DEF TypeOK
<1>3. InHand(v, q) = <<q, t.next>>
  BY DEF InHand
<1>4. /\ \A k \in 1..t.first - 1 : <<q, k>> \in Kept(v)
      /\ \A k \in 1..position[v][q] :
           <<q, k>> \in Kept(v) \/ k \in t.next..t.last
  BY DEF Prefix
<1>5. /\ \A k \in t.first..t.ok : <<q, k>> \in Kept(v)
      /\ ~t.rows => \A k \in t.first..t.ok : <<q, k>> \in dlq
  BY DEF Confirmed
<1>6. /\ a.first = t.first /\ a.last = t.last /\ a.ok = t.next
      /\ t.next = t.last => a.pc \in {"flush", "commit"}
      /\ t.next # t.last => a.pc = "process" /\ a.next = t.next + 1
      /\ a.pc = "commit" => t.pc = "dlq" /\ ~t.rows /\ <<q, t.next>> \in Safe'
      /\ <<q, t.next>> \in Kept(v)'
  BY <1>3
<1>7. a.pc = "commit" => \A k \in 1..t.first - 1 : <<q, k>> \in Safe
  <2>1. SUFFICES ASSUME a.pc = "commit", NEW k \in 1..t.first - 1 PROVE <<q, k>> \in Safe
    OBVIOUS
  <2>2. Residue(v, q) /\ k \in Nat /\ <<q, k>> \in Kept(v)
    BY <1>1, <1>4, <1>6, <2>1
  <2>3. <<q, k>> \notin Rows(buffer[v])
    BY <1>6, <2>1, <2>2, NoResidue
  <2> QED  BY <2>2, <2>3 DEF Kept
<1>8. dlq \subseteq Safe
  BY DEF Safe
<1> HIDE DEF t
<1>9. \A k \in 1..a.first - 1 : <<q, k>> \in Kept(v)'
  BY <1>4, <1>6
<1>10. a.pc \in {"flush", "commit"} => a.ok = a.last
  BY <1>6
<1>11. ASSUME a.pc = "commit", NEW k \in 1..a.ok PROVE <<q, k>> \in Safe'
  <2>1. k \in 1..t.first - 1 \/ k \in t.first..t.ok \/ k = t.next
    BY <1>1, <1>6, <1>11
  <2> QED  BY <1>5, <1>6, <1>7, <1>8, <1>11, <2>1
<1>12. ASSUME NEW k \in 1..position[v][q]
       PROVE  <<q, k>> \in Kept(v)' \/ (a.pc \in {"process", "dlq"} /\ k \in a.next..a.last)
  <2>1. CASE k \in t.next..t.last /\ k # t.next
    <3>1. k \in t.next + 1..t.last /\ t.next # t.last
      BY <1>1, <2>1
    <3> QED  BY <1>6, <3>1
  <2> QED  BY <1>4, <1>6, <1>12, <2>1
<1> QED  BY <1>2, <1>9, <1>10, <1>11, <1>12 DEF Prefix

\* A step after which the batch is where it was.
LEMMA PrefixStays ==
    ASSUME NEW v \in Worker, NEW q \in Partition, Prefix(v, q), NEW a,
           task'[v][q] = a, a.pc = task[v][q].pc, a.first = task[v][q].first,
           a.next = task[v][q].next, a.last = task[v][q].last, a.ok = task[v][q].ok,
           \/ position'[v][q] = position[v][q]
           \/ \A k \in 1..position'[v][q] : <<q, k>> \in Safe,
           Kept(v) \subseteq Kept(v)', Safe \subseteq Safe'
    PROVE  Prefix(v, q)'
<1>1. Safe' \subseteq Kept(v)'
  BY DEF Kept, Safe
<1> QED  BY <1>1 DEF Prefix

\* The batch is done: it has no record ahead of it.
LEMMA PrefixIdle ==
    ASSUME NEW v \in Worker, NEW q \in Partition, Prefix(v, q),
           task[v][q].pc \notin {"process", "dlq"}, task'[v][q] = Idle,
           position'[v][q] = position[v][q], Kept(v) \subseteq Kept(v)'
    PROVE  Prefix(v, q)'
BY IdleType DEF Prefix

LEMMA PrefixStep ==
    ASSUME Benign, TypeOK, CommittedInv, [Next]_vars
    PROVE  PrefixInv'
<1> SUFFICES ASSUME NEW v \in Worker, NEW q \in Partition PROVE Prefix(v, q)'
  BY DEF PrefixInv
<1> DEFINE t == task[v][q]
<1>1. Prefix(v, q) /\ Confirmed(v, q) /\ Residue(v, q) /\ PoisonInv
  BY DEF CommittedInv, PrefixInv, ConfirmInv, ResidueInv
<1>2. Safe \subseteq Safe' /\ dlq \subseteq dlq' /\ (Kept(v) \subseteq Kept(v)' \/ Ends(v))
  BY BenignKeeps, Growth
<1>3. CASE Ends(v)
  BY <1>3, Ended, IdleType DEF Prefix
<1>4. ASSUME Kept(v) \subseteq Kept(v)', task'[v][q] = t,
             position'[v][q] = position[v][q] \/ position'[v][q] = committed[q]
      PROVE  Prefix(v, q)'
  <2>1. \A k \in 1..committed[q] : <<q, k>> \in Safe
    BY DEF CommittedInv, CommittedIsSafe
  <2> QED  BY <1>1, <1>2, <1>4, <2>1, PrefixStays
<1>5. ASSUME Kept(v) \subseteq Kept(v)', Poll(v, q)
      PROVE  Prefix(v, q)'
  <2>1. position[v][q] \in Nat
    BY DEF TypeOK
  <2>2. PICK n \in Nat :
          LET a == task'[v][q]
              from == position[v][q] + 1
              to == position[v][q] + n
          IN /\ a.pc = "process" /\ a.first = from /\ a.next = from
             /\ a.last = to /\ a.ok = 0 /\ position'[v][q] = to
    BY <1>5, PollShape
  <2>3. \A k \in 1..position[v][q] : <<q, k>> \in Kept(v)'
    BY <1>1, <1>5, PollShape, IdleType DEF Prefix
  <2>4. /\ task'[v][q].first - 1 = position[v][q]
        /\ \A k \in 1..position[v][q] + n :
             k \in 1..position[v][q] \/ k \in position[v][q] + 1..position[v][q] + n
    BY <2>1, <2>2
  <2> QED  BY <2>2, <2>3, <2>4 DEF Prefix
<1>6. ASSUME Kept(v) \subseteq Kept(v)', ~Poll(v, q), position'[v][q] = position[v][q],
             Records(v, q) \/ Confirm(v, q)
      PROVE  Prefix(v, q)'
  <2>1. ASSUME t.pc = "process", SetTask(v, q, Succeeded(t)), InHand(v, q) \in Kept(v)'
        PROVE  Prefix(v, q)'
    <3>1. t \in Batch /\ t.first > 0 /\ t.next \in t.first..t.last
      BY <2>1, TaskInHand DEF BatchOK
    <3> QED  BY <1>1, <1>2, <1>6, <2>1, <3>1, SucceededShape, PrefixAdvanced
  <2>2. CASE Buffer(v, q)
    BY <2>1, <2>2, BufferKeeps DEF Buffer, Processing
  <2>3. CASE Save(v, q)
    <3>1. InHand(v, q) \in Kept(v)'
      BY <2>3 DEF Save, Kept, Safe
    <3> QED  BY <2>1, <2>3, <3>1 DEF Save, Processing
  <2>4. CASE Refused(v, q)
    <3> DEFINE a == [t EXCEPT !.pc = "dlq"]
    <3>1. t.pc = "process" /\ t \in Batch /\ DlqOn
      BY <1>1, <2>4, RefusedIsMoved, TaskInHand DEF Refused, Processing
    <3>2. /\ a \in Batch /\ a.pc = "dlq" /\ a.first = t.first /\ a.ok = t.ok
          /\ a.next = t.next /\ a.last = t.last
      BY <3>1 DEF Batch
    <3>3. SetTask(v, q, a)
      BY <2>4, <3>1 DEF Refused
    <3>4. task'[v][q] = a
      BY <3>2, <3>3, TaskSet DEF TypeOK
    <3> HIDE DEF a
    <3> QED  BY <1>1, <1>2, <1>6, <3>1, <3>2, <3>4 DEF Prefix
  <2>5. CASE MoveToDlq(v, q)
    <3>1. t \in Batch /\ t.first > 0 /\ t.next \in t.first..t.last /\ t.pc = "dlq"
      BY <2>5, TaskInHand DEF BatchOK, MoveToDlq
    <3>2. InHand(v, q) \in Safe' /\ InHand(v, q) \in Kept(v)'
      BY <2>5 DEF MoveToDlq, Kept, Safe
    <3>3. SetTask(v, q, Moved(t))
      BY <2>5 DEF MoveToDlq
    <3> QED  BY <1>1, <1>2, <1>6, <3>1, <3>2, <3>3, MovedShape, PrefixAdvanced
  <2>6. CASE FlushPending(v, q)
    <3>1. PICK o \in FlushOutcomes(buffer[v], backoff[v]) :
            /\ Written(v, o)
            /\ SetTask(v, q,
                 IF o.ok THEN [t EXCEPT !.pc = "commit"]
                 ELSE IF t.tries + 1 < FlushTries
                      THEN [t EXCEPT !.tries = @ + 1]
                      ELSE Idle)
      BY <2>6 DEF FlushPending
    <3>2. t \in Batch /\ t.pc = "flush" /\ UNCHANGED dlq /\ BatchOK(v, q)
      BY <2>6, TaskInHand DEF FlushPending
    <3>3. CASE o.ok
      <4> DEFINE a == [t EXCEPT !.pc = "commit"]
      <4>1. /\ a \in Batch /\ a.pc = "commit" /\ a.first = t.first /\ a.ok = t.ok
            /\ a.last = t.last
        BY <3>2 DEF Batch
      <4>2. task'[v][q] = a
        BY <3>1, <3>3, <4>1, TaskSet DEF TypeOK
      <4>3. Kept(v) \subseteq Safe'
        <5>1. buffer[v] \in Seq(Partition \X Nat)
          BY DEF TypeOK
        <5> QED  BY <1>2, <3>1, <3>2, <3>3, <5>1, WrittenKeeps DEF Kept
      <4>4. \A k \in 1..t.ok : k \in 1..t.first - 1 \/ k \in t.first..t.ok
        BY <3>2, BatchFields
      <4>5. \A k \in 1..t.ok : <<q, k>> \in Safe'
        BY <1>1, <3>2, <4>3, <4>4 DEF Prefix, Confirmed
      <4> HIDE DEF a, t
      <4> QED  BY <1>1, <1>6, <3>2, <4>1, <4>2, <4>5 DEF Prefix, t
    <3>4. CASE ~o.ok /\ t.tries + 1 < FlushTries
      <4> DEFINE a == [t EXCEPT !.tries = @ + 1]
      <4>1. /\ a \in Batch /\ a.pc = "flush" /\ a.first = t.first /\ a.ok = t.ok
            /\ a.next = t.next /\ a.last = t.last
        <5>1. t.tries + 1 \in Nat
          BY <3>2, BatchFields
        <5> QED  BY <3>2, <5>1 DEF Batch
      <4>2. task'[v][q] = a
        BY <3>1, <3>4, <4>1, TaskSet DEF TypeOK
      <4> HIDE DEF a
      <4> QED  BY <1>1, <1>2, <1>6, <3>2, <4>1, <4>2, PrefixStays
    <3>5. CASE ~o.ok /\ ~(t.tries + 1 < FlushTries)
      <4>1. task'[v][q] = Idle
        BY <3>1, <3>5, IdleType, TaskSet DEF TypeOK
      <4> QED  BY <1>1, <1>6, <3>2, <4>1, PrefixIdle
    <3> QED  BY <3>3, <3>4, <3>5
  <2>7. CASE Commit(v, q)
    <3>1. task'[v][q] = Idle /\ t.pc = "commit"
      BY <2>7, IdleType, TaskSet DEF Commit, TypeOK
    <3> QED  BY <1>1, <1>6, <3>1, PrefixIdle
  <2>8. ~DlqFails(v, q)
    BY DEF DlqFails, Benign
  <2> HIDE DEF t
  <2> QED  BY <1>6, <2>2, <2>3, <2>4, <2>5, <2>6, <2>7, <2>8 DEF Records, Confirm
<1>7. ASSUME Records(v, q) \/ Confirm(v, q), ~Poll(v, q)
      PROVE  position'[v][q] = position[v][q]
  BY <1>7 DEF Records, Confirm, Buffer, Save, Refused, MoveToDlq, DlqFails,
              FlushPending, Commit, group
<1>8. CASE Poll(v, q)
  BY <1>2, <1>3, <1>5, <1>8
<1>9. CASE ~Poll(v, q) /\ (Records(v, q) \/ Confirm(v, q))
  BY <1>2, <1>3, <1>6, <1>7, <1>9
<1>10. CASE ~Poll(v, q) /\ ~(Records(v, q) \/ Confirm(v, q)) /\ ~Ends(v)
  <2>1. task'[v][q] = t
    BY <1>10, OneBatch
  <2>2. position'[v][q] = position[v][q] \/ position'[v][q] = committed[q]
    BY <1>10, PositionSteps
  <2> QED  BY <1>2, <1>4, <1>10, <2>1, <2>2
<1> QED  BY <1>3, <1>8, <1>9, <1>10

\* Only a commit moves a committed offset.
LEMMA CommittedSteps ==
    ASSUME TypeOK, [Next]_vars, NEW q \in Partition
    PROVE  \/ committed'[q] = committed[q]
           \/ \E w \in Worker : /\ task[w][q].pc = "commit"
                                /\ committed'[q] = task[w][q].ok
<1> DEFINE G == \/ committed'[q] = committed[q]
                \/ \E w \in Worker : /\ task[w][q].pc = "commit"
                                     /\ committed'[q] = task[w][q].ok
<1>1. ASSUME NEW p \in Partition, Group(p) PROVE G
  BY <1>1 DEF Group, Produce, Assign, Rebalance, Given
<1>2. ASSUME NEW w \in Worker, NEW p \in Partition, Records(w, p) PROVE G
  BY <1>2 DEF Records, Poll, Buffer, Save, Refused, MoveToDlq, DlqFails, group
<1>3. ASSUME NEW w \in Worker, NEW p \in Partition, FlushPending(w, p) PROVE G
  BY <1>3 DEF FlushPending, group
<1>4. ASSUME NEW w \in Worker, NEW p \in Partition, Commit(w, p) PROVE G
  <2>1. \/ committed' = committed
        \/ committed' = [committed EXCEPT ![p] = task[w][p].ok]
    BY <1>4 DEF Commit
  <2>2. p # q => committed'[q] = committed[q]
    BY <2>1 DEF TypeOK
  <2>3. p = q => committed' = committed \/ committed'[q] = task[w][q].ok
    BY <2>1 DEF TypeOK
  <2> QED  BY <1>4, <2>2, <2>3 DEF Commit
<1>5. ASSUME NEW w \in Worker, FlushLoop(w) \/ BackoffOver(w) PROVE G
  BY <1>5 DEF FlushLoop, BackoffOver, group
<1>6. ASSUME NEW w \in Worker, Process(w) PROVE G
  BY <1>6 DEF Process, StartWorker, Stop, Crash, Close, Ends, group
<1>7. CASE ServerWrites \/ UNCHANGED vars
  BY <1>7 DEF ServerWrites, vars, group
<1> QED  BY <1>1, <1>2, <1>3, <1>4, <1>5, <1>6, <1>7 DEF Next, Confirm

LEMMA CommittedInit == Init => CommittedInv
<1> SUFFICES ASSUME Init PROVE CommittedInv
  OBVIOUS
<1>1. PrefixInv
  BY IdleType DEF Init, PrefixInv, Prefix
<1>2. ResidueInv
  <2>1. \A w \in Worker : Rows(buffer[w]) = {}
    <3>1. \A w \in Worker : buffer[w] = <<>>
      BY DEF Init
    <3>2. Rows(<<>>) = {}
      BY DEF Rows
    <3> QED  BY <3>1, <3>2
  <2> QED  BY <2>1, IdleType DEF Init, ResidueInv, Residue
<1>3. PoisonInv
  BY DEF Init, PoisonInv
<1>4. CommittedIsSafe
  BY DEF Init, CommittedIsSafe
<1> QED  BY <1>1, <1>2, <1>3, <1>4, ConfirmInit DEF CommittedInv

LEMMA CommittedStep ==
    ASSUME Benign, TypeOK, CommittedInv, [Next]_vars
    PROVE  CommittedInv'
<1>1. ConfirmInv'
  BY BenignKeeps, ConfirmStep DEF CommittedInv
<1>2. ResidueInv' /\ PoisonInv'
  BY ResidueStep, PoisonStep DEF CommittedInv
<1>3. CommittedIsSafe'
  <2> SUFFICES ASSUME NEW p \in Partition, NEW k \in 1..committed'[p]
               PROVE  <<p, k>> \in Safe'
    BY DEF CommittedIsSafe
  <2>1. Safe \subseteq Safe'
    BY BenignKeeps, Growth
  <2>2. CASE committed'[p] = committed[p]
    BY <2>1, <2>2 DEF CommittedInv, CommittedIsSafe
  <2>3. ASSUME NEW w \in Worker, task[w][p].pc = "commit",
               committed'[p] = task[w][p].ok
        PROVE  <<p, k>> \in Safe'
    BY <2>1, <2>3 DEF CommittedInv, PrefixInv, Prefix
  <2> QED  BY <2>2, <2>3, CommittedSteps
<1> QED  BY <1>1, <1>2, <1>3, PrefixStep DEF CommittedInv

LEMMA CommittedInvariant == Benign => (Spec => [](TypeOK /\ CommittedInv))
<1> SUFFICES ASSUME Benign PROVE Spec => [](TypeOK /\ CommittedInv)
  OBVIOUS
<1>1. Init => TypeOK /\ CommittedInv
  BY TypeInit, CommittedInit
<1>2. TypeOK /\ CommittedInv /\ [Next]_vars => TypeOK' /\ CommittedInv'
  BY TypeStep, CommittedStep
<1> QED  BY <1>1, <1>2, PTL DEF Spec

\* In the benign case, under crashes, rebalances, failing INSERTs and failing
\* commits, what is committed is in ClickHouse or in the dead letter topic.
THEOREM OnlySafeIsCommitted == Benign => (Spec => []CommittedIsSafe)
<1>1. CommittedInv => CommittedIsSafe
  BY DEF CommittedInv
<1> QED  BY <1>1, CommittedInvariant, PTL

\* In the benign case a running worker has every record it has polled in its
\* buffer or ahead in its batch, unless the record is safe.
THEOREM PolledIsKept == Benign => (Spec => []NothingForgotten)
<1>1. CommittedInv => NothingForgotten
  BY DEF CommittedInv, PrefixInv, Prefix, Kept, NothingForgotten
<1> QED  BY <1>1, CommittedInvariant, PTL

(***************************************************************************)
(* The consumer group as a stage of the pipeline: with a server that is    *)
(* waited for, every step is a step of AtLeastOnce or changes nothing that *)
(* AtLeastOnce sees.                                                       *)
(***************************************************************************)

StageStep == Stage!Next \/ UNCHANGED Stage!vars

\* What AtLeastOnce calls accepted and kept are functions of topic and committed.
LEMMA StageViews ==
    ASSUME UNCHANGED topic
    PROVE  /\ Produced' = Produced
           /\ UNCHANGED committed => Uncommitted' = Uncommitted
BY DEF Produced, Uncommitted

LEMMA StageStutters ==
    ASSUME UNCHANGED topic, UNCHANGED committed, UNCHANGED stored, UNCHANGED dlq
    PROVE  StageStep
BY StageViews DEF StageStep, Stage!vars

LEMMA StageDelivers ==
    ASSUME NEW S \in SUBSET Record, stored' = stored \cup S,
           UNCHANGED topic, UNCHANGED committed, UNCHANGED dlq
    PROVE  StageStep
<1>1. Stage!Deliver(S)
  BY StageViews DEF Stage!Deliver
<1> QED  BY <1>1 DEF Stage!Next, StageStep

LEMMA StageDrops ==
    ASSUME NEW r \in Record, dlq' = dlq \cup {r},
           UNCHANGED topic, UNCHANGED committed, UNCHANGED stored
    PROVE  StageStep
<1>1. Stage!Drop(r, {})
  BY StageViews DEF Stage!Drop
<1>2. {} \in SUBSET Record
  OBVIOUS
<1> QED  BY <1>1, <1>2 DEF Stage!Next, StageStep

\* A record is kept from the moment it is produced.
LEMMA StageTakes ==
    ASSUME TypeOK, NEW p \in Partition, Produce(p)
    PROVE  StageStep
<1> DEFINE r == <<p, Len(topic[p]) + 1>>
<1>1. /\ UNCHANGED committed /\ UNCHANGED stored /\ UNCHANGED dlq
      /\ Len(topic[p]) < MaxRecords
  BY DEF Produce, writer
<1>2. topic[p] \in Seq({"good", "poison"}) /\ Len(topic[p]) \in Nat
  BY DEF TypeOK
<1>3. r \in Record
  BY <1>1, <1>2, ConsumerAssumption DEF Record
<1>4. /\ Len(topic'[p]) = Len(topic[p]) + 1
      /\ \A q \in Partition \ {p} : topic'[q] = topic[q]
  <2>1. PICK kind : topic' = [topic EXCEPT ![p] = Append(topic[p], kind)]
                    /\ kind \in {"good", "poison"}
    BY DEF Produce
  <2>2. topic'[p] = Append(topic[p], kind) /\ \A q \in Partition \ {p} : topic'[q] = topic[q]
    BY <2>1 DEF TypeOK
  <2> QED  BY <1>2, <2>1, <2>2
<1>5. committed[p] \in Nat /\ committed[p] <= Len(topic[p])
  BY DEF TypeOK
<1>6. ASSUME NEW x \in Record
      PROVE  (x \in Produced' <=> x \in Produced \/ x = r)
             /\ (x = r => x[2] > committed[x[1]])
  <2>1. PICK q \in Partition, k \in 1..MaxRecords : x = <<q, k>>
    BY DEF Record
  <2>2. k \in Nat /\ x[1] = q /\ x[2] = k /\ r[1] = p /\ r[2] = Len(topic[p]) + 1
    BY <2>1, ConsumerAssumption
  <2>3. x = r <=> q = p /\ k = Len(topic[p]) + 1
    BY <2>1
  <2>4. CASE q = p
    BY <1>2, <1>4, <1>5, <2>2, <2>3, <2>4 DEF Produced
  <2>5. CASE q # p
    BY <1>4, <2>2, <2>3, <2>5 DEF Produced
  <2> QED  BY <2>4, <2>5
<1> HIDE DEF r
<1>7. Produced' = Produced \cup {r}
  BY <1>3, <1>6 DEF Produced
<1>8. Uncommitted' = Uncommitted \cup {r}
  BY <1>1, <1>3, <1>6, <1>7 DEF Uncommitted
<1> DEFINE S == {r}
<1>9. S \subseteq Stage!Safe'
  BY <1>8 DEF Stage!Safe
<1>10. Stage!Take(S)
  <2>1. \E K \in SUBSET S : Uncommitted' = Uncommitted \cup K
    BY <1>8
  <2>2. \E D \in SUBSET S : stored' = stored \cup D
    <3>1. {} \in SUBSET S /\ stored' = stored \cup {}
      BY <1>1
    <3> QED  BY <3>1
  <2> HIDE DEF S
  <2>3. Produced' = Produced \cup S
    BY <1>7 DEF S
  <2> QED  BY <1>1, <1>9, <2>1, <2>2, <2>3 DEF Stage!Take
<1>11. S \in SUBSET Record
  BY <1>3
<1> HIDE DEF S
<1> QED  BY <1>10, <1>11 DEF Stage!Next, StageStep

\* A commit lets go of records that are through, or moves the offset back over
\* records that it then keeps again.
LEMMA StageCommits ==
    ASSUME TypeOK, TypeOK', CommittedIsSafe', InRecords,
           NEW w \in Worker, NEW p \in Partition, Commit(w, p)
    PROVE  StageStep
<1>1. /\ UNCHANGED topic /\ UNCHANGED stored /\ UNCHANGED dlq /\ UNCHANGED inserting
  BY DEF Commit, writer
<1>2. \A q \in Partition \ {p} : committed'[q] = committed[q]
  <2>1. \/ committed' = committed
        \/ committed' = [committed EXCEPT ![p] = task[w][p].ok]
    BY DEF Commit
  <2> QED  BY <2>1 DEF TypeOK
<1>3. committed[p] \in Nat /\ committed'[p] \in Nat
  BY DEF TypeOK
<1>4. Produced' = Produced
  BY <1>1, StageViews
<1>5. Produced \subseteq Record
  BY DEF Produced
<1>6. \A x \in Record : x[1] \in Partition /\ x[2] \in Nat /\ x[2] \in 1..MaxRecords
                        /\ x = <<x[1], x[2]>>
  BY ConsumerAssumption DEF Record
<1>7. CASE committed'[p] <= committed[p]
  <2> DEFINE S == Uncommitted' \ Uncommitted
  <2>1. Uncommitted \subseteq Uncommitted'
    <3> SUFFICES ASSUME NEW x \in Produced, x[2] > committed[x[1]]
                 PROVE  x[2] > committed'[x[1]]
      BY <1>4 DEF Uncommitted
    <3>1. x[1] \in Partition /\ x[2] \in Nat
      BY <1>5, <1>6
    <3>2. CASE x[1] = p
      BY <1>3, <1>7, <3>1, <3>2
    <3>3. CASE x[1] # p
      BY <1>2, <3>1, <3>3
    <3> QED  BY <3>2, <3>3
  <2>2. Uncommitted' = Uncommitted \cup S /\ S \in SUBSET Record
    BY <1>4, <1>5, <2>1 DEF Uncommitted
  <2> HIDE DEF S
  <2>3. Stage!Keep(S)
    BY <1>1, <1>4, <2>2 DEF Stage!Keep
  <2> QED  BY <2>2, <2>3 DEF Stage!Next, StageStep
<1>8. CASE committed'[p] > committed[p]
  <2> DEFINE S == Uncommitted \ Uncommitted'
  <2>1. Uncommitted' \subseteq Uncommitted
    <3> SUFFICES ASSUME NEW x \in Produced, x[2] > committed'[x[1]]
                 PROVE  x[2] > committed[x[1]]
      BY <1>4 DEF Uncommitted
    <3>1. x[1] \in Partition /\ x[2] \in Nat
      BY <1>5, <1>6
    <3>2. CASE x[1] = p
      BY <1>3, <1>8, <3>1, <3>2
    <3>3. CASE x[1] # p
      BY <1>2, <3>1, <3>3
    <3> QED  BY <3>2, <3>3
  <2>2. Uncommitted' = Uncommitted \ S /\ S \in SUBSET Record
    BY <1>5, <2>1 DEF Uncommitted
  <2>3. S \cap Produced \subseteq stored \cup dlq
    <3> SUFFICES ASSUME NEW x \in S PROVE x \in stored \cup dlq
      OBVIOUS
    <3>1. x \in Produced /\ ~(x[2] > committed'[x[1]])
      BY <1>4 DEF Uncommitted
    <3>2. x[1] \in Partition /\ x[2] \in 1..MaxRecords /\ x = <<x[1], x[2]>>
      BY <1>5, <1>6, <3>1
    <3>3. x[2] \in 1..committed'[x[1]]
      <4>1. committed'[x[1]] \in Nat /\ x[2] \in Nat /\ x[2] >= 1
        BY <3>2, ConsumerAssumption DEF TypeOK
      <4> QED  BY <3>1, <4>1
    <3>4. x \in Safe'
      BY <3>2, <3>3 DEF CommittedIsSafe
    <3> QED  BY <1>1, <3>4 DEF Safe, InRecords
  <2> HIDE DEF S
  <2>4. Stage!Release(S)
    BY <1>1, <1>4, <2>2, <2>3 DEF Stage!Release
  <2> QED  BY <2>2, <2>4 DEF Stage!Next, StageStep
<1> QED  BY <1>3, <1>7, <1>8

\* The record in hand is one of the topic.
LEMMA InHandIsRecord ==
    ASSUME TypeOK, InRecords, NEW w \in Worker, NEW p \in Partition,
           task[w][p].pc \in {"process", "dlq"}
    PROVE  InHand(w, p) \in Record
<1>1. /\ task[w][p] \in Batch /\ BatchOK(w, p) /\ Len(topic[p]) \in Nat
      /\ Len(topic[p]) <= MaxRecords
  BY TaskInHand DEF InRecords
<1>2. /\ task[w][p].next \in task[w][p].first..task[w][p].last
      /\ task[w][p].first > 0 /\ task[w][p].last \in 1..Len(topic[p])
  BY <1>1 DEF BatchOK
<1>3. task[w][p].first \in Nat /\ task[w][p].last \in Nat
  BY <1>1, BatchFields
<1>4. task[w][p].next \in 1..MaxRecords
  BY <1>1, <1>2, <1>3, ConsumerAssumption
<1> QED  BY <1>4 DEF InHand, Record

\* A flush that waits for the server delivers rows of records.
LEMMA StageFlushes ==
    ASSUME WaitForInsert, TypeOK, InRecords, NEW w \in Worker,
           NEW b \in Seq(Partition \X Nat), Rows(b) \subseteq Record,
           NEW o \in FlushOutcomes(b, backoff[w]), Written(w, o),
           UNCHANGED topic, UNCHANGED committed, UNCHANGED dlq
    PROVE  InRecords' /\ StageStep
<1>1. /\ o.rows \subseteq Rows(b) /\ Rows(o.left) \subseteq Rows(b)
  <2>1. backoff[w] \in BOOLEAN
    BY DEF TypeOK
  <2> QED  BY <2>1, FlushShape
<1>2. /\ stored' = stored \cup o.rows /\ inserting' = inserting
      /\ buffer' = [buffer EXCEPT ![w] = o.left]
  BY DEF Written
<1>3. /\ buffer'[w] = o.left
      /\ \A v \in Worker \ {w} : buffer'[v] = buffer[v]
  BY <1>2 DEF TypeOK
<1>4. \A v \in Worker : Rows(buffer'[v]) \subseteq Record
  BY <1>1, <1>3 DEF InRecords
<1>5. InRecords'
  BY <1>2, <1>4 DEF InRecords
<1>6. o.rows \in SUBSET Record
  BY <1>1
<1> QED  BY <1>2, <1>5, <1>6, StageDelivers

\* Rows and topic stay where they are.
LEMMA InRecordsStays ==
    ASSUME InRecords, UNCHANGED topic, UNCHANGED buffer, UNCHANGED inserting
    PROVE  InRecords'
BY DEF InRecords

LEMMA StageGroup ==
    ASSUME TypeOK, InRecords, NEW p \in Partition, Group(p)
    PROVE  InRecords' /\ StageStep
<1>1. CASE Produce(p)
  <2>1. /\ UNCHANGED buffer /\ UNCHANGED inserting /\ Len(topic[p]) < MaxRecords
    BY <1>1 DEF Produce, writer
  <2>2. PICK kind : topic' = [topic EXCEPT ![p] = Append(topic[p], kind)]
                    /\ kind \in {"good", "poison"}
    BY <1>1 DEF Produce
  <2>3. /\ topic[p] \in Seq({"good", "poison"}) /\ topic'[p] = Append(topic[p], kind)
        /\ \A q \in Partition \ {p} : topic'[q] = topic[q]
    BY <2>2 DEF TypeOK
  <2>4. Len(topic'[p]) <= MaxRecords
    BY <2>1, <2>2, <2>3, ConsumerAssumption
  <2>5. \A q \in Partition : Len(topic'[q]) <= MaxRecords
    BY <2>3, <2>4 DEF InRecords
  <2>6. InRecords'
    BY <2>1, <2>5 DEF InRecords
  <2> QED  BY <1>1, <2>6, StageTakes
<1>2. ASSUME NEW w \in Worker, Assign(p, w) \/ Rebalance(p, w)
      PROVE  InRecords' /\ StageStep
  <2>1. /\ UNCHANGED topic /\ UNCHANGED committed /\ UNCHANGED stored /\ UNCHANGED dlq
        /\ UNCHANGED buffer /\ UNCHANGED inserting
    BY <1>2 DEF Assign, Rebalance, Given, writer
  <2> QED  BY <2>1, InRecordsStays, StageStutters
<1> QED  BY <1>1, <1>2 DEF Group

LEMMA StageRecords ==
    ASSUME WaitForInsert, TypeOK, InRecords,
           NEW w \in Worker, NEW p \in Partition, Records(w, p)
    PROVE  InRecords' /\ StageStep
<1>1. UNCHANGED topic /\ UNCHANGED committed
  BY DEF Records, Poll, Buffer, Save, Refused, MoveToDlq, DlqFails, group
<1>2. CASE Poll(w, p)
  <2>1. UNCHANGED stored /\ UNCHANGED dlq /\ UNCHANGED buffer /\ UNCHANGED inserting
    BY <1>2 DEF Poll, writer
  <2> QED  BY <1>1, <2>1, InRecordsStays, StageStutters
<1>3. CASE Buffer(w, p)
  <2> DEFINE b == Append(buffer[w], InHand(w, p))
  <2>1. InHand(w, p) \in Record /\ UNCHANGED dlq
    BY <1>3, InHandIsRecord DEF Buffer, Processing
  <2>2. buffer[w] \in Seq(Partition \X Nat) /\ InHand(w, p) \in Partition \X Nat
    BY TaskInHand DEF TypeOK, InHand
  <2>3. b \in Seq(Partition \X Nat) /\ Rows(b) = Rows(buffer[w]) \cup {InHand(w, p)}
    BY <2>2, RowsOf
  <2>4. Rows(b) \subseteq Record
    BY <2>1, <2>3 DEF InRecords
  <2>5. CASE Len(b) >= WriterBatch
    <3>1. PICK o \in FlushOutcomes(b, backoff[w]) : Written(w, o)
      BY <1>3, <2>5 DEF Buffer
    <3> HIDE DEF b
    <3> QED  BY <1>1, <2>1, <2>3, <2>4, <3>1, StageFlushes
  <2>6. CASE ~(Len(b) >= WriterBatch)
    <3>1. /\ buffer' = [buffer EXCEPT ![w] = b]
          /\ UNCHANGED inserting /\ UNCHANGED stored
      BY <1>3, <2>6 DEF Buffer
    <3> HIDE DEF b
    <3>2. buffer'[w] = b /\ \A v \in Worker \ {w} : buffer'[v] = buffer[v]
      BY <3>1 DEF TypeOK
    <3>3. InRecords'
      BY <1>1, <2>4, <3>1, <3>2 DEF InRecords
    <3> QED  BY <1>1, <2>1, <3>1, <3>3, StageStutters
  <2> QED  BY <2>5, <2>6
<1>4. CASE Save(w, p) \/ Refused(w, p)
  <2>1. /\ UNCHANGED dlq /\ UNCHANGED buffer /\ UNCHANGED inserting
        /\ task[w][p].pc = "process"
        /\ stored' = stored \/ stored' = stored \cup {InHand(w, p)}
    BY <1>4 DEF Save, Refused, Processing
  <2>2. {InHand(w, p)} \in SUBSET Record
    BY <2>1, InHandIsRecord
  <2>3. InRecords'
    BY <1>1, <2>1, InRecordsStays
  <2> QED  BY <1>1, <2>1, <2>2, <2>3, StageStutters, StageDelivers
<1>5. CASE MoveToDlq(w, p) \/ DlqFails(w, p)
  <2>1. /\ UNCHANGED stored /\ UNCHANGED buffer /\ UNCHANGED inserting
        /\ task[w][p].pc = "dlq"
        /\ dlq' = dlq \/ dlq' = dlq \cup {InHand(w, p)}
    BY <1>5 DEF MoveToDlq, DlqFails, writer
  <2>2. InHand(w, p) \in Record
    BY <2>1, InHandIsRecord
  <2>3. InRecords'
    BY <1>1, <2>1, InRecordsStays
  <2> QED  BY <1>1, <2>1, <2>2, <2>3, StageStutters, StageDrops
<1> QED  BY <1>2, <1>3, <1>4, <1>5 DEF Records

LEMMA StageConfirm ==
    ASSUME WaitForInsert, TypeOK, TypeOK', CommittedIsSafe', InRecords,
           NEW w \in Worker, NEW p \in Partition, Confirm(w, p)
    PROVE  InRecords' /\ StageStep
<1>1. CASE FlushPending(w, p)
  <2>1. PICK o \in FlushOutcomes(buffer[w], backoff[w]) : Written(w, o)
    BY <1>1 DEF FlushPending
  <2>2. buffer[w] \in Seq(Partition \X Nat) /\ Rows(buffer[w]) \subseteq Record
    BY DEF TypeOK, InRecords
  <2>3. UNCHANGED topic /\ UNCHANGED committed /\ UNCHANGED dlq
    BY <1>1 DEF FlushPending, group
  <2> QED  BY <2>1, <2>2, <2>3, StageFlushes
<1>2. CASE Commit(w, p)
  <2>1. UNCHANGED topic /\ UNCHANGED buffer /\ UNCHANGED inserting
    BY <1>2 DEF Commit, writer
  <2> QED  BY <1>2, <2>1, InRecordsStays, StageCommits
<1> QED  BY <1>1, <1>2 DEF Confirm

LEMMA StageWorker ==
    ASSUME WaitForInsert, TypeOK, InRecords, NEW w \in Worker,
           FlushLoop(w) \/ BackoffOver(w) \/ Process(w)
    PROVE  InRecords' /\ StageStep
<1>1. UNCHANGED topic /\ UNCHANGED committed /\ UNCHANGED dlq
  BY DEF FlushLoop, BackoffOver, Process, StartWorker, Crash, Stop, Close, Ends, group
<1>2. buffer[w] \in Seq(Partition \X Nat) /\ Rows(buffer[w]) \subseteq Record
  BY DEF TypeOK, InRecords
<1>3. CASE FlushLoop(w) \/ Stop(w)
  <2>1. PICK o \in FlushOutcomes(buffer[w], backoff[w]) : Written(w, o)
    BY <1>3 DEF FlushLoop, Stop, TypeOK
  <2> QED  BY <1>1, <1>2, <2>1, StageFlushes
<1>4. CASE BackoffOver(w) \/ StartWorker(w)
  <2>1. UNCHANGED buffer /\ UNCHANGED inserting /\ UNCHANGED stored
    BY <1>4 DEF BackoffOver, StartWorker, writer
  <2> QED  BY <1>1, <2>1, InRecordsStays, StageStutters
<1>5. CASE Crash(w) \/ Close(w)
  <2>1. Ends(w)
    BY <1>5 DEF Crash, Close
  <2>2. UNCHANGED stored /\ UNCHANGED inserting
    BY <2>1 DEF Ends
  <2>3. /\ buffer'[w] = <<>> /\ \A v \in Worker \ {w} : buffer'[v] = buffer[v]
    BY <2>1 DEF Ends, TypeOK
  <2>4. \A v \in Worker : Rows(buffer'[v]) \subseteq Record
    <3>1. Rows(<<>>) = {}
      BY DEF Rows
    <3> QED  BY <2>3, <3>1 DEF InRecords
  <2>5. InRecords'
    BY <1>1, <2>2, <2>4 DEF InRecords
  <2> QED  BY <1>1, <2>2, <2>5, StageStutters
<1> QED  BY <1>3, <1>4, <1>5 DEF Process

LEMMA StageAnyStep ==
    ASSUME WaitForInsert, TypeOK, TypeOK', CommittedIsSafe', InRecords, [Next]_vars
    PROVE  InRecords' /\ StageStep
<1>1. CASE UNCHANGED vars
  <2>1. /\ UNCHANGED topic /\ UNCHANGED committed /\ UNCHANGED stored /\ UNCHANGED dlq
        /\ UNCHANGED buffer /\ UNCHANGED inserting
    BY <1>1 DEF vars
  <2> QED  BY <2>1, InRecordsStays, StageStutters
<1>2. ~ServerWrites
  BY DEF ServerWrites, InRecords
<1> QED  BY <1>1, <1>2, StageGroup, StageRecords, StageConfirm, StageWorker DEF Next

LEMMA StageStart == Init => Stage!Init /\ InRecords
<1> SUFFICES ASSUME Init PROVE Stage!Init /\ InRecords
  OBVIOUS
<1>1. Produced = {}
  BY ConsumerAssumption DEF Init, Produced, Record
<1>2. Uncommitted = {} /\ stored = {} /\ dlq = {}
  BY <1>1 DEF Init, Uncommitted
<1>3. \A w \in Worker : Rows(buffer[w]) = {}
  <2>1. \A w \in Worker : buffer[w] = <<>>
    BY DEF Init
  <2>2. Rows(<<>>) = {}
    BY DEF Rows
  <2> QED  BY <2>1, <2>2
<1>4. InRecords
  BY <1>3, ConsumerAssumption DEF Init, InRecords
<1> QED  BY <1>1, <1>2, <1>4 DEF Stage!Init

\* The consumer group keeps the promise of a stage at every step: a record is
\* kept in Kafka until it is in ClickHouse or in the dead letter topic, and the
\* offset may move back but never forward over another one.
THEOREM GroupIsAtLeastOnce ==
    ASSUME Benign, WaitForInsert
    PROVE  Spec => Stage!Spec
<1>1. CommittedInv => CommittedIsSafe
  BY DEF CommittedInv
<1>2. TypeOK /\ TypeOK' /\ CommittedIsSafe' /\ InRecords /\ [Next]_vars
        => InRecords' /\ [Stage!Next]_(Stage!vars)
  BY StageAnyStep DEF StageStep
<1> QED
  BY <1>1, <1>2, StageStart, CommittedInvariant, PTL DEF Spec, Stage!Spec

=============================================================================
