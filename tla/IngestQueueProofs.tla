------------------------- MODULE IngestQueueProofs -------------------------
(***************************************************************************)
(* Proofs about IngestQueue, for every value of its constants: types,      *)
(* durability, and that it is an AtLeastOnce stage.                        *)
(***************************************************************************)
EXTENDS IngestQueue, FiniteSetTheorems, SequenceTheorems, TLAPS

(***************************************************************************)
(* The operators on the WAL file.                                          *)
(***************************************************************************)

LEMMA RecordTypes ==
    /\ Torn \in Record /\ Bad \in Record
    /\ \A item \in Item : AddRec(item) \in Record /\ AckRec(item) \in Record
BY DEF Torn, Bad, Record, Item, AddRec, AckRec

LEMMA ExtendType ==
    ASSUME NEW l \in Seq(Record), NEW recs \in Seq(Record)
    PROVE  Extend(l, recs) \in Seq(Record)
<1>1. CASE ~(l # <<>> /\ recs # <<>> /\ l[Len(l)] = Torn)
  BY <1>1 DEF Extend
<1>2. CASE l # <<>> /\ recs # <<>> /\ l[Len(l)] = Torn
  <2>1. SubSeq(l, 1, Len(l) - 1) \in Seq(Record) /\ Tail(recs) \in Seq(Record)
    BY <1>2
  <2>2. <<IF Head(recs) = Torn THEN Torn ELSE Bad>> \in Seq(Record)
    BY RecordTypes
  <2> QED  BY <1>2, <2>1, <2>2 DEF Extend
<1> QED  BY <1>1, <1>2

LEMMA CutType ==
    ASSUME NEW l \in Seq(Record), NEW recs \in Seq(Record), NEW k \in 0..Len(recs)
    PROVE  Cut(l, recs, k) \in Seq(Record)
<1>1. SubSeq(recs, 1, k) \in Seq(Record)
  OBVIOUS
<1>2. Append(SubSeq(recs, 1, k), Torn) \in Seq(Record)
  BY <1>1, RecordTypes
<1> QED  BY <1>2, ExtendType DEF Cut

\* An append leaves a file of records behind and does or does not fail.
LEMMA AppendType ==
    ASSUME NEW l \in Seq(Record), NEW recs \in Seq(Record),
           NEW o \in AppendOutcomes(l, recs)
    PROVE  o.log \in Seq(Record) /\ o.res \in {"ok", "error"}
<1>1. \A f \in FailedAppends(l, recs) : f \in Seq(Record)
  <2>1. \A k \in 1..Len(recs) : Cut(l, recs, k - 1) \in Seq(Record)
    BY CutType
  <2> QED  BY <2>1, ExtendType DEF FailedAppends
<1>2. CASE wal = "none"
  BY <1>2 DEF AppendOutcomes
<1>3. CASE wal = "broken"
  BY <1>3 DEF AppendOutcomes
<1>4. CASE wal # "none" /\ wal # "broken"
  BY <1>1, <1>4, ExtendType DEF AppendOutcomes
<1> QED  BY <1>2, <1>3, <1>4

LEMMA AckType ==
    ASSUME NEW l \in Seq(Record), NEW recs \in Seq(Record),
           NEW o \in AckOutcomes(l, recs)
    PROVE  o.log \in Seq(Record) /\ o.res \in {"ok", "error"}
<1>1. CASE o \in AppendOutcomes(l, recs)
  BY <1>1, AppendType
<1>2. CASE o = [log |-> l, res |-> "error"]
  BY <1>2
<1> QED  BY <1>1, <1>2 DEF AckOutcomes

\* A compacted file holds records of the file, all of them pending adds.
LEMMA CompactedRecords ==
    ASSUME NEW l \in Seq(Record), NEW c \in Compacted(l)
    PROVE  /\ c \in Seq(Record)
           /\ \A k \in DOMAIN c : \E j \in Having(l, "add") :
                c[k] = l[j] /\ l[j].id \notin Acked(l)
<1> DEFINE I == {k \in Having(l, "add") : l[k].id \notin Acked(l)}
<1>1. PICK f \in [1..Cardinality(I) -> I] : c = [k \in DOMAIN f |-> l[f[k]]]
  BY DEF Compacted
<1>2. Cardinality(I) \in Nat
  <2>1. I \subseteq 1..Len(l)
    BY DEF Having
  <2>2. IsFiniteSet(1..Len(l))
    BY FS_Interval
  <2> QED  BY <2>1, <2>2, FS_Subset, FS_CardinalityType
<1>3. \A k \in 1..Cardinality(I) : f[k] \in I /\ l[f[k]] \in Record
  BY DEF Having
<1>4. c \in [1..Cardinality(I) -> Record]
  BY <1>1, <1>3
<1>5. c \in Seq(Record)
  <2>1. Seq(Record) = UNION {[1..n -> Record] : n \in Nat}
    BY SeqDef
  <2> HIDE DEF I
  <2> QED  BY <1>2, <1>4, <2>1
<1> QED  BY <1>1, <1>3, <1>5

LEMMA AcksType ==
    ASSUME NEW b \in Seq(Item), NEW n \in 0..Len(b)
    PROVE  Acks(b, n) \in Seq(Record) /\ Len(Acks(b, n)) = n
BY RecordTypes DEF Acks

(***************************************************************************)
(* Type correctness.                                                       *)
(***************************************************************************)

LEMMA StoredType ==
    ASSUME TypeOK, NEW S, topic' = Stored(S)
    PROVE  topic' \in [Payload -> 0..2]
BY DEF TypeOK, DataTypes, Stored

LEMMA ToldType ==
    ASSUME TypeOK, NEW old,
           NEW new \in {"none", "writing", "accepted", "rejected", "unknown"},
           outcome' = Told(old, new)
    PROVE  outcome' \in [Payload -> {"none", "writing", "accepted", "rejected", "unknown"}]
BY DEF TypeOK, DataTypes, Told

LEMMA NewItemType ==
    ASSUME TypeOK, todo > 0
    PROVE  NewItem \in Item
BY ConstantsAssumption DEF TypeOK, DataTypes, NewItem, InHand, Item, Payload

LEMMA ResetType ==
    ASSUME TypeOK, Reset, log' \in Seq(Record), restarts' \in 0..MaxRestarts
    PROVE  TypeOK'
<1>1. outcome' \in [Payload -> {"none", "writing", "accepted", "rejected", "unknown"}]
  BY ToldType DEF Reset
<1>2. DataTypes'
  BY <1>1 DEF Reset, TypeOK, DataTypes
<1>3. \A f \in Flusher : batch'[f] = <<>> /\ pc'[f] = "idle"
  BY DEF Reset
<1>4. batch' \in [Flusher -> Seq(Item)] /\ pc' \in [Flusher -> {"idle"}]
  BY DEF Reset
<1>5. FlusherTypes'
  BY <1>3, <1>4 DEF FlusherTypes, Flusher
<1> QED  BY <1>2, <1>5 DEF TypeOK

LEMMA TypeInit == Init => TypeOK
<1> SUFFICES ASSUME Init PROVE TypeOK
  OBVIOUS
<1>1. DataTypes
  BY ConstantsAssumption DEF Init, DataTypes, Payload
<1>2. FlusherTypes
  BY DEF Init, FlusherTypes, Flusher
<1> QED  BY <1>1, <1>2 DEF TypeOK

LEMMA TypeLifecycle ==
    ASSUME TypeOK, Lifecycle
    PROVE  TypeOK'
<1> USE ConstantsAssumption DEF TypeOK
<1>0. FileAtOpen \in Seq(Record)
  BY DEF FileAtOpen, DataTypes
<1>1. CASE Start
  BY <1>1 DEF Start, DataTypes, FlusherTypes, request
<1>2. CASE InitFails
  <2>1. log' \in Seq(Record) /\ restarts' \in 0..MaxRestarts
    BY <1>0, <1>2 DEF InitFails, DataTypes
  <2> QED  BY <1>2, <2>1, ResetType DEF InitFails
<1>3. CASE InitQueue
  <2>1. PICK c \in Compacted(FileAtOpen) :
          /\ log' = c
          /\ queue' = queue \o [k \in DOMAIN c |-> ItemOf(c[k])]
          /\ \E next \in {"pick", "idle"} : pc' = [pc EXCEPT !["init"] = next]
    BY <1>3 DEF InitQueue, Renamed
  <2>2. /\ c \in Seq(Record)
        /\ \A k \in DOMAIN c : c[k] \in Record /\ c[k].op = "add"
    BY <1>0, CompactedRecords DEF Having
  <2>3. [k \in DOMAIN c |-> ItemOf(c[k])] \in Seq(Item)
    <3>1. \A k \in 1..Len(c) : ItemOf(c[k]) \in Item
      BY <2>2 DEF Record, ItemOf, Item
    <3> QED  BY <2>2, <3>1
  <2>4. nextID' \in Nat
    <3>1. \A i \in Ids(FileAtOpen) : i \in Nat
      BY <1>0 DEF Ids, Added, Acked, Having, Record, ItemOf
    <3> QED  BY <1>3, <3>1 DEF InitQueue, Renamed, DataTypes
  <2>5. DataTypes'
    BY <1>3, <2>1, <2>2, <2>3, <2>4 DEF InitQueue, Renamed, DataTypes, request, MuFree
  <2>6. FlusherTypes'
    BY <1>3, <2>1 DEF InitQueue, Renamed, FlusherTypes, Flusher
  <2> QED  BY <2>5, <2>6
<1>4. CASE Crash
  <2>1. ASSUME NEW recs \in AppendsUnderWay
        PROVE  recs \in Seq(Record)
    <3>1. \A f \in Flusher, n \in 1..BatchSize :
            Popped(f, n) => Acks(batch[f], n) \in Seq(Record)
      BY AcksType DEF FlusherTypes, Popped, Matches
    <3>2. CASE todo > 0 /\ turn = "ack"
      <4>1. Head(queue) \in Item
        BY <3>2 DEF DataTypes
      <4>2. recs = <<AckRec(Head(queue))>>
        BY <2>1, <3>2 DEF AppendsUnderWay
      <4> QED  BY <4>1, <4>2, RecordTypes
    <3>3. CASE todo > 0 /\ turn # "ack"
      <4>1. recs = <<AddRec(NewItem)>>
        BY <2>1, <3>3 DEF AppendsUnderWay
      <4> QED  BY <3>3, <4>1, NewItemType, RecordTypes
    <3> QED  BY <2>1, <3>1, <3>2, <3>3 DEF AppendsUnderWay
  <2>2. log' \in Seq(Record)
    BY <1>4, <2>1, CutType DEF Crash, DataTypes
  <2> QED  BY <1>4, <2>2, ResetType DEF Crash, DataTypes
<1>5. CASE BeginShutdown
  BY <1>5 DEF BeginShutdown, DataTypes, FlusherTypes, request, Flusher
<1>6. CASE CloseWAL
  BY <1>6 DEF CloseWAL, DataTypes, FlusherTypes, request
<1>7. CASE Exit
  BY <1>7, ResetType DEF Exit, DataTypes
<1> QED  BY <1>1, <1>2, <1>3, <1>4, <1>5, <1>6, <1>7 DEF Lifecycle

LEMMA TypeRequest ==
    ASSUME TypeOK, Request
    PROVE  TypeOK'
<1> USE ConstantsAssumption DEF TypeOK
<1>1. PICK n \in 1..MaxRequest : Refuse(n) \/ Admit(n) \/ DirectWrite(n)
  BY DEF Request
<1>2. New(n) \subseteq Payload /\ arrived' \in 0..NumPayloads /\ arrived' >= n /\ arrived' >= arrived
  BY <1>1 DEF Refuse, Admit, DirectWrite, Arrives, New, Payload, DataTypes
<1>3. topic' \in [Payload -> 0..2]
  BY <1>1, StoredType DEF Refuse, Admit, DirectWrite, TriedBefore
<1>4. outcome' \in [Payload -> {"none", "writing", "accepted", "rejected", "unknown"}]
  BY <1>1 DEF Refuse, Admit, DirectWrite, DataTypes
<1>5. DataTypes'
  BY <1>1, <1>2, <1>3, <1>4
     DEF Refuse, Admit, DirectWrite, Arrives, TriedBefore, MuFree, DataTypes
<1>6. FlusherTypes'
  BY <1>1 DEF Refuse, Admit, DirectWrite, TriedBefore, FlusherTypes
<1> QED  BY <1>5, <1>6

LEMMA QueuedTypes ==
    ASSUME TypeOK, todo > 0, PayloadQueued
    PROVE  /\ arrived' = arrived /\ todo' \in 0..arrived' /\ turn' = "add"
           /\ loop' \in {"off", "running", "cancelled"}
           /\ outcome' \in [Payload -> {"none", "writing", "accepted", "rejected", "unknown"}]
<1>1. CASE todo = 1
  BY <1>1, ToldType DEF PayloadQueued, TypeOK, DataTypes
<1>2. CASE todo # 1
  BY <1>2 DEF PayloadQueued, TypeOK, DataTypes
<1> QED  BY <1>1, <1>2

LEMMA FailsTypes ==
    ASSUME TypeOK, RequestFails
    PROVE  /\ arrived' = arrived /\ todo' \in 0..arrived' /\ turn' = "add"
           /\ loop' \in {"off", "running", "cancelled"}
           /\ outcome' \in [Payload -> {"none", "writing", "accepted", "rejected", "unknown"}]
BY ToldType DEF RequestFails, TypeOK, DataTypes

LEMMA TypeHandler ==
    ASSUME TypeOK, Handler
    PROVE  TypeOK'
<1> USE ConstantsAssumption DEF TypeOK
<1>1. FlusherTypes'
  BY DEF Handler, Enqueue, LogNewcomer, DropHead, FlusherTypes
<1>2. CASE Enqueue
  <2>1. NewItem \in Item /\ todo > 0
    BY <1>2, NewItemType DEF Enqueue
  <2>2. PICK o \in AppendOutcomes(log, <<AddRec(NewItem)>>) :
          /\ log' = o.log
          /\ \/ RequestFails /\ UNCHANGED queue
             \/ PayloadQueued /\ queue' = Append(queue, NewItem)
    BY <1>2 DEF Enqueue
  <2>3. <<AddRec(NewItem)>> \in Seq(Record)
    BY <2>1, RecordTypes
  <2>4. log' \in Seq(Record)
    BY <2>2, <2>3, AppendType DEF DataTypes
  <2>5. CASE RequestFails /\ UNCHANGED queue
    <3>1. /\ arrived' = arrived /\ todo' \in 0..arrived' /\ turn' = "add"
          /\ loop' \in {"off", "running", "cancelled"}
          /\ outcome' \in [Payload -> {"none", "writing", "accepted", "rejected", "unknown"}]
      BY <2>5, FailsTypes
    <3>2. DataTypes'
      BY <3>1, <1>2, <2>4, <2>5 DEF Enqueue, DataTypes
    <3> QED  BY <1>1, <3>2
  <2>6. CASE PayloadQueued /\ queue' = Append(queue, NewItem)
    <3>1. /\ arrived' = arrived /\ todo' \in 0..arrived' /\ turn' = "add"
          /\ loop' \in {"off", "running", "cancelled"}
          /\ outcome' \in [Payload -> {"none", "writing", "accepted", "rejected", "unknown"}]
      BY <2>1, <2>6, QueuedTypes
    <3>2. DataTypes'
      BY <3>1, <1>2, <2>1, <2>4, <2>6 DEF Enqueue, DataTypes
    <3> QED  BY <1>1, <3>2
  <2> QED  BY <2>2, <2>5, <2>6
<1>3. CASE LogNewcomer
  <2>1. NewItem \in Item
    BY <1>3, NewItemType DEF LogNewcomer
  <2>2. PICK o \in AppendOutcomes(log, <<AddRec(NewItem)>>) :
          /\ log' = o.log
          /\ \/ RequestFails
             \/ turn' = "ack" /\ UNCHANGED <<arrived, todo, outcome, loop>>
    BY <1>3 DEF LogNewcomer
  <2>3. <<AddRec(NewItem)>> \in Seq(Record)
    BY <2>1, RecordTypes
  <2>4. log' \in Seq(Record)
    BY <2>2, <2>3, AppendType DEF DataTypes
  <2>5. queue # <<>>
    BY <1>3 DEF LogNewcomer, DataTypes
  <2>6. CASE RequestFails
    <3>1. /\ arrived' = arrived /\ todo' \in 0..arrived' /\ turn' = "add"
          /\ loop' \in {"off", "running", "cancelled"}
          /\ outcome' \in [Payload -> {"none", "writing", "accepted", "rejected", "unknown"}]
      BY <2>6, FailsTypes
    <3>2. DataTypes'
      BY <3>1, <1>3, <2>4 DEF LogNewcomer, DataTypes
    <3> QED  BY <1>1, <3>2
  <2>7. CASE turn' = "ack" /\ UNCHANGED <<arrived, todo, outcome, loop>>
    <3>1. DataTypes'
      BY <1>3, <2>4, <2>5, <2>7 DEF LogNewcomer, DataTypes
    <3> QED  BY <1>1, <3>1
  <2> QED  BY <2>2, <2>6, <2>7
<1>4. CASE DropHead
  <2>1. todo > 0 /\ queue # <<>>
    BY <1>4 DEF DropHead, DataTypes
  <2>2. Head(queue) \in Item /\ Tail(queue) \in Seq(Item)
    BY <2>1 DEF DataTypes
  <2>3. Newcomer \in Item
    BY <2>1 DEF Newcomer, InHand, DataTypes, Item, Payload
  <2>4. PICK o \in AckOutcomes(log, <<AckRec(Head(queue))>>) :
          \/ /\ log' = o.log
             /\ queue' = Append(Tail(queue), Newcomer)
             /\ dropped' = dropped \cup {Head(queue).payload}
             /\ PayloadQueued
          \/ /\ \E undo \in AckOutcomes(o.log, <<AckRec(Newcomer)>>) : log' = undo.log
             /\ RequestFails
             /\ UNCHANGED <<queue, dropped>>
    BY <1>4 DEF DropHead
  <2>5. <<AckRec(Head(queue))>> \in Seq(Record) /\ <<AckRec(Newcomer)>> \in Seq(Record)
    BY <2>2, <2>3, RecordTypes
  <2>6. o.log \in Seq(Record)
    BY <2>4, <2>5, AckType DEF DataTypes
  <2>7. log' \in Seq(Record)
    BY <2>4, <2>5, <2>6, AckType
  <2>8. dropped' \subseteq Payload
    BY <2>2, <2>4 DEF DataTypes, Item
  <2>9. queue' \in Seq(Item)
    <3>1. Append(Tail(queue), Newcomer) \in Seq(Item)
      BY <2>2, <2>3
    <3> QED  BY <2>4, <3>1 DEF DataTypes
  <2>10. CASE PayloadQueued
    <3>1. /\ arrived' = arrived /\ todo' \in 0..arrived' /\ turn' = "add"
          /\ loop' \in {"off", "running", "cancelled"}
          /\ outcome' \in [Payload -> {"none", "writing", "accepted", "rejected", "unknown"}]
      BY <2>1, <2>10, QueuedTypes
    <3>2. DataTypes'
      BY <3>1, <1>4, <2>7, <2>8, <2>9 DEF DropHead, DataTypes
    <3> QED  BY <1>1, <3>2
  <2>11. CASE RequestFails
    <3>1. /\ arrived' = arrived /\ todo' \in 0..arrived' /\ turn' = "add"
          /\ loop' \in {"off", "running", "cancelled"}
          /\ outcome' \in [Payload -> {"none", "writing", "accepted", "rejected", "unknown"}]
      BY <2>11, FailsTypes
    <3>2. DataTypes'
      BY <3>1, <1>4, <2>7, <2>8, <2>9 DEF DropHead, DataTypes
    <3> QED  BY <1>1, <3>2
  <2> QED  BY <2>4, <2>10, <2>11
<1> QED  BY <1>2, <1>3, <1>4 DEF Handler

LEMMA TypeFlush ==
    ASSUME TypeOK, NEW f \in Flusher, Flush(f)
    PROVE  TypeOK'
<1> USE ConstantsAssumption DEF TypeOK
<1>1. CASE Pick(f)
  <2>1. DataTypes'
    BY <1>1 DEF Pick, DataTypes, request, process
  <2>2. CASE queue = <<>>
    <3>1. pc' = [pc EXCEPT ![f] = AfterFlush[f]] /\ UNCHANGED <<batch, phase>> /\ pc[f] = "pick"
      BY <1>1, <2>2 DEF Pick, process
    <3>2. FlusherTypes'
      BY <3>1 DEF FlusherTypes, AfterFlush, Flusher
    <3> QED  BY <2>1, <3>2
  <2>3. CASE queue # <<>>
    <3>1. PICK n \in 1..Len(queue) :
            /\ batch' = [batch EXCEPT ![f] = SubSeq(queue, 1, n)]
            /\ pc' = [pc EXCEPT ![f] = "write"]
      BY <1>1, <2>3 DEF Pick
    <3>2. SubSeq(queue, 1, n) \in Seq(Item) /\ SubSeq(queue, 1, n) # <<>>
      BY DEF DataTypes
    <3>3. pc[f] = "pick" /\ UNCHANGED phase
      BY <1>1 DEF Pick, process
    <3>4. FlusherTypes'
      BY <3>1, <3>2, <3>3 DEF FlusherTypes, Flusher
    <3> QED  BY <2>1, <3>4
  <2> QED  BY <2>1, <2>2, <2>3
<1>2. CASE WriteSucceeds(f)
  <2>1. topic' \in [Payload -> 0..2]
    BY <1>2, StoredType DEF WriteSucceeds
  <2>2. DataTypes'
    BY <1>2, <2>1 DEF WriteSucceeds, DataTypes, request, process
  <2>3. FlusherTypes'
    BY <1>2 DEF WriteSucceeds, FlusherTypes, Flusher, process
  <2> QED  BY <2>2, <2>3
<1>3. CASE WriteFails(f)
  <2>1. topic' \in [Payload -> 0..2]
    BY <1>3, StoredType DEF WriteFails
  <2>2. DataTypes'
    BY <1>3, <2>1 DEF WriteFails, DataTypes, request, process
  <2>3. FlusherTypes'
    BY <1>3 DEF WriteFails, FlusherTypes, Flusher, AfterFlush, process
  <2> QED  BY <2>2, <2>3
<1>4. CASE Finalize(f)
  <2>0. PICK n \in 0..Len(batch[f]) :
          /\ Popped(f, n)
          /\ \E o \in IF n = 0 THEN {[log |-> log, res |-> "ok"]}
                      ELSE AckOutcomes(log, Acks(batch[f], n)) :
               /\ log' = o.log
               /\ queue' = IF o.res = "error"
                      THEN SubSeq(batch[f], 1, n) \o SubSeq(queue, n + 1, Len(queue))
                      ELSE SubSeq(queue, n + 1, Len(queue))
               /\ pc' = [pc EXCEPT ![f] = IF o.res = "error" THEN AfterFlush[f] ELSE "pick"]
    BY <1>4 DEF Finalize
  <2>1. PICK o \in IF n = 0 THEN {[log |-> log, res |-> "ok"]}
                   ELSE AckOutcomes(log, Acks(batch[f], n)) :
          /\ log' = o.log
          /\ queue' = IF o.res = "error"
                      THEN SubSeq(batch[f], 1, n) \o SubSeq(queue, n + 1, Len(queue))
                      ELSE SubSeq(queue, n + 1, Len(queue))
          /\ pc' = [pc EXCEPT ![f] = IF o.res = "error" THEN AfterFlush[f] ELSE "pick"]
    BY <2>0
  <2>2. batch[f] \in Seq(Item)
    BY DEF FlusherTypes
  <2>3. log' \in Seq(Record)
    <3>1. Acks(batch[f], n) \in Seq(Record)
      BY <2>2, AcksType
    <3>2. CASE n = 0
      BY <2>1, <3>2 DEF DataTypes
    <3>3. CASE n # 0
      BY <2>1, <3>1, <3>3, AckType DEF DataTypes
    <3> QED  BY <3>2, <3>3
  <2>4. queue' \in Seq(Item)
    BY <2>1, <2>2 DEF DataTypes
  <2>5. DataTypes'
    BY <1>4, <2>3, <2>4 DEF Finalize, DataTypes, MuFree, request, process
  <2>6. FlusherTypes'
    <3>1. /\ batch' = [batch EXCEPT ![f] = <<>>]
          /\ pc' = [pc EXCEPT ![f] = AfterFlush[f]] \/ pc' = [pc EXCEPT ![f] = "pick"]
          /\ pc[f] = "finalize" /\ UNCHANGED phase
      BY <1>4, <2>1 DEF Finalize, process
    <3> QED  BY <3>1 DEF FlusherTypes, Flusher, AfterFlush
  <2> QED  BY <2>5, <2>6
<1> QED  BY <1>1, <1>2, <1>3, <1>4 DEF Flush

LEMMA TypeLoop ==
    ASSUME TypeOK, LoopWakes \/ CheckSize \/ NothingToCompact \/ Compact
    PROVE  TypeOK'
<1> USE DEF TypeOK
<1>1. CASE LoopWakes
  BY <1>1 DEF LoopWakes, DataTypes, FlusherTypes, Flusher, request, process
<1>2. CASE NothingToCompact
  BY <1>2 DEF NothingToCompact, DataTypes, FlusherTypes, Flusher, request, process
<1>4. CASE CheckSize
  <2>1. DataTypes'
    BY <1>4 DEF CheckSize, DataTypes, request, process
  <2>2. FlusherTypes'
    BY <1>4 DEF CheckSize, FlusherTypes, Flusher, process
  <2> QED  BY <2>1, <2>2
<1>3. CASE Compact
  <2>1. log' \in Seq(Record) /\ wal' \in {"none", "open", "broken"}
    BY <1>3, CompactedRecords DEF Compact, DataTypes
  <2>2. DataTypes'
    BY <1>3, <2>1 DEF Compact, DataTypes, request, process
  <2>3. FlusherTypes'
    BY <1>3 DEF Compact, FlusherTypes, Flusher, process
  <2> QED  BY <2>2, <2>3
<1> QED  BY <1>1, <1>2, <1>3, <1>4

LEMMA TypeStep == TypeOK /\ [Next]_vars => TypeOK'
<1> SUFFICES ASSUME TypeOK, [Next]_vars PROVE TypeOK'
  OBVIOUS
<1>1. CASE UNCHANGED vars
  BY <1>1 DEF vars, TypeOK, DataTypes, FlusherTypes
<1>2. CASE Next
  BY <1>2, TypeLifecycle, TypeRequest, TypeHandler, TypeFlush, TypeLoop DEF Next
<1> QED  BY <1>1, <1>2

\* Every reachable state of QueueWriter and its WAL is well typed.
THEOREM TypeCorrect == Spec => []TypeOK
BY TypeInit, TypeStep, PTL DEF Spec

-----------------------------------------------------------------------------
(***************************************************************************)
(* DurableInv is inductive, and with it an accepted payload is never lost. *)
(* The WAL is reasoned about through two sets, the items added to it and   *)
(* the ids acked in it; the first lemmas say what the operators on the     *)
(* file do to them.                                                        *)
(***************************************************************************)

LEMMA ConcatWal ==
    ASSUME NEW l \in Seq(Record), NEW r \in Seq(Record)
    PROVE  /\ Added(l \o r) = Added(l) \cup Added(r)
           /\ Acked(l \o r) = Acked(l) \cup Acked(r)
<1>1. \A k \in DOMAIN (l \o r) : \/ k \in DOMAIN l /\ (l \o r)[k] = l[k]
                                 \/ k - Len(l) \in DOMAIN r /\ (l \o r)[k] = r[k - Len(l)]
  OBVIOUS
<1>2. /\ \A k \in DOMAIN l : k \in DOMAIN (l \o r) /\ (l \o r)[k] = l[k]
      /\ \A k \in DOMAIN r : k + Len(l) \in DOMAIN (l \o r) /\ (l \o r)[k + Len(l)] = r[k]
  OBVIOUS
<1> DEFINE m == l \o r
<1>3. /\ \A k \in DOMAIN m : \/ k \in DOMAIN l /\ m[k] = l[k]
                            \/ \E j \in DOMAIN r : m[k] = r[j]
      /\ \A k \in DOMAIN l : \E j \in DOMAIN m : m[j] = l[k]
      /\ \A k \in DOMAIN r : \E j \in DOMAIN m : m[j] = r[k]
  <2>1. \A k \in DOMAIN m : \/ k \in DOMAIN l /\ m[k] = l[k]
                           \/ \E j \in DOMAIN r : m[k] = r[j]
    BY <1>1
  <2>2. \A k \in DOMAIN l : \E j \in DOMAIN m : m[j] = l[k]
    BY <1>2
  <2>3. \A k \in DOMAIN r : \E j \in DOMAIN m : m[j] = r[k]
    BY <1>2
  <2> QED  BY <2>1, <2>2, <2>3
<1> HIDE DEF m
<1>4. Added(m) = Added(l) \cup Added(r) /\ Acked(m) = Acked(l) \cup Acked(r)
  <2>1. Added(m) = Added(l) \cup Added(r)
    BY <1>3 DEF Added, Having
  <2>2. Acked(m) = Acked(l) \cup Acked(r)
    BY <1>3 DEF Acked, Having
  <2> QED  BY <2>1, <2>2
<1> QED  BY <1>4 DEF m

LEMMA SingleRecords ==
    ASSUME NEW item \in Item
    PROVE  /\ Added(<<AddRec(item)>>) = {item} /\ Acked(<<AddRec(item)>>) = {}
           /\ Added(<<AckRec(item)>>) = {} /\ Acked(<<AckRec(item)>>) = {item.id}
           /\ Whole(<<AddRec(item)>>) /\ Whole(<<AckRec(item)>>)
<1>1. ItemOf(AddRec(item)) = item
  BY DEF ItemOf, AddRec, Item
<1> QED  BY <1>1 DEF Added, Acked, Having, AddRec, AckRec, Whole

LEMMA TornRecord ==
    Torn.op = "torn" /\ Added(<<Torn>>) = {} /\ Acked(<<Torn>>) = {}
BY DEF Added, Acked, Having, Torn

LEMMA ExtendWhole ==
    ASSUME NEW l \in Seq(Record), Whole(l), NEW r
    PROVE  Extend(l, r) = l \o r
<1>1. CASE l = <<>>
  BY <1>1 DEF Extend
<1>2. CASE l # <<>>
  <2>1. Len(l) \in DOMAIN l
    BY <1>2
  <2>2. l[Len(l)] # Torn
    BY <2>1, TornRecord DEF Whole
  <2> QED  BY <2>2 DEF Extend
<1> QED  BY <1>1, <1>2

LEMMA AckRecords ==
    ASSUME NEW b \in Seq(Item), NEW n \in 0..Len(b)
    PROVE  /\ Acks(b, n) \in Seq(Record) /\ Whole(Acks(b, n))
           /\ Added(Acks(b, n)) = {}
           /\ Acked(Acks(b, n)) = {b[k].id : k \in 1..n}
<1>1. Acks(b, n) \in Seq(Record) /\ DOMAIN Acks(b, n) = 1..n
  BY AcksType DEF Acks
<1>2. \A k \in 1..n : Acks(b, n)[k].op = "ack" /\ Acks(b, n)[k].id = b[k].id
  BY DEF Acks, AckRec
<1> QED  BY <1>1, <1>2 DEF Whole, Added, Acked, Having

\* What an append does to a file without torn lines where the disk is benign.
LEMMA AppendEffect ==
    ASSUME Benign, NEW l \in Seq(Record), Whole(l), NEW r \in Seq(Record), Whole(r),
           NEW o \in AppendOutcomes(l, r)
    PROVE  /\ o.log = l \/ o.log = l \o r
           /\ Whole(o.log)
           /\ wal = "broken" => o.res = "error"
           /\ o.res = "ok" /\ wal # "none" => o.log = l \o r
           /\ o.res = "error" /\ DropOldest => o.log = l
           /\ o.log \in Seq(Record) /\ o.res \in {"ok", "error"}
<1>1. Extend(l, r) = l \o r
  BY ExtendWhole
<1>2. Whole(l \o r) /\ l \o r \in Seq(Record)
  BY DEF Whole
<1>3. \A f \in FailedAppends(l, r) : f = l \/ (~DropOldest /\ f = l \o r)
  BY <1>1, ConstantsAssumption DEF FailedAppends, Benign
<1>4. CASE wal = "none"
  BY <1>4 DEF AppendOutcomes
<1>5. CASE wal = "broken"
  BY <1>5 DEF AppendOutcomes
<1>6. CASE wal # "none" /\ wal # "broken"
  <2>1. \/ o = [log |-> l \o r, res |-> "ok"]
        \/ \E f \in FailedAppends(l, r) : o = [log |-> f, res |-> "error"]
    BY <1>1, <1>6 DEF AppendOutcomes
  <2>2. CASE o = [log |-> l \o r, res |-> "ok"]
    BY <1>2, <1>6, <2>2
  <2>3. ASSUME NEW f \in FailedAppends(l, r), o = [log |-> f, res |-> "error"]
        PROVE  /\ o.log = l \/ (~DropOldest /\ o.log = l \o r)
               /\ o.res = "error"
    <3>1. o.log = f /\ o.res = "error"
      BY <2>3
    <3>2. f = l \/ (~DropOldest /\ f = l \o r)
      BY <1>3
    <3> QED  BY <3>1, <3>2
  <2>4. CASE /\ o.log = l \o r /\ o.res = "ok"
    BY <1>2, <1>6, <2>4
  <2>5. CASE o.log = l /\ o.res = "error"
    BY <1>6, <2>5
  <2>6. CASE ~DropOldest /\ o.log = l \o r /\ o.res = "error"
    BY <1>2, <1>6, <2>6
  <2> QED  BY <2>1, <2>2, <2>3, <2>4, <2>5, <2>6
<1> QED  BY <1>4, <1>5, <1>6

LEMMA AckEffect ==
    ASSUME Benign, NEW l \in Seq(Record), Whole(l), NEW r \in Seq(Record), Whole(r),
           NEW o \in AckOutcomes(l, r)
    PROVE  /\ o.log = l \/ o.log = l \o r
           /\ Whole(o.log)
           /\ o.res = "error" /\ DropOldest => o.log = l
           /\ o.log \in Seq(Record) /\ o.res \in {"ok", "error"}
<1>1. CASE o \in AppendOutcomes(l, r)
  BY <1>1, AppendEffect
<1>2. CASE o = [log |-> l, res |-> "error"]
  BY <1>2
<1> QED  BY <1>1, <1>2 DEF AckOutcomes

\* m is l and records after it, the adds of which are S.
Extends(l, m, S) == \E t \in Seq(Record) : m = l \o t /\ Added(t) = S

\* A crash adds a prefix of the interrupted records and half a line.
LEMMA CutEffect ==
    ASSUME NEW l \in Seq(Record), Whole(l), NEW r \in Seq(Record), Whole(r),
           NEW k \in 0..Len(r)
    PROVE  /\ Cut(l, r, k) \in Seq(Record)
           /\ ~Unreadable(Cut(l, r, k))
           /\ Added(Cut(l, r, k)) = Added(l) \cup Added(SubSeq(r, 1, k))
           /\ Acked(Cut(l, r, k)) = Acked(l) \cup Acked(SubSeq(r, 1, k))
           /\ Extends(l, Cut(l, r, k), Added(SubSeq(r, 1, k)))
<1> DEFINE s == SubSeq(r, 1, k)
<1>1. s \in Seq(Record) /\ Whole(s)
  BY DEF Whole
<1>2. <<Torn>> \in Seq(Record)
  BY RecordTypes
<1> HIDE DEF s
<1>3. Cut(l, r, k) = l \o (s \o <<Torn>>)
  <2>1. Append(s, Torn) = s \o <<Torn>>
    BY <1>1, RecordTypes, AppendIsConcat
  <2>2. Cut(l, r, k) = Extend(l, Append(s, Torn))
    BY DEF Cut, s
  <2> QED  BY <2>1, <2>2, ExtendWhole
<1>4. s \o <<Torn>> \in Seq(Record)
  BY <1>1, <1>2
<1>5. ~Unreadable(l \o (s \o <<Torn>>))
  <2> DEFINE whole == l \o (s \o <<Torn>>)
  <2>1. Len(whole) = Len(l) + Len(s) + 1
    BY <1>1, <1>2
  <2>2. ASSUME NEW j \in DOMAIN whole, j < Len(whole)
        PROVE  whole[j].op \in {"add", "ack"}
    <3>1. CASE j <= Len(l)
      BY <1>4, <2>2, <3>1 DEF Whole
    <3>2. CASE j > Len(l)
      <4>1. j - Len(l) \in DOMAIN s
        BY <1>1, <1>2, <2>1, <2>2, <3>2
      <4>2. whole[j] = s[j - Len(l)]
        BY <1>1, <1>2, <1>4, <2>2, <3>2, <4>1
      <4> QED  BY <1>1, <4>1, <4>2 DEF Whole
    <3> QED  BY <1>4, <2>2, <3>1, <3>2
  <2> QED  BY <2>2 DEF Unreadable
<1>6. /\ Added(l \o (s \o <<Torn>>)) = Added(l) \cup Added(s)
      /\ Acked(l \o (s \o <<Torn>>)) = Acked(l) \cup Acked(s)
      /\ Added(s \o <<Torn>>) = Added(s)
  <2>1. /\ Added(s \o <<Torn>>) = Added(s) \cup Added(<<Torn>>)
        /\ Acked(s \o <<Torn>>) = Acked(s) \cup Acked(<<Torn>>)
    BY <1>1, <1>2, ConcatWal
  <2>2. /\ Added(l \o (s \o <<Torn>>)) = Added(l) \cup Added(s \o <<Torn>>)
        /\ Acked(l \o (s \o <<Torn>>)) = Acked(l) \cup Acked(s \o <<Torn>>)
    BY <1>4, ConcatWal
  <2>3. Added(<<Torn>>) = {} /\ Acked(<<Torn>>) = {}
    BY TornRecord
  <2> QED  BY <2>1, <2>2, <2>3
<1>7. Cut(l, r, k) \in Seq(Record) /\ ~Unreadable(Cut(l, r, k))
      /\ Added(Cut(l, r, k)) = Added(l) \cup Added(s)
      /\ Acked(Cut(l, r, k)) = Acked(l) \cup Acked(s)
  BY <1>3, <1>4, <1>5, <1>6
<1>8. Extends(l, Cut(l, r, k), Added(s))
  BY <1>3, <1>4, <1>6 DEF Extends
<1> QED  BY <1>7, <1>8 DEF s

LEMMA CompactedEffect ==
    ASSUME NEW l \in Seq(Record), NEW c \in Compacted(l)
    PROVE  /\ c \in Seq(Record) /\ Whole(c)
           /\ Added(c) = Pending(l) /\ Acked(c) = {}
<1> DEFINE I == {k \in Having(l, "add") : l[k].id \notin Acked(l)}
<1>1. PICK f \in [1..Cardinality(I) -> I] :
        /\ \A a, b \in DOMAIN f : a < b => f[a] < f[b]
        /\ c = [k \in DOMAIN f |-> l[f[k]]]
  BY DEF Compacted
<1>2. I \subseteq 1..Len(l) /\ IsFiniteSet(I) /\ Cardinality(I) \in Nat
  <2>1. I \subseteq 1..Len(l)
    BY DEF Having
  <2>2. IsFiniteSet(1..Len(l))
    BY FS_Interval
  <2> QED  BY <2>1, <2>2, FS_Subset, FS_CardinalityType
<1>3. c \in Seq(Record) /\ \A k \in DOMAIN c : c[k].op = "add"
  BY CompactedRecords DEF Having
<1>4. \A i \in I : \E k \in DOMAIN f : f[k] = i
  <2> HIDE DEF I
  <2>1. f \in Injection(1..Cardinality(I), I)
    <3>1. \A a, b \in 1..Cardinality(I) : a < b \/ a = b \/ b < a
      BY <1>2
    <3>2. \A a \in 1..Cardinality(I) : f[a] \in Nat
      <4>1. \A a \in 1..Cardinality(I) : f[a] \in I
        OBVIOUS
      <4>2. \A i \in I : i \in 1..Len(l)
        BY <1>2
      <4>3. \A i \in I : i \in Nat
        BY <4>2
      <4> QED  BY <4>1, <4>3
    <3>3. \A a, b \in DOMAIN f : f[a] = f[b] => a = b
      BY <1>1, <3>1, <3>2
    <3> QED  BY <3>3 DEF Injection, IsInjective
  <2>2. Cardinality(1..Cardinality(I)) = Cardinality(I)
    BY <1>2, FS_Interval
  <2>3. f \in Surjection(1..Cardinality(I), I)
    BY <1>2, <2>1, <2>2, FS_Injection
  <2> QED  BY <2>3 DEF Surjection
<1>5. Acked(c) = {}
  BY <1>3 DEF Acked, Having
<1>6. Added(c) \subseteq Pending(l)
  <2> SUFFICES ASSUME NEW k \in DOMAIN c PROVE ItemOf(c[k]) \in Pending(l)
    BY DEF Added, Having
  <2>1. PICK j \in Having(l, "add") : c[k] = l[j] /\ l[j].id \notin Acked(l)
    BY CompactedRecords
  <2>2. ItemOf(l[j]) \in Added(l) /\ ItemOf(l[j]).id = l[j].id
    BY DEF Added, ItemOf
  <2> QED  BY <2>1, <2>2 DEF Pending
<1>7. Pending(l) \subseteq Added(c)
  <2> SUFFICES ASSUME NEW i \in I PROVE ItemOf(l[i]) \in Added(c)
    <3>1. \A j \in Having(l, "add") : ItemOf(l[j]).id = l[j].id
      BY DEF ItemOf
    <3> QED  BY <3>1 DEF Pending, Added
  <2>1. PICK k \in DOMAIN f : f[k] = i
    BY <1>4
  <2>2. k \in DOMAIN c /\ c[k] = l[i]
    BY <1>1, <2>1
  <2> QED  BY <1>3, <2>2 DEF Added, Having
<1> QED  BY <1>3, <1>5, <1>6, <1>7 DEF Whole

(***************************************************************************)
(* What a step must do to the file and to memory to keep IdInv, LoggedInv  *)
(* and AckJustified; the lemmas on the actions show that theirs do.        *)
(***************************************************************************)

LEMMA HeldCases ==
    ASSUME NEW h
    PROVE  h \in Held <=> \/ \E k \in DOMAIN queue : h = queue[k]
                          \/ \E f \in Flusher : \E k \in DOMAIN batch[f] : h = batch[f][k]
                          \/ turn = "ack" /\ h = Newcomer
<1>1. h \in Queued <=> \E k \in DOMAIN queue : h = queue[k]
  BY DEF Queued
<1>2. \A f : h \in Picked(f) <=> \E k \in DOMAIN batch[f] : h = batch[f][k]
  BY DEF Picked
<1>3. h \in UNION {Picked(f) : f \in Flusher} <=> \E f \in Flusher : h \in Picked(f)
  OBVIOUS
<1> QED  BY <1>1, <1>2, <1>3 DEF Held

LEMMA HeldCasesNext ==
    ASSUME NEW h
    PROVE  h \in Held' <=> \/ \E k \in DOMAIN queue' : h = queue'[k]
                           \/ \E f \in Flusher : \E k \in DOMAIN batch'[f] : h = batch'[f][k]
                           \/ turn' = "ack" /\ h = Newcomer'
<1>1. h \in Queued' <=> \E k \in DOMAIN queue' : h = queue'[k]
  BY DEF Queued
<1>2. \A f \in Flusher : h \in Picked(f)' <=> \E k \in DOMAIN batch'[f] : h = batch'[f][k]
  BY DEF Picked
<1>3. h \in (UNION {Picked(f) : f \in Flusher})' <=> \E f \in Flusher : h \in Picked(f)'
  OBVIOUS
<1> QED  BY <1>1, <1>2, <1>3 DEF Held

LEMMA ItemTypes ==
    ASSUME TypeOK
    PROVE  /\ Held \subseteq Item
           /\ Added(log) \subseteq Item
           /\ Acked(log) \subseteq Nat
<1>1. \A k \in DOMAIN log : log[k] \in Record
  BY DEF TypeOK, DataTypes
<1>2. Added(log) \subseteq Item /\ Acked(log) \subseteq Nat
  BY <1>1 DEF Added, Acked, Having, ItemOf, Item, Record
<1>3. \A k \in DOMAIN queue : queue[k] \in Item
  BY DEF TypeOK, DataTypes
<1>4. \A f \in Flusher : \A k \in DOMAIN batch[f] : batch[f][k] \in Item
  BY DEF TypeOK, FlusherTypes
<1>5. turn = "ack" => Newcomer \in Item
  BY ConstantsAssumption DEF TypeOK, DataTypes, Newcomer, InHand, Item, Payload
<1>6. ASSUME NEW h \in Held PROVE h \in Item
  BY <1>3, <1>4, <1>5, <1>6, HeldCases
<1> QED  BY <1>2, <1>6

LEMMA FileStep ==
    ASSUME TypeOK, DurableInv,
           NEW N \in {{}, {NewItem}}, N # {} => Serving /\ todo > 0,
           Pending(log) \subseteq Added(log'),
           Added(log') \subseteq Added(log) \cup N,
           \A i \in Acked(log') : i \in Acked(log)
                \/ \E b \in Held : b.id = i /\ Justified(b.payload)',
           \A p \in Payload : topic[p] > 0 => topic'[p] > 0,
           dropped \subseteq dropped',
           \A p \in Payload : outcome[p] = "rejected" => outcome'[p] = "rejected",
           Held' \subseteq Held \cup Added(log) \cup N,
           Serving' => \A i \in Ids(log) \cup {a.id : a \in Held \cup N} : i <= nextID',
           \A p \in Payload : Taken(p)' => \/ Taken(p) \/ topic'[p] > 0 \/ p \in dropped'
                                            \/ \E a \in Added(log') : a.payload = p
    PROVE  IdInv' /\ LoggedInv' /\ AckJustified'
<1>1. \A p \in Payload : Justified(p) => Justified(p)'
  BY DEF Justified
<1>2. Held \subseteq Item /\ Added(log) \subseteq Item /\ Acked(log) \subseteq Nat
      /\ N \subseteq Item
  BY ItemTypes, NewItemType
<1>3. \A n \in N : \A i \in Ids(log) \cup {a.id : a \in Held} : n.id # i
  <2>1. \A n \in N : n.id = nextID + 1
    BY DEF NewItem
  <2>2. N # {} => \A i \in Ids(log) \cup {a.id : a \in Held} : i <= nextID
    BY DEF DurableInv, IdInv
  <2>3. \A i \in Ids(log) \cup {a.id : a \in Held} : i \in Nat
    BY <1>2 DEF Ids, Item
  <2>4. nextID \in Nat
    BY DEF TypeOK, DataTypes
  <2> QED  BY <2>1, <2>2, <2>3, <2>4
<1>4. \A a \in Held \cup Added(log), b \in Added(log) : a.id = b.id => a = b
  BY DEF DurableInv, IdInv
<1>5. \A n \in N : n.id \notin Acked(log) /\ \A a \in Held \cup Added(log) : a.id # n.id
  BY <1>3 DEF Ids
<1>6. \A a, b \in N : a = b
  OBVIOUS
<1>7. AckJustified'
  <2> SUFFICES ASSUME NEW item \in Added(log'), item.id \in Acked(log')
               PROVE  Justified(item.payload)'
    BY DEF AckJustified
  <2>1. CASE item \in N
    BY <1>5, <2>1
  <2>2. CASE item \in Added(log) /\ item.id \in Acked(log)
    <3>1. Justified(item.payload) /\ item.payload \in Payload
      BY <1>2, <2>2 DEF DurableInv, AckJustified, Item
    <3> QED  BY <1>1, <3>1
  <2>3. CASE item \in Added(log) /\ item.id \notin Acked(log)
    <3>1. PICK b \in Held : b.id = item.id /\ Justified(b.payload)'
      BY <2>3
    <3>2. b = item
      BY <1>4, <2>3, <3>1
    <3> QED  BY <3>1, <3>2
  <2> QED  BY <2>1, <2>2, <2>3
<1>8. IdInv'
  <2>1. \A a \in Held' \cup Added(log'), b \in Added(log') : a.id = b.id => a = b
    BY <1>4, <1>5, <1>6
  <2>2. ASSUME Serving', NEW i \in Ids(log') \cup {a.id : a \in Held'}
        PROVE  i <= nextID'
    <3>1. Ids(log') \cup {a.id : a \in Held'} \subseteq Ids(log) \cup {a.id : a \in Held \cup N}
      BY DEF Ids
    <3> QED  BY <2>2, <3>1
  <2> QED  BY <2>1, <2>2 DEF IdInv
<1>9. LoggedInv'
  <2> SUFFICES ASSUME NEW p \in Payload, Taken(p)'
               PROVE  topic'[p] > 0 \/ p \in dropped' \/ \E a \in Added(log') : a.payload = p
    BY DEF LoggedInv
  <2>1. CASE ~Taken(p)
    BY <2>1
  <2>2. CASE topic[p] > 0 \/ p \in dropped
    BY <2>2
  <2>3. CASE Taken(p) /\ ~(topic[p] > 0 \/ p \in dropped)
    <3>1. PICK a \in Added(log) : a.payload = p
      BY <2>3 DEF DurableInv, LoggedInv
    <3>2. ~Justified(p)
      BY <2>3 DEF Taken, Justified
    <3>3. a \in Pending(log)
      BY <3>1, <3>2 DEF DurableInv, AckJustified, Pending
    <3> QED  BY <3>1, <3>3
  <2> QED  BY <2>1, <2>2, <2>3
<1> QED  BY <1>7, <1>8, <1>9

\* A step that leaves the file alone and takes nothing new.
LEMMA QuietStep ==
    ASSUME TypeOK, DurableInv, log' = log, Held' \subseteq Held, nextID' = nextID,
           Serving' => Serving,
           \A p \in Payload : topic[p] > 0 => topic'[p] > 0,
           dropped \subseteq dropped',
           \A p \in Payload : outcome[p] = "rejected" => outcome'[p] = "rejected",
           \A p \in Payload : Taken(p)' => Taken(p) \/ topic'[p] > 0
    PROVE  IdInv' /\ LoggedInv' /\ AckJustified'
<1>1. Pending(log) \subseteq Added(log')
  BY DEF Pending
<1> DEFINE N == {}
<1>2. Serving' => \A i \in Ids(log) \cup {a.id : a \in Held \cup N} : i <= nextID'
  BY DEF DurableInv, IdInv
<1>3. Added(log') \subseteq Added(log) \cup N
  OBVIOUS
<1>4. \A i \in Acked(log') : i \in Acked(log)
          \/ \E b \in Held : b.id = i /\ Justified(b.payload)'
  OBVIOUS
<1>5. N \in {{}, {NewItem}} /\ ~(N # {}) /\ Held' \subseteq Held \cup Added(log) \cup N
  OBVIOUS
<1>6. \A p \in Payload : Taken(p)' => \/ Taken(p) \/ topic'[p] > 0 \/ p \in dropped'
                                        \/ \E a \in Added(log') : a.payload = p
  OBVIOUS
<1> HIDE DEF N
<1> QED  BY <1>1, <1>2, <1>3, <1>4, <1>5, <1>6, FileStep

LEMMA StoredGrows ==
    ASSUME TypeOK, NEW S, topic' = Stored(S)
    PROVE  /\ \A p \in Payload : topic[p] > 0 => topic'[p] > 0
           /\ \A p \in Payload : p \in S => topic'[p] > 0
<1>1. ASSUME NEW p \in Payload
      PROVE  /\ topic[p] \in 0..2
             /\ topic'[p] = IF p \in S /\ topic[p] < 2 THEN topic[p] + 1 ELSE topic[p]
  BY DEF TypeOK, DataTypes, Stored
<1>2. ASSUME NEW p \in Payload
      PROVE  (topic[p] > 0 => topic'[p] > 0) /\ (p \in S => topic'[p] > 0)
  BY <1>1
<1> QED  BY <1>2

LEMMA ToldChanges ==
    ASSUME TypeOK, NEW new, outcome' = Told("writing", new)
    PROVE  \A p \in Payload : outcome'[p] = IF outcome[p] = "writing" THEN new ELSE outcome[p]
BY DEF Told

(***************************************************************************)
(* The process starts, stops and crashes.                                  *)
(***************************************************************************)

LEMMA ResetStep ==
    ASSUME TypeOK, DurableInv, Reset, ~Unreadable(log'), Added(log') = Added(log),
           \A i \in Acked(log') : i \in Acked(log)
                \/ \E b \in Held : b.id = i /\ topic[b.payload] > 0
    PROVE  DurableInv'
<1>1. Held' = {}
  <2>1. \A h : h \notin Held'
    BY HeldCasesNext DEF Reset
  <2> QED  BY <2>1
<1>2. ~Serving'
  BY DEF Reset, Serving
<1>3. \A p \in Payload : outcome'[p] = IF outcome[p] = "writing" THEN "unknown" ELSE outcome[p]
  BY ToldChanges DEF Reset
<1>4. \A p \in Payload : Taken(p)' => Taken(p)
  BY <1>3 DEF Taken
<1>5. IdInv' /\ LoggedInv' /\ AckJustified'
  <2>1. Pending(log) \subseteq Added(log')
    BY DEF Pending
  <2>2. \A i \in Acked(log') : i \in Acked(log) \/ \E b \in Held : b.id = i /\ Justified(b.payload)'
    BY DEF Reset, Justified
  <2>3. \A p \in Payload : outcome[p] = "rejected" => outcome'[p] = "rejected"
    BY <1>3
  <2> QED  BY <1>1, <1>2, <1>4, <2>1, <2>2, <2>3, FileStep DEF Reset
<1>6. ControlInv'
  BY <1>1, <1>2 DEF ControlInv, Reset
<1>7. StoredInv'
  BY DEF StoredInv, Reset
<1>8. RequestInv'
  <2>1. arrived' = arrived /\ todo' = 0
    BY DEF Reset
  <2>2. \A p \in Payload : outcome'[p] # "none" => p <= arrived'
    BY <1>3, <2>1 DEF DurableInv, RequestInv
  <2>3. \A p \in Payload : ~(arrived' - todo' < p /\ p <= arrived')
    BY <2>1, ConstantsAssumption DEF TypeOK, DataTypes, Payload
  <2> QED  BY <2>2, <2>3 DEF RequestInv
<1> QED  BY <1>5, <1>6, <1>7, <1>8 DEF DurableInv

\* A crash adds nothing to the file but acks of items that are in Kafka.
LEMMA CrashFile ==
    ASSUME TypeOK, DurableInv, Crash
    PROVE  /\ ~Unreadable(log') /\ Added(log') = Added(log) /\ Acked(log) \subseteq Acked(log')
           /\ log' = log \/ \E t \in Seq(Record) : log' = log \o t /\ Added(t) = {}
           /\ \A i \in Acked(log') : i \in Acked(log)
                 \/ \E b \in Held : b.id = i /\ topic[b.payload] > 0
<1>1. CASE log' = log
  BY <1>1 DEF DurableInv, ControlInv
<1>2. CASE wal = "open" /\ \E recs \in AppendsUnderWay : \E k \in 1..Len(recs) :
             log' = Cut(log, recs, k - 1)
  <2>1. Serving /\ Whole(log) /\ log \in Seq(Record)
    BY <1>2 DEF DurableInv, ControlInv, TypeOK, DataTypes
  <2>2. PICK recs \in AppendsUnderWay : \E k \in 1..Len(recs) : log' = Cut(log, recs, k - 1)
    BY <1>2
  <2>3. CASE todo > 0
    <3>1. PICK r \in Record : recs = <<r>> /\ Whole(<<r>>)
      <4>1. CASE turn = "ack"
        <5>1. Head(queue) \in Item
          BY <4>1 DEF TypeOK, DataTypes
        <5> QED  BY <2>2, <2>3, <4>1, <5>1, RecordTypes, SingleRecords DEF AppendsUnderWay
      <4>2. CASE turn # "ack"
        BY <2>2, <2>3, <4>2, NewItemType, RecordTypes, SingleRecords DEF AppendsUnderWay
      <4> QED  BY <4>1, <4>2
    <3>2. log' = Cut(log, <<r>>, 0)
      BY <2>2, <3>1
    <3>3. <<r>> \in Seq(Record) /\ 0 \in 0..Len(<<r>>) /\ SubSeq(<<r>>, 1, 0) = <<>>
      BY <3>1
    <3>4. Added(<<>>) = {} /\ Acked(<<>>) = {}
      BY DEF Added, Acked, Having
    <3>5. /\ ~Unreadable(Cut(log, <<r>>, 0))
          /\ Extends(log, Cut(log, <<r>>, 0), Added(SubSeq(<<r>>, 1, 0)))
          /\ Added(Cut(log, <<r>>, 0)) = Added(log) \cup Added(SubSeq(<<r>>, 1, 0))
          /\ Acked(Cut(log, <<r>>, 0)) = Acked(log) \cup Acked(SubSeq(<<r>>, 1, 0))
      BY <2>1, <3>1, <3>3, CutEffect
    <3>6. Added(log') = Added(log) /\ Acked(log') = Acked(log) /\ ~Unreadable(log')
      BY <3>2, <3>3, <3>4, <3>5
    <3>7. Extends(log, log', {})
      BY <3>2, <3>3, <3>4, <3>5
    <3>8. \E t \in Seq(Record) : log' = log \o t /\ Added(t) = {}
      BY <3>7 DEF Extends
    <3> QED  BY <3>6, <3>8
  <2>4. CASE ~(todo > 0)
    <3>1. PICK x \in Flusher \X (1..BatchSize) :
            recs = Acks(batch[x[1]], x[2]) /\ pc[x[1]] = "finalize" /\ Popped(x[1], x[2])
      BY <2>2, <2>4 DEF AppendsUnderWay
    <3> DEFINE f == x[1]
               n == x[2]
               b == batch[f]
    <3>2. f \in Flusher /\ n \in 0..Len(b) /\ b \in Seq(Item)
      BY <3>1, ConstantsAssumption DEF Popped, Matches, TypeOK, FlusherTypes
    <3>3. recs = Acks(b, n) /\ pc[f] = "finalize"
      BY <3>1
    <3> HIDE DEF b, f, n
    <3>4. recs \in Seq(Record) /\ Whole(recs) /\ Len(recs) = n
      BY <3>2, <3>3, AckRecords, AcksType
    <3>5. PICK k \in 1..n : log' = Cut(log, recs, k - 1)
      BY <2>2, <3>4
    <3>6. SubSeq(recs, 1, k - 1) = Acks(b, k - 1) /\ k - 1 \in 0..Len(b)
      BY <3>2, <3>3, <3>5 DEF Acks
    <3>7. Added(Acks(b, k - 1)) = {} /\ Acked(Acks(b, k - 1)) = {b[j].id : j \in 1..k-1}
      BY <3>2, <3>6, AckRecords
    <3>8. /\ ~Unreadable(log')
          /\ Extends(log, log', Added(SubSeq(recs, 1, k - 1)))
          /\ Added(log') = Added(log) \cup Added(SubSeq(recs, 1, k - 1))
          /\ Acked(log') = Acked(log) \cup Acked(SubSeq(recs, 1, k - 1))
      <4>1. k - 1 \in 0..Len(recs)
        BY <3>2, <3>4
      <4> QED  BY <2>1, <3>4, <3>5, <4>1, CutEffect
    <3>9. \A j \in 1..k-1 : b[j] \in Held /\ topic[b[j].payload] > 0
      <4>1. \A j \in 1..k-1 : j \in DOMAIN b
        BY <3>2, <3>5
      <4> QED  BY <3>2, <3>3, <4>1, HeldCases DEF b, DurableInv, StoredInv
    <3>10. ~Unreadable(log') /\ Added(log') = Added(log) /\ Acked(log) \subseteq Acked(log')
      BY <3>6, <3>7, <3>8
    <3>11. Extends(log, log', {})
      BY <3>6, <3>7, <3>8
    <3>12. \E t \in Seq(Record) : log' = log \o t /\ Added(t) = {}
      BY <3>11 DEF Extends
    <3>13. \A i \in Acked(log') : i \in Acked(log)
              \/ \E h \in Held : h.id = i /\ topic[h.payload] > 0
      <4>1. Acked(log') = Acked(log) \cup {b[j].id : j \in 1..k-1}
        BY <3>6, <3>7, <3>8
      <4> QED  BY <3>9, <4>1
    <3> QED  BY <3>10, <3>12, <3>13
  <2> QED  BY <2>3, <2>4
<1> QED  BY <1>1, <1>2 DEF Crash

LEMMA DurableCrash ==
    ASSUME TypeOK, DurableInv, Crash
    PROVE  DurableInv'
BY CrashFile, ResetStep DEF Crash

LEMMA SameRequest ==
    ASSUME DurableInv, UNCHANGED request
    PROVE  RequestInv' /\ \A p \in Payload : Taken(p)' = Taken(p)
BY DEF request, DurableInv, RequestInv, Taken, InHand

\* A step of the process's control only.
LEMMA CalmStep ==
    ASSUME TypeOK, DurableInv, UNCHANGED <<queue, nextID, log, batch, request, dropped, topic>>,
           Serving' => Serving
    PROVE  Held' = Held /\ IdInv' /\ LoggedInv' /\ AckJustified' /\ RequestInv'
<1>1. Held' = Held
  <2>1. Newcomer' = Newcomer
    BY DEF Newcomer, InHand, request
  <2> QED  BY <2>1 DEF Held, Queued, Picked, request
<1> QED  BY <1>1, SameRequest, QuietStep DEF request

LEMMA NotServing ==
    ASSUME TypeOK, DurableInv, ~Serving
    PROVE  /\ Held = {} /\ wal = "none" /\ todo = 0 /\ turn = "add"
           /\ queue = <<>> /\ \A f \in Flusher : batch[f] = <<>>
<1>1. Held = {} /\ wal = "none" /\ todo = 0
  BY DEF DurableInv, ControlInv
<1>2. turn = "add"
  BY <1>1 DEF TypeOK, DataTypes
<1>3. DOMAIN queue = {} /\ \A f \in Flusher : DOMAIN batch[f] = {}
  BY <1>1, HeldCases
<1>4. queue = <<>>
  BY <1>3 DEF TypeOK, DataTypes
<1>5. ASSUME NEW f \in Flusher PROVE batch[f] = <<>>
  <2>1. batch[f] \in Seq(Item)
    BY DEF TypeOK, FlusherTypes
  <2>2. DOMAIN batch[f] = {}
    BY <1>3
  <2>3. \A b \in Seq(Item) : b # <<>> => 1 \in DOMAIN b
    OBVIOUS
  <2> QED  BY <2>1, <2>2, <2>3
<1> QED  BY <1>1, <1>2, <1>4, <1>5

LEMMA DurableInit ==
    ASSUME Benign, TypeOK, DurableInv, InitQueue
    PROVE  DurableInv'
<1>1. FileAtOpen = log
  BY DEF Benign, FileAtOpen
<1>2. /\ Held = {} /\ wal = "none" /\ todo = 0 /\ turn = "add"
      /\ queue = <<>> /\ \A f \in Flusher : batch[f] = <<>>
  BY NotServing DEF InitQueue, Renamed, Serving
<1>3. log \in Seq(Record)
  BY DEF TypeOK, DataTypes
<1>4. /\ log' \in Compacted(log)
      /\ queue' = queue \o [k \in DOMAIN log' |-> ItemOf(log'[k])]
  BY <1>1 DEF InitQueue, Renamed
<1>5. log' \in Seq(Record) /\ Whole(log') /\ Added(log') = Pending(log) /\ Acked(log') = {}
  BY <1>3, <1>4, CompactedEffect
<1>6. Held' \subseteq Added(log)
  <2>1. ASSUME NEW k \in DOMAIN queue' PROVE queue'[k] \in Added(log)
    <3>1. k \in DOMAIN log' /\ queue'[k] = ItemOf(log'[k])
      BY <1>2, <1>4, <1>5
    <3>2. log'[k].op = "add"
      BY <1>3, <1>4, <3>1, CompactedRecords DEF Having
    <3>3. queue'[k] \in Added(log')
      BY <3>1, <3>2 DEF Added, Having
    <3> QED  BY <1>5, <3>3 DEF Pending
  <2>2. \A f \in Flusher : batch'[f] = <<>>
    BY <1>2 DEF InitQueue, Renamed
  <2>3. turn' = "add"
    BY <1>2 DEF InitQueue, Renamed, request
  <2> QED  BY <2>1, <2>2, <2>3, HeldCasesNext
<1>7. \A i \in Ids(log) : i <= nextID'
  BY <1>1 DEF InitQueue, Renamed
<1>8. \A p \in Payload : Taken(p)' = Taken(p) /\ topic'[p] = topic[p] /\ outcome'[p] = outcome[p]
  BY SameRequest DEF InitQueue, Renamed, request
<1>9. IdInv' /\ LoggedInv' /\ AckJustified'
  <2> DEFINE N == {}
  <2>1. Serving' => \A i \in Ids(log) \cup {a.id : a \in Held \cup N} : i <= nextID'
    BY <1>2, <1>7
  <2>2. N \in {{}, {NewItem}} /\ ~(N # {}) /\ Held' \subseteq Held \cup Added(log) \cup N
    BY <1>6
  <2>3. Added(log') \subseteq Added(log) \cup N
    BY <1>5 DEF Pending
  <2>4. \A i \in Acked(log') : i \in Acked(log)
          \/ \E b \in Held : b.id = i /\ Justified(b.payload)'
    BY <1>5
  <2>5. dropped' = dropped
    BY DEF InitQueue, Renamed
  <2> HIDE DEF N
  <2> QED  BY <1>5, <1>8, <2>1, <2>2, <2>3, <2>4, <2>5, FileStep
<1>10. ControlInv'
  <2>1. phase' = "up" /\ wal' = "open" /\ turn' = "add" /\ todo' = 0
    BY <1>2 DEF InitQueue, Renamed, request
  <2>2. ~Unreadable(log')
    BY <1>5 DEF Unreadable, Whole
  <2> QED  BY <1>5, <2>1, <2>2 DEF ControlInv, Serving
<1>11. StoredInv'
  <2>1. batch' = batch
    BY DEF InitQueue, Renamed
  <2> QED  BY <1>2, <2>1 DEF StoredInv
<1>12. RequestInv'
  BY SameRequest DEF InitQueue, Renamed
<1> QED  BY <1>9, <1>10, <1>11, <1>12 DEF DurableInv

LEMMA DurableLifecycle ==
    ASSUME Benign, TypeOK, DurableInv, Lifecycle
    PROVE  DurableInv'
<1>1. CASE Start
  <2>1. ~Serving /\ ~Serving'
    BY <1>1 DEF Start, Serving
  <2>2. Held' = Held /\ IdInv' /\ LoggedInv' /\ AckJustified' /\ RequestInv'
    BY <1>1, <2>1, CalmStep DEF Start
  <2>3. ControlInv' /\ StoredInv'
    BY <1>1, <2>1, <2>2 DEF Start, request, DurableInv, ControlInv, StoredInv
  <2> QED  BY <2>2, <2>3 DEF DurableInv
<1>2. CASE InitFails
  BY <1>2 DEF InitFails, FileAtOpen, Benign, DurableInv, ControlInv
<1>3. CASE BeginShutdown
  <2>1. Serving /\ Serving' /\ phase' = "closing"
    BY <1>3 DEF BeginShutdown, Serving
  <2>2. Held' = Held /\ IdInv' /\ LoggedInv' /\ AckJustified' /\ RequestInv'
    BY <1>3, <2>1, CalmStep DEF BeginShutdown
  <2>3. todo' = 0 /\ turn' = turn /\ log' = log
    BY <1>3 DEF BeginShutdown, MuFree, request
  <2>4. ControlInv'
    BY <2>1, <2>3 DEF DurableInv, ControlInv
  <2>5. StoredInv'
    <3>1. PICK next \in {"pick", "done"} : pc' = [pc EXCEPT !["shutdown"] = next]
      BY <1>3 DEF BeginShutdown
    <3>2. \A f \in Flusher : pc'[f] = "finalize" => pc[f] = "finalize"
      BY <3>1 DEF TypeOK, FlusherTypes
    <3> QED  BY <1>3, <3>2 DEF BeginShutdown, DurableInv, StoredInv
  <2> QED  BY <2>2, <2>4, <2>5 DEF DurableInv
<1>4. CASE CloseWAL
  <2>1. Serving /\ Serving' /\ phase' = "closed" /\ phase = "closing"
    BY <1>4 DEF CloseWAL, Serving
  <2>2. Held' = Held /\ IdInv' /\ LoggedInv' /\ AckJustified' /\ RequestInv'
    BY <1>4, <2>1, CalmStep DEF CloseWAL
  <2>3. todo' = todo /\ turn' = turn /\ log' = log
    BY <1>4 DEF CloseWAL, request
  <2>4. ControlInv'
    BY <2>1, <2>3 DEF DurableInv, ControlInv
  <2>5. StoredInv'
    BY <1>4 DEF CloseWAL, DurableInv, StoredInv
  <2> QED  BY <2>2, <2>4, <2>5 DEF DurableInv
<1>5. CASE Exit
  BY <1>5, ResetStep DEF Exit, DurableInv, ControlInv
<1> QED  BY <1>1, <1>2, <1>3, <1>4, <1>5, DurableInit, DurableCrash DEF Lifecycle

(***************************************************************************)
(* Requests arrive and are queued.                                         *)
(***************************************************************************)

LEMMA DurableRequest ==
    ASSUME Benign, TypeOK, TypeOK', DurableInv, Request
    PROVE  DurableInv'
<1>1. PICK n \in 1..MaxRequest : Refuse(n) \/ Admit(n) \/ DirectWrite(n)
  BY DEF Request
<1>2. phase = "up" /\ todo = 0 /\ turn = "add" /\ arrived' = arrived + n
  BY <1>1 DEF Refuse, Admit, DirectWrite, Arrives, Benign, MuFree, TypeOK, DataTypes
<1>3. /\ UNCHANGED <<queue, nextID, log, batch, turn, dropped, phase, wal, pc>>
      /\ todo' \in {0, n}
      /\ \E S : topic' = Stored(S)
  BY <1>1, <1>2 DEF Refuse, Admit, DirectWrite, TriedBefore, MuFree
<1>4. /\ \A p \in Payload : p \in New(n) <=> arrived < p /\ p <= arrived + n
      /\ arrived \in Nat /\ n \in Nat /\ Payload \subseteq Nat
      /\ outcome \in [Payload -> {"none", "writing", "accepted", "rejected", "unknown"}]
  BY ConstantsAssumption DEF New, Payload, TypeOK, DataTypes
<1>5. \A p \in Payload : p \notin New(n) => outcome'[p] = outcome[p]
  BY <1>1, <1>4 DEF Refuse, Admit, DirectWrite
<1>6. \A p \in Payload : p \in New(n) => outcome[p] = "none"
  BY <1>4 DEF DurableInv, RequestInv
<1>7. \A p \in Payload : p \in New(n) /\ Taken(p)' => topic'[p] > 0
  <2>1. CASE DirectWrite(n)
    BY <2>1, StoredGrows DEF DirectWrite
  <2>2. CASE Refuse(n)
    BY <2>2, <1>4 DEF Refuse, Taken
  <2>3. CASE Admit(n)
    <3>1. InHand' = arrived + 1 /\ turn' = "add"
      BY <1>2, <1>3, <1>4, <2>3 DEF Admit, InHand
    <3>2. \A p \in Payload : p \in New(n) => outcome'[p] = "writing" /\ ~(p < InHand')
      BY <1>4, <2>3, <3>1 DEF Admit
    <3> QED  BY <3>1, <3>2 DEF Taken
  <2> QED  BY <1>1, <2>1, <2>2, <2>3
<1>8. \A p \in Payload : Taken(p)' => Taken(p) \/ topic'[p] > 0
  <2> SUFFICES ASSUME NEW p \in Payload, p \notin New(n), Taken(p)'
               PROVE  Taken(p)
    BY <1>7
  <2>1. CASE outcome[p] = "accepted"
    BY <2>1 DEF Taken
  <2>2. CASE outcome[p] = "writing"
    <3>1. p <= arrived
      BY <2>2 DEF DurableInv, RequestInv
    <3>2. p < InHand
      BY <1>2, <1>4, <3>1 DEF InHand
    <3> QED  BY <2>2, <3>2 DEF Taken
  <2> QED  BY <1>5, <2>1, <2>2 DEF Taken
<1>9. Held' = Held
  BY <1>2, <1>3 DEF Held, Queued, Picked
<1>10. IdInv' /\ LoggedInv' /\ AckJustified'
  <2>1. \A p \in Payload : topic[p] > 0 => topic'[p] > 0
    BY <1>3, StoredGrows
  <2>2. \A p \in Payload : outcome[p] = "rejected" => outcome'[p] = "rejected"
    BY <1>5, <1>6
  <2>3. Serving' => Serving
    BY <1>3 DEF Serving
  <2> QED  BY <1>3, <1>8, <1>9, <2>1, <2>2, <2>3, QuietStep
<1>11. ControlInv'
  BY <1>2, <1>3, <1>9 DEF DurableInv, ControlInv, Serving
<1>12. StoredInv'
  <2>1. \A f \in Flusher : pc'[f] = "finalize" => \A k \in DOMAIN batch'[f] :
          topic[batch[f][k].payload] > 0 /\ batch[f][k].payload \in Payload /\ batch'[f] = batch[f]
    BY <1>3, HeldCases, ItemTypes DEF DurableInv, StoredInv, Item
  <2> QED  BY <1>3, <2>1, StoredGrows DEF StoredInv
<1>13. RequestInv'
  <2>1. \A p \in Payload : outcome'[p] # "none" => p <= arrived'
    BY <1>2, <1>4, <1>5 DEF DurableInv, RequestInv
  <2>2. ASSUME NEW p \in Payload, arrived' - todo' < p, p <= arrived'
        PROVE  outcome'[p] = "writing"
    <3>1. todo' = n /\ p \in New(n)
      <4>1. p \in Nat /\ arrived' = arrived + n /\ arrived \in Nat /\ n \in Nat
        BY <1>2, <1>4
      <4>2. todo' # 0
        BY <2>2, <4>1
      <4>3. todo' = n
        BY <1>3, <4>2
      <4> QED  BY <1>4, <2>2, <4>1, <4>3
    <3>2. Admit(n)
      BY <1>1, <1>2, <3>1 DEF Refuse, DirectWrite
    <3> QED  BY <1>4, <3>1, <3>2 DEF Admit
  <2> QED  BY <2>1, <2>2 DEF RequestInv
<1> QED  BY <1>10, <1>11, <1>12, <1>13 DEF DurableInv

LEMMA HandlerState ==
    ASSUME TypeOK, DurableInv, todo > 0
    PROVE  /\ phase = "up" /\ Serving /\ wal # "none" /\ Whole(log) /\ log \in Seq(Record)
           /\ InHand \in Payload /\ outcome[InHand] = "writing" /\ NewItem \in Item
           /\ nextID \in Nat
<1>1. phase = "up" /\ Serving /\ wal # "none" /\ Whole(log) /\ log \in Seq(Record) /\ nextID \in Nat
  BY DEF DurableInv, ControlInv, Serving, TypeOK, DataTypes
<1>2. InHand \in Payload /\ arrived - todo < InHand /\ InHand <= arrived
  BY ConstantsAssumption DEF InHand, Payload, TypeOK, DataTypes
<1>3. outcome[InHand] = "writing"
  BY <1>2 DEF DurableInv, RequestInv
<1> QED  BY <1>1, <1>2, <1>3, NewItemType

LEMMA HandlerControl ==
    ASSUME TypeOK, DurableInv, todo > 0, UNCHANGED <<phase, wal, pc, batch, topic>>,
           Whole(log'), turn' = "ack" => DropOldest
    PROVE  ControlInv' /\ StoredInv'
<1>1. phase' = "up" /\ wal' # "none" /\ Serving'
  BY HandlerState DEF Serving
<1>2. ~Unreadable(log')
  BY DEF Unreadable, Whole
<1> QED  BY <1>1, <1>2 DEF DurableInv, ControlInv, StoredInv

\* The request moves on to its next payload.
LEMMA QueuedStep ==
    ASSUME TypeOK, DurableInv, todo > 0, PayloadQueued
    PROVE  /\ RequestInv' /\ turn' = "add"
           /\ \A p \in Payload : Taken(p)' => Taken(p) \/ p = InHand
           /\ \A p \in Payload : outcome[p] = "rejected" => outcome'[p] = "rejected"
<1>1. /\ arrived \in Nat /\ todo \in Nat /\ Payload \subseteq Nat
      /\ todo' = todo - 1 /\ arrived' = arrived /\ turn' = "add"
  BY ConstantsAssumption DEF TypeOK, DataTypes, Payload, PayloadQueued
<1>2. /\ \A p \in Payload : outcome[p] # "none" => p <= arrived
      /\ \A p \in Payload : arrived - todo < p /\ p <= arrived => outcome[p] = "writing"
  BY DEF DurableInv, RequestInv
<1>3. CASE todo = 1
  <2>1. \A p \in Payload : outcome'[p] = IF outcome[p] = "writing" THEN "accepted" ELSE outcome[p]
    BY <1>3, ToldChanges DEF PayloadQueued
  <2>2. InHand = arrived
    BY <1>1, <1>3 DEF InHand
  <2>3. ASSUME NEW p \in Payload, Taken(p)' PROVE Taken(p) \/ p = InHand
    <3>1. outcome'[p] = "accepted"
      BY <2>1, <2>3 DEF Taken
    <3>2. CASE outcome[p] = "accepted"
      BY <3>2 DEF Taken
    <3>3. CASE outcome[p] = "writing"
      <4>1. p <= arrived /\ p \in Nat
        BY <1>1, <1>2, <3>3
      <4>2. p < InHand \/ p = InHand
        BY <1>1, <2>2, <4>1
      <4> QED  BY <3>3, <4>2 DEF Taken
    <3> QED  BY <2>1, <3>1, <3>2, <3>3
  <2>4. RequestInv'
    <3>1. \A p \in Payload : outcome'[p] # "none" => p <= arrived'
      BY <1>1, <1>2, <2>1
    <3>2. \A p \in Payload : ~(arrived' - todo' < p /\ p <= arrived')
      BY <1>1, <1>3
    <3> QED  BY <3>1, <3>2 DEF RequestInv
  <2> QED  BY <1>1, <2>1, <2>3, <2>4
<1>4. CASE todo # 1
  <2>1. outcome' = outcome
    BY <1>4 DEF PayloadQueued
  <2>2. InHand' = InHand + 1 /\ InHand \in Nat
    BY <1>1, HandlerState DEF InHand
  <2>3. ASSUME NEW p \in Payload, Taken(p)' PROVE Taken(p) \/ p = InHand
    <3>1. p < InHand + 1 => p < InHand \/ p = InHand
      BY <1>1, <2>2
    <3> QED  BY <1>1, <2>1, <2>2, <2>3, <3>1 DEF Taken
  <2>4. RequestInv'
    <3>1. \A p \in Payload : arrived' - todo' < p => arrived - todo < p
      BY <1>1
    <3> QED  BY <1>1, <1>2, <2>1, <3>1 DEF RequestInv
  <2> QED  BY <1>1, <2>1, <2>3, <2>4
<1> QED  BY <1>3, <1>4

LEMMA FailedStep ==
    ASSUME TypeOK, DurableInv, todo > 0, RequestFails
    PROVE  /\ RequestInv' /\ turn' = "add"
           /\ \A p \in Payload : Taken(p)' => Taken(p)
           /\ \A p \in Payload : outcome[p] = "rejected" => outcome'[p] = "rejected"
           /\ outcome'[InHand] = "rejected"
<1>1. /\ arrived' = arrived /\ todo' = 0 /\ turn' = "add"
      /\ \A p \in Payload : outcome'[p] = IF outcome[p] = "writing" THEN "rejected" ELSE outcome[p]
  BY ToldChanges DEF RequestFails
<1>2. RequestInv'
  <2>1. \A p \in Payload : outcome'[p] # "none" => p <= arrived'
    BY <1>1 DEF DurableInv, RequestInv
  <2>2. \A p \in Payload : ~(arrived' - todo' < p /\ p <= arrived')
    BY <1>1, ConstantsAssumption DEF TypeOK, DataTypes, Payload
  <2> QED  BY <2>1, <2>2 DEF RequestInv
<1>3. outcome'[InHand] = "rejected"
  BY <1>1, HandlerState
<1> QED  BY <1>1, <1>2, <1>3 DEF Taken

\* The add of the payload in hand reaches the file or does not.
LEMMA AddStep ==
    ASSUME Benign, TypeOK, DurableInv, todo > 0,
           NEW o \in AppendOutcomes(log, <<AddRec(NewItem)>>), log' = o.log,
           nextID' = nextID + 1, topic' = topic, dropped' = dropped,
           Held' \subseteq Held \cup {NewItem},
           \A p \in Payload : outcome[p] = "rejected" => outcome'[p] = "rejected",
           \A p \in Payload : Taken(p)' => Taken(p) \/ (o.res # "error" /\ p = InHand)
    PROVE  IdInv' /\ LoggedInv' /\ AckJustified' /\ Whole(log')
<1> DEFINE N == {NewItem}
           r == <<AddRec(NewItem)>>
<1>1. /\ Serving /\ wal # "none" /\ Whole(log) /\ log \in Seq(Record)
      /\ NewItem \in Item /\ nextID \in Nat
  BY HandlerState
<1>2. r \in Seq(Record) /\ Whole(r) /\ Added(r) = N /\ Acked(r) = {}
  <2>1. AddRec(NewItem) \in Record
    BY <1>1, RecordTypes
  <2>2. r \in Seq(Record)
    BY <2>1
  <2>3. Whole(r) /\ Added(r) = N /\ Acked(r) = {}
    BY <1>1, SingleRecords
  <2> QED  BY <2>2, <2>3
<1> HIDE DEF N, r
<1>3. /\ o.log = log \/ o.log = log \o r
      /\ Whole(o.log)
      /\ o.res # "error" => o.log = log \o r
  BY <1>1, <1>2, AppendEffect DEF r
<1>4. Added(log \o r) = Added(log) \cup N /\ Acked(log \o r) = Acked(log)
  <2>1. Added(log \o r) = Added(log) \cup Added(r) /\ Acked(log \o r) = Acked(log) \cup Acked(r)
    BY <1>1, <1>2, ConcatWal
  <2> QED  BY <1>2, <2>1
<1>5. /\ Added(log) \subseteq Added(log') /\ Added(log') \subseteq Added(log) \cup N
      /\ Acked(log') = Acked(log)
  BY <1>3, <1>4
<1>6. \A i \in Ids(log) \cup {a.id : a \in Held \cup N} : i <= nextID'
  <2>1. \A i \in Ids(log) \cup {a.id : a \in Held} : i \in Nat /\ i <= nextID
    BY <1>1, ItemTypes DEF DurableInv, IdInv, Ids, Item
  <2>2. \A a \in N : a.id = nextID + 1
    BY DEF N, NewItem
  <2> QED  BY <1>1, <2>1, <2>2
<1>7. ASSUME NEW p \in Payload, Taken(p)'
      PROVE  Taken(p) \/ \E a \in Added(log') : a.payload = p
  <2>1. CASE o.res # "error" /\ p = InHand
    <3>1. NewItem \in Added(log') /\ NewItem.payload = p
      BY <1>3, <1>4, <2>1 DEF N, NewItem
    <3> QED  BY <3>1
  <2> QED  BY <1>7, <2>1
<1>8. Pending(log) \subseteq Added(log')
  BY <1>5 DEF Pending
<1>9. N \in {{}, {NewItem}} /\ Held' \subseteq Held \cup Added(log) \cup N
  BY DEF N
<1> QED  BY <1>1, <1>3, <1>5, <1>6, <1>7, <1>8, <1>9, FileStep

LEMMA DurableEnqueue ==
    ASSUME Benign, TypeOK, DurableInv, Enqueue
    PROVE  DurableInv'
<1>0. PICK o \in AppendOutcomes(log, <<AddRec(NewItem)>>) :
        /\ log' = o.log
        /\ IF o.res = "error"
           THEN RequestFails /\ UNCHANGED queue
           ELSE PayloadQueued /\ queue' = Append(queue, NewItem)
  BY DEF Enqueue
<1>1. todo > 0 /\ nextID' = nextID + 1 /\ UNCHANGED <<phase, wal, pc, batch, dropped, topic>>
      /\ queue \in Seq(Item)
  BY DEF Enqueue, TypeOK, DataTypes
<1>2. /\ RequestInv' /\ turn' = "add"
      /\ \A p \in Payload : Taken(p)' => Taken(p) \/ (o.res # "error" /\ p = InHand)
      /\ \A p \in Payload : outcome[p] = "rejected" => outcome'[p] = "rejected"
  BY <1>0, <1>1, QueuedStep, FailedStep
<1>4. Held' \subseteq Held \cup {NewItem}
  <2>1. ASSUME NEW k \in DOMAIN queue' PROVE queue'[k] \in Held \cup {NewItem}
    <3>1. CASE queue' = queue
      BY <2>1, <3>1, HeldCases
    <3>2. CASE queue' = Append(queue, NewItem)
      <4>1. queue'[k] = NewItem \/ (k \in DOMAIN queue /\ queue'[k] = queue[k])
        BY <1>1, <2>1, <3>2
      <4> QED  BY <4>1, HeldCases
    <3> QED  BY <1>0, <3>1, <3>2
  <2> QED  BY <1>1, <1>2, <2>1, HeldCases, HeldCasesNext
<1>5. IdInv' /\ LoggedInv' /\ AckJustified' /\ Whole(log')
  <2>1. topic' = topic /\ dropped' = dropped /\ log' = o.log
        /\ o \in AppendOutcomes(log, <<AddRec(NewItem)>>)
    BY <1>0, <1>1
  <2> QED  BY <1>1, <1>2, <1>4, <2>1, AddStep
<1> QED  BY <1>1, <1>2, <1>5, HandlerControl DEF DurableInv

LEMMA DurableLogNewcomer ==
    ASSUME Benign, TypeOK, DurableInv, LogNewcomer
    PROVE  DurableInv'
<1>0. PICK o \in AppendOutcomes(log, <<AddRec(NewItem)>>) :
        /\ log' = o.log
        /\ IF o.res = "error"
           THEN RequestFails
           ELSE turn' = "ack" /\ UNCHANGED <<arrived, todo, outcome, loop>>
  BY DEF LogNewcomer
<1>1. /\ todo > 0 /\ nextID' = nextID + 1 /\ DropOldest /\ turn = "add"
      /\ UNCHANGED <<phase, queue, wal, pc, batch, dropped, topic>>
  BY DEF LogNewcomer
<1>2. CASE o.res = "error"
  <2>1. /\ RequestInv' /\ turn' = "add"
        /\ \A p \in Payload : Taken(p)' => Taken(p)
        /\ \A p \in Payload : outcome[p] = "rejected" => outcome'[p] = "rejected"
    BY <1>0, <1>1, <1>2, FailedStep
  <2>2. Held' \subseteq Held \cup {NewItem}
    BY <1>1, <2>1, HeldCases, HeldCasesNext
  <2>3. IdInv' /\ LoggedInv' /\ AckJustified' /\ Whole(log')
    <3>1. topic' = topic /\ dropped' = dropped /\ log' = o.log
          /\ o \in AppendOutcomes(log, <<AddRec(NewItem)>>)
      BY <1>0, <1>1
    <3>2. \A p \in Payload : Taken(p)' => Taken(p) \/ (o.res # "error" /\ p = InHand)
      BY <2>1
    <3> QED  BY <1>1, <2>1, <2>2, <3>1, <3>2, AddStep
  <2> QED  BY <1>1, <2>1, <2>3, HandlerControl DEF DurableInv
<1>3. CASE o.res # "error"
  <2>1. turn' = "ack" /\ UNCHANGED <<arrived, todo, outcome>>
    BY <1>0, <1>3
  <2>2. RequestInv'
    BY <2>1 DEF DurableInv, RequestInv
  <2>3. InHand' = InHand /\ \A p \in Payload : Taken(p)' => Taken(p) \/ p = InHand
    BY <2>1 DEF Taken, InHand
  <2>5. Newcomer' = NewItem
    BY <1>1, <2>3 DEF Newcomer, NewItem
  <2>6. Held' \subseteq Held \cup {NewItem}
    BY <1>1, <2>5, HeldCases, HeldCasesNext
  <2>7. IdInv' /\ LoggedInv' /\ AckJustified' /\ Whole(log')
    <3>1. \A p \in Payload : Taken(p)' => Taken(p) \/ (o.res # "error" /\ p = InHand)
      BY <1>3, <2>3
    <3>2. \A p \in Payload : outcome[p] = "rejected" => outcome'[p] = "rejected"
      BY <2>1
    <3>3. topic' = topic /\ dropped' = dropped /\ log' = o.log
            /\ o \in AppendOutcomes(log, <<AddRec(NewItem)>>)
      BY <1>0, <1>1
    <3> QED  BY <1>1, <2>6, <3>1, <3>2, <3>3, AddStep
  <2> QED  BY <1>1, <2>2, <2>7, HandlerControl DEF DurableInv
<1> QED  BY <1>2, <1>3

\* Acks of items in memory whose payloads need no replay reach the file or do not.
LEMMA AckStep ==
    ASSUME TypeOK, DurableInv, NEW r \in Seq(Record), Added(r) = {},
           log' = log \/ log' = log \o r,
           \A i \in Acked(r) : \E b \in Held : b.id = i /\ Justified(b.payload)',
           nextID' = nextID, Serving' => Serving, Held' \subseteq Held,
           \A p \in Payload : topic[p] > 0 => topic'[p] > 0,
           dropped \subseteq dropped',
           \A p \in Payload : outcome[p] = "rejected" => outcome'[p] = "rejected",
           \A p \in Payload : Taken(p)' => Taken(p)
    PROVE  IdInv' /\ LoggedInv' /\ AckJustified'
<1> DEFINE N == {}
<1>1. log \in Seq(Record)
  BY DEF TypeOK, DataTypes
<1>2. Added(log \o r) = Added(log) \cup Added(r) /\ Acked(log \o r) = Acked(log) \cup Acked(r)
  BY <1>1, ConcatWal
<1>3. Pending(log) \subseteq Added(log') /\ Added(log') \subseteq Added(log) \cup N
  BY <1>2 DEF Pending
<1>4. \A i \in Acked(log') : i \in Acked(log)
        \/ \E b \in Held : b.id = i /\ Justified(b.payload)'
  BY <1>2
<1>5. Serving' => \A i \in Ids(log) \cup {a.id : a \in Held \cup N} : i <= nextID'
  BY DEF DurableInv, IdInv
<1>6. N \in {{}, {NewItem}} /\ ~(N # {}) /\ Held' \subseteq Held \cup Added(log) \cup N
  OBVIOUS
<1>7. \A p \in Payload : Taken(p)' => \/ Taken(p) \/ topic'[p] > 0 \/ p \in dropped'
                                       \/ \E a \in Added(log') : a.payload = p
  OBVIOUS
<1> HIDE DEF N
<1> QED  BY <1>3, <1>4, <1>5, <1>6, <1>7, FileStep

LEMMA DurableDropHead ==
    ASSUME Benign, TypeOK, DurableInv, DropHead
    PROVE  DurableInv'
<1>1. /\ turn = "ack" /\ todo > 0 /\ queue # <<>> /\ queue \in Seq(Item) /\ DropOldest
      /\ UNCHANGED <<phase, nextID, wal, pc, batch, topic>>
  BY DEF DropHead, TypeOK, DataTypes, DurableInv, ControlInv
<1>2. /\ Serving /\ wal # "none" /\ Whole(log) /\ log \in Seq(Record) /\ InHand \in Payload
      /\ outcome[InHand] = "writing" /\ Serving'
  BY <1>1, HandlerState DEF Serving
<1>3. /\ Head(queue) \in Held /\ Newcomer \in Held
      /\ \A k \in DOMAIN Tail(queue) : Tail(queue)[k] \in Held
      /\ Head(queue) \in Item /\ Newcomer \in Item
  <2>1. Head(queue) = queue[1] /\ 1 \in DOMAIN queue
    BY <1>1
  <2>2. \A k \in DOMAIN Tail(queue) : k + 1 \in DOMAIN queue /\ Tail(queue)[k] = queue[k + 1]
    BY <1>1
  <2> QED  BY <1>1, <2>1, <2>2, HeldCases, ItemTypes
<1> DEFINE head == <<AckRec(Head(queue))>>
           undone == <<AckRec(Newcomer)>>
<1>4. /\ head \in Seq(Record) /\ Whole(head) /\ Added(head) = {} /\ Acked(head) = {Head(queue).id}
      /\ undone \in Seq(Record) /\ Whole(undone) /\ Added(undone) = {} /\ Acked(undone) = {Newcomer.id}
  <2>1. AckRec(Head(queue)) \in Record /\ AckRec(Newcomer) \in Record
    BY <1>3, RecordTypes
  <2>2. head \in Seq(Record) /\ undone \in Seq(Record)
    BY <2>1
  <2>3. Whole(head) /\ Added(head) = {} /\ Acked(head) = {Head(queue).id}
    BY <1>3, SingleRecords
  <2>4. Whole(undone) /\ Added(undone) = {} /\ Acked(undone) = {Newcomer.id}
    BY <1>3, SingleRecords
  <2> QED  BY <2>2, <2>3, <2>4
<1>5. PICK o \in AckOutcomes(log, head) :
        \/ /\ o.res = "ok"
           /\ log' = o.log
           /\ queue' = Append(Tail(queue), Newcomer)
           /\ dropped' = dropped \cup {Head(queue).payload}
           /\ PayloadQueued
        \/ /\ o.res = "error"
           /\ \E undo \in AckOutcomes(o.log, undone) : log' = undo.log
           /\ RequestFails
           /\ UNCHANGED <<queue, dropped>>
  BY DEF DropHead
<1> HIDE DEF head, undone
<1>6. /\ o.log = log \/ o.log = log \o head
      /\ Whole(o.log)
      /\ o.res = "error" => o.log = log
  BY <1>1, <1>2, <1>4, AckEffect
<1>7. CASE o.res = "ok"
  <2>1. /\ log' = o.log
        /\ queue' = Append(Tail(queue), Newcomer)
        /\ dropped' = dropped \cup {Head(queue).payload}
        /\ PayloadQueued
    BY <1>5, <1>7
  <2>2. /\ RequestInv' /\ turn' = "add"
        /\ \A p \in Payload : Taken(p)' => Taken(p) \/ p = InHand
        /\ \A p \in Payload : outcome[p] = "rejected" => outcome'[p] = "rejected"
    BY <1>1, <2>1, QueuedStep
  <2>3. \A p \in Payload : Taken(p)' => Taken(p)
    BY <1>1, <1>2, <2>2 DEF Taken
  <2>4. Held' \subseteq Held
    <3>1. \A k \in DOMAIN queue' : \/ queue'[k] = Newcomer
                                   \/ k \in DOMAIN Tail(queue) /\ queue'[k] = Tail(queue)[k]
      BY <1>1, <2>1
    <3>2. \A k \in DOMAIN queue' : queue'[k] \in Held
      BY <1>3, <3>1
    <3> QED  BY <1>1, <2>2, <3>2, HeldCases, HeldCasesNext
  <2>5. \A i \in Acked(head) : \E b \in Held : b.id = i /\ Justified(b.payload)'
    BY <1>3, <1>4, <2>1 DEF Justified
  <2>6. IdInv' /\ LoggedInv' /\ AckJustified'
    <3>1. log' = log \/ log' = log \o head
      BY <1>6, <2>1
    <3>2. topic' = topic /\ nextID' = nextID /\ dropped \subseteq dropped'
      BY <1>1, <2>1
    <3> QED  BY <1>2, <1>4, <2>2, <2>3, <2>4, <2>5, <3>1, <3>2, AckStep
  <2>7. ControlInv' /\ StoredInv'
    BY <1>1, <1>6, <2>1, <2>2, HandlerControl
  <2> QED  BY <2>2, <2>6, <2>7 DEF DurableInv
<1>8. CASE o.res = "error"
  <2>1. o.log = log /\ RequestFails /\ UNCHANGED <<queue, dropped>>
        /\ \E undo \in AckOutcomes(o.log, undone) : log' = undo.log
    BY <1>5, <1>6, <1>8
  <2>2. PICK undo \in AckOutcomes(log, undone) : log' = undo.log
    BY <2>1
  <2>3. (log' = log \/ log' = log \o undone) /\ Whole(log')
    BY <1>2, <1>4, <2>2, AckEffect
  <2>4. /\ RequestInv' /\ turn' = "add"
        /\ \A p \in Payload : Taken(p)' => Taken(p)
        /\ \A p \in Payload : outcome[p] = "rejected" => outcome'[p] = "rejected"
        /\ outcome'[InHand] = "rejected"
    BY <1>1, <2>1, FailedStep
  <2>5. Held' \subseteq Held
    BY <1>1, <2>1, <2>4, HeldCases, HeldCasesNext
  <2>6. \A i \in Acked(undone) : \E b \in Held : b.id = i /\ Justified(b.payload)'
    <3>1. Newcomer.payload = InHand
      BY DEF Newcomer
    <3> QED  BY <1>3, <1>4, <2>4, <3>1 DEF Justified
  <2>7. IdInv' /\ LoggedInv' /\ AckJustified'
    <3>1. topic' = topic /\ nextID' = nextID /\ dropped' = dropped
      BY <1>1, <2>1
    <3> QED  BY <1>2, <1>4, <2>3, <2>4, <2>5, <2>6, <3>1, AckStep
  <2>8. ControlInv' /\ StoredInv'
    BY <1>1, <2>3, <2>4, HandlerControl
  <2> QED  BY <2>4, <2>7, <2>8 DEF DurableInv
<1> QED  BY <1>5, <1>7, <1>8

(***************************************************************************)
(* The goroutines flush and compact.                                       *)
(***************************************************************************)

LEMMA FlusherHolds ==
    ASSUME TypeOK, DurableInv, NEW f \in Flusher, pc[f] \in {"write", "finalize"}
    PROVE  Serving
<1>1. batch[f] # <<>>
  BY DEF TypeOK, FlusherTypes
<1> QED  BY <1>1, NotServing

LEMMA FlushControl ==
    ASSUME DurableInv, UNCHANGED <<request, process>>, wal' = wal, Held' \subseteq Held,
           log' = log \/ (Serving /\ Whole(log'))
    PROVE  ControlInv' /\ RequestInv' /\ Serving' = Serving
           /\ \A p \in Payload : Taken(p)' = Taken(p)
<1>1. UNCHANGED <<phase, todo, turn>> /\ Serving' = Serving
  BY DEF request, process, Serving
<1>2. ~Unreadable(log')
  BY DEF DurableInv, ControlInv, Unreadable, Whole
<1>3. ControlInv'
  BY <1>1, <1>2 DEF DurableInv, ControlInv
<1> QED  BY <1>1, <1>3, SameRequest

\* A step of a goroutine that leaves the file alone.
LEMMA FlushStep ==
    ASSUME TypeOK, DurableInv, UNCHANGED <<request, process>>, wal' = wal,
           log' = log, nextID' = nextID, dropped' = dropped, Held' \subseteq Held,
           \A p \in Payload : topic[p] > 0 => topic'[p] > 0
    PROVE  ControlInv' /\ RequestInv' /\ IdInv' /\ LoggedInv' /\ AckJustified'
BY FlushControl, QuietStep DEF request

LEMMA DurableFinalize ==
    ASSUME Benign, TypeOK, DurableInv, NEW f \in Flusher, Finalize(f)
    PROVE  DurableInv'
<1> DEFINE b == batch[f]
<1>1. /\ pc[f] = "finalize" /\ b \in Seq(Item) /\ queue \in Seq(Item)
      /\ UNCHANGED <<nextID, wal, request, dropped, topic, process>>
      /\ batch' = [batch EXCEPT ![f] = <<>>]
  BY DEF Finalize, TypeOK, DataTypes, FlusherTypes
<1>2. PICK n \in 0..Len(b) :
        LET rest == SubSeq(queue, n + 1, Len(queue))
        IN /\ Popped(f, n)
           /\ \E o \in IF n = 0 THEN {[log |-> log, res |-> "ok"]}
                       ELSE AckOutcomes(log, Acks(b, n)) :
                /\ log' = o.log
                /\ queue' = IF o.res = "error" THEN SubSeq(b, 1, n) \o rest ELSE rest
                /\ pc' = [pc EXCEPT ![f] = IF o.res = "error" THEN AfterFlush[f] ELSE "pick"]
  BY DEF Finalize
<1> DEFINE rest == SubSeq(queue, n + 1, Len(queue))
<1>3. PICK o \in IF n = 0 THEN {[log |-> log, res |-> "ok"]} ELSE AckOutcomes(log, Acks(b, n)) :
        /\ log' = o.log
        /\ queue' = IF o.res = "error" THEN SubSeq(b, 1, n) \o rest ELSE rest
        /\ pc' = [pc EXCEPT ![f] = IF o.res = "error" THEN AfterFlush[f] ELSE "pick"]
  BY <1>2
<1>4. Serving /\ Whole(log) /\ log \in Seq(Record)
  BY <1>1, FlusherHolds DEF DurableInv, ControlInv, TypeOK, DataTypes
<1>5. \A k \in DOMAIN b : b[k] \in Held /\ topic[b[k].payload] > 0
  BY <1>1, HeldCases DEF DurableInv, StoredInv
<1> HIDE DEF b
<1>6. /\ Acks(b, n) \in Seq(Record) /\ Whole(Acks(b, n))
      /\ Added(Acks(b, n)) = {}
      /\ Acked(Acks(b, n)) = {b[k].id : k \in 1..n}
  BY <1>1, AckRecords
<1>7. (log' = log \/ log' = log \o Acks(b, n)) /\ Whole(log')
  <2>1. CASE n = 0
    BY <1>3, <1>4, <2>1
  <2>2. CASE n # 0
    BY <1>3, <1>4, <1>6, <2>2, AckEffect
  <2> QED  BY <2>1, <2>2
<1>8. \A i \in Acked(Acks(b, n)) : \E h \in Held : h.id = i /\ Justified(h.payload)'
  <2>1. \A k \in 1..n : b[k] \in Held /\ topic[b[k].payload] > 0
    <3>1. \A k \in 1..n : k \in DOMAIN b
      BY <1>1
    <3> QED  BY <1>5, <3>1
  <2>2. \A i \in Acked(Acks(b, n)) : \E h \in Held : h.id = i /\ topic[h.payload] > 0
    BY <1>6, <2>1
  <2>3. \A h \in Held : topic[h.payload] > 0 => Justified(h.payload)'
    BY <1>1 DEF Justified
  <2> QED  BY <2>2, <2>3
<1>9. Held' \subseteq Held
  <2>1. \A k \in DOMAIN rest : k + n \in DOMAIN queue /\ rest[k] = queue[k + n]
    BY <1>1
  <2>2. \A k \in DOMAIN rest : rest[k] \in Held
    BY <2>1, HeldCases
  <2>3. \A k \in DOMAIN SubSeq(b, 1, n) : SubSeq(b, 1, n)[k] \in Held
    <3>1. \A k \in DOMAIN SubSeq(b, 1, n) : k \in DOMAIN b /\ SubSeq(b, 1, n)[k] = b[k]
      BY <1>1
    <3> QED  BY <1>5, <3>1
  <2>4. rest \in Seq(Item) /\ SubSeq(b, 1, n) \in Seq(Item)
    BY <1>1
  <2> HIDE DEF rest
  <2>5. \A k \in DOMAIN queue' : queue'[k] \in Held
    <3>1. CASE queue' = rest
      BY <2>2, <3>1
    <3>2. CASE queue' = SubSeq(b, 1, n) \o rest
      <4> DEFINE head == SubSeq(b, 1, n)
      <4>1. \A k \in DOMAIN (head \o rest) :
              \/ k \in DOMAIN head /\ (head \o rest)[k] = head[k]
              \/ k - Len(head) \in DOMAIN rest /\ (head \o rest)[k] = rest[k - Len(head)]
        <5> HIDE DEF head
        <5> QED  BY <2>4 DEF head
      <4> QED  BY <2>2, <2>3, <3>2, <4>1
    <3> QED  BY <1>3, <3>1, <3>2
  <2>6. \A g \in Flusher : batch'[g] = <<>> \/ batch'[g] = batch[g]
    BY <1>1 DEF TypeOK, FlusherTypes
  <2>7. turn' = turn /\ Newcomer' = Newcomer
    BY <1>1 DEF request, Newcomer, InHand
  <2> QED  BY <2>5, <2>6, <2>7, HeldCases, HeldCasesNext
<1>10. ControlInv' /\ RequestInv' /\ Serving' = Serving /\ \A p \in Payload : Taken(p)' = Taken(p)
  BY <1>1, <1>4, <1>7, <1>9, FlushControl
<1>11. IdInv' /\ LoggedInv' /\ AckJustified'
  <2>1. topic' = topic /\ dropped' = dropped /\ outcome' = outcome /\ nextID' = nextID
    BY <1>1 DEF request
  <2> QED  BY <1>6, <1>7, <1>8, <1>9, <1>10, <2>1, AckStep
<1>12. StoredInv'
  <2>1. ASSUME NEW g \in Flusher, pc'[g] = "finalize"
        PROVE  pc[g] = "finalize" /\ batch'[g] = batch[g]
    BY <1>1, <1>3, <2>1 DEF AfterFlush, Flusher, TypeOK, FlusherTypes
  <2> QED  BY <1>1, <2>1 DEF DurableInv, StoredInv
<1> QED  BY <1>10, <1>11, <1>12 DEF DurableInv

LEMMA DurableFlush ==
    ASSUME Benign, TypeOK, DurableInv, NEW f \in Flusher, Flush(f)
    PROVE  DurableInv'
<1>1. CASE Pick(f)
  <2>1. UNCHANGED <<queue, nextID, wal, log, request, dropped, topic, process>>
    BY <1>1 DEF Pick
  <2>2. \A g \in Flusher : \/ batch'[g] = batch[g]
                           \/ \E n \in 1..Len(queue) : batch'[g] = SubSeq(queue, 1, n)
    BY <1>1 DEF Pick, TypeOK, FlusherTypes
  <2>3. Held' \subseteq Held
    <3>1. turn' = turn /\ Newcomer' = Newcomer /\ queue' = queue /\ queue \in Seq(Item)
      BY <2>1 DEF request, Newcomer, InHand, TypeOK, DataTypes
    <3>2. \A n \in 1..Len(queue) : \A k \in DOMAIN SubSeq(queue, 1, n) :
            k \in DOMAIN queue /\ SubSeq(queue, 1, n)[k] = queue[k]
      BY <3>1
    <3>3. ASSUME NEW g \in Flusher, NEW k \in DOMAIN batch'[g] PROVE batch'[g][k] \in Held
      BY <2>2, <3>2, <3>3, HeldCases
    <3> QED  BY <3>1, <3>3, HeldCases, HeldCasesNext
  <2>4. ControlInv' /\ RequestInv' /\ IdInv' /\ LoggedInv' /\ AckJustified'
    BY <2>1, <2>3, FlushStep
  <2>5. StoredInv'
    <3>1. ASSUME NEW g \in Flusher, pc'[g] = "finalize"
          PROVE  pc[g] = "finalize" /\ batch'[g] = batch[g]
      BY <1>1, <3>1 DEF Pick, AfterFlush, Flusher, TypeOK, FlusherTypes
    <3> QED  BY <2>1, <3>1 DEF DurableInv, StoredInv
  <2> QED  BY <2>4, <2>5 DEF DurableInv
<1>2. CASE WriteSucceeds(f)
  <2>1. /\ UNCHANGED <<queue, nextID, wal, log, batch, request, dropped, process>>
        /\ topic' = Stored(PayloadsOf(batch[f]))
        /\ pc' = [pc EXCEPT ![f] = "finalize"]
    BY <1>2 DEF WriteSucceeds
  <2>2. Held' \subseteq Held
    BY <2>1 DEF Held, Queued, Picked, Newcomer, InHand, request
  <2>3. \A p \in Payload : topic[p] > 0 => topic'[p] > 0
    BY <2>1, StoredGrows
  <2>4. ControlInv' /\ RequestInv' /\ IdInv' /\ LoggedInv' /\ AckJustified'
    BY <2>1, <2>2, <2>3, FlushStep
  <2>5. StoredInv'
    <3>1. \A p \in Payload : p \in PayloadsOf(batch[f]) => topic'[p] > 0
      BY <2>1, StoredGrows
    <3>2. ASSUME NEW g \in Flusher, pc'[g] = "finalize", NEW k \in DOMAIN batch[g]
          PROVE  topic'[batch[g][k].payload] > 0
      <4>1. batch[g][k].payload \in Payload
        BY HeldCases, ItemTypes DEF Item
      <4>2. CASE g = f
        BY <3>1, <4>1, <4>2 DEF PayloadsOf
      <4>3. CASE g # f
        <5>1. pc[g] = "finalize"
          BY <2>1, <3>2, <4>3 DEF TypeOK, FlusherTypes
        <5> QED  BY <2>3, <4>1, <5>1 DEF DurableInv, StoredInv
      <4> QED  BY <4>2, <4>3
    <3> QED  BY <2>1, <3>2 DEF StoredInv
  <2> QED  BY <2>4, <2>5 DEF DurableInv
<1>3. CASE WriteFails(f)
  <2>1. /\ UNCHANGED <<queue, nextID, wal, log, request, dropped, process>>
        /\ \E S : topic' = Stored(S)
        /\ pc' = [pc EXCEPT ![f] = AfterFlush[f]]
        /\ batch' = [batch EXCEPT ![f] = <<>>]
    BY <1>3 DEF WriteFails
  <2>2. \A g \in Flusher : batch'[g] = <<>> \/ batch'[g] = batch[g]
    BY <2>1 DEF TypeOK, FlusherTypes
  <2>3. Held' \subseteq Held
    <3>1. turn' = turn /\ Newcomer' = Newcomer /\ queue' = queue
      BY <2>1 DEF request, Newcomer, InHand
    <3> QED  BY <2>2, <3>1, HeldCases, HeldCasesNext
  <2>4. \A p \in Payload : topic[p] > 0 => topic'[p] > 0
    BY <2>1, StoredGrows
  <2>5. ControlInv' /\ RequestInv' /\ IdInv' /\ LoggedInv' /\ AckJustified'
    BY <2>1, <2>3, <2>4, FlushStep
  <2>6. StoredInv'
    <3>1. ASSUME NEW g \in Flusher, pc'[g] = "finalize"
          PROVE  pc[g] = "finalize" /\ batch'[g] = batch[g]
      BY <2>1, <3>1 DEF AfterFlush, Flusher, TypeOK, FlusherTypes
    <3>2. ASSUME NEW g \in Flusher, pc[g] = "finalize", NEW k \in DOMAIN batch[g]
          PROVE  topic'[batch[g][k].payload] > 0
      <4>1. batch[g][k].payload \in Payload
        BY HeldCases, ItemTypes DEF Item
      <4> QED  BY <2>4, <3>2, <4>1 DEF DurableInv, StoredInv
    <3> QED  BY <3>1, <3>2 DEF StoredInv
  <2> QED  BY <2>5, <2>6 DEF DurableInv
<1> QED  BY <1>1, <1>2, <1>3, DurableFinalize DEF Flush

\* What a compaction forgets is justified.
LEMMA CompactStep ==
    ASSUME TypeOK, DurableInv, log' \in Compacted(log), wal = "open",
           UNCHANGED <<queue, nextID, batch, request, dropped, topic, process>>
    PROVE  IdInv' /\ LoggedInv' /\ AckJustified' /\ Whole(log')
<1> DEFINE N == {}
<1>1. Whole(log') /\ Added(log') = Pending(log) /\ Acked(log') = {}
  BY CompactedEffect DEF TypeOK, DataTypes
<1>2. Held' = Held
  BY DEF Held, Queued, Picked, Newcomer, InHand, request
<1>3. Serving' => \A i \in Ids(log) \cup {a.id : a \in Held \cup N} : i <= nextID'
  BY DEF DurableInv, IdInv, Serving, process
<1>4. /\ N \in {{}, {NewItem}} /\ ~(N # {}) /\ Held' \subseteq Held \cup Added(log) \cup N
      /\ Pending(log) \subseteq Added(log') /\ Added(log') \subseteq Added(log) \cup N
  BY <1>1, <1>2 DEF Pending
<1>5. \A i \in Acked(log') : i \in Acked(log)
        \/ \E b \in Held : b.id = i /\ Justified(b.payload)'
  BY <1>1
<1>6. outcome' = outcome /\ topic' = topic /\ dropped' = dropped
  BY DEF request
<1>7. \A p \in Payload : Taken(p)' => \/ Taken(p) \/ topic'[p] > 0 \/ p \in dropped'
                                       \/ \E a \in Added(log') : a.payload = p
  BY SameRequest
<1> HIDE DEF N
<1> QED  BY <1>1, <1>3, <1>4, <1>5, <1>6, <1>7, FileStep

LEMMA DurableLoop ==
    ASSUME TypeOK, DurableInv, LoopWakes \/ CheckSize \/ NothingToCompact \/ Compact
    PROVE  DurableInv'
<1>1. /\ UNCHANGED <<queue, nextID, batch, request, dropped, topic, process>>
      /\ \E next \in {"pick", "compact", "idle"} : pc' = [pc EXCEPT !["loop"] = next]
  BY DEF LoopWakes, CheckSize, NothingToCompact, Compact
<1>2. StoredInv'
  <2>1. \A f \in Flusher : pc'[f] = "finalize" => pc[f] = "finalize"
    BY <1>1 DEF TypeOK, FlusherTypes
  <2> QED  BY <1>1, <2>1 DEF DurableInv, StoredInv
<1>3. RequestInv'
  BY <1>1, SameRequest
<1>4. Held' = Held
  BY <1>1 DEF Held, Queued, Picked, Newcomer, InHand, request
<1>5. CASE LoopWakes \/ CheckSize \/ NothingToCompact
  <2>1. log' = log /\ wal' = wal
    BY <1>5 DEF LoopWakes, CheckSize, NothingToCompact
  <2>2. Held' \subseteq Held /\ \A p \in Payload : topic[p] > 0 => topic'[p] > 0
    BY <1>1, <1>4
  <2>3. UNCHANGED <<request, process>> /\ nextID' = nextID /\ dropped' = dropped
    BY <1>1
  <2> QED  BY <1>2, <2>1, <2>2, <2>3, FlushStep DEF DurableInv
<1>6. CASE Compact
  <2>1. Serving /\ Serving' /\ wal = "open" /\ wal' \in {"open", "broken"} /\ todo' = todo /\ turn' = turn
    BY <1>1, <1>6 DEF Compact, DurableInv, ControlInv, Serving, process, request
  <2>2. log' = log \/ log' \in Compacted(log)
    BY <1>6 DEF Compact
  <2>3. IdInv' /\ LoggedInv' /\ AckJustified' /\ Whole(log')
    <3>1. CASE log' = log
      <4>1. Whole(log')
        BY <2>1, <3>1 DEF DurableInv, ControlInv
      <4>2. IdInv' /\ LoggedInv' /\ AckJustified'
        BY <1>1, <2>1, <3>1, CalmStep
      <4> QED  BY <4>1, <4>2
    <3>2. CASE log' \in Compacted(log)
      BY <1>1, <2>1, <3>2, CompactStep
    <3> QED  BY <2>2, <3>1, <3>2
  <2>4. ControlInv'
    <3>1. ~Unreadable(log')
      BY <2>3 DEF Unreadable, Whole
    <3>2. phase' = phase
      BY <1>1 DEF process
    <3> QED  BY <2>1, <2>3, <3>1, <3>2 DEF DurableInv, ControlInv
  <2> QED  BY <1>2, <1>3, <2>3, <2>4 DEF DurableInv
<1> QED  BY <1>5, <1>6

(***************************************************************************)
(* The theorems.                                                           *)
(***************************************************************************)

LEMMA DurableStart == Init => DurableInv
<1> SUFFICES ASSUME Init PROVE DurableInv
  OBVIOUS
<1>1. Held = {}
  <2>1. \A h : h \notin Held
    BY HeldCases DEF Init
  <2> QED  BY <2>1
<1>2. Added(log) = {} /\ Acked(log) = {} /\ ~Unreadable(log)
  BY DEF Init, Added, Acked, Having, Unreadable
<1>3. ~Serving /\ todo = 0 /\ arrived = 0
  BY DEF Init, Serving
<1>4. ControlInv /\ StoredInv
  BY <1>1, <1>2, <1>3 DEF Init, ControlInv, StoredInv
<1>5. IdInv /\ AckJustified
  BY <1>1, <1>2, <1>3 DEF IdInv, AckJustified
<1>6. RequestInv /\ LoggedInv
  <2>1. \A p \in Payload : outcome[p] = "none" /\ ~Taken(p) /\ ~(p <= 0)
    BY ConstantsAssumption DEF Init, Taken, Payload
  <2> QED  BY <1>3, <2>1 DEF RequestInv, LoggedInv
<1> QED  BY <1>4, <1>5, <1>6 DEF DurableInv

LEMMA DurableStep ==
    ASSUME Benign
    PROVE  TypeOK /\ DurableInv /\ [Next]_vars => DurableInv'
<1> SUFFICES ASSUME TypeOK, DurableInv, [Next]_vars PROVE DurableInv'
  OBVIOUS
<1>1. CASE UNCHANGED vars
  BY <1>1 DEF vars, DurableInv, ControlInv, IdInv, StoredInv, RequestInv, LoggedInv,
              AckJustified, Serving, Held, Queued, Picked, Newcomer, InHand, Taken, Justified
<1>2. CASE Next
  <2>1. TypeOK'
    BY TypeStep
  <2>2. Lifecycle => DurableInv'
    BY DurableLifecycle
  <2>3. Request => DurableInv'
    BY <2>1, DurableRequest
  <2>4. Handler => DurableInv'
    BY DurableEnqueue, DurableLogNewcomer, DurableDropHead DEF Handler
  <2>5. (\E f \in Flusher : Flush(f)) => DurableInv'
    BY DurableFlush
  <2>6. LoopWakes \/ CheckSize \/ NothingToCompact \/ Compact => DurableInv'
    BY DurableLoop
  <2> QED  BY <1>2, <2>2, <2>3, <2>4, <2>5, <2>6 DEF Next
<1> QED  BY <1>1, <1>2

LEMMA DurableInvImplies ==
    ASSUME TypeOK, DurableInv
    PROVE  Durable /\ AckJustified /\ WalReadable
<1>1. ASSUME NEW p \in Payload, outcome[p] = "accepted", p \notin dropped, ~(topic[p] > 0)
      PROVE  p \in {item.payload : item \in Pending(log)}
  <2>1. PICK a \in Added(log) : a.payload = p
    BY <1>1 DEF DurableInv, LoggedInv, Taken
  <2>2. ~Justified(p)
    BY <1>1 DEF Justified
  <2>3. a \in Pending(log)
    BY <2>1, <2>2 DEF DurableInv, AckJustified, Pending
  <2> QED  BY <2>1, <2>3
<1>2. Durable
  BY <1>1 DEF Durable
<1>3. AckJustified /\ WalReadable
  BY DEF DurableInv, ControlInv, WalReadable
<1> QED  BY <1>2, <1>3

LEMMA DurableInvariant ==
    ASSUME Benign
    PROVE  Spec => [](TypeOK /\ DurableInv)
<1>1. Spec => []TypeOK
  BY TypeCorrect
<1>2. TypeOK /\ DurableInv /\ [Next]_vars => DurableInv'
  BY DurableStep
<1> QED  BY <1>1, <1>2, DurableStart, PTL DEF Spec

\* What WriteToQueue has accepted is in Kafka, dropped by the drop-oldest rule,
\* or replayed by the next start, through every interleaving of handlers,
\* flushes, compactions, crashes and shutdowns, for every queue and batch size.
THEOREM AcceptedIsDurable ==
    ASSUME Benign
    PROVE  Spec => []Durable
<1>1. TypeOK /\ DurableInv => Durable
  BY DurableInvImplies
<1> QED  BY <1>1, DurableInvariant, PTL

\* No ack in the WAL names the add of a payload that still needs it.
THEOREM AcksAreJustified ==
    ASSUME Benign
    PROVE  Spec => []AckJustified
<1>1. TypeOK /\ DurableInv => AckJustified
  BY DurableInvImplies
<1> QED  BY <1>1, DurableInvariant, PTL

\* Wherever the process is killed, readPendingFromWAL can read what it left.
THEOREM WalStaysReadable ==
    ASSUME Benign
    PROVE  Spec => []WalReadable
<1>1. TypeOK /\ DurableInv => WalReadable
  BY DurableInvImplies
<1> QED  BY <1>1, DurableInvariant, PTL

(***************************************************************************)
(* The queue implements AtLeastOnce.  Each action is one step of the       *)
(* abstract stage or leaves what the stage sees alone; that the stage may  *)
(* let go of what an action acks is AckJustified after the action, and     *)
(* that it may tell the clients is Durable after it.                       *)
(***************************************************************************)

Accepted == {p \in Payload : outcome[p] = "accepted"}
Delivered == {p \in Payload : topic[p] > 0}

\* What the mapped variables must do for a step of the stage.
LEMMA StageStutters ==
    ASSUME Accepted' = Accepted, PayloadsPending' = PayloadsPending,
           Delivered' = Delivered, dropped' = dropped
    PROVE  UNCHANGED Stage!vars
BY DEF Stage!vars, Accepted, Delivered

LEMMA StageKeeps ==
    ASSUME NEW S \in SUBSET Payload, PayloadsPending' = PayloadsPending \cup S,
           Accepted' = Accepted, Delivered' = Delivered, dropped' = dropped
    PROVE  Stage!Next
<1>1. Stage!Keep(S)
  BY DEF Stage!Keep, Accepted, Delivered
<1> QED  BY <1>1 DEF Stage!Next

LEMMA StageDelivers ==
    ASSUME NEW S \in SUBSET Payload, Delivered' = Delivered \cup S,
           Accepted' = Accepted, PayloadsPending' = PayloadsPending, dropped' = dropped
    PROVE  Stage!Next
<1>1. Stage!Deliver(S)
  BY DEF Stage!Deliver, Accepted, Delivered
<1> QED  BY <1>1 DEF Stage!Next

\* What is accepted after a step that Durable follows is safe.
LEMMA AcceptedIsSafe ==
    ASSUME Durable'
    PROVE  Accepted' \subseteq Stage!Safe'
BY DEF Durable, Accepted, Stage!Safe, PayloadsPending

LEMMA StageTakes ==
    ASSUME Durable', NEW S \in SUBSET Payload, NEW K \in SUBSET S, NEW D \in SUBSET S,
           Accepted' = Accepted \cup S, PayloadsPending' = PayloadsPending \cup K,
           Delivered' = Delivered \cup D, dropped' = dropped
    PROVE  Stage!Next
<1>1. S \subseteq Stage!Safe'
  BY AcceptedIsSafe
<1>2. Stage!Take(S)
  BY <1>1 DEF Stage!Take, Accepted, Delivered
<1> QED  BY <1>2 DEF Stage!Next

LEMMA StageDrops ==
    ASSUME Durable', NEW S \in SUBSET Payload, NEW m \in Payload,
           Accepted' = Accepted \cup S, Delivered' = Delivered,
           PayloadsPending' \subseteq PayloadsPending,
           PayloadsPending \ {m} \subseteq PayloadsPending',
           dropped' = dropped \cup {m}
    PROVE  Stage!Next
<1>1. S \subseteq Stage!Safe'
  BY AcceptedIsSafe
<1>2. PayloadsPending' \in {PayloadsPending, PayloadsPending \ {m}}
  OBVIOUS
<1>3. Stage!Drop(m, S)
  BY <1>1, <1>2 DEF Stage!Drop, Accepted, Delivered
<1> QED  BY <1>3 DEF Stage!Next

\* What an add that stays in the file loses, it loses to a justified ack.
LEMMA StageReleases ==
    ASSUME TypeOK, TypeOK', AckJustified', Pending(log) \subseteq Added(log'),
           PayloadsPending' \subseteq PayloadsPending,
           Accepted' = Accepted, Delivered' = Delivered, dropped' = dropped
    PROVE  Stage!Next
<1> DEFINE S == PayloadsPending \ PayloadsPending'
<1>1. \A item \in Added(log) : item.payload \in Payload
  BY ItemTypes DEF Item
<1>2. S \in SUBSET Payload
  BY <1>1 DEF PayloadsPending, Pending
<1>3. ASSUME NEW p \in S, p \in Accepted PROVE p \in Delivered \cup dropped
  <2>1. PICK item \in Pending(log) : item.payload = p
    BY DEF PayloadsPending
  <2>2. item \notin Pending(log')
    BY <2>1 DEF PayloadsPending
  <2>3. item.id \in Acked(log') /\ item \in Added(log')
    BY <2>2 DEF Pending
  <2>4. Justified(p)'
    BY <2>1, <2>3 DEF AckJustified
  <2>5. p \in Payload /\ outcome'[p] = "accepted"
    BY <1>2, <1>3 DEF Accepted
  <2>6. topic'[p] > 0 \/ p \in dropped'
    BY <2>4, <2>5 DEF Justified
  <2> QED  BY <2>5, <2>6 DEF Delivered
<1>4. PayloadsPending' = PayloadsPending \ S
  OBVIOUS
<1>5. S \cap Accepted \subseteq Delivered \cup dropped
  BY <1>3
<1> HIDE DEF S
<1>6. Stage!Release(S)
  BY <1>4, <1>5 DEF Stage!Release, Accepted, Delivered
<1> QED  BY <1>2, <1>6 DEF Stage!Next

\* Acks take payloads from the pending ones and leave the adds.
LEMMA AcksShrink ==
    ASSUME NEW l, NEW m, Added(m) = Added(l), Acked(l) \subseteq Acked(m)
    PROVE  Pending(m) \subseteq Pending(l) /\ Pending(l) \subseteq Added(m)
BY DEF Pending

\* The end of a request as its clients see it.
LEMMA ToldAccepted ==
    ASSUME TypeOK
    PROVE  /\ outcome' = Told("writing", "accepted") =>
                Accepted' = Accepted \cup {p \in Payload : outcome[p] = "writing"}
           /\ \A o \in {"unknown", "rejected"} : outcome' = Told("writing", o) => Accepted' = Accepted
<1>1. ASSUME outcome' = Told("writing", "accepted")
      PROVE  Accepted' = Accepted \cup {p \in Payload : outcome[p] = "writing"}
  BY <1>1, ToldChanges DEF Accepted
<1>2. ASSUME NEW o \in {"unknown", "rejected"}, outcome' = Told("writing", o)
      PROVE  Accepted' = Accepted
  <2>1. \A p \in Payload : outcome'[p] = IF outcome[p] = "writing" THEN o ELSE outcome[p]
    BY <1>2, ToldChanges
  <2> QED  BY <2>1 DEF Accepted
<1> QED  BY <1>1, <1>2

\* The files of the handler: with the add of the payload in hand, or without.
LEMMA AddOutcome ==
    ASSUME Benign, TypeOK, DurableInv, todo > 0,
           NEW o \in AppendOutcomes(log, <<AddRec(NewItem)>>)
    PROVE  /\ <<AddRec(NewItem)>> \in Seq(Record)
           /\ o.log = log \/ o.log = log \o <<AddRec(NewItem)>>
           /\ o.res # "error" => o.log = log \o <<AddRec(NewItem)>>
           /\ Added(log \o <<AddRec(NewItem)>>) = Added(log) \cup {NewItem}
           /\ Acked(log \o <<AddRec(NewItem)>>) = Acked(log)
           /\ NewItem.id \notin Acked(log)
<1> DEFINE r == <<AddRec(NewItem)>>
<1>1. /\ Serving /\ wal # "none" /\ Whole(log) /\ log \in Seq(Record)
      /\ NewItem \in Item /\ nextID \in Nat
  BY HandlerState
<1>2. r \in Seq(Record) /\ Whole(r) /\ Added(r) = {NewItem} /\ Acked(r) = {}
  <2>1. AddRec(NewItem) \in Record
    BY <1>1, RecordTypes
  <2>2. r \in Seq(Record)
    BY <2>1
  <2>3. Whole(r) /\ Added(r) = {NewItem} /\ Acked(r) = {}
    BY <1>1, SingleRecords
  <2> QED  BY <2>2, <2>3
<1> HIDE DEF r
<1>3. /\ o.log = log \/ o.log = log \o r
      /\ o.res # "error" => o.log = log \o r
  BY <1>1, <1>2, AppendEffect DEF r
<1>4. Added(log \o r) = Added(log) \cup {NewItem} /\ Acked(log \o r) = Acked(log)
  <2>1. Added(log \o r) = Added(log) \cup Added(r) /\ Acked(log \o r) = Acked(log) \cup Acked(r)
    BY <1>1, <1>2, ConcatWal
  <2> QED  BY <1>2, <2>1
<1>5. NewItem.id \notin Acked(log)
  <2>1. \A i \in Acked(log) : i \in Nat /\ i <= nextID
    BY <1>1, ItemTypes DEF DurableInv, IdInv, Ids
  <2>2. NewItem.id = nextID + 1
    BY DEF NewItem
  <2> QED  BY <1>1, <2>1, <2>2
<1> QED  BY <1>2, <1>3, <1>4, <1>5 DEF r

LEMMA AddFile ==
    ASSUME Benign, TypeOK, DurableInv, todo > 0,
           NEW o \in AppendOutcomes(log, <<AddRec(NewItem)>>), log' = o.log
    PROVE  /\ \/ PayloadsPending' = PayloadsPending
              \/ PayloadsPending' = PayloadsPending \cup {InHand}
           /\ o.res # "error" => PayloadsPending' = PayloadsPending \cup {InHand}
<1> DEFINE m == log \o <<AddRec(NewItem)>>
<1>1. Added(m) = Added(log) \cup {NewItem} /\ Acked(m) = Acked(log) /\ NewItem.id \notin Acked(log)
  BY AddOutcome
<1>2. (o.log = log \/ o.log = m) /\ (o.res # "error" => o.log = m)
  BY AddOutcome
<1> HIDE DEF m
<1>3. Pending(m) = Pending(log) \cup {NewItem} /\ NewItem.payload = InHand
  BY <1>1 DEF Pending, NewItem
<1>4. log' = m => PayloadsPending' = PayloadsPending \cup {InHand}
  BY <1>3 DEF PayloadsPending
<1>5. log' = log => PayloadsPending' = PayloadsPending
  BY DEF PayloadsPending
<1> QED  BY <1>2, <1>4, <1>5

StageStep == Stage!Next \/ UNCHANGED Stage!vars

LEMMA StageLifecycle ==
    ASSUME Benign, TypeOK, TypeOK', DurableInv, DurableInv', Lifecycle
    PROVE  StageStep
<1>1. AckJustified'
  BY DEF DurableInv
<1>2. ASSUME Reset, Added(log') = Added(log), Acked(log) \subseteq Acked(log')
      PROVE  Stage!Next
  <2>1. Pending(log') \subseteq Pending(log) /\ Pending(log) \subseteq Added(log')
    BY <1>2, AcksShrink
  <2>2. PayloadsPending' \subseteq PayloadsPending
    BY <2>1 DEF PayloadsPending
  <2>3. Accepted' = Accepted
    BY <1>2, ToldAccepted DEF Reset
  <2>4. Delivered' = Delivered /\ dropped' = dropped
    BY <1>2 DEF Reset, Delivered
  <2> QED  BY <1>1, <2>1, <2>2, <2>3, <2>4, StageReleases
<1>3. CASE Start \/ BeginShutdown \/ CloseWAL
  <2>1. log' = log /\ outcome' = outcome /\ topic' = topic /\ dropped' = dropped
    BY <1>3 DEF Start, BeginShutdown, CloseWAL, request
  <2> QED  BY <2>1, StageStutters DEF StageStep, Accepted, Delivered, PayloadsPending
<1>4. CASE InitFails
  BY <1>4 DEF InitFails, FileAtOpen, Benign, DurableInv, ControlInv
<1>5. CASE InitQueue
  <2>1. log' \in Compacted(log) /\ log \in Seq(Record)
    BY <1>5 DEF InitQueue, Renamed, FileAtOpen, Benign, TypeOK, DataTypes
  <2>2. Added(log') = Pending(log) /\ Acked(log') = {}
    BY <2>1, CompactedEffect
  <2>3. PayloadsPending' = PayloadsPending
    BY <2>2 DEF PayloadsPending, Pending
  <2>4. outcome' = outcome /\ topic' = topic /\ dropped' = dropped
    BY <1>5 DEF InitQueue, Renamed, request
  <2> QED  BY <2>3, <2>4, StageStutters DEF StageStep, Accepted, Delivered
<1>6. CASE Crash
  <2>1. Added(log') = Added(log) /\ Acked(log) \subseteq Acked(log')
    BY <1>6, CrashFile
  <2> QED  BY <1>2, <1>6, <2>1 DEF Crash, StageStep
<1>7. CASE Exit
  BY <1>2, <1>7 DEF Exit, StageStep
<1> QED  BY <1>3, <1>4, <1>5, <1>6, <1>7 DEF Lifecycle

\* A write to Kafka that fails may have stored a part of it.
LEMMA StoresDeliver ==
    ASSUME TypeOK, NEW S, topic' = Stored(S)
    PROVE  Delivered' = Delivered \cup (S \cap Payload)
<1>1. ASSUME NEW p \in Payload
      PROVE  /\ topic[p] \in 0..2
             /\ topic'[p] = IF p \in S /\ topic[p] < 2 THEN topic[p] + 1 ELSE topic[p]
  BY DEF TypeOK, DataTypes, Stored
<1>2. ASSUME NEW p \in Payload PROVE topic'[p] > 0 <=> topic[p] > 0 \/ p \in S
  BY <1>1
<1> QED  BY <1>2 DEF Delivered

LEMMA StageRequest ==
    ASSUME Benign, TypeOK, TypeOK', DurableInv, DurableInv', Request
    PROVE  StageStep
<1>1. PICK n \in 1..MaxRequest : Refuse(n) \/ Admit(n) \/ DirectWrite(n)
  BY DEF Request
<1>2. /\ \A p \in Payload : p \in New(n) => arrived < p /\ p <= arrived + n
      /\ arrived \in Nat /\ n \in Nat /\ Payload \subseteq Nat /\ New(n) \subseteq Payload
      /\ outcome \in [Payload -> {"none", "writing", "accepted", "rejected", "unknown"}]
  BY <1>1, ConstantsAssumption DEF New, Payload, TypeOK, DataTypes, Refuse, Admit, DirectWrite, Arrives
<1>3. \A p \in Payload : p \in New(n) => outcome[p] = "none"
  BY <1>2 DEF DurableInv, RequestInv
<1>4. log' = log /\ dropped' = dropped /\ PayloadsPending' = PayloadsPending
  BY <1>1 DEF Refuse, Admit, DirectWrite, TriedBefore, PayloadsPending
<1>5. CASE Refuse(n) \/ Admit(n)
  <2>1. PICK S : topic' = Stored(S)
    BY <1>5 DEF Refuse, Admit, TriedBefore
  <2>2. Delivered' = Delivered \cup (S \cap Payload)
    BY <2>1, StoresDeliver
  <2>3. \A p \in Payload : outcome'[p] = "accepted" <=> outcome[p] = "accepted"
    BY <1>2, <1>3, <1>5 DEF Refuse, Admit
  <2>4. Accepted' = Accepted
    BY <2>3 DEF Accepted
  <2> QED  BY <1>4, <2>2, <2>4, StageDelivers DEF StageStep
<1>6. CASE DirectWrite(n)
  <2>1. Delivered' = Delivered \cup New(n)
    <3>1. topic' = Stored(New(n))
      BY <1>6 DEF DirectWrite
    <3>2. New(n) \cap Payload = New(n)
      BY <1>2
    <3> QED  BY <3>1, <3>2, StoresDeliver
  <2>2. \A p \in Payload : outcome'[p] = IF p \in New(n) THEN "accepted" ELSE outcome[p]
    BY <1>6 DEF DirectWrite
  <2>3. Accepted' = Accepted \cup New(n)
    BY <1>2, <2>2 DEF Accepted
  <2>4. Durable'
    BY DurableInvImplies, PTL
  <2> DEFINE K == {}
             D == New(n)
  <2>5. K \subseteq New(n) /\ D \subseteq New(n) /\ PayloadsPending' = PayloadsPending \cup K
        /\ Delivered' = Delivered \cup D
    BY <1>4, <2>1
  <2> HIDE DEF K, D
  <2> QED  BY <1>2, <1>4, <2>3, <2>4, <2>5, StageTakes DEF StageStep
<1> QED  BY <1>1, <1>5, <1>6

LEMMA StageEnqueue ==
    ASSUME Benign, TypeOK, TypeOK', DurableInv, DurableInv', Enqueue \/ LogNewcomer
    PROVE  StageStep
<1>1. PICK o \in AppendOutcomes(log, <<AddRec(NewItem)>>) :
        /\ log' = o.log
        /\ \/ o.res = "error" /\ RequestFails
           \/ o.res # "error" /\ PayloadQueued
           \/ o.res # "error" /\ outcome' = outcome
  BY DEF Enqueue, LogNewcomer
<1>2. todo > 0 /\ topic' = topic /\ dropped' = dropped
  BY DEF Enqueue, LogNewcomer
<1>3. /\ \/ PayloadsPending' = PayloadsPending
         \/ PayloadsPending' = PayloadsPending \cup {InHand}
      /\ o.res # "error" => PayloadsPending' = PayloadsPending \cup {InHand}
  BY <1>1, <1>2, AddFile
<1>4. InHand \in Payload /\ outcome[InHand] = "writing" /\ Delivered' = Delivered
  BY <1>2, HandlerState DEF Delivered
<1>5. ASSUME Accepted' = Accepted PROVE Stage!Next
  <2>1. PICK S \in {{}, {InHand}} : PayloadsPending' = PayloadsPending \cup S
    BY <1>3
  <2>2. S \in SUBSET Payload
    BY <1>4
  <2> QED  BY <1>2, <1>4, <1>5, <2>1, <2>2, StageKeeps
<1>6. CASE RequestFails
  BY <1>5, <1>6, ToldAccepted DEF RequestFails, StageStep
<1>7. CASE outcome' = outcome
  BY <1>5, <1>7 DEF Accepted, StageStep
<1>8. CASE o.res # "error" /\ PayloadQueued /\ outcome' # outcome
  <2> DEFINE S == {p \in Payload : outcome[p] = "writing"}
             K == {InHand}
             D == {}
  <2>1. outcome' = Told("writing", "accepted")
    BY <1>8 DEF PayloadQueued
  <2>2. Accepted' = Accepted \cup S
    BY <2>1, ToldAccepted
  <2>3. S \in SUBSET Payload /\ K \in SUBSET S /\ D \in SUBSET S
        /\ PayloadsPending' = PayloadsPending \cup K /\ Delivered' = Delivered \cup D
    BY <1>3, <1>4, <1>8
  <2>4. Durable'
    BY DurableInvImplies, PTL
  <2> HIDE DEF S, K, D
  <2> QED  BY <1>2, <2>2, <2>3, <2>4, StageTakes DEF StageStep
<1> QED  BY <1>1, <1>6, <1>7, <1>8

LEMMA StageDropHead ==
    ASSUME Benign, TypeOK, TypeOK', DurableInv, DurableInv', DropHead
    PROVE  StageStep
<1> DEFINE m == Head(queue).payload
           head == <<AckRec(Head(queue))>>
           undone == <<AckRec(Newcomer)>>
<1>1. /\ turn = "ack" /\ todo > 0 /\ queue # <<>> /\ queue \in Seq(Item) /\ DropOldest
      /\ topic' = topic /\ Delivered' = Delivered
  BY DEF DropHead, TypeOK, DataTypes, DurableInv, ControlInv, Delivered
<1>2. Serving /\ Whole(log) /\ log \in Seq(Record)
  BY <1>1, HandlerState
<1>3. Head(queue) \in Held /\ Head(queue) \in Item /\ Newcomer \in Item
  <2>1. Head(queue) = queue[1] /\ 1 \in DOMAIN queue
    BY <1>1
  <2> QED  BY <1>1, <2>1, HeldCases, ItemTypes
<1>4. m \in Payload
  BY <1>3 DEF Item
<1>5. /\ head \in Seq(Record) /\ Whole(head) /\ Added(head) = {} /\ Acked(head) = {Head(queue).id}
      /\ undone \in Seq(Record) /\ Whole(undone) /\ Added(undone) = {}
  <2>1. AckRec(Head(queue)) \in Record /\ AckRec(Newcomer) \in Record
    BY <1>3, RecordTypes
  <2>2. head \in Seq(Record) /\ undone \in Seq(Record)
    BY <2>1
  <2>3. Whole(head) /\ Added(head) = {} /\ Acked(head) = {Head(queue).id}
    BY <1>3, SingleRecords
  <2>4. Whole(undone) /\ Added(undone) = {}
    BY <1>3, SingleRecords
  <2> QED  BY <2>2, <2>3, <2>4
<1>6. PICK o \in AckOutcomes(log, head) :
        \/ /\ o.res = "ok"
           /\ log' = o.log
           /\ dropped' = dropped \cup {m}
           /\ PayloadQueued
        \/ /\ o.res = "error"
           /\ \E undo \in AckOutcomes(o.log, undone) : log' = undo.log
           /\ RequestFails
           /\ UNCHANGED dropped
  BY DEF DropHead
<1> HIDE DEF head, undone, m
<1>7. /\ o.log = log \/ o.log = log \o head
      /\ o.res = "error" => o.log = log
  BY <1>1, <1>2, <1>5, AckEffect
<1>8. CASE o.res = "ok"
  <2>1. log' = o.log /\ dropped' = dropped \cup {m} /\ PayloadQueued
    BY <1>6, <1>8
  <2>2. Added(log \o head) = Added(log) /\ Acked(log \o head) = Acked(log) \cup {Head(queue).id}
    <3>1. /\ Added(log \o head) = Added(log) \cup Added(head)
          /\ Acked(log \o head) = Acked(log) \cup Acked(head)
      BY <1>2, <1>5, ConcatWal
    <3> QED  BY <1>5, <3>1
  <2>3. \A item \in Added(log) : item.id = Head(queue).id => item.payload = m
    BY <1>3 DEF DurableInv, IdInv, m
  <2>4. /\ Pending(log') \subseteq Pending(log)
        /\ \A item \in Pending(log) : item \in Pending(log') \/ item.payload = m
    <3>1. CASE log' = log
      BY <3>1
    <3>2. CASE log' = log \o head
      BY <2>2, <2>3, <3>2 DEF Pending
    <3> QED  BY <1>7, <2>1, <3>1, <3>2
  <2>5. PayloadsPending' \subseteq PayloadsPending /\ PayloadsPending \ {m} \subseteq PayloadsPending'
    BY <2>4 DEF PayloadsPending
  <2>6. PICK S \in SUBSET Payload : Accepted' = Accepted \cup S
    <3>1. CASE outcome' = outcome
      <4>1. Accepted' = Accepted \cup {}
        BY <3>1 DEF Accepted
      <4> QED  BY <4>1
    <3>2. CASE outcome' = Told("writing", "accepted")
      BY <3>2, ToldAccepted
    <3> QED  BY <2>1, <3>1, <3>2 DEF PayloadQueued
  <2>7. Durable'
    BY DurableInvImplies, PTL
  <2> QED  BY <1>1, <1>4, <2>1, <2>5, <2>6, <2>7, StageDrops DEF StageStep
<1>9. CASE o.res = "error"
  <2>1. o.log = log /\ RequestFails /\ dropped' = dropped
        /\ \E undo \in AckOutcomes(o.log, undone) : log' = undo.log
    BY <1>6, <1>7, <1>9
  <2>2. PICK undo \in AckOutcomes(log, undone) : log' = undo.log
    BY <2>1
  <2>3. log' = log \/ log' = log \o undone
    BY <1>2, <1>5, <2>2, AckEffect
  <2>4. Added(log') = Added(log) /\ Acked(log) \subseteq Acked(log')
    <3>1. /\ Added(log \o undone) = Added(log) \cup Added(undone)
          /\ Acked(log \o undone) = Acked(log) \cup Acked(undone)
      BY <1>2, <1>5, ConcatWal
    <3> QED  BY <1>5, <2>3, <3>1
  <2>5. Pending(log') \subseteq Pending(log) /\ Pending(log) \subseteq Added(log')
    BY <2>4, AcksShrink
  <2>6. PayloadsPending' \subseteq PayloadsPending /\ AckJustified'
    BY <2>5 DEF PayloadsPending, DurableInv
  <2>7. Accepted' = Accepted
    BY <2>1, ToldAccepted DEF RequestFails
  <2> QED  BY <1>1, <2>1, <2>5, <2>6, <2>7, StageReleases DEF StageStep
<1> QED  BY <1>6, <1>8, <1>9

LEMMA StageFlush ==
    ASSUME Benign, TypeOK, TypeOK', DurableInv, DurableInv', NEW f \in Flusher, Flush(f)
    PROVE  StageStep
<1>1. Accepted' = Accepted /\ dropped' = dropped
  BY DEF Flush, Pick, WriteSucceeds, WriteFails, Finalize, request, Accepted
<1>2. CASE Pick(f)
  <2>1. log' = log /\ topic' = topic
    BY <1>2 DEF Pick
  <2> QED  BY <1>1, <2>1, StageStutters DEF StageStep, PayloadsPending, Delivered
<1>3. CASE WriteSucceeds(f) \/ WriteFails(f)
  <2>1. log' = log /\ \E S : topic' = Stored(S)
    BY <1>3 DEF WriteSucceeds, WriteFails
  <2>2. PICK S : topic' = Stored(S)
    BY <2>1
  <2>3. Delivered' = Delivered \cup (S \cap Payload) /\ PayloadsPending' = PayloadsPending
    BY <2>1, <2>2, StoresDeliver DEF PayloadsPending
  <2> QED  BY <1>1, <2>3, StageDelivers DEF StageStep
<1>4. CASE Finalize(f)
  <2> DEFINE b == batch[f]
  <2>1. /\ pc[f] = "finalize" /\ b \in Seq(Item) /\ topic' = topic
    BY <1>4 DEF Finalize, TypeOK, FlusherTypes
  <2>2. PICK n \in 0..Len(b) :
          \E o \in IF n = 0 THEN {[log |-> log, res |-> "ok"]}
                   ELSE AckOutcomes(log, Acks(b, n)) : log' = o.log
    BY <1>4 DEF Finalize
  <2>3. Serving /\ Whole(log) /\ log \in Seq(Record)
    BY <2>1, FlusherHolds DEF DurableInv, ControlInv, TypeOK, DataTypes
  <2> HIDE DEF b
  <2>4. Acks(b, n) \in Seq(Record) /\ Whole(Acks(b, n)) /\ Added(Acks(b, n)) = {}
    BY <2>1, AckRecords
  <2>5. log' = log \/ log' = log \o Acks(b, n)
    <3>1. CASE n = 0
      BY <2>2, <3>1
    <3>2. CASE n # 0
      BY <2>2, <2>3, <2>4, <3>2, AckEffect
    <3> QED  BY <3>1, <3>2
  <2>6. Added(log') = Added(log) /\ Acked(log) \subseteq Acked(log')
    <3>1. /\ Added(log \o Acks(b, n)) = Added(log) \cup Added(Acks(b, n))
          /\ Acked(log \o Acks(b, n)) = Acked(log) \cup Acked(Acks(b, n))
      BY <2>3, <2>4, ConcatWal
    <3> QED  BY <2>4, <2>5, <3>1
  <2>7. Pending(log') \subseteq Pending(log) /\ Pending(log) \subseteq Added(log')
    BY <2>6, AcksShrink
  <2>8. PayloadsPending' \subseteq PayloadsPending /\ AckJustified' /\ Delivered' = Delivered
    BY <2>1, <2>7 DEF PayloadsPending, DurableInv, Delivered
  <2> QED  BY <1>1, <2>7, <2>8, StageReleases DEF StageStep
<1> QED  BY <1>2, <1>3, <1>4 DEF Flush

LEMMA StageLoop ==
    ASSUME TypeOK, LoopWakes \/ CheckSize \/ NothingToCompact \/ Compact
    PROVE  StageStep
<1>1. outcome' = outcome /\ topic' = topic /\ dropped' = dropped
  BY DEF LoopWakes, CheckSize, NothingToCompact, Compact, request
<1>2. log' = log \/ log' \in Compacted(log)
  BY DEF LoopWakes, CheckSize, NothingToCompact, Compact
<1>3. Pending(log') = Pending(log)
  <2>1. CASE log' \in Compacted(log)
    <3>1. Added(log') = Pending(log) /\ Acked(log') = {}
      BY <2>1, CompactedEffect DEF TypeOK, DataTypes
    <3> QED  BY <3>1 DEF Pending
  <2> QED  BY <1>2, <2>1
<1> QED  BY <1>1, <1>3, StageStutters DEF StageStep, Accepted, Delivered, PayloadsPending

LEMMA StageStart == Init => Stage!Init
<1> SUFFICES ASSUME Init PROVE Stage!Init
  OBVIOUS
<1>1. Added(log) = {}
  BY DEF Init, Added, Having
<1>2. Accepted = {} /\ Delivered = {} /\ PayloadsPending = {} /\ dropped = {}
  BY <1>1 DEF Init, Accepted, Delivered, PayloadsPending, Pending
<1> QED  BY <1>2 DEF Stage!Init, Accepted, Delivered

\* The ingest service keeps the promise of a stage at every step: it tells a
\* client "accepted" only for a payload that is safe, and lets the WAL forget an
\* accepted payload only once it is in Kafka or dropped on record.
THEOREM QueueIsAtLeastOnce ==
    ASSUME Benign
    PROVE  Spec => IsAtLeastOnce
<1>1. TypeOK /\ TypeOK' /\ DurableInv /\ DurableInv' /\ [Next]_vars => [Stage!Next]_(Stage!vars)
  <2> SUFFICES ASSUME TypeOK, TypeOK', DurableInv, DurableInv', [Next]_vars PROVE StageStep
    BY DEF StageStep
  <2>1. CASE UNCHANGED vars
    <3>1. log' = log /\ outcome' = outcome /\ topic' = topic /\ dropped' = dropped
      BY <2>1 DEF vars, request
    <3> QED  BY <3>1, StageStutters DEF StageStep, Accepted, Delivered, PayloadsPending
  <2>2. CASE Next
    BY <2>2, StageLifecycle, StageRequest, StageEnqueue, StageDropHead, StageFlush, StageLoop
       DEF Next, Handler
  <2> QED  BY <2>1, <2>2
<1> QED  BY <1>1, StageStart, DurableInvariant, PTL DEF Spec, IsAtLeastOnce, Stage!Spec

=============================================================================
