------------------------- MODULE IngestOrderProofs -------------------------
(***************************************************************************)
(* The queue and its WAL stay in order of arrival (SortInv), and on that   *)
(* rest three results about the same Spec: payloads reach Kafka in order,  *)
(* the file holds what the queue holds, and the queue keeps to its size.   *)
(***************************************************************************)
EXTENDS IngestQueueProofs

(***************************************************************************)
(* The order of the adds in a file.                                        *)
(***************************************************************************)

LEMMA RisingConcat ==
    ASSUME NEW l \in Seq(Record), NEW r \in Seq(Record), RisingAdds(l), RisingAdds(r),
           \A i \in Having(l, "add"), j \in Having(r, "add") : l[i].payload < r[j].payload
    PROVE  RisingAdds(l \o r)
<1> DEFINE m == l \o r
<1>1. ASSUME NEW k \in DOMAIN m
      PROVE  /\ k \in Nat
             /\ \/ k \in DOMAIN l /\ m[k] = l[k]
                \/ k > Len(l) /\ k - Len(l) \in DOMAIN r /\ m[k] = r[k - Len(l)]
  OBVIOUS
<1>2. DOMAIN l = 1..Len(l) /\ Len(l) \in Nat
  OBVIOUS
<1> HIDE DEF m
<1>3. ASSUME NEW i \in Having(m, "add"), NEW j \in Having(m, "add"), i < j
      PROVE  m[i].payload < m[j].payload
  <2>1. i \in DOMAIN m /\ j \in DOMAIN m /\ m[i].op = "add" /\ m[j].op = "add"
    BY DEF Having
  <2>2. CASE i \in DOMAIN l /\ m[i] = l[i] /\ j \in DOMAIN l /\ m[j] = l[j]
    BY <1>3, <2>1, <2>2 DEF RisingAdds, Having
  <2>3. CASE /\ i \in DOMAIN l /\ m[i] = l[i]
             /\ j - Len(l) \in DOMAIN r /\ m[j] = r[j - Len(l)]
    BY <2>1, <2>3 DEF Having
  <2>4. CASE /\ i - Len(l) \in DOMAIN r /\ m[i] = r[i - Len(l)]
             /\ j - Len(l) \in DOMAIN r /\ m[j] = r[j - Len(l)]
    <3>1. i - Len(l) < j - Len(l)
      BY <1>1, <1>2, <1>3, <2>1
    <3>2. i - Len(l) \in Having(r, "add") /\ j - Len(l) \in Having(r, "add")
      BY <2>1, <2>4 DEF Having
    <3> QED  BY <2>4, <3>1, <3>2 DEF RisingAdds
  <2>5. ~(i > Len(l) /\ j \in DOMAIN l)
    BY <1>1, <1>2, <1>3, <2>1
  <2> QED  BY <1>1, <2>1, <2>2, <2>3, <2>4, <2>5
<1> QED  BY <1>3 DEF RisingAdds, m

LEMMA RisingMore ==
    ASSUME NEW l \in Seq(Record), NEW r \in Seq(Record), RisingAdds(l), Added(r) = {}
    PROVE  RisingAdds(l \o r)
<1>1. Having(r, "add") = {}
  BY DEF Added
<1>2. RisingAdds(r)
  BY <1>1 DEF RisingAdds
<1> QED  BY <1>1, <1>2, RisingConcat

\* The file keeps its adds and their order when acks are written at its end.
LEMMA AcksMore ==
    ASSUME NEW l \in Seq(Record), NEW r \in Seq(Record), RisingAdds(l), Added(r) = {}
    PROVE  RisingAdds(l \o r) /\ Added(l \o r) = Added(l)
<1>1. RisingAdds(l \o r)
  BY RisingMore
<1>2. Added(l \o r) = Added(l) \cup Added(r)
  BY ConcatWal
<1> QED  BY <1>1, <1>2

LEMMA RisingAdd ==
    ASSUME NEW l \in Seq(Record), NEW item \in Item, RisingAdds(l),
           \A a \in Added(l) : a.payload < item.payload
    PROVE  RisingAdds(l \o <<AddRec(item)>>)
<1> DEFINE r == <<AddRec(item)>>
<1>1. AddRec(item) \in Record /\ AddRec(item).payload = item.payload
  BY RecordTypes DEF AddRec
<1>2. r \in Seq(Record) /\ DOMAIN r = {1} /\ r[1] = AddRec(item)
  BY <1>1
<1>3. RisingAdds(r)
  BY <1>2 DEF RisingAdds, Having
<1>4. ASSUME NEW i \in Having(l, "add"), NEW j \in Having(r, "add")
      PROVE  l[i].payload < r[j].payload
  <2>1. r[j].payload = item.payload
    BY <1>1, <1>2 DEF Having
  <2>2. ItemOf(l[i]) \in Added(l) /\ ItemOf(l[i]).payload = l[i].payload
    BY DEF Added, ItemOf
  <2> QED  BY <2>1, <2>2
<1> HIDE DEF r
<1>5. RisingAdds(l \o r)
  BY <1>2, <1>3, <1>4, RisingConcat
<1> QED  BY <1>5 DEF r

\* A rewrite keeps the order, and the items it keeps are in it.
LEMMA RisingCompacted ==
    ASSUME NEW l \in Seq(Record), NEW c \in Compacted(l), RisingAdds(l)
    PROVE  RisingAdds(c) /\ Rising([k \in DOMAIN c |-> ItemOf(c[k])])
<1> DEFINE I == {k \in Having(l, "add") : l[k].id \notin Acked(l)}
<1>1. PICK f \in [1..Cardinality(I) -> I] :
        /\ \A a, b \in DOMAIN f : a < b => f[a] < f[b]
        /\ c = [k \in DOMAIN f |-> l[f[k]]]
  BY DEF Compacted
<1>2. \A i \in I : i \in Having(l, "add")
  OBVIOUS
<1> HIDE DEF I
<1>3. DOMAIN c = DOMAIN f /\ \A k \in DOMAIN f : c[k] = l[f[k]] /\ f[k] \in Having(l, "add")
  BY <1>1, <1>2
<1>4. \A i, j \in DOMAIN c : i < j => c[i].payload < c[j].payload
  BY <1>1, <1>3 DEF RisingAdds
<1>5. \A k : ItemOf(c[k]).payload = c[k].payload
  BY DEF ItemOf
<1> QED  BY <1>4, <1>5 DEF RisingAdds, Rising, Having

(***************************************************************************)
(* SortInv is inductive.                                                   *)
(***************************************************************************)

InMemory == Queued \cup UNION {Picked(f) : f \in Flusher}

LEMMA InMemoryCases ==
    /\ \A h : h \in InMemory <=> \/ \E k \in DOMAIN queue : h = queue[k]
                                 \/ \E f \in Flusher : \E k \in DOMAIN batch[f] : h = batch[f][k]
    /\ InMemory \subseteq Held
    /\ Held = InMemory \cup (IF turn = "ack" THEN {Newcomer} ELSE {})
<1>1. \A h : h \in Queued <=> \E k \in DOMAIN queue : h = queue[k]
  BY DEF Queued
<1>2. \A f, h : h \in Picked(f) <=> \E k \in DOMAIN batch[f] : h = batch[f][k]
  BY DEF Picked
<1>3. \A h : h \in UNION {Picked(f) : f \in Flusher} <=> \E f \in Flusher : h \in Picked(f)
  OBVIOUS
<1>4. Held = InMemory \cup (IF turn = "ack" THEN {Newcomer} ELSE {})
  BY DEF Held, InMemory
<1> QED  BY <1>1, <1>2, <1>3, <1>4 DEF InMemory

LEMMA HandTypes ==
    ASSUME TypeOK
    PROVE  /\ arrived \in Nat /\ todo \in Nat /\ todo <= arrived /\ Payload \subseteq Nat
           /\ InHand = arrived - todo + 1 /\ InHand \in Nat
           /\ queue \in Seq(Item) /\ log \in Seq(Record)
           /\ turn = "ack" => todo > 0
           /\ \A a \in Held \cup Added(log) : a.payload \in Nat /\ a.payload \in Payload /\ a.id \in Nat
<1>1. /\ arrived \in Nat /\ todo \in Nat /\ todo <= arrived /\ Payload \subseteq Nat
      /\ queue \in Seq(Item) /\ log \in Seq(Record) /\ (turn = "ack" => todo > 0)
  BY ConstantsAssumption DEF TypeOK, DataTypes, Payload
<1>2. \A a \in Held \cup Added(log) : a.payload \in Payload /\ a.id \in Nat
  BY ItemTypes DEF Item
<1>3. \A a \in Held \cup Added(log) : a.payload \in Nat
  BY <1>1, <1>2
<1>4. InHand = arrived - todo + 1 /\ InHand \in Nat
  BY <1>1 DEF InHand
<1> QED  BY <1>1, <1>2, <1>3, <1>4

\* What a step must do to keep SortInv, with N what it adds to memory.
LEMMA SortStep ==
    ASSUME TypeOK, DurableInv, SortInv,
           NEW N \in {{}, {NewItem}}, N # {} => Serving,
           Held' \subseteq Held \cup N, Rising(queue'), RisingAdds(log'),
           turn' = "ack" => Len(queue') >= MaxQueue,
           \A a \in InMemory' : a.payload < InHand',
           \A a \in Added(log') : a.payload < InHand' \/ (turn' = "ack" /\ a.payload = InHand')
    PROVE  SortInv'
<1>1. \A a, b \in Held : a.id = b.id => a = b
  BY DEF SortInv
<1>2. \A a \in Held, b \in N : a.id # b.id
  <2>1. N # {} => \A a \in Held : a.id <= nextID /\ a.id \in Nat
    BY HandTypes DEF DurableInv, IdInv
  <2>2. \A b \in N : b.id = nextID + 1
    BY DEF NewItem
  <2>3. nextID \in Nat
    BY DEF TypeOK, DataTypes
  <2> QED  BY <2>1, <2>2, <2>3
<1>3. \A a, b \in N : a = b
  OBVIOUS
<1>4. \A a, b \in Held' : a.id = b.id => a = b
  BY <1>1, <1>2, <1>3
<1> QED  BY <1>4 DEF SortInv, InMemory

\* A step after which nothing is in memory and no add is new.
LEMMA SortReset ==
    ASSUME TypeOK, TypeOK', DurableInv, SortInv, Reset, Added(log') = Added(log), RisingAdds(log')
    PROVE  SortInv'
<1> DEFINE N == {}
<1>1. queue' = <<>> /\ (\A f \in Flusher : batch'[f] = <<>>) /\ turn' = "add"
      /\ arrived' = arrived /\ todo' = 0
  BY DEF Reset
<1>2. Held' = {}
  <2>1. \A h : h \notin Held'
    BY <1>1, HeldCasesNext
  <2> QED  BY <2>1
<1>3. InMemory' = {}
  <2>1. InMemory' \subseteq Held'
    BY DEF InMemory, Held
  <2> QED  BY <1>2, <2>1
<1>4. InHand' = arrived + 1
  BY <1>1, HandTypes DEF InHand
<1>5. \A a \in Added(log') : a.payload < InHand'
  <2>1. \A a \in Added(log) : a.payload \in Nat /\ (a.payload < InHand \/ (todo > 0 /\ a.payload = InHand))
    BY HandTypes DEF SortInv
  <2> QED  BY <1>4, <2>1, HandTypes
<1>6. Rising(queue')
  BY <1>1 DEF Rising
<1>7. N \in {{}, {NewItem}} /\ ~(N # {}) /\ Held' \subseteq Held \cup N
  BY <1>2
<1> HIDE DEF N
<1> QED  BY <1>1, <1>3, <1>5, <1>6, <1>7, SortStep

\* A step that takes no new item to memory and no new add to the file.
LEMMA SortCalm ==
    ASSUME TypeOK, DurableInv, SortInv, UNCHANGED request,
           Held' \subseteq Held, InMemory' \subseteq InMemory,
           queue' = queue \/ todo = 0,
           Rising(queue'), RisingAdds(log'), Added(log') \subseteq Added(log)
    PROVE  SortInv'
<1>0. turn' = "ack" => Len(queue') >= MaxQueue
  BY HandTypes DEF SortInv, request
<1> DEFINE N == {}
<1>1. InHand' = InHand /\ turn' = turn
  BY DEF request, InHand
<1>2. N \in {{}, {NewItem}} /\ ~(N # {}) /\ Held' \subseteq Held \cup N
  OBVIOUS
<1>3. \A a \in InMemory' : a.payload < InHand'
  BY <1>1 DEF SortInv, InMemory
<1>4. \A a \in Added(log') : a.payload < InHand' \/ (turn' = "ack" /\ a.payload = InHand')
  BY <1>1 DEF SortInv
<1> HIDE DEF N
<1> QED  BY <1>0, <1>2, <1>3, <1>4, SortStep

\* A step of the process's control only.
LEMMA SortSame ==
    ASSUME TypeOK, DurableInv, SortInv, UNCHANGED request,
           queue' = queue, batch' = batch, nextID' = nextID,
           log' = log \/ log' \in Compacted(log)
    PROVE  SortInv'
<1>1. Held' = Held /\ InMemory' = InMemory
  BY DEF Held, InMemory, Queued, Picked, Newcomer, InHand, request
<1>2. Rising(queue') /\ RisingAdds(log') /\ Added(log') \subseteq Added(log)
  <2>1. CASE log' = log
    BY <2>1 DEF SortInv
  <2>2. CASE log' \in Compacted(log)
    <3>1. log \in Seq(Record)
      BY HandTypes
    <3>2. Added(log') = Pending(log)
      BY <2>2, <3>1, CompactedEffect
    <3>3. RisingAdds(log')
      BY <2>2, <3>1, RisingCompacted DEF SortInv
    <3> QED  BY <3>2, <3>3 DEF SortInv, Pending
  <2> QED  BY <2>1, <2>2
<1> QED  BY <1>1, <1>2, SortCalm

LEMMA SortLifecycle ==
    ASSUME Benign, TypeOK, TypeOK', DurableInv, DurableInv', SortInv, Lifecycle
    PROVE  SortInv'
<1>1. CASE Start \/ BeginShutdown \/ CloseWAL
  BY <1>1, SortSame DEF Start, BeginShutdown, CloseWAL
<1>2. CASE InitFails
  BY <1>2 DEF InitFails, FileAtOpen, Benign, DurableInv, ControlInv
<1>3. CASE Crash
  <2>1. Added(log') = Added(log)
        /\ (log' = log \/ \E t \in Seq(Record) : log' = log \o t /\ Added(t) = {})
    BY <1>3, CrashFile
  <2>2. RisingAdds(log')
    BY <2>1, HandTypes, RisingMore DEF SortInv
  <2> QED  BY <1>3, <2>1, <2>2, SortReset DEF Crash
<1>4. CASE Exit
  BY <1>4, SortReset DEF Exit, SortInv
<1>5. CASE InitQueue
  <2>1. /\ log' \in Compacted(log) /\ log \in Seq(Record) /\ UNCHANGED <<batch, request>>
        /\ queue' = queue \o [k \in DOMAIN log' |-> ItemOf(log'[k])]
    BY <1>5 DEF InitQueue, Renamed, FileAtOpen, Benign, TypeOK, DataTypes
  <2>2. queue = <<>> /\ turn = "add" /\ \A f \in Flusher : batch[f] = <<>>
    BY <1>5, NotServing DEF InitQueue, Serving
  <2>3. log' \in Seq(Record) /\ Added(log') = Pending(log) /\ Having(log', "add") = DOMAIN log'
    <3>1. log' \in Seq(Record) /\ Added(log') = Pending(log)
      BY <2>1, CompactedEffect
    <3>2. \A k \in DOMAIN log' : log'[k].op = "add"
      BY <2>1, CompactedRecords DEF Having
    <3> QED  BY <3>1, <3>2 DEF Having
  <2> DEFINE items == [k \in DOMAIN log' |-> ItemOf(log'[k])]
  <2>4. RisingAdds(log') /\ Rising(items)
    BY <2>1, RisingCompacted DEF SortInv
  <2>5. queue' = items
    <3>1. DOMAIN items = 1..Len(log') /\ Len(log') \in Nat
      BY <2>3
    <3>2. ASSUME NEW k \in 1..Len(log') PROVE items[k] \in Item
      <4>1. log'[k] \in Record /\ log'[k].op = "add"
        BY <2>3 DEF Having
      <4> QED  BY <4>1 DEF ItemOf, Item, Record
    <3>3. items \in Seq(Item)
      BY <3>1, <3>2
    <3>4. queue' = <<>> \o items
      BY <2>1, <2>2
    <3> HIDE DEF items
    <3> QED  BY <3>3, <3>4
  <2>6. \A a \in Held' : a \in Added(log)
    <3>1. \A k \in DOMAIN queue' : queue'[k] \in Added(log')
      BY <2>3, <2>5 DEF Added
    <3>2. \A h \in Held' : \E k \in DOMAIN queue' : h = queue'[k]
      BY <2>1, <2>2, HeldCasesNext DEF request
    <3> QED  BY <2>3, <3>1, <3>2 DEF Pending
  <2>7. \A a, b \in Held' : a.id = b.id => a = b
    BY <2>6 DEF DurableInv, IdInv
  <2>8. InHand' = InHand /\ turn' = "add" /\ InMemory' \subseteq Held'
    <3>1. InMemory' \subseteq Held'
      BY DEF InMemory, Held
    <3> QED  BY <2>1, <2>2, <3>1 DEF request, InHand
  <2>9. \A a \in Added(log) : a.payload < InHand
    BY <2>2 DEF SortInv
  <2> HIDE DEF items
  <2>10. /\ Rising(queue') /\ RisingAdds(log')
         /\ \A a \in InMemory' : a.payload < InHand'
         /\ \A a \in Added(log') : a.payload < InHand'
    BY <2>3, <2>4, <2>5, <2>6, <2>8, <2>9 DEF Pending
  <2> QED  BY <2>7, <2>8, <2>10 DEF SortInv, InMemory
<1> QED  BY <1>1, <1>2, <1>3, <1>4, <1>5 DEF Lifecycle

LEMMA SortRequest ==
    ASSUME Benign, TypeOK, DurableInv, SortInv, Request
    PROVE  SortInv'
<1>1. PICK n \in 1..MaxRequest : Refuse(n) \/ Admit(n) \/ DirectWrite(n)
  BY DEF Request
<1>2. todo = 0 /\ turn = "add" /\ turn' = "add" /\ arrived' = arrived + n /\ todo' \in {0, n}
  BY <1>1 DEF Refuse, Admit, DirectWrite, TriedBefore, Arrives, MuFree, TypeOK, DataTypes
<1>3. queue' = queue /\ batch' = batch /\ log' = log
  BY <1>1 DEF Refuse, Admit, DirectWrite, TriedBefore
<1>4. n \in Nat /\ arrived \in Nat /\ InHand = arrived + 1 /\ InHand' \in Nat /\ InHand <= InHand'
  <2>1. n \in Nat /\ arrived \in Nat
    BY <1>1, HandTypes, ConstantsAssumption
  <2>2. InHand = arrived + 1 /\ InHand' = (arrived + n) - todo' + 1
    BY <1>2, <2>1, HandTypes DEF InHand
  <2>3. InHand' = arrived + 1 \/ InHand' = arrived + n + 1
    <3>1. CASE todo' = 0
      BY <2>1, <2>2, <3>1
    <3>2. CASE todo' = n
      BY <2>1, <2>2, <3>2
    <3> QED  BY <1>2, <3>1, <3>2
  <2> QED  BY <2>1, <2>2, <2>3
<1>5. Held' = InMemory /\ Held = InMemory /\ InMemory' = InMemory
  BY <1>2, <1>3 DEF Held, InMemory, Queued, Picked
<1>6. \A a \in InMemory \cup Added(log) : a.payload < InHand'
  <2>1. \A a \in InMemory \cup Added(log) : a.payload \in Nat /\ a.payload < InHand
    BY <1>2, <1>5, HandTypes DEF SortInv, InMemory
  <2> QED  BY <1>4, <2>1, HandTypes
<1>7. Rising(queue') /\ RisingAdds(log')
  BY <1>3 DEF SortInv
<1> QED  BY <1>2, <1>3, <1>5, <1>6, <1>7 DEF SortInv, InMemory

\* The end of a request, and what it leaves for the next payload in hand.
LEMMA HandMoves ==
    ASSUME TypeOK, todo > 0, PayloadQueued \/ RequestFails
    PROVE  turn' = "add" /\ InHand < InHand' /\ InHand' \in Nat
<1>1. arrived' = arrived /\ (todo' = todo - 1 \/ todo' = 0) /\ turn' = "add"
  BY DEF PayloadQueued, RequestFails
<1> QED  BY <1>1, HandTypes DEF InHand

\* The file of a step that logs the payload in hand, or fails to.
LEMMA SortAdd ==
    ASSUME Benign, TypeOK, DurableInv, SortInv, todo > 0, turn = "add",
           NEW o \in AppendOutcomes(log, <<AddRec(NewItem)>>), log' = o.log
    PROVE  /\ RisingAdds(log') /\ Added(log') \subseteq Added(log) \cup {NewItem}
           /\ NewItem.payload = InHand /\ NewItem \in Item
           /\ \A a \in Held \cup Added(log) : a.payload < InHand
<1> DEFINE r == <<AddRec(NewItem)>>
<1>1. /\ r \in Seq(Record) /\ (log' = log \/ log' = log \o r)
      /\ Added(log \o r) = Added(log) \cup {NewItem}
  BY AddOutcome
<1>2. NewItem.payload = InHand /\ NewItem \in Item
  BY HandlerState DEF NewItem
<1>3. Held = InMemory
  BY InMemoryCases
<1>4. \A a \in Held \cup Added(log) : a.payload < InHand
  BY <1>3 DEF SortInv, InMemory
<1>5. RisingAdds(log) /\ log \in Seq(Record)
  BY HandTypes DEF SortInv
<1>6. RisingAdds(log \o r)
  BY <1>2, <1>4, <1>5, RisingAdd
<1> HIDE DEF r
<1> QED  BY <1>1, <1>2, <1>4, <1>5, <1>6

LEMMA RisingAppend ==
    ASSUME NEW s \in Seq(Item), NEW item, Rising(s),
           \A k \in DOMAIN s : s[k].payload < item.payload
    PROVE  Rising(Append(s, item))
<1> DEFINE t == Append(s, item)
<1>1. Len(s) \in Nat /\ DOMAIN s = 1..Len(s) /\ DOMAIN t = 1..(Len(s) + 1)
      /\ \A k \in DOMAIN t : t[k] = IF k <= Len(s) THEN s[k] ELSE item
  OBVIOUS
<1> HIDE DEF t
<1>2. ASSUME NEW i \in DOMAIN t, NEW j \in DOMAIN t, i < j PROVE t[i].payload < t[j].payload
  <2>1. i \in DOMAIN s /\ t[i] = s[i]
    BY <1>1, <1>2
  <2>2. CASE j \in DOMAIN s
    BY <1>1, <1>2, <2>1, <2>2 DEF Rising
  <2>3. CASE j \notin DOMAIN s
    BY <1>1, <1>2, <2>1, <2>3
  <2> QED  BY <2>2, <2>3
<1> QED  BY <1>2 DEF Rising, t

LEMMA RisingCut ==
    ASSUME NEW s \in Seq(Item), NEW n \in 0..Len(s), Rising(s)
    PROVE  Rising(SubSeq(s, n + 1, Len(s)))
<1> DEFINE t == SubSeq(s, n + 1, Len(s))
<1>1. \A k \in DOMAIN t : k \in Nat /\ k + n \in DOMAIN s /\ t[k] = s[k + n]
  OBVIOUS
<1> HIDE DEF t
<1>2. ASSUME NEW i \in DOMAIN t, NEW j \in DOMAIN t, i < j PROVE t[i].payload < t[j].payload
  <2>1. i + n < j + n
    BY <1>1, <1>2
  <2> QED  BY <1>1, <2>1 DEF Rising
<1> QED  BY <1>2 DEF Rising, t

LEMMA SortEnqueue ==
    ASSUME Benign, TypeOK, DurableInv, SortInv, Enqueue
    PROVE  SortInv'
<1> DEFINE N == {NewItem}
<1>0. PICK o \in AppendOutcomes(log, <<AddRec(NewItem)>>) :
        /\ log' = o.log
        /\ \/ RequestFails /\ UNCHANGED queue
           \/ PayloadQueued /\ queue' = Append(queue, NewItem)
  BY DEF Enqueue
<1>1. todo > 0 /\ turn = "add" /\ batch' = batch /\ Serving
  <2>1. todo > 0 /\ Len(queue) < MaxQueue /\ batch' = batch
    BY DEF Enqueue
  <2>2. turn = "add"
    BY <2>1, HandTypes, ConstantsAssumption DEF SortInv, TypeOK, DataTypes
  <2> QED  BY <2>1, <2>2, HandlerState
<1>2. /\ RisingAdds(log') /\ Added(log') \subseteq Added(log) \cup N
      /\ NewItem.payload = InHand /\ NewItem \in Item
      /\ \A a \in Held \cup Added(log) : a.payload < InHand
  BY <1>0, <1>1, SortAdd
<1>3. turn' = "add" /\ InHand < InHand' /\ InHand' \in Nat /\ InHand \in Nat
  BY <1>0, <1>1, HandMoves, HandTypes
<1>4. \A k \in DOMAIN queue : queue[k] \in Held
  BY HeldCases
<1>5. queue \in Seq(Item) /\ \A k \in DOMAIN queue' :
        (k \in DOMAIN queue /\ queue'[k] = queue[k]) \/ queue'[k] = NewItem
  <2>1. queue \in Seq(Item)
    BY HandTypes
  <2>2. \A k \in DOMAIN Append(queue, NewItem) :
          \/ k \in DOMAIN queue /\ Append(queue, NewItem)[k] = queue[k]
          \/ Append(queue, NewItem)[k] = NewItem
    BY <2>1
  <2> QED  BY <1>0, <2>1, <2>2
<1>6. Held' \subseteq Held \cup N /\ InMemory' \subseteq Held \cup N
  <2>1. Held' \subseteq Held \cup N
    BY <1>1, <1>3, <1>5, HeldCases, HeldCasesNext
  <2>2. InMemory' \subseteq Held'
    BY DEF InMemory, Held
  <2> QED  BY <2>1, <2>2
<1>7. Rising(queue')
  <2>1. Rising(Append(queue, NewItem))
    BY <1>2, <1>4, <1>5, RisingAppend DEF SortInv
  <2> QED  BY <1>0, <2>1 DEF SortInv
<1>8. \A a \in Held \cup Added(log) \cup N : a.payload < InHand'
  <2>1. \A a \in Held \cup Added(log) \cup N : a.payload \in Nat /\ a.payload <= InHand
    BY <1>2, <1>3, HandTypes
  <2> QED  BY <1>3, <2>1
<1>9. N \in {{}, {NewItem}}
  OBVIOUS
<1> HIDE DEF N
<1> QED  BY <1>1, <1>2, <1>3, <1>6, <1>7, <1>8, <1>9, SortStep

LEMMA SortLogNewcomer ==
    ASSUME Benign, TypeOK, DurableInv, SortInv, LogNewcomer
    PROVE  SortInv'
<1> DEFINE N == {NewItem}
<1>0. PICK o \in AppendOutcomes(log, <<AddRec(NewItem)>>) :
        /\ log' = o.log
        /\ RequestFails \/ (turn' = "ack" /\ UNCHANGED <<arrived, todo>>)
  BY DEF LogNewcomer
<1>1. todo > 0 /\ turn = "add" /\ batch' = batch /\ queue' = queue /\ nextID' = nextID + 1 /\ Serving
      /\ Len(queue) >= MaxQueue
  BY HandlerState DEF LogNewcomer
<1>2. /\ RisingAdds(log') /\ Added(log') \subseteq Added(log) \cup N
      /\ NewItem.payload = InHand /\ NewItem \in Item
      /\ \A a \in Held \cup Added(log) : a.payload < InHand
  BY <1>0, <1>1, SortAdd
<1>3. /\ \/ turn' = "add" /\ InHand < InHand'
         \/ turn' = "ack" /\ InHand' = InHand
      /\ InHand' \in Nat /\ InHand \in Nat
  <2>1. CASE RequestFails
    BY <1>1, <2>1, HandMoves, HandTypes
  <2>2. CASE turn' = "ack" /\ UNCHANGED <<arrived, todo>>
    BY <2>2, HandTypes DEF InHand
  <2> QED  BY <1>0, <2>1, <2>2
<1>4. InMemory' = InMemory /\ Held = InMemory
  BY <1>1 DEF InMemory, Held, Queued, Picked
<1>5. Held' \subseteq Held \cup N
  <2>1. turn' = "ack" => Newcomer' = NewItem
    BY <1>1, <1>3 DEF Newcomer, NewItem
  <2>2. Held' = InMemory' \cup (IF turn' = "ack" THEN {Newcomer'} ELSE {})
    BY DEF Held, InMemory
  <2> QED  BY <1>4, <2>1, <2>2
<1>6. \A a \in InMemory' : a.payload < InHand'
  BY <1>2, <1>3, <1>4, HandTypes
<1>7. \A a \in Added(log') : a.payload < InHand' \/ (turn' = "ack" /\ a.payload = InHand')
  <2>1. \A a \in Added(log) : a.payload \in Nat
    BY HandTypes
  <2> QED  BY <1>2, <1>3, <2>1
<1>8. Rising(queue')
  BY <1>1 DEF SortInv
<1>9. N \in {{}, {NewItem}}
  OBVIOUS
<1> HIDE DEF N
<1> QED  BY <1>1, <1>2, <1>5, <1>6, <1>7, <1>8, <1>9, SortStep

LEMMA SortDropHead ==
    ASSUME Benign, TypeOK, DurableInv, SortInv, DropHead
    PROVE  SortInv'
<1> DEFINE head == <<AckRec(Head(queue))>>
           undone == <<AckRec(Newcomer)>>
           rest == SubSeq(queue, 2, Len(queue))
           N == {}
<1>1. /\ turn = "ack" /\ todo > 0 /\ queue # <<>> /\ queue \in Seq(Item) /\ DropOldest
      /\ batch' = batch
  BY DEF DropHead, TypeOK, DataTypes, DurableInv, ControlInv
<1>2. Serving /\ Whole(log) /\ log \in Seq(Record)
  BY <1>1, HandlerState
<1>3. Head(queue) \in Item /\ Newcomer \in Item /\ Newcomer \in Held /\ Newcomer.payload = InHand
  BY <1>1, HeldCases, ItemTypes DEF Newcomer
<1>4. /\ head \in Seq(Record) /\ Whole(head) /\ Added(head) = {}
      /\ undone \in Seq(Record) /\ Whole(undone) /\ Added(undone) = {}
  <2>1. AckRec(Head(queue)) \in Record /\ AckRec(Newcomer) \in Record
    BY <1>3, RecordTypes
  <2>2. head \in Seq(Record) /\ undone \in Seq(Record)
    BY <2>1
  <2>3. Whole(head) /\ Added(head) = {} /\ Whole(undone) /\ Added(undone) = {}
    BY <1>3, SingleRecords
  <2> QED  BY <2>2, <2>3
<1>5. PICK o \in AckOutcomes(log, head) :
        \/ /\ log' = o.log
           /\ queue' = Append(Tail(queue), Newcomer)
           /\ PayloadQueued
        \/ /\ o.res = "error"
           /\ \E undo \in AckOutcomes(o.log, undone) : log' = undo.log
           /\ RequestFails
           /\ queue' = queue
  BY DEF DropHead
<1>6. PayloadQueued \/ RequestFails
  BY <1>5
<1> HIDE DEF head, undone
<1>7. /\ o.log = log \/ o.log = log \o head
      /\ o.res = "error" => o.log = log
  BY <1>1, <1>2, <1>4, AckEffect
<1>8. log' = log \/ log' = log \o head \/ log' = log \o undone
  <2>1. CASE log' = o.log
    BY <1>7, <2>1
  <2>2. CASE o.res = "error" /\ \E undo \in AckOutcomes(o.log, undone) : log' = undo.log
    <3>1. PICK undo \in AckOutcomes(log, undone) : log' = undo.log
      BY <1>7, <2>2
    <3> QED  BY <1>2, <1>4, <3>1, AckEffect
  <2> QED  BY <1>5, <2>1, <2>2
<1>9. RisingAdds(log') /\ Added(log') = Added(log)
  <2>1. RisingAdds(log)
    BY DEF SortInv
  <2>2. RisingAdds(log \o head) /\ Added(log \o head) = Added(log)
    BY <1>2, <1>4, <2>1, AcksMore
  <2>3. RisingAdds(log \o undone) /\ Added(log \o undone) = Added(log)
    BY <1>2, <1>4, <2>1, AcksMore
  <2> QED  BY <1>8, <2>1, <2>2, <2>3
<1>10. turn' = "add" /\ InHand < InHand' /\ InHand' \in Nat /\ InHand \in Nat
  BY <1>1, <1>6, HandMoves, HandTypes
<1>11. rest = Tail(queue) /\ rest \in Seq(Item)
       /\ \A k \in DOMAIN rest : k + 1 \in DOMAIN queue /\ rest[k] = queue[k + 1]
  BY <1>1
<1>12. \A k \in DOMAIN queue : queue[k] \in InMemory
  BY InMemoryCases
<1>13. Rising(rest)
  <2>1. 1 \in 0..Len(queue)
    BY <1>1
  <2> QED  BY <1>1, <2>1, RisingCut DEF SortInv
<1> HIDE DEF rest
<1>14. Rising(queue') /\ \A k \in DOMAIN queue' : queue'[k] \in Held
  <2>1. CASE queue' = queue
    BY <1>12, <2>1, InMemoryCases DEF SortInv
  <2>2. CASE queue' = Append(rest, Newcomer)
    <3>1. \A k \in DOMAIN rest : rest[k] \in InMemory
      BY <1>11, <1>12
    <3>2. \A k \in DOMAIN rest : rest[k].payload < Newcomer.payload
      BY <1>3, <3>1 DEF SortInv, InMemory
    <3>3. Rising(Append(rest, Newcomer))
      BY <1>11, <1>13, <3>2, RisingAppend
    <3>4. \A k \in DOMAIN Append(rest, Newcomer) :
            \/ k \in DOMAIN rest /\ Append(rest, Newcomer)[k] = rest[k]
            \/ Append(rest, Newcomer)[k] = Newcomer
      BY <1>11
    <3> QED  BY <1>3, <2>2, <3>1, <3>3, <3>4, InMemoryCases
  <2> QED  BY <1>5, <1>11, <2>1, <2>2
<1>15. Held' \subseteq Held /\ InMemory' \subseteq Held
  <2>1. Held' \subseteq Held
    BY <1>1, <1>10, <1>14, HeldCases, HeldCasesNext
  <2>2. InMemory' \subseteq Held'
    BY DEF InMemory, Held
  <2> QED  BY <2>1, <2>2
<1>16. \A a \in Held \cup Added(log) : a.payload < InHand'
  <2>1. \A a \in Held \cup Added(log) : a.payload \in Nat /\ (a.payload < InHand \/ a.payload = InHand)
    BY <1>1, <1>3, HandTypes, InMemoryCases DEF SortInv, InMemory
  <2> QED  BY <1>10, <2>1
<1>17. N \in {{}, {NewItem}} /\ ~(N # {}) /\ Held' \subseteq Held \cup N
  BY <1>15
<1> HIDE DEF N
<1> QED  BY <1>9, <1>10, <1>14, <1>15, <1>16, <1>17, SortStep

\* What Finalize pops is what the batch names: put back, it is the queue again.
LEMMA FinalizeIs ==
    ASSUME TypeOK, DurableInv, SortInv, NEW f \in Flusher, Finalize(f)
    PROVE  \E n \in 0..Len(queue) :
             /\ n \in 0..Len(batch[f]) /\ \A k \in 1..n : queue[k] = batch[f][k]
             /\ \E o \in IF n = 0 THEN {[log |-> log, res |-> "ok"]}
                         ELSE AckOutcomes(log, Acks(batch[f], n)) :
                  /\ log' = o.log
                  /\ queue' = IF o.res = "error" THEN queue ELSE SubSeq(queue, n + 1, Len(queue))
<1> DEFINE b == batch[f]
<1>1. b \in Seq(Item) /\ queue \in Seq(Item)
  BY HandTypes DEF TypeOK, FlusherTypes
<1>2. PICK n \in 0..Len(b) :
        LET rest == SubSeq(queue, n + 1, Len(queue))
        IN /\ Popped(f, n)
           /\ \E o \in IF n = 0 THEN {[log |-> log, res |-> "ok"]}
                       ELSE AckOutcomes(log, Acks(b, n)) :
                /\ log' = o.log
                /\ queue' = IF o.res = "error" THEN SubSeq(b, 1, n) \o rest ELSE rest
  BY DEF Finalize
<1> DEFINE rest == SubSeq(queue, n + 1, Len(queue))
           whole == SubSeq(b, 1, n) \o rest
<1>3. n \in 0..Len(queue) /\ \A k \in 1..n : queue[k].id = b[k].id
  BY <1>1, <1>2 DEF Popped, Matches
<1>4. \A k \in 1..n : queue[k] = b[k]
  <2>1. \A k \in 1..n : k \in DOMAIN queue /\ k \in DOMAIN b
    BY <1>1, <1>2, <1>3
  <2>2. \A k \in 1..n : queue[k] \in Held /\ b[k] \in Held
    BY <2>1, HeldCases
  <2> QED  BY <1>3, <2>2 DEF SortInv
<1> HIDE DEF b
<1>5. whole = queue
  <2> DEFINE start == SubSeq(b, 1, n)
  <2>1. start \in Seq(Item) /\ Len(start) = n /\ \A k \in 1..n : start[k] = b[k]
    BY <1>1, <1>2
  <2>2. /\ rest \in Seq(Item) /\ Len(rest) = Len(queue) - n
        /\ \A k \in 1..Len(queue) - n : rest[k] = queue[k + n]
    BY <1>1, <1>3
  <2>3. Len(queue) \in Nat /\ n \in Nat /\ n <= Len(queue)
    BY <1>1, <1>3
  <2> HIDE DEF start, rest
  <2> DEFINE w == start \o rest
  <2>4. w \in Seq(Item) /\ Len(w) = Len(queue)
    <3>1. w \in Seq(Item) /\ Len(w) = Len(start) + Len(rest)
      BY <2>1, <2>2
    <3> HIDE DEF w
    <3> QED  BY <2>1, <2>2, <2>3, <3>1
  <2>5. \A k \in 1..Len(queue) : w[k] = IF k <= n THEN start[k] ELSE rest[k - n]
    BY <2>1, <2>2, <2>3
  <2> HIDE DEF w
  <2>6. ASSUME NEW k \in 1..Len(queue) PROVE w[k] = queue[k]
    <3>1. CASE k <= n
      <4>1. k \in 1..n
        BY <2>3, <3>1
      <4> QED  BY <1>4, <2>1, <2>5, <3>1, <4>1
    <3>2. CASE ~(k <= n)
      <4>1. k - n \in 1..Len(queue) - n /\ (k - n) + n = k
        BY <2>3, <3>2
      <4> QED  BY <2>2, <2>5, <3>2, <4>1
    <3> QED  BY <3>1, <3>2
  <2>7. w = queue
    BY <1>1, <2>4, <2>6
  <2> QED  BY <2>7 DEF w, start
<1>6. PICK o \in IF n = 0 THEN {[log |-> log, res |-> "ok"]} ELSE AckOutcomes(log, Acks(b, n)) :
        /\ log' = o.log
        /\ queue' = IF o.res = "error" THEN whole ELSE rest
  BY <1>2
<1>7. log' = o.log /\ queue' = IF o.res = "error" THEN queue ELSE rest
  BY <1>5, <1>6
<1> QED  BY <1>2, <1>3, <1>4, <1>7 DEF b

LEMMA SortFinalize ==
    ASSUME Benign, TypeOK, DurableInv, SortInv, NEW f \in Flusher, Finalize(f)
    PROVE  SortInv'
<1> DEFINE b == batch[f]
<1>1. /\ pc[f] = "finalize" /\ b \in Seq(Item) /\ todo = 0 /\ UNCHANGED request
      /\ batch' = [batch EXCEPT ![f] = <<>>] /\ queue \in Seq(Item)
  BY HandTypes DEF Finalize, MuFree, TypeOK, FlusherTypes
<1>2. Serving /\ Whole(log) /\ log \in Seq(Record)
  BY <1>1, FlusherHolds DEF DurableInv, ControlInv, TypeOK, DataTypes
<1>3. PICK n \in 0..Len(queue) :
             /\ n \in 0..Len(b)
             /\ \E o \in IF n = 0 THEN {[log |-> log, res |-> "ok"]}
                         ELSE AckOutcomes(log, Acks(b, n)) :
                  /\ log' = o.log
                  /\ queue' = IF o.res = "error" THEN queue ELSE SubSeq(queue, n + 1, Len(queue))
  BY FinalizeIs
<1> HIDE DEF b
<1>4. Acks(b, n) \in Seq(Record) /\ Whole(Acks(b, n)) /\ Added(Acks(b, n)) = {}
  BY <1>1, <1>3, AckRecords
<1>5. log' = log \/ log' = log \o Acks(b, n)
  <2>1. CASE n = 0
    BY <1>3, <2>1
  <2>2. CASE n # 0
    BY <1>2, <1>3, <1>4, <2>2, AckEffect
  <2> QED  BY <2>1, <2>2
<1>6. RisingAdds(log') /\ Added(log') = Added(log)
  <2>1. RisingAdds(log)
    BY DEF SortInv
  <2>2. RisingAdds(log \o Acks(b, n)) /\ Added(log \o Acks(b, n)) = Added(log)
    BY <1>2, <1>4, <2>1, AcksMore
  <2> QED  BY <1>5, <2>1, <2>2
<1>7. queue' = queue \/ queue' = SubSeq(queue, n + 1, Len(queue))
  BY <1>3
<1>8. Rising(queue') /\ \A k \in DOMAIN queue' : \E j \in DOMAIN queue : queue'[k] = queue[j]
  <2> DEFINE rest == SubSeq(queue, n + 1, Len(queue))
  <2>1. Rising(rest)
    BY <1>1, RisingCut DEF SortInv
  <2>2. \A k \in DOMAIN rest : k + n \in DOMAIN queue /\ rest[k] = queue[k + n]
    BY <1>1
  <2> HIDE DEF rest
  <2>3. CASE queue' = queue
    BY <2>3 DEF SortInv
  <2>4. CASE queue' = rest
    BY <2>1, <2>2, <2>4
  <2> QED  BY <1>7, <2>3, <2>4 DEF rest
<1>9. \A g \in Flusher : batch'[g] = <<>> \/ batch'[g] = batch[g]
  BY <1>1 DEF TypeOK, FlusherTypes
<1>10. InMemory' \subseteq InMemory /\ Held' \subseteq Held
  <2>1. ASSUME NEW h \in InMemory' PROVE h \in InMemory
    <3>1. \/ \E k \in DOMAIN queue' : h = queue'[k]
          \/ \E g \in Flusher : \E k \in DOMAIN batch'[g] : h = batch'[g][k]
      BY <2>1 DEF InMemory, Queued, Picked
    <3> QED  BY <1>8, <1>9, <3>1, InMemoryCases
  <2>2. turn' = turn /\ Newcomer' = Newcomer
    <3>1. \A h \in Flusher : TRUE
      OBVIOUS
    <3> QED  BY <1>1 DEF request, Newcomer, InHand, Finalize
  <2>3. Held' = InMemory' \cup (IF turn' = "ack" THEN {Newcomer'} ELSE {})
    BY DEF Held, InMemory
  <2> QED  BY <2>1, <2>2, <2>3, InMemoryCases
<1> QED  BY <1>1, <1>6, <1>8, <1>10, SortCalm

\* A goroutine that does not finalize leaves the file and the queue alone, and
\* takes what it holds from the head of the queue.
LEMMA WritesOnly ==
    ASSUME TypeOK, NEW f \in Flusher, Pick(f) \/ WriteSucceeds(f) \/ WriteFails(f)
    PROVE  /\ UNCHANGED <<queue, nextID, wal, log, request, dropped, process>>
           /\ \A g \in Flusher : \/ batch'[g] = batch[g] \/ batch'[g] = <<>>
                                 \/ \E n \in 1..Len(queue) : batch'[g] = SubSeq(queue, 1, n)
           /\ InMemory' \subseteq InMemory
<1>1. UNCHANGED <<queue, nextID, wal, log, request, dropped, process>>
  BY DEF Pick, WriteSucceeds, WriteFails
<1>2. \A g \in Flusher : \/ batch'[g] = batch[g] \/ batch'[g] = <<>>
                         \/ \E n \in 1..Len(queue) : batch'[g] = SubSeq(queue, 1, n)
  <2>1. CASE Pick(f)
    BY <2>1 DEF Pick, TypeOK, FlusherTypes
  <2>2. CASE WriteSucceeds(f)
    BY <2>2 DEF WriteSucceeds
  <2>3. CASE WriteFails(f)
    BY <2>3 DEF WriteFails, TypeOK, FlusherTypes
  <2> QED  BY <2>1, <2>2, <2>3
<1>3. \A n \in 1..Len(queue) : \A k \in DOMAIN SubSeq(queue, 1, n) :
        k \in DOMAIN queue /\ SubSeq(queue, 1, n)[k] = queue[k]
  BY HandTypes
<1>4. ASSUME NEW h \in InMemory' PROVE h \in InMemory
  <2>1. \/ \E k \in DOMAIN queue' : h = queue'[k]
        \/ \E g \in Flusher : \E k \in DOMAIN batch'[g] : h = batch'[g][k]
    BY <1>4 DEF InMemory, Queued, Picked
  <2>2. CASE \E k \in DOMAIN queue' : h = queue'[k]
    BY <1>1, <2>2, InMemoryCases
  <2>3. ASSUME NEW g \in Flusher, NEW k \in DOMAIN batch'[g], h = batch'[g][k]
        PROVE  h \in InMemory
    <3>1. CASE batch'[g] = batch[g]
      BY <2>3, <3>1, InMemoryCases
    <3>2. CASE batch'[g] = <<>>
      BY <2>3, <3>2
    <3>3. ASSUME NEW n \in 1..Len(queue), batch'[g] = SubSeq(queue, 1, n)
          PROVE  h \in InMemory
      BY <1>3, <2>3, <3>3, InMemoryCases
    <3> QED  BY <1>2, <3>1, <3>2, <3>3
  <2> QED  BY <2>1, <2>2, <2>3
<1> QED  BY <1>1, <1>2, <1>4

LEMMA SortFlush ==
    ASSUME Benign, TypeOK, DurableInv, SortInv, NEW f \in Flusher, Flush(f)
    PROVE  SortInv'
<1>1. CASE Pick(f) \/ WriteSucceeds(f) \/ WriteFails(f)
  <2>1. /\ queue' = queue /\ log' = log /\ nextID' = nextID /\ UNCHANGED request
        /\ InMemory' \subseteq InMemory
    BY <1>1, WritesOnly
  <2>2. turn' = turn /\ Newcomer' = Newcomer
    BY <2>1 DEF request, Newcomer, InHand
  <2>3. Held' = InMemory' \cup (IF turn' = "ack" THEN {Newcomer'} ELSE {})
    BY DEF Held, InMemory
  <2>4. Held' \subseteq Held
    BY <2>1, <2>2, <2>3, InMemoryCases
  <2>5. Rising(queue') /\ RisingAdds(log')
    BY <2>1 DEF SortInv
  <2> QED  BY <2>1, <2>4, <2>5, SortCalm
<1>2. CASE Finalize(f)
  BY <1>2, SortFinalize
<1> QED  BY <1>1, <1>2 DEF Flush

LEMMA SortLoop ==
    ASSUME TypeOK, DurableInv, SortInv, LoopWakes \/ CheckSize \/ NothingToCompact \/ Compact
    PROVE  SortInv'
<1>1. UNCHANGED request /\ queue' = queue /\ batch' = batch /\ nextID' = nextID
  BY DEF LoopWakes, CheckSize, NothingToCompact, Compact
<1>2. log' = log \/ log' \in Compacted(log)
  BY DEF LoopWakes, CheckSize, NothingToCompact, Compact
<1> QED  BY <1>1, <1>2, SortSame

LEMMA SortStart == Init => SortInv
<1> SUFFICES ASSUME Init PROVE SortInv
  OBVIOUS
<1>1. Held = {} /\ Added(log) = {}
  <2>1. \A h : h \notin Held
    BY HeldCases DEF Init
  <2>2. Added(log) = {}
    BY DEF Init, Added, Having
  <2> QED  BY <2>1, <2>2
<1>2. InMemory = {}
  BY <1>1, InMemoryCases
<1>3. Rising(queue) /\ RisingAdds(log) /\ turn = "add"
  BY DEF Init, Rising, RisingAdds, Having
<1> QED  BY <1>1, <1>2, <1>3 DEF SortInv, InMemory

LEMMA SortNext ==
    ASSUME Benign
    PROVE  TypeOK /\ DurableInv /\ SortInv /\ [Next]_vars => SortInv'
<1> SUFFICES ASSUME TypeOK, DurableInv, SortInv, [Next]_vars PROVE SortInv'
  OBVIOUS
<1>1. CASE UNCHANGED vars
  BY <1>1 DEF vars, SortInv, Held, Queued, Picked, Newcomer, InHand
<1>2. CASE Next
  <2>1. TypeOK' /\ DurableInv'
    BY TypeStep, DurableStep
  <2>2. Lifecycle => SortInv'
    BY <2>1, SortLifecycle
  <2>3. Request => SortInv'
    BY SortRequest
  <2>4. Handler => SortInv'
    BY SortEnqueue, SortLogNewcomer, SortDropHead DEF Handler
  <2>5. (\E f \in Flusher : Flush(f)) => SortInv'
    BY SortFlush
  <2>6. LoopWakes \/ CheckSize \/ NothingToCompact \/ Compact => SortInv'
    BY SortLoop
  <2> QED  BY <1>2, <2>2, <2>3, <2>4, <2>5, <2>6 DEF Next
<1> QED  BY <1>1, <1>2

LEMMA SortInvariant ==
    ASSUME Benign
    PROVE  Spec => [](TypeOK /\ DurableInv /\ SortInv)
<1>1. Spec => [](TypeOK /\ DurableInv)
  BY DurableInvariant
<1>2. TypeOK /\ DurableInv /\ SortInv /\ [Next]_vars => SortInv'
  BY SortNext
<1> QED  BY <1>1, <1>2, SortStart, PTL DEF Spec

(***************************************************************************)
(* OrderInv is inductive, in async mode, if a failed write to Kafka stores *)
(* all of its batch or nothing.                                            *)
(***************************************************************************)

WholeWrites == Async /\ "partial" \notin Faults

LEMMA OrderUse ==
    ASSUME OrderInv
    PROVE  /\ \A p \in Payload : topic[p] > 0 => p < InHand
           /\ Serving => \A p \in Payload : Entered(p) =>
                topic[p] > 0 \/ p \in dropped \/ \E k \in DOMAIN queue : queue[k].payload = p
           /\ \A p, q \in Payload : Ahead(p, q) /\ topic[q] > 0 => topic[p] > 0
           /\ \A f \in Flusher : \A k \in DOMAIN batch[f] : \A p, q \in Payload :
                q = batch[f][k].payload /\ Ahead(p, q) =>
                  topic[p] > 0 \/ \E j \in DOMAIN batch[f] : batch[f][j].payload = p
<1>1. /\ \A p \in Payload : topic[p] > 0 => p < InHand
      /\ \A p, q \in Payload : Ahead(p, q) /\ topic[q] > 0 => topic[p] > 0
  BY DEF OrderInv
<1>2. Serving => \A p \in Payload : Entered(p) =>
        topic[p] > 0 \/ p \in dropped \/ \E k \in DOMAIN queue : queue[k].payload = p
  BY DEF OrderInv, Queued
<1>3. ASSUME NEW f \in Flusher, NEW k \in DOMAIN batch[f], NEW p \in Payload, NEW q \in Payload,
             q = batch[f][k].payload, Ahead(p, q)
      PROVE  topic[p] > 0 \/ \E j \in DOMAIN batch[f] : batch[f][j].payload = p
  BY <1>3 DEF OrderInv, Picked
<1> QED  BY <1>1, <1>2, <1>3

LEMMA OrderParts ==
    ASSUME \A p \in Payload : topic'[p] > 0 => p < InHand',
           Serving' => \A p \in Payload : Entered(p)' =>
              topic'[p] > 0 \/ p \in dropped' \/ \E k \in DOMAIN queue' : queue'[k].payload = p,
           \A p, q \in Payload : Ahead(p, q)' /\ topic'[q] > 0 => topic'[p] > 0,
           \A f \in Flusher : \A k \in DOMAIN batch'[f] : batch'[f][k].payload \in Payload,
           \A f \in Flusher : \A k \in DOMAIN batch'[f] : \A p, q \in Payload :
              q = batch'[f][k].payload /\ Ahead(p, q)' =>
                topic'[p] > 0 \/ \E j \in DOMAIN batch'[f] : batch'[f][j].payload = p
    PROVE  OrderInv'
<1>1. ASSUME NEW f \in Flusher, NEW a \in Picked(f)', NEW p \in Payload, Ahead(p, a.payload)'
      PROVE  topic'[p] > 0 \/ \E b \in Picked(f)' : b.payload = p
  <2>1. PICK k \in DOMAIN batch'[f] : a = batch'[f][k]
    BY DEF Picked
  <2>2. PICK q \in Payload : q = a.payload
    BY <2>1
  <2>3. Ahead(p, q)'
    BY <1>1, <2>2
  <2>4. topic'[p] > 0 \/ \E j \in DOMAIN batch'[f] : batch'[f][j].payload = p
    BY <2>1, <2>2, <2>3
  <2> QED  BY <2>4 DEF Picked
<1>2. Serving' => \A p \in Payload : Entered(p)' =>
        topic'[p] > 0 \/ p \in dropped' \/ \E a \in Queued' : a.payload = p
  BY DEF Queued
<1> QED  BY <1>1, <1>2 DEF OrderInv

LEMMA HeldPayloads ==
    ASSUME TypeOK, SortInv
    PROVE  /\ \A k \in DOMAIN queue : queue[k].payload \in Payload /\ queue[k].payload < InHand
           /\ \A f \in Flusher : \A k \in DOMAIN batch[f] :
                batch[f][k].payload \in Payload /\ batch[f][k].payload < InHand
<1>1. \A a \in InMemory : a.payload \in Payload /\ a.payload < InHand
  BY HandTypes, InMemoryCases DEF SortInv, InMemory
<1> QED  BY <1>1, InMemoryCases

\* A step that writes nothing to Kafka and picks nothing, after which at most
\* the payload in hand has entered.
LEMMA OrderStep ==
    ASSUME TypeOK, SortInv, OrderInv, topic' = topic, dropped \subseteq dropped',
           InHand <= InHand', InHand' \in Nat,
           \A p \in Payload : Entered(p)' => Entered(p) \/ p = InHand,
           \A f \in Flusher : batch'[f] = batch[f] \/ batch'[f] = <<>>,
           Serving' => \A p \in Payload : Entered(p)' =>
              topic[p] > 0 \/ p \in dropped' \/ \E k \in DOMAIN queue' : queue'[k].payload = p
    PROVE  OrderInv'
<1>1. Payload \subseteq Nat /\ InHand \in Nat
  BY HandTypes
<1>2. \A p, q \in Payload : Ahead(p, q)' /\ q < InHand => Ahead(p, q)
  BY <1>1 DEF Ahead
<1>3. \A p \in Payload : topic'[p] > 0 => p < InHand'
  <2>1. \A p \in Payload : p < InHand => p < InHand'
    BY <1>1
  <2> QED  BY <2>1, OrderUse
<1>4. \A p, q \in Payload : Ahead(p, q)' /\ topic'[q] > 0 => topic'[p] > 0
  BY <1>2, OrderUse
<1>5. ASSUME NEW f \in Flusher, NEW k \in DOMAIN batch'[f]
      PROVE  /\ batch'[f] = batch[f] /\ k \in DOMAIN batch[f]
             /\ batch[f][k].payload \in Payload /\ batch[f][k].payload < InHand
  <2>1. batch'[f] = batch[f]
    BY <1>5
  <2> QED  BY <1>5, <2>1, HeldPayloads
<1>6. ASSUME NEW f \in Flusher, NEW k \in DOMAIN batch'[f], NEW p \in Payload, NEW q \in Payload,
             q = batch'[f][k].payload, Ahead(p, q)'
      PROVE  topic'[p] > 0 \/ \E j \in DOMAIN batch'[f] : batch'[f][j].payload = p
  <2>1. Ahead(p, q)
    BY <1>2, <1>5, <1>6
  <2> QED  BY <1>5, <1>6, <2>1, OrderUse
<1>7. Serving' => \A p \in Payload : Entered(p)' =>
        topic'[p] > 0 \/ p \in dropped' \/ \E k \in DOMAIN queue' : queue'[k].payload = p
  OBVIOUS
<1>8. \A f \in Flusher : \A k \in DOMAIN batch'[f] : batch'[f][k].payload \in Payload
  BY <1>5
<1> QED  BY <1>3, <1>4, <1>6, <1>7, <1>8, OrderParts

\* A step that leaves the request and the queue alone, too.
LEMMA OrderCalm ==
    ASSUME TypeOK, SortInv, OrderInv, UNCHANGED request, queue' = queue, batch' = batch,
           dropped' = dropped, topic' = topic, Serving' => Serving
    PROVE  OrderInv'
<1>1. InHand' = InHand /\ InHand \in Nat /\ \A p \in Payload : Entered(p)' = Entered(p)
  BY HandTypes DEF request, InHand, Entered
<1>2. Serving' => \A p \in Payload : Entered(p)' =>
        topic[p] > 0 \/ p \in dropped' \/ \E k \in DOMAIN queue' : queue'[k].payload = p
  BY <1>1, OrderUse
<1> QED  BY <1>1, <1>2, OrderStep

LEMMA OrderReset ==
    ASSUME TypeOK, SortInv, OrderInv, Reset
    PROVE  OrderInv'
<1>1. /\ ~Serving' /\ arrived' = arrived /\ todo' = 0 /\ topic' = topic /\ dropped' = dropped
      /\ \A f \in Flusher : batch'[f] = <<>>
  BY DEF Reset, Serving
<1>2. InHand' \in Nat /\ InHand <= InHand'
  BY <1>1, HandTypes DEF InHand
<1>3. \A p \in Payload : outcome'[p] = IF outcome[p] = "writing" THEN "unknown" ELSE outcome[p]
  BY ToldChanges DEF Reset
<1>4. \A p \in Payload : Entered(p)' => Entered(p)
  BY <1>3 DEF Entered
<1> QED  BY <1>1, <1>2, <1>4, OrderStep

LEMMA EnteredIsTaken ==
    /\ \A p \in Payload : Entered(p) => Taken(p)
    /\ \A p \in Payload : Taken(p) => Entered(p) \/ p = InHand
    /\ turn' = "add" => \A p \in Payload : Entered(p)' = Taken(p)'
<1>1. /\ \A p \in Payload : Entered(p) => Taken(p)
      /\ \A p \in Payload : Taken(p) => Entered(p) \/ p = InHand
  BY DEF Entered, Taken
<1>2. turn' = "add" => \A p \in Payload : Entered(p)' = Taken(p)'
  BY DEF Entered, Taken
<1> QED  BY <1>1, <1>2

LEMMA OrderInit ==
    ASSUME Benign, TypeOK, DurableInv, SortInv, OrderInv, InitQueue
    PROVE  OrderInv'
<1>1. /\ log' \in Compacted(log) /\ log \in Seq(Record)
      /\ UNCHANGED <<batch, request, dropped, topic>>
      /\ queue' = queue \o [k \in DOMAIN log' |-> ItemOf(log'[k])]
  BY DEF InitQueue, Renamed, FileAtOpen, Benign, TypeOK, DataTypes
<1>2. queue = <<>>
  BY NotServing DEF InitQueue, Serving
<1> DEFINE items == [k \in DOMAIN log' |-> ItemOf(log'[k])]
<1>3. log' \in Seq(Record) /\ Added(log') = Pending(log)
  BY <1>1, CompactedEffect
<1>4. \A k \in DOMAIN log' : k \in DOMAIN queue' /\ queue'[k] = ItemOf(log'[k])
  <2>1. DOMAIN items = 1..Len(log') /\ Len(log') \in Nat /\ DOMAIN log' = 1..Len(log')
    BY <1>3
  <2>2. queue' = <<>> \o items
    BY <1>1, <1>2
  <2>3. \A k \in DOMAIN items : items[k] = ItemOf(log'[k])
    OBVIOUS
  <2>4. Len(items) = Len(log')
    BY <2>1
  <2> HIDE DEF items
  <2>5. \A k \in 1..Len(log') : k \in DOMAIN (<<>> \o items) /\ (<<>> \o items)[k] = items[k]
    BY <2>1, <2>4
  <2> QED  BY <2>1, <2>2, <2>3, <2>5
<1>5. ASSUME NEW p \in Payload, Entered(p), ~(topic[p] > 0), p \notin dropped
      PROVE  \E k \in DOMAIN queue' : queue'[k].payload = p
  <2>1. PICK a \in Added(log) : a.payload = p
    BY <1>5, EnteredIsTaken DEF DurableInv, LoggedInv
  <2>2. ~Justified(p)
    BY <1>5 DEF Justified, Entered
  <2>3. a \in Added(log')
    BY <1>3, <2>1, <2>2 DEF DurableInv, AckJustified, Pending
  <2>4. PICK k \in DOMAIN log' : a = ItemOf(log'[k])
    BY <2>3 DEF Added, Having
  <2> QED  BY <1>4, <2>1, <2>4
<1> HIDE DEF items
<1>6. InHand' = InHand /\ InHand \in Nat /\ \A p \in Payload : Entered(p)' = Entered(p)
  BY <1>1, HandTypes DEF request, InHand, Entered
<1>7. topic' = topic /\ dropped' = dropped /\ batch' = batch
  BY <1>1
<1>8. \A p \in Payload : Entered(p)' =>
        topic[p] > 0 \/ p \in dropped' \/ \E k \in DOMAIN queue' : queue'[k].payload = p
  BY <1>5, <1>6, <1>7
<1> QED  BY <1>6, <1>7, <1>8, OrderStep

LEMMA OrderLifecycle ==
    ASSUME Benign, TypeOK, DurableInv, SortInv, OrderInv, Lifecycle
    PROVE  OrderInv'
<1>1. CASE Start \/ BeginShutdown \/ CloseWAL
  BY <1>1, OrderCalm DEF Start, BeginShutdown, CloseWAL, Serving
<1>2. CASE InitFails \/ Crash \/ Exit
  BY <1>2, OrderReset DEF InitFails, Crash, Exit
<1> QED  BY <1>1, <1>2, OrderInit DEF Lifecycle

\* In async mode a handler goes to the queue at once, and no payload of a
\* request has entered before its first has been queued.
LEMMA OrderRequest ==
    ASSUME WholeWrites, TypeOK, DurableInv, SortInv, OrderInv, Request
    PROVE  OrderInv'
<1>1. PICK n \in 1..MaxRequest : Refuse(n) \/ Admit(n)
  BY DEF Request, DirectWrite, WholeWrites
<1>2. /\ todo = 0 /\ arrived' = arrived + n /\ n \in Nat
      /\ UNCHANGED <<phase, queue, batch, dropped>>
  BY <1>1, ConstantsAssumption DEF Refuse, Admit, Arrives, MuFree, TriedBefore
<1>3. topic' = topic
  <2>1. topic' = Stored({})
    BY <1>1 DEF Refuse, Admit, TriedBefore, WholeWrites
  <2> QED  BY <2>1 DEF Stored, TypeOK, DataTypes
<1>4. InHand = arrived + 1 /\ InHand' = arrived' - todo' + 1 /\ arrived \in Nat
  BY <1>2, HandTypes DEF InHand
<1>5. \/ todo' = 0 /\ \A p \in Payload : outcome'[p] = IF p \in New(n) THEN "rejected" ELSE outcome[p]
      \/ todo' = n /\ \A p \in Payload : outcome'[p] = IF p \in New(n) THEN "writing" ELSE outcome[p]
  BY <1>1, <1>2 DEF Refuse, Admit
<1>6. InHand <= InHand' /\ InHand' \in Nat /\ (todo' = n => InHand' = InHand)
  BY <1>2, <1>4, <1>5
<1>7. ASSUME NEW p \in Payload, Entered(p)' PROVE Entered(p)
  <2>1. p \in Nat /\ (p \in New(n) => InHand <= p)
    BY <1>2, <1>4, HandTypes DEF New
  <2>2. p \notin New(n)
    <3>1. CASE todo' = 0 /\ \A q \in Payload : outcome'[q] = IF q \in New(n) THEN "rejected" ELSE outcome[q]
      BY <1>7, <3>1 DEF Entered
    <3>2. CASE todo' = n /\ \A q \in Payload : outcome'[q] = IF q \in New(n) THEN "writing" ELSE outcome[q]
      <4>1. p \in New(n) => ~(p < InHand')
        BY <1>4, <1>6, <2>1, <3>2
      <4> QED  BY <1>7, <3>2, <4>1 DEF Entered
    <3> QED  BY <1>5, <3>1, <3>2
  <2>3. outcome'[p] = outcome[p] /\ outcome[p] # "none"
    BY <1>5, <1>7, <2>2 DEF Entered
  <2>4. p <= arrived
    BY <2>3 DEF DurableInv, RequestInv
  <2>5. p < InHand
    BY <1>4, <2>1, <2>4
  <2> QED  BY <1>7, <2>3, <2>5 DEF Entered
<1>8. Serving' => \A p \in Payload : Entered(p)' =>
        topic[p] > 0 \/ p \in dropped' \/ \E k \in DOMAIN queue' : queue'[k].payload = p
  <2>1. Serving' => Serving
    BY <1>2 DEF Serving
  <2> QED  BY <1>2, <1>7, <2>1, OrderUse
<1> QED  BY <1>2, <1>3, <1>6, <1>7, <1>8, OrderStep

LEMMA OrderEnqueue ==
    ASSUME TypeOK, DurableInv, SortInv, OrderInv, Enqueue
    PROVE  OrderInv'
<1>1. /\ todo > 0 /\ UNCHANGED <<phase, batch, dropped, topic>> /\ queue \in Seq(Item)
      /\ \/ RequestFails /\ queue' = queue
         \/ PayloadQueued /\ queue' = Append(queue, NewItem)
  BY HandTypes DEF Enqueue
<1>2. turn' = "add" /\ InHand <= InHand' /\ InHand' \in Nat /\ Serving
  BY <1>1, HandMoves, HandTypes, HandlerState
<1>3. /\ RequestFails => \A p \in Payload : Entered(p)' => Entered(p) \/ p = InHand
      /\ PayloadQueued => \A p \in Payload : Entered(p)' => Entered(p) \/ p = InHand
  <2>1. RequestFails => \A p \in Payload : Taken(p)' => Taken(p)
    BY <1>1, FailedStep
  <2>2. PayloadQueued => \A p \in Payload : Taken(p)' => Taken(p) \/ p = InHand
    BY <1>1, QueuedStep
  <2> QED  BY <1>2, <2>1, <2>2, EnteredIsTaken
<1>4. RequestFails => \A p \in Payload : Entered(p)' => Entered(p)
  <2>1. RequestFails => \A p \in Payload :
          outcome'[p] = IF outcome[p] = "writing" THEN "rejected" ELSE outcome[p]
    BY ToldChanges DEF RequestFails
  <2> QED  BY <2>1 DEF Entered
<1>5. \A p \in Payload : Entered(p)' =>
        topic[p] > 0 \/ p \in dropped' \/ \E k \in DOMAIN queue' : queue'[k].payload = p
  <2>1. CASE RequestFails /\ queue' = queue
    BY <1>1, <1>2, <1>4, <2>1, OrderUse
  <2>2. CASE PayloadQueued /\ queue' = Append(queue, NewItem)
    <3>1. /\ \A k \in DOMAIN queue : k \in DOMAIN queue' /\ queue'[k] = queue[k]
          /\ Len(queue) + 1 \in DOMAIN queue' /\ queue'[Len(queue) + 1] = NewItem
      BY <1>1, <2>2
    <3>2. NewItem.payload = InHand
      BY DEF NewItem
    <3>3. ASSUME NEW p \in Payload, Entered(p)
          PROVE  topic[p] > 0 \/ p \in dropped' \/ \E k \in DOMAIN queue' : queue'[k].payload = p
      BY <1>1, <1>2, <3>1, <3>3, OrderUse
    <3> QED  BY <1>3, <2>2, <3>1, <3>2, <3>3
  <2> QED  BY <1>1, <2>1, <2>2
<1>6. /\ topic' = topic /\ dropped \subseteq dropped' /\ \A f \in Flusher : batch'[f] = batch[f]
      /\ \A p \in Payload : Entered(p)' => Entered(p) \/ p = InHand
  BY <1>1, <1>3
<1> QED  BY <1>2, <1>5, <1>6, OrderStep

LEMMA OrderLogNewcomer ==
    ASSUME TypeOK, DurableInv, SortInv, OrderInv, LogNewcomer
    PROVE  OrderInv'
<1>1. /\ todo > 0 /\ UNCHANGED <<phase, queue, batch, dropped, topic>>
      /\ RequestFails \/ UNCHANGED <<arrived, todo, outcome>>
  BY DEF LogNewcomer
<1>2. InHand <= InHand' /\ InHand' \in Nat /\ Serving
  <2>1. CASE RequestFails
    BY <1>1, <2>1, HandMoves, HandTypes, HandlerState
  <2>2. CASE UNCHANGED <<arrived, todo, outcome>>
    <3>1. InHand' = InHand
      BY <2>2 DEF InHand
    <3> QED  BY <1>1, <3>1, HandTypes, HandlerState
  <2> QED  BY <1>1, <2>1, <2>2
<1>3. \A p \in Payload : Entered(p)' => Entered(p)
  <2>1. CASE RequestFails
    <3>1. \A p \in Payload :
            outcome'[p] = IF outcome[p] = "writing" THEN "rejected" ELSE outcome[p]
      BY <2>1, ToldChanges DEF RequestFails
    <3> QED  BY <3>1 DEF Entered
  <2>2. CASE UNCHANGED <<arrived, todo, outcome>>
    BY <2>2 DEF Entered, InHand
  <2> QED  BY <1>1, <2>1, <2>2
<1>4. \A p \in Payload : Entered(p)' =>
        topic[p] > 0 \/ p \in dropped' \/ \E k \in DOMAIN queue' : queue'[k].payload = p
  BY <1>1, <1>2, <1>3, OrderUse
<1> QED  BY <1>1, <1>2, <1>3, <1>4, OrderStep

\* The dropped head leaves the queue and is no longer owed.
LEMMA OrderDropHead ==
    ASSUME TypeOK, DurableInv, SortInv, OrderInv, DropHead
    PROVE  OrderInv'
<1>1. /\ turn = "ack" /\ todo > 0 /\ queue \in Seq(Item) /\ queue # <<>>
      /\ UNCHANGED <<phase, batch, topic>>
      /\ \/ RequestFails /\ queue' = queue /\ dropped' = dropped
         \/ /\ PayloadQueued /\ queue' = Append(Tail(queue), Newcomer)
            /\ dropped' = dropped \cup {Head(queue).payload}
  BY HandTypes DEF DropHead, TypeOK, DataTypes
<1>2. turn' = "add" /\ InHand <= InHand' /\ InHand' \in Nat /\ Serving
  BY <1>1, HandMoves, HandTypes, HandlerState
<1>3. PayloadQueued => \A p \in Payload : Entered(p)' => Entered(p) \/ p = InHand
  <2>1. PayloadQueued => \A p \in Payload : Taken(p)' => Taken(p) \/ p = InHand
    BY <1>1, QueuedStep
  <2> QED  BY <1>2, <2>1, EnteredIsTaken
<1>4. RequestFails => \A p \in Payload : Entered(p)' => Entered(p)
  <2>1. RequestFails => \A p \in Payload :
          outcome'[p] = IF outcome[p] = "writing" THEN "rejected" ELSE outcome[p]
    BY ToldChanges DEF RequestFails
  <2> QED  BY <2>1 DEF Entered
<1>5. \A p \in Payload : Entered(p)' =>
        topic[p] > 0 \/ p \in dropped' \/ \E k \in DOMAIN queue' : queue'[k].payload = p
  <2>1. CASE RequestFails /\ queue' = queue /\ dropped' = dropped
    BY <1>1, <1>2, <1>4, <2>1, OrderUse
  <2>2. CASE /\ PayloadQueued /\ queue' = Append(Tail(queue), Newcomer)
             /\ dropped' = dropped \cup {Head(queue).payload}
    <3>1. /\ \A k \in DOMAIN queue : k # 1 => k - 1 \in DOMAIN queue' /\ queue'[k - 1] = queue[k]
          /\ Len(queue) \in DOMAIN queue' /\ queue'[Len(queue)] = Newcomer
          /\ Head(queue) = queue[1]
      BY <1>1, <2>2
    <3>2. Newcomer.payload = InHand
      BY DEF Newcomer
    <3>3. ASSUME NEW p \in Payload, Entered(p)
          PROVE  topic[p] > 0 \/ p \in dropped' \/ \E k \in DOMAIN queue' : queue'[k].payload = p
      <4>1. topic[p] > 0 \/ p \in dropped \/ \E k \in DOMAIN queue : queue[k].payload = p
        BY <1>2, <3>3, OrderUse
      <4>2. ASSUME NEW k \in DOMAIN queue, queue[k].payload = p
            PROVE  p \in dropped' \/ \E j \in DOMAIN queue' : queue'[j].payload = p
        <5>1. CASE k = 1
          BY <2>2, <3>1, <4>2, <5>1
        <5>2. CASE k # 1
          BY <3>1, <4>2, <5>2
        <5> QED  BY <5>1, <5>2
      <4> QED  BY <2>2, <4>1, <4>2
    <3> QED  BY <1>3, <2>2, <3>1, <3>2, <3>3
  <2> QED  BY <1>1, <2>1, <2>2
<1>6. /\ topic' = topic /\ dropped \subseteq dropped' /\ \A f \in Flusher : batch'[f] = batch[f]
      /\ \A p \in Payload : Entered(p)' => Entered(p) \/ p = InHand
  BY <1>1, <1>3, <1>4
<1> QED  BY <1>2, <1>5, <1>6, OrderStep

\* A batch is a head of the queue, so what is ahead of an item of the batch is
\* in it too.
LEMMA OrderPick ==
    ASSUME TypeOK, DurableInv, SortInv, OrderInv, NEW f \in Flusher, Pick(f)
    PROVE  OrderInv'
<1>1. UNCHANGED <<phase, queue, request, dropped, topic>> /\ queue \in Seq(Item)
      /\ InHand' = InHand
  BY HandTypes DEF Pick, request, process, InHand
<1>2. \A p \in Payload : Entered(p)' = Entered(p)
  BY <1>1 DEF Entered, request
<1>3. \A p, q \in Payload : Ahead(p, q)' = Ahead(p, q)
  BY <1>1, <1>2 DEF Ahead
<1>4. CASE queue = <<>>
  <2>1. batch' = batch /\ (Serving' => Serving)
    BY <1>1, <1>4 DEF Pick, Serving
  <2> QED  BY <1>1, <2>1, OrderCalm
<1>5. CASE queue # <<>>
  <2>1. Serving
    BY <1>5, NotServing
  <2>2. PICK n \in 1..Len(queue) : batch' = [batch EXCEPT ![f] = SubSeq(queue, 1, n)]
    BY <1>5 DEF Pick
  <2>3. /\ \A g \in Flusher : g # f => batch'[g] = batch[g]
        /\ batch'[f] = SubSeq(queue, 1, n)
    BY <2>2 DEF TypeOK, FlusherTypes
  <2>4. /\ \A k \in DOMAIN batch'[f] : k \in 1..n /\ k \in DOMAIN queue /\ batch'[f][k] = queue[k]
        /\ \A k \in 1..n : k \in DOMAIN batch'[f]
    BY <1>1, <2>3
  <2>5. ASSUME NEW k \in DOMAIN batch'[f], NEW p \in Payload, NEW q \in Payload,
               q = batch'[f][k].payload, Ahead(p, q), ~(topic[p] > 0)
        PROVE  \E j \in DOMAIN batch'[f] : batch'[f][j].payload = p
    <3>1. k \in 1..n /\ k \in DOMAIN queue /\ q = queue[k].payload
      BY <2>4, <2>5
    <3>2. PICK j \in DOMAIN queue : queue[j].payload = p
      BY <2>1, <2>5, OrderUse DEF Ahead
    <3>3. p < q /\ p \in Nat /\ q \in Nat
      BY <2>5, HandTypes DEF Ahead
    <3>4. ~(k < j) /\ j # k
      BY <3>1, <3>2, <3>3 DEF SortInv, Rising
    <3>5. j \in 1..n
      BY <1>1, <3>1, <3>2, <3>4
    <3> QED  BY <2>4, <3>2, <3>5
  <2>6. ASSUME NEW g \in Flusher, NEW k \in DOMAIN batch'[g]
        PROVE  /\ batch'[g][k].payload \in Payload
               /\ \A p, q \in Payload : q = batch'[g][k].payload /\ Ahead(p, q)' =>
                    topic'[p] > 0 \/ \E j \in DOMAIN batch'[g] : batch'[g][j].payload = p
    <3>1. CASE g = f
      BY <1>1, <1>3, <2>4, <2>5, <2>6, <3>1, HeldPayloads
    <3>2. CASE g # f
      BY <1>1, <1>3, <2>3, <2>6, <3>2, HeldPayloads, OrderUse
    <3> QED  BY <3>1, <3>2
  <2>7. /\ \A p \in Payload : topic'[p] > 0 => p < InHand'
        /\ \A p, q \in Payload : Ahead(p, q)' /\ topic'[q] > 0 => topic'[p] > 0
    BY <1>1, <1>3, OrderUse
  <2>8. \A p \in Payload : Entered(p)' =>
          topic'[p] > 0 \/ p \in dropped' \/ \E k \in DOMAIN queue' : queue'[k].payload = p
    BY <1>1, <1>2, <2>1, OrderUse
  <2> QED  BY <2>6, <2>7, <2>8, OrderParts
<1> QED  BY <1>4, <1>5

\* A write stores the batch or nothing, and with an item of the batch is what
\* was ahead of it.
LEMMA OrderWrite ==
    ASSUME TypeOK, DurableInv, SortInv, OrderInv, NEW f \in Flusher,
           UNCHANGED <<queue, request, dropped, process>>,
           NEW S \in {{}, PayloadsOf(batch[f])}, topic' = Stored(S),
           \A g \in Flusher : batch'[g] = batch[g] \/ batch'[g] = <<>>
    PROVE  OrderInv'
<1>1. /\ InHand' = InHand /\ Serving' = Serving /\ queue' = queue /\ dropped' = dropped
      /\ \A p \in Payload : Entered(p)' = Entered(p)
  BY DEF request, process, InHand, Serving, Entered
<1>2. \A p, q \in Payload : Ahead(p, q)' = Ahead(p, q)
  BY <1>1 DEF Ahead
<1>3. \A p \in Payload : topic[p] > 0 => topic'[p] > 0
  BY StoredGrows
<1>4. \A p \in Payload : p \in S => topic'[p] > 0
  BY StoredGrows
<1>5. \A p \in Payload : topic'[p] > 0 => topic[p] > 0 \/ p \in S
  BY DEF Stored
<1>6. \A p \in S : \E k \in DOMAIN batch[f] : p = batch[f][k].payload
  BY DEF PayloadsOf
<1>7. \A p \in Payload : topic'[p] > 0 => p < InHand'
  BY <1>1, <1>5, <1>6, HeldPayloads, OrderUse
<1>8. ASSUME NEW p \in Payload, NEW q \in Payload, Ahead(p, q), topic'[q] > 0
      PROVE  topic'[p] > 0
  <2>1. CASE topic[q] > 0
    BY <1>3, <1>8, <2>1, OrderUse
  <2>2. CASE q \in S
    <3>1. PICK k \in DOMAIN batch[f] : q = batch[f][k].payload
      BY <1>6, <2>2
    <3>2. topic[p] > 0 \/ \E j \in DOMAIN batch[f] : batch[f][j].payload = p
      BY <1>8, <3>1, OrderUse
    <3>3. S = PayloadsOf(batch[f])
      BY <2>2
    <3>4. (\E j \in DOMAIN batch[f] : batch[f][j].payload = p) => p \in S
      BY <3>3 DEF PayloadsOf
    <3> QED  BY <1>3, <1>4, <3>2, <3>4
  <2> QED  BY <1>5, <1>8, <2>1, <2>2
<1>9. ASSUME NEW g \in Flusher, NEW k \in DOMAIN batch'[g]
      PROVE  /\ batch'[g][k].payload \in Payload
             /\ \A p, q \in Payload : q = batch'[g][k].payload /\ Ahead(p, q)' =>
                  topic'[p] > 0 \/ \E j \in DOMAIN batch'[g] : batch'[g][j].payload = p
  <2>1. batch'[g] = batch[g] /\ k \in DOMAIN batch[g]
    BY <1>9
  <2>2. batch[g][k].payload \in Payload
    BY <2>1, HeldPayloads
  <2>3. \A p, q \in Payload : q = batch[g][k].payload /\ Ahead(p, q) =>
          topic[p] > 0 \/ \E j \in DOMAIN batch[g] : batch[g][j].payload = p
    BY <2>1, OrderUse
  <2> QED  BY <1>2, <1>3, <2>1, <2>2, <2>3
<1>10. Serving' => \A p \in Payload : Entered(p)' =>
         topic'[p] > 0 \/ p \in dropped' \/ \E k \in DOMAIN queue' : queue'[k].payload = p
  <2>1. Serving => \A p \in Payload : Entered(p) =>
          topic[p] > 0 \/ p \in dropped \/ \E k \in DOMAIN queue : queue[k].payload = p
    BY OrderUse
  <2> QED  BY <1>1, <1>3, <2>1
<1> QED  BY <1>2, <1>7, <1>8, <1>9, <1>10, OrderParts

\* What Finalize pops is in Kafka.
LEMMA OrderFinalize ==
    ASSUME TypeOK, DurableInv, SortInv, OrderInv, NEW f \in Flusher, Finalize(f)
    PROVE  OrderInv'
<1>1. /\ pc[f] = "finalize" /\ UNCHANGED <<phase, request, dropped, topic>>
      /\ \A g \in Flusher : batch'[g] = batch[g] \/ batch'[g] = <<>>
      /\ queue \in Seq(Item)
  BY HandTypes DEF Finalize, process, TypeOK, FlusherTypes
<1>2. PICK n \in 0..Len(queue) :
        /\ n \in 0..Len(batch[f]) /\ \A k \in 1..n : queue[k] = batch[f][k]
        /\ queue' = queue \/ queue' = SubSeq(queue, n + 1, Len(queue))
  BY FinalizeIs
<1>3. Serving /\ batch[f] \in Seq(Item)
  BY <1>1, FlusherHolds DEF TypeOK, FlusherTypes
<1>4. \A k \in 1..n : topic[queue[k].payload] > 0
  <2>1. \A k \in 1..n : k \in DOMAIN batch[f]
    BY <1>2, <1>3
  <2> QED  BY <1>1, <1>2, <2>1 DEF DurableInv, StoredInv
<1>5. InHand' = InHand /\ InHand \in Nat /\ \A p \in Payload : Entered(p)' = Entered(p)
  BY <1>1, HandTypes DEF request, InHand, Entered
<1>6. \A k \in DOMAIN queue : k \in 1..n \/ \E j \in DOMAIN queue' : queue'[j] = queue[k]
  <2>1. CASE queue' = queue
    BY <2>1
  <2>2. CASE queue' = SubSeq(queue, n + 1, Len(queue))
    <3>1. ASSUME NEW k \in DOMAIN queue, k \notin 1..n
          PROVE  k - n \in DOMAIN queue' /\ queue'[k - n] = queue[k]
      BY <1>1, <1>2, <2>2, <3>1
    <3> QED  BY <3>1
  <2> QED  BY <1>2, <2>1, <2>2
<1>7. ASSUME NEW p \in Payload, Entered(p), ~(topic[p] > 0), p \notin dropped
      PROVE  \E k \in DOMAIN queue' : queue'[k].payload = p
  <2>1. PICK k \in DOMAIN queue : queue[k].payload = p
    BY <1>3, <1>7, OrderUse
  <2>2. k \notin 1..n
    BY <1>4, <1>7, <2>1
  <2> QED  BY <1>6, <2>1, <2>2
<1>8. topic' = topic /\ dropped' = dropped
  BY <1>1
<1>9. \A p \in Payload : Entered(p)' =>
        topic[p] > 0 \/ p \in dropped' \/ \E k \in DOMAIN queue' : queue'[k].payload = p
  BY <1>5, <1>7, <1>8
<1> QED  BY <1>1, <1>5, <1>8, <1>9, OrderStep

LEMMA OrderFlush ==
    ASSUME WholeWrites, TypeOK, DurableInv, SortInv, OrderInv, NEW f \in Flusher, Flush(f)
    PROVE  OrderInv'
<1>1. CASE WriteSucceeds(f) \/ WriteFails(f)
  <2>1. UNCHANGED <<queue, request, dropped, process>>
    BY <1>1 DEF WriteSucceeds, WriteFails
  <2>2. \A g \in Flusher : batch'[g] = batch[g] \/ batch'[g] = <<>>
    BY <1>1 DEF WriteSucceeds, WriteFails, TypeOK, FlusherTypes
  <2>3. \E S \in {{}, PayloadsOf(batch[f])} : topic' = Stored(S)
    BY <1>1 DEF WriteSucceeds, WriteFails, FailedWrites, WholeWrites
  <2> QED  BY <2>1, <2>2, <2>3, OrderWrite
<1> QED  BY <1>1, OrderPick, OrderFinalize DEF Flush

LEMMA OrderLoop ==
    ASSUME TypeOK, SortInv, OrderInv, LoopWakes \/ CheckSize \/ NothingToCompact \/ Compact
    PROVE  OrderInv'
<1>1. UNCHANGED <<queue, batch, request, dropped, topic, process>>
  BY DEF LoopWakes, CheckSize, NothingToCompact, Compact
<1> QED  BY <1>1, OrderCalm DEF process, Serving

LEMMA OrderStart == Init => OrderInv
<1> SUFFICES ASSUME Init PROVE OrderInv
  OBVIOUS
<1>1. ~Serving /\ \A p \in Payload : ~(topic[p] > 0)
  BY DEF Init, Serving
<1>2. \A f \in Flusher : Picked(f) = {}
  BY DEF Init, Picked
<1> QED  BY <1>1, <1>2 DEF OrderInv

LEMMA OrderNext ==
    ASSUME Benign, WholeWrites
    PROVE  TypeOK /\ DurableInv /\ SortInv /\ OrderInv /\ [Next]_vars => OrderInv'
<1> SUFFICES ASSUME TypeOK, DurableInv, SortInv, OrderInv, [Next]_vars PROVE OrderInv'
  OBVIOUS
<1>1. CASE UNCHANGED vars
  <2>1. UNCHANGED <<queue, batch, request, dropped, topic>> /\ (Serving' => Serving)
    BY <1>1 DEF vars, request, Serving
  <2> QED  BY <2>1, OrderCalm
<1>2. CASE Next
  <2>1. Lifecycle => OrderInv'
    BY OrderLifecycle
  <2>2. Request => OrderInv'
    BY OrderRequest
  <2>3. Handler => OrderInv'
    BY OrderEnqueue, OrderLogNewcomer, OrderDropHead DEF Handler
  <2>4. (\E f \in Flusher : Flush(f)) => OrderInv'
    BY OrderFlush
  <2>5. LoopWakes \/ CheckSize \/ NothingToCompact \/ Compact => OrderInv'
    BY OrderLoop
  <2> QED  BY <1>2, <2>1, <2>2, <2>3, <2>4, <2>5 DEF Next
<1> QED  BY <1>1, <1>2

\* In async mode, if a failed write to Kafka stores all of its batch or nothing,
\* accepted payloads reach Kafka in the order they arrived, with three
\* goroutines flushing, requeueing after a failed ack and replaying the WAL
\* after a crash, for every queue and batch size and any number of restarts.
THEOREM QueueKeepsOrder ==
    ASSUME Benign, Async, "partial" \notin Faults
    PROVE  Spec => []OrderKept
<1>1. Spec => [](TypeOK /\ DurableInv /\ SortInv)
  BY SortInvariant
<1>2. TypeOK /\ DurableInv /\ SortInv /\ OrderInv /\ [Next]_vars => OrderInv'
  BY OrderNext DEF WholeWrites
<1>3. OrderInv => OrderKept
  <2> SUFFICES ASSUME OrderInv,
                      NEW p \in Payload, NEW q \in Payload, p < q,
                      {outcome[p], outcome[q]} = {"accepted"}, p \notin dropped, topic[q] > 0
               PROVE  topic[p] > 0
    BY DEF OrderKept
  <2>1. Ahead(p, q)
    BY DEF Ahead, Entered
  <2> QED  BY <2>1, OrderUse
<1> QED  BY <1>1, <1>2, <1>3, OrderStart, PTL DEF Spec

(***************************************************************************)
(* MirrorInv is inductive, if no step of drop-oldest is denied by the disk *)
(* (Faithful) and none falls within a compaction (DropAlone).              *)
(***************************************************************************)

LEMMA RoomTypes ==
    ASSUME TypeOK, TypeOK'
    PROVE  /\ Room \in Nat /\ Room' \in Nat /\ MaxQueue \in Nat /\ MaxQueue <= Room
           /\ restarts <= restarts' => Room <= Room'
           /\ restarts' = restarts + 1 /\ DropOldest => Room' = Room + 1
<1>1. restarts \in Nat /\ restarts' \in Nat /\ MaxQueue \in Nat
  BY ConstantsAssumption DEF TypeOK, DataTypes
<1>2. \A m, r, s \in Nat : /\ m + r \in Nat /\ m + 0 \in Nat /\ m <= m + r /\ m <= m + 0
                           /\ r <= s => m + r <= m + s
                           /\ s = r + 1 => m + s = (m + r) + 1
  OBVIOUS
<1>3. \/ DropOldest /\ Room = MaxQueue + restarts /\ Room' = MaxQueue + restarts'
      \/ ~DropOldest /\ Room = MaxQueue + 0 /\ Room' = MaxQueue + 0
  BY DEF Room
<1>4. Room \in Nat /\ Room' \in Nat /\ MaxQueue <= Room
  BY <1>1, <1>2, <1>3
<1>5. restarts <= restarts' => Room <= Room'
  BY <1>1, <1>2, <1>3
<1>6. restarts' = restarts + 1 /\ DropOldest => Room' = Room + 1
  BY <1>1, <1>2, <1>3
<1> QED  BY <1>1, <1>4, <1>5, <1>6

LEMMA PendingFinite ==
    ASSUME NEW l \in Seq(Record)
    PROVE  IsFiniteSet(Pending(l)) /\ Cardinality(Pending(l)) \in Nat
<1> DEFINE H == Having(l, "add")
           g == [k \in H |-> ItemOf(l[k])]
<1>1. IsFiniteSet(H)
  <2>1. H \subseteq 1..Len(l) /\ IsFiniteSet(1..Len(l))
    BY FS_Interval DEF Having
  <2> QED  BY <2>1, FS_Subset
<1>2. g \in Surjection(H, Added(l))
  BY DEF Surjection, Added
<1>3. IsFiniteSet(Added(l))
  <2> HIDE DEF g, H
  <2> QED  BY <1>1, <1>2, FS_Surjection
<1>4. Pending(l) \subseteq Added(l)
  BY DEF Pending
<1> QED  BY <1>3, <1>4, FS_Subset, FS_CardinalityType

\* A queue in order of arrival has no item twice.
LEMMA RisingCount ==
    ASSUME NEW s \in Seq(Item), NEW T, IsFiniteSet(T), Rising(s),
           \A k \in DOMAIN s : s[k].payload \in Nat /\ s[k] \in T
    PROVE  Len(s) <= Cardinality(T)
<1>1. DOMAIN s = 1..Len(s) /\ Len(s) \in Nat
  OBVIOUS
<1>2. s \in [1..Len(s) -> T]
  BY <1>1
<1>3. ASSUME NEW i \in 1..Len(s), NEW j \in 1..Len(s), s[i] = s[j] PROVE i = j
  <2>1. ~(i < j) /\ ~(j < i)
    BY <1>1, <1>3 DEF Rising
  <2> QED  BY <1>1, <2>1
<1>4. s \in Injection(1..Len(s), T)
  BY <1>2, <1>3 DEF Injection, IsInjective
<1>5. Cardinality(1..Len(s)) <= Cardinality(T)
  BY <1>4, FS_Injection
<1>6. Cardinality(1..Len(s)) = Len(s)
  BY <1>1, FS_Interval
<1> QED  BY <1>5, <1>6

LEMMA QueuedCount ==
    ASSUME TypeOK
    PROVE  IsFiniteSet(Queued) /\ Cardinality(Queued) \in Nat /\ Cardinality(Queued) <= Len(queue)
<1>1. queue \in Seq(Item) /\ DOMAIN queue = 1..Len(queue) /\ Len(queue) \in Nat
  BY HandTypes
<1>2. queue \in Surjection(1..Len(queue), Queued)
  BY <1>1 DEF Surjection, Queued
<1>3. IsFiniteSet(1..Len(queue)) /\ Cardinality(1..Len(queue)) = Len(queue)
  BY <1>1, FS_Interval
<1>4. IsFiniteSet(Queued) /\ Cardinality(Queued) <= Len(queue)
  BY <1>2, <1>3, FS_Surjection
<1> QED  BY <1>4, FS_CardinalityType

\* What an open WAL has pending fits in the queue, or with one item to spare.
LEMMA MirrorCount ==
    ASSUME TypeOK, MirrorInv, wal = "open"
    PROVE  Cardinality(Pending(log)) <= Len(queue) + (IF turn = "ack" THEN 1 ELSE 0)
<1>1. IsFiniteSet(Queued) /\ Cardinality(Queued) \in Nat /\ Cardinality(Queued) <= Len(queue)
      /\ Len(queue) \in Nat
  BY QueuedCount, HandTypes
<1>2. CASE turn = "ack"
  <2>1. Pending(log) = Queued \cup {Newcomer}
    BY <1>2 DEF MirrorInv
  <2>2. Cardinality(Queued \cup {Newcomer}) <= Cardinality(Queued) + 1
    <3>1. Cardinality(Queued \cup {Newcomer})
            = IF Newcomer \in Queued THEN Cardinality(Queued) ELSE Cardinality(Queued) + 1
      BY <1>1, FS_AddElement
    <3> QED  BY <1>1, <3>1
  <2>3. Cardinality(Pending(log)) \in Nat
    BY HandTypes, PendingFinite
  <2> QED  BY <1>1, <1>2, <2>1, <2>2, <2>3
<1>3. CASE turn # "ack"
  <2>1. Pending(log) = Queued
    BY <1>3 DEF MirrorInv
  <2> QED  BY <1>1, <1>3, <2>1
<1> QED  BY <1>2, <1>3

LEMMA MirrorRoom ==
    ASSUME TypeOK, MirrorInv, turn = "add"
    PROVE  Cardinality(Pending(log)) <= Room
<1>1. CASE wal = "open"
  <2>1. Len(queue) <= Room /\ Len(queue) \in Nat
    BY HandTypes DEF MirrorInv
  <2>2. Cardinality(Pending(log)) <= Len(queue)
    BY <1>1, <2>1, MirrorCount
  <2>3. Cardinality(Pending(log)) \in Nat /\ Room \in Nat
    BY HandTypes, PendingFinite, ConstantsAssumption DEF Room, TypeOK, DataTypes
  <2> QED  BY <2>1, <2>2, <2>3
<1>2. CASE wal # "open"
  BY <1>2 DEF MirrorInv
<1> QED  BY <1>1, <1>2

\* A step that leaves the file and the queue alone.
LEMMA MirrorCalm ==
    ASSUME TypeOK, TypeOK', MirrorInv, UNCHANGED <<queue, wal, log, turn>>,
           turn = "ack" => Newcomer' = Newcomer, restarts <= restarts'
    PROVE  MirrorInv'
<1>1. Room \in Nat /\ Room' \in Nat /\ Room <= Room'
  BY RoomTypes
<1>2. Queued' = Queued /\ Pending(log') = Pending(log)
  BY DEF Queued
<1>3. (wal' = "open" => Pending(log') = Queued' \cup (IF turn' = "ack" THEN {Newcomer'} ELSE {}))
      /\ (turn' = "ack" => wal' = "open")
  BY <1>2 DEF MirrorInv
<1>4. Len(queue') <= Room'
  <2>1. Len(queue) <= Room /\ Len(queue) \in Nat
    BY HandTypes DEF MirrorInv
  <2> QED  BY <1>1, <2>1
<1>5. wal' # "open" => Cardinality(Pending(log')) <= Room'
  <2>1. Cardinality(Pending(log)) \in Nat
    BY HandTypes, PendingFinite
  <2>2. wal # "open" => Cardinality(Pending(log)) <= Room
    BY DEF MirrorInv
  <2> QED  BY <1>1, <1>2, <2>1, <2>2
<1> QED  BY <1>3, <1>4, <1>5 DEF MirrorInv

\* After a reset the file is all there is.
LEMMA MirrorReset ==
    ASSUME TypeOK, TypeOK', Reset, Cardinality(Pending(log')) <= Room'
    PROVE  MirrorInv'
<1>1. wal' = "none" /\ turn' = "add" /\ queue' = <<>>
  BY DEF Reset
<1>2. Len(queue') <= Room'
  BY <1>1, RoomTypes
<1> QED  BY <1>1, <1>2 DEF MirrorInv

\* A crash may add acks to the file; one in the middle of drop-oldest leaves
\* one item more in it than the queue had.
LEMMA MirrorCrash ==
    ASSUME TypeOK, TypeOK', DurableInv, MirrorInv, Crash
    PROVE  MirrorInv'
<1>1. Reset /\ restarts' = restarts + 1
  BY DEF Crash
<1>2. Added(log') = Added(log) /\ Acked(log) \subseteq Acked(log')
  BY CrashFile
<1>3. Pending(log') \subseteq Pending(log)
  BY <1>2 DEF Pending
<1>4. /\ Cardinality(Pending(log')) <= Cardinality(Pending(log))
      /\ Cardinality(Pending(log')) \in Nat /\ Cardinality(Pending(log)) \in Nat
  <2>1. log \in Seq(Record) /\ log' \in Seq(Record)
    BY DEF TypeOK, DataTypes
  <2>2. IsFiniteSet(Pending(log)) /\ Cardinality(Pending(log)) \in Nat
    BY <2>1, PendingFinite
  <2>3. Cardinality(Pending(log')) \in Nat
    BY <2>1, PendingFinite
  <2>4. Cardinality(Pending(log')) <= Cardinality(Pending(log))
    BY <1>3, <2>2, FS_Subset
  <2> QED  BY <2>2, <2>3, <2>4
<1>5. /\ Room \in Nat /\ Room' \in Nat /\ Room <= Room'
      /\ DropOldest => Room' = Room + 1
  <2>1. restarts <= restarts'
    BY <1>1, ConstantsAssumption DEF TypeOK, DataTypes
  <2> QED  BY <1>1, <2>1, RoomTypes
<1>6. Cardinality(Pending(log)) <= Room'
  <2>1. CASE wal = "open"
    <3>1. Len(queue) <= Room /\ Len(queue) \in Nat
      BY HandTypes DEF MirrorInv
    <3>2. CASE turn = "ack"
      <4>1. DropOldest
        BY <3>2 DEF DurableInv, ControlInv
      <4>2. Cardinality(Pending(log)) <= Len(queue) + 1
        BY <2>1, <3>2, MirrorCount
      <4> QED  BY <1>4, <1>5, <3>1, <4>1, <4>2
    <3>3. CASE turn # "ack"
      <4>1. Cardinality(Pending(log)) <= Len(queue)
        BY <2>1, <3>1, <3>3, MirrorCount
      <4> QED  BY <1>4, <1>5, <3>1, <4>1
    <3> QED  BY <3>2, <3>3
  <2>2. CASE wal # "open"
    <3>1. Cardinality(Pending(log)) <= Room
      BY <2>2 DEF MirrorInv
    <3> QED  BY <1>4, <1>5, <3>1
  <2> QED  BY <2>1, <2>2
<1>7. Cardinality(Pending(log')) <= Room'
  BY <1>4, <1>5, <1>6
<1> QED  BY <1>1, <1>7, MirrorReset

\* Init queues what is pending, each item once.
LEMMA MirrorInit ==
    ASSUME Benign, TypeOK, TypeOK', DurableInv, SortInv', MirrorInv, InitQueue
    PROVE  MirrorInv'
<1>1. /\ log' \in Compacted(log) /\ log \in Seq(Record) /\ wal' = "open"
      /\ UNCHANGED <<request, restarts>>
      /\ queue' = queue \o [k \in DOMAIN log' |-> ItemOf(log'[k])]
  BY DEF InitQueue, Renamed, FileAtOpen, Benign, TypeOK, DataTypes
<1>2. queue = <<>> /\ turn = "add" /\ wal = "none"
  BY NotServing DEF InitQueue, Serving
<1>3. log' \in Seq(Record) /\ Added(log') = Pending(log) /\ Acked(log') = {}
  BY <1>1, CompactedEffect
<1>4. \A k \in DOMAIN log' : log'[k].op = "add"
  BY <1>1, CompactedRecords DEF Having
<1>5. Pending(log') = Pending(log)
  BY <1>3 DEF Pending
<1>6. queue' \in Seq(Item) /\ \A k \in DOMAIN queue' : queue'[k] \in Item
  BY DEF TypeOK, DataTypes
<1>7. /\ DOMAIN queue' = DOMAIN log'
      /\ \A k \in DOMAIN log' : queue'[k] = ItemOf(log'[k])
  <2> DEFINE items == [k \in DOMAIN log' |-> ItemOf(log'[k])]
  <2>1. DOMAIN items = 1..Len(log') /\ Len(log') \in Nat /\ DOMAIN log' = 1..Len(log')
    BY <1>3
  <2>2. queue' = <<>> \o items
    BY <1>1, <1>2
  <2>3. \A k \in DOMAIN items : items[k] = ItemOf(log'[k])
    OBVIOUS
  <2>4. Len(items) = Len(log')
    BY <2>1
  <2> HIDE DEF items
  <2>5. /\ DOMAIN (<<>> \o items) = 1..Len(log')
        /\ \A k \in 1..Len(log') : (<<>> \o items)[k] = items[k]
    BY <2>1, <2>4
  <2> QED  BY <2>1, <2>2, <2>3, <2>5
<1>8. Queued' = Added(log')
  BY <1>4, <1>7 DEF Queued, Added, Having
<1>9. Len(queue') <= Cardinality(Pending(log))
  <2>1. IsFiniteSet(Pending(log))
    BY <1>1, PendingFinite
  <2>2. \A k \in DOMAIN queue' : queue'[k] \in Pending(log)
    BY <1>3, <1>8 DEF Queued
  <2>3. \A k \in DOMAIN queue' : queue'[k].payload \in Nat
    BY <1>6, HandTypes DEF Item
  <2>4. Rising(queue')
    BY DEF SortInv
  <2> QED  BY <1>6, <2>1, <2>2, <2>3, <2>4, RisingCount
<1>10. Len(queue') <= Room'
  <2>1. Cardinality(Pending(log)) <= Room
    BY <1>2 DEF MirrorInv
  <2>2. Room' = Room /\ Room \in Nat /\ Cardinality(Pending(log)) \in Nat /\ Len(queue') \in Nat
    BY <1>1, <1>6, RoomTypes, PendingFinite DEF Room
  <2> QED  BY <1>9, <2>1, <2>2
<1>11. turn' = "add"
  BY <1>1, <1>2 DEF request
<1> QED  BY <1>1, <1>3, <1>5, <1>8, <1>10, <1>11 DEF MirrorInv

LEMMA MirrorLifecycle ==
    ASSUME Benign, TypeOK, TypeOK', DurableInv, SortInv, SortInv', MirrorInv, Lifecycle
    PROVE  MirrorInv'
<1> USE HandTypes
<1>0. restarts \in Nat
  BY ConstantsAssumption DEF TypeOK, DataTypes
<1>1. CASE Start \/ BeginShutdown
  <2>1. UNCHANGED <<queue, wal, log, request, nextID>> /\ restarts <= restarts'
    BY <1>0, <1>1 DEF Start, BeginShutdown
  <2> QED  BY <2>1, MirrorCalm DEF request, Newcomer, InHand
<1>2. CASE CloseWAL
  <2>1. UNCHANGED <<queue, log, request, restarts>> /\ wal' = "none" /\ phase = "closing"
    BY <1>2 DEF CloseWAL
  <2>2. turn = "add" /\ turn' = "add"
    BY <2>1, HandlerState DEF TypeOK, DataTypes, request
  <2>3. Room' = Room /\ Room \in Nat
    BY <2>1, RoomTypes DEF Room
  <2>4. Len(queue) <= Room
    BY DEF MirrorInv
  <2>5. Cardinality(Pending(log)) <= Room
    BY <2>2, MirrorRoom
  <2> QED  BY <2>1, <2>2, <2>3, <2>4, <2>5 DEF MirrorInv
<1>3. CASE InitFails
  BY <1>3 DEF InitFails, FileAtOpen, Benign, DurableInv, ControlInv
<1>4. CASE Exit
  <2>1. Reset /\ log' = log /\ restarts' = restarts /\ phase = "closed"
    BY <1>4 DEF Exit
  <2>2. turn = "add"
    BY <2>1, HandlerState DEF TypeOK, DataTypes
  <2>3. Cardinality(Pending(log')) <= Room'
    BY <2>1, <2>2, MirrorRoom DEF Room
  <2> QED  BY <2>1, <2>3, MirrorReset
<1> QED  BY <1>1, <1>2, <1>3, <1>4, MirrorCrash, MirrorInit DEF Lifecycle

LEMMA MirrorRequest ==
    ASSUME TypeOK, TypeOK', MirrorInv, Request
    PROVE  MirrorInv'
<1>1. PICK n \in 1..MaxRequest : Refuse(n) \/ Admit(n) \/ DirectWrite(n)
  BY DEF Request
<1>2. UNCHANGED <<queue, wal, log, turn, restarts>> /\ todo = 0
  BY <1>1 DEF Refuse, Admit, DirectWrite, TriedBefore, Arrives, MuFree
<1>3. turn # "ack" /\ restarts <= restarts'
  BY <1>2, HandTypes, ConstantsAssumption DEF TypeOK, DataTypes
<1> QED  BY <1>2, <1>3, MirrorCalm

\* What an append leaves behind where no disk fault is but a clean failure.
LEMMA FaithfulAppend ==
    ASSUME TypeOK, Faithful, NEW l \in Seq(Record), Whole(l), NEW r,
           NEW o \in AppendOutcomes(l, r)
    PROVE  /\ o.res = "error" => o.log = l
           /\ o.res # "error" /\ wal = "open" => o.log = l \o r
           /\ wal # "open" => o.log = l
           /\ DropOldest /\ wal = "open" => o.res # "error"
<1>1. Extend(l, r) = l \o r
  BY ExtendWhole
<1>2. FailedAppends(l, r) \subseteq {l} /\ (DropOldest => FailedAppends(l, r) = {})
  BY DEF FailedAppends, Faithful, Benign
<1>3. CASE wal = "none"
  BY <1>3 DEF AppendOutcomes
<1>4. CASE wal = "broken"
  BY <1>4 DEF AppendOutcomes
<1>5. CASE wal # "none" /\ wal # "broken"
  <2>1. \/ o = [log |-> l \o r, res |-> "ok"]
        \/ ~DropOldest /\ o = [log |-> l, res |-> "error"]
    BY <1>1, <1>2, <1>5 DEF AppendOutcomes
  <2>2. CASE o = [log |-> l \o r, res |-> "ok"]
    <3>1. o.log = l \o r /\ o.res = "ok"
      BY <2>2
    <3>2. wal = "open"
      BY <1>5 DEF TypeOK, DataTypes
    <3> QED  BY <1>5, <3>1, <3>2
  <2>3. CASE ~DropOldest /\ o = [log |-> l, res |-> "error"]
    BY <2>3
  <2> QED  BY <2>1, <2>2, <2>3
<1> QED  BY <1>3, <1>4, <1>5

LEMMA FaithfulAck ==
    ASSUME TypeOK, Faithful, NEW l \in Seq(Record), Whole(l), NEW r,
           NEW o \in AckOutcomes(l, r)
    PROVE  /\ o.res = "error" => o.log = l
           /\ o.res # "error" /\ wal = "open" => o.log = l \o r
           /\ wal # "open" => o.log = l
           /\ DropOldest /\ wal = "open" /\ pc["loop"] # "compact" => o.res # "error"
<1>1. CASE o \in AppendOutcomes(l, r)
  BY <1>1, FaithfulAppend
<1>2. CASE o = [log |-> l, res |-> "error"] /\ pc["loop"] = "compact" /\ wal = "open"
  BY <1>2
<1> QED  BY <1>1, <1>2 DEF AckOutcomes

\* The add of the payload in hand, when it is logged and when it fails.
LEMMA MirrorAdd ==
    ASSUME Faithful, TypeOK, DurableInv, SortInv, MirrorInv, todo > 0, turn = "add",
           NEW o \in AppendOutcomes(log, <<AddRec(NewItem)>>), log' = o.log
    PROVE  /\ o.res = "error" => Pending(log') = Pending(log)
           /\ o.res # "error" => wal = "open" /\ Pending(log') = Queued \cup {NewItem}
<1>1. Benign /\ log \in Seq(Record) /\ Whole(log) /\ wal # "none"
  BY HandlerState DEF Faithful
<1>2. o.res = "error" => o.log = log
  BY <1>1, FaithfulAppend
<1>3. o.res # "error" => wal = "open"
  <2>1. wal = "broken" => o.res = "error"
    BY DEF AppendOutcomes
  <2> QED  BY <1>1, <2>1 DEF TypeOK, DataTypes
<1> DEFINE m == log \o <<AddRec(NewItem)>>
<1>4. /\ o.res # "error" => o.log = m
      /\ Added(m) = Added(log) \cup {NewItem} /\ Acked(m) = Acked(log)
      /\ NewItem.id \notin Acked(log)
  BY <1>1, AddOutcome
<1> HIDE DEF m
<1>5. Pending(m) = Pending(log) \cup {NewItem}
  BY <1>4 DEF Pending
<1>6. wal = "open" => Pending(log) = Queued
  BY DEF MirrorInv
<1> QED  BY <1>2, <1>3, <1>4, <1>5, <1>6

\* A request that fails leaves the queue as it was.
LEMMA MirrorFailed ==
    ASSUME TypeOK, MirrorInv, turn = "add", turn' = "add",
           UNCHANGED <<queue, wal, restarts>>, Pending(log') = Pending(log)
    PROVE  MirrorInv'
BY DEF MirrorInv, Queued, Room

LEMMA MirrorEnqueue ==
    ASSUME Faithful, TypeOK, TypeOK', DurableInv, SortInv, MirrorInv, Enqueue
    PROVE  MirrorInv'
<1>1. /\ todo > 0 /\ Len(queue) < MaxQueue /\ queue \in Seq(Item) /\ Len(queue) \in Nat
      /\ wal' = wal /\ restarts' = restarts
  BY HandTypes DEF Enqueue
<1>2. turn = "add"
  BY <1>1, ConstantsAssumption DEF SortInv, TypeOK, DataTypes
<1>3. PICK o \in AppendOutcomes(log, <<AddRec(NewItem)>>) :
        /\ log' = o.log
        /\ IF o.res = "error" THEN RequestFails /\ queue' = queue
           ELSE PayloadQueued /\ queue' = Append(queue, NewItem)
  BY DEF Enqueue
<1>4. /\ o.res = "error" => Pending(log') = Pending(log)
      /\ o.res # "error" => wal = "open" /\ Pending(log') = Queued \cup {NewItem}
  BY <1>1, <1>2, <1>3, MirrorAdd
<1>5. turn' = "add"
  BY <1>3 DEF PayloadQueued, RequestFails
<1>6. CASE o.res = "error"
  BY <1>1, <1>2, <1>3, <1>4, <1>5, <1>6, MirrorFailed
<1>7. CASE o.res # "error"
  <2>1. queue' = Append(queue, NewItem) /\ wal' = "open" /\ Pending(log') = Queued \cup {NewItem}
    BY <1>1, <1>3, <1>4, <1>7
  <2>2. Queued' = Queued \cup {NewItem}
    <3>1. /\ \A k \in DOMAIN queue : k \in DOMAIN queue' /\ queue'[k] = queue[k]
          /\ Len(queue) + 1 \in DOMAIN queue' /\ queue'[Len(queue) + 1] = NewItem
      BY <1>1, <2>1
    <3>2. \A k \in DOMAIN queue' :
            (k \in DOMAIN queue /\ queue'[k] = queue[k]) \/ queue'[k] = NewItem
      BY <1>1, <2>1
    <3> QED  BY <3>1, <3>2 DEF Queued
  <2>3. Len(queue') <= Room'
    <3>1. Len(queue') = Len(queue) + 1
      BY <1>1, <2>1
    <3>2. MaxQueue \in Nat /\ Room \in Nat /\ MaxQueue <= Room /\ Room' = Room
      BY <1>1, RoomTypes DEF Room
    <3>3. Len(queue') <= MaxQueue
      BY <1>1, <3>1, <3>2
    <3> QED  BY <1>1, <3>1, <3>2, <3>3
  <2> QED  BY <1>5, <2>1, <2>2, <2>3 DEF MirrorInv
<1> QED  BY <1>6, <1>7

LEMMA MirrorLogNewcomer ==
    ASSUME Faithful, TypeOK, TypeOK', DurableInv, SortInv, MirrorInv, LogNewcomer
    PROVE  MirrorInv'
<1>1. /\ todo > 0 /\ turn = "add" /\ queue' = queue /\ wal' = wal /\ restarts' = restarts
      /\ nextID' = nextID + 1
  BY DEF LogNewcomer
<1>2. PICK o \in AppendOutcomes(log, <<AddRec(NewItem)>>) :
        /\ log' = o.log
        /\ IF o.res = "error" THEN RequestFails
           ELSE turn' = "ack" /\ UNCHANGED <<arrived, todo, outcome, loop>>
  BY DEF LogNewcomer
<1>3. /\ o.res = "error" => Pending(log') = Pending(log)
      /\ o.res # "error" => wal = "open" /\ Pending(log') = Queued \cup {NewItem}
  BY <1>1, <1>2, MirrorAdd
<1>4. CASE o.res = "error"
  <2>1. turn' = "add"
    BY <1>2, <1>4 DEF RequestFails
  <2> QED  BY <1>1, <1>3, <1>4, <2>1, MirrorFailed
<1>5. CASE o.res # "error"
  <2>1. turn' = "ack" /\ Newcomer' = NewItem
    BY <1>1, <1>2, <1>5 DEF Newcomer, NewItem, InHand
  <2>2. wal' = "open" /\ Pending(log') = Queued' \cup {Newcomer'}
    BY <1>1, <1>3, <1>5, <2>1 DEF Queued
  <2>3. Len(queue') <= Room'
    BY <1>1 DEF MirrorInv, Room
  <2> QED  BY <2>1, <2>2, <2>3 DEF MirrorInv
<1> QED  BY <1>4, <1>5

\* Acking the items of S takes them out of what is pending.
LEMMA PendingAcked ==
    ASSUME NEW l \in Seq(Record), NEW r \in Seq(Record), Added(r) = {}
    PROVE  Pending(l \o r) = {a \in Pending(l) : a.id \notin Acked(r)}
<1>1. Added(l \o r) = Added(l) \cup Added(r) /\ Acked(l \o r) = Acked(l) \cup Acked(r)
  BY ConcatWal
<1> DEFINE m == l \o r
<1> HIDE DEF m
<1>2. Added(m) = Added(l) /\ Acked(m) = Acked(l) \cup Acked(r)
  BY <1>1 DEF m
<1>3. Pending(m) = {a \in Pending(l) : a.id \notin Acked(r)}
  BY <1>2 DEF Pending
<1> QED  BY <1>3 DEF m

\* Drop-oldest replaces the head by the newcomer, in the file and in the queue.
LEMMA MirrorDropHead ==
    ASSUME Faithful, TypeOK, TypeOK', DurableInv, SortInv, MirrorInv, DropAlone, DropHead
    PROVE  MirrorInv'
<1> DEFINE head == Head(queue)
           r == <<AckRec(head)>>
<1>1. /\ turn = "ack" /\ todo > 0 /\ queue \in Seq(Item) /\ queue # <<>> /\ DropOldest
      /\ wal = "open" /\ wal' = wal /\ restarts' = restarts /\ pc["loop"] # "compact"
  BY HandTypes DEF DropHead, TypeOK, DataTypes, DurableInv, ControlInv, MirrorInv, DropAlone
<1>2. log \in Seq(Record) /\ Whole(log)
  BY <1>1, HandlerState
<1>3. head \in Item /\ head = queue[1] /\ 1 \in DOMAIN queue
  BY <1>1
<1>4. r \in Seq(Record) /\ Added(r) = {} /\ Acked(r) = {head.id}
  <2>1. AckRec(head) \in Record
    BY <1>3, RecordTypes
  <2>2. r \in Seq(Record)
    BY <2>1
  <2>3. Added(r) = {} /\ Acked(r) = {head.id}
    BY <1>3, SingleRecords
  <2> QED  BY <2>2, <2>3
<1>5. PICK o \in AckOutcomes(log, r) :
        \/ /\ o.res = "ok" /\ log' = o.log
           /\ queue' = Append(Tail(queue), Newcomer)
           /\ PayloadQueued
        \/ o.res = "error"
  BY DEF DropHead
<1> HIDE DEF r, head
<1>6. o.res # "error" /\ o.log = log \o r
  BY <1>1, <1>2, FaithfulAck
<1>7. log' = log \o r /\ queue' = Append(Tail(queue), Newcomer) /\ turn' = "add"
  BY <1>5, <1>6 DEF PayloadQueued
<1>8. Pending(log') = {a \in Pending(log) : a.id # head.id}
  BY <1>2, <1>4, <1>7, PendingAcked
<1>9. Pending(log) = Queued \cup {Newcomer} /\ head \in Queued
  BY <1>1, <1>3 DEF MirrorInv, Queued
<1>10. \A a \in Pending(log) : a.id = head.id => a = head
  <2>1. \A a \in Pending(log) : a \in Held
    BY <1>1, <1>9 DEF Held
  <2> QED  BY <1>9, <2>1 DEF SortInv
<1>11. Pending(log') = (Queued \cup {Newcomer}) \ {head}
  BY <1>8, <1>9, <1>10
<1>12. Queued' = (Queued \cup {Newcomer}) \ {head}
  <2>1. /\ \A k \in DOMAIN queue : k # 1 => k - 1 \in DOMAIN queue' /\ queue'[k - 1] = queue[k]
        /\ Len(queue) \in DOMAIN queue' /\ queue'[Len(queue)] = Newcomer
    BY <1>1, <1>7
  <2>2. \A k \in DOMAIN queue' :
          (k + 1 \in DOMAIN queue /\ k + 1 # 1 /\ queue'[k] = queue[k + 1]) \/ queue'[k] = Newcomer
    BY <1>1, <1>7
  <2>3. \A k \in DOMAIN queue : k # 1 => queue[k] # head
    <3>1. ASSUME NEW k \in DOMAIN queue, k # 1 PROVE queue[1].payload < queue[k].payload
      <4>1. 1 < k
        BY <1>1, <3>1
      <4> QED  BY <1>3, <4>1 DEF SortInv, Rising
    <3>2. \A k \in DOMAIN queue : queue[k].payload \in Nat
      BY HeldPayloads, HandTypes
    <3> QED  BY <1>3, <3>1, <3>2
  <2>4. Newcomer # head
    <3>1. head.payload < InHand /\ head.payload \in Nat /\ Newcomer.payload = InHand
      BY <1>3, HeldPayloads, HandTypes DEF Newcomer
    <3> QED  BY <3>1, HandTypes
  <2>5. ASSUME NEW a \in Queued' PROVE a \in (Queued \cup {Newcomer}) \ {head}
    <3>1. PICK k \in DOMAIN queue' : a = queue'[k]
      BY DEF Queued
    <3> QED  BY <2>2, <2>3, <2>4, <3>1 DEF Queued
  <2>6. ASSUME NEW a \in (Queued \cup {Newcomer}) \ {head} PROVE a \in Queued'
    <3>1. CASE a = Newcomer
      BY <2>1, <3>1 DEF Queued
    <3>2. CASE a \in Queued
      <4>1. PICK k \in DOMAIN queue : a = queue[k]
        BY <3>2 DEF Queued
      <4>2. k # 1
        BY <1>3, <2>6, <4>1
      <4> QED  BY <2>1, <4>1, <4>2 DEF Queued
    <3> QED  BY <3>1, <3>2
  <2> QED  BY <2>5, <2>6
<1>13. Len(queue') <= Room'
  <2>1. Len(queue') = Len(queue)
    BY <1>1, <1>7
  <2> QED  BY <1>1, <2>1 DEF MirrorInv, Room
<1> QED  BY <1>1, <1>7, <1>11, <1>12, <1>13 DEF MirrorInv

\* Finalize takes the same items from the file and from the queue.
LEMMA MirrorFinalize ==
    ASSUME Faithful, TypeOK, TypeOK', DurableInv, SortInv, MirrorInv,
           NEW f \in Flusher, Finalize(f)
    PROVE  MirrorInv'
<1> DEFINE b == batch[f]
<1>1. /\ pc[f] = "finalize" /\ todo = 0 /\ UNCHANGED <<wal, request, restarts>>
      /\ b \in Seq(Item) /\ queue \in Seq(Item) /\ Len(queue) \in Nat
  BY HandTypes DEF Finalize, MuFree, process, TypeOK, FlusherTypes
<1>2. turn = "add" /\ turn' = "add"
  BY <1>1 DEF TypeOK, DataTypes, request
<1>3. Serving /\ Whole(log) /\ log \in Seq(Record)
  BY <1>1, FlusherHolds DEF DurableInv, ControlInv, TypeOK, DataTypes
<1>4. PICK n \in 0..Len(queue) :
        /\ n \in 0..Len(b) /\ \A k \in 1..n : queue[k] = b[k]
        /\ \E o \in IF n = 0 THEN {[log |-> log, res |-> "ok"]} ELSE AckOutcomes(log, Acks(b, n)) :
             /\ log' = o.log
             /\ queue' = IF o.res = "error" THEN queue ELSE SubSeq(queue, n + 1, Len(queue))
  BY FinalizeIs
<1>5. PICK o \in IF n = 0 THEN {[log |-> log, res |-> "ok"]} ELSE AckOutcomes(log, Acks(b, n)) :
        /\ log' = o.log
        /\ queue' = IF o.res = "error" THEN queue ELSE SubSeq(queue, n + 1, Len(queue))
  BY <1>4
<1> HIDE DEF b
<1>6. /\ Acks(b, n) \in Seq(Record) /\ Added(Acks(b, n)) = {}
      /\ Acked(Acks(b, n)) = {b[k].id : k \in 1..n}
  BY <1>1, <1>4, AckRecords
<1>7. CASE n = 0
  <2>1. o.log = log /\ o.res = "ok"
    BY <1>5, <1>7
  <2>2. log' = log /\ queue' = SubSeq(queue, 1, Len(queue))
    BY <1>5, <1>7, <2>1
  <2>3. queue' = queue
    BY <1>1, <2>2
  <2> QED  BY <1>1, <1>2, <2>2, <2>3, MirrorFailed
<1>8. CASE n # 0 /\ o.res = "error"
  <2>1. o.log = log
    BY <1>3, <1>5, <1>8, FaithfulAck
  <2> QED  BY <1>1, <1>2, <1>5, <1>8, <2>1, MirrorFailed
<1>9. CASE n # 0 /\ o.res # "error"
  <2>1. queue' = SubSeq(queue, n + 1, Len(queue)) /\ log' = o.log
    BY <1>5, <1>9
  <2>2. /\ \A k \in DOMAIN queue : k \in 1..n \/ (k - n \in DOMAIN queue' /\ queue'[k - n] = queue[k])
        /\ \A k \in DOMAIN queue' : k + n \in DOMAIN queue /\ k + n \notin 1..n /\ queue'[k] = queue[k + n]
        /\ Len(queue') <= Len(queue) /\ Len(queue') \in Nat
    BY <1>1, <1>4, <2>1
  <2>3. Len(queue') <= Room'
    <3>1. Room' = Room /\ Room \in Nat /\ Len(queue) <= Room
      BY <1>1, RoomTypes DEF MirrorInv, Room
    <3> QED  BY <1>1, <2>2, <3>1
  <2>4. CASE wal = "open"
    <3> DEFINE popped == {queue[k] : k \in 1..n}
    <3>1. log' = log \o Acks(b, n)
      BY <1>3, <1>5, <1>9, <2>4, FaithfulAck
    <3>2. Pending(log') = {a \in Pending(log) : a.id \notin {b[k].id : k \in 1..n}}
      BY <1>3, <1>6, <3>1, PendingAcked
    <3>3. Pending(log) = Queued
      BY <1>2, <2>4 DEF MirrorInv
    <3>4. \A k \in 1..n : k \in DOMAIN queue /\ queue[k] \in Held /\ b[k] = queue[k]
      <4>1. \A k \in 1..n : k \in DOMAIN queue
        BY <1>1, <1>4
      <4> QED  BY <1>4, <4>1, HeldCases
    <3>5. \A a \in Queued : a \in Held
      BY DEF Held
    <3>6. \A a \in Queued : a.id \in {b[k].id : k \in 1..n} <=> a \in popped
      BY <3>4, <3>5 DEF SortInv
    <3>7. Pending(log') = Queued \ popped
      BY <3>2, <3>3, <3>6
    <3>8. \A i, j \in DOMAIN queue : queue[i] = queue[j] => i = j
      <4>1. ASSUME NEW i \in DOMAIN queue, NEW j \in DOMAIN queue, i < j
            PROVE  queue[i] # queue[j]
        <5>1. queue[i].payload < queue[j].payload
          BY <4>1 DEF SortInv, Rising
        <5>2. queue[i].payload \in Nat /\ queue[j].payload \in Nat
          BY HeldPayloads, HandTypes
        <5> QED  BY <5>1, <5>2
      <4>2. \A i, j \in DOMAIN queue : i < j \/ j < i \/ i = j
        BY <1>1
      <4> QED  BY <4>1, <4>2
    <3>9. Queued' = Queued \ popped
      <4>1. ASSUME NEW a \in Queued' PROVE a \in Queued \ popped
        <5>1. PICK k \in DOMAIN queue' : a = queue'[k]
          BY DEF Queued
        <5>2. k + n \in DOMAIN queue /\ k + n \notin 1..n /\ a = queue[k + n]
          BY <2>2, <5>1
        <5>3. a \notin popped
          BY <3>4, <3>8, <5>2
        <5> QED  BY <5>2, <5>3 DEF Queued
      <4>2. ASSUME NEW a \in Queued \ popped PROVE a \in Queued'
        <5>1. PICK k \in DOMAIN queue : a = queue[k]
          BY DEF Queued
        <5> QED  BY <2>2, <4>2, <5>1 DEF Queued
      <4> QED  BY <4>1, <4>2
    <3> QED  BY <1>1, <1>2, <2>3, <2>4, <3>7, <3>9 DEF MirrorInv
  <2>5. CASE wal # "open"
    <3>1. log' = log
      BY <1>3, <1>5, <1>9, <2>5, FaithfulAck
    <3> QED  BY <1>1, <1>2, <2>3, <2>5, <3>1 DEF MirrorInv, Room
  <2> QED  BY <2>4, <2>5
<1> QED  BY <1>7, <1>8, <1>9

\* A compaction keeps what is pending, and one that loses the file leaves it
\* with no more than the queue.
LEMMA MirrorCompact ==
    ASSUME TypeOK, TypeOK', MirrorInv, DropAlone, Compact
    PROVE  MirrorInv'
<1>1. /\ pc["loop"] = "compact" /\ wal = "open" /\ UNCHANGED <<queue, request, restarts>>
      /\ log' = log \/ log' \in Compacted(log)
  BY DEF Compact, process
<1>2. turn = "add" /\ turn' = "add"
  BY <1>1 DEF DropAlone, TypeOK, DataTypes, request
<1>3. Pending(log') = Pending(log)
  <2>1. CASE log' \in Compacted(log)
    BY <2>1, HandTypes, CompactedEffect DEF Pending
  <2> QED  BY <1>1, <2>1
<1>4. Cardinality(Pending(log)) <= Room
  BY <1>2, MirrorRoom
<1> QED  BY <1>1, <1>2, <1>3, <1>4 DEF MirrorInv, Queued, Room

LEMMA MirrorStart == Init => MirrorInv
<1> SUFFICES ASSUME Init PROVE MirrorInv
  OBVIOUS
<1>1. TypeOK
  BY TypeInit
<1>2. wal = "none" /\ turn = "add" /\ queue = <<>> /\ log = <<>> /\ restarts = 0
  BY DEF Init
<1>3. Pending(log) = {}
  BY <1>2 DEF Pending, Added, Having
<1>4. Cardinality(Pending(log)) = 0
  BY <1>3, FS_EmptySet
<1>5. Room \in Nat /\ Len(queue) = 0
  BY <1>2, ConstantsAssumption DEF Room
<1>6. 0 <= Room
  BY <1>5
<1> QED  BY <1>2, <1>4, <1>5, <1>6 DEF MirrorInv

LEMMA MirrorNext ==
    ASSUME Faithful
    PROVE  TypeOK /\ DurableInv /\ SortInv /\ SortInv' /\ MirrorInv /\ DropAlone /\ [Next]_vars
             => MirrorInv'
<1> SUFFICES ASSUME TypeOK, DurableInv, SortInv, SortInv', MirrorInv, DropAlone, [Next]_vars
             PROVE  MirrorInv'
  OBVIOUS
<1>1. TypeOK' /\ Benign
  BY TypeStep DEF Faithful
<1>2. restarts <= restarts
  BY ConstantsAssumption DEF TypeOK, DataTypes
<1>3. CASE UNCHANGED vars
  BY <1>1, <1>2, <1>3, MirrorCalm DEF vars, Newcomer, InHand
<1>4. CASE Next
  <2>1. Lifecycle => MirrorInv'
    BY <1>1, MirrorLifecycle
  <2>2. Request => MirrorInv'
    BY <1>1, MirrorRequest
  <2>3. Handler => MirrorInv'
    BY <1>1, MirrorEnqueue, MirrorLogNewcomer, MirrorDropHead DEF Handler
  <2>4. ASSUME NEW f \in Flusher, Flush(f) PROVE MirrorInv'
    <3>1. CASE Pick(f) \/ WriteSucceeds(f) \/ WriteFails(f)
      <4>1. UNCHANGED <<queue, wal, log, turn>> /\ restarts' = restarts /\ Newcomer' = Newcomer
        BY <3>1 DEF Pick, WriteSucceeds, WriteFails, request, process, Newcomer, InHand
      <4> QED  BY <1>1, <1>2, <4>1, MirrorCalm
    <3>2. CASE Finalize(f)
      BY <1>1, <3>2, MirrorFinalize
    <3> QED  BY <2>4, <3>1, <3>2 DEF Flush
  <2>5. LoopWakes \/ CheckSize \/ NothingToCompact => MirrorInv'
    <3> SUFFICES ASSUME LoopWakes \/ CheckSize \/ NothingToCompact PROVE MirrorInv'
      OBVIOUS
    <3>1. UNCHANGED <<queue, wal, log, turn>> /\ restarts' = restarts /\ Newcomer' = Newcomer
      BY DEF LoopWakes, CheckSize, NothingToCompact, request, process, Newcomer, InHand
    <3> QED  BY <1>1, <1>2, <3>1, MirrorCalm
  <2>6. Compact => MirrorInv'
    BY <1>1, MirrorCompact
  <2> QED  BY <1>4, <2>1, <2>2, <2>3, <2>4, <2>5, <2>6 DEF Next
<1> QED  BY <1>3, <1>4

LEMMA MirrorInvariant ==
    ASSUME Faithful
    PROVE  Spec /\ []DropAlone => [](TypeOK /\ DurableInv /\ MirrorInv)
<1>1. Spec => [](TypeOK /\ DurableInv /\ SortInv)
  BY SortInvariant DEF Faithful
<1>2. TypeOK /\ DurableInv /\ SortInv /\ SortInv' /\ MirrorInv /\ DropAlone /\ [Next]_vars
        => MirrorInv'
  BY MirrorNext
<1> QED  BY <1>1, <1>2, MirrorStart, PTL DEF Spec

LEMMA MirrorInvImplies ==
    ASSUME TypeOK, MirrorInv
    PROVE  ReplayConsistent /\ QueueBounded
<1>1. ASSUME wal = "open", MuFree PROVE Pending(log) = Queued
  <2>1. turn # "ack"
    BY <1>1, HandTypes DEF MuFree
  <2> QED  BY <1>1, <2>1 DEF MirrorInv
<1> QED  BY <1>1 DEF MirrorInv, Room, ReplayConsistent, QueueBounded

\* While the file of the WAL is open and no request is in progress, a crash
\* would replay exactly the items the queue holds: in every behaviour in which
\* no drop-oldest falls between the size check and the end of a compaction, if
\* the disk never denies it an append.
THEOREM ReplayIsTheQueue ==
    ASSUME Faithful
    PROVE  Spec /\ []DropAlone => []ReplayConsistent
<1>1. Spec /\ []DropAlone => [](TypeOK /\ DurableInv /\ MirrorInv)
  BY MirrorInvariant
<1>2. TypeOK /\ MirrorInv => ReplayConsistent
  BY MirrorInvImplies
<1> QED  BY <1>1, <1>2, PTL

\* In the same behaviours the queue keeps to MEMORY_QUEUE_MAX_SIZE however often
\* it is replayed, up to one item for every restart with drop-oldest.
THEOREM QueueKeepsToItsSize ==
    ASSUME Faithful
    PROVE  Spec /\ []DropAlone => []QueueBounded
<1>1. Spec /\ []DropAlone => [](TypeOK /\ DurableInv /\ MirrorInv)
  BY MirrorInvariant
<1>2. TypeOK /\ MirrorInv => QueueBounded
  BY MirrorInvImplies
<1> QED  BY <1>1, <1>2, PTL

\* A queue that rejects when full needs neither condition: failing appends and
\* compactions included, it replays what it holds and keeps to its size.
THEOREM RejectingQueueIsExact ==
    ASSUME Faithful, ~DropOldest
    PROVE  Spec => [](ReplayConsistent /\ QueueBounded)
<1>1. Spec => [](TypeOK /\ DurableInv)
  BY DurableInvariant DEF Faithful
<1>2. DurableInv => DropAlone
  BY DEF DurableInv, ControlInv, DropAlone
<1>3. Spec /\ []DropAlone => [](TypeOK /\ DurableInv /\ MirrorInv)
  BY MirrorInvariant
<1>4. TypeOK /\ MirrorInv => ReplayConsistent /\ QueueBounded
  BY MirrorInvImplies
<1> QED  BY <1>1, <1>2, <1>3, <1>4, PTL

=============================================================================
