--------------------------- MODULE ExecRunProofs ---------------------------
(***************************************************************************)
(* Proofs about ExecRun, for every number of cancelling requests, retries, *)
(* outputs, restarts and refused inserts.                                  *)
(*                                                                         *)
(* The order of the proof: what the events in memory and in ClickHouse are *)
(* after a write; the types; who may still act on the run (the task, a     *)
(* doomed task, a request that has yielded); the verdict; the stream.      *)
(***************************************************************************)
EXTENDS ExecRun, FiniteSetTheorems, WellFoundedInduction,
        SequenceTheorems, TLAPS

Kind == {"started", "resolved", "output", "cancel"} \cup Terminal
Record == [status : Status, cancel : BOOLEAN]

-----------------------------------------------------------------------------
(* Sequences of events *)

LEMMA LeastNatural ==
    ASSUME NEW T \in SUBSET Nat, T # {}
    PROVE  \E m \in T : \A k \in T : m <= k
<1>1. PICK m \in T : \A k \in T : <<k, m>> \notin OpToRel(<, Nat)
  BY NatLessThanWellFounded, WFMin
<1>2. \A k \in T : ~(k < m)
  BY <1>1 DEF OpToRel
<1> QED
  BY <1>2

LEMMA ToSetAppends ==
    ASSUME NEW S, NEW s \in Seq(S), NEW t \in Seq(S)
    PROVE  ToSet(s \o t) = ToSet(s) \cup ToSet(t)
<1>1. /\ Len(s \o t) = Len(s) + Len(t) /\ Len(s) \in Nat /\ Len(t) \in Nat
      /\ DOMAIN (s \o t) = 1 .. Len(s) + Len(t)
      /\ DOMAIN s = 1 .. Len(s) /\ DOMAIN t = 1 .. Len(t)
  OBVIOUS
<1>2. \A i \in 1 .. Len(s) + Len(t) : (s \o t)[i] = IF i <= Len(s) THEN s[i] ELSE t[i - Len(s)]
  OBVIOUS
<1>3. \A i \in 1 .. Len(t) : (s \o t)[Len(s) + i] = t[i]
  BY <1>1, <1>2
<1>4. ToSet(s \o t) \subseteq ToSet(s) \cup ToSet(t)
  BY <1>1, <1>2 DEF ToSet
<1>5. ToSet(s) \subseteq ToSet(s \o t)
  BY <1>1, <1>2 DEF ToSet
<1>6. ToSet(t) \subseteq ToSet(s \o t)
  <2> SUFFICES ASSUME NEW i \in 1 .. Len(t) PROVE t[i] \in ToSet(s \o t)
    BY <1>1 DEF ToSet
  <2>1. Len(s) + i \in DOMAIN (s \o t) /\ (s \o t)[Len(s) + i] = t[i]
    BY <1>1, <1>3
  <2> QED
    BY <2>1 DEF ToSet
<1> QED
  BY <1>4, <1>5, <1>6

LEMMA ToSetCut ==
    ASSUME NEW S, NEW s \in Seq(S), NEW i \in 1 .. Len(s) + 1, NEW j \in 0 .. Len(s)
    PROVE  /\ SubSeq(s, i, j) \in Seq(S)
           /\ ToSet(SubSeq(s, i, j)) \subseteq ToSet(s)
<1>1. SubSeq(s, i, j) \in Seq(S)
  OBVIOUS
<1>2. \A k \in 1 .. Len(SubSeq(s, i, j)) : i + k - 1 \in DOMAIN s /\ SubSeq(s, i, j)[k] = s[i + k - 1]
  OBVIOUS
<1> QED
  BY <1>1, <1>2 DEF ToSet

LEMMA ToSetOne == \A e : ToSet(<<e>>) = {e} /\ ToSet(<<>>) = {}
BY DEF ToSet

LEMMA UpToBounds ==
    ASSUME NEW S, NEW h \in Seq(S), NEW seq
    PROVE  UpTo(h, seq) \in 0 .. Len(h)
<1>1. DOMAIN h = 1 .. Len(h) /\ Len(h) \in Nat
  OBVIOUS
<1>2. IsFiniteSet(1 .. Len(h)) /\ Cardinality(1 .. Len(h)) = Len(h)
  BY <1>1, FS_Interval
<1> DEFINE below == {k \in DOMAIN h : h[k].seq <= seq}
<1>3. below \subseteq 1 .. Len(h)
  BY <1>1
<1> HIDE DEF below
<1>4. IsFiniteSet(below) /\ Cardinality(below) <= Len(h)
  BY <1>2, <1>3, FS_Subset
<1>5. Cardinality(below) \in Nat
  BY <1>4, FS_CardinalityType
<1> QED
  BY <1>1, <1>4, <1>5 DEF UpTo, below

LEMMA CutInTwo ==
    ASSUME NEW S, NEW s \in Seq(S), NEW n \in 0 .. Len(s)
    PROVE  s = SubSeq(s, 1, n) \o SubSeq(s, n + 1, Len(s))
<1> DEFINE low == SubSeq(s, 1, n)
           high == SubSeq(s, n + 1, Len(s))
<1>1. /\ low \in Seq(S) /\ Len(low) = n /\ \A k \in 1 .. n : low[k] = s[k]
      /\ high \in Seq(S) /\ Len(high) = Len(s) - n
      /\ \A k \in 1 .. Len(s) - n : high[k] = s[n + k]
  OBVIOUS
<1> HIDE DEF low, high
<1>2. /\ low \o high \in Seq(S) /\ Len(low \o high) = Len(low) + Len(high)
      /\ \A k \in 1 .. Len(low) + Len(high) : (low \o high)[k] =
           IF k <= Len(low) THEN low[k] ELSE high[k - Len(low)]
  BY <1>1, ConcatProperties
<1> DEFINE both == low \o high
<1>3. Len(s) \in Nat /\ n \in Nat /\ n <= Len(s) /\ Len(low) + Len(high) = Len(s)
  BY <1>1
<1>4. ASSUME NEW k \in 1 .. Len(s) PROVE both[k] = s[k]
  <2>1. CASE k <= n
    BY <1>1, <1>2, <1>3, <2>1
  <2>2. CASE k > n
    <3>1. k - n \in 1 .. Len(s) - n /\ n + (k - n) = k
      BY <1>3, <2>2
    <3>2. both[k] = high[k - n]
      BY <1>1, <1>2, <1>3, <2>2
    <3> QED
      BY <1>1, <3>1, <3>2
  <2> QED
    BY <1>3, <2>1, <2>2
<1>5. both \in Seq(S) /\ Len(both) = Len(s)
  BY <1>2, <1>3
<1> HIDE DEF both
<1>6. s = both
  BY <1>4, <1>5, SeqEqual
<1> QED
  BY <1>6 DEF low, high, both

LEMMA InsertAtCuts ==
    ASSUME NEW h, NEW n \in Nat, NEW e
    PROVE  InsertAt(h, n + 1, e) = SubSeq(h, 1, n) \o <<e>> \o SubSeq(h, n + 1, Len(h))
<1>1. (n + 1) - 1 = n
  OBVIOUS
<1>2. InsertAt(h, n + 1, e) = SubSeq(h, 1, (n + 1) - 1) \o <<e>> \o SubSeq(h, n + 1, Len(h))
  BY Zenon DEF InsertAt
<1> QED
  BY <1>1, <1>2, Zenon

\* Filing an event adds it to the table and loses none.
LEMMA FiledAdds ==
    ASSUME NEW S, NEW h \in Seq(S), NEW e \in S
    PROVE  Filed(h, e) \in Seq(S) /\ ToSet(Filed(h, e)) = ToSet(h) \cup {e}
<1> DEFINE n == UpTo(h, e.seq)
           low == SubSeq(h, 1, n)
           high == SubSeq(h, n + 1, Len(h))
           one == <<e>>
<1>1. n \in 0 .. Len(h) /\ Len(h) \in Nat
  BY UpToBounds
<1>2. Filed(h, e) = InsertAt(h, n + 1, e)
  BY DEF Filed
<1>3. one \in Seq(S) /\ ToSet(one) = {e}
  BY ToSetOne
<1> HIDE DEF n
<1>4. InsertAt(h, n + 1, e) = low \o one \o high
  <2>1. n \in Nat
    BY <1>1
  <2> QED
    BY <2>1, InsertAtCuts, Zenon
<1> HIDE DEF one
<1>5. low \in Seq(S) /\ high \in Seq(S)
  BY <1>1
<1>6. h = low \o high
  BY <1>1, CutInTwo
<1> HIDE DEF low, high
<1>7. ToSet(h) = ToSet(low) \cup ToSet(high)
  BY <1>5, <1>6, ToSetAppends
<1>8. low \o one \in Seq(S) /\ ToSet(low \o one) = ToSet(low) \cup {e}
  BY <1>3, <1>5, ToSetAppends
<1>9. /\ (low \o one) \o high \in Seq(S)
      /\ ToSet((low \o one) \o high) = ToSet(low \o one) \cup ToSet(high)
  <2> DEFINE start == low \o one
  <2>1. start \in Seq(S)
    BY <1>8
  <2> HIDE DEF start
  <2>2. start \o high \in Seq(S) /\ ToSet(start \o high) = ToSet(start) \cup ToSet(high)
    BY <1>5, <2>1, ToSetAppends
  <2> QED
    BY <2>2 DEF start
<1> QED
  BY <1>2, <1>4, <1>7, <1>8, <1>9

\* The recursion of FiledAll has a solution: there is no least number of events for
\* which it has none.
Files(f, h, new, n) ==
    f = [k \in 0 .. n |-> IF k = 0 THEN h ELSE Filed(f[k - 1], new[k])]

LEMMA FilesExist ==
    ASSUME NEW h, NEW new, NEW n \in Nat
    PROVE  \E f : Files(f, h, new, n)
<1> DEFINE Bad == {m \in Nat : ~\E f : Files(f, h, new, m)}
<1> SUFFICES ASSUME Bad # {} PROVE FALSE
  OBVIOUS
<1>1. PICK m \in Bad : \A k \in Bad : m <= k
  BY LeastNatural
<1>2. m \in Nat /\ ~\E f : Files(f, h, new, m)
  OBVIOUS
<1>3. CASE m = 0
  <2> DEFINE f == [k \in 0 .. 0 |-> h]
  <2>1. f = [k \in 0 .. 0 |-> IF k = 0 THEN h ELSE Filed(f[k - 1], new[k])]
    OBVIOUS
  <2> QED
    BY <1>2, <1>3, <2>1 DEF Files
<1>4. CASE m # 0
  <2>1. m - 1 \in Nat /\ m - 1 \notin Bad
    BY <1>1, <1>2, <1>4
  <2>2. PICK g : Files(g, h, new, m - 1)
    BY <2>1
  <2> DEFINE f == [k \in 0 .. m |-> IF k = m THEN Filed(g[m - 1], new[m]) ELSE g[k]]
  <2>3. \A k \in 0 .. m - 1 : g[k] = IF k = 0 THEN h ELSE Filed(g[k - 1], new[k])
    BY <2>2 DEF Files
  <2>4. ASSUME NEW k \in 0 .. m PROVE f[k] = IF k = 0 THEN h ELSE Filed(f[k - 1], new[k])
    <3>1. CASE k = m
      <4>1. f[k - 1] = g[m - 1]
        BY <1>2, <1>4, <3>1
      <4> QED
        BY <1>4, <3>1, <4>1
    <3>2. CASE k = 0
      BY <1>2, <1>4, <2>1, <2>3, <3>2
    <3>3. CASE k # m /\ k # 0
      <4>1. k - 1 \in 0 .. m /\ k - 1 # m /\ k \in 0 .. m - 1
        BY <1>2, <3>3
      <4>2. f[k - 1] = g[k - 1] /\ f[k] = g[k]
        BY <3>3, <4>1
      <4> QED
        BY <2>3, <3>3, <4>1, <4>2
    <3> QED
      BY <3>1, <3>2, <3>3
  <2>5. Files(f, h, new, m)
    <3>1. f = [k \in 0 .. m |-> f[k]]
      OBVIOUS
    <3> HIDE DEF f
    <3> QED
      BY <2>4, <3>1 DEF Files
  <2> QED
    BY <1>2, <2>5
<1> QED
  BY <1>3, <1>4

LEMMA FiledAllIs ==
    ASSUME NEW h, NEW new, Len(new) \in Nat
    PROVE  \E f : /\ FiledAll(h, new) = f[Len(new)]
                  /\ f[0] = h
                  /\ \A k \in 1 .. Len(new) : f[k] = Filed(f[k - 1], new[k])
<1> DEFINE f == CHOOSE g : Files(g, h, new, Len(new))
<1>1. Files(f, h, new, Len(new))
  BY FilesExist
<1>2. FiledAll(h, new) = f[Len(new)]
  BY DEF FiledAll, Files
<1> HIDE DEF f
<1>3. f[0] = h /\ \A k \in 1 .. Len(new) : f[k] = Filed(f[k - 1], new[k])
  BY <1>1 DEF Files
<1> QED
  BY <1>2, <1>3

\* Filing several events adds them to the table and loses none.
LEMMA FiledAllAdds ==
    ASSUME NEW S, NEW h \in Seq(S), NEW new \in Seq(S)
    PROVE  FiledAll(h, new) \in Seq(S) /\ ToSet(FiledAll(h, new)) = ToSet(h) \cup ToSet(new)
<1> DEFINE n == Len(new)
           upto(k) == {new[i] : i \in 1 .. k}
<1>1. n \in Nat /\ ToSet(new) = upto(n)
  BY DEF ToSet
<1>2. PICK f : /\ FiledAll(h, new) = f[n] /\ f[0] = h
               /\ \A k \in 1 .. n : f[k] = Filed(f[k - 1], new[k])
  BY <1>1, FiledAllIs
<1> DEFINE Good(k) == f[k] \in Seq(S) /\ ToSet(f[k]) = ToSet(h) \cup upto(k)
           Bad == {k \in 0 .. n : ~Good(k)}
<1>3. ASSUME Bad # {} PROVE FALSE
  <2>0. Bad \in SUBSET Nat
    BY <1>1
  <2>1. PICK m \in Bad : \A k \in Bad : m <= k
    BY <1>3, <2>0, LeastNatural
  <2>2. m \in 0 .. n /\ ~(f[m] \in Seq(S) /\ ToSet(f[m]) = ToSet(h) \cup upto(m))
    OBVIOUS
  <2>3. m # 0
    BY <1>2, <2>2
  <2>4. m \in 1 .. n /\ m - 1 \in 0 .. n /\ m - 1 \notin Bad
    BY <1>1, <2>1, <2>2, <2>3
  <2>5. f[m - 1] \in Seq(S) /\ ToSet(f[m - 1]) = ToSet(h) \cup upto(m - 1)
    BY <2>4
  <2>6. new[m] \in S /\ f[m] = Filed(f[m - 1], new[m])
    BY <1>2, <2>4
  <2>7. f[m] \in Seq(S) /\ ToSet(f[m]) = ToSet(f[m - 1]) \cup {new[m]}
    <3> DEFINE g == f[m - 1]
               e == new[m]
    <3>1. g \in Seq(S) /\ e \in S
      BY <2>5, <2>6
    <3> HIDE DEF g, e
    <3>2. Filed(g, e) \in Seq(S) /\ ToSet(Filed(g, e)) = ToSet(g) \cup {e}
      BY <3>1, FiledAdds
    <3> QED
      BY <2>6, <3>2 DEF g, e
  <2>8. upto(m) = upto(m - 1) \cup {new[m]}
    BY <1>1, <2>4
  <2> QED
    BY <2>2, <2>5, <2>7, <2>8
<1>4. \A k \in 0 .. n : Good(k)
  BY <1>3
<1>5. n \in 0 .. n
  BY <1>1
<1>6. Good(n)
  BY <1>4, <1>5
<1> QED
  BY <1>1, <1>2, <1>6

-----------------------------------------------------------------------------
(* A write: mutate_run and append_event *)

Plain == {"started", "resolved", "output", "cancel"}
ClientState ==
    [pc : {"off", "read", "check", "wait", "lost", "ended", "snapshot", "done"},
     last : Nat, queue : Seq(Event), got : SUBSET Nat,
     told : {"none"} \cup Terminal, calm : BOOLEAN]

LEMMA KindsAre == Plain \subseteq Kind /\ Terminal \subseteq Kind /\ Event = [seq : Nat, kind : Kind]
BY DEF Plain, Kind, Terminal, Event

\* The events of a write.
News(kinds) == [k \in DOMAIN kinds |-> [seq |-> Len(bucket) + k, kind |-> kinds[k]]]

\* They are written at all three places, if the inserts succeed.
Appends(kinds) ==
    /\ bucket' = bucket \o News(kinds)
    /\ history' = FiledAll(history, News(kinds))
    /\ client'.queue = IF Streaming THEN client.queue \o News(kinds) ELSE client.queue

\* What a write leaves: the record rec, events of the given kinds, in memory and in
\* ClickHouse, as far as it came.
Writes(rec, kinds, o) ==
    /\ run' = rec
    /\ saved' = IF o = "record" THEN saved ELSE rec
    /\ bucket' \in Seq(Event) /\ history' \in Seq(Event)
    /\ ToSet(bucket') \subseteq ToSet(bucket) \cup ToSet(News(kinds))
    /\ ToSet(history') \subseteq ToSet(history) \cup ToSet(News(kinds))
    /\ ToSet(history) \subseteq ToSet(history')
    /\ o = "record" => bucket' = bucket /\ history' = history
    /\ o = "ok" => Appends(kinds)
    /\ client' \in ClientState
    /\ client' = [client EXCEPT !.queue = client'.queue]
    /\ ToSet(client'.queue) \subseteq ToSet(client.queue) \cup ToSet(history')
    /\ outages' \in 0 .. MaxOutages
    /\ outages' = IF o = "ok" THEN outages ELSE outages + 1

LEMMA NewsTyped ==
    ASSUME bucket \in Seq(Event), NEW kinds \in Seq(Kind)
    PROVE  /\ News(kinds) \in Seq(Event) /\ Len(News(kinds)) = Len(kinds)
           /\ \A k \in 1 .. Len(kinds) :
                News(kinds)[k] = [seq |-> Len(bucket) + k, kind |-> kinds[k]]
<1>1. /\ Len(bucket) \in Nat /\ Len(kinds) \in Nat /\ DOMAIN kinds = 1 .. Len(kinds)
      /\ \A k \in 1 .. Len(kinds) : kinds[k] \in Kind
  OBVIOUS
<1>2. \A k \in 1 .. Len(kinds) : [seq |-> Len(bucket) + k, kind |-> kinds[k]] \in Event
  BY <1>1, KindsAre
<1>3. News(kinds) \in [1 .. Len(kinds) -> Event]
  BY <1>1, <1>2 DEF News
<1> QED
  BY <1>1, <1>3 DEF News

LEMMA LogWrites ==
    ASSUME TypeOK, NEW rec, NEW kinds \in Seq(Kind), NEW o \in Outcome,
           o = "event" => kinds # <<>>, Log(rec, kinds, o)
    PROVE  Writes(rec, kinds, o)
<1> DEFINE new == News(kinds)
<1>1. bucket \in Seq(Event) /\ history \in Seq(Event) /\ client \in ClientState
  BY DEF TypeOK, ClientState
<1>2. new \in Seq(Event) /\ (kinds # <<>> => new[1] \in Event /\ new[1] \in ToSet(new))
  <2>1. new \in Seq(Event) /\ Len(new) = Len(kinds)
    BY <1>1, NewsTyped
  <2> HIDE DEF new
  <2> QED
    BY <2>1 DEF ToSet
<1>3. /\ run' = rec
      /\ saved' = IF o = "record" THEN saved ELSE rec
      /\ bucket' = CASE o = "ok" -> bucket \o new
                     [] o = "event" -> Append(bucket, new[1])
                     [] o = "record" -> bucket
      /\ history' = IF o = "ok" THEN FiledAll(history, new) ELSE history
      /\ client' = IF o = "ok" /\ Streaming
                   THEN [client EXCEPT !.queue = @ \o new] ELSE client
      /\ outages' = IF o = "ok" THEN outages ELSE outages + 1
  BY DEF Log, News
<1> HIDE DEF new
<1>4. /\ bucket \o new \in Seq(Event) /\ ToSet(bucket \o new) = ToSet(bucket) \cup ToSet(new)
      /\ FiledAll(history, new) \in Seq(Event)
      /\ ToSet(FiledAll(history, new)) = ToSet(history) \cup ToSet(new)
  BY <1>1, <1>2, ToSetAppends, FiledAllAdds
<1>5. o = "event" => /\ Append(bucket, new[1]) \in Seq(Event)
                     /\ ToSet(Append(bucket, new[1])) \subseteq ToSet(bucket) \cup ToSet(new)
  <2> SUFFICES ASSUME o = "event" PROVE /\ Append(bucket, new[1]) \in Seq(Event)
                     /\ ToSet(Append(bucket, new[1])) \subseteq ToSet(bucket) \cup ToSet(new)
    OBVIOUS
  <2> DEFINE e == new[1]
  <2>1. e \in Event /\ e \in ToSet(new)
    BY <1>2
  <2> HIDE DEF e
  <2>2. /\ Append(bucket, e) \in Seq(Event) /\ Len(Append(bucket, e)) = Len(bucket) + 1
        /\ \A k \in 1 .. Len(bucket) + 1 :
             Append(bucket, e)[k] = IF k <= Len(bucket) THEN bucket[k] ELSE e
    BY <1>1, <2>1
  <2>3. \A k \in 1 .. Len(bucket) : bucket[k] \in ToSet(bucket)
    BY <1>1 DEF ToSet
  <2>4. \A x \in ToSet(Append(bucket, e)) : x \in ToSet(bucket) \cup {e}
    BY <1>1, <2>2, <2>3 DEF ToSet
  <2> QED
    BY <2>1, <2>2, <2>4 DEF e
<1>6. o \in {"ok", "record", "event"} /\ outages \in 0 .. MaxOutages
      /\ (o # "ok" => outages < MaxOutages) /\ MaxOutages \in Nat
  BY ExecAssumption DEF Outcome, TypeOK
<1>7. /\ bucket' \in Seq(Event) /\ history' \in Seq(Event)
      /\ ToSet(bucket') \subseteq ToSet(bucket) \cup ToSet(new)
      /\ ToSet(history') \subseteq ToSet(history) \cup ToSet(new)
      /\ ToSet(history) \subseteq ToSet(history')
      /\ o = "record" => bucket' = bucket /\ history' = history
      /\ o = "ok" => ToSet(new) \subseteq ToSet(history')
  BY <1>1, <1>3, <1>4, <1>5, <1>6
<1>8. /\ client' \in ClientState
      /\ client' = [client EXCEPT !.queue = client'.queue]
      /\ ToSet(client'.queue) \subseteq ToSet(client.queue) \cup ToSet(history')
  <2>1. CASE o = "ok" /\ Streaming
    <3> DEFINE queue == client.queue \o new
    <3>1. client.queue \in Seq(Event)
      BY <1>1 DEF ClientState
    <3>2. queue \in Seq(Event) /\ ToSet(queue) = ToSet(client.queue) \cup ToSet(new)
      BY <1>2, <3>1, ToSetAppends
    <3>3. client' = [client EXCEPT !.queue = queue]
      BY <1>3, <2>1
    <3> HIDE DEF queue
    <3>4. client' \in ClientState /\ client'.queue = queue
      BY <1>1, <3>2, <3>3 DEF ClientState
    <3> QED
      BY <1>7, <2>1, <3>2, <3>3, <3>4
  <2>2. CASE ~(o = "ok" /\ Streaming)
    BY <1>1, <1>3, <2>2 DEF ClientState
  <2> QED
    BY <2>1, <2>2
<1>9. outages' \in 0 .. MaxOutages
  BY <1>3, <1>6
<1>10. o = "ok" => Appends(kinds)
  <2> SUFFICES ASSUME o = "ok" PROVE Appends(kinds)
    OBVIOUS
  <2>1. client'.queue = IF Streaming THEN client.queue \o new ELSE client.queue
    BY <1>1, <1>3 DEF ClientState
  <2> QED
    BY <1>3, <2>1 DEF Appends, new
<1> QED
  BY <1>3, <1>7, <1>8, <1>9, <1>10 DEF Writes, new

\* What a step writes: nothing; events that are no verdict; the new record; that the
\* run is to be cancelled; a verdict.
Rests == UNCHANGED <<records, client>>
Notes(o) == \E kinds \in Seq(Plain) : Writes(run, kinds, o)
Creates(o) == run.status = "none" /\ Writes([run EXCEPT !.status = "running"], <<>>, o)
Stops(o) ==
    /\ run.status \in {"running", "cancelling"}
    /\ Writes([status |-> "cancelling", cancel |-> TRUE], <<"cancel">>, o)
Judges(status, o) == status \in Terminal /\ Writes(Verdict(status), <<status>>, o)

LEMMA NoneEmptied ==
    ASSUME NEW S, NEW s \in Seq(S), NEW t \in Seq(S), Len(t) = 1
    PROVE  s \o t # <<>>
<1>1. Len(s \o t) = Len(s) + 1
  BY ConcatProperties, SMTT(30)
<1>2. Len(s) \in Nat /\ Len(<<>>) = 0
  OBVIOUS
<1> QED
  BY <1>1, <1>2

LEMMA PlainKinds ==
    /\ \A kinds \in Seq(Plain) : kinds \in Seq(Kind)
    /\ \A x, y \in Plain : /\ <<x>> \in Seq(Plain) /\ <<x>> # <<>>
                           /\ <<x, y>> \in Seq(Plain) /\ <<x, y>> # <<>>
    /\ \A s \in Seq(Plain), x \in Plain :
         /\ s \o <<>> = s
         /\ s \o <<x>> \in Seq(Plain) /\ s \o <<x>> # <<>>
    /\ \A x \in Terminal : <<x>> \in Seq(Kind) /\ <<x>> # <<>>
    /\ <<>> \in Seq(Kind)
<1>1. \A kinds \in Seq(Plain) : kinds \in Seq(Kind)
  BY KindsAre
<1>2. \A x, y : <<x>> # <<>> /\ <<x, y>> # <<>>
  OBVIOUS
<1>3. \A x, y \in Plain : <<x>> \in Seq(Plain) /\ <<x, y>> \in Seq(Plain)
  OBVIOUS
<1>4. ASSUME NEW s \in Seq(Plain), NEW x \in Plain
      PROVE  s \o <<>> = s /\ s \o <<x>> \in Seq(Plain) /\ s \o <<x>> # <<>>
  <2> DEFINE one == <<x>>
  <2>1. one \in Seq(Plain) /\ Len(one) = 1
    OBVIOUS
  <2> HIDE DEF one
  <2>2. s \o one \in Seq(Plain)
    BY <2>1, ConcatProperties
  <2>3. s \o one # <<>>
    BY <2>1, NoneEmptied
  <2>4. s \o <<>> = s
    BY ConcatEmptySeq
  <2> QED
    BY <2>2, <2>3, <2>4 DEF one
<1>5. \A x \in Terminal : <<x>> \in Seq(Kind)
  BY KindsAre
<1>6. <<>> \in Seq(Kind)
  OBVIOUS
<1> QED
  BY <1>1, <1>2, <1>3, <1>4, <1>5, <1>6, Zenon

LEMMA PlainWrites ==
    ASSUME TypeOK, NEW kinds \in Seq(Plain), kinds # <<>>, NEW o \in Outcome, Log(run, kinds, o)
    PROVE  Notes(o)
BY LogWrites, PlainKinds DEF Notes

LEMMA DispatchWrites ==
    ASSUME TypeOK, NEW kinds \in Seq(Plain), kinds # <<>>, NEW next, Dispatch(kinds, next)
    PROVE  \E o \in Outcome : Notes(o) /\ pc' \in (IF o = "ok" THEN {"result", "spawn"} ELSE {"done"})
<1>1. PICK o \in Outcome, refused \in BOOLEAN :
        /\ Log(run, kinds \o (IF refused THEN <<"output">> ELSE <<>>), o)
        /\ pc' = IF o # "ok" THEN "done" ELSE IF refused THEN "result" ELSE "spawn"
  BY DEF Dispatch
<1> DEFINE all == kinds \o (IF refused THEN <<"output">> ELSE <<>>)
<1>2. "output" \in Plain
  BY DEF Plain
<1>3. all \in Seq(Plain) /\ all # <<>>
  <2>1. CASE refused
    BY <1>2, <2>1, PlainKinds
  <2>2. CASE ~refused
    BY <1>2, <2>2, PlainKinds
  <2> QED
    BY <2>1, <2>2
<1> HIDE DEF all
<1>4. Notes(o)
  BY <1>1, <1>3, PlainWrites DEF all
<1> QED
  BY <1>1, <1>4

LEMMA TaskWrites ==
    ASSUME TypeOK, NEW o \in Outcome
    PROVE  /\ Log(run, <<"output">>, o) => Notes(o)
           /\ \A status \in Terminal : Log(Verdict(status), <<status>>, o) => Judges(status, o)
           /\ run.status \in {"running", "cancelling"}
                /\ Log([status |-> "cancelling", cancel |-> TRUE], <<"cancel">>, o) => Stops(o)
           /\ run.status = "none" /\ o # "event"
                /\ Log([run EXCEPT !.status = "running"], <<>>, o) => Creates(o)
<1>1. Log(run, <<"output">>, o) => Notes(o)
  <2>1. "output" \in Plain
    BY DEF Plain
  <2> QED
    BY <2>1, PlainWrites, PlainKinds
<1>2. ASSUME NEW status \in Terminal, Log(Verdict(status), <<status>>, o) PROVE Judges(status, o)
  BY <1>2, LogWrites, PlainKinds DEF Judges
<1>3. "cancel" \in Kind
  BY DEF Kind
<1>4. <<"cancel">> \in Seq(Kind) /\ <<"cancel">> # <<>>
  BY <1>3
<1>5. ASSUME run.status \in {"running", "cancelling"},
             Log([status |-> "cancelling", cancel |-> TRUE], <<"cancel">>, o)
      PROVE  Stops(o)
  BY <1>4, <1>5, LogWrites DEF Stops
<1>6. ASSUME run.status = "none", o # "event", Log([run EXCEPT !.status = "running"], <<>>, o)
      PROVE  Creates(o)
  BY <1>6, LogWrites, PlainKinds DEF Creates
<1> QED
  BY <1>1, <1>2, <1>5, <1>6

LEMMA CancelledWrites ==
    ASSUME TypeOK, Cancelled
    PROVE  \/ Done /\ Rests
           \/ ~Done /\ \E o \in Outcome : Judges("cancelled", o)
<1>1. "cancelled" \in Terminal
  BY DEF Terminal
<1> QED
  BY <1>1, TaskWrites DEF Cancelled, Rests

-----------------------------------------------------------------------------
(* Who acts on the run *)

RecordTypes ==
    /\ run \in Record /\ saved \in Record
    /\ bucket \in Seq(Event) /\ history \in Seq(Event)
    /\ client \in ClientState /\ outages \in 0 .. MaxOutages
TaskTypes ==
    /\ pc \in {"none", "created", "spawn", "wait", "drain", "result", "backoff", "done"}
    /\ stage \in {"first", "rewritten", "again"} /\ code \in {"ok", "error", "timeout"}
    /\ doomed \in BOOLEAN /\ pumps \in BOOLEAN
    /\ doomed => pc \notin {"none", "result", "done"}
    /\ proc \in {"none", "running", "exited", "closed"}
    /\ pumps => proc # "none"
    /\ starts \in Nat /\ retries \in 0 .. MaxRetries
    /\ caller \in [Caller -> {"idle", "yielded", "done"}]
    /\ waiter \in {"none", "waiting"} \cup Status
    /\ restarts \in 0 .. MaxRestarts

LEMMA TypeParts == TypeOK <=> RecordTypes /\ TaskTypes
BY DEF TypeOK, RecordTypes, TaskTypes, Record, ClientState

Yielded == \E c \in Caller : caller[c] = "yielded"

\* A process runs only while its task waits for it, and that task is not doomed:
\* cancel_run terminates the process instead.
Acting ==
    /\ pc # "none" => run.status # "none"
    /\ proc = "running" => pc = "wait" /\ ~doomed

\* What is stopped was to be cancelled, and is not over otherwise.
Stopped ==
    /\ run.cancel => run.status \in {"cancelling", "cancelled"}
    /\ doomed \/ Yielded => run.cancel
    /\ Done /\ pc \notin {"none", "done"} => run.cancel

\* Where no task.cancel() is swallowed: a task whose run is over, or whose canceller
\* is about to say so, is through or doomed.
TaskOver ==
    "lateCancel" \notin Faults =>
        /\ Done => doomed \/ pc \in {"none", "done"}
        /\ Yielded => doomed \/ pc = "done"

\* A task that ends without a verdict has a canceller that will give one.
VerdictDue == Undisturbed /\ (doomed \/ pc = "done") => Done \/ Yielded

Control == Acting /\ Stopped /\ TaskOver /\ VerdictDue /\ ExecuteTruth

\* What a step of the task or of a canceller writes.
Verdictable(status) ==
    /\ run.cancel => status = "cancelled"
    /\ Done => run.cancel
    /\ "lateCancel" \notin Faults => ~Done
Ledger ==
    \/ Rests
    \/ \E o \in Outcome : \/ Notes(o) \/ Creates(o) \/ Stops(o)
                          \/ \E status : Judges(status, o) /\ Verdictable(status)

LEMMA WritesTyped ==
    ASSUME RecordTypes, NEW rec \in Record, NEW kinds, NEW o \in Outcome, Writes(rec, kinds, o)
    PROVE  /\ RecordTypes' /\ run' = rec
           /\ outages' = 0 => o = "ok" /\ outages = 0
<1>1. o \in {"ok", "record", "event"} /\ outages \in Nat
  BY DEF Outcome, RecordTypes
<1> QED
  BY <1>1 DEF Writes, RecordTypes

LEMMA LedgerTyped ==
    ASSUME RecordTypes, Ledger
    PROVE  RecordTypes'
<1>1. CASE Rests
  BY <1>1 DEF Rests, records, RecordTypes
<1>2. ASSUME NEW o \in Outcome, Notes(o) PROVE RecordTypes'
  BY <1>2, WritesTyped DEF Notes, RecordTypes
<1>3. ASSUME NEW o \in Outcome, Creates(o) PROVE RecordTypes'
  <2>1. [run EXCEPT !.status = "running"] \in Record
    BY DEF RecordTypes, Record, Status
  <2> QED
    BY <1>3, <2>1, WritesTyped DEF Creates
<1>4. ASSUME NEW o \in Outcome, Stops(o) PROVE RecordTypes'
  <2>1. [status |-> "cancelling", cancel |-> TRUE] \in Record
    BY DEF Record, Status
  <2> QED
    BY <1>4, <2>1, WritesTyped DEF Stops
<1>5. ASSUME NEW o \in Outcome, NEW status, Judges(status, o) PROVE RecordTypes'
  <2>1. Verdict(status) \in Record
    BY <1>5 DEF Judges, Verdict, RecordTypes, Record, Status
  <2> QED
    BY <1>5, <2>1, WritesTyped DEF Judges
<1> QED
  BY <1>1, <1>2, <1>3, <1>4, <1>5 DEF Ledger

\* The record after each kind of write.
LEMMA LedgerRun ==
    ASSUME RecordTypes, NEW o \in Outcome
    PROVE  /\ outages \in Nat
           /\ Rests => run' = run /\ outages' = outages
           /\ Notes(o) => run' = run /\ (outages' = 0 => o = "ok" /\ outages = 0)
           /\ Creates(o) => /\ run.status = "none" /\ run'.status = "running" /\ run'.cancel = run.cancel
                            /\ outages' = 0 => o = "ok" /\ outages = 0
           /\ Stops(o) => /\ run.status \in {"running", "cancelling"}
                          /\ run'.status = "cancelling" /\ run'.cancel = TRUE
                          /\ outages' = 0 => o = "ok" /\ outages = 0
           /\ \A status : Judges(status, o) =>
                /\ status \in Terminal /\ run'.status = status /\ run'.cancel = run.cancel
                /\ outages' = 0 => o = "ok" /\ outages = 0
<1>1. /\ outages \in Nat /\ run \in Record
      /\ \A s : [run EXCEPT !.status = s].status = s /\ [run EXCEPT !.status = s].cancel = run.cancel
  BY DEF RecordTypes, Record
<1>2. outages' = (IF o = "ok" THEN outages ELSE outages + 1) => (outages' = 0 => o = "ok" /\ outages = 0)
  BY <1>1
<1>3. Rests => run' = run /\ outages' = outages
  BY DEF Rests, records
<1>4. Notes(o) => run' = run /\ (outages' = 0 => o = "ok" /\ outages = 0)
  BY <1>2 DEF Notes, Writes
<1>5. Creates(o) => /\ run.status = "none" /\ run'.status = "running" /\ run'.cancel = run.cancel
                    /\ outages' = 0 => o = "ok" /\ outages = 0
  BY <1>1, <1>2 DEF Creates, Writes
<1>6. Stops(o) => /\ run.status \in {"running", "cancelling"}
                  /\ run'.status = "cancelling" /\ run'.cancel = TRUE
                  /\ outages' = 0 => o = "ok" /\ outages = 0
  BY <1>2 DEF Stops, Writes
<1>7. \A status : Judges(status, o) =>
        /\ status \in Terminal /\ run'.status = status /\ run'.cancel = run.cancel
        /\ outages' = 0 => o = "ok" /\ outages = 0
  BY <1>1, <1>2 DEF Judges, Writes, Verdict
<1> QED
  BY <1>1, <1>3, <1>4, <1>5, <1>6, <1>7

ControlStep == Ledger /\ TaskTypes' /\ Control'

\* Steps that write nothing and leave the callers alone.
LEMMA QuietSteps ==
    ASSUME TypeOK, Control,
           \/ ProcessExits \/ PipesClose \/ PumpsEnd \/ Timeout \/ WaitReturns \/ Drained
    PROVE  ControlStep
<1>1. Rests /\ run' = run /\ outages' = outages /\ TaskTypes /\ RecordTypes
  BY TypeParts DEF Rests, records, ProcessExits, PipesClose, PumpsEnd, Timeout, WaitReturns, Drained
<1>2. /\ caller' = caller /\ waiter' = waiter /\ restarts' = restarts /\ doomed' = doomed
      /\ starts' = starts /\ stage' = stage /\ retries' = retries
  BY DEF ProcessExits, PipesClose, PumpsEnd, Timeout, WaitReturns, Drained, plan, command
<1>3. (Yielded' <=> Yielded) /\ (Done' <=> Done) /\ (Undisturbed' <=> Undisturbed)
      /\ (ExecuteTruth' <=> ExecuteTruth)
  BY <1>1, <1>2 DEF Yielded, Done, Undisturbed, ExecuteTruth
<1>4. TaskTypes' /\ Acting' /\ Stopped' /\ TaskOver' /\ VerdictDue'
  <2> USE <1>1, <1>2, <1>3 DEF Control, TaskTypes, Acting, Stopped, TaskOver, VerdictDue
  <2>1. CASE ProcessExits
    BY <2>1 DEF ProcessExits
  <2>2. CASE PipesClose
    BY <2>2 DEF PipesClose
  <2>3. CASE PumpsEnd
    <3>1. pumps' = FALSE /\ UNCHANGED <<pc, code, proc>>
      BY <2>3 DEF PumpsEnd
    <3>2. TaskTypes'
      BY <3>1
    <3>3. Acting' /\ Stopped' /\ TaskOver' /\ VerdictDue'
      BY <3>1
    <3> QED
      BY <3>2, <3>3
  <2>4. CASE Timeout
    BY <2>4 DEF Timeout
  <2>5. CASE WaitReturns
    BY <2>5 DEF WaitReturns, command
  <2>6. CASE Drained
    BY <2>6 DEF Drained
  <2> QED
    BY <2>1, <2>2, <2>3, <2>4, <2>5, <2>6
<1> QED
  BY <1>1, <1>3, <1>4 DEF ControlStep, Ledger, Control

\* Who is not through and not doomed has not been judged, unless a cancellation
\* was swallowed.
LEMMA NotJudged ==
    ASSUME Control, ~doomed, pc \notin {"none", "done"}
    PROVE  "lateCancel" \notin Faults => ~Done /\ ~Yielded
BY DEF Control, TaskOver

LEMMA NotesStep ==
    ASSUME TypeOK, Control, NEW o \in Outcome, Notes(o),
           ~doomed, doomed' = doomed, pc \notin {"none", "done"}, proc # "running", proc' = proc,
           pc' \in {"created", "spawn", "result", "backoff", "done"}, pc' = "done" => o # "ok",
           TaskTypes', UNCHANGED <<caller, waiter, restarts>>
    PROVE  ControlStep
<1>1. run' = run /\ (outages' = 0 => o = "ok" /\ outages = 0)
  BY LedgerRun, TypeParts
<1>2. (Yielded' <=> Yielded) /\ (Done' <=> Done) /\ (Undisturbed' => Undisturbed /\ o = "ok")
  BY <1>1 DEF Yielded, Done, Undisturbed
<1>3. ExecuteTruth'
  BY <1>1, <1>2 DEF Control, ExecuteTruth
<1>4. Acting' /\ Stopped' /\ TaskOver' /\ VerdictDue'
  BY <1>1, <1>2, NotJudged DEF Control, Acting, Stopped, TaskOver, VerdictDue
<1> QED
  BY <1>3, <1>4 DEF ControlStep, Ledger, Control

LEMMA DispatchStep ==
    ASSUME TypeOK, Control, NEW kinds \in Seq(Plain), kinds # <<>>,
           NEW next \in {"first", "rewritten", "again"}, Dispatch(kinds, next),
           ~doomed, pc \in {"created", "result", "backoff"}
    PROVE  ControlStep
<1>1. PICK o \in Outcome :
        Notes(o) /\ pc' \in (IF o = "ok" THEN {"result", "spawn"} ELSE {"done"})
  BY DispatchWrites
<1>2. TaskTypes'
  BY <1>1, TypeParts DEF Dispatch, TaskTypes
<1>3. proc # "running"
  BY DEF Control, Acting
<1>4. UNCHANGED <<doomed, proc, caller, waiter, restarts>>
  BY DEF Dispatch
<1>5. pc' \in {"created", "spawn", "result", "backoff", "done"} /\ (pc' = "done" => o # "ok")
  BY <1>1
<1> QED
  BY <1>1, <1>2, <1>3, <1>4, <1>5, NotesStep

LEMMA DispatchSteps ==
    ASSUME TypeOK, Control, Begin \/ Redispatch \/ Rewrite
    PROVE  ControlStep
<1>1. /\ {"started", "resolved", "output"} \subseteq Plain
      /\ pc = "result" => ~doomed
  BY TypeParts DEF Plain, TaskTypes
<1>2. /\ <<"started">> \in Seq(Plain) /\ <<"started">> # <<>>
      /\ <<"resolved">> \in Seq(Plain) /\ <<"resolved">> # <<>>
      /\ <<"output", "resolved">> \in Seq(Plain) /\ <<"output", "resolved">> # <<>>
  BY <1>1, PlainKinds
<1>3. CASE Begin
  BY <1>2, <1>3, DispatchStep DEF Begin
<1>4. CASE Redispatch
  BY <1>2, <1>4, DispatchStep DEF Redispatch
<1>5. CASE Rewrite
  BY <1>1, <1>2, <1>5, DispatchStep DEF Rewrite
<1> QED
  BY <1>3, <1>4, <1>5

LEMMA BackoffStep ==
    ASSUME TypeOK, Control, Backoff
    PROVE  ControlStep
<1>1. PICK o \in Outcome : Log(run, <<"output">>, o) /\ pc' = IF o = "ok" THEN "backoff" ELSE "done"
  BY DEF Backoff
<1>2. Notes(o)
  BY <1>1, TaskWrites
<1>3. /\ pc = "result" /\ ~doomed /\ proc # "running" /\ TaskTypes
      /\ UNCHANGED <<doomed, proc, caller, waiter, restarts, code, pumps, starts>>
  BY TypeParts DEF Backoff, TaskTypes, Control, Acting, command
<1>4. TaskTypes'
  BY <1>1, <1>3, ExecAssumption DEF TaskTypes, Backoff
<1>5. pc' \in {"created", "spawn", "result", "backoff", "done"} /\ (pc' = "done" => o # "ok")
  BY <1>1
<1> QED
  BY <1>2, <1>3, <1>4, <1>5, NotesStep

LEMMA SpawnedStep ==
    ASSUME TypeOK, Control, Spawned
    PROVE  ControlStep
<1>1. /\ pc = "spawn" /\ ~doomed /\ proc # "running" /\ TaskTypes /\ RecordTypes
      /\ UNCHANGED <<doomed, caller, waiter, restarts, stage, retries>>
  BY TypeParts DEF Spawned, plan, Control, Acting
<1>2. CASE /\ pc' = "wait" /\ proc' = "running" /\ pumps' = TRUE /\ starts' = starts + 1
           /\ UNCHANGED <<records, client, code>>
  <2>1. Rests /\ run' = run /\ outages' = outages
    BY <1>2 DEF Rests, records
  <2>2. (Yielded' <=> Yielded) /\ (Done' <=> Done) /\ (Undisturbed' <=> Undisturbed)
        /\ (ExecuteTruth' <=> ExecuteTruth)
    BY <1>1, <2>1 DEF Yielded, Done, Undisturbed, ExecuteTruth
  <2>3. TaskTypes' /\ Acting' /\ Stopped' /\ TaskOver' /\ VerdictDue'
    BY <1>1, <1>2, <2>1, <2>2, NotJudged
       DEF Control, TaskTypes, Acting, Stopped, TaskOver, VerdictDue
  <2> QED
    BY <2>1, <2>2, <2>3 DEF ControlStep, Ledger, Control
<1>3. ASSUME NEW o \in Outcome, Log(run, <<"output">>, o),
             pc' = (IF o = "ok" THEN "result" ELSE "done"), code' = "error",
             UNCHANGED <<proc, pumps, starts>>
      PROVE  ControlStep
  <2>1. Notes(o)
    BY <1>3, TaskWrites
  <2>2. TaskTypes'
    BY <1>1, <1>3 DEF TaskTypes
  <2> QED
    BY <1>1, <1>3, <2>1, <2>2, NotesStep
<1> QED
  BY <1>2, <1>3 DEF Spawned

LEMMA CreateStep ==
    ASSUME TypeOK, Control, Create
    PROVE  ControlStep
<1>1. PICK o \in Outcome \ {"event"}, waits \in {"none", "waiting"} :
        /\ Log([run EXCEPT !.status = "running"], <<>>, o)
        /\ pc' = IF o = "ok" THEN "created" ELSE "none"
        /\ waiter' = IF o = "ok" THEN waits ELSE "none"
  BY DEF Create
<1>2. /\ Creates(o) /\ TaskTypes /\ RecordTypes /\ run.status = "none" /\ pc = "none" /\ ~doomed
      /\ UNCHANGED <<doomed, caller, restarts, code, proc, pumps, starts, stage, retries>>
  BY <1>1, TaskWrites, TypeParts DEF Create, TaskTypes, Control, Acting, command, plan
<1>3. run'.status = "running" /\ run'.cancel = run.cancel
      /\ (outages' = 0 => o = "ok" /\ outages = 0)
  BY <1>2, LedgerRun
<1>4. ~run.cancel /\ ~Yielded /\ ~Yielded' /\ ~Done'
  BY <1>2, <1>3 DEF Control, Stopped, Yielded, Done, Terminal
<1>5. TaskTypes' /\ Acting' /\ Stopped' /\ TaskOver' /\ VerdictDue' /\ ExecuteTruth'
  <2> USE <1>1, <1>2, <1>3, <1>4
  <2>1. TaskTypes'
    BY DEF TaskTypes, Status
  <2>2. Acting' /\ Stopped' /\ TaskOver'
    BY DEF Control, Acting, Stopped, TaskOver
  <2>3. VerdictDue' /\ ExecuteTruth'
    BY DEF VerdictDue, ExecuteTruth
  <2> QED
    BY <2>1, <2>2, <2>3
<1> QED
  BY <1>2, <1>5 DEF ControlStep, Ledger, Control

LEMMA OutputStep ==
    ASSUME TypeOK, Control, Output
    PROVE  ControlStep
<1>1. PICK o \in Outcome : Log(run, <<"output">>, o)
  BY DEF Output
<1>2. Notes(o) /\ TaskTypes /\ RecordTypes
  BY <1>1, TaskWrites, TypeParts
<1>3. UNCHANGED <<pc, doomed, code, proc, pumps, starts, stage, retries, caller, waiter, restarts>>
  BY DEF Output, command, plan
<1>4. run' = run /\ (outages' = 0 => o = "ok" /\ outages = 0)
  BY <1>2, LedgerRun
<1>5. (Yielded' <=> Yielded) /\ (Done' <=> Done) /\ (Undisturbed' => Undisturbed)
  BY <1>3, <1>4 DEF Yielded, Done, Undisturbed
<1>6. TaskTypes'
  BY <1>2, <1>3 DEF TaskTypes
<1>7. Acting' /\ Stopped' /\ TaskOver' /\ VerdictDue' /\ ExecuteTruth'
  BY <1>3, <1>4, <1>5 DEF Control, Acting, Stopped, TaskOver, VerdictDue, ExecuteTruth
<1> QED
  BY <1>2, <1>6, <1>7 DEF ControlStep, Ledger, Control

LEMMA FinalizeStep ==
    ASSUME TypeOK, Control, Finalize
    PROVE  ControlStep
<1>1. PICK o \in Outcome : Log(Verdict(FinalStatus), <<FinalStatus>>, o)
  BY DEF Finalize
<1>2. FinalStatus \in Terminal /\ (run.cancel => FinalStatus = "cancelled")
  BY DEF FinalStatus, Terminal
<1>3. /\ Judges(FinalStatus, o) /\ TaskTypes /\ RecordTypes /\ pc = "result" /\ ~doomed /\ pc' = "done"
      /\ proc # "running"
      /\ UNCHANGED <<doomed, code, proc, pumps, starts, stage, retries, caller, waiter, restarts>>
  BY <1>1, <1>2, TaskWrites, TypeParts DEF Finalize, command, plan, TaskTypes, Control, Acting
<1>4. /\ run'.status = FinalStatus /\ run'.cancel = run.cancel
      /\ outages' = 0 => o = "ok" /\ outages = 0
  BY <1>3, LedgerRun
<1>5. Verdictable(FinalStatus)
  BY <1>2, <1>3, NotJudged DEF Verdictable, Control, Stopped
<1>6. Done' /\ (Yielded' <=> Yielded) /\ (Undisturbed' => Undisturbed)
  BY <1>2, <1>3, <1>4 DEF Done, Yielded, Undisturbed
<1>7. TaskTypes'
  BY <1>3 DEF TaskTypes
<1>8. ExecuteTruth'
  <2>1. Done => run.status = "cancelled" /\ FinalStatus = "cancelled"
    BY <1>2, <1>3 DEF Control, Stopped, Done, Terminal
  <2> QED
    BY <1>2, <1>3, <1>4, <1>6, <2>1 DEF Control, ExecuteTruth, Done
<1>9. Acting' /\ Stopped' /\ TaskOver' /\ VerdictDue'
  <2>1. run'.status # "none"
    BY <1>2, <1>4 DEF Terminal
  <2> QED
    BY <1>2, <1>3, <1>4, <1>6, <2>1 DEF Control, Acting, Stopped, TaskOver, VerdictDue
<1> QED
  BY <1>3, <1>5, <1>7, <1>8, <1>9 DEF ControlStep, Ledger, Control

LEMMA ExecuteReturnsStep ==
    ASSUME TypeOK, Control, ExecuteReturns
    PROVE  ControlStep
<1>1. /\ pc = "done" /\ ~Yielded /\ waiter' = run.status /\ TaskTypes /\ RecordTypes
      /\ UNCHANGED <<run, outages, pc, doomed, code, proc, pumps, starts, stage, retries, caller, restarts>>
      /\ Rests
  BY TypeParts DEF ExecuteReturns, records, command, plan, Rests, Yielded
<1>2. (Yielded' <=> Yielded) /\ (Done' <=> Done) /\ (Undisturbed' <=> Undisturbed)
  BY <1>1 DEF Yielded, Done, Undisturbed
<1>3. TaskTypes'
  BY <1>1 DEF TaskTypes, RecordTypes, Record
<1>4. ExecuteTruth'
  BY <1>1, <1>2 DEF Control, VerdictDue, ExecuteTruth, Done
<1>5. Acting' /\ Stopped' /\ TaskOver' /\ VerdictDue'
  BY <1>1, <1>2 DEF Control, Acting, Stopped, TaskOver, VerdictDue
<1> QED
  BY <1>1, <1>3, <1>4, <1>5 DEF ControlStep, Ledger, Control

LEMMA CancelStep ==
    ASSUME TypeOK, Control, NEW c \in Caller, Cancel(c)
    PROVE  ControlStep
<1>1. PICK o \in Outcome :
        /\ Log([status |-> "cancelling", cancel |-> TRUE], <<"cancel">>, o)
        /\ IF o = "ok" /\ ~Terminates /\ pc \notin {"none", "done"}
           THEN doomed' = TRUE /\ caller' = [caller EXCEPT ![c] = "yielded"]
           ELSE caller' = [caller EXCEPT ![c] = "done"] /\ UNCHANGED doomed
  BY DEF Cancel
<1>2. /\ Stops(o) /\ TaskTypes /\ RecordTypes /\ pc # "result" /\ caller[c] = "idle"
      /\ UNCHANGED <<pc, code, proc, pumps, starts, stage, retries, waiter, restarts>>
  BY <1>1, TaskWrites, TypeParts DEF Cancel, command, plan, LoopFree
<1>3. /\ run.status \in {"running", "cancelling"} /\ run'.status = "cancelling" /\ run'.cancel = TRUE
      /\ outages' = 0 => o = "ok" /\ outages = 0
  BY <1>2, LedgerRun
<1>4. ~Done /\ ~Done' /\ (Undisturbed' => Undisturbed) /\ run'.status # "none"
  BY <1>2, <1>3 DEF Done, Terminal, Undisturbed
<1>5. /\ caller' \in [Caller -> {"idle", "yielded", "done"}]
      /\ Yielded => Yielded'
  BY <1>1, <1>2 DEF TaskTypes, Yielded
<1>6. CASE o = "ok" /\ ~Terminates /\ pc \notin {"none", "done"}
  <2>1. doomed' = TRUE /\ Yielded' /\ proc # "running"
    BY <1>1, <1>2, <1>6 DEF Yielded, TaskTypes, Terminates
  <2>2. TaskTypes'
    BY <1>2, <1>5, <1>6, <2>1 DEF TaskTypes
  <2>3. ExecuteTruth'
    BY <1>2, <1>3, <1>4 DEF Control, ExecuteTruth, Done
  <2>4. Acting' /\ Stopped' /\ TaskOver' /\ VerdictDue'
    BY <1>2, <1>3, <1>4, <2>1 DEF Control, Acting, Stopped, TaskOver, VerdictDue
  <2> QED
    BY <1>2, <2>2, <2>3, <2>4 DEF ControlStep, Ledger, Control
<1>7. CASE ~(o = "ok" /\ ~Terminates /\ pc \notin {"none", "done"})
  <2>1. doomed' = doomed /\ (Yielded' <=> Yielded)
    BY <1>1, <1>2, <1>5, <1>7 DEF Yielded, TaskTypes
  <2>2. TaskTypes'
    BY <1>2, <1>5, <2>1 DEF TaskTypes
  <2>3. ExecuteTruth'
    BY <1>2, <1>3, <1>4 DEF Control, ExecuteTruth, Done
  <2>4. Acting' /\ Stopped' /\ TaskOver' /\ VerdictDue'
    BY <1>2, <1>3, <1>4, <2>1 DEF Control, Acting, Stopped, TaskOver, VerdictDue
  <2> QED
    BY <1>2, <2>2, <2>3, <2>4 DEF ControlStep, Ledger, Control
<1> QED
  BY <1>6, <1>7

\* The verdict of a cancellation, whoever gives it.
LEMMA CancelledRun ==
    ASSUME TypeOK, Control, run.cancel, Cancelled
    PROVE  /\ Ledger /\ Done' /\ run'.cancel /\ run'.status = "cancelled"
           /\ Done => run' = run
           /\ outages' = 0 => outages = 0
<1>1. RecordTypes /\ (Done => run.status = "cancelled")
  BY TypeParts DEF Control, Stopped, Done, Terminal
<1>2. CASE Done /\ Rests
  <2>1. run' = run /\ outages' = outages
    BY <1>2 DEF Rests, records
  <2> QED
    BY <1>1, <1>2, <2>1 DEF Ledger, Done
<1>3. ASSUME ~Done, NEW o \in Outcome, Judges("cancelled", o)
      PROVE  /\ Ledger /\ Done' /\ run'.cancel /\ run'.status = "cancelled"
             /\ Done => run' = run
             /\ outages' = 0 => outages = 0
  <2>1. /\ "cancelled" \in Terminal /\ run'.status = "cancelled" /\ run'.cancel = run.cancel
        /\ outages' = 0 => outages = 0
    BY <1>1, <1>3, LedgerRun
  <2>2. Ledger
    BY <1>3 DEF Ledger, Verdictable
  <2> QED
    BY <1>3, <2>1, <2>2 DEF Done
<1> QED
  BY <1>2, <1>3, CancelledWrites

LEMMA FallbackStep ==
    ASSUME TypeOK, Control, NEW c \in Caller, Fallback(c)
    PROVE  ControlStep
<1>1. /\ caller[c] = "yielded" /\ Cancelled /\ caller' = [caller EXCEPT ![c] = "done"]
      /\ UNCHANGED <<pc, doomed, code, proc, pumps, starts, stage, retries, waiter, restarts>>
      /\ TaskTypes
  BY TypeParts DEF Fallback, command, plan
<1>2. Yielded /\ run.cancel
  BY <1>1 DEF Yielded, Control, Stopped
<1>3. /\ Ledger /\ Done' /\ run'.cancel /\ run'.status = "cancelled"
      /\ Done => run' = run
      /\ outages' = 0 => outages = 0
  BY <1>1, <1>2, CancelledRun
<1>4. caller' \in [Caller -> {"idle", "yielded", "done"}] /\ (Yielded' => Yielded)
  BY <1>1 DEF TaskTypes, Yielded
<1>5. TaskTypes'
  BY <1>1, <1>4 DEF TaskTypes
<1>6. Undisturbed' => Undisturbed
  BY <1>1, <1>3 DEF Undisturbed
<1>7. ExecuteTruth'
  BY <1>1, <1>3, <1>6 DEF Control, ExecuteTruth, Done
<1>8. Acting' /\ Stopped' /\ TaskOver' /\ VerdictDue'
  BY <1>1, <1>2, <1>3, <1>4, <1>6 DEF Control, Acting, Stopped, TaskOver, VerdictDue
<1> QED
  BY <1>3, <1>5, <1>7, <1>8 DEF ControlStep, Control

LEMMA TaskCancelledStep ==
    ASSUME TypeOK, Control, TaskCancelled
    PROVE  ControlStep
<1>1. /\ doomed /\ pc \notin {"none", "result", "done"} /\ ~doomed' /\ TaskTypes /\ RecordTypes
      /\ UNCHANGED <<code, proc, starts, stage, retries, caller, waiter, restarts>>
      /\ proc # "running" /\ run.cancel
  BY TypeParts DEF TaskCancelled, plan, Control, Acting, Stopped
<1>2. Yielded' <=> Yielded
  BY <1>1 DEF Yielded
<1>3. doomed' \in BOOLEAN
  BY DEF TaskCancelled
<1>4. CASE pc' = "done" /\ pumps' = (IF pc = "drain" THEN FALSE ELSE pumps) /\ Cancelled
  <2>1. /\ Ledger /\ Done' /\ run'.cancel /\ run'.status = "cancelled"
        /\ Done => run' = run
        /\ outages' = 0 => outages = 0
    BY <1>1, <1>4, CancelledRun
  <2>2. TaskTypes'
    BY <1>1, <1>3, <1>4 DEF TaskTypes
  <2>3. Undisturbed' => Undisturbed
    BY <1>1, <2>1 DEF Undisturbed
  <2>4. ExecuteTruth'
    BY <1>1, <2>1, <2>3 DEF Control, ExecuteTruth, Done
  <2>5. Acting' /\ Stopped' /\ TaskOver' /\ VerdictDue'
    BY <1>1, <1>2, <1>4, <2>1, <2>3 DEF Control, Acting, Stopped, TaskOver, VerdictDue
  <2> QED
    BY <2>1, <2>2, <2>4, <2>5 DEF ControlStep, Control
<1>5. CASE /\ UNCHANGED <<records, client>>
           /\ \/ pc' = "done" /\ pumps' = (IF pc = "drain" THEN FALSE ELSE pumps)
              \/ "lateCancel" \in Faults /\ pc = "wait" /\ pc' = "drain" /\ pumps' = pumps
  <2>1. Rests /\ run' = run /\ outages' = outages
    BY <1>5 DEF Rests, records
  <2>2. (Done' <=> Done) /\ (Undisturbed' <=> Undisturbed)
    BY <1>1, <2>1 DEF Done, Undisturbed
  <2>3. TaskTypes'
    BY <1>1, <1>3, <1>5 DEF TaskTypes
  <2>4. ExecuteTruth'
    BY <1>1, <2>1, <2>2 DEF Control, ExecuteTruth
  <2>5. Acting' /\ Stopped' /\ TaskOver' /\ VerdictDue'
    BY <1>1, <1>2, <1>5, <2>1, <2>2 DEF Control, Acting, Stopped, TaskOver, VerdictDue
  <2> QED
    BY <2>1, <2>3, <2>4, <2>5 DEF ControlStep, Ledger, Control
<1> QED
  BY <1>4, <1>5 DEF TaskCancelled

-----------------------------------------------------------------------------
(* The client and the restart *)

LEMMA ControlKept ==
    ASSUME TypeOK, Control, UNCHANGED <<run, outages, pc, doomed, command, plan, caller, waiter, restarts>>
    PROVE  TaskTypes' /\ Control'
<1>1. /\ run' = run /\ outages' = outages /\ pc' = pc /\ doomed' = doomed /\ code' = code
      /\ proc' = proc /\ pumps' = pumps /\ starts' = starts /\ stage' = stage
      /\ retries' = retries /\ caller' = caller /\ waiter' = waiter /\ restarts' = restarts
  BY DEF command, plan
<1>2. (Yielded' <=> Yielded) /\ (Done' <=> Done) /\ (Undisturbed' <=> Undisturbed)
  BY <1>1 DEF Yielded, Done, Undisturbed
<1>3. TaskTypes
  BY TypeParts
<1>4. TaskTypes'
  BY <1>1, <1>3 DEF TaskTypes
<1> QED
  BY <1>1, <1>2, <1>4 DEF Control, Acting, Stopped, TaskOver, VerdictDue, ExecuteTruth

LEMMA RestartStep ==
    ASSUME TypeOK, Control, saved.cancel => saved.status \in {"cancelling", "cancelled"}, Restart
    PROVE  RecordTypes' /\ TaskTypes' /\ Control'
<1>1. /\ RecordTypes /\ TaskTypes
      /\ run' = saved /\ pc' = "none" /\ doomed' = FALSE /\ proc' = "none" /\ pumps' = FALSE
      /\ bucket' = <<>> /\ restarts' = restarts + 1 /\ restarts < MaxRestarts
      /\ caller' = [c \in Caller |-> IF caller[c] = "yielded" THEN "done" ELSE caller[c]]
      /\ waiter' = IF waiter = "waiting" THEN "none" ELSE waiter
      /\ UNCHANGED <<saved, history, code, starts, stage, retries, outages>>
  BY TypeParts DEF Restart, plan
<1>2. client' \in ClientState
  <2>1. PICK next \in {"lost", "ended"} :
          client' = IF Streaming THEN [client EXCEPT !.pc = next, !.queue = <<>>] ELSE client
    BY DEF Restart
  <2>2. <<>> \in Seq(Event)
    OBVIOUS
  <2> QED
    BY <1>1, <2>1, <2>2 DEF RecordTypes, ClientState
<1>3. RecordTypes'
  BY <1>1, <1>2 DEF RecordTypes
<1>4. caller' \in [Caller -> {"idle", "yielded", "done"}] /\ ~Yielded'
  BY <1>1 DEF TaskTypes, Yielded
<1>5. TaskTypes'
  <2>1. restarts' \in 0 .. MaxRestarts /\ doomed' \in BOOLEAN /\ pumps' \in BOOLEAN
    <3>1. restarts \in 0 .. MaxRestarts /\ MaxRestarts \in Nat
      BY <1>1, ExecAssumption DEF TaskTypes
    <3>2. restarts' = restarts + 1 /\ restarts < MaxRestarts
      BY <1>1
    <3>3. restarts' \in 0 .. MaxRestarts
      BY <3>1, <3>2
    <3>4. doomed' = FALSE /\ pumps' = FALSE
      BY <1>1
    <3>5. doomed' \in BOOLEAN /\ pumps' \in BOOLEAN
      BY <3>4, Zenon
    <3> QED
      BY <3>3, <3>5
  <2>2. /\ pc' \in {"none", "created", "spawn", "wait", "drain", "result", "backoff", "done"}
        /\ stage' \in {"first", "rewritten", "again"} /\ code' \in {"ok", "error", "timeout"}
        /\ proc' \in {"none", "running", "exited", "closed"}
        /\ starts' \in Nat /\ retries' \in 0 .. MaxRetries
        /\ waiter' \in {"none", "waiting"} \cup Status
    BY <1>1 DEF TaskTypes
  <2>3. (doomed' => pc' \notin {"none", "result", "done"}) /\ (pumps' => proc' # "none")
    BY <1>1
  <2> QED
    BY <1>4, <2>1, <2>2, <2>3 DEF TaskTypes
<1>6. ~Undisturbed'
  BY <1>1 DEF Undisturbed, TaskTypes
<1>7. Control'
  BY <1>1, <1>4, <1>6 DEF Control, Acting, Stopped, TaskOver, VerdictDue, ExecuteTruth
<1> QED
  BY <1>3, <1>5, <1>7

-----------------------------------------------------------------------------
(* What the client is sent *)

\* A set of naturals with a bound has a greatest element.
LEMMA GreatestNatural ==
    ASSUME NEW T \in SUBSET Nat, T # {}, NEW b \in Nat, \A k \in T : k <= b
    PROVE  \E m \in T : \A k \in T : k <= m
<1> DEFINE Above == {u \in Nat : \A k \in T : k <= u}
<1>1. PICK u \in Above : \A v \in Above : u <= v
  <2>1. b \in Above /\ Above \in SUBSET Nat
    OBVIOUS
  <2> QED
    BY <2>1, LeastNatural
<1>2. u \in Nat /\ \A k \in T : k <= u
  OBVIOUS
<1>3. ASSUME u \notin T PROVE FALSE
  <2>1. \A k \in T : k < u
    BY <1>2, <1>3
  <2>2. u - 1 \in Nat /\ \A k \in T : k <= u - 1
    <3>1. PICK t \in T : TRUE
      OBVIOUS
    <3>2. t \in Nat /\ t < u
      BY <2>1, <3>1
    <3> QED
      BY <1>2, <2>1, <3>2
  <2>3. u <= u - 1
    BY <1>1, <2>2
  <2> QED
    BY <1>2, <2>3
<1> QED
  BY <1>2, <1>3

LEMMA FunctionBound ==
    ASSUME NEW n \in Nat, NEW f \in [1 .. n -> Nat]
    PROVE  \E b \in Nat : \A i \in 1 .. n : f[i] <= b
<1> DEFINE Bounded(k) == \E b \in Nat : \A i \in 1 .. k : f[i] <= b
           Bad == {k \in 0 .. n : ~Bounded(k)}
<1>1. ASSUME Bad # {} PROVE FALSE
  <2>1. PICK m \in Bad : \A k \in Bad : m <= k
    <3>1. Bad \in SUBSET Nat
      OBVIOUS
    <3> QED
      BY <1>1, <3>1, LeastNatural
  <2>2. m \in 0 .. n /\ ~Bounded(m)
    OBVIOUS
  <2>3. m # 0
    <3>1. \A i \in 1 .. 0 : f[i] <= 0
      OBVIOUS
    <3> QED
      BY <2>2, <3>1
  <2>4. m - 1 \in 0 .. n /\ m - 1 \notin Bad /\ m \in 1 .. n
    <3> HIDE DEF Bounded
    <3> QED
      BY <2>1, <2>2, <2>3
  <2>5. PICK b \in Nat : \A i \in 1 .. m - 1 : f[i] <= b
    BY <2>4
  <2>6. f[m] \in Nat
    BY <2>4
  <2>7. b + f[m] \in Nat /\ \A i \in 1 .. m : f[i] <= b + f[m]
    BY <2>4, <2>5, <2>6, SMTT(30)
  <2> QED
    BY <2>2, <2>7
<1>2. Bounded(n)
  <2> HIDE DEF Bounded
  <2> QED
    BY <1>1
<1> QED
  BY <1>2

LEMMA SeqBound ==
    ASSUME NEW events \in Seq(Event)
    PROVE  \E b \in Nat : \A e \in ToSet(events) : e.seq <= b
<1> DEFINE n == Len(events)
           f == [k \in 1 .. n |-> events[k].seq]
<1>1. n \in Nat /\ DOMAIN events = 1 .. n /\ \A k \in 1 .. n : events[k] \in Event
  OBVIOUS
<1>2. \A k \in 1 .. n : events[k].seq \in Nat
  BY <1>1 DEF Event
<1>3. f \in [1 .. n -> Nat]
  BY <1>2
<1>4. \A k \in 1 .. n : f[k] = events[k].seq
  OBVIOUS
<1> HIDE DEF n, f
<1>5. PICK b \in Nat : \A i \in 1 .. n : f[i] <= b
  BY <1>1, <1>3, FunctionBound
<1> QED
  BY <1>1, <1>4, <1>5 DEF ToSet

LEMMA FreshAre ==
    ASSUME NEW events \in Seq(Event)
    PROVE  Fresh(events) \subseteq ToSet(events) /\ ToSet(events) \subseteq Event
BY DEF Fresh, ToSet

\* The records of the client.
LEMMA ClientParts ==
    ASSUME NEW c \in ClientState
    PROVE  /\ c.last \in Nat /\ c.queue \in Seq(Event) /\ c.got \in SUBSET Nat
           /\ c.told \in {"none"} \cup Terminal /\ c.calm \in BOOLEAN
BY DEF ClientState

\* Sending leaves the queue; the client is told nothing, or the verdict among events.
LEMMA SentIs ==
    ASSUME RecordTypes, NEW events \in Seq(Event), NEW c \in ClientState, c.last = client.last,
           NEW next \in {"read", "check", "wait", "snapshot"}
    PROVE  /\ Sent(events, c, next) \in ClientState
           /\ Sent(events, c, next).pc = next /\ Sent(events, c, next).queue = c.queue
           /\ Sent(events, c, next).got = c.got \cup {e.seq : e \in Fresh(events)}
           /\ Sent(events, c, next).last \in {c.last} \cup {e.seq : e \in Fresh(events)}
           /\ \A e \in Fresh(events) : e.seq <= Sent(events, c, next).last
           /\ \/ Sent(events, c, next).told = c.told
              \/ \E e \in ToSet(events) : e.kind \in Terminal /\ Sent(events, c, next).told = e.kind
<1> DEFINE new == Fresh(events)
           seqs == {c.last} \cup {e.seq : e \in new}
           last == CHOOSE m \in seqs : \A e \in new : e.seq <= m
           got == c.got \cup {e.seq : e \in new}
           told == IF \E e \in new : e.kind \in Terminal
                   THEN (CHOOSE e \in new : e.kind \in Terminal).kind ELSE c.told
           s == Sent(events, c, next)
<1>1. new \subseteq ToSet(events) /\ ToSet(events) \subseteq Event
  BY FreshAre
<1> HIDE DEF new
<1>2. c.last \in Nat /\ c.got \in SUBSET Nat /\ c.told \in {"none"} \cup Terminal
      /\ \A e \in new : e \in Event /\ e.seq \in Nat
  BY <1>1, ClientParts DEF Event
<1>3. last \in seqs /\ \A e \in new : e.seq <= last
  <2>1. PICK b \in Nat : \A e \in new : e.seq <= b
    BY <1>1, SeqBound
  <2>2. seqs \in SUBSET Nat /\ seqs # {} /\ b + c.last \in Nat
    BY <1>2
  <2>3. \A k \in seqs : k <= b + c.last
    BY <1>2, <2>1
  <2> HIDE DEF seqs
  <2>4. \E m \in seqs : \A k \in seqs : k <= m
    BY <2>2, <2>3, GreatestNatural
  <2>5. \E m \in seqs : \A e \in new : e.seq <= m
    BY <2>4 DEF seqs
  <2> QED
    BY <2>5
<1>4. last \in Nat
  BY <1>2, <1>3
<1>5. got \in SUBSET Nat
  BY <1>2
<1>6. \/ told = c.told
      \/ \E e \in ToSet(events) : e.kind \in Terminal /\ told = e.kind
  BY <1>1
<1>7. told \in {"none"} \cup Terminal
  BY <1>2, <1>6
<1>8. s = [c EXCEPT !.pc = next, !.last = last, !.got = got, !.told = told]
  BY DEF Sent, new
<1> HIDE DEF last, got, told, s
<1>9. /\ s \in ClientState
      /\ s.pc = next /\ s.last = last /\ s.got = got /\ s.told = told /\ s.queue = c.queue
  <2>1. next \in {"off", "read", "check", "wait", "lost", "ended", "snapshot", "done"}
    OBVIOUS
  <2>2. \A t : t = [c EXCEPT !.pc = next, !.last = last, !.got = got, !.told = told] =>
          /\ t \in ClientState
          /\ t.pc = next /\ t.last = last /\ t.got = got /\ t.told = told /\ t.queue = c.queue
    BY <1>4, <1>5, <1>7, <2>1 DEF ClientState
  <2> QED
    BY <1>8, <2>2, Zenon
<1>10. s.got = c.got \cup {e.seq : e \in new}
  BY <1>9 DEF got
<1> QED
  BY <1>3, <1>6, <1>9, <1>10 DEF s, new

\* What the client learns is the status of the record, or a verdict among the events.
Seen == ToSet(bucket) \cup ToSet(history) \cup ToSet(client.queue)
Learns ==
    \/ client'.told = client.told
    \/ Done /\ client'.told = run.status
    \/ \E e \in Seen : e.kind \in Terminal /\ client'.told = e.kind

\* A step of the client: the bucket may be filled up from ClickHouse, and the client
\* follows.
Follows ==
    /\ bucket' \in Seq(Event) /\ ToSet(bucket') \subseteq ToSet(bucket) \cup ToSet(history)
    /\ client' \in ClientState /\ ToSet(client'.queue) \subseteq ToSet(client.queue)
    /\ Learns

LEMMA LoadedIs ==
    ASSUME RecordTypes, NEW after
    PROVE  /\ FromHistory(after) \in Seq(Event)
           /\ ToSet(FromHistory(after)) \subseteq ToSet(history)
<1> DEFINE n == UpTo(history, after)
<1>1. history \in Seq(Event) /\ Len(history) \in Nat /\ n \in 0 .. Len(history)
  BY UpToBounds DEF RecordTypes
<1> HIDE DEF n
<1>2. n + 1 \in 1 .. Len(history) + 1 /\ Len(history) \in 0 .. Len(history)
  BY <1>1
<1>3. /\ SubSeq(history, n + 1, Len(history)) \in Seq(Event)
      /\ ToSet(SubSeq(history, n + 1, Len(history))) \subseteq ToSet(history)
  BY <1>1, <1>2, ToSetCut
<1> QED
  BY <1>3 DEF FromHistory, n

LEMMA ListedFollows ==
    ASSUME RecordTypes, NEW a \in {"read", "check", "wait", "snapshot"},
           NEW b \in {"read", "check", "wait", "snapshot"}, Listed(<<a, b>>)
    PROVE  Follows
<1> DEFINE active == [client EXCEPT !.calm = FALSE]
           loaded == FromHistory(client.last)
<1>1. /\ bucket \in Seq(Event) /\ history \in Seq(Event) /\ client \in ClientState
      /\ active \in ClientState /\ active.last = client.last /\ active.queue = client.queue
      /\ active.told = client.told
  BY DEF RecordTypes, ClientState
<1>2. loaded \in Seq(Event) /\ ToSet(loaded) \subseteq ToSet(history)
  BY LoadedIs
<1>3. IF NothingCached(client.last)
      THEN /\ bucket' = bucket \o loaded
           /\ client' = IF loaded = <<>> THEN [client EXCEPT !.pc = a]
                        ELSE Sent(loaded, active, b)
      ELSE bucket' = bucket /\ client' = Sent(bucket, active, b)
  BY DEF Listed
<1> HIDE DEF active, loaded
<1>4. bucket \o loaded \in Seq(Event) /\ ToSet(bucket \o loaded) = ToSet(bucket) \cup ToSet(loaded)
  BY <1>1, <1>2, ToSetAppends
<1>5. ASSUME NEW events \in Seq(Event), client' = Sent(events, active, b),
             ToSet(events) \subseteq ToSet(bucket) \cup ToSet(history)
      PROVE  client' \in ClientState /\ ToSet(client'.queue) \subseteq ToSet(client.queue) /\ Learns
  <2> DEFINE sent == Sent(events, active, b)
  <2>1. /\ sent \in ClientState /\ sent.queue = client.queue
        /\ \/ sent.told = client.told
           \/ \E e \in ToSet(events) : e.kind \in Terminal /\ sent.told = e.kind
    BY <1>1, SentIs
  <2>2. client' = sent
    BY <1>5
  <2> HIDE DEF sent
  <2>3. Learns
    BY <1>5, <2>1, <2>2 DEF Learns, Seen
  <2> QED
    BY <2>1, <2>2, <2>3
<1>6. ASSUME client' = [client EXCEPT !.pc = a]
      PROVE  client' \in ClientState /\ ToSet(client'.queue) \subseteq ToSet(client.queue) /\ Learns
  BY <1>1, <1>6 DEF Learns, ClientState
<1>7. CASE NothingCached(client.last)
  BY <1>1, <1>2, <1>3, <1>4, <1>5, <1>6, <1>7 DEF Follows
<1>8. CASE ~NothingCached(client.last)
  BY <1>1, <1>3, <1>5, <1>8 DEF Follows
<1> QED
  BY <1>7, <1>8

LEMMA WaitFollows ==
    ASSUME RecordTypes, WaitForEvent
    PROVE  Follows
<1>1. bucket' = bucket /\ bucket \in Seq(Event) /\ client \in ClientState
      /\ client.queue \in Seq(Event)
  BY ClientParts DEF WaitForEvent, RecordTypes
<1>2. CASE client.queue = <<>>
  <2>1. client' = [client EXCEPT !.pc = "read"]
    BY <1>2 DEF WaitForEvent
  <2> QED
    BY <1>1, <2>1 DEF Follows, Learns, ClientState
<1>3. CASE client.queue # <<>>
  <2> DEFINE one == SubSeq(client.queue, 1, 1)
             rest == Tail(client.queue)
             c == [client EXCEPT !.queue = rest]
  <2>1. Len(client.queue) \in Nat /\ Len(client.queue) >= 1
    BY <1>1, <1>3
  <2>2. one \in Seq(Event) /\ ToSet(one) \subseteq ToSet(client.queue)
    <3>1. 1 \in 1 .. Len(client.queue) + 1 /\ 1 \in 0 .. Len(client.queue)
      BY <2>1
    <3> QED
      BY <1>1, <3>1, ToSetCut
  <2>3. rest \in Seq(Event) /\ ToSet(rest) \subseteq ToSet(client.queue)
    <3>1. rest \in Seq(Event) /\ Len(rest) = Len(client.queue) - 1
      BY <1>1, <1>3
    <3>2. \A k \in 1 .. Len(client.queue) - 1 : rest[k] = client.queue[k + 1]
      BY <1>1, <1>3
    <3> HIDE DEF rest
    <3>3. \A k \in 1 .. Len(client.queue) - 1 : k + 1 \in 1 .. Len(client.queue)
      BY <2>1
    <3> QED
      BY <1>1, <3>1, <3>2, <3>3 DEF ToSet
  <2> HIDE DEF one, rest
  <2>4. c \in ClientState /\ c.last = client.last /\ c.queue = rest /\ c.told = client.told
    BY <1>1, <2>3 DEF ClientState
  <2>5. client' = Sent(one, c, "read")
    BY <1>3 DEF WaitForEvent, one, rest
  <2> DEFINE sent == Sent(one, c, "read")
  <2> HIDE DEF c
  <2>6. /\ sent \in ClientState /\ sent.queue = c.queue
        /\ \/ sent.told = c.told
           \/ \E e \in ToSet(one) : e.kind \in Terminal /\ sent.told = e.kind
    BY <2>2, <2>4, SentIs
  <2>7. client' = sent
    BY <2>5
  <2> HIDE DEF sent
  <2>8. ToSet(client'.queue) \subseteq ToSet(client.queue)
    BY <2>3, <2>4, <2>6, <2>7
  <2>9. Learns
    BY <2>2, <2>4, <2>6, <2>7 DEF Learns, Seen
  <2> QED
    BY <1>1, <2>6, <2>7, <2>8, <2>9 DEF Follows
<1> QED
  BY <1>2, <1>3

LEMMA ClientFollows ==
    ASSUME TypeOK, Connect \/ Stream \/ Cut
    PROVE  /\ Follows
           /\ UNCHANGED <<run, saved, history, outages, restarts>>
           /\ UNCHANGED <<pc, doomed, command, plan, caller, waiter>>
<1>1. RecordTypes /\ bucket \in Seq(Event) /\ client \in ClientState /\ client.queue \in Seq(Event)
      /\ client.told \in {"none"} \cup Terminal
  BY TypeParts, ClientParts DEF RecordTypes
<1>2. ClientTurn
  BY DEF Connect, Stream, Cut, ReadBacklog, CheckEnd, WaitForEvent, Backfill, Snapshot
<1>3. UNCHANGED <<run, saved, history, outages, restarts>>
      /\ UNCHANGED <<pc, doomed, command, plan, caller, waiter>>
  BY <1>2 DEF ClientTurn
<1> SUFFICES Follows
  BY <1>3
<1>4. CASE Connect
  BY <1>1, <1>4 DEF Connect, Follows, Learns, ClientState
<1>5. CASE ReadBacklog
  BY <1>1, <1>5, ListedFollows DEF ReadBacklog
<1>6. CASE CheckEnd
  <2>1. bucket' = bucket /\ \E p \in {"wait", "ended"}, b \in BOOLEAN :
          client' = [client EXCEPT !.calm = b, !.pc = p] \/ client' = [client EXCEPT !.pc = p]
    BY <1>6 DEF CheckEnd
  <2> QED
    BY <1>1, <2>1 DEF Follows, Learns, ClientState
<1>7. CASE WaitForEvent
  BY <1>1, <1>7, WaitFollows
<1>8. CASE Backfill
  <2>1. CASE client.told # "none"
    <3>1. client' = [client EXCEPT !.pc = "done"] /\ bucket' = bucket
      BY <1>8, <2>1 DEF Backfill
    <3> QED
      BY <1>1, <3>1 DEF Follows, Learns, ClientState
  <2>2. CASE client.told = "none"
    BY <1>1, <1>8, <2>2, ListedFollows DEF Backfill
  <2> QED
    BY <2>1, <2>2
<1>9. CASE Snapshot
  <2>1. bucket' = bucket /\ client' = [client EXCEPT !.pc = "done",
                    !.told = IF @ = "none" /\ Done THEN run.status ELSE @]
    BY <1>9 DEF Snapshot
  <2> DEFINE told == IF client.told = "none" /\ Done THEN run.status ELSE client.told
  <2>2. told \in {"none"} \cup Terminal /\ (told = client.told \/ (Done /\ told = run.status))
    BY <1>1 DEF Done
  <2>3. client' = [client EXCEPT !.pc = "done", !.told = told]
    BY <2>1
  <2> HIDE DEF told
  <2>4. client' \in ClientState /\ client'.told = told /\ client'.queue = client.queue
    BY <1>1, <2>2, <2>3 DEF ClientState
  <2> QED
    BY <1>1, <2>1, <2>2, <2>4 DEF Follows, Learns
<1>10. CASE Cut
  <2>1. client' = [client EXCEPT !.pc = "lost", !.queue = <<>>] /\ bucket' = bucket
    BY <1>10 DEF Cut
  <2>2. <<>> \in Seq(Event) /\ ToSet(<<>>) = {}
    BY ToSetOne
  <2> QED
    BY <1>1, <2>1, <2>2 DEF Follows, Learns, ClientState
<1> QED
  BY <1>4, <1>5, <1>6, <1>7, <1>8, <1>9, <1>10 DEF Stream

-----------------------------------------------------------------------------
(* The record and the verdict *)

\* What ClickHouse keeps is what the memory holds, unless an insert was refused; it
\* never has the end of a run that was to be cancelled as another one.
Saved ==
    /\ saved.cancel => saved.status \in {"cancelling", "cancelled"}
    /\ outages = 0 => saved = run

\* A verdict among the events is the status of both records.
VerdictRecorded == \A e \in Verdicts : e.kind = run.status /\ e.kind = saved.status

SingleVerdict == "lateCancel" \notin Faults => \A e, f \in Verdicts : e = f

\* What is queued for the client is filed, and it was told what is recorded.
ToldRecorded ==
    /\ ToSet(client.queue) \subseteq ToSet(history)
    /\ outages = 0 /\ client.told # "none" => client.told = run.status

Truth == Saved /\ VerdictRecorded /\ SingleVerdict /\ ToldRecorded

LEMMA NewsKinds ==
    ASSUME bucket \in Seq(Event)
    PROVE  /\ \A kinds \in Seq(Plain) : \A e \in ToSet(News(kinds)) : e.kind \notin Terminal
           /\ \A k \in Kind : ToSet(News(<<k>>)) = {[seq |-> Len(bucket) + 1, kind |-> k]}
           /\ ToSet(News(<<>>)) = {}
<1>1. ASSUME NEW kinds \in Seq(Plain), NEW e \in ToSet(News(kinds)) PROVE e.kind \notin Terminal
  <2>1. kinds \in Seq(Kind)
    BY PlainKinds
  <2>2. News(kinds) \in Seq(Event) /\ Len(News(kinds)) = Len(kinds)
        /\ \A k \in 1 .. Len(kinds) : News(kinds)[k] = [seq |-> Len(bucket) + k, kind |-> kinds[k]]
    BY <2>1, NewsTyped
  <2>3. \A k \in 1 .. Len(kinds) : kinds[k] \in Plain
    OBVIOUS
  <2>4. PICK k \in 1 .. Len(kinds) : e = News(kinds)[k]
    BY <2>2 DEF ToSet
  <2>5. k \in 1 .. Len(kinds) /\ kinds[k] \in Plain
    BY <2>2, <2>3, <2>4
  <2>6. e = [seq |-> Len(bucket) + k, kind |-> kinds[k]]
    BY <2>2, <2>4, <2>5, Zenon
  <2>7. e.kind = kinds[k]
    BY <2>6
  <2> QED
    BY <2>5, <2>7 DEF Plain, Terminal
<1>2. ASSUME NEW k \in Kind PROVE ToSet(News(<<k>>)) = {[seq |-> Len(bucket) + 1, kind |-> k]}
  <2>1. DOMAIN <<k>> = {1} /\ <<k>>[1] = k
    OBVIOUS
  <2>2. News(<<k>>) = [i \in {1} |-> [seq |-> Len(bucket) + i, kind |-> <<k>>[i]]]
    BY <2>1 DEF News
  <2>3. DOMAIN News(<<k>>) = {1} /\ News(<<k>>)[1] = [seq |-> Len(bucket) + 1, kind |-> k]
    BY <2>1, <2>2
  <2> QED
    BY <2>3 DEF ToSet
<1>3. ToSet(News(<<>>)) = {}
  BY DEF ToSet, News
<1> QED
  BY <1>1, <1>2, <1>3

\* The verdicts after a write.
LEMMA WriteVerdicts ==
    ASSUME NEW rec, NEW kinds, NEW o, Writes(rec, kinds, o)
    PROVE  /\ Verdicts' \subseteq Verdicts \cup {e \in ToSet(News(kinds)) : e.kind \in Terminal}
           /\ o = "record" => Verdicts' = Verdicts
BY DEF Writes, Verdicts

LEMMA QuietWrites ==
    ASSUME RecordTypes, Truth, Stopped', NEW rec, NEW kinds, NEW o \in Outcome,
           Writes(rec, kinds, o), \A e \in ToSet(News(kinds)) : e.kind \notin Terminal,
           rec # run => run.status \notin Terminal
    PROVE  Truth'
<1>1. Verdicts' \subseteq Verdicts
  BY WriteVerdicts
<1>2. run' = rec /\ saved' \in {saved, rec} /\ o \in {"ok", "record", "event"} /\ outages \in Nat
      /\ (o # "record" => saved' = rec)
      /\ outages' = (IF o = "ok" THEN outages ELSE outages + 1)
  BY DEF Writes, Outcome, RecordTypes
<1>3. outages' = 0 => o = "ok" /\ outages = 0
  BY <1>2
<1>4. Saved'
  BY <1>2, <1>3 DEF Stopped, Saved, Truth
<1>5. VerdictRecorded'
  <2> SUFFICES ASSUME NEW e \in Verdicts' PROVE e.kind = run'.status /\ e.kind = saved'.status
    BY DEF VerdictRecorded
  <2>1. e.kind = run.status /\ e.kind = saved.status /\ e.kind \in Terminal
    BY <1>1 DEF Truth, VerdictRecorded, Verdicts
  <2> QED
    BY <1>2, <2>1
<1>6. SingleVerdict'
  BY <1>1 DEF SingleVerdict, Truth
<1>7. client' = [client EXCEPT !.queue = client'.queue] /\ client \in ClientState
      /\ ToSet(client'.queue) \subseteq ToSet(client.queue) \cup ToSet(history')
      /\ ToSet(history) \subseteq ToSet(history')
  BY DEF Writes, RecordTypes
<1>8. client'.told = client.told
  BY <1>7 DEF ClientState
<1>9. ToldRecorded'
  <2>1. client.told \in {"none"} \cup Terminal
    BY <1>7, ClientParts
  <2> QED
    BY <1>2, <1>3, <1>7, <1>8, <2>1 DEF ToldRecorded, Truth
<1> QED
  BY <1>4, <1>5, <1>6, <1>9 DEF Truth

LEMMA JudgeWrites ==
    ASSUME RecordTypes, Truth, Stopped, Stopped', NEW o \in Outcome, NEW status,
           Judges(status, o), Verdictable(status)
    PROVE  Truth'
<1> DEFINE rec == Verdict(status)
           e0 == [seq |-> Len(bucket) + 1, kind |-> status]
<1>1. /\ status \in Terminal /\ Writes(rec, <<status>>, o) /\ rec \in Record
      /\ rec.status = status /\ rec.cancel = run.cancel
  BY DEF Judges, Verdict, RecordTypes, Record, Status
<1>2. status \in Kind /\ ToSet(News(<<status>>)) = {e0}
  BY <1>1, NewsKinds, KindsAre DEF RecordTypes
<1> HIDE DEF rec
<1>3. Verdicts' \subseteq Verdicts \cup {e0} /\ (o = "record" => Verdicts' = Verdicts)
  BY <1>1, <1>2, WriteVerdicts
<1>4. run' = rec /\ o \in {"ok", "record", "event"} /\ outages \in Nat
      /\ saved' = (IF o = "record" THEN saved ELSE rec)
      /\ outages' = (IF o = "ok" THEN outages ELSE outages + 1)
  BY <1>1 DEF Writes, Outcome, RecordTypes
<1>5. outages' = 0 => o = "ok" /\ outages = 0
  BY <1>4
\* A run that is over was cancelled, and the verdict is that once more.
<1>6. Done => status = run.status /\ "lateCancel" \in Faults
  BY DEF Verdictable, Stopped, Done, Terminal
<1>7. \A e \in Verdicts : e.kind = run.status /\ e.kind = saved.status /\ e.kind \in Terminal
  BY DEF Truth, VerdictRecorded, Verdicts
<1>8. Saved'
  BY <1>4, <1>5 DEF Stopped, Saved, Truth
<1>9. VerdictRecorded'
  <2> SUFFICES ASSUME NEW e \in Verdicts' PROVE e.kind = run'.status /\ e.kind = saved'.status
    BY DEF VerdictRecorded
  <2>1. CASE e \in Verdicts
    BY <1>1, <1>4, <1>6, <1>7, <2>1 DEF Done
  <2>2. CASE e \notin Verdicts
    <3>1. e = e0 /\ o # "record"
      BY <1>3, <2>2
    <3> QED
      BY <1>1, <1>4, <3>1
  <2> QED
    BY <2>1, <2>2
<1>10. SingleVerdict'
  <2>1. "lateCancel" \notin Faults => Verdicts = {}
    BY <1>6, <1>7 DEF Done
  <2> QED
    BY <1>3, <2>1 DEF SingleVerdict
<1>11. client' = [client EXCEPT !.queue = client'.queue] /\ client \in ClientState
       /\ ToSet(client'.queue) \subseteq ToSet(client.queue) \cup ToSet(history')
       /\ ToSet(history) \subseteq ToSet(history')
  BY <1>1 DEF Writes, RecordTypes
<1>12. client'.told = client.told /\ client.told \in {"none"} \cup Terminal
  BY <1>11, ClientParts DEF ClientState
<1>13. ToldRecorded'
  BY <1>1, <1>4, <1>5, <1>6, <1>11, <1>12 DEF ToldRecorded, Truth, Done
<1> QED
  BY <1>8, <1>9, <1>10, <1>13 DEF Truth

LEMMA LedgerTruth ==
    ASSUME RecordTypes, Truth, Stopped, Stopped', Ledger
    PROVE  Truth'
<1>1. bucket \in Seq(Event) /\ run \in Record
  BY DEF RecordTypes
<1>2. CASE Rests
  BY <1>2 DEF Rests, records, Truth, Saved, VerdictRecorded, SingleVerdict, ToldRecorded, Verdicts
<1>3. ASSUME NEW o \in Outcome, Notes(o) PROVE Truth'
  <2>1. PICK kinds \in Seq(Plain) : Writes(run, kinds, o)
    BY <1>3 DEF Notes
  <2> QED
    BY <1>1, <2>1, NewsKinds, QuietWrites
<1>4. ASSUME NEW o \in Outcome, Creates(o) PROVE Truth'
  <2>1. /\ Writes([run EXCEPT !.status = "running"], <<>>, o)
        /\ \A e \in ToSet(News(<<>>)) : e.kind \notin Terminal
        /\ run.status \notin Terminal
    BY <1>1, <1>4, NewsKinds DEF Creates, Terminal
  <2> QED
    BY <2>1, QuietWrites
<1>5. ASSUME NEW o \in Outcome, Stops(o) PROVE Truth'
  <2>1. "cancel" \in Kind /\ "cancel" \notin Terminal
    BY DEF Kind, Terminal
  <2>2. /\ Writes([status |-> "cancelling", cancel |-> TRUE], <<"cancel">>, o)
        /\ \A e \in ToSet(News(<<"cancel">>)) : e.kind \notin Terminal
        /\ run.status \notin Terminal
    BY <1>1, <1>5, <2>1, NewsKinds DEF Stops, Terminal
  <2> QED
    BY <2>2, QuietWrites
<1>6. ASSUME NEW o \in Outcome, NEW status, Judges(status, o), Verdictable(status) PROVE Truth'
  BY <1>6, JudgeWrites
<1> QED
  BY <1>2, <1>3, <1>4, <1>5, <1>6 DEF Ledger

LEMMA FollowsTruth ==
    ASSUME RecordTypes, Truth, Follows, UNCHANGED <<run, saved, history, outages>>
    PROVE  Truth' /\ RecordTypes'
<1>1. /\ run' = run /\ saved' = saved /\ history' = history /\ outages' = outages
      /\ bucket' \in Seq(Event) /\ ToSet(bucket') \subseteq ToSet(bucket) \cup ToSet(history)
      /\ client' \in ClientState /\ ToSet(client'.queue) \subseteq ToSet(client.queue)
      /\ Learns
  BY DEF Follows
<1>2. Verdicts' \subseteq Verdicts
  BY <1>1 DEF Verdicts
<1>3. Saved'
  BY <1>1 DEF Saved, Truth
<1>4. VerdictRecorded'
  BY <1>1, <1>2 DEF VerdictRecorded, Truth
<1>5. SingleVerdict'
  BY <1>2 DEF SingleVerdict, Truth
<1>6. ToldRecorded'
  <2>1. ToSet(client.queue) \subseteq ToSet(history)
    BY DEF Truth, ToldRecorded
  <2>2. ASSUME NEW e \in Seen, e.kind \in Terminal PROVE e.kind = run.status
    BY <2>1, <2>2 DEF Seen, Truth, VerdictRecorded, Verdicts
  <2>3. outages = 0 /\ client'.told # "none" => client'.told = run.status
    BY <1>1, <2>2 DEF Learns, Truth, ToldRecorded
  <2> QED
    BY <1>1, <2>1, <2>3 DEF ToldRecorded
<1>7. RecordTypes'
  BY <1>1 DEF RecordTypes
<1> QED
  BY <1>3, <1>4, <1>5, <1>6, <1>7 DEF Truth

LEMMA RestartTruth ==
    ASSUME RecordTypes, Truth, Restart
    PROVE  Truth'
<1>1. /\ run' = saved /\ saved' = saved /\ history' = history /\ outages' = outages
      /\ bucket' = <<>> /\ client \in ClientState
  BY DEF Restart, RecordTypes
<1>2. client'.told = client.told /\ ToSet(client'.queue) \subseteq ToSet(client.queue)
  <2>1. PICK next \in {"lost", "ended"} :
          client' = IF Streaming THEN [client EXCEPT !.pc = next, !.queue = <<>>] ELSE client
    BY DEF Restart
  <2>2. ToSet(<<>>) = {}
    BY ToSetOne
  <2> QED
    BY <1>1, <2>1, <2>2 DEF ClientState
<1>3. Verdicts' \subseteq Verdicts
  <2>1. ToSet(bucket') = {}
    BY <1>1, ToSetOne
  <2> QED
    BY <1>1, <2>1 DEF Verdicts
<1>4. Saved'
  BY <1>1 DEF Saved, Truth
<1>5. VerdictRecorded'
  BY <1>1, <1>3 DEF VerdictRecorded, Truth
<1>6. SingleVerdict'
  BY <1>3 DEF SingleVerdict, Truth
<1>7. ToldRecorded'
  BY <1>1, <1>2 DEF ToldRecorded, Saved, Truth
<1> QED
  BY <1>4, <1>5, <1>6, <1>7 DEF Truth

-----------------------------------------------------------------------------
(* The theorems *)

IInv == TypeOK /\ Control /\ Truth

\* Every step is a write of the task or of a canceller, one of the client, or a restart.
LEMMA Moves ==
    ASSUME TypeOK, Control, Next
    PROVE  ControlStep \/ Connect \/ Stream \/ Cut \/ Restart
<1>1. Task => ControlStep
  BY QuietSteps, DispatchSteps, BackoffStep, SpawnedStep, FinalizeStep, TaskCancelledStep DEF Task
<1>2. Process \/ Create \/ Output \/ ExecuteReturns => ControlStep
  BY QuietSteps, CreateStep, OutputStep, ExecuteReturnsStep DEF Process
<1>3. \A c \in Caller : Cancel(c) \/ Fallback(c) => ControlStep
  BY CancelStep, FallbackStep
<1> QED
  BY <1>1, <1>2, <1>3 DEF Next

LEMMA InitIInv == Init => IInv
<1> SUFFICES ASSUME Init PROVE IInv
  OBVIOUS
<1>1. /\ run = [status |-> "none", cancel |-> FALSE] /\ saved = run
      /\ bucket = <<>> /\ history = <<>> /\ restarts = 0 /\ outages = 0
      /\ client = [pc |-> "off", last |-> 0, queue |-> <<>>, got |-> {},
                   told |-> "none", calm |-> FALSE]
  BY DEF Init
<1>2. <<>> \in Seq(Event) /\ ToSet(<<>>) = {}
  BY ToSetOne
<1>3. RecordTypes
  BY <1>1, <1>2, ExecAssumption DEF RecordTypes, Record, Status, ClientState
<1>4. TaskTypes
  <2>1. starts \in Nat /\ retries \in 0 .. MaxRetries /\ restarts \in 0 .. MaxRestarts
    BY ExecAssumption DEF Init
  <2>2. doomed \in BOOLEAN /\ pumps \in BOOLEAN /\ ~doomed /\ ~pumps
    BY DEF Init
  <2>3. caller \in [Caller -> {"idle", "yielded", "done"}] /\ waiter \in {"none", "waiting"} \cup Status
    BY DEF Init
  <2>4. pc = "none" /\ stage = "first" /\ code = "ok" /\ proc = "none"
    BY DEF Init
  <2> QED
    BY <2>1, <2>2, <2>3, <2>4 DEF TaskTypes
<1>5. ~Yielded /\ ~Done
  BY <1>1 DEF Init, Yielded, Done, Terminal
<1>6. Control
  BY <1>1, <1>5 DEF Init, Control, Acting, Stopped, TaskOver, VerdictDue, ExecuteTruth
<1>7. Verdicts = {}
  BY <1>1, <1>2 DEF Verdicts
<1>8. Truth
  BY <1>1, <1>2, <1>7 DEF Truth, Saved, VerdictRecorded, SingleVerdict, ToldRecorded
<1> QED
  BY <1>3, <1>4, <1>6, <1>8, TypeParts DEF IInv

LEMMA StepIInv == IInv /\ [Next]_vars => IInv'
<1> SUFFICES ASSUME IInv, [Next]_vars PROVE IInv'
  OBVIOUS
<1>1. TypeOK /\ Control /\ Truth /\ RecordTypes /\ TaskTypes /\ Stopped
  BY TypeParts DEF IInv, Control
<1>2. CASE ControlStep
  <2>1. RecordTypes'
    BY <1>1, <1>2, LedgerTyped DEF ControlStep
  <2>2. Truth'
    BY <1>1, <1>2, LedgerTruth DEF ControlStep, Control
  <2> QED
    BY <1>2, <2>1, <2>2, TypeParts DEF ControlStep, IInv, TypeOK, RecordTypes, TaskTypes, Record, ClientState
<1>3. CASE Connect \/ Stream \/ Cut
  <2>1. /\ Follows
        /\ UNCHANGED <<run, saved, history, outages, restarts>>
        /\ UNCHANGED <<pc, doomed, command, plan, caller, waiter>>
    BY <1>1, <1>3, ClientFollows
  <2>2. Truth' /\ RecordTypes'
    BY <1>1, <2>1, FollowsTruth
  <2>3. TaskTypes' /\ Control'
    BY <1>1, <2>1, ControlKept
  <2> QED
    BY <2>2, <2>3 DEF IInv, TypeOK, RecordTypes, TaskTypes, Record, ClientState
<1>4. CASE Restart
  <2>1. saved.cancel => saved.status \in {"cancelling", "cancelled"}
    BY <1>1 DEF Truth, Saved
  <2>2. RecordTypes' /\ TaskTypes' /\ Control'
    BY <1>1, <1>4, <2>1, RestartStep
  <2>3. Truth'
    BY <1>1, <1>4, RestartTruth
  <2> QED
    BY <2>2, <2>3 DEF IInv, TypeOK, RecordTypes, TaskTypes, Record, ClientState
<1>5. CASE UNCHANGED vars
  BY <1>5 DEF vars, IInv, TypeOK, Control, Acting, Stopped, TaskOver, VerdictDue, ExecuteTruth,
              Yielded, Done, Undisturbed, Truth, Saved, VerdictRecorded, SingleVerdict,
              ToldRecorded, Verdicts
<1> QED
  BY <1>1, <1>2, <1>3, <1>4, <1>5, Moves

THEOREM Invariant == Spec => []IInv
BY InitIInv, StepIInv, PTL DEF Spec

THEOREM TypeCorrect == Spec => []TypeOK
<1>1. IInv => TypeOK
  BY DEF IInv
<1> QED
  BY <1>1, Invariant, PTL

\* A run whose cancellation was acknowledged ends as cancelled.
THEOREM CancelHolds == Spec => []CancelWins
<1>1. IInv => CancelWins
  BY DEF IInv, Control, Stopped, CancelWins, Done, Terminal
<1> QED
  BY <1>1, Invariant, PTL

\* POST /execute answers with the final status.
THEOREM AnswerIsFinal == Spec => []ExecuteTruth
<1>1. IInv => ExecuteTruth
  BY DEF IInv, Control
<1> QED
  BY <1>1, Invariant, PTL

\* Whatever is refused, cancelled late or restarted: a verdict among the events is
\* the status of the record, in memory and in ClickHouse.
THEOREM VerdictIsRecorded == Spec => []VerdictRecorded
<1>1. IInv => VerdictRecorded
  BY DEF IInv, Truth
<1> QED
  BY <1>1, Invariant, PTL

\* The remaining properties need that a task.cancel() is delivered.
CancelDelivered == "lateCancel" \notin Faults

\* A run is finished once.
THEOREM VerdictIsOne ==
    ASSUME CancelDelivered
    PROVE  Spec => []OneVerdict
<1>1. ASSUME IInv PROVE OneVerdict
  <2>1. \A e, f \in Verdicts : e = f
    BY <1>1 DEF CancelDelivered, IInv, Truth, SingleVerdict
  <2>2. Verdicts = {} \/ \E e : Verdicts = {e}
    BY <2>1
  <2>3. Cardinality(Verdicts) <= 1
    <3> DEFINE V == Verdicts
    <3> HIDE DEF V
    <3>1. V = {} => Cardinality(V) = 0
      BY FS_EmptySet
    <3>2. ASSUME NEW e, V = {e} PROVE Cardinality(V) = 1
      BY <3>2, FS_Singleton
    <3>3. V = {} \/ \E e : V = {e}
      BY <2>2 DEF V
    <3>4. Cardinality(V) = 0 \/ Cardinality(V) = 1
      BY <3>1, <3>2, <3>3
    <3> QED
      BY <3>4 DEF V
  <2>4. \A e \in Verdicts : e.kind = run.status
    BY <1>1 DEF IInv, Truth, VerdictRecorded
  <2> QED
    BY <2>3, <2>4 DEF OneVerdict
<1> QED
  BY <1>1, Invariant, PTL

\* When a run is reported as over its process has exited.
THEOREM ProcessIsGone ==
    ASSUME CancelDelivered
    PROVE  Spec => []NoProcessLeft
<1>1. IInv => NoProcessLeft
  BY DEF CancelDelivered, IInv, Control, Acting, TaskOver, NoProcessLeft
<1> QED
  BY <1>1, Invariant, PTL

\* ... and none is started after that.
THEOREM NoneStarted ==
    ASSUME CancelDelivered
    PROVE  Spec => NotStartedAgain
<1>1. ASSUME IInv, [Next]_vars, Done PROVE starts' = starts
  <2>1. ~Spawned
    BY <1>1 DEF CancelDelivered, IInv, Control, TaskOver, Spawned
  <2>2. Begin \/ Redispatch \/ Rewrite => starts' = starts
    BY DEF Begin, Redispatch, Rewrite, Dispatch
  <2>3. Task => starts' = starts
    BY <2>1, <2>2 DEF Task, Backoff, Timeout, WaitReturns, Drained, Finalize, TaskCancelled, command
  <2>4. Process \/ Create \/ Output \/ ExecuteReturns => starts' = starts
    BY DEF Process, ProcessExits, PipesClose, PumpsEnd, Create, Output, ExecuteReturns, command
  <2>5. \A c \in Caller : Cancel(c) \/ Fallback(c) => starts' = starts
    BY DEF Cancel, Fallback, command
  <2>6. Connect \/ Stream \/ Cut => starts' = starts
    BY <1>1, ClientFollows DEF IInv, command
  <2>7. Restart => starts' = starts
    BY DEF Restart
  <2>8. UNCHANGED vars => starts' = starts
    BY DEF vars
  <2> QED
    BY <1>1, <2>3, <2>4, <2>5, <2>6, <2>7, <2>8 DEF Next
<1>2. IInv /\ [Next]_vars => [Done => starts' = starts]_vars
  BY <1>1
<1> QED
  BY <1>2, Invariant, PTL DEF Spec, NotStartedAgain

-----------------------------------------------------------------------------
(* The stream *)

\* What comes after all that is filed is appended.
LEMMA FiledLast ==
    ASSUME NEW S, NEW h \in Seq(S), NEW e \in S, \A x \in ToSet(h) : x.seq <= e.seq
    PROVE  Filed(h, e) = h \o <<e>>
<1> DEFINE n == Len(h)
           one == <<e>>
<1>1. n \in Nat /\ DOMAIN h = 1 .. n /\ \A k \in DOMAIN h : h[k] \in ToSet(h)
  BY DEF ToSet
<1>2. {k \in DOMAIN h : h[k].seq <= e.seq} = 1 .. n
  BY <1>1
<1>3. UpTo(h, e.seq) = n
  <2> HIDE DEF n
  <2>1. UpTo(h, e.seq) = Cardinality(1 .. n)
    BY <1>2 DEF UpTo
  <2>2. Cardinality(1 .. n) = n
    BY <1>1, FS_Interval
  <2> QED
    BY <2>1, <2>2
<1>4. Filed(h, e) = InsertAt(h, n + 1, e)
  BY <1>3 DEF Filed
<1>5. SubSeq(h, 1, n) = h /\ SubSeq(h, n + 1, n) = <<>>
  <2>1. SubSeq(h, 1, Len(h)) = h
    BY SubSeqFull
  <2>2. SubSeq(h, n + 1, n) = <<>>
    <3> HIDE DEF n
    <3>1. n \in Int /\ n + 1 \in Int /\ n < n + 1
      BY <1>1
    <3> QED
      BY <3>1, SubSeqEmpty
  <2> QED
    BY <2>1, <2>2
<1>6. InsertAt(h, n + 1, e) = SubSeq(h, 1, n) \o <<e>> \o SubSeq(h, n + 1, n)
  BY <1>1, InsertAtCuts
<1>7. one \in Seq(S)
  OBVIOUS
<1> HIDE DEF one, n
<1>8. h \o one \in Seq(S)
  BY <1>7, ConcatProperties
<1>9. (h \o one) \o <<>> = h \o one
  BY <1>8, ConcatEmptySeq
<1> QED
  BY <1>4, <1>5, <1>6, <1>9 DEF one

LEMMA Regroups ==
    ASSUME NEW S, NEW u \in Seq(S), NEW v \in Seq(S), NEW w \in Seq(S),
           NEW uv, uv = u \o v, NEW vw, vw = v \o w
    PROVE  uv \o w = u \o vw
BY ConcatAssociative

\* The events new are in order and come after those of h.
ComeAfter(h, new) ==
    /\ \A x \in ToSet(h), k \in 1 .. Len(new) : x.seq <= new[k].seq
    /\ \A k \in 1 .. Len(new) : \A i \in 1 .. k - 1 : new[i].seq <= new[k].seq

LEMMA FiledAllAppends ==
    ASSUME NEW S, NEW h \in Seq(S), NEW new \in Seq(S), ComeAfter(h, new)
    PROVE  FiledAll(h, new) = h \o new
<1> DEFINE n == Len(new)
           start(k) == SubSeq(new, 1, k)
<1>1. n \in Nat /\ \A k \in 1 .. n : new[k] \in S
  OBVIOUS
<1>2. PICK f : /\ FiledAll(h, new) = f[n] /\ f[0] = h
               /\ \A k \in 1 .. n : f[k] = Filed(f[k - 1], new[k])
  BY <1>1, FiledAllIs
<1> DEFINE Bad == {k \in 0 .. n : f[k] # h \o start(k)}
<1>3. ASSUME Bad # {} PROVE FALSE
  <2>0. Bad \in SUBSET Nat
    BY <1>1
  <2>1. PICK m \in Bad : \A k \in Bad : m <= k
    BY <1>3, <2>0, LeastNatural
  <2>2. m \in 0 .. n /\ f[m] # h \o start(m)
    OBVIOUS
  <2>3. m # 0
    <3>1. start(0) = <<>>
      BY SubSeqEmpty
    <3> HIDE DEF start
    <3> QED
      BY <1>2, <2>2, <3>1, ConcatEmptySeq
  <2>4. m \in 1 .. n /\ m - 1 \in 0 .. n /\ m - 1 \notin Bad
    BY <1>1, <2>1, <2>2, <2>3
  <2> DEFINE before == start(m - 1)
             g == h \o before
             e == new[m]
             one == <<e>>
  <2>5. f[m - 1] = g
    BY <2>4
  <2>6. e \in S /\ f[m] = Filed(f[m - 1], e)
    BY <1>1, <1>2, <2>4
  <2>7. before \in Seq(S) /\ \A x \in ToSet(before) : \E i \in 1 .. m - 1 : x = new[i]
    <3>1. before \in Seq(S) /\ Len(before) = m - 1 /\ \A i \in 1 .. m - 1 : before[i] = new[i]
      BY <1>1, <2>4
    <3> HIDE DEF before
    <3> QED
      BY <3>1 DEF ToSet
  <2>8. start(m) = before \o one
    <3>1. 1 \in 1 .. Len(new) /\ m \in 1 .. Len(new)
      BY <1>1, <2>4
    <3> QED
      BY <3>1, SubSeqRecursiveSecond
  <2>9. one \in Seq(S)
    BY <2>6
  <2> HIDE DEF before, e, one
  <2>10. g \in Seq(S) /\ ToSet(g) = ToSet(h) \cup ToSet(before)
    BY <2>7, ToSetAppends
  <2>11. \A x \in ToSet(g) : x.seq <= e.seq
    BY <2>4, <2>7, <2>10 DEF e, ComeAfter
  <2> HIDE DEF g
  <2>12. Filed(g, e) = g \o one
    BY <2>6, <2>10, <2>11, FiledLast DEF one
  <2> DEFINE upto == start(m)
  <2>13. g = h \o before /\ upto = before \o one
    BY <2>8 DEF g
  <2>14. f[m] # h \o upto
    BY <2>2
  <2> HIDE DEF upto
  <2>15. g \o one = h \o upto
    BY <2>7, <2>9, <2>13, Regroups, SMTT(30)
  <2> QED
    BY <2>5, <2>6, <2>12, <2>14, <2>15
<1>4. f[n] = h \o start(n)
  BY <1>1, <1>3
<1>5. start(n) = new
  BY SubSeqFull
<1> QED
  BY <1>2, <1>4, <1>5

Indexed(s) == \A k \in 1 .. Len(s) : s[k].seq = k
Suffix(q, s) ==
    /\ Len(q) <= Len(s)
    /\ \A k \in 1 .. Len(q) : q[k] = s[Len(s) - Len(q) + k]

\* In an undisturbed run memory and table hold the same events, numbered from one; the
\* client has the first of them, and its queue has the last, which overlap from the
\* moment its backlog is read.
Gapless ==
    Undisturbed =>
        /\ bucket = history /\ Indexed(bucket)
        /\ client.got = 1 .. client.last /\ client.last <= Len(bucket)
        /\ client.pc = "off" => client.queue = <<>>
        /\ Streaming => Suffix(client.queue, bucket)
        /\ client.pc \in {"check", "wait"} => Len(bucket) <= Len(client.queue) + client.last

LEMMA SuffixAppends ==
    ASSUME NEW S, NEW q \in Seq(S), NEW s \in Seq(S), NEW t \in Seq(S), Suffix(q, s)
    PROVE  Suffix(q \o t, s \o t)
<1>1. /\ Len(q) \in Nat /\ Len(s) \in Nat /\ Len(t) \in Nat
      /\ Len(q \o t) = Len(q) + Len(t) /\ Len(s \o t) = Len(s) + Len(t)
  OBVIOUS
<1>2. /\ \A i \in 1 .. Len(q) + Len(t) : (q \o t)[i] = IF i <= Len(q) THEN q[i] ELSE t[i - Len(q)]
      /\ \A i \in 1 .. Len(s) + Len(t) : (s \o t)[i] = IF i <= Len(s) THEN s[i] ELSE t[i - Len(s)]
  BY ConcatProperties
<1>3. /\ Len(q) <= Len(s)
      /\ \A k \in 1 .. Len(q) : q[k] = s[Len(s) - Len(q) + k]
  BY DEF Suffix
<1> DEFINE a == q \o t
           b == s \o t
           d == Len(s) - Len(q)
<1>4. d \in Nat /\ Len(b) - Len(a) = d
  BY <1>1, <1>3
<1>5. ASSUME NEW k \in 1 .. Len(q) + Len(t) PROVE a[k] = b[d + k]
  <2>1. d + k \in 1 .. Len(s) + Len(t)
    BY <1>1, <1>4
  <2>2. CASE k <= Len(q)
    BY <1>1, <1>2, <1>3, <1>4, <2>1, <2>2
  <2>3. CASE k > Len(q)
    <3>1. d + k > Len(s) /\ (d + k) - Len(s) = k - Len(q)
      BY <1>1, <1>4, <2>3
    <3> QED
      BY <1>1, <1>2, <2>1, <2>3, <3>1
  <2>4. k <= Len(q) \/ k > Len(q)
    BY <1>1
  <2> HIDE DEF a, b, d
  <2> QED
    BY <2>2, <2>3, <2>4
<1> QED
  BY <1>1, <1>3, <1>4, <1>5, SMTT(30) DEF Suffix

LEMMA SuffixTail ==
    ASSUME NEW S, NEW q \in Seq(S), NEW s \in Seq(S), Suffix(q, s), q # <<>>
    PROVE  /\ Suffix(Tail(q), s) /\ Len(q) \in Nat \ {0} /\ Len(Tail(q)) = Len(q) - 1
           /\ Len(s) - Len(q) + 1 \in 1 .. Len(s) /\ q[1] = s[Len(s) - Len(q) + 1]
<1>1. /\ Len(q) \in Nat \ {0} /\ Len(s) \in Nat /\ Len(Tail(q)) = Len(q) - 1
      /\ \A k \in 1 .. Len(q) - 1 : Tail(q)[k] = q[k + 1]
  OBVIOUS
<1>2. Len(q) <= Len(s) /\ \A k \in 1 .. Len(q) : q[k] = s[Len(s) - Len(q) + k]
  BY DEF Suffix
<1> DEFINE t == Tail(q)
<1> HIDE DEF t
<1>3. ASSUME NEW k \in 1 .. Len(q) - 1 PROVE t[k] = s[Len(s) - Len(t) + k]
  <2>1. t[k] = q[k + 1] /\ k + 1 \in 1 .. Len(q) /\ Len(t) = Len(q) - 1
    BY <1>1 DEF t
  <2>2. q[k + 1] = s[Len(s) - Len(q) + (k + 1)]
    BY <1>2, <2>1
  <2>3. Len(s) - Len(q) + (k + 1) = Len(s) - Len(t) + k
    BY <1>1, <2>1
  <2> QED
    BY <2>1, <2>2, <2>3
<1>4. Suffix(t, s)
  BY <1>1, <1>2, <1>3 DEF Suffix, t
<1>5. Len(s) - Len(q) + 1 \in 1 .. Len(s) /\ q[1] = s[Len(s) - Len(q) + 1]
  BY <1>1, <1>2
<1> QED
  BY <1>1, <1>4, <1>5 DEF t

\* The events of a write follow those in memory and in the table.
LEMMA NewsFollow ==
    ASSUME bucket \in Seq(Event), Indexed(bucket), NEW kinds \in Seq(Kind)
    PROVE  /\ FiledAll(bucket, News(kinds)) = bucket \o News(kinds)
           /\ Indexed(bucket \o News(kinds))
<1> DEFINE new == News(kinds)
           n == Len(bucket)
<1>1. /\ new \in Seq(Event) /\ Len(new) = Len(kinds)
      /\ \A k \in 1 .. Len(kinds) : new[k] = [seq |-> n + k, kind |-> kinds[k]]
  BY NewsTyped
<1>2. n \in Nat /\ \A k \in 1 .. n : bucket[k].seq = k
  BY DEF Indexed
<1>3. Len(new) \in Nat /\ \A k \in 1 .. Len(new) : new[k].seq = n + k
  <2>1. Len(new) \in Nat
    BY <1>1, LenProperties
  <2>2. \A q, x : [seq |-> q, kind |-> x].seq = q
    OBVIOUS
  <2>3. \A k \in 1 .. Len(kinds) : new[k].seq = n + k
    <3> HIDE DEF new, n
    <3> QED
      BY <1>1, <2>2, ZenonT(40)
  <2> QED
    BY <1>1, <2>1, <2>3
<1>4. \A x \in ToSet(bucket) : \E k \in 1 .. n : x.seq = k
  BY <1>2 DEF ToSet
<1> HIDE DEF new, n
<1>5. \A x \in ToSet(bucket), k \in 1 .. Len(new) : x.seq <= new[k].seq
  BY <1>2, <1>3, <1>4
<1>6. ASSUME NEW k \in 1 .. Len(new), NEW i \in 1 .. k - 1 PROVE new[i].seq <= new[k].seq
  <2>1. k \in Nat /\ i \in Nat /\ i <= k /\ i \in 1 .. Len(new)
    BY <1>3
  <2>2. new[i].seq = n + i /\ new[k].seq = n + k
    BY <1>3, <2>1, Zenon
  <2>3. n + i <= n + k
    BY <1>2, <2>1
  <2> QED
    BY <2>2, <2>3
<1>7. FiledAll(bucket, new) = bucket \o new
  <2>1. ComeAfter(bucket, new)
    BY <1>5, <1>6 DEF ComeAfter
  <2>2. bucket \in Seq(Event) /\ new \in Seq(Event)
    BY <1>1
  <2> QED
    BY <2>1, <2>2, FiledAllAppends
<1>8. /\ Len(bucket \o new) = n + Len(new)
      /\ \A i \in 1 .. n + Len(new) : (bucket \o new)[i] = IF i <= n THEN bucket[i] ELSE new[i - n]
  <2> DEFINE b == bucket
  <2>1. b \in Seq(Event) /\ new \in Seq(Event)
    BY <1>1
  <2> HIDE DEF b
  <2>2. /\ Len(b \o new) = Len(b) + Len(new)
        /\ \A i \in 1 .. Len(b) + Len(new) : (b \o new)[i] = IF i <= Len(b) THEN b[i] ELSE new[i - Len(b)]
    BY <2>1, ConcatProperties
  <2> QED
    BY <2>2 DEF n, b
<1>9. ASSUME NEW i \in 1 .. n + Len(new) PROVE (bucket \o new)[i].seq = i
  <2>1. CASE i <= n
    BY <1>2, <1>8, <2>1
  <2>2. CASE i > n
    <3>1. i - n \in 1 .. Len(new) /\ n + (i - n) = i
      BY <1>2, <1>3, <2>2
    <3>2. (bucket \o new)[i] = new[i - n]
      BY <1>2, <1>8, <2>2
    <3> QED
      BY <1>3, <3>1, <3>2
  <2>3. i <= n \/ i > n
    BY <1>2, <1>3
  <2> QED
    BY <2>1, <2>2, <2>3
<1> QED
  BY <1>7, <1>8, <1>9 DEF Indexed, new

LEMMA WriteGapless ==
    ASSUME RecordTypes, Gapless, NEW rec, NEW kinds \in Seq(Kind), NEW o \in Outcome,
           Writes(rec, kinds, o), restarts' = restarts
    PROVE  Gapless'
<1> SUFFICES ASSUME Undisturbed' PROVE Gapless'
  BY DEF Gapless
<1>1. outages \in Nat /\ o \in {"ok", "record", "event"}
      /\ outages' = (IF o = "ok" THEN outages ELSE outages + 1)
  BY DEF Writes, Outcome, RecordTypes
<1>2. Undisturbed /\ o = "ok"
  BY <1>1 DEF Undisturbed
<1>3. /\ bucket = history /\ Indexed(bucket)
      /\ client.got = 1 .. client.last /\ client.last <= Len(bucket)
      /\ client.pc = "off" => client.queue = <<>>
      /\ Streaming => Suffix(client.queue, bucket)
      /\ client.pc \in {"check", "wait"} => Len(bucket) <= Len(client.queue) + client.last
  BY <1>2 DEF Gapless
<1> DEFINE new == News(kinds)
<1>4. new \in Seq(Event) /\ bucket \in Seq(Event) /\ client \in ClientState
      /\ client.queue \in Seq(Event) /\ client.last \in Nat
  BY NewsTyped, ClientParts DEF RecordTypes
<1>5. /\ bucket' = bucket \o new /\ history' = bucket \o new /\ Indexed(bucket \o new)
      /\ client'.queue = IF Streaming THEN client.queue \o new ELSE client.queue
  BY <1>2, <1>3, <1>4, NewsFollow DEF Writes, Appends
<1>6. /\ client'.pc = client.pc /\ client'.got = client.got /\ client'.last = client.last
  BY <1>4 DEF Writes, ClientState
<1> HIDE DEF new
<1>7. /\ Len(bucket') = Len(bucket) + Len(new) /\ Len(bucket) \in Nat /\ Len(new) \in Nat
      /\ Len(client.queue) \in Nat /\ Len(client.queue \o new) = Len(client.queue) + Len(new)
  BY <1>4, <1>5, ConcatProperties
<1>8. Streaming => Suffix(client'.queue, bucket')
  BY <1>3, <1>4, <1>5, SuffixAppends
<1>9. Streaming' <=> Streaming
  BY <1>6 DEF Streaming
<1>10. client'.pc \in {"check", "wait"} => Len(bucket') <= Len(client'.queue) + client'.last
  BY <1>3, <1>4, <1>5, <1>6, <1>7 DEF Streaming
<1>11. client'.pc = "off" => client'.queue = <<>>
  BY <1>3, <1>5, <1>6 DEF Streaming
<1>12. client'.last <= Len(bucket') /\ client'.got = 1 .. client'.last
  BY <1>3, <1>4, <1>6, <1>7
<1>13. bucket' = history' /\ Indexed(bucket)'
  BY <1>5 DEF Indexed
<1> QED
  BY <1>8, <1>9, <1>10, <1>11, <1>12, <1>13 DEF Gapless

LEMMA LedgerGapless ==
    ASSUME RecordTypes, Gapless, Ledger, restarts' = restarts
    PROVE  Gapless'
<1>1. CASE Rests
  BY <1>1 DEF Rests, records, Gapless, Undisturbed, Indexed, Suffix, Streaming
<1>2. ASSUME NEW o \in Outcome, Notes(o) PROVE Gapless'
  BY <1>2, PlainKinds, WriteGapless DEF Notes
<1>3. ASSUME NEW o \in Outcome, Creates(o) PROVE Gapless'
  BY <1>3, PlainKinds, WriteGapless DEF Creates
<1>4. ASSUME NEW o \in Outcome, Stops(o) PROVE Gapless'
  <2>1. <<"cancel">> \in Seq(Kind)
    BY DEF Kind
  <2> QED
    BY <1>4, <2>1, WriteGapless DEF Stops
<1>5. ASSUME NEW o \in Outcome, NEW status, Judges(status, o) PROVE Gapless'
  BY <1>5, PlainKinds, WriteGapless DEF Judges
<1> QED
  BY <1>1, <1>2, <1>3, <1>4, <1>5 DEF Ledger

\* Of events numbered from one the client is sent those behind its last.
LEMMA FreshIndexed ==
    ASSUME NEW events \in Seq(Event), Indexed(events)
    PROVE  {e.seq : e \in Fresh(events)} = {k \in 1 .. Len(events) : k > client.last}
<1> DEFINE n == Len(events)
           late == {i \in DOMAIN events : /\ events[i].seq > client.last
                                          /\ \A j \in 1 .. i - 1 : events[j].seq < events[i].seq}
<1>1. n \in Nat /\ DOMAIN events = 1 .. n /\ \A k \in 1 .. n : events[k].seq = k
  BY DEF Indexed
<1>2. late = {k \in 1 .. n : k > client.last}
  BY <1>1
<1>3. Fresh(events) = {events[k] : k \in late}
  BY DEF Fresh
<1> HIDE DEF late
<1>4. {e.seq : e \in Fresh(events)} = {events[k].seq : k \in late}
  BY <1>3
<1>5. {events[k].seq : k \in late} = late
  BY <1>1, <1>2
<1> QED
  BY <1>2, <1>4, <1>5

\* A listing leaves the bucket as it is and brings the client to its end.
LEMMA ListedGapless ==
    ASSUME RecordTypes, Gapless, Undisturbed,
           NEW a \in {"read", "check", "wait", "snapshot"},
           NEW b \in {"read", "check", "wait", "snapshot"}, Listed(<<a, b>>)
    PROVE  /\ bucket' = bucket /\ client'.queue = client.queue /\ client'.pc \in {a, b}
           /\ client'.last = Len(bucket) /\ client'.got = 1 .. Len(bucket)
<1> DEFINE n == Len(bucket)
           active == [client EXCEPT !.calm = FALSE]
           loaded == FromHistory(client.last)
           sent == Sent(bucket, active, b)
<1>1. /\ bucket \in Seq(Event) /\ client \in ClientState /\ client.last \in Nat
      /\ active \in ClientState /\ active.last = client.last /\ active.queue = client.queue
      /\ active.got = client.got
  BY ClientParts DEF RecordTypes, ClientState
<1>2. /\ bucket = history /\ Indexed(bucket)
      /\ client.got = 1 .. client.last /\ client.last <= n
  BY DEF Gapless
<1>3. n \in Nat /\ DOMAIN bucket = 1 .. n /\ \A k \in 1 .. n : bucket[k].seq = k
  BY <1>1, <1>2 DEF Indexed
<1>4. IF NothingCached(client.last)
      THEN /\ bucket' = bucket \o loaded
           /\ client' = IF loaded = <<>> THEN [client EXCEPT !.pc = a]
                        ELSE Sent(loaded, active, b)
      ELSE bucket' = bucket /\ client' = sent
  BY DEF Listed
<1>5. NothingCached(client.last) <=> client.last = n
  <2>1. NothingCached(client.last) <=> \A k \in 1 .. n : k <= client.last
    BY <1>3 DEF NothingCached
  <2> HIDE DEF n
  <2> QED
    BY <1>1, <1>2, <1>3, <2>1
<1>6. CASE client.last = n
  <2>1. loaded = <<>>
    <3>1. {k \in DOMAIN history : history[k].seq <= client.last} = 1 .. n
      BY <1>2, <1>3, <1>6
    <3> HIDE DEF n
    <3>2. UpTo(history, client.last) = Cardinality(1 .. n)
      BY <3>1 DEF UpTo
    <3>3. UpTo(history, client.last) = n
      BY <1>3, <3>2, FS_Interval
    <3>4. loaded = SubSeq(bucket, n + 1, n)
      BY <1>2, <3>3 DEF FromHistory, n
    <3>5. n \in Int /\ n + 1 \in Int /\ n < n + 1
      BY <1>3
    <3> QED
      BY <3>4, <3>5, SubSeqEmpty
  <2>2. bucket' = bucket \o <<>> /\ client' = [client EXCEPT !.pc = a]
    BY <1>4, <1>5, <1>6, <2>1
  <2>3. bucket \o <<>> = bucket
    BY <1>1, ConcatEmptySeq
  <2>4. client'.queue = client.queue /\ client'.pc = a /\ client'.last = client.last
        /\ client'.got = client.got
    BY <1>1, <2>2 DEF ClientState
  <2> QED
    BY <1>2, <1>6, <2>2, <2>3, <2>4
<1>7. CASE client.last # n
  <2>1. bucket' = bucket /\ client' = sent
    BY <1>4, <1>5, <1>7
  <2> DEFINE seqs == {e.seq : e \in Fresh(bucket)}
  <2>2. seqs = {k \in 1 .. n : k > client.last}
    BY <1>1, <1>2, FreshIndexed
  <2> HIDE DEF active
  <2>3. /\ sent.pc = b /\ sent.queue = client.queue
        /\ sent.got = client.got \cup seqs
        /\ sent.last \in {client.last} \cup seqs
        /\ \A e \in Fresh(bucket) : e.seq <= sent.last
    BY <1>1, SentIs
  <2> HIDE DEF sent
  <2>4. \A k \in seqs : k <= sent.last
    BY <2>3
  <2> HIDE DEF seqs, n
  <2>5. n \in seqs
    BY <1>1, <1>2, <1>3, <1>7, <2>2
  <2>6. sent.last = n
    BY <1>1, <1>2, <1>3, <2>2, <2>3, <2>4, <2>5
  <2>7. sent.got = 1 .. n
    BY <1>1, <1>2, <1>3, <2>2, <2>3
  <2> QED
    BY <2>1, <2>3, <2>6, <2>7 DEF n
<1> QED
  BY <1>6, <1>7

\* The first of the queue is the next that the client lacks, or it has it.
LEMMA WaitGapless ==
    ASSUME RecordTypes, Gapless, Undisturbed, client.pc = "wait", client.queue # <<>>,
           WaitForEvent
    PROVE  /\ bucket' = bucket /\ client'.pc = "read"
           /\ client'.queue = Tail(client.queue)
           /\ client'.last \in Nat /\ client'.last <= Len(bucket)
           /\ client'.got = 1 .. client'.last
<1> DEFINE n == Len(bucket)
           q == client.queue
           one == SubSeq(q, 1, 1)
           c == [client EXCEPT !.queue = Tail(q)]
           sent == Sent(one, c, "read")
           p == n - Len(q) + 1
<1>1. /\ bucket \in Seq(Event) /\ client \in ClientState /\ client.last \in Nat /\ q \in Seq(Event)
      /\ n \in Nat
  BY ClientParts DEF RecordTypes
<1>2. /\ Indexed(bucket) /\ client.got = 1 .. client.last /\ client.last <= n
      /\ Suffix(q, bucket) /\ n <= Len(q) + client.last
  BY DEF Gapless, Streaming
<1>3. Len(q) \in Nat \ {0} /\ p \in 1 .. n /\ q[1] = bucket[p] /\ Tail(q) \in Seq(Event)
  <2>1. Tail(q) \in Seq(Event)
    BY <1>1
  <2>2. Len(q) \in Nat \ {0} /\ p \in 1 .. n /\ q[1] = bucket[p]
    BY <1>1, <1>2, SuffixTail
  <2> QED
    BY <2>1, <2>2
<1>4. /\ c \in ClientState /\ c.last = client.last /\ c.queue = Tail(q) /\ c.got = client.got
  BY <1>1, <1>3 DEF ClientState
<1>5. bucket' = bucket /\ client' = sent
  BY DEF WaitForEvent
<1>6. /\ one \in Seq(Event) /\ Len(one) = 1 /\ one[1] = q[1]
  <2>1. q \in Seq(Event) /\ Len(q) \in Nat \ {0}
    BY <1>1, <1>3
  <2> HIDE DEF q
  <2>2. \A i \in 1 .. 1 : q[i] \in Event
    BY <2>1
  <2>3. /\ one \in Seq(Event) /\ Len(one) = (IF 1 <= 1 THEN 1 - 1 + 1 ELSE 0)
        /\ \A i \in 1 .. 1 - 1 + 1 : one[i] = q[1 + i - 1]
    BY <2>2, SubSeqProperties
  <2> QED
    BY <2>3
<1>7. q[1].seq = p
  BY <1>2, <1>3 DEF Indexed
<1> DEFINE seqs == {e.seq : e \in Fresh(one)}
<1> HIDE DEF one, c, q
<1>8. seqs = IF p > client.last THEN {p} ELSE {}
  <2>1. DOMAIN one = {1} /\ one[1].seq = p
    BY <1>6, <1>7
  <2> DEFINE late == {i \in DOMAIN one : /\ one[i].seq > client.last
                                         /\ \A j \in 1 .. i - 1 : one[j].seq < one[i].seq}
  <2> HIDE DEF p
  <2>2. late = IF p > client.last THEN {1} ELSE {}
    BY <2>1
  <2>3. Fresh(one) = {one[k] : k \in late}
    BY DEF Fresh
  <2> HIDE DEF late
  <2> QED
    BY <2>1, <2>2, <2>3
<1>9. /\ sent.pc = "read" /\ sent.queue = Tail(q)
      /\ sent.got = client.got \cup seqs
      /\ sent.last \in {client.last} \cup seqs
      /\ \A e \in Fresh(one) : e.seq <= sent.last
  BY <1>4, <1>6, SentIs
<1> HIDE DEF sent
<1>10. \A k \in seqs : k <= sent.last
  BY <1>9
<1> HIDE DEF seqs
<1>11. p \in Nat /\ p <= client.last + 1 /\ p <= n
  BY <1>1, <1>2, <1>3
<1> HIDE DEF p
<1>12. CASE p > client.last
  <2>1. p = client.last + 1 /\ seqs = {p}
    BY <1>1, <1>8, <1>11, <1>12
  <2>2. sent.last = client.last + 1 /\ sent.got = 1 .. client.last + 1
    BY <1>1, <1>2, <1>9, <1>10, <2>1
  <2> QED
    BY <1>1, <1>5, <1>9, <1>11, <2>1, <2>2 DEF q
<1>13. CASE ~(p > client.last)
  BY <1>1, <1>2, <1>5, <1>8, <1>9, <1>13 DEF q
<1> QED
  BY <1>12, <1>13

LEMMA ClientGapless ==
    ASSUME TypeOK, Truth, Gapless, Connect \/ Stream \/ Cut
    PROVE  Gapless'
<1>1. RecordTypes /\ bucket \in Seq(Event) /\ client \in ClientState /\ client.queue \in Seq(Event)
      /\ client.last \in Nat /\ Len(bucket) \in Nat
  BY TypeParts, ClientParts DEF RecordTypes
<1>2. run' = run /\ history' = history /\ outages' = outages /\ restarts' = restarts
  BY ClientFollows
<1> SUFFICES ASSUME Undisturbed PROVE Gapless'
  BY <1>2 DEF Gapless, Undisturbed
<1>3. /\ bucket = history /\ Indexed(bucket)
      /\ client.got = 1 .. client.last /\ client.last <= Len(bucket)
      /\ client.pc = "off" => client.queue = <<>>
      /\ Streaming => Suffix(client.queue, bucket)
      /\ client.pc \in {"check", "wait"} => Len(bucket) <= Len(client.queue) + client.last
  BY DEF Gapless
<1>4. ASSUME bucket' = bucket, client'.got = 1 .. client'.last, client'.last <= Len(bucket),
             client'.pc # "off",
             Streaming' => Suffix(client'.queue, bucket),
             client'.pc \in {"check", "wait"} => Len(bucket) <= Len(client'.queue) + client'.last
      PROVE  Gapless'
  BY <1>2, <1>3, <1>4 DEF Gapless, Indexed, Suffix
<1>5. ASSUME bucket' = bucket, client'.got = client.got, client'.last = client.last,
             client'.queue = client.queue, client'.pc # "off",
             Streaming' => Streaming \/ client.pc = "off",
             client'.pc \in {"check", "wait"} => client.pc \in {"check", "wait"}
      PROVE  Gapless'
  <2>1. Suffix(<<>>, bucket)
    BY <1>1 DEF Suffix
  <2> QED
    BY <1>3, <1>4, <1>5, <2>1
<1>6. CASE Connect
  <2>1. bucket' = bucket /\ client.pc = "off" /\ client' = [client EXCEPT !.pc = "read"]
    BY <1>6 DEF Connect
  <2> QED
    BY <1>1, <1>5, <2>1 DEF ClientState
<1>7. CASE ReadBacklog
  <2>1. Listed(<<"check", "wait">>) /\ client.pc = "read"
    BY <1>7 DEF ReadBacklog
  <2>2. /\ bucket' = bucket /\ client'.queue = client.queue /\ client'.pc \in {"check", "wait"}
        /\ client'.last = Len(bucket) /\ client'.got = 1 .. Len(bucket)
    BY <1>1, <2>1, ListedGapless
  <2>3. Len(client.queue) \in Nat
    BY <1>1
  <2> QED
    BY <1>1, <1>3, <1>4, <2>1, <2>2, <2>3 DEF Streaming
<1>8. CASE CheckEnd
  <2>1. client.pc = "check" /\ bucket' = bucket
        /\ \E p \in {"wait", "ended"}, b \in BOOLEAN :
             client' = [client EXCEPT !.calm = b, !.pc = p] \/ client' = [client EXCEPT !.pc = p]
    BY <1>8 DEF CheckEnd
  <2>2. client'.got = client.got /\ client'.last = client.last /\ client'.queue = client.queue
        /\ client'.pc \in {"wait", "ended"}
    BY <1>1, <2>1 DEF ClientState
  <2> QED
    BY <1>5, <2>1, <2>2 DEF Streaming
<1>9. CASE WaitForEvent /\ client.queue = <<>>
  <2>1. client.pc = "wait" /\ bucket' = bucket /\ client' = [client EXCEPT !.pc = "read"]
    BY <1>9 DEF WaitForEvent
  <2> QED
    BY <1>1, <1>5, <2>1 DEF ClientState, Streaming
<1>10. CASE WaitForEvent /\ client.queue # <<>>
  <2>1. client.pc = "wait"
    BY <1>10 DEF WaitForEvent
  <2>2. /\ bucket' = bucket /\ client'.pc = "read"
        /\ client'.queue = Tail(client.queue)
        /\ client'.last \in Nat /\ client'.last <= Len(bucket)
        /\ client'.got = 1 .. client'.last
    BY <1>1, <1>10, <2>1, WaitGapless
  <2>3. Suffix(Tail(client.queue), bucket)
    BY <1>1, <1>3, <1>10, <2>1, SuffixTail DEF Streaming
  <2> QED
    BY <1>4, <2>2, <2>3
<1>11. CASE Backfill
  <2>1. CASE client.told # "none"
    <3>1. bucket' = bucket /\ client' = [client EXCEPT !.pc = "done"]
      BY <1>11, <2>1 DEF Backfill
    <3>2. client'.got = client.got /\ client'.last = client.last /\ client'.queue = client.queue
          /\ client'.pc = "done"
      BY <1>1, <3>1 DEF ClientState
    <3> QED
      BY <1>5, <3>1, <3>2 DEF Streaming
  <2>2. CASE client.told = "none"
    <3>1. Listed(<<"snapshot", "snapshot">>)
      BY <1>11, <2>2 DEF Backfill
    <3>2. /\ bucket' = bucket /\ client'.queue = client.queue /\ client'.pc = "snapshot"
          /\ client'.last = Len(bucket) /\ client'.got = 1 .. Len(bucket)
      BY <1>1, <3>1, ListedGapless
    <3> QED
      BY <1>1, <1>4, <3>2 DEF Streaming
  <2> QED
    BY <2>1, <2>2
<1>12. CASE Snapshot
  <2> DEFINE told == IF client.told = "none" /\ Done THEN run.status ELSE client.told
  <2>1. bucket' = bucket /\ client' = [client EXCEPT !.pc = "done", !.told = told]
    BY <1>12 DEF Snapshot
  <2> HIDE DEF told
  <2>2. client'.got = client.got /\ client'.last = client.last /\ client'.queue = client.queue
        /\ client'.pc = "done"
    BY <1>1, <2>1 DEF ClientState
  <2> QED
    BY <1>5, <2>1, <2>2 DEF Streaming
<1>13. CASE Cut
  <2>1. bucket' = bucket /\ client' = [client EXCEPT !.pc = "lost", !.queue = <<>>]
    BY <1>13 DEF Cut
  <2>2. client'.got = client.got /\ client'.last = client.last /\ client'.pc = "lost"
    BY <1>1, <2>1 DEF ClientState
  <2> QED
    BY <1>3, <1>4, <2>1, <2>2 DEF Streaming
<1> QED
  BY <1>6, <1>7, <1>8, <1>9, <1>10, <1>11, <1>12, <1>13 DEF Stream

LEMMA InitGapless == Init => Gapless
BY DEF Init, Gapless, Indexed, Suffix, Streaming

LEMMA StepGapless == IInv /\ Gapless /\ [Next]_vars => Gapless'
<1> SUFFICES ASSUME IInv, Gapless, [Next]_vars PROVE Gapless'
  OBVIOUS
<1>1. TypeOK /\ Control /\ Truth /\ RecordTypes
  BY TypeParts DEF IInv
<1>2. CASE Next /\ restarts' = restarts
  <2>1. ~Restart
    <3>1. restarts \in Nat
      BY <1>1 DEF TypeOK
    <3> QED
      BY <1>2, <3>1 DEF Restart
  <2>2. ControlStep => Gapless'
    BY <1>1, <1>2, LedgerGapless DEF ControlStep
  <2> QED
    BY <1>1, <1>2, <2>1, <2>2, Moves, ClientGapless
<1>3. CASE restarts' # restarts
  <2>1. Restart
    <3>1. Begin \/ Redispatch \/ Rewrite => restarts' = restarts
      BY DEF Begin, Redispatch, Rewrite, Dispatch
    <3>2. Task => restarts' = restarts
      BY <3>1 DEF Task, Backoff, Spawned, Timeout, WaitReturns, Drained, Finalize, TaskCancelled
    <3>3. Process \/ Create \/ Output \/ ExecuteReturns => restarts' = restarts
      BY DEF Process, ProcessExits, PipesClose, PumpsEnd, Create, Output, ExecuteReturns
    <3>4. \A c \in Caller : Cancel(c) \/ Fallback(c) => restarts' = restarts
      BY DEF Cancel, Fallback
    <3>5. Connect \/ Stream \/ Cut => restarts' = restarts
      BY <1>1, ClientFollows
    <3>6. UNCHANGED vars => restarts' = restarts
      BY DEF vars
    <3> QED
      BY <1>3, <3>2, <3>3, <3>4, <3>5, <3>6 DEF Next
  <2>2. restarts \in Nat /\ restarts' = restarts + 1
    BY <1>1, <2>1 DEF Restart, TypeOK
  <2> QED
    BY <2>2 DEF Gapless, Undisturbed
<1>4. CASE UNCHANGED vars
  BY <1>4 DEF vars, Gapless, Undisturbed, Indexed, Suffix, Streaming
<1> QED
  BY <1>2, <1>3, <1>4

\* The stream leaves out no event, between its backlog and its queue, while nothing is
\* refused or restarted, and the bridge reports the verdict that the record has.
THEOREM StreamIsGapless == Spec => []StreamGapless
<1>1. IInv /\ Gapless => StreamGapless
  <2>1. IInv => (outages = 0 => client.told \in {"none", run.status})
    BY DEF IInv, Truth, ToldRecorded
  <2>2. Gapless => (Undisturbed => client.got = 1 .. client.last)
    BY DEF Gapless
  <2> QED
    BY <2>1, <2>2 DEF StreamGapless
<1>2. Spec => []Gapless
  BY Invariant, InitGapless, StepGapless, PTL DEF Spec
<1> QED
  BY <1>1, <1>2, Invariant, PTL
=============================================================================
