------------------------- MODULE TopologyPushProofs -------------------------
(***************************************************************************)
(* Proofs about TopologyPush, for every number of clients, subscriptions   *)
(* and nodes, every buffer count, and whatever the poller builds.          *)
(*                                                                         *)
(* What a step does to the entry of one subscription comes down to three   *)
(* moves: it is left, blanked or reset; a client keeps there what it has   *)
(* built; the poller compares a build with it.                             *)
(***************************************************************************)
EXTENDS TopologyPush, TLAPS

Entry == [data : Key \cup {"nothing"}, pushed : Topology \cup {Nothing},
          fresh : [Node -> 0 .. NewCount - 1], absent : [Node -> 0 .. RemovalCount - 1]]
Stages == {"new", "greet", "receive", "subscribe", "get", "reply", "closed"}
PollState == [at : {"sleep", "group", "build", "send"}, key : Key,
              groups : [Key -> SUBSET Client], to : SUBSET Client, lost : SUBSET Client]
Building == {"subscribe", "get"}

\* The types in full: TypeOK leaves out what the poller has put aside.
ClientTypes ==
    /\ pc \in [Client -> Stages]
    /\ sub \in [Client -> Key \cup {"gone"}]
    /\ want \in [Client -> Key]
TableTypes ==
    /\ table \in [Key -> Entry]
    /\ streak \in [Key -> [Node -> 0 .. NewCount - 1]]
Types == ClientTypes /\ TableTypes /\ poll \in PollState

\* Who builds and has not been dropped builds for what it has subscribed to: both
\* are set between two awaits.
WantIsSub ==
    \A c \in Client : pc[c] \in Building /\ sub[c] # "gone" => want[c] = sub[c]

\* What is kept for k comes from a client of k or from the poller, whatever the
\* poller builds for k.
CacheFrom(k) ==
    \/ {table[k].data, table[k].pushed.of} \subseteq {k, PollerBuilds[k], "nothing"}
    \/ k = Default /\ Dropped # {}

\* A new node is counted in no more polls than it was there for, running; without
\* a baseline none is counted.
Trails(k) ==
    /\ \A n \in Node : table[k].fresh[n] <= streak[k][n]
    /\ table[k].pushed = Nothing => table[k].fresh = Zero

IInv == Types /\ WantIsSub /\ \A k \in Key : CacheFrom(k) /\ Trails(k)

-----------------------------------------------------------------------------
(* The entries of the table *)

LEMMA CountsAreNat == NewCount - 1 \in Nat /\ RemovalCount - 1 \in Nat
BY PushAssumption

LEMMA BlankTyped == Blank \in Entry /\ Zero \in [Node -> 0 .. NewCount - 1]
<1>1. Zero \in [Node -> 0 .. NewCount - 1] /\ Zero \in [Node -> 0 .. RemovalCount - 1]
  BY CountsAreNat DEF Zero
<1> QED
  BY <1>1 DEF Blank, Entry

LEMMA ResetTyped ==
    ASSUME NEW entry \in Entry
    PROVE  ResetPushState(entry) \in Entry
BY BlankTyped DEF Entry, ResetPushState

LEMMA CachedTyped ==
    ASSUME NEW entry \in Entry, NEW topology \in Topology
    PROVE  Cached(entry, topology) \in Entry
BY DEF Entry, Cached, Topology

LEMMA ComparedTyped ==
    ASSUME NEW entry \in Entry, NEW nodes \in SUBSET Node
    PROVE  Compared(entry, nodes) \in Entry
<1> DEFINE fresh == [n \in Node |-> IF n \in nodes \ entry.pushed.nodes
                                    THEN Upto(entry.fresh[n] + 1, NewCount - 1)
                                    ELSE IF n \in nodes THEN entry.fresh[n] ELSE 0]
           absent == [n \in Node |-> IF n \in entry.pushed.nodes \ nodes
                                     THEN Upto(entry.absent[n] + 1, RemovalCount - 1) ELSE 0]
<1>1. entry.fresh \in [Node -> 0 .. NewCount - 1] /\ entry.absent \in [Node -> 0 .. RemovalCount - 1]
  BY DEF Entry
<1>2. Compared(entry, nodes) = [entry EXCEPT !.fresh = fresh, !.absent = absent]
  BY DEF Compared
<1>3. fresh \in [Node -> 0 .. NewCount - 1]
  <2> SUFFICES ASSUME NEW n \in Node PROVE fresh[n] \in 0 .. NewCount - 1
    OBVIOUS
  <2>1. entry.fresh[n] \in 0 .. NewCount - 1
    BY <1>1
  <2>2. Upto(entry.fresh[n] + 1, NewCount - 1) \in 0 .. NewCount - 1 /\ 0 \in 0 .. NewCount - 1
    BY <2>1, CountsAreNat DEF Upto
  <2> QED
    BY <2>1, <2>2
<1>4. absent \in [Node -> 0 .. RemovalCount - 1]
  <2> SUFFICES ASSUME NEW n \in Node PROVE absent[n] \in 0 .. RemovalCount - 1
    OBVIOUS
  <2>1. entry.absent[n] \in 0 .. RemovalCount - 1
    BY <1>1
  <2>2. /\ Upto(entry.absent[n] + 1, RemovalCount - 1) \in 0 .. RemovalCount - 1
        /\ 0 \in 0 .. RemovalCount - 1
    BY <2>1, CountsAreNat DEF Upto
  <2> QED
    BY <2>2
<1> HIDE DEF fresh, absent
<1>5. [entry EXCEPT !.fresh = fresh, !.absent = absent] \in Entry
  BY <1>3, <1>4 DEF Entry
<1> QED
  BY <1>2, <1>5

LEMMA ComparedFields ==
    ASSUME NEW entry \in Entry, NEW nodes
    PROVE  /\ Compared(entry, nodes).data = entry.data
           /\ Compared(entry, nodes).pushed = entry.pushed
           /\ \A n \in Node : Compared(entry, nodes).fresh[n] =
                IF n \in nodes \ entry.pushed.nodes THEN Upto(entry.fresh[n] + 1, NewCount - 1)
                ELSE IF n \in nodes THEN entry.fresh[n] ELSE 0
<1> DEFINE fresh == [n \in Node |-> IF n \in nodes \ entry.pushed.nodes
                                    THEN Upto(entry.fresh[n] + 1, NewCount - 1)
                                    ELSE IF n \in nodes THEN entry.fresh[n] ELSE 0]
           absent == [n \in Node |-> IF n \in entry.pushed.nodes \ nodes
                                     THEN Upto(entry.absent[n] + 1, RemovalCount - 1) ELSE 0]
<1>1. Compared(entry, nodes) = [entry EXCEPT !.fresh = fresh, !.absent = absent]
  BY DEF Compared
<1> HIDE DEF absent
<1>2. /\ Compared(entry, nodes).data = entry.data
      /\ Compared(entry, nodes).pushed = entry.pushed
      /\ Compared(entry, nodes).fresh = fresh
  <2> HIDE DEF fresh
  <2> QED
    BY <1>1 DEF Entry
<1> QED
  BY <1>2

LEMMA CleanedUpIs ==
    ASSUME NEW t, NEW s, NEW k \in Key
    PROVE  /\ CleanedUp(t, s)[k] \in {t[k], Blank}
           /\ DOMAIN CleanedUp(t, s) = Key
BY DEF CleanedUp

-----------------------------------------------------------------------------
(* The moves of a step *)

\* Clients may be dropped, and entries that nobody subscribes to are blank.
Drops ==
    /\ sub' \in [Client -> Key \cup {"gone"}]
    /\ \A c \in Client : sub'[c] \in {sub[c], "gone"}
    /\ table' = [k \in Key |-> table'[k]]
    /\ \A k \in Key : table'[k] \in {table[k], Blank}

\* The entry of k is left, blanked or reset.
Left(k) ==
    /\ table'[k] \in {table[k], Blank, ResetPushState(table[k])}
    /\ streak'[k] = streak[k]

\* A client keeps what it has built for k: who is not subscribed any more has the
\* default.
ClientKeeps(k) ==
    /\ \E c \in Client, nodes \in SUBSET Node :
         /\ pc[c] \in Building /\ pc'[c] = "reply" /\ sub' = sub
         /\ k = Subscription(c)
         /\ table'[k] = Cached(table[k], [of |-> want[c], nodes |-> nodes])
    /\ streak'[k] = streak[k]

PollCounts(k) == poll.key = k /\ \E nodes \in SUBSET Node : PollBuilt(nodes)

EntryMoves(k) == Left(k) \/ ClientKeeps(k) \/ PollCounts(k)

\* A dropped client stays so; what a client builds for is what it has subscribed
\* to, or it builds already.
ClientMoves(c) ==
    /\ pc[c] # "new" /\ sub[c] = "gone" => pc'[c] # "new" /\ sub'[c] = "gone"
    /\ pc'[c] \in Building =>
         \/ want'[c] = Subscription(c)'
         \/ pc[c] \in Building /\ want'[c] = want[c] /\ sub'[c] \in {sub[c], "gone"}

Moves ==
    /\ ClientTypes' /\ poll' \in PollState
    /\ table' = [k \in Key |-> table'[k]] /\ streak' = [k \in Key |-> streak'[k]]
    /\ \A k \in Key : EntryMoves(k)
    /\ \A c \in Client : ClientMoves(c)

LEMMA DropsWhen ==
    ASSUME Types, NEW C, UNCHANGED <<sub, table>> \/ Disconnect(C)
    PROVE  Drops
<1>1. CASE UNCHANGED <<sub, table>>
  BY <1>1 DEF Drops, Types, ClientTypes, TableTypes
<1>2. CASE Disconnect(C)
  <2>1. sub' = [c \in Client |-> IF c \in C THEN "gone" ELSE sub[c]] /\ table' = CleanedUp(table, sub')
    BY <1>2 DEF Disconnect
  <2>2. sub' \in [Client -> Key \cup {"gone"}] /\ \A c \in Client : sub'[c] \in {sub[c], "gone"}
    BY <2>1 DEF Types, ClientTypes
  <2>3. table' = [k \in Key |-> table'[k]]
    BY <2>1 DEF CleanedUp
  <2>4. \A k \in Key : table'[k] \in {table[k], Blank}
    BY <2>1, CleanedUpIs
  <2> QED
    BY <2>2, <2>3, <2>4 DEF Drops
<1> QED
  BY <1>1, <1>2

\* The steps of a client that touch no entry but by dropping it
LEMMA EndpointDrops ==
    ASSUME Types, NEW c \in Client,
           Greet(c) \/ Reply(c) \/ SendFails(c) \/ Close(c)
    PROVE  Moves
<1>1. Drops
  BY DropsWhen DEF Greet, Reply, SendFails, Close
<1>2. UNCHANGED <<poll, streak>>
  BY DEF Greet, Reply, SendFails, Close
<1>3. /\ pc' \in [Client -> Stages] /\ want' \in [Client -> Key]
      /\ \A d \in Client : /\ pc'[d] \in Building => pc[d] \in Building /\ want'[d] = want[d]
                           /\ pc[d] # "new" => pc'[d] # "new"
  <2> USE DEF Types, ClientTypes, Stages, Building
  <2>1. CASE Greet(c)
    BY <2>1 DEF Greet
  <2>2. CASE Reply(c)
    BY <2>2 DEF Reply
  <2>3. CASE SendFails(c)
    BY <2>3 DEF SendFails
  <2>4. CASE Close(c)
    BY <2>4, PushAssumption DEF Close
  <2> QED
    BY <2>1, <2>2, <2>3, <2>4
<1>4. \A k \in Key : EntryMoves(k)
  BY <1>1, <1>2 DEF Drops, EntryMoves, Left
<1>5. \A d \in Client : ClientMoves(d)
  BY <1>1, <1>3 DEF Drops, ClientMoves
<1>6. poll' \in PollState /\ streak' = [k \in Key |-> streak'[k]]
  BY <1>2 DEF Types, TableTypes
<1> QED
  BY <1>1, <1>3, <1>4, <1>5, <1>6 DEF Moves, Drops, ClientTypes

LEMMA EndpointKeepsTable ==
    ASSUME Types, NEW c \in Client, Connect(c) \/ Get(c)
    PROVE  Moves
<1>1. UNCHANGED <<table, poll, streak>>
  BY DEF Connect, Get
<1>2. ClientTypes' /\ \A d \in Client : ClientMoves(d)
  <2> USE DEF Types, ClientTypes, Stages, Building, ClientMoves
  <2>1. CASE Connect(c)
    BY <2>1, PushAssumption DEF Connect
  <2>2. CASE Get(c)
    BY <2>2, PushAssumption DEF Get, Subscription
  <2> QED
    BY <2>1, <2>2
<1>3. \A k \in Key : EntryMoves(k)
  BY <1>1 DEF EntryMoves, Left
<1> QED
  BY <1>1, <1>2, <1>3 DEF Moves, Types, TableTypes

LEMMA SubscribeMoves ==
    ASSUME Types, NEW c \in Client, NEW k \in Key, Subscribe(c, k)
    PROVE  Moves
<1>1. /\ sub' = [sub EXCEPT ![c] = IF @ = "gone" THEN @ ELSE k]
      /\ want' = [want EXCEPT ![c] = Subscription(c)']
      /\ pc' = [pc EXCEPT ![c] = "subscribe"] /\ pc[c] = "receive"
      /\ UNCHANGED <<poll, streak>>
  BY DEF Subscribe, UpdateSubscription
<1>2. sub' \in [Client -> Key \cup {"gone"}] /\ pc' \in [Client -> Stages]
  BY <1>1 DEF Types, ClientTypes, Stages
<1>3. Subscription(c)' \in Key
  BY <1>2, PushAssumption DEF Subscription
<1>4. ClientTypes' /\ \A d \in Client : ClientMoves(d)
  <2>1. want' \in [Client -> Key]
    BY <1>1, <1>3 DEF Types, ClientTypes
  <2>2. ASSUME NEW d \in Client PROVE ClientMoves(d)
    <3>1. CASE d = c
      BY <3>1, <1>1, <1>3 DEF ClientMoves, Types, ClientTypes
    <3>2. CASE d # c
      BY <3>2, <1>1, <1>2 DEF ClientMoves, Types, ClientTypes
    <3> QED
      BY <3>1, <3>2
  <2> QED
    BY <1>2, <2>1, <2>2 DEF ClientTypes
<1>5. table' = [x \in Key |-> table'[x]] /\ \A x \in Key : Left(x)
  <2>1. CASE sub[c] = "gone"
    BY <1>1, <2>1 DEF Subscribe, UpdateSubscription, Left, Types, TableTypes
  <2>2. CASE sub[c] # "gone"
    <3> DEFINE t == [table EXCEPT ![k] = IF sub[c] = k THEN @ ELSE ResetPushState(@)]
    <3>1. table' = CleanedUp(t, sub')
      BY <2>2 DEF Subscribe, UpdateSubscription
    <3>2. \A x \in Key : t[x] \in {table[x], ResetPushState(table[x])}
      BY DEF Types, TableTypes
    <3> HIDE DEF t
    <3>3. \A x \in Key : table'[x] \in {t[x], Blank}
      BY <3>1, CleanedUpIs
    <3>4. table' = [x \in Key |-> table'[x]]
      BY <3>1 DEF CleanedUp
    <3> QED
      BY <1>1, <3>2, <3>3, <3>4 DEF Left
  <2> QED
    BY <2>1, <2>2
<1>6. poll' \in PollState /\ streak' = [x \in Key |-> streak'[x]]
  BY <1>1 DEF Types, TableTypes
<1> QED
  BY <1>4, <1>5, <1>6 DEF Moves, EntryMoves

LEMMA BuiltMoves ==
    ASSUME Types, NEW c \in Client, Built(c)
    PROVE  Moves
<1>1. PICK nodes \in SUBSET Node :
        table' = [table EXCEPT ![Subscription(c)] = Cached(@, [of |-> want[c], nodes |-> nodes])]
  BY DEF Built
<1>2. /\ pc[c] \in Building /\ want' = [want EXCEPT ![c] = Default]
      /\ pc' = [pc EXCEPT ![c] = "reply"]
      /\ sub' = sub /\ poll' = poll /\ streak' = streak
  BY DEF Built, Building
<1>3. table' = [x \in Key |-> table'[x]]
  BY <1>1 DEF Types, TableTypes
<1>4. ClientTypes' /\ \A d \in Client : ClientMoves(d)
  BY <1>2, PushAssumption DEF Types, ClientTypes, Stages, Building, ClientMoves
<1>5. ASSUME NEW k \in Key PROVE EntryMoves(k)
  <2>1. CASE k = Subscription(c)
    <3>1. table'[k] = Cached(table[k], [of |-> want[c], nodes |-> nodes])
      BY <1>1, <2>1 DEF Types, TableTypes
    <3>2. pc'[c] = "reply"
      BY <1>2 DEF Types, ClientTypes
    <3> QED
      BY <1>2, <2>1, <3>1, <3>2 DEF EntryMoves, ClientKeeps
  <2>2. CASE k # Subscription(c)
    BY <1>1, <1>2, <2>2 DEF EntryMoves, Left, Types, TableTypes
  <2> QED
    BY <2>1, <2>2
<1> QED
  BY <1>2, <1>3, <1>4, <1>5 DEF Moves, Types, TableTypes

\* The steps of the poller that touch no entry but by dropping clients
LEMMA AsleepTyped == Asleep \in PollState
BY PushAssumption DEF Asleep, PollState

LEMMA PollerDrops ==
    ASSUME Types,
           \/ PollerWakes \/ PollerSleeps \/ SendsDone
           \/ \E k \in Key : TakeGroup(k)
           \/ \E c \in Client : Deliver(c)
    PROVE  Moves
<1>1. /\ pc' = pc /\ want' = want /\ streak' = streak
      /\ UNCHANGED <<sub, table>> \/ Disconnect(poll.lost)
  BY DEF PollerWakes, PollerSleeps, SendsDone, TakeGroup, Deliver
<1>2. Drops
  BY <1>1, DropsWhen
<1>3. poll' \in PollState
  <2> USE DEF Types, PollState
  <2>1. CASE PollerWakes
    BY <2>1 DEF PollerWakes
  <2>2. CASE PollerSleeps
    BY <2>2, AsleepTyped DEF PollerSleeps
  <2>3. CASE SendsDone
    BY <2>3, AsleepTyped DEF SendsDone, NextGroup
  <2>4. ASSUME NEW k \in Key, TakeGroup(k) PROVE poll' \in PollState
    BY <2>4 DEF TakeGroup
  <2>5. ASSUME NEW c \in Client, Deliver(c) PROVE poll' \in PollState
    <3>1. /\ poll.to \ {c} \in SUBSET Client
          /\ poll.lost \cup {c} \in SUBSET Client
      OBVIOUS
    <3>2. \/ poll' = [poll EXCEPT !.to = poll.to \ {c}]
          \/ poll' = [poll EXCEPT !.to = poll.to \ {c}, !.lost = poll.lost \cup {c}]
      BY <2>5 DEF Deliver
    <3> QED
      BY <3>1, <3>2
  <2> QED
    BY <2>1, <2>2, <2>3, <2>4, <2>5
<1>4. ClientTypes' /\ \A c \in Client : ClientMoves(c)
  BY <1>1, <1>2 DEF Drops, ClientMoves, Types, ClientTypes
<1>5. \A k \in Key : EntryMoves(k)
  BY <1>1, <1>2 DEF Drops, EntryMoves, Left
<1> QED
  BY <1>1, <1>2, <1>3, <1>4, <1>5 DEF Moves, Drops, Types, TableTypes

LEMMA PollBuiltMoves ==
    ASSUME Types, NEW nodes \in SUBSET Node, PollBuilt(nodes)
    PROVE  Moves
<1>1. pc' = pc /\ want' = want /\ sub' = sub
  BY DEF PollBuilt
<1>2. \E entry : table' = [table EXCEPT ![poll.key] = entry]
  BY DEF PollBuilt, Pushes, Keeps
<1>3. streak' = streak \/ \E count : streak' = [streak EXCEPT ![poll.key] = count]
  BY DEF PollBuilt, Counts
<1>4. poll' \in PollState
  <2>1. poll' = [poll EXCEPT !.at = "send"] \/ poll' = [Asleep EXCEPT !.at = "group", !.groups = poll.groups]
    BY DEF PollBuilt, Pushes, Keeps, NextGroup
  <2> QED
    BY <2>1, AsleepTyped DEF Types, PollState
<1>5. ClientTypes' /\ \A c \in Client : ClientMoves(c)
  BY <1>1 DEF ClientMoves, Types, ClientTypes
<1>6. table' = [k \in Key |-> table'[k]] /\ streak' = [k \in Key |-> streak'[k]]
  BY <1>2, <1>3 DEF Types, TableTypes
<1>7. ASSUME NEW k \in Key PROVE EntryMoves(k)
  <2>1. CASE k = poll.key
    BY <2>1 DEF EntryMoves, PollCounts
  <2>2. CASE k # poll.key
    BY <1>2, <1>3, <2>2 DEF EntryMoves, Left, Types, TableTypes
  <2> QED
    BY <2>1, <2>2
<1> QED
  BY <1>4, <1>5, <1>6, <1>7 DEF Moves

\* Every step is one of the moves to each entry and to each client.
LEMMA NextMoves == Types /\ [Next]_vars => Moves
<1> SUFFICES ASSUME Types, [Next]_vars PROVE Moves
  OBVIOUS
<1>1. CASE Poller
  BY <1>1, PollerDrops, PollBuiltMoves DEF Poller
<1>2. ASSUME NEW c \in Client, Endpoint(c) PROVE Moves
  BY <1>2, EndpointDrops, EndpointKeepsTable, SubscribeMoves, BuiltMoves DEF Endpoint
<1>3. CASE UNCHANGED vars
  <2>1. pc' = pc /\ sub' = sub /\ want' = want /\ table' = table /\ poll' = poll /\ streak' = streak
    BY <1>3 DEF vars
  <2> QED
    BY <2>1 DEF Moves, EntryMoves, Left, ClientMoves, Types, ClientTypes, TableTypes
<1> QED
  BY <1>1, <1>2, <1>3 DEF Next

-----------------------------------------------------------------------------
(* What the poller makes of an entry *)

\* The entry and the streak after a poll: the baseline is made, the poll is too soon,
\* not enough has changed, or the baseline is moved.
Counted(k, nodes) ==
    streak'[k] = [n \in Node |-> IF n \in nodes THEN Upto(streak[k][n] + 1, NewCount - 1) ELSE 0]
PollLeaves(k, nodes, topology) ==
    \/ /\ table[k].pushed = Nothing /\ Counted(k, nodes)
       /\ table'[k] = Cached(table[k], topology)
    \/ /\ table[k].pushed # Nothing /\ streak'[k] = streak[k]
       /\ table'[k] = [table[k] EXCEPT !.data = topology.of]
    \/ /\ table[k].pushed # Nothing /\ Counted(k, nodes)
       /\ table'[k] = [Compared(table[k], nodes) EXCEPT !.data = topology.of]
    \/ /\ table[k].pushed # Nothing /\ Counted(k, nodes)
       /\ table'[k] = Cached(Compared(table[k], nodes), topology)

LEMMA PollResults ==
    ASSUME Types, NEW nodes \in SUBSET Node, PollBuilt(nodes), NEW k \in Key, k = poll.key
    PROVE  \E some \in SUBSET Node :
             PollLeaves(k, nodes, [of |-> PollerBuilds[k], nodes |-> some])
<1> DEFINE before == table[k]
           known == before.pushed.nodes
           of == PollerBuilds[k]
           new == (nodes \ known) \cap Confirmed(before)
           kept == nodes \cap (known \cup new)
           topology == [of |-> of, nodes |-> nodes]
<1>1. Counts(nodes) => Counted(k, nodes)
  BY DEF Counts, Counted, Types, TableTypes
<1>2. ASSUME NEW e, NEW t, Pushes(e, t) PROVE table'[k] = Cached(e, t)
  BY <1>2 DEF Pushes, Types, TableTypes
<1>3. ASSUME NEW e, Keeps(e, topology) PROVE table'[k] = [e EXCEPT !.data = of]
  BY <1>3 DEF Keeps, Types, TableTypes
<1>4. CASE before.pushed = Nothing /\ Pushes(before, topology) /\ Counts(nodes)
  BY <1>1, <1>2, <1>4 DEF PollLeaves
<1>5. CASE before.pushed # Nothing /\ Keeps(before, topology) /\ UNCHANGED streak
  BY <1>3, <1>5 DEF PollLeaves
<1>6. CASE before.pushed # Nothing /\ Counts(nodes) /\ Keeps(Compared(before, nodes), topology)
  BY <1>1, <1>3, <1>6 DEF PollLeaves
<1>7. CASE before.pushed # Nothing /\ Counts(nodes)
            /\ Pushes(Compared(before, nodes), [topology EXCEPT !.nodes = kept])
  <2>1. [topology EXCEPT !.nodes = kept] = [of |-> of, nodes |-> kept] /\ kept \in SUBSET Node
    OBVIOUS
  <2> QED
    BY <1>1, <1>2, <1>7, <2>1 DEF PollLeaves
<1> QED
  BY <1>4, <1>5, <1>6, <1>7 DEF PollBuilt

LEMMA PolledTrails ==
    ASSUME Types, NEW nodes \in SUBSET Node, PollBuilt(nodes),
           NEW k \in Key, k = poll.key, Trails(k)
    PROVE  /\ table'[k] \in Entry
           /\ streak'[k] \in [Node -> 0 .. NewCount - 1]
           /\ Trails(k)'
<1> DEFINE before == table[k]
           s == streak[k]
           e == Compared(before, nodes)
<1>1. /\ before \in Entry /\ s \in [Node -> 0 .. NewCount - 1]
      /\ before.fresh \in [Node -> 0 .. NewCount - 1]
      /\ \A n \in Node : before.fresh[n] <= s[n]
      /\ PollerBuilds[k] \in Key
  BY PushAssumption DEF Types, TableTypes, Entry, Trails
<1>2. \A n \in Node : before.fresh[n] \in 0 .. NewCount - 1 /\ s[n] \in 0 .. NewCount - 1
  BY <1>1
<1>3. Counted(k, nodes) => streak'[k] \in [Node -> 0 .. NewCount - 1]
  <2>1. \A n \in Node : Upto(s[n] + 1, NewCount - 1) \in 0 .. NewCount - 1
    BY <1>2, CountsAreNat DEF Upto
  <2> QED
    BY <2>1, CountsAreNat DEF Counted
<1>4. PICK some \in SUBSET Node :
        PollLeaves(k, nodes, [of |-> PollerBuilds[k], nodes |-> some])
  BY PollResults
<1> DEFINE topology == [of |-> PollerBuilds[k], nodes |-> some]
<1>5. topology \in Topology /\ topology # Nothing /\ topology.of \in Key
  BY <1>1, PushAssumption DEF Topology, Nothing
<1>6. e \in Entry /\ e.pushed = before.pushed
  BY <1>1, ComparedTyped, ComparedFields
<1>7. Counted(k, nodes) => \A n \in Node : e.fresh[n] <= streak'[k][n]
  <2> SUFFICES ASSUME Counted(k, nodes), NEW n \in Node PROVE e.fresh[n] <= streak'[k][n]
    OBVIOUS
  <2>1. e.fresh[n] = IF n \in nodes \ before.pushed.nodes THEN Upto(before.fresh[n] + 1, NewCount - 1)
                     ELSE IF n \in nodes THEN before.fresh[n] ELSE 0
    BY <1>1, ComparedFields
  <2>2. streak'[k][n] = IF n \in nodes THEN Upto(s[n] + 1, NewCount - 1) ELSE 0
    BY DEF Counted
  <2>3. before.fresh[n] \in 0 .. NewCount - 1 /\ s[n] \in 0 .. NewCount - 1 /\ before.fresh[n] <= s[n]
    BY <1>1, <1>2
  <2> HIDE DEF e, s, before
  <2> QED
    BY <2>1, <2>2, <2>3, CountsAreNat DEF Upto
<1>8. e.fresh \in [Node -> 0 .. NewCount - 1]
  BY <1>6 DEF Entry
<1>9. before.pushed = Nothing => \A n \in Node : before.fresh[n] = 0
  BY <1>1 DEF Trails, Zero
<1> HIDE DEF e, topology
<1> SUFFICES /\ table'[k] \in Entry /\ streak'[k] \in [Node -> 0 .. NewCount - 1]
             /\ \A n \in Node : table'[k].fresh[n] <= streak'[k][n]
             /\ table'[k].pushed # Nothing
  BY DEF Trails
<1>10. CASE before.pushed = Nothing /\ Counted(k, nodes) /\ table'[k] = Cached(before, topology)
  <2>1. table'[k].fresh = before.fresh /\ table'[k].pushed # Nothing
    BY <1>1, <1>5, <1>10 DEF Cached, Entry
  <2>2. \A n \in Node : streak'[k][n] \in 0 .. NewCount - 1
    BY <1>3, <1>10
  <2>3. \A n \in Node : before.fresh[n] <= streak'[k][n]
    BY <1>9, <1>10, <2>2
  <2> QED
    BY <1>1, <1>3, <1>5, <1>10, <2>1, <2>3, CachedTyped
<1>11. CASE /\ before.pushed # Nothing /\ streak'[k] = streak[k]
            /\ table'[k] = [before EXCEPT !.data = topology.of]
  BY <1>1, <1>5, <1>11 DEF Entry
<1>12. CASE /\ before.pushed # Nothing /\ Counted(k, nodes)
            /\ table'[k] = [e EXCEPT !.data = topology.of]
  BY <1>3, <1>5, <1>6, <1>7, <1>12 DEF Entry
<1>13. CASE before.pushed # Nothing /\ Counted(k, nodes) /\ table'[k] = Cached(e, topology)
  <2>1. table'[k].fresh = e.fresh /\ table'[k].pushed # Nothing
    BY <1>5, <1>6, <1>13 DEF Cached, Entry
  <2> QED
    BY <1>3, <1>5, <1>6, <1>7, <1>13, <2>1, CachedTyped
<1> QED
  BY <1>4, <1>10, <1>11, <1>12, <1>13 DEF e, topology, PollLeaves

-----------------------------------------------------------------------------
(* The invariant *)

LEMMA EntryStep ==
    ASSUME IInv, Moves, NEW k \in Key
    PROVE  /\ table'[k] \in Entry
           /\ streak'[k] \in [Node -> 0 .. NewCount - 1]
           /\ Trails(k)'
<1>1. /\ table[k] \in Entry /\ streak[k] \in [Node -> 0 .. NewCount - 1] /\ Types
      /\ Trails(k)
  BY DEF IInv, Types, TableTypes
<1>2. \A n \in Node : streak[k][n] \in Nat
  BY <1>1, CountsAreNat
<1>3. CASE Left(k)
  <2>1. /\ Blank.fresh = Zero /\ ResetPushState(table[k]).fresh = Zero
        /\ \A n \in Node : Zero[n] = 0
    BY <1>1 DEF Blank, ResetPushState, Entry, Zero
  <2>2. table'[k] \in Entry
    BY <1>1, <1>3, BlankTyped, ResetTyped DEF Left
  <2>3. table'[k] = table[k] \/ table'[k].fresh = Zero
    BY <1>3, <2>1 DEF Left
  <2>4. /\ \A n \in Node : table'[k].fresh[n] <= streak'[k][n]
        /\ table'[k].pushed = Nothing => table'[k].fresh = Zero
    BY <1>1, <1>2, <1>3, <2>1, <2>3 DEF Left, Trails
  <2> QED
    BY <1>1, <1>3, <2>2, <2>4 DEF Left, Trails
<1>4. CASE ClientKeeps(k)
  <2>1. PICK c \in Client, nodes \in SUBSET Node :
          table'[k] = Cached(table[k], [of |-> want[c], nodes |-> nodes])
    BY <1>4 DEF ClientKeeps
  <2> DEFINE topology == [of |-> want[c], nodes |-> nodes]
  <2>2. topology \in Topology /\ topology # Nothing
    BY <1>1, PushAssumption DEF Topology, Types, ClientTypes, Nothing
  <2>3. Cached(table[k], topology) \in Entry
    BY <1>1, <2>2, CachedTyped
  <2> HIDE DEF topology
  <2>4. /\ Cached(table[k], topology).fresh = table[k].fresh
        /\ Cached(table[k], topology).pushed = topology
    BY <1>1 DEF Cached, Entry
  <2>5. streak'[k] = streak[k] /\ table'[k] = Cached(table[k], topology)
    BY <1>4, <2>1 DEF ClientKeeps, topology
  <2> QED
    BY <1>1, <2>2, <2>3, <2>4, <2>5 DEF Trails
<1>5. CASE PollCounts(k)
  BY <1>1, <1>5, PolledTrails DEF PollCounts
<1> QED
  BY <1>3, <1>4, <1>5 DEF Moves, EntryMoves

\* Once a client has been dropped there is always one.
LEMMA DroppedStay ==
    ASSUME Types, Moves, Dropped # {}
    PROVE  Dropped' # {}
<1>1. PICK c \in Client : pc[c] # "new" /\ sub[c] = "gone"
  BY DEF Dropped
<1>2. pc'[c] # "new" /\ sub'[c] = "gone"
  BY <1>1 DEF Moves, ClientMoves
<1> QED
  BY <1>2 DEF Dropped

LEMMA CacheStep ==
    ASSUME IInv, Moves, NEW k \in Key
    PROVE  CacheFrom(k)'
<1>1. table[k] \in Entry /\ Types /\ CacheFrom(k) /\ WantIsSub
  BY DEF IInv, Types, TableTypes
<1> DEFINE mine == {k, PollerBuilds[k], "nothing"}
<1> SUFFICES ASSUME ~(k = Default /\ Dropped' # {})
             PROVE  {table'[k].data, table'[k].pushed.of} \subseteq mine
  BY DEF CacheFrom
<1>2. {table[k].data, table[k].pushed.of} \subseteq mine
  BY <1>1, DroppedStay DEF CacheFrom
<1>3. CASE Left(k)
  <2>1. /\ Blank.data = "nothing" /\ Blank.pushed.of = "nothing"
        /\ ResetPushState(table[k]).data = table[k].data
        /\ ResetPushState(table[k]).pushed.of = "nothing"
    BY <1>1 DEF Blank, ResetPushState, Entry, Nothing
  <2> QED
    BY <1>2, <1>3, <2>1 DEF Left
<1>4. CASE ClientKeeps(k)
  <2>1. PICK c \in Client, nodes \in SUBSET Node :
          /\ pc[c] \in Building /\ pc'[c] = "reply" /\ sub' = sub /\ k = Subscription(c)
          /\ table'[k] = Cached(table[k], [of |-> want[c], nodes |-> nodes])
    BY <1>4 DEF ClientKeeps
  <2>2. sub[c] # "gone"
    BY <2>1 DEF Subscription, Dropped
  <2>3. want[c] = k
    BY <1>1, <2>1, <2>2 DEF WantIsSub, Subscription
  <2> DEFINE topology == [of |-> want[c], nodes |-> nodes]
  <2>4. topology.of = k
    BY <2>3
  <2> HIDE DEF topology
  <2>5. table'[k].data = topology.of /\ table'[k].pushed = topology
    BY <1>1, <2>1 DEF Cached, Entry, topology
  <2> QED
    BY <2>4, <2>5
<1>5. CASE PollCounts(k)
  <2>1. PICK nodes \in SUBSET Node : PollBuilt(nodes) /\ k = poll.key
    BY <1>5 DEF PollCounts
  <2>2. PICK some \in SUBSET Node :
          PollLeaves(k, nodes, [of |-> PollerBuilds[k], nodes |-> some])
    BY <1>1, <2>1, PollResults
  <2> DEFINE topology == [of |-> PollerBuilds[k], nodes |-> some]
             e == Compared(table[k], nodes)
  <2>3. topology.of = PollerBuilds[k]
    OBVIOUS
  <2>4. e \in Entry /\ e.pushed = table[k].pushed
    BY <1>1, ComparedTyped, ComparedFields
  <2> HIDE DEF topology, e
  <2>5. /\ table'[k].data = topology.of
        /\ table'[k].pushed = topology \/ table'[k].pushed = table[k].pushed
    BY <1>1, <2>2, <2>4 DEF PollLeaves, Cached, Entry, topology, e
  <2> QED
    BY <1>2, <2>3, <2>5
<1> QED
  BY <1>3, <1>4, <1>5 DEF Moves, EntryMoves

LEMMA WantStep ==
    ASSUME IInv, Moves
    PROVE  WantIsSub'
<1> SUFFICES ASSUME NEW c \in Client, pc'[c] \in Building, sub'[c] # "gone"
             PROVE  want'[c] = sub'[c]
  BY DEF WantIsSub
<1>1. CASE want'[c] = Subscription(c)'
  BY <1>1 DEF Subscription
<1>2. CASE pc[c] \in Building /\ want'[c] = want[c] /\ sub'[c] \in {sub[c], "gone"}
  BY <1>2 DEF IInv, WantIsSub
<1> QED
  BY <1>1, <1>2 DEF Moves, ClientMoves

LEMMA InvInit == Init => IInv
<1> SUFFICES ASSUME Init PROVE IInv
  OBVIOUS
<1>1. Types
  BY BlankTyped, AsleepTyped, PushAssumption DEF Init, Types, ClientTypes, TableTypes, Stages
<1>2. WantIsSub
  BY DEF Init, WantIsSub
<1>3. ASSUME NEW k \in Key PROVE CacheFrom(k) /\ Trails(k)
  <2>1. /\ table[k] = Blank /\ streak[k] = Zero
        /\ Blank.data = "nothing" /\ Blank.pushed.of = "nothing" /\ Blank.fresh = Zero
        /\ \A n \in Node : Zero[n] = 0
    BY DEF Init, Blank, Nothing, Zero
  <2> QED
    BY <2>1 DEF CacheFrom, Trails
<1> QED
  BY <1>1, <1>2, <1>3 DEF IInv

LEMMA InvStep == IInv /\ [Next]_vars => IInv'
<1> SUFFICES ASSUME IInv, [Next]_vars PROVE IInv'
  OBVIOUS
<1>1. Moves
  BY NextMoves DEF IInv
<1>2. Types'
  <2>1. /\ \A k \in Key : table'[k] \in Entry /\ streak'[k] \in [Node -> 0 .. NewCount - 1]
        /\ table' = [k \in Key |-> table'[k]] /\ streak' = [k \in Key |-> streak'[k]]
    BY <1>1, EntryStep DEF Moves
  <2>2. table' \in [Key -> Entry]
    BY <2>1
  <2>3. streak' \in [Key -> [Node -> 0 .. NewCount - 1]]
    BY <2>1
  <2> QED
    BY <1>1, <2>2, <2>3 DEF Types, TableTypes, Moves
<1> QED
  BY <1>1, <1>2, EntryStep, CacheStep, WantStep DEF IInv

THEOREM Invariant == Spec => []IInv
BY InvInit, InvStep, PTL DEF Spec

\* The variables have their types, and a key without a baseline counts no new nodes,
\* whoever connects, subscribes, is dropped or closes during builds and sends.
THEOREM TypeCorrect == Spec => []TypeOK
<1>1. IInv => TypeOK
  <2> SUFFICES ASSUME IInv PROVE TypeOK
    OBVIOUS
  <2>1. ClientTypes /\ TableTypes /\ poll \in PollState /\ \A k \in Key : Trails(k)
    BY DEF IInv, Types
  <2>2. \A k \in Key : table[k] \in Entry
    BY <2>1 DEF TableTypes
  <2>3. \A k \in Key : /\ table[k].data \in Key \cup {"nothing"}
                       /\ table[k].pushed \in Topology \cup {Nothing}
                       /\ table[k].fresh \in [Node -> 0 .. NewCount - 1]
                       /\ table[k].absent \in [Node -> 0 .. RemovalCount - 1]
                       /\ table[k].pushed = Nothing => table[k].fresh = Zero
    BY <2>1, <2>2 DEF Entry, Trails
  <2>4. /\ poll.at \in {"sleep", "group", "build", "send"} /\ poll.key \in Key
        /\ poll.to \cup poll.lost \subseteq Client
    BY <2>1 DEF PollState
  <2> QED
    BY <2>1, <2>3, <2>4 DEF TypeOK, ClientTypes, TableTypes, Stages
<1> QED
  BY <1>1, Invariant, PTL

\* Whatever the poller builds for a subscription: what is kept for it was built by
\* the poller for it or by a client with its parameters; but for the default, once a
\* connection has been dropped.
THEOREM CacheIsOfKeyOrPoller == Spec => [](\A k \in Key : CacheFrom(k))
<1>1. IInv => \A k \in Key : CacheFrom(k)
  BY DEF IInv
<1> QED
  BY <1>1, Invariant, PTL

\* Where the poller builds what the subscription says, what is kept for it was built
\* with its parameters, whoever changes its own while builds are under way.
PollerAsAsked == \A k \in Key : PollerBuilds[k] = k

THEOREM CacheOfKey ==
    ASSUME PollerAsAsked
    PROVE  Spec => []CacheIsOfKey
<1>1. IInv => CacheIsOfKey
  BY DEF PollerAsAsked, IInv, CacheFrom, CacheIsOfKey
<1> QED
  BY <1>1, Invariant, PTL

-----------------------------------------------------------------------------
(* The push *)

LEMMA WithNodes ==
    ASSUME NEW of, NEW nodes, NEW other
    PROVE  [[of |-> of, nodes |-> nodes] EXCEPT !.nodes = other] = [of |-> of, nodes |-> other]
OBVIOUS

\* Only a poll that has built goes on to send.
LEMMA ComparesBuilt ==
    ASSUME Types, [Next]_vars, Compares
    PROVE  \E nodes \in SUBSET Node : PollBuilt(nodes)
<1>1. poll.at = "build" /\ poll'.at = "send" /\ poll \in PollState
  BY DEF Compares, Types
<1>2. ~UNCHANGED vars
  BY <1>1 DEF vars
<1>3. ASSUME NEW c \in Client PROVE ~Endpoint(c)
  <2>1. Endpoint(c) => poll' = poll
    BY DEF Endpoint, Connect, Greet, Reply, Get, Built, SendFails, Close, Subscribe
  <2> QED
    BY <1>1, <2>1
<1>4. ~PollerWakes /\ ~SendsDone /\ ~PollerSleeps
  BY <1>1 DEF PollerWakes, SendsDone, PollerSleeps, Asleep
<1>5. \A k \in Key : ~TakeGroup(k)
  BY <1>1 DEF TakeGroup
<1>6. \A c \in Client : ~Deliver(c)
  BY <1>1 DEF Deliver
<1> QED
  BY <1>2, <1>3, <1>4, <1>5, <1>6 DEF Next, Poller

\* What a push adds to a baseline had its count, and was there as often.
LEMMA PushAdds ==
    ASSUME IInv, [Next]_vars, Compares, NEW n \in Pushed' \ Pushed
    PROVE  streak[poll.key][n] = NewCount - 1
<1> DEFINE k == poll.key
           before == table[k]
           known == before.pushed.nodes
<1>1. /\ Types /\ poll \in PollState /\ k \in Key /\ Trails(k)
      /\ before \in Entry /\ streak[k] \in [Node -> 0 .. NewCount - 1]
  BY DEF IInv, Types, TableTypes, PollState
<1>2. PICK nodes \in SUBSET Node : PollBuilt(nodes)
  BY <1>1, ComparesBuilt
<1> DEFINE entry == Compared(before, nodes)
           new == (nodes \ known) \cap Confirmed(before)
           kept == nodes \cap (known \cup new)
           topology == [of |-> PollerBuilds[k], nodes |-> nodes]
<1>3. ~NextGroup /\ before.pushed # Nothing
  BY DEF NextGroup, Compares, Asleep
<1>4. Pushes(entry, [topology EXCEPT !.nodes = kept])
  BY <1>2, <1>3 DEF PollBuilt, Keeps
<1>5. [topology EXCEPT !.nodes = kept] = [of |-> PollerBuilds[k], nodes |-> kept]
  BY WithNodes
<1>6. poll'.key = k
  BY <1>1, <1>4 DEF Pushes, PollState
<1>7. table'[k] = Cached(entry, [of |-> PollerBuilds[k], nodes |-> kept])
  BY <1>1, <1>4, <1>5 DEF Pushes, Types, TableTypes
<1>8. entry \in Entry
  BY <1>1, ComparedTyped
<1>9. Pushed' = kept
  <2> DEFINE t == [of |-> PollerBuilds[k], nodes |-> kept]
  <2>1. t.nodes = kept
    OBVIOUS
  <2> HIDE DEF t, entry, kept
  <2>2. table'[k].pushed = t
    BY <1>7, <1>8 DEF Cached, Entry, t
  <2> QED
    BY <1>6, <2>1, <2>2 DEF Pushed
<1>10. n \in Node /\ before.fresh[n] + 1 >= NewCount
  BY <1>9 DEF Pushed, Confirmed
<1>11. /\ before.fresh[n] \in 0 .. NewCount - 1 /\ streak[k][n] \in 0 .. NewCount - 1
       /\ before.fresh[n] <= streak[k][n]
  BY <1>1, <1>10 DEF Entry, Trails
<1> HIDE DEF before
<1> QED
  BY <1>10, <1>11, CountsAreNat, PushAssumption

\* "It must appear N times running to be pushed": what a push adds to the baseline is
\* there in this poll and was in the N - 1 before, whatever the clients of the
\* subscription push, reset or blank between them.
THEOREM NewNodesAreConfirmed == Spec => NewNodesConfirmed
<1>1. IInv /\ [Next]_vars =>
        [Compares => \A n \in Pushed' \ Pushed : streak[poll.key][n] = NewCount - 1]_vars
  BY PushAdds
<1> QED
  BY <1>1, Invariant, PTL DEF Spec, NewNodesConfirmed
=============================================================================
