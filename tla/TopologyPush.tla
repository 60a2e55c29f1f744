---------------------------- MODULE TopologyPush ----------------------------
(***************************************************************************)
(* The topology websocket (topology-service/api/websocket.py): clients     *)
(* subscribe to the topology of some parameters, a poller builds it for    *)
(* every subscription in use and pushes it when enough has changed for     *)
(* long enough.                                                            *)
(*                                                                         *)
(* One asyncio loop: an action is the code between two awaits.  A build    *)
(* (TopologyBuild) may find any nodes.  A reconnecting client is another   *)
(* client.                                                                 *)
(***************************************************************************)
EXTENDS Integers, FiniteSets

CONSTANTS
    Client,         \* bound: connections
    Node,           \* what a build may find
    Key,            \* the subscriptions; _subscription_key tells them apart
    Default,        \* the subscription of a new connection
    PollerBuilds,   \* PollerBuilds[k]: what the poller builds for k
    NewCount,       \* TOPOLOGY_WS_NEW_NODE_BUFFER_COUNT
    RemovalCount,   \* TOPOLOGY_WS_REMOVAL_BUFFER_COUNT
    MinChange,      \* TOPOLOGY_WS_MIN_NODE_CHANGE_FOR_PUSH
    LossySends      \* whether a send to a client that has not closed may fail

ASSUME PushAssumption ==
    /\ Default \in Key /\ "gone" \notin Key /\ "nothing" \notin Key
    /\ PollerBuilds \in [Key -> Key]
    /\ {NewCount, RemovalCount, MinChange} \subseteq Nat \ {0}
    /\ LossySends \in BOOLEAN

VARIABLES
    pc,         \* where the endpoint of a client is
    sub,        \* _subscriptions; "gone": not in it, nor in active_connections
    want,       \* the parameters that the endpoint builds for
    table,      \* the _..._by_key dictionaries
    poll,       \* the poller
    streak      \* history: in how many polls of the key running, up to the last,
                \* the node has been there (at most NewCount - 1 are told apart)

vars == <<pc, sub, want, table, poll, streak>>

Nothing == [of |-> "nothing", nodes |-> {}]
Topology == [of : Key, nodes : SUBSET Node]
Zero == [n \in Node |-> 0]
Blank == [data |-> "nothing", pushed |-> Nothing, fresh |-> Zero, absent |-> Zero]
Asleep == [at |-> "sleep", key |-> Default, groups |-> [k \in Key |-> {}],
           to |-> {}, lost |-> {}]

Init ==
    /\ pc = [c \in Client |-> "new"]
    /\ sub = [c \in Client |-> "gone"]
    /\ want = [c \in Client |-> Default]
    /\ table = [k \in Key |-> Blank]
    /\ poll = Asleep
    /\ streak = [k \in Key |-> Zero]

Active == {c \in Client : sub[c] # "gone"}
Upto(i, n) == IF i < n THEN i ELSE n

-----------------------------------------------------------------------------
(* TopologyConnectionManager *)

\* get_subscription: who is not in the dictionary has the default one.
Subscription(c) == IF sub[c] = "gone" THEN Default ELSE sub[c]

\* A bug to rule out: the counts of new nodes outlive their baseline.
CleanedUpButCounts(t, s) ==
    [k \in Key |-> IF \E c \in Client : s[c] = k THEN t[k]
                   ELSE [Blank EXCEPT !.fresh = t[k].fresh]]

\* _cleanup_stale_topology_cache_keys
CleanedUp(t, s) == [k \in Key |-> IF \E c \in Client : s[c] = k THEN t[k] ELSE Blank]

\* disconnect; the endpoint goes on.
Disconnect(C) ==
    /\ sub' = [c \in Client |-> IF c \in C THEN "gone" ELSE sub[c]]
    /\ table' = CleanedUp(table, sub')

\* reset_push_state, which leaves the counts of absent nodes
ResetPushState(entry) ==
    [entry EXCEPT !.pushed = Nothing, !.fresh = Zero]

\* A bug to rule out: the parameters are read before they are updated.
SubscribeLate(c, k) ==
    /\ sub' = [sub EXCEPT ![c] = IF @ = "gone" THEN @ ELSE k]
    /\ table' = IF sub[c] = "gone" THEN table
                ELSE CleanedUp([table EXCEPT ![k] = IF sub[c] = k THEN @ ELSE ResetPushState(@)],
                               sub')
    /\ want' = [want EXCEPT ![c] = Subscription(c)]

\* update_subscription and get_subscription
UpdateSubscription(c, k) ==
    /\ sub' = [sub EXCEPT ![c] = IF @ = "gone" THEN @ ELSE k]
    /\ table' = IF sub[c] = "gone" THEN table
                ELSE CleanedUp([table EXCEPT ![k] = IF sub[c] = k THEN @ ELSE ResetPushState(@)],
                               sub')
    /\ want' = [want EXCEPT ![c] = Subscription(c)']

\* cache_topology
Cached(entry, topology) == [entry EXCEPT !.data = topology.of, !.pushed = topology]

-----------------------------------------------------------------------------
(* topology_websocket_endpoint *)

Connect(c) ==
    /\ pc[c] = "new"
    /\ sub' = [sub EXCEPT ![c] = Default]
    /\ pc' = [pc EXCEPT ![c] = "greet"]
    /\ UNCHANGED <<want, table, poll, streak>>

\* "connected" is sent; the topology that is known is read, and sent if there is one.
Greet(c) ==
    /\ pc[c] = "greet"
    /\ \/ UNCHANGED <<sub, table>>
       \/ LossySends /\ Disconnect({c})
    /\ pc' = [pc EXCEPT ![c] = IF table'[Subscription(c)'].data = "nothing" THEN "receive"
                               ELSE "reply"]
    /\ UNCHANGED <<want, poll, streak>>

Reply(c) ==
    /\ pc[c] = "reply"
    /\ \/ UNCHANGED <<sub, table>>
       \/ LossySends /\ Disconnect({c})
    /\ pc' = [pc EXCEPT ![c] = "receive"]
    /\ UNCHANGED <<want, poll, streak>>

\* The client subscribes; "subscribed" is sent (see SendFails), then a build starts.
Subscribe(c, k) ==
    /\ pc[c] = "receive"
    /\ UpdateSubscription(c, k)
    /\ pc' = [pc EXCEPT ![c] = "subscribe"]
    /\ UNCHANGED <<poll, streak>>

Get(c) ==
    /\ pc[c] = "receive"
    /\ want' = [want EXCEPT ![c] = Subscription(c)]
    /\ pc' = [pc EXCEPT ![c] = "get"]
    /\ UNCHANGED <<sub, table, poll, streak>>

Built(c) ==
    /\ pc[c] \in {"subscribe", "get"}
    /\ \E nodes \in SUBSET Node :
         table' = [table EXCEPT ![Subscription(c)] = Cached(@, [of |-> want[c], nodes |-> nodes])]
    /\ want' = [want EXCEPT ![c] = Default]
    /\ pc' = [pc EXCEPT ![c] = "reply"]
    /\ UNCHANGED <<sub, poll, streak>>

\* "subscribed", "pong" or "ping" is not taken in time.
SendFails(c) ==
    /\ pc[c] \in {"receive", "subscribe"} /\ LossySends
    /\ Disconnect({c})
    /\ UNCHANGED <<pc, want, poll, streak>>

\* The client closes, or its build fails.
Close(c) ==
    /\ pc[c] \in {"receive", "subscribe", "get"}
    /\ Disconnect({c})
    /\ want' = [want EXCEPT ![c] = Default]
    /\ pc' = [pc EXCEPT ![c] = "closed"]
    /\ UNCHANGED <<poll, streak>>

-----------------------------------------------------------------------------
(* topology_poller *)

PollerWakes ==
    /\ poll.at = "sleep" /\ Active # {}
    /\ poll' = [poll EXCEPT !.at = "group",
                            !.groups = [k \in Key |-> {c \in Client : sub[c] = k}]]
    /\ UNCHANGED <<pc, sub, want, table, streak>>

TakeGroup(k) ==
    /\ poll.at = "group" /\ poll.groups[k] # {}
    /\ poll' = [poll EXCEPT !.at = "build", !.key = k, !.to = poll.groups[k],
                            !.groups[k] = {}]
    /\ UNCHANGED <<pc, sub, want, table, streak>>

\* It is through, or a build has failed and the other groups wait.
PollerSleeps ==
    /\ \/ poll.at = "build"
       \/ poll.at = "group" /\ \A k \in Key : poll.groups[k] = {}
    /\ poll' = Asleep
    /\ UNCHANGED <<pc, sub, want, table, streak>>

\* A bug to rule out: a new node that is away for a poll keeps its count.
ComparedLoosely(entry, nodes) ==
    LET known == entry.pushed.nodes IN
    [entry EXCEPT
        !.fresh = [n \in Node |-> IF n \in nodes \ known THEN Upto(@[n] + 1, NewCount - 1)
                                  ELSE @[n]],
        !.absent = [n \in Node |-> IF n \in known \ nodes THEN Upto(@[n] + 1, RemovalCount - 1)
                                   ELSE 0]]

\* The counts of should_push_topology once a build has been compared; beyond
\* what the next poll confirms they are not told apart.
Compared(entry, nodes) ==
    LET known == entry.pushed.nodes IN
    [entry EXCEPT
        !.fresh = [n \in Node |-> IF n \in nodes \ known THEN Upto(@[n] + 1, NewCount - 1)
                                  ELSE IF n \in nodes THEN @[n] ELSE 0],
        !.absent = [n \in Node |-> IF n \in known \ nodes THEN Upto(@[n] + 1, RemovalCount - 1)
                                   ELSE 0]]

Confirmed(entry) == {n \in Node : entry.fresh[n] + 1 >= NewCount}
ConfirmedGone(entry) == {n \in Node : entry.absent[n] + 1 >= RemovalCount}

Pushes(entry, topology) ==
    /\ table' = [table EXCEPT ![poll.key] = Cached(entry, topology)]
    /\ poll' = [poll EXCEPT !.at = "send"]

NextGroup == poll' = [Asleep EXCEPT !.at = "group", !.groups = poll.groups]

Keeps(entry, topology) ==
    /\ table' = [table EXCEPT ![poll.key] = [entry EXCEPT !.data = topology.of]]
    /\ NextGroup

\* The poll counts: it is compared with the baseline, or becomes it.
Counts(nodes) ==
    streak' = [streak EXCEPT ![poll.key] = [n \in Node |->
        IF n \in nodes THEN Upto(@[n] + 1, NewCount - 1) ELSE 0]]

\* should_push_topology; how long ago the last push was is a free choice.
PollBuilt(nodes) ==
    LET topology == [of |-> PollerBuilds[poll.key], nodes |-> nodes]
        before == table[poll.key]
        known == before.pushed.nodes
        entry == Compared(before, nodes)
        new == (nodes \ known) \cap Confirmed(before)
        gone == (known \ nodes) \cap ConfirmedGone(before)
    IN
    /\ poll.at = "build"
    /\ \/ before.pushed = Nothing /\ Pushes(before, topology) /\ Counts(nodes)
       \/ /\ before.pushed # Nothing          \* too soon
          /\ Keeps(before, topology) /\ UNCHANGED streak
       \/ /\ before.pushed # Nothing
          /\ IF Cardinality(new) + Cardinality(gone) < MinChange
             THEN Keeps(entry, topology)
             ELSE Pushes(entry, [topology EXCEPT !.nodes = nodes \cap (known \cup new)])
          /\ Counts(nodes)
    /\ UNCHANGED <<pc, sub, want>>

\* broadcast_to: the sends of a batch run side by side.
Deliver(c) ==
    /\ poll.at = "send" /\ c \in poll.to
    /\ \/ pc[c] # "closed" /\ poll' = [poll EXCEPT !.to = @ \ {c}]
       \/ /\ LossySends \/ pc[c] = "closed"
          /\ poll' = [poll EXCEPT !.to = @ \ {c}, !.lost = @ \cup {c}]
    /\ UNCHANGED <<pc, sub, want, table, streak>>

SendsDone ==
    /\ poll.at = "send" /\ poll.to = {}
    /\ IF poll.lost = {} THEN UNCHANGED <<sub, table>> ELSE Disconnect(poll.lost)
    /\ NextGroup
    /\ UNCHANGED <<pc, want, streak>>

Endpoint(c) ==
    \/ Connect(c) \/ Greet(c) \/ Reply(c) \/ Get(c) \/ Built(c)
    \/ SendFails(c) \/ Close(c)
    \/ \E k \in Key : Subscribe(c, k)

Poller ==
    \/ PollerWakes \/ PollerSleeps \/ SendsDone
    \/ \E k \in Key : TakeGroup(k)
    \/ \E nodes \in SUBSET Node : PollBuilt(nodes)
    \/ \E c \in Client : Deliver(c)

Next == Poller \/ \E c \in Client : Endpoint(c)

Spec == Init /\ [][Next]_vars

-----------------------------------------------------------------------------
\* Types; a key without a baseline counts no new nodes.
TypeOK ==
    /\ pc \in [Client -> {"new", "greet", "receive", "subscribe", "get", "reply", "closed"}]
    /\ sub \in [Client -> Key \cup {"gone"}]
    /\ want \in [Client -> Key]
    /\ \A k \in Key :
         /\ table[k].data \in Key \cup {"nothing"}
         /\ table[k].pushed \in Topology \cup {Nothing}
         /\ table[k].fresh \in [Node -> 0 .. NewCount - 1]
         /\ table[k].absent \in [Node -> 0 .. RemovalCount - 1]
         /\ table[k].pushed = Nothing => table[k].fresh = Zero
    /\ poll.at \in {"sleep", "group", "build", "send"} /\ poll.key \in Key
    /\ poll.to \cup poll.lost \subseteq Client
    /\ streak \in [Key -> [Node -> 0 .. NewCount - 1]]

\* What is kept, and greets a new client, for a subscription was built with its
\* parameters, whoever changes its own while builds are under way.  The default
\* is excepted once a connection has been dropped: what was being built for it
\* is kept for the default.
Dropped == {c \in Client : pc[c] # "new" /\ sub[c] = "gone"}
CacheIsOfKey ==
    \A k \in Key :
        \/ {table[k].data, table[k].pushed.of} \subseteq {k, "nothing"}
        \/ k = Default /\ Dropped # {}

\* "It must appear N times running to be pushed": what a push adds to the baseline
\* is there in this poll and was in the N - 1 before, though clients move the baseline
\* between them.
Pushed == table[poll.key].pushed.nodes
Compares == poll.at = "build" /\ poll'.at = "send" /\ table[poll.key].pushed # Nothing
NewNodesConfirmed ==
    [][Compares => \A n \in Pushed' \ Pushed :
                       streak[poll.key][n] = NewCount - 1]_vars

\* "It must be away N times running to count as removed": what a push takes from
\* the baseline had been counted so often, with this poll.
RemovalsConfirmed ==
    [][Compares => \A n \in Pushed \ Pushed' :
                       table[poll.key].absent[n] + 1 = RemovalCount]_vars
=============================================================================
