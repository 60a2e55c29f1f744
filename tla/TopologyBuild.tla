--------------------------- MODULE TopologyBuild ---------------------------
(***************************************************************************)
(* The coordinator of topology builds                                      *)
(* (topology_build_coordinator.py, topology_build_subprocess.py): requests *)
(* with the same key share the build of the first, the leader, which runs  *)
(* in a subprocess for which it needs a slot, or in the service.           *)
(*                                                                         *)
(* The service is one asyncio loop: an action is the code between two      *)
(* awaits that suspend.  Its locks are never held over one, so they do not *)
(* suspend anybody; a build in the service blocks the loop.                *)
(***************************************************************************)
EXTENDS Naturals, FiniteSets

CONSTANTS
    Request,    \* bound: calls of build_hybrid_topology_coalesced
    Param,      \* what a request may ask for, which names its graph
    KeyOf,      \* KeyOf[p]: what _build_request_key keeps of p
    Isolated,   \* _process_isolation_active
    Fallback,   \* _PROCESS_FALLBACK_LOCAL_ON_ERROR
    MaxProcs,   \* _PROCESS_MAX_CONCURRENCY
    MaxQueue    \* _PROCESS_MAX_QUEUE_SIZE

Key == {KeyOf[p] : p \in Param}
Failure == {"error", "cancelled"}

ASSUME BuildAssumption ==
    /\ IsFiniteSet(Request) /\ "nobody" \notin Request
    /\ KeyOf = [p \in Param |-> KeyOf[p]]
    /\ Param \cap (Failure \cup {"none", "pending"}) = {}
    /\ Isolated \in BOOLEAN /\ Fallback \in BOOLEAN
    /\ MaxProcs \in Nat \ {0} /\ MaxQueue \in Nat \ {0}

VARIABLES
    pc,         \* where the call is
    asks,       \* asks[r]: what it asks for
    leader,     \* leader[r]: the call whose future it shares
    future,     \* future[r]: the future that r has made as a leader
    inflight,   \* inflight[k]: the leader whose future the table holds
    free,       \* the value of the semaphore
    alive,      \* the leaders whose subprocess runs
    answer      \* answer[r]: how the call has ended

vars == <<pc, asks, leader, future, inflight, free, alive, answer>>

Init ==
    /\ pc = [r \in Request |-> "idle"]
    /\ asks \in [Request -> Param]
    /\ leader = [r \in Request |-> "nobody"]
    /\ future = [r \in Request |-> "none"]
    /\ inflight = [k \in Key |-> "nobody"]
    /\ free = MaxProcs /\ alive = {}
    /\ answer = [r \in Request |-> "none"]

Leads(r) == pc[r] \in {"yield", "acquire", "run", "kill"}
KeyOfCall(r) == KeyOf[asks[r]]
Holders == {r \in Request : pc[r] \in {"run", "kill"}}
Waiters == {r \in Request : pc[r] = "acquire"}

-----------------------------------------------------------------------------
\* The call looks into the table: it leads, and yields once, or follows.
Ask(r) ==
    /\ pc[r] = "idle"
    /\ IF inflight[KeyOfCall(r)] = "nobody"
       THEN /\ inflight' = [inflight EXCEPT ![KeyOfCall(r)] = r]
            /\ future' = [future EXCEPT ![r] = "pending"]
            /\ leader' = [leader EXCEPT ![r] = r]
            /\ pc' = [pc EXCEPT ![r] = "yield"]
       ELSE /\ leader' = [leader EXCEPT ![r] = inflight[KeyOfCall(r)]]
            /\ pc' = [pc EXCEPT ![r] = "follow"]
            /\ UNCHANGED <<inflight, future>>
    /\ UNCHANGED <<asks, free, alive, answer>>

\* A bug to rule out: a build that fails keeps its place in the table.
SettleInPlace(r, outcome) ==
    /\ future' = [future EXCEPT ![r] = outcome]
    /\ inflight' = IF outcome \in Failure \/ inflight[KeyOfCall(r)] # r THEN inflight
                   ELSE [inflight EXCEPT ![KeyOfCall(r)] = "nobody"]
    /\ pc' = [pc EXCEPT ![r] = "done"]
    /\ answer' = [answer EXCEPT ![r] = outcome]
    /\ UNCHANGED <<asks, leader>>

\* A bug to rule out: a leader that fails leaves its future to its followers.
SettleAlone(r, outcome) ==
    /\ future' = IF outcome = "cancelled" THEN future
                 ELSE [future EXCEPT ![r] = outcome]
    /\ inflight' = [inflight EXCEPT ![KeyOfCall(r)] = IF @ = r THEN "nobody" ELSE @]
    /\ pc' = [pc EXCEPT ![r] = "done"]
    /\ answer' = [answer EXCEPT ![r] = outcome]
    /\ UNCHANGED <<asks, leader>>

\* The leader ends; its future takes the outcome and leaves the table.
Settle(r, outcome) ==
    /\ future' = [future EXCEPT ![r] = outcome]
    /\ inflight' = [inflight EXCEPT ![KeyOfCall(r)] = IF @ = r THEN "nobody" ELSE @]
    /\ pc' = [pc EXCEPT ![r] = "done"]
    /\ answer' = [answer EXCEPT ![r] = outcome]
    /\ UNCHANGED <<asks, leader>>

\* The graph is built in the service.
BuildHere(r) == \E outcome \in {asks[r], "error"} : Settle(r, outcome)

\* There is no subprocess, or it has failed.
Fails(r) == IF Fallback THEN BuildHere(r) ELSE Settle(r, "error")

\* _build_topology_with_isolation up to the semaphore
Begin(r) ==
    /\ pc[r] = "yield"
    /\ IF ~Isolated THEN BuildHere(r)
       ELSE IF Cardinality(Waiters) >= MaxQueue THEN Fails(r)
       ELSE /\ pc' = [pc EXCEPT ![r] = "acquire"]
            /\ UNCHANGED <<asks, leader, future, inflight, answer>>
    /\ UNCHANGED <<free, alive>>

Acquire(r) ==
    /\ pc[r] = "acquire" /\ free > 0
    /\ free' = free - 1
    /\ alive' = alive \cup {r}
    /\ pc' = [pc EXCEPT ![r] = "run"]
    /\ UNCHANGED <<asks, leader, future, inflight, answer>>

AcquireTimeout(r) ==
    /\ pc[r] = "acquire"
    /\ Fails(r)
    /\ UNCHANGED <<free, alive>>

\* The subprocess answers, with a graph or an error.
Returns(r) ==
    /\ pc[r] = "run"
    /\ alive' = alive \ {r} /\ free' = free + 1
    /\ Settle(r, asks[r]) \/ Fails(r)

\* It takes too long, is killed and waited for.
BuildTimeout(r) ==
    /\ pc[r] = "run"
    /\ pc' = [pc EXCEPT ![r] = "kill"]
    /\ UNCHANGED <<asks, leader, future, inflight, free, alive, answer>>

\* A bug to rule out: the slot is released when the process is killed, and in the
\* finally clause once more.
KilledTwice(r) ==
    /\ pc[r] = "kill"
    /\ alive' = alive \ {r} /\ free' = free + 2
    /\ Fails(r)
Killed(r) ==
    /\ pc[r] = "kill"
    /\ alive' = alive \ {r} /\ free' = free + 1
    /\ Fails(r)

\* A bug to rule out: the slot is released after a build only.
ReleasedSlot(r) == free

\* The slot that a leader holds is released in a finally clause.
Released(r) == IF r \in Holders THEN free + 1 ELSE free

\* The task of the call is cancelled.  Nobody kills the subprocess, but one
\* that is still being created does not come to life.
Cancel(r) ==
    /\ \/ Leads(r) /\ Settle(r, "cancelled")
       \/ /\ pc[r] = "follow"
          /\ pc' = [pc EXCEPT ![r] = "done"]
          /\ answer' = [answer EXCEPT ![r] = "cancelled"]
          /\ UNCHANGED <<asks, leader, future, inflight>>
    /\ free' = Released(r)
    /\ alive' \in {alive, alive \ {r}}

OrphanEnds(r) ==
    /\ pc[r] = "done" /\ r \in alive
    /\ alive' = alive \ {r}
    /\ UNCHANGED <<pc, asks, leader, future, inflight, free, answer>>

\* A bug to rule out: a follower takes the entry of the table for its future.
FollowTable(r) ==
    /\ pc[r] = "follow" /\ future[leader[r]] # "pending"
    /\ \E s \in Request :
         /\ future[s] \notin {"none", "pending"}
         /\ answer' = [answer EXCEPT ![r] = future[s]]
    /\ pc' = [pc EXCEPT ![r] = "done"]
    /\ UNCHANGED <<asks, leader, future, inflight, free, alive>>

\* A follower gets what the leader got, be it the cancellation.
Follow(r) ==
    /\ pc[r] = "follow" /\ future[leader[r]] # "pending"
    /\ answer' = [answer EXCEPT ![r] = future[leader[r]]]
    /\ pc' = [pc EXCEPT ![r] = "done"]
    /\ UNCHANGED <<asks, leader, future, inflight, free, alive>>

Step(r) ==
    \/ Begin(r) \/ Acquire(r) \/ AcquireTimeout(r) \/ Returns(r)
    \/ BuildTimeout(r) \/ Killed(r) \/ Follow(r)

Next == \E r \in Request : Ask(r) \/ Step(r) \/ Cancel(r) \/ OrphanEnds(r)

Spec == Init /\ [][Next]_vars

\* The loop runs what can run, timeouts pass, and a killed process ends.
FairSpec == Spec /\ \A r \in Request : WF_vars(Step(r))

-----------------------------------------------------------------------------
\* Types; a call that leads has a future of its own, and only it has a subprocess.
TypeOK ==
    /\ pc \in [Request -> {"idle", "yield", "acquire", "run", "kill", "follow", "done"}]
    /\ asks \in [Request -> Param]
    /\ leader \in [Request -> Request \cup {"nobody"}]
    /\ future \in [Request -> Param \cup Failure \cup {"none", "pending"}]
    /\ inflight \in [Key -> Request \cup {"nobody"}]
    /\ free \in 0 .. MaxProcs /\ alive \subseteq Request
    /\ answer \in [Request -> Param \cup Failure \cup {"none"}]
    /\ Holders \subseteq alive

\* Through timeouts, failures and cancellations no slot is lost or released
\* twice: the leaders that are not through hold what is not free.
SlotsKept == free + Cardinality(Holders) = MaxProcs

\* The table holds exactly the futures of the leaders under way.  So a key has
\* one build at a time, and no request is answered with a build that had ended
\* (or failed) before the request came.
TableExact ==
    \A k \in Key, r \in Request :
        inflight[k] = r <=> Leads(r) /\ KeyOfCall(r) = k

\* A request gets the graph of its own parameters or a failure.
AnsweredAsAsked ==
    \A r \in Request : answer[r] \in {asks[r], "none"} \cup Failure

\* No request hangs, whatever becomes of its leader.
EventuallyAnswered ==
    \A r \in Request : pc[r] # "idle" ~> answer[r] # "none"

-----------------------------------------------------------------------------
(* The inductive invariant behind SlotsKept, TableExact and AnsweredAsAsked. *)

\* A future is pending exactly while its call leads, and holds the graph that its
\* call has asked for, or a failure; a call that follows shares the future of a
\* leader with its key.
CallInv ==
    \A r \in Request :
        /\ pc[r] = "idle" => future[r] = "none" /\ answer[r] = "none"
        /\ future[r] = "pending" <=> Leads(r)
        /\ future[r] \in {asks[r], "none", "pending"} \cup Failure
        /\ pc[r] = "follow" =>
               /\ leader[r] \in Request /\ future[leader[r]] # "none"
               /\ KeyOfCall(leader[r]) = KeyOfCall(r)
               /\ answer[r] = "none"

BuildInv == TypeOK /\ SlotsKept /\ TableExact /\ CallInv

\* Requests that share a key ask for the same graph.
KeyTellsGraph == \A p, q \in Param : KeyOf[p] = KeyOf[q] => p = q
=============================================================================
