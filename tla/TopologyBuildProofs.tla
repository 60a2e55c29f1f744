------------------------ MODULE TopologyBuildProofs ------------------------
(***************************************************************************)
(* Proofs about TopologyBuild, for every number of requests, graphs and    *)
(* slots, with and without subprocesses.                                   *)
(*                                                                         *)
(* The ways through _build_topology_with_isolation come down to a few      *)
(* moves: a leader ends with an outcome, queues for a slot, takes one,     *)
(* runs out of time; a follower is answered or cancelled.                  *)
(***************************************************************************)
EXTENDS TopologyBuild, FiniteSetTheorems, TLAPS

EndsAs(r, outcome) ==
    /\ Leads(r) /\ outcome \in {asks[r]} \cup Failure
    /\ Settle(r, outcome)
    /\ free' = Released(r)
    /\ alive' \in {alive, alive \ {r}}

Queues(r) ==
    /\ pc[r] = "yield"
    /\ pc' = [pc EXCEPT ![r] = "acquire"]
    /\ asks' = asks /\ leader' = leader /\ future' = future /\ inflight' = inflight
    /\ answer' = answer /\ free' = free /\ alive' = alive

GivenUp(r) ==
    /\ pc[r] = "follow"
    /\ pc' = [pc EXCEPT ![r] = "done"]
    /\ answer' = [answer EXCEPT ![r] = "cancelled"]
    /\ asks' = asks /\ leader' = leader /\ future' = future /\ inflight' = inflight
    /\ free' = free /\ alive' \in {alive, alive \ {r}}

LEMMA FailsEnds ==
    ASSUME NEW r, Fails(r)
    PROVE  \E outcome \in {asks[r]} \cup Failure : Settle(r, outcome)
BY DEF Fails, BuildHere, Failure

LEMMA BeginMoves ==
    ASSUME NEW r \in Request, Begin(r)
    PROVE  Queues(r) \/ \E outcome : EndsAs(r, outcome)
<1>1. pc[r] = "yield" /\ free' = free /\ alive' = alive
  BY DEF Begin
<1>2. Leads(r) /\ Released(r) = free
  BY <1>1 DEF Leads, Released, Holders
<1>3. CASE ~Isolated
  <2>1. BuildHere(r)
    BY <1>3 DEF Begin
  <2> QED
    BY <1>1, <1>2, <2>1 DEF BuildHere, EndsAs, Failure
<1>4. CASE Isolated /\ Cardinality(Waiters) >= MaxQueue
  <2>1. Fails(r)
    BY <1>4 DEF Begin
  <2> QED
    BY <1>1, <1>2, <2>1, FailsEnds DEF EndsAs
<1>5. CASE Isolated /\ ~(Cardinality(Waiters) >= MaxQueue)
  BY <1>1, <1>5 DEF Begin, Queues
<1> QED
  BY <1>3, <1>4, <1>5

LEMMA SlotMoves ==
    ASSUME NEW r \in Request, AcquireTimeout(r) \/ Returns(r) \/ Killed(r)
    PROVE  \E outcome : EndsAs(r, outcome)
<1>1. CASE AcquireTimeout(r)
  <2>1. Leads(r) /\ Released(r) = free /\ free' = free /\ alive' = alive /\ Fails(r)
    BY <1>1 DEF AcquireTimeout, Leads, Released, Holders
  <2> QED
    BY <2>1, FailsEnds DEF EndsAs
<1>2. CASE Returns(r) \/ Killed(r)
  <2>1. pc[r] \in {"run", "kill"} /\ free' = free + 1 /\ alive' = alive \ {r}
    BY <1>2 DEF Returns, Killed
  <2>2. Leads(r) /\ Released(r) = free + 1
    BY <2>1 DEF Leads, Released, Holders
  <2>3. \E outcome \in {asks[r]} \cup Failure : Settle(r, outcome)
    BY <1>2, FailsEnds DEF Returns, Killed
  <2> QED
    BY <2>1, <2>2, <2>3 DEF EndsAs
<1> QED
  BY <1>1, <1>2

LEMMA CancelMoves ==
    ASSUME NEW r \in Request, Cancel(r)
    PROVE  GivenUp(r) \/ \E outcome : EndsAs(r, outcome)
<1>1. CASE Leads(r) /\ Settle(r, "cancelled")
  BY <1>1 DEF Cancel, EndsAs, Failure
<1>2. CASE pc[r] = "follow"
  <2>1. Released(r) = free /\ ~Leads(r)
    BY <1>2 DEF Released, Holders, Leads
  <2> QED
    BY <1>2, <2>1 DEF Cancel, GivenUp
<1> QED
  BY <1>1, <1>2 DEF Cancel

(***************************************************************************)
(* Slots.                                                                  *)
(***************************************************************************)

LEMMA HoldersFinite == IsFiniteSet(Holders) /\ Cardinality(Holders) \in Nat
<1>1. Holders \in SUBSET Request
  BY DEF Holders
<1> QED
  BY <1>1, BuildAssumption, FS_Subset, FS_CardinalityType

\* A step that changes the holders by at most one call, and frees as many slots as
\* it takes holders away, keeps the account.
LEMMA SlotsBalance ==
    ASSUME SlotsKept, free \in Nat, NEW r,
           \/ Holders' = Holders /\ free' = free
           \/ r \in Holders /\ Holders' = Holders \ {r} /\ free' = free + 1
           \/ r \notin Holders /\ Holders' = Holders \cup {r} /\ free > 0 /\ free' = free - 1
    PROVE  SlotsKept' /\ free' \in 0 .. MaxProcs
<1> USE BuildAssumption
<1>1. IsFiniteSet(Holders) /\ Cardinality(Holders) \in Nat
  BY HoldersFinite
<1>2. free + Cardinality(Holders) = MaxProcs
  BY DEF SlotsKept
<1>3. SlotsKept' <=> free' + Cardinality(Holders') = MaxProcs
  BY DEF SlotsKept
<1>4. CASE Holders' = Holders /\ free' = free
  BY <1>1, <1>2, <1>3, <1>4
<1>5. CASE r \in Holders /\ Holders' = Holders \ {r} /\ free' = free + 1
  <2>1. Cardinality(Holders \ {r}) = Cardinality(Holders) - 1
    BY <1>1, <1>5, FS_RemoveElement
  <2>2. IsFiniteSet(Holders \ {r})
    BY <1>1, FS_RemoveElement
  <2>3. Cardinality(Holders \ {r}) \in Nat
    BY <2>2, FS_CardinalityType
  <2> QED
    BY <1>1, <1>2, <1>3, <1>5, <2>1, <2>3
<1>6. CASE r \notin Holders /\ Holders' = Holders \cup {r} /\ free > 0 /\ free' = free - 1
  <2>1. Cardinality(Holders \cup {r}) = Cardinality(Holders) + 1
    BY <1>1, <1>6, FS_AddElement
  <2> QED
    BY <1>1, <1>2, <1>3, <1>6, <2>1
<1> QED
  BY <1>4, <1>5, <1>6

(***************************************************************************)
(* A leader ends.                                                          *)
(***************************************************************************)

LEMMA EndsSlots ==
    ASSUME BuildInv, NEW r \in Request, NEW outcome, EndsAs(r, outcome)
    PROVE  SlotsKept' /\ free' \in 0 .. MaxProcs /\ Holders' \subseteq alive'
<1>1. pc' = [pc EXCEPT ![r] = "done"] /\ DOMAIN pc = Request
  BY DEF EndsAs, Settle, BuildInv, TypeOK
<1>2. Holders' = Holders \ {r}
  BY <1>1 DEF Holders
<1>3. SlotsKept /\ free \in Nat /\ Holders \subseteq alive
  BY DEF BuildInv, TypeOK
<1>4. alive' \in {alive, alive \ {r}} /\ free' = Released(r)
  BY DEF EndsAs
<1>5. CASE r \in Holders
  <2>1. free' = free + 1
    BY <1>4, <1>5 DEF Released
  <2>2. SlotsKept' /\ free' \in 0 .. MaxProcs
    BY <1>2, <1>3, <1>5, <2>1, SlotsBalance
  <2> QED
    BY <1>2, <1>3, <1>4, <2>2
<1>6. CASE r \notin Holders
  <2>1. free' = free /\ Holders' = Holders
    BY <1>2, <1>4, <1>6 DEF Released
  <2>2. SlotsKept' /\ free' \in 0 .. MaxProcs
    BY <1>3, <2>1, SlotsBalance
  <2> QED
    BY <1>3, <1>4, <1>6, <2>1, <2>2
<1> QED
  BY <1>5, <1>6

LEMMA EndsTypes ==
    ASSUME BuildInv, NEW r \in Request, NEW outcome, EndsAs(r, outcome)
    PROVE  TypeOK'
<1>1. TypeOK
  BY DEF BuildInv
<1>2. free' \in 0 .. MaxProcs /\ Holders' \subseteq alive'
  BY EndsSlots
<1>3. outcome \in Param \cup Failure
  BY <1>1 DEF EndsAs, TypeOK
<1>4. pc' \in [Request -> {"idle", "yield", "acquire", "run", "kill", "follow", "done"}]
  BY <1>1 DEF TypeOK, EndsAs, Settle
<1>5. inflight' \in [Key -> Request \cup {"nobody"}]
  BY <1>1 DEF TypeOK, EndsAs, Settle
<1>6. future' \in [Request -> Param \cup Failure \cup {"none", "pending"}]
  BY <1>1, <1>3 DEF TypeOK, EndsAs, Settle
<1>7. answer' \in [Request -> Param \cup Failure \cup {"none"}]
  BY <1>1, <1>3 DEF TypeOK, EndsAs, Settle
<1>8. asks' = asks /\ leader' = leader /\ alive' \subseteq alive
  BY DEF EndsAs, Settle
<1> QED
  BY <1>1, <1>2, <1>4, <1>5, <1>6, <1>7, <1>8 DEF TypeOK

\* Its future leaves the table, and no other.
LEMMA EndsTable ==
    ASSUME BuildInv, NEW r \in Request, NEW outcome, EndsAs(r, outcome)
    PROVE  TableExact'
<1> SUFFICES ASSUME NEW k \in Key, NEW s \in Request
             PROVE  (inflight'[k] = s) <=> (Leads(s)' /\ KeyOfCall(s)' = k)
  BY DEF TableExact
<1> DEFINE own == KeyOfCall(r)
<1>1. /\ pc' = [pc EXCEPT ![r] = "done"]
      /\ inflight' = [inflight EXCEPT ![own] = IF @ = r THEN "nobody" ELSE @]
      /\ asks' = asks /\ Leads(r)
  BY DEF EndsAs, Settle
<1>2. /\ pc \in [Request -> {"idle", "yield", "acquire", "run", "kill", "follow", "done"}]
      /\ inflight \in [Key -> Request \cup {"nobody"}]
      /\ asks \in [Request -> Param]
  BY DEF BuildInv, TypeOK
<1>3. own \in Key
  BY <1>2 DEF KeyOfCall, Key
<1>4. (inflight[k] = s) <=> (Leads(s) /\ KeyOfCall(s) = k)
  BY DEF BuildInv, TableExact
<1>5. inflight[own] = r
  BY <1>1, <1>3 DEF BuildInv, TableExact
<1>6. KeyOfCall(s)' = KeyOfCall(s)
  BY <1>1 DEF KeyOfCall
<1>7. inflight'[own] = "nobody" /\ "nobody" # s
  BY <1>1, <1>2, <1>3, <1>5, BuildAssumption
<1>8. k # own => inflight'[k] = inflight[k]
  BY <1>1, <1>2
<1>9. s # r => (Leads(s)' <=> Leads(s))
  BY <1>1, <1>2 DEF Leads
<1>10. ~Leads(r)'
  BY <1>1, <1>2 DEF Leads
<1>11. CASE s = r
  BY <1>4, <1>7, <1>8, <1>10, <1>11
<1>12. CASE s # r
  BY <1>4, <1>5, <1>6, <1>7, <1>8, <1>9, <1>12
<1> QED
  BY <1>11, <1>12

LEMMA EndsCalls ==
    ASSUME BuildInv, NEW r \in Request, NEW outcome, EndsAs(r, outcome)
    PROVE  CallInv'
<1>1. /\ pc' = [pc EXCEPT ![r] = "done"] /\ future' = [future EXCEPT ![r] = outcome]
      /\ answer' = [answer EXCEPT ![r] = outcome]
      /\ asks' = asks /\ leader' = leader
      /\ outcome \in {asks[r]} \cup Failure
  BY DEF EndsAs, Settle
<1>2. /\ DOMAIN pc = Request /\ DOMAIN future = Request /\ DOMAIN answer = Request
      /\ asks \in [Request -> Param]
  BY DEF BuildInv, TypeOK
<1>3. outcome # "none" /\ outcome # "pending"
  BY <1>1, <1>2, BuildAssumption DEF Failure
<1> SUFFICES ASSUME NEW s \in Request
             PROVE  /\ pc'[s] = "idle" => future'[s] = "none" /\ answer'[s] = "none"
                    /\ (future'[s] = "pending") <=> Leads(s)'
                    /\ future'[s] \in {asks'[s], "none", "pending"} \cup Failure
                    /\ pc'[s] = "follow" =>
                         /\ leader'[s] \in Request /\ future'[leader'[s]] # "none"
                         /\ KeyOf[asks'[leader'[s]]] = KeyOf[asks'[s]]
                         /\ answer'[s] = "none"
  BY DEF CallInv, KeyOfCall
<1>4. /\ pc[s] = "idle" => future[s] = "none" /\ answer[s] = "none"
      /\ (future[s] = "pending") <=> Leads(s)
      /\ future[s] \in {asks[s], "none", "pending"} \cup Failure
      /\ pc[s] = "follow" =>
           /\ leader[s] \in Request /\ future[leader[s]] # "none"
           /\ KeyOf[asks[leader[s]]] = KeyOf[asks[s]]
           /\ answer[s] = "none"
  BY DEF BuildInv, CallInv, KeyOfCall
<1>5. CASE s = r
  <2>1. pc'[s] = "done" /\ future'[s] = outcome
    BY <1>1, <1>2, <1>5
  <2> QED
    BY <1>1, <1>3, <1>5, <2>1 DEF Leads
<1>6. CASE s # r
  <2>1. pc'[s] = pc[s] /\ future'[s] = future[s] /\ answer'[s] = answer[s]
    BY <1>1, <1>2, <1>6
  <2>2. Leads(s)' <=> Leads(s)
    BY <2>1 DEF Leads
  <2>3. leader[s] \in Request /\ future[leader[s]] # "none" => future'[leader[s]] # "none"
    BY <1>1, <1>2, <1>3
  <2> QED
    BY <1>1, <1>4, <2>1, <2>2, <2>3
<1> QED
  BY <1>5, <1>6

LEMMA EndsKeeps ==
    ASSUME BuildInv, NEW r \in Request, NEW outcome, EndsAs(r, outcome)
    PROVE  BuildInv'
<1>1. SlotsKept'
  BY EndsSlots
<1>2. TypeOK' /\ TableExact' /\ CallInv'
  BY EndsTypes, EndsTable, EndsCalls
<1> QED
  BY <1>1, <1>2 DEF BuildInv

(***************************************************************************)
(* A leader goes on; a follower leaves; a subprocess ends.                 *)
(***************************************************************************)

\* The call goes from one place to another, and leads at both or at neither.
Goes(r, place) ==
    /\ pc' = [pc EXCEPT ![r] = place]
    /\ place \in {"acquire", "run", "kill", "done"}
    /\ Leads(r) <=> place \in {"acquire", "run", "kill"}
    /\ asks' = asks /\ leader' = leader /\ future' = future /\ inflight' = inflight
    /\ \A s \in Request : s # r \/ Leads(r) => answer'[s] = answer[s]

LEMMA GoesTable ==
    ASSUME BuildInv, NEW r \in Request, NEW place, Goes(r, place)
    PROVE  TableExact'
<1> SUFFICES ASSUME NEW k \in Key, NEW s \in Request
             PROVE  (inflight'[k] = s) <=> (Leads(s)' /\ KeyOfCall(s)' = k)
  BY DEF TableExact
<1>1. /\ pc' = [pc EXCEPT ![r] = place] /\ DOMAIN pc = Request
      /\ inflight' = inflight /\ asks' = asks
  BY DEF Goes, BuildInv, TypeOK
<1>2. KeyOfCall(s)' = KeyOfCall(s)
  BY <1>1 DEF KeyOfCall
<1>3. Leads(s)' <=> Leads(s)
  <2>1. CASE s = r
    <3>1. pc'[s] = place
      BY <1>1, <2>1
    <3>2. Leads(s)' <=> place \in {"acquire", "run", "kill"}
      BY <3>1 DEF Leads, Goes
    <3>3. Leads(s) <=> place \in {"acquire", "run", "kill"}
      BY <2>1 DEF Goes
    <3> QED
      BY <3>2, <3>3
  <2>2. CASE s # r
    <3>1. pc'[s] = pc[s]
      BY <1>1, <2>2
    <3> QED
      BY <3>1 DEF Leads
  <2> QED
    BY <2>1, <2>2
<1>4. (inflight[k] = s) <=> (Leads(s) /\ KeyOfCall(s) = k)
  BY DEF BuildInv, TableExact
<1> QED
  BY <1>1, <1>2, <1>3, <1>4

LEMMA GoesCalls ==
    ASSUME BuildInv, NEW r \in Request, NEW place, Goes(r, place)
    PROVE  CallInv'
<1>1. /\ pc' = [pc EXCEPT ![r] = place] /\ DOMAIN pc = Request
      /\ asks' = asks /\ leader' = leader /\ future' = future
      /\ place \in {"acquire", "run", "kill", "done"}
      /\ Leads(r) <=> place \in {"acquire", "run", "kill"}
  BY DEF Goes, BuildInv, TypeOK
<1> SUFFICES ASSUME NEW s \in Request
             PROVE  /\ pc'[s] = "idle" => future'[s] = "none" /\ answer'[s] = "none"
                    /\ (future'[s] = "pending") <=> Leads(s)'
                    /\ future'[s] \in {asks'[s], "none", "pending"} \cup Failure
                    /\ pc'[s] = "follow" =>
                         /\ leader'[s] \in Request /\ future'[leader'[s]] # "none"
                         /\ KeyOf[asks'[leader'[s]]] = KeyOf[asks'[s]]
                         /\ answer'[s] = "none"
  BY DEF CallInv, KeyOfCall
<1>2. /\ pc[s] = "idle" => future[s] = "none" /\ answer[s] = "none"
      /\ (future[s] = "pending") <=> Leads(s)
      /\ future[s] \in {asks[s], "none", "pending"} \cup Failure
      /\ pc[s] = "follow" =>
           /\ leader[s] \in Request /\ future[leader[s]] # "none"
           /\ KeyOf[asks[leader[s]]] = KeyOf[asks[s]]
           /\ answer[s] = "none"
  BY DEF BuildInv, CallInv, KeyOfCall
<1>3. CASE s = r
  <2>1. pc'[s] = place
    BY <1>1, <1>3
  <2>2. Leads(s)' <=> Leads(s)
    BY <1>1, <1>3, <2>1 DEF Leads
  <2> QED
    BY <1>1, <1>2, <2>1, <2>2
<1>4. CASE s # r
  <2>1. pc'[s] = pc[s] /\ answer'[s] = answer[s]
    BY <1>1, <1>4 DEF Goes
  <2>2. Leads(s)' <=> Leads(s)
    BY <2>1 DEF Leads
  <2> QED
    BY <1>1, <1>2, <2>1, <2>2
<1> QED
  BY <1>3, <1>4

LEMMA QueuesKeeps ==
    ASSUME BuildInv, NEW r \in Request, Queues(r)
    PROVE  BuildInv'
<1>1. TypeOK /\ SlotsKept
  BY DEF BuildInv
<1>2. Holders' = Holders
  BY <1>1 DEF Holders, Queues, TypeOK
<1>3. Goes(r, "acquire")
  BY DEF Queues, Goes, Leads
<1>4. TypeOK'
  BY <1>1, <1>2 DEF TypeOK, Queues
<1>5. SlotsKept'
  BY <1>1, <1>2 DEF SlotsKept, Queues
<1> QED
  BY <1>3, <1>4, <1>5, GoesTable, GoesCalls DEF BuildInv

LEMMA AcquireKeeps ==
    ASSUME BuildInv, NEW r \in Request, Acquire(r)
    PROVE  BuildInv'
<1>1. TypeOK /\ SlotsKept
  BY DEF BuildInv
<1>2. /\ pc[r] = "acquire" /\ free > 0 /\ free' = free - 1
      /\ alive' = alive \cup {r} /\ pc' = [pc EXCEPT ![r] = "run"]
      /\ asks' = asks /\ leader' = leader /\ future' = future
      /\ inflight' = inflight /\ answer' = answer
  BY DEF Acquire
<1>3. r \notin Holders /\ Holders' = Holders \cup {r}
  BY <1>1, <1>2 DEF Holders, TypeOK
<1>4. free \in Nat
  BY <1>1, BuildAssumption DEF TypeOK
<1>5. SlotsKept' /\ free' \in 0 .. MaxProcs
  BY <1>1, <1>2, <1>3, <1>4, SlotsBalance
<1>6. pc' \in [Request -> {"idle", "yield", "acquire", "run", "kill", "follow", "done"}]
  BY <1>1, <1>2 DEF TypeOK
<1>7. alive' \subseteq Request /\ Holders' \subseteq alive'
  BY <1>1, <1>2, <1>3 DEF TypeOK
<1>8. TypeOK'
  BY <1>1, <1>2, <1>5, <1>6, <1>7 DEF TypeOK
<1>9. Goes(r, "run")
  BY <1>2 DEF Goes, Leads
<1> QED
  BY <1>5, <1>8, <1>9, GoesTable, GoesCalls DEF BuildInv

LEMMA BuildTimeoutKeeps ==
    ASSUME BuildInv, NEW r \in Request, BuildTimeout(r)
    PROVE  BuildInv'
<1>1. TypeOK /\ SlotsKept
  BY DEF BuildInv
<1>2. Holders' = Holders
  BY <1>1 DEF Holders, BuildTimeout, TypeOK
<1>3. Goes(r, "kill")
  BY DEF BuildTimeout, Goes, Leads
<1>4. TypeOK'
  BY <1>1, <1>2 DEF TypeOK, BuildTimeout
<1>5. SlotsKept'
  BY <1>1, <1>2 DEF SlotsKept, BuildTimeout
<1> QED
  BY <1>3, <1>4, <1>5, GoesTable, GoesCalls DEF BuildInv

\* A follower gets the outcome of the future that it shares, or its cancellation.
LEMMA FollowerLeaves ==
    ASSUME BuildInv, NEW r \in Request, NEW outcome,
           pc[r] = "follow", pc' = [pc EXCEPT ![r] = "done"],
           answer' = [answer EXCEPT ![r] = outcome],
           outcome \in Param \cup Failure,
           asks' = asks, leader' = leader, future' = future, inflight' = inflight,
           free' = free, alive' \in {alive, alive \ {r}}
    PROVE  BuildInv'
<1>1. TypeOK /\ SlotsKept
  BY DEF BuildInv
<1>2. r \notin Holders /\ Holders' = Holders
  BY <1>1 DEF Holders, TypeOK
<1>3. Goes(r, "done")
  BY <1>1 DEF Goes, Leads, TypeOK
<1>4. answer' \in [Request -> Param \cup Failure \cup {"none"}]
  BY <1>1 DEF TypeOK
<1>5. pc' \in [Request -> {"idle", "yield", "acquire", "run", "kill", "follow", "done"}]
  BY <1>1 DEF TypeOK
<1>6. alive' \subseteq Request /\ Holders' \subseteq alive'
  BY <1>1, <1>2 DEF TypeOK
<1>7. TypeOK'
  BY <1>1, <1>4, <1>5, <1>6 DEF TypeOK
<1>8. SlotsKept'
  BY <1>1, <1>2 DEF SlotsKept
<1> QED
  BY <1>3, <1>7, <1>8, GoesTable, GoesCalls DEF BuildInv

\* What a follower is answered with.
LEMMA SharedOutcome ==
    ASSUME BuildInv, NEW r \in Request, Follow(r)
    PROVE  /\ leader[r] \in Request /\ KeyOf[asks[leader[r]]] = KeyOf[asks[r]]
           /\ future[leader[r]] \in {asks[leader[r]]} \cup Failure
<1>1. pc[r] = "follow" /\ future[leader[r]] # "pending"
  BY DEF Follow
<1>2. /\ leader[r] \in Request /\ future[leader[r]] # "none"
      /\ KeyOf[asks[leader[r]]] = KeyOf[asks[r]]
  BY <1>1 DEF BuildInv, CallInv, KeyOfCall
<1>3. future[leader[r]] \in {asks[leader[r]], "none", "pending"} \cup Failure
  BY <1>2 DEF BuildInv, CallInv
<1> QED
  BY <1>1, <1>2, <1>3

LEMMA FollowKeeps ==
    ASSUME BuildInv, NEW r \in Request, Follow(r)
    PROVE  BuildInv'
<1>1. asks \in [Request -> Param]
  BY DEF BuildInv, TypeOK
<1>2. future[leader[r]] \in Param \cup Failure
  BY <1>1, SharedOutcome
<1>3. /\ pc[r] = "follow" /\ pc' = [pc EXCEPT ![r] = "done"]
      /\ answer' = [answer EXCEPT ![r] = future[leader[r]]]
      /\ asks' = asks /\ leader' = leader /\ future' = future /\ inflight' = inflight
      /\ free' = free /\ alive' \in {alive, alive \ {r}}
  BY DEF Follow
<1> QED
  BY <1>2, <1>3, FollowerLeaves

LEMMA GivenUpKeeps ==
    ASSUME BuildInv, NEW r \in Request, GivenUp(r)
    PROVE  BuildInv'
<1>1. "cancelled" \in Param \cup Failure
  BY DEF Failure
<1> QED
  BY <1>1, FollowerLeaves DEF GivenUp

LEMMA OrphanEndsKeeps ==
    ASSUME BuildInv, NEW r \in Request, OrphanEnds(r)
    PROVE  BuildInv'
<1>1. r \notin Holders /\ Holders' = Holders
  BY DEF OrphanEnds, Holders
<1>2. TypeOK'
  BY <1>1 DEF BuildInv, TypeOK, OrphanEnds
<1>3. SlotsKept'
  BY <1>1 DEF BuildInv, SlotsKept, OrphanEnds
<1>4. TableExact' /\ CallInv'
  BY DEF OrphanEnds, BuildInv, TableExact, CallInv, KeyOfCall, Leads
<1> QED
  BY <1>2, <1>3, <1>4 DEF BuildInv

(***************************************************************************)
(* A call comes.                                                           *)
(***************************************************************************)

LEMMA AskTypes ==
    ASSUME BuildInv, NEW r \in Request, Ask(r)
    PROVE  TypeOK' /\ SlotsKept'
<1>1. TypeOK /\ SlotsKept
  BY DEF BuildInv
<1>2. pc[r] = "idle" /\ asks' = asks /\ free' = free /\ alive' = alive /\ answer' = answer
  BY DEF Ask
<1>3. \E place \in {"yield", "follow"} : pc' = [pc EXCEPT ![r] = place]
  BY DEF Ask
<1>4. Holders' = Holders
  BY <1>1, <1>2, <1>3 DEF Holders, TypeOK
<1>5. KeyOfCall(r) \in Key
  BY <1>1 DEF TypeOK, KeyOfCall, Key
<1>6. pc' \in [Request -> {"idle", "yield", "acquire", "run", "kill", "follow", "done"}]
  BY <1>1, <1>3 DEF TypeOK
<1>7. leader' \in [Request -> Request \cup {"nobody"}]
  BY <1>1, <1>5 DEF TypeOK, Ask
<1>8. future' \in [Request -> Param \cup Failure \cup {"none", "pending"}]
  BY <1>1 DEF TypeOK, Ask
<1>9. inflight' \in [Key -> Request \cup {"nobody"}]
  BY <1>1 DEF TypeOK, Ask
<1> QED
  BY <1>1, <1>2, <1>4, <1>6, <1>7, <1>8, <1>9 DEF TypeOK, SlotsKept

LEMMA LeadKeeps ==
    ASSUME BuildInv, NEW r \in Request, Ask(r), inflight[KeyOfCall(r)] = "nobody"
    PROVE  TableExact' /\ CallInv'
<1> DEFINE own == KeyOfCall(r)
<1>1. /\ pc[r] = "idle" /\ pc' = [pc EXCEPT ![r] = "yield"]
      /\ inflight' = [inflight EXCEPT ![own] = r]
      /\ future' = [future EXCEPT ![r] = "pending"]
      /\ leader' = [leader EXCEPT ![r] = r]
      /\ asks' = asks /\ answer' = answer
  BY DEF Ask
<1>2. /\ DOMAIN pc = Request /\ DOMAIN future = Request /\ DOMAIN leader = Request
      /\ inflight \in [Key -> Request \cup {"nobody"}]
      /\ asks \in [Request -> Param]
  BY DEF BuildInv, TypeOK
<1>3. own \in Key /\ inflight[own] = "nobody"
  BY <1>2 DEF KeyOfCall, Key
<1>4. Leads(r)' /\ ~Leads(r)
  BY <1>1, <1>2 DEF Leads
<1>5. ASSUME NEW s \in Request, s # r
      PROVE  pc'[s] = pc[s] /\ (Leads(s)' <=> Leads(s))
  <2>1. pc'[s] = pc[s]
    BY <1>1, <1>2, <1>5
  <2> QED
    BY <2>1 DEF Leads
<1>6. TableExact'
  <2> SUFFICES ASSUME NEW k \in Key, NEW s \in Request
               PROVE  (inflight'[k] = s) <=> (Leads(s)' /\ KeyOfCall(s)' = k)
    BY DEF TableExact
  <2>1. KeyOfCall(s)' = KeyOfCall(s)
    BY <1>1 DEF KeyOfCall
  <2>2. (inflight[k] = s) <=> (Leads(s) /\ KeyOfCall(s) = k)
    BY DEF BuildInv, TableExact
  <2>3. inflight'[k] = IF k = own THEN r ELSE inflight[k]
    BY <1>1, <1>2
  <2>4. CASE s = r
    BY <1>4, <2>1, <2>2, <2>3, <2>4
  <2>5. CASE s # r
    BY <1>3, <1>5, <2>1, <2>2, <2>3, <2>5, BuildAssumption
  <2> QED
    BY <2>4, <2>5
<1>7. CallInv'
  <2> SUFFICES ASSUME NEW s \in Request
               PROVE  /\ pc'[s] = "idle" => future'[s] = "none" /\ answer'[s] = "none"
                      /\ (future'[s] = "pending") <=> Leads(s)'
                      /\ future'[s] \in {asks'[s], "none", "pending"} \cup Failure
                      /\ pc'[s] = "follow" =>
                           /\ leader'[s] \in Request /\ future'[leader'[s]] # "none"
                           /\ KeyOf[asks'[leader'[s]]] = KeyOf[asks'[s]]
                           /\ answer'[s] = "none"
    BY DEF CallInv, KeyOfCall
  <2>1. /\ pc[s] = "idle" => future[s] = "none" /\ answer[s] = "none"
        /\ (future[s] = "pending") <=> Leads(s)
        /\ future[s] \in {asks[s], "none", "pending"} \cup Failure
        /\ pc[s] = "follow" =>
             /\ leader[s] \in Request /\ future[leader[s]] # "none"
             /\ KeyOf[asks[leader[s]]] = KeyOf[asks[s]]
             /\ answer[s] = "none"
    BY DEF BuildInv, CallInv, KeyOfCall
  <2>2. CASE s = r
    <3>1. pc'[s] = "yield" /\ future'[s] = "pending"
      BY <1>1, <1>2, <2>2
    <3> QED
      BY <1>4, <2>2, <3>1
  <2>3. CASE s # r
    <3>1. future'[s] = future[s] /\ leader'[s] = leader[s]
      BY <1>1, <1>2, <2>3
    <3>2. leader[s] \in Request /\ future[leader[s]] # "none" => future'[leader[s]] # "none"
      BY <1>1, <1>2
    <3> QED
      BY <1>1, <1>5, <2>1, <2>3, <3>1, <3>2
  <2> QED
    BY <2>2, <2>3
<1> QED
  BY <1>6, <1>7

LEMMA JoinKeeps ==
    ASSUME BuildInv, NEW r \in Request, Ask(r), inflight[KeyOfCall(r)] # "nobody"
    PROVE  TableExact' /\ CallInv'
<1> DEFINE first == inflight[KeyOfCall(r)]
<1>1. /\ pc[r] = "idle" /\ pc' = [pc EXCEPT ![r] = "follow"]
      /\ leader' = [leader EXCEPT ![r] = first]
      /\ inflight' = inflight /\ future' = future
      /\ asks' = asks /\ answer' = answer
  BY DEF Ask
<1>2. /\ DOMAIN pc = Request /\ DOMAIN leader = Request
      /\ inflight \in [Key -> Request \cup {"nobody"}]
      /\ asks \in [Request -> Param]
  BY DEF BuildInv, TypeOK
<1>3. KeyOfCall(r) \in Key
  BY <1>2 DEF KeyOfCall, Key
<1>4. first \in Request
  BY <1>2, <1>3
<1>5. Leads(first) /\ KeyOfCall(first) = KeyOfCall(r)
  BY <1>3, <1>4 DEF BuildInv, TableExact
<1>6. future[first] = "pending"
  BY <1>4, <1>5 DEF BuildInv, CallInv
<1>7. ASSUME NEW s \in Request
      PROVE  Leads(s)' <=> Leads(s)
  <2>1. CASE s = r
    <3>1. pc'[s] = "follow" /\ pc[s] = "idle"
      BY <1>1, <1>2, <2>1
    <3> QED
      BY <3>1 DEF Leads
  <2>2. CASE s # r
    <3>1. pc'[s] = pc[s]
      BY <1>1, <1>2, <2>2
    <3> QED
      BY <3>1 DEF Leads
  <2> QED
    BY <2>1, <2>2
<1>8. TableExact'
  <2> SUFFICES ASSUME NEW k \in Key, NEW s \in Request
               PROVE  (inflight'[k] = s) <=> (Leads(s)' /\ KeyOfCall(s)' = k)
    BY DEF TableExact
  <2>1. KeyOfCall(s)' = KeyOfCall(s)
    BY <1>1 DEF KeyOfCall
  <2>2. (inflight[k] = s) <=> (Leads(s) /\ KeyOfCall(s) = k)
    BY DEF BuildInv, TableExact
  <2> QED
    BY <1>1, <1>7, <2>1, <2>2
<1>9. CallInv'
  <2> SUFFICES ASSUME NEW s \in Request
               PROVE  /\ pc'[s] = "idle" => future'[s] = "none" /\ answer'[s] = "none"
                      /\ (future'[s] = "pending") <=> Leads(s)'
                      /\ future'[s] \in {asks'[s], "none", "pending"} \cup Failure
                      /\ pc'[s] = "follow" =>
                           /\ leader'[s] \in Request /\ future'[leader'[s]] # "none"
                           /\ KeyOf[asks'[leader'[s]]] = KeyOf[asks'[s]]
                           /\ answer'[s] = "none"
    BY DEF CallInv, KeyOfCall
  <2>1. /\ pc[s] = "idle" => future[s] = "none" /\ answer[s] = "none"
        /\ (future[s] = "pending") <=> Leads(s)
        /\ future[s] \in {asks[s], "none", "pending"} \cup Failure
        /\ pc[s] = "follow" =>
             /\ leader[s] \in Request /\ future[leader[s]] # "none"
             /\ KeyOf[asks[leader[s]]] = KeyOf[asks[s]]
             /\ answer[s] = "none"
    BY DEF BuildInv, CallInv, KeyOfCall
  <2>2. CASE s = r
    <3>1. pc'[s] = "follow" /\ leader'[s] = first
      BY <1>1, <1>2, <2>2
    <3>2. KeyOf[asks[first]] = KeyOf[asks[s]]
      BY <1>5, <2>2 DEF KeyOfCall
    <3> QED
      BY <1>1, <1>4, <1>6, <1>7, <2>1, <2>2, <3>1, <3>2
  <2>3. CASE s # r
    <3>1. pc'[s] = pc[s] /\ leader'[s] = leader[s]
      BY <1>1, <1>2, <2>3
    <3> QED
      BY <1>1, <1>7, <2>1, <3>1
  <2> QED
    BY <2>2, <2>3
<1> QED
  BY <1>8, <1>9

LEMMA AskKeeps ==
    ASSUME BuildInv, NEW r \in Request, Ask(r)
    PROVE  BuildInv'
BY AskTypes, LeadKeeps, JoinKeeps DEF BuildInv

(***************************************************************************)
(* The invariant.                                                          *)
(***************************************************************************)

\* What a call does, in terms of the moves.
LEMMA NextMoves ==
    ASSUME NEW r \in Request, Ask(r) \/ Step(r) \/ Cancel(r) \/ OrphanEnds(r)
    PROVE  \/ \E outcome : EndsAs(r, outcome)
           \/ Ask(r) \/ Queues(r) \/ Acquire(r) \/ BuildTimeout(r)
           \/ Follow(r) \/ GivenUp(r) \/ OrphanEnds(r)
<1>1. CASE Begin(r)
  BY <1>1, BeginMoves
<1>2. CASE AcquireTimeout(r) \/ Returns(r) \/ Killed(r)
  BY <1>2, SlotMoves
<1>3. CASE Cancel(r)
  BY <1>3, CancelMoves
<1> QED
  BY <1>1, <1>2, <1>3 DEF Step

LEMMA InitBuild == Init => BuildInv
<1> SUFFICES ASSUME Init PROVE BuildInv
  OBVIOUS
<1> USE BuildAssumption DEF Init
<1>1. Holders = {}
  BY DEF Holders
<1>2. TypeOK
  BY <1>1 DEF TypeOK
<1>3. SlotsKept
  BY <1>1, FS_EmptySet DEF SlotsKept
<1>4. \A r \in Request : ~Leads(r)
  BY DEF Leads
<1>5. TableExact
  BY <1>4 DEF TableExact
<1>6. CallInv
  BY <1>4 DEF CallInv
<1> QED
  BY <1>2, <1>3, <1>5, <1>6 DEF BuildInv

LEMMA NextBuild == BuildInv /\ [Next]_vars => BuildInv'
<1> SUFFICES ASSUME BuildInv, [Next]_vars PROVE BuildInv'
  OBVIOUS
<1>1. CASE UNCHANGED vars
  <2>1. /\ pc' = pc /\ asks' = asks /\ leader' = leader /\ future' = future
        /\ inflight' = inflight /\ free' = free /\ alive' = alive /\ answer' = answer
    BY <1>1 DEF vars
  <2>2. TypeOK' /\ SlotsKept'
    BY <2>1 DEF BuildInv, TypeOK, SlotsKept, Holders
  <2>3. TableExact' /\ CallInv'
    BY <2>1 DEF BuildInv, TableExact, CallInv, KeyOfCall, Leads
  <2> QED
    BY <2>2, <2>3 DEF BuildInv
<1>2. CASE Next
  <2>1. PICK r \in Request : Ask(r) \/ Step(r) \/ Cancel(r) \/ OrphanEnds(r)
    BY <1>2 DEF Next
  <2>2. \/ \E outcome : EndsAs(r, outcome)
        \/ Ask(r) \/ Queues(r) \/ Acquire(r) \/ BuildTimeout(r)
        \/ Follow(r) \/ GivenUp(r) \/ OrphanEnds(r)
    BY <2>1, NextMoves
  <2>3. CASE \E outcome : EndsAs(r, outcome)
    BY <2>3, EndsKeeps
  <2>4. CASE Ask(r) \/ Queues(r) \/ Acquire(r) \/ BuildTimeout(r)
    BY <2>4, AskKeeps, QueuesKeeps, AcquireKeeps, BuildTimeoutKeeps
  <2>5. CASE Follow(r) \/ GivenUp(r) \/ OrphanEnds(r)
    BY <2>5, FollowKeeps, GivenUpKeeps, OrphanEndsKeeps
  <2> QED
    BY <2>2, <2>3, <2>4, <2>5
<1> QED
  BY <1>1, <1>2

LEMMA BuildInvariant == Spec => []BuildInv
  BY InitBuild, NextBuild, PTL DEF Spec

\* Types, and that whoever holds a slot has its subprocess running, or that one is
\* being killed.
THEOREM TypeCorrect == Spec => []TypeOK
<1>1. BuildInv => TypeOK
  BY DEF BuildInv
<1> QED
  BY BuildInvariant, <1>1, PTL

\* With any number of slots and calls: no timeout, failure or cancellation loses a
\* slot of the semaphore, or releases one twice.
THEOREM SlotsAreKept == Spec => []SlotsKept
<1>1. BuildInv => SlotsKept
  BY DEF BuildInv
<1> QED
  BY BuildInvariant, <1>1, PTL

\* The table of _inflight_builds holds the leaders under way and no other: one
\* build per key at a time, and nobody joins a build that has ended.
THEOREM TableIsExact == Spec => []TableExact
<1>1. BuildInv => TableExact
  BY DEF BuildInv
<1> QED
  BY BuildInvariant, <1>1, PTL

\* Where requests with one key ask for the same graph, nobody is answered with the
\* graph of somebody else's parameters, in whatever order calls are coalesced,
\* time out, fail and are cancelled.
THEOREM AnswersAreOwn ==
    ASSUME KeyTellsGraph
    PROVE  Spec => []AnsweredAsAsked
<1>1. Init => AnsweredAsAsked
  BY DEF Init, AnsweredAsAsked
<1>2. ASSUME BuildInv, AnsweredAsAsked, [Next]_vars
      PROVE  AnsweredAsAsked'
  <2> SUFFICES ASSUME NEW s \in Request
               PROVE  answer'[s] \in {asks'[s], "none"} \cup Failure
    BY DEF AnsweredAsAsked
  <2>1. answer[s] \in {asks[s], "none"} \cup Failure
    BY <1>2 DEF AnsweredAsAsked
  <2>2. DOMAIN answer = Request /\ asks \in [Request -> Param]
    BY <1>2 DEF BuildInv, TypeOK
  <2>3. CASE UNCHANGED vars
    BY <2>1, <2>3 DEF vars
  <2>4. CASE Next
    <3>1. PICK r \in Request : Ask(r) \/ Step(r) \/ Cancel(r) \/ OrphanEnds(r)
      BY <2>4 DEF Next
    <3>2. \/ \E outcome : EndsAs(r, outcome)
          \/ Ask(r) \/ Queues(r) \/ Acquire(r) \/ BuildTimeout(r)
          \/ Follow(r) \/ GivenUp(r) \/ OrphanEnds(r)
      BY <3>1, NextMoves
    <3>3. CASE \E outcome : EndsAs(r, outcome)
      <4>1. PICK outcome : EndsAs(r, outcome)
        BY <3>3
      <4>2. /\ answer' = [answer EXCEPT ![r] = outcome] /\ asks' = asks
            /\ outcome \in {asks[r]} \cup Failure
        BY <4>1 DEF EndsAs, Settle
      <4> QED
        BY <2>1, <2>2, <4>2
    <3>4. CASE Ask(r) \/ Queues(r) \/ Acquire(r) \/ BuildTimeout(r) \/ OrphanEnds(r)
      <4>1. answer' = answer /\ asks' = asks
        BY <3>4 DEF Ask, Queues, Acquire, BuildTimeout, OrphanEnds
      <4> QED
        BY <2>1, <4>1
    <3>5. CASE Follow(r)
      <4>1. /\ leader[r] \in Request /\ KeyOf[asks[leader[r]]] = KeyOf[asks[r]]
            /\ future[leader[r]] \in {asks[leader[r]]} \cup Failure
        BY <1>2, <3>5, SharedOutcome
      <4>2. asks[leader[r]] = asks[r]
        BY <2>2, <4>1, KeyTellsGraph DEF KeyTellsGraph
      <4>3. answer' = [answer EXCEPT ![r] = future[leader[r]]] /\ asks' = asks
        BY <3>5 DEF Follow
      <4> QED
        BY <2>1, <2>2, <4>1, <4>2, <4>3
    <3>6. CASE GivenUp(r)
      <4>1. answer' = [answer EXCEPT ![r] = "cancelled"] /\ asks' = asks
        BY <3>6 DEF GivenUp
      <4> QED
        BY <2>1, <2>2, <4>1 DEF Failure
    <3> QED
      BY <3>2, <3>3, <3>4, <3>5, <3>6
  <2> QED
    BY <1>2, <2>3, <2>4
<1> QED
  BY BuildInvariant, <1>1, <1>2, PTL DEF Spec
=============================================================================
