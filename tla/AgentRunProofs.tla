--------------------------- MODULE AgentRunProofs ---------------------------
(***************************************************************************)
(* Proofs about AgentRun, for every number of calls, commands, approvals,  *)
(* replans, workers and restarts, with and without ClickHouse.             *)
(*                                                                         *)
(* The order of the proof: what the store does with a record (Commit and   *)
(* Fresh); the types, and what every object says of itself, the old ones   *)
(* that a call still holds included; then, where calls come one at a time, *)
(* the approval that is pending and what is started on its word.           *)
(***************************************************************************)
EXTENDS AgentRun, FiniteSetTheorems, SequenceTheorems, TLAPS

\* What every object satisfies, cached or held by a call.
Sound ==
    {rec \in Record :
        /\ rec.approval <= Len(shown)
        /\ rec.status = "waiting_approval" => rec.approval # 0
        /\ rec.status = "completed" => rec.approval = 0 /\ ~rec.question}

Calls == [Call -> [pc : {"idle", "posted", "held"}, ref : Ref,
                   command : Command, by : Approval]]
HeapTypes == objects \in [Ref -> Sound] /\ cache \in Ref /\ call \in Calls
ApprovalTypes ==
    /\ Len(shown) <= MaxApprovals /\ timer \in Approval
    /\ shown \in Seq(Command) /\ verdict \in Seq(Verdict) /\ sent \in Seq(Seq(Command))
    /\ Len(verdict) = Len(shown) /\ Len(sent) = Len(shown)
RestTypes ==
    /\ asked \in Command /\ bridges \subseteq Command /\ polling \in BOOLEAN
    /\ ready \in Nat /\ on \in Nat /\ ready + on <= MaxWorkers
    /\ cancel \in {"no", "await", "done"} /\ restarts \in 0 .. MaxRestarts
    /\ lost \in BOOLEAN
Types == HeapTypes /\ ApprovalTypes /\ RestTypes

\* What a call holds asks for no approval, as the store reads every other object
\* afresh; without ClickHouse there is one object.
Copies ==
    \A c \in Call : call[c].pc = "held" =>
        IF Stored THEN objects[call[c].ref].approval = 0 ELSE call[c].ref = cache

\* The approval that a run waits for has no answer yet.
Unanswered == run.approval # 0 => verdict[run.approval] = "none"

Pending == Copies /\ Unanswered

\* It shows the command that it will start, or one that has been tried and will
\* not be started again.
ShownIsAsked ==
    run.approval # 0 => \/ run.request = shown[run.approval]
                        \/ run.request \in run.tried

\* A call on the word of an approval is the only thing that this approval starts.
Claims ==
    \A c \in Call :
        LET k == call[c].command  a == call[c].by
        IN call[c].pc # "idle" /\ a # 0 =>
             /\ a \in DOMAIN shown /\ verdict[a] = "approved" /\ sent[a] = <<>>
             /\ shown[a] = k \/ (call[c].pc = "posted" /\ k \in run.tried)
NoneSentYet == \A a \in DOMAIN sent : verdict[a] = "none" => sent[a] = <<>>

OnWord == ShownIsAsked /\ Claims /\ NoneSentYet /\ ApprovedOnly

-----------------------------------------------------------------------------
(* The store *)

\* There is an object that no call holds.
LEMMA SpareObject ==
    ASSUME NEW calls \in Calls
    PROVE  \E s \in Ref : s \notin Held(calls)
<1>1. IsFiniteSet(Call) /\ Cardinality(Call) \in Nat
  BY AgentAssumption, FS_CardinalityType
<1>2. IsFiniteSet(Ref) /\ Cardinality(Ref) = Cardinality(Call) + 1
  <2> DEFINE n == Cardinality(Call)
  <2>1. n \in Nat /\ Ref = 0 .. n
    BY <1>1 DEF Ref
  <2> HIDE DEF n
  <2>2. IsFiniteSet(0 .. n) /\ Cardinality(0 .. n) = n + 1
    BY <2>1, FS_Interval
  <2> QED
    BY <2>1, <2>2 DEF n
<1>3. SUFFICES ASSUME \A s \in Ref : s \in Held(calls) PROVE FALSE
  OBVIOUS
<1> DEFINE holder == [s \in Ref |-> CHOOSE c \in Call : calls[c].ref = s]
<1>4. ASSUME NEW s \in Ref PROVE holder[s] \in Call /\ calls[holder[s]].ref = s
  <2>1. \E c \in Call : calls[c].ref = s
    BY <1>3 DEF Held
  <2> QED
    BY <2>1
<1>5. holder \in [Ref -> Call]
  BY <1>4
<1> HIDE DEF holder
<1>6. \E s, t \in Ref : s # t /\ holder[s] = holder[t]
  BY <1>1, <1>2, <1>5, FS_PigeonHole
<1> QED
  BY <1>4, <1>6

LEMMA FreshIs ==
    ASSUME NEW calls \in Calls, NEW r \in Ref
    PROVE  /\ Fresh(r, calls) \in Ref
           /\ ~Stored => Fresh(r, calls) = r
           /\ Stored => Fresh(r, calls) \notin Held(calls)
<1>1. \E s \in Ref : s \notin Held(calls)
  BY SpareObject
<1> DEFINE spare == CHOOSE s \in Ref : s \notin Held(calls)
<1>2. spare \in Ref /\ spare \notin Held(calls)
  BY <1>1
<1>3. Fresh(r, calls) = IF Stored /\ r \in Held(calls) THEN spare ELSE r
  BY DEF Fresh
<1> HIDE DEF spare
<1> QED
  BY <1>2, <1>3

\* Whatever holds of the old objects and of the saved one holds of all of them.
LEMMA CommitIs ==
    ASSUME NEW S, objects \in [Ref -> S], NewRun \in S, NEW rec \in S,
           NEW r \in Ref, NEW kept \in Ref, NEW calls, Commit(r, rec, calls, kept)
    PROVE  /\ objects' \in [Ref -> S] /\ cache' = kept /\ call' = calls
           /\ objects'[kept] = rec /\ run' = rec
           /\ \A s \in Held(calls) \cap Ref :
                objects'[s] = IF s = kept \/ s = r THEN rec ELSE objects[s]
<1>1. objects' = [s \in Ref |-> IF s = kept \/ (s = r /\ r \in Held(calls)) THEN rec
                                ELSE IF s \in Held(calls) THEN objects[s] ELSE NewRun]
      /\ cache' = kept /\ call' = calls
  BY DEF Commit
<1>2. objects' \in [Ref -> S]
  BY <1>1
<1>3. objects'[kept] = rec
  BY <1>1
<1> QED
  BY <1>1, <1>2, <1>3 DEF run

-----------------------------------------------------------------------------
(* Records *)

LEMMA SoundIs ==
    ASSUME NEW rec
    PROVE  rec \in Sound <=>
             /\ rec \in Record /\ rec.approval <= Len(shown)
             /\ rec.status = "waiting_approval" => rec.approval # 0
             /\ rec.status = "completed" => rec.approval = 0 /\ ~rec.question
BY DEF Sound

LEMMA NewRunSound == Len(shown) \in Nat => NewRun \in Sound
BY AgentAssumption DEF NewRun, Sound, Record, Status, Approval, Command

\* What the handlers make of a record.
LEMMA SavesSound ==
    ASSUME NEW rec \in Sound, NEW k \in Command, Len(shown) \in Nat
    PROVE  /\ [rec EXCEPT !.active = k] \in Sound
           /\ [rec EXCEPT !.active = 0, !.tried = @ \cup {k}] \in Sound
           /\ [rec EXCEPT !.worker = TRUE] \in Sound
           /\ [rec EXCEPT !.worker = FALSE] \in Sound
           /\ ~Unresolved(rec) => \A s \in {"completed", "blocked"} :
                [[rec EXCEPT !.status = s] EXCEPT !.worker = FALSE] \in Sound
           /\ [[rec EXCEPT !.status = "failed"] EXCEPT !.worker = FALSE] \in Sound
<1> USE DEF Sound, Record, Status, Waiting, Terminal, Approval, Command
<1>1. [rec EXCEPT !.active = k] \in Sound
  OBVIOUS
<1>2. 0 \in Command
  BY AgentAssumption
<1>3. [rec EXCEPT !.active = 0, !.tried = @ \cup {k}] \in Sound
  BY <1>2
<1>4. [rec EXCEPT !.worker = TRUE] \in Sound /\ [rec EXCEPT !.worker = FALSE] \in Sound
  OBVIOUS
<1>5. ASSUME ~Unresolved(rec), NEW s \in {"completed", "blocked"}
      PROVE  [[rec EXCEPT !.status = s] EXCEPT !.worker = FALSE] \in Sound
  BY <1>5 DEF Unresolved
<1>6. [[rec EXCEPT !.status = "failed"] EXCEPT !.worker = FALSE] \in Sound
  OBVIOUS
<1> QED
  BY <1>1, <1>3, <1>4, <1>5, <1>6

LEMMA AnswersSound ==
    ASSUME NEW rec \in Sound, Len(shown) \in Nat
    PROVE  /\ [rec EXCEPT !.status = "running", !.approval = 0, !.request = 0] \in Sound
           /\ [rec EXCEPT !.status = "blocked", !.approval = 0, !.request = 0] \in Sound
           /\ [rec EXCEPT !.status = "running", !.question = FALSE] \in Sound
           /\ Blocked(rec) \in Sound
           /\ Cancelled(rec) \in Sound
           /\ rec.replans < MaxReplans =>
                [[rec EXCEPT !.approval = 0, !.request = 0]
                   EXCEPT !.status = "running", !.replans = @ + 1] \in Sound
           /\ [[rec EXCEPT !.approval = 0, !.request = 0] EXCEPT !.status = "blocked"] \in Sound
<1>z. 0 \in Command /\ 0 \in Approval /\ 0 <= Len(shown)
  BY AgentAssumption DEF Command, Approval
<1> USE <1>z DEF Sound, Record, Status, Waiting, Terminal
<1>1. [rec EXCEPT !.status = "running", !.approval = 0, !.request = 0] \in Sound
  OBVIOUS
<1>2. [rec EXCEPT !.status = "blocked", !.approval = 0, !.request = 0] \in Sound
  OBVIOUS
<1>3. [rec EXCEPT !.status = "running", !.question = FALSE] \in Sound
  OBVIOUS
<1>4. Blocked(rec) \in Sound
  BY DEF Blocked
<1>5. Cancelled(rec) \in Sound
  BY DEF Cancelled, IsTerminal
<1>6. ASSUME rec.replans < MaxReplans
      PROVE  [[rec EXCEPT !.approval = 0, !.request = 0]
                EXCEPT !.status = "running", !.replans = @ + 1] \in Sound
  <2> DEFINE n == rec.replans + 1
             dropped == [rec EXCEPT !.approval = 0, !.request = 0]
  <2>1. n \in 0 .. MaxReplans
    BY <1>6, AgentAssumption
  <2>2. dropped \in Record /\ dropped.approval = 0 /\ dropped.replans = rec.replans
    OBVIOUS
  <2> HIDE DEF n, dropped
  <2>3. [dropped EXCEPT !.status = "running", !.replans = n] \in Sound
    BY <2>1, <2>2
  <2>4. [dropped EXCEPT !.status = "running", !.replans = @ + 1]
          = [dropped EXCEPT !.status = "running", !.replans = n]
    BY <2>2 DEF n
  <2> QED
    BY <2>3, <2>4 DEF dropped
<1>7. [[rec EXCEPT !.approval = 0, !.request = 0] EXCEPT !.status = "blocked"] \in Sound
  OBVIOUS
<1> QED
  BY <1>1, <1>2, <1>3, <1>4, <1>5, <1>6, <1>7

LEMMA QuestionSound ==
    ASSUME NEW rec \in Sound, NEW k \in Command, Len(shown) \in Nat
    PROVE  WithQuestion(rec, k) \in Sound
BY AgentAssumption
   DEF WithQuestion, Refuses, IsTerminal, Sound, Record, Status, Waiting, Terminal, Approval, Command

\* An approval is numbered before it is registered.
LEMMA ApprovalSound ==
    ASSUME NEW rec \in Sound, NEW k \in Command, ApprovalTypes, Registers(rec, k)
    PROVE  /\ ApprovalTypes' /\ Sound \subseteq Sound'
           /\ WithApproval(rec, k, Len(shown) + 1) \in Sound'
           /\ [WithApproval(rec, k, Len(shown) + 1) EXCEPT !.worker = FALSE] \in Sound'
<1>1. Len(shown) \in Nat /\ MaxApprovals \in Nat /\ 0 \in Command
  BY AgentAssumption DEF ApprovalTypes, Command
<1>2. CASE Refuses(rec)
  <2>1. shown' = shown /\ verdict' = verdict /\ sent' = sent /\ timer' = timer
    BY <1>2 DEF Registers, approvals
  <2>2. ApprovalTypes' /\ Sound' = Sound
    BY <2>1 DEF ApprovalTypes, Sound
  <2>3. [rec EXCEPT !.request = k] \in Sound /\ [[rec EXCEPT !.request = k] EXCEPT !.worker = FALSE] \in Sound
    BY DEF Sound, Record, Approval
  <2> QED
    BY <1>2, <2>2, <2>3 DEF WithApproval
<1>3. CASE ~Refuses(rec)
  <2>1. /\ Len(shown) < MaxApprovals
        /\ shown' = Append(shown, k) /\ verdict' = Append(verdict, "none")
        /\ sent' = Append(sent, <<>>) /\ timer' = Len(shown) + 1
    BY <1>3 DEF Registers
  <2>2. /\ shown' \in Seq(Command) /\ Len(shown') = Len(shown) + 1
    BY <2>1 DEF ApprovalTypes
  <2>3. verdict' \in Seq(Verdict) /\ Len(verdict') = Len(verdict) + 1
    BY <2>1 DEF ApprovalTypes, Verdict
  <2>4. sent' \in Seq(Seq(Command)) /\ Len(sent') = Len(sent) + 1
    <3>1. <<>> \in Seq(Command)
      OBVIOUS
    <3> DEFINE T == Seq(Command)
    <3>2. <<>> \in T /\ sent \in Seq(T)
      BY <3>1 DEF ApprovalTypes
    <3> HIDE DEF T
    <3>3. sent' \in Seq(T) /\ Len(sent') = Len(sent) + 1
      BY <2>1, <3>2
    <3> QED
      BY <3>3 DEF T
  <2>5. ApprovalTypes'
    BY <1>1, <2>1, <2>2, <2>3, <2>4 DEF ApprovalTypes, Approval
  <2>6. Sound \subseteq Sound'
    BY <1>1, <2>2 DEF Sound, Record, Approval
  <2> DEFINE a == Len(shown) + 1
  <2>7. a \in Approval /\ a # 0 /\ a <= Len(shown')
    BY <1>1, <2>1, <2>2 DEF Approval
  <2> HIDE DEF a
  <2> DEFINE asking == [rec EXCEPT !.request = k, !.status = "waiting_approval", !.approval = a]
  <2>8. asking \in Sound' /\ [asking EXCEPT !.worker = FALSE] \in Sound'
    BY <2>7 DEF Sound, Record, Status, Waiting
  <2> HIDE DEF asking
  <2>9. WithApproval(rec, k, Len(shown) + 1) = asking
    BY <1>3 DEF WithApproval, asking, a
  <2> QED
    BY <2>5, <2>6, <2>8, <2>9
<1> QED
  BY <1>2, <1>3

-----------------------------------------------------------------------------
(* Types *)

LEMMA CallTyped ==
    ASSUME HeapTypes, NEW c \in Call, NEW k \in Command, NEW a \in Approval
    PROVE  /\ Ends(c) \in Calls /\ Holds(c, k, a) \in Calls
           /\ [call EXCEPT ![c] = [pc |-> "posted", ref |-> 0, command |-> k, by |-> a]] \in Calls
           /\ [call EXCEPT ![c] = [Idle EXCEPT !.pc = "posted", !.command = k]] \in Calls
           /\ call \in Calls /\ [d \in Call |-> Idle] \in Calls
           /\ call[c].command \in Command /\ call[c].by \in Approval /\ call[c].ref \in Ref
<1>1. 0 \in Ref /\ cache \in Ref /\ 0 \in Command /\ 0 \in Approval
  BY AgentAssumption, FS_CardinalityType DEF HeapTypes, Ref, Command, Approval
<1> DEFINE One == [pc : {"idle", "posted", "held"}, ref : Ref, command : Command, by : Approval]
<1>2. /\ Idle \in One /\ [pc |-> "held", ref |-> cache, command |-> k, by |-> a] \in One
      /\ [pc |-> "posted", ref |-> 0, command |-> k, by |-> a] \in One
      /\ [Idle EXCEPT !.pc = "posted", !.command = k] \in One
  BY <1>1 DEF Idle
<1>3. call \in [Call -> One]
  BY DEF HeapTypes, Calls
<1>4. call[c] \in One
  BY <1>3
<1>5. call[c].command \in Command /\ call[c].by \in Approval /\ call[c].ref \in Ref
  BY <1>4
<1>6. \A x \in One : [call EXCEPT ![c] = x] \in [Call -> One]
  BY <1>3
<1>7. [d \in Call |-> Idle] \in [Call -> One]
  BY <1>2
<1> HIDE DEF One
<1>8. /\ Ends(c) \in [Call -> One] /\ Holds(c, k, a) \in [Call -> One]
      /\ [call EXCEPT ![c] = [pc |-> "posted", ref |-> 0, command |-> k, by |-> a]] \in [Call -> One]
      /\ [call EXCEPT ![c] = [Idle EXCEPT !.pc = "posted", !.command = k]] \in [Call -> One]
  BY <1>2, <1>6 DEF Ends, Holds
<1>9. Calls = [Call -> One]
  BY DEF Calls, One
<1> QED
  BY <1>3, <1>5, <1>7, <1>8, <1>9

\* The ways to save a record keep the types, when what is known of a record grows.
LEMMA CommitTyped ==
    ASSUME HeapTypes, Sound \subseteq Sound', NewRun \in Sound', NEW rec \in Sound',
           NEW r \in Ref, NEW kept \in Ref, NEW calls \in Calls, Commit(r, rec, calls, kept)
    PROVE  HeapTypes'
<1> DEFINE S == Sound'
<1>1. objects \in [Ref -> S]
  BY DEF HeapTypes
<1> HIDE DEF S
<1>2. objects' \in [Ref -> S] /\ cache' = kept /\ call' = calls
  BY <1>1, CommitIs DEF S
<1> QED
  BY <1>2 DEF HeapTypes, Calls, S

LEMMA SavesTyped ==
    ASSUME HeapTypes, Sound \subseteq Sound', NewRun \in Sound', NEW rec \in Sound',
           NEW calls \in Calls,
           \/ SaveCached(rec, calls)
           \/ SaveThenRead(rec, calls)
           \/ calls = call /\ SaveFresh(rec)
    PROVE  HeapTypes'
<1>1. cache \in Ref /\ call \in Calls
  BY DEF HeapTypes
<1>2. Fresh(cache, calls) \in Ref
  BY <1>1, FreshIs
<1> QED
  BY <1>1, <1>2, CommitTyped DEF SaveCached, SaveThenRead, SaveFresh

\* Where no approval is registered.
LEMMA ShownStays ==
    ASSUME shown' = shown, Len(shown) \in Nat
    PROVE  Sound' = Sound /\ NewRun \in Sound'
BY NewRunSound DEF Sound

LEMMA RunIs ==
    ASSUME HeapTypes
    PROVE  run \in Sound /\ run.request \in Command /\ run.approval \in Approval
           /\ \A r \in Ref : objects[r] \in Sound
BY DEF HeapTypes, run, Sound, Record

LEMMA LaunchTyped ==
    ASSUME RestTypes, NEW rec, Launch(rec), on' = on
    PROVE  ready' \in Nat /\ on' \in Nat /\ ready' + on' <= MaxWorkers
BY AgentAssumption DEF RestTypes, Launch

LEMMA NumbersTyped ==
    ASSUME RestTypes
    PROVE  /\ asked \in Command /\ 0 \in Command /\ 0 \in Approval
           /\ asked < MaxCommands => asked + 1 \in Command
BY AgentAssumption DEF RestTypes, Command, Approval

LEMMA Replaces ==
    ASSUME NEW S, NEW s \in Seq(S), NEW a, NEW v, a \in 1 .. Len(s) => v \in S
    PROVE  /\ [s EXCEPT ![a] = v] \in Seq(S) /\ Len([s EXCEPT ![a] = v]) = Len(s)
           /\ \A i \in 1 .. Len(s) : [s EXCEPT ![a] = v][i] = IF i = a THEN v ELSE s[i]
<1>1. CASE a \in 1 .. Len(s)
  BY <1>1, ExceptSeq
<1>2. CASE a \notin 1 .. Len(s)
  <2>1. [s EXCEPT ![a] = v] = s
    BY <1>2
  <2> QED
    BY <1>2, <2>1
<1> QED
  BY <1>1, <1>2

\* The records of approvals, when none is added.
LEMMA ApprovalsStay ==
    ASSUME ApprovalTypes, shown' = shown, sent' = sent, timer' \in Approval,
           \/ verdict' = verdict
           \/ \E a, v : verdict' = [verdict EXCEPT ![a] = v] /\ v \in Verdict
    PROVE  ApprovalTypes' /\ Sound' = Sound /\ NewRun \in Sound'
<1>1. verdict' \in Seq(Verdict) /\ Len(verdict') = Len(verdict)
  <2>1. verdict \in Seq(Verdict)
    BY DEF ApprovalTypes
  <2>2. ASSUME NEW a, NEW v \in Verdict
        PROVE  /\ [verdict EXCEPT ![a] = v] \in Seq(Verdict)
               /\ Len([verdict EXCEPT ![a] = v]) = Len(verdict)
    BY <2>1, Replaces
  <2> QED
    BY <2>1, <2>2
<1>2. Len(shown) \in Nat
  BY DEF ApprovalTypes
<1> QED
  BY <1>1, <1>2, ShownStays DEF ApprovalTypes

LEMMA ExecuteTyped ==
    ASSUME Types, NEW c \in Call, Post(c) \/ Execute(c)
    PROVE  Types'
<1> USE DEF Types
<1>0. 0 \in Command /\ 0 \in Approval
  BY NumbersTyped
<1>1. /\ call[c].command \in Command /\ call[c].by \in Approval /\ call[c].ref \in Ref
      /\ Ends(c) \in Calls /\ Holds(c, call[c].command, call[c].by) \in Calls
      /\ run \in Sound /\ objects[call[c].ref] \in Sound /\ cache \in Ref
      /\ Len(shown) \in Nat /\ timer \in Approval
  <2>1. call[c].command \in Command /\ call[c].by \in Approval /\ call[c].ref \in Ref
    BY <1>0, CallTyped
  <2>2. Ends(c) \in Calls /\ Holds(c, call[c].command, call[c].by) \in Calls
    BY <2>1, CallTyped
  <2>3. run \in Sound /\ objects[call[c].ref] \in Sound /\ cache \in Ref
    BY <2>1, RunIs DEF HeapTypes
  <2>4. Len(shown) \in Nat /\ timer \in Approval
    BY DEF ApprovalTypes
  <2> QED
    BY <2>1, <2>2, <2>3, <2>4
<1>2. CASE Post(c)
  <2>1. /\ asked' = asked + 1 /\ asked < MaxCommands /\ objects' = objects /\ cache' = cache
        /\ call' = [call EXCEPT ![c] = [Idle EXCEPT !.pc = "posted", !.command = asked']]
        /\ UNCHANGED approvals /\ UNCHANGED tasks /\ UNCHANGED rest
    BY <1>2 DEF Post
  <2>2. asked' \in Command
    BY <2>1, NumbersTyped
  <2>3. call' \in Calls
    BY <1>1, <2>1, <2>2, CallTyped
  <2>4. ApprovalTypes' /\ Sound' = Sound
    BY <1>1, <2>1, ApprovalsStay DEF approvals
  <2>5. HeapTypes'
    BY <2>1, <2>3, <2>4 DEF HeapTypes, Calls
  <2>6. RestTypes'
    BY <2>1, <2>2 DEF RestTypes, tasks, rest
  <2> QED
    BY <2>4, <2>5, <2>6
<1>3. CASE Start(c)
  <2>1. UNCHANGED <<asked, approvals, bridges, on, rest>>
    BY <1>3 DEF Start
  <2>2. ApprovalTypes' /\ Sound' = Sound /\ NewRun \in Sound'
    BY <1>1, <2>1, ApprovalsStay DEF approvals
  <2>3. WithQuestion(run, call[c].command) \in Sound' /\ Blocked(run) \in Sound' /\ run \in Sound'
    BY <1>1, <2>2, QuestionSound, AnswersSound
  <2>4. \/ SaveCached(run, Ends(c)) \/ SaveThenRead(run, Ends(c))
        \/ SaveCached(WithQuestion(run, call[c].command), Ends(c))
        \/ SaveCached(Blocked(run), Ends(c))
        \/ SaveCached(run, Holds(c, call[c].command, call[c].by))
    BY <1>3 DEF Start, Gated, Repeated, Sends, Returns
  <2>5. HeapTypes'
    BY <1>1, <2>2, <2>3, <2>4, SavesTyped
  <2>6. /\ UNCHANGED polling \/ Poll(run)
        /\ UNCHANGED ready \/ Launch(run)
    BY <1>3 DEF Start, Gated, Repeated, Sends, Returns
  <2>7. polling' \in BOOLEAN
    <3>1. polling \in BOOLEAN
      BY DEF RestTypes
    <3>2. CASE Poll(run)
      BY <3>2 DEF Poll
    <3> QED
      BY <2>6, <3>1, <3>2
  <2>8. ready' \in Nat /\ on' \in Nat /\ ready' + on' <= MaxWorkers
    BY <2>1, <2>6, LaunchTyped DEF RestTypes
  <2>9. RestTypes'
    BY <2>1, <2>7, <2>8 DEF RestTypes, rest
  <2> QED
    BY <2>2, <2>5, <2>9
<1>4. CASE Dispatched(c)
  <2> DEFINE old == objects[call[c].ref]
             rec == [old EXCEPT !.active = call[c].command]
             kept == IF call[c].by # 0 THEN Fresh(call[c].ref, Ends(c)) ELSE call[c].ref
  <2>1. /\ Commit(call[c].ref, rec, Ends(c), kept)
        /\ bridges' = bridges \cup {call[c].command}
        /\ UNCHANGED shown /\ UNCHANGED verdict /\ UNCHANGED timer
        /\ UNCHANGED <<asked, ready, on, rest>>
    BY <1>4 DEF Dispatched, Responds
  <2>2. polling' = polling \/ Poll(old)
    BY <1>4 DEF Dispatched
  <2>3. \/ sent' = sent
        \/ sent' = [sent EXCEPT ![call[c].by] = Append(@, call[c].command)]
    BY <1>4 DEF Dispatched
  <2>4. Sound' = Sound /\ NewRun \in Sound'
    BY <1>1, <2>1, ShownStays
  <2>5. rec \in Sound' /\ kept \in Ref
    BY <1>1, <2>4, SavesSound, FreshIs
  <2> HIDE DEF rec, kept
  <2>6. HeapTypes'
    BY <1>1, <2>1, <2>4, <2>5, CommitTyped
  <2>7. sent' \in Seq(Seq(Command)) /\ Len(sent') = Len(sent)
    <3> DEFINE T == Seq(Command)  k == call[c].command  a == call[c].by
    <3>1. sent \in Seq(T) /\ k \in Command
      BY <1>1 DEF ApprovalTypes
    <3>2. \A t \in T : Append(t, k) \in T
      BY <3>1
    <3> HIDE DEF T, k, a
    <3>3. CASE sent' = [sent EXCEPT ![a] = Append(@, k)]
      <4>1. sent' = [sent EXCEPT ![a] = Append(sent[a], k)]
        BY <3>3
      <4>2. a \in 1 .. Len(sent) => Append(sent[a], k) \in T
        BY <3>1, <3>2
      <4> QED
        BY <3>1, <4>1, <4>2, Replaces DEF T
    <3> QED
      BY <2>3, <3>1, <3>3 DEF T, k, a
  <2>8. ApprovalTypes'
    BY <2>1, <2>7 DEF ApprovalTypes
  <2>9. polling' \in BOOLEAN
    <3>1. polling \in BOOLEAN
      BY DEF RestTypes
    <3>2. CASE Poll(old)
      BY <3>2 DEF Poll
    <3> QED
      BY <2>2, <3>1, <3>2
  <2>10. bridges' \subseteq Command
    BY <1>1, <2>1 DEF RestTypes
  <2>11. RestTypes'
    BY <2>1, <2>9, <2>10 DEF RestTypes, rest
  <2> QED
    BY <2>6, <2>8, <2>11
<1>5. CASE NeedsApproval(c)
  <2> DEFINE old == objects[call[c].ref]
             rec == WithApproval(old, call[c].command, Len(shown) + 1)
  <2>1. Commit(call[c].ref, rec, Ends(c), call[c].ref) /\ Registers(old, call[c].command)
        /\ UNCHANGED <<asked, tasks, rest>>
    BY <1>5 DEF NeedsApproval, Responds
  <2>2. ApprovalTypes' /\ Sound \subseteq Sound' /\ rec \in Sound'
    BY <1>1, <2>1, ApprovalSound
  <2>3. NewRun \in Sound'
    BY <1>1, <2>2, NewRunSound
  <2> HIDE DEF rec
  <2>4. HeapTypes'
    BY <1>1, <2>1, <2>2, <2>3, CommitTyped
  <2>5. RestTypes'
    BY <2>1 DEF RestTypes, tasks, rest
  <2> QED
    BY <2>2, <2>4, <2>5
<1>6. CASE NotUnderstood(c)
  <2> DEFINE old == objects[call[c].ref]
  <2>1. /\ \/ Commit(call[c].ref, Blocked(old), Ends(c), call[c].ref)
           \/ Commit(call[c].ref, WithQuestion(old, call[c].command), Ends(c), call[c].ref)
        /\ UNCHANGED <<asked, approvals, tasks, rest>>
    BY <1>6 DEF NotUnderstood, Responds
  <2>2. ApprovalTypes' /\ Sound' = Sound /\ NewRun \in Sound'
    BY <1>1, <2>1, ApprovalsStay DEF approvals
  <2>3. Blocked(old) \in Sound' /\ WithQuestion(old, call[c].command) \in Sound'
    BY <1>1, <2>2, QuestionSound, AnswersSound
  <2>4. HeapTypes'
    BY <1>1, <2>1, <2>2, <2>3, CommitTyped
  <2>5. RestTypes'
    BY <2>1 DEF RestTypes, tasks, rest
  <2> QED
    BY <2>2, <2>4, <2>5
<1>7. CASE NotExecuted(c)
  <2> DEFINE old == objects[call[c].ref]
             kept == IF call[c].by # 0 THEN Fresh(call[c].ref, Ends(c)) ELSE call[c].ref
  <2>1. /\ Commit(call[c].ref, old, Ends(c), kept)
        /\ UNCHANGED ready \/ Launch(old)
        /\ UNCHANGED <<asked, approvals, bridges, polling, on, rest>>
    BY <1>7 DEF NotExecuted, Responds
  <2>2. ApprovalTypes' /\ Sound' = Sound /\ NewRun \in Sound'
    BY <1>1, <2>1, ApprovalsStay DEF approvals
  <2>3. kept \in Ref
    BY <1>1, FreshIs
  <2> HIDE DEF kept
  <2>4. HeapTypes'
    BY <1>1, <2>1, <2>2, <2>3, CommitTyped
  <2>5. ready' \in Nat /\ on' \in Nat /\ ready' + on' <= MaxWorkers
    BY <2>1, LaunchTyped DEF RestTypes
  <2>6. RestTypes'
    BY <2>1, <2>5 DEF RestTypes, rest
  <2> QED
    BY <2>2, <2>4, <2>6
<1>8. CASE ExecFails(c)
  <2>1. SaveCached(run, Ends(c)) /\ UNCHANGED <<asked, approvals, tasks, rest>>
    BY <1>8 DEF ExecFails
  <2>2. ApprovalTypes' /\ Sound' = Sound /\ NewRun \in Sound'
    BY <1>1, <2>1, ApprovalsStay DEF approvals
  <2>3. HeapTypes'
    BY <1>1, <2>1, <2>2, SavesTyped
  <2>4. RestTypes'
    BY <2>1 DEF RestTypes, tasks, rest
  <2> QED
    BY <2>2, <2>3, <2>4
<1> QED
  BY <1>2, <1>3, <1>4, <1>5, <1>6, <1>7, <1>8 DEF Execute

LEMMA BridgedTyped ==
    ASSUME Types, NEW k \in bridges, Bridged(k)
    PROVE  Types'
<1> USE DEF Types
<1> DEFINE rec == [run EXCEPT !.active = 0, !.tried = @ \cup {k}]
<1>1. /\ UNCHANGED approvals /\ UNCHANGED rest /\ UNCHANGED <<polling, ready, on>>
      /\ bridges' = bridges \ {k} /\ k \in Command
  BY DEF Bridged, RestTypes
<1>2. ApprovalTypes' /\ Sound' = Sound /\ NewRun \in Sound'
  BY <1>1, ApprovalsStay DEF approvals, ApprovalTypes
<1>3. Len(shown) \in Nat /\ run \in Sound /\ call \in Calls
  BY RunIs DEF ApprovalTypes, HeapTypes
<1>4. rec \in Sound /\ WithQuestion(rec, k) \in Sound
  BY <1>1, <1>3, SavesSound, QuestionSound
<1>5. \/ asked' = asked /\ (SaveCached(rec, call) \/ SaveCached(WithQuestion(rec, k), call))
      \/ /\ asked < MaxCommands /\ asked' = asked + 1
         /\ \E c \in Call : SaveCached(rec, IF Refuses(rec) THEN call ELSE Holds(c, asked', 0))
  BY DEF Bridged
<1> HIDE DEF rec
<1>6. asked' \in Command
  BY <1>5, NumbersTyped
<1>7. \E calls \in Calls : SaveCached(rec, calls) \/ SaveCached(WithQuestion(rec, k), calls)
  <2>1. \A c \in Call : Holds(c, asked', 0) \in Calls
    BY <1>6, CallTyped, NumbersTyped
  <2> QED
    BY <1>3, <1>5, <2>1
<1>8. HeapTypes'
  BY <1>2, <1>4, <1>7, SavesTyped
<1>9. RestTypes'
  BY <1>1, <1>6 DEF RestTypes, rest
<1> QED
  BY <1>2, <1>8, <1>9

\* The answers of users, the timer and the cancellation.
LEMMA AnswersTyped ==
    ASSUME Types, \/ \E c \in Call : Approve(c)
                  \/ Reject \/ LateAnswer \/ TimeOut \/ Hydrate \/ Input \/ Cancel
    PROVE  Types'
<1> USE DEF Types
<1>1. /\ Len(shown) \in Nat /\ timer \in Approval /\ 0 \in Approval /\ call \in Calls
      /\ run \in Sound /\ run.request \in Command /\ run.approval \in Approval
      /\ {"approved", "rejected", "expired"} \subseteq Verdict
  BY RunIs, NumbersTyped DEF ApprovalTypes, HeapTypes, Verdict
<1>2. ASSUME NEW c \in Call, Approve(c) PROVE Types'
  <2> DEFINE rec == [run EXCEPT !.status = "running", !.approval = 0, !.request = 0]
             calls == [call EXCEPT ![c] = [pc |-> "posted", ref |-> 0,
                                           command |-> run.request, by |-> run.approval]]
  <2>1. /\ SaveCached(rec, calls) /\ timer' = 0
        /\ verdict' = [verdict EXCEPT ![run.approval] = "approved"]
        /\ UNCHANGED <<asked, shown, sent, tasks, rest>>
    BY <1>2 DEF Approve
  <2>2. ApprovalTypes' /\ Sound' = Sound /\ NewRun \in Sound'
    BY <1>1, <2>1, ApprovalsStay
  <2>3. rec \in Sound /\ calls \in Calls
    BY <1>1, AnswersSound, CallTyped
  <2> HIDE DEF rec, calls
  <2>4. HeapTypes'
    BY <2>1, <2>2, <2>3, SavesTyped
  <2>5. RestTypes'
    BY <2>1 DEF RestTypes, tasks, rest
  <2> QED
    BY <2>2, <2>4, <2>5
<1>3. ASSUME Reject PROVE Types'
  <2> DEFINE rec == [run EXCEPT !.approval = 0, !.request = 0]
             replan == [rec EXCEPT !.status = "running", !.replans = @ + 1]
             over == [rec EXCEPT !.status = "blocked"]
  <2>1. /\ \/ run.replans < MaxReplans /\ SaveThenRead(replan, call) /\ Launch(replan)
           \/ SaveCached(over, call) /\ UNCHANGED ready
        /\ timer' = 0 /\ verdict' = [verdict EXCEPT ![run.approval] = "rejected"]
        /\ UNCHANGED <<asked, shown, sent, bridges, polling, on, rest>>
    BY <1>3 DEF Reject
  <2>2. ApprovalTypes' /\ Sound' = Sound /\ NewRun \in Sound'
    BY <1>1, <2>1, ApprovalsStay
  <2>3. over \in Sound /\ (run.replans < MaxReplans => replan \in Sound)
    BY <1>1, AnswersSound
  <2> HIDE DEF rec, replan, over
  <2>4. HeapTypes'
    BY <1>1, <2>1, <2>2, <2>3, SavesTyped
  <2>5. ready' \in Nat /\ on' \in Nat /\ ready' + on' <= MaxWorkers
    BY <2>1, LaunchTyped DEF RestTypes
  <2>6. RestTypes'
    BY <2>1, <2>5 DEF RestTypes, rest
  <2> QED
    BY <2>2, <2>4, <2>6
<1>4. ASSUME LateAnswer PROVE Types'
  <2>1. /\ UNCHANGED heap /\ UNCHANGED <<asked, shown, verdict, sent, tasks, cancel, restarts>>
        /\ timer' = 0 /\ lost' = TRUE
    BY <1>4 DEF LateAnswer
  <2>2. ApprovalTypes' /\ Sound' = Sound
    BY <1>1, <2>1, ApprovalsStay
  <2>3. HeapTypes'
    BY <2>1, <2>2 DEF HeapTypes, heap, Calls
  <2>4. RestTypes'
    BY <2>1 DEF RestTypes, tasks
  <2> QED
    BY <2>2, <2>3, <2>4
<1>5. ASSUME TimeOut PROVE Types'
  <2> DEFINE rec == [run EXCEPT !.status = "blocked", !.approval = 0, !.request = 0]
  <2>1. /\ \/ SaveCached(rec, call) /\ verdict' = [verdict EXCEPT ![timer] = "expired"]
           \/ UNCHANGED heap /\ UNCHANGED verdict
        /\ timer' = 0 /\ UNCHANGED <<asked, shown, sent, tasks, rest>>
    BY <1>5 DEF TimeOut
  <2>2. ApprovalTypes' /\ Sound' = Sound /\ NewRun \in Sound'
    BY <1>1, <2>1, ApprovalsStay
  <2>3. rec \in Sound
    BY <1>1, AnswersSound
  <2> HIDE DEF rec
  <2>4. HeapTypes'
    <3>1. CASE SaveCached(rec, call)
      BY <1>1, <2>2, <2>3, <3>1, SavesTyped
    <3>2. CASE UNCHANGED heap
      BY <2>2, <3>2 DEF HeapTypes, heap, Calls
    <3> QED
      BY <2>1, <3>1, <3>2
  <2>5. RestTypes'
    BY <2>1 DEF RestTypes, tasks, rest
  <2> QED
    BY <2>2, <2>4, <2>5
<1>6. ASSUME Hydrate PROVE Types'
  <2>1. SaveFresh(run) /\ UNCHANGED <<asked, approvals, tasks, rest>>
    BY <1>6 DEF Hydrate
  <2>2. ApprovalTypes' /\ Sound' = Sound /\ NewRun \in Sound'
    BY <1>1, <2>1, ApprovalsStay DEF approvals
  <2>3. HeapTypes'
    BY <1>1, <2>1, <2>2, SavesTyped
  <2>4. RestTypes'
    BY <2>1 DEF RestTypes, tasks, rest
  <2> QED
    BY <2>2, <2>3, <2>4
<1>7. ASSUME Input PROVE Types'
  <2> DEFINE rec == [run EXCEPT !.status = "running", !.question = FALSE]
  <2>1. SaveThenRead(rec, call) /\ Launch(rec)
        /\ UNCHANGED <<asked, approvals, bridges, polling, on, rest>>
    BY <1>7 DEF Input
  <2>2. ApprovalTypes' /\ Sound' = Sound /\ NewRun \in Sound'
    BY <1>1, <2>1, ApprovalsStay DEF approvals
  <2>3. rec \in Sound
    BY <1>1, AnswersSound
  <2> HIDE DEF rec
  <2>4. HeapTypes'
    BY <1>1, <2>1, <2>2, <2>3, SavesTyped
  <2>5. ready' \in Nat /\ on' \in Nat /\ ready' + on' <= MaxWorkers
    BY <2>1, LaunchTyped DEF RestTypes
  <2>6. RestTypes'
    BY <2>1, <2>5 DEF RestTypes, rest
  <2> QED
    BY <2>2, <2>4, <2>6
<1>8. ASSUME Cancel PROVE Types'
  <2>1. /\ \/ SaveCached(Cancelled(run), call)
           \/ UNCHANGED heap
        /\ timer' \in {timer, 0} /\ cancel' \in {"await", "done"}
        /\ UNCHANGED <<asked, shown, verdict, sent, tasks, restarts, lost>>
    BY <1>8 DEF Cancel, Cancelling
  <2>2. ApprovalTypes' /\ Sound' = Sound /\ NewRun \in Sound'
    BY <1>1, <2>1, ApprovalsStay
  <2>3. Cancelled(run) \in Sound
    BY <1>1, AnswersSound
  <2>4. HeapTypes'
    <3>1. CASE SaveCached(Cancelled(run), call)
      BY <1>1, <2>2, <2>3, <3>1, SavesTyped
    <3>2. CASE UNCHANGED heap
      BY <2>2, <3>2 DEF HeapTypes, heap, Calls
    <3> QED
      BY <2>1, <3>1, <3>2
  <2>5. RestTypes'
    BY <2>1 DEF RestTypes, tasks
  <2> QED
    BY <2>2, <2>4, <2>5
<1> QED
  BY <1>2, <1>3, <1>4, <1>5, <1>6, <1>7, <1>8

LEMMA WorkerTyped ==
    ASSUME Types, Worker \/ PollTurn
    PROVE  Types'
<1> USE DEF Types
<1>1. /\ Len(shown) \in Nat /\ timer \in Approval /\ 0 \in Approval /\ call \in Calls
      /\ run \in Sound /\ 0 \in Command
  BY RunIs, NumbersTyped DEF ApprovalTypes, HeapTypes
<1>2. ASSUME NEW rec, rec \in Sound, Stops(rec),
             [rec EXCEPT !.worker = FALSE] \in Sound,
             UNCHANGED <<shown, verdict, sent>>, timer' \in Approval
      PROVE  Types'
  <2>1. /\ SaveFresh([rec EXCEPT !.worker = FALSE])
        /\ on > 0 /\ on' = on - 1 /\ UNCHANGED <<asked, bridges, polling, ready, rest>>
    BY <1>2 DEF Stops
  <2>2. ApprovalTypes' /\ Sound' = Sound /\ NewRun \in Sound'
    BY <1>1, <1>2, ApprovalsStay
  <2>3. HeapTypes'
    BY <1>1, <1>2, <2>1, <2>2, SavesTyped
  <2>4. RestTypes'
    BY <2>1, AgentAssumption DEF RestTypes, rest
  <2> QED
    BY <2>2, <2>3, <2>4
<1>3. ASSUME WorkerBegins PROVE Types'
  <2>1. /\ SaveCached([run EXCEPT !.worker = TRUE], call)
        /\ ready > 0 /\ ready' = ready - 1 /\ on' = on + 1
        /\ UNCHANGED <<asked, approvals, bridges, polling, rest>>
    BY <1>3 DEF WorkerBegins
  <2>2. ApprovalTypes' /\ Sound' = Sound /\ NewRun \in Sound'
    BY <1>1, <2>1, ApprovalsStay DEF approvals
  <2>3. HeapTypes'
    BY <1>1, <2>1, <2>2, SavesTyped, SavesSound
  <2>4. RestTypes'
    BY <2>1, AgentAssumption DEF RestTypes, rest
  <2> QED
    BY <2>2, <2>3, <2>4
<1>4. ASSUME WorkerEvent PROVE Types'
  <2>1. CASE Hydrate
    BY <2>1, AnswersTyped
  <2>2. CASE ~Hydrate
    <3> DEFINE asks == [WithApproval(run, asked', Len(shown) + 1) EXCEPT !.worker = FALSE]
               question == [WithQuestion(run, asked') EXCEPT !.worker = FALSE]
    <3>1. /\ on > 0 /\ on' = on - 1 /\ asked < MaxCommands /\ asked' = asked + 1
          /\ \/ SaveFresh(asks) /\ Registers(run, asked')
             \/ SaveFresh(question) /\ UNCHANGED approvals
          /\ UNCHANGED <<bridges, polling, ready, rest>>
      BY <1>4, <2>2 DEF WorkerEvent
    <3>2. asked' \in Command
      BY <3>1, NumbersTyped
    <3>3. RestTypes'
      BY <3>1, <3>2, AgentAssumption DEF RestTypes, rest
    <3>4. CASE SaveFresh(asks) /\ Registers(run, asked')
      <4>1. ApprovalTypes' /\ Sound \subseteq Sound' /\ asks \in Sound'
        BY <1>1, <3>2, <3>4, ApprovalSound
      <4>2. NewRun \in Sound'
        BY <1>1, <4>1, NewRunSound
      <4> HIDE DEF asks
      <4>3. HeapTypes'
        BY <1>1, <3>4, <4>1, <4>2, SavesTyped
      <4> QED
        BY <3>3, <4>1, <4>3
    <3>5. CASE SaveFresh(question) /\ UNCHANGED approvals
      <4>1. ApprovalTypes' /\ Sound' = Sound /\ NewRun \in Sound'
        BY <1>1, <3>5, ApprovalsStay DEF approvals
      <4>2. WithQuestion(run, asked') \in Sound
        BY <1>1, <3>2, QuestionSound
      <4>3. question \in Sound
        BY <1>1, <4>2, SavesSound
      <4> HIDE DEF question
      <4>4. HeapTypes'
        BY <1>1, <3>5, <4>1, <4>3, SavesTyped
      <4> QED
        BY <3>3, <4>1, <4>4
    <3> QED
      BY <3>1, <3>4, <3>5
  <2> QED
    BY <2>1, <2>2
<1>5. ASSUME WorkerPauses PROVE Types'
  <2>1. Stops(run) /\ UNCHANGED <<shown, verdict, sent>> /\ timer' \in Approval
    BY <1>1, <1>5 DEF WorkerPauses, approvals
  <2>2. [run EXCEPT !.worker = FALSE] \in Sound
    BY <1>1, SavesSound
  <2> QED
    BY <1>1, <1>2, <2>1, <2>2
<1>6. ASSUME WorkerEnds PROVE Types'
  <2>1. PICK s \in {"completed", "blocked"} :
          Stops([run EXCEPT !.status = s]) /\ UNCHANGED <<shown, verdict, sent>> /\ timer' \in Approval
    BY <1>1, <1>6 DEF WorkerEnds
  <2>2. ~Unresolved(run) /\ ~IsTerminal(run)
    BY <1>6 DEF WorkerEnds
  <2>3. [[run EXCEPT !.status = s] EXCEPT !.worker = FALSE] \in Sound
    BY <1>1, <2>2, SavesSound
  <2>4. [run EXCEPT !.status = s] \in Sound
    BY <1>1, <2>2 DEF Sound, Record, Status, Terminal, Waiting, Unresolved
  <2> QED
    BY <1>2, <2>1, <2>3, <2>4
<1>7. ASSUME WorkerFails PROVE Types'
  <2>1. /\ \/ IsTerminal(run) /\ Stops(run)
           \/ Stops([run EXCEPT !.status = "failed"])
        /\ UNCHANGED <<shown, verdict, sent>> /\ timer' \in Approval
    BY <1>1, <1>7 DEF WorkerFails
  <2>2. /\ [[run EXCEPT !.status = "failed"] EXCEPT !.worker = FALSE] \in Sound
        /\ [run EXCEPT !.worker = FALSE] \in Sound
    BY <1>1, SavesSound
  <2>3. [run EXCEPT !.status = "failed"] \in Sound
    BY <1>1 DEF Sound, Record, Status, Terminal, Waiting
  <2> QED
    BY <1>1, <1>2, <2>1, <2>2, <2>3
<1>8. ASSUME PollTurn PROVE Types'
  <2>1. /\ SaveFresh(run) /\ polling' \in BOOLEAN
        /\ Launch(run) \/ UNCHANGED ready
        /\ UNCHANGED <<asked, approvals, bridges, on, rest>>
    BY <1>8 DEF PollTurn
  <2>2. ApprovalTypes' /\ Sound' = Sound /\ NewRun \in Sound'
    BY <1>1, <2>1, ApprovalsStay DEF approvals
  <2>3. HeapTypes'
    BY <1>1, <2>1, <2>2, SavesTyped
  <2>4. ready' \in Nat /\ on' \in Nat /\ ready' + on' <= MaxWorkers
    BY <2>1, LaunchTyped DEF RestTypes
  <2>5. RestTypes'
    BY <2>1, <2>4 DEF RestTypes, rest
  <2> QED
    BY <2>2, <2>3, <2>5
<1> QED
  BY <1>3, <1>4, <1>5, <1>6, <1>7, <1>8 DEF Worker

LEMMA RestartTyped ==
    ASSUME Types, Restart
    PROVE  Types'
<1> USE DEF Types
<1>1. /\ SaveCached(run, [c \in Call |-> Idle]) /\ timer' = 0
      /\ restarts < MaxRestarts /\ restarts' = restarts + 1 /\ lost' = TRUE
      /\ bridges' = {} /\ polling' = FALSE /\ ready' = 0 /\ on' = 0
      /\ cancel' = IF cancel = "await" THEN "no" ELSE cancel
      /\ UNCHANGED <<asked, shown, verdict, sent>>
  BY DEF Restart
<1>2. ApprovalTypes' /\ Sound' = Sound /\ NewRun \in Sound'
  BY <1>1, ApprovalsStay, NumbersTyped DEF ApprovalTypes
<1>3. run \in Sound /\ [c \in Call |-> Idle] \in Calls
  BY RunIs, CallTyped, NumbersTyped, AgentAssumption
<1>4. HeapTypes'
  BY <1>1, <1>2, <1>3, SavesTyped
<1>5. cancel' \in {"no", "await", "done"} /\ restarts' \in 0 .. MaxRestarts
  BY <1>1, AgentAssumption DEF RestTypes
<1>6. ready' \in Nat /\ on' \in Nat /\ ready' + on' <= MaxWorkers
  BY <1>1, AgentAssumption
<1>7. polling' \in BOOLEAN /\ lost' \in BOOLEAN
  BY <1>1
<1>8. asked' \in Command /\ bridges' \subseteq Command
  BY <1>1 DEF RestTypes
<1>9. RestTypes'
  BY <1>5, <1>6, <1>7, <1>8 DEF RestTypes
<1> QED
  BY <1>2, <1>4, <1>9

LEMMA StepTyped == Types /\ [Next]_vars => Types'
<1> SUFFICES ASSUME Types, [Next]_vars PROVE Types'
  OBVIOUS
<1>1. CASE UNCHANGED vars
  BY <1>1 DEF vars, Types, HeapTypes, ApprovalTypes, RestTypes, Sound, Calls
<1>2. CASE Next
  BY <1>2, ExecuteTyped, BridgedTyped, AnswersTyped, WorkerTyped, RestartTyped DEF Next
<1> QED
  BY <1>1, <1>2

LEMMA InitTyped == Init => Types
<1> SUFFICES ASSUME Init PROVE Types
  OBVIOUS
<1>1. shown = <<>> /\ verdict = <<>> /\ sent = <<>> /\ Len(shown) = 0
  BY DEF Init
<1>2. NewRun \in Sound
  BY <1>1, NewRunSound
<1>3. 0 \in Ref /\ 0 \in Command /\ 0 \in Approval
  BY AgentAssumption, FS_CardinalityType DEF Ref, Command, Approval
<1>4. objects \in [Ref -> Sound] /\ cache \in Ref
  BY <1>2, <1>3 DEF Init
<1>5. call \in Calls
  BY <1>3 DEF Init, Calls, Idle
<1>6. ApprovalTypes
  BY <1>1, <1>3, AgentAssumption DEF Init, ApprovalTypes
<1>7. RestTypes
  BY <1>3, AgentAssumption DEF Init, RestTypes
<1> QED
  BY <1>4, <1>5, <1>6, <1>7 DEF Types, HeapTypes

THEOREM Typed == Spec => []Types
BY InitTyped, StepTyped, PTL DEF Spec

\* The variables keep their types; whatever objects a run has, the one that
\* counts waits for an approval only if it names one that was asked for.
THEOREM TypeCorrect == Spec => []TypeOK
<1>1. ASSUME Types PROVE TypeOK
  <2>1. /\ objects \in [Ref -> Record] /\ cache \in Ref
        /\ run.status = "waiting_approval" => run.approval \in 1 .. Len(shown)
    <3>1. run \in Sound /\ Len(shown) \in Nat
      BY <1>1, RunIs DEF Types, ApprovalTypes
    <3>2. run.status = "waiting_approval" => run.approval \in 1 .. Len(shown)
      BY <3>1 DEF Sound, Record, Approval
    <3> QED
      BY <1>1, <3>2 DEF Types, HeapTypes, Sound
  <2>2. DOMAIN verdict = DOMAIN shown /\ DOMAIN sent = DOMAIN shown
    BY <1>1 DEF Types, ApprovalTypes
  <2> QED
    BY <1>1, <2>1, <2>2 DEF Types, HeapTypes, ApprovalTypes, RestTypes, TypeOK, Calls
<1> QED
  BY <1>1, Typed, PTL

\* The worker never completes a run that still waits for the user, whichever of
\* its objects becomes the one that counts.
THEOREM CompletedAreSettled == Spec => []CompletedIsSettled
<1>1. ASSUME Types PROVE CompletedIsSettled
  BY <1>1, RunIs DEF Types, Sound, CompletedIsSettled
<1> QED
  BY <1>1, Typed, PTL

-----------------------------------------------------------------------------
(* Moves: what a step does to the record that counts and to the approvals *)

\* No approval is asked for in this record that was not; commands stay tried.
Mends(rec) ==
    /\ rec.approval \in {0, run.approval} /\ run.tried \subseteq rec.tried
    /\ rec.approval # 0 => rec.request = run.request \/ rec.request \in rec.tried

\* Calls end, begin without an approval, or send what has not been tried.
MovesOn(calls) ==
    \A d \in Call :
        \/ calls[d] = call[d] \/ calls[d].pc = "idle"
        \/ /\ calls[d].by = 0
           /\ calls[d].pc = "held" => calls[d].ref = cache /\ run.approval = 0
        \/ /\ call[d].pc = "posted" /\ call[d].command \notin run.tried /\ run.approval = 0
           /\ calls[d] = [pc |-> "held", ref |-> cache,
                          command |-> call[d].command, by |-> call[d].by]

\* A handler that works on the cached record.
Saves(rec, calls) == SaveCached(rec, calls) \/ SaveThenRead(rec, calls)

Rests == UNCHANGED <<objects, cache, shown, verdict, sent>> /\ MovesOn(call')
Saved ==
    \E rec \in Sound, calls \in Calls :
        /\ Mends(rec) /\ MovesOn(calls) /\ UNCHANGED <<shown, verdict, sent>>
        /\ Saves(rec, calls) \/ (calls = call /\ SaveFresh(rec))

\* The approval that is pending is answered; an approved command is posted.
Resumes(c, calls) ==
    calls = [call EXCEPT ![c] = [pc |-> "posted", ref |-> 0,
                                 command |-> run.request, by |-> run.approval]]
Answered ==
    \E rec \in Sound, calls \in Calls, v \in Verdict :
        /\ run.status = "waiting_approval"
        /\ rec.approval = 0 /\ rec.tried = run.tried
        /\ Saves(rec, calls) /\ UNCHANGED <<shown, sent>>
        /\ verdict' = [verdict EXCEPT ![run.approval] = v]
        /\ \/ calls = call
           \/ v = "approved" /\ \E c \in Call : call[c].pc = "idle" /\ Resumes(c, calls)

\* A new approval for command k is registered.
Asks(rec, k) ==
    /\ rec \in Sound' /\ rec.approval = Len(shown) + 1 /\ rec.request = k /\ k \in Command
    /\ shown' = Append(shown, k) /\ verdict' = Append(verdict, "none")
    /\ sent' = Append(sent, <<>>)
Asked == \E rec, k : Asks(rec, k) /\ rec.tried = run.tried /\ SaveFresh(rec)

\* A call is answered, and goes on with its object.
Answers(c) ==
    LET r == call[c].ref  k == call[c].command  a == call[c].by
    IN \E rec : \E kept \in {r, Fresh(r, Ends(c))} :
         /\ call[c].pc = "held" /\ Commit(r, rec, Ends(c), kept)
         /\ \/ \E j : Asks(rec, j)
            \/ /\ rec \in Sound /\ rec.approval \in {0, objects[r].approval}
               /\ UNCHANGED <<shown, verdict>>
               /\ \/ UNCHANGED sent
                  \/ a # 0 /\ sent' = [sent EXCEPT ![a] = Append(@, k)]

Moves == Rests \/ Saved \/ Answered \/ Asked \/ \E c \in Call : Answers(c)

LEMMA CallsMoveOn ==
    ASSUME HeapTypes, NEW c \in Call
    PROVE  /\ MovesOn(call) /\ MovesOn(Ends(c)) /\ MovesOn([d \in Call |-> Idle])
           /\ \A k \in Command : MovesOn([call EXCEPT ![c] = [Idle EXCEPT !.pc = "posted", !.command = k]])
           /\ run.approval = 0 => \A k \in Command : MovesOn(Holds(c, k, 0))
           /\ run.approval = 0 /\ call[c].pc = "posted" /\ call[c].command \notin run.tried
                => MovesOn(Holds(c, call[c].command, call[c].by))
<1>1. /\ Idle.pc = "idle" /\ \A k : [Idle EXCEPT !.pc = "posted", !.command = k].by = 0
      /\ \A k : [Idle EXCEPT !.pc = "posted", !.command = k].pc = "posted"
  BY DEF Idle
<1>2. ASSUME NEW x PROVE \A d \in Call : [call EXCEPT ![c] = x][d] = IF d = c THEN x ELSE call[d]
  BY DEF HeapTypes, Calls
<1>3. MovesOn(call)
  BY DEF MovesOn
<1>4. MovesOn(Ends(c)) /\ MovesOn([d \in Call |-> Idle])
  BY <1>1, <1>2 DEF MovesOn, Ends
<1>5. ASSUME NEW k \in Command
      PROVE  MovesOn([call EXCEPT ![c] = [Idle EXCEPT !.pc = "posted", !.command = k]])
  <2> DEFINE x == [Idle EXCEPT !.pc = "posted", !.command = k]
  <2>1. x.by = 0 /\ x.pc = "posted"
    BY <1>1
  <2> HIDE DEF x
  <2>2. MovesOn([call EXCEPT ![c] = x])
    BY <1>2, <2>1 DEF MovesOn
  <2> QED
    BY <2>2 DEF x
<1>6. ASSUME run.approval = 0, NEW k \in Command PROVE MovesOn(Holds(c, k, 0))
  BY <1>2, <1>6 DEF MovesOn, Holds
<1>7. ASSUME run.approval = 0, call[c].pc = "posted", call[c].command \notin run.tried
      PROVE  MovesOn(Holds(c, call[c].command, call[c].by))
  BY <1>2, <1>7 DEF MovesOn, Holds
<1> QED
  BY <1>3, <1>4, <1>5, <1>6, <1>7

\* What registers an approval asks for it.
LEMMA RegistersAsks ==
    ASSUME NEW rec \in Sound, NEW k \in Command, ApprovalTypes, Registers(rec, k)
    PROVE  LET new == WithApproval(rec, k, Len(shown) + 1)
           IN /\ ~Refuses(rec) => /\ Asks(new, k) /\ Asks([new EXCEPT !.worker = FALSE], k)
                                  /\ [new EXCEPT !.worker = FALSE].tried = rec.tried
              /\ Refuses(rec) => /\ new \in Sound /\ new.approval = rec.approval
                                 /\ UNCHANGED <<shown, verdict, sent>>
<1> DEFINE a == Len(shown) + 1
           new == WithApproval(rec, k, a)
<1>1. ASSUME ~Refuses(rec)
      PROVE  /\ Asks(new, k) /\ Asks([new EXCEPT !.worker = FALSE], k)
             /\ [new EXCEPT !.worker = FALSE].tried = rec.tried
  <2>1. new \in Sound' /\ [new EXCEPT !.worker = FALSE] \in Sound'
    BY ApprovalSound
  <2>2. new = [rec EXCEPT !.request = k, !.status = "waiting_approval", !.approval = a]
    BY <1>1 DEF WithApproval
  <2>3. new.approval = a /\ new.request = k /\ new.tried = rec.tried /\ new \in Record
    BY <2>1, <2>2 DEF Sound, Record
  <2>4. shown' = Append(shown, k) /\ verdict' = Append(verdict, "none") /\ sent' = Append(sent, <<>>)
    BY <1>1 DEF Registers
  <2> HIDE DEF new
  <2>5. /\ [new EXCEPT !.worker = FALSE].approval = a
        /\ [new EXCEPT !.worker = FALSE].request = k
        /\ [new EXCEPT !.worker = FALSE].tried = rec.tried
    BY <2>3 DEF Record
  <2> QED
    BY <2>1, <2>3, <2>4, <2>5 DEF Asks
<1>2. ASSUME Refuses(rec)
      PROVE  new \in Sound /\ new.approval = rec.approval /\ UNCHANGED <<shown, verdict, sent>>
  <2>1. new = [rec EXCEPT !.request = k]
    BY <1>2 DEF WithApproval
  <2> QED
    BY <1>2, <2>1 DEF Registers, approvals, Sound, Record
<1> QED
  BY <1>1, <1>2

\* What the handlers do to a record mends it.
LEMMA EditsMend ==
    ASSUME run \in Sound, Len(shown) \in Nat, NEW k \in Command
    PROVE  /\ Mends(run) /\ Mends(Blocked(run)) /\ Mends(Cancelled(run))
           /\ run.approval = 0 => Mends(WithQuestion(run, k))
           /\ run.approval = 0 => Mends([WithQuestion(run, k) EXCEPT !.worker = FALSE])
           /\ Mends([run EXCEPT !.status = "running", !.question = FALSE])
           /\ Mends([run EXCEPT !.worker = TRUE]) /\ Mends([run EXCEPT !.worker = FALSE])
           /\ \A s : Mends([[run EXCEPT !.status = s] EXCEPT !.worker = FALSE])
<1>1. run \in Record
  BY DEF Sound
<1> USE <1>1 DEF Record
<1>2. Mends(run)
  BY DEF Mends
<1>3. Mends(Blocked(run))
  BY DEF Mends, Blocked
<1>4. Mends(Cancelled(run))
  BY DEF Mends, Cancelled
<1>5. run.approval = 0 => Mends(WithQuestion(run, k))
  BY DEF Mends, WithQuestion
<1>6. run.approval = 0 => Mends([WithQuestion(run, k) EXCEPT !.worker = FALSE])
  BY DEF Mends, WithQuestion
<1>7. Mends([run EXCEPT !.status = "running", !.question = FALSE])
  BY DEF Mends
<1>8. Mends([run EXCEPT !.worker = TRUE]) /\ Mends([run EXCEPT !.worker = FALSE])
  BY DEF Mends
<1>9. \A s : Mends([[run EXCEPT !.status = s] EXCEPT !.worker = FALSE])
  BY DEF Mends
<1> QED
  BY <1>2, <1>3, <1>4, <1>5, <1>6, <1>7, <1>8, <1>9

\* A bridge has tried its command, whether it asks a question about it or not.
LEMMA BridgeMends ==
    ASSUME run \in Sound, NEW k \in Command, Len(shown) \in Nat
    PROVE  LET rec == [run EXCEPT !.active = 0, !.tried = @ \cup {k}]
           IN Mends(rec) /\ Mends(WithQuestion(rec, k))
<1> DEFINE rec == [run EXCEPT !.active = 0, !.tried = @ \cup {k}]
<1>1. rec \in Record
  BY SavesSound DEF Sound
<1>2. rec.approval = run.approval /\ rec.request = run.request /\ rec.tried = run.tried \cup {k}
  BY DEF Sound, Record
<1> HIDE DEF rec
<1>3. Mends(rec)
  BY <1>2 DEF Mends
<1> DEFINE q == WithQuestion(rec, k)
<1>4. q.approval = rec.approval /\ q.tried = rec.tried /\ q.request = k
  BY <1>1 DEF WithQuestion, Record
<1> HIDE DEF q
<1>5. Mends(q)
  BY <1>2, <1>4 DEF Mends
<1> QED
  BY <1>3, <1>5 DEF q, rec

LEMMA ExecuteMoves ==
    ASSUME Types, NEW c \in Call, Post(c) \/ Execute(c)
    PROVE  Moves
<1> USE DEF Types
<1> DEFINE r == call[c].ref  k == call[c].command  a == call[c].by  old == objects[r]
<1>1. k \in Command /\ a \in Approval /\ r \in Ref /\ Ends(c) \in Calls /\ Holds(c, k, a) \in Calls
  <2>1. k \in Command /\ a \in Approval /\ r \in Ref
    BY CallTyped, NumbersTyped
  <2> QED
    BY <2>1, CallTyped
<1>2. run \in Sound /\ old \in Sound /\ Len(shown) \in Nat
  BY <1>1, RunIs DEF ApprovalTypes
<1>3. CASE Post(c)
  <2>1. /\ asked' = asked + 1 /\ asked < MaxCommands
        /\ objects' = objects /\ cache' = cache /\ UNCHANGED approvals
        /\ call' = [call EXCEPT ![c] = [Idle EXCEPT !.pc = "posted", !.command = asked']]
    BY <1>3 DEF Post
  <2>2. asked' \in Command
    BY <2>1, NumbersTyped
  <2>3. MovesOn(call')
    BY <2>1, <2>2, CallsMoveOn
  <2>4. Rests
    BY <2>1, <2>3 DEF Rests, approvals
  <2> QED
    BY <2>4 DEF Moves
<1>4. CASE Start(c)
  <2>1. UNCHANGED <<shown, verdict, sent>>
    BY <1>4 DEF Start, approvals
  <2>2. \/ Saves(run, Ends(c))
        \/ ~Refuses(run) /\ Saves(WithQuestion(run, k), Ends(c))
        \/ Saves(Blocked(run), Ends(c))
        \/ /\ ~Refuses(run) /\ call[c].pc = "posted" /\ k \notin run.tried
           /\ Saves(run, Holds(c, k, a))
    BY <1>4 DEF Start, Gated, Repeated, Sends, Returns, Saves
  <2>3. ~Refuses(run) => run.approval = 0
    BY DEF Refuses
  <2>4. MovesOn(Ends(c))
    BY CallsMoveOn
  <2>5. run \in Sound /\ WithQuestion(run, k) \in Sound /\ Blocked(run) \in Sound
    BY <1>1, <1>2, QuestionSound, AnswersSound
  <2>6. Mends(run) /\ Mends(Blocked(run)) /\ (run.approval = 0 => Mends(WithQuestion(run, k)))
    BY <1>1, <1>2, EditsMend
  <2>7. run.approval = 0 /\ call[c].pc = "posted" /\ k \notin run.tried => MovesOn(Holds(c, k, a))
    BY CallsMoveOn
  <2> HIDE DEF k, a
  <2>8. \E rec \in Sound, calls \in Calls : Mends(rec) /\ MovesOn(calls) /\ Saves(rec, calls)
    BY <1>1, <2>2, <2>3, <2>4, <2>5, <2>6, <2>7
  <2>9. Saved
    BY <2>1, <2>8 DEF Saved
  <2> QED
    BY <2>9 DEF Moves
<1>5. ASSUME NEW rec \in Sound, NEW kept \in {r, Fresh(r, Ends(c))},
             call[c].pc = "held", Commit(r, rec, Ends(c), kept),
             rec.approval \in {0, old.approval}, UNCHANGED <<shown, verdict>>,
             UNCHANGED sent \/ (a # 0 /\ sent' = [sent EXCEPT ![a] = Append(@, k)])
      PROVE  Moves
  BY <1>5 DEF Moves, Answers
<1>6. CASE Dispatched(c)
  <2> DEFINE rec == [old EXCEPT !.active = k]
             kept == IF a # 0 THEN Fresh(r, Ends(c)) ELSE r
  <2>1. /\ call[c].pc = "held" /\ Commit(r, rec, Ends(c), kept) /\ UNCHANGED <<shown, verdict>>
        /\ UNCHANGED sent \/ (a # 0 /\ sent' = [sent EXCEPT ![a] = Append(@, k)])
    BY <1>6 DEF Dispatched, Responds
  <2>2. rec \in Sound
    BY <1>1, <1>2, SavesSound
  <2>3. rec.approval = old.approval
    BY <1>2 DEF Sound, Record
  <2>4. kept \in {r, Fresh(r, Ends(c))}
    OBVIOUS
  <2> HIDE DEF rec, kept, r, old, k, a
  <2> QED
    BY <1>5, <2>1, <2>2, <2>3, <2>4
<1>7. CASE NeedsApproval(c)
  <2> DEFINE rec == WithApproval(old, k, Len(shown) + 1)
  <2>1. call[c].pc = "held" /\ Commit(r, rec, Ends(c), r) /\ Registers(old, k)
    BY <1>7 DEF NeedsApproval, Responds
  <2>2. /\ ~Refuses(old) => Asks(rec, k)
        /\ Refuses(old) => rec \in Sound /\ rec.approval = old.approval
                           /\ UNCHANGED <<shown, verdict, sent>>
    BY <1>1, <1>2, <2>1, RegistersAsks
  <2>3. CASE ~Refuses(old)
    <3>1. Answers(c)
      BY <2>1, <2>2, <2>3 DEF Answers
    <3> QED
      BY <3>1 DEF Moves
  <2>4. CASE Refuses(old)
    <3> HIDE DEF rec, r, old, k, a
    <3> QED
      BY <1>5, <2>1, <2>2, <2>4
  <2> QED
    BY <2>3, <2>4
<1>8. CASE NotUnderstood(c)
  <2>1. /\ call[c].pc = "held" /\ UNCHANGED approvals
        /\ \/ Commit(r, Blocked(old), Ends(c), r)
           \/ Commit(r, WithQuestion(old, k), Ends(c), r)
    BY <1>8 DEF NotUnderstood, Responds
  <2>2. Blocked(old) \in Sound /\ WithQuestion(old, k) \in Sound
    BY <1>1, <1>2, QuestionSound, AnswersSound
  <2>3. Blocked(old).approval = 0 /\ WithQuestion(old, k).approval = old.approval
    BY <1>2 DEF Blocked, WithQuestion, Sound, Record
  <2>4. UNCHANGED <<shown, verdict>> /\ UNCHANGED sent
    BY <2>1 DEF approvals
  <2> HIDE DEF r, old, k, a
  <2> QED
    BY <1>5, <2>1, <2>2, <2>3, <2>4
<1>9. CASE NotExecuted(c)
  <2> DEFINE kept == IF a # 0 THEN Fresh(r, Ends(c)) ELSE r
  <2>1. call[c].pc = "held" /\ UNCHANGED approvals /\ Commit(r, old, Ends(c), kept)
    BY <1>9 DEF NotExecuted, Responds
  <2>2. UNCHANGED <<shown, verdict>> /\ UNCHANGED sent
    BY <2>1 DEF approvals
  <2>3. kept \in {r, Fresh(r, Ends(c))}
    OBVIOUS
  <2> HIDE DEF kept, r, old, k, a
  <2> QED
    BY <1>2, <1>5, <2>1, <2>2, <2>3
<1>10. CASE ExecFails(c)
  <2>1. UNCHANGED <<shown, verdict, sent>> /\ Saves(run, Ends(c))
    BY <1>10 DEF ExecFails, approvals, Saves
  <2>2. MovesOn(Ends(c)) /\ Mends(run)
    BY <1>1, <1>2, CallsMoveOn, EditsMend
  <2>3. Saved
    BY <1>1, <1>2, <2>1, <2>2 DEF Saved
  <2> QED
    BY <2>3 DEF Moves
<1> QED
  BY <1>3, <1>4, <1>6, <1>7, <1>8, <1>9, <1>10 DEF Execute

LEMMA BridgedMoves ==
    ASSUME Types, NEW k \in bridges, Bridged(k)
    PROVE  Moves
<1> USE DEF Types
<1> DEFINE rec == [run EXCEPT !.active = 0, !.tried = @ \cup {k}]
<1>1. UNCHANGED <<shown, verdict, sent>> /\ k \in Command
  BY DEF Bridged, RestTypes, approvals
<1>2. Len(shown) \in Nat /\ run \in Sound /\ call \in Calls
  BY RunIs DEF ApprovalTypes, HeapTypes
<1>3. rec \in Sound /\ WithQuestion(rec, k) \in Sound /\ Mends(rec) /\ Mends(WithQuestion(rec, k))
  BY <1>1, <1>2, SavesSound, QuestionSound, BridgeMends
<1>4. Refuses(rec) \/ run.approval = 0
  BY <1>2 DEF Refuses, Sound, Record
<1>5. \/ SaveCached(rec, call) \/ SaveCached(WithQuestion(rec, k), call)
      \/ /\ asked < MaxCommands /\ asked' = asked + 1
         /\ \E c \in Call : SaveCached(rec, IF Refuses(rec) THEN call ELSE Holds(c, asked', 0))
  BY DEF Bridged
<1>6. \E c \in Call : TRUE
  BY AgentAssumption
<1>7. MovesOn(call)
  BY <1>6, CallsMoveOn
<1> HIDE DEF rec
<1>8. \E new \in {rec, WithQuestion(rec, k)} : \E calls \in Calls :
        MovesOn(calls) /\ SaveCached(new, calls)
  <2>1. CASE SaveCached(rec, call) \/ SaveCached(WithQuestion(rec, k), call)
    BY <1>2, <1>7, <2>1
  <2>2. ASSUME NEW c \in Call, asked < MaxCommands, asked' = asked + 1,
               SaveCached(rec, IF Refuses(rec) THEN call ELSE Holds(c, asked', 0))
        PROVE  \E calls \in Calls : MovesOn(calls) /\ SaveCached(rec, calls)
    <3>1. asked' \in Command /\ 0 \in Approval
      BY <2>2, NumbersTyped
    <3>2. Holds(c, asked', 0) \in Calls /\ (run.approval = 0 => MovesOn(Holds(c, asked', 0)))
      BY <3>1, CallTyped, CallsMoveOn
    <3> QED
      BY <1>2, <1>4, <1>7, <2>2, <3>2
  <2> QED
    BY <1>5, <2>1, <2>2
<1>9. Saved
  BY <1>1, <1>3, <1>8 DEF Saved, Saves
<1> QED
  BY <1>9 DEF Moves

LEMMA AnswersMoves ==
    ASSUME Types, \/ \E c \in Call : Approve(c)
                  \/ Reject \/ LateAnswer \/ TimeOut \/ Hydrate \/ Input \/ Cancel
    PROVE  Moves
<1> USE DEF Types
<1>1. /\ Len(shown) \in Nat /\ 0 \in Command /\ call \in Calls
      /\ run \in Sound /\ run.request \in Command /\ run.approval \in Approval
      /\ {"approved", "rejected", "expired"} \subseteq Verdict
      /\ run \in Record
  BY RunIs, NumbersTyped DEF ApprovalTypes, HeapTypes, Verdict, Sound
<1>2. MovesOn(call)
  <2>1. \E c \in Call : TRUE
    BY AgentAssumption
  <2> QED
    BY <2>1, CallsMoveOn
<1>3. ASSUME NEW c \in Call, Approve(c) PROVE Answered
  <2> DEFINE rec == [run EXCEPT !.status = "running", !.approval = 0, !.request = 0]
             calls == [call EXCEPT ![c] = [pc |-> "posted", ref |-> 0,
                                           command |-> run.request, by |-> run.approval]]
  <2>1. /\ Saves(rec, calls) /\ UNCHANGED <<shown, sent>>
        /\ verdict' = [verdict EXCEPT ![run.approval] = "approved"]
        /\ run.status = "waiting_approval" /\ call[c].pc = "idle"
    BY <1>3 DEF Approve, Saves
  <2>2. rec \in Sound /\ calls \in Calls
    BY <1>1, AnswersSound, CallTyped
  <2>3. rec.approval = 0 /\ rec.tried = run.tried
    BY <1>1 DEF Record
  <2>4. Resumes(c, calls)
    BY DEF Resumes
  <2> HIDE DEF rec, calls
  <2> QED
    BY <1>1, <2>1, <2>2, <2>3, <2>4 DEF Answered
<1>4. ASSUME Reject PROVE Answered
  <2> DEFINE rec == [run EXCEPT !.approval = 0, !.request = 0]
             replan == [rec EXCEPT !.status = "running", !.replans = @ + 1]
             over == [rec EXCEPT !.status = "blocked"]
  <2>1. /\ \/ run.replans < MaxReplans /\ Saves(replan, call)
           \/ Saves(over, call)
        /\ verdict' = [verdict EXCEPT ![run.approval] = "rejected"]
        /\ UNCHANGED <<shown, sent>> /\ run.status = "waiting_approval"
    BY <1>4 DEF Reject, Saves
  <2>2. over \in Sound /\ (run.replans < MaxReplans => replan \in Sound)
    BY <1>1, AnswersSound
  <2>3. /\ over.approval = 0 /\ over.tried = run.tried
        /\ replan.approval = 0 /\ replan.tried = run.tried
    BY <1>1 DEF Record
  <2> HIDE DEF rec, replan, over
  <2> QED
    BY <1>1, <2>1, <2>2, <2>3 DEF Answered
<1>5. ASSUME LateAnswer PROVE Rests
  BY <1>2, <1>5 DEF LateAnswer, Rests, heap, MovesOn
<1>6. ASSUME TimeOut PROVE Rests \/ Answered
  <2> DEFINE rec == [run EXCEPT !.status = "blocked", !.approval = 0, !.request = 0]
  <2>1. CASE run.status = "waiting_approval" /\ run.approval = timer
    <3>1. /\ Saves(rec, call) /\ UNCHANGED <<shown, sent>>
          /\ verdict' = [verdict EXCEPT ![run.approval] = "expired"]
      BY <1>6, <2>1 DEF TimeOut, Saves
    <3>2. rec \in Sound
      BY <1>1, AnswersSound
    <3>3. rec.approval = 0 /\ rec.tried = run.tried
      BY <1>1 DEF Record
    <3> HIDE DEF rec
    <3> QED
      BY <1>1, <2>1, <3>1, <3>2, <3>3 DEF Answered
  <2>2. CASE ~(run.status = "waiting_approval" /\ run.approval = timer)
    BY <1>2, <1>6, <2>2 DEF TimeOut, Rests, heap, MovesOn
  <2> QED
    BY <2>1, <2>2
<1>7. ASSUME Hydrate PROVE Saved
  <2>1. SaveFresh(run) /\ UNCHANGED <<shown, verdict, sent>>
    BY <1>7 DEF Hydrate, approvals
  <2>2. Mends(run)
    BY <1>1, EditsMend
  <2> QED
    BY <1>1, <1>2, <2>1, <2>2 DEF Saved
<1>8. ASSUME Input PROVE Saved
  <2> DEFINE rec == [run EXCEPT !.status = "running", !.question = FALSE]
  <2>1. Saves(rec, call) /\ UNCHANGED <<shown, verdict, sent>>
    BY <1>8 DEF Input, approvals, Saves
  <2>2. rec \in Sound /\ Mends(rec)
    BY <1>1, AnswersSound, EditsMend
  <2> HIDE DEF rec
  <2> QED
    BY <1>1, <1>2, <2>1, <2>2 DEF Saved
<1>9. ASSUME Cancel PROVE Saved \/ Rests
  <2>1. /\ Saves(Cancelled(run), call) \/ UNCHANGED heap
        /\ UNCHANGED <<shown, verdict, sent>>
    BY <1>9 DEF Cancel, Cancelling, Saves
  <2>2. CASE Saves(Cancelled(run), call)
    BY <1>1, <1>2, <2>1, <2>2, AnswersSound, EditsMend DEF Saved
  <2>3. CASE UNCHANGED heap
    BY <1>2, <2>1, <2>3 DEF Rests, heap, MovesOn
  <2> QED
    BY <2>1, <2>2, <2>3
<1> QED
  BY <1>3, <1>4, <1>5, <1>6, <1>7, <1>8, <1>9 DEF Moves

LEMMA WorkerMoves ==
    ASSUME Types, Worker \/ PollTurn
    PROVE  Moves
<1> USE DEF Types
<1>1. /\ Len(shown) \in Nat /\ 0 \in Command /\ call \in Calls /\ run \in Sound
  BY RunIs, NumbersTyped DEF ApprovalTypes, HeapTypes
<1>2. MovesOn(call)
  <2>1. \E c \in Call : TRUE
    BY AgentAssumption
  <2> QED
    BY <2>1, CallsMoveOn
<1>3. ASSUME NEW rec \in Sound, Mends(rec), SaveFresh(rec) \/ Saves(rec, call),
             UNCHANGED <<shown, verdict, sent>>
      PROVE  Moves
  BY <1>1, <1>2, <1>3 DEF Moves, Saved
<1>4. ASSUME WorkerBegins PROVE Moves
  <2>1. Saves([run EXCEPT !.worker = TRUE], call) /\ UNCHANGED <<shown, verdict, sent>>
    BY <1>4 DEF WorkerBegins, approvals, Saves
  <2> QED
    BY <1>1, <1>3, <2>1, SavesSound, EditsMend
<1>5. ASSUME WorkerEvent PROVE Moves
  <2>1. CASE Hydrate
    BY <2>1, AnswersMoves
  <2>2. CASE ~Hydrate
    <3> DEFINE asks == [WithApproval(run, asked', Len(shown) + 1) EXCEPT !.worker = FALSE]
               question == [WithQuestion(run, asked') EXCEPT !.worker = FALSE]
    <3>1. /\ asked < MaxCommands /\ asked' = asked + 1 /\ ~IsTerminal(run) /\ ~Unresolved(run)
          /\ \/ SaveFresh(asks) /\ Registers(run, asked')
             \/ SaveFresh(question) /\ UNCHANGED approvals
      BY <1>5, <2>2 DEF WorkerEvent
    <3>2. asked' \in Command
      BY <3>1, NumbersTyped
    <3>3. ~Refuses(run) /\ run.approval = 0
      BY <3>1 DEF Refuses, Unresolved
    <3>4. CASE SaveFresh(asks) /\ Registers(run, asked')
      <4>1. Asks(asks, asked') /\ asks.tried = run.tried
        BY <1>1, <3>2, <3>3, <3>4, RegistersAsks
      <4> HIDE DEF asks
      <4> QED
        BY <3>4, <4>1 DEF Moves, Asked
    <3>5. CASE SaveFresh(question) /\ UNCHANGED approvals
      <4>1. WithQuestion(run, asked') \in Sound
        BY <1>1, <3>2, QuestionSound
      <4>2. question \in Sound /\ Mends(question)
        BY <1>1, <3>2, <3>3, <4>1, SavesSound, EditsMend
      <4> HIDE DEF question
      <4> QED
        BY <1>3, <3>5, <4>2 DEF approvals
    <3> QED
      BY <3>1, <3>4, <3>5
  <2> QED
    BY <2>1, <2>2
<1>6. ASSUME WorkerPauses PROVE Moves
  <2>1. SaveFresh([run EXCEPT !.worker = FALSE]) /\ UNCHANGED <<shown, verdict, sent>>
    BY <1>6 DEF WorkerPauses, Stops, approvals
  <2> QED
    BY <1>1, <1>3, <2>1, SavesSound, EditsMend
<1>7. ASSUME WorkerEnds PROVE Moves
  <2>1. PICK s \in {"completed", "blocked"} :
          SaveFresh([[run EXCEPT !.status = s] EXCEPT !.worker = FALSE])
    BY <1>7 DEF WorkerEnds, Stops
  <2>2. ~Unresolved(run) /\ UNCHANGED <<shown, verdict, sent>>
    BY <1>7 DEF WorkerEnds
  <2>3. [[run EXCEPT !.status = s] EXCEPT !.worker = FALSE] \in Sound
    BY <1>1, <2>2, SavesSound
  <2> QED
    BY <1>1, <1>3, <2>1, <2>2, <2>3, EditsMend
<1>8. ASSUME WorkerFails PROVE Moves
  <2>1. /\ \/ SaveFresh([run EXCEPT !.worker = FALSE])
           \/ SaveFresh([[run EXCEPT !.status = "failed"] EXCEPT !.worker = FALSE])
        /\ UNCHANGED <<shown, verdict, sent>>
    BY <1>8 DEF WorkerFails, Stops
  <2>2. /\ [run EXCEPT !.worker = FALSE] \in Sound
        /\ [[run EXCEPT !.status = "failed"] EXCEPT !.worker = FALSE] \in Sound
    BY <1>1, SavesSound
  <2>3. /\ Mends([run EXCEPT !.worker = FALSE])
        /\ Mends([[run EXCEPT !.status = "failed"] EXCEPT !.worker = FALSE])
    BY <1>1, EditsMend
  <2> QED
    BY <1>3, <2>1, <2>2, <2>3
<1>9. ASSUME PollTurn PROVE Moves
  <2>1. SaveFresh(run) /\ UNCHANGED <<shown, verdict, sent>>
    BY <1>9 DEF PollTurn, approvals
  <2> QED
    BY <1>1, <1>3, <2>1, EditsMend
<1> QED
  BY <1>4, <1>5, <1>6, <1>7, <1>8, <1>9 DEF Worker

LEMMA NextMoves == Types /\ [Next]_vars => Moves
<1> SUFFICES ASSUME Types, [Next]_vars PROVE Moves
  OBVIOUS
<1>1. CASE UNCHANGED vars
  <2>1. Rests
    BY <1>1 DEF vars, Rests, MovesOn
  <2> QED
    BY <2>1 DEF Moves
<1>2. CASE Restart
  <2>1. /\ Saves(run, [c \in Call |-> Idle]) /\ UNCHANGED <<shown, verdict, sent>>
    BY <1>2 DEF Restart, Saves
  <2>2. /\ run \in Sound /\ Len(shown) \in Nat /\ 0 \in Command /\ 0 \in Approval
        /\ \E c \in Call : TRUE
    BY RunIs, NumbersTyped, AgentAssumption DEF Types, ApprovalTypes
  <2>3. [c \in Call |-> Idle] \in Calls /\ MovesOn([c \in Call |-> Idle]) /\ Mends(run)
    BY <2>2, CallTyped, CallsMoveOn, EditsMend DEF Types
  <2>4. Saved
    BY <2>1, <2>2, <2>3 DEF Saved
  <2> QED
    BY <2>4 DEF Moves
<1>3. CASE Next
  BY <1>2, <1>3, ExecuteMoves, BridgedMoves, AnswersMoves, WorkerMoves DEF Next
<1> QED
  BY <1>1, <1>3

-----------------------------------------------------------------------------
(* Where there is one object, or one call to hold another *)

Sole == Stored => \A c, d \in Call : c = d

\* What saving does to the object that counts and to those that calls hold.
LEMMA SavesAre ==
    ASSUME Types, NEW rec \in Sound, NEW calls \in Calls,
           Saves(rec, calls) \/ (calls = call /\ SaveFresh(rec))
    PROVE  /\ run' = rec /\ call' = calls /\ (~Stored => cache' = cache)
           /\ Stored => \A s \in Held(calls) :
                /\ Saves(rec, calls) => objects'[s] = IF s = cache THEN rec ELSE objects[s]
                /\ calls = call /\ SaveFresh(rec) => objects'[s] = objects[s]
<1> DEFINE spare == Fresh(cache, calls)
<1>1. /\ objects \in [Ref -> Sound] /\ cache \in Ref /\ call \in Calls
      /\ NewRun \in Sound /\ Held(calls) \subseteq Ref
  BY NewRunSound DEF Types, HeapTypes, ApprovalTypes, Held, Calls
<1>2. spare \in Ref /\ (~Stored => spare = cache) /\ (Stored => spare \notin Held(calls))
  BY <1>1, FreshIs
<1> HIDE DEF spare
<1>3. ASSUME SaveCached(rec, calls)
      PROVE  /\ run' = rec /\ call' = calls /\ cache' = cache
             /\ \A s \in Held(calls) : objects'[s] = IF s = cache THEN rec ELSE objects[s]
  <2>1. Commit(cache, rec, calls, cache)
    BY <1>3 DEF SaveCached
  <2> QED
    BY <1>1, <2>1, CommitIs
<1>4. ASSUME SaveThenRead(rec, calls)
      PROVE  /\ run' = rec /\ call' = calls /\ cache' = spare
             /\ \A s \in Held(calls) : objects'[s] = IF s = spare \/ s = cache THEN rec ELSE objects[s]
  <2>1. Commit(cache, rec, calls, spare)
    BY <1>4 DEF SaveThenRead, spare
  <2> QED
    BY <1>1, <1>2, <2>1, CommitIs
<1>5. ASSUME calls = call /\ SaveFresh(rec)
      PROVE  /\ run' = rec /\ call' = calls /\ cache' = spare
             /\ \A s \in Held(calls) : objects'[s] = IF s = spare THEN rec ELSE objects[s]
  <2>1. Commit(spare, rec, calls, spare)
    BY <1>5 DEF SaveFresh, spare
  <2> QED
    BY <1>1, <1>2, <1>5, <2>1, CommitIs
<1>6. run' = rec /\ call' = calls /\ (~Stored => cache' = cache)
  BY <1>2, <1>3, <1>4, <1>5 DEF Saves
<1>7. ASSUME Stored, NEW s \in Held(calls), Saves(rec, calls)
      PROVE  objects'[s] = IF s = cache THEN rec ELSE objects[s]
  BY <1>2, <1>3, <1>4, <1>7 DEF Saves
<1>8. ASSUME Stored, NEW s \in Held(calls), calls = call /\ SaveFresh(rec)
      PROVE  objects'[s] = objects[s]
  BY <1>2, <1>5, <1>8
<1> QED
  BY <1>6, <1>7, <1>8

\* Mending the record leaves the copies as they are to be.
LEMMA SavesCopies ==
    ASSUME Types, Copies, NEW rec \in Sound, NEW calls \in Calls,
           \/ Saves(rec, calls) /\ rec.approval \in {0, run.approval}
           \/ calls = call /\ SaveFresh(rec),
           \A d \in Call : calls[d].pc = "held" =>
               \/ calls[d] = call[d]
               \/ calls[d].ref = cache /\ run.approval = 0 /\ Saves(rec, calls)
    PROVE  Copies'
<1>1. /\ call' = calls /\ (~Stored => cache' = cache)
      /\ Stored => \A s \in Held(calls) :
           /\ Saves(rec, calls) => objects'[s] = IF s = cache THEN rec ELSE objects[s]
           /\ calls = call /\ SaveFresh(rec) => objects'[s] = objects[s]
  BY SavesAre
<1>2. SUFFICES ASSUME NEW d \in Call, calls[d].pc = "held"
               PROVE  IF Stored THEN objects'[calls[d].ref].approval = 0
                                ELSE calls[d].ref = cache'
  BY <1>1 DEF Copies
<1>3. calls[d].ref \in Held(calls)
  BY <1>2 DEF Held
<1>4. CASE ~Stored
  BY <1>1, <1>2, <1>4 DEF Copies
<1>5. CASE Stored
  <2>1. CASE calls = call
    <3>1. objects[calls[d].ref].approval = 0
      BY <1>2, <1>5, <2>1 DEF Copies
    <3>2. calls[d].ref = cache => run.approval = 0
      BY <3>1 DEF run
    <3> QED
      BY <1>1, <1>3, <1>5, <2>1, <3>1, <3>2
  <2>2. CASE calls # call
    <3>1. Saves(rec, calls) /\ rec.approval \in {0, run.approval}
      BY <2>2
    <3>2. objects'[calls[d].ref] = IF calls[d].ref = cache THEN rec ELSE objects[calls[d].ref]
      BY <1>1, <1>3, <1>5, <2>2
    <3>3. CASE calls[d] = call[d]
      <4>1. objects[calls[d].ref].approval = 0
        BY <1>2, <1>5, <3>3 DEF Copies
      <4>2. calls[d].ref = cache => run.approval = 0
        BY <4>1 DEF run
      <4> QED
        BY <1>5, <3>1, <3>2, <4>1, <4>2
    <3>4. CASE calls[d].ref = cache /\ run.approval = 0
      BY <1>5, <3>1, <3>2, <3>4
    <3> QED
      BY <1>2, <3>3, <3>4
  <2> QED
    BY <2>1, <2>2
<1> QED
  BY <1>4, <1>5

\* The first and the last call of MovesOn.
LEMMA MovesOnHeld ==
    ASSUME NEW calls, MovesOn(calls)
    PROVE  \A d \in Call : calls[d].pc = "held" =>
               \/ calls[d] = call[d]
               \/ calls[d].ref = cache /\ run.approval = 0
<1> SUFFICES ASSUME NEW d \in Call, calls[d].pc = "held"
             PROVE  calls[d] = call[d] \/ (calls[d].ref = cache /\ run.approval = 0)
  OBVIOUS
<1>1. CASE calls[d].by = 0 /\ (calls[d].pc = "held" => calls[d].ref = cache /\ run.approval = 0)
  BY <1>1
<1>2. ASSUME run.approval = 0,
             calls[d] = [pc |-> "held", ref |-> cache,
                         command |-> call[d].command, by |-> call[d].by]
      PROVE  calls[d].ref = cache /\ run.approval = 0
  BY <1>2
<1> QED
  BY <1>1, <1>2 DEF MovesOn

LEMMA PendingIs ==
    ASSUME Types
    PROVE  /\ run.approval # 0 => run.approval \in 1 .. Len(shown)
           /\ DOMAIN verdict = 1 .. Len(shown) /\ DOMAIN shown = 1 .. Len(shown)
           /\ DOMAIN sent = 1 .. Len(shown) /\ Len(shown) \in Nat
           /\ run.status = "waiting_approval" => run.approval # 0
BY RunIs DEF Types, ApprovalTypes, Sound, Record, Approval

\* A record of approvals that one more is added to.
LEMMA Appends ==
    ASSUME NEW S, NEW s \in Seq(S), NEW x \in S
    PROVE  /\ Len(Append(s, x)) = Len(s) + 1 /\ Len(s) \in Nat
           /\ \A i \in 1 .. Len(s) : Append(s, x)[i] = s[i]
           /\ Append(s, x)[Len(s) + 1] = x
BY AppendProperties

LEMMA AsksAre ==
    ASSUME Types, NEW rec, NEW k, Asks(rec, k)
    PROVE  /\ Len(shown') = Len(shown) + 1 /\ Len(shown) \in Nat
           /\ \A i \in 1 .. Len(shown) :
                shown'[i] = shown[i] /\ verdict'[i] = verdict[i] /\ sent'[i] = sent[i]
           /\ shown'[Len(shown) + 1] = k /\ verdict'[Len(shown) + 1] = "none"
           /\ sent'[Len(shown) + 1] = <<>>
<1>1. /\ shown \in Seq(Command) /\ verdict \in Seq(Verdict) /\ sent \in Seq(Seq(Command))
      /\ Len(verdict) = Len(shown) /\ Len(sent) = Len(shown)
  BY DEF Types, ApprovalTypes
<1>2. k \in Command /\ "none" \in Verdict /\ <<>> \in Seq(Command)
  BY DEF Asks, Verdict
<1>3. /\ Len(shown') = Len(shown) + 1 /\ Len(shown) \in Nat /\ shown'[Len(shown) + 1] = k
      /\ \A i \in 1 .. Len(shown) : shown'[i] = shown[i]
  BY <1>1, <1>2, Appends DEF Asks
<1>4. /\ verdict'[Len(shown) + 1] = "none"
      /\ \A i \in 1 .. Len(shown) : verdict'[i] = verdict[i]
  <2>1. /\ Append(verdict, "none")[Len(verdict) + 1] = "none"
        /\ \A i \in 1 .. Len(verdict) : Append(verdict, "none")[i] = verdict[i]
    BY <1>1, <1>2, Appends
  <2> QED
    BY <1>1, <2>1 DEF Asks
<1>5. /\ sent'[Len(shown) + 1] = <<>>
      /\ \A i \in 1 .. Len(shown) : sent'[i] = sent[i]
  <2> DEFINE T == Seq(Command)
  <2>1. sent \in Seq(T) /\ <<>> \in T
    BY <1>1, <1>2
  <2> HIDE DEF T
  <2>2. /\ Append(sent, <<>>)[Len(sent) + 1] = <<>>
        /\ \A i \in 1 .. Len(sent) : Append(sent, <<>>)[i] = sent[i]
    BY <2>1, Appends
  <2> QED
    BY <1>1, <2>2 DEF Asks
<1> QED
  BY <1>3, <1>4, <1>5

\* An answer of the exec service: the call is over, and with one call no copy is left.
LEMMA AnswersAre ==
    ASSUME Sole, Types, Types', Copies, NEW c \in Call,
           NEW rec \in Sound', NEW kept \in {call[c].ref, Fresh(call[c].ref, Ends(c))},
           call[c].pc = "held", Commit(call[c].ref, rec, Ends(c), kept), Sound \subseteq Sound'
    PROVE  /\ Copies' /\ run' = rec /\ call' = Ends(c)
           /\ Stored => objects[call[c].ref].approval = 0 /\ \A d \in Call : call'[d].pc = "idle"
           /\ ~Stored => objects[call[c].ref] = run
<1> DEFINE S == Sound'  r == call[c].ref
<1>1. r \in Ref /\ Ends(c) \in Calls /\ cache \in Ref
  BY NumbersTyped, CallTyped DEF Types, HeapTypes
<1>2. kept \in Ref /\ (~Stored => kept = r)
  BY <1>1, FreshIs
<1>3. objects \in [Ref -> S] /\ NewRun \in S
  <2>1. Len(shown) \in Nat
    BY DEF Types, ApprovalTypes
  <2> QED
    BY <2>1, NewRunSound DEF Types, HeapTypes
<1> HIDE DEF S
<1>4. cache' = kept /\ call' = Ends(c) /\ run' = rec
  BY <1>1, <1>2, <1>3, CommitIs DEF S
<1>5. \A d \in Call : call'[d] = IF d = c THEN Idle ELSE call[d]
  BY <1>4 DEF Ends, Types, HeapTypes, Calls
<1>6. Idle.pc = "idle"
  BY DEF Idle
<1>7. CASE Stored
  <2>1. \A d \in Call : call'[d].pc = "idle"
    BY <1>5, <1>6, <1>7 DEF Sole
  <2>2. objects[r].approval = 0
    BY <1>7 DEF Copies
  <2> QED
    BY <1>4, <1>7, <2>1, <2>2 DEF Copies
<1>8. CASE ~Stored
  <2>1. r = cache
    BY <1>8 DEF Copies
  <2>2. cache' = cache
    BY <1>2, <1>4, <1>8, <2>1
  <2>3. \A d \in Call : call'[d].pc = "held" => call'[d].ref = cache'
    BY <1>5, <1>6, <1>8, <2>2 DEF Copies
  <2> QED
    BY <1>4, <1>8, <2>1, <2>3 DEF Copies, run
<1> QED
  BY <1>7, <1>8

LEMMA PendingStep ==
    ASSUME Sole, Types, Types', Moves, Pending
    PROVE  Pending'
<1> USE DEF Pending
<1>1. CASE Rests
  <2>1. \A d \in Call : call'[d].pc = "held" =>
          call'[d] = call[d] \/ (call'[d].ref = cache /\ run.approval = 0)
    BY <1>1, MovesOnHeld DEF Rests
  <2>2. objects' = objects /\ cache' = cache /\ verdict' = verdict /\ run' = run
    BY <1>1 DEF Rests, run
  <2>3. Copies'
    BY <2>1, <2>2 DEF Copies, run
  <2> QED
    BY <2>2, <2>3 DEF Unanswered
<1>2. CASE Saved
  <2>1. PICK rec \in Sound, calls \in Calls :
          /\ Mends(rec) /\ MovesOn(calls) /\ UNCHANGED <<shown, verdict, sent>>
          /\ Saves(rec, calls) \/ (calls = call /\ SaveFresh(rec))
    BY <1>2 DEF Saved
  <2>2. rec.approval \in {0, run.approval} /\ verdict' = verdict
    BY <2>1 DEF Mends
  <2>3. run' = rec
    BY <2>1, SavesAre
  <2>4. \A d \in Call : calls[d].pc = "held" =>
          \/ calls[d] = call[d]
          \/ calls[d].ref = cache /\ run.approval = 0 /\ Saves(rec, calls)
    BY <2>1, MovesOnHeld
  <2>5. Copies'
    BY <2>1, <2>2, <2>4, SavesCopies
  <2> QED
    BY <2>2, <2>3, <2>5 DEF Unanswered
<1>3. CASE Answered
  <2>1. PICK rec \in Sound, calls \in Calls :
          /\ rec.approval = 0 /\ Saves(rec, calls)
          /\ calls = call \/ \E c \in Call : Resumes(c, calls)
    BY <1>3 DEF Answered
  <2>2. run' = rec
    BY <2>1, SavesAre
  <2>3. \A d \in Call : calls[d].pc = "held" => calls[d] = call[d]
    <3>1. ASSUME NEW c \in Call, Resumes(c, calls), NEW d \in Call, calls[d].pc = "held"
          PROVE  calls[d] = call[d]
      BY <3>1 DEF Resumes, Types, HeapTypes, Calls
    <3> QED
      BY <2>1, <3>1
  <2>4. Copies'
    BY <2>1, <2>3, SavesCopies
  <2> QED
    BY <2>1, <2>2, <2>4 DEF Unanswered
<1>4. CASE Asked
  <2>1. PICK rec, k : Asks(rec, k) /\ SaveFresh(rec)
    BY <1>4 DEF Asked
  <2> DEFINE S == Sound'  spare == Fresh(cache, call)
  <2>2. Len(shown) \in Nat /\ Len(shown') = Len(shown) + 1 /\ verdict'[Len(shown) + 1] = "none"
    BY <2>1, AsksAre
  <2>3. Sound \subseteq Sound' /\ NewRun \in Sound'
    BY <2>2, NewRunSound DEF Sound, Record, Approval
  <2>4. objects \in [Ref -> S] /\ NewRun \in S /\ rec \in S /\ cache \in Ref /\ call \in Calls
    BY <2>1, <2>3 DEF Types, HeapTypes, Asks
  <2>5. spare \in Ref /\ (~Stored => spare = cache) /\ (Stored => spare \notin Held(call))
    BY <2>4, FreshIs
  <2>6. Commit(spare, rec, call, spare)
    BY <2>1 DEF SaveFresh
  <2>7. Held(call) \subseteq Ref
    BY <2>4 DEF Held, Calls
  <2> HIDE DEF S, spare
  <2>8. /\ run' = rec /\ call' = call /\ cache' = spare
        /\ \A s \in Held(call) : objects'[s] = IF s = spare THEN rec ELSE objects[s]
    BY <2>4, <2>5, <2>6, <2>7, CommitIs
  <2>9. Copies'
    <3>1. \A d \in Call : call[d].pc = "held" => call[d].ref \in Held(call)
      BY DEF Held
    <3>2. CASE Stored
      BY <2>5, <2>8, <3>1, <3>2 DEF Copies
    <3>3. CASE ~Stored
      BY <2>5, <2>8, <3>3 DEF Copies
    <3> QED
      BY <3>2, <3>3
  <2>10. rec.approval = Len(shown) + 1
    BY <2>1 DEF Asks
  <2> QED
    BY <2>2, <2>8, <2>9, <2>10 DEF Unanswered
<1>5. ASSUME NEW c \in Call, Answers(c) PROVE Pending'
  <2> DEFINE r == call[c].ref
  <2>1. PICK rec : \E kept \in {r, Fresh(r, Ends(c))} :
          /\ call[c].pc = "held" /\ Commit(r, rec, Ends(c), kept)
          /\ \/ \E j : Asks(rec, j)
             \/ /\ rec \in Sound /\ rec.approval \in {0, objects[r].approval}
                /\ UNCHANGED <<shown, verdict>>
    BY <1>5 DEF Answers
  <2>2. PICK kept \in {r, Fresh(r, Ends(c))} :
          /\ call[c].pc = "held" /\ Commit(r, rec, Ends(c), kept)
          /\ \/ \E j : Asks(rec, j)
             \/ /\ rec \in Sound /\ rec.approval \in {0, objects[r].approval}
                /\ UNCHANGED <<shown, verdict>>
    BY <2>1
  <2>3. rec \in Sound' /\ Sound \subseteq Sound'
    <3>1. ASSUME NEW j, Asks(rec, j) PROVE rec \in Sound' /\ Sound \subseteq Sound'
      <4>1. Len(shown) \in Nat /\ Len(shown') = Len(shown) + 1
        BY <3>1, AsksAre
      <4> QED
        BY <3>1, <4>1 DEF Asks, Sound, Record, Approval
    <3>2. CASE rec \in Sound /\ UNCHANGED <<shown, verdict>>
      BY <3>2 DEF Sound
    <3> QED
      BY <2>2, <3>1, <3>2
  <2>4. /\ Copies' /\ run' = rec
        /\ Stored => objects[r].approval = 0
        /\ ~Stored => objects[r] = run
    BY <2>2, <2>3, AnswersAre
  <2>5. ASSUME NEW j, Asks(rec, j) PROVE Unanswered'
    <3>1. verdict'[Len(shown) + 1] = "none" /\ rec.approval = Len(shown) + 1
      BY <2>5, AsksAre DEF Asks
    <3> QED
      BY <2>4, <3>1 DEF Unanswered
  <2>6. CASE rec.approval \in {0, objects[r].approval} /\ UNCHANGED <<shown, verdict>>
    BY <2>4, <2>6 DEF Unanswered
  <2> QED
    BY <2>2, <2>4, <2>5, <2>6
<1> QED
  BY <1>1, <1>2, <1>3, <1>4, <1>5 DEF Moves

LEMMA InitPending == Init => Pending
<1> SUFFICES ASSUME Init PROVE Pending
  OBVIOUS
<1>1. \A c \in Call : call[c].pc = "idle"
  BY DEF Init, Idle
<1>2. run.approval = 0
  <2>1. 0 \in Ref
    BY AgentAssumption, FS_CardinalityType DEF Ref
  <2> QED
    BY <2>1 DEF Init, run, NewRun
<1> QED
  BY <1>1, <1>2 DEF Pending, Copies, Unanswered

LEMMA StepPending ==
    ASSUME Sole
    PROVE  Types /\ Pending /\ [Next]_vars => Pending'
BY StepTyped, NextMoves, PendingStep

\* An approval is answered once, where there is one object or one call.
THEOREM AnsweredOnce ==
    ASSUME Sole
    PROVE  Spec => OneAnswer
<1>1. ASSUME Types, Types', Moves, Pending, NEW a \in DOMAIN verdict, verdict[a] # "none"
      PROVE  verdict'[a] = verdict[a]
  <2>1. a \in 1 .. Len(shown)
    BY <1>1, PendingIs
  <2>2. CASE Rests \/ Saved \/ UNCHANGED verdict
    BY <2>2 DEF Rests, Saved
  <2>3. CASE Answered
    <3>1. PICK v : verdict' = [verdict EXCEPT ![run.approval] = v]
      BY <2>3 DEF Answered
    <3>2. a # run.approval
      <4>1. run.status = "waiting_approval"
        BY <2>3 DEF Answered
      <4> QED
        BY <1>1, <4>1, PendingIs DEF Pending, Unanswered
    <3> QED
      BY <3>1, <3>2
  <2>4. CASE \E rec, k : Asks(rec, k)
    BY <1>1, <2>1, <2>4, AsksAre
  <2>5. Asked => \E rec, k : Asks(rec, k)
    BY DEF Asked
  <2>6. ASSUME NEW c \in Call, Answers(c) PROVE UNCHANGED verdict \/ \E rec, k : Asks(rec, k)
    BY <2>6 DEF Answers
  <2> QED
    BY <1>1, <2>2, <2>3, <2>4, <2>5, <2>6 DEF Moves
<1>2. Types /\ Pending /\ [Next]_vars
        => [\A a \in DOMAIN verdict : verdict[a] # "none" => verdict'[a] = verdict[a]]_vars
  BY <1>1, StepTyped, NextMoves
<1> QED
  BY <1>2, Typed, InitPending, StepPending, PTL DEF Spec, OneAnswer

-----------------------------------------------------------------------------
(* What is started on the word of an approval *)

\* One call at a time, and ClickHouse attached.
OneAtATime == Stored /\ \A c, d \in Call : c = d

Agreed == Types /\ Pending /\ OnWord

\* The approvals and the claims after a step that answers and registers none.
LEMMA QuietOnWord ==
    ASSUME Agreed, NEW calls, call' = calls, MovesOn(calls), UNCHANGED <<shown, verdict, sent>>,
           Mends(run')
    PROVE  OnWord'
<1>1. ShownIsAsked'
  BY DEF Agreed, OnWord, ShownIsAsked, Mends
<1>2. Claims'
  <2>1. SUFFICES ASSUME NEW d \in Call, calls[d].pc # "idle", calls[d].by # 0
                 PROVE  LET k == calls[d].command  a == calls[d].by
                        IN /\ a \in DOMAIN shown /\ verdict[a] = "approved" /\ sent[a] = <<>>
                           /\ shown[a] = k \/ (calls[d].pc = "posted" /\ k \in run'.tried)
    BY Zenon DEF Claims
  <2>2. run.tried \subseteq run'.tried
    BY DEF Mends
  <2>3. CASE calls[d] = call[d]
    BY <2>1, <2>2, <2>3 DEF Agreed, OnWord, Claims
  <2>4. ASSUME call[d].pc = "posted", call[d].command \notin run.tried,
               calls[d] = [pc |-> "held", ref |-> cache,
                           command |-> call[d].command, by |-> call[d].by]
        PROVE  LET k == calls[d].command  a == calls[d].by
               IN /\ a \in DOMAIN shown /\ verdict[a] = "approved" /\ sent[a] = <<>>
                  /\ shown[a] = k
    <3>1. calls[d].command = call[d].command /\ calls[d].by = call[d].by
      BY <2>4
    <3> QED
      BY <2>1, <2>4, <3>1 DEF Agreed, OnWord, Claims
  <2> QED
    BY <2>1, <2>3, <2>4 DEF MovesOn
<1>3. NoneSentYet' /\ ApprovedOnly'
  BY DEF Agreed, OnWord, NoneSentYet, ApprovedOnly
<1> QED
  BY <1>1, <1>2, <1>3 DEF OnWord

LEMMA RestsOnWord ==
    ASSUME Agreed, Rests
    PROVE  OnWord'
<1>1. run' = run
  BY DEF Rests, run
<1>2. Mends(run')
  BY <1>1 DEF Mends
<1> QED
  BY <1>2, QuietOnWord DEF Rests

LEMMA SavedOnWord ==
    ASSUME Agreed, Saved
    PROVE  OnWord'
<1>1. PICK rec \in Sound, calls \in Calls :
        /\ Mends(rec) /\ MovesOn(calls) /\ UNCHANGED <<shown, verdict, sent>>
        /\ Saves(rec, calls) \/ (calls = call /\ SaveFresh(rec))
  BY DEF Saved
<1>2. run' = rec /\ call' = calls
  BY <1>1, SavesAre DEF Agreed
<1> QED
  BY <1>1, <1>2, QuietOnWord

LEMMA AnsweredOnWord ==
    ASSUME Agreed, Answered
    PROVE  OnWord'
<1>1. PICK rec \in Sound, calls \in Calls, v \in Verdict :
        /\ run.status = "waiting_approval"
        /\ rec.approval = 0 /\ rec.tried = run.tried
        /\ Saves(rec, calls) /\ UNCHANGED <<shown, sent>>
        /\ verdict' = [verdict EXCEPT ![run.approval] = v]
        /\ \/ calls = call
           \/ v = "approved" /\ \E c \in Call : call[c].pc = "idle" /\ Resumes(c, calls)
  BY DEF Answered
<1> DEFINE a == run.approval
<1>2. run' = rec /\ call' = calls
  BY <1>1, SavesAre DEF Agreed
<1>3. a # 0 /\ a \in DOMAIN shown /\ a \in DOMAIN verdict /\ a \in DOMAIN sent
      /\ verdict[a] = "none" /\ DOMAIN verdict = DOMAIN shown /\ DOMAIN sent = DOMAIN shown
  BY <1>1, PendingIs DEF Agreed, Pending, Unanswered
<1>4. sent[a] = <<>> /\ (shown[a] = run.request \/ run.request \in run.tried)
  BY <1>3 DEF Agreed, OnWord, NoneSentYet, ShownIsAsked
<1>5. verdict'[a] = v /\ \A b \in DOMAIN verdict : b # a => verdict'[b] = verdict[b]
  BY <1>1, <1>3
<1> HIDE DEF a
<1>6. ShownIsAsked'
  BY <1>1, <1>2 DEF ShownIsAsked
<1>7. \A d \in Call : call[d].pc # "idle" /\ call[d].by # 0 => call[d].by # a
  BY <1>3 DEF Agreed, OnWord, Claims
<1>8. Claims'
  <2>1. SUFFICES ASSUME NEW d \in Call, calls[d].pc # "idle", calls[d].by # 0
                 PROVE  LET k == calls[d].command  b == calls[d].by
                        IN /\ b \in DOMAIN shown /\ verdict'[b] = "approved" /\ sent[b] = <<>>
                           /\ shown[b] = k \/ (calls[d].pc = "posted" /\ k \in run.tried)
    BY <1>1, <1>2, Zenon DEF Claims
  <2>2. CASE calls[d] = call[d]
    BY <1>3, <1>5, <1>7, <2>1, <2>2 DEF Agreed, OnWord, Claims
  <2>3. CASE calls[d] # call[d]
    <3>1. v = "approved" /\ \E c \in Call : Resumes(c, calls)
      BY <1>1, <2>3
    <3>2. calls[d] = [pc |-> "posted", ref |-> 0, command |-> run.request, by |-> a]
      BY <2>3, <3>1 DEF Resumes, Agreed, Types, HeapTypes, Calls, a
    <3>3. calls[d].pc = "posted" /\ calls[d].command = run.request /\ calls[d].by = a
      BY <3>2
    <3> QED
      BY <1>3, <1>4, <1>5, <3>1, <3>3
  <2> QED
    BY <2>2, <2>3
<1>9. NoneSentYet'
  BY <1>1, <1>3, <1>4, <1>5 DEF Agreed, OnWord, NoneSentYet
<1>10. ApprovedOnly'
  BY <1>1, <1>3, <1>4, <1>5 DEF Agreed, OnWord, ApprovedOnly
<1> QED
  BY <1>6, <1>8, <1>9, <1>10 DEF OnWord

\* A new approval, whatever becomes of the calls, as long as none begins.
LEMMA AsksOnWord ==
    ASSUME Agreed, Types', NEW rec, NEW k, Asks(rec, k), run' = rec,
           \A d \in Call : call'[d].pc = "idle" \/ (call'[d] = call[d] /\ run.tried \subseteq rec.tried)
    PROVE  OnWord'
<1> DEFINE n == Len(shown)
<1>1. /\ Len(shown') = n + 1 /\ n \in Nat
      /\ \A i \in 1 .. n :
           shown'[i] = shown[i] /\ verdict'[i] = verdict[i] /\ sent'[i] = sent[i]
      /\ shown'[n + 1] = k /\ verdict'[n + 1] = "none" /\ sent'[n + 1] = <<>>
  BY AsksAre DEF Agreed
<1>2. /\ DOMAIN shown = 1 .. n /\ DOMAIN sent = 1 .. n
      /\ DOMAIN shown' = 1 .. n + 1 /\ DOMAIN sent' = 1 .. n + 1
  BY <1>1 DEF Agreed, Types, ApprovalTypes
<1>3. rec.approval = n + 1 /\ rec.request = k
  BY DEF Asks
<1> HIDE DEF n
<1>4. \A i \in 1 .. n + 1 : i \in 1 .. n \/ i = n + 1
  BY <1>1
<1>5. ShownIsAsked'
  BY <1>1, <1>3 DEF ShownIsAsked
<1>6. Claims'
  <2>1. ASSUME NEW d \in Call, call'[d] = call[d], run.tried \subseteq rec.tried,
               call[d].pc # "idle", call[d].by # 0
        PROVE  LET j == call[d].command  b == call[d].by
               IN /\ b \in DOMAIN shown' /\ verdict'[b] = "approved" /\ sent'[b] = <<>>
                  /\ shown'[b] = j \/ (call[d].pc = "posted" /\ j \in rec.tried)
    <3>1. LET j == call[d].command  b == call[d].by
          IN /\ b \in 1 .. n /\ verdict[b] = "approved" /\ sent[b] = <<>>
             /\ shown[b] = j \/ (call[d].pc = "posted" /\ j \in run.tried)
      BY <1>2, <2>1 DEF Agreed, OnWord, Claims
    <3>2. call[d].by \in 1 .. n + 1
      BY <1>1, <3>1
    <3> QED
      BY <1>1, <1>2, <2>1, <3>1, <3>2
  <2> QED
    BY <2>1 DEF Claims
<1>7. NoneSentYet'
  BY <1>1, <1>2, <1>4 DEF Agreed, OnWord, NoneSentYet
<1>8. ApprovedOnly'
  BY <1>1, <1>2, <1>4 DEF Agreed, OnWord, ApprovedOnly
<1> QED
  BY <1>5, <1>6, <1>7, <1>8 DEF OnWord

\* A call that is answered: with one call, no other goes on.
LEMMA AnswersOnWord ==
    ASSUME OneAtATime, Agreed, Types', NEW c \in Call, Answers(c)
    PROVE  OnWord'
<1> DEFINE r == call[c].ref  k == call[c].command  a == call[c].by
<1>1. PICK rec : \E kept \in {r, Fresh(r, Ends(c))} :
        /\ call[c].pc = "held" /\ Commit(r, rec, Ends(c), kept)
        /\ \/ \E j : Asks(rec, j)
           \/ /\ rec \in Sound /\ rec.approval \in {0, objects[r].approval}
              /\ UNCHANGED <<shown, verdict>>
              /\ \/ UNCHANGED sent
                 \/ a # 0 /\ sent' = [sent EXCEPT ![a] = Append(@, k)]
  BY DEF Answers
<1>2. PICK kept \in {r, Fresh(r, Ends(c))} :
        call[c].pc = "held" /\ Commit(r, rec, Ends(c), kept)
  BY <1>1
<1>3. rec \in Sound' /\ Sound \subseteq Sound'
  <2>1. ASSUME NEW j, Asks(rec, j) PROVE rec \in Sound' /\ Sound \subseteq Sound'
    <3>1. Len(shown) \in Nat /\ Len(shown') = Len(shown) + 1
      BY <2>1, AsksAre DEF Agreed
    <3> QED
      BY <2>1, <3>1 DEF Asks, Sound, Record, Approval
  <2>2. CASE rec \in Sound /\ UNCHANGED <<shown, verdict>>
    BY <2>2 DEF Sound
  <2> QED
    BY <1>1, <2>1, <2>2
<1>4. Sole /\ Stored
  BY DEF Sole, OneAtATime
<1>5. /\ run' = rec /\ objects[r].approval = 0
      /\ \A d \in Call : call'[d].pc = "idle"
  BY <1>2, <1>3, <1>4, AnswersAre DEF Agreed, Pending
<1>6. ASSUME NEW j, Asks(rec, j) PROVE OnWord'
  BY <1>5, <1>6, AsksOnWord
<1>7. ASSUME rec.approval = 0, UNCHANGED <<shown, verdict>>,
             \/ UNCHANGED sent
             \/ a # 0 /\ sent' = [sent EXCEPT ![a] = Append(@, k)]
      PROVE  OnWord'
  <2>1. ShownIsAsked' /\ Claims'
    BY <1>5, <1>7 DEF ShownIsAsked, Claims
  <2>2. CASE UNCHANGED sent
    BY <1>7, <2>1, <2>2 DEF Agreed, OnWord, NoneSentYet, ApprovedOnly
  <2>3. CASE a # 0 /\ sent' = [sent EXCEPT ![a] = Append(@, k)]
    <3>1. a \in DOMAIN shown /\ verdict[a] = "approved" /\ sent[a] = <<>> /\ shown[a] = k
      BY <1>2, <2>3 DEF Agreed, OnWord, Claims
    <3>2. DOMAIN sent = DOMAIN shown
      BY PendingIs DEF Agreed
    <3>3. Append(sent[a], k) = <<k>>
      BY <3>1
    <3>4. /\ sent'[a] = <<k>> /\ DOMAIN sent' = DOMAIN sent
          /\ \A b \in DOMAIN sent : b # a => sent'[b] = sent[b]
      BY <2>3, <3>1, <3>2, <3>3
    <3>5. NoneSentYet'
      BY <1>7, <3>1, <3>4 DEF Agreed, OnWord, NoneSentYet
    <3>6. ApprovedOnly'
      BY <1>7, <3>1, <3>4 DEF Agreed, OnWord, ApprovedOnly
    <3> QED
      BY <2>1, <3>5, <3>6 DEF OnWord
  <2> QED
    BY <1>7, <2>2, <2>3
<1> QED
  BY <1>1, <1>5, <1>6, <1>7

LEMMA AskedOnWord ==
    ASSUME Agreed, Types', Asked
    PROVE  OnWord'
<1>1. PICK rec, k : Asks(rec, k) /\ rec.tried = run.tried /\ SaveFresh(rec)
  BY DEF Asked
<1> DEFINE S == Sound'  spare == Fresh(cache, call)
<1>2. Len(shown) \in Nat /\ Len(shown') = Len(shown) + 1
  BY <1>1, AsksAre DEF Agreed
<1>3. Sound \subseteq Sound' /\ NewRun \in Sound'
  BY <1>2, NewRunSound DEF Sound, Record, Approval
<1>4. objects \in [Ref -> S] /\ NewRun \in S /\ rec \in S /\ cache \in Ref /\ call \in Calls
  BY <1>1, <1>3 DEF Agreed, Types, HeapTypes, Asks
<1>5. spare \in Ref /\ Commit(spare, rec, call, spare)
  BY <1>1, <1>4, FreshIs DEF SaveFresh
<1> HIDE DEF S, spare
<1>6. run' = rec /\ call' = call
  BY <1>4, <1>5, CommitIs
<1> QED
  BY <1>1, <1>6, AsksOnWord

LEMMA InitOnWord == Init => OnWord
<1> SUFFICES ASSUME Init PROVE OnWord
  OBVIOUS
<1>1. \A c \in Call : call[c].pc = "idle"
  BY DEF Init, Idle
<1>2. run.approval = 0
  <2>1. 0 \in Ref
    BY AgentAssumption, FS_CardinalityType DEF Ref
  <2> QED
    BY <2>1 DEF Init, run, NewRun
<1>3. DOMAIN sent = {}
  BY DEF Init
<1> QED
  BY <1>1, <1>2, <1>3 DEF OnWord, ShownIsAsked, Claims, NoneSentYet, ApprovedOnly

LEMMA StepOnWord ==
    ASSUME OneAtATime
    PROVE  Agreed /\ [Next]_vars => OnWord'
BY StepTyped, NextMoves, RestsOnWord, SavedOnWord, AnsweredOnWord, AskedOnWord, AnswersOnWord
   DEF Agreed, Moves

\* What is started on the word of an approval is the command that it showed to the
\* user, who approved it, and it is started once.
THEOREM OnlyApprovedStarts ==
    ASSUME OneAtATime
    PROVE  Spec => []ApprovedOnly
<1>1. Init => Agreed
  BY InitTyped, InitPending, InitOnWord DEF Agreed
<1>2. Sole
  BY DEF Sole, OneAtATime
<1>3. Agreed /\ [Next]_vars => Agreed'
  BY <1>2, StepTyped, StepPending, StepOnWord DEF Agreed
<1>4. Agreed => ApprovedOnly
  BY DEF Agreed, OnWord
<1> QED
  BY <1>1, <1>3, <1>4, PTL DEF Spec

=============================================================================
