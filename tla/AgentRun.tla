------------------------------ MODULE AgentRun ------------------------------
(***************************************************************************)
(* One run of the AI agent runtime (agent_runtime/service.py and store.py, *)
(* api/ai.py): the record of the run, the follow-up worker that drives it, *)
(* the calls that execute commands for it, the approvals and questions on  *)
(* which it waits, their timer, and the requests that cancel it.           *)
(*                                                                         *)
(* The service is one asyncio loop: an action is the code between two      *)
(* awaits that suspend.  The record is a Python object.  The store keeps   *)
(* one in its cache and writes it to ClickHouse on every save; a fresh     *)
(* read builds a second object from the row and puts it into the cache,    *)
(* while a coroutine that waits may still hold, and later save, the first. *)
(***************************************************************************)
EXTENDS Integers, Sequences, FiniteSets

CONSTANTS
    Call,          \* bound: calls of execute_command_tool at a time
    Stored,        \* whether ClickHouse is attached
    MaxReplans,    \* approval_replan_max_rounds (0: reject strategy terminate)
    MaxCommands,   \* bound: commands asked for
    MaxApprovals,  \* bound: approvals requested
    MaxWorkers,    \* bound: worker tasks at a time
    MaxRestarts    \* bound: restarts of the service

ASSUME AgentAssumption ==
    /\ IsFiniteSet(Call) /\ Call # {} /\ Stored \in BOOLEAN
    /\ MaxReplans \in Nat /\ MaxCommands \in Nat /\ MaxApprovals \in Nat
    /\ MaxWorkers \in Nat /\ MaxRestarts \in Nat

Terminal == {"blocked", "completed", "failed", "cancelled"}
Waiting == {"waiting_approval", "waiting_user_input"}
Status == {"running"} \cup Waiting \cup Terminal
Verdict == {"none", "approved", "rejected", "expired"}

\* Commands are numbered as they are asked for; 0 is none.
Command == 0 .. MaxCommands
Approval == 0 .. MaxApprovals

\* Enough objects for every call to hold one that is not the cached one.
Ref == 0 .. Cardinality(Call)

VARIABLES
    objects,   \* the records in memory
    cache,     \* store._runs: the one that get_run returns
    call,      \* calls of execute_command_tool, with what they hold
    asked,     \* commands asked for so far
    shown,     \* shown[a]: the command that approval a shows
    verdict,   \* verdict[a]: how approval a was answered
    sent,      \* sent[a]: the commands started on the word of approval a
    timer,     \* the approval whose timer runs, 0 if none
    bridges,   \* commands followed by _bridge_command_run
    polling,   \* _resume_followup_runtime_after_active_command runs
    ready, on, \* worker tasks that are created, and that run
    cancel,    \* the request that cancels the run
    restarts,
    lost       \* whether an approval was left without its timer

vars == <<objects, cache, call, asked, shown, verdict, sent, timer, bridges,
          polling, ready, on, cancel, restarts, lost>>
heap == <<objects, cache, call>>
approvals == <<shown, verdict, sent, timer>>
tasks == <<bridges, polling, ready, on>>
rest == <<cancel, restarts, lost>>

NewRun == [status |-> "running", approval |-> 0, question |-> FALSE, request |-> 0,
           active |-> 0, tried |-> {}, replans |-> 0, worker |-> FALSE]
Idle == [pc |-> "idle", ref |-> 0, command |-> 0, by |-> 0]

run == objects[cache]

Init ==
    /\ objects = [r \in Ref |-> NewRun] /\ cache = 0
    /\ call = [c \in Call |-> Idle] /\ asked = 0
    /\ shown = <<>> /\ verdict = <<>> /\ sent = <<>> /\ timer = 0
    /\ bridges = {} /\ polling = FALSE /\ ready = 1 /\ on = 0
    /\ cancel = "no" /\ restarts = 0 /\ lost = FALSE

-----------------------------------------------------------------------------
(* The store *)

Held(calls) == {calls[c].ref : c \in {d \in Call : calls[d].pc = "held"}}

\* The object r becomes rec and is saved (save_run); the row in ClickHouse is a
\* copy of it.  The cached object is then kept: r, or one read afresh, which is
\* another if a call holds r.  An object that nobody can reach is forgotten.
Commit(r, rec, calls, kept) ==
    /\ objects' = [s \in Ref |-> IF s = kept \/ (s = r /\ r \in Held(calls)) THEN rec
                                 ELSE IF s \in Held(calls) THEN objects[s] ELSE NewRun]
    /\ cache' = kept
    /\ call' = calls

\* get_run(fresh): the object it returns, when the cached one is r.
Fresh(r, calls) ==
    IF Stored /\ r \in Held(calls) THEN CHOOSE s \in Ref : s \notin Held(calls) ELSE r

\* A handler that mutates the cached object; that reads the run afresh and leaves
\* rec; that mutates the cached object and then reads the run afresh.
SaveCached(rec, calls) == Commit(cache, rec, calls, cache)
SaveFresh(rec) == Commit(Fresh(cache, call), rec, call, Fresh(cache, call))
SaveThenRead(rec, calls) == Commit(cache, rec, calls, Fresh(cache, calls))

-----------------------------------------------------------------------------
(* What the handlers share *)

IsTerminal(rec) == rec.status \in Terminal

\* _has_unresolved_pending_action
Unresolved(rec) == rec.status \in Waiting \/ rec.approval # 0 \/ rec.question

\* _ensure_no_pending_action and the check for a terminal run
Refuses(rec) == IsTerminal(rec) \/ rec.approval # 0 \/ rec.question

\* A bug to rule out: the approval is asked for and not recorded.
WithApprovalUnnamed(rec, k, a) ==
    IF Refuses(rec) THEN [rec EXCEPT !.request = k]
    ELSE [rec EXCEPT !.request = k, !.status = "waiting_approval"]

\* request_approval for command k, whose pending_command_request was saved
\* before; it raises if the run is terminal or has a pending action.
WithApproval(rec, k, a) ==
    IF Refuses(rec) THEN [rec EXCEPT !.request = k]
    ELSE [rec EXCEPT !.request = k, !.status = "waiting_approval", !.approval = a]

\* A bug to rule out: the approval gets no timer.
RegistersUntimed(rec, k) ==
    IF Refuses(rec) THEN UNCHANGED approvals
    ELSE /\ Len(shown) < MaxApprovals
         /\ shown' = Append(shown, k)
         /\ verdict' = Append(verdict, "none")
         /\ sent' = Append(sent, <<>>)
         /\ UNCHANGED timer

\* The records kept of an approval for command k, and its timer.
Registers(rec, k) ==
    IF Refuses(rec) THEN UNCHANGED approvals
    ELSE /\ Len(shown) < MaxApprovals
         /\ shown' = Append(shown, k)
         /\ verdict' = Append(verdict, "none")
         /\ sent' = Append(sent, <<>>)
         /\ timer' = Len(shown) + 1

\* _request_business_question about command k, and request_user_input
WithQuestion(rec, k) ==
    IF Refuses(rec) THEN [rec EXCEPT !.request = k]
    ELSE [rec EXCEPT !.request = k, !.status = "waiting_user_input", !.question = TRUE]

\* The run is blocked and its pending action dropped; pending_approval stays.
Blocked(rec) ==
    [rec EXCEPT !.status = "blocked", !.approval = 0, !.question = FALSE, !.request = 0]

\* _maybe_start_ai_run_runtime, for a run that rec describes
Launch(rec) ==
    IF ~IsTerminal(rec) /\ ~Unresolved(rec) /\ ~rec.worker /\ ready + on < MaxWorkers
    THEN ready' = ready + 1 ELSE UNCHANGED ready

\* _schedule_followup_runtime_resume: poll while a command is active, or start.
Poll(rec) == polling' = (polling \/ ~(IsTerminal(rec) \/ Unresolved(rec)))

-----------------------------------------------------------------------------
(* execute_command_tool *)

\* A client asks for a command (execute_ai_run_command), which awaits the
\* preparation of the diagnosis contract.
Post(c) ==
    /\ call[c].pc = "idle" /\ asked < MaxCommands
    /\ asked' = asked + 1
    /\ call' = [call EXCEPT ![c] = [Idle EXCEPT !.pc = "posted", !.command = asked']]
    /\ UNCHANGED <<objects, cache, approvals, tasks, rest>>

Ends(c) == [call EXCEPT ![c] = Idle]
Holds(c, k, a) ==
    [call EXCEPT ![c] = [pc |-> "held", ref |-> cache, command |-> k, by |-> a]]

\* The call ends at once; the handler of an approval may resume the worker.
Returns(c, resume) ==
    IF call[c].by = 0 THEN SaveCached(run, Ends(c)) /\ UNCHANGED <<polling, ready>>
    ELSE SaveThenRead(run, Ends(c)) /\ resume

\* _stage_apply_command_gates stops the call: the user is asked, or the run blocked.
Gated(c) ==
    /\ \/ SaveCached(WithQuestion(run, call[c].command), Ends(c))
       \/ SaveCached(Blocked(run), Ends(c))
    /\ UNCHANGED <<polling, ready>>

\* _stage_check_command_idempotency stops it: a command is running; this one has
\* completed and is skipped, or has failed and is to be thought over.
Repeated(c) ==
    \/ run.active # 0 /\ Returns(c, Poll(run) /\ UNCHANGED ready)
    \/ /\ run.active = 0 /\ call[c].command \in run.tried
       /\ \/ Returns(c, Launch(run) /\ UNCHANGED polling)
          \/ SaveCached(run, Ends(c)) /\ UNCHANGED <<polling, ready>>

\* A bug to rule out: no idempotency check.
SendsAgain(c) ==
    /\ SaveCached(run, Holds(c, call[c].command, call[c].by))
    /\ UNCHANGED <<polling, ready>>

\* The await of create_command_run, over which the call holds the object.
Sends(c) ==
    /\ run.active = 0 /\ call[c].command \notin run.tried
    /\ SaveCached(run, Holds(c, call[c].command, call[c].by))
    /\ UNCHANGED <<polling, ready>>

Start(c) ==
    /\ call[c].pc = "posted"
    /\ \/ Refuses(run) /\ SaveCached(run, Ends(c)) /\ UNCHANGED <<polling, ready>>
       \/ ~Refuses(run) /\ (Gated(c) \/ Repeated(c) \/ Sends(c))
    /\ UNCHANGED <<asked, approvals, bridges, on, rest>>

\* The exec service answers; the call goes on with the object it holds.  The
\* handler of an approval then reads the run afresh to resume the worker.
Responds(c, rec, resumes) ==
    LET r == call[c].ref
    IN /\ call[c].pc = "held"
       /\ Commit(r, rec, Ends(c), IF resumes THEN Fresh(r, Ends(c)) ELSE r)

\* The command runs, and is followed.
Dispatched(c) ==
    LET rec == objects[call[c].ref]  k == call[c].command  a == call[c].by
    IN /\ Responds(c, [rec EXCEPT !.active = k], a # 0)
       /\ bridges' = bridges \cup {k}
       /\ IF a = 0 THEN UNCHANGED <<sent, polling>>
          ELSE sent' = [sent EXCEPT ![a] = Append(@, k)] /\ Poll(rec)
       /\ UNCHANGED <<asked, shown, verdict, timer, ready, on, rest>>

\* The command needs an approval, be it another one (elevation_required,
\* confirmation_required, or a ticket that is no longer valid).
NeedsApproval(c) ==
    LET rec == objects[call[c].ref]
    IN /\ Responds(c, WithApproval(rec, call[c].command, Len(shown) + 1), FALSE)
       /\ Registers(rec, call[c].command)
       /\ UNCHANGED <<asked, tasks, rest>>

\* The command is not understood: the run is blocked, or the user is asked.
NotUnderstood(c) ==
    LET rec == objects[call[c].ref]
    IN /\ \/ Responds(c, Blocked(rec), FALSE)
          \/ Responds(c, WithQuestion(rec, call[c].command), FALSE)
       /\ UNCHANGED <<asked, approvals, tasks, rest>>

\* The command is refused; after an approval the worker goes on without it.
NotExecuted(c) ==
    LET rec == objects[call[c].ref]
    IN /\ Responds(c, rec, call[c].by # 0)
       /\ IF call[c].by # 0 THEN Launch(rec) ELSE UNCHANGED ready
       /\ UNCHANGED <<asked, approvals, bridges, polling, on, rest>>

\* create_command_run raises: nothing is saved.
ExecFails(c) ==
    /\ call[c].pc = "held"
    /\ SaveCached(run, Ends(c))
    /\ UNCHANGED <<asked, approvals, tasks, rest>>

Execute(c) ==
    \/ Start(c) \/ Dispatched(c) \/ NeedsApproval(c) \/ NotUnderstood(c)
    \/ NotExecuted(c) \/ ExecFails(c)

\* The end of _bridge_command_run.  After a timeout it executes a recovered
\* command, or asks the user.
Bridged(k) ==
    LET rec == [run EXCEPT !.active = 0, !.tried = @ \cup {k}]
    IN /\ k \in bridges
       /\ bridges' = bridges \ {k}
       /\ \/ SaveCached(rec, call) /\ UNCHANGED asked
          \/ SaveCached(WithQuestion(rec, k), call) /\ UNCHANGED asked
          \/ /\ asked < MaxCommands /\ asked' = asked + 1
             /\ \E c \in Call :
                  /\ call[c].pc = "idle"
                  /\ SaveCached(rec, IF Refuses(rec) THEN call ELSE Holds(c, asked', 0))
       /\ UNCHANGED <<approvals, polling, ready, on, rest>>

-----------------------------------------------------------------------------
(* Approvals, questions and cancellation *)

\* A bug to rule out: the approval stays pending until its command has run.
ApproveLater(c) ==
    /\ run.status = "waiting_approval" /\ call[c].pc = "idle"
    /\ timer' = 0
    /\ verdict' = [verdict EXCEPT ![run.approval] = "approved"]
    /\ call' = [call EXCEPT ![c] = [pc |-> "posted", ref |-> 0,
                                   command |-> run.request, by |-> run.approval]]
    /\ UNCHANGED <<objects, cache, asked, shown, sent, tasks, rest>>

\* resolve_approval when the run waits for one, and the rest of the handler up
\* to its await.  An answer that names another approval is refused, after the
\* timer was cancelled.
Approve(c) ==
    /\ run.status = "waiting_approval" /\ call[c].pc = "idle"
    /\ timer' = 0
    /\ verdict' = [verdict EXCEPT ![run.approval] = "approved"]
    /\ SaveCached([run EXCEPT !.status = "running", !.approval = 0, !.request = 0],
                  [call EXCEPT ![c] = [pc |-> "posted", ref |-> 0,
                                       command |-> run.request, by |-> run.approval]])
    /\ UNCHANGED <<asked, shown, sent, tasks, rest>>

Reject ==
    LET rec == [run EXCEPT !.approval = 0, !.request = 0]
        replan == [rec EXCEPT !.status = "running", !.replans = @ + 1]
    IN /\ run.status = "waiting_approval"
       /\ timer' = 0
       /\ verdict' = [verdict EXCEPT ![run.approval] = "rejected"]
       /\ IF run.replans < MaxReplans
          THEN SaveThenRead(replan, call) /\ Launch(replan)
          ELSE SaveCached([rec EXCEPT !.status = "blocked"], call) /\ UNCHANGED ready
       /\ UNCHANGED <<asked, shown, sent, bridges, polling, on, rest>>

LateAnswer ==
    /\ run.status = "waiting_approval" /\ Len(shown) > 1
    /\ timer' = 0 /\ lost' = TRUE
    /\ UNCHANGED <<heap, asked, shown, verdict, sent, tasks, cancel, restarts>>

\* _handle_approval_timeout
TimeOut ==
    /\ timer # 0 /\ timer' = 0
    /\ IF run.status = "waiting_approval" /\ run.approval = timer
       THEN /\ SaveCached([run EXCEPT !.status = "blocked", !.approval = 0, !.request = 0], call)
            /\ verdict' = [verdict EXCEPT ![timer] = "expired"]
       ELSE UNCHANGED <<heap, verdict>>
    /\ UNCHANGED <<asked, shown, sent, tasks, rest>>

\* ensure_runtime_input_context_ready reads the run afresh and awaits.
Hydrate == SaveFresh(run) /\ UNCHANGED <<asked, approvals, tasks, rest>>

\* submit_user_input; the worker is resumed on a fresh read.
Input ==
    LET rec == [run EXCEPT !.status = "running", !.question = FALSE]
    IN /\ run.status = "waiting_user_input"
       /\ SaveThenRead(rec, call) /\ Launch(rec)
       /\ UNCHANGED <<asked, approvals, bridges, polling, on, rest>>

Cancelled(rec) ==
    IF IsTerminal(rec) THEN rec
    ELSE [rec EXCEPT !.status = "cancelled", !.approval = 0, !.question = FALSE]

\* cancel_run
Cancelling ==
    /\ SaveCached(Cancelled(run), call)
    /\ timer' = IF IsTerminal(run) THEN timer ELSE 0
    /\ cancel' = "done"

\* A request that cancels or interrupts the run first has its active command
\* cancelled, for which it waits.
Cancel ==
    /\ \/ cancel = "no" /\ run.active # 0 /\ cancel' = "await" /\ UNCHANGED <<heap, timer>>
       \/ cancel = "no" /\ run.active = 0 /\ Cancelling
       \/ cancel = "await" /\ Cancelling
    /\ UNCHANGED <<asked, shown, verdict, sent, tasks, restarts, lost>>

-----------------------------------------------------------------------------
(* The follow-up worker *)

WorkerBegins ==
    /\ ready > 0 /\ ready' = ready - 1 /\ on' = on + 1
    /\ SaveCached([run EXCEPT !.worker = TRUE], call)
    /\ UNCHANGED <<asked, approvals, bridges, polling, rest>>

\* The worker stops, leaving rec; its finally clause clears the flag.
Stops(rec) ==
    /\ on > 0 /\ on' = on - 1
    /\ SaveFresh([rec EXCEPT !.worker = FALSE])
    /\ UNCHANGED <<asked, bridges, polling, ready, rest>>

\* An event of the analysis: a fresh read, and perhaps an approval or a question,
\* which ends the worker until it is answered.
WorkerEvent ==
    /\ on > 0
    /\ \/ (IsTerminal(run) \/ ~Unresolved(run)) /\ Hydrate
       \/ /\ ~IsTerminal(run) /\ ~Unresolved(run) /\ asked < MaxCommands
          /\ on' = on - 1 /\ asked' = asked + 1
          /\ \/ /\ SaveFresh([WithApproval(run, asked', Len(shown) + 1)
                                EXCEPT !.worker = FALSE])
                /\ Registers(run, asked')
             \/ /\ SaveFresh([WithQuestion(run, asked') EXCEPT !.worker = FALSE])
                /\ UNCHANGED approvals
          /\ UNCHANGED <<bridges, polling, ready, rest>>

\* The worker finds that the run is over, or waits for the user.
WorkerPauses ==
    /\ IsTerminal(run) \/ Unresolved(run)
    /\ Stops(run) /\ UNCHANGED approvals

\* A bug to rule out: the run is finished although it waits for the user.
WorkerEndsAnyway ==
    /\ ~IsTerminal(run)
    /\ \E s \in {"completed", "blocked"} : Stops([run EXCEPT !.status = s])
    /\ timer' = 0 /\ UNCHANGED <<shown, verdict, sent>>

\* The analysis returns: finish_run.
WorkerEnds ==
    /\ ~IsTerminal(run) /\ ~Unresolved(run)
    /\ \E s \in {"completed", "blocked"} : Stops([run EXCEPT !.status = s])
    /\ timer' = 0 /\ UNCHANGED <<shown, verdict, sent>>

\* The deadline passes, or the analysis raises: fail_run.
WorkerFails ==
    /\ Stops(IF IsTerminal(run) THEN run ELSE [run EXCEPT !.status = "failed"])
    /\ timer' = IF IsTerminal(run) THEN timer ELSE 0
    /\ UNCHANGED <<shown, verdict, sent>>

\* A turn of the poll, or its deadline.
PollTurn ==
    /\ polling
    /\ SaveFresh(run)
    /\ IF IsTerminal(run) \/ Unresolved(run) \/ run.active = 0
       THEN polling' = FALSE /\ Launch(run)
       ELSE polling' \in BOOLEAN /\ UNCHANGED ready
    /\ UNCHANGED <<asked, approvals, bridges, on, rest>>

\* The tasks and the timer are gone; the record is read from ClickHouse.
Restart ==
    /\ Stored /\ restarts < MaxRestarts
    /\ restarts' = restarts + 1 /\ lost' = TRUE
    /\ SaveCached(run, [c \in Call |-> Idle])
    /\ timer' = 0 /\ bridges' = {} /\ polling' = FALSE /\ ready' = 0 /\ on' = 0
    /\ cancel' = IF cancel = "await" THEN "no" ELSE cancel
    /\ UNCHANGED <<asked, shown, verdict, sent>>

-----------------------------------------------------------------------------
Worker == WorkerBegins \/ WorkerEvent \/ WorkerPauses \/ WorkerEnds \/ WorkerFails

Next ==
    \/ \E c \in Call : Post(c) \/ Execute(c) \/ Approve(c)
    \/ \E k \in bridges : Bridged(k)
    \/ Reject \/ LateAnswer \/ TimeOut \/ Hydrate \/ Input \/ Cancel
    \/ Worker \/ PollTurn \/ Restart

Spec == Init /\ [][Next]_vars

\* The loop lets a timer whose time has come run, and asyncio's other tasks; the
\* users owe nothing.
FairSpec == Spec /\ WF_vars(TimeOut)

-----------------------------------------------------------------------------
(* Properties *)

Record == [status : Status, approval : Approval, question : BOOLEAN,
           request : Command, active : Command, tried : SUBSET Command,
           replans : 0 .. MaxReplans, worker : BOOLEAN]

\* A run that is said to wait for an approval has one to wait for.
TypeOK ==
    /\ objects \in [Ref -> Record] /\ cache \in Ref
    /\ call \in [Call -> [pc : {"idle", "posted", "held"}, ref : Ref,
                          command : Command, by : Approval]]
    /\ asked \in Command /\ timer \in Approval
    /\ Len(shown) <= MaxApprovals
    /\ shown \in Seq(Command) /\ verdict \in Seq(Verdict)
    /\ DOMAIN verdict = DOMAIN shown /\ DOMAIN sent = DOMAIN shown
    /\ bridges \subseteq Command /\ polling \in BOOLEAN
    /\ ready \in Nat /\ on \in Nat /\ ready + on <= MaxWorkers
    /\ cancel \in {"no", "await", "done"} /\ restarts \in 0 .. MaxRestarts
    /\ lost \in BOOLEAN
    /\ run.status = "waiting_approval" => run.approval \in 1 .. Len(shown)

\* A command that is started on the word of an approval is the one that the
\* approval showed to the user, who approved it, and it is started once.
ApprovedOnly ==
    \A a \in DOMAIN sent : sent[a] # <<>> =>
        sent[a] = <<shown[a]>> /\ verdict[a] = "approved"

\* The worker never completes a run that still waits for the user.
CompletedIsSettled == run.status = "completed" => run.approval = 0 /\ ~run.question

\* An approval is answered once: no second answer, and no timeout after an
\* answer or answer after the timeout.
OneAnswer ==
    [][\A a \in DOMAIN verdict : verdict[a] # "none" => verdict'[a] = verdict[a]]_vars

\* A run does not wait for an approval for ever, unless a restart or an answer
\* that names another approval has taken its timer away.
ApprovalEnds ==
    run.status = "waiting_approval" ~>
        (run.status # "waiting_approval" \/ lost)

\* A run that is over stays as it is.
TerminalIsFinal == [][IsTerminal(run) => run'.status = run.status]_vars
=============================================================================
