------------------------------ MODULE ExecRun ------------------------------
(***************************************************************************)
(* One run of the exec service: the task that executes its command         *)
(* (runtime_service.py over dispatch.py and runner.py), the requests that  *)
(* cancel it, POST /execute, which waits for it, and the agent's bridge    *)
(* (command_bridge.py), which follows its events.                          *)
(*                                                                         *)
(* The service is one asyncio loop: a step is the code between two awaits  *)
(* that suspend.  Where such a stretch is cut in two (pc = "result"),      *)
(* LoopFree keeps the loop to it.  Records and events are kept in memory   *)
(* and in ClickHouse (EXEC_RUNTIME_HISTORY_STORE_BACKEND, as deployed), at *)
(* once.  The audit entry belongs to the event of the verdict.             *)
(***************************************************************************)
EXTENDS Naturals, SequencesExt

CONSTANTS
    Caller,       \* requests that cancel the run
    MaxRetries,   \* BACKEND_UNAVAILABLE_RETRY_MAX
    MaxOutput,    \* bound: output events of the command
    MaxRestarts,  \* bound: restarts of the service
    MaxOutages,   \* bound: inserts that ClickHouse refuses
    Bridged,      \* whether the agent's bridge follows the run
    Faults        \* what may happen in this instance

(***************************************************************************)
(* rewrite:     a failed command may have a corrected form to retry.       *)
(* unavailable: a failed command may blame an unreachable toolbox gateway. *)
(* lateCancel:  task.cancel() may come in the turn of the loop in which    *)
(*              process.wait() returns, where wait_for of Python 3.11      *)
(*              swallows it.                                               *)
(***************************************************************************)
ASSUME ExecAssumption ==
    /\ MaxRetries \in Nat /\ MaxOutput \in Nat
    /\ MaxRestarts \in Nat /\ MaxOutages \in Nat
    /\ Bridged \in BOOLEAN
    /\ Faults \subseteq {"rewrite", "unavailable", "lateCancel"}

Terminal == {"completed", "failed", "cancelled"}
Status == {"none", "running", "cancelling"} \cup Terminal

VARIABLES
    run,       \* the record in memory: its status, and whether to cancel
    saved,     \* the record in ClickHouse
    pc,        \* of the task of the run
    stage,     \* its dispatch: the first, that of the rewritten command, another
    code,      \* how the command ended
    doomed,    \* task.cancel() was called and is not delivered
    proc,      \* the process: its pipes may stay open after its exit
    pumps,     \* the tasks that read its pipes run
    starts,    \* processes started for this run
    retries,   \* backend_retry_count
    bucket,    \* the events of the run in memory
    history,   \* its events in ClickHouse
    caller,    \* caller[c]: a cancel_run in progress
    waiter,    \* POST /execute: what it returned
    client,    \* the bridge and the stream it reads
    restarts, outages

vars == <<run, saved, pc, stage, code, doomed, proc, pumps, starts, retries,
          bucket, history, caller, waiter, client, restarts, outages>>
records == <<run, saved, bucket, history, outages>>
command == <<code, proc, pumps, starts>>
plan == <<stage, retries>>

LoopFree == pc # "result"
Done == run.status \in Terminal

Init ==
    /\ run = [status |-> "none", cancel |-> FALSE] /\ saved = run
    /\ pc = "none" /\ stage = "first" /\ code = "ok" /\ doomed = FALSE
    /\ proc = "none" /\ pumps = FALSE /\ starts = 0 /\ retries = 0
    /\ bucket = <<>> /\ history = <<>>
    /\ caller = [c \in Caller |-> "idle"] /\ waiter = "none"
    /\ client = [pc |-> "off", last |-> 0, queue |-> <<>>, got |-> {},
                 told |-> "none", calm |-> FALSE]
    /\ restarts = 0 /\ outages = 0

-----------------------------------------------------------------------------
(* mutate_run and append_event *)

\* A persist raises unless ClickHouse takes it (FAIL_OPEN is off): that of the
\* record, or that of the first event.
Outcome == {"ok"} \cup (IF outages < MaxOutages THEN {"record", "event"} ELSE {})

\* The table is kept in the order of the sequence numbers; of equal ones the later
\* event comes last.
UpTo(h, seq) == Cardinality({k \in DOMAIN h : h[k].seq <= seq})
Filed(h, e) == InsertAt(h, UpTo(h, e.seq) + 1, e)
FiledAll(h, new) ==
    LET filed[k \in 0 .. Len(new)] == IF k = 0 THEN h ELSE Filed(filed[k - 1], new[k])
    IN filed[Len(new)]

Streaming == client.pc \in {"read", "check", "wait"}

\* The record becomes rec and events of the given kinds are appended.  Memory
\* comes first; an event that cannot be persisted is not published.
Log(rec, kinds, o) ==
    LET new == [k \in DOMAIN kinds |-> [seq |-> Len(bucket) + k, kind |-> kinds[k]]]
    IN /\ run' = rec
       /\ saved' = IF o = "record" THEN saved ELSE rec
       /\ bucket' = CASE o = "ok" -> bucket \o new
                      [] o = "event" -> Append(bucket, new[1])
                      [] o = "record" -> bucket
       /\ history' = IF o = "ok" THEN FiledAll(history, new) ELSE history
       /\ client' = IF o = "ok" /\ Streaming
                    THEN [client EXCEPT !.queue = @ \o new] ELSE client
       /\ outages' = IF o = "ok" THEN outages ELSE outages + 1

Verdict(status) == [run EXCEPT !.status = status]

-----------------------------------------------------------------------------
(* The task: _execute_run, dispatch_command, stream_command *)

\* create_run; its client may wait for the end (POST /execute).
Create ==
    /\ run.status = "none"
    /\ \E o \in Outcome \ {"event"}, waits \in {"none", "waiting"} :
         /\ Log([run EXCEPT !.status = "running"], <<>>, o)
         /\ pc' = IF o = "ok" THEN "created" ELSE "none"
         /\ waiter' = IF o = "ok" THEN waits ELSE "none"
    /\ UNCHANGED <<doomed, command, plan, caller, restarts>>

\* A dispatch up to its first await: the executor is resolved, and either the
\* process is being created or the command is refused at once.  An exception
\* of the event store ends the task.
Dispatch(kinds, next) ==
    /\ \E o \in Outcome, refused \in BOOLEAN :
         /\ Log(run, kinds \o (IF refused THEN <<"output">> ELSE <<>>), o)
         /\ pc' = IF o # "ok" THEN "done" ELSE IF refused THEN "result" ELSE "spawn"
         /\ code' = IF refused THEN "error" ELSE "ok"
    /\ stage' = next
    /\ UNCHANGED <<doomed, proc, pumps, starts, retries, caller, waiter, restarts>>

\* command_dispatch_resolved and command_started count as one event.
Begin == pc = "created" /\ ~doomed /\ Dispatch(<<"started">>, "first")

Redispatch == pc = "backoff" /\ ~doomed /\ Dispatch(<<"resolved">>, "again")

\* The rewritten command, unless the failed one was to be cancelled.
Rewrite ==
    /\ pc = "result" /\ "rewrite" \in Faults
    /\ stage = "first" /\ code = "error" /\ ~run.cancel
    /\ Dispatch(<<"output", "resolved">>, "rewritten")

Backoff ==
    /\ pc = "result" /\ "unavailable" \in Faults
    /\ code = "error" /\ retries < MaxRetries
    /\ retries' = retries + 1
    /\ \E o \in Outcome :
         /\ Log(run, <<"output">>, o)
         /\ pc' = IF o = "ok" THEN "backoff" ELSE "done"
    /\ stage' = "again"
    /\ UNCHANGED <<doomed, command, caller, waiter, restarts>>

\* create_subprocess returns; a missing executable counts as output and as a
\* failed command.
Spawned ==
    /\ pc = "spawn" /\ ~doomed
    /\ \/ /\ pc' = "wait" /\ proc' = "running" /\ pumps' = TRUE /\ starts' = starts + 1
          /\ UNCHANGED <<records, client, code>>
       \/ \E o \in Outcome :
            /\ Log(run, <<"output">>, o)
            /\ pc' = IF o = "ok" THEN "result" ELSE "done"
            /\ code' = "error"
            /\ UNCHANGED <<proc, pumps, starts>>
    /\ UNCHANGED <<doomed, plan, caller, waiter, restarts>>

ProcessExits ==
    /\ proc = "running"
    /\ proc' = "exited"
    /\ code' \in IF code = "timeout" THEN {code} ELSE {"ok", "error"}
    /\ UNCHANGED <<records, client, pc, doomed, pumps, starts, plan, caller, waiter, restarts>>

\* A child of the command may have held its pipes.
PipesClose ==
    /\ proc = "exited"
    /\ proc' = "closed"
    /\ UNCHANGED <<records, client, pc, code, doomed, pumps, starts, plan, caller,
                   waiter, restarts>>

\* _pump_output; an exception of the event store is never looked at.
Output ==
    /\ pumps /\ LoopFree
    /\ Cardinality({k \in DOMAIN bucket : bucket[k].kind = "output"}) < MaxOutput
    /\ \E o \in Outcome \ {"record"} : Log(run, <<"output">>, o)
    /\ UNCHANGED <<pc, doomed, command, plan, caller, waiter, restarts>>

PumpsEnd ==
    /\ pumps /\ proc = "closed"
    /\ pumps' = FALSE
    /\ UNCHANGED <<records, client, pc, code, doomed, proc, starts, plan, caller,
                   waiter, restarts>>

\* wait_for times out: the process is killed.
Timeout ==
    /\ pc = "wait" /\ LoopFree /\ code # "timeout" /\ proc \in {"running", "exited"} /\ ~doomed
    /\ code' = "timeout"
    /\ pc' = IF proc = "running" THEN "wait" ELSE "drain"
    /\ UNCHANGED <<records, client, doomed, proc, pumps, starts, plan, caller, waiter, restarts>>

\* process.wait() returns when the pipes are closed.
WaitReturns ==
    /\ pc = "wait" /\ proc = "closed" /\ ~doomed
    /\ pc' = "drain"
    /\ UNCHANGED <<records, client, doomed, command, plan, caller, waiter, restarts>>

\* The pumps are through, and pop_process follows.
\* Mutant: the pumps are not waited for.
DrainedEarly ==
    /\ pc = "drain" /\ ~doomed
    /\ pc' = "result" /\ proc' = "none"
    /\ UNCHANGED <<records, client, code, doomed, pumps, starts, plan, caller, waiter, restarts>>
Drained ==
    /\ pc = "drain" /\ ~pumps /\ ~doomed
    /\ pc' = "result" /\ proc' = "none"
    /\ UNCHANGED <<records, client, code, doomed, pumps, starts, plan, caller, waiter, restarts>>

\* Mutant: an exit that is no success counts before the cancellation.
FailureFirst == IF code # "ok" THEN "failed" ELSE IF run.cancel THEN "cancelled" ELSE "completed"
FinalStatus == IF run.cancel THEN "cancelled" ELSE IF code = "ok" THEN "completed" ELSE "failed"

Finalize ==
    /\ pc = "result"
    /\ \E o \in Outcome : Log(Verdict(FinalStatus), <<FinalStatus>>, o)
    /\ pc' = "done"
    /\ UNCHANGED <<doomed, command, plan, caller, waiter, restarts>>

-----------------------------------------------------------------------------
(* cancel_run *)

\* The verdict of a cancellation, by whoever comes first.
\* Mutant: each leaves it to the other.
CancelledByNobody == UNCHANGED <<records, client>>
\* Mutant: the handler does not look at the status first.
CancelledAnyway ==
    \E o \in Outcome : Log(Verdict("cancelled"), <<"cancelled">>, o)
Cancelled ==
    IF Done THEN UNCHANGED <<records, client>>
    ELSE \E o \in Outcome : Log(Verdict("cancelled"), <<"cancelled">>, o)

\* The process is terminated if it runs (it may take its time to exit), else
\* the task is cancelled, and the request yields to the loop.
\* Mutant: the task is cancelled whatever the process does.
TerminatesNever == FALSE
Terminates == proc = "running"

\* Mutant: the task is not told.
CancelUntold(c) ==
    /\ caller[c] = "idle" /\ LoopFree
    /\ run.status \in {"running", "cancelling"}
    /\ \E o \in Outcome : Log([status |-> "cancelling", cancel |-> TRUE], <<"cancel">>, o)
    /\ caller' = [caller EXCEPT ![c] = "yielded"]
    /\ UNCHANGED <<pc, doomed, command, plan, waiter, restarts>>
Cancel(c) ==
    /\ caller[c] = "idle" /\ LoopFree
    /\ run.status \in {"running", "cancelling"}
    /\ \E o \in Outcome :
         /\ Log([status |-> "cancelling", cancel |-> TRUE], <<"cancel">>, o)
         /\ IF o = "ok" /\ ~Terminates /\ pc \notin {"none", "done"}
            THEN doomed' = TRUE /\ caller' = [caller EXCEPT ![c] = "yielded"]
            ELSE caller' = [caller EXCEPT ![c] = "done"] /\ UNCHANGED doomed
    /\ UNCHANGED <<pc, command, plan, waiter, restarts>>

\* The task may not have had its CancelledError yet.
Fallback(c) ==
    /\ caller[c] = "yielded" /\ LoopFree
    /\ caller' = [caller EXCEPT ![c] = "done"]
    /\ Cancelled
    /\ UNCHANGED <<pc, doomed, command, plan, waiter, restarts>>

\* The CancelledError ends the task.  Only the first dispatch handles it; one
\* that waits for the pumps cancels them, one that creates a process kills it.
TaskCancelled ==
    /\ doomed /\ pc \notin {"none", "result", "done"}
    /\ doomed' = FALSE
    /\ \/ /\ pc' = "done"
          /\ IF stage = "first" /\ pc \in {"spawn", "wait", "drain"}
             THEN Cancelled ELSE UNCHANGED <<records, client>>
          /\ pumps' = IF pc = "drain" THEN FALSE ELSE pumps
       \/ /\ "lateCancel" \in Faults /\ pc = "wait" /\ proc = "closed"
          /\ pc' = "drain"
          /\ UNCHANGED <<records, client, pumps>>
    /\ UNCHANGED <<code, proc, starts, plan, caller, waiter, restarts>>

\* The task is done, and a request that cancelled it has had its turn.
\* Mutant: the answer is due when the command has ended.
ExecuteReturnsEarly ==
    /\ waiter = "waiting" /\ pc \in {"result", "backoff", "done"}
    /\ waiter' = run.status
    /\ UNCHANGED <<records, client, pc, doomed, command, plan, caller, restarts>>
ExecuteReturns ==
    /\ waiter = "waiting" /\ pc = "done"
    /\ \A c \in Caller : caller[c] # "yielded"
    /\ waiter' = run.status
    /\ UNCHANGED <<records, client, pc, doomed, command, plan, caller, restarts>>

-----------------------------------------------------------------------------
(* The stream of the run and the bridge that reads it *)

\* list_events and what it leaves in memory: an empty bucket, or one without
\* news, is filled up from ClickHouse.
FromHistory(after) == SubSeq(history, UpTo(history, after) + 1, Len(history))
NothingCached(after) == \A k \in DOMAIN bucket : bucket[k].seq <= after

\* The client is sent those of events that are behind what it has.
Fresh(events) ==
    {events[k] : k \in {i \in DOMAIN events :
        /\ events[i].seq > client.last
        /\ \A j \in 1..i - 1 : events[j].seq < events[i].seq}}
Sent(events, c, next) ==
    [c EXCEPT !.pc = next,
              !.last = CHOOSE m \in {c.last} \cup {e.seq : e \in Fresh(events)} :
                           \A e \in Fresh(events) : e.seq <= m,
              !.got = @ \cup {e.seq : e \in Fresh(events)},
              !.told = IF \E e \in Fresh(events) : e.kind \in Terminal
                       THEN (CHOOSE e \in Fresh(events) : e.kind \in Terminal).kind ELSE @]

Listed(next) ==
    LET active == [client EXCEPT !.calm = FALSE]
    IN IF NothingCached(client.last)
       THEN LET loaded == FromHistory(client.last)
            IN /\ bucket' = bucket \o loaded
               /\ client' = IF loaded = <<>> THEN [client EXCEPT !.pc = next[1]]
                            ELSE Sent(loaded, active, next[2])
       ELSE bucket' = bucket /\ client' = Sent(bucket, active, next[2])

ClientTurn ==
    LoopFree /\ UNCHANGED <<run, saved, history, outages, pc, doomed, command, plan, caller,
                            waiter, restarts>>

Connect ==
    /\ Bridged /\ client.pc = "off" /\ run.status # "none"
    /\ client' = [client EXCEPT !.pc = "read"]
    /\ ClientTurn /\ UNCHANGED bucket

\* Mutant: the generator takes over the queue before it reads the backlog.
ReadNothing == client.pc = "read" /\ bucket' = bucket
                 /\ client' = [client EXCEPT !.pc = "check"] /\ ClientTurn
ReadBacklog ==
    /\ client.pc = "read"
    /\ Listed(<<"check", "wait">>)
    /\ ClientTurn

\* Without a backlog the stream ends once the run has been over for 0.6 s.
CheckEnd ==
    /\ client.pc = "check"
    /\ client' \in IF Done
                   THEN {[client EXCEPT !.calm = TRUE, !.pc = "wait"]}
                        \cup (IF client.calm THEN {[client EXCEPT !.pc = "ended"]} ELSE {})
                   ELSE {[client EXCEPT !.calm = FALSE, !.pc = "wait"]}
    /\ ClientTurn /\ UNCHANGED bucket

WaitForEvent ==
    /\ client.pc = "wait"
    /\ client' = IF client.queue = <<>> THEN [client EXCEPT !.pc = "read"]
                 ELSE Sent(SubSeq(client.queue, 1, 1),
                           [client EXCEPT !.queue = Tail(@)], "read")
    /\ ClientTurn /\ UNCHANGED bucket

\* The stream is cut, or silent for longer than the bridge reads: an exception.
Cut ==
    /\ Streaming
    /\ client' = [client EXCEPT !.pc = "lost", !.queue = <<>>]
    /\ ClientTurn /\ UNCHANGED bucket

\* After a stream without a verdict the bridge asks for the events once more,
\* and then for the run.
Backfill ==
    /\ client.pc = "ended"
    /\ IF client.told # "none"
       THEN client' = [client EXCEPT !.pc = "done"] /\ UNCHANGED bucket
       ELSE Listed(<<"snapshot", "snapshot">>)
    /\ ClientTurn

Snapshot ==
    /\ client.pc = "snapshot"
    /\ client' = [client EXCEPT !.pc = "done",
                    !.told = IF @ = "none" /\ Done THEN run.status ELSE @]
    /\ ClientTurn /\ UNCHANGED bucket

-----------------------------------------------------------------------------
\* The memory, the tasks and the processes are gone; records are loaded again.
Restart ==
    /\ restarts < MaxRestarts /\ restarts' = restarts + 1
    /\ run' = saved
    /\ pc' = "none" /\ doomed' = FALSE /\ proc' = "none" /\ pumps' = FALSE
    /\ bucket' = <<>>
    /\ caller' = [c \in Caller |-> IF caller[c] = "yielded" THEN "done" ELSE caller[c]]
    /\ waiter' = IF waiter = "waiting" THEN "none" ELSE waiter
    /\ \E next \in {"lost", "ended"} :
         client' = IF Streaming THEN [client EXCEPT !.pc = next, !.queue = <<>>] ELSE client
    /\ UNCHANGED <<saved, history, code, starts, plan, outages>>

Task == Begin \/ Redispatch \/ Rewrite \/ Backoff \/ Spawned
            \/ Timeout \/ WaitReturns \/ Drained \/ Finalize \/ TaskCancelled
Process == ProcessExits \/ PipesClose \/ PumpsEnd
Stream == ReadBacklog \/ CheckEnd \/ WaitForEvent \/ Backfill \/ Snapshot
Next ==
    \/ Create \/ Task \/ Process \/ Output \/ ExecuteReturns
    \/ \E c \in Caller : Cancel(c) \/ Fallback(c)
    \/ Connect \/ Stream \/ Cut
    \/ Restart

Spec == Init /\ [][Next]_vars

-----------------------------------------------------------------------------
(* Properties *)

Event == [seq : Nat, kind : {"started", "resolved", "output", "cancel"} \cup Terminal]

\* The variables have their types; a doomed task is waiting for something, and
\* only a process that was started has pipes to read.
TypeOK ==
    /\ {run, saved} \subseteq [status : Status, cancel : BOOLEAN]
    /\ pc \in {"none", "created", "spawn", "wait", "drain", "result", "backoff", "done"}
    /\ stage \in {"first", "rewritten", "again"} /\ code \in {"ok", "error", "timeout"}
    /\ doomed \in BOOLEAN /\ pumps \in BOOLEAN
    /\ doomed => pc \notin {"none", "result", "done"}
    /\ proc \in {"none", "running", "exited", "closed"}
    /\ pumps => proc # "none"
    /\ starts \in Nat /\ retries \in 0..MaxRetries
    /\ bucket \in Seq(Event) /\ history \in Seq(Event)
    /\ caller \in [Caller -> {"idle", "yielded", "done"}]
    /\ waiter \in {"none", "waiting"} \cup Status
    /\ client \in [pc : {"off", "read", "check", "wait", "lost", "ended", "snapshot", "done"},
                   last : Nat, queue : Seq(Event), got : SUBSET Nat,
                   told : {"none"} \cup Terminal, calm : BOOLEAN]
    /\ restarts \in 0..MaxRestarts /\ outages \in 0..MaxOutages

Verdicts == {e \in ToSet(bucket) \cup ToSet(history) : e.kind \in Terminal}

\* A run is finished once: cancel_run, the handler of its CancelledError and
\* the end of _execute_run leave one verdict between them, and it is the
\* status of the record.
OneVerdict ==
    /\ Cardinality(Verdicts) <= 1
    /\ \A e \in Verdicts : e.kind = run.status

\* A run whose cancellation was acknowledged does not end as a success or a
\* failure, however its command ends.
CancelWins == Done /\ run.cancel => run.status = "cancelled"

\* When a run is reported as over the process registered for it has exited.
NoProcessLeft == Done => proc # "running"

\* ... and none is started after that, by a retry or by a task that has not
\* noticed its cancellation yet.
NotStartedAgain == [][Done => starts' = starts]_vars

Undisturbed == restarts = 0 /\ outages = 0

\* The stream leaves out no event, between its backlog and its queue, and the
\* bridge reports the verdict that the record has.
StreamGapless ==
    /\ Undisturbed => client.got = 1..client.last
    /\ outages = 0 => client.told \in {"none", run.status}

\* POST /execute answers with the final status.
ExecuteTruth ==
    Undisturbed => waiter \in {"none", "waiting"} \cup (Terminal \cap {run.status})

\* A run comes to its verdict, whatever is cancelled, retried or timed out.
EventuallyOver == run.status = "running" ~> Done \/ ~Undisturbed

\* A bridge that keeps its stream learns the verdict.
EventuallyTold ==
    client.pc = "read" ~> client.told # "none" \/ client.pc = "lost" \/ ~Undisturbed

-----------------------------------------------------------------------------
(* Fairness: the loop runs what can run, timers fire, a process that was
   killed exits, and no child of it keeps its pipes for ever. *)

Fairness ==
    /\ WF_vars(Task) /\ WF_vars(Process)
    /\ \A c \in Caller : WF_vars(Fallback(c))
    /\ WF_vars(ExecuteReturns)
    /\ WF_vars(Stream)
    /\ SF_vars(CheckEnd /\ client'.pc = "ended")

FairSpec == Spec /\ Fairness

=============================================================================
