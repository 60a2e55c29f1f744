------------------------------- MODULE Alerts -------------------------------
(***************************************************************************)
(* Alert rules and their events (semantic-engine/api/alerts.py): the       *)
(* evaluation of the rules, by the background loop or on request, and the  *)
(* users who acknowledge, silence, resolve, edit and delete meanwhile.     *)
(*                                                                         *)
(* The service is one asyncio loop, and what touches ClickHouse or a       *)
(* webhook runs in a thread, for which the coroutine waits: task[t].plan   *)
(* is what t still waits for, and a task with an empty plan has the loop.  *)
(* A rule watches one series here, so that it has one fingerprint.         *)
(***************************************************************************)
EXTENDS Naturals, Sequences, FiniteSets, FiniteSetsExt

CONSTANTS
    Rule,
    Evaluator,     \* calls of evaluate_alert_rules at a time
    User,          \* requests of users at a time
    MinOccurrence, \* min_occurrence_count of the rules
    MaxEvents,     \* bound: events
    MaxEdits,      \* bound: requests of users
    MaxClock,      \* bound: where the clock stops
    MaxRefusals,   \* bound: inserts that ClickHouse refuses
    MaxRestarts    \* bound: restarts of the service

ASSUME AlertsAssumption ==
    /\ IsFiniteSet(Rule) /\ Evaluator \cap User = {}
    /\ MinOccurrence \in Nat \ {0} /\ MaxEvents \in Nat /\ MaxEdits \in Nat
    /\ MaxClock \in Nat /\ MaxRefusals \in Nat /\ MaxRestarts \in Nat

Active == {"pending", "firing", "acknowledged", "silenced"}
Task == Evaluator \cup User

VARIABLES
    rules,     \* rules[r]: _alert_rules
    saved,     \* saved[r]: its row of the highest updated_at, or the rows
    events,    \* _alert_events
    rows,      \* rows[i]: the row of event i
    task,
    clock, edits, refusals, restarts

vars == <<rules, saved, events, rows, task, clock, edits, refusals, restarts>>
bounds == <<edits, refusals, restarts>>

Idle == [pc |-> "idle", plan |-> <<>>, event |-> 0, since |-> 0, now |-> 0,
         enabled |-> {}, known |-> [r \in Rule |-> 0], todo |-> {}, below |-> {}]

Init ==
    /\ rules = [r \in Rule |-> [state |-> "enabled", stamp |-> 0]]
    /\ saved = [r \in Rule |-> [states |-> {"enabled"}, stamp |-> 0]]
    /\ events = <<>> /\ rows = <<>>
    /\ task = [t \in Task |-> Idle]
    /\ clock = 0 /\ edits = 0 /\ refusals = 0 /\ restarts = 0

LoopFree == \A t \in Task : task[t].pc # "idle" => task[t].plan # <<>>
Tick == IF clock < MaxClock THEN clock + 1 ELSE clock

IsActive(i) == events[i].status \in Active
ActiveOf(r) == {i \in DOMAIN events : events[i].rule = r /\ IsActive(i)}
Last(S) == IF S = {} THEN 0 ELSE Max(S)

-----------------------------------------------------------------------------
(* Waiting *)

\* What _notify_event waits for: the record of the notification, and the event
\* once more.  The rule may have none, or its cooldown may not be over.
Notify == {<<>>, <<"note", "save">>}

\* t goes on with plan for event i.  A notification takes its time as it begins.
Waits(t, rec, plan, i) ==
    /\ clock' = IF plan # <<>> /\ Head(plan) = "note" THEN Tick ELSE clock
    /\ task' = [task EXCEPT ![t] = [rec EXCEPT !.plan = plan, !.event = i, !.since = clock']]

\* What t has waited for is over.
GoesOn(t) ==
    LET rest == Tail(task[t].plan)
    IN IF rest = <<>> /\ task[t].pc = "handle"
       THEN task' = [task EXCEPT ![t] = Idle] /\ UNCHANGED clock
       ELSE Waits(t, task[t], rest, task[t].event)

\* A bug to rule out: what follows the wait runs in the thread.
AwaitsInThread(t, what) == task[t].plan # <<>> /\ Head(task[t].plan) = what
Awaits(t, what) == LoopFree /\ task[t].plan # <<>> /\ Head(task[t].plan) = what

\* The row of an event or rule counts unless there is one of a later updated_at.
\* Events whose updated_at is the same have the same status.
Saved(t) ==
    LET i == task[t].event
    IN /\ Awaits(t, "save")
       /\ rows' = IF events[i].stamp >= rows[i].stamp THEN [rows EXCEPT ![i] = events[i]]
                  ELSE rows
       /\ GoesOn(t)
       /\ UNCHANGED <<rules, saved, events, bounds>>

Noted(t) ==
    /\ Awaits(t, "note")
    /\ events' = [events EXCEPT ![task[t].event].stamp = task[t].since]
    /\ GoesOn(t)
    /\ UNCHANGED <<rules, saved, rows, bounds>>

\* update_alert_rule has set updated_at; delete_alert_rule leaves it as it was,
\* and which of two rows with one updated_at the view shows is open.
RuleSaved(t) ==
    LET r == task[t].event
    IN /\ Awaits(t, "rule")
       /\ saved' = [saved EXCEPT ![r] =
              [states |-> (IF rules[r].stamp = @.stamp THEN @.states ELSE {}) \cup {rules[r].state},
               stamp |-> rules[r].stamp]]
       /\ IF task[t].pc = "handle" THEN GoesOn(t)
          ELSE /\ clock' = Tick
               /\ task' = [task EXCEPT ![t].plan = <<>>, ![t].now = clock']
       /\ UNCHANGED <<rules, events, rows, bounds>>

\* ClickHouse refuses the row: an exception ends the call.
Refused(t) ==
    /\ LoopFree /\ task[t].plan # <<>> /\ refusals < MaxRefusals
    /\ refusals' = refusals + 1
    /\ task' = [task EXCEPT ![t] = Idle]
    /\ UNCHANGED <<rules, saved, events, rows, clock, edits, restarts>>

\* _resolve_event: what was resolved is saved, and perhaps notified.
Resolves(t, rec, i, now) ==
    \E note \in Notify :
        /\ events' = [events EXCEPT ![i].status = "resolved", ![i].stamp = now]
        /\ Waits(t, rec, <<"save">> \o note, i)

-----------------------------------------------------------------------------
(* evaluate_alert_rules *)

\* The enabled rules are copied, and the metrics are queried.
Evaluate(e) ==
    /\ task[e].pc = "idle" /\ LoopFree
    /\ task' = [task EXCEPT ![e] = [Idle EXCEPT
           !.pc = "evaluate", !.plan = <<"metrics">>,
           !.enabled = {r \in Rule : rules[r].state = "enabled"}]]
    /\ UNCHANGED <<rules, saved, events, rows, clock, bounds>>

\* A bug to rule out: an event that a user has silenced does not count as active.
AudibleEvent(r) == Last({i \in ActiveOf(r) : events[i].status # "silenced"})

\* active_events_by_fingerprint
ActiveEvent(r) == Last(ActiveOf(r))

\* The metrics are there: each rule is met, is not, or has no data.  The active
\* events are looked up now.
Measured(e) ==
    /\ Awaits(e, "metrics")
    /\ clock' = Tick
    /\ \E above \in SUBSET task[e].enabled :
         \E below \in SUBSET (task[e].enabled \ above) :
            task' = [task EXCEPT ![e].plan = <<>>, ![e].now = clock',
                                 ![e].known = [r \in Rule |-> ActiveEvent(r)],
                                 ![e].todo = above, ![e].below = below]
    /\ UNCHANGED <<rules, saved, events, rows, bounds>>

\* _is_rule_ready_to_fire; whether the duration has passed is open.
Ready(count) == {count >= MinOccurrence, FALSE}

\* A bug to rule out: the end of a silence is not awaited.
StatusAnyway(event, ready, now) ==
    CASE event.status = "silenced" -> IF ready THEN "firing" ELSE "pending"
      [] event.status = "pending" /\ ready -> "firing"
      [] OTHER -> event.status

\* The status of a known event whose rule is met again.
StatusAfter(event, ready, now) ==
    CASE event.status = "silenced" /\ event.until <= now ->
             IF ready THEN "firing" ELSE "pending"
      [] event.status = "pending" /\ ready -> "firing"
      [] OTHER -> event.status

\* _upsert_evaluated_event for a rule that is met
Known(e, r, i) ==
    LET count == IF events[i].count < MinOccurrence THEN events[i].count + 1 ELSE MinOccurrence
        rec == [task[e] EXCEPT !.todo = @ \ {r}]
    IN \E ready \in Ready(count), note \in Notify :
          LET status == StatusAfter(events[i], ready, task[e].now)
          IN /\ events' = [events EXCEPT ![i] =
                    [@ EXCEPT !.count = count, !.stamp = task[e].now, !.status = status]]
             /\ Waits(e, rec, (IF status = "firing" THEN note ELSE <<>>) \o <<"save">>, i)
             /\ UNCHANGED rows

Fresh(e, r) ==
    LET i == Len(events) + 1
        rec == [task[e] EXCEPT !.todo = @ \ {r}, !.known[r] = i]
    IN \E ready \in Ready(1), note \in Notify :
          LET event == [rule |-> r, count |-> 1, stamp |-> task[e].now, until |-> 0,
                        status |-> IF ready THEN "firing" ELSE "pending"]
          IN /\ events' = Append(events, event)
             /\ rows' = Append(rows, [event EXCEPT !.status = "unsaved", !.stamp = 0])
             /\ Waits(e, rec, (IF ready THEN note ELSE <<>>) \o <<"save">>, i)

\* Bound: a rule that needs an event too many has no data.
NextRule(e) ==
    \E r \in task[e].todo :
        IF task[e].known[r] # 0 THEN Known(e, r, task[e].known[r])
        ELSE IF Len(events) < MaxEvents THEN Fresh(e, r)
        ELSE /\ task' = [task EXCEPT ![e].todo = @ \ {r}]
             /\ UNCHANGED <<events, rows, clock>>

Cleared(e) ==
    {i \in {task[e].known[r] : r \in task[e].below} \ {0} : IsActive(i)}

\* A bug to rule out: the rules are asked again, and only deleted ones count.
OrphansDeleted(e) ==
    {i \in DOMAIN events : IsActive(i) /\ rules[events[i].rule].state = "gone"}
Orphans(e) ==
    {i \in DOMAIN events : IsActive(i) /\ events[i].rule \notin task[e].enabled}

\* The rules that are met come first, then those that are not, then the events of
\* rules that were not enabled.
Proceed(e) ==
    /\ task[e].pc = "evaluate" /\ task[e].plan = <<>>
    /\ IF task[e].todo # {} THEN NextRule(e)
       ELSE /\ IF Cleared(e) # {}
               THEN \E i \in Cleared(e) : Resolves(e, task[e], i, task[e].now)
               ELSE IF Orphans(e) # {}
               THEN \E i \in Orphans(e) : Resolves(e, task[e], i, task[e].now)
               ELSE task' = [task EXCEPT ![e] = Idle] /\ UNCHANGED <<events, clock>>
            /\ UNCHANGED rows
    /\ UNCHANGED <<rules, saved, bounds>>

-----------------------------------------------------------------------------
(* Requests of users *)

Request(u) ==
    /\ task[u].pc = "idle" /\ LoopFree /\ edits < MaxEdits
    /\ edits' = edits + 1 /\ UNCHANGED <<refusals, restarts>>

Handling(u) == [Idle EXCEPT !.pc = "handle"]

\* A change of the status is stamped, saved, and notified if the rule is there.
Changes(u, i, event) ==
    /\ events' = [events EXCEPT ![i] = [event EXCEPT !.stamp = Tick]]
    /\ \E note \in Notify :
         task' = [task EXCEPT ![u] = [Handling(u) EXCEPT !.plan = <<"save">> \o note,
                                                         !.event = i]]
    /\ clock' = Tick
    /\ UNCHANGED <<rules, saved, rows>>

Acknowledge(u) ==
    /\ Request(u)
    /\ \E i \in DOMAIN events :
         IsActive(i) /\ Changes(u, i, [events[i] EXCEPT !.status = "acknowledged"])

Silence(u) ==
    /\ Request(u)
    /\ \E i \in DOMAIN events :
         IsActive(i) /\ Changes(u, i, [events[i] EXCEPT !.status = "silenced",
                                                        !.until = Tick + 1])

Resolve(u) ==
    /\ Request(u)
    /\ \E i \in DOMAIN events :
         IsActive(i) /\ Changes(u, i, [events[i] EXCEPT !.status = "resolved"])

\* update_alert_rule puts a new rule object into the table.
Update(u) ==
    /\ Request(u)
    /\ \E r \in {q \in Rule : rules[q].state # "gone"}, state \in {"enabled", "disabled"} :
         /\ rules' = [rules EXCEPT ![r] = [state |-> state, stamp |-> Tick]]
         /\ task' = [task EXCEPT ![u] = [Handling(u) EXCEPT !.plan = <<"rule">>, !.event = r]]
    /\ clock' = Tick
    /\ UNCHANGED <<saved, events, rows>>

Delete(u) ==
    /\ Request(u)
    /\ \E r \in {q \in Rule : rules[q].state # "gone"} :
         /\ rules' = [rules EXCEPT ![r].state = "gone"]
         /\ task' = [task EXCEPT ![u] = [Idle EXCEPT !.pc = "delete", !.plan = <<"rule">>,
                                                     !.event = r, !.todo = {r}]]
    /\ UNCHANGED <<saved, events, rows, clock>>

\* Its active events are resolved one after the other.
Deleting(u) ==
    LET left == UNION {ActiveOf(r) : r \in task[u].todo}
    IN /\ task[u].pc = "delete" /\ task[u].plan = <<>>
       /\ IF left # {}
          THEN Resolves(u, task[u], Min(left), task[u].now)
          ELSE task' = [task EXCEPT ![u] = Idle] /\ UNCHANGED <<events, clock>>
       /\ UNCHANGED <<rules, saved, rows, bounds>>

-----------------------------------------------------------------------------
\* The memory is loaded from ClickHouse; an event that was not saved is gone.
Restart ==
    /\ restarts < MaxRestarts /\ restarts' = restarts + 1
    /\ task' = [t \in Task |-> Idle]
    /\ events' = rows
    /\ \E shown \in [Rule -> {"enabled", "disabled", "gone"}] :
         /\ \A r \in Rule : shown[r] \in saved[r].states
         /\ rules' = [r \in Rule |-> [state |-> shown[r], stamp |-> saved[r].stamp]]
    /\ UNCHANGED <<saved, rows, clock, edits, refusals>>

Resumes(t) == Saved(t) \/ Noted(t) \/ RuleSaved(t)
Evaluation(e) == Evaluate(e) \/ Measured(e) \/ Proceed(e) \/ Resumes(e)
Serving(u) == Deleting(u) \/ Resumes(u)

Next ==
    \/ \E e \in Evaluator : Evaluation(e)
    \/ \E u \in User :
          Acknowledge(u) \/ Silence(u) \/ Resolve(u) \/ Update(u) \/ Delete(u) \/ Serving(u)
    \/ \E t \in Task : Refused(t)
    \/ Restart

Spec == Init /\ [][Next]_vars

\* The background loop evaluates again and again, and threads come back.
FairSpec ==
    /\ Spec
    /\ \A e \in Evaluator : WF_vars(Evaluation(e))
    /\ \A u \in User : WF_vars(Serving(u))

-----------------------------------------------------------------------------
Event == [rule : Rule, count : 1 .. MinOccurrence, stamp : 0 .. MaxClock,
          until : 0 .. MaxClock + 1, status : Active \cup {"resolved", "unsaved"}]

Plans == Seq({"note", "save"}) \cup {<<"metrics">>, <<"rule">>}
TaskType ==
    [pc : {"idle", "handle", "evaluate", "delete"}, plan : Plans, event : Rule \cup Nat,
     since : 0 .. MaxClock, now : 0 .. MaxClock, enabled : SUBSET Rule,
     known : [Rule -> Nat], todo : SUBSET Rule, below : SUBSET Rule]

\* What t may wait for, with which event, where there are n events.
Fits(t, rec, n) ==
    /\ rec \in TaskType
    /\ t \in Evaluator => rec.pc \in {"idle", "evaluate"}
    /\ t \in User => rec.pc # "evaluate"
    /\ rec.pc = "idle" => rec.plan = <<>>
    /\ rec.pc = "handle" => rec.plan # <<>>
    /\ rec.plan = <<"metrics">> => rec.pc = "evaluate"
    /\ rec.plan = <<"rule">> => t \in User /\ rec.event \in Rule
    /\ rec.plan \in Seq({"note", "save"}) \ {<<>>} => rec.event \in 1 .. n
    /\ rec.todo \cap rec.below = {}
    /\ \A r \in Rule : rec.known[r] \in 0 .. n

HasLoop(t) == task[t].pc # "idle" /\ task[t].plan = <<>>

\* One task at most has the loop.
TasksOK ==
    /\ task \in [Task -> TaskType]
    /\ \A t \in Task : Fits(t, task[t], Len(events))
    /\ \A t, u \in Task : HasLoop(t) /\ HasLoop(u) => t = u

TypeOK ==
    /\ rules \in [Rule -> [state : {"enabled", "disabled", "gone"}, stamp : 0 .. MaxClock]]
    /\ saved \in [Rule -> [states : SUBSET {"enabled", "disabled", "gone"},
                           stamp : 0 .. MaxClock]]
    /\ events \in Seq(Event) /\ rows \in Seq(Event)
    /\ Len(events) <= MaxEvents /\ Len(rows) = Len(events)
    /\ clock \in 0 .. MaxClock /\ edits \in 0 .. MaxEdits
    /\ refusals \in 0 .. MaxRefusals /\ restarts \in 0 .. MaxRestarts
    /\ TasksOK

\* What the next two properties rest on.  A rule that the evaluation is going to
\* find without a known event has no active one; no time stamp is in the future.
NoneKnown ==
    \A e \in Evaluator : \A r \in task[e].todo :
        task[e].known[r] = 0 => ActiveOf(r) = {}
NowIsPast == \A t \in Task : task[t].now <= clock

\* Whatever is resolved under the hands of the evaluation, a rule gets an event
\* only when it has no active one.
OneActive ==
    [][\A i \in DOMAIN events' \ DOMAIN events : ActiveOf(events'[i].rule) = {}]_vars

\* Until the service restarts, a rule has at most one active event.
OnlyActive ==
    restarts = 0 => \A i, j \in DOMAIN events :
        IsActive(i) /\ IsActive(j) /\ events[i].rule = events[j].rule => i = j

\* What a user has decided holds against an evaluation that knew the event before:
\* an acknowledged event does not fire again, a silenced one not before its time,
\* and a resolved one is over.  (A restart shows what was saved.)
UsersPrevail ==
    [][restarts' = restarts => \A i \in DOMAIN events :
          /\ events[i].status = "resolved" => events'[i].status = "resolved"
          /\ events[i].status = "acknowledged" => events'[i].status \notin {"pending", "firing"}
          /\ events[i].status = "silenced" /\ events'[i].status = "firing" =>
                 events[i].until <= clock]_vars

\* An event that was resolved stays resolved, once all is saved.
ResolvedIsFinal ==
    [][(\A t \in Task : task[t].pc = "idle") => \A i \in DOMAIN events :
          events[i].status = "resolved" => events'[i].status = "resolved"]_vars

\* A rule that is disabled or deleted for good has no active events in the end,
\* those included that an evaluation which still had the rule creates afterwards.
EventuallyQuiet ==
    \A r \in Rule :
        <>[](rules[r].state # "enabled") => <>[](ActiveOf(r) = {})
=============================================================================
