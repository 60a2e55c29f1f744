---------------------------- MODULE AlertsProofs ----------------------------
(***************************************************************************)
(* Theorems about Alerts: types and control, one active event of a rule,   *)
(* and that the evaluation leaves what users decided.                      *)
(***************************************************************************)
EXTENDS Alerts, FiniteSetTheorems, WellFoundedInduction, NaturalsInduction, TLAPS

USE DEF Task

-----------------------------------------------------------------------------
(* Sets of numbers, sequences *)

\* A set of natural numbers that is not empty has a least element.
LEMMA LeastNatural ==
    ASSUME NEW T \in SUBSET Nat, T # {}
    PROVE  Min(T) \in T
<1>1. PICK m \in T : \A k \in T : <<k, m>> \notin OpToRel(<, Nat)
  BY NatLessThanWellFounded, WFMin
<1>2. \A k \in T : ~(k < m)
  BY <1>1 DEF OpToRel
<1>3. \A k \in T : m <= k
  BY <1>2
<1> QED  BY <1>3 DEF Min

\* A bounded one has a greatest.
LEMMA GreatestNatural ==
    ASSUME NEW n \in Nat, NEW T \in SUBSET (0 .. n), T # {}
    PROVE  Max(T) \in T
<1> DEFINE D == {n - k : k \in T}
<1>1. D \in SUBSET Nat /\ D # {}
  <2>1. \A k \in T : k \in Nat /\ k <= n /\ n - k \in Nat
    OBVIOUS
  <2> QED  BY <2>1
<1>2. PICK d \in D : \A x \in D : <<x, d>> \notin OpToRel(<, Nat)
  BY <1>1, NatLessThanWellFounded, WFMin
<1>3. \A x \in D : d <= x
  <2> HIDE DEF D
  <2>1. \A x \in D : ~(x < d)
    BY <1>1, <1>2 DEF OpToRel
  <2> QED  BY <1>1, <2>1
<1>4. PICK m \in T : d = n - m
  OBVIOUS
<1>5. ASSUME NEW k \in T PROVE m >= k
  <2>1. n - k \in D
    OBVIOUS
  <2>2. n - m <= n - k
    BY <1>3, <1>4, <2>1
  <2> QED  BY <2>2
<1> QED  BY <1>5 DEF Max

\* What is left of a plan.
LEMMA PlanTail ==
    ASSUME NEW S, NEW s \in Seq(S), s # <<>>
    PROVE  Tail(s) \in Seq(S) /\ Head(s) \in S
OBVIOUS

\* A plan that begins with save or note is none of a rule or the metrics.
LEMMA PlanHead ==
    ASSUME NEW t \in Task, task[t] \in TaskType, task[t].plan # <<>>,
           Head(task[t].plan) \in {"note", "save"}
    PROVE  /\ task[t].plan \in Seq({"note", "save"}) \ {<<>>}
           /\ Tail(task[t].plan) \in Seq({"note", "save"})
<1>1. task[t].plan \in Seq({"note", "save"}) \cup {<<"metrics">>, <<"rule">>}
  <2>1. task[t].plan \in Plans
    BY DEF TaskType
  <2> QED  BY <2>1 DEF Plans
<1>2. Head(<<"metrics">>) = "metrics" /\ Head(<<"rule">>) = "rule"
  OBVIOUS
<1>3. task[t].plan \in Seq({"note", "save"})
  BY <1>1, <1>2
<1> QED  BY <1>3, PlanTail

LEMMA NotifyPlans ==
    ASSUME NEW note \in Notify
    PROVE  /\ note \in Seq({"note", "save"})
           /\ <<"save">> \o note \in Seq({"note", "save"}) \ {<<>>}
           /\ note \o <<"save">> \in Seq({"note", "save"}) \ {<<>>}
           /\ <<"save">> \in Seq({"note", "save"}) \ {<<>>}
           /\ <<>> \o <<"save">> \in Seq({"note", "save"}) \ {<<>>}
<1>1. note = <<>> \/ note = <<"note", "save">>
  BY DEF Notify
<1>2. note \in Seq({"note", "save"}) /\ <<"save">> \in Seq({"note", "save"})
      /\ <<>> \in Seq({"note", "save"})
  <2>1. "note" \in {"note", "save"} /\ "save" \in {"note", "save"}
    OBVIOUS
  <2>2. <<"note", "save">> \in Seq({"note", "save"})
    BY <2>1
  <2>3. <<"save">> \in Seq({"note", "save"})
    BY <2>1
  <2>4. <<>> \in Seq({"note", "save"})
    OBVIOUS
  <2> QED  BY <1>1, <2>2, <2>3, <2>4
<1>3. /\ <<"save">> \o note \in Seq({"note", "save"})
      /\ note \o <<"save">> \in Seq({"note", "save"})
      /\ <<>> \o <<"save">> \in Seq({"note", "save"})
  BY <1>2
<1>4. Len(<<"save">> \o note) > 0 /\ Len(note \o <<"save">>) > 0
      /\ Len(<<>> \o <<"save">>) > 0 /\ Len(<<"save">>) > 0 /\ Len(<<>>) = 0
  BY <1>2
<1> QED  BY <1>2, <1>3, <1>4

-----------------------------------------------------------------------------
(* Types *)

\* The record of a task that waits for an event is in order if it was before.
LEMMA WaitsFits ==
    ASSUME NEW t, NEW n \in Nat, NEW rec, Fits(t, rec, n),
           NEW plan \in Seq({"note", "save"}), NEW i \in 1 .. n, NEW c \in 0 .. MaxClock,
           rec.pc # "idle", rec.pc = "handle" => plan # <<>>
    PROVE  Fits(t, [rec EXCEPT !.plan = plan, !.event = i, !.since = c], n)
<1> DEFINE new == [rec EXCEPT !.plan = plan, !.event = i, !.since = c]
<1>1. rec \in TaskType
  BY DEF Fits
<1>2. /\ new.pc = rec.pc /\ new.plan = plan /\ new.event = i
      /\ new.todo = rec.todo /\ new.below = rec.below /\ new.known = rec.known
  BY <1>1 DEF TaskType
<1>3. new \in TaskType
  <2>1. plan \in Plans /\ i \in Nat
    BY DEF Plans
  <2> QED  BY <1>1, <2>1 DEF TaskType
<1>4. plan # <<"metrics">> /\ plan # <<"rule">>
  <2>1. "metrics" \notin {"note", "save"} /\ "rule" \notin {"note", "save"}
    OBVIOUS
  <2>2. \A x : <<x>> \in Seq({"note", "save"}) => <<x>>[1] \in {"note", "save"}
    OBVIOUS
  <2> QED  BY <2>1, <2>2
<1> HIDE DEF new
<1>5. Fits(t, new, n)
  BY <1>2, <1>3, <1>4 DEF Fits
<1> QED  BY <1>5 DEF new

\* It stays so when there are more events.
LEMMA FitsMore ==
    ASSUME NEW t, NEW n \in Nat, NEW m \in Nat, n <= m, NEW rec, Fits(t, rec, n)
    PROVE  Fits(t, rec, m)
BY DEF Fits

LEMMA IdleFits ==
    ASSUME NEW t, NEW n \in Nat
    PROVE  Fits(t, Idle, n)
<1>1. Idle \in TaskType
  <2>1. <<>> \in Plans
    BY DEF Plans
  <2> QED  BY <2>1, AlertsAssumption DEF Idle, TaskType
<1>2. <<>> # <<"metrics">> /\ <<>> # <<"rule">>
  OBVIOUS
<1>3. Idle.pc = "idle" /\ Idle.plan = <<>> /\ Idle.todo = {} /\ \A r \in Rule : Idle.known[r] = 0
  BY DEF Idle
<1> QED  BY <1>1, <1>2, <1>3 DEF Fits

\* A step of one task that had the loop, or found it free, leaves the tasks in order.
LEMMA TaskStep ==
    ASSUME TypeOK, NEW t \in Task, NEW rec, task' = [task EXCEPT ![t] = rec],
           LoopFree \/ HasLoop(t), events' \in Seq(Event), Len(events) <= Len(events'),
           Fits(t, rec, Len(events'))
    PROVE  TasksOK'
<1>1. rec \in TaskType /\ task \in [Task -> TaskType]
  BY DEF Fits, TypeOK, TasksOK
<1>2. task' \in [Task -> TaskType]
  BY <1>1
<1>3. Len(events) \in Nat /\ Len(events') \in Nat
  BY DEF TypeOK
<1>4. ASSUME NEW u \in Task PROVE Fits(u, task'[u], Len(events'))
  <2>1. Fits(u, task[u], Len(events'))
    BY <1>3, FitsMore DEF TypeOK, TasksOK
  <2> QED  BY <1>1, <2>1
<1>5. ASSUME NEW u \in Task, NEW w \in Task, HasLoop(u)', HasLoop(w)' PROVE u = w
  BY <1>1, <1>5 DEF HasLoop, LoopFree, TypeOK, TasksOK
<1> QED  BY <1>2, <1>4, <1>5 DEF TasksOK

LEMMA TickType ==
    ASSUME TypeOK
    PROVE  Tick \in 0 .. MaxClock /\ clock <= Tick
BY AlertsAssumption DEF TypeOK, Tick

\* The other fields of the tasks, and the clock.
Others(t, rec) ==
    /\ clock' \in 0 .. MaxClock /\ clock <= clock'
    /\ \A u \in Task :
         /\ task'[u].todo = IF u = t THEN rec.todo ELSE task[u].todo
         /\ task'[u].known = IF u = t THEN rec.known ELSE task[u].known
         /\ task'[u].now = IF u = t THEN rec.now ELSE task[u].now

LEMMA OthersStep ==
    ASSUME TypeOK, NEW t \in Task, NEW rec, task' = [task EXCEPT ![t] = rec],
           clock' \in 0 .. MaxClock, clock <= clock'
    PROVE  Others(t, rec)
BY DEF TypeOK, TasksOK, Others

LEMMA WaitsStep ==
    ASSUME TypeOK, NEW t \in Task, NEW rec, NEW plan \in Seq({"note", "save"}),
           events' \in Seq(Event), Len(events) <= Len(events'),
           Fits(t, rec, Len(events')), NEW i \in 1 .. Len(events'),
           rec.pc # "idle", rec.pc = "handle" => plan # <<>>,
           LoopFree \/ HasLoop(t), Waits(t, rec, plan, i)
    PROVE  TasksOK' /\ Others(t, rec)
<1> DEFINE c == clock'
           new == [rec EXCEPT !.plan = plan, !.event = i, !.since = c]
<1>1. c \in 0 .. MaxClock /\ clock <= c
  <2>1. c = Tick \/ c = clock
    BY DEF Waits
  <2>2. clock \in 0 .. MaxClock
    BY DEF TypeOK
  <2> QED  BY <2>1, <2>2, TickType, AlertsAssumption
<1>2. task' = [task EXCEPT ![t] = new]
  BY DEF Waits
<1>3. new.todo = rec.todo /\ new.known = rec.known /\ new.now = rec.now
  BY DEF Fits, TaskType
<1>4. Fits(t, new, Len(events'))
  <2>1. Len(events') \in Nat
    OBVIOUS
  <2> HIDE DEF c
  <2> QED  BY <1>1, <2>1, WaitsFits
<1> HIDE DEF new
<1>5. TasksOK'
  BY <1>2, <1>4, TaskStep
<1>6. Others(t, new)
  BY <1>1, <1>2, OthersStep
<1> QED  BY <1>3, <1>5, <1>6 DEF Others

LEMMA EventUpdate ==
    ASSUME NEW s \in Seq(Event), NEW i \in 1 .. Len(s), NEW ev \in Event
    PROVE  /\ [s EXCEPT ![i] = ev] \in Seq(Event)
           /\ Len([s EXCEPT ![i] = ev]) = Len(s)
OBVIOUS

\* The step of a task that goes on with the rest of its plan.
LEMMA GoesOnStep ==
    ASSUME TypeOK, NEW t \in Task, Awaits(t, "save") \/ Awaits(t, "note"), GoesOn(t),
           events' \in Seq(Event), Len(events') = Len(events)
    PROVE  TasksOK' /\ (Others(t, task[t]) \/ Others(t, Idle))
<1>1. Fits(t, task[t], Len(events)) /\ task[t] \in TaskType /\ LoopFree
  BY DEF Awaits, TypeOK, TasksOK
<1>2. /\ task[t].plan \in Seq({"note", "save"}) \ {<<>>}
      /\ Tail(task[t].plan) \in Seq({"note", "save"})
  BY <1>1, PlanHead DEF Awaits
<1>3. task[t].event \in 1 .. Len(events) /\ task[t].pc # "idle"
  BY <1>1, <1>2 DEF Fits
<1> DEFINE rest == Tail(task[t].plan)
<1>4. CASE rest = <<>> /\ task[t].pc = "handle"
  <2>1. task' = [task EXCEPT ![t] = Idle] /\ clock' = clock
    BY <1>4 DEF GoesOn
  <2>2. clock' \in 0 .. MaxClock /\ clock <= clock'
    BY <2>1, AlertsAssumption DEF TypeOK
  <2>3. Fits(t, Idle, Len(events')) /\ Len(events) <= Len(events')
    BY IdleFits DEF TypeOK
  <2> QED  BY <1>1, <2>1, <2>2, <2>3, TaskStep, OthersStep
<1>5. CASE ~(rest = <<>> /\ task[t].pc = "handle")
  <2>1. Waits(t, task[t], rest, task[t].event)
    BY <1>5 DEF GoesOn
  <2>2. Fits(t, task[t], Len(events')) /\ Len(events) <= Len(events')
        /\ task[t].event \in 1 .. Len(events')
    BY <1>1, <1>3 DEF TypeOK
  <2>3. rest \in Seq({"note", "save"}) /\ (task[t].pc = "handle" => rest # <<>>)
    BY <1>2, <1>5
  <2> HIDE DEF rest
  <2> QED  BY <1>1, <1>3, <2>1, <2>2, <2>3, WaitsStep
<1> QED  BY <1>4, <1>5

\* What is not of the tasks.
DataOK ==
    /\ rules \in [Rule -> [state : {"enabled", "disabled", "gone"}, stamp : 0 .. MaxClock]]
    /\ saved \in [Rule -> [states : SUBSET {"enabled", "disabled", "gone"},
                           stamp : 0 .. MaxClock]]
    /\ events \in Seq(Event) /\ rows \in Seq(Event)
    /\ Len(events) <= MaxEvents /\ Len(rows) = Len(events)
    /\ clock \in 0 .. MaxClock /\ edits \in 0 .. MaxEdits
    /\ refusals \in 0 .. MaxRefusals /\ restarts \in 0 .. MaxRestarts

LEMMA TypeParts == TypeOK <=> DataOK /\ TasksOK
BY DEF TypeOK, DataOK

LEMMA SavedStep ==
    ASSUME TypeOK, NEW t \in Task, Saved(t)
    PROVE  TypeOK' /\ (Others(t, task[t]) \/ Others(t, Idle))
<1>1. events' = events /\ GoesOn(t) /\ Awaits(t, "save")
      /\ UNCHANGED rules /\ UNCHANGED saved /\ UNCHANGED bounds
  BY DEF Saved
<1>2. events' \in Seq(Event) /\ Len(events') = Len(events)
  BY <1>1 DEF TypeOK
<1>3. TasksOK' /\ (Others(t, task[t]) \/ Others(t, Idle))
  BY <1>1, <1>2, GoesOnStep
<1>4. task[t].event \in 1 .. Len(events)
  BY <1>1, PlanHead DEF Awaits, TypeOK, TasksOK, Fits
<1>5. rows' \in Seq(Event) /\ Len(rows') = Len(rows)
  <2> DEFINE i == task[t].event
  <2>1. events[i] \in Event /\ i \in 1 .. Len(rows)
    BY <1>4 DEF TypeOK
  <2>2. rows' = rows \/ rows' = [rows EXCEPT ![i] = events[i]]
    BY DEF Saved
  <2>3. rows \in Seq(Event)
    BY DEF TypeOK
  <2> HIDE DEF i
  <2> QED  BY <2>1, <2>2, <2>3, EventUpdate
<1>6. clock' \in 0 .. MaxClock
  BY <1>3 DEF Others
<1>7. DataOK'
  BY <1>1, <1>2, <1>5, <1>6 DEF DataOK, TypeOK, bounds
<1>8. TypeOK'
  BY <1>3, <1>7, TypeParts, PTL
<1> QED  BY <1>3, <1>8

LEMMA NotedStep ==
    ASSUME TypeOK, NEW t \in Task, Noted(t)
    PROVE  TypeOK' /\ (Others(t, task[t]) \/ Others(t, Idle))
<1>1. /\ events' = [events EXCEPT ![task[t].event].stamp = task[t].since]
      /\ GoesOn(t) /\ Awaits(t, "note") /\ UNCHANGED rows
      /\ UNCHANGED rules /\ UNCHANGED saved /\ UNCHANGED bounds
  BY DEF Noted
<1>2. events' \in Seq(Event) /\ Len(events') = Len(events)
  <2> DEFINE i == task[t].event
             ev == [events[i] EXCEPT !.stamp = task[t].since]
  <2>1. i \in 1 .. Len(events)
    BY <1>1, PlanHead DEF Awaits, TypeOK, TasksOK, Fits
  <2>2. task[t].since \in 0 .. MaxClock
    BY DEF TypeOK, TasksOK, TaskType
  <2>3. events \in Seq(Event) /\ events[i] \in Event
    BY <2>1 DEF TypeOK
  <2>4. ev \in Event
    BY <2>2, <2>3 DEF Event
  <2>5. events' = [events EXCEPT ![i] = ev]
    BY <1>1
  <2> HIDE DEF i, ev
  <2> QED  BY <2>1, <2>3, <2>4, <2>5, EventUpdate
<1>3. TasksOK' /\ (Others(t, task[t]) \/ Others(t, Idle))
  BY <1>1, <1>2, GoesOnStep
<1>4. clock' \in 0 .. MaxClock
  BY <1>3 DEF Others
<1>5. DataOK'
  BY <1>1, <1>2, <1>4 DEF DataOK, TypeOK, bounds
<1>6. TypeOK'
  BY <1>3, <1>5, TypeParts, PTL
<1> QED  BY <1>3, <1>6

LEMMA RuleHead ==
    ASSUME TypeOK, NEW t \in Task, Awaits(t, "rule")
    PROVE  /\ task[t].plan = <<"rule">> /\ t \in User /\ task[t].event \in Rule
           /\ task[t].pc \in {"handle", "delete"} /\ Tail(task[t].plan) = <<>>
<1>1. Fits(t, task[t], Len(events)) /\ task[t] \in TaskType
  BY DEF TypeOK, TasksOK
<1>2. task[t].plan \in Seq({"note", "save"}) \cup {<<"metrics">>, <<"rule">>}
  <2>1. task[t].plan \in Plans
    BY <1>1 DEF TaskType
  <2> QED  BY <2>1 DEF Plans
<1>3. task[t].plan # <<>> /\ Head(task[t].plan) = "rule"
  BY DEF Awaits
<1>4. task[t].plan \notin Seq({"note", "save"})
  <2>1. ASSUME NEW s \in Seq({"note", "save"}), s # <<>> PROVE Head(s) # "rule"
    BY <2>1, PlanTail
  <2> QED  BY <1>3, <2>1
<1>5. Head(<<"metrics">>) = "metrics" /\ Tail(<<"rule">>) = <<>>
  OBVIOUS
<1>6. task[t].plan = <<"rule">>
  BY <1>2, <1>3, <1>4, <1>5
<1>7. t \in User /\ task[t].event \in Rule /\ task[t].pc # "evaluate" /\ task[t].pc # "idle"
  BY <1>1, <1>3, <1>6 DEF Fits
<1> QED  BY <1>1, <1>5, <1>6, <1>7 DEF TaskType

LEMMA RuleSavedStep ==
    ASSUME TypeOK, NEW t \in Task, RuleSaved(t)
    PROVE  /\ TypeOK'
           /\ \/ Others(t, Idle)
              \/ Others(t, [task[t] EXCEPT !.plan = <<>>, !.now = clock'])
<1>1. /\ Awaits(t, "rule") /\ events' = events /\ rows' = rows /\ rules' = rules
      /\ edits' = edits /\ refusals' = refusals /\ restarts' = restarts
  BY DEF RuleSaved, bounds
<1>2. /\ task[t].plan = <<"rule">> /\ t \in User /\ task[t].event \in Rule
      /\ task[t].pc \in {"handle", "delete"} /\ Tail(task[t].plan) = <<>>
  BY <1>1, RuleHead
<1>3. saved' \in [Rule -> [states : SUBSET {"enabled", "disabled", "gone"},
                           stamp : 0 .. MaxClock]]
  <2> DEFINE r == task[t].event
             new == [states |-> (IF rules[r].stamp = saved[r].stamp THEN saved[r].states ELSE {})
                                    \cup {rules[r].state},
                     stamp |-> rules[r].stamp]
  <2>1. /\ rules[r].state \in {"enabled", "disabled", "gone"}
        /\ rules[r].stamp \in 0 .. MaxClock
        /\ saved[r] \in [states : SUBSET {"enabled", "disabled", "gone"}, stamp : 0 .. MaxClock]
    BY <1>2 DEF TypeOK
  <2>2. new \in [states : SUBSET {"enabled", "disabled", "gone"}, stamp : 0 .. MaxClock]
    BY <2>1
  <2>3. saved' = [saved EXCEPT ![r] = new]
    BY DEF RuleSaved
  <2> HIDE DEF new, r
  <2> QED  BY <2>2, <2>3 DEF TypeOK
<1>4. LoopFree /\ Fits(t, task[t], Len(events)) /\ task[t] \in TaskType /\ events \in Seq(Event)
      /\ Len(events) \in Nat
  BY <1>1 DEF Awaits, TypeOK, TasksOK
<1>5. /\ TasksOK'
      /\ \/ Others(t, Idle)
         \/ Others(t, [task[t] EXCEPT !.plan = <<>>, !.now = clock'])
  <2>1. CASE task[t].pc = "handle"
    <3>1. task' = [task EXCEPT ![t] = Idle] /\ clock' = clock
      BY <1>2, <2>1 DEF RuleSaved, GoesOn
    <3>2. clock' \in 0 .. MaxClock /\ clock <= clock'
      BY <3>1, AlertsAssumption DEF TypeOK
    <3>3. Fits(t, Idle, Len(events'))
      BY <1>1, <1>4, IdleFits
    <3>4. events' \in Seq(Event) /\ Len(events) <= Len(events')
      BY <1>1, <1>4
    <3> QED  BY <1>4, <3>1, <3>2, <3>3, <3>4, TaskStep, OthersStep
  <2>2. CASE task[t].pc # "handle"
    <3> DEFINE new == [task[t] EXCEPT !.plan = <<>>, !.now = clock']
    <3>1. task' = [task EXCEPT ![t] = new] /\ clock' = Tick
      BY <2>2 DEF RuleSaved
    <3>2. clock' \in 0 .. MaxClock /\ clock <= clock'
      BY <3>1, TickType
    <3>3. new \in TaskType
      <4>1. <<>> \in Plans
        BY DEF Plans
      <4> QED  BY <1>4, <3>2, <4>1 DEF TaskType
    <3>4. /\ new.pc = "delete" /\ new.plan = <<>> /\ new.todo = task[t].todo
          /\ new.below = task[t].below /\ new.known = task[t].known
      BY <1>2, <1>4, <2>2 DEF TaskType
    <3>5. Fits(t, new, Len(events'))
      <4>1. <<>> # <<"metrics">> /\ <<>> # <<"rule">>
        OBVIOUS
      <4>2. t \notin Evaluator
        BY <1>2, AlertsAssumption
      <4> HIDE DEF new
      <4> QED  BY <1>1, <1>4, <3>3, <3>4, <4>1, <4>2 DEF Fits
    <3>6. events' \in Seq(Event) /\ Len(events) <= Len(events')
      BY <1>1, <1>4
    <3> HIDE DEF new
    <3>7. TasksOK' /\ Others(t, new)
      BY <1>4, <3>1, <3>2, <3>5, <3>6, TaskStep, OthersStep
    <3> QED  BY <3>7 DEF new
  <2> QED  BY <2>1, <2>2
<1>6. clock' \in 0 .. MaxClock
  BY <1>5 DEF Others
<1>7. DataOK'
  BY <1>1, <1>3, <1>6 DEF DataOK, TypeOK
<1>8. TypeOK'
  BY <1>5, <1>7, TypeParts, PTL
<1> QED  BY <1>5, <1>8

LEMMA RefusedStep ==
    ASSUME TypeOK, NEW t \in Task, Refused(t)
    PROVE  TypeOK' /\ Others(t, Idle)
<1>1. /\ events' = events /\ rows' = rows /\ rules' = rules /\ saved' = saved /\ clock' = clock
      /\ edits' = edits /\ refusals' = refusals + 1 /\ restarts' = restarts
      /\ refusals < MaxRefusals /\ LoopFree /\ task' = [task EXCEPT ![t] = Idle]
  BY DEF Refused
<1>2. events \in Seq(Event) /\ Len(events) \in Nat /\ clock \in 0 .. MaxClock
  BY DEF TypeOK
<1>3. /\ events' \in Seq(Event) /\ Len(events) <= Len(events') /\ Fits(t, Idle, Len(events'))
      /\ clock' \in 0 .. MaxClock /\ clock <= clock'
  BY <1>1, <1>2, IdleFits, AlertsAssumption
<1>4. TasksOK' /\ Others(t, Idle)
  BY <1>1, <1>3, TaskStep, OthersStep
<1>5. refusals' \in 0 .. MaxRefusals
  BY <1>1, AlertsAssumption DEF TypeOK
<1>6. DataOK'
  BY <1>1, <1>5 DEF DataOK, TypeOK
<1>7. TypeOK'
  BY <1>4, <1>6, TypeParts, PTL
<1> QED  BY <1>4, <1>7

LEMMA EvaluateStep ==
    ASSUME TypeOK, NEW e \in Evaluator, Evaluate(e)
    PROVE  TypeOK' /\ Others(e, Idle)
<1> DEFINE on == {r \in Rule : rules[r].state = "enabled"}
           new == [Idle EXCEPT !.pc = "evaluate", !.plan = <<"metrics">>, !.enabled = on]
<1>1. /\ events' = events /\ rows' = rows /\ rules' = rules /\ saved' = saved /\ clock' = clock
      /\ edits' = edits /\ refusals' = refusals /\ restarts' = restarts
      /\ LoopFree /\ task' = [task EXCEPT ![e] = new]
  BY DEF Evaluate, bounds
<1>2. events \in Seq(Event) /\ Len(events) \in Nat /\ clock \in 0 .. MaxClock
  BY DEF TypeOK
<1>3. new \in TaskType
  <2>1. <<"metrics">> \in Plans /\ on \in SUBSET Rule
    BY DEF Plans
  <2>2. Idle \in TaskType
    BY <1>2, IdleFits DEF Fits
  <2> HIDE DEF on
  <2> QED  BY <2>1, <2>2 DEF TaskType
<1>4. /\ new.pc = "evaluate" /\ new.plan = <<"metrics">> /\ new.todo = {} /\ new.below = {}
      /\ new.now = Idle.now /\ new.known = Idle.known /\ \A r \in Rule : new.known[r] = 0
      /\ Idle.todo = {}
  BY DEF Idle
<1>5. Fits(e, new, Len(events))
  <2>1. <<"metrics">> # <<>> /\ <<"metrics">> # <<"rule">>
        /\ <<"metrics">> \notin Seq({"note", "save"})
    <3>1. \A x : <<x>> \in Seq({"note", "save"}) => <<x>>[1] \in {"note", "save"}
      OBVIOUS
    <3> QED  BY <3>1
  <2>2. e \notin User
    BY AlertsAssumption
  <2> HIDE DEF new
  <2> QED  BY <1>2, <1>3, <1>4, <2>1, <2>2 DEF Fits
<1>6. /\ events' \in Seq(Event) /\ Len(events) <= Len(events') /\ Fits(e, new, Len(events'))
      /\ clock' \in 0 .. MaxClock /\ clock <= clock'
  <2> HIDE DEF new
  <2> QED  BY <1>1, <1>2, <1>5, AlertsAssumption
<1>7. DataOK'
  BY <1>1 DEF DataOK, TypeOK
<1> HIDE DEF new
<1>8. TasksOK' /\ Others(e, new)
  BY <1>1, <1>6, TaskStep, OthersStep
<1>9. TypeOK'
  BY <1>7, <1>8, TypeParts, PTL
<1>10. Others(e, Idle)
  BY <1>4, <1>8 DEF Others
<1> QED  BY <1>9, <1>10

LEMMA LastType ==
    ASSUME TypeOK, NEW r \in Rule
    PROVE  /\ ActiveEvent(r) \in 0 .. Len(events)
           /\ ActiveEvent(r) # 0 => ActiveEvent(r) \in ActiveOf(r)
           /\ ActiveEvent(r) = 0 => ActiveOf(r) = {}
<1>1. Len(events) \in Nat /\ DOMAIN events = 1 .. Len(events)
  BY DEF TypeOK
<1>2. ActiveOf(r) \subseteq 1 .. Len(events) /\ ActiveOf(r) \subseteq 0 .. Len(events)
  BY <1>1 DEF ActiveOf
<1>3. CASE ActiveOf(r) = {}
  BY <1>1, <1>3 DEF ActiveEvent, Last
<1>4. CASE ActiveOf(r) # {}
  <2>1. Max(ActiveOf(r)) \in ActiveOf(r)
    BY <1>1, <1>2, <1>4, GreatestNatural
  <2>2. ActiveEvent(r) = Max(ActiveOf(r))
    BY <1>4 DEF ActiveEvent, Last
  <2>3. Max(ActiveOf(r)) \in 1 .. Len(events)
    BY <1>2, <2>1
  <2> QED  BY <1>1, <2>1, <2>2, <2>3
<1> QED  BY <1>3, <1>4

\* What the evaluation knows once it has the metrics.
LEMMA MeasuredStep ==
    ASSUME TypeOK, NEW e \in Evaluator, Measured(e)
    PROVE  /\ TypeOK' /\ events' = events
           /\ \E rec : /\ Others(e, rec) /\ rec.now = clock'
                       /\ rec.known = [r \in Rule |-> ActiveEvent(r)]
<1>1. /\ events' = events /\ rows' = rows /\ rules' = rules /\ saved' = saved /\ clock' = Tick
      /\ edits' = edits /\ refusals' = refusals /\ restarts' = restarts /\ Awaits(e, "metrics")
  BY DEF Measured, bounds
<1>2. events \in Seq(Event) /\ Len(events) \in Nat /\ clock' \in 0 .. MaxClock /\ clock <= clock'
  BY <1>1, TickType DEF TypeOK
<1>3. task[e] \in TaskType /\ Fits(e, task[e], Len(events)) /\ LoopFree /\ task[e].plan # <<>>
  BY <1>1 DEF TypeOK, TasksOK, Awaits
<1> DEFINE known == [r \in Rule |-> ActiveEvent(r)]
<1>4. PICK above \in SUBSET task[e].enabled : \E below \in SUBSET (task[e].enabled \ above) :
         task' = [task EXCEPT ![e].plan = <<>>, ![e].now = clock', ![e].known = known,
                              ![e].todo = above, ![e].below = below]
  BY DEF Measured
<1>5. PICK below \in SUBSET (task[e].enabled \ above) :
         task' = [task EXCEPT ![e].plan = <<>>, ![e].now = clock', ![e].known = known,
                              ![e].todo = above, ![e].below = below]
  BY <1>4
<1> DEFINE new == [task[e] EXCEPT !.plan = <<>>, !.now = clock', !.known = known,
                                  !.todo = above, !.below = below]
<1>6. known \in [Rule -> Nat] /\ \A r \in Rule : known[r] \in 0 .. Len(events)
  BY <1>2, LastType
<1>7. above \in SUBSET Rule /\ below \in SUBSET Rule /\ above \cap below = {}
  BY <1>3, <1>4, <1>5 DEF TaskType
<1> HIDE DEF known
<1>8. new \in TaskType
  <2>1. <<>> \in Plans
    BY DEF Plans
  <2> QED  BY <1>2, <1>3, <1>6, <1>7, <2>1 DEF TaskType
<1>9. /\ new.pc = task[e].pc /\ new.plan = <<>> /\ new.todo = above /\ new.below = below
      /\ new.known = known /\ new.now = clock'
  BY <1>3 DEF TaskType
<1>10. task' = [task EXCEPT ![e] = new]
  BY <1>5
<1> HIDE DEF new
<1>11. Fits(e, new, Len(events))
  <2>1. <<>> # <<"metrics">> /\ <<>> # <<"rule">>
    OBVIOUS
  <2>2. e \notin User /\ task[e].pc = "evaluate"
    BY <1>3, AlertsAssumption DEF Fits
  <2> QED  BY <1>2, <1>6, <1>7, <1>8, <1>9, <2>1, <2>2 DEF Fits
<1>12. events' \in Seq(Event) /\ Len(events) <= Len(events') /\ Fits(e, new, Len(events'))
  BY <1>1, <1>2, <1>11
<1>13. TasksOK' /\ Others(e, new)
  BY <1>2, <1>3, <1>10, <1>12, TaskStep, OthersStep
<1>14. DataOK'
  BY <1>1, <1>2 DEF DataOK, TypeOK
<1>15. TypeOK'
  BY <1>13, <1>14, TypeParts, PTL
<1> QED  BY <1>1, <1>9, <1>13, <1>15 DEF known

\* An event is resolved by the evaluation or a deletion.
Resolved(i) ==
    \E now \in 0 .. MaxClock :
        events' = [events EXCEPT ![i] = [events[i] EXCEPT !.status = "resolved", !.stamp = now]]

LEMMA ResolvesStep ==
    ASSUME TypeOK, NEW t \in Task, NEW i \in 1 .. Len(events), HasLoop(t), task[t].pc # "handle",
           Resolves(t, task[t], i, task[t].now)
    PROVE  /\ events' \in Seq(Event) /\ Len(events') = Len(events) /\ Resolved(i)
           /\ TasksOK' /\ Others(t, task[t])
<1>1. task[t] \in TaskType /\ Fits(t, task[t], Len(events)) /\ task[t].now \in 0 .. MaxClock
      /\ events \in Seq(Event) /\ Len(events) \in Nat /\ task[t].pc # "idle"
  BY DEF TypeOK, TasksOK, TaskType, HasLoop
<1> DEFINE ev == [events[i] EXCEPT !.status = "resolved", !.stamp = task[t].now]
<1>2. PICK note \in Notify :
        /\ events' = [events EXCEPT ![i].status = "resolved", ![i].stamp = task[t].now]
        /\ Waits(t, task[t], <<"save">> \o note, i)
  BY DEF Resolves
<1>3. events' = [events EXCEPT ![i] = ev]
  BY <1>1, <1>2
<1>4. ev \in Event
  <2>1. events[i] \in Event /\ task[t].now \in 0 .. MaxClock
    BY <1>1
  <2> QED  BY <2>1 DEF Event
<1>5. events' \in Seq(Event) /\ Len(events') = Len(events) /\ Resolved(i)
  <2>1. Resolved(i)
    BY <1>1, <1>3 DEF Resolved
  <2> HIDE DEF ev
  <2> QED  BY <1>1, <1>3, <1>4, <2>1, EventUpdate
<1>6. <<"save">> \o note \in Seq({"note", "save"})
  BY <1>2, NotifyPlans
<1>7. /\ Len(events) <= Len(events') /\ Fits(t, task[t], Len(events')) /\ i \in 1 .. Len(events')
  BY <1>1, <1>5
<1> HIDE DEF ev
<1>8. TasksOK' /\ Others(t, task[t])
  BY <1>1, <1>2, <1>5, <1>6, <1>7, WaitsStep
<1> QED  BY <1>5, <1>8

\* A task that has the loop is done.
LEMMA DoneStep ==
    ASSUME TypeOK, NEW t \in Task, LoopFree \/ HasLoop(t), task' = [task EXCEPT ![t] = Idle],
           UNCHANGED <<events, clock>>
    PROVE  TasksOK' /\ Others(t, Idle)
<1>1. events \in Seq(Event) /\ Len(events) \in Nat /\ clock \in 0 .. MaxClock
  BY DEF TypeOK
<1>2. /\ events' \in Seq(Event) /\ Len(events) <= Len(events') /\ Fits(t, Idle, Len(events'))
      /\ clock' \in 0 .. MaxClock /\ clock <= clock'
  BY <1>1, IdleFits, AlertsAssumption
<1> QED  BY <1>2, TaskStep, OthersStep

-----------------------------------------------------------------------------
(* Types: the rules that are met *)

\* What a rule that is met does to its event, or the event it makes.
Updated(e, i) ==
    \E ready \in BOOLEAN, count \in 1 .. MinOccurrence :
        events' = [events EXCEPT ![i] =
            [events[i] EXCEPT !.count = count, !.stamp = task[e].now,
                              !.status = StatusAfter(events[i], ready, task[e].now)]]
Made(e, r) ==
    \E ev \in Event : ev.rule = r /\ events' = Append(events, ev)

\* A rule less to look at.
LEMMA RuleLess ==
    ASSUME TypeOK, NEW e \in Evaluator, NEW r \in task[e].todo
    PROVE  /\ Fits(e, [task[e] EXCEPT !.todo = @ \ {r}], Len(events))
           /\ [task[e] EXCEPT !.todo = @ \ {r}].plan = task[e].plan
           /\ [task[e] EXCEPT !.todo = @ \ {r}].pc = task[e].pc
           /\ [task[e] EXCEPT !.todo = @ \ {r}].todo = task[e].todo \ {r}
           /\ [task[e] EXCEPT !.todo = @ \ {r}].known = task[e].known
           /\ [task[e] EXCEPT !.todo = @ \ {r}].now = task[e].now
<1> DEFINE new == [task[e] EXCEPT !.todo = @ \ {r}]
<1>1. task[e] \in TaskType /\ Fits(e, task[e], Len(events))
  BY DEF TypeOK, TasksOK
<1>2. new \in TaskType
  BY <1>1 DEF TaskType
<1>3. /\ new.pc = task[e].pc /\ new.plan = task[e].plan /\ new.todo = task[e].todo \ {r}
      /\ new.below = task[e].below /\ new.known = task[e].known /\ new.event = task[e].event
      /\ new.now = task[e].now
  BY <1>1 DEF TaskType
<1> HIDE DEF new
<1>4. Fits(e, new, Len(events))
  BY <1>1, <1>2, <1>3 DEF Fits
<1> QED  BY <1>3, <1>4 DEF new

LEMMA StatusType ==
    ASSUME NEW ev \in Event, NEW ready \in BOOLEAN, NEW now
    PROVE  StatusAfter(ev, ready, now) \in Active \cup {"resolved", "unsaved"}
BY DEF StatusAfter, Event, Active

LEMMA KnownStep ==
    ASSUME TypeOK, NEW e \in Evaluator, HasLoop(e), NEW r \in task[e].todo,
           NEW i \in 1 .. Len(events), Known(e, r, i)
    PROVE  /\ events' \in Seq(Event) /\ Len(events') = Len(events) /\ Updated(e, i)
           /\ rows' = rows
           /\ TasksOK' /\ Others(e, [task[e] EXCEPT !.todo = @ \ {r}])
<1> DEFINE count == IF events[i].count < MinOccurrence THEN events[i].count + 1 ELSE MinOccurrence
           rec == [task[e] EXCEPT !.todo = @ \ {r}]
<1>1. task[e] \in TaskType /\ Fits(e, task[e], Len(events)) /\ task[e].now \in 0 .. MaxClock
      /\ events \in Seq(Event) /\ Len(events) \in Nat /\ task[e].pc # "idle"
  BY DEF TypeOK, TasksOK, TaskType, HasLoop
<1>2. PICK ready \in Ready(count), note \in Notify :
        LET status == StatusAfter(events[i], ready, task[e].now)
        IN /\ events' = [events EXCEPT ![i] =
                  [@ EXCEPT !.count = count, !.stamp = task[e].now, !.status = status]]
           /\ Waits(e, rec, (IF status = "firing" THEN note ELSE <<>>) \o <<"save">>, i)
           /\ UNCHANGED rows
  BY DEF Known
<1> DEFINE status == StatusAfter(events[i], ready, task[e].now)
           ev == [events[i] EXCEPT !.count = count, !.stamp = task[e].now, !.status = status]
           plan == (IF status = "firing" THEN note ELSE <<>>) \o <<"save">>
<1>3. events[i] \in Event
  BY <1>1
<1>4. count \in 1 .. MinOccurrence
  <2>1. events[i].count \in 1 .. MinOccurrence
    BY <1>3 DEF Event
  <2> QED  BY <2>1, AlertsAssumption
<1>5. ready \in BOOLEAN
  <2> HIDE DEF count
  <2>1. (count >= MinOccurrence) \in BOOLEAN
    OBVIOUS
  <2> QED  BY <1>2, <2>1 DEF Ready
<1>6. ev \in Event
  <2>1. status \in Active \cup {"resolved", "unsaved"}
    BY <1>3, <1>5, StatusType
  <2> HIDE DEF count, status
  <2> QED  BY <1>1, <1>3, <1>4, <2>1 DEF Event
<1>7. events' = [events EXCEPT ![i] = ev] /\ rows' = rows /\ Waits(e, rec, plan, i)
  BY <1>2
<1>8. plan \in Seq({"note", "save"}) \ {<<>>}
  <2> HIDE DEF status
  <2> QED  BY <1>2, NotifyPlans
<1>9. Updated(e, i)
  BY <1>4, <1>5, <1>7 DEF Updated
<1> HIDE DEF ev, plan, status, count
<1>10. events' \in Seq(Event) /\ Len(events') = Len(events)
  BY <1>1, <1>6, <1>7, EventUpdate
<1>11. Fits(e, rec, Len(events)) /\ rec.pc = task[e].pc /\ rec.pc # "handle" /\ rec.pc # "idle"
  BY <1>1, RuleLess DEF Fits
<1>12. /\ Len(events) <= Len(events') /\ Fits(e, rec, Len(events')) /\ i \in 1 .. Len(events')
  BY <1>1, <1>10, <1>11
<1> HIDE DEF rec
<1>13. TasksOK' /\ Others(e, rec)
  BY <1>7, <1>8, <1>10, <1>11, <1>12, WaitsStep
<1> QED  BY <1>7, <1>9, <1>10, <1>13 DEF rec

LEMMA FreshStep ==
    ASSUME TypeOK, NEW e \in Evaluator, HasLoop(e), NEW r \in task[e].todo,
           Len(events) < MaxEvents, Fresh(e, r)
    PROVE  /\ events' \in Seq(Event) /\ Len(events') = Len(events) + 1 /\ Made(e, r)
           /\ rows' \in Seq(Event) /\ Len(rows') = Len(events')
           /\ TasksOK'
           /\ Others(e, [task[e] EXCEPT !.todo = @ \ {r}, !.known[r] = Len(events) + 1])
<1> DEFINE i == Len(events) + 1
           less == [task[e] EXCEPT !.todo = @ \ {r}]
           rec == [task[e] EXCEPT !.todo = @ \ {r}, !.known[r] = i]
<1>1. task[e] \in TaskType /\ Fits(e, task[e], Len(events)) /\ task[e].now \in 0 .. MaxClock
      /\ events \in Seq(Event) /\ Len(events) \in Nat /\ task[e].pc # "idle" /\ r \in Rule
      /\ rows \in Seq(Event) /\ Len(rows) = Len(events)
  BY DEF TypeOK, TasksOK, TaskType, HasLoop
<1>2. PICK ready \in Ready(1), note \in Notify :
        LET event == [rule |-> r, count |-> 1, stamp |-> task[e].now, until |-> 0,
                      status |-> IF ready THEN "firing" ELSE "pending"]
        IN /\ events' = Append(events, event)
           /\ rows' = Append(rows, [event EXCEPT !.status = "unsaved", !.stamp = 0])
           /\ Waits(e, rec, (IF ready THEN note ELSE <<>>) \o <<"save">>, i)
  BY DEF Fresh
<1> DEFINE event == [rule |-> r, count |-> 1, stamp |-> task[e].now, until |-> 0,
                     status |-> IF ready THEN "firing" ELSE "pending"]
           row == [event EXCEPT !.status = "unsaved", !.stamp = 0]
           plan == (IF ready THEN note ELSE <<>>) \o <<"save">>
<1>3. ready \in BOOLEAN
  <2>1. (1 >= MinOccurrence) \in BOOLEAN
    OBVIOUS
  <2> QED  BY <1>2, <2>1 DEF Ready
<1>4. event \in Event /\ event.rule = r
  BY <1>1, <1>3, AlertsAssumption DEF Event, Active
<1>5. row \in Event
  <2>1. 0 \in 0 .. MaxClock
    BY AlertsAssumption
  <2> HIDE DEF event
  <2> QED  BY <1>4, <2>1 DEF Event
<1>6. events' = Append(events, event) /\ rows' = Append(rows, row) /\ Waits(e, rec, plan, i)
  BY <1>2
<1>7. plan \in Seq({"note", "save"}) \ {<<>>}
  BY <1>2, <1>3, NotifyPlans
<1>8. Made(e, r)
  BY <1>4, <1>6 DEF Made
<1> HIDE DEF event, row, plan
<1>9. /\ events' \in Seq(Event) /\ Len(events') = i /\ rows' \in Seq(Event) /\ Len(rows') = i
  BY <1>1, <1>4, <1>5, <1>6
<1>10. /\ Fits(e, less, Len(events)) /\ less.pc = task[e].pc /\ less.todo = task[e].todo \ {r}
       /\ less.known = task[e].known /\ less.plan = task[e].plan /\ less.now = task[e].now
  BY RuleLess
<1>11. less \in TaskType
  BY <1>10 DEF Fits
<1>12. rec = [less EXCEPT !.known = [task[e].known EXCEPT ![r] = i]]
  BY <1>1 DEF TaskType
<1>13. i \in Nat /\ i = Len(events) + 1 /\ i \in 1 .. i
  BY <1>1
<1> HIDE DEF less, i, rec
<1>14. rec \in TaskType
  BY <1>1, <1>11, <1>12, <1>13 DEF TaskType
<1>15. /\ rec.pc = less.pc /\ rec.plan = less.plan /\ rec.todo = less.todo
       /\ rec.below = less.below /\ rec.event = less.event
       /\ rec.known = [task[e].known EXCEPT ![r] = i]
  BY <1>11, <1>12 DEF TaskType
<1>16. \A q \in Rule : rec.known[q] \in 0 .. i
  <2>1. task[e].known \in [Rule -> Nat] /\ \A q \in Rule : task[e].known[q] \in 0 .. Len(events)
    BY <1>1 DEF Fits, TaskType
  <2> QED  BY <1>1, <1>13, <1>15, <2>1
<1>17. Fits(e, rec, i)
  <2>1. Fits(e, less, i)
    BY <1>1, <1>10, <1>13, FitsMore
  <2> QED  BY <1>14, <1>15, <1>16, <2>1 DEF Fits
<1>18. rec.pc = task[e].pc /\ rec.pc # "handle" /\ rec.pc # "idle"
  BY <1>1, <1>10, <1>15 DEF Fits
<1>19. Len(events) <= Len(events') /\ Fits(e, rec, Len(events')) /\ i \in 1 .. Len(events')
  BY <1>1, <1>9, <1>13, <1>17
<1>20. TasksOK' /\ Others(e, rec)
  BY <1>6, <1>7, <1>9, <1>18, <1>19, WaitsStep
<1> QED  BY <1>8, <1>9, <1>13, <1>20 DEF rec, i

\* The rule is not looked at: there are too many events.
LEMMA SkippedStep ==
    ASSUME TypeOK, NEW e \in Evaluator, HasLoop(e), NEW r \in task[e].todo,
           task' = [task EXCEPT ![e].todo = @ \ {r}], UNCHANGED <<events, clock>>
    PROVE  TasksOK' /\ Others(e, [task[e] EXCEPT !.todo = @ \ {r}])
<1> DEFINE rec == [task[e] EXCEPT !.todo = @ \ {r}]
<1>1. Fits(e, rec, Len(events))
  BY RuleLess
<1>2. task' = [task EXCEPT ![e] = rec]
  OBVIOUS
<1> HIDE DEF rec
<1>3. /\ events' \in Seq(Event) /\ Len(events) <= Len(events') /\ Fits(e, rec, Len(events'))
      /\ clock' \in 0 .. MaxClock /\ clock <= clock'
  <2>1. events \in Seq(Event) /\ Len(events) \in Nat /\ clock \in 0 .. MaxClock
    BY DEF TypeOK
  <2> QED  BY <1>1, <2>1, AlertsAssumption
<1>4. TasksOK' /\ Others(e, rec)
  BY <1>2, <1>3, TaskStep, OthersStep
<1> QED  BY <1>4 DEF rec

\* The three moves of the evaluation of the rules that are met.
Meets(e) ==
    \E r \in task[e].todo :
       \/ /\ task[e].known[r] # 0 /\ Updated(e, task[e].known[r])
          /\ Others(e, [task[e] EXCEPT !.todo = @ \ {r}])
       \/ /\ task[e].known[r] = 0 /\ Made(e, r)
          /\ Others(e, [task[e] EXCEPT !.todo = @ \ {r}, !.known[r] = Len(events) + 1])
       \/ /\ UNCHANGED events
          /\ Others(e, [task[e] EXCEPT !.todo = @ \ {r}])

LEMMA NextRuleStep ==
    ASSUME TypeOK, NEW e \in Evaluator, HasLoop(e), NextRule(e)
    PROVE  /\ events' \in Seq(Event) /\ rows' \in Seq(Event) /\ Len(rows') = Len(events')
           /\ Len(events') <= MaxEvents /\ TasksOK' /\ Meets(e)
<1>1. PICK r \in task[e].todo :
        IF task[e].known[r] # 0 THEN Known(e, r, task[e].known[r])
        ELSE IF Len(events) < MaxEvents THEN Fresh(e, r)
        ELSE /\ task' = [task EXCEPT ![e].todo = @ \ {r}]
             /\ UNCHANGED <<events, rows, clock>>
  BY DEF NextRule
<1>2. /\ events \in Seq(Event) /\ rows \in Seq(Event) /\ Len(rows) = Len(events)
      /\ Len(events) <= MaxEvents /\ Len(events) \in Nat /\ MaxEvents \in Nat
  BY AlertsAssumption DEF TypeOK
<1>3. r \in Rule /\ task[e].known[r] \in 0 .. Len(events)
  BY DEF TypeOK, TasksOK, Fits, TaskType
<1>4. CASE task[e].known[r] # 0
  <2>1. task[e].known[r] \in 1 .. Len(events) /\ Known(e, r, task[e].known[r])
    BY <1>1, <1>2, <1>3, <1>4
  <2>2. /\ events' \in Seq(Event) /\ Len(events') = Len(events) /\ rows' = rows
        /\ Updated(e, task[e].known[r])
        /\ TasksOK' /\ Others(e, [task[e] EXCEPT !.todo = @ \ {r}])
    BY <2>1, KnownStep
  <2>3. Meets(e)
    BY <1>4, <2>2 DEF Meets
  <2> QED  BY <1>2, <2>2, <2>3
<1>5. CASE task[e].known[r] = 0 /\ Len(events) < MaxEvents
  <2>1. Fresh(e, r)
    BY <1>1, <1>5
  <2>2. /\ events' \in Seq(Event) /\ Len(events') = Len(events) + 1 /\ Made(e, r)
        /\ rows' \in Seq(Event) /\ Len(rows') = Len(events')
        /\ TasksOK'
        /\ Others(e, [task[e] EXCEPT !.todo = @ \ {r}, !.known[r] = Len(events) + 1])
    BY <1>5, <2>1, FreshStep
  <2>3. Meets(e)
    BY <1>5, <2>2 DEF Meets
  <2> QED  BY <1>2, <1>5, <2>2, <2>3
<1>6. CASE task[e].known[r] = 0 /\ ~(Len(events) < MaxEvents)
  <2>1. task' = [task EXCEPT ![e].todo = @ \ {r}] /\ UNCHANGED <<events, rows, clock>>
    BY <1>1, <1>6
  <2>2. TasksOK' /\ Others(e, [task[e] EXCEPT !.todo = @ \ {r}])
    BY <2>1, SkippedStep
  <2>3. Meets(e)
    BY <2>1, <2>2 DEF Meets
  <2> QED  BY <1>2, <2>1, <2>2, <2>3
<1> QED  BY <1>4, <1>5, <1>6

-----------------------------------------------------------------------------
(* Types: the other actions *)

\* No event is changed, or one is resolved.
Settles ==
    \/ UNCHANGED events
    \/ \E i \in 1 .. Len(events) : Resolved(i)

LEMMA ProceedStep ==
    ASSUME TypeOK, NEW e \in Evaluator, Proceed(e)
    PROVE  TypeOK' /\ (Meets(e) \/ (Settles /\ (Others(e, task[e]) \/ Others(e, Idle))))
<1>1. /\ HasLoop(e) /\ task[e].pc = "evaluate" /\ rules' = rules /\ saved' = saved
      /\ edits' = edits /\ refusals' = refusals /\ restarts' = restarts
  BY DEF Proceed, HasLoop, bounds
<1>2. /\ events \in Seq(Event) /\ rows \in Seq(Event) /\ Len(rows) = Len(events)
      /\ Len(events) <= MaxEvents /\ DOMAIN events = 1 .. Len(events)
  BY DEF TypeOK
<1>3. /\ events' \in Seq(Event) /\ rows' \in Seq(Event) /\ Len(rows') = Len(events')
      /\ Len(events') <= MaxEvents /\ TasksOK'
      /\ (Meets(e) \/ (Settles /\ (Others(e, task[e]) \/ Others(e, Idle))))
  <2>1. CASE task[e].todo # {}
    <3>1. NextRule(e)
      BY <2>1 DEF Proceed
    <3> QED  BY <1>1, <3>1, NextRuleStep
  <2>2. CASE task[e].todo = {} /\ (Cleared(e) # {} \/ Orphans(e) # {})
    <3>1. PICK i \in Cleared(e) \cup Orphans(e) : Resolves(e, task[e], i, task[e].now)
      BY <2>2 DEF Proceed
    <3>2. i \in 1 .. Len(events)
      <4>1. CASE i \in Cleared(e)
        <5>1. PICK r \in task[e].below : i = task[e].known[r] /\ i # 0
          BY <4>1 DEF Cleared
        <5>2. r \in Rule /\ task[e].known[r] \in 0 .. Len(events)
          BY DEF TypeOK, TasksOK, Fits, TaskType
        <5> QED  BY <1>2, <5>1, <5>2
      <4>2. CASE i \in Orphans(e)
        BY <1>2, <4>2 DEF Orphans
      <4> QED  BY <3>1, <4>1, <4>2
    <3>3. rows' = rows
      BY <2>2 DEF Proceed
    <3>4. /\ events' \in Seq(Event) /\ Len(events') = Len(events) /\ Resolved(i)
          /\ TasksOK' /\ Others(e, task[e])
      BY <1>1, <3>1, <3>2, ResolvesStep
    <3>5. Settles
      BY <3>2, <3>4 DEF Settles
    <3> QED  BY <1>2, <3>3, <3>4, <3>5
  <2>3. CASE task[e].todo = {} /\ Cleared(e) = {} /\ Orphans(e) = {}
    <3>1. /\ task' = [task EXCEPT ![e] = Idle] /\ UNCHANGED <<events, clock>>
          /\ UNCHANGED rows
      BY <2>3 DEF Proceed
    <3>2. TasksOK' /\ Others(e, Idle)
      BY <1>1, <3>1, DoneStep
    <3> QED  BY <1>2, <3>1, <3>2 DEF Settles
  <2> QED  BY <2>1, <2>2, <2>3
<1>4. clock' \in 0 .. MaxClock
  BY <1>3 DEF Others, Meets
<1>5. DataOK'
  BY <1>1, <1>3, <1>4 DEF DataOK, TypeOK
<1>6. TypeOK'
  BY <1>3, <1>5, TypeParts, PTL
<1> QED  BY <1>3, <1>6

\* A user changes an active event, and not to one that fires.
Decided(i) ==
    \E ev \in Event :
        /\ IsActive(i) /\ ev.rule = events[i].rule
        /\ ev.status \in {"acknowledged", "silenced", "resolved"}
        /\ events' = [events EXCEPT ![i] = ev]

LEMMA HandlingType ==
    ASSUME NEW u
    PROVE  Handling(u) \in TaskType
<1>1. Idle \in TaskType
  BY IdleFits DEF Fits
<1> QED  BY <1>1 DEF Handling, TaskType

LEMMA ChangesStep ==
    ASSUME TypeOK, NEW u \in User, Request(u), NEW i \in 1 .. Len(events), NEW ev \in Event,
           IsActive(i), ev.rule = events[i].rule,
           ev.status \in {"acknowledged", "silenced", "resolved"}, Changes(u, i, ev)
    PROVE  TypeOK' /\ Decided(i) /\ Others(u, Idle)
<1> DEFINE new == [ev EXCEPT !.stamp = Tick]
<1>1. PICK note \in Notify : task' = [task EXCEPT ![u] =
          [Handling(u) EXCEPT !.plan = <<"save">> \o note, !.event = i]]
  BY DEF Changes
<1>2. /\ events' = [events EXCEPT ![i] = new] /\ clock' = Tick
      /\ rules' = rules /\ saved' = saved /\ rows' = rows
      /\ edits' = edits + 1 /\ edits < MaxEdits /\ refusals' = refusals /\ restarts' = restarts
      /\ LoopFree
  BY DEF Changes, Request
<1>3. new \in Event /\ new.rule = ev.rule /\ new.status = ev.status
  BY TickType DEF Event
<1> HIDE DEF new
<1>4. Decided(i)
  BY <1>2, <1>3 DEF Decided
<1>5. events \in Seq(Event) /\ Len(events) \in Nat /\ clock' \in 0 .. MaxClock /\ clock <= clock'
  BY <1>2, TickType DEF TypeOK
<1>6. events' \in Seq(Event) /\ Len(events') = Len(events)
  BY <1>2, <1>3, <1>5, EventUpdate
<1> DEFINE plan == <<"save">> \o note
           rec == [Handling(u) EXCEPT !.plan = plan, !.event = i]
<1>7. task' = [task EXCEPT ![u] = rec]
  BY <1>1
<1>8. plan \in Seq({"note", "save"}) \ {<<>>} /\ plan \in Plans
  BY <1>1, NotifyPlans DEF Plans
<1> HIDE DEF plan
<1>9. rec \in TaskType
  <2>1. Handling(u) \in TaskType
    BY HandlingType
  <2>2. i \in Nat
    BY <1>5
  <2> QED  BY <1>8, <2>1, <2>2 DEF TaskType
<1>10. /\ rec.pc = "handle" /\ rec.plan = plan /\ rec.event = i /\ rec.todo = {} /\ rec.below = {}
       /\ rec.known = Idle.known /\ rec.now = Idle.now /\ Idle.todo = {}
       /\ \A r \in Rule : rec.known[r] = 0
  BY DEF Handling, Idle
<1>11. plan # <<"metrics">> /\ plan # <<"rule">>
  <2>1. \A x : <<x>> \in Seq({"note", "save"}) => <<x>>[1] \in {"note", "save"}
    OBVIOUS
  <2> QED  BY <1>8, <2>1
<1>12. u \notin Evaluator
  BY AlertsAssumption
<1> HIDE DEF rec
<1>13. Fits(u, rec, Len(events))
  BY <1>5, <1>8, <1>9, <1>10, <1>11, <1>12 DEF Fits
<1>14. Len(events) <= Len(events') /\ Fits(u, rec, Len(events'))
  BY <1>5, <1>6, <1>13
<1>15. TasksOK' /\ Others(u, rec)
  BY <1>2, <1>5, <1>6, <1>7, <1>14, TaskStep, OthersStep
<1>16. edits' \in 0 .. MaxEdits
  BY <1>2, AlertsAssumption DEF TypeOK
<1>17. DataOK'
  BY <1>2, <1>5, <1>6, <1>16 DEF DataOK, TypeOK
<1>18. TypeOK'
  BY <1>15, <1>17, TypeParts, PTL
<1>19. Others(u, Idle)
  BY <1>10, <1>15 DEF Others
<1> QED  BY <1>4, <1>18, <1>19

LEMMA DecisionStep ==
    ASSUME TypeOK, NEW u \in User, Acknowledge(u) \/ Silence(u) \/ Resolve(u)
    PROVE  TypeOK' /\ Others(u, Idle) /\ \E i \in 1 .. Len(events) : Decided(i)
<1>1. DOMAIN events = 1 .. Len(events) /\ \A i \in 1 .. Len(events) : events[i] \in Event
  BY DEF TypeOK
<1>2. CASE Acknowledge(u)
  <2>1. PICK i \in 1 .. Len(events) :
          IsActive(i) /\ Changes(u, i, [events[i] EXCEPT !.status = "acknowledged"])
    BY <1>1, <1>2 DEF Acknowledge
  <2> DEFINE ev == [events[i] EXCEPT !.status = "acknowledged"]
  <2>2. ev \in Event /\ ev.rule = events[i].rule /\ ev.status = "acknowledged"
    BY <1>1 DEF Event, Active
  <2>3. Changes(u, i, ev) /\ Request(u)
    BY <1>2, <2>1 DEF Acknowledge
  <2> HIDE DEF ev
  <2> QED  BY <2>1, <2>2, <2>3, ChangesStep
<1>3. CASE Silence(u)
  <2>1. PICK i \in 1 .. Len(events) :
          IsActive(i) /\ Changes(u, i, [events[i] EXCEPT !.status = "silenced", !.until = Tick + 1])
    BY <1>1, <1>3 DEF Silence
  <2> DEFINE ev == [events[i] EXCEPT !.status = "silenced", !.until = Tick + 1]
  <2>2. Tick + 1 \in 0 .. MaxClock + 1
    BY TickType, AlertsAssumption
  <2>3. ev \in Event /\ ev.rule = events[i].rule /\ ev.status = "silenced"
    BY <1>1, <2>2 DEF Event, Active
  <2>4. Changes(u, i, ev) /\ Request(u)
    BY <1>3, <2>1 DEF Silence
  <2> HIDE DEF ev
  <2> QED  BY <2>1, <2>3, <2>4, ChangesStep
<1>4. CASE Resolve(u)
  <2>1. PICK i \in 1 .. Len(events) :
          IsActive(i) /\ Changes(u, i, [events[i] EXCEPT !.status = "resolved"])
    BY <1>1, <1>4 DEF Resolve
  <2> DEFINE ev == [events[i] EXCEPT !.status = "resolved"]
  <2>2. ev \in Event /\ ev.rule = events[i].rule /\ ev.status = "resolved"
    BY <1>1 DEF Event
  <2>3. Changes(u, i, ev) /\ Request(u)
    BY <1>4, <2>1 DEF Resolve
  <2> HIDE DEF ev
  <2> QED  BY <2>1, <2>2, <2>3, ChangesStep
<1> QED  BY <1>2, <1>3, <1>4

\* Updates and deletions of rules begin alike.
LEMMA EditStep ==
    ASSUME TypeOK, NEW u \in User, NEW r \in Rule, NEW rec, rec \in TaskType,
           rec.pc \in {"handle", "delete"}, rec.plan = <<"rule">>, rec.event = r,
           rec.below = {}, rec.known = Idle.known, LoopFree,
           task' = [task EXCEPT ![u] = rec], clock' = Tick \/ clock' = clock,
           edits' = edits + 1, edits < MaxEdits, UNCHANGED <<refusals, restarts>>,
           UNCHANGED <<saved, events, rows>>,
           rules' \in [Rule -> [state : {"enabled", "disabled", "gone"}, stamp : 0 .. MaxClock]]
    PROVE  TypeOK' /\ Others(u, rec)
<1>1. events \in Seq(Event) /\ Len(events) \in Nat /\ clock' \in 0 .. MaxClock /\ clock <= clock'
  BY TickType, AlertsAssumption DEF TypeOK
<1>2. Fits(u, rec, Len(events))
  <2>1. <<"rule">> # <<"metrics">> /\ <<"rule">> # <<>> /\ <<"rule">> \notin Seq({"note", "save"})
    <3>1. \A x : <<x>> \in Seq({"note", "save"}) => <<x>>[1] \in {"note", "save"}
      OBVIOUS
    <3> QED  BY <3>1
  <2>2. u \notin Evaluator
    BY AlertsAssumption
  <2>3. \A q \in Rule : rec.known[q] \in 0 .. Len(events)
    BY <1>1 DEF Idle
  <2> QED  BY <2>1, <2>2, <2>3 DEF Fits
<1>3. /\ events' \in Seq(Event) /\ Len(events) <= Len(events') /\ Fits(u, rec, Len(events'))
  BY <1>1, <1>2
<1>4. TasksOK' /\ Others(u, rec)
  BY <1>1, <1>3, TaskStep, OthersStep
<1>5. edits' \in 0 .. MaxEdits
  BY AlertsAssumption DEF TypeOK
<1>6. DataOK'
  BY <1>1, <1>5 DEF DataOK, TypeOK
<1> QED  BY <1>4, <1>6, TypeParts, PTL

\* A step of a user who edits a rule leaves the events alone.
LEMMA UpdateStep ==
    ASSUME TypeOK, NEW u \in User, Update(u)
    PROVE  TypeOK' /\ UNCHANGED events /\ \E rec : rec.now = 0 /\ Others(u, rec)
<1>1. PICK r \in {q \in Rule : rules[q].state # "gone"}, state \in {"enabled", "disabled"} :
         /\ rules' = [rules EXCEPT ![r] = [state |-> state, stamp |-> Tick]]
         /\ task' = [task EXCEPT ![u] = [Handling(u) EXCEPT !.plan = <<"rule">>, !.event = r]]
  BY DEF Update
<1> DEFINE rec == [Handling(u) EXCEPT !.plan = <<"rule">>, !.event = r]
<1>2. rules' \in [Rule -> [state : {"enabled", "disabled", "gone"}, stamp : 0 .. MaxClock]]
  <2> DEFINE new == [state |-> state, stamp |-> Tick]
  <2>1. new \in [state : {"enabled", "disabled", "gone"}, stamp : 0 .. MaxClock]
    BY TickType
  <2>2. rules' = [rules EXCEPT ![r] = new]
    BY <1>1
  <2> HIDE DEF new
  <2> QED  BY <2>1, <2>2 DEF TypeOK
<1>3. rec \in TaskType
  <2>1. Handling(u) \in TaskType /\ <<"rule">> \in Plans
    BY HandlingType DEF Plans
  <2> QED  BY <1>1, <2>1 DEF TaskType
<1>4. /\ rec.pc = "handle" /\ rec.plan = <<"rule">> /\ rec.event = r /\ rec.below = {}
      /\ rec.known = Idle.known /\ rec.now = 0
  BY DEF Handling, Idle
<1>5. task' = [task EXCEPT ![u] = rec]
  BY <1>1
<1>6. /\ clock' = Tick /\ LoopFree /\ edits' = edits + 1 /\ edits < MaxEdits
      /\ UNCHANGED <<refusals, restarts>> /\ UNCHANGED <<saved, events, rows>>
  BY DEF Update, Request
<1> HIDE DEF rec
<1>7. TypeOK' /\ Others(u, rec)
  BY <1>1, <1>2, <1>3, <1>4, <1>5, <1>6, EditStep
<1> QED  BY <1>4, <1>6, <1>7

LEMMA DeleteStep ==
    ASSUME TypeOK, NEW u \in User, Delete(u)
    PROVE  TypeOK' /\ UNCHANGED events /\ \E rec : rec.now = 0 /\ Others(u, rec)
<1>1. PICK r \in {q \in Rule : rules[q].state # "gone"} :
         /\ rules' = [rules EXCEPT ![r].state = "gone"]
         /\ task' = [task EXCEPT ![u] = [Idle EXCEPT !.pc = "delete", !.plan = <<"rule">>,
                                                     !.event = r, !.todo = {r}]]
  BY DEF Delete
<1> DEFINE rec == [Idle EXCEPT !.pc = "delete", !.plan = <<"rule">>, !.event = r, !.todo = {r}]
<1>2. rules' \in [Rule -> [state : {"enabled", "disabled", "gone"}, stamp : 0 .. MaxClock]]
  <2> DEFINE new == [rules[r] EXCEPT !.state = "gone"]
  <2>1. rules[r] \in [state : {"enabled", "disabled", "gone"}, stamp : 0 .. MaxClock]
    BY DEF TypeOK
  <2>2. new \in [state : {"enabled", "disabled", "gone"}, stamp : 0 .. MaxClock]
    BY <2>1
  <2>3. rules' = [rules EXCEPT ![r] = new]
    BY <1>1
  <2> HIDE DEF new
  <2> QED  BY <2>2, <2>3 DEF TypeOK
<1>3. rec \in TaskType
  <2>1. Idle \in TaskType /\ <<"rule">> \in Plans
    BY IdleFits DEF Plans, Fits
  <2> QED  BY <1>1, <2>1 DEF TaskType
<1>4. /\ rec.pc = "delete" /\ rec.plan = <<"rule">> /\ rec.event = r /\ rec.below = {}
      /\ rec.known = Idle.known /\ rec.now = 0
  BY DEF Idle
<1>5. task' = [task EXCEPT ![u] = rec]
  BY <1>1
<1>6. /\ clock' = clock /\ LoopFree /\ edits' = edits + 1 /\ edits < MaxEdits
      /\ UNCHANGED <<refusals, restarts>> /\ UNCHANGED <<saved, events, rows>>
  BY DEF Delete, Request
<1> HIDE DEF rec
<1>7. TypeOK' /\ Others(u, rec)
  BY <1>1, <1>2, <1>3, <1>4, <1>5, <1>6, EditStep
<1> QED  BY <1>4, <1>6, <1>7

LEMMA DeletingStep ==
    ASSUME TypeOK, NEW u \in User, Deleting(u)
    PROVE  TypeOK' /\ Settles /\ (Others(u, task[u]) \/ Others(u, Idle))
<1> DEFINE left == UNION {ActiveOf(r) : r \in task[u].todo}
<1>1. /\ HasLoop(u) /\ task[u].pc = "delete" /\ rules' = rules /\ saved' = saved /\ rows' = rows
      /\ edits' = edits /\ refusals' = refusals /\ restarts' = restarts
  BY DEF Deleting, HasLoop, bounds
<1>2. /\ events \in Seq(Event) /\ Len(rows) = Len(events)
      /\ Len(events) <= MaxEvents /\ DOMAIN events = 1 .. Len(events)
  BY DEF TypeOK
<1>3. /\ events' \in Seq(Event) /\ Len(events') = Len(events) /\ TasksOK'
      /\ Settles /\ (Others(u, task[u]) \/ Others(u, Idle))
  <2>1. CASE left # {}
    <3>1. Resolves(u, task[u], Min(left), task[u].now)
      BY <2>1 DEF Deleting
    <3>2. left \subseteq 1 .. Len(events)
      BY <1>2 DEF ActiveOf
    <3> HIDE DEF left
    <3>3. Min(left) \in 1 .. Len(events)
      <4>1. left \in SUBSET Nat
        BY <3>2
      <4> QED  BY <2>1, <3>2, <4>1, LeastNatural
    <3>4. /\ events' \in Seq(Event) /\ Len(events') = Len(events) /\ Resolved(Min(left))
          /\ TasksOK' /\ Others(u, task[u])
      BY <1>1, <3>1, <3>3, ResolvesStep
    <3> QED  BY <3>3, <3>4 DEF Settles
  <2>2. CASE left = {}
    <3>1. task' = [task EXCEPT ![u] = Idle] /\ UNCHANGED <<events, clock>>
      BY <2>2 DEF Deleting
    <3>2. TasksOK' /\ Others(u, Idle)
      BY <1>1, <3>1, DoneStep
    <3> QED  BY <1>2, <3>1, <3>2 DEF Settles
  <2> QED  BY <2>1, <2>2
<1>4. clock' \in 0 .. MaxClock
  BY <1>3 DEF Others
<1>5. DataOK'
  BY <1>1, <1>2, <1>3, <1>4 DEF DataOK, TypeOK
<1> QED  BY <1>3, <1>5, TypeParts, PTL

LEMMA RestartStep ==
    ASSUME TypeOK, Restart
    PROVE  /\ TypeOK' /\ Len(events') = Len(events) /\ clock' = clock
           /\ \A t \in Task : task'[t] = Idle
<1>1. /\ events' = rows /\ rows' = rows /\ saved' = saved /\ clock' = clock
      /\ edits' = edits /\ refusals' = refusals /\ restarts' = restarts + 1
      /\ restarts < MaxRestarts /\ task' = [t \in Task |-> Idle]
  BY DEF Restart
<1>2. /\ events \in Seq(Event) /\ rows \in Seq(Event) /\ Len(rows) = Len(events)
      /\ Len(events) \in Nat
  BY DEF TypeOK
<1>3. rules' \in [Rule -> [state : {"enabled", "disabled", "gone"}, stamp : 0 .. MaxClock]]
  <2>1. PICK shown \in [Rule -> {"enabled", "disabled", "gone"}] :
          rules' = [r \in Rule |-> [state |-> shown[r], stamp |-> saved[r].stamp]]
    BY DEF Restart
  <2>2. \A r \in Rule : saved[r].stamp \in 0 .. MaxClock
    BY DEF TypeOK
  <2> QED  BY <2>1, <2>2
<1>4. \A t \in Task : task'[t] = Idle
  BY <1>1
<1>5. Idle \in TaskType /\ Idle.pc = "idle"
  BY IdleFits DEF Fits, Idle
<1>6. TasksOK'
  <2>1. task' \in [Task -> TaskType]
    BY <1>1, <1>5
  <2>2. \A t \in Task : Fits(t, task'[t], Len(events'))
    <3>1. Len(events') \in Nat
      BY <1>1, <1>2
    <3> QED  BY <1>4, <3>1, IdleFits
  <2>3. \A t \in Task : ~(task'[t].pc # "idle" /\ task'[t].plan = <<>>)
    BY <1>4, <1>5
  <2> QED  BY <2>1, <2>2, <2>3 DEF TasksOK, HasLoop
<1>7. restarts' \in 0 .. MaxRestarts
  BY <1>1, AlertsAssumption DEF TypeOK
<1>8. DataOK'
  BY <1>1, <1>2, <1>3, <1>7 DEF DataOK, TypeOK
<1>9. TypeOK'
  BY <1>6, <1>8, TypeParts, PTL
<1>10. Len(events') = Len(events)
  BY <1>1, <1>2
<1> QED  BY <1>1, <1>4, <1>9, <1>10

LEMMA InitType == Init => TypeOK
<1> SUFFICES ASSUME Init PROVE TypeOK
  OBVIOUS
<1>1. DataOK
  <2>1. rules \in [Rule -> [state : {"enabled", "disabled", "gone"}, stamp : 0 .. MaxClock]]
    BY AlertsAssumption DEF Init
  <2>2. saved \in [Rule -> [states : SUBSET {"enabled", "disabled", "gone"},
                            stamp : 0 .. MaxClock]]
    BY AlertsAssumption DEF Init
  <2> QED  BY <2>1, <2>2, AlertsAssumption DEF Init, DataOK
<1>2. TasksOK
  <2>1. \A t \in Task : task[t] = Idle
    BY DEF Init
  <2>2. Idle \in TaskType /\ Idle.pc = "idle"
    BY IdleFits DEF Fits, Idle
  <2>3. \A t \in Task : Fits(t, task[t], Len(events))
    BY <2>1, IdleFits DEF Init
  <2>4. task \in [Task -> TaskType]
    BY <2>2 DEF Init
  <2> QED  BY <2>1, <2>2, <2>3, <2>4 DEF TasksOK, HasLoop
<1> QED  BY <1>1, <1>2, TypeParts

LEMMA NextType ==
    ASSUME TypeOK, [Next]_vars
    PROVE  TypeOK'
<1>1. ASSUME NEW t \in Task, Resumes(t) PROVE TypeOK'
  BY <1>1, SavedStep, NotedStep, RuleSavedStep DEF Resumes
<1>2. ASSUME NEW e \in Evaluator, Evaluation(e) PROVE TypeOK'
  BY <1>1, <1>2, EvaluateStep, MeasuredStep, ProceedStep DEF Evaluation
<1>3. ASSUME NEW u \in User,
             Acknowledge(u) \/ Silence(u) \/ Resolve(u) \/ Update(u) \/ Delete(u) \/ Serving(u)
      PROVE  TypeOK'
  BY <1>1, <1>3, DecisionStep, UpdateStep, DeleteStep, DeletingStep DEF Serving
<1>4. ASSUME NEW t \in Task, Refused(t) PROVE TypeOK'
  BY <1>4, RefusedStep
<1>5. CASE Restart
  BY <1>5, RestartStep
<1>6. CASE UNCHANGED vars
  <2>1. DataOK'
    BY <1>6 DEF DataOK, TypeOK, vars
  <2>2. TasksOK'
    BY <1>6 DEF TasksOK, TypeOK, vars, HasLoop
  <2> QED  BY <2>1, <2>2, TypeParts, PTL
<1> QED  BY <1>1, <1>2, <1>3, <1>4, <1>5, <1>6 DEF Next

\* The rules, events and rows keep their types, a task waits for what exists, and
\* one at most runs: whatever rules, users and evaluations there are, and however
\* requests, refused rows and restarts fall between the waits.
THEOREM TypeCorrect == Spec => []TypeOK
<1>1. Init => TypeOK
  BY InitType
<1>2. TypeOK /\ [Next]_vars => TypeOK'
  BY NextType
<1> QED  BY <1>1, <1>2, PTL DEF Spec

-----------------------------------------------------------------------------
(* What the steps do to the events *)

\* No event changes its rule, and none becomes active again.
NoneRises ==
    /\ DOMAIN events' = DOMAIN events
    /\ \A i \in DOMAIN events :
         /\ events'[i].rule = events[i].rule
         /\ events'[i].status \in Active => IsActive(i)

\* What UsersPrevail says of a step.
Prevails ==
    \A i \in DOMAIN events :
        /\ events[i].status = "resolved" => events'[i].status = "resolved"
        /\ events[i].status = "acknowledged" => events'[i].status \notin {"pending", "firing"}
        /\ events[i].status = "silenced" /\ events'[i].status = "firing" =>
               events[i].until <= clock

LEMMA UnchangedEvents ==
    ASSUME UNCHANGED events
    PROVE  NoneRises /\ Prevails
BY DEF NoneRises, Prevails, IsActive

\* A change of one event.
LEMMA OneChanges ==
    ASSUME TypeOK, NEW i \in 1 .. Len(events), NEW ev \in Event,
           events' = [events EXCEPT ![i] = ev], ev.rule = events[i].rule,
           ev.status \in Active => IsActive(i),
           events[i].status = "resolved" => ev.status = "resolved",
           events[i].status = "acknowledged" => ev.status \notin {"pending", "firing"},
           events[i].status = "silenced" /\ ev.status = "firing" => events[i].until <= clock
    PROVE  NoneRises /\ Prevails
<1>1. DOMAIN events = 1 .. Len(events) /\ DOMAIN events' = DOMAIN events
  BY DEF TypeOK
<1>2. \A j \in DOMAIN events : events'[j] = IF j = i THEN ev ELSE events[j]
  BY <1>1
<1>3. NoneRises
  BY <1>1, <1>2 DEF NoneRises, IsActive
<1>4. Prevails
  BY <1>1, <1>2 DEF Prevails
<1> QED  BY <1>3, <1>4

LEMMA SettlesEvents ==
    ASSUME TypeOK, Settles
    PROVE  NoneRises /\ Prevails
<1>1. CASE UNCHANGED events
  BY <1>1, UnchangedEvents
<1>2. ASSUME NEW i \in 1 .. Len(events), Resolved(i) PROVE NoneRises /\ Prevails
  <2>1. PICK now \in 0 .. MaxClock :
          events' = [events EXCEPT ![i] = [events[i] EXCEPT !.status = "resolved", !.stamp = now]]
    BY <1>2 DEF Resolved
  <2> DEFINE ev == [events[i] EXCEPT !.status = "resolved", !.stamp = now]
  <2>2. events[i] \in Event
    BY DEF TypeOK
  <2>3. ev \in Event /\ ev.rule = events[i].rule /\ ev.status = "resolved"
    BY <2>2 DEF Event
  <2>4. "resolved" \notin Active
    BY DEF Active
  <2> HIDE DEF ev
  <2> QED  BY <2>1, <2>3, <2>4, OneChanges DEF ev
<1> QED  BY <1>1, <1>2 DEF Settles

LEMMA DecidedEvents ==
    ASSUME TypeOK, NEW i \in 1 .. Len(events), Decided(i)
    PROVE  NoneRises /\ Prevails
<1>1. PICK ev \in Event :
        /\ IsActive(i) /\ ev.rule = events[i].rule
        /\ ev.status \in {"acknowledged", "silenced", "resolved"}
        /\ events' = [events EXCEPT ![i] = ev]
  BY DEF Decided
<1>2. events[i].status # "resolved"
  BY <1>1 DEF IsActive, Active
<1> QED  BY <1>1, <1>2, OneChanges

LEMMA UpdatedEvents ==
    ASSUME TypeOK, NEW e \in Evaluator, task[e].now <= clock, NEW i \in 1 .. Len(events),
           Updated(e, i)
    PROVE  NoneRises /\ Prevails
<1>1. PICK ready \in BOOLEAN, count \in 1 .. MinOccurrence :
        events' = [events EXCEPT ![i] =
            [events[i] EXCEPT !.count = count, !.stamp = task[e].now,
                              !.status = StatusAfter(events[i], ready, task[e].now)]]
  BY DEF Updated
<1> DEFINE status == StatusAfter(events[i], ready, task[e].now)
           ev == [events[i] EXCEPT !.count = count, !.stamp = task[e].now, !.status = status]
<1>2. events[i] \in Event /\ task[e].now \in 0 .. MaxClock
  BY DEF TypeOK, TasksOK, TaskType
<1>3. status \in Active \cup {"resolved", "unsaved"}
  BY <1>2, StatusType
<1>4. /\ status \in Active => IsActive(i)
      /\ events[i].status = "resolved" => status = "resolved"
      /\ events[i].status = "acknowledged" => status = "acknowledged"
  BY DEF StatusAfter, IsActive, Active
<1>5. events[i].status = "silenced" /\ status = "firing" => events[i].until <= clock
  <2>1. events[i].status = "silenced" /\ status = "firing" => events[i].until <= task[e].now
    BY DEF StatusAfter
  <2>2. events[i].until \in Nat /\ clock \in Nat
    BY <1>2 DEF Event, TypeOK
  <2> HIDE DEF status
  <2> QED  BY <1>2, <2>1, <2>2
<1> HIDE DEF status
<1>6. ev \in Event /\ ev.rule = events[i].rule /\ ev.status = status
  BY <1>2, <1>3 DEF Event
<1>7. events' = [events EXCEPT ![i] = ev]
  BY <1>1 DEF status
<1> HIDE DEF ev
<1> QED  BY <1>4, <1>5, <1>6, <1>7, OneChanges

LEMMA NotedEvents ==
    ASSUME TypeOK, NEW t \in Task, Noted(t)
    PROVE  NoneRises /\ Prevails
<1> DEFINE i == task[t].event
           ev == [events[i] EXCEPT !.stamp = task[t].since]
<1>1. events' = [events EXCEPT ![i] = ev] /\ Awaits(t, "note")
  BY DEF Noted
<1>2. i \in 1 .. Len(events)
  BY <1>1, PlanHead DEF Awaits, TypeOK, TasksOK, Fits
<1>3. task[t].since \in 0 .. MaxClock /\ events[i] \in Event
  BY <1>2 DEF TypeOK, TasksOK, TaskType
<1>4. ev \in Event /\ ev.rule = events[i].rule /\ ev.status = events[i].status
  BY <1>3 DEF Event
<1> HIDE DEF i, ev
<1>5. ev.status \in Active => IsActive(i)
  BY <1>4 DEF IsActive
<1> QED  BY <1>1, <1>2, <1>4, <1>5, OneChanges

\* A new event comes after the others, which stay as they are.
LEMMA MadeEvents ==
    ASSUME TypeOK, NEW e \in Evaluator, NEW r, Made(e, r)
    PROVE  /\ DOMAIN events' = DOMAIN events \cup {Len(events) + 1}
           /\ Len(events) + 1 \notin DOMAIN events
           /\ \A i \in DOMAIN events : events'[i] = events[i]
           /\ events'[Len(events) + 1].rule = r
           /\ Prevails
<1>1. PICK ev \in Event : ev.rule = r /\ events' = Append(events, ev)
  BY DEF Made
<1>2. events \in Seq(Event) /\ Len(events) \in Nat /\ DOMAIN events = 1 .. Len(events)
  BY DEF TypeOK
<1>3. /\ DOMAIN events' = DOMAIN events \cup {Len(events) + 1}
      /\ Len(events) + 1 \notin DOMAIN events
      /\ \A i \in DOMAIN events : events'[i] = events[i]
      /\ events'[Len(events) + 1] = ev
  BY <1>1, <1>2
<1>4. Prevails
  BY <1>3 DEF Prevails
<1> QED  BY <1>1, <1>3, <1>4

-----------------------------------------------------------------------------
(* The kinds of steps *)

\* What an evaluation is going to find is known as before.
Carries ==
    \A e \in Evaluator :
        /\ task'[e].todo \subseteq task[e].todo
        /\ task'[e].todo # {} => task'[e].known = task[e].known
Timely == clock' \in 0 .. MaxClock /\ clock <= clock'
          /\ \A t \in Task : task'[t].now \in {0, task[t].now, clock'}

Quiet == NoneRises /\ Prevails /\ Carries /\ Timely
LooksUp ==
    /\ UNCHANGED events /\ Timely
    /\ \E e \in Evaluator : \E rec :
         Others(e, rec) /\ rec.known = [r \in Rule |-> ActiveEvent(r)]
Makes ==
    /\ Timely
    /\ \E e \in Evaluator : \E r \in task[e].todo :
         /\ task[e].known[r] = 0 /\ Made(e, r)
         /\ Others(e, [task[e] EXCEPT !.todo = @ \ {r}, !.known[r] = Len(events) + 1])

LEMMA OthersCarry ==
    ASSUME TypeOK, NEW t \in Task, NEW rec, Others(t, rec), rec.now \in {0, task[t].now, clock'},
           t \in Evaluator => /\ rec.todo \subseteq task[t].todo
                              /\ rec.todo # {} => rec.known = task[t].known
    PROVE  Carries /\ Timely
BY DEF Others, Carries, Timely

LEMMA IdleCarries ==
    ASSUME TypeOK, NEW t \in Task, Others(t, task[t]) \/ Others(t, Idle)
    PROVE  Carries /\ Timely
<1>1. Idle.now = 0 /\ Idle.todo = {}
  BY DEF Idle
<1> QED  BY <1>1, OthersCarry

LEMMA ResumesKind ==
    ASSUME TypeOK, NEW t \in Task, Resumes(t)
    PROVE  Quiet
<1>1. CASE Saved(t)
  <2>1. UNCHANGED events
    BY <1>1 DEF Saved
  <2>2. Others(t, task[t]) \/ Others(t, Idle)
    BY <1>1, SavedStep
  <2> QED  BY <2>1, <2>2, UnchangedEvents, IdleCarries DEF Quiet
<1>2. CASE Noted(t)
  <2>1. Others(t, task[t]) \/ Others(t, Idle)
    BY <1>2, NotedStep
  <2> QED  BY <1>2, <2>1, NotedEvents, IdleCarries DEF Quiet
<1>3. CASE RuleSaved(t)
  <2> DEFINE rec == [task[t] EXCEPT !.plan = <<>>, !.now = clock']
  <2>1. UNCHANGED events /\ Awaits(t, "rule")
    BY <1>3 DEF RuleSaved
  <2>2. Others(t, Idle) \/ Others(t, rec)
    BY <1>3, RuleSavedStep
  <2>3. t \notin Evaluator
    BY <2>1, RuleHead, AlertsAssumption
  <2>4. rec.now = clock'
    BY DEF TypeOK, TasksOK, TaskType
  <2> HIDE DEF rec
  <2>5. Carries /\ Timely
    BY <2>2, <2>3, <2>4, OthersCarry, IdleCarries
  <2> QED  BY <2>1, <2>5, UnchangedEvents DEF Quiet
<1> QED  BY <1>1, <1>2, <1>3 DEF Resumes

LEMMA MeetsKind ==
    ASSUME TypeOK, NowIsPast, NEW e \in Evaluator, Meets(e)
    PROVE  Quiet \/ Makes
<1>1. PICK r \in task[e].todo :
       \/ /\ task[e].known[r] # 0 /\ Updated(e, task[e].known[r])
          /\ Others(e, [task[e] EXCEPT !.todo = @ \ {r}])
       \/ /\ task[e].known[r] = 0 /\ Made(e, r)
          /\ Others(e, [task[e] EXCEPT !.todo = @ \ {r}, !.known[r] = Len(events) + 1])
       \/ /\ UNCHANGED events
          /\ Others(e, [task[e] EXCEPT !.todo = @ \ {r}])
  BY DEF Meets
<1> DEFINE less == [task[e] EXCEPT !.todo = @ \ {r}]
<1>2. less.todo \subseteq task[e].todo /\ less.known = task[e].known /\ less.now = task[e].now
  BY RuleLess
<1>3. Others(e, less) => Carries /\ Timely
  <2> HIDE DEF less
  <2> QED  BY <1>2, OthersCarry
<1>4. task[e].known[r] \in 0 .. Len(events) /\ Len(events) \in Nat /\ task[e].now <= clock
  BY DEF TypeOK, TasksOK, Fits, TaskType, NowIsPast
<1>5. CASE task[e].known[r] # 0 /\ Updated(e, task[e].known[r]) /\ Others(e, less)
  <2>1. task[e].known[r] \in 1 .. Len(events)
    BY <1>4, <1>5
  <2> QED  BY <1>3, <1>4, <1>5, <2>1, UpdatedEvents DEF Quiet
<1>6. CASE /\ task[e].known[r] = 0 /\ Made(e, r)
           /\ Others(e, [task[e] EXCEPT !.todo = @ \ {r}, !.known[r] = Len(events) + 1])
  <2> DEFINE rec == [task[e] EXCEPT !.todo = @ \ {r}, !.known[r] = Len(events) + 1]
  <2>1. rec.now = task[e].now
    BY DEF TypeOK, TasksOK, TaskType
  <2>2. Others(e, rec)
    BY <1>6
  <2> HIDE DEF rec
  <2>3. Timely
    BY <2>1, <2>2 DEF Others, Timely
  <2> QED  BY <1>6, <2>3 DEF Makes
<1>7. CASE UNCHANGED events /\ Others(e, less)
  BY <1>3, <1>7, UnchangedEvents DEF Quiet
<1> QED  BY <1>1, <1>5, <1>6, <1>7

LEMMA EvaluationKind ==
    ASSUME TypeOK, NowIsPast, NEW e \in Evaluator, Evaluation(e)
    PROVE  Quiet \/ LooksUp \/ Makes
<1>1. CASE Evaluate(e)
  <2>1. UNCHANGED events
    BY <1>1 DEF Evaluate
  <2>2. Others(e, Idle)
    BY <1>1, EvaluateStep
  <2> QED  BY <2>1, <2>2, UnchangedEvents, IdleCarries DEF Quiet
<1>2. CASE Measured(e)
  <2>1. PICK rec : /\ Others(e, rec) /\ rec.now = clock'
                   /\ rec.known = [r \in Rule |-> ActiveEvent(r)]
    BY <1>2, MeasuredStep
  <2>2. Timely
    BY <2>1 DEF Others, Timely
  <2>3. events' = events
    BY <1>2, MeasuredStep
  <2> QED  BY <2>1, <2>2, <2>3 DEF LooksUp
<1>3. CASE Proceed(e)
  <2>1. CASE Meets(e)
    BY <2>1, MeetsKind
  <2>2. CASE Settles /\ (Others(e, task[e]) \/ Others(e, Idle))
    BY <2>2, SettlesEvents, IdleCarries DEF Quiet
  <2> QED  BY <1>3, <2>1, <2>2, ProceedStep
<1>4. CASE Resumes(e)
  BY <1>4, ResumesKind
<1> QED  BY <1>1, <1>2, <1>3, <1>4 DEF Evaluation

LEMMA UserKind ==
    ASSUME TypeOK, NEW u \in User,
           Acknowledge(u) \/ Silence(u) \/ Resolve(u) \/ Update(u) \/ Delete(u) \/ Serving(u)
    PROVE  Quiet
<1>1. CASE Acknowledge(u) \/ Silence(u) \/ Resolve(u)
  <2>1. NoneRises /\ Prevails
    BY <1>1, DecisionStep, DecidedEvents
  <2>2. Others(u, Idle)
    BY <1>1, DecisionStep
  <2> QED  BY <2>1, <2>2, IdleCarries DEF Quiet
<1>2. CASE Update(u) \/ Delete(u)
  <2>1. UNCHANGED events
    BY <1>2, UpdateStep, DeleteStep
  <2>2. PICK rec : rec.now = 0 /\ Others(u, rec)
    BY <1>2, UpdateStep, DeleteStep
  <2>3. u \notin Evaluator
    BY AlertsAssumption
  <2>4. Carries /\ Timely
    BY <2>2, <2>3, OthersCarry
  <2> QED  BY <2>1, <2>4, UnchangedEvents DEF Quiet
<1>3. CASE Deleting(u)
  BY <1>3, DeletingStep, SettlesEvents, IdleCarries DEF Quiet
<1>4. CASE Resumes(u)
  BY <1>4, ResumesKind
<1> QED  BY <1>1, <1>2, <1>3, <1>4 DEF Serving

LEMMA NextKinds ==
    ASSUME TypeOK, NowIsPast, Next
    PROVE  ((Quiet \/ LooksUp \/ Makes) /\ restarts' = restarts) \/ Restart
<1>1. ASSUME NEW e \in Evaluator, Evaluation(e)
      PROVE  (Quiet \/ LooksUp \/ Makes) /\ restarts' = restarts
  <2>1. restarts' = restarts
    BY <1>1 DEF Evaluation, Evaluate, Measured, Proceed, Resumes, Saved, Noted, RuleSaved, bounds
  <2> QED  BY <1>1, <2>1, EvaluationKind
<1>2. ASSUME NEW u \in User,
             Acknowledge(u) \/ Silence(u) \/ Resolve(u) \/ Update(u) \/ Delete(u) \/ Serving(u)
      PROVE  Quiet /\ restarts' = restarts
  <2>1. restarts' = restarts
    BY <1>2 DEF Acknowledge, Silence, Resolve, Update, Delete, Request, Serving, Deleting,
       Resumes, Saved, Noted, RuleSaved, bounds
  <2> QED  BY <1>2, <2>1, UserKind
<1>3. ASSUME NEW t \in Task, Refused(t)
      PROVE  Quiet /\ restarts' = restarts
  <2>1. UNCHANGED events /\ restarts' = restarts
    BY <1>3 DEF Refused
  <2>2. Others(t, Idle)
    BY <1>3, RefusedStep
  <2> QED  BY <2>1, <2>2, UnchangedEvents, IdleCarries DEF Quiet
<1> QED  BY <1>1, <1>2, <1>3 DEF Next

-----------------------------------------------------------------------------
(* What users decided *)

LEMMA PastStep ==
    ASSUME TypeOK, NowIsPast, [Next]_vars
    PROVE  NowIsPast'
<1>1. CASE Timely
  <2>1. \A t \in Task : task[t].now \in Nat /\ clock \in Nat /\ clock' \in Nat
    BY <1>1 DEF TypeOK, TasksOK, TaskType, Timely
  <2> QED  BY <1>1, <2>1 DEF NowIsPast, Timely
<1>2. CASE Restart
  <2>1. \A t \in Task : task'[t].now = 0
    BY <1>2, RestartStep DEF Idle
  <2>2. clock' \in Nat
    BY <1>2, RestartStep DEF TypeOK
  <2> QED  BY <2>1, <2>2 DEF NowIsPast
<1>3. CASE UNCHANGED vars
  BY <1>3 DEF vars, NowIsPast
<1> QED  BY <1>1, <1>2, <1>3, NextKinds DEF Quiet, LooksUp, Makes

LEMMA PrevailsStep ==
    ASSUME TypeOK, NowIsPast, [Next]_vars, restarts' = restarts
    PROVE  Prevails
<1>1. CASE Quiet
  BY <1>1 DEF Quiet
<1>2. CASE LooksUp \/ UNCHANGED vars
  BY <1>2, UnchangedEvents DEF LooksUp, vars
<1>3. CASE Makes
  BY <1>3, MadeEvents DEF Makes
<1>4. CASE Restart
  BY <1>4 DEF Restart, TypeOK
<1> QED  BY <1>1, <1>2, <1>3, <1>4, NextKinds

LEMMA PastInvariant == Spec => [](TypeOK /\ NowIsPast)
<1>1. Init => TypeOK /\ NowIsPast
  <2> SUFFICES ASSUME Init PROVE TypeOK /\ NowIsPast
    OBVIOUS
  <2>1. \A t \in Task : task[t].now = 0
    BY DEF Init, Idle
  <2> QED  BY <2>1, InitType DEF NowIsPast, Init
<1>2. TypeOK /\ NowIsPast /\ [Next]_vars => (TypeOK /\ NowIsPast)'
  BY NextType, PastStep
<1> QED  BY <1>1, <1>2, PTL DEF Spec

\* Any number of evaluations and users: what was resolved stays so, an
\* acknowledged event does not fire again, and a silenced one not before its time,
\* although evaluations hold what they looked up before their waits.
THEOREM DecisionsPrevail == Spec => UsersPrevail
<1>1. Spec => [](TypeOK /\ NowIsPast)
  BY PastInvariant
<1>2. TypeOK /\ NowIsPast /\ [Next]_vars => [restarts' = restarts => Prevails]_vars
  BY PrevailsStep
<1>3. [restarts' = restarts => Prevails]_vars <=>
      [restarts' = restarts => \A i \in DOMAIN events :
          /\ events[i].status = "resolved" => events'[i].status = "resolved"
          /\ events[i].status = "acknowledged" => events'[i].status \notin {"pending", "firing"}
          /\ events[i].status = "silenced" /\ events'[i].status = "firing" =>
                 events[i].until <= clock]_vars
  BY DEF Prevails
<1> QED  BY <1>1, <1>2, <1>3, PTL DEF Spec, UsersPrevail

-----------------------------------------------------------------------------
(* One active event *)

LEMMA ActiveFalls ==
    ASSUME NoneRises, NEW r
    PROVE  {i \in DOMAIN events' : events'[i].rule = r /\ events'[i].status \in Active}
              \subseteq ActiveOf(r)
BY DEF NoneRises, ActiveOf, IsActive

\* The rule under the hands of a single evaluation is the only one that gets an event.
LEMMA MakesOne ==
    ASSUME TypeOK, NoneKnown, NEW e \in Evaluator, NEW r \in task[e].todo,
           task[e].known[r] = 0, Made(e, r),
           NEW q, q # r
    PROVE  /\ ActiveOf(r) = {}
           /\ ActiveOf(q)' = ActiveOf(q)
<1>1. ActiveOf(r) = {}
  BY DEF NoneKnown
<1>2. /\ DOMAIN events' = DOMAIN events \cup {Len(events) + 1}
      /\ \A i \in DOMAIN events : events'[i] = events[i]
      /\ events'[Len(events) + 1].rule = r
  BY MadeEvents
<1>3. ActiveOf(q)' = ActiveOf(q)
  BY <1>2 DEF ActiveOf, IsActive
<1> QED  BY <1>1, <1>3

LEMMA NoneKnownStep ==
    ASSUME TypeOK, NowIsPast, NoneKnown, [Next]_vars, \A e, f \in Evaluator : e = f
    PROVE  NoneKnown'
<1>1. CASE Quiet
  <2>1. ASSUME NEW e \in Evaluator, NEW r \in task'[e].todo, task'[e].known[r] = 0
        PROVE  ActiveOf(r)' = {}
    <3>1. r \in task[e].todo /\ task[e].known[r] = 0
      BY <1>1, <2>1 DEF Quiet, Carries
    <3>2. ActiveOf(r) = {}
      BY <3>1 DEF NoneKnown
    <3>3. ActiveOf(r)' \subseteq ActiveOf(r)
      BY <1>1, ActiveFalls DEF Quiet, ActiveOf, IsActive
    <3> QED  BY <3>2, <3>3
  <2> QED  BY <2>1 DEF NoneKnown
<1>2. CASE LooksUp
  <2>1. PICK e \in Evaluator : \E rec :
          Others(e, rec) /\ rec.known = [r \in Rule |-> ActiveEvent(r)]
    BY <1>2 DEF LooksUp
  <2>2. task'[e].known = [r \in Rule |-> ActiveEvent(r)]
    BY <2>1 DEF Others
  <2>3. ASSUME NEW r \in task'[e].todo, task'[e].known[r] = 0 PROVE ActiveOf(r)' = {}
    <3>1. r \in Rule
      <4>1. TypeOK'
        BY NextType
      <4> QED  BY <4>1 DEF TypeOK, TasksOK, TaskType
    <3>2. ActiveEvent(r) = 0
      BY <2>2, <2>3, <3>1
    <3>3. ActiveOf(r) = {}
      BY <3>1, <3>2, LastType
    <3> QED  BY <1>2, <3>3 DEF LooksUp, ActiveOf, IsActive
  <2> QED  BY <2>3 DEF NoneKnown
<1>3. CASE Makes
  <2>1. PICK e \in Evaluator : \E r \in task[e].todo :
         /\ task[e].known[r] = 0 /\ Made(e, r)
         /\ Others(e, [task[e] EXCEPT !.todo = @ \ {r}, !.known[r] = Len(events) + 1])
    BY <1>3 DEF Makes
  <2>2. PICK r \in task[e].todo :
         /\ task[e].known[r] = 0 /\ Made(e, r)
         /\ Others(e, [task[e] EXCEPT !.todo = @ \ {r}, !.known[r] = Len(events) + 1])
    BY <2>1
  <2> DEFINE rec == [task[e] EXCEPT !.todo = @ \ {r}, !.known[r] = Len(events) + 1]
  <2>3. rec.todo = task[e].todo \ {r} /\ \A q \in Rule \ {r} : rec.known[q] = task[e].known[q]
    BY DEF TypeOK, TasksOK, TaskType
  <2>4. Others(e, rec)
    BY <2>2
  <2> HIDE DEF rec
  <2>5. ASSUME NEW q \in task'[e].todo, task'[e].known[q] = 0 PROVE ActiveOf(q)' = {}
    <3>1. q \in task[e].todo /\ q # r /\ q \in Rule
      BY <2>3, <2>4, <2>5 DEF Others, TypeOK, TasksOK, TaskType
    <3>2. task[e].known[q] = 0
      BY <2>3, <2>4, <2>5, <3>1 DEF Others
    <3>3. ActiveOf(q) = {}
      BY <3>1, <3>2 DEF NoneKnown
    <3>4. ActiveOf(q)' = ActiveOf(q)
      BY <2>2, <3>1, MakesOne
    <3> QED  BY <3>3, <3>4
  <2> QED  BY <2>5 DEF NoneKnown
<1>4. CASE Restart
  <2>1. \A e \in Evaluator : task'[e].todo = {}
    BY <1>4, RestartStep DEF Idle
  <2> QED  BY <2>1 DEF NoneKnown
<1>5. CASE UNCHANGED vars
  BY <1>5 DEF vars, NoneKnown, ActiveOf, IsActive
<1> QED  BY <1>1, <1>2, <1>3, <1>4, <1>5, NextKinds

LEMMA OnlyActiveStep ==
    ASSUME TypeOK, NowIsPast, NoneKnown, OnlyActive, [Next]_vars
    PROVE  OnlyActive'
<1>1. CASE restarts' = restarts /\ (Quiet \/ LooksUp \/ UNCHANGED vars)
  <2>1. NoneRises
    BY <1>1, UnchangedEvents DEF Quiet, LooksUp, vars
  <2> QED  BY <1>1, <2>1 DEF OnlyActive, NoneRises, IsActive
<1>2. CASE restarts' = restarts /\ Makes
  <2>1. PICK e \in Evaluator : \E r \in task[e].todo : task[e].known[r] = 0 /\ Made(e, r)
    BY <1>2 DEF Makes
  <2>2. PICK r \in task[e].todo : task[e].known[r] = 0 /\ Made(e, r)
    BY <2>1
  <2>3. ActiveOf(r) = {}
    BY <2>2 DEF NoneKnown
  <2>4. /\ DOMAIN events' = DOMAIN events \cup {Len(events) + 1}
        /\ \A i \in DOMAIN events : events'[i] = events[i]
        /\ events'[Len(events) + 1].rule = r
    BY <2>2, MadeEvents
  <2>5. \A i \in DOMAIN events : IsActive(i) => events[i].rule # r
    BY <2>3 DEF ActiveOf
  <2> QED  BY <1>2, <2>4, <2>5 DEF OnlyActive, IsActive
<1>3. CASE Restart
  <2>1. restarts' # 0
    BY <1>3 DEF Restart, TypeOK
  <2> QED  BY <2>1 DEF OnlyActive
<1> QED  BY <1>1, <1>2, <1>3, NextKinds DEF vars

LEMMA OneInvariant ==
    ASSUME \A e, f \in Evaluator : e = f
    PROVE  Spec => [](TypeOK /\ NowIsPast /\ NoneKnown /\ OnlyActive)
<1>1. Init => NoneKnown /\ OnlyActive
  BY DEF Init, NoneKnown, OnlyActive, ActiveOf, Idle
<1>2. TypeOK /\ NowIsPast /\ NoneKnown /\ OnlyActive /\ [Next]_vars =>
      (NoneKnown /\ OnlyActive)'
  BY NoneKnownStep, OnlyActiveStep
<1>3. Spec => [](TypeOK /\ NowIsPast)
  BY PastInvariant
<1> QED  BY <1>1, <1>2, <1>3, PTL DEF Spec

\* Where evaluations come one at a time, a rule gets an event only when it has no
\* active one, after restarts too, whatever users and deletions resolve meanwhile.
THEOREM EventsAreOne ==
    ASSUME \A e, f \in Evaluator : e = f
    PROVE  Spec => OneActive
<1>1. Spec => [](TypeOK /\ NowIsPast /\ NoneKnown /\ OnlyActive)
  BY OneInvariant
<1> DEFINE One == \A i \in DOMAIN events' \ DOMAIN events : ActiveOf(events'[i].rule) = {}
<1>2. TypeOK /\ NowIsPast /\ NoneKnown /\ [Next]_vars => [One]_vars
  <2> SUFFICES ASSUME TypeOK, NowIsPast, NoneKnown, Next PROVE One
    OBVIOUS
  <2>1. CASE Quiet \/ LooksUp
    BY <2>1, UnchangedEvents DEF Quiet, LooksUp, NoneRises
  <2>2. CASE Makes
    <3>1. PICK e \in Evaluator : \E r \in task[e].todo : task[e].known[r] = 0 /\ Made(e, r)
      BY <2>2 DEF Makes
    <3>2. PICK r \in task[e].todo : task[e].known[r] = 0 /\ Made(e, r)
      BY <3>1
    <3>3. ActiveOf(r) = {}
      BY <3>2 DEF NoneKnown
    <3> QED  BY <3>2, <3>3, MadeEvents
  <2>3. CASE Restart
    <3>1. DOMAIN events' = DOMAIN events
      BY <2>3, RestartStep DEF TypeOK
    <3> QED  BY <3>1
  <2> QED  BY <2>1, <2>2, <2>3, NextKinds
<1> QED  BY <1>1, <1>2, PTL DEF Spec, OneActive

\* Until the service restarts a rule has at most one active event, so that none is
\* lost from active_events_by_fingerprint, which has the last one only.
THEOREM ActiveIsUnique ==
    ASSUME \A e, f \in Evaluator : e = f
    PROVE  Spec => []OnlyActive
<1>1. Spec => [](TypeOK /\ NowIsPast /\ NoneKnown /\ OnlyActive)
  BY OneInvariant
<1> QED  BY <1>1, PTL

=============================================================================
