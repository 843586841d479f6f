------------------------------ MODULE Recovery ------------------------------
(***************************************************************************)
(* Agent autorecovery: the periodic sweep of the worker and the manual     *)
(* runs of operators evaluate a board, restart or suppress, and the sweep  *)
(* alerts the owner.                                                       *)
(*                                                                         *)
(* Timestamps are kept as ages, in a unit of time longer than any          *)
(* evaluation, so that `now` does not move while one is under way; what    *)
(* evaluations that overlap read and commit still interleaves.             *)
(***************************************************************************)
EXTENDS Naturals, FiniteSets, Sequences

CONSTANTS Agents, Boards, BoardOf,
          Operators,    \* callers of run_recovery_now
          Sweep,        \* the worker's RecoveryScheduler
          Interval,     \* settings.recovery_loop_interval_seconds
          Cooldown,     \* policy.cooldown_seconds
          Dedupe,       \* policy.alert_dedupe_seconds
          Hour,         \* the window of policy.max_restarts_per_hour
          MaxRestarts,  \* policy.max_restarts_per_hour
          MaxManual,    \* bound: manual runs in one behaviour
          MaxFaults     \* bound: evaluations that fail in one behaviour

Evaluators == Operators \cup {Sweep}

ASSUME BoardOfAssumption == BoardOf \in [Agents -> Boards]
ASSUME EvaluatorsAssumption == IsFiniteSet(Operators) /\ Sweep \notin Operators
ASSUME TimeAssumption == /\ {Interval, Cooldown, Dedupe, Hour} \subseteq Nat
                         /\ {MaxRestarts, MaxManual, MaxFaults} \subseteq Nat

Larger(m, n) == IF m >= n THEN m ELSE n
Horizon == Larger(Hour, Larger(Cooldown, Dedupe))

Health == {"alive", "stale", "unreachable"}
Reason == {"stale", "unreachable", "cooldown", "limit"}

VARIABLES health,     \* agent -> its continuity
          incidents,  \* agent -> the incidents younger than the horizon, as committed
          sinceSweep, \* time since the last completed sweep
          todo,       \* boards the current sweep has yet to evaluate
          alerting,   \* incidents of the sweep's last board it has yet to alert
          pc,         \* evaluator -> what it does next
          forced,     \* evaluator -> whether it bypasses the cooldown
          plan,       \* evaluator -> the agents of its snapshot it has yet to decide
          pending,    \* evaluator -> the incidents it has yet to commit
          lastAlert,  \* history: agent, reason -> time since the owner was alerted
          manual,     \* manual runs so far
          faults      \* failed evaluations so far

world == <<health, incidents>>
sweep == <<sinceSweep, todo, alerting>>
local == <<pc, forced, plan, pending>>
vars == <<world, sweep, local, lastAlert, manual, faults>>
-----------------------------------------------------------------------------
\* Variant: the status is left at the model's default.
IncidentDetected(status, reason) == [status |-> "detected", reason |-> reason, age |-> 0]

Incident(status, reason) == [status |-> status, reason |-> reason, age |-> 0]

\* _latest_incident: the latest of any status.
CoolingDown(a) == \E i \in DOMAIN incidents[a] : incidents[a][i].age < Cooldown

\* Variant: suppressed incidents count as attempts.
AttemptsAnyStatus(a) == {i \in DOMAIN incidents[a] : incidents[a][i].age <= Hour}

\* _attempt_count_last_hour
Attempts(a) ==
    {i \in DOMAIN incidents[a] : /\ incidents[a][i].status = "recovered"
                                 /\ incidents[a][i].age <= Hour}

Goto(e, label) == pc' = [pc EXCEPT ![e] = label]

Init ==
    /\ health = [a \in Agents |-> "alive"]
    /\ incidents = [a \in Agents |-> <<>>]
    /\ sinceSweep = Interval
    /\ todo = {} /\ alerting = {}
    /\ pc = [e \in Evaluators |-> "idle"]
    /\ forced = [e \in Evaluators |-> FALSE]
    /\ plan = [e \in Evaluators |-> {}]
    /\ pending = [e \in Evaluators |-> {}]
    /\ lastAlert = [x \in Agents \X Reason |-> Dedupe + 1]
    /\ manual = 0 /\ faults = 0
-----------------------------------------------------------------------------
(***************************************************************************)
(* evaluate_board                                                          *)
(***************************************************************************)
\* The continuity snapshot, and the agents it says need recovery.
Snapshot(e, b, force) ==
    /\ plan' = [plan EXCEPT ![e] = {<<a, health[a]>> : a \in {x \in Agents :
                                        BoardOf[x] = b /\ health[x] # "alive"}}]
    /\ pending' = [pending EXCEPT ![e] = {}]
    /\ forced' = [forced EXCEPT ![e] = force]
    /\ Goto(e, "decide")

\* Variant: the limit is checked with > for >=.
DecideOneMore(e) ==
    /\ pc[e] = "decide"
    /\ \E x \in plan[e] :
         LET a == x[1]
             incident == IF ~forced[e] /\ CoolingDown(a) THEN Incident("suppressed", "cooldown")
                         ELSE IF Cardinality(Attempts(a)) > MaxRestarts
                              THEN Incident("suppressed", "limit")
                         ELSE Incident("recovered", x[2])
         IN /\ plan' = [plan EXCEPT ![e] = @ \ {x}]
            /\ pending' = [pending EXCEPT ![e] = @ \cup {<<a, incident>>}]
    /\ UNCHANGED <<world, sweep, pc, forced, lastAlert, manual, faults>>

\* With no recovery action injected an attempt always reports success.
Decide(e) ==
    /\ pc[e] = "decide"
    /\ \E x \in plan[e] :
         LET a == x[1]
             incident == IF ~forced[e] /\ CoolingDown(a) THEN Incident("suppressed", "cooldown")
                         ELSE IF Cardinality(Attempts(a)) >= MaxRestarts
                              THEN Incident("suppressed", "limit")
                         ELSE Incident("recovered", x[2])
         IN /\ plan' = [plan EXCEPT ![e] = @ \ {x}]
            /\ pending' = [pending EXCEPT ![e] = @ \cup {<<a, incident>>}]
    /\ UNCHANGED <<world, sweep, pc, forced, lastAlert, manual, faults>>

\* One commit: the incidents, and the heartbeat of each stale agent "recovered".
Commit(e) ==
    LET Of(a) == {x[2] : x \in {y \in pending[e] : y[1] = a}} IN
    /\ pc[e] = "decide" /\ plan[e] = {}
    /\ incidents' = [a \in Agents |-> IF Of(a) = {} THEN incidents[a]
                                      ELSE Append(incidents[a], CHOOSE i \in Of(a) : TRUE)]
    /\ health' = [a \in Agents |-> IF Incident("recovered", "stale") \in Of(a)
                                   THEN "alive" ELSE health[a]]
    /\ pending' = [pending EXCEPT ![e] = {}]
    /\ IF e = Sweep
       THEN /\ alerting' = {<<a, Len(incidents'[a])>> : a \in {x[1] : x \in pending[e]}}
            /\ Goto(e, "alert")
       ELSE Goto(e, "idle") /\ UNCHANGED alerting
    /\ UNCHANGED <<sinceSweep, todo, plan, forced, lastAlert, manual, faults>>

\* The transaction of an evaluation is rolled back.
Forget(e) ==
    /\ plan' = [plan EXCEPT ![e] = {}]
    /\ pending' = [pending EXCEPT ![e] = {}]
    /\ Goto(e, "idle")

\* run_recovery_now: force bypasses the cooldown, not the hourly limit.
RunNow(e, b, force) ==
    /\ e \in Operators /\ pc[e] = "idle" /\ manual < MaxManual
    /\ manual' = manual + 1
    /\ Snapshot(e, b, force)
    /\ UNCHANGED <<world, sweep, lastAlert, faults>>
-----------------------------------------------------------------------------
(***************************************************************************)
(* RecoveryScheduler.run_once, called by the worker loop when it is due.   *)
(***************************************************************************)
StartSweep ==
    /\ pc[Sweep] = "idle" /\ sinceSweep >= Interval
    /\ todo' = Boards
    /\ Goto(Sweep, "next")
    /\ UNCHANGED <<world, sinceSweep, alerting, forced, plan, pending, lastAlert, manual, faults>>

SweepBoard(b) ==
    /\ pc[Sweep] = "next" /\ b \in todo
    /\ todo' = todo \ {b}
    /\ Snapshot(Sweep, b, FALSE)
    /\ UNCHANGED <<world, sinceSweep, alerting, lastAlert, manual, faults>>

\* Variant: only the incident just before is compared.
IsDuplicateOfLast(a, i) ==
    /\ i > 1
    /\ incidents[a][i - 1].status = incidents[a][i].status
    /\ incidents[a][i - 1].reason = incidents[a][i].reason
    /\ incidents[a][i - 1].age <= Dedupe

\* _is_duplicate_alert: another incident, whoever recorded it and whether or
\* not it was alerted.
IsDuplicate(a, i) ==
    \E k \in DOMAIN incidents[a] \ {i} :
        /\ incidents[a][k].status = incidents[a][i].status
        /\ incidents[a][k].reason = incidents[a][i].reason
        /\ incidents[a][k].age <= Dedupe

\* An alert that no channel delivers is forgotten.
RouteAlert ==
    /\ pc[Sweep] = "alert"
    /\ \E x \in alerting :
         LET incident == incidents[x[1]][x[2]] IN
         /\ alerting' = alerting \ {x}
         /\ \/ UNCHANGED lastAlert
            \/ /\ incident.status # "suppressed" /\ ~IsDuplicate(x[1], x[2])
               /\ lastAlert' = [lastAlert EXCEPT ![<<x[1], incident.reason>>] = 0]
    /\ UNCHANGED <<world, sinceSweep, todo, local, manual, faults>>

AlertsDone ==
    /\ pc[Sweep] = "alert" /\ alerting = {}
    /\ Goto(Sweep, "next")
    /\ UNCHANGED <<world, sweep, forced, plan, pending, lastAlert, manual, faults>>

EndSweep ==
    /\ pc[Sweep] = "next" /\ todo = {}
    /\ sinceSweep' = 0
    /\ Goto(Sweep, "idle")
    /\ UNCHANGED <<world, todo, alerting, forced, plan, pending, lastAlert, manual, faults>>

\* A sweep that raises, in an evaluation or between two alerts, ends there:
\* nothing in run_once catches it, the board under evaluation is rolled back and
\* the sweep is still due.  A worker that restarts is due at once as well.
SweepFails ==
    /\ faults < MaxFaults
    /\ faults' = faults + 1
    /\ Forget(Sweep)
    /\ todo' = {} /\ alerting' = {}
    /\ sinceSweep' = Interval
    /\ UNCHANGED <<world, forced, lastAlert, manual>>

RunFails(e) ==
    /\ e \in Operators /\ pc[e] = "decide" /\ faults < MaxFaults
    /\ faults' = faults + 1
    /\ Forget(e)
    /\ UNCHANGED <<world, sweep, forced, lastAlert, manual>>
-----------------------------------------------------------------------------
(***************************************************************************)
(* The agents, and time.                                                   *)
(***************************************************************************)
HealthChanges(a, h) ==
    /\ health[a] # h
    /\ health' = [health EXCEPT ![a] = h]
    /\ UNCHANGED <<incidents, sweep, local, lastAlert, manual, faults>>

\* The incidents of an agent are in the order they were recorded: those that pass
\* the horizon are the first ones.
Aged(s) ==
    LET expired == CHOOSE n \in 0 .. Len(s) : \A i \in 1 .. Len(s) : s[i].age >= Horizon <=> i <= n
    IN [k \in 1 .. Len(s) - expired |-> [s[k + expired] EXCEPT !.age = @ + 1]]

Tick ==
    /\ \A e \in Evaluators : pc[e] = "idle"
    /\ incidents' = [a \in Agents |-> Aged(incidents[a])]
    /\ sinceSweep' = IF sinceSweep < Interval THEN sinceSweep + 1 ELSE sinceSweep
    /\ lastAlert' = [x \in DOMAIN lastAlert |->
                       IF lastAlert[x] <= Dedupe THEN lastAlert[x] + 1 ELSE lastAlert[x]]
    /\ UNCHANGED <<health, todo, alerting, local, manual, faults>>

Evaluate(e) == Decide(e) \/ Commit(e)

RunSweep == \/ StartSweep \/ (\E b \in Boards : SweepBoard(b))
            \/ Evaluate(Sweep) \/ RouteAlert \/ AlertsDone \/ EndSweep

Next ==
    \/ RunSweep
    \/ SweepFails
    \/ \E e \in Operators : Evaluate(e) \/ RunFails(e)
    \/ \E e \in Operators, b \in Boards, force \in BOOLEAN : RunNow(e, b, force)
    \/ \E a \in Agents, h \in Health : HealthChanges(a, h)
    \/ Tick

Spec == Init /\ [][Next]_vars

\* The worker and the API make progress and time passes.
FairSpec == Spec /\ WF_vars(RunSweep) /\ WF_vars(Tick)
                 /\ \A e \in Operators : WF_vars(Evaluate(e))
-----------------------------------------------------------------------------
(***************************************************************************)
(* Properties                                                              *)
(***************************************************************************)
IncidentRecord == [status : {"suppressed", "recovered"}, reason : Reason, age : 0 .. Horizon]

\* Variables keep their shape, and only an evaluation under way has a plan.
TypeOK ==
    /\ health \in [Agents -> Health]
    /\ incidents \in [Agents -> Seq(IncidentRecord)]
    /\ sinceSweep \in 0 .. Interval
    /\ todo \subseteq Boards
    /\ alerting \subseteq Agents \X Nat
    /\ pc \in [Evaluators -> {"idle", "next", "decide", "alert"}]
    /\ forced \in [Evaluators -> BOOLEAN]
    /\ plan \in [Evaluators -> SUBSET (Agents \X {"stale", "unreachable"})]
    /\ pending \in [Evaluators -> SUBSET (Agents \X IncidentRecord)]
    /\ \A e \in Evaluators : pc[e] # "decide" => plan[e] = {} /\ pending[e] = {}
    /\ lastAlert \in [Agents \X Reason -> 0 .. Dedupe + 1]
    /\ manual \in 0 .. MaxManual /\ faults \in 0 .. MaxFaults

\* max_restarts_per_hour: whatever the cooldown lets through, forced or not,
\* an agent is restarted at most that often in an hour, and once more for each
\* other evaluation that read the count before the last restart was committed.
RestartsBounded ==
    \A a \in Agents :
        Cardinality({i \in DOMAIN incidents[a] : /\ incidents[a][i].status = "recovered"
                                                 /\ incidents[a][i].age <= Hour})
            <= MaxRestarts + Cardinality(Operators)

\* The owner is not alerted twice of the same agent, status and reason within
\* the dedupe window, whatever suppressed or manual incidents come in between.
AlertsSpaced ==
    [][\A x \in Agents \X Reason :
         lastAlert'[x] = 0 /\ lastAlert[x] # 0 => lastAlert[x] > Dedupe]_vars

\* "Board-level failures are logged and isolated; one board failure does not
\* stop the sweep": a sweep ends only when every board has had its turn.
BoardFailuresIsolated ==
    [][pc[Sweep] # "idle" /\ pc'[Sweep] = "idle" => todo = {}]_vars

\* "Ensure Mission Control continuously detects down/stale agents, runs
\* deterministic recovery actions": an agent that stays unreachable is
\* attempted again and again.
KeepsTrying ==
    \A a \in Agents :
        <>[](health[a] = "unreachable")
          => []<>(\E i \in DOMAIN incidents[a] : /\ incidents[a][i].status = "recovered"
                                                 /\ incidents[a][i].age = 0)
=============================================================================
