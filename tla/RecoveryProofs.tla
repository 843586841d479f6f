---------------------------- MODULE RecoveryProofs ----------------------------
(***************************************************************************)
(* What holds of agent autorecovery for every set of agents, boards and    *)
(* operators, every policy and every number of runs and failures.          *)
(***************************************************************************)
EXTENDS Recovery, OrderLemmas

\* Incidents are recorded in time order: a later one is no older.
InOrder(s) == \A i, k \in DOMAIN s : i <= k => s[k].age <= s[i].age
IncidentsInOrder == \A a \in Agents : InOrder(incidents[a])

\* The sweep has an alert to route only between two boards, of an incident on record.
AlertsOfIncidents ==
    /\ pc[Sweep] # "alert" => alerting = {}
    /\ \A x \in alerting : x[2] \in DOMAIN incidents[x[1]]

\* What an evaluation has yet to commit happened now.
PendingIsNew == \A e \in Evaluators : \A x \in pending[e] : x[2].age = 0

TypeInv == TypeOK /\ IncidentsInOrder /\ AlertsOfIncidents /\ PendingIsNew

\* The restart of a that i records is on record, and was alerted, not waiting to be.
IsAlerted(a, r, i) ==
    /\ incidents[a][i].status = "recovered" /\ incidents[a][i].reason = r
    /\ incidents[a][i].age <= lastAlert[<<a, r>>]
    /\ <<a, i>> \notin alerting

\* The sweep alerts what it has just recorded.
AlertingIsNew == \A x \in alerting : incidents[x[1]][x[2]].age = 0

\* An alert in the dedupe window left its incident on record.
AlertedIsRecorded ==
    \A a \in Agents, r \in Reason :
        lastAlert[<<a, r>>] <= Dedupe => \E i \in DOMAIN incidents[a] : IsAlerted(a, r, i)

AlertInv == AlertingIsNew /\ AlertedIsRecorded

\* The evaluations that have decided to restart a and have yet to commit it.
Restarting(a) == {e \in Evaluators : \E x \in pending[e] : x[1] = a /\ x[2].status = "recovered"}

\* The limit bounds what is committed together with what is under way: the last to
\* decide saw less than the limit committed.
RestartsUnderWay ==
    \A a \in Agents :
        Cardinality(Attempts(a)) + Cardinality(Restarting(a)) <= MaxRestarts + Cardinality(Operators)
-------------------------------------------------------------------------------
(***************************************************************************)
(* Lemmas about incidents                                                  *)
(***************************************************************************)
\* The horizon covers the windows of the policy.
LEMMA HorizonCovers ==
  Horizon \in Nat /\ Hour <= Horizon /\ Cooldown <= Horizon /\ Dedupe <= Horizon
BY TimeAssumption DEF Horizon, Larger

\* The fields of incidents on record.
LEMMA RecordsOf ==
  ASSUME NEW s \in Seq(IncidentRecord)
  PROVE  /\ Len(s) \in Nat /\ DOMAIN s = 1 .. Len(s)
         /\ \A i \in 1 .. Len(s) : /\ s[i] \in IncidentRecord
                                   /\ s[i].status \in {"suppressed", "recovered"}
                                   /\ s[i].reason \in Reason
                                   /\ s[i].age \in Nat /\ s[i].age <= Horizon
<1>1. Len(s) \in Nat /\ DOMAIN s = 1 .. Len(s) /\ \A i \in 1 .. Len(s) : s[i] \in IncidentRecord
  OBVIOUS
<1>2. \A r \in IncidentRecord : /\ r.status \in {"suppressed", "recovered"} /\ r.reason \in Reason
                                /\ r.age \in 0 .. Horizon
  BY DEF IncidentRecord
<1>3. \A k \in 0 .. Horizon : k \in Nat /\ k <= Horizon
  BY HorizonCovers
<1> QED BY <1>1, <1>2, <1>3

\* A new incident.
LEMMA IncidentType ==
  ASSUME NEW status \in {"suppressed", "recovered"}, NEW r \in Reason
  PROVE  /\ Incident(status, r) \in IncidentRecord
         /\ Incident(status, r).status = status /\ Incident(status, r).age = 0
<1>1. 0 \in 0 .. Horizon
  BY HorizonCovers
<1> QED BY <1>1 DEF Incident, IncidentRecord

\* With time the incidents beyond the horizon, the first ones, go, and the others age.
LEMMA AgedIs ==
  ASSUME NEW s \in Seq(IncidentRecord), InOrder(s)
  PROVE  \E n \in 0 .. Len(s) :
           /\ \A i \in 1 .. Len(s) : s[i].age >= Horizon <=> i <= n
           /\ Aged(s) \in Seq(IncidentRecord) /\ Len(Aged(s)) = Len(s) - n
           /\ \A k \in 1 .. Len(s) - n :
                /\ k + n \in 1 .. Len(s)
                /\ Aged(s)[k].status = s[k + n].status /\ Aged(s)[k].reason = s[k + n].reason
                /\ Aged(s)[k].age = s[k + n].age + 1
<1>1. /\ Len(s) \in Nat /\ DOMAIN s = 1 .. Len(s)
      /\ \A i \in 1 .. Len(s) : s[i] \in IncidentRecord /\ s[i].age \in Nat
  BY RecordsOf
<1> DEFINE Split(n) == \A i \in 1 .. Len(s) : s[i].age >= Horizon <=> i <= n
           recent == {i \in 1 .. Len(s) : ~(s[i].age >= Horizon)}
<1>2. \E n \in 0 .. Len(s) : Split(n)
  <2>1. CASE recent = {}
    <3>1. Split(Len(s))
      BY <1>1, <2>1
    <3> QED BY <1>1, <3>1
  <2>2. CASE recent # {}
    <3>1. PICK m \in recent : \A i \in recent : m <= i
      <4>1. recent \in SUBSET Nat
        BY <1>1
      <4> HIDE DEF recent
      <4> QED BY <2>2, <4>1, LeastNat
    <3>2. ASSUME NEW i \in 1 .. Len(s), i >= m PROVE ~(s[i].age >= Horizon)
      BY <1>1, <3>1, <3>2, HorizonCovers DEF InOrder
    <3>3. Split(m - 1)
      BY <1>1, <3>1, <3>2
    <3>4. m - 1 \in 0 .. Len(s)
      BY <1>1, <3>1
    <3> QED BY <3>3, <3>4
  <2> QED BY <2>1, <2>2
<1> DEFINE n == CHOOSE n \in 0 .. Len(s) : \A i \in 1 .. Len(s) : s[i].age >= Horizon <=> i <= n
<1>3. n \in 0 .. Len(s) /\ Split(n)
  BY <1>2
<1>4. Aged(s) = [k \in 1 .. Len(s) - n |-> [s[k + n] EXCEPT !.age = @ + 1]]
  BY DEF Aged
<1> HIDE DEF n
<1>5. ASSUME NEW k \in 1 .. Len(s) - n
      PROVE  /\ k + n \in 1 .. Len(s)
             /\ Aged(s)[k].status = s[k + n].status /\ Aged(s)[k].reason = s[k + n].reason
             /\ Aged(s)[k].age = s[k + n].age + 1
             /\ Aged(s)[k] \in IncidentRecord
  <2>1. k + n \in 1 .. Len(s) /\ ~(k + n <= n)
    BY <1>1, <1>3
  <2>2. s[k + n] \in IncidentRecord /\ s[k + n].age + 1 \in 0 .. Horizon
    BY <1>1, <1>3, <2>1, HorizonCovers
  <2>3. Aged(s)[k] = [status |-> s[k + n].status, reason |-> s[k + n].reason,
                      age |-> s[k + n].age + 1]
    BY <1>4, <2>2 DEF IncidentRecord
  <2> QED BY <2>1, <2>2, <2>3 DEF IncidentRecord
<1>6. Len(s) - n \in Nat
  BY <1>1, <1>3
<1>7. Aged(s) \in Seq(IncidentRecord) /\ Len(Aged(s)) = Len(s) - n
  <2>1. Aged(s) = [k \in 1 .. Len(s) - n |-> Aged(s)[k]]
    BY <1>4
  <2>2. Aged(s) \in [1 .. Len(s) - n -> IncidentRecord]
    BY <1>5, <2>1
  <2> QED BY <1>6, <2>2
<1> QED BY <1>3, <1>5, <1>7

\* Aging keeps the order.
LEMMA AgedInOrder ==
  ASSUME NEW s \in Seq(IncidentRecord), InOrder(s)
  PROVE  InOrder(Aged(s))
<1>1. PICK n \in 0 .. Len(s) :
        /\ Aged(s) \in Seq(IncidentRecord) /\ Len(Aged(s)) = Len(s) - n
        /\ \A k \in 1 .. Len(s) - n :
             /\ k + n \in 1 .. Len(s)
             /\ Aged(s)[k].status = s[k + n].status /\ Aged(s)[k].reason = s[k + n].reason
             /\ Aged(s)[k].age = s[k + n].age + 1
  BY AgedIs
<1>2. \A i \in 1 .. Len(s) : s[i].age \in Nat
  BY RecordsOf
<1>3. DOMAIN Aged(s) = 1 .. Len(s) - n
  BY <1>1
<1>4. ASSUME NEW i \in 1 .. Len(s) - n, NEW k \in 1 .. Len(s) - n, i <= k
      PROVE  Aged(s)[k].age <= Aged(s)[i].age
  <2>1. i + n \in 1 .. Len(s) /\ k + n \in 1 .. Len(s) /\ i + n <= k + n
    BY <1>1, <1>4
  <2>2. s[k + n].age <= s[i + n].age
    BY <2>1, RecordsOf DEF InOrder
  <2>3. Aged(s)[k].age = s[k + n].age + 1 /\ Aged(s)[i].age = s[i + n].age + 1
    BY <1>1
  <2> QED BY <1>2, <2>1, <2>2, <2>3
<1> QED BY <1>3, <1>4 DEF InOrder

\* A new incident is the youngest.
LEMMA AppendInOrder ==
  ASSUME NEW s \in Seq(IncidentRecord), InOrder(s), NEW i \in IncidentRecord, i.age = 0
  PROVE  /\ Append(s, i) \in Seq(IncidentRecord) /\ InOrder(Append(s, i))
         /\ Len(Append(s, i)) = Len(s) + 1 /\ DOMAIN Append(s, i) = 1 .. Len(s) + 1
         /\ \A k \in 1 .. Len(s) : Append(s, i)[k] = s[k]
         /\ Append(s, i)[Len(s) + 1] = i
<1>1. /\ Append(s, i) \in Seq(IncidentRecord) /\ Len(s) \in Nat
      /\ Len(Append(s, i)) = Len(s) + 1 /\ DOMAIN Append(s, i) = 1 .. Len(s) + 1
      /\ \A k \in 1 .. Len(s) : Append(s, i)[k] = s[k]
      /\ Append(s, i)[Len(s) + 1] = i
  OBVIOUS
<1>2. \A k \in 1 .. Len(s) : s[k].age \in Nat
  BY RecordsOf
<1>3. InOrder(Append(s, i))
  <2>1. ASSUME NEW k \in 1 .. Len(s) + 1, NEW m \in 1 .. Len(s) + 1, k <= m
        PROVE  Append(s, i)[m].age <= Append(s, i)[k].age
    <3>1. CASE m \in 1 .. Len(s)
      <4>1. k \in 1 .. Len(s)
        BY <1>1, <2>1, <3>1
      <4> QED BY <1>1, <2>1, <3>1, <4>1 DEF InOrder
    <3>2. CASE m = Len(s) + 1
      <4>1. Append(s, i)[m].age = 0
        BY <1>1, <3>2
      <4>2. k \in 1 .. Len(s) \/ k = Len(s) + 1
        BY <1>1
      <4>3. Append(s, i)[k].age \in Nat
        BY <1>1, <1>2, <4>2
      <4> QED BY <4>1, <4>3
    <3> QED BY <1>1, <3>1, <3>2
  <2> QED BY <1>1, <2>1 DEF InOrder
<1> QED BY <1>1, <1>3
-------------------------------------------------------------------------------
(***************************************************************************)
(* Types                                                                   *)
(***************************************************************************)
\* Every agent is well, and nothing is on record or under way at first.
LEMMA InitType == Init => TypeInv
<1> SUFFICES ASSUME Init PROVE TypeInv
  OBVIOUS
<1> USE DEF Init
<1>1. TypeOK
  <2>1. sinceSweep \in 0 .. Interval /\ manual \in 0 .. MaxManual /\ faults \in 0 .. MaxFaults
    BY TimeAssumption
  <2>2. lastAlert \in [Agents \X Reason -> 0 .. Dedupe + 1]
    BY TimeAssumption
  <2>3. incidents \in [Agents -> Seq(IncidentRecord)]
    OBVIOUS
  <2> QED BY <2>1, <2>2, <2>3 DEF TypeOK, Health
<1>2. IncidentsInOrder /\ AlertsOfIncidents /\ PendingIsNew
  BY DEF IncidentsInOrder, InOrder, AlertsOfIncidents, PendingIsNew, Evaluators
<1> QED BY <1>1, <1>2 DEF TypeInv

\* What the snapshot of a board puts in a plan.
LEMMA SnapshotType ==
  ASSUME TypeInv, NEW e \in Evaluators, NEW b \in Boards, NEW force \in BOOLEAN,
         Snapshot(e, b, force)
  PROVE  /\ pc' = [pc EXCEPT ![e] = "decide"]
         /\ forced' \in [Evaluators -> BOOLEAN]
         /\ plan' \in [Evaluators -> SUBSET (Agents \X {"stale", "unreachable"})]
         /\ pending' = [pending EXCEPT ![e] = {}]
         /\ \A d \in Evaluators : d # e => plan'[d] = plan[d]
<1> USE DEF TypeInv, TypeOK, Snapshot, Goto
<1> DEFINE seen == {<<a, health[a]>> : a \in {x \in Agents : BoardOf[x] = b /\ health[x] # "alive"}}
<1>1. seen \subseteq Agents \X {"stale", "unreachable"}
  BY DEF Health
<1>2. plan' = [plan EXCEPT ![e] = seen]
  OBVIOUS
<1> HIDE DEF seen
<1> QED BY <1>1, <1>2

\* An agent of the plan is decided: restarted or suppressed.
LEMMA DecideIs ==
  ASSUME TypeInv, NEW e \in Evaluators, Decide(e)
  PROVE  \E x \in plan[e] : \E i \in IncidentRecord :
           /\ x[1] \in Agents /\ i.age = 0 /\ i.status \in {"suppressed", "recovered"}
           /\ i.status = "recovered" => ~(Cardinality(Attempts(x[1])) >= MaxRestarts)
           /\ plan' = [plan EXCEPT ![e] = @ \ {x}]
           /\ pending' = [pending EXCEPT ![e] = @ \cup {<<x[1], i>>}]
<1>1. PICK x \in plan[e] :
        LET a == x[1]
            incident == IF ~forced[e] /\ CoolingDown(a) THEN Incident("suppressed", "cooldown")
                        ELSE IF Cardinality(Attempts(a)) >= MaxRestarts
                             THEN Incident("suppressed", "limit")
                        ELSE Incident("recovered", x[2])
        IN /\ plan' = [plan EXCEPT ![e] = @ \ {x}]
           /\ pending' = [pending EXCEPT ![e] = @ \cup {<<a, incident>>}]
  BY DEF Decide
<1>2. x[1] \in Agents /\ x[2] \in Reason
  BY DEF TypeInv, TypeOK, Reason
<1>3. \A i \in {Incident("suppressed", "cooldown"), Incident("suppressed", "limit"),
                Incident("recovered", x[2])} :
        i \in IncidentRecord /\ i.age = 0 /\ i.status \in {"suppressed", "recovered"}
  BY <1>2, IncidentType DEF Reason
<1>4. /\ Incident("suppressed", "cooldown").status = "suppressed"
      /\ Incident("suppressed", "limit").status = "suppressed"
  BY DEF Incident
<1>5. CASE ~forced[e] /\ CoolingDown(x[1])
  BY <1>1, <1>2, <1>3, <1>4, <1>5
<1>6. CASE ~(~forced[e] /\ CoolingDown(x[1])) /\ Cardinality(Attempts(x[1])) >= MaxRestarts
  BY <1>1, <1>2, <1>3, <1>4, <1>6
<1>7. CASE ~(~forced[e] /\ CoolingDown(x[1])) /\ ~(Cardinality(Attempts(x[1])) >= MaxRestarts)
  BY <1>1, <1>2, <1>3, <1>7
<1> QED BY <1>5, <1>6, <1>7

\* What a commit adds to an agent's incidents: nothing, or one it has decided.
LEMMA CommitIs ==
  ASSUME TypeInv, NEW e \in Evaluators, Commit(e), NEW a \in Agents
  PROVE  \/ incidents'[a] = incidents[a] /\ \A x \in pending[e] : x[1] # a
         \/ \E i \in IncidentRecord : <<a, i>> \in pending[e] /\ incidents'[a] = Append(incidents[a], i)
<1> DEFINE Of == {x[2] : x \in {y \in pending[e] : y[1] = a}}
<1>1. incidents'[a] = IF Of = {} THEN incidents[a] ELSE Append(incidents[a], CHOOSE i \in Of : TRUE)
  BY DEF Commit
<1>2. pending[e] \subseteq Agents \X IncidentRecord
  BY DEF TypeInv, TypeOK
<1>3. CASE Of = {}
  BY <1>1, <1>3
<1>4. CASE Of # {}
  <2>1. PICK i \in Of : incidents'[a] = Append(incidents[a], i)
    BY <1>1, <1>4
  <2>2. i \in IncidentRecord /\ <<a, i>> \in pending[e]
    BY <1>2
  <2> QED BY <2>1, <2>2
<1> QED BY <1>3, <1>4

\* A commit adds to what is on record.
LEMMA CommitType ==
  ASSUME TypeInv, NEW e \in Evaluators, Commit(e)
  PROVE  /\ incidents' \in [Agents -> Seq(IncidentRecord)]
         /\ IncidentsInOrder'
         /\ \A a \in Agents :
              /\ DOMAIN incidents[a] = 1 .. Len(incidents[a]) /\ Len(incidents[a]) \in Nat
              /\ DOMAIN incidents'[a] = 1 .. Len(incidents'[a]) /\ Len(incidents'[a]) \in Nat
              /\ \A k \in DOMAIN incidents[a] : k \in DOMAIN incidents'[a]
                                                /\ incidents'[a][k] = incidents[a][k]
              /\ (\E x \in pending[e] : x[1] = a) =>
                    /\ Len(incidents'[a]) = Len(incidents[a]) + 1
                    /\ incidents'[a][Len(incidents'[a])].age = 0
<1>1. ASSUME NEW a \in Agents
      PROVE  /\ incidents'[a] \in Seq(IncidentRecord) /\ InOrder(incidents'[a])
             /\ DOMAIN incidents[a] = 1 .. Len(incidents[a]) /\ Len(incidents[a]) \in Nat
             /\ DOMAIN incidents'[a] = 1 .. Len(incidents'[a]) /\ Len(incidents'[a]) \in Nat
             /\ \A k \in DOMAIN incidents[a] : k \in DOMAIN incidents'[a]
                                               /\ incidents'[a][k] = incidents[a][k]
             /\ (\E x \in pending[e] : x[1] = a) =>
                   /\ Len(incidents'[a]) = Len(incidents[a]) + 1
                   /\ incidents'[a][Len(incidents'[a])].age = 0
  <2>1. incidents[a] \in Seq(IncidentRecord) /\ InOrder(incidents[a])
    BY DEF TypeInv, TypeOK, IncidentsInOrder
  <2>2. DOMAIN incidents[a] = 1 .. Len(incidents[a]) /\ Len(incidents[a]) \in Nat
    BY <2>1, RecordsOf
  <2>3. CASE incidents'[a] = incidents[a] /\ \A x \in pending[e] : x[1] # a
    BY <2>1, <2>2, <2>3
  <2>4. CASE \E i \in IncidentRecord : <<a, i>> \in pending[e] /\ incidents'[a] = Append(incidents[a], i)
    <3>1. PICK i \in IncidentRecord : <<a, i>> \in pending[e] /\ incidents'[a] = Append(incidents[a], i)
      BY <2>4
    <3>2. i.age = 0
      BY <3>1 DEF TypeInv, PendingIsNew
    <3>3. /\ incidents'[a] \in Seq(IncidentRecord) /\ InOrder(incidents'[a])
          /\ Len(incidents'[a]) = Len(incidents[a]) + 1
          /\ DOMAIN incidents'[a] = 1 .. Len(incidents[a]) + 1
          /\ \A k \in 1 .. Len(incidents[a]) : incidents'[a][k] = incidents[a][k]
          /\ incidents'[a][Len(incidents[a]) + 1] = i
      BY <2>1, <3>1, <3>2, AppendInOrder
    <3>4. \A k \in 1 .. Len(incidents[a]) : k \in 1 .. Len(incidents[a]) + 1
      BY <2>2
    <3> QED BY <2>2, <3>2, <3>3, <3>4
  <2> QED BY <2>3, <2>4, CommitIs
<1>2. incidents' = [a \in Agents |-> incidents'[a]]
  BY DEF Commit
<1>3. incidents' \in [Agents -> Seq(IncidentRecord)]
  BY <1>1, <1>2
<1> QED BY <1>1, <1>3 DEF IncidentsInOrder

\* An evaluation of a board: its start, its decisions and its commit.
LEMMA EvaluateType ==
  ASSUME TypeInv, NEW e \in Evaluators, Evaluate(e)
  PROVE  TypeInv'
<1> USE DEF TypeInv, TypeOK, world, sweep, Goto
<1>1. CASE Decide(e)
  <2>0. \E x \in plan[e] : \E i \in IncidentRecord :
          /\ x[1] \in Agents /\ i.age = 0
          /\ plan' = [plan EXCEPT ![e] = @ \ {x}]
          /\ pending' = [pending EXCEPT ![e] = @ \cup {<<x[1], i>>}]
    <3> HIDE DEF TypeInv, TypeOK
    <3>1. PICK x \in plan[e] : \E i \in IncidentRecord :
           /\ x[1] \in Agents /\ i.age = 0 /\ i.status \in {"suppressed", "recovered"}
           /\ i.status = "recovered" => ~(Cardinality(Attempts(x[1])) >= MaxRestarts)
           /\ plan' = [plan EXCEPT ![e] = @ \ {x}]
           /\ pending' = [pending EXCEPT ![e] = @ \cup {<<x[1], i>>}]
      BY <1>1, DecideIs
    <3> QED BY <3>1
  <2>1. PICK x \in plan[e], i \in IncidentRecord :
          /\ x[1] \in Agents /\ i.age = 0
          /\ plan' = [plan EXCEPT ![e] = @ \ {x}]
          /\ pending' = [pending EXCEPT ![e] = @ \cup {<<x[1], i>>}]
    BY <2>0
  <2>2. /\ UNCHANGED <<health, incidents, sinceSweep, todo, alerting, pc, forced, lastAlert, manual, faults>>
        /\ pc[e] = "decide"
    BY <1>1 DEF Decide
  <2>3. plan' \in [Evaluators -> SUBSET (Agents \X {"stale", "unreachable"})]
    BY <2>1
  <2>4. pending' \in [Evaluators -> SUBSET (Agents \X IncidentRecord)]
    BY <2>1
  <2>5. \A d \in Evaluators : pc'[d] # "decide" => plan'[d] = {} /\ pending'[d] = {}
    BY <2>1, <2>2
  <2>6. PendingIsNew'
    BY <2>1 DEF PendingIsNew
  <2>7. IncidentsInOrder' /\ AlertsOfIncidents'
    BY <2>2 DEF IncidentsInOrder, AlertsOfIncidents
  <2> QED BY <2>2, <2>3, <2>4, <2>5, <2>6, <2>7
<1>2. CASE Commit(e)
  <2>1. /\ pc[e] = "decide" /\ plan[e] = {}
        /\ pc' = [pc EXCEPT ![e] = IF e = Sweep THEN "alert" ELSE "idle"]
        /\ pending' = [pending EXCEPT ![e] = {}]
        /\ UNCHANGED <<sinceSweep, todo, plan, forced, lastAlert, manual, faults>>
        /\ health' \in [Agents -> Health]
    BY <1>2 DEF Commit, Health
  <2>2. /\ incidents' \in [Agents -> Seq(IncidentRecord)] /\ IncidentsInOrder'
        /\ \A a \in Agents :
             /\ DOMAIN incidents[a] = 1 .. Len(incidents[a]) /\ Len(incidents[a]) \in Nat
             /\ DOMAIN incidents'[a] = 1 .. Len(incidents'[a]) /\ Len(incidents'[a]) \in Nat
             /\ \A k \in DOMAIN incidents[a] : k \in DOMAIN incidents'[a]
             /\ (\E x \in pending[e] : x[1] = a) => Len(incidents'[a]) = Len(incidents[a]) + 1
    BY <1>2, CommitType
  <2>3. PendingIsNew'
    BY <2>1 DEF PendingIsNew
  <2>4. alerting' \subseteq Agents \X Nat /\ AlertsOfIncidents'
    <3>1. CASE e = Sweep
      <4>1. alerting' = {<<a, Len(incidents'[a])>> : a \in {x[1] : x \in pending[e]}}
        BY <1>2, <3>1 DEF Commit
      <4>2. \A a \in {x[1] : x \in pending[e]} :
              a \in Agents /\ Len(incidents'[a]) \in Nat /\ Len(incidents'[a]) \in DOMAIN incidents'[a]
        BY <2>2
      <4>3. \A z \in alerting' : z \in Agents \X Nat /\ z[2] \in DOMAIN incidents'[z[1]]
        BY <4>1, <4>2
      <4>4. pc'[Sweep] = "alert"
        BY <2>1, <3>1
      <4> QED BY <4>3, <4>4 DEF AlertsOfIncidents
    <3>2. CASE e # Sweep
      <4>1. alerting' = alerting /\ pc'[Sweep] = pc[Sweep]
        BY <1>2, <2>1, <3>2 DEF Commit, Evaluators
      <4>2. \A x \in alerting : x[2] \in DOMAIN incidents'[x[1]]
        BY <2>2 DEF AlertsOfIncidents
      <4> QED BY <4>1, <4>2 DEF AlertsOfIncidents
    <3> QED BY <3>1, <3>2
  <2>5. \A d \in Evaluators : pc'[d] # "decide" => plan'[d] = {} /\ pending'[d] = {}
    BY <2>1
  <2> QED BY <2>1, <2>2, <2>3, <2>4, <2>5
<1> QED BY <1>1, <1>2 DEF Evaluate

\* The start of an evaluation of a board.
LEMMA StartType ==
  ASSUME TypeInv, NEW e \in Evaluators, NEW b \in Boards, NEW force \in BOOLEAN,
         Snapshot(e, b, force), UNCHANGED <<health, incidents, sinceSweep, alerting, lastAlert, faults>>,
         todo' \subseteq todo, manual' \in 0 .. MaxManual, e = Sweep => pc[e] # "alert"
  PROVE  TypeInv'
<1> USE DEF TypeInv, TypeOK
<1>1. /\ pc' = [pc EXCEPT ![e] = "decide"]
      /\ forced' \in [Evaluators -> BOOLEAN]
      /\ plan' \in [Evaluators -> SUBSET (Agents \X {"stale", "unreachable"})]
      /\ pending' = [pending EXCEPT ![e] = {}]
      /\ \A d \in Evaluators : d # e => plan'[d] = plan[d]
  BY SnapshotType
<1>2. PendingIsNew'
  BY <1>1 DEF PendingIsNew
<1>3. AlertsOfIncidents' /\ IncidentsInOrder'
  BY <1>1 DEF AlertsOfIncidents, IncidentsInOrder, Evaluators
<1> QED BY <1>1, <1>2, <1>3

\* A failed evaluation.
LEMMA FailType ==
  ASSUME TypeInv, SweepFails \/ \E e \in Operators : RunFails(e)
  PROVE  TypeInv'
<1> USE DEF TypeInv, TypeOK, world, sweep
<1>1. PICK e \in Evaluators :
        /\ plan' = [plan EXCEPT ![e] = {}] /\ pending' = [pending EXCEPT ![e] = {}]
        /\ pc' = [pc EXCEPT ![e] = "idle"]
        /\ UNCHANGED <<health, incidents, forced, lastAlert, manual>>
        /\ \/ e = Sweep /\ alerting' = {} /\ sinceSweep' = Interval /\ todo' = {}
           \/ e # Sweep /\ UNCHANGED <<alerting, sinceSweep, todo>>
        /\ faults < MaxFaults /\ faults' = faults + 1
  BY EvaluatorsAssumption DEF SweepFails, RunFails, Forget, Goto, Evaluators
<1>2. faults' \in 0 .. MaxFaults /\ sinceSweep' \in 0 .. Interval
  BY <1>1, TimeAssumption
<1>3. PendingIsNew' /\ IncidentsInOrder'
  BY <1>1 DEF PendingIsNew, IncidentsInOrder
<1>4. AlertsOfIncidents' /\ alerting' \subseteq Agents \X Nat /\ todo' \subseteq Boards
  BY <1>1 DEF AlertsOfIncidents, Evaluators
<1>5. /\ plan' \in [Evaluators -> SUBSET (Agents \X {"stale", "unreachable"})]
      /\ pending' \in [Evaluators -> SUBSET (Agents \X IncidentRecord)]
      /\ pc' \in [Evaluators -> {"idle", "next", "decide", "alert"}]
      /\ \A d \in Evaluators : pc'[d] # "decide" => plan'[d] = {} /\ pending'[d] = {}
  BY <1>1
<1> QED BY <1>1, <1>2, <1>3, <1>4, <1>5

\* Time passes.
LEMMA TickType == ASSUME TypeInv, Tick PROVE TypeInv'
<1> USE DEF TypeInv, TypeOK
<1>1. /\ \A a \in Agents : incidents[a] \in Seq(IncidentRecord) /\ InOrder(incidents[a])
      /\ incidents' = [a \in Agents |-> Aged(incidents[a])]
      /\ UNCHANGED <<health, todo, alerting, pc, forced, plan, pending, manual, faults>>
      /\ \A e \in Evaluators : pc[e] = "idle"
  BY DEF Tick, IncidentsInOrder, local
<1>2. \A a \in Agents : Aged(incidents[a]) \in Seq(IncidentRecord) /\ InOrder(Aged(incidents[a]))
  BY <1>1, AgedIs, AgedInOrder
<1>3. sinceSweep' \in 0 .. Interval
  BY TimeAssumption DEF Tick
<1>4. lastAlert' \in [Agents \X Reason -> 0 .. Dedupe + 1]
  BY TimeAssumption DEF Tick
<1>5. IncidentsInOrder' /\ PendingIsNew'
  BY <1>1, <1>2 DEF IncidentsInOrder, PendingIsNew
<1>6. AlertsOfIncidents'
  <2>1. alerting = {}
    BY <1>1 DEF AlertsOfIncidents, Evaluators
  <2> QED BY <1>1, <2>1 DEF AlertsOfIncidents
<1> QED BY <1>1, <1>2, <1>3, <1>4, <1>5, <1>6

\* Every step keeps the types.
LEMMA NextType == TypeInv /\ [Next]_vars => TypeInv'
<1> SUFFICES ASSUME TypeInv, [Next]_vars PROVE TypeInv'
  OBVIOUS
<1> USE DEF TypeInv, TypeOK, IncidentsInOrder, AlertsOfIncidents, PendingIsNew
<1>0. Sweep \in Evaluators /\ Operators \subseteq Evaluators
  BY DEF Evaluators
<1>1. CASE UNCHANGED vars
  BY <1>1 DEF vars, world, sweep, local
<1>2. CASE StartSweep
  BY <1>0, <1>2 DEF StartSweep, Goto, world
<1>3. ASSUME NEW b \in Boards, SweepBoard(b) PROVE TypeInv'
  BY <1>0, <1>3, StartType DEF SweepBoard, world
<1>4. CASE RouteAlert
  <2>1. lastAlert' \in [Agents \X Reason -> 0 .. Dedupe + 1]
    <3>1. PICK x \in alerting :
            \/ lastAlert' = lastAlert
            \/ lastAlert' = [lastAlert EXCEPT ![<<x[1], incidents[x[1]][x[2]].reason>>] = 0]
      BY <1>4 DEF RouteAlert
    <3>2. 0 \in 0 .. Dedupe + 1
      BY TimeAssumption
    <3>3. \A z : [lastAlert EXCEPT ![z] = 0] \in [Agents \X Reason -> 0 .. Dedupe + 1]
      <4> HIDE DEF TypeInv
      <4>1. lastAlert \in [Agents \X Reason -> 0 .. Dedupe + 1]
        BY DEF TypeInv
      <4> QED BY <3>2, <4>1
    <3>4. PICK z : lastAlert' = lastAlert \/ lastAlert' = [lastAlert EXCEPT ![z] = 0]
      BY <3>1
    <3>5. CASE lastAlert' = lastAlert
      BY <3>5
    <3>6. CASE lastAlert' = [lastAlert EXCEPT ![z] = 0]
      <4> HIDE DEF TypeInv, TypeOK
      <4> QED BY <3>3, <3>6
    <3> QED BY <3>4, <3>5, <3>6
  <2>2. alerting' \subseteq alerting
    BY <1>4 DEF RouteAlert
  <2> QED BY <1>4, <2>1, <2>2 DEF RouteAlert, world, local
<1>5. CASE AlertsDone
  BY <1>0, <1>5 DEF AlertsDone, Goto, world, sweep
<1>6. CASE EndSweep
  BY <1>0, <1>6, TimeAssumption DEF EndSweep, Goto, world
<1>7. ASSUME NEW e \in Operators, NEW b \in Boards, NEW force \in BOOLEAN, RunNow(e, b, force)
      PROVE  TypeInv'
  <2>1. manual' \in 0 .. MaxManual
    BY <1>7, TimeAssumption DEF RunNow
  <2> QED BY <1>0, <1>7, <2>1, StartType, EvaluatorsAssumption DEF RunNow, world, sweep
<1>8. ASSUME NEW a \in Agents, NEW h \in Health, HealthChanges(a, h) PROVE TypeInv'
  BY <1>8 DEF HealthChanges, sweep, local
<1> HIDE DEF TypeInv, TypeOK, IncidentsInOrder, AlertsOfIncidents, PendingIsNew
<1> QED
  BY <1>0, <1>1, <1>2, <1>3, <1>4, <1>5, <1>6, <1>7, <1>8, EvaluateType, FailType, TickType
     DEF Next, RunSweep

\* The variables keep their shape, for every policy and any number of evaluations.
THEOREM TypeCorrect == Spec => []TypeOK
<1>1. TypeInv => TypeOK
  BY DEF TypeInv
<1> QED BY <1>1, InitType, NextType, PTL DEF Spec
-------------------------------------------------------------------------------
(***************************************************************************)
(* AlertsSpaced: an alert leaves its incident on record for as long as the *)
(* dedupe window lasts, and no longer among those waiting to be alerted.   *)
(***************************************************************************)
\* What the variables of alerting hold.
LEMMA AlertTypes ==
  ASSUME TypeInv
  PROVE  /\ \A a \in Agents, r \in Reason : lastAlert[<<a, r>>] \in 0 .. Dedupe + 1
         /\ \A x \in alerting : /\ x = <<x[1], x[2]>> /\ x[1] \in Agents
                                /\ x[2] \in DOMAIN incidents[x[1]]
         /\ \A a \in Agents : \A i \in DOMAIN incidents[a] :
              /\ incidents[a][i].age \in Nat /\ incidents[a][i].reason \in Reason
              /\ incidents[a][i].status \in {"suppressed", "recovered"}
<1>1. \A a \in Agents : incidents[a] \in Seq(IncidentRecord)
  BY DEF TypeInv, TypeOK
<1>2. \A x \in alerting : /\ x = <<x[1], x[2]>> /\ x[1] \in Agents
                          /\ x[2] \in DOMAIN incidents[x[1]]
  BY DEF TypeInv, TypeOK, AlertsOfIncidents
<1>3. \A a \in Agents, r \in Reason : lastAlert[<<a, r>>] \in 0 .. Dedupe + 1
  BY DEF TypeInv, TypeOK
<1>4. ASSUME NEW a \in Agents, NEW i \in DOMAIN incidents[a]
      PROVE  /\ incidents[a][i].age \in Nat /\ incidents[a][i].reason \in Reason
             /\ incidents[a][i].status \in {"suppressed", "recovered"}
  BY <1>1, <1>4, RecordsOf
<1> QED BY <1>2, <1>3, <1>4

\* No alert has been given at first.
LEMMA InitAlert == Init => AlertInv
<1> SUFFICES ASSUME Init PROVE AlertInv
  OBVIOUS
<1>1. \A a \in Agents, r \in Reason : lastAlert[<<a, r>>] = Dedupe + 1
  BY DEF Init
<1>2. ~(Dedupe + 1 <= Dedupe)
  BY TimeAssumption
<1>3. AlertedIsRecorded
  BY <1>1, <1>2 DEF AlertedIsRecorded
<1> QED BY <1>3 DEF Init, AlertInv, AlertingIsNew

\* Steps that record nothing and alert nothing.
LEMMA QuietAlert ==
  ASSUME AlertInv, UNCHANGED <<incidents, lastAlert>>, alerting' \subseteq alerting
  PROVE  AlertInv'
<1>1. AlertingIsNew'
  BY DEF AlertInv, AlertingIsNew
<1>2. AlertedIsRecorded'
  BY DEF AlertInv, AlertedIsRecorded, IsAlerted
<1> QED BY <1>1, <1>2 DEF AlertInv

\* A commit adds incidents, and those of the sweep wait to be alerted.
LEMMA CommitAlert ==
  ASSUME TypeInv, AlertInv, NEW e \in Evaluators, Commit(e)
  PROVE  AlertInv'
<1>1. \A a \in Agents :
        /\ DOMAIN incidents[a] = 1 .. Len(incidents[a]) /\ Len(incidents[a]) \in Nat
        /\ DOMAIN incidents'[a] = 1 .. Len(incidents'[a]) /\ Len(incidents'[a]) \in Nat
        /\ \A k \in DOMAIN incidents[a] : k \in DOMAIN incidents'[a]
                                          /\ incidents'[a][k] = incidents[a][k]
        /\ (\E x \in pending[e] : x[1] = a) =>
              /\ Len(incidents'[a]) = Len(incidents[a]) + 1
              /\ incidents'[a][Len(incidents'[a])].age = 0
  BY CommitType
<1>2. \A x \in pending[e] : x[1] \in Agents
  BY DEF TypeInv, TypeOK
<1>3. lastAlert' = lastAlert
  BY DEF Commit
<1>4. \A z \in alerting' :
        \/ z \in alerting
        \/ /\ z[1] \in Agents /\ z[2] = Len(incidents'[z[1]]) /\ z[2] = Len(incidents[z[1]]) + 1
           /\ incidents'[z[1]][z[2]].age = 0
  <2>1. CASE e = Sweep
    <3>1. alerting' = {<<a, Len(incidents'[a])>> : a \in {x[1] : x \in pending[e]}}
      BY <2>1 DEF Commit
    <3>2. \A a \in {x[1] : x \in pending[e]} :
            /\ a \in Agents /\ Len(incidents'[a]) = Len(incidents[a]) + 1
            /\ incidents'[a][Len(incidents'[a])].age = 0
      BY <1>1, <1>2
    <3> QED BY <3>1, <3>2
  <2>2. CASE e # Sweep
    BY <2>2 DEF Commit
  <2> QED BY <2>1, <2>2
<1>5. AlertingIsNew'
  BY <1>1, <1>4, AlertTypes DEF AlertInv, AlertingIsNew
<1>6. ASSUME NEW a \in Agents, NEW r \in Reason, lastAlert'[<<a, r>>] <= Dedupe
      PROVE  \E i \in DOMAIN incidents'[a] : IsAlerted(a, r, i)'
  <2>1. PICK i \in DOMAIN incidents[a] : IsAlerted(a, r, i)
    BY <1>3, <1>6 DEF AlertInv, AlertedIsRecorded
  <2>2. i \in DOMAIN incidents'[a] /\ incidents'[a][i] = incidents[a][i] /\ i # Len(incidents[a]) + 1
    BY <1>1
  <2>3. <<a, i>> \notin alerting'
    BY <1>4, <2>1, <2>2 DEF IsAlerted
  <2> QED BY <1>3, <2>1, <2>2, <2>3 DEF IsAlerted
<1> QED BY <1>5, <1>6 DEF AlertInv, AlertedIsRecorded

\* The alert given, if one is, is of an incident just recorded, no duplicate of which
\* is on record.
LEMMA RouteIs ==
  ASSUME TypeInv, AlertInv, RouteAlert
  PROVE  \E x \in alerting :
           /\ x[1] \in Agents /\ x[2] \in DOMAIN incidents[x[1]]
           /\ alerting' = alerting \ {x}
           /\ incidents[x[1]][x[2]].age = 0 /\ incidents[x[1]][x[2]].reason \in Reason
           /\ \/ UNCHANGED lastAlert
              \/ /\ incidents[x[1]][x[2]].status = "recovered" /\ ~IsDuplicate(x[1], x[2])
                 /\ lastAlert' = [lastAlert EXCEPT ![<<x[1], incidents[x[1]][x[2]].reason>>] = 0]
<1>1. PICK x \in alerting :
        /\ alerting' = alerting \ {x}
        /\ \/ UNCHANGED lastAlert
           \/ /\ incidents[x[1]][x[2]].status # "suppressed" /\ ~IsDuplicate(x[1], x[2])
              /\ lastAlert' = [lastAlert EXCEPT ![<<x[1], incidents[x[1]][x[2]].reason>>] = 0]
  BY DEF RouteAlert
<1>2. /\ x[1] \in Agents /\ x[2] \in DOMAIN incidents[x[1]]
      /\ incidents[x[1]][x[2]].status \in {"suppressed", "recovered"}
      /\ incidents[x[1]][x[2]].reason \in Reason
  BY AlertTypes
<1>3. incidents[x[1]][x[2]].age = 0
  BY DEF AlertInv, AlertingIsNew
<1> QED BY <1>1, <1>2, <1>3

\* An alert leaves its incident on record.
LEMMA RouteKeeps == ASSUME TypeInv, AlertInv, RouteAlert PROVE AlertInv'
<1>1. PICK x \in alerting :
        /\ x[1] \in Agents /\ x[2] \in DOMAIN incidents[x[1]]
        /\ alerting' = alerting \ {x}
        /\ incidents[x[1]][x[2]].age = 0 /\ incidents[x[1]][x[2]].reason \in Reason
        /\ \/ UNCHANGED lastAlert
           \/ /\ incidents[x[1]][x[2]].status = "recovered"
              /\ lastAlert' = [lastAlert EXCEPT ![<<x[1], incidents[x[1]][x[2]].reason>>] = 0]
  BY RouteIs
<1>2. incidents' = incidents
  BY DEF RouteAlert, world
<1>3. AlertingIsNew'
  BY <1>1, <1>2 DEF AlertInv, AlertingIsNew
<1>4. CASE UNCHANGED lastAlert
  BY <1>1, <1>2, <1>4, QuietAlert
<1>5. CASE /\ incidents[x[1]][x[2]].status = "recovered"
           /\ lastAlert' = [lastAlert EXCEPT ![<<x[1], incidents[x[1]][x[2]].reason>>] = 0]
  <2>1. ASSUME NEW a \in Agents, NEW r \in Reason, lastAlert'[<<a, r>>] <= Dedupe
        PROVE  \E i \in DOMAIN incidents'[a] : IsAlerted(a, r, i)'
    <3>1. x = <<x[1], x[2]>> /\ lastAlert \in [Agents \X Reason -> 0 .. Dedupe + 1]
      BY AlertTypes DEF TypeInv, TypeOK
    <3>2. CASE <<a, r>> = <<x[1], incidents[x[1]][x[2]].reason>>
      <4>1. a = x[1] /\ r = incidents[x[1]][x[2]].reason
        BY <3>2
      <4>2. lastAlert'[<<a, r>>] = 0
        BY <1>1, <1>5, <3>1, <3>2
      <4>3. <<a, x[2]>> \notin alerting'
        BY <1>1, <3>1, <4>1
      <4>4. 0 <= 0
        OBVIOUS
      <4>5. IsAlerted(a, r, x[2])'
        BY <1>1, <1>2, <1>5, <4>1, <4>2, <4>3, <4>4 DEF IsAlerted
      <4> QED BY <1>1, <1>2, <4>1, <4>5
    <3>3. CASE <<a, r>> # <<x[1], incidents[x[1]][x[2]].reason>>
      <4>1. lastAlert'[<<a, r>>] = lastAlert[<<a, r>>]
        BY <1>5, <3>1, <3>3
      <4>2. PICK i \in DOMAIN incidents[a] : IsAlerted(a, r, i)
        BY <2>1, <4>1 DEF AlertInv, AlertedIsRecorded
      <4> QED BY <1>1, <1>2, <4>1, <4>2 DEF IsAlerted
    <3> QED BY <3>2, <3>3
  <2> QED BY <1>3, <2>1 DEF AlertInv, AlertedIsRecorded
<1> QED BY <1>1, <1>4, <1>5

\* The incident of an alert ages with the alert, and outlasts the window.
LEMMA TickAlert == ASSUME TypeInv, AlertInv, Tick PROVE AlertInv'
<1>1. alerting = {} /\ alerting' = {}
  BY DEF Tick, TypeInv, AlertsOfIncidents, Evaluators
<1>2. ASSUME NEW a \in Agents, NEW r \in Reason, lastAlert'[<<a, r>>] <= Dedupe
      PROVE  \E i \in DOMAIN incidents'[a] : IsAlerted(a, r, i)'
  <2>1. lastAlert[<<a, r>>] \in 0 .. Dedupe + 1 /\ <<a, r>> \in DOMAIN lastAlert
    BY AlertTypes DEF TypeInv, TypeOK
  <2>2. lastAlert'[<<a, r>>] = lastAlert[<<a, r>>] + 1 /\ lastAlert[<<a, r>>] + 1 <= Dedupe
    BY <1>2, <2>1, TimeAssumption DEF Tick
  <2>3. PICK i \in DOMAIN incidents[a] : IsAlerted(a, r, i)
    BY <2>1, <2>2, TimeAssumption DEF AlertInv, AlertedIsRecorded
  <2>4. /\ incidents[a] \in Seq(IncidentRecord) /\ InOrder(incidents[a])
        /\ incidents'[a] = Aged(incidents[a])
    BY DEF TypeInv, TypeOK, IncidentsInOrder, Tick
  <2>5. PICK n \in 0 .. Len(incidents[a]) :
          /\ \A k \in 1 .. Len(incidents[a]) : incidents[a][k].age >= Horizon <=> k <= n
          /\ Aged(incidents[a]) \in Seq(IncidentRecord)
          /\ Len(Aged(incidents[a])) = Len(incidents[a]) - n
          /\ \A k \in 1 .. Len(incidents[a]) - n :
               /\ k + n \in 1 .. Len(incidents[a])
               /\ Aged(incidents[a])[k].status = incidents[a][k + n].status
               /\ Aged(incidents[a])[k].reason = incidents[a][k + n].reason
               /\ Aged(incidents[a])[k].age = incidents[a][k + n].age + 1
    BY <2>4, AgedIs
  <2>6. i \in 1 .. Len(incidents[a]) /\ Len(incidents[a]) \in Nat /\ incidents[a][i].age \in Nat
    BY <2>4, RecordsOf, AlertTypes
  <2>7. incidents[a][i].age < Dedupe /\ incidents[a][i].age + 1 <= lastAlert'[<<a, r>>]
    <3>1. incidents[a][i].age <= lastAlert[<<a, r>>]
      BY <2>3 DEF IsAlerted
    <3>2. Dedupe \in Nat /\ lastAlert[<<a, r>>] \in Nat /\ incidents[a][i].age \in Nat
      BY <2>1, <2>6, TimeAssumption
    <3> QED BY <2>2, <3>1, <3>2
  <2>8. ~(i <= n)
    BY <2>5, <2>6, <2>7, HorizonCovers, TimeAssumption
  <2>9. i - n \in 1 .. Len(incidents[a]) - n /\ (i - n) + n = i
    BY <2>6, <2>8
  <2>10. /\ incidents'[a][i - n].status = incidents[a][i].status
         /\ incidents'[a][i - n].reason = incidents[a][i].reason
         /\ incidents'[a][i - n].age = incidents[a][i].age + 1
    BY <2>4, <2>5, <2>9
  <2>11. i - n \in DOMAIN incidents'[a]
    BY <2>4, <2>5, <2>9
  <2>12. IsAlerted(a, r, i - n)'
    BY <1>1, <2>3, <2>7, <2>10 DEF IsAlerted
  <2> QED BY <2>11, <2>12
<1> QED BY <1>1, <1>2 DEF AlertInv, AlertingIsNew, AlertedIsRecorded

\* Every step keeps them.
LEMMA NextAlert == TypeInv /\ AlertInv /\ [Next]_vars => AlertInv'
<1> SUFFICES ASSUME TypeInv, AlertInv, [Next]_vars PROVE AlertInv'
  OBVIOUS
<1>1. CASE UNCHANGED vars
  BY <1>1, QuietAlert DEF vars, world, sweep
<1>2. CASE StartSweep \/ AlertsDone \/ EndSweep
  BY <1>2, QuietAlert DEF StartSweep, AlertsDone, EndSweep, world, sweep
<1>3. CASE \E b \in Boards : SweepBoard(b)
  BY <1>3, QuietAlert DEF SweepBoard, world
<1>4. ASSUME NEW e \in Evaluators, Evaluate(e) PROVE AlertInv'
  <2>1. CASE Decide(e)
    BY <2>1, QuietAlert DEF Decide, world, sweep
  <2> QED BY <1>4, <2>1, CommitAlert DEF Evaluate
<1>5. CASE SweepFails \/ \E e \in Operators : RunFails(e)
  BY <1>5, QuietAlert DEF SweepFails, RunFails, world, sweep
<1>6. CASE \E e \in Operators, b \in Boards, force \in BOOLEAN : RunNow(e, b, force)
  BY <1>6, QuietAlert DEF RunNow, world, sweep
<1>7. CASE \E a \in Agents, h \in Health : HealthChanges(a, h)
  BY <1>7, QuietAlert DEF HealthChanges, sweep
<1> QED
  BY <1>1, <1>2, <1>3, <1>4, <1>5, <1>6, <1>7, RouteKeeps, TickAlert DEF Next, RunSweep, Evaluators

\* Only RouteAlert starts the time since an alert anew, and it finds a duplicate.
LEMMA StepSpaced ==
  TypeInv /\ AlertInv /\ [Next]_vars
    => [\A x \in Agents \X Reason :
          lastAlert'[x] = 0 /\ lastAlert[x] # 0 => lastAlert[x] > Dedupe]_vars
<1> SUFFICES ASSUME TypeInv, AlertInv, Next, NEW z \in Agents \X Reason,
                    lastAlert'[z] = 0, lastAlert[z] # 0, ~(lastAlert[z] > Dedupe)
             PROVE  FALSE
  OBVIOUS
<1>1. PICK a \in Agents, r \in Reason : z = <<a, r>>
  OBVIOUS
<1>2. lastAlert[z] \in 0 .. Dedupe + 1
  BY <1>1, AlertTypes
<1>3. CASE Tick
  BY <1>2, <1>3 DEF Tick, TypeInv, TypeOK
<1>4. CASE RouteAlert
  <2>1. PICK x \in alerting :
          /\ x[1] \in Agents /\ x[2] \in DOMAIN incidents[x[1]]
          /\ \/ UNCHANGED lastAlert
             \/ /\ incidents[x[1]][x[2]].status = "recovered" /\ ~IsDuplicate(x[1], x[2])
                /\ lastAlert' = [lastAlert EXCEPT ![<<x[1], incidents[x[1]][x[2]].reason>>] = 0]
    BY <1>4, RouteIs
  <2>2. /\ incidents[x[1]][x[2]].status = "recovered" /\ ~IsDuplicate(x[1], x[2])
        /\ <<a, r>> = <<x[1], incidents[x[1]][x[2]].reason>>
    BY <1>1, <2>1 DEF TypeInv, TypeOK
  <2>3. a = x[1] /\ r = incidents[x[1]][x[2]].reason /\ x = <<x[1], x[2]>>
    BY <2>2, AlertTypes
  <2>4. PICK i \in DOMAIN incidents[a] : IsAlerted(a, r, i)
    BY <1>1, <1>2, TimeAssumption DEF AlertInv, AlertedIsRecorded
  <2>5. i # x[2]
    BY <2>3, <2>4 DEF IsAlerted
  <2>6. incidents[a][i].age <= Dedupe
    BY <1>1, <1>2, <2>4, AlertTypes, TimeAssumption DEF IsAlerted
  <2> QED BY <2>2, <2>3, <2>4, <2>5, <2>6 DEF IsDuplicate, IsAlerted
<1>5. CASE ~Tick /\ ~RouteAlert
  <2>1. lastAlert' = lastAlert
    BY <1>5 DEF Next, RunSweep, Evaluate, StartSweep, SweepBoard, Decide, Commit, AlertsDone, EndSweep,
                SweepFails, RunFails, RunNow, HealthChanges
  <2> QED BY <2>1
<1> QED BY <1>3, <1>4, <1>5

\* The owner is not alerted twice of the same agent and reason within the dedupe
\* window, whoever evaluates and whatever is suppressed in between.
THEOREM AlertsAreSpaced == Spec => AlertsSpaced
BY InitType, InitAlert, NextType, NextAlert, StepSpaced, PTL DEF Spec, AlertsSpaced
-------------------------------------------------------------------------------
(***************************************************************************)
(* RestartsBounded: a restart under way counts from its decision on.       *)
(***************************************************************************)
\* The restarts of the last hour among some incidents.
RestartsIn(s) == {i \in DOMAIN s : s[i].status = "recovered" /\ s[i].age <= Hour}

\* There are finitely many.
LEMMA RestartsFinite ==
  ASSUME NEW s \in Seq(IncidentRecord)
  PROVE  IsFiniteSet(RestartsIn(s)) /\ Cardinality(RestartsIn(s)) \in Nat
<1>1. 1 \in Int /\ Len(s) \in Int
  BY RecordsOf
<1>2. IsFiniteSet(1 .. Len(s))
  BY <1>1, FS_Interval
<1>3. RestartsIn(s) \in SUBSET (1 .. Len(s))
  BY RecordsOf DEF RestartsIn
<1> QED BY <1>2, <1>3, FS_Subset, FS_CardinalityType

\* A new incident is at most one more.
LEMMA AppendRestarts ==
  ASSUME NEW s \in Seq(IncidentRecord), InOrder(s), NEW i \in IncidentRecord, i.age = 0
  PROVE  Cardinality(RestartsIn(Append(s, i)))
           <= Cardinality(RestartsIn(s)) + (IF i.status = "recovered" THEN 1 ELSE 0)
<1>1. /\ Append(s, i) \in Seq(IncidentRecord)
      /\ DOMAIN Append(s, i) = 1 .. Len(s) + 1
      /\ \A k \in 1 .. Len(s) : Append(s, i)[k] = s[k]
      /\ Append(s, i)[Len(s) + 1] = i
  BY AppendInOrder
<1>2. DOMAIN s = 1 .. Len(s) /\ Len(s) \in Nat
  BY RecordsOf
<1>3. \A k \in 1 .. Len(s) + 1 : k \in 1 .. Len(s) \/ k = Len(s) + 1
  BY <1>2
<1>4. IsFiniteSet(RestartsIn(s)) /\ Cardinality(RestartsIn(s)) \in Nat
  BY RestartsFinite
<1>5. IsFiniteSet(RestartsIn(Append(s, i))) /\ Cardinality(RestartsIn(Append(s, i))) \in Nat
  BY <1>1, RestartsFinite
<1>6. CASE i.status = "recovered"
  <2>1. RestartsIn(Append(s, i)) \in SUBSET (RestartsIn(s) \cup {Len(s) + 1})
    BY <1>1, <1>2, <1>3 DEF RestartsIn
  <2>2. /\ IsFiniteSet(RestartsIn(s) \cup {Len(s) + 1})
        /\ Cardinality(RestartsIn(s) \cup {Len(s) + 1})
             = IF Len(s) + 1 \in RestartsIn(s) THEN Cardinality(RestartsIn(s))
                                               ELSE Cardinality(RestartsIn(s)) + 1
    BY <1>4, FS_AddElement
  <2>3. Cardinality(RestartsIn(Append(s, i))) <= Cardinality(RestartsIn(s) \cup {Len(s) + 1})
    BY <2>1, <2>2, FS_Subset
  <2>4. /\ Cardinality(RestartsIn(s) \cup {Len(s) + 1}) <= Cardinality(RestartsIn(s)) + 1
        /\ Cardinality(RestartsIn(s) \cup {Len(s) + 1}) \in Nat
    BY <1>4, <2>2
  <2> QED BY <1>4, <1>5, <1>6, <2>3, <2>4
<1>7. CASE i.status # "recovered"
  <2>1. RestartsIn(Append(s, i)) \in SUBSET RestartsIn(s)
    BY <1>1, <1>2, <1>3, <1>7 DEF RestartsIn
  <2>2. Cardinality(RestartsIn(Append(s, i))) <= Cardinality(RestartsIn(s))
    BY <1>4, <2>1, FS_Subset
  <2> QED BY <1>4, <1>5, <1>7, <2>2
<1> QED BY <1>6, <1>7

\* Time only takes restarts out of the hour.
LEMMA AgedRestarts ==
  ASSUME NEW s \in Seq(IncidentRecord), InOrder(s)
  PROVE  Cardinality(RestartsIn(Aged(s))) <= Cardinality(RestartsIn(s))
<1>1. PICK n \in 0 .. Len(s) :
        /\ Aged(s) \in Seq(IncidentRecord) /\ Len(Aged(s)) = Len(s) - n
        /\ \A k \in 1 .. Len(s) - n :
             /\ k + n \in 1 .. Len(s)
             /\ Aged(s)[k].status = s[k + n].status
             /\ Aged(s)[k].age = s[k + n].age + 1
  BY AgedIs
<1>2. DOMAIN Aged(s) = 1 .. Len(s) - n /\ Len(s) \in Nat /\ DOMAIN s = 1 .. Len(s)
  BY <1>1, RecordsOf
<1> DEFINE earlier == [k \in RestartsIn(Aged(s)) |-> k + n]
<1>3. ASSUME NEW k \in RestartsIn(Aged(s)) PROVE k \in Nat /\ k + n \in RestartsIn(s)
  <2>1. k \in 1 .. Len(s) - n /\ Aged(s)[k].status = "recovered" /\ Aged(s)[k].age <= Hour
    BY <1>2 DEF RestartsIn
  <2>2. k + n \in 1 .. Len(s) /\ s[k + n].status = "recovered" /\ s[k + n].age + 1 <= Hour
    BY <1>1, <2>1
  <2>3. s[k + n].age \in Nat
    BY <2>2, RecordsOf
  <2>4. s[k + n].age <= Hour
    BY <2>2, <2>3, TimeAssumption
  <2> QED BY <1>2, <2>1, <2>2, <2>4 DEF RestartsIn
<1>4. earlier \in [RestartsIn(Aged(s)) -> RestartsIn(s)]
  BY <1>3
<1>5. \A k, m \in RestartsIn(Aged(s)) : earlier[k] = earlier[m] => k = m
  BY <1>1, <1>3
<1>6. earlier \in Injection(RestartsIn(Aged(s)), RestartsIn(s))
  BY <1>4, <1>5 DEF Injection, IsInjective
<1>7. IsFiniteSet(RestartsIn(s))
  BY RestartsFinite
<1> QED BY <1>6, <1>7, FS_Injection

\* The evaluations under way are finitely many, at most one of them the sweep.
LEMMA RestartingFinite ==
  ASSUME NEW a
  PROVE  /\ IsFiniteSet(Restarting(a)) /\ Cardinality(Restarting(a)) \in Nat
         /\ Cardinality(Restarting(a)) <= Cardinality(Operators) + 1
         /\ IsFiniteSet(Restarting(a)') /\ Cardinality(Restarting(a)') \in Nat
         /\ Cardinality(Restarting(a)') <= Cardinality(Operators) + 1
         /\ Cardinality(Operators) \in Nat
<1>1. /\ IsFiniteSet(Evaluators) /\ Cardinality(Evaluators) = Cardinality(Operators) + 1
      /\ Cardinality(Operators) \in Nat
  BY EvaluatorsAssumption, FS_AddElement, FS_CardinalityType DEF Evaluators
<1>2. \A S \in SUBSET Evaluators :
        IsFiniteSet(S) /\ Cardinality(S) \in Nat /\ Cardinality(S) <= Cardinality(Operators) + 1
  BY <1>1, FS_Subset, FS_CardinalityType
<1>3. Restarting(a) \in SUBSET Evaluators /\ Restarting(a)' \in SUBSET Evaluators
  BY DEF Restarting
<1> QED BY <1>1, <1>2, <1>3

\* What the bound says of one agent.
WithinLimit(a) ==
    Cardinality(RestartsIn(incidents[a])) + Cardinality(Restarting(a))
        <= MaxRestarts + Cardinality(Operators)

\* The restarts of an agent, before and after a step.
LEMMA RestartTypes ==
  ASSUME TypeInv, TypeInv', NEW a \in Agents
  PROVE  /\ Attempts(a) = RestartsIn(incidents[a]) /\ Attempts(a)' = RestartsIn(incidents'[a])
         /\ Cardinality(RestartsIn(incidents[a])) \in Nat
         /\ Cardinality(RestartsIn(incidents'[a])) \in Nat
         /\ Cardinality(Restarting(a)) \in Nat /\ Cardinality(Restarting(a)') \in Nat
         /\ Cardinality(Operators) \in Nat /\ MaxRestarts \in Nat
<1>1. incidents[a] \in Seq(IncidentRecord) /\ incidents'[a] \in Seq(IncidentRecord)
  BY DEF TypeInv, TypeOK
<1>2. Attempts(a) = RestartsIn(incidents[a]) /\ Attempts(a)' = RestartsIn(incidents'[a])
  BY DEF Attempts, RestartsIn
<1> QED BY <1>1, <1>2, RestartsFinite, RestartingFinite, TimeAssumption

\* Steps that commit and decide no restart.
LEMMA QuietLimit ==
  ASSUME TypeInv, TypeInv', NEW a \in Agents, WithinLimit(a),
         Cardinality(RestartsIn(incidents'[a])) <= Cardinality(RestartsIn(incidents[a])),
         \A e \in Evaluators : pending'[e] \subseteq pending[e]
  PROVE  WithinLimit(a)'
<1>1. Restarting(a)' \in SUBSET Restarting(a)
  BY DEF Restarting
<1>2. Cardinality(Restarting(a)') <= Cardinality(Restarting(a))
  BY <1>1, RestartingFinite, FS_Subset
<1>3. /\ Cardinality(RestartsIn(incidents[a])) \in Nat
      /\ Cardinality(RestartsIn(incidents'[a])) \in Nat
      /\ Cardinality(Restarting(a)) \in Nat /\ Cardinality(Restarting(a)') \in Nat
      /\ Cardinality(Operators) \in Nat /\ MaxRestarts \in Nat
  BY RestartTypes
<1> QED BY <1>2, <1>3 DEF WithinLimit

\* The last to decide a restart saw fewer than the limit, and the evaluations under
\* way are as many as there are.
LEMMA DecideLimit ==
  ASSUME TypeInv, TypeInv', NEW e \in Evaluators, Decide(e), NEW a \in Agents, WithinLimit(a)
  PROVE  WithinLimit(a)'
<1>1. \E x \in plan[e] : \E i \in IncidentRecord :
        /\ x[1] \in Agents /\ i.age = 0 /\ i.status \in {"suppressed", "recovered"}
        /\ i.status = "recovered" => ~(Cardinality(Attempts(x[1])) >= MaxRestarts)
        /\ plan' = [plan EXCEPT ![e] = @ \ {x}]
        /\ pending' = [pending EXCEPT ![e] = @ \cup {<<x[1], i>>}]
  BY DecideIs
<1>2. PICK x \in plan[e] : \E i \in IncidentRecord :
        /\ i.status = "recovered" => ~(Cardinality(Attempts(x[1])) >= MaxRestarts)
        /\ pending' = [pending EXCEPT ![e] = @ \cup {<<x[1], i>>}]
  BY <1>1
<1>3. PICK i \in IncidentRecord :
        /\ i.status = "recovered" => ~(Cardinality(Attempts(x[1])) >= MaxRestarts)
        /\ pending' = [pending EXCEPT ![e] = @ \cup {<<x[1], i>>}]
  BY <1>2
<1>4. incidents' = incidents /\ pending \in [Evaluators -> SUBSET (Agents \X IncidentRecord)]
  BY DEF Decide, world, TypeInv, TypeOK
<1>5. /\ Cardinality(RestartsIn(incidents[a])) \in Nat
      /\ Cardinality(Restarting(a)) \in Nat /\ Cardinality(Restarting(a)') \in Nat
      /\ Cardinality(Operators) \in Nat /\ MaxRestarts \in Nat
      /\ Attempts(a) = RestartsIn(incidents[a])
  BY RestartTypes
<1>6. CASE i.status = "recovered" /\ x[1] = a
  <2>1. ~(Cardinality(RestartsIn(incidents[a])) >= MaxRestarts)
    BY <1>3, <1>5, <1>6
  <2>2. Cardinality(Restarting(a)') <= Cardinality(Operators) + 1
    BY RestartingFinite
  <2> QED BY <1>4, <1>5, <2>1, <2>2 DEF WithinLimit
<1>7. CASE ~(i.status = "recovered" /\ x[1] = a)
  <2>1. \A d \in Evaluators : \A y \in pending'[d] :
          y \in pending[d] \/ ~(y[1] = a /\ y[2].status = "recovered")
    BY <1>3, <1>4, <1>7
  <2>2. Restarting(a)' \in SUBSET Restarting(a)
    BY <2>1 DEF Restarting
  <2>3. Cardinality(Restarting(a)') <= Cardinality(Restarting(a))
    BY <2>2, RestartingFinite, FS_Subset
  <2> QED BY <1>4, <1>5, <2>3 DEF WithinLimit
<1> QED BY <1>6, <1>7

\* A restart committed is no longer under way.
LEMMA CommitLimit ==
  ASSUME TypeInv, TypeInv', NEW e \in Evaluators, Commit(e), NEW a \in Agents, WithinLimit(a)
  PROVE  WithinLimit(a)'
<1>1. /\ \A d \in Evaluators : pending'[d] \subseteq pending[d]
      /\ pending'[e] = {}
  BY DEF Commit, TypeInv, TypeOK
<1>2. /\ Cardinality(RestartsIn(incidents[a])) \in Nat
      /\ Cardinality(RestartsIn(incidents'[a])) \in Nat
      /\ Cardinality(Restarting(a)) \in Nat /\ Cardinality(Restarting(a)') \in Nat
      /\ Cardinality(Operators) \in Nat /\ MaxRestarts \in Nat
  BY RestartTypes
<1>3. incidents[a] \in Seq(IncidentRecord) /\ InOrder(incidents[a])
  BY DEF TypeInv, TypeOK, IncidentsInOrder
<1>4. CASE incidents'[a] = incidents[a]
  BY <1>1, <1>2, <1>4, QuietLimit
<1>5. CASE incidents'[a] # incidents[a]
  <2>1. PICK i \in IncidentRecord :
          <<a, i>> \in pending[e] /\ incidents'[a] = Append(incidents[a], i)
    BY <1>5, CommitIs
  <2>2. i.age = 0
    BY <2>1 DEF TypeInv, PendingIsNew
  <2>3. Cardinality(RestartsIn(incidents'[a]))
          <= Cardinality(RestartsIn(incidents[a])) + (IF i.status = "recovered" THEN 1 ELSE 0)
    BY <1>3, <2>1, <2>2, AppendRestarts
  <2>4. CASE i.status # "recovered"
    BY <1>1, <1>2, <2>3, <2>4, QuietLimit
  <2>5. CASE i.status = "recovered"
    <3>1. e \in Restarting(a)
      BY <2>1, <2>5 DEF Restarting
    <3>2. Restarting(a)' \in SUBSET (Restarting(a) \ {e})
      BY <1>1 DEF Restarting
    <3>3. /\ IsFiniteSet(Restarting(a) \ {e})
          /\ Cardinality(Restarting(a) \ {e}) = Cardinality(Restarting(a)) - 1
      BY <3>1, RestartingFinite, FS_RemoveElement
    <3>4. Cardinality(Restarting(a)') <= Cardinality(Restarting(a) \ {e})
      BY <3>2, <3>3, FS_Subset
    <3> QED BY <1>2, <2>3, <2>5, <3>3, <3>4 DEF WithinLimit
  <2> QED BY <2>4, <2>5
<1> QED BY <1>4, <1>5

\* Every step keeps within the limit.
LEMMA NextLimit == TypeInv /\ TypeInv' /\ RestartsUnderWay /\ [Next]_vars => RestartsUnderWay'
<1> SUFFICES ASSUME TypeInv, TypeInv', RestartsUnderWay, [Next]_vars, NEW a \in Agents
             PROVE  WithinLimit(a)'
  BY RestartTypes DEF RestartsUnderWay, WithinLimit
<1>0. /\ WithinLimit(a)
      /\ Cardinality(RestartsIn(incidents[a])) \in Nat
      /\ pending \in [Evaluators -> SUBSET (Agents \X IncidentRecord)]
      /\ Sweep \in Evaluators /\ Operators \subseteq Evaluators
  BY RestartTypes DEF RestartsUnderWay, WithinLimit, TypeInv, TypeOK, Evaluators
<1>1. CASE /\ incidents' = incidents
           /\ \A e \in Evaluators : pending'[e] \subseteq pending[e]
  BY <1>0, <1>1, QuietLimit
<1>2. CASE UNCHANGED vars
  BY <1>1, <1>2 DEF vars, world, local
<1>3. CASE StartSweep \/ RouteAlert \/ AlertsDone \/ EndSweep
  BY <1>1, <1>3 DEF StartSweep, RouteAlert, AlertsDone, EndSweep, world, local
<1>4. CASE \E b \in Boards : SweepBoard(b)
  BY <1>0, <1>1, <1>4 DEF SweepBoard, Snapshot, world
<1>5. CASE SweepFails
  BY <1>0, <1>1, <1>5 DEF SweepFails, Forget, world
<1>6. CASE \E e \in Operators : RunFails(e)
  BY <1>0, <1>1, <1>6 DEF RunFails, Forget, world
<1>7. CASE \E e \in Operators, b \in Boards, force \in BOOLEAN : RunNow(e, b, force)
  BY <1>0, <1>1, <1>7 DEF RunNow, Snapshot, world
<1>8. CASE \E h \in Health, b \in Agents : HealthChanges(b, h)
  BY <1>1, <1>8 DEF HealthChanges, local
<1>9. CASE Tick
  <2>1. incidents'[a] = Aged(incidents[a]) /\ pending' = pending
    BY <1>9 DEF Tick, local
  <2>2. incidents[a] \in Seq(IncidentRecord) /\ InOrder(incidents[a])
    BY DEF TypeInv, TypeOK, IncidentsInOrder
  <2>3. Cardinality(RestartsIn(incidents'[a])) <= Cardinality(RestartsIn(incidents[a]))
    BY <2>1, <2>2, AgedRestarts
  <2> QED BY <1>0, <2>1, <2>3, QuietLimit
<1>10. ASSUME NEW e \in Evaluators, Evaluate(e) PROVE WithinLimit(a)'
  BY <1>0, <1>10, DecideLimit, CommitLimit DEF Evaluate
<1> QED
  BY <1>0, <1>2, <1>3, <1>4, <1>5, <1>6, <1>7, <1>8, <1>9, <1>10 DEF Next, RunSweep

\* Nothing was restarted and nothing is under way at first.
LEMMA InitLimit == Init => RestartsUnderWay
<1> SUFFICES ASSUME Init, NEW a \in Agents
             PROVE  Cardinality(Attempts(a)) + Cardinality(Restarting(a))
                      <= MaxRestarts + Cardinality(Operators)
  BY DEF RestartsUnderWay
<1>1. Attempts(a) = {} /\ Restarting(a) = {}
  BY DEF Init, Attempts, Restarting
<1>2. Cardinality({}) = 0
  BY FS_EmptySet
<1>3. Cardinality(Operators) \in Nat /\ MaxRestarts \in Nat
  BY RestartingFinite, TimeAssumption
<1> QED BY <1>1, <1>2, <1>3

\* What is committed alone is within the bound.
LEMMA UnderWayBounds == TypeInv /\ RestartsUnderWay => RestartsBounded
<1> SUFFICES ASSUME TypeInv, RestartsUnderWay, NEW a \in Agents
             PROVE  Cardinality(Attempts(a)) <= MaxRestarts + Cardinality(Operators)
  BY DEF RestartsBounded, Attempts
<1>1. Attempts(a) = RestartsIn(incidents[a]) /\ incidents[a] \in Seq(IncidentRecord)
  BY DEF Attempts, RestartsIn, TypeInv, TypeOK
<1>2. /\ Cardinality(Attempts(a)) \in Nat /\ Cardinality(Restarting(a)) \in Nat
      /\ Cardinality(Operators) \in Nat /\ MaxRestarts \in Nat
  BY <1>1, RestartsFinite, RestartingFinite, TimeAssumption
<1>3. Cardinality(Attempts(a)) + Cardinality(Restarting(a)) <= MaxRestarts + Cardinality(Operators)
  BY DEF RestartsUnderWay
<1> QED BY <1>2, <1>3

\* However many evaluations overlap, an agent is restarted at most as often in an hour
\* as the policy allows, and once more for each operator.
THEOREM RestartsAreBounded == Spec => []RestartsBounded
BY InitType, InitLimit, NextType, NextLimit, UnderWayBounds, PTL DEF Spec
=============================================================================
