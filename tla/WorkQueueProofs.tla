--------------------------- MODULE WorkQueueProofs ---------------------------
(***************************************************************************)
(* What holds of the work queue for every set of jobs and workers, every   *)
(* retry limit and every number of faults, and that it implements the      *)
(* abstract job of AtLeastOnce.                                            *)
(***************************************************************************)
EXTENDS WorkQueue, OrderLemmas

PC == {"loop", "select", "push", "remove", "pop", "handle", "requeue"}

\* What Redis and a drain hold is finite: a batch can be put in order.
BatchesFinite == IsFiniteSet(scheduled) /\ \A w \in Workers : IsFiniteSet(ready[w])

TypeInv == TypeOK /\ BatchesFinite

\* A job that has not been pushed yet is nowhere and has no outcome.
FreshIsNowhere ==
    \A j \in Jobs : ingest[j] \in {"new", "stored"} =>
        j \notin Settled /\ ~Somewhere(j) /\ \A w \in Workers : \A e \in ready[w] : e.job # j

\* A copy of j on its n-th retry is pushed or popped, or a later retry is scheduled.
Beyond(j, n) ==
    \/ \E e \in Range(queue) : e.job = j /\ e.attempts >= n
    \/ \E w \in Workers : hand[w] # NoJob /\ hand[w].job = j /\ hand[w].attempts >= n
    \/ \E e \in scheduled : e.job = j /\ e.attempts > n

\* What a drain has pushed, and is about to remove from the sorted set, is there
\* beyond that set, has its outcome, or was lost to a fault.
PushedGoesOn ==
    \A w \in Workers : pc[w] = "remove" =>
        \A e \in ready[w] : e.job \in Settled \cup lost \/ Beyond(e.job, e.attempts)

LossInv == FreshIsNowhere /\ PushedGoesOn /\ NothingLost

\* An envelope has as many attempts as its job has failed, or fewer: a copy may
\* have failed as well.
AttemptsFailed ==
    /\ \A e \in Range(queue) \cup scheduled \cup UNION {ready[w] : w \in Workers} :
           failures[e.job] >= e.attempts
    /\ \A w \in Workers : hand[w] # NoJob =>
           failures[hand[w].job] >= hand[w].attempts + (IF pc[w] = "requeue" THEN 1 ELSE 0)

RetryInv == AttemptsFailed /\ GivenUpAfterRetries

\* Two drains hold the same envelope, or a drain one that is no longer scheduled,
\* only when they overlapped.
DrainsApart ==
    \A v, w \in Workers : v # w => \A e \in ready[v] \cap ready[w] : e.job \in torn
ReadIsScheduled ==
    \A w \in Workers : \A e \in ready[w] : e.job \in torn \/ e \in scheduled

\* No two copies of j, and none once it is settled.
AtMostOne(j) ==
    /\ \A i, k \in InList(j) : i = k
    /\ \A e, f \in InSet(j) : e = f
    /\ \A v, w \in InHand(j) : v = w
    /\ InList(j) = {} \/ InSet(j) = {}
    /\ InList(j) = {} \/ InHand(j) = {}
    /\ InSet(j) = {} \/ InHand(j) = {}
    /\ j \in Settled => InList(j) = {} /\ InSet(j) = {} /\ InHand(j) = {}

CopyInv == DrainsApart /\ ReadIsScheduled /\ \A j \in Jobs \ torn : AtMostOne(j)
-----------------------------------------------------------------------------
(***************************************************************************)
(* Lemmas about the list                                                   *)
(***************************************************************************)
\* A pushed envelope joins those of the list.
LEMMA AppendRange ==
  ASSUME NEW S, NEW q \in Seq(S), NEW e \in S
  PROVE  /\ Append(q, e) \in Seq(S)
         /\ Range(Append(q, e)) = Range(q) \cup {e}
<1>1. /\ Append(q, e) \in Seq(S) /\ Len(q) \in Nat
      /\ DOMAIN q = 1 .. Len(q)
      /\ DOMAIN Append(q, e) = 1 .. Len(q) + 1
      /\ \A i \in 1 .. Len(q) : Append(q, e)[i] = q[i]
      /\ Append(q, e)[Len(q) + 1] = e
  OBVIOUS
<1>2. \A i \in 1 .. Len(q) + 1 : i \in 1 .. Len(q) \/ i = Len(q) + 1
  BY <1>1
<1>3. 1 .. Len(q) \subseteq 1 .. Len(q) + 1 /\ Len(q) + 1 \in 1 .. Len(q) + 1
  BY <1>1
<1> QED
  BY <1>1, <1>2, <1>3, Zenon DEF Range

\* A pop takes the first envelope and leaves the others.
LEMMA TailRange ==
  ASSUME NEW S, NEW q \in Seq(S), q # <<>>
  PROVE  /\ Head(q) \in S /\ Tail(q) \in Seq(S)
         /\ Range(q) = {Head(q)} \cup Range(Tail(q))
<1>1. /\ Head(q) \in S /\ Tail(q) \in Seq(S) /\ Len(q) \in Nat \ {0}
      /\ DOMAIN q = 1 .. Len(q) /\ Head(q) = q[1]
      /\ DOMAIN Tail(q) = 1 .. Len(q) - 1
      /\ \A i \in 1 .. Len(q) - 1 : Tail(q)[i] = q[i + 1]
  OBVIOUS
<1>2. \A i \in 1 .. Len(q) : i = 1 \/ (i - 1 \in 1 .. Len(q) - 1 /\ (i - 1) + 1 = i)
  BY <1>1
<1>3. 1 \in 1 .. Len(q) /\ \A i \in 1 .. Len(q) - 1 : i + 1 \in 1 .. Len(q)
  BY <1>1
<1>4. ASSUME NEW e \in Range(q) PROVE e \in {Head(q)} \cup Range(Tail(q))
  <2>1. PICK i \in 1 .. Len(q) : e = q[i]
    BY <1>1 DEF Range
  <2>2. CASE i = 1
    BY <1>1, <2>1, <2>2
  <2>3. CASE i - 1 \in 1 .. Len(q) - 1 /\ (i - 1) + 1 = i
    BY <1>1, <2>1, <2>3 DEF Range
  <2> QED BY <1>2, <2>2, <2>3
<1>5. ASSUME NEW e \in {Head(q)} \cup Range(Tail(q)) PROVE e \in Range(q)
  BY <1>1, <1>3, <1>5 DEF Range
<1> QED BY <1>1, <1>4, <1>5

\* A batch pushed in any order joins the list, each envelope once.
LEMMA BatchRange ==
  ASSUME NEW S, NEW q \in Seq(S), NEW T \in SUBSET S, IsFiniteSet(T),
         NEW batch \in SetToSeqs(T)
  PROVE  /\ batch \in Seq(S)
         /\ \A i, k \in DOMAIN batch : batch[i] = batch[k] => i = k
         /\ Range(batch) = T
         /\ q \o batch \in Seq(S)
         /\ Range(q \o batch) = Range(q) \cup T
<1> DEFINE D == 1 .. Cardinality(T)
<1>1. Cardinality(T) \in Nat /\ IsFiniteSet(D) /\ Cardinality(D) = Cardinality(T)
  <2>1. Cardinality(T) \in Nat
    BY FS_CardinalityType
  <2>2. IsFiniteSet(D) /\ Cardinality(D) = IF 1 > Cardinality(T) THEN 0 ELSE Cardinality(T) - 1 + 1
    <3>1. 1 \in Int /\ Cardinality(T) \in Int
      BY <2>1
    <3> HIDE <2>1
    <3> QED BY <3>1, FS_Interval
  <2> QED BY <2>1, <2>2
<1>2. batch \in [D -> T] /\ \A i, k \in D : i # k => batch[i] # batch[k]
  BY DEF SetToSeqs
<1>3. batch \in Surjection(D, T)
  <2>1. batch \in Injection(D, T)
    BY <1>2 DEF Injection, IsInjective
  <2> QED BY <1>1, <2>1, FS_Injection
<1>4. batch \in Seq(S) /\ Len(batch) = Cardinality(T) /\ DOMAIN batch = D
  BY <1>1, <1>2
<1>5. Range(batch) = T
  BY <1>2, <1>3 DEF Surjection, Range
<1>6. /\ q \o batch \in Seq(S) /\ Len(q) \in Nat
      /\ DOMAIN q = 1 .. Len(q)
      /\ DOMAIN (q \o batch) = 1 .. Len(q) + Len(batch)
      /\ \A i \in 1 .. Len(q) : (q \o batch)[i] = q[i]
      /\ \A i \in 1 .. Len(batch) : (q \o batch)[Len(q) + i] = batch[i]
  BY <1>4
<1>7. ASSUME NEW e \in Range(q \o batch) PROVE e \in Range(q) \cup T
  <2>1. PICK i \in 1 .. Len(q) + Len(batch) : e = (q \o batch)[i]
    BY <1>6 DEF Range
  <2>2. CASE i \in 1 .. Len(q)
    BY <1>6, <2>1, <2>2 DEF Range
  <2>3. CASE i \notin 1 .. Len(q)
    <3>1. i - Len(q) \in 1 .. Len(batch) /\ Len(q) + (i - Len(q)) = i
      BY <1>1, <1>4, <1>6, <2>3
    <3> QED BY <1>2, <1>4, <1>6, <2>1, <3>1
  <2> QED BY <2>2, <2>3
<1>8. ASSUME NEW e \in Range(q) \cup T PROVE e \in Range(q \o batch)
  <2>1. CASE e \in Range(q)
    <3>1. PICK i \in 1 .. Len(q) : e = q[i]
      BY <1>6, <2>1 DEF Range
    <3>2. i \in 1 .. Len(q) + Len(batch)
      BY <1>1, <1>4, <1>6
    <3> QED BY <1>6, <3>1, <3>2 DEF Range
  <2>2. CASE e \in T
    <3>1. PICK i \in 1 .. Len(batch) : e = batch[i]
      BY <1>4, <1>5, <2>2 DEF Range
    <3>2. Len(q) + i \in 1 .. Len(q) + Len(batch)
      BY <1>1, <1>4, <1>6
    <3> QED BY <1>6, <3>1, <3>2 DEF Range
  <2> QED BY <1>8, <2>1, <2>2
<1> QED BY <1>2, <1>4, <1>5, <1>6, <1>7, <1>8

\* An envelope to be tried again is its job's, with one more attempt.
LEMMA RetriedEnvelope ==
  ASSUME NEW h \in Envelope
  PROVE  LET e == [h EXCEPT !.attempts = @ + 1]
         IN  /\ e.job = h.job /\ h.job \in Jobs
             /\ h.attempts \in Nat /\ e.attempts = h.attempts + 1
             /\ ~(e.attempts > MaxRetries) => e \in Envelope
<1>1. h.job \in Jobs /\ h.attempts \in 0 .. MaxRetries
  BY DEF Envelope
<1>2. [h EXCEPT !.attempts = @ + 1] = [job |-> h.job, attempts |-> h.attempts + 1]
  BY DEF Envelope
<1>3. ~(h.attempts + 1 > MaxRetries) => h.attempts + 1 \in 0 .. MaxRetries
  BY <1>1, MaxRetriesAssumption
<1> QED BY <1>1, <1>2, <1>3, MaxRetriesAssumption DEF Envelope
-----------------------------------------------------------------------------
(***************************************************************************)
(* Types                                                                   *)
(***************************************************************************)
\* Nothing is stored, held or queued at first.
LEMMA InitType == Init => TypeInv
<1> SUFFICES ASSUME Init PROVE TypeInv
  OBVIOUS
<1>1. IsFiniteSet({})
  BY FS_EmptySet
<1> QED
  BY <1>1, MaxFaultsAssumption, NoJobAssumption DEF Init, TypeInv, TypeOK, BatchesFinite

\* What a worker forgets leaves its hands empty.
LEMMA ForgetType ==
  ASSUME TypeInv, NEW w \in Workers, Forget(w), UNCHANGED redis,
         NEW label \in {"loop", "select"}, Goto(w, label)
  PROVE  /\ pc' \in [Workers -> PC] /\ ending' \in [Workers -> BOOLEAN]
         /\ ready' \in [Workers -> SUBSET Envelope]
         /\ hand' \in [Workers -> Envelope \cup {NoJob}]
         /\ \A v \in Workers : /\ hand'[v] # NoJob <=> pc'[v] \in {"handle", "requeue"}
                               /\ ready'[v] # {} <=> pc'[v] \in {"push", "remove"}
         /\ lost' \subseteq Jobs /\ torn' \subseteq Jobs
         /\ BatchesFinite'
<1> USE DEF TypeInv, TypeOK, Forget, Goto, PC
<1>1. /\ pc' \in [Workers -> PC] /\ ending' \in [Workers -> BOOLEAN]
      /\ ready' \in [Workers -> SUBSET Envelope]
      /\ hand' \in [Workers -> Envelope \cup {NoJob}]
  OBVIOUS
<1>2. \A v \in Workers : /\ hand'[v] # NoJob <=> pc'[v] \in {"handle", "requeue"}
                         /\ ready'[v] # {} <=> pc'[v] \in {"push", "remove"}
  OBVIOUS
<1>3. lost' \subseteq Jobs /\ torn' \subseteq Jobs
  BY DEF Envelope
<1>4. BatchesFinite'
  BY FS_EmptySet DEF BatchesFinite, redis
<1> QED BY <1>1, <1>2, <1>3, <1>4

\* A request, an outage or the passing of time.
LEMMA OutsideType ==
  ASSUME TypeInv,
         \/ \E j \in Jobs : StorePayload(j) \/ Enqueue(j) \/ ApiCrash(j)
         \/ \E e \in scheduled : BecomeDue(e)
         \/ RedisDown \/ RedisBack
  PROVE  TypeInv'
<1> USE MaxFaultsAssumption DEF TypeInv, TypeOK, BatchesFinite, redis, history
<1>1. ASSUME NEW j \in Jobs, StorePayload(j) PROVE TypeInv'
  BY <1>1 DEF StorePayload
<1>2. ASSUME NEW j \in Jobs, Enqueue(j) PROVE TypeInv'
  <2> DEFINE e == [job |-> j, attempts |-> 0]
  <2>1. e \in Envelope
    BY MaxRetriesAssumption DEF Envelope
  <2>2. Append(queue, e) \in Seq(Envelope)
    BY <2>1, AppendRange
  <2> HIDE DEF e
  <2> QED BY <1>2, <2>2 DEF Enqueue, EnqueueReturns, e
<1>3. ASSUME NEW j \in Jobs, ApiCrash(j) PROVE TypeInv'
  BY <1>3 DEF ApiCrash
<1>4. ASSUME NEW e \in scheduled, BecomeDue(e) PROVE TypeInv'
  BY <1>4 DEF BecomeDue
<1>5. CASE RedisDown
  <2>1. faults' \in 0 .. MaxFaults
    BY <1>5 DEF RedisDown
  <2> QED BY <1>5, <2>1 DEF RedisDown
<1>6. CASE RedisBack
  BY <1>6 DEF RedisBack
<1> QED BY <1>1, <1>2, <1>3, <1>4, <1>5, <1>6

\* A worker's step.
LEMMA WorkerType ==
  ASSUME TypeInv, NEW w \in Workers, Work(w) \/ CallRaises(w) \/ Crash(w)
  PROVE  TypeInv'
<1> USE DEF TypeInv, TypeOK, redis, history, Goto
<1>1. CASE Loop(w)
  BY <1>1 DEF Loop, BatchesFinite
<1>2. CASE SelectReady(w)
  <2>1. PICK batch \in SUBSET due :
          /\ ready' = [ready EXCEPT ![w] = batch]
          /\ torn' = torn \cup {e.job : e \in batch \cap UNION {ready[v] : v \in Workers}}
          /\ pc' = [pc EXCEPT ![w] = IF batch = {} THEN AfterDrain(w) ELSE "push"]
    BY <1>2 DEF SelectReady
  <2>2. AfterDrain(w) \in {"loop", "pop"}
    BY DEF AfterDrain
  <2>3. torn' \subseteq Jobs
    BY <2>1 DEF Envelope
  <2>4. BatchesFinite'
    <3>1. IsFiniteSet(batch)
      BY FS_Subset DEF BatchesFinite
    <3> QED BY <1>2, <2>1, <3>1 DEF SelectReady, BatchesFinite
  <2> QED BY <1>2, <2>1, <2>2, <2>3, <2>4 DEF SelectReady
<1>3. CASE PushReady(w)
  <2>1. PICK batch \in SetToSeqs(ready[w]) : queue' = queue \o batch
    BY <1>3 DEF PushReady
  <2>2. queue' \in Seq(Envelope)
    BY <2>1, BatchRange DEF BatchesFinite
  <2> QED BY <1>3, <2>2 DEF PushReady, BatchesFinite
<1>4. CASE RemoveReady(w)
  <2>1. AfterDrain(w) \in {"loop", "pop"}
    BY DEF AfterDrain
  <2>2. BatchesFinite'
    BY <1>4, FS_EmptySet, FS_Difference DEF RemoveReady, BatchesFinite
  <2> QED BY <1>4, <2>1, <2>2 DEF RemoveReady
<1>5. CASE Pop(w)
  <2>1. Head(queue) \in Envelope /\ Tail(queue) \in Seq(Envelope) /\ Head(queue).job \in Jobs
    <3>1. queue \in Seq(Envelope) /\ queue # <<>>
      BY <1>5 DEF Pop
    <3>2. Head(queue) \in Envelope /\ Tail(queue) \in Seq(Envelope)
      BY <3>1, TailRange
    <3> QED BY <3>2 DEF Envelope
  <2>2. Head(queue) # NoJob
    BY <2>1, NoJobAssumption
  <2>3. BatchesFinite'
    BY <1>5 DEF Pop, BatchesFinite
  <2> QED BY <1>5, <2>1, <2>2, <2>3 DEF Pop
<1>6. CASE PopNothing(w)
  BY <1>6 DEF PopNothing, BatchesFinite
<1>7. CASE Handle(w)
  BY <1>7 DEF Handle, BatchesFinite, Envelope
<1>8. CASE HandlerRaises(w)
  <2>1. hand[w].job \in Jobs
    BY <1>8 DEF HandlerRaises, Envelope
  <2> QED BY <1>8, <2>1 DEF HandlerRaises, BatchesFinite
<1>9. CASE Requeue(w)
  <2> DEFINE e == [hand[w] EXCEPT !.attempts = @ + 1]
  <2>1. hand[w] \in Envelope
    BY <1>9 DEF Requeue
  <2>2. e.job \in Jobs /\ (~(e.attempts > MaxRetries) => e \in Envelope)
    BY <2>1, RetriedEnvelope
  <2>3. IsFiniteSet(scheduled \cup {e})
    BY FS_AddElement DEF BatchesFinite
  <2> HIDE DEF e
  <2>4. BatchesFinite'
    BY <1>9, <2>3 DEF Requeue, BatchesFinite, e
  <2> QED BY <1>9, <2>2, <2>4 DEF Requeue, e
<1>10. CASE CallRaises(w) \/ Crash(w)
  <2>1. PICK label \in {"loop", "select"} : Goto(w, label)
    BY <1>10 DEF CallRaises, Crash
  <2>2. Forget(w) /\ UNCHANGED <<redis, redisUp, ingest, failures, handled, dropped>>
    BY <1>10 DEF CallRaises, Crash
  <2>3. faults' \in 0 .. MaxFaults
    BY <1>10, MaxFaultsAssumption DEF CallRaises, Crash
  <2> HIDE DEF Goto
  <2> QED BY <2>1, <2>2, <2>3, ForgetType DEF PC
<1> QED
  BY <1>1, <1>2, <1>3, <1>4, <1>5, <1>6, <1>7, <1>8, <1>9, <1>10 DEF Work

\* Every step keeps the types.
LEMMA NextType == TypeInv /\ [Next]_vars => TypeInv'
<1> SUFFICES ASSUME TypeInv, [Next]_vars PROVE TypeInv'
  OBVIOUS
<1>1. CASE UNCHANGED vars
  BY <1>1 DEF TypeInv, TypeOK, BatchesFinite, vars, redis, history
<1> QED BY <1>1, OutsideType, WorkerType DEF Next

\* The variables keep their shape, for any number of jobs, workers and faults; in
\* particular no envelope is ever queued with more than MaxRetries attempts.
THEOREM TypeCorrect == Spec => []TypeOK
<1>1. TypeInv => TypeOK
  BY DEF TypeInv
<1> QED BY <1>1, InitType, NextType, PTL DEF Spec
-----------------------------------------------------------------------------
(***************************************************************************)
(* Nothing is lost in silence                                              *)
(***************************************************************************)
\* Of some envelopes one has the most attempts.
LEMMA MostAttempts ==
  ASSUME NEW T \in SUBSET Envelope, T # {}
  PROVE  \E f \in T : \A g \in T : g.attempts <= f.attempts
<1> DEFINE left == {n \in Nat : \E g \in T : n = MaxRetries - g.attempts}
<1>1. \A g \in T : /\ g.attempts \in Nat /\ g.attempts <= MaxRetries
                   /\ MaxRetries - g.attempts \in left
  BY MaxRetriesAssumption DEF Envelope
<1>2. left # {} /\ left \subseteq Nat
  BY <1>1
<1> HIDE DEF left
<1>3. PICK n \in left : \A m \in left : n <= m
  BY <1>2, LeastNat
<1>4. PICK f \in T : n = MaxRetries - f.attempts
  BY <1>3 DEF left
<1>5. ASSUME NEW g \in T PROVE g.attempts <= f.attempts
  BY <1>1, <1>2, <1>3, <1>4, MaxRetriesAssumption
<1> QED BY <1>5

\* Where a job is, now and after a step.
LEMMA SomewhereIs ==
  /\ \A j : Somewhere(j) <=> \/ \E e \in Range(queue) \cup scheduled : e.job = j
                            \/ \E w \in Workers : hand[w] # NoJob /\ hand[w].job = j
  /\ \A j : Somewhere(j)' <=> \/ \E e \in Range(queue') \cup scheduled' : e.job = j
                             \/ \E w \in Workers : hand'[w] # NoJob /\ hand'[w].job = j
BY DEF Somewhere, InHand, Range

\* A drain removes no job's last copy: what it removes is beyond the sorted set.
LEMMA RemovedIsElsewhere ==
  ASSUME TypeInv, PushedGoesOn, NEW w \in Workers, pc[w] = "remove", NEW e \in scheduled
  PROVE  \/ e.job \in Settled \cup lost
         \/ \E f \in Range(queue) : f.job = e.job /\ f.attempts >= e.attempts
         \/ \E v \in Workers : hand[v] # NoJob /\ hand[v].job = e.job /\ hand[v].attempts >= e.attempts
         \/ \E f \in scheduled \ ready[w] : f.job = e.job /\ f.attempts >= e.attempts
<1> DEFINE T == {f \in scheduled : f.job = e.job /\ f.attempts >= e.attempts}
<1>1. scheduled \subseteq Envelope /\ \A f \in Envelope : f.attempts \in Nat
  BY DEF TypeInv, TypeOK, Envelope
<1>2. e \in T /\ T \subseteq Envelope
  BY <1>1
<1>3. PICK f \in T : \A g \in T : g.attempts <= f.attempts
  BY <1>2, MostAttempts
<1>4. CASE f \notin ready[w]
  BY <1>3, <1>4
<1>5. CASE f \in ready[w]
  <2>1. f.job \in Settled \cup lost \/ Beyond(f.job, f.attempts)
    BY <1>5 DEF PushedGoesOn
  <2>2. ASSUME NEW g \in scheduled, g.job = f.job, g.attempts > f.attempts PROVE FALSE
    <3>1. g \in T
      BY <1>1, <1>3, <2>2
    <3> QED BY <1>1, <1>3, <2>2, <3>1
  <2>3. f.job = e.job /\ f.attempts >= e.attempts
    BY <1>3
  <2>4. \A n \in Nat : n >= f.attempts => n >= e.attempts
    BY <1>1, <1>2, <1>3
  <2>5. \A g \in Range(queue) : g.attempts \in Nat
    BY <1>1 DEF TypeInv, TypeOK, Range
  <2>6. \A v \in Workers : hand[v] # NoJob => hand[v].attempts \in Nat
    BY <1>1 DEF TypeInv, TypeOK
  <2> QED
    BY <2>1, <2>2, <2>3, <2>4, <2>5, <2>6 DEF Beyond
<1> QED BY <1>4, <1>5

\* At first no job is anywhere.
LEMMA InitLoss == Init => LossInv
<1> SUFFICES ASSUME Init PROVE LossInv
  OBVIOUS
<1> USE DEF Init
<1>1. \A j \in Jobs : ~Somewhere(j) /\ j \notin Settled
  BY DEF Somewhere, InHand, Settled
<1> QED
  BY <1>1 DEF LossInv, FreshIsNowhere, PushedGoesOn, NothingLost

\* Steps that move no envelope, but perhaps advance a request or read a batch.
LEMMA QuietLoss ==
  ASSUME LossInv, UNCHANGED <<queue, scheduled, hand, handled, dropped>>, lost \subseteq lost',
         \A w \in Workers : pc'[w] = "remove" => pc[w] = "remove" /\ ready'[w] = ready[w],
         \A w \in Workers : ready'[w] \subseteq ready[w] \cup scheduled,
         \A j \in Jobs : ingest'[j] \in {"new", "stored"} => ingest[j] \in {"new", "stored"},
         \A j \in Jobs : ingest'[j] = "answered" => ingest[j] = "answered"
  PROVE  LossInv'
<1> USE DEF LossInv, Settled
<1>1. \A j : Somewhere(j)' <=> Somewhere(j)
  BY SomewhereIs
<1>2. FreshIsNowhere'
  <2>1. ASSUME NEW j \in Jobs, ingest'[j] \in {"new", "stored"}
        PROVE  j \notin Settled' /\ ~Somewhere(j)'
    BY <1>1, <2>1 DEF FreshIsNowhere
  <2>2. ASSUME NEW j \in Jobs, ingest'[j] \in {"new", "stored"}, NEW w \in Workers,
               NEW e \in ready'[w]
        PROVE  e.job # j
    <3>1. e \in ready[w] \/ e \in scheduled
      OBVIOUS
    <3> QED BY <2>2, <3>1, SomewhereIs DEF FreshIsNowhere
  <2> QED BY <2>1, <2>2 DEF FreshIsNowhere
<1>3. PushedGoesOn'
  BY DEF PushedGoesOn, Beyond
<1>4. NothingLost'
  BY <1>1 DEF NothingLost
<1> QED BY <1>2, <1>3, <1>4

\* A request pushes its job: it joins the list or counts as lost.
LEMMA EnqueueLoss ==
  ASSUME TypeInv, LossInv, NEW j \in Jobs, Enqueue(j)
  PROVE  LossInv'
<1> USE DEF LossInv, Settled
<1> DEFINE e == [job |-> j, attempts |-> 0]
<1>1. e \in Envelope /\ e.job = j
  BY MaxRetriesAssumption DEF Envelope
<1> HIDE DEF e
<1>2. /\ Range(queue') = IF redisUp THEN Range(queue) \cup {e} ELSE Range(queue)
      /\ lost' = IF redisUp THEN lost ELSE lost \cup {j}
      /\ ingest' = [ingest EXCEPT ![j] = "answered"]
      /\ UNCHANGED <<scheduled, hand, pc, ready, handled, dropped>>
  <2>1. Range(Append(queue, e)) = Range(queue) \cup {e}
    BY <1>1, AppendRange DEF TypeInv, TypeOK
  <2> QED BY <2>1 DEF Enqueue, EnqueueReturns, e
<1>3. FreshIsNowhere'
  BY <1>1, <1>2, SomewhereIs DEF FreshIsNowhere, TypeInv, TypeOK
<1>4. PushedGoesOn'
  BY <1>2 DEF PushedGoesOn, Beyond
<1>5. NothingLost'
  BY <1>1, <1>2, SomewhereIs DEF NothingLost, TypeInv, TypeOK
<1> QED BY <1>3, <1>4, <1>5

\* A drain pushes what it read; it is still scheduled.
LEMMA PushLoss ==
  ASSUME TypeInv, LossInv, NEW w \in Workers, PushReady(w)
  PROVE  LossInv'
<1> USE DEF LossInv, Settled
<1>1. /\ Range(queue') = Range(queue) \cup ready[w]
      /\ UNCHANGED <<scheduled, hand, ready, handled, dropped, lost, ingest>>
      /\ \A v \in Workers : v # w => pc'[v] = pc[v]
  <2>1. PICK batch \in SetToSeqs(ready[w]) : queue' = queue \o batch
    BY DEF PushReady
  <2>2. ready[w] \in SUBSET Envelope /\ IsFiniteSet(ready[w]) /\ queue \in Seq(Envelope)
    BY DEF TypeInv, TypeOK, BatchesFinite
  <2>3. Range(queue') = Range(queue) \cup ready[w]
    BY <2>1, <2>2, BatchRange
  <2> QED BY <2>3 DEF PushReady, history, Goto, TypeInv, TypeOK
<1>2. FreshIsNowhere'
  BY <1>1, SomewhereIs DEF FreshIsNowhere
<1>3. PushedGoesOn'
  <2>1. \A e \in ready[w] : e.attempts \in Nat
    BY DEF TypeInv, TypeOK, Envelope
  <2>2. ASSUME NEW v \in Workers, pc'[v] = "remove", NEW e \in ready'[v]
        PROVE  e.job \in Settled' \cup lost' \/ Beyond(e.job, e.attempts)'
    <3>1. CASE v = w
      BY <1>1, <2>1, <2>2, <3>1 DEF Beyond
    <3>2. CASE v # w
      BY <1>1, <2>2, <3>2 DEF PushedGoesOn, Beyond
    <3> QED BY <3>1, <3>2
  <2> QED BY <2>2 DEF PushedGoesOn
<1>4. NothingLost'
  BY <1>1, SomewhereIs DEF NothingLost
<1> QED BY <1>2, <1>3, <1>4

\* A drain removes what it pushed.
LEMMA RemoveLoss ==
  ASSUME TypeInv, LossInv, NEW w \in Workers, RemoveReady(w)
  PROVE  LossInv'
<1> USE DEF LossInv, Settled
<1>1. /\ scheduled' = scheduled \ ready[w]
      /\ ready' = [ready EXCEPT ![w] = {}]
      /\ UNCHANGED <<queue, hand, handled, dropped, lost, ingest>>
      /\ \A v \in Workers : v # w => pc'[v] = pc[v]
      /\ pc'[w] # "remove" /\ pc[w] = "remove"
  BY DEF RemoveReady, history, Goto, AfterDrain, TypeInv, TypeOK
<1>2. FreshIsNowhere'
  <2>1. \A v \in Workers : ready'[v] \subseteq ready[v]
    BY <1>1 DEF TypeInv, TypeOK
  <2> QED BY <1>1, <2>1, SomewhereIs DEF FreshIsNowhere
<1>3. PushedGoesOn'
  <2>1. ASSUME NEW v \in Workers, pc'[v] = "remove", NEW e \in ready'[v],
               e.job \notin Settled \cup lost
        PROVE  Beyond(e.job, e.attempts)'
    <3>1. e \in ready[v] /\ pc[v] = "remove" /\ e \in Envelope
      BY <1>1, <2>1 DEF TypeInv, TypeOK
    <3>2. e.attempts \in Nat /\ \A f \in Envelope : f.attempts \in Nat
      BY <3>1 DEF Envelope
    <3>3. Beyond(e.job, e.attempts)
      BY <2>1, <3>1 DEF PushedGoesOn
    <3>4. CASE \E f \in scheduled : f.job = e.job /\ f.attempts > e.attempts
      <4>1. PICK f \in scheduled : f.job = e.job /\ f.attempts > e.attempts
        BY <3>4
      <4>2. \A n \in Nat : n >= f.attempts => n >= e.attempts /\ n > e.attempts
        BY <3>2, <4>1 DEF TypeInv, TypeOK
      <4>3. /\ \A g \in Range(queue) \cup scheduled : g.attempts \in Nat
            /\ \A u \in Workers : hand[u] # NoJob => hand[u].attempts \in Nat
        BY <3>2 DEF TypeInv, TypeOK, Range
      <4>4. \/ \E g \in Range(queue) : g.job = f.job /\ g.attempts >= f.attempts
            \/ \E u \in Workers : hand[u] # NoJob /\ hand[u].job = f.job
                                  /\ hand[u].attempts >= f.attempts
            \/ \E g \in scheduled \ ready[w] : g.job = f.job /\ g.attempts >= f.attempts
        BY <1>1, <2>1, <4>1, RemovedIsElsewhere
      <4> QED BY <1>1, <4>1, <4>2, <4>3, <4>4 DEF Beyond
    <3> QED BY <1>1, <3>3, <3>4 DEF Beyond
  <2> QED BY <1>1, <2>1 DEF PushedGoesOn
<1>4. NothingLost'
  <2>1. ASSUME NEW j \in Jobs, ingest'[j] = "answered", j \notin lost', j \notin Settled'
        PROVE  Somewhere(j)'
    <3>1. Somewhere(j)
      BY <1>1, <2>1 DEF NothingLost
    <3>2. CASE \E e \in scheduled : e.job = j
      BY <1>1, <2>1, <3>2, RemovedIsElsewhere, SomewhereIs
    <3> QED BY <1>1, <3>1, <3>2, SomewhereIs
  <2> QED BY <2>1 DEF NothingLost
<1> QED BY <1>2, <1>3, <1>4

\* A worker pops the first envelope: it holds it, or drops its job.
LEMMA PopLoss ==
  ASSUME TypeInv, LossInv, NEW w \in Workers, Pop(w)
  PROVE  LossInv'
<1> USE DEF LossInv, Settled
<1> DEFINE e == Head(queue)
<1>1. e \in Envelope /\ Range(queue) = {e} \cup Range(queue')
  <2>1. queue \in Seq(Envelope) /\ queue # <<>> /\ queue' = Tail(queue)
    BY DEF Pop, TypeInv, TypeOK
  <2> QED BY <2>1, TailRange
<1>2. e.job \in Jobs /\ e # NoJob
  BY <1>1, NoJobAssumption DEF Envelope
<1> HIDE DEF e
<1>3. /\ \/ hand' = hand /\ dropped' = dropped \cup {e.job}
         \/ hand' = [hand EXCEPT ![w] = e] /\ dropped' = dropped
      /\ UNCHANGED <<scheduled, ready, handled, lost, ingest>>
      /\ \A v \in Workers : pc'[v] = "remove" => pc[v] = "remove"
      /\ hand[w] = NoJob
  BY DEF Pop, e, Goto, TypeInv, TypeOK
<1>4. ASSUME NEW v \in Workers, hand[v] # NoJob PROVE hand'[v] = hand[v]
  BY <1>3, <1>4 DEF TypeInv, TypeOK
<1>5. \/ e.job \in dropped'
      \/ hand'[w] # NoJob /\ hand'[w] = e
  BY <1>2, <1>3 DEF TypeInv, TypeOK
<1>6. Settled \subseteq Settled'
  BY <1>3
<1>7. FreshIsNowhere'
  <2>1. ASSUME NEW j \in Jobs, ingest'[j] \in {"new", "stored"} PROVE j # e.job /\ ~Somewhere(j)'
    <3>1. ~Somewhere(j)
      BY <1>3, <2>1 DEF FreshIsNowhere
    <3>2. j # e.job
      BY <1>1, <3>1, SomewhereIs
    <3>3. \A v \in Workers : hand'[v] = hand[v] \/ hand'[v] = e
      BY <1>3 DEF TypeInv, TypeOK
    <3> QED BY <1>1, <1>3, <3>1, <3>2, <3>3, SomewhereIs
  <2> QED BY <1>3, <2>1 DEF FreshIsNowhere
<1>8. PushedGoesOn'
  <2>1. ASSUME NEW v \in Workers, pc'[v] = "remove", NEW f \in ready'[v], f.job \notin Settled' \cup lost'
        PROVE  Beyond(f.job, f.attempts)'
    <3>1. Beyond(f.job, f.attempts)
      BY <1>3, <1>6, <2>1 DEF PushedGoesOn
    <3> QED BY <1>1, <1>3, <1>4, <1>5, <2>1, <3>1 DEF Beyond
  <2> QED BY <2>1 DEF PushedGoesOn
<1>9. NothingLost'
  <2>1. ASSUME NEW j \in Jobs, ingest'[j] = "answered", j \notin lost', j \notin Settled'
        PROVE  Somewhere(j)'
    <3>1. Somewhere(j)
      BY <1>3, <1>6, <2>1 DEF NothingLost
    <3> QED BY <1>1, <1>3, <1>4, <1>5, <2>1, <3>1, SomewhereIs
  <2> QED BY <2>1 DEF NothingLost
<1> QED BY <1>7, <1>8, <1>9

\* A worker lets its envelope go: its job is settled or lost, or the envelope is
\* scheduled with one more attempt.
LEMMA HandedOn ==
  ASSUME TypeInv, LossInv, NEW w \in Workers, hand[w] # NoJob,
         hand' = [hand EXCEPT ![w] = NoJob],
         UNCHANGED <<queue, ingest>>, lost \subseteq lost', Settled \subseteq Settled',
         Settled' \subseteq Settled \cup {hand[w].job},
         \A v \in Workers : pc'[v] = "remove" => pc[v] = "remove",
         \A v \in Workers : ready'[v] \subseteq ready[v],
         NEW back \in SUBSET Envelope, scheduled' = scheduled \cup back,
         \A e \in back : e.job = hand[w].job /\ e.attempts = hand[w].attempts + 1,
         hand[w].job \in Settled' \cup lost' \/ back # {}
  PROVE  LossInv'
<1> USE DEF LossInv
<1> DEFINE h == hand[w]
<1>1. /\ h \in Envelope /\ h.job \in Jobs /\ h.attempts \in Nat
      /\ \A v \in Workers : v # w => hand'[v] = hand[v]
      /\ hand'[w] = NoJob
  BY DEF TypeInv, TypeOK, Envelope
<1>2. FreshIsNowhere'
  <2>1. ASSUME NEW j \in Jobs, ingest'[j] \in {"new", "stored"}
        PROVE  j \notin Settled' /\ ~Somewhere(j)' /\ \A v \in Workers : \A e \in ready'[v] : e.job # j
    <3>1. j \notin Settled /\ ~Somewhere(j) /\ \A v \in Workers : \A e \in ready[v] : e.job # j
      BY <2>1 DEF FreshIsNowhere
    <3>2. j # h.job
      BY <3>1, SomewhereIs
    <3> QED BY <1>1, <3>1, <3>2, SomewhereIs
  <2> QED BY <2>1 DEF FreshIsNowhere
<1>3. PushedGoesOn'
  <2>1. ASSUME NEW v \in Workers, pc'[v] = "remove", NEW f \in ready'[v], f.job \notin Settled' \cup lost'
        PROVE  Beyond(f.job, f.attempts)'
    <3>1. f \in ready[v] /\ f.attempts \in Nat
      BY <2>1 DEF TypeInv, TypeOK, Envelope
    <3>2. Beyond(f.job, f.attempts)
      BY <2>1, <3>1 DEF PushedGoesOn
    <3>3. CASE h.job = f.job /\ h.attempts >= f.attempts
      <4>1. PICK b \in back : b.job = f.job /\ b.attempts = h.attempts + 1
        BY <2>1, <3>3
      <4>2. b.attempts > f.attempts
        BY <1>1, <3>1, <3>3, <4>1
      <4> QED BY <4>1, <4>2 DEF Beyond
    <3>4. CASE ~(h.job = f.job /\ h.attempts >= f.attempts)
      BY <1>1, <3>2, <3>4 DEF Beyond
    <3> QED BY <3>3, <3>4
  <2> QED BY <2>1 DEF PushedGoesOn
<1>4. NothingLost'
  <2>1. ASSUME NEW j \in Jobs, ingest'[j] = "answered", j \notin lost', j \notin Settled'
        PROVE  Somewhere(j)'
    <3>1. Somewhere(j)
      BY <2>1 DEF NothingLost
    <3>2. CASE j = h.job
      BY <2>1, <3>2, SomewhereIs
    <3> QED BY <1>1, <3>1, <3>2, SomewhereIs
  <2> QED BY <2>1 DEF NothingLost
<1> QED BY <1>2, <1>3, <1>4

\* A cut worker that holds nothing loses nothing: what it read is still scheduled.
LEMMA ForgetLoss ==
  ASSUME TypeInv, LossInv, NEW w \in Workers, CallRaises(w) \/ Crash(w)
  PROVE  LossInv'
<1>1. /\ Forget(w) /\ UNCHANGED <<queue, scheduled, ingest, handled, dropped>>
      /\ \A v \in Workers : pc'[v] = "remove" => pc[v] = "remove" /\ v # w
  BY DEF CallRaises, Crash, redis, Goto, TypeInv, TypeOK
<1>2. /\ \A v \in Workers : ready'[v] \subseteq ready[v]
      /\ \A v \in Workers : pc'[v] = "remove" => pc[v] = "remove" /\ ready'[v] = ready[v]
      /\ lost \subseteq lost'
  BY <1>1 DEF Forget, TypeInv, TypeOK
<1>3. CASE hand[w] = NoJob
  <2>1. hand' = hand
    BY <1>1, <1>3 DEF Forget, TypeInv, TypeOK
  <2> QED BY <1>1, <1>2, <2>1, QuietLoss
<1>4. CASE hand[w] # NoJob
  <2>1. hand' = [hand EXCEPT ![w] = NoJob] /\ hand[w].job \in lost'
    BY <1>1, <1>4 DEF Forget
  <2>2. scheduled' = scheduled \cup {} /\ {} \in SUBSET Envelope /\ Settled' = Settled
    BY <1>1 DEF Settled
  <2> QED BY <1>1, <1>2, <1>4, <2>1, <2>2, HandedOn
<1> QED BY <1>3, <1>4

\* Every step keeps LossInv.
LEMMA NextLoss == TypeInv /\ LossInv /\ [Next]_vars => LossInv'
<1> SUFFICES ASSUME TypeInv, LossInv, [Next]_vars PROVE LossInv'
  OBVIOUS
<1> USE DEF redis, history, Goto
<1>1. CASE UNCHANGED vars
  BY <1>1, QuietLoss DEF vars
<1>2. ASSUME NEW j \in Jobs, StorePayload(j) \/ ApiCrash(j) PROVE LossInv'
  BY <1>2, QuietLoss DEF StorePayload, ApiCrash, TypeInv, TypeOK
<1>3. CASE (\E e \in scheduled : BecomeDue(e)) \/ RedisDown \/ RedisBack
  BY <1>3, QuietLoss DEF BecomeDue, RedisDown, RedisBack
<1>4. ASSUME NEW w \in Workers, Loop(w) \/ PopNothing(w) \/ HandlerRaises(w) PROVE LossInv'
  BY <1>4, QuietLoss DEF Loop, PopNothing, HandlerRaises, TypeInv, TypeOK
<1>5. ASSUME NEW w \in Workers, SelectReady(w) PROVE LossInv'
  <2>1. PICK batch \in SUBSET due :
          /\ ready' = [ready EXCEPT ![w] = batch]
          /\ pc' = [pc EXCEPT ![w] = IF batch = {} THEN AfterDrain(w) ELSE "push"]
    BY <1>5 DEF SelectReady
  <2>2. \A v \in Workers : pc'[v] = "remove" => pc[v] = "remove" /\ ready'[v] = ready[v]
    BY <2>1 DEF AfterDrain, TypeInv, TypeOK
  <2>3. \A v \in Workers : ready'[v] \subseteq ready[v] \cup scheduled
    BY <2>1 DEF TypeInv, TypeOK
  <2> QED BY <1>5, <2>2, <2>3, QuietLoss DEF SelectReady
<1>6. ASSUME NEW w \in Workers, Handle(w) PROVE LossInv'
  <2>1. hand[w] # NoJob /\ \A v \in Workers : pc'[v] = "remove" => pc[v] = "remove"
    BY <1>6 DEF Handle, TypeInv, TypeOK
  <2>2. /\ scheduled' = scheduled \cup {} /\ {} \in SUBSET Envelope
        /\ Settled' = Settled \cup {hand[w].job}
    BY <1>6 DEF Handle, Settled
  <2> QED BY <1>6, <2>1, <2>2, HandedOn DEF Handle
<1>7. ASSUME NEW w \in Workers, Requeue(w) PROVE LossInv'
  <2> DEFINE e == [hand[w] EXCEPT !.attempts = @ + 1]
  <2>1. /\ hand[w] # NoJob /\ hand[w] \in Envelope
        /\ \A v \in Workers : pc'[v] = "remove" => pc[v] = "remove"
    BY <1>7 DEF Requeue, TypeInv, TypeOK
  <2>2. /\ e.job = hand[w].job /\ e.attempts = hand[w].attempts + 1
        /\ ~(e.attempts > MaxRetries) => e \in Envelope
    BY <2>1, RetriedEnvelope
  <2>3. /\ hand' = [hand EXCEPT ![w] = NoJob]
        /\ UNCHANGED <<queue, ingest, ready, lost, handled>>
        /\ IF e.attempts > MaxRetries
           THEN dropped' = dropped \cup {e.job} /\ scheduled' = scheduled
           ELSE dropped' = dropped /\ scheduled' = scheduled \cup {e}
    BY <1>7 DEF Requeue
  <2> HIDE DEF e
  <2>4. CASE e.attempts > MaxRetries
    <3>1. /\ scheduled' = scheduled \cup {} /\ {} \in SUBSET Envelope
          /\ Settled' = Settled \cup {hand[w].job}
      BY <2>2, <2>3, <2>4 DEF Settled
    <3> QED BY <2>1, <2>3, <3>1, HandedOn
  <2>5. CASE ~(e.attempts > MaxRetries)
    <3>1. scheduled' = scheduled \cup {e} /\ {e} \in SUBSET Envelope /\ Settled' = Settled
      BY <2>2, <2>3, <2>5 DEF Settled
    <3> QED BY <2>1, <2>2, <2>3, <3>1, HandedOn
  <2> QED BY <2>4, <2>5
<1> QED
  BY <1>1, <1>2, <1>3, <1>4, <1>5, <1>6, <1>7, EnqueueLoss, PushLoss, RemoveLoss, PopLoss,
     ForgetLoss DEF Next, Work

\* However many workers drain, pop and retry at once, an answered job is settled, has
\* a copy, or lost one to a fault (enqueue_task, _drain_ready_scheduled_tasks).
THEOREM NoSilentLoss == Spec => []NothingLost
<1>1. Init => TypeInv /\ LossInv
  BY InitType, InitLoss
<1>2. TypeInv /\ LossInv /\ [Next]_vars => TypeInv' /\ LossInv'
  BY NextType, NextLoss
<1>3. LossInv => NothingLost
  BY DEF LossInv
<1> QED BY <1>1, <1>2, <1>3, PTL DEF Spec
-----------------------------------------------------------------------------
(***************************************************************************)
(* Given up only after every retry                                         *)
(***************************************************************************)
\* Steps that make no envelope and settle no job with a handler, or settle one whose
\* retries have failed.
LEMMA QuietRetry ==
  ASSUME TypeInv, RetryInv,
         Range(queue') \cup scheduled' \cup UNION {ready'[w] : w \in Workers}
           \subseteq Range(queue) \cup scheduled \cup UNION {ready[w] : w \in Workers},
         \A w \in Workers : \/ hand'[w] = NoJob
                            \/ hand'[w] = hand[w] /\ (pc'[w] = "requeue" => pc[w] = "requeue")
                            \/ hand'[w] \in Range(queue) /\ pc'[w] # "requeue",
         UNCHANGED failures,
         \A j \in dropped' \ Unhandled : j \in dropped \/ failures[j] > MaxRetries
  PROVE  RetryInv'
<1> USE DEF RetryInv
<1>1. ASSUME NEW w \in Workers, hand'[w] # NoJob
      PROVE  failures[hand'[w].job] >= hand'[w].attempts + (IF pc'[w] = "requeue" THEN 1 ELSE 0)
  <2>1. CASE hand'[w] = hand[w] /\ (pc'[w] = "requeue" => pc[w] = "requeue")
    <3>1. hand[w] \in Envelope /\ hand[w].attempts \in Nat /\ failures[hand[w].job] \in Nat
      BY <1>1, <2>1 DEF TypeInv, TypeOK, Envelope
    <3> QED BY <1>1, <2>1, <3>1 DEF AttemptsFailed
  <2>2. CASE hand'[w] \in Range(queue) /\ pc'[w] # "requeue"
    <3>1. hand'[w] \in Envelope
      BY <2>2 DEF Range, TypeInv, TypeOK
    <3>2. hand'[w].attempts \in Nat
      BY <3>1 DEF Envelope
    <3> QED BY <2>2, <3>2 DEF AttemptsFailed
  <2> QED BY <1>1, <2>1, <2>2
<1>2. AttemptsFailed'
  BY <1>1 DEF AttemptsFailed
<1>3. GivenUpAfterRetries'
  BY DEF GivenUpAfterRetries
<1> QED BY <1>2, <1>3

\* A new job has failed no attempt, and needs none.
LEMMA EnqueueRetry ==
  ASSUME TypeInv, RetryInv, NEW j \in Jobs, Enqueue(j)
  PROVE  RetryInv'
<1> USE DEF RetryInv
<1> DEFINE e == [job |-> j, attempts |-> 0]
<1>1. e \in Envelope /\ e.job = j /\ e.attempts = 0
  BY MaxRetriesAssumption DEF Envelope
<1> HIDE DEF e
<1>2. /\ Range(queue') \subseteq Range(queue) \cup {e}
      /\ UNCHANGED <<scheduled, hand, pc, ready, failures, dropped>>
  <2>1. Range(Append(queue, e)) = Range(queue) \cup {e}
    BY <1>1, AppendRange DEF TypeInv, TypeOK
  <2> QED BY <2>1 DEF Enqueue, e
<1>3. failures[j] >= 0
  BY DEF TypeInv, TypeOK
<1> QED BY <1>1, <1>2, <1>3 DEF AttemptsFailed, GivenUpAfterRetries

\* A failure is counted before the envelope is tried again.
LEMMA RaisesRetry ==
  ASSUME TypeInv, RetryInv, NEW w \in Workers, HandlerRaises(w)
  PROVE  RetryInv'
<1> USE DEF RetryInv
<1> DEFINE h == hand[w]
<1>1. h \in Envelope /\ h.job \in Jobs /\ h.attempts \in Nat /\ pc[w] = "handle"
  BY DEF HandlerRaises, TypeInv, TypeOK, Envelope
<1>2. /\ failures' = [failures EXCEPT ![h.job] = @ + 1]
      /\ \A v \in Workers : v # w => pc'[v] = pc[v]
      /\ UNCHANGED <<queue, scheduled, ready, hand, dropped>>
  BY DEF HandlerRaises, Goto, redis, TypeInv, TypeOK
<1>3. \A j \in Jobs : /\ failures[j] \in Nat /\ failures'[j] \in Nat
                      /\ failures'[j] >= failures[j]
                      /\ j = h.job => failures'[j] = failures[j] + 1
  BY <1>1, <1>2 DEF TypeInv, TypeOK
<1>4. \A e \in Envelope : e.job \in Jobs /\ e.attempts \in Nat
  BY DEF Envelope
<1>5. \A e \in Range(queue) \cup scheduled \cup UNION {ready[v] : v \in Workers} : e \in Envelope
  BY DEF Range, TypeInv, TypeOK
<1>6. ASSUME NEW e \in Range(queue) \cup scheduled \cup UNION {ready[v] : v \in Workers}
      PROVE  failures'[e.job] >= e.attempts
  <2>1. failures[e.job] >= e.attempts /\ e \in Envelope
    BY <1>5 DEF AttemptsFailed
  <2> QED BY <1>3, <1>4, <2>1
<1>7. ASSUME NEW v \in Workers, hand[v] # NoJob
      PROVE  failures'[hand[v].job] >= hand[v].attempts + (IF pc'[v] = "requeue" THEN 1 ELSE 0)
  <2>1. /\ hand[v] \in Envelope
        /\ failures[hand[v].job] >= hand[v].attempts + (IF pc[v] = "requeue" THEN 1 ELSE 0)
    BY <1>7 DEF AttemptsFailed, TypeInv, TypeOK
  <2>2. CASE v = w
    BY <1>1, <1>3, <2>1, <2>2
  <2>3. CASE v # w
    BY <1>2, <1>3, <1>4, <2>1, <2>3
  <2> QED BY <2>2, <2>3
<1>8. AttemptsFailed'
  BY <1>2, <1>6, <1>7 DEF AttemptsFailed
<1>9. GivenUpAfterRetries'
  BY <1>2, <1>3, MaxRetriesAssumption DEF GivenUpAfterRetries, TypeInv, TypeOK
<1> QED BY <1>8, <1>9

\* A retry goes back with the failure it has made, or the job is given up on its last.
LEMMA RequeueRetry ==
  ASSUME TypeInv, RetryInv, NEW w \in Workers, Requeue(w)
  PROVE  RetryInv'
<1> USE DEF RetryInv
<1> DEFINE e == [hand[w] EXCEPT !.attempts = @ + 1]
<1>1. hand[w] # NoJob /\ hand[w] \in Envelope /\ pc[w] = "requeue"
  BY DEF Requeue, TypeInv, TypeOK
<1>2. /\ e.job = hand[w].job /\ e.job \in Jobs /\ hand[w].attempts \in Nat
      /\ e.attempts = hand[w].attempts + 1
  BY <1>1, RetriedEnvelope
<1>3. /\ hand' = [hand EXCEPT ![w] = NoJob]
      /\ UNCHANGED <<queue, ready, failures>>
      /\ \A v \in Workers : v # w => pc'[v] = pc[v]
      /\ IF e.attempts > MaxRetries
         THEN dropped' = dropped \cup {e.job} /\ scheduled' = scheduled
         ELSE dropped' = dropped /\ scheduled' = scheduled \cup {e}
  BY DEF Requeue, Goto, TypeInv, TypeOK
<1> HIDE DEF e
<1>4. failures[e.job] >= e.attempts /\ failures[e.job] \in Nat
  BY <1>1, <1>2 DEF AttemptsFailed, TypeInv, TypeOK
<1>5. \A v \in Workers : hand'[v] # NoJob => v # w /\ hand'[v] = hand[v]
  BY <1>3 DEF TypeInv, TypeOK
<1>6. AttemptsFailed'
  BY <1>3, <1>4, <1>5 DEF AttemptsFailed
<1>7. GivenUpAfterRetries'
  BY <1>2, <1>3, <1>4, MaxRetriesAssumption DEF GivenUpAfterRetries
<1> QED BY <1>6, <1>7

\* Every step keeps RetryInv.
LEMMA NextRetry == TypeInv /\ RetryInv /\ [Next]_vars => RetryInv'
<1> SUFFICES ASSUME TypeInv, RetryInv, [Next]_vars PROVE RetryInv'
  OBVIOUS
<1> USE DEF redis, history, Goto
<1>1. CASE UNCHANGED vars
  BY <1>1, QuietRetry DEF vars
<1>2. ASSUME NEW j \in Jobs, StorePayload(j) \/ ApiCrash(j) PROVE RetryInv'
  BY <1>2, QuietRetry DEF StorePayload, ApiCrash
<1>3. CASE (\E e \in scheduled : BecomeDue(e)) \/ RedisDown \/ RedisBack
  BY <1>3, QuietRetry DEF BecomeDue, RedisDown, RedisBack
<1>4. ASSUME NEW w \in Workers, Loop(w) \/ PopNothing(w) PROVE RetryInv'
  BY <1>4, QuietRetry DEF Loop, PopNothing, TypeInv, TypeOK
<1>5. ASSUME NEW w \in Workers, SelectReady(w) PROVE RetryInv'
  <2>1. PICK batch \in SUBSET due :
          /\ ready' = [ready EXCEPT ![w] = batch]
          /\ pc' = [pc EXCEPT ![w] = IF batch = {} THEN AfterDrain(w) ELSE "push"]
    BY <1>5 DEF SelectReady
  <2>2. \A v \in Workers : pc'[v] = "requeue" => pc[v] = "requeue"
    BY <2>1 DEF AfterDrain, TypeInv, TypeOK
  <2>3. \A v \in Workers : ready'[v] \subseteq ready[v] \cup scheduled
    BY <2>1 DEF TypeInv, TypeOK
  <2>4. UNION {ready'[v] : v \in Workers} \subseteq scheduled \cup UNION {ready[v] : v \in Workers}
    BY <2>3
  <2> QED BY <1>5, <2>2, <2>4, QuietRetry DEF SelectReady
<1>6. ASSUME NEW w \in Workers, PushReady(w) PROVE RetryInv'
  <2>1. PICK batch \in SetToSeqs(ready[w]) : queue' = queue \o batch
    BY <1>6 DEF PushReady
  <2>2. ready[w] \in SUBSET Envelope /\ IsFiniteSet(ready[w]) /\ queue \in Seq(Envelope)
    BY DEF TypeInv, TypeOK, BatchesFinite
  <2>3. Range(queue') = Range(queue) \cup ready[w]
    BY <2>1, <2>2, BatchRange
  <2>4. \A v \in Workers : pc'[v] = "requeue" => pc[v] = "requeue"
    BY <1>6 DEF PushReady, TypeInv, TypeOK
  <2> QED BY <1>6, <2>3, <2>4, QuietRetry DEF PushReady
<1>7. ASSUME NEW w \in Workers, RemoveReady(w) PROVE RetryInv'
  <2>1. \A v \in Workers : /\ ready'[v] \subseteq ready[v]
                           /\ pc'[v] = "requeue" => pc[v] = "requeue"
    BY <1>7 DEF RemoveReady, AfterDrain, TypeInv, TypeOK
  <2>2. UNION {ready'[v] : v \in Workers} \subseteq UNION {ready[v] : v \in Workers}
    BY <2>1
  <2> QED BY <1>7, <2>1, <2>2, QuietRetry DEF RemoveReady
<1>8. ASSUME NEW w \in Workers, Pop(w) PROVE RetryInv'
  <2> DEFINE e == Head(queue)
  <2>1. queue \in Seq(Envelope) /\ queue # <<>> /\ queue' = Tail(queue)
    BY <1>8 DEF Pop, TypeInv, TypeOK
  <2>2. e \in Range(queue) /\ Range(queue') \subseteq Range(queue)
    BY <2>1, TailRange
  <2>3. /\ dropped' \subseteq dropped \cup Unhandled
        /\ \A v \in Workers : \/ hand'[v] = hand[v]
                              \/ hand'[v] = e
        /\ \A v \in Workers : pc'[v] = "requeue" => pc[v] = "requeue" /\ v # w
        /\ \A v \in Workers : v # w => hand'[v] = hand[v]
        /\ UNCHANGED <<scheduled, ready, failures>>
    BY <1>8 DEF Pop, TypeInv, TypeOK
  <2> HIDE DEF e
  <2> QED BY <2>2, <2>3, QuietRetry
<1>9. ASSUME NEW w \in Workers, Handle(w) PROVE RetryInv'
  <2>1. \A v \in Workers : /\ hand'[v] = NoJob \/ hand'[v] = hand[v]
                           /\ pc'[v] = "requeue" => pc[v] = "requeue"
    BY <1>9 DEF Handle, TypeInv, TypeOK
  <2> QED BY <1>9, <2>1, QuietRetry DEF Handle
<1>10. ASSUME NEW w \in Workers, CallRaises(w) \/ Crash(w) PROVE RetryInv'
  <2>1. /\ Forget(w) /\ UNCHANGED <<queue, scheduled, dropped, failures>>
        /\ \A v \in Workers : pc'[v] = "requeue" => pc[v] = "requeue"
    BY <1>10 DEF CallRaises, Crash, TypeInv, TypeOK
  <2>2. \A v \in Workers : /\ ready'[v] \subseteq ready[v]
                           /\ hand'[v] = NoJob \/ hand'[v] = hand[v]
    BY <2>1 DEF Forget, TypeInv, TypeOK
  <2>3. UNION {ready'[v] : v \in Workers} \subseteq UNION {ready[v] : v \in Workers}
    BY <2>2
  <2> QED BY <2>1, <2>2, <2>3, QuietRetry
<1> QED
  BY <1>1, <1>2, <1>3, <1>4, <1>5, <1>6, <1>7, <1>8, <1>9, <1>10, EnqueueRetry, RaisesRetry,
     RequeueRetry DEF Next, Work

\* No copy of a job with a handler gives it up before MaxRetries retries have failed,
\* though copies of the job may be about at once (requeue_if_failed).
THEOREM RetriesBeforeGivingUp == Spec => []GivenUpAfterRetries
<1>1. Init => TypeInv /\ RetryInv
  <2> SUFFICES ASSUME Init PROVE RetryInv
    BY InitType
  <2>1. Range(queue) = {} /\ UNION {ready[w] : w \in Workers} = {}
    BY DEF Init, Range
  <2> QED BY <2>1 DEF Init, RetryInv, AttemptsFailed, GivenUpAfterRetries
<1>2. TypeInv /\ RetryInv /\ [Next]_vars => TypeInv' /\ RetryInv'
  BY NextType, NextRetry
<1>3. RetryInv => GivenUpAfterRetries
  BY DEF RetryInv
<1> QED BY <1>1, <1>2, <1>3, PTL DEF Spec
-----------------------------------------------------------------------------
(***************************************************************************)
(* Never two copies at once                                                *)
(***************************************************************************)
\* The envelopes on their way out of the sorted set, now and after a step.
LEMMA MovingIs ==
  /\ \A e : e \in Moving <=> \E v \in Workers : pc[v] = "remove" /\ e \in ready[v]
  /\ \A e : e \in Moving' <=> \E v \in Workers : pc'[v] = "remove" /\ e \in ready'[v]
BY DEF Moving

\* Copies that go make no second copy.
LEMMA FewerCopies ==
  ASSUME NEW j, AtMostOne(j), InList(j)' \subseteq InList(j), InSet(j)' \subseteq InSet(j),
         InHand(j)' \subseteq InHand(j), j \in Settled' => j \in Settled
  PROVE  AtMostOne(j)'
BY DEF AtMostOne

\* Steps that move no envelope.
LEMMA QuietCopy ==
  ASSUME CopyInv, UNCHANGED <<queue, scheduled, ready, hand, handled, dropped, torn>>,
         \A w \in Workers : pc'[w] = "remove" <=> pc[w] = "remove"
  PROVE  CopyInv'
<1> USE DEF CopyInv
<1>1. DrainsApart' /\ ReadIsScheduled'
  BY DEF DrainsApart, ReadIsScheduled
<1>2. ASSUME NEW j \in Jobs \ torn PROVE AtMostOne(j)'
  <2>1. \A e : e \in Moving' <=> e \in Moving
    BY MovingIs
  <2>2. InList(j)' \subseteq InList(j) /\ InSet(j)' \subseteq InSet(j) /\ InHand(j)' \subseteq InHand(j)
    BY <2>1 DEF InList, InSet, InHand
  <2> QED BY <2>2, FewerCopies DEF Settled
<1> QED BY <1>1, <1>2

\* A request pushes the only copy of its job.
LEMMA EnqueueCopy ==
  ASSUME TypeInv, LossInv, CopyInv, NEW j \in Jobs, Enqueue(j), redisUp
  PROVE  CopyInv'
<1> USE DEF CopyInv
<1> DEFINE e == [job |-> j, attempts |-> 0]
<1>1. e.job = j
  OBVIOUS
<1>2. /\ DOMAIN queue = 1 .. Len(queue) /\ Len(queue) \in Nat
      /\ DOMAIN queue' = 1 .. Len(queue) + 1
      /\ \A i \in 1 .. Len(queue) : queue'[i] = queue[i]
      /\ queue'[Len(queue) + 1] = e
  <2>1. e \in Envelope /\ queue \in Seq(Envelope) /\ queue' = Append(queue, e)
    BY MaxRetriesAssumption DEF Enqueue, Envelope, TypeInv, TypeOK
  <2> HIDE DEF e
  <2> QED BY <2>1
<1> HIDE DEF e
<1>3. UNCHANGED <<scheduled, ready, hand, pc, handled, dropped, torn>>
  BY DEF Enqueue, EnqueueReturns
<1>4. \A i \in 1 .. Len(queue) + 1 : i \in 1 .. Len(queue) \/ i = Len(queue) + 1
  BY <1>2
<1>5. DrainsApart' /\ ReadIsScheduled'
  BY <1>3 DEF DrainsApart, ReadIsScheduled
<1>6. ASSUME NEW k \in Jobs \ torn PROVE AtMostOne(k)'
  <2>1. InSet(k)' = InSet(k) /\ InHand(k)' = InHand(k)
    BY <1>3 DEF InSet, InHand, Moving
  <2>2. CASE k = j
    <3>1. ~Somewhere(j) /\ j \notin Settled
      BY DEF LossInv, FreshIsNowhere, Enqueue
    <3>2. InList(j) = {} /\ InSet(j) = {} /\ InHand(j) = {}
      BY <3>1 DEF Somewhere, InList, InSet
    <3>3. InList(j)' \subseteq {Len(queue) + 1}
      BY <1>2, <1>4, <3>2 DEF InList
    <3> QED BY <1>3, <2>1, <2>2, <3>1, <3>2, <3>3 DEF AtMostOne, Settled
  <2>3. CASE k # j
    <3>1. InList(k)' \subseteq InList(k)
      BY <1>1, <1>2, <1>4, <2>3 DEF InList
    <3> QED BY <1>3, <2>1, <3>1, FewerCopies DEF Settled
  <2> QED BY <2>2, <2>3
<1> QED BY <1>3, <1>5, <1>6

\* Drains that read the same envelope are overlapping ones.
LEMMA SelectCopy ==
  ASSUME TypeInv, CopyInv, NEW w \in Workers, SelectReady(w)
  PROVE  CopyInv'
<1> USE DEF CopyInv
<1>1. PICK batch \in SUBSET due :
        /\ ready' = [ready EXCEPT ![w] = batch]
        /\ torn' = torn \cup {e.job : e \in batch \cap UNION {ready[v] : v \in Workers}}
        /\ pc' = [pc EXCEPT ![w] = IF batch = {} THEN AfterDrain(w) ELSE "push"]
  BY DEF SelectReady, Goto
<1>2. /\ \A v \in Workers : v # w => ready'[v] = ready[v] /\ pc'[v] = pc[v]
      /\ ready'[w] = batch /\ batch \subseteq scheduled
      /\ pc'[w] # "remove" /\ pc[w] # "remove"
      /\ UNCHANGED <<queue, scheduled, hand, handled, dropped>>
  BY <1>1 DEF SelectReady, redis, AfterDrain, TypeInv, TypeOK
<1>3. \A e \in batch : \A v \in Workers : e \in ready[v] => e.job \in torn'
  BY <1>1
<1>4. DrainsApart'
  BY <1>1, <1>2, <1>3 DEF DrainsApart
<1>5. ReadIsScheduled'
  BY <1>1, <1>2 DEF ReadIsScheduled
<1>6. ASSUME NEW j \in Jobs \ torn' PROVE AtMostOne(j)'
  <2>1. \A e : e \in Moving' <=> e \in Moving
    BY <1>2, MovingIs
  <2>2. InList(j)' \subseteq InList(j) /\ InSet(j)' \subseteq InSet(j) /\ InHand(j)' \subseteq InHand(j)
    BY <1>2, <2>1 DEF InList, InSet, InHand
  <2>3. j \in Jobs \ torn
    BY <1>1
  <2> QED BY <1>2, <2>2, <2>3, FewerCopies DEF Settled
<1> QED BY <1>4, <1>5, <1>6

\* A drain that pushes what it read moves it: it leaves the set as it joins the list.
LEMMA PushCopy ==
  ASSUME TypeInv, CopyInv, NEW w \in Workers, PushReady(w)
  PROVE  CopyInv'
<1> USE DEF CopyInv
<1>1. PICK batch \in SetToSeqs(ready[w]) : queue' = queue \o batch
  BY DEF PushReady
<1>2. /\ batch \in Seq(Envelope) /\ Range(batch) = ready[w]
      /\ \A i, k \in DOMAIN batch : batch[i] = batch[k] => i = k
  <2>1. ready[w] \in SUBSET Envelope /\ IsFiniteSet(ready[w]) /\ queue \in Seq(Envelope)
    BY DEF TypeInv, TypeOK, BatchesFinite
  <2> QED BY <2>1, BatchRange
<1>3. /\ DOMAIN queue = 1 .. Len(queue) /\ Len(queue) \in Nat /\ Len(batch) \in Nat
      /\ DOMAIN batch = 1 .. Len(batch)
      /\ DOMAIN queue' = 1 .. Len(queue) + Len(batch)
      /\ \A i \in 1 .. Len(queue) : queue'[i] = queue[i]
      /\ \A i \in 1 .. Len(batch) : queue'[Len(queue) + i] = batch[i]
  BY <1>1, <1>2 DEF TypeInv, TypeOK
<1>4. /\ UNCHANGED <<scheduled, ready, hand, handled, dropped, torn>>
      /\ \A v \in Workers : v # w => pc'[v] = pc[v]
      /\ pc'[w] = "remove" /\ pc[w] = "push"
  BY DEF PushReady, Goto, history, TypeInv, TypeOK
<1>5. ASSUME NEW i \in DOMAIN queue'
      PROVE  \/ i \in 1 .. Len(queue) /\ queue'[i] = queue[i]
             \/ \E k \in DOMAIN batch : i = Len(queue) + k /\ queue'[i] = batch[k] /\ batch[k] \in ready[w]
  <2>1. CASE i \in 1 .. Len(queue)
    BY <1>3, <2>1
  <2>2. CASE i \notin 1 .. Len(queue)
    <3>1. i - Len(queue) \in 1 .. Len(batch) /\ i = Len(queue) + (i - Len(queue))
      BY <1>3, <2>2
    <3>2. batch[i - Len(queue)] \in ready[w]
      BY <1>2, <1>3, <3>1 DEF Range
    <3> QED BY <1>3, <3>1, <3>2
  <2> QED BY <2>1, <2>2
<1>6. DrainsApart' /\ ReadIsScheduled'
  BY <1>4 DEF DrainsApart, ReadIsScheduled
<1>7. ASSUME NEW j \in Jobs \ torn PROVE AtMostOne(j)'
  <2>1. \A e : e \in Moving' <=> e \in Moving \/ e \in ready[w]
    BY <1>4, MovingIs
  <2>2. InHand(j)' = InHand(j) /\ InSet(j)' \subseteq InSet(j) \ ready[w]
    BY <1>4, <2>1 DEF InHand, InSet
  <2>3. CASE \E e \in ready[w] : e.job = j
    <3>1. \A f \in ready[w] : f.job = j => f \in InSet(j)
      <4>1. ASSUME NEW f \in ready[w], f.job = j PROVE f \in scheduled /\ f \notin Moving
        <5>1. f \in scheduled
          BY <4>1 DEF ReadIsScheduled
        <5>2. ASSUME NEW v \in Workers, pc[v] = "remove", f \in ready[v] PROVE FALSE
          BY <1>4, <4>1, <5>2 DEF DrainsApart
        <5> QED BY <5>1, <5>2, MovingIs
      <4> QED BY <4>1 DEF InSet
    <3>2. PICK e \in InSet(j) : InSet(j) = {e} /\ e \in ready[w]
      BY <2>3, <3>1 DEF AtMostOne
    <3>3. InList(j) = {} /\ InHand(j) = {} /\ j \notin Settled
      BY <3>2 DEF AtMostOne
    <3>4. InSet(j)' = {}
      BY <2>2, <3>2
    <3>5. ASSUME NEW i \in InList(j)', NEW k \in InList(j)' PROVE i = k
      <4>1. /\ i \in DOMAIN queue' /\ queue'[i].job = j
            /\ k \in DOMAIN queue' /\ queue'[k].job = j
        BY <3>5 DEF InList
      <4>2. PICK a \in DOMAIN batch : i = Len(queue) + a /\ batch[a] = e
        BY <1>3, <1>5, <3>1, <3>2, <3>3, <4>1 DEF InList
      <4>3. PICK b \in DOMAIN batch : k = Len(queue) + b /\ batch[b] = e
        BY <1>3, <1>5, <3>1, <3>2, <3>3, <4>1 DEF InList
      <4> QED BY <1>2, <4>2, <4>3
    <3> QED BY <1>4, <2>2, <3>3, <3>4, <3>5 DEF AtMostOne, Settled
  <2>4. CASE ~\E e \in ready[w] : e.job = j
    <3>1. InList(j)' \subseteq InList(j)
      BY <1>3, <1>5, <2>4 DEF InList
    <3> QED BY <1>4, <2>2, <3>1, FewerCopies DEF Settled
  <2> QED BY <2>3, <2>4
<1> QED BY <1>4, <1>6, <1>7

\* The removal ends the move.
LEMMA RemoveCopy ==
  ASSUME TypeInv, CopyInv, NEW w \in Workers, RemoveReady(w)
  PROVE  CopyInv'
<1> USE DEF CopyInv
<1>1. /\ scheduled' = scheduled \ ready[w]
      /\ \A v \in Workers : v # w => ready'[v] = ready[v] /\ pc'[v] = pc[v]
      /\ ready'[w] = {} /\ pc[w] = "remove"
      /\ UNCHANGED <<queue, hand, handled, dropped, torn>>
  BY DEF RemoveReady, Goto, history, TypeInv, TypeOK
<1>2. DrainsApart'
  BY <1>1 DEF DrainsApart
<1>3. ReadIsScheduled'
  <2>1. ASSUME NEW v \in Workers, NEW e \in ready'[v], e.job \notin torn
        PROVE  e \in scheduled'
    <3>1. v # w /\ e \in ready[v]
      BY <1>1, <2>1
    <3>2. e \notin ready[w]
      BY <2>1, <3>1 DEF DrainsApart
    <3> QED BY <1>1, <2>1, <3>1, <3>2 DEF ReadIsScheduled
  <2> QED BY <1>1, <2>1 DEF ReadIsScheduled
<1>4. ASSUME NEW j \in Jobs \ torn PROVE AtMostOne(j)'
  <2>1. \A e : e \in Moving => e \in Moving' \/ e \in ready[w]
    BY <1>1, MovingIs
  <2>2. InList(j)' \subseteq InList(j) /\ InSet(j)' \subseteq InSet(j) /\ InHand(j)' \subseteq InHand(j)
    BY <1>1, <2>1 DEF InList, InSet, InHand
  <2> QED BY <1>1, <2>2, FewerCopies DEF Settled
<1> QED BY <1>1, <1>2, <1>3, <1>4

\* A pop moves the envelope from the list to a hand, or drops it.
LEMMA PopCopy ==
  ASSUME TypeInv, CopyInv, NEW w \in Workers, Pop(w)
  PROVE  CopyInv'
<1> USE DEF CopyInv
<1> DEFINE e == Head(queue)
<1>1. /\ Len(queue) \in Nat \ {0} /\ DOMAIN queue = 1 .. Len(queue) /\ e = queue[1]
      /\ DOMAIN queue' = 1 .. Len(queue) - 1
      /\ \A i \in 1 .. Len(queue) - 1 : queue'[i] = queue[i + 1]
  <2>1. queue \in Seq(Envelope) /\ queue # <<>> /\ queue' = Tail(queue)
    BY DEF Pop, TypeInv, TypeOK
  <2> QED BY <2>1
<1> HIDE DEF e
<1>2. /\ \/ hand' = hand /\ dropped' = dropped \cup {e.job}
         \/ hand' = [hand EXCEPT ![w] = e] /\ dropped' = dropped
      /\ UNCHANGED <<scheduled, ready, handled, torn>>
      /\ \A v \in Workers : pc'[v] = "remove" <=> pc[v] = "remove"
  BY DEF Pop, e, Goto, TypeInv, TypeOK
<1>3. DrainsApart' /\ ReadIsScheduled'
  BY <1>2 DEF DrainsApart, ReadIsScheduled
<1>4. ASSUME NEW j \in Jobs \ torn PROVE AtMostOne(j)'
  <2>1. InSet(j)' \subseteq InSet(j)
    BY <1>2, MovingIs DEF InSet
  <2>2. \A i \in InList(j)' : i \in Nat /\ i # 0 /\ i + 1 \in InList(j)
    BY <1>1 DEF InList
  <2>3. CASE e.job = j
    <3>1. 1 \in InList(j)
      BY <1>1, <2>3 DEF InList
    <3>2. /\ InSet(j) = {} /\ InHand(j) = {} /\ j \notin Settled
          /\ \A i \in InList(j) : i = 1
      BY <3>1 DEF AtMostOne
    <3>3. InList(j)' = {}
      BY <2>2, <3>2
    <3>4. CASE hand' = hand /\ dropped' = dropped \cup {e.job}
      <4>1. InHand(j)' = {}
        BY <3>2, <3>4 DEF InHand
      <4> QED BY <2>1, <3>2, <3>3, <4>1 DEF AtMostOne
    <3>5. CASE hand' = [hand EXCEPT ![w] = e] /\ dropped' = dropped
      <4>1. InHand(j)' \subseteq {w}
        BY <3>2, <3>5 DEF InHand, TypeInv, TypeOK
      <4> QED BY <1>2, <2>1, <3>2, <3>3, <3>5, <4>1 DEF AtMostOne, Settled
    <3> QED BY <1>2, <3>4, <3>5
  <2>4. CASE e.job # j
    <3>1. InHand(j)' \subseteq InHand(j)
      BY <1>2, <2>4 DEF InHand, TypeInv, TypeOK
    <3>2. j \in Settled' => j \in Settled
      BY <1>2, <2>4 DEF Settled
    <3>3. ASSUME NEW i \in InList(j)', NEW k \in InList(j)' PROVE i = k
      <4>1. i + 1 = k + 1
        BY <2>2, <3>3 DEF AtMostOne
      <4> QED BY <2>2, <3>3, <4>1
    <3>4. InList(j) = {} => InList(j)' = {}
      BY <2>2
    <3> QED BY <2>1, <3>1, <3>2, <3>3, <3>4 DEF AtMostOne
  <2> QED BY <2>3, <2>4
<1> QED BY <1>2, <1>3, <1>4

\* A worker lets its envelope go: to an outcome, to a fault or back to the set.
LEMMA HandedOnCopy ==
  ASSUME TypeInv, CopyInv, NEW w \in Workers, hand[w] # NoJob,
         hand' = [hand EXCEPT ![w] = NoJob], UNCHANGED <<queue, ready, torn>>,
         \A v \in Workers : pc'[v] = "remove" <=> pc[v] = "remove",
         \/ scheduled' = scheduled /\ Settled' \subseteq Settled \cup {hand[w].job}
         \/ Settled' = Settled /\ \E e : scheduled' = scheduled \cup {e} /\ e.job = hand[w].job
  PROVE  CopyInv'
<1> USE DEF CopyInv
<1>1. DrainsApart' /\ ReadIsScheduled'
  BY DEF DrainsApart, ReadIsScheduled
<1>2. ASSUME NEW j \in Jobs \ torn PROVE AtMostOne(j)'
  <2>1. InList(j)' \subseteq InList(j) /\ InHand(j)' = InHand(j) \ {w}
    BY DEF InList, InHand, TypeInv, TypeOK
  <2>2. \A e : e \in Moving' <=> e \in Moving
    BY MovingIs
  <2>3. CASE j # hand[w].job
    <3>1. InSet(j)' \subseteq InSet(j)
      BY <2>2, <2>3 DEF InSet
    <3>2. j \in Settled' => j \in Settled
      BY <2>3
    <3> QED BY <2>1, <3>1, <3>2, FewerCopies
  <2>4. CASE j = hand[w].job
    <3>1. w \in InHand(j)
      BY <2>4 DEF InHand
    <3>2. InList(j) = {} /\ InSet(j) = {} /\ InHand(j) = {w} /\ j \notin Settled
      BY <3>1 DEF AtMostOne
    <3>3. InList(j)' = {} /\ InHand(j)' = {}
      BY <2>1, <3>2
    <3>4. CASE scheduled' = scheduled
      <4>1. InSet(j)' = {}
        BY <2>2, <3>2, <3>4 DEF InSet
      <4> QED BY <3>3, <4>1 DEF AtMostOne
    <3>5. CASE Settled' = Settled /\ \E e : scheduled' = scheduled \cup {e}
      <4>1. PICK e : scheduled' = scheduled \cup {e}
        BY <3>5
      <4>2. InSet(j)' \subseteq {e}
        BY <2>2, <3>2, <4>1 DEF InSet
      <4> QED BY <3>2, <3>3, <3>5, <4>2 DEF AtMostOne
    <3> QED BY <3>4, <3>5
  <2> QED BY <2>3, <2>4
<1> QED BY <1>1, <1>2

\* A cut drain leaves what it has pushed in the set: those jobs are torn.
LEMMA ForgetCopy ==
  ASSUME TypeInv, CopyInv, NEW w \in Workers, CallRaises(w) \/ Crash(w)
  PROVE  CopyInv'
<1> USE DEF CopyInv
<1>1. /\ Forget(w) /\ UNCHANGED <<queue, scheduled, handled, dropped>>
      /\ \A v \in Workers : v # w => pc'[v] = pc[v]
      /\ pc'[w] # "remove"
  BY DEF CallRaises, Crash, redis, Goto, TypeInv, TypeOK
<1>2. /\ \A v \in Workers : v # w => ready'[v] = ready[v]
      /\ ready'[w] = {} /\ torn \subseteq torn'
      /\ pc[w] = "remove" => \A e \in ready[w] : e.job \in torn'
      /\ \A v \in Workers : hand'[v] = hand[v] \/ hand'[v] = NoJob
  BY <1>1 DEF Forget, TypeInv, TypeOK
<1>3. \A v \in Workers : ready'[v] \subseteq ready[v]
  BY <1>2
<1>4. DrainsApart' /\ ReadIsScheduled'
  BY <1>1, <1>2, <1>3 DEF DrainsApart, ReadIsScheduled
<1>5. ASSUME NEW j \in Jobs \ torn' PROVE AtMostOne(j)'
  <2>1. \A e : e \in Moving /\ e.job = j => e \in Moving'
    <3>1. ASSUME NEW e, NEW v \in Workers, pc[v] = "remove", e \in ready[v], e.job = j
          PROVE  e \in Moving'
      <4>1. v # w
        BY <1>2, <1>5, <3>1
      <4> QED BY <1>1, <1>2, <3>1, <4>1, MovingIs
    <3> QED BY <3>1, MovingIs
  <2>2. InList(j)' \subseteq InList(j) /\ InSet(j)' \subseteq InSet(j) /\ InHand(j)' \subseteq InHand(j)
    BY <1>1, <1>2, <2>1 DEF InList, InSet, InHand
  <2>3. j \in Jobs \ torn
    BY <1>2
  <2> QED BY <1>1, <2>2, <2>3, FewerCopies DEF Settled
<1> QED BY <1>4, <1>5

\* Every step keeps CopyInv.
LEMMA NextCopy == TypeInv /\ LossInv /\ CopyInv /\ [Next]_vars => CopyInv'
<1> SUFFICES ASSUME TypeInv, LossInv, CopyInv, [Next]_vars PROVE CopyInv'
  OBVIOUS
<1> USE DEF redis, history, Goto
<1>1. CASE UNCHANGED vars
  BY <1>1, QuietCopy DEF vars
<1>2. ASSUME NEW j \in Jobs, StorePayload(j) \/ ApiCrash(j) PROVE CopyInv'
  BY <1>2, QuietCopy DEF StorePayload, ApiCrash
<1>3. CASE (\E e \in scheduled : BecomeDue(e)) \/ RedisDown \/ RedisBack
  BY <1>3, QuietCopy DEF BecomeDue, RedisDown, RedisBack
<1>4. ASSUME NEW w \in Workers, Loop(w) \/ PopNothing(w) \/ HandlerRaises(w) PROVE CopyInv'
  BY <1>4, QuietCopy DEF Loop, PopNothing, HandlerRaises, TypeInv, TypeOK
<1>5. ASSUME NEW j \in Jobs, Enqueue(j) PROVE CopyInv'
  <2>1. CASE ~redisUp
    BY <1>5, <2>1, QuietCopy DEF Enqueue, EnqueueReturns
  <2> QED BY <1>5, <2>1, EnqueueCopy
<1>6. ASSUME NEW w \in Workers, Handle(w) PROVE CopyInv'
  <2>1. hand[w] # NoJob /\ \A v \in Workers : pc'[v] = "remove" <=> pc[v] = "remove"
    BY <1>6 DEF Handle, TypeInv, TypeOK
  <2>2. Settled' \subseteq Settled \cup {hand[w].job}
    BY <1>6 DEF Handle, Settled
  <2> QED BY <1>6, <2>1, <2>2, HandedOnCopy DEF Handle
<1>7. ASSUME NEW w \in Workers, Requeue(w) PROVE CopyInv'
  <2> DEFINE e == [hand[w] EXCEPT !.attempts = @ + 1]
  <2>1. /\ hand[w] # NoJob /\ hand[w] \in Envelope
        /\ \A v \in Workers : pc'[v] = "remove" <=> pc[v] = "remove"
    BY <1>7 DEF Requeue, TypeInv, TypeOK
  <2>2. e.job = hand[w].job
    BY <2>1, RetriedEnvelope
  <2>3. /\ hand' = [hand EXCEPT ![w] = NoJob]
        /\ UNCHANGED <<queue, ready, torn, handled>>
        /\ \/ dropped' = dropped \cup {e.job} /\ scheduled' = scheduled
           \/ dropped' = dropped /\ scheduled' = scheduled \cup {e}
    BY <1>7 DEF Requeue
  <2> HIDE DEF e
  <2> QED BY <2>1, <2>2, <2>3, HandedOnCopy DEF Settled
<1> QED
  BY <1>1, <1>2, <1>3, <1>4, <1>5, <1>6, <1>7, SelectCopy, PushCopy, RemoveCopy, PopCopy,
     ForgetCopy DEF Next, Work

\* A set with no two elements has at most one.
LEMMA AtMostOneElement ==
  ASSUME NEW S, \A x, y \in S : x = y
  PROVE  IF S = {} THEN Cardinality(S) = 0 ELSE Cardinality(S) = 1
<1>1. CASE S = {}
  BY <1>1, FS_EmptySet
<1>2. CASE S # {}
  <2>1. PICK x \in S : TRUE
    BY <1>2
  <2>2. S = {x}
    BY <2>1
  <2> QED BY <1>2, <2>2, FS_Singleton
<1> QED BY <1>1, <1>2

\* A job never has two copies, nor one when it is settled, unless a drain was cut
\* between its LPUSH and its ZREM, or two drains read it: for any number of workers.
THEOREM OneCopyAtMost == Spec => []OneCopy
<1>1. Init => TypeInv /\ LossInv /\ CopyInv
  <2> SUFFICES ASSUME Init PROVE CopyInv
    BY InitType, InitLoss
  <2>1. DrainsApart /\ ReadIsScheduled
    BY DEF Init, DrainsApart, ReadIsScheduled
  <2>2. \A j : InList(j) = {} /\ InSet(j) = {} /\ InHand(j) = {} /\ j \notin Settled
    BY DEF Init, InList, InSet, InHand, Settled
  <2> QED BY <2>1, <2>2 DEF CopyInv, AtMostOne
<1>2. TypeInv /\ LossInv /\ CopyInv /\ [Next]_vars => TypeInv' /\ LossInv' /\ CopyInv'
  BY NextType, NextLoss, NextCopy
<1>3. CopyInv => OneCopy
  <2> SUFFICES ASSUME CopyInv, NEW j \in Jobs \ torn
               PROVE  Copies(j) + (IF j \in Settled THEN 1 ELSE 0) <= 1
    BY DEF OneCopy
  <2>1. AtMostOne(j)
    BY DEF CopyInv
  <2>2. /\ IF InList(j) = {} THEN Cardinality(InList(j)) = 0 ELSE Cardinality(InList(j)) = 1
        /\ IF InSet(j) = {} THEN Cardinality(InSet(j)) = 0 ELSE Cardinality(InSet(j)) = 1
        /\ IF InHand(j) = {} THEN Cardinality(InHand(j)) = 0 ELSE Cardinality(InHand(j)) = 1
    BY <2>1, AtMostOneElement DEF AtMostOne
  <2> QED BY <2>1, <2>2 DEF AtMostOne, Copies
<1> QED BY <1>1, <1>2, <1>3, PTL DEF Spec
-----------------------------------------------------------------------------
(***************************************************************************)
(* The queue implements the abstract job                                   *)
(***************************************************************************)
\* The job is on its way: stored, somewhere, or read by a drain.
OnItsWay(j) == ingest[j] = "stored" \/ Somewhere(j) \/ Overtaken(j)

\* What stands for the abstract job, now and after a step.
LEMMA JobStateIs ==
  /\ jobState = [j \in Jobs |-> IF j \in Settled THEN "settled"
                                ELSE IF OnItsWay(j) THEN "waiting"
                                ELSE IF ingest[j] = "new" THEN "new" ELSE "lost"]
  /\ jobState' = [j \in Jobs |-> IF j \in Settled' THEN "settled"
                                 ELSE IF OnItsWay(j)' THEN "waiting"
                                 ELSE IF ingest'[j] = "new" THEN "new" ELSE "lost"]
BY DEF jobState, OnItsWay

LEMMA OnItsWayIs ==
  /\ \A j : OnItsWay(j) <=>
       \/ ingest[j] = "stored"
       \/ \E e \in Range(queue) \cup scheduled : e.job = j
       \/ \E w \in Workers : hand[w] # NoJob /\ hand[w].job = j
       \/ \E w \in Workers : pc[w] = "push" /\ \E e \in ready[w] : e.job = j
  /\ \A j : OnItsWay(j)' <=>
       \/ ingest'[j] = "stored"
       \/ \E e \in Range(queue') \cup scheduled' : e.job = j
       \/ \E w \in Workers : hand'[w] # NoJob /\ hand'[w].job = j
       \/ \E w \in Workers : pc'[w] = "push" /\ \E e \in ready'[w] : e.job = j
BY SomewhereIs DEF OnItsWay, Overtaken

\* Steps that settle no job and put none on its way are stutters of the abstract jobs,
\* or lose those that were waiting.
LEMMA LoseStep ==
  ASSUME LossInv, Settled' = Settled, \A j \in Jobs : OnItsWay(j)' => OnItsWay(j),
         \A j \in Jobs : ingest'[j] = "new" <=> ingest[j] = "new"
  PROVE  [Promise!Next]_jobState
<1> DEFINE gone == {j \in Jobs : j \notin Settled /\ OnItsWay(j) /\ ~OnItsWay(j)'}
<1>1. \A j \in Jobs : ingest[j] = "new" => ~OnItsWay(j)
  BY OnItsWayIs, SomewhereIs DEF LossInv, FreshIsNowhere
<1>2. \A j \in gone : jobState[j] = "waiting" /\ ingest[j] # "new"
  BY <1>1, JobStateIs
<1>3. \A j \in Jobs : IF j \in gone THEN jobState'[j] = "lost" ELSE jobState'[j] = jobState[j]
  BY <1>2, JobStateIs
<1>4. jobState' = [j \in Jobs |-> IF j \in gone THEN "lost" ELSE jobState[j]]
  <2>1. jobState' = [j \in Jobs |-> jobState'[j]]
    BY JobStateIs
  <2> HIDE DEF gone
  <2> QED BY <1>3, <2>1
<1>5. gone \in SUBSET Jobs
  OBVIOUS
<1> HIDE DEF gone
<1>6. Promise!Lose(gone)
  BY <1>2, <1>4 DEF Promise!Lose
<1> QED BY <1>5, <1>6 DEF Promise!Next

\* A step that settles a job on its way, and touches no other.
LEMMA SettleStep ==
  ASSUME NEW k \in Jobs, OnItsWay(k), Settled' = Settled \cup {k}, UNCHANGED ingest,
         \A j \in Jobs : j # k => (OnItsWay(j)' <=> OnItsWay(j))
  PROVE  [Promise!Next]_jobState
<1>1. \A j \in Jobs : IF j = k THEN jobState'[j] = "settled" ELSE jobState'[j] = jobState[j]
  BY JobStateIs
<1>2. jobState' = [jobState EXCEPT ![k] = "settled"]
  <2>1. jobState' = [j \in Jobs |-> jobState'[j]] /\ jobState = [j \in Jobs |-> jobState[j]]
    BY JobStateIs
  <2> QED BY <1>1, <2>1
<1>3. jobState[k] = "settled" \/ jobState[k] = "waiting"
  BY JobStateIs
<1>4. CASE jobState[k] = "settled"
  <2>1. jobState' = jobState
    <3>1. jobState = [j \in Jobs |-> jobState[j]]
      BY JobStateIs
    <3> QED BY <1>2, <1>4, <3>1
  <2> QED BY <2>1
<1>5. CASE jobState[k] = "waiting"
  BY <1>2, <1>5 DEF Promise!Next, Promise!Settle
<1> QED BY <1>3, <1>4, <1>5

\* The request that stores a payload takes its job on.
LEMMA StoreStep ==
  ASSUME TypeInv, LossInv, NEW k \in Jobs, StorePayload(k)
  PROVE  [Promise!Next]_jobState
<1>1. /\ ingest[k] = "new" /\ ingest' = [ingest EXCEPT ![k] = "stored"]
      /\ UNCHANGED <<queue, scheduled, pc, ready, hand, handled, dropped>>
  BY DEF StorePayload, redis, history
<1>2. ~OnItsWay(k) /\ k \notin Settled
  BY <1>1, OnItsWayIs, SomewhereIs DEF LossInv, FreshIsNowhere
<1>3. OnItsWay(k)' /\ \A j \in Jobs : j # k => (OnItsWay(j)' <=> OnItsWay(j))
  <2>1. ingest'[k] = "stored" /\ \A j \in Jobs : j # k => ingest'[j] = ingest[j]
    BY <1>1 DEF TypeInv, TypeOK
  <2>2. \A j : (\E e \in Range(queue') : e.job = j) <=> (\E e \in Range(queue) : e.job = j)
    BY <1>1
  <2> QED BY <1>1, <2>1, <2>2, OnItsWayIs
<1>4. Settled' = Settled
  BY <1>1 DEF Settled
<1>5. \A j \in Jobs : IF j = k THEN jobState[j] = "new" /\ jobState'[j] = "waiting"
                               ELSE jobState'[j] = jobState[j]
  BY <1>1, <1>2, <1>3, <1>4, JobStateIs DEF TypeInv, TypeOK
<1>6. jobState' = [jobState EXCEPT ![k] = "waiting"]
  <2>1. jobState' = [j \in Jobs |-> jobState'[j]] /\ jobState = [j \in Jobs |-> jobState[j]]
    BY JobStateIs
  <2> QED BY <1>5, <2>1
<1> QED BY <1>5, <1>6 DEF Promise!Next, Promise!Accept

\* Every step of the queue is a step of the abstract jobs, or none of theirs.
LEMMA StepSimulation == TypeInv /\ LossInv /\ [Next]_vars => [Promise!Next]_jobState
<1> SUFFICES ASSUME TypeInv, LossInv, [Next]_vars PROVE [Promise!Next]_jobState
  OBVIOUS
<1> USE DEF redis, history, Goto, Settled
<1>1. CASE UNCHANGED vars
  BY <1>1, OnItsWayIs, LoseStep DEF vars
<1>2. ASSUME NEW j \in Jobs, Enqueue(j) \/ ApiCrash(j) PROVE [Promise!Next]_jobState
  <2>1. /\ ingest[j] = "stored" /\ \A k \in Jobs : k # j => ingest'[k] = ingest[k]
        /\ ingest'[j] # "new"
        /\ UNCHANGED <<scheduled, pc, ready, hand, handled, dropped>>
    BY <1>2 DEF Enqueue, EnqueueReturns, ApiCrash, TypeInv, TypeOK
  <2>2. \A e \in Range(queue') : e \in Range(queue) \/ e.job = j
    <3> DEFINE e == [job |-> j, attempts |-> 0]
    <3>1. e \in Envelope /\ e.job = j
      BY MaxRetriesAssumption DEF Envelope
    <3> HIDE DEF e
    <3>2. Range(Append(queue, e)) = Range(queue) \cup {e}
      BY <3>1, AppendRange DEF TypeInv, TypeOK
    <3> QED BY <1>2, <3>1, <3>2 DEF Enqueue, ApiCrash, e
  <2>3. \A k \in Jobs : OnItsWay(k)' => OnItsWay(k)
    BY <2>1, <2>2, OnItsWayIs
  <2>4. \A k \in Jobs : ingest'[k] = "new" <=> ingest[k] = "new"
    BY <2>1
  <2> QED BY <2>1, <2>3, <2>4, LoseStep
<1>3. CASE (\E e \in scheduled : BecomeDue(e)) \/ RedisDown \/ RedisBack
  BY <1>3, OnItsWayIs, LoseStep DEF BecomeDue, RedisDown, RedisBack
<1>4. ASSUME NEW w \in Workers, Loop(w) \/ PopNothing(w) \/ HandlerRaises(w)
      PROVE  [Promise!Next]_jobState
  <2>1. \A v \in Workers : pc'[v] = "push" => pc[v] = "push"
    BY <1>4 DEF Loop, PopNothing, HandlerRaises, TypeInv, TypeOK
  <2> QED BY <1>4, <2>1, OnItsWayIs, LoseStep DEF Loop, PopNothing, HandlerRaises
<1>5. ASSUME NEW w \in Workers, SelectReady(w) PROVE [Promise!Next]_jobState
  <2>1. PICK batch \in SUBSET due :
          /\ ready' = [ready EXCEPT ![w] = batch]
          /\ pc' = [pc EXCEPT ![w] = IF batch = {} THEN AfterDrain(w) ELSE "push"]
    BY <1>5 DEF SelectReady
  <2>2. \A v \in Workers : pc'[v] = "push" => \/ ready'[v] \subseteq scheduled
                                              \/ pc[v] = "push" /\ ready'[v] = ready[v]
    BY <2>1 DEF TypeInv, TypeOK
  <2>3. \A k \in Jobs : OnItsWay(k)' => OnItsWay(k)
    BY <1>5, <2>2, OnItsWayIs DEF SelectReady
  <2> QED BY <1>5, <2>3, LoseStep DEF SelectReady
<1>6. ASSUME NEW w \in Workers, PushReady(w) PROVE [Promise!Next]_jobState
  <2>1. PICK batch \in SetToSeqs(ready[w]) : queue' = queue \o batch
    BY <1>6 DEF PushReady
  <2>2. ready[w] \in SUBSET Envelope /\ IsFiniteSet(ready[w]) /\ queue \in Seq(Envelope)
    BY DEF TypeInv, TypeOK, BatchesFinite
  <2>3. Range(queue') = Range(queue) \cup ready[w]
    BY <2>1, <2>2, BatchRange
  <2>4. pc[w] = "push" /\ \A v \in Workers : pc'[v] = "push" => pc[v] = "push"
    BY <1>6 DEF PushReady, TypeInv, TypeOK
  <2>5. \A k \in Jobs : OnItsWay(k)' => OnItsWay(k)
    BY <1>6, <2>3, <2>4, OnItsWayIs DEF PushReady
  <2> QED BY <1>6, <2>5, LoseStep DEF PushReady
<1>7. ASSUME NEW w \in Workers, RemoveReady(w) PROVE [Promise!Next]_jobState
  <2>1. \A v \in Workers : pc'[v] = "push" => pc[v] = "push" /\ ready'[v] = ready[v]
    BY <1>7 DEF RemoveReady, AfterDrain, TypeInv, TypeOK
  <2>2. \A k \in Jobs : OnItsWay(k)' => OnItsWay(k)
    BY <1>7, <2>1, OnItsWayIs DEF RemoveReady
  <2> QED BY <1>7, <2>2, LoseStep DEF RemoveReady
<1>8. ASSUME NEW w \in Workers, Pop(w) PROVE [Promise!Next]_jobState
  <2> DEFINE e == Head(queue)
  <2>1. e \in Envelope /\ Range(queue) = {e} \cup Range(queue')
    <3>1. queue \in Seq(Envelope) /\ queue # <<>> /\ queue' = Tail(queue)
      BY <1>8 DEF Pop, TypeInv, TypeOK
    <3> QED BY <3>1, TailRange
  <2>2. e.job \in Jobs /\ OnItsWay(e.job)
    BY <2>1, OnItsWayIs DEF Envelope
  <2>3. /\ \/ hand' = hand /\ dropped' = dropped \cup {e.job}
           \/ dropped' = dropped /\ \A v \in Workers : hand'[v] = hand[v] \/ hand'[v] = e
        /\ \A v \in Workers : pc'[v] = "push" <=> pc[v] = "push"
        /\ UNCHANGED <<scheduled, ingest, ready, handled>>
    BY <1>8 DEF Pop, TypeInv, TypeOK
  <2> HIDE DEF e
  <2>4. CASE hand' = hand /\ dropped' = dropped \cup {e.job}
    <3>1. \A j \in Jobs : j # e.job => (OnItsWay(j)' <=> OnItsWay(j))
      BY <2>1, <2>3, <2>4, OnItsWayIs
    <3> QED BY <2>2, <2>3, <2>4, <3>1, SettleStep
  <2>5. CASE dropped' = dropped /\ \A v \in Workers : hand'[v] = hand[v] \/ hand'[v] = e
    <3>1. \A j \in Jobs : OnItsWay(j)' => OnItsWay(j)
      BY <2>1, <2>3, <2>5, OnItsWayIs
    <3> QED BY <2>3, <2>5, <3>1, LoseStep
  <2> QED BY <2>3, <2>4, <2>5
<1>9. ASSUME NEW w \in Workers, Handle(w) PROVE [Promise!Next]_jobState
  <2>1. /\ hand[w] # NoJob /\ hand[w].job \in Jobs
        /\ \A v \in Workers : pc'[v] = "push" <=> pc[v] = "push"
        /\ \A v \in Workers : v # w => hand'[v] = hand[v]
        /\ hand'[w] = NoJob
        /\ UNCHANGED <<queue, scheduled, ingest, ready, dropped>>
        /\ handled' = handled \cup {hand[w].job}
    BY <1>9 DEF Handle, TypeInv, TypeOK, Envelope
  <2>2. OnItsWay(hand[w].job)
    BY <2>1, OnItsWayIs
  <2>3. \A j \in Jobs : j # hand[w].job => (OnItsWay(j)' <=> OnItsWay(j))
    BY <2>1, OnItsWayIs
  <2> QED BY <2>1, <2>2, <2>3, SettleStep
<1>10. ASSUME NEW w \in Workers, Requeue(w) PROVE [Promise!Next]_jobState
  <2> DEFINE e == [hand[w] EXCEPT !.attempts = @ + 1]
  <2>1. /\ hand[w] # NoJob /\ hand[w] \in Envelope
        /\ \A v \in Workers : pc'[v] = "push" <=> pc[v] = "push"
        /\ \A v \in Workers : v # w => hand'[v] = hand[v]
        /\ hand'[w] = NoJob
    BY <1>10 DEF Requeue, TypeInv, TypeOK
  <2>2. e.job = hand[w].job /\ e.job \in Jobs
    BY <2>1, RetriedEnvelope
  <2>3. /\ UNCHANGED <<queue, ingest, ready, handled>>
        /\ \/ dropped' = dropped \cup {e.job} /\ scheduled' = scheduled
           \/ dropped' = dropped /\ scheduled' = scheduled \cup {e}
    BY <1>10 DEF Requeue
  <2> HIDE DEF e
  <2>4. OnItsWay(e.job)
    BY <2>1, <2>2, OnItsWayIs
  <2>5. CASE dropped' = dropped \cup {e.job} /\ scheduled' = scheduled
    <3>1. \A j \in Jobs : j # e.job => (OnItsWay(j)' <=> OnItsWay(j))
      BY <2>1, <2>2, <2>3, <2>5, OnItsWayIs
    <3> QED BY <2>2, <2>3, <2>4, <2>5, <3>1, SettleStep
  <2>6. CASE dropped' = dropped /\ scheduled' = scheduled \cup {e}
    <3>1. \A j \in Jobs : OnItsWay(j)' => OnItsWay(j)
      BY <2>1, <2>2, <2>3, <2>4, <2>6, OnItsWayIs
    <3> QED BY <2>3, <2>6, <3>1, LoseStep
  <2> QED BY <2>3, <2>5, <2>6
<1>11. ASSUME NEW w \in Workers, CallRaises(w) \/ Crash(w) PROVE [Promise!Next]_jobState
  <2>1. /\ Forget(w) /\ UNCHANGED <<queue, scheduled, ingest, handled, dropped>>
        /\ \A v \in Workers : pc'[v] = "push" => pc[v] = "push" /\ v # w
    BY <1>11 DEF CallRaises, Crash, TypeInv, TypeOK
  <2>2. /\ \A v \in Workers : pc'[v] = "push" => ready'[v] = ready[v]
        /\ \A v \in Workers : hand'[v] = NoJob \/ hand'[v] = hand[v]
    BY <2>1 DEF Forget, TypeInv, TypeOK
  <2>3. \A j \in Jobs : OnItsWay(j)' => OnItsWay(j)
    BY <2>1, <2>2, OnItsWayIs
  <2> QED BY <2>1, <2>3, LoseStep
<1> QED
  BY <1>1, <1>2, <1>3, <1>4, <1>5, <1>6, <1>7, <1>8, <1>9, <1>10, <1>11, StoreStep DEF Next, Work

\* The queue implements the abstract job: whatever the workers, retries and faults do, a
\* job is taken on once, settled jobs stay settled, and one that is lost never comes back.
THEOREM ImplementsPromise == Spec => Promise!Safety
<1>1. Init => TypeInv /\ LossInv
  BY InitType, InitLoss
<1>2. TypeInv /\ LossInv /\ [Next]_vars => TypeInv' /\ LossInv'
  BY NextType, NextLoss
<1>3. Init => Promise!Init
  <2> SUFFICES ASSUME Init PROVE \A j \in Jobs : jobState[j] = "new"
    BY JobStateIs DEF Promise!Init
  <2>1. \A j \in Jobs : ingest[j] = "new" /\ j \notin Settled /\ ~OnItsWay(j)
    BY DEF Init, Settled, OnItsWay, Somewhere, InHand, Overtaken
  <2> QED BY <2>1, JobStateIs
<1>4. TypeInv /\ LossInv /\ [Next]_vars => [Promise!Next]_jobState
  BY StepSimulation
<1> QED BY <1>1, <1>2, <1>3, <1>4, PTL DEF Spec, Promise!Safety
=============================================================================
