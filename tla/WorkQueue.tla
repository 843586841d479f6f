----------------------------- MODULE WorkQueue -----------------------------
(***************************************************************************)
(* The Redis work queue: a webhook delivery is stored and pushed by the    *)
(* API, popped, handled, retried with a delay and given up by the workers. *)
(*                                                                         *)
(* Redis keeps a list of envelopes (LPUSH at the left, RPOP at the right)  *)
(* and a sorted set of the envelopes to retry later.  Every Redis call is  *)
(* atomic; nothing ties two calls together, so each is a step of its own.  *)
(* The score of a scheduled envelope is abstracted to whether it is due.   *)
(***************************************************************************)
EXTENDS Naturals, SequencesExt

CONSTANTS Jobs,        \* payload ids
          Workers,     \* processes that run _run_worker_loop
          NoJob,       \* "no envelope in hand"
          Unhandled,   \* jobs no worker can decode or has a handler for
          MaxRetries,  \* settings.rq_dispatch_max_retries
          MaxFaults    \* bound: crashes and outages in one behaviour

ASSUME UnhandledAssumption == Unhandled \subseteq Jobs
ASSUME MaxRetriesAssumption == MaxRetries \in Nat
ASSUME MaxFaultsAssumption == MaxFaults \in Nat

Envelope == [job : Jobs, attempts : 0 .. MaxRetries]
ASSUME NoJobAssumption == NoJob \notin Envelope

VARIABLES queue,      \* the list, the next envelope to pop first
          scheduled,  \* the sorted set: equal envelopes are one member
          due,        \* the scheduled envelopes whose time has come
          redisUp,    \* whether Redis answers
          ingest,     \* job -> progress of the request that brings it
          pc,         \* worker -> the call it makes next
          ending,     \* worker -> whether its last pop found nothing
          ready,      \* worker -> the due envelopes it read and is moving
          hand,       \* worker -> the envelope it popped
          faults,     \* crashes and outages so far
          failures,   \* history: job -> times its handler raised
          handled,    \* history: jobs whose handler returned
          dropped,    \* history: jobs given up or discarded
          lost,       \* history: jobs that lost a copy to a fault
          torn        \* history: jobs moved by a drain that was cut or overlapped

redis == <<queue, scheduled, due>>
history == <<failures, handled, dropped, lost, torn>>
vars == <<redis, redisUp, ingest, pc, ending, ready, hand, faults, history>>
-----------------------------------------------------------------------------
Goto(w, label) == pc' = [pc EXCEPT ![w] = label]

Settled == handled \cup dropped

\* Positions and hands that hold a copy of j.  An envelope that is pushed but
\* not yet removed from the sorted set is one copy on its way.
InList(j) == {i \in DOMAIN queue : queue[i].job = j}
Moving == UNION {ready[w] : w \in {v \in Workers : pc[v] = "remove"}}
InSet(j) == {e \in scheduled \ Moving : e.job = j}
InHand(j) == {w \in Workers : hand[w] # NoJob /\ hand[w].job = j}
Copies(j) == Cardinality(InList(j)) + Cardinality(InSet(j)) + Cardinality(InHand(j))
Somewhere(j) == \/ \E i \in DOMAIN queue : queue[i].job = j
                \/ \E e \in scheduled : e.job = j
                \/ InHand(j) # {}

Init ==
    /\ queue = <<>> /\ scheduled = {} /\ due = {} /\ redisUp = TRUE
    /\ ingest = [j \in Jobs |-> "new"]
    /\ pc = [w \in Workers |-> "loop"]
    /\ ending = [w \in Workers |-> FALSE]
    /\ ready = [w \in Workers |-> {}]
    /\ hand = [w \in Workers |-> NoJob]
    /\ faults = 0
    /\ failures = [j \in Jobs |-> 0]
    /\ handled = {} /\ dropped = {} /\ lost = {} /\ torn = {}
-----------------------------------------------------------------------------
(***************************************************************************)
(* ingest_board_webhook: the payload is committed, then pushed.            *)
(***************************************************************************)
StorePayload(j) ==
    /\ ingest[j] = "new"
    /\ ingest' = [ingest EXCEPT ![j] = "stored"]
    /\ UNCHANGED <<redis, redisUp, pc, ending, ready, hand, faults, history>>

\* enqueue_task returns whether the push succeeded; enqueue_webhook_delivery
\* does not look at it.
EnqueueReturns(pushed) == TRUE

\* A request told that queueing failed notifies the lead itself.
Enqueue(j) ==
    LET told == EnqueueReturns(redisUp) IN
    /\ ingest[j] = "stored"
    /\ ingest' = [ingest EXCEPT ![j] = "answered"]
    /\ queue' = IF redisUp THEN Append(queue, [job |-> j, attempts |-> 0]) ELSE queue
    /\ handled' = IF told THEN handled ELSE handled \cup {j}
    /\ lost' = IF redisUp \/ ~told THEN lost ELSE lost \cup {j}
    /\ UNCHANGED <<scheduled, due, redisUp, pc, ending, ready, hand, faults, failures,
                   dropped, torn>>

\* The API process dies between the commit and the push.
ApiCrash(j) ==
    /\ ingest[j] = "stored" /\ faults < MaxFaults
    /\ ingest' = [ingest EXCEPT ![j] = "dead"]
    /\ faults' = faults + 1
    /\ lost' = lost \cup {j}
    /\ UNCHANGED <<redis, redisUp, pc, ending, ready, hand, failures, handled, dropped, torn>>
-----------------------------------------------------------------------------
(***************************************************************************)
(* _run_worker_loop, flush_queue, dequeue_task: drain what is due, pop.    *)
(***************************************************************************)
\* The top of _run_worker_loop, where the recovery sweep has its turn.
Loop(w) ==
    /\ pc[w] = "loop"
    /\ Goto(w, "select")
    /\ ending' = [ending EXCEPT ![w] = FALSE]
    /\ UNCHANGED <<redis, redisUp, ingest, ready, hand, faults, history>>

AfterDrain(w) == IF ending[w] THEN "loop" ELSE "pop"

\* Variant: the drain is left out.
SelectNothing(w) ==
    /\ pc[w] = "select" /\ redisUp
    /\ Goto(w, AfterDrain(w))
    /\ UNCHANGED <<redis, redisUp, ingest, ending, ready, hand, faults, history>>

\* Variant: the envelopes are removed before they are pushed.
SelectReadyRemoving(w) ==
    /\ pc[w] = "select" /\ redisUp
    /\ \E batch \in SUBSET due :
         /\ batch = {} => due = {}
         /\ ready' = [ready EXCEPT ![w] = batch]
         /\ scheduled' = scheduled \ batch
         /\ due' = due \ batch
         /\ Goto(w, IF batch = {} THEN AfterDrain(w) ELSE "push")
    /\ UNCHANGED <<queue, redisUp, ingest, ending, hand, faults, history>>

\* _drain_ready_scheduled_tasks reads the envelopes due at a moment that has
\* passed: more may be due by now.
SelectReady(w) ==
    /\ pc[w] = "select" /\ redisUp
    /\ \E batch \in SUBSET due :
         /\ batch = {} => due = {}
         /\ ready' = [ready EXCEPT ![w] = batch]
         /\ torn' = torn \cup {e.job : e \in batch \cap UNION {ready[v] : v \in Workers}}
         /\ Goto(w, IF batch = {} THEN AfterDrain(w) ELSE "push")
    /\ UNCHANGED <<redis, redisUp, ingest, ending, hand, faults, failures, handled, dropped,
                   lost>>

PushReady(w) ==
    /\ pc[w] = "push" /\ redisUp
    /\ \E batch \in SetToSeqs(ready[w]) : queue' = queue \o batch
    /\ Goto(w, "remove")
    /\ UNCHANGED <<scheduled, due, redisUp, ingest, ending, ready, hand, faults, history>>

\* Variant: the envelopes stay in the sorted set.
RemoveNothing(w) ==
    /\ pc[w] = "remove" /\ redisUp
    /\ ready' = [ready EXCEPT ![w] = {}]
    /\ Goto(w, AfterDrain(w))
    /\ UNCHANGED <<redis, redisUp, ingest, ending, hand, faults, history>>

RemoveReady(w) ==
    /\ pc[w] = "remove" /\ redisUp
    /\ scheduled' = scheduled \ ready[w]
    /\ due' = due \ ready[w]
    /\ ready' = [ready EXCEPT ![w] = {}]
    /\ Goto(w, AfterDrain(w))
    /\ UNCHANGED <<queue, redisUp, ingest, ending, hand, faults, history>>

\* An envelope that cannot be decoded, or has no handler, is popped and gone.
Pop(w) ==
    LET e == Head(queue) IN
    /\ pc[w] = "pop" /\ redisUp /\ queue # <<>>
    /\ queue' = Tail(queue)
    /\ IF e.job \in Unhandled
       THEN /\ dropped' = dropped \cup {e.job}
            /\ Goto(w, "select")
            /\ UNCHANGED hand
       ELSE /\ hand' = [hand EXCEPT ![w] = e]
            /\ Goto(w, "handle")
            /\ UNCHANGED dropped
    /\ UNCHANGED <<scheduled, due, redisUp, ingest, ending, ready, faults, failures, handled,
                   lost, torn>>

\* BRPOP times out: drain once more and end the batch.
PopNothing(w) ==
    /\ pc[w] = "pop" /\ redisUp /\ queue = <<>>
    /\ ending' = [ending EXCEPT ![w] = TRUE]
    /\ Goto(w, "select")
    /\ UNCHANGED <<redis, redisUp, ingest, ready, hand, faults, history>>

Handle(w) ==
    /\ pc[w] = "handle"
    /\ handled' = handled \cup {hand[w].job}
    /\ hand' = [hand EXCEPT ![w] = NoJob]
    /\ Goto(w, "select")
    /\ UNCHANGED <<redis, redisUp, ingest, ending, ready, faults, failures, dropped, lost, torn>>

HandlerRaises(w) ==
    /\ pc[w] = "handle"
    /\ failures' = [failures EXCEPT ![hand[w].job] = @ + 1]
    /\ Goto(w, "requeue")
    /\ UNCHANGED <<redis, redisUp, ingest, ending, ready, hand, faults, handled, dropped, lost,
                   torn>>

\* Variant: the limit is compared with the attempts made before this one.
RequeueLate(w) ==
    LET e == [hand[w] EXCEPT !.attempts = @ + 1] IN
    /\ pc[w] = "requeue"
    /\ IF hand[w].attempts > MaxRetries
       THEN dropped' = dropped \cup {e.job} /\ UNCHANGED <<scheduled, due>>
       ELSE /\ redisUp
            /\ scheduled' = scheduled \cup {e}
            /\ due' = due \ {e}
            /\ UNCHANGED dropped
    /\ hand' = [hand EXCEPT ![w] = NoJob]
    /\ Goto(w, "select")
    /\ UNCHANGED <<queue, redisUp, ingest, ending, ready, faults, failures, handled, lost, torn>>

\* Variant: the limit counts the first attempt as a retry.
RequeueEarly(w) ==
    LET e == [hand[w] EXCEPT !.attempts = @ + 1] IN
    /\ pc[w] = "requeue"
    /\ IF e.attempts >= MaxRetries
       THEN dropped' = dropped \cup {e.job} /\ UNCHANGED <<scheduled, due>>
       ELSE /\ redisUp
            /\ scheduled' = scheduled \cup {e}
            /\ due' = due \ {e}
            /\ UNCHANGED dropped
    /\ hand' = [hand EXCEPT ![w] = NoJob]
    /\ Goto(w, "select")
    /\ UNCHANGED <<queue, redisUp, ingest, ending, ready, faults, failures, handled, lost, torn>>

\* requeue_if_failed, with a delay; ZADD of a member that is there renews its score.
Requeue(w) ==
    LET e == [hand[w] EXCEPT !.attempts = @ + 1] IN
    /\ pc[w] = "requeue"
    /\ IF e.attempts > MaxRetries
       THEN dropped' = dropped \cup {e.job} /\ UNCHANGED <<scheduled, due>>
       ELSE /\ redisUp
            /\ scheduled' = scheduled \cup {e}
            /\ due' = due \ {e}
            /\ UNCHANGED dropped
    /\ hand' = [hand EXCEPT ![w] = NoJob]
    /\ Goto(w, "select")
    /\ UNCHANGED <<queue, redisUp, ingest, ending, ready, faults, failures, handled, lost, torn>>

BecomeDue(e) ==
    /\ e \in scheduled \ due
    /\ due' = due \cup {e}
    /\ UNCHANGED <<queue, scheduled, redisUp, ingest, pc, ending, ready, hand, faults, history>>
-----------------------------------------------------------------------------
(***************************************************************************)
(* Faults.                                                                 *)
(***************************************************************************)
RedisDown ==
    /\ redisUp /\ faults < MaxFaults
    /\ redisUp' = FALSE
    /\ faults' = faults + 1
    /\ UNCHANGED <<redis, ingest, pc, ending, ready, hand, history>>

RedisBack ==
    /\ ~redisUp
    /\ redisUp' = TRUE
    /\ UNCHANGED <<redis, ingest, pc, ending, ready, hand, faults, history>>

\* What a worker forgets when a call raises or its process dies.
Forget(w) ==
    /\ ready' = [ready EXCEPT ![w] = {}]
    /\ hand' = [hand EXCEPT ![w] = NoJob]
    /\ ending' = [ending EXCEPT ![w] = FALSE]
    /\ torn' = IF pc[w] = "remove" THEN torn \cup {e.job : e \in ready[w]} ELSE torn
    /\ lost' = IF hand[w] = NoJob THEN lost ELSE lost \cup {hand[w].job}

\* A Redis call raises.  flush_queue catches what dequeue_task raises and
\* tries again at once; what requeue raises ends the batch, and the envelope
\* in hand with it.
CallRaises(w) ==
    /\ ~redisUp
    /\ \/ pc[w] \in {"select", "push", "remove", "pop"}
       \/ pc[w] = "requeue" /\ hand[w].attempts < MaxRetries
    /\ Goto(w, IF pc[w] = "requeue" THEN "loop" ELSE "select")
    /\ Forget(w)
    /\ UNCHANGED <<redis, redisUp, ingest, faults, failures, handled, dropped>>

\* The worker's process dies and its container restarts.
Crash(w) ==
    /\ faults < MaxFaults
    /\ faults' = faults + 1
    /\ Goto(w, "loop")
    /\ Forget(w)
    /\ UNCHANGED <<redis, redisUp, ingest, failures, handled, dropped>>

Work(w) ==
    \/ Loop(w) \/ SelectReady(w) \/ PushReady(w) \/ RemoveReady(w)
    \/ Pop(w) \/ PopNothing(w) \/ Handle(w) \/ HandlerRaises(w) \/ Requeue(w)

Next ==
    \/ \E j \in Jobs : StorePayload(j) \/ Enqueue(j) \/ ApiCrash(j)
    \/ \E w \in Workers : Work(w) \/ CallRaises(w) \/ Crash(w)
    \/ \E e \in scheduled : BecomeDue(e)
    \/ RedisDown \/ RedisBack

\* Processes run, time passes and an outage ends; nobody has to send a
\* webhook, and a handler need never succeed.
Fairness ==
    /\ \A w \in Workers : WF_vars(Work(w) \/ CallRaises(w))
    /\ \A j \in Jobs : WF_vars(Enqueue(j))
    /\ \A e \in Envelope : WF_vars(BecomeDue(e))
    /\ WF_vars(RedisBack)

Spec == Init /\ [][Next]_vars
FairSpec == Spec /\ Fairness
-----------------------------------------------------------------------------
(***************************************************************************)
(* Properties                                                              *)
(***************************************************************************)
\* Variables keep their shape; a worker holds an envelope only while it
\* handles or requeues it, and moves one only while it drains.
TypeOK ==
    /\ queue \in Seq(Envelope)
    /\ scheduled \subseteq Envelope
    /\ due \subseteq scheduled
    /\ redisUp \in BOOLEAN
    /\ ingest \in [Jobs -> {"new", "stored", "answered", "dead"}]
    /\ pc \in [Workers -> {"loop", "select", "push", "remove", "pop", "handle", "requeue"}]
    /\ ending \in [Workers -> BOOLEAN]
    /\ ready \in [Workers -> SUBSET Envelope]
    /\ hand \in [Workers -> Envelope \cup {NoJob}]
    /\ \A w \in Workers : /\ hand[w] # NoJob <=> pc[w] \in {"handle", "requeue"}
                          /\ ready[w] # {} <=> pc[w] \in {"push", "remove"}
    /\ faults \in 0 .. MaxFaults
    /\ failures \in [Jobs -> Nat]
    /\ handled \subseteq Jobs /\ dropped \subseteq Jobs
    /\ lost \subseteq Jobs /\ torn \subseteq Jobs

\* However the drains, pops and retries of the workers interleave, and
\* wherever one of them is cut, a job whose request was answered is handled,
\* given up, or has a copy in Redis or in a worker's hands, unless a fault
\* took a copy out of a worker's hands or kept it from Redis.
NothingLost ==
    \A j \in Jobs : ingest[j] = "answered" /\ j \notin lost => j \in Settled \/ Somewhere(j)

\* A job is never in two places at once, nor anywhere once it is settled: it is
\* handled once.  The only exceptions are a drain cut between its LPUSH and its
\* ZREM, and two drains that read the same envelope.
OneCopy ==
    \A j \in Jobs \ torn : Copies(j) + (IF j \in Settled THEN 1 ELSE 0) <= 1

\* A job with a handler is given up only after its first attempt and
\* MaxRetries retries have all failed.
GivenUpAfterRetries ==
    \A j \in dropped \ Unhandled : failures[j] > MaxRetries

\* "Preserve historical behavior by still notifying synchronously if queueing
\* fails": a request that could not push its job notifies the lead itself.
NotifiedWhenQueueingFails ==
    [][\A j \in Jobs : ingest[j] = "stored" /\ ingest'[j] = "answered"
         => Somewhere(j)' \/ j \in Settled']_vars

\* A drain that was overtaken still pushes what it read.
Overtaken(j) == \E w \in Workers : pc[w] = "push" /\ \E e \in ready[w] : e.job = j

\* The abstract job: workers, lists, retries and faults all implement it.
jobState == [j \in Jobs |->
               IF j \in Settled THEN "settled"
               ELSE IF ingest[j] = "stored" \/ Somewhere(j) \/ Overtaken(j) THEN "waiting"
               ELSE IF ingest[j] = "new" THEN "new" ELSE "lost"]

Promise == INSTANCE AtLeastOnce WITH state <- jobState

\* Every job that is stored is settled or lost in the end, settled jobs stay
\* settled, and a job is lost for good.
AtLeastOnceDelivery == Promise!Spec
=============================================================================
