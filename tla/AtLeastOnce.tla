---------------------------- MODULE AtLeastOnce ----------------------------
(***************************************************************************)
(* What the background queue promises each job, whatever Redis list,       *)
(* sorted set or worker it is in: a job that was taken on is settled       *)
(* (handled, given up or discarded) or lost, it does not wait forever, and *)
(* once settled it stays settled however many copies of it are still about.*)
(***************************************************************************)
CONSTANT Jobs

VARIABLE state   \* job -> "new", "waiting", "settled" or "lost"

Init == state = [j \in Jobs |-> "new"]

Accept(j) == state[j] = "new" /\ state' = [state EXCEPT ![j] = "waiting"]

Settle(j) == state[j] = "waiting" /\ state' = [state EXCEPT ![j] = "settled"]

\* One failure may take the last copies of several jobs.
Lose(gone) ==
    /\ \A j \in gone : state[j] = "waiting"
    /\ state' = [j \in Jobs |-> IF j \in gone THEN "lost" ELSE state[j]]

Next == \/ \E j \in Jobs : Accept(j) \/ Settle(j)
        \/ \E gone \in SUBSET Jobs : Lose(gone)

Safety == Init /\ [][Next]_state

Spec == /\ Safety
        /\ \A j \in Jobs :
             WF_state(Settle(j) \/ \E gone \in SUBSET Jobs : j \in gone /\ Lose(gone))
=============================================================================
