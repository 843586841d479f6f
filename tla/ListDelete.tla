------------------------------ MODULE ListDelete ------------------------------
(***************************************************************************)
(* createOptimisticListDeleteMutation over a cached list query: deletions  *)
(* take their item out of the cache before the server is asked, put the    *)
(* list back as they found it when they fail, and have it fetched again    *)
(* when they end; several may be in flight.                                *)
(***************************************************************************)
EXTENDS Naturals, FiniteSets

CONSTANTS Item,
          MaxRefetches  \* bound: fetches of the query's own interval

ASSUME RefetchesAssumption == MaxRefetches \in Nat

VARIABLES stored,      \* items on the server
          cached,      \* items of the cached list
          fetch,       \* the query's fetch
          deletions,   \* deletions in flight, with the list each found
          refetches,   \* fetches of the interval so far
          fetchFailed, \* the last fetch failed: the list stays as it is
          restored     \* history: items another step put back while being deleted

listVars == <<stored, cached, fetch, deletions, refetches, fetchFailed, restored>>
-------------------------------------------------------------------------------
NoFetch == [phase |-> "idle", rows |-> {}]
Deleting == {d.item : d \in deletions}

\* A fetch begins while the deletions left are in flight.
Refetch(left) ==
    /\ fetch' = [phase |-> "sent", rows |-> {}]
    /\ deletions' = {[d EXCEPT !.refetched = TRUE] : d \in left}

ListInit ==
    /\ stored = Item
    /\ cached = Item
    /\ fetch = NoFetch
    /\ deletions = {}
    /\ refetches = 0
    /\ fetchFailed = FALSE
    /\ restored = {}

\* The interval asks again; a fetch in flight is kept.
IntervalFetch ==
    /\ refetches < MaxRefetches
    /\ refetches' = refetches + 1
    /\ fetch.phase = "idle"
    /\ Refetch(deletions)
    /\ UNCHANGED <<stored, cached, fetchFailed, restored>>

FetchRead ==
    /\ fetch.phase = "sent"
    /\ fetch' = [phase |-> "read", rows |-> stored]
    /\ UNCHANGED <<stored, cached, deletions, refetches, fetchFailed, restored>>

\* A fetch that began after a deletion's own step knows nothing of it.
FetchAnswered ==
    /\ fetch.phase = "read"
    /\ fetch' = NoFetch
    /\ cached' = fetch.rows
    /\ fetchFailed' = FALSE
    /\ restored' = restored \cup ({d.item : d \in {e \in deletions : e.refetched}} \cap fetch.rows)
    /\ UNCHANGED <<stored, deletions, refetches>>

FetchFails ==
    /\ fetch.phase # "idle"
    /\ fetch' = NoFetch
    /\ fetchFailed' = TRUE
    /\ UNCHANGED <<stored, cached, deletions, refetches, restored>>

\* Variant: the fetch in flight is not cancelled.
OnMutateWithoutCancel(i) ==
    /\ i \in cached /\ i \notin Deleting
    /\ cached' = cached \ {i}
    /\ deletions' = deletions \cup {[item |-> i, found |-> cached, phase |-> "sent", ok |-> FALSE,
                                     refetched |-> FALSE]}
    /\ restored' = restored \ {i}
    /\ UNCHANGED <<stored, fetch, refetches, fetchFailed>>

\* onMutate: the fetch is cancelled, so that it cannot bring the item back.
OnMutate(i) ==
    /\ i \in cached /\ i \notin Deleting
    /\ fetch' = NoFetch
    /\ cached' = cached \ {i}
    /\ deletions' = deletions \cup {[item |-> i, found |-> cached, phase |-> "sent", ok |-> FALSE,
                                     refetched |-> FALSE]}
    /\ restored' = restored \ {i}
    /\ UNCHANGED <<stored, refetches, fetchFailed>>

\* The server deletes the item, or refuses; its answer may be lost.
ServeDeletion(d) ==
    /\ d \in deletions /\ d.phase = "sent"
    /\ \E done, ok \in BOOLEAN :
          /\ ok => done
          /\ stored' = IF done THEN stored \ {d.item} ELSE stored
          /\ deletions' = (deletions \ {d}) \cup {[d EXCEPT !.phase = "served", !.ok = ok]}
    /\ UNCHANGED <<cached, fetch, refetches, fetchFailed, restored>>

\* Variant: only a failed deletion has the list fetched again.
DeletionSucceedsQuietly(d) ==
    /\ d \in deletions /\ d.phase = "served" /\ d.ok
    /\ deletions' = deletions \ {d}
    /\ UNCHANGED <<stored, cached, fetch, refetches, fetchFailed, restored>>

\* onSuccess and onSettled: invalidateQueries replaces a fetch in flight by a new one.
DeletionSucceeds(d) ==
    /\ d \in deletions /\ d.phase = "served" /\ d.ok
    /\ Refetch(deletions \ {d})
    /\ UNCHANGED <<stored, cached, refetches, fetchFailed, restored>>

\* onError puts back the whole list as the deletion found it; then onSettled.
DeletionFails(d) ==
    /\ d \in deletions /\ d.phase = "served" /\ ~d.ok
    /\ cached' = d.found
    /\ restored' = restored \cup (d.found \cap (Deleting \ {d.item}))
    /\ Refetch(deletions \ {d})
    /\ UNCHANGED <<stored, refetches, fetchFailed>>

ListNext == \/ IntervalFetch \/ FetchRead \/ FetchAnswered \/ FetchFails
            \/ \E i \in Item : OnMutate(i)
            \/ \E d \in deletions : ServeDeletion(d) \/ DeletionSucceeds(d) \/ DeletionFails(d)

ListSpec == ListInit /\ [][ListNext]_listVars
-------------------------------------------------------------------------------
ListTypeOK ==
    /\ stored \subseteq Item /\ cached \subseteq Item /\ restored \subseteq Item
    /\ fetch \in [phase : {"idle", "sent", "read"}, rows : SUBSET Item]
    /\ deletions \subseteq [item : Item, found : SUBSET Item, phase : {"sent", "served"},
                            ok : BOOLEAN, refetched : BOOLEAN]
    /\ refetches \in Nat
    /\ fetchFailed \in BOOLEAN

\* An item being deleted is not listed, unless another deletion failed meanwhile and
\* put back the list from before, or a fetch begun after this deletion brought it.
DeletingIsHidden == \A d \in deletions : d.item \in cached => d.item \in restored

\* With no deletion and no fetch in flight the list is the server's, unless the last
\* fetch failed: however deletions overlap and fail, none leaves the list of another.
ListSettles == deletions = {} /\ fetch.phase = "idle" => cached = stored \/ fetchFailed
===============================================================================
