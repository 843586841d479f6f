----------------------------- MODULE ActivityFeed -----------------------------
(***************************************************************************)
(* The activity page: a list of feed items seeded from the boards'         *)
(* snapshots and the activity list, while a stream of each kind, opened as *)
(* soon as the boards are known, pushes more.  A set of seen ids, kept     *)
(* outside React's state, decides what is pushed; updates of the list wait *)
(* for React to render.  One board, its task events and its approvals.     *)
(*                                                                         *)
(* The page learns of a task from the snapshot or from a streamed event.   *)
(* Seeded events of a task it does not know have no board, and the cursor  *)
(* of the stream leaves them out.                                          *)
(***************************************************************************)
EXTENDS Naturals, FiniteSets, Orders

CONSTANTS FeedApproval,
          FeedTaskOf,    \* task event -> its task
          MaxFeedItems,  \* MAX_FEED_ITEMS
          MaxFeedEvents  \* bound: events on the server and lost streams, together

ASSUME FeedBoundsAssumption == /\ MaxFeedItems \in Nat \ {0} /\ MaxFeedEvents \in Nat
                               /\ IsFiniteSet(FeedApproval)

FeedKind == {"task", "approval"}
NotAsked == [st |-> "none", made |-> 0, done |-> 0]

VARIABLES taskEvents,    \* stamps of the task events on the server
          openEvents,    \* stamps of those not committed yet
          asked,         \* approval -> its row on the server
          seed,          \* loadInitial: its phase, what it has read, its runs
          hasBoards,     \* boards is not empty: the streams are open or to be opened
          feedItems,     \* the list, newest arrival first
          seenIds,       \* seenIdsRef
          knownApproval, \* approvalsByIdRef
          knownTasks,    \* taskMetaByIdRef
          boardless,     \* task items of the list whose board_id is null
          updates,       \* updates of the list React has not rendered yet
          feedStream,    \* kind -> its stream
          feedEvents,    \* events of this behaviour so far
          lostItems      \* history: task events a seed replaced, the limit cut, no cursor covers
                         \* or that were committed behind one or after a later one

feedEventVars == <<taskEvents, openEvents, asked>>
feedPageVars == <<hasBoards, feedItems, seenIds, knownApproval, knownTasks, boardless, updates>>
feedVars == <<feedEventVars, seed, feedPageVars, feedStream, feedEvents, lostItems>>
-------------------------------------------------------------------------------
\* mapTaskActivity: the item of the event stamped n.
TaskItem(n) == [kind |-> "task", what |-> "task", id |-> n, at |-> n]

\* mapApprovalEvent: what happened to row r since the row previous.
ApprovalItem(a, r, previous) ==
    LET what == CASE r.st # "pending" /\ r.st # previous.st -> r.st
                  [] r.st = "pending" /\ previous = NotAsked -> "created"
                  [] OTHER -> "updated"
    IN [kind |-> "approval", what |-> what, id |-> a,
        at |-> IF what = "created" \/ r.done = 0 THEN r.made ELSE r.done]

FeedClock == Max({0} \cup taskEvents \cup openEvents \cup {asked[a].made : a \in FeedApproval}
                     \cup {asked[a].done : a \in FeedApproval})

FeedStreamDown == [up |-> FALSE, since |-> 0, sent |-> {}, wire |-> <<>>]
StreamsRestart == feedStream' = [k \in FeedKind |-> FeedStreamDown]

\* pushFeedItem's updater, on the list and the seen ids of the moment it runs.
Pushed(state, item) ==
    IF item \in state.seen THEN state
    ELSE [items |-> SubSeq(<<item>> \o state.items, 1,
                           IF Len(state.items) < MaxFeedItems THEN Len(state.items) + 1 ELSE MaxFeedItems),
          seen  |-> state.seen \cup {item}]

\* One queued update: a push, or a list that replaces whatever was there.
Updated(state, u) == IF u.push THEN Pushed(state, Head(u.items))
                               ELSE [state EXCEPT !.items = u.items]

Rendered(state, us) == FoldLeft(Updated, state, us)

\* React runs an updater at once if nothing is queued, or else when it renders.
PushFeedItem(item) ==
    \/ /\ updates = <<>>
       /\ LET next == Pushed([items |-> feedItems, seen |-> seenIds], item)
          IN /\ seenIds' = next.seen
             /\ updates' = IF next.items = feedItems THEN <<>>
                           ELSE <<[push |-> FALSE, items |-> next.items]>>
    \/ /\ updates' = Append(updates, [push |-> TRUE, items |-> <<item>>])
       /\ UNCHANGED seenIds

FeedInit ==
    /\ taskEvents = {} /\ openEvents = {}
    /\ asked \in [FeedApproval -> {NotAsked, [st |-> "pending", made |-> 1, done |-> 0]}]
    /\ seed = [phase |-> "boards", rows |-> asked, tasks |-> {}, metas |-> {},
                boardless |-> {}, runs |-> 1]
    /\ hasBoards = FALSE
    /\ feedItems = <<>>
    /\ seenIds = {}
    /\ knownApproval = [a \in FeedApproval |-> NotAsked]
    /\ knownTasks = {} /\ boardless = {}
    /\ updates = <<>>
    /\ feedStream = [k \in FeedKind |-> FeedStreamDown]
    /\ feedEvents = 0
    /\ lostItems = {}
-------------------------------------------------------------------------------
FeedEvent == feedEvents < MaxFeedEvents /\ feedEvents' = feedEvents + 1

\* record_activity stamps a task event, the commit shows it: where the cursor may be past
\* it, or other readers have seen a later one.
TaskHappens ==
    /\ FeedEvent
    /\ openEvents' = openEvents \cup {FeedClock + 1}
    /\ UNCHANGED <<taskEvents, asked, seed, feedPageVars, feedStream, lostItems>>

TaskCommits(n) ==
    LET conn == feedStream["task"]
    IN /\ n \in openEvents
       /\ openEvents' = openEvents \ {n}
       /\ taskEvents' = taskEvents \cup {n}
       /\ lostItems' = IF (conn.up /\ n < conn.since) \/ (\E m \in taskEvents : m > n)
                       THEN lostItems \cup {n} ELSE lostItems
       /\ UNCHANGED <<asked, seed, feedPageVars, feedStream, feedEvents>>

\* An approval is asked for, approved or reopened, which stamps nothing; at once, since
\* nothing is said of approvals that the stream leaves out.
ApprovalHappens(a) ==
    /\ FeedEvent
    /\ \/ asked' = [asked EXCEPT ![a] = IF @ = NotAsked
                                        THEN [st |-> "pending", made |-> FeedClock + 1, done |-> 0]
                                        ELSE [@ EXCEPT !.st = "approved", !.done = FeedClock + 1]]
       \/ /\ asked[a].st = "approved"
          /\ asked' = [asked EXCEPT ![a].st = "pending"]
    /\ UNCHANGED <<taskEvents, openEvents, seed, feedPageVars, feedStream, lostItems>>
-------------------------------------------------------------------------------
\* loadInitial.  setBoards comes first, and every new array restarts the streams.
BoardsListed ==
    /\ seed.phase = "boards"
    /\ seed' = [seed EXCEPT !.phase = "snapshot"]
    /\ hasBoards' = TRUE
    /\ StreamsRestart
    /\ UNCHANGED <<feedEventVars, feedItems, seenIds, knownApproval, knownTasks, boardless, updates,
                   feedEvents, lostItems>>

\* The snapshot is read, with the tasks that exist: the first event of a task is its
\* creation, which is stamped after the task is committed.  If it fails it is left out.
FeedSnapshotRead ==
    /\ seed.phase = "snapshot"
    /\ \/ seed' = [seed EXCEPT !.phase = "snapshotRead", !.rows = asked,
                         !.metas = {FeedTaskOf[n] : n \in taskEvents \cup openEvents}]
       \/ seed' = [seed EXCEPT !.phase = "snapshotRead", !.metas = {},
                         !.rows = [a \in FeedApproval |-> NotAsked]]
    /\ UNCHANGED <<feedEventVars, feedPageVars, feedStream, feedEvents, lostItems>>

\* Its approvals become the known ones, also where a stream has brought newer ones.
FeedSnapshotUsed ==
    /\ seed.phase = "snapshotRead"
    /\ seed' = [seed EXCEPT !.phase = "activity"]
    /\ knownApproval' = [a \in FeedApproval |-> IF seed.rows[a] = NotAsked THEN knownApproval[a]
                                                                          ELSE seed.rows[a]]
    /\ knownTasks' = knownTasks \cup seed.metas
    /\ UNCHANGED <<feedEventVars, hasBoards, feedItems, seenIds, boardless, updates, feedStream,
                   feedEvents, lostItems>>

FeedActivityRead ==
    /\ seed.phase = "activity"
    /\ seed' = [seed EXCEPT !.phase = "activityRead", !.tasks = taskEvents]
    /\ UNCHANGED <<feedEventVars, feedPageVars, feedStream, feedEvents, lostItems>>

\* The seeded list, newest first, and exactly its ids as the seen ones.
Seeded ==
    LET items == {TaskItem(n) : n \in seed.tasks} \cup
                 {ApprovalItem(a, seed.rows[a], NotAsked) :
                      a \in {b \in FeedApproval : seed.rows[b] # NotAsked}}
        sorted == Reverse(OrderedBy(items, [i \in items |-> i.at]))
    IN SubSeq(sorted, 1, IF Len(sorted) < MaxFeedItems THEN Len(sorted) ELSE MaxFeedItems)

\* mapTaskActivity: the items of tasks the page does not know have no board.
SeedIsSet == seed' = [seed EXCEPT
                 !.phase = "done",
                 !.boardless = {n \in seed.tasks : /\ TaskItem(n) \in ToSet(Seeded)
                                                  /\ FeedTaskOf[n] \notin knownTasks}]

\* Variant: the seen ids stay as they were.
FeedSeededKeepingSeen ==
    /\ seed.phase = "activityRead"
    /\ SeedIsSet
    /\ updates' = Append(updates, [push |-> FALSE, items |-> Seeded])
    /\ UNCHANGED <<feedEventVars, hasBoards, feedItems, seenIds, knownApproval, knownTasks, boardless,
                   feedStream, feedEvents, lostItems>>

\* setFeedItems(next); seenIdsRef.current = new Set(next's ids).
FeedSeeded ==
    /\ seed.phase = "activityRead"
    /\ SeedIsSet
    /\ updates' = Append(updates, [push |-> FALSE, items |-> Seeded])
    /\ seenIds' = ToSet(Seeded)
    /\ lostItems' = lostItems \cup {n \in seed.tasks : TaskItem(n) \notin ToSet(Seeded)}
    /\ UNCHANGED <<feedEventVars, hasBoards, feedItems, knownApproval, knownTasks, boardless,
                   feedStream, feedEvents>>

FeedSeedFails ==
    /\ seed.phase \in {"boards", "activity"}
    /\ seed' = [seed EXCEPT !.phase = "failed"]
    /\ UNCHANGED <<feedEventVars, feedPageVars, feedStream, feedEvents, lostItems>>

\* The user's name arrives with the membership: the callbacks that use it change, so
\* the seed and the streams start over.
NameResolves ==
    /\ seed.runs = 1
    /\ seed' = [seed EXCEPT !.phase = "boards", !.runs = 2]
    /\ StreamsRestart
    /\ UNCHANGED <<feedEventVars, feedPageVars, feedEvents, lostItems>>
-------------------------------------------------------------------------------
\* Variant: the newest item of any kind.
FeedCursorOfAnyKind(k) == Max({0} \cup {i.at : i \in ToSet(feedItems)})

\* latestTimestamp: the newest item of the kind and the board in the list, whatever was
\* cut from it.
FeedCursor(k) == Max({0} \cup {i.at : i \in {j \in ToSet(feedItems) :
                                   /\ j.kind = k
                                   /\ k = "task" => j.id \notin boardless}})

ConnectFeed(k) ==
    /\ hasBoards
    /\ ~feedStream[k].up
    /\ LET since == IF FeedCursor(k) = 0 THEN FeedClock + 1 ELSE FeedCursor(k)
       IN /\ feedStream' = [feedStream EXCEPT ![k] = [FeedStreamDown EXCEPT !.up = TRUE, !.since = since]]
          /\ lostItems' = IF k = "task" /\ FeedCursor(k) = 0 THEN lostItems \cup taskEvents
                                                             ELSE lostItems
    /\ UNCHANGED <<feedEventVars, seed, feedPageVars, feedEvents>>

LoseFeed(k) ==
    /\ FeedEvent
    /\ feedStream[k].up
    /\ feedStream' = [feedStream EXCEPT ![k] = FeedStreamDown]
    /\ UNCHANGED <<feedEventVars, seed, feedPageVars, lostItems>>

\* The server sends a task event once to a connection, and the newest approval again
\* and again, two seconds apart: React has rendered what came before.
PollFeedTasks ==
    LET conn == feedStream["task"]
        news == {n \in taskEvents : n >= conn.since} \ conn.sent
    IN /\ conn.up
       /\ news # {}
       /\ updates = <<>>
       /\ feedStream' = [feedStream EXCEPT
              !["task"] = [conn EXCEPT !.since = Max(news), !.sent = @ \cup news,
                                       !.wire = @ \o Ascending(news)]]
       /\ UNCHANGED <<feedEventVars, seed, feedPageVars, feedEvents, lostItems>>

RowStamp(r) == IF r.done > 0 THEN r.done ELSE r.made

PollFeedApprovals ==
    LET conn == feedStream["approval"]
        due  == {a \in FeedApproval : asked[a] # NotAsked /\ RowStamp(asked[a]) >= conn.since}
        rows == OrderedBy(due, [a \in due |-> asked[a].made])
    IN /\ conn.up
       /\ conn.wire = <<>>
       /\ due # {}
       /\ updates = <<>>
       /\ feedStream' = [feedStream EXCEPT !["approval"] =
              [conn EXCEPT !.since = Max({RowStamp(asked[a]) : a \in due}),
                           !.wire  = [i \in DOMAIN rows |-> <<rows[i], asked[rows[i]]>>]]]
       /\ UNCHANGED <<feedEventVars, seed, feedPageVars, feedEvents, lostItems>>

\* updateTaskMeta comes first, and an item without a board gets the stream's.
FeedTaskStreamed ==
    /\ feedStream["task"].wire # <<>>
    /\ LET n == Head(feedStream["task"].wire)
       IN PushFeedItem(TaskItem(n)) /\ knownTasks' = knownTasks \cup {FeedTaskOf[n]}
    /\ feedStream' = [feedStream EXCEPT !["task"].wire = Tail(@)]
    /\ UNCHANGED <<feedEventVars, seed, hasBoards, feedItems, knownApproval, boardless, feedEvents,
                   lostItems>>

\* A row that changed nothing is "updated".
FeedApprovalStreamed ==
    /\ feedStream["approval"].wire # <<>>
    /\ LET a == Head(feedStream["approval"].wire)[1]
           r == Head(feedStream["approval"].wire)[2]
       IN /\ PushFeedItem(ApprovalItem(a, r, knownApproval[a]))
          /\ knownApproval' = [knownApproval EXCEPT ![a] = r]
    /\ feedStream' = [feedStream EXCEPT !["approval"].wire = Tail(@)]
    /\ UNCHANGED <<feedEventVars, seed, hasBoards, feedItems, knownTasks, boardless, feedEvents,
                   lostItems>>

\* React runs the queued updates in their order.
RenderFeed ==
    /\ updates # <<>>
    /\ updates' = <<>>
    /\ LET next == Rendered([items |-> feedItems, seen |-> seenIds], updates)
           Queued == UNION {ToSet(updates[i].items) : i \in DOMAIN updates}
           Gone == (ToSet(feedItems) \cup Queued) \ ToSet(next.items)
       IN /\ feedItems' = next.items
          /\ seenIds' = next.seen
          /\ lostItems' = lostItems \cup {i.at : i \in {j \in Gone : j.kind = "task"}}
    /\ boardless' = seed.boardless
    /\ UNCHANGED <<feedEventVars, seed, hasBoards, knownApproval, knownTasks, feedStream, feedEvents>>

FeedSeeding == \/ BoardsListed \/ FeedSnapshotRead \/ FeedSnapshotUsed
               \/ FeedActivityRead \/ FeedSeeded \/ FeedSeedFails \/ NameResolves

FeedNext == \/ TaskHappens
            \/ \E n \in openEvents : TaskCommits(n)
            \/ \E a \in FeedApproval : ApprovalHappens(a)
            \/ FeedSeeding
            \/ \E k \in FeedKind : ConnectFeed(k) \/ LoseFeed(k)
            \/ PollFeedTasks \/ PollFeedApprovals
            \/ FeedTaskStreamed \/ FeedApprovalStreamed
            \/ RenderFeed

FeedSpec == FeedInit /\ [][FeedNext]_feedVars
-------------------------------------------------------------------------------
FeedItemType == [kind : FeedKind, what : {"task", "created", "approved", "updated"},
                 id : FeedApproval \cup Nat, at : Nat]

FeedTypeOK ==
    /\ taskEvents \cup openEvents \cup boardless \cup lostItems \subseteq Nat
    /\ seed.phase \in {"boards", "snapshot", "snapshotRead", "activity", "activityRead", "done", "failed"}
    /\ hasBoards \in BOOLEAN
    /\ ToSet(feedItems) \cup seenIds \subseteq FeedItemType
    /\ Len(feedItems) <= MaxFeedItems
    /\ \A i \in DOMAIN updates : updates[i].push \in BOOLEAN
    /\ feedEvents \in Nat

\* No entry is listed twice, whatever comes before, during and after a seed that
\* resets the seen ids while pushes wait to be rendered.
FeedItemsOnce == IsInjective(feedItems)

\* With the streams up and everything streamed rendered, a task event is listed,
\* unless a seed replaced it, the limit cut it, it was committed after a later one or
\* behind the cursor, or it is from before a connection made while no task item of
\* the board was listed: other kinds can push the last of them out, and items seeded
\* after a failed snapshot are of no board.
FeedHasEvents ==
    LET conn == feedStream["task"]
    IN conn.up /\ conn.wire = <<>> /\ updates = <<>> /\ seed.phase = "done"
          => \A n \in taskEvents \ lostItems :
                TaskItem(n) \in ToSet(feedItems) \/ (n >= conn.since /\ n \notin conn.sent)
===============================================================================
