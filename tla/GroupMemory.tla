------------------------------ MODULE GroupMemory ------------------------------
(***************************************************************************)
(* The chat and the notes of a board group's page: at most one of the two  *)
(* panels is open; its history is a cached query, refetched when it has    *)
(* become stale, and its stream starts at the newest message shown, or     *)
(* from the server's clock if none is.  A stream that fails is connected   *)
(* again; one that ends is not.                                            *)
(*                                                                         *)
(* A message is numbered by its created_at; its commit comes later.        *)
(***************************************************************************)
EXTENDS Orders, FiniteSets

CONSTANTS MaxMemories,     \* bound: messages of the group
          MaxGroupToggles  \* bound: panels toggled, focus lost, streams failed or ended

ASSUME GroupBoundsAssumption == {MaxMemories, MaxGroupToggles} \subseteq Nat

MemoryKind == {"chat", "note"}

VARIABLES memories,     \* the server's messages: their kinds, by created_at
          unsaved,      \* those not committed yet
          lists,        \* kind -> chatMessages or notesMessages
          openList,     \* isChatOpen, isNotesOpen
          query,        \* kind -> the history query: a fetch, and what is cached
          memoryConn,   \* the stream of the open list
          posting,      \* messages of this page in flight
          groupToggles,
          missed        \* history: messages that no fetch and no cursor covers, or that are
                        \* committed behind one

groupVars == <<memories, unsaved, lists, openList, query, memoryConn, posting, groupToggles, missed>>
--------------------------------------------------------------------------------
OfKind(k) == {m \in DOMAIN memories \ unsaved : memories[m] = k}
NoMemoryConn == [state |-> "off", since |-> 0, wire |-> <<>>]
Connecting == [NoMemoryConn EXCEPT !.state = "connecting"]
NoQuery == [phase |-> "idle", rows |-> {}, fetched |-> FALSE, cached |-> {}]

\* Variant: what the query cached replaces the list.
ReplaceByCached(k, q) == lists' = [lists EXCEPT ![k] = q.cached]

\* The effect merges the cached history into the list shown.
MergeCached(k, q) == lists' = [lists EXCEPT ![k] = @ \cup q.cached]

GroupInit ==
    /\ memories \in {<<>>, <<"chat">>} /\ unsaved = {}
    /\ lists = [k \in MemoryKind |-> {}]
    /\ openList = "none"
    /\ query = [k \in MemoryKind |-> NoQuery]
    /\ memoryConn = NoMemoryConn
    /\ posting = {}
    /\ groupToggles = 0
    /\ missed = {}

GroupToggle == groupToggles < MaxGroupToggles /\ groupToggles' = groupToggles + 1

\* The row gets its created_at; the transaction is committed later.
MemoryStamped(k) ==
    /\ memories' = Append(memories, k)
    /\ unsaved' = unsaved \cup {Len(memories')}
    /\ UNCHANGED <<lists, openList, query, memoryConn, groupToggles, missed>>

MemoryWritten(k) ==
    /\ Len(memories) < MaxMemories
    /\ MemoryStamped(k)
    /\ UNCHANGED posting

MemoryCommits(m) ==
    /\ m \in unsaved
    /\ unsaved' = unsaved \ {m}
    /\ missed' = IF /\ memoryConn.state = "up" /\ memories[m] = openList
                    /\ m < memoryConn.since /\ query[openList].phase # "sent"
                 THEN missed \cup {m} ELSE missed
    /\ UNCHANGED <<memories, lists, openList, query, memoryConn, posting, groupToggles>>

\* The panel opens, or its page gets the focus back: the stream's effect runs, and the
\* history is fetched unless it is cached and not stale.
Activate(k) ==
    /\ GroupToggle
    /\ k # openList \/ memoryConn.state = "off"
    /\ openList' = k
    /\ memoryConn' = Connecting
    /\ \/ /\ query[k].phase = "idle"
          /\ query' = [query EXCEPT ![k].phase = "sent"]
       \/ /\ query[k].phase # "idle" \/ query[k].fetched
          /\ UNCHANGED query
    /\ MergeCached(k, query[k])
    /\ UNCHANGED <<memories, unsaved, posting, missed>>

\* The panel is closed, or the page loses the focus with the panel open.
Deactivate(closed) ==
    /\ GroupToggle
    /\ openList # "none"
    /\ openList' = IF closed THEN "none" ELSE openList
    /\ memoryConn' = NoMemoryConn
    /\ UNCHANGED <<memories, unsaved, lists, query, posting, missed>>
--------------------------------------------------------------------------------
HistoryRead(k) ==
    /\ query[k].phase = "sent"
    /\ query' = [query EXCEPT ![k].phase = "read", ![k].rows = OfKind(k)]
    /\ UNCHANGED <<memories, unsaved, lists, openList, memoryConn, posting, groupToggles, missed>>

HistoryMerged(k) ==
    /\ query[k].phase = "read"
    /\ query' = [query EXCEPT ![k] = [phase |-> "idle", rows |-> {}, fetched |-> TRUE,
                                            cached |-> query[k].rows]]
    /\ IF openList = k THEN MergeCached(k, query'[k]) ELSE UNCHANGED lists
    /\ UNCHANGED <<memories, unsaved, openList, memoryConn, posting, groupToggles, missed>>

\* The query is not retried.
HistoryFails(k) ==
    /\ query[k].phase = "sent"
    /\ query' = [query EXCEPT ![k].phase = "idle"]
    /\ missed' = missed \cup OfKind(k)
    /\ UNCHANGED <<memories, unsaved, lists, openList, memoryConn, posting, groupToggles>>

\* latestMemoryTimestamp of the list is the cursor.
MemoryCursor(k) == IF lists[k] = {} THEN Len(memories) + 1 ELSE Max(lists[k])

ConnectMemory ==
    /\ memoryConn.state = "connecting"
    /\ LET since == MemoryCursor(openList)
       IN /\ memoryConn' = [state |-> "up", since |-> since, wire |-> <<>>]
          /\ missed' = IF query[openList].phase = "sent" THEN missed
                       ELSE missed \cup {m \in OfKind(openList) : m < since}
    /\ UNCHANGED <<memories, unsaved, lists, openList, query, posting, groupToggles>>

\* An error is caught and connects again after a backoff; the end of the response is not.
StreamBreaks(fails) ==
    /\ GroupToggle
    /\ memoryConn.state = "up"
    /\ memoryConn' = IF fails THEN Connecting ELSE [NoMemoryConn EXCEPT !.state = "ended"]
    /\ UNCHANGED <<memories, unsaved, lists, openList, query, posting, missed>>

\* Every message of the kind from the cursor on; a repeated one changes nothing.
UnsentMemories == {m \in OfKind(openList) : m >= memoryConn.since}
                      \ (ToSet(memoryConn.wire) \cup lists[openList])

PollMemory ==
    /\ memoryConn.state = "up"
    /\ UnsentMemories # {}
    /\ memoryConn' = [memoryConn EXCEPT !.since = Max(UnsentMemories \cup {@}),
                                        !.wire = @ \o Ascending(UnsentMemories)]
    /\ UNCHANGED <<memories, unsaved, lists, openList, query, posting, groupToggles, missed>>

MemoryStreamed ==
    /\ memoryConn.wire # <<>>
    /\ lists' = [lists EXCEPT ![openList] = @ \cup {Head(memoryConn.wire)}]
    /\ memoryConn' = [memoryConn EXCEPT !.wire = Tail(@)]
    /\ UNCHANGED <<memories, unsaved, openList, query, posting, groupToggles, missed>>

\* sendGroupChat and sendGroupNote: the answer is merged into the list of its kind.
SendMemory ==
    /\ openList # "none"
    /\ Len(memories) + Cardinality(posting) < MaxMemories
    /\ posting = {}
    /\ posting' = {[kind |-> openList, id |-> 0]}
    /\ UNCHANGED <<memories, unsaved, lists, openList, query, memoryConn, groupToggles, missed>>

ServeMemory(p) ==
    /\ p \in posting /\ p.id = 0
    /\ MemoryStamped(p.kind)
    /\ posting' = {[p EXCEPT !.id = Len(memories')]}

MemorySent(p) ==
    /\ p \in posting /\ p.id > 0 /\ p.id \notin unsaved
    /\ posting' = {}
    /\ lists' = [lists EXCEPT ![p.kind] = @ \cup {p.id}]
    /\ UNCHANGED <<memories, unsaved, openList, query, memoryConn, groupToggles, missed>>

SendMemoryFails(p) ==
    /\ p \in posting
    /\ posting' = {}
    /\ UNCHANGED <<memories, unsaved, lists, openList, query, memoryConn, groupToggles, missed>>

GroupNext ==
    \/ \E k \in MemoryKind : \/ MemoryWritten(k) \/ Activate(k)
                             \/ HistoryRead(k) \/ HistoryMerged(k) \/ HistoryFails(k)
    \/ \E m \in unsaved : MemoryCommits(m)
    \/ \E closed \in BOOLEAN : Deactivate(closed)
    \/ ConnectMemory \/ PollMemory \/ MemoryStreamed
    \/ \E fails \in BOOLEAN : StreamBreaks(fails)
    \/ SendMemory
    \/ \E p \in posting : ServeMemory(p) \/ MemorySent(p) \/ SendMemoryFails(p)

GroupSpec == GroupInit /\ [][GroupNext]_groupVars

\* The server and the network answer; the backoff's timer fires.
GroupFairness ==
    /\ \A k \in MemoryKind : /\ WF_groupVars(HistoryRead(k))
                             /\ WF_groupVars(HistoryMerged(k))
    /\ WF_groupVars(ConnectMemory)
    /\ WF_groupVars(PollMemory)
    /\ WF_groupVars(MemoryStreamed)
GroupFairSpec == GroupSpec /\ GroupFairness
--------------------------------------------------------------------------------
GroupTypeOK ==
    /\ memories \in Seq(MemoryKind)
    /\ unsaved \subseteq DOMAIN memories
    /\ lists \in [MemoryKind -> SUBSET DOMAIN memories]
    /\ openList \in MemoryKind \cup {"none"}
    /\ query \in [MemoryKind -> [phase : {"idle", "sent", "read"}, rows : SUBSET Nat,
                                 fetched : BOOLEAN, cached : SUBSET Nat]]
    /\ memoryConn \in [state : {"off", "connecting", "up", "ended"}, since : Nat, wire : Seq(Nat)]
    /\ posting \subseteq [kind : MemoryKind, id : Nat]
    /\ groupToggles \in Nat
    /\ missed \subseteq DOMAIN memories

\* Each panel lists messages of its kind only, though the panels take turns at one
\* stream.
ListsApart == \A k \in MemoryKind : lists[k] \subseteq OfKind(k)

\* While the stream of the open list is up, a message is shown, is on the way, is the
\* next poll's, or comes with the history being fetched, unless neither the history
\* nor the cursor covers it, or it was committed behind the cursor.
MemoriesShownOrComing ==
    memoryConn.state = "up" => \A m \in OfKind(openList) \ (lists[openList] \cup missed) :
        \/ m \in ToSet(memoryConn.wire) \cup UnsentMemories
        \/ query[openList].phase = "sent"
        \/ query[openList].phase = "read" /\ m \in query[openList].rows

\* A message of the open list is shown in the end, unless neither the history nor the
\* cursor covers it, it was committed behind the cursor, or the stream was ended by the server: nothing connects it again
\* until the panel or the window is toggled.
GroupCatchesUp ==
    \A m \in 1..MaxMemories : \A k \in MemoryKind :
        []<>(m \in OfKind(k) /\ openList = k
                => m \in lists[k] \cup missed \/ memoryConn.state \in {"ended", "off"})
================================================================================
