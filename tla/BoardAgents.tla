----------------------------- MODULE BoardAgents -----------------------------
(***************************************************************************)
(* The agents of a board page: heartbeats and lifecycle runs on the        *)
(* server, a status computed when a row is read, the agent stream, and the *)
(* live-feed entries made of the changes it brings.                        *)
(*                                                                         *)
(* A row is stamped when it is changed in memory and visible when its      *)
(* transaction commits, a gateway call and other commits later: stamps go  *)
(* behind the cursor of the stream, and that of one agent back.            *)
(***************************************************************************)
EXTENDS Orders, FiniteSets

CONSTANTS Agent,
          Reported,     \* statuses that a heartbeat carries, when it carries one
          MaxBeats,     \* bound: stamps given in one behaviour
          MaxAgentDrops \* bound: times the stream ends or the page is hidden

AgentStatus == {"provisioning", "online", "offline", "updating"}

ASSUME AgentAssumption == IsFiniteSet(Agent) /\ Reported \subseteq AgentStatus
ASSUME AgentBoundsAssumption == {MaxBeats, MaxAgentDrops} \subseteq Nat

VARIABLES agentRow,     \* agent -> its row: status, updated_at, last_seen_at (0: never)
          agentClock,   \* the last stamp given
          openWrites,   \* changes of rows stamped and not committed
          gatewayRuns,  \* agents with a lifecycle run at the gateway
          silentAgents, \* agents whose last_seen_at has become too old
          agentLoad,    \* the snapshot's agents, once read
          agents,       \* the page's agents: the rows it shows
          agentConn,    \* the agent stream
          agentFeed,    \* live-feed entries about agents
          agentDrops,
          passedBy      \* history: agents whose last change was behind the cursor

serverVars == <<agentRow, agentClock, openWrites, gatewayRuns, silentAgents>>
agentVars == <<serverVars, agentLoad, agents, agentConn, agentFeed, agentDrops, passedBy>>
------------------------------------------------------------------------------
NoAgentRow == [st |-> "none", at |-> 0, seen |-> 0]
Existing == {a \in Agent : agentRow[a].st \in AgentStatus}

\* with_computed_status: only a read turns a silent agent into an offline one.
StatusOf(a) == CASE agentRow[a].st = "updating" -> "updating"
                 [] agentRow[a].st # "updating" /\ agentRow[a].seen = 0 -> "provisioning"
                 [] agentRow[a].st # "updating" /\ agentRow[a].seen > 0 /\ a \in silentAgents
                      -> "offline"
                 [] OTHER -> agentRow[a].st
RowRead(a) == [a |-> a, status |-> StatusOf(a), at |-> agentRow[a].at]
ShownRows(a) == {r \in agents : r.a = a}
StatusShown(a) == \E r \in ShownRows(a) : r.status = StatusOf(a)

\* What fetch_agent_events compares with the cursor.
LatestStamp(a) == IF agentRow[a].seen > agentRow[a].at THEN agentRow[a].seen ELSE agentRow[a].at

\* The cursor of the stream, or the next one, is past this stamp.
PastStamp(n) == \/ agentConn.up /\ agentConn.since > n
                \/ \E r \in agents \cup agentLoad.rows : r.at > n

NoAgentStream == [up |-> FALSE, since |-> 0, wire |-> <<>>]

AgentsInit ==
    /\ agentRow \in [Agent -> {NoAgentRow, [st |-> "provisioning", at |-> 1, seen |-> 0],
                               [st |-> "online", at |-> 1, seen |-> 1]}]
    /\ agentClock = 1
    /\ openWrites = {} /\ gatewayRuns = {} /\ silentAgents = {}
    /\ agentLoad = [phase |-> "sent", rows |-> {}]
    /\ agents = {}
    /\ agentConn = NoAgentStream
    /\ agentFeed = {}
    /\ agentDrops = 0
    /\ passedBy = {}

\* A row changed in memory: only a status that is another than the one read is written.
Stamp(a, kind, st) ==
    /\ agentClock < MaxBeats
    /\ agentClock' = agentClock + 1
    /\ openWrites' = openWrites \cup
           {[a |-> a, kind |-> kind, at |-> agentClock',
             st |-> IF st = agentRow[a].st THEN "kept" ELSE st]}
    /\ UNCHANGED <<agentRow, silentAgents, agentLoad, agents, agentConn, agentFeed, agentDrops,
                   passedBy>>

\* commit_heartbeat up to the runtime policy's gateway call and the commit.
Heartbeat(a) ==
    /\ a \in Existing
    /\ \/ \E st \in Reported : Stamp(a, "beat", st)
       \/ Stamp(a, "beat", IF agentRow[a].st = "provisioning" THEN "online" ELSE agentRow[a].st)
    /\ UNCHANGED gatewayRuns

\* persist_new_agent, mark_agent_update_pending and, for an agent without a token,
\* handle_existing_user_heartbeat_agent, up to their commits.
CreateAgent(a) ==
    /\ agentRow[a] = NoAgentRow
    /\ \A w \in openWrites : w.a # a
    /\ Stamp(a, "begin", "provisioning")
    /\ UNCHANGED gatewayRuns
UpdateAgent(a) ==
    /\ a \in Existing
    /\ \E st \in {"updating", "provisioning"} : Stamp(a, "begin", st)
    /\ UNCHANGED gatewayRuns

\* mark_provision_complete, after the run at the gateway; one that fails ends without it.
RunCompletes(a) ==
    /\ a \in gatewayRuns
    /\ Stamp(a, "end", "online")
    /\ gatewayRuns' = gatewayRuns \ {a}

\* The commit.
WrittenRow(w) == [st |-> IF w.st = "kept" THEN agentRow[w.a].st ELSE w.st, at |-> w.at,
                  seen |-> IF w.kind = "beat" THEN w.at ELSE agentRow[w.a].seen]
CommitAgent(w) ==
    /\ w \in openWrites
    /\ openWrites' = openWrites \ {w}
    /\ agentRow' = [agentRow EXCEPT ![w.a] = WrittenRow(w)]
    /\ gatewayRuns' = IF w.kind = "begin" THEN gatewayRuns \cup {w.a} ELSE gatewayRuns
    /\ silentAgents' = IF w.kind = "beat" THEN silentAgents \ {w.a} ELSE silentAgents
    /\ passedBy' = IF PastStamp(LatestStamp(w.a)') THEN passedBy \cup {w.a} ELSE passedBy \ {w.a}
    /\ UNCHANGED <<agentClock, agentLoad, agents, agentConn, agentFeed, agentDrops>>

\* Time passes without a heartbeat; no row is written.
FallSilent(a) ==
    /\ a \in Existing \ silentAgents /\ agentRow[a].seen > 0
    /\ silentAgents' = silentAgents \cup {a}
    /\ passedBy' = IF PastStamp(LatestStamp(a)) THEN passedBy \cup {a} ELSE passedBy \ {a}
    /\ UNCHANGED <<agentRow, agentClock, openWrites, gatewayRuns, agentLoad, agents, agentConn,
                   agentFeed, agentDrops>>

\* _delete_agent_record: changes not yet committed find no row.  Nothing is streamed.
DeleteAgent(a) ==
    /\ a \in Existing
    /\ agentRow' = [agentRow EXCEPT ![a].st = "gone"]
    /\ openWrites' = {w \in openWrites : w.a # a}
    /\ gatewayRuns' = gatewayRuns \ {a}
    /\ silentAgents' = silentAgents \ {a}
    /\ passedBy' = passedBy \ {a}
    /\ UNCHANGED <<agentClock, agentLoad, agents, agentConn, agentFeed, agentDrops>>

AgentsRead ==
    /\ agentLoad.phase = "sent"
    /\ agentLoad' = [phase |-> "read", rows |-> {RowRead(a) : a \in Existing}]
    /\ UNCHANGED <<serverVars, agents, agentConn, agentFeed, agentDrops, passedBy>>

AgentsSet ==
    /\ agentLoad.phase = "read"
    /\ agents' = agentLoad.rows
    /\ agentLoad' = [phase |-> "done", rows |-> {}]
    /\ UNCHANGED <<serverVars, agentConn, agentFeed, agentDrops, passedBy>>

\* latestAgentTimestamp is the cursor; without one the server starts from its clock.
AgentCursor == IF agents = {} THEN agentClock + 1 ELSE Max({r.at : r \in agents})
ConnectAgents ==
    /\ agentLoad.phase = "done"
    /\ ~agentConn.up
    /\ agentConn' = [up |-> TRUE, since |-> AgentCursor, wire |-> <<>>]
    /\ passedBy' = IF agents = {} THEN Existing ELSE passedBy
    /\ UNCHANGED <<serverVars, agentLoad, agents, agentFeed, agentDrops>>

LoseAgents ==
    /\ agentConn.up
    /\ agentDrops < MaxAgentDrops
    /\ agentDrops' = agentDrops + 1
    /\ agentConn' = NoAgentStream
    /\ UNCHANGED <<serverVars, agentLoad, agents, agentFeed, passedBy>>

\* Variant: only rows after the cursor.
StreamedAfterCursor == {a \in Existing : LatestStamp(a) > agentConn.since}

\* stream_agents: the rows from the cursor on, the newest at every poll.
StreamedAgents == {a \in Existing : LatestStamp(a) >= agentConn.since}

PollAgents ==
    /\ agentConn.up
    /\ agentConn.wire = <<>>
    /\ StreamedAgents # {}
    /\ LET rows == {RowRead(a) : a \in StreamedAgents}
       IN agentConn' = [agentConn EXCEPT !.since = Max({@} \cup {r.at : r \in rows}),
                                         !.wire = OrderedBy(rows, [r \in rows |-> r.at])]
    /\ UNCHANGED <<serverVars, agentLoad, agents, agentFeed, agentDrops, passedBy>>

\* toLiveFeedFromAgentUpdate: what differs from the row shown, if anything does.
AgentEvent(r, previous) ==
    IF previous = {} THEN {"agent.created"}
    ELSE {CASE r.status = "online" -> "agent.online"
            [] r.status = "offline" -> "agent.offline"
            [] OTHER -> "agent.updated" : p \in {p \in previous : r.status # p.status}}

AgentStreamed ==
    /\ agentConn.wire # <<>>
    /\ LET r == Head(agentConn.wire)
       IN /\ agents' = (agents \ ShownRows(r.a)) \cup {r}
          /\ agentFeed' = agentFeed \cup {[a |-> r.a, what |-> e] :
                                             e \in AgentEvent(r, ShownRows(r.a))}
          /\ passedBy' = IF r.status = StatusOf(r.a) THEN passedBy \ {r.a} ELSE passedBy
    /\ agentConn' = [agentConn EXCEPT !.wire = Tail(@)]
    /\ UNCHANGED <<serverVars, agentLoad, agentDrops>>

AgentsServer ==
    \/ \E a \in Agent : \/ Heartbeat(a) \/ CreateAgent(a) \/ UpdateAgent(a) \/ RunCompletes(a)
                        \/ FallSilent(a) \/ DeleteAgent(a)
    \/ \E w \in openWrites : CommitAgent(w)
AgentsNext == \/ AgentsServer
              \/ AgentsRead \/ AgentsSet
              \/ ConnectAgents \/ LoseAgents \/ PollAgents \/ AgentStreamed

AgentsSpec == AgentsInit /\ [][AgentsNext]_agentVars
AgentsFairness ==
    /\ WF_agentVars(AgentsRead \/ AgentsSet) /\ WF_agentVars(ConnectAgents)
    /\ WF_agentVars(PollAgents) /\ WF_agentVars(AgentStreamed)
AgentsFairSpec == AgentsSpec /\ AgentsFairness
------------------------------------------------------------------------------
AgentRowType == [a : Agent, status : AgentStatus, at : Nat]

AgentsTypeOK ==
    /\ agentRow \in [Agent -> [st : AgentStatus \cup {"none", "gone"}, at : Nat, seen : Nat]]
    /\ agentClock \in Nat
    /\ openWrites \subseteq [a : Agent, kind : {"beat", "begin", "end"},
                             st : AgentStatus \cup {"kept"}, at : Nat]
    /\ UNION {gatewayRuns, silentAgents, passedBy} \subseteq Existing
    /\ agentLoad \in [phase : {"sent", "read", "done"}, rows : SUBSET AgentRowType]
    /\ agents \subseteq AgentRowType
    /\ agentConn \in [up : BOOLEAN, since : Nat, wire : Seq(AgentRowType)]
    /\ agentFeed \subseteq [a : Agent,
           what : {"agent.created", "agent.online", "agent.offline", "agent.updated"}]
    /\ agentDrops \in Nat

\* While the agent stream is up, an agent's status is shown with no row of it on the
\* way, its row is on the way, or the next poll brings it, unless its last change had a
\* stamp behind the cursor: one committed late, a silence, or one the page could have no
\* cursor for, as it showed no agent.
AgentsShownOrComing ==
    agentConn.up => \A a \in Existing :
        \/ a \in passedBy
        \/ RowRead(a) \in ToSet(agentConn.wire)
        \/ (\A r \in ToSet(agentConn.wire) : r.a # a) /\ StatusShown(a)
        \/ a \in StreamedAgents

\* The page comes to show every agent's status, but an agent that changes behind the
\* cursor stays as it was on it until it changes again: it falls silent or its change is
\* committed while the page has a newer row.
AgentStatusShown ==
    \A a \in Agent : []<>(a \notin Existing \/ a \in passedBy \/ StatusShown(a))
==============================================================================
