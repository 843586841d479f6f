------------------------------- MODULE MCParts -------------------------------
(***************************************************************************)
(* The parts of the web client, the dependency graph, the tasks of a board *)
(* and the membership of an organization, side by side for TLC.  They      *)
(* share no state, so a behaviour exercises one of them, `part`, and the   *)
(* others stay in one initial state.                                       *)
(***************************************************************************)
EXTENDS BoardCards, TaskPanel, TaskUrl, BoardChat, BoardAgents, BoardApprovals,
        ActivityFeed, OnboardingChat, GroupMemory, ListDelete, DependencyGraph, Membership,
        TaskBoard, TLC

CONSTANTS t1, t2, a1, a2, p1, p2, p3, w1, w2, w3, c2,
          Parts, \* the parts this run exercises
          MessageKinds \* the kinds of chat messages it exercises

ASSUME PartsAssumption == Parts \subseteq {"cards", "panel", "url", "chat", "agents", "approvals",
                                           "feed", "onboarding", "group", "list", "graph",
                                           "members", "board"}

VARIABLE part

\* The approval a2 is linked to both tasks; the second event on is of another task.
TheTasks == a1 :> {t1} @@ a2 :> {t1, t2}
TwoTaskEvents == [n \in 1..(MaxFeedEvents + 1) |-> IF n = 1 THEN t1 ELSE t2]
TwoOwners == p1 :> "owner" @@ p2 :> "owner" @@ p3 :> "member"

\* w3 depends on w2, which is in review, and w2 on w1, which is done.
ChainOfThree == w1 :> {} @@ w2 :> {w1} @@ w3 :> {w2}
ChainStarted ==
    /\ dependsOn = ChainOfThree
    /\ workRow = [t \in WorkTask |-> [who |-> NoClaimant, st |-> CASE t = w1 -> "done"
                                                                 [] t = w2 -> "review"
                                                                 [] t = w3 -> "inbox"]]

\* Of two initial states that differ by the agents' names, one.
AgentsInOrder ==
    {a1, a2} \subseteq Agent => /\ agentRow[a1].at <= agentRow[a2].at
                               /\ agentRow[a1].seen <= agentRow[a2].seen

PartsInit ==
    /\ part \in Parts
    /\ CardsInit /\ PanelInit /\ UrlInit /\ ChatInit /\ AgentsInit /\ ApprovalsInit
    /\ FeedInit /\ OnboardingInit /\ GroupInit /\ ListInit /\ GraphInit
    /\ MembershipInit /\ ChainStarted /\ BoardInit
    /\ part # "url" => url = NoUrlTask
    /\ part # "chat" => messages = <<>>
    /\ part # "agents" => \A a \in Agent : agentRow[a] = NoAgentRow
    /\ AgentsInOrder
    /\ part # "approvals" => \A a \in Approval : approvalRow[a] = NoApprovalRow
    /\ part # "feed" => \A a \in FeedApproval : asked[a].made = 0
    /\ part # "group" => memories = <<>>

\* Bound: two of the page's requests and of others' open transactions on tasks at once.
TwoCardsInFlight == Cardinality(slowWrites') + Cardinality(cardReqs') <= 2

\* Bound: the kinds of chat messages.
KindsExercised ==
    ToSet(messages') \cup {s.kind : s \in chatSends'} \subseteq MessageKinds

\* Bound: one agent is deleted or silent at a time.
OneAgentAbsent ==
    Cardinality(silentAgents' \cup {a \in Agent : agentRow'[a].st = "gone"}) <= 1

\* The two kinds of a group's messages are alike: the first message is taken for a chat's.
ChatComesFirst == memories' # <<>> => memories'[1] = "chat"

\* Bound: the seed fails or starts over before the second event, if at all.
FeedSeededBySecondEvent == feedEvents' = 2 => seed'.phase \notin {"boards", "failed"}

\* Bounds: w1 is there to be reopened, by an admin; w3 has its assignee and dependencies
\* replaced; c2 is assigned by others.  The smaller free id is taken, as it only names a
\* request.
BoardRequests ==
    \A p \in patches' \ patches : p.phase = "rules" =>
        /\ p.t = w1 => p.by = "admin"
        /\ p.what # "status" => p.t = w3
        /\ p.by # c2
        /\ p.id = Min({i \in PatchId : \A q \in patches : q.id # i})

\* The part that steps; the variables of the others stay.
PartsNext ==
    /\ UNCHANGED part
    /\ \/ part = "cards" /\ CardsNext /\ TwoCardsInFlight
       \/ part # "cards" /\ UNCHANGED cardVars
    /\ \/ part = "panel" /\ PanelNext
       \/ part # "panel" /\ UNCHANGED panelVars
    /\ \/ part = "url" /\ UrlNext
       \/ part # "url" /\ UNCHANGED urlVars
    /\ \/ part = "chat" /\ ChatNext /\ KindsExercised
       \/ part # "chat" /\ UNCHANGED chatVars
    /\ \/ part = "agents" /\ AgentsNext /\ OneAgentAbsent
       \/ part # "agents" /\ UNCHANGED agentVars
    /\ \/ part = "approvals" /\ ApprovalsNext
       \/ part # "approvals" /\ UNCHANGED approvalVars
    /\ \/ part = "feed" /\ FeedNext /\ FeedSeededBySecondEvent
       \/ part # "feed" /\ UNCHANGED feedVars
    /\ \/ part = "onboarding" /\ OnboardingNext
       \/ part # "onboarding" /\ UNCHANGED onboardingVars
    /\ \/ part = "group" /\ GroupNext /\ ChatComesFirst
       \/ part # "group" /\ UNCHANGED groupVars
    /\ \/ part = "list" /\ ListNext
       \/ part # "list" /\ UNCHANGED listVars
    /\ \/ part = "graph" /\ GraphNext
       \/ part # "graph" /\ UNCHANGED graphVars
    /\ \/ part = "members" /\ MembershipNext
       \/ part # "members" /\ UNCHANGED membershipVars
    /\ \/ part = "board" /\ BoardNext /\ BoardRequests
       \/ part # "board" /\ UNCHANGED boardVars

partsVars == <<part, cardVars, panelVars, urlVars, chatVars, agentVars, approvalVars, feedVars,
               onboardingVars, groupVars, listVars, graphVars, membershipVars, boardVars>>
PartsSpec == PartsInit /\ [][PartsNext]_partsVars

stepVars == CASE part = "chat" -> chatVars
              [] part = "agents" -> agentVars
              [] part = "approvals" -> approvalVars
              [] part = "onboarding" -> onboardingVars
              [] part = "group" -> groupVars
              [] OTHER -> partsVars

\* ChatFairness, AgentsFairness, ApprovalsFairness, OnboardingFairness or
\* GroupFairness, whichever part it is.  One conjunct of each is taken together:
\* TLC then checks seven weak fairness conditions in place of twenty-four.
PartsFairSpec ==
    /\ PartsSpec
    /\ WF_stepVars(/\ UNCHANGED part
                   /\ \/ part = "chat" /\ (ChatRead \/ ChatSet)
                      \/ part = "agents" /\ (AgentsRead \/ AgentsSet)
                      \/ part = "approvals" /\ (ApprovalsRead \/ ApprovalsSet)
                      \/ part = "onboarding" /\ PollSession
                      \/ part = "group" /\ HistoryRead("chat"))
    /\ WF_stepVars(/\ UNCHANGED part
                   /\ \/ part = "chat" /\ ConnectChat
                      \/ part = "agents" /\ ConnectAgents
                      \/ part = "approvals" /\ ConnectApprovals
                      \/ part = "group" /\ ConnectMemory)
    /\ WF_stepVars(/\ UNCHANGED part
                   /\ \/ part = "chat" /\ PollChat
                      \/ part = "agents" /\ PollAgents
                      \/ part = "approvals" /\ PollApprovals
                      \/ part = "group" /\ PollMemory)
    /\ WF_stepVars(/\ UNCHANGED part
                   /\ \/ part = "chat" /\ ChatStreamed
                      \/ part = "agents" /\ AgentStreamed
                      \/ part = "approvals" /\ ApprovalStreamed
                      \/ part = "group" /\ MemoryStreamed)
    /\ WF_stepVars(/\ UNCHANGED part
                   /\ \/ part = "approvals" /\ ApprovalsAnswers
                      \/ part = "onboarding" /\ OnboardingServer
                      \/ part = "group" /\ HistoryRead("note"))
    /\ WF_stepVars(/\ UNCHANGED part
                   /\ \/ part = "onboarding" /\ OnboardingAnswers
                      \/ part = "group" /\ HistoryMerged("chat"))
    /\ WF_stepVars(/\ UNCHANGED part
                   /\ \/ part = "onboarding" /\ OnboardingAgent
                      \/ part = "group" /\ HistoryMerged("note"))

\* The type invariant of the part exercised.
PartsTypeOK == CASE part = "cards" -> CardsTypeOK
                 [] part = "panel" -> PanelTypeOK
                 [] part = "url" -> UrlTypeOK
                 [] part = "chat" -> ChatTypeOK
                 [] part = "agents" -> AgentsTypeOK
                 [] part = "approvals" -> ApprovalsTypeOK
                 [] part = "feed" -> FeedTypeOK
                 [] part = "onboarding" -> OnboardingTypeOK
                 [] part = "group" -> GroupTypeOK
                 [] part = "list" -> ListTypeOK
                 [] part = "graph" -> GraphTypeOK
                 [] part = "members" -> MembershipTypeOK
                 [] part = "board" -> BoardTypeOK

\* While their streams are up, the board page shows each agent, each approval and each
\* pending count as it is, and the group page each message, in the list of its kind, or
\* what is missing is about to come, but for the causes on record (agent, approvals and
\* group streams against late commits, reopened approvals, moves put back, and the
\* snapshots, answers and history queries they overlap).
StreamsKeepUp == /\ AgentsShownOrComing
                 /\ ApprovalsShownOrComing /\ CountsRightOrComing
                 /\ ListsApart /\ MemoriesShownOrComing

\* The chat of the board page and the open list of the group page catch up (chat and
\* group streams with their cursors, history queries).
ChatsCatchUp == /\ []<>(part = "chat") => ChatCatchesUp
                /\ []<>(part = "group") => GroupCatchesUp

\* The board page comes to show each agent's status, but for changes committed behind
\* the cursor (agent stream, lifecycle runs).
AgentsPageFollows == []<>(part = "agents") => AgentStatusShown

\* The board page comes to show each approval's row and the pending counts, but for those
\* left behind the cursor or put back (approvals stream, handleTaskMove).
ApprovalsPageConverges ==
    []<>(part = "approvals") => ApprovalsConverge /\ CountsConverge

\* The onboarding dialog does not wait for ever (its polling effect).
OnboardingWaitEnds == []<>(part = "onboarding") => ReplyEndsWait
==============================================================================
