------------------------------ MODULE BoardChat ------------------------------
(***************************************************************************)
(* The chat of a board page: the snapshot's messages, the stream that is   *)
(* open only while the chat or the live feed is, messages and commands     *)
(* sent from the page, and whether the page says the agents are paused.    *)
(*                                                                         *)
(* A message is its place in `messages`: its id and creation time.  The    *)
(* time is stamped when the row is built and the row is visible once its   *)
(* transaction has committed, so messages become visible in any order.     *)
(***************************************************************************)
EXTENDS Naturals, FiniteSets, Orders

CONSTANT MaxMessages,   \* bound: messages of the board
         MaxChatToggles \* bound: panels opened or closed, and streams lost

ASSUME ChatBoundsAssumption == {MaxMessages, MaxChatToggles} \subseteq Nat

ChatKind == {"say", "pause", "resume"}
ChatPanel == {"none", "chat", "feed"}

VARIABLES messages,       \* the messages stamped so far, by creation time
          committed,      \* those whose transaction has committed
          chatLoad,       \* the request for the snapshot
          chatMessages,   \* chatMessages
          openPanel,      \* isChatOpen, isLiveFeedOpen
          chatConn,       \* the chat stream: the server's cursor and the wire
          chatSends,      \* messages of this page in flight
          chatToggles,    \* panels toggled and streams lost so far
          ownMessages,    \* history: the messages this page sent
          blankMissed,    \* history: messages no cursor could have covered: none was shown
          lateMessages,   \* history: messages committed when the page had a newer one
          skippedMessages \* history: committed messages that a cursor passed over

chatHistory == <<blankMissed, lateMessages, skippedMessages>>
chatVars == <<messages, committed, chatLoad, chatMessages, openPanel, chatConn, chatSends,
              chatToggles, ownMessages, chatHistory>>
------------------------------------------------------------------------------
NoChatStream == [up |-> FALSE, since |-> 0, wire |-> <<>>]

\* isAgentsPaused: the last command among the messages ms.
PausedBy(ms) == LET commands == {i \in ms : messages[i] # "say"}
              IN commands # {} /\ messages[Max(commands)] = "pause"

\* The messages the page shows, and those on their way to it by the stream.
Reaching == chatMessages \cup ToSet(chatConn.wire)

\* The effect's cleanup aborts the stream and its own timer.
AbortChat == chatConn' = NoChatStream

ChatInit ==
    /\ messages \in {<<>>, <<"say">>, <<"pause">>}
    /\ committed = DOMAIN messages
    /\ chatLoad = [phase |-> "sent", rows |-> {}]
    /\ chatMessages = {}
    /\ openPanel = "none"
    /\ chatConn = NoChatStream
    /\ chatSends = {}
    /\ chatToggles = 0
    /\ ownMessages = {}
    /\ blankMissed = {} /\ lateMessages = {} /\ skippedMessages = {}

\* create_board_memory up to its commit, for an agent or another user: the row
\* is built, and stamped.
OtherSays(kind) ==
    /\ Len(messages) < MaxMessages
    /\ messages' = Append(messages, kind)
    /\ UNCHANGED <<committed, chatLoad, chatMessages, openPanel, chatConn, chatSends,
                   chatToggles, ownMessages, chatHistory>>

\* Its commit: of any row that is stamped, whoever sent it, or never.
MessageCommits(m) ==
    LET passed == chatConn.up /\ m < chatConn.since
        newer == {x \in Reaching \cup chatLoad.rows : x > m}
    IN
    /\ m \in DOMAIN messages \ committed
    /\ committed' = committed \cup {m}
    /\ skippedMessages' = IF passed THEN skippedMessages \cup {m} ELSE skippedMessages
    /\ blankMissed' = IF passed /\ chatConn.since \notin Reaching
                      THEN blankMissed \cup {m} ELSE blankMissed
    /\ lateMessages' = IF newer # {} THEN lateMessages \cup {m} ELSE lateMessages
    /\ UNCHANGED <<messages, chatLoad, chatMessages, openPanel, chatConn, chatSends,
                   chatToggles, ownMessages>>

ChatRead ==
    /\ chatLoad.phase = "sent"
    /\ chatLoad' = [phase |-> "read", rows |-> committed]
    /\ UNCHANGED <<messages, committed, chatMessages, openPanel, chatConn, chatSends, chatToggles,
                   ownMessages, chatHistory>>

ChatSet ==
    /\ chatLoad.phase = "read"
    /\ chatLoad' = [phase |-> "done", rows |-> {}]
    /\ chatMessages' = chatLoad.rows
    /\ UNCHANGED <<messages, committed, openPanel, chatConn, chatSends, chatToggles, ownMessages,
                   chatHistory>>

\* openBoardChat, openLiveFeed and their counterparts: the stream's effect runs anew.
TogglePanel(p) ==
    /\ chatToggles < MaxChatToggles
    /\ p # openPanel
    /\ chatToggles' = chatToggles + 1
    /\ openPanel' = p
    /\ AbortChat
    /\ UNCHANGED <<messages, committed, chatLoad, chatMessages, chatSends, ownMessages,
                   chatHistory>>

\* Variant: the stream is opened without a cursor.
ChatCursorOfNow == Len(messages) + 1

\* latestChatTimestamp is the cursor; without one the server starts from its clock.
ChatCursor == IF chatMessages = {} THEN Len(messages) + 1 ELSE Max(chatMessages)

ConnectChat ==
    /\ chatLoad.phase = "done"
    /\ openPanel # "none"
    /\ ~chatConn.up
    /\ LET missed == {m \in committed : m < ChatCursor} \ chatMessages
       IN /\ chatConn' = [up |-> TRUE, since |-> ChatCursor, wire |-> <<>>]
          /\ skippedMessages' = skippedMessages \cup missed
          /\ blankMissed' = IF chatMessages = {} THEN blankMissed \cup missed ELSE blankMissed
    /\ UNCHANGED <<messages, committed, chatLoad, chatMessages, openPanel, chatSends, chatToggles,
                   ownMessages, lateMessages>>

\* The stream ends, or the page is hidden.
LoseChat ==
    /\ chatConn.up
    /\ chatToggles < MaxChatToggles
    /\ chatToggles' = chatToggles + 1
    /\ AbortChat
    /\ UNCHANGED <<messages, committed, chatLoad, chatMessages, openPanel, chatSends, ownMessages,
                   chatHistory>>

\* Variant: only messages after the cursor.
UnsentAfterCursor ==
    {m \in committed : m > chatConn.since} \ Reaching

\* stream_board_memory: every message from the cursor on, the newest again and
\* again (the page ignores ids it has); modelled once for each.
UnsentChat == {m \in committed : m >= chatConn.since} \ Reaching

PollChat ==
    /\ chatConn.up
    /\ UnsentChat # {}
    /\ chatConn' = [chatConn EXCEPT !.since = Max(UnsentChat \cup {@}),
                                !.wire = @ \o Ascending(UnsentChat)]
    /\ UNCHANGED <<messages, committed, chatLoad, chatMessages, openPanel, chatSends, chatToggles,
                   ownMessages, chatHistory>>

ChatStreamed ==
    /\ chatConn.wire # <<>>
    /\ chatMessages' = chatMessages \cup {Head(chatConn.wire)}
    /\ chatConn' = [chatConn EXCEPT !.wire = Tail(@)]
    /\ UNCHANGED <<messages, committed, chatLoad, openPanel, chatSends, chatToggles, ownMessages,
                   chatHistory>>

\* postBoardChatMessage: from the chat composer, or from the pause dialog of the
\* header, which needs no open panel.
SendChat(kind) ==
    /\ chatLoad.phase = "done"
    /\ Len(messages) + Cardinality(chatSends) < MaxMessages
    /\ kind = "say" => openPanel = "chat"
    /\ \A s \in chatSends : (s.kind = "say") # (kind = "say")
    /\ chatSends' = chatSends \cup {[kind |-> kind, id |-> 0]}
    /\ UNCHANGED <<messages, committed, chatLoad, chatMessages, openPanel, chatConn, chatToggles,
                   ownMessages, chatHistory>>

\* create_board_memory up to its commit, for a message of this page.
ServeSend(s) ==
    /\ s \in chatSends /\ s.id = 0
    /\ messages' = Append(messages, s.kind)
    /\ chatSends' = (chatSends \ {s}) \cup {[s EXCEPT !.id = Len(messages')]}
    /\ ownMessages' = ownMessages \cup {Len(messages')}
    /\ UNCHANGED <<committed, chatLoad, chatMessages, openPanel, chatConn, chatToggles,
                   chatHistory>>

\* The answer, which follows the commit, is merged in like a streamed message.
SendAnswered(s) ==
    /\ s \in chatSends /\ s.id \in committed
    /\ chatSends' = chatSends \ {s}
    /\ chatMessages' = chatMessages \cup {s.id}
    /\ UNCHANGED <<messages, committed, chatLoad, openPanel, chatConn, chatToggles, ownMessages,
                   chatHistory>>

\* Variant: a message is shown whether or not the server took it.
SendFailsShown(s) ==
    /\ s \in chatSends
    /\ chatSends' = chatSends \ {s}
    /\ chatMessages' = chatMessages \cup {s.id}
    /\ UNCHANGED <<messages, committed, chatLoad, openPanel, chatConn, chatToggles, ownMessages,
                   chatHistory>>

SendFails(s) ==
    /\ s \in chatSends
    /\ chatSends' = chatSends \ {s}
    /\ UNCHANGED <<messages, committed, chatLoad, chatMessages, openPanel, chatConn, chatToggles,
                   ownMessages, chatHistory>>

ChatUser == \/ \E p \in ChatPanel : TogglePanel(p)
            \/ \E kind \in ChatKind : SendChat(kind) \/ OtherSays(kind)
ChatServer == \/ \E s \in chatSends : ServeSend(s) \/ SendAnswered(s) \/ SendFails(s)
              \/ \E m \in DOMAIN messages : MessageCommits(m)

ChatNext == \/ ChatUser \/ ChatServer
            \/ ChatRead \/ ChatSet
            \/ ConnectChat \/ LoseChat \/ PollChat \/ ChatStreamed

ChatSpec == ChatInit /\ [][ChatNext]_chatVars
ChatFairness ==
    /\ WF_chatVars(ChatRead \/ ChatSet) /\ WF_chatVars(ConnectChat)
    /\ WF_chatVars(PollChat) /\ WF_chatVars(ChatStreamed)
ChatFairSpec == ChatSpec /\ ChatFairness
------------------------------------------------------------------------------
ChatTypeOK ==
    /\ messages \in Seq(ChatKind)
    /\ chatLoad \in [phase : {"sent", "read", "done"}, rows : SUBSET Nat]
    /\ openPanel \in ChatPanel
    /\ chatConn \in [up : BOOLEAN, since : Nat, wire : Seq(Nat)]
    /\ chatSends \subseteq [kind : ChatKind, id : Nat]
    /\ chatToggles \in Nat
    /\ ownMessages \subseteq DOMAIN messages /\ committed \subseteq DOMAIN messages
    /\ chatLoad.rows \cup Reaching \subseteq committed
    /\ UNION {blankMissed, lateMessages, skippedMessages} \subseteq committed

\* A cursor passes a committed message only when it was the server's clock, as
\* the page showed none at all, when a later message of the page's own came in
\* by its answer, or when the message was committed after a later one that the
\* page had already.
SkippedForCause ==
    \A m \in skippedMessages \ blankMissed :
        m \in lateMessages \/ \E own \in ownMessages : own > m

\* The page says the agents are paused when they are, unless it missed a command:
\* whatever it sends and receives in whichever order, the last command counts.
PauseStateShown ==
    LET all == committed
    IN chatConn.up /\ chatConn.wire = <<>> /\ UnsentChat = {} /\ chatSends = {}
          => \/ PausedBy(chatMessages) = PausedBy(all)
             \/ \E m \in all \ chatMessages : m \in skippedMessages /\ messages[m] # "say"

\* While a panel stays open every committed message not skipped is shown in the end.
ChatCatchesUp ==
    \A m \in 1..MaxMessages :
        []<>(m \in committed /\ openPanel # "none" => m \in chatMessages \cup skippedMessages)
==============================================================================
