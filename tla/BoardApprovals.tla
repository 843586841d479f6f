--------------------------- MODULE BoardApprovals ---------------------------
(***************************************************************************)
(* The approvals of a board page and the pending counts on its cards: the  *)
(* snapshot, the approvals stream, decisions made on the page, and the     *)
(* moves of cards, whose answers and failures put back counts taken before *)
(* they were sent.                                                         *)
(*                                                                         *)
(* A decision is stamped when its request has loaded the row and visible   *)
(* when it commits; a reopening leaves resolved_at as it is.  Either can   *)
(* be behind the cursor of the stream.                                     *)
(***************************************************************************)
EXTENDS Orders, FiniteSets

CONSTANTS Approval, ApprovalTask,
          NoApproval,
          TasksOf,          \* approval -> the tasks it is linked to
          MaxApprovalEvents \* bound: approvals made, decisions, moves, lost streams

ASSUME ApprovalAssumption == IsFiniteSet(Approval)
ASSUME TasksOfAssumption == TasksOf \in [Approval -> SUBSET ApprovalTask]
ASSUME NoApprovalAssumption == NoApproval \notin Approval
ASSUME ApprovalEventsAssumption == MaxApprovalEvents \in Nat

Resolution == {"approved", "rejected"}
NoApprovalRow == [st |-> "none", made |-> 0, done |-> 0]

VARIABLES approvalRow,       \* approval -> its row on the server
          approvalClock,     \* the last stamp given
          openApprovals,     \* writes of others stamped and not committed
          approvalLoad,      \* the request for the snapshot
          approvals,         \* approval -> the row the page shows
          pendingCounts,     \* task -> approvals_pending_count of its card
          approvalConn,      \* the stream
          approvalDecisions, \* decisions of the page in flight
          updatingId,        \* approvalsUpdatingId: the one whose buttons are disabled
          cardMoves,         \* moves of cards in flight: the counts of previousTasks
          approvalEvents,    \* events of this behaviour so far
          leftBehind,        \* history: approvals left behind by a cursor or a late answer
          miscounted         \* history: tasks whose count a cursor or a move left wrong

approvalServerVars == <<approvalRow, approvalClock, openApprovals>>
approvalPageVars == <<approvalLoad, approvals, pendingCounts, approvalConn>>
approvalVars == <<approvalServerVars, approvalPageVars, approvalDecisions, updatingId, cardMoves,
                  approvalEvents, leftBehind, miscounted>>
-----------------------------------------------------------------------------
\* _approval_updated_at, and latestApprovalTimestamp on the page's rows.
UpdatedAt(r) == IF r.done > 0 THEN r.done ELSE r.made
LatestApproval(rows) == Max({0} \cup {UpdatedAt(rows[a]) : a \in Approval})

\* task_counts_for_board
PendingCount(t) ==
    Cardinality({a \in Approval : t \in TasksOf[a] /\ approvalRow[a].st = "pending"})

ApprovalEvent == approvalEvents < MaxApprovalEvents /\ approvalEvents' = approvalEvents + 1
NoApprovalStream == [up |-> FALSE, since |-> 0, wire |-> <<>>]

\* _ensure_no_pending_approval_conflicts: an approval under way holds the locks of its tasks.
Pending(a) == approvalRow[a].st = "pending" \/ \E w \in openApprovals : w.a = a /\ w.st = "pending"
Uncontested(a) == \A b \in Approval \ {a} : Pending(b) => TasksOf[a] \cap TasksOf[b] = {}

ApprovalsInit ==
    /\ approvalRow \in [Approval -> {NoApprovalRow, [st |-> "pending", made |-> 1, done |-> 0]}]
    /\ approvalClock = 1
    /\ openApprovals = {}
    /\ \A a \in Approval : Pending(a) => Uncontested(a)
    /\ approvalLoad = [phase |-> "sent", rows |-> approvalRow, counts |-> [t \in ApprovalTask |-> 0]]
    /\ approvals = [a \in Approval |-> NoApprovalRow]
    /\ pendingCounts = [t \in ApprovalTask |-> 0]
    /\ approvalConn = NoApprovalStream
    /\ approvalDecisions = {}
    /\ updatingId = NoApproval
    /\ cardMoves = {}
    /\ approvalEvents = 0
    /\ leftBehind = {}
    /\ miscounted = {}

\* A row made or loaded, and stamped: an update writes its status only if it is another.
ApprovalWrite(a, st) == [a |-> a, st |-> st, at |-> approvalClock + 1,
                   kept |-> approvalRow[a].st = st, row |-> NoApprovalRow]

\* create_approval and, by another user, update_approval to a resolution, which a resolved
\* approval takes too: up to the commit.
OtherAsks(a, st) ==
    /\ approvalRow[a] = NoApprovalRow
    /\ \A w \in openApprovals : w.a # a
    /\ st = "pending" => Uncontested(a)
OtherDecides(a, st) == approvalRow[a] # NoApprovalRow /\ st \in Resolution
OtherUpdates(a, st) ==
    /\ ApprovalEvent
    /\ OtherAsks(a, st) \/ OtherDecides(a, st)
    /\ openApprovals' = openApprovals \cup {ApprovalWrite(a, st)}
    /\ approvalClock' = approvalClock + 1
    /\ UNCHANGED <<approvalRow, approvalPageVars, approvalDecisions, updatingId, cardMoves,
                   leftBehind, miscounted>>

\* The row as the commit leaves it; the cursor of the stream may be past its stamp.
ApprovalWritten(w) ==
    IF approvalRow[w.a] = NoApprovalRow THEN [st |-> w.st, made |-> w.at, done |-> 0]
    ELSE [approvalRow[w.a] EXCEPT !.st = IF w.kept THEN @ ELSE w.st, !.done = w.at]
RowCommits(a, r) ==
    /\ approvalRow' = [approvalRow EXCEPT ![a] = r]
    /\ IF approvalConn.up /\ UpdatedAt(r) < approvalConn.since
       THEN leftBehind' = leftBehind \cup {a} /\ miscounted' = miscounted \cup TasksOf[a]
       ELSE leftBehind' = leftBehind \ {a} /\ miscounted' = miscounted

OtherCommits(w) ==
    /\ w \in openApprovals
    /\ RowCommits(w.a, ApprovalWritten(w))
    /\ openApprovals' = openApprovals \ {w}
    /\ UNCHANGED <<approvalClock, approvalPageVars, approvalDecisions, updatingId, cardMoves,
                   approvalEvents>>

\* update_approval to pending: no stamp is written.
OtherReopens(a) ==
    /\ ApprovalEvent
    /\ approvalRow[a].st \in Resolution
    /\ Uncontested(a)
    /\ RowCommits(a, [approvalRow[a] EXCEPT !.st = "pending"])
    /\ UNCHANGED <<approvalClock, openApprovals, approvalPageVars, approvalDecisions, updatingId,
                   cardMoves>>

ApprovalsRead ==
    /\ approvalLoad.phase = "sent"
    /\ approvalLoad' = [phase |-> "read", rows |-> approvalRow,
                    counts |-> [t \in ApprovalTask |-> PendingCount(t)]]
    /\ UNCHANGED <<approvalServerVars, approvals, pendingCounts, approvalConn, approvalDecisions,
                   updatingId, cardMoves, approvalEvents, leftBehind, miscounted>>

ApprovalsSet ==
    /\ approvalLoad.phase = "read"
    /\ approvalLoad' = [approvalLoad EXCEPT !.phase = "done"]
    /\ approvals' = approvalLoad.rows
    /\ pendingCounts' = approvalLoad.counts
    /\ UNCHANGED <<approvalServerVars, approvalConn, approvalDecisions, updatingId, cardMoves,
                   approvalEvents, leftBehind, miscounted>>

\* Without an approval there is no cursor, and the server starts from its clock.
ConnectApprovals ==
    /\ approvalLoad.phase = "done"
    /\ ~approvalConn.up
    /\ LET shown == LatestApproval(approvals)
           since == IF shown = 0 THEN approvalClock + 1 ELSE shown
           behind == {a \in Approval : UpdatedAt(approvalRow[a]) < since}
       IN /\ approvalConn' = [up |-> TRUE, since |-> since, wire |-> <<>>]
          /\ leftBehind' = leftBehind \cup {a \in behind : approvalRow[a] # approvals[a]}
          /\ miscounted' = miscounted \cup
                 {t \in ApprovalTask : /\ pendingCounts[t] # PendingCount(t)
                                       /\ \A a \in Approval \ behind : t \notin TasksOf[a]}
    /\ UNCHANGED <<approvalServerVars, approvalLoad, approvals, pendingCounts, approvalDecisions,
                   updatingId, cardMoves, approvalEvents>>

LoseApprovals ==
    /\ ApprovalEvent
    /\ approvalConn.up
    /\ approvalConn' = NoApprovalStream
    /\ UNCHANGED <<approvalServerVars, approvalLoad, approvals, pendingCounts, approvalDecisions,
                   updatingId, cardMoves, leftBehind, miscounted>>

\* Variant: only rows after the cursor.
DueAfterCursor == {a \in Approval : /\ approvalRow[a] # NoApprovalRow
                                   /\ UpdatedAt(approvalRow[a]) > approvalConn.since}

\* stream_approvals: at every poll all rows from the cursor on, the newest again,
\* with the counts of the tasks they are linked to.
DueApprovals == {a \in Approval : /\ approvalRow[a] # NoApprovalRow
                                 /\ UpdatedAt(approvalRow[a]) >= approvalConn.since}

CountsOf(a) == [t \in ApprovalTask |-> IF t \in TasksOf[a] THEN PendingCount(t) ELSE 0]

PollApprovals ==
    /\ approvalConn.up
    /\ approvalConn.wire = <<>>
    /\ DueApprovals # {}
    /\ LET sorted == OrderedBy(DueApprovals, [a \in DueApprovals |-> approvalRow[a].made])
       IN approvalConn' = [approvalConn EXCEPT
                 !.since = Max({UpdatedAt(approvalRow[a]) : a \in DueApprovals}),
                 !.wire = [i \in DOMAIN sorted |->
                             [a |-> sorted[i], r |-> approvalRow[sorted[i]],
                              n |-> CountsOf(sorted[i])]]]
    /\ UNCHANGED <<approvalServerVars, approvalLoad, approvals, pendingCounts, approvalDecisions,
                   updatingId, cardMoves, approvalEvents, leftBehind, miscounted>>

\* The approval, and the counts of the cards it belongs to.
ApprovalStreamed ==
    /\ approvalConn.wire # <<>>
    /\ LET e == Head(approvalConn.wire)
       IN /\ approvals' = [approvals EXCEPT ![e.a] = e.r]
          /\ pendingCounts' = [t \in ApprovalTask |->
                                 IF t \in TasksOf[e.a] THEN e.n[t] ELSE pendingCounts[t]]
          /\ leftBehind' = IF e.r = approvalRow[e.a] THEN leftBehind \ {e.a} ELSE leftBehind
          /\ miscounted' = miscounted \ {t \in TasksOf[e.a] : e.n[t] = PendingCount(t)}
    /\ approvalConn' = [approvalConn EXCEPT !.wire = Tail(@)]
    /\ UNCHANGED <<approvalServerVars, approvalLoad, approvalDecisions, updatingId, cardMoves,
                   approvalEvents>>

\* handleApprovalDecision: only the last approval decided has its buttons disabled.
Decide(a, st) ==
    /\ ApprovalEvent
    /\ approvalLoad.phase = "done"
    /\ approvals[a].st = "pending"
    /\ updatingId # a
    /\ updatingId' = a
    /\ approvalDecisions' = approvalDecisions \cup
           {[a |-> a, st |-> st, at |-> 0, kept |-> FALSE, row |-> NoApprovalRow]}
    /\ UNCHANGED <<approvalServerVars, approvalPageVars, cardMoves, leftBehind, miscounted>>

\* update_approval up to the commit, and the commit, after which the row is read back.
ServeDecision(d) ==
    /\ d \in approvalDecisions /\ d.at = 0
    /\ approvalDecisions' = (approvalDecisions \ {d}) \cup {ApprovalWrite(d.a, d.st)}
    /\ approvalClock' = approvalClock + 1
    /\ UNCHANGED <<approvalRow, openApprovals, approvalPageVars, updatingId, cardMoves,
                   approvalEvents, leftBehind, miscounted>>

DecisionCommits(d) ==
    /\ d \in approvalDecisions /\ d.at > 0 /\ d.row = NoApprovalRow
    /\ RowCommits(d.a, ApprovalWritten(d))
    /\ approvalDecisions' = (approvalDecisions \ {d}) \cup {[d EXCEPT !.row = ApprovalWritten(d)]}
    /\ UNCHANGED <<approvalClock, openApprovals, approvalPageVars, updatingId, cardMoves,
                   approvalEvents>>

\* The answer replaces the row, whatever the stream brought meanwhile, and not the
\* counts of the cards.
DecisionAnswered(d) ==
    /\ d \in approvalDecisions /\ d.row # NoApprovalRow
    /\ approvalDecisions' = approvalDecisions \ {d}
    /\ updatingId' = NoApproval
    /\ approvals' = [approvals EXCEPT ![d.a] = d.row]
    /\ leftBehind' = IF approvals[d.a] = approvalRow[d.a] /\ d.row # approvalRow[d.a]
                     THEN leftBehind \cup {d.a} ELSE leftBehind
    /\ UNCHANGED <<approvalServerVars, approvalLoad, pendingCounts, approvalConn, cardMoves,
                   approvalEvents, miscounted>>

\* Refused or lost: the error is shown.  One being written when the page loses it goes on.
DecisionFails(d) ==
    /\ d \in approvalDecisions
    /\ approvalDecisions' = approvalDecisions \ {d}
    /\ updatingId' = NoApproval
    /\ openApprovals' = IF d.at > 0 /\ d.row = NoApprovalRow THEN openApprovals \cup {d}
                        ELSE openApprovals
    /\ UNCHANGED <<approvalRow, approvalClock, approvalPageVars, cardMoves, approvalEvents,
                   leftBehind, miscounted>>

\* handleTaskMove keeps the cards, with their counts, as they are before its await.
MoveCard(t) ==
    /\ ApprovalEvent
    /\ approvalLoad.phase = "done"
    /\ cardMoves' = cardMoves \cup {[t |-> t, before |-> pendingCounts]}
    /\ UNCHANGED <<approvalServerVars, approvalPageVars, approvalDecisions, updatingId, leftBehind,
                   miscounted>>

\* The answer puts back the count of the card moved; a failure those of all cards.
PutBack(ts, before) ==
    /\ pendingCounts' = [t \in ApprovalTask |-> IF t \in ts THEN before[t] ELSE pendingCounts[t]]
    /\ miscounted' = miscounted \cup {t \in ts : before[t] # pendingCounts[t]}

MoveEnds(m) ==
    /\ m \in cardMoves
    /\ cardMoves' = cardMoves \ {m}
    /\ UNCHANGED <<approvalServerVars, approvalLoad, approvals, approvalConn, approvalDecisions,
                   updatingId, approvalEvents, leftBehind>>
MoveAnswered(m) == MoveEnds(m) /\ PutBack({m.t}, m.before)
MoveRefused(m) == MoveEnds(m) /\ PutBack(ApprovalTask, m.before)

ApprovalsStream == ConnectApprovals \/ PollApprovals \/ ApprovalStreamed
ApprovalsAnswers ==
    \/ \E d \in approvalDecisions : \/ ServeDecision(d) \/ DecisionCommits(d)
                                    \/ DecisionAnswered(d) \/ DecisionFails(d)
    \/ \E m \in cardMoves : MoveAnswered(m) \/ MoveRefused(m)

ApprovalsNext ==
    \/ \E a \in Approval : \/ \E st \in Resolution \cup {"pending"} : OtherUpdates(a, st)
                           \/ \E st \in Resolution : Decide(a, st)
                           \/ OtherReopens(a)
    \/ \E w \in openApprovals : OtherCommits(w)
    \/ \E t \in ApprovalTask : MoveCard(t)
    \/ ApprovalsRead \/ ApprovalsSet
    \/ ApprovalsStream \/ LoseApprovals
    \/ ApprovalsAnswers

ApprovalsSpec == ApprovalsInit /\ [][ApprovalsNext]_approvalVars
ApprovalsFairness ==
    /\ WF_approvalVars(ApprovalsRead \/ ApprovalsSet)
    /\ WF_approvalVars(ConnectApprovals) /\ WF_approvalVars(PollApprovals)
    /\ WF_approvalVars(ApprovalStreamed) /\ WF_approvalVars(ApprovalsAnswers)
ApprovalsFairSpec == ApprovalsSpec /\ ApprovalsFairness
-----------------------------------------------------------------------------
ApprovalRowType == [st : Resolution \cup {"pending", "none"}, made : Nat, done : Nat]
ApprovalWriteType == [a : Approval, st : Resolution \cup {"pending"}, at : Nat, kept : BOOLEAN,
                      row : ApprovalRowType]

ApprovalsTypeOK ==
    /\ approvalRow \in [Approval -> ApprovalRowType]
    /\ approvalClock \in Nat
    /\ openApprovals \cup approvalDecisions \subseteq ApprovalWriteType
    /\ approvalLoad \in [phase : {"sent", "read", "done"}, rows : [Approval -> ApprovalRowType],
                     counts : [ApprovalTask -> Nat]]
    /\ approvals \in [Approval -> ApprovalRowType]
    /\ pendingCounts \in [ApprovalTask -> Nat]
    /\ approvalConn \in [up : BOOLEAN, since : Nat,
                         wire : Seq([a : Approval, r : ApprovalRowType,
                                     n : [ApprovalTask -> Nat]])]
    /\ updatingId \in Approval \cup {NoApproval}
    /\ cardMoves \subseteq [t : ApprovalTask, before : [ApprovalTask -> Nat]]
    /\ approvalEvents \in Nat
    /\ leftBehind \subseteq Approval
    /\ miscounted \subseteq ApprovalTask

\* While the approvals stream is up, an approval is shown as it is with no row of it on
\* the way, is on the way as it is, or comes with the next poll, unless a cursor or a late
\* answer left it behind: a decision committed late, a reopening, a cursor moved by own
\* decisions or a page without approvals.
ApprovalsShownOrComing ==
    approvalConn.up => \A a \in Approval :
        \/ a \in leftBehind \cup DueApprovals
        \/ \E e \in ToSet(approvalConn.wire) : e.a = a /\ e.r = approvalRow[a]
        \/ approvals[a] = approvalRow[a] /\ \A e \in ToSet(approvalConn.wire) : e.a # a

\* So is the pending count of a card, and what the rows on the way carry of it, unless a
\* move put back an old one or the approvals it counts are behind the cursor.
CountsRightOrComing ==
    approvalConn.up => \A t \in ApprovalTask :
        LET carrying == {e \in ToSet(approvalConn.wire) : t \in TasksOf[e.a]}
        IN \/ t \in miscounted
           \/ \E a \in DueApprovals : t \in TasksOf[a]
           \/ carrying # {} /\ \A e \in carrying : e.n[t] = PendingCount(t)
           \/ carrying = {} /\ pendingCounts[t] = PendingCount(t)

\* An approval's row is shown in the end, even if an older one on the wire covers
\* the page's own decision for a while, unless it was left behind.
ApprovalsConverge ==
    \A a \in Approval : []<>(approvals[a] = approvalRow[a] \/ a \in leftBehind)

\* So are the pending counts, unless a move put back the one it had kept, or the
\* approvals of that task are behind the cursor: the answer to a decision changes no
\* count, only the stream does.
CountsConverge ==
    \A t \in ApprovalTask : []<>(pendingCounts[t] = PendingCount(t) \/ t \in miscounted)
=============================================================================
