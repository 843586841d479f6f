----------------------------- MODULE BoardCards -----------------------------
(***************************************************************************)
(* The cards of one board page and the tasks of the server they stand for: *)
(* the snapshot, the task stream with its cursor and reconnects, and the   *)
(* user's creations, moves, saves and deletions, each of which awaits its  *)
(* answer while stream events keep arriving.                               *)
(*                                                                         *)
(* A task's row is its status and the stamp of the write it comes from:    *)
(* the other fields travel with the row.  The page is mounted for one      *)
(* board.                                                                  *)
(***************************************************************************)
EXTENDS Naturals, FiniteSets, Orders

CONSTANTS CardTask,     \* ids of tasks, each created at most once
          CardStart,    \* those that exist when the page is opened
          MaxCardEvents \* bound: other clients' writes, requests and lost streams, together

ASSUME CardStartAssumption == CardStart \subseteq CardTask /\ IsFiniteSet(CardStart)
ASSUME CardEventsAssumption == MaxCardEvents \in Nat

CardStatus == {"inbox", "in_progress"}
CardCause == {"deleted", "late", "leapt", "phantom", "reverted", "slow", "twice"}

VARIABLES taskRow,    \* task -> its row on the server
          taskLog,    \* the task events committed, in commit order
          clock,      \* the server's clock: the newest stamp given
          slowWrites, \* writes stamped and not committed yet
          cardLoad,   \* the request for the snapshot
          tasks,      \* the page's cards
          taskConn,   \* the stream: the server's cursor and what is on the wire
          cardReqs,   \* the page's requests in flight
          cardEvents, \* writes, requests and drops so far
          staleCause  \* history: task -> why its card may stay wrong

cardVars == <<taskRow, taskLog, clock, slowWrites, cardLoad, tasks, taskConn, cardReqs,
              cardEvents, staleCause>>
-----------------------------------------------------------------------------
LiveTask(t) == taskRow[t].st \in CardStatus
CardOf(t, r) == [t |-> t, st |-> r.st, at |-> r.at]
CardNow(t) == CardOf(t, taskRow[t])
CardsOf(shown, t) == {c \in ToSet(shown) : c.t = t}
CardInSync(t) == CardsOf(tasks, t) = IF LiveTask(t) THEN {CardNow(t)} ELSE {}

\* The order of commits, which slow writes make differ from that of stamps.
CommitOrder(at) == CHOOSE i \in DOMAIN taskLog : taskLog[i].at = at
IsCommitted(c) == \E i \in DOMAIN taskLog : taskLog[i] = c

NoTaskStream == [up |-> FALSE, since |-> 0, seen |-> {}, wire |-> <<>>]

\* One committed write of task t, with its activity event.
WriteTask(t, st, at) ==
    /\ taskRow' = [taskRow EXCEPT ![t] = [st |-> st, at |-> at]]
    /\ taskLog' = Append(taskLog, [t |-> t, st |-> st, at |-> at])

BecauseOf(ts, cause) ==
    [t \in CardTask |-> IF t \in ts THEN staleCause[t] \cup {cause} ELSE staleCause[t]]

\* The only card of a task that shows its row again is wrong for no earlier reason.
CauseSettled(t, c) ==
    [staleCause EXCEPT ![t] = IF c = CardNow(t) /\ "twice" \notin @ THEN {} ELSE @]

CardsInit ==
    /\ taskLog = [i \in 1..Cardinality(CardStart) |->
                 [t |-> SetToSeq(CardStart)[i], st |-> "inbox", at |-> i]]
    /\ clock = Cardinality(CardStart)
    /\ taskRow = [t \in CardTask |->
                 IF t \in CardStart
                 THEN [st |-> "inbox", at |-> CHOOSE i \in DOMAIN taskLog : taskLog[i].t = t]
                 ELSE [st |-> "unborn", at |-> 0]]
    /\ slowWrites = {}
    /\ cardLoad = [phase |-> "sent", cards |-> <<>>]
    /\ tasks = <<>>
    /\ taskConn = NoTaskStream
    /\ cardReqs = {}
    /\ cardEvents = 0
    /\ staleCause = [t \in CardTask |-> {}]
-----------------------------------------------------------------------------
\* Other clients: a write, a creation, or the removal of a task with its events.
OtherWrites(t) ==
    /\ cardEvents < MaxCardEvents
    /\ taskRow[t].st # "deleted"
    /\ cardEvents' = cardEvents + 1
    /\ clock' = clock + 1
    /\ \E st \in CardStatus : WriteTask(t, IF LiveTask(t) THEN st ELSE "inbox", clock + 1)
    /\ UNCHANGED <<slowWrites, cardLoad, tasks, taskConn, cardReqs, staleCause>>

OtherDeletes(t) ==
    /\ cardEvents < MaxCardEvents
    /\ LiveTask(t)
    /\ cardEvents' = cardEvents + 1
    /\ taskRow' = [taskRow EXCEPT ![t].st = "deleted"]
    /\ staleCause' = BecauseOf({t}, "deleted")
    /\ UNCHANGED <<taskLog, clock, slowWrites, cardLoad, tasks, taskConn, cardReqs>>

\* A transaction stamps its event before it commits: newer stamps may show first.
SlowBegins(t) ==
    /\ cardEvents < MaxCardEvents
    /\ LiveTask(t)
    /\ cardEvents' = cardEvents + 1
    /\ clock' = clock + 1
    /\ \E st \in CardStatus : slowWrites' = slowWrites \cup {[t |-> t, st |-> st, at |-> clock + 1]}
    /\ UNCHANGED <<taskRow, taskLog, cardLoad, tasks, taskConn, cardReqs, staleCause>>

SlowCommits(w) ==
    /\ w \in slowWrites
    /\ slowWrites' = slowWrites \ {w}
    /\ IF LiveTask(w.t) THEN WriteTask(w.t, w.st, w.at) ELSE UNCHANGED <<taskRow, taskLog>>
    /\ staleCause' = IF LiveTask(w.t) /\ taskConn.up /\ w.at < taskConn.since
                     THEN BecauseOf({w.t}, "slow") ELSE staleCause
    /\ UNCHANGED <<clock, cardLoad, tasks, taskConn, cardReqs, cardEvents>>
-----------------------------------------------------------------------------
\* loadBoard: the server reads the tasks, later the page sets its state.
SnapshotRead ==
    /\ cardLoad.phase = "sent"
    /\ cardLoad' = [phase |-> "read",
                cards |-> SetToSeq({CardNow(t) : t \in {u \in CardTask : LiveTask(u)}})]
    /\ UNCHANGED <<taskRow, taskLog, clock, slowWrites, tasks, taskConn, cardReqs, cardEvents,
                   staleCause>>

SnapshotSet ==
    /\ cardLoad.phase = "read"
    /\ tasks' = cardLoad.cards
    /\ cardLoad' = [phase |-> "done", cards |-> <<>>]
    /\ UNCHANGED <<taskRow, taskLog, clock, slowWrites, taskConn, cardReqs, cardEvents,
                   staleCause>>

SnapshotFails ==
    /\ cardLoad.phase \in {"sent", "read"}
    /\ cardLoad' = [phase |-> "failed", cards |-> <<>>]
    /\ UNCHANGED <<taskRow, taskLog, clock, slowWrites, tasks, taskConn, cardReqs, cardEvents,
                   staleCause>>

\* latestTaskTimestamp: the cursor is the newest stamp the page shows.
LatestTask == Max({0} \cup {c.at : c \in ToSet(tasks)})

\* connect: without a cursor the server starts from its own clock.
ConnectTasks ==
    /\ cardLoad.phase = "done"
    /\ ~taskConn.up
    /\ LET since == IF LatestTask = 0 THEN clock + 1 ELSE LatestTask
           Streamed(t) == \E i \in DOMAIN taskLog : taskLog[i].t = t /\ taskLog[i].at >= since
       IN /\ taskConn' = [NoTaskStream EXCEPT !.up = TRUE, !.since = since]
          /\ staleCause' = BecauseOf({t \in CardTask : LiveTask(t) /\ ~CardInSync(t) /\ ~Streamed(t)},
                                     "leapt")
    /\ UNCHANGED <<taskRow, taskLog, clock, slowWrites, cardLoad, tasks, cardReqs, cardEvents>>

\* The stream ends, or the page is hidden and aborts it: what is on the wire is gone.
LoseTasks ==
    /\ taskConn.up
    /\ cardEvents < MaxCardEvents
    /\ cardEvents' = cardEvents + 1
    /\ taskConn' = NoTaskStream
    /\ staleCause' = BecauseOf({t \in CardTask : \E i \in DOMAIN taskConn.wire :
                          taskConn.wire[i].t = t /\ ~LiveTask(t)}, "deleted")
    /\ UNCHANGED <<taskRow, taskLog, clock, slowWrites, cardLoad, tasks, cardReqs>>

\* Variant: only events after the cursor.
FreshAfterCursor == {i \in DOMAIN taskLog : /\ taskLog[i].at > taskConn.since
                             /\ taskLog[i].at \notin taskConn.seen
                             /\ LiveTask(taskLog[i].t)}

\* _task_event_generator: unseen events from the cursor on, each with the row of now.
FreshEvents == {i \in DOMAIN taskLog : /\ taskLog[i].at >= taskConn.since
                             /\ taskLog[i].at \notin taskConn.seen
                             /\ LiveTask(taskLog[i].t)}

PollTasks ==
    /\ taskConn.up
    /\ FreshEvents # {}
    /\ LET stamps == {taskLog[i].at : i \in FreshEvents}
           news == Ascending(stamps)
       IN taskConn' = [taskConn EXCEPT
                      !.since = Max({@} \cup stamps),
                      !.seen = @ \cup stamps,
                      !.wire = @ \o [k \in DOMAIN news |-> CardNow(taskLog[CommitOrder(news[k])].t)]]
    /\ UNCHANGED <<taskRow, taskLog, clock, slowWrites, cardLoad, tasks, cardReqs, cardEvents,
                   staleCause>>

\* Variant: every streamed row is a new card.
MergedCardsInFront(shown, c) == <<c>> \o shown

\* The first card with the id is replaced; an unknown id is a new card.
MergedCards(shown, c) ==
    IF CardsOf(shown, c.t) = {} THEN <<c>> \o shown
    ELSE ReplaceAt(shown, SelectInSeq(shown, LAMBDA d : d.t = c.t), c)

TaskStreamed ==
    /\ taskConn.up
    /\ taskConn.wire # <<>>
    /\ LET c == Head(taskConn.wire)
       IN /\ tasks' = MergedCards(tasks, c)
          /\ staleCause' = IF LiveTask(c.t) THEN CauseSettled(c.t, c) ELSE BecauseOf({c.t}, "deleted")
    /\ taskConn' = [taskConn EXCEPT !.wire = Tail(@)]
    /\ UNCHANGED <<taskRow, taskLog, clock, slowWrites, cardLoad, cardReqs, cardEvents>>
-----------------------------------------------------------------------------
SendRequest(kind, t, st, before) ==
    /\ cardEvents < MaxCardEvents
    /\ cardEvents' = cardEvents + 1
    /\ cardReqs' = cardReqs \cup {[id |-> cardEvents, kind |-> kind, t |-> t, before |-> before,
                           phase |-> "sent", ok |-> FALSE, st |-> st, at |-> 0]}

\* map over the cards: every card with the id takes the new values.
ReplacedCards(shown, c) == [i \in DOMAIN shown |-> IF shown[i].t = c.t THEN c ELSE shown[i]]

\* handleTaskMove up to its await: the card moves before the server is asked.
HandleTaskMove(t, st) ==
    /\ cardLoad.phase = "done"
    /\ \E i \in DOMAIN tasks :
          /\ i = SelectInSeq(tasks, LAMBDA c : c.t = t)
          /\ tasks[i].st # st
    /\ SendRequest("move", t, st, tasks)
    /\ tasks' = [i \in DOMAIN tasks |-> IF tasks[i].t = t THEN [tasks[i] EXCEPT !.st = st]
                                                          ELSE tasks[i]]
    /\ UNCHANGED <<taskRow, taskLog, clock, slowWrites, cardLoad, taskConn, staleCause>>

\* handleTaskSave, handleDeleteTask and handleCreateTask up to their await.
HandleTaskSave(t, st) ==
    /\ cardLoad.phase = "done"
    /\ CardsOf(tasks, t) # {}
    /\ SendRequest("save", t, st, <<>>)
    /\ UNCHANGED <<taskRow, taskLog, clock, slowWrites, cardLoad, tasks, taskConn, staleCause>>

HandleDeleteTask(t) ==
    /\ cardLoad.phase = "done"
    /\ CardsOf(tasks, t) # {}
    /\ SendRequest("delete", t, "inbox", <<>>)
    /\ UNCHANGED <<taskRow, taskLog, clock, slowWrites, cardLoad, tasks, taskConn, staleCause>>

HandleCreateTask(t) ==
    /\ cardLoad.phase = "done"
    /\ taskRow[t].st = "unborn"
    /\ \A r \in cardReqs : r.t # t
    /\ SendRequest("create", t, "inbox", <<>>)
    /\ UNCHANGED <<taskRow, taskLog, clock, slowWrites, cardLoad, tasks, taskConn, staleCause>>

RequestAnswered(r, ok, st, at) ==
    cardReqs' = (cardReqs \ {r}) \cup {[r EXCEPT !.phase = "answered", !.ok = ok, !.st = st, !.at = at]}

\* The server commits the request; its answer may still be lost on the way back.
ServeRequest(r) ==
    /\ r \in cardReqs /\ r.phase = "sent"
    /\ IF r.kind = "create" THEN taskRow[r.t].st = "unborn" ELSE LiveTask(r.t)
    /\ \E ok \in BOOLEAN : RequestAnswered(r, ok, r.st, clock + 1)
    /\ IF r.kind = "delete"
       THEN /\ taskRow' = [taskRow EXCEPT ![r.t].st = "deleted"]
            /\ staleCause' = BecauseOf({r.t}, "deleted")
            /\ UNCHANGED <<taskLog, clock>>
       ELSE /\ WriteTask(r.t, r.st, clock + 1)
            /\ clock' = clock + 1
            /\ UNCHANGED staleCause
    /\ UNCHANGED <<slowWrites, cardLoad, tasks, taskConn, cardEvents>>

\* Refused (400, 404, 409, 422) or lost on the way: the mutator throws.
RefuseRequest(r) ==
    /\ r \in cardReqs /\ r.phase = "sent"
    /\ RequestAnswered(r, FALSE, r.st, 0)
    /\ UNCHANGED <<taskRow, taskLog, clock, slowWrites, cardLoad, tasks, taskConn, cardEvents,
                   staleCause>>
-----------------------------------------------------------------------------
\* The answer of a move or a save replaces the card, whatever arrived meanwhile.
PatchAnswered(r) ==
    /\ r \in cardReqs /\ r.phase = "answered" /\ r.ok
    /\ r.kind \in {"move", "save"}
    /\ cardReqs' = cardReqs \ {r}
    /\ LET c == [t |-> r.t, st |-> r.st, at |-> r.at]
           late == \E d \in CardsOf(tasks, r.t) : CommitOrder(d.at) > CommitOrder(c.at)
       IN /\ tasks' = ReplacedCards(tasks, c)
          /\ staleCause' = CASE late -> BecauseOf({r.t}, "late")
                      [] ~late /\ CardsOf(tasks, r.t) # {} -> CauseSettled(r.t, c)
                      [] OTHER -> staleCause
    /\ UNCHANGED <<taskRow, taskLog, clock, slowWrites, cardLoad, taskConn, cardEvents>>

\* Variant: the guess stays when the server refuses it.
MoveFailsQuietly(r) ==
    /\ r \in cardReqs /\ r.phase = "answered" /\ ~r.ok
    /\ r.kind = "move"
    /\ cardReqs' = cardReqs \ {r}
    /\ UNCHANGED <<taskRow, taskLog, clock, slowWrites, cardLoad, tasks, taskConn, cardEvents,
                   staleCause>>

\* setTasks(previousTasks): all the cards as they were when the move began.
MoveFails(r) ==
    /\ r \in cardReqs /\ r.phase = "answered" /\ ~r.ok
    /\ r.kind = "move"
    /\ cardReqs' = cardReqs \ {r}
    /\ tasks' = r.before
    /\ LET Stamps(shown, t) == {c.at : c \in CardsOf(shown, t)}
           Reverted(t) == Stamps(r.before, t) # Stamps(tasks, t)
           Phantom(t) == \E c \in CardsOf(r.before, t) : ~IsCommitted(c)
       IN staleCause' = [t \in CardTask |->
                    staleCause[t] \cup (IF Reverted(t) THEN {"reverted"} ELSE {})
                           \cup (IF Phantom(t) THEN {"phantom"} ELSE {})]
    /\ UNCHANGED <<taskRow, taskLog, clock, slowWrites, cardLoad, taskConn, cardEvents>>

\* The new card goes in front, with no look at whether the stream brought it.
CreateAnswered(r) ==
    /\ r \in cardReqs /\ r.phase = "answered" /\ r.ok
    /\ r.kind = "create"
    /\ cardReqs' = cardReqs \ {r}
    /\ tasks' = <<[t |-> r.t, st |-> r.st, at |-> r.at]>> \o tasks
    /\ staleCause' = IF CardsOf(tasks, r.t) # {} THEN BecauseOf({r.t}, "twice")
                                        ELSE CauseSettled(r.t, CardOf(r.t, r))
    /\ UNCHANGED <<taskRow, taskLog, clock, slowWrites, cardLoad, taskConn, cardEvents>>

DeleteAnswered(r) ==
    /\ r \in cardReqs /\ r.phase = "answered" /\ r.ok
    /\ r.kind = "delete"
    /\ cardReqs' = cardReqs \ {r}
    /\ tasks' = LET kept == Ascending({i \in DOMAIN tasks : tasks[i].t # r.t})
                IN [k \in DOMAIN kept |-> tasks[kept[k]]]
    /\ UNCHANGED <<taskRow, taskLog, clock, slowWrites, cardLoad, taskConn, cardEvents,
                   staleCause>>

\* The other handlers only report the error.
FailureShown(r) ==
    /\ r \in cardReqs /\ r.phase = "answered" /\ ~r.ok
    /\ r.kind # "move"
    /\ cardReqs' = cardReqs \ {r}
    /\ UNCHANGED <<taskRow, taskLog, clock, slowWrites, cardLoad, tasks, taskConn, cardEvents,
                   staleCause>>

CardsUser == \E t \in CardTask :
    \/ \E st \in CardStatus : HandleTaskMove(t, st) \/ HandleTaskSave(t, st)
    \/ HandleCreateTask(t)
    \/ HandleDeleteTask(t)

CardsServer == \E r \in cardReqs : ServeRequest(r) \/ RefuseRequest(r)
CardsAnswer == \E r \in cardReqs : \/ PatchAnswered(r) \/ MoveFails(r)
                               \/ CreateAnswered(r) \/ DeleteAnswered(r) \/ FailureShown(r)
CardsLoad == SnapshotRead \/ SnapshotSet

CardsNext == \/ \E t \in CardTask : OtherWrites(t) \/ OtherDeletes(t) \/ SlowBegins(t)
             \/ \E w \in slowWrites : SlowCommits(w)
             \/ CardsLoad \/ SnapshotFails
             \/ ConnectTasks \/ LoseTasks \/ PollTasks \/ TaskStreamed
             \/ CardsUser \/ CardsServer \/ CardsAnswer

CardsSpec == CardsInit /\ [][CardsNext]_cardVars
-----------------------------------------------------------------------------
CardType == [t : CardTask, st : CardStatus, at : Nat \ {0}]
CardReqType == [id : Nat, kind : {"move", "save", "create", "delete"}, t : CardTask,
                before : Seq(CardType), phase : {"sent", "answered"}, ok : BOOLEAN,
                st : CardStatus, at : Nat]

CardsTypeOK ==
    /\ taskRow \in [CardTask -> [st : CardStatus \cup {"unborn", "deleted"}, at : Nat]]
    /\ taskLog \in Seq(CardType)
    /\ clock \in Nat
    /\ slowWrites \subseteq CardType
    /\ cardLoad \in [phase : {"sent", "read", "done", "failed"}, cards : Seq(CardType)]
    /\ tasks \in Seq(CardType)
    /\ taskConn \in [up : BOOLEAN, since : Nat, seen : SUBSET Nat, wire : Seq(CardType)]
    /\ cardReqs \subseteq CardReqType
    /\ cardEvents \in Nat
    /\ staleCause \in [CardTask -> SUBSET CardCause]

\* A task has one card, except one created here whose event came before the
\* answer: the answer of handleCreateTask is put in front without a look.
OneCardPerTask ==
    \A i, j \in DOMAIN tasks :
        i # j /\ tasks[i].t = tasks[j].t => "twice" \in staleCause[tasks[i].t]

\* A status no commit gave is shown only while a move of that card awaits its
\* answer, or after a rollback to a list that held another move's guess.
GuessesAwaitAnswer ==
    \A c \in ToSet(tasks) :
        IsCommitted(c) \/ "phantom" \in staleCause[c.t]
                    \/ \E r \in cardReqs : r.kind = "move" /\ r.t = c.t

\* Once nothing is in flight and the stream has sent all it will, the cards are
\* the server's, or the step that made the difference is on record: an answer
\* older than the card, a rollback over later events, a cursor past an event
\* (own answers move it), a commit behind the cursor, a deletion (never streamed).
CardsQuiet ==
    cardLoad.phase = "done" /\ cardReqs = {} /\ taskConn.up /\ taskConn.wire = <<>> /\ FreshEvents = {}
StaleCardsHaveCause == CardsQuiet => \A t \in CardTask : CardInSync(t) \/ staleCause[t] # {}
=============================================================================
