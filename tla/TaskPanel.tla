------------------------------ MODULE TaskPanel ------------------------------
(***************************************************************************)
(* The detail panel of a board page: the task it is opened for, and the    *)
(* comments, iterations and notebook answer that requests and the task     *)
(* stream put into it.  No request is cancelled when the panel moves on,   *)
(* and no answer says which task the panel was showing when it was sent.   *)
(*                                                                         *)
(* The page keeps comments sorted by time and merged by id: a set here.    *)
(***************************************************************************)
EXTENDS Naturals, FiniteSets, Sequences

CONSTANTS PanelTask,
          NoTask,
          MaxPanelEvents \* bound: what users and lost events do, together

ASSUME NoTaskAssumption == NoTask \notin PanelTask
ASSUME PanelEventsAssumption == MaxPanelEvents \in Nat

LoadedPart == {"comments", "iterations"}
PanelPart == LoadedPart \cup {"answer"}

VARIABLES thread,         \* task -> ids of its comments on the server
          selected,       \* selectedTask, and selectedTaskIdRef
          isOpen,         \* isDetailOpen
          comments,       \* the comments of the panel
          iterations,     \* the task whose iterations the panel holds
          notebookAnswer, \* the task whose notebook answer it holds
          loadingParts,   \* isCommentsLoading, isIterationsLoading
          failedParts,    \* commentsError, iterationsError
          panelLoads,     \* reads in flight
          panelPosts,     \* posts, notebook queries and saves in flight
          commentEvents,  \* comment events on the stream
          panelEvents,    \* events of this behaviour so far
          astray,         \* history: parts filled for another task than the one selected
          commentGap      \* history: a comment of the selected task passed the panel by, or the
                          \* error of its load was cleared

panelVars == <<thread, selected, isOpen, comments, iterations, notebookAnswer, loadingParts,
               failedParts, panelLoads, panelPosts, commentEvents, panelEvents, astray,
               commentGap>>
-----------------------------------------------------------------------------
CommentsOf(t, ns) == {[t |-> t, n |-> n] : n \in ns}
PanelEvent == panelEvents < MaxPanelEvents /\ panelEvents' = panelEvents + 1

\* What the user sees of a part: neither a spinner nor an error is in its place.
InSight(part) == isOpen /\ selected # NoTask /\ part \notin loadingParts \cup failedParts

\* loadComments and loadTaskIterations up to their await.
StartLoads(t, parts) ==
    /\ panelLoads' = panelLoads \cup
           {[id |-> panelEvents, what |-> p, t |-> t, phase |-> "sent", rows |-> {}] :
                               p \in parts}
    /\ loadingParts' = loadingParts \cup parts
    /\ failedParts' = failedParts \ parts

PanelInit ==
    /\ thread = [t \in PanelTask |-> {}]
    /\ selected = NoTask
    /\ isOpen = FALSE
    /\ comments = {}
    /\ iterations = NoTask
    /\ notebookAnswer = NoTask
    /\ loadingParts = {}
    /\ failedParts = {}
    /\ panelLoads = {}
    /\ panelPosts = {}
    /\ commentEvents = <<>>
    /\ panelEvents = 0
    /\ astray = {}
    /\ commentGap = FALSE
-----------------------------------------------------------------------------
\* The panel keeps the comments it had until the load answers.
OpenComments(t) ==
    /\ PanelEvent
    /\ selected' = t
    /\ isOpen' = TRUE
    /\ notebookAnswer' = NoTask
    /\ StartLoads(t, LoadedPart)
    /\ astray' = astray \ {"answer"}
    /\ commentGap' = FALSE
    /\ UNCHANGED <<thread, comments, iterations, panelPosts, commentEvents>>

CloseComments ==
    /\ PanelEvent
    /\ isOpen
    /\ selected' = NoTask
    /\ isOpen' = FALSE
    /\ comments' = {}
    /\ iterations' = NoTask
    /\ notebookAnswer' = NoTask
    /\ failedParts' = {}
    /\ astray' = {}
    /\ UNCHANGED <<thread, loadingParts, panelLoads, panelPosts, commentEvents, commentGap>>

\* handlePostComment, handleNotebookQuery and handleTaskSave up to their await.
SendPost(kind) ==
    /\ PanelEvent
    /\ isOpen /\ selected # NoTask
    /\ \A p \in panelPosts : p.kind # kind
    /\ panelPosts' = panelPosts \cup {[kind |-> kind, t |-> selected, phase |-> "sent", n |-> 0]}
    /\ UNCHANGED <<thread, selected, isOpen, comments, iterations, notebookAnswer,
                   loadingParts, failedParts, panelLoads, commentEvents, astray, commentGap>>

OtherComments(t) ==
    /\ PanelEvent
    /\ thread' = [thread EXCEPT ![t] = @ \cup {panelEvents'}]
    /\ commentEvents' = Append(commentEvents, [t |-> t, n |-> panelEvents'])
    /\ UNCHANGED <<selected, isOpen, comments, iterations, notebookAnswer, loadingParts,
                   failedParts, panelLoads, panelPosts, astray, commentGap>>
-----------------------------------------------------------------------------
\* A post and a notebook query write a comment; its event is streamed as any other.
ServePost(p) ==
    /\ p \in panelPosts /\ p.phase = "sent"
    /\ LET n == MaxPanelEvents + Cardinality(UNION {thread[t] : t \in PanelTask}) + 1
       IN /\ panelPosts' = (panelPosts \ {p}) \cup {[p EXCEPT !.phase = "ok", !.n = n]}
          /\ IF p.kind = "save" THEN UNCHANGED <<thread, commentEvents>>
             ELSE /\ thread' = [thread EXCEPT ![p.t] = @ \cup {n}]
                  /\ commentEvents' = Append(commentEvents, [t |-> p.t, n |-> n])
    /\ UNCHANGED <<selected, isOpen, comments, iterations, notebookAnswer, loadingParts,
                   failedParts, panelLoads, panelEvents, astray, commentGap>>

\* A refused or unanswered post leaves the panel as it is.
PostFails(p) ==
    /\ p \in panelPosts
    /\ panelPosts' = panelPosts \ {p}
    /\ UNCHANGED <<thread, selected, isOpen, comments, iterations, notebookAnswer,
                   loadingParts, failedParts, panelLoads, commentEvents, panelEvents, astray,
                   commentGap>>

\* handlePostComment: the new comment is merged into whatever the panel holds.
CommentPosted(p) ==
    /\ p \in panelPosts /\ p.phase = "ok" /\ p.kind = "post"
    /\ panelPosts' = panelPosts \ {p}
    /\ comments' = comments \cup CommentsOf(p.t, {p.n})
    /\ astray' = IF p.t = selected THEN astray ELSE astray \cup {"comments"}
    /\ UNCHANGED <<thread, selected, isOpen, iterations, notebookAnswer, loadingParts,
                   failedParts, panelLoads, commentEvents, panelEvents, commentGap>>

\* handleNotebookQuery: the answer is shown and the comments of its task loaded.
NotebookAnswered(p) ==
    /\ p \in panelPosts /\ p.phase = "ok" /\ p.kind = "ask"
    /\ panelPosts' = panelPosts \ {p}
    /\ notebookAnswer' = p.t
    /\ StartLoads(p.t, {"comments"})
    /\ astray' = IF p.t = selected THEN astray \ {"answer"} ELSE astray \cup {"answer"}
    /\ commentGap' = (commentGap \/ (p.t # selected /\ "comments" \in failedParts))
    /\ UNCHANGED <<thread, selected, isOpen, comments, iterations, commentEvents, panelEvents>>

\* handleTaskSave: setSelectedTask(updated), whatever the panel shows by now.
TaskSaved(p) ==
    /\ p \in panelPosts /\ p.phase = "ok" /\ p.kind = "save"
    /\ panelPosts' = panelPosts \ {p}
    /\ selected' = p.t
    /\ astray' = IF p.t = selected THEN astray ELSE PanelPart
    /\ commentGap' = (commentGap \/ p.t # selected)
    /\ UNCHANGED <<thread, isOpen, comments, iterations, notebookAnswer, loadingParts,
                   failedParts, panelLoads, commentEvents, panelEvents>>
-----------------------------------------------------------------------------
LoadRead(l) ==
    /\ l \in panelLoads /\ l.phase = "sent"
    /\ panelLoads' = (panelLoads \ {l}) \cup {[l EXCEPT !.phase = "read", !.rows = thread[l.t]]}
    /\ UNCHANGED <<thread, selected, isOpen, comments, iterations, notebookAnswer,
                   loadingParts, failedParts, panelPosts, commentEvents, panelEvents, astray,
                   commentGap>>

\* The answer replaces what the panel held, also what arrived since it was read.
LoadAnswered(l) ==
    /\ l \in panelLoads /\ l.phase = "read"
    /\ panelLoads' = panelLoads \ {l}
    /\ loadingParts' = loadingParts \ {l.what}
    /\ IF l.what = "comments"
       THEN comments' = CommentsOf(l.t, l.rows) /\ UNCHANGED iterations
       ELSE iterations' = l.t /\ UNCHANGED comments
    /\ astray' = IF l.t = selected THEN astray \ {l.what} ELSE astray \cup {l.what}
    /\ LET wiped == {c \in comments : c.t = selected} \ CommentsOf(l.t, l.rows)
       IN commentGap' = (commentGap \/ (l.what = "comments" /\ wiped # {}))
    /\ UNCHANGED <<thread, selected, isOpen, notebookAnswer, failedParts, panelPosts,
                   commentEvents, panelEvents>>

LoadFails(l) ==
    /\ l \in panelLoads
    /\ panelLoads' = panelLoads \ {l}
    /\ loadingParts' = loadingParts \ {l.what}
    /\ failedParts' = failedParts \cup {l.what}
    /\ UNCHANGED <<thread, selected, isOpen, comments, iterations, notebookAnswer, panelPosts,
                   commentEvents, panelEvents, astray, commentGap>>

\* Variant: every comment is merged, whatever the panel shows.
CommentStreamedUnasked ==
    /\ commentEvents # <<>>
    /\ commentEvents' = Tail(commentEvents)
    /\ comments' = comments \cup {Head(commentEvents)}
    /\ UNCHANGED <<thread, selected, isOpen, iterations, notebookAnswer, loadingParts,
                   failedParts, panelLoads, panelPosts, panelEvents, astray, commentGap>>

\* Variant: comments that come while a load is in flight are left to it.
CommentLeftToLoad ==
    /\ commentEvents # <<>>
    /\ commentEvents' = Tail(commentEvents)
    /\ comments' = IF Head(commentEvents).t = selected /\ "comments" \notin loadingParts
                   THEN comments \cup {Head(commentEvents)} ELSE comments
    /\ UNCHANGED <<thread, selected, isOpen, iterations, notebookAnswer, loadingParts,
                   failedParts, panelLoads, panelPosts, panelEvents, astray, commentGap>>

\* The stream looks at selectedTaskIdRef before it merges a comment.
CommentStreamed ==
    /\ commentEvents # <<>>
    /\ commentEvents' = Tail(commentEvents)
    /\ comments' = IF Head(commentEvents).t = selected THEN comments \cup {Head(commentEvents)}
                                                       ELSE comments
    /\ UNCHANGED <<thread, selected, isOpen, iterations, notebookAnswer, loadingParts,
                   failedParts, panelLoads, panelPosts, panelEvents, astray, commentGap>>

\* A reconnect whose cursor has moved past the event.
CommentSkipped ==
    /\ PanelEvent
    /\ commentEvents # <<>>
    /\ commentEvents' = Tail(commentEvents)
    /\ commentGap' = (commentGap \/ Head(commentEvents).t = selected)
    /\ UNCHANGED <<thread, selected, isOpen, comments, iterations, notebookAnswer,
                   loadingParts, failedParts, panelLoads, panelPosts, astray>>

PanelUser == \/ \E t \in PanelTask : OpenComments(t) \/ OtherComments(t)
             \/ CloseComments
             \/ \E kind \in {"post", "ask", "save"} : SendPost(kind)

PanelAnswers == \/ \E p \in panelPosts : \/ ServePost(p) \/ PostFails(p)
                                    \/ CommentPosted(p) \/ NotebookAnswered(p) \/ TaskSaved(p)
                \/ \E l \in panelLoads : LoadRead(l) \/ LoadAnswered(l) \/ LoadFails(l)

PanelNext == PanelUser \/ PanelAnswers \/ CommentStreamed \/ CommentSkipped

PanelSpec == PanelInit /\ [][PanelNext]_panelVars
-----------------------------------------------------------------------------
CommentType == [t : PanelTask, n : Nat]

PanelTypeOK ==
    /\ thread \in [PanelTask -> SUBSET Nat]
    /\ {selected, iterations, notebookAnswer} \subseteq PanelTask \cup {NoTask}
    /\ isOpen \in BOOLEAN
    /\ comments \subseteq CommentType
    /\ loadingParts \subseteq LoadedPart /\ failedParts \subseteq LoadedPart
    /\ panelLoads \subseteq [id : Nat, what : LoadedPart, t : PanelTask, phase : {"sent", "read"},
                              rows : SUBSET Nat]
    /\ panelPosts \subseteq [kind : {"post", "ask", "save"}, t : PanelTask, phase : {"sent", "ok"},
                              n : Nat]
    /\ commentEvents \in Seq(CommentType)
    /\ panelEvents \in Nat
    /\ astray \subseteq PanelPart
    /\ commentGap \in BOOLEAN

\* The comments, iterations and notebook answer in sight are those of the selected
\* task, unless one came for a task the panel had left (or returned a saved task
\* to it): the stream's guard on selectedTaskIdRef is the only one there is.
PanelShowsItsTask ==
    /\ InSight("comments") => "comments" \in astray \/ \A c \in comments : c.t = selected
    /\ InSight("iterations") => "iterations" \in astray \/ iterations = selected
    /\ isOpen /\ notebookAnswer # NoTask => "answer" \in astray \/ notebookAnswer = selected

\* Once its loads and the events have come in the panel has every comment of its task,
\* unless a load wiped one that came after it was read, an event was skipped, or the
\* notebook's answer for another task took away the error of the load that failed.
PanelHasAllComments ==
    InSight("comments") /\ panelLoads = {} /\ commentEvents = <<>>
        => commentGap \/ CommentsOf(selected, thread[selected]) \subseteq comments
==============================================================================
