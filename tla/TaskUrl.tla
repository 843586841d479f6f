------------------------------- MODULE TaskUrl -------------------------------
(***************************************************************************)
(* The task a board page has open and the taskId of its URL.  The page     *)
(* asks the router to change the URL and goes on; the change shows later,  *)
(* in searchParams.  An effect opens the URL's task whenever the URL or    *)
(* the list of tasks changes.                                              *)
(***************************************************************************)
EXTENDS Naturals, FiniteSets

CONSTANTS UrlTask, NoUrlTask,
          MaxUrlEvents \* bound: clicks and changes of the list, together

ASSUME NoUrlTaskAssumption == NoUrlTask \notin UrlTask
ASSUME UrlEventsAssumption == MaxUrlEvents \in Nat

UrlTarget == UrlTask \cup {NoUrlTask}
NoNavigation == [busy |-> FALSE, to |-> NoUrlTask]
NavigationTo(t) == [busy |-> TRUE, to |-> t]

VARIABLES listedTasks,   \* tasks of the list; none before the snapshot
          boardLoaded,   \* hasLoadedBoardSnapshot
          url,           \* taskIdFromUrl
          navigation,    \* the change asked of the router that does not show yet
          openedFromUrl, \* openedTaskIdFromUrlRef
          shownTask,     \* selectedTask
          urlEvents,     \* events of this behaviour so far
          userChoice,    \* history: what the user last opened, or closed
          overtaken      \* history: a click or a new list came while the URL was to change

urlVars == <<listedTasks, boardLoaded, url, navigation, openedFromUrl, shownTask, urlEvents,
             userChoice, overtaken>>
------------------------------------------------------------------------------
\* openComments: nothing for a task not in the list; the URL follows the panel.
OpenTask(t, at) ==
    IF t \in listedTasks
    THEN /\ shownTask' = t
         /\ navigation' = IF at # t THEN NavigationTo(t) ELSE navigation
    ELSE UNCHANGED <<shownTask, navigation>>

\* The effect, run with the URL `at` and the list ts; ref is openedTaskIdFromUrlRef.
UrlEffect(at, ts, pending, ref) ==
    CASE at = NoUrlTask ->
            openedFromUrl' = NoUrlTask /\ navigation' = pending /\ UNCHANGED shownTask
      [] at # NoUrlTask /\ ref = at ->
            openedFromUrl' = ref /\ navigation' = pending /\ UNCHANGED shownTask
      [] at # NoUrlTask /\ ref # at /\ at \notin ts ->
            openedFromUrl' = ref /\ navigation' = NavigationTo(NoUrlTask) /\ UNCHANGED shownTask
      [] OTHER ->
            openedFromUrl' = at /\ navigation' = pending /\ shownTask' = at

UrlInit ==
    /\ listedTasks = {}
    /\ boardLoaded = FALSE
    /\ url \in UrlTarget
    /\ navigation = NoNavigation
    /\ openedFromUrl = NoUrlTask
    /\ shownTask = NoUrlTask
    /\ urlEvents = 0
    /\ userChoice = url
    /\ overtaken = FALSE

UrlEvent == urlEvents < MaxUrlEvents /\ urlEvents' = urlEvents + 1

\* loadBoard ends: the tasks are set and the effect runs for the first time.
BoardLoaded ==
    /\ ~boardLoaded
    /\ boardLoaded' = TRUE
    /\ \E ts \in SUBSET UrlTask :
          /\ listedTasks' = ts
          /\ UrlEffect(url, ts, navigation, openedFromUrl)
          /\ userChoice' = IF url \in ts THEN userChoice ELSE NoUrlTask
    /\ UNCHANGED <<url, urlEvents, overtaken>>

\* A stream event, a move or an answer replaces the list of tasks.
TasksChange ==
    /\ UrlEvent
    /\ boardLoaded
    /\ \E ts \in SUBSET UrlTask :
          /\ listedTasks' = ts
          /\ UrlEffect(url, ts, navigation, openedFromUrl)
    /\ overtaken' = (overtaken \/ navigation.busy)
    /\ UNCHANGED <<boardLoaded, url, userChoice>>

\* The router shows the URL it was asked for.
UrlChanges ==
    /\ navigation.busy
    /\ url' = navigation.to
    /\ IF boardLoaded /\ url' # url
       THEN UrlEffect(url', listedTasks, NoNavigation, openedFromUrl)
       ELSE navigation' = NoNavigation /\ UNCHANGED <<openedFromUrl, shownTask>>
    /\ UNCHANGED <<listedTasks, boardLoaded, urlEvents, userChoice, overtaken>>

\* A click on a card, a dependency or a feed entry.
ClickTask(t) ==
    /\ UrlEvent
    /\ t \in listedTasks
    /\ OpenTask(t, url)
    /\ userChoice' = t
    /\ overtaken' = navigation.busy
    /\ UNCHANGED <<listedTasks, boardLoaded, url, openedFromUrl>>

\* Variant: the URL keeps the task.
ClickCloseKeepingUrl ==
    /\ UrlEvent
    /\ shownTask # NoUrlTask
    /\ openedFromUrl' = NoUrlTask
    /\ shownTask' = NoUrlTask
    /\ userChoice' = NoUrlTask
    /\ overtaken' = navigation.busy
    /\ UNCHANGED <<listedTasks, boardLoaded, url, navigation>>

\* closeComments: the URL is cleared only if it shows a task by now.
ClickClose ==
    /\ UrlEvent
    /\ shownTask # NoUrlTask
    /\ openedFromUrl' = NoUrlTask
    /\ navigation' = IF url # NoUrlTask THEN NavigationTo(NoUrlTask) ELSE navigation
    /\ shownTask' = NoUrlTask
    /\ userChoice' = NoUrlTask
    /\ overtaken' = navigation.busy
    /\ UNCHANGED <<listedTasks, boardLoaded, url>>

UrlNext == \/ BoardLoaded \/ TasksChange \/ UrlChanges
           \/ \E t \in UrlTask : ClickTask(t)
           \/ ClickClose

UrlSpec == UrlInit /\ [][UrlNext]_urlVars
------------------------------------------------------------------------------
UrlTypeOK ==
    /\ listedTasks \subseteq UrlTask
    /\ {boardLoaded, overtaken} \subseteq BOOLEAN
    /\ {url, openedFromUrl, shownTask, userChoice} \subseteq UrlTarget
    /\ navigation \in [busy : BOOLEAN, to : UrlTarget]
    /\ urlEvents \in Nat

\* Once the URL has caught up, the panel shows what the user clicked last and the
\* URL says so, unless a click or a change of the list came in between: a task
\* closed before its URL shows opens again, and so does one closed when a stream
\* event replaces the list before the URL is cleared.
PanelFollowsClicks ==
    boardLoaded /\ ~navigation.busy /\ ~overtaken => shownTask = userChoice /\ url = shownTask
==============================================================================
