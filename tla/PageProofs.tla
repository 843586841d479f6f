------------------------------ MODULE PageProofs ------------------------------
(***************************************************************************)
(* What holds of the pages of the web client for every number of tasks,    *)
(* messages and events: the task of the URL, the task panel, the chat of   *)
(* the board page, the onboarding dialog, the messages of a board group    *)
(* and the list of the activity page.  Each is a specification of its own  *)
(* and shares no variable with the others.                                 *)
(***************************************************************************)
EXTENDS TaskUrl, TaskPanel, BoardChat, OnboardingChat, GroupMemory, ActivityFeed,
        OrderLemmas

-----------------------------------------------------------------------------
(***************************************************************************)
(* The task of the URL.                                                    *)
(***************************************************************************)
\* Before the snapshot nothing is open, asked for or chosen but by the URL.
NothingYet ==
    ~boardLoaded => /\ listedTasks = {} /\ navigation = NoNavigation /\ openedFromUrl = NoUrlTask
                    /\ shownTask = NoUrlTask /\ userChoice = url /\ ~overtaken

\* The page asks for no URL that it has.
NavigationAway == navigation.busy => navigation.to # url

\* Once the URL has settled, the effect has seen its task.
UrlSeen == boardLoaded /\ ~navigation.busy /\ url # NoUrlTask => openedFromUrl = url

\* What the user chose is shown, and where the URL goes if it is not there.
ChoiceShown ==
    boardLoaded /\ ~overtaken =>
        /\ shownTask = userChoice
        /\ ~navigation.busy => url = shownTask
        /\ navigation.busy =>
             /\ navigation.to = shownTask
             /\ navigation.to = NoUrlTask \/ navigation.to \in listedTasks

UrlInv == UrlTypeOK /\ NothingYet /\ NavigationAway /\ UrlSeen /\ ChoiceShown

LEMMA UrlInitial == UrlInit => UrlInv
<1> SUFFICES ASSUME UrlInit PROVE UrlInv
  OBVIOUS
<1>1. ~navigation.busy /\ navigation \in [busy : BOOLEAN, to : UrlTarget]
  BY DEF UrlInit, NoNavigation, UrlTarget
<1> QED BY <1>1, NoUrlTaskAssumption DEF UrlInit, UrlInv, UrlTypeOK, NothingYet, NavigationAway,
                                         UrlSeen, ChoiceShown, UrlTarget

\* What the effect leaves.
LEMMA EffectIs ==
  ASSUME UrlTypeOK, NEW at \in UrlTarget, NEW ts \in SUBSET UrlTask,
         NEW pending \in [busy : BOOLEAN, to : UrlTarget], NEW ref \in UrlTarget,
         UrlEffect(at, ts, pending, ref)
  PROVE  /\ openedFromUrl' \in UrlTarget /\ shownTask' \in UrlTarget
         /\ navigation' \in [busy : BOOLEAN, to : UrlTarget]
         /\ navigation' = pending \/ (at # NoUrlTask /\ navigation' = NavigationTo(NoUrlTask))
         /\ at # NoUrlTask /\ openedFromUrl' # at => navigation' = NavigationTo(NoUrlTask)
         /\ at = NoUrlTask \/ ref = at => shownTask' = shownTask /\ navigation' = pending
         /\ at # NoUrlTask /\ ref # at /\ at \in ts => shownTask' = at /\ navigation' = pending
         /\ at # NoUrlTask /\ ref # at /\ at \notin ts =>
              shownTask' = shownTask /\ navigation' = NavigationTo(NoUrlTask)
<1>1. NoUrlTask \in UrlTarget /\ NavigationTo(NoUrlTask) \in [busy : BOOLEAN, to : UrlTarget]
  BY DEF UrlTarget, NavigationTo
<1>2. shownTask \in UrlTarget
  BY DEF UrlTypeOK
<1>3. CASE at = NoUrlTask
  BY <1>1, <1>2, <1>3 DEF UrlEffect
<1>4. CASE at # NoUrlTask /\ ref = at
  BY <1>2, <1>4 DEF UrlEffect
<1>5. CASE at # NoUrlTask /\ ref # at /\ at \notin ts
  BY <1>1, <1>2, <1>5 DEF UrlEffect
<1>6. CASE at # NoUrlTask /\ ref # at /\ at \in ts
  BY <1>6 DEF UrlEffect
<1> QED BY <1>3, <1>4, <1>5, <1>6

LEMMA UrlStep == UrlInv /\ [UrlNext]_urlVars => UrlInv'
<1> SUFFICES ASSUME UrlInv, [UrlNext]_urlVars PROVE UrlInv'
  OBVIOUS
<1>1. /\ listedTasks \in SUBSET UrlTask /\ boardLoaded \in BOOLEAN /\ overtaken \in BOOLEAN
      /\ url \in UrlTarget /\ openedFromUrl \in UrlTarget /\ shownTask \in UrlTarget
      /\ userChoice \in UrlTarget /\ navigation \in [busy : BOOLEAN, to : UrlTarget]
      /\ urlEvents \in Nat /\ UrlTypeOK
  BY DEF UrlInv, UrlTypeOK
<1>2. /\ NoUrlTask \in UrlTarget /\ UrlTask \subseteq UrlTarget
      /\ \A t \in UrlTask : t # NoUrlTask
      /\ NoNavigation \in [busy : BOOLEAN, to : UrlTarget] /\ ~NoNavigation.busy
      /\ \A t \in UrlTarget : /\ NavigationTo(t) \in [busy : BOOLEAN, to : UrlTarget]
                              /\ NavigationTo(t).busy /\ NavigationTo(t).to = t
  BY NoUrlTaskAssumption DEF UrlTarget, NoNavigation, NavigationTo
<1> USE <1>1, <1>2
<1>3. CASE BoardLoaded
  <2>1. PICK ts \in SUBSET UrlTask :
          /\ listedTasks' = ts
          /\ UrlEffect(url, ts, navigation, openedFromUrl)
          /\ userChoice' = IF url \in ts THEN userChoice ELSE NoUrlTask
    BY <1>3 DEF BoardLoaded
  <2>2. /\ ~boardLoaded /\ boardLoaded' /\ url' = url /\ urlEvents' = urlEvents
        /\ overtaken' = overtaken
    BY <1>3 DEF BoardLoaded
  <2>3. /\ navigation = NoNavigation /\ openedFromUrl = NoUrlTask /\ shownTask = NoUrlTask
        /\ userChoice = url /\ ~overtaken
    BY <2>2 DEF UrlInv, NothingYet
  <2>4. /\ openedFromUrl' \in UrlTarget /\ shownTask' \in UrlTarget
        /\ navigation' \in [busy : BOOLEAN, to : UrlTarget]
        /\ navigation' = navigation \/ (url # NoUrlTask /\ navigation' = NavigationTo(NoUrlTask))
        /\ url # NoUrlTask /\ openedFromUrl' # url => navigation' = NavigationTo(NoUrlTask)
        /\ url = NoUrlTask => shownTask' = shownTask /\ navigation' = navigation
        /\ url # NoUrlTask /\ url \in ts => shownTask' = url /\ navigation' = navigation
        /\ url # NoUrlTask /\ url \notin ts =>
             shownTask' = shownTask /\ navigation' = NavigationTo(NoUrlTask)
    BY <2>1, <2>3, EffectIs
  <2>5. userChoice' \in UrlTarget
    BY <2>1
  <2>6. UrlTypeOK' /\ NothingYet'
    BY <2>1, <2>2, <2>4, <2>5 DEF UrlTypeOK, NothingYet
  <2>7. NavigationAway' /\ UrlSeen'
    BY <2>2, <2>3, <2>4 DEF NavigationAway, UrlSeen
  <2>8. ChoiceShown'
    BY <2>1, <2>2, <2>3, <2>4 DEF ChoiceShown
  <2> QED BY <2>6, <2>7, <2>8 DEF UrlInv
<1>4. CASE TasksChange
  <2>1. PICK ts \in SUBSET UrlTask :
          listedTasks' = ts /\ UrlEffect(url, ts, navigation, openedFromUrl)
    BY <1>4 DEF TasksChange
  <2>2. /\ boardLoaded /\ boardLoaded' /\ url' = url /\ urlEvents' \in Nat
        /\ userChoice' = userChoice /\ overtaken' = (overtaken \/ navigation.busy)
    BY <1>4 DEF TasksChange, UrlEvent
  <2>3. /\ openedFromUrl' \in UrlTarget /\ shownTask' \in UrlTarget
        /\ navigation' \in [busy : BOOLEAN, to : UrlTarget]
        /\ navigation' = navigation \/ (url # NoUrlTask /\ navigation' = NavigationTo(NoUrlTask))
        /\ url # NoUrlTask /\ openedFromUrl' # url => navigation' = NavigationTo(NoUrlTask)
        /\ url = NoUrlTask \/ openedFromUrl = url =>
             shownTask' = shownTask /\ navigation' = navigation
        /\ url # NoUrlTask /\ openedFromUrl # url /\ url \in ts =>
             shownTask' = url /\ navigation' = navigation
        /\ url # NoUrlTask /\ openedFromUrl # url /\ url \notin ts =>
             shownTask' = shownTask /\ navigation' = NavigationTo(NoUrlTask)
    <3> HIDE <1>2
    <3> QED BY <1>1, <2>1, EffectIs
  <2>4. UrlTypeOK' /\ NothingYet'
    BY <2>1, <2>2, <2>3 DEF UrlTypeOK, NothingYet
  <2>5. NavigationAway' /\ UrlSeen'
    BY <2>2, <2>3 DEF UrlInv, NavigationAway, UrlSeen
  <2>6. ~overtaken' => url = NoUrlTask \/ openedFromUrl = url
    BY <2>2 DEF UrlInv, UrlSeen
  <2>7. ChoiceShown'
    BY <2>2, <2>3, <2>6 DEF UrlInv, ChoiceShown
  <2> QED BY <2>4, <2>5, <2>7 DEF UrlInv
<1>5. CASE UrlChanges
  <2>1. /\ navigation.busy /\ url' = navigation.to /\ url' # url
        /\ listedTasks' = listedTasks /\ boardLoaded' = boardLoaded /\ urlEvents' = urlEvents
        /\ userChoice' = userChoice /\ overtaken' = overtaken
    BY <1>5 DEF UrlChanges, UrlInv, NavigationAway
  <2>2. boardLoaded
    BY <2>1 DEF UrlInv, NothingYet
  <2>3. UrlEffect(url', listedTasks, NoNavigation, openedFromUrl)
    BY <1>5, <2>1, <2>2 DEF UrlChanges
  <2>4. url' \in UrlTarget
    BY <2>1
  <2>5. /\ openedFromUrl' \in UrlTarget /\ shownTask' \in UrlTarget
        /\ navigation' \in [busy : BOOLEAN, to : UrlTarget]
        /\ navigation' = NoNavigation \/ (url' # NoUrlTask /\ navigation' = NavigationTo(NoUrlTask))
        /\ url' # NoUrlTask /\ openedFromUrl' # url' => navigation' = NavigationTo(NoUrlTask)
        /\ url' = NoUrlTask \/ openedFromUrl = url' =>
             shownTask' = shownTask /\ navigation' = NoNavigation
        /\ url' # NoUrlTask /\ openedFromUrl # url' /\ url' \in listedTasks =>
             shownTask' = url' /\ navigation' = NoNavigation
    BY <2>3, <2>4, EffectIs
  <2>6. UrlTypeOK' /\ NothingYet'
    BY <2>1, <2>2, <2>4, <2>5 DEF UrlTypeOK, NothingYet
  <2>7. NavigationAway' /\ UrlSeen'
    BY <2>5 DEF NavigationAway, UrlSeen
  <2>8. ChoiceShown'
    BY <2>1, <2>2, <2>5 DEF UrlInv, ChoiceShown
  <2> QED BY <2>6, <2>7, <2>8 DEF UrlInv
<1>6. ASSUME NEW t \in UrlTask, ClickTask(t) PROVE UrlInv'
  <2>1. /\ t \in listedTasks /\ shownTask' = t /\ userChoice' = t
        /\ navigation' = (IF url # t THEN NavigationTo(t) ELSE navigation)
        /\ overtaken' = navigation.busy /\ urlEvents' \in Nat
        /\ listedTasks' = listedTasks /\ boardLoaded' = boardLoaded /\ url' = url
        /\ openedFromUrl' = openedFromUrl
    BY <1>6 DEF ClickTask, OpenTask, UrlEvent
  <2>2. boardLoaded
    BY <2>1 DEF UrlInv, NothingYet
  <2>3. navigation' \in [busy : BOOLEAN, to : UrlTarget]
    BY <2>1
  <2>4. UrlTypeOK' /\ NothingYet'
    BY <2>1, <2>2, <2>3 DEF UrlTypeOK, NothingYet
  <2>5. NavigationAway' /\ UrlSeen'
    BY <2>1 DEF UrlInv, NavigationAway, UrlSeen
  <2>6. ChoiceShown'
    BY <2>1 DEF ChoiceShown
  <2> QED BY <2>4, <2>5, <2>6 DEF UrlInv
<1>7. CASE ClickClose
  <2>1. /\ shownTask # NoUrlTask /\ shownTask' = NoUrlTask /\ userChoice' = NoUrlTask
        /\ navigation' = (IF url # NoUrlTask THEN NavigationTo(NoUrlTask) ELSE navigation)
        /\ overtaken' = navigation.busy /\ urlEvents' \in Nat
        /\ listedTasks' = listedTasks /\ boardLoaded' = boardLoaded /\ url' = url
        /\ openedFromUrl' = NoUrlTask
    BY <1>7 DEF ClickClose, UrlEvent
  <2>2. boardLoaded
    BY <2>1 DEF UrlInv, NothingYet
  <2>3. navigation' \in [busy : BOOLEAN, to : UrlTarget]
    BY <2>1
  <2>4. UrlTypeOK' /\ NothingYet'
    BY <2>1, <2>2, <2>3 DEF UrlTypeOK, NothingYet
  <2>5. NavigationAway' /\ UrlSeen'
    BY <2>1 DEF UrlInv, NavigationAway, UrlSeen
  <2>6. ChoiceShown'
    BY <2>1 DEF ChoiceShown
  <2> QED BY <2>4, <2>5, <2>6 DEF UrlInv
<1>8. CASE UNCHANGED urlVars
  BY <1>8 DEF urlVars, UrlInv, UrlTypeOK, NothingYet, NavigationAway, UrlSeen, ChoiceShown
<1> QED BY <1>3, <1>4, <1>5, <1>6, <1>7, <1>8 DEF UrlNext

LEMMA UrlInvariant == UrlSpec => []UrlInv
BY UrlInitial, UrlStep, PTL DEF UrlSpec

LEMMA UrlTyped == UrlSpec => []UrlTypeOK
<1>1. UrlInv => UrlTypeOK
  BY DEF UrlInv
<1> QED BY UrlInvariant, <1>1, PTL

\* Once the URL has caught up the panel shows what the user clicked last, and the URL
\* says so, unless a click or a new list came in between (openComments, closeComments
\* and the effect on the URL's task), for every number of clicks and lists.
THEOREM ClicksAreFollowed == UrlSpec => []PanelFollowsClicks
<1>1. UrlInv => PanelFollowsClicks
  BY DEF UrlInv, ChoiceShown, PanelFollowsClicks
<1> QED BY UrlInvariant, <1>1, PTL
-----------------------------------------------------------------------------
(***************************************************************************)
(* The task panel.                                                         *)
(***************************************************************************)
PanelLoad == [id : Nat, what : LoadedPart, t : PanelTask, phase : {"sent", "read"},
              rows : SUBSET Nat]
PanelPost == [kind : {"post", "ask", "save"}, t : PanelTask, phase : {"sent", "ok"}, n : Nat]

\* An event of comment c is on the stream.
OnStream(c) == \E i \in 1..Len(commentEvents) : commentEvents[i] = c

\* A load of comments in flight that has comment n of the selected task or is to read it.
Loads(l, n) ==
    l.what = "comments" /\ l.t = selected /\ (l.phase = "sent" \/ n \in l.rows)

\* Comments have numbers, however many tasks there are.
ThreadsFinite == IsFiniteSet(UNION {thread[t] : t \in PanelTask})

\* What the panel holds of a part that is neither loading nor failed is the task's, or
\* something astray came in.
OwnParts ==
    /\ "comments" \notin loadingParts \cup failedParts \cup astray =>
         \A c \in comments : c.t = selected
    /\ "iterations" \notin loadingParts \cup failedParts \cup astray => iterations = selected
    /\ notebookAnswer # NoTask /\ "answer" \notin astray => notebookAnswer = selected

\* A comment the panel does not have is on its way, or the panel says that it failed.
CommentsComing ==
    selected \in PanelTask /\ ~commentGap /\ "comments" \notin failedParts =>
        \A n \in thread[selected] :
            \/ [t |-> selected, n |-> n] \in comments
            \/ OnStream([t |-> selected, n |-> n])
            \/ \E l \in panelLoads : Loads(l, n)

PanelInv == PanelTypeOK /\ ThreadsFinite /\ OwnParts /\ CommentsComing

LEMMA PanelInitial == PanelInit => PanelInv
<1> SUFFICES ASSUME PanelInit PROVE PanelInv
  OBVIOUS
<1>1. PanelTypeOK
  <2>1. /\ isOpen \in BOOLEAN /\ panelEvents \in Nat /\ commentGap \in BOOLEAN
        /\ {selected, iterations, notebookAnswer} \subseteq PanelTask \cup {NoTask}
    BY DEF PanelInit
  <2>3. commentEvents \in Seq(CommentType)
    BY DEF PanelInit
  <2>4. thread \in [PanelTask -> SUBSET Nat]
    BY DEF PanelInit
  <2>2. /\ comments = {} /\ loadingParts = {} /\ failedParts = {}
        /\ panelLoads = {} /\ panelPosts = {} /\ astray = {}
    BY DEF PanelInit
  <2> QED BY <2>1, <2>2, <2>3, <2>4 DEF PanelTypeOK
<1>2. ThreadsFinite
  <2>1. UNION {thread[t] : t \in PanelTask} = {}
    BY DEF PanelInit
  <2> QED BY <2>1, FS_EmptySet DEF ThreadsFinite
<1>3. OwnParts
  BY DEF PanelInit, OwnParts
<1>4. CommentsComing
  BY NoTaskAssumption DEF PanelInit, CommentsComing
<1> QED BY <1>1, <1>2, <1>3, <1>4 DEF PanelInv

LEMMA EventPassed ==
  ASSUME NEW s \in Seq(CommentType), s # <<>>
  PROVE  /\ Tail(s) \in Seq(CommentType) /\ Head(s) \in CommentType
         /\ \A i \in 1..Len(s) : s[i] = Head(s) \/ \E j \in 1..Len(Tail(s)) : Tail(s)[j] = s[i]
<1>1. Len(s) \in Nat /\ Len(s) > 0 /\ Len(Tail(s)) = Len(s) - 1
  OBVIOUS
<1>2. ASSUME NEW i \in 1..Len(s), i # 1 PROVE \E j \in 1..Len(Tail(s)) : Tail(s)[j] = s[i]
  <2>1. i - 1 \in 1..Len(Tail(s)) /\ Tail(s)[i - 1] = s[i]
    BY <1>1, <1>2
  <2> QED BY <2>1
<1> QED BY <1>1, <1>2

LEMMA EventAdded ==
  ASSUME NEW s \in Seq(CommentType), NEW e \in CommentType
  PROVE  /\ Append(s, e) \in Seq(CommentType)
         /\ \A i \in 1..Len(s) : \E j \in 1..Len(Append(s, e)) : Append(s, e)[j] = s[i]
         /\ \E j \in 1..Len(Append(s, e)) : Append(s, e)[j] = e
<1>1. /\ Append(s, e) \in Seq(CommentType) /\ Len(s) \in Nat /\ Len(Append(s, e)) = Len(s) + 1
      /\ Append(s, e)[Len(s) + 1] = e /\ \A i \in 1..Len(s) : Append(s, e)[i] = s[i]
  OBVIOUS
<1>2. Len(s) + 1 \in 1..Len(Append(s, e)) /\ 1..Len(s) \subseteq 1..Len(Append(s, e))
  BY <1>1
<1> QED BY <1>1, <1>2

\* A new comment keeps the threads finite.
LEMMA CommentAdded ==
  ASSUME PanelTypeOK, ThreadsFinite, NEW t \in PanelTask, NEW n \in Nat,
         thread' = [thread EXCEPT ![t] = @ \cup {n}]
  PROVE  ThreadsFinite' /\ thread' \in [PanelTask -> SUBSET Nat]
<1>1. thread' \in [PanelTask -> SUBSET Nat] /\ \A u \in PanelTask : thread'[u] \subseteq thread[u] \cup {n}
  BY DEF PanelTypeOK
<1> DEFINE U == UNION {thread[u] : u \in PanelTask}
           V == UNION {thread'[u] : u \in PanelTask}
<1>2. V \subseteq U \cup {n}
  <2> SUFFICES ASSUME NEW u \in PanelTask, NEW m \in thread'[u] PROVE m \in U \cup {n}
    OBVIOUS
  <2> QED BY <1>1
<1>3. IsFiniteSet(U)
  BY DEF ThreadsFinite
<1>4. ThreadsFinite' = IsFiniteSet(V)
  BY DEF ThreadsFinite
<1> HIDE DEF U, V
<1>5. IsFiniteSet(U \cup {n})
  BY <1>3, FS_AddElement
<1>6. IsFiniteSet(V)
  BY <1>2, <1>5, FS_Subset
<1> QED BY <1>1, <1>4, <1>6

\* What is in flight for the panel when loads begin.
LEMMA LoadsStarted ==
  ASSUME PanelTypeOK, NEW t \in PanelTask, NEW parts \in SUBSET LoadedPart, StartLoads(t, parts)
  PROVE  /\ panelLoads' \in SUBSET PanelLoad
         /\ loadingParts' = loadingParts \cup parts /\ loadingParts' \subseteq LoadedPart
         /\ failedParts' = failedParts \ parts /\ failedParts' \subseteq LoadedPart
         /\ panelLoads \subseteq panelLoads'
         /\ \A p \in parts : \E l \in panelLoads' : l.what = p /\ l.t = t /\ l.phase = "sent"
<1>1. \A p \in parts : [id |-> panelEvents, what |-> p, t |-> t, phase |-> "sent", rows |-> {}]
                         \in PanelLoad
  BY DEF PanelTypeOK, PanelLoad
<1>2. \A p \in parts : [id |-> panelEvents, what |-> p, t |-> t, phase |-> "sent", rows |-> {}]
                         \in panelLoads'
  BY DEF StartLoads
<1> QED BY <1>1, <1>2 DEF StartLoads, PanelTypeOK, PanelLoad

\* A comment still reaches the panel when nothing is taken from what brings it.
LEMMA StillComing ==
  ASSUME CommentsComing, thread' = thread, selected' = selected, comments \subseteq comments',
         "comments" \in failedParts => "comments" \in failedParts',
         commentGap => commentGap',
         commentEvents' = commentEvents, panelLoads \subseteq panelLoads'
  PROVE  CommentsComing'
BY DEF CommentsComing, OnStream, Loads

LEMMA PanelOpens ==
  ASSUME PanelInv, CloseComments \/ \E t \in PanelTask : OpenComments(t)
  PROVE  PanelInv'
<1>1. /\ thread' = thread /\ panelPosts' = panelPosts /\ commentEvents' = commentEvents
      /\ panelEvents' \in Nat /\ PanelTypeOK /\ ThreadsFinite
  BY DEF PanelInv, OpenComments, CloseComments, PanelEvent, PanelTypeOK
<1>2. ThreadsFinite'
  BY <1>1 DEF ThreadsFinite
<1>3. ASSUME NEW t \in PanelTask, OpenComments(t) PROVE PanelInv'
  <2>1. /\ selected' = t /\ isOpen' = TRUE /\ notebookAnswer' = NoTask
        /\ StartLoads(t, LoadedPart) /\ astray' = astray \ {"answer"} /\ commentGap' = FALSE
        /\ comments' = comments /\ iterations' = iterations
    BY <1>3 DEF OpenComments
  <2>2. /\ panelLoads' \in SUBSET PanelLoad
        /\ loadingParts' = loadingParts \cup LoadedPart /\ loadingParts' \subseteq LoadedPart
        /\ failedParts' = failedParts \ LoadedPart /\ failedParts' \subseteq LoadedPart
        /\ \A p \in LoadedPart : \E l \in panelLoads' : l.what = p /\ l.t = t /\ l.phase = "sent"
    BY <1>1, <2>1, LoadsStarted
  <2>3. "comments" \in LoadedPart /\ "iterations" \in LoadedPart
    BY DEF LoadedPart
  <2>4. PanelTypeOK'
    BY <1>1, <2>1, <2>2 DEF PanelTypeOK, PanelLoad
  <2>5. OwnParts'
    BY <2>1, <2>2, <2>3 DEF OwnParts
  <2>6. CommentsComing'
    BY <2>1, <2>2, <2>3 DEF CommentsComing, Loads
  <2> QED BY <1>2, <2>4, <2>5, <2>6 DEF PanelInv
<1>4. CASE CloseComments
  <2>1. /\ selected' = NoTask /\ isOpen' = FALSE /\ comments' = {} /\ iterations' = NoTask
        /\ notebookAnswer' = NoTask /\ failedParts' = {} /\ astray' = {}
        /\ loadingParts' = loadingParts /\ panelLoads' = panelLoads /\ commentGap' = commentGap
    BY <1>4 DEF CloseComments
  <2>2. PanelTypeOK'
    BY <1>1, <2>1 DEF PanelTypeOK
  <2>3. OwnParts'
    BY <2>1 DEF OwnParts
  <2>4. CommentsComing'
    BY <2>1, NoTaskAssumption DEF CommentsComing
  <2> QED BY <1>2, <2>2, <2>3, <2>4 DEF PanelInv
<1> QED BY <1>3, <1>4

\* A comment is written, by another client or by the server for a post or a query, and
\* its event sent.
LEMMA CommentWritten ==
  ASSUME PanelInv, NEW t \in PanelTask, NEW n \in Nat,
         thread' = [thread EXCEPT ![t] = @ \cup {n}],
         commentEvents' = Append(commentEvents, [t |-> t, n |-> n]),
         UNCHANGED <<selected, isOpen, comments, iterations, notebookAnswer, loadingParts,
                     failedParts, panelLoads, astray, commentGap>>,
         panelEvents' \in Nat,
         panelPosts' \in SUBSET PanelPost
  PROVE  PanelInv'
<1>1. PanelTypeOK /\ ThreadsFinite /\ CommentsComing /\ OwnParts
  BY DEF PanelInv
<1>2. ThreadsFinite' /\ thread' \in [PanelTask -> SUBSET Nat]
  BY <1>1, CommentAdded
<1> DEFINE e == [t |-> t, n |-> n]
<1>3. /\ commentEvents' \in Seq(CommentType)
      /\ \A i \in 1..Len(commentEvents) :
           \E j \in 1..Len(commentEvents') : commentEvents'[j] = commentEvents[i]
      /\ \E j \in 1..Len(commentEvents') : commentEvents'[j] = e
  <2>1. commentEvents \in Seq(CommentType) /\ e \in CommentType
    BY <1>1 DEF PanelTypeOK, CommentType
  <2>2. commentEvents' = Append(commentEvents, e)
    OBVIOUS
  <2> HIDE DEF e
  <2> QED BY <2>1, <2>2, EventAdded
<1>4. PanelTypeOK'
  BY <1>1, <1>2, <1>3 DEF PanelTypeOK, PanelPost
<1>5. OwnParts'
  BY <1>1 DEF OwnParts
<1>6. CommentsComing'
  <2> SUFFICES ASSUME selected \in PanelTask, ~commentGap, "comments" \notin failedParts,
                      NEW m \in thread'[selected]
               PROVE  \/ [t |-> selected, n |-> m] \in comments
                      \/ OnStream([t |-> selected, n |-> m])'
                      \/ \E l \in panelLoads : Loads(l, m)
    BY DEF CommentsComing, Loads, OnStream
  <2>1. CASE m \in thread[selected]
    <3>1. \/ [t |-> selected, n |-> m] \in comments
          \/ OnStream([t |-> selected, n |-> m])
          \/ \E l \in panelLoads : Loads(l, m)
      BY <1>1, <2>1 DEF CommentsComing
    <3>2. OnStream([t |-> selected, n |-> m]) => OnStream([t |-> selected, n |-> m])'
      BY <1>3 DEF OnStream
    <3> QED BY <3>1, <3>2
  <2>2. CASE m \notin thread[selected]
    <3>1. t = selected /\ m = n
      BY <1>1, <2>2 DEF PanelTypeOK
    <3> QED BY <1>3, <3>1 DEF OnStream
  <2> QED BY <2>1, <2>2
<1> QED BY <1>2, <1>4, <1>5, <1>6 DEF PanelInv

LEMMA PostSteps ==
  ASSUME PanelInv, NEW p, ServePost(p) \/ PostFails(p) \/ CommentPosted(p)
  PROVE  PanelInv'
<1>1. PanelTypeOK /\ ThreadsFinite /\ OwnParts /\ CommentsComing
  BY DEF PanelInv
<1>2. p \in PanelPost /\ p.t \in PanelTask /\ p.n \in Nat /\ panelPosts \in SUBSET PanelPost
  <2>1. p \in panelPosts /\ panelPosts \in SUBSET PanelPost
    BY <1>1 DEF ServePost, PostFails, CommentPosted, PanelTypeOK, PanelPost
  <2> QED BY <2>1 DEF PanelPost
<1>3. CASE ServePost(p)
  <2> DEFINE U == UNION {thread[t] : t \in PanelTask}
             n == MaxPanelEvents + Cardinality(U) + 1
             q == [p EXCEPT !.phase = "ok", !.n = n]
  <2>1. /\ panelPosts' = (panelPosts \ {p}) \cup {q}
        /\ IF p.kind = "save" THEN UNCHANGED <<thread, commentEvents>>
           ELSE /\ thread' = [thread EXCEPT ![p.t] = @ \cup {n}]
                /\ commentEvents' = Append(commentEvents, [t |-> p.t, n |-> n])
        /\ UNCHANGED <<selected, isOpen, comments, iterations, notebookAnswer, loadingParts,
                       failedParts, panelLoads, panelEvents, astray, commentGap>>
    BY <1>3 DEF ServePost
  <2>2. n \in Nat
    <3>1. IsFiniteSet(U)
      BY <1>1 DEF ThreadsFinite
    <3> HIDE DEF U
    <3>2. Cardinality(U) \in Nat
      BY <3>1, FS_CardinalityType
    <3> QED BY <3>2, PanelEventsAssumption
  <2> HIDE DEF n
  <2>3. q \in PanelPost
    BY <1>2, <2>2 DEF PanelPost
  <2> HIDE DEF q
  <2>4. panelPosts' \in SUBSET PanelPost
    BY <1>2, <2>1, <2>3
  <2>5. panelEvents' \in Nat
    BY <1>1, <2>1 DEF PanelTypeOK
  <2>6. CASE p.kind = "save"
    <3>1. UNCHANGED <<thread, commentEvents>>
      BY <2>1, <2>6
    <3>2. PanelTypeOK' /\ ThreadsFinite' /\ OwnParts'
      BY <1>1, <2>1, <2>4, <3>1 DEF PanelTypeOK, PanelPost, ThreadsFinite, OwnParts
    <3>3. CommentsComing'
      BY <1>1, <2>1, <3>1, StillComing
    <3> QED BY <3>2, <3>3 DEF PanelInv
  <2>7. CASE p.kind # "save"
    <3>1. /\ thread' = [thread EXCEPT ![p.t] = @ \cup {n}]
          /\ commentEvents' = Append(commentEvents, [t |-> p.t, n |-> n])
      BY <2>1, <2>7
    <3> QED BY <1>2, <2>1, <2>2, <2>4, <2>5, <3>1, CommentWritten
  <2> QED BY <2>6, <2>7
<1>4. CASE PostFails(p)
  <2>1. /\ panelPosts' = panelPosts \ {p}
        /\ UNCHANGED <<thread, selected, isOpen, comments, iterations, notebookAnswer, loadingParts,
                       failedParts, panelLoads, commentEvents, panelEvents, astray, commentGap>>
    BY <1>4 DEF PostFails
  <2>2. PanelTypeOK' /\ ThreadsFinite' /\ OwnParts'
    BY <1>1, <2>1 DEF PanelTypeOK, ThreadsFinite, OwnParts
  <2>3. CommentsComing'
    BY <1>1, <2>1, StillComing
  <2> QED BY <2>2, <2>3 DEF PanelInv
<1>5. CASE CommentPosted(p)
  <2> DEFINE c == [t |-> p.t, n |-> p.n]
  <2>1. /\ panelPosts' = panelPosts \ {p} /\ comments' = comments \cup {c}
        /\ astray' = (IF p.t = selected THEN astray ELSE astray \cup {"comments"})
        /\ UNCHANGED <<thread, selected, isOpen, iterations, notebookAnswer, loadingParts,
                       failedParts, panelLoads, commentEvents, panelEvents, commentGap>>
    BY <1>5 DEF CommentPosted, CommentsOf
  <2>2. c \in CommentType /\ c.t = p.t
    BY <1>2 DEF CommentType
  <2> HIDE DEF c
  <2>3. comments' \subseteq CommentType /\ astray' \subseteq PanelPart
    BY <1>1, <2>1, <2>2 DEF PanelTypeOK, PanelPart, LoadedPart
  <2>4. PanelTypeOK' /\ ThreadsFinite'
    BY <1>1, <2>1, <2>3 DEF PanelTypeOK, ThreadsFinite
  <2>5. OwnParts'
    BY <1>1, <2>1, <2>2 DEF OwnParts
  <2>6. CommentsComing'
    BY <1>1, <2>1, StillComing
  <2> QED BY <2>4, <2>5, <2>6 DEF PanelInv
<1> QED BY <1>3, <1>4, <1>5

LEMMA AnswerSteps ==
  ASSUME PanelInv, NEW p, NotebookAnswered(p) \/ TaskSaved(p)
  PROVE  PanelInv'
<1>1. PanelTypeOK /\ ThreadsFinite /\ OwnParts /\ CommentsComing
  BY DEF PanelInv
<1>2. p \in PanelPost /\ p.t \in PanelTask
  <2>1. p \in panelPosts /\ panelPosts \in SUBSET PanelPost
    BY <1>1 DEF NotebookAnswered, TaskSaved, PanelTypeOK, PanelPost
  <2> QED BY <2>1 DEF PanelPost
<1>3. CASE NotebookAnswered(p)
  <2>1. /\ panelPosts' = panelPosts \ {p} /\ notebookAnswer' = p.t
        /\ StartLoads(p.t, {"comments"})
        /\ astray' = (IF p.t = selected THEN astray \ {"answer"} ELSE astray \cup {"answer"})
        /\ commentGap' = (commentGap \/ (p.t # selected /\ "comments" \in failedParts))
        /\ UNCHANGED <<thread, selected, isOpen, comments, iterations, commentEvents, panelEvents>>
    BY <1>3 DEF NotebookAnswered
  <2>2. /\ panelLoads' \in SUBSET PanelLoad
        /\ loadingParts' = loadingParts \cup {"comments"} /\ loadingParts' \subseteq LoadedPart
        /\ failedParts' = failedParts \ {"comments"} /\ failedParts' \subseteq LoadedPart
        /\ panelLoads \subseteq panelLoads'
        /\ \E l \in panelLoads' : l.what = "comments" /\ l.t = p.t /\ l.phase = "sent"
    <3>1. {"comments"} \in SUBSET LoadedPart
      BY DEF LoadedPart
    <3> QED BY <1>1, <1>2, <2>1, <3>1, LoadsStarted
  <2>3. astray' \subseteq PanelPart
    BY <1>1, <2>1 DEF PanelTypeOK, PanelPart
  <2>4. PanelTypeOK' /\ ThreadsFinite'
    BY <1>1, <1>2, <2>1, <2>2, <2>3 DEF PanelTypeOK, ThreadsFinite, PanelLoad
  <2>5. OwnParts'
    BY <1>1, <2>1, <2>2 DEF OwnParts
  <2>6. CommentsComing'
    <3>1. CASE p.t = selected
      BY <2>1, <2>2, <3>1 DEF CommentsComing, Loads
    <3>2. CASE p.t # selected
      BY <1>1, <2>1, <2>2, <3>2, StillComing DEF CommentsComing, Loads, OnStream
    <3> QED BY <3>1, <3>2
  <2> QED BY <2>4, <2>5, <2>6 DEF PanelInv
<1>4. CASE TaskSaved(p)
  <2>1. /\ panelPosts' = panelPosts \ {p} /\ selected' = p.t
        /\ astray' = (IF p.t = selected THEN astray ELSE PanelPart)
        /\ commentGap' = (commentGap \/ p.t # selected)
        /\ UNCHANGED <<thread, isOpen, comments, iterations, notebookAnswer, loadingParts,
                       failedParts, panelLoads, commentEvents, panelEvents>>
    BY <1>4 DEF TaskSaved
  <2>2. PanelTypeOK' /\ ThreadsFinite'
    BY <1>1, <1>2, <2>1 DEF PanelTypeOK, ThreadsFinite
  <2>3. OwnParts'
    BY <1>1, <2>1 DEF OwnParts, PanelPart, LoadedPart
  <2>4. CommentsComing'
    <3>1. CASE p.t = selected
      BY <1>1, <2>1, <3>1, StillComing
    <3>2. CASE p.t # selected
      BY <2>1, <3>2 DEF CommentsComing
    <3> QED BY <3>1, <3>2
  <2> QED BY <2>2, <2>3, <2>4 DEF PanelInv
<1> QED BY <1>3, <1>4

LEMMA LoadSteps ==
  ASSUME PanelInv, NEW l, LoadRead(l) \/ LoadAnswered(l) \/ LoadFails(l)
  PROVE  PanelInv'
<1>1. PanelTypeOK /\ ThreadsFinite /\ OwnParts /\ CommentsComing
  BY DEF PanelInv
<1>2. /\ l \in panelLoads /\ l \in PanelLoad /\ l.t \in PanelTask /\ l.what \in LoadedPart
      /\ l.rows \in SUBSET Nat /\ panelLoads \in SUBSET PanelLoad
  <2>1. l \in panelLoads /\ panelLoads \in SUBSET PanelLoad
    BY <1>1 DEF LoadRead, LoadAnswered, LoadFails, PanelTypeOK, PanelLoad
  <2> QED BY <2>1 DEF PanelLoad
<1>3. CASE LoadRead(l)
  <2> DEFINE k == [l EXCEPT !.phase = "read", !.rows = thread[l.t]]
  <2>1. /\ panelLoads' = (panelLoads \ {l}) \cup {k} /\ l.phase = "sent"
        /\ UNCHANGED <<thread, selected, isOpen, comments, iterations, notebookAnswer, loadingParts,
                       failedParts, panelPosts, commentEvents, panelEvents, astray, commentGap>>
    BY <1>3 DEF LoadRead
  <2>2. k \in PanelLoad /\ k.what = l.what /\ k.t = l.t /\ k.rows = thread[l.t]
    BY <1>1, <1>2 DEF PanelLoad, PanelTypeOK
  <2> HIDE DEF k
  <2>3. PanelTypeOK' /\ ThreadsFinite' /\ OwnParts'
    <3>1. panelLoads' \in SUBSET PanelLoad
      BY <1>2, <2>1, <2>2
    <3> QED BY <1>1, <2>1, <3>1 DEF PanelTypeOK, PanelLoad, ThreadsFinite, OwnParts
  <2>4. CommentsComing'
    <3> SUFFICES ASSUME selected \in PanelTask, ~commentGap, "comments" \notin failedParts,
                        NEW m \in thread[selected]
                 PROVE  \/ [t |-> selected, n |-> m] \in comments
                        \/ OnStream([t |-> selected, n |-> m])
                        \/ \E j \in panelLoads' : Loads(j, m)
      BY <2>1 DEF CommentsComing, Loads, OnStream
    <3>1. ASSUME NEW j \in panelLoads, Loads(j, m) PROVE \E i \in panelLoads' : Loads(i, m)
      <4>1. CASE j = l
        BY <2>1, <2>2, <3>1, <4>1 DEF Loads
      <4>2. CASE j # l
        BY <2>1, <3>1, <4>2
      <4> QED BY <4>1, <4>2
    <3> QED BY <1>1, <3>1 DEF CommentsComing
  <2> QED BY <2>3, <2>4 DEF PanelInv
<1>4. CASE LoadAnswered(l)
  <2>1. /\ l.phase = "read" /\ panelLoads' = panelLoads \ {l}
        /\ loadingParts' = loadingParts \ {l.what}
        /\ l.what = "comments" => comments' = CommentsOf(l.t, l.rows) /\ iterations' = iterations
        /\ l.what # "comments" => iterations' = l.t /\ comments' = comments
        /\ astray' = (IF l.t = selected THEN astray \ {l.what} ELSE astray \cup {l.what})
        /\ commentGap' =
             (commentGap \/ (/\ l.what = "comments"
                             /\ {c \in comments : c.t = selected} \ CommentsOf(l.t, l.rows) # {}))
        /\ UNCHANGED <<thread, selected, isOpen, notebookAnswer, failedParts, panelPosts,
                       commentEvents, panelEvents>>
    BY <1>4 DEF LoadAnswered
  <2>2. /\ CommentsOf(l.t, l.rows) \subseteq CommentType
        /\ \A c \in CommentsOf(l.t, l.rows) : c.t = l.t
        /\ \A m \in l.rows : [t |-> l.t, n |-> m] \in CommentsOf(l.t, l.rows)
    BY <1>2 DEF CommentsOf, CommentType
  <2>3. PanelTypeOK' /\ ThreadsFinite'
    <3>1. comments' \subseteq CommentType /\ iterations' \in PanelTask \cup {NoTask}
      BY <1>1, <1>2, <2>1, <2>2 DEF PanelTypeOK
    <3>2. astray' \subseteq PanelPart
      BY <1>1, <1>2, <2>1 DEF PanelTypeOK, PanelPart
    <3> QED BY <1>1, <2>1, <3>1, <3>2 DEF PanelTypeOK, ThreadsFinite
  <2>4. OwnParts'
    <3>1. l.what = "comments" \/ l.what = "iterations"
      BY <1>2 DEF LoadedPart
    <3> QED BY <1>1, <2>1, <2>2, <3>1 DEF OwnParts
  <2>5. CommentsComing'
    <3> SUFFICES ASSUME selected \in PanelTask, ~commentGap', "comments" \notin failedParts,
                        NEW m \in thread[selected]
                 PROVE  \/ [t |-> selected, n |-> m] \in comments'
                        \/ OnStream([t |-> selected, n |-> m])
                        \/ \E j \in panelLoads' : Loads(j, m)
      BY <2>1 DEF CommentsComing, Loads, OnStream
    <3> DEFINE c == [t |-> selected, n |-> m]
    <3>1. \/ c \in comments \/ OnStream(c) \/ \E j \in panelLoads : Loads(j, m)
      BY <1>1, <2>1 DEF CommentsComing
    <3>2. CASE c \in comments
      <4>1. CASE l.what = "comments"
        <5>1. c.t = selected
          OBVIOUS
        <5>2. c \in CommentsOf(l.t, l.rows)
          BY <2>1, <3>2, <4>1, <5>1
        <5> QED BY <2>1, <4>1, <5>2
      <4>2. CASE l.what # "comments"
        BY <2>1, <3>2, <4>2
      <4> QED BY <4>1, <4>2
    <3>3. ASSUME NEW j \in panelLoads, Loads(j, m)
          PROVE  c \in comments' \/ \E i \in panelLoads' : Loads(i, m)
      <4>1. CASE j = l
        BY <2>1, <2>2, <3>3, <4>1 DEF Loads
      <4>2. CASE j # l
        BY <2>1, <3>3, <4>2
      <4> QED BY <4>1, <4>2
    <3> QED BY <3>1, <3>2, <3>3
  <2> QED BY <2>3, <2>4, <2>5 DEF PanelInv
<1>5. CASE LoadFails(l)
  <2>1. /\ panelLoads' = panelLoads \ {l} /\ loadingParts' = loadingParts \ {l.what}
        /\ failedParts' = failedParts \cup {l.what}
        /\ UNCHANGED <<thread, selected, isOpen, comments, iterations, notebookAnswer, panelPosts,
                       commentEvents, panelEvents, astray, commentGap>>
    BY <1>5 DEF LoadFails
  <2>2. PanelTypeOK' /\ ThreadsFinite'
    BY <1>1, <1>2, <2>1 DEF PanelTypeOK, ThreadsFinite
  <2>3. OwnParts'
    BY <1>1, <2>1 DEF OwnParts
  <2>4. CommentsComing'
    BY <1>1, <2>1 DEF CommentsComing, Loads, OnStream
  <2> QED BY <2>2, <2>3, <2>4 DEF PanelInv
<1> QED BY <1>3, <1>4, <1>5

LEMMA StreamSteps ==
  ASSUME PanelInv, CommentStreamed \/ CommentSkipped
  PROVE  PanelInv'
<1>1. PanelTypeOK /\ ThreadsFinite /\ OwnParts /\ CommentsComing
  BY DEF PanelInv
<1> DEFINE e == Head(commentEvents)
<1>2. /\ commentEvents # <<>> /\ commentEvents' = Tail(commentEvents)
      /\ UNCHANGED <<thread, selected, isOpen, iterations, notebookAnswer, loadingParts,
                     failedParts, panelLoads, panelPosts, astray>>
      /\ panelEvents' \in Nat
      /\ \/ /\ comments' = (IF e.t = selected THEN comments \cup {e} ELSE comments)
            /\ commentGap' = commentGap
         \/ comments' = comments /\ commentGap' = (commentGap \/ e.t = selected)
  BY <1>1 DEF CommentStreamed, CommentSkipped, PanelEvent, PanelTypeOK
<1>3. /\ commentEvents' \in Seq(CommentType) /\ e \in CommentType
      /\ \A i \in 1..Len(commentEvents) :
           commentEvents[i] = e \/ \E j \in 1..Len(commentEvents') : commentEvents'[j] = commentEvents[i]
  BY <1>1, <1>2, EventPassed DEF PanelTypeOK
<1> HIDE DEF e
<1>4. PanelTypeOK' /\ ThreadsFinite'
  <2>1. comments' \subseteq CommentType /\ commentGap' \in BOOLEAN
    BY <1>1, <1>2, <1>3 DEF PanelTypeOK
  <2> QED BY <1>1, <1>2, <1>3, <2>1 DEF PanelTypeOK, ThreadsFinite
<1>5. OwnParts'
  BY <1>1, <1>2 DEF OwnParts
<1>6. CommentsComing'
  <2> SUFFICES ASSUME selected \in PanelTask, ~commentGap', "comments" \notin failedParts,
                      NEW m \in thread[selected]
               PROVE  \/ [t |-> selected, n |-> m] \in comments'
                      \/ OnStream([t |-> selected, n |-> m])'
                      \/ \E j \in panelLoads : Loads(j, m)
    BY <1>2 DEF CommentsComing, Loads, OnStream
  <2> DEFINE c == [t |-> selected, n |-> m]
  <2>6. ~commentGap /\ (e.t = selected => e \in comments')
    <3>1. CASE comments' = comments /\ commentGap' = (commentGap \/ e.t = selected)
      BY <3>1
    <3>2. CASE /\ comments' = (IF e.t = selected THEN comments \cup {e} ELSE comments)
               /\ commentGap' = commentGap
      BY <3>2
    <3> QED BY <1>2, <3>1, <3>2
  <2>1. c \in comments \/ OnStream(c) \/ \E j \in panelLoads : Loads(j, m)
    BY <1>1, <2>6 DEF CommentsComing
  <2>2. c.t = selected /\ c' = c
    BY <1>2
  <2> HIDE DEF c
  <2>3. c \in comments => c \in comments'
    BY <1>2
  <2>4. ASSUME OnStream(c) PROVE c \in comments' \/ OnStream(c)'
    <3>1. PICK i \in 1..Len(commentEvents) : commentEvents[i] = c
      BY <2>4 DEF OnStream
    <3>2. CASE c = e
      BY <2>2, <2>6, <3>2
    <3>3. CASE \E j \in 1..Len(commentEvents') : commentEvents'[j] = c
      BY <2>2, <3>3 DEF OnStream
    <3> QED BY <1>3, <3>1, <3>2, <3>3
  <2>5. c \in comments' \/ OnStream(c)' \/ \E j \in panelLoads : Loads(j, m)
    BY <2>1, <2>3, <2>4
  <2> QED BY <2>5 DEF c
<1> QED BY <1>4, <1>5, <1>6 DEF PanelInv

LEMMA PanelStep == PanelInv /\ [PanelNext]_panelVars => PanelInv'
<1> SUFFICES ASSUME PanelInv, [PanelNext]_panelVars PROVE PanelInv'
  OBVIOUS
<1>1. ASSUME NEW t \in PanelTask, OpenComments(t) \/ OtherComments(t) PROVE PanelInv'
  <2>1. CASE OpenComments(t)
    BY <2>1, PanelOpens
  <2>2. CASE OtherComments(t)
    <3>1. panelEvents' \in Nat /\ panelPosts' \in SUBSET PanelPost
      BY <2>2 DEF OtherComments, PanelEvent, PanelInv, PanelTypeOK, PanelPost
    <3> QED BY <2>2, <3>1, CommentWritten DEF OtherComments, PanelPost
  <2> QED BY <1>1, <2>1, <2>2
<1>2. CASE CloseComments
  BY <1>2, PanelOpens
<1>3. ASSUME NEW kind \in {"post", "ask", "save"}, SendPost(kind) PROVE PanelInv'
  <2>1. /\ selected # NoTask
        /\ panelPosts' = panelPosts \cup {[kind |-> kind, t |-> selected, phase |-> "sent", n |-> 0]}
        /\ UNCHANGED <<thread, selected, isOpen, comments, iterations, notebookAnswer, loadingParts,
                       failedParts, panelLoads, commentEvents, astray, commentGap>>
    BY <1>3 DEF SendPost
  <2>2. panelEvents' \in Nat /\ panelPosts' \in SUBSET PanelPost
    BY <1>3, <2>1 DEF SendPost, PanelEvent, PanelInv, PanelTypeOK, PanelPost
  <2>3. PanelTypeOK' /\ ThreadsFinite' /\ OwnParts'
    BY <2>1, <2>2 DEF PanelInv, PanelTypeOK, PanelPost, ThreadsFinite, OwnParts
  <2>4. CommentsComing'
    BY <2>1, StillComing DEF PanelInv
  <2> QED BY <2>3, <2>4 DEF PanelInv
<1>4. ASSUME NEW p \in panelPosts,
             \/ ServePost(p) \/ PostFails(p)
             \/ CommentPosted(p) \/ NotebookAnswered(p) \/ TaskSaved(p)
      PROVE  PanelInv'
  BY <1>4, PostSteps, AnswerSteps
<1>5. ASSUME NEW l \in panelLoads, LoadRead(l) \/ LoadAnswered(l) \/ LoadFails(l) PROVE PanelInv'
  BY <1>5, LoadSteps
<1>6. CASE CommentStreamed \/ CommentSkipped
  BY <1>6, StreamSteps
<1>7. CASE UNCHANGED panelVars
  <2>1. PanelTypeOK' /\ ThreadsFinite' /\ OwnParts'
    BY <1>7 DEF panelVars, PanelInv, PanelTypeOK, ThreadsFinite, OwnParts
  <2>2. CommentsComing'
    BY <1>7, StillComing DEF panelVars, PanelInv
  <2> QED BY <2>1, <2>2 DEF PanelInv
<1> QED BY <1>1, <1>2, <1>3, <1>4, <1>5, <1>6, <1>7 DEF PanelNext, PanelUser, PanelAnswers

LEMMA PanelInvariant == PanelSpec => []PanelInv
BY PanelInitial, PanelStep, PTL DEF PanelSpec

LEMMA PanelTyped == PanelSpec => []PanelTypeOK
<1>1. PanelInv => PanelTypeOK
  BY DEF PanelInv
<1> QED BY PanelInvariant, <1>1, PTL

\* The comments, iterations and notebook answer in sight are those of the selected task,
\* unless one came in for a task that the panel had left: no answer looks at which task
\* the panel shows, and the panel reads again whenever it opens.
THEOREM PartsAreTheTasks == PanelSpec => []PanelShowsItsTask
<1>1. PanelInv => PanelShowsItsTask
  BY DEF PanelInv, OwnParts, PanelShowsItsTask, InSight
<1> QED BY PanelInvariant, <1>1, PTL

\* With its loads answered and the events streamed the panel has every comment of its
\* task, but for the causes on record, for every order of posts, loads and events.
THEOREM CommentsArrive == PanelSpec => []PanelHasAllComments
<1>1. PanelInv => PanelHasAllComments
  <2> SUFFICES ASSUME PanelInv, InSight("comments"), panelLoads = {}, commentEvents = <<>>, ~commentGap
               PROVE  CommentsOf(selected, thread[selected]) \subseteq comments
    BY DEF PanelHasAllComments
  <2>1. selected \in PanelTask /\ "comments" \notin failedParts
    BY DEF InSight, PanelInv, PanelTypeOK
  <2>2. \A n \in thread[selected] : [t |-> selected, n |-> n] \in comments
    BY <2>1 DEF PanelInv, CommentsComing, OnStream
  <2> QED BY <2>2 DEF CommentsOf
<1> QED BY PanelInvariant, <1>1, PTL
-----------------------------------------------------------------------------
(***************************************************************************)
(* The chat of the board page.                                             *)
(***************************************************************************)
\* The page has message m, or could not have it, or a later message explains that it was
\* passed over: one that was there before m was, or one of the page's own.
Accounted(m) == m \in chatMessages \cup blankMissed \cup lateMessages
                \/ \E own \in ownMessages : own > m

SendsAreOwn == \A s \in chatSends : s.id > 0 => s.id \in ownMessages

StreamAfterLoad == /\ chatConn.up => chatLoad.phase = "done"
                   /\ ~chatConn.up => chatConn.wire = <<>>

\* What is older than a message of the snapshot is in it, or came later.
LoadInOrder == \A x \in chatLoad.rows, m \in committed : m < x => m \in chatLoad.rows \cup lateMessages

\* The stream's server is past no message that the page has not, but the skipped ones.
BeforeCursor ==
    chatConn.up => \A m \in committed : m < chatConn.since => m \in Reaching \cup skippedMessages

\* What is older than a message of the page is accounted for...
OlderAccounted == \A x \in chatMessages, m \in committed : m < x => Accounted(m)

\* ... and what is older than a message on the wire, or it comes first.
WireInOrder ==
    \A i \in DOMAIN chatConn.wire, m \in committed : m < chatConn.wire[i] =>
        Accounted(m) \/ \E j \in DOMAIN chatConn.wire : j < i /\ chatConn.wire[j] = m

ChatInv == /\ ChatTypeOK /\ SendsAreOwn /\ StreamAfterLoad
           /\ LoadInOrder /\ BeforeCursor /\ OlderAccounted /\ WireInOrder /\ SkippedForCause

LEMMA ChatInitial == ChatInit => ChatInv
<1> SUFFICES ASSUME ChatInit PROVE ChatInv
  OBVIOUS
<1>1. messages \in Seq(ChatKind)
  <2>1. "say" \in ChatKind /\ "pause" \in ChatKind
    BY DEF ChatKind
  <2>2. <<>> \in Seq(ChatKind) /\ <<"say">> \in Seq(ChatKind) /\ <<"pause">> \in Seq(ChatKind)
    BY <2>1
  <2> QED BY <2>2 DEF ChatInit
<1>2. chatConn.wire = <<>> /\ chatConn.since = 0 /\ ~chatConn.up
      /\ chatConn \in [up : BOOLEAN, since : Nat, wire : Seq(Nat)]
  BY DEF ChatInit, NoChatStream
<1>3. ToSet(chatConn.wire) = {} /\ DOMAIN chatConn.wire = {}
  BY <1>2 DEF ToSet
<1>4. ChatTypeOK
  BY <1>1, <1>2, <1>3 DEF ChatInit, ChatTypeOK, ChatPanel, Reaching
<1>5. SendsAreOwn /\ StreamAfterLoad /\ BeforeCursor /\ LoadInOrder
  BY <1>2 DEF ChatInit, SendsAreOwn, StreamAfterLoad, BeforeCursor, LoadInOrder
<1> QED BY <1>3, <1>4, <1>5 DEF ChatInit, ChatInv, OlderAccounted, WireInOrder, SkippedForCause

\* The types, one by one.
LEMMA ChatTypes ==
  ASSUME ChatInv
  PROVE  /\ messages \in Seq(ChatKind) /\ Len(messages) \in Nat
         /\ DOMAIN messages = 1..Len(messages)
         /\ chatLoad.phase \in {"sent", "read", "done"} /\ chatLoad.rows \subseteq committed
         /\ chatLoad \in [phase : {"sent", "read", "done"}, rows : SUBSET Nat]
         /\ openPanel \in ChatPanel /\ chatToggles \in Nat
         /\ chatConn.up \in BOOLEAN /\ chatConn.since \in Nat /\ chatConn.wire \in Seq(Nat)
         /\ chatConn = [up |-> chatConn.up, since |-> chatConn.since, wire |-> chatConn.wire]
         /\ chatSends \subseteq [kind : ChatKind, id : Nat]
         /\ chatMessages \subseteq committed /\ ToSet(chatConn.wire) \subseteq committed
         /\ ownMessages \subseteq DOMAIN messages /\ committed \subseteq DOMAIN messages
         /\ blankMissed \subseteq committed /\ skippedMessages \subseteq committed
         /\ lateMessages \subseteq committed
<1>1. /\ messages \in Seq(ChatKind)
      /\ chatLoad \in [phase : {"sent", "read", "done"}, rows : SUBSET Nat]
      /\ openPanel \in ChatPanel
      /\ chatConn \in [up : BOOLEAN, since : Nat, wire : Seq(Nat)]
      /\ chatSends \subseteq [kind : ChatKind, id : Nat]
      /\ chatToggles \in Nat
      /\ ownMessages \subseteq DOMAIN messages /\ committed \subseteq DOMAIN messages
      /\ chatLoad.rows \cup Reaching \subseteq committed
      /\ UNION {blankMissed, lateMessages, skippedMessages} \subseteq committed
  BY DEF ChatInv, ChatTypeOK
<1>2. /\ chatMessages \subseteq committed /\ ToSet(chatConn.wire) \subseteq committed
      /\ chatLoad.rows \subseteq committed
  BY <1>1 DEF Reaching
<1>3. /\ blankMissed \subseteq committed /\ skippedMessages \subseteq committed
      /\ lateMessages \subseteq committed
  BY <1>1
<1>4. Len(messages) \in Nat /\ DOMAIN messages = 1..Len(messages)
  BY <1>1
<1>5. chatConn.up \in BOOLEAN /\ chatConn.since \in Nat /\ chatConn.wire \in Seq(Nat)
      /\ chatConn = [up |-> chatConn.up, since |-> chatConn.since, wire |-> chatConn.wire]
  BY <1>1
<1>6. chatLoad.phase \in {"sent", "read", "done"}
  BY <1>1
<1> QED BY <1>1, <1>2, <1>3, <1>4, <1>5, <1>6

\* A message stamped on the server changes none of the rest.
LEMMA MessageAdded ==
  ASSUME ChatInv, NEW kind \in ChatKind, messages' = Append(messages, kind),
         UNCHANGED <<committed, chatLoad, chatMessages, openPanel, chatConn, chatToggles,
                     blankMissed, lateMessages, skippedMessages>>,
         ownMessages' = ownMessages \/ ownMessages' = ownMessages \cup {Len(messages')},
         chatSends' \subseteq [kind : ChatKind, id : Nat],
         \A s \in chatSends' : s.id > 0 => s.id \in ownMessages'
  PROVE  ChatInv'
<1> USE ChatTypes
<1>1. /\ messages' \in Seq(ChatKind) /\ Len(messages') = Len(messages) + 1
      /\ DOMAIN messages \subseteq DOMAIN messages'
      /\ Len(messages') \in DOMAIN messages'
  OBVIOUS
<1>2. ownMessages \subseteq ownMessages' /\ ownMessages' \subseteq DOMAIN messages'
  BY <1>1
<1>3. ChatTypeOK'
  BY <1>1, <1>2 DEF ChatTypeOK, Reaching, ChatInv
<1>4. SendsAreOwn' /\ StreamAfterLoad' /\ LoadInOrder' /\ BeforeCursor'
  BY DEF ChatInv, SendsAreOwn, StreamAfterLoad, LoadInOrder, BeforeCursor, Reaching
<1>5. \A m : Accounted(m) => Accounted(m)'
  BY <1>2 DEF Accounted
<1>6. OlderAccounted' /\ WireInOrder'
  BY <1>5 DEF ChatInv, OlderAccounted, WireInOrder
<1>7. SkippedForCause'
  BY <1>2 DEF ChatInv, SkippedForCause
<1> QED BY <1>3, <1>4, <1>6, <1>7 DEF ChatInv

\* A message becomes visible: late, if a newer one has gone to the page.
LEMMA MessageCommitsStep ==
  ASSUME ChatInv, NEW m \in DOMAIN messages, MessageCommits(m)
  PROVE  ChatInv'
<1> USE ChatTypes
<1> DEFINE newer == {x \in Reaching \cup chatLoad.rows : x > m}
           passed == chatConn.up /\ m < chatConn.since
<1>1. /\ m \notin committed /\ committed' = committed \cup {m}
      /\ skippedMessages' = IF passed THEN skippedMessages \cup {m} ELSE skippedMessages
      /\ blankMissed' = IF passed /\ chatConn.since \notin Reaching
                        THEN blankMissed \cup {m} ELSE blankMissed
      /\ lateMessages' = IF newer # {} THEN lateMessages \cup {m} ELSE lateMessages
      /\ UNCHANGED <<messages, chatLoad, chatMessages, openPanel, chatConn, chatSends,
                     chatToggles, ownMessages>>
  BY DEF MessageCommits
<1>2. \A x \in chatMessages \cup ToSet(chatConn.wire) \cup chatLoad.rows : m < x => m \in lateMessages'
  <2> SUFFICES ASSUME NEW x \in chatMessages \cup ToSet(chatConn.wire) \cup chatLoad.rows, m < x
               PROVE  newer # {}
    BY <1>1
  <2>1. x \in Nat /\ m \in Nat
    OBVIOUS
  <2> QED BY <2>1 DEF Reaching
<1>3. passed => m \in blankMissed' \cup lateMessages'
  BY <1>1, <1>2 DEF Reaching
<1> HIDE DEF newer
<1>4. /\ blankMissed \subseteq blankMissed' /\ lateMessages \subseteq lateMessages'
      /\ skippedMessages \subseteq skippedMessages' /\ skippedMessages' \subseteq skippedMessages \cup {m}
      /\ UNION {blankMissed', lateMessages', skippedMessages'} \subseteq committed'
  BY <1>1
<1>5. ChatTypeOK'
  BY <1>1, <1>4 DEF ChatTypeOK, ChatInv, Reaching
<1>6. SendsAreOwn' /\ StreamAfterLoad'
  BY <1>1 DEF SendsAreOwn, StreamAfterLoad, ChatInv
<1>7. LoadInOrder'
  BY <1>1, <1>2, <1>4 DEF LoadInOrder, ChatInv
<1>8. BeforeCursor'
  BY <1>1, <1>4 DEF BeforeCursor, ChatInv, Reaching
<1>9. \A x : Accounted(x) => Accounted(x)'
  BY <1>1, <1>4 DEF Accounted
<1>10. OlderAccounted'
  BY <1>1, <1>2, <1>9 DEF OlderAccounted, ChatInv, Accounted
<1>11. WireInOrder'
  <2> SUFFICES ASSUME NEW i \in DOMAIN chatConn.wire, m < chatConn.wire[i] PROVE Accounted(m)'
    BY <1>1, <1>9 DEF WireInOrder, ChatInv
  <2> QED BY <1>2 DEF ToSet, Accounted
<1>12. SkippedForCause'
  BY <1>1, <1>3, <1>4 DEF SkippedForCause, ChatInv
<1> QED BY <1>5, <1>6, <1>7, <1>8, <1>10, <1>11, <1>12 DEF ChatInv

\* The stream is aborted, or nothing but the requests and the panels changes.
LEMMA ChatPaused ==
  ASSUME ChatInv, AbortChat \/ chatConn' = chatConn,
         chatLoad' = chatLoad \/ (chatLoad.phase = "sent" /\ ChatRead),
         UNCHANGED <<messages, committed, chatMessages, ownMessages, blankMissed, lateMessages,
                     skippedMessages>>,
         openPanel' \in ChatPanel, chatToggles' \in Nat,
         chatSends' \subseteq [kind : ChatKind, id : Nat],
         \A s \in chatSends' : s.id > 0 => s.id \in ownMessages
  PROVE  ChatInv'
<1> USE ChatTypes
<1>1. NoChatStream \in [up : BOOLEAN, since : Nat, wire : Seq(Nat)]
      /\ ~NoChatStream.up /\ NoChatStream.wire = <<>>
  BY DEF NoChatStream
<1>2. /\ chatLoad' \in [phase : {"sent", "read", "done"}, rows : SUBSET Nat]
      /\ chatLoad'.rows \subseteq committed
      /\ (chatLoad.phase = "done" => chatLoad'.phase = "done")
      /\ \A x \in chatLoad'.rows, m \in committed : m < x => m \in chatLoad'.rows \cup lateMessages
  <2>1. CASE chatLoad' = chatLoad
    BY <2>1 DEF ChatInv, ChatTypeOK, LoadInOrder
  <2>2. CASE chatLoad.phase = "sent" /\ chatLoad' = [phase |-> "read", rows |-> committed]
    <3>1. chatLoad'.rows = committed /\ committed \subseteq Nat
      BY <2>2
    <3> QED BY <2>2, <3>1
  <2> QED BY <2>1, <2>2 DEF ChatRead
<1>3. /\ chatConn' \in [up : BOOLEAN, since : Nat, wire : Seq(Nat)]
      /\ ToSet(chatConn'.wire) \subseteq ToSet(chatConn.wire)
      /\ chatConn' = chatConn \/ (~chatConn'.up /\ chatConn'.wire = <<>>)
  <2>1. CASE chatConn' = chatConn
    BY <2>1 DEF ChatInv, ChatTypeOK
  <2>2. CASE chatConn' = NoChatStream
    BY <1>1, <2>2 DEF ToSet
  <2> QED BY <2>1, <2>2 DEF AbortChat
<1>4. ChatTypeOK'
  BY <1>2, <1>3 DEF ChatTypeOK, ChatInv, Reaching
<1>5. SendsAreOwn' /\ LoadInOrder'
  BY <1>2 DEF SendsAreOwn, LoadInOrder
<1>6. StreamAfterLoad' /\ BeforeCursor'
  BY <1>2, <1>3 DEF StreamAfterLoad, BeforeCursor, ChatInv, Reaching
<1>7. \A m : Accounted(m)' = Accounted(m)
  BY DEF Accounted
<1>8. OlderAccounted' /\ SkippedForCause'
  BY <1>7 DEF OlderAccounted, SkippedForCause, ChatInv
<1>9. WireInOrder'
  <2>1. CASE chatConn' = chatConn
    BY <1>7, <2>1 DEF WireInOrder, ChatInv
  <2>2. CASE chatConn'.wire = <<>>
    BY <2>2 DEF WireInOrder
  <2> QED BY <1>3, <2>1, <2>2
<1> QED BY <1>4, <1>5, <1>6, <1>8, <1>9 DEF ChatInv

LEMMA ChatSetStep == ChatInv /\ ChatSet => ChatInv'
<1> SUFFICES ASSUME ChatInv, ChatSet PROVE ChatInv'
  OBVIOUS
<1> USE ChatTypes
<1>1. /\ chatLoad.phase = "read" /\ chatLoad' = [phase |-> "done", rows |-> {}]
      /\ chatMessages' = chatLoad.rows
      /\ UNCHANGED <<messages, committed, openPanel, chatConn, chatSends, chatToggles,
                     ownMessages, blankMissed, lateMessages, skippedMessages>>
  BY DEF ChatSet, chatHistory
<1>2. ~chatConn.up /\ chatConn.wire = <<>>
  BY <1>1 DEF ChatInv, StreamAfterLoad
<1>3. /\ chatLoad' \in [phase : {"sent", "read", "done"}, rows : SUBSET Nat]
      /\ chatLoad'.rows = {} /\ chatLoad'.phase = "done"
  BY <1>1
<1>4. ChatTypeOK'
  BY <1>1, <1>3 DEF ChatTypeOK, ChatInv, Reaching
<1>5. SendsAreOwn' /\ StreamAfterLoad' /\ LoadInOrder' /\ BeforeCursor'
  BY <1>1, <1>2, <1>3 DEF SendsAreOwn, StreamAfterLoad, LoadInOrder, BeforeCursor, ChatInv
<1>6. OlderAccounted'
  BY <1>1 DEF OlderAccounted, Accounted, LoadInOrder, ChatInv
<1>7. WireInOrder' /\ SkippedForCause'
  BY <1>1, <1>2 DEF WireInOrder, SkippedForCause, ChatInv
<1> QED BY <1>4, <1>5, <1>6, <1>7 DEF ChatInv

LEMMA ConnectChatStep == ChatInv /\ ConnectChat => ChatInv'
<1> SUFFICES ASSUME ChatInv, ConnectChat PROVE ChatInv'
  OBVIOUS
<1> USE ChatTypes
<1> DEFINE blanks == {m \in committed : m < ChatCursor} \ chatMessages
<1>1. /\ chatLoad.phase = "done" /\ ~chatConn.up
      /\ chatConn' = [up |-> TRUE, since |-> ChatCursor, wire |-> <<>>]
      /\ skippedMessages' = skippedMessages \cup blanks
      /\ blankMissed' = IF chatMessages = {} THEN blankMissed \cup blanks ELSE blankMissed
      /\ UNCHANGED <<messages, committed, chatLoad, chatMessages, openPanel, chatSends,
                     chatToggles, ownMessages, lateMessages>>
  BY DEF ConnectChat
<1>2. ChatCursor \in Nat /\ (chatMessages # {} => ChatCursor \in chatMessages)
  <2>1. CASE chatMessages = {}
    BY <2>1 DEF ChatCursor
  <2>2. CASE chatMessages # {}
    <3>1. chatMessages \in SUBSET Nat /\ \A x \in chatMessages : x <= Len(messages)
      OBVIOUS
    <3>2. Max(chatMessages) \in chatMessages
      BY <2>2, <3>1, MaxIs
    <3> QED BY <2>2, <3>1, <3>2 DEF ChatCursor
  <2> QED BY <2>1, <2>2
<1>3. blanks \subseteq committed /\ \A m \in blanks : m < ChatCursor /\ m \notin chatMessages
  OBVIOUS
<1>4. \A m \in committed : m < ChatCursor => m \in chatMessages \cup blanks
  OBVIOUS
<1> HIDE DEF blanks
<1>5. /\ chatConn'.up /\ chatConn'.since = ChatCursor /\ chatConn'.wire = <<>>
      /\ chatConn' \in [up : BOOLEAN, since : Nat, wire : Seq(Nat)]
  BY <1>1, <1>2
<1>6. ToSet(chatConn'.wire) = {} /\ DOMAIN chatConn'.wire = {}
  BY <1>5 DEF ToSet
<1>7. ChatTypeOK'
  BY <1>1, <1>3, <1>5, <1>6 DEF ChatTypeOK, ChatInv, Reaching
<1>8. SendsAreOwn' /\ StreamAfterLoad' /\ LoadInOrder'
  BY <1>1, <1>5 DEF SendsAreOwn, StreamAfterLoad, LoadInOrder, ChatInv
<1>9. BeforeCursor'
  BY <1>1, <1>4, <1>5 DEF BeforeCursor, Reaching
<1>10. \A m : Accounted(m) => Accounted(m)'
  BY <1>1 DEF Accounted
<1>11. OlderAccounted' /\ WireInOrder'
  BY <1>1, <1>6, <1>10 DEF OlderAccounted, WireInOrder, ChatInv
<1>12. SkippedForCause'
  <2> SUFFICES ASSUME NEW m \in skippedMessages', m \notin blankMissed'
               PROVE  m \in lateMessages \/ \E own \in ownMessages : own > m
    BY <1>1 DEF SkippedForCause
  <2>1. m \notin blankMissed
    BY <1>1
  <2>2. CASE m \in skippedMessages
    BY <2>1, <2>2 DEF ChatInv, SkippedForCause
  <2>3. CASE m \in blanks
    <3>1. chatMessages # {}
      BY <1>1, <2>3
    <3>2. m < ChatCursor /\ m \notin chatMessages /\ m \in committed
      BY <1>3, <2>3
    <3>3. Accounted(m)
      BY <1>2, <3>1, <3>2 DEF ChatInv, OlderAccounted
    <3> QED BY <2>1, <3>2, <3>3 DEF Accounted
  <2> QED BY <1>1, <2>2, <2>3
<1> QED BY <1>7, <1>8, <1>9, <1>11, <1>12 DEF ChatInv

LEMMA PollChatStep == ChatInv /\ PollChat => ChatInv'
<1> SUFFICES ASSUME ChatInv, PollChat PROVE ChatInv'
  OBVIOUS
<1> USE ChatTypes
<1> DEFINE wire == chatConn.wire
           news == Ascending(UnsentChat)
           ahead == Max(UnsentChat \cup {chatConn.since})
<1>1. /\ chatConn.up
      /\ chatConn' = [chatConn EXCEPT !.since = Max(UnsentChat \cup {@}),
                                      !.wire = @ \o Ascending(UnsentChat)]
      /\ UNCHANGED <<messages, committed, chatLoad, chatMessages, openPanel, chatSends,
                     chatToggles, ownMessages, blankMissed, lateMessages, skippedMessages>>
  BY DEF PollChat, chatHistory
<1>2. chatConn' = [up |-> TRUE, since |-> ahead, wire |-> wire \o news]
  BY <1>1
<1>3. UnsentChat \subseteq committed
      /\ \A m \in committed : m >= chatConn.since =>
           m \in UnsentChat \/ m \in ToSet(wire) \/ m \in chatMessages
  BY DEF UnsentChat, Reaching
<1>4. /\ news \in Seq(UnsentChat) /\ ToSet(news) = UnsentChat
      /\ \A i, j \in DOMAIN news : i < j => news[i] < news[j]
  <2>1. UnsentChat \in SUBSET (1..Len(messages))
    BY <1>3
  <2> QED BY <2>1, AscendingIs
<1>5. ahead \in Nat
  <2> DEFINE S == UnsentChat \cup {chatConn.since}
  <2>1. S \in SUBSET Nat /\ S # {} /\ \A x \in S : x <= Len(messages) + chatConn.since
    BY <1>3
  <2> HIDE DEF S
  <2>2. Max(S) \in S
    <3>1. Len(messages) + chatConn.since \in Nat
      OBVIOUS
    <3> QED BY <2>1, <3>1, MaxIs
  <2> QED BY <2>1, <2>2 DEF S
<1> HIDE DEF news, ahead
<1>6. /\ wire \in Seq(Nat) /\ news \in Seq(Nat) /\ wire \o news \in Seq(Nat)
      /\ Len(wire \o news) = Len(wire) + Len(news)
      /\ \A i \in 1..Len(wire) : (wire \o news)[i] = wire[i]
      /\ \A i \in 1..Len(news) : (wire \o news)[Len(wire) + i] = news[i]
  BY <1>3, <1>4
<1> DEFINE w == wire \o news
<1>7. /\ w \in Seq(Nat) /\ DOMAIN wire = 1..Len(wire) /\ Len(wire) \in Nat
      /\ DOMAIN news = 1..Len(news) /\ Len(news) \in Nat
      /\ Len(w) = Len(wire) + Len(news) /\ DOMAIN w = 1..Len(w)
      /\ \A i \in 1..Len(wire) : w[i] = wire[i]
      /\ \A i \in 1..Len(news) : w[Len(wire) + i] = news[i]
  BY <1>6
<1>8. chatConn'.up /\ chatConn'.since = ahead /\ chatConn'.wire = w
      /\ chatConn' \in [up : BOOLEAN, since : Nat, wire : Seq(Nat)]
  <2> HIDE DEF w
  <2>1. chatConn' = [up |-> TRUE, since |-> ahead, wire |-> w]
    BY <1>2 DEF w
  <2> QED BY <1>5, <1>7, <2>1
<1> HIDE DEF w, wire
<1>9. \A i \in DOMAIN w : \/ i \in DOMAIN wire /\ w[i] = wire[i]
                          \/ \E k \in DOMAIN news : i = Len(wire) + k /\ w[i] = news[k]
  <2> SUFFICES ASSUME NEW i \in DOMAIN w, i \notin DOMAIN wire
               PROVE  \E k \in DOMAIN news : i = Len(wire) + k /\ w[i] = news[k]
    BY <1>7
  <2>1. i - Len(wire) \in DOMAIN news /\ i = Len(wire) + (i - Len(wire))
    BY <1>7
  <2> QED BY <1>7, <2>1
<1>10. ToSet(w) = ToSet(wire) \cup UnsentChat
  <2>1. \A i \in DOMAIN w : w[i] \in ToSet(wire) \cup UnsentChat
    BY <1>4, <1>9 DEF ToSet
  <2>2. \A i \in DOMAIN wire : wire[i] \in ToSet(w)
    <3>1. \A i \in DOMAIN wire : i \in DOMAIN w
      BY <1>7
    <3> QED BY <1>7, <3>1 DEF ToSet
  <2>3. \A k \in DOMAIN news : news[k] \in ToSet(w)
    <3>1. \A k \in DOMAIN news : Len(wire) + k \in DOMAIN w
      BY <1>7
    <3> QED BY <1>7, <3>1 DEF ToSet
  <2> QED BY <1>4, <2>1, <2>2, <2>3 DEF ToSet
<1>11. ChatTypeOK'
  <2>1. ToSet(w) \subseteq committed
    BY <1>3, <1>10 DEF wire
  <2> QED BY <1>1, <1>8, <2>1 DEF ChatTypeOK, ChatInv, Reaching
<1>12. SendsAreOwn' /\ StreamAfterLoad' /\ LoadInOrder'
  BY <1>1, <1>8 DEF SendsAreOwn, StreamAfterLoad, LoadInOrder, ChatInv
<1>13. \A m \in committed :
         m \in chatMessages \/ m \in ToSet(w) \/ (m < chatConn.since /\ m \in skippedMessages)
  <2> TAKE m \in committed
  <2>1. CASE m < chatConn.since
    BY <1>1, <1>10, <2>1 DEF ChatInv, BeforeCursor, Reaching, wire
  <2>2. CASE m >= chatConn.since
    BY <1>3, <1>10, <2>2
  <2> QED BY <2>1, <2>2
<1>14. BeforeCursor'
  BY <1>1, <1>8, <1>13 DEF BeforeCursor, Reaching
<1>15. \A m : Accounted(m)' = Accounted(m)
  BY <1>1 DEF Accounted
<1>16. OlderAccounted' /\ SkippedForCause'
  BY <1>1, <1>15 DEF OlderAccounted, SkippedForCause, ChatInv
<1>17. ASSUME NEW i \in DOMAIN w, NEW m \in committed, m < w[i], ~Accounted(m)
       PROVE  \E j \in DOMAIN w : j < i /\ w[j] = m
  <2>1. CASE i \in DOMAIN wire /\ w[i] = wire[i]
    <3>1. PICK j \in DOMAIN wire : j < i /\ wire[j] = m
      BY <1>17, <2>1 DEF ChatInv, WireInOrder, wire
    <3> QED BY <1>7, <3>1
  <2>2. ASSUME NEW k \in DOMAIN news, i = Len(wire) + k, w[i] = news[k]
        PROVE  \E j \in DOMAIN w : j < i /\ w[j] = m
    <3>1. news[k] \in Nat
      BY <1>3, <1>4
    <3>3. m \notin chatMessages /\ m \notin skippedMessages
      BY <1>17 DEF Accounted, ChatInv, SkippedForCause
    <3>4. m \in ToSet(w)
      BY <1>13, <3>3
    <3>5. PICK j \in DOMAIN w : w[j] = m
      BY <3>4 DEF ToSet
    <3>6. CASE j \in DOMAIN wire
      BY <1>7, <2>2, <3>5, <3>6
    <3>7. ASSUME NEW l \in DOMAIN news, j = Len(wire) + l, w[j] = news[l] PROVE j < i
      <4>1. ~(k < l) /\ k # l
        BY <1>4, <1>17, <2>2, <3>1, <3>5, <3>7
      <4> QED BY <1>7, <2>2, <3>7, <4>1
    <3> QED BY <1>9, <3>5, <3>6, <3>7
  <2> QED BY <1>9, <2>1, <2>2
<1>18. WireInOrder'
  <2>1. committed' = committed
    BY <1>1
  <2> QED BY <1>8, <1>15, <1>17, <2>1 DEF WireInOrder
<1> QED BY <1>11, <1>12, <1>14, <1>16, <1>18 DEF ChatInv

LEMMA ChatStreamedStep == ChatInv /\ ChatStreamed => ChatInv'
<1> SUFFICES ASSUME ChatInv, ChatStreamed PROVE ChatInv'
  OBVIOUS
<1> USE ChatTypes
<1> DEFINE wire == chatConn.wire
           w == Tail(wire)
<1>1. /\ wire # <<>>
      /\ chatMessages' = chatMessages \cup {Head(wire)}
      /\ chatConn' = [chatConn EXCEPT !.wire = Tail(@)]
      /\ UNCHANGED <<messages, committed, chatLoad, openPanel, chatSends, chatToggles,
                     ownMessages, blankMissed, lateMessages, skippedMessages>>
  BY DEF ChatStreamed, chatHistory
<1>2. /\ wire \in Seq(Nat) /\ w \in Seq(Nat) /\ Len(wire) \in Nat /\ Len(wire) > 0
      /\ DOMAIN wire = 1..Len(wire) /\ DOMAIN w = 1..(Len(wire) - 1)
      /\ Head(wire) = wire[1] /\ \A i \in DOMAIN w : w[i] = wire[i + 1] /\ i + 1 \in DOMAIN wire
  BY <1>1
<1>3. chatConn' = [up |-> chatConn.up, since |-> chatConn.since, wire |-> w]
  BY <1>1
<1> HIDE DEF w, wire
<1>4. chatConn'.up = chatConn.up /\ chatConn'.since = chatConn.since /\ chatConn'.wire = w
      /\ chatConn' \in [up : BOOLEAN, since : Nat, wire : Seq(Nat)]
  BY <1>2, <1>3
<1>5. ToSet(wire) = ToSet(w) \cup {wire[1]}
  <2>1. \A i \in DOMAIN wire : i = 1 \/ (i - 1 \in DOMAIN w /\ wire[i] = w[i - 1])
    <3> SUFFICES ASSUME NEW i \in DOMAIN wire, i # 1 PROVE i - 1 \in DOMAIN w /\ wire[i] = w[i - 1]
      OBVIOUS
    <3>1. i \in 1..Len(wire) /\ Len(wire) \in Nat
      BY <1>2
    <3>2. i - 1 \in 1..(Len(wire) - 1) /\ (i - 1) + 1 = i
      BY <3>1
    <3> QED BY <1>2, <3>2
  <2>2. ToSet(wire) \subseteq ToSet(w) \cup {wire[1]}
    BY <2>1 DEF ToSet
  <2>3. 1 \in DOMAIN wire
    BY <1>2
  <2> QED BY <1>2, <2>2, <2>3 DEF ToSet
<1>6. chatMessages' = chatMessages \cup {wire[1]} /\ wire[1] \in committed
      /\ ToSet(w) \subseteq committed
  BY <1>1, <1>2, <1>5 DEF wire
<1>7. ChatTypeOK'
  BY <1>1, <1>4, <1>6 DEF ChatTypeOK, ChatInv, Reaching
<1>8. SendsAreOwn' /\ LoadInOrder'
  BY <1>1 DEF SendsAreOwn, LoadInOrder, ChatInv
<1>9. StreamAfterLoad'
  BY <1>1, <1>4 DEF StreamAfterLoad, ChatInv, wire
<1>10. BeforeCursor'
  BY <1>1, <1>4, <1>5, <1>6 DEF BeforeCursor, ChatInv, Reaching, wire
<1>11. \A m : Accounted(m) => Accounted(m)'
  BY <1>1 DEF Accounted
<1>12. OlderAccounted'
  <2> SUFFICES ASSUME NEW m \in committed, m < wire[1] PROVE Accounted(m)
    BY <1>1, <1>6, <1>11 DEF ChatInv, OlderAccounted
  <2>1. 1 \in DOMAIN wire /\ \A j \in DOMAIN wire : ~(j < 1)
    BY <1>2
  <2> QED BY <2>1 DEF ChatInv, WireInOrder, wire
<1>13. ASSUME NEW i \in DOMAIN w, NEW m \in committed, m < w[i], ~Accounted(m)'
       PROVE  \E j \in DOMAIN w : j < i /\ w[j] = m
  <2>1. PICK j \in DOMAIN wire : j < i + 1 /\ wire[j] = m
    BY <1>2, <1>11, <1>13 DEF ChatInv, WireInOrder, wire
  <2>2. j # 1
    BY <1>6, <1>13, <2>1 DEF Accounted
  <2>3. j - 1 \in DOMAIN w /\ j - 1 < i /\ (j - 1) + 1 = j
    <3>1. j \in 1..Len(wire) /\ Len(wire) \in Nat /\ i \in Nat
      BY <1>2
    <3>2. j - 1 \in 1..(Len(wire) - 1) /\ j - 1 < i /\ (j - 1) + 1 = j
      BY <2>1, <2>2, <3>1
    <3> QED BY <1>2, <3>2
  <2>4. w[j - 1] = m
    BY <1>2, <2>1, <2>3
  <2> QED BY <2>3, <2>4
<1>14. WireInOrder'
  <2>1. committed' = committed
    BY <1>1
  <2> QED BY <1>4, <1>13, <2>1 DEF WireInOrder
<1>15. SkippedForCause'
  BY <1>1 DEF SkippedForCause, ChatInv
<1> QED BY <1>7, <1>8, <1>9, <1>10, <1>12, <1>14, <1>15 DEF ChatInv

LEMMA SendAnsweredStep == ASSUME ChatInv, NEW s \in chatSends, SendAnswered(s) PROVE ChatInv'
<1> USE ChatTypes
<1>1. /\ s.id \in committed /\ s.id \in ownMessages
      /\ chatSends' \subseteq chatSends
      /\ chatMessages' = chatMessages \cup {s.id}
      /\ UNCHANGED <<messages, committed, chatLoad, openPanel, chatConn, chatToggles,
                     ownMessages, blankMissed, lateMessages, skippedMessages>>
  <2>1. s.id \in committed => s.id > 0
    OBVIOUS
  <2> QED BY <2>1 DEF SendAnswered, ChatInv, SendsAreOwn, chatHistory
<1>2. ChatTypeOK'
  BY <1>1 DEF ChatTypeOK, ChatInv, Reaching
<1>3. SendsAreOwn' /\ StreamAfterLoad' /\ LoadInOrder' /\ BeforeCursor' /\ SkippedForCause'
  BY <1>1 DEF SendsAreOwn, StreamAfterLoad, LoadInOrder, BeforeCursor, Reaching, SkippedForCause,
              ChatInv
<1>4. \A m : Accounted(m) => Accounted(m)'
  BY <1>1 DEF Accounted
<1>5. OlderAccounted'
  BY <1>1, <1>4 DEF OlderAccounted, Accounted, ChatInv
<1>6. WireInOrder'
  BY <1>1, <1>4 DEF WireInOrder, ChatInv
<1> QED BY <1>2, <1>3, <1>5, <1>6 DEF ChatInv

LEMMA ChatStep == ChatInv /\ [ChatNext]_chatVars => ChatInv'
<1> SUFFICES ASSUME ChatInv, [ChatNext]_chatVars PROVE ChatInv'
  OBVIOUS
<1> USE ChatTypes
<1>1. ASSUME NEW kind \in ChatKind, OtherSays(kind) PROVE ChatInv'
  <2>1. \A s \in chatSends' : s.id > 0 => s.id \in ownMessages'
    BY <1>1 DEF OtherSays, ChatInv, SendsAreOwn
  <2> QED BY <1>1, <2>1, MessageAdded DEF OtherSays, chatHistory
<1>2. ASSUME NEW s \in chatSends, ServeSend(s) PROVE ChatInv'
  <2>1. s.kind \in ChatKind /\ s = [kind |-> s.kind, id |-> s.id] /\ s.id = 0
    BY <1>2 DEF ServeSend
  <2>2. /\ messages' = Append(messages, s.kind) /\ Len(messages') = Len(messages) + 1
        /\ chatSends' = (chatSends \ {s}) \cup {[s EXCEPT !.id = Len(messages')]}
        /\ ownMessages' = ownMessages \cup {Len(messages')}
        /\ UNCHANGED <<committed, chatLoad, chatMessages, openPanel, chatConn, chatToggles,
                       blankMissed, lateMessages, skippedMessages>>
    BY <1>2, <2>1 DEF ServeSend, chatHistory
  <2>3. [s EXCEPT !.id = Len(messages')] = [kind |-> s.kind, id |-> Len(messages')]
    BY <2>1
  <2>4. chatSends' \subseteq [kind : ChatKind, id : Nat]
    BY <2>1, <2>2, <2>3
  <2>5. \A r \in chatSends' : r.id > 0 => r.id \in ownMessages'
    BY <2>2, <2>3 DEF ChatInv, SendsAreOwn
  <2> QED BY <2>1, <2>2, <2>4, <2>5, MessageAdded
<1>3. ASSUME NEW p \in ChatPanel, TogglePanel(p) PROVE ChatInv'
  <2>1. \A s \in chatSends' : s.id > 0 => s.id \in ownMessages
    BY <1>3 DEF TogglePanel, ChatInv, SendsAreOwn
  <2> QED BY <1>3, <2>1, ChatPaused DEF TogglePanel, chatHistory
<1>4. ASSUME NEW kind \in ChatKind, SendChat(kind) PROVE ChatInv'
  <2>1. \A s \in chatSends' : s.id > 0 => s.id \in ownMessages
    BY <1>4 DEF SendChat, ChatInv, SendsAreOwn
  <2>2. chatSends' \subseteq [kind : ChatKind, id : Nat]
    BY <1>4 DEF SendChat
  <2> QED BY <1>4, <2>1, <2>2, ChatPaused DEF SendChat, chatHistory
<1>5. ASSUME NEW s \in chatSends, SendFails(s) PROVE ChatInv'
  <2>1. chatSends' \subseteq chatSends
    BY <1>5 DEF SendFails
  <2>2. \A r \in chatSends' : r.id > 0 => r.id \in ownMessages
    BY <2>1 DEF ChatInv, SendsAreOwn
  <2> QED BY <1>5, <2>1, <2>2, ChatPaused DEF SendFails, chatHistory
<1>6. CASE ChatRead \/ LoseChat \/ UNCHANGED chatVars
  <2>1. \A r \in chatSends : r.id > 0 => r.id \in ownMessages
    BY DEF ChatInv, SendsAreOwn
  <2>2. CASE ChatRead
    BY <2>1, <2>2, ChatPaused DEF ChatRead, chatHistory
  <2>3. CASE LoseChat
    BY <2>1, <2>3, ChatPaused DEF LoseChat, chatHistory
  <2>4. CASE UNCHANGED chatVars
    BY <2>1, <2>4, ChatPaused DEF chatVars, chatHistory
  <2> QED BY <1>6, <2>2, <2>3, <2>4
<1>7. ASSUME NEW m \in DOMAIN messages, MessageCommits(m) PROVE ChatInv'
  BY <1>7, MessageCommitsStep
<1> QED BY <1>1, <1>2, <1>3, <1>4, <1>5, <1>6, <1>7, ChatSetStep, ConnectChatStep, PollChatStep,
           ChatStreamedStep, SendAnsweredStep DEF ChatNext, ChatUser, ChatServer

LEMMA ChatInvariant == ChatSpec => []ChatInv
<1> QED BY ChatInitial, ChatStep, PTL DEF ChatSpec

LEMMA ChatTyped == ChatSpec => []ChatTypeOK
<1>1. ChatInv => ChatTypeOK
  BY DEF ChatInv
<1> QED BY ChatInvariant, <1>1, PTL

\* However many messages are sent, streamed, answered and polled for in whichever order, the
\* cursor of latestChatTimestamp (page.tsx) passes over a message only because the page showed
\* none, had a later one of its own, or had a later one when the message was committed.
THEOREM CursorSkips == ChatSpec => []SkippedForCause
<1>1. ChatInv => SkippedForCause
  BY DEF ChatInv
<1> QED BY <1>1, ChatInvariant, PTL

\* However long the chat, isAgentsPaused of the page's messages is what it is of the server's
\* once the stream has brought what it will, unless it skipped a command.
THEOREM PauseIsShown == ChatSpec => []PauseStateShown
<1>1. ChatInv => PauseStateShown
  <2> SUFFICES ASSUME ChatInv, chatConn.up, chatConn.wire = <<>>, UnsentChat = {},
                      PausedBy(chatMessages) # PausedBy(committed)
               PROVE  \E m \in committed \ chatMessages :
                         m \in skippedMessages /\ messages[m] # "say"
    BY DEF PauseStateShown
  <2> USE ChatTypes
  <2>1. {i \in chatMessages : messages[i] # "say"} # {i \in committed : messages[i] # "say"}
    BY DEF PausedBy
  <2>2. PICK m \in committed \ chatMessages : messages[m] # "say"
    BY <2>1
  <2>3. ToSet(chatConn.wire) = {}
    BY DEF ToSet
  <2>4. m < chatConn.since
    BY <2>2, <2>3 DEF UnsentChat, Reaching
  <2>5. m \in skippedMessages
    BY <2>2, <2>3, <2>4 DEF ChatInv, BeforeCursor, Reaching
  <2> QED BY <2>2, <2>5
<1> QED BY <1>1, ChatInvariant, PTL

-----------------------------------------------------------------------------
(***************************************************************************)
(* The onboarding dialog.                                                  *)
(***************************************************************************)
\* A sequence of numbers has an upper bound, and Max of its elements is one.
LEMMA LastAssistantIs ==
  ASSUME NEW s \in SessionType
  PROVE  /\ LastAssistant(s) \in Nat
         /\ \A x \in ToSet(s.msgs) : x <= LastAssistant(s)
         /\ LastAssistant(s) # 0 => LastAssistant(s) \in ToSet(s.msgs)
<1> DEFINE m == s.msgs
           P == {k \in Nat : \E b \in Nat : \A i \in DOMAIN m : i <= k => m[i] <= b}
<1>1. m \in Seq(Nat) /\ Len(m) \in Nat /\ DOMAIN m = 1..Len(m)
  <2>1. m \in Seq(Nat)
    BY DEF SessionType
  <2> QED BY <2>1
<1>2. LastAssistant(s) = Max({0} \cup ToSet(m))
  BY DEF LastAssistant
<1> HIDE DEF m
<1>3. P = Nat
  <2>1. 0 \in P
    BY <1>1
  <2>2. ASSUME NEW k \in P PROVE k + 1 \in P
    <3>1. PICK b \in Nat : \A i \in DOMAIN m : i <= k => m[i] <= b
      OBVIOUS
    <3>2. CASE k + 1 \in DOMAIN m
      <4>1. m[k + 1] \in Nat
        BY <1>1, <3>2
      <4>2. PICK d \in Nat : b <= d /\ m[k + 1] <= d
        BY <4>1
      <4>3. \A i \in DOMAIN m : i <= k + 1 => m[i] <= d
        <5> SUFFICES ASSUME NEW i \in DOMAIN m, i <= k + 1 PROVE m[i] <= d
          OBVIOUS
        <5>1. m[i] \in Nat /\ i \in Nat
          BY <1>1
        <5> QED BY <3>1, <4>2, <5>1
      <4> QED BY <4>3
    <3>3. CASE k + 1 \notin DOMAIN m
      <4>1. \A i \in DOMAIN m : i <= k + 1 => i <= k
        BY <1>1, <3>3
      <4> QED BY <3>1, <4>1
    <3> QED BY <3>2, <3>3
  <2> HIDE DEF P
  <2>3. P \in SUBSET Nat
    BY DEF P
  <2> QED BY <2>1, <2>2, <2>3, AllNat
<1>4. PICK b \in Nat : \A i \in DOMAIN m : m[i] <= b
  <2>1. Len(m) \in P
    BY <1>1, <1>3
  <2>2. PICK b \in Nat : \A i \in DOMAIN m : i <= Len(m) => m[i] <= b
    BY <2>1
  <2> QED BY <1>1, <2>2
<1> HIDE DEF P
<1> DEFINE S == {0} \cup ToSet(m)
<1>5. S \in SUBSET Nat /\ S # {} /\ \A x \in S : x <= b
  <2>1. \A x \in ToSet(m) : x \in Nat /\ x <= b
    BY <1>1, <1>4 DEF ToSet
  <2> QED BY <2>1
<1> HIDE DEF S
<1>6. Max(S) \in S /\ \A x \in S : x <= Max(S)
  BY <1>5, MaxIs
<1>7. LastAssistant(s) = Max(S)
  BY <1>2 DEF S
<1>8. ToSet(m) \subseteq S /\ \A x \in S : x = 0 \/ x \in ToSet(m)
  BY DEF S
<1> QED BY <1>5, <1>6, <1>7, <1>8 DEF m

\* The user's message changes nothing of it, the agent's does.
LEMMA MessageAppended ==
  ASSUME NEW s \in SessionType, NEW x \in Nat, NEW r \in SessionType, r.msgs = Append(s.msgs, x)
  PROVE  /\ r.msgs # <<>> /\ (AnsweredLast(r) <=> x = 0)
         /\ x = 0 => LastAssistant(r) = LastAssistant(s)
         /\ x # 0 => LastAssistant(r) # 0
<1>1. s.msgs \in Seq(Nat) /\ r.msgs \in Seq(Nat)
  BY DEF SessionType
<1>2. /\ Len(r.msgs) = Len(s.msgs) + 1 /\ Len(s.msgs) \in Nat
      /\ r.msgs[Len(r.msgs)] = x /\ r.msgs # <<>>
      /\ DOMAIN s.msgs = 1..Len(s.msgs) /\ DOMAIN r.msgs = 1..(Len(s.msgs) + 1)
      /\ \A i \in 1..Len(s.msgs) : r.msgs[i] = s.msgs[i]
  BY <1>1
<1>3. ToSet(r.msgs) = ToSet(s.msgs) \cup {x}
  <2>1. \A i \in DOMAIN r.msgs : i \in DOMAIN s.msgs \/ i = Len(r.msgs)
    BY <1>2
  <2>2. ToSet(r.msgs) \subseteq ToSet(s.msgs) \cup {x}
    BY <1>2, <2>1 DEF ToSet
  <2>3. DOMAIN s.msgs \subseteq DOMAIN r.msgs /\ Len(r.msgs) \in DOMAIN r.msgs
    BY <1>2
  <2>4. ToSet(s.msgs) \cup {x} \subseteq ToSet(r.msgs)
    BY <1>2, <2>3 DEF ToSet
  <2> QED BY <2>2, <2>4
<1>4. AnsweredLast(r) <=> x = 0
  BY <1>2 DEF AnsweredLast, Last
<1>5. ASSUME x = 0 PROVE LastAssistant(r) = LastAssistant(s)
  <2>1. {0} \cup ToSet(r.msgs) = {0} \cup ToSet(s.msgs)
    BY <1>3, <1>5
  <2> QED BY <2>1 DEF LastAssistant
<1>6. ASSUME x # 0 PROVE LastAssistant(r) # 0
  <2>1. x \in ToSet(r.msgs) /\ x > 0
    BY <1>3, <1>6
  <2>2. x <= LastAssistant(r) /\ LastAssistant(r) \in Nat
    BY <2>1, LastAssistantIs
  <2> QED BY <2>1, <2>2
<1> QED BY <1>2, <1>4, <1>5, <1>6

LEMMA SameMessages ==
  ASSUME NEW r, NEW s, r.msgs = s.msgs
  PROVE  LastAssistant(r) = LastAssistant(s) /\ (AnsweredLast(r) <=> AnsweredLast(s))
BY DEF LastAssistant, AnsweredLast, Last

LEMMA NoSessionIs ==
  /\ NoSession \in SessionType /\ NoSession.id = 0 /\ NoSession.ver = 0 /\ NoSession.msgs = <<>>
  /\ NoSession.draft = FALSE /\ NoSession.status = "none"
  /\ LastAssistant(NoSession) = 0 /\ ~AnsweredLast(NoSession)
<1>1. /\ NoSession.id = 0 /\ NoSession.ver = 0 /\ NoSession.msgs = <<>>
      /\ NoSession.draft = FALSE /\ NoSession.status = "none"
  BY DEF NoSession
<1>2. NoSession \in SessionType
  BY DEF NoSession, SessionType
<1>3. ToSet(NoSession.msgs) = {}
  BY <1>1 DEF ToSet
<1>4. LastAssistant(NoSession) = 0
  BY <1>2, <1>3, LastAssistantIs
<1> QED BY <1>1, <1>2, <1>4 DEF AnsweredLast

\* The session there is: while nothing went wrong there is only one.
TheSession == onboarding[1]

Request == [kind : {"start", "get", "answer", "confirm"}, mounted : {TRUE},
            phase : {"sent", "read", "done"}, before : Nat, got : SessionType]

DialogTyped ==
    /\ onboarding \in Seq(SessionType) /\ Len(onboarding) <= 1
    /\ replying \in Seq(SessionType) /\ Len(replying) <= 1
    /\ session \in SessionType
    /\ prompts \in Nat /\ awaiting \in Nat /\ replies \in Nat
    /\ loading \in BOOLEAN
    /\ calls \subseteq Request

\* One start, answer or confirmation at a time, and the dialog is loading meanwhile.
OneRequest ==
    /\ \A c, d \in calls : c.kind # "get" /\ d.kind # "get" => c = d
    /\ loading <=> \E c \in calls : c.kind # "get"
    /\ \A c \in calls :
          /\ c.kind = "start" /\ c.phase # "done" => onboarding = <<>> /\ c.got = NoSession
          /\ c.kind = "start" /\ c.phase = "sent" => prompts = 0
          /\ c.kind = "start" /\ c.phase = "done" => c.got.ver > 0
          /\ c.kind \in {"answer", "confirm"} => onboarding # <<>>

\* What the dialog shows and is sent.
Views == {session} \cup ToSet(onboarding) \cup {c.got : c \in calls}

\* Each is the session as it was, and has a question only if the session still has.
ViewsOfSession ==
    \A v \in Views :
        /\ v.draft => LastAssistant(v) # 0
        /\ v.ver = 0 => v = NoSession
        /\ v.ver > 0 => /\ v.id = 1 /\ v.msgs # <<>>
                        /\ onboarding # <<>> /\ v.ver <= TheSession.ver
                        /\ LastAssistant(v) # 0 => LastAssistant(TheSession) # 0

\* One message is at the agent, and only while the user wrote last or an answer is on its
\* way.
OnePrompt ==
    /\ prompts > 0 => prompts = 1 /\ replying = <<>>
    /\ replying # <<>> => onboarding # <<>> /\ replying[1].id = 1
    /\ onboarding # <<>> => TheSession.ver > 0
    /\ (prompts > 0 \/ replying # <<>>) /\ onboarding # <<>> =>
          AnsweredLast(TheSession) \/ \E c \in calls : c.kind = "answer" /\ c.phase = "read"

WaitIsForShown == awaiting # 0 => LastAssistant(session) = awaiting

\* Of the views from version base on: those before one that the user answered are the same,
\* the others are, and an answered question is the one waited for.
Quiet(views, base, wait) ==
    \A u, v \in {x \in views : x.ver > 0 /\ x.ver >= base} :
        /\ AnsweredLast(u) /\ v.ver <= u.ver => v.msgs = u.msgs
        /\ ~AnsweredLast(u) /\ ~AnsweredLast(v) => u.msgs = v.msgs
        /\ AnsweredLast(u) /\ LastAssistant(u) # 0 => LastAssistant(u) = wait

\* While no answer is on its way this is so of what is not older than what is shown...
QuietUnanswered == (\A c \in calls : c.kind # "answer") => Quiet(Views, session.ver, awaiting)

\* ... and while one is, of what is not older than what it stored.
AnswerOnItsWay ==
    \A c \in calls : c.kind = "answer" =>
        /\ awaiting = 0 /\ c.before # 0
        /\ c.phase = "sent" => /\ prompts = 0 /\ replying = <<>>
                               /\ LastAssistant(TheSession) = c.before
        /\ c.phase # "sent" => c.got.ver > 0 /\ LastAssistant(c.got) = c.before
        /\ c.phase = "done" => AnsweredLast(c.got) /\ Quiet(Views, c.got.ver, c.before)

NothingAnsweredTwice ==
    /\ DialogTyped /\ OneRequest /\ ViewsOfSession /\ OnePrompt /\ WaitIsForShown
    /\ QuietUnanswered /\ AnswerOnItsWay

DialogInv == reoffer = {} => NothingAnsweredTwice

LEMMA LatestIs ==
  ASSUME DialogTyped
  PROVE  /\ onboarding = <<>> => Latest = NoSession /\ ToSet(onboarding) = {}
         /\ onboarding # <<>> => /\ onboarding = <<TheSession>> /\ TheSession \in SessionType
                                 /\ Latest = TheSession /\ ToSet(onboarding) = {TheSession}
<1>1. onboarding \in Seq(SessionType) /\ Len(onboarding) \in Nat /\ Len(onboarding) <= 1
      /\ DOMAIN onboarding = 1..Len(onboarding)
  BY DEF DialogTyped
<1>2. CASE onboarding = <<>>
  BY <1>2 DEF Latest, ToSet
<1>3. CASE onboarding # <<>>
  <2>1. Len(onboarding) = 1
    BY <1>1, <1>3
  <2>2. TheSession \in SessionType /\ onboarding = <<TheSession>>
    BY <1>1, <2>1 DEF TheSession
  <2>3. ToSet(onboarding) = {TheSession}
    BY <1>1, <2>1 DEF ToSet, TheSession
  <2>4. TheSession.ver \in Nat
    BY <2>2 DEF SessionType
  <2>5. Latest = TheSession
    BY <1>3, <2>3, <2>4 DEF Latest
  <2> QED BY <1>3, <2>2, <2>3, <2>5
<1> QED BY <1>2, <1>3

\* What Stored leaves of a first session, and of the session there is.
LEMMA StoredIs ==
  ASSUME DialogTyped, NEW s \in SessionType,
         (onboarding = <<>> /\ s.id = 0) \/ (onboarding # <<>> /\ s.id = 1)
  PROVE  \E r \in SessionType :
            /\ Stored(s) = <<r>>
            /\ r.id = 1 /\ r.msgs = s.msgs /\ r.draft = s.draft /\ r.status = s.status
            /\ r.ver = IF onboarding = <<>> THEN 1 ELSE TheSession.ver + 1
<1>1. Latest \in SessionType /\ Latest.ver \in Nat
  BY LatestIs, NoSessionIs DEF SessionType
<1> DEFINE r == [s EXCEPT !.id = IF @ = 0 THEN Len(onboarding) + 1 ELSE @, !.ver = Latest.ver + 1]
<1>2. CASE onboarding = <<>> /\ s.id = 0
  <2>1. Len(onboarding) = 0 /\ Latest.ver = 0
    BY <1>2, LatestIs, NoSessionIs
  <2>2. r = [s EXCEPT !.id = 1, !.ver = 1]
    BY <1>2, <2>1
  <2>3. Stored(s) = Append(onboarding, r)
    BY <1>2 DEF Stored
  <2> HIDE DEF r
  <2>4. r \in SessionType /\ r.id = 1 /\ r.msgs = s.msgs /\ r.draft = s.draft
        /\ r.status = s.status /\ r.ver = 1
    BY <2>2 DEF SessionType
  <2>5. Stored(s) = <<r>>
    BY <1>2, <2>3, <2>4
  <2> QED BY <1>2, <2>4, <2>5
<1>3. CASE onboarding # <<>> /\ s.id = 1
  <2>1. Latest = TheSession /\ onboarding = <<TheSession>> /\ TheSession \in SessionType
    BY <1>3, LatestIs
  <2>2. r = [s EXCEPT !.id = 1, !.ver = TheSession.ver + 1]
    BY <1>3, <2>1
  <2>3. Stored(s) = ReplaceAt(onboarding, 1, r)
    BY <1>3 DEF Stored
  <2> HIDE DEF r
  <2>4. r \in SessionType /\ r.id = 1 /\ r.msgs = s.msgs /\ r.draft = s.draft
        /\ r.status = s.status /\ r.ver = TheSession.ver + 1
    <3> DEFINE v == TheSession.ver + 1
    <3>1. v \in Nat
      BY <1>1, <2>1
    <3>2. r = [s EXCEPT !.id = 1, !.ver = v]
      BY <2>2
    <3> HIDE DEF v
    <3>3. r \in SessionType /\ r.id = 1 /\ r.msgs = s.msgs /\ r.draft = s.draft
          /\ r.status = s.status /\ r.ver = v
      BY <3>1, <3>2 DEF SessionType
    <3> QED BY <3>3 DEF v
  <2>5. Stored(s) = <<r>>
    BY <2>1, <2>3, <2>4 DEF ReplaceAt
  <2> QED BY <1>3, <2>4, <2>5
<1> QED BY <1>2, <1>3

\* Fewer views, and only newer ones, are as quiet.
LEMMA QuietMono ==
  ASSUME NEW V \in SUBSET SessionType, NEW W \in SUBSET V, NEW b \in Nat, NEW d \in Nat, b <= d,
         NEW w, Quiet(V, b, w)
  PROVE  Quiet(W, d, w)
<1>1. \A x \in W : x.ver \in Nat /\ x \in V
  BY DEF SessionType
<1>2. \A x \in W : x.ver >= d => x.ver >= b
  BY <1>1
<1> QED BY <1>1, <1>2 DEF Quiet

LEMMA DialogTypes ==
  ASSUME NothingAnsweredTwice
  PROVE  /\ DialogTyped
         /\ session \in SessionType /\ session.ver \in Nat /\ awaiting \in Nat /\ prompts \in Nat
         /\ replies \in Nat /\ loading \in BOOLEAN
         /\ onboarding \in Seq(SessionType) /\ replying \in Seq(SessionType)
         /\ Len(onboarding) <= 1 /\ Len(replying) <= 1
         /\ Views \subseteq SessionType /\ session \in Views
         /\ \A v \in Views : v.ver \in Nat
         /\ \A c \in calls :
               /\ c.kind \in {"start", "get", "answer", "confirm"} /\ c.mounted
               /\ c.phase \in {"sent", "read", "done"} /\ c.before \in Nat
               /\ c.got \in SessionType /\ c.got \in Views /\ c \in Request
         /\ onboarding # <<>> => /\ TheSession \in SessionType /\ TheSession \in Views
                                 /\ TheSession.ver \in Nat /\ TheSession.ver > 0
<1>1. /\ DialogTyped /\ onboarding \in Seq(SessionType) /\ session \in SessionType
      /\ prompts \in Nat /\ awaiting \in Nat /\ replies \in Nat /\ loading \in BOOLEAN
      /\ replying \in Seq(SessionType) /\ Len(onboarding) <= 1 /\ Len(replying) <= 1
  BY DEF NothingAnsweredTwice, DialogTyped
<1>2. \A c \in calls :
               /\ c.kind \in {"start", "get", "answer", "confirm"} /\ c.mounted
               /\ c.phase \in {"sent", "read", "done"} /\ c.before \in Nat
               /\ c.got \in SessionType /\ c \in Request
  <2> TAKE c \in calls
  <2>1. c \in Request
    BY DEF NothingAnsweredTwice, DialogTyped
  <2>2. c.mounted
    BY <2>1 DEF Request
  <2> QED BY <2>1, <2>2 DEF Request
<1>3. ToSet(onboarding) \subseteq SessionType
  BY <1>1, LatestIs
<1>4. Views \subseteq SessionType /\ session \in Views /\ \A c \in calls : c.got \in Views
  BY <1>1, <1>2, <1>3 DEF Views
<1>5. \A v \in Views : v.ver \in Nat
  BY <1>4 DEF SessionType
<1>6. ASSUME onboarding # <<>>
      PROVE  TheSession \in SessionType /\ TheSession \in Views /\ TheSession.ver > 0
  BY <1>1, <1>6, LatestIs DEF Views, NothingAnsweredTwice, OnePrompt
<1> QED BY <1>1, <1>2, <1>4, <1>5, <1>6

LEMMA DialogInitial == OnboardingInit => DialogInv
<1> SUFFICES ASSUME OnboardingInit PROVE NothingAnsweredTwice
  BY DEF DialogInv
<1> USE NoSessionIs
<1> DEFINE c == Call("start", NoSession)
<1>1. c = [kind |-> "start", phase |-> "sent", mounted |-> TRUE, before |-> 0, got |-> NoSession]
  BY DEF Call
<1>2. /\ onboarding = <<>> /\ prompts = 0 /\ replying = <<>> /\ session = NoSession /\ loading = TRUE
      /\ awaiting = 0 /\ replies = 0 /\ calls = {c}
  BY DEF OnboardingInit
<1> HIDE DEF c
<1>3. c.kind = "start" /\ c.phase = "sent" /\ c.got = NoSession
  BY <1>1
<1>4. DialogTyped
  <2>1. <<>> \in Seq(SessionType) /\ Len(<<>>) <= 1
    OBVIOUS
  <2>2. c \in Request
    BY <1>1 DEF Request
  <2>3. calls \subseteq Request
    BY <1>2, <2>2
  <2>4. session \in SessionType /\ prompts \in Nat /\ awaiting \in Nat /\ replies \in Nat /\ loading \in BOOLEAN
    BY <1>2
  <2>5. onboarding \in Seq(SessionType) /\ Len(onboarding) <= 1
        /\ replying \in Seq(SessionType) /\ Len(replying) <= 1
    BY <1>2, <2>1
  <2> QED BY <2>3, <2>4, <2>5 DEF DialogTyped
<1>5. Views = {NoSession}
  BY <1>2, <1>3, <1>4, LatestIs DEF Views
<1>6. OneRequest /\ OnePrompt /\ WaitIsForShown /\ AnswerOnItsWay
  BY <1>2, <1>3 DEF OneRequest, OnePrompt, WaitIsForShown, AnswerOnItsWay
<1>7. ViewsOfSession
  BY <1>5 DEF ViewsOfSession
<1>8. QuietUnanswered
  <2>1. Quiet(Views, session.ver, awaiting)
    BY <1>5 DEF Quiet
  <2> QED BY <2>1 DEF QuietUnanswered
<1> QED BY <1>4, <1>6, <1>7, <1>8 DEF NothingAnsweredTwice

LEMMA CallIs ==
  ASSUME NEW kind \in {"start", "get", "answer", "confirm"}, NEW s \in SessionType
  PROVE  /\ Call(kind, s) \in Request
         /\ Call(kind, s).kind = kind /\ Call(kind, s).phase = "sent"
         /\ Call(kind, s).got = NoSession /\ Call(kind, s).before = LastAssistant(s)
<1> DEFINE c == Call(kind, s)
           l == LastAssistant(s)
<1>1. l \in Nat
  BY LastAssistantIs
<1>2. c = [kind |-> kind, phase |-> "sent", mounted |-> TRUE, before |-> l, got |-> NoSession]
  BY DEF Call
<1> HIDE DEF l, c
<1>3. /\ c \in Request
      /\ c.kind = kind /\ c.phase = "sent" /\ c.got = NoSession /\ c.before = l
  BY <1>1, <1>2, NoSessionIs DEF Request
<1> QED BY <1>3 DEF l, c

\* A request that the server has read or answered.
Passed(c, p, g) == [c EXCEPT !.phase = p, !.got = g]

LEMMA PassedIs ==
  ASSUME NEW c \in Request, NEW p \in {"sent", "read", "done"}, NEW g \in SessionType
  PROVE  /\ Passed(c, p, g) \in Request /\ Passed(c, p, g).kind = c.kind
         /\ Passed(c, p, g).phase = p /\ Passed(c, p, g).got = g
         /\ Passed(c, p, g).before = c.before
BY DEF Request, Passed

LEMMA PollCallIs ==
  /\ Call("get", NoSession) \in Request
  /\ Call("get", NoSession).kind = "get" /\ Call("get", NoSession).got = NoSession
<1>1. "get" \in {"start", "get", "answer", "confirm"} /\ NoSession \in SessionType
  BY NoSessionIs
<1> QED BY <1>1, CallIs

\* A step of the requests only: the views are those there were, and the answers.
LEMMA RequestsOnly ==
  ASSUME NothingAnsweredTwice, DialogTyped', OneRequest',
         UNCHANGED <<onboarding, replying, session, awaiting>>,
         prompts' = prompts,
         Views' \subseteq Views \cup {NoSession},
         \A c : (c \in calls' /\ c.kind = "answer") <=> (c \in calls /\ c.kind = "answer")
  PROVE  NothingAnsweredTwice'
<1> USE DialogTypes, NoSessionIs
<1>1. TheSession' = TheSession
  BY DEF TheSession
<1>2. ViewsOfSession'
  BY <1>1 DEF ViewsOfSession, NothingAnsweredTwice
<1>3. OnePrompt' /\ WaitIsForShown'
  BY <1>1 DEF OnePrompt, WaitIsForShown, NothingAnsweredTwice
<1>4. \A b, w : Quiet(Views, b, w) => Quiet(Views', b, w)
  BY DEF Quiet
<1>5. QuietUnanswered'
  BY <1>4 DEF QuietUnanswered, NothingAnsweredTwice
<1>6. AnswerOnItsWay'
  BY <1>1, <1>4 DEF AnswerOnItsWay, NothingAnsweredTwice
<1> QED BY <1>2, <1>3, <1>5, <1>6 DEF NothingAnsweredTwice

LEMMA PollSteps ==
  ASSUME NothingAnsweredTwice, NEW c,
         PollSession \/ ConfirmGoal \/ (c \in calls /\ (ServeGet(c) \/ ConfirmAnswered(c)))
  PROVE  NothingAnsweredTwice'
<1> USE DialogTypes, NoSessionIs
<1>1. CASE PollSession
  <2> DEFINE d == Call("get", NoSession)
  <2>1. /\ calls' = calls \cup {d}
        /\ UNCHANGED <<onboarding, prompts, replying, session, loading, awaiting, dialogEvents,
                       replies, replyLost, reoffer>>
    BY <1>1 DEF PollSession
  <2>2. /\ d \in Request
        /\ d.kind = "get" /\ d.got = NoSession
    BY PollCallIs
  <2> HIDE DEF d
  <2>3. DialogTyped' /\ OneRequest'
    BY <2>1, <2>2 DEF DialogTyped, OneRequest, NothingAnsweredTwice
  <2>4. Views' \subseteq Views \cup {NoSession}
    BY <2>1, <2>2 DEF Views
  <2> QED BY <2>1, <2>2, <2>3, <2>4, RequestsOnly
<1>2. CASE ConfirmGoal
  <2> DEFINE d == Call("confirm", session)
  <2>1. /\ calls' = calls \cup {d} /\ session.draft /\ ~loading /\ loading'
        /\ UNCHANGED <<onboarding, prompts, replying, session, awaiting, replies, replyLost, reoffer>>
    BY <1>2 DEF ConfirmGoal
  <2>2. /\ d \in Request
        /\ d.kind = "confirm" /\ d.got = NoSession
    <3>1. session \in SessionType /\ "confirm" \in {"start", "get", "answer", "confirm"}
      OBVIOUS
    <3> HIDE DEF d
    <3> QED BY <3>1, CallIs DEF d
  <2> HIDE DEF d
  <2>3. onboarding # <<>>
    <3>1. session.ver # 0
      BY <2>1 DEF ViewsOfSession, NothingAnsweredTwice
    <3> QED BY <3>1 DEF ViewsOfSession, NothingAnsweredTwice
  <2>4. \A e \in calls : e.kind = "get"
    BY <2>1 DEF OneRequest, NothingAnsweredTwice
  <2>5. loading' = TRUE
    BY <1>2 DEF ConfirmGoal
  <2>6. DialogTyped'
    BY <2>1, <2>2, <2>5 DEF DialogTyped, NothingAnsweredTwice
  <2>7. OneRequest'
    BY <2>1, <2>2, <2>3, <2>4, <2>5 DEF OneRequest, NothingAnsweredTwice
  <2>8. Views' \subseteq Views \cup {NoSession}
    BY <2>1, <2>2 DEF Views
  <2> QED BY <2>1, <2>2, <2>6, <2>7, <2>8, RequestsOnly
<1>3. CASE c \in calls /\ ServeGet(c)
  <2> DEFINE l == Latest
             d == Passed(c, "done", l)
  <2>1. /\ c \in calls /\ c.kind = "get" /\ calls' = (calls \ {c}) \cup {d}
        /\ UNCHANGED <<onboarding, prompts, replying, session, loading, awaiting, dialogEvents,
                       replies, replyLost, reoffer>>
    BY <1>3 DEF ServeGet, Replace, Passed
  <2>2. l \in SessionType /\ l \in Views \cup {NoSession}
    BY LatestIs
  <2> HIDE DEF l
  <2>3. /\ d \in Request
        /\ d.kind = "get" /\ d.got = l
    <3>1. c \in Request /\ "done" \in {"sent", "read", "done"} /\ l \in SessionType
      BY <2>1, <2>2
    <3>2. d \in Request /\ d.kind = c.kind
      BY <3>1, PassedIs
    <3>3. d.got = l
      BY <3>1, PassedIs
    <3> QED BY <2>1, <3>2, <3>3
  <2> HIDE DEF d
  <2>4. DialogTyped'
    BY <2>1, <2>3 DEF DialogTyped, NothingAnsweredTwice
  <2>5. OneRequest'
    BY <2>1, <2>3 DEF OneRequest, NothingAnsweredTwice
  <2>6. Views' \subseteq Views \cup {NoSession}
    BY <2>1, <2>2, <2>3 DEF Views
  <2> QED BY <2>1, <2>3, <2>4, <2>5, <2>6, RequestsOnly
<1>4. CASE c \in calls /\ ConfirmAnswered(c)
  <2>1. /\ c \in calls /\ c.kind = "confirm" /\ calls' = {} /\ loading' = FALSE
        /\ UNCHANGED <<onboarding, prompts, replying, session, awaiting, replies, replyLost, reoffer>>
    BY <1>4 DEF ConfirmAnswered
  <2>2. \A e \in calls : e.kind # "answer"
    BY <2>1 DEF OneRequest, NothingAnsweredTwice
  <2>3. DialogTyped' /\ OneRequest'
    BY <2>1 DEF DialogTyped, OneRequest, NothingAnsweredTwice
  <2>4. Views' \subseteq Views \cup {NoSession}
    BY <2>1 DEF Views
  <2> QED BY <2>1, <2>2, <2>3, <2>4, RequestsOnly
<1> QED BY <1>1, <1>2, <1>3, <1>4

\* A view not older than what is shown is shown instead.
LEMMA ViewShown ==
  ASSUME NothingAnsweredTwice, NEW c \in calls, c.kind \in {"get", "start"},
         calls' = calls \ {c}, c.got.ver > 0, c.got.ver >= session.ver, Show(c.got, awaiting),
         OneRequest', loading' \in BOOLEAN,
         UNCHANGED <<onboarding, prompts, replying, replies>>
  PROVE  NothingAnsweredTwice'
<1> USE DialogTypes, NoSessionIs
<1> DEFINE s == c.got
<1>1. /\ session' = s /\ s \in Views /\ s \in SessionType /\ s.ver \in Nat
      /\ awaiting' = IF LastAssistant(s) = awaiting THEN awaiting ELSE 0
  BY DEF Show
<1>2. TheSession' = TheSession
  BY DEF TheSession
<1>3. DialogTyped'
  <2>1. session' \in SessionType /\ awaiting' \in Nat
    BY <1>1
  <2> QED BY <2>1 DEF DialogTyped, NothingAnsweredTwice
<1>4. Views' \subseteq Views
  BY <1>1 DEF Views
<1>5. ViewsOfSession'
  BY <1>2, <1>4 DEF ViewsOfSession, NothingAnsweredTwice
<1>6. OnePrompt' /\ WaitIsForShown'
  <2>1. \A d : (d \in calls' /\ d.kind = "answer") <=> (d \in calls /\ d.kind = "answer")
    OBVIOUS
  <2>2. OnePrompt'
    BY <1>2, <2>1 DEF OnePrompt, NothingAnsweredTwice
  <2>3. WaitIsForShown'
    BY <1>1 DEF WaitIsForShown
  <2> QED BY <2>2, <2>3
<1>7. QuietUnanswered'
  <2> SUFFICES ASSUME \A d \in calls' : d.kind # "answer" PROVE Quiet(Views', s.ver, awaiting')
    BY <1>1 DEF QuietUnanswered
  <2>1. Quiet(Views, session.ver, awaiting)
    BY DEF QuietUnanswered, NothingAnsweredTwice
  <2>2. Quiet(Views', s.ver, awaiting)
    BY <1>1, <1>4, <2>1, QuietMono
  <2>3. ASSUME NEW u \in Views', u.ver > 0, u.ver >= s.ver, AnsweredLast(u), LastAssistant(u) # 0
        PROVE  LastAssistant(u) = awaiting'
    <3>1. u \in Views /\ u.ver >= session.ver
      BY <1>1, <1>4, <2>3
    <3>2. s.msgs = u.msgs /\ LastAssistant(u) = awaiting
      BY <1>1, <2>1, <2>3, <3>1 DEF Quiet
    <3>3. LastAssistant(s) = LastAssistant(u)
      BY <3>2, SameMessages
    <3> QED BY <1>1, <3>2, <3>3
  <2> QED BY <2>2, <2>3 DEF Quiet
<1>8. AnswerOnItsWay'
  <2> SUFFICES ASSUME NEW d \in calls', d.kind = "answer"
               PROVE  /\ awaiting' = 0 /\ d.before # 0
                      /\ d.phase = "sent" => /\ prompts = 0 /\ replying = <<>>
                                             /\ LastAssistant(TheSession) = d.before
                      /\ d.phase # "sent" => d.got.ver > 0 /\ LastAssistant(d.got) = d.before
                      /\ d.phase = "done" => AnsweredLast(d.got) /\ Quiet(Views', d.got.ver, d.before)
    BY <1>2 DEF AnswerOnItsWay
  <2>1. d \in calls /\ awaiting = 0
    BY DEF AnswerOnItsWay, NothingAnsweredTwice
  <2>2. awaiting' = 0
    BY <1>1, <2>1
  <2>3. ASSUME d.phase = "done" PROVE Quiet(Views', d.got.ver, d.before)
    <3>1. Quiet(Views, d.got.ver, d.before)
      BY <2>1, <2>3 DEF AnswerOnItsWay, NothingAnsweredTwice
    <3>2. d.got.ver \in Nat
      BY <2>1
    <3> QED BY <1>4, <3>1, <3>2, QuietMono
  <2> QED BY <2>1, <2>2, <2>3 DEF AnswerOnItsWay, NothingAnsweredTwice
<1> QED BY <1>3, <1>5, <1>6, <1>7, <1>8 DEF NothingAnsweredTwice

\* What is shown when the user answers is the session, and nothing is at the agent.
LEMMA SubmitStep == NothingAnsweredTwice /\ SubmitAnswer => NothingAnsweredTwice'
<1> SUFFICES ASSUME NothingAnsweredTwice, SubmitAnswer PROVE NothingAnsweredTwice'
  OBVIOUS
<1> USE DialogTypes, NoSessionIs
<1> DEFINE d == Call("answer", session)
<1>1. /\ HasQuestion /\ ~loading /\ ~IsAwaitingAgent /\ loading' = TRUE /\ awaiting' = 0
      /\ calls' = calls \cup {d}
      /\ UNCHANGED <<onboarding, prompts, replying, session, replies, replyLost, reoffer>>
  BY DEF SubmitAnswer
<1>2. /\ d \in Request
      /\ d.kind = "answer" /\ d.phase = "sent" /\ d.got = NoSession
      /\ d.before = LastAssistant(session)
  <2>1. session \in SessionType /\ "answer" \in {"start", "get", "answer", "confirm"}
    OBVIOUS
  <2> HIDE DEF d
  <2> QED BY <2>1, CallIs DEF d
<1> HIDE DEF d
<1>3. awaiting = 0
  BY <1>1 DEF IsAwaitingAgent, WaitIsForShown, NothingAnsweredTwice
<1>4. LastAssistant(session) # 0
  BY <1>1 DEF HasQuestion, ViewsOfSession, NothingAnsweredTwice
<1>5. /\ session.ver > 0 /\ onboarding # <<>> /\ session.ver <= TheSession.ver
      /\ LastAssistant(TheSession) # 0
  <2>1. session.ver > 0
    BY <1>4 DEF ViewsOfSession, NothingAnsweredTwice
  <2> QED BY <1>4, <2>1 DEF ViewsOfSession, NothingAnsweredTwice
<1>6. \A e \in calls : e.kind = "get"
  BY <1>1 DEF OneRequest, NothingAnsweredTwice
<1>7. Quiet(Views, session.ver, 0)
  BY <1>3, <1>6 DEF QuietUnanswered, NothingAnsweredTwice
<1>8. ~AnsweredLast(TheSession) /\ LastAssistant(TheSession) = LastAssistant(session)
  <2>1. ~AnsweredLast(TheSession) /\ ~AnsweredLast(session)
    BY <1>4, <1>5, <1>7 DEF Quiet
  <2>2. TheSession.msgs = session.msgs
    BY <1>5, <1>7, <2>1 DEF Quiet
  <2> QED BY <2>1, <2>2, SameMessages
<1>9. prompts = 0 /\ replying = <<>>
  BY <1>5, <1>6, <1>8 DEF OnePrompt, NothingAnsweredTwice
<1>10. TheSession' = TheSession
  BY <1>1 DEF TheSession
<1>11. DialogTyped'
  BY <1>1, <1>2 DEF DialogTyped, NothingAnsweredTwice
<1>12. OneRequest'
  BY <1>1, <1>2, <1>5, <1>6 DEF OneRequest, NothingAnsweredTwice
<1>13. Views' \subseteq Views \cup {NoSession}
  BY <1>1, <1>2 DEF Views
<1>14. ViewsOfSession'
  BY <1>1, <1>10, <1>13 DEF ViewsOfSession, NothingAnsweredTwice
<1>15. OnePrompt' /\ WaitIsForShown'
  BY <1>1, <1>9, <1>10 DEF OnePrompt, WaitIsForShown, NothingAnsweredTwice
<1>16. QuietUnanswered'
  BY <1>1, <1>2 DEF QuietUnanswered
<1>17. AnswerOnItsWay'
  BY <1>1, <1>2, <1>4, <1>6, <1>8, <1>9, <1>10 DEF AnswerOnItsWay
<1> QED BY <1>11, <1>12, <1>14, <1>15, <1>16, <1>17 DEF NothingAnsweredTwice

LEMMA AnswerShown ==
  ASSUME NothingAnsweredTwice, NEW c \in calls, AnswerAnswered(c), c.got.ver >= session.ver
  PROVE  NothingAnsweredTwice'
<1> USE DialogTypes, NoSessionIs
<1> DEFINE s == c.got
<1>1. /\ c.kind = "answer" /\ c.phase = "done" /\ calls' = calls \ {c}
      /\ session' = s /\ loading' = FALSE
      /\ awaiting' = IF LastAssistant(s) = c.before THEN c.before ELSE 0
      /\ UNCHANGED <<onboarding, prompts, replying, dialogEvents, replies, replyLost>>
  BY DEF AnswerAnswered, Show
<1>2. LastAssistant(s) = c.before /\ Quiet(Views, s.ver, c.before)
  BY <1>1 DEF AnswerOnItsWay, NothingAnsweredTwice
<1>3. awaiting' = c.before /\ s \in Views /\ s \in SessionType /\ s.ver \in Nat
  BY <1>1, <1>2
<1>4. \A e \in calls' : e.kind = "get"
  BY <1>1 DEF OneRequest, NothingAnsweredTwice
<1>5. TheSession' = TheSession
  BY <1>1 DEF TheSession
<1>6. DialogTyped'
  <2>1. session' \in SessionType /\ awaiting' \in Nat
    BY <1>1, <1>3
  <2> QED BY <1>1, <2>1 DEF DialogTyped, NothingAnsweredTwice
<1>7. OneRequest'
  BY <1>1, <1>4 DEF OneRequest, NothingAnsweredTwice
<1>8. Views' \subseteq Views
  BY <1>1, <1>3 DEF Views
<1>9. ViewsOfSession'
  BY <1>1, <1>5, <1>8 DEF ViewsOfSession, NothingAnsweredTwice
<1>10. OnePrompt'
  <2>1. \A e \in calls : e.kind = "answer" => e.phase = "done"
    BY <1>1 DEF OneRequest, NothingAnsweredTwice
  <2> QED BY <1>1, <1>5, <2>1 DEF OnePrompt, NothingAnsweredTwice
<1>11. WaitIsForShown' /\ AnswerOnItsWay'
  BY <1>1, <1>2, <1>3, <1>4 DEF WaitIsForShown, AnswerOnItsWay
<1>12. QuietUnanswered'
  <2>1. Quiet(Views', s.ver, c.before)
    BY <1>2, <1>3, <1>8, QuietMono
  <2> QED BY <1>1, <1>3, <2>1 DEF QuietUnanswered
<1> QED BY <1>6, <1>7, <1>9, <1>10, <1>11, <1>12 DEF NothingAnsweredTwice

LEMMA StartStep ==
  ASSUME NothingAnsweredTwice, NEW c \in calls, StartReads(c) \/ StartCommits(c)
  PROVE  NothingAnsweredTwice'
<1> USE DialogTypes, NoSessionIs
<1>1. c.kind = "start" /\ c.phase # "done"
  BY DEF StartReads, StartCommits
<1>2. /\ onboarding = <<>> /\ c.got = NoSession /\ Latest = NoSession /\ ToSet(onboarding) = {}
      /\ replying = <<>>
  BY <1>1, LatestIs DEF OneRequest, OnePrompt, NothingAnsweredTwice
<1>3. \A e \in calls : e.kind # "get" => e = c
  BY <1>1 DEF OneRequest, NothingAnsweredTwice
<1>4. \A v \in Views : v = NoSession
  BY <1>2 DEF ViewsOfSession, NothingAnsweredTwice
<1>5. CASE StartReads(c)
  <2> DEFINE d == Passed(c, "read", NoSession)
  <2>1. c.phase = "sent" /\ {s \in ToSet(onboarding) : s.status = "active"} = {}
    BY <1>2, <1>5 DEF StartReads
  <2>2. prompts' = prompts + 1 /\ Replace(c, d)
    BY <1>5, <2>1 DEF StartReads, Passed
  <2>3. /\ prompts' = 1 /\ calls' = (calls \ {c}) \cup {d}
        /\ UNCHANGED <<onboarding, replying, session, loading, awaiting, dialogEvents, replies,
                       replyLost, reoffer>>
    <3>1. prompts = 0
      BY <1>1, <2>1 DEF OneRequest, NothingAnsweredTwice
    <3>2. UNCHANGED <<onboarding, replying, session, loading, awaiting, dialogEvents, replies,
                      replyLost, reoffer>>
      BY <1>5 DEF StartReads
    <3> HIDE DEF d
    <3> QED BY <2>2, <3>1, <3>2 DEF Replace
  <2>4. /\ d \in Request
        /\ d.kind = "start" /\ d.phase = "read" /\ d.got = NoSession
    <3>1. c \in Request /\ "read" \in {"sent", "read", "done"} /\ NoSession \in SessionType
      OBVIOUS
    <3>2. d \in Request /\ d.kind = c.kind
      BY <3>1, PassedIs
    <3>3. d.phase = "read" /\ d.got = NoSession
      BY <3>1, PassedIs
    <3> QED BY <1>1, <3>2, <3>3
  <2> HIDE DEF d
  <2>5. DialogTyped'
    BY <2>3, <2>4 DEF DialogTyped, NothingAnsweredTwice
  <2>6. OneRequest'
    BY <1>1, <1>2, <1>3, <2>3, <2>4 DEF OneRequest, NothingAnsweredTwice
  <2>7. Views' \subseteq Views \cup {NoSession}
    BY <2>3, <2>4 DEF Views
  <2>8. ViewsOfSession'
    BY <1>4, <2>7 DEF ViewsOfSession
  <2>9. OnePrompt' /\ WaitIsForShown' /\ AnswerOnItsWay'
    BY <1>1, <1>2, <1>3, <2>3, <2>4
       DEF OnePrompt, WaitIsForShown, AnswerOnItsWay, NothingAnsweredTwice
  <2>10. QuietUnanswered'
    <3>1. Quiet(Views', session'.ver, awaiting')
      BY <1>4, <2>7 DEF Quiet
    <3> QED BY <3>1 DEF QuietUnanswered
  <2> QED BY <2>5, <2>6, <2>8, <2>9, <2>10 DEF NothingAnsweredTwice
<1>6. CASE StartCommits(c)
  <2> DEFINE first == [NoSession EXCEPT !.msgs = <<0>>, !.status = "active"]
             d == Passed(c, "done", Latest')
  <2>1. /\ onboarding' = Stored(first) /\ calls' = (calls \ {c}) \cup {d}
        /\ UNCHANGED <<prompts, replying, session, loading, awaiting, dialogEvents, replies,
                       replyLost, reoffer>>
    BY <1>2, <1>6 DEF StartCommits, Replace, Passed
  <2>2. /\ first \in SessionType /\ first.id = 0 /\ first.msgs = <<0>> /\ first.draft = FALSE
    <3>1. <<0>> \in Seq(Nat)
      OBVIOUS
    <3> QED BY <3>1 DEF SessionType, NoSession
  <2> HIDE DEF first
  <2>3. PICK r \in SessionType : /\ onboarding' = <<r>> /\ r.id = 1 /\ r.msgs = <<0>>
                                 /\ r.draft = FALSE /\ r.ver = 1
    BY <1>2, <2>1, <2>2, StoredIs DEF NothingAnsweredTwice
  <2>4. AnsweredLast(r) /\ LastAssistant(r) = 0 /\ r.msgs # <<>>
    <3>1. r.msgs = Append(NoSession.msgs, 0)
      BY <2>3
    <3> QED BY <3>1, MessageAppended
  <2>5. TheSession' = r /\ Latest' = r /\ ToSet(onboarding') = {r}
    <3>1. TheSession' = r /\ ToSet(onboarding') = {r}
      BY <2>3 DEF TheSession, ToSet
    <3>2. r.ver <= r.ver
      BY <2>3
    <3>3. Latest' = r
      BY <2>3, <3>1, <3>2 DEF Latest
    <3> QED BY <3>1, <3>3
  <2>6. /\ d \in Request
        /\ d.kind = "start" /\ d.phase = "done" /\ d.got = r
    <3>1. c \in Request /\ "done" \in {"sent", "read", "done"} /\ Latest' \in SessionType
      BY <2>5
    <3> QED BY <1>1, <2>5, <3>1, PassedIs
  <2> HIDE DEF d
  <2>7. DialogTyped'
    BY <2>1, <2>3, <2>6 DEF DialogTyped, NothingAnsweredTwice
  <2>8. OneRequest'
    BY <1>1, <1>3, <2>1, <2>3, <2>6 DEF OneRequest, NothingAnsweredTwice
  <2>9. Views' \subseteq Views \cup {r}
    BY <2>1, <2>5, <2>6 DEF Views
  <2>10. \A v \in Views' : v = NoSession \/ v = r
    BY <1>4, <2>9
  <2>11. ViewsOfSession'
    <3>1. onboarding' # <<>> /\ 1 > 0 /\ r.ver <= r.ver
      BY <2>3
    <3>2. r.id = 1 /\ r.msgs # <<>> /\ r.ver > 0 /\ r.ver # 0 /\ ~r.draft
      BY <2>3, <2>4
    <3> QED BY <2>4, <2>5, <2>10, <3>1, <3>2 DEF ViewsOfSession
  <2>12. OnePrompt' /\ WaitIsForShown' /\ AnswerOnItsWay'
    BY <1>1, <1>2, <1>3, <2>1, <2>3, <2>4, <2>5, <2>6
       DEF OnePrompt, WaitIsForShown, AnswerOnItsWay, NothingAnsweredTwice
  <2>13. QuietUnanswered'
    <3>1. Quiet(Views', session'.ver, awaiting')
      BY <2>4, <2>10 DEF Quiet
    <3> QED BY <3>1 DEF QuietUnanswered
  <2> QED BY <2>7, <2>8, <2>11, <2>12, <2>13 DEF NothingAnsweredTwice
<1> QED BY <1>5, <1>6

\* The session is written: whatever is shown or on its way is older.
LEMMA SessionWritten ==
  ASSUME NothingAnsweredTwice, onboarding # <<>>, NEW r \in SessionType, onboarding' = <<r>>,
         r.id = 1, r.ver = TheSession.ver + 1, r.msgs # <<>>,
         LastAssistant(TheSession) # 0 => LastAssistant(r) # 0,
         r.draft => LastAssistant(r) # 0
  PROVE  /\ TheSession' = r /\ Latest' = r /\ ToSet(onboarding') = {r} /\ onboarding' # <<>>
         /\ onboarding' \in Seq(SessionType) /\ Len(onboarding') <= 1
         /\ r.ver > 0 /\ r.ver \in Nat
         /\ \A v \in Views : v.ver < r.ver
         /\ Views' \subseteq Views \cup {r} => ViewsOfSession'
<1> USE DialogTypes, NoSessionIs
<1>1. TheSession' = r /\ ToSet(onboarding') = {r} /\ onboarding' # <<>>
      /\ onboarding' \in Seq(SessionType) /\ Len(onboarding') <= 1
  BY DEF TheSession, ToSet
<1>2. r.ver > 0 /\ r.ver \in Nat
  OBVIOUS
<1>3. Latest' = r
  BY <1>1, <1>2 DEF Latest
<1>4. \A v \in Views : v.ver < r.ver
  <2> TAKE v \in Views
  <2>1. v.ver = 0 \/ v.ver <= TheSession.ver
    BY DEF ViewsOfSession, NothingAnsweredTwice
  <2> QED BY <1>2, <2>1
<1>5. ASSUME Views' \subseteq Views \cup {r} PROVE ViewsOfSession'
  <2>1. ASSUME NEW v \in Views', v = r
        PROVE  /\ v.draft => LastAssistant(v) # 0
               /\ v.ver = 0 => v = NoSession
               /\ v.ver > 0 => /\ v.id = 1 /\ v.msgs # <<>>
                               /\ v.ver <= r.ver
                               /\ LastAssistant(v) # 0 => LastAssistant(r) # 0
    BY <1>2, <2>1
  <2>2. ASSUME NEW v \in Views', v \in Views
        PROVE  /\ v.draft => LastAssistant(v) # 0
               /\ v.ver = 0 => v = NoSession
               /\ v.ver > 0 => /\ v.id = 1 /\ v.msgs # <<>>
                               /\ v.ver <= r.ver
                               /\ LastAssistant(v) # 0 => LastAssistant(r) # 0
    <3>1. v.ver <= r.ver
      BY <1>2, <1>4, <2>2
    <3> QED BY <2>2, <3>1 DEF ViewsOfSession, NothingAnsweredTwice
  <2> QED BY <1>1, <1>5, <2>1, <2>2 DEF ViewsOfSession
<1> QED BY <1>1, <1>2, <1>3, <1>4, <1>5

\* It stays quiet when the agent replies to what the user wrote last...
LEMMA QuietReply ==
  ASSUME NEW V \in SUBSET SessionType, NEW b \in Nat, NEW w, NEW old \in V, NEW r \in SessionType,
         Quiet(V, b, w), old.ver > 0, b <= old.ver, AnsweredLast(old), ~AnsweredLast(r),
         \A v \in V : v.ver <= old.ver /\ v.ver < r.ver
  PROVE  Quiet(V \cup {r}, b, w)
<1>1. \A v \in V \cup {r} : v.ver \in Nat /\ v \in SessionType
  BY DEF SessionType
<1>2. \A v \in V : v.ver > 0 /\ v.ver >= b => v.msgs = old.msgs
  BY <1>1 DEF Quiet
<1>3. \A v \in V : v.ver > 0 /\ v.ver >= b => AnsweredLast(v)
  BY <1>2, SameMessages
<1> SUFFICES ASSUME NEW u \in V \cup {r}, NEW v \in V \cup {r},
                    u.ver > 0, u.ver >= b, v.ver > 0, v.ver >= b
             PROVE  /\ AnsweredLast(u) /\ v.ver <= u.ver => v.msgs = u.msgs
                    /\ ~AnsweredLast(u) /\ ~AnsweredLast(v) => u.msgs = v.msgs
                    /\ AnsweredLast(u) /\ LastAssistant(u) # 0 => LastAssistant(u) = w
  BY DEF Quiet
<1>4. CASE u \in V /\ v \in V
  BY <1>4 DEF Quiet
<1>5. CASE u = r
  BY <1>3, <1>5
<1>6. CASE u \in V /\ v = r
  <2>1. ~(v.ver <= u.ver)
    BY <1>1, <1>6
  <2>2. AnsweredLast(u) /\ LastAssistant(u) # 0 => LastAssistant(u) = w
    BY <1>6 DEF Quiet
  <2> QED BY <1>3, <1>6, <2>1, <2>2
<1> QED BY <1>4, <1>5, <1>6

\* ... and when its messages stay the same.
LEMMA QuietSame ==
  ASSUME NEW V \in SUBSET SessionType, NEW b \in Nat, NEW w, NEW old \in V, NEW r \in SessionType,
         Quiet(V, b, w), old.ver > 0, b <= old.ver, r.msgs = old.msgs,
         \A v \in V : v.ver <= old.ver /\ v.ver < r.ver
  PROVE  Quiet(V \cup {r}, b, w)
<1>1. \A v \in V \cup {r} : v.ver \in Nat /\ v \in SessionType
  BY DEF SessionType
<1>2. LastAssistant(r) = LastAssistant(old) /\ (AnsweredLast(r) <=> AnsweredLast(old))
  BY SameMessages
<1> SUFFICES ASSUME NEW u \in V \cup {r}, NEW v \in V \cup {r},
                    u.ver > 0, u.ver >= b, v.ver > 0, v.ver >= b
             PROVE  /\ AnsweredLast(u) /\ v.ver <= u.ver => v.msgs = u.msgs
                    /\ ~AnsweredLast(u) /\ ~AnsweredLast(v) => u.msgs = v.msgs
                    /\ AnsweredLast(u) /\ LastAssistant(u) # 0 => LastAssistant(u) = w
  BY DEF Quiet
<1>3. CASE u \in V /\ v \in V
  BY <1>3 DEF Quiet
<1>4. CASE u = r /\ v = r
  <2>1. AnsweredLast(old) /\ LastAssistant(old) # 0 => LastAssistant(old) = w
    BY DEF Quiet
  <2> QED BY <1>2, <1>4, <2>1
<1>5. CASE u = r /\ v \in V
  <2>1. v.ver <= old.ver /\ old.ver >= b
    BY <1>1, <1>5
  <2>2. /\ AnsweredLast(old) => v.msgs = old.msgs
        /\ ~AnsweredLast(old) /\ ~AnsweredLast(v) => old.msgs = v.msgs
        /\ AnsweredLast(old) /\ LastAssistant(old) # 0 => LastAssistant(old) = w
    BY <1>1, <1>5, <2>1 DEF Quiet
  <2> QED BY <1>2, <1>5, <2>2
<1>6. CASE u \in V /\ v = r
  <2>1. ~(v.ver <= u.ver)
    BY <1>1, <1>6
  <2>2. /\ ~AnsweredLast(u) /\ ~AnsweredLast(old) => u.msgs = old.msgs
        /\ AnsweredLast(u) /\ LastAssistant(u) # 0 => LastAssistant(u) = w
    BY <1>1, <1>6 DEF Quiet
  <2> QED BY <1>2, <1>6, <2>1, <2>2
<1> QED BY <1>3, <1>4, <1>5, <1>6

LEMMA ConfirmStep ==
  ASSUME NothingAnsweredTwice, NEW c \in calls, ServeConfirm(c) PROVE NothingAnsweredTwice'
<1> USE DialogTypes, NoSessionIs
<1> DEFINE d == Passed(c, "done", c.got)
           next == [Latest EXCEPT !.status = "confirmed"]
<1>1. /\ c.kind = "confirm" /\ onboarding' = Stored(next)
      /\ calls' = (calls \ {c}) \cup {[c EXCEPT !.phase = "done"]}
      /\ UNCHANGED <<prompts, replying, session, loading, awaiting, dialogEvents, replies, replyLost,
                     reoffer>>
  BY DEF ServeConfirm, Replace
<1>2. [c EXCEPT !.phase = "done"] = d
  <2>1. c \in Request
    OBVIOUS
  <2> QED BY <2>1 DEF Passed, Request
<1>3. d \in Request /\ d.kind = c.kind /\ d.got = c.got
  <2>1. c \in Request /\ c.got \in SessionType /\ "done" \in {"sent", "read", "done"}
    OBVIOUS
  <2>2. d \in Request
    BY <2>1, PassedIs
  <2>3. d.kind = c.kind
    BY <2>1 DEF Passed, Request
  <2>4. d.got = c.got
    BY <2>1 DEF Passed, Request
  <2> QED BY <2>2, <2>3, <2>4
<1> HIDE DEF d
<1>4. onboarding # <<>> /\ \A e \in calls : e.kind # "get" => e = c
  BY <1>1 DEF OneRequest, NothingAnsweredTwice
<1>5. Latest = TheSession /\ TheSession \in SessionType /\ TheSession \in Views
  BY <1>4, LatestIs
<1>6. TheSession.id = 1 /\ TheSession.msgs # <<>> /\ TheSession.ver > 0
      /\ (TheSession.draft => LastAssistant(TheSession) # 0)
  BY <1>4 DEF ViewsOfSession, NothingAnsweredTwice
<1>7. /\ next \in SessionType /\ next.id = 1 /\ next.msgs = TheSession.msgs
      /\ next.draft = TheSession.draft
  BY <1>5, <1>6 DEF SessionType
<1> HIDE DEF next
<1>8. PICK r \in SessionType : /\ onboarding' = <<r>> /\ r.id = 1 /\ r.msgs = TheSession.msgs
                               /\ r.draft = TheSession.draft /\ r.ver = TheSession.ver + 1
  BY <1>1, <1>4, <1>7, StoredIs
<1>9. LastAssistant(r) = LastAssistant(TheSession) /\ (AnsweredLast(r) <=> AnsweredLast(TheSession))
  BY <1>8, SameMessages
<1>10. /\ TheSession' = r /\ ToSet(onboarding') = {r} /\ onboarding' # <<>>
       /\ onboarding' \in Seq(SessionType) /\ Len(onboarding') <= 1
       /\ r.ver > 0 /\ \A v \in Views : v.ver < r.ver
       /\ Views' \subseteq Views \cup {r} => ViewsOfSession'
  BY <1>4, <1>6, <1>8, <1>9, SessionWritten
<1>11. Views' \subseteq Views \cup {r}
  BY <1>1, <1>2, <1>3, <1>10 DEF Views
<1>12. DialogTyped'
  BY <1>1, <1>2, <1>3, <1>10 DEF DialogTyped
<1>13. OneRequest'
  BY <1>1, <1>2, <1>3, <1>4, <1>10 DEF OneRequest, NothingAnsweredTwice
<1>14. \A e \in calls' : e.kind # "answer"
  BY <1>1, <1>2, <1>3, <1>4
<1>15. OnePrompt' /\ WaitIsForShown' /\ AnswerOnItsWay'
  <2>1. \A e \in calls : e.kind # "answer"
    BY <1>1, <1>4
  <2>2. OnePrompt'
    BY <1>1, <1>4, <1>9, <1>10, <2>1 DEF OnePrompt, NothingAnsweredTwice
  <2>3. WaitIsForShown'
    BY <1>1 DEF WaitIsForShown, NothingAnsweredTwice
  <2> QED BY <1>14, <2>2, <2>3 DEF AnswerOnItsWay
<1>16. QuietUnanswered'
  <2>1. Quiet(Views, session.ver, awaiting)
    BY <1>1, <1>4 DEF QuietUnanswered, NothingAnsweredTwice
  <2>2. \A v \in Views : v.ver <= TheSession.ver
    BY <1>4, <1>6 DEF ViewsOfSession, NothingAnsweredTwice
  <2>3. Quiet(Views \cup {r}, session.ver, awaiting)
    BY <1>5, <1>6, <1>8, <1>10, <2>1, <2>2, QuietSame
  <2>4. Quiet(Views', session.ver, awaiting)
    <3>1. Views \cup {r} \in SUBSET SessionType
      OBVIOUS
    <3> QED BY <1>11, <2>3, <3>1, QuietMono
  <2> QED BY <1>1, <2>4 DEF QuietUnanswered
<1> QED BY <1>10, <1>11, <1>12, <1>13, <1>15, <1>16 DEF NothingAnsweredTwice

LEMMA DispatchStep ==
  ASSUME NothingAnsweredTwice, NEW c \in calls, Dispatch(c) PROVE NothingAnsweredTwice'
<1> USE DialogTypes, NoSessionIs
<1> DEFINE d == Passed(c, "read", Latest)
<1>1. /\ c.kind = "answer" /\ c.phase = "sent" /\ prompts' = prompts + 1
      /\ calls' = (calls \ {c}) \cup {d}
      /\ UNCHANGED <<onboarding, replying, session, loading, awaiting, dialogEvents, replies,
                     replyLost, reoffer>>
  BY DEF Dispatch, Replace, Passed
<1>2. /\ prompts = 0 /\ replying = <<>> /\ awaiting = 0 /\ c.before # 0
      /\ LastAssistant(TheSession) = c.before
  BY <1>1 DEF AnswerOnItsWay, NothingAnsweredTwice
<1>3. onboarding # <<>> /\ \A e \in calls : e.kind # "get" => e = c
  BY <1>1 DEF OneRequest, NothingAnsweredTwice
<1>4. Latest = TheSession /\ TheSession \in SessionType /\ TheSession \in Views /\ TheSession.ver > 0
  BY <1>3, LatestIs
<1>5. d \in Request /\ d.kind = "answer" /\ d.phase = "read" /\ d.got = TheSession
      /\ d.before = c.before
  <2>1. c \in Request /\ "read" \in {"sent", "read", "done"} /\ Latest \in SessionType
    BY <1>4
  <2>2. d \in Request /\ d.kind = c.kind /\ d.before = c.before
    BY <2>1, PassedIs
  <2>3. d.got = Latest /\ d.phase = "read"
    BY <2>1, PassedIs
  <2> QED BY <1>1, <1>4, <2>2, <2>3
<1> HIDE DEF d
<1>6. TheSession' = TheSession
  BY <1>1 DEF TheSession
<1>7. prompts' = 1
  BY <1>1, <1>2
<1>8. DialogTyped'
  BY <1>1, <1>5, <1>7 DEF DialogTyped
<1>9. OneRequest'
  BY <1>1, <1>3, <1>5 DEF OneRequest, NothingAnsweredTwice
<1>10. Views' \subseteq Views
  BY <1>1, <1>4, <1>5 DEF Views
<1>11. ViewsOfSession'
  BY <1>1, <1>6, <1>10 DEF ViewsOfSession, NothingAnsweredTwice
<1>12. OnePrompt'
  BY <1>1, <1>2, <1>4, <1>5, <1>6, <1>7 DEF OnePrompt
<1>13. WaitIsForShown' /\ QuietUnanswered'
  BY <1>1, <1>5 DEF WaitIsForShown, QuietUnanswered, NothingAnsweredTwice
<1>14. AnswerOnItsWay'
  BY <1>1, <1>2, <1>3, <1>4, <1>5 DEF AnswerOnItsWay
<1> QED BY <1>8, <1>9, <1>11, <1>12, <1>13, <1>14 DEF NothingAnsweredTwice

\* The answer is stored: nothing that is shown or on its way is newer.
LEMMA CommitStep ==
  ASSUME NothingAnsweredTwice, NEW c \in calls, Commit(c) PROVE NothingAnsweredTwice'
<1> USE DialogTypes, NoSessionIs
<1> DEFINE row == onboarding[c.got.id]
           next == [row EXCEPT !.msgs = Append(c.got.msgs, 0)]
           d == Passed(c, "done", Latest')
<1>1. /\ c.kind = "answer" /\ c.phase = "read" /\ onboarding' = Stored(next)
      /\ calls' = (calls \ {c}) \cup {d}
      /\ UNCHANGED <<prompts, replying, session, loading, awaiting, dialogEvents, replies, reoffer>>
  BY DEF Commit, Replace, Passed
<1>2. awaiting = 0 /\ c.before # 0 /\ c.got.ver > 0 /\ LastAssistant(c.got) = c.before
  BY <1>1 DEF AnswerOnItsWay, NothingAnsweredTwice
<1>3. onboarding # <<>> /\ \A e \in calls : e.kind # "get" => e = c
  BY <1>1 DEF OneRequest, NothingAnsweredTwice
<1>4. c.got.id = 1 /\ row = TheSession /\ TheSession \in SessionType /\ TheSession.id = 1
      /\ (TheSession.draft => LastAssistant(TheSession) # 0)
  <2>1. c.got.id = 1
    BY <1>2 DEF ViewsOfSession, NothingAnsweredTwice
  <2>2. row = TheSession
    BY <2>1 DEF TheSession
  <2> QED BY <1>3, <2>1, <2>2 DEF ViewsOfSession, NothingAnsweredTwice
<1>5. next \in SessionType /\ next.id = 1 /\ next.msgs = Append(c.got.msgs, 0)
  <2>1. c.got.msgs \in Seq(Nat)
    BY DEF SessionType
  <2>2. Append(c.got.msgs, 0) \in Seq(Nat)
    BY <2>1
  <2> QED BY <1>4, <2>2 DEF SessionType
<1> HIDE DEF next, row
<1>6. PICK r \in SessionType : /\ onboarding' = <<r>> /\ r.id = 1 /\ r.msgs = next.msgs
                               /\ r.ver = TheSession.ver + 1
  BY <1>1, <1>3, <1>5, StoredIs
<1>7. r.msgs # <<>> /\ AnsweredLast(r) /\ LastAssistant(r) = c.before
  <2>1. r.msgs = Append(c.got.msgs, 0) /\ c.got \in SessionType /\ 0 \in Nat
    BY <1>5, <1>6
  <2>2. r.msgs # <<>> /\ AnsweredLast(r)
    BY <2>1, MessageAppended
  <2>3. LastAssistant(r) = LastAssistant(c.got)
    BY <2>1, MessageAppended
  <2> QED BY <1>2, <2>2, <2>3
<1>8. /\ TheSession' = r /\ Latest' = r /\ ToSet(onboarding') = {r} /\ onboarding' # <<>>
      /\ onboarding' \in Seq(SessionType) /\ Len(onboarding') <= 1
      /\ r.ver > 0 /\ r.ver \in Nat /\ \A v \in Views : v.ver < r.ver
      /\ Views' \subseteq Views \cup {r} => ViewsOfSession'
  BY <1>2, <1>3, <1>6, <1>7, SessionWritten
<1>9. d \in Request /\ d.kind = "answer" /\ d.phase = "done" /\ d.got = r /\ d.before = c.before
  <2>1. c \in Request /\ "done" \in {"sent", "read", "done"} /\ Latest' \in SessionType
    BY <1>8
  <2>2. d \in Request /\ d.kind = c.kind /\ d.before = c.before
    BY <2>1, PassedIs
  <2>3. d.got = Latest' /\ d.phase = "done"
    BY <2>1, PassedIs
  <2> QED BY <1>1, <1>8, <2>2, <2>3
<1> HIDE DEF d
<1>10. Views' \subseteq Views \cup {r}
  BY <1>1, <1>8, <1>9 DEF Views
<1>11. DialogTyped'
  BY <1>1, <1>8, <1>9 DEF DialogTyped
<1>12. OneRequest'
  BY <1>1, <1>3, <1>8, <1>9 DEF OneRequest, NothingAnsweredTwice
<1>13. OnePrompt'
  BY <1>1, <1>3, <1>6, <1>7, <1>8 DEF OnePrompt, NothingAnsweredTwice
<1>14. WaitIsForShown' /\ QuietUnanswered'
  BY <1>1, <1>9 DEF WaitIsForShown, QuietUnanswered, NothingAnsweredTwice
<1>15. AnswerOnItsWay'
  <2>1. \A e \in calls' : e.kind = "answer" => e = d
    BY <1>1, <1>3
  <2>2. \A v \in Views' : v.ver >= r.ver => v = r
    BY <1>8, <1>10
  <2>3. Quiet(Views', r.ver, c.before)
    BY <1>7, <2>2 DEF Quiet
  <2> QED BY <1>1, <1>2, <1>7, <1>8, <1>9, <2>1, <2>3 DEF AnswerOnItsWay
<1> QED BY <1>8, <1>10, <1>11, <1>12, <1>13, <1>14, <1>15 DEF NothingAnsweredTwice

LEMMA AgentReadsStep == NothingAnsweredTwice /\ AgentReads => NothingAnsweredTwice'
<1> SUFFICES ASSUME NothingAnsweredTwice, AgentReads PROVE NothingAnsweredTwice'
  OBVIOUS
<1> USE DialogTypes, NoSessionIs
<1>1. /\ prompts > 0 /\ replying = <<>> /\ prompts' = prompts - 1
      /\ replying' = <<>> \/ (Latest.status # "none" /\ replying' = <<Latest>>)
      /\ UNCHANGED <<onboarding, session, loading, awaiting, calls, dialogEvents, replies, reoffer>>
  BY DEF AgentReads
<1>2. prompts' = 0
  BY <1>1 DEF OnePrompt, NothingAnsweredTwice
<1>3. TheSession' = TheSession /\ Views' = Views
  BY <1>1 DEF TheSession, Views
<1>4. replying' # <<>> => /\ onboarding # <<>> /\ replying' = <<TheSession>>
                          /\ TheSession \in SessionType /\ TheSession.id = 1
  <2> SUFFICES ASSUME replying' # <<>>
               PROVE  /\ onboarding # <<>> /\ replying' = <<TheSession>>
                      /\ TheSession \in SessionType /\ TheSession.id = 1
    OBVIOUS
  <2>1. Latest.status # "none" /\ replying' = <<Latest>>
    BY <1>1
  <2>2. onboarding # <<>>
    BY <2>1, LatestIs
  <2> QED BY <2>1, <2>2, LatestIs DEF ViewsOfSession, NothingAnsweredTwice
<1>5. replying' \in Seq(SessionType) /\ Len(replying') <= 1
      /\ (replying' # <<>> => replying'[1].id = 1)
  <2>1. CASE replying' = <<>>
    BY <2>1
  <2>2. CASE replying' # <<>>
    BY <1>4, <2>2
  <2> QED BY <2>1, <2>2
<1>6. DialogTyped' /\ OneRequest'
  BY <1>1, <1>2, <1>5 DEF DialogTyped, OneRequest, NothingAnsweredTwice
<1>7. ViewsOfSession' /\ WaitIsForShown'
  BY <1>1, <1>3 DEF ViewsOfSession, WaitIsForShown, NothingAnsweredTwice
<1>8. OnePrompt'
  BY <1>1, <1>2, <1>3, <1>4, <1>5 DEF OnePrompt, NothingAnsweredTwice
<1>9. QuietUnanswered'
  BY <1>1, <1>3 DEF QuietUnanswered, NothingAnsweredTwice
<1>10. AnswerOnItsWay'
  BY <1>1, <1>3 DEF AnswerOnItsWay, NothingAnsweredTwice
<1> QED BY <1>6, <1>7, <1>8, <1>9, <1>10 DEF NothingAnsweredTwice

LEMMA AgentCommitsStep == NothingAnsweredTwice /\ AgentCommits => NothingAnsweredTwice'
<1> SUFFICES ASSUME NothingAnsweredTwice, AgentCommits PROVE NothingAnsweredTwice'
  OBVIOUS
<1> USE DialogTypes, NoSessionIs
<1> DEFINE row == onboarding[replying[1].id]
<1>1. PICK complete \in BOOLEAN :
        /\ replying # <<>> /\ replying' = <<>> /\ replies' = replies + 1
        /\ onboarding' = Stored([row EXCEPT !.msgs = Append(replying[1].msgs, replies + 1),
                                            !.draft = @ \/ complete,
                                            !.status = IF complete THEN "completed" ELSE @])
        /\ UNCHANGED <<prompts, session, loading, awaiting, calls, dialogEvents, replyLost, reoffer>>
  BY DEF AgentCommits
<1>2. /\ onboarding # <<>> /\ replying[1].id = 1 /\ prompts = 0
      /\ AnsweredLast(TheSession) \/ \E c \in calls : c.kind = "answer" /\ c.phase = "read"
  BY <1>1 DEF OnePrompt, NothingAnsweredTwice
<1>3. row = TheSession /\ TheSession \in SessionType /\ TheSession \in Views /\ TheSession.ver > 0
      /\ TheSession.id = 1 /\ TheSession.draft \in BOOLEAN
  <2>1. row = TheSession
    BY <1>2 DEF TheSession
  <2>2. TheSession \in SessionType /\ TheSession \in Views /\ TheSession.ver > 0
    BY <1>2
  <2> QED BY <2>1, <2>2 DEF ViewsOfSession, NothingAnsweredTwice, SessionType
<1>4. replying[1] \in SessionType
  BY <1>1
<1> DEFINE next == [TheSession EXCEPT !.msgs = Append(replying[1].msgs, replies + 1),
                                      !.draft = @ \/ complete,
                                      !.status = IF complete THEN "completed" ELSE @]
           msgs == Append(replying[1].msgs, replies + 1)
<1>5. onboarding' = Stored(next)
  BY <1>1, <1>3
<1>6. msgs \in Seq(Nat)
  <2>1. replying[1].msgs \in Seq(Nat) /\ replies + 1 \in Nat
    BY <1>4 DEF SessionType
  <2> QED BY <2>1
<1>7. next \in SessionType /\ next.id = 1 /\ next.msgs = msgs
  <2> DEFINE draft == TheSession.draft \/ complete
             status == IF complete THEN "completed" ELSE TheSession.status
  <2>1. draft \in BOOLEAN /\ status \in {"none", "active", "completed", "confirmed"}
    <3>1. TheSession.status \in {"none", "active", "completed", "confirmed"}
      BY <1>3 DEF SessionType
    <3> QED BY <3>1
  <2>2. next = [TheSession EXCEPT !.msgs = msgs, !.draft = draft, !.status = status]
    BY <1>3 DEF SessionType
  <2> HIDE DEF next, msgs, draft, status
  <2> QED BY <1>3, <1>6, <2>1, <2>2 DEF SessionType
<1> HIDE DEF next, row
<1>8. PICK r \in SessionType : /\ onboarding' = <<r>> /\ r.id = 1 /\ r.msgs = next.msgs
                               /\ r.ver = TheSession.ver + 1
  BY <1>2, <1>5, <1>7, StoredIs
<1>9. r.msgs # <<>> /\ ~AnsweredLast(r) /\ LastAssistant(r) # 0
  <2>1. r.msgs = Append(replying[1].msgs, replies + 1) /\ replies + 1 \in Nat /\ replies + 1 # 0
    BY <1>7, <1>8
  <2> QED BY <1>4, <2>1, MessageAppended
<1> HIDE DEF msgs
<1>10. /\ TheSession' = r /\ ToSet(onboarding') = {r} /\ onboarding' # <<>>
       /\ onboarding' \in Seq(SessionType) /\ Len(onboarding') <= 1
       /\ r.ver > 0 /\ r.ver \in Nat /\ \A v \in Views : v.ver < r.ver
       /\ Views' \subseteq Views \cup {r} => ViewsOfSession'
  BY <1>2, <1>8, <1>9, SessionWritten
<1>11. Views' \subseteq Views \cup {r}
  BY <1>1, <1>10 DEF Views
<1>12. DialogTyped'
  BY <1>1, <1>10 DEF DialogTyped
<1>13. OneRequest'
  BY <1>1, <1>2, <1>10 DEF OneRequest, NothingAnsweredTwice
<1>14. OnePrompt' /\ WaitIsForShown'
  BY <1>1, <1>2, <1>10 DEF OnePrompt, WaitIsForShown, NothingAnsweredTwice
<1>15. \A v \in Views : v.ver <= TheSession.ver /\ v.ver < r.ver
  BY <1>2, <1>3, <1>10 DEF ViewsOfSession, NothingAnsweredTwice
<1>16. ASSUME AnsweredLast(TheSession), NEW b \in Nat, b <= TheSession.ver, NEW w, Quiet(Views, b, w)
       PROVE  Quiet(Views', b, w)
  <2>1. Quiet(Views \cup {r}, b, w)
    BY <1>3, <1>9, <1>15, <1>16, QuietReply
  <2>2. Views \cup {r} \in SUBSET SessionType
    OBVIOUS
  <2> QED BY <1>11, <2>1, <2>2, QuietMono
<1>17. QuietUnanswered'
  <2> SUFFICES ASSUME \A c \in calls : c.kind # "answer" PROVE Quiet(Views', session.ver, awaiting)
    BY <1>1 DEF QuietUnanswered
  <2>1. AnsweredLast(TheSession)
    BY <1>2
  <2>2. Quiet(Views, session.ver, awaiting)
    BY DEF QuietUnanswered, NothingAnsweredTwice
  <2>3. session.ver \in Nat /\ session.ver <= TheSession.ver
    BY <1>15
  <2> QED BY <1>16, <2>1, <2>2, <2>3
<1>18. AnswerOnItsWay'
  <2> SUFFICES ASSUME NEW c \in calls, c.kind = "answer"
               PROVE  /\ awaiting = 0 /\ c.before # 0
                      /\ c.phase = "sent" => /\ prompts = 0 /\ replying' = <<>>
                                             /\ LastAssistant(r) = c.before
                      /\ c.phase # "sent" => c.got.ver > 0 /\ LastAssistant(c.got) = c.before
                      /\ c.phase = "done" => AnsweredLast(c.got) /\ Quiet(Views', c.got.ver, c.before)
    BY <1>1, <1>10 DEF AnswerOnItsWay
  <2>1. c.phase # "sent"
    BY <1>1 DEF AnswerOnItsWay, NothingAnsweredTwice
  <2>2. ASSUME c.phase = "done" PROVE Quiet(Views', c.got.ver, c.before)
    <3>1. AnsweredLast(TheSession)
      BY <1>2, <2>2 DEF OneRequest, NothingAnsweredTwice
    <3>2. Quiet(Views, c.got.ver, c.before)
      BY <2>2 DEF AnswerOnItsWay, NothingAnsweredTwice
    <3>3. c.got.ver \in Nat /\ c.got.ver <= TheSession.ver
      BY <1>15
    <3> QED BY <1>16, <3>1, <3>2, <3>3
  <2> QED BY <2>1, <2>2 DEF AnswerOnItsWay, NothingAnsweredTwice
<1> QED BY <1>10, <1>11, <1>12, <1>13, <1>14, <1>17, <1>18 DEF NothingAnsweredTwice

LEMMA DialogStep == DialogInv /\ [OnboardingNext]_onboardingVars => DialogInv'
<1> SUFFICES ASSUME DialogInv, [OnboardingNext]_onboardingVars, reoffer' = {}
             PROVE  NothingAnsweredTwice'
  BY DEF DialogInv
<1>1. ASSUME Reopen \/ OnboardingFailures PROVE FALSE
  BY <1>1 DEF Reopen, OnboardingFailures, CallFails
<1>2. reoffer = {}
  <2>1. CASE OnboardingNext
    BY <1>1, <2>1
       DEF OnboardingNext, PollSession, SubmitAnswer, ConfirmGoal, OnboardingServer, ServeGet,
           StartReads, StartCommits, Dispatch, Commit, ServeConfirm, OnboardingAnswers, GetAnswered,
           StartAnswered, AnswerAnswered, ConfirmAnswered, OrphanAnswered, OnboardingAgent,
           AgentReads, AgentCommits
  <2>2. CASE UNCHANGED onboardingVars
    BY <2>2 DEF onboardingVars
  <2> QED BY <2>1, <2>2
<1>3. NothingAnsweredTwice
  BY <1>2 DEF DialogInv
<1>4. /\ \A c \in calls : c.mounted /\ c.got \in SessionType /\ c.got.ver \in Nat
      /\ session.ver \in Nat /\ loading \in BOOLEAN
  BY <1>3, DialogTypes
<1>5. ASSUME NEW c \in calls, GetAnswered(c) PROVE NothingAnsweredTwice'
  <2>1. /\ c.kind = "get" /\ calls' = calls \ {c}
        /\ UNCHANGED <<onboarding, prompts, replying, loading, dialogEvents, replies, replyLost>>
    BY <1>5 DEF GetAnswered
  <2>2. c.got.ver >= session.ver
    BY <1>4, <1>5 DEF GetAnswered
  <2>3. OneRequest'
    BY <1>3, <2>1 DEF OneRequest, NothingAnsweredTwice
  <2>4. CASE c.got = NoSession
    <3>1. UNCHANGED <<session, awaiting>>
      BY <1>5, <2>4 DEF GetAnswered
    <3>2. DialogTyped'
      BY <1>3, <2>1, <3>1 DEF DialogTyped, NothingAnsweredTwice
    <3>3. Views' \subseteq Views \cup {NoSession}
      BY <2>1, <3>1 DEF Views
    <3> QED BY <1>3, <2>1, <2>3, <3>1, <3>2, <3>3, RequestsOnly
  <2>5. CASE c.got # NoSession
    <3>1. c.got.ver > 0
      BY <1>3, <1>4, <2>5 DEF ViewsOfSession, Views, NothingAnsweredTwice
    <3>2. Show(c.got, awaiting)
      BY <1>5, <2>5 DEF GetAnswered
    <3> QED BY <1>3, <1>4, <2>1, <2>2, <2>3, <3>1, <3>2, ViewShown
  <2> QED BY <2>4, <2>5
<1>6. ASSUME NEW c \in calls, StartAnswered(c) PROVE NothingAnsweredTwice'
  <2>1. /\ c.kind = "start" /\ c.phase = "done" /\ calls' = calls \ {c} /\ Show(c.got, awaiting)
        /\ loading' = FALSE
        /\ UNCHANGED <<onboarding, prompts, replying, dialogEvents, replies, replyLost>>
    BY <1>6 DEF StartAnswered
  <2>2. c.got.ver >= session.ver
    BY <1>4, <1>6 DEF StartAnswered
  <2>3. OneRequest'
    BY <1>3, <2>1 DEF OneRequest, NothingAnsweredTwice
  <2>4. c.got.ver > 0
    BY <1>3, <2>1 DEF OneRequest, NothingAnsweredTwice
  <2> QED BY <1>3, <2>1, <2>2, <2>3, <2>4, ViewShown
<1>7. ASSUME NEW c \in calls, AnswerAnswered(c) PROVE NothingAnsweredTwice'
  <2>1. c.got.ver >= session.ver
    BY <1>4, <1>7 DEF AnswerAnswered
  <2> QED BY <1>3, <1>7, <2>1, AnswerShown
<1>8. ASSUME NEW c \in calls, OrphanAnswered(c) PROVE FALSE
  BY <1>4, <1>8 DEF OrphanAnswered
<1>9. ASSUME UNCHANGED onboardingVars PROVE NothingAnsweredTwice'
  <2>1. DialogTyped' /\ OneRequest'
    BY <1>3, <1>9 DEF DialogTyped, OneRequest, NothingAnsweredTwice, onboardingVars
  <2>2. Views' \subseteq Views \cup {NoSession}
    BY <1>9 DEF Views, onboardingVars
  <2> QED BY <1>3, <1>9, <2>1, <2>2, RequestsOnly DEF onboardingVars
<1>10. ASSUME OnboardingAnswers PROVE NothingAnsweredTwice'
  BY <1>3, <1>5, <1>6, <1>7, <1>8, <1>10, PollSteps DEF OnboardingAnswers
<1>11. ASSUME OnboardingServer PROVE NothingAnsweredTwice'
  BY <1>3, <1>11, PollSteps, StartStep, DispatchStep, CommitStep, ConfirmStep DEF OnboardingServer
<1>12. ASSUME PollSession \/ ConfirmGoal PROVE NothingAnsweredTwice'
  BY <1>3, <1>12, PollSteps
<1> QED BY <1>1, <1>3, <1>9, <1>10, <1>11, <1>12, SubmitStep, AgentReadsStep, AgentCommitsStep
        DEF OnboardingNext, OnboardingAgent

\* However often the user answers, the dialog polls and the agent replies: no question that
\* board-onboarding-chat.tsx got an answer to is offered again, unless a request of it failed,
\* it was reopened, or an older transcript came in last.
THEOREM QuestionsAnsweredOnce == OnboardingSpec => []OfferedQuestionIsOpen
<1>1. DialogInv => OfferedQuestionIsOpen
  <2> SUFFICES ASSUME NothingAnsweredTwice, HasQuestion, ~loading, ~IsAwaitingAgent,
                      AnsweredLast(session)
               PROVE  FALSE
    BY DEF DialogInv, OfferedQuestionIsOpen
  <2> USE DialogTypes
  <2>1. LastAssistant(session) # 0
    BY DEF HasQuestion, ViewsOfSession, NothingAnsweredTwice
  <2>2. session.ver > 0
    BY <2>1, NoSessionIs DEF ViewsOfSession, NothingAnsweredTwice
  <2>3. Quiet(Views, session.ver, awaiting)
    BY DEF OneRequest, QuietUnanswered, NothingAnsweredTwice
  <2>4. LastAssistant(session) = awaiting
    BY <2>1, <2>2, <2>3 DEF Quiet
  <2> QED BY <2>1, <2>4 DEF IsAwaitingAgent
<1> QED BY <1>1, DialogInitial, DialogStep, PTL DEF OnboardingSpec
-------------------------------------------------------------------------------
\* Sessions in the database are numbered; so is every one that a request holds.
Numbered(q) == q \in Seq(SessionType) /\ \A i \in 1..Len(q) : q[i].id \in 1..Len(q)
HeldOf(s, n) == s \in SessionType /\ s.id <= n /\ (s.id = 0 => s = NoSession)

AnyRequest == [mounted : BOOLEAN, kind : {"start", "get", "answer", "confirm"},
               phase : {"sent", "read", "done"}, before : Nat, got : SessionType]

\* The agent and an answer rewrite one of the n sessions there are.
RequestOf(c, n) ==
    /\ c \in AnyRequest /\ HeldOf(c.got, n)
    /\ c.kind = "answer" => n > 0 /\ (c.phase = "read" => c.got.id # 0)
ReplyOf(q, n) == q = <<>> \/ \E s \in SessionType : q = <<s>> /\ s.id \in 1..n

SessionsHeld ==
    /\ Numbered(onboarding)
    /\ ReplyOf(replying, Len(onboarding))
    /\ HeldOf(session, Len(onboarding))
    /\ \A c \in calls : RequestOf(c, Len(onboarding))
    /\ {prompts, awaiting, dialogEvents, replies} \subseteq Nat
    /\ {loading, replyLost} \subseteq BOOLEAN
    /\ reoffer \subseteq {"reopened", "stale", "failed"}

Newest(q) == IF q = <<>> THEN NoSession
             ELSE CHOOSE s \in ToSet(q) : \A r \in ToSet(q) : r.ver <= s.ver

LEMMA NewestIs ==
  ASSUME NEW q, Numbered(q)
  PROVE  /\ q = <<>> => Newest(q) = NoSession
         /\ q # <<>> => Newest(q) \in SessionType /\ Newest(q).id \in 1..Len(q)
<1> USE DEF Numbered
<1>1. CASE q = <<>>
  BY <1>1 DEF Newest
<1>2. CASE q # <<>>
  <2> DEFINE ver == [i \in 1..Len(q) |-> q[i].ver]
             S == {ver[i] : i \in 1..Len(q)}
  <2>1. Len(q) \in Nat \ {0} /\ DOMAIN q = 1..Len(q) /\ \A i \in 1..Len(q) : q[i] \in SessionType
    BY <1>2
  <2>2. \A i \in 1..Len(q) : ver[i] = q[i].ver /\ ver[i] \in Nat
    BY <2>1 DEF SessionType
  <2>3. IsFiniteSet(1..Len(q))
    BY <2>1, FS_Interval
  <2>4. ver \in Surjection(1..Len(q), S)
    BY DEF Surjection
  <2>5. IsFiniteSet(S)
    BY <2>3, <2>4, FS_Surjection
  <2>6. S \in SUBSET Nat /\ S # {}
    BY <2>1, <2>2
  <2> HIDE DEF ver
  <2>7. Max(S) \in S /\ \A x \in S : x <= Max(S)
    <3> HIDE DEF S
    <3> QED BY <2>5, <2>6, FiniteMaxIs
  <2>8. PICK i \in 1..Len(q) : Max(S) = ver[i]
    BY <2>7
  <2>9. \A j \in 1..Len(q) : q[j].ver <= q[i].ver
    BY <2>2, <2>7, <2>8
  <2>10. \E s \in ToSet(q) : \A r \in ToSet(q) : r.ver <= s.ver
    BY <2>1, <2>9 DEF ToSet
  <2>11. Newest(q) \in ToSet(q)
    BY <1>2, <2>10 DEF Newest
  <2>12. PICK k \in 1..Len(q) : Newest(q) = q[k]
    BY <2>1, <2>11 DEF ToSet
  <2> QED BY <1>2, <2>1, <2>12
<1> QED BY <1>1, <1>2

\* The row written keeps its number, a first one gets the next.
LEMMA StoredKept ==
  ASSUME Numbered(onboarding), NEW s \in SessionType, s.id <= Len(onboarding)
  PROVE  /\ Numbered(Stored(s)) /\ Stored(s) # <<>>
         /\ Len(onboarding) <= Len(Stored(s))
<1> DEFINE row == [s EXCEPT !.id = IF @ = 0 THEN Len(onboarding) + 1 ELSE @,
                            !.ver = Latest.ver + 1]
           n == Len(onboarding)
<1>1. /\ n \in Nat /\ s.id \in Nat /\ onboarding \in Seq(SessionType) /\ Latest = Newest(onboarding)
      /\ \A i \in 1..n : onboarding[i] \in SessionType /\ onboarding[i].id \in 1..n
  <2>1. s.id \in Nat
    BY DEF SessionType
  <2>2. Latest = Newest(onboarding)
    BY DEF Latest, Newest
  <2> QED BY <2>1, <2>2 DEF Numbered
<1>2. Latest.ver + 1 \in Nat
  <2>1. Latest \in SessionType
    BY <1>1, NewestIs, NoSessionIs
  <2> QED BY <2>1 DEF SessionType
<1>3. row \in SessionType /\ row.id = IF s.id = 0 THEN n + 1 ELSE s.id
  <2> DEFINE id == IF s.id = 0 THEN n + 1 ELSE s.id
             ver == Latest.ver + 1
  <2>1. id \in Nat /\ ver \in Nat
    BY <1>1, <1>2
  <2>2. row = [s EXCEPT !.id = id, !.ver = ver]
    OBVIOUS
  <2> HIDE DEF id, ver, row
  <2>3. row \in SessionType /\ row.id = id
    BY <2>1, <2>2 DEF SessionType
  <2> QED BY <2>3 DEF id
<1>4. Stored(s) = IF s.id = 0 THEN Append(onboarding, row) ELSE ReplaceAt(onboarding, s.id, row)
  BY DEF Stored
<1> HIDE DEF row
<1>5. CASE s.id = 0
  <2>1. /\ Len(Stored(s)) = n + 1 /\ Stored(s) \in Seq(SessionType)
        /\ \A i \in 1..(n + 1) : Stored(s)[i] = IF i = n + 1 THEN row ELSE onboarding[i]
    BY <1>1, <1>3, <1>4, <1>5
  <2>2. \A i \in 1..(n + 1) : Stored(s)[i].id \in 1..(n + 1)
    BY <1>1, <1>3, <1>5, <2>1
  <2> QED BY <1>1, <2>1, <2>2 DEF Numbered
<1>6. CASE s.id # 0
  <2>1. Stored(s) = [i \in 1..n |-> IF i = s.id THEN row ELSE onboarding[i]]
    <3>1. Stored(s) = [onboarding EXCEPT ![s.id] = row] /\ DOMAIN onboarding = 1..n
      BY <1>1, <1>4, <1>6 DEF ReplaceAt
    <3> QED BY <3>1
  <2>2. \A i \in 1..n : Stored(s)[i] \in SessionType /\ Stored(s)[i].id \in 1..n
    BY <1>1, <1>3, <1>6, <2>1
  <2>3. Stored(s) \in Seq(SessionType) /\ Len(Stored(s)) = n
    BY <1>1, <2>1, <2>2
  <2>4. Stored(s) # <<>>
    BY <1>1, <1>6, <2>3
  <2> QED BY <1>1, <2>2, <2>3, <2>4 DEF Numbered
<1> QED BY <1>5, <1>6

\* With more sessions they still do.
LEMMA HeldLonger ==
  ASSUME NEW n \in Nat, NEW m \in Nat, n <= m
  PROVE  /\ \A s : HeldOf(s, n) => HeldOf(s, m)
         /\ \A c : RequestOf(c, n) => RequestOf(c, m)
         /\ \A q : ReplyOf(q, n) => ReplyOf(q, m)
<1>1. \A s : HeldOf(s, n) => HeldOf(s, m)
  BY DEF HeldOf, SessionType
<1>2. \A c : RequestOf(c, n) => RequestOf(c, m)
  BY <1>1 DEF RequestOf
<1>3. \A q : ReplyOf(q, n) => ReplyOf(q, m)
  BY DEF ReplyOf
<1> QED BY <1>1, <1>2, <1>3

LEMMA NewCallOf ==
  ASSUME NEW k \in {"start", "get", "answer", "confirm"}, NEW s \in SessionType, NEW n \in Nat,
         k = "answer" => n > 0
  PROVE  RequestOf(Call(k, s), n)
<1>1. LastAssistant(s) \in Nat
  BY LastAssistantIs
<1>2. HeldOf(NoSession, n)
  BY NoSessionIs DEF HeldOf
<1>3. Call(k, s) \in AnyRequest /\ Call(k, s).got = NoSession /\ Call(k, s).kind = k
      /\ Call(k, s).phase = "sent"
  BY <1>1, NoSessionIs DEF Call, AnyRequest
<1> QED BY <1>2, <1>3 DEF RequestOf

\* The request as it goes on.
LEMMA GoesOn ==
  ASSUME NEW n \in Nat, NEW c, RequestOf(c, n), NEW p \in {"sent", "read", "done"}, NEW g,
         HeldOf(g, n), c.kind = "answer" /\ p = "read" => g.id # 0
  PROVE  /\ RequestOf([c EXCEPT !.phase = p, !.got = g], n)
         /\ p # "read" => RequestOf([c EXCEPT !.phase = p], n)
         /\ RequestOf([c EXCEPT !.mounted = FALSE], n)
<1>1. c \in AnyRequest /\ g \in SessionType
  BY DEF RequestOf, HeldOf
<1> DEFINE d == [c EXCEPT !.phase = p, !.got = g]
           e == [c EXCEPT !.phase = p]
           f == [c EXCEPT !.mounted = FALSE]
<1>2. d \in AnyRequest /\ d.kind = c.kind /\ d.phase = p /\ d.got = g
  BY <1>1 DEF AnyRequest
<1>3. e \in AnyRequest /\ e.kind = c.kind /\ e.phase = p /\ e.got = c.got
  BY <1>1 DEF AnyRequest
<1>4. f \in AnyRequest /\ f.kind = c.kind /\ f.phase = c.phase /\ f.got = c.got
  BY <1>1 DEF AnyRequest
<1> HIDE DEF d, e, f
<1>5. RequestOf(d, n) /\ (p # "read" => RequestOf(e, n)) /\ RequestOf(f, n)
  BY <1>2, <1>3, <1>4 DEF RequestOf
<1> QED BY <1>5 DEF d, e, f

LEMMA HeldInitially == OnboardingInit => SessionsHeld
<1> SUFFICES ASSUME OnboardingInit PROVE SessionsHeld
  OBVIOUS
<1>1. Numbered(onboarding) /\ Len(onboarding) = 0
  BY DEF OnboardingInit, Numbered
<1>2. RequestOf(Call("start", NoSession), 0) /\ HeldOf(NoSession, 0)
  BY NewCallOf, NoSessionIs DEF HeldOf
<1>3. \A c \in calls : RequestOf(c, Len(onboarding))
  BY <1>1, <1>2 DEF OnboardingInit
<1>4. HeldOf(session, Len(onboarding)) /\ ReplyOf(replying, Len(onboarding))
  BY <1>1, <1>2 DEF OnboardingInit, ReplyOf
<1>5. {prompts, awaiting, dialogEvents, replies} \subseteq Nat
  BY DEF OnboardingInit
<1>6. {loading, replyLost} \subseteq BOOLEAN
  BY DEF OnboardingInit
<1>7. reoffer \subseteq {"reopened", "stale", "failed"}
  BY DEF OnboardingInit
<1> QED BY <1>1, <1>3, <1>4, <1>5, <1>6, <1>7 DEF SessionsHeld

LEMMA HeldTypes ==
  ASSUME SessionsHeld
  PROVE  /\ Len(onboarding) \in Nat /\ HeldOf(Latest, Len(onboarding))
         /\ onboarding # <<>> => Latest.id # 0
         /\ onboarding = <<>> => Latest = NoSession
         /\ \A i \in 1..Len(onboarding) : onboarding[i] \in SessionType
                                          /\ onboarding[i].id \in 1..Len(onboarding)
         /\ \A s : HeldOf(s, Len(onboarding)) => s \in SessionType /\ s.id \in Nat
                                                 /\ LastAssistant(s) \in Nat
         /\ OnboardingTypeOK
<1>1. Latest = Newest(onboarding)
  BY DEF Latest, Newest
<1>2. /\ Numbered(onboarding) /\ Len(onboarding) \in Nat /\ DOMAIN onboarding = 1..Len(onboarding)
      /\ \A i \in 1..Len(onboarding) : onboarding[i] \in SessionType
                                       /\ onboarding[i].id \in 1..Len(onboarding)
  BY DEF SessionsHeld, Numbered
<1>3. HeldOf(Latest, Len(onboarding))
  BY <1>1, <1>2, NewestIs, NoSessionIs DEF HeldOf
<1>4. onboarding # <<>> => Latest.id # 0
  BY <1>1, <1>2, NewestIs
<1>5. \A s : HeldOf(s, Len(onboarding)) => s \in SessionType /\ s.id \in Nat
  BY DEF HeldOf, SessionType
<1>6. OnboardingTypeOK
  <2>1. ToSet(onboarding) \subseteq SessionType
    BY <1>2 DEF ToSet
  <2>2. ToSet(replying) \subseteq SessionType
    BY DEF SessionsHeld, ReplyOf, ToSet
  <2>3. session \in SessionType
    BY <1>5 DEF SessionsHeld
  <2>4. calls \subseteq AnyRequest
    BY DEF SessionsHeld, RequestOf
  <2> QED BY <2>1, <2>2, <2>3, <2>4 DEF SessionsHeld, OnboardingTypeOK, AnyRequest
<1> QED BY <1>1, <1>2, <1>3, <1>4, <1>5, <1>6, NewestIs, LastAssistantIs

\* What the dialog itself does.
LEMMA HeldByDialog ==
  ASSUME SessionsHeld, Reopen \/ PollSession \/ SubmitAnswer \/ ConfirmGoal \/ OnboardingFailures
  PROVE  SessionsHeld'
<1> USE HeldTypes DEF SessionsHeld
<1> DEFINE n == Len(onboarding)
<1>1. n \in Nat /\ session \in SessionType /\ NoSession \in SessionType /\ HeldOf(NoSession, n)
  BY NoSessionIs DEF HeldOf
<1>2. CASE Reopen
  <2>1. ASSUME NEW c \in calls PROVE RequestOf([c EXCEPT !.mounted = FALSE], n)
    <3>1. RequestOf(c, n) /\ c.phase \in {"sent", "read", "done"}
      BY DEF RequestOf, AnyRequest
    <3>2. HeldOf(c.got, n) /\ (c.kind = "answer" /\ c.phase = "read" => c.got.id # 0)
      BY <3>1 DEF RequestOf
    <3> QED BY <1>1, <3>1, <3>2, GoesOn
  <2>2. RequestOf(Call("start", NoSession), n)
    BY <1>1, NewCallOf
  <2>3. \A c \in calls' : RequestOf(c, n)
    BY <1>2, <2>1, <2>2 DEF Reopen
  <2>4. dialogEvents' \in Nat /\ awaiting' \in Nat /\ loading' \in BOOLEAN
        /\ reoffer' \subseteq {"reopened", "stale", "failed"}
    BY <1>2 DEF Reopen, DialogEvent
  <2> QED BY <1>1, <1>2, <2>3, <2>4 DEF Reopen
<1>3. CASE PollSession
  <2>1. RequestOf(Call("get", NoSession), n)
    BY <1>1, NewCallOf
  <2> QED BY <1>3, <2>1 DEF PollSession
<1>4. CASE SubmitAnswer
  <2>1. onboarding # <<>>
    <3>1. session # NoSession
      BY <1>4, NoSessionIs DEF SubmitAnswer, HasQuestion
    <3>2. session.id \in Nat /\ session.id # 0 /\ session.id <= n
      BY <3>1 DEF HeldOf
    <3> QED BY <1>1, <3>2
  <2>2. RequestOf(Call("answer", session), n)
    <3>1. n > 0
      BY <1>1, <2>1
    <3> QED BY <1>1, <3>1, NewCallOf
  <2>3. \A c \in calls' : RequestOf(c, n)
    BY <1>4, <2>2 DEF SubmitAnswer
  <2>4. dialogEvents' \in Nat /\ awaiting' \in Nat /\ loading' \in BOOLEAN
    BY <1>4 DEF SubmitAnswer, DialogEvent
  <2> QED BY <1>4, <2>3, <2>4 DEF SubmitAnswer
<1>5. CASE ConfirmGoal
  <2>1. RequestOf(Call("confirm", session), n)
    BY <1>1, NewCallOf
  <2>2. \A c \in calls' : RequestOf(c, n)
    BY <1>5, <2>1 DEF ConfirmGoal
  <2>3. dialogEvents' \in Nat /\ loading' \in BOOLEAN
    BY <1>5 DEF ConfirmGoal, DialogEvent
  <2> QED BY <1>5, <2>2, <2>3 DEF ConfirmGoal
<1>6. CASE OnboardingFailures
  <2>1. PICK c \in calls : CallFails(c)
    BY <1>6 DEF OnboardingFailures
  <2> QED BY <2>1 DEF CallFails
<1> QED BY <1>2, <1>3, <1>4, <1>5, <1>6

\* A request after which no session is written.
LEMMA HeldByReads ==
  ASSUME SessionsHeld, NEW c \in calls, ServeGet(c) \/ StartReads(c) \/ Dispatch(c)
  PROVE  SessionsHeld'
<1> USE HeldTypes DEF SessionsHeld
<1> DEFINE n == Len(onboarding)
<1>1. n \in Nat /\ RequestOf(c, n) /\ HeldOf(Latest, n) /\ HeldOf(NoSession, n)
  BY NoSessionIs DEF HeldOf
<1>2. CASE ServeGet(c)
  <2>1. RequestOf([c EXCEPT !.phase = "done", !.got = Latest], n)
    BY <1>1, <1>2, GoesOn DEF ServeGet
  <2> QED BY <1>2, <2>1 DEF ServeGet, Replace
<1>3. CASE StartReads(c)
  <2>1. c.kind = "start" /\ prompts' \in {prompts, prompts + 1}
    BY <1>3 DEF StartReads
  <2>2. PICK s \in {NoSession} \cup ToSet(onboarding), p \in {"read", "done"} :
           calls' = (calls \ {c}) \cup {[c EXCEPT !.phase = p, !.got = s]}
    BY <1>3 DEF StartReads, Replace
  <2>3. HeldOf(s, n)
    <3>1. CASE s = NoSession
      BY <1>1, <3>1
    <3>2. CASE s \in ToSet(onboarding)
      <4>1. DOMAIN onboarding = 1..n
        BY DEF Numbered
      <4>2. PICK i \in 1..n : s = onboarding[i]
        BY <3>2, <4>1 DEF ToSet
      <4>3. s \in SessionType /\ s.id \in 1..n
        BY <4>2
      <4> QED BY <1>1, <4>3 DEF HeldOf
    <3> QED BY <3>1, <3>2
  <2>4. RequestOf([c EXCEPT !.phase = p, !.got = s], n)
    BY <1>1, <2>1, <2>3, GoesOn
  <2>5. \A d \in calls' : RequestOf(d, n)
    BY <2>2, <2>4
  <2>6. prompts' \in Nat
    BY <2>1
  <2>7. UNCHANGED <<onboarding, replying, session, loading, awaiting, dialogEvents, replies,
                    replyLost, reoffer>>
    BY <1>3 DEF StartReads
  <2> QED BY <2>5, <2>6, <2>7
<1>4. CASE Dispatch(c)
  <2>1. Latest.id # 0
    BY <1>1, <1>4 DEF Dispatch, RequestOf
  <2>2. RequestOf([c EXCEPT !.phase = "read", !.got = Latest], n)
    BY <1>1, <2>1, GoesOn
  <2> QED BY <1>4, <2>2 DEF Dispatch, Replace
<1> QED BY <1>2, <1>3, <1>4

\* What a written session leaves as it was.
LEMMA HeldAfterWrite ==
  ASSUME SessionsHeld, NEW s \in SessionType, s.id <= Len(onboarding), onboarding' = Stored(s)
  PROVE  /\ Numbered(onboarding') /\ onboarding' # <<>> /\ Len(onboarding') \in Nat
         /\ HeldOf(Latest', Len(onboarding'))
         /\ \A q : ReplyOf(q, Len(onboarding)) => ReplyOf(q, Len(onboarding'))
         /\ HeldOf(session, Len(onboarding'))
         /\ \A c \in calls : RequestOf(c, Len(onboarding'))
<1>1. Numbered(onboarding') /\ onboarding' # <<>> /\ Len(onboarding) <= Len(onboarding')
  BY StoredKept DEF SessionsHeld
<1>2. Len(onboarding) \in Nat /\ Len(onboarding') \in Nat
  BY <1>1, HeldTypes DEF Numbered
<1>3. Latest' = Newest(onboarding')
  BY DEF Latest, Newest
<1>4. HeldOf(Latest', Len(onboarding'))
  <2>1. Latest' \in SessionType /\ Latest'.id \in 1..Len(onboarding')
    BY <1>1, <1>3, NewestIs
  <2> QED BY <1>2, <2>1 DEF HeldOf
<1> QED BY <1>1, <1>2, <1>4, HeldLonger DEF SessionsHeld

\* A start, an answer or a confirmation that writes a session.
LEMMA HeldByWrites ==
  ASSUME SessionsHeld, NEW c \in calls, StartCommits(c) \/ Commit(c) \/ ServeConfirm(c)
  PROVE  SessionsHeld'
<1> USE DEF SessionsHeld
<1> DEFINE n == Len(onboarding)
           m == Len(onboarding')
<1>1. /\ n \in Nat /\ RequestOf(c, n) /\ HeldOf(c.got, n) /\ HeldOf(Latest, n)
      /\ c.got.id \in Nat /\ c.got.id <= n /\ c.got \in SessionType
      /\ \A i \in 1..n : onboarding[i] \in SessionType /\ onboarding[i].id \in 1..n
  BY HeldTypes DEF RequestOf, HeldOf
<1>2. /\ session' = session /\ replying' = replying /\ awaiting' = awaiting /\ loading' = loading
      /\ prompts' = prompts /\ dialogEvents' = dialogEvents /\ replies' = replies
      /\ reoffer' = reoffer /\ replyLost' \in BOOLEAN
  BY DEF StartCommits, Commit, ServeConfirm
<1>3. \E s \in SessionType : s.id <= n /\ onboarding' = Stored(s)
  <2>1. CASE StartCommits(c)
    <3>1. CASE c.got = NoSession
      <4> DEFINE s == [NoSession EXCEPT !.msgs = <<0>>, !.status = "active"]
      <4>1. <<0>> \in Seq(Nat)
        OBVIOUS
      <4>2. s \in SessionType /\ s.id = 0
        BY <4>1, NoSessionIs DEF SessionType
      <4>3. onboarding' = Stored(s)
        BY <2>1, <3>1 DEF StartCommits
      <4> HIDE DEF s
      <4>4. s.id <= n
        BY <1>1, <4>2
      <4> QED BY <4>2, <4>3, <4>4
    <3>2. CASE c.got # NoSession
      <4>1. c.got.id \in 1..n
        BY <1>1, <3>2 DEF HeldOf
      <4>2. onboarding' = Stored(onboarding[c.got.id])
        BY <2>1, <3>2 DEF StartCommits
      <4> QED BY <1>1, <4>1, <4>2
    <3> QED BY <3>1, <3>2
  <2>2. CASE Commit(c)
    <3> DEFINE row == onboarding[c.got.id]
               ms == Append(c.got.msgs, 0)
               s == [row EXCEPT !.msgs = ms]
    <3>1. c.got.id \in 1..n
      BY <1>1, <2>2 DEF Commit, RequestOf
    <3>2. row \in SessionType /\ row.id <= n
      BY <1>1, <3>1
    <3>3. ms \in Seq(Nat)
      BY <1>1 DEF SessionType
    <3>4. onboarding' = Stored(s)
      BY <2>2 DEF Commit
    <3> HIDE DEF row, ms
    <3>5. s \in SessionType /\ s.id = row.id
      BY <3>2, <3>3 DEF SessionType
    <3> QED BY <3>2, <3>4, <3>5
  <2>3. CASE ServeConfirm(c)
    <3> DEFINE s == [Latest EXCEPT !.status = "confirmed"]
    <3>1. s \in SessionType /\ s.id = Latest.id
      BY <1>1 DEF HeldOf, SessionType
    <3> QED BY <1>1, <2>3, <3>1 DEF ServeConfirm, HeldOf
  <2> QED BY <2>1, <2>2, <2>3
<1>5. /\ Numbered(onboarding') /\ m \in Nat /\ HeldOf(Latest', m)
      /\ ReplyOf(replying, m) /\ HeldOf(session, m) /\ \A d \in calls : RequestOf(d, m)
  BY <1>3, HeldAfterWrite
<1>6. \E d : RequestOf(d, m) /\ calls' = (calls \ {c}) \cup {d}
  <2>1. RequestOf(c, m) /\ HeldOf(c.got, m)
    BY <1>5 DEF RequestOf
  <2>2. RequestOf([c EXCEPT !.phase = "done", !.got = Latest'], m)
    BY <1>5, <2>1, GoesOn
  <2>3. RequestOf([c EXCEPT !.phase = "done"], m)
    BY <1>5, <2>1, GoesOn
  <2> QED BY <2>2, <2>3 DEF StartCommits, Commit, ServeConfirm, Replace
<1>7. \A d \in calls' : RequestOf(d, m)
  BY <1>5, <1>6
<1> QED BY <1>2, <1>5, <1>7

\* The agent reads the newest session and writes one that there is.
LEMMA HeldByAgent == ASSUME SessionsHeld, OnboardingAgent PROVE SessionsHeld'
<1> USE DEF SessionsHeld
<1> DEFINE n == Len(onboarding)
           m == Len(onboarding')
<1>1. /\ n \in Nat /\ HeldOf(Latest, n)
      /\ onboarding = <<>> => Latest = NoSession
      /\ onboarding # <<>> => Latest.id # 0
      /\ \A i \in 1..n : onboarding[i] \in SessionType /\ onboarding[i].id \in 1..n
  BY HeldTypes
<1>2. CASE AgentReads
  <2>1. prompts' \in Nat
    BY <1>2 DEF AgentReads
  <2>2. replyLost' \in BOOLEAN
    BY <1>2 DEF AgentReads
  <2>3. ReplyOf(replying', n)
    <3>1. CASE Latest.status \in {"none", "confirmed"}
      BY <1>2, <3>1 DEF AgentReads
    <3>2. CASE Latest.status \notin {"none", "confirmed"}
      <4>1. onboarding # <<>>
        BY <1>1, <3>2, NoSessionIs
      <4>2. Latest \in SessionType /\ Latest.id \in 1..n
        BY <1>1, <4>1 DEF HeldOf, SessionType
      <4>3. replying' = <<Latest>>
        BY <1>2, <3>2 DEF AgentReads
      <4> QED BY <4>2, <4>3 DEF ReplyOf
    <3> QED BY <3>1, <3>2
  <2> QED BY <1>2, <2>1, <2>2, <2>3 DEF AgentReads
<1>3. CASE AgentCommits
  <2>1. /\ replying # <<>> /\ replying' = <<>> /\ replies' = replies + 1
        /\ UNCHANGED <<prompts, session, loading, awaiting, calls, dialogEvents, replyLost, reoffer>>
    BY <1>3 DEF AgentCommits
  <2>2. PICK s \in SessionType : replying = <<s>> /\ s.id \in 1..n
    BY <2>1 DEF ReplyOf
  <2> DEFINE row == onboarding[s.id]
             ms == Append(s.msgs, replies + 1)
  <2>3. row \in SessionType /\ row.id <= n
    BY <1>1, <2>2
  <2>4. ms \in Seq(Nat)
    <3>1. s.msgs \in Seq(Nat) /\ replies \in Nat
      BY DEF SessionType
    <3> QED BY <3>1
  <2>5. replying[1].msgs = s.msgs /\ replying[1].id = s.id
    BY <2>2
  <2>6. PICK complete \in BOOLEAN :
           onboarding' = Stored([row EXCEPT !.msgs = ms, !.draft = @ \/ complete,
                                            !.status = IF complete THEN "completed" ELSE @])
    BY <1>3, <2>5 DEF AgentCommits
  <2> DEFINE next == [row EXCEPT !.msgs = ms, !.draft = @ \/ complete,
                                 !.status = IF complete THEN "completed" ELSE @]
  <2>7. next \in SessionType /\ next.id = row.id
    <3> HIDE DEF row, ms
    <3>1. row.draft \in BOOLEAN
      BY <2>3 DEF SessionType
    <3>2. (row.draft \/ complete) \in BOOLEAN
      OBVIOUS
    <3> DEFINE dr == row.draft \/ complete
               st == IF complete THEN "completed" ELSE row.status
    <3>3. st \in {"none", "active", "completed", "confirmed"}
      BY <2>3 DEF SessionType
    <3>4. dr \in BOOLEAN
      BY <3>2
    <3>5. next = [row EXCEPT !.msgs = ms, !.draft = dr, !.status = st]
      OBVIOUS
    <3> HIDE DEF dr, st, next
    <3> QED BY <2>3, <2>4, <3>3, <3>4, <3>5 DEF SessionType
  <2> HIDE DEF next
  <2>8. onboarding' = Stored(next) /\ next.id <= n
    BY <2>3, <2>6, <2>7 DEF next
  <2>9. /\ Numbered(onboarding') /\ HeldOf(session, m) /\ \A d \in calls : RequestOf(d, m)
    BY <2>7, <2>8, HeldAfterWrite
  <2>10. ReplyOf(replying', m) /\ replies' \in Nat
    BY <2>1 DEF ReplyOf
  <2> QED BY <2>1, <2>9, <2>10
<1> QED BY <1>2, <1>3 DEF OnboardingAgent

LEMMA HeldByAnswers ==
  ASSUME SessionsHeld, NEW c \in calls,
         GetAnswered(c) \/ StartAnswered(c) \/ AnswerAnswered(c) \/ ConfirmAnswered(c)
           \/ OrphanAnswered(c)
  PROVE  SessionsHeld'
<1> USE HeldTypes DEF SessionsHeld
<1> DEFINE n == Len(onboarding)
<1>1. /\ RequestOf(c, n) /\ HeldOf(c.got, n) /\ c.got \in SessionType /\ c.before \in Nat
      /\ n \in Nat
  BY DEF RequestOf, AnyRequest
<1>2. /\ onboarding' = onboarding /\ replying' = replying /\ prompts' = prompts
      /\ replies' = replies /\ replyLost' = replyLost
  BY DEF GetAnswered, StartAnswered, AnswerAnswered, ConfirmAnswered, OrphanAnswered
<1>3. calls' \subseteq calls
  BY DEF GetAnswered, StartAnswered, AnswerAnswered, ConfirmAnswered, OrphanAnswered
<1>4. session' \in {session, c.got}
  BY DEF GetAnswered, StartAnswered, AnswerAnswered, ConfirmAnswered, OrphanAnswered, Show
<1>5. awaiting' \in Nat
  BY <1>1 DEF GetAnswered, StartAnswered, AnswerAnswered, ConfirmAnswered, OrphanAnswered, Show
<1>6. loading' \in BOOLEAN
  BY DEF GetAnswered, StartAnswered, AnswerAnswered, ConfirmAnswered, OrphanAnswered
<1>7. dialogEvents' \in Nat
  BY OnboardingBoundsAssumption
     DEF GetAnswered, StartAnswered, AnswerAnswered, ConfirmAnswered, OrphanAnswered
<1>8. reoffer' \subseteq {"reopened", "stale", "failed"}
  BY DEF GetAnswered, StartAnswered, AnswerAnswered, ConfirmAnswered, OrphanAnswered
<1>9. HeldOf(session', n) /\ \A d \in calls' : RequestOf(d, n)
  BY <1>1, <1>3, <1>4
<1> QED BY <1>2, <1>5, <1>6, <1>7, <1>8, <1>9

LEMMA SessionsHeldStep == SessionsHeld /\ [OnboardingNext]_onboardingVars => SessionsHeld'
<1> SUFFICES ASSUME SessionsHeld, [OnboardingNext]_onboardingVars PROVE SessionsHeld'
  OBVIOUS
<1>1. CASE UNCHANGED onboardingVars
  BY <1>1 DEF onboardingVars, SessionsHeld
<1>2. CASE OnboardingServer
  BY <1>2, HeldByReads, HeldByWrites DEF OnboardingServer
<1>3. CASE OnboardingAnswers
  BY <1>3, HeldByAnswers DEF OnboardingAnswers
<1> QED BY <1>1, <1>2, <1>3, HeldByDialog, HeldByAgent DEF OnboardingNext

\* Whatever fails, is reopened or comes late: the answers and the agent rewrite sessions
\* that there are, and the dialog holds one as it was stored (board_onboarding.py).
THEOREM DialogTypeCorrect == OnboardingSpec => []OnboardingTypeOK
<1>1. SessionsHeld => OnboardingTypeOK
  BY HeldTypes
<1> QED BY <1>1, HeldInitially, SessionsHeldStep, PTL DEF OnboardingSpec
-----------------------------------------------------------------------------
(***************************************************************************)
(* The chat and the notes of the board group page.                         *)
(***************************************************************************)
\* What is read, cached, sent or on the way is of the kind it is kept for, and the cursor
\* is at most past the newest message.
GroupKinds ==
    /\ ToSet(memoryConn.wire) \subseteq OfKind(openList)
    /\ \A k \in MemoryKind : query[k].rows \cup query[k].cached \subseteq OfKind(k)
    /\ \A p \in posting : p.id # 0 => p.id \in DOMAIN memories /\ memories[p.id] = p.kind
    /\ memoryConn.since <= Len(memories) + 1
    /\ memoryConn.state \in {"connecting", "up"} => openList \in MemoryKind
    /\ memoryConn.state # "up" => memoryConn.wire = <<>>

GroupInv == GroupTypeOK /\ GroupKinds /\ ListsApart /\ MemoriesShownOrComing

QueryType == [phase : {"idle", "sent", "read"}, rows : SUBSET Nat,
              fetched : BOOLEAN, cached : SUBSET Nat]
ConnType == [state : {"off", "connecting", "up", "ended"}, since : Nat, wire : Seq(Nat)]
-----------------------------------------------------------------------------
LEMMA GroupParts ==
  ASSUME GroupTypeOK
  PROVE  /\ Len(memories) \in Nat /\ DOMAIN memories = 1..Len(memories)
         /\ \A k \in MemoryKind : OfKind(k) \subseteq 1..Len(memories)
         /\ memoryConn.state \in {"off", "connecting", "up", "ended"} /\ memoryConn.since \in Nat
         /\ memoryConn.wire \in Seq(Nat)
         /\ \A k \in MemoryKind : query[k] \in QueryType
         /\ "none" \notin MemoryKind
<1>1. Len(memories) \in Nat /\ DOMAIN memories = 1..Len(memories)
  BY DEF GroupTypeOK
<1>2. \A k \in MemoryKind : OfKind(k) \subseteq 1..Len(memories)
  BY <1>1 DEF OfKind
<1>3. /\ memoryConn.state \in {"off", "connecting", "up", "ended"} /\ memoryConn.since \in Nat
      /\ memoryConn.wire \in Seq(Nat)
  BY DEF GroupTypeOK
<1>4. \A k \in MemoryKind : query[k] \in QueryType
  BY DEF GroupTypeOK, QueryType
<1>5. "none" \notin MemoryKind
  BY DEF MemoryKind
<1> QED BY <1>1, <1>2, <1>3, <1>4, <1>5

\* The connections the code starts from.
LEMMA Connections ==
  /\ NoMemoryConn \in ConnType /\ NoMemoryConn.state = "off"
  /\ NoMemoryConn.since = 0 /\ NoMemoryConn.wire = <<>>
  /\ Connecting \in ConnType /\ Connecting.state = "connecting"
  /\ Connecting.since = 0 /\ Connecting.wire = <<>>
  /\ LET ended == [NoMemoryConn EXCEPT !.state = "ended"]
     IN  ended \in ConnType /\ ended.state = "ended" /\ ended.since = 0 /\ ended.wire = <<>>
<1>1. /\ NoMemoryConn \in ConnType /\ NoMemoryConn.state = "off"
      /\ NoMemoryConn.since = 0 /\ NoMemoryConn.wire = <<>>
  BY DEF NoMemoryConn, ConnType
<1>2. ASSUME NEW s \in {"off", "connecting", "up", "ended"}
      PROVE  LET c == [NoMemoryConn EXCEPT !.state = s]
             IN  c \in ConnType /\ c.state = s /\ c.since = 0 /\ c.wire = <<>>
  BY <1>1 DEF ConnType
<1> QED BY <1>1, <1>2 DEF Connecting

LEMMA GroupInitial == GroupInit => GroupInv
<1> SUFFICES ASSUME GroupInit PROVE GroupInv
  OBVIOUS
<1>1. NoMemoryConn \in ConnType /\ NoMemoryConn.state = "off" /\ NoMemoryConn.since = 0
      /\ NoMemoryConn.wire = <<>>
  BY Connections
<1>2. NoQuery \in QueryType /\ NoQuery.rows = {} /\ NoQuery.cached = {} /\ NoQuery.phase = "idle"
  BY DEF NoQuery, QueryType
<1>3. memories \in Seq(MemoryKind) /\ Len(memories) \in Nat
  <2>1. "chat" \in MemoryKind
    BY DEF MemoryKind
  <2>2. <<>> \in Seq(MemoryKind) /\ <<"chat">> \in Seq(MemoryKind)
    BY <2>1
  <2> QED BY <2>2 DEF GroupInit
<1>4. GroupTypeOK
  BY <1>1, <1>2, <1>3 DEF GroupInit, GroupTypeOK, QueryType, ConnType
<1>5. GroupKinds
  <2>1. ToSet(memoryConn.wire) = {}
    BY <1>1 DEF GroupInit, ToSet
  <2> QED BY <1>1, <1>2, <1>3, <2>1 DEF GroupInit, GroupKinds
<1>6. ListsApart
  BY DEF GroupInit, ListsApart
<1>7. MemoriesShownOrComing
  BY <1>1 DEF GroupInit, MemoriesShownOrComing
<1> QED BY <1>4, <1>5, <1>6, <1>7 DEF GroupInv
-----------------------------------------------------------------------------
\* A message that is only stamped is of no list yet.
LEMMA MemoryStampedKeeps ==
  ASSUME GroupInv, NEW k \in MemoryKind, MemoryStamped(k),
         posting' \subseteq [kind : MemoryKind, id : Nat],
         \A p \in posting' : p \in posting \/ (p.kind = k /\ p.id = Len(memories) + 1)
  PROVE  GroupInv'
<1> USE DEF GroupInv
<1> DEFINE n == Len(memories) + 1
<1>1. /\ memories' \in Seq(MemoryKind) /\ Len(memories') = n /\ DOMAIN memories' = 1..n
      /\ memories'[n] = k /\ \A m \in 1..Len(memories) : memories'[m] = memories[m]
  BY DEF GroupTypeOK, MemoryStamped
<1>2. DOMAIN memories = 1..Len(memories) /\ DOMAIN memories \subseteq DOMAIN memories'
      /\ n \in DOMAIN memories' /\ n \in Nat /\ n \notin DOMAIN memories
  BY <1>1, GroupParts
<1>3. /\ unsaved' = unsaved \cup {n} /\ unsaved \subseteq DOMAIN memories
      /\ UNCHANGED <<lists, openList, query, memoryConn, groupToggles, missed>>
  BY <1>1 DEF MemoryStamped, GroupTypeOK
<1> HIDE DEF n
<1>4. \A j : OfKind(j)' = OfKind(j)
  <2>1. \A m \in DOMAIN memories' : m \in DOMAIN memories \/ m = n
    BY <1>1, <1>2, GroupParts DEF n
  <2> QED BY <1>1, <1>2, <1>3, <2>1 DEF OfKind
<1>5. GroupTypeOK'
  <2>1. lists' \in [MemoryKind -> SUBSET DOMAIN memories']
    BY <1>2, <1>3 DEF GroupTypeOK
  <2> QED BY <1>1, <1>2, <1>3, <2>1 DEF GroupTypeOK
<1>6. GroupKinds'
  <2>1. \A p \in posting' : p.id # 0 => p.id \in DOMAIN memories' /\ memories'[p.id] = p.kind
    BY <1>1, <1>2 DEF GroupKinds, n
  <2>2. memoryConn.since <= n + 1
    BY <1>2, GroupParts DEF GroupKinds, n
  <2> QED BY <1>1, <1>3, <1>4, <2>1, <2>2 DEF GroupKinds
<1>7. ListsApart' /\ MemoriesShownOrComing'
  BY <1>3, <1>4 DEF ListsApart, MemoriesShownOrComing, UnsentMemories
<1> QED BY <1>5, <1>6, <1>7

LEMMA MemoryWrittenKeeps ==
  ASSUME GroupInv, NEW k \in MemoryKind, MemoryWritten(k) PROVE GroupInv'
<1>1. MemoryStamped(k) /\ posting' = posting
  BY DEF MemoryWritten
<1>2. posting' \subseteq [kind : MemoryKind, id : Nat]
  BY <1>1 DEF GroupInv, GroupTypeOK
<1> QED BY <1>1, <1>2, MemoryStampedKeeps

LEMMA ServeMemoryKeeps ==
  ASSUME GroupInv, NEW p \in posting, ServeMemory(p) PROVE GroupInv'
<1> DEFINE sent == [p EXCEPT !.id = Len(memories')]
<1>1. MemoryStamped(p.kind) /\ posting' = {sent}
  BY DEF ServeMemory
<1>2. p \in [kind : MemoryKind, id : Nat]
  BY DEF GroupInv, GroupTypeOK
<1>3. Len(memories') = Len(memories) + 1 /\ Len(memories) + 1 \in Nat
  BY <1>1, <1>2 DEF GroupInv, GroupTypeOK, MemoryStamped
<1>4. sent \in [kind : MemoryKind, id : Nat] /\ sent.kind = p.kind /\ sent.id = Len(memories) + 1
  BY <1>2, <1>3
<1> HIDE DEF sent
<1> QED BY <1>1, <1>2, <1>4, MemoryStampedKeeps

\* One that is committed is ahead of the cursor of its list, is read by its query, or is missed.
LEMMA MemoryCommitsKeeps ==
  ASSUME GroupInv, NEW m \in unsaved, MemoryCommits(m) PROVE GroupInv'
<1> USE DEF GroupInv
<1>1. /\ unsaved' = unsaved \ {m} /\ missed \subseteq missed' /\ missed' \subseteq missed \cup {m}
      /\ m \in missed' \/ ~(/\ memoryConn.state = "up" /\ memories[m] = openList
                            /\ m < memoryConn.since /\ query[openList].phase # "sent")
      /\ UNCHANGED <<memories, lists, openList, query, memoryConn, posting, groupToggles>>
  BY DEF MemoryCommits
<1>2. m \in DOMAIN memories /\ m \in Nat /\ memoryConn.since \in Nat
  BY GroupParts DEF GroupTypeOK
<1>3. \A j : OfKind(j) \subseteq OfKind(j)' /\ OfKind(j)' \subseteq OfKind(j) \cup {m}
  BY <1>1 DEF OfKind
<1>4. GroupTypeOK'
  BY <1>1, <1>2 DEF GroupTypeOK
<1>5. GroupKinds'
  BY <1>1, <1>3 DEF GroupKinds
<1>6. ListsApart'
  BY <1>1, <1>3 DEF ListsApart
<1>7. MemoriesShownOrComing'
  <2> SUFFICES ASSUME memoryConn.state = "up",
                      NEW i \in OfKind(openList)', i \notin lists[openList] \cup missed',
                      i \notin ToSet(memoryConn.wire), query[openList].phase # "sent",
                      ~(query[openList].phase = "read" /\ i \in query[openList].rows)
               PROVE  i \in UnsentMemories'
    BY <1>1 DEF MemoriesShownOrComing
  <2>1. i >= memoryConn.since
    <3>1. CASE i = m
      <4>1. memories[m] = openList
        BY <1>1, <3>1 DEF OfKind
      <4>2. ~(m < memoryConn.since)
        BY <1>1, <3>1, <4>1
      <4> QED BY <1>2, <3>1, <4>2
    <3>2. CASE i \in OfKind(openList)
      BY <1>1, <3>2 DEF MemoriesShownOrComing, UnsentMemories
    <3>3. i \in OfKind(openList) \cup {m}
      BY <1>1 DEF OfKind
    <3> QED BY <3>1, <3>2, <3>3
  <2> QED BY <1>1, <2>1 DEF UnsentMemories
<1> QED BY <1>4, <1>5, <1>6, <1>7

\* With the messages the same, the kinds are; a stream that is not up promises nothing.
LEMMA SameKinds == ASSUME memories' = memories, unsaved' = unsaved PROVE \A k : OfKind(k)' = OfKind(k)
BY DEF OfKind

\* The stream's effect starts again: the cached history is merged, nothing is on the way.
LEMMA ActivateKeeps ==
  ASSUME GroupInv, NEW k \in MemoryKind, Activate(k) PROVE GroupInv'
<1> USE DEF GroupInv
<1>1. /\ openList' = k /\ memoryConn' = Connecting
      /\ groupToggles' = groupToggles + 1
      /\ query' = [query EXCEPT ![k].phase = "sent"] \/ query' = query
      /\ lists' = [lists EXCEPT ![k] = @ \cup query[k].cached]
      /\ UNCHANGED <<memories, unsaved, posting, missed>>
  BY DEF Activate, GroupToggle, MergeCached
<1>2. Connecting \in ConnType /\ Connecting.state = "connecting" /\ Connecting.since = 0
      /\ Connecting.wire = <<>>
  BY Connections
<1>3. /\ query' \in [MemoryKind -> QueryType]
      /\ \A j \in MemoryKind : query'[j].rows = query[j].rows /\ query'[j].cached = query[j].cached
  <2>1. query \in [MemoryKind -> QueryType] /\ query[k] \in QueryType
    BY DEF GroupTypeOK, QueryType
  <2> DEFINE next == [query[k] EXCEPT !.phase = "sent"]
  <2>2. next \in QueryType /\ next.rows = query[k].rows /\ next.cached = query[k].cached
    BY <2>1 DEF QueryType
  <2>3. query' = [query EXCEPT ![k] = next] \/ query' = query
    BY <1>1
  <2> HIDE DEF next
  <2> QED BY <2>1, <2>2, <2>3
<1>4. query[k].cached \subseteq OfKind(k) /\ OfKind(k) \subseteq DOMAIN memories
  BY DEF GroupKinds, OfKind
<1>5. lists' \in [MemoryKind -> SUBSET DOMAIN memories]
  BY <1>1, <1>4 DEF GroupTypeOK
<1>6. GroupTypeOK'
  BY <1>1, <1>2, <1>3, <1>5 DEF GroupTypeOK, QueryType, ConnType
<1>7. GroupKinds'
  <2>1. ToSet(memoryConn'.wire) = {}
    BY <1>1, <1>2 DEF ToSet
  <2>2. 0 <= Len(memories) + 1
    BY GroupParts
  <2> QED BY <1>1, <1>2, <1>3, <2>1, <2>2, SameKinds DEF GroupKinds
<1>8. ListsApart'
  <2>1. \A j \in MemoryKind : lists'[j] \subseteq OfKind(j)
    BY <1>1, <1>4 DEF ListsApart, GroupTypeOK
  <2> QED BY <1>1, <2>1, SameKinds DEF ListsApart
<1>9. MemoriesShownOrComing'
  BY <1>1, <1>2 DEF MemoriesShownOrComing
<1> QED BY <1>6, <1>7, <1>8, <1>9

\* A stream closed, ended or broken.
LEMMA StreamDown ==
  ASSUME GroupInv, openList' \in {openList, "none"},
         memoryConn' \in {NoMemoryConn, [NoMemoryConn EXCEPT !.state = "ended"]}
           \/ (memoryConn' = Connecting /\ openList' \in MemoryKind),
         groupToggles' = groupToggles + 1,
         UNCHANGED <<memories, unsaved, lists, query, posting, missed>>
  PROVE  GroupInv'
<1> USE DEF GroupInv
<1>1. /\ memoryConn' \in ConnType /\ memoryConn'.since = 0 /\ memoryConn'.wire = <<>>
      /\ memoryConn'.state # "up"
      /\ memoryConn'.state = "connecting" => openList' \in MemoryKind
  BY Connections
<1>2. GroupTypeOK'
  BY <1>1 DEF GroupTypeOK, ConnType
<1>3. GroupKinds'
  <2>1. ToSet(memoryConn'.wire) = {}
    BY <1>1 DEF ToSet
  <2>2. 0 <= Len(memories) + 1
    BY GroupParts
  <2> QED BY <1>1, <2>1, <2>2, SameKinds DEF GroupKinds
<1>4. ListsApart'
  BY SameKinds DEF ListsApart
<1>5. MemoriesShownOrComing'
  BY <1>1 DEF MemoriesShownOrComing
<1> QED BY <1>2, <1>3, <1>4, <1>5

LEMMA DeactivateKeeps ==
  ASSUME GroupInv, NEW closed \in BOOLEAN, Deactivate(closed) PROVE GroupInv'
<1>1. /\ openList' \in {openList, "none"} /\ memoryConn' = NoMemoryConn
      /\ groupToggles' = groupToggles + 1
      /\ UNCHANGED <<memories, unsaved, lists, query, posting, missed>>
  BY DEF Deactivate, GroupToggle
<1> QED BY <1>1, StreamDown

LEMMA StreamBreaksKeeps ==
  ASSUME GroupInv, NEW fails \in BOOLEAN, StreamBreaks(fails) PROVE GroupInv'
<1>1. /\ openList' = openList /\ groupToggles' = groupToggles + 1
      /\ memoryConn' = (IF fails THEN Connecting ELSE [NoMemoryConn EXCEPT !.state = "ended"])
      /\ openList \in MemoryKind
      /\ UNCHANGED <<memories, unsaved, lists, query, posting, missed>>
  BY DEF StreamBreaks, GroupToggle, GroupInv, GroupKinds
<1>2. memoryConn' = Connecting \/ memoryConn' = [NoMemoryConn EXCEPT !.state = "ended"]
  BY <1>1
<1> QED BY <1>1, <1>2, StreamDown
-----------------------------------------------------------------------------
\* The history is read: it holds every message of its kind.
LEMMA HistoryReadKeeps ==
  ASSUME GroupInv, NEW k \in MemoryKind, HistoryRead(k) PROVE GroupInv'
<1> USE DEF GroupInv
<1> DEFINE next == [query[k] EXCEPT !.phase = "read", !.rows = OfKind(k)]
<1>1. /\ query' = [query EXCEPT ![k] = next]
      /\ UNCHANGED <<memories, unsaved, lists, openList, memoryConn, posting, groupToggles, missed>>
  BY DEF HistoryRead
<1>2. query \in [MemoryKind -> QueryType] /\ query[k] \in QueryType
  BY DEF GroupTypeOK, QueryType
<1>3. OfKind(k) \subseteq Nat
  BY GroupParts
<1>4. next \in QueryType /\ next.phase = "read" /\ next.rows = OfKind(k) /\ next.cached = query[k].cached
  BY <1>2, <1>3 DEF QueryType
<1> HIDE DEF next
<1>5. query' \in [MemoryKind -> QueryType] /\ query'[k] = next
      /\ \A j \in MemoryKind \ {k} : query'[j] = query[j]
  BY <1>1, <1>2, <1>4
<1>6. GroupTypeOK'
  BY <1>1, <1>5 DEF GroupTypeOK, QueryType
<1>7. GroupKinds'
  <2>1. \A j \in MemoryKind : query'[j].rows \cup query'[j].cached \subseteq OfKind(j)
    BY <1>4, <1>5 DEF GroupKinds
  <2> QED BY <1>1, <2>1, SameKinds DEF GroupKinds
<1>8. ListsApart'
  BY <1>1, SameKinds DEF ListsApart
<1>9. MemoriesShownOrComing'
  <2> SUFFICES ASSUME memoryConn.state = "up",
                      NEW m \in OfKind(openList), m \notin lists[openList] \cup missed,
                      m \notin ToSet(memoryConn.wire) \cup UnsentMemories,
                      query'[openList].phase # "sent"
               PROVE  query'[openList].phase = "read" /\ m \in query'[openList].rows
    BY <1>1 DEF MemoriesShownOrComing, UnsentMemories, OfKind
  <2>1. openList \in MemoryKind
    BY DEF GroupKinds
  <2> QED BY <1>4, <1>5, <2>1 DEF MemoriesShownOrComing
<1> QED BY <1>6, <1>7, <1>8, <1>9

\* It is merged into the open list, or kept for when its list opens.
LEMMA HistoryMergedKeeps ==
  ASSUME GroupInv, NEW k \in MemoryKind, HistoryMerged(k) PROVE GroupInv'
<1> USE DEF GroupInv
<1> DEFINE next == [phase |-> "idle", rows |-> {}, fetched |-> TRUE, cached |-> query[k].rows]
<1>1. /\ query[k].phase = "read" /\ query' = [query EXCEPT ![k] = next]
      /\ IF openList = k THEN MergeCached(k, query'[k]) ELSE UNCHANGED lists
      /\ UNCHANGED <<memories, unsaved, openList, memoryConn, posting, groupToggles, missed>>
  BY DEF HistoryMerged
<1>2. query \in [MemoryKind -> QueryType] /\ query[k] \in QueryType
  BY DEF GroupTypeOK, QueryType
<1>3. next \in QueryType /\ next.rows = {} /\ next.cached = query[k].rows
  BY <1>2 DEF QueryType
<1> HIDE DEF next
<1>4. query' \in [MemoryKind -> QueryType] /\ query'[k] = next
      /\ \A j \in MemoryKind \ {k} : query'[j] = query[j]
  BY <1>1, <1>2, <1>3
<1>5. query[k].rows \subseteq OfKind(k) /\ OfKind(k) \subseteq DOMAIN memories
  BY DEF GroupKinds, OfKind
<1>6. lists' = IF openList = k THEN [lists EXCEPT ![k] = @ \cup query[k].rows] ELSE lists
  BY <1>1, <1>3, <1>4 DEF MergeCached
<1>7. GroupTypeOK'
  <2>1. lists' \in [MemoryKind -> SUBSET DOMAIN memories]
    BY <1>5, <1>6 DEF GroupTypeOK
  <2> QED BY <1>1, <1>4, <2>1 DEF GroupTypeOK, QueryType
<1>8. GroupKinds'
  <2>1. \A j \in MemoryKind : query'[j].rows \cup query'[j].cached \subseteq OfKind(j)
    BY <1>3, <1>4, <1>5 DEF GroupKinds
  <2> QED BY <1>1, <2>1, SameKinds DEF GroupKinds
<1>9. ListsApart'
  <2>1. \A j \in MemoryKind : lists'[j] \subseteq OfKind(j)
    BY <1>5, <1>6 DEF ListsApart, GroupTypeOK
  <2> QED BY <1>1, <2>1, SameKinds DEF ListsApart
<1>10. MemoriesShownOrComing'
  <2> SUFFICES ASSUME memoryConn.state = "up",
                      NEW m \in OfKind(openList), m \notin lists'[openList] \cup missed,
                      m \notin ToSet(memoryConn.wire) \cup UnsentMemories',
                      query'[openList].phase # "sent"
               PROVE  query'[openList].phase = "read" /\ m \in query'[openList].rows
    BY <1>1 DEF MemoriesShownOrComing, OfKind
  <2>1. openList \in MemoryKind
    BY DEF GroupKinds
  <2>2. lists[openList] \subseteq lists'[openList]
    BY <1>6, <2>1 DEF GroupTypeOK
  <2>3. m \notin UnsentMemories
    BY <1>1, <2>2 DEF UnsentMemories, OfKind
  <2>4. query[openList].phase = "sent" \/ (query[openList].phase = "read" /\ m \in query[openList].rows)
    BY <2>2, <2>3 DEF MemoriesShownOrComing
  <2>5. CASE openList = k
    <3>1. m \in lists'[k]
      BY <1>1, <1>6, <2>4, <2>5 DEF GroupTypeOK
    <3> QED BY <2>5, <3>1
  <2>6. CASE openList # k
    BY <1>4, <2>1, <2>4, <2>6
  <2> QED BY <2>5, <2>6
<1> QED BY <1>7, <1>8, <1>9, <1>10

LEMMA HistoryFailsKeeps ==
  ASSUME GroupInv, NEW k \in MemoryKind, HistoryFails(k) PROVE GroupInv'
<1> USE DEF GroupInv
<1> DEFINE next == [query[k] EXCEPT !.phase = "idle"]
<1>1. /\ query[k].phase = "sent" /\ query' = [query EXCEPT ![k] = next] /\ missed' = missed \cup OfKind(k)
      /\ UNCHANGED <<memories, unsaved, lists, openList, memoryConn, posting, groupToggles>>
  BY DEF HistoryFails
<1>2. query \in [MemoryKind -> QueryType] /\ query[k] \in QueryType
  BY DEF GroupTypeOK, QueryType
<1>3. next \in QueryType /\ next.rows = query[k].rows /\ next.cached = query[k].cached
  BY <1>2 DEF QueryType
<1> HIDE DEF next
<1>4. query' \in [MemoryKind -> QueryType] /\ query'[k] = next
      /\ \A j \in MemoryKind \ {k} : query'[j] = query[j]
  BY <1>1, <1>2, <1>3
<1>5. GroupTypeOK'
  <2>1. missed' \subseteq DOMAIN memories
    BY <1>1 DEF GroupTypeOK, OfKind
  <2> QED BY <1>1, <1>4, <2>1 DEF GroupTypeOK, QueryType
<1>6. GroupKinds'
  <2>1. \A j \in MemoryKind : query'[j].rows \cup query'[j].cached \subseteq OfKind(j)
    BY <1>3, <1>4 DEF GroupKinds
  <2> QED BY <1>1, <2>1, SameKinds DEF GroupKinds
<1>7. ListsApart'
  BY <1>1, SameKinds DEF ListsApart
<1>8. MemoriesShownOrComing'
  <2> SUFFICES ASSUME memoryConn.state = "up",
                      NEW m \in OfKind(openList), m \notin lists[openList] \cup missed',
                      m \notin ToSet(memoryConn.wire) \cup UnsentMemories,
                      query'[openList].phase # "sent"
               PROVE  query'[openList].phase = "read" /\ m \in query'[openList].rows
    BY <1>1 DEF MemoriesShownOrComing, UnsentMemories, OfKind
  <2>1. openList \in MemoryKind /\ openList # k
    BY <1>1 DEF GroupKinds
  <2> QED BY <1>1, <1>4, <2>1 DEF MemoriesShownOrComing
<1> QED BY <1>5, <1>6, <1>7, <1>8
-----------------------------------------------------------------------------
\* latestMemoryTimestamp of a list.
LEMMA MemoryCursorIs ==
  ASSUME GroupInv, NEW k \in MemoryKind
  PROVE  MemoryCursor(k) \in Nat /\ MemoryCursor(k) <= Len(memories) + 1
<1> DEFINE n == Len(memories)
<1>1. n \in Nat /\ lists[k] \subseteq 1..n
  BY GroupParts DEF GroupInv, GroupTypeOK
<1> HIDE DEF n
<1>2. CASE lists[k] = {}
  BY <1>1, <1>2 DEF MemoryCursor, n
<1>3. CASE lists[k] # {}
  <2>1. Max(lists[k]) \in lists[k]
    <3>1. lists[k] \in SUBSET Nat /\ \A m \in lists[k] : m <= n
      BY <1>1
    <3> QED BY <1>1, <1>3, <3>1, MaxIs
  <2>2. Max(lists[k]) \in Nat /\ Max(lists[k]) <= n + 1
    BY <1>1, <2>1
  <2> QED BY <1>3, <2>2 DEF MemoryCursor, n
<1> QED BY <1>2, <1>3

LEMMA ConnectMemoryKeeps == ASSUME GroupInv, ConnectMemory PROVE GroupInv'
<1> USE DEF GroupInv
<1> DEFINE since == MemoryCursor(openList)
<1>1. /\ memoryConn.state = "connecting"
      /\ memoryConn' = [state |-> "up", since |-> since, wire |-> <<>>]
      /\ missed' = (IF query[openList].phase = "sent" THEN missed
                    ELSE missed \cup {m \in OfKind(openList) : m < since})
      /\ UNCHANGED <<memories, unsaved, lists, openList, query, posting, groupToggles>>
  BY DEF ConnectMemory
<1>2. openList \in MemoryKind
  BY <1>1 DEF GroupKinds
<1>3. since \in Nat /\ since <= Len(memories) + 1
  BY <1>2, MemoryCursorIs
<1> HIDE DEF since
<1>4. memoryConn'.state = "up" /\ memoryConn'.since = since /\ memoryConn'.wire = <<>>
      /\ memoryConn' \in ConnType
  BY <1>1, <1>3 DEF ConnType
<1>5. ToSet(memoryConn'.wire) = {}
  BY <1>4 DEF ToSet
<1>6. GroupTypeOK'
  <2>1. missed' \subseteq DOMAIN memories
    BY <1>1 DEF GroupTypeOK, OfKind
  <2> QED BY <1>1, <1>4, <2>1 DEF GroupTypeOK, ConnType
<1>7. GroupKinds'
  BY <1>1, <1>2, <1>3, <1>4, <1>5, SameKinds DEF GroupKinds
<1>8. ListsApart'
  BY <1>1, SameKinds DEF ListsApart
<1>9. MemoriesShownOrComing'
  <2> SUFFICES ASSUME NEW m \in OfKind(openList), m \notin lists[openList] \cup missed',
                      query[openList].phase # "sent"
               PROVE  m \in UnsentMemories'
    BY <1>1 DEF MemoriesShownOrComing, OfKind
  <2>1. m \in Nat /\ ~(m < since)
    BY <1>1, <1>2, GroupParts
  <2>2. m >= since
    BY <1>3, <2>1
  <2> QED BY <1>1, <1>4, <1>5, <2>2 DEF UnsentMemories, OfKind
<1> QED BY <1>6, <1>7, <1>8, <1>9

LEMMA AppendedSet ==
  ASSUME NEW p \in Seq(Nat), NEW q \in Seq(Nat)
  PROVE  p \o q \in Seq(Nat) /\ ToSet(p \o q) = ToSet(p) \cup ToSet(q)
<1> DEFINE s == p \o q
<1>1. /\ s \in Seq(Nat) /\ Len(p) \in Nat /\ Len(q) \in Nat /\ Len(s) = Len(p) + Len(q)
      /\ DOMAIN p = 1..Len(p) /\ DOMAIN q = 1..Len(q) /\ DOMAIN s = 1..Len(s)
      /\ \A i \in 1..Len(s) : s[i] = IF i <= Len(p) THEN p[i] ELSE q[i - Len(p)]
  OBVIOUS
<1> HIDE DEF s
<1>2. ToSet(s) \subseteq ToSet(p) \cup ToSet(q)
  <2> SUFFICES ASSUME NEW i \in 1..Len(s) PROVE s[i] \in ToSet(p) \cup ToSet(q)
    BY <1>1 DEF ToSet
  <2>1. CASE i <= Len(p)
    <3>1. i \in DOMAIN p /\ s[i] = p[i]
      BY <1>1, <2>1
    <3> QED BY <3>1 DEF ToSet
  <2>2. CASE ~(i <= Len(p))
    <3>1. i - Len(p) \in DOMAIN q /\ s[i] = q[i - Len(p)]
      BY <1>1, <2>2
    <3> QED BY <3>1 DEF ToSet
  <2> QED BY <2>1, <2>2
<1>3. ToSet(p) \subseteq ToSet(s)
  <2> SUFFICES ASSUME NEW i \in 1..Len(p) PROVE p[i] \in ToSet(s)
    BY <1>1 DEF ToSet
  <2>1. i \in 1..Len(s) /\ s[i] = p[i]
    BY <1>1
  <2> QED BY <1>1, <2>1 DEF ToSet
<1>4. ToSet(q) \subseteq ToSet(s)
  <2> SUFFICES ASSUME NEW i \in 1..Len(q) PROVE q[i] \in ToSet(s)
    BY <1>1 DEF ToSet
  <2>1. i + Len(p) \in 1..Len(s) /\ ~(i + Len(p) <= Len(p)) /\ (i + Len(p)) - Len(p) = i
    BY <1>1
  <2>2. s[i + Len(p)] = q[i]
    BY <1>1, <2>1
  <2> QED BY <1>1, <2>1, <2>2 DEF ToSet
<1> QED BY <1>1, <1>2, <1>3, <1>4 DEF s

LEMMA PollMemoryKeeps == ASSUME GroupInv, PollMemory PROVE GroupInv'
<1> USE DEF GroupInv
<1> DEFINE unsent == UnsentMemories
           n == Len(memories)
           since == Max(unsent \cup {memoryConn.since})
           wire == memoryConn.wire \o Ascending(unsent)
<1>1. /\ memoryConn.state = "up"
      /\ memoryConn' = [memoryConn EXCEPT !.since = since, !.wire = wire]
      /\ UNCHANGED <<memories, unsaved, lists, openList, query, posting, groupToggles, missed>>
  BY DEF PollMemory
<1>2. openList \in MemoryKind
  BY <1>1 DEF GroupKinds
<1>3. n \in Nat /\ unsent \subseteq OfKind(openList) /\ unsent \subseteq 1..n
  BY <1>2, GroupParts DEF UnsentMemories
<1>4. \A m \in OfKind(openList) \ (lists[openList] \cup ToSet(memoryConn.wire)) :
         m >= memoryConn.since => m \in unsent
  BY DEF UnsentMemories
<1> HIDE DEF unsent, n
<1>5. since \in Nat /\ since <= n + 1
  <2> DEFINE S == unsent \cup {memoryConn.since}
  <2>1. memoryConn.since \in Nat /\ memoryConn.since <= n + 1
    BY GroupParts DEF GroupKinds, n
  <2>2. S \in SUBSET Nat /\ S # {} /\ \A m \in S : m <= n + 1
    <3>1. \A m \in unsent : m \in Nat /\ m <= n + 1
      BY <1>3
    <3>2. \A m \in S : m \in unsent \/ m = memoryConn.since
      OBVIOUS
    <3>3. S # {}
      OBVIOUS
    <3> HIDE DEF S
    <3> QED BY <2>1, <3>1, <3>2, <3>3
  <2>3. n + 1 \in Nat
    BY <1>3
  <2> HIDE DEF S
  <2>4. Max(S) \in S
    BY <2>2, <2>3, MaxIs
  <2>5. Max(S) \in Nat /\ Max(S) <= n + 1
    BY <2>2, <2>4
  <2> QED BY <2>5 DEF S
<1>6. wire \in Seq(Nat) /\ ToSet(wire) = ToSet(memoryConn.wire) \cup unsent
  <2>1. Ascending(unsent) \in Seq(unsent) /\ ToSet(Ascending(unsent)) = unsent
    BY <1>3, AscendingIs
  <2>2. Ascending(unsent) \in Seq(Nat)
    <3>1. unsent \subseteq Nat
      BY <1>3
    <3> DEFINE q == Ascending(unsent)
    <3>2. q \in Seq(unsent) /\ ToSet(q) = unsent
      BY <2>1
    <3> HIDE DEF q
    <3>3. ASSUME NEW i \in 1..Len(q) PROVE q[i] \in Nat
      <4>1. q[i] \in ToSet(q)
        BY <3>2 DEF ToSet
      <4> QED BY <3>1, <3>2, <4>1
    <3>4. q = [i \in 1..Len(q) |-> q[i]] /\ Len(q) \in Nat
      BY <3>2
    <3>5. q \in Seq(Nat)
      BY <3>3, <3>4
    <3> QED BY <3>5 DEF q
  <2> QED BY <2>1, <2>2, AppendedSet, GroupParts
<1> HIDE DEF since, wire
<1>7. /\ memoryConn'.state = "up" /\ memoryConn'.since = since /\ memoryConn'.wire = wire
      /\ memoryConn' \in ConnType
  BY <1>1, <1>5, <1>6 DEF GroupTypeOK, ConnType
<1>8. GroupTypeOK'
  BY <1>1, <1>7 DEF GroupTypeOK, ConnType
<1>9. GroupKinds'
  BY <1>1, <1>2, <1>3, <1>5, <1>6, <1>7, SameKinds DEF GroupKinds, n
<1>10. ListsApart'
  BY <1>1, SameKinds DEF ListsApart
<1>11. MemoriesShownOrComing'
  <2> SUFFICES ASSUME NEW m \in OfKind(openList), m \notin lists[openList] \cup missed,
                      m \notin ToSet(wire), query[openList].phase # "sent"
               PROVE  query[openList].phase = "read" /\ m \in query[openList].rows
    BY <1>1, <1>7 DEF MemoriesShownOrComing, OfKind
  <2>1. m \notin ToSet(memoryConn.wire) /\ m \notin UnsentMemories
    BY <1>6 DEF unsent
  <2> QED BY <1>1, <2>1 DEF MemoriesShownOrComing
<1> QED BY <1>8, <1>9, <1>10, <1>11

LEMMA MemoryStreamedKeeps == ASSUME GroupInv, MemoryStreamed PROVE GroupInv'
<1> USE DEF GroupInv
<1> DEFINE wire == memoryConn.wire
           m0 == Head(wire)
           rest == Tail(wire)
<1>1. /\ wire # <<>> /\ lists' = [lists EXCEPT ![openList] = @ \cup {m0}]
      /\ memoryConn' = [memoryConn EXCEPT !.wire = rest]
      /\ UNCHANGED <<memories, unsaved, openList, query, posting, groupToggles, missed>>
  BY DEF MemoryStreamed
<1>2. memoryConn.state = "up" /\ openList \in MemoryKind
  BY <1>1 DEF GroupKinds
<1>3. rest \in Seq(Nat) /\ ToSet(wire) = {m0} \cup ToSet(rest)
  <2>1. wire \in Seq(Nat) /\ Len(wire) \in Nat \ {0} /\ DOMAIN wire = 1..Len(wire) /\ m0 = wire[1]
    BY <1>1, GroupParts
  <2>2. /\ rest \in Seq(Nat) /\ DOMAIN rest = 1..(Len(wire) - 1)
        /\ \A i \in DOMAIN rest : i + 1 \in DOMAIN wire /\ rest[i] = wire[i + 1]
    BY <1>1, <2>1
  <2>3. \A i \in DOMAIN wire : i = 1 \/ (i - 1 \in DOMAIN rest /\ wire[i] = rest[i - 1])
    <3> SUFFICES ASSUME NEW i \in DOMAIN wire, i # 1
                 PROVE  i - 1 \in DOMAIN rest /\ wire[i] = rest[i - 1]
      OBVIOUS
    <3>1. i - 1 \in 1..(Len(wire) - 1) /\ (i - 1) + 1 = i
      BY <2>1
    <3>2. i - 1 \in DOMAIN rest
      BY <2>2, <3>1
    <3> QED BY <2>2, <3>1, <3>2
  <2>4. 1 \in DOMAIN wire
    BY <2>1
  <2>5. m0 \in ToSet(wire) /\ m0 = wire[1]
    BY <2>1, <2>4 DEF ToSet
  <2>6. \A i \in DOMAIN rest : rest[i] \in ToSet(wire)
    BY <2>2 DEF ToSet
  <2>7. \A i \in DOMAIN wire : wire[i] = m0 \/ wire[i] \in ToSet(rest)
    <3> HIDE DEF wire, m0, rest
    <3> QED BY <2>3, <2>5 DEF ToSet
  <2> HIDE DEF wire, m0, rest
  <2> QED BY <2>2, <2>5, <2>6, <2>7 DEF ToSet
<1>4. /\ memoryConn'.state = "up" /\ memoryConn'.since = memoryConn.since /\ memoryConn'.wire = rest
      /\ memoryConn' \in ConnType
  BY <1>1, <1>2, <1>3 DEF GroupTypeOK, ConnType
<1>5. ToSet(wire) \subseteq OfKind(openList)
  BY DEF GroupKinds
<1> HIDE DEF wire, m0, rest
<1>6. m0 \in OfKind(openList) /\ ToSet(rest) \subseteq OfKind(openList)
  BY <1>3, <1>5
<1>7. /\ lists'[openList] = lists[openList] \cup {m0}
      /\ \A k \in MemoryKind \ {openList} : lists'[k] = lists[k]
      /\ lists' \in [MemoryKind -> SUBSET DOMAIN memories]
  <2>1. m0 \in DOMAIN memories
    BY <1>6 DEF OfKind
  <2> QED BY <1>1, <1>2, <2>1 DEF GroupTypeOK
<1>8. GroupTypeOK'
  BY <1>1, <1>4, <1>7 DEF GroupTypeOK, ConnType
<1>9. GroupKinds'
  BY <1>1, <1>2, <1>4, <1>6, SameKinds DEF GroupKinds
<1>10. ListsApart'
  <2>1. \A k \in MemoryKind : lists'[k] \subseteq OfKind(k)
    BY <1>6, <1>7 DEF ListsApart
  <2> QED BY <1>1, <2>1, SameKinds DEF ListsApart
<1>11. MemoriesShownOrComing'
  <2> SUFFICES ASSUME NEW m \in OfKind(openList), m \notin lists'[openList] \cup missed,
                      m \notin ToSet(rest) \cup UnsentMemories', query[openList].phase # "sent"
               PROVE  query[openList].phase = "read" /\ m \in query[openList].rows
    BY <1>1, <1>4 DEF MemoriesShownOrComing, OfKind
  <2>1. m \notin lists[openList] /\ m \notin ToSet(wire)
    BY <1>3, <1>7
  <2>2. m \notin UnsentMemories
    <3>1. UnsentMemories' = {i \in OfKind(openList) : i >= memoryConn.since}
                               \ (ToSet(rest) \cup lists'[openList])
      BY <1>1, <1>4 DEF UnsentMemories, OfKind
    <3>2. ~(m >= memoryConn.since)
      BY <3>1
    <3> QED BY <3>2 DEF UnsentMemories
  <2> QED BY <1>2, <2>1, <2>2 DEF MemoriesShownOrComing, wire
<1> QED BY <1>8, <1>9, <1>10, <1>11
-----------------------------------------------------------------------------
LEMMA SendMemoryKeeps == ASSUME GroupInv, SendMemory PROVE GroupInv'
<1> USE DEF GroupInv
<1> DEFINE post == [kind |-> openList, id |-> 0]
<1>1. /\ openList # "none" /\ posting' = {post}
      /\ UNCHANGED <<memories, unsaved, lists, openList, query, memoryConn, groupToggles, missed>>
  BY DEF SendMemory
<1>2. post \in [kind : MemoryKind, id : Nat] /\ post.id = 0
  BY <1>1 DEF GroupTypeOK
<1> HIDE DEF post
<1>3. GroupTypeOK'
  BY <1>1, <1>2 DEF GroupTypeOK
<1>4. GroupKinds'
  BY <1>1, <1>2, SameKinds DEF GroupKinds
<1>5. ListsApart' /\ MemoriesShownOrComing'
  BY <1>1 DEF ListsApart, MemoriesShownOrComing, UnsentMemories, OfKind
<1> QED BY <1>3, <1>4, <1>5

\* The answer is merged into the list of its kind, whichever list is open.
LEMMA MemorySentKeeps == ASSUME GroupInv, NEW p \in posting, MemorySent(p) PROVE GroupInv'
<1> USE DEF GroupInv
<1>1. /\ p.id > 0 /\ posting' = {} /\ lists' = [lists EXCEPT ![p.kind] = @ \cup {p.id}]
      /\ UNCHANGED <<memories, unsaved, openList, query, memoryConn, groupToggles, missed>>
  BY DEF MemorySent
<1>2. p.kind \in MemoryKind /\ p.id \in OfKind(p.kind)
  <2>1. p.kind \in MemoryKind /\ p.id \in Nat /\ p.id # 0 /\ p.id \notin unsaved
    BY <1>1 DEF GroupTypeOK, MemorySent
  <2> QED BY <2>1 DEF GroupKinds, OfKind
<1>3. /\ lists' \in [MemoryKind -> SUBSET DOMAIN memories]
      /\ \A k \in MemoryKind : /\ lists[k] \subseteq lists'[k]
                               /\ lists'[k] \subseteq lists[k] \cup OfKind(k)
  <2>1. p.id \in DOMAIN memories
    BY <1>2 DEF OfKind
  <2> QED BY <1>1, <1>2, <2>1 DEF GroupTypeOK
<1>4. GroupTypeOK'
  BY <1>1, <1>3 DEF GroupTypeOK
<1>5. GroupKinds'
  BY <1>1, SameKinds DEF GroupKinds
<1>6. ListsApart'
  <2>1. \A k \in MemoryKind : lists'[k] \subseteq OfKind(k)
    BY <1>3 DEF ListsApart
  <2> QED BY <1>1, <2>1, SameKinds DEF ListsApart
<1>7. MemoriesShownOrComing'
  <2> SUFFICES ASSUME memoryConn.state = "up",
                      NEW m \in OfKind(openList), m \notin lists'[openList] \cup missed,
                      m \notin ToSet(memoryConn.wire) \cup UnsentMemories',
                      query[openList].phase # "sent"
               PROVE  query[openList].phase = "read" /\ m \in query[openList].rows
    BY <1>1 DEF MemoriesShownOrComing, OfKind
  <2>1. openList \in MemoryKind
    BY DEF GroupKinds
  <2>2. m \notin lists[openList]
    BY <1>3, <2>1
  <2>3. m \notin UnsentMemories
    BY <1>1 DEF UnsentMemories, OfKind
  <2> QED BY <2>2, <2>3 DEF MemoriesShownOrComing
<1> QED BY <1>4, <1>5, <1>6, <1>7

LEMMA NothingSentKeeps ==
  ASSUME GroupInv, (\E p \in posting : SendMemoryFails(p)) \/ UNCHANGED groupVars PROVE GroupInv'
<1> USE DEF GroupInv
<1>1. /\ posting' \subseteq posting
      /\ UNCHANGED <<memories, unsaved, lists, openList, query, memoryConn, groupToggles, missed>>
  BY DEF SendMemoryFails, groupVars
<1>2. GroupTypeOK'
  BY <1>1 DEF GroupTypeOK
<1>3. GroupKinds'
  BY <1>1, SameKinds DEF GroupKinds
<1>4. ListsApart' /\ MemoriesShownOrComing'
  BY <1>1 DEF ListsApart, MemoriesShownOrComing, UnsentMemories, OfKind
<1> QED BY <1>2, <1>3, <1>4
-----------------------------------------------------------------------------
LEMMA GroupStep == GroupInv /\ [GroupNext]_groupVars => GroupInv'
<1> SUFFICES ASSUME GroupInv, [GroupNext]_groupVars PROVE GroupInv'
  OBVIOUS
<1>1. ASSUME NEW k \in MemoryKind,
             \/ MemoryWritten(k) \/ Activate(k)
             \/ HistoryRead(k) \/ HistoryMerged(k) \/ HistoryFails(k)
      PROVE  GroupInv'
  BY <1>1, MemoryWrittenKeeps, ActivateKeeps, HistoryReadKeeps, HistoryMergedKeeps, HistoryFailsKeeps
<1>2. ASSUME NEW p \in posting, ServeMemory(p) \/ MemorySent(p) PROVE GroupInv'
  BY <1>2, ServeMemoryKeeps, MemorySentKeeps
<1>3. ASSUME NEW m \in unsaved, MemoryCommits(m) PROVE GroupInv'
  BY <1>3, MemoryCommitsKeeps
<1> QED BY <1>1, <1>2, <1>3, DeactivateKeeps, ConnectMemoryKeeps, PollMemoryKeeps, MemoryStreamedKeeps,
           StreamBreaksKeeps, SendMemoryKeeps, NothingSentKeeps DEF GroupNext

LEMMA GroupInvariant == GroupSpec => []GroupInv
BY GroupInitial, GroupStep, PTL DEF GroupSpec

LEMMA GroupTyped == GroupSpec => []GroupTypeOK
<1>1. GroupInv => GroupTypeOK
  BY DEF GroupInv
<1> QED BY GroupInvariant, <1>1, PTL

\* However often the panels of the group page are toggled: each lists messages of its own kind.
THEOREM PanelsListTheirOwn == GroupSpec => []ListsApart
<1>1. GroupInv => ListsApart
  BY DEF GroupInv
<1> QED BY GroupInvariant, <1>1, PTL

\* While its stream is up, the open panel shows each message, or the stream or the history
\* brings it, unless neither the history read nor latestMemoryTimestamp covers it, or it was
\* committed behind the stream's cursor.
THEOREM MemoriesComing == GroupSpec => []MemoriesShownOrComing
<1>1. GroupInv => MemoriesShownOrComing
  BY DEF GroupInv
<1> QED BY GroupInvariant, <1>1, PTL
-----------------------------------------------------------------------------
(***************************************************************************)
(* The list of the activity page.                                          *)
(***************************************************************************)
\* A row of the server or of the page, and an entry of the list.
FeedRow == {NotAsked} \cup [st : {"pending", "approved"}, made : Nat, done : Nat]

FeedEntry == {TaskItem(n) : n \in Nat} \cup
             [kind : {"approval"}, what : {"created", "approved", "updated"}, id : FeedApproval, at : Nat]

\* A list of the page, and what may be queued to become it.
ShortList == {q \in Seq(FeedEntry) : Len(q) <= MaxFeedItems}
FeedUpdate == {u \in [push : BOOLEAN, items : ShortList] :
                  u.push => \E e \in FeedEntry : u.items = <<e>>}
FeedState == [items : ShortList, seen : SUBSET FeedEntry]

TaskConn == [up : BOOLEAN, since : Nat, sent : SUBSET Nat, wire : Seq(Nat)]
ApprovalConn == [up : BOOLEAN, since : Nat, sent : SUBSET Nat,
                 wire : Seq(FeedApproval \X (FeedRow \ {NotAsked}))]

FeedTyped ==
    /\ taskEvents \in SUBSET Nat /\ openEvents \in SUBSET Nat /\ boardless \in SUBSET Nat
    /\ lostItems \in SUBSET Nat /\ feedEvents \in Nat
    /\ asked \in [FeedApproval -> FeedRow] /\ knownApproval \in [FeedApproval -> FeedRow]
    /\ seed \in [phase : {"boards", "snapshot", "snapshotRead", "activity", "activityRead",
                          "done", "failed"},
                 rows : [FeedApproval -> FeedRow], tasks : SUBSET Nat,
                 metas : SUBSET {FeedTaskOf[n] : n \in Nat}, boardless : SUBSET Nat, runs : {1, 2}]
    /\ hasBoards \in BOOLEAN
    /\ feedItems \in ShortList /\ seenIds \in SUBSET FeedEntry
    /\ updates \in Seq(FeedUpdate)
    /\ feedStream \in [FeedKind -> TaskConn \cup ApprovalConn]
    /\ feedStream["task"] \in TaskConn /\ feedStream["approval"] \in ApprovalConn

\* Stamps are given in turn.
FeedStamps ==
    /\ taskEvents \subseteq 1..(feedEvents + 1) /\ openEvents \subseteq 1..(feedEvents + 1)
    /\ taskEvents \cap openEvents = {}
    /\ \A a \in FeedApproval : asked[a].made <= feedEvents + 1 /\ asked[a].done <= feedEvents + 1
    /\ seed.tasks \subseteq taskEvents

\* A list without repetitions whose ids are seen.
Guarded(items, seen) == IsInjective(items) /\ ToSet(items) \subseteq seen

\* The k-th update is the last that replaces the list, or none does.
LastList(k, items, us, seen) ==
    /\ \A i \in DOMAIN us : i > k => us[i].push
    /\ k > 0 => ~us[k].push
    /\ Guarded(IF k = 0 THEN items ELSE us[k].items, seen)

\* However many updates wait, pushes are guarded from the last replacement on.
OnceInv == /\ IsInjective(feedItems)
           /\ \E k \in 0..Len(updates) : LastList(k, feedItems, updates, seenIds)

\* The items of queued updates.
QueuedIn(us) == UNION {ToSet(us[i].items) : i \in DOMAIN us}

\* Task event n is in the list or in an update of it.
IsShown(n) == TaskItem(n) \in ToSet(feedItems) \cup QueuedIn(updates)

\* A poll will send event n.
ToBeSent(n) == n \notin feedStream["task"].sent /\ n >= feedStream["task"].since

\* The stream of task events sends each once, in their order.
TaskStreamInv ==
    LET conn == feedStream["task"]
    IN /\ ToSet(conn.wire) \subseteq conn.sent
       /\ conn.sent \subseteq taskEvents
       /\ ~conn.up => conn.wire = <<>>
       /\ \A i, j \in DOMAIN conn.wire : i < j => conn.wire[i] < conn.wire[j]
       /\ \A m \in conn.sent : m <= conn.since

\* What the seed has not read is newer than what it has, but for late commits.
SeedInv == seed.phase = "activityRead" =>
              \A n \in taskEvents \ (seed.tasks \cup lostItems), m \in seed.tasks : m < n

\* What is shown happened; what was seen is shown or lost.
SeenInv == \A n \in Nat : /\ IsShown(n) => n \in taskEvents
                          /\ TaskItem(n) \in seenIds => n \in lostItems \/ IsShown(n)

\* The seed has been set, or will be without event n.
Unseeded(n) == seed.phase = "done" \/ (seed.phase = "activityRead" /\ n \notin seed.tasks)

\* What is not shown is newer than what is, and comes by the stream, or by the next one.
FollowedInv ==
    \A n \in taskEvents \ lostItems : Unseeded(n) /\ ~IsShown(n) =>
        /\ \A m \in taskEvents : IsShown(m) => m < n
        /\ feedStream["task"].up => \/ n \in ToSet(feedStream["task"].wire)
                                   \/ ToBeSent(n)

FeedInv == /\ FeedTyped /\ FeedStamps /\ OnceInv
           /\ TaskStreamInv /\ SeedInv /\ SeenInv /\ FollowedInv
-----------------------------------------------------------------------------

\* The list after the updates numbered s, when acc is the one before the last of them.
RunNext(start, us, s, acc) == IF s = {} THEN start ELSE Updated(acc, us[Max(s)])

IsRun(run, start, us, N) ==
    run = [s \in SUBSET (1..N) |-> RunNext(start, us, s, run[s \ {Max(s)}])]

\* The last of some of the first n numbers.
LEMMA LastOf ==
  ASSUME NEW n \in Nat, NEW s \in SUBSET (1..n), s # {}
  PROVE  Max(s) \in s /\ s \ {Max(s)} \in SUBSET (1..(n - 1))
<1>1. s \in SUBSET Nat /\ \A x \in s : x <= n
  OBVIOUS
<1>2. Max(s) \in s /\ \A x \in s : x <= Max(s)
  BY <1>1, MaxIs
<1>3. ASSUME NEW x \in s \ {Max(s)} PROVE x \in 1..(n - 1)
  <2> DEFINE m == Max(s)
  <2>1. m \in 1..n /\ x \in 1..n /\ x <= m /\ x # m
    BY <1>2
  <2> HIDE DEF m
  <2> QED BY <2>1
<1> QED BY <1>2, <1>3

\* A run of the updates exists...
LEMMA RunExists ==
  ASSUME NEW start, NEW us, NEW N \in Nat
  PROVE  \E run : IsRun(run, start, us, N)
<1> DEFINE rest(s) == s \ {Max(s)}
           good(g, n) == \A s \in SUBSET (1..n) : g[s] = RunNext(start, us, s, g[rest(s)])
           P == {n \in Nat : n <= N => \E g : DOMAIN g = SUBSET (1..N) /\ good(g, n)}
<1>1. \A n \in Nat : \A s \in SUBSET (1..n) : s # {} => rest(s) \in SUBSET (1..(n - 1))
  BY LastOf
<1>2. \A n \in Nat : n <= N => SUBSET (1..n) \subseteq SUBSET (1..N)
  OBVIOUS
<1> HIDE DEF rest
<1>3. 0 \in P
  <2> DEFINE g == [s \in SUBSET (1..N) |-> start]
  <2>1. \A s \in SUBSET (1..0) : s = {} /\ s \in SUBSET (1..N)
    OBVIOUS
  <2>2. \A s \in SUBSET (1..0) : g[s] = RunNext(start, us, s, g[rest(s)])
    BY <2>1 DEF RunNext
  <2>3. DOMAIN g = SUBSET (1..N)
    OBVIOUS
  <2> HIDE DEF g
  <2> QED BY <2>2, <2>3
<1>4. ASSUME NEW n \in P PROVE n + 1 \in P
  <2>0. n \in Nat /\ n + 1 \in Nat
    <3> HIDE DEF good
    <3> QED OBVIOUS
  <2> SUFFICES ASSUME n + 1 <= N PROVE \E g : DOMAIN g = SUBSET (1..N) /\ good(g, n + 1)
    <3> HIDE DEF good
    <3> QED BY <2>0
  <2>1. PICK g : DOMAIN g = SUBSET (1..N) /\ good(g, n)
    <3> HIDE DEF good
    <3> QED BY <2>0
  <2> DEFINE h == [s \in SUBSET (1..N) |-> IF s \in SUBSET (1..n) THEN g[s]
                                           ELSE RunNext(start, us, s, g[rest(s)])]
  <2>2. ASSUME NEW s \in SUBSET (1..(n + 1))
        PROVE  h[s] = RunNext(start, us, s, h[rest(s)])
    <3>1. s \in SUBSET (1..N)
      BY <1>2, <2>0
    <3>2. h[s] = RunNext(start, us, s, g[rest(s)])
      BY <2>1, <3>1
    <3>3. CASE s = {}
      BY <3>2, <3>3 DEF RunNext
    <3>4. CASE s # {}
      <4>1. (n + 1) - 1 = n
        BY <2>0
      <4>2. rest(s) \in SUBSET (1..n)
        BY <1>1, <2>0, <3>4, <4>1
      <4>3. rest(s) \in SUBSET (1..N)
        BY <1>2, <2>0, <4>2
      <4>4. h[rest(s)] = g[rest(s)]
        BY <4>2, <4>3
      <4> QED BY <3>2, <4>4
    <3> QED BY <3>3, <3>4
  <2>3. DOMAIN h = SUBSET (1..N)
    OBVIOUS
  <2> HIDE DEF h
  <2> QED BY <2>2, <2>3
<1>5. P \in SUBSET Nat
  OBVIOUS
<1>6. P = Nat
  <2> HIDE DEF P
  <2> QED BY <1>3, <1>4, <1>5, AllNat
<1>7. PICK g : DOMAIN g = SUBSET (1..N) /\ good(g, N)
  <2>1. N \in P
    <3> HIDE DEF P
    <3> QED BY <1>6
  <2>2. N <= N
    OBVIOUS
  <2> HIDE DEF good
  <2> QED BY <2>1, <2>2
<1> DEFINE run == [s \in SUBSET (1..N) |-> g[s]]
<1>8. ASSUME NEW s \in SUBSET (1..N) PROVE run[s] = RunNext(start, us, s, run[rest(s)])
  <2>1. run[s] = RunNext(start, us, s, g[rest(s)])
    BY <1>7
  <2>2. CASE s = {}
    BY <2>1, <2>2 DEF RunNext
  <2>3. CASE s # {}
    <3>1. rest(s) \in SUBSET (1..N)
      BY DEF rest
    <3> QED BY <2>1, <3>1
  <2> QED BY <2>2, <2>3
<1>9. run = [s \in SUBSET (1..N) |-> RunNext(start, us, s, run[rest(s)])]
  <2>1. run = [s \in SUBSET (1..N) |-> run[s]]
    OBVIOUS
  <2> HIDE DEF run
  <2> QED BY <1>8, <2>1
<1> HIDE DEF run
<1> QED BY <1>9 DEF IsRun, rest

\* The first k of N positions: not none of them, k the last, and the first k - 1 without it.
LEMMA FirstPositions ==
  ASSUME NEW N \in Nat, NEW k \in 1..N
  PROVE  /\ 1..k \in SUBSET (1..N) /\ 1..k \in SUBSET Nat
         /\ 1..k # {} /\ k \in 1..k /\ k \in Nat
         /\ \A x \in 1..k : x <= k
         /\ (1..k) \ {k} = 1..(k - 1)
         /\ k \in 0..N /\ k - 1 \in 0..N
<1>1. k \in Nat /\ 1 <= k /\ k <= N
  OBVIOUS
<1>2. k \in 1..k
  BY <1>1
<1>3. ASSUME NEW x \in 1..k PROVE x \in 1..N /\ x \in Nat /\ x <= k
  BY <1>1
<1>4. (1..k) \ {k} = 1..(k - 1)
  <2>1. ASSUME NEW x PROVE x \in (1..k) \ {k} <=> x \in 1..(k - 1)
    BY <1>1
  <2> QED BY <2>1, Zenon
<1>5. k \in 0..N /\ k - 1 \in 0..N
  BY <1>1
<1>6. 1..k # {}
  BY <1>2, Zenon
<1>7. 1..k \in SUBSET (1..N) /\ 1..k \in SUBSET Nat
  BY <1>3, Zenon
<1> QED BY <1>1, <1>2, <1>3, <1>4, <1>5, <1>6, <1>7, Zenon

\* What React renders is the end of such a run, an update at a time.
LEMMA RenderingIs ==
  ASSUME NEW start, NEW us, NEW N \in Nat, DOMAIN us = 1..N
  PROVE  \E g : /\ g[0] = start
                /\ \A k \in 1..N : g[k] = Updated(g[k - 1], us[k])
                /\ Rendered(start, us) = g[N]
<1> DEFINE run == CHOOSE f : f = [s \in SUBSET (DOMAIN us) |->
                                    IF s = {} THEN start
                                    ELSE Updated(f[s \ {Max(s)}], us[Max(s)])]
<1>1. Rendered(start, us) = run[DOMAIN us]
  BY DEF Rendered, FoldLeft, MapThenFoldSet
<1>2. IsRun(run, start, us, N)
  <2>1. PICK f : IsRun(f, start, us, N)
    BY RunExists
  <2>2. f = [s \in SUBSET (DOMAIN us) |-> IF s = {} THEN start
                                          ELSE Updated(f[s \ {Max(s)}], us[Max(s)])]
    BY <2>1 DEF IsRun, RunNext
  <2>3. run = [s \in SUBSET (DOMAIN us) |-> IF s = {} THEN start
                                            ELSE Updated(run[s \ {Max(s)}], us[Max(s)])]
    BY <2>2
  <2> HIDE DEF run
  <2> QED BY <2>3 DEF IsRun, RunNext
<1> HIDE DEF run
<1> DEFINE g == [k \in 0..N |-> run[1..k]]
<1>3. g[0] = start
  <2>1. 1..0 = {} /\ 0 \in 0..N /\ {} \in SUBSET (1..N)
    OBVIOUS
  <2>2. run[{}] = start
    BY <1>2, <2>1 DEF IsRun, RunNext
  <2> QED BY <2>1, <2>2
<1>4. ASSUME NEW k \in 1..N PROVE g[k] = Updated(g[k - 1], us[k])
  <2>1. 1..k \in SUBSET (1..N) /\ 1..k # {} /\ k \in 1..k
    BY FirstPositions, Zenon
  <2>2. Max(1..k) = k
    <3>1. Max(1..k) \in 1..k /\ \A x \in 1..k : x <= Max(1..k)
      <4>1. 1..k \in SUBSET Nat /\ k \in Nat /\ \A x \in 1..k : x <= k
        BY FirstPositions, Zenon
      <4> QED BY <2>1, <4>1, MaxIs
    <3>2. k <= Max(1..k)
      BY <2>1, <3>1
    <3> QED BY <3>1, <3>2
  <2>3. (1..k) \ {k} = 1..(k - 1)
    BY FirstPositions, Zenon
  <2>4. run[1..k] = Updated(run[1..(k - 1)], us[k])
    BY <1>2, <2>1, <2>2, <2>3 DEF IsRun, RunNext
  <2>5. k \in 0..N /\ k - 1 \in 0..N
    BY FirstPositions, Zenon
  <2> QED BY <2>4, <2>5
<1>5. Rendered(start, us) = g[N]
  BY <1>1
<1> HIDE DEF g
<1> QED BY <1>3, <1>4, <1>5
-----------------------------------------------------------------------------
\* What the constants are.
LEMMA FeedBounds == MaxFeedItems \in Nat \ {0} /\ IsFiniteSet(FeedApproval)
BY FeedBoundsAssumption

\* A push puts the item in front of a list that does not become too long or repeat itself.
LEMMA PushedIs ==
  ASSUME NEW items \in ShortList, NEW seen \in SUBSET FeedEntry, NEW e \in FeedEntry, NEW next,
         next = Pushed([items |-> items, seen |-> seen], e)
  PROVE  /\ next \in FeedState
         /\ ToSet(next.items) \subseteq ToSet(items) \cup {e}
         /\ e \in ToSet(next.items) \/ (e \in seen /\ next.items = items)
         /\ next.seen = seen \cup {e}
         /\ Guarded(items, seen) => Guarded(next.items, next.seen)
<1>1. items \in Seq(FeedEntry) /\ Len(items) \in Nat /\ Len(items) <= MaxFeedItems
  BY DEF ShortList
<1>2. CASE e \in seen
  <2>1. next = [items |-> items, seen |-> seen]
    BY <1>2 DEF Pushed
  <2> QED BY <1>2, <2>1 DEF FeedState
<1>3. CASE e \notin seen
  <2> DEFINE q == <<e>> \o items
             m == IF Len(items) < MaxFeedItems THEN Len(items) + 1 ELSE MaxFeedItems
             r == SubSeq(q, 1, m)
  <2>1. next = [items |-> r, seen |-> seen \cup {e}]
    BY <1>3 DEF Pushed
  <2>2. m \in Nat /\ m >= 1 /\ m <= Len(items) + 1 /\ m <= MaxFeedItems
    BY <1>1, FeedBounds
  <2>3. /\ q \in Seq(FeedEntry) /\ Len(q) = Len(items) + 1 /\ q[1] = e
        /\ \A i \in 2..(Len(items) + 1) : q[i] = items[i - 1]
    BY <1>1
  <2> HIDE DEF q, m
  <2>4. r \in Seq(FeedEntry) /\ Len(r) = m /\ \A i \in 1..m : r[i] = q[i]
    BY <2>2, <2>3
  <2> HIDE DEF r
  <2>5. r[1] = e /\ 1 \in DOMAIN r /\ DOMAIN r = 1..m
    BY <2>2, <2>3, <2>4
  <2>6. ASSUME NEW i \in DOMAIN r, i # 1
        PROVE  i - 1 \in DOMAIN items /\ r[i] = items[i - 1]
    <3>1. i \in 2..(Len(items) + 1) /\ i - 1 \in 1..Len(items)
      BY <1>1, <2>2, <2>5, <2>6
    <3> QED BY <1>1, <2>3, <2>4, <2>5, <3>1
  <2>7. ToSet(r) \subseteq ToSet(items) \cup {e} /\ e \in ToSet(r)
    BY <2>5, <2>6 DEF ToSet
  <2>8. ASSUME Guarded(items, seen) PROVE Guarded(r, seen \cup {e})
    <3>1. ToSet(r) \subseteq seen \cup {e}
      BY <2>7, <2>8 DEF Guarded
    <3>2. ASSUME NEW i \in DOMAIN r, NEW j \in DOMAIN r, r[i] = r[j] PROVE i = j
      <4>1. \A k \in DOMAIN items : items[k] # e
        BY <1>3, <2>8 DEF Guarded, ToSet
      <4>2. CASE i = 1 \/ j = 1
        BY <2>5, <2>6, <3>2, <4>1, <4>2
      <4>3. CASE i # 1 /\ j # 1
        <5>1. i - 1 = j - 1
          BY <2>6, <2>8, <3>2, <4>3 DEF Guarded, IsInjective
        <5>2. i \in Nat /\ j \in Nat
          BY <2>5
        <5> QED BY <5>1, <5>2
      <4> QED BY <4>2, <4>3
    <3> QED BY <3>1, <3>2 DEF Guarded, IsInjective
  <2>9. r \in ShortList
    BY <2>2, <2>4 DEF ShortList
  <2> QED BY <2>1, <2>7, <2>8, <2>9 DEF FeedState
<1> QED BY <1>2, <1>3

\* A queued update, of any list.
LEMMA UpdatedIs ==
  ASSUME NEW st \in FeedState, NEW u \in FeedUpdate, NEW next, next = Updated(st, u)
  PROVE  /\ next \in FeedState
         /\ ToSet(next.items) \subseteq ToSet(st.items) \cup ToSet(u.items)
         /\ st.seen \subseteq next.seen /\ next.seen \subseteq st.seen \cup ToSet(u.items)
         /\ u.push /\ Guarded(st.items, st.seen) => Guarded(next.items, next.seen)
         /\ ~u.push => next.items = u.items
<1>1. /\ u.push \in BOOLEAN /\ u.items \in ShortList
      /\ st.items \in ShortList /\ st.seen \in SUBSET FeedEntry
      /\ st = [items |-> st.items, seen |-> st.seen]
  BY DEF FeedUpdate, FeedState
<1>2. CASE u.push
  <2>1. PICK e \in FeedEntry : u.items = <<e>>
    BY <1>2 DEF FeedUpdate
  <2>2. Head(u.items) = e /\ ToSet(u.items) = {e}
    BY <2>1 DEF ToSet
  <2>3. next = Pushed([items |-> st.items, seen |-> st.seen], e)
    BY <1>1, <1>2, <2>2 DEF Updated
  <2>4. /\ next \in FeedState
        /\ ToSet(next.items) \subseteq ToSet(st.items) \cup {e}
        /\ next.seen = st.seen \cup {e}
        /\ Guarded(st.items, st.seen) => Guarded(next.items, next.seen)
    BY <1>1, <2>3, PushedIs
  <2> QED BY <1>2, <2>2, <2>4
<1>3. CASE ~u.push
  <2>1. next = [items |-> u.items, seen |-> st.seen]
    BY <1>1, <1>3 DEF Updated
  <2> QED BY <1>1, <1>3, <2>1 DEF FeedState
<1> QED BY <1>1, <1>2, <1>3

\* All queued updates in their order.
LEMMA RenderedIs ==
  ASSUME NEW items \in ShortList, NEW seen \in SUBSET FeedEntry, NEW us \in Seq(FeedUpdate), NEW next,
         next = Rendered([items |-> items, seen |-> seen], us)
  PROVE  /\ next \in FeedState
         /\ ToSet(next.items) \subseteq ToSet(items) \cup QueuedIn(us)
         /\ seen \subseteq next.seen /\ next.seen \subseteq seen \cup QueuedIn(us)
         /\ (\E k \in 0..Len(us) : LastList(k, items, us, seen)) => Guarded(next.items, next.seen)
<1> DEFINE N == Len(us)
<1>1. N \in Nat /\ DOMAIN us = 1..N
  OBVIOUS
<1> DEFINE start == [items |-> items, seen |-> seen]
<1>2. PICK g : /\ g[0] = [items |-> items, seen |-> seen]
               /\ \A k \in 1..N : g[k] = Updated(g[k - 1], us[k])
               /\ next = g[N]
  <2> HIDE DEF N, start
  <2>1. \E g : /\ g[0] = start
               /\ \A k \in 1..N : g[k] = Updated(g[k - 1], us[k])
               /\ Rendered(start, us) = g[N]
    BY <1>1, RenderingIs
  <2>2. next = Rendered(start, us)
    BY DEF start
  <2> QED BY <2>1, <2>2 DEF start
<1>3. \A k \in 1..N : us[k] \in FeedUpdate /\ ToSet(us[k].items) \subseteq QueuedIn(us)
  BY <1>1 DEF QueuedIn
<1> HIDE DEF N
<1> DEFINE fine(k) == /\ g[k] \in FeedState
                      /\ ToSet(g[k].items) \subseteq ToSet(items) \cup QueuedIn(us)
                      /\ seen \subseteq g[k].seen /\ g[k].seen \subseteq seen \cup QueuedIn(us)
           P == {k \in Nat : k <= N => fine(k)}
<1>4. 0 \in P
  BY <1>2 DEF FeedState
<1>5. ASSUME NEW k \in Nat, k <= N => fine(k), k + 1 <= N PROVE fine(k + 1)
  <2> DEFINE j == k + 1
  <2>1. j \in 1..N /\ k <= N /\ j - 1 = k
    BY <1>1, <1>5
  <2> HIDE DEF j
  <2>2. g[j] = Updated(g[k], us[j]) /\ us[j] \in FeedUpdate
    BY <1>2, <1>3, <2>1
  <2>3. fine(k)
    BY <1>5, <2>1
  <2>4. /\ g[j] \in FeedState
        /\ ToSet(g[j].items) \subseteq ToSet(g[k].items) \cup ToSet(us[j].items)
        /\ g[k].seen \subseteq g[j].seen
        /\ g[j].seen \subseteq g[k].seen \cup ToSet(us[j].items)
    BY <2>2, <2>3, UpdatedIs
  <2>5. fine(j)
    BY <1>3, <2>1, <2>3, <2>4
  <2> QED BY <2>5 DEF j
<1>6. \A k \in 0..N : fine(k)
  <2> HIDE DEF fine
  <2>1. P \in SUBSET Nat /\ \A k \in P : k + 1 \in P
    BY <1>5
  <2>2. P = Nat
    <3> HIDE DEF P
    <3> QED BY <1>4, <2>1, AllNat
  <2> QED BY <1>1, <2>2
<1>7. ASSUME NEW l \in 0..N, LastList(l, items, us, seen)
      PROVE  Guarded(g[N].items, g[N].seen)
  <2> DEFINE safe(k) == Guarded(g[k].items, g[k].seen)
             Q == {k \in Nat : l + k <= N => safe(l + k)}
  <2>0. l \in Nat
    OBVIOUS
  <2>1. safe(l)
    <3>1. CASE l = 0
      BY <1>2, <1>7, <3>1 DEF LastList
    <3>2. CASE l # 0
      <4>1. l \in 1..N /\ l - 1 \in 0..N
        BY <1>1, <3>2
      <4>2. g[l] = Updated(g[l - 1], us[l]) /\ us[l] \in FeedUpdate /\ g[l - 1] \in FeedState
        BY <1>2, <1>3, <1>6, <4>1
      <4>3. ~us[l].push /\ Guarded(us[l].items, seen)
        BY <1>7, <3>2, <4>1 DEF LastList
      <4>4. g[l].items = us[l].items
        BY <4>2, <4>3, UpdatedIs
      <4>5. seen \subseteq g[l].seen
        BY <1>6
      <4> QED BY <4>3, <4>4, <4>5 DEF Guarded
    <3> QED BY <3>1, <3>2
  <2>2. ASSUME NEW k \in Nat, l + k <= N => safe(l + k), l + (k + 1) <= N
        PROVE  safe(l + (k + 1))
    <3> DEFINE j == l + (k + 1)
    <3>1. j \in 1..N /\ j - 1 = l + k /\ l + k \in 0..N /\ j > l
      BY <1>1, <2>0, <2>2
    <3>2. us[j] \in FeedUpdate /\ us[j].push
      BY <1>1, <1>3, <1>7, <3>1 DEF LastList
    <3>3. g[j] = Updated(g[l + k], us[j]) /\ g[l + k] \in FeedState
      BY <1>2, <1>6, <3>1
    <3>4. Guarded(g[l + k].items, g[l + k].seen)
      BY <2>2, <3>1
    <3> HIDE DEF j
    <3>5. Guarded(g[j].items, g[j].seen)
      BY <3>2, <3>3, <3>4, UpdatedIs
    <3> QED BY <3>5 DEF j
  <2>3. Q = Nat
    <3>1. 0 \in Q
      BY <2>0, <2>1
    <3> HIDE DEF safe
    <3>2. Q \in SUBSET Nat /\ \A k \in Q : k + 1 \in Q
      BY <2>2
    <3> HIDE DEF Q
    <3> QED BY <3>1, <3>2, AllNat
  <2>4. N - l \in Nat /\ l + (N - l) = N
    BY <1>1, <2>0
  <2>5. N - l \in Q
    BY <2>3, <2>4
  <2>6. l + (N - l) <= N => safe(l + (N - l))
    <3> HIDE DEF safe
    <3> QED BY <2>5
  <2>7. N <= N
    BY <1>1
  <2> HIDE DEF safe
  <2>8. safe(N)
    BY <2>4, <2>6, <2>7
  <2> QED BY <2>8 DEF safe
<1>8. fine(N)
  BY <1>1, <1>6
<1>9. (\E k \in 0..Len(us) : LastList(k, items, us, seen)) => Guarded(next.items, next.seen)
  <2> SUFFICES ASSUME NEW k \in 0..Len(us), LastList(k, items, us, seen)
               PROVE  Guarded(next.items, next.seen)
    OBVIOUS
  <2> QED BY <1>2, <1>7 DEF N
<1> QED BY <1>2, <1>8, <1>9
-----------------------------------------------------------------------------
\* A row has its stamps.
LEMMA RowIs ==
  ASSUME NEW r \in FeedRow
  PROVE  r.made \in Nat /\ r.done \in Nat /\ RowStamp(r) \in Nat
BY DEF FeedRow, NotAsked, RowStamp

\* The clock of the board with events E and approvals R.
ClockAt(E, R) == Max({0} \cup E \cup {R[a].made : a \in FeedApproval} \cup {R[a].done : a \in FeedApproval})

\* ... is a stamp, and none is greater.
LEMMA ClockAtIs ==
  ASSUME NEW n \in Nat, NEW E \in SUBSET (1..n), NEW R \in [FeedApproval -> FeedRow],
         \A a \in FeedApproval : R[a].made <= n /\ R[a].done <= n
  PROVE  /\ ClockAt(E, R) \in Nat /\ ClockAt(E, R) <= n
         /\ \A x \in E : x <= ClockAt(E, R)
         /\ \A a \in FeedApproval : R[a].made <= ClockAt(E, R) /\ R[a].done <= ClockAt(E, R)
<1> DEFINE S == {0} \cup E \cup {R[a].made : a \in FeedApproval} \cup {R[a].done : a \in FeedApproval}
<1>1. \A a \in FeedApproval : R[a].made \in 0..n /\ R[a].done \in 0..n
  BY RowIs
<1>2. S \subseteq 0..n
  <2>1. 0 \in 0..n /\ E \subseteq 0..n
    OBVIOUS
  <2>2. /\ {R[a].made : a \in FeedApproval} \subseteq 0..n
        /\ {R[a].done : a \in FeedApproval} \subseteq 0..n
    BY <1>1, Zenon
  <2> QED BY <2>1, <2>2
<1>3. S \in SUBSET Nat /\ 0 \in S /\ \A x \in S : x <= n
  BY <1>2
<1>4. ClockAt(E, R) = Max(S)
  BY DEF ClockAt
<1> HIDE DEF S
<1>5. Max(S) \in S /\ \A x \in S : x <= Max(S)
  BY <1>3, MaxIs
<1>6. E \subseteq S /\ \A a \in FeedApproval : R[a].made \in S /\ R[a].done \in S
  BY DEF S
<1>7. ClockAt(E, R) \in S /\ \A x \in S : x <= ClockAt(E, R)
  BY <1>4, <1>5
<1> QED BY <1>3, <1>6, <1>7

\* A new event gets a stamp of its own.
LEMMA ClockIs ==
  ASSUME FeedTyped, FeedStamps
  PROVE  /\ FeedClock \in Nat /\ FeedClock <= feedEvents + 1
         /\ \A n \in taskEvents \cup openEvents : n <= FeedClock
<1> DEFINE E == taskEvents \cup openEvents
<1>1. FeedClock = ClockAt(E, asked)
  BY DEF FeedClock, ClockAt
<1>2. /\ feedEvents + 1 \in Nat /\ E \in SUBSET (1..(feedEvents + 1))
      /\ asked \in [FeedApproval -> FeedRow]
      /\ \A a \in FeedApproval : asked[a].made <= feedEvents + 1 /\ asked[a].done <= feedEvents + 1
  BY DEF FeedTyped, FeedStamps
<1> HIDE DEF E
<1> DEFINE c == ClockAt(E, asked)
<1>3. c \in Nat /\ c <= feedEvents + 1 /\ \A n \in E : n <= c
  BY <1>2, ClockAtIs
<1> QED BY <1>1, <1>3 DEF E

\* What the stream and the seed make of a row.
LEMMA ApprovalItemIs ==
  ASSUME NEW a \in FeedApproval, NEW r \in FeedRow \ {NotAsked}, NEW p \in FeedRow
  PROVE  ApprovalItem(a, r, p) \in FeedEntry /\ ApprovalItem(a, r, p).kind = "approval"
<1>1. r.st \in {"pending", "approved"} /\ r.made \in Nat /\ r.done \in Nat
  BY DEF FeedRow
<1> DEFINE what == CASE r.st # "pending" /\ r.st # p.st -> r.st
                     [] r.st = "pending" /\ p = NotAsked -> "created"
                     [] OTHER -> "updated"
           at == IF what = "created" \/ r.done = 0 THEN r.made ELSE r.done
<1>2. what \in {"created", "approved", "updated"}
  <2>1. CASE r.st # "pending" /\ r.st # p.st
    <3>1. what = r.st
      BY <2>1
    <3> QED BY <1>1, <2>1, <3>1
  <2>2. CASE r.st = "pending" /\ p = NotAsked
    <3>1. what = "created"
      BY <2>2
    <3> QED BY <3>1
  <2>3. CASE ~(r.st # "pending" /\ r.st # p.st) /\ ~(r.st = "pending" /\ p = NotAsked)
    <3>1. what = "updated"
      BY <2>3
    <3> QED BY <3>1
  <2> QED BY <2>1, <2>2, <2>3
<1>3. at \in Nat
  BY <1>1
<1>4. ApprovalItem(a, r, p) = [kind |-> "approval", what |-> what, id |-> a, at |-> at]
  BY DEF ApprovalItem
<1> HIDE DEF what, at
<1> QED BY <1>2, <1>3, <1>4 DEF FeedEntry

\* A task event's item.
LEMMA TaskItemIs ==
  ASSUME NEW n \in Nat
  PROVE  TaskItem(n) \in FeedEntry /\ TaskItem(n).kind = "task" /\ TaskItem(n).at = n
BY DEF TaskItem, FeedEntry

\* The entry of a task event, of some stamp.
LEMMA TaskEntry ==
  ASSUME NEW e \in FeedEntry, e.kind = "task"
  PROVE  e.at \in Nat /\ e = TaskItem(e.at)
BY DEF TaskItem, FeedEntry

\* The seeded list fits, repeats nothing, and has only events that the seed has read.
LEMMA SeededIs ==
  ASSUME FeedTyped, FeedStamps
  PROVE  /\ Seeded \in ShortList /\ IsInjective(Seeded)
         /\ \A n \in Nat : TaskItem(n) \in ToSet(Seeded) => n \in seed.tasks
<1> DEFINE T == {TaskItem(n) : n \in seed.tasks}
           B == {b \in FeedApproval : seed.rows[b] # NotAsked}
           R == {ApprovalItem(a, seed.rows[a], NotAsked) : a \in B}
           items == T \cup R
           key == [i \in items |-> i.at]
           sorted == Reverse(OrderedBy(items, key))
           m == IF Len(sorted) < MaxFeedItems THEN Len(sorted) ELSE MaxFeedItems
<1>1. Seeded = SubSeq(sorted, 1, m)
  BY DEF Seeded
<1>2. /\ seed.tasks \in SUBSET Nat /\ seed.rows \in [FeedApproval -> FeedRow]
      /\ IsFiniteSet(seed.tasks) /\ IsFiniteSet(B)
  <2>1. /\ seed.tasks \in SUBSET Nat /\ seed.rows \in [FeedApproval -> FeedRow]
        /\ seed.tasks \subseteq 1..(feedEvents + 1) /\ feedEvents + 1 \in Nat
    BY DEF FeedTyped, FeedStamps
  <2>2. IsFiniteSet(1..(feedEvents + 1))
    BY <2>1, FS_Interval
  <2> QED BY <2>1, <2>2, FeedBounds, FS_Subset
<1>3. T \subseteq FeedEntry /\ \A e \in T : e.kind = "task" /\ \E n \in seed.tasks : e = TaskItem(n) /\ e.at = n
  BY <1>2, TaskItemIs
<1>4. R \subseteq FeedEntry /\ \A e \in R : e.kind = "approval"
  <2> SUFFICES ASSUME NEW a \in B
               PROVE  /\ ApprovalItem(a, seed.rows[a], NotAsked) \in FeedEntry
                      /\ ApprovalItem(a, seed.rows[a], NotAsked).kind = "approval"
    OBVIOUS
  <2>1. seed.rows[a] \in FeedRow \ {NotAsked} /\ NotAsked \in FeedRow /\ a \in FeedApproval
    BY <1>2 DEF FeedRow
  <2> QED BY <2>1, ApprovalItemIs
<1>5. IsFiniteSet(items)
  <2>1. IsFiniteSet(T)
    <3> DEFINE f == [n \in seed.tasks |-> TaskItem(n)]
    <3>1. f \in Surjection(seed.tasks, T)
      BY DEF Surjection
    <3> HIDE DEF f, T
    <3> QED BY <1>2, <3>1, FS_Surjection
  <2>2. IsFiniteSet(R)
    <3> DEFINE f == [a \in B |-> ApprovalItem(a, seed.rows[a], NotAsked)]
    <3>1. f \in Surjection(B, R)
      BY DEF Surjection
    <3> HIDE DEF f, B, R
    <3> QED BY <1>2, <3>1, FS_Surjection
  <2> HIDE DEF T, R
  <2> QED BY <2>1, <2>2, FS_Union
<1> HIDE DEF T, B, R
<1>6. items \subseteq FeedEntry /\ key \in [items -> Nat]
  <2>1. items \subseteq FeedEntry
    BY <1>3, <1>4
  <2>2. \A e \in FeedEntry : e.at \in Nat
    BY DEF FeedEntry, TaskItem
  <2> QED BY <2>1, <2>2
<1> DEFINE q == OrderedBy(items, key)
<1> HIDE DEF items, key
<1>7. /\ q \in Seq(items) /\ ToSet(q) = items
      /\ \A i, j \in DOMAIN q : i # j => q[i] # q[j]
  BY <1>5, <1>6, OrderedByIs
<1> DEFINE n == Len(q)
<1>8. n \in Nat /\ DOMAIN q = 1..n /\ \A i \in 1..n : q[i] \in items
  BY <1>7
<1>9. /\ sorted = [i \in 1..n |-> q[(n - i) + 1]]
  BY DEF Reverse
<1> HIDE DEF q, n
<1>10. \A i \in 1..n : (n - i) + 1 \in 1..n
  BY <1>8
<1>11. sorted \in Seq(items) /\ Len(sorted) = n /\ \A i \in 1..n : sorted[i] = q[(n - i) + 1]
  BY <1>8, <1>9, <1>10
<1>12. \A i, j \in 1..n : i # j => sorted[i] # sorted[j]
  <2> SUFFICES ASSUME NEW i \in 1..n, NEW j \in 1..n, i # j PROVE sorted[i] # sorted[j]
    OBVIOUS
  <2> DEFINE a == (n - i) + 1
             b == (n - j) + 1
  <2>1. a \in DOMAIN q /\ b \in DOMAIN q /\ a # b
    BY <1>8
  <2>2. sorted[i] = q[a] /\ sorted[j] = q[b]
    BY <1>11
  <2> HIDE DEF a, b
  <2> QED BY <1>7, <2>1, <2>2
<1> HIDE DEF sorted
<1>13. m \in Nat /\ m <= n /\ m <= MaxFeedItems
  BY <1>8, <1>11, FeedBounds
<1> HIDE DEF m
<1> DEFINE r == SubSeq(sorted, 1, m)
<1>14. r \in Seq(items) /\ Len(r) = m /\ \A i \in 1..m : r[i] = sorted[i]
  BY <1>8, <1>11, <1>13
<1>15. DOMAIN r = 1..m /\ \A i \in 1..m : i \in 1..n
  BY <1>8, <1>13, <1>14
<1>16. ToSet(r) \subseteq items
  BY <1>14 DEF ToSet
<1>17. r \in ShortList
  BY <1>6, <1>13, <1>14 DEF ShortList
<1>18. IsInjective(r)
  BY <1>12, <1>14, <1>15 DEF IsInjective
<1>19. ASSUME NEW k \in Nat, TaskItem(k) \in items PROVE k \in seed.tasks
  <2>1. TaskItem(k) \in T
    BY <1>4, <1>19, TaskItemIs DEF items
  <2> QED BY <1>3, <2>1, TaskItemIs
<1> QED BY <1>1, <1>16, <1>17, <1>18, <1>19
-----------------------------------------------------------------------------
\* An update that is appended adds its items to the queued ones.
LEMMA QueuedIs ==
  ASSUME NEW us \in Seq(FeedUpdate), NEW u \in FeedUpdate
  PROVE  /\ QueuedIn(<<>>) = {}
         /\ Append(us, u) \in Seq(FeedUpdate)
         /\ QueuedIn(Append(us, u)) = QueuedIn(us) \cup ToSet(u.items)
<1>1. QueuedIn(<<>>) = {}
  BY DEF QueuedIn
<1> DEFINE vs == Append(us, u)
           n == Len(us)
<1>2. /\ n \in Nat /\ DOMAIN us = 1..n /\ DOMAIN vs = 1..(n + 1) /\ vs[n + 1] = u
      /\ \A i \in 1..n : vs[i] = us[i]
      /\ vs \in Seq(FeedUpdate)
  OBVIOUS
<1>3. \A i \in 1..(n + 1) : i \in 1..n \/ i = n + 1
  BY <1>2
<1>4. (1..n) \subseteq 1..(n + 1) /\ n + 1 \in 1..(n + 1)
  BY <1>2
<1> HIDE DEF vs, n
<1>5. QueuedIn(vs) \subseteq QueuedIn(us) \cup ToSet(u.items)
  BY <1>2, <1>3 DEF QueuedIn
<1>6. QueuedIn(us) \subseteq QueuedIn(vs) /\ ToSet(u.items) \subseteq QueuedIn(vs)
  BY <1>2, <1>4 DEF QueuedIn
<1> QED BY <1>1, <1>2, <1>5, <1>6 DEF vs

\* A queued push leaves the last replacement where it is; a queued replacement is the last.
LEMMA LastListIs ==
  ASSUME NEW us \in Seq(FeedUpdate), NEW u \in FeedUpdate, NEW items, NEW seen
  PROVE  /\ u.push => \A k \in 0..Len(us) : LastList(k, items, us, seen) =>
                         k \in 0..Len(Append(us, u)) /\ LastList(k, items, Append(us, u), seen)
         /\ ~u.push /\ Guarded(u.items, seen) =>
               \E k \in 0..Len(Append(us, u)) : LastList(k, items, Append(us, u), seen)
<1> DEFINE vs == Append(us, u)
           n == Len(us)
<1>1. /\ n \in Nat /\ DOMAIN us = 1..n /\ DOMAIN vs = 1..(n + 1) /\ Len(vs) = n + 1
      /\ vs[n + 1] = u /\ \A i \in 1..n : vs[i] = us[i]
  OBVIOUS
<1> HIDE DEF vs, n
<1>2. ASSUME u.push, NEW k \in 0..n, LastList(k, items, us, seen)
      PROVE  k \in 0..Len(vs) /\ LastList(k, items, vs, seen)
  <2>1. k \in 0..Len(vs) /\ k \in Nat /\ (k # 0 => k \in 1..n) /\ (k > 0 => k # 0)
    BY <1>1
  <2>2. \A i \in DOMAIN vs : i > k => vs[i].push
    <3>1. \A i \in 1..(n + 1) : i \in 1..n \/ i = n + 1
      BY <1>1
    <3> QED BY <1>1, <1>2, <3>1 DEF LastList
  <2>3. (IF k = 0 THEN items ELSE vs[k].items) = IF k = 0 THEN items ELSE us[k].items
    BY <1>1, <2>1
  <2>4. k > 0 => ~vs[k].push
    BY <1>1, <1>2, <2>1 DEF LastList
  <2> QED BY <1>2, <2>1, <2>2, <2>3, <2>4 DEF LastList
<1>3. ASSUME ~u.push, Guarded(u.items, seen) PROVE \E k \in 0..Len(vs) : LastList(k, items, vs, seen)
  <2>1. n + 1 \in 0..Len(vs) /\ n + 1 # 0 /\ \A i \in DOMAIN vs : ~(i > n + 1)
    BY <1>1
  <2>2. LastList(n + 1, items, vs, seen)
    BY <1>1, <1>3, <2>1 DEF LastList
  <2> QED BY <2>1, <2>2
<1> QED BY <1>2, <1>3 DEF vs, n

\* An item that is pushed is in the list, is queued, or was seen before.
LEMMA PushKeeps ==
  ASSUME FeedTyped, OnceInv, NEW e \in FeedEntry, PushFeedItem(e), UNCHANGED feedItems
  PROVE  /\ updates' \in Seq(FeedUpdate) /\ seenIds' \in SUBSET FeedEntry
         /\ OnceInv'
         /\ QueuedIn(updates) \subseteq QueuedIn(updates')
         /\ QueuedIn(updates') \subseteq ToSet(feedItems) \cup QueuedIn(updates) \cup {e}
         /\ seenIds' \subseteq seenIds \cup {e}
         /\ e \in seenIds \/ e \in ToSet(feedItems) \cup QueuedIn(updates')
<1>1. /\ feedItems \in ShortList /\ seenIds \in SUBSET FeedEntry /\ updates \in Seq(FeedUpdate)
      /\ feedItems' = feedItems
  BY DEF FeedTyped
<1>2. PICK k \in 0..Len(updates) : LastList(k, feedItems, updates, seenIds)
  BY DEF OnceInv
<1>3. IsInjective(feedItems')
  BY <1>1 DEF OnceInv
<1>4. CASE updates' = Append(updates, [push |-> TRUE, items |-> <<e>>]) /\ UNCHANGED seenIds
  <2> DEFINE u == [push |-> TRUE, items |-> <<e>>]
  <2>1. u \in FeedUpdate /\ u.push /\ u.items = <<e>> /\ ToSet(u.items) = {e}
    <3>1. <<e>> \in ShortList
      BY FeedBounds DEF ShortList
    <3> QED BY <3>1 DEF FeedUpdate, ToSet
  <2>2. updates' = Append(updates, u) /\ seenIds' = seenIds
    BY <1>4
  <2> HIDE DEF u
  <2>3. /\ updates' \in Seq(FeedUpdate) /\ QueuedIn(updates') = QueuedIn(updates) \cup {e}
    BY <1>1, <2>1, <2>2, QueuedIs
  <2>4. k \in 0..Len(Append(updates, u)) /\ LastList(k, feedItems, Append(updates, u), seenIds)
    BY <1>1, <1>2, <2>1, LastListIs
  <2>5. OnceInv'
    BY <1>1, <1>3, <2>2, <2>4 DEF OnceInv
  <2> QED BY <1>1, <2>2, <2>3, <2>5
<1>5. CASE /\ updates = <<>>
           /\ LET next == Pushed([items |-> feedItems, seen |-> seenIds], e)
              IN /\ seenIds' = next.seen
                 /\ updates' = IF next.items = feedItems THEN <<>>
                               ELSE <<[push |-> FALSE, items |-> next.items]>>
  <2> DEFINE next == Pushed([items |-> feedItems, seen |-> seenIds], e)
  <2>1. /\ next \in FeedState
        /\ ToSet(next.items) \subseteq ToSet(feedItems) \cup {e}
        /\ e \in ToSet(next.items) \/ (e \in seenIds /\ next.items = feedItems)
        /\ next.seen = seenIds \cup {e}
        /\ Guarded(feedItems, seenIds) => Guarded(next.items, next.seen)
    BY <1>1, PushedIs
  <2>2. /\ seenIds' = next.seen
        /\ updates' = IF next.items = feedItems THEN <<>>
                      ELSE <<[push |-> FALSE, items |-> next.items]>>
    BY <1>5
  <2> HIDE DEF next
  <2>3. Guarded(feedItems, seenIds)
    <3>1. Len(updates) = 0
      BY <1>5
    <3>2. k = 0
      BY <3>1
    <3> QED BY <1>2, <3>2 DEF LastList
  <2>4. next.items \in ShortList /\ next.seen \in SUBSET FeedEntry /\ Guarded(next.items, next.seen)
    BY <2>1, <2>3 DEF FeedState
  <2>5. QueuedIn(updates) = {} /\ QueuedIn(<<>>) = {}
    BY <1>5 DEF QueuedIn
  <2>6. CASE next.items = feedItems
    <3>1. updates' = <<>>
      BY <2>2, <2>6
    <3>2. 0 \in 0..Len(<<>>) /\ DOMAIN <<>> = {}
      OBVIOUS
    <3>3. LastList(0, feedItems, <<>>, next.seen)
      BY <2>4, <2>6, <3>2 DEF LastList
    <3>4. \E l \in 0..Len(updates') : LastList(l, feedItems', updates', seenIds')
      BY <1>1, <2>2, <3>1, <3>2, <3>3
    <3>5. OnceInv'
      BY <1>3, <3>4 DEF OnceInv
    <3> QED BY <2>1, <2>2, <2>4, <2>5, <2>6, <3>1, <3>5
  <2>7. CASE next.items # feedItems
    <3> DEFINE u == [push |-> FALSE, items |-> next.items]
    <3>1. u \in FeedUpdate /\ ~u.push /\ u.items = next.items
      BY <2>4 DEF FeedUpdate
    <3>2. updates' = Append(<<>>, u) /\ <<>> \in Seq(FeedUpdate)
      <4>1. updates' = <<u>>
        BY <2>2, <2>7
      <4> HIDE DEF u
      <4>2. <<u>> = Append(<<>>, u) /\ <<>> \in Seq(FeedUpdate)
        OBVIOUS
      <4> QED BY <4>1, <4>2
    <3> HIDE DEF u
    <3>3. /\ updates' \in Seq(FeedUpdate) /\ QueuedIn(updates') = ToSet(next.items)
      BY <2>5, <3>1, <3>2, QueuedIs
    <3>4. \E l \in 0..Len(Append(<<>>, u)) : LastList(l, feedItems, Append(<<>>, u), next.seen)
      BY <2>4, <3>1, <3>2, LastListIs
    <3>5. OnceInv'
      BY <1>1, <1>3, <2>2, <3>2, <3>4 DEF OnceInv
    <3> QED BY <2>1, <2>2, <2>4, <2>5, <2>7, <3>3, <3>5
  <2> QED BY <2>6, <2>7
<1> QED BY <1>4, <1>5 DEF PushFeedItem
-----------------------------------------------------------------------------
\* The invariant holds at first, and each action keeps it: a lemma for each.
LEMMA FeedInitInv == FeedInit => FeedInv
<1> SUFFICES ASSUME FeedInit PROVE FeedInv
  OBVIOUS
<1>1. /\ taskEvents = {} /\ openEvents = {} /\ boardless = {} /\ lostItems = {} /\ feedEvents = 0
      /\ feedItems = <<>> /\ updates = <<>> /\ seenIds = {}
      /\ seed = [phase |-> "boards", rows |-> asked, tasks |-> {}, metas |-> {}, boardless |-> {}, runs |-> 1]
      /\ hasBoards = FALSE /\ feedStream = [k \in FeedKind |-> FeedStreamDown]
      /\ knownApproval = [a \in FeedApproval |-> NotAsked]
  BY DEF FeedInit
<1>2. /\ asked \in [FeedApproval -> FeedRow]
      /\ \A a \in FeedApproval : asked[a].made <= 1 /\ asked[a].done <= 1
  BY DEF FeedInit, FeedRow, NotAsked
<1>3. knownApproval \in [FeedApproval -> FeedRow]
  BY <1>1 DEF FeedRow
<1>4. FeedStreamDown \in TaskConn /\ FeedStreamDown \in ApprovalConn
  BY DEF FeedStreamDown, TaskConn, ApprovalConn
<1>5. feedStream["task"] = FeedStreamDown /\ feedStream["approval"] = FeedStreamDown
  BY <1>1 DEF FeedKind
<1>6. feedItems \in ShortList /\ updates \in Seq(FeedUpdate)
  BY <1>1, FeedBounds DEF ShortList
<1>7. FeedTyped
  BY <1>1, <1>2, <1>3, <1>4, <1>5, <1>6 DEF FeedTyped
<1>8. FeedStamps
  BY <1>1, <1>2 DEF FeedStamps
<1>9. OnceInv
  <2>1. 0 \in 0..Len(<<>>) /\ DOMAIN <<>> = {}
    OBVIOUS
  <2>2. IsInjective(<<>>) /\ ToSet(<<>>) = {}
    BY <2>1 DEF IsInjective, ToSet
  <2>3. LastList(0, <<>>, <<>>, {})
    BY <2>1, <2>2 DEF LastList, Guarded
  <2> QED BY <1>1, <2>1, <2>2, <2>3 DEF OnceInv
<1>10. TaskStreamInv
  <2>1. feedStream["task"].since = 0 /\ feedStream["task"].sent = {} /\ feedStream["task"].wire = <<>>
    BY <1>5 DEF FeedStreamDown
  <2> QED BY <1>1, <2>1 DEF TaskStreamInv, ToSet
<1>11. \A n : ~IsShown(n)
  BY <1>1 DEF IsShown, ToSet, QueuedIn
<1>12. SeedInv /\ SeenInv /\ FollowedInv
  BY <1>1, <1>11 DEF SeedInv, SeenInv, FollowedInv
<1> QED BY <1>7, <1>8, <1>9, <1>10, <1>12 DEF FeedInv

\* What leaves the lists alone shows the same.
LEMMA ListsStay ==
  ASSUME UNCHANGED <<feedItems, updates, seenIds>>
  PROVE  (OnceInv => OnceInv') /\ \A n : IsShown(n)' <=> IsShown(n)
BY DEF OnceInv, IsShown

\* A new event gets a stamp of its own.
LEMMA TaskHappensKeeps ==
  ASSUME FeedInv, TaskHappens
  PROVE  FeedInv'
<1> DEFINE c == FeedClock
           E == openEvents \cup {c + 1}
<1>1. FeedTyped /\ FeedStamps
  BY DEF FeedInv
<1>2. /\ openEvents' = E /\ feedEvents' = feedEvents + 1
      /\ UNCHANGED <<taskEvents, asked, seed, hasBoards, feedItems, seenIds, knownApproval,
                     boardless, updates, feedStream, lostItems>>
  BY DEF TaskHappens, FeedEvent, feedPageVars
<1>3. c \in Nat /\ c <= feedEvents + 1 /\ \A n \in taskEvents : n <= c
  BY <1>1, ClockIs
<1>4. /\ feedEvents \in Nat /\ openEvents \in SUBSET Nat
      /\ taskEvents \subseteq 1..(feedEvents + 1) /\ openEvents \subseteq 1..(feedEvents + 1)
  BY <1>1 DEF FeedTyped, FeedStamps
<1> HIDE DEF c
<1>5. /\ E \in SUBSET Nat /\ E \subseteq 1..(feedEvents + 2) /\ taskEvents \subseteq 1..(feedEvents + 2)
      /\ feedEvents' + 1 = feedEvents + 2
  <2>1. c + 1 \in 1..(feedEvents + 2) /\ c + 1 \in Nat
    BY <1>3, <1>4
  <2>2. (1..(feedEvents + 1)) \subseteq 1..(feedEvents + 2)
    BY <1>4
  <2>3. feedEvents' + 1 = feedEvents + 2
    BY <1>2, <1>4
  <2> QED BY <1>4, <2>1, <2>2, <2>3
<1>6. taskEvents \cap E = {}
  <2>1. c + 1 \notin taskEvents
    BY <1>3, <1>4
  <2> QED BY <1>1, <2>1 DEF FeedStamps
<1>7. \A a \in FeedApproval : asked[a].made <= feedEvents + 2 /\ asked[a].done <= feedEvents + 2
  <2>1. asked \in [FeedApproval -> FeedRow]
        /\ \A a \in FeedApproval : asked[a].made <= feedEvents + 1 /\ asked[a].done <= feedEvents + 1
    BY <1>1 DEF FeedTyped, FeedStamps
  <2>2. \A a \in FeedApproval : asked[a].made \in Nat /\ asked[a].done \in Nat
    BY <2>1, RowIs
  <2> QED BY <1>4, <2>1, <2>2
<1> HIDE DEF E
<1>8. FeedTyped'
  BY <1>1, <1>2, <1>4, <1>5 DEF FeedTyped
<1>9. FeedStamps'
  BY <1>1, <1>2, <1>5, <1>6, <1>7 DEF FeedStamps
<1>10. OnceInv' /\ \A n : IsShown(n)' <=> IsShown(n)
  BY <1>2, ListsStay DEF FeedInv
<1>11. TaskStreamInv' /\ SeedInv' /\ SeenInv' /\ FollowedInv'
  BY <1>2, <1>10 DEF FeedInv, TaskStreamInv, SeedInv, SeenInv, FollowedInv, Unseeded, ToBeSent
<1> QED BY <1>8, <1>9, <1>10, <1>11 DEF FeedInv

\* An event that is committed is newer than all others and to be sent by any stream, or is lost.
LEMMA TaskCommitsKeeps ==
  ASSUME FeedInv, NEW n \in openEvents, TaskCommits(n)
  PROVE  FeedInv'
<1> DEFINE conn == feedStream["task"]
           E == taskEvents \cup {n}
<1>1. FeedTyped /\ FeedStamps
  BY DEF FeedInv
<1>2. /\ taskEvents' = E /\ openEvents' = openEvents \ {n}
      /\ lostItems' \in {lostItems, lostItems \cup {n}}
      /\ n \notin lostItems' => ~(conn.up /\ n < conn.since) /\ \A m \in taskEvents : ~(m > n)
      /\ UNCHANGED <<asked, seed, hasBoards, feedItems, seenIds, knownApproval,
                     boardless, updates, feedStream, feedEvents>>
  BY DEF TaskCommits, feedPageVars
<1>3. /\ taskEvents \in SUBSET Nat /\ openEvents \in SUBSET Nat /\ lostItems \in SUBSET Nat
      /\ feedEvents \in Nat /\ n \in Nat /\ n \notin taskEvents /\ conn.since \in Nat
      /\ taskEvents \subseteq 1..(feedEvents + 1) /\ openEvents \subseteq 1..(feedEvents + 1)
  BY <1>1 DEF FeedTyped, FeedStamps, TaskConn
<1>4. FeedTyped'
  BY <1>1, <1>2, <1>3 DEF FeedTyped
<1>5. FeedStamps'
  BY <1>1, <1>2, <1>3 DEF FeedStamps
<1>6. OnceInv' /\ \A m : IsShown(m)' <=> IsShown(m)
  BY <1>2, ListsStay DEF FeedInv
<1>7. ~IsShown(n)
  BY <1>3 DEF FeedInv, SeenInv
<1>8. n \notin lostItems' => \A m \in taskEvents : m < n
  BY <1>2, <1>3
<1>9. TaskStreamInv'
  BY <1>2 DEF FeedInv, TaskStreamInv
<1>10. SeedInv'
  <2> SUFFICES ASSUME seed.phase = "activityRead", NEW k \in E, k \notin seed.tasks, k \notin lostItems',
                      NEW m \in seed.tasks
               PROVE  m < k
    BY <1>2 DEF SeedInv
  <2>1. CASE k = n
    BY <1>1, <1>8, <2>1 DEF FeedStamps
  <2>2. CASE k \in taskEvents
    BY <1>2, <2>2 DEF FeedInv, SeedInv
  <2> QED BY <2>1, <2>2
<1>11. SeenInv'
  BY <1>2, <1>6 DEF FeedInv, SeenInv
<1>12. FollowedInv'
  <2> SUFFICES ASSUME NEW k \in E, k \notin lostItems', Unseeded(k), ~IsShown(k)
               PROVE  /\ \A m \in E : IsShown(m) => m < k
                      /\ conn.up => k \in ToSet(conn.wire) \/ ToBeSent(k)
    BY <1>2, <1>6 DEF FollowedInv, Unseeded, ToBeSent
  <2>1. CASE k = n
    <3>1. conn.up => ToBeSent(k)
      <4>1. conn.sent \subseteq taskEvents
        BY DEF FeedInv, TaskStreamInv
      <4> QED BY <1>2, <1>3, <2>1, <4>1 DEF ToBeSent
    <3> QED BY <1>7, <1>8, <2>1, <3>1
  <2>2. CASE k \in taskEvents
    BY <1>2, <1>7, <2>2 DEF FeedInv, FollowedInv
  <2> QED BY <2>1, <2>2
<1> QED BY <1>4, <1>5, <1>6, <1>9, <1>10, <1>11, <1>12 DEF FeedInv

\* A row that is approved, and one that is reopened.
LEMMA ApprovedIs ==
  ASSUME NEW r \in [st : {"pending", "approved"}, made : Nat, done : Nat], NEW d,
         NEW row, row = [r EXCEPT !.st = "approved", !.done = d]
  PROVE  row = [st |-> "approved", made |-> r.made, done |-> d]
OBVIOUS

LEMMA ReopenedIs ==
  ASSUME NEW r \in [st : {"pending", "approved"}, made : Nat, done : Nat]
  PROVE  [r EXCEPT !.st = "pending"] = [st |-> "pending", made |-> r.made, done |-> r.done]
OBVIOUS

\* An approval only moves the clock, or not even that.
LEMMA ApprovalHappensKeeps ==
  ASSUME FeedInv, NEW a \in FeedApproval, ApprovalHappens(a)
  PROVE  FeedInv'
<1> DEFINE c == FeedClock
<1>1. FeedTyped /\ FeedStamps
  BY DEF FeedInv
<1>2. c \in Nat /\ c <= feedEvents + 1
  BY <1>1, ClockIs
<1>3. /\ feedEvents \in Nat
      /\ taskEvents \subseteq 1..(feedEvents + 1) /\ openEvents \subseteq 1..(feedEvents + 1)
      /\ asked \in [FeedApproval -> FeedRow]
      /\ \A b \in FeedApproval : asked[b].made <= feedEvents + 1 /\ asked[b].done <= feedEvents + 1
  BY <1>1 DEF FeedTyped, FeedStamps
<1>4. \A b \in FeedApproval : asked[b].made \in Nat /\ asked[b].done \in Nat
  BY <1>3, RowIs
<1>5. PICK row \in FeedRow : /\ row.made <= feedEvents + 2 /\ row.done <= feedEvents + 2
                             /\ asked' = [asked EXCEPT ![a] = row]
  <2>1. CASE asked' = [asked EXCEPT ![a] = IF @ = NotAsked
                                          THEN [st |-> "pending", made |-> c + 1, done |-> 0]
                                          ELSE [@ EXCEPT !.st = "approved", !.done = c + 1]]
    <3> HIDE DEF c
    <3>1. CASE asked[a] = NotAsked
      <4> DEFINE row == [st |-> "pending", made |-> c + 1, done |-> 0]
      <4>1. row \in FeedRow /\ row.made <= feedEvents + 2 /\ row.done <= feedEvents + 2
        BY <1>2, <1>3 DEF FeedRow
      <4>2. asked' = [asked EXCEPT ![a] = row]
        BY <1>3, <2>1, <3>1
      <4> HIDE DEF row
      <4> QED BY <4>1, <4>2
    <3>2. CASE asked[a] # NotAsked
      <4> DEFINE row == [asked[a] EXCEPT !.st = "approved", !.done = c + 1]
      <4>1. asked[a] \in [st : {"pending", "approved"}, made : Nat, done : Nat]
        BY <1>3, <3>2 DEF FeedRow
      <4>2. asked' = [asked EXCEPT ![a] = row]
        BY <1>3, <2>1, <3>2
      <4>3. row = [st |-> "approved", made |-> asked[a].made, done |-> c + 1]
        BY <4>1, ApprovedIs
      <4> HIDE DEF row
      <4>4. row \in FeedRow /\ row.made <= feedEvents + 2 /\ row.done <= feedEvents + 2
        BY <1>2, <1>3, <1>4, <4>3 DEF FeedRow
      <4> QED BY <4>2, <4>4
    <3> QED BY <3>1, <3>2
  <2>2. CASE asked[a].st = "approved" /\ asked' = [asked EXCEPT ![a].st = "pending"]
    <3> DEFINE row == [st |-> "pending", made |-> asked[a].made, done |-> asked[a].done]
    <3>1. asked[a] \in [st : {"pending", "approved"}, made : Nat, done : Nat]
      BY <1>3, <2>2 DEF FeedRow, NotAsked
    <3>2. row \in FeedRow /\ row.made <= feedEvents + 2 /\ row.done <= feedEvents + 2
      BY <1>3, <1>4 DEF FeedRow
    <3>3. [asked[a] EXCEPT !.st = "pending"] = row
      BY <3>1, ReopenedIs
    <3>4. asked' = [asked EXCEPT ![a] = row]
      BY <1>3, <2>2, <3>3
    <3> HIDE DEF row
    <3> QED BY <3>2, <3>4
  <2> QED BY <2>1, <2>2 DEF ApprovalHappens
<1>6. /\ feedEvents' = feedEvents + 1
      /\ UNCHANGED <<taskEvents, openEvents, seed, hasBoards, feedItems, seenIds, knownApproval,
                     boardless, updates, feedStream, lostItems>>
  BY DEF ApprovalHappens, FeedEvent, feedPageVars
<1> DEFINE R == [asked EXCEPT ![a] = row]
<1>7. /\ R \in [FeedApproval -> FeedRow]
      /\ \A b \in FeedApproval : R[b].made <= feedEvents + 2 /\ R[b].done <= feedEvents + 2
  <2>1. R \in [FeedApproval -> FeedRow] /\ R[a] = row
        /\ \A b \in FeedApproval : b # a => R[b] = asked[b]
    BY <1>3, <1>5
  <2> HIDE DEF R
  <2>2. ASSUME NEW b \in FeedApproval PROVE R[b].made <= feedEvents + 2 /\ R[b].done <= feedEvents + 2
    <3>1. CASE b = a
      BY <1>5, <2>1, <3>1
    <3>2. CASE b # a
      <4>1. R[b] = asked[b]
        BY <2>1, <3>2
      <4> QED BY <1>3, <1>4, <4>1
    <3> QED BY <3>1, <3>2
  <2> QED BY <2>1, <2>2
<1> HIDE DEF R
<1>8. asked' = R
  BY <1>5 DEF R
<1>9. FeedTyped'
  BY <1>1, <1>3, <1>6, <1>7, <1>8 DEF FeedTyped
<1>10. /\ feedEvents' + 1 = feedEvents + 2
       /\ taskEvents \subseteq 1..(feedEvents + 2) /\ openEvents \subseteq 1..(feedEvents + 2)
  <2>1. (1..(feedEvents + 1)) \subseteq 1..(feedEvents + 2)
    BY <1>3
  <2>2. feedEvents' + 1 = feedEvents + 2
    BY <1>3, <1>6
  <2> QED BY <1>3, <2>1, <2>2
<1>11. FeedStamps'
  BY <1>1, <1>6, <1>7, <1>8, <1>10 DEF FeedStamps
<1>12. OnceInv' /\ \A n : IsShown(n)' <=> IsShown(n)
  BY <1>6, ListsStay DEF FeedInv
<1>13. TaskStreamInv' /\ SeedInv' /\ SeenInv' /\ FollowedInv'
  BY <1>6, <1>12 DEF FeedInv, TaskStreamInv, SeedInv, SeenInv, FollowedInv, Unseeded, ToBeSent
<1> QED BY <1>9, <1>11, <1>12, <1>13 DEF FeedInv

\* No stream: nothing sent, nothing on the wire.
LEMMA StreamsDown ==
  ASSUME feedStream'["task"] = FeedStreamDown
  PROVE  TaskStreamInv'
<1>1. feedStream'["task"].since = 0 /\ feedStream'["task"].sent = {} /\ feedStream'["task"].wire = <<>>
  BY DEF FeedStreamDown
<1> QED BY <1>1 DEF TaskStreamInv, ToSet

\* The seed starts, goes on or fails, with or without a restart of the streams.
LEMMA SeedMovesKeeps ==
  ASSUME FeedInv, FeedTyped', seed'.tasks = seed.tasks, seed'.phase \notin {"done", "activityRead"},
         UNCHANGED <<taskEvents, openEvents, asked, feedItems, seenIds, updates, feedEvents, lostItems>>,
         StreamsRestart \/ UNCHANGED feedStream
  PROVE  FeedInv'
<1>1. OnceInv' /\ \A n : IsShown(n)' <=> IsShown(n)
  BY ListsStay DEF FeedInv
<1>2. FeedStamps' /\ SeedInv' /\ SeenInv' /\ FollowedInv'
  BY <1>1 DEF FeedInv, FeedStamps, SeedInv, SeenInv, FollowedInv, Unseeded
<1>3. TaskStreamInv'
  <2>1. CASE StreamsRestart
    <3>1. feedStream'["task"] = FeedStreamDown
      BY <2>1 DEF StreamsRestart, FeedKind
    <3> QED BY <3>1, StreamsDown
  <2>2. CASE UNCHANGED feedStream
    BY <2>2 DEF FeedInv, TaskStreamInv, ToBeSent
  <2> QED BY <2>1, <2>2
<1> QED BY <1>1, <1>2, <1>3 DEF FeedInv

\* Streams that start over are streams.
LEMMA RestartTyped ==
  ASSUME StreamsRestart
  PROVE  /\ feedStream' \in [FeedKind -> TaskConn \cup ApprovalConn]
         /\ feedStream'["task"] \in TaskConn /\ feedStream'["approval"] \in ApprovalConn
<1>1. FeedStreamDown \in TaskConn /\ FeedStreamDown \in ApprovalConn
  BY DEF FeedStreamDown, TaskConn, ApprovalConn
<1> QED BY <1>1 DEF StreamsRestart, FeedKind

\* The seed before it is set.
LEMMA SeedingKeeps ==
  ASSUME FeedInv, FeedSeeding, ~FeedSeeded
  PROVE  FeedInv'
<1>1. FeedTyped
  BY DEF FeedInv
<1>2. CASE BoardsListed
  <2>1. FeedTyped'
    BY <1>1, <1>2, RestartTyped DEF BoardsListed, FeedTyped, feedEventVars, feedPageVars
  <2> QED BY <1>1, <1>2, <2>1, SeedMovesKeeps DEF BoardsListed, FeedTyped, feedEventVars, feedPageVars
<1>3. CASE FeedSnapshotRead
  <2>1. PICK rows \in {asked, [a \in FeedApproval |-> NotAsked]},
             metas \in SUBSET {FeedTaskOf[n] : n \in Nat} :
           seed' = [seed EXCEPT !.phase = "snapshotRead", !.rows = rows, !.metas = metas]
    <3>1. {FeedTaskOf[n] : n \in taskEvents \cup openEvents} \in SUBSET {FeedTaskOf[n] : n \in Nat}
      BY <1>1 DEF FeedTyped
    <3> QED BY <1>3, <3>1 DEF FeedSnapshotRead
  <2>2. rows \in [FeedApproval -> FeedRow]
    BY <1>1 DEF FeedTyped, FeedRow
  <2>3. FeedTyped'
    BY <1>1, <1>3, <2>1, <2>2 DEF FeedSnapshotRead, FeedTyped, feedEventVars, feedPageVars
  <2> QED BY <1>1, <1>3, <2>1, <2>3, SeedMovesKeeps DEF FeedSnapshotRead, FeedTyped, feedEventVars, feedPageVars
<1>4. CASE FeedSnapshotUsed
  <2>1. knownApproval' \in [FeedApproval -> FeedRow]
    BY <1>1, <1>4 DEF FeedSnapshotUsed, FeedTyped, feedEventVars, feedPageVars
  <2>2. FeedTyped'
    BY <1>1, <1>4, <2>1 DEF FeedSnapshotUsed, FeedTyped, feedEventVars, feedPageVars
  <2> QED BY <1>1, <1>4, <2>2, SeedMovesKeeps DEF FeedSnapshotUsed, FeedTyped, feedEventVars, feedPageVars
<1>5. CASE FeedActivityRead
  <2>1. /\ seed' = [seed EXCEPT !.phase = "activityRead", !.tasks = taskEvents]
        /\ UNCHANGED <<taskEvents, openEvents, asked, hasBoards, feedItems, seenIds, knownApproval,
                       boardless, updates, feedStream, feedEvents, lostItems>>
    BY <1>5 DEF FeedActivityRead, feedEventVars, feedPageVars
  <2>2. FeedTyped'
    BY <1>1, <2>1 DEF FeedTyped
  <2>3. seed'.tasks = taskEvents /\ seed'.phase = "activityRead"
    BY <1>1, <2>1 DEF FeedTyped
  <2>4. OnceInv' /\ \A n : IsShown(n)' <=> IsShown(n)
    BY <2>1, ListsStay DEF FeedInv
  <2>5. FeedStamps' /\ SeedInv' /\ SeenInv' /\ FollowedInv' /\ TaskStreamInv'
    BY <2>1, <2>3, <2>4 DEF FeedInv, FeedStamps, SeedInv, SeenInv, FollowedInv, Unseeded,
                            TaskStreamInv, ToBeSent
  <2> QED BY <2>2, <2>4, <2>5 DEF FeedInv
<1>6. CASE FeedSeedFails
  <2>1. FeedTyped'
    BY <1>1, <1>6 DEF FeedSeedFails, FeedTyped, feedEventVars, feedPageVars
  <2> QED BY <1>1, <1>6, <2>1, SeedMovesKeeps DEF FeedSeedFails, FeedTyped, feedEventVars, feedPageVars
<1>7. CASE NameResolves
  <2>1. FeedTyped'
    BY <1>1, <1>7, RestartTyped DEF NameResolves, FeedTyped, feedEventVars, feedPageVars
  <2> QED BY <1>1, <1>7, <2>1, SeedMovesKeeps DEF NameResolves, FeedTyped, feedEventVars, feedPageVars
<1> QED BY <1>2, <1>3, <1>4, <1>5, <1>6, <1>7 DEF FeedSeeding

\* The seed is set: the ids seen are those of a list that is queued last.
LEMMA FeedSeededKeeps ==
  ASSUME FeedInv, FeedSeeded
  PROVE  FeedInv'
<1> DEFINE u == [push |-> FALSE, items |-> Seeded]
           unknown == {n \in seed.tasks : TaskItem(n) \in ToSet(Seeded) /\ FeedTaskOf[n] \notin knownTasks}
<1>1. FeedTyped /\ FeedStamps
  BY DEF FeedInv
<1>2. /\ seed.phase = "activityRead"
      /\ seed' = [seed EXCEPT !.phase = "done", !.boardless = unknown]
      /\ updates' = Append(updates, u)
      /\ seenIds' = ToSet(Seeded)
      /\ lostItems' = lostItems \cup {n \in seed.tasks : TaskItem(n) \notin ToSet(Seeded)}
      /\ UNCHANGED <<taskEvents, openEvents, asked, hasBoards, feedItems, knownApproval, boardless,
                     feedStream, feedEvents>>
  BY DEF FeedSeeded, SeedIsSet, feedEventVars
<1>3. /\ Seeded \in ShortList /\ IsInjective(Seeded)
      /\ \A n \in Nat : TaskItem(n) \in ToSet(Seeded) => n \in seed.tasks
  BY <1>1, SeededIs
<1>4. u \in FeedUpdate /\ ~u.push /\ u.items = Seeded
  BY <1>3 DEF FeedUpdate
<1>5. ToSet(Seeded) \subseteq FeedEntry
  BY <1>3 DEF ShortList, ToSet
<1> HIDE DEF u
<1>6. /\ updates \in Seq(FeedUpdate) /\ updates' \in Seq(FeedUpdate)
      /\ QueuedIn(updates') = QueuedIn(updates) \cup ToSet(Seeded)
  <2>1. updates \in Seq(FeedUpdate)
    BY <1>1 DEF FeedTyped
  <2>2. /\ Append(updates, u) \in Seq(FeedUpdate)
        /\ QueuedIn(Append(updates, u)) = QueuedIn(updates) \cup ToSet(u.items)
    BY <1>4, <2>1, QueuedIs
  <2> QED BY <1>2, <1>4, <2>1, <2>2
<1>7. /\ seed.tasks \in SUBSET Nat /\ unknown \in SUBSET Nat
      /\ seed'.tasks = seed.tasks /\ seed'.phase = "done"
  BY <1>1, <1>2 DEF FeedTyped
<1> HIDE DEF unknown
<1>8. FeedTyped'
  BY <1>1, <1>2, <1>5, <1>6, <1>7 DEF FeedTyped
<1>9. FeedStamps'
  BY <1>1, <1>2, <1>7 DEF FeedStamps
<1>10. OnceInv'
  <2>1. Guarded(u.items, ToSet(Seeded))
    BY <1>3, <1>4 DEF Guarded
  <2>2. \E k \in 0..Len(Append(updates, u)) : LastList(k, feedItems, Append(updates, u), ToSet(Seeded))
    BY <1>4, <1>6, <2>1, LastListIs
  <2>3. IsInjective(feedItems)
    BY DEF FeedInv, OnceInv
  <2> QED BY <1>2, <2>2, <2>3 DEF OnceInv
<1>11. \A n : IsShown(n)' <=> IsShown(n) \/ TaskItem(n) \in ToSet(Seeded)
  BY <1>2, <1>6 DEF IsShown
<1>12. TaskStreamInv'
  BY <1>2 DEF FeedInv, TaskStreamInv, ToBeSent
<1>13. SeedInv'
  BY <1>7 DEF SeedInv
<1>14. SeenInv'
  <2> SUFFICES ASSUME NEW n \in Nat
               PROVE  /\ IsShown(n)' => n \in taskEvents
                      /\ TaskItem(n) \in ToSet(Seeded) => IsShown(n)'
    BY <1>2 DEF SeenInv
  <2> QED BY <1>1, <1>3, <1>11 DEF FeedInv, SeenInv, FeedStamps
<1>15. FollowedInv'
  <2> SUFFICES ASSUME NEW n \in taskEvents, n \notin lostItems', ~IsShown(n)'
               PROVE  /\ \A m \in taskEvents : IsShown(m)' => m < n
                      /\ feedStream["task"].up =>
                            n \in ToSet(feedStream["task"].wire) \/ ToBeSent(n)
    BY <1>2 DEF FollowedInv, ToBeSent
  <2>1. n \notin seed.tasks /\ n \notin lostItems /\ ~IsShown(n)
    BY <1>2, <1>11
  <2>2. Unseeded(n)
    BY <1>2, <2>1 DEF Unseeded
  <2>3. \A m \in seed.tasks : m < n
    BY <1>2, <2>1 DEF FeedInv, SeedInv
  <2>4. taskEvents \subseteq Nat
    BY <1>1 DEF FeedTyped
  <2> QED BY <1>3, <1>11, <2>1, <2>2, <2>3, <2>4 DEF FeedInv, FollowedInv
<1> QED BY <1>8, <1>9, <1>10, <1>12, <1>13, <1>14, <1>15 DEF FeedInv
-----------------------------------------------------------------------------
\* The cursor of a kind is an item of it in the list.
LEMMA CursorIs ==
  ASSUME FeedTyped, NEW k \in FeedKind
  PROVE  /\ FeedCursor(k) \in Nat
         /\ FeedCursor(k) = 0 \/ \E i \in ToSet(feedItems) : i.kind = k /\ i.at = FeedCursor(k)
<1> DEFINE A == {j \in ToSet(feedItems) : j.kind = k /\ (k = "task" => j.id \notin boardless)}
           N == {i.at : i \in A}
           S == {0} \cup N
<1>1. feedItems \in Seq(FeedEntry) /\ \A e \in FeedEntry : e.at \in Nat
  BY DEF FeedTyped, ShortList, FeedEntry, TaskItem
<1>2. A \subseteq FeedEntry
  BY <1>1 DEF ToSet
<1>3. IsFiniteSet(A)
  <2> DEFINE D == DOMAIN feedItems
             f == [i \in D |-> feedItems[i]]
  <2>1. IsFiniteSet(D)
    <3>1. D = 1..Len(feedItems) /\ Len(feedItems) \in Nat
      BY <1>1
    <3>2. IsFiniteSet(1..Len(feedItems))
      BY <3>1, FS_Interval
    <3> QED BY <3>1, <3>2
  <2>2. f \in Surjection(D, ToSet(feedItems))
    BY DEF Surjection, ToSet
  <2> HIDE DEF f, D
  <2>3. IsFiniteSet(ToSet(feedItems))
    BY <2>1, <2>2, FS_Surjection
  <2> QED BY <2>3, FS_Subset
<1>4. IsFiniteSet(N)
  <2> DEFINE f == [i \in A |-> i.at]
  <2>1. f \in Surjection(A, N)
    BY DEF Surjection
  <2> HIDE DEF f, A, N
  <2> QED BY <1>3, <2>1, FS_Surjection
<1>5. S \in SUBSET Nat /\ IsFiniteSet(S) /\ S # {}
  <2>1. N \subseteq Nat
    BY <1>1, <1>2
  <2>2. IsFiniteSet({0})
    BY FS_Singleton
  <2> HIDE DEF N
  <2>3. IsFiniteSet({0} \cup N)
    BY <1>4, <2>2, FS_Union
  <2> QED BY <2>1, <2>3
<1>6. FeedCursor(k) = Max(S)
  BY DEF FeedCursor
<1> HIDE DEF S
<1>7. FeedCursor(k) \in S /\ \A x \in S : x <= FeedCursor(k)
  BY <1>5, <1>6, FiniteMaxIs
<1>8. FeedCursor(k) \in Nat
  BY <1>5, <1>7
<1> QED BY <1>7, <1>8 DEF S

\* What a connection, its end and a poll do to a stream is well typed.
LEMMA StreamTyped ==
  ASSUME FeedTyped, NEW k \in FeedKind, NEW conn,
         conn \in IF k = "task" THEN TaskConn ELSE ApprovalConn,
         feedStream' = [feedStream EXCEPT ![k] = conn]
  PROVE  /\ feedStream' \in [FeedKind -> TaskConn \cup ApprovalConn]
         /\ feedStream'["task"] \in TaskConn /\ feedStream'["approval"] \in ApprovalConn
         /\ feedStream'[k] = conn
         /\ \A l \in FeedKind : l # k => feedStream'[l] = feedStream[l]
<1>1. conn \in TaskConn \cup ApprovalConn /\ k \in {"task", "approval"}
  BY DEF FeedKind
<1>2. feedStream \in [FeedKind -> TaskConn \cup ApprovalConn]
      /\ feedStream["task"] \in TaskConn /\ feedStream["approval"] \in ApprovalConn
  BY DEF FeedTyped
<1>3. feedStream' \in [FeedKind -> TaskConn \cup ApprovalConn]
  BY <1>1, <1>2
<1>4. feedStream'[k] = conn /\ \A l \in FeedKind : l # k => feedStream'[l] = feedStream[l]
  BY <1>2
<1> QED BY <1>1, <1>2, <1>3, <1>4 DEF FeedKind

\* A connection takes its cursor from what is shown, which what is not shown is newer than.
LEMMA ConnectFeedKeeps ==
  ASSUME FeedInv, NEW k \in FeedKind, ConnectFeed(k)
  PROVE  FeedInv'
<1> DEFINE since == IF FeedCursor(k) = 0 THEN FeedClock + 1 ELSE FeedCursor(k)
           conn == [FeedStreamDown EXCEPT !.up = TRUE, !.since = since]
<1>1. FeedTyped /\ FeedStamps
  BY DEF FeedInv
<1>2. /\ feedStream' = [feedStream EXCEPT ![k] = conn]
      /\ lostItems' = IF k = "task" /\ FeedCursor(k) = 0 THEN lostItems \cup taskEvents ELSE lostItems
      /\ UNCHANGED <<taskEvents, openEvents, asked, seed, hasBoards, feedItems, seenIds, knownApproval,
                     boardless, updates, feedEvents>>
  BY DEF ConnectFeed, feedEventVars, feedPageVars
<1>3. FeedClock \in Nat /\ FeedCursor(k) \in Nat
  BY <1>1, ClockIs, CursorIs
<1>4. conn.since = since /\ conn.sent = {} /\ conn.wire = <<>> /\ since \in Nat
  <2>1. since \in Nat
    BY <1>3
  <2> HIDE DEF since
  <2>2. conn.since = since /\ conn.sent = {} /\ conn.wire = <<>>
    BY DEF FeedStreamDown
  <2> QED BY <2>1, <2>2
<1>5. conn \in TaskConn /\ conn \in ApprovalConn
  <2>1. FeedStreamDown \in TaskConn /\ FeedStreamDown \in ApprovalConn
    BY DEF FeedStreamDown, TaskConn, ApprovalConn
  <2> HIDE DEF since
  <2>2. conn \in TaskConn
    BY <1>4, <2>1 DEF TaskConn
  <2>3. conn \in ApprovalConn
    BY <1>4, <2>1 DEF ApprovalConn
  <2> QED BY <2>2, <2>3
<1> HIDE DEF conn, since
<1>6. /\ feedStream' \in [FeedKind -> TaskConn \cup ApprovalConn]
      /\ feedStream'["task"] \in TaskConn /\ feedStream'["approval"] \in ApprovalConn
      /\ feedStream'[k] = conn
      /\ \A l \in FeedKind : l # k => feedStream'[l] = feedStream[l]
  BY <1>1, <1>2, <1>5, StreamTyped
<1>7. taskEvents \in SUBSET Nat /\ lostItems \in SUBSET Nat
  BY <1>1 DEF FeedTyped
<1>8. FeedTyped'
  BY <1>1, <1>2, <1>6, <1>7 DEF FeedTyped
<1>9. OnceInv' /\ \A n : IsShown(n)' <=> IsShown(n)
  BY <1>2, ListsStay DEF FeedInv
<1>10. FeedStamps' /\ SeedInv' /\ SeenInv'
  BY <1>2, <1>9 DEF FeedInv, FeedStamps, SeedInv, SeenInv
<1>11. CASE k = "approval"
  <2>1. feedStream'["task"] = feedStream["task"] /\ lostItems' = lostItems
    BY <1>2, <1>6, <1>11 DEF FeedKind
  <2>2. TaskStreamInv' /\ FollowedInv'
    BY <1>2, <1>3, <1>9, <2>1 DEF FeedInv, TaskStreamInv, FollowedInv, Unseeded, ToBeSent
  <2> QED BY <1>8, <1>9, <1>10, <2>2 DEF FeedInv
<1>12. CASE k = "task"
  <2>1. feedStream'["task"] = conn
    BY <1>6, <1>12
  <2>2. TaskStreamInv'
    BY <1>2, <1>4, <2>1 DEF TaskStreamInv, ToSet
  <2>3. FollowedInv'
    <3> SUFFICES ASSUME NEW n \in taskEvents, n \notin lostItems', Unseeded(n), ~IsShown(n)
                 PROVE  /\ \A m \in taskEvents : IsShown(m) => m < n
                        /\ n \notin conn.sent /\ n >= conn.since
      BY <1>2, <1>9, <2>1 DEF FollowedInv, Unseeded, ToBeSent
    <3>1. FeedCursor(k) # 0 /\ n \notin lostItems
      BY <1>2, <1>12
    <3>2. \A m \in taskEvents : IsShown(m) => m < n
      BY <3>1 DEF FeedInv, FollowedInv
    <3>3. PICK i \in ToSet(feedItems) : i.kind = "task" /\ i.at = FeedCursor(k)
      BY <1>1, <1>12, <3>1, CursorIs
    <3>4. i \in FeedEntry
      BY <1>1 DEF FeedTyped, ShortList, ToSet
    <3>5. i.at \in Nat /\ i = TaskItem(i.at)
      BY <3>3, <3>4, TaskEntry
    <3>6. IsShown(i.at) /\ i.at \in taskEvents
      BY <3>5 DEF FeedInv, SeenInv, IsShown
    <3>7. FeedCursor(k) < n
      BY <3>2, <3>3, <3>6
    <3> QED BY <1>3, <1>4, <1>7, <3>1, <3>2, <3>7 DEF since
  <2> QED BY <1>8, <1>9, <1>10, <2>2, <2>3 DEF FeedInv
<1> QED BY <1>11, <1>12 DEF FeedKind

\* A stream that is lost follows nothing, until the next connection.
LEMMA LoseFeedKeeps ==
  ASSUME FeedInv, NEW k \in FeedKind, LoseFeed(k)
  PROVE  FeedInv'
<1>1. FeedTyped /\ FeedStamps
  BY DEF FeedInv
<1>2. /\ feedStream' = [feedStream EXCEPT ![k] = FeedStreamDown] /\ feedEvents' = feedEvents + 1
      /\ UNCHANGED <<taskEvents, openEvents, asked, seed, hasBoards, feedItems, seenIds, knownApproval,
                     boardless, updates, lostItems>>
  BY DEF LoseFeed, FeedEvent, feedEventVars, feedPageVars
<1>3. FeedStreamDown \in TaskConn /\ FeedStreamDown \in ApprovalConn
  BY DEF FeedStreamDown, TaskConn, ApprovalConn
<1>4. /\ feedStream' \in [FeedKind -> TaskConn \cup ApprovalConn]
      /\ feedStream'["task"] \in TaskConn /\ feedStream'["approval"] \in ApprovalConn
      /\ feedStream'[k] = FeedStreamDown
      /\ \A l \in FeedKind : l # k => feedStream'[l] = feedStream[l]
  BY <1>1, <1>2, <1>3, StreamTyped
<1>5. FeedTyped'
  BY <1>1, <1>2, <1>4 DEF FeedTyped
<1>6. FeedStamps'
  <2>1. /\ feedEvents \in Nat
        /\ taskEvents \subseteq 1..(feedEvents + 1) /\ openEvents \subseteq 1..(feedEvents + 1)
        /\ asked \in [FeedApproval -> FeedRow]
        /\ \A a \in FeedApproval : asked[a].made <= feedEvents + 1 /\ asked[a].done <= feedEvents + 1
    BY <1>1 DEF FeedTyped, FeedStamps
  <2>2. \A a \in FeedApproval : asked[a].made \in Nat /\ asked[a].done \in Nat
    BY <2>1, RowIs
  <2>3. (1..(feedEvents + 1)) \subseteq 1..(feedEvents' + 1)
        /\ \A x \in Nat : x <= feedEvents + 1 => x <= feedEvents' + 1
    BY <1>2, <2>1
  <2> QED BY <1>1, <1>2, <2>1, <2>2, <2>3 DEF FeedStamps
<1>7. OnceInv' /\ \A n : IsShown(n)' <=> IsShown(n)
  BY <1>2, ListsStay DEF FeedInv
<1>8. SeedInv' /\ SeenInv'
  BY <1>2, <1>7 DEF FeedInv, SeedInv, SeenInv
<1>9. feedStream'["task"] = FeedStreamDown \/ feedStream'["task"] = feedStream["task"]
  BY <1>4 DEF FeedKind
<1>10. CASE feedStream'["task"] = FeedStreamDown
  <2>1. TaskStreamInv'
    BY <1>10, StreamsDown
  <2>2. ~feedStream'["task"].up
    BY <1>10 DEF FeedStreamDown
  <2>3. FollowedInv'
    BY <1>2, <1>7, <2>2 DEF FeedInv, FollowedInv, Unseeded
  <2> QED BY <1>5, <1>6, <1>7, <1>8, <2>1, <2>3 DEF FeedInv
<1>11. CASE feedStream'["task"] = feedStream["task"]
  <2>1. TaskStreamInv' /\ FollowedInv'
    BY <1>2, <1>7, <1>11 DEF FeedInv, TaskStreamInv, FollowedInv, Unseeded, ToBeSent
  <2> QED BY <1>5, <1>6, <1>7, <1>8, <2>1 DEF FeedInv
<1> QED BY <1>9, <1>10, <1>11

\* What is put behind ascending numbers below it leaves them ascending.
LEMMA AscendingOn ==
  ASSUME NEW p \in Seq(Nat), NEW q \in Seq(Nat),
         \A i, j \in DOMAIN p : i < j => p[i] < p[j],
         \A i, j \in DOMAIN q : i < j => q[i] < q[j],
         \A m \in ToSet(p), n \in ToSet(q) : m < n
  PROVE  /\ p \o q \in Seq(Nat) /\ ToSet(p \o q) = ToSet(p) \cup ToSet(q)
         /\ \A i, j \in DOMAIN (p \o q) : i < j => (p \o q)[i] < (p \o q)[j]
<1> DEFINE r == p \o q
           k == Len(p)
           l == Len(q)
<1>1. /\ r \in Seq(Nat) /\ k \in Nat /\ l \in Nat
      /\ DOMAIN p = 1..k /\ DOMAIN q = 1..l /\ DOMAIN r = 1..(k + l)
      /\ \A i \in 1..k : r[i] = p[i]
      /\ \A i \in (k + 1)..(k + l) : r[i] = q[i - k]
  OBVIOUS
<1> HIDE DEF r, k, l
<1>2. /\ \A i \in 1..(k + l) : i \in 1..k \/ i \in (k + 1)..(k + l)
      /\ (1..k) \subseteq 1..(k + l) /\ ((k + 1)..(k + l)) \subseteq 1..(k + l)
      /\ \A i \in (k + 1)..(k + l) : i - k \in 1..l
      /\ \A i \in 1..l : i + k \in (k + 1)..(k + l) /\ (i + k) - k = i
  BY <1>1
<1>3. ToSet(r) \subseteq ToSet(p) \cup ToSet(q)
  BY <1>1, <1>2 DEF ToSet
<1>4. ToSet(p) \subseteq ToSet(r)
  BY <1>1, <1>2 DEF ToSet
<1>5. ToSet(q) \subseteq ToSet(r)
  <2> SUFFICES ASSUME NEW i \in 1..l PROVE q[i] \in ToSet(r)
    BY <1>1 DEF ToSet
  <2>1. r[i + k] = q[i] /\ i + k \in DOMAIN r
    BY <1>1, <1>2
  <2> QED BY <2>1 DEF ToSet
<1>6. ASSUME NEW i \in 1..(k + l), NEW j \in 1..(k + l), i < j PROVE r[i] < r[j]
  <2>1. CASE i \in 1..k /\ j \in 1..k
    BY <1>1, <1>6, <2>1
  <2>2. CASE i \in 1..k /\ j \in (k + 1)..(k + l)
    <3>1. p[i] \in ToSet(p) /\ q[j - k] \in ToSet(q)
      BY <1>1, <1>2, <2>2 DEF ToSet
    <3> QED BY <1>1, <2>2, <3>1
  <2>3. CASE i \in (k + 1)..(k + l) /\ j \in (k + 1)..(k + l)
    <3>1. i - k \in 1..l /\ j - k \in 1..l /\ i - k < j - k
      BY <1>1, <1>2, <1>6, <2>3
    <3> QED BY <1>1, <2>3, <3>1
  <2>4. ~(i \in (k + 1)..(k + l) /\ j \in 1..k)
    BY <1>1, <1>6
  <2> QED BY <1>2, <2>1, <2>2, <2>3, <2>4
<1> QED BY <1>1, <1>3, <1>4, <1>5, <1>6 DEF r

\* A poll puts on the wire all there is to send, behind what it has sent.
LEMMA PollFeedTasksKeeps ==
  ASSUME FeedInv, PollFeedTasks
  PROVE  FeedInv'
<1> DEFINE conn == feedStream["task"]
           news == {n \in taskEvents : n >= conn.since} \ conn.sent
           wire == conn.wire \o Ascending(news)
           last == Max(news)
           next == [conn EXCEPT !.since = last, !.sent = conn.sent \cup news, !.wire = wire]
<1>1. FeedTyped /\ FeedStamps /\ TaskStreamInv
  BY DEF FeedInv
<1>2. /\ feedStream' = [feedStream EXCEPT !["task"] = next]
      /\ UNCHANGED <<taskEvents, openEvents, asked, seed, hasBoards, feedItems, seenIds, knownApproval,
                     boardless, updates, feedEvents, lostItems>>
  BY DEF PollFeedTasks, feedEventVars, feedPageVars
<1>3. /\ conn \in TaskConn /\ feedEvents + 1 \in Nat /\ taskEvents \subseteq 1..(feedEvents + 1)
      /\ taskEvents \in SUBSET Nat
  BY <1>1 DEF FeedTyped, FeedStamps
<1>4. /\ Ascending(news) \in Seq(Nat) /\ ToSet(Ascending(news)) = news
      /\ \A i, j \in DOMAIN Ascending(news) : i < j => Ascending(news)[i] < Ascending(news)[j]
  <2>1. news \in SUBSET (1..(feedEvents + 1)) /\ news \subseteq Nat
    BY <1>3
  <2> HIDE DEF news
  <2>2. /\ Ascending(news) \in Seq(news) /\ ToSet(Ascending(news)) = news
        /\ \A i, j \in DOMAIN Ascending(news) : i < j => Ascending(news)[i] < Ascending(news)[j]
    BY <1>3, <2>1, AscendingIs
  <2> DEFINE q == Ascending(news)
  <2>3. q \in Seq(Nat)
    <3>1. q \in Seq(news)
      BY <2>2
    <3> HIDE DEF q
    <3>2. q = [i \in 1..Len(q) |-> q[i]] /\ Len(q) \in Nat /\ \A i \in 1..Len(q) : q[i] \in Nat
      BY <2>1, <3>1
    <3> QED BY <3>2
  <2> QED BY <2>2, <2>3
<1>5. /\ conn.wire \in Seq(Nat) /\ conn.sent \in SUBSET Nat /\ conn.since \in Nat /\ conn.up \in BOOLEAN
      /\ ToSet(conn.wire) \subseteq conn.sent /\ conn.sent \subseteq taskEvents
      /\ ~conn.up => conn.wire = <<>>
      /\ \A i, j \in DOMAIN conn.wire : i < j => conn.wire[i] < conn.wire[j]
      /\ \A m \in conn.sent : m <= conn.since
  BY <1>1, <1>3 DEF TaskStreamInv, TaskConn
<1>6. \A n \in taskEvents : ToBeSent(n) <=> n \in news
  BY DEF ToBeSent
<1>7. /\ wire \in Seq(Nat) /\ ToSet(wire) = ToSet(conn.wire) \cup news
      /\ \A i, j \in DOMAIN wire : i < j => wire[i] < wire[j]
  <2>1. \A m \in ToSet(conn.wire), n \in news : m < n
    BY <1>3, <1>5
  <2> DEFINE q == Ascending(news)
             w == conn.wire
  <2>2. /\ w \in Seq(Nat) /\ q \in Seq(Nat) /\ \A m \in ToSet(w), n \in ToSet(q) : m < n
        /\ \A i, j \in DOMAIN w : i < j => w[i] < w[j]
        /\ \A i, j \in DOMAIN q : i < j => q[i] < q[j]
    BY <1>4, <1>5, <2>1
  <2> HIDE DEF q, w
  <2>3. /\ w \o q \in Seq(Nat) /\ ToSet(w \o q) = ToSet(w) \cup ToSet(q)
        /\ \A i, j \in DOMAIN (w \o q) : i < j => (w \o q)[i] < (w \o q)[j]
    BY <2>2, AscendingOn
  <2> QED BY <1>4, <2>3 DEF w, q
<1>8. /\ news \subseteq taskEvents /\ conn.sent \cup news \in SUBSET Nat
      /\ \A n \in taskEvents : n >= conn.since => n \in conn.sent \cup news
  BY <1>3, <1>5
<1>9. /\ last \in Nat /\ last >= conn.since
      /\ \A n \in conn.sent \cup news : n <= last
  <2>1. news \in SUBSET Nat /\ news # {} /\ \A n \in news : n >= conn.since
    BY <1>3 DEF PollFeedTasks
  <2>2. IsFiniteSet(news)
    <3>1. news \subseteq 1..(feedEvents + 1)
      BY <1>3
    <3> HIDE DEF news
    <3>2. IsFiniteSet(1..(feedEvents + 1))
      BY <1>3, FS_Interval
    <3> QED BY <3>1, <3>2, FS_Subset
  <2> HIDE DEF news
  <2>3. last \in news /\ \A n \in news : n <= last
    BY <2>1, <2>2, FiniteMaxIs
  <2> HIDE DEF last
  <2>4. last \in Nat /\ last >= conn.since
    BY <2>1, <2>3
  <2>5. ASSUME NEW n \in conn.sent PROVE n <= last
    BY <1>5, <2>4
  <2> QED BY <2>3, <2>4, <2>5
<1> HIDE DEF news, wire, last
<1>10. /\ next.up = conn.up /\ next.since = last
      /\ next.sent = conn.sent \cup news /\ next.wire = wire
  BY <1>3 DEF TaskConn
<1>11. next \in TaskConn
  BY <1>3, <1>7, <1>8, <1>9 DEF TaskConn
<1> HIDE DEF next
<1>12. /\ feedStream' \in [FeedKind -> TaskConn \cup ApprovalConn]
       /\ feedStream'["task"] \in TaskConn /\ feedStream'["approval"] \in ApprovalConn
       /\ feedStream'["task"] = next
  BY <1>1, <1>2, <1>11, StreamTyped DEF FeedKind
<1>13. FeedTyped'
  BY <1>1, <1>2, <1>12 DEF FeedTyped
<1>14. OnceInv' /\ \A n : IsShown(n)' <=> IsShown(n)
  BY <1>2, ListsStay DEF FeedInv
<1>15. FeedStamps' /\ SeedInv' /\ SeenInv'
  BY <1>2, <1>14 DEF FeedInv, FeedStamps, SeedInv, SeenInv
<1>16. /\ feedStream'["task"].up = conn.up /\ feedStream'["task"].since = last
       /\ feedStream'["task"].sent = conn.sent \cup news /\ feedStream'["task"].wire = wire
  BY <1>10, <1>12
<1>17. TaskStreamInv'
  <2>1. ToSet(wire) \subseteq conn.sent \cup news /\ conn.sent \cup news \subseteq taskEvents
    BY <1>5, <1>7, <1>8
  <2>2. conn.up
    BY DEF PollFeedTasks
  <2> QED BY <1>2, <1>7, <1>9, <1>16, <2>1, <2>2 DEF TaskStreamInv
<1>18. FollowedInv'
  <2> SUFFICES ASSUME NEW n \in taskEvents, n \notin lostItems, Unseeded(n), ~IsShown(n)
               PROVE  /\ \A m \in taskEvents : IsShown(m) => m < n
                      /\ conn.up => n \in ToSet(wire)
    BY <1>2, <1>14, <1>16 DEF FollowedInv, Unseeded
  <2> QED BY <1>6, <1>7 DEF FeedInv, FollowedInv
<1> QED BY <1>13, <1>14, <1>15, <1>17, <1>18 DEF FeedInv

\* A poll of approvals leaves the task stream alone.
LEMMA PollFeedApprovalsKeeps ==
  ASSUME FeedInv, PollFeedApprovals
  PROVE  FeedInv'
<1> DEFINE conn == feedStream["approval"]
           due == {a \in FeedApproval : asked[a] # NotAsked /\ RowStamp(asked[a]) >= conn.since}
           key == [a \in due |-> asked[a].made]
           rows == OrderedBy(due, key)
           since == Max({RowStamp(asked[a]) : a \in due})
           wire == [i \in DOMAIN rows |-> <<rows[i], asked[rows[i]]>>]
           next == [conn EXCEPT !.since = since, !.wire = wire]
<1>1. FeedTyped
  BY DEF FeedInv
<1>2. /\ feedStream' = [feedStream EXCEPT !["approval"] = next] /\ due # {}
      /\ UNCHANGED <<taskEvents, openEvents, asked, seed, hasBoards, feedItems, seenIds, knownApproval,
                     boardless, updates, feedEvents, lostItems>>
  BY DEF PollFeedApprovals, feedEventVars, feedPageVars
<1>3. /\ conn \in ApprovalConn /\ asked \in [FeedApproval -> FeedRow]
      /\ \A a \in FeedApproval : asked[a].made \in Nat /\ RowStamp(asked[a]) \in Nat
  BY <1>1, RowIs DEF FeedTyped
<1>4. IsFiniteSet(due)
  BY FeedBounds, FS_Subset
<1>5. \A a \in due : a \in FeedApproval /\ asked[a] \in FeedRow \ {NotAsked}
  BY <1>3
<1>6. since \in Nat
  <2> DEFINE S == {RowStamp(asked[a]) : a \in due}
             f == [a \in due |-> RowStamp(asked[a])]
  <2>1. S \in SUBSET Nat /\ S # {}
    BY <1>2, <1>3
  <2>2. f \in Surjection(due, S)
    BY DEF Surjection
  <2> HIDE DEF f, S, due
  <2>3. IsFiniteSet(S)
    BY <1>4, <2>2, FS_Surjection
  <2>4. Max(S) \in S
    BY <2>1, <2>3, FiniteMaxIs
  <2> QED BY <2>1, <2>4 DEF S
<1>7. key \in [due -> Nat]
  BY <1>3, <1>5
<1> HIDE DEF due, key
<1>8. rows \in Seq(due)
  BY <1>4, <1>7, OrderedByIs
<1>9. wire \in Seq(FeedApproval \X (FeedRow \ {NotAsked}))
  <2> HIDE DEF rows
  <2>1. DOMAIN rows = 1..Len(rows) /\ Len(rows) \in Nat /\ \A i \in 1..Len(rows) : rows[i] \in due
    BY <1>8
  <2>2. \A i \in 1..Len(rows) : <<rows[i], asked[rows[i]]>> \in FeedApproval \X (FeedRow \ {NotAsked})
    BY <1>5, <2>1
  <2>3. wire = [i \in 1..Len(rows) |-> <<rows[i], asked[rows[i]]>>]
    BY <2>1
  <2> QED BY <2>1, <2>2, <2>3
<1> HIDE DEF since, wire
<1>10. next \in ApprovalConn
  BY <1>3, <1>6, <1>9 DEF ApprovalConn
<1> HIDE DEF next
<1>11. /\ feedStream' \in [FeedKind -> TaskConn \cup ApprovalConn]
       /\ feedStream'["task"] \in TaskConn /\ feedStream'["approval"] \in ApprovalConn
       /\ feedStream'["task"] = feedStream["task"]
  BY <1>1, <1>2, <1>10, StreamTyped DEF FeedKind
<1>12. FeedTyped'
  BY <1>1, <1>2, <1>11 DEF FeedTyped
<1>13. OnceInv' /\ \A n : IsShown(n)' <=> IsShown(n)
  BY <1>2, ListsStay DEF FeedInv
<1>14. FeedStamps' /\ SeedInv' /\ SeenInv' /\ TaskStreamInv' /\ FollowedInv'
  BY <1>2, <1>11, <1>13 DEF FeedInv, FeedStamps, SeedInv, SeenInv, TaskStreamInv, FollowedInv,
                            Unseeded, ToBeSent
<1> QED BY <1>12, <1>13, <1>14 DEF FeedInv

\* Items of different events differ.
LEMMA ItemOf ==
  ASSUME NEW n \in Nat, NEW m \in Nat
  PROVE  TaskItem(n) = TaskItem(m) => n = m
BY DEF TaskItem

\* The event pushed is the oldest on the wire, so what is not shown stays newer than what is.
LEMMA FeedTaskStreamedKeeps ==
  ASSUME FeedInv, FeedTaskStreamed
  PROVE  FeedInv'
<1> DEFINE conn == feedStream["task"]
           w == conn.wire
           h == Head(w)
           next == [conn EXCEPT !.wire = Tail(w)]
<1>1. FeedTyped /\ FeedStamps /\ TaskStreamInv /\ OnceInv
  BY DEF FeedInv
<1>2. /\ w # <<>> /\ PushFeedItem(TaskItem(h))
      /\ feedStream' = [feedStream EXCEPT !["task"].wire = Tail(w)]
      /\ UNCHANGED <<taskEvents, openEvents, asked, seed, hasBoards, feedItems, knownApproval, boardless,
                     feedEvents, lostItems>>
  BY DEF FeedTaskStreamed, feedEventVars
<1>3. conn \in TaskConn /\ w \in Seq(Nat) /\ taskEvents \in SUBSET Nat
  BY <1>1 DEF FeedTyped, TaskConn
<1>4. /\ h \in Nat /\ Tail(w) \in Seq(Nat)
      /\ h \in ToSet(w) /\ ToSet(Tail(w)) \subseteq ToSet(w)
      /\ \A n \in ToSet(w) : n = h \/ (n \in ToSet(Tail(w)) /\ h < n)
      /\ \A i, j \in DOMAIN Tail(w) : i < j => Tail(w)[i] < Tail(w)[j]
  <2> DEFINE r == Tail(w)
             l == Len(w)
  <2>1. \A i, j \in DOMAIN w : i < j => w[i] < w[j]
    BY <1>1 DEF TaskStreamInv
  <2> HIDE DEF w
  <2>2. /\ l \in Nat /\ l >= 1 /\ DOMAIN w = 1..l /\ h = w[1] /\ w[1] \in Nat
        /\ r \in Seq(Nat) /\ DOMAIN r = 1..(l - 1) /\ \A i \in 1..(l - 1) : r[i] = w[i + 1]
    BY <1>2, <1>3
  <2> HIDE DEF r, l, h
  <2>3. /\ 1 \in 1..l /\ \A i \in 1..(l - 1) : i + 1 \in 1..l /\ 1 < i + 1
        /\ \A i \in 1..l : i = 1 \/ (i - 1 \in 1..(l - 1) /\ (i - 1) + 1 = i /\ 1 < i)
    BY <2>2
  <2>4. h \in ToSet(w) /\ ToSet(r) \subseteq ToSet(w)
    <3>1. h \in ToSet(w)
      BY <2>2, <2>3 DEF ToSet
    <3>2. ASSUME NEW i \in 1..(l - 1) PROVE r[i] \in ToSet(w)
      BY <2>2, <2>3 DEF ToSet
    <3> QED BY <2>2, <3>1, <3>2 DEF ToSet
  <2>5. ASSUME NEW i \in 1..l PROVE w[i] = h \/ (w[i] \in ToSet(r) /\ h < w[i])
    <3>1. CASE i = 1
      BY <2>2, <3>1
    <3>2. CASE i # 1
      <4>1. w[i] = r[i - 1] /\ i - 1 \in DOMAIN r
        BY <2>2, <2>3, <3>2
      <4>2. h < w[i]
        BY <2>1, <2>2, <2>3, <3>2
      <4> QED BY <4>1, <4>2 DEF ToSet
    <3> QED BY <3>1, <3>2
  <2>6. \A n \in ToSet(w) : n = h \/ (n \in ToSet(r) /\ h < n)
    BY <2>2, <2>5 DEF ToSet
  <2>7. ASSUME NEW i \in 1..(l - 1), NEW j \in 1..(l - 1), i < j PROVE r[i] < r[j]
    <3>1. i + 1 \in 1..l /\ j + 1 \in 1..l /\ i + 1 < j + 1
      BY <2>2, <2>7
    <3> QED BY <2>1, <2>2, <3>1
  <2> QED BY <2>2, <2>4, <2>6, <2>7 DEF r
<1>5. /\ ToSet(w) \subseteq conn.sent /\ conn.sent \subseteq taskEvents /\ (~conn.up => w = <<>>)
      /\ \A m \in conn.sent : m <= conn.since
  BY <1>1 DEF TaskStreamInv
<1>6. h \in taskEvents /\ conn.up /\ \A n \in taskEvents : ToBeSent(n) => h < n
  <2>1. h \in taskEvents /\ conn.up /\ h \in conn.sent /\ h <= conn.since /\ conn.since \in Nat
    BY <1>2, <1>3, <1>4, <1>5 DEF TaskConn
  <2>2. ASSUME NEW n \in taskEvents, ToBeSent(n) PROVE h < n
    <3>1. n \notin conn.sent /\ n >= conn.since
      BY <2>2 DEF ToBeSent
    <3>2. n \in Nat /\ n # h /\ h \in Nat
      BY <1>3, <1>4, <2>1, <3>1
    <3> HIDE DEF h, conn
    <3> QED BY <2>1, <3>1, <3>2
  <2> QED BY <2>1, <2>2
<1> DEFINE rest == Tail(w)
<1>7. feedStream' = [feedStream EXCEPT !["task"] = next]
  BY <1>1, <1>2 DEF FeedTyped, FeedKind
<1> HIDE DEF h, rest
<1>8. rest \in Seq(Nat)
  BY <1>4 DEF rest
<1>9. next = [conn EXCEPT !.wire = rest]
  BY DEF rest
<1> HIDE DEF next
<1>10. /\ next.up = conn.up /\ next.since = conn.since /\ next.sent = conn.sent /\ next.wire = rest
       /\ next \in TaskConn
  BY <1>3, <1>8, <1>9 DEF TaskConn
<1>11. /\ feedStream' \in [FeedKind -> TaskConn \cup ApprovalConn]
       /\ feedStream'["task"] \in TaskConn /\ feedStream'["approval"] \in ApprovalConn
       /\ feedStream'["task"] = next
  BY <1>1, <1>7, <1>10, StreamTyped DEF FeedKind
<1>12. TaskItem(h) \in FeedEntry
  BY <1>4, TaskItemIs
<1> DEFINE e == TaskItem(h)
<1>13. /\ updates' \in Seq(FeedUpdate) /\ seenIds' \in SUBSET FeedEntry /\ OnceInv'
       /\ QueuedIn(updates) \subseteq QueuedIn(updates')
       /\ QueuedIn(updates') \subseteq ToSet(feedItems) \cup QueuedIn(updates) \cup {e}
       /\ seenIds' \subseteq seenIds \cup {e}
       /\ e \in seenIds \/ e \in ToSet(feedItems) \cup QueuedIn(updates')
  <2> HIDE DEF e
  <2>1. PushFeedItem(e) /\ e \in FeedEntry
    BY <1>2, <1>12 DEF e
  <2> QED BY <1>1, <1>2, <2>1, PushKeeps
<1>14. FeedTyped'
  BY <1>1, <1>2, <1>11, <1>13 DEF FeedTyped
<1>15. FeedStamps' /\ SeedInv'
  BY <1>2 DEF FeedInv, FeedStamps, SeedInv
<1>16. /\ \A n : IsShown(n) => IsShown(n)'
       /\ \A n \in Nat : IsShown(n)' => IsShown(n) \/ n = h
       /\ \A n \in Nat : n = h => e \in seenIds \/ IsShown(n)'
  <2>1. \A n \in Nat : TaskItem(n) = e <=> n = h
    BY <1>4, ItemOf
  <2> HIDE DEF e
  <2>2. \A n : IsShown(n) => IsShown(n)'
    BY <1>2, <1>13 DEF IsShown
  <2>3. \A n \in Nat : IsShown(n)' => IsShown(n) \/ n = h
    BY <1>2, <1>13, <2>1 DEF IsShown
  <2>4. \A n \in Nat : n = h => e \in seenIds \/ IsShown(n)'
    BY <1>2, <1>13, <2>1 DEF IsShown
  <2> QED BY <2>2, <2>3, <2>4
<1>17. SeenInv'
  <2> SUFFICES ASSUME NEW n \in Nat
               PROVE  /\ IsShown(n)' => n \in taskEvents
                      /\ TaskItem(n) \in seenIds' => n \in lostItems \/ IsShown(n)'
    BY <1>2 DEF SeenInv
  <2>1. IsShown(n) => n \in taskEvents
    BY DEF FeedInv, SeenInv
  <2>2. TaskItem(n) \in seenIds => n \in lostItems \/ IsShown(n)
    BY DEF FeedInv, SeenInv
  <2>3. TaskItem(n) \in seenIds' => TaskItem(n) \in seenIds \/ n = h
    BY <1>4, <1>13, ItemOf
  <2> QED BY <1>6, <1>16, <2>1, <2>2, <2>3
<1>18. \A n \in Nat : n = h => n \in lostItems \/ IsShown(n)'
  BY <1>16 DEF FeedInv, SeenInv
<1>19. \A n \in taskEvents : ToBeSent(n)' <=> ToBeSent(n)
  BY <1>10, <1>11 DEF ToBeSent
<1>20. TaskStreamInv'
  <2>1. /\ ToSet(rest) \subseteq conn.sent
        /\ \A i, j \in DOMAIN rest : i < j => rest[i] < rest[j]
    BY <1>4, <1>5 DEF rest
  <2> QED BY <1>1, <1>2, <1>6, <1>10, <1>11, <2>1 DEF TaskStreamInv
<1>21. FollowedInv'
  <2> SUFFICES ASSUME NEW n \in taskEvents, n \notin lostItems, Unseeded(n), ~IsShown(n)'
               PROVE  /\ \A m \in taskEvents : IsShown(m)' => m < n
                      /\ n \in ToSet(rest) \/ ToBeSent(n)
    BY <1>2, <1>10, <1>11, <1>19 DEF FollowedInv, Unseeded
  <2>1. ~IsShown(n) /\ n # h
    BY <1>3, <1>16, <1>18
  <2>2. /\ \A m \in taskEvents : IsShown(m) => m < n
        /\ n \in ToSet(w) \/ ToBeSent(n)
    BY <1>6, <2>1 DEF FeedInv, FollowedInv
  <2>3. h < n /\ (n \in ToSet(rest) \/ ToBeSent(n))
    BY <1>4, <1>6, <2>1, <2>2 DEF rest
  <2> QED BY <1>3, <1>16, <2>2, <2>3
<1> QED BY <1>13, <1>14, <1>15, <1>17, <1>20, <1>21 DEF FeedInv

\* An approval's entry is pushed, and shows no task event.
LEMMA FeedApprovalStreamedKeeps ==
  ASSUME FeedInv, FeedApprovalStreamed
  PROVE  FeedInv'
<1> DEFINE conn == feedStream["approval"]
           w == conn.wire
           a == Head(w)[1]
           r == Head(w)[2]
           e == ApprovalItem(a, r, knownApproval[a])
           rest == Tail(w)
           next == [conn EXCEPT !.wire = rest]
<1>1. FeedTyped /\ OnceInv
  BY DEF FeedInv
<1>2. /\ w # <<>> /\ PushFeedItem(e) /\ knownApproval' = [knownApproval EXCEPT ![a] = r]
      /\ feedStream' = [feedStream EXCEPT !["approval"].wire = Tail(w)]
      /\ UNCHANGED <<taskEvents, openEvents, asked, seed, hasBoards, feedItems, boardless, feedEvents,
                     lostItems>>
  BY DEF FeedApprovalStreamed, feedEventVars
<1>3. conn \in ApprovalConn /\ w \in Seq(FeedApproval \X (FeedRow \ {NotAsked}))
  BY <1>1 DEF FeedTyped, ApprovalConn
<1>4. feedStream' = [feedStream EXCEPT !["approval"] = next]
  BY <1>1, <1>2 DEF FeedTyped, FeedKind
<1>5. a \in FeedApproval /\ r \in FeedRow \ {NotAsked} /\ rest \in Seq(FeedApproval \X (FeedRow \ {NotAsked}))
  <2> DEFINE S == FeedApproval \X (FeedRow \ {NotAsked})
  <2> HIDE DEF w
  <2>1. Head(w) \in S /\ rest \in Seq(S)
    <3> HIDE DEF S
    <3> QED BY <1>2, <1>3 DEF S
  <2> QED BY <2>1
<1>6. /\ e \in FeedEntry /\ e.kind = "approval"
      /\ knownApproval' \in [FeedApproval -> FeedRow]
  <2>1. knownApproval \in [FeedApproval -> FeedRow]
    BY <1>1 DEF FeedTyped
  <2> HIDE DEF a, r
  <2>2. knownApproval[a] \in FeedRow
    BY <1>5, <2>1
  <2>3. e \in FeedEntry /\ e.kind = "approval"
    BY <1>5, <2>2, ApprovalItemIs
  <2> QED BY <1>2, <1>5, <2>1, <2>3
<1> HIDE DEF e, rest
<1>7. next \in ApprovalConn
  BY <1>3, <1>5 DEF ApprovalConn
<1> HIDE DEF next
<1>8. /\ feedStream' \in [FeedKind -> TaskConn \cup ApprovalConn]
      /\ feedStream'["task"] \in TaskConn /\ feedStream'["approval"] \in ApprovalConn
      /\ feedStream'["task"] = feedStream["task"]
  BY <1>1, <1>4, <1>7, StreamTyped DEF FeedKind
<1>9. /\ updates' \in Seq(FeedUpdate) /\ seenIds' \in SUBSET FeedEntry /\ OnceInv'
      /\ QueuedIn(updates) \subseteq QueuedIn(updates')
      /\ QueuedIn(updates') \subseteq ToSet(feedItems) \cup QueuedIn(updates) \cup {e}
      /\ seenIds' \subseteq seenIds \cup {e}
  BY <1>1, <1>2, <1>6, PushKeeps
<1>10. FeedTyped'
  BY <1>1, <1>2, <1>6, <1>8, <1>9 DEF FeedTyped
<1>11. \A n \in Nat : TaskItem(n) # e
  BY <1>6, TaskItemIs
<1>12. \A n \in Nat : /\ IsShown(n)' <=> IsShown(n)
                      /\ TaskItem(n) \in seenIds' => TaskItem(n) \in seenIds
  BY <1>2, <1>9, <1>11 DEF IsShown
<1>13. taskEvents \subseteq Nat
  BY <1>1 DEF FeedTyped
<1>14. FeedStamps' /\ SeedInv' /\ TaskStreamInv'
  BY <1>2, <1>8 DEF FeedInv, FeedStamps, SeedInv, TaskStreamInv, ToBeSent
<1>15. SeenInv'
  BY <1>2, <1>12 DEF FeedInv, SeenInv
<1>16. FollowedInv'
  BY <1>2, <1>8, <1>12, <1>13 DEF FeedInv, FollowedInv, Unseeded, ToBeSent
<1> QED BY <1>9, <1>10, <1>14, <1>15, <1>16 DEF FeedInv

\* What rendering takes from the list goes on record.
LEMMA RenderFeedKeeps ==
  ASSUME FeedInv, RenderFeed
  PROVE  FeedInv'
<1> DEFINE next == Rendered([items |-> feedItems, seen |-> seenIds], updates)
           Gone == (ToSet(feedItems) \cup QueuedIn(updates)) \ ToSet(next.items)
           lost == {i.at : i \in {j \in Gone : j.kind = "task"}}
<1>1. FeedTyped /\ OnceInv
  BY DEF FeedInv
<1>2. /\ updates' = <<>> /\ feedItems' = next.items /\ seenIds' = next.seen
      /\ lostItems' = lostItems \cup lost
      /\ boardless' = seed.boardless
      /\ UNCHANGED <<taskEvents, openEvents, asked, seed, hasBoards, knownApproval, feedStream, feedEvents>>
  BY DEF RenderFeed, QueuedIn, feedEventVars
<1>3. feedItems \in ShortList /\ seenIds \in SUBSET FeedEntry /\ updates \in Seq(FeedUpdate)
      /\ lostItems \in SUBSET Nat
  BY <1>1 DEF FeedTyped
<1>4. /\ next \in FeedState
      /\ ToSet(next.items) \subseteq ToSet(feedItems) \cup QueuedIn(updates)
      /\ next.seen \subseteq seenIds \cup QueuedIn(updates)
      /\ Guarded(next.items, next.seen)
  <2> HIDE DEF next
  <2>1. \E k \in 0..Len(updates) : LastList(k, feedItems, updates, seenIds)
    BY <1>1 DEF OnceInv
  <2> QED BY <1>3, <2>1, RenderedIs DEF next
<1> HIDE DEF next
<1>5. next.items \in ShortList /\ next.seen \in SUBSET FeedEntry
  BY <1>4 DEF FeedState
<1>6. QueuedIn(updates) \subseteq FeedEntry /\ ToSet(feedItems) \subseteq FeedEntry
  <2>1. \A i \in DOMAIN updates : updates[i].items \in Seq(FeedEntry)
    BY <1>3 DEF FeedUpdate, ShortList
  <2> QED BY <1>3, <2>1 DEF QueuedIn, ShortList, ToSet
<1>7. lost \subseteq Nat
  <2>1. \A i \in Gone : i.kind = "task" => i.at \in Nat
    BY <1>6, TaskEntry
  <2> QED BY <2>1
<1>8. /\ \A n : IsShown(n)' <=> TaskItem(n) \in ToSet(next.items)
      /\ \A n : IsShown(n)' => IsShown(n)
  <2>1. QueuedIn(<<>>) = {}
    BY DEF QueuedIn
  <2>2. QueuedIn(updates') = {}
    BY <1>2, <2>1
  <2> QED BY <1>2, <1>4, <2>2 DEF IsShown
<1>9. \A n \in Nat : IsShown(n) => IsShown(n)' \/ n \in lostItems'
  <2> SUFFICES ASSUME NEW n \in Nat, IsShown(n), ~IsShown(n)' PROVE n \in lost
    BY <1>2
  <2>1. TaskItem(n) \in Gone
    BY <1>8 DEF IsShown
  <2>2. TaskItem(n).kind = "task" /\ TaskItem(n).at = n
    BY TaskItemIs
  <2> HIDE DEF Gone
  <2> QED BY <2>1, <2>2
<1> HIDE DEF Gone, lost
<1>10. FeedTyped'
  <2>1. <<>> \in Seq(FeedUpdate)
    OBVIOUS
  <2> QED BY <1>1, <1>2, <1>3, <1>5, <1>7, <2>1 DEF FeedTyped
<1>11. OnceInv'
  <2>1. 0 \in 0..Len(<<>>) /\ DOMAIN <<>> = {}
    OBVIOUS
  <2>2. LastList(0, next.items, <<>>, next.seen)
    BY <1>4, <2>1 DEF LastList
  <2>3. \E k \in 0..Len(updates') : LastList(k, feedItems', updates', seenIds')
    BY <1>2, <2>1, <2>2
  <2> QED BY <1>2, <1>4, <2>3 DEF OnceInv, Guarded
<1>12. FeedStamps' /\ SeedInv' /\ TaskStreamInv'
  BY <1>2 DEF FeedInv, FeedStamps, SeedInv, TaskStreamInv, ToBeSent
<1>13. SeenInv'
  <2> SUFFICES ASSUME NEW n \in Nat
               PROVE  /\ IsShown(n)' => n \in taskEvents
                      /\ TaskItem(n) \in next.seen => n \in lostItems' \/ IsShown(n)'
    BY <1>2 DEF SeenInv
  <2>1. IsShown(n) => n \in taskEvents
    BY DEF FeedInv, SeenInv
  <2>2. TaskItem(n) \in next.seen => n \in lostItems \/ IsShown(n)
    BY <1>4 DEF FeedInv, SeenInv, IsShown
  <2> QED BY <1>2, <1>8, <1>9, <2>1, <2>2
<1>14. FollowedInv'
  <2>1. taskEvents \subseteq Nat
    BY <1>1 DEF FeedTyped
  <2> SUFFICES ASSUME NEW n \in taskEvents, n \notin lostItems', Unseeded(n), ~IsShown(n)'
               PROVE  /\ \A m \in taskEvents : IsShown(m)' => m < n
                      /\ feedStream["task"].up =>
                            n \in ToSet(feedStream["task"].wire) \/ ToBeSent(n)
    BY <1>2 DEF FollowedInv, Unseeded, ToBeSent
  <2>2. ~IsShown(n) /\ n \notin lostItems
    BY <1>2, <1>9, <2>1
  <2> QED BY <1>8, <2>2 DEF FeedInv, FollowedInv
<1> QED BY <1>10, <1>11, <1>12, <1>13, <1>14 DEF FeedInv
-----------------------------------------------------------------------------
\* Every step keeps the invariant...
LEMMA FeedKeepsInv == FeedInv /\ [FeedNext]_feedVars => FeedInv'
<1> SUFFICES ASSUME FeedInv, [FeedNext]_feedVars PROVE FeedInv'
  OBVIOUS
<1>1. CASE TaskHappens
  BY <1>1, TaskHappensKeeps
<1>2. ASSUME NEW a \in FeedApproval, ApprovalHappens(a) PROVE FeedInv'
  BY <1>2, ApprovalHappensKeeps
<1>3. CASE FeedSeeding
  BY <1>3, SeedingKeeps, FeedSeededKeeps
<1>4. ASSUME NEW k \in FeedKind, ConnectFeed(k) PROVE FeedInv'
  BY <1>4, ConnectFeedKeeps
<1>5. ASSUME NEW k \in FeedKind, LoseFeed(k) PROVE FeedInv'
  BY <1>5, LoseFeedKeeps
<1>6. CASE PollFeedTasks
  BY <1>6, PollFeedTasksKeeps
<1>7. CASE PollFeedApprovals
  BY <1>7, PollFeedApprovalsKeeps
<1>8. CASE FeedTaskStreamed
  BY <1>8, FeedTaskStreamedKeeps
<1>9. CASE FeedApprovalStreamed
  BY <1>9, FeedApprovalStreamedKeeps
<1>10. CASE RenderFeed
  BY <1>10, RenderFeedKeeps
<1>11. CASE UNCHANGED feedVars
  BY <1>11 DEF feedVars, feedEventVars, feedPageVars, FeedInv, FeedTyped, FeedStamps, OnceInv,
               TaskStreamInv, SeedInv, SeenInv, FollowedInv, Unseeded, ToBeSent, IsShown
<1>12. ASSUME NEW n \in openEvents, TaskCommits(n) PROVE FeedInv'
  BY <1>12, TaskCommitsKeeps
<1> QED BY <1>1, <1>2, <1>3, <1>4, <1>5, <1>6, <1>7, <1>8, <1>9, <1>10, <1>11, <1>12 DEF FeedNext

\* ... which so holds throughout.
LEMMA FeedAlways == FeedSpec => []FeedInv
BY FeedInitInv, FeedKeepsInv, PTL DEF FeedSpec

\* The list is of entries, and never longer than the page shows.
THEOREM FeedTypeCorrect == FeedSpec => []FeedTypeOK
<1>1. FeedInv => FeedTypeOK
  <2> SUFFICES ASSUME FeedTyped PROVE FeedTypeOK
    BY DEF FeedInv
  <2>1. FeedEntry \subseteq FeedItemType
    BY DEF FeedEntry, FeedItemType, TaskItem, FeedKind
  <2>2. ToSet(feedItems) \subseteq FeedEntry /\ Len(feedItems) <= MaxFeedItems
    BY DEF FeedTyped, ShortList, ToSet
  <2>3. \A i \in DOMAIN updates : updates[i].push \in BOOLEAN
    BY DEF FeedTyped, FeedUpdate
  <2> QED BY <2>1, <2>2, <2>3 DEF FeedTyped, FeedTypeOK
<1> QED BY <1>1, FeedAlways, PTL

\* However seeds, streams and React's queue interleave, no entry is listed twice.
THEOREM ItemsOnce == FeedSpec => []FeedItemsOnce
<1>1. FeedInv => FeedItemsOnce
  BY DEF FeedInv, OnceInv, FeedItemsOnce
<1> QED BY <1>1, FeedAlways, PTL

\* With the page seeded and up to date, each task event is listed, is what the stream sends
\* next, or is on record as lost: replaced by a seed, cut by the limit, committed late, or
\* from before a connection that found no cursor on the board.
THEOREM EventsListed == FeedSpec => []FeedHasEvents
<1>1. FeedInv => FeedHasEvents
  <2> DEFINE conn == feedStream["task"]
  <2> SUFFICES ASSUME FeedInv, conn.up, conn.wire = <<>>, updates = <<>>, seed.phase = "done",
                      NEW n \in taskEvents, n \notin lostItems, TaskItem(n) \notin ToSet(feedItems)
               PROVE  n >= conn.since /\ n \notin conn.sent
    BY DEF FeedHasEvents
  <2>1. QueuedIn(updates) = {} /\ ToSet(conn.wire) = {}
    BY DEF QueuedIn, ToSet
  <2>2. ~IsShown(n) /\ Unseeded(n)
    BY <2>1 DEF IsShown, Unseeded
  <2> QED BY <2>1, <2>2 DEF FeedInv, FollowedInv, ToBeSent
<1> QED BY <1>1, FeedAlways, PTL
=============================================================================
