--------------------------- MODULE DependencyGraph ---------------------------
(***************************************************************************)
(* The task dependencies of one board: requests that create tasks, replace *)
(* the dependencies of a task, or delete tasks, each in a READ COMMITTED   *)
(* transaction of its own.                                                 *)
(*                                                                         *)
(* validate_dependency_update reads the tasks and the edges that are       *)
(* committed at that moment and locks nothing.  What it accepted is        *)
(* inserted later, when the request commits.                               *)
(***************************************************************************)
EXTENDS FiniteSets, FiniteSetsExt, Naturals

CONSTANTS Tasks,     \* the task ids the board can ever have
          Requests,  \* requests in flight at once
          Editors    \* those of them that may replace dependencies

ASSUME GraphTasksAssumption == IsFiniteSet(Tasks) /\ Tasks # {}
ASSUME EditorsAssumption == Editors \subseteq Requests

VARIABLES row,     \* task -> "unborn", "live" or "gone"
          edges,   \* task -> the tasks it depends on, as committed
          pc,      \* request -> the statement it runs next
          op       \* request -> what the handler holds in memory

graphVars == <<row, edges, pc, op>>
-----------------------------------------------------------------------------
(***************************************************************************)
(* _has_cycle: depth first, with the nodes visited and those on the stack. *)
(***************************************************************************)
\* A search from a node, and whether it found a cycle and the nodes visited by then.
Search == [current : Tasks, visited : SUBSET Tasks, stack : SUBSET Tasks]
Explored == [found : BOOLEAN, visited : SUBSET Tasks]

\* The search `dfs` from one node after the other, until one finds a cycle.
VisitAll(dfs, stack, before, nodes) ==
    FoldSet(LAMBDA next, acc :
              IF acc.found THEN acc
              ELSE dfs[[current |-> next, visited |-> acc.visited, stack |-> stack]],
            before, nodes)

\* Variant: a visited node is skipped before the stack is looked at.
DfsVisitedFirst(graph) ==
    LET dfs[s \in Search] ==
          IF s.current \in s.visited THEN [found |-> FALSE, visited |-> s.visited]
          ELSE IF s.current \in s.stack THEN [found |-> TRUE, visited |-> s.visited]
          ELSE VisitAll(dfs, s.stack \cup {s.current},
                        [found |-> FALSE, visited |-> s.visited \cup {s.current}],
                        graph[s.current])
    IN dfs

Dfs(graph) ==
    LET dfs[s \in Search] ==
          IF s.current \in s.stack THEN [found |-> TRUE, visited |-> s.visited]
          ELSE IF s.current \in s.visited THEN [found |-> FALSE, visited |-> s.visited]
          ELSE VisitAll(dfs, s.stack \cup {s.current},
                        [found |-> FALSE, visited |-> s.visited \cup {s.current}],
                        graph[s.current])
    IN dfs

HasCycle(nodes, graph) ==
    VisitAll(Dfs(graph), {}, [found |-> FALSE, visited |-> {}], nodes).found
-----------------------------------------------------------------------------
Op == [kind : {"none", "create", "edit", "delete"}, task : Tasks, deps : SUBSET Tasks,
       seen : SUBSET Tasks, removed : SUBSET (Tasks \X Tasks)]

NoOp == [kind |-> "none", task |-> CHOOSE t \in Tasks : TRUE, deps |-> {}, seen |-> {},
         removed |-> {}]

Live == {t \in Tasks : row[t] = "live"}

Goto(r, label) == pc' = [pc EXCEPT ![r] = label]

Finish(r) == Goto(r, "idle") /\ op' = [op EXCEPT ![r] = NoOp]

\* A DELETE that waited for r's finds the rows r removed gone, and does not see
\* those r inserted in their place.
Committed(r) ==
    /\ Goto(r, "idle")
    /\ op' = [q \in Requests |-> IF q = r THEN NoOp
                                 ELSE [op[q] EXCEPT !.removed = @ \ op[r].removed]]

GraphInit ==
    /\ row = [t \in Tasks |-> "unborn"]
    /\ edges = [t \in Tasks |-> {}]
    /\ pc = [r \in Requests |-> "idle"]
    /\ op = [r \in Requests |-> NoOp]

Begin(r, kind, t, deps, label) ==
    /\ pc[r] = "idle"
    /\ op' = [op EXCEPT ![r] = [NoOp EXCEPT !.kind = kind, !.task = t, !.deps = deps]]
    /\ Goto(r, label)
    /\ UNCHANGED <<row, edges>>

\* create_task: the new id is nobody else's, and no task can depend on it yet.
CreateTask(r, t, deps) ==
    /\ row[t] = "unborn" /\ \A q \in Requests : op[q].kind = "create" => op[q].task # t
    /\ t \notin deps
    /\ Begin(r, "create", t, deps, IF deps = {} THEN "commit" ELSE "existing")

\* update_task with depends_on_task_ids, by a lead or an admin: "Task cannot
\* depend on itself", and no dependencies need no check.
UpdateTask(r, t, deps) ==
    /\ r \in Editors /\ row[t] = "live"
    /\ t \notin deps
    /\ Begin(r, "edit", t, deps, IF deps = {} THEN "replace" ELSE "existing")

DeleteTask(r, t) ==
    /\ row[t] = "live"
    /\ Begin(r, "delete", t, {}, "replace")

\* validate_dependency_update, first query: 404 when a dependency is missing.
CheckExisting(r) ==
    /\ pc[r] = "existing"
    /\ IF op[r].deps \subseteq Live THEN Goto(r, "tasks") /\ UNCHANGED op ELSE Finish(r)
    /\ UNCHANGED <<row, edges>>

\* Second query: the nodes the search starts from.
ReadTasks(r) ==
    /\ pc[r] = "tasks"
    /\ op' = [op EXCEPT ![r].seen = Live]
    /\ Goto(r, "graph")
    /\ UNCHANGED <<row, edges>>

\* The committed edges with the edit of t laid over them.
Overlaid(t, deps) == [edges EXCEPT ![t] = deps]

\* Variant: the committed edges are searched without the edit.
CheckCycleUnoverlaid(r) ==
    /\ pc[r] = "graph"
    /\ IF HasCycle(op[r].seen, edges)
       THEN Finish(r)
       ELSE Goto(r, IF op[r].kind = "create" THEN "commit" ELSE "replace") /\ UNCHANGED op
    /\ UNCHANGED <<row, edges>>

\* Third query, and "Dependency cycle detected. Remove the cycle before saving."
CheckCycle(r) ==
    /\ pc[r] = "graph"
    /\ IF HasCycle(op[r].seen, Overlaid(op[r].task, op[r].deps))
       THEN Finish(r)
       ELSE Goto(r, IF op[r].kind = "create" THEN "commit" ELSE "replace") /\ UNCHANGED op
    /\ UNCHANGED <<row, edges>>

\* DELETE of the edges it finds: of the task, and to it when the task goes.
RemoveEdges(r) ==
    LET t == op[r].task IN
    /\ pc[r] = "replace"
    /\ op' = [op EXCEPT ![r].removed =
                {e \in Tasks \X Tasks :
                    /\ e[2] \in edges[e[1]]
                    /\ e[1] = t \/ (op[r].kind = "delete" /\ e[2] = t)}]
    /\ Goto(r, "commit")
    /\ UNCHANGED <<row, edges>>

\* The edges that are left once r has removed those it found.
Remaining(r) ==
    [u \in Tasks |-> {d \in edges[u] : <<u, d>> \notin op[r].removed}]

\* The new edges are inserted and committed; the foreign keys and the unique
\* constraint refuse an edge of a task that has gone, and one inserted twice.
CommitEdges(r) ==
    LET t == op[r].task
        created == op[r].kind = "create"
    IN
    /\ pc[r] = "commit" /\ op[r].kind \in {"create", "edit"}
    /\ IF /\ op[r].deps \subseteq Live /\ (created \/ row[t] = "live")
          /\ op[r].deps \cap Remaining(r)[t] = {}
       THEN /\ edges' = [Remaining(r) EXCEPT ![t] = @ \cup op[r].deps]
            /\ row' = IF created THEN [row EXCEPT ![t] = "live"] ELSE row
            /\ Committed(r)
       ELSE Finish(r) /\ UNCHANGED <<row, edges>>

\* A task that an edge still names, or that has gone already, cannot be deleted.
CommitDelete(r) ==
    LET t == op[r].task
        named == Remaining(r)[t] # {} \/ \E u \in Tasks : t \in Remaining(r)[u]
    IN
    /\ pc[r] = "commit" /\ op[r].kind = "delete"
    /\ IF row[t] = "live" /\ ~named
       THEN row' = [row EXCEPT ![t] = "gone"] /\ edges' = Remaining(r) /\ Committed(r)
       ELSE Finish(r) /\ UNCHANGED <<row, edges>>

\* Any other refusal, or a failure: the transaction is rolled back.
Abort(r) ==
    /\ pc[r] # "idle"
    /\ Finish(r)
    /\ UNCHANGED <<row, edges>>

Step(r) == \/ CheckExisting(r) \/ ReadTasks(r) \/ CheckCycle(r) \/ RemoveEdges(r)
           \/ CommitEdges(r) \/ CommitDelete(r) \/ Abort(r)

GraphNext == \E r \in Requests :
            \/ Step(r)
            \/ \E t \in Tasks : DeleteTask(r, t)
            \/ \E t \in Tasks, deps \in SUBSET Tasks : CreateTask(r, t, deps) \/ UpdateTask(r, t, deps)

GraphSpec == GraphInit /\ [][GraphNext]_graphVars
-----------------------------------------------------------------------------
(***************************************************************************)
(* Properties                                                              *)
(***************************************************************************)
\* Every committed edge joins two tasks that exist, also when a task is deleted
\* between the check of a dependency and its insert; a request's memory has its
\* type.
GraphTypeOK ==
    /\ row \in [Tasks -> {"unborn", "live", "gone"}]
    /\ edges \in [Tasks -> SUBSET Live]
    /\ \A t \in Tasks : t \notin edges[t] /\ (edges[t] # {} => t \in Live)
    /\ pc \in [Requests -> {"idle", "existing", "tasks", "graph", "replace", "commit"}]
    /\ op \in [Requests -> Op]

\* Reference definition of a cyclic graph: some tasks each depend on one of them.
Cyclic(graph) ==
    \E S \in (SUBSET Tasks) \ {{}} : \A t \in S : graph[t] \cap S # {}

\* _has_cycle says exactly whether the graph has a cycle, for every edit it may
\* be asked to lay over the edges of the board.
CycleCheckExact ==
    \A t \in Live, deps \in SUBSET Live :
        HasCycle(Live, Overlaid(t, deps)) <=> Cyclic(Overlaid(t, deps))

\* "Dependency cycle detected. Remove the cycle before saving": no committed
\* graph has a cycle, in which every task would wait for another one for good.
NoCycle == ~Cyclic(edges)
=============================================================================
