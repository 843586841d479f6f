------------------------------ MODULE TaskBoard ------------------------------
(***************************************************************************)
(* The assignment and the status of a board's tasks under overlapping      *)
(* PATCH requests of agents, the lead and admins, while the dependencies   *)
(* of the tasks are replaced and done dependencies are reopened.           *)
(*                                                                         *)
(* A request loads its task first and decides on what it loaded; the ORM   *)
(* writes the columns that differ from it.  An agent's or admin's update   *)
(* commits, reads its task again and resets dependents in a second         *)
(* transaction.  A row lock lasts from a flush to the commit and only      *)
(* orders commits, so that a commit is one step.  The gates on approvals   *)
(* (ApprovalGate), cycles (DependencyGraph), comments and GSD stages only  *)
(* refuse, and a request refused is one that did not arrive.               *)
(***************************************************************************)
EXTENDS Naturals

CONSTANTS WorkTask,
          Claimant, NoClaimant,  \* agents of the board besides the lead
          MayDependOn,           \* task -> the tasks it can depend on without a cycle
          PatchId,               \* requests in flight at once
          MaxPatches             \* bound: requests in one behaviour

ASSUME NoClaimantAssumption == NoClaimant \notin Claimant
ASSUME ClaimantNamesAssumption == {"lead", "admin"} \cap (Claimant \cup {NoClaimant}) = {}
ASSUME MayDependOnAssumption == MayDependOn \in [WorkTask -> SUBSET WorkTask]
ASSUME PatchesAssumption == MaxPatches \in Nat

WorkStatus == {"inbox", "in_progress", "review", "done"}
WorkRow == [st : WorkStatus, who : Claimant \cup {NoClaimant}]
Actor == Claimant \cup {"lead", "admin"}
Cause == {"raced", "given", "unseen", "abandoned"}

VARIABLES workRow,      \* task -> its status and assigned_agent_id
          dependsOn,    \* task -> its dependencies
          patches,      \* requests in flight
          patchesSoFar,
          startedBy,    \* history: <<t, d, why>>: why t may be under way while d is not done
          told,         \* history: tasks whose assignee, if any, took them or was told
          untold        \* history: tasks with a handler that died before it told the assignee

boardVars == <<workRow, dependsOn, patches, patchesSoFar, startedBy, told, untold>>
------------------------------------------------------------------------------
\* blocked_by_dependency_ids
BlockedBy(deps, rows) == \E d \in deps : rows[d].st # "done"

\* Tasks worked on or waiting for review, each with a dependency that is not done.
Overtaken(rows, deps) ==
    {e \in WorkTask \X WorkTask : /\ rows[e[1]].st \in {"in_progress", "review"}
                                 /\ e[2] \in deps[e[1]] /\ rows[e[2]].st # "done"}

PatchDone(p) == patches' = patches \ {p}
PatchGoesOn(p, q) == patches' = (patches \ {p}) \cup {q}

\* What this step overtakes has the causes in why; the rest keeps its own while it
\* lasts.
NoteOvertaken(why) ==
    LET before == Overtaken(workRow, dependsOn)
        after  == Overtaken(workRow', dependsOn')
    IN startedBy' = {x \in startedBy : <<x[1], x[2]>> \in after}
                    \cup {x \in why : <<x[1], x[2]>> \in after \ before}

BoardInit ==
    /\ workRow \in [WorkTask -> WorkRow]
    /\ dependsOn \in [WorkTask -> SUBSET WorkTask]
    /\ \A t \in WorkTask : dependsOn[t] \subseteq MayDependOn[t]
    /\ Overtaken(workRow, dependsOn) = {}
    /\ patches = {}
    /\ patchesSoFar = 0
    /\ startedBy = {}
    /\ told = WorkTask
    /\ untold = {}

\* update_task: the request and the row it loads.  It asks for a status, an
\* assignee or other dependencies.
PatchTask(by, t, what, st, who, deps) ==
    /\ patchesSoFar < MaxPatches
    /\ by \in Claimant => what = "status"
    /\ \E id \in PatchId :
           /\ \A p \in patches : p.id # id
           /\ patches' = patches \cup
                  {[id |-> id, by |-> by, t |-> t, was |-> workRow[t], what |-> what,
                    new |-> [st |-> st, who |-> who], deps |-> deps, clear |-> FALSE,
                    phase |-> "rules", resets |-> {}]}
    /\ patchesSoFar' = patchesSoFar + 1
    /\ UNCHANGED <<workRow, dependsOn, startedBy, told, untold>>

\* A PATCH with one field: the others stay as they are loaded.
PatchArrives(by, t) ==
    LET row == workRow[t] IN
    \/ \E st \in WorkStatus : PatchTask(by, t, "status", st, row.who, {})
    \/ \E who \in Claimant \cup {NoClaimant} : PatchTask(by, t, "who", row.st, who, {})
    \/ \E deps \in SUBSET MayDependOn[t] : PatchTask(by, t, "deps", row.st, row.who, deps)

\* _apply_non_lead_agent_task_rules: the row the request may write, or none.  To
\* claim a task is to move it.
AgentRows(p, blocked) ==
    {row \in {[p.new EXCEPT !.who = IF p.new.st \in {"inbox", "review"} THEN NoClaimant ELSE p.by]} :
        /\ p.was.who \in {NoClaimant, p.by}
        /\ p.new.st # "inbox" => ~blocked}

\* _lead_effective_dependencies, _lead_apply_assignment, _lead_apply_status
LeadRows(p, blocked) ==
    {row \in {[p.new EXCEPT !.who = IF p.what = "status" /\ p.new.st = "inbox" THEN NoClaimant ELSE @]} :
        /\ p.what = "deps" => p.was.st # "done"
        /\ p.what \in {"who", "status"} => ~blocked
        /\ p.what = "status" => p.was.st = "review" /\ p.new.st \in {"done", "inbox"}}

\* _apply_admin_task_rules: a blocked task goes back to the inbox.
AdminRows(p, blocked) ==
    {row \in {IF blocked /\ ~(p.was.st = "done" /\ p.new.st = "done")
              THEN [st |-> "inbox", who |-> NoClaimant]
              ELSE [p.new EXCEPT !.who = IF p.what = "status" /\ p.new.st \in {"inbox", "review"}
                                         THEN NoClaimant ELSE @]} :
        p.what = "deps" => p.was.st # "done"}

\* The role's rules, with the dependencies of the request or the task's own.
ApplyRules(p) ==
    LET blocked == BlockedBy(IF p.what = "deps" THEN p.deps ELSE dependsOn[p.t], workRow)
        rows == CASE p.by = "lead"  -> LeadRows(p, blocked)
                  [] p.by = "admin" -> AdminRows(p, blocked)
                  [] OTHER          -> AgentRows(p, blocked)
    IN /\ p.phase = "rules"
       /\ \/ \E row \in rows :
                PatchGoesOn(p, [p EXCEPT !.phase = "commit", !.new = row, !.clear = ~blocked])
          \/ rows = {} /\ PatchDone(p)
       /\ UNCHANGED <<workRow, dependsOn, patchesSoFar, startedBy, told, untold>>

\* The columns that differ from what was loaded.
Written(row, was, new) == [st  |-> IF new.st # was.st THEN new.st ELSE row.st,
                           who |-> IF new.who # was.who THEN new.who ELSE row.who]

\* An assignee that a commit puts there is to be told, but for one who took the task.
NoteAssigned(by) ==
    /\ told' = {t \in WorkTask : IF workRow'[t].who = workRow[t].who THEN t \in told
                                  ELSE workRow'[t].who \in {by, NoClaimant}}
    /\ untold' = {t \in untold : workRow'[t].who = workRow[t].who}

\* Why the commit of p leaves t under way with d not done: p moved t and had passed
\* its check before d was reopened, or another request moved t since p loaded it;
\* the lead gave the dependency to a task under way, which is allowed; p moved d,
\* that had become done after p loaded it, and so resets nothing.
CommitCause(p, t) ==
    IF t = p.t
    THEN (IF p.clear \/ workRow[t].st # p.was.st THEN {"raced"} ELSE {})
         \cup (IF p.by = "lead" /\ p.what = "deps" THEN {"given"} ELSE {})
    ELSE IF p.was.st # "done" THEN {"unseen"} ELSE {}

\* The commit of the task; a lead's update reconciles in the same transaction, but
\* resets nothing, as it cannot reopen a task.
CommitPatch(p) ==
    /\ p.phase = "commit"
    /\ workRow' = [workRow EXCEPT ![p.t] = Written(@, p.was, p.new)]
    /\ dependsOn' = [dependsOn EXCEPT ![p.t] = IF p.what = "deps" THEN p.deps ELSE @]
    /\ NoteOvertaken({x \in WorkTask \X WorkTask \X Cause : x[3] \in CommitCause(p, x[1])})
    /\ NoteAssigned(p.by)
    /\ PatchGoesOn(p, [p EXCEPT !.phase = "refresh", !.what = "status", !.new = p.was,
                                !.deps = {}, !.clear = FALSE])
    /\ UNCHANGED patchesSoFar

\* Variant: the assignee from before is taken from the task after its commit.
RefreshPatchAndPrevious(p) ==
    /\ p.phase = "refresh"
    /\ PatchGoesOn(p, [p EXCEPT !.new = workRow[p.t], !.was.who = workRow[p.t].who,
                                !.phase = IF p.by = "lead" THEN "notify" ELSE "reconcile"])
    /\ UNCHANGED <<workRow, dependsOn, patchesSoFar, startedBy, told, untold>>

\* session.refresh(update.task): what follows is decided on this row.
RefreshPatch(p) ==
    /\ p.phase = "refresh"
    /\ PatchGoesOn(p, [p EXCEPT !.new = workRow[p.t],
                                !.phase = IF p.by = "lead" THEN "notify" ELSE "reconcile"])
    /\ UNCHANGED <<workRow, dependsOn, patchesSoFar, startedBy, told, untold>>

\* Variant: only tasks in progress go back, not those that wait for review.
ResetsInProgress(p) ==
    IF p.was.st = "done" /\ p.new.st # "done"
    THEN {[t |-> t, row |-> workRow[t]] : t \in {u \in WorkTask :
              p.t \in dependsOn[u] /\ workRow[u].st = "in_progress"}}
    ELSE {}

\* The dependents that the reopening of p's task sends back to the inbox, as loaded.
ResetsOf(p) ==
    IF p.was.st = "done" /\ p.new.st # "done"
    THEN {[t |-> t, row |-> workRow[t]] : t \in {u \in WorkTask :
              /\ p.t \in dependsOn[u] /\ workRow[u].st # "done"
              /\ workRow[u].st # "inbox" \/ workRow[u].who # NoClaimant}}
    ELSE {}

\* _reconcile_dependents_for_dependency_toggle, its queries and its commit.  A
\* dependent that became done in between goes back as well, and nothing resets its
\* own dependents.
SelectResets(p) ==
    /\ p.phase = "reconcile"
    /\ PatchGoesOn(p, [p EXCEPT !.resets = ResetsOf(p), !.phase = "reset"])
    /\ UNCHANGED <<workRow, dependsOn, patchesSoFar, startedBy, told, untold>>

SaveResets(p) ==
    /\ p.phase = "reset"
    /\ workRow' = [t \in WorkTask |->
           IF \E r \in p.resets : r.t = t
           THEN Written(workRow[t], (CHOOSE r \in p.resets : r.t = t).row,
                        [st |-> "inbox", who |-> NoClaimant])
           ELSE workRow[t]]
    /\ UNCHANGED dependsOn
    /\ NoteOvertaken(WorkTask \X WorkTask \X {"unseen"})
    /\ NoteAssigned("admin")
    /\ PatchGoesOn(p, [p EXCEPT !.resets = {}, !.phase = "notify"])
    /\ UNCHANGED patchesSoFar

\* _notify_task_update_assignment_changes, _lead_notify_new_assignee
TellsAssignee(p) == p.new.who \notin {NoClaimant, p.was.who, p.by}

Notify(p) ==
    /\ p.phase = "notify"
    /\ told' = IF TellsAssignee(p) /\ workRow[p.t].who = p.new.who THEN told \cup {p.t} ELSE told
    /\ PatchDone(p)
    /\ UNCHANGED <<workRow, dependsOn, patchesSoFar, startedBy, untold>>

\* p is to tell the assignee of its task.
WillTell(p) ==
    /\ workRow[p.t].who \notin {NoClaimant, p.was.who, p.by}
    /\ \/ p.phase = "refresh"
       \/ p.phase \in {"reconcile", "reset", "notify"} /\ p.new.who = workRow[p.t].who

\* p has reopened a dependency of t and is yet to send t back to the inbox.
WillReset(p, t) ==
    /\ p.by # "lead" /\ p.was.st = "done"
    /\ \/ p.phase = "refresh"
       \/ p.phase = "reconcile" /\ p.new.st # "done"
       \/ p.phase = "reset" /\ \E r \in p.resets : r.t = t /\ r.row.st # "inbox"

\* An error or a dead process after the commit: what should follow does not.  (A
\* request that ends before leaves nothing.)
HandlerDies(p) ==
    /\ p.phase \in {"refresh", "reconcile", "reset", "notify"}
    /\ PatchDone(p)
    /\ startedBy' = startedBy \cup
           {x \in WorkTask \X {p.t} \X {"abandoned"} :
                <<x[1], x[2]>> \in Overtaken(workRow, dependsOn) /\ WillReset(p, x[1])}
    /\ untold' = IF WillTell(p) THEN untold \cup {p.t} ELSE untold
    /\ UNCHANGED <<workRow, dependsOn, patchesSoFar, told>>

BoardNext ==
    \/ \E by \in Actor, t \in WorkTask : PatchArrives(by, t)
    \/ \E p \in patches : \/ ApplyRules(p) \/ CommitPatch(p) \/ RefreshPatch(p)
                          \/ SelectResets(p) \/ SaveResets(p) \/ Notify(p) \/ HandlerDies(p)

BoardSpec == BoardInit /\ [][BoardNext]_boardVars
------------------------------------------------------------------------------
PatchType == [id : PatchId, by : Actor, t : WorkTask, was : WorkRow, what : {"status", "who", "deps"},
              new : WorkRow, deps : SUBSET WorkTask, clear : BOOLEAN,
              phase : {"rules", "commit", "refresh", "reconcile", "reset", "notify"},
              resets : SUBSET [t : WorkTask, row : WorkRow]]

BoardTypeOK ==
    /\ workRow \in [WorkTask -> WorkRow]
    /\ dependsOn \in [WorkTask -> SUBSET WorkTask]
    /\ patches \subseteq PatchType
    /\ patchesSoFar \in Nat
    /\ startedBy \subseteq WorkTask \X WorkTask \X Cause
    /\ told \cup untold \subseteq WorkTask

\* A task with a dependency that is not done is neither worked on nor in review,
\* but until the request that reopened the dependency has reset it, or for a
\* cause on record: its own request had passed the check before the reopening, the
\* lead gave it the dependency, or the reset never comes, because its request died
\* or reopened a dependency that it had not loaded as done.
BlockedNotStarted ==
    \A e \in Overtaken(workRow, dependsOn) :
        \/ \E x \in startedBy : <<x[1], x[2]>> = e
        \/ \E p \in patches : p.t = e[2] /\ WillReset(p, e[1])

\* Who is assigned a task took it, was told, or is about to be by a request that
\* put the assignment there, unless a handler died before that.
AssigneeTold ==
    \A t \in WorkTask \ (told \cup untold) : \E p \in patches : p.t = t /\ WillTell(p)
==============================================================================
