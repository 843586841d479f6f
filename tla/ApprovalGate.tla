---------------------------- MODULE ApprovalGate ----------------------------
(***************************************************************************)
(* Approvals, the tasks they are linked to, and the requests that change   *)
(* either of them at the same time.                                        *)
(*                                                                         *)
(* Every HTTP request (and every queue job) runs its own READ COMMITTED    *)
(* transaction: a statement sees what is committed when it starts, a row   *)
(* written or selected FOR UPDATE stays locked until the transaction ends, *)
(* and a transaction that fails leaves nothing behind.  A handler is       *)
(* therefore split at each statement whose answer another request can      *)
(* change.  What a handler keeps between two statements (the task status   *)
(* it loaded, the approval status it loaded) is in op[r] and may be stale. *)
(*                                                                         *)
(* The ORM flushes the pending UPDATE of a task before the next SELECT, so *)
(* an update holds its task's row lock while its gates run; it writes only *)
(* the columns whose value differs from the value it loaded.               *)
(*                                                                         *)
(* A row that references a task (an approval, a link, an activity event)   *)
(* makes the database check the foreign key: its transaction shares the    *)
(* task's key until it ends.  Sharing goes along with an UPDATE of the     *)
(* status, and excludes SELECT FOR UPDATE.                                 *)
(***************************************************************************)
EXTENDS Naturals

CONSTANTS Tasks,             \* the task ids of one board; rows are locked in id order
          Approvals,         \* the approval ids the board can ever have
          Requests,          \* requests and queue jobs in flight at once
          Nobody,            \* owner of an unlocked row, "no approval", "no task"
          Kinds,             \* the handlers this instance exercises
          Targets,           \* the statuses its updates ask for
          Verdicts,          \* the statuses its approval requests ask for
          DependsOn,         \* the dependencies of each task
          RequireApproval,   \* board.require_approval_for_done
          RequireReview,     \* board.require_review_before_done
          BlockPending       \* board.block_status_changes_with_pending_approval

ASSUME TasksAssumption == Tasks \subseteq Nat
ASSUME NobodyAssumption == Nobody \notin Requests \cup Approvals \cup Tasks
ASSUME DependsOnAssumption == DependsOn \in [Tasks -> SUBSET Tasks]
ASSUME KindsAssumption ==
    Kinds \subseteq {"task", "create", "resolve", "lead", "agent", "admin", "worker"}

UpdateKinds == {"lead", "agent", "admin"}

Status == {"inbox", "in_progress", "review", "done"}
ASSUME TargetsAssumption == Targets \subseteq Status

Verdict == {"pending", "approved", "rejected"}
ASSUME VerdictsAssumption == Verdicts \subseteq Verdict
ApprovalStatus == Verdict \cup {"absent"}

VARIABLES status,      \* task -> committed status, "absent" before it is created
          approval,    \* approval -> committed status, "absent" before it is created
          links,       \* approval -> the tasks it is linked to
          lock,        \* task -> the request whose open transaction holds the row
          pc,          \* request -> the statement it runs next
          op,          \* request -> what the handler holds in memory
          onceApproved, \* history: tasks that had an approved linked approval
          bornDone     \* history: tasks created done that have been done ever since

vars == <<status, approval, links, lock, pc, op, onceApproved, bornDone>>
-----------------------------------------------------------------------------
Op == [kind : Kinds \cup {"none"}, appr : Approvals \cup {Nobody},
       task : Tasks \cup {Nobody}, tasks : SUBSET Tasks,
       prior : Status \cup ApprovalStatus, new : Status \cup ApprovalStatus,
       asked : BOOLEAN, refs : SUBSET Tasks, shared : SUBSET Tasks, kept : SUBSET Tasks]

NoOp == [kind |-> "none", appr |-> Nobody, task |-> Nobody, tasks |-> {},
         prior |-> "absent", new |-> "absent", asked |-> FALSE,
         refs |-> {}, shared |-> {}, kept |-> {}]

Existing == {t \in Tasks : status[t] # "absent"}

\* The history of a step that writes statuses: who has stayed done.
StillDone == bornDone \cap {t \in Tasks : status'[t] = "done"}

\* A task with a dependency that is not done (blocked_by_dependency_ids).
Blocked(t) == \E d \in DependsOn[t] : status[d] # "done"

Dependents(t) == {u \in Tasks : t \in DependsOn[u]}

\* pending_approval_conflicts_by_task, with and without exclude_approval_id.
HasPending(t, excluded) ==
    \E a \in Approvals \ excluded : approval[a] = "pending" /\ t \in links[a]

\* Variant: the approved approval may be linked to another task.
HasApprovedOnBoard(t) == \E a \in Approvals : approval[a] = "approved"

\* _task_has_approved_linked_approval
HasApproved(t) == \E a \in Approvals : approval[a] = "approved" /\ t \in links[a]

Held(r) == {t \in Tasks : lock[t] = r}

\* A transaction that ends, committed or rolled back, releases its rows.
Released(r) == [t \in Tasks |-> IF lock[t] = r THEN Nobody ELSE lock[t]]

Goto(r, label) == pc' = [pc EXCEPT ![r] = label]

Finish(r) ==
    /\ Goto(r, "idle")
    /\ op' = [op EXCEPT ![r] = NoOp]
    /\ lock' = Released(r)

\* A row a handler can write at once: free, or locked by its own transaction.
Writable(r, t) == lock[t] \in {Nobody, r}

\* Approval requests lock with SELECT FOR UPDATE, every other handler by writing.
ForUpdate(r) == op[r].kind \in {"create", "resolve"}
-----------------------------------------------------------------------------
Init ==
    /\ status \in [Tasks -> {"absent", "inbox"}]
    /\ \A t \in Existing : DependsOn[t] \subseteq Existing
    /\ approval = [a \in Approvals |-> "absent"]
    /\ links = [a \in Approvals |-> {}]
    /\ lock = [t \in Tasks |-> Nobody]
    /\ pc = [r \in Requests |-> "idle"]
    /\ op = [r \in Requests |-> NoOp]
    /\ onceApproved = {} /\ bornDone = {}

\* What a handler loads before its first decision.
Begin(r, label, o) ==
    /\ pc[r] = "idle"
    /\ o.kind \in Kinds
    /\ op' = [op EXCEPT ![r] = o]
    /\ Goto(r, label)
    /\ UNCHANGED <<status, approval, links, lock, onceApproved, bornDone>>

(***************************************************************************)
(* create_task, of an admin or the lead.  The task is stored with whatever *)
(* status the request names: the only rule is that a blocked task starts   *)
(* in the inbox.  Its dependency rows reference tasks of the board.        *)
(***************************************************************************)
CreateTask(r, t, s) ==
    /\ status[t] = "absent"
    /\ \A q \in Requests : op[q].kind = "task" => op[q].task # t
    /\ DependsOn[t] \subseteq Existing
    /\ Blocked(t) => s = "inbox"
    /\ Begin(r, "insert", [NoOp EXCEPT !.kind = "task", !.task = t, !.new = s,
                                       !.refs = DependsOn[t]])

(***************************************************************************)
(* create_approval and update_approval.  Only a request that makes the     *)
(* approval pending locks the tasks and looks for a conflict.              *)
(***************************************************************************)
CreateApproval(r, a, ts, verdict) ==
    /\ approval[a] = "absent" /\ ts \subseteq Existing
    /\ \A q \in Requests : op[q].appr # a
    /\ Begin(r, IF verdict = "pending" THEN "lock" ELSE "save",
             [NoOp EXCEPT !.kind = "create", !.appr = a, !.tasks = ts, !.new = verdict,
                      !.refs = ts])

UpdateApproval(r, a, verdict) ==
    /\ approval[a] # "absent"
    /\ Begin(r,
             IF verdict = "pending" /\ approval[a] # "pending" THEN "lock" ELSE "save",
             [NoOp EXCEPT !.kind = "resolve", !.appr = a, !.tasks = links[a],
                          !.prior = approval[a], !.new = verdict])

\* lock_tasks_for_approval, and the flush of reset dependents: one row after
\* the other in id order, waiting for each.
NextRow(r, t) ==
    /\ pc[r] \in {"lock", "dependents"}
    /\ t \in op[r].tasks \ Held(r)
    /\ \A u \in op[r].tasks \ Held(r) : t <= u

\* Variant: a plain SELECT, which takes the row whoever holds it.
LockRowUnlocked(r) ==
    /\ \E t \in Tasks : NextRow(r, t) /\ lock' = [lock EXCEPT ![t] = r]
    /\ UNCHANGED <<status, approval, links, pc, op, onceApproved, bornDone>>

LockRow(r) ==
    /\ \E t \in Tasks : /\ NextRow(r, t)
                        /\ lock[t] = Nobody
                        /\ ForUpdate(r) => \A q \in Requests : t \notin op[q].shared
                        /\ lock' = [lock EXCEPT ![t] = r]
    /\ UNCHANGED <<status, approval, links, pc, op, onceApproved, bornDone>>

\* A referenced task whose key r still has to share; rows are inserted in the
\* order of the request, or of a query without ORDER BY.
Unshared(r) ==
    IF pc[r] \in {"insert", "save", "dependents"} THEN op[r].refs \ (Held(r) \cup op[r].shared) ELSE {}

\* An INSERT whose foreign key names t waits for a FOR UPDATE of t to end.
ReferenceRow(r) ==
    /\ \E t \in Unshared(r) : /\ lock[t] # Nobody => ~ForUpdate(lock[t])
                             /\ op' = [op EXCEPT ![r].shared = @ \cup {t}]
    /\ UNCHANGED <<status, approval, links, lock, pc, onceApproved, bornDone>>

SaveTask(r) ==
    /\ pc[r] = "insert" /\ Unshared(r) = {}
    /\ status' = [status EXCEPT ![op[r].task] = op[r].new]
    /\ bornDone' = IF op[r].new = "done" THEN StillDone \cup {op[r].task} ELSE StillDone
    /\ Finish(r)
    /\ UNCHANGED <<approval, links, onceApproved>>

\* _ensure_no_pending_approval_conflicts: 409 when one of the tasks has one.
CheckConflicts(r) ==
    /\ pc[r] = "lock"
    /\ op[r].tasks \subseteq Held(r)
    /\ IF \E t \in op[r].tasks : HasPending(t, {op[r].appr})
       THEN Finish(r)
       ELSE Goto(r, "save") /\ UNCHANGED <<op, lock>>
    /\ UNCHANGED <<status, approval, links, onceApproved, bornDone>>

SaveApproval(r) ==
    LET o == op[r] IN
    /\ pc[r] = "save" /\ Unshared(r) = {}
    /\ approval' = IF o.new # o.prior THEN [approval EXCEPT ![o.appr] = o.new] ELSE approval
    /\ links' = IF o.kind = "create" THEN [links EXCEPT ![o.appr] = o.tasks] ELSE links
    /\ onceApproved' = IF o.new # o.prior /\ o.new = "approved"
                       THEN onceApproved \cup o.tasks ELSE onceApproved
    /\ Finish(r)
    /\ UNCHANGED <<status, bornDone>>

(***************************************************************************)
(* update_task.  A PATCH that leaves the status alone is one that asks for *)
(* the status it loaded.  Refusals that depend on state kept elsewhere     *)
(* (assignee, board flags for agents, GSD stage, engineering checks, the   *)
(* comment a review needs) are requests that Abort.                        *)
(***************************************************************************)
UpdateTask(r, k, t, s) ==
    /\ k \in UpdateKinds /\ t \in Existing
    /\ Begin(r, "rules", [NoOp EXCEPT !.kind = k, !.task = t, !.prior = status[t],
                                      !.new = s, !.asked = (s # status[t])])

\* The status the role's rules let through, or none when they refuse.
AllowedTargets(o) ==
    CASE o.kind = "lead" ->
           IF ~o.asked THEN {o.prior}
           ELSE {s \in {o.new} : ~Blocked(o.task) /\ o.prior = "review" /\ s \in {"done", "inbox"}}
      [] o.kind = "agent" ->
           {s \in {o.new} : s = "inbox" \/ ~o.asked \/ ~Blocked(o.task)}
      [] o.kind = "admin" ->
           IF Blocked(o.task) /\ ~(o.prior = "done" /\ o.new = "done")
           THEN {"inbox"} ELSE {o.new}

RoleRules(r) ==
    /\ pc[r] = "rules"
    /\ IF AllowedTargets(op[r]) = {}
       THEN Finish(r)
       ELSE /\ \E s \in AllowedTargets(op[r]) : op' = [op EXCEPT ![r].new = s]
            /\ Goto(r, "flush")
            /\ UNCHANGED lock
    /\ UNCHANGED <<status, approval, links, onceApproved, bornDone>>

\* Variant: autoflush off, so that the row is not locked while the gates run.
FlushTaskLate(r) ==
    /\ pc[r] = "flush"
    /\ Goto(r, "pendingGate")
    /\ UNCHANGED <<status, approval, links, lock, op, onceApproved, bornDone>>

\* The first query after the status attribute is set sends the UPDATE.
FlushTask(r) ==
    /\ pc[r] = "flush"
    /\ IF op[r].new = op[r].prior
       THEN UNCHANGED lock
       ELSE /\ lock[op[r].task] = Nobody
            /\ lock' = [lock EXCEPT ![op[r].task] = r]
    /\ Goto(r, "pendingGate")
    /\ UNCHANGED <<status, approval, links, op, onceApproved, bornDone>>

\* _require_no_pending_approval_for_status_change_when_enabled
PendingGate(r) ==
    LET o == op[r] IN
    /\ pc[r] = "pendingGate"
    /\ IF BlockPending /\ o.asked /\ o.new # o.prior /\ HasPending(o.task, {})
       THEN Finish(r)
       ELSE Goto(r, "doneGate") /\ UNCHANGED <<op, lock>>
    /\ UNCHANGED <<status, approval, links, onceApproved, bornDone>>

\* _require_review_before_done_when_enabled, _require_approved_linked_approval_for_done
DoneGate(r) ==
    LET o == op[r]
        gated == o.prior # "done" /\ o.new = "done"
    IN
    /\ pc[r] = "doneGate"
    /\ IF gated /\ (\/ RequireReview /\ o.prior # "review"
                    \/ RequireApproval /\ ~HasApproved(o.task))
       THEN Finish(r)
       ELSE /\ Goto(r, IF o.kind = "lead" THEN "reconcile" ELSE "commit")
            /\ UNCHANGED <<op, lock>>
    /\ UNCHANGED <<status, approval, links, onceApproved, bornDone>>

\* Variant: a status outside ALLOWED_STATUSES reaches the row.
CommitTaskUnvalidated(r) ==
    /\ pc[r] = "commit"
    /\ status' = [status EXCEPT ![op[r].task] = "closed"] /\ bornDone' = StillDone
    /\ lock' = Released(r)
    /\ Goto(r, "refresh")
    /\ UNCHANGED <<approval, links, op, onceApproved>>

\* The first commit of _finalize_updated_task; a lead's update has only one.
CommitTask(r) ==
    LET o == op[r] IN
    /\ pc[r] = "commit"
    /\ status' = IF o.new # o.prior THEN [status EXCEPT ![o.task] = o.new] ELSE status
    /\ bornDone' = StillDone
    /\ lock' = Released(r)
    /\ Goto(r, "refresh")
    /\ UNCHANGED <<approval, links, op, onceApproved>>

\* session.refresh(update.task): the reconcile compares against this status.
RefreshTask(r) ==
    /\ pc[r] = "refresh"
    /\ op' = [op EXCEPT ![r].new = status[op[r].task]]
    /\ Goto(r, "reconcile")
    /\ UNCHANGED <<status, approval, links, lock, onceApproved, bornDone>>

\* The dependents of r's task that are not done; the update's activity event
\* references the task, and a toggled dependency adds one for each of them.
OpenDependents(r) == {u \in Dependents(op[r].task) : status[u] \notin {"absent", "done"}}

ToggleRefs(r) ==
    {op[r].task} \cup IF (op[r].prior = "done") # (op[r].new = "done")
                      THEN OpenDependents(r) ELSE {}

\* Variant: a dependency that becomes done resets its dependents too.
SelectDependentsToggled(r) ==
    LET o == op[r]
        reset == {u \in OpenDependents(r) : status[u] # "inbox"}
        toggled == (o.prior = "done") # (o.new = "done")
    IN
    /\ pc[r] = "reconcile"
    /\ op' = [op EXCEPT ![r].tasks = IF toggled THEN reset ELSE {}, ![r].refs = ToggleRefs(r)]
    /\ Goto(r, "dependents")
    /\ UNCHANGED <<status, approval, links, lock, onceApproved, bornDone>>

\* _reconcile_dependents_for_dependency_toggle: a reopened dependency resets
\* the dependents that left the inbox and are not done.  One in the inbox that
\* has an assignee or a start time is written too, its status column is not.
SelectDependents(r) ==
    LET o == op[r]
        reopened == o.prior = "done" /\ o.new # "done"
        reset == {u \in OpenDependents(r) : status[u] # "inbox"}
    IN
    /\ pc[r] = "reconcile"
    /\ \E assigned \in SUBSET (OpenDependents(r) \ reset) :
         op' = [op EXCEPT ![r].tasks = IF reopened THEN reset \cup assigned ELSE {},
                          ![r].kept = IF reopened THEN assigned ELSE {},
                          ![r].refs = ToggleRefs(r)]
    /\ Goto(r, "dependents")
    /\ UNCHANGED <<status, approval, links, lock, onceApproved, bornDone>>

SaveDependents(r) ==
    LET o == op[r]
        leads == o.kind = "lead" /\ o.new # o.prior
    IN
    /\ pc[r] = "dependents" /\ Unshared(r) = {}
    /\ o.tasks \subseteq Held(r)
    /\ status' = [u \in Tasks |-> IF u \in o.tasks \ o.kept THEN "inbox"
                                  ELSE IF leads /\ u = o.task THEN o.new ELSE status[u]]
    /\ bornDone' = StillDone
    /\ Finish(r)
    /\ UNCHANGED <<approval, links, onceApproved>>

(***************************************************************************)
(* execute_task_mode: the queue worker writes the status before and after  *)
(* the run, with none of the gates.                                        *)
(***************************************************************************)
ExecuteTaskMode(r, t) ==
    /\ t \in Existing
    /\ Begin(r, "start", [NoOp EXCEPT !.kind = "worker", !.task = t, !.prior = status[t],
                                      !.new = "in_progress"])

StartRun(r) ==
    LET o == op[r] IN
    /\ pc[r] = "start"
    /\ IF o.prior = "in_progress" THEN UNCHANGED status
       ELSE Writable(r, o.task) /\ status' = [status EXCEPT ![o.task] = "in_progress"]
    /\ bornDone' = StillDone
    /\ Goto(r, "running")
    /\ UNCHANGED <<approval, links, lock, op, onceApproved>>

\* Success moves to review; a failure with no iteration to inbox; a failure
\* with iterations leaves the status as it is.
EndRun(r, outcome) ==
    /\ pc[r] = "running"
    /\ IF outcome = "in_progress" THEN UNCHANGED status
       ELSE Writable(r, op[r].task) /\ status' = [status EXCEPT ![op[r].task] = outcome]
    /\ bornDone' = StillDone
    /\ Finish(r)
    /\ UNCHANGED <<approval, links, onceApproved>>

(***************************************************************************)
(* A request that is refused for reasons outside this module, whose        *)
(* connection fails, or whose process dies: its open transaction is rolled *)
(* back, what it committed stays.                                          *)
(***************************************************************************)
Abort(r) ==
    /\ pc[r] # "idle"
    /\ Finish(r)
    /\ UNCHANGED <<status, approval, links, onceApproved, bornDone>>

Step(r) ==
    \/ LockRow(r) \/ ReferenceRow(r) \/ CheckConflicts(r) \/ SaveApproval(r) \/ SaveTask(r)
    \/ RoleRules(r) \/ FlushTask(r) \/ PendingGate(r) \/ DoneGate(r)
    \/ CommitTask(r) \/ RefreshTask(r) \/ SelectDependents(r) \/ SaveDependents(r)
    \/ StartRun(r) \/ \E outcome \in {"review", "inbox", "in_progress"} : EndRun(r, outcome)

Arrive(r) ==
    \/ \E t \in Tasks, s \in Targets \cup {"inbox"} : CreateTask(r, t, s)
    \/ \E a \in Approvals, ts \in SUBSET Tasks, v \in Verdicts : CreateApproval(r, a, ts, v)
    \/ \E a \in Approvals, v \in Verdicts : UpdateApproval(r, a, v)
    \/ \E k \in Kinds, t \in Tasks : \E s \in Targets \cup {status[t]} : UpdateTask(r, k, t, s)
    \/ \E t \in Tasks : ExecuteTaskMode(r, t)

Next == \E r \in Requests : Step(r) \/ Arrive(r) \/ Abort(r)

Spec == Init /\ [][Next]_vars
-----------------------------------------------------------------------------
(***************************************************************************)
(* Properties                                                              *)
(***************************************************************************)
\* Variables keep their shape, and a request at rest holds nothing.
TypeOK ==
    /\ status \in [Tasks -> Status \cup {"absent"}]
    /\ approval \in [Approvals -> ApprovalStatus]
    /\ links \in [Approvals -> SUBSET Tasks]
    /\ lock \in [Tasks -> Requests \cup {Nobody}]
    /\ pc \in [Requests -> {"idle", "insert", "lock", "save", "rules", "flush", "pendingGate",
                            "doneGate", "commit", "refresh", "reconcile", "dependents",
                            "start", "running"}]
    /\ op \in [Requests -> Op]
    /\ onceApproved \subseteq Tasks /\ bornDone \subseteq Tasks

\* "Each task can have only one pending approval": however create_approval and
\* update_approval (which can reopen a resolved approval) interleave, no task
\* is ever linked to two pending ones.
OnePendingPerTask ==
    \A a, b \in Approvals :
        approval[a] = "pending" /\ approval[b] = "pending" /\ links[a] \cap links[b] # {}
            => a = b

\* The commits that write a task's status without having asked to change it: its
\* creation, the worker's, the reconcile's, and the reset an admin's edit of a
\* blocked task brings with it.
SystemWrite(r, t) ==
    \/ pc[r] = "insert" /\ op[r].task = t
    \/ pc[r] \in {"start", "running"} /\ op[r].task = t
    \/ pc[r] = "dependents" /\ t \in op[r].tasks \ op[r].kept
    \/ pc[r] = "commit" /\ op[r].task = t /\ ~op[r].asked

\* With block_status_changes_with_pending_approval set, an update that asks for
\* another status never commits it while a linked approval is pending, not
\* even when the approval is created or reopened while the update runs.
AskedStatusFrozenWhilePending ==
    [][BlockPending =>
         \A t \in Tasks : HasPending(t, {}) /\ status'[t] # status[t]
             => \E r \in Requests : SystemWrite(r, t)]_vars

\* With require_approval_for_done set, a task that is done has had an approved
\* linked approval, or was created done (create_task has no gate) and has not
\* been reopened since: no stale status or overlapping update gets around the
\* gate, and a reset task does not become done again without an approval.
DoneWasApproved ==
    RequireApproval =>
        \A t \in Tasks : status[t] = "done" => t \in onceApproved \cup bornDone

\* "Task can only be marked done from review when the board rule is enabled."
DoneOnlyFromReview ==
    [][RequireReview =>
         \A t \in Existing : status[t] # "done" /\ status'[t] = "done"
             => status[t] = "review"]_vars

\* r waits to write, or to read FOR UPDATE, a row that q has locked.
WaitsForLock(r, q) ==
    \/ \E t \in Tasks : NextRow(r, t) /\ lock[t] = q /\ q # r
    \/ /\ \/ pc[r] = "flush" /\ op[r].new # op[r].prior
          \/ pc[r] \in {"start", "running"}
       /\ op[r].task \in Tasks
       /\ lock[op[r].task] = q /\ q # r

\* r waits for a foreign key check, or for the end of one.
WaitsForKey(r, q) ==
    \/ \E t \in Unshared(r) : lock[t] = q /\ ForUpdate(q)
    \/ \E t \in Tasks : NextRow(r, t) /\ ForUpdate(r) /\ t \in op[q].shared

\* Approval requests and reconciles lock their tasks in id order, and every
\* other transaction locks one row: no set of requests waits in a circle for
\* rows that another of them has locked.  (A lead's update keeps its own task
\* locked while it reconciles, but a lead cannot reopen a done task, so it
\* resets no dependent.)
LockOrderKept ==
    \A S \in (SUBSET Requests) \ {{}} : \E r \in S : \A q \in S : ~WaitsForLock(r, q)

\* "Acquire row locks for task ids in deterministic order within a
\* transaction": no set of transactions on tasks waits in a circle.
DeadlockFree ==
    \A S \in (SUBSET Requests) \ {{}} :
        \E r \in S : \A q \in S : ~WaitsForLock(r, q) /\ ~WaitsForKey(r, q)
=============================================================================
