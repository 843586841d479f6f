# A formal model of Mission Control

TLA+ modules for the parts of kr8tiv Mission Control (`src/`) where several
actors share state: HTTP requests on PostgreSQL, queue workers on Redis, the
recovery sweep, and the pages of the web client, which keep copies of the
server's rows up to date from snapshots, streams and the answers to their own
requests. TLC checks small instances; TLAPS proves for every value of the constants the
safety properties of the approval gates, the task board, the work queue (with its
refinement of an abstract job), autorecovery, the dependency graph, membership, the
optimistic list deletion, and of the pages of the client: every invariant that a passing
run checks is a theorem. `PROJECT.json` maps each definition to the lines it
stands for and lists the hazards, findings, mutants and theorems.

Paths below are relative to `src/backend/app/` unless they start with `src/`; those of
the client (`app/..`, `lib/..`, `BoardOnboardingChat.tsx`) to `src/frontend/src/` or its
`components/`.

## Inventory

The backend is a FastAPI application on PostgreSQL (READ COMMITTED, one
transaction per request until a commit) and a Redis-backed worker. The web client
(`src/frontend/src/`, React and React Query) talks to the API only, by requests and
by server-sent streams that the server makes by polling its tables every two
seconds. Components, their state, operations and hard behaviours:

| Component | State | Operations | Interacts with | Hard, and what makes it correct |
|---|---|---|---|---|
| Approvals and status gates (`api/approvals.py`, `services/approval_task_links.py`, `api/tasks.py`) | approvals, links, `tasks.status`, board rules | create/resolve/reopen approval; `create_task`; `update_task` by lead, agent, admin; two commits and a reconcile of dependents | the worker writes `tasks.status` too; the lead is notified | checks and commits of overlapping requests, row and key locks, statuses read before the lock. One pending approval per task; no asked change while one is pending; done only after approval, unless created done, and only from review; no deadlock |
| Dependency graph (`services/task_dependencies.py`) | edges | create, replace, delete; validation; blocked-by | update, delete and create of tasks | validation without locks. The committed graph is acyclic and joins tasks that exist |
| Task board (`api/tasks.py`) | assignment, comments, tags, custom fields, activity | create, claim, assign, comment, delete | agents through the gateway | claims against reopened dependencies, failure between two commits, decisions on rows loaded earlier. A blocked task is not under way and an assignee is told, but for named windows |
| Work queue (`services/queue.py`, `queue_worker.py`, `webhooks/queue.py`) | Redis list and sorted set | enqueue, drain, pop, handle, requeue | API pushes, workers pop | non-atomic drain, crash with an envelope in hand, outage, retry limit. At least once unless a named fault; settled in the end |
| Webhooks (`api/board_webhooks.py`, `webhooks/dispatch.py`, `channel_ingress.py`) | payloads, memories, duplicate window | ingest, policy, deliver | queue, gateway, agents | stored but never queued; the gateway's error dropped |
| Autorecovery (`services/runtime/recovery_*.py`, `api/recovery_ops.py`) | incidents, policies, agents' last heartbeat | sweep, manual run, alert | runs in the worker loop before the queue | sweep against manual runs, cooldown against loop interval, one board failing. Restarts bounded, alerts spaced, unreachable agents retried |
| Task modes (`services/task_mode_execution.py`) | iterations, `tasks.status` | arena rounds, notebook runs | queue, gateway | retried jobs repeat rounds; status written past the gates |
| Organizations (`api/organizations.py`, `services/organizations.py`, `app/organization/page.tsx`) | members, invites, access rows; the dialog's cached row | remove, change role, invite, accept, first login; save of role and access | every request's authorization | owners counted without a lock, a save of two requests decided from a cached row. An owner always remains; a save that succeeded holds; an invite is used once |
| Agent lifecycle (`services/openclaw/provisioning_db.py`, `agent_heartbeat_guard.py`) | agents, tokens | create, update, delete, heartbeat, template sync | gateway keeps a copy of the token | one lead per board, spawn limit, token copies that diverge |
| Board lifecycle | boards | create, delete | gateway first, database second | failure half-way |
| Onboarding (`api/board_onboarding.py`, `BoardOnboardingChat.tsx`) | sessions whose messages are one JSON value | start, answer, agent's reply, confirm; the dialog polls | agent through the gateway | two writers that read, wait and rewrite the same messages. The dialog's wait ends; an answered question is not offered again |
| Control plane, prompt evolution | packs, bindings, promotions | evaluate, promote, roll back | queue | one champion per scope |
| GSD runs, change requests, capabilities, installations, quotas, backups | a status field each | CRUD | - | transitions |
| Skills marketplace, souls, auth, metrics, disk guard, verification | catalogues, none | CRUD, reads | remote fetches | - |
| Board page (`app/boards/[boardId]/page.tsx`) | cards, panel, comments, chat, agents, approvals, pending counts, live feed, URL | snapshot; move, create, save, delete; post; decide; four streams with reconnects | the endpoints above, streams of `api/tasks.py`, `board_memory.py`, `agents.py`, `approvals.py` | answers older than stream events, roll-backs, cursors taken from what is shown, rows committed after newer ones, answers for a task that is no longer open. The page shows the server's rows, or the step that made the difference is on record |
| Activity page (`app/activity/page.tsx`) | one list of items of all kinds, ids seen | seed, streams, limit | the same streams | a list that React updates later than the ids that guard it. Nothing twice, nothing missing but for named causes |
| Group page (`app/board-groups/[groupId]/page.tsx`) | chat, notes | queries, streams, sending | `api/board_group_memory.py` | refetches against streams. The open list catches up |
| List pages (`lib/list-delete.ts`) | a cached list | optimistic deletion | React Query | overlapping deletions and roll-backs. The list settles as the server's |
| Other pages, `kr8tiv-claw` compiler | forms and tables over one query | - | API; batch | - |

## Plan

Done: `ApprovalGate` first (it carries the rules users rely on and has the most
actors), then `WorkQueue` with its abstraction `AtLeastOnce`, `Recovery`,
`DependencyGraph`, and the proofs of `ApprovalGate`; then the web client, one module
per piece of state that a page keeps in sync, `Membership` across client and server,
`TaskBoard`, and the proofs of `Membership`, `ListDelete` and `TaskBoard`; then the
proofs of `WorkQueue`, `Recovery`, `DependencyGraph` and of the modules of the client, and
of their composition in `MCParts`.
What is left, in this order:

1. The rest of the task board: creation and deletion of tasks, the comment a review
   needs, PATCHes of several fields, messages to the lead.
2. Invites in `Membership`: an invite looked up as open by two requests is
   accepted by both (`api/organizations.py:699`).
3. `AgentLifecycle`: lead, spawn limit, rotation of tokens against the gateway's
   copy, heartbeat against deletion
   (`services/openclaw/provisioning_db.py:171,470,990,1488`). Abstract
   specification: a register of the agent's credential that database and gateway
   agree on once calls have ended.
4. `Webhooks` (delivery result dropped by `gateway_dispatch.py:70`, duplicate
   window of `channel_ingress.py:158`), `TaskMode` (rounds repeated by a retried
   job, `task_mode_execution.py:693`), the deletion of boards
   (`board_lifecycle.py:62`), and `Worker`, which puts the sweep of `Recovery`
   into the loop of `WorkQueue` to state who can starve whom
   (`queue_worker.py:87`) and what a crash between incident and alert loses
   (`recovery_scheduler.py:117`).

The lines that items 2 to 4 name are hazards that no property covers yet.

## Modules

| Module | Models |
|---|---|
| `ApprovalGate` | approvals, statuses, row and key locks of overlapping transactions |
| `TaskBoard` | status, assignment and dependencies of tasks under overlapping updates, resets of dependents, messages to assignees |
| `ApprovalGateProofs` | inductive invariant and theorems of `ApprovalGate` |
| `WorkQueue` | Redis queue, workers, API pushes, faults |
| `AtLeastOnce` | abstract job: new, waiting, settled or lost |
| `WorkQueueProofs` | inductive invariants and theorems of `WorkQueue`, its refinement of `AtLeastOnce` |
| `Recovery` | evaluation, sweep, manual runs, alerts, time |
| `RecoveryProofs` | inductive invariants and theorems of `Recovery` |
| `DependencyGraph` | validation and commits of dependency edits |
| `DependencyGraphProofs` | the search of `_has_cycle` and the theorems of `DependencyGraph` |
| `Membership` | roles, removals, the access dialog with its two requests |
| `BoardCards` | cards of the board page against the tasks and their stream |
| `BoardPageProofs` | inductive invariants and theorems of `BoardCards`, `BoardAgents`, `BoardApprovals` |
| `TaskPanel` | the panel's comments, iterations and notebook answer |
| `TaskUrl` | the panel against the `taskId` of the URL |
| `BoardChat` | chat messages, commands, the paused state |
| `BoardAgents` | agents' rows, lifecycle runs, computed statuses, live-feed entries |
| `BoardApprovals` | approvals, decisions, reopenings, pending counts |
| `ActivityFeed` | the activity page's seed, streams, limit |
| `OnboardingChat` | onboarding sessions and the dialog |
| `PageProofs` | inductive invariants and theorems of `TaskUrl`, `TaskPanel`, `BoardChat`, `OnboardingChat`, `GroupMemory`, `ActivityFeed` |
| `GroupMemory` | chat and notes of the group page |
| `ListDelete` | optimistic deletion over a cached list |
| `PartsProofs` | inductive invariants and theorems of `ListDelete`, `Membership`, `TaskBoard`; the components of `MCParts` together |
| `Orders` | the orders in which the server and the pages put rows |
| `OrderLemmas` | numbers, their orders and the lists of finite sets, for all proofs |
| `MC*` | constants for TLC; `MCParts` runs the modules of the client, `Membership`, `DependencyGraph` and `TaskBoard` side by side |

### ApprovalGate

`status`, `approval` and `links` are committed rows. `lock[t]` is the request
whose open transaction has the row of task `t`. `op[r]` is what a handler holds
in memory, with the statuses it loaded (`prior`) and wants (`new`), and the keys
its inserts share (`shared`). Each handler is cut where another request can
change the answer of its next statement:

- `CreateTask` and `SaveTask` are `create_task` with its dependency rows. A task is
  `absent` before it; it may be created in any status, done included, as the code has
  no gate there (`bornDone` keeps those that have been done ever since).
- `CreateApproval`/`UpdateApproval`, `LockRow`, `CheckConflicts`, `SaveApproval`
  are the two approval handlers. Only an approval that becomes pending locks.
- `UpdateTask`, `RoleRules`, `FlushTask`, `PendingGate`, `DoneGate`,
  `CommitTask`, `RefreshTask`, `SelectDependents`, `SaveDependents` are
  `update_task`. The ORM sends the pending UPDATE before the gates' first query,
  hence `FlushTask` before the gates; an agent's or admin's update commits, then
  reconciles in a second transaction, a lead's does both in one. The reset of a
  dependent that is in the inbox already writes its other columns only (`kept`).
- `ExecuteTaskMode`, `StartRun`, `EndRun` are the worker's status writes.
- `ReferenceRow` is the foreign-key check of an inserted row: it shares the
  task's key, which goes along with an UPDATE of `status` and excludes
  `SELECT ... FOR UPDATE`.
- `Abort` is a refusal by a rule outside the module, an error or a dead process.

Dependencies are a constant here; they change in `DependencyGraph` and `TaskBoard`.
Assignment, comments and GSD or engineering checks can only refuse, which `Abort` covers.

### TaskBoard

`workRow` and `dependsOn` are committed rows; a request in `patches` has the row it
loaded (`was`), what it asks for (`what`, `new`, `deps`) and how far it is. What each
role may do is `AgentRows`, `LeadRows`, `AdminRows`: agents claim by moving a task, a
blocked task is refused to agents and the lead and sent back to the inbox by an admin.
`CommitPatch` writes the columns that differ from `was`, as the ORM does, so that two
updates can each leave half of the row. `RefreshPatch`, `SelectResets`, `SaveResets` and
`Notify` are what follows the commit, and `HandlerDies` ends it anywhere. Row locks only
order the commits and are left to `ApprovalGate`, as are the gates on approvals; a
request that is refused is one that did not arrive.

`startedBy` holds, for each task under way and each dependency of it that is not done,
why that may be; `told` and `untold` hold whose assignee knows. Both are history.

### WorkQueue

`queue` is the Redis list, `scheduled` the sorted set with `due` its members
whose time has come, `hand[w]` the envelope a worker popped, `ready[w]` those it
is moving. `StorePayload`, `Enqueue`, `ApiCrash` are webhook ingestion;
`SelectReady`, `PushReady`, `RemoveReady` the three calls of the drain; `Pop`,
`PopNothing`, `Handle`, `HandlerRaises`, `Requeue` the batch. Scores are
abstracted to due or not; retry delays are positive, as the settings make them.
The history variables `failures`, `handled`, `dropped`, `lost`, `torn` serve the
properties: `lost` and `torn` name exactly the fault windows the code leaves.

`AtLeastOnce` knows of a job only whether it is new, waiting, settled or lost;
`jobState` computes that from the copies that are about. One crash of a drain may take
the last copies of several jobs, so `Lose` takes a set of them.

### Recovery

Times are ages, in a unit longer than an evaluation, so that time does not pass
while an evaluation runs, while what overlapping evaluations read and commit
interleaves. `Snapshot`, `Decide`, `Commit` are `evaluate_board`; `StartSweep`,
`SweepBoard`, `RouteAlert`, `AlertsDone`, `EndSweep` are `run_once` in the worker
loop; `RunNow` is the operators' endpoint; `SweepFails` is an exception or a
restart. The default recovery action always reports success, and so does the
model's. An incident leaves the model once it is too old for every window (`Aged`).

### DependencyGraph

`CheckExisting`, `ReadTasks`, `CheckCycle` are the three queries of
`validate_dependency_update`; `RemoveEdges` and `CommitEdges` the replacement;
`CommitDelete` the deletion, refused by the foreign keys while an edge names the
task. `Dfs` is `_has_cycle` as a recursive function over (node, visited, stack), and
`VisitAll` its loop over the next nodes, in any order, which ends at the first cycle.

### Membership

`memberRole` and `memberAccess` are the rows. A request in flight (`changes`) has read
what its handler reads; `CountOwners` is the unlocked count of `remove_org_member`,
`CommitRemoval` its end and `CommitRole` that of `update_org_member`. The access dialog
reads the member's row through the query cache (`memberDetails`, `detailsFetch`);
`HandleSaveAccess`, `SaveRole`, `SaveAccess` and `SaveRefused` are the handler of its
button: the role is sent only if the cached row shows another one, and a role saved does
not refresh that row.

### The streams of the board page

`BoardCards`, `BoardChat`, `BoardAgents`, `BoardApprovals`, `ActivityFeed` and
`GroupMemory` share one shape, written out in each since the cursors differ:

- a snapshot is asked for, read on the server and set by the page, in three
  steps (`..Load`/`..Read`/`..Set`);
- `Connect..` opens the stream with a cursor computed from the rows then shown;
  `Lose..` ends it, which also drops what is on the wire;
- `Poll..` is one turn of the server's generator: the rows at or after its
  cursor go on the wire and the cursor moves to the newest of them;
- `..Streamed` is one event handled by the page.

What differs is what the cursor covers and how an event merges: tasks carry ids
already sent, agents and approvals resend the newest row at each poll, chat starts from
the newest message shown, and the group's streams are not connected again once the
server has ended them.

What the cursors are compared with is a stamp that the server takes before it commits,
and rows are visible from the commit on, so each writer has two steps:

- `BoardChat`: `OtherSays` and `ServeSend` append to `messages`, `MessageCommits` makes
  one visible (`committed`), in any order. `GroupMemory`: `MemoryStamped` and
  `MemoryCommits` (`unsaved`). `ActivityFeed`: `TaskHappens` and `TaskCommits`
  (`openEvents`). `BoardCards`: `SlowBegins` and `SlowCommits`.
- `BoardAgents`: `Heartbeat`, `CreateAgent`, `UpdateAgent` and `RunCompletes` stamp a row
  (`openWrites`), after which the code may await the gateway and commit other rows;
  `CommitAgent` writes it, and begins the lifecycle run of an agent that is created or
  updated. A row has `updated_at`, which the page takes its cursor from and the stream
  moves to, and `last_seen_at`; the stream sends what has the later of the two at or
  after the cursor. Deletion is not streamed; what is left of the row on the page is
  not looked at.
- `BoardApprovals`: `OtherUpdates` and `ServeDecision` stamp, `OtherCommits` and
  `DecisionCommits` commit; `OtherReopens` changes the status and no stamp. An approval
  counts on each of `TasksOf` it. `MoveCard` keeps the counts of all cards;
  `MoveAnswered` puts back that of its card, `MoveRefused` all.

The first event of a task on the activity page is stamped after the task is committed,
so a snapshot that is read knows the tasks of all events; one that fails knows none, the
items seeded then have no board (`boardless`) and give no cursor (`FeedCursor`).

The user's requests have one step on the server and one when the page has the
answer, with everything that may happen in between: in `BoardCards` moves are
shown at once and rolled back to the whole earlier list, `handleCreateTask` puts
its card in front, `SlowBegins`/`SlowCommits` are transactions of other clients
whose activity event, which the stream reads, is stamped before others and committed
after them. Of a write that is not slow `WriteTask` takes the commit of the task and the
later one of its event as one step.

The modules carry history variables where the code drops something: a property
then says that nothing is missing or wrong for any other reason. They are the
named windows in the list under "What the runs found".

### TaskPanel, TaskUrl

`selected` is `selectedTask` with its ref. A load or post remembers the task it
was sent for, and, as in the code, its answer is put into the panel whatever
the panel shows by then; only streamed comments are compared with the ref.
`TaskUrl` splits the panel's other half: `router.replace` takes effect later
(`UrlChanges`), and the effect of `taskIdFromUrl` runs with each list of tasks.

### OnboardingChat

`onboarding` is the sequence of session rows. `Dispatch`/`Commit` and
`AgentReads`/`AgentCommits` are the two halves of the endpoints that rewrite a
session's messages; `StartReads`/`StartCommits` those of the start. The dialog
(`session`, `loading`, `awaiting`) polls every two seconds and ends its wait at
an assistant message other than the one it answered.

### ListDelete

`OnMutate`, `DeletionFails`, `DeletionSucceeds` are the callbacks of
`createOptimisticListDeleteMutation`, with `Refetch` for `onSettled`;
`IntervalFetch` is the fetch that pages start themselves. A deletion
cancels the fetch in flight, as `cancelQueries` does.

## Runs

| Run | Question | Bounds, and why they are enough |
|---|---|---|
| `approval_gates` | do the gates hold when requests overlap | 2 tasks, 2 approvals, 2 requests: a conflict needs two approvals of one task, a stale read one other request; a second task gives links and dependents, and each may have to be created first. All board rules on; admin PATCHes, which may do what agents and leads may |
| `row_locks` | do row locks close a circle | 2 requests, 1 approval and 2 tasks whose dependency opposes their ids, so that a reconcile and a request for both tasks meet in either order |
| `rows_deadlock` (violated) | the same with foreign-key locks | as above |
| `review_skipped` (violated) | done only from review | agents only |
| `two_workers` | is a job lost, doubled or given up early; does the queue implement the abstract job, with liveness | 2 workers, 2 jobs (one of a type no handler takes), 1 retry, 2 faults: a drain overtaken by another, a fault in the middle of each |
| `silent_enqueue` (violated) | is a failed push notified | 1 worker, 1 fault |
| `recovery_slow` | restarts, alerts, retries with interval >= cooldown | 1 agent, the sweep and 1 operator, 1 manual run, 1 failure; an hour of 4 units with 2 restarts, so that the limit is met |
| `recovery_shipped` (violated) | the same with interval < cooldown | as the shipped defaults |
| `sweep_isolation` (violated) | does one board's failure stop the sweep | 2 boards |
| `two_editors` (violated) | is the graph acyclic with two editors | 3 tasks |
| `parts` | safety of cards, panel, URL, chat, activity page, list deletion, membership and the status and assignment of tasks | see below |
| `parts_live` | chat, agents, approvals, onboarding and group pages catch up, and what they lack is about to come; the cycle search is exact and one editor keeps the graph acyclic | see below |

The modules of `MCParts` share no state, so a behaviour of `parts` exercises one of them
and leaves the others at their start: their product would say nothing more. In `parts`:
2 tasks of which one is there at the start, and 3 writes, requests or lost streams (an
answer, an event and a reconnect in any order), of which 2 are in flight at once (a
rollback over another move's guess needs two); 3 panel events over 2 tasks (open, act,
move on); 4 URL events; 2 chat messages, of which one may be there at the
start, and 2 panels toggled or streams lost; a feed limit of 2 items, so that it cuts, with 2 events, the second of which
comes when the seed no longer fails or starts over; 2 items with 1 fetch of the interval;
3 persons of whom 2 own the organization, and 3 requests or dialogs, as two removals and
a save need; a chain of 3 tasks (done, in review, in the inbox), of which an admin
reopens the first and the last has its assignee and dependencies replaced, 1 agent at
work and 1 that others assign, with the lead and admins, and 3 requests of which 2
overlap: all four causes of `startedBy`, a reset behind a claim and a reset of a task that has become done occur.

In `parts_live`: 3 chat messages and 2 toggles (a message that commits behind two
others); 2 agents of whom one is deleted or silent at a time, and 2 stamps given after
those of the start (`MaxBeats` counts them all), so that two writes commit in either
order, with heartbeats that name a status or none (`Reported`), and one lost stream; 2
approvals, one of them of both tasks, and 3 events (a decision, a reopening and a move
in any order); one onboarding event beside the first start (answer, confirmation or
reopening) with up to 2 polls in flight; 2 group messages and 2 toggles; 3 tasks for the
graph (shared descendants, cycles of length 2 and 3), one editor beside a request that
creates or deletes. Two things that are alike are told apart once: of two starts that
differ by the agents' names one is taken (`AgentsInOrder`), and the first group message
is a chat's (`ChatComesFirst`).

`CHECK_DEADLOCK FALSE` stands where the system may stop: all requests done and
no legal one left, the users' events used up, or (in the lock runs) the deadlock
that is itself the property.

**Fairness.** `WorkQueue`: worker processes keep running and are restarted by
Compose (`src/compose.yml`), a started request goes on, time passes, outages
end. No fairness on new webhooks, on faults, or on a handler's success.
`Recovery`: the worker loop and a running request go on and time passes; agents
may change or not. The client: a request sent is answered, a page whose stream
is down connects it again after its back-off (except the group page, which does
so only after an error), the server polls every two seconds, the wire is
delivered, the dialog polls, the agent replies to a prompt. No fairness on users,
other clients, commits, failures or lost streams. `MCParts` takes one weak fairness
condition of each part together, as only one part steps in a behaviour: seven in place of
twenty-four. Only `two_workers`, `recovery_slow`,
`recovery_shipped` and `parts_live` use it.

**Mutants.** Each property of a passing run has a variant of a definition, the
way a bug in that code would change it, for which TLC finds the property
violated. The variants stand before the definition they vary.

## What the runs found

Six statements of the repository's docs, comments and messages that the code
does not keep; each is a run that must be violated and a finding with its quote:
deadlock of a pending approval with a reconcile; done from another status than
review through a stale `previous_status`; a failed push that nobody is told of;
recovery suppressed for ever under the default settings; a sweep that one board
stops; dependency cycles from concurrent edits.

Windows in which a page differs from the server, or a server rule is passed by,
that no document of the repository speaks of. Each was found as a counterexample
of the plain property and is now a named exception in it, so that the runs show
there is no other:

- approvals of tasks: a task may be created done, with no approval on a board that
  requires one (`bornDone`); the client's own dialog creates tasks in the inbox;
- tasks: a blocked task is under way when its own request passed the check before the
  dependency was reopened, or wrote one column of the row and another request the
  other (`raced`); when the lead gives it a dependency, which is not refused (`given`);
  when the request that reopened the dependency had loaded it before it was done, or
  reset it as a dependent that meanwhile became done, and so resets nothing (`unseen`);
  and when that request died between its two commits (`abandoned`). The assignee of a
  task is not told when the handler dies before it (`untold`);
- cards: an answer older than the card replaces it (`late`); a failed move puts
  back the whole list from before, over later events (`reverted`) and with the
  guesses of other moves (`phantom`); a connect takes its cursor from rows that
  own answers brought (`leapt`); a transaction that commits behind the cursor is
  never streamed (`slow`); deletions are not streamed (`deleted`); the answer to a
  creation adds a second card if its event came first (`twice`);
- panel: answers for a task the panel has left are put into it (`astray`), a load
  replaces a comment that came after it was read, and the answer for a task the panel
  has left clears the error of a failed load (`commentGap`); a task closed
  before its URL changes is opened again (`overtaken`);
- chat: an own message moves the cursor past others', a page without messages has the
  server's clock for a cursor (`blankMissed`), and a message that commits after a later
  one that the page has is never sent (`lateMessages`);
- agents: an agent whose row commits behind another's newer one, or that falls silent
  behind it, stays on the page as it was until it changes again (`passedBy`);
- approvals: late answers and counts captured before a move, or all of them when it
  fails, overwrite newer ones; reopened approvals and late commits are behind the cursor
  (`leftBehind`, `miscounted`);
- activity: an event that commits after a later one may be behind the cursor, items
  seeded after a failed snapshot give no cursor, a seed replaces pushes and is itself cut, and the limit shared by all kinds can take
  away the item that another stream's cursor rests on (`lostItems`);
- onboarding: an answer writes back the messages it read before the agent was
  told, over the reply (`replyLost`): the dialog waits for ever; two starts may
  each make a session;
- group page: streams that the server ends stay down, and messages committed behind the
  cursor, or that an own message has moved it past, are not sent (`missed`);
- list deletion: a failed deletion shows an item that another one is still
  deleting (`restored`), until the next fetch;
- members: two removals may each count the other's owner (`overlapped`), the last
  owner's role can be changed (`demoted`), and a save after a role was changed may
  skip the role because of the cached row (`excused`).

## What is proved

`ApprovalGateProofs` proves, for every set of tasks (ids are natural numbers),
approvals and requests and every setting of the board rules:

- `TypeCorrect`: `Spec => []TypeOK`
- `OnePending`: `Spec => []OnePendingPerTask`
- `DoneApproved`: `Spec => []DoneWasApproved`
- `AskedStatusFrozen`: `Spec => AskedStatusFrozenWhilePending`

from the assumptions named in `ApprovalGate`: ids are numbers, `Nobody` is none
of them, dependencies map tasks to sets of tasks, and handlers, targets and
verdicts are among those that exist. None of the four properties is inductive
alone. The invariant adds what the code relies on silently:

- a request that is about to make an approval pending has every task of it
  locked and none of them has another pending approval (the check stays true
  until the commit because every other way to become pending needs the lock);
- a request that changes an approval has the tasks the approval is linked to; an
  approval being created has one creator and is still absent;
- an update past its flush that changes the status has its task's row locked, so
  no approval can become pending between its gate and its commit;
- an update past the done gate whose target is done, and whose task it loaded as not
  done, has a task that was approved; one that loaded it done writes no status;
- past the pending gate no linked approval is pending, and every task of an
  approved approval is in the history variable `onceApproved`.

There is one lemma per action or pair of alike actions; those that only begin or
end a request share a framing lemma.

`PartsProofs` proves, of `TaskBoard`, for every set of tasks and agents, every table of allowed
dependencies and any number of requests:

- `BoardTypeCorrect`: `BoardSpec => []BoardTypeOK`
- `BlockedIsNotStarted`: `BoardSpec => []BlockedNotStarted`
- `AssigneeIsTold`: `BoardSpec => []AssigneeTold`

`BlockedNotStarted` needs what the role's rules left of a request about to commit
(`RulesKept`: one that was blocked moves its task to the inbox, leaves it done or is the
lead's, and the lead leaves a done task done), and that a request resets each dependent
once. It is stated for pairs of a task and a dependency because of the proof: for tasks
alone the step of `SaveResets` and a replaced dependency break it, in boards with a
chain of three tasks. `AssigneeTold` is inductive beside the types: the request whose
commit puts an assignee there has loaded another one, whatever overlaps it.

Of `Membership` it proves, for every finite set of persons, every first
assignment of roles with an owner and any number of requests:

- `MembershipTypeCorrect`: `MembershipSpec => []MembershipTypeOK`
- `OwnerRemains`: `MembershipSpec => []SomeOwnerRemains`
- `SavedHolds`: `MembershipSpec => []SavedAccessHolds`

`SomeOwnerRemains` needs that the owners a removal counted are at least two, which
with the history variable `overlapped` leaves one when it commits; it rests on
the cardinality lemmas of the library. `SavedAccessHolds` needs that a save past
its first request has the role in place or an excuse, and that nothing saved
before stands for the member whose save is in flight: between the two requests
the database holds half of what was asked.

Of `ListDelete` it proves, for every set of items and any number of deletions and
fetches:

- `ListTypeCorrect`: `ListSpec => []ListTypeOK`
- `DeletingHidden`: `ListSpec => []DeletingIsHidden`
- `ListIsServers`: `ListSpec => []ListSettles`

The invariant adds that deletions in flight are of different items, that each has
seen the fetch in flight begin (a deletion cancels the earlier ones), and that
rows read while no deletion is in flight are the server's.

`WorkQueueProofs` proves, for every set of jobs and workers, any retry limit and any
number of faults:

- `TypeCorrect`: `Spec => []TypeOK`
- `NoSilentLoss`: `Spec => []NothingLost`
- `RetriesBeforeGivingUp`: `Spec => []GivenUpAfterRetries`
- `OneCopyAtMost`: `Spec => []OneCopy`
- `ImplementsPromise`: `Spec => Promise!Safety`, where `Promise` is `AtLeastOnce` with
  `state <- jobState`

`NothingLost` needs that what a drain has pushed and is about to remove from the sorted
set goes on beyond that set (`PushedGoesOn`): the removal is of a member that is equal
to the pushed envelope, so a later retry in the set must be another member, which its
number of attempts makes it. `GivenUpAfterRetries` needs that no envelope has more
attempts than its job has failures, in the list, the set, a drain or a hand. `OneCopy`
needs that drains hold no envelope together and none that is no longer scheduled, unless
they overlapped. The simulation has one step for each kind of step: pushes take a job
on, outcomes settle it, faults lose the set of jobs whose last copy they take, and every
other step is a stutter.

`RecoveryProofs` proves, for every set of boards and agents, every policy (limits and
windows), any finite set of operators and any number of failures:

- `TypeCorrect`: `Spec => []TypeOK`
- `AlertsAreSpaced`: `Spec => AlertsSpaced`
- `RestartsAreBounded`: `Spec => []RestartsBounded`

An alert inside the window has left its incident on record, alerted and not waiting to
be (`AlertedIsRecorded`), so a later decision sees it; what waits for its alert happened
now. `RestartsBounded` is proved with the restarts that are under way counted as well
(`RestartsUnderWay`): an evaluation decides only while fewer than the limit are
committed, and each evaluator has decided on at most one restart of an agent.

`DependencyGraphProofs` proves, for every finite set of tasks and any set of requests:

- `EdgesJoinTasks`: `GraphSpec => []GraphTypeOK`
- `CheckIsExact`: `GraphSpec => []CycleCheckExact`
- `OneEditorNoCycle`: `GraphSpec => []NoCycle`, for at most one editor

The run `two_editors` shows that the hypothesis of the last cannot be dropped.
`CheckIsExact` is about a recursive function whose value is a fold, and the prover
can use neither before they are shown to exist: `VisitExists` and `DfsExists` construct
them from partial ones that agree (`VisitAgrees`, `ExploreAgrees`), by the least number
or the smallest set for which it would fail, as induction itself is out of its
reach. `DfsRight` is the argument: the search from a node finds a cycle when it meets
its own stack, and otherwise all it has visited and left has no cycle and leads
nowhere else. For `NoCycle`, an accepted edit closes no circle whatever has been
committed since (`EditStillGood`): creations add tasks that nothing depends on, and
deletions remove edges.

`BoardPageProofs` proves, of `BoardCards`, for every set of tasks of which finitely many
are there at the start, and any number of commits, requests, polls and lost streams:

- `OneCardEach`: `CardsSpec => []OneCardPerTask`
- `GuessesAreTemporary`: `CardsSpec => []GuessesAwaitAnswer`
- `StaleCardsExplained`: `CardsSpec => []StaleCardsHaveCause`

The invariant follows each row from its commit to the cards: it is on the wire, the poll
has still to send it, its stamp is shown, or a cause is on record (`ShownOrComing`). For
that, every commit has a stamp of its own, also a slow one that gets its stamp before it
commits (`StampsApart`), and behind an older row of a task on the wire comes the row of
now (`OlderIsFollowed`), unless that was committed behind the cursor and no answer brings
it either: else a late event would put an older row over the card that an answer has just
brought, and the cause would be off the record. All lists that a failed request may put
back, and the snapshot, have one card for each task, as the list shown has (`CardLists`).

Of `BoardAgents` and `BoardApprovals` it proves, for every finite set of agents and of
approvals and any number of events:

- `AgentsComing`: `AgentsSpec => []AgentsShownOrComing`
- `ApprovalsComing`: `ApprovalsSpec => []ApprovalsShownOrComing`
- `CountsComing`: `ApprovalsSpec => []CountsRightOrComing`

These are the safety half of what `parts_live` shows under fairness: nothing is missing
that no poll will bring. For an agent it needs that the row of now
is on the wire, or none of the agent is and the page or the snapshot has its status, or
the next poll of any stream sends it, as nothing the page has is newer (`AgentsFollowed`).
The wire is in the order of `updated_at` with each agent once (`AgentWire`), and what is
on it is not yet behind the cursor that the page would take if the stream were lost
(`WireAhead`): what a lost wire held is sent again. The commit of any write settles on
which side of the cursor it is. For approvals the two properties are inductive beside the
order of the wire: an approval is on it once, with one count for each task, and the rows
of one poll carry the same (`ApprovalWire`), so that the last of them leaves the card
right.

`PageProofs` proves, for every set of tasks, any finite set of approvals and any number of
clicks, messages and events:

- `ClicksAreFollowed`: `UrlSpec => []PanelFollowsClicks`
- `PartsAreTheTasks`: `PanelSpec => []PanelShowsItsTask`
- `CommentsArrive`: `PanelSpec => []PanelHasAllComments`
- `CursorSkips`: `ChatSpec => []SkippedForCause`
- `PauseIsShown`: `ChatSpec => []PauseStateShown`
- `QuestionsAnsweredOnce`: `OnboardingSpec => []OfferedQuestionIsOpen`
- `DialogTypeCorrect`: `OnboardingSpec => []OnboardingTypeOK`
- `PanelsListTheirOwn`: `GroupSpec => []ListsApart`
- `MemoriesComing`: `GroupSpec => []MemoriesShownOrComing`
- `FeedTypeCorrect`: `FeedSpec => []FeedTypeOK`
- `ItemsOnce`: `FeedSpec => []FeedItemsOnce`
- `EventsListed`: `FeedSpec => []FeedHasEvents`

The panel's comments need that a comment it does not have is on the stream or in a load
that has it or is still to read it. The chat needs that whatever is committed and older
than a message of the page, of the snapshot read, or on the wire, is there, comes before
it, or is accounted for by an own message or a late commit (`Accounted`): the page's
cursor, the newest message shown, is then right but for those. The dialog's invariant compares all copies of the session that are about (rows,
answers on their way, what is shown): from the version shown on they agree, or the
user's answer is what they differ in. It is stated while `reoffer` is empty, since after
a stale poll or a reopened dialog nothing of it holds. Its types hold even then, which
takes an invariant of their own (`SessionsHeld`): the answers and the agent index the
rows with the number of a session they read earlier, so every copy held anywhere is of a
row that there is, or is none.

The panels of the group page share one stream. That each lists its own messages needs
that what is read, cached, sent and on the way is of the kind it is kept for
(`GroupKinds`), although a panel may be left with its requests under way.

The list of the activity page is what React makes of a queue of updates, however long, so
`ItemsOnce` needs an invariant of the queue (`OnceInv`): a seed resets the ids seen to
those of its list, and pushes are checked against them when they run, so what is queued
behind the last list that replaces the others is safe, and what is before it does not
matter. That rendering is one update after the other is `RenderingIs`: the fold of the
community modules is a recursive function, which `RunExists` shows to exist. For
`EventsListed`, a task event that is neither shown nor lost is newer than all that are
shown, and is on the wire or still to be sent (`FollowedInv`): the cursor of the next
connection is taken from what is shown, or from the clock when that gives none, and so
does not pass it.

The last part of `PartsProofs` is about `MCParts`, whose specification the runs `parts` and
`parts_live` check:

- `PartsAreComponents`: `PartsSpec` implies the specification of each of the thirteen
  components, so all theorems about them hold of it
- `PartsTypeCorrect`: `PartsSpec => []PartsTypeOK`
- `StreamsKeepUpAlways`: `PartsSpec => []StreamsKeepUp`

The steps of `PartsNext` are steps of one component under the runs' bounds and stutters of
the others, and its start is one of theirs. `Parts` must name parts that there are
(`PartsAssumption`).

`LocksInOrder` in `ApprovalGateProofs` (`Spec => []LockOrderKept`) needs
that a request about to lock a row holds only rows of smaller ids: the ids would grow
for ever along a circle. A lead who reconciles keeps the row of its task, and locks no
other, because a lead's update starts from review and reopens nothing.

The proofs changed the models. Two invariants that held within the runs' bounds were
false beyond them, and TLC found both with a larger bound once the proof had shown
where: the panel lacks a comment whose load failed when another task's notebook answer
clears that error (now a cause in `commentGap`), and the seed of the activity page may
itself be cut by the limit (now in `lostItems`). With three workers and two faults the
queue did not implement an abstract job that loses one job at a time. The other changes
give a definition a form the prover has rules for, with the same meaning: the record
that `_has_cycle` searches from, the order of the rows that a poll sends and
of the activity page's seed (`OrderedBy`), the cards left by a deletion, the aged
incidents, the cursor of the agent stream on a page without agents.

Only model-checked is liveness (`KeepsTrying`, `ChatsCatchUp`, `AgentsPageFollows`,
`ApprovalsPageConverges`, `OnboardingWaitEnds`, and the fairness of `AtLeastOnceDelivery`,
whose safety is proved): the prover has no rules for the fairness of these actions. For
the streams, `StreamsKeepUp` is the part of it that is proved. The runs that must be
violated show what does not hold, so there is nothing to prove.

## Not modelled

Formatting, logging, HTTP shapes, pure reads, authorization lookups, and the
contents of payloads, messages and comments. The components listed as not
modelled in `PROJECT.json` have their reason there. PostgreSQL, Redis, React
Query, the router and React's queue of updates are modelled from how the code uses
them and marked external in the map.

In the web client:

- the generated API client (`src/frontend/src/api/generated/`, half of the
  TypeScript): one fetch function, its query key and hooks for each endpoint,
  with no state of their own; what its calls do is in the actions of the pages;
- markup: much of every page is JSX and helpers that derive labels,
  colours and filters from the state;
- pages that show one query or one form, and their tests;
- authentication, which Clerk or a stored token does.

For these reasons the map names few of the TypeScript lines that a count finds: the
lines with state that interacts are a small part of them, and the server's half
of each model is Python. Of the pages that are modelled, what is left out is
said in `PROJECT.json`: toasts and flashes, the edit form's fields, tags and
custom fields, the group snapshot, the history of the board page's live feed (its effect
starts over with each new list of agents, approvals, messages or tasks, so that nothing
ensures that it loads; a hazard without a property), cards that the page itself made and
their counts, the chat and agent streams of the activity
page (they push as the modelled ones do), the heartbeat form of the group page.
