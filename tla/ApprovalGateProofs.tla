------------------------- MODULE ApprovalGateProofs -------------------------
(***************************************************************************)
(* What holds of ApprovalGate for every board, every dependency graph and  *)
(* any number of concurrent requests.  The invariant IInv adds to the      *)
(* properties what each handler knows at each of its statements: which     *)
(* rows it has locked, and what its last query saw that nobody can have    *)
(* changed since, because changing it takes one of those rows.             *)
(***************************************************************************)
EXTENDS ApprovalGate, OrderLemmas

\* The update still holds the row it flushed.
Owns(r) ==
    \/ pc[r] \in {"pendingGate", "doneGate", "commit"}
    \/ pc[r] \in {"reconcile", "dependents"} /\ op[r].kind = "lead"

\* What op[r] is at each statement of the handler.
OpInv(r) ==
    /\ pc[r] \in {"lock", "save"} => op[r].kind \in {"create", "resolve"}
    /\ op[r].kind \in {"create", "resolve"} => pc[r] \in {"lock", "save"}
    /\ pc[r] \in {"commit", "refresh"} => op[r].kind # "lead"
    /\ pc[r] \in {"rules", "flush", "pendingGate", "doneGate", "commit", "refresh",
                  "reconcile", "dependents"}
         => op[r].kind \in UpdateKinds /\ op[r].task \in Tasks /\ op[r].prior \in Status
    /\ pc[r] \in {"rules", "flush", "pendingGate", "doneGate", "commit"} \/ op[r].kind = "lead"
         => op[r].new \in Status
    /\ pc[r] = "insert" => op[r].task \in Tasks /\ op[r].new \in Status /\ op[r].kind = "task"
    /\ pc[r] \in {"start", "running"} => op[r].task \in Tasks /\ op[r].kind = "worker"
    /\ op[r].kind = "lead" /\ ~op[r].asked => op[r].new = op[r].prior

\* An approval request: what it loaded still fits the approval it will save.
ApprovalInv(r) ==
    /\ op[r].kind = "create" =>
         /\ op[r].appr \in Approvals /\ approval[op[r].appr] = "absent"
         /\ op[r].prior = "absent" /\ op[r].new \in Verdict
    /\ op[r].kind = "resolve" =>
         /\ op[r].appr \in Approvals /\ approval[op[r].appr] # "absent"
         /\ op[r].prior \in Verdict /\ op[r].new \in Verdict
         /\ op[r].tasks = links[op[r].appr]

\* Past the conflict check, a request that will make its approval pending
\* holds every task of it, and none of them has another pending approval.
Checked(r) ==
    pc[r] = "save" /\ op[r].new = "pending" /\ op[r].prior # "pending" =>
        \A t \in op[r].tasks : lock[t] = r /\ ~HasPending(t, {op[r].appr})

\* An update that writes the status holds the task from the flush on.
Flushed(r) == Owns(r) /\ op[r].new # op[r].prior => lock[op[r].task] = r

\* Past the pending gate, no linked approval is pending.
PassedPending(r) ==
    /\ Owns(r) /\ pc[r] # "pendingGate"
    /\ BlockPending /\ op[r].asked /\ op[r].new # op[r].prior
    => ~HasPending(op[r].task, {})

\* Past the done gate, the task has had an approved approval.
PassedDone(r) ==
    /\ Owns(r) /\ pc[r] \notin {"pendingGate", "doneGate"}
    /\ RequireApproval /\ op[r].new = "done" /\ op[r].prior # "done"
    => op[r].task \in onceApproved

ReqInv(r) ==
    /\ OpInv(r) /\ ApprovalInv(r) /\ Checked(r)
    /\ Flushed(r) /\ PassedPending(r) /\ PassedDone(r)

\* Only one request creates an approval.
SingleCreator ==
    \A p, q \in Requests : op[p].kind = "create" /\ op[q].appr = op[p].appr => p = q

\* The history variable records every task of an approved approval.
History == \A a \in Approvals : approval[a] = "approved" => links[a] \subseteq onceApproved

IInv ==
    /\ TypeOK
    /\ OnePendingPerTask
    /\ DoneWasApproved
    /\ SingleCreator
    /\ History
    /\ \A r \in Requests : ReqInv(r)
-----------------------------------------------------------------------------
(***************************************************************************)
(* Lemmas                                                                  *)
(***************************************************************************)
\* Another status in the record of a handler leaves the rest as it is.
LEMMA NewStatus ==
    ASSUME NEW o \in Op, NEW s \in Status \cup ApprovalStatus
    PROVE  LET p == [o EXCEPT !.new = s] IN
           /\ p \in Op /\ p.new = s /\ p.kind = o.kind /\ p.appr = o.appr
           /\ p.task = o.task /\ p.prior = o.prior /\ p.asked = o.asked
  BY DEF Op

\* Ending a transaction gives up its rows and no others.
LEMMA ReleasedRows ==
    ASSUME TypeOK, NEW r \in Requests
    PROVE  /\ Released(r) \in [Tasks -> Requests \cup {Nobody}]
           /\ \A q \in Requests, t \in Tasks : q # r /\ lock[t] = q => Released(r)[t] = q
  BY NobodyAssumption DEF TypeOK, Released

\* A step of another request that changes no approval, and takes no row away
\* from q, leaves what q knows true.
LEMMA Frame ==
    ASSUME TypeOK, NEW q \in Requests, ReqInv(q),
           pc'[q] = pc[q], op'[q] = op[q], approval' = approval, links' = links,
           onceApproved \subseteq onceApproved',
           \A t \in Tasks : lock[t] = q => lock'[t] = q
    PROVE  ReqInv(q)'
  <1>1. OpInv(q)' /\ ApprovalInv(q)'
    BY DEF ReqInv, OpInv, ApprovalInv
  <1>2. \A t, E : HasPending(t, E)' = HasPending(t, E)
    BY DEF HasPending
  <1>3. Checked(q)'
    <2> SUFFICES ASSUME (pc[q] = "save" /\ op[q].new = "pending" /\ op[q].prior # "pending")',
                        NEW t \in op[q].tasks
                 PROVE  lock'[t] = q /\ ~HasPending(t, {op[q].appr})'
      BY DEF Checked
    <2>1. t \in Tasks
      BY DEF TypeOK, Op
    <2>2. lock[t] = q /\ ~HasPending(t, {op[q].appr})
      BY DEF ReqInv, Checked
    <2> QED BY <1>2, <2>1, <2>2
  <1>4. Owns(q)' = Owns(q)
    BY DEF Owns
  <1>5. Owns(q) => op[q].task \in Tasks
    BY DEF Owns, ReqInv, OpInv
  <1>6. Flushed(q)' /\ PassedPending(q)' /\ PassedDone(q)'
    BY <1>2, <1>4, <1>5 DEF ReqInv, Flushed, PassedPending, PassedDone
  <1> QED BY <1>1, <1>3, <1>6 DEF ReqInv

\* Once a request has ended it knows nothing.
LEMMA Ended ==
    ASSUME TypeOK, NEW r \in Requests, Finish(r)
    PROVE  /\ pc' \in [Requests -> {"idle", "insert", "lock", "save", "rules", "flush", "pendingGate",
                            "doneGate", "commit", "refresh", "reconcile", "dependents",
                            "start", "running"}]
           /\ op' \in [Requests -> Op]
           /\ lock' \in [Tasks -> Requests \cup {Nobody}]
           /\ ReqInv(r)'
           /\ op'[r] = NoOp
           /\ \A q \in Requests \ {r} :
                /\ pc'[q] = pc[q] /\ op'[q] = op[q]
                /\ \A t \in Tasks : lock[t] = q => lock'[t] = q
  <1>1. NoOp \in Op
    BY DEF NoOp, Op, ApprovalStatus
  <1>2. op' \in [Requests -> Op] /\ op'[r] = NoOp /\ pc'[r] = "idle"
    BY <1>1 DEF TypeOK, Finish, Goto
  <1>3. ReqInv(r)'
    BY <1>2 DEF ReqInv, OpInv, ApprovalInv, Checked, Flushed, PassedPending, PassedDone,
                Owns, NoOp
  <1> QED BY <1>2, <1>3, ReleasedRows DEF TypeOK, Finish, Goto

\* A request that only ends, changing no table, preserves the invariant.
LEMMA EndsQuietly ==
    ASSUME IInv, NEW r \in Requests, Finish(r),
           UNCHANGED <<status, approval, links, onceApproved, bornDone>>
    PROVE  IInv'
  <1>1. TypeOK
    BY DEF IInv
  <1>2. TypeOK'
    BY <1>1, Ended DEF TypeOK
  <1>3. OnePendingPerTask' /\ DoneWasApproved' /\ History'
    BY DEF IInv, OnePendingPerTask, DoneWasApproved, History
  <1>4. SingleCreator'
    <2> SUFFICES ASSUME NEW p \in Requests, NEW q \in Requests,
                        op'[p].kind = "create", op'[q].appr = op'[p].appr
                 PROVE  p = q
      BY DEF SingleCreator
    <2>0. op'[r] = NoOp /\ NoOp.kind # "create"
      BY <1>1, Ended DEF NoOp
    <2>1. op'[r] = NoOp /\ p # r
      BY <2>0
    <2>2. op'[p] = op[p] /\ op[p].appr \in Approvals
      BY <1>1, <2>1, Ended DEF IInv, ReqInv, ApprovalInv
    <2>3. q # r
      BY <2>1, <2>2, NobodyAssumption DEF NoOp
    <2> QED BY <1>1, <2>2, <2>3, Ended DEF IInv, SingleCreator
  <1>5. \A q \in Requests : ReqInv(q)'
    <2> TAKE q \in Requests
    <2>1. CASE q = r
      BY <1>1, <2>1, Ended
    <2>2. CASE q # r
      BY <1>1, <2>2, Ended, Frame DEF IInv
    <2> QED BY <2>1, <2>2
  <1> QED BY <1>2, <1>3, <1>4, <1>5 DEF IInv

\* A step that keeps every table and the creators, and after which the request
\* that took it still knows what it must, preserves the invariant.
LEMMA StepsQuietly ==
    ASSUME IInv, NEW r \in Requests, TypeOK', ReqInv(r)',
           UNCHANGED <<status, approval, links, onceApproved, bornDone>>,
           op'[r].appr = op[r].appr, op'[r].kind = op[r].kind,
           \A q \in Requests \ {r} :
                /\ pc'[q] = pc[q] /\ op'[q] = op[q]
                /\ \A t \in Tasks : lock[t] = q => lock'[t] = q
    PROVE  IInv'
  <1>1. OnePendingPerTask' /\ DoneWasApproved' /\ History'
    BY DEF IInv, OnePendingPerTask, DoneWasApproved, History
  <1>2. \A q \in Requests : op'[q].appr = op[q].appr /\ op'[q].kind = op[q].kind
    OBVIOUS
  <1>3. SingleCreator'
    BY <1>2 DEF IInv, SingleCreator
  <1>4. \A q \in Requests : ReqInv(q)'
    BY Frame DEF IInv
  <1> QED BY <1>1, <1>3, <1>4 DEF IInv
-----------------------------------------------------------------------------
(***************************************************************************)
(* The invariant holds initially and every action preserves it.            *)
(***************************************************************************)
LEMMA InitIInv == Init => IInv
  <1> SUFFICES ASSUME Init PROVE IInv
    OBVIOUS
  <1>1. TypeOK
    BY DEF Init, TypeOK, NoOp, Op, Status, ApprovalStatus
  <1>a. \A t \in Tasks : status[t] # "done"
    BY DEF Init
  <1>2. OnePendingPerTask /\ DoneWasApproved /\ SingleCreator /\ History
    BY <1>a DEF Init, OnePendingPerTask, DoneWasApproved, SingleCreator, History, NoOp
  <1>3. \A r \in Requests : ReqInv(r)
    BY DEF Init, ReqInv, OpInv, ApprovalInv, Checked, Flushed, PassedPending, PassedDone,
           Owns, NoOp
  <1> QED BY <1>1, <1>2, <1>3 DEF IInv

LEMMA CreateStep ==
    ASSUME IInv, NEW r \in Requests, NEW a \in Approvals, NEW ts \in SUBSET Tasks,
           NEW v \in Verdict, CreateApproval(r, a, ts, v)
    PROVE  IInv'
  <1> DEFINE o == [NoOp EXCEPT !.kind = "create", !.appr = a, !.tasks = ts, !.new = v,
                      !.refs = ts]
  <1>1. /\ TypeOK /\ pc[r] = "idle" /\ o \in Op
        /\ o.kind = "create" /\ o.appr = a /\ o.tasks = ts /\ o.new = v /\ o.prior = "absent"
    BY DEF IInv, CreateApproval, Begin, NoOp, Op, ApprovalStatus
  <1>2. /\ op' = [op EXCEPT ![r] = o]
        /\ pc' = [pc EXCEPT ![r] = IF v = "pending" THEN "lock" ELSE "save"]
        /\ UNCHANGED <<status, approval, links, lock, onceApproved, bornDone>>
        /\ approval[a] = "absent" /\ \A q \in Requests : op[q].appr # a
    BY DEF CreateApproval, Begin, Goto
  <1> HIDE DEF o
  <1>3. op'[r] = o /\ \A q \in Requests \ {r} : pc'[q] = pc[q] /\ op'[q] = op[q]
    BY <1>1, <1>2 DEF TypeOK
  <1>4. TypeOK'
    BY <1>1, <1>2 DEF TypeOK
  <1>5. pc'[r] = IF v = "pending" THEN "lock" ELSE "save"
    BY <1>1, <1>2 DEF TypeOK
  <1>6. ReqInv(r)'
    <2>1. OpInv(r)'
      BY <1>1, <1>3, <1>5 DEF OpInv
    <2>2. ApprovalInv(r)'
      BY <1>1, <1>2, <1>3 DEF ApprovalInv
    <2>3. Checked(r)' /\ Flushed(r)' /\ PassedPending(r)' /\ PassedDone(r)'
      BY <1>1, <1>3, <1>5 DEF Checked, Flushed, PassedPending, PassedDone, Owns
    <2> QED BY <2>1, <2>2, <2>3 DEF ReqInv
  <1>7. \A q \in Requests : ReqInv(q)'
    BY <1>1, <1>2, <1>3, <1>6, Frame DEF IInv
  <1>8. SingleCreator'
    <2> SUFFICES ASSUME NEW p \in Requests, NEW q \in Requests,
                        op'[p].kind = "create", op'[q].appr = op'[p].appr
                 PROVE  p = q
      BY DEF SingleCreator
    <2>1. CASE p = r
      BY <1>1, <1>2, <1>3, <2>1
    <2>2. CASE p # r /\ q = r
      BY <1>1, <1>2, <1>3, <2>2
    <2>3. CASE p # r /\ q # r
      BY <1>3, <2>3 DEF IInv, SingleCreator
    <2> QED BY <2>1, <2>2, <2>3
  <1>9. OnePendingPerTask' /\ DoneWasApproved' /\ History'
    BY <1>2 DEF IInv, OnePendingPerTask, DoneWasApproved, History
  <1> QED BY <1>4, <1>7, <1>8, <1>9 DEF IInv

LEMMA ResolveStep ==
    ASSUME IInv, NEW r \in Requests, NEW a \in Approvals, NEW v \in Verdict,
           UpdateApproval(r, a, v)
    PROVE  IInv'
  <1> DEFINE o == [NoOp EXCEPT !.kind = "resolve", !.appr = a, !.tasks = links[a],
                               !.prior = approval[a], !.new = v]
  <1>1. /\ TypeOK /\ pc[r] = "idle" /\ o \in Op
        /\ o.kind = "resolve" /\ o.appr = a /\ o.tasks = links[a] /\ o.new = v
        /\ o.prior = approval[a]
    BY DEF IInv, TypeOK, UpdateApproval, Begin, NoOp, Op, ApprovalStatus
  <1>2. /\ op' = [op EXCEPT ![r] = o]
        /\ pc' = [pc EXCEPT ![r] =
                    IF v = "pending" /\ approval[a] # "pending" THEN "lock" ELSE "save"]
        /\ UNCHANGED <<status, approval, links, lock, onceApproved, bornDone>>
        /\ approval[a] \in Verdict
    BY <1>1 DEF UpdateApproval, Begin, Goto, TypeOK, ApprovalStatus
  <1> HIDE DEF o
  <1>3. op'[r] = o /\ \A q \in Requests \ {r} : pc'[q] = pc[q] /\ op'[q] = op[q]
    BY <1>1, <1>2 DEF TypeOK
  <1>4. TypeOK'
    BY <1>1, <1>2 DEF TypeOK
  <1>5. pc'[r] = IF v = "pending" /\ approval[a] # "pending" THEN "lock" ELSE "save"
    BY <1>1, <1>2 DEF TypeOK
  <1>6. ReqInv(r)'
    <2>1. OpInv(r)'
      BY <1>1, <1>3, <1>5 DEF OpInv
    <2>2. ApprovalInv(r)'
      BY <1>1, <1>2, <1>3 DEF ApprovalInv, Verdict
    <2>3. Checked(r)' /\ Flushed(r)' /\ PassedPending(r)' /\ PassedDone(r)'
      BY <1>1, <1>3, <1>5 DEF Checked, Flushed, PassedPending, PassedDone, Owns
    <2> QED BY <2>1, <2>2, <2>3 DEF ReqInv
  <1>7. \A q \in Requests : ReqInv(q)'
    BY <1>1, <1>2, <1>3, <1>6, Frame DEF IInv
  <1>8. SingleCreator'
    <2> SUFFICES ASSUME NEW p \in Requests, NEW q \in Requests,
                        op'[p].kind = "create", op'[q].appr = op'[p].appr
                 PROVE  p = q
      BY DEF SingleCreator
    <2>1. p # r /\ op'[p] = op[p] /\ approval[op[p].appr] = "absent"
      BY <1>1, <1>3 DEF IInv, ReqInv, ApprovalInv
    <2>2. q # r
      BY <1>1, <1>2, <1>3, <2>1 DEF Verdict
    <2> QED BY <1>3, <2>1, <2>2 DEF IInv, SingleCreator
  <1>9. OnePendingPerTask' /\ DoneWasApproved' /\ History'
    BY <1>2 DEF IInv, OnePendingPerTask, DoneWasApproved, History
  <1> QED BY <1>4, <1>7, <1>8, <1>9 DEF IInv

LEMMA LockStep ==
    ASSUME IInv, NEW r \in Requests, LockRow(r)
    PROVE  IInv'
  <1>1. PICK t \in Tasks : NextRow(r, t) /\ lock[t] = Nobody /\ lock' = [lock EXCEPT ![t] = r]
    BY DEF LockRow
  <1>2. UNCHANGED <<status, approval, links, pc, op, onceApproved, bornDone>>
    BY DEF LockRow
  <1>3. TypeOK /\ TypeOK'
    BY <1>1, <1>2 DEF IInv, TypeOK
  <1>4. \A q \in Requests, u \in Tasks : lock[u] = q => lock'[u] = q
    BY <1>1, <1>3, NobodyAssumption DEF TypeOK
  <1>5. ReqInv(r)'
    BY <1>2, <1>3, <1>4, Frame DEF IInv
  <1> QED BY <1>2, <1>3, <1>4, <1>5, StepsQuietly

LEMMA ReferenceStep ==
    ASSUME IInv, NEW r \in Requests, ReferenceRow(r)
    PROVE  IInv'
  <1>1. PICK t \in Tasks : op' = [op EXCEPT ![r].shared = @ \cup {t}]
    BY DEF ReferenceRow, Unshared, IInv, TypeOK, Op
  <1>2. TypeOK /\ UNCHANGED <<status, approval, links, lock, pc, onceApproved, bornDone>>
    BY DEF ReferenceRow, IInv
  <1>3. /\ op'[r] = [op[r] EXCEPT !.shared = @ \cup {t}]
        /\ \A q \in Requests \ {r} : op'[q] = op[q]
    BY <1>1, <1>2 DEF TypeOK
  <1>4. /\ op'[r] \in Op /\ op'[r].kind = op[r].kind /\ op'[r].appr = op[r].appr
        /\ op'[r].task = op[r].task /\ op'[r].tasks = op[r].tasks
        /\ op'[r].prior = op[r].prior /\ op'[r].new = op[r].new /\ op'[r].asked = op[r].asked
    <2>1. op[r] \in Op
      BY <1>2 DEF TypeOK
    <2> QED BY <2>1, <1>3 DEF Op
  <1>5. TypeOK'
    BY <1>1, <1>2, <1>4 DEF TypeOK
  <1>6. OpInv(r)' /\ ApprovalInv(r)'
    BY <1>2, <1>4 DEF IInv, ReqInv, OpInv, ApprovalInv
  <1>7. Checked(r)' /\ Flushed(r)' /\ PassedPending(r)' /\ PassedDone(r)'
    BY <1>2, <1>4 DEF IInv, ReqInv, Checked, Flushed, PassedPending, PassedDone, Owns, HasPending
  <1> QED BY <1>2, <1>3, <1>4, <1>5, <1>6, <1>7, StepsQuietly DEF ReqInv

LEMMA CheckStep ==
    ASSUME IInv, NEW r \in Requests, CheckConflicts(r)
    PROVE  IInv'
  <1>1. CASE Finish(r)
    BY <1>1, EndsQuietly DEF CheckConflicts
  <1>2. CASE /\ ~(\E t \in op[r].tasks : HasPending(t, {op[r].appr}))
             /\ Goto(r, "save") /\ UNCHANGED <<op, lock>>
    <2>1. /\ pc[r] = "lock" /\ pc' = [pc EXCEPT ![r] = "save"]
          /\ UNCHANGED <<status, approval, links, lock, op, onceApproved, bornDone>>
          /\ op[r].tasks \subseteq Held(r)
      BY <1>2 DEF CheckConflicts, Goto
    <2>2. TypeOK /\ TypeOK' /\ pc'[r] = "save" /\ \A q \in Requests \ {r} : pc'[q] = pc[q]
      BY <2>1 DEF IInv, TypeOK
    <2>3. OpInv(r)' /\ ApprovalInv(r)'
      BY <2>1, <2>2 DEF IInv, ReqInv, OpInv, ApprovalInv
    <2>4. Checked(r)'
      BY <1>2, <2>1, <2>2 DEF Checked, Held, HasPending
    <2>5. Flushed(r)' /\ PassedPending(r)' /\ PassedDone(r)'
      BY <2>2 DEF Flushed, PassedPending, PassedDone, Owns, IInv, ReqInv, OpInv, UpdateKinds
    <2> QED BY <2>1, <2>2, <2>3, <2>4, <2>5, StepsQuietly DEF ReqInv
  <1> QED BY <1>1, <1>2 DEF CheckConflicts

\* The step everything else is about: an approval becomes pending (or ceases
\* to be) while other requests are anywhere in their handlers.
LEMMA SaveStep ==
    ASSUME IInv, NEW r \in Requests, SaveApproval(r)
    PROVE  IInv'
  <1> DEFINE o == op[r]
             a == op[r].appr
  <1>1. /\ TypeOK /\ pc[r] = "save" /\ Finish(r) /\ status' = status /\ bornDone' = bornDone
        /\ approval' = IF o.new # o.prior THEN [approval EXCEPT ![a] = o.new] ELSE approval
        /\ links' = IF o.kind = "create" THEN [links EXCEPT ![a] = o.tasks] ELSE links
        /\ onceApproved' = IF o.new # o.prior /\ o.new = "approved"
                           THEN onceApproved \cup o.tasks ELSE onceApproved
    BY DEF IInv, SaveApproval
  <1>2. /\ o.kind \in {"create", "resolve"} /\ a \in Approvals /\ o.new \in Verdict
        /\ o.tasks \subseteq Tasks /\ o.kind # "lead"
    BY <1>1 DEF IInv, ReqInv, OpInv, ApprovalInv, TypeOK, Op
  <1>3. links'[a] = o.tasks /\ \A b \in Approvals \ {a} : links'[b] = links[b]
    BY <1>1, <1>2 DEF IInv, ReqInv, ApprovalInv, TypeOK
  <1>4. /\ approval'[a] = IF o.new # o.prior THEN o.new ELSE approval[a]
        /\ \A b \in Approvals \ {a} : approval'[b] = approval[b]
    BY <1>1, <1>2 DEF TypeOK
  <1>5. TypeOK'
    <2>1. approval' \in [Approvals -> ApprovalStatus] /\ links' \in [Approvals -> SUBSET Tasks]
      BY <1>1, <1>2 DEF TypeOK, ApprovalStatus
    <2>2. onceApproved' \subseteq Tasks
      BY <1>1, <1>2 DEF TypeOK
    <2> QED BY <1>1, <2>1, <2>2, Ended DEF TypeOK
  \* A pending verdict that is written was checked under the locks.
  <1>6. approval'[a] = "pending" /\ approval[a] # "pending" =>
          \A t \in o.tasks : lock[t] = r /\ ~HasPending(t, {a})
    BY <1>1, <1>4 DEF IInv, ReqInv, Checked
  <1>7. approval'[a] = "pending" /\ approval[a] = "pending" => links'[a] = links[a]
    BY <1>1, <1>2, <1>3 DEF IInv, ReqInv, ApprovalInv
  \* Who holds a task of a pending approval that is not r's can rely on it.
  <1>8. ASSUME NEW t \in Tasks, NEW q \in Requests \ {r}, lock[t] = q,
               NEW E \in SUBSET Approvals, HasPending(t, E)'
        PROVE  HasPending(t, E)
    <2>1. PICK b \in Approvals \ E : approval'[b] = "pending" /\ t \in links'[b]
      BY <1>8 DEF HasPending
    <2>2. CASE b # a
      BY <1>3, <1>4, <2>1, <2>2 DEF HasPending
    <2>3. CASE b = a
      BY <1>3, <1>6, <1>7, <1>8, <2>1, <2>3 DEF HasPending
    <2> QED BY <2>2, <2>3
  <1>9. OnePendingPerTask'
    <2> SUFFICES ASSUME NEW b \in Approvals, NEW c \in Approvals,
                        approval'[b] = "pending", approval'[c] = "pending",
                        NEW t \in links'[b], t \in links'[c], b # c
                 PROVE  FALSE
      BY DEF OnePendingPerTask
    <2>1. CASE b # a /\ c # a
      BY <1>3, <1>4, <2>1 DEF IInv, OnePendingPerTask
    <2>2. ASSUME NEW d \in Approvals, d # a, approval'[d] = "pending", t \in links'[d],
                 approval'[a] = "pending", t \in links'[a]
          PROVE  FALSE
      <3>1. approval[d] = "pending" /\ t \in links[d]
        BY <1>3, <1>4, <2>2
      <3>2. CASE approval[a] = "pending"
        <4>1. t \in links[a] \cap links[d]
          BY <1>7, <2>2, <3>1, <3>2
        <4> QED BY <1>2, <2>2, <3>1, <3>2, <4>1 DEF IInv, OnePendingPerTask
      <3>3. CASE approval[a] # "pending"
        BY <1>3, <1>6, <2>2, <3>1, <3>3 DEF HasPending
      <3> QED BY <3>2, <3>3
    <2> QED BY <2>1, <2>2
  <1>10. History'
    <2> SUFFICES ASSUME NEW b \in Approvals, approval'[b] = "approved"
                 PROVE  links'[b] \subseteq onceApproved'
      BY DEF History
    <2>1. CASE b # a
      BY <1>1, <1>3, <1>4, <2>1 DEF IInv, History
    <2>2. CASE b = a /\ o.new # o.prior
      BY <1>1, <1>3, <1>4, <2>2
    <2>3. CASE b = a /\ o.new = o.prior
      <3>1. o.kind = "resolve" /\ approval[a] = "approved"
        BY <1>1, <1>2, <1>4, <2>3 DEF IInv, ReqInv, ApprovalInv, Verdict
      <3> QED BY <1>1, <2>3, <3>1 DEF IInv, History
    <2> QED BY <2>1, <2>2, <2>3
  <1>11. DoneWasApproved'
    BY <1>1 DEF IInv, DoneWasApproved
  <1>12. SingleCreator'
    <2> SUFFICES ASSUME NEW p \in Requests, NEW q \in Requests,
                        op'[p].kind = "create", op'[q].appr = op'[p].appr
                 PROVE  p = q
      BY DEF SingleCreator
    <2>1. op'[r] = NoOp /\ NoOp.kind # "create" /\ NoOp.appr = Nobody
      BY <1>1, Ended DEF NoOp
    <2>2. p # r /\ op'[p] = op[p]
      BY <1>1, <2>1, Ended
    <2>3. op[p].appr \in Approvals
      BY <2>2 DEF IInv, ReqInv, ApprovalInv
    <2>4. q # r
      BY <2>1, <2>2, <2>3, NobodyAssumption
    <2> QED BY <1>1, <2>2, <2>4, Ended DEF IInv, SingleCreator
  <1>13. \A q \in Requests : ReqInv(q)'
    <2> TAKE q \in Requests
    <2>1. CASE q = r
      BY <1>1, <2>1, Ended
    <2>2. CASE q # r
      <3>1. /\ pc'[q] = pc[q] /\ op'[q] = op[q]
            /\ \A t \in Tasks : lock[t] = q => lock'[t] = q
        BY <1>1, <2>2, Ended
      <3>2. ReqInv(q)
        BY DEF IInv
      <3>3. OpInv(q)'
        BY <3>1, <3>2 DEF ReqInv, OpInv
      <3>4. ApprovalInv(q)'
        <4>1. CASE op[q].kind = "create"
          <5>1. op[q].appr # a
            BY <1>2, <2>2, <4>1 DEF IInv, SingleCreator
          <5> QED BY <1>4, <3>1, <3>2, <4>1, <5>1 DEF ReqInv, ApprovalInv
        <4>2. CASE op[q].kind = "resolve"
          <5>1. o.kind = "create" => op[q].appr # a
            BY <3>2, <4>2 DEF IInv, ReqInv, ApprovalInv
          <5>2. links'[op[q].appr] = links[op[q].appr] /\ approval'[op[q].appr] # "absent"
            BY <1>1, <1>2, <1>3, <1>4, <3>2, <4>2, <5>1 DEF ReqInv, ApprovalInv, Verdict
          <5> QED BY <3>1, <3>2, <4>2, <5>2 DEF ReqInv, ApprovalInv
        <4> QED BY <3>1, <4>1, <4>2 DEF ApprovalInv
      <3>5. Checked(q)'
        <4> SUFFICES ASSUME pc[q] = "save", op[q].new = "pending", op[q].prior # "pending",
                            NEW t \in op[q].tasks
                     PROVE  lock'[t] = q /\ ~HasPending(t, {op[q].appr})'
          BY <3>1 DEF Checked
        <4>1. t \in Tasks /\ op[q].appr \in Approvals
          BY <1>1, <3>2 DEF TypeOK, Op, ReqInv, OpInv, ApprovalInv
        <4>2. lock[t] = q /\ ~HasPending(t, {op[q].appr})
          BY <3>2 DEF ReqInv, Checked
        <4> QED BY <1>8, <2>2, <3>1, <4>1, <4>2
      <3>6. Owns(q)' = Owns(q)
        BY <3>1 DEF Owns
      <3>7. Owns(q) => op[q].task \in Tasks
        BY <3>2 DEF Owns, ReqInv, OpInv
      <3>8. Flushed(q)' /\ PassedDone(q)'
        BY <1>1, <3>1, <3>2, <3>6, <3>7 DEF ReqInv, Flushed, PassedDone
      <3>9. PassedPending(q)'
        <4> SUFFICES ASSUME Owns(q), pc[q] # "pendingGate", BlockPending, op[q].asked,
                            op[q].new # op[q].prior
                     PROVE  ~HasPending(op[q].task, {})'
          BY <3>1, <3>6 DEF PassedPending
        <4>1. PICK t \in Tasks : t = op[q].task
          BY <3>7
        <4>2. lock[t] = q /\ ~HasPending(t, {})
          BY <3>2, <4>1 DEF ReqInv, Flushed, PassedPending
        <4>3. ~HasPending(t, {})'
          BY <1>8, <2>2, <4>2
        <4> QED BY <3>1, <4>1, <4>3
      <3> QED BY <3>3, <3>4, <3>5, <3>8, <3>9 DEF ReqInv
    <2> QED BY <2>1, <2>2
  <1> QED BY <1>5, <1>9, <1>10, <1>11, <1>12, <1>13 DEF IInv

\* A request that starts on a task: it knows nothing but what it loaded.
LEMMA TaskBegins ==
    ASSUME IInv, NEW r \in Requests, NEW o \in Op, NEW label \in {"insert", "rules", "start"},
           Begin(r, label, o), o.task \in Tasks, o.appr = Nobody,
           o.new \in Status,
           label = "insert" => o.kind = "task",
           label = "rules" => o.kind \in UpdateKinds /\ o.prior \in Status,
           label = "start" => o.kind = "worker",
           ~o.asked /\ o.kind = "lead" => o.new = o.prior
    PROVE  IInv'
  <1>1. /\ TypeOK /\ pc[r] = "idle"
        /\ op' = [op EXCEPT ![r] = o] /\ pc' = [pc EXCEPT ![r] = label]
        /\ UNCHANGED <<status, approval, links, lock, onceApproved, bornDone>>
    BY DEF IInv, Begin, Goto
  <1>2. /\ op'[r] = o /\ pc'[r] = label
        /\ \A q \in Requests \ {r} : pc'[q] = pc[q] /\ op'[q] = op[q]
    BY <1>1 DEF TypeOK
  <1>3. TypeOK'
    BY <1>1 DEF TypeOK
  <1>4. o.kind \notin {"create", "resolve"}
    BY DEF UpdateKinds
  <1>5. OpInv(r)'
    BY <1>2, <1>4 DEF OpInv
  <1>6. ReqInv(r)'
    BY <1>2, <1>4, <1>5 DEF ReqInv, ApprovalInv, Checked, Flushed, PassedPending,
                            PassedDone, Owns
  <1>7. \A q \in Requests : ReqInv(q)'
    BY <1>1, <1>2, <1>6, Frame DEF IInv
  <1>8. SingleCreator'
    <2> SUFFICES ASSUME NEW p \in Requests, NEW q \in Requests,
                        op'[p].kind = "create", op'[q].appr = op'[p].appr
                 PROVE  p = q
      BY DEF SingleCreator
    <2>1. p # r /\ op'[p] = op[p] /\ op[p].appr \in Approvals
      BY <1>2, <1>4 DEF IInv, ReqInv, ApprovalInv
    <2>2. q # r
      BY <1>2, <2>1, NobodyAssumption
    <2> QED BY <1>2, <2>1, <2>2 DEF IInv, SingleCreator
  <1>9. OnePendingPerTask' /\ DoneWasApproved' /\ History'
    BY <1>1 DEF IInv, OnePendingPerTask, DoneWasApproved, History
  <1> QED BY <1>3, <1>7, <1>8, <1>9 DEF IInv

LEMMA UpdateStep ==
    ASSUME IInv, NEW r \in Requests, NEW k \in Kinds, NEW t \in Tasks,
           NEW s \in Targets \cup {status[t]}, UpdateTask(r, k, t, s)
    PROVE  IInv'
  <1> DEFINE o == [NoOp EXCEPT !.kind = k, !.task = t, !.prior = status[t],
                               !.new = s, !.asked = (s # status[t])]
  <1>1. status[t] \in Status /\ s \in Status
    BY TargetsAssumption DEF UpdateTask, Existing, IInv, TypeOK
  <1>2. /\ o \in Op /\ o.task = t /\ o.appr = Nobody /\ o.prior = status[t] /\ o.new = s
        /\ o.kind = k /\ o.asked = (s # status[t])
    BY <1>1 DEF NoOp, Op
  <1>3. Begin(r, "rules", o) /\ k \in UpdateKinds
    BY DEF UpdateTask
  <1> HIDE DEF o
  <1> QED BY <1>1, <1>2, <1>3, TaskBegins

LEMMA TaskCreateStep ==
    ASSUME IInv, NEW r \in Requests, NEW t \in Tasks, NEW s \in Targets \cup {"inbox"},
           CreateTask(r, t, s)
    PROVE  IInv'
  <1> DEFINE o == [NoOp EXCEPT !.kind = "task", !.task = t, !.new = s, !.refs = DependsOn[t]]
  <1>1. s \in Status /\ "task" \in Kinds /\ DependsOn[t] \subseteq Tasks
    BY TargetsAssumption, DependsOnAssumption DEF CreateTask, Begin, NoOp, Status
  <1>2. /\ o \in Op /\ o.task = t /\ o.appr = Nobody /\ o.new = s /\ o.kind = "task"
    BY <1>1 DEF NoOp, Op, ApprovalStatus
  <1>3. Begin(r, "insert", o)
    BY DEF CreateTask
  <1> HIDE DEF o
  <1> QED BY <1>1, <1>2, <1>3, TaskBegins

LEMMA ExecuteStep ==
    ASSUME IInv, NEW r \in Requests, NEW t \in Tasks, ExecuteTaskMode(r, t)
    PROVE  IInv'
  <1> DEFINE o == [NoOp EXCEPT !.kind = "worker", !.task = t, !.prior = status[t],
                               !.new = "in_progress"]
  <1>1. status[t] \in Status /\ "worker" \in Kinds
    BY DEF IInv, TypeOK, ExecuteTaskMode, Existing, Begin, NoOp
  <1>2. /\ o \in Op /\ o.task = t /\ o.appr = Nobody /\ o.prior = status[t]
        /\ o.new = "in_progress" /\ o.kind = "worker"
    BY <1>1 DEF NoOp, Op, Status
  <1>3. Begin(r, "start", o)
    BY DEF ExecuteTaskMode
  <1> HIDE DEF o
  <1> QED BY <1>1, <1>2, <1>3, TaskBegins DEF Status

LEMMA RulesStep ==
    ASSUME IInv, NEW r \in Requests, RoleRules(r)
    PROVE  IInv'
  <1>1. CASE Finish(r)
    BY <1>1, EndsQuietly DEF RoleRules
  <1>2. CASE ~Finish(r)
    <2>1. PICK s \in AllowedTargets(op[r]) : op' = [op EXCEPT ![r].new = s]
      BY <1>2 DEF RoleRules
    <2>2. /\ pc[r] = "rules" /\ pc' = [pc EXCEPT ![r] = "flush"]
          /\ UNCHANGED <<status, approval, links, lock, onceApproved, bornDone>> /\ TypeOK
      BY <1>2 DEF RoleRules, Goto, IInv
    <2>3. op[r].kind \in UpdateKinds /\ op[r].new \in Status /\ op[r].prior \in Status
          /\ op[r].task \in Tasks
      BY <2>2 DEF IInv, ReqInv, OpInv
    <2>4. s \in Status /\ (op[r].kind = "lead" /\ ~op[r].asked => s = op[r].prior)
      BY <2>1, <2>3 DEF AllowedTargets, UpdateKinds, Status
    <2>5. /\ op'[r] = [op[r] EXCEPT !.new = s] /\ pc'[r] = "flush"
          /\ \A q \in Requests \ {r} : pc'[q] = pc[q] /\ op'[q] = op[q]
      BY <2>1, <2>2 DEF TypeOK
    <2>6. /\ op'[r] \in Op /\ op'[r].new = s /\ op'[r].kind = op[r].kind
          /\ op'[r].appr = op[r].appr /\ op'[r].task = op[r].task
          /\ op'[r].prior = op[r].prior /\ op'[r].asked = op[r].asked
      <3>1. op[r] \in Op
        BY <2>2 DEF TypeOK
      <3> QED BY <2>4, <2>5, <3>1, NewStatus
    <2>7. TypeOK'
      BY <2>1, <2>2, <2>5, <2>6 DEF TypeOK
    <2>8. OpInv(r)'
      BY <2>3, <2>4, <2>5, <2>6 DEF OpInv, UpdateKinds
    <2>9. ReqInv(r)'
      BY <2>3, <2>5, <2>6, <2>8 DEF ReqInv, ApprovalInv, Checked, Flushed, PassedPending,
                                    PassedDone, Owns, UpdateKinds
    <2> QED BY <2>2, <2>5, <2>6, <2>7, <2>9, StepsQuietly
  <1> QED BY <1>1, <1>2

LEMMA FlushStep ==
    ASSUME IInv, NEW r \in Requests, FlushTask(r)
    PROVE  IInv'
  <1>1. /\ pc[r] = "flush" /\ pc' = [pc EXCEPT ![r] = "pendingGate"] /\ TypeOK
        /\ UNCHANGED <<status, approval, links, op, onceApproved, bornDone>>
        /\ op[r].kind \in UpdateKinds /\ op[r].task \in Tasks
    BY DEF FlushTask, Goto, IInv, ReqInv, OpInv
  <1>2. pc'[r] = "pendingGate" /\ \A q \in Requests \ {r} : pc'[q] = pc[q]
    BY <1>1 DEF TypeOK
  <1>3. \/ op[r].new = op[r].prior /\ lock' = lock
        \/ lock[op[r].task] = Nobody /\ lock' = [lock EXCEPT ![op[r].task] = r]
    BY DEF FlushTask
  <1>4. TypeOK'
    BY <1>1, <1>3 DEF TypeOK
  <1>5. \A q \in Requests, u \in Tasks : lock[u] = q => lock'[u] = q
    BY <1>1, <1>3, NobodyAssumption DEF TypeOK
  <1>6. Flushed(r)'
    BY <1>1, <1>3 DEF Flushed, TypeOK
  <1>7. OpInv(r)'
    BY <1>1, <1>2 DEF OpInv, UpdateKinds, IInv, ReqInv
  <1>8. ReqInv(r)'
    BY <1>1, <1>2, <1>6, <1>7 DEF ReqInv, ApprovalInv, Checked, PassedPending, PassedDone,
                                  Owns, UpdateKinds
  <1> QED BY <1>1, <1>2, <1>4, <1>5, <1>8, StepsQuietly

LEMMA PendingGateStep ==
    ASSUME IInv, NEW r \in Requests, PendingGate(r)
    PROVE  IInv'
  <1>1. CASE Finish(r)
    BY <1>1, EndsQuietly DEF PendingGate
  <1>2. CASE ~Finish(r)
    <2>1. /\ pc[r] = "pendingGate" /\ pc' = [pc EXCEPT ![r] = "doneGate"] /\ TypeOK
          /\ UNCHANGED <<status, approval, links, lock, op, onceApproved, bornDone>>
          /\ ~(/\ BlockPending /\ op[r].asked /\ op[r].new # op[r].prior
               /\ HasPending(op[r].task, {}))
      BY <1>2 DEF PendingGate, Goto, IInv
    <2>2. pc'[r] = "doneGate" /\ \A q \in Requests \ {r} : pc'[q] = pc[q]
      BY <2>1 DEF TypeOK
    <2>3. TypeOK'
      BY <2>1 DEF TypeOK
    <2>4. op[r].kind \in UpdateKinds /\ OpInv(r)'
      BY <2>1, <2>2 DEF IInv, ReqInv, OpInv
    <2>5. Flushed(r)'
      BY <2>1, <2>2 DEF IInv, ReqInv, Flushed, Owns
    <2>6. PassedPending(r)'
      BY <2>1 DEF PassedPending, HasPending
    <2>7. ReqInv(r)'
      BY <2>1, <2>2, <2>4, <2>5, <2>6 DEF ReqInv, ApprovalInv, Checked, PassedDone, Owns,
                                          UpdateKinds
    <2> QED BY <2>1, <2>2, <2>3, <2>7, StepsQuietly
  <1> QED BY <1>1, <1>2

LEMMA DoneGateStep ==
    ASSUME IInv, NEW r \in Requests, DoneGate(r)
    PROVE  IInv'
  <1>1. CASE Finish(r)
    BY <1>1, EndsQuietly DEF DoneGate
  <1>2. CASE ~Finish(r)
    <2> DEFINE next == IF op[r].kind = "lead" THEN "reconcile" ELSE "commit"
    <2>1. /\ pc[r] = "doneGate" /\ pc' = [pc EXCEPT ![r] = next] /\ TypeOK
          /\ UNCHANGED <<status, approval, links, lock, op, onceApproved, bornDone>>
          /\ ~(/\ op[r].prior # "done" /\ op[r].new = "done"
               /\ RequireApproval /\ ~HasApproved(op[r].task))
      BY <1>2 DEF DoneGate, Goto, IInv
    <2>2. pc'[r] = next /\ \A q \in Requests \ {r} : pc'[q] = pc[q]
      BY <2>1 DEF TypeOK
    <2>3. TypeOK'
      BY <2>1 DEF TypeOK
    <2>4. op[r].kind \in UpdateKinds /\ OpInv(r)'
      BY <2>1, <2>2 DEF IInv, ReqInv, OpInv
    <2>5. Flushed(r)' /\ PassedPending(r)'
      BY <2>1, <2>2 DEF IInv, ReqInv, Flushed, PassedPending, Owns, HasPending
    <2>6. PassedDone(r)'
      BY <2>1 DEF PassedDone, HasApproved, IInv, History
    <2>7. ReqInv(r)'
      BY <2>1, <2>2, <2>4, <2>5, <2>6 DEF ReqInv, ApprovalInv, Checked, UpdateKinds
    <2> QED BY <2>1, <2>2, <2>3, <2>7, StepsQuietly
  <1> QED BY <1>1, <1>2

\* A task that a step leaves done had an approved approval, stays done from its
\* creation on, or is one of those the step is entitled to mark done.
LEMMA StaysDone ==
    ASSUME TypeOK, DoneWasApproved, onceApproved' = onceApproved,
           StillDone \subseteq bornDone',
           \A t \in Tasks : RequireApproval /\ status[t] # "done" /\ status'[t] = "done"
                             => t \in onceApproved \cup bornDone'
    PROVE  DoneWasApproved'
  <1> SUFFICES ASSUME RequireApproval, NEW t \in Tasks, status'[t] = "done"
               PROVE  t \in onceApproved \cup bornDone'
    BY DEF DoneWasApproved
  <1>1. CASE status[t] = "done"
    BY <1>1 DEF DoneWasApproved, StillDone
  <1> QED BY <1>1

\* A step that writes task statuses, and no other table, preserves the
\* invariant when the tasks it marks done have had an approved approval.
LEMMA StatusStep ==
    ASSUME IInv, NEW r \in Requests, TypeOK', ReqInv(r)', DoneWasApproved',
           UNCHANGED <<approval, links, onceApproved>>,
           \/ op'[r] = NoOp
           \/ op'[r].appr = op[r].appr /\ op'[r].kind = op[r].kind,
           \A q \in Requests \ {r} :
                /\ pc'[q] = pc[q] /\ op'[q] = op[q]
                /\ \A t \in Tasks : lock[t] = q => lock'[t] = q
    PROVE  IInv'
  <1>1. OnePendingPerTask' /\ History'
    BY DEF IInv, OnePendingPerTask, History
  <1>2. SingleCreator'
    <2> SUFFICES ASSUME NEW p \in Requests, NEW q \in Requests,
                        op'[p].kind = "create", op'[q].appr = op'[p].appr
                 PROVE  p = q
      BY DEF SingleCreator
    <2>1. NoOp.kind # "create" /\ NoOp.appr = Nobody
      BY DEF NoOp
    <2>2. op[p].kind = "create" /\ op'[p].appr = op[p].appr
      BY <2>1
    <2>3. op[p].appr \in Approvals
      BY <2>2 DEF IInv, ReqInv, ApprovalInv
    <2>4. op[q].appr = op[p].appr
      BY <2>1, <2>2, <2>3, NobodyAssumption
    <2> QED BY <2>2, <2>4 DEF IInv, SingleCreator
  <1>3. \A q \in Requests : ReqInv(q)'
    BY Frame DEF IInv
  <1> QED BY <1>1, <1>2, <1>3 DEF IInv

LEMMA CommitStep ==
    ASSUME IInv, NEW r \in Requests, CommitTask(r)
    PROVE  IInv'
  <1> DEFINE o == op[r]
  <1>1. /\ pc[r] = "commit" /\ pc' = [pc EXCEPT ![r] = "refresh"] /\ TypeOK
        /\ status' = IF o.new # o.prior THEN [status EXCEPT ![o.task] = o.new] ELSE status
        /\ lock' = Released(r) /\ bornDone' = StillDone
        /\ UNCHANGED <<approval, links, op, onceApproved>>
    BY DEF CommitTask, Goto, IInv
  <1>2. /\ o.kind \in UpdateKinds /\ o.kind # "lead" /\ o.task \in Tasks /\ o.new \in Status
        /\ o.prior \in Status
    BY <1>1 DEF IInv, ReqInv, OpInv
  <1>3. pc'[r] = "refresh" /\ \A q \in Requests \ {r} : pc'[q] = pc[q]
    BY <1>1 DEF TypeOK
  <1>4. /\ lock' \in [Tasks -> Requests \cup {Nobody}]
        /\ \A q \in Requests \ {r}, t \in Tasks : lock[t] = q => lock'[t] = q
    BY <1>1, ReleasedRows
  <1>5. TypeOK'
    BY <1>1, <1>2, <1>4 DEF TypeOK, StillDone
  <1>6. ReqInv(r)'
    BY <1>1, <1>2, <1>3 DEF IInv, ReqInv, OpInv, ApprovalInv, Checked, Flushed, PassedPending,
                            PassedDone, Owns, UpdateKinds
  <1>7. DoneWasApproved'
    <2>1. ASSUME NEW t \in Tasks, RequireApproval, status[t] # "done", status'[t] = "done"
          PROVE  t \in onceApproved
      <3>1. t = o.task /\ o.new = "done" /\ o.prior # "done"
        BY <1>1, <1>2, <2>1 DEF TypeOK
      <3> QED BY <1>1, <2>1, <3>1 DEF IInv, ReqInv, PassedDone, Owns
    <2> QED BY <1>1, <2>1, StaysDone DEF IInv
  <1> QED BY <1>1, <1>3, <1>4, <1>5, <1>6, <1>7, StatusStep

LEMMA RefreshStep ==
    ASSUME IInv, NEW r \in Requests, RefreshTask(r)
    PROVE  IInv'
  <1> DEFINE s == status[op[r].task]
  <1>1. /\ pc[r] = "refresh" /\ pc' = [pc EXCEPT ![r] = "reconcile"] /\ TypeOK
        /\ op' = [op EXCEPT ![r].new = s]
        /\ UNCHANGED <<status, approval, links, lock, onceApproved, bornDone>>
    BY DEF RefreshTask, Goto, IInv
  <1>2. /\ op[r].kind \in UpdateKinds /\ op[r].kind # "lead" /\ op[r].task \in Tasks
        /\ op[r].prior \in Status /\ s \in Status \cup ApprovalStatus
    BY <1>1 DEF IInv, ReqInv, OpInv, TypeOK, ApprovalStatus
  <1>3. /\ op'[r] = [op[r] EXCEPT !.new = s] /\ pc'[r] = "reconcile"
        /\ \A q \in Requests \ {r} : pc'[q] = pc[q] /\ op'[q] = op[q]
    BY <1>1 DEF TypeOK
  <1>4. /\ op'[r] \in Op /\ op'[r].new = s /\ op'[r].kind = op[r].kind
        /\ op'[r].appr = op[r].appr /\ op'[r].task = op[r].task
        /\ op'[r].prior = op[r].prior
    <2>1. op[r] \in Op
      BY <1>1 DEF TypeOK
    <2> QED BY <1>2, <1>3, <2>1, NewStatus
  <1>5. TypeOK'
    BY <1>1, <1>4 DEF TypeOK
  <1>6. ReqInv(r)'
    BY <1>2, <1>3, <1>4 DEF ReqInv, OpInv, ApprovalInv, Checked, Flushed, PassedPending,
                            PassedDone, Owns, UpdateKinds
  <1> QED BY <1>1, <1>3, <1>4, <1>5, <1>6, StepsQuietly

LEMMA SelectStep ==
    ASSUME IInv, NEW r \in Requests, SelectDependents(r)
    PROVE  IInv'
  <1>0. op[r].task \in Tasks
    BY DEF SelectDependents, IInv, ReqInv, OpInv
  <1>1. \E ts, kept, refs \in SUBSET Tasks :
          op' = [op EXCEPT ![r].tasks = ts, ![r].kept = kept, ![r].refs = refs]
    <2>1. ToggleRefs(r) \in SUBSET Tasks /\ OpenDependents(r) \in SUBSET Tasks
      BY <1>0 DEF ToggleRefs, OpenDependents, Dependents
    <2> DEFINE reopened == op[r].prior = "done" /\ op[r].new # "done"
               reset == {u \in OpenDependents(r) : status[u] # "inbox"}
    <2>2. PICK assigned \in SUBSET (OpenDependents(r) \ reset) :
            op' = [op EXCEPT ![r].tasks = IF reopened THEN reset \cup assigned ELSE {},
                             ![r].kept = IF reopened THEN assigned ELSE {},
                             ![r].refs = ToggleRefs(r)]
      BY DEF SelectDependents
    <2>3. /\ (IF reopened THEN reset \cup assigned ELSE {}) \in SUBSET Tasks
          /\ (IF reopened THEN assigned ELSE {}) \in SUBSET Tasks
      BY <2>1, <2>2
    <2> HIDE DEF reopened, reset
    <2> QED BY <2>1, <2>2, <2>3
  <1>a. PICK ts \in SUBSET Tasks, kept \in SUBSET Tasks, refs \in SUBSET Tasks :
          op' = [op EXCEPT ![r].tasks = ts, ![r].kept = kept, ![r].refs = refs]
    BY <1>1
  <1>2. /\ pc[r] = "reconcile" /\ pc' = [pc EXCEPT ![r] = "dependents"] /\ TypeOK
        /\ UNCHANGED <<status, approval, links, lock, onceApproved, bornDone>>
    BY DEF SelectDependents, Goto, IInv
  <1>3. op[r].kind \in UpdateKinds
    BY <1>2 DEF IInv, ReqInv, OpInv
  <1>4. /\ op'[r] = [op[r] EXCEPT !.tasks = ts, !.kept = kept, !.refs = refs] /\ pc'[r] = "dependents"
        /\ \A q \in Requests \ {r} : pc'[q] = pc[q] /\ op'[q] = op[q]
    BY <1>a, <1>2 DEF TypeOK
  <1>5. /\ op[r] \in Op /\ op'[r] \in Op /\ op'[r].new = op[r].new
        /\ op'[r].kind = op[r].kind
        /\ op'[r].appr = op[r].appr /\ op'[r].task = op[r].task
        /\ op'[r].prior = op[r].prior /\ op'[r].asked = op[r].asked
    <2>1. op[r] \in Op
      BY <1>2 DEF TypeOK
    <2>2. op'[r] = [op[r] EXCEPT !.tasks = ts, !.kept = kept, !.refs = refs]
      BY <1>4
    <2>3. op'[r] \in Op
      BY <2>1, <2>2 DEF Op
    <2>4. /\ op'[r].new = op[r].new /\ op'[r].kind = op[r].kind
          /\ op'[r].appr = op[r].appr /\ op'[r].task = op[r].task
          /\ op'[r].prior = op[r].prior /\ op'[r].asked = op[r].asked
      BY <2>1, <2>2 DEF Op
    <2> QED BY <2>1, <2>3, <2>4
  <1>6. TypeOK'
    BY <1>a, <1>2, <1>5 DEF TypeOK
  <1>7. OpInv(r)'
    BY <1>2, <1>3, <1>4, <1>5 DEF IInv, ReqInv, OpInv, UpdateKinds
  <1>8. Flushed(r)' /\ PassedPending(r)' /\ PassedDone(r)'
    BY <1>2, <1>4, <1>5 DEF IInv, ReqInv, Flushed, PassedPending, PassedDone, Owns, HasPending
  <1>9. ReqInv(r)'
    BY <1>3, <1>4, <1>5, <1>7, <1>8 DEF ReqInv, ApprovalInv, Checked, UpdateKinds
  <1> QED BY <1>2, <1>4, <1>5, <1>6, <1>9, StepsQuietly

LEMMA DependentsStep ==
    ASSUME IInv, NEW r \in Requests, SaveDependents(r)
    PROVE  IInv'
  <1> DEFINE o == op[r]
             leads == o.kind = "lead" /\ o.new # o.prior
  <1>1. /\ pc[r] = "dependents" /\ Finish(r) /\ TypeOK
        /\ status' = [u \in Tasks |-> IF u \in o.tasks \ o.kept THEN "inbox"
                                      ELSE IF leads /\ u = o.task THEN o.new ELSE status[u]]
        /\ bornDone' = StillDone
        /\ UNCHANGED <<approval, links, onceApproved>>
    BY DEF SaveDependents, IInv
  <1>2. leads => o.new \in Status
    BY <1>1 DEF IInv, ReqInv, OpInv
  <1>3. status' \in [Tasks -> Status \cup {"absent"}] /\ bornDone' \subseteq Tasks
    BY <1>1, <1>2 DEF TypeOK, Status, StillDone
  <1>4. TypeOK'
    BY <1>1, <1>3, Ended DEF TypeOK
  <1>5. DoneWasApproved'
    <2>1. ASSUME NEW t \in Tasks, RequireApproval, status[t] # "done", status'[t] = "done"
          PROVE  t \in onceApproved
      <3>1. t = o.task /\ o.new = "done" /\ o.new # o.prior /\ o.kind = "lead"
        BY <1>1, <2>1
      <3> QED BY <1>1, <2>1, <3>1 DEF IInv, ReqInv, PassedDone, Owns
    <2> QED BY <1>1, <2>1, StaysDone DEF IInv
  <1> QED BY <1>1, <1>4, <1>5, Ended, StatusStep

LEMMA SaveTaskStep ==
    ASSUME IInv, NEW r \in Requests, SaveTask(r)
    PROVE  IInv'
  <1> DEFINE o == op[r]
  <1>1. /\ TypeOK /\ Finish(r) /\ o.task \in Tasks /\ o.new \in Status
        /\ status' = [status EXCEPT ![o.task] = o.new]
        /\ bornDone' = IF o.new = "done" THEN StillDone \cup {o.task} ELSE StillDone
        /\ UNCHANGED <<approval, links, onceApproved>>
    BY DEF SaveTask, IInv, ReqInv, OpInv
  <1>2. status' \in [Tasks -> Status \cup {"absent"}] /\ bornDone' \subseteq Tasks
    BY <1>1 DEF TypeOK, StillDone
  <1>3. TypeOK'
    BY <1>1, <1>2, Ended DEF TypeOK
  <1>4. \A t \in Tasks : status[t] # "done" /\ status'[t] = "done" => t \in bornDone'
    BY <1>1 DEF TypeOK
  <1>5. DoneWasApproved'
    BY <1>1, <1>4, StaysDone DEF IInv
  <1> QED BY <1>1, <1>3, <1>5, Ended, StatusStep

LEMMA WorkerStep ==
    ASSUME IInv, NEW r \in Requests,
           StartRun(r) \/ \E outcome \in {"review", "inbox", "in_progress"} : EndRun(r, outcome)
    PROVE  IInv'
  <1>1. TypeOK
    BY DEF IInv
  <1>2. PICK s \in Status \ {"done"} :
          status' = status \/ status' = [status EXCEPT ![op[r].task] = s]
    BY DEF StartRun, EndRun, Status
  <1>a. bornDone' = StillDone /\ onceApproved' = onceApproved
    BY DEF StartRun, EndRun
  <1>3. DoneWasApproved' /\ status' \in [Tasks -> Status \cup {"absent"}] /\ bornDone' \subseteq Tasks
    <2>1. status' \in [Tasks -> Status \cup {"absent"}] /\ bornDone' \subseteq Tasks
      BY <1>1, <1>2, <1>a DEF TypeOK, StillDone
    <2>2. \A t \in Tasks : status[t] # "done" => status'[t] # "done"
      BY <1>1, <1>2 DEF TypeOK
    <2> QED BY <1>1, <1>a, <2>1, <2>2, StaysDone DEF IInv
  <1>4. CASE StartRun(r)
    <2>1. /\ pc[r] = "start" /\ pc' = [pc EXCEPT ![r] = "running"]
          /\ UNCHANGED <<approval, links, lock, op, onceApproved>>
      BY <1>4 DEF StartRun, Goto
    <2>2. pc'[r] = "running" /\ \A q \in Requests \ {r} : pc'[q] = pc[q]
      BY <1>1, <2>1 DEF TypeOK
    <2>3. TypeOK'
      BY <1>1, <1>3, <2>1 DEF TypeOK
    <2>4. ReqInv(r)'
      BY <2>1, <2>2 DEF IInv, ReqInv, OpInv, ApprovalInv, Checked, Flushed, PassedPending,
                        PassedDone, Owns
    <2> QED BY <1>3, <2>1, <2>2, <2>3, <2>4, StatusStep
  <1>5. CASE \E outcome \in {"review", "inbox", "in_progress"} : EndRun(r, outcome)
    <2>1. Finish(r) /\ UNCHANGED <<approval, links, onceApproved>>
      BY <1>5 DEF EndRun
    <2>2. TypeOK'
      BY <1>1, <1>3, <2>1, Ended DEF TypeOK
    <2> QED BY <1>1, <1>3, <2>1, <2>2, Ended, StatusStep
  <1> QED BY <1>4, <1>5

LEMMA NextIInv == IInv /\ [Next]_vars => IInv'
  <1> SUFFICES ASSUME IInv, [Next]_vars PROVE IInv'
    OBVIOUS
  <1>1. CASE UNCHANGED vars
    BY <1>1 DEF vars, IInv, TypeOK, OnePendingPerTask, DoneWasApproved, SingleCreator, History,
           ReqInv, OpInv, ApprovalInv, Checked, Flushed, PassedPending, PassedDone, Owns,
           HasPending
  <1>2. ASSUME NEW r \in Requests, Step(r) PROVE IInv'
    BY <1>2, LockStep, ReferenceStep, CheckStep, SaveStep, RulesStep, FlushStep, PendingGateStep,
       DoneGateStep, CommitStep, RefreshStep, SelectStep, DependentsStep, WorkerStep, SaveTaskStep DEF Step
  <1>3. ASSUME NEW r \in Requests, Arrive(r) PROVE IInv'
    BY <1>3, TaskCreateStep, CreateStep, ResolveStep, UpdateStep, ExecuteStep, VerdictsAssumption DEF Arrive
  <1>4. ASSUME NEW r \in Requests, Abort(r) PROVE IInv'
    BY <1>4, EndsQuietly DEF Abort
  <1> QED BY <1>1, <1>2, <1>3, <1>4 DEF Next
-----------------------------------------------------------------------------
(***************************************************************************)
(* Theorems                                                                *)
(***************************************************************************)
\* Every reachable state satisfies the inductive invariant.
THEOREM Invariance == Spec => []IInv
  BY InitIInv, NextIInv, PTL DEF Spec

\* The variables keep their shape, for every board and number of requests.
THEOREM TypeCorrect == Spec => []TypeOK
  <1>1. IInv => TypeOK
    BY DEF IInv
  <1> QED BY <1>1, Invariance, PTL

\* create_approval and update_approval never leave a task with two pending
\* approvals, however many requests run at once: the row locks that
\* _ensure_no_pending_approval_conflicts takes keep its answer true until the
\* commit.
THEOREM OnePending == Spec => []OnePendingPerTask
  <1>1. IInv => OnePendingPerTask
    BY DEF IInv
  <1> QED BY <1>1, Invariance, PTL

\* With require_approval_for_done, no order of overlapping creations, updates,
\* resets and worker runs leaves a task done that never had an approved approval,
\* except one that create_task stored as done and that nobody reopened since.
THEOREM DoneApproved == Spec => []DoneWasApproved
  <1>1. IInv => DoneWasApproved
    BY DEF IInv
  <1> QED BY <1>1, Invariance, PTL

\* With block_status_changes_with_pending_approval, update_task commits no
\* status it was asked for while a linked approval is pending: the UPDATE is
\* flushed before the gate runs, and its row lock keeps new pending approvals
\* out until the commit.
THEOREM AskedStatusFrozen == Spec => AskedStatusFrozenWhilePending
  <1> DEFINE A == BlockPending =>
                    \A t \in Tasks : HasPending(t, {}) /\ status'[t] # status[t]
                       => \E r \in Requests : SystemWrite(r, t)
  <1>1. IInv /\ [Next]_vars => [A]_vars
    <2> SUFFICES ASSUME IInv, Next, BlockPending, NEW t \in Tasks, HasPending(t, {}),
                        status'[t] # status[t]
                 PROVE  \E r \in Requests : SystemWrite(r, t)
      BY DEF vars
    <2>1. PICK r \in Requests : Step(r) \/ Arrive(r) \/ Abort(r)
      BY DEF Next
    <2>2. TypeOK /\ ReqInv(r)
      BY DEF IInv
    <2>3. ~UNCHANGED status
      OBVIOUS
    <2>4. \/ CommitTask(r) \/ SaveDependents(r) \/ StartRun(r) \/ SaveTask(r)
          \/ \E outcome \in {"review", "inbox", "in_progress"} : EndRun(r, outcome)
      BY <2>1, <2>3 DEF Step, Arrive, Abort, Begin, CreateTask, CreateApproval, UpdateApproval, UpdateTask,
            ExecuteTaskMode, LockRow, CheckConflicts, SaveApproval, RoleRules, FlushTask,
            PendingGate, DoneGate, RefreshTask, SelectDependents, ReferenceRow
    <2>5. CASE CommitTask(r)
      <3>1. pc[r] = "commit" /\ op[r].task = t /\ op[r].new # op[r].prior
        BY <2>2, <2>5 DEF CommitTask, TypeOK
      <3>2. ~op[r].asked
        BY <2>2, <3>1 DEF ReqInv, PassedPending, Owns
      <3> QED BY <3>1, <3>2 DEF SystemWrite
    <2>6. CASE SaveDependents(r)
      <3>1. CASE t \in op[r].tasks \ op[r].kept
        BY <2>6, <3>1 DEF SaveDependents, SystemWrite
      <3>2. CASE t \notin op[r].tasks \ op[r].kept
        <4>1. /\ pc[r] = "dependents" /\ op[r].kind = "lead" /\ op[r].task = t
              /\ op[r].new # op[r].prior
          BY <2>6, <3>2 DEF SaveDependents
        <4>2. op[r].asked
          BY <2>2, <4>1 DEF ReqInv, OpInv
        <4> QED BY <2>2, <4>1, <4>2 DEF ReqInv, PassedPending, Owns
      <3> QED BY <3>1, <3>2
    <2>7. CASE StartRun(r)
      BY <2>2, <2>7 DEF StartRun, SystemWrite, TypeOK
    <2>8. CASE \E outcome \in {"review", "inbox", "in_progress"} : EndRun(r, outcome)
      BY <2>2, <2>8 DEF EndRun, SystemWrite, TypeOK
    <2>9. CASE SaveTask(r)
      BY <2>2, <2>9 DEF SaveTask, SystemWrite, TypeOK
    <2> QED BY <2>4, <2>5, <2>6, <2>7, <2>8, <2>9
  <1> QED BY <1>1, Invariance, PTL DEF Spec, AskedStatusFrozenWhilePending
-----------------------------------------------------------------------------
(***************************************************************************)
(* LockOrderKept: a request that waits for a row holds only rows of        *)
(* smaller ids, so that along a circle of waiting requests the ids would   *)
(* grow for ever.                                                          *)
(***************************************************************************)
\* What a request holds when it is about to lock another row.
HeldInv(r) ==
    /\ pc[r] \in {"idle", "insert", "rules", "flush", "refresh", "start", "running"} => Held(r) = {}
    /\ pc[r] = "reconcile" /\ op[r].kind # "lead" => Held(r) = {}
    /\ /\ pc[r] \in {"flush", "pendingGate", "doneGate", "reconcile"}
       /\ op[r].kind = "lead" /\ op[r].new # op[r].prior
       => op[r].prior = "review"
    /\ pc[r] = "dependents" /\ op[r].kind = "lead" => op[r].tasks = {}
    /\ pc[r] \in {"lock", "dependents"} =>
         \A t \in op[r].tasks \ Held(r), u \in Held(r) : u < t

\* No more than finitely many rows are locked.
LocksBounded == \E n \in Nat : \A t \in Tasks : lock[t] # Nobody => t <= n

LockInv == LocksBounded /\ \A r \in Requests : HeldInv(r)

\* What a step of r does to the rows: it locks one, or keeps or releases its own.
LEMMA LockChanges ==
    ASSUME IInv, NEW r \in Requests, Step(r) \/ Arrive(r) \/ Abort(r)
    PROVE  /\ \A q \in Requests \ {r} : /\ pc'[q] = pc[q] /\ op'[q] = op[q]
                                        /\ \A t \in Tasks : lock'[t] = q <=> lock[t] = q
           /\ \/ lock' = lock
              \/ lock' = Released(r)
              \/ \E t \in Tasks : lock[t] = Nobody /\ lock' = [lock EXCEPT ![t] = r]
  <1>1. TypeOK /\ op[r] \in Op
    BY DEF IInv, TypeOK
  <1>2. /\ \A q \in Requests \ {r} : pc'[q] = pc[q] /\ op'[q] = op[q]
        /\ \/ lock' = lock
           \/ lock' = Released(r)
           \/ \E t \in Tasks : lock[t] = Nobody /\ lock' = [lock EXCEPT ![t] = r]
    <2>1. CASE Abort(r)
      BY <1>1, <2>1 DEF Abort, Finish, Goto, TypeOK
    <2>2. CASE Arrive(r)
      BY <1>1, <2>2 DEF Arrive, CreateTask, CreateApproval, UpdateApproval, UpdateTask, ExecuteTaskMode,
            Begin, Goto, TypeOK
    <2>3. CASE LockRow(r) \/ ReferenceRow(r)
      BY <1>1, <2>3 DEF LockRow, ReferenceRow, TypeOK
    <2>4. CASE FlushTask(r)
      <3>1. op[r].task \in Tasks
        BY <2>4 DEF FlushTask, IInv, ReqInv, OpInv
      <3> QED BY <1>1, <2>4, <3>1 DEF FlushTask, Goto, TypeOK
    <2>5. CASE CheckConflicts(r) \/ SaveApproval(r) \/ SaveTask(r) \/ RoleRules(r) \/ PendingGate(r) \/ DoneGate(r)
      BY <1>1, <2>5 DEF CheckConflicts, SaveApproval, SaveTask, RoleRules, PendingGate, DoneGate, Finish, Goto,
            TypeOK
    <2>6. CASE CommitTask(r) \/ RefreshTask(r) \/ SelectDependents(r) \/ SaveDependents(r)
      BY <1>1, <2>6 DEF CommitTask, RefreshTask, SelectDependents, SaveDependents, Finish, Goto, TypeOK
    <2>7. CASE StartRun(r) \/ \E outcome \in {"review", "inbox", "in_progress"} : EndRun(r, outcome)
      BY <1>1, <2>7 DEF StartRun, EndRun, Finish, Goto, TypeOK
    <2> QED BY <2>1, <2>2, <2>3, <2>4, <2>5, <2>6, <2>7 DEF Step
  <1>3. \A q \in Requests \ {r}, t \in Tasks : lock'[t] = q <=> lock[t] = q
    BY <1>1, <1>2, NobodyAssumption DEF TypeOK, Released
  <1> QED BY <1>2, <1>3

\* The rows locked stay finitely many.
LEMMA BoundedStep ==
    ASSUME IInv, LocksBounded, NEW r \in Requests, Step(r) \/ Arrive(r) \/ Abort(r)
    PROVE  LocksBounded'
  <1>1. PICK n \in Nat : \A t \in Tasks : lock[t] # Nobody => t <= n
    BY DEF LocksBounded
  <1>2. TypeOK
    BY DEF IInv
  <1>3. CASE lock' = lock \/ lock' = Released(r)
    <2>1. \A t \in Tasks : lock'[t] # Nobody => lock[t] # Nobody
      BY <1>3 DEF Released
    <2> QED BY <1>1, <2>1 DEF LocksBounded
  <1>4. CASE \E t \in Tasks : lock' = [lock EXCEPT ![t] = r]
    <2>1. PICK t \in Tasks : lock' = [lock EXCEPT ![t] = r]
      BY <1>4
    <2>2. t \in Nat /\ \A u \in Tasks : u \in Nat
      BY TasksAssumption
    <2>3. n + t \in Nat /\ \A u \in Tasks : u <= n \/ u = t => u <= n + t
      BY <2>2
    <2>4. \A u \in Tasks : lock'[u] # Nobody => u = t \/ u <= n
      BY <1>1, <1>2, <2>1 DEF TypeOK
    <2> QED BY <2>3, <2>4 DEF LocksBounded
  <1> QED BY <1>3, <1>4, LockChanges

\* A step of another request leaves the rows of q alone.
LEMMA OthersHeld ==
    ASSUME NEW q \in Requests, HeldInv(q), pc'[q] = pc[q], op'[q] = op[q],
           \A t \in Tasks : lock'[t] = q <=> lock[t] = q
    PROVE  HeldInv(q)'
  <1>1. Held(q)' = Held(q)
    BY DEF Held
  <1> QED BY <1>1 DEF HeldInv

\* A request that ends holds nothing.
LEMMA EndHeld ==
    ASSUME TypeOK, NEW r \in Requests, Finish(r)
    PROVE  HeldInv(r)'
  <1>1. pc'[r] = "idle" /\ \A t \in Tasks : lock'[t] # r
    BY NobodyAssumption DEF Finish, Goto, Released, TypeOK
  <1> QED BY <1>1 DEF HeldInv, Held

\* A request locks its rows in the order of their ids.
LEMMA RowHeld ==
    ASSUME IInv, NEW r \in Requests, HeldInv(r), LockRow(r)
    PROVE  HeldInv(r)'
  <1>1. TypeOK /\ op[r].tasks \subseteq Tasks
    BY DEF IInv, TypeOK, Op
  <1>2. PICK t \in Tasks : NextRow(r, t) /\ lock' = [lock EXCEPT ![t] = r]
    BY DEF LockRow
  <1>3. pc' = pc /\ op' = op /\ pc[r] \in {"lock", "dependents"}
    BY <1>2 DEF LockRow, NextRow
  <1>4. Held(r)' = Held(r) \cup {t}
    BY <1>1, <1>2 DEF Held, TypeOK
  <1>5. ASSUME NEW u \in op[r].tasks \ Held(r)', NEW v \in Held(r)' PROVE v < u
    <2>1. u \in Tasks /\ v \in Tasks /\ u # t /\ u \in op[r].tasks \ Held(r)
      BY <1>1, <1>4, <1>5 DEF Held
    <2>2. t \in Nat /\ u \in Nat /\ v \in Nat
      BY <2>1, TasksAssumption
    <2>3. t < u
      BY <1>2, <2>1, <2>2 DEF NextRow
    <2>4. CASE v = t
      BY <2>3, <2>4
    <2>5. CASE v # t
      BY <1>3, <1>4, <1>5, <2>1, <2>5 DEF HeldInv
    <2> QED BY <2>4, <2>5
  <1> QED BY <1>3, <1>5 DEF HeldInv

\* What a request holds after each of its own steps.
LEMMA OwnHeld ==
    ASSUME IInv, NEW r \in Requests, HeldInv(r), Step(r) \/ Arrive(r) \/ Abort(r)
    PROVE  HeldInv(r)'
  <1>1. TypeOK /\ ReqInv(r) /\ op[r] \in Op
    BY DEF IInv, TypeOK
  <1>2. CASE Finish(r)
    BY <1>1, <1>2, EndHeld
  <1>3. CASE Arrive(r)
    <2>1. pc[r] = "idle" /\ Held(r) = {} /\ lock' = lock
      BY <1>3 DEF Arrive, CreateTask, CreateApproval, UpdateApproval, UpdateTask, ExecuteTaskMode, Begin, HeldInv
    <2>2. pc'[r] \in {"insert", "lock", "save", "rules", "start"}
      BY <1>1, <1>3 DEF Arrive, CreateTask, CreateApproval, UpdateApproval, UpdateTask, ExecuteTaskMode, Begin,
                        Goto, TypeOK
    <2>3. Held(r)' = {}
      BY <2>1 DEF Held
    <2> QED BY <2>2, <2>3 DEF HeldInv
  <1>4. CASE LockRow(r)
    BY <1>4, RowHeld
  <1>5. CASE ReferenceRow(r)
    <2>1. PICK t \in Unshared(r) : op' = [op EXCEPT ![r].shared = @ \cup {t}]
      BY <1>5 DEF ReferenceRow
    <2>2. op'[r] = [op[r] EXCEPT !.shared = @ \cup {t}]
      BY <1>1, <2>1 DEF TypeOK
    <2>3. /\ op'[r].kind = op[r].kind /\ op'[r].new = op[r].new /\ op'[r].prior = op[r].prior
          /\ op'[r].tasks = op[r].tasks
      BY <1>1, <2>2 DEF Op
    <2>4. pc'[r] = pc[r] /\ Held(r)' = Held(r)
      BY <1>5 DEF ReferenceRow, Held
    <2> QED BY <2>3, <2>4 DEF HeldInv
  <1>6. CASE ~Finish(r) /\ CheckConflicts(r)
    <2>1. pc'[r] = "save"
      BY <1>1, <1>6 DEF CheckConflicts, Goto, TypeOK
    <2> QED BY <2>1 DEF HeldInv
  <1>7. CASE ~Finish(r) /\ RoleRules(r)
    <2>1. PICK s \in AllowedTargets(op[r]) : op' = [op EXCEPT ![r].new = s]
      BY <1>7 DEF RoleRules
    <2>2. pc[r] = "rules" /\ pc'[r] = "flush" /\ lock' = lock /\ Held(r) = {}
      BY <1>1, <1>7 DEF RoleRules, Goto, TypeOK, HeldInv
    <2>3. op'[r] = [op[r] EXCEPT !.new = s]
      BY <1>1, <2>1 DEF TypeOK
    <2>4. op'[r].new = s /\ op'[r].kind = op[r].kind /\ op'[r].prior = op[r].prior
      BY <1>1, <2>3 DEF Op
    <2>5. op[r].kind = "lead" /\ s # op[r].prior => op[r].prior = "review"
      BY <2>1 DEF AllowedTargets
    <2>6. Held(r)' = {}
      BY <2>2 DEF Held
    <2> QED BY <2>2, <2>4, <2>5, <2>6 DEF HeldInv
  <1>8. CASE FlushTask(r)
    BY <1>1, <1>8 DEF FlushTask, Goto, TypeOK, HeldInv
  <1>9. CASE ~Finish(r) /\ PendingGate(r)
    BY <1>1, <1>9 DEF PendingGate, Goto, TypeOK, HeldInv
  <1>10. CASE ~Finish(r) /\ DoneGate(r)
    BY <1>1, <1>10 DEF DoneGate, Goto, TypeOK, HeldInv
  <1>11. CASE CommitTask(r)
    <2>1. pc'[r] = "refresh" /\ \A t \in Tasks : lock'[t] # r
      BY <1>1, <1>11, NobodyAssumption DEF CommitTask, Goto, Released, TypeOK
    <2> QED BY <2>1 DEF HeldInv, Held
  <1>12. CASE RefreshTask(r)
    <2>1. pc[r] = "refresh" /\ pc'[r] = "reconcile" /\ lock' = lock /\ Held(r) = {}
      BY <1>1, <1>12 DEF RefreshTask, Goto, TypeOK, HeldInv
    <2>2. op[r].kind # "lead"
      BY <1>1, <2>1 DEF ReqInv, OpInv
    <2>3. op'[r] = [op[r] EXCEPT !.new = status[op[r].task]]
      BY <1>1, <1>12 DEF RefreshTask, TypeOK
    <2>4. op'[r].kind = op[r].kind
      BY <1>1, <2>3 DEF Op
    <2>5. Held(r)' = {}
      BY <2>1 DEF Held
    <2> QED BY <2>1, <2>2, <2>4, <2>5 DEF HeldInv
  <1>13. CASE SelectDependents(r)
    <2> DEFINE reopened == op[r].prior = "done" /\ op[r].new # "done"
               reset == {u \in OpenDependents(r) : status[u] # "inbox"}
    <2>a. PICK assigned \in SUBSET (OpenDependents(r) \ reset) :
            op' = [op EXCEPT ![r].tasks = IF reopened THEN reset \cup assigned ELSE {},
                             ![r].kept = IF reopened THEN assigned ELSE {},
                             ![r].refs = ToggleRefs(r)]
      BY <1>13 DEF SelectDependents
    <2> DEFINE ts == IF reopened THEN reset \cup assigned ELSE {}
               kept == IF reopened THEN assigned ELSE {}
    <2>b. ~(op[r].prior = "done" /\ op[r].new # "done") => ts = {}
      OBVIOUS
    <2> HIDE DEF reopened, reset
    <2>c. op' = [op EXCEPT ![r].tasks = ts, ![r].kept = kept, ![r].refs = ToggleRefs(r)]
      BY <2>a
    <2> HIDE DEF ts, kept
    <2>1. /\ pc[r] = "reconcile" /\ pc'[r] = "dependents" /\ lock' = lock
          /\ op'[r] = [op[r] EXCEPT !.tasks = ts, !.kept = kept, !.refs = ToggleRefs(r)]
          /\ ~(op[r].prior = "done" /\ op[r].new # "done") => ts = {}
      BY <1>1, <1>13, <2>b, <2>c DEF SelectDependents, Goto, TypeOK
    <2>2. op[r].kind = "lead" /\ op[r].new # op[r].prior => op[r].prior = "review"
      BY <2>1 DEF HeldInv
    <2>3. op[r].kind = "lead" => ts = {}
      BY <2>1, <2>2
    <2>4. op'[r].tasks = ts /\ op'[r].kind = op[r].kind
      BY <1>1, <2>1 DEF Op
    <2>5. Held(r)' = Held(r) /\ (op[r].kind # "lead" => Held(r) = {})
      BY <2>1 DEF Held, HeldInv
    <2>6. \A t \in ts \ Held(r), u \in Held(r) : u < t
      BY <2>3, <2>5
    <2> QED BY <2>1, <2>3, <2>4, <2>5, <2>6 DEF HeldInv
  <1>14. CASE StartRun(r)
    <2>1. pc[r] = "start" /\ pc'[r] = "running" /\ Held(r)' = Held(r)
      BY <1>1, <1>14 DEF StartRun, Goto, TypeOK, Held
    <2> QED BY <2>1 DEF HeldInv
  <1> QED
    BY <1>2, <1>3, <1>4, <1>5, <1>6, <1>7, <1>8, <1>9, <1>10, <1>11, <1>12, <1>13, <1>14
       DEF Step, Abort, SaveApproval, SaveTask, SaveDependents, EndRun

LEMMA NextLockInv == IInv /\ LockInv /\ [Next]_vars => LockInv'
  <1> SUFFICES ASSUME IInv, LockInv, [Next]_vars PROVE LockInv'
    OBVIOUS
  <1>1. CASE UNCHANGED vars
    BY <1>1 DEF vars, LockInv, LocksBounded, HeldInv, Held
  <1>2. ASSUME NEW r \in Requests, Step(r) \/ Arrive(r) \/ Abort(r) PROVE LockInv'
    <2>1. LocksBounded'
      BY <1>2, BoundedStep DEF LockInv
    <2>2. ASSUME NEW q \in Requests PROVE HeldInv(q)'
      <3>1. CASE q = r
        BY <1>2, <3>1, OwnHeld DEF LockInv
      <3>2. CASE q # r
        BY <1>2, <3>2, LockChanges, OthersHeld DEF LockInv
      <3> QED BY <3>1, <3>2
    <2> QED BY <2>1, <2>2 DEF LockInv
  <1> QED BY <1>1, <1>2 DEF Next

LEMMA InitLockInv == Init => LockInv
  <1> SUFFICES ASSUME Init PROVE LockInv
    OBVIOUS
  <1>1. \A t \in Tasks : lock[t] = Nobody
    BY DEF Init
  <1>2. LocksBounded
    <2>1. 0 \in Nat
      OBVIOUS
    <2> QED BY <1>1, <2>1 DEF LocksBounded
  <1>3. \A r \in Requests : pc[r] = "idle" /\ Held(r) = {}
    BY <1>1, NobodyAssumption DEF Init, Held
  <1> QED BY <1>2, <1>3 DEF LockInv, HeldInv

\* A request that waits for a row holds only smaller ones.
LEMMA WaitsUpwards ==
    ASSUME LockInv, NEW r \in Requests, NEW q \in Requests, WaitsForLock(r, q)
    PROVE  \E t \in Tasks : lock[t] = q /\ \A u \in Held(r) : u < t
  <1>1. CASE \E t \in Tasks : NextRow(r, t) /\ lock[t] = q /\ q # r
    <2>1. PICK t \in Tasks : NextRow(r, t) /\ lock[t] = q
      BY <1>1
    <2>2. pc[r] \in {"lock", "dependents"} /\ t \in op[r].tasks \ Held(r)
      BY <2>1 DEF NextRow
    <2>3. \A u \in Held(r) : u < t
      BY <2>2 DEF LockInv, HeldInv
    <2> QED BY <2>1, <2>3
  <1>2. CASE /\ pc[r] \in {"flush", "start", "running"}
             /\ op[r].task \in Tasks /\ lock[op[r].task] = q
    <2>1. Held(r) = {}
      BY <1>2 DEF LockInv, HeldInv
    <2> QED BY <1>2, <2>1
  <1> QED BY <1>1, <1>2 DEF WaitsForLock

\* A circle of waiting requests would hold rows of ever greater ids.
LEMMA NoCircle == LockInv => LockOrderKept
  <1> SUFFICES ASSUME LockInv, NEW S \in SUBSET Requests, S # {},
                      \A r \in S : \E q \in S : WaitsForLock(r, q)
               PROVE  FALSE
    BY DEF LockOrderKept
  <1> DEFINE rows == {t \in Tasks : lock[t] \in S}
             bounds == {n \in Nat : \A t \in rows : t <= n}
  <1>1. \A t \in rows : t \in Nat
    BY TasksAssumption
  <1>2. \A r \in S : \E t \in rows : \A u \in Held(r) : u < t
    BY WaitsUpwards
  <1>3. \A t \in rows : \E u \in rows : t < u
    BY <1>2 DEF Held
  <1>4. bounds \in SUBSET Nat /\ bounds # {}
    <2>1. PICK n \in Nat : \A t \in Tasks : lock[t] # Nobody => t <= n
      BY DEF LockInv, LocksBounded
    <2>2. \A t \in rows : t <= n
      BY <2>1, NobodyAssumption
    <2> QED BY <2>2
  <1>5. PICK n \in bounds : \A m \in bounds : n <= m
    <2> HIDE DEF bounds
    <2> QED BY <1>4, LeastNat
  <1>6. PICK t \in rows : TRUE
    BY <1>2
  <1>7. n \in Nat /\ \A u \in rows : u < n
    <2>1. n \in Nat /\ \A u \in rows : u <= n
      BY <1>5
    <2>2. ASSUME NEW u \in rows PROVE u < n
      <3>1. PICK v \in rows : u < v
        BY <1>3
      <3>2. u \in Nat /\ v \in Nat /\ v <= n
        BY <1>1, <2>1
      <3> QED BY <2>1, <3>1, <3>2
    <2> QED BY <2>1, <2>2
  <1>8. n - 1 \in bounds
    BY <1>1, <1>6, <1>7
  <1>9. n - 1 \in Nat /\ n - 1 < n
    BY <1>7, <1>8
  <1> QED BY <1>5, <1>7, <1>8, <1>9 DEF OpToRel

\* No set of requests waits in a circle for rows: approval requests and reconciles lock
\* their tasks in id order, and whoever else waits for a row holds none.
THEOREM LocksInOrder == Spec => []LockOrderKept
  BY InitIInv, InitLockInv, NextIInv, NextLockInv, NoCircle, PTL DEF Spec
=============================================================================
