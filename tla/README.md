# Specifications of ui-sentinel

TLA+ models of the parts of ui-sentinel in which several things happen at once:
the life of an inspection run from its creation to its verified commit, the
event stream that watches it, the checks a run delegates to children, what
requests share in the server (rule proposals, the evaluation lease, admission),
the model requests with their retries and late callbacks, the network boundary
and the finish of a UI scan with the ledger it rests on, and the exploration
program. TLC checks them on small instances; TLAPS proves the safety
properties for every instance. All paths below are relative to the repository, and every definition
is mapped to its source lines in `PROJECT.json` ("map").

## 1. The system

One process serves an HTTP API and a workbench on the loopback interface, keeps
everything durable in one libSQL database and an evidence directory, and drives
browsers with an agent. JavaScript's event loop runs one continuation at a time,
so nothing is torn *between* two awaits, and anything may happen *at* one: every
database statement, browser call, model request and timer is a place where
another request, tool or child can step in.

| Component | State it keeps | Operations | Talks to |
| --- | --- | --- | --- |
| Run queue (`src/execution/run-queue.ts`) | `pending`, the promise chain `tail`, per-run gates `lifecycleTails`, `terminalOwners`, `cancellationRequests`, `requiresReconciliation` | start, cancel, commit, reconcile, acknowledge | executor (calls it and is called back), database |
| Run rows and events (`run-manager.ts`, `src/storage`) | `runs`, `run_events`, findings, hypotheses, artifacts; `activeRuns` with their abort controllers and retained event ids | insert, unconditional UPDATE of a status, append of the next sequence number, restart marking | everybody |
| Executor (`executor.ts`, 6,500 lines) | `stopReason`, `sideEffectPending`, `finished`, `toolTail`, usage counters, deadline timer | claim, main loop, serial tools, teardown, terminal commit | queue, rows, browser, agent, children |
| Commit verification (`completion-integrity.ts`) | none; reads a snapshot through a second connection | `verifyCompletionCommit` | rows, delegated checks' report |
| HTTP routes (`src/server`) | the evaluation `lease`, the admission chain | create, cancel, event stream, reconcile, lease, reports | queue, rows |
| Delegated checks (`src/execution/check-tasks`) | at most two entries with snapshot, controller and `done` fiber; `sealed`, `fatal`; the leases of a shared budget | submit, progress, cancel, wait, gaps, close; reserve, consume, release | parent's tools, its teardown and its commit |
| Network boundary (`src/execution/network`) | request and byte budgets, navigation scope, `sealed`, admitted requests | decide, resolve, fetch, fulfil, seal, settle | browser, finish of a UI scan, children |
| Model requests (`src/agent/model/request.ts`) | the attempt in an async context, its timers | attempt, retry, tool guard | agent, tools |
| Completion and scope (`src/inspection`) | a ledger of obligations projected from events | record, decide, prove | finish |
| Rule proposals (`src/rules/proposal.ts`) | `rule_proposals` and the in-memory rule registry | create, validate, review, enable, load | operator |
| Exploration program (`src/agent/exploration`) | trajectory, proposed action, pending attempt, stop reason, scorer calls | plan, score, propose, record an outcome, recover, hand over | executor's loop, scope ledger |
| Agent context, prompts and decisions (`src/agent`) | text for the model | rank, render | executor |
| Business contracts and adapters (`src/business`), journeys, path reuse, investigations, visual focus and layout measurement, rules, reports, workbench, experiments, `evaluation/`, `arena/` | mostly derived data | pure functions, or sequential steps inside one tool | executor, database |

What is hard in it, and what makes each part correct:

* **Cancellation against conclusion.** A cancellation may arrive while the run
  is queued, being claimed, working, or committing. Whoever gets the gate first
  decides; an accepted cancellation must stay visible, a refused one must leave
  no trace, and a run must be concluded exactly once.
* **Unknown writes.** A click that was dispatched and not settled may or may not
  have changed the business. Until an operator has reconciled, nothing may be
  launched over it, not even after a crash has wiped the memory of it. The
  reconciliation itself takes several awaits, and a write may become unknown
  under it.
* **Serial queue.** One execution at a time, and the one at the head always
  leaves, whatever hangs or fails in it.
* **A commit of several statements.** There is no transaction: row, event and
  statistics are separate, and verification compares what the process was told
  with what the database holds.
* **Late work.** A tool that outlives its deadline goes on; the run that
  started it may be over.
* **Observers.** The event stream must not miss the conclusion.
* **Children.** Two fibers and the parent share one budget, may be aborted at
  any await, report to a log their parent's commit verifies, and must be drained
  before it. A finish reads their gaps and awaits before it is accepted.
* **A provider nobody controls.** A model request may hang, ignore its abort, or
  call a tool after it was given up and retried. What a decision returns must
  account for everything that acted in it.
* **A page that goes on.** While a finish reads facts, decides, seals and decides
  again, requests are admitted, resolved, refused and abandoned, and their records
  wait on a tail. A claim of coverage must survive all of it.
* **Check, await, write.** Proposals are read, awaited over and updated without a
  condition; the evaluation lease is granted behind a chain that its release does
  not enter.
* **A program that acts.** The exploration program decides on one reading of a
  page, acts on a later one, and learns of the outcome later still; it must not
  repeat an act, and its own account of what it did must be complete.

## 2. The modules

| Module | What it is |
| --- | --- |
| `RunOutcome` | abstract: what a client may rely on about the outcome a run claims |
| `RunLifecycle` | queue, gate, rows, log, executor skeleton, cancellation, reconciliation, faults, crash and restart; implements `RunOutcome` |
| `RunStream` | composes one event stream per run with `RunLifecycle` |
| `CheckTasks` | scheduler of delegated checks, shared budget, probe reservations, and the parent around them |
| `ControlPlane` | rule proposals and registry, evaluation lease, admission chain, boot |
| `Decision` | abstract: what the executor's loop may assume of one agent decision |
| `ModelRequest` | attempts, timers, retries, late calls and the serial tail of tools; implements `Decision` |
| `InspectionLedger` | the scope ledger of a UI scan and how it is persisted |
| `NetworkBoundary` | composes the session's requests, its budget and the tail of records with the ledger |
| `UiFinish` | composes the serialized tools and the two-phase finish with the boundary |
| `Exploration` | one turn of the exploration program after another, against a page that changes |
| `MC*` | instances for TLC |
| `RunLifecycleProofs`, `RunConclusionProofs`, `RunStreamProofs`, `CheckTasksProofs`, `ControlPlaneProofs`, `ModelRequestProofs`, `UiFinishProofs`, `ExplorationProofs` | theorems checked by TLAPS |

Definitions whose comment starts with *Mutant* are faulty variants: replacing the
definition that follows one by it must break a named property ("mutants").
They are no part of the specifications.

### RunLifecycle

One action is the code between two awaits. `exec[r]` is where `executeRun` of a
run stands, `tool[r]` where its tool stands, `call[c]` where a cancel request
stands, `ack` where the operator's reconcile request stands. `row` and `log` are
durable; a crash clears the rest, and `Restart` runs `reconcileInterruptedRuns`
before the process serves again.

`debt[r]` is history that no guard reads: what became of an unknown write of `r`.
It is `open` from the dispatch until the write settles; `asked` once the operator's
request, which vouches for what is unknown at that moment, came after it; `open`
again if that request was refused or died with the process; and `none` once the
request has rewritten the rows. A write that became unknown *after* the request
was never vouched for: if the request rewrites its row or lifts the quarantine
its commit raised all the same, it is `lapsed`.

| Actions | Code |
| --- | --- |
| `CreateRun`, `StartRunExecution`, `ExecuteRun`, `Dequeue` | `createRun`; `startRunExecution`, its `then` and its `finally` |
| `Enter`, `Inside`, `Leave` | `withRunLifecycle`: a FIFO of waiters, its head inside |
| `ClaimRefused`, `ClaimEndsEarly`, `Early*`, `ClaimActive` | the claim of `executeRun` behind the gate |
| `StartRow`, `StartEvent`, `LaunchBrowser` | from the claim to the browser |
| `StartTool` ... `FinishTool` | `serial()` around one action: reserve an unknown write, settle it, record, persist usage |
| `AcceptFinish`, `RecordFinish`, `LeaveFinished`, `LeaveIncomplete` | the finish tool and the loop's exits |
| `RunTimeout`, `ToolTimeout`, `Throw`, `RecordStopped` | timers, `guard()`, the catch block with its precedence |
| `Teardown`, `ProposeTerminal`, `CommitRun`, `Commit*`, `VerifyCommit`, `Quarantine*` | the finally block and the terminal commit |
| `Cancel*` | the route and `cancelRunExecution` |
| `Reconcile*` | the reconcile route and `acknowledgeReconciliation` |
| `ClaimFails`, `LoopFails`, `ToolFails`, `CommitFails`, `CancelFails`, `CloseFails` | a rejected statement on each path, with the handler that meets it |
| `LoseEvent`, `Crash` | external: an acknowledged event that is rolled back, and the death of the process |

Abstractions. Stop reasons that the code maps to the same row and treats alike
are one (`no-progress` with `finish-incomplete`, `model-request-timeout` with
`execution-error`). A tool is one action with at most one unknown write, or the
finish; which tool it is and what it observes is not modelled. The append of
`tool:started` is part of `StartTool`. `appendEvent` serialises all appends on one
chain, so reading the next sequence number, inserting and retaining the id are
one step. The appends of one reconciliation are one step. `startRunExecution` of
a run that is already pending returns the same promise and is left out, as is the
throw for a run whose terminal commit has an owner already, which cannot occur.
Delegated child runs are in `CheckTasks`. Three details are left out: a request of
the page that fails outside an action marks the run as one with an unknown write
(`executor.ts:1594-1604`), which here only an action does; the
`execution:profile` event that is appended beside the statistics and verified like
them (`executor.ts:6392`); and which statement throws a spent budget, which is
a choice in `Throw` wherever the loop stands without an unknown write.

`RunOutcome` sees three things of a run. `phase` is read off the row and
`exec[r]`: *claimed* while the row says `completed` or `blocked`, *kept* once the
run has left the queue (or the process died) with such a row, *settled* when the
commit wrote another row or withdrew the claim, *open* before. `claim` is the
row's stop reason while it claims, `accepted` the runs with a request that was
answered so. Queue, tools, timers and single statements are not visible; a late
tool is visible only if it changes a row that claims, which is what must not
happen: an accepted finish makes `serial()` refuse every later tool, and the loop
gives up by itself only between decisions, when their tools have settled.

### RunStream

`reader[r]` is one stream per run: read from the cursor, read the status, look
whether the run is active, read once more, end with `done`. The cursor is
abstracted to whether the concluding event has been delivered: each read delivers
everything after it, so that is all the properties can tell. A crash drops the
streams; a client may connect again.

### CheckTasks

`pc[i]` is where the `done` fiber of a child stands, `ending[i]` what it will
publish, `history[i]` its durable events; `held`, `used`, `released` are the
leases and `usage` what the parent's counters say. `tool` is the parent's one
tool slot and `parent` its executor.

| Actions | Code |
| --- | --- |
| `Submit`, `SubmitReturns`, `CancelTask` | `submit` up to its first await; its answer; `cancel`, all of them tools behind `serial()` |
| `EmitSubmitted` ... `EmitTerminal` | the fiber, one action per await; `Catch` is its catch block and `Close` its finally block |
| `FiberThrows`, `EmitFails` | an awaited step rejects; an append rejects and the scheduler is fatal |
| `Consume`, `Slack`, `Remaining` | `consume` and `release` of a lease; what the parent may still spend |
| `StartAction`, `CountAction`, `AbandonAction`, `CountModel` | the parent's own spending: an action is checked at its start and counted after many awaits, a model call at once |
| `ReserveProbe`, `ProbeClick`, `ReleaseProbe` | `createActionBudget` as the focus probe uses it: clicks reserved at its start, counted one by one, the rest released |
| `DecideFinish`, `AcceptFinish`, `FinishFails` | `finishUiScan` from its last decision on |
| `ChildDeadline`, `ParentAborts`, `Teardown`, `Drained` | the abort sources and `close()` |
| `Verified`, `Commit` | the children's part of `verifyCompletionCommit`, on the events |

Abstractions. All three kinds of quota are kept. The two task kinds share one
handler; a `defect` is a full result like `completed`. The check of a complete
result is part of `Validate`. A guard that also looks at the clock may throw at
any time, hence the unconditional `Catch` alternatives. A submission that throws
or repeats a key changes nothing (tools are serial, so the key's first acceptance
has settled). A child reports progress at most once (bound). What a child does
inside - a browser context, or a whole run of the original executor - is the
handler's business; its events are not events of the scheduler. The faults of the
parent's own commit are in `RunLifecycle`.

### ControlPlane

`row` is the durable table, `registry` the rules in memory, `edit[e]` the one
request a slot serves (where it stands, what it has read), `line` the admission
chain as a FIFO whose head is inside, `entry[q]` where a creation or a lease
request stands, `run[c]` whether the run of a client is busy, of unknown outcome,
or absent. `vetted` and `lapsed` are history: proposals once approved on passing
fixtures, and proposals whose enable failed behind its UPDATE since the boot.

| Actions | Code |
| --- | --- |
| `CreateProposal`, `Arrive`, `ReadProposal` | `createProposal`; the freeze middleware; the read each operation starts with |
| `Validate`, `Approve`, `Reject`, `Refuse` | `validateProposal`, `reviewProposal`: what was read decides, the UPDATE has no condition |
| `Enable`, `Register`, `RegistrationFails` | `enableProposal`: the UPDATE, the read of the stored row, the registration |
| `Submit`, `InvalidBody`, `Queue`, `EnterRun`, `InsertRun` | `POST /api/runs`: `canCreateRun`, the body, `withAdmission`, `canCreateRun` again, the INSERT and the hand-off to the queue |
| `EnterLease`, `CountRuns`, `Grant`, `Release`, `Acknowledge` | the lease routes and the reconcile route |
| `EndRun` | the end of an execution, which `RunLifecycle` unfolds |
| `Crash`, `ReconcileInterrupted`, `LoadEnabled` | the death of the process, and the order of the boot in `server/index.ts` |

Abstractions. A fixture's evaluation is a choice between passing and failing. A
proposal has the one configuration it was created with. Slots are used again, so
one slot of a kind stands for any number of requests one after the other.
`/api/rule-proposals*` as a pattern of the router is external.

### Decision and ModelRequest

`Decision` knows three things: whether the loop is in a decision, which tools
acted in it, which are at work. `ModelRequest` has the loop (`pc`), the attempts
with their async contexts (`attempts`: active, cut, touched, its timer), the calls
of the provider (`tool[t]`: where a call is, and which attempt made it) and the
chain on which tools are serialized (`tail`).

| Actions | Code |
| --- | --- |
| `BeginDecision`, `CountModel`, `OpenAttempt` | the loop's turn, `onStart`, an attempt with its context and timers |
| `RequestTimeout`, `DecisionTimeout`, `Abort` | the timers of `executeModelRequest`, the run's signal |
| `AttemptSucceeds`, `AttemptFails`, `CloseAttempt`, `Backoff` | the race against the provider, the `finally`, `retryable` and the guard on tools, the delay |
| `CallTool`, `StartTool`, `BeginBody`, `EndBody`, `ToolTimeout` | `beginAttemptTool`, `serial()` with `guardModelAttempt` before the body, and its deadline |
| `BeginProgram` | `executeProgramTool`: a context of its own, without a provider |
| `EnterFinalizing`, `EndLoop` | the latched phase with its own budget of calls, the loop's exits |

Abstractions. The provider is an adversary: it may never answer, ignore the
abort, fail at any point and call late. Only a success waits for its own calls
(external: the agent library resolves after it has executed them). Which
finalizing or program steps exist beyond their effect on calls is left out; the
recovery of a truncated answer changes the prompt only. The completion review
also enters `serial()` without an attempt (`executor.ts:728-729`, `5943-5950`)
and is left out, and what `serial()` awaits before it arms its deadline
(`executor.ts:744-768`) is taken to return.

### InspectionLedger, NetworkBoundary, UiFinish

`recorded` is the ledger as the sequence of its own events, `Scope` what they
amount to (a fold, as in `projectInspectionScope`), `written` the positions that
reached the log, `writer` what each of the two callers of `persist` has still to
write. `at[q]` is where a request stands (resolving, connecting, fulfilling),
`spent` the shared counter, `tail` and `stage` the chain of records and how far
its head is, `facts` the network events in the log. `pc` is where the serialized
tools or the finish stands, `finish` what the call under way has read.

| Actions | Code |
| --- | --- |
| `Tool`, `SelectCheck`, `MeasureCheck`, `RecordGap`, `RecordAndPersist`, `PersistEvent`, `PersistFails` | `selectItem`, `resolveItem`, `recordGap` behind `serial()`, and `persist` |
| `Pause`, `ResolveEnds`, `ConnectEnds`, `FulfilEnds`, `ChildPause`, `ChildResolves` | `Fetch.requestPaused` between its awaits: reserve, resolve, connect, decide, fulfil; a child's request reaches the same counter |
| `OpenPopup`, `RouteLeaves` | windows and sockets that are refused, a change of the document's route |
| `Record`, `WriteShutdown`, `WriteAllowed`, `Intervene`, `WriteRefusal`, `DenyNavigation`, `DenyChannel`, `TailPersists`, `InterveneChannel`, `WriteChannel`, `TailFails` | `boundary.ts`: the tail and what it does with each kind of record |
| `Begin`, `Flush`, `GatherFacts`, `Reject` | `finishUiScan` up to the first decision of `uiCompletionDecision` |
| `Seal`, `Settle`, `WriteSeal`, `DecideAgain`, `Accept` | seal the session, await what is in flight, `network:sealed`, decide again, `finish:accepted` |
| `Verified` (operator) | the scope part of `inspectHistory`: the proof of the accepted finish against the ledger a reader rebuilds from the log |

Abstractions. URL policy, DNS, addresses, bodies, the byte budget and the limits
on redirects and navigations are choices: what they decide is an input. An item's
facets, required checks and evidence files are left out; an item is pending,
verified, unverified or unsupported, and selected or not. Tools and finish are
serialized by `serial()`, which `ModelRequest` has; here one of them stands at
`pc`. An abort is followed only within a finish: outside it ends the tool. The
finish the host enters by itself once the scope is covered
(`closeCoveredUiScope`, `executor.ts:3545-3593`) is left out.

### Exploration

The page is one address with the controls it offered; `page` has its document and
its related state. `item[c]` is the check under which a control is currently
offered, `seen` the state a decision is bound to, `decision` and `result` the
turn's, `attempts`, `proposed`, `pending`, `stopped` the host's snapshot. `acts`
is history: what was really dispatched.

| Actions | Code |
| --- | --- |
| `Plan`, `AsksScore`, `Scored`, `Revisit`, `Recover`, `HandOver` | `decide` of the product host and of the host around it |
| `Rebind` | the executor reads the page again and drops a decision whose page changed |
| `Dispatch`, `Select`, `Read`, `Refresh`, `Refused`, `RunEnds` | what the tool then does, its refusals and the run's end |
| `Record` | `recordOutcome` and `settle`: the trajectory grows, a pending attempt is settled by a measurement |
| `Drift` | external: the page changes by itself |

Abstractions. What ranking prefers among eligible targets is open, as is every
reason to hand over that lies in the page or in a budget. Links to other
addresses, strategies, fill boundaries, replaced nodes, back navigation and the
frontier's report are left out.


## 3. What TLC checks

| Run | Instance | Question |
| --- | --- | --- |
| `run_cancel` | 1 run with a tool, 2 cancel requests (symmetric), 2 faults or crashes | Is an accepted cancellation final (`AcceptedCancelHonoured`), the run concluded once (`ConcludedOnce`), the request recorded in order and once (`CancelRecordOrdered`), the committed history whole (`VerifiedHistory`), nothing launched after a cancellation (`NoLaunchAfterCancel`), and the claimed outcome final (`ImplementsOutcome`)? |
| `run_queue` | 2 runs, the first with a tool, 1 fault or crash, 1 reconciliation | Do executions overlap (`SingleExecution`)? Is a browser launched over an unknown write that no reconciliation let go (`NoLaunchOverUnknownWrite`)? |
| `run_stream` | 1 run, its stream, 1 request, 1 fault or crash, fair | Does a stream that ends after an executor's commit contain the conclusion (`StreamEndsAfterCommit`)? Does the queue always drain (`QueueDrains`), is a cancel request always answered (`CancelAnswered`), whether the client reads or not? |
| `check_tasks` | 2 inputs contending for 2 actions and 1 model call, a probe of 2 clicks, 1 rejected append | Is the budget honoured (`BudgetHonoured`), a late result refused (`AbortedNeverPasses`), the clean history accepted (`CleanRunsVerify`), a lost event always found (`LostEventsQuarantine`), and nothing moving once the commit began (`SettledAtCommit`)? |
| `check_drain` | 2 inputs without quota, 1 rejected append, fair | Does the teardown always end (`ParentCloses`), is a submission always answered (`SubmitAnswered`)? |
| `control_plane` | 1 proposal with a slot for each of validate, review and enable; an ordinary and a trusted client; a controller; storage faults, crashes and boots without a bound; fair | Is a registered rule always an approved one (`RegisteredWasApproved`), does the registry follow the table (`EnabledIsRegistered`), does a lease exclude ordinary runs (`LeaseExcludesOrdinary`), is everyone in the chain answered (`AdmissionServes`)? |
| `ui_finish` | 1 check, 1 gap, a document, a popup and a child's request, of which the page starts 2; 1 request under the cap; 1 lost write; fair | Does the cap hold over interleaved resolutions (`SharedCapHolds`), is the log of a sealed session final (`SealedLogFinal`), can full coverage be accepted over an intervention, a lost record or a gap (`CoveredIsUnintervened`), does an honest scan verify (`HonestFinishVerifies`), is a sealed finish answered (`SealAnswered`)? |
| `model_request` | 3 tool calls of which a decision may run 2, 1 retry, 2 model calls, 1 of them finalizing, 1 program step; fair | Does a result account for every tool that acted (`ResultCoversActs`), does every decision end (`DecisionEnds`), does every queued call settle (`QueuedToolSettles`), do the requests implement the abstract decision (`ImplementsDecision`)? |
| `exploration` | pages of 1, 2 and 3 controls with 2 looks; a sample of 2, a limit of 3 checks, 7 steps, 1 scorer call, a refresh, 2 changes of the page by itself | Is an act repeated, or dispatched over an open one (`NeverReplayed`), does the trajectory tell all that was done (`TrajectoryIsComplete`), can checks exceed their limit (`ChecksCapped`)? |
| `late_tool`, `stream_conclusion`, `reconcile_race` | 1 run, no faults | Three statements of the documentation and the code that the code does not keep (section 6). |

Run one with `tlc -workers 2 -config <run>.cfg <module>` in this directory. The
largest has close to six million states; none takes three minutes.

**Bounds and why they are enough.** Gates, owners, requests and rows of different
runs are independent: runs meet only in the queue and the quarantine, which two
runs exercise, and a cancellation meets one run, which two concurrent requests
exercise. `MaxTools` is one tool: a second would repeat the same steps from the
same state. `MaxUpsets` counts faults and crashes together: one shows every error
path, two let the handler of a fault fail as well. `MaxAcks` is one. Two children
are the code's own limit. The quotas are such that either child, both, or the
parent alone can exhaust a kind. `MaxFaults` is one: after a rejected append the
scheduler is fatal for good. A probe of two clicks can be left with one when an
action or a child spends beside it.

In `control_plane` a slot serves one request after another, and two requests of
one kind on one proposal differ only in which of them writes last, which a review
and a validation beside an enable show as well; faults and crashes need no bound.
In `ui_finish` two things the page starts are enough for one to be resolving while
another is recorded, and one request under the cap makes the page and a child
contend for it. A ledger of three events holds a creation, a selection and its
measurement. In `model_request` two attempts are the shortest retry, and three
calls let one act, one wait behind it and one come late. In `exploration` three
controls exceed the sample and reach the limit; seven steps suffice to measure
them, be offered one again, refresh and come back; two changes let a look go and
return.

Deadlock checking is off where the system really stops: when every run is over
and every request answered, when the scan has ended, when the loop is over, or
when the program has handed over. It is on in `control_plane`, which always serves.

`run_queue` identifies states that differ only in the log of a run that left the
queue (`QueueView`): no guard reads it (a commit verifies only its own run), and
neither property mentions a log, so such states have the same future.

**Fairness.** The event loop resumes every continuation whose promise settled,
so the steps of the claim, the commit, the gate, a cancellation and the restart
are weakly fair. The deadline timer of the run fires. The browser launch ends by
the driver's own timeout. Nothing is assumed of the agent, of a tool, of the
client or of the operator: a tool that never returns is a behaviour the liveness
properties cover. For the children: appends, admission, opening and closing
return or reject; a handler need not return unless it was aborted, and the
child's timer fires. In the control plane an operation that began runs on and a
boot that began ends. A decision's writes return, its timers fire, and a tool's
body ends once the run is aborted; the provider owes nothing. At the finish, a
write returns, and a request of the page returns once the session is stopped,
since resolver and socket listen to the abort; before that it may take as long as
its peer likes. `ui_finish` has one condition for all of these together: each
leaves less to do, so that is enough. `exploration` asks nothing that fairness
would decide.

**Refinement.** `ModelRequest!ImplementsDecision` instantiates `Decision` with
`busy` as the calls whose body runs and `phase` as the loop's place, and is a
property of `model_request`. `RunLifecycle!ImplementsOutcome` instantiates
`RunOutcome` as told in section 2 and is a property of `run_cancel`. Both are proved
too. The layers of `NetworkBoundary` and
`UiFinish` add to a shared state by EXTENDS and change nothing of the layer below,
and `RunStreamProofs` proves of the streams that they only read (`StreamSpec`
implies `Spec` of `RunLifecycle`).

## 4. What is proved

TLAPS checks these for every value of the constants, from the assumptions the
modules name (`RunConstants`, `CheckConstants`, `ControlConstants`,
`RequestConstants`, `LedgerConstants`, `BoundaryConstants`, `FinishConstants`,
`ExplorationConstants`: sorts that do not overlap, limits that are natural numbers).

| Theorem | Statement | Argument |
| --- | --- | --- |
| `RunLifecycleProofs!TypeCorrect` | `Spec => []TypeOK` | Types alone are not inductive: `Leave` takes the tail of a gate and `Dequeue` that of the queue, so one must know that whoever leaves was in. |
| `RunLifecycleProofs!QueueIsExclusive` | `Spec => []SingleExecution` | `Base` adds `Queued` (a run that was dequeued and is not gone is the head of the queue) and `Gated` (whoever stands at a step behind a gate is its head). Two executing runs would both be the head. |
| `RunConclusionProofs!CancellationIsHonoured`, `!CancelledRunsStayClosed` | `Spec => []AcceptedCancelHonoured`, `Spec => NoLaunchAfterCancel` | On `Base`: `Staged` (where a run may be while its row, tool, signal and owner are what they are) and `Remembered` (an accepted request is remembered as long as the run is pending, and a run with a remembered request has a row that honours it and is aborted). |
| `RunConclusionProofs!UnknownWritesBlockLaunches` | `Spec => NoLaunchOverUnknownWrite` | `Owed`: every unknown write that did not lapse is noted somewhere that blocks a launch (`Owes`): its run is executing (and exclusion keeps others out), the quarantine is set, or the process is down and the row is one that the restart marks. A run on its way to the launch was claimed when nothing was owed (`Clear`), and an open write under a reconciliation is of a run of this process (`Answers`), so that what the request rewrites or lifts is what lapses and nothing else. |
| `RunConclusionProofs!ConclusionIsUnique`, `!RequestsAreOrdered` | `Spec => []ConcludedOnce`, `Spec => []CancelRecordOrdered` | `Finals` (who may still write a conclusion: one at a time by the gate, and none once a conclusion is in the log) and `Counted` (the same of cancel requests, whose record comes before they are remembered). |
| `RunConclusionProofs!HistoryIsVerified` | `Spec => []VerifiedHistory` | `History`: `Traced` (a reason that is a claim, and a row that claims, exist only from the loop's exit on, and the row says what the reason says), `Flawless` (without a fault the log is what the process was told, statement by statement of the commit) and `Standing` (a claim that was left in place stands over a whole log, or two faults met it). |
| `RunConclusionProofs!OutcomeIsImplemented` | `Spec => ImplementsOutcome` | The layers above make every action a step of `RunOutcome` or a stutter: the row of a commit is a `Claim` or a `Settle`, the quarantine a `Settle`, leaving the queue a `Keep`, an answered request an `Accept`, a crash a `Crash`. `Traced` is what makes a late tool, the restart and the reconciliation stutter. |
| `RunStreamProofs!StreamsEndConcluded` | `StreamSpec => []StreamEndsAfterCommit` | Streams only read, so the layers above hold beside them. `Logged`: a run behind its commit has its conclusion in the log. `Ending`: a stream that decided to end saw a run that is over or never was active. |
| `CheckTasksProofs!TypeCorrect` | `Spec => []TypeOK` | Inductive as it stands. |
| `CheckTasksProofs!BudgetIsHonoured` | `Spec => []BudgetHonoured` | `Ledger` adds `Vacant` (an empty slot has no fiber and an untouched lease, so a submission starts from zero), `Within` (a lease consumes at most its quota, so what it still holds is never negative) and `Pledged` (while an action is between its check and its count a unit of `actions` remains, and while a probe runs what it reserved remains: a submission only reserves what remains when the tool slot is free, and consuming a lease moves a unit from held to used). |
| `CheckTasksProofs!LateResultsFail`, `!CleanHistoriesVerify`, `!LostEventsAreFound`, `!CommitStandsStill` | `Spec => []AbortedNeverPasses`, `[]CleanRunsVerify`, `[]LostEventsQuarantine`, `SettledAtCommit` | `CommitInv`: what a snapshot may be published as after an abort, that the lease is returned where the snapshot ends, that a commit stands over fibers that are done, that a rejected append is remembered and decides the parent's reason, and, without one, which history belongs to which place of a fiber. |
| `ControlPlaneProofs!ControlTypes`, `!LeaseIsExclusive` | `Spec => []TypeOK`, `[]LeaseExcludesOrdinary` | `Chain`: who stands at a step behind the admission chain is its head; so between the count of busy runs and the grant no run is inserted, and behind the grant an ordinary one is refused. |
| `ControlPlaneProofs!OnlyApprovedRules`, `!RegistryFollowsTable` | `Spec => []RegisteredWasApproved`, `[]EnabledIsRegistered` | `Approvals`: an approved or enabled row, a publisher that has read one, and what is registered are of vetted proposals, through every order of unconditional writes. For the registry, the promise of a row is kept by the registry, a request in flight, or a lapse. |
| `ModelRequestProofs!RequestTypes`, `!ResultsCoverActs`, `!RequestsImplementDecision` | `Spec => []TypeOK`, `[]ResultCoversActs`, `ImplementsDecision` | `Room` (calls fit their budgets), `Waiting` (the tail holds the calls that are queued or at work, and only its head works), `Guarded` (only the current attempt is active, and a call that is not settled has touched it, so that it succeeds or is the last) and `Accounted` (what acted was called by the current attempt). The step theorem maps every action to one of `Decision` or to a stutter. |
| `UiFinishProofs!BoundaryTypes`, `!OneCeiling` | types of the boundary, `Spec => []SharedCapHolds` | Requests that reached the network or hold a place while their name resolves (`Charged`) are at most `spent`: a reservation is taken before the await and never returned. |
| `UiFinishProofs!TheSealIsFinal`, `!CoverageIsHonest` | `Spec => []SealedLogFinal`, `[]CoveredIsUnintervened` | `Told`: unless a write was lost, abandoned reads are the shutdown events in the log and those still on the tail. `Closed` and `Decided`: from `network:sealed` on the tail is empty, the session takes no fact, and what the second decision read is what the acceptance finds. |
| `UiFinishProofs!ScanTypes` | `Spec => []TypeOK` | Adds the ledger's types. What the fold `ScopeOf` yields for every ledger is shown without induction over an operator: of the lengths at which the type would fail there is a least one (`Least`, from the well-foundedness of the naturals), and it cannot be one more than a length at which it holds. |
| `UiFinishProofs!HonestFinishStands` | `Spec => []HonestFinishVerifies` | `InOrder`: while no write failed and the two callers of `persist` never met, the log holds the first events of the ledger in order and the one writer holds the rest. `Counted`: an intervention in the log has moved the epoch. `Proven`: the proof to accept is of the ledger as it is. |
| `ExplorationProofs!ExplorationTypes`, `!TrajectoryComplete`, `!ChecksStayCapped`, `!NothingReplayed` | `Spec => []TypeOK`, `[]TrajectoryIsComplete`, `[]ChecksCapped`, `NeverReplayed` | One invariant: `Current` (only a refresh changes the document, once, and every check is new behind it), `Awake` (decisions are of this document), `Quiet` (nothing is done to the page while a check is open), `Aimed` (an action is aimed at what was proposed, and was never tried from there), `Watched` (each act is measured or has its check open) and `Story` (while the program runs the trajectory is the acts, but for the one not recorded yet). |

Only model-checked are the liveness properties (`QueueDrains`, `CancelAnswered`,
`ParentCloses`, `SubmitAnswered`, `AdmissionServes`, `SealAnswered`, `DecisionEnds`,
`QueuedToolSettles`): fairness and ENABLED are beyond the prover. Every invariant
and every action property of a passing run, and both refinements, are proved.

## 5. Reading the properties with care

* `AcceptedCancelHonoured` allows `running` and `interrupted`: a run cancelled
  while active is still being torn down, an unknown write or a storage fault
  outranks the cancellation, and a late `persistUsage` can put a finished row
  back to `running` (`late_tool`).
* `NoLaunchOverUnknownWrite` is about every unknown write but the lapsed ones.
  Without that exemption it is false, without any fault: `acknowledgeReconciliation`
  looks at the queue once. A write may become unknown and be let go between the
  request and the check (its run leaves the queue in time, and the UPDATE takes
  its row), or between the check and the clearing (its run was admitted in the
  meantime). In both, the operator had not seen it, and the next run is launched.
  What holds for the rest: no crash, fault, cancellation, restart or refused
  request lets a write go.
* `VerifiedHistory` exempts the case where a second fault hits the two writes
  that should have quarantined the run: the row then stays as it was, but the
  process is in quarantine and starts no run. Once the operator has acknowledged
  it (`acknowledgeReconciliation` rewrites interrupted rows only and lifts the
  quarantine) that row stands unverified; the property names `acks` for this.
* `ImplementsOutcome` is about rows that claim an outcome. A row of a cancelled or
  interrupted run is *settled* whatever a late tool writes into it (`late_tool`).
* `StreamEndsAfterCommit` is about runs whose executor owned the conclusion.
  Runs concluded without it are the subject of `stream_conclusion`.
* `LostEventsQuarantine` speaks of what the parent's commit concludes about the
  children; a parent that finishes `blocked` may leave them unfinished.
* `EnabledIsRegistered` exempts an enable that failed behind its UPDATE: the row
  then says enabled and the rule is not registered until the next boot.
* `HonestFinishVerifies` is about scans in which no write failed and the two
  callers of `persist` never met; see section 6.
* `NeverReplayed` compares the states decisions were bound to. The live page may
  change between the re-reading and the dispatch, so the state an act really met
  can be one it met before.
* `SealedLogFinal` counts the facts of the run's own session. A child's requests
  are facts of the child's run.

## 6. Disagreements found while modelling

* **A late tool undoes a cancellation** (`late_tool`). `docs/execution-engine.md`
  says that a run whose cancellation was accepted first ends as cancelled if no
  unknown write is left. The teardown awaits the running tool only for delegated
  runs. A tool past its last guard still appends its events and runs
  `persistUsage`, an unconditional UPDATE to `running`: after the commit it
  leaves a row that says a finished run is running, within the commit it makes
  the verification fail and the run `interrupted`.
* **A stream can end before the conclusion** (`stream_conclusion`). A run that is
  cancelled while queued has a terminal row before it has its event, and is not
  active; a stream polling in between sends `done` without `run:cancelled`.
* **Reconciling under a queued run** (`reconcile_race`). The pending set is read
  before the awaited UPDATE and not again, so a run can be admitted before the
  quarantine is lifted, against the message of the check. If that run aborts an
  action and commits before the UPDATE returns, the quarantine it raised is lifted
  too and the next run is launched over its unknown write, although
  `docs/api.md:37` lets a reconciliation lift the block only after the side
  effects were verified.

Behaviours the models have and no run is about:

* `src/rules/proposal.ts:162` calls enabled revisions immutable. The status is
  read before the awaits and written without a condition, so a rejection or a
  validation that began earlier overwrites an enabled row; the rule stays
  registered until the next boot. It was approved once (`RegisteredWasApproved`).
* `src/execution/inspection-host.ts:198` leaves the serialization of `persist` to
  the executor. The tail of the network boundary calls it outside the chain of
  tools. When the two overlap, events are written twice, the counter passes what
  was written, later events are skipped, and an honest finish fails its own
  verification (`inspection-proof-scope-mismatch`). `overlapped` marks it.
* The integrity module asks for interventions to be stamped synchronously before
  an outcome is used. A refusal of the boundary is stamped later, on the tail; the
  finish is safe because it flushes the tail before it reads the epoch.
* The freeze of the rule configuration is looked at when a request arrives. An
  enable that is on its way when a lease is granted registers its rule under the
  evaluation.
* The event stream goes on polling for a run that stays `running` in its row:
  one whose late tool reset the row (`late_tool`), or whose cancellation failed
  before it was launched.

## 7. Not modelled, and the plan

Left out for good: what a browser shows and what is measured from it (layout,
images, focus, popups), prompts, context and rankings for the model, business
adapters, reports, the workbench, experiments, the evaluation harness and the
arenas. They are pure functions of large data or sequential inside one tool.
They are also most of the repository's lines, so what is modelled is a small share
of them: the concurrent core.

Of the modelled components these parts are out: findings, hypotheses and
artifacts as rows (they hold no state of a run's life); what each tool observes;
the browser context and the child run inside a delegated check; artifact hashes in
the children's report; redirects, bodies and byte budgets of the network; facets,
required checks and evidence files of the ledger; phases and task state beyond
the latch of the finalizing phase; links and strategies of the exploration.

What could follow:

1. **A child run under a delegated check**: `RunLifecycle` and `NetworkBoundary`
   of the child inside the handler of `CheckTasks`.
2. **Exploration over several addresses**, with links, boundaries and the
   frontier's report.
3. **The product path and its reuse** (`src/execution/product-path.ts`,
   `src/execution/path-reuse/runner.ts`): plan, bind, act and measure as one recorded
   protocol. It is serialised inside a run, so it adds a protocol and no
   interleaving.
