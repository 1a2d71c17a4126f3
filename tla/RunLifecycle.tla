---------------------------- MODULE RunLifecycle ----------------------------
(***************************************************************************)
(* The life of inspection runs inside one ui-sentinel process: the serial  *)
(* run queue and its per-run gate (src/execution/run-queue.ts), the run    *)
(* rows and the event log (run-manager.ts), the executor from claim to     *)
(* terminal commit (executor.ts), cancellation requests, the operator's    *)
(* reconciliation, storage faults, and crash and restart.                  *)
(*                                                                         *)
(* One step is what happens between two awaits: every database statement   *)
(* is a step of its own, so anything that the event loop may interleave    *)
(* with it does.                                                           *)
(***************************************************************************)
EXTENDS Naturals, Sequences, FiniteSets

CONSTANTS
  Runs,        (* run identifiers                                          *)
  Cancels,     (* POST /api/runs/:id/cancel requests, each sent once       *)
  Target,      (* the run each cancel request names                        *)
  MaxTools,    (* bound: tools each run may execute                        *)
  MaxUpsets,   (* bound: storage faults and crashes together               *)
  MaxAcks      (* bound: reconcile requests of the operator                *)

ASSUME RunConstants ==
  /\ Target \in [Cancels -> Runs]
  /\ "exec" \notin Cancels
  /\ MaxTools \in [Runs -> Nat]
  /\ MaxUpsets \in Nat /\ MaxAcks \in Nat

VARIABLES
  (* durable *)
  row,         (* runs table: [status, stop] per run                       *)
  log,         (* run_events: the sequence of event types per run          *)
  (* memory of the process *)
  boot,        (* "up" while serving, "down" from a crash to serve()       *)
  marked,      (* rows marked interrupted whose event is not yet appended  *)
  quarantine,  (* requiresReconciliation                                   *)
  gate,        (* lifecycleTails: FIFO per run, its head is inside         *)
  owners,      (* terminalOwners                                           *)
  requests,    (* cancellationRequests                                     *)
  queue,       (* pending, in the order of the promise chain `tail`        *)
  active,      (* activeRuns: "none", or the state of the abort signal     *)
  told,        (* active.eventIds: how many appends were acknowledged      *)
  exec,        (* where executeRun of each run stands                      *)
  stop,        (* stopReason of the executor                               *)
  effect,      (* sideEffectPending                                        *)
  tool,        (* where the run's tool (one at a time) stands              *)
  call,        (* where each cancel request stands                         *)
  ack,         (* where the operator's reconcile request stands            *)
  (* bounds and history *)
  upsets, acks,
  debt         (* a run's write of unknown outcome: "none", "open",        *)
               (* "asked" (the operator's request came after it), "lapsed" *)
               (* (let go by a request that came before it)                *)

durable == <<row, log>>
vars == <<row, log, boot, marked, quarantine, gate, owners, requests, queue,
          active, told, exec, stop, effect, tool, call, ack, upsets, acks,
          debt>>

-----------------------------------------------------------------------------
Terminal == {"completed", "blocked", "cancelled", "timed-out",
             "execution-error", "interrupted"}
Status == Terminal \cup {"absent", "queued", "running"}

Reasons == {"goal-reached", "blocked", "cancelled", "budget-exhausted",
            "reconciliation-required", "finish-incomplete",
            "configuration-missing", "execution-error"}

(* Mutant: reasons without a case of their own are stored as they are. *)
StatusUnmapped(reason) == IF reason = "goal-reached" THEN "completed" ELSE reason

(* The status the executor stores for a stop reason. *)
StatusOf(reason) ==
  CASE reason = "goal-reached" -> "completed"
    [] reason \in {"blocked", "finish-incomplete"} -> "blocked"
    [] reason = "cancelled" -> "cancelled"
    [] reason = "budget-exhausted" -> "timed-out"
    [] reason = "reconciliation-required" -> "interrupted"
    [] OTHER -> "execution-error"

(* A missing model configuration is stored as an execution error. *)
StoredReason(reason) ==
  IF reason = "configuration-missing" THEN "execution-error" ELSE reason

Signals == {"none", "live", "cancelled", "budget-exhausted", "tool-timeout",
            "reconciliation-required", "execution-error", "run-ended"}
Aborted(r) == active[r] \notin {"none", "live"}
Live(r) == active[r] = "live"

Pending == {queue[i] : i \in 1..Len(queue)}

(* withRunLifecycle: wait in line, be inside when at the head, leave. *)
Enter(r, who) == gate' = [gate EXCEPT ![r] = Append(@, who)]
Inside(r, who) == gate[r] # << >> /\ Head(gate[r]) = who
Leave(r) == gate' = [gate EXCEPT ![r] = Tail(@)]

(* updateRunStatus is one UPDATE with no guard on the old status. *)
Store(r, status, reason) == row' = [row EXCEPT ![r] = [status |-> status, stop |-> reason]]
StoreRunning(r) == row' = [row EXCEPT ![r].status = "running"]

(* appendEvent: the next sequence number; an active run retains the id. *)
Record(r, type) ==
  /\ log' = [log EXCEPT ![r] = Append(@, type)]
  /\ told' = [told EXCEPT ![r] = IF active[r] = "none" THEN @ ELSE @ + 1]

Abort(r, reason) ==
  active' = [active EXCEPT ![r] = IF @ = "live" THEN reason ELSE @]

Has(r, type) == \E i \in DOMAIN log[r] : log[r][i] = type
At(r, pc) == boot = "up" /\ exec[r] = pc
Goto(r, pc) == exec' = [exec EXCEPT ![r] = pc]

Init ==
  /\ row = [r \in Runs |-> [status |-> "absent", stop |-> "none"]]
  /\ log = [r \in Runs |-> << >>]
  /\ boot = "up" /\ marked = {}
  /\ quarantine = FALSE
  /\ gate = [r \in Runs |-> << >>]
  /\ owners = {} /\ requests = {} /\ queue = << >>
  /\ active = [r \in Runs |-> "none"]
  /\ told = [r \in Runs |-> 0]
  /\ exec = [r \in Runs |-> "absent"]
  /\ stop = [r \in Runs |-> "budget-exhausted"]
  /\ effect = [r \in Runs |-> FALSE]
  /\ tool = [r \in Runs |-> "idle"]
  /\ call = [c \in Cancels |-> "idle"]
  /\ ack = [pc |-> "idle", rows |-> {}]
  /\ upsets = 0 /\ acks = 0
  /\ debt = [r \in Runs |-> "none"]

-----------------------------------------------------------------------------
(* Admission: the route inserts the row, then hands the run to the queue.  *)

CreateRun(r) ==
  /\ At(r, "absent")
  /\ Store(r, "queued", "none")
  /\ Goto(r, "created")
  /\ UNCHANGED <<log, boot, marked, quarantine, gate, owners, requests, queue,
                 active, told, stop, effect, tool, call, ack, upsets, acks, debt>>

StartRunExecution(r) ==
  /\ At(r, "created")
  /\ queue' = Append(queue, r)
  /\ Goto(r, "queued")
  /\ UNCHANGED <<row, log, boot, marked, quarantine, gate, owners, requests,
                 active, told, stop, effect, tool, call, ack, upsets, acks, debt>>

(* Mutant: a run starts without waiting for the one before it. *)
ExecuteRunUnchained(r) ==
  /\ At(r, "queued")
  /\ Enter(r, "exec")
  /\ Goto(r, "claim")
  /\ UNCHANGED <<row, log, boot, marked, quarantine, owners, requests, queue,
                 active, told, stop, effect, tool, call, ack, upsets, acks, debt>>

(* The promise chain runs executeRun of the oldest pending run; it asks    *)
(* for the gate before it reads anything.                                  *)
ExecuteRun(r) ==
  /\ At(r, "queued")
  /\ queue # << >> /\ Head(queue) = r
  /\ Enter(r, "exec")
  /\ Goto(r, "claim")
  /\ UNCHANGED <<row, log, boot, marked, quarantine, owners, requests, queue,
                 active, told, stop, effect, tool, call, ack, upsets, acks, debt>>

(* Mutant: the claim trusts that the run is still waiting. *)
ClaimableUnchecked(r) == r \in Runs

Claimable(r) == row[r].status = "queued" /\ r \notin requests

ClaimRefused(r) ==
  /\ At(r, "claim") /\ Inside(r, "exec")
  /\ ~Claimable(r)
  /\ Leave(r)
  /\ Goto(r, "finished")
  /\ UNCHANGED <<row, log, boot, marked, quarantine, owners, requests, queue,
                 active, told, stop, effect, tool, call, ack, upsets, acks, debt>>

(* Quarantine, missing configuration and an invalid kind or contract end   *)
(* the run before it is active; only the last records execution:stopped.   *)
ClaimEndsEarly(r) ==
  /\ At(r, "claim") /\ Inside(r, "exec")
  /\ Claimable(r)
  /\ \/ /\ quarantine
        /\ stop' = [stop EXCEPT ![r] = "reconciliation-required"]
        /\ Goto(r, "early-row")
     \/ /\ ~quarantine
        /\ stop' = [stop EXCEPT ![r] = "configuration-missing"]
        /\ Goto(r, "early-row")
     \/ /\ ~quarantine
        /\ stop' = [stop EXCEPT ![r] = "execution-error"]
        /\ Goto(r, "early-stopped")
  /\ UNCHANGED <<row, log, boot, marked, quarantine, gate, owners, requests, queue,
                 active, told, effect, tool, call, ack, upsets, acks, debt>>

EarlyStopped(r) ==
  /\ At(r, "early-stopped")
  /\ Record(r, "execution:stopped")
  /\ Goto(r, "early-row")
  /\ UNCHANGED <<row, boot, marked, quarantine, gate, owners, requests, queue,
                 active, stop, effect, tool, call, ack, upsets, acks, debt>>

EarlyRow(r) ==
  /\ At(r, "early-row")
  /\ Store(r, StatusOf(stop[r]), StoredReason(stop[r]))
  /\ Goto(r, "early-event")
  /\ UNCHANGED <<log, boot, marked, quarantine, gate, owners, requests, queue,
                 active, told, stop, effect, tool, call, ack, upsets, acks, debt>>

(* Mutant: the early return keeps the gate. *)
EarlyEventHolding(r) ==
  /\ At(r, "early-event")
  /\ Record(r, IF stop[r] = "configuration-missing" THEN "run:error" ELSE "run:completed")
  /\ Goto(r, "finished")
  /\ UNCHANGED <<row, boot, marked, quarantine, gate, owners, requests, queue,
                 active, stop, effect, tool, call, ack, upsets, acks, debt>>

EarlyEvent(r) ==
  /\ At(r, "early-event")
  /\ Record(r, IF stop[r] = "configuration-missing" THEN "run:error" ELSE "run:completed")
  /\ Leave(r)
  /\ Goto(r, "finished")
  /\ UNCHANGED <<row, boot, marked, quarantine, owners, requests, queue,
                 active, stop, effect, tool, call, ack, upsets, acks, debt>>

ClaimActive(r) ==
  /\ At(r, "claim") /\ Inside(r, "exec")
  /\ Claimable(r) /\ ~quarantine
  /\ active' = [active EXCEPT ![r] = "live"]
  /\ Leave(r)
  /\ Goto(r, "starting")
  /\ UNCHANGED <<row, log, boot, marked, quarantine, owners, requests, queue,
                 told, stop, effect, tool, call, ack, upsets, acks, debt>>

-----------------------------------------------------------------------------
(* The executor's main loop.                                               *)

StartRow(r) ==
  /\ At(r, "starting") /\ Live(r)
  /\ StoreRunning(r)
  /\ Goto(r, "announcing")
  /\ UNCHANGED <<log, boot, marked, quarantine, gate, owners, requests, queue,
                 active, told, stop, effect, tool, call, ack, upsets, acks, debt>>

(* No guard stands between the row and its event. *)
StartEvent(r) ==
  /\ At(r, "announcing")
  /\ Record(r, "run:started")
  /\ Goto(r, "launching")
  /\ UNCHANGED <<row, boot, marked, quarantine, gate, owners, requests, queue,
                 active, stop, effect, tool, call, ack, upsets, acks, debt>>

(* Mutant: the guard before the launch is dropped. *)
LaunchBrowserUnguarded(r) ==
  /\ At(r, "launching")
  /\ Goto(r, "working")
  /\ UNCHANGED <<row, log, boot, marked, quarantine, gate, owners, requests, queue,
                 active, told, stop, effect, tool, call, ack, upsets, acks, debt>>

LaunchBrowser(r) ==
  /\ At(r, "launching") /\ Live(r)
  /\ Goto(r, "working")
  /\ UNCHANGED <<row, log, boot, marked, quarantine, gate, owners, requests, queue,
                 active, told, stop, effect, tool, call, ack, upsets, acks, debt>>

ToolsRun(r) == Cardinality({i \in DOMAIN log[r] : log[r][i] = "tool:finished"})

Tool(r, from, to) ==
  /\ boot = "up"
  /\ tool[r] = from
  /\ tool' = [tool EXCEPT ![r] = to]

(* serial(): a tool starts behind guard(), never after the run was aborted. *)
StartTool(r) ==
  /\ At(r, "working") /\ Live(r) /\ ToolsRun(r) < MaxTools[r]
  /\ Tool(r, "idle", "dispatching")
  /\ UNCHANGED <<row, log, boot, marked, quarantine, gate, owners, requests, queue,
                 active, told, exec, stop, effect, call, ack, upsets, acks, debt>>

(* A business click reserves the unknown outcome before it is dispatched. *)
DispatchWrite(r) ==
  /\ Tool(r, "dispatching", "dispatching")
  /\ Live(r) /\ ~effect[r]
  /\ effect' = [effect EXCEPT ![r] = TRUE]
  /\ debt' = [debt EXCEPT ![r] = "open"]
  /\ UNCHANGED <<row, log, boot, marked, quarantine, gate, owners, requests, queue,
                 active, told, exec, stop, call, ack, upsets, acks>>

(* Writes and responses drained, then the last guard of the action. *)
SettleAction(r) ==
  /\ Tool(r, "dispatching", "recording")
  /\ Live(r)
  /\ effect' = [effect EXCEPT ![r] = FALSE]
  /\ debt' = [debt EXCEPT ![r] = IF effect[r] THEN "none" ELSE @]
  /\ UNCHANGED <<row, log, boot, marked, quarantine, gate, owners, requests, queue,
                 active, told, exec, stop, call, ack, upsets, acks>>

(* An error before or after the write settled (a refused write, a denied   *)
(* navigation, a rejected statement), or the page closed under the tool:   *)
(* the attempt is recorded, an unknown write aborts the run, a failed UI   *)
(* dispatch does too, and a failed business action goes on.                *)
FailAction(r) ==
  /\ Tool(r, "dispatching", "closing") \/ Tool(r, "recording", "closing")
  /\ Record(r, "action:failed")
  /\ IF effect[r] THEN Abort(r, "reconciliation-required")
     ELSE UNCHANGED active \/ (Live(r) /\ Abort(r, "execution-error"))
  /\ UNCHANGED <<row, boot, marked, quarantine, gate, owners, requests, queue,
                 exec, stop, effect, call, ack, upsets, acks, debt>>

(* The rest of the tool has no guard: it goes on after an abort. *)
RecordAction(r) ==
  /\ Tool(r, "recording", "persisting")
  /\ Record(r, "action:completed")
  /\ UNCHANGED <<row, boot, marked, quarantine, gate, owners, requests, queue,
                 active, exec, stop, effect, call, ack, upsets, acks, debt>>

PersistUsage(r) ==
  /\ Tool(r, "persisting", "closing")
  /\ StoreRunning(r)
  /\ UNCHANGED <<log, boot, marked, quarantine, gate, owners, requests, queue,
                 active, told, exec, stop, effect, call, ack, upsets, acks, debt>>

FinishTool(r) ==
  /\ Tool(r, "closing", "idle")
  /\ Record(r, "tool:finished")
  /\ UNCHANGED <<row, boot, marked, quarantine, gate, owners, requests, queue,
                 active, exec, stop, effect, call, ack, upsets, acks, debt>>

(* run_finish: accepted behind a guard with no write outstanding, then     *)
(* recorded whatever happens to the run meanwhile.                         *)
AcceptFinish(r) ==
  /\ At(r, "working") /\ Live(r) /\ ~effect[r]
  /\ Tool(r, "idle", "finishing")
  /\ UNCHANGED <<row, log, boot, marked, quarantine, gate, owners, requests, queue,
                 active, told, exec, stop, effect, call, ack, upsets, acks, debt>>

RecordFinish(r) ==
  /\ Tool(r, "finishing", "finished")
  /\ Record(r, "finish:accepted")
  /\ UNCHANGED <<row, boot, marked, quarantine, gate, owners, requests, queue,
                 active, exec, stop, effect, call, ack, upsets, acks, debt>>

(* The deadline timer and a tool's own timer abort the whole run. *)
RunTimeout(r) ==
  /\ boot = "up" /\ Live(r)
  /\ exec[r] \in {"starting", "announcing", "launching", "working", "stopping"}
  /\ Abort(r, "budget-exhausted")
  /\ UNCHANGED <<row, log, boot, marked, quarantine, gate, owners, requests, queue, told,
                 exec, stop, effect, tool, call, ack, upsets, acks, debt>>

ToolTimeout(r) ==
  /\ boot = "up" /\ Live(r)
  /\ tool[r] \notin {"idle", "finished"}
  /\ Abort(r, "tool-timeout")
  /\ UNCHANGED <<row, log, boot, marked, quarantine, gate, owners, requests, queue, told,
                 exec, stop, effect, tool, call, ack, upsets, acks, debt>>

-----------------------------------------------------------------------------
(* Leaving the loop, tearing down, and the terminal commit.                *)

(* The loop tests `finished` after an await that no guard follows. *)
LeaveFinished(r) ==
  /\ At(r, "working") /\ tool[r] = "finished"
  /\ \E reason \in {"goal-reached", "blocked"} : stop' = [stop EXCEPT ![r] = reason]
  /\ Goto(r, "teardown")
  /\ UNCHANGED <<row, log, boot, marked, quarantine, gate, owners, requests, queue,
                 active, told, effect, tool, call, ack, upsets, acks, debt>>

(* Mutant: the loop ends by itself while a tool is still at work. *)
LeaveIncompleteEarly(r) ==
  /\ At(r, "working") /\ Live(r)
  /\ stop' = [stop EXCEPT ![r] = "finish-incomplete"]
  /\ Goto(r, "teardown")
  /\ UNCHANGED <<row, log, boot, marked, quarantine, gate, owners, requests, queue,
                 active, told, effect, tool, call, ack, upsets, acks, debt>>

LeaveIncomplete(r) ==
  /\ At(r, "working") /\ Live(r) /\ tool[r] = "idle"
  /\ stop' = [stop EXCEPT ![r] = "finish-incomplete"]
  /\ Goto(r, "teardown")
  /\ UNCHANGED <<row, log, boot, marked, quarantine, gate, owners, requests, queue,
                 active, told, effect, tool, call, ack, upsets, acks, debt>>

(* The catch block's precedence; the deadline may have fired after another *)
(* abort, and then it names the stop.                                      *)
CaughtReasons(r) ==
  IF effect[r] \/ active[r] = "reconciliation-required" THEN {"reconciliation-required"}
  ELSE IF active[r] = "budget-exhausted" THEN {"budget-exhausted"}
  ELSE IF active[r] = "cancelled" THEN {"cancelled", "budget-exhausted"}
  ELSE IF Aborted(r) THEN {"execution-error", "budget-exhausted"}
  ELSE {"execution-error"}

(* guard() and the abortable model request throw once the run is aborted,  *)
(* without waiting for the tool; anything else may throw too, a spent      *)
(* budget by its own name.                                                 *)
Throw(r) ==
  /\ boot = "up"
  /\ \/ exec[r] \in {"starting", "launching", "working"} /\ Aborted(r)
     \/ exec[r] \in {"launching", "working"} /\ Live(r) /\ tool[r] = "idle"
  /\ \/ \E reason \in CaughtReasons(r) : stop' = [stop EXCEPT ![r] = reason]
     \/ Live(r) /\ ~effect[r] /\ stop' = [stop EXCEPT ![r] = "budget-exhausted"]
  /\ Goto(r, "stopping")
  /\ UNCHANGED <<row, log, boot, marked, quarantine, gate, owners, requests, queue,
                 active, told, effect, tool, call, ack, upsets, acks, debt>>

RecordStopped(r) ==
  /\ At(r, "stopping")
  /\ Record(r, "execution:stopped")
  /\ Goto(r, "teardown")
  /\ UNCHANGED <<row, boot, marked, quarantine, gate, owners, requests, queue,
                 active, stop, effect, tool, call, ack, upsets, acks, debt>>

Teardown(r) ==
  /\ At(r, "teardown")
  /\ Abort(r, "run-ended")
  /\ Goto(r, "closing")
  /\ UNCHANGED <<row, log, boot, marked, quarantine, gate, owners, requests, queue, told,
                 stop, effect, tool, call, ack, upsets, acks, debt>>

(* Resources are closed; toolTail is awaited for delegated runs only. The  *)
(* proposal is fixed when commitRun is called, before its gate opens.      *)
ProposeTerminal(r) ==
  /\ At(r, "closing")
  /\ stop' = [stop EXCEPT ![r] = IF effect[r] THEN "reconciliation-required" ELSE @]
  /\ Enter(r, "exec")
  /\ Goto(r, "commit")
  /\ UNCHANGED <<row, log, boot, marked, quarantine, owners, requests, queue,
                 active, told, effect, tool, call, ack, upsets, acks, debt>>

(* Child tasks or the account owner could not be closed durably. *)
CloseFails(r) ==
  /\ At(r, "closing")
  /\ upsets < MaxUpsets /\ upsets' = upsets + 1
  /\ quarantine' = TRUE
  /\ stop' = [stop EXCEPT ![r] = "reconciliation-required"]
  /\ Enter(r, "exec")
  /\ Goto(r, "commit")
  /\ UNCHANGED <<row, log, boot, marked, owners, requests, queue,
                 active, told, effect, tool, call, ack, acks, debt>>

(* Mutant: what the executor proposes outranks an accepted cancellation. *)
ProposedReason(r) == stop[r]

(* The single ordering point: an unknown write outranks an accepted        *)
(* cancellation, which outranks whatever the executor proposes.            *)
CommittedReason(r) ==
  IF stop[r] = "reconciliation-required" THEN stop[r]
  ELSE IF r \in requests THEN "cancelled" ELSE stop[r]

CommitRun(r) ==
  /\ At(r, "commit") /\ Inside(r, "exec")
  /\ r \notin owners
  /\ owners' = owners \cup {r}
  /\ stop' = [stop EXCEPT ![r] = CommittedReason(r)]
  /\ quarantine' = (quarantine \/ CommittedReason(r) = "reconciliation-required")
  /\ Goto(r, "commit-row")
  /\ UNCHANGED <<row, log, boot, marked, gate, requests, queue,
                 active, told, effect, tool, call, ack, upsets, acks, debt>>

CommitRow(r) ==
  /\ At(r, "commit-row")
  /\ Store(r, StatusOf(stop[r]), stop[r])
  /\ Goto(r, "commit-event")
  /\ UNCHANGED <<log, boot, marked, quarantine, gate, owners, requests, queue,
                 active, told, stop, effect, tool, call, ack, upsets, acks, debt>>

CommitEvent(r) ==
  /\ At(r, "commit-event")
  /\ Record(r, "run:completed")
  /\ Goto(r, "commit-statistics")
  /\ UNCHANGED <<row, boot, marked, quarantine, gate, owners, requests, queue,
                 active, stop, effect, tool, call, ack, upsets, acks, debt>>

CommitStatistics(r) ==
  /\ At(r, "commit-statistics")
  /\ Record(r, "run:statistics")
  /\ Goto(r, "verify")
  /\ UNCHANGED <<row, boot, marked, quarantine, gate, owners, requests, queue,
                 active, stop, effect, tool, call, ack, upsets, acks, debt>>

(* Mutant: the retained events are not compared with the log. *)
VerifiedTail(r) ==
  /\ row[r] = [status |-> StatusOf(stop[r]), stop |-> stop[r]]
  /\ log[r] # << >> /\ log[r][Len(log[r])] = "run:statistics"

(* verifyCompletionCommit: the row, every retained event, and the tail. *)
Verified(r) ==
  /\ row[r] = [status |-> StatusOf(stop[r]), stop |-> stop[r]]
  /\ Len(log[r]) = told[r]
  /\ log[r] # << >> /\ log[r][Len(log[r])] = "run:statistics"
  /\ Has(r, "run:completed")
  /\ stop[r] \in {"goal-reached", "blocked"} => Has(r, "finish:accepted")

VerifyCommit(r) ==
  /\ At(r, "verify")
  /\ IF Verified(r)
     THEN /\ active' = [active EXCEPT ![r] = "none"]
          /\ Leave(r)
          /\ Goto(r, "finished")
          /\ UNCHANGED quarantine
     ELSE /\ quarantine' = TRUE
          /\ Goto(r, "quarantine-row")
          /\ UNCHANGED <<active, gate>>
  /\ UNCHANGED <<row, log, boot, marked, owners, requests, queue, told,
                 stop, effect, tool, call, ack, upsets, acks, debt>>

QuarantineRow(r) ==
  /\ At(r, "quarantine-row")
  /\ Store(r, "interrupted", "reconciliation-required")
  /\ Goto(r, "quarantine-event")
  /\ UNCHANGED <<log, boot, marked, quarantine, gate, owners, requests, queue,
                 active, told, stop, effect, tool, call, ack, upsets, acks, debt>>

QuarantineEvent(r) ==
  /\ At(r, "quarantine-event")
  /\ Record(r, "run:storage-inconsistent")
  /\ active' = [active EXCEPT ![r] = "none"]
  /\ Leave(r)
  /\ Goto(r, "finished")
  /\ UNCHANGED <<row, boot, marked, quarantine, owners, requests, queue,
                 stop, effect, tool, call, ack, upsets, acks, debt>>

(* .finally of the queue: the run leaves pending, its request is dropped. *)
Dequeue(r) ==
  /\ At(r, "finished")
  /\ queue' = Tail(queue)
  /\ requests' = requests \ {r}
  /\ Goto(r, "gone")
  /\ UNCHANGED <<row, log, boot, marked, quarantine, gate, owners, active, told,
                 stop, effect, tool, call, ack, upsets, acks, debt>>

-----------------------------------------------------------------------------
(* Cancellation.                                                           *)

Calling(c, from, to) ==
  /\ boot = "up"
  /\ call[c] = from
  /\ call' = [call EXCEPT ![c] = to]

(* The route reads the row; a terminal run is refused at once. The answer  *)
(* may be stale by the time the request gets in line.                      *)
CancelRoute(c) ==
  LET status == row[Target[c]].status IN
  /\ status # "absent"
  /\ Calling(c, "idle", IF status \in Terminal THEN "refused" ELSE "routed")
  /\ UNCHANGED <<row, log, boot, marked, quarantine, gate, owners, requests, queue,
                 active, told, exec, stop, effect, tool, ack, upsets, acks, debt>>

CancelEnter(c) ==
  /\ Calling(c, "routed", "waiting")
  /\ Enter(Target[c], c)
  /\ UNCHANGED <<row, log, boot, marked, quarantine, owners, requests, queue,
                 active, told, exec, stop, effect, tool, ack, upsets, acks, debt>>

Cancellable(r) == r \notin owners /\ row[r].status \in {"queued", "running"}

CancelRefused(c) ==
  /\ Inside(Target[c], c)
  /\ ~Cancellable(Target[c])
  /\ Calling(c, "waiting", "refused")
  /\ Leave(Target[c])
  /\ UNCHANGED <<row, log, boot, marked, quarantine, owners, requests, queue,
                 active, told, exec, stop, effect, tool, ack, upsets, acks, debt>>

CancelAgain(c) ==
  /\ Inside(Target[c], c)
  /\ Cancellable(Target[c]) /\ Target[c] \in requests
  /\ Calling(c, "waiting", "accepted")
  /\ Leave(Target[c])
  /\ UNCHANGED <<row, log, boot, marked, quarantine, owners, requests, queue,
                 active, told, exec, stop, effect, tool, ack, upsets, acks, debt>>

(* Mutant: a repeated request is recorded again. *)
CancelDecidedAgain(c) ==
  /\ Inside(Target[c], c)
  /\ Cancellable(Target[c])
  /\ Calling(c, "waiting", "persisting")
  /\ UNCHANGED <<row, log, boot, marked, quarantine, gate, owners, requests, queue,
                 active, told, exec, stop, effect, tool, ack, upsets, acks, debt>>

CancelDecided(c) ==
  /\ Inside(Target[c], c)
  /\ Cancellable(Target[c]) /\ Target[c] \notin requests
  /\ Calling(c, "waiting", "persisting")
  /\ UNCHANGED <<row, log, boot, marked, quarantine, gate, owners, requests, queue,
                 active, told, exec, stop, effect, tool, ack, upsets, acks, debt>>

(* Durable first, then remembered; an active run is aborted, a queued one  *)
(* is ended here.                                                          *)
CancelPersist(c) ==
  LET r == Target[c] IN
  /\ \/ /\ active[r] # "none"
        /\ Calling(c, "persisting", "accepted")
        /\ Abort(r, "cancelled")
        /\ Leave(r)
     \/ /\ active[r] = "none"
        /\ Calling(c, "persisting", "row")
        /\ UNCHANGED <<active, gate>>
  /\ Record(r, "run:cancel-requested")
  /\ requests' = requests \cup {r}
  /\ UNCHANGED <<row, boot, marked, quarantine, owners, queue,
                 exec, stop, effect, tool, ack, upsets, acks, debt>>

CancelRow(c) ==
  /\ Calling(c, "row", "event")
  /\ Store(Target[c], "cancelled", "cancelled")
  /\ UNCHANGED <<log, boot, marked, quarantine, gate, owners, requests, queue,
                 active, told, exec, stop, effect, tool, ack, upsets, acks, debt>>

CancelEvent(c) ==
  /\ Calling(c, "event", "accepted")
  /\ Record(Target[c], "run:cancelled")
  /\ Leave(Target[c])
  /\ UNCHANGED <<row, boot, marked, quarantine, owners, requests, queue,
                 active, exec, stop, effect, tool, ack, upsets, acks, debt>>

-----------------------------------------------------------------------------
(* The operator's POST /api/evaluation/reconcile.                          *)

QuarantinedRows == {r \in Runs : row[r].stop = "reconciliation-required"}

(* The operator has verified what is unknown by now, and nothing later.     *)
ReconcileSelect ==
  /\ boot = "up" /\ ack.pc = "idle" /\ acks < MaxAcks
  /\ ack' = [pc |-> "check", rows |-> QuarantinedRows]
  /\ acks' = acks + 1
  /\ debt' = [r \in Runs |-> IF debt[r] = "open" THEN "asked" ELSE debt[r]]
  /\ UNCHANGED <<row, log, boot, marked, quarantine, gate, owners, requests, queue,
                 active, told, exec, stop, effect, tool, call, upsets>>

(* The request failed: what it asked about is open again.                  *)
Unasked == [r \in Runs |-> IF debt[r] = "asked" THEN "open" ELSE debt[r]]

(* acknowledgeReconciliation throws while anything is pending.  It does    *)
(* not look again: what follows acts on this answer.                       *)
ReconcileCheck ==
  /\ boot = "up" /\ ack.pc = "check"
  /\ IF queue = << >>
     THEN ack' = [ack EXCEPT !.pc = "update"] /\ UNCHANGED debt
     ELSE ack' = [pc |-> "idle", rows |-> {}] /\ debt' = Unasked
  /\ UNCHANGED <<row, log, boot, marked, quarantine, gate, owners, requests, queue,
                 active, told, exec, stop, effect, tool, call, upsets, acks>>

(* The UPDATE selects rows of its own: also one that came to need the       *)
(* operator after the request.                                             *)
ReconcileUpdate ==
  /\ boot = "up" /\ ack.pc = "update"
  /\ row' = [r \in Runs |->
               IF row[r] = [status |-> "interrupted", stop |-> "reconciliation-required"]
               THEN [row[r] EXCEPT !.stop = "queue-empty"] ELSE row[r]]
  /\ ack' = [ack EXCEPT !.pc = "clear"]
  /\ debt' = [r \in Runs |->
                IF debt[r] = "open" THEN IF row'[r] = row[r] THEN "open" ELSE "lapsed"
                ELSE "none"]
  /\ UNCHANGED <<log, boot, marked, quarantine, gate, owners, requests, queue,
                 active, told, exec, stop, effect, tool, call, upsets, acks>>

(* The flag is all that a commit has left of a later unknown write.         *)
ReconcileClear ==
  /\ boot = "up" /\ ack.pc = "clear"
  /\ quarantine' = FALSE
  /\ debt' = [r \in Runs |->
                IF debt[r] = "open" /\ r \in owners THEN "lapsed" ELSE debt[r]]
  /\ ack' = [ack EXCEPT !.pc = "record"]
  /\ UNCHANGED <<row, log, boot, marked, gate, owners, requests, queue,
                 active, told, exec, stop, effect, tool, call, upsets, acks>>

ReconcileRecord ==
  /\ boot = "up" /\ ack.pc = "record"
  /\ log' = [r \in Runs |-> IF r \in ack.rows THEN Append(log[r], "run:reconciled") ELSE log[r]]
  /\ told' = [r \in Runs |->
                IF r \in ack.rows /\ active[r] # "none" THEN told[r] + 1 ELSE told[r]]
  /\ ack' = [pc |-> "idle", rows |-> {}]
  /\ UNCHANGED <<row, boot, marked, quarantine, gate, owners, requests, queue,
                 active, exec, stop, effect, tool, call, upsets, acks, debt>>

-----------------------------------------------------------------------------
(* Storage faults, crash and restart.                                      *)

Upset == boot = "up" /\ upsets < MaxUpsets /\ upsets' = upsets + 1

(* A statement of the claim rejects: the gate opens, executeRun rejects. *)
ClaimFails(r) ==
  /\ exec[r] \in {"early-stopped", "early-row", "early-event"}
  /\ Upset
  /\ Leave(r)
  /\ Goto(r, "finished")
  /\ UNCHANGED <<row, log, boot, marked, quarantine, owners, requests, queue,
                 active, told, stop, effect, tool, call, ack, acks, debt>>

(* A statement of the main loop rejects, or the record of the stop does. *)
LoopFails(r) ==
  /\ exec[r] \in {"starting", "announcing", "stopping"}
  /\ Upset
  /\ \/ exec[r] = "stopping" /\ Goto(r, "teardown") /\ UNCHANGED stop
     \/ /\ exec[r] # "stopping"
        /\ Goto(r, "stopping")
        /\ \E reason \in CaughtReasons(r) : stop' = [stop EXCEPT ![r] = reason]
  /\ UNCHANGED <<row, log, boot, marked, quarantine, gate, owners, requests, queue,
                 active, told, effect, tool, call, ack, acks, debt>>

(* A statement of a tool rejects. A finish whose record is lost this way   *)
(* has already set `finished`, so the loop ends as if it were recorded.    *)
AfterToolFailure ==
  [persisting |-> "closing", closing |-> "idle", finishing |-> "finished"]

ToolFails(r) ==
  /\ tool[r] \in DOMAIN AfterToolFailure
  /\ Upset
  /\ tool' = [tool EXCEPT ![r] = AfterToolFailure[@]]
  /\ UNCHANGED <<row, log, boot, marked, quarantine, gate, owners, requests, queue,
                 active, told, exec, stop, effect, call, ack, acks, debt>>

(* A statement of the commit rejects: the catch block quarantines, and     *)
(* when that fails too the run is removed all the same.                    *)
CommitFails(r) ==
  /\ exec[r] \in {"commit-row", "commit-event", "commit-statistics", "verify",
                  "quarantine-row", "quarantine-event"}
  /\ Upset
  /\ quarantine' = TRUE
  /\ IF exec[r] \in {"quarantine-row", "quarantine-event"}
     THEN /\ active' = [active EXCEPT ![r] = "none"]
          /\ Leave(r)
          /\ Goto(r, "finished")
     ELSE /\ Goto(r, "quarantine-row")
          /\ UNCHANGED <<active, gate>>
  /\ UNCHANGED <<row, log, boot, marked, owners, requests, queue, told,
                 stop, effect, tool, call, ack, acks, debt>>

(* Mutant: the gate stays shut behind a rejected cancellation. *)
CancelFailsHolding(c) ==
  /\ call[c] \in {"persisting", "row", "event"}
  /\ Upset
  /\ call' = [call EXCEPT ![c] = "failed"]
  /\ UNCHANGED <<row, log, boot, marked, quarantine, gate, owners, requests, queue,
                 active, told, exec, stop, effect, tool, ack, acks, debt>>

(* A statement of the cancellation rejects: the caller gets an error. *)
CancelFails(c) ==
  /\ call[c] \in {"persisting", "row", "event"}
  /\ Upset
  /\ call' = [call EXCEPT ![c] = "failed"]
  /\ Leave(Target[c])
  /\ UNCHANGED <<row, log, boot, marked, quarantine, owners, requests, queue,
                 active, told, exec, stop, effect, tool, ack, acks, debt>>

(* The database loses the newest acknowledged event of an executing run. *)
LoseEvent(r) ==
  /\ Upset
  /\ active[r] # "none" /\ log[r] # << >>
  /\ log' = [log EXCEPT ![r] = SubSeq(@, 1, Len(@) - 1)]
  /\ UNCHANGED <<row, boot, marked, quarantine, gate, owners, requests, queue,
                 active, told, exec, stop, effect, tool, call, ack, acks, debt>>

Crash ==
  /\ upsets < MaxUpsets /\ upsets' = upsets + 1
  /\ boot' = "down" /\ marked' = {}
  /\ quarantine' = FALSE
  /\ gate' = [r \in Runs |-> << >>]
  /\ owners' = {} /\ requests' = {} /\ queue' = << >>
  /\ active' = [r \in Runs |-> "none"]
  /\ exec' = [r \in Runs |-> IF exec[r] = "absent" THEN "absent" ELSE "lost"]
  /\ effect' = [r \in Runs |-> FALSE]
  /\ tool' = [r \in Runs |-> "idle"]
  /\ call' = [c \in Cancels |->
                IF call[c] \in {"idle", "accepted", "refused"} THEN call[c] ELSE "failed"]
  /\ ack' = [pc |-> "idle", rows |-> {}]
  /\ debt' = Unasked
  /\ UNCHANGED <<row, log, told, stop, acks>>

(* reconcileInterruptedRuns, before serve(): row, then event, per run. *)
RestartRow(r) ==
  /\ boot = "down" /\ marked = {}
  /\ row[r].status \in {"queued", "running"}
  /\ Store(r, "interrupted", "reconciliation-required")
  /\ marked' = {r}
  /\ UNCHANGED <<log, boot, quarantine, gate, owners, requests, queue, active, told,
                 exec, stop, effect, tool, call, ack, upsets, acks, debt>>

RestartEvent(r) ==
  /\ boot = "down" /\ r \in marked
  /\ Record(r, "run:interrupted")
  /\ marked' = {}
  /\ UNCHANGED <<row, boot, quarantine, gate, owners, requests, queue, active,
                 exec, stop, effect, tool, call, ack, upsets, acks, debt>>

(* Mutant: the quarantine is not restored from the rows. *)
ServeOpen ==
  /\ boot = "down" /\ marked = {}
  /\ \A r \in Runs : row[r].status \notin {"queued", "running"}
  /\ boot' = "up"
  /\ quarantine' = FALSE
  /\ UNCHANGED <<row, log, marked, gate, owners, requests, queue, active, told,
                 exec, stop, effect, tool, call, ack, upsets, acks, debt>>

Serve ==
  /\ boot = "down" /\ marked = {}
  /\ \A r \in Runs : row[r].status \notin {"queued", "running"}
  /\ boot' = "up"
  /\ quarantine' = (QuarantinedRows # {})
  /\ UNCHANGED <<row, log, marked, gate, owners, requests, queue, active, told,
                 exec, stop, effect, tool, call, ack, upsets, acks, debt>>

-----------------------------------------------------------------------------
Admission(r) == CreateRun(r) \/ StartRunExecution(r)

Claim(r) ==
  \/ ExecuteRun(r) \/ ClaimRefused(r) \/ ClaimEndsEarly(r) \/ ClaimActive(r)
  \/ EarlyStopped(r) \/ EarlyRow(r) \/ EarlyEvent(r)

Loop(r) ==
  \/ StartRow(r) \/ StartEvent(r) \/ LaunchBrowser(r)
  \/ LeaveFinished(r) \/ LeaveIncomplete(r) \/ Throw(r) \/ RecordStopped(r)

ToolStep(r) ==
  \/ StartTool(r) \/ DispatchWrite(r) \/ SettleAction(r) \/ FailAction(r)
  \/ RecordAction(r) \/ PersistUsage(r) \/ FinishTool(r)
  \/ AcceptFinish(r) \/ RecordFinish(r)

Timers(r) == RunTimeout(r) \/ ToolTimeout(r)

Commit(r) ==
  \/ Teardown(r) \/ ProposeTerminal(r) \/ CommitRun(r) \/ CommitRow(r)
  \/ CommitEvent(r) \/ CommitStatistics(r) \/ VerifyCommit(r)
  \/ QuarantineRow(r) \/ QuarantineEvent(r) \/ Dequeue(r)

CancelStep(c) ==
  \/ CancelRoute(c) \/ CancelEnter(c) \/ CancelRefused(c) \/ CancelAgain(c)
  \/ CancelDecided(c) \/ CancelPersist(c) \/ CancelRow(c) \/ CancelEvent(c)

Reconcile ==
  \/ ReconcileSelect \/ ReconcileCheck \/ ReconcileUpdate \/ ReconcileClear \/ ReconcileRecord

RunFault(r) ==
  CloseFails(r) \/ ClaimFails(r) \/ LoopFails(r) \/ ToolFails(r) \/ CommitFails(r) \/ LoseEvent(r)

Restart == Serve \/ \E r \in Runs : RestartRow(r) \/ RestartEvent(r)

Next ==
  \/ \E r \in Runs : \/ Admission(r) \/ Claim(r) \/ Loop(r) \/ ToolStep(r)
                     \/ Timers(r) \/ Commit(r) \/ RunFault(r)
  \/ \E c \in Cancels : CancelStep(c) \/ CancelFails(c)
  \/ Reconcile \/ Crash \/ Restart

Spec == Init /\ [][Next]_vars

(* What the process does by itself: promise continuations, the deadline    *)
(* timer, the browser driver's own launch timeout.  An agent that never    *)
(* finishes, a tool that never returns, a client and an operator that      *)
(* never call again are all allowed.                                       *)
Progress(r) ==
  \/ Claim(r) \/ Commit(r)
  \/ StartRow(r) \/ StartEvent(r) \/ LaunchBrowser(r) \/ RecordStopped(r)
  \/ (Aborted(r) /\ Throw(r))
CancelProgress(c) ==
  \/ CancelEnter(c) \/ CancelRefused(c) \/ CancelAgain(c) \/ CancelDecided(c)
  \/ CancelPersist(c) \/ CancelRow(c) \/ CancelEvent(c)

Fairness ==
  /\ \A r \in Runs : WF_vars(Progress(r)) /\ WF_vars(RunTimeout(r))
  /\ \A c \in Cancels : WF_vars(CancelProgress(c))
  /\ WF_vars(Restart)

FairSpec == Spec /\ Fairness

-----------------------------------------------------------------------------
(* Properties.                                                             *)

ExecPcs == {"absent", "created", "queued", "claim", "early-stopped", "early-row",
            "early-event", "starting", "announcing", "launching", "working",
            "stopping", "teardown", "closing", "commit", "commit-row",
            "commit-event", "commit-statistics", "verify", "quarantine-row",
            "quarantine-event", "finished", "gone", "lost"}
ToolPcs == {"idle", "dispatching", "recording", "persisting", "closing",
            "finishing", "finished"}
CallPcs == {"idle", "routed", "waiting", "persisting", "row", "event",
            "accepted", "refused", "failed"}
EventTypes == {"run:started", "run:completed", "run:cancelled", "run:error",
               "run:cancel-requested", "run:interrupted", "run:reconciled",
               "run:statistics", "run:storage-inconsistent", "execution:stopped",
               "action:completed", "action:failed", "tool:finished", "finish:accepted"}
Stops == Reasons \cup {"none", "queue-empty"}
Debts == {"none", "open", "asked", "lapsed"}

(* Every variable has its type. *)
TypeOK ==
  /\ row \in [Runs -> [status : Status, stop : Stops]]
  /\ log \in [Runs -> Seq(EventTypes)]
  /\ boot \in {"up", "down"} /\ marked \subseteq Runs
  /\ quarantine \in BOOLEAN
  /\ gate \in [Runs -> Seq(Cancels \cup {"exec"})]
  /\ owners \subseteq Runs /\ requests \subseteq Runs /\ queue \in Seq(Runs)
  /\ active \in [Runs -> Signals]
  /\ told \in [Runs -> Nat]
  /\ exec \in [Runs -> ExecPcs]
  /\ stop \in [Runs -> Reasons]
  /\ effect \in [Runs -> BOOLEAN]
  /\ tool \in [Runs -> ToolPcs]
  /\ call \in [Cancels -> CallPcs]
  /\ ack \in [pc : {"idle", "check", "update", "clear", "record"}, rows : SUBSET Runs]
  /\ upsets \in Nat /\ acks \in Nat
  /\ debt \in [Runs -> Debts]

Accepted(r) == \E c \in Cancels : Target[c] = r /\ call[c] = "accepted"

(* A cancellation that was answered "accepted" is final: whatever the       *)
(* executor was about to conclude (a goal reached, a deadline, an error),   *)
(* the run's row never says so afterwards - commitRun orders the two.       *)
AcceptedCancelHonoured ==
  \A r \in Runs : Accepted(r) =>
    row[r].status \in {"queued", "running", "cancelled", "interrupted"}

TerminalEvents == {"run:completed", "run:cancelled", "run:error"}
Places(r, types) == {i \in DOMAIN log[r] : log[r][i] \in types}

(* A run is concluded once in its log, whether by an early refusal, by the  *)
(* cancellation of a queued run, or by the terminal commit, and through     *)
(* crashes: the gate, the owners and the restart exclude each other.        *)
ConcludedOnce == \A r \in Runs : Cardinality(Places(r, TerminalEvents)) <= 1

(* A request to cancel is never recorded after the run was concluded (a     *)
(* refused or late request leaves no trace), and without storage faults     *)
(* concurrent requests are recorded as one.                                 *)
CancelRecordOrdered ==
  \A r \in Runs :
    /\ \A i \in Places(r, {"run:cancel-requested"}), j \in Places(r, TerminalEvents) : i < j
    /\ upsets = 0 => Cardinality(Places(r, {"run:cancel-requested"})) <= 1

(* The queue is the only writer: at most one run is between its claim and   *)
(* the end of its commit, so a shared business is never driven twice.       *)
Executing == {r \in Runs : exec[r] \notin {"absent", "created", "queued", "gone", "lost"}}
SingleExecution == \A r, s \in Executing : r = s

Launches(r) == exec[r] = "launching" /\ exec'[r] = "working"

Owing(r) == debt[r] \in {"open", "asked"}

(* No browser is opened while a write of unknown outcome - left by an       *)
(* aborted action, a failed commit or a crash - awaits the operator, unless *)
(* it became unknown after the operator's request and the request let it    *)
(* go all the same (its row was rewritten, or the quarantine its commit had *)
(* raised was lifted): no crash, fault, cancellation or refused request     *)
(* lets go of any other.                                                    *)
NoLaunchOverUnknownWrite ==
  [][\A r \in Runs : Launches(r) => ~quarantine /\ \A s \in Runs : ~Owing(s)]_vars

(* No browser is opened for a run whose cancellation was accepted: the      *)
(* guard before the launch reads the signal that the request aborted.       *)
NoLaunchAfterCancel ==
  [][\A r \in Runs : Launches(r) => ~Accepted(r)]_vars

(* A run that left the queue as completed or blocked has its whole history  *)
(* in the log: every acknowledged event, the accepted finish of an agent    *)
(* that claimed one, and the terminal event.  A lost event is found by the  *)
(* verification of the commit; only a second fault, in the writes that      *)
(* should have quarantined the run, leaves such a row, and then the process *)
(* itself refuses to go on until the operator has acknowledged it.          *)
VerifiedHistory ==
  \A r \in Runs :
    exec[r] = "gone" /\ row[r].status \in {"completed", "blocked"}
      /\ (upsets <= 1 \/ (~quarantine /\ acks = 0)) =>
        /\ Has(r, "run:completed")
        /\ Len(log[r]) >= told[r]
        /\ row[r].stop # "finish-incomplete" => Has(r, "finish:accepted")

(* The outcome of a run as its client sees it: a claim of the agent's       *)
(* outcome in the row, kept once the run has left the queue or the process  *)
(* has died; a run behind its terminal row without one is settled.          *)
Claimed(r) == row[r].status \in {"completed", "blocked"}
Claims == {"goal-reached", "blocked", "finish-incomplete"}
AfterRow == {"commit-event", "commit-statistics", "verify", "quarantine-row",
             "quarantine-event", "finished", "gone", "lost"}
PhaseOf(r) ==
  IF Claimed(r) THEN IF exec[r] \in {"gone", "lost"} THEN "kept" ELSE "claimed"
  ELSE IF exec[r] \in AfterRow THEN "settled" ELSE "open"

Outcome == INSTANCE RunOutcome WITH
  phase <- [r \in Runs |-> PhaseOf(r)],
  claim <- [r \in Runs |-> IF Claimed(r) THEN row[r].stop ELSE "none"],
  accepted <- {r \in Runs : Accepted(r)}

(* Through late tools, timers, cancellations, faults, crashes and           *)
(* reconciliation, an outcome is claimed once and not after an accepted     *)
(* cancellation, withdrawn only by the commit that wrote it, and otherwise  *)
(* final: no late write of the run changes the row it left behind.          *)
ImplementsOutcome == Outcome!Spec

(* Every run handed to the queue leaves it, even if its agent never          *)
(* finishes, a tool hangs, or one storage statement fails on the way: a run *)
(* stuck at the head would hold every later one for ever.                   *)
QueueDrains == \A r \in Runs : (r \in Pending) ~> (r \notin Pending)

(* Every cancel request is answered: the gate is always released.           *)
CancelAnswered ==
  \A c \in Cancels : (call[c] = "routed") ~> (call[c] \in {"accepted", "refused", "failed"})

(* docs/execution-engine.md:210: when the cancellation is accepted first     *)
(* and there is no unknown business write (and no storage error, line 212), *)
(* the run ends as cancelled.                                               *)
CancelFirstEndsCancelled ==
  \A r \in Runs :
    Accepted(r) /\ exec[r] = "gone" /\ debt[r] = "none" /\ upsets = 0 =>
      row[r].status = "cancelled"

(* run-queue.ts:22: "cannot reconcile while tasks remain queued or active". *)
ReconcileOnlyWhenIdle ==
  [][ack.pc = "clear" /\ ack'.pc = "record" => queue = << >>]_vars
=============================================================================
