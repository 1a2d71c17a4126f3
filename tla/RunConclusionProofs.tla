------------------------ MODULE RunConclusionProofs ------------------------
(***************************************************************************)
(* What a run may still do after it was cancelled or concluded, for any    *)
(* runs, requests and bounds, through all faults, crashes and restarts.    *)
(*                                                                         *)
(* On the two exclusions of RunLifecycleProofs (the head of the queue, the *)
(* head of the gate) stand five layers: where a run may be while its row,  *)
(* tool and signal are what they are (Staged), what an accepted request    *)
(* has left behind (Remembered), where the debt of an unknown write is     *)
(* noted (Owed), who may still write a conclusion (Finals), and what the   *)
(* log still holds of a run that claims an outcome (History).  With them   *)
(* every step is one of RunOutcome or a stutter.                           *)
(***************************************************************************)
EXTENDS RunLifecycleProofs, FiniteSetTheorems

(* The phases of executeRun. *)
Early == {"early-stopped", "early-row", "early-event"}
Started == {"starting", "announcing", "launching", "working", "stopping", "teardown"}
Proposing == {"closing", "commit"}
Committing == {"commit-row", "commit-event", "commit-statistics", "verify",
               "quarantine-row", "quarantine-event"}
Over == {"finished", "gone"}
Touched == {"working", "stopping", "teardown"} \cup Proposing \cup Committing \cup Over

(* Where a run may be: a tool only once the browser is up, an abort signal *)
(* only before the teardown, an owner only from the commit on, and, while  *)
(* the process is down, nowhere.                                           *)
StageOf(r) ==
  /\ row[r].status = "absent" <=> exec[r] = "absent"
  /\ tool[r] # "idle" => exec[r] \in Touched
  /\ Live(r) => exec[r] \in Started
  /\ exec[r] \in Started \cup Proposing \cup Committing <=> active[r] # "none"
  /\ r \in owners => exec[r] \in Committing \cup Over
  /\ exec[r] \in Committing => r \in owners
  /\ exec[r] \in Over /\ tool[r] # "idle" => r \in owners
  /\ boot = "down" => exec[r] \in {"absent", "lost"}
  /\ exec[r] = "lost" /\ boot = "up" => row[r].status \in Terminal

(* A request inside the gate was let in by a run without an owner, and the *)
(* run it is ending in the queue is not active.                            *)
Asked(c) ==
  /\ call[c] # "idle" => exec[Target[c]] # "absent"
  /\ call[c] \in CallGated => Target[c] \notin owners /\ exec[Target[c]] # "lost"
  /\ call[c] \in {"row", "event"} => active[Target[c]] = "none"

Staged == (\A r \in Runs : StageOf(r)) /\ (\A c \in Cancels : Asked(c))

-----------------------------------------------------------------------------
(* The phases.                                                             *)

(* Gate and queue let one in at a time. *)
LEMMA Exclusions ==
  ASSUME Base
  PROVE  /\ \A r, s \in Runs : exec[r] \in Busy /\ exec[s] \in Busy => r = s
         /\ \A r \in Runs, c \in Cancels :
              Target[c] = r /\ call[c] \in CallGated => exec[r] \notin ExecGated
         /\ \A r \in Runs, c \in Cancels :
              Target[c] = r /\ Inside(r, c) => exec[r] \notin ExecGated
         /\ \A c, d \in Cancels :
              call[c] \in CallGated /\ call[d] \in CallGated /\ Target[c] = Target[d] => c = d
         /\ \A r \in Runs, c \in Cancels :
              Target[c] = r /\ Inside(r, "exec") => call[c] \notin CallGated
<1>1. \A c \in Cancels : c # "exec" /\ Target[c] \in Runs
  BY RunConstants
<1>2. \A r, s \in Runs : exec[r] \in Busy /\ exec[s] \in Busy => r = s
  BY DEF Base, Queued
<1>3. \A r \in Runs : exec[r] \in ExecGated => Head(gate[r]) = "exec"
  BY DEF Base, Gated, Inside
<1>4. \A c \in Cancels : call[c] \in CallGated => Head(gate[Target[c]]) = c
  BY DEF Base, Gated, Inside
<1> QED
  BY <1>1, <1>2, <1>3, <1>4 DEF Inside

(* No step takes a run out of phase. *)
LEMMA NextStageOf ==
  ASSUME Base, Staged, [Next]_vars, NEW s \in Runs PROVE StageOf(s)'
<1> USE DEF StageOf
<1>a. /\ row \in [Runs -> [status : Status, stop : Stops]]
      /\ active \in [Runs -> Signals] /\ exec \in [Runs -> ExecPcs]
      /\ tool \in [Runs -> ToolPcs] /\ owners \subseteq Runs
  BY DEF Base, TypeOK
<1>b. \A r \in Runs : StageOf(r)
  BY DEF Staged
<1>c. \A r \in Runs : StatusOf(stop[r]) \in Terminal /\ StatusOf(stop[r]) # "absent"
  BY StatusOfFacts DEF Terminal
<1> USE <1>a, <1>b DEF Live, Started, Proposing, Committing, Over, Touched
<1>1. ASSUME NEW r \in Runs, Admission(r) PROVE StageOf(s)'
  BY <1>1 DEF Admission, CreateRun, StartRunExecution, At, Goto, Store
<1>2. ASSUME NEW r \in Runs, Claim(r) PROVE StageOf(s)'
  <2>1. CASE ExecuteRun(r)
    BY <2>1 DEF ExecuteRun, At, Goto
  <2>2. CASE ClaimRefused(r) \/ ClaimEndsEarly(r) \/ ClaimActive(r)
    BY <2>2 DEF ClaimRefused, ClaimEndsEarly, ClaimActive, At, Goto
  <2>3. CASE EarlyStopped(r) \/ EarlyRow(r) \/ EarlyEvent(r)
    BY <2>3, <1>c DEF EarlyStopped, EarlyRow, EarlyEvent, At, Goto, Store
  <2> QED
    BY <1>2, <2>1, <2>2, <2>3 DEF Claim
<1>3. ASSUME NEW r \in Runs, Loop(r) PROVE StageOf(s)'
  BY <1>3 DEF Loop, StartRow, StartEvent, LaunchBrowser, LeaveFinished, LeaveIncomplete,
              Throw, RecordStopped, At, Goto, StoreRunning
<1>4. ASSUME NEW r \in Runs, ToolStep(r) PROVE StageOf(s)'
  BY <1>4 DEF ToolStep, StartTool, DispatchWrite, SettleAction, FailAction, RecordAction,
              PersistUsage, FinishTool, AcceptFinish, RecordFinish, At, Tool, Abort, StoreRunning
<1>5. ASSUME NEW r \in Runs, Timers(r) PROVE StageOf(s)'
  BY <1>5 DEF Timers, RunTimeout, ToolTimeout, Abort
<1>6. ASSUME NEW r \in Runs, Commit(r) PROVE StageOf(s)'
  <2>1. CASE Teardown(r) \/ ProposeTerminal(r) \/ CommitRun(r)
    BY <2>1 DEF Teardown, ProposeTerminal, CommitRun, At, Goto, Abort
  <2>2. CASE CommitRow(r) \/ CommitEvent(r) \/ CommitStatistics(r)
    BY <2>2, <1>c DEF CommitRow, CommitEvent, CommitStatistics, At, Goto, Store
  <2>3. CASE VerifyCommit(r)
    BY <2>3 DEF VerifyCommit, At, Goto
  <2>4. CASE QuarantineRow(r) \/ QuarantineEvent(r) \/ Dequeue(r)
    BY <2>4 DEF QuarantineRow, QuarantineEvent, Dequeue, At, Goto, Store
  <2> QED
    BY <1>6, <2>1, <2>2, <2>3, <2>4 DEF Commit
<1>7. ASSUME NEW r \in Runs, RunFault(r) PROVE StageOf(s)'
  <2>1. CASE CloseFails(r) \/ ClaimFails(r) \/ LoopFails(r)
    BY <2>1 DEF CloseFails, ClaimFails, LoopFails, Upset, At, Goto
  <2>2. CASE ToolFails(r) \/ LoseEvent(r)
    BY <2>2 DEF ToolFails, LoseEvent, AfterToolFailure
  <2>3. CASE CommitFails(r)
    BY <2>3 DEF CommitFails, Goto
  <2> QED
    BY <1>7, <2>1, <2>2, <2>3 DEF RunFault
<1>8. ASSUME NEW c \in Cancels, CancelStep(c) \/ CancelFails(c) PROVE StageOf(s)'
  <2>1. CASE CancelRow(c)
    <3>1. exec[Target[c]] # "absent"
      BY <2>1 DEF CancelRow, Calling, Staged, Asked
    <3> QED
      BY <2>1, <3>1 DEF CancelRow, Calling, Store, Terminal
  <2>2. CASE CancelPersist(c)
    BY <2>2 DEF CancelPersist, Abort
  <2> QED
    BY <1>8, <2>1, <2>2 DEF CancelStep, CancelFails, CancelRoute, CancelEnter,
       CancelRefused, CancelAgain, CancelDecided, CancelEvent
<1>9. CASE Reconcile
  BY <1>9 DEF Reconcile, ReconcileSelect, ReconcileCheck, ReconcileUpdate,
              ReconcileClear, ReconcileRecord
<1>10. CASE Crash
  BY <1>10 DEF Crash
<1>11. CASE Restart
  BY <1>11 DEF Restart, Serve, RestartRow, RestartEvent, Store, Status
<1>12. CASE UNCHANGED vars
  BY <1>12 DEF vars
<1> QED
  BY <1>1, <1>2, <1>3, <1>4, <1>5, <1>6, <1>7, <1>8, <1>9, <1>10, <1>11, <1>12 DEF Next

(* Nor does it let a request in that should not be there. *)
LEMMA NextAsked ==
  ASSUME Base, Staged, [Next]_vars, NEW c \in Cancels PROVE Asked(c)'
<1> USE DEF Asked
<1>a. /\ active \in [Runs -> Signals] /\ exec \in [Runs -> ExecPcs]
      /\ call \in [Cancels -> CallPcs] /\ owners \subseteq Runs /\ Target[c] \in Runs
  BY RunConstants DEF Base, TypeOK
<1>b. Asked(c) /\ \A r \in Runs : StageOf(r)
  BY DEF Staged
<1>c. call[c] \in CallGated => exec[Target[c]] \notin ExecGated /\ ~Inside(Target[c], "exec")
  BY <1>a, Exclusions
<1> USE <1>a, <1>b, <1>c DEF CallGated
<1>1. ASSUME NEW r \in Runs, Admission(r) PROVE Asked(c)'
  BY <1>1 DEF Admission, CreateRun, StartRunExecution, At, Goto
<1>2. ASSUME NEW r \in Runs, Claim(r) PROVE Asked(c)'
  BY <1>2 DEF Claim, ExecuteRun, ClaimRefused, ClaimEndsEarly, ClaimActive, EarlyStopped,
              EarlyRow, EarlyEvent, At, Goto
<1>3. ASSUME NEW r \in Runs, Loop(r) PROVE Asked(c)'
  BY <1>3 DEF Loop, StartRow, StartEvent, LaunchBrowser, LeaveFinished, LeaveIncomplete,
              Throw, RecordStopped, At, Goto
<1>4. ASSUME NEW r \in Runs, ToolStep(r) PROVE Asked(c)'
  BY <1>4 DEF ToolStep, StartTool, DispatchWrite, SettleAction, FailAction, RecordAction,
              PersistUsage, FinishTool, AcceptFinish, RecordFinish, At, Tool, Abort
<1>5. ASSUME NEW r \in Runs, Timers(r) PROVE Asked(c)'
  BY <1>5 DEF Timers, RunTimeout, ToolTimeout, Abort
<1>6. ASSUME NEW r \in Runs, Commit(r) PROVE Asked(c)'
  BY <1>6 DEF Commit, Teardown, ProposeTerminal, CommitRun, CommitRow, CommitEvent,
              CommitStatistics, VerifyCommit, QuarantineRow, QuarantineEvent, Dequeue,
              At, Goto, Abort
<1>7. ASSUME NEW r \in Runs, RunFault(r) PROVE Asked(c)'
  BY <1>7 DEF RunFault, CloseFails, ClaimFails, LoopFails, ToolFails, CommitFails, LoseEvent,
              Upset, At, Goto
<1>8. ASSUME NEW d \in Cancels, CancelStep(d) \/ CancelFails(d) PROVE Asked(c)'
  <2>1. CASE CancelRoute(d)
    BY <2>1 DEF CancelRoute, Calling, StageOf
  <2>2. CASE CancelDecided(d)
    BY <2>2 DEF CancelDecided, Calling, Cancellable, StageOf, Terminal
  <2>3. CASE CancelPersist(d)
    BY <2>3 DEF CancelPersist, Calling, Abort
  <2> QED
    BY <1>8, <2>1, <2>2, <2>3 DEF CancelStep, CancelFails, Calling, CancelEnter, CancelRefused,
       CancelAgain, CancelRow, CancelEvent
<1>9. CASE Reconcile
  BY <1>9 DEF Reconcile, ReconcileSelect, ReconcileCheck, ReconcileUpdate,
              ReconcileClear, ReconcileRecord
<1>10. CASE Crash
  BY <1>10 DEF Crash
<1>11. CASE Restart
  BY <1>11 DEF Restart, Serve, RestartRow, RestartEvent
<1>12. CASE UNCHANGED vars
  BY <1>12 DEF vars
<1> QED
  BY <1>1, <1>2, <1>3, <1>4, <1>5, <1>6, <1>7, <1>8, <1>9, <1>10, <1>11, <1>12 DEF Next

(* Runs and requests keep their phases in every reachable state. *)
LEMMA StagedInvariant == Spec => []Staged
<1>1. Init => Staged
  BY RunConstants DEF Init, Staged, StageOf, Asked, CallGated, Live, Started, Proposing,
     Committing, Over
<1>2. Base /\ Staged /\ [Next]_vars => Staged'
  BY NextStageOf, NextAsked DEF Staged
<1> QED
  BY <1>1, <1>2, BaseInvariant, PTL DEF Spec

-----------------------------------------------------------------------------
(* What an accepted request leaves behind.                                 *)

(* The statuses an accepted cancellation may end in.                       *)
Honouring == {"queued", "running", "cancelled", "interrupted"}

(* From its decision on, a request that will be accepted finds a row that  *)
(* honours it; once persisted it is remembered as long as the run is       *)
(* pending. *)
Noted(c) ==
  /\ call[c] \in {"row", "event", "accepted"} =>
       Target[c] \in requests \/ exec[Target[c]] \in {"gone", "lost"}
  /\ call[c] \in {"persisting", "event", "accepted"} => row[Target[c]].status \in Honouring

(* A run with a remembered request is not being refused at its claim, will *)
(* not commit to anything else, and is aborted. *)
Heeded(r) ==
  r \in requests =>
    /\ exec[r] \notin Early
    /\ exec[r] = "commit-row" => stop[r] \in {"cancelled", "reconciliation-required"}
    /\ active[r] # "live"

Remembered == (\A c \in Cancels : Noted(c)) /\ (\A r \in Runs : Heeded(r))

(* What a run with a request to honour may store. *)
LEMMA HonouringReasons ==
  /\ StatusOf("cancelled") \in Honouring
  /\ StatusOf("reconciliation-required") \in Honouring
BY DEF StatusOf, Honouring

(* No step forgets an accepted request or stores something else. *)
LEMMA NextNoted ==
  ASSUME Base, Staged, Remembered, [Next]_vars, NEW c \in Cancels PROVE Noted(c)'
<1> USE DEF Noted
<1>a. /\ row \in [Runs -> [status : Status, stop : Stops]] /\ exec \in [Runs -> ExecPcs]
      /\ call \in [Cancels -> CallPcs] /\ Target[c] \in Runs
  BY RunConstants DEF Base, TypeOK
<1>b. Noted(c) /\ Asked(c) /\ \A r \in Runs : Heeded(r)
  BY DEF Remembered, Staged
<1>c. call[c] \in CallGated => exec[Target[c]] \notin ExecGated
  BY <1>a, Exclusions
<1> USE <1>a, <1>b, <1>c DEF CallGated
<1>1. ASSUME NEW r \in Runs, Admission(r) PROVE Noted(c)'
  BY <1>1 DEF Admission, CreateRun, StartRunExecution, At, Goto, Store, Honouring
<1>2. ASSUME NEW r \in Runs, Claim(r) PROVE Noted(c)'
  <2>1. CASE EarlyRow(r)
    <3>1. Target[c] = r => call[c] \notin {"persisting", "event", "accepted"}
      BY <2>1 DEF EarlyRow, At, Heeded, Early, ExecGated
    <3> QED
      BY <2>1, <3>1 DEF EarlyRow, At, Goto, Store
  <2> QED
    BY <1>2, <2>1 DEF Claim, ExecuteRun, ClaimRefused, ClaimEndsEarly, ClaimActive, EarlyStopped,
       EarlyEvent, At, Goto
<1>3. ASSUME NEW r \in Runs, Loop(r) PROVE Noted(c)'
  BY <1>3 DEF Loop, StartRow, StartEvent, LaunchBrowser, LeaveFinished, LeaveIncomplete,
              Throw, RecordStopped, At, Goto, StoreRunning, Honouring
<1>4. ASSUME NEW r \in Runs, ToolStep(r) PROVE Noted(c)'
  BY <1>4 DEF ToolStep, StartTool, DispatchWrite, SettleAction, FailAction, RecordAction,
              PersistUsage, FinishTool, AcceptFinish, RecordFinish, StoreRunning, Honouring
<1>5. ASSUME NEW r \in Runs, Timers(r) PROVE Noted(c)'
  BY <1>5 DEF Timers, RunTimeout, ToolTimeout
<1>6. ASSUME NEW r \in Runs, Commit(r) PROVE Noted(c)'
  <2>1. CASE CommitRow(r)
    <3>1. Target[c] = r /\ call[c] \in {"persisting", "event", "accepted"} =>
            StatusOf(stop[r]) \in Honouring
      BY <2>1, HonouringReasons DEF CommitRow, At, Heeded, ExecGated
    <3> QED
      BY <2>1, <3>1 DEF CommitRow, At, Goto, Store
  <2> QED
    BY <1>6, <2>1 DEF Commit, Teardown, ProposeTerminal, CommitRun, CommitEvent,
       CommitStatistics, VerifyCommit, QuarantineRow, QuarantineEvent, Dequeue,
       At, Goto, Store, Honouring
<1>7. ASSUME NEW r \in Runs, RunFault(r) PROVE Noted(c)'
  BY <1>7 DEF RunFault, CloseFails, ClaimFails, LoopFails, ToolFails, CommitFails, LoseEvent,
              At, Goto
<1>8. ASSUME NEW d \in Cancels, CancelStep(d) \/ CancelFails(d) PROVE Noted(c)'
  <2>1. Target[d] \in Runs
    BY RunConstants
  <2>2. CASE CancelRow(d)
    BY <2>1, <2>2 DEF CancelRow, Calling, Store, Honouring
  <2>3. CASE CancelDecided(d) \/ CancelAgain(d)
    BY <2>1, <2>3 DEF CancelDecided, CancelAgain, Calling, Cancellable, Honouring
  <2> QED
    BY <1>8, <2>1, <2>2, <2>3 DEF CancelStep, CancelFails, Calling, CancelRoute, CancelEnter,
       CancelRefused, CancelPersist, CancelEvent
<1>9. CASE Reconcile
  BY <1>9 DEF Reconcile, ReconcileSelect, ReconcileCheck, ReconcileUpdate,
              ReconcileClear, ReconcileRecord
<1>10. CASE Crash
  BY <1>10 DEF Crash, Asked
<1>11. CASE Restart
  BY <1>11 DEF Restart, Serve, RestartRow, RestartEvent, Store, Honouring
<1>12. CASE UNCHANGED vars
  BY <1>12 DEF vars
<1> QED
  BY <1>1, <1>2, <1>3, <1>4, <1>5, <1>6, <1>7, <1>8, <1>9, <1>10, <1>11, <1>12 DEF Next

(* No step lets a run with a remembered request go on. *)
LEMMA NextHeeded ==
  ASSUME Base, Staged, Remembered, [Next]_vars, NEW s \in Runs PROVE Heeded(s)'
<1> USE DEF Heeded
<1>a. /\ active \in [Runs -> Signals] /\ exec \in [Runs -> ExecPcs]
      /\ stop \in [Runs -> Reasons] /\ requests \subseteq Runs
  BY DEF Base, TypeOK
<1>b. Heeded(s)
  BY DEF Remembered
<1> USE <1>a, <1>b DEF Early
<1>1. ASSUME NEW r \in Runs, Admission(r) PROVE Heeded(s)'
  BY <1>1 DEF Admission, CreateRun, StartRunExecution, At, Goto
<1>2. ASSUME NEW r \in Runs, Claim(r) PROVE Heeded(s)'
  BY <1>2 DEF Claim, ExecuteRun, ClaimRefused, ClaimEndsEarly, ClaimActive, EarlyStopped,
              EarlyRow, EarlyEvent, At, Goto, Claimable
<1>3. ASSUME NEW r \in Runs, Loop(r) PROVE Heeded(s)'
  BY <1>3 DEF Loop, StartRow, StartEvent, LaunchBrowser, LeaveFinished, LeaveIncomplete,
              Throw, RecordStopped, At, Goto
<1>4. ASSUME NEW r \in Runs, ToolStep(r) PROVE Heeded(s)'
  BY <1>4 DEF ToolStep, StartTool, DispatchWrite, SettleAction, FailAction, RecordAction,
              PersistUsage, FinishTool, AcceptFinish, RecordFinish, At, Tool, Abort
<1>5. ASSUME NEW r \in Runs, Timers(r) PROVE Heeded(s)'
  BY <1>5 DEF Timers, RunTimeout, ToolTimeout, Abort
<1>6. ASSUME NEW r \in Runs, Commit(r) PROVE Heeded(s)'
  BY <1>6 DEF Commit, Teardown, ProposeTerminal, CommitRun, CommittedReason, CommitRow,
              CommitEvent, CommitStatistics, VerifyCommit, QuarantineRow, QuarantineEvent,
              Dequeue, At, Goto, Abort
<1>7. ASSUME NEW r \in Runs, RunFault(r) PROVE Heeded(s)'
  BY <1>7 DEF RunFault, CloseFails, ClaimFails, LoopFails, ToolFails, CommitFails, LoseEvent,
              Upset, At, Goto
<1>8. ASSUME NEW d \in Cancels, CancelStep(d) \/ CancelFails(d) PROVE Heeded(s)'
  <2>1. CASE CancelPersist(d)
    <3>1. Target[d] \in Runs /\ exec[Target[d]] \notin ExecGated
      BY <2>1, Exclusions, RunConstants DEF CancelPersist, Calling, CallGated
    <3>2. requests' = requests \cup {Target[d]} /\ UNCHANGED <<exec, stop>>
      BY <2>1 DEF CancelPersist
    <3>3. active'[Target[d]] # "live" /\ \A r \in Runs : active'[r] = "live" => active[r] = "live"
      BY <2>1, <3>1 DEF CancelPersist, Abort
    <3> QED
      BY <3>1, <3>2, <3>3 DEF ExecGated
  <2> QED
    BY <1>8, <2>1 DEF CancelStep, CancelFails, CancelRoute, CancelEnter,
       CancelRefused, CancelAgain, CancelDecided, CancelRow, CancelEvent
<1>9. CASE Reconcile
  BY <1>9 DEF Reconcile, ReconcileSelect, ReconcileCheck, ReconcileUpdate,
              ReconcileClear, ReconcileRecord
<1>10. CASE Crash
  BY <1>10 DEF Crash
<1>11. CASE Restart
  BY <1>11 DEF Restart, Serve, RestartRow, RestartEvent
<1>12. CASE UNCHANGED vars
  BY <1>12 DEF vars
<1> QED
  BY <1>1, <1>2, <1>3, <1>4, <1>5, <1>6, <1>7, <1>8, <1>9, <1>10, <1>11, <1>12 DEF Next

(* Accepted requests are remembered in every reachable state. *)
LEMMA RememberedInvariant == Spec => []Remembered
<1>1. Init => Remembered
  BY RunConstants DEF Init, Remembered, Noted, Heeded
<1>2. Base /\ Staged /\ Remembered /\ [Next]_vars => Remembered'
  BY NextNoted, NextHeeded DEF Remembered
<1> QED
  BY <1>1, <1>2, BaseInvariant, StagedInvariant, PTL DEF Spec

(* run-queue.ts commitRun and cancelRunExecution order the two: a run      *)
(* whose cancellation was accepted never says afterwards that it reached   *)
(* its goal, was blocked, ran out of time or failed. *)
THEOREM CancellationIsHonoured == Spec => []AcceptedCancelHonoured
<1>1. Remembered => AcceptedCancelHonoured
  BY DEF Remembered, Noted, AcceptedCancelHonoured, Accepted, Honouring
<1> QED
  BY <1>1, RememberedInvariant, PTL

(* Only LaunchBrowser opens a browser, and it needs a live signal. *)
LEMMA LaunchIsLive ==
  ASSUME Base, [Next]_vars, NEW r \in Runs, Launches(r)
  PROVE  LaunchBrowser(r)
<1> USE DEF Launches
<1>a. exec \in [Runs -> ExecPcs]
  BY DEF Base, TypeOK
<1> USE <1>a
<1>1. ASSUME NEW s \in Runs, Loop(s), s # r \/ ~LaunchBrowser(s) PROVE FALSE
  BY <1>1 DEF Loop, LaunchBrowser, StartRow, StartEvent, LeaveFinished, LeaveIncomplete,
              Throw, RecordStopped, At, Goto
<1>2. ASSUME NEW s \in Runs, Admission(s) \/ Claim(s) PROVE FALSE
  BY <1>2 DEF Admission, CreateRun, StartRunExecution, Claim, ExecuteRun, ClaimRefused,
              ClaimEndsEarly, ClaimActive, EarlyStopped, EarlyRow, EarlyEvent, At, Goto
<1>3. ASSUME NEW s \in Runs, Commit(s) \/ RunFault(s) PROVE FALSE
  BY <1>3 DEF Commit, Teardown, ProposeTerminal, CommitRun, CommitRow, CommitEvent,
              CommitStatistics, VerifyCommit, QuarantineRow, QuarantineEvent, Dequeue,
              RunFault, CloseFails, ClaimFails, LoopFails, ToolFails, CommitFails, LoseEvent,
              At, Goto
<1>4. ASSUME NEW s \in Runs, ToolStep(s) \/ Timers(s) PROVE FALSE
  BY <1>4, ToolFrame, TimersFrame
<1>5. ASSUME NEW c \in Cancels, CancelStep(c) \/ CancelFails(c) PROVE FALSE
  BY <1>5, CancelFrame
<1>6. CASE Reconcile \/ Restart
  BY <1>6, ReconcileFrame, RestartFrame
<1>7. CASE Crash
  BY <1>7 DEF Crash
<1>8. CASE UNCHANGED vars
  BY <1>8 DEF vars
<1> QED
  BY <1>1, <1>2, <1>3, <1>4, <1>5, <1>6, <1>7, <1>8 DEF Next

(* The guard before the launch reads the signal that the cancellation      *)
(* aborted: no browser is opened for a run whose cancellation was accepted. *)
THEOREM CancelledRunsStayClosed == Spec => NoLaunchAfterCancel
<1>1. Base /\ Remembered /\ [Next]_vars =>
        [\A r \in Runs : Launches(r) => ~Accepted(r)]_vars
  <2> SUFFICES ASSUME Base, Remembered, [Next]_vars, NEW r \in Runs, Launches(r), Accepted(r)
               PROVE  FALSE
    OBVIOUS
  <2>1. LaunchBrowser(r)
    BY LaunchIsLive
  <2>2. r \in requests
    BY <2>1 DEF LaunchBrowser, At, Remembered, Noted, Accepted
  <2> QED
    BY <2>1, <2>2 DEF LaunchBrowser, Live, Remembered, Heeded
<1> QED
  BY <1>1, BaseInvariant, RememberedInvariant, PTL DEF Spec, NoLaunchAfterCancel

-----------------------------------------------------------------------------
(* Where the debt of an unknown write is noted.                            *)

(* A dispatched write that nobody settled is in sideEffectPending, then in *)
(* the proposed stop, then in the row, until the operator reconciles; and  *)
(* from the commit on, in the quarantine of the process. *)
Owes(r) ==
  /\ exec[r] \in Touched \cup {"lost"}
  /\ exec[r] \in {"working", "stopping", "teardown", "closing"} => effect[r]
  /\ exec[r] \in {"commit", "commit-row"} => stop[r] = "reconciliation-required"
  /\ exec[r] \in Over => r \in owners
  /\ row[r].status = "running" \/ row[r].stop = "reconciliation-required"
  /\ boot = "up" /\ ~quarantine =>
       exec[r] \in {"working", "stopping", "teardown"} \cup Proposing

(* A run about to be launched was claimed when nothing was owed, and a run *)
(* that may write says so in its row until its commit. *)
Clear(r) ==
  /\ exec[r] \in {"starting", "announcing", "launching"} =>
       ~quarantine /\ \A s \in Runs : ~Owing(s)
  /\ exec[r] \in {"announcing", "launching", "working"} => row[r].status = "running"
  /\ tool[r] # "idle" /\ exec[r] \in {"stopping", "teardown", "commit-row"} \cup Proposing
       => row[r].status = "running"

(* A write is asked about while a request is under way; one that became    *)
(* unknown since is of a run of this process.                              *)
Answers(r) ==
  /\ debt[r] = "asked" => ack.pc \in {"check", "update"}
  /\ debt[r] = "open" /\ ack.pc \in {"check", "update", "clear"} => exec[r] # "lost"

Owed == \A r \in Runs : (Owing(r) => Owes(r)) /\ Clear(r) /\ Answers(r)

(* A stop with an unknown write is stored as such. *)
LEMMA OwedStatus == StatusOf("reconciliation-required") = "interrupted"
BY DEF StatusOf

(* No step loses the note of an unknown write. *)
LEMMA NextOwes ==
  ASSUME Base, Staged, Owed, [Next]_vars, NEW s \in Runs, Owing(s)' PROVE Owes(s)'
<1> USE DEF Owes, Owing
<1>a. /\ row \in [Runs -> [status : Status, stop : Stops]]
      /\ exec \in [Runs -> ExecPcs] /\ stop \in [Runs -> Reasons]
      /\ effect \in [Runs -> BOOLEAN] /\ tool \in [Runs -> ToolPcs]
      /\ debt \in [Runs -> Debts]
  BY DEF Base, TypeOK
<1>b. /\ Owing(s) => Owes(s)
      /\ \A r \in Runs : StageOf(r) /\ Clear(r) /\ Answers(r)
  BY DEF Staged, Owed
<1> USE <1>a, <1>b DEF Proposing, Committing, Over, Touched
<1>1. ASSUME NEW r \in Runs, Admission(r) PROVE Owes(s)'
  BY <1>1 DEF Admission, CreateRun, StartRunExecution, At, Goto, Store
<1>2. ASSUME NEW r \in Runs, Claim(r) PROVE Owes(s)'
  BY <1>2 DEF Claim, ExecuteRun, ClaimRefused, ClaimEndsEarly, ClaimActive, EarlyStopped,
              EarlyRow, EarlyEvent, At, Goto, Store
<1>3. ASSUME NEW r \in Runs, Loop(r) PROVE Owes(s)'
  BY <1>3 DEF Loop, StartRow, StartEvent, LaunchBrowser, LeaveFinished, LeaveIncomplete,
              Throw, RecordStopped, At, Goto, StoreRunning
<1>4. ASSUME NEW r \in Runs, ToolStep(r) PROVE Owes(s)'
  <2>1. CASE DispatchWrite(r)
    BY <2>1 DEF DispatchWrite, Tool, StageOf, Clear, Live, Started
  <2>2. CASE SettleAction(r)
    BY <2>2 DEF SettleAction, Tool
  <2> QED
    BY <1>4, <2>1, <2>2 DEF ToolStep, StartTool, FailAction, RecordAction, PersistUsage,
       FinishTool, AcceptFinish, RecordFinish, StoreRunning
<1>5. ASSUME NEW r \in Runs, Timers(r) PROVE Owes(s)'
  BY <1>5 DEF Timers, RunTimeout, ToolTimeout
<1>6. ASSUME NEW r \in Runs, Commit(r) PROVE Owes(s)'
  <2>1. CASE Teardown(r) \/ ProposeTerminal(r)
    BY <2>1 DEF Teardown, ProposeTerminal, At, Goto
  <2>2. CASE CommitRun(r)
    BY <2>2 DEF CommitRun, CommittedReason, At, Goto
  <2>3. CASE CommitRow(r)
    BY <2>3 DEF CommitRow, At, Goto, Store
  <2> QED
    BY <1>6, <2>1, <2>2, <2>3 DEF Commit, CommitEvent, CommitStatistics, VerifyCommit,
       QuarantineRow, QuarantineEvent, Dequeue, At, Goto, Store, StageOf
<1>7. ASSUME NEW r \in Runs, RunFault(r) PROVE Owes(s)'
  BY <1>7 DEF RunFault, CloseFails, ClaimFails, LoopFails, ToolFails, CommitFails, LoseEvent,
              At, Goto, StageOf
<1>8. ASSUME NEW c \in Cancels, CancelStep(c) \/ CancelFails(c) PROVE Owes(s)'
  <2>1. CASE CancelRow(c)
    <3>1. s # Target[c]
      BY <2>1, CancelFrame DEF CancelRow, Calling, CallGated, Staged, Asked, StageOf, Started
    <3> QED
      BY <2>1, <3>1, RunConstants DEF CancelRow, Store
  <2> QED
    BY <1>8, <2>1, CancelFrame DEF CancelStep, CancelFails, CancelRoute, CancelEnter,
       CancelRefused, CancelAgain, CancelDecided, CancelPersist, CancelEvent
<1>9. CASE Reconcile
  <2>1. CASE ReconcileSelect \/ ReconcileCheck \/ ReconcileRecord
    BY <2>1 DEF ReconcileSelect, ReconcileCheck, ReconcileRecord, Unasked
  <2>2. CASE ReconcileUpdate
    <3>1. debt[s] = "open" /\ row'[s] = row[s]
      BY <2>2 DEF ReconcileUpdate
    <3> QED
      BY <2>2, <3>1 DEF ReconcileUpdate
  <2>3. CASE ReconcileClear
    <3>1. debt[s] = "open" /\ s \notin owners /\ exec[s] # "lost"
      BY <2>3 DEF ReconcileClear, Answers
    <3>2. exec[s] \in {"working", "stopping", "teardown"} \cup Proposing
      BY <3>1 DEF StageOf
    <3> QED
      BY <2>3, <3>1, <3>2 DEF ReconcileClear
  <2> QED
    BY <1>9, <2>1, <2>2, <2>3 DEF Reconcile
<1>10. CASE Crash
  BY <1>10 DEF Crash, Unasked
<1>11. CASE Restart
  <2>1. CASE Serve
    <3>1. row[s].stop = "reconciliation-required" /\ UNCHANGED <<row, exec, stop, effect, owners, debt>>
      BY <2>1 DEF Serve
    <3>2. quarantine'
      BY <2>1, <3>1 DEF Serve, QuarantinedRows
    <3> QED
      BY <3>1, <3>2
  <2>2. ASSUME NEW r \in Runs, RestartRow(r) \/ RestartEvent(r) PROVE Owes(s)'
    BY <2>2 DEF RestartRow, RestartEvent, Store
  <2> QED
    BY <1>11, <2>1, <2>2 DEF Restart
<1>12. CASE UNCHANGED vars
  BY <1>12 DEF vars
<1> QED
  BY <1>1, <1>2, <1>3, <1>4, <1>5, <1>6, <1>7, <1>8, <1>9, <1>10, <1>11, <1>12 DEF Next

(* No step makes a claimed run owe, or takes its row from `running`. *)
LEMMA NextClear ==
  ASSUME Base, Staged, Owed, [Next]_vars, NEW s \in Runs PROVE Clear(s)'
<1> USE DEF Clear, Owing
<1>a. /\ row \in [Runs -> [status : Status, stop : Stops]]
      /\ exec \in [Runs -> ExecPcs] /\ tool \in [Runs -> ToolPcs]
      /\ debt \in [Runs -> Debts]
  BY DEF Base, TypeOK
<1>b. Clear(s) /\ StageOf(s) /\ \A r \in Runs : Owing(r) => Owes(r)
  BY DEF Staged, Owed
<1>c. \A r, t \in Runs : exec[r] \in Busy /\ exec[t] \in Busy => r = t
  BY Exclusions
<1> USE <1>a, <1>b DEF Proposing
<1>1. ASSUME NEW r \in Runs, Admission(r) PROVE Clear(s)'
  BY <1>1 DEF Admission, CreateRun, StartRunExecution, At, Goto, Store
<1>2. ASSUME NEW r \in Runs, Claim(r) PROVE Clear(s)'
  <2>1. CASE ClaimActive(r)
    <3>1. (\A t \in Runs : ~Owing(t)) /\ ~quarantine
      BY <2>1, <1>c DEF ClaimActive, At, Owes, Busy, Proposing
    <3> QED
      BY <2>1, <3>1 DEF ClaimActive, At, Goto
  <2> QED
    BY <1>2, <2>1 DEF Claim, ExecuteRun, ClaimRefused, ClaimEndsEarly, EarlyStopped,
       EarlyRow, EarlyEvent, At, Goto, Store
<1>3. ASSUME NEW r \in Runs, Loop(r) PROVE Clear(s)'
  BY <1>3 DEF Loop, StartRow, StartEvent, LaunchBrowser, LeaveFinished, LeaveIncomplete,
              Throw, RecordStopped, At, Goto, StoreRunning, StageOf, Touched, Committing, Over
<1>4. ASSUME NEW r \in Runs, ToolStep(r) PROVE Clear(s)'
  <2>1. DispatchWrite(r) => exec[r] \in Busy \ {"starting", "announcing", "launching"}
    BY <1>4 DEF DispatchWrite, Tool, Live, Staged, StageOf, Started, Busy, Touched, Committing, Over
  <2>2. CASE DispatchWrite(r)
    BY <1>c, <2>1, <2>2 DEF DispatchWrite, Tool, Busy
  <2> QED
    BY <1>4, <2>2 DEF ToolStep, StartTool, SettleAction, FailAction, RecordAction, PersistUsage,
       FinishTool, AcceptFinish, RecordFinish, StoreRunning, At, Tool
<1>5. ASSUME NEW r \in Runs, Timers(r) PROVE Clear(s)'
  BY <1>5 DEF Timers, RunTimeout, ToolTimeout
<1>6. ASSUME NEW r \in Runs, Commit(r) PROVE Clear(s)'
  BY <1>6, <1>c DEF Commit, Teardown, ProposeTerminal, CommitRun, CommitRow,
              CommitEvent, CommitStatistics, VerifyCommit, QuarantineRow, QuarantineEvent,
              Dequeue, At, Goto, Store, Busy
<1>7. ASSUME NEW r \in Runs, RunFault(r) PROVE Clear(s)'
  BY <1>7, <1>c DEF RunFault, CloseFails, ClaimFails, LoopFails, ToolFails, AfterToolFailure,
              CommitFails, LoseEvent, At, Goto, Busy, StageOf, Touched, Committing, Over
<1>8. ASSUME NEW c \in Cancels, CancelStep(c) \/ CancelFails(c) PROVE Clear(s)'
  <2>1. CASE CancelRow(c)
    <3>1. s = Target[c] => exec[s] \notin Started \cup Proposing \cup Committing
      BY <2>1, CancelFrame DEF CancelRow, Calling, Staged, Asked, StageOf
    <3> QED
      BY <2>1, <3>1, RunConstants DEF CancelRow, Store, Started, Committing
  <2> QED
    BY <1>8, <2>1, CancelFrame DEF CancelStep, CancelFails, CancelRoute, CancelEnter,
       CancelRefused, CancelAgain, CancelDecided, CancelPersist, CancelEvent
<1>9. CASE Reconcile
  <2>1. /\ \A t \in Runs : Owing(t)' => Owing(t)
        /\ quarantine' => quarantine
        /\ row[s].status = "running" => row'[s].status = "running"
    <3>1. CASE ReconcileSelect \/ ReconcileCheck \/ ReconcileRecord
      BY <3>1 DEF ReconcileSelect, ReconcileCheck, ReconcileRecord, Unasked
    <3>2. CASE ReconcileUpdate
      BY <3>2 DEF ReconcileUpdate
    <3>3. CASE ReconcileClear
      BY <3>3 DEF ReconcileClear
    <3> QED
      BY <1>9, <3>1, <3>2, <3>3 DEF Reconcile
  <2>2. exec' = exec /\ tool' = tool
    BY <1>9, ReconcileFrame
  <2> QED
    BY <2>1, <2>2
<1>10. CASE Crash
  BY <1>10 DEF Crash, Unasked
<1>11. CASE Restart
  BY <1>11, RestartFrame DEF Restart, Serve, RestartRow, RestartEvent, StageOf
<1>12. CASE UNCHANGED vars
  BY <1>12 DEF vars
<1> QED
  BY <1>1, <1>2, <1>3, <1>4, <1>5, <1>6, <1>7, <1>8, <1>9, <1>10, <1>11, <1>12 DEF Next

(* A request asks about what is unknown, and nothing is lost under it. *)
LEMMA NextAnswers ==
  ASSUME Base, Staged, Owed, [Next]_vars, NEW s \in Runs PROVE Answers(s)'
<1> USE DEF Answers
<1>a. /\ exec \in [Runs -> ExecPcs] /\ debt \in [Runs -> Debts]
      /\ ack \in [pc : {"idle", "check", "update", "clear", "record"}, rows : SUBSET Runs]
  BY DEF Base, TypeOK
<1>b. Answers(s) /\ StageOf(s)
  BY DEF Staged, Owed
<1> USE <1>a, <1>b
<1>1. ASSUME NEW r \in Runs, Admission(r) \/ Claim(r) PROVE Answers(s)'
  BY <1>1 DEF Admission, CreateRun, StartRunExecution, Claim, ExecuteRun, ClaimRefused,
     ClaimEndsEarly, ClaimActive, EarlyStopped, EarlyRow, EarlyEvent, Goto
<1>2. ASSUME NEW r \in Runs, Loop(r) PROVE Answers(s)'
  BY <1>2 DEF Loop, StartRow, StartEvent, LaunchBrowser, LeaveFinished, LeaveIncomplete,
              Throw, RecordStopped, Goto
<1>3. ASSUME NEW r \in Runs, ToolStep(r) PROVE Answers(s)'
  <2>1. CASE DispatchWrite(r)
    BY <2>1 DEF DispatchWrite, Tool, StageOf, Touched, Proposing, Committing, Over
  <2>2. CASE SettleAction(r)
    BY <2>2 DEF SettleAction
  <2> QED
    BY <1>3, <2>1, <2>2 DEF ToolStep, StartTool, FailAction, RecordAction, PersistUsage,
       FinishTool, AcceptFinish, RecordFinish
<1>4. ASSUME NEW r \in Runs, Timers(r) PROVE Answers(s)'
  BY <1>4, TimersFrame DEF Timers, RunTimeout, ToolTimeout
<1>5. ASSUME NEW r \in Runs, Commit(r) PROVE Answers(s)'
  BY <1>5 DEF Commit, Teardown, ProposeTerminal, CommitRun, CommitRow, CommitEvent,
     CommitStatistics, VerifyCommit, QuarantineRow, QuarantineEvent, Dequeue, Goto
<1>6. ASSUME NEW r \in Runs, RunFault(r) PROVE Answers(s)'
  BY <1>6 DEF RunFault, CloseFails, ClaimFails, LoopFails, ToolFails, CommitFails, LoseEvent, Goto
<1>7. ASSUME NEW c \in Cancels, CancelStep(c) \/ CancelFails(c) PROVE Answers(s)'
  BY <1>7, CancelFrame
<1>8. CASE Reconcile
  BY <1>8 DEF Reconcile, ReconcileSelect, ReconcileCheck, ReconcileUpdate, ReconcileClear,
     ReconcileRecord, Unasked
<1>9. CASE Crash
  BY <1>9 DEF Crash, Unasked
<1>10. CASE Restart
  BY <1>10, RestartFrame
<1>11. CASE UNCHANGED vars
  BY <1>11 DEF vars
<1> QED
  BY <1>1, <1>2, <1>3, <1>4, <1>5, <1>6, <1>7, <1>8, <1>9, <1>10, <1>11 DEF Next

(* Unknown writes stay noted in every reachable state. *)
LEMMA OwedInvariant == Spec => []Owed
<1>1. Init => Owed
  BY DEF Init, Owed, Clear, Answers, Owing, Proposing
<1>2. Base /\ Staged /\ Owed /\ [Next]_vars => Owed'
  BY NextOwes, NextClear, NextAnswers DEF Owed
<1> QED
  BY <1>1, <1>2, BaseInvariant, StagedInvariant, PTL DEF Spec

(* An aborted action, a failed commit or a crash may leave a write of      *)
(* unknown outcome: no browser is opened over it before the operator has   *)
(* asked, after it, to go on.  The one way past it is a request made       *)
(* before it (run-queue.ts:21-28 looks at the queue once and rewrites      *)
(* whatever it finds later), and only for the writes such a request let go.*)
THEOREM UnknownWritesBlockLaunches == Spec => NoLaunchOverUnknownWrite
<1>1. Base /\ Owed /\ [Next]_vars =>
        [\A r \in Runs : Launches(r) => ~quarantine /\ \A s \in Runs : ~Owing(s)]_vars
  <2> SUFFICES ASSUME Base, Owed, [Next]_vars, NEW r \in Runs, Launches(r)
               PROVE  ~quarantine /\ \A s \in Runs : ~Owing(s)
    OBVIOUS
  <2>1. LaunchBrowser(r)
    BY LaunchIsLive
  <2> QED
    BY <2>1 DEF LaunchBrowser, At, Owed, Clear
<1> QED
  BY <1>1, BaseInvariant, OwedInvariant, PTL DEF Spec, NoLaunchOverUnknownWrite

-----------------------------------------------------------------------------
(* Who may still write a conclusion, or a request to cancel.               *)

Conclusions(r) == Places(r, TerminalEvents)
Asks(r) == Places(r, {"run:cancel-requested"})

(* The three steps that conclude a run in its log, and the one that records *)
(* a request to cancel it. *)
Concludes(r) ==
  EarlyEvent(r) \/ CommitEvent(r) \/ \E c \in Cancels : Target[c] = r /\ CancelEvent(c)
Requests(r) == \E c \in Cancels : Target[c] = r /\ CancelPersist(c)

Appends(r, e) ==
  /\ log'[r] = Append(log[r], e)
  /\ e \in TerminalEvents => Concludes(r)
  /\ e = "run:cancel-requested" => Requests(r)

(* A step leaves a log alone, loses its last event (a fault), or appends   *)
(* one. *)
LEMMA LogSteps ==
  ASSUME Base, [Next]_vars, NEW s \in Runs
  PROVE  \/ log'[s] = log[s]
         \/ upsets' # 0 /\ log'[s] = SubSeq(log[s], 1, Len(log[s]) - 1)
         \/ \E e \in EventTypes : Appends(s, e)
<1>a. log \in [Runs -> Seq(EventTypes)] /\ upsets \in Nat
  BY DEF Base, TypeOK
<1>b. ASSUME NEW r \in Runs, NEW e \in EventTypes, Record(r, e)
      PROVE  log'[s] = IF s = r THEN Append(log[s], e) ELSE log[s]
  BY <1>a, <1>b DEF Record
<1> DEFINE Logged == \/ log'[s] = log[s]
                     \/ upsets' # 0 /\ log'[s] = SubSeq(log[s], 1, Len(log[s]) - 1)
                     \/ \E e \in EventTypes : Appends(s, e)
<1> SUFFICES Logged
  OBVIOUS
<1>c. ASSUME NEW r \in Runs, NEW e \in EventTypes \ (TerminalEvents \cup {"run:cancel-requested"}),
             Record(r, e)
      PROVE  Logged
  BY <1>c, <1>b DEF Appends
<1>d. {"run:started", "run:interrupted", "run:statistics", "run:storage-inconsistent",
       "execution:stopped", "action:completed", "action:failed", "tool:finished",
       "finish:accepted", "run:reconciled"}
        \subseteq EventTypes \ (TerminalEvents \cup {"run:cancel-requested"})
  BY DEF EventTypes, TerminalEvents
<1>e. TerminalEvents \cup {"run:cancel-requested"} \subseteq EventTypes
      /\ "run:cancel-requested" \notin TerminalEvents
  BY DEF EventTypes, TerminalEvents
<1> HIDE DEF Logged
<1>f. ASSUME UNCHANGED log PROVE Logged
  BY <1>f DEF Logged
<1>1. ASSUME NEW r \in Runs, Admission(r) PROVE Logged
  BY <1>1, <1>f DEF Admission, CreateRun, StartRunExecution
<1>2. ASSUME NEW r \in Runs, Claim(r) PROVE Logged
  <2>1. CASE EarlyStopped(r)
    BY <2>1, <1>c, <1>d DEF EarlyStopped
  <2>2. CASE EarlyEvent(r)
    <3>1. PICK e \in {"run:error", "run:completed"} : Record(r, e)
      BY <2>2 DEF EarlyEvent
    <3>2. e \in EventTypes /\ e # "run:cancel-requested"
      BY <3>1, <1>e DEF TerminalEvents
    <3> QED
      BY <2>2, <3>1, <3>2, <1>b DEF Logged, Appends, Concludes
  <2> QED
    BY <1>2, <2>1, <2>2, <1>f DEF Claim, ExecuteRun, ClaimRefused, ClaimEndsEarly,
       ClaimActive, EarlyRow
<1>3. ASSUME NEW r \in Runs, Loop(r) PROVE Logged
  <2>1. CASE StartEvent(r) \/ RecordStopped(r)
    BY <2>1, <1>c, <1>d DEF StartEvent, RecordStopped
  <2> QED
    BY <1>3, <2>1, <1>f DEF Loop, StartRow, LaunchBrowser, LeaveFinished, LeaveIncomplete, Throw
<1>4. ASSUME NEW r \in Runs, ToolStep(r) PROVE Logged
  <2>1. CASE FailAction(r) \/ RecordAction(r) \/ FinishTool(r) \/ RecordFinish(r)
    BY <2>1, <1>c, <1>d DEF FailAction, RecordAction, FinishTool, RecordFinish
  <2> QED
    BY <1>4, <2>1, <1>f DEF ToolStep, StartTool, DispatchWrite, SettleAction, PersistUsage, AcceptFinish
<1>5. ASSUME NEW r \in Runs, Timers(r) PROVE Logged
  BY <1>5, <1>f, TimersFrame
<1>6. ASSUME NEW r \in Runs, Commit(r) PROVE Logged
  <2>1. CASE CommitStatistics(r) \/ QuarantineEvent(r)
    BY <2>1, <1>c, <1>d DEF CommitStatistics, QuarantineEvent
  <2>2. CASE CommitEvent(r)
    <3>1. Record(r, "run:completed") /\ "run:completed" \in EventTypes
      BY <2>2, <1>e DEF CommitEvent, TerminalEvents
    <3> QED
      BY <2>2, <3>1, <1>b DEF Logged, Appends, Concludes
  <2> QED
    BY <1>6, <2>1, <2>2, <1>f DEF Commit, Teardown, ProposeTerminal, CommitRun, CommitRow,
       VerifyCommit, QuarantineRow, Dequeue
<1>7. ASSUME NEW r \in Runs, RunFault(r) PROVE Logged
  <2>1. CASE LoseEvent(r)
    BY <2>1, <1>a DEF LoseEvent, Upset, Logged
  <2> QED
    BY <1>7, <2>1, <1>f DEF RunFault, CloseFails, ClaimFails, LoopFails, ToolFails, CommitFails
<1>8. ASSUME NEW c \in Cancels, CancelStep(c) \/ CancelFails(c) PROVE Logged
  <2>1. Target[c] \in Runs
    BY RunConstants
  <2>2. CASE CancelPersist(c)
    <3>1. Record(Target[c], "run:cancel-requested")
      BY <2>2 DEF CancelPersist
    <3> QED
      BY <2>1, <2>2, <3>1, <1>b, <1>e DEF Logged, Appends, Requests
  <2>3. CASE CancelEvent(c)
    <3>1. Record(Target[c], "run:cancelled") /\ "run:cancelled" \in EventTypes
      BY <2>3, <1>e DEF CancelEvent, TerminalEvents
    <3> QED
      BY <2>1, <2>3, <3>1, <1>b DEF Logged, Appends, Concludes
  <2> QED
    BY <1>8, <2>2, <2>3, <1>f DEF CancelStep, CancelFails, CancelRoute, CancelEnter,
       CancelRefused, CancelAgain, CancelDecided, CancelRow
<1>9. CASE Reconcile
  <2>1. CASE ReconcileRecord
    <3>1. log'[s] = log[s] \/ log'[s] = Append(log[s], "run:reconciled")
      BY <2>1, <1>a DEF ReconcileRecord
    <3> QED
      BY <3>1, <1>d DEF Logged, Appends
  <2> QED
    BY <1>9, <2>1, <1>f DEF Reconcile, ReconcileSelect, ReconcileCheck, ReconcileUpdate, ReconcileClear
<1>10. CASE Crash
  BY <1>10, <1>f DEF Crash
<1>11. CASE Restart
  <2>1. CASE Serve
    BY <2>1, <1>f DEF Serve
  <2>2. ASSUME NEW r \in Runs, RestartRow(r) PROVE Logged
    BY <2>2, <1>f DEF RestartRow
  <2>3. ASSUME NEW r \in Runs, RestartEvent(r) PROVE Logged
    BY <2>3, <1>c, <1>d DEF RestartEvent
  <2> QED
    BY <1>11, <2>1, <2>2, <2>3 DEF Restart
<1>12. CASE UNCHANGED vars
  BY <1>12, <1>f DEF vars
<1> QED
  BY <1>1, <1>2, <1>3, <1>4, <1>5, <1>6, <1>7, <1>8, <1>9, <1>10, <1>11, <1>12 DEF Next

(* So a place in the log is an old place, or the new last one of the steps *)
(* that may write it. *)
LEMMA PlaceSteps ==
  ASSUME Base, [Next]_vars, NEW s \in Runs
  PROVE  /\ \A i \in Conclusions(s) \cup Asks(s) : i \in Nat /\ i < Len(log[s]) + 1
         /\ Conclusions(s)' \subseteq Conclusions(s)
            \/ (Concludes(s) /\ Conclusions(s)' \subseteq Conclusions(s) \cup {Len(log[s]) + 1})
         /\ Asks(s)' \subseteq Asks(s)
            \/ (Requests(s) /\ Asks(s)' \subseteq Asks(s) \cup {Len(log[s]) + 1})
         /\ ~(Conclusions(s)' \subseteq Conclusions(s)) => Asks(s)' \subseteq Asks(s)
         /\ upsets' = 0 => Conclusions(s) \subseteq Conclusions(s)'
<1> DEFINE L == log[s]
<1>1. L \in Seq(EventTypes)
  BY DEF Base, TypeOK
<1>2. /\ Conclusions(s) = {i \in DOMAIN L : L[i] \in TerminalEvents}
      /\ Asks(s) = {i \in DOMAIN L : L[i] = "run:cancel-requested"}
      /\ Conclusions(s)' = {i \in DOMAIN log'[s] : log'[s][i] \in TerminalEvents}
      /\ Asks(s)' = {i \in DOMAIN log'[s] : log'[s][i] = "run:cancel-requested"}
  BY DEF Conclusions, Asks, Places
<1>3. DOMAIN L = 1..Len(L) /\ Len(L) \in Nat
  BY <1>1
<1>4. \A i \in Conclusions(s) \cup Asks(s) : i \in Nat /\ i < Len(L) + 1
  BY <1>2, <1>3
<1>5. ASSUME log'[s] = L \/ log'[s] = SubSeq(L, 1, Len(L) - 1)
      PROVE  Conclusions(s)' \subseteq Conclusions(s) /\ Asks(s)' \subseteq Asks(s)
  <2>1. \A i \in DOMAIN log'[s] : i \in DOMAIN L /\ log'[s][i] = L[i]
    BY <1>1, <1>3, <1>5
  <2> QED
    BY <1>2, <2>1
<1>6. ASSUME NEW e \in EventTypes, Appends(s, e) PROVE
        /\ DOMAIN log'[s] = 1..(Len(L) + 1)
        /\ \A i \in 1..Len(L) : log'[s][i] = L[i]
        /\ log'[s][Len(L) + 1] = e
  BY <1>1, <1>6 DEF Appends
<1>7. ASSUME NEW e \in EventTypes, Appends(s, e) PROVE
        /\ Conclusions(s)' \subseteq Conclusions(s)
           \/ (e \in TerminalEvents /\ Conclusions(s)' \subseteq Conclusions(s) \cup {Len(L) + 1})
        /\ Asks(s)' \subseteq Asks(s)
           \/ (e = "run:cancel-requested" /\ Asks(s)' \subseteq Asks(s) \cup {Len(L) + 1})
        /\ Conclusions(s) \subseteq Conclusions(s)'
  <2>1. /\ DOMAIN log'[s] = 1..(Len(L) + 1)
        /\ \A i \in 1..Len(L) : log'[s][i] = L[i]
        /\ log'[s][Len(L) + 1] = e
    BY <1>6, <1>7
  <2>2. \A i \in DOMAIN log'[s] : i \in DOMAIN L \/ i = Len(L) + 1
    BY <1>3, <2>1
  <2>3. \A i \in DOMAIN L : i \in DOMAIN log'[s] /\ log'[s][i] = L[i]
    BY <1>3, <2>1
  <2>4. Conclusions(s) \subseteq Conclusions(s)'
    BY <1>2, <2>3
  <2>5. \/ Conclusions(s)' \subseteq Conclusions(s)
        \/ e \in TerminalEvents /\ Conclusions(s)' \subseteq Conclusions(s) \cup {Len(L) + 1}
    BY <1>2, <2>1, <2>2, <2>3
  <2>6. \/ Asks(s)' \subseteq Asks(s)
        \/ e = "run:cancel-requested" /\ Asks(s)' \subseteq Asks(s) \cup {Len(L) + 1}
    BY <1>2, <2>1, <2>2, <2>3
  <2> QED
    BY <2>4, <2>5, <2>6
<1>8. "run:cancel-requested" \notin TerminalEvents
  BY DEF TerminalEvents
<1> QED
  BY <1>2, <1>3, <1>4, <1>5, <1>7, <1>8, LogSteps DEF Appends

(* Up to its concluding event a run has no conclusion in its log; one that *)
(* has is owned, lost, or at rest in a terminal row.  There is one. *)
Before == Early \cup Started \cup Proposing \cup {"commit-row", "commit-event"}

Final(r) ==
  /\ exec[r] \in Before => Conclusions(r) = {}
  /\ Conclusions(r) # {} =>
       r \in owners \/ exec[r] = "lost" \/ (row[r].status \in Terminal /\ tool[r] = "idle")
  /\ exec[r] = "early-event" => row[r].status \in Terminal
  /\ \A i, j \in Conclusions(r) : i = j

(* A request was let in by a run without a conclusion, and concludes it in *)
(* the row first. *)
Open(c) ==
  /\ call[c] \in CallGated => Conclusions(Target[c]) = {}
  /\ call[c] = "event" => row[Target[c]].status \in Terminal

Finals == (\A r \in Runs : Final(r)) /\ (\A c \in Cancels : Open(c))

(* A step that concludes a run finds it without a conclusion and leaves it *)
(* owned or at rest. *)
LEMMA ConcludingSteps ==
  ASSUME Base, Staged, Finals, NEW s \in Runs, Concludes(s)
  PROVE  /\ Conclusions(s) = {}
         /\ exec'[s] \notin Before /\ exec'[s] # "early-event"
         /\ (s \in owners /\ s \in owners') \/ (row'[s].status \in Terminal /\ tool'[s] = "idle")
<1>a. exec \in [Runs -> ExecPcs] /\ StageOf(s) /\ Final(s)
  BY DEF Base, TypeOK, Staged, Finals
<1>1. CASE EarlyEvent(s)
  <2>1. exec[s] = "early-event" /\ exec'[s] = "finished" /\ UNCHANGED <<row, tool>>
    BY <1>1, <1>a DEF EarlyEvent, At, Goto
  <2> QED
    BY <2>1, <1>a DEF Final, Before, Early, Started, Proposing, StageOf, Touched, Committing, Over
<1>2. CASE CommitEvent(s)
  <2>1. exec[s] = "commit-event" /\ exec'[s] = "commit-statistics" /\ UNCHANGED owners
    BY <1>2, <1>a DEF CommitEvent, At, Goto
  <2> QED
    BY <2>1, <1>a DEF Final, Before, Early, Started, Proposing, StageOf, Committing
<1>3. ASSUME NEW c \in Cancels, Target[c] = s, CancelEvent(c)
      PROVE  /\ Conclusions(s) = {}
             /\ exec'[s] \notin Before
             /\ row'[s].status \in Terminal /\ tool'[s] = "idle"
  <2>1. call[c] = "event" /\ UNCHANGED <<row, exec, tool>>
    BY <1>3 DEF CancelEvent, Calling
  <2>2. Asked(c) /\ Open(c) /\ exec[s] \notin ExecGated
    BY <1>3, <2>1, Exclusions DEF Staged, Finals, CallGated
  <2>3. exec[s] \notin Started \cup Proposing \cup Committing /\ s \notin owners
    BY <1>3, <2>1, <2>2, <1>a DEF Asked, StageOf, CallGated
  <2>4. exec[s] \notin Before
    BY <2>2, <2>3 DEF Before, Early, Committing, ExecGated
  <2>5. tool[s] = "idle"
    BY <2>3, <1>a DEF StageOf, Touched, Started
  <2> QED
    BY <1>3, <2>1, <2>2, <2>4, <2>5 DEF Open, CallGated
<1>4. "early-event" \in Before
  BY DEF Before, Early
<1> QED
  BY <1>1, <1>2, <1>3, <1>4 DEF Concludes

(* No other step makes room for a second conclusion. *)
LEMMA NextFinal ==
  ASSUME Base, Staged, Finals, [Next]_vars, NEW s \in Runs PROVE Final(s)'
<1>a. /\ row \in [Runs -> [status : Status, stop : Stops]] /\ exec \in [Runs -> ExecPcs]
      /\ tool \in [Runs -> ToolPcs] /\ owners \subseteq Runs
      /\ StageOf(s) /\ Final(s)
  BY DEF Base, TypeOK, Staged, Finals
<1>b. \A r \in Runs : StatusOf(stop[r]) \in Terminal
  BY StatusOfFacts
<1>c. ASSUME Concludes(s) PROVE Final(s)'
  <2>1. \A i, j \in Conclusions(s)' : i = j
    BY <1>c, ConcludingSteps, PlaceSteps
  <2> QED
    BY <1>c, <2>1, ConcludingSteps DEF Final
<1>d. ASSUME ~Concludes(s) PROVE Conclusions(s)' \subseteq Conclusions(s)
  BY <1>d, PlaceSteps
<1> DEFINE Rest ==
      /\ exec'[s] \in Before => Conclusions(s) = {}
      /\ Conclusions(s) # {} =>
           s \in owners' \/ exec'[s] = "lost" \/ (row'[s].status \in Terminal /\ tool'[s] = "idle")
      /\ exec'[s] = "early-event" => row'[s].status \in Terminal
<1> SUFFICES ASSUME ~Concludes(s) PROVE Rest
  BY <1>c, <1>d, <1>a DEF Final
<1>e. Before = {"early-stopped", "early-row", "early-event", "starting", "announcing", "launching",
                "working", "stopping", "teardown", "closing", "commit", "commit-row", "commit-event"}
  BY DEF Before, Early, Started, Proposing
<1> USE <1>a, <1>e DEF Final, StageOf, Started, Proposing, Committing, Over, Touched
<1>1. ASSUME NEW r \in Runs, Admission(r) PROVE Rest
  BY <1>1 DEF Admission, CreateRun, StartRunExecution, At, Goto, Store, Terminal
<1>2. ASSUME NEW r \in Runs, Claim(r) PROVE Rest
  <2>1. CASE EarlyRow(r)
    BY <2>1, <1>b DEF EarlyRow, At, Goto, Store
  <2>2. CASE ClaimActive(r) \/ ClaimEndsEarly(r)
    <3>1. s = r => Conclusions(s) = {}
      BY <2>2 DEF ClaimActive, ClaimEndsEarly, At, Claimable, Terminal
    <3> QED
      BY <2>2, <3>1 DEF ClaimActive, ClaimEndsEarly, At, Goto
  <2> QED
    BY <1>2, <2>1, <2>2 DEF Claim, ExecuteRun, ClaimRefused, EarlyStopped, EarlyEvent, At, Goto
<1>3. ASSUME NEW r \in Runs, Loop(r) PROVE Rest
  BY <1>3 DEF Loop, StartRow, StartEvent, LaunchBrowser, LeaveFinished, LeaveIncomplete,
              Throw, RecordStopped, At, Goto, StoreRunning
<1>4. ASSUME NEW r \in Runs, ToolStep(r) PROVE Rest
  BY <1>4 DEF ToolStep, StartTool, DispatchWrite, SettleAction, FailAction, RecordAction,
              PersistUsage, FinishTool, AcceptFinish, RecordFinish, At, Tool, StoreRunning
<1>5. ASSUME NEW r \in Runs, Timers(r) PROVE Rest
  BY <1>5 DEF Timers, RunTimeout, ToolTimeout
<1>6. ASSUME NEW r \in Runs, Commit(r) PROVE Rest
  <2>1. CASE CommitRow(r) \/ QuarantineRow(r)
    BY <2>1, <1>b DEF CommitRow, QuarantineRow, At, Goto, Store
  <2> QED
    BY <1>6, <2>1 DEF Commit, Teardown, ProposeTerminal, CommitRun, CommitEvent,
       CommitStatistics, VerifyCommit, QuarantineEvent, Dequeue, At, Goto
<1>7. ASSUME NEW r \in Runs, RunFault(r) PROVE Rest
  <2>1. CASE CommitFails(r)
    BY <2>1 DEF CommitFails, Goto
  <2> QED
    BY <1>7, <2>1 DEF RunFault, CloseFails, ClaimFails, LoopFails, ToolFails, AfterToolFailure,
       LoseEvent, At, Goto
<1>8. ASSUME NEW c \in Cancels, CancelStep(c) \/ CancelFails(c) PROVE Rest
  <2>1. CASE CancelRow(c)
    BY <2>1 DEF CancelRow, Store, Terminal
  <2> QED
    BY <1>8, <2>1 DEF CancelStep, CancelFails, CancelRoute, CancelEnter, CancelRefused,
       CancelAgain, CancelDecided, CancelPersist, CancelEvent
<1>9. CASE Reconcile
  BY <1>9, ReconcileFrame DEF Reconcile, ReconcileSelect, ReconcileCheck, ReconcileUpdate,
              ReconcileClear, ReconcileRecord
<1>10. CASE Crash
  BY <1>10 DEF Crash, Terminal
<1>11. CASE Restart
  BY <1>11 DEF Restart, Serve, RestartRow, RestartEvent, Store, Terminal
<1>12. CASE UNCHANGED vars
  BY <1>12 DEF vars
<1> QED
  BY <1>1, <1>2, <1>3, <1>4, <1>5, <1>6, <1>7, <1>8, <1>9, <1>10, <1>11, <1>12 DEF Next

(* No step concludes a run that a request is about to conclude. *)
LEMMA NextOpen ==
  ASSUME Base, Staged, Finals, [Next]_vars, NEW c \in Cancels PROVE Open(c)'
<1> DEFINE t == Target[c]
<1>a. /\ row \in [Runs -> [status : Status, stop : Stops]] /\ exec \in [Runs -> ExecPcs]
      /\ call \in [Cancels -> CallPcs] /\ t \in Runs /\ boot \in {"up", "down"}
      /\ StageOf(t) /\ Final(t) /\ Asked(c) /\ Open(c)
  BY RunConstants DEF Base, TypeOK, Staged, Finals
<1>b. call[c] \in CallGated => exec[t] \notin ExecGated
  BY <1>a, Exclusions
<1>c. ASSUME call[c] \in CallGated, call'[c] \in CallGated PROVE ~Concludes(t)
  <2>1. ASSUME NEW d \in Cancels, Target[d] = t, CancelEvent(d) PROVE FALSE
    <3>1. d = c
      BY <1>c, <2>1, Exclusions DEF CancelEvent, Calling, CallGated
    <3> QED
      BY <1>a, <1>c, <2>1, <3>1 DEF CancelEvent, Calling, CallGated
  <2> QED
    BY <1>b, <1>c, <2>1 DEF Concludes, EarlyEvent, CommitEvent, At, ExecGated
<1>d. call[c] \in CallGated /\ call'[c] \in CallGated => Conclusions(t)' \subseteq Conclusions(t)
  BY <1>a, <1>c, PlaceSteps
<1>e. ASSUME CancelDecided(c) PROVE Conclusions(t)' = {}
  <2>1. boot = "up" /\ t \notin owners /\ row[t].status \in {"queued", "running"} /\ UNCHANGED log
    BY <1>e DEF CancelDecided, Calling, Cancellable
  <2>2. Conclusions(t) = {}
    BY <2>1, <1>a DEF Final, StageOf, Terminal
  <2> QED
    BY <2>1, <2>2 DEF Conclusions, Places
<1>f. call[c] = "event" => exec[t] \notin {"absent", "lost"} \cup Started \cup Proposing \cup Committing
                           /\ tool[t] = "idle" /\ boot = "up"
  BY <1>a DEF Asked, StageOf, CallGated, Touched, Started
<1> DEFINE Rest == /\ call[c] \notin CallGated /\ call'[c] \in CallGated => CancelDecided(c)
                   /\ call'[c] = "event" => row'[t].status \in Terminal
<1> SUFFICES Rest
  BY <1>a, <1>d, <1>e DEF Open
<1>g. /\ call[c] = "event" => row[t].status \in Terminal
      /\ \A r \in Runs : StatusOf(stop[r]) \in Terminal
      /\ {"cancelled", "interrupted"} \subseteq Terminal
  BY <1>a, StatusOfFacts DEF Open, Terminal
<1> USE <1>a, <1>f, <1>g DEF CallGated
<1>1. ASSUME NEW r \in Runs, Admission(r) PROVE Rest
  BY <1>1 DEF Admission, CreateRun, StartRunExecution, At, Store
<1>2. ASSUME NEW r \in Runs, Claim(r) PROVE Rest
  BY <1>2 DEF Claim, ExecuteRun, ClaimRefused, ClaimEndsEarly, ClaimActive, EarlyStopped,
              EarlyRow, EarlyEvent, Store
<1>3. ASSUME NEW r \in Runs, Loop(r) PROVE Rest
  BY <1>3 DEF Loop, StartRow, StartEvent, LaunchBrowser, LeaveFinished, LeaveIncomplete,
              Throw, RecordStopped, At, StoreRunning, Started
<1>4. ASSUME NEW r \in Runs, ToolStep(r) PROVE Rest
  BY <1>4 DEF ToolStep, StartTool, DispatchWrite, SettleAction, FailAction, RecordAction,
              PersistUsage, FinishTool, AcceptFinish, RecordFinish, Tool, StoreRunning
<1>5. ASSUME NEW r \in Runs, Timers(r) PROVE Rest
  BY <1>5, TimersFrame
<1>6. ASSUME NEW r \in Runs, Commit(r) PROVE Rest
  BY <1>6 DEF Commit, Teardown, ProposeTerminal, CommitRun, CommitRow, CommitEvent,
              CommitStatistics, VerifyCommit, QuarantineRow, QuarantineEvent, Dequeue, Store
<1>7. ASSUME NEW r \in Runs, RunFault(r) PROVE Rest
  BY <1>7 DEF RunFault, CloseFails, ClaimFails, LoopFails, ToolFails, CommitFails, LoseEvent
<1>8. ASSUME NEW d \in Cancels, CancelStep(d) \/ CancelFails(d) PROVE Rest
  <2>1. CASE CancelRow(d)
    BY <2>1, RunConstants DEF CancelRow, Calling, Store
  <2>2. CASE CancelDecided(d) \/ CancelPersist(d)
    BY <2>2 DEF CancelDecided, CancelPersist, Calling
  <2> QED
    BY <1>8, <2>1, <2>2 DEF CancelStep, CancelFails, CancelRoute, CancelEnter, CancelRefused,
       CancelAgain, CancelEvent, Calling
<1>9. CASE Reconcile
  BY <1>9 DEF Reconcile, ReconcileSelect, ReconcileCheck, ReconcileUpdate,
              ReconcileClear, ReconcileRecord
<1>10. CASE Crash
  BY <1>10 DEF Crash
<1>11. CASE Restart
  BY <1>11 DEF Restart, Serve, RestartRow, RestartEvent, Store
<1>12. CASE UNCHANGED vars
  BY <1>12 DEF vars
<1> QED
  BY <1>1, <1>2, <1>3, <1>4, <1>5, <1>6, <1>7, <1>8, <1>9, <1>10, <1>11, <1>12 DEF Next

(* The conclusions keep their place in every reachable state. *)
LEMMA ConcludedInvariant == Spec => []Finals
<1>1. Init => Finals
  BY RunConstants DEF Init, Finals, Final, Open, Conclusions, Places, CallGated
<1>2. Base /\ Staged /\ Finals /\ [Next]_vars => Finals'
  BY NextFinal, NextOpen DEF Finals
<1> QED
  BY <1>1, <1>2, BaseInvariant, StagedInvariant, PTL DEF Spec

(* A set whose members are all equal has at most one. *)
LEMMA AtMostOne ==
  ASSUME NEW S, \A i, j \in S : i = j PROVE Cardinality(S) <= 1
<1>1. CASE S = {}
  BY <1>1, FS_EmptySet
<1>2. ASSUME NEW x \in S PROVE Cardinality(S) <= 1
  <2>1. S = {x}
    OBVIOUS
  <2> QED
    BY <2>1, FS_Singleton
<1> QED
  BY <1>1, <1>2

(* The early refusal, the cancellation of a queued run and the terminal    *)
(* commit (executor.ts, run-queue.ts) each write a concluding event: the   *)
(* gate, the owners and the restart leave a run with one of them at most.  *)
THEOREM ConclusionIsUnique == Spec => []ConcludedOnce
<1>1. Finals => ConcludedOnce
  BY AtMostOne DEF Finals, Final, Conclusions, ConcludedOnce
<1> QED
  BY <1>1, ConcludedInvariant, PTL

-----------------------------------------------------------------------------
(* How often a request to cancel is recorded.                              *)

Waiting == {"created", "queued", "claim"}

(* Without faults: a recorded request is remembered until the run leaves   *)
(* the queue, a run that left without a commit has a terminal row, and one *)
(* that waits with a request is being ended, or was. *)
Requested(r) ==
  upsets = 0 =>
    /\ \A i, j \in Asks(r) : i = j
    /\ Asks(r) # {} => r \in requests \/ exec[r] = "gone"
    /\ exec[r] \in Over => r \in owners \/ row[r].status \in Terminal
    /\ exec[r] \in Waiting => row[r].status \in Terminal \cup {"queued"}
    /\ r \in requests => exec[r] # "absent"
    /\ r \in requests /\ exec[r] \in Waiting =>
         row[r].status \in Terminal \/ \E c \in Cancels : Target[c] = r /\ call[c] = "row"

(* A request that is about to be recorded is the first of its run.         *)
Fresh(c) ==
  upsets = 0 /\ call[c] = "persisting" => Target[c] \notin requests /\ exec[Target[c]] \notin Over

Counted ==
  /\ \A r \in Runs : Requested(r) /\ \A i \in Asks(r), j \in Conclusions(r) : i < j
  /\ \A c \in Cancels : Fresh(c)

(* A request is recorded before the conclusion, or not at all. *)
LEMMA NextOrdered ==
  ASSUME Base, Finals, Counted, [Next]_vars, NEW s \in Runs
  PROVE  \A i \in Asks(s)', j \in Conclusions(s)' : i < j
<1>1. \A i \in Asks(s), j \in Conclusions(s) : i < j
  BY DEF Counted
<1>2. Requests(s) => Conclusions(s) = {}
  BY DEF Requests, CancelPersist, Calling, Finals, Open, CallGated
<1> QED
  BY <1>1, <1>2, PlaceSteps

(* No step without a fault forgets a recorded request. *)
LEMMA NextRequested ==
  ASSUME Base, Staged, Finals, Counted, [Next]_vars, NEW s \in Runs PROVE Requested(s)'
<1>a. /\ row \in [Runs -> [status : Status, stop : Stops]] /\ exec \in [Runs -> ExecPcs]
      /\ call \in [Cancels -> CallPcs] /\ owners \subseteq Runs /\ requests \subseteq Runs
      /\ upsets \in Nat /\ boot \in {"up", "down"}
      /\ StageOf(s) /\ Final(s) /\ Requested(s)
  BY DEF Base, TypeOK, Staged, Finals, Counted
<1>b. ASSUME Requests(s), upsets = 0
      PROVE  /\ Asks(s) = {} /\ s \in requests'
             /\ \A i, j \in Asks(s)' : i = j
  <2>1. PICK c \in Cancels : Target[c] = s /\ CancelPersist(c)
    BY <1>b DEF Requests
  <2>2. Fresh(c) /\ call[c] = "persisting"
    BY <2>1 DEF CancelPersist, Calling, Counted
  <2>3. Asks(s) = {}
    BY <1>a, <1>b, <2>1, <2>2 DEF Fresh, Requested, Over
  <2> QED
    BY <2>1, <2>3, PlaceSteps DEF CancelPersist
<1>c. ~Requests(s) => Asks(s)' \subseteq Asks(s)
  BY PlaceSteps
<1> DEFINE Rest == upsets' = 0 =>
      /\ upsets = 0
      /\ s \in requests => s \in requests' \/ exec'[s] = "gone"
      /\ exec[s] = "gone" => exec'[s] = "gone"
      /\ exec'[s] \in Over => s \in owners' \/ row'[s].status \in Terminal
      /\ exec'[s] \in Waiting => row'[s].status \in Terminal \cup {"queued"}
      /\ s \in requests' => exec'[s] # "absent"
      /\ s \in requests' /\ exec'[s] \in Waiting =>
           row'[s].status \in Terminal \/ \E c \in Cancels : Target[c] = s /\ call'[c] = "row"
<1> SUFFICES Rest
  BY <1>a, <1>b, <1>c DEF Requested
<1>d. \A r \in Runs : StatusOf(stop[r]) \in Terminal
  BY StatusOfFacts
<1>e. {"cancelled", "interrupted"} \subseteq Terminal
  BY DEF Terminal
<1> USE <1>a, <1>e DEF Requested, StageOf, Waiting, Over, Touched, Started, Proposing, Committing
<1>1. ASSUME NEW r \in Runs, Admission(r) PROVE Rest
  BY <1>1 DEF Admission, CreateRun, StartRunExecution, At, Goto, Store
<1>2. ASSUME NEW r \in Runs, Claim(r) PROVE Rest
  <2>1. CASE EarlyRow(r)
    BY <2>1, <1>d DEF EarlyRow, At, Goto, Store
  <2>2. CASE ClaimRefused(r)
    <3>1. \A c \in Cancels : Target[c] = r => call[c] # "row"
      BY <2>2, Exclusions DEF ClaimRefused, CallGated
    <3> QED
      BY <2>2, <3>1 DEF ClaimRefused, At, Goto, Claimable
  <2>3. CASE EarlyEvent(r)
    BY <2>3 DEF EarlyEvent, At, Goto, Final
  <2> QED
    BY <1>2, <2>1, <2>2, <2>3 DEF Claim, ExecuteRun, ClaimEndsEarly, ClaimActive, EarlyStopped, At, Goto
<1>3. ASSUME NEW r \in Runs, Loop(r) PROVE Rest
  BY <1>3 DEF Loop, StartRow, StartEvent, LaunchBrowser, LeaveFinished, LeaveIncomplete,
              Throw, RecordStopped, At, Goto, StoreRunning
<1>4. ASSUME NEW r \in Runs, ToolStep(r) PROVE Rest
  BY <1>4 DEF ToolStep, StartTool, DispatchWrite, SettleAction, FailAction, RecordAction,
              PersistUsage, FinishTool, AcceptFinish, RecordFinish, At, Tool, StoreRunning
<1>5. ASSUME NEW r \in Runs, Timers(r) PROVE Rest
  BY <1>5 DEF Timers, RunTimeout, ToolTimeout
<1>6. ASSUME NEW r \in Runs, Commit(r) PROVE Rest
  <2>1. CASE CommitRow(r) \/ QuarantineRow(r)
    BY <2>1, <1>d DEF CommitRow, QuarantineRow, At, Goto, Store
  <2> QED
    BY <1>6, <2>1 DEF Commit, Teardown, ProposeTerminal, CommitRun, CommitEvent,
       CommitStatistics, VerifyCommit, QuarantineEvent, Dequeue, At, Goto
<1>7. ASSUME NEW r \in Runs, RunFault(r) PROVE Rest
  BY <1>7 DEF RunFault, CloseFails, ClaimFails, LoopFails, ToolFails, CommitFails, LoseEvent, Upset
<1>8. ASSUME NEW c \in Cancels, CancelStep(c) \/ CancelFails(c) PROVE Rest
  <2>1. CASE CancelRow(c)
    BY <2>1, RunConstants DEF CancelRow, Calling, Store
  <2>2. CASE CancelPersist(c)
    <3>1. (exec[Target[c]] \in Waiting => call'[c] = "row") /\ exec[Target[c]] # "absent"
      BY <2>2, RunConstants DEF CancelPersist, Calling, Staged, Asked
    <3> QED
      BY <2>2, <3>1, RunConstants DEF CancelPersist, Calling
  <2>3. CASE CancelFails(c)
    BY <2>3 DEF CancelFails, Upset
  <2> QED
    BY <1>8, <2>1, <2>2, <2>3 DEF CancelStep, CancelRoute, CancelEnter, CancelRefused,
       CancelAgain, CancelDecided, CancelEvent, Calling
<1>9. CASE Reconcile
  BY <1>9 DEF Reconcile, ReconcileSelect, ReconcileCheck, ReconcileUpdate,
              ReconcileClear, ReconcileRecord
<1>10. CASE Crash
  BY <1>10 DEF Crash
<1>11. CASE Restart
  BY <1>11 DEF Restart, Serve, RestartRow, RestartEvent, Store
<1>12. CASE UNCHANGED vars
  BY <1>12 DEF vars
<1> QED
  BY <1>1, <1>2, <1>3, <1>4, <1>5, <1>6, <1>7, <1>8, <1>9, <1>10, <1>11, <1>12 DEF Next

(* No step without a fault remembers a second request of a run. *)
LEMMA NextFresh ==
  ASSUME Base, Staged, Counted, [Next]_vars, NEW c \in Cancels PROVE Fresh(c)'
<1> DEFINE t == Target[c]
<1>a. /\ exec \in [Runs -> ExecPcs] /\ call \in [Cancels -> CallPcs] /\ t \in Runs
      /\ requests \subseteq Runs /\ upsets \in Nat /\ boot \in {"up", "down"}
      /\ Requested(t) /\ Fresh(c) /\ StageOf(t)
  BY RunConstants DEF Base, TypeOK, Counted, Staged
<1>b. call[c] = "persisting" => exec[t] \notin ExecGated /\ ~Inside(t, "exec")
  BY <1>a, Exclusions DEF CallGated
<1> USE <1>a, <1>b DEF Fresh, Over, ExecGated
<1>1. ASSUME NEW r \in Runs, Admission(r) PROVE Fresh(c)'
  BY <1>1 DEF Admission, CreateRun, StartRunExecution, At, Goto
<1>2. ASSUME NEW r \in Runs, Claim(r) PROVE Fresh(c)'
  BY <1>2 DEF Claim, ExecuteRun, ClaimRefused, ClaimEndsEarly, ClaimActive, EarlyStopped,
              EarlyRow, EarlyEvent, At, Goto
<1>3. ASSUME NEW r \in Runs, Loop(r) PROVE Fresh(c)'
  BY <1>3 DEF Loop, StartRow, StartEvent, LaunchBrowser, LeaveFinished, LeaveIncomplete,
              Throw, RecordStopped, At, Goto
<1>4. ASSUME NEW r \in Runs, ToolStep(r) PROVE Fresh(c)'
  BY <1>4 DEF ToolStep, StartTool, DispatchWrite, SettleAction, FailAction, RecordAction,
              PersistUsage, FinishTool, AcceptFinish, RecordFinish
<1>5. ASSUME NEW r \in Runs, Timers(r) PROVE Fresh(c)'
  BY <1>5 DEF Timers, RunTimeout, ToolTimeout
<1>6. ASSUME NEW r \in Runs, Commit(r) PROVE Fresh(c)'
  BY <1>6 DEF Commit, Teardown, ProposeTerminal, CommitRun, CommitRow, CommitEvent,
              CommitStatistics, VerifyCommit, QuarantineRow, QuarantineEvent, Dequeue, At, Goto
<1>7. ASSUME NEW r \in Runs, RunFault(r) PROVE Fresh(c)'
  BY <1>7 DEF RunFault, CloseFails, ClaimFails, LoopFails, ToolFails, CommitFails, LoseEvent, Upset
<1>8. ASSUME NEW d \in Cancels, CancelStep(d) \/ CancelFails(d) PROVE Fresh(c)'
  <2>1. CASE CancelDecided(d)
    BY <2>1 DEF CancelDecided, Calling, Cancellable, Requested, Terminal
  <2>2. CASE CancelPersist(d)
    <3>1. call[c] = "persisting" /\ Target[d] = t => c = d
      BY <2>2, Exclusions DEF CancelPersist, Calling, CallGated
    <3> QED
      BY <2>2, <3>1 DEF CancelPersist, Calling
  <2> QED
    BY <1>8, <2>1, <2>2 DEF CancelStep, CancelFails, CancelRoute, CancelEnter, CancelRefused,
       CancelAgain, CancelRow, CancelEvent, Calling, Upset
<1>9. CASE Reconcile
  BY <1>9 DEF Reconcile, ReconcileSelect, ReconcileCheck, ReconcileUpdate,
              ReconcileClear, ReconcileRecord
<1>10. CASE Crash
  BY <1>10 DEF Crash
<1>11. CASE Restart
  BY <1>11 DEF Restart, Serve, RestartRow, RestartEvent
<1>12. CASE UNCHANGED vars
  BY <1>12 DEF vars
<1> QED
  BY <1>1, <1>2, <1>3, <1>4, <1>5, <1>6, <1>7, <1>8, <1>9, <1>10, <1>11, <1>12 DEF Next

(* A refused or late request leaves no trace after the conclusion, and     *)
(* without storage faults concurrent requests are recorded as one          *)
(* (run-queue.ts: the request is remembered before the gate opens again).  *)
THEOREM RequestsAreOrdered == Spec => []CancelRecordOrdered
<1>1. Init => Counted
  BY RunConstants DEF Init, Counted, Requested, Fresh, Asks, Conclusions, Places, Over, Waiting
<1>2. Base /\ Staged /\ Finals /\ Counted /\ [Next]_vars => Counted'
  BY NextOrdered, NextRequested, NextFresh DEF Counted
<1>3. Counted => CancelRecordOrdered
  BY AtMostOne DEF Counted, Requested, Asks, Conclusions, CancelRecordOrdered
<1> QED
  BY <1>1, <1>2, <1>3, BaseInvariant, StagedInvariant, ConcludedInvariant, PTL DEF Spec

-----------------------------------------------------------------------------
(* What a run that claims an honest conclusion has left in its log.        *)

(* Where a run may be when its row asks for reconciliation, and where when *)
(* its loop ended by itself. *)
Settled == AfterRow \cup {"early-event"}
LoopEnded == {"teardown", "closing", "commit", "commit-row"} \cup AfterRow

(* A claim was written by the commit, for the reason the executor proposed *)
(* when no tool was under way, and no reconciliation is about it. *)
Traced(r) ==
  /\ stop[r] \in Claims => exec[r] \in LoopEnded /\ tool[r] \in {"idle", "finished"}
  /\ Claimed(r) =>
       /\ exec[r] \in AfterRow \ {"quarantine-event"}
       /\ stop[r] \in Claims
       /\ row[r] = [status |-> StatusOf(stop[r]), stop |-> stop[r]]
       /\ r \in owners \/ exec[r] = "lost"
  /\ row[r].stop = "reconciliation-required" => exec[r] \in Settled
  /\ r \in ack.rows => exec[r] \in Settled /\ ~Claimed(r)

(* Without faults the log of an active run is what was acknowledged, an    *)
(* accepted finish is in it, and so is what the commit has appended.       *)
Flawless(r) ==
  upsets = 0 =>
    /\ boot = "up"
    /\ active[r] # "none" => Len(log[r]) = told[r]
    /\ exec[r] \in {"absent", "created", "queued", "claim"} /\ r \notin requests =>
         log[r] = << >> /\ told[r] = 0
    /\ tool[r] = "finished" \/ stop[r] \in {"goal-reached", "blocked"} =>
         Has(r, "finish:accepted")
    /\ Claimed(r) /\ exec[r] \in {"commit-statistics", "verify"} => Has(r, "run:completed")
    /\ Claimed(r) /\ exec[r] = "verify" =>
         log[r] # << >> /\ log[r][Len(log[r])] = "run:statistics"

Whole(r) ==
  /\ Has(r, "run:completed")
  /\ Len(log[r]) >= told[r]
  /\ row[r].stop # "finish-incomplete" => Has(r, "finish:accepted")

(* A claim that left the commit is whole, or two faults have closed the    *)
(* process behind it. *)
Standing(r) ==
  /\ Claimed(r) /\ exec[r] \in Over =>
       Whole(r) \/ (upsets >= 2 /\ (quarantine \/ acks > 0))
  /\ Claimed(r) /\ exec[r] = "quarantine-row" => upsets >= 1

History ==
  /\ \A r \in Runs : Traced(r) /\ Flawless(r) /\ Standing(r)
  /\ ack.pc # "idle" => acks > 0

(* Only the three reasons of a claim are stored as one. *)
LEMMA ClaimedReasons ==
  /\ \A reason \in Reasons :
       StatusOf(reason) \in {"completed", "blocked"} <=> reason \in Claims
  /\ \A reason \in Reasons : StoredReason(reason) = "reconciliation-required"
                                <=> reason = "reconciliation-required"
BY DEF Reasons, StatusOf, StoredReason, Claims

(* What is caught or committed is a claim only if it was proposed. *)
LEMMA OtherReasons ==
  /\ \A r \in Runs : CaughtReasons(r) \cap Claims = {}
  /\ \A r \in Runs : CommittedReason(r) \in Claims => CommittedReason(r) = stop[r]
BY DEF CaughtReasons, CommittedReason, Claims

(* No step makes a claim of its own. *)
LEMMA NextTraced ==
  ASSUME Base, Staged, History, [Next]_vars, NEW s \in Runs PROVE Traced(s)'
<1> USE DEF Traced, Claimed
<1>a. /\ row \in [Runs -> [status : Status, stop : Stops]]
      /\ exec \in [Runs -> ExecPcs] /\ stop \in [Runs -> Reasons]
      /\ tool \in [Runs -> ToolPcs] /\ ack.rows \subseteq Runs /\ owners \subseteq Runs
      /\ \A r \in Runs : stop[r] \in Reasons
  BY DEF Base, TypeOK
<1>b. \A r \in Runs : Traced(r) /\ StageOf(r)
  BY DEF Staged, History
<1>c. "reconciliation-required" \notin Claims
  BY DEF Claims
<1> USE <1>a, <1>b, <1>c DEF LoopEnded, Settled, AfterRow
<1>1. ASSUME NEW r \in Runs, Admission(r) PROVE Traced(s)'
  BY <1>1 DEF Admission, CreateRun, StartRunExecution, At, Goto, Store
<1>2. ASSUME NEW r \in Runs, Claim(r) PROVE Traced(s)'
  <2>1. CASE EarlyRow(r)
    BY <2>1, ClaimedReasons DEF EarlyRow, At, Goto, Store
  <2>2. CASE ClaimEndsEarly(r)
    BY <2>2 DEF ClaimEndsEarly, At, Goto, Claims
  <2> QED
    BY <1>2, <2>1, <2>2 DEF Claim, ExecuteRun, ClaimRefused, ClaimActive, EarlyStopped,
       EarlyEvent, At, Goto
<1>3. ASSUME NEW r \in Runs, Loop(r) PROVE Traced(s)'
  <2>1. CASE StartRow(r)
    BY <2>1 DEF StartRow, At, Goto, StoreRunning
  <2>2. CASE Throw(r)
    <3>1. PICK reason \in Reasons \ Claims : stop' = [stop EXCEPT ![r] = reason]
      BY <2>2, OtherReasons, ReasonTyped DEF Throw, Base, Reasons, Claims
    <3>2. exec' = [exec EXCEPT ![r] = "stopping"] /\ UNCHANGED <<row, owners, tool, ack>>
      BY <2>2 DEF Throw, Goto
    <3> QED
      BY <3>1, <3>2, <2>2 DEF Throw, At
  <2> QED
    BY <1>3, <2>1, <2>2 DEF Loop, StartEvent, LaunchBrowser, LeaveFinished, LeaveIncomplete,
       RecordStopped, At, Goto
<1>4. ASSUME NEW r \in Runs, ToolStep(r) PROVE Traced(s)'
  <2>1. CASE PersistUsage(r)
    BY <2>1 DEF PersistUsage, Tool, StoreRunning
  <2> QED
    BY <1>4, <2>1 DEF ToolStep, StartTool, DispatchWrite, SettleAction, FailAction, RecordAction,
       FinishTool, AcceptFinish, RecordFinish, At, Tool
<1>5. ASSUME NEW r \in Runs, Timers(r) PROVE Traced(s)'
  BY <1>5 DEF Timers, RunTimeout, ToolTimeout
<1>6. ASSUME NEW r \in Runs, Commit(r) PROVE Traced(s)'
  <2>1. CASE CommitRow(r)
    <3>1. r \in owners
      BY <2>1 DEF CommitRow, At, StageOf, Committing
    <3> QED
      BY <2>1, <3>1, ClaimedReasons DEF CommitRow, At, Goto, Store
  <2>2. CASE CommitRun(r)
    BY <2>2, OtherReasons DEF CommitRun, At, Goto
  <2>3. CASE ProposeTerminal(r) \/ Teardown(r)
    BY <2>3 DEF ProposeTerminal, Teardown, At, Goto
  <2>4. CASE QuarantineRow(r)
    BY <2>4 DEF QuarantineRow, At, Goto, Store
  <2> QED
    BY <1>6, <2>1, <2>2, <2>3, <2>4 DEF Commit, CommitEvent, CommitStatistics, VerifyCommit,
       QuarantineEvent, Dequeue, At, Goto
<1>7. ASSUME NEW r \in Runs, RunFault(r) PROVE Traced(s)'
  <2>1. CASE LoopFails(r)
    BY <2>1, OtherReasons DEF LoopFails, At, Goto
  <2>2. CASE ToolFails(r)
    BY <2>2 DEF ToolFails, AfterToolFailure
  <2> QED
    BY <1>7, <2>1, <2>2 DEF RunFault, CloseFails, ClaimFails, CommitFails, LoseEvent, At, Goto
<1>8. ASSUME NEW c \in Cancels, CancelStep(c) \/ CancelFails(c) PROVE Traced(s)'
  <2>1. CASE CancelRow(c)
    BY <2>1 DEF CancelRow, Store
  <2> QED
    BY <1>8, <2>1, CancelFrame DEF CancelStep, CancelFails, CancelRoute, CancelEnter,
       CancelRefused, CancelAgain, CancelDecided, CancelPersist, CancelEvent
<1>9. CASE Reconcile
  <2>1. CASE ReconcileSelect
    BY <2>1 DEF ReconcileSelect, QuarantinedRows
  <2>2. CASE ReconcileUpdate
    <3>1. Claimed(s)' <=> Claimed(s)
      BY <2>2 DEF ReconcileUpdate
    <3>2. row'[s] = row[s] \/ (~Claimed(s) /\ row'[s].stop = "queue-empty")
      BY <2>2 DEF ReconcileUpdate
    <3>3. ack'.rows = ack.rows
      BY <2>2 DEF ReconcileUpdate, Base, TypeOK
    <3> QED
      BY <2>2, <3>1, <3>2, <3>3 DEF ReconcileUpdate
  <2>3. CASE ReconcileCheck \/ ReconcileClear \/ ReconcileRecord
    <3>1. ack'.rows = ack.rows \/ ack'.rows = {}
      BY <2>3 DEF ReconcileCheck, ReconcileClear, ReconcileRecord, Base, TypeOK
    <3> QED
      BY <2>3, <3>1 DEF ReconcileCheck, ReconcileClear, ReconcileRecord
  <2> QED
    BY <1>9, <2>1, <2>2, <2>3 DEF Reconcile
<1>10. CASE Crash
  BY <1>10 DEF Crash
<1>11. CASE Restart
  BY <1>11 DEF Restart, Serve, RestartRow, RestartEvent, Store, StageOf
<1>12. CASE UNCHANGED vars
  BY <1>12 DEF vars
<1> QED
  BY <1>1, <1>2, <1>3, <1>4, <1>5, <1>6, <1>7, <1>8, <1>9, <1>10, <1>11, <1>12 DEF Next

(* Only the commit writes a claim.                                         *)
LEMMA ClaimSteps ==
  ASSUME Base, Staged, History, [Next]_vars, NEW s \in Runs, Claimed(s)'
  PROVE  row'[s] = row[s] \/ CommitRow(s)
<1> USE DEF Claimed
<1>a. /\ row \in [Runs -> [status : Status, stop : Stops]]
      /\ \A r \in Runs : stop[r] \in Reasons
  BY DEF Base, TypeOK
<1>b. \A r \in Runs : exec[r] = "early-row" => stop[r] \notin Claims
  BY DEF History, Traced, LoopEnded, AfterRow
<1>1. ASSUME NEW r \in Runs, EarlyRow(r) PROVE row'[s] = row[s]
  BY <1>a, <1>b, <1>1, ClaimedReasons DEF EarlyRow, At, Store
<1>2. ASSUME NEW r \in Runs, CommitRow(r) PROVE row'[s] = row[s] \/ s = r
  BY <1>a, <1>2 DEF CommitRow, Store
<1>3. ASSUME NEW r \in Runs, StartRow(r) \/ PersistUsage(r) \/ CreateRun(r)
                             \/ QuarantineRow(r) \/ RestartRow(r)
      PROVE  row'[s] = row[s]
  BY <1>a, <1>3 DEF StartRow, PersistUsage, CreateRun, QuarantineRow, RestartRow, Store, StoreRunning
<1>4. ASSUME NEW c \in Cancels, CancelRow(c) PROVE row'[s] = row[s]
  BY <1>a, <1>4 DEF CancelRow, Store
<1>5. CASE ReconcileUpdate
  BY <1>a, <1>5 DEF ReconcileUpdate
<1>6. ASSUME NEW r \in Runs, Admission(r) \/ Claim(r) \/ Loop(r) PROVE row'[s] = row[s]
  BY <1>1, <1>3, <1>6 DEF Admission, StartRunExecution, Claim, ExecuteRun, ClaimRefused,
     ClaimEndsEarly, ClaimActive, EarlyStopped, EarlyEvent, Loop, StartEvent, LaunchBrowser,
     LeaveFinished, LeaveIncomplete, Throw, RecordStopped
<1>7. ASSUME NEW r \in Runs, ToolStep(r) \/ Timers(r) PROVE row'[s] = row[s]
  BY <1>3, <1>7, TimersFrame DEF ToolStep, StartTool, DispatchWrite, SettleAction, FailAction,
     RecordAction, FinishTool, AcceptFinish, RecordFinish
<1>8. ASSUME NEW r \in Runs, Commit(r) PROVE row'[s] = row[s] \/ CommitRow(s)
  BY <1>2, <1>3, <1>8 DEF Commit, Teardown, ProposeTerminal, CommitRun, CommitEvent,
     CommitStatistics, VerifyCommit, QuarantineEvent, Dequeue
<1>9. ASSUME NEW r \in Runs, RunFault(r) PROVE row'[s] = row[s]
  BY <1>9 DEF RunFault, CloseFails, ClaimFails, LoopFails, ToolFails, CommitFails, LoseEvent
<1>10. ASSUME NEW c \in Cancels, CancelStep(c) \/ CancelFails(c) PROVE row'[s] = row[s]
  BY <1>4, <1>10 DEF CancelStep, CancelFails, CancelRoute, CancelEnter, CancelRefused,
     CancelAgain, CancelDecided, CancelPersist, CancelEvent
<1>11. CASE Reconcile
  BY <1>5, <1>11 DEF Reconcile, ReconcileSelect, ReconcileCheck, ReconcileClear, ReconcileRecord
<1>12. CASE Restart
  BY <1>3, <1>12 DEF Restart, Serve, RestartEvent
<1>13. CASE Crash \/ UNCHANGED vars
  BY <1>13 DEF Crash, vars
<1> QED
  BY <1>6, <1>7, <1>8, <1>9, <1>10, <1>11, <1>12, <1>13 DEF Next

(* After a claim only the commit itself and a fault touch the log.         *)
LEMMA TailSteps ==
  ASSUME Base, Staged, Remembered, History, [Next]_vars, NEW s \in Runs,
         Claimed(s), exec[s] # "lost"
  PROVE  \/ log'[s] = log[s] /\ told'[s] = told[s]
         \/ CommitEvent(s) \/ CommitStatistics(s) \/ LoseEvent(s)
<1> DEFINE Same == log'[s] = log[s] /\ told'[s] = told[s]
<1>a. /\ log \in [Runs -> Seq(EventTypes)] /\ told \in [Runs -> Nat]
      /\ exec[s] \in AfterRow \ {"quarantine-event", "lost"}
      /\ tool[s] \in {"idle", "finished"} /\ s \notin ack.rows /\ boot # "down"
      /\ row[s].status \notin Honouring
  BY DEF Base, TypeOK, History, Traced, Claimed, Honouring, Staged, StageOf, AfterRow
<1>b. ASSUME NEW r \in Runs, NEW e, Record(r, e), r # s PROVE Same
  BY <1>a, <1>b DEF Record
<1>c. UNCHANGED <<log, told>> => Same
  OBVIOUS
<1> HIDE DEF Same
<1>1. ASSUME NEW r \in Runs, Admission(r) \/ Claim(r) PROVE Same
  <2>1. CASE EarlyStopped(r) \/ EarlyEvent(r)
    <3>1. r # s
      BY <1>a, <2>1 DEF EarlyStopped, EarlyEvent, At, AfterRow
    <3> QED
      BY <1>b, <2>1, <3>1 DEF EarlyStopped, EarlyEvent
  <2> QED
    BY <1>1, <2>1, <1>c DEF Admission, CreateRun, StartRunExecution, Claim, ExecuteRun,
       ClaimRefused, ClaimEndsEarly, ClaimActive, EarlyRow
<1>2. ASSUME NEW r \in Runs, Loop(r) PROVE Same
  <2>1. CASE StartEvent(r) \/ RecordStopped(r)
    <3>1. r # s
      BY <1>a, <2>1 DEF StartEvent, RecordStopped, At, AfterRow
    <3> QED
      BY <1>b, <2>1, <3>1 DEF StartEvent, RecordStopped
  <2> QED
    BY <1>2, <2>1, <1>c DEF Loop, StartRow, LaunchBrowser, LeaveFinished, LeaveIncomplete, Throw
<1>3. ASSUME NEW r \in Runs, ToolStep(r) \/ Timers(r) PROVE Same
  <2>1. CASE FailAction(r) \/ RecordAction(r) \/ FinishTool(r) \/ RecordFinish(r)
    <3>1. r # s
      BY <1>a, <2>1 DEF FailAction, RecordAction, FinishTool, RecordFinish, Tool
    <3> QED
      BY <1>b, <2>1, <3>1 DEF FailAction, RecordAction, FinishTool, RecordFinish
  <2> QED
    BY <1>3, <2>1, <1>c DEF ToolStep, StartTool, DispatchWrite, SettleAction, PersistUsage,
       AcceptFinish, Timers, RunTimeout, ToolTimeout
<1>4. ASSUME NEW r \in Runs, Commit(r) PROVE Same \/ CommitEvent(s) \/ CommitStatistics(s)
  <2>1. CASE QuarantineEvent(r)
    <3>1. r # s
      BY <1>a, <2>1 DEF QuarantineEvent, At
    <3> QED
      BY <1>b, <2>1, <3>1 DEF QuarantineEvent
  <2>2. CASE CommitEvent(r) \/ CommitStatistics(r)
    BY <1>b, <2>2 DEF CommitEvent, CommitStatistics
  <2> QED
    BY <1>4, <2>1, <2>2, <1>c DEF Commit, Teardown, ProposeTerminal, CommitRun, CommitRow,
       VerifyCommit, QuarantineRow, Dequeue
<1>5. ASSUME NEW r \in Runs, RunFault(r) PROVE Same \/ LoseEvent(s)
  <2>1. CASE LoseEvent(r)
    BY <1>a, <2>1 DEF LoseEvent, Same
  <2> QED
    BY <1>5, <2>1, <1>c DEF RunFault, CloseFails, ClaimFails, LoopFails, ToolFails, CommitFails
<1>6. ASSUME NEW c \in Cancels, CancelStep(c) \/ CancelFails(c) PROVE Same
  <2>1. CASE CancelPersist(c) \/ CancelEvent(c)
    <3>1. Target[c] # s /\ Target[c] \in Runs
      BY <1>a, <2>1, RunConstants DEF CancelPersist, CancelEvent, Calling, Remembered, Noted
    <3> QED
      BY <1>b, <2>1, <3>1 DEF CancelPersist, CancelEvent
  <2> QED
    BY <1>6, <2>1, <1>c DEF CancelStep, CancelFails, CancelRoute, CancelEnter, CancelRefused,
       CancelAgain, CancelDecided, CancelRow
<1>7. CASE Reconcile
  <2>1. CASE ReconcileRecord
    BY <1>a, <2>1 DEF ReconcileRecord, Same
  <2> QED
    BY <1>7, <2>1, <1>c DEF Reconcile, ReconcileSelect, ReconcileCheck, ReconcileUpdate, ReconcileClear
<1>8. Crash \/ Restart \/ UNCHANGED vars => Same
  BY <1>a, <1>c DEF Crash, Restart, Serve, RestartRow, RestartEvent, vars
<1> QED
  BY <1>1, <1>2, <1>3, <1>4, <1>5, <1>6, <1>7, <1>8 DEF Next, Same

(* Where a run behind its terminal row came from.                          *)
LEMMA PhaseSteps ==
  ASSUME Base, [Next]_vars, NEW s \in Runs, exec'[s] # exec[s]
  PROVE  /\ exec'[s] = "commit-statistics" => CommitEvent(s)
         /\ exec'[s] = "verify" => CommitStatistics(s)
         /\ exec'[s] = "quarantine-row" => VerifyCommit(s) \/ CommitFails(s)
         /\ exec'[s] = "gone" => exec[s] = "finished"
         /\ exec'[s] = "finished" =>
              \/ exec[s] \in {"claim", "early-stopped", "early-row", "early-event",
                              "quarantine-event"}
              \/ VerifyCommit(s) \/ CommitFails(s)
<1>a. exec \in [Runs -> ExecPcs]
  BY DEF Base, TypeOK
<1> DEFINE From ==
  /\ exec'[s] = "commit-statistics" => CommitEvent(s)
  /\ exec'[s] = "verify" => CommitStatistics(s)
  /\ exec'[s] = "quarantine-row" => VerifyCommit(s) \/ CommitFails(s)
  /\ exec'[s] = "gone" => exec[s] = "finished"
  /\ exec'[s] = "finished" =>
       \/ exec[s] \in {"claim", "early-stopped", "early-row", "early-event", "quarantine-event"}
       \/ VerifyCommit(s) \/ CommitFails(s)
<1> SUFFICES From
  OBVIOUS
<1>1. ASSUME NEW r \in Runs, Admission(r) PROVE From
  BY <1>a, <1>1 DEF Admission, CreateRun, StartRunExecution, At, Goto
<1>2. ASSUME NEW r \in Runs, Claim(r) PROVE From
  BY <1>a, <1>2 DEF Claim, ExecuteRun, ClaimRefused, ClaimEndsEarly, ClaimActive, EarlyStopped,
     EarlyRow, EarlyEvent, At, Goto
<1>3. ASSUME NEW r \in Runs, Loop(r) PROVE From
  BY <1>a, <1>3 DEF Loop, StartRow, StartEvent, LaunchBrowser, LeaveFinished, LeaveIncomplete,
     Throw, RecordStopped, At, Goto
<1>4. ASSUME NEW r \in Runs, ToolStep(r) \/ Timers(r) PROVE From
  BY <1>4, ToolFrame, TimersFrame
<1>5. ASSUME NEW r \in Runs, Commit(r) PROVE From
  <2>1. CASE CommitEvent(r)
    BY <1>a, <2>1 DEF CommitEvent, At, Goto
  <2>2. CASE CommitStatistics(r)
    BY <1>a, <2>2 DEF CommitStatistics, At, Goto
  <2>3. CASE VerifyCommit(r)
    <3>1. r = s
      BY <1>a, <2>3 DEF VerifyCommit, At, Goto
    <3> QED
      BY <1>a, <2>3, <3>1 DEF VerifyCommit, At, Goto
  <2>4. CASE Dequeue(r) \/ QuarantineEvent(r) \/ QuarantineRow(r)
    BY <1>a, <2>4 DEF Dequeue, QuarantineEvent, QuarantineRow, At, Goto
  <2>5. CASE Teardown(r) \/ ProposeTerminal(r) \/ CommitRun(r) \/ CommitRow(r)
    BY <1>a, <2>5 DEF Teardown, ProposeTerminal, CommitRun, CommitRow, At, Goto
  <2> QED
    BY <1>5, <2>1, <2>2, <2>3, <2>4, <2>5 DEF Commit
<1>6. ASSUME NEW r \in Runs, RunFault(r) PROVE From
  <2>1. CASE CommitFails(r)
    <3>1. r = s
      BY <1>a, <2>1 DEF CommitFails, Goto
    <3> QED
      BY <1>a, <2>1, <3>1 DEF CommitFails, Goto
  <2>2. CASE CloseFails(r) \/ ClaimFails(r) \/ LoopFails(r)
    BY <1>a, <2>2 DEF CloseFails, ClaimFails, LoopFails, At, Goto
  <2> QED
    BY <1>6, <2>1, <2>2, ToolFrame DEF RunFault
<1>7. ASSUME NEW c \in Cancels, CancelStep(c) \/ CancelFails(c) PROVE From
  BY <1>7, CancelFrame
<1>8. CASE Crash
  BY <1>a, <1>8 DEF Crash
<1>9. Reconcile \/ Restart => From
  BY ReconcileFrame, RestartFrame
<1>10. CASE UNCHANGED vars
  BY <1>10 DEF vars
<1> QED
  BY <1>1, <1>2, <1>3, <1>4, <1>5, <1>6, <1>7, <1>8, <1>9, <1>10 DEF Next

(* Faults are counted.                                                     *)
LEMMA UpsetSteps ==
  ASSUME Base, [Next]_vars
  PROVE  upsets \in Nat /\ (upsets' = upsets \/ upsets' = upsets + 1)
<1>a. upsets \in Nat
  BY DEF Base, TypeOK
<1>1. ASSUME NEW r \in Runs, Admission(r) \/ Claim(r) \/ Loop(r) PROVE upsets' = upsets
  BY <1>1 DEF Admission, CreateRun, StartRunExecution, Claim, ExecuteRun, ClaimRefused,
     ClaimEndsEarly, ClaimActive, EarlyStopped, EarlyRow, EarlyEvent, Loop, StartRow, StartEvent,
     LaunchBrowser, LeaveFinished, LeaveIncomplete, Throw, RecordStopped
<1>2. ASSUME NEW r \in Runs, ToolStep(r) \/ Timers(r) PROVE upsets' = upsets
  BY <1>2 DEF ToolStep, StartTool, DispatchWrite, SettleAction, FailAction, RecordAction,
     PersistUsage, FinishTool, AcceptFinish, RecordFinish, Timers, RunTimeout, ToolTimeout
<1>3. ASSUME NEW r \in Runs, Commit(r) PROVE upsets' = upsets
  BY <1>3 DEF Commit, Teardown, ProposeTerminal, CommitRun, CommitRow, CommitEvent,
     CommitStatistics, VerifyCommit, QuarantineRow, QuarantineEvent, Dequeue
<1>4. ASSUME NEW r \in Runs, RunFault(r) PROVE upsets' = upsets + 1
  BY <1>4 DEF RunFault, CloseFails, ClaimFails, LoopFails, ToolFails, CommitFails, LoseEvent, Upset
<1>5. ASSUME NEW c \in Cancels, CancelStep(c) PROVE upsets' = upsets
  BY <1>5 DEF CancelStep, CancelRoute, CancelEnter, CancelRefused, CancelAgain, CancelDecided,
     CancelPersist, CancelRow, CancelEvent
<1>6. ASSUME NEW c \in Cancels, CancelFails(c) PROVE upsets' = upsets + 1
  BY <1>6 DEF CancelFails, Upset
<1>7. ASSUME Reconcile \/ Restart \/ UNCHANGED vars PROVE upsets' = upsets
  BY <1>7, Zenon DEF Reconcile, ReconcileSelect, ReconcileCheck, ReconcileUpdate, ReconcileClear,
     ReconcileRecord, Restart, Serve, RestartRow, RestartEvent, vars
<1>8. ASSUME Crash PROVE upsets' = upsets + 1
  BY <1>8 DEF Crash
<1> QED
  BY <1>a, <1>1, <1>2, <1>3, <1>4, <1>5, <1>6, <1>7, <1>8 DEF Next

(* Without a fault no entry of the log is lost.                            *)
LEMMA HasSteps ==
  ASSUME Base, [Next]_vars, NEW s \in Runs, upsets' = 0, NEW e, Has(s, e) PROVE Has(s, e)'
<1>1. log[s] \in Seq(EventTypes)
  BY DEF Base, TypeOK
<1>2. log'[s] = log[s] \/ \E f \in EventTypes : log'[s] = Append(log[s], f)
  BY LogSteps DEF Appends
<1>3. PICK i \in DOMAIN log[s] : log[s][i] = e
  BY DEF Has
<1>4. ASSUME NEW f \in EventTypes, log'[s] = Append(log[s], f)
      PROVE  i \in DOMAIN log'[s] /\ log'[s][i] = e
  <2>1. DOMAIN log'[s] = 1..(Len(log[s]) + 1) /\ \A j \in 1..Len(log[s]) : log'[s][j] = log[s][j]
    BY <1>1, <1>4
  <2>2. i \in 1..Len(log[s]) /\ Len(log[s]) \in Nat
    BY <1>1, <1>3
  <2> QED
    BY <1>3, <2>1, <2>2
<1> QED
  BY <1>2, <1>3, <1>4 DEF Has

(* Without a fault every entry of an active run is acknowledged.           *)
LEMMA ToldSteps ==
  ASSUME Base, [Next]_vars, NEW s \in Runs, upsets' = 0, active[s] # "none",
         Len(log[s]) = told[s]
  PROVE  Len(log'[s]) = told'[s]
<1>a. /\ log \in [Runs -> Seq(EventTypes)] /\ told \in [Runs -> Nat] /\ upsets \in Nat
      /\ log[s] \in Seq(EventTypes)
  BY DEF Base, TypeOK
<1> DEFINE Even == Len(log'[s]) = told'[s]
<1> SUFFICES Even
  OBVIOUS
<1>b. ASSUME NEW r \in Runs, NEW e \in EventTypes, Record(r, e) PROVE Even
  <2>1. CASE r = s
    <3>1. log'[s] = Append(log[s], e) /\ told'[s] = told[s] + 1
      BY <1>a, <1>b, <2>1 DEF Record
    <3> QED
      BY <1>a, <3>1
  <2>2. CASE r # s
    BY <1>a, <1>b, <2>2 DEF Record
  <2> QED
    BY <2>1, <2>2
<1>c. UNCHANGED <<log, told>> => Even
  OBVIOUS
<1>d. {"run:started", "run:interrupted", "run:statistics", "run:storage-inconsistent",
       "execution:stopped", "action:completed", "action:failed", "tool:finished",
       "finish:accepted", "run:reconciled", "run:completed", "run:error", "run:cancelled",
       "run:cancel-requested"} \subseteq EventTypes
  BY DEF EventTypes
<1> HIDE DEF Even
<1>1. ASSUME NEW r \in Runs, Admission(r) \/ Claim(r) PROVE Even
  <2>1. CASE EarlyStopped(r) \/ EarlyEvent(r)
    BY <2>1, <1>b, <1>d DEF EarlyStopped, EarlyEvent
  <2> QED
    BY <1>1, <2>1, <1>c DEF Admission, CreateRun, StartRunExecution, Claim, ExecuteRun,
       ClaimRefused, ClaimEndsEarly, ClaimActive, EarlyRow
<1>2. ASSUME NEW r \in Runs, Loop(r) PROVE Even
  <2>1. CASE StartEvent(r) \/ RecordStopped(r)
    BY <2>1, <1>b, <1>d DEF StartEvent, RecordStopped
  <2> QED
    BY <1>2, <2>1, <1>c DEF Loop, StartRow, LaunchBrowser, LeaveFinished, LeaveIncomplete, Throw
<1>3. ASSUME NEW r \in Runs, ToolStep(r) \/ Timers(r) PROVE Even
  <2>1. CASE FailAction(r) \/ RecordAction(r) \/ FinishTool(r) \/ RecordFinish(r)
    BY <2>1, <1>b, <1>d DEF FailAction, RecordAction, FinishTool, RecordFinish
  <2> QED
    BY <1>3, <2>1, <1>c DEF ToolStep, StartTool, DispatchWrite, SettleAction, PersistUsage,
       AcceptFinish, Timers, RunTimeout, ToolTimeout
<1>4. ASSUME NEW r \in Runs, Commit(r) PROVE Even
  <2>1. CASE CommitEvent(r) \/ CommitStatistics(r) \/ QuarantineEvent(r)
    BY <2>1, <1>b, <1>d DEF CommitEvent, CommitStatistics, QuarantineEvent
  <2> QED
    BY <1>4, <2>1, <1>c DEF Commit, Teardown, ProposeTerminal, CommitRun, CommitRow,
       VerifyCommit, QuarantineRow, Dequeue
<1>5. ASSUME NEW r \in Runs, RunFault(r) PROVE Even
  <2>1. ~LoseEvent(r)
    BY <1>a DEF LoseEvent, Upset
  <2> QED
    BY <1>5, <2>1, <1>c DEF RunFault, CloseFails, ClaimFails, LoopFails, ToolFails, CommitFails
<1>6. ASSUME NEW c \in Cancels, CancelStep(c) \/ CancelFails(c) PROVE Even
  <2>1. CASE CancelPersist(c) \/ CancelEvent(c)
    BY <2>1, <1>b, <1>d, RunConstants DEF CancelPersist, CancelEvent
  <2> QED
    BY <1>6, <2>1, <1>c DEF CancelStep, CancelFails, CancelRoute, CancelEnter, CancelRefused,
       CancelAgain, CancelDecided, CancelRow
<1>7. CASE Reconcile
  <2>1. CASE ReconcileRecord
    <3>1. \/ log'[s] = log[s] /\ told'[s] = told[s]
          \/ log'[s] = Append(log[s], "run:reconciled") /\ told'[s] = told[s] + 1
      BY <1>a, <2>1 DEF ReconcileRecord
    <3> QED
      BY <1>a, <1>d, <3>1 DEF Even
  <2> QED
    BY <1>7, <2>1, <1>c DEF Reconcile, ReconcileSelect, ReconcileCheck, ReconcileUpdate, ReconcileClear
<1>8. CASE Restart
  <2>1. ASSUME NEW r \in Runs, RestartEvent(r) PROVE Even
    BY <2>1, <1>b, <1>d DEF RestartEvent
  <2>2. ASSUME NEW r \in Runs, RestartRow(r) PROVE Even
    BY <2>2, <1>c DEF RestartRow
  <2>3. CASE Serve
    BY <2>3, <1>c DEF Serve
  <2> QED
    BY <1>8, <2>1, <2>2, <2>3 DEF Restart
<1>9. CASE Crash \/ UNCHANGED vars
  BY <1>9, <1>c DEF Crash, vars
<1> QED
  BY <1>1, <1>2, <1>3, <1>4, <1>5, <1>6, <1>7, <1>8, <1>9 DEF Next

(* Steps that no fault accompanies leave a waiting run without a request   *)
(* unrecorded. *)
LEMMA WaitingSteps ==
  ASSUME Base, Staged, Remembered, History, [Next]_vars, NEW s \in Runs, upsets' = 0,
         exec'[s] \in {"absent", "created", "queued", "claim"}, s \notin requests'
  PROVE  log'[s] = << >> /\ told'[s] = 0
<1> DEFINE Silent == {"absent", "created", "queued", "claim"}
           Kin == exec[s] \in Silent /\ s \notin requests
           Same == log'[s] = log[s] /\ told'[s] = told[s]
<1>a. /\ log \in [Runs -> Seq(EventTypes)] /\ told \in [Runs -> Nat]
      /\ exec \in [Runs -> ExecPcs] /\ requests \subseteq Runs /\ upsets \in Nat
  BY DEF Base, TypeOK
<1>b. ASSUME NEW r \in Runs, NEW e, Record(r, e), r # s PROVE Same
  BY <1>a, <1>b DEF Record
<1>c. UNCHANGED <<log, told>> => Same
  OBVIOUS
<1> SUFFICES Kin /\ Same
  BY UpsetSteps DEF History, Flawless
<1>d. exec[s] \in Silent => tool[s] = "idle" /\ s \notin ack.rows
  BY DEF History, Traced, Settled, AfterRow, Staged, StageOf, Touched, Proposing, Committing, Over
<1> HIDE DEF Same
<1>1. ASSUME NEW r \in Runs, Admission(r) \/ Claim(r) PROVE Kin /\ Same
  <2>1. Kin
    BY <1>a, <1>1 DEF Admission, CreateRun, StartRunExecution, Claim, ExecuteRun,
       ClaimRefused, ClaimEndsEarly, ClaimActive, EarlyStopped, EarlyRow, EarlyEvent, At, Goto
  <2>2. CASE EarlyStopped(r) \/ EarlyEvent(r)
    <3>1. r # s
      BY <2>1, <2>2 DEF EarlyStopped, EarlyEvent, At
    <3> QED
      BY <1>b, <2>1, <2>2, <3>1 DEF EarlyStopped, EarlyEvent
  <2> QED
    BY <1>1, <2>1, <2>2, <1>c DEF Admission, CreateRun, StartRunExecution, Claim, ExecuteRun,
       ClaimRefused, ClaimEndsEarly, ClaimActive, EarlyRow
<1>2. ASSUME NEW r \in Runs, Loop(r) PROVE Kin /\ Same
  <2>1. Kin
    BY <1>a, <1>2 DEF Loop, StartRow, StartEvent, LaunchBrowser, LeaveFinished,
       LeaveIncomplete, Throw, RecordStopped, At, Goto
  <2>2. CASE StartEvent(r) \/ RecordStopped(r)
    <3>1. r # s
      BY <2>1, <2>2 DEF StartEvent, RecordStopped, At
    <3> QED
      BY <1>b, <2>1, <2>2, <3>1 DEF StartEvent, RecordStopped
  <2> QED
    BY <1>2, <2>1, <2>2, <1>c DEF Loop, StartRow, LaunchBrowser, LeaveFinished, LeaveIncomplete, Throw
<1>3. ASSUME NEW r \in Runs, ToolStep(r) \/ Timers(r) PROVE Kin /\ Same
  <2>1. Kin
    BY <1>3, ToolFrame, TimersFrame
  <2>2. CASE FailAction(r) \/ RecordAction(r) \/ FinishTool(r) \/ RecordFinish(r)
    <3>1. r # s
      BY <1>d, <2>1, <2>2 DEF FailAction, RecordAction, FinishTool, RecordFinish, Tool
    <3> QED
      BY <1>b, <2>1, <2>2, <3>1 DEF FailAction, RecordAction, FinishTool, RecordFinish
  <2> QED
    BY <1>3, <2>1, <2>2, <1>c DEF ToolStep, StartTool, DispatchWrite, SettleAction, PersistUsage,
       AcceptFinish, Timers, RunTimeout, ToolTimeout
<1>4. ASSUME NEW r \in Runs, Commit(r) PROVE Kin /\ Same
  <2>1. Kin /\ exec[r] \notin Silent
    <3>1. CASE VerifyCommit(r)
      BY <1>a, <3>1 DEF VerifyCommit, At, Goto
    <3>2. CASE Dequeue(r)
      BY <1>a, <3>2 DEF Dequeue, At, Goto
    <3> QED
      BY <1>a, <1>4, <3>1, <3>2 DEF Commit, Teardown, ProposeTerminal, CommitRun, CommitRow,
         CommitEvent, CommitStatistics, QuarantineRow, QuarantineEvent, At, Goto
  <2>2. CASE CommitEvent(r) \/ CommitStatistics(r) \/ QuarantineEvent(r)
    <3>1. r # s
      BY <2>1
    <3> QED
      BY <1>b, <2>1, <2>2, <3>1 DEF CommitEvent, CommitStatistics, QuarantineEvent
  <2> QED
    BY <1>4, <2>1, <2>2, <1>c DEF Commit, Teardown, ProposeTerminal, CommitRun, CommitRow,
       VerifyCommit, QuarantineRow, Dequeue
<1>5. ASSUME NEW r \in Runs, RunFault(r) PROVE FALSE
  BY <1>a, <1>5 DEF RunFault, CloseFails, ClaimFails, LoopFails, ToolFails, CommitFails,
     LoseEvent, Upset
<1>6. ASSUME NEW c \in Cancels, CancelStep(c) PROVE Kin /\ Same
  <2>0. Target[c] \in Runs
    BY RunConstants
  <2>1. Kin
    BY <1>a, <1>6, CancelFrame, <2>0 DEF CancelStep, CancelRoute, CancelEnter, CancelRefused,
       CancelAgain, CancelDecided, CancelPersist, CancelRow, CancelEvent
  <2>2. CASE CancelPersist(c)
    <3>1. Target[c] # s
      BY <2>2 DEF CancelPersist
    <3> QED
      BY <1>b, <2>0, <2>1, <2>2, <3>1 DEF CancelPersist
  <2>3. CASE CancelEvent(c)
    <3>1. Target[c] # s
      BY <2>1, <2>3 DEF CancelEvent, Calling, Remembered, Noted
    <3> QED
      BY <1>b, <2>0, <2>1, <2>3, <3>1 DEF CancelEvent
  <2> QED
    BY <1>6, <2>1, <2>2, <2>3, <1>c DEF CancelStep, CancelRoute, CancelEnter, CancelRefused,
       CancelAgain, CancelDecided, CancelRow
<1>7. ASSUME NEW c \in Cancels, CancelFails(c) PROVE FALSE
  BY <1>a, <1>7 DEF CancelFails, Upset
<1>8. CASE Reconcile
  <2>1. Kin
    BY <1>8, ReconcileFrame
  <2>2. CASE ReconcileRecord
    BY <1>a, <1>d, <2>1, <2>2 DEF ReconcileRecord, Same
  <2> QED
    BY <1>8, <2>1, <2>2, <1>c DEF Reconcile, ReconcileSelect, ReconcileCheck, ReconcileUpdate, ReconcileClear
<1>9. CASE Restart
  <2>1. boot = "down" /\ upsets = 0
    BY <1>9 DEF Restart, Serve, RestartRow, RestartEvent
  <2> QED
    BY <2>1 DEF History, Flawless
<1>10. CASE Crash
  BY <1>a, <1>10 DEF Crash
<1>11. CASE UNCHANGED vars
  BY <1>11, <1>c DEF vars
<1> QED
  BY <1>1, <1>2, <1>3, <1>4, <1>5, <1>6, <1>7, <1>8, <1>9, <1>10, <1>11 DEF Next

(* Without a fault the process stays up, a run becomes active at its claim *)
(* only, and stops as finished only when a finish was recorded. *)
LEMMA QuietSteps ==
  ASSUME Base, [Next]_vars, NEW s \in Runs, upsets' = 0, boot = "up"
  PROVE  /\ boot' = "up"
         /\ active[s] # "none" \/ active'[s] = "none" \/ ClaimActive(s)
         /\ tool'[s] = "finished" => tool[s] = "finished" \/ RecordFinish(s)
         /\ stop'[s] \in {"goal-reached", "blocked"} =>
              stop[s] \in {"goal-reached", "blocked"} \/ tool[s] = "finished"
<1> DEFINE Quiet ==
  /\ boot' = "up"
  /\ active[s] # "none" \/ active'[s] = "none" \/ ClaimActive(s)
  /\ tool'[s] = "finished" => tool[s] = "finished" \/ RecordFinish(s)
  /\ stop'[s] \in {"goal-reached", "blocked"} =>
       stop[s] \in {"goal-reached", "blocked"} \/ tool[s] = "finished"
<1> SUFFICES Quiet
  OBVIOUS
<1>a. /\ active \in [Runs -> Signals] /\ tool \in [Runs -> ToolPcs]
      /\ stop \in [Runs -> Reasons] /\ upsets \in Nat
  BY DEF Base, TypeOK
<1>b. UNCHANGED <<boot, active, tool, stop>> => Quiet
  OBVIOUS
<1>1. ASSUME NEW r \in Runs, Admission(r) PROVE Quiet
  BY <1>1 DEF Admission, CreateRun, StartRunExecution
<1>2. ASSUME NEW r \in Runs, Claim(r) PROVE Quiet
  <2>1. CASE ClaimActive(r)
    BY <1>a, <2>1 DEF ClaimActive
  <2>2. CASE ClaimEndsEarly(r)
    BY <1>a, <2>2 DEF ClaimEndsEarly
  <2> QED
    BY <1>2, <2>1, <2>2 DEF Claim, ExecuteRun, ClaimRefused, EarlyStopped, EarlyRow, EarlyEvent
<1>3. ASSUME NEW r \in Runs, Loop(r) PROVE Quiet
  <2>1. CASE LeaveFinished(r) \/ LeaveIncomplete(r)
    BY <1>a, <2>1 DEF LeaveFinished, LeaveIncomplete
  <2>2. CASE Throw(r)
    BY <1>a, <2>2, OtherReasons DEF Throw, Claims
  <2> QED
    BY <1>3, <2>1, <2>2 DEF Loop, StartRow, StartEvent, LaunchBrowser, RecordStopped
<1>4. ASSUME NEW r \in Runs, ToolStep(r) PROVE Quiet
  <2>1. CASE RecordFinish(r)
    BY <1>a, <2>1 DEF RecordFinish, Tool
  <2>2. CASE FailAction(r)
    BY <1>a, <2>2 DEF FailAction, Tool, Abort
  <2> QED
    BY <1>a, <1>4, <2>1, <2>2 DEF ToolStep, StartTool, DispatchWrite, SettleAction, RecordAction,
       PersistUsage, FinishTool, AcceptFinish, Tool
<1>5. ASSUME NEW r \in Runs, Timers(r) PROVE Quiet
  BY <1>a, <1>5 DEF Timers, RunTimeout, ToolTimeout, Abort
<1>6. ASSUME NEW r \in Runs, Commit(r) PROVE Quiet
  <2>1. CASE Teardown(r)
    BY <1>a, <2>1 DEF Teardown, Abort
  <2>2. CASE ProposeTerminal(r) \/ CommitRun(r)
    BY <1>a, <2>2, OtherReasons DEF ProposeTerminal, CommitRun, Claims
  <2>3. CASE VerifyCommit(r) \/ QuarantineEvent(r)
    BY <1>a, <2>3 DEF VerifyCommit, QuarantineEvent
  <2> QED
    BY <1>6, <2>1, <2>2, <2>3 DEF Commit, CommitRow, CommitEvent, CommitStatistics,
       QuarantineRow, Dequeue
<1>7. ASSUME NEW c \in Cancels, CancelStep(c) PROVE Quiet
  <2>1. CASE CancelPersist(c)
    BY <1>a, <2>1 DEF CancelPersist, Calling, Abort
  <2> QED
    BY <1>7, <2>1 DEF CancelStep, CancelRoute, CancelEnter, CancelRefused,
       CancelAgain, CancelDecided, CancelRow, CancelEvent
<1>8. CASE Reconcile
  BY <1>8, ReconcileFrame
<1>9. ~Restart
  BY DEF Restart, Serve, RestartRow, RestartEvent
<1>10. ASSUME NEW r \in Runs, RunFault(r) PROVE FALSE
  BY <1>a, <1>10 DEF RunFault, CloseFails, ClaimFails, LoopFails, ToolFails, CommitFails,
     LoseEvent, Upset
<1>11. ASSUME NEW c \in Cancels, CancelFails(c) \/ Crash PROVE FALSE
  BY <1>a, <1>11 DEF CancelFails, Crash, Upset
<1>12. ~Crash
  BY <1>a DEF Crash
<1>13. CASE UNCHANGED vars
  BY <1>13 DEF vars
<1> QED
  BY <1>1, <1>2, <1>3, <1>4, <1>5, <1>6, <1>7, <1>8, <1>9, <1>10, <1>11, <1>12, <1>13 DEF Next

(* Nor is anything else of a flawless run's record.                        *)
LEMMA NextFlawless ==
  ASSUME Base, Staged, Remembered, History, [Next]_vars, NEW s \in Runs, Traced(s)'
  PROVE  Flawless(s)'
<1>a. /\ log \in [Runs -> Seq(EventTypes)] /\ boot \in {"up", "down"}
      /\ active \in [Runs -> Signals] /\ tool \in [Runs -> ToolPcs]
      /\ exec \in [Runs -> ExecPcs] /\ stop \in [Runs -> Reasons]
  BY DEF Base, TypeOK
<1> SUFFICES ASSUME upsets' = 0
             PROVE  /\ boot' = "up"
                    /\ active'[s] # "none" => Len(log'[s]) = told'[s]
                    /\ exec'[s] \in {"absent", "created", "queued", "claim"} /\ s \notin requests' =>
                         log'[s] = << >> /\ told'[s] = 0
                    /\ tool'[s] = "finished" \/ stop'[s] \in {"goal-reached", "blocked"} =>
                         Has(s, "finish:accepted")'
                    /\ Claimed(s)' /\ exec'[s] \in {"commit-statistics", "verify"} =>
                         Has(s, "run:completed")'
                    /\ Claimed(s)' /\ exec'[s] = "verify" =>
                         log'[s] # << >> /\ log'[s][Len(log'[s])] = "run:statistics"
  BY DEF Flawless
<1>b. upsets = 0 /\ Flawless(s) /\ Traced(s) /\ StageOf(s) /\ boot = "up"
  BY UpsetSteps DEF History, Staged, Flawless
<1>c. ASSUME NEW e \in EventTypes, Record(s, e) PROVE Has(s, e)'
  <2>1. log'[s] = Append(log[s], e) /\ log[s] \in Seq(EventTypes)
    BY <1>a, <1>c DEF Record
  <2>2. Len(log[s]) + 1 \in DOMAIN log'[s] /\ log'[s][Len(log[s]) + 1] = e
    BY <2>1
  <2> QED
    BY <2>2 DEF Has
<1>1. /\ boot' = "up"
      /\ active[s] # "none" \/ active'[s] = "none" \/ ClaimActive(s)
      /\ tool'[s] = "finished" => tool[s] = "finished" \/ RecordFinish(s)
      /\ stop'[s] \in {"goal-reached", "blocked"} =>
           stop[s] \in {"goal-reached", "blocked"} \/ tool[s] = "finished"
  BY <1>b, QuietSteps
<1>3. ASSUME active'[s] # "none" PROVE Len(log'[s]) = told'[s]
  <2>1. CASE active[s] # "none"
    BY <1>b, <2>1, ToldSteps DEF Flawless
  <2>2. CASE ClaimActive(s)
    BY <1>b, <2>2 DEF Flawless, ClaimActive, At, Claimable
  <2> QED
    BY <1>1, <1>3, <2>1, <2>2
<1>6. ASSUME tool'[s] = "finished" \/ stop'[s] \in {"goal-reached", "blocked"}
      PROVE  Has(s, "finish:accepted")'
  <2>1. CASE RecordFinish(s)
    BY <1>c, <2>1 DEF RecordFinish, EventTypes
  <2>2. CASE tool[s] = "finished" \/ stop[s] \in {"goal-reached", "blocked"}
    BY <1>b, <2>2, HasSteps DEF Flawless
  <2> QED
    BY <1>1, <1>6, <2>1, <2>2
<1>7. ASSUME Claimed(s)', exec'[s] \in {"commit-statistics", "verify"}
      PROVE  Claimed(s) /\ exec[s] \in {"commit-event", "commit-statistics", "verify"}
  <2>1. exec[s] \in {"commit-event", "commit-statistics", "verify"}
    BY <1>7, PhaseSteps DEF CommitEvent, CommitStatistics, At
  <2>2. ~CommitRow(s)
    BY <2>1 DEF CommitRow, At
  <2> QED
    BY <1>7, <2>1, <2>2, ClaimSteps DEF Claimed
<1>8. ASSUME Claimed(s)', exec'[s] \in {"commit-statistics", "verify"}
      PROVE  Has(s, "run:completed")'
  <2>1. CASE CommitEvent(s)
    BY <1>c, <2>1 DEF CommitEvent, EventTypes
  <2>2. CASE exec[s] \in {"commit-statistics", "verify"}
    BY <1>b, <1>7, <1>8, <2>2, HasSteps DEF Flawless
  <2> QED
    BY <1>8, <2>1, <2>2, PhaseSteps DEF CommitStatistics, At
<1>9. ASSUME Claimed(s)', exec'[s] = "verify"
      PROVE  log'[s] # << >> /\ log'[s][Len(log'[s])] = "run:statistics"
  <2>1. CASE CommitStatistics(s)
    <3>1. log'[s] = Append(log[s], "run:statistics") /\ log[s] \in Seq(EventTypes)
      BY <1>a, <2>1 DEF CommitStatistics, Record
    <3> QED
      BY <3>1
  <2>2. CASE exec[s] = "verify"
    <3>1. Claimed(s)
      BY <1>7, <1>9
    <3>2. ~CommitEvent(s) /\ ~CommitStatistics(s) /\ ~LoseEvent(s)
      BY <1>b, <2>2 DEF CommitEvent, CommitStatistics, LoseEvent, Upset, At
    <3>3. log'[s] = log[s]
      BY <2>2, <3>1, <3>2, TailSteps
    <3> QED
      BY <1>b, <2>2, <3>1, <3>3 DEF Flawless
  <2> QED
    BY <1>9, <2>1, <2>2, PhaseSteps
<1> QED
  BY <1>1, <1>3, <1>6, <1>8, <1>9, WaitingSteps

(* The quarantine is lifted by the operator, or by a crash and the restart *)
(* after it. *)
LEMMA AckSteps ==
  ASSUME Base, [Next]_vars
  PROVE  /\ acks \in Nat /\ (acks' = acks \/ acks' = acks + 1)
         /\ ack'.pc # "idle" => ack.pc # "idle" \/ acks' = acks + 1
         /\ quarantine => quarantine' \/ Crash \/ Serve \/ ReconcileClear
<1>a. acks \in Nat /\ ack \in [pc : {"idle", "check", "update", "clear", "record"}, rows : SUBSET Runs]
      /\ quarantine \in BOOLEAN
  BY DEF Base, TypeOK
<1> DEFINE Still == acks' = acks /\ ack' = ack
           Held == quarantine => quarantine'
<1>1. ASSUME NEW r \in Runs, Admission(r) \/ Claim(r) \/ Loop(r) PROVE Still /\ Held
  BY <1>1 DEF Admission, CreateRun, StartRunExecution, Claim, ExecuteRun, ClaimRefused,
     ClaimEndsEarly, ClaimActive, EarlyStopped, EarlyRow, EarlyEvent, Loop, StartRow, StartEvent,
     LaunchBrowser, LeaveFinished, LeaveIncomplete, Throw, RecordStopped
<1>2. ASSUME NEW r \in Runs, ToolStep(r) \/ Timers(r) PROVE Still /\ Held
  BY <1>2 DEF ToolStep, StartTool, DispatchWrite, SettleAction, FailAction, RecordAction,
     PersistUsage, FinishTool, AcceptFinish, RecordFinish, Timers, RunTimeout, ToolTimeout
<1>3. ASSUME NEW r \in Runs, Commit(r) PROVE Still /\ Held
  <2>1. CASE VerifyCommit(r)
    BY <2>1 DEF VerifyCommit
  <2>2. CASE CommitRun(r)
    BY <2>2 DEF CommitRun
  <2> QED
    BY <1>3, <2>1, <2>2 DEF Commit, Teardown, ProposeTerminal, CommitRow, CommitEvent,
       CommitStatistics, QuarantineRow, QuarantineEvent, Dequeue
<1>4. ASSUME NEW r \in Runs, RunFault(r) PROVE Still /\ Held
  BY <1>4 DEF RunFault, CloseFails, ClaimFails, LoopFails, ToolFails, CommitFails, LoseEvent
<1>5. ASSUME NEW c \in Cancels, CancelStep(c) \/ CancelFails(c) PROVE Still /\ Held
  BY <1>5 DEF CancelStep, CancelRoute, CancelEnter, CancelRefused, CancelAgain, CancelDecided,
     CancelPersist, CancelRow, CancelEvent, CancelFails
<1>6. CASE Reconcile
  <2>1. CASE ReconcileSelect
    BY <1>a, <2>1 DEF ReconcileSelect
  <2>2. CASE ReconcileCheck \/ ReconcileUpdate \/ ReconcileClear \/ ReconcileRecord
    <3>1. acks' = acks /\ ack.pc # "idle"
      BY <2>2 DEF ReconcileCheck, ReconcileUpdate, ReconcileClear, ReconcileRecord
    <3>2. quarantine' = quarantine \/ ReconcileClear
      BY <2>2 DEF ReconcileCheck, ReconcileUpdate, ReconcileRecord
    <3> QED
      BY <1>a, <3>1, <3>2
  <2> QED
    BY <1>6, <2>1, <2>2 DEF Reconcile
<1>7. ASSUME NEW r \in Runs, RestartRow(r) \/ RestartEvent(r) PROVE Still /\ Held
  BY <1>7 DEF RestartRow, RestartEvent
<1>8. Crash => acks' = acks /\ ack'.pc = "idle"
  BY DEF Crash
<1>9. Serve => Still
  BY DEF Serve
<1>10. UNCHANGED vars => Still /\ Held
  BY DEF vars
<1> QED
  BY <1>a, <1>1, <1>2, <1>3, <1>4, <1>5, <1>6, <1>7, <1>8, <1>9, <1>10 DEF Next, Restart

(* What the commit verified stays, and what it could not is quarantined.   *)
LEMMA NextKept ==
  ASSUME Base, Staged, Remembered, History, [Next]_vars, NEW s \in Runs, Traced(s)'
  PROVE  Standing(s)'
<1>a. /\ log \in [Runs -> Seq(EventTypes)] /\ told \in [Runs -> Nat]
      /\ row \in [Runs -> [status : Status, stop : Stops]] /\ boot \in {"up", "down"}
      /\ active \in [Runs -> Signals] /\ exec \in [Runs -> ExecPcs] /\ acks \in Nat
      /\ upsets \in Nat /\ (upsets' = upsets \/ upsets' = upsets + 1)
  BY UpsetSteps DEF Base, TypeOK
<1>b. Traced(s) /\ Flawless(s) /\ Standing(s) /\ StageOf(s)
  BY DEF History, Staged
<1>1. ASSUME Claimed(s)', exec'[s] = "quarantine-row" PROVE upsets' >= 1
  <2>1. exec[s] \in Committing \ {"commit-row"} \/ CommitFails(s)
    BY <1>1, PhaseSteps DEF VerifyCommit, At, Committing
  <2>2. CASE CommitFails(s)
    BY <1>a, <2>2 DEF CommitFails, Upset
  <2>3. CASE exec[s] \in Committing \ {"commit-row"} /\ ~CommitFails(s)
    <3>1. row'[s] = row[s] /\ Claimed(s)
      BY <1>1, <2>3, ClaimSteps DEF CommitRow, At, Claimed
    <3>2. CASE exec[s] = "quarantine-row"
      BY <1>a, <1>b, <3>1, <3>2 DEF Standing
    <3>3. CASE VerifyCommit(s)
      <4>1. exec[s] = "verify" /\ ~Verified(s)
        BY <1>1, <1>a, <3>3 DEF VerifyCommit, At, Goto
      <4>2. active[s] # "none"
        BY <1>b, <4>1 DEF StageOf, Committing
      <4>3. upsets # 0
        BY <1>b, <3>1, <4>1, <4>2 DEF Verified, Flawless, Traced
      <4> QED
        BY <1>a, <4>3
    <3> QED
      BY <1>1, <2>3, <3>2, <3>3, PhaseSteps
  <2> QED
    BY <2>1, <2>2, <2>3
<1>2. ASSUME Claimed(s)', exec'[s] \in Over
      PROVE  Whole(s)' \/ (upsets' >= 2 /\ (quarantine' \/ acks' > 0))
  <2>1. row'[s] = row[s] /\ Claimed(s)
    <3>1. ~CommitRow(s)
      BY <1>2, <1>a DEF CommitRow, At, Goto, Over
    <3> QED
      BY <1>2, <3>1, ClaimSteps DEF Claimed
  <2>2. exec[s] \in AfterRow \ {"quarantine-event"} /\ row[s].stop \in Claims
        /\ row[s].stop = stop[s]
    BY <1>b, <2>1 DEF Traced
  <2>3. exec[s] \in Over \/ VerifyCommit(s) \/ CommitFails(s)
    BY <1>2, <2>2, PhaseSteps DEF Over, AfterRow
  <2>4. CASE VerifyCommit(s)
    <3>1. Verified(s) /\ log'[s] = log[s] /\ told'[s] = told[s]
      BY <1>2, <1>a, <2>4 DEF VerifyCommit, At, Goto, Over
    <3> QED
      BY <1>a, <2>1, <2>2, <3>1 DEF Verified, Whole, Has, Claims
  <2>5. CASE CommitFails(s)
    <3>1. exec[s] = "quarantine-row"
      BY <1>2, <1>a, <2>2, <2>5 DEF CommitFails, Goto, Over
    <3>2. upsets >= 1
      BY <1>b, <2>1, <3>1 DEF Standing
    <3> QED
      BY <1>a, <2>5, <3>2 DEF CommitFails, Upset
  <2>6. CASE exec[s] \in Over
    <3>1. active[s] = "none" /\ exec[s] # "lost"
      BY <1>b, <2>6 DEF StageOf, Over, Started, Proposing, Committing
    <3>2. ~CommitEvent(s) /\ ~CommitStatistics(s) /\ ~LoseEvent(s)
      BY <2>6, <3>1 DEF CommitEvent, CommitStatistics, LoseEvent, At, Over
    <3>3. log'[s] = log[s] /\ told'[s] = told[s]
      BY <2>1, <3>1, <3>2, TailSteps
    <3>4. CASE Whole(s)
      BY <2>1, <3>3, <3>4 DEF Whole, Has
    <3>5. CASE upsets >= 2 /\ (quarantine \/ acks > 0)
      <4>1. ~Crash /\ ~Serve
        BY <1>a, <1>b, <1>2, <2>6 DEF Crash, Serve, StageOf, Over
      <4>2. ReconcileClear => acks > 0
        BY DEF ReconcileClear, History
      <4>3. quarantine' \/ acks > 0
        BY <3>5, <4>1, <4>2, AckSteps
      <4>4. acks > 0 => acks' > 0
        BY AckSteps
      <4> QED
        BY <1>a, <3>5, <4>3, <4>4
    <3> QED
      BY <1>b, <2>1, <2>6, <3>4, <3>5 DEF Standing
  <2> QED
    BY <2>3, <2>4, <2>5, <2>6
<1> QED
  BY <1>1, <1>2 DEF Standing

(* Claims stay traced, flawless and kept in every reachable state.         *)
LEMMA HistoryInvariant == Spec => []History
<1>1. Init => History
  BY DEF Init, History, Traced, Flawless, Standing, Claimed, Claims, Over
<1>2. Base /\ Staged /\ Remembered /\ History /\ [Next]_vars => History'
  <2> SUFFICES ASSUME Base, Staged, Remembered, History, [Next]_vars PROVE History'
    OBVIOUS
  <2>1. \A r \in Runs : Traced(r)'
    BY NextTraced
  <2>2. \A r \in Runs : Flawless(r)' /\ Standing(r)'
    BY <2>1, NextFlawless, NextKept
  <2>3. ack'.pc # "idle" => acks' > 0
    BY AckSteps DEF History
  <2> QED
    BY <2>1, <2>2, <2>3 DEF History
<1> QED
  BY <1>1, <1>2, BaseInvariant, StagedInvariant, RememberedInvariant, PTL DEF Spec

(* A run that left the queue as completed or blocked has its whole history *)
(* in the log: every acknowledged event, the accepted finish of an agent   *)
(* that claimed one, and the terminal event (executor.ts:                  *)
(* verifyCompletionCommit and the quarantine behind it) - unless a second  *)
(* fault hit the quarantine, and then no later run starts before the       *)
(* operator has acknowledged it. *)
THEOREM HistoryIsVerified == Spec => []VerifiedHistory
<1>1. Base /\ History => VerifiedHistory
  BY DEF Base, TypeOK, History, Standing, Claimed, Whole, Over, VerifiedHistory
<1> QED
  BY <1>1, BaseInvariant, HistoryInvariant, PTL

-----------------------------------------------------------------------------
(* The outcome a client sees.                                              *)

(* A run behind its terminal row stays behind it; one that has left the    *)
(* queue does not come back; and only a crash moves two executors at once. *)
LEMMA ExecutorSteps ==
  ASSUME Base, [Next]_vars, NEW s \in Runs
  PROVE  /\ exec[s] \in AfterRow => exec'[s] \in AfterRow
         /\ exec[s] \in {"gone", "lost"} => exec'[s] \in {"gone", "lost"}
         /\ exec'[s] # exec[s] => Crash \/ \A r \in Runs \ {s} : exec'[r] = exec[r]
<1> DEFINE Orderly ==
  /\ exec[s] \in AfterRow => exec'[s] \in AfterRow
  /\ exec[s] \in {"gone", "lost"} => exec'[s] \in {"gone", "lost"}
  /\ exec'[s] # exec[s] => Crash \/ \A r \in Runs \ {s} : exec'[r] = exec[r]
<1> SUFFICES Orderly
  OBVIOUS
<1>a. exec \in [Runs -> ExecPcs]
  BY DEF Base, TypeOK
<1>b. ASSUME NEW r \in Runs, NEW pc, exec' = [exec EXCEPT ![r] = pc],
             exec[r] \notin {"gone", "lost"}, exec[r] \in AfterRow => pc \in AfterRow
      PROVE  Orderly
  BY <1>a, <1>b
<1>c. exec' = exec => Orderly
  OBVIOUS
<1> HIDE DEF Orderly
<1>1. ASSUME NEW r \in Runs, Admission(r) PROVE Orderly
  BY <1>1, <1>b DEF Admission, CreateRun, StartRunExecution, At, Goto, AfterRow
<1>2. ASSUME NEW r \in Runs, Claim(r) PROVE Orderly
  <2>1. exec[r] \in {"queued", "claim", "early-stopped", "early-row", "early-event"}
    BY <1>2 DEF Claim, ExecuteRun, ClaimRefused, ClaimEndsEarly, ClaimActive,
       EarlyStopped, EarlyRow, EarlyEvent, At
  <2>2. \E pc : exec' = [exec EXCEPT ![r] = pc]
    BY <1>2 DEF Claim, ExecuteRun, ClaimRefused, ClaimEndsEarly, ClaimActive,
       EarlyStopped, EarlyRow, EarlyEvent, Goto
  <2> QED
    BY <2>1, <2>2, <1>b DEF AfterRow
<1>3. ASSUME NEW r \in Runs, Loop(r) PROVE Orderly
  <2>1. exec[r] \in {"starting", "announcing", "launching", "working", "stopping"}
    BY <1>3 DEF Loop, StartRow, StartEvent, LaunchBrowser, LeaveFinished, LeaveIncomplete,
       Throw, RecordStopped, At
  <2>2. \E pc : exec' = [exec EXCEPT ![r] = pc]
    BY <1>3 DEF Loop, StartRow, StartEvent, LaunchBrowser, LeaveFinished, LeaveIncomplete,
       Throw, RecordStopped, Goto
  <2> QED
    BY <2>1, <2>2, <1>b DEF AfterRow
<1>4. ASSUME NEW r \in Runs, ToolStep(r) \/ Timers(r) \/ ToolFails(r) \/ LoseEvent(r)
      PROVE  Orderly
  BY <1>4, <1>c, ToolFrame, TimersFrame
<1>5. ASSUME NEW r \in Runs, Commit(r) PROVE Orderly
  <2>1. CASE Teardown(r) \/ ProposeTerminal(r) \/ CommitRun(r) \/ CommitRow(r)
    BY <2>1, <1>b DEF Teardown, ProposeTerminal, CommitRun, CommitRow, At, Goto, AfterRow
  <2>2. CASE CommitEvent(r) \/ CommitStatistics(r) \/ QuarantineRow(r)
             \/ QuarantineEvent(r) \/ Dequeue(r)
    BY <2>2, <1>b DEF CommitEvent, CommitStatistics, QuarantineRow, QuarantineEvent, Dequeue,
       At, Goto, AfterRow
  <2>3. CASE VerifyCommit(r)
    <3>1. exec[r] = "verify" /\ (Goto(r, "finished") \/ Goto(r, "quarantine-row"))
      BY <2>3 DEF VerifyCommit, At
    <3> QED
      BY <3>1, <1>b DEF Goto, AfterRow
  <2> QED
    BY <1>5, <2>1, <2>2, <2>3 DEF Commit
<1>6. ASSUME NEW r \in Runs, CloseFails(r) \/ ClaimFails(r) \/ LoopFails(r) PROVE Orderly
  BY <1>6, <1>b DEF CloseFails, ClaimFails, LoopFails, At, Goto, AfterRow
<1>7. ASSUME NEW r \in Runs, CommitFails(r) PROVE Orderly
  <2>1. exec[r] \in Committing /\ (Goto(r, "finished") \/ Goto(r, "quarantine-row"))
    BY <1>7 DEF CommitFails, Committing
  <2> QED
    BY <2>1, <1>b DEF Goto, Committing, AfterRow
<1>8. ASSUME NEW c \in Cancels, CancelStep(c) \/ CancelFails(c) PROVE Orderly
  BY <1>8, <1>c, CancelFrame
<1>9. Reconcile \/ Restart => Orderly
  BY <1>c, ReconcileFrame, RestartFrame
<1>10. CASE Crash
  BY <1>a, <1>10 DEF Crash, AfterRow, Orderly
<1>11. CASE UNCHANGED vars
  BY <1>11, <1>c DEF vars
<1> QED
  BY <1>1, <1>2, <1>3, <1>4, <1>5, <1>6, <1>7, <1>8, <1>9, <1>10, <1>11 DEF Next, RunFault

(* A claim is withdrawn by the quarantine of its own commit only.          *)
LEMMA WithdrawSteps ==
  ASSUME Base, Staged, Remembered, History, [Next]_vars, NEW s \in Runs, Claimed(s)
  PROVE  row'[s] = row[s] \/ QuarantineRow(s)
<1>a. row \in [Runs -> [status : Status, stop : Stops]]
  BY DEF Base, TypeOK
<1>b. /\ exec[s] \in AfterRow \ {"quarantine-event"} /\ tool[s] \in {"idle", "finished"}
      /\ s \in owners \/ exec[s] = "lost"
      /\ row[s].status \in {"completed", "blocked"}
  BY DEF History, Traced, Claimed
<1>1. ASSUME NEW r \in Runs, CreateRun(r) \/ EarlyRow(r) \/ StartRow(r) \/ CommitRow(r)
      PROVE  row'[s] = row[s]
  <2>1. r # s
    BY <1>b, <1>1 DEF CreateRun, EarlyRow, StartRow, CommitRow, At, AfterRow
  <2> QED
    BY <1>a, <1>1, <2>1 DEF CreateRun, EarlyRow, StartRow, CommitRow, Store, StoreRunning
<1>2. ASSUME NEW r \in Runs, PersistUsage(r) PROVE row'[s] = row[s]
  BY <1>a, <1>b, <1>2 DEF PersistUsage, Tool, StoreRunning
<1>3. ASSUME NEW r \in Runs, QuarantineRow(r) PROVE row'[s] = row[s] \/ QuarantineRow(s)
  BY <1>a, <1>3 DEF QuarantineRow, Store
<1>4. ASSUME NEW r \in Runs, RestartRow(r) PROVE row'[s] = row[s]
  BY <1>a, <1>b, <1>4 DEF RestartRow, Store
<1>5. ASSUME NEW c \in Cancels, CancelRow(c) PROVE row'[s] = row[s]
  <2>1. Target[c] # s
    BY <1>b, <1>5 DEF CancelRow, Calling, Staged, Asked, CallGated
  <2> QED
    BY <1>a, <1>5, <2>1 DEF CancelRow, Store
<1>6. CASE ReconcileUpdate
  BY <1>a, <1>b, <1>6 DEF ReconcileUpdate
<1>7. ASSUME NEW r \in Runs, Admission(r) \/ Claim(r) \/ Loop(r) PROVE row'[s] = row[s]
  BY <1>1, <1>7 DEF Admission, StartRunExecution, Claim, ExecuteRun, ClaimRefused,
     ClaimEndsEarly, ClaimActive, EarlyStopped, EarlyEvent, Loop, StartEvent, LaunchBrowser,
     LeaveFinished, LeaveIncomplete, Throw, RecordStopped
<1>8. ASSUME NEW r \in Runs, ToolStep(r) \/ Timers(r) PROVE row'[s] = row[s]
  BY <1>2, <1>8, TimersFrame DEF ToolStep, StartTool, DispatchWrite, SettleAction, FailAction,
     RecordAction, FinishTool, AcceptFinish, RecordFinish
<1>9. ASSUME NEW r \in Runs, Commit(r) PROVE row'[s] = row[s] \/ QuarantineRow(s)
  BY <1>1, <1>3, <1>9 DEF Commit, Teardown, ProposeTerminal, CommitRun, CommitEvent,
     CommitStatistics, VerifyCommit, QuarantineEvent, Dequeue
<1>10. ASSUME NEW r \in Runs, RunFault(r) PROVE row'[s] = row[s]
  BY <1>10 DEF RunFault, CloseFails, ClaimFails, LoopFails, ToolFails, CommitFails, LoseEvent
<1>11. ASSUME NEW c \in Cancels, CancelStep(c) \/ CancelFails(c) PROVE row'[s] = row[s]
  BY <1>5, <1>11 DEF CancelStep, CancelFails, CancelRoute, CancelEnter, CancelRefused,
     CancelAgain, CancelDecided, CancelPersist, CancelEvent
<1>12. CASE Reconcile
  BY <1>6, <1>12 DEF Reconcile, ReconcileSelect, ReconcileCheck, ReconcileClear, ReconcileRecord
<1>13. CASE Restart
  BY <1>4, <1>13 DEF Restart, Serve, RestartEvent
<1>14. CASE Crash \/ UNCHANGED vars
  BY <1>14 DEF Crash, vars
<1> QED
  BY <1>7, <1>8, <1>9, <1>10, <1>11, <1>12, <1>13, <1>14 DEF Next

(* A request is accepted for a run without a claim, in a step that moves no *)
(* executor. *)
LEMMA AcceptSteps ==
  ASSUME Base, Remembered, [Next]_vars
  PROVE  \/ \A r \in Runs : Accepted(r)' <=> Accepted(r)
         \/ /\ UNCHANGED exec
            /\ \E s \in Runs : ~Claimed(s) /\ \A r \in Runs : Accepted(r)' <=> Accepted(r) \/ r = s
<1> DEFINE Same == \A r \in Runs : Accepted(r)' <=> Accepted(r)
           More == /\ UNCHANGED exec
                   /\ \E s \in Runs : /\ ~Claimed(s)
                                      /\ \A r \in Runs : Accepted(r)' <=> Accepted(r) \/ r = s
<1> SUFFICES Same \/ More
  OBVIOUS
<1>a. call \in [Cancels -> CallPcs] /\ \A c \in Cancels : Target[c] \in Runs
  BY RunConstants DEF Base, TypeOK
<1>b. ASSUME \A c \in Cancels : call'[c] = "accepted" <=> call[c] = "accepted" PROVE Same
  BY <1>b DEF Accepted
<1>c. ASSUME NEW c \in Cancels, CancelStep(c) \/ CancelFails(c), call' = [call EXCEPT ![c] = "accepted"],
             ~Claimed(Target[c])
      PROVE  More
  <2>1. \A r \in Runs : Accepted(r)' <=> Accepted(r) \/ r = Target[c]
    BY <1>a, <1>c DEF Accepted
  <2> QED
    BY <1>a, <1>c, <2>1, CancelFrame
<1>d. call' = call => Same
  BY <1>b
<1> HIDE DEF Same, More
<1>1. ASSUME NEW r \in Runs, Admission(r) \/ Claim(r) \/ Loop(r) PROVE call' = call
  BY <1>1 DEF Admission, CreateRun, StartRunExecution, Claim, ExecuteRun, ClaimRefused,
     ClaimEndsEarly, ClaimActive, EarlyStopped, EarlyRow, EarlyEvent, Loop, StartRow, StartEvent,
     LaunchBrowser, LeaveFinished, LeaveIncomplete, Throw, RecordStopped
<1>2. ASSUME NEW r \in Runs, ToolStep(r) \/ Timers(r) PROVE call' = call
  BY <1>2, ToolFrame, TimersFrame
<1>3. ASSUME NEW r \in Runs, Commit(r) PROVE call' = call
  BY <1>3 DEF Commit, Teardown, ProposeTerminal, CommitRun, CommitRow, CommitEvent,
     CommitStatistics, VerifyCommit, QuarantineRow, QuarantineEvent, Dequeue
<1>4. ASSUME NEW r \in Runs, RunFault(r) PROVE call' = call
  BY <1>4 DEF RunFault, CloseFails, ClaimFails, LoopFails, ToolFails, CommitFails, LoseEvent
<1>5. ASSUME NEW c \in Cancels, CancelAgain(c) \/ CancelPersist(c) \/ CancelEvent(c) PROVE Same \/ More
  <2>1. CancelStep(c)
    BY <1>5 DEF CancelStep
  <2>2. ~Claimed(Target[c])
    BY <1>5 DEF CancelAgain, CancelPersist, CancelEvent, Calling, Cancellable, Remembered,
       Noted, Honouring, Claimed
  <2>3. call' = [call EXCEPT ![c] = "accepted"] \/ call' = [call EXCEPT ![c] = "row"]
    BY <1>5 DEF CancelAgain, CancelPersist, CancelEvent, Calling
  <2>4. CASE call' = [call EXCEPT ![c] = "row"]
    <3>1. call[c] # "accepted"
      BY <1>a, <1>5, <2>4 DEF CancelAgain, CancelPersist, CancelEvent, Calling
    <3> QED
      BY <1>a, <1>b, <2>4, <3>1
  <2> QED
    BY <1>c, <2>1, <2>2, <2>3, <2>4
<1>6. ASSUME NEW c \in Cancels, CancelRoute(c) \/ CancelEnter(c) \/ CancelRefused(c)
                               \/ CancelDecided(c) \/ CancelRow(c) \/ CancelFails(c)
      PROVE  Same
  <2>1. \E to \in CallPcs \ {"accepted"} : call' = [call EXCEPT ![c] = to]
    BY <1>6 DEF CancelRoute, CancelEnter, CancelRefused, CancelDecided, CancelRow, CancelFails,
       Calling, CallPcs
  <2>2. call[c] # "accepted"
    BY <1>6 DEF CancelRoute, CancelEnter, CancelRefused, CancelDecided, CancelRow, CancelFails,
       Calling
  <2> QED
    BY <1>a, <1>b, <2>1, <2>2
<1>7. CASE Crash
  BY <1>a, <1>b, <1>7 DEF Crash
<1>8. Reconcile \/ Restart => call' = call
  BY ReconcileFrame, RestartFrame
<1>9. CASE UNCHANGED vars
  BY <1>d, <1>9 DEF vars
<1> QED
  BY <1>d, <1>1, <1>2, <1>3, <1>4, <1>5, <1>6, <1>7, <1>8, <1>9 DEF Next, CancelStep

(* The mapping to the abstract outcome. *)
ClaimOf(r) == IF Claimed(r) THEN row[r].stop ELSE "none"
Phases == [r \in Runs |-> PhaseOf(r)]
ClaimsMade == [r \in Runs |-> ClaimOf(r)]
AcceptedRuns == {r \in Runs : Accepted(r)}

(* A run whose executor does not move keeps its outcome.                   *)
LEMMA StillOutcome ==
  ASSUME Base, Staged, Remembered, History, [Next]_vars, NEW s \in Runs, exec'[s] = exec[s]
  PROVE  PhaseOf(s)' = PhaseOf(s) /\ ClaimOf(s)' = ClaimOf(s)
<1>1. ~CommitRow(s) /\ ~QuarantineRow(s)
  BY DEF CommitRow, QuarantineRow, At, Goto, Base, TypeOK
<1>2. Claimed(s) \/ Claimed(s)' => row'[s] = row[s]
  BY <1>1, ClaimSteps, WithdrawSteps
<1> QED
  BY <1>2 DEF PhaseOf, ClaimOf, Claimed

(* One whose executor moves claims, keeps or settles, or is not seen.      *)
LEMMA MovedOutcome ==
  ASSUME Base, Staged, Remembered, History, [Next]_vars, NEW s \in Runs,
         exec'[s] # exec[s], ~Crash, History', Remembered'
  PROVE  \/ PhaseOf(s)' = PhaseOf(s) /\ ClaimOf(s)' = ClaimOf(s)
         \/ /\ PhaseOf(s) = "open" /\ PhaseOf(s)' = "claimed"
            /\ ClaimOf(s)' \in Claims /\ ~Accepted(s)'
         \/ PhaseOf(s) = "claimed" /\ PhaseOf(s)' = "kept" /\ ClaimOf(s)' = ClaimOf(s)
         \/ PhaseOf(s) \in {"open", "claimed"} /\ PhaseOf(s)' = "settled" /\ ClaimOf(s)' = "none"
<1>1. /\ Claimed(s) => exec[s] \in AfterRow
      /\ Claimed(s)' => exec'[s] \in AfterRow /\ row'[s].stop \in Claims
  <2>1. Traced(s) /\ Traced(s)'
    BY DEF History
  <2> QED
    BY <2>1 DEF Traced
<1>2. /\ exec[s] \in AfterRow => exec'[s] \in AfterRow
      /\ exec[s] \in {"gone", "lost"} => exec'[s] \in {"gone", "lost"}
  BY ExecutorSteps
<1>3. CASE Claimed(s)
  <2>1. CASE row'[s] = row[s]
    BY <1>2, <1>3, <2>1 DEF PhaseOf, ClaimOf, Claimed
  <2>2. CASE QuarantineRow(s)
    <3>1. exec[s] = "quarantine-row" /\ exec'[s] = "quarantine-event" /\ row'[s].status = "interrupted"
      BY <2>2 DEF QuarantineRow, At, Goto, Store, Base, TypeOK
    <3> QED
      BY <1>3, <3>1 DEF PhaseOf, ClaimOf, Claimed, AfterRow
  <2> QED
    BY <1>3, <2>1, <2>2, WithdrawSteps
<1>4. CASE ~Claimed(s) /\ Claimed(s)'
  <2>1. CommitRow(s)
    BY <1>4, ClaimSteps DEF Claimed
  <2>2. exec[s] = "commit-row" /\ exec'[s] = "commit-event"
    BY <2>1 DEF CommitRow, At, Goto, Base, TypeOK
  <2>3. ~Accepted(s)'
    BY <1>4 DEF Accepted, Remembered, Noted, Claimed, Honouring
  <2> QED
    BY <1>1, <1>4, <2>2, <2>3 DEF PhaseOf, ClaimOf, AfterRow
<1>5. CASE ~Claimed(s) /\ ~Claimed(s)'
  BY <1>2, <1>5 DEF PhaseOf, ClaimOf
<1> QED
  BY <1>3, <1>4, <1>5

(* A crash keeps what is claimed and settles what had begun.               *)
LEMMA CrashOutcome ==
  ASSUME Base, History, Crash, NEW s \in Runs
  PROVE  /\ PhaseOf(s)' = IF PhaseOf(s) = "claimed" THEN "kept"
                          ELSE IF PhaseOf(s) = "open" /\ exec[s] # "absent" THEN "settled"
                          ELSE PhaseOf(s)
         /\ ClaimOf(s)' = ClaimOf(s)
<1>1. row' = row /\ exec'[s] = IF exec[s] = "absent" THEN "absent" ELSE "lost"
  BY DEF Crash
<1>2. Claimed(s) => exec[s] # "absent"
  BY DEF History, Traced, AfterRow
<1> QED
  BY <1>1, <1>2 DEF PhaseOf, ClaimOf, Claimed, AfterRow

(* So every step of a run is one of the abstract outcome, or is not seen.  *)
LEMMA OutcomeRefines ==
  ASSUME Base, Staged, Remembered, History, Base', Remembered', History', [Next]_vars
  PROVE  [Outcome!Next]_Outcome!outcomeVars
<1> SUFFICES Outcome!Next \/ UNCHANGED <<Phases, ClaimsMade, AcceptedRuns>>
  BY DEF Outcome!outcomeVars, Phases, ClaimsMade, AcceptedRuns, ClaimOf
<1>0. /\ DOMAIN Phases = Runs /\ DOMAIN ClaimsMade = Runs
      /\ \A r \in Runs : Phases[r] = PhaseOf(r) /\ ClaimsMade[r] = ClaimOf(r)
      /\ \A r \in Runs : Phases'[r] = PhaseOf(r)' /\ ClaimsMade'[r] = ClaimOf(r)'
      /\ Phases = [r \in Runs |-> Phases[r]] /\ ClaimsMade = [r \in Runs |-> ClaimsMade[r]]
      /\ Phases' = [r \in Runs |-> Phases'[r]] /\ ClaimsMade' = [r \in Runs |-> ClaimsMade'[r]]
  BY DEF Phases, ClaimsMade
<1>1. CASE UNCHANGED exec
  <2>1. UNCHANGED <<Phases, ClaimsMade>>
    BY <1>0, <1>1, StillOutcome
  <2>2. CASE \A r \in Runs : Accepted(r)' <=> Accepted(r)
    BY <2>1, <2>2 DEF AcceptedRuns
  <2>3. ASSUME NEW s \in Runs, ~Claimed(s), \A r \in Runs : Accepted(r)' <=> Accepted(r) \/ r = s
        PROVE  Outcome!Next
    <3>1. AcceptedRuns' = AcceptedRuns \cup {s}
      BY <2>3 DEF AcceptedRuns
    <3>2. Phases[s] \in {"open", "settled"}
      BY <1>0, <2>3 DEF PhaseOf
    <3>3. Outcome!Accept(s)
      BY <2>1, <3>1, <3>2 DEF Outcome!Accept, Phases, ClaimsMade, AcceptedRuns, ClaimOf
    <3> QED
      BY <3>3 DEF Outcome!Next
  <2> QED
    BY <2>2, <2>3, AcceptSteps
<1>2. CASE ~UNCHANGED exec /\ Crash
  <2>1. UNCHANGED <<AcceptedRuns, ClaimsMade>>
    <3>1. UNCHANGED ClaimsMade
      BY <1>0, <1>2, CrashOutcome
    <3> QED
      BY <1>2, <3>1, AcceptSteps DEF AcceptedRuns
  <2>2. Phases' = [r \in Runs |-> IF Phases[r] = "claimed" THEN "kept"
                   ELSE IF Phases[r] = "open" /\ r \in {s \in Runs : exec[s] # "absent"} THEN "settled"
                   ELSE Phases[r]]
    BY <1>0, <1>2, CrashOutcome
  <2>3. Outcome!Crash
    BY <2>1, <2>2 DEF Outcome!Crash, Phases, ClaimsMade, AcceptedRuns, ClaimOf
  <2> QED
    BY <2>3 DEF Outcome!Next
<1>3. ASSUME NEW s \in Runs, exec'[s] # exec[s], ~Crash
      PROVE  Outcome!Next \/ UNCHANGED <<Phases, ClaimsMade, AcceptedRuns>>
  <2>1. UNCHANGED AcceptedRuns
    BY <1>3, AcceptSteps DEF AcceptedRuns
  <2>2. \A r \in Runs \ {s} : Phases'[r] = Phases[r] /\ ClaimsMade'[r] = ClaimsMade[r]
    BY <1>0, <1>3, ExecutorSteps, StillOutcome
  <2>3. /\ Phases' = [Phases EXCEPT ![s] = Phases'[s]]
        /\ ClaimsMade' = [ClaimsMade EXCEPT ![s] = ClaimsMade'[s]]
    BY <1>0, <2>2
  <2>4. CASE PhaseOf(s)' = PhaseOf(s) /\ ClaimOf(s)' = ClaimOf(s)
    <3>1. UNCHANGED <<Phases, ClaimsMade>>
      BY <1>0, <2>2, <2>4
    <3> QED
      BY <2>1, <3>1
  <2>5. CASE PhaseOf(s) = "open" /\ PhaseOf(s)' = "claimed" /\ ClaimOf(s)' \in Claims /\ ~Accepted(s)'
    <3>1. Phases[s] = "open" /\ s \notin AcceptedRuns
      BY <1>0, <2>1, <2>5 DEF AcceptedRuns
    <3>2. Phases' = [Phases EXCEPT ![s] = "claimed"]
          /\ \E c \in Claims : ClaimsMade' = [ClaimsMade EXCEPT ![s] = c]
      BY <1>0, <2>3, <2>5
    <3>3. Outcome!Claim(s)
      BY <2>1, <3>1, <3>2 DEF Outcome!Claim, Outcome!Moves, Phases, ClaimsMade, AcceptedRuns, ClaimOf
    <3> QED
      BY <3>3 DEF Outcome!Next
  <2>6. CASE PhaseOf(s) = "claimed" /\ PhaseOf(s)' = "kept" /\ ClaimOf(s)' = ClaimOf(s)
    <3>1. Phases[s] = "claimed" /\ Phases' = [Phases EXCEPT ![s] = "kept"] /\ UNCHANGED ClaimsMade
      BY <1>0, <2>2, <2>3, <2>6
    <3>2. Outcome!Keep(s)
      BY <2>1, <3>1 DEF Outcome!Keep, Outcome!Moves, Phases, ClaimsMade, AcceptedRuns, ClaimOf
    <3> QED
      BY <3>2 DEF Outcome!Next
  <2>7. CASE PhaseOf(s) \in {"open", "claimed"} /\ PhaseOf(s)' = "settled" /\ ClaimOf(s)' = "none"
    <3>1. /\ Phases[s] \in {"open", "claimed"} /\ Phases' = [Phases EXCEPT ![s] = "settled"]
          /\ ClaimsMade' = [ClaimsMade EXCEPT ![s] = "none"]
      BY <1>0, <2>3, <2>7
    <3>2. Outcome!Settle(s)
      BY <2>1, <3>1 DEF Outcome!Settle, Outcome!Moves, Phases, ClaimsMade, AcceptedRuns, ClaimOf
    <3> QED
      BY <3>2 DEF Outcome!Next
  <2> QED
    BY <1>3, <2>4, <2>5, <2>6, <2>7, MovedOutcome
<1>4. UNCHANGED exec \/ \E s \in Runs : exec'[s] # exec[s]
  <2>1. exec \in [Runs -> ExecPcs] /\ exec' \in [Runs -> ExecPcs]
    BY DEF Base, TypeOK
  <2> QED
    BY <2>1
<1> QED
  BY <1>1, <1>2, <1>3, <1>4

(* Whatever tools, timers, requests, faults and crashes do, a run claims   *)
(* an outcome once, not after an accepted cancellation, and a claim that   *)
(* is not withdrawn by its own commit stays as it was written              *)
(* (run-queue.ts commitRun, executor.ts commitTerminal). *)
THEOREM OutcomeIsImplemented == Spec => ImplementsOutcome
<1>1. Init => Outcome!Init
  BY DEF Init, Outcome!Init, PhaseOf, Claimed, AfterRow, Accepted
<1>2. Base /\ Staged /\ Remembered /\ History /\ Base' /\ Remembered' /\ History' /\ [Next]_vars
        => [Outcome!Next]_Outcome!outcomeVars
  BY OutcomeRefines
<1> QED
  BY <1>1, <1>2, BaseInvariant, StagedInvariant, RememberedInvariant, HistoryInvariant,
     PTL DEF Spec, ImplementsOutcome, Outcome!Spec
=============================================================================
