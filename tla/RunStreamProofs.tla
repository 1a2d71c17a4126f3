--------------------------- MODULE RunStreamProofs ---------------------------
(***************************************************************************)
(* The event stream beside any runs: one that ends after the commit of an  *)
(* executor has delivered the conclusion.                                  *)
(*                                                                         *)
(* The streams only read, so a behaviour with them is one of RunLifecycle  *)
(* and its layers hold.  On top of them: a run whose commit is under way   *)
(* has its conclusion in the log once it is inactive (Logged), and a       *)
(* stream that decided to end did so for a run that is past becoming an    *)
(* owner (Ending).                                                         *)
(***************************************************************************)
EXTENDS RunStream, RunConclusionProofs

Written == {"commit-statistics", "verify", "quarantine-row", "quarantine-event"} \cup Over

(* Over, or in a terminal row without ever having been active. *)
Past(r) ==
  exec[r] \in Over \/ (exec[r] \in Waiting \cup {"early-event"} /\ row[r].status \in Terminal)

(* Without faults: a run behind its commit is concluded in the log, none   *)
(* is lost, and a row is terminal only once its conclusion is under way. *)
Logged(r) ==
  /\ r \in owners /\ exec[r] \in Written => Conclusions(r) # {}
  /\ exec[r] \in {"early-stopped", "early-row", "starting"} => row[r].status = "queued"
  /\ exec[r] # "lost"

(* A stream that saw a terminal row ends only for a run that is past being *)
(* concluded by an executor, and has then read the conclusion if one was. *)
Ending(r) ==
  /\ reader[r].pc = "decide" => row[r].status \in Terminal \/ r \in owners
  /\ reader[r].pc \in {"final", "done"} => Past(r)
  /\ reader[r].pc = "done" => reader[r].concluded \/ r \notin owners

ReadersTyped ==
  reader \in [Runs -> [pc : {"off", "read", "status", "decide", "final", "done"},
                       concluded : BOOLEAN]]

Faultless == upsets = 0 => \A r \in Runs : Logged(r)
Streaming == ReadersTyped /\ (upsets = 0 => \A r \in Runs : Ending(r))

(* Streams change nothing a run reads. *)
LEMMA StreamsOnlyRead == StreamSpec => Spec
<1>1. StreamInit => Init
  BY DEF StreamInit
<1>2. [StreamNext]_streamVars => [Next]_vars
  BY DEF StreamNext, streamVars, Stream, Connect, ReadEvents, ReadStatus, CheckActive, ReadFinal,
         Moves, Delivers
<1> QED
  BY <1>1, <1>2, PTL DEF StreamSpec, Spec

(* Without a fault no step takes a conclusion back or loses a run. *)
LEMMA NextLogged ==
  ASSUME Base, Staged, Faultless, [Next]_vars, NEW s \in Runs, upsets' = 0 PROVE Logged(s)'
<1>a. /\ row \in [Runs -> [status : Status, stop : Stops]] /\ exec \in [Runs -> ExecPcs]
      /\ upsets \in Nat /\ owners \subseteq Runs /\ log \in [Runs -> Seq(EventTypes)]
      /\ StageOf(s)
  BY DEF Base, TypeOK, Staged
<1>b. Conclusions(s) \subseteq Conclusions(s)'
  BY PlaceSteps
<1>c. ASSUME CommitEvent(s) PROVE Conclusions(s)' # {}
  <2>1. log'[s] = Append(log[s], "run:completed") /\ log[s] \in Seq(EventTypes)
    BY <1>a, <1>c DEF CommitEvent, Record
  <2>2. Len(log[s]) + 1 \in DOMAIN log'[s] /\ log'[s][Len(log[s]) + 1] = "run:completed"
    BY <2>1
  <2> QED
    BY <2>2 DEF Conclusions, Places, TerminalEvents
<1> DEFINE Rest ==
      /\ upsets = 0
      /\ s \in owners' /\ exec'[s] \in Written =>
           s \in owners /\ (exec[s] \in Written \/ CommitEvent(s))
      /\ exec'[s] \in {"early-stopped", "early-row", "starting"} => row'[s].status = "queued"
      /\ exec'[s] # "lost"
<1> SUFFICES Rest
  BY <1>b, <1>c DEF Logged, Faultless
<1>d. upsets = 0 => Logged(s)
  BY DEF Faultless
<1> USE <1>a, <1>d DEF Logged, Written, Over, StageOf, Started, Proposing, Committing, Touched
<1>1. ASSUME NEW r \in Runs, Admission(r) PROVE Rest
  BY <1>1 DEF Admission, CreateRun, StartRunExecution, At, Goto, Store
<1>2. ASSUME NEW r \in Runs, Claim(r) PROVE Rest
  BY <1>2 DEF Claim, ExecuteRun, ClaimRefused, ClaimEndsEarly, ClaimActive, EarlyStopped,
              EarlyRow, EarlyEvent, At, Goto, Store, Claimable
<1>3. ASSUME NEW r \in Runs, Loop(r) PROVE Rest
  BY <1>3 DEF Loop, StartRow, StartEvent, LaunchBrowser, LeaveFinished, LeaveIncomplete,
              Throw, RecordStopped, At, Goto, StoreRunning
<1>4. ASSUME NEW r \in Runs, ToolStep(r) PROVE Rest
  BY <1>4 DEF ToolStep, StartTool, DispatchWrite, SettleAction, FailAction, RecordAction,
              PersistUsage, FinishTool, AcceptFinish, RecordFinish, At, Tool, StoreRunning
<1>5. ASSUME NEW r \in Runs, Timers(r) PROVE Rest
  BY <1>5 DEF Timers, RunTimeout, ToolTimeout
<1>6. ASSUME NEW r \in Runs, Commit(r) PROVE Rest
  <2>1. CASE CommitEvent(r)
    BY <2>1 DEF CommitEvent, At, Goto
  <2> QED
    BY <1>6, <2>1 DEF Commit, Teardown, ProposeTerminal, CommitRun, CommitRow, CommitStatistics,
       VerifyCommit, QuarantineRow, QuarantineEvent, Dequeue, At, Goto, Store
<1>7. ASSUME NEW r \in Runs, RunFault(r) PROVE Rest
  BY <1>7 DEF RunFault, CloseFails, ClaimFails, LoopFails, ToolFails, CommitFails, LoseEvent, Upset
<1>8. ASSUME NEW c \in Cancels, CancelStep(c) \/ CancelFails(c) PROVE Rest
  <2>1. CASE CancelRow(c)
    <3>1. s = Target[c] => exec[s] \notin ExecGated \cup Started
      BY <2>1, Exclusions DEF CancelRow, Calling, Staged, Asked, CallGated
    <3> QED
      BY <2>1, <3>1 DEF CancelRow, Store, ExecGated
  <2>2. CASE CancelFails(c)
    BY <2>2 DEF CancelFails, Upset
  <2> QED
    BY <1>8, <2>1, <2>2 DEF CancelStep, CancelRoute, CancelEnter, CancelRefused, CancelAgain,
       CancelDecided, CancelPersist, CancelEvent
<1>9. CASE Reconcile
  <2>1. /\ UNCHANGED <<owners, exec>>
        /\ row[s].status = "queued" => row'[s].status = "queued"
    <3>1. UNCHANGED <<owners, exec>>
      BY <1>9, ReconcileFrame
    <3>2. CASE ReconcileUpdate
      BY <3>1, <3>2 DEF ReconcileUpdate
    <3> QED
      BY <1>9, <3>1, <3>2 DEF Reconcile, ReconcileSelect, ReconcileCheck, ReconcileClear,
         ReconcileRecord
  <2>2. UNCHANGED upsets
    BY <1>9 DEF Reconcile, ReconcileSelect, ReconcileCheck, ReconcileUpdate, ReconcileClear,
       ReconcileRecord
  <2> QED
    BY <2>1, <2>2
<1>10. CASE Crash
  BY <1>10 DEF Crash
<1>11. CASE Restart
  BY <1>11 DEF Restart, Serve, RestartRow, RestartEvent, Store
<1>12. CASE UNCHANGED vars
  BY <1>12 DEF vars
<1> QED
  BY <1>1, <1>2, <1>3, <1>4, <1>5, <1>6, <1>7, <1>8, <1>9, <1>10, <1>11, <1>12 DEF Next

(* So it is in every state without faults. *)
LEMMA FaultlessInvariant == Spec => []Faultless
<1>1. Init => Faultless
  BY DEF Init, Faultless, Logged
<1>2. Base /\ Staged /\ Faultless /\ [Next]_vars => Faultless'
  <2> SUFFICES ASSUME Base, Staged, Faultless, [Next]_vars, upsets' = 0, NEW s \in Runs
               PROVE  Logged(s)'
    BY DEF Faultless
  <2> QED
    BY NextLogged
<1> QED
  BY <1>1, <1>2, BaseInvariant, StagedInvariant, PTL DEF Spec

-----------------------------------------------------------------------------
(* What the runs do to a stream that is about to end.                      *)

(* Without a fault, a terminal row stays one or belongs to an owner, a run *)
(* that is past stays past, and gets no owner. *)
LEMMA PastStays ==
  ASSUME Base, Staged, Owed, Faultless, [Next]_vars, NEW s \in Runs, upsets' = 0
  PROVE  /\ upsets = 0
         /\ row[s].status \in Terminal \/ s \in owners =>
              row'[s].status \in Terminal \/ s \in owners'
         /\ Past(s) => Past(s)' /\ (s \in owners' => s \in owners)
<1>a. /\ row \in [Runs -> [status : Status, stop : Stops]] /\ exec \in [Runs -> ExecPcs]
      /\ upsets \in Nat /\ owners \subseteq Runs /\ boot \in {"up", "down"}
      /\ StageOf(s) /\ Clear(s)
  BY DEF Base, TypeOK, Staged, Owed
<1>b. upsets = 0 => Logged(s)
  BY DEF Faultless
<1>c. /\ \A r \in Runs : StatusOf(stop[r]) \in Terminal
      /\ {"cancelled", "interrupted"} \subseteq Terminal
      /\ Terminal \cap {"absent", "queued", "running"} = {}
  BY StatusOfFacts DEF Terminal
<1> DEFINE Kept ==
      /\ upsets = 0
      /\ row[s].status \in Terminal \/ s \in owners => row'[s].status \in Terminal \/ s \in owners'
      /\ Past(s) => Past(s)' /\ (s \in owners' => s \in owners)
<1> SUFFICES Kept
  OBVIOUS
<1> USE <1>a, <1>b, <1>c DEF Past, Logged, Over, Waiting, StageOf, Started, Proposing, Committing, Touched
<1>1. ASSUME NEW r \in Runs, Admission(r) PROVE Kept
  BY <1>1 DEF Admission, CreateRun, StartRunExecution, At, Goto, Store
<1>2. ASSUME NEW r \in Runs, Claim(r) PROVE Kept
  BY <1>2 DEF Claim, ExecuteRun, ClaimRefused, ClaimEndsEarly, ClaimActive, EarlyStopped,
              EarlyRow, EarlyEvent, At, Goto, Store, Claimable
<1>3. ASSUME NEW r \in Runs, Loop(r) PROVE Kept
  BY <1>3 DEF Loop, StartRow, StartEvent, LaunchBrowser, LeaveFinished, LeaveIncomplete,
              Throw, RecordStopped, At, Goto, StoreRunning
<1>4. ASSUME NEW r \in Runs, ToolStep(r) PROVE Kept
  <2>1. CASE PersistUsage(r)
    BY <2>1 DEF PersistUsage, Tool, StoreRunning, Clear
  <2> QED
    BY <1>4, <2>1 DEF ToolStep, StartTool, DispatchWrite, SettleAction, FailAction, RecordAction,
       FinishTool, AcceptFinish, RecordFinish
<1>5. ASSUME NEW r \in Runs, Timers(r) PROVE Kept
  BY <1>5 DEF Timers, RunTimeout, ToolTimeout
<1>6. ASSUME NEW r \in Runs, Commit(r) PROVE Kept
  BY <1>6 DEF Commit, Teardown, ProposeTerminal, CommitRun, CommitRow, CommitEvent,
              CommitStatistics, VerifyCommit, QuarantineRow, QuarantineEvent, Dequeue,
              At, Goto, Store
<1>7. ASSUME NEW r \in Runs, RunFault(r) PROVE Kept
  BY <1>7 DEF RunFault, CloseFails, ClaimFails, LoopFails, ToolFails, CommitFails, LoseEvent, Upset
<1>8. ASSUME NEW c \in Cancels, CancelStep(c) \/ CancelFails(c) PROVE Kept
  <2>1. CASE CancelRow(c)
    <3>1. UNCHANGED <<exec, owners, upsets>> /\ (row'[s] = row[s] \/ row'[s].status = "cancelled")
      BY <2>1 DEF CancelRow, Store
    <3> QED
      BY <3>1
  <2>2. CASE CancelFails(c)
    BY <2>2 DEF CancelFails, Upset
  <2> QED
    BY <1>8, <2>1, <2>2 DEF CancelStep, CancelRoute, CancelEnter, CancelRefused, CancelAgain,
       CancelDecided, CancelPersist, CancelEvent
<1>9. CASE Reconcile
  BY <1>9 DEF Reconcile, ReconcileSelect, ReconcileCheck, ReconcileUpdate,
              ReconcileClear, ReconcileRecord
<1>10. CASE Crash
  BY <1>10 DEF Crash
<1>11. CASE Restart
  BY <1>11 DEF Restart, Serve, RestartRow, RestartEvent, Store
<1>12. CASE UNCHANGED vars
  BY <1>12 DEF vars
<1> QED
  BY <1>1, <1>2, <1>3, <1>4, <1>5, <1>6, <1>7, <1>8, <1>9, <1>10, <1>11, <1>12 DEF Next

(* Every step keeps the types of the streams. *)
LEMMA ReaderTypes ==
  ASSUME ReadersTyped, [StreamNext]_streamVars PROVE ReadersTyped'
<1> USE DEF ReadersTyped
<1>1. CASE Next /\ Disconnects
  BY <1>1 DEF Disconnects
<1>2. ASSUME NEW r \in Runs, Stream(r) PROVE ReadersTyped'
  <2>1. reader[r].concluded \in BOOLEAN
    OBVIOUS
  <2>2. ASSUME NEW from, NEW to \in {"read", "status", "decide", "final", "done"},
               Moves(r, from, to) \/ Delivers(r, from, to)
        PROVE  ReadersTyped'
    <3>1. CASE Moves(r, from, to)
      <4>1. [reader[r] EXCEPT !.pc = to] \in
               [pc : {"off", "read", "status", "decide", "final", "done"}, concluded : BOOLEAN]
        BY <2>2
      <4> QED
        BY <3>1, <4>1 DEF Moves
    <3>2. CASE Delivers(r, from, to)
      <4>1. (reader[r].concluded \/ Concluded(r)) \in BOOLEAN
        BY <2>1
      <4> QED
        BY <2>2, <3>2, <4>1 DEF Delivers
    <3> QED
      BY <2>2, <3>1, <3>2
  <2> QED
    BY <1>2, <2>2 DEF Stream, Connect, ReadEvents, ReadStatus, CheckActive, ReadFinal
<1>3. CASE UNCHANGED streamVars
  BY <1>3 DEF streamVars
<1> QED
  BY <1>1, <1>2, <1>3 DEF StreamNext

(* Steps of the runs and of the streams keep what an ending stream knows. *)
LEMMA NextEnding ==
  ASSUME Base, Staged, Owed, Faultless, Streaming, [StreamNext]_streamVars,
         upsets' = 0, NEW s \in Runs
  PROVE  Ending(s)'
<1>a. reader \in [Runs -> [pc : {"off", "read", "status", "decide", "final", "done"},
                           concluded : BOOLEAN]]
  BY DEF Streaming, ReadersTyped
<1>b. upsets = 0 => Ending(s) /\ Logged(s)
  BY DEF Streaming, Faultless
<1>1. CASE Next /\ Disconnects
  <2>1. /\ upsets = 0
        /\ row[s].status \in Terminal \/ s \in owners =>
             row'[s].status \in Terminal \/ s \in owners'
        /\ Past(s) => Past(s)' /\ (s \in owners' => s \in owners)
    BY <1>1, PastStays
  <2>2. /\ reader'[s].pc \in {"decide", "final", "done"} => reader'[s] = reader[s]
    BY <1>1, <1>a DEF Disconnects
  <2> QED
    BY <1>b, <2>1, <2>2 DEF Ending
<1>2. ASSUME NEW r \in Runs, Stream(r) PROVE Ending(s)'
  <2>1. UNCHANGED vars
    BY <1>2 DEF Stream, Connect, ReadEvents, ReadStatus, CheckActive, ReadFinal, Moves, Delivers
  <2>2. UNCHANGED <<row, owners, exec, active, boot, upsets>>
    BY <2>1 DEF vars
  <2>3. Ending(s) /\ Logged(s) /\ StageOf(s) /\ Past(s)' = Past(s)
    BY <1>b, <2>2 DEF Staged, Past
  <2>4. CASE r # s
    BY <1>2, <1>a, <2>2, <2>3, <2>4 DEF Stream, Connect, ReadEvents, ReadStatus, CheckActive,
       ReadFinal, Moves, Delivers, Ending
  <2>5. CASE r = s /\ (Connect(s) \/ ReadEvents(s))
    BY <1>a, <2>5 DEF Connect, ReadEvents, Moves, Delivers, Ending
  <2>6. CASE r = s /\ ReadStatus(s)
    BY <1>a, <2>2, <2>6 DEF ReadStatus, Moves, Ending
  <2>7. CASE r = s /\ CheckActive(s)
    <3>1. reader'[s].pc = "final" => active[s] = "none" /\ (row[s].status \in Terminal \/ s \in owners)
      BY <1>a, <2>3, <2>7 DEF CheckActive, Moves, Ending
    <3>2. exec[s] \in ExecPcs /\ Terminal \cap {"absent", "queued"} = {}
      BY DEF Base, TypeOK, Terminal
    <3>3. reader'[s].pc = "final" => Past(s)
      BY <2>3, <3>1, <3>2 DEF StageOf, Logged, Past, Over, Waiting, Started, Proposing, Committing, ExecPcs
    <3>4. reader'[s].pc \in {"final", "read"}
      BY <1>a, <2>7 DEF CheckActive, Moves
    <3> QED
      BY <2>3, <3>3, <3>4 DEF Ending
  <2>8. CASE r = s /\ ReadFinal(s)
    <3>1. Past(s) /\ reader'[s] = [pc |-> "done", concluded |-> reader[s].concluded \/ Concluded(s)]
      BY <1>a, <2>3, <2>8 DEF ReadFinal, Delivers, Ending
    <3>2. s \in owners => Concluded(s)
      BY <2>3, <3>1 DEF Past, Logged, Written, StageOf, Over, Waiting, Committing, Conclusions, Concluded
    <3>3. ASSUME s \in owners PROVE reader'[s].concluded
      <4>1. (reader[s].concluded \/ Concluded(s)) = TRUE
        BY <3>2, <3>3, Zenon
      <4>2. reader'[s] = [pc |-> "done", concluded |-> TRUE]
        <5>1. reader'[s] = [pc |-> "done", concluded |-> reader[s].concluded \/ Concluded(s)]
          BY <3>1
        <5> QED
          BY <4>1, <5>1, Zenon
      <4> QED
        BY <4>2
    <3> QED
      BY <2>2, <2>3, <3>1, <3>3 DEF Ending
  <2> QED
    BY <1>2, <2>4, <2>5, <2>6, <2>7, <2>8 DEF Stream
<1>3. CASE UNCHANGED streamVars
  BY <1>3, <1>b DEF streamVars, vars, Ending, Past
<1> QED
  BY <1>1, <1>2, <1>3 DEF StreamNext

(* routes/runs.ts reads the row, then whether the run is active, then the  *)
(* log once more: the executor stays active until its commit is verified,  *)
(* so the last read finds the conclusion it wrote. *)
THEOREM StreamsEndConcluded == StreamSpec => []StreamEndsAfterCommit
<1>1. StreamInit => Streaming
  BY DEF StreamInit, Streaming, ReadersTyped, Ending
<1>2. Base /\ Staged /\ Owed /\ Faultless /\ Streaming /\ [StreamNext]_streamVars => Streaming'
  <2> SUFFICES ASSUME Base, Staged, Owed, Faultless, Streaming, [StreamNext]_streamVars
               PROVE  Streaming'
    OBVIOUS
  <2> QED
    BY ReaderTypes, NextEnding DEF Streaming
<1>3. Base /\ Streaming => StreamEndsAfterCommit
  BY DEF Base, TypeOK, Streaming, Ending, StreamEndsAfterCommit
<1> QED
  BY <1>1, <1>2, <1>3, StreamsOnlyRead, BaseInvariant, StagedInvariant, OwedInvariant,
     FaultlessInvariant, PTL DEF StreamSpec
=============================================================================
