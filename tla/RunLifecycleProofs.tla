------------------------- MODULE RunLifecycleProofs -------------------------
(***************************************************************************)
(* Proofs about RunLifecycle for any runs, requests and bounds.            *)
(*                                                                         *)
(* The inductive invariant joins the types with the two mutual exclusions  *)
(* the code rests on: the head of the queue and the head of the gate.      *)
(***************************************************************************)
EXTENDS RunLifecycle, TLAPS

(* Where executeRun has been dequeued and has not returned. *)
Busy == {"claim", "early-stopped", "early-row", "early-event", "starting",
         "announcing", "launching", "working", "stopping", "teardown", "closing",
         "commit", "commit-row", "commit-event", "commit-statistics", "verify",
         "quarantine-row", "quarantine-event", "finished"}

(* Where executeRun, and a cancel request, are inside the gate of the run. *)
ExecGated == {"early-stopped", "early-row", "early-event", "commit-row",
              "commit-event", "commit-statistics", "verify", "quarantine-row",
              "quarantine-event"}
CallGated == {"persisting", "row", "event"}

Queued == \A r \in Runs : exec[r] \in Busy => queue # << >> /\ Head(queue) = r

Gated ==
  /\ \A r \in Runs : exec[r] \in ExecGated => Inside(r, "exec")
  /\ \A c \in Cancels : call[c] \in CallGated => Inside(Target[c], c)

Base == TypeOK /\ Queued /\ Gated

-----------------------------------------------------------------------------
(* Sequences, and the operators the actions are built from.                *)

(* Appending keeps the type and, of a sequence that has one, the head. *)
LEMMA AppendFacts ==
  ASSUME NEW S, NEW s \in Seq(S), NEW e \in S
  PROVE  /\ Append(s, e) \in Seq(S)
         /\ Append(s, e) # << >>
         /\ s # << >> => Head(Append(s, e)) = Head(s)
<1>1. /\ Append(s, e) \in Seq(S)
      /\ Len(Append(s, e)) = Len(s) + 1
  OBVIOUS
<1>2. s # << >> => Append(s, e)[1] = s[1]
  OBVIOUS
<1>3. Append(s, e) # << >>
  BY <1>1, Len(s) \in Nat, Len(<< >>) = 0
<1>4. \A q \in Seq(S) : q # << >> => Head(q) = q[1]
  OBVIOUS
<1> QED
  BY <1>1, <1>2, <1>3, <1>4

(* What remains behind the head, and before the last element. *)
LEMMA TailFacts ==
  ASSUME NEW S, NEW s \in Seq(S), s # << >>
  PROVE  /\ Head(s) \in S
         /\ Tail(s) \in Seq(S)
         /\ SubSeq(s, 1, Len(s) - 1) \in Seq(S)
OBVIOUS

(* The status stored for any stop reason is a terminal one. *)
LEMMA StatusOfFacts ==
  ASSUME NEW reason PROVE StatusOf(reason) \in Terminal
BY DEF StatusOf, Terminal

(* updateRunStatus keeps the type of the rows. *)
LEMMA StoreTyped ==
  ASSUME TypeOK, NEW r \in Runs, NEW s \in Status, NEW t \in Stops, Store(r, s, t)
  PROVE  row' \in [Runs -> [status : Status, stop : Stops]]
BY DEF Store, TypeOK

(* So does marking a row as running. *)
LEMMA StoreRunningTyped ==
  ASSUME TypeOK, NEW r \in Runs, StoreRunning(r)
  PROVE  row' \in [Runs -> [status : Status, stop : Stops]]
<1>1. row[r] \in [status : Status, stop : Stops]
  BY DEF TypeOK
<1>2. [row[r] EXCEPT !.status = "running"] \in [status : Status, stop : Stops]
  BY <1>1 DEF Status
<1> QED
  BY <1>2 DEF StoreRunning, TypeOK

(* Appending an event keeps the types of the log and of what was told. *)
LEMMA RecordTyped ==
  ASSUME TypeOK, NEW r \in Runs, NEW e \in EventTypes, Record(r, e)
  PROVE  log' \in [Runs -> Seq(EventTypes)] /\ told' \in [Runs -> Nat]
<1>1. Append(log[r], e) \in Seq(EventTypes)
  BY AppendFacts DEF TypeOK
<1> QED
  BY <1>1 DEF Record, TypeOK

(* Aborting leaves a signal the program knows. *)
LEMMA AbortTyped ==
  ASSUME TypeOK, NEW r \in Runs, NEW s \in Signals, Abort(r, s)
  PROVE  active' \in [Runs -> Signals]
BY DEF Abort, TypeOK

(* Getting in line keeps the type of the gates. *)
LEMMA EnterTyped ==
  ASSUME TypeOK, NEW r \in Runs, NEW who \in Cancels \cup {"exec"}, Enter(r, who)
  PROVE  gate' \in [Runs -> Seq(Cancels \cup {"exec"})]
<1>1. Append(gate[r], who) \in Seq(Cancels \cup {"exec"})
  BY AppendFacts DEF TypeOK
<1> QED
  BY <1>1 DEF Enter, TypeOK

(* So does leaving, for whoever is inside. *)
LEMMA LeaveTyped ==
  ASSUME TypeOK, NEW r \in Runs, NEW who, Inside(r, who), Leave(r)
  PROVE  gate' \in [Runs -> Seq(Cancels \cup {"exec"})]
<1>1. Tail(gate[r]) \in Seq(Cancels \cup {"exec"})
  BY TailFacts DEF TypeOK, Inside
<1> QED
  BY <1>1 DEF Leave, TypeOK

(* The reasons the catch block and the ordering point may choose. *)
LEMMA ReasonTyped ==
  ASSUME TypeOK, NEW r \in Runs
  PROVE  CaughtReasons(r) \subseteq Reasons /\ CommittedReason(r) \in Reasons
BY DEF CaughtReasons, CommittedReason, Reasons, TypeOK

(* Every stop reason of the executor can be stored in a row. *)
LEMMA ReasonsAreStops ==
  ASSUME NEW reason \in Reasons
  PROVE  reason \in Stops /\ StoredReason(reason) \in Stops
BY DEF Stops, StoredReason, Reasons

-----------------------------------------------------------------------------
(* Types.                                                                  *)

(* The initial values have their types. *)
LEMMA InitType == Init => TypeOK
<1> SUFFICES ASSUME Init PROVE TypeOK
  OBVIOUS
<1>1. row \in [Runs -> [status : Status, stop : Stops]]
  BY DEF Init, Status, Stops
<1>2. log \in [Runs -> Seq(EventTypes)] /\ gate \in [Runs -> Seq(Cancels \cup {"exec"})]
  BY DEF Init
<1>3. queue \in Seq(Runs) /\ told \in [Runs -> Nat]
  BY DEF Init
<1>4. /\ active \in [Runs -> Signals] /\ exec \in [Runs -> ExecPcs]
      /\ stop \in [Runs -> Reasons] /\ tool \in [Runs -> ToolPcs]
      /\ call \in [Cancels -> CallPcs]
  BY DEF Init, Signals, ExecPcs, Reasons, ToolPcs, CallPcs
<1>5. ack \in [pc : {"idle", "check", "update", "clear", "record"}, rows : SUBSET Runs]
  BY DEF Init
<1>6. /\ boot \in {"up", "down"} /\ marked \subseteq Runs /\ quarantine \in BOOLEAN
      /\ owners \subseteq Runs /\ requests \subseteq Runs
      /\ debt \in [Runs -> Debts]
      /\ effect \in [Runs -> BOOLEAN] /\ upsets \in Nat /\ acks \in Nat
  BY DEF Init, Debts
<1> QED
  BY <1>1, <1>2, <1>3, <1>4, <1>5, <1>6 DEF TypeOK

(* The check of a reconciliation keeps the types. *)
LEMMA CheckTyped ==
  ASSUME ReconcileCheck,
         debt \in [Runs -> Debts],
         ack \in [pc : {"idle", "check", "update", "clear", "record"}, rows : SUBSET Runs]
  PROVE  /\ debt' \in [Runs -> Debts]
         /\ ack' \in [pc : {"idle", "check", "update", "clear", "record"}, rows : SUBSET Runs]
<1>1. CASE queue = << >>
  <2>1. UNCHANGED debt
    BY <1>1 DEF ReconcileCheck
  <2>2. ack' = [ack EXCEPT !.pc = "update"]
    BY <1>1 DEF ReconcileCheck
  <2> QED
    BY <2>1, <2>2
<1>2. CASE queue # << >>
  <2>1. debt' = Unasked
    BY <1>2 DEF ReconcileCheck
  <2>2. ack' = [pc |-> "idle", rows |-> {}]
    BY <1>2 DEF ReconcileCheck
  <2> QED
    BY <2>1, <2>2 DEF Unasked, Debts
<1> QED
  BY <1>1, <1>2

(* Every step keeps the types, given who may be inside queue and gates. *)
LEMMA NextType == Base /\ [Next]_vars => TypeOK'
<1> SUFFICES ASSUME Base, [Next]_vars PROVE TypeOK'
  OBVIOUS
<1> USE RunConstants DEF Base, TypeOK
<1>1. ASSUME NEW r \in Runs, CreateRun(r) PROVE TypeOK'
  BY <1>1, StoreTyped DEF CreateRun, At, Goto, Status, Terminal, Stops, Reasons, ExecPcs
<1>2. ASSUME NEW r \in Runs, StartRunExecution(r) PROVE TypeOK'
  BY <1>2 DEF StartRunExecution, At, Goto, ExecPcs
<1>3. ASSUME NEW r \in Runs, ExecuteRun(r) PROVE TypeOK'
  BY <1>3, EnterTyped DEF ExecuteRun, At, Goto, ExecPcs
<1>4. ASSUME NEW r \in Runs, ClaimRefused(r) PROVE TypeOK'
  BY <1>4, LeaveTyped DEF ClaimRefused, At, Goto, Gated, ExecGated, CallGated, ExecPcs
<1>5. ASSUME NEW r \in Runs, ClaimEndsEarly(r) PROVE TypeOK'
  <2>1. stop' \in [Runs -> Reasons]
    BY <1>5 DEF ClaimEndsEarly, Reasons
  <2>2. exec' \in [Runs -> ExecPcs]
    BY <1>5 DEF ClaimEndsEarly, Goto, ExecPcs
  <2> QED
    BY <1>5, <2>1, <2>2 DEF ClaimEndsEarly
<1>6. ASSUME NEW r \in Runs, ClaimActive(r) PROVE TypeOK'
  BY <1>6, LeaveTyped DEF ClaimActive, At, Goto, Gated, ExecGated, CallGated,
     Signals, ExecPcs
<1>7. ASSUME NEW r \in Runs, EarlyStopped(r) PROVE TypeOK'
  BY <1>7, RecordTyped DEF EarlyStopped, At, Goto, ExecPcs, EventTypes
<1>8. ASSUME NEW r \in Runs, EarlyRow(r) PROVE TypeOK'
  BY <1>8, StoreTyped, StatusOfFacts, ReasonsAreStops DEF EarlyRow, At, Goto,
     Status, Terminal, Stops, Reasons, Reasons, ExecPcs
<1>9. ASSUME NEW r \in Runs, EarlyEvent(r) PROVE TypeOK'
  BY <1>9, RecordTyped, LeaveTyped DEF EarlyEvent, At, Goto, Gated, ExecGated,
     CallGated, ExecPcs, EventTypes
<1>10. ASSUME NEW r \in Runs, StartRow(r) PROVE TypeOK'
  BY <1>10, StoreRunningTyped DEF StartRow, At, Goto, Status, Terminal, Stops,
     Reasons, ExecPcs
<1>11. ASSUME NEW r \in Runs, StartEvent(r) PROVE TypeOK'
  BY <1>11, RecordTyped DEF StartEvent, At, Goto, ExecPcs, EventTypes
<1>12. ASSUME NEW r \in Runs, LaunchBrowser(r) PROVE TypeOK'
  BY <1>12 DEF LaunchBrowser, At, Goto, ExecPcs
<1>13. ASSUME NEW r \in Runs, LeaveFinished(r) PROVE TypeOK'
  BY <1>13 DEF LeaveFinished, At, Goto, Reasons, ExecPcs
<1>14. ASSUME NEW r \in Runs, LeaveIncomplete(r) PROVE TypeOK'
  BY <1>14 DEF LeaveIncomplete, At, Goto, Reasons, ExecPcs
<1>15. ASSUME NEW r \in Runs, Throw(r) PROVE TypeOK'
  <2>1. stop' \in [Runs -> Reasons]
    <3>1. (\E reason \in Reasons : stop' = [stop EXCEPT ![r] = reason])
      BY <1>15, ReasonTyped DEF Throw, Reasons
    <3> QED
      BY <3>1
  <2>2. exec' \in [Runs -> ExecPcs]
    BY <1>15 DEF Throw, Goto, ExecPcs
  <2> QED
    BY <1>15, <2>1, <2>2 DEF Throw
<1>16. ASSUME NEW r \in Runs, RecordStopped(r) PROVE TypeOK'
  BY <1>16, RecordTyped DEF RecordStopped, At, Goto, ExecPcs, EventTypes
<1>17. ASSUME NEW r \in Runs, StartTool(r) PROVE TypeOK'
  BY <1>17 DEF StartTool, At, Tool, ToolPcs
<1>18. ASSUME NEW r \in Runs, DispatchWrite(r) PROVE TypeOK'
  BY <1>18 DEF DispatchWrite, Tool, ToolPcs, Debts
<1>19. ASSUME NEW r \in Runs, SettleAction(r) PROVE TypeOK'
  BY <1>19 DEF SettleAction, Tool, ToolPcs, Debts
<1>20. ASSUME NEW r \in Runs, FailAction(r) PROVE TypeOK'
  <2>1. tool' \in [Runs -> ToolPcs]
    BY <1>20 DEF FailAction, Tool, ToolPcs
  <2>2. log' \in [Runs -> Seq(EventTypes)] /\ told' \in [Runs -> Nat]
    BY <1>20, RecordTyped DEF FailAction, EventTypes
  <2>3. active' \in [Runs -> Signals]
    BY <1>20, AbortTyped DEF FailAction, Signals
  <2> QED
    BY <1>20, <2>1, <2>2, <2>3 DEF FailAction
<1>21. ASSUME NEW r \in Runs, RecordAction(r) PROVE TypeOK'
  BY <1>21, RecordTyped DEF RecordAction, Tool, ToolPcs, EventTypes
<1>22. ASSUME NEW r \in Runs, PersistUsage(r) PROVE TypeOK'
  BY <1>22, StoreRunningTyped DEF PersistUsage, Tool, Status, Terminal, Stops,
     Reasons, ToolPcs
<1>23. ASSUME NEW r \in Runs, FinishTool(r) PROVE TypeOK'
  BY <1>23, RecordTyped DEF FinishTool, Tool, ToolPcs, EventTypes
<1>24. ASSUME NEW r \in Runs, AcceptFinish(r) PROVE TypeOK'
  BY <1>24 DEF AcceptFinish, At, Tool, ToolPcs
<1>25. ASSUME NEW r \in Runs, RecordFinish(r) PROVE TypeOK'
  BY <1>25, RecordTyped DEF RecordFinish, Tool, ToolPcs, EventTypes
<1>26. ASSUME NEW r \in Runs, RunTimeout(r) PROVE TypeOK'
  BY <1>26, AbortTyped DEF RunTimeout, Signals
<1>27. ASSUME NEW r \in Runs, ToolTimeout(r) PROVE TypeOK'
  BY <1>27, AbortTyped DEF ToolTimeout, Signals
<1>28. ASSUME NEW r \in Runs, Teardown(r) PROVE TypeOK'
  BY <1>28, AbortTyped DEF Teardown, At, Goto, Signals, ExecPcs
<1>29. ASSUME NEW r \in Runs, ProposeTerminal(r) PROVE TypeOK'
  BY <1>29, EnterTyped DEF ProposeTerminal, At, Goto, Reasons, ExecPcs
<1>30. ASSUME NEW r \in Runs, CommitRun(r) PROVE TypeOK'
  BY <1>30, ReasonTyped DEF CommitRun, At, Goto, Reasons, ExecPcs
<1>31. ASSUME NEW r \in Runs, CommitRow(r) PROVE TypeOK'
  BY <1>31, StoreTyped, StatusOfFacts, ReasonsAreStops DEF CommitRow, At, Goto,
     Status, Terminal, Stops, Reasons, Reasons, ExecPcs
<1>32. ASSUME NEW r \in Runs, CommitEvent(r) PROVE TypeOK'
  BY <1>32, RecordTyped DEF CommitEvent, At, Goto, ExecPcs, EventTypes
<1>33. ASSUME NEW r \in Runs, CommitStatistics(r) PROVE TypeOK'
  BY <1>33, RecordTyped DEF CommitStatistics, At, Goto, ExecPcs, EventTypes
<1>34. ASSUME NEW r \in Runs, VerifyCommit(r) PROVE TypeOK'
  <2>1. gate' \in [Runs -> Seq(Cancels \cup {"exec"})]
    BY <1>34, LeaveTyped DEF VerifyCommit, Gated, ExecGated, At
  <2>2. active' \in [Runs -> Signals]
    BY <1>34 DEF VerifyCommit, Signals
  <2>3. exec' \in [Runs -> ExecPcs]
    BY <1>34 DEF VerifyCommit, Goto, ExecPcs
  <2>4. quarantine' \in BOOLEAN
    BY <1>34 DEF VerifyCommit
  <2> QED
    BY <1>34, <2>1, <2>2, <2>3, <2>4 DEF VerifyCommit
<1>35. ASSUME NEW r \in Runs, QuarantineRow(r) PROVE TypeOK'
  BY <1>35, StoreTyped DEF QuarantineRow, At, Goto, Status, Terminal, Stops,
     Reasons, ExecPcs
<1>36. ASSUME NEW r \in Runs, QuarantineEvent(r) PROVE TypeOK'
  BY <1>36, RecordTyped, LeaveTyped DEF QuarantineEvent, At, Goto, Gated,
     ExecGated, CallGated, Signals, ExecPcs, EventTypes
<1>37. ASSUME NEW r \in Runs, Dequeue(r) PROVE TypeOK'
  <2>1. queue' \in Seq(Runs)
    BY <1>37, TailFacts DEF Dequeue, At, Queued, Busy
  <2>2. exec' \in [Runs -> ExecPcs]
    BY <1>37 DEF Dequeue, Goto, ExecPcs
  <2>3. requests' \subseteq Runs
    BY <1>37 DEF Dequeue
  <2> QED
    BY <1>37, <2>1, <2>2, <2>3 DEF Dequeue
<1>38. ASSUME NEW r \in Runs, CloseFails(r) PROVE TypeOK'
  <2>1. gate' \in [Runs -> Seq(Cancels \cup {"exec"})]
    BY <1>38, EnterTyped DEF CloseFails
  <2>2. stop' \in [Runs -> Reasons]
    BY <1>38 DEF CloseFails, Reasons
  <2>3. exec' \in [Runs -> ExecPcs]
    BY <1>38 DEF CloseFails, Goto, ExecPcs
  <2>4. upsets' \in Nat
    BY <1>38 DEF CloseFails
  <2> QED
    BY <1>38, <2>1, <2>2, <2>3, <2>4 DEF CloseFails
<1>39. ASSUME NEW r \in Runs, ClaimFails(r) PROVE TypeOK'
  BY <1>39, LeaveTyped DEF ClaimFails, Goto, Upset, Gated, ExecGated, CallGated, ExecPcs
<1>40. ASSUME NEW r \in Runs, LoopFails(r) PROVE TypeOK'
  <2>1. stop' \in [Runs -> Reasons]
    BY <1>40, ReasonTyped DEF LoopFails
  <2>2. exec' \in [Runs -> ExecPcs]
    <3>1. exec' = [exec EXCEPT ![r] = "teardown"] \/ exec' = [exec EXCEPT ![r] = "stopping"]
      BY <1>40 DEF LoopFails, Goto
    <3> QED
      BY <3>1 DEF ExecPcs
  <2>3. upsets' \in Nat
    BY <1>40 DEF LoopFails, Upset
  <2> QED
    BY <1>40, <2>1, <2>2, <2>3 DEF LoopFails
<1>41. ASSUME NEW r \in Runs, ToolFails(r) PROVE TypeOK'
  <2>1. tool' \in [Runs -> ToolPcs]
    BY <1>41 DEF ToolFails, AfterToolFailure, ToolPcs
  <2>2. upsets' \in Nat
    BY <1>41 DEF ToolFails, Upset
  <2> QED
    BY <1>41, <2>1, <2>2 DEF ToolFails
<1>42. ASSUME NEW r \in Runs, CommitFails(r) PROVE TypeOK'
  <2>1. gate' \in [Runs -> Seq(Cancels \cup {"exec"})]
    BY <1>42, LeaveTyped DEF CommitFails, Gated, ExecGated
  <2>2. active' \in [Runs -> Signals]
    BY <1>42 DEF CommitFails, Signals
  <2>3. exec' \in [Runs -> ExecPcs]
    <3>1. exec' = [exec EXCEPT ![r] = "finished"] \/ exec' = [exec EXCEPT ![r] = "quarantine-row"]
      BY <1>42 DEF CommitFails, Goto
    <3> QED
      BY <3>1 DEF ExecPcs
  <2>4. quarantine' \in BOOLEAN /\ upsets' \in Nat
    BY <1>42 DEF CommitFails, Upset
  <2> QED
    BY <1>42, <2>1, <2>2, <2>3, <2>4 DEF CommitFails
<1>43. ASSUME NEW r \in Runs, LoseEvent(r) PROVE TypeOK'
  BY <1>43, TailFacts DEF LoseEvent, Upset, EventTypes
<1>44. ASSUME NEW r \in Runs, RestartRow(r) PROVE TypeOK'
  BY <1>44, StoreTyped DEF RestartRow, Status, Terminal, Stops, Reasons
<1>45. ASSUME NEW r \in Runs, RestartEvent(r) PROVE TypeOK'
  BY <1>45, RecordTyped DEF RestartEvent, EventTypes
<1>46. ASSUME NEW c \in Cancels, CancelRoute(c) PROVE TypeOK'
  BY <1>46 DEF CancelRoute, Calling, CallPcs
<1>47. ASSUME NEW c \in Cancels, CancelEnter(c) PROVE TypeOK'
  BY <1>47, EnterTyped DEF CancelEnter, Calling, CallPcs
<1>48. ASSUME NEW c \in Cancels, CancelRefused(c) PROVE TypeOK'
  BY <1>48, LeaveTyped DEF CancelRefused, Calling, Gated, ExecGated, CallGated, CallPcs
<1>49. ASSUME NEW c \in Cancels, CancelAgain(c) PROVE TypeOK'
  BY <1>49, LeaveTyped DEF CancelAgain, Calling, Gated, ExecGated, CallGated, CallPcs
<1>50. ASSUME NEW c \in Cancels, CancelDecided(c) PROVE TypeOK'
  BY <1>50 DEF CancelDecided, Calling, CallPcs
<1>51. ASSUME NEW c \in Cancels, CancelPersist(c) PROVE TypeOK'
  <2>1. gate' \in [Runs -> Seq(Cancels \cup {"exec"})]
    BY <1>51, LeaveTyped DEF CancelPersist, Calling, Gated, CallGated
  <2>2. active' \in [Runs -> Signals]
    BY <1>51, AbortTyped DEF CancelPersist, Signals
  <2>3. call' \in [Cancels -> CallPcs]
    BY <1>51 DEF CancelPersist, Calling, CallPcs
  <2>4. log' \in [Runs -> Seq(EventTypes)] /\ told' \in [Runs -> Nat]
    BY <1>51, RecordTyped DEF CancelPersist, EventTypes
  <2>5. requests' \subseteq Runs
    BY <1>51 DEF CancelPersist
  <2> QED
    BY <1>51, <2>1, <2>2, <2>3, <2>4, <2>5 DEF CancelPersist
<1>52. ASSUME NEW c \in Cancels, CancelRow(c) PROVE TypeOK'
  BY <1>52, StoreTyped DEF CancelRow, Calling, Status, Terminal, Stops, Reasons, CallPcs
<1>53. ASSUME NEW c \in Cancels, CancelEvent(c) PROVE TypeOK'
  BY <1>53, RecordTyped, LeaveTyped DEF CancelEvent, Calling, Gated, ExecGated,
     CallGated, CallPcs, EventTypes
<1>54. ASSUME NEW c \in Cancels, CancelFails(c) PROVE TypeOK'
  BY <1>54, LeaveTyped DEF CancelFails, Upset, Gated, ExecGated, CallGated, CallPcs
<1>55. CASE ReconcileSelect
  <2>1. ack' \in [pc : {"idle", "check", "update", "clear", "record"}, rows : SUBSET Runs]
    BY <1>55 DEF ReconcileSelect, QuarantinedRows
  <2>2. acks' \in Nat
    BY <1>55 DEF ReconcileSelect
  <2>3. debt' \in [Runs -> Debts]
    BY <1>55 DEF ReconcileSelect, Debts
  <2> QED
    BY <1>55, <2>1, <2>2, <2>3 DEF ReconcileSelect
<1>56. CASE ReconcileCheck
  BY <1>56, CheckTyped DEF ReconcileCheck
<1>57. CASE ReconcileUpdate
  BY <1>57 DEF ReconcileUpdate, Stops, Debts
<1>58. CASE ReconcileClear
  BY <1>58 DEF ReconcileClear, Debts
<1>59. CASE ReconcileRecord
  BY <1>59, AppendFacts DEF ReconcileRecord, EventTypes
<1>60. CASE Crash
  <2>1. gate' \in [Runs -> Seq(Cancels \cup {"exec"})] /\ queue' \in Seq(Runs)
    BY <1>60 DEF Crash
  <2>2. active' \in [Runs -> Signals]
    BY <1>60 DEF Crash, Signals
  <2>3. exec' \in [Runs -> ExecPcs]
    BY <1>60 DEF Crash, ExecPcs
  <2>4. effect' \in [Runs -> BOOLEAN]
    BY <1>60 DEF Crash
  <2>5. tool' \in [Runs -> ToolPcs]
    BY <1>60 DEF Crash, ToolPcs
  <2>6. call' \in [Cancels -> CallPcs]
    BY <1>60 DEF Crash, CallPcs
  <2>7. ack' \in [pc : {"idle", "check", "update", "clear", "record"}, rows : SUBSET Runs]
    BY <1>60 DEF Crash
  <2>8. upsets' \in Nat /\ boot' \in {"up", "down"}
    BY <1>60 DEF Crash
  <2>9. debt' \in [Runs -> Debts]
    BY <1>60 DEF Crash, Unasked, Debts
  <2> QED
    BY <1>60, <2>1, <2>2, <2>3, <2>4, <2>5, <2>6, <2>7, <2>8, <2>9 DEF Crash
<1>61. CASE Serve
  BY <1>61 DEF Serve
<1>62. CASE UNCHANGED vars
  BY <1>62 DEF vars
<1> QED
  BY <1>1, <1>2, <1>3, <1>4, <1>5, <1>6, <1>7, <1>8, <1>9, <1>10, <1>11, <1>12,
     <1>13, <1>14, <1>15, <1>16, <1>17, <1>18, <1>19, <1>20, <1>21, <1>22, <1>23,
     <1>24, <1>25, <1>26, <1>27, <1>28, <1>29, <1>30, <1>31, <1>32, <1>33, <1>34,
     <1>35, <1>36, <1>37, <1>38, <1>39, <1>40, <1>41, <1>42, <1>43, <1>44, <1>45,
     <1>46, <1>47, <1>48, <1>49, <1>50, <1>51, <1>52, <1>53, <1>54, <1>55, <1>56,
     <1>57, <1>58, <1>59, <1>60, <1>61, <1>62 DEF Next, Admission, Claim, Loop,
     ToolStep, Timers, Commit, RunFault, CancelStep, Reconcile, Restart
-----------------------------------------------------------------------------
(* What whole groups of steps leave alone.                                 *)

(* Tools touch neither the queue, the gates, nor where the executor stands. *)
LEMMA ToolFrame ==
  ASSUME NEW r \in Runs, ToolStep(r) \/ ToolFails(r) \/ LoseEvent(r)
  PROVE  UNCHANGED <<boot, quarantine, gate, owners, requests, queue, exec, stop, call, ack>>
BY DEF ToolStep, ToolFails, LoseEvent, StartTool, DispatchWrite, SettleAction,
       FailAction, RecordAction, PersistUsage, FinishTool, AcceptFinish, RecordFinish

(* Timers only abort. *)
LEMMA TimersFrame ==
  ASSUME NEW r \in Runs, Timers(r)
  PROVE  UNCHANGED <<row, log, boot, quarantine, gate, owners, requests, queue, exec,
                     stop, call, ack, effect, debt>>
BY DEF Timers, RunTimeout, ToolTimeout

(* Cancellations touch neither the queue nor where the executor stands. *)
LEMMA CancelFrame ==
  ASSUME NEW c \in Cancels, CancelStep(c) \/ CancelFails(c)
  PROVE  UNCHANGED <<boot, quarantine, owners, queue, exec, stop, effect, tool, ack, debt>>
BY DEF CancelStep, CancelFails, CancelRoute, CancelEnter, CancelRefused, CancelAgain,
       CancelDecided, CancelPersist, CancelRow, CancelEvent

(* The reconciliation touches neither queue nor gates. *)
LEMMA ReconcileFrame ==
  ASSUME Reconcile
  PROVE  UNCHANGED <<boot, gate, owners, requests, queue, active, exec, stop, effect,
                     tool, call>>
BY DEF Reconcile, ReconcileSelect, ReconcileCheck, ReconcileUpdate, ReconcileClear,
   ReconcileRecord

(* Restarting moves no executor and no request. *)
LEMMA RestartFrame ==
  ASSUME Restart
  PROVE  UNCHANGED <<gate, owners, requests, queue, active, exec, stop, effect, tool,
                     call, ack, debt>>
BY DEF Restart, Serve, RestartRow, RestartEvent

(* The steps of a dequeued run keep it dequeued and leave the queue alone. *)
Advance(r) ==
  \/ ClaimRefused(r) \/ ClaimEndsEarly(r) \/ ClaimActive(r)
  \/ EarlyStopped(r) \/ EarlyRow(r) \/ EarlyEvent(r)
  \/ Loop(r)
  \/ Teardown(r) \/ ProposeTerminal(r) \/ CommitRun(r) \/ CommitRow(r)
  \/ CommitEvent(r) \/ CommitStatistics(r) \/ VerifyCommit(r)
  \/ QuarantineRow(r) \/ QuarantineEvent(r)
  \/ CloseFails(r) \/ ClaimFails(r) \/ LoopFails(r) \/ CommitFails(r)

(* Such a step moves only its own run, and touches neither the queue nor a *)
(* cancel request. *)
LEMMA AdvanceFrame ==
  ASSUME NEW r \in Runs, Advance(r)
  PROVE  /\ exec[r] \in Busy
         /\ \E pc \in Busy : exec' = [exec EXCEPT ![r] = pc]
         /\ UNCHANGED <<queue, call>>
<1>1. CASE ClaimRefused(r)
  BY <1>1 DEF ClaimRefused, Goto, Busy, At
<1>2. CASE ClaimEndsEarly(r)
  BY <1>2 DEF ClaimEndsEarly, Goto, Busy, At
<1>3. CASE ClaimActive(r)
  BY <1>3 DEF ClaimActive, Goto, Busy, At
<1>4. CASE EarlyStopped(r)
  BY <1>4 DEF EarlyStopped, Goto, Busy, At
<1>5. CASE EarlyRow(r)
  BY <1>5 DEF EarlyRow, Goto, Busy, At
<1>6. CASE EarlyEvent(r)
  BY <1>6 DEF EarlyEvent, Goto, Busy, At
<1>7. CASE StartRow(r)
  BY <1>7 DEF StartRow, Goto, Busy, At
<1>8. CASE StartEvent(r)
  BY <1>8 DEF StartEvent, Goto, Busy, At
<1>9. CASE LaunchBrowser(r)
  BY <1>9 DEF LaunchBrowser, Goto, Busy, At
<1>10. CASE LeaveFinished(r)
  BY <1>10 DEF LeaveFinished, Goto, Busy, At
<1>11. CASE LeaveIncomplete(r)
  BY <1>11 DEF LeaveIncomplete, Goto, Busy, At
<1>12. CASE Throw(r)
  BY <1>12 DEF Throw, Goto, Busy
<1>13. CASE RecordStopped(r)
  BY <1>13 DEF RecordStopped, Goto, Busy, At
<1>14. CASE Teardown(r)
  BY <1>14 DEF Teardown, Goto, Busy, At
<1>15. CASE ProposeTerminal(r)
  BY <1>15 DEF ProposeTerminal, Goto, Busy, At
<1>16. CASE CommitRun(r)
  BY <1>16 DEF CommitRun, Goto, Busy, At
<1>17. CASE CommitRow(r)
  BY <1>17 DEF CommitRow, Goto, Busy, At
<1>18. CASE CommitEvent(r)
  BY <1>18 DEF CommitEvent, Goto, Busy, At
<1>19. CASE CommitStatistics(r)
  BY <1>19 DEF CommitStatistics, Goto, Busy, At
<1>20. CASE VerifyCommit(r)
  BY <1>20 DEF VerifyCommit, Goto, Busy, At
<1>21. CASE QuarantineRow(r)
  BY <1>21 DEF QuarantineRow, Goto, Busy, At
<1>22. CASE QuarantineEvent(r)
  BY <1>22 DEF QuarantineEvent, Goto, Busy, At
<1>23. CASE CloseFails(r)
  BY <1>23 DEF CloseFails, Goto, Busy, At
<1>24. CASE ClaimFails(r)
  BY <1>24 DEF ClaimFails, Goto, Busy
<1>25. CASE LoopFails(r)
  BY <1>25 DEF LoopFails, Goto, Busy
<1>26. CASE CommitFails(r)
  <2>1. exec[r] \in {"quarantine-row", "quarantine-event"} => Goto(r, "finished")
    BY <1>26 DEF CommitFails
  <2>2. exec[r] \notin {"quarantine-row", "quarantine-event"} => Goto(r, "quarantine-row")
    BY <1>26 DEF CommitFails
  <2> QED
    BY <1>26, <2>1, <2>2 DEF CommitFails, Goto, Busy
<1> QED
  BY <1>1, <1>2, <1>3, <1>4, <1>5, <1>6, <1>7, <1>8, <1>9, <1>10, <1>11, <1>12,
     <1>13, <1>14, <1>15, <1>16, <1>17, <1>18, <1>19, <1>20, <1>21, <1>22, <1>23,
     <1>24, <1>25, <1>26 DEF Advance, Loop

-----------------------------------------------------------------------------
(* The head of the queue.                                                  *)

(* Nothing runs at the start. *)
LEMMA InitQueued == Init => Queued
BY DEF Init, Queued, Busy

(* Only the head of the queue is ever dequeued and not yet gone. *)
LEMMA NextQueued == Base /\ [Next]_vars => Queued'
<1> SUFFICES ASSUME Base, [Next]_vars PROVE Queued'
  OBVIOUS
<1> USE DEF Base
<1>1. ASSUME NEW r \in Runs, CreateRun(r) PROVE Queued'
  BY <1>1 DEF CreateRun, Goto, Queued, Busy, TypeOK
<1>2. ASSUME NEW r \in Runs, StartRunExecution(r) PROVE Queued'
  <2>1. queue # << >> => queue' # << >> /\ Head(queue') = Head(queue)
    BY <1>2, AppendFacts DEF StartRunExecution, TypeOK
  <2>2. \A s \in Runs : exec'[s] \in Busy => exec[s] \in Busy
    BY <1>2 DEF StartRunExecution, Goto, Busy, TypeOK
  <2> QED
    BY <2>1, <2>2 DEF Queued
<1>3. ASSUME NEW r \in Runs, ExecuteRun(r) PROVE Queued'
  BY <1>3 DEF ExecuteRun, Goto, Queued, TypeOK
<1>4. ASSUME NEW r \in Runs, Advance(r) PROVE Queued'
  BY <1>4, AdvanceFrame DEF Queued, TypeOK
<1>5. ASSUME NEW r \in Runs, Dequeue(r) PROVE Queued'
  <2>1. \A s \in Runs : exec[s] \in Busy => s = r
    BY <1>5 DEF Dequeue, At, Queued, Busy
  <2> QED
    BY <1>5, <2>1 DEF Dequeue, Goto, Queued, Busy, TypeOK
<1>6. ASSUME NEW r \in Runs, ToolStep(r) \/ ToolFails(r) \/ LoseEvent(r) \/ Timers(r) PROVE Queued'
  BY <1>6, ToolFrame, TimersFrame DEF Queued
<1>7. ASSUME NEW c \in Cancels, CancelStep(c) \/ CancelFails(c) PROVE Queued'
  BY <1>7, CancelFrame DEF Queued
<1>8. CASE Reconcile \/ Restart
  BY <1>8, ReconcileFrame, RestartFrame DEF Queued
<1>9. CASE Crash
  BY <1>9 DEF Crash, Queued, Busy
<1>10. CASE UNCHANGED vars
  BY <1>10 DEF vars, Queued
<1> QED
  BY <1>1, <1>2, <1>3, <1>4, <1>5, <1>6, <1>7, <1>8, <1>9, <1>10
     DEF Next, Admission, Claim, Commit, RunFault, Advance

-----------------------------------------------------------------------------
(* The head of the gate.                                                   *)

(* Joining the line takes nobody's place. *)
LEMMA EnterKeeps ==
  ASSUME TypeOK, NEW r \in Runs, NEW who \in Cancels \cup {"exec"}, Enter(r, who)
  PROVE  \A s \in Runs, w \in Cancels \cup {"exec"} : Inside(s, w) => Inside(s, w)'
<1>1. gate[r] # << >> => gate'[r] # << >> /\ Head(gate'[r]) = Head(gate[r])
  BY AppendFacts DEF Enter, TypeOK
<1> QED
  BY <1>1 DEF Enter, Inside, TypeOK

(* Leaving one gate is not leaving another. *)
LEMMA LeaveKeeps ==
  ASSUME TypeOK, NEW r \in Runs, Leave(r)
  PROVE  \A s \in Runs, w \in Cancels \cup {"exec"} : s # r /\ Inside(s, w) => Inside(s, w)'
BY DEF Leave, Inside, TypeOK

(* Nobody is inside a gate at the start. *)
LEMMA InitGated == Init => Gated
BY RunConstants DEF Init, Gated, ExecGated, CallGated

(* executeRun leaves: whoever else is inside is inside another gate. *)
LEMMA ExecLeaves ==
  ASSUME Base, NEW r \in Runs, Inside(r, "exec"), Leave(r), UNCHANGED call,
         NEW pc \in Busy \ ExecGated, exec' = [exec EXCEPT ![r] = pc]
  PROVE  Gated'
<1>1. ASSUME NEW s \in Runs, exec'[s] \in ExecGated PROVE Inside(s, "exec")'
  <2>1. s # r /\ exec[s] \in ExecGated
    BY <1>1 DEF Base, TypeOK
  <2> QED
    BY <2>1, LeaveKeeps DEF Base, Gated
<1>2. ASSUME NEW c \in Cancels, call'[c] \in CallGated PROVE Inside(Target[c], c)'
  <2>1. Inside(Target[c], c) /\ Target[c] \in Runs
    BY <1>2, RunConstants DEF Base, Gated
  <2>2. Target[c] # r
    BY <2>1, RunConstants DEF Inside
  <2> QED
    BY <2>1, <2>2, LeaveKeeps DEF Base
<1> QED
  BY <1>1, <1>2, RunConstants DEF Gated

(* A cancel request leaves: neither executeRun nor another is inside.      *)
LEMMA CallLeaves ==
  ASSUME Base, NEW c \in Cancels, Inside(Target[c], c), Leave(Target[c]), UNCHANGED exec,
         NEW pc \in CallPcs \ CallGated, call' = [call EXCEPT ![c] = pc]
  PROVE  Gated'
<1>1. Target[c] \in Runs
  BY RunConstants
<1>2. ASSUME NEW s \in Runs, exec'[s] \in ExecGated PROVE Inside(s, "exec")'
  <2>1. Inside(s, "exec") /\ s # Target[c]
    BY <1>2, RunConstants DEF Base, Gated, Inside
  <2> QED
    BY <1>1, <2>1, LeaveKeeps DEF Base
<1>3. ASSUME NEW d \in Cancels, call'[d] \in CallGated PROVE Inside(Target[d], d)'
  <2>1. d # c /\ call[d] \in CallGated
    BY <1>3 DEF Base, TypeOK
  <2>2. Inside(Target[d], d) /\ Target[d] # Target[c] /\ Target[d] \in Runs
    BY <2>1, RunConstants DEF Base, Gated, Inside
  <2> QED
    BY <1>1, <2>2, LeaveKeeps DEF Base
<1> QED
  BY <1>2, <1>3, RunConstants DEF Gated

(* Whoever acts behind the gate of a run is at its head. *)
LEMMA NextGated == Base /\ [Next]_vars => Gated'
<1> SUFFICES ASSUME Base, [Next]_vars PROVE Gated'
  OBVIOUS
<1> USE DEF Base
<1>1. ASSUME NEW r \in Runs, Admission(r) PROVE Gated'
  BY <1>1 DEF Admission, CreateRun, StartRunExecution, Goto, Gated, ExecGated,
     Inside, TypeOK
<1>2. ASSUME NEW r \in Runs, ExecuteRun(r) PROVE Gated'
  BY <1>2, EnterKeeps, RunConstants DEF ExecuteRun, Goto, Gated, ExecGated, TypeOK
<1>3. ASSUME NEW r \in Runs, ProposeTerminal(r) PROVE Gated'
  BY <1>3, EnterKeeps, RunConstants DEF ProposeTerminal, Goto, Gated, ExecGated, TypeOK
<1>4. ASSUME NEW r \in Runs, CloseFails(r) PROVE Gated'
  BY <1>4, EnterKeeps, RunConstants DEF CloseFails, Goto, Gated, ExecGated, TypeOK
<1>5. ASSUME NEW r \in Runs, ClaimRefused(r) PROVE Gated'
  BY <1>5, ExecLeaves DEF ClaimRefused, Goto, Busy, ExecGated
<1>6. ASSUME NEW r \in Runs, ClaimActive(r) PROVE Gated'
  BY <1>6, ExecLeaves DEF ClaimActive, Goto, Busy, ExecGated
<1>7. ASSUME NEW r \in Runs, EarlyEvent(r) PROVE Gated'
  BY <1>7, ExecLeaves DEF EarlyEvent, Goto, Busy, ExecGated, At, Gated
<1>8. ASSUME NEW r \in Runs, ClaimFails(r) PROVE Gated'
  BY <1>8, ExecLeaves DEF ClaimFails, Goto, Busy, ExecGated, Gated
<1>9. ASSUME NEW r \in Runs, QuarantineEvent(r) PROVE Gated'
  BY <1>9, ExecLeaves DEF QuarantineEvent, Goto, Busy, ExecGated, At, Gated
<1>10. ASSUME NEW r \in Runs, VerifyCommit(r) PROVE Gated'
  <2>1. Inside(r, "exec") /\ exec[r] \in ExecGated
    BY <1>10 DEF VerifyCommit, At, Gated, ExecGated
  <2>2. CASE Verified(r)
    BY <1>10, <2>1, <2>2, ExecLeaves DEF VerifyCommit, Goto, Busy, ExecGated
  <2>3. CASE ~Verified(r)
    BY <1>10, <2>1, <2>3 DEF VerifyCommit, Goto, Gated, ExecGated, Inside, TypeOK
  <2> QED
    BY <2>2, <2>3
<1>11. ASSUME NEW r \in Runs, CommitFails(r) PROVE Gated'
  <2>1. Inside(r, "exec") /\ exec[r] \in ExecGated
    BY <1>11 DEF CommitFails, Gated, ExecGated
  <2>2. CASE exec[r] \in {"quarantine-row", "quarantine-event"}
    BY <1>11, <2>1, <2>2, ExecLeaves DEF CommitFails, Goto, Busy, ExecGated
  <2>3. CASE exec[r] \notin {"quarantine-row", "quarantine-event"}
    BY <1>11, <2>1, <2>3 DEF CommitFails, Goto, Gated, ExecGated, Inside, TypeOK
  <2> QED
    BY <2>2, <2>3
<1>12. ASSUME NEW r \in Runs, ClaimEndsEarly(r) PROVE Gated'
  BY <1>12 DEF ClaimEndsEarly, Goto, Gated, ExecGated, Inside, TypeOK
<1>13. ASSUME NEW r \in Runs, CommitRun(r) PROVE Gated'
  BY <1>13 DEF CommitRun, Goto, Gated, ExecGated, Inside, TypeOK
<1>14. ASSUME NEW r \in Runs, EarlyStopped(r) PROVE Gated'
  BY <1>14 DEF EarlyStopped, At, Goto, Gated, ExecGated, Inside, TypeOK
<1>15. ASSUME NEW r \in Runs, EarlyRow(r) PROVE Gated'
  BY <1>15 DEF EarlyRow, At, Goto, Gated, ExecGated, Inside, TypeOK
<1>16. ASSUME NEW r \in Runs, CommitRow(r) PROVE Gated'
  BY <1>16 DEF CommitRow, At, Goto, Gated, ExecGated, Inside, TypeOK
<1>17. ASSUME NEW r \in Runs, CommitEvent(r) PROVE Gated'
  BY <1>17 DEF CommitEvent, At, Goto, Gated, ExecGated, Inside, TypeOK
<1>18. ASSUME NEW r \in Runs, CommitStatistics(r) PROVE Gated'
  BY <1>18 DEF CommitStatistics, At, Goto, Gated, ExecGated, Inside, TypeOK
<1>19. ASSUME NEW r \in Runs, QuarantineRow(r) PROVE Gated'
  BY <1>19 DEF QuarantineRow, At, Goto, Gated, ExecGated, Inside, TypeOK
<1>20. ASSUME NEW r \in Runs, Loop(r) \/ LoopFails(r) PROVE Gated'
  <2>1. UNCHANGED <<gate, call>>
    BY <1>20 DEF Loop, LoopFails, StartRow, StartEvent, LaunchBrowser, LeaveFinished,
           LeaveIncomplete, Throw, RecordStopped
  <2>2. \E pc \in Busy \ ExecGated : exec' = [exec EXCEPT ![r] = pc]
    <3>1. Goto(r, "announcing") \/ Goto(r, "launching") \/ Goto(r, "working")
          \/ Goto(r, "teardown") \/ Goto(r, "stopping")
      BY <1>20 DEF Loop, LoopFails, StartRow, StartEvent, LaunchBrowser, LeaveFinished,
             LeaveIncomplete, Throw, RecordStopped
    <3> QED
      BY <3>1 DEF Goto, Busy, ExecGated
  <2> QED
    BY <2>1, <2>2 DEF Gated, Inside, TypeOK
<1>21. ASSUME NEW r \in Runs, Teardown(r) \/ Dequeue(r) PROVE Gated'
  BY <1>21 DEF Teardown, Dequeue, Goto, Gated, ExecGated, Inside, TypeOK
<1>22. ASSUME NEW r \in Runs, ToolStep(r) \/ ToolFails(r) \/ LoseEvent(r) \/ Timers(r) PROVE Gated'
  BY <1>22, ToolFrame, TimersFrame DEF Gated, Inside
<1>23. ASSUME NEW c \in Cancels, CancelRoute(c) PROVE Gated'
  BY <1>23 DEF CancelRoute, Calling, Gated, CallGated, Inside, TypeOK
<1>24. ASSUME NEW c \in Cancels, CancelEnter(c) PROVE Gated'
  BY <1>24, EnterKeeps, RunConstants DEF CancelEnter, Calling, Gated, CallGated, TypeOK
<1>25. ASSUME NEW c \in Cancels, CancelRefused(c) PROVE Gated'
  BY <1>25, CallLeaves DEF CancelRefused, Calling, CallGated, CallPcs
<1>26. ASSUME NEW c \in Cancels, CancelAgain(c) PROVE Gated'
  BY <1>26, CallLeaves DEF CancelAgain, Calling, CallGated, CallPcs
<1>27. ASSUME NEW c \in Cancels, CancelEvent(c) PROVE Gated'
  BY <1>27, CallLeaves DEF CancelEvent, Calling, CallGated, CallPcs, Gated
<1>28. ASSUME NEW c \in Cancels, CancelFails(c) PROVE Gated'
  BY <1>28, CallLeaves DEF CancelFails, Calling, CallGated, CallPcs, Gated
<1>29. ASSUME NEW c \in Cancels, CancelDecided(c) PROVE Gated'
  BY <1>29 DEF CancelDecided, Calling, Gated, CallGated, Inside, TypeOK
<1>30. ASSUME NEW c \in Cancels, CancelPersist(c) PROVE Gated'
  <2>1. Inside(Target[c], c) /\ call[c] = "persisting" /\ UNCHANGED exec
    BY <1>30 DEF CancelPersist, Calling, Gated, CallGated
  <2>2. CASE Leave(Target[c]) /\ Calling(c, "persisting", "accepted")
    BY <2>1, <2>2, CallLeaves DEF Calling, CallGated, CallPcs
  <2>3. CASE UNCHANGED gate /\ Calling(c, "persisting", "row")
    BY <2>1, <2>3 DEF Calling, Gated, CallGated, Inside, TypeOK
  <2> QED
    BY <1>30, <2>2, <2>3 DEF CancelPersist
<1>31. ASSUME NEW c \in Cancels, CancelRow(c) PROVE Gated'
  BY <1>31 DEF CancelRow, Calling, Gated, CallGated, Inside, TypeOK
<1>32. CASE Reconcile \/ Restart
  BY <1>32, ReconcileFrame, RestartFrame DEF Gated, Inside
<1>33. CASE Crash
  BY <1>33 DEF Crash, Gated, ExecGated, CallGated
<1>34. CASE UNCHANGED vars
  BY <1>34 DEF vars, Gated, Inside
<1> QED
  BY <1>1, <1>2, <1>3, <1>4, <1>5, <1>6, <1>7, <1>8, <1>9, <1>10, <1>11, <1>12,
     <1>13, <1>14, <1>15, <1>16, <1>17, <1>18, <1>19, <1>20, <1>21, <1>22, <1>23,
     <1>24, <1>25, <1>26, <1>27, <1>28, <1>29, <1>30, <1>31, <1>32, <1>33, <1>34
     DEF Next, Admission, Claim, Commit, RunFault, CancelStep

-----------------------------------------------------------------------------
(* The types hold, the queue runs one inspection at a time: the layer that *)
(* both theorems rest on holds in every reachable state.                   *)
LEMMA BaseInvariant == Spec => []Base
<1>1. Init => Base
  BY InitType, InitQueued, InitGated DEF Base
<1>2. Base /\ [Next]_vars => Base'
  BY NextType, NextQueued, NextGated DEF Base
<1> QED
  BY <1>1, <1>2, PTL DEF Spec

(* Every variable has its type in every reachable state: no step pops an   *)
(* empty queue or releases a gate it does not hold.                        *)
THEOREM TypeCorrect == Spec => []TypeOK
<1>1. Base => TypeOK
  BY DEF Base
<1> QED
  BY <1>1, BaseInvariant, PTL

(* run-queue.ts chains every execution behind the previous one: no two     *)
(* runs are ever between their claim and the end of their commit.          *)
THEOREM QueueIsExclusive == Spec => []SingleExecution
<1>1. Base => SingleExecution
  <2> SUFFICES ASSUME Base, NEW r \in Executing, NEW s \in Executing PROVE r = s
    BY DEF SingleExecution
  <2>1. r \in Runs /\ s \in Runs /\ exec[r] \in Busy /\ exec[s] \in Busy
    BY DEF Executing, Base, TypeOK, ExecPcs, Busy
  <2> QED
    BY <2>1 DEF Base, Queued
<1> QED
  BY <1>1, BaseInvariant, PTL
=============================================================================
