----------------------------- MODULE CheckTasks -----------------------------
(***************************************************************************)
(* Delegated checks of one parent run: the scheduler of at most two child  *)
(* tasks (src/execution/check-tasks/scheduler.ts), the quota leases they   *)
(* share with the parent (budget.ts), and what the parent's executor does  *)
(* around them (host.ts, executor.ts): it spends from the same budget,     *)
(* asks for the children's gaps before it claims that its scope is         *)
(* covered, drains them when it ends, and verifies their history when it   *)
(* commits (report.ts, completion-integrity.ts).                           *)
(*                                                                         *)
(* One step is what happens between two awaits.  The parent's tools share  *)
(* one slot: serial() starts a tool when the one before it has settled.    *)
(***************************************************************************)
EXTENDS Integers, Sequences

CONSTANTS
  Inputs,      (* check_task_submit inputs, one per idempotency key        *)
  Quota,       (* the quota each input asks for, per kind                  *)
  Limit,       (* the parent's budget, per kind                            *)
  NoTask,      (* an empty slot                                            *)
  ProbeCost,   (* the clicks a focus probe reserves before its first       *)
  MaxFaults    (* bound: rejected appends                                  *)

Kinds == {"actions", "modelCalls", "reads"}
Slots == {1, 2}

ASSUME CheckConstants ==
  /\ Quota \in [Inputs -> [Kinds -> Nat]]
  /\ Limit \in [Kinds -> Nat]
  /\ NoTask \notin Inputs
  /\ ProbeCost \in Nat \ {0}
  /\ MaxFaults \in Nat

VARIABLES
  (* durable *)
  history,     (* check-task events of each child: [type, status, result]  *)
  (* scheduler.ts *)
  task,        (* entries: the input of each slot, or NoTask               *)
  pc,          (* where each entry's `done` stands                         *)
  status,      (* snapshot.status                                          *)
  result,      (* whether snapshot.result is set                           *)
  ending,      (* endStatus and whether `result` is set, before they are   *)
               (* published in the snapshot                                *)
  aborted,     (* each entry's controller.signal.aborted                   *)
  opened,      (* resources were returned and are to be closed             *)
  acceptance,  (* "pending", "accepted" or "rejected"                      *)
  sealed, fatal,
  (* budget.ts *)
  held,        (* reserved and neither used nor returned, per kind         *)
  used,        (* what each lease has consumed, per kind                   *)
  released,    (* each lease's released flag                               *)
  (* action-budget.ts *)
  probe,       (* outstanding: what a focus probe reserved and not clicked *)
  (* executor.ts, the parent *)
  usage,       (* usage.actions, usage.modelCalls and reads                *)
  live,        (* the parent's signal is not aborted                       *)
  tool,        (* what occupies the parent's tool slot                     *)
  parent,      (* where the parent's executor stands                       *)
  reason,      (* its stopReason                                           *)
  (* bound *)
  faults

snapshots == <<task, status, result, acceptance>>
leases == <<held, used, released, usage, probe>>
fiber == <<pc, ending, opened>>
owner == <<live, tool, parent, reason>>
vars == <<history, snapshots, leases, fiber, owner, aborted, sealed, fatal, faults>>

-----------------------------------------------------------------------------
Ended == {"completed", "unverified", "failed", "cancelled"}   (* terminal() *)
IsTerminal(i) == status[i] \in Ended
Occupied == {i \in Slots : task[i] # NoTask}

(* completed(): the snapshot is a full result of its own task. *)
Completed(i) == status[i] = "completed" /\ result[i]
(* Mutant: a finish does not ask for the children. *)
GapsIgnored == {i \in Occupied : FALSE}
Gaps == {i \in Occupied : ~Completed(i)}

(* Mutant: what is promised to the children counts as free. *)
RemainingUnheld(k) == Limit[k] - usage[k]
Remaining(k) == Limit[k] - usage[k] - held[k]
Slack(i, k) ==
  IF task[i] = NoTask \/ released[i] THEN 0 ELSE Quota[task[i]][k] - used[i][k]

Init ==
  /\ history = [i \in Slots |-> << >>]
  /\ task = [i \in Slots |-> NoTask]
  /\ pc = [i \in Slots |-> "none"]
  /\ status = [i \in Slots |-> "queued"]
  /\ result = [i \in Slots |-> FALSE]
  /\ ending = [i \in Slots |-> [status |-> "failed", result |-> FALSE]]
  /\ aborted = [i \in Slots |-> FALSE]
  /\ opened = [i \in Slots |-> FALSE]
  /\ acceptance = [i \in Slots |-> "pending"]
  /\ sealed = FALSE /\ fatal = FALSE
  /\ held = [k \in Kinds |-> 0]
  /\ used = [i \in Slots |-> [k \in Kinds |-> 0]]
  /\ released = [i \in Slots |-> FALSE]
  /\ usage = [k \in Kinds |-> 0] /\ probe = 0
  /\ live = TRUE /\ tool = "idle" /\ parent = "working"
  /\ reason = "execution-error" /\ faults = 0

-----------------------------------------------------------------------------
(* The parent's tools.                                                     *)

(* serial(): behind guard(), one tool at a time, none once finished. *)
ToolMayStart == tool = "idle" /\ live /\ parent = "working"

(* submit() owns its slot and its quota before it first awaits, and its    *)
(* tool returns when the acceptance settles.  A submission that throws, or *)
(* repeats a known key, changes nothing: by then that key's acceptance has *)
(* settled.                                                                *)
Submit(i, in) ==
  /\ ToolMayStart /\ ~sealed /\ ~fatal
  /\ task[i] = NoTask /\ \A j \in Slots : j < i => task[j] # NoTask
  /\ \A j \in Slots : task[j] # in
  /\ \A k \in Kinds : Quota[in][k] <= Remaining(k)
  /\ task' = [task EXCEPT ![i] = in]
  /\ held' = [k \in Kinds |-> held[k] + Quota[in][k]]
  /\ pc' = [pc EXCEPT ![i] = "submitting"]
  /\ tool' = "submit"
  /\ UNCHANGED <<history, status, result, acceptance, used, released, usage, probe,
                 ending, opened, live, parent, reason, aborted, sealed, fatal, faults>>

SubmitReturns ==
  /\ tool = "submit"
  /\ \A i \in Occupied : acceptance[i] # "pending"
  /\ tool' = "idle"
  /\ UNCHANGED <<history, snapshots, leases, fiber, live, parent, reason, aborted,
                 sealed, fatal, faults>>

AbortChild(i) ==
  /\ ~IsTerminal(i)
  /\ aborted' = [aborted EXCEPT ![i] = TRUE]

CancelTask(i) ==
  /\ ToolMayStart /\ i \in Occupied
  /\ AbortChild(i)
  /\ UNCHANGED <<history, snapshots, leases, fiber, owner, sealed, fatal, faults>>

(* performAction checks the remaining actions when it starts and counts    *)
(* its action after many awaits, with no further check.                    *)
StartAction ==
  /\ ToolMayStart /\ Remaining("actions") > 0
  /\ tool' = "action"
  /\ UNCHANGED <<history, snapshots, leases, fiber, live, parent, reason, aborted,
                 sealed, fatal, faults>>

CountAction ==
  /\ tool = "action"
  /\ usage' = [usage EXCEPT !["actions"] = @ + 1]
  /\ tool' = "idle"
  /\ UNCHANGED <<history, snapshots, held, used, released, probe, fiber, live, parent,
                 reason, aborted, sealed, fatal, faults>>

AbandonAction ==
  /\ tool = "action"
  /\ tool' = "idle"
  /\ UNCHANGED <<history, snapshots, leases, fiber, live, parent, reason, aborted,
                 sealed, fatal, faults>>

(* A focus probe makes several clicks in one tool: it reserves all of them *)
(* before the first, each click turns one of them into a counted action    *)
(* behind a guard, and what was not used is returned however it ends.      *)
ReserveProbe ==
  /\ ToolMayStart /\ Remaining("actions") - probe >= ProbeCost
  /\ probe' = probe + ProbeCost
  /\ tool' = "probe"
  /\ UNCHANGED <<history, snapshots, held, used, released, usage, fiber, live, parent,
                 reason, aborted, sealed, fatal, faults>>

ProbeClick ==
  /\ tool = "probe" /\ live /\ probe > 0
  /\ usage' = [usage EXCEPT !["actions"] = @ + 1]
  /\ probe' = probe - 1
  /\ UNCHANGED <<history, snapshots, held, used, released, fiber, owner, aborted,
                 sealed, fatal, faults>>

ReleaseProbe ==
  /\ tool = "probe"
  /\ probe' = 0
  /\ tool' = "idle"
  /\ UNCHANGED <<history, snapshots, held, used, released, usage, fiber, live, parent,
                 reason, aborted, sealed, fatal, faults>>

(* countModel checks and counts at once; model calls happen between tools  *)
(* and inside them.                                                        *)
CountModel ==
  /\ live /\ parent = "working"
  /\ Remaining("modelCalls") > 0
  /\ usage' = [usage EXCEPT !["modelCalls"] = @ + 1]
  /\ UNCHANGED <<history, snapshots, held, used, released, probe, fiber, owner, aborted,
                 sealed, fatal, faults>>

(* A finish reads the children's gaps, awaits the rest of its proof, and   *)
(* is accepted behind a guard; only a covered scope needs them gone.       *)
DecideFinish ==
  /\ ToolMayStart
  /\ \/ Gaps = {} /\ tool' = "finish-covered"
     \/ tool' = "finish-partial"
  /\ UNCHANGED <<history, snapshots, leases, fiber, live, parent, reason, aborted,
                 sealed, fatal, faults>>

AcceptFinish ==
  /\ tool \in {"finish-covered", "finish-partial"} /\ live
  /\ reason' = IF tool = "finish-covered" THEN "goal-reached" ELSE "blocked"
  /\ tool' = "idle"
  /\ parent' = "finished"
  /\ UNCHANGED <<history, snapshots, leases, fiber, live, aborted, sealed, fatal, faults>>

(* The refusal of the second decision, or an error of the proof. *)
FinishFails ==
  /\ tool \in {"finish-covered", "finish-partial"}
  /\ tool' = "idle"
  /\ UNCHANGED <<history, snapshots, leases, fiber, live, parent, reason, aborted,
                 sealed, fatal, faults>>

-----------------------------------------------------------------------------
(* The `done` fiber of a child.  A guard that finds it aborted, expired,   *)
(* sealed or fatal throws, and so may whatever is awaited.                 *)

At(i, from) == pc[i] = from
Goto(i, to) == pc' = [pc EXCEPT ![i] = to]
Append1(i, type) ==
  history' = [history EXCEPT ![i] =
    Append(@, [type |-> type, status |-> status'[i], result |-> result'[i]])]

(* Mutant: the catch block forgets whoever waits for the acceptance. *)
CatchSilent(i) ==
  /\ UNCHANGED acceptance
  /\ ending' = [ending EXCEPT ![i] = [status |-> IF aborted[i] THEN "cancelled" ELSE "failed",
                                     result |-> FALSE]]
  /\ Goto(i, "closing")

(* Mutant: the catch block leaves the status as it is. *)
CatchUnnamed(i) ==
  /\ acceptance' = [acceptance EXCEPT ![i] = IF @ = "pending" THEN "rejected" ELSE @]
  /\ ending' = [ending EXCEPT ![i] = [status |-> status[i], result |-> FALSE]]
  /\ Goto(i, "closing")

(* The catch block: the acceptance rejects if it is still open. *)
Catch(i) ==
  /\ acceptance' = [acceptance EXCEPT ![i] = IF @ = "pending" THEN "rejected" ELSE @]
  /\ ending' = [ending EXCEPT ![i] = [status |-> IF aborted[i] THEN "cancelled" ELSE "failed",
                                     result |-> FALSE]]
  /\ Goto(i, "closing")

EmitSubmitted(i) ==
  /\ At(i, "submitting")
  /\ UNCHANGED <<status, result>> /\ Append1(i, "submitted")
  /\ Goto(i, "admitting")
  /\ UNCHANGED <<task, acceptance, leases, ending, opened, owner, aborted, sealed,
                 fatal, faults>>

Admit(i) ==
  /\ At(i, "admitting")
  /\ live /\ ~sealed /\ ~fatal /\ ~aborted[i]
  /\ Goto(i, "accepting")
  /\ UNCHANGED <<history, snapshots, leases, ending, opened, owner, aborted, sealed,
                 fatal, faults>>

(* The event of the acceptance is durable before the guards look again. *)
EmitAccepted(i) ==
  /\ At(i, "accepting")
  /\ history' = [history EXCEPT ![i] =
       Append(@, [type |-> "accepted", status |-> status[i], result |-> result[i]])]
  /\ \/ /\ live /\ ~sealed /\ ~fatal /\ ~aborted[i]
        /\ acceptance' = [acceptance EXCEPT ![i] = "accepted"]
        /\ status' = [status EXCEPT ![i] = "running"]
        /\ Goto(i, "starting")
        /\ UNCHANGED ending
     \/ Catch(i) /\ UNCHANGED status
  /\ UNCHANGED <<task, result, leases, opened, owner, aborted, sealed, fatal, faults>>

EmitStarted(i) ==
  /\ At(i, "starting")
  /\ UNCHANGED <<status, result>> /\ Append1(i, "started")
  /\ \/ ~aborted[i] /\ Goto(i, "opening") /\ UNCHANGED <<acceptance, ending>>
     \/ Catch(i)
  /\ UNCHANGED <<task, leases, opened, owner, aborted, sealed, fatal, faults>>

(* Resources that arrive after an abort are held, and closed, all the same. *)
Open(i) ==
  /\ At(i, "opening")
  /\ opened' = [opened EXCEPT ![i] = TRUE]
  /\ \/ ~aborted[i] /\ Goto(i, "handling") /\ UNCHANGED <<acceptance, ending>>
     \/ Catch(i)
  /\ UNCHANGED <<history, task, status, result, leases, owner, aborted, sealed, fatal, faults>>

(* One report of progress per child (bound). *)
EmitProgress(i) ==
  /\ At(i, "handling") /\ ~aborted[i]
  /\ history[i][Len(history[i])].type # "progress"
  /\ UNCHANGED <<status, result>> /\ Append1(i, "progress")
  /\ UNCHANGED <<task, acceptance, leases, fiber, owner, aborted, sealed, fatal, faults>>

(* The handler consumes from its lease; nothing awaits between the check   *)
(* and the charge.  It may do so after an abort it has not met yet.        *)
Consume(i, k) ==
  /\ At(i, "handling")
  /\ ~released[i] /\ used[i][k] < Quota[task[i]][k]
  /\ usage' = [usage EXCEPT ![k] = @ + 1]
  /\ used' = [used EXCEPT ![i][k] = @ + 1]
  /\ held' = [held EXCEPT ![k] = @ - 1]
  /\ UNCHANGED <<history, snapshots, released, probe, fiber, owner, aborted, sealed, fatal,
                 faults>>

(* The handler returns a result of either kind. *)
Handle(i) ==
  /\ At(i, "handling")
  /\ \/ /\ ~aborted[i]
        /\ \E verdict \in {"completed", "unverified"} :
             ending' = [ending EXCEPT ![i] = [status |-> verdict, result |-> TRUE]]
        /\ Goto(i, "validating")
        /\ UNCHANGED acceptance
     \/ Catch(i)
  /\ UNCHANGED <<history, task, status, result, leases, opened, owner, aborted, sealed,
                 fatal, faults>>

Validate(i) ==
  /\ At(i, "validating")
  /\ \/ ~aborted[i] /\ Goto(i, "closing") /\ UNCHANGED <<acceptance, ending>>
     \/ Catch(i)
  /\ UNCHANGED <<history, task, status, result, leases, opened, owner, aborted, sealed,
                 fatal, faults>>

(* An awaited step of the fiber rejects: admission, a launch, the handler, *)
(* a validation, or a guard that finds the deadline passed.                *)
FiberThrows(i) ==
  /\ pc[i] \in {"admitting", "opening"}
  /\ Catch(i)
  /\ UNCHANGED <<history, task, status, result, leases, opened, owner, aborted, sealed,
                 fatal, faults>>

(* Mutant: an abort during the closing is not looked at. *)
CloseUnchecked(i) ==
  /\ At(i, "closing")
  /\ status' = [status EXCEPT ![i] = ending[i].status]
  /\ result' = [result EXCEPT ![i] = ending[i].result]
  /\ opened' = [opened EXCEPT ![i] = FALSE]
  /\ held' = [k \in Kinds |-> held[k] - Slack(i, k)]
  /\ released' = [released EXCEPT ![i] = TRUE]
  /\ Goto(i, "concluding")
  /\ UNCHANGED <<history, task, acceptance, ending, used, usage, probe, owner, aborted,
                 sealed, fatal, faults>>

(* Mutant: a child that never had resources is not cleaned up. *)
CloseOpened(i) ==
  /\ opened[i]
  /\ CloseUnchecked(i)

(* finally: when the resources are closed, whatever the abort says by then *)
(* decides; the lease is returned and the snapshot published.              *)
Close(i) ==
  LET closeFails == [status |-> "failed", result |-> FALSE]
      decide(end) == IF aborted[i] THEN [status |-> "cancelled", result |-> FALSE] ELSE end
      publish(end) ==
        /\ status' = [status EXCEPT ![i] = end.status]
        /\ result' = [result EXCEPT ![i] = end.result]
        /\ ending' = [ending EXCEPT ![i] = end]
  IN
  /\ At(i, "closing")
  /\ publish(decide(ending[i])) \/ (opened[i] /\ publish(decide(closeFails)))
  /\ opened' = [opened EXCEPT ![i] = FALSE]
  /\ held' = [k \in Kinds |-> held[k] - Slack(i, k)]
  /\ released' = [released EXCEPT ![i] = TRUE]
  /\ Goto(i, "concluding")
  /\ UNCHANGED <<history, task, acceptance, used, usage, probe, owner, aborted,
                 sealed, fatal, faults>>

EmitTerminal(i) ==
  /\ At(i, "concluding")
  /\ UNCHANGED <<status, result>> /\ Append1(i, "terminal")
  /\ Goto(i, "done")
  /\ UNCHANGED <<task, acceptance, leases, ending, opened, owner, aborted, sealed,
                 fatal, faults>>

(* An append rejects: the scheduler is fatal, and the fiber catches. *)
EmitFails(i) ==
  /\ faults < MaxFaults /\ faults' = faults + 1
  /\ pc[i] \in {"submitting", "accepting", "starting", "handling", "concluding"}
  /\ fatal' = TRUE
  /\ IF pc[i] = "concluding"
     THEN Goto(i, "done") /\ UNCHANGED <<acceptance, ending>>
     ELSE Catch(i)
  /\ UNCHANGED <<history, task, status, result, leases, opened, owner, aborted, sealed>>

(* The child's own deadline timer, set until its resources are closed. *)
ChildDeadline(i) ==
  /\ i \in Occupied /\ ~aborted[i]
  /\ AbortChild(i)
  /\ UNCHANGED <<history, snapshots, leases, fiber, owner, sealed, fatal, faults>>

-----------------------------------------------------------------------------
(* The parent ends.                                                        *)

AbortChildren ==
  aborted' = [i \in Slots |-> aborted[i] \/ (i \in Occupied /\ ~IsTerminal(i))]

(* A cancellation or the parent's deadline reaches every child at once. *)
ParentAborts ==
  /\ live /\ parent \in {"working", "finished"}
  /\ live' = FALSE
  /\ AbortChildren
  /\ UNCHANGED <<history, snapshots, leases, fiber, tool, parent, reason, sealed, fatal, faults>>

(* finally: abort("run-ended"), then close() seals and aborts, and waits.  *)
(* A tool of the parent may still be running.                              *)
Teardown ==
  /\ parent = "finished" \/ (parent = "working" /\ (~live \/ tool = "idle"))
  /\ live' = FALSE /\ sealed' = TRUE
  /\ AbortChildren
  /\ parent' = "draining"
  /\ UNCHANGED <<history, snapshots, leases, fiber, tool, reason, fatal, faults>>

(* Mutant: a lost event of a child is not remembered. *)
DrainedForgiving ==
  /\ parent = "draining"
  /\ \A i \in Occupied : pc[i] = "done"
  /\ parent' = "commit"
  /\ UNCHANGED <<history, snapshots, leases, fiber, live, tool, reason, aborted, sealed,
                 fatal, faults>>

(* Mutant: the parent waits for the snapshots, not for the fibers. *)
DrainedEarly ==
  /\ parent = "draining"
  /\ \A i \in Occupied : IsTerminal(i)
  /\ reason' = IF fatal THEN "reconciliation-required" ELSE reason
  /\ parent' = "commit"
  /\ UNCHANGED <<history, snapshots, leases, fiber, live, tool, aborted, sealed, fatal, faults>>

Drained ==
  /\ parent = "draining"
  /\ \A i \in Occupied : pc[i] = "done"
  /\ reason' = IF fatal THEN "reconciliation-required" ELSE reason
  /\ parent' = "commit"
  /\ UNCHANGED <<history, snapshots, leases, fiber, live, tool, aborted, sealed, fatal, faults>>

(* checkTaskReport: the projection of the durable events. *)
Begins == {"submitted", "accepted"}
InvalidHistory(i) ==
  \/ history[i] # << >> /\ history[i][1].type \notin Begins
  \/ \E n \in 1..Len(history[i]) - 1 : history[i][n].status \in Ended
Recorded(i) ==
  /\ history[i] # << >>
  /\ LET last == history[i][Len(history[i])] IN last.status = "completed" /\ last.result
Unfinished(i) == history[i] # << >> /\ ~Recorded(i)

(* The children's part of verifyCompletionCommit. *)
Verified ==
  /\ \A i \in Slots : ~InvalidHistory(i)
  /\ reason = "goal-reached" => \A i \in Slots : ~Unfinished(i)

Commit ==
  /\ parent = "commit"
  /\ parent' = IF Verified /\ reason # "reconciliation-required"
               THEN "verified" ELSE "quarantined"
  /\ UNCHANGED <<history, snapshots, leases, fiber, live, tool, reason, aborted, sealed,
                 fatal, faults>>

-----------------------------------------------------------------------------
Fiber(i) ==
  \/ EmitSubmitted(i) \/ Admit(i) \/ EmitAccepted(i) \/ EmitStarted(i) \/ Open(i)
  \/ Handle(i) \/ Validate(i) \/ FiberThrows(i) \/ Close(i) \/ EmitTerminal(i)

Tool ==
  \/ \E i \in Slots, in \in Inputs : Submit(i, in)
  \/ SubmitReturns \/ (\E i \in Slots : CancelTask(i))
  \/ StartAction \/ CountAction \/ AbandonAction \/ CountModel
  \/ ReserveProbe \/ ProbeClick \/ ReleaseProbe
  \/ DecideFinish \/ AcceptFinish \/ FinishFails

Child(i) ==
  \/ Fiber(i) \/ EmitProgress(i) \/ (\E k \in Kinds : Consume(i, k))
  \/ EmitFails(i) \/ ChildDeadline(i)

Parent == ParentAborts \/ Teardown \/ Drained \/ Commit

Next == Tool \/ (\E i \in Slots : Child(i)) \/ Parent

Spec == Init /\ [][Next]_vars

(* Appends and closings return, admission and opening return or reject, a  *)
(* handler returns once it is aborted, and the deadline timer fires: a     *)
(* handler that would never end by itself is allowed.                      *)
FiberReturns(i) ==
  \/ EmitSubmitted(i) \/ Admit(i) \/ EmitAccepted(i) \/ EmitStarted(i) \/ Open(i)
  \/ Validate(i) \/ FiberThrows(i) \/ Close(i) \/ EmitTerminal(i)
  \/ (aborted[i] /\ Handle(i))

Fairness ==
  /\ \A i \in Slots : WF_vars(FiberReturns(i)) /\ WF_vars(ChildDeadline(i))
  /\ WF_vars(SubmitReturns) /\ WF_vars(Drained \/ Commit)

FairSpec == Spec /\ Fairness

-----------------------------------------------------------------------------
(* Properties.                                                             *)

Pcs == {"none", "submitting", "admitting", "accepting", "starting", "opening",
        "handling", "validating", "closing", "concluding", "done"}
Event == [type : {"submitted", "accepted", "started", "progress", "terminal"},
          status : Ended \cup {"queued", "running"}, result : BOOLEAN]

(* Every variable has its type. *)
TypeOK ==
  /\ history \in [Slots -> Seq(Event)]
  /\ task \in [Slots -> Inputs \cup {NoTask}]
  /\ pc \in [Slots -> Pcs]
  /\ status \in [Slots -> Ended \cup {"queued", "running"}]
  /\ result \in [Slots -> BOOLEAN]
  /\ ending \in [Slots -> [status : Ended, result : BOOLEAN]]
  /\ aborted \in [Slots -> BOOLEAN] /\ opened \in [Slots -> BOOLEAN]
  /\ acceptance \in [Slots -> {"pending", "accepted", "rejected"}]
  /\ sealed \in BOOLEAN /\ fatal \in BOOLEAN
  /\ held \in [Kinds -> Int]
  /\ used \in [Slots -> [Kinds -> Nat]]
  /\ released \in [Slots -> BOOLEAN]
  /\ usage \in [Kinds -> Nat]
  /\ live \in BOOLEAN
  /\ probe \in Nat
  /\ tool \in {"idle", "submit", "action", "probe", "finish-covered", "finish-partial"}
  /\ parent \in {"working", "finished", "draining", "commit", "verified", "quarantined"}
  /\ reason \in {"execution-error", "goal-reached", "blocked", "reconciliation-required"}
  /\ faults \in Nat

(* Each lease returns exactly what it has not used, once, and what is      *)
(* spent and promised fits the budget.                                     *)
LeasesHonoured ==
  \A k \in Kinds :
    /\ held[k] = Slack(1, k) + Slack(2, k)
    /\ held[k] >= 0
    /\ usage[k] + held[k] <= Limit[k]

(* What the parent and its children have spent, and what is still promised *)
(* to the children and to a probe between its clicks, never exceeds the    *)
(* parent's budget: an action checked before its awaits still finds its    *)
(* unit when it is counted, and a probe never runs out half-way.           *)
BudgetHonoured == LeasesHonoured /\ probe <= Remaining("actions")

(* A child whose signal was aborted before its snapshot was published never *)
(* passes: neither a handler that had its result nor a closing that took   *)
(* its time makes a late result count.                                     *)
AbortedNeverPasses ==
  \A i \in Occupied : aborted[i] /\ IsTerminal(i) => status[i] = "cancelled" /\ ~result[i]

(* Without storage faults no timing of cancellations, deadlines and the    *)
(* parent's end makes the parent's commit reject the children's history    *)
(* and quarantine the process.                                             *)
CleanRunsVerify == parent = "quarantined" => faults > 0

(* A commit that verifies has lost no event of any child, though the        *)
(* parent's tools swallow the error; and a covered scope has a terminal    *)
(* event with a full result of every child it delegated.                   *)
LostEventsQuarantine ==
  parent = "verified" =>
    /\ faults = 0
    /\ reason = "goal-reached" => \A i \in Occupied : Recorded(i)

(* What the commit verifies stands still: when the children are drained,   *)
(* none of them appends an event, holds quota or spends any more.          *)
SettledAtCommit ==
  [][(parent \in {"commit", "verified", "quarantined"}) =>
       (\A k \in Kinds : held[k] = 0) /\ history' = history /\ used' = used]_vars

(* The parent's teardown always drains its children, also one whose        *)
(* handler never ends by itself.                                           *)
ParentCloses == (parent = "draining") ~> (parent \in {"verified", "quarantined"})

(* A submission is always answered, so it never holds the tool slot.       *)
SubmitAnswered == (tool = "submit") ~> (tool # "submit")
=============================================================================
