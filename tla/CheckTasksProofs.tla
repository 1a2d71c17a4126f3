-------------------------- MODULE CheckTasksProofs --------------------------
(***************************************************************************)
(* Proofs about CheckTasks for any inputs, quotas and limits: every        *)
(* variable keeps its type, the parent's budget is honoured, and, over its *)
(* commit: a late result never passes, nothing moves once the commit       *)
(* began, a lost event is always found, and a clean history is always      *)
(* accepted.                                                               *)
(***************************************************************************)
EXTENDS CheckTasks, TLAPS

(* An empty slot has no fiber and an untouched lease. *)
Vacant ==
  \A i \in Slots :
    /\ task[i] = NoTask <=> pc[i] = "none"
    /\ task[i] = NoTask => ~released[i] /\ \A k \in Kinds : used[i][k] = 0

(* A lease consumes at most its quota. *)
Within == \A i \in Slots, k \in Kinds : task[i] # NoTask => used[i][k] <= Quota[task[i]][k]

(* The unit an action was promised when it was checked is still free, and  *)
(* so are the clicks of a probe; only a running probe has any.             *)
Pledged ==
  /\ tool = "action" => Remaining("actions") > 0
  /\ probe <= Remaining("actions")
  /\ tool # "probe" => probe = 0

Ledger == Vacant /\ Within /\ Pledged /\ LeasesHonoured
Inv == TypeOK /\ Ledger

-----------------------------------------------------------------------------
(* The initial values have their types: nothing is submitted yet. *)
LEMMA InitType == Init => TypeOK
<1> SUFFICES ASSUME Init PROVE TypeOK
  OBVIOUS
<1>1. history \in [Slots -> Seq(Event)]
  BY DEF Init
<1>2. ending \in [Slots -> [status : Ended, result : BOOLEAN]]
  BY DEF Init, Ended
<1>3. /\ status \in [Slots -> Ended \cup {"queued", "running"}]
      /\ task \in [Slots -> Inputs \cup {NoTask}]
      /\ pc \in [Slots -> Pcs]
  BY DEF Init, Pcs
<1>4. /\ result \in [Slots -> BOOLEAN] /\ aborted \in [Slots -> BOOLEAN]
      /\ opened \in [Slots -> BOOLEAN] /\ released \in [Slots -> BOOLEAN]
      /\ acceptance \in [Slots -> {"pending", "accepted", "rejected"}]
  BY DEF Init
<1>5. /\ held \in [Kinds -> Int] /\ usage \in [Kinds -> Nat]
      /\ used \in [Slots -> [Kinds -> Nat]] /\ probe \in Nat
  BY DEF Init
<1>6. /\ sealed \in BOOLEAN /\ fatal \in BOOLEAN /\ live \in BOOLEAN /\ faults \in Nat
      /\ tool = "idle" /\ parent = "working" /\ reason = "execution-error"
  BY DEF Init
<1> QED
  BY <1>1, <1>2, <1>3, <1>4, <1>5, <1>6 DEF TypeOK

(* Appending an event of a well-typed snapshot keeps the histories typed. *)
LEMMA HistoryTyped ==
  ASSUME history \in [Slots -> Seq(Event)], NEW i \in Slots, NEW e \in Event,
         history' = [history EXCEPT ![i] = Append(@, e)]
  PROVE  history' \in [Slots -> Seq(Event)]
<1>1. history[i] \in Seq(Event)
  OBVIOUS
<1>2. Append(history[i], e) \in Seq(Event)
  BY <1>1
<1> QED
  BY <1>2

(* The catch block keeps the types of what it assigns. *)
LEMMA CatchTyped ==
  ASSUME TypeOK, NEW i \in Slots, Catch(i)
  PROVE  /\ acceptance' \in [Slots -> {"pending", "accepted", "rejected"}]
         /\ ending' \in [Slots -> [status : Ended, result : BOOLEAN]]
         /\ pc' \in [Slots -> Pcs]
BY DEF TypeOK, Catch, Goto, Pcs, Ended

(* Every step of a tool of the parent keeps the types. *)
LEMMA ToolType == TypeOK /\ Tool => TypeOK'
<1> SUFFICES ASSUME TypeOK, Tool PROVE TypeOK'
  OBVIOUS
<1> USE DEF TypeOK, snapshots, leases, fiber, owner
<1>1. CASE \E i \in Slots, in \in Inputs : Submit(i, in)
  <2> PICK i \in Slots, in \in Inputs : Submit(i, in)
    BY <1>1
  <2>1. held' \in [Kinds -> Int]
    BY CheckConstants DEF Submit
  <2>2. task' \in [Slots -> Inputs \cup {NoTask}] /\ pc' \in [Slots -> Pcs]
    BY DEF Submit, Pcs
  <2> QED
    BY <2>1, <2>2 DEF Submit
<1>2. CASE SubmitReturns
  BY <1>2 DEF SubmitReturns
<1>3. CASE \E i \in Slots : CancelTask(i)
  BY <1>3 DEF CancelTask, AbortChild
<1>4. CASE StartAction
  BY <1>4 DEF StartAction
<1>5. CASE CountAction
  BY <1>5 DEF CountAction, Kinds
<1>6. CASE AbandonAction
  BY <1>6 DEF AbandonAction
<1>7. CASE CountModel
  BY <1>7 DEF CountModel, Kinds
<1>8. CASE DecideFinish
  BY <1>8 DEF DecideFinish
<1>11. CASE ReserveProbe
  BY <1>11, CheckConstants DEF ReserveProbe
<1>12. CASE ProbeClick
  BY <1>12 DEF ProbeClick, Kinds
<1>13. CASE ReleaseProbe
  BY <1>13 DEF ReleaseProbe
<1>9. CASE AcceptFinish
  BY <1>9 DEF AcceptFinish
<1>10. CASE FinishFails
  BY <1>10 DEF FinishFails
<1> QED
  BY <1>1, <1>2, <1>3, <1>4, <1>5, <1>6, <1>7, <1>8, <1>9, <1>10, <1>11, <1>12, <1>13
  DEF Tool

(* Every step of a child's fiber keeps the types. *)
LEMMA FiberType == ASSUME NEW i \in Slots PROVE TypeOK /\ Fiber(i) => TypeOK'
<1> SUFFICES ASSUME TypeOK, Fiber(i) PROVE TypeOK'
  OBVIOUS
<1> DEFINE event(type) == [type |-> type, status |-> status[i], result |-> result[i]]
<1>0. \A type \in {"submitted", "accepted", "started", "progress", "terminal"} :
        event(type) \in Event
  BY DEF TypeOK, Event
<1>1. CASE EmitSubmitted(i)
  <2>1. history' \in [Slots -> Seq(Event)]
    BY <1>0, <1>1, HistoryTyped DEF EmitSubmitted, Append1, TypeOK
  <2> QED
    BY <1>1, <2>1 DEF EmitSubmitted, Goto, TypeOK, Pcs, leases, owner
<1>2. CASE Admit(i)
  BY <1>2 DEF Admit, Goto, TypeOK, Pcs, snapshots, leases, owner
<1>3. CASE EmitAccepted(i)
  <2>1. history' \in [Slots -> Seq(Event)]
    BY <1>0, <1>3, HistoryTyped DEF EmitAccepted, TypeOK
  <2>2. CASE Catch(i) /\ UNCHANGED status
    BY <1>3, <2>1, <2>2, CatchTyped DEF EmitAccepted, TypeOK, leases, owner
  <2>3. CASE ~Catch(i)
    BY <1>3, <2>1, <2>3 DEF EmitAccepted, Goto, TypeOK, Pcs, leases, owner
  <2> QED
    BY <1>3, <2>2, <2>3 DEF EmitAccepted, Goto, Pcs, TypeOK, Catch
<1>4. CASE EmitStarted(i)
  <2>1. history' \in [Slots -> Seq(Event)]
    BY <1>0, <1>4, HistoryTyped DEF EmitStarted, Append1, TypeOK
  <2>2. CASE Catch(i)
    BY <1>4, <2>1, <2>2, CatchTyped DEF EmitStarted, TypeOK, leases, owner
  <2>3. CASE ~Catch(i)
    BY <1>4, <2>1, <2>3 DEF EmitStarted, Goto, TypeOK, Pcs, leases, owner
  <2> QED
    BY <2>2, <2>3
<1>5. CASE Open(i)
  <2>1. CASE Catch(i)
    BY <1>5, <2>1, CatchTyped DEF Open, TypeOK, leases, owner
  <2>2. CASE ~Catch(i)
    BY <1>5, <2>2 DEF Open, Goto, TypeOK, Pcs, leases, owner
  <2> QED
    BY <2>1, <2>2
<1>6. CASE Handle(i)
  <2>1. CASE Catch(i)
    BY <1>6, <2>1, CatchTyped DEF Handle, TypeOK, leases, owner
  <2>2. CASE ~Catch(i)
    <3> PICK verdict \in {"completed", "unverified"} :
          ending' = [ending EXCEPT ![i] = [status |-> verdict, result |-> TRUE]]
      BY <1>6, <2>2 DEF Handle
    <3>1. [status |-> verdict, result |-> TRUE] \in [status : Ended, result : BOOLEAN]
      BY DEF Ended
    <3>2. ending' \in [Slots -> [status : Ended, result : BOOLEAN]]
      BY <3>1 DEF TypeOK
    <3> QED
      BY <1>6, <2>2, <3>2 DEF Handle, Goto, TypeOK, Pcs, leases, owner
  <2> QED
    BY <2>1, <2>2
<1>7. CASE Validate(i)
  <2>1. CASE Catch(i)
    BY <1>7, <2>1, CatchTyped DEF Validate, TypeOK, leases, owner
  <2>2. CASE ~Catch(i)
    BY <1>7, <2>2 DEF Validate, Goto, TypeOK, Pcs, leases, owner
  <2> QED
    BY <2>1, <2>2
<1>8. CASE FiberThrows(i)
  BY <1>8, CatchTyped DEF FiberThrows, TypeOK, leases, owner
<1>9. CASE Close(i)
  <2>1. held' \in [Kinds -> Int]
    <3>1. \A k \in Kinds : Slack(i, k) \in Int
      BY CheckConstants DEF Slack, TypeOK
    <3> QED
      BY <1>9, <3>1 DEF Close, TypeOK
  <2>2. /\ status' \in [Slots -> Ended \cup {"queued", "running"}]
        /\ result' \in [Slots -> BOOLEAN]
        /\ ending' \in [Slots -> [status : Ended, result : BOOLEAN]]
    <3>1. PICK end \in [status : Ended, result : BOOLEAN] :
            /\ status' = [status EXCEPT ![i] = end.status]
            /\ result' = [result EXCEPT ![i] = end.result]
            /\ ending' = [ending EXCEPT ![i] = end]
      <4> DEFINE ends == [status : Ended, result : BOOLEAN]
      <4>1. /\ ending[i] \in ends
            /\ [status |-> "cancelled", result |-> FALSE] \in ends
            /\ [status |-> "failed", result |-> FALSE] \in ends
        BY DEF TypeOK, Ended
      <4> QED
        BY <1>9, <4>1, Zenon DEF Close
    <3>2. end.status \in Ended \cup {"queued", "running"} /\ end.result \in BOOLEAN
      BY <3>1
    <3> QED
      BY <3>1, <3>2 DEF TypeOK
  <2> QED
    BY <1>9, <2>1, <2>2 DEF Close, Goto, TypeOK, Pcs, owner
<1>10. CASE EmitTerminal(i)
  <2>1. history' \in [Slots -> Seq(Event)]
    BY <1>0, <1>10, HistoryTyped DEF EmitTerminal, Append1, TypeOK
  <2> QED
    BY <1>10, <2>1 DEF EmitTerminal, Goto, TypeOK, Pcs, leases, owner
<1> QED
  BY <1>1, <1>2, <1>3, <1>4, <1>5, <1>6, <1>7, <1>8, <1>9, <1>10 DEF Fiber

(* So do progress, consumption, rejected appends and the deadline timer. *)
LEMMA ChildType == ASSUME NEW i \in Slots PROVE TypeOK /\ Child(i) => TypeOK'
<1> SUFFICES ASSUME TypeOK, Child(i) PROVE TypeOK'
  OBVIOUS
<1>1. CASE Fiber(i)
  BY <1>1, FiberType
<1>2. CASE EmitProgress(i)
  <2>1. [type |-> "progress", status |-> status[i], result |-> result[i]] \in Event
    BY DEF TypeOK, Event
  <2>2. history' \in [Slots -> Seq(Event)]
    BY <1>2, <2>1, HistoryTyped DEF EmitProgress, Append1, TypeOK
  <2> QED
    BY <1>2, <2>2 DEF EmitProgress, TypeOK, leases, fiber, owner
<1>3. CASE \E k \in Kinds : Consume(i, k)
  BY <1>3 DEF Consume, TypeOK, snapshots, fiber, owner
<1>4. CASE EmitFails(i)
  <2>1. CASE pc[i] # "concluding"
    BY <1>4, <2>1, CatchTyped DEF EmitFails, TypeOK, leases, owner
  <2>2. CASE pc[i] = "concluding"
    <3>1. /\ pc' = [pc EXCEPT ![i] = "done"]
          /\ UNCHANGED <<acceptance, ending>>
      BY <1>4, <2>2, Zenon DEF EmitFails, Goto
    <3>2. pc' \in [Slots -> Pcs]
      BY <3>1 DEF TypeOK, Pcs
    <3>3. /\ faults' = faults + 1 /\ fatal' = TRUE
          /\ UNCHANGED <<history, task, status, result, leases, opened, owner, aborted,
                         sealed>>
      BY <1>4 DEF EmitFails
    <3> QED
      BY <3>1, <3>2, <3>3 DEF TypeOK, leases, owner
  <2> QED
    BY <2>1, <2>2
<1>5. CASE ChildDeadline(i)
  BY <1>5 DEF ChildDeadline, AbortChild, TypeOK, snapshots, leases, fiber, owner
<1> QED
  BY <1>1, <1>2, <1>3, <1>4, <1>5 DEF Child

(* And so does the end of the parent. *)
LEMMA ParentType == TypeOK /\ Parent => TypeOK'
<1> SUFFICES ASSUME TypeOK, Parent PROVE TypeOK'
  OBVIOUS
<1>1. CASE ParentAborts
  BY <1>1 DEF ParentAborts, AbortChildren, TypeOK, snapshots, leases, fiber
<1>2. CASE Teardown
  BY <1>2 DEF Teardown, AbortChildren, TypeOK, snapshots, leases, fiber
<1>3. CASE Drained
  BY <1>3 DEF Drained, TypeOK, snapshots, leases, fiber
<1>4. CASE Commit
  BY <1>4 DEF Commit, TypeOK, snapshots, leases, fiber
<1> QED
  BY <1>1, <1>2, <1>3, <1>4 DEF Parent

(* Every step keeps the types. *)
LEMMA NextType == TypeOK /\ [Next]_vars => TypeOK'
<1>1. TypeOK /\ UNCHANGED vars => TypeOK'
  BY DEF TypeOK, vars, snapshots, leases, fiber, owner
<1> QED
  BY <1>1, ToolType, ChildType, ParentType DEF Next

(* THEOREM.  Every variable of the scheduler, of the leases and of the     *)
(* parent has its type in every reachable state.                           *)
THEOREM TypeCorrect == Spec => []TypeOK
<1> QED
  BY InitType, NextType, PTL DEF Spec

-----------------------------------------------------------------------------
(* At the start nothing is promised or spent. *)
LEMMA InitLedger == Init => Ledger
<1> SUFFICES ASSUME Init PROVE Ledger
  OBVIOUS
<1>1. Vacant /\ Within
  BY DEF Init, Vacant, Within
<1>3. Pledged
  BY CheckConstants DEF Init, Pledged, Remaining, Kinds
<1>2. LeasesHonoured
  BY CheckConstants DEF Init, LeasesHonoured, Slack, Slots
<1> QED
  BY <1>1, <1>2, <1>3 DEF Ledger

(* A lease never owes a negative amount. *)
LEMMA SlackNatural ==
  ASSUME TypeOK, Within, NEW i \in Slots, NEW k \in Kinds
  PROVE  Slack(i, k) \in Nat
BY CheckConstants DEF TypeOK, Within, Slack

(* A step that leaves the leases alone, fills or empties no slot and       *)
(* starts no action and ends no probe.                                     *)
Quiet ==
  /\ UNCHANGED <<task, leases>>
  /\ \A i \in Slots : pc'[i] = "none" <=> pc[i] = "none"
  /\ tool' = "action" => tool = "action"
  /\ tool = "probe" => tool' = "probe"

(* Such a step keeps the ledger. *)
LEMMA QuietLedger == Ledger /\ Quiet => Ledger'
<1> SUFFICES ASSUME Ledger, Quiet PROVE Ledger'
  OBVIOUS
<1>1. Vacant'
  BY DEF Ledger, Quiet, Vacant, leases
<1>2. Within' /\ Pledged' /\ LeasesHonoured'
  BY DEF Ledger, Quiet, Within, Pledged, LeasesHonoured, Slack, Remaining, leases
<1> QED
  BY <1>1, <1>2 DEF Ledger

(* A fiber that moves on neither fills nor empties its slot. *)
LEMMA Moves ==
  ASSUME TypeOK, NEW i \in Slots, NEW to \in Pcs \ {"none"},
         pc[i] # "none", pc' = [pc EXCEPT ![i] = to]
  PROVE  \A j \in Slots : pc'[j] = "none" <=> pc[j] = "none"
BY DEF TypeOK

(* submit() takes its quota out of what remains, for an untouched lease. *)
LEMMA SubmitLedger ==
  ASSUME Inv, NEW i \in Slots, NEW in \in Inputs, Submit(i, in)
  PROVE  Ledger'
<1> USE DEF Inv, Ledger
<1>1. /\ task[i] = NoTask
      /\ task' = [task EXCEPT ![i] = in]
      /\ held' = [k \in Kinds |-> held[k] + Quota[in][k]]
      /\ pc' = [pc EXCEPT ![i] = "submitting"]
      /\ tool' = "submit"
      /\ UNCHANGED <<used, released, usage, probe>>
      /\ \A k \in Kinds : Quota[in][k] <= Remaining(k)
      /\ tool = "idle"
  BY DEF Submit, ToolMayStart
<1>2. in # NoTask /\ \A k \in Kinds : Quota[in][k] \in Nat
  BY CheckConstants
<1>3. ~released[i] /\ \A k \in Kinds : used[i][k] = 0
  BY <1>1 DEF Vacant
<1>4. Vacant'
  BY <1>1, <1>2 DEF Vacant, TypeOK
<1>5. Within'
  BY <1>1, <1>2, <1>3 DEF Within, TypeOK
<1>6. \A k \in Kinds : Slack(i, k) = 0 /\ Slack(i, k)' = Quota[in][k]
  BY <1>1, <1>2, <1>3 DEF Slack, TypeOK
<1>7. \A j \in Slots \ {i}, k \in Kinds : Slack(j, k)' = Slack(j, k)
  BY <1>1 DEF Slack, TypeOK
<1>8. LeasesHonoured'
  <2> SUFFICES ASSUME NEW k \in Kinds
               PROVE  /\ held'[k] = Slack(1, k)' + Slack(2, k)'
                      /\ held'[k] >= 0
                      /\ usage'[k] + held'[k] <= Limit[k]
    BY DEF LeasesHonoured
  <2>1. /\ held[k] \in Int /\ usage[k] \in Nat /\ Limit[k] \in Nat
        /\ Slack(1, k) \in Nat /\ Slack(2, k) \in Nat
    BY CheckConstants, SlackNatural DEF TypeOK, Slots
  <2>2. held[k] = Slack(1, k) + Slack(2, k) /\ held[k] >= 0
    BY DEF LeasesHonoured
  <2>3. held'[k] = held[k] + Quota[in][k] /\ usage'[k] = usage[k]
    BY <1>1
  <2>4. Quota[in][k] <= Limit[k] - usage[k] - held[k]
    BY <1>1 DEF Remaining
  <2>5. held'[k] = Slack(1, k)' + Slack(2, k)'
    BY <1>2, <1>6, <1>7, <2>1, <2>2, <2>3 DEF Slots
  <2> QED
    BY <1>2, <2>1, <2>2, <2>3, <2>4, <2>5
<1>9. Pledged'
  <2>1. probe' = 0
    BY <1>1 DEF Pledged
  <2>2. /\ held["actions"] \in Int /\ usage["actions"] \in Nat
        /\ Limit["actions"] \in Nat /\ Quota[in]["actions"] \in Nat
        /\ held'["actions"] = held["actions"] + Quota[in]["actions"]
        /\ Quota[in]["actions"] <= Remaining("actions")
    BY <1>1, CheckConstants DEF TypeOK, Kinds
  <2>3. 0 <= Remaining("actions")'
    BY <1>1, <2>2 DEF Remaining
  <2> QED
    BY <1>1, <2>1, <2>3 DEF Pledged
<1> QED
  BY <1>4, <1>5, <1>8, <1>9

(* The parent's own spending takes a unit nobody else holds. *)
LEMMA SpendLedger ==
  ASSUME Inv, NEW k \in Kinds, Remaining(k) > 0,
         usage' = [usage EXCEPT ![k] = @ + 1],
         UNCHANGED <<task, pc, held, used, released, probe>>,
         tool' = "action" => tool = "action" /\ k # "actions",
         k = "actions" => tool # "probe",
         tool = "probe" => tool' = "probe"
  PROVE  Ledger'
<1> USE DEF Inv, Ledger
<1>1. Vacant' /\ Within'
  BY DEF Vacant, Within
<1>2. Limit[k] - usage[k] - held[k] > 0
  BY DEF Remaining
<1>3. usage[k] \in Nat /\ held[k] \in Int /\ Limit[k] \in Nat
  BY CheckConstants DEF TypeOK
<1>4. LeasesHonoured'
  BY <1>2, <1>3 DEF LeasesHonoured, Slack, TypeOK
<1>5. Pledged'
  <2>1. CASE k = "actions"
    <3>1. usage'["actions"] = usage["actions"] + 1 /\ probe' = 0
      BY <2>1 DEF Pledged, TypeOK
    <3> QED
      BY <1>2, <1>3, <2>1, <3>1 DEF Pledged, Remaining
  <2>2. CASE k # "actions"
    <3>1. usage'["actions"] = usage["actions"]
      BY <2>2 DEF TypeOK, Kinds
    <3> QED
      BY <3>1, <2>2 DEF Pledged, Remaining
  <2> QED
    BY <2>1, <2>2
<1> QED
  BY <1>1, <1>4, <1>5

(* A lease that consumes moves a unit from what is held to what is spent. *)
LEMMA ConsumeLedger ==
  ASSUME Inv, NEW i \in Slots, NEW k \in Kinds, Consume(i, k)
  PROVE  Ledger'
<1> USE DEF Inv, Ledger
<1>1. /\ pc[i] = "handling" /\ ~released[i] /\ used[i][k] < Quota[task[i]][k]
      /\ usage' = [usage EXCEPT ![k] = @ + 1]
      /\ used' = [used EXCEPT ![i][k] = @ + 1]
      /\ held' = [held EXCEPT ![k] = @ - 1]
      /\ UNCHANGED <<task, pc, released, tool, probe>>
  BY DEF Consume, At, snapshots, fiber, owner
<1>2. task[i] # NoTask
  BY <1>1 DEF Vacant
<1>3. Quota[task[i]] \in [Kinds -> Nat] /\ used[i] \in [Kinds -> Nat]
  BY <1>2, CheckConstants DEF TypeOK
<1>4. /\ used'[i] = [used[i] EXCEPT ![k] = @ + 1]
      /\ \A j \in Slots \ {i} : used'[j] = used[j]
  BY <1>1 DEF TypeOK
<1>5. Vacant'
  BY <1>1, <1>2, <1>4 DEF Vacant
<1>6. Within'
  BY <1>1, <1>3, <1>4 DEF Within
<1>7. Slack(i, k)' = Slack(i, k) - 1 /\ Slack(i, k) >= 1
  BY <1>1, <1>2, <1>3, <1>4 DEF Slack
<1>8. /\ \A l \in Kinds \ {k} : Slack(i, l)' = Slack(i, l)
      /\ \A j \in Slots \ {i}, l \in Kinds : Slack(j, l)' = Slack(j, l)
  BY <1>1, <1>3, <1>4 DEF Slack
<1>9. LeasesHonoured'
  <2> SUFFICES ASSUME NEW l \in Kinds
               PROVE  /\ held'[l] = Slack(1, l)' + Slack(2, l)'
                      /\ held'[l] >= 0
                      /\ usage'[l] + held'[l] <= Limit[l]
    BY DEF LeasesHonoured
  <2>1. /\ held[l] \in Int /\ usage[l] \in Nat /\ Limit[l] \in Nat
        /\ Slack(1, l) \in Nat /\ Slack(2, l) \in Nat
    BY CheckConstants, SlackNatural DEF TypeOK, Slots
  <2>2. /\ held[l] = Slack(1, l) + Slack(2, l) /\ held[l] >= 0
        /\ usage[l] + held[l] <= Limit[l]
    BY DEF LeasesHonoured
  <2>3. CASE l = k
    <3>1. held'[l] = held[l] - 1 /\ usage'[l] = usage[l] + 1
      BY <1>1, <2>3 DEF TypeOK
    <3>2. Slack(1, l)' + Slack(2, l)' = Slack(1, l) + Slack(2, l) - 1
      BY <1>7, <1>8, <2>1, <2>3 DEF Slots
    <3>3. Slack(1, l) + Slack(2, l) >= 1
      BY <1>7, <2>1, <2>3 DEF Slots
    <3> QED
      BY <2>1, <2>2, <3>1, <3>2, <3>3
  <2>4. CASE l # k
    <3>1. held'[l] = held[l] /\ usage'[l] = usage[l]
      BY <1>1, <2>4 DEF TypeOK
    <3>2. Slack(1, l)' = Slack(1, l) /\ Slack(2, l)' = Slack(2, l)
      BY <1>8, <2>4 DEF Slots
    <3> QED
      BY <2>2, <3>1, <3>2
  <2> QED
    BY <2>3, <2>4
<1>10. Pledged'
  <2>1. Remaining("actions")' = Remaining("actions")
    <3>1. \A l \in Kinds : /\ held[l] \in Int /\ usage[l] \in Nat /\ Limit[l] \in Nat
      BY CheckConstants DEF TypeOK
    <3>2. "actions" \in Kinds
      BY DEF Kinds
    <3>3. CASE k = "actions"
      <4>1. held'[k] = held[k] - 1 /\ usage'[k] = usage[k] + 1
        BY <1>1 DEF TypeOK
      <4> QED
        BY <3>1, <3>3, <4>1 DEF Remaining
    <3>4. CASE k # "actions"
      <4>1. held'["actions"] = held["actions"] /\ usage'["actions"] = usage["actions"]
        BY <1>1, <3>2, <3>4 DEF TypeOK
      <4> QED
        BY <4>1 DEF Remaining
    <3> QED
      BY <3>3, <3>4
  <2> QED
    BY <1>1, <2>1 DEF Pledged
<1> QED
  BY <1>5, <1>6, <1>9, <1>10

(* release() returns what the lease has not used, and closes it. *)
LEMMA CloseLedger ==
  ASSUME Inv, NEW i \in Slots, Close(i)
  PROVE  Ledger'
<1> USE DEF Inv, Ledger
<1>1. /\ pc[i] = "closing"
      /\ held' = [k \in Kinds |-> held[k] - Slack(i, k)]
      /\ released' = [released EXCEPT ![i] = TRUE]
      /\ pc' = [pc EXCEPT ![i] = "concluding"]
      /\ UNCHANGED <<task, used, usage, tool, probe>>
  BY DEF Close, At, Goto, owner
<1>2. task[i] # NoTask
  BY <1>1 DEF Vacant
<1>3. Vacant' /\ Within'
  BY <1>1, <1>2 DEF Vacant, Within, TypeOK
<1>4. /\ \A k \in Kinds : Slack(i, k)' = 0
      /\ \A j \in Slots \ {i}, k \in Kinds : Slack(j, k)' = Slack(j, k)
  BY <1>1 DEF Slack, TypeOK
<1>5. \A k \in Kinds : /\ held'[k] = Slack(1, k)' + Slack(2, k)'
                       /\ held'[k] >= 0
                       /\ held'[k] <= held[k]
                       /\ usage'[k] + held'[k] <= Limit[k]
  <2> TAKE k \in Kinds
  <2>1. /\ held[k] \in Int /\ usage[k] \in Nat /\ Limit[k] \in Nat
        /\ Slack(1, k) \in Nat /\ Slack(2, k) \in Nat
    BY CheckConstants, SlackNatural DEF TypeOK, Slots
  <2>2. /\ held[k] = Slack(1, k) + Slack(2, k)
        /\ usage[k] + held[k] <= Limit[k]
    BY DEF LeasesHonoured
  <2>3. held'[k] = held[k] - Slack(i, k) /\ usage'[k] = usage[k]
    BY <1>1
  <2>4. held'[k] = Slack(1, k)' + Slack(2, k)' /\ held'[k] >= 0 /\ held'[k] <= held[k]
    BY <1>4, <2>1, <2>2, <2>3 DEF Slots
  <2>5. held'[k] \in Int
    BY <2>1, <2>3 DEF Slots
  <2> QED
    BY <2>1, <2>2, <2>3, <2>4, <2>5
<1>6. LeasesHonoured'
  BY <1>5 DEF LeasesHonoured
<1>7. Pledged'
  <2>1. /\ \A k \in Kinds : held[k] \in Int /\ held'[k] \in Int
                            /\ usage[k] \in Nat /\ Limit[k] \in Nat
        /\ probe \in Nat
    BY <1>1, CheckConstants, SlackNatural DEF TypeOK
  <2> QED
    BY <1>1, <1>5, <2>1 DEF Pledged, Remaining, Kinds
<1> QED
  BY <1>3, <1>6, <1>7

(* A tool that neither submits, checks an action nor spends is quiet. *)
LEMMA ToolQuiet ==
  ASSUME SubmitReturns \/ (\E i \in Slots : CancelTask(i)) \/ AbandonAction
         \/ DecideFinish \/ AcceptFinish \/ FinishFails
  PROVE  Quiet
BY DEF SubmitReturns, CancelTask, AbortChild, AbandonAction, DecideFinish, AcceptFinish,
       ToolMayStart, FinishFails, Quiet, snapshots, leases, fiber, owner

(* A probe reserves what remains, spends what it reserved, and returns the *)
(* rest.                                                                   *)
LEMMA ProbeLedger ==
  ASSUME Inv, ReserveProbe \/ ProbeClick \/ ReleaseProbe
  PROVE  Ledger'
<1> USE DEF Inv, Ledger
<1>1. /\ UNCHANGED <<task, pc, held, used, released>>
      /\ tool' \in {"probe", "idle"}
  BY DEF ReserveProbe, ProbeClick, ReleaseProbe, snapshots, fiber, owner, ToolMayStart
<1>2. Vacant' /\ Within'
  BY <1>1 DEF Vacant, Within
<1>3. \A k \in Kinds : /\ held[k] \in Int /\ usage[k] \in Nat /\ Limit[k] \in Nat
                       /\ Slack(1, k)' = Slack(1, k) /\ Slack(2, k)' = Slack(2, k)
  BY <1>1, CheckConstants DEF TypeOK, Slack
<1>4. "actions" \in Kinds /\ probe \in Nat
  BY DEF Kinds, TypeOK
<1>5. CASE ReserveProbe
  <2>1. /\ usage' = usage /\ probe' = probe + ProbeCost /\ ProbeCost \in Nat
        /\ Remaining("actions") - probe >= ProbeCost /\ tool' = "probe"
    BY <1>5, CheckConstants DEF ReserveProbe
  <2>2. LeasesHonoured'
    BY <1>1, <1>3, <2>1 DEF LeasesHonoured
  <2>3. Pledged'
    BY <1>1, <1>3, <1>4, <2>1 DEF Pledged, Remaining
  <2> QED
    BY <1>2, <2>2, <2>3
<1>6. CASE ProbeClick
  <2>1. /\ usage' = [usage EXCEPT !["actions"] = @ + 1] /\ probe > 0
        /\ probe' = probe - 1 /\ tool' = "probe"
    BY <1>6 DEF ProbeClick, owner
  <2>2. /\ usage'["actions"] = usage["actions"] + 1
        /\ \A k \in Kinds \ {"actions"} : usage'[k] = usage[k]
    BY <1>4, <2>1 DEF TypeOK
  <2>3. probe <= Limit["actions"] - usage["actions"] - held["actions"]
    BY DEF Pledged, Remaining
  <2>4. LeasesHonoured'
    <3> SUFFICES ASSUME NEW k \in Kinds
                 PROVE  /\ held'[k] = Slack(1, k)' + Slack(2, k)'
                        /\ held'[k] >= 0
                        /\ usage'[k] + held'[k] <= Limit[k]
      BY DEF LeasesHonoured
    <3>1. /\ held[k] = Slack(1, k) + Slack(2, k) /\ held[k] >= 0
          /\ usage[k] + held[k] <= Limit[k]
      BY DEF LeasesHonoured
    <3>2. CASE k = "actions"
      BY <1>1, <1>3, <1>4, <2>1, <2>2, <2>3, <3>1, <3>2
    <3>3. CASE k # "actions"
      BY <1>1, <1>3, <2>2, <3>1, <3>3
    <3> QED
      BY <3>2, <3>3
  <2>5. Pledged'
    BY <1>1, <1>3, <1>4, <2>1, <2>2, <2>3 DEF Pledged, Remaining
  <2> QED
    BY <1>2, <2>4, <2>5
<1>7. CASE ReleaseProbe
  <2>1. usage' = usage /\ probe' = 0 /\ tool' = "idle"
    BY <1>7 DEF ReleaseProbe
  <2>2. LeasesHonoured'
    BY <1>1, <1>3, <2>1 DEF LeasesHonoured
  <2>3. Pledged'
    BY <1>1, <1>3, <1>4, <2>1 DEF Pledged, Remaining
  <2> QED
    BY <1>2, <2>2, <2>3
<1> QED
  BY <1>5, <1>6, <1>7

(* Every tool of the parent keeps the ledger. *)
LEMMA ToolLedger == Inv /\ Tool => Ledger'
<1> SUFFICES ASSUME Inv, Tool PROVE Ledger'
  OBVIOUS
<1>1. CASE \E i \in Slots, in \in Inputs : Submit(i, in)
  BY <1>1, SubmitLedger
<1>2. CASE StartAction
  <2>1. /\ Remaining("actions") > 0 /\ UNCHANGED <<task, leases, pc>>
        /\ tool = "idle" /\ tool' = "action"
    BY <1>2 DEF StartAction, ToolMayStart, snapshots, fiber
  <2> QED
    BY <2>1 DEF Inv, Ledger, Vacant, Within, Pledged, LeasesHonoured, Slack, Remaining,
                leases
<1>3. CASE CountAction
  <2>1. Remaining("actions") > 0
    BY <1>3 DEF CountAction, Inv, Ledger, Pledged
  <2>2. /\ usage' = [usage EXCEPT !["actions"] = @ + 1]
        /\ tool = "action" /\ tool' = "idle"
        /\ UNCHANGED <<task, pc, held, used, released, probe>>
    BY <1>3 DEF CountAction, snapshots, fiber
  <2>3. "actions" \in Kinds
    BY DEF Kinds
  <2> QED
    BY <2>1, <2>2, <2>3, SpendLedger
<1>4. CASE CountModel
  <2>1. /\ Remaining("modelCalls") > 0
        /\ usage' = [usage EXCEPT !["modelCalls"] = @ + 1]
        /\ UNCHANGED <<task, pc, held, used, released, probe, tool>>
    BY <1>4 DEF CountModel, snapshots, fiber, owner
  <2>2. "modelCalls" \in Kinds
    BY DEF Kinds
  <2> QED
    BY <2>1, <2>2, SpendLedger
<1>5. CASE SubmitReturns \/ (\E i \in Slots : CancelTask(i)) \/ AbandonAction
           \/ DecideFinish \/ AcceptFinish \/ FinishFails
  BY <1>5, ToolQuiet, QuietLedger DEF Inv
<1>6. CASE ReserveProbe \/ ProbeClick \/ ReleaseProbe
  BY <1>6, ProbeLedger
<1> QED
  BY <1>1, <1>2, <1>3, <1>4, <1>5, <1>6 DEF Tool

(* A fiber that does not close its child is quiet. *)
LEMMA FiberQuiet ==
  ASSUME TypeOK, NEW i \in Slots,
         EmitSubmitted(i) \/ Admit(i) \/ EmitAccepted(i) \/ EmitStarted(i) \/ Open(i)
         \/ Handle(i) \/ Validate(i) \/ FiberThrows(i) \/ EmitTerminal(i) \/ EmitFails(i)
  PROVE  Quiet
<1> DEFINE targets == Pcs \ {"none"}
<1>1. pc[i] # "none"
  BY DEF EmitSubmitted, Admit, EmitAccepted, EmitStarted, Open, Handle, Validate,
         FiberThrows, EmitTerminal, EmitFails, At
<1>2. \E to \in targets : pc' = [pc EXCEPT ![i] = to]
  <2>1. "done" \in targets /\ "closing" \in targets /\ "admitting" \in targets
        /\ "accepting" \in targets /\ "starting" \in targets /\ "opening" \in targets
        /\ "handling" \in targets /\ "validating" \in targets
    BY DEF Pcs
  <2>2. Catch(i) => \E to \in targets : pc' = [pc EXCEPT ![i] = to]
    BY <2>1, Zenon DEF Catch, Goto
  <2> HIDE DEF targets
  <2> QED
    BY <2>1, <2>2, Zenon DEF EmitSubmitted, Admit, EmitAccepted, EmitStarted, Open, Handle,
       Validate, FiberThrows, EmitTerminal, EmitFails, Goto
<1>3. \A j \in Slots : pc'[j] = "none" <=> pc[j] = "none"
  BY <1>1, <1>2, Moves
<1>4. UNCHANGED <<task, leases, tool>>
  BY DEF EmitSubmitted, Admit, EmitAccepted, EmitStarted, Open, Handle,
         Validate, FiberThrows, EmitTerminal, EmitFails, owner, snapshots
<1> QED
  BY <1>3, <1>4 DEF Quiet

(* Every step of a child keeps the ledger. *)
LEMMA ChildLedger == ASSUME NEW i \in Slots PROVE Inv /\ Child(i) => Ledger'
<1> SUFFICES ASSUME Inv, Child(i) PROVE Ledger'
  OBVIOUS
<1>1. CASE Close(i)
  BY <1>1, CloseLedger
<1>2. CASE \E k \in Kinds : Consume(i, k)
  BY <1>2, ConsumeLedger
<1>3. CASE EmitProgress(i) \/ ChildDeadline(i)
  <2>1. Quiet
    BY <1>3 DEF EmitProgress, ChildDeadline, Quiet, AbortChild, leases, snapshots, fiber, owner
  <2> QED
    BY <2>1, QuietLedger DEF Inv
<1>4. CASE EmitSubmitted(i) \/ Admit(i) \/ EmitAccepted(i) \/ EmitStarted(i) \/ Open(i)
           \/ Handle(i) \/ Validate(i) \/ FiberThrows(i) \/ EmitTerminal(i) \/ EmitFails(i)
  <2>1. Quiet
    BY <1>4, FiberQuiet DEF Inv
  <2> QED
    BY <2>1, QuietLedger DEF Inv
<1> QED
  BY <1>1, <1>2, <1>3, <1>4 DEF Child, Fiber

(* The end of the parent touches no lease. *)
LEMMA ParentLedger == Inv /\ Parent => Ledger'
<1> SUFFICES ASSUME Inv, Parent PROVE Ledger'
  OBVIOUS
<1>1. Quiet
  BY DEF Parent, ParentAborts, Teardown, AbortChildren, Drained, Commit, Quiet, leases,
         snapshots, fiber
<1> QED
  BY <1>1, QuietLedger DEF Inv

(* The ledger together with the types is inductive. *)
LEMMA InvInductive == Inv /\ [Next]_vars => Inv'
<1> SUFFICES ASSUME Inv, [Next]_vars PROVE Inv'
  OBVIOUS
<1>1. TypeOK'
  BY NextType DEF Inv
<1>2. CASE UNCHANGED vars
  <2>1. Quiet
    BY <1>2 DEF vars, Quiet, snapshots, leases, fiber, owner
  <2> QED
    BY <1>1, <2>1, QuietLedger DEF Inv
<1>3. CASE Next
  BY <1>1, <1>3, ToolLedger, ChildLedger, ParentLedger DEF Next, Inv
<1> QED
  BY <1>2, <1>3

(* THEOREM.  Whatever is submitted, cancelled, timed out or spent in       *)
(* between, what the parent and its children have used and what is still   *)
(* promised stay within the parent's budget, and what is promised is       *)
(* exactly what the open leases have not used.                             *)
THEOREM BudgetIsHonoured == Spec => []BudgetHonoured
<1>1. Init => Inv
  BY InitType, InitLedger DEF Inv
<1>2. Inv => BudgetHonoured
  BY DEF Inv, Ledger, Pledged, BudgetHonoured
<1> QED
  BY <1>1, <1>2, InvInductive, PTL DEF Spec

-----------------------------------------------------------------------------
(* The parent's commit over its children.                                  *)

(* Once the parent has drained its children it is about to commit. *)
Closed == {"commit", "verified", "quarantined"}

(* A child whose signal is aborted is published as cancelled, in any slot. *)
AbortedCancelled ==
  \A i \in Slots : aborted[i] /\ IsTerminal(i) => status[i] = "cancelled" /\ ~result[i]

(* A snapshot ends where the lease is returned, and not before. *)
Published ==
  \A i \in Slots : /\ IsTerminal(i) => pc[i] \in {"concluding", "done"}
                   /\ pc[i] \in {"concluding", "done"} => released[i]

(* The parent commits over fibers that are done. *)
Drain == parent \in Closed => \A i \in Slots : pc[i] \in {"none", "done"}

(* A rejected append is remembered, and decides the parent's reason. *)
Remembered ==
  /\ fatal <=> faults > 0
  /\ reason = "reconciliation-required" => fatal
  /\ parent \in Closed /\ fatal => reason = "reconciliation-required"
  /\ parent = "verified" => ~fatal
  /\ parent = "quarantined" => fatal

(* As long as none was lost, the events of a child begin with its          *)
(* submission and end with its terminal event, which says what its         *)
(* snapshot says.                                                          *)
Whole(i) ==
  /\ history[i] = << >> <=> pc[i] \in {"none", "submitting"}
  /\ history[i] # << >> => history[i][1].type \in Begins
  /\ \A n \in 1..Len(history[i]) :
       history[i][n].status \in Ended => pc[i] = "done" /\ n = Len(history[i])
  /\ pc[i] = "done" => /\ history[i][Len(history[i])].status = status[i]
                       /\ history[i][Len(history[i])].result = result[i]
Histories == ~fatal => \A i \in Slots : Whole(i)

(* From the decision of a covering finish on, every child is a full result. *)
Covered ==
  /\ tool = "finish-covered" \/ reason = "goal-reached" =>
       \A i \in Slots : task[i] # NoTask => Completed(i)
  /\ reason = "goal-reached" => parent # "working"

CommitInv ==
  AbortedCancelled /\ Published /\ Drain /\ Remembered /\ Histories /\ Covered

CInv == Inv /\ CommitInv

-----------------------------------------------------------------------------
(* What the steps leave alone.                                             *)

(* A step of one child leaves the other child and the parent alone. *)
LEMMA ChildFrame ==
  ASSUME TypeOK, NEW i \in Slots, Child(i)
  PROVE  /\ UNCHANGED <<task, tool, parent, reason>>
         /\ \A j \in Slots \ {i} :
              /\ pc'[j] = pc[j] /\ status'[j] = status[j] /\ result'[j] = result[j]
              /\ released'[j] = released[j] /\ aborted'[j] = aborted[j]
              /\ history'[j] = history[j]
<1> USE DEF snapshots, leases, fiber, owner, TypeOK
<1>1. CASE Fiber(i)
  <2>1. CASE EmitSubmitted(i) \/ Admit(i) \/ EmitAccepted(i) \/ EmitStarted(i) \/ Open(i)
    BY <2>1 DEF EmitSubmitted, Admit, EmitAccepted, EmitStarted, Open, Goto, Append1, Catch
  <2>2. CASE Handle(i) \/ Validate(i) \/ FiberThrows(i) \/ EmitTerminal(i)
    BY <2>2 DEF Handle, Validate, FiberThrows, EmitTerminal, Goto, Append1, Catch
  <2>3. CASE Close(i)
    BY <2>3 DEF Close, Goto
  <2> QED
    BY <1>1, <2>1, <2>2, <2>3 DEF Fiber
<1>2. CASE EmitProgress(i)
  BY <1>2 DEF EmitProgress, Append1
<1>3. CASE \E k \in Kinds : Consume(i, k)
  BY <1>3 DEF Consume
<1>4. CASE EmitFails(i)
  BY <1>4 DEF EmitFails, Goto, Catch
<1>5. CASE ChildDeadline(i)
  BY <1>5 DEF ChildDeadline, AbortChild
<1> QED
  BY <1>1, <1>2, <1>3, <1>4, <1>5 DEF Child

(* A fiber that has not begun or is done does nothing more: only its timer *)
(* may still fire.                                                         *)
LEMMA Over ==
  ASSUME NEW i \in Slots, Child(i), pc[i] \in {"none", "done"}
  PROVE  ChildDeadline(i)
BY DEF Child, Fiber, EmitSubmitted, Admit, EmitAccepted, EmitStarted, Open, Handle, Validate,
       FiberThrows, Close, EmitTerminal, EmitProgress, Consume, EmitFails, At

(* A tool of the parent leaves the children's snapshots and events alone.  *)
LEMMA ToolFrame ==
  ASSUME Tool
  PROVE  UNCHANGED <<history, status, result, released, fatal, faults>>
<1> USE DEF snapshots, leases, fiber, owner
<1>1. CASE \E i \in Slots, in \in Inputs : Submit(i, in)
  BY <1>1 DEF Submit
<1>2. CASE SubmitReturns \/ (\E i \in Slots : CancelTask(i)) \/ StartAction \/ CountAction
           \/ AbandonAction \/ CountModel
  BY <1>2 DEF SubmitReturns, CancelTask, StartAction, CountAction, AbandonAction, CountModel
<1>3. CASE ReserveProbe \/ ProbeClick \/ ReleaseProbe
  BY <1>3 DEF ReserveProbe, ProbeClick, ReleaseProbe
<1>4. CASE DecideFinish \/ AcceptFinish \/ FinishFails
  BY <1>4 DEF DecideFinish, AcceptFinish, FinishFails
<1> QED
  BY <1>1, <1>2, <1>3, <1>4 DEF Tool

(* Among the tools only a submission moves a fiber. *)
LEMMA ToolMoves ==
  ASSUME Tool, ~\E i \in Slots, in \in Inputs : Submit(i, in)
  PROVE  UNCHANGED <<pc, task>>
BY DEF Tool, SubmitReturns, CancelTask, StartAction, CountAction, AbandonAction, CountModel,
       ReserveProbe, ProbeClick, ReleaseProbe, DecideFinish, AcceptFinish, FinishFails,
       snapshots, fiber

(* The end of the parent leaves the children's snapshots and events alone. *)
LEMMA ParentFrame ==
  ASSUME Parent
  PROVE  UNCHANGED <<history, status, result, released, fatal, faults, pc, task, tool, used>>
BY DEF Parent, ParentAborts, Teardown, Drained, Commit, snapshots, leases, fiber

-----------------------------------------------------------------------------
(* Only a child that has not ended is aborted, and whoever ends aborted    *)
(* ends as cancelled.                                                      *)
LEMMA AbortedStep == TypeOK /\ AbortedCancelled /\ [Next]_vars => AbortedCancelled'
<1> SUFFICES ASSUME TypeOK, AbortedCancelled, [Next]_vars PROVE AbortedCancelled'
  OBVIOUS
<1> USE DEF AbortedCancelled, IsTerminal
<1>1. CASE Tool
  <2>1. UNCHANGED <<status, result>>
    BY <1>1, ToolFrame
  <2>2. CASE \E i \in Slots : CancelTask(i)
    BY <2>1, <2>2 DEF CancelTask, AbortChild, TypeOK
  <2>3. CASE ~\E i \in Slots : CancelTask(i)
    <3>1. UNCHANGED aborted
      BY <1>1, <2>3 DEF Tool, Submit, SubmitReturns, StartAction, CountAction, AbandonAction,
         CountModel, ReserveProbe, ProbeClick, ReleaseProbe, DecideFinish, AcceptFinish,
         FinishFails
    <3> QED
      BY <2>1, <3>1
  <2> QED
    BY <2>2, <2>3
<1>2. CASE \E i \in Slots : Child(i)
  <2> PICK i \in Slots : Child(i)
    BY <1>2
  <2> SUFFICES aborted'[i] /\ status'[i] \in Ended => status'[i] = "cancelled" /\ ~result'[i]
    BY ChildFrame
  <2>1. CASE Close(i)
    BY <2>1 DEF Close, TypeOK
  <2>2. CASE EmitAccepted(i)
    <3>1. CASE status' = [status EXCEPT ![i] = "running"]
      BY <3>1 DEF TypeOK, Ended
    <3>2. CASE UNCHANGED status
      BY <2>2, <3>2 DEF EmitAccepted
    <3> QED
      BY <2>2, <3>1, <3>2 DEF EmitAccepted
  <2>3. CASE ChildDeadline(i)
    BY <2>3 DEF ChildDeadline, AbortChild, snapshots, TypeOK
  <2>4. CASE ~Close(i) /\ ~EmitAccepted(i) /\ ~ChildDeadline(i)
    BY <2>4 DEF Child, Fiber, EmitSubmitted, Admit, EmitStarted, Open, Handle, Validate,
       FiberThrows, EmitTerminal, EmitProgress, Consume, EmitFails, snapshots
  <2> QED
    BY <2>1, <2>2, <2>3, <2>4
<1>3. CASE Parent
  <2>1. UNCHANGED <<status, result>>
    BY <1>3, ParentFrame
  <2>2. CASE ParentAborts \/ Teardown
    BY <2>1, <2>2 DEF ParentAborts, Teardown, AbortChildren, TypeOK
  <2>3. CASE Drained \/ Commit
    BY <2>1, <2>3 DEF Drained, Commit
  <2> QED
    BY <1>3, <2>2, <2>3 DEF Parent
<1>4. CASE UNCHANGED vars
  BY <1>4 DEF vars, snapshots
<1> QED
  BY <1>1, <1>2, <1>3, <1>4 DEF Next

(* A snapshot is published, and its lease returned, by the closing. *)
LEMMA PublishedStep == Inv /\ Published /\ [Next]_vars => Published'
<1> SUFFICES ASSUME TypeOK, Vacant, Published, [Next]_vars PROVE Published'
  BY DEF Inv, Ledger
<1> USE DEF Published, IsTerminal
<1>1. CASE Tool
  <2>1. UNCHANGED <<status, released>>
    BY <1>1, ToolFrame
  <2>2. CASE \E i \in Slots, in \in Inputs : Submit(i, in)
    <3> PICK i \in Slots, in \in Inputs : Submit(i, in)
      BY <2>2
    <3>1. pc' = [pc EXCEPT ![i] = "submitting"] /\ pc[i] = "none"
      BY DEF Submit, Vacant
    <3> QED
      BY <2>1, <3>1 DEF TypeOK
  <2>3. CASE UNCHANGED pc
    BY <2>1, <2>3
  <2> QED
    BY <1>1, <2>2, <2>3, ToolMoves
<1>2. CASE \E i \in Slots : Child(i)
  <2> PICK i \in Slots : Child(i)
    BY <1>2
  <2> SUFFICES /\ status'[i] \in Ended => pc'[i] \in {"concluding", "done"}
               /\ pc'[i] \in {"concluding", "done"} => released'[i]
    BY ChildFrame
  <2>1. CASE Close(i)
    BY <2>1 DEF Close, Goto, TypeOK
  <2>2. CASE EmitTerminal(i)
    BY <2>2 DEF EmitTerminal, At, Goto, TypeOK, leases
  <2>3. CASE EmitAccepted(i)
    <3>1. CASE status' = [status EXCEPT ![i] = "running"]
      BY <2>3, <3>1 DEF EmitAccepted, At, Goto, Catch, TypeOK, Ended, leases
    <3>2. CASE UNCHANGED status
      BY <2>3, <3>2 DEF EmitAccepted, At, Goto, Catch, TypeOK, leases
    <3> QED
      BY <2>3, <3>1, <3>2 DEF EmitAccepted
  <2>4. CASE EmitFails(i)
    BY <2>4 DEF EmitFails, Goto, Catch, TypeOK, leases
  <2>5. CASE EmitProgress(i) \/ (\E k \in Kinds : Consume(i, k)) \/ ChildDeadline(i)
    BY <2>5 DEF EmitProgress, Consume, ChildDeadline, snapshots, fiber, leases
  <2>6. CASE EmitSubmitted(i) \/ Admit(i) \/ EmitStarted(i) \/ Open(i)
    BY <2>6 DEF EmitSubmitted, Admit, EmitStarted, Open, At, Goto, Catch, TypeOK, leases,
       snapshots
  <2>7. CASE Handle(i) \/ Validate(i) \/ FiberThrows(i)
    BY <2>7 DEF Handle, Validate, FiberThrows, At, Goto, Catch, TypeOK, leases
  <2> QED
    BY <2>1, <2>2, <2>3, <2>4, <2>5, <2>6, <2>7 DEF Child, Fiber
<1>3. CASE Parent \/ UNCHANGED vars
  BY <1>3, ParentFrame DEF vars, snapshots, leases, fiber
<1> QED
  BY <1>1, <1>2, <1>3 DEF Next

(* The parent commits when every fiber is done, and none begins again.     *)
LEMMA DrainStep == Inv /\ Drain /\ [Next]_vars => Drain'
<1> SUFFICES ASSUME TypeOK, Vacant, Drain, [Next]_vars, parent' \in Closed,
                    NEW i \in Slots
             PROVE  pc'[i] \in {"none", "done"}
  BY DEF Inv, Ledger, Drain
<1>1. CASE Tool
  <2>1. parent \in Closed /\ ~\E j \in Slots, in \in Inputs : Submit(j, in)
    BY <1>1 DEF Tool, Submit, SubmitReturns, CancelTask, StartAction, CountAction,
       AbandonAction, CountModel, ReserveProbe, ProbeClick, ReleaseProbe, DecideFinish,
       AcceptFinish, FinishFails, ToolMayStart, Closed, owner
  <2> QED
    BY <1>1, <2>1, ToolMoves DEF Drain
<1>2. CASE \E j \in Slots : Child(j)
  <2> PICK j \in Slots : Child(j)
    BY <1>2
  <2>1. parent \in Closed
    BY ChildFrame
  <2>2. ChildDeadline(j)
    BY <2>1, Over DEF Drain
  <2> QED
    BY <2>1, <2>2 DEF ChildDeadline, fiber, Drain
<1>3. CASE Parent
  <2>1. CASE Drained
    BY <2>1 DEF Drained, Occupied, Vacant, fiber
  <2>2. CASE Commit
    BY <2>2 DEF Commit, Drain, Closed, fiber
  <2>3. CASE ParentAborts \/ Teardown
    BY <2>3 DEF ParentAborts, Teardown, Closed, owner
  <2> QED
    BY <1>3, <2>1, <2>2, <2>3 DEF Parent
<1>4. CASE UNCHANGED vars
  BY <1>4 DEF vars, fiber, owner, Drain
<1> QED
  BY <1>1, <1>2, <1>3, <1>4 DEF Next

-----------------------------------------------------------------------------
(* The events of a child stay whole as long as no append was rejected.     *)

(* An event appended to a whole history. *)
LEMMA Appended ==
  ASSUME NEW h \in Seq(Event), NEW e \in Event
  PROVE  /\ Append(h, e) # << >> /\ Len(Append(h, e)) = Len(h) + 1
         /\ Append(h, e)[Len(h) + 1] = e
         /\ \A n \in 1..Len(h) : Append(h, e)[n] = h[n]
         /\ h = << >> => Append(h, e)[1] = e
OBVIOUS

(* A fiber on its way to its end, nothing of it published: it appends one  *)
(* event of its snapshot, or none.                                         *)
LEMMA WholeMoves ==
  ASSUME TypeOK, Published, NEW i \in Slots, Whole(i),
         pc[i] \notin {"none", "concluding", "done"},
         pc'[i] \notin {"none", "submitting", "done"},
         \/ pc[i] # "submitting" /\ history'[i] = history[i]
         \/ \E type \in {"submitted", "accepted", "started", "progress"} :
              /\ pc[i] = "submitting" => type = "submitted"
              /\ history'[i] = Append(history[i], [type |-> type, status |-> status[i],
                                                  result |-> result[i]])
  PROVE  Whole(i)'
<1>1. history[i] \in Seq(Event) /\ status[i] \notin Ended
  BY DEF TypeOK, Published, IsTerminal
<1>2. CASE history'[i] = history[i] /\ pc[i] # "submitting"
  BY <1>2 DEF Whole
<1>3. CASE \E type \in {"submitted", "accepted", "started", "progress"} :
             /\ pc[i] = "submitting" => type = "submitted"
             /\ history'[i] = Append(history[i], [type |-> type, status |-> status[i],
                                                 result |-> result[i]])
  <2> PICK type \in {"submitted", "accepted", "started", "progress"} :
             /\ pc[i] = "submitting" => type = "submitted"
             /\ history'[i] = Append(history[i], [type |-> type, status |-> status[i],
                                                 result |-> result[i]])
    BY <1>3
  <2> DEFINE e == [type |-> type, status |-> status[i], result |-> result[i]]
             h == history[i]
  <2>1. e \in Event /\ e.type = type /\ e.status = status[i]
    BY DEF TypeOK, Event
  <2>2. /\ history'[i] # << >> /\ Len(history'[i]) = Len(h) + 1
        /\ history'[i][Len(h) + 1] = e
        /\ \A n \in 1..Len(h) : history'[i][n] = h[n]
        /\ h = << >> => history'[i][1] = e
    BY <1>1, <2>1, Appended
  <2>3. \A n \in 1..Len(h) : h[n].status \notin Ended
    BY DEF Whole
  <2>4. \A n \in 1..Len(history'[i]) : history'[i][n].status \notin Ended
    BY <1>1, <2>1, <2>2, <2>3
  <2>5. history'[i][1].type \in Begins
    <3>1. CASE h = << >>
      BY <2>1, <2>2, <3>1 DEF Whole, Begins
    <3>2. CASE h # << >>
      BY <1>1, <2>2, <3>2 DEF Whole
    <3> QED
      BY <3>1, <3>2
  <2> QED
    BY <2>2, <2>4, <2>5 DEF Whole
<1> QED
  BY <1>2, <1>3

(* The terminal event says what the snapshot says. *)
LEMMA WholeEnds ==
  ASSUME TypeOK, NEW i \in Slots, Whole(i), EmitTerminal(i)
  PROVE  Whole(i)'
<1> DEFINE e == [type |-> "terminal", status |-> status[i], result |-> result[i]]
           h == history[i]
<1>1. h \in Seq(Event) /\ e \in Event
  BY DEF TypeOK, Event
<1>2. /\ pc[i] = "concluding" /\ pc'[i] = "done" /\ history'[i] = Append(h, e)
      /\ status' = status /\ result' = result
  BY DEF EmitTerminal, At, Goto, Append1, TypeOK
<1>3. /\ history'[i] # << >> /\ Len(history'[i]) = Len(h) + 1
      /\ history'[i][Len(h) + 1] = e
      /\ \A n \in 1..Len(h) : history'[i][n] = h[n]
  BY <1>1, <1>2, Appended
<1>4. h # << >> /\ h[1].type \in Begins /\ \A n \in 1..Len(h) : h[n].status \notin Ended
  BY <1>2 DEF Whole
<1>5. \A n \in 1..Len(history'[i]) :
        history'[i][n].status \in Ended => n = Len(history'[i])
  BY <1>1, <1>3, <1>4
<1>6. history'[i][1].type \in Begins
  BY <1>1, <1>3, <1>4
<1> QED
  BY <1>2, <1>3, <1>5, <1>6 DEF Whole

(* What a child does keeps its history whole, unless an append rejects. *)
LEMMA WholeChild ==
  ASSUME TypeOK, Published, NEW i \in Slots, Whole(i), Child(i), ~fatal'
  PROVE  Whole(i)'
<1>1. CASE EmitTerminal(i)
  BY <1>1, WholeEnds
<1>2. CASE ChildDeadline(i) \/ (\E k \in Kinds : Consume(i, k))
  BY <1>2 DEF ChildDeadline, Consume, snapshots, fiber, Whole
<1>3. CASE EmitProgress(i)
  <2>1. history'[i] = Append(history[i], [type |-> "progress", status |-> status[i],
                                          result |-> result[i]])
    BY <1>3 DEF EmitProgress, Append1, TypeOK
  <2>2. pc[i] = "handling" /\ pc'[i] = "handling"
    BY <1>3 DEF EmitProgress, At, fiber
  <2> QED
    BY <2>1, <2>2, WholeMoves
<1>4. CASE EmitSubmitted(i)
  <2>1. history'[i] = Append(history[i], [type |-> "submitted", status |-> status[i],
                                          result |-> result[i]])
    BY <1>4 DEF EmitSubmitted, Append1, TypeOK
  <2>2. pc[i] = "submitting" /\ pc'[i] = "admitting"
    BY <1>4 DEF EmitSubmitted, At, Goto, TypeOK
  <2> QED
    BY <2>1, <2>2, WholeMoves
<1>5. CASE EmitAccepted(i)
  <2>1. history'[i] = Append(history[i], [type |-> "accepted", status |-> status[i],
                                          result |-> result[i]])
    BY <1>5 DEF EmitAccepted, TypeOK
  <2>2. pc[i] = "accepting" /\ pc'[i] \in {"starting", "closing"}
    BY <1>5 DEF EmitAccepted, At, Goto, Catch, TypeOK
  <2> QED
    BY <2>1, <2>2, WholeMoves
<1>6. CASE EmitStarted(i)
  <2>1. history'[i] = Append(history[i], [type |-> "started", status |-> status[i],
                                          result |-> result[i]])
    BY <1>6 DEF EmitStarted, Append1, TypeOK
  <2>2. pc[i] = "starting" /\ pc'[i] \in {"opening", "closing"}
    BY <1>6 DEF EmitStarted, At, Goto, Catch, TypeOK
  <2> QED
    BY <2>1, <2>2, WholeMoves
<1>7. CASE Admit(i) \/ Open(i) \/ Handle(i) \/ Validate(i) \/ FiberThrows(i) \/ Close(i)
  <2>1. history' = history
    BY <1>7 DEF Admit, Open, Handle, Validate, FiberThrows, Close
  <2>2. /\ pc[i] \in {"admitting", "opening", "handling", "validating", "closing"}
        /\ pc'[i] \in {"accepting", "handling", "validating", "closing", "concluding"}
    BY <1>7 DEF Admit, Open, Handle, Validate, FiberThrows, Close, At, Goto, Catch, TypeOK
  <2> QED
    BY <2>1, <2>2, WholeMoves
<1>8. ~EmitFails(i)
  BY DEF EmitFails
<1> QED
  BY <1>1, <1>2, <1>3, <1>4, <1>5, <1>6, <1>7, <1>8 DEF Child, Fiber

(* A lost event is never forgotten. *)
LEMMA FatalStays == [Next]_vars /\ fatal => fatal'
<1> SUFFICES ASSUME [Next]_vars, fatal PROVE fatal'
  OBVIOUS
<1>1. CASE \E i \in Slots : Child(i)
  BY <1>1 DEF Child, Fiber, EmitSubmitted, Admit, EmitAccepted, EmitStarted, Open, Handle,
     Validate, FiberThrows, Close, EmitTerminal, EmitProgress, Consume, EmitFails, ChildDeadline
<1>2. CASE Tool \/ Parent \/ UNCHANGED vars
  BY <1>2, ToolFrame, ParentFrame DEF vars
<1> QED
  BY <1>1, <1>2 DEF Next

(* So do the histories of the children. *)
LEMMA HistoriesStep == Inv /\ Published /\ Histories /\ [Next]_vars => Histories'
<1> SUFFICES ASSUME TypeOK, Vacant, Published, Histories, [Next]_vars, ~fatal',
                    NEW i \in Slots
             PROVE  Whole(i)'
  BY DEF Inv, Ledger, Histories
<1>1. Whole(i) /\ \A j \in Slots : Whole(j)
  BY FatalStays DEF Histories
<1>2. CASE UNCHANGED <<history, status, result, pc>>
  BY <1>1, <1>2 DEF Whole
<1>3. CASE Tool
  <2>1. UNCHANGED <<history, status, result>>
    BY <1>3, ToolFrame
  <2>2. CASE \E j \in Slots, in \in Inputs : Submit(j, in)
    <3> PICK j \in Slots, in \in Inputs : Submit(j, in)
      BY <2>2
    <3>1. pc' = [pc EXCEPT ![j] = "submitting"] /\ pc[j] = "none"
      BY DEF Submit, Vacant
    <3>2. CASE i = j
      BY <1>1, <2>1, <3>1, <3>2 DEF Whole, TypeOK
    <3>3. CASE i # j
      BY <1>1, <2>1, <3>1, <3>3 DEF Whole, TypeOK
    <3> QED
      BY <3>2, <3>3
  <2> QED
    BY <1>2, <1>3, <2>1, <2>2, ToolMoves
<1>4. CASE \E j \in Slots : Child(j)
  <2> PICK j \in Slots : Child(j)
    BY <1>4
  <2>1. CASE i = j
    BY <1>1, <2>1, WholeChild
  <2>2. CASE i # j
    BY <1>1, <2>2, ChildFrame DEF Whole
  <2> QED
    BY <2>1, <2>2
<1>5. CASE Parent \/ UNCHANGED vars
  BY <1>2, <1>5, ParentFrame DEF vars, snapshots, fiber
<1> QED
  BY <1>3, <1>4, <1>5 DEF Next

-----------------------------------------------------------------------------
(* The parent.                                                             *)

(* Once every child is a full result, they all stay so. *)
LEMMA CompletedStays ==
  ASSUME TypeOK, Published, NEW i \in Slots, Completed(i), [Next]_vars
  PROVE  Completed(i)'
<1> USE DEF Completed
<1>1. pc[i] \in {"concluding", "done"}
  BY DEF Published, IsTerminal, Ended
<1>2. CASE \E j \in Slots : Child(j)
  <2> PICK j \in Slots : Child(j)
    BY <1>2
  <2>1. CASE i # j
    BY <2>1, ChildFrame
  <2>2. CASE i = j
    <3>1. ~Close(i) /\ ~EmitAccepted(i)
      BY <1>1 DEF Close, EmitAccepted, At
    <3> QED
      BY <2>2, <3>1 DEF Child, Fiber, EmitSubmitted, Admit, EmitStarted, Open, Handle,
         Validate, FiberThrows, EmitTerminal, EmitProgress, Consume, EmitFails,
         ChildDeadline, snapshots
  <2> QED
    BY <2>1, <2>2
<1>3. CASE Tool \/ Parent \/ UNCHANGED vars
  BY <1>3, ToolFrame, ParentFrame DEF vars, snapshots
<1> QED
  BY <1>2, <1>3 DEF Next

(* A covering finish is decided over children that are full results, and   *)
(* nothing is submitted after it.                                          *)
LEMMA CoveredStep == Inv /\ Published /\ Covered /\ [Next]_vars => Covered'
<1> SUFFICES ASSUME TypeOK, Published, Covered, [Next]_vars PROVE Covered'
  BY DEF Inv
<1> DEFINE Full == \A i \in Slots : task[i] # NoTask => Completed(i)
<1>1. Full /\ task' = task => Full'
  BY CompletedStays
<1>2. CASE Tool
  <2>1. CASE \E i \in Slots, in \in Inputs : Submit(i, in)
    BY <2>1 DEF Submit, ToolMayStart, Covered
  <2>2. CASE DecideFinish
    <3>1. task' = task /\ UNCHANGED <<parent, reason>>
      BY <2>2 DEF DecideFinish, snapshots
    <3>2. tool' = "finish-covered" => Full
      BY <2>2 DEF DecideFinish, Gaps, Occupied
    <3> QED
      BY <1>1, <3>1, <3>2 DEF Covered
  <2>3. CASE AcceptFinish
    <3>1. /\ task' = task /\ parent' = "finished" /\ tool' = "idle"
          /\ reason' = "goal-reached" => tool = "finish-covered"
      BY <2>3 DEF AcceptFinish, snapshots
    <3> QED
      BY <1>1, <3>1 DEF Covered
  <2>4. CASE SubmitReturns \/ (\E i \in Slots : CancelTask(i)) \/ StartAction \/ CountAction
             \/ AbandonAction \/ CountModel \/ ReserveProbe \/ ProbeClick \/ ReleaseProbe
             \/ FinishFails
    <3>1. task' = task /\ UNCHANGED <<parent, reason>>
          /\ (tool' = "finish-covered" => tool = "finish-covered")
      BY <2>4 DEF SubmitReturns, CancelTask, StartAction, CountAction, AbandonAction,
         CountModel, ReserveProbe, ProbeClick, ReleaseProbe, FinishFails, snapshots, owner
    <3> QED
      BY <1>1, <3>1 DEF Covered
  <2> QED
    BY <1>2, <2>1, <2>2, <2>3, <2>4 DEF Tool
<1>3. CASE \E i \in Slots : Child(i)
  <2>1. UNCHANGED <<task, tool, parent, reason>>
    BY <1>3, ChildFrame
  <2> QED
    BY <1>1, <2>1 DEF Covered
<1>4. CASE Parent
  <2>1. task' = task /\ tool' = tool
    BY <1>4, ParentFrame
  <2>2. /\ reason' = "goal-reached" => reason = "goal-reached"
        /\ parent' = "working" => parent = "working"
    BY <1>4 DEF Parent, ParentAborts, Teardown, Drained, Commit
  <2> QED
    BY <1>1, <2>1, <2>2 DEF Covered
<1>5. CASE UNCHANGED vars
  <2>1. UNCHANGED <<task, tool, parent, reason>>
    BY <1>5 DEF vars, snapshots, owner
  <2> QED
    BY <1>1, <2>1 DEF Covered
<1> QED
  BY <1>2, <1>3, <1>4, <1>5 DEF Next

(* The commit verifies whole histories: whatever the parent ended as.      *)
LEMMA CleanCommit ==
  ASSUME TypeOK, Vacant, Drain, Histories, Covered, parent = "commit", ~fatal
  PROVE  Verified
<1>1. \A i \in Slots : pc[i] \in {"none", "done"} /\ Whole(i)
  BY DEF Drain, Histories, Closed
<1>2. ASSUME NEW i \in Slots PROVE ~InvalidHistory(i)
  <2>1. history[i] \in Seq(Event)
    BY DEF TypeOK
  <2> QED
    BY <1>1, <2>1 DEF InvalidHistory, Whole
<1>3. ASSUME NEW i \in Slots, reason = "goal-reached" PROVE ~Unfinished(i)
  <2>1. CASE pc[i] = "none"
    BY <1>1, <2>1 DEF Unfinished, Whole
  <2>2. CASE pc[i] = "done"
    <3>1. Completed(i)
      BY <1>3, <2>2 DEF Covered, Vacant
    <3> QED
      BY <1>1, <2>2, <3>1 DEF Unfinished, Recorded, Whole, Completed
  <2> QED
    BY <1>1, <2>1, <2>2
<1> QED
  BY <1>2, <1>3 DEF Verified

(* A lost event is remembered, and it alone quarantines. *)
LEMMA RememberedStep ==
  Inv /\ Drain /\ Histories /\ Covered /\ Remembered /\ [Next]_vars => Remembered'
<1> SUFFICES ASSUME TypeOK, Vacant, Drain, Histories, Covered, Remembered, [Next]_vars
             PROVE  Remembered'
  BY DEF Inv, Ledger
<1> USE DEF Remembered
<1>1. CASE Tool
  <2>1. UNCHANGED <<fatal, faults>>
    BY <1>1, ToolFrame
  <2>2. CASE AcceptFinish
    <3>1. /\ parent' = "finished" /\ reason' \in {"goal-reached", "blocked"}
      BY <2>2 DEF AcceptFinish
    <3> QED
      BY <2>1, <3>1 DEF Closed
  <2>3. CASE ~AcceptFinish
    <3>1. UNCHANGED <<parent, reason>>
      BY <1>1, <2>3 DEF Tool, Submit, SubmitReturns, CancelTask, StartAction, CountAction,
         AbandonAction, CountModel, ReserveProbe, ProbeClick, ReleaseProbe, DecideFinish,
         FinishFails, owner
    <3> QED
      BY <2>1, <3>1 DEF Closed
  <2> QED
    BY <2>2, <2>3
<1>2. CASE \E i \in Slots : Child(i)
  <2> PICK i \in Slots : Child(i)
    BY <1>2
  <2>1. UNCHANGED <<parent, reason>>
    BY ChildFrame
  <2>2. CASE EmitFails(i)
    <3>1. parent \notin Closed
      BY <2>2 DEF EmitFails, Drain
    <3>2. fatal' = TRUE /\ faults' = faults + 1 /\ faults \in Nat
      BY <2>2 DEF EmitFails, TypeOK
    <3> QED
      BY <2>1, <3>1, <3>2 DEF Closed
  <2>3. CASE ~EmitFails(i)
    <3>1. UNCHANGED <<fatal, faults>>
      BY <2>3 DEF Child, Fiber, EmitSubmitted, Admit, EmitAccepted, EmitStarted, Open, Handle,
         Validate, FiberThrows, Close, EmitTerminal, EmitProgress, Consume, ChildDeadline
    <3> QED
      BY <2>1, <3>1 DEF Closed
  <2> QED
    BY <2>2, <2>3
<1>3. CASE Parent
  <2>1. UNCHANGED <<fatal, faults>>
    BY <1>3, ParentFrame
  <2>2. CASE ParentAborts \/ Teardown
    BY <2>1, <2>2 DEF ParentAborts, Teardown, Closed, owner
  <2>3. CASE Drained
    BY <2>1, <2>3 DEF Drained, Closed
  <2>4. CASE Commit
    <3>1. ~fatal => Verified
      BY <2>4, CleanCommit DEF Commit
    <3> QED
      BY <2>1, <2>4, <3>1 DEF Commit, Closed
  <2> QED
    BY <1>3, <2>2, <2>3, <2>4 DEF Parent
<1>4. CASE UNCHANGED vars
  BY <1>4 DEF vars, owner, Closed
<1> QED
  BY <1>1, <1>2, <1>3, <1>4 DEF Next

-----------------------------------------------------------------------------
(* At the start nothing has happened. *)
LEMMA InitCommit == Init => CommitInv
<1> SUFFICES ASSUME Init PROVE CommitInv
  OBVIOUS
<1>1. AbortedCancelled /\ Published
  BY DEF Init, AbortedCancelled, Published, IsTerminal, Ended
<1>2. Drain /\ Remembered /\ Covered
  BY DEF Init, Drain, Remembered, Covered, Closed
<1>3. Histories
  BY DEF Init, Histories, Whole
<1> QED
  BY <1>1, <1>2, <1>3 DEF CommitInv

(* Together they are inductive. *)
LEMMA CommitInductive == CInv /\ [Next]_vars => CInv'
BY InvInductive, AbortedStep, PublishedStep, DrainStep, HistoriesStep, CoveredStep,
   RememberedStep DEF CInv, CommitInv, Inv

LEMMA CommitAlways == Spec => []CInv
<1>1. Init => CInv
  BY InitType, InitLedger, InitCommit DEF CInv, Inv
<1> QED
  BY <1>1, CommitInductive, PTL DEF Spec

(* THEOREM.  However late a result is, and whoever aborts a child while it *)
(* is handled, validated or closed: an aborted child never passes.         *)
THEOREM LateResultsFail == Spec => []AbortedNeverPasses
<1>1. CInv => AbortedNeverPasses
  BY DEF CInv, CommitInv, AbortedCancelled, AbortedNeverPasses, Occupied
<1> QED
  BY <1>1, CommitAlways, PTL

(* THEOREM.  Without a rejected append no timing of cancellations,         *)
(* deadlines and the parent's end makes the commit reject the history of   *)
(* the children.                                                           *)
THEOREM CleanHistoriesVerify == Spec => []CleanRunsVerify
<1>1. CInv => CleanRunsVerify
  BY DEF CInv, CommitInv, Remembered, CleanRunsVerify
<1> QED
  BY <1>1, CommitAlways, PTL

(* THEOREM.  A commit that verifies has lost no event, and behind a        *)
(* covered scope every child has a terminal event with a full result.      *)
THEOREM LostEventsAreFound == Spec => []LostEventsQuarantine
<1>1. CInv => LostEventsQuarantine
  <2> SUFFICES ASSUME CInv, parent = "verified"
               PROVE  /\ faults = 0
                      /\ reason = "goal-reached" => \A i \in Occupied : Recorded(i)
    BY DEF LostEventsQuarantine
  <2> USE DEF CInv, CommitInv
  <2>1. ~fatal /\ faults = 0
    BY DEF Remembered, Inv, TypeOK
  <2>2. ASSUME NEW i \in Occupied, reason = "goal-reached" PROVE Recorded(i)
    <3>1. i \in Slots /\ task[i] # NoTask
      BY DEF Occupied
    <3>2. Completed(i)
      BY <2>2, <3>1 DEF Covered
    <3>3. pc[i] = "done"
      BY <3>1 DEF Drain, Closed, Vacant, Inv, Ledger
    <3>4. Whole(i)
      BY <2>1, <3>1 DEF Histories
    <3> QED
      BY <3>2, <3>3, <3>4 DEF Whole, Recorded, Completed
  <2> QED
    BY <2>1, <2>2
<1> QED
  BY <1>1, CommitAlways, PTL

(* THEOREM.  From the drain on no child holds quota, appends an event or   *)
(* spends: what the commit verifies stands still.                          *)
THEOREM CommitStandsStill == Spec => SettledAtCommit
<1> DEFINE Still ==
      parent \in {"commit", "verified", "quarantined"} =>
        (\A k \in Kinds : held[k] = 0) /\ history' = history /\ used' = used
<1>1. CInv /\ [Next]_vars => Still
  <2> SUFFICES ASSUME CInv, [Next]_vars, parent \in Closed
               PROVE  (\A k \in Kinds : held[k] = 0) /\ history' = history /\ used' = used
    BY DEF Closed
  <2> USE DEF CInv, CommitInv
  <2>1. \A i \in Slots : pc[i] \in {"none", "done"}
    BY DEF Drain
  <2>2. \A k \in Kinds : held[k] = 0
    <3>1. \A i \in Slots, k \in Kinds : Slack(i, k) = 0
      BY <2>1 DEF Slack, Published, Inv, Ledger, Vacant
    <3> QED
      BY <3>1 DEF Inv, Ledger, LeasesHonoured, Slots
  <2>3. history' = history /\ used' = used
    <3>1. CASE Tool
      <4>1. ~\E i \in Slots, in \in Inputs : Submit(i, in)
        BY DEF Submit, ToolMayStart, Closed
      <4> QED
        BY <3>1, <4>1 DEF Tool, SubmitReturns, CancelTask, StartAction, CountAction,
           AbandonAction, CountModel, ReserveProbe, ProbeClick, ReleaseProbe, DecideFinish,
           AcceptFinish, FinishFails, leases
    <3>2. CASE \E i \in Slots : Child(i)
      BY <2>1, <3>2, Over DEF ChildDeadline, leases
    <3>3. CASE Parent \/ UNCHANGED vars
      BY <3>3, ParentFrame DEF vars, leases
    <3> QED
      BY <3>1, <3>2, <3>3 DEF Next
  <2> QED
    BY <2>2, <2>3
<1> QED
  BY <1>1, CommitAlways, PTL DEF Spec, SettledAtCommit
=============================================================================
