------------------------- MODULE ControlPlaneProofs -------------------------
(***************************************************************************)
(* Proofs about ControlPlane for any proposals, slots and clients.         *)
(*                                                                         *)
(* Three inductive invariants on top of the types: what an approval leaves *)
(* behind (Approvals), who is inside the admission chain (Chain), and what *)
(* the table and the registry know of each other (Table).                  *)
(***************************************************************************)
EXTENDS ControlPlane, TLAPS

(* Appending keeps the type and, of a sequence that has one, the head. *)
LEMMA AppendFacts ==
  ASSUME NEW S, NEW s \in Seq(S), NEW e \in S
  PROVE  /\ Append(s, e) \in Seq(S)
         /\ Append(s, e) # << >>
         /\ s # << >> => Head(Append(s, e)) = Head(s)
<1>1. /\ Append(s, e) \in Seq(S)
      /\ Len(Append(s, e)) = Len(s) + 1
  OBVIOUS
<1>2. s # << >> => Append(s, e)[1] = s[1]
  OBVIOUS
<1>3. Append(s, e) # << >>
  BY <1>1, Len(s) \in Nat, Len(<< >>) = 0
<1>4. \A q \in Seq(S) : q # << >> => Head(q) = q[1]
  OBVIOUS
<1> QED
  BY <1>1, <1>2, <1>3, <1>4

(* What remains behind the head is of the same type. *)
LEMMA TailFacts ==
  ASSUME NEW S, NEW s \in Seq(S), s # << >>
  PROVE  Tail(s) \in Seq(S)
OBVIOUS

Edits == [pc : Pcs, proposal : Proposals \cup {None}, ripe : BOOLEAN]

Named(e) == edit[e].pc # "idle" => edit[e].proposal \in Proposals

(* The types, with the proposal of a request that is not idle; only an     *)
(* enable ever comes to the registry.                                      *)
Typed ==
  /\ TypeOK
  /\ \A e \in Editors : Named(e) /\ (edit[e].pc = "register" => e \in Publishers)

(* The two ways a slot changes keep its type. *)
LEMMA SlotTyped ==
  ASSUME Typed, NEW e \in Editors
  PROVE  /\ Answer(e) =>
              /\ edit' \in [Editors -> Edits]
              /\ \A f \in Editors : Named(f)' /\ (edit'[f].pc = "register" => f \in Publishers)
         /\ \A pc \in Pcs : edit[e].pc # "idle" /\ Step(e, pc) /\ e \in Publishers =>
              /\ edit' \in [Editors -> Edits]
              /\ \A f \in Editors : Named(f)' /\ (edit'[f].pc = "register" => f \in Publishers)
<1>1. edit \in [Editors -> Edits]
  BY DEF Typed, TypeOK, Edits
<1>2. Idle \in Edits /\ Idle.pc = "idle"
  BY DEF Idle, Edits, Pcs
<1>3. \A pc \in Pcs : [edit[e] EXCEPT !.pc = pc] \in Edits
  BY <1>1 DEF Edits
<1> QED
  BY <1>1, <1>2, <1>3 DEF Typed, Answer, Step, Edits, Named

(* A row keeps its type when the parts a request writes are replaced. *)
LEMMA RowTyped ==
  ASSUME TypeOK, NEW p \in Proposals, NEW s \in Statuses, NEW o \in Outcomes
  PROVE  /\ [row EXCEPT ![p].status = s] \in [Proposals -> Rows]
         /\ [row EXCEPT ![p].status = s, ![p].results = o] \in [Proposals -> Rows]
         /\ [row EXCEPT ![p].status = s, ![p].reviewed = TRUE] \in [Proposals -> Rows]
<1>1. row \in [Proposals -> Rows] /\ row[p] \in Rows
  BY DEF TypeOK
<1>2. [row[p] EXCEPT !.status = s] \in Rows
  BY <1>1 DEF Rows
<1>3. [row[p] EXCEPT !.status = s, !.results = o] \in Rows
  BY <1>1 DEF Rows
<1>4. [row[p] EXCEPT !.status = s, !.reviewed = TRUE] \in Rows
  BY <1>1 DEF Rows
<1> QED
  BY <1>1, <1>2, <1>3, <1>4

-----------------------------------------------------------------------------
(* Types.                                                                  *)

LEMMA InitTyped == Init => Typed
<1> SUFFICES ASSUME Init PROVE Typed
  OBVIOUS
<1>1. Absent \in Rows
  BY DEF Absent, Rows, Statuses, Outcomes
<1>2. Idle \in Edits /\ Idle.pc = "idle"
  BY DEF Idle, Edits, Pcs
<1>3. << >> \in Seq(Entrants)
  OBVIOUS
<1> QED
  BY <1>1, <1>2, <1>3 DEF Init, Typed, TypeOK, Edits, Named

(* The steps of a request about a proposal. *)
LEMMA EditingTyped ==
  ASSUME Typed, NEW e \in Editors, Editing(e) PROVE Typed'
<1> USE DEF Typed, Unblocked, Named
<1>0. edit \in [Editors -> Edits] /\ edit[e] \in Edits
  BY DEF TypeOK, Edits
<1>1. ASSUME NEW p \in Proposals, Arrive(e, p) PROVE Typed'
  <2>1. [pc |-> "read", proposal |-> p, ripe |-> FALSE] \in Edits
    BY DEF Edits, Pcs
  <2> QED
    BY <1>0, <1>1, <2>1 DEF Arrive, TypeOK, Edits
<1>2. CASE ReadProposal(e)
  <2>1. edit[e].pc = "read" /\ edit[e].proposal \in Proposals
    BY <1>2 DEF ReadProposal, At
  <2>2. CASE Answer(e)
    BY <1>2, <2>2, SlotTyped DEF ReadProposal, TypeOK, Edits
  <2>3. ASSUME NEW b \in BOOLEAN,
               edit' = [edit EXCEPT ![e].pc = "write", ![e].ripe = b]
        PROVE  Typed'
    <3>1. [edit[e] EXCEPT !.pc = "write", !.ripe = b] \in Edits
      BY <1>0 DEF Edits, Pcs
    <3>2. edit' = [edit EXCEPT ![e] = [edit[e] EXCEPT !.pc = "write", !.ripe = b]]
      BY <2>3
    <3>3. [edit[e] EXCEPT !.pc = "write", !.ripe = b].proposal = edit[e].proposal
      BY <1>0 DEF Edits
    <3> QED
      BY <1>0, <1>2, <2>1, <3>1, <3>2, <3>3 DEF ReadProposal, TypeOK, Edits
  <2>4. (e \in Reviewers /\ Approvable(row[edit[e].proposal])) \in BOOLEAN
    BY DEF Approvable
  <2> QED
    BY <1>2, <2>2, <2>3, <2>4 DEF ReadProposal
<1>3. ASSUME NEW outcome \in {"passing", "failing"}, Validate(e, outcome) PROVE Typed'
  <2>1. edit[e].proposal \in Proposals /\ outcome \in Outcomes /\ "validating" \in Statuses
    BY <1>3 DEF Validate, At, Outcomes, Statuses
  <2>2. row' \in [Proposals -> Rows]
    BY <1>3, <2>1, RowTyped DEF Validate
  <2> QED
    BY <1>3, <2>2, SlotTyped DEF Validate, TypeOK, Edits
<1>4. ASSUME NEW status \in {"approved", "rejected"}, Decide(e, status),
             vetted' \in {vetted, vetted \cup {edit[e].proposal}}
      PROVE  Typed'
  <2>1. edit[e].proposal \in Proposals /\ status \in Statuses
    BY <1>4 DEF Decide, At, Statuses
  <2>2. row' \in [Proposals -> Rows]
    BY <1>4, <2>1, RowTyped, "none" \in Outcomes DEF Decide, Outcomes
  <2> QED
    BY <1>4, <2>1, <2>2, SlotTyped DEF Decide, TypeOK, Edits
<1>5. CASE Refuse(e)
  BY <1>5, SlotTyped DEF Refuse, TypeOK, Edits
<1>6. CASE Enable(e)
  <2>1. edit[e].proposal \in Proposals /\ edit[e].pc # "idle"
    BY <1>6 DEF Enable, At
  <2>2. row' \in [Proposals -> Rows]
    BY <1>6, <2>1, RowTyped, "enabled" \in Statuses, "none" \in Outcomes
    DEF Enable, Outcomes, Statuses
  <2> QED
    BY <1>6, <2>1, <2>2, SlotTyped, "register" \in Pcs DEF Enable, At, TypeOK, Edits, Pcs
<1>7. CASE Register(e)
  <2>1. edit[e].proposal \in Proposals
    BY <1>7 DEF Register, At
  <2> QED
    BY <1>7, <2>1, SlotTyped DEF Register, TypeOK, Edits
<1>8. CASE RegistrationFails(e)
  <2>1. edit[e].proposal \in Proposals
    BY <1>8 DEF RegistrationFails, At
  <2> QED
    BY <1>8, <2>1, SlotTyped DEF RegistrationFails, TypeOK, Edits
<1> QED
  BY <1>1, <1>2, <1>3, <1>4, <1>5, <1>6, <1>7, <1>8 DEF Editing, Approve, Reject

(* Only the head of the chain has begun its operation, and a client never  *)
(* stands where a controller does.                                         *)
Chain ==
  \A q \in Entrants :
    /\ entry[q] \in {"insert", "query", "grant"} => Inside(q)
    /\ entry[q] \in {"query", "grant"} => q \in Controllers
    /\ entry[q] \in {"body", "insert"} => q \in Clients

Base == Typed /\ Chain

LEMMA InitBase == Init => Base
BY InitTyped DEF Init, Base, Chain

(* The steps of the admission chain. *)
LEMMA EntryBase ==
  ASSUME Base, NEW q \in Entrants,
         \/ q \in Clients /\ (Submit(q) \/ InvalidBody(q))
         \/ Queue(q) \/ Admitted(q)
  PROVE  Base'
<1> USE DEF Base, Typed, Named, TypeOK, Untouched, On, Goto, Depart, Inside, Chain
<1>1. line # << >> => Tail(line) \in Seq(Entrants)
  BY TailFacts
<1>2. ASSUME q \in Clients /\ (Submit(q) \/ InvalidBody(q)) PROVE Base'
  BY <1>2 DEF Submit, InvalidBody
<1>3. CASE Queue(q)
  <2>1. /\ line' \in Seq(Entrants)
        /\ \A f \in Entrants : Inside(f) => Inside(f)'
    BY <1>3, AppendFacts DEF Queue, Join
  <2> QED
    BY <1>3, <2>1 DEF Queue
<1>4. CASE EnterRun(q)
  BY <1>1, <1>4 DEF EnterRun
<1>5. CASE EnterLease(q)
  BY <1>1, <1>5 DEF EnterLease
<1>6. CASE CountRuns(q)
  BY <1>1, <1>6 DEF CountRuns
<1>7. CASE Grant(q)
  BY <1>1, <1>7 DEF Grant
<1>8. ASSUME q \in Clients, NEW stored \in BOOLEAN, InsertRun(q, stored) PROVE Base'
  BY <1>1, <1>8 DEF InsertRun
<1> QED
  BY <1>2, <1>3, <1>4, <1>5, <1>6, <1>7, <1>8 DEF Admitted

(* Every step keeps the types and the chain. *)
LEMMA StepBase == Base /\ [Next]_vars => Base'
<1> SUFFICES ASSUME Base, [Next]_vars PROVE Base'
  OBVIOUS
<1>1. ASSUME NEW p \in Proposals, CreateProposal(p) PROVE Base'
  <2>1. row' \in [Proposals -> Rows]
    BY <1>1, RowTyped, "draft" \in Statuses, "none" \in Outcomes
    DEF CreateProposal, Base, Typed, Statuses, Outcomes
  <2> QED
    BY <1>1, <2>1 DEF CreateProposal, Unblocked, Base, Typed, Named, TypeOK, Chain, Inside
<1>2. ASSUME NEW e \in Editors, Editing(e) PROVE Base'
  <2>1. UNCHANGED <<line, entry>>
    BY <1>2 DEF Editing, Arrive, ReadProposal, Validate, Approve, Reject, Decide, Refuse,
                Enable, Register, RegistrationFails, Unblocked
  <2> QED
    BY <1>2, <2>1, EditingTyped DEF Base, Chain, Inside
<1>3. ASSUME NEW c \in Clients, Submit(c) \/ InvalidBody(c) PROVE Base'
  BY <1>3, EntryBase, c \in Entrants DEF Entrants
<1>4. ASSUME NEW q \in Entrants, Queue(q) \/ Admitted(q) PROVE Base'
  BY <1>4, EntryBase
<1>5. ASSUME NEW c \in Clients, NEW how \in {"none", "unknown"}, EndRun(c, how) PROVE Base'
  BY <1>5 DEF EndRun, Untouched, Base, Typed, Named, TypeOK, Chain, Inside
<1>6. CASE Release \/ Acknowledge
  BY <1>6 DEF Release, Acknowledge, Untouched, Base, Typed, Named, TypeOK, Chain, Inside
<1>7. CASE Crash
  <2>1. Idle \in Edits /\ Idle.pc = "idle"
    BY DEF Idle, Edits, Pcs
  <2>2. << >> \in Seq(Entrants)
    OBVIOUS
  <2> QED
    BY <1>7, <2>1, <2>2 DEF Crash, Base, Typed, Named, TypeOK, Edits, Chain
<1>8. CASE ReconcileInterrupted \/ LoadEnabled
  BY <1>8 DEF ReconcileInterrupted, LoadEnabled, Base, Typed, Named, TypeOK, Chain, Inside
<1>9. CASE UNCHANGED vars
  BY <1>9 DEF vars, Base, Typed, Named, TypeOK, Chain, Inside
<1> QED
  BY <1>1, <1>2, <1>3, <1>4, <1>5, <1>6, <1>7, <1>8, <1>9 DEF Next

LEMMA BaseInvariant == Spec => []Base
<1>1. Init => Base
  BY InitBase
<1>2. Base /\ [Next]_vars => Base'
  BY StepBase
<1> QED
  BY <1>1, <1>2, PTL DEF Spec

(* The state of the server always has its type: the table, the registry,   *)
(* the lease and the chain, for any number of slots and through crashes.   *)
THEOREM ControlTypes == Spec => []TypeOK
<1>1. Base => TypeOK
  BY DEF Base, Typed
<1> QED
  BY <1>1, BaseInvariant, PTL

-----------------------------------------------------------------------------
(* Approvals.                                                              *)

(* What an approval leaves behind: the status it wrote, the publishers     *)
(* that read it, and the rules they registered.                            *)
Approvals ==
  /\ \A p \in Proposals : row[p].status \in {"approved", "enabled"} => p \in vetted
  /\ \A e \in Publishers : edit[e].pc \in {"write", "register"} => edit[e].proposal \in vetted
  /\ registry \subseteq vetted

LEMMA InitApprovals == Init => Approvals
BY DEF Init, Approvals, Absent, Idle, Editors

(* No step of a request loses an approval or registers without one. *)
LEMMA EditingApprovals ==
  ASSUME Base, Approvals, NEW e \in Editors, Editing(e) PROVE Approvals'
<1> USE DEF Approvals
<1>0. /\ edit \in [Editors -> Edits] /\ row \in [Proposals -> Rows]
      /\ edit[e].pc # "idle" => edit[e].proposal \in Proposals
      /\ Publishers \subseteq Editors
      /\ \A p \in Proposals : row[p] \in Rows
      /\ \A f \in Editors : edit[f] \in Edits
  BY DEF Base, Typed, Named, TypeOK, Edits, Editors
<1>i. Idle.pc = "idle"
  BY DEF Idle
<1>1. ASSUME NEW p \in Proposals, Arrive(e, p) PROVE Approvals'
  BY <1>0, <1>1 DEF Arrive, Unblocked, Edits
<1>2. CASE ReadProposal(e)
  <2>1. UNCHANGED <<row, registry, vetted>> /\ edit[e].proposal \in Proposals
    BY <1>0, <1>2 DEF ReadProposal, At
  <2>2. CASE Answer(e)
    BY <1>0, <1>i, <2>1, <2>2 DEF Answer
  <2>3. ASSUME Fitting(e, row[edit[e].proposal]), NEW b,
               edit' = [edit EXCEPT ![e].pc = "write", ![e].ripe = b]
        PROVE  Approvals'
    <3>1. \A f \in Editors : f # e => edit'[f] = edit[f]
      BY <1>0, <2>3
    <3>2. edit'[e].proposal = edit[e].proposal
      BY <1>0, <2>3 DEF Edits
    <3>3. e \in Publishers => edit[e].proposal \in vetted
      BY <2>1, <2>3, ControlConstants DEF Fitting, ControlConstants
    <3> QED
      BY <1>0, <2>1, <3>1, <3>2, <3>3
  <2> QED
    BY <1>2, <2>2, <2>3 DEF ReadProposal
<1>3. ASSUME NEW outcome \in {"passing", "failing"}, Validate(e, outcome) PROVE Approvals'
  <2>1. \A p \in Proposals : row'[p].status \in {"approved", "enabled"} =>
                               row[p].status \in {"approved", "enabled"}
    BY <1>0, <1>3 DEF Validate, At, Rows
  <2> QED
    BY <1>0, <1>i, <1>3, <2>1 DEF Validate, Answer
<1>4. CASE Approve(e)
  <2>1. \A p \in Proposals : p # edit[e].proposal => row'[p] = row[p]
    BY <1>0, <1>4 DEF Approve, Decide
  <2>2. vetted' = vetted \cup {edit[e].proposal} /\ registry' = registry /\ Answer(e)
    BY <1>4 DEF Approve, Decide
  <2> QED
    BY <1>0, <1>i, <2>1, <2>2 DEF Answer
<1>5. CASE Reject(e)
  <2>1. \A p \in Proposals : row'[p].status \in {"approved", "enabled"} =>
                               row[p].status \in {"approved", "enabled"}
    BY <1>0, <1>5 DEF Reject, Decide, At, Rows
  <2> QED
    BY <1>0, <1>i, <1>5, <2>1 DEF Reject, Decide, Answer
<1>6. CASE Refuse(e)
  BY <1>0, <1>i, <1>6 DEF Refuse, Answer
<1>7. CASE Enable(e)
  <2>1. \A p \in Proposals : p # edit[e].proposal => row'[p] = row[p]
    BY <1>0, <1>7 DEF Enable
  <2>2. edit[e].proposal \in vetted /\ UNCHANGED <<vetted, registry>> /\ Step(e, "register")
    BY <1>0, <1>7 DEF Enable, At
  <2>3. \A f \in Publishers : edit'[f].proposal = edit[f].proposal /\ (f # e => edit'[f] = edit[f])
    BY <1>0, <2>2 DEF Step, Edits
  <2> QED
    BY <1>0, <2>1, <2>2, <2>3
<1>8. CASE Register(e)
  <2>1. edit[e].proposal \in vetted
    BY <1>8 DEF Register, At, Base, Typed
  <2> QED
    BY <1>0, <1>i, <1>8, <2>1 DEF Register, Answer
<1>9. CASE RegistrationFails(e)
  BY <1>0, <1>i, <1>9 DEF RegistrationFails, Answer
<1> QED
  BY <1>1, <1>2, <1>3, <1>4, <1>5, <1>6, <1>7, <1>8, <1>9 DEF Editing

(* A rule that executes was approved, for any number of proposals,         *)
(* reviewers, validators and publishers, in any order of their reads and   *)
(* writes, and through any number of crashes.                              *)
THEOREM OnlyApprovedRules == Spec => []RegisteredWasApproved
<1>1. Base /\ Approvals /\ [Next]_vars => Approvals'
  <2> SUFFICES ASSUME Base, Approvals, [Next]_vars PROVE Approvals'
    OBVIOUS
  <2>1. ASSUME NEW p \in Proposals, CreateProposal(p) PROVE Approvals'
    <3>1. \A o \in Proposals : row'[o].status \in {"approved", "enabled"} => row'[o] = row[o]
      BY <2>1 DEF CreateProposal, Base, Typed, TypeOK, Rows
    <3> QED
      BY <2>1, <3>1 DEF CreateProposal, Approvals
  <2>2. ASSUME NEW e \in Editors, Editing(e) PROVE Approvals'
    BY <2>2, EditingApprovals
  <2>3. ASSUME NEW c \in Clients, Submit(c) \/ InvalidBody(c) PROVE Approvals'
    BY <2>3 DEF Submit, InvalidBody, Untouched, Approvals
  <2>4. ASSUME NEW q \in Entrants, Queue(q) \/ Admitted(q) PROVE Approvals'
    BY <2>4 DEF Queue, Admitted, EnterRun, EnterLease, CountRuns, Grant, InsertRun,
                Untouched, Approvals
  <2>5. ASSUME NEW c \in Clients, NEW how \in {"none", "unknown"}, EndRun(c, how) PROVE Approvals'
    BY <2>5 DEF EndRun, Untouched, Approvals
  <2>6. CASE Release \/ Acknowledge
    BY <2>6 DEF Release, Acknowledge, Untouched, Approvals
  <2>7. CASE Crash
    BY <2>7 DEF Crash, Approvals, Idle, Editors
  <2>8. CASE ReconcileInterrupted \/ LoadEnabled
    BY <2>8 DEF ReconcileInterrupted, LoadEnabled, Approvals
  <2>9. CASE UNCHANGED vars
    BY <2>9 DEF vars, Approvals
  <2> QED
    BY <2>1, <2>2, <2>3, <2>4, <2>5, <2>6, <2>7, <2>8, <2>9 DEF Next
<1>2. Approvals => RegisteredWasApproved
  BY DEF Approvals, RegisteredWasApproved
<1> QED
  BY <1>1, <1>2, InitApprovals, BaseInvariant, PTL DEF Spec

-----------------------------------------------------------------------------
(* The evaluation lease.                                                   *)

(* What the controller saw stays so until it holds the lease, because it   *)
(* is inside the chain; an ordinary run that is being inserted was let in  *)
(* when there was no lease, and none is granted meanwhile.                 *)
Alone ==
  /\ LeaseExcludesOrdinary
  /\ \A q \in Entrants : entry[q] = "grant" => Clear
  /\ \A c \in Ordinary : entry[c] = "insert" => lease = None

(* The step of the admission chain that matters to the lease. *)
LEMMA AdmittedAlone ==
  ASSUME Base, Alone, NEW q \in Entrants, Admitted(q) PROVE Alone'
<1> USE DEF Alone, LeaseExcludesOrdinary, Ordinary, Entrants, On, Goto
<1>0. /\ entry \in [Entrants -> {"idle", "body", "queued", "insert", "query", "grant"}]
      /\ run \in [Clients -> {"none", "busy", "unknown"}]
      /\ \A f \in Entrants : /\ entry[f] \in {"insert", "query", "grant"} => Inside(f)
                             /\ entry[f] \in {"query", "grant"} => f \in Controllers
                             /\ entry[f] \in {"body", "insert"} => f \in Clients
  BY DEF Base, Typed, TypeOK, Chain
<1>1. \A f \in Entrants : Inside(f) /\ Inside(q) => f = q
  BY DEF Inside
<1>2. CASE EnterRun(q)
  BY <1>0, <1>2 DEF EnterRun, Untouched, MayCreate, Clear
<1>3. CASE EnterLease(q)
  BY <1>0, <1>3 DEF EnterLease, Untouched, Clear
<1>4. CASE CountRuns(q)
  BY <1>0, <1>4 DEF CountRuns, Untouched, Clear
<1>5. CASE Grant(q)
  <2>1. q \in Controllers /\ Clear /\ Inside(q)
    BY <1>0, <1>5 DEF Grant
  <2>2. \A c \in Ordinary : entry[c] # "insert"
    BY <1>0, <1>1, <2>1, ControlConstants DEF ControlConstants
  <2> QED
    BY <1>0, <1>5, <2>1, <2>2 DEF Grant, Untouched, Clear
<1>6. ASSUME q \in Clients, NEW stored \in BOOLEAN, InsertRun(q, stored) PROVE Alone'
  <2>1. \A f \in Entrants : entry[f] # "grant"
    BY <1>0, <1>1, <1>6 DEF InsertRun
  <2> QED
    BY <1>0, <1>6, <2>1 DEF InsertRun, Untouched
<1> QED
  BY <1>2, <1>3, <1>4, <1>5, <1>6 DEF Admitted

(* An evaluation runs alone, for any number of clients and controllers and *)
(* through any number of crashes.                                          *)
THEOREM LeaseIsExclusive == Spec => []LeaseExcludesOrdinary
<1>1. Init => Alone
  BY DEF Init, Alone, LeaseExcludesOrdinary, Ordinary, Entrants
<1>2. Base /\ Alone /\ [Next]_vars => Alone'
  <2> SUFFICES ASSUME Base, Alone, [Next]_vars PROVE Alone'
    OBVIOUS
  <2> USE DEF Alone, LeaseExcludesOrdinary, Ordinary, Clear
  <2>0. /\ entry \in [Entrants -> {"idle", "body", "queued", "insert", "query", "grant"}]
        /\ run \in [Clients -> {"none", "busy", "unknown"}]
        /\ Clients \subseteq Entrants
    BY DEF Base, Typed, TypeOK, Entrants
  <2>1. ASSUME NEW p \in Proposals, CreateProposal(p) PROVE Alone'
    BY <2>1 DEF CreateProposal, Unblocked
  <2>2. ASSUME NEW e \in Editors, Editing(e) PROVE Alone'
    BY <2>2 DEF Editing, Arrive, ReadProposal, Validate, Approve, Reject, Decide, Refuse,
                Enable, Register, RegistrationFails, Unblocked
  <2>3. ASSUME NEW c \in Clients, Submit(c) \/ InvalidBody(c) PROVE Alone'
    BY <2>0, <2>3 DEF Submit, InvalidBody, Untouched, Goto
  <2>4. ASSUME NEW q \in Entrants, Queue(q) PROVE Alone'
    BY <2>0, <2>4 DEF Queue, Untouched, Goto
  <2>5. ASSUME NEW q \in Entrants, Admitted(q) PROVE Alone'
    BY <2>5, AdmittedAlone
  <2>6. ASSUME NEW c \in Clients, NEW how \in {"none", "unknown"}, EndRun(c, how) PROVE Alone'
    <3>1. ~Clear /\ run[c] # "none"
      BY <2>6 DEF EndRun
    <3> QED
      BY <2>0, <2>6, <3>1 DEF EndRun, Untouched
  <2>7. CASE Release
    BY <2>7 DEF Release, Untouched
  <2>8. CASE Acknowledge
    BY <2>0, <2>8 DEF Acknowledge, Untouched
  <2>9. CASE Crash
    BY <2>0, <2>9 DEF Crash
  <2>10. CASE ReconcileInterrupted
    BY <2>0, <2>10 DEF ReconcileInterrupted
  <2>11. CASE LoadEnabled \/ UNCHANGED vars
    BY <2>11 DEF LoadEnabled, vars
  <2> QED
    BY <2>1, <2>2, <2>3, <2>4, <2>5, <2>6, <2>7, <2>8, <2>9, <2>10, <2>11 DEF Next
<1>3. Alone => LeaseExcludesOrdinary
  BY DEF Alone
<1> QED
  BY <1>1, <1>2, <1>3, BaseInvariant, PTL DEF Spec

-----------------------------------------------------------------------------
(* The table and the registry.                                             *)

Promised(p) == row[p].status = "enabled" /\ row[p].reviewed
Coming(p) == \E e \in Publishers : edit[e].pc = "register" /\ edit[e].proposal = p

(* A request whose slot is not about to register leaves the promise alone  *)
(* when it enables nothing.                                                *)
LEMMA TableKept ==
  ASSUME Base, EnabledIsRegistered, NEW e \in Editors, edit[e].pc # "register",
         \A f \in Editors : f # e => edit'[f] = edit[f],
         \A p \in Proposals : Promised(p)' => Promised(p),
         UNCHANGED <<boot, registry, lapsed>>
  PROVE  EnabledIsRegistered'
<1>1. \A p \in Proposals : Coming(p) => Coming(p)'
  BY DEF Coming, Editors
<1> QED
  BY <1>1 DEF EnabledIsRegistered, Promised, Coming, Up

LEMMA EditingTable ==
  ASSUME Base, EnabledIsRegistered, NEW e \in Editors, Editing(e) PROVE EnabledIsRegistered'
<1>0. /\ edit \in [Editors -> Edits] /\ row \in [Proposals -> Rows]
      /\ edit[e].pc # "idle" => edit[e].proposal \in Proposals
      /\ edit[e].pc = "register" => e \in Publishers
      /\ Publishers \subseteq Editors
      /\ \A p \in Proposals : row[p] \in Rows
      /\ \A f \in Editors : edit[f] \in Edits
  BY DEF Base, Typed, Named, TypeOK, Edits, Editors
<1>1. ASSUME NEW p \in Proposals, Arrive(e, p) PROVE EnabledIsRegistered'
  BY <1>0, <1>1, TableKept DEF Arrive, Unblocked, At, Promised
<1>2. CASE ReadProposal(e)
  <2>1. \A f \in Editors : f # e => edit'[f] = edit[f]
    BY <1>0, <1>2 DEF ReadProposal, Answer
  <2> QED
    BY <1>2, <2>1, TableKept DEF ReadProposal, Unblocked, At, Promised
<1>3. ASSUME NEW s \in Statuses \ {"enabled"}, NEW p \in Proposals,
             \A o \in Proposals : o # p => row'[o] = row[o], row'[p].status = s,
             At(e, "write"), Answer(e), UNCHANGED <<boot, registry, lapsed>>
      PROVE  EnabledIsRegistered'
  BY <1>0, <1>3, TableKept DEF At, Answer, Promised
<1>4. ASSUME NEW outcome \in {"passing", "failing"}, Validate(e, outcome)
      PROVE  EnabledIsRegistered'
  <2>1. edit[e].proposal \in Proposals
    BY <1>0, <1>4 DEF Validate, At
  <2>2. /\ row'[edit[e].proposal].status = "validating"
        /\ \A o \in Proposals : o # edit[e].proposal => row'[o] = row[o]
    BY <1>0, <1>4, <2>1 DEF Validate, Rows
  <2> QED
    BY <1>3, <1>4, <2>1, <2>2 DEF Validate, Unblocked, Statuses
<1>5. ASSUME NEW status \in {"approved", "rejected"}, Decide(e, status)
      PROVE  EnabledIsRegistered'
  <2>1. edit[e].proposal \in Proposals
    BY <1>0, <1>5 DEF Decide, At
  <2>2. /\ row'[edit[e].proposal].status = status
        /\ \A o \in Proposals : o # edit[e].proposal => row'[o] = row[o]
    BY <1>0, <1>5, <2>1 DEF Decide, Rows
  <2> QED
    BY <1>3, <1>5, <2>1, <2>2 DEF Decide, Unblocked, Statuses
<1>6. CASE Refuse(e)
  BY <1>0, <1>6, TableKept DEF Refuse, Unblocked, At, Promised, Answer
<1>7. CASE Enable(e)
  <2>1. edit[e].proposal \in Proposals /\ e \in Publishers
    BY <1>0, <1>7 DEF Enable, At
  <2>2. /\ edit'[e].pc = "register" /\ edit'[e].proposal = edit[e].proposal
        /\ \A f \in Editors : f # e => edit'[f] = edit[f]
    BY <1>0, <1>7 DEF Enable, Step, Edits
  <2>3. Coming(edit[e].proposal)' /\ \A p \in Proposals : Coming(p) => Coming(p)'
    BY <1>0, <1>7, <2>1, <2>2 DEF Coming, Enable, At
  <2>4. \A o \in Proposals : o # edit[e].proposal => row'[o] = row[o]
    BY <1>0, <1>7 DEF Enable
  <2>5. ASSUME Up, NEW o \in Proposals, row'[o].status = "enabled", row'[o].reviewed,
               o \notin registry \cup lapsed
        PROVE  Coming(o)'
    <3>1. CASE o = edit[e].proposal
      BY <3>1, <2>2, <2>3
    <3>2. CASE o # edit[e].proposal
      <4>1. row'[o] = row[o]
        BY <2>4, <3>2
      <4>2. Coming(o)
        BY <2>5, <4>1 DEF EnabledIsRegistered, Coming
      <4> QED
        BY <2>3, <4>2
    <3> QED
      BY <3>1, <3>2
  <2> QED
    BY <1>7, <2>5 DEF Enable, Unblocked, EnabledIsRegistered, Coming, Up
<1>8. CASE Register(e) \/ RegistrationFails(e)
  <2>1. /\ UNCHANGED <<row, boot>> /\ edit[e].proposal \in (registry \cup lapsed)'
        /\ registry \cup lapsed \subseteq (registry \cup lapsed)'
    BY <1>8 DEF Register, RegistrationFails, Unblocked
  <2>2. \A f \in Editors : f # e => edit'[f] = edit[f]
    BY <1>0, <1>8 DEF Register, RegistrationFails, Answer
  <2>3. \A p \in Proposals : Coming(p) => Coming(p)' \/ p = edit[e].proposal
    BY <1>0, <2>2 DEF Coming
  <2> QED
    BY <2>1, <2>3 DEF EnabledIsRegistered, Coming, Up
<1> QED
  BY <1>1, <1>2, <1>4, <1>5, <1>6, <1>7, <1>8 DEF Editing, Approve, Reject

(* The registry is what the table promises, except for an enable in flight *)
(* or one whose answer was lost after its UPDATE.                          *)
THEOREM RegistryFollowsTable == Spec => []EnabledIsRegistered
<1>1. Init => EnabledIsRegistered
  BY DEF Init, EnabledIsRegistered, Absent
<1>2. Base /\ EnabledIsRegistered /\ [Next]_vars => EnabledIsRegistered'
  <2> SUFFICES ASSUME Base, EnabledIsRegistered, [Next]_vars PROVE EnabledIsRegistered'
    OBVIOUS
  <2>1. ASSUME NEW p \in Proposals, CreateProposal(p) PROVE EnabledIsRegistered'
    <3>1. \A o \in Proposals : row'[o].status = "enabled" => row'[o] = row[o]
      BY <2>1 DEF CreateProposal, Base, Typed, TypeOK, Rows
    <3> QED
      BY <2>1, <3>1 DEF CreateProposal, Unblocked, EnabledIsRegistered, Up
  <2>2. ASSUME NEW e \in Editors, Editing(e) PROVE EnabledIsRegistered'
    BY <2>2, EditingTable
  <2>3. ASSUME NEW c \in Clients, Submit(c) \/ InvalidBody(c) PROVE EnabledIsRegistered'
    BY <2>3 DEF Submit, InvalidBody, Untouched, EnabledIsRegistered, Up
  <2>4. ASSUME NEW q \in Entrants, Queue(q) \/ Admitted(q) PROVE EnabledIsRegistered'
    BY <2>4 DEF Queue, Admitted, EnterRun, EnterLease, CountRuns, Grant, InsertRun,
                Untouched, EnabledIsRegistered, Up
  <2>5. ASSUME NEW c \in Clients, NEW how \in {"none", "unknown"}, EndRun(c, how)
        PROVE  EnabledIsRegistered'
    BY <2>5 DEF EndRun, Untouched, EnabledIsRegistered, Up
  <2>6. CASE Release \/ Acknowledge
    BY <2>6 DEF Release, Acknowledge, Untouched, EnabledIsRegistered, Up
  <2>7. CASE Crash \/ ReconcileInterrupted
    BY <2>7 DEF Crash, ReconcileInterrupted, EnabledIsRegistered, Up
  <2>9. CASE LoadEnabled
    BY <2>9 DEF LoadEnabled, EnabledIsRegistered
  <2>8. CASE UNCHANGED vars
    BY <2>8 DEF vars, EnabledIsRegistered, Up
  <2> QED
    BY <2>1, <2>2, <2>3, <2>4, <2>5, <2>6, <2>7, <2>8, <2>9 DEF Next
<1> QED
  BY <1>1, <1>2, BaseInvariant, PTL DEF Spec
=============================================================================
