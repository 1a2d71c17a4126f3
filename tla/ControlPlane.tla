---------------------------- MODULE ControlPlane ----------------------------
(***************************************************************************)
(* What the HTTP server shares between its requests besides one run: rule  *)
(* proposals and the rule registry (rules/proposal.ts, rules/engine.ts),   *)
(* the evaluation lease and the admission chain (server/                   *)
(* evaluation-access.ts), the admission of runs (server/routes/runs.ts),   *)
(* the freeze of the rule configuration (server/routes/proposals.ts), and  *)
(* the order of the boot (server/index.ts).                                *)
(*                                                                         *)
(* One step is what happens between two awaits.  A request is a slot that  *)
(* is used again after it was answered.  What a run does after its         *)
(* admission is in RunLifecycle: here a run is busy, of unknown outcome,   *)
(* or absent.                                                              *)
(***************************************************************************)
EXTENDS Naturals, Sequences, FiniteSets

CONSTANTS
  Proposals,     (* rule proposals, each with the one configuration it has *)
  Validators,    (* slots of POST .../validate                             *)
  Reviewers,     (* slots of POST .../review                               *)
  Publishers,    (* slots of POST .../enable                               *)
  Clients,       (* slots of POST /api/runs                                *)
  Trusted,       (* the clients that hold the control token                *)
  Controllers,   (* slots of POST /api/evaluation/lease                    *)
  None           (* the lease, or a proposal, that is not there            *)

Editors == Validators \cup Reviewers \cup Publishers
Entrants == Clients \cup Controllers
Ordinary == Clients \ Trusted

ASSUME ControlConstants ==
  /\ Trusted \subseteq Clients
  /\ Clients \cap Controllers = {}
  /\ Validators \cap Reviewers = {} /\ Publishers \cap (Validators \cup Reviewers) = {}
  /\ None \notin Controllers \cup Proposals

VARIABLES
  (* durable *)
  row,        (* rule_proposals: [status, results, reviewed]               *)
  run,        (* the runs row a client's request created                   *)
  (* memory of the process *)
  boot,       (* "up" while serving                                        *)
  registry,   (* the proposals whose rule is registered                    *)
  lease,      (* the controller that holds the evaluation lease            *)
  line,       (* admissionTail: FIFO, the operation of its head is running *)
  edit,       (* per editor: [pc, proposal, ripe]: ripe, when the row  *)
              (* it read may be approved                               *)
  entry,      (* per entrant: where its request stands                     *)
  (* history *)
  vetted,     (* approved by a reviewer who had read passing fixtures      *)
  lapsed      (* written enabled since boot, the registration failed       *)

durable == <<row, run>>
vars == <<row, run, boot, registry, lease, line, edit, entry, vetted, lapsed>>

-----------------------------------------------------------------------------
Statuses == {"absent", "draft", "validating", "approved", "rejected", "enabled"}
Outcomes == {"none", "passing", "failing"}
Rows == [status : Statuses, results : Outcomes, reviewed : BOOLEAN]
Absent == [status |-> "absent", results |-> "none", reviewed |-> FALSE]
Idle == [pc |-> "idle", proposal |-> None, ripe |-> FALSE]

Up == boot = "up"
At(e, pc) == Up /\ edit[e].pc = pc
Step(e, pc) == edit' = [edit EXCEPT ![e].pc = pc]
Answer(e) == edit' = [edit EXCEPT ![e] = Idle]

Unblocked == <<run, boot, lease, line, entry>>

Init ==
  /\ row = [p \in Proposals |-> Absent]
  /\ run = [c \in Clients |-> "none"]
  /\ boot = "up" /\ registry = {} /\ lease = None /\ line = << >>
  /\ edit = [e \in Editors |-> Idle]
  /\ entry = [q \in Entrants |-> "idle"]
  /\ vetted = {} /\ lapsed = {}

-----------------------------------------------------------------------------
(* Rule proposals.                                                         *)

(* The finding was confirmed and its evidence is unmodified: a draft.      *)
CreateProposal(p) ==
  /\ Up /\ lease = None
  /\ row[p].status = "absent"
  /\ row' = [row EXCEPT ![p].status = "draft"]
  /\ UNCHANGED <<Unblocked, registry, edit, vetted, lapsed>>

(* The middleware of the routes: no change of a proposal starts under a    *)
(* lease.  The handler then reads its body and asks for the row.           *)
Arrive(e, p) ==
  /\ At(e, "idle")
  /\ lease = None
  /\ edit' = [edit EXCEPT ![e] = [pc |-> "read", proposal |-> p, ripe |-> FALSE]]
  /\ UNCHANGED <<Unblocked, row, registry, vetted, lapsed>>

(* Mutant: any reviewed proposal may be enabled. *)
FittingReviewed(e, seen) ==
  \/ e \in Validators /\ seen.status \in {"draft", "validating"}
  \/ e \in Reviewers /\ seen.status \notin {"absent", "enabled"}
  \/ e \in Publishers /\ seen.reviewed

Fitting(e, seen) ==
  \/ e \in Validators /\ seen.status \in {"draft", "validating"}
  \/ e \in Reviewers /\ seen.status \notin {"absent", "enabled"}
  \/ e \in Publishers /\ seen.status = "approved" /\ seen.reviewed

Approvable(seen) == seen.status = "validating" /\ seen.results = "passing"

(* getProposal: the row as it is now.  What follows works on this copy; of *)
(* it only whether a reviewer may approve it is read later.                *)
ReadProposal(e) ==
  /\ At(e, "read")
  /\ LET seen == row[edit[e].proposal] IN
       IF Fitting(e, seen)
       THEN edit' = [edit EXCEPT ![e].pc = "write",
                                 ![e].ripe = e \in Reviewers /\ Approvable(seen)]
       ELSE Answer(e)
  /\ UNCHANGED <<Unblocked, row, registry, vetted, lapsed>>

(* validateProposal: the fixtures of the caller decide, then one UPDATE.   *)
Validate(e, outcome) ==
  /\ At(e, "write") /\ e \in Validators
  /\ row' = [row EXCEPT ![edit[e].proposal].status = "validating",
                        ![edit[e].proposal].results = outcome]
  /\ Answer(e)
  /\ UNCHANGED <<Unblocked, registry, vetted, lapsed>>

(* Mutant: the action asked for is stored in place of the status. *)
DecideAsAsked(e, status) ==
  /\ At(e, "write") /\ e \in Reviewers
  /\ row' = [row EXCEPT ![edit[e].proposal].status =
                          IF status = "approved" THEN "approve" ELSE "reject",
                        ![edit[e].proposal].reviewed = TRUE]
  /\ Answer(e)
  /\ UNCHANGED <<Unblocked, registry, lapsed>>

Decide(e, status) ==
  /\ At(e, "write") /\ e \in Reviewers
  /\ row' = [row EXCEPT ![edit[e].proposal].status = status,
                        ![edit[e].proposal].reviewed = TRUE]
  /\ Answer(e)
  /\ UNCHANGED <<Unblocked, registry, lapsed>>

(* reviewProposal: what is approved is the row that was read.              *)
Approve(e) ==
  /\ edit[e].ripe
  /\ Decide(e, "approved")
  /\ vetted' = vetted \cup {edit[e].proposal}

Reject(e) == Decide(e, "rejected") /\ UNCHANGED vetted

(* An approval of fixtures that do not pass, and any UPDATE that fails.    *)
Refuse(e) ==
  /\ At(e, "write")
  /\ Answer(e)
  /\ UNCHANGED <<Unblocked, row, registry, vetted, lapsed>>

(* enableProposal: the UPDATE, its answer read back, then the registry.    *)
Enable(e) ==
  /\ At(e, "write") /\ e \in Publishers
  /\ row' = [row EXCEPT ![edit[e].proposal].status = "enabled"]
  /\ Step(e, "register")
  /\ UNCHANGED <<Unblocked, registry, vetted, lapsed>>

Register(e) ==
  /\ At(e, "register")
  /\ registry' = registry \cup {edit[e].proposal}
  /\ lapsed' = lapsed \ {edit[e].proposal}
  /\ Answer(e)
  /\ UNCHANGED <<Unblocked, row, vetted>>

(* The read after the UPDATE throws: nothing registers the rule.           *)
RegistrationFails(e) ==
  /\ At(e, "register")
  /\ lapsed' = lapsed \cup {edit[e].proposal}
  /\ Answer(e)
  /\ UNCHANGED <<Unblocked, row, registry, vetted>>

-----------------------------------------------------------------------------
(* Runs and the evaluation lease.                                          *)

On(q, pc) == Up /\ entry[q] = pc
Goto(q, pc) == entry' = [entry EXCEPT ![q] = pc]
Join(q) == line' = Append(line, q)
Inside(q) == line # << >> /\ Head(line) = q
Depart == line' = Tail(line)
(* Mutant: the admitted operation trusts the check made on arrival. *)
MayCreateUnchecked(c) == lease = None \/ c \in Trusted \/ Inside(c)

MayCreate(c) == lease = None \/ c \in Trusted

Untouched == <<row, boot, registry, edit, vetted, lapsed>>

(* POST /api/runs: refused at once under a lease, else the body is read.   *)
Submit(c) ==
  /\ On(c, "idle") /\ run[c] = "none"
  /\ MayCreate(c)
  /\ Goto(c, "body")
  /\ UNCHANGED <<Untouched, run, lease, line>>

InvalidBody(c) ==
  /\ On(c, "body") /\ c \in Clients
  /\ Goto(c, "idle")
  /\ UNCHANGED <<Untouched, run, lease, line>>

(* withAdmission: behind whatever was asked before.                        *)
Queue(q) ==
  /\ IF q \in Clients THEN On(q, "body") ELSE On(q, "idle")
  /\ Join(q)
  /\ Goto(q, "queued")
  /\ UNCHANGED <<Untouched, run, lease>>

(* The admitted operation starts: the lease is looked at again.            *)
EnterRun(c) ==
  /\ c \in Clients /\ On(c, "queued") /\ Inside(c)
  /\ IF MayCreate(c)
     THEN Goto(c, "insert") /\ UNCHANGED line
     ELSE Goto(c, "idle") /\ Depart
  /\ UNCHANGED <<Untouched, run, lease>>

(* Mutant: an operation that fails keeps its place in the chain. *)
InsertRunStuck(c, stored) ==
  /\ On(c, "insert")
  /\ run' = IF stored THEN [run EXCEPT ![c] = "busy"] ELSE run
  /\ Goto(c, "idle") /\ IF stored THEN Depart ELSE UNCHANGED line
  /\ UNCHANGED <<Untouched, lease>>

(* createRun's INSERT; a storage fault rejects the operation alone.        *)
InsertRun(c, stored) ==
  /\ On(c, "insert")
  /\ run' = IF stored THEN [run EXCEPT ![c] = "busy"] ELSE run
  /\ Goto(c, "idle") /\ Depart
  /\ UNCHANGED <<Untouched, lease>>

EnterLease(q) ==
  /\ q \in Controllers /\ On(q, "queued") /\ Inside(q)
  /\ IF lease = None
     THEN Goto(q, "query") /\ UNCHANGED line
     ELSE Goto(q, "idle") /\ Depart
  /\ UNCHANGED <<Untouched, run, lease>>

Clear == \A c \in Clients : run[c] = "none"

(* SELECT of the runs that are queued, running or to be reconciled.        *)
CountRuns(q) ==
  /\ On(q, "query")
  /\ \/ Clear /\ Goto(q, "grant") /\ UNCHANGED line
     \/ Goto(q, "idle") /\ Depart  (* rows were found, or the query failed *)
  /\ UNCHANGED <<Untouched, run, lease>>

Grant(q) ==
  /\ On(q, "grant")
  /\ lease' = q
  /\ Goto(q, "idle") /\ Depart
  /\ UNCHANGED <<Untouched, run>>

(* POST /api/evaluation/release with the id of the lease that is held, not *)
(* behind the admission chain.  Any other id is answered 409.              *)
Release ==
  /\ Up /\ lease # None
  /\ lease' = None
  /\ UNCHANGED <<Untouched, run, line, entry>>

(* The run commits, or is interrupted with an outcome nobody knows.        *)
EndRun(c, how) ==
  /\ Up /\ run[c] = "busy"
  /\ run' = [run EXCEPT ![c] = how]
  /\ UNCHANGED <<Untouched, lease, line, entry>>

(* acknowledgeReconciliation: no run may be queued or executing.           *)
Acknowledge ==
  /\ Up /\ \A c \in Clients : run[c] # "busy"
  /\ run' = [c \in Clients |-> "none"]
  /\ UNCHANGED <<Untouched, lease, line, entry>>

-----------------------------------------------------------------------------
(* Crash, and the boot: runs are interrupted before anything is served.    *)

Crash ==
  /\ Up
  /\ boot' = "down"
  /\ registry' = {} /\ lease' = None /\ line' = << >>
  /\ edit' = [e \in Editors |-> Idle]
  /\ entry' = [q \in Entrants |-> "idle"]
  /\ lapsed' = {}
  /\ UNCHANGED <<row, run, vetted>>

ReconcileInterrupted ==
  /\ boot = "down"
  /\ run' = [c \in Clients |-> IF run[c] = "busy" THEN "unknown" ELSE run[c]]
  /\ boot' = "reconciled"
  /\ UNCHANGED <<row, registry, lease, line, edit, entry, vetted, lapsed>>

(* Mutant: the registry is filled by enableProposal only. *)
LoadNothing ==
  /\ boot = "reconciled"
  /\ boot' = "up"
  /\ UNCHANGED <<row, run, registry, lease, line, edit, entry, vetted, lapsed>>

LoadEnabled ==
  /\ boot = "reconciled"
  /\ registry' = {p \in Proposals : row[p].status = "enabled" /\ row[p].reviewed}
  /\ boot' = "up"
  /\ UNCHANGED <<row, run, lease, line, edit, entry, vetted, lapsed>>

-----------------------------------------------------------------------------
Editing(e) ==
  \/ \E p \in Proposals : Arrive(e, p)
  \/ ReadProposal(e)
  \/ \E outcome \in {"passing", "failing"} : Validate(e, outcome)
  \/ Approve(e) \/ Reject(e) \/ Refuse(e)
  \/ Enable(e) \/ Register(e) \/ RegistrationFails(e)

(* The steps of a request once it is in the admission chain.               *)
Admitted(q) ==
  \/ EnterRun(q) \/ EnterLease(q) \/ CountRuns(q) \/ Grant(q)
  \/ q \in Clients /\ \E stored \in BOOLEAN : InsertRun(q, stored)

Next ==
  \/ \E p \in Proposals : CreateProposal(p)
  \/ \E e \in Editors : Editing(e)
  \/ \E c \in Clients : Submit(c) \/ InvalidBody(c)
  \/ \E q \in Entrants : Queue(q) \/ Admitted(q)
  \/ \E c \in Clients, how \in {"none", "unknown"} : EndRun(c, how)
  \/ Release \/ Acknowledge
  \/ Crash \/ ReconcileInterrupted \/ LoadEnabled

Spec == Init /\ [][Next]_vars

(* An operation the process has begun runs on: the database answers, with  *)
(* a result or an error.  A boot that began ends.  No client has to ask    *)
(* anything and no run has to end.                                         *)
FairSpec ==
  /\ Spec
  /\ \A q \in Entrants : WF_vars(Admitted(q))
  /\ WF_vars(ReconcileInterrupted) /\ WF_vars(LoadEnabled)

-----------------------------------------------------------------------------
Pcs == {"idle", "read", "write", "register"}

(* Every variable holds a value of its type.                               *)
TypeOK ==
  /\ row \in [Proposals -> Rows]
  /\ run \in [Clients -> {"none", "busy", "unknown"}]
  /\ boot \in {"down", "reconciled", "up"}
  /\ registry \subseteq Proposals /\ vetted \subseteq Proposals /\ lapsed \subseteq Proposals
  /\ lease \in Controllers \cup {None}
  /\ line \in Seq(Entrants)
  /\ edit \in [Editors -> [pc : Pcs, proposal : Proposals \cup {None}, ripe : BOOLEAN]]
  /\ entry \in [Entrants -> {"idle", "body", "queued", "insert", "query", "grant"}]

(* Rules that execute were approved: whatever the order in which           *)
(* validations, reviews and enables of a proposal read and write its row,  *)
(* and through a crash and the load at boot, a registered rule comes from  *)
(* a proposal that some reviewer approved on passing fixtures.             *)
RegisteredWasApproved == registry \subseteq vetted

(* The registry is what the table promises: an enabled and reviewed row is *)
(* registered unless its enable is still in flight or failed after its     *)
(* UPDATE since the last boot.                                             *)
EnabledIsRegistered ==
  Up => \A p \in Proposals :
    row[p].status = "enabled" /\ row[p].reviewed =>
      \/ p \in registry \cup lapsed
      \/ \E e \in Publishers : edit[e].pc = "register" /\ edit[e].proposal = p

(* An evaluation runs alone: while a lease is held no run of an untrusted  *)
(* client is queued, executing or of unknown outcome, though requests pass *)
(* their first check before the lease is granted and the release does not  *)
(* wait for the admission chain.                                           *)
LeaseExcludesOrdinary ==
  lease # None => \A c \in Ordinary : run[c] = "none"

(* Every request behind the admission chain gets an answer: a failed or a  *)
(* refused operation lets the next one in.                                 *)
AdmissionServes ==
  \A q \in Entrants : entry[q] = "queued" ~> entry[q] = "idle"
=============================================================================
