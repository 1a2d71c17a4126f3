------------------------------- MODULE UiFinish -------------------------------
(***************************************************************************)
(* How a UI scan ends (uiCompletionDecision and finishUiScan in            *)
(* execution/executor.ts, decideInspectionCompletion, inspectHistory).     *)
(*                                                                         *)
(* The agent names a claim; the ledger, the integrity epoch and the log    *)
(* decide it.  An admissible claim seals the network session, waits for    *)
(* what is in flight, and is decided again.  The page, the sessions of the *)
(* delegated checks and the tail keep running through every await of it;   *)
(* the tools do not: tools and finish are serialized.                      *)
(***************************************************************************)
EXTENDS NetworkBoundary

CONSTANTS
  GapItems,      (* items the agent records as its own gaps                 *)
  MaxLedger      (* bound: the length of the ledger to which tools add      *)

ASSUME FinishConstants ==
  /\ GapItems \subseteq Extras /\ GapItems \cap (Documents \cup Popups) = {}
  /\ MaxLedger \in Nat

VARIABLES
  pc,          (* where the serialized tools or the finish stand            *)
  finish,      (* the call under way: its reason, the epoch it has read,    *)
               (* the scope in the proof of its decision                    *)
  aborted,     (* the run's signal                                          *)
  closing,     (* the network:sealed event: what it counts, the facts then  *)
  accepted     (* the finish:accepted event, and the log's scope before it  *)

finishVars == <<pc, finish, aborted, closing, accepted>>
vars == <<ledgerVars, boundaryVars, finishVars>>

Claims == {"scope-covered", "unverified-scope", "observed-blocker"}
NoFinish == [claim |-> "none", epoch |-> 0, proof |-> Nothing]
None == [claim |-> "none"]
Outside == UNCHANGED <<ledgerVars, boundaryVars>>

Init ==
  /\ InitLedger /\ InitBoundary
  /\ pc = "idle" /\ finish = NoFinish /\ aborted = FALSE
  /\ closing = None /\ accepted = None

Goes(to) == pc' = to

(* An error of the finish: the agent is told and may go on, or the run ends. *)
Throws == pc' \in {"idle", "stopped"} /\ (aborted => pc' = "stopped") /\ finish' = NoFinish
Continues(to) == Goes(to) /\ UNCHANGED finish

-----------------------------------------------------------------------------
(* The tools: the ledger changes, and what is new is written.              *)

Tool(events) ==
  /\ pc = "idle" /\ ~aborted /\ Len(recorded) + Len(events) <= MaxLedger
  /\ RecordAndPersist("tool", events)
  /\ Goes("tool")
  /\ UNCHANGED <<boundaryVars, finish, aborted, closing, accepted>>

SelectCheck(c) == ~Scope[c].selected /\ Tool(<<Select(c)>>)

MeasureCheck(c, status) ==
  /\ Scope[c].selected
  /\ \/ Scope[c].status = "pending"
     \/ Scope[c].status = "unverified" /\ status = "verified"
  /\ Tool(<<Resolve(c, status)>>)

RecordGap(g) == Scope[g] = Absent /\ Tool(<<Create(g, TRUE), Resolve(g, "unverified")>>)

ToolPersists ==
  /\ pc = "tool"
  /\ PersistEvent("tool")
  /\ UNCHANGED <<boundaryVars, finishVars>>

ToolFails ==
  /\ pc = "tool"
  /\ PersistFails("tool")
  /\ Throws
  /\ UNCHANGED <<boundaryVars, aborted, closing, accepted>>

ToolReturns ==
  /\ pc = "tool" /\ ~Writing("tool")
  /\ Goes("idle")
  /\ Outside /\ UNCHANGED <<finish, aborted, closing, accepted>>

(* A cancel request, a timeout or the parent aborts the run: its session   *)
(* stops with it.  Followed while a finish is under way; an abort outside  *)
(* it ends the run with none.                                              *)
Abort ==
  /\ ~aborted /\ pc \notin {"idle", "tool", "done", "stopped"}
  /\ aborted' = TRUE
  /\ stopped' = TRUE
  /\ UNCHANGED <<ledgerVars, chainVars, at, spent, sealed, connected>>
  /\ UNCHANGED <<pc, finish, closing, accepted>>

-----------------------------------------------------------------------------
(* The finish.                                                             *)

(* The agent asks to finish; its reason is first read by the decision.     *)
Begin ==
  /\ pc = "idle" /\ ~aborted
  /\ Goes("flush")
  /\ Outside /\ UNCHANGED <<finish, aborted, closing, accepted>>

(* flush(): waits for the tail, whatever was added meanwhile included, and *)
(* throws what it latched; then the guard.                                 *)
Flush ==
  /\ pc = "flush" /\ tail = << >>
  /\ IF latched # {} \/ aborted THEN Throws ELSE Continues("facts")
  /\ Outside /\ UNCHANGED <<aborted, closing, accepted>>

(* The epoch is read where the facts are gathered, before the awaits on    *)
(* the rules and the log; the ledger is read after them.                   *)
GatherFacts ==
  /\ pc \in {"facts", "facts-again"}
  /\ finish' = [finish EXCEPT !.epoch = epoch]
  /\ Goes(IF pc = "facts" THEN "decide" ELSE "decide-again")
  /\ Outside /\ UNCHANGED <<aborted, closing, accepted>>

Admissible(reason) ==
  \/ reason = "scope-covered" /\ finish.epoch = 0 /\ ~Gaps(Scope)
  \/ reason = "unverified-scope" /\ (finish.epoch > 0 \/ Partial(Scope))
  \/ reason = "observed-blocker" /\ facts["denied"] > 0

(* Refused: finish:rejected is written and the agent goes on.              *)
Reject(reason) ==
  /\ pc = "decide" /\ ~Admissible(reason)
  /\ Goes("idle") /\ finish' = NoFinish
  /\ Outside /\ UNCHANGED <<aborted, closing, accepted>>

(* Mutant: the session is closed and nothing in flight is aborted. *)
SealSoftly(reason) ==
  /\ pc = "decide" /\ Admissible(reason)
  /\ finish' = [finish EXCEPT !.claim = reason, !.proof = Scope]
  /\ sealed' = TRUE
  /\ Goes("settle")
  /\ UNCHANGED <<ledgerVars, chainVars, at, spent, connected, stopped>>
  /\ UNCHANGED <<aborted, closing, accepted>>

(* Admissible: seal() closes the session and aborts what is in flight.     *)
Seal(reason) ==
  /\ pc = "decide" /\ Admissible(reason)
  /\ finish' = [finish EXCEPT !.claim = reason, !.proof = Scope]
  /\ sealed' = TRUE /\ stopped' = TRUE
  /\ Goes("settle")
  /\ UNCHANGED <<ledgerVars, chainVars, at, spent, connected>>
  /\ UNCHANGED <<aborted, closing, accepted>>

(* session.settle(): every admitted request has come to its end.           *)
Settle ==
  /\ pc = "settle" /\ Pending = {}
  /\ Goes("flush-again")
  /\ Outside /\ UNCHANGED <<finish, aborted, closing, accepted>>

NetworkFacts == [facts |-> facts, epoch |-> epoch]

(* Mutants: the tail is not waited for; what it latched is not looked at.  *)
WriteSealEarly ==
  /\ pc = "flush-again"
  /\ \/ latched # {} /\ Throws /\ UNCHANGED closing
     \/ /\ latched = {}
        /\ closing' = [shutdowns |-> abandoned, then |-> NetworkFacts]
        /\ IF aborted THEN Throws ELSE Continues("facts-again")
  /\ Outside /\ UNCHANGED <<aborted, accepted>>
WriteSealDeaf ==
  /\ pc = "flush-again" /\ tail = << >>
  /\ closing' = [shutdowns |-> abandoned, then |-> NetworkFacts]
  /\ IF aborted THEN Throws ELSE Continues("facts-again")
  /\ Outside /\ UNCHANGED <<aborted, accepted>>

(* flush() again, then network:sealed with the shutdowns it counted.       *)
WriteSeal ==
  /\ pc = "flush-again" /\ tail = << >>
  /\ \/ latched # {} /\ Throws /\ UNCHANGED closing
     \/ /\ latched = {}
        /\ closing' = [shutdowns |-> abandoned, then |-> NetworkFacts]
        /\ IF aborted THEN Throws ELSE Continues("facts-again")
  /\ Outside /\ UNCHANGED <<aborted, accepted>>

(* Mutant: the first decision stands. *)
DecideOnce ==
  /\ pc = "decide-again"
  /\ IF aborted THEN Throws ELSE Continues("accept")
  /\ Outside /\ UNCHANGED <<aborted, closing, accepted>>

(* The second decision: if the facts changed the finish throws, else the   *)
(* proof is made from the ledger as it is now.                             *)
DecideAgain ==
  /\ pc = "decide-again"
  /\ IF Admissible(finish.claim) /\ ~aborted
     THEN Goes("accept") /\ finish' = [finish EXCEPT !.proof = Scope]
     ELSE Throws
  /\ Outside /\ UNCHANGED <<aborted, closing, accepted>>

(* finish:accepted carries the proof; the log ends the scan there.         *)
Accept ==
  /\ pc = "accept"
  /\ accepted' = [claim |-> finish.claim, proof |-> finish.proof, before |-> Projection,
                  intervened |-> facts["intervention"] > 0]
  /\ Goes("done") /\ finish' = NoFinish
  /\ Outside /\ UNCHANGED <<aborted, closing>>

(* inspectHistory, when the run commits: the proof against the scope that  *)
(* the log before the finish amounts to, and a claim of coverage again.    *)
ProofMatchesLog == accepted.proof = accepted.before

CoverageStands ==
  accepted.claim = "scope-covered" => ~Gaps(accepted.before) /\ ~accepted.intervened

Verified == accepted # None /\ ProofMatchesLog /\ CoverageStands

Tools ==
  \/ \E c \in Checks : SelectCheck(c) \/ \E s \in {"verified", "unverified"} : MeasureCheck(c, s)
  \/ \E g \in GapItems : RecordGap(g)

FinishStep ==
  \/ Flush \/ GatherFacts \/ Settle \/ WriteSeal \/ DecideAgain \/ Accept
  \/ \E reason \in Claims : Reject(reason) \/ Seal(reason)

(* What goes on around the tools and the finish.  A run that ended without *)
(* an accepted finish is not followed further.                             *)
Boundary ==
  /\ pc # "stopped"
  /\ SessionStep \/ TailStep \/ TailFails
  /\ UNCHANGED finishVars

Next ==
  \/ Tools \/ ToolPersists \/ ToolFails \/ ToolReturns \/ Abort
  \/ Begin \/ FinishStep \/ Boundary

Spec == Init /\ [][Next]_vars

(* Something that has to return does: a step of the finish, a write of the *)
(* tail, and, once the session is stopped, a request of the page, since    *)
(* resolver and socket listen to the abort.  Before that a request may     *)
(* take as long as its peer likes.  Fairness towards all of them together  *)
(* is enough, as each leaves less to do.                                   *)
Returns ==
  \/ FinishStep
  \/ TailStep /\ UNCHANGED finishVars
  \/ /\ stopped
     /\ \E q \in Own : ResolveEnds(q) \/ ConnectEnds(q) \/ FulfilEnds(q)
     /\ UNCHANGED finishVars

FairSpec == Spec /\ WF_vars(Returns)

-----------------------------------------------------------------------------
FinishTypeOK ==
  /\ pc \in {"idle", "tool", "flush", "facts", "decide", "settle", "flush-again",
             "facts-again", "decide-again", "accept", "done", "stopped"}
  /\ finish \in [claim : Claims \cup {"none"}, epoch : Nat, proof : [Items -> ItemStates]]
  /\ aborted \in BOOLEAN

(* The variables of the ledger, the boundary and the finish stay in their  *)
(* ranges; in particular the counter of the shared request budget stays    *)
(* within the cap.                                                         *)
TypeOK == LedgerTypeOK /\ BoundaryTypeOK /\ FinishTypeOK

(* shared-budget.ts, "One parent + its children spend the original         *)
(* request/byte ceiling": however lookups of the page and of the delegated *)
(* checks overlap, no more requests reach the network than the run's cap.  *)
SharedCapHolds == Cardinality(connected) <= MaxRequests

(* session.ts, "No new inspection facts after the shutdown boundary":      *)
(* after network:sealed no decision, intervention or shutdown is added to  *)
(* the log, the epoch is what it was, and the number of abandoned reads it *)
(* reports is the number of shutdown events in the log.                    *)
SealedLogFinal ==
  closing # None /\ accepted # None =>
    /\ NetworkFacts = closing.then
    /\ closing.shutdowns = facts["shutdown"]

(* executor.ts, "a concurrent failure or cancellation cannot be hidden": a *)
(* run that ends as fully covered was never intervened in, lost no network *)
(* record and saw no execution failure of its session up to its end, and   *)
(* everything it selected was measured.                                    *)
CoveredIsUnintervened ==
  accepted # None =>
    (accepted.claim = "scope-covered" => epoch = 0 /\ latched = {} /\ ~Gaps(Scope))

(* A scan in which no write failed, and in which the two callers of        *)
(* persist never met, is verified by its own log: the proof of an accepted *)
(* finish is the ledger a reader rebuilds from the events before it.       *)
HonestFinishVerifies == accepted # None /\ faults = 0 /\ ~overlapped => Verified

(* A finish whose claim was admissible never hangs on the page: sealing    *)
(* aborts what is in flight, so the finish is accepted or fails.           *)
SealAnswered == pc = "settle" ~> pc \in {"done", "idle", "stopped"}
=============================================================================
