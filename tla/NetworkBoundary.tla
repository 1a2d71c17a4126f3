--------------------------- MODULE NetworkBoundary ---------------------------
(***************************************************************************)
(* The network boundary of a UI scan: the requests a page makes, each held *)
(* at CDP's Fetch.requestPaused until it is fulfilled or failed            *)
(* (execution/network/session.ts), the budget a run shares with the child  *)
(* contexts of its delegated checks (shared-budget.ts), and the chain that *)
(* records decisions in the run's log and ledger (boundary.ts).            *)
(*                                                                         *)
(* A request of a child context matters here for the budget only: its      *)
(* decisions go to the child's own run, and its own controller and policy  *)
(* are choices.  The URL policy, DNS, addresses and bodies are choices     *)
(* too: what they decide is an input.                                      *)
(***************************************************************************)
EXTENDS InspectionLedger

CONSTANTS
  Documents,     (* requests of the run's page for a document               *)
  Reads,         (* its other requests                                      *)
  Popups,        (* windows it opens, and its web sockets                   *)
  ChildReads,    (* requests of the contexts of delegated checks            *)
  MaxRequests,   (* limits.maxRequests                                      *)
  MaxEvents      (* bound: how many of the above the page gets to start     *)

Own == Documents \cup Reads
Requests == Own \cup ChildReads

ASSUME BoundaryConstants ==
  /\ Documents \cap Reads = {} /\ Own \cap ChildReads = {}
  /\ Popups \cap Requests = {}
  /\ Documents \cup Popups \subseteq Extras
  /\ MaxRequests \in Nat /\ MaxEvents \in Nat

VARIABLES
  at,          (* where each request, and each popup, stands                *)
  spent,       (* sharedBudget.requests                                     *)
  sealed,      (* the run's session takes no new facts                      *)
  stopped,     (* the abort controller of the run's session has fired       *)
  tail,        (* boundary.ts `tail`: the records not yet handled           *)
  stage,       (* how far the handling of its head is                       *)
  latched,     (* persistenceFailure, executionFailure                      *)
  epoch,       (* integrity.epoch()                                         *)
  facts,       (* network events in the log, by type                        *)
  abandoned,   (* decisions flagged finalizationShutdown                    *)
  connected    (* history: requests that reached the network                *)

sessionVars == <<at, spent, sealed, stopped, connected>>
chainVars == <<tail, stage, latched, epoch, facts, abandoned>>
boundaryVars == <<at, spent, sealed, stopped, tail, stage, latched, epoch, facts,
                  abandoned, connected>>

FactTypes == {"shutdown", "allowed", "denied", "intervention"}

InitBoundary ==
  /\ at = [q \in Requests \cup Popups |-> "unsent"]
  /\ spent = 0 /\ sealed = FALSE /\ stopped = FALSE
  /\ tail = << >> /\ stage = "start" /\ latched = {} /\ epoch = 0
  /\ facts = [type \in FactTypes |-> 0]
  /\ abandoned = 0 /\ connected = {}

-----------------------------------------------------------------------------
(* record(): synchronous, called for every decision of the run's session.  *)
(* It counts, latches and puts what has to be written on the tail.         *)

ExecutionFaults == {"transport-error", "execution-stopped", "resolution-failed"}

Record(q, reason) ==
  IF sealed /\ reason = "execution-stopped" THEN
    /\ abandoned' = abandoned + 1
    /\ tail' = Append(tail, [kind |-> "shutdown", of |-> q])
    /\ UNCHANGED latched
  ELSE IF reason = "allowed" THEN
    /\ tail' = IF q \in Documents THEN Append(tail, [kind |-> "allowed", of |-> q]) ELSE tail
    /\ UNCHANGED <<latched, abandoned>>
  ELSE
    /\ tail' = Append(tail, [kind |-> "refused", of |-> q])
    /\ latched' = IF reason \in ExecutionFaults THEN latched \cup {"execution"} ELSE latched
    /\ UNCHANGED abandoned

(* The page starts something: a request, a window, a socket.               *)
Starts(q) ==
  at[q] = "unsent" /\ Cardinality({p \in Requests \cup Popups : at[p] # "unsent"}) < MaxEvents

Move(q, place) == at' = [at EXCEPT ![q] = place]

(* refuse(): the decision, then Fetch.failRequest, whose error is ignored. *)
Refuse(q, reason) == Record(q, reason) /\ Move(q, "done")

Recorded == <<stage, epoch, facts>>

(* Fetch.requestPaused after the seal: failed without a fact.              *)
PauseSealed(q) ==
  /\ q \in Own /\ Starts(q) /\ sealed
  /\ Move(q, "done")
  /\ UNCHANGED <<ledgerVars, chainVars, spent, sealed, stopped, connected>>

(* Mutants: the counter is looked at and not advanced; the cap is off by one. *)
ReserveNothing == spent < MaxRequests /\ UNCHANGED spent
ReserveOneMore == spent <= MaxRequests /\ spent' = spent + 1

(* reserveRequest(): one synchronous step.                                 *)
ReserveRequest == spent < MaxRequests /\ spent' = spent + 1

(* Fetch.requestPaused: stop, policy and budget are decided and the budget *)
(* is reserved before the first await.  The hop limit and the navigation   *)
(* scope refuse after the reservation, which is never returned.            *)
Pause(q) ==
  /\ q \in Own /\ Starts(q) /\ ~sealed
  /\ \/ stopped /\ Refuse(q, "execution-stopped") /\ UNCHANGED spent
     \/ ~stopped /\ Refuse(q, "policy") /\ UNCHANGED spent
     \/ /\ ~stopped /\ spent >= MaxRequests
        /\ Refuse(q, "request-budget-exhausted") /\ UNCHANGED spent
     \/ /\ ~stopped /\ ReserveRequest
        /\ \/ Refuse(q, "policy")
           \/ Move(q, "resolve") /\ UNCHANGED <<tail, latched, abandoned>>
  /\ UNCHANGED <<ledgerVars, Recorded, sealed, stopped, connected>>

(* Name resolution ends; it races the abort.  Then the address is vetted,  *)
(* the policy asked again, and the abort looked at before connecting.      *)
ResolveEnds(q) ==
  /\ q \in Own /\ at[q] = "resolve"
  /\ \/ ~stopped /\ Refuse(q, "resolution-failed") /\ UNCHANGED connected
     \/ stopped /\ Refuse(q, "execution-stopped") /\ UNCHANGED connected
     \/ Refuse(q, "policy") /\ UNCHANGED connected
     \/ /\ ~stopped
        /\ Move(q, "connect") /\ connected' = connected \cup {q}
        /\ UNCHANGED <<tail, latched, abandoned>>
  /\ UNCHANGED <<ledgerVars, Recorded, spent, sealed, stopped>>

(* readPinnedResponse ends: a response, a transport or body-limit refusal, *)
(* or the abort.  The decision is recorded before the page gets the body.  *)
ConnectEnds(q) ==
  /\ q \in Own /\ at[q] = "connect"
  /\ \/ Record(q, "allowed") /\ Move(q, "fulfil")
     \/ ~stopped /\ Refuse(q, "transport-error")
     \/ ~stopped /\ Refuse(q, "policy")
     \/ stopped /\ Refuse(q, "execution-stopped")
  /\ UNCHANGED <<ledgerVars, Recorded, spent, sealed, stopped, connected>>

(* Fetch.fulfillRequest; if it rejects, the same request is refused after  *)
(* it was recorded as allowed.                                             *)
FulfilEnds(q) ==
  /\ q \in Own /\ at[q] = "fulfil"
  /\ \/ Move(q, "done") /\ UNCHANGED <<tail, latched, abandoned>>
     \/ Refuse(q, "transport-error")
  /\ UNCHANGED <<ledgerVars, Recorded, spent, sealed, stopped, connected>>

(* A window or a web socket: closed; recorded unless the session is sealed. *)
OpenPopup(p) ==
  /\ p \in Popups /\ Starts(p)
  /\ Move(p, "done")
  /\ tail' = IF sealed THEN tail ELSE Append(tail, [kind |-> "channel", of |-> p])
  /\ UNCHANGED <<ledgerVars, Recorded, latched, abandoned, spent, sealed, stopped, connected>>

(* A same-document route change that leaves the navigation scope: recorded  *)
(* as a refused document, and the session is stopped.                      *)
RouteLeaves(q) ==
  /\ q \in Documents /\ Starts(q) /\ ~sealed
  /\ Refuse(q, "policy")
  /\ stopped' = TRUE
  /\ UNCHANGED <<ledgerVars, Recorded, spent, sealed, connected>>

(* A delegated check's context pauses a request: refused, or reserved in   *)
(* the same counter; and after its own lookup it may be refused yet.       *)
ChildPause(q) ==
  /\ q \in ChildReads /\ Starts(q)
  /\ \/ Move(q, "done") /\ UNCHANGED spent
     \/ ReserveRequest /\ Move(q, "resolve")
  /\ UNCHANGED <<ledgerVars, chainVars, sealed, stopped, connected>>

ChildResolves(q) ==
  /\ q \in ChildReads /\ at[q] = "resolve"
  /\ Move(q, "done")
  /\ connected' \in {connected, connected \cup {q}}
  /\ UNCHANGED <<ledgerVars, chainVars, spent, sealed, stopped>>

-----------------------------------------------------------------------------
(* The tail: one record at a time, each write an await of its own.         *)

Handling(kind, where) == tail # << >> /\ Head(tail).kind = kind /\ stage = where
Advance(where) == stage' = where /\ UNCHANGED tail
Handled == tail' = Tail(tail) /\ stage' = "start"
Fact(type) == facts' = [facts EXCEPT ![type] = @ + 1]
Quiet == UNCHANGED <<sessionVars, latched, abandoned>>

WriteShutdown ==
  /\ Handling("shutdown", "start")
  /\ Fact("shutdown") /\ Handled
  /\ UNCHANGED epoch /\ Quiet /\ UNCHANGED ledgerVars

WriteAllowed ==
  /\ Handling("allowed", "start")
  /\ Fact("allowed") /\ Handled
  /\ UNCHANGED epoch /\ Quiet /\ UNCHANGED ledgerVars

(* recordIntervention of a refusal: the epoch grows here, on the tail.     *)
Intervene ==
  /\ Handling("refused", "start")
  /\ epoch' = epoch + 1
  /\ Fact("intervention") /\ Advance("decision")
  /\ Quiet /\ UNCHANGED ledgerVars

WriteRefusal ==
  /\ Handling("refused", "decision")
  /\ Fact("denied")
  /\ IF Head(tail).of \in Documents THEN Advance("ledger") ELSE Handled
  /\ UNCHANGED epoch /\ Quiet /\ UNCHANGED ledgerVars

(* recordNavigationDenied: an item that nobody selected.                   *)
DenyNavigation ==
  /\ Handling("refused", "ledger")
  /\ LET i == Head(tail).of IN
       RecordAndPersist("tail", <<Create(i, FALSE), Resolve(i, "unverified")>>)
  /\ Advance("persist")
  /\ UNCHANGED <<epoch, facts>> /\ Quiet

(* recordUnsupportedChannel: the ledger, the intervention, the event.      *)
DenyChannel ==
  /\ Handling("channel", "start")
  /\ RecordAndPersist("tail", <<Unsupported(Head(tail).of)>>)
  /\ Advance("persist")
  /\ UNCHANGED <<epoch, facts>> /\ Quiet

TailPersists ==
  /\ stage = "persist"
  /\ PersistEvent("tail")
  /\ UNCHANGED <<tail, stage, epoch, facts>> /\ Quiet

TailPersisted ==
  /\ tail # << >> /\ stage = "persist" /\ ~Writing("tail")
  /\ IF Head(tail).kind = "channel" THEN Advance("intervene") ELSE Handled
  /\ UNCHANGED <<epoch, facts>> /\ Quiet /\ UNCHANGED ledgerVars

InterveneChannel ==
  /\ Handling("channel", "intervene")
  /\ epoch' = epoch + 1
  /\ Fact("intervention") /\ Advance("decision")
  /\ Quiet /\ UNCHANGED ledgerVars

WriteChannel ==
  /\ Handling("channel", "decision")
  /\ Fact("denied") /\ Handled
  /\ UNCHANGED epoch /\ Quiet /\ UNCHANGED ledgerVars

(* A write of the tail throws: the rest of the record is dropped, and the  *)
(* failure is latched.  An intervention counts though its event is lost.   *)
TailFails ==
  /\ tail # << >> /\ faults < MaxFaults
  /\ stage # "persist" \/ Writing("tail")
  /\ ~Handling("refused", "ledger") /\ ~Handling("channel", "start")
  /\ faults' = faults + 1
  /\ writer' = [writer EXCEPT !["tail"] = << >>]
  /\ latched' = latched \cup {"persistence"}
  /\ epoch' = IF Handling("refused", "start") \/ Handling("channel", "intervene")
              THEN epoch + 1 ELSE epoch
  /\ Handled
  /\ UNCHANGED <<sessionVars, facts, abandoned, recorded, persisted, written, overlapped>>

TailStep ==
  \/ WriteShutdown \/ WriteAllowed \/ Intervene \/ WriteRefusal \/ DenyNavigation
  \/ DenyChannel \/ TailPersists \/ TailPersisted \/ InterveneChannel \/ WriteChannel

SessionStep ==
  \/ \E q \in Own : PauseSealed(q) \/ Pause(q) \/ ResolveEnds(q) \/ ConnectEnds(q) \/ FulfilEnds(q)
  \/ \E q \in Documents : RouteLeaves(q)
  \/ \E p \in Popups : OpenPopup(p)
  \/ \E q \in ChildReads : ChildPause(q) \/ ChildResolves(q)

Pending == {q \in Own : at[q] \in {"resolve", "connect", "fulfil"}}

BoundaryTypeOK ==
  /\ at \in [Requests \cup Popups -> {"unsent", "resolve", "connect", "fulfil", "done"}]
  /\ spent \in 0..MaxRequests
  /\ sealed \in BOOLEAN
  /\ stopped \in BOOLEAN
  /\ tail \in Seq([kind : {"shutdown", "allowed", "refused", "channel"}, of : Own \cup Popups])
  /\ stage \in {"start", "decision", "ledger", "persist", "intervene"}
  /\ latched \subseteq {"persistence", "execution"}
  /\ epoch \in Nat /\ abandoned \in Nat
  /\ facts \in [FactTypes -> Nat]
  /\ connected \subseteq Requests
=============================================================================
