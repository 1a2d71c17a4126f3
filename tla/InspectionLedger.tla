-------------------------- MODULE InspectionLedger --------------------------
(***************************************************************************)
(* The scope ledger of a UI scan (inspection/scope.ts) and the way the     *)
(* inspection host writes it to the run's event log (persist, in           *)
(* execution/inspection-host.ts).                                          *)
(*                                                                         *)
(* The ledger is the sequence of its own events; its items are what the    *)
(* events amount to.  A call of persist takes the events that were not     *)
(* written when it starts and writes them one by one, with an await at     *)
(* each.  Two callers exist: the serialized tools, and the chain that      *)
(* records what the network boundary refused.                              *)
(***************************************************************************)
EXTENDS Naturals, Sequences, SequencesExt, FiniteSets

CONSTANTS
  Checks,      (* candidate checks the first observation offered           *)
  Extras,      (* items created later: gaps, refused documents             *)
  MaxFaults    (* bound: writes to the event log that may fail             *)

Items == Checks \cup Extras
Writers == {"tool", "tail"}

ASSUME LedgerConstants ==
  IsFiniteSet(Checks) /\ Checks \cap Extras = {} /\ MaxFaults \in Nat

VARIABLES
  recorded,    (* scope.events(): the ledger's events, in order            *)
  persisted,   (* persistedCount                                           *)
  writer,      (* per caller of persist: the events it has yet to write    *)
  written,     (* the scope events in the log, as positions in `recorded`  *)
  faults,      (* writes that failed                                       *)
  overlapped   (* history: two calls of persist were under way at once     *)

ledgerVars == <<recorded, persisted, writer, written, faults, overlapped>>

ItemStates == [status : {"absent", "pending", "verified", "unverified", "unsupported"},
               selected : BOOLEAN]
Absent == [status |-> "absent", selected |-> FALSE]

(* createItem, resolveItem, selectItem and recordUnsupported as events.    *)
Create(i, selected) == [op |-> "create", item |-> i, selected |-> selected, status |-> "pending"]
Resolve(i, status) == [op |-> "resolve", item |-> i, selected |-> FALSE, status |-> status]
Select(i) == [op |-> "select", item |-> i, selected |-> TRUE, status |-> "pending"]
Unsupported(i) == [op |-> "unsupported", item |-> i, selected |-> FALSE, status |-> "unsupported"]

Events == [op : {"create", "resolve", "select", "unsupported"}, item : Items,
           selected : BOOLEAN, status : {"pending", "verified", "unverified", "unsupported"}]

(* One event applied to the items, the same in the live ledger and in the  *)
(* projection: an update of an item that was never created is ignored.     *)
Applied(items, e) ==
  IF e.op = "create" THEN [items EXCEPT ![e.item] = [status |-> "pending", selected |-> e.selected]]
  ELSE IF e.op = "unsupported" THEN [items EXCEPT ![e.item].status = "unsupported"]
  ELSE IF items[e.item] = Absent THEN items
  ELSE IF e.op = "select" THEN [items EXCEPT ![e.item].selected = TRUE]
  ELSE [items EXCEPT ![e.item].status = e.status]

Nothing == [i \in Items |-> Absent]

(* What a sequence of events amounts to. *)
ScopeOf(log) ==
  LET after[n \in 0..Len(log)] == IF n = 0 THEN Nothing ELSE Applied(after[n - 1], log[n])
  IN  after[Len(log)]
Scope == ScopeOf(recorded)

(* projectInspectionScope over the scope events found in the log.          *)
Projection == ScopeOf([n \in DOMAIN written |-> recorded[written[n]]])

(* completionGaps: a selected item without a measured result, or an offer  *)
(* of local interactions from which none was selected; plus the dimensions *)
(* recorded as unsupported, which decideInspectionCompletion adds.         *)
Unfinished(items) ==
  {i \in Items : items[i].selected /\ items[i].status \in {"pending", "unverified"}}
Unsampled(items) == Checks # {} /\ \A i \in Checks : ~items[i].selected
Gaps(items) == Unfinished(items) # {} \/ Unsampled(items)
Partial(items) == Gaps(items) \/ \E i \in Items : items[i].status = "unsupported"

(* The first observation has been recorded and written.                    *)
InitLedger ==
  /\ recorded = SetToSeq({Create(i, FALSE) : i \in Checks})
  /\ persisted = Len(recorded)
  /\ writer = [w \in Writers |-> << >>]
  /\ written = [n \in 1..Len(recorded) |-> n]
  /\ faults = 0 /\ overlapped = FALSE

Writing(w) == writer[w] # << >>

(* The positions of the events up to a length that are not written yet.    *)
Window(done, upto) == [n \in 1..(upto - done) |-> done + n]

(* The ledger grows and persist is called, with no await in between: the   *)
(* events to write are fixed here.                                         *)
RecordAndPersist(w, events) ==
  /\ recorded' = recorded \o events
  /\ writer' = [writer EXCEPT ![w] = Window(persisted, Len(recorded) + Len(events))]
  /\ overlapped' = (overlapped \/ \E v \in Writers \ {w} : Writing(v))
  /\ UNCHANGED <<persisted, written, faults>>

(* One write returns: the event is in the log, and counted.                *)
PersistEvent(w) ==
  /\ Writing(w)
  /\ written' = Append(written, Head(writer[w]))
  /\ persisted' = persisted + 1
  /\ writer' = [writer EXCEPT ![w] = Tail(@)]
  /\ UNCHANGED <<recorded, faults, overlapped>>

(* The write throws: what is left of the call is given up.                 *)
PersistFails(w) ==
  /\ Writing(w) /\ faults < MaxFaults
  /\ faults' = faults + 1
  /\ writer' = [writer EXCEPT ![w] = << >>]
  /\ UNCHANGED <<recorded, persisted, written, overlapped>>

LedgerTypeOK ==
  /\ recorded \in Seq(Events)
  /\ persisted \in Nat
  /\ writer \in [Writers -> Seq(Nat)]
  /\ written \in Seq(1..Len(recorded))
  /\ faults \in 0..MaxFaults
  /\ overlapped \in BOOLEAN
=============================================================================
