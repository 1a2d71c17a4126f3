----------------------------- MODULE Exploration -----------------------------
(***************************************************************************)
(* The bounded exploration program of a UI scan: instead of a model, a     *)
(* host inside the process decides what to do next from the last           *)
(* observation, the checks ledger and its own trajectory; the executor     *)
(* re-reads the page, dispatches through the ordinary tools and tells the  *)
(* host what came of it (integration/product-host.ts, scheduler.ts,        *)
(* trajectory.ts, and the program part of the executor's main loop).       *)
(*                                                                         *)
(* The page is one address with the controls it first offered.  Its        *)
(* related state (text and control attributes) is one of Looks, and it may *)
(* change by itself at any await.  A measured control whose look changed   *)
(* is offered again as a new check; a refresh loads a new document, whose  *)
(* controls are new targets.  What ranking prefers among eligible targets  *)
(* is left open, as is every reason to hand over that lies in the page,    *)
(* the evidence or the budget.                                             *)
(***************************************************************************)
EXTENDS Naturals, Sequences, FiniteSets

CONSTANTS
  Pages,      (* the sets of controls a page may offer                       *)
  Looks,      (* the related states of a document                            *)
  Samples,    (* localSamplesPerVisitedPage                                  *)
  MaxChecks,  (* maxLocalChecksPerPage                                       *)
  MaxSteps,   (* maxProgramSteps                                             *)
  MaxScores,  (* maxJevCalls; no scoring at all when it is 0                 *)
  Refreshes,  (* whether the task asks for a refresh                         *)
  MaxDrift    (* bound: how often the page changes by itself                 *)

ASSUME ExplorationConstants ==
  /\ Samples \in Nat \ {0} /\ MaxChecks \in Nat /\ MaxSteps \in Nat
  /\ MaxScores \in Nat /\ MaxDrift \in Nat /\ Refreshes \in BOOLEAN
  /\ Looks # {} /\ \A P \in Pages : IsFiniteSet(P) /\ P # {}

VARIABLES
  controls,   (* the controls of the page                                    *)
  page,       (* the live page: [doc, look]                                  *)
  item,       (* per control, the check it is currently offered as           *)
  chosen,     (* how many checks of this address were ever selected          *)
  turn,       (* where the executor stands in the program's turn             *)
  seen,       (* the version of the page the decision is bound to            *)
  decision,   (* what the host decided: [tool, on]                           *)
  result,     (* what the tool returned                                      *)
  attempts,   (* host: the attempts of the trajectory                        *)
  proposed,   (* host: the action it proposed, until its outcome             *)
  pending,    (* host: the attempt that waits for its measurement, or 0      *)
  stopped,    (* host: it has a reason to hand over                          *)
  steps, scores, refreshed,
  acts,       (* observer: every action dispatched on the page               *)
  drift
world == <<controls, page, acts, drift>>
ledger == <<item, chosen>>
host == <<attempts, proposed, pending, stopped, steps, scores, refreshed>>
loop == <<turn, seen, decision, result>>
vars == <<controls, page, item, chosen, turn, seen, decision, result, attempts, proposed,
          pending, stopped, steps, scores, refreshed, acts, drift>>

None == [tool |-> "none", on |-> {}]
Nothing == [target |-> <<0, "none">>, state |-> [doc |-> 0, look |-> "none"]]

-----------------------------------------------------------------------------
(* The ledger of checks.                                                   *)

(* A control that was not offered before, or not as it looks now. *)
Fresh(p) == [doc |-> p.doc, noted |-> p.look, check |-> "free", asked |-> FALSE,
             tried |-> "no", act |-> 0]

SampleSize == IF Cardinality(controls) < Samples THEN Cardinality(controls) ELSE Samples
Sample == CHOOSE S \in SUBSET controls : Cardinality(S) = SampleSize

(* recordObservation: the same node keeps its check, unless it was measured *)
(* and looks different from when it was first offered. *)
Observed(items, p) ==
  \E again \in SUBSET {c \in controls : items[c].check = "measured" /\ items[c].noted # p.look} :
    item' = [c \in controls |-> IF c \in again \/ items[c].doc # p.doc THEN Fresh(p) ELSE items[c]]

(* The frozen sample of the first offer is taken first, all at once; after  *)
(* it single checks, up to the limit of the address. *)
Unsampled == {c \in controls : c \in Sample /\ item[c].check = "free" /\ chosen < SampleSize}
(* Mutant: the limit is off by one. *)
MayExtendOnce == chosen <= MaxChecks

MayExtend == chosen < MaxChecks

Open == {c \in controls : item[c].check = "open"}

-----------------------------------------------------------------------------
(* The planner.                                                            *)

Target(c) == <<seen'.doc, c>>
Unresolved(t) == \E i \in DOMAIN attempts : attempts[i].target = t /\ ~attempts[i].settled
Tried(t, s) == \E i \in DOMAIN attempts : attempts[i].target = t /\ attempts[i].state = s

(* Mutant: a target is blocked only while its attempt is unresolved. *)
SelectableAgain(t, s) == ~Unresolved(t)

(* selectable(): no repeat reasons are ever given by the host. *)
Selectable(t, s) == ~Unresolved(t) /\ ~Tried(t, s)

(* The candidates of the frame: selected and not acted on, or admissible. *)
Source ==
  {c \in controls :
     /\ item[c].doc = seen'.doc
     /\ \/ item[c].check = "selected"
        \/ item[c].check = "free" /\ (chosen < SampleSize \/ MayExtend)}
Eligible == {c \in Source : Selectable(Target(c), seen')}

-----------------------------------------------------------------------------
(* One turn of the program.                                                *)

(* Every other reason to end the program: unbindable version, dirty         *)
(* evidence, spent budget, ambiguous targets, unsealed sources, no plan.    *)
HandOver ==
  /\ turn \in {"plan", "scoring"}
  /\ turn' = "handed"
  /\ stopped' = TRUE
  /\ UNCHANGED <<world, ledger, seen, decision, result, attempts, proposed, pending, steps,
                 scores, refreshed>>

(* decide() up to what it awaits: the version was read just before. *)
Begins ==
  /\ turn = "plan" /\ ~stopped /\ steps < MaxSteps
  /\ steps' = steps + 1
  /\ seen' = page
  /\ UNCHANGED <<world, chosen, result, attempts, pending, stopped>>

Decides(tool, on) == decision' = [tool |-> tool, on |-> on] /\ turn' = "bound"

(* An open check is recovered read-only, each stage once. *)
Recover ==
  /\ Begins
  /\ \E c \in Open :
       \/ /\ item[c].tried = "no"
          /\ item' = [item EXCEPT ![c].tried = "inspected"]
          /\ Decides("inspect", {c})
       \/ /\ item[c].tried \in {"no", "inspected"}
          /\ item' = [item EXCEPT ![c].tried = "verified"]
          /\ Decides("verify", {c})
  /\ UNCHANGED <<proposed, scores, refreshed>>

Asked(it) == [it EXCEPT !.asked = TRUE]

(* A target that is selected is acted on; one that is not is selected       *)
(* first, the frozen sample before anything else, and never asked twice. *)
Proposes(c) ==
  \/ /\ item[c].check = "selected"
     /\ proposed' = [target |-> Target(c), state |-> seen']
     /\ Decides("act", {c})
     /\ UNCHANGED item
  \/ /\ item[c].check = "free"
     /\ LET ids == IF Unsampled # {} THEN Unsampled ELSE {c} IN
        /\ \A d \in ids : ~item[d].asked
        /\ item' = [d \in controls |-> IF d \in ids THEN Asked(item[d]) ELSE item[d]]
        /\ Decides("select", ids)
     /\ UNCHANGED proposed

Plan ==
  /\ Begins
  /\ Open = {}
  /\ \E c \in Eligible : Proposes(c)
  /\ UNCHANGED <<scores, refreshed>>

(* Mutant: the calls to the scorer are not bounded. *)
AsksScoreForever ==
  /\ Begins
  /\ Open = {} /\ MaxScores > 0 /\ Cardinality(Source) \in 2..3 /\ Eligible # {}
  /\ scores' = scores + 1
  /\ turn' = "scoring"
  /\ UNCHANGED <<item, decision, proposed, refreshed>>

(* A tie among two or three candidates may be put to the scorer. *)
AsksScore ==
  /\ Begins
  /\ Open = {} /\ Cardinality(Source) \in 2..3 /\ Eligible # {}
  /\ scores < MaxScores
  /\ scores' = scores + 1
  /\ turn' = "scoring"
  /\ UNCHANGED <<item, decision, proposed, refreshed>>

(* Its answer only reorders: the same facts are planned from again. *)
Scored ==
  /\ turn = "scoring"
  /\ UNCHANGED seen
  /\ \E c \in Eligible : Proposes(c)
  /\ UNCHANGED <<world, chosen, result, attempts, pending, stopped, steps, scores, refreshed>>

(* With nothing left to check the page is revisited once, if the task says so. *)
Revisit ==
  /\ Begins
  /\ Refreshes /\ ~refreshed
  /\ Source = {} /\ \A c \in controls : item[c].check \notin {"selected", "open"}
  /\ refreshed' = TRUE
  /\ proposed' = [target |-> <<page.doc, "refresh">>, state |-> page]
  /\ Decides("refresh", {})
  /\ UNCHANGED <<item, scores>>

(* The executor reads the version again: a decision bound to another page   *)
(* is dropped and the program is over. *)
Rebind ==
  /\ turn = "bound"
  /\ \/ page = seen /\ turn' = "cleared"
     \/ turn' = "handed"
  /\ UNCHANGED <<world, ledger, host, seen, decision, result>>

Executed(tool) == turn = "cleared" /\ decision.tool = tool
Returns(r) == result' = r /\ turn' = "done"

(* A tool that throws, or an action that fails once it was dispatched, ends *)
(* the run; a refusal is a result like any other. *)
RunEnds ==
  /\ turn = "cleared"
  /\ turn' = "over"
  /\ UNCHANGED <<world, ledger, host, seen, decision, result>>
Refused ==
  /\ turn = "cleared"
  /\ Returns("error")
  /\ UNCHANGED <<world, ledger, host, seen, decision>>

(* page_act on a control: it is dispatched, the page does what it does, and *)
(* the check is settled from two samples: nothing pending, something        *)
(* pending, or - the evidence was not clean - not settled at all. *)
Dispatch ==
  /\ Executed("act")
  /\ \E c \in decision.on, fate \in {"measured", "open", "unsettled"}, look \in Looks :
       LET live == [page EXCEPT !.look = look]
           act  == [target |-> <<page.doc, c>>, bound |-> seen, measured |-> fate = "measured"]
       IN  /\ page' = live
           /\ acts' = Append(acts, act)
           /\ Observed(IF fate = "unsettled" THEN item
                       ELSE [item EXCEPT ![c].check = fate, ![c].act = Len(acts')], live)
           /\ Returns(IF fate = "unsettled" THEN "error" ELSE "completed")
  /\ UNCHANGED <<controls, drift, chosen, host, seen, decision>>

Selected(it) == [it EXCEPT !.check = "selected"]

(* exploration_update: the frozen sample, or one more check within the      *)
(* limit once every selected check is concluded. *)
Select ==
  /\ Executed("select")
  /\ LET ids == decision.on
         sampled == ids \subseteq Unsampled /\ chosen + Cardinality(ids) <= SampleSize
         extends == /\ Cardinality(ids) = 1 /\ MayExtend /\ Unsampled = {}
                    /\ \A c \in controls : item[c].check \notin {"selected", "open"}
     IN  /\ sampled \/ extends
         /\ chosen' = chosen + Cardinality(ids)
         /\ Observed([c \in controls |-> IF c \in ids THEN Selected(item[c]) ELSE item[c]], page)
  /\ Returns("completed")
  /\ UNCHANGED <<world, host, seen, decision>>

(* page_inspect and interaction_verify only read; verifying may conclude    *)
(* what was pending. *)
Read ==
  /\ turn = "cleared" /\ decision.tool \in {"inspect", "verify"}
  /\ \/ UNCHANGED <<item, acts>>
     \/ /\ decision.tool = "verify"
        /\ \E c \in decision.on :
             /\ item' = [item EXCEPT ![c].check = "measured"]
             /\ acts' = [acts EXCEPT ![item[c].act].measured = TRUE]
  /\ Returns("completed")
  /\ UNCHANGED <<controls, page, drift, chosen, host, seen, decision>>

(* The refresh loads a new document. *)
Refresh ==
  /\ Executed("refresh")
  /\ \E look \in Looks : page' = [doc |-> page.doc + 1, look |-> look]
  /\ Observed(item, page')
  /\ Returns("completed")
  /\ UNCHANGED <<controls, acts, drift, chosen, host, seen, decision>>

-----------------------------------------------------------------------------
(* recordOutcome: an action that was refused or left no measurement stops   *)
(* the host; any other is an attempt, and the one that waits.  An attempt   *)
(* is settled when nothing of its check is pending - a refresh only by its  *)
(* own outcome - and the page can be bound at that moment. *)
IsAct == decision.tool \in {"act", "refresh"}
Attempt == [target |-> proposed.target, state |-> proposed.state, settled |-> FALSE,
            act |-> IF decision.tool = "act" THEN Len(acts) ELSE 0]

(* Mutant: only what is measured at once is recorded. *)
RecordedIfMeasured ==
  IF IsAct /\ result # "error" /\ acts # <<>> /\ acts[Len(acts)].measured
  THEN Append(attempts, Attempt) ELSE attempts

Recorded == IF IsAct /\ result # "error" THEN Append(attempts, Attempt) ELSE attempts

Stops == IsAct /\ result = "error"

Settles(list, waiting) ==
  /\ waiting # 0
  /\ IF list[waiting].act = 0 THEN decision.tool = "refresh" ELSE acts[list[waiting].act].measured

Record ==
  /\ turn = "done"
  /\ stopped' = (stopped \/ Stops)
  /\ proposed' = IF IsAct THEN Nothing ELSE proposed
  /\ LET list == Recorded
         waiting == IF Len(list) > Len(attempts) THEN Len(list) ELSE pending
     IN  \/ attempts' = list /\ pending' = waiting
         \/ /\ Settles(list, waiting)
            /\ attempts' = [list EXCEPT ![waiting].settled = TRUE]
            /\ pending' = 0
  /\ turn' = "plan" /\ decision' = None /\ result' = "none" /\ seen' = Nothing.state
  /\ UNCHANGED <<world, ledger, steps, scores, refreshed>>

(* The page changes by itself. *)
Drift ==
  /\ turn \notin {"handed", "over"} /\ drift < MaxDrift
  /\ drift' = drift + 1
  /\ \E look \in Looks \ {page.look} : page' = [page EXCEPT !.look = look]
  /\ UNCHANGED <<controls, acts, ledger, host, loop>>

Init ==
  /\ controls \in Pages /\ page \in {[doc |-> 1, look |-> l] : l \in Looks}
  /\ item = [c \in controls |->
       [Fresh(page) EXCEPT !.check = IF Cardinality(controls) <= Samples THEN "selected" ELSE "free"]]
  /\ chosen = IF Cardinality(controls) <= Samples THEN Cardinality(controls) ELSE 0
  /\ turn = "plan" /\ seen = Nothing.state /\ decision = None /\ result = "none"
  /\ attempts = <<>> /\ proposed = Nothing /\ pending = 0 /\ stopped = FALSE
  /\ steps = 0 /\ scores = 0 /\ refreshed = FALSE /\ acts = <<>> /\ drift = 0

Next ==
  \/ HandOver \/ Recover \/ Plan \/ AsksScore \/ Scored \/ Revisit \/ Rebind
  \/ RunEnds \/ Refused \/ Dispatch \/ Select \/ Read \/ Refresh \/ Record \/ Drift

Spec == Init /\ [][Next]_vars

-----------------------------------------------------------------------------
(* Properties.                                                             *)

States == [doc : Nat, look : Looks \cup {"none"}]

(* Every variable has the values the code can give it; the scorer is called *)
(* within its own limit and the program within its steps. *)
TypeOK ==
  /\ controls \in Pages /\ page \in [doc : {1, 2}, look : Looks]
  /\ item \in [controls -> [doc : {1, 2}, noted : Looks, asked : BOOLEAN, act : 0..Len(acts),
                            check : {"free", "selected", "open", "measured"},
                            tried : {"no", "inspected", "verified"}]]
  /\ turn \in {"plan", "scoring", "bound", "cleared", "done", "handed", "over"}
  /\ seen \in States /\ result \in {"none", "completed", "error"}
  /\ decision.on \subseteq controls
  /\ pending \in 0..Len(attempts) /\ \A i \in DOMAIN attempts : attempts[i].act \in 0..Len(acts)
  /\ steps \in 0..MaxSteps /\ scores \in 0..MaxScores /\ drift \in 0..MaxDrift

(* The program never replays: it acts only when everything it did before on *)
(* the page is measured, and never twice on one target from one state of    *)
(* the page, whatever is offered again, drifts, or scores higher. *)
NeverReplayed ==
  [][\A new \in {acts'[i] : i \in DOMAIN acts' \ DOMAIN acts} : \A i \in DOMAIN acts :
       acts[i].measured /\ ~(acts[i].target = new.target /\ acts[i].bound = new.bound)]_vars

(* The attempt tells the action, which was the i-th. *)
Tells(attempt, i, act) ==
  /\ attempt.act = i /\ attempt.target = act.target /\ attempt.state = act.bound
  /\ attempt.settled => act.measured

(* While the program plans, its trajectory tells all that was done on the   *)
(* page, once and in order and from the state it was decided in, and calls  *)
(* settled only what the ledger has measured. *)
TrajectoryIsComplete ==
  (turn = "plan" /\ ~stopped) =>
    /\ \A i \in DOMAIN acts : \E k \in DOMAIN attempts : Tells(attempts[k], i, acts[i])
    /\ \A k, m \in DOMAIN attempts :
         k < m /\ attempts[k].act # 0 /\ attempts[m].act # 0 => attempts[k].act < attempts[m].act

(* One address never has more selected checks than the larger of its frozen *)
(* sample and its limit, however often controls are offered again. *)
ChecksCapped == chosen <= SampleSize \/ chosen <= MaxChecks
=============================================================================
