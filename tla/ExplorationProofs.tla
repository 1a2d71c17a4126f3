--------------------------- MODULE ExplorationProofs ---------------------------
(***************************************************************************)
(* Proofs about Exploration for any controls, looks and limits: the        *)
(* program never replays, its trajectory is complete, and the checks of an *)
(* address stay within their limit.                                        *)
(*                                                                         *)
(* The ledger, the trajectory and the page tell the same story.  Each      *)
(* action is measured or the check it left open says so (Watched), an open *)
(* check keeps the program from acting (Quiet), and each action has an     *)
(* attempt with its target and state (Story), so that what is selectable   *)
(* by the attempts was never done on the page (Aimed).                     *)
(***************************************************************************)
EXTENDS Exploration, FiniteSetTheorems, SequenceTheorems, TLAPS

Names == (UNION Pages) \cup {"refresh", "none"}
Targets == Nat \X Names
Actions == [target : Targets, bound : States, measured : BOOLEAN]
Attempts == [target : Targets, state : States, settled : BOOLEAN, act : Nat]
Decisions == [tool : {"none", "inspect", "verify", "act", "select", "refresh"},
              on : SUBSET controls]

Shaped ==
  /\ TypeOK
  /\ acts \in Seq(Actions) /\ attempts \in Seq(Attempts)
  /\ proposed \in [target : Targets, state : States]
  /\ decision \in Decisions /\ chosen \in Nat
  /\ stopped \in BOOLEAN /\ refreshed \in BOOLEAN

(* Between the decision and the tool's return. *)
Decided == turn \in {"bound", "cleared"}
Underway == turn \in {"scoring", "bound", "cleared", "done"}

(* Only a refresh changes the document, once, and then every check is new. *)
Current ==
  /\ \A c \in controls : item[c].doc = page.doc
  /\ page.doc = 1 \/ refreshed
  /\ Decided /\ decision.tool = "refresh" => page.doc = 1 /\ refreshed

(* A decision is made from a version of this document, by a host that has  *)
(* no reason to stop, and every tool returns something. *)
Awake ==
  /\ Underway => ~stopped
  /\ turn = "done" => result # "none"
  /\ turn = "scoring" \/ Decided => seen \in [doc : {page.doc}, look : Looks]

(* The program does nothing to the page while a check is open. *)
Quiet ==
  /\ turn = "scoring" => Open = {}
  /\ Decided /\ decision.tool \in {"act", "select", "refresh"} => Open = {}
  /\ \A c \in controls : item[c].check = "open" => item[c].act \in DOMAIN acts

(* An action is aimed at what was proposed, and never tried from there. *)
Aimed ==
  Decided /\ decision.tool = "act" =>
    /\ \E c \in controls :
         decision.on = {c} /\ proposed = [target |-> <<seen.doc, c>>, state |-> seen]
    /\ ~Tried(proposed.target, seen)

(* The last action was done and its result has not come back to the host;  *)
(* a result that says nothing was measured ends the program. *)
Untold == turn = "done" /\ decision.tool = "act" /\ result = "completed"
Running == ~stopped /\ turn \notin {"handed", "over"}
           /\ ~(turn = "done" /\ decision.tool = "act" /\ result = "error")
Told == IF Untold THEN Len(acts) - 1 ELSE Len(acts)

Watched ==
  Running => \A i \in DOMAIN acts :
               acts[i].measured \/ \E c \in controls : item[c].check = "open" /\ item[c].act = i

Story ==
  Running =>
    /\ \A i \in 1..Told : \E k \in DOMAIN attempts : Tells(attempts[k], i, acts[i])
    /\ \A k, m \in DOMAIN attempts :
         k < m /\ attempts[k].act # 0 /\ attempts[m].act # 0 => attempts[k].act < attempts[m].act
    /\ \A k \in DOMAIN attempts : attempts[k].act <= Told
    /\ Untold => /\ acts # << >> /\ acts[Len(acts)].target = proposed.target
                 /\ acts[Len(acts)].bound = proposed.state

Inv == Shaped /\ Current /\ Awake /\ Quiet /\ Aimed /\ Watched /\ Story

-----------------------------------------------------------------------------
(* What observing the page makes of the checks it is given. *)
LEMMA ObservedItems ==
  ASSUME NEW items, NEW p, Observed(items, p), UNCHANGED controls
  PROVE  /\ item' = [c \in controls |-> item'[c]]
         /\ \A c \in controls :
              \/ item'[c] = Fresh(p)
              \/ item'[c] = items[c] /\ items[c].doc = p.doc
         /\ \A c \in controls :
              items[c].check # "measured" /\ items[c].doc = p.doc => item'[c] = items[c]
<1> PICK again \in SUBSET {c \in controls : items[c].check = "measured" /\ items[c].noted # p.look} :
      item' = [c \in controls |-> IF c \in again \/ items[c].doc # p.doc THEN Fresh(p) ELSE items[c]]
  BY Zenon DEF Observed
<1> QED
  OBVIOUS

Item(n) == [doc : {1, 2}, noted : Looks, asked : BOOLEAN, act : 0..n,
            check : {"free", "selected", "open", "measured"},
            tried : {"no", "inspected", "verified"}]

LEMMA ObservedTypes ==
  ASSUME NEW n \in Nat, NEW items, NEW p \in [doc : {1, 2}, look : Looks], Observed(items, p),
         UNCHANGED controls, \A c \in controls : items[c] \in Item(n)
  PROVE  item' \in [controls -> Item(n)]
<1>1. Fresh(p) \in Item(n)
  BY DEF Fresh, Item
<1> QED
  BY <1>1, ObservedItems

(* What becomes of one check: it is acted on, asked for, or selected. *)
Acted(r, fate, k) == [r EXCEPT !.check = fate, !.act = k]
Concluded(r) == [r EXCEPT !.check = "measured"]

LEMMA ActedOn ==
  ASSUME NEW n \in Nat, NEW r \in Item(n), NEW fate \in {"measured", "open"}, NEW k \in 0..n
  PROVE  /\ Acted(r, fate, k) \in Item(n) /\ Acted(r, fate, k).check = fate
         /\ Acted(r, fate, k).act = k /\ Acted(r, fate, k).doc = r.doc
<1>1. Acted(r, fate, k) \in Item(n)
  BY DEF Item, Acted
<1>2. Acted(r, fate, k).check = fate /\ Acted(r, fate, k).act = k /\ Acted(r, fate, k).doc = r.doc
  BY DEF Item, Acted
<1> QED
  BY <1>1, <1>2

LEMMA Conclusion ==
  ASSUME NEW n \in Nat, NEW r \in Item(n)
  PROVE  /\ Concluded(r) \in Item(n) /\ Concluded(r).check = "measured"
         /\ Concluded(r).act = r.act /\ Concluded(r).doc = r.doc
<1>1. Concluded(r) \in Item(n)
  BY DEF Item, Concluded
<1>2. Concluded(r).check = "measured" /\ Concluded(r).act = r.act /\ Concluded(r).doc = r.doc
  BY DEF Item, Concluded
<1> QED
  BY <1>1, <1>2

LEMMA ItemChanges ==
  ASSUME NEW n \in Nat, NEW r \in Item(n)
  PROVE  /\ Asked(r) \in Item(n) /\ Asked(r).check = r.check /\ Asked(r).act = r.act
         /\ Asked(r).doc = r.doc
         /\ Selected(r) \in Item(n) /\ Selected(r).check = "selected" /\ Selected(r).doc = r.doc
<1>1. Asked(r) \in Item(n)
  BY DEF Item, Asked
<1>2. Selected(r) \in Item(n)
  BY DEF Item, Selected
<1>3. Asked(r).check = r.check /\ Asked(r).act = r.act /\ Asked(r).doc = r.doc
  BY DEF Item, Asked
<1>4. Selected(r).check = "selected" /\ Selected(r).doc = r.doc
  BY DEF Item, Selected
<1> QED
  BY <1>1, <1>2, <1>3, <1>4

(* A proposal to act is of a control, a selection of controls. *)
LEMMA ProposesTypes ==
  ASSUME Shaped, NEW c \in controls, Proposes(c), seen' \in States
  PROVE  /\ item' \in [controls -> Item(Len(acts))]
         /\ proposed' \in [target : Targets, state : States]
         /\ decision' \in Decisions /\ turn' = "bound"
<1>1. /\ item \in [controls -> Item(Len(acts))]
      /\ proposed \in [target : Targets, state : States] /\ controls \in Pages
  BY DEF Shaped, TypeOK, Item
<1>2. CASE /\ proposed' = [target |-> Target(c), state |-> seen']
           /\ Decides("act", {c}) /\ UNCHANGED item
  BY <1>1, <1>2 DEF Decides, Decisions, Target, Targets, Names, States
<1>3. CASE /\ UNCHANGED proposed
           /\ \E ids \in SUBSET controls :
                /\ item' = [d \in controls |-> IF d \in ids THEN Asked(item[d]) ELSE item[d]]
                /\ Decides("select", ids)
  <2>1. PICK ids \in SUBSET controls :
          /\ item' = [d \in controls |-> IF d \in ids THEN Asked(item[d]) ELSE item[d]]
          /\ Decides("select", ids)
    BY <1>3
  <2>2. \A d \in controls : Asked(item[d]) \in Item(Len(acts))
    BY <1>1, ItemChanges DEF Shaped
  <2>3. item' \in [controls -> Item(Len(acts))]
    BY <1>1, <2>1, <2>2
  <2> QED
    BY <1>1, <1>3, <2>1, <2>3 DEF Decides, Decisions
<1>4. Unsampled \subseteq controls
  BY DEF Unsampled
<1> QED
  BY <1>2, <1>3, <1>4 DEF Proposes

-----------------------------------------------------------------------------
(* Types.                                                                  *)

(* TypeOK without the parts that speak of more than one variable. *)
Typed ==
  /\ controls \in Pages /\ page \in [doc : {1, 2}, look : Looks]
  /\ item \in [controls -> Item(Len(acts))]
  /\ turn \in {"plan", "scoring", "bound", "cleared", "done", "handed", "over"}
  /\ seen \in States /\ result \in {"none", "completed", "error"}
  /\ decision \in Decisions
  /\ acts \in Seq(Actions) /\ attempts \in Seq(Attempts)
  /\ proposed \in [target : Targets, state : States]
  /\ pending \in 0..Len(attempts)
  /\ \A i \in 1..Len(attempts) : attempts[i].act \in 0..Len(acts)
  /\ steps \in 0..MaxSteps /\ scores \in 0..MaxScores /\ drift \in 0..MaxDrift
  /\ chosen \in Nat /\ stopped \in BOOLEAN /\ refreshed \in BOOLEAN

LEMMA ShapedIsTyped == Shaped <=> Typed
<1>1. ASSUME attempts \in Seq(Attempts) PROVE DOMAIN attempts = 1..Len(attempts)
  BY <1>1
<1>2. decision \in Decisions => decision.on \subseteq controls
  BY DEF Decisions
<1> QED
  BY <1>1, <1>2 DEF Shaped, Typed, TypeOK, Item

(* A place of a sequence is overwritten, or none is. *)
LEMMA Replaced ==
  ASSUME NEW S, NEW s \in Seq(S), NEW n, NEW e, n \in 1..Len(s) => e \in S
  PROVE  /\ [s EXCEPT ![n] = e] \in Seq(S) /\ Len([s EXCEPT ![n] = e]) = Len(s)
         /\ \A i \in 1..Len(s) : [s EXCEPT ![n] = e][i] = IF i = n THEN e ELSE s[i]
<1>1. CASE n \in 1..Len(s)
  BY <1>1, ExceptSeq
<1>2. CASE n \notin 1..Len(s)
  <2>1. s = [i \in 1..Len(s) |-> s[i]]
    OBVIOUS
  <2>2. [s EXCEPT ![n] = e] = s
    BY <1>2, <2>1
  <2> QED
    BY <1>2, <2>2
<1> QED
  BY <1>1, <1>2

(* A measurement changes one action at most. *)
MeasuredAt(s, n) == [s EXCEPT ![n].measured = TRUE]

LEMMA MeasureTypes ==
  ASSUME NEW s \in Seq(Actions), NEW n
  PROVE  /\ MeasuredAt(s, n) \in Seq(Actions) /\ Len(MeasuredAt(s, n)) = Len(s)
         /\ \A i \in 1..Len(s) : MeasuredAt(s, n)[i].target = s[i].target /\ MeasuredAt(s, n)[i].bound = s[i].bound
                                /\ (MeasuredAt(s, n)[i].measured <=> i = n \/ s[i].measured)
<1> DEFINE e == [s[n] EXCEPT !.measured = TRUE]
<1>1. ASSUME NEW r \in Actions
      PROVE  [r EXCEPT !.measured = TRUE] \in Actions
  BY DEF Actions
<1>2. n \in 1..Len(s) => s[n] \in Actions
  OBVIOUS
<1>3. n \in 1..Len(s) => e \in Actions
  BY <1>1, <1>2
<1>4. n \in 1..Len(s) => /\ e.target = s[n].target
                         /\ e.bound = s[n].bound
                         /\ e.measured = TRUE
  BY <1>2 DEF Actions
<1>5. MeasuredAt(s, n) = [s EXCEPT ![n] = e]
  BY DEF MeasuredAt
<1> HIDE DEF e
<1>6. /\ [s EXCEPT ![n] = e] \in Seq(Actions) /\ Len([s EXCEPT ![n] = e]) = Len(s)
      /\ \A i \in 1..Len(s) : [s EXCEPT ![n] = e][i] = IF i = n THEN e ELSE s[i]
  BY <1>3, Replaced
<1> QED
  BY <1>4, <1>5, <1>6

(* So does a settlement of the attempts. *)
SettledAt(s, n) == [s EXCEPT ![n].settled = TRUE]

LEMMA SettleTypes ==
  ASSUME NEW s \in Seq(Attempts), NEW n
  PROVE  /\ SettledAt(s, n) \in Seq(Attempts) /\ Len(SettledAt(s, n)) = Len(s)
         /\ \A i \in 1..Len(s) : /\ SettledAt(s, n)[i].target = s[i].target /\ SettledAt(s, n)[i].state = s[i].state
                                /\ SettledAt(s, n)[i].act = s[i].act
                                /\ (SettledAt(s, n)[i].settled <=> i = n \/ s[i].settled)
<1> DEFINE e == [s[n] EXCEPT !.settled = TRUE]
<1>1. ASSUME NEW r \in Attempts
      PROVE  [r EXCEPT !.settled = TRUE] \in Attempts
  BY DEF Attempts
<1>2. n \in 1..Len(s) => s[n] \in Attempts
  OBVIOUS
<1>3. n \in 1..Len(s) => e \in Attempts
  BY <1>1, <1>2
<1>4. n \in 1..Len(s) => /\ e.target = s[n].target
                         /\ e.state = s[n].state
                         /\ e.act = s[n].act
                         /\ e.settled = TRUE
  BY <1>2 DEF Attempts
<1>5. SettledAt(s, n) = [s EXCEPT ![n] = e]
  BY DEF SettledAt
<1> HIDE DEF e
<1>6. /\ [s EXCEPT ![n] = e] \in Seq(Attempts) /\ Len([s EXCEPT ![n] = e]) = Len(s)
      /\ \A i \in 1..Len(s) : [s EXCEPT ![n] = e][i] = IF i = n THEN e ELSE s[i]
  BY <1>3, Replaced
<1> QED
  BY <1>4, <1>5, <1>6

(* What the host makes of an outcome: an attempt at most joins, and at     *)
(* most the one that waits is settled. *)
Waiting == IF Len(Recorded) > Len(attempts) THEN Len(Recorded) ELSE pending

LEMMA RecordTypes ==
  ASSUME Typed, Record
  PROVE  /\ Recorded \in Seq(Attempts)
         /\ \/ Recorded = attempts /\ ~(IsAct /\ result # "error")
            \/ Recorded = Append(attempts, Attempt) /\ IsAct /\ result # "error"
               /\ Attempt \in Attempts /\ Len(Recorded) = Len(attempts) + 1
         /\ attempts' \in Seq(Attempts) /\ Len(attempts') = Len(Recorded)
         /\ pending' \in 0..Len(attempts')
         /\ \A i \in 1..Len(attempts') :
              /\ attempts'[i].act \in 0..Len(acts)
              /\ attempts'[i].target = Recorded[i].target /\ attempts'[i].state = Recorded[i].state
              /\ attempts'[i].act = Recorded[i].act
              /\ attempts'[i].settled => Recorded[i].settled \/ Recorded[i].act = 0
                                          \/ acts[Recorded[i].act].measured
<1>1. Len(acts) \in Nat /\ Len(attempts) \in Nat /\ Attempt \in Attempts
      /\ Attempt.act \in 0..Len(acts)
  BY DEF Typed, Attempt, Attempts, IsAct
<1>2. /\ Recorded \in Seq(Attempts) /\ Len(Recorded) \in Nat
      /\ \/ Recorded = attempts /\ ~(IsAct /\ result # "error")
         \/ Recorded = Append(attempts, Attempt) /\ IsAct /\ result # "error"
            /\ Len(Recorded) = Len(attempts) + 1
      /\ \A i \in 1..Len(Recorded) : Recorded[i].act \in 0..Len(acts)
      /\ Waiting \in 0..Len(Recorded)
  BY <1>1 DEF Recorded, Typed, Waiting
<1>3. CASE attempts' = Recorded /\ pending' = Waiting
  BY <1>1, <1>2, <1>3
<1>4. CASE /\ Settles(Recorded, Waiting)
           /\ attempts' = [Recorded EXCEPT ![Waiting].settled = TRUE]
           /\ pending' = 0
  <2>1. Waiting \in 1..Len(Recorded)
    BY <1>2, <1>4 DEF Settles
  <2>2. Recorded \in Seq(Attempts) /\ attempts' = SettledAt(Recorded, Waiting)
    BY <1>2, <1>4 DEF SettledAt
  <2>3. /\ attempts' \in Seq(Attempts) /\ Len(attempts') = Len(Recorded)
        /\ \A i \in 1..Len(Recorded) :
             /\ attempts'[i].target = Recorded[i].target /\ attempts'[i].state = Recorded[i].state
             /\ attempts'[i].act = Recorded[i].act
             /\ attempts'[i].settled => i = Waiting \/ Recorded[i].settled
    BY <2>2, SettleTypes
  <2>4. Recorded[Waiting].act = 0 \/ acts[Recorded[Waiting].act].measured
    BY <1>4 DEF Settles
  <2> QED
    <3>1. pending' = 0
      BY <1>4
    <3>2. \A i \in 1..Len(attempts') :
              attempts'[i].settled => Recorded[i].settled \/ Recorded[i].act = 0
                                          \/ acts[Recorded[i].act].measured
      BY <2>4, <2>3
    <3>3. \A i \in 1..Len(attempts') :
              /\ attempts'[i].act \in 0..Len(acts)
              /\ attempts'[i].target = Recorded[i].target /\ attempts'[i].state = Recorded[i].state
              /\ attempts'[i].act = Recorded[i].act
      BY <1>2, <2>3
    <3> QED
      BY <1>1, <1>2, <2>3, <3>1, <3>2, <3>3
<1>5. \/ attempts' = Recorded /\ pending' = Waiting
      \/ /\ Settles(Recorded, Waiting)
         /\ attempts' = [Recorded EXCEPT ![Waiting].settled = TRUE]
         /\ pending' = 0
  BY DEF Record, Waiting
<1> QED
  BY <1>1, <1>2, <1>3, <1>4, <1>5

(* Every step keeps the types. *)
LEMMA TypedNext ==
  ASSUME Inv, Next
  PROVE  Typed'
<1>a. Typed
  BY ShapedIsTyped DEF Inv
<1>b. /\ [doc : {1, 2}, look : Looks] \subseteq States
      /\ Nothing \in [target : Targets, state : States] /\ None \in Decisions
      /\ Nothing.state \in States
  BY DEF States, Nothing, Targets, Names, None, Decisions
<1>c. \A n \in Nat : Item(n) \subseteq Item(n + 1)
  BY DEF Item
<1> USE <1>a, <1>b
<1>1. CASE HandOver
  BY <1>1 DEF HandOver, Typed, Decisions, world, ledger
<1>2. CASE Recover
  <2>1. PICK c \in Open, how \in {"inspected", "verified"} :
          /\ item' = [item EXCEPT ![c].tried = how]
          /\ \E tool \in {"inspect", "verify"} : Decides(tool, {c})
    BY <1>2, Zenon DEF Recover
  <2>2. item[c] \in Item(Len(acts)) /\ c \in controls /\ Len(acts) \in Nat
    BY DEF Typed, Open
  <2>3. item' \in [controls -> Item(Len(acts))]
    BY <2>1, <2>2 DEF Typed, Item
  <2>4. decision' \in Decisions /\ turn' = "bound"
    BY <1>2, <2>1, <2>2 DEF Decides, Decisions, Recover, Begins, world
  <2> QED
    BY <1>2, <2>3, <2>4, ExplorationConstants DEF Recover, Begins, world, Typed, Decisions
<1>3. CASE Plan
  <2>1. PICK c \in controls : Proposes(c)
    BY <1>3 DEF Plan, Eligible, Source
  <2>2. seen' \in States
    BY <1>3 DEF Plan, Begins, Typed
  <2> QED
    BY <1>3, <2>1, <2>2, ProposesTypes, ExplorationConstants
    DEF Plan, Begins, world, Typed, Inv, Decisions
<1>4. CASE AsksScore
  BY <1>4, ExplorationConstants DEF AsksScore, Begins, world, Typed, Decisions
<1>5. CASE Scored
  <2>1. PICK c \in controls : Proposes(c)
    BY <1>5 DEF Scored, Eligible, Source
  <2>2. seen' \in States
    BY <1>5 DEF Scored, Typed
  <2> QED
    BY <1>5, <2>1, <2>2, ProposesTypes, ExplorationConstants
    DEF Scored, world, Typed, Inv, Decisions
<1>6. CASE Revisit
  <2>1. [target |-> <<page.doc, "refresh">>, state |-> page] \in [target : Targets, state : States]
    BY DEF Typed, Targets, Names
  <2> QED
    BY <1>6, <2>1, ExplorationConstants DEF Revisit, Begins, Decides, Decisions, world, Typed
<1>7. CASE Rebind \/ RunEnds \/ Refused
  BY <1>7 DEF Rebind, RunEnds, Refused, Returns, world, ledger, host, Typed, Decisions
<1>8. CASE Drift
  <2>1. page' \in [doc : {1, 2}, look : Looks]
    BY <1>8 DEF Drift, Typed
  <2> QED
    BY <1>8, <2>1, ExplorationConstants DEF Drift, ledger, host, loop, Typed, Decisions
<1>9. CASE Select
  <2>1. UNCHANGED <<world, host, seen, decision>> /\ turn' = "done" /\ result' = "completed"
    BY <1>9 DEF Select, Returns
  <2>2. chosen' \in Nat
    <3>1. IsFiniteSet(controls)
      BY ExplorationConstants DEF Typed
    <3>2. Cardinality(decision.on) \in Nat
      BY <3>1, FS_Subset, FS_CardinalityType DEF Typed, Decisions
    <3> QED
      BY <1>9, <3>2 DEF Select, Typed
  <2>3. item' \in [controls -> Item(Len(acts))]
    <3> DEFINE taken == [c \in controls |-> IF c \in decision.on THEN Selected(item[c]) ELSE item[c]]
    <3>1. Observed(taken, page)
      BY <1>9 DEF Select
    <3>2. \A c \in controls : taken[c] \in Item(Len(acts))
      BY ItemChanges DEF Typed
    <3>3. Len(acts) \in Nat /\ page \in [doc : {1, 2}, look : Looks] /\ UNCHANGED controls
      BY <2>1 DEF Typed, world
    <3> HIDE DEF taken
    <3> QED
      BY <3>1, <3>2, <3>3, ObservedTypes
  <2> QED
    BY <2>1, <2>2, <2>3 DEF world, host, Typed, Decisions
<1>10. CASE Refresh
  <2>1. /\ UNCHANGED <<controls, acts, drift, chosen, host, seen, decision>>
        /\ turn' = "done" /\ result' = "completed" /\ Observed(item, page')
    BY <1>10 DEF Refresh, Returns
  <2>2. page' \in [doc : {1, 2}, look : Looks]
    BY <1>10 DEF Refresh, Executed, Inv, Current, Decided, Typed
  <2>3. item' \in [controls -> Item(Len(acts))]
    BY <2>1, <2>2, ObservedTypes DEF Typed
  <2> QED
    BY <2>1, <2>2, <2>3 DEF host, Typed, Decisions
<1>11. CASE Dispatch
  <2>1. PICK c \in decision.on, fate \in {"measured", "open", "unsettled"}, look \in Looks :
          LET live == [page EXCEPT !.look = look]
              act  == [target |-> <<page.doc, c>>, bound |-> seen, measured |-> fate = "measured"]
          IN  /\ page' = live
              /\ acts' = Append(acts, act)
              /\ Observed(IF fate = "unsettled" THEN item
                          ELSE [item EXCEPT ![c].check = fate, ![c].act = Len(acts')], live)
              /\ Returns(IF fate = "unsettled" THEN "error" ELSE "completed")
    BY <1>11, Zenon DEF Dispatch
  <2> DEFINE act == [target |-> <<page.doc, c>>, bound |-> seen, measured |-> fate = "measured"]
             given == IF fate = "unsettled" THEN item
                      ELSE [item EXCEPT ![c].check = fate, ![c].act = Len(acts')]
  <2>2. /\ UNCHANGED <<controls, drift, chosen, host, seen, decision>>
        /\ turn' = "done" /\ result' \in {"error", "completed"}
        /\ Observed(given, page') /\ acts' = Append(acts, act)
    BY <1>11, <2>1 DEF Dispatch, Returns
  <2>3. page' \in [doc : {1, 2}, look : Looks]
    BY <2>1 DEF Typed
  <2>4. c \in controls /\ act \in Actions
    BY DEF Typed, Decisions, Actions, Targets, Names
  <2>5. acts' \in Seq(Actions) /\ Len(acts') = Len(acts) + 1 /\ Len(acts) \in Nat
    BY <2>2, <2>4 DEF Typed
  <2>6. \A d \in controls : given[d] \in Item(Len(acts'))
    <3>1. \A d \in controls : item[d] \in Item(Len(acts')) /\ item[d] \in Item(Len(acts))
      BY <1>c, <2>5 DEF Typed
    <3>2. CASE fate = "unsettled"
      BY <3>1, <3>2
    <3>3. CASE fate # "unsettled"
      <4>1. given = [item EXCEPT ![c].check = fate, ![c].act = Len(acts')]
        BY <3>3
      <4>2. given[c] \in Item(Len(acts'))
        <5>1. given[c] = Acted(item[c], fate, Len(acts'))
          BY <2>4, <4>1 DEF Typed, Acted
        <5>2. item[c] \in Item(Len(acts')) /\ fate \in {"measured", "open"}
              /\ Len(acts') \in Nat /\ Len(acts') \in 0..Len(acts')
          BY <2>4, <2>5, <3>1, <3>3
        <5> HIDE DEF given
        <5> QED
          BY <5>1, <5>2, ActedOn
      <4>3. \A d \in controls : d # c => given[d] = item[d]
        BY <4>1 DEF Typed
      <4> QED
        BY <3>1, <4>2, <4>3
    <3> QED
      BY <3>2, <3>3
  <2> HIDE DEF given
  <2>7. item' \in [controls -> Item(Len(acts'))]
    BY <2>2, <2>3, <2>5, <2>6, ObservedTypes
  <2> QED
    BY <2>2, <2>3, <2>5, <2>7 DEF host, Typed, Decisions
<1>12. CASE Read
  <2>1. UNCHANGED <<controls, page, drift, chosen, host, seen, decision>>
        /\ turn' = "done" /\ result' = "completed"
    BY <1>12 DEF Read, Returns
  <2>2. CASE UNCHANGED <<item, acts>>
    BY <2>1, <2>2 DEF host, Typed, Decisions
  <2>3. CASE ~UNCHANGED <<item, acts>>
    <3>1. PICK c \in decision.on :
            /\ item' = [item EXCEPT ![c].check = "measured"]
            /\ acts' = [acts EXCEPT ![item[c].act].measured = TRUE]
      BY <1>12, <2>3 DEF Read
    <3>2. acts' \in Seq(Actions) /\ Len(acts') = Len(acts)
      <4>1. acts' = MeasuredAt(acts, item[c].act)
        BY <3>1 DEF MeasuredAt
      <4> QED
        BY <4>1, MeasureTypes DEF Typed
    <3>3. item' \in [controls -> Item(Len(acts))]
      <4>1. c \in controls /\ item' = [item EXCEPT ![c] = Concluded(item[c])]
        BY <3>1 DEF Typed, Decisions, Concluded
      <4>2. item[c] \in Item(Len(acts)) /\ Len(acts) \in Nat
        BY <4>1 DEF Typed
      <4> QED
        BY <4>1, <4>2, Conclusion DEF Typed
    <3> QED
      BY <2>1, <3>2, <3>3 DEF host, Typed, Decisions
  <2> QED
    BY <2>2, <2>3
<1>13. CASE Record
  <2>1. UNCHANGED <<world, ledger, steps, scores, refreshed>> /\ turn' = "plan"
        /\ decision' = None /\ result' = "none" /\ seen' = Nothing.state
    BY <1>13 DEF Record
  <2>2. stopped' \in BOOLEAN /\ proposed' \in [target : Targets, state : States]
    BY <1>13 DEF Record, Typed, Stops
  <2>3. attempts' \in Seq(Attempts) /\ pending' \in 0..Len(attempts')
        /\ \A i \in 1..Len(attempts') : attempts'[i].act \in 0..Len(acts)
    BY <1>13, RecordTypes
  <2> QED
    BY <2>1, <2>2, <2>3 DEF world, ledger, Typed, Decisions
<1> QED
  BY <1>1, <1>2, <1>3, <1>4, <1>5, <1>6, <1>7, <1>8, <1>9, <1>10, <1>11, <1>12, <1>13 DEF Next

-----------------------------------------------------------------------------
(* The steps that only decide: what is known of the page stays.            *)
Deciding ==
  HandOver \/ Recover \/ Plan \/ AsksScore \/ Scored \/ Revisit \/ Rebind \/ RunEnds \/ Refused \/ Drift

Same ==
  /\ UNCHANGED <<controls, acts, attempts>> /\ page'.doc = page.doc
  /\ \A c \in controls : /\ item'[c].doc = item[c].doc /\ item'[c].check = item[c].check
                          /\ item'[c].act = item[c].act

LEMMA ProposesSame ==
  ASSUME Typed, NEW c \in controls, Proposes(c)
  PROVE  \A d \in controls : /\ item'[d].doc = item[d].doc /\ item'[d].check = item[d].check
                             /\ item'[d].act = item[d].act
<1>1. CASE UNCHANGED item
  BY <1>1
<1>2. CASE \E ids : item' = [d \in controls |-> IF d \in ids THEN Asked(item[d]) ELSE item[d]]
  <2>1. \A d \in controls : /\ Asked(item[d]).doc = item[d].doc
                            /\ Asked(item[d]).check = item[d].check
                            /\ Asked(item[d]).act = item[d].act
    BY ItemChanges DEF Typed
  <2> QED
    BY <1>2, <2>1
<1> QED
  BY <1>1, <1>2 DEF Proposes

LEMMA DecidingSame ==
  ASSUME Inv, Deciding
  PROVE  Same
<1>a. Typed
  BY ShapedIsTyped DEF Inv
<1> USE <1>a
<1>1. CASE HandOver \/ AsksScore \/ Revisit \/ Rebind \/ RunEnds \/ Refused
  BY <1>1 DEF HandOver, AsksScore, Revisit, Rebind, RunEnds, Refused, Begins, Returns, world, ledger,
              host, Same
<1>2. CASE Recover
  <2>1. UNCHANGED <<controls, acts, attempts, page>>
    BY <1>2 DEF Recover, Begins, world
  <2>2. PICK c \in Open, how \in {"inspected", "verified"} :
          item' = [item EXCEPT ![c].tried = how]
    BY <1>2, Zenon DEF Recover
  <2> QED
    BY <2>1, <2>2 DEF Same, Typed, Item
<1>3. CASE Plan
  <2>1. PICK c \in controls : Proposes(c)
    BY <1>3 DEF Plan, Eligible, Source
  <2> QED
    BY <1>3, <2>1, ProposesSame DEF Plan, Begins, world, Same
<1>4. CASE Scored
  <2>1. PICK c \in controls : Proposes(c)
    BY <1>4 DEF Scored, Eligible, Source
  <2> QED
    BY <1>4, <2>1, ProposesSame DEF Scored, world, Same
<1>5. CASE Drift
  BY <1>5 DEF Drift, ledger, host, loop, Same, Typed
<1> QED
  BY <1>1, <1>2, <1>3, <1>4, <1>5 DEF Deciding

(* Where a deciding step leaves the program: it is over, it scores, it has *)
(* made a decision, or it stands where it stood. *)
Aim ==
  \E c \in controls : /\ decision'.on = {c}
                      /\ proposed' = [target |-> <<seen'.doc, c>>, state |-> seen']
                      /\ ~Tried(<<seen'.doc, c>>, seen')

Chooses ==
  /\ turn \in {"plan", "scoring"} /\ turn' = "bound" /\ ~stopped /\ ~stopped'
  /\ seen' \in [doc : {page.doc}, look : Looks]
  /\ decision'.tool \in {"act", "select", "refresh"} => Open = {}
  /\ decision'.tool = "act" => Aim
  /\ IF decision'.tool = "refresh" THEN ~refreshed /\ refreshed' ELSE UNCHANGED refreshed

LEMMA ProposesChooses ==
  ASSUME Typed, NEW c \in Eligible, Proposes(c), Open = {},
         turn \in {"plan", "scoring"}, ~stopped, ~stopped', seen' \in [doc : {page.doc}, look : Looks], UNCHANGED refreshed
  PROVE  Chooses
<1>1. c \in controls /\ ~Tried(<<seen'.doc, c>>, seen')
  BY DEF Eligible, Source, Selectable, Target
<1>2. CASE /\ proposed' = [target |-> Target(c), state |-> seen']
           /\ Decides("act", {c})
  <2>1. turn' = "bound" /\ decision' = [tool |-> "act", on |-> {c}]
    BY <1>2 DEF Decides
  <2>2. Aim
    BY <1>1, <1>2, <2>1 DEF Aim, Target
  <2> QED
    BY <2>1, <2>2 DEF Chooses
<1>3. CASE \E ids : Decides("select", ids)
  BY <1>3 DEF Decides, Chooses
<1> QED
  BY <1>2, <1>3 DEF Proposes

Moves ==
  \/ turn' \in {"handed", "over"} /\ UNCHANGED refreshed
  \/ /\ turn = "plan" /\ turn' = "scoring" /\ ~stopped /\ ~stopped' /\ Open = {}
     /\ UNCHANGED refreshed /\ seen' \in [doc : {page.doc}, look : Looks]
  \/ Chooses
  \/ turn = "bound" /\ turn' = "cleared" /\ UNCHANGED <<host, seen, decision, result>>
  \/ turn = "cleared" /\ turn' = "done" /\ result' = "error" /\ UNCHANGED <<host, seen, decision>>
  \/ UNCHANGED <<host, loop>>

LEMMA DecidingMoves ==
  ASSUME Inv, Deciding
  PROVE  Moves
<1> USE DEF Moves
<1>a. Typed
  BY ShapedIsTyped DEF Inv
<1>b. page \in [doc : {page.doc}, look : Looks]
  BY <1>a DEF Typed
<1>1. CASE HandOver \/ Rebind \/ RunEnds \/ Refused \/ Drift
  BY <1>1 DEF HandOver, Rebind, RunEnds, Refused, Drift, Returns, host, loop
<1>2. CASE AsksScore
  BY <1>b, <1>2 DEF AsksScore, Begins
<1>3. CASE Recover
  <2>1. \E tool \in {"inspect", "verify"} : \E on : Decides(tool, on)
    BY <1>3 DEF Recover
  <2>2. turn = "plan" /\ ~stopped /\ ~stopped' /\ seen' = page /\ UNCHANGED refreshed
    BY <1>3 DEF Recover, Begins
  <2> QED
    BY <1>b, <2>1, <2>2 DEF Decides, Chooses
<1>4. CASE Plan
  <2>1. PICK c \in Eligible : Proposes(c)
    BY <1>4, Zenon DEF Plan
  <2>2. turn = "plan" /\ ~stopped /\ ~stopped' /\ seen' = page /\ UNCHANGED refreshed /\ Open = {}
    BY <1>4 DEF Plan, Begins
  <2> QED
    BY <1>a, <1>b, <2>1, <2>2, ProposesChooses
<1>5. CASE Scored
  <2>1. PICK c \in Eligible : Proposes(c)
    BY <1>5, Zenon DEF Scored
  <2>2. /\ turn = "scoring" /\ ~stopped /\ ~stopped' /\ UNCHANGED refreshed /\ Open = {}
        /\ seen' \in [doc : {page.doc}, look : Looks]
    BY <1>5 DEF Scored, Inv, Awake, Quiet, Underway
  <2> QED
    BY <1>a, <2>1, <2>2, ProposesChooses
<1>6. CASE Revisit
  <2>1. /\ decision' = [tool |-> "refresh", on |-> {}] /\ turn' = "bound"
        /\ turn = "plan" /\ ~stopped /\ ~stopped' /\ seen' = page
        /\ ~refreshed /\ refreshed' = TRUE
    BY <1>6 DEF Revisit, Begins, Decides
  <2>2. Open = {}
    BY <1>6 DEF Revisit, Open
  <2> QED
    BY <1>b, <2>1, <2>2 DEF Chooses
<1> QED
  BY <1>1, <1>2, <1>3, <1>4, <1>5, <1>6 DEF Deciding

LEMMA DecidingKeeps ==
  ASSUME Inv, Deciding
  PROVE  Current' /\ Awake' /\ Quiet' /\ Aimed' /\ Watched' /\ Story'
<1>1. Same /\ Typed /\ Moves /\ Current /\ Awake /\ Quiet /\ Aimed /\ Watched /\ Story
  BY DecidingSame, DecidingMoves, ShapedIsTyped DEF Inv
<1>2. Open' = Open
  BY <1>1 DEF Same, Open
<1>3. page' \in [doc : {page.doc}, look : Looks] /\ DOMAIN acts' = DOMAIN acts
  BY <1>1, TypedNext DEF Same, Typed, Deciding, Next
<1>4. Current'
  <2>1. \A c \in controls' : item'[c].doc = page'.doc
    BY <1>1 DEF Same, Current
  <2>2. page'.doc = 1 \/ refreshed'
    BY <1>1 DEF Moves, Same, Current, Chooses, host
  <2>3. (Decided /\ decision.tool = "refresh" => page.doc = 1 /\ refreshed)'
    BY <1>1 DEF Moves, Same, Current, Chooses, host, loop, Decided
  <2> QED
    BY <2>1, <2>2, <2>3 DEF Current
<1>5. Awake'
  BY <1>1 DEF Moves, Same, Awake, Chooses, host, loop, Decided, Underway
<1>6. Quiet'
  <2>1. (turn = "scoring" => Open = {})'
    BY <1>1, <1>2 DEF Moves, Quiet, Chooses, loop
  <2>2. (Decided /\ decision.tool \in {"act", "select", "refresh"} => Open = {})'
    BY <1>1, <1>2 DEF Moves, Quiet, Chooses, loop, Decided
  <2>3. (\A c \in controls : item[c].check = "open" => item[c].act \in DOMAIN acts)'
    BY <1>1 DEF Same, Quiet
  <2> QED
    BY <2>1, <2>2, <2>3 DEF Quiet
<1>7. Aimed'
  <2>1. CASE Chooses
    BY <1>1, <2>1 DEF Chooses, Aim, Aimed, Same, Tried
  <2>2. CASE ~Chooses
    BY <1>1, <2>2 DEF Moves, Aimed, Same, Tried, Decided, host, loop
  <2> QED
    BY <2>1, <2>2
<1>8. (Running' => Running) /\ (Running' => (Untold' <=> Untold)) /\ (Untold' => UNCHANGED proposed)
  BY <1>1 DEF Moves, Running, Untold, Chooses, Awake, Underway, host, loop
<1>9. Watched'
  BY <1>1, <1>3, <1>8 DEF Watched, Same
<1>10. Story'
  <2>1. Running' => Told' = Told
    BY <1>1, <1>8 DEF Told, Same
  <2> QED
    BY <1>1, <1>8, <2>1 DEF Story, Same
<1> QED
  BY <1>4, <1>5, <1>6, <1>7, <1>9, <1>10

-----------------------------------------------------------------------------
(* The tools.                                                              *)

(* A decided action finds every earlier one measured, and not yet done. *)
LEMMA AimIsNew ==
  ASSUME Inv, turn = "cleared", decision.tool = "act", NEW c \in decision.on
  PROVE  /\ Open = {} /\ c \in controls /\ seen.doc = page.doc
         /\ proposed = [target |-> <<page.doc, c>>, state |-> seen]
         /\ \A i \in 1..Len(acts) :
              acts[i].measured /\ ~(acts[i].target = <<page.doc, c>> /\ acts[i].bound = seen)
<1>1. /\ Open = {} /\ c \in controls /\ seen.doc = page.doc
      /\ proposed = [target |-> <<page.doc, c>>, state |-> seen]
      /\ ~Tried(proposed.target, seen)
  BY DEF Inv, Quiet, Decided, Awake, Aimed
<1>2. Running /\ ~Untold /\ acts \in Seq(Actions)
  BY DEF Inv, Shaped, Awake, Underway, Running, Untold
<1>3. \A i \in 1..Len(acts) : acts[i].measured
  BY <1>1, <1>2 DEF Inv, Watched, Open
<1>4. \A i \in 1..Len(acts) : \E k \in DOMAIN attempts : Tells(attempts[k], i, acts[i])
  BY <1>2 DEF Inv, Story, Told
<1> QED
  BY <1>1, <1>3, <1>4 DEF Tells, Tried

LEMMA DispatchKeeps ==
  ASSUME Inv, Dispatch
  PROVE  /\ Current' /\ Awake' /\ Quiet' /\ Aimed' /\ Watched' /\ Story'
         /\ Len(acts') = Len(acts) + 1
         /\ \E c \in decision.on : /\ acts'[Len(acts')].target = <<page.doc, c>>
                                   /\ acts'[Len(acts')].bound = seen
<1>1. /\ turn = "cleared" /\ decision.tool = "act"
      /\ UNCHANGED <<controls, drift, chosen, host, seen, decision>> /\ turn' = "done"
  BY DEF Dispatch, Executed, Returns
<1>2. PICK c \in decision.on, fate \in {"measured", "open", "unsettled"}, look \in Looks :
        LET live == [page EXCEPT !.look = look]
            act  == [target |-> <<page.doc, c>>, bound |-> seen, measured |-> fate = "measured"]
        IN  /\ page' = live
            /\ acts' = Append(acts, act)
            /\ Observed(IF fate = "unsettled" THEN item
                        ELSE [item EXCEPT ![c].check = fate, ![c].act = Len(acts')], live)
            /\ Returns(IF fate = "unsettled" THEN "error" ELSE "completed")
  BY Zenon DEF Dispatch
<1> DEFINE act == [target |-> <<page.doc, c>>, bound |-> seen, measured |-> fate = "measured"]
           given == IF fate = "unsettled" THEN item
                    ELSE [item EXCEPT ![c].check = fate, ![c].act = Len(acts')]
<1>3. /\ page'.doc = page.doc /\ acts' = Append(acts, act) /\ Observed(given, page')
      /\ result' = IF fate = "unsettled" THEN "error" ELSE "completed"
  <2>1. page \in [doc : {1, 2}, look : Looks]
    BY DEF Inv, Shaped, TypeOK
  <2> QED
    BY <1>2, <2>1 DEF Returns
<1>4. /\ Typed /\ Current /\ Awake /\ Quiet /\ Watched /\ Story /\ Running /\ ~Untold
  BY <1>1, ShapedIsTyped DEF Inv, Awake, Underway, Running, Untold
<1>5. /\ Open = {} /\ c \in controls /\ seen.doc = page.doc
      /\ proposed = [target |-> <<page.doc, c>>, state |-> seen]
      /\ \A i \in 1..Len(acts) : acts[i].measured
  BY <1>1, AimIsNew
<1>6. /\ acts \in Seq(Actions) /\ Len(acts) \in Nat /\ Len(acts') = Len(acts) + 1
      /\ DOMAIN acts = 1..Len(acts) /\ DOMAIN acts' = 1..(Len(acts) + 1)
      /\ \A i \in 1..Len(acts) : acts'[i] = acts[i]
      /\ acts'[Len(acts) + 1] = act
  BY <1>3, <1>4 DEF Typed
<1>7. /\ \A d \in controls : given[d].doc = page.doc
      /\ \A d \in controls : given[d].check = "open" => d = c
      /\ fate = "open" => given[c].check = "open" /\ given[c].act = Len(acts')
      /\ given[c].check = "open" => fate = "open"
  <2>1. \A d \in controls : item[d] \in Item(Len(acts)) /\ item[d].doc = page.doc
                            /\ item[d].check # "open"
    BY <1>4, <1>5 DEF Typed, Current, Open
  <2>2. CASE fate = "unsettled"
    BY <1>5, <2>1, <2>2
  <2>3. CASE fate # "unsettled"
    <3>1. /\ given[c].check = fate /\ given[c].act = Len(acts') /\ given[c].doc = item[c].doc
          /\ \A d \in controls : d # c => given[d] = item[d]
      BY <1>4, <1>5, <2>1, <2>3 DEF Typed, Item
    <3> HIDE DEF given
    <3> QED
      BY <1>5, <2>1, <3>1
  <2> QED
    BY <2>2, <2>3
<1>8. /\ \A d \in controls : item'[d] = Fresh(page') \/ item'[d] = given[d]
      /\ \A d \in controls : given[d].check # "measured" => item'[d] = given[d]
  <2> HIDE DEF given
  <2> QED
    BY <1>1, <1>3, <1>7, ObservedItems
<1>9. Fresh(page').doc = page'.doc /\ Fresh(page').check # "open"
  BY DEF Fresh
<1> HIDE DEF given
<1>10. Current'
  <2>1. \A d \in controls' : item'[d].doc = page'.doc
    BY <1>1, <1>3, <1>7, <1>8, <1>9
  <2>2. UNCHANGED refreshed /\ ~Decided'
    BY <1>1 DEF host, Decided
  <2> QED
    BY <1>3, <1>4, <2>1, <2>2 DEF Current
<1>11. Awake'
  BY <1>1, <1>3, <1>4 DEF Awake, Underway, Decided, host
<1>12. Quiet'
  <2>1. \A d \in controls' : item'[d].check = "open" => item'[d].act \in DOMAIN acts'
    BY <1>1, <1>6, <1>7, <1>8, <1>9
  <2> QED
    BY <1>1, <2>1 DEF Quiet, Decided
<1>13. Aimed'
  BY <1>1 DEF Aimed, Decided
<1>14. Watched'
  <2>1. Running' => fate # "unsettled"
    BY <1>1, <1>3 DEF Running
  <2>2. CASE fate = "measured"
    <3>1. act.measured
      BY <2>2
    <3>2. \A i \in DOMAIN acts' : acts'[i].measured
      BY <1>5, <1>6, <3>1
    <3> QED
      BY <3>2 DEF Watched
  <2>3. CASE fate = "open"
    <3>1. item'[c].check = "open" /\ item'[c].act = Len(acts')
      BY <1>5, <1>7, <1>8, <2>3
    <3>2. \A i \in DOMAIN acts' : acts'[i].measured \/ i = Len(acts')
      <4> HIDE DEF act
      <4> QED
        BY <1>5, <1>6
    <3> QED
      BY <1>1, <1>5, <3>1, <3>2 DEF Watched
  <2> QED
    BY <2>1, <2>2, <2>3 DEF Watched
<1>15. Story'
  <2>1. Running' => Untold' /\ Told' = Len(acts) /\ Told = Len(acts)
    <3>1. Told = Len(acts)
      BY <1>4 DEF Told
    <3>2. Running' => Untold'
      <4>1. turn' = "done" /\ decision'.tool = "act" /\ result' \in {"completed", "error"}
        BY <1>1, <1>3
      <4> QED
        BY <4>1 DEF Running, Untold
    <3>3. Untold' => Told' = Len(acts)
      BY <1>6 DEF Told
    <3> QED
      BY <3>1, <3>2, <3>3
  <2>2. attempts' = attempts /\ proposed' = proposed
    BY <1>1 DEF host
  <2>3. \A i \in 1..Len(acts) : \E k \in DOMAIN attempts' : Tells(attempts'[k], i, acts'[i])
    BY <1>4, <1>6, <2>2 DEF Story, Told
  <2>4. acts' # << >> /\ acts'[Len(acts')].target = proposed'.target
        /\ acts'[Len(acts')].bound = proposed'.state
    BY <1>5, <1>6, <2>2
  <2>5. ASSUME Running'
        PROVE  /\ \A i \in 1..Told' : \E k \in DOMAIN attempts' : Tells(attempts'[k], i, acts'[i])
               /\ \A k \in DOMAIN attempts' : attempts'[k].act <= Told'
               /\ \A k, m \in DOMAIN attempts' :
                    k < m /\ attempts'[k].act # 0 /\ attempts'[m].act # 0
                      => attempts'[k].act < attempts'[m].act
    BY <1>4, <2>1, <2>2, <2>3, <2>5 DEF Story
  <2> QED
    BY <2>4, <2>5 DEF Story
<1> QED
  BY <1>6, <1>10, <1>11, <1>12, <1>13, <1>14, <1>15

(* A tool that does nothing to the page keeps the story. *)
LEMMA QuietToolStory ==
  ASSUME Inv, turn = "cleared", turn' = "done", decision.tool # "act", Len(acts') = Len(acts),
         UNCHANGED <<host, decision>>, acts' \in Seq(Actions), acts \in Seq(Actions),
         \A i \in 1..Len(acts) : /\ acts'[i].target = acts[i].target
                                 /\ acts'[i].bound = acts[i].bound
                                 /\ acts[i].measured => acts'[i].measured
  PROVE  Running /\ Story'
<1>1. Running /\ ~Untold /\ ~Untold' /\ Story
  BY DEF Inv, Awake, Underway, Running, Untold
<1>2. Told = Len(acts) /\ Told' = Len(acts) /\ attempts' = attempts
  BY <1>1 DEF Told, host
<1>3. \A i \in 1..Len(acts) : \A a : Tells(a, i, acts[i]) => Tells(a, i, acts'[i])
  BY DEF Tells
<1>4. \A i \in 1..Told' : \E k \in DOMAIN attempts' : Tells(attempts'[k], i, acts'[i])
  BY <1>1, <1>2, <1>3 DEF Story
<1> QED
  BY <1>1, <1>2, <1>4 DEF Story

LEMMA SelectKeeps ==
  ASSUME Inv, Select
  PROVE  Current' /\ Awake' /\ Quiet' /\ Aimed' /\ Watched' /\ Story'
<1>1. /\ turn = "cleared" /\ decision.tool = "select"
      /\ UNCHANGED <<world, host, seen, decision>> /\ turn' = "done" /\ result' = "completed"
  BY DEF Select, Executed, Returns
<1>2. /\ Typed /\ Current /\ Awake /\ Quiet /\ Watched /\ Open = {}
  BY <1>1, ShapedIsTyped DEF Inv, Quiet, Decided
<1> DEFINE given == [c \in controls |-> IF c \in decision.on THEN Selected(item[c]) ELSE item[c]]
<1>3. Observed(given, page) /\ UNCHANGED <<controls, page, acts>>
  BY <1>1 DEF Select, world
<1>4. \A d \in controls : given[d].doc = page.doc /\ given[d].check # "open"
  <2>1. \A d \in controls : item[d] \in Item(Len(acts)) /\ item[d].doc = page.doc
                            /\ item[d].check # "open"
    BY <1>2 DEF Typed, Current, Open
  <2> QED
    BY <1>2, <2>1, ItemChanges DEF Typed
<1>5. \A d \in controls : item'[d] = Fresh(page) \/ item'[d] = given[d]
  <2> HIDE DEF given
  <2> QED
    BY <1>3, ObservedItems
<1>6. Fresh(page).doc = page.doc /\ Fresh(page).check # "open"
  BY DEF Fresh
<1> HIDE DEF given
<1>7. \A d \in controls : item'[d].doc = page.doc /\ item'[d].check # "open"
  BY <1>4, <1>5, <1>6
<1>8. Running /\ Story'
  BY <1>1, <1>2, <1>3, QuietToolStory DEF Typed
<1>9. \A i \in DOMAIN acts : acts[i].measured
  BY <1>2, <1>8 DEF Watched, Open
<1>10. Current'
  BY <1>1, <1>2, <1>3, <1>7 DEF Current, Decided, host
<1>11. Awake' /\ Quiet' /\ Aimed'
  BY <1>1, <1>2, <1>3, <1>7 DEF Awake, Quiet, Aimed, Underway, Decided, host
<1>12. Watched'
  BY <1>3, <1>9 DEF Watched
<1> QED
  BY <1>8, <1>10, <1>11, <1>12

LEMMA RefreshKeeps ==
  ASSUME Inv, Refresh
  PROVE  Current' /\ Awake' /\ Quiet' /\ Aimed' /\ Watched' /\ Story'
<1>1. /\ turn = "cleared" /\ decision.tool = "refresh"
      /\ UNCHANGED <<controls, acts, drift, chosen, host, seen, decision>>
      /\ turn' = "done" /\ result' = "completed" /\ Observed(item, page')
      /\ page'.doc = page.doc + 1
  BY DEF Refresh, Executed, Returns
<1>2. /\ Typed /\ Current /\ Awake /\ Quiet /\ Watched /\ Open = {} /\ refreshed
  BY <1>1, ShapedIsTyped DEF Inv, Quiet, Current, Decided
<1>3. \A d \in controls : item[d].doc # page'.doc
  BY <1>1, <1>2 DEF Current, Typed
<1>4. \A d \in controls : item'[d] = Fresh(page')
  BY <1>1, <1>3, ObservedItems
<1>5. \A d \in controls : item'[d].doc = page'.doc /\ item'[d].check # "open"
  BY <1>4 DEF Fresh
<1>6. Running /\ Story'
  BY <1>1, <1>2, QuietToolStory DEF Typed
<1>7. \A i \in DOMAIN acts : acts[i].measured
  BY <1>2, <1>6 DEF Watched, Open
<1>8. Current'
  BY <1>1, <1>2, <1>5 DEF Current, Decided, host
<1>9. Awake' /\ Quiet' /\ Aimed'
  BY <1>1, <1>2, <1>5 DEF Awake, Quiet, Aimed, Underway, Decided, host
<1>10. Watched'
  BY <1>1, <1>7 DEF Watched
<1> QED
  BY <1>6, <1>8, <1>9, <1>10

LEMMA ReadKeeps ==
  ASSUME Inv, Read
  PROVE  /\ Current' /\ Awake' /\ Quiet' /\ Aimed' /\ Watched' /\ Story'
         /\ Len(acts') = Len(acts)
<1>1. /\ turn = "cleared" /\ decision.tool \in {"inspect", "verify"}
      /\ UNCHANGED <<controls, page, drift, chosen, host, seen, decision>>
      /\ turn' = "done" /\ result' = "completed"
  BY DEF Read, Returns
<1>2. /\ Typed /\ Current /\ Awake /\ Quiet /\ Watched
  BY ShapedIsTyped DEF Inv
<1>3. /\ Len(acts') = Len(acts) /\ acts' \in Seq(Actions)
      /\ \A i \in 1..Len(acts) : /\ acts'[i].target = acts[i].target
                                 /\ acts'[i].bound = acts[i].bound
                                 /\ acts[i].measured => acts'[i].measured
      /\ \A d \in controls : /\ item'[d].doc = item[d].doc /\ item'[d].act = item[d].act
                             /\ item'[d].check = "open" => item[d].check = "open"
                             /\ \/ item'[d].check = item[d].check
                                \/ item[d].act \in 1..Len(acts) => acts'[item[d].act].measured
  <2>1. CASE UNCHANGED <<item, acts>>
    BY <1>2, <2>1 DEF Typed
  <2>2. CASE \E c \in decision.on :
               /\ item' = [item EXCEPT ![c].check = "measured"]
               /\ acts' = [acts EXCEPT ![item[c].act].measured = TRUE]
    <3>1. PICK c \in decision.on :
            /\ item' = [item EXCEPT ![c].check = "measured"]
            /\ acts' = [acts EXCEPT ![item[c].act].measured = TRUE]
      BY <2>2
    <3>2. acts' = MeasuredAt(acts, item[c].act)
      BY <3>1 DEF MeasuredAt
    <3>3. c \in controls /\ item' = [item EXCEPT ![c] = Concluded(item[c])]
      BY <1>2, <3>1 DEF Typed, Decisions, Concluded
    <3>4. item[c] \in Item(Len(acts)) /\ Len(acts) \in Nat /\ acts \in Seq(Actions)
      BY <1>2, <3>3 DEF Typed
    <3>5. /\ Len(acts') = Len(acts) /\ acts' \in Seq(Actions)
          /\ \A i \in 1..Len(acts) : /\ acts'[i].target = acts[i].target
                                     /\ acts'[i].bound = acts[i].bound
                                     /\ (acts'[i].measured <=> i = item[c].act \/ acts[i].measured)
      BY <3>2, <3>4, MeasureTypes
    <3>6. /\ item'[c] = Concluded(item[c]) /\ Concluded(item[c]).check = "measured"
          /\ Concluded(item[c]).act = item[c].act /\ Concluded(item[c]).doc = item[c].doc
          /\ \A d \in controls : d # c => item'[d] = item[d]
      BY <1>2, <3>3, <3>4, Conclusion DEF Typed
    <3> QED
      BY <3>5, <3>6
  <2> QED
    BY <2>1, <2>2 DEF Read
<1>4. Running /\ Story'
  BY <1>1, <1>2, <1>3, QuietToolStory DEF Typed
<1>5. Current'
  BY <1>1, <1>2, <1>3 DEF Current, Decided, host
<1>6. Awake' /\ Aimed'
  BY <1>1, <1>2 DEF Awake, Aimed, Underway, Decided, host
<1>7. DOMAIN acts = 1..Len(acts) /\ DOMAIN acts' = 1..Len(acts)
  BY <1>2, <1>3 DEF Typed
<1>8. Quiet'
  BY <1>1, <1>2, <1>3, <1>7 DEF Quiet, Decided
<1>9. Watched'
  <2>1. \A i \in DOMAIN acts' : acts'[i].measured
           \/ \E d \in controls' : item'[d].check = "open" /\ item'[d].act = i
    <3>1. TAKE i \in DOMAIN acts'
    <3>2. CASE acts[i].measured
      BY <1>3, <1>7, <3>2
    <3>3. CASE ~acts[i].measured
      <4>1. PICK d \in controls : item[d].check = "open" /\ item[d].act = i
        BY <1>2, <1>4, <1>7, <3>3 DEF Watched
      <4> QED
        BY <1>1, <1>3, <1>7, <4>1
    <3> QED
      BY <3>2, <3>3
  <2> QED
    BY <2>1 DEF Watched
<1> QED
  BY <1>3, <1>4, <1>5, <1>6, <1>8, <1>9

-----------------------------------------------------------------------------
(* An attempt of a later action, or of no action, keeps the order. *)
Ordered(s) ==
  \A k, m \in 1..Len(s) : k < m /\ s[k].act # 0 /\ s[m].act # 0 => s[k].act < s[m].act

LEMMA OneMore ==
  ASSUME NEW s \in Seq(Attempts), NEW a \in Attempts, Ordered(s),
         a.act = 0 \/ \A k \in 1..Len(s) : s[k].act < a.act
  PROVE  Ordered(Append(s, a))
<1> DEFINE t == Append(s, a)
<1>1. /\ Len(t) = Len(s) + 1 /\ Len(s) \in Nat /\ t[Len(s) + 1] = a
      /\ \A k \in 1..Len(s) : t[k] = s[k]
  OBVIOUS
<1> HIDE DEF t
<1> SUFFICES ASSUME NEW k \in 1..Len(t), NEW m \in 1..Len(t), k < m, t[k].act # 0, t[m].act # 0
             PROVE  t[k].act < t[m].act
  BY DEF Ordered, t
<1>2. k \in 1..Len(s) /\ t[k] = s[k]
  BY <1>1
<1>3. CASE m \in 1..Len(s)
  BY <1>1, <1>2, <1>3 DEF Ordered
<1>4. CASE m = Len(s) + 1
  BY <1>1, <1>2, <1>4
<1> QED
  BY <1>1, <1>3, <1>4

(* The outcome: what was untold is told, in its turn. *)
LEMMA RecordKeeps ==
  ASSUME Inv, Record
  PROVE  Current' /\ Awake' /\ Quiet' /\ Aimed' /\ Watched' /\ Story'
<1>1. /\ turn = "done" /\ turn' = "plan" /\ decision' = None
      /\ UNCHANGED <<controls, page, acts, item, refreshed>>
      /\ stopped' = (stopped \/ Stops)
  BY DEF Record, world, ledger
<1>2. /\ Typed /\ Current /\ Awake /\ Quiet /\ Watched /\ Story
  BY ShapedIsTyped DEF Inv
<1>3. Current' /\ Awake' /\ Quiet' /\ Aimed'
  BY <1>1, <1>2 DEF Current, Awake, Quiet, Aimed, Underway, Decided
<1>4. Running' => Running
  BY <1>1 DEF Running, Stops, IsAct
<1>5. Watched'
  BY <1>1, <1>2, <1>4 DEF Watched
<1>6. ASSUME Running' PROVE Story'
  <2>1. Running /\ Told' = Len(acts) /\ ~Untold' /\ Len(acts) \in Nat /\ acts \in Seq(Actions)
    BY <1>1, <1>2, <1>4, <1>6 DEF Told, Untold, Typed
  <2>2. /\ \A i \in 1..Told : \E k \in 1..Len(attempts) : Tells(attempts[k], i, acts[i])
        /\ Ordered(attempts)
        /\ \A k \in 1..Len(attempts) : attempts[k].act <= Told /\ attempts[k].act \in Nat
        /\ attempts \in Seq(Attempts) /\ Len(attempts) \in Nat
    <3>1. /\ attempts \in Seq(Attempts) /\ Len(attempts) \in Nat
          /\ DOMAIN attempts = 1..Len(attempts)
          /\ \A k \in 1..Len(attempts) : attempts[k].act \in Nat
      BY <1>2 DEF Typed
    <3> QED
      BY <1>2, <2>1, <3>1 DEF Story, Ordered
  <2>3. /\ attempts' \in Seq(Attempts) /\ Len(attempts') = Len(Recorded)
        /\ \A k \in 1..Len(Recorded) :
             /\ attempts'[k].act = Recorded[k].act
             /\ attempts'[k].target = Recorded[k].target /\ attempts'[k].state = Recorded[k].state
             /\ attempts'[k].settled => Recorded[k].settled \/ Recorded[k].act = 0
                                         \/ acts[Recorded[k].act].measured
    BY <1>2, RecordTypes
  <2>4. /\ \A i \in 1..Len(acts) : \E k \in 1..Len(Recorded) : Tells(Recorded[k], i, acts[i])
        /\ Ordered(Recorded)
        /\ \A k \in 1..Len(Recorded) : Recorded[k].act <= Len(acts)
    <3>1. CASE Recorded = attempts /\ ~(IsAct /\ result # "error")
      <4>1. Told = Len(acts)
        BY <3>1 DEF Told, Untold, IsAct
      <4> QED
        BY <2>2, <3>1, <4>1
    <3>2. CASE /\ Recorded = Append(attempts, Attempt) /\ IsAct /\ result # "error"
               /\ Attempt \in Attempts /\ Len(Recorded) = Len(attempts) + 1
      <4>1. /\ Recorded[Len(attempts) + 1] = Attempt
            /\ \A k \in 1..Len(attempts) : Recorded[k] = attempts[k]
        BY <2>2, <3>2
      <4>2. CASE decision.tool = "act"
        <5>1. Untold /\ Told = Len(acts) - 1 /\ acts # << >>
              /\ acts[Len(acts)].target = proposed.target /\ acts[Len(acts)].bound = proposed.state
          BY <1>1, <1>2, <2>1, <3>2, <4>2 DEF Untold, Told, Awake, Typed, Story
        <5>2. Attempt.act = Len(acts) /\ Tells(Attempt, Len(acts), acts[Len(acts)])
          BY <4>2, <5>1 DEF Attempt, Tells
        <5>3. \A i \in 1..Len(acts) : \E k \in 1..Len(Recorded) : Tells(Recorded[k], i, acts[i])
          <6>1. \A i \in 1..Len(acts) : i \in 1..Told \/ i = Len(acts)
            BY <2>1, <5>1
          <6>2. Len(attempts) + 1 \in 1..Len(Recorded)
            BY <2>2, <3>2
          <6>3. \A k \in 1..Len(attempts) : k \in 1..Len(Recorded)
            BY <2>2, <3>2
          <6> QED
            BY <2>2, <4>1, <5>2, <6>1, <6>2, <6>3
        <5>4. \A k \in 1..Len(attempts) : attempts[k].act < Len(acts) /\ attempts[k].act \in Nat
          BY <2>1, <2>2, <5>1
        <5>5. Ordered(Recorded)
          BY <2>2, <3>2, <5>2, <5>4, OneMore
        <5>6. \A k \in 1..Len(Recorded) : Recorded[k].act <= Len(acts)
          BY <2>1, <2>2, <3>2, <4>1, <5>2, <5>4
        <5> QED
          BY <5>3, <5>5, <5>6
      <4>3. CASE decision.tool # "act"
        <5>1. Told = Len(acts) /\ Attempt.act = 0
          BY <4>3 DEF Told, Untold, Attempt
        <5>2. \A k \in 1..Len(attempts) : k \in 1..Len(Recorded)
          BY <2>2, <3>2
        <5>3. \A i \in 1..Len(acts) : \E k \in 1..Len(Recorded) : Tells(Recorded[k], i, acts[i])
          BY <2>2, <4>1, <5>1, <5>2
        <5>4. Ordered(Recorded)
          BY <2>2, <3>2, <5>1, OneMore
        <5>5. \A k \in 1..Len(Recorded) : Recorded[k].act <= Len(acts)
          BY <2>1, <2>2, <3>2, <4>1, <5>1
        <5> QED
          BY <5>3, <5>4, <5>5
      <4> QED
        BY <4>2, <4>3
    <3> QED
      BY <1>2, <3>1, <3>2, RecordTypes
  <2>5. \A i \in 1..Len(acts), k \in 1..Len(Recorded) :
          Tells(Recorded[k], i, acts[i]) => Tells(attempts'[k], i, acts[i])
    BY <2>3 DEF Tells
  <2>6. DOMAIN attempts' = 1..Len(Recorded)
    BY <2>3
  <2>7. \A i \in 1..Told' : \E k \in DOMAIN attempts' : Tells(attempts'[k], i, acts'[i])
    BY <1>1, <2>1, <2>4, <2>5, <2>6
  <2>8. /\ \A k, m \in DOMAIN attempts' :
             k < m /\ attempts'[k].act # 0 /\ attempts'[m].act # 0
               => attempts'[k].act < attempts'[m].act
        /\ \A k \in DOMAIN attempts' : attempts'[k].act <= Told'
    BY <2>1, <2>3, <2>4, <2>6 DEF Ordered
  <2> QED
    BY <2>1, <2>7, <2>8 DEF Story
<1>7. ~Running' => Story'
  BY DEF Story
<1> QED
  BY <1>3, <1>5, <1>6, <1>7

-----------------------------------------------------------------------------
(* The first offer of the page. *)
LEMMA InitInv == Init => Inv
<1> SUFFICES ASSUME Init PROVE Inv
  OBVIOUS
<1> DEFINE first == IF Cardinality(controls) <= Samples THEN "selected" ELSE "free"
<1>1. /\ controls \in Pages /\ page \in [doc : {1}, look : Looks]
      /\ turn = "plan" /\ seen = Nothing.state /\ decision = None /\ result = "none"
      /\ attempts = <<>> /\ proposed = Nothing /\ pending = 0 /\ stopped = FALSE
      /\ steps = 0 /\ scores = 0 /\ refreshed = FALSE /\ acts = <<>> /\ drift = 0
      /\ item = [c \in controls |-> [Fresh(page) EXCEPT !.check = first]]
      /\ first \in {"selected", "free"}
  BY DEF Init
<1>2. chosen \in Nat
  BY <1>1, FS_CardinalityType, ExplorationConstants DEF Init
<1> HIDE DEF first
<1>3. [Fresh(page) EXCEPT !.check = first] \in Item(0)
      /\ [Fresh(page) EXCEPT !.check = first].check # "open"
      /\ [Fresh(page) EXCEPT !.check = first].doc = page.doc
  <2>1. Fresh(page) \in Item(0) /\ Fresh(page).doc = page.doc
    BY <1>1 DEF Fresh, Item
  <2>2. ASSUME NEW r \in Item(0)
        PROVE  [r EXCEPT !.check = first] \in Item(0)
    BY <1>1 DEF Item
  <2>3. ASSUME NEW r \in Item(0)
        PROVE  [r EXCEPT !.check = first].check # "open" /\ [r EXCEPT !.check = first].doc = r.doc
    BY <1>1 DEF Item
  <2> QED
    BY <2>1, <2>2, <2>3
<1>4. item \in [controls -> Item(0)] /\ \A c \in controls : item[c].check # "open" /\ item[c].doc = page.doc
  BY <1>1, <1>3
<1>5. Len(acts) = 0 /\ Len(attempts) = 0 /\ DOMAIN acts = {} /\ DOMAIN attempts = {}
      /\ acts \in Seq(Actions) /\ attempts \in Seq(Attempts)
  BY <1>1
<1>6. /\ Nothing \in [target : Targets, state : States] /\ None \in Decisions
      /\ Nothing.state \in States
  BY DEF States, Nothing, Targets, Names, None, Decisions
<1>7. Typed
  <2>1. page \in [doc : {1, 2}, look : Looks] /\ item \in [controls -> Item(Len(acts))]
    BY <1>1, <1>4, <1>5
  <2>2. pending \in 0..Len(attempts) /\ \A i \in 1..Len(attempts) : attempts[i].act \in 0..Len(acts)
    BY <1>1, <1>5
  <2>3. steps \in 0..MaxSteps /\ scores \in 0..MaxScores /\ drift \in 0..MaxDrift
    BY <1>1, ExplorationConstants
  <2>4. seen \in States /\ decision \in Decisions /\ proposed \in [target : Targets, state : States]
    BY <1>1, <1>6
  <2> QED
    BY <1>1, <1>2, <1>5, <2>1, <2>2, <2>3, <2>4 DEF Typed
<1>8. Current /\ Awake /\ Quiet /\ Aimed /\ Watched
  BY <1>1, <1>4, <1>5 DEF Current, Awake, Quiet, Aimed, Watched, Decided, Underway
<1>9. Story
  BY <1>1, <1>5 DEF Story, Told, Untold
<1> QED
  BY <1>7, <1>8, <1>9, ShapedIsTyped DEF Inv

(* Every step keeps the invariant. *)
LEMMA InvNext ==
  ASSUME Inv, [Next]_vars
  PROVE  Inv'
<1>1. CASE Next
  <2>1. Shaped'
    BY <1>1, TypedNext, ShapedIsTyped, PTL
  <2>2. CASE Deciding
    BY <2>1, <2>2, DecidingKeeps DEF Inv
  <2>3. CASE Dispatch
    BY <2>1, <2>3, DispatchKeeps DEF Inv
  <2>4. CASE Select
    BY <2>1, <2>4, SelectKeeps DEF Inv
  <2>5. CASE Refresh
    BY <2>1, <2>5, RefreshKeeps DEF Inv
  <2>6. CASE Read
    BY <2>1, <2>6, ReadKeeps DEF Inv
  <2>7. CASE Record
    BY <2>1, <2>7, RecordKeeps DEF Inv
  <2> QED
    BY <1>1, <2>2, <2>3, <2>4, <2>5, <2>6, <2>7 DEF Next, Deciding
<1>2. CASE UNCHANGED vars
  BY <1>2 DEF vars, Inv, Shaped, TypeOK, Decisions, Current, Awake, Quiet, Open, Aimed, Tried, Watched,
              Story, Running, Told, Untold, Decided, Underway
<1> QED
  BY <1>1, <1>2

(* Every turn of the program, every look at the page and every refresh     *)
(* keeps the seven parts together (planner, product host, executor). *)
THEOREM Invariance == Spec => []Inv
BY InitInv, InvNext, PTL DEF Spec

-----------------------------------------------------------------------------
(* Every variable keeps the type the code gives it, and the calls to the   *)
(* scorer and the steps of the program stay within their limits. *)
THEOREM ExplorationTypes == Spec => []TypeOK
<1>1. Inv => TypeOK
  BY DEF Inv, Shaped
<1> QED
  BY <1>1, Invariance, PTL

(* While the program plans, its trajectory tells each action on the page   *)
(* once, in order and from the state it was decided in, and calls settled  *)
(* only what is measured. *)
THEOREM TrajectoryComplete == Spec => []TrajectoryIsComplete
<1>1. ASSUME Inv PROVE TrajectoryIsComplete
  <2> SUFFICES ASSUME turn = "plan", ~stopped
               PROVE  /\ \A i \in DOMAIN acts : \E k \in DOMAIN attempts : Tells(attempts[k], i, acts[i])
                      /\ \A k, m \in DOMAIN attempts :
                           k < m /\ attempts[k].act # 0 /\ attempts[m].act # 0
                             => attempts[k].act < attempts[m].act
    BY DEF TrajectoryIsComplete
  <2>1. Running /\ Told = Len(acts) /\ DOMAIN acts = 1..Len(acts)
    BY <1>1 DEF Running, Told, Untold, Inv, Shaped
  <2> QED
    BY <1>1, <2>1 DEF Inv, Story
<1> QED
  BY <1>1, Invariance, PTL

(* Which steps select checks, and which act on the page. *)
LEMMA ChosenNext ==
  ASSUME Next
  PROVE  Select \/ UNCHANGED <<controls, chosen>>
BY DEF Next, HandOver, Recover, Plan, AsksScore, Scored, Revisit, Rebind, RunEnds, Refused, Dispatch,
       Read, Refresh, Record, Drift, Begins, world, ledger

(* However often controls are offered again, the address never has more    *)
(* selected checks than its frozen sample or its limit, whichever is more. *)
THEOREM ChecksStayCapped == Spec => []ChecksCapped
<1>1. ASSUME Init PROVE ChecksCapped
  <2>1. Cardinality(controls) \in Nat
    BY <1>1, FS_CardinalityType, ExplorationConstants DEF Init
  <2> QED
    BY <1>1, <2>1, ExplorationConstants DEF Init, ChecksCapped, SampleSize
<1>2. ASSUME Inv, ChecksCapped, [Next]_vars PROVE ChecksCapped'
  <2>1. CASE UNCHANGED <<controls, chosen>>
    BY <1>2, <2>1 DEF ChecksCapped, SampleSize
  <2>2. CASE Select
    <3>1. chosen \in Nat /\ controls' = controls
      BY <1>2, <2>2 DEF Inv, Shaped, Select, world
    <3>2. SampleSize' = SampleSize
      BY <3>1 DEF SampleSize
    <3>3. \/ chosen' <= SampleSize
          \/ chosen' = chosen + 1 /\ chosen < MaxChecks
      BY <2>2 DEF Select, MayExtend
    <3> QED
      BY <3>1, <3>2, <3>3, ExplorationConstants DEF ChecksCapped
  <2> QED
    BY <1>2, <2>1, <2>2, ChosenNext DEF vars
<1> QED
  BY <1>1, <1>2, Invariance, PTL DEF Spec

(* An action finds every earlier action on the page measured, and none of  *)
(* them was of its target from the state of the page it was decided in. *)
THEOREM NothingReplayed == Spec => NeverReplayed
<1> DEFINE Step ==
      \A new \in {acts'[i] : i \in DOMAIN acts' \ DOMAIN acts} : \A i \in DOMAIN acts :
        acts[i].measured /\ ~(acts[i].target = new.target /\ acts[i].bound = new.bound)
<1>1. ASSUME Inv, [Next]_vars PROVE [Step]_vars
  <2>1. acts \in Seq(Actions) /\ acts' \in Seq(Actions)
    BY <1>1, InvNext DEF Inv, Shaped
  <2>2. CASE Dispatch
    <3>1. PICK c \in decision.on :
            /\ Len(acts') = Len(acts) + 1
            /\ acts'[Len(acts')].target = <<page.doc, c>> /\ acts'[Len(acts')].bound = seen
      BY <1>1, <2>2, DispatchKeeps
    <3>2. turn = "cleared" /\ decision.tool = "act"
      BY <2>2 DEF Dispatch, Executed
    <3>3. \A i \in 1..Len(acts) :
            acts[i].measured /\ ~(acts[i].target = <<page.doc, c>> /\ acts[i].bound = seen)
      BY <1>1, <3>2, AimIsNew
    <3>4. DOMAIN acts = 1..Len(acts) /\ DOMAIN acts' \ DOMAIN acts = {Len(acts')}
      BY <2>1, <3>1
    <3> QED
      BY <3>1, <3>3, <3>4
  <2>3. CASE ~Dispatch
    <3>1. Len(acts') = Len(acts)
      <4>1. CASE Deciding
        BY <1>1, <4>1, DecidingSame DEF Same
      <4>2. CASE Read
        BY <1>1, <4>2, ReadKeeps
      <4>3. CASE Select \/ Refresh \/ Record \/ UNCHANGED vars
        BY <4>3 DEF Select, Refresh, Record, world, vars
      <4> QED
        BY <1>1, <2>3, <4>1, <4>2, <4>3 DEF Next, Deciding
    <3>2. DOMAIN acts' \ DOMAIN acts = {}
      BY <2>1, <3>1
    <3> QED
      BY <3>2
  <2> QED
    BY <2>2, <2>3
<1> QED
  BY <1>1, Invariance, PTL DEF NeverReplayed, Spec
=============================================================================
