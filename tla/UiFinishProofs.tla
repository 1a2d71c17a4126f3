---------------------------- MODULE UiFinishProofs ----------------------------
(***************************************************************************)
(* Proofs about UiFinish for any requests, popups, limits and ledgers: the *)
(* types of the network boundary, the shared request cap, and what holds   *)
(* from the event that closes the session to the accepted finish.          *)
(***************************************************************************)
EXTENDS UiFinish, FiniteSetTheorems, WellFoundedInduction, TLAPS

Records == [kind : {"shutdown", "allowed", "refused", "channel"}, of : Own \cup Popups]
Places == {"unsent", "resolve", "connect", "fulfil", "done"}

(* The requests that hold a place under the cap: those that reached the    *)
(* network, and those whose name is being resolved.                        *)
Charged == connected \cup {q \in Requests : at[q] = "resolve"}
CapKept == IsFiniteSet(Charged) /\ Cardinality(Charged) <= spent

(* The shutdown records still on the tail; unless a write was lost, they   *)
(* and those in the log are the requests that were abandoned.              *)
ShutdownsIn(s) == {k \in 1..Len(s) : s[k].kind = "shutdown"}
Told ==
  "persistence" \notin latched =>
    abandoned = facts["shutdown"] + Cardinality(ShutdownsIn(tail))

(* A shutdown is handled in one step: a record half handled is another.    *)
Staged == stage # "start" => tail # << >> /\ Head(tail).kind # "shutdown"

BoundaryInv == BoundaryTypeOK /\ CapKept /\ Told /\ Staged

(* From network:sealed on the boundary is at rest and the event is what it *)
(* was; what the second decision has read is still so.                     *)
Late == pc \in {"facts-again", "decide-again", "accept", "done"}
Resting == tail = << >> /\ latched = {}
           /\ closing.then = NetworkFacts /\ closing.shutdowns = facts["shutdown"]
Closed ==
  /\ Late \/ pc \in {"settle", "flush-again"} => sealed
  /\ Late \/ pc = "flush-again" => Pending = {}
  /\ Late => Resting
Decided ==
  /\ pc \in {"decide-again", "accept"} => finish.epoch = epoch
  /\ pc = "accept" => Admissible(finish.claim)
  /\ accepted # None =>
       pc = "done" /\ (accepted.claim = "scope-covered" => epoch = 0 /\ ~Gaps(Scope))
Shaped == finish = [claim |-> finish.claim, epoch |-> finish.epoch, proof |-> finish.proof]

Inv == BoundaryInv /\ Closed /\ Decided /\ Shaped

-----------------------------------------------------------------------------
(* Counting the shutdowns when a record joins the tail or leaves it. *)
LEMMA ShutdownsFinite ==
  ASSUME NEW s \in Seq(Records)
  PROVE  IsFiniteSet(ShutdownsIn(s)) /\ Cardinality(ShutdownsIn(s)) \in Nat
<1>1. Len(s) \in Nat /\ ShutdownsIn(s) \subseteq 1..Len(s)
  BY DEF ShutdownsIn
<1>2. IsFiniteSet(1..Len(s))
  BY <1>1, FS_Interval
<1> QED
  BY <1>1, <1>2, FS_Subset, FS_CardinalityType

LEMMA ShutdownJoins ==
  ASSUME NEW s \in Seq(Records), NEW r \in Records
  PROVE  Cardinality(ShutdownsIn(Append(s, r))) =
           Cardinality(ShutdownsIn(s)) + (IF r.kind = "shutdown" THEN 1 ELSE 0)
<1> DEFINE a == Append(s, r)
<1>1. /\ Len(s) \in Nat /\ Len(a) = Len(s) + 1 /\ a[Len(s) + 1] = r
      /\ \A k \in 1..Len(s) : a[k] = s[k]
  OBVIOUS
<1> HIDE DEF a
<1>2. CASE r.kind = "shutdown"
  <2>1. ShutdownsIn(a) = ShutdownsIn(s) \cup {Len(s) + 1} /\ Len(s) + 1 \notin ShutdownsIn(s)
    BY <1>1, <1>2 DEF ShutdownsIn
  <2> QED
    BY <1>2, <2>1, ShutdownsFinite, FS_AddElement DEF a
<1>3. CASE r.kind # "shutdown"
  <2>1. ShutdownsIn(a) = ShutdownsIn(s)
    BY <1>1, <1>3 DEF ShutdownsIn
  <2> QED
    BY <1>3, <2>1, ShutdownsFinite DEF a
<1> QED
  BY <1>2, <1>3

LEMMA ShutdownLeaves ==
  ASSUME NEW s \in Seq(Records), s # << >>
  PROVE  Cardinality(ShutdownsIn(Tail(s))) =
           Cardinality(ShutdownsIn(s)) - (IF Head(s).kind = "shutdown" THEN 1 ELSE 0)
<1> DEFINE b == Tail(s)
           Later == ShutdownsIn(s) \ {1}
           f == [k \in ShutdownsIn(b) |-> k + 1]
<1>1. /\ Len(s) \in Nat \ {0} /\ Len(b) = Len(s) - 1 /\ Head(s) = s[1]
      /\ \A k \in 1..Len(b) : b[k] = s[k + 1]
  OBVIOUS
<1>2. b \in Seq(Records)
  OBVIOUS
<1> HIDE DEF b
<1>3. \A k \in ShutdownsIn(b) : k \in Nat /\ k + 1 \in Later
  BY <1>1 DEF ShutdownsIn
<1>4. \A m \in Later : m - 1 \in ShutdownsIn(b)
  BY <1>1 DEF ShutdownsIn
<1>5. \A m \in Later : m \in Nat
  BY <1>1 DEF ShutdownsIn
<1> HIDE DEF Later
<1>6. f \in Bijection(ShutdownsIn(b), Later)
  <2>1. f \in [ShutdownsIn(b) -> Later]
    BY <1>3
  <2>2. \A j, k \in ShutdownsIn(b) : f[j] = f[k] => j = k
    BY <1>3
  <2>3. \A m \in Later : \E k \in ShutdownsIn(b) : f[k] = m
    <3> SUFFICES ASSUME NEW m \in Later PROVE \E k \in ShutdownsIn(b) : f[k] = m
      OBVIOUS
    <3>1. m - 1 \in ShutdownsIn(b) /\ f[m - 1] = m
      BY <1>4, <1>5
    <3> QED
      BY <3>1
  <2> HIDE DEF f
  <2>4. f \in Injection(ShutdownsIn(b), Later) /\ f \in Surjection(ShutdownsIn(b), Later)
    BY <2>1, <2>2, <2>3, Zenon DEF Injection, IsInjective, Surjection
  <2> QED
    BY <2>4, Zenon DEF Bijection
<1>7. ExistsBijection(ShutdownsIn(b), Later)
  BY <1>6, Zenon DEF ExistsBijection
<1>8. Cardinality(Later) = Cardinality(ShutdownsIn(b))
  BY <1>2, <1>7, ShutdownsFinite, FS_Bijection
<1>9. Cardinality(Later) =
        IF 1 \in ShutdownsIn(s) THEN Cardinality(ShutdownsIn(s)) - 1 ELSE Cardinality(ShutdownsIn(s))
  BY ShutdownsFinite, FS_RemoveElement DEF Later
<1>10. 1 \in ShutdownsIn(s) <=> Head(s).kind = "shutdown"
  BY <1>1 DEF ShutdownsIn
<1> QED
  BY <1>8, <1>9, <1>10, ShutdownsFinite DEF b
-----------------------------------------------------------------------------
(* The session.  What one of its steps does to the chain: at most one      *)
(* record joins it, and no write is lost.                                  *)
Joins ==
  /\ \/ UNCHANGED <<tail, abandoned>>
     \/ \E r \in Records :
          /\ r.kind = "channel" => r.of \in Popups
          /\ tail' = Append(tail, r)
          /\ abandoned' = abandoned + (IF r.kind = "shutdown" THEN 1 ELSE 0)
  /\ latched' \subseteq {"persistence", "execution"}
  /\ "persistence" \in latched' <=> "persistence" \in latched
  /\ UNCHANGED <<stage, epoch, facts, sealed, ledgerVars>>

LEMMA RecordJoins ==
  ASSUME BoundaryTypeOK, NEW q \in Own, NEW reason, Record(q, reason),
         UNCHANGED <<stage, epoch, facts, sealed, ledgerVars>>
  PROVE  Joins
<1>1. \A kind \in {"shutdown", "allowed", "refused"} : [kind |-> kind, of |-> q] \in Records
  BY DEF Records
<1>2. latched \subseteq {"persistence", "execution"} /\ abandoned \in Nat
  BY DEF BoundaryTypeOK
<1>3. CASE sealed /\ reason = "execution-stopped"
  <2>1. /\ abandoned' = abandoned + 1 /\ UNCHANGED latched
        /\ tail' = Append(tail, [kind |-> "shutdown", of |-> q])
    BY <1>3 DEF Record
  <2> QED
    BY <1>1, <1>2, <2>1 DEF Joins
<1>4. CASE ~(sealed /\ reason = "execution-stopped") /\ reason = "allowed"
  <2>1. /\ UNCHANGED <<latched, abandoned>>
        /\ \/ tail' = Append(tail, [kind |-> "allowed", of |-> q])
           \/ UNCHANGED tail
    BY <1>4 DEF Record
  <2> QED
    BY <1>1, <1>2, <2>1 DEF Joins
<1>5. CASE ~(sealed /\ reason = "execution-stopped") /\ reason # "allowed"
  <2>1. /\ UNCHANGED abandoned /\ tail' = Append(tail, [kind |-> "refused", of |-> q])
        /\ latched' \in {latched, latched \cup {"execution"}}
    BY <1>5 DEF Record
  <2>2. /\ latched' \subseteq {"persistence", "execution"}
        /\ "persistence" \in latched' <=> "persistence" \in latched
    BY <1>2, <2>1
  <2>3. abandoned' = abandoned + 0
    BY <1>2, <2>1
  <2> QED
    BY <1>1, <2>1, <2>2, <2>3 DEF Joins
<1> QED
  BY <1>3, <1>4, <1>5

(* A step that reserves nothing, one that does, and one that connects a    *)
(* request that was resolving keep the cap. *)
LEMMA CapShrinks ==
  ASSUME CapKept, Charged' \subseteq Charged, UNCHANGED spent, spent \in Nat
  PROVE  CapKept'
<1>1. IsFiniteSet(Charged') /\ Cardinality(Charged') <= Cardinality(Charged)
  BY FS_Subset DEF CapKept
<1>2. Cardinality(Charged) \in Nat /\ Cardinality(Charged') \in Nat
  BY <1>1, FS_CardinalityType DEF CapKept
<1> QED
  BY <1>1, <1>2 DEF CapKept

LEMMA CapGrows ==
  ASSUME CapKept, NEW q, Charged' \subseteq Charged \cup {q}, spent' = spent + 1, spent \in Nat
  PROVE  CapKept'
<1>0. IsFiniteSet(Charged) /\ Cardinality(Charged) \in Nat
  BY FS_CardinalityType, Zenon DEF CapKept
<1>1. /\ IsFiniteSet(Charged \cup {q})
      /\ Cardinality(Charged \cup {q}) \in {Cardinality(Charged), Cardinality(Charged) + 1}
  BY <1>0, FS_AddElement
<1>2. IsFiniteSet(Charged') /\ Cardinality(Charged') <= Cardinality(Charged \cup {q})
  BY <1>1, FS_Subset
<1>3. Cardinality(Charged') \in Nat /\ Cardinality(Charged \cup {q}) \in Nat
  BY <1>1, <1>2, FS_CardinalityType
<1> QED
  BY <1>0, <1>1, <1>2, <1>3 DEF CapKept

(* Where the requests and the counter may go. *)
Moves ==
  /\ at' \in [Requests \cup Popups -> Places] /\ stopped' \in BOOLEAN
  /\ spent' \in 0..MaxRequests /\ connected' \subseteq Requests
  /\ \/ UNCHANGED spent /\ Charged' \subseteq Charged
     \/ spent' = spent + 1 /\ \E q \in Requests : Charged' \subseteq Charged \cup {q}

LEMMA MovesOne ==
  ASSUME BoundaryTypeOK, NEW q \in Requests \cup Popups, NEW to \in Places, Move(q, to),
         stopped' \in BOOLEAN,
         \/ UNCHANGED <<spent, connected>> /\ to # "resolve"
         \/ ReserveRequest /\ UNCHANGED connected /\ q \in Requests
         \/ UNCHANGED spent /\ connected' \subseteq connected \cup {q} /\ at[q] = "resolve"
            /\ to # "resolve" /\ q \in Requests
  PROVE  Moves
<1> USE BoundaryConstants
<1>1. /\ at' \in [Requests \cup Popups -> Places] /\ at'[q] = to
      /\ \A p \in Requests \cup Popups : p # q => at'[p] = at[p]
  BY DEF BoundaryTypeOK, Move, Places
<1>2. spent \in 0..MaxRequests /\ connected \subseteq Requests /\ MaxRequests \in Nat
  BY DEF BoundaryTypeOK
<1>3. CASE UNCHANGED <<spent, connected>> /\ to # "resolve"
  BY <1>1, <1>2, <1>3 DEF Moves, Charged
<1>4. CASE ReserveRequest /\ UNCHANGED connected /\ q \in Requests
  <2>1. Charged' \subseteq Charged \cup {q}
    BY <1>1, <1>4 DEF Charged
  <2>2. spent' = spent + 1 /\ spent' \in 0..MaxRequests
    BY <1>2, <1>4 DEF ReserveRequest
  <2> QED
    BY <1>1, <1>2, <1>4, <2>1, <2>2 DEF Moves
<1>5. CASE UNCHANGED spent /\ connected' \subseteq connected \cup {q} /\ at[q] = "resolve"
           /\ to # "resolve" /\ q \in Requests
  <2>1. Charged' \subseteq Charged
    BY <1>1, <1>5 DEF Charged
  <2> QED
    BY <1>1, <1>2, <1>5, <2>1 DEF Moves
<1> QED
  BY <1>3, <1>4, <1>5
(* A request that is refused. *)
LEMMA RefuseMoves ==
  ASSUME BoundaryTypeOK, NEW q \in Own, NEW reason, Refuse(q, reason), stopped' \in BOOLEAN,
         UNCHANGED <<stage, epoch, facts, sealed, ledgerVars, connected>>,
         UNCHANGED spent \/ ReserveRequest
  PROVE  Moves /\ Joins
<1>1. Record(q, reason) /\ Move(q, "done") /\ q \in Requests \cup Popups /\ q \in Requests
  BY DEF Refuse, Requests
<1> QED
  BY <1>1, RecordJoins, MovesOne DEF Places

(* Every step of the session keeps to Moves and Joins. *)
LEMMA SessionMoves ==
  ASSUME BoundaryTypeOK, SessionStep
  PROVE  Moves /\ Joins
<1>0. /\ Own \subseteq Requests /\ ChildReads \subseteq Requests /\ Documents \subseteq Own
      /\ {"resolve", "connect", "fulfil", "done"} \subseteq Places
  BY DEF Own, Requests, Places
<1>a. stopped \in BOOLEAN /\ latched \subseteq {"persistence", "execution"} /\ abandoned \in Nat
  BY DEF BoundaryTypeOK
<1>1. ASSUME NEW q \in Own, PauseSealed(q) PROVE Moves /\ Joins
  <2>1. Move(q, "done") /\ UNCHANGED <<ledgerVars, chainVars, spent, sealed, stopped, connected>>
    BY <1>1 DEF PauseSealed
  <2> QED
    BY <1>0, <1>a, <2>1, MovesOne DEF Joins, chainVars
<1>2. ASSUME NEW q \in Own, Pause(q) PROVE Moves /\ Joins
  <2>1. UNCHANGED <<ledgerVars, stage, epoch, facts, sealed, stopped, connected>>
    BY <1>2 DEF Pause, Recorded
  <2>2. CASE \E reason \in {"execution-stopped", "policy", "request-budget-exhausted"} : Refuse(q, reason)
    <3>1. UNCHANGED spent \/ ReserveRequest
      BY <1>2, Zenon DEF Pause
    <3> QED
      BY <1>a, <2>1, <2>2, <3>1, RefuseMoves
  <2>3. CASE ReserveRequest /\ Move(q, "resolve") /\ UNCHANGED <<tail, latched, abandoned>>
    BY <1>0, <1>a, <2>1, <2>3, MovesOne DEF Joins
  <2> QED
    BY <1>2, <2>2, <2>3, Zenon DEF Pause
<1>3. ASSUME NEW q \in Own, ResolveEnds(q) PROVE Moves /\ Joins
  <2>1. UNCHANGED <<ledgerVars, stage, epoch, facts, spent, sealed, stopped>> /\ at[q] = "resolve"
    BY <1>3 DEF ResolveEnds, Recorded
  <2>2. CASE (\E reason \in {"execution-stopped", "policy", "resolution-failed"} : Refuse(q, reason))
             /\ UNCHANGED connected
    BY <1>a, <2>1, <2>2, RefuseMoves
  <2>3. CASE /\ Move(q, "connect") /\ connected' = connected \cup {q}
             /\ UNCHANGED <<tail, latched, abandoned>>
    BY <1>0, <1>a, <2>1, <2>3, MovesOne DEF Joins
  <2> QED
    BY <1>3, <2>2, <2>3, Zenon DEF ResolveEnds
<1>4. ASSUME NEW q \in Own, ConnectEnds(q) PROVE Moves /\ Joins
  <2>1. UNCHANGED <<ledgerVars, stage, epoch, facts, spent, sealed, stopped, connected>>
    BY <1>4 DEF ConnectEnds, Recorded
  <2>2. CASE \E reason \in {"execution-stopped", "policy", "transport-error"} : Refuse(q, reason)
    BY <1>a, <2>1, <2>2, RefuseMoves
  <2>3. CASE Record(q, "allowed") /\ Move(q, "fulfil")
    <3>1. Moves
      BY <1>0, <1>a, <2>1, <2>3, MovesOne
    <3>2. Joins
      BY <2>1, <2>3, RecordJoins
    <3> QED
      BY <3>1, <3>2
  <2> QED
    BY <1>4, <2>2, <2>3, Zenon DEF ConnectEnds
<1>5. ASSUME NEW q \in Own, FulfilEnds(q) PROVE Moves /\ Joins
  <2>1. UNCHANGED <<ledgerVars, stage, epoch, facts, spent, sealed, stopped, connected>>
    BY <1>5 DEF FulfilEnds, Recorded
  <2>2. CASE Refuse(q, "transport-error")
    BY <1>a, <2>1, <2>2, RefuseMoves
  <2>3. CASE Move(q, "done") /\ UNCHANGED <<tail, latched, abandoned>>
    BY <1>0, <1>a, <2>1, <2>3, MovesOne DEF Joins
  <2> QED
    BY <1>5, <2>2, <2>3, Zenon DEF FulfilEnds
<1>6. ASSUME NEW q \in Documents, RouteLeaves(q) PROVE Moves /\ Joins
  <2>1. /\ Refuse(q, "policy") /\ stopped' = TRUE
        /\ UNCHANGED <<ledgerVars, stage, epoch, facts, spent, sealed, connected>>
    BY <1>6 DEF RouteLeaves, Recorded
  <2> QED
    BY <1>0, <2>1, RefuseMoves
<1>7. ASSUME NEW p \in Popups, OpenPopup(p) PROVE Moves /\ Joins
  <2>1. /\ Move(p, "done")
        /\ UNCHANGED <<ledgerVars, stage, epoch, facts, latched, abandoned, spent, sealed,
                       stopped, connected>>
    BY <1>7 DEF OpenPopup, Recorded
  <2>2. Moves
    BY <1>0, <1>a, <2>1, MovesOne
  <2>3. [kind |-> "channel", of |-> p] \in Records
    BY DEF Records
  <2>4. UNCHANGED tail \/ tail' = Append(tail, [kind |-> "channel", of |-> p])
    BY <1>7 DEF OpenPopup
  <2>5. Joins
    BY <1>a, <2>1, <2>3, <2>4 DEF Joins
  <2> QED
    BY <2>2, <2>5
<1>8. ASSUME NEW q \in ChildReads, ChildPause(q) \/ ChildResolves(q) PROVE Moves /\ Joins
  <2>1. UNCHANGED <<ledgerVars, chainVars, sealed, stopped>>
    BY <1>8 DEF ChildPause, ChildResolves
  <2>2. Joins
    BY <1>a, <2>1 DEF Joins, chainVars
  <2>3. CASE ChildPause(q)
    <3>1. \/ Move(q, "done") /\ UNCHANGED <<spent, connected>>
          \/ ReserveRequest /\ Move(q, "resolve") /\ UNCHANGED connected
      BY <2>3, Zenon DEF ChildPause
    <3> QED
      BY <1>0, <1>a, <2>1, <2>2, <3>1, MovesOne
  <2>4. CASE ChildResolves(q)
    <3>1. /\ Move(q, "done") /\ UNCHANGED spent /\ at[q] = "resolve"
          /\ connected' \subseteq connected \cup {q}
      BY <2>4 DEF ChildResolves
    <3> QED
      BY <1>0, <1>a, <2>1, <2>2, <3>1, MovesOne
  <2> QED
    BY <1>8, <2>3, <2>4
<1> QED
  BY <1>1, <1>2, <1>3, <1>4, <1>5, <1>6, <1>7, <1>8 DEF SessionStep

(* Sealed, with nothing in flight, the session records nothing any more. *)
LEMMA SealedIsSilent ==
  ASSUME BoundaryTypeOK, SessionStep, sealed, Pending = {}
  PROVE  UNCHANGED <<tail, latched, abandoned>> /\ Pending' = {}
<1> USE BoundaryConstants
<1>1. \A q \in Own : at[q] \notin {"resolve", "connect", "fulfil"}
  BY DEF Pending
<1>2. ASSUME NEW q \in Requests \cup Popups, NEW to, Move(q, to), q \in Own => to = "done"
      PROVE  Pending' = {}
  <2>1. \A p \in Own : at'[p] = at[p] \/ at'[p] = "done"
    BY <1>2 DEF Move, BoundaryTypeOK, Requests
  <2> QED
    BY <1>1, <2>1 DEF Pending
<1>3. Own \subseteq Requests \cup Popups /\ Documents \subseteq Own
  BY DEF Own, Requests
<1>4. ASSUME NEW q \in Own, PauseSealed(q) \/ Pause(q) \/ ResolveEnds(q) \/ ConnectEnds(q) \/ FulfilEnds(q)
      PROVE  UNCHANGED <<tail, latched, abandoned>> /\ Pending' = {}
  BY <1>1, <1>2, <1>3, <1>4 DEF PauseSealed, Pause, ResolveEnds, ConnectEnds, FulfilEnds, chainVars
<1>5. ASSUME NEW q \in Documents, RouteLeaves(q)
      PROVE  FALSE
  BY <1>5 DEF RouteLeaves
<1>6. ASSUME NEW p \in Popups, OpenPopup(p)
      PROVE  UNCHANGED <<tail, latched, abandoned>> /\ Pending' = {}
  BY <1>2, <1>6 DEF OpenPopup, Requests, Own
<1>7. ASSUME NEW q \in ChildReads, ChildPause(q) \/ ChildResolves(q)
      PROVE  UNCHANGED <<tail, latched, abandoned>> /\ Pending' = {}
  <2>1. q \in Requests \cup Popups /\ q \notin Own
    BY DEF Requests
  <2>2. UNCHANGED <<tail, latched, abandoned>> /\ \E to \in Places : Move(q, to)
    BY <1>7 DEF ChildPause, ChildResolves, chainVars, Places
  <2> QED
    BY <1>2, <2>1, <2>2
<1> QED
  BY <1>4, <1>5, <1>6, <1>7 DEF SessionStep
-----------------------------------------------------------------------------
(* The chain.  What one of its steps does: it leaves the session alone,    *)
(* keeps its types, and touches nothing while there is no record.          *)
Stages == {"start", "decision", "ledger", "persist", "intervene"}
Drains ==
  /\ UNCHANGED <<sessionVars, abandoned>>
  /\ tail' = tail \/ (tail # << >> /\ tail' = Tail(tail))
  /\ stage' \in Stages /\ latched' \in {latched, latched \cup {"persistence"}}
  /\ epoch' \in {epoch, epoch + 1}
  /\ tail = << >> => UNCHANGED <<latched, epoch, facts, recorded>>

LEMMA TailDrains ==
  ASSUME BoundaryTypeOK, TailStep \/ TailFails
  PROVE  Drains
<1> USE DEF Drains, Stages, BoundaryTypeOK, sessionVars, Quiet, Handled, Advance, Fact, Handling
<1>1. CASE WriteShutdown
  BY <1>1, Zenon DEF WriteShutdown, ledgerVars
<1>2. CASE WriteAllowed
  BY <1>2, Zenon DEF WriteAllowed, ledgerVars
<1>3. CASE Intervene
  BY <1>3, Zenon DEF Intervene, ledgerVars
<1>4. CASE WriteRefusal
  BY <1>4, Zenon DEF WriteRefusal, ledgerVars
<1>5. CASE DenyNavigation
  BY <1>5, Zenon DEF DenyNavigation
<1>6. CASE DenyChannel
  BY <1>6, Zenon DEF DenyChannel
<1>7. CASE TailPersists
  BY <1>7, Zenon DEF TailPersists, PersistEvent
<1>8. CASE TailPersisted
  BY <1>8, Zenon DEF TailPersisted, ledgerVars
<1>9. CASE InterveneChannel
  BY <1>9, Zenon DEF InterveneChannel, ledgerVars
<1>10. CASE WriteChannel
  BY <1>10, Zenon DEF WriteChannel, ledgerVars
<1>11. CASE TailFails
  BY <1>11, Zenon DEF TailFails
<1> QED
  BY <1>1, <1>2, <1>3, <1>4, <1>5, <1>6, <1>7, <1>8, <1>9, <1>10, <1>11 DEF TailStep

(* The log's facts: a shutdown record that leaves the tail is in the log,  *)
(* or the failure is latched. *)
LEMMA TailTells ==
  ASSUME BoundaryTypeOK, Staged, TailStep \/ TailFails
  PROVE  /\ facts' \in [FactTypes -> Nat]
         /\ \/ "persistence" \in latched'
            \/ UNCHANGED <<tail, latched>> /\ facts'["shutdown"] = facts["shutdown"]
            \/ /\ UNCHANGED latched /\ tail # << >> /\ tail' = Tail(tail)
               /\ facts'["shutdown"] =
                    facts["shutdown"] + (IF Head(tail).kind = "shutdown" THEN 1 ELSE 0)
<1>0. facts \in [FactTypes -> Nat] /\ facts["shutdown"] \in Nat
  BY DEF BoundaryTypeOK, FactTypes
<1>1. ASSUME NEW type \in FactTypes, Fact(type)
      PROVE  /\ facts' \in [FactTypes -> Nat]
             /\ facts'["shutdown"] = facts["shutdown"] + (IF type = "shutdown" THEN 1 ELSE 0)
  BY <1>0, <1>1 DEF Fact, FactTypes
<1>2. {"shutdown", "allowed", "denied", "intervention"} = FactTypes
  BY DEF FactTypes
<1>3. CASE WriteShutdown
  BY <1>1, <1>2, <1>3 DEF WriteShutdown, Handling, Handled, Quiet
<1>4. CASE WriteAllowed
  BY <1>0, <1>1, <1>2, <1>4 DEF WriteAllowed, Handling, Handled, Quiet
<1>5. CASE Intervene
  BY <1>0, <1>1, <1>2, <1>5 DEF Intervene, Advance, Quiet
<1>6. CASE WriteRefusal
  <2>1. \/ UNCHANGED tail
        \/ tail # << >> /\ tail' = Tail(tail) /\ Head(tail).kind # "shutdown"
    BY <1>6 DEF WriteRefusal, Handling, Handled, Advance
  <2> QED
    BY <1>0, <1>1, <1>2, <1>6, <2>1 DEF WriteRefusal, Quiet
<1>7. CASE DenyNavigation
  BY <1>0, <1>7 DEF DenyNavigation, Advance, Quiet
<1>8. CASE DenyChannel
  BY <1>0, <1>8 DEF DenyChannel, Advance, Quiet
<1>9. CASE TailPersists
  BY <1>0, <1>9 DEF TailPersists, Quiet
<1>10. CASE TailPersisted
  <2>1. UNCHANGED <<facts, latched>> /\ tail # << >>
    BY <1>10 DEF TailPersisted, Quiet
  <2>2. UNCHANGED tail \/ tail' = Tail(tail)
    BY <1>10 DEF TailPersisted, Handled, Advance
  <2>3. Head(tail).kind # "shutdown"
    BY <1>10 DEF TailPersisted, Staged
  <2> QED
    BY <1>0, <2>1, <2>2, <2>3
<1>11. CASE InterveneChannel
  BY <1>0, <1>1, <1>2, <1>11 DEF InterveneChannel, Advance, Quiet
<1>12. CASE WriteChannel
  BY <1>0, <1>1, <1>2, <1>12 DEF WriteChannel, Handling, Handled, Quiet
<1>13. CASE TailFails
  BY <1>0, <1>13 DEF TailFails
<1> QED
  BY <1>3, <1>4, <1>5, <1>6, <1>7, <1>8, <1>9, <1>10, <1>11, <1>12, <1>13 DEF TailStep
LEMMA TailStages ==
  ASSUME Staged, TailStep \/ TailFails
  PROVE  Staged'
<1> USE DEF Staged, Handling, Advance, Handled
<1>1. CASE WriteShutdown \/ WriteAllowed \/ WriteChannel \/ TailFails
  BY <1>1 DEF WriteShutdown, WriteAllowed, WriteChannel, TailFails
<1>2. CASE Intervene \/ DenyNavigation
  BY <1>2 DEF Intervene, DenyNavigation
<1>3. CASE DenyChannel \/ InterveneChannel
  BY <1>3 DEF DenyChannel, InterveneChannel
<1>4. CASE WriteRefusal
  BY <1>4 DEF WriteRefusal
<1>5. CASE TailPersists
  BY <1>5 DEF TailPersists
<1>6. CASE TailPersisted
  BY <1>6 DEF TailPersisted
<1> QED
  BY <1>1, <1>2, <1>3, <1>4, <1>5, <1>6 DEF TailStep

LEMMA JoinStages ==
  ASSUME BoundaryTypeOK, Staged, Joins
  PROVE  Staged'
<1>1. CASE UNCHANGED tail
  BY <1>1 DEF Staged, Joins
<1>2. CASE \E r \in Records : tail' = Append(tail, r)
  <2>1. PICK r \in Records : tail' = Append(tail, r)
    BY <1>2
  <2>2. tail \in Seq(Records)
    BY DEF BoundaryTypeOK, Records
  <2>3. tail # << >> => tail' # << >> /\ Head(tail') = Head(tail)
    BY <2>1, <2>2
  <2> QED
    BY <2>3 DEF Staged, Joins
<1> QED
  BY <1>1, <1>2 DEF Joins

-----------------------------------------------------------------------------
(* The boundary as a whole.                                                *)
LEMMA InitBoundaryInv == InitBoundary => BoundaryInv
<1> SUFFICES ASSUME InitBoundary PROVE BoundaryInv
  OBVIOUS
<1>1. << >> \in Seq(Records)
  OBVIOUS
<1>2. at \in [Requests \cup Popups -> Places] /\ \A q \in Requests : at[q] = "unsent"
  BY DEF InitBoundary, Places
<1>3. spent \in 0..MaxRequests
  BY BoundaryConstants DEF InitBoundary
<1>4. BoundaryTypeOK
  BY <1>1, <1>2, <1>3 DEF InitBoundary, BoundaryTypeOK, Records, Places
<1>5. Charged = {}
  BY <1>2 DEF InitBoundary, Charged
<1>6. CapKept
  BY <1>5, FS_EmptySet DEF CapKept, InitBoundary
<1>7. ShutdownsIn(tail) = {}
  BY DEF InitBoundary, ShutdownsIn
<1>8. facts["shutdown"] = 0 /\ abandoned = 0
  BY DEF InitBoundary, FactTypes
<1>9. Told /\ Staged
  BY <1>7, <1>8, FS_EmptySet DEF Told, Staged, InitBoundary
<1> QED
  BY <1>4, <1>6, <1>9 DEF BoundaryInv

LEMMA SessionInv ==
  ASSUME BoundaryInv, SessionStep
  PROVE  BoundaryInv'
<1> USE DEF BoundaryInv
<1>1. Moves /\ Joins
  BY SessionMoves
<1>2. /\ tail \in Seq(Records) /\ abandoned \in Nat /\ stage \in Stages
      /\ facts \in [FactTypes -> Nat] /\ facts["shutdown"] \in Nat
      /\ epoch \in Nat /\ sealed \in BOOLEAN /\ spent \in Nat
  BY BoundaryConstants DEF BoundaryTypeOK, Records, Stages, FactTypes
<1>3. tail' \in Seq(Records) /\ abandoned' \in Nat
  BY <1>1, <1>2 DEF Joins
<1>4. BoundaryTypeOK'
  BY <1>1, <1>2, <1>3 DEF BoundaryTypeOK, Moves, Joins, Records, Places, Stages
<1>5. CapKept'
  BY <1>1, <1>2, CapShrinks, CapGrows DEF Moves
<1>6. Told'
  <2>1. CASE UNCHANGED <<tail, abandoned>>
    BY <1>1, <2>1 DEF Told, Joins
  <2>2. CASE \E r \in Records :
               /\ tail' = Append(tail, r)
               /\ abandoned' = abandoned + (IF r.kind = "shutdown" THEN 1 ELSE 0)
    <3>1. PICK r \in Records :
               /\ tail' = Append(tail, r)
               /\ abandoned' = abandoned + (IF r.kind = "shutdown" THEN 1 ELSE 0)
      BY <2>2
    <3>2. Cardinality(ShutdownsIn(tail')) =
            Cardinality(ShutdownsIn(tail)) + (IF r.kind = "shutdown" THEN 1 ELSE 0)
      BY <1>2, <3>1, ShutdownJoins
    <3>3. Cardinality(ShutdownsIn(tail)) \in Nat
      BY <1>2, ShutdownsFinite
    <3>4. ShutdownsIn(tail)' = ShutdownsIn(tail')
      BY DEF ShutdownsIn
    <3> QED
      BY <1>1, <1>2, <3>1, <3>2, <3>3, <3>4 DEF Told, Joins
  <2> QED
    BY <1>1, <2>1, <2>2 DEF Joins
<1>7. Staged'
  BY <1>1, JoinStages
<1> QED
  BY <1>4, <1>5, <1>6, <1>7

LEMMA ChainInv ==
  ASSUME BoundaryInv, TailStep \/ TailFails
  PROVE  BoundaryInv'
<1> USE DEF BoundaryInv
<1>1. Drains
  BY TailDrains
<1>2. /\ tail \in Seq(Records) /\ abandoned \in Nat
      /\ facts["shutdown"] \in Nat /\ epoch \in Nat
      /\ latched \subseteq {"persistence", "execution"}
  BY DEF BoundaryTypeOK, Records, FactTypes
<1>3. tail' \in Seq(Records)
  BY <1>1, <1>2 DEF Drains
<1>4. BoundaryTypeOK'
  BY <1>1, <1>2, <1>3, TailTells DEF BoundaryTypeOK, Drains, sessionVars, Records, Stages
<1>5. CapKept'
  BY <1>1 DEF CapKept, Charged, Drains, sessionVars
<1>6. Told'
  <2>1. CASE "persistence" \in latched'
    BY <2>1 DEF Told
  <2>2. CASE UNCHANGED <<tail, latched>> /\ facts'["shutdown"] = facts["shutdown"]
    BY <1>1, <2>2 DEF Told, Drains, ShutdownsIn
  <2>3. CASE /\ UNCHANGED latched /\ tail # << >> /\ tail' = Tail(tail)
             /\ facts'["shutdown"] =
                  facts["shutdown"] + (IF Head(tail).kind = "shutdown" THEN 1 ELSE 0)
    <3>1. Cardinality(ShutdownsIn(tail')) =
            Cardinality(ShutdownsIn(tail)) - (IF Head(tail).kind = "shutdown" THEN 1 ELSE 0)
      BY <1>2, <2>3, ShutdownLeaves
    <3>2. Cardinality(ShutdownsIn(tail)) \in Nat
      BY <1>2, ShutdownsFinite
    <3>3. ShutdownsIn(tail)' = ShutdownsIn(tail')
      BY DEF ShutdownsIn
    <3>4. UNCHANGED abandoned
      BY <1>1 DEF Drains
    <3> QED
      BY <1>2, <2>3, <3>1, <3>2, <3>3, <3>4 DEF Told
  <2> QED
    BY <2>1, <2>2, <2>3, TailTells
<1>7. Staged'
  BY TailStages
<1> QED
  BY <1>4, <1>5, <1>6, <1>7
-----------------------------------------------------------------------------
(* The scope that a sequence of events amounts to.                         *)

(* Any numbers have a least one: induction, for a set instead of a formula. *)
LEMMA Least ==
  ASSUME NEW T, T \subseteq Nat, T # {}
  PROVE  \E x \in T : \A y \in T : x <= y
<1> DEFINE Less == {p \in Nat \X Nat : p[1] < p[2]}
<1>1. IsWellFoundedOn(Less, Nat)
  BY NatLessThanWellFounded, Zenon DEF OpToRel
<1>2. PICK x \in T : \A y \in T : ~(<<y, x>> \in Less)
  <2> HIDE DEF Less
  <2> QED
    BY <1>1, WFMin
<1>3. \A y \in T : y < x => <<y, x>> \in Less
  OBVIOUS
<1> HIDE DEF Less
<1>4. \A y \in T : ~(y < x)
  BY <1>2, <1>3
<1> QED
  BY <1>4

(* The scopes after each of the first events of the log. *)
Unfolds(f, log, m) ==
  f = [n \in 0..m |-> IF n = 0 THEN Nothing ELSE Applied(f[n - 1], log[n])]

LEMMA UnfoldsSome ==
  ASSUME NEW log, NEW m \in Nat
  PROVE  \E f : Unfolds(f, log, m)
<1> DEFINE T == {n \in Nat : ~\E f : Unfolds(f, log, n)}
<1>1. ASSUME NEW n \in T, \A k \in T : n <= k PROVE FALSE
  <2>1. CASE n = 0
    <3>1. Unfolds([k \in 0..0 |-> Nothing], log, 0)
      BY DEF Unfolds
    <3> QED
      BY <2>1, <3>1
  <2>2. CASE n # 0
    <3>1. n - 1 \in Nat /\ n - 1 \notin T
      BY <1>1, <2>2
    <3>2. PICK g : Unfolds(g, log, n - 1)
      BY <3>1
    <3> DEFINE f == [k \in 0..n |-> IF k = n THEN Applied(g[n - 1], log[n]) ELSE g[k]]
    <3>3. \A k \in 0..(n - 1) : /\ f[k] = g[k]
                                /\ g[k] = IF k = 0 THEN Nothing ELSE Applied(g[k - 1], log[k])
      BY <3>1, <3>2 DEF Unfolds
    <3>4. f[n] = Applied(g[n - 1], log[n]) /\ n - 1 \in 0..(n - 1) /\ f[n - 1] = g[n - 1]
      BY <3>1, <3>3
    <3>5. \A k \in 0..n : k = n \/ (k \in 0..(n - 1) /\ (k # 0 => k - 1 \in 0..(n - 1)))
      BY <3>1
    <3>6. f = [k \in 0..n |-> f[k]]
      OBVIOUS
    <3> HIDE DEF f
    <3>7. \A k \in 0..n : f[k] = IF k = 0 THEN Nothing ELSE Applied(f[k - 1], log[k])
      BY <2>2, <3>3, <3>4, <3>5
    <3>8. Unfolds(f, log, n)
      BY <3>6, <3>7 DEF Unfolds
    <3> QED
      BY <3>8
  <2> QED
    BY <2>1, <2>2
<1>2. T = {}
  <2> HIDE DEF T
  <2>1. T \subseteq Nat
    BY DEF T
  <2> QED
    BY <1>1, <2>1, Least
<1> QED
  BY <1>2

LEMMA AppliedTypes ==
  ASSUME NEW items \in [Items -> ItemStates], NEW e \in Events
  PROVE  Applied(items, e) \in [Items -> ItemStates]
<1>1. e.item \in Items /\ e.selected \in BOOLEAN
      /\ e.status \in {"pending", "verified", "unverified", "unsupported"}
      /\ items[e.item] \in ItemStates
  BY DEF Events
<1>2. ASSUME NEW r \in ItemStates
      PROVE  /\ [r EXCEPT !.status = "unsupported"] \in ItemStates
             /\ [r EXCEPT !.selected = TRUE] \in ItemStates
             /\ [r EXCEPT !.status = e.status] \in ItemStates
  BY <1>1 DEF ItemStates
<1>3. [status |-> "pending", selected |-> e.selected] \in ItemStates
  BY <1>1 DEF ItemStates
<1>4. ASSUME NEW r \in ItemStates PROVE [items EXCEPT ![e.item] = r] \in [Items -> ItemStates]
  BY <1>1
<1> QED
  BY <1>1, <1>2, <1>3, <1>4 DEF Applied

(* Whatever the events are, they amount to a scope. *)
LEMMA ScopeTypes ==
  ASSUME NEW log \in Seq(Events)
  PROVE  ScopeOf(log) \in [Items -> ItemStates]
<1> DEFINE after == CHOOSE f : f = [n \in 0..Len(log) |-> IF n = 0 THEN Nothing
                                                         ELSE Applied(f[n - 1], log[n])]
<1>1. Len(log) \in Nat /\ \A n \in 1..Len(log) : log[n] \in Events
  OBVIOUS
<1>2. ScopeOf(log) = after[Len(log)]
  BY DEF ScopeOf
<1>3. Unfolds(after, log, Len(log))
  <2>1. \E f : Unfolds(f, log, Len(log))
    BY <1>1, UnfoldsSome
  <2> QED
    BY <2>1, Zenon DEF Unfolds
<1> HIDE DEF after
<1>4. \A n \in 0..Len(log) : after[n] = IF n = 0 THEN Nothing ELSE Applied(after[n - 1], log[n])
  BY <1>3 DEF Unfolds
<1>5. Nothing \in [Items -> ItemStates]
  BY DEF Nothing, Absent, ItemStates
<1> DEFINE T == {n \in 0..Len(log) : after[n] \notin [Items -> ItemStates]}
<1>6. ASSUME NEW n \in T, \A k \in T : n <= k PROVE FALSE
  <2>1. CASE n = 0
    BY <1>1, <1>4, <1>5, <2>1
  <2>2. CASE n # 0
    <3>1. n - 1 \in 0..Len(log) /\ n - 1 \notin T /\ n \in 1..Len(log)
      BY <1>1, <1>6, <2>2
    <3>2. after[n - 1] \in [Items -> ItemStates] /\ log[n] \in Events
      BY <1>1, <3>1
    <3>3. after[n] = Applied(after[n - 1], log[n])
      BY <1>4, <2>2
    <3> QED
      BY <3>2, <3>3, AppliedTypes
  <2> QED
    BY <2>1, <2>2
<1>7. T = {}
  <2>1. T \subseteq Nat
    BY <1>1
  <2> HIDE DEF T
  <2> QED
    BY <1>6, <2>1, Least
<1> QED
  BY <1>1, <1>2, <1>7

-----------------------------------------------------------------------------
(* The finish.                                                             *)

(* The scope is what the ledger's events amount to. *)
LEMMA SameLedgerSameScope ==
  ASSUME UNCHANGED recorded
  PROVE  UNCHANGED Scope /\ UNCHANGED Gaps(Scope) /\ UNCHANGED Partial(Scope)
<1>1. UNCHANGED Scope
  BY DEF Scope
<1> QED
  BY <1>1 DEF Gaps, Partial, Unfinished, Unsampled

(* A step that neither nears the end nor starts from it. *)
LEMMA EarlyStep ==
  ASSUME Decided, pc # "done", UNCHANGED accepted,
         pc' \in {"idle", "tool", "flush", "facts", "decide", "stopped"}
  PROVE  Closed' /\ Decided'
  BY DEF Closed, Decided, Late

LEMMA ThrowsStep ==
  ASSUME Decided, pc # "done", UNCHANGED accepted, Throws
  PROVE  Closed' /\ Decided' /\ Shaped'
<1>1. pc' \in {"idle", "tool", "flush", "facts", "decide", "stopped"} /\ finish' = NoFinish
  BY DEF Throws
<1> QED
  BY <1>1, EarlyStep DEF Shaped, NoFinish

(* While the boundary moves, the end stands still. *)
LEMMA BoundaryStep ==
  ASSUME Inv, Boundary
  PROVE  Inv'
<1> USE DEF Inv
<1>1. BoundaryInv'
  BY SessionInv, ChainInv DEF Boundary
<1>2. UNCHANGED <<pc, finish, accepted, closing, sealed>>
  BY SessionMoves, TailDrains DEF Boundary, finishVars, Joins, Drains, sessionVars, BoundaryInv
<1>3. sealed /\ Pending = {} => Pending' = {}
  <2>1. CASE SessionStep
    BY <2>1, SealedIsSilent DEF BoundaryInv
  <2>2. CASE TailStep \/ TailFails
    <3>1. UNCHANGED at
      BY <2>2, TailDrains DEF BoundaryInv, Drains, sessionVars
    <3> QED
      BY <3>1 DEF Pending
  <2> QED
    BY <2>1, <2>2 DEF Boundary
<1>4. Late => UNCHANGED <<tail, latched, epoch, facts, recorded, abandoned>>
  <2>1. CASE SessionStep
    BY <2>1, SessionMoves, SealedIsSilent DEF BoundaryInv, Closed, Joins, ledgerVars
  <2>2. CASE TailStep \/ TailFails
    BY <2>2, TailDrains DEF BoundaryInv, Drains, Closed, Resting
  <2> QED
    BY <2>1, <2>2 DEF Boundary
<1>5. Closed'
  BY <1>2, <1>3, <1>4 DEF Closed, Late, Resting, NetworkFacts
<1>6. Decided'
  <2>1. CASE ~Late
    BY <1>2, <2>1 DEF Decided, Late
  <2>2. CASE Late
    <3>1. UNCHANGED Gaps(Scope) /\ UNCHANGED Partial(Scope)
      BY <1>4, <2>2, SameLedgerSameScope
    <3>2. pc = "accept" => Admissible(finish.claim)'
      BY <1>2, <1>4, <2>2, <3>1 DEF Decided, Admissible
    <3> QED
      BY <1>2, <1>4, <2>2, <3>1, <3>2 DEF Decided
  <2> QED
    BY <2>1, <2>2
<1> QED
  BY <1>1, <1>2, <1>5, <1>6 DEF Shaped

(* The steps of the tools and the finish leave the boundary as it is, but  *)
(* for the seal and the abort, which stop its session. *)
LEMMA StoppedInv ==
  ASSUME BoundaryInv, sealed' \in BOOLEAN, stopped' \in BOOLEAN,
         UNCHANGED <<at, spent, connected, chainVars>>
  PROVE  BoundaryInv'
<1> USE DEF BoundaryInv, chainVars
<1>1. BoundaryTypeOK'
  BY DEF BoundaryTypeOK
<1>2. CapKept'
  BY DEF CapKept, Charged
<1>3. Told' /\ Staged'
  BY DEF Told, Staged, ShutdownsIn
<1> QED
  BY <1>1, <1>2, <1>3

LEMMA QuietInv ==
  ASSUME BoundaryInv, UNCHANGED boundaryVars
  PROVE  BoundaryInv'
  BY StoppedInv DEF BoundaryInv, BoundaryTypeOK, boundaryVars, chainVars

LEMMA ToolsStep ==
  ASSUME Inv, Tools \/ ToolPersists \/ ToolFails \/ ToolReturns
  PROVE  Inv'
<1> USE DEF Inv
<1>1. UNCHANGED boundaryVars
  BY DEF Tools, SelectCheck, MeasureCheck, RecordGap, Tool, ToolPersists, ToolFails, ToolReturns, Outside
<1>2. CASE Tools
  <2>1. pc = "idle" /\ pc' = "tool" /\ UNCHANGED <<finish, accepted>>
    BY <1>2 DEF Tools, SelectCheck, MeasureCheck, RecordGap, Tool, Goes
  <2> QED
    BY <1>1, <2>1, QuietInv, EarlyStep DEF Shaped
<1>3. CASE ToolPersists \/ ToolReturns
  <2>1. pc = "tool" /\ pc' \in {"tool", "idle"} /\ UNCHANGED <<finish, accepted>>
    BY <1>3 DEF ToolPersists, ToolReturns, Goes, finishVars
  <2> QED
    BY <1>1, <2>1, QuietInv, EarlyStep DEF Shaped
<1>4. CASE ToolFails
  <2>1. pc = "tool" /\ Throws /\ UNCHANGED accepted
    BY <1>4 DEF ToolFails
  <2> QED
    BY <1>1, <2>1, QuietInv, ThrowsStep
<1> QED
  BY <1>2, <1>3, <1>4
LEMMA AbortStep ==
  ASSUME Inv, Abort
  PROVE  Inv'
<1> USE DEF Inv
<1>1. /\ UNCHANGED <<ledgerVars, chainVars, at, spent, sealed, connected>> /\ stopped' = TRUE
      /\ UNCHANGED <<pc, finish, closing, accepted>>
  BY DEF Abort
<1>2. BoundaryInv'
  BY <1>1, StoppedInv DEF BoundaryInv, BoundaryTypeOK
<1>3. UNCHANGED Gaps(Scope) /\ UNCHANGED Partial(Scope)
  BY <1>1, SameLedgerSameScope DEF ledgerVars
<1>4. Closed'
  BY <1>1 DEF Closed, Late, Resting, NetworkFacts, Pending, chainVars
<1>5. Admissible(finish.claim) <=> Admissible(finish.claim)'
  BY <1>1, <1>3 DEF Admissible, chainVars
<1>6. Decided' /\ Shaped'
  BY <1>1, <1>3, <1>5 DEF Decided, Shaped, chainVars
<1> QED
  BY <1>2, <1>4, <1>6

LEMMA FinishSteps ==
  ASSUME Inv, Begin \/ FinishStep
  PROVE  Inv'
<1> USE DEF Inv
<1>1. CASE Begin
  BY <1>1, QuietInv, EarlyStep DEF Begin, Outside, Goes, Shaped
<1>2. CASE Flush
  <2>1. pc = "flush" /\ UNCHANGED <<boundaryVars, accepted>>
    BY <1>2 DEF Flush, Outside
  <2>2. Throws \/ (pc' = "facts" /\ UNCHANGED finish)
    BY <1>2, Zenon DEF Flush, Continues, Goes
  <2> QED
    BY <2>1, <2>2, QuietInv, EarlyStep, ThrowsStep DEF Shaped
<1>3. CASE GatherFacts
  <2>1. /\ finish' = [finish EXCEPT !.epoch = epoch]
        /\ UNCHANGED <<ledgerVars, boundaryVars, closing, accepted>>
        /\ \/ pc = "facts" /\ pc' = "decide"
           \/ pc = "facts-again" /\ pc' = "decide-again"
    BY <1>3 DEF GatherFacts, Outside, Goes
  <2>2. Shaped' /\ finish'.epoch = epoch
    BY <2>1 DEF Shaped
  <2>3. CASE pc' = "decide"
    BY <2>1, <2>2, <2>3, QuietInv, EarlyStep
  <2>4. CASE pc' = "decide-again"
    <3>1. Closed'
      BY <2>1, <2>4 DEF Closed, Late, Resting, NetworkFacts, Pending, boundaryVars
    <3>2. Decided'
      BY <2>1, <2>2, <2>4 DEF Decided, boundaryVars
    <3> QED
      BY <2>1, <2>2, <3>1, <3>2, QuietInv
  <2> QED
    BY <2>1, <2>3, <2>4
<1>4. ASSUME NEW reason \in Claims, Reject(reason) PROVE Inv'
  BY <1>4, QuietInv, EarlyStep DEF Reject, Outside, Goes, Shaped, NoFinish
<1>5. ASSUME NEW reason \in Claims, Seal(reason) PROVE Inv'
  <2>1. /\ pc = "decide" /\ pc' = "settle" /\ sealed' = TRUE /\ stopped' = TRUE
        /\ finish' = [finish EXCEPT !.claim = reason, !.proof = Scope]
        /\ UNCHANGED <<chainVars, at, spent, connected, accepted>>
    BY <1>5 DEF Seal, Goes
  <2>2. Shaped'
    BY <2>1, Zenon DEF Shaped
  <2> QED
    BY <2>1, <2>2, StoppedInv DEF Closed, Decided, Late
<1>6. CASE Settle
  <2>1. pc = "settle" /\ Pending = {} /\ pc' = "flush-again"
        /\ UNCHANGED <<boundaryVars, finish, accepted>>
    BY <1>6 DEF Settle, Goes, Outside
  <2>2. Closed' /\ Decided'
    BY <2>1 DEF Closed, Decided, Late, Pending, boundaryVars
  <2> QED
    BY <2>1, <2>2, QuietInv DEF Shaped
<1>7. CASE WriteSeal
  <2>1. /\ pc = "flush-again" /\ tail = << >> /\ UNCHANGED <<boundaryVars, accepted>>
        /\ \/ Throws
           \/ /\ latched = {} /\ closing' = [shutdowns |-> abandoned, then |-> NetworkFacts]
              /\ pc' = "facts-again" /\ UNCHANGED finish
    BY <1>7 DEF WriteSeal, Continues, Goes, Outside
  <2>2. CASE Throws
    BY <2>1, <2>2, QuietInv, ThrowsStep
  <2>3. CASE /\ latched = {} /\ closing' = [shutdowns |-> abandoned, then |-> NetworkFacts]
             /\ pc' = "facts-again" /\ UNCHANGED finish
    <3>1. ShutdownsIn(tail) = {} /\ facts["shutdown"] \in Nat
      BY <2>1 DEF ShutdownsIn, BoundaryInv, BoundaryTypeOK, FactTypes
    <3>2. abandoned = facts["shutdown"]
      BY <2>3, <3>1, FS_EmptySet DEF BoundaryInv, Told
    <3>3. Closed'
      BY <2>1, <2>3, <3>2 DEF Closed, Late, Resting, NetworkFacts, Pending, boundaryVars
    <3>4. Decided' /\ Shaped'
      BY <2>1, <2>3 DEF Decided, Shaped
    <3> QED
      BY <2>1, <3>3, <3>4, QuietInv
  <2> QED
    BY <2>1, <2>2, <2>3
<1>8. CASE DecideAgain
  <2>1. /\ pc = "decide-again" /\ UNCHANGED <<ledgerVars, boundaryVars, closing, accepted>>
        /\ \/ Throws
           \/ /\ Admissible(finish.claim) /\ pc' = "accept"
              /\ finish' = [finish EXCEPT !.proof = Scope]
    BY <1>8 DEF DecideAgain, Goes, Outside
  <2>2. CASE Throws
    BY <2>1, <2>2, QuietInv, ThrowsStep
  <2>3. CASE /\ Admissible(finish.claim) /\ pc' = "accept"
             /\ finish' = [finish EXCEPT !.proof = Scope]
    <3>1. Shaped' /\ finish'.epoch = finish.epoch /\ finish'.claim = finish.claim
      BY <2>3, Zenon DEF Shaped
    <3>2. UNCHANGED Gaps(Scope) /\ UNCHANGED Partial(Scope)
      BY <2>1, SameLedgerSameScope DEF ledgerVars
    <3>3. Admissible(finish.claim)'
      BY <2>1, <2>3, <3>1, <3>2 DEF Admissible, boundaryVars
    <3>4. Closed'
      BY <2>1, <2>3 DEF Closed, Late, Resting, NetworkFacts, Pending, boundaryVars
    <3>5. Decided'
      BY <2>1, <2>3, <3>1, <3>3 DEF Decided, boundaryVars
    <3> QED
      BY <2>1, <3>1, <3>4, <3>5, QuietInv
  <2> QED
    BY <2>1, <2>2, <2>3
<1>9. CASE Accept
  <2>1. /\ pc = "accept" /\ pc' = "done" /\ UNCHANGED <<ledgerVars, boundaryVars, closing>>
        /\ finish' = NoFinish /\ accepted'.claim = finish.claim
    BY <1>9 DEF Accept, Goes, Outside
  <2>2. UNCHANGED Gaps(Scope)
    BY <2>1, SameLedgerSameScope DEF ledgerVars
  <2>3. finish.claim = "scope-covered" => epoch = 0 /\ ~Gaps(Scope)
    BY <2>1 DEF Decided, Admissible
  <2>4. Closed'
    BY <2>1 DEF Closed, Late, Resting, NetworkFacts, Pending, boundaryVars
  <2>5. Decided'
    BY <2>1, <2>2, <2>3 DEF Decided, boundaryVars
  <2> QED
    BY <2>1, <2>4, <2>5, QuietInv DEF Shaped, NoFinish
<1> QED
  BY <1>1, <1>2, <1>3, <1>4, <1>5, <1>6, <1>7, <1>8, <1>9 DEF FinishStep

-----------------------------------------------------------------------------
(* The ledger and its writers.  The records of a chain that names items;   *)
(* who may be writing; and, while no write failed and no two callers met,  *)
(* the log holds the first events of the ledger, in order, and the one     *)
(* writer holds the rest.                                                  *)
Named(s) == \A k \in 1..Len(s) : s[k].kind = "channel" => s[k].of \in Popups
Lined ==
  /\ Named(tail)
  /\ stage = "ledger" => tail # << >> /\ Head(tail).of \in Documents
TypedLedger ==
  /\ recorded \in Seq(Events) /\ persisted \in Nat
  /\ writer \in [Writers -> Seq(1..Len(recorded))]
  /\ written \in Seq(1..Len(recorded))
  /\ faults \in 0..MaxFaults /\ overlapped \in BOOLEAN
Busy == (Writing("tool") => pc = "tool") /\ (Writing("tail") => stage = "persist")

InOrder ==
  faults = 0 /\ ~overlapped =>
    /\ written = [n \in 1..persisted |-> n] /\ persisted <= Len(recorded)
    /\ \A w \in Writers : Writing(w) => writer[w] = Window(persisted, Len(recorded))
    /\ (\A w \in Writers : ~Writing(w)) => persisted = Len(recorded)
    /\ ~(Writing("tool") /\ Writing("tail"))

LEMMA SameSeq ==
  ASSUME NEW S, NEW s \in Seq(S), NEW t \in Seq(S), Len(s) = Len(t),
         \A n \in 1..Len(s) : s[n] = t[n]
  PROVE  s = t
  OBVIOUS

LEMMA HeadTail ==
  ASSUME NEW S, NEW s \in Seq(S), s # << >>
  PROVE  /\ Head(s) \in S /\ Head(s) = s[1] /\ Tail(s) \in Seq(S) /\ Len(Tail(s)) = Len(s) - 1
         /\ \A n \in 1..(Len(s) - 1) : Tail(s)[n] = s[n + 1]
  OBVIOUS

LEMMA Windows ==
  ASSUME NEW p \in Nat, NEW k \in Nat
  PROVE  /\ Window(p, k) \in Seq(1..k)
         /\ Window(p, k) # << >> <=> p < k
         /\ p < k => Head(Window(p, k)) = p + 1 /\ Tail(Window(p, k)) = Window(p + 1, k)
<1>1. CASE p < k
  <2> DEFINE s == Window(p, k)
             t == Window(p + 1, k)
  <2>1. /\ k - p \in Nat /\ k - p > 0 /\ k - (p + 1) \in Nat
        /\ \A n \in 1..(k - p) : p + n \in 1..k
        /\ \A n \in 1..(k - (p + 1)) : p + 1 + n \in 1..k /\ n + 1 \in 1..(k - p)
    BY <1>1
  <2>2. s \in Seq(1..k) /\ Len(s) = k - p /\ \A n \in 1..(k - p) : s[n] = p + n
    BY <2>1 DEF Window
  <2>3. t \in Seq(1..k) /\ Len(t) = k - p - 1 /\ \A n \in 1..(k - p - 1) : t[n] = p + 1 + n
    BY <2>1 DEF Window
  <2> HIDE DEF s, t
  <2>4. s # << >> /\ Head(s) = p + 1
    BY <2>1, <2>2
  <2>5. /\ Tail(s) \in Seq(1..k) /\ Len(Tail(s)) = k - p - 1
        /\ \A n \in 1..(k - p - 1) : Tail(s)[n] = p + (n + 1)
    BY <2>1, <2>2, <2>4, HeadTail
  <2>6. \A n \in 1..(k - p - 1) : Tail(s)[n] = t[n]
    BY <2>3, <2>5
  <2>7. Tail(s) = t
    BY <2>3, <2>5, <2>6, SameSeq
  <2> QED
    BY <1>1, <2>2, <2>4, <2>7 DEF s, t
<1>2. CASE ~(p < k)
  <2>1. 1..(k - p) = 1..0 /\ 1..0 = {}
    BY <1>2
  <2>2. Window(p, k) = << >>
    BY <2>1 DEF Window
  <2> QED
    BY <1>2, <2>2
<1> QED
  BY <1>1, <1>2

(* Positions of a ledger stay positions when it grows. *)
LEMMA PositionsStay ==
  ASSUME NEW k \in Nat, NEW l \in Nat, k <= l, NEW s \in Seq(1..k)
  PROVE  s \in Seq(1..l)
<1>1. \A n \in 1..Len(s) : s[n] \in 1..l
  OBVIOUS
<1> QED
  BY <1>1

LEMMA RecordingKeeps ==
  ASSUME TypedLedger, InOrder, NEW w \in Writers, ~Writing(w), NEW events \in Seq(Events),
         RecordAndPersist(w, events)
  PROVE  TypedLedger' /\ InOrder'
<1> DEFINE k == Len(recorded)
           l == Len(recorded) + Len(events)
<1>1. /\ recorded' = recorded \o events /\ writer' = [writer EXCEPT ![w] = Window(persisted, l)]
      /\ overlapped' = (overlapped \/ \E v \in Writers \ {w} : Writing(v))
      /\ UNCHANGED <<persisted, written, faults>>
  BY Zenon DEF RecordAndPersist
<1>2. recorded' \in Seq(Events) /\ Len(recorded') = l /\ k \in Nat /\ l \in Nat /\ k <= l
  BY <1>1 DEF TypedLedger
<1> HIDE DEF k, l
<1>3. /\ Window(persisted, l) \in Seq(1..l) /\ persisted \in Nat
      /\ Window(persisted, l) # << >> <=> persisted < l
  BY <1>2, Windows DEF TypedLedger
<1>4. \A v \in Writers : writer[v] \in Seq(1..l)
  BY <1>2, PositionsStay DEF TypedLedger, k
<1>5. /\ writer' \in [Writers -> Seq(1..l)] /\ writer'[w] = Window(persisted, l)
      /\ \A v \in Writers : v # w => writer'[v] = writer[v]
  BY <1>1, <1>3, <1>4 DEF TypedLedger
<1>6. written' \in Seq(1..l)
  BY <1>1, <1>2, PositionsStay DEF TypedLedger, k
<1>7. overlapped' \in BOOLEAN
  BY <1>1 DEF TypedLedger
<1>8. TypedLedger'
  BY <1>1, <1>2, <1>3, <1>5, <1>6, <1>7 DEF TypedLedger
<1>9. ASSUME faults' = 0, ~overlapped' PROVE InOrder'
  <2>1. faults = 0 /\ ~overlapped /\ \A v \in Writers : ~Writing(v)
    BY <1>1, <1>9 DEF TypedLedger
  <2>2. persisted = k /\ written = [n \in 1..persisted |-> n]
    BY <2>1 DEF InOrder, k
  <2>3. \A v \in Writers : v # w => writer'[v] = << >>
    BY <1>5, <2>1 DEF Writing
  <2> QED
    BY <1>1, <1>2, <1>3, <1>5, <2>2, <2>3 DEF InOrder, Writing, Writers
<1> QED
  BY <1>8, <1>9 DEF InOrder

LEMMA PersistingKeeps ==
  ASSUME TypedLedger, InOrder, NEW w \in Writers, PersistEvent(w)
  PROVE  TypedLedger' /\ InOrder'
<1> DEFINE k == Len(recorded)
<1>1. /\ written' = Append(written, Head(writer[w])) /\ persisted' = persisted + 1
      /\ writer' = [writer EXCEPT ![w] = Tail(writer[w])] /\ Writing(w)
      /\ UNCHANGED <<recorded, faults, overlapped>>
  BY DEF PersistEvent
<1>2. /\ k \in Nat /\ persisted \in Nat /\ writer[w] \in Seq(1..k) /\ writer[w] # << >>
      /\ written \in Seq(1..k)
  BY <1>1 DEF TypedLedger, Writing
<1> HIDE DEF k
<1>3. Head(writer[w]) \in 1..k /\ Tail(writer[w]) \in Seq(1..k)
  BY <1>2, HeadTail
<1>4. written' \in Seq(1..k)
  BY <1>1, <1>2, <1>3
<1>5. /\ writer' \in [Writers -> Seq(1..k)] /\ writer'[w] = Tail(writer[w])
      /\ \A v \in Writers : v # w => writer'[v] = writer[v]
  BY <1>1, <1>3 DEF TypedLedger, k
<1>6. TypedLedger'
  BY <1>1, <1>2, <1>4, <1>5 DEF TypedLedger, k
<1>7. ASSUME faults' = 0, ~overlapped' PROVE InOrder'
  <2>1. faults = 0 /\ ~overlapped
    BY <1>1, <1>7
  <2>2. /\ written = [n \in 1..persisted |-> n] /\ writer[w] = Window(persisted, k)
        /\ ~(Writing("tool") /\ Writing("tail"))
    BY <1>1, <2>1 DEF InOrder, k
  <2>3. /\ persisted < k /\ Head(writer[w]) = persisted + 1
        /\ Tail(writer[w]) = Window(persisted + 1, k)
    BY <1>2, <2>2, Windows
  <2>4. Window(persisted + 1, k) # << >> <=> persisted + 1 < k
    BY <1>2, Windows
  <2>5. written' = [n \in 1..(persisted + 1) |-> n]
    BY <1>1, <1>2, <2>2, <2>3
  <2>6. \A v \in Writers : v # w => writer'[v] = << >>
    BY <1>1, <1>5, <2>2 DEF Writing, Writers
  <2>7. Len(recorded)' = k /\ persisted' <= k
    BY <1>1, <1>2, <2>3 DEF k
  <2>8. writer'[w] = Window(persisted', k)
    BY <1>1, <1>5, <2>3
  <2>9. writer'[w] = << >> => persisted' = k
    <3>1. persisted' = persisted + 1 /\ writer'[w] = Window(persisted + 1, k)
      BY <1>1, <2>8
    <3> QED
      BY <1>2, <2>3, <2>4, <3>1
  <2> QED
    BY <1>1, <2>5, <2>6, <2>7, <2>8, <2>9 DEF InOrder, Writing, Writers
<1> QED
  BY <1>6, <1>7 DEF InOrder

(* What any step does to the ledger. *)
Faulted(w) ==
  /\ faults < MaxFaults /\ faults' = faults + 1 /\ writer' = [writer EXCEPT ![w] = << >>]
  /\ UNCHANGED <<recorded, persisted, written, overlapped>>
LedgerMoves ==
  \/ UNCHANGED ledgerVars
  \/ \E w \in Writers, events \in Seq(Events) : ~Writing(w) /\ RecordAndPersist(w, events)
  \/ \E w \in Writers : PersistEvent(w)
  \/ \E w \in Writers : Faulted(w)

LEMMA LedgerKeeps ==
  ASSUME TypedLedger, InOrder, LedgerMoves
  PROVE  /\ TypedLedger' /\ InOrder'
         /\ faults' = 0 /\ ~overlapped' => faults = 0 /\ ~overlapped
<1>1. CASE UNCHANGED ledgerVars
  BY <1>1 DEF ledgerVars, TypedLedger, InOrder, Writing
<1>2. ASSUME NEW w \in Writers, NEW events \in Seq(Events), ~Writing(w), RecordAndPersist(w, events)
      PROVE  faults' = 0 /\ ~overlapped' => faults = 0 /\ ~overlapped
  BY <1>2 DEF RecordAndPersist, TypedLedger
<1>3. ASSUME NEW w \in Writers, PersistEvent(w)
      PROVE  faults' = 0 /\ ~overlapped' => faults = 0 /\ ~overlapped
  BY <1>3 DEF PersistEvent
<1>4. ASSUME NEW w \in Writers, Faulted(w)
      PROVE  /\ TypedLedger' /\ InOrder'
             /\ faults' = 0 /\ ~overlapped' => faults = 0 /\ ~overlapped
  <2>1. << >> \in Seq(1..Len(recorded))
    OBVIOUS
  <2>2. writer' \in [Writers -> Seq(1..Len(recorded))]
    BY <1>4, <2>1 DEF Faulted, TypedLedger
  <2>3. faults \in 0..MaxFaults /\ MaxFaults \in Nat /\ faults < MaxFaults /\ faults' = faults + 1
    BY <1>4, LedgerConstants DEF Faulted, TypedLedger
  <2>4. faults' \in 0..MaxFaults /\ faults' # 0
    BY <2>3
  <2> QED
    BY <1>4, <2>2, <2>4 DEF Faulted, TypedLedger, InOrder
<1> QED
  BY <1>1, <1>2, <1>3, <1>4, RecordingKeeps, PersistingKeeps DEF LedgerMoves
LEMMA EventSeqs ==
  ASSUME NEW e \in Events, NEW d \in Events
  PROVE  <<e>> \in Seq(Events) /\ <<e, d>> \in Seq(Events)
  OBVIOUS

LEMMA NamesShift ==
  ASSUME NEW s \in Seq(Records), Named(s)
  PROVE  /\ s # << >> => Named(Tail(s))
         /\ \A r \in Records : (r.kind = "channel" => r.of \in Popups) => Named(Append(s, r))
<1>1. ASSUME s # << >> PROVE Named(Tail(s))
  <2>1. /\ Len(s) \in Nat \ {0} /\ Len(Tail(s)) = Len(s) - 1
        /\ \A n \in 1..(Len(s) - 1) : Tail(s)[n] = s[n + 1] /\ n + 1 \in 1..Len(s)
    BY <1>1, HeadTail
  <2> QED
    BY <2>1 DEF Named
<1>2. ASSUME NEW r \in Records, r.kind = "channel" => r.of \in Popups
      PROVE  Named(Append(s, r))
  <2>1. /\ Len(s) \in Nat /\ Len(Append(s, r)) = Len(s) + 1 /\ Append(s, r)[Len(s) + 1] = r
        /\ \A n \in 1..Len(s) : Append(s, r)[n] = s[n]
        /\ \A n \in 1..(Len(s) + 1) : n \in 1..Len(s) \/ n = Len(s) + 1
    OBVIOUS
  <2> QED
    BY <1>2, <2>1 DEF Named
<1> QED
  BY <1>1, <1>2

(* The steps that leave the ledger alone. *)
LEMMA LedgerRests ==
  ASSUME Busy, UNCHANGED <<ledgerVars, pc>>, UNCHANGED stage \/ ~Writing("tail")
  PROVE  LedgerMoves /\ Busy'
  BY DEF Busy, LedgerMoves, ledgerVars, Writing

(* Who writes stays known when one writer's queue changes. *)
LEMMA OtherWriter ==
  ASSUME TypedLedger, NEW w \in Writers, NEW s, writer' = [writer EXCEPT ![w] = s]
  PROVE  writer'[w] = s /\ \A v \in Writers : v # w => writer'[v] = writer[v]
  BY DEF TypedLedger

LEMMA ToolLedger ==
  ASSUME TypedLedger, Busy, Tools \/ ToolPersists \/ ToolFails \/ ToolReturns
  PROVE  LedgerMoves /\ Busy'
<1>0. "tool" \in Writers /\ "tail" \in Writers /\ UNCHANGED stage
  BY DEF Writers, Tools, SelectCheck, MeasureCheck, RecordGap, Tool, ToolPersists, ToolFails,
         ToolReturns, Outside, boundaryVars
<1>1. CASE Tools
  <2>1. \A i \in Items, b \in BOOLEAN, s \in {"verified", "unverified"} :
          Create(i, b) \in Events /\ Resolve(i, s) \in Events /\ Select(i) \in Events
    BY DEF Create, Resolve, Select, Events
  <2>2. Checks \subseteq Items /\ GapItems \subseteq Items
    BY FinishConstants DEF Items
  <2>3. \E events \in Seq(Events) : Tool(events)
    <3>1. ASSUME NEW c \in Checks, SelectCheck(c) PROVE \E events \in Seq(Events) : Tool(events)
      <4>1. <<Select(c)>> \in Seq(Events)
        BY <2>1, <2>2, EventSeqs
      <4> QED
        BY <3>1, <4>1 DEF SelectCheck
    <3>2. ASSUME NEW c \in Checks, NEW s \in {"verified", "unverified"}, MeasureCheck(c, s)
          PROVE  \E events \in Seq(Events) : Tool(events)
      <4>1. <<Resolve(c, s)>> \in Seq(Events)
        BY <2>1, <2>2, EventSeqs
      <4> QED
        BY <3>2, <4>1 DEF MeasureCheck
    <3>3. ASSUME NEW g \in GapItems, RecordGap(g) PROVE \E events \in Seq(Events) : Tool(events)
      <4>1. <<Create(g, TRUE), Resolve(g, "unverified")>> \in Seq(Events)
        BY <2>1, <2>2, EventSeqs
      <4> QED
        BY <3>3, <4>1 DEF RecordGap
    <3> QED
      BY <1>1, <3>1, <3>2, <3>3, Zenon DEF Tools
  <2>4. PICK events \in Seq(Events) : Tool(events)
    BY <2>3
  <2>5. pc = "idle" /\ pc' = "tool" /\ RecordAndPersist("tool", events)
    BY <2>4 DEF Tool, Goes
  <2>6. ~Writing("tool")
    BY <2>5 DEF Busy
  <2>7. UNCHANGED Writing("tail")
    BY <1>0, <2>5, OtherWriter DEF RecordAndPersist, Writing
  <2> QED
    BY <1>0, <2>5, <2>6, <2>7 DEF LedgerMoves, Busy
<1>2. CASE ToolPersists
  <2>1. pc = "tool" /\ PersistEvent("tool") /\ UNCHANGED pc
    BY <1>2 DEF ToolPersists, finishVars
  <2>2. UNCHANGED Writing("tail")
    BY <1>0, <2>1, OtherWriter DEF PersistEvent, Writing
  <2> QED
    BY <1>0, <2>1, <2>2 DEF LedgerMoves, Busy
<1>3. CASE ToolFails
  <2>1. Faulted("tool")
    BY <1>3 DEF ToolFails, PersistFails, Faulted
  <2>2. UNCHANGED Writing("tail") /\ ~Writing("tool")'
    BY <1>0, <2>1, OtherWriter DEF Faulted, Writing
  <2> QED
    BY <1>0, <2>1, <2>2 DEF LedgerMoves, Busy
<1>4. CASE ToolReturns
  <2>1. ~Writing("tool") /\ UNCHANGED ledgerVars
    BY <1>4 DEF ToolReturns, Outside
  <2>2. UNCHANGED writer
    BY <2>1 DEF ledgerVars
  <2> QED
    BY <1>0, <2>1, <2>2 DEF LedgerMoves, Busy, Writing
<1> QED
  BY <1>1, <1>2, <1>3, <1>4

(* A record leaves the tail, or its handling goes on. *)
LEMMA TailLined ==
  ASSUME BoundaryTypeOK, Lined, tail # << >>,
         \/ UNCHANGED tail /\ (stage' = "ledger" => Head(tail).of \in Documents)
         \/ Handled
  PROVE  Lined'
<1>1. CASE UNCHANGED tail /\ (stage' = "ledger" => Head(tail).of \in Documents)
  BY <1>1 DEF Lined, Named
<1>2. CASE Handled
  <2>1. tail' = Tail(tail) /\ stage' = "start" /\ tail \in Seq(Records)
    BY <1>2 DEF Handled, BoundaryTypeOK, Records
  <2>2. Named(Tail(tail))
    BY <2>1, NamesShift DEF Lined
  <2>3. Named(tail)'
    BY <2>1, <2>2 DEF Named
  <2> QED
    BY <2>1, <2>3 DEF Lined
<1> QED
  BY <1>1, <1>2

LEMMA TailLedger ==
  ASSUME BoundaryTypeOK, TypedLedger, Lined, Busy, TailStep \/ TailFails, UNCHANGED pc
  PROVE  LedgerMoves /\ Busy' /\ Lined'
<1>0. /\ "tool" \in Writers /\ "tail" \in Writers
      /\ \A w \in Writers : writer' = [writer EXCEPT ![w] = writer'[w]] =>
           \A v \in Writers : v # w => writer'[v] = writer[v]
  BY DEF Writers, TypedLedger
<1> USE DEF Handling, Advance
<1>1. CASE WriteShutdown \/ WriteAllowed \/ WriteChannel \/ InterveneChannel \/ Intervene
  <2>1. /\ stage # "persist" /\ tail # << >> /\ UNCHANGED ledgerVars
        /\ Handled \/ (UNCHANGED tail /\ stage' = "decision")
    BY <1>1 DEF WriteShutdown, WriteAllowed, WriteChannel, InterveneChannel, Intervene
  <2> QED
    BY <2>1, LedgerRests, TailLined DEF Busy
<1>2. CASE WriteRefusal
  <2>1. /\ stage # "persist" /\ tail # << >> /\ UNCHANGED ledgerVars
        /\ Handled \/ (UNCHANGED tail /\ Head(tail).of \in Documents)
    BY <1>2 DEF WriteRefusal
  <2> QED
    BY <2>1, LedgerRests, TailLined DEF Busy
<1>3. CASE DenyNavigation \/ DenyChannel
  <2>1. \E events \in Seq(Events) : RecordAndPersist("tail", events)
    <3>1. CASE DenyNavigation
      <4>1. Head(tail).of \in Items
        BY <1>3, <3>1, BoundaryConstants DEF DenyNavigation, Lined, Items
      <4>2. <<Create(Head(tail).of, FALSE), Resolve(Head(tail).of, "unverified")>> \in Seq(Events)
        BY <4>1 DEF Create, Resolve, Events
      <4> QED
        BY <3>1, <4>2 DEF DenyNavigation
    <3>2. CASE DenyChannel
      <4>1. tail \in Seq(Records) /\ tail # << >> /\ Head(tail).kind = "channel"
        BY <3>2 DEF DenyChannel, BoundaryTypeOK, Records
      <4>2. Head(tail) = tail[1] /\ 1 \in 1..Len(tail)
        BY <4>1
      <4>3. Head(tail).of \in Items
        BY <4>1, <4>2, BoundaryConstants DEF Lined, Named, Items
      <4>4. <<Unsupported(Head(tail).of)>> \in Seq(Events)
        BY <4>3 DEF Unsupported, Events
      <4> QED
        BY <3>2, <4>4 DEF DenyChannel
    <3> QED
      BY <1>3, <3>1, <3>2
  <2>2. PICK events \in Seq(Events) : RecordAndPersist("tail", events)
    BY <2>1
  <2>3. tail # << >> /\ stage # "persist" /\ stage' = "persist" /\ UNCHANGED tail
    BY <1>3 DEF DenyNavigation, DenyChannel
  <2>4. ~Writing("tail") /\ UNCHANGED Writing("tool")
    BY <1>0, <2>2, <2>3, OtherWriter DEF Busy, RecordAndPersist, Writing
  <2> QED
    BY <1>0, <2>2, <2>3, <2>4, TailLined DEF LedgerMoves, Busy
<1>4. CASE TailPersists
  <2>1. PersistEvent("tail") /\ UNCHANGED <<tail, stage>> /\ stage = "persist"
    BY <1>4 DEF TailPersists
  <2>2. UNCHANGED Writing("tool")
    BY <1>0, <2>1, OtherWriter DEF PersistEvent, Writing
  <2> QED
    BY <1>0, <2>1, <2>2 DEF LedgerMoves, Busy, Lined, Named
<1>5. CASE TailPersisted
  <2>1. /\ ~Writing("tail") /\ tail # << >> /\ UNCHANGED ledgerVars
        /\ Handled \/ (UNCHANGED tail /\ stage' = "intervene")
    BY <1>5 DEF TailPersisted
  <2> QED
    BY <2>1, LedgerRests, TailLined
<1>6. CASE TailFails
  <2>1. Faulted("tail") /\ Handled /\ tail # << >>
    BY <1>6 DEF TailFails, Faulted
  <2>2. UNCHANGED Writing("tool") /\ ~Writing("tail")'
    BY <1>0, <2>1, OtherWriter DEF Faulted, Writing
  <2> QED
    BY <1>0, <2>1, <2>2, TailLined DEF LedgerMoves, Busy
<1> QED
  BY <1>1, <1>2, <1>3, <1>4, <1>5, <1>6 DEF TailStep

(* The session puts records on the tail that name what they are about. *)
LEMMA SessionLedger ==
  ASSUME BoundaryTypeOK, Staged, Lined, Busy, SessionStep, UNCHANGED pc
  PROVE  LedgerMoves /\ Busy' /\ Lined'
<1>1. Joins
  BY SessionMoves
<1>2. LedgerMoves /\ Busy'
  BY <1>1, LedgerRests DEF Joins
<1>3. CASE UNCHANGED tail
  BY <1>1, <1>2, <1>3 DEF Joins, Lined, Named
<1>4. ASSUME NEW r \in Records, r.kind = "channel" => r.of \in Popups, tail' = Append(tail, r)
      PROVE  Lined'
  <2>1. tail \in Seq(Records) /\ Len(tail) \in Nat
    BY DEF BoundaryTypeOK, Records
  <2>2. tail # << >> => tail' # << >> /\ Head(tail') = Head(tail)
    BY <1>4, <2>1
  <2>3. Named(Append(tail, r))
    BY <1>4, <2>1, NamesShift DEF Lined
  <2>4. Named(tail)'
    BY <1>4, <2>3 DEF Named
  <2> QED
    BY <1>1, <2>2, <2>4 DEF Lined, Joins
<1> QED
  BY <1>1, <1>2, <1>3, <1>4 DEF Joins

(* A finish whose proof is that of the log.  An intervention in the log    *)
(* has moved the epoch; the proof to accept is of the ledger as it is.     *)
Counted == facts["intervention"] <= epoch
Proven == pc = "accept" => finish.proof = Scope
LedgerInv == TypedLedger /\ InOrder /\ Busy /\ Lined
HonestInv == Inv /\ LedgerInv /\ Counted /\ Proven /\ FinishTypeOK /\ HonestFinishVerifies

LEMMA TailCounts ==
  ASSUME BoundaryTypeOK, Counted, TailStep \/ TailFails
  PROVE  Counted'
<1>0. facts \in [FactTypes -> Nat] /\ "intervention" \in FactTypes /\ epoch \in Nat
      /\ facts["intervention"] \in Nat
  BY DEF BoundaryTypeOK, FactTypes
<1>1. \A type \in FactTypes : Fact(type) =>
        facts'["intervention"] = facts["intervention"] + (IF type = "intervention" THEN 1 ELSE 0)
  BY <1>0 DEF Fact
<1>2. {"shutdown", "allowed", "denied", "intervention"} = FactTypes
  BY DEF FactTypes
<1>3. CASE WriteShutdown \/ WriteAllowed \/ WriteRefusal \/ WriteChannel
  <2>1. UNCHANGED epoch /\ \E type \in {"shutdown", "allowed", "denied"} : Fact(type)
    BY <1>3 DEF WriteShutdown, WriteAllowed, WriteRefusal, WriteChannel
  <2> QED
    BY <1>0, <1>1, <1>2, <2>1 DEF Counted
<1>4. CASE Intervene \/ InterveneChannel
  <2>1. epoch' = epoch + 1 /\ Fact("intervention")
    BY <1>4 DEF Intervene, InterveneChannel
  <2> QED
    BY <1>0, <1>1, <2>1 DEF Counted
<1>5. CASE DenyNavigation \/ DenyChannel \/ TailPersists \/ TailPersisted
  <2>1. UNCHANGED <<epoch, facts>>
    BY <1>5 DEF DenyNavigation, DenyChannel, TailPersists, TailPersisted
  <2> QED
    BY <2>1 DEF Counted
<1>6. CASE TailFails
  <2>1. UNCHANGED facts /\ epoch' \in {epoch, epoch + 1}
    BY <1>6 DEF TailFails
  <2> QED
    BY <1>0, <2>1 DEF Counted
<1> QED
  BY <1>3, <1>4, <1>5, <1>6 DEF TailStep

(* The scope of the ledger is one of the item states. *)
LEMMA ScopeIsTyped ==
  ASSUME TypedLedger
  PROVE  Scope \in [Items -> ItemStates]
  BY ScopeTypes DEF TypedLedger, Scope

(* What a tool does to the finish. *)
LEMMA ToolHonest ==
  ASSUME HonestInv, Tools \/ ToolPersists \/ ToolFails \/ ToolReturns
  PROVE  HonestInv'
<1> USE DEF HonestInv, LedgerInv
<1>1. Inv'
  BY ToolsStep
<1>2. LedgerMoves /\ Busy'
  BY ToolLedger
<1>3. TypedLedger' /\ InOrder'
  BY <1>2, LedgerKeeps
<1>4. /\ UNCHANGED <<boundaryVars, aborted, accepted>> /\ pc \in {"idle", "tool"}
      /\ pc' \in {"idle", "tool", "stopped"} /\ finish' \in {finish, NoFinish}
  BY DEF Tools, SelectCheck, MeasureCheck, RecordGap, Tool, ToolPersists, ToolFails,
         ToolReturns, Outside, Goes, Throws, finishVars
<1>5. Lined' /\ Counted'
  BY <1>4 DEF boundaryVars, Lined, Named, Counted
<1>6. NoFinish \in [claim : Claims \cup {"none"}, epoch : Nat, proof : [Items -> ItemStates]]
  BY DEF NoFinish, Nothing, Absent, ItemStates
<1>7. FinishTypeOK' /\ Proven'
  BY <1>4, <1>6 DEF FinishTypeOK, Proven
<1>8. accepted = None
  BY <1>4 DEF Inv, Decided
<1>9. HonestFinishVerifies'
  BY <1>4, <1>8 DEF HonestFinishVerifies, None
<1> QED
  BY <1>1, <1>2, <1>3, <1>5, <1>7, <1>9

(* An accepted finish and the event it left behind stay as they are. *)
LEMMA VerdictStays ==
  ASSUME HonestFinishVerifies, UNCHANGED accepted,
         faults' = 0 /\ ~overlapped' => faults = 0 /\ ~overlapped
  PROVE  HonestFinishVerifies'
  BY DEF HonestFinishVerifies, Verified, ProofMatchesLog, CoverageStands, Gaps, Unfinished,
         Unsampled, None

LEMMA BoundaryHonest ==
  ASSUME HonestInv, Boundary
  PROVE  HonestInv'
<1> USE DEF HonestInv, LedgerInv
<1>1. Inv'
  BY BoundaryStep
<1>2. UNCHANGED <<pc, finish, aborted, accepted>> /\ BoundaryTypeOK /\ Staged
  BY DEF Boundary, finishVars, Inv, BoundaryInv
<1>3. LedgerMoves /\ Busy' /\ Lined'
  BY <1>2, SessionLedger, TailLedger DEF Boundary
<1>4. /\ TypedLedger' /\ InOrder'
      /\ faults' = 0 /\ ~overlapped' => faults = 0 /\ ~overlapped
  BY <1>3, LedgerKeeps
<1>5. Counted'
  <2>1. CASE SessionStep
    BY <1>2, <2>1, SessionMoves DEF Joins, Counted
  <2>2. CASE TailStep \/ TailFails
    BY <1>2, <2>2, TailCounts
  <2> QED
    BY <2>1, <2>2 DEF Boundary
<1>6. FinishTypeOK'
  BY <1>2 DEF FinishTypeOK
<1>7. pc = "accept" => UNCHANGED recorded
  <2>1. CASE SessionStep
    BY <1>2, <2>1, SessionMoves DEF Joins, ledgerVars
  <2>2. CASE TailStep \/ TailFails
    BY <1>2, <2>2, TailDrains DEF Drains, Inv, Closed, Late, Resting
  <2> QED
    BY <2>1, <2>2 DEF Boundary
<1>8. Proven'
  BY <1>2, <1>7, SameLedgerSameScope DEF Proven
<1>9. HonestFinishVerifies'
  BY <1>2, <1>4, VerdictStays
<1> QED
  BY <1>1, <1>3, <1>4, <1>5, <1>6, <1>8, <1>9

(* When a finish is to be accepted the log holds the whole ledger. *)
LEMMA NothingToWrite ==
  ASSUME HonestInv, pc = "accept", faults = 0, ~overlapped
  PROVE  Projection = Scope
<1> USE DEF HonestInv, LedgerInv
<1>1. tail = << >> /\ stage = "start"
  BY DEF Inv, BoundaryInv, Closed, Late, Resting, Staged
<1>2. \A w \in Writers : ~Writing(w)
  BY <1>1 DEF Busy, Writers
<1>3. persisted = Len(recorded) /\ written = [n \in 1..persisted |-> n]
  BY <1>2 DEF InOrder
<1>4. recorded \in Seq(Events)
  BY DEF TypedLedger
<1>5. [n \in DOMAIN written |-> recorded[written[n]]] = recorded
  BY <1>3, <1>4
<1> QED
  BY <1>5 DEF Projection, Scope

LEMMA AcceptHonest ==
  ASSUME HonestInv, Accept
  PROVE  HonestFinishVerifies'
<1> USE DEF HonestInv, LedgerInv
<1>1. /\ accepted' = [claim |-> finish.claim, proof |-> finish.proof, before |-> Projection,
                      intervened |-> facts["intervention"] > 0]
      /\ pc = "accept" /\ UNCHANGED ledgerVars
  BY DEF Accept, Outside
<1>2. finish.proof = Scope /\ (finish.claim = "scope-covered" => epoch = 0 /\ ~Gaps(Scope))
  BY <1>1 DEF Proven, Inv, Decided, Admissible
<1>3. facts["intervention"] \in Nat /\ facts["intervention"] <= epoch
  BY DEF Counted, Inv, BoundaryInv, BoundaryTypeOK, FactTypes
<1>4. epoch = 0 => ~(facts["intervention"] > 0)
  BY <1>3
<1>5. ASSUME faults = 0, ~overlapped PROVE Verified'
  <2>1. Projection = Scope
    BY <1>1, <1>5, NothingToWrite
  <2>2. /\ accepted'.claim = finish.claim /\ accepted'.proof = finish.proof
        /\ accepted'.before = Projection
        /\ accepted'.intervened <=> facts["intervention"] > 0
    BY <1>1
  <2>3. ProofMatchesLog'
    BY <1>2, <2>1, <2>2 DEF ProofMatchesLog
  <2>4. CoverageStands'
    BY <1>2, <1>4, <2>1, <2>2 DEF CoverageStands, Gaps, Unfinished, Unsampled
  <2>5. accepted' # None
    BY <1>1 DEF None
  <2> QED
    BY <2>3, <2>4, <2>5 DEF Verified
<1> QED
  BY <1>1, <1>5 DEF HonestFinishVerifies, ledgerVars

(* The record of the call under way, as the steps of the finish set it.    *)
FinishTypes == [claim : Claims \cup {"none"}, epoch : Nat, proof : [Items -> ItemStates]]

LEMMA FinishSets ==
  ASSUME NEW f \in FinishTypes, NEW e \in Nat, NEW s \in [Items -> ItemStates]
  PROVE  /\ [f EXCEPT !.epoch = e] \in FinishTypes
         /\ [f EXCEPT !.proof = s] \in FinishTypes /\ [f EXCEPT !.proof = s].proof = s
         /\ \A c \in Claims : [f EXCEPT !.claim = c, !.proof = s] \in FinishTypes
<1>1. /\ [f EXCEPT !.epoch = e] \in FinishTypes
      /\ [f EXCEPT !.proof = s] \in FinishTypes /\ [f EXCEPT !.proof = s].proof = s
  BY DEF FinishTypes
<1>2. ASSUME NEW c \in Claims PROVE [f EXCEPT !.claim = c, !.proof = s] \in FinishTypes
  BY DEF FinishTypes
<1> QED
  BY <1>1, <1>2, Zenon

LEMMA FinishHonest ==
  ASSUME HonestInv, Begin \/ FinishStep \/ Abort
  PROVE  HonestInv'
<1> USE DEF HonestInv, LedgerInv
<1>1. Inv'
  BY FinishSteps, AbortStep
<1>2. UNCHANGED <<ledgerVars, chainVars>>
  <2>1. CASE Begin
    BY <2>1, Zenon DEF Begin, Outside, boundaryVars, chainVars
  <2>2. CASE Abort
    BY <2>2, Zenon DEF Abort
  <2>3. CASE Flush \/ GatherFacts \/ Settle
    BY <2>3, Zenon DEF Flush, GatherFacts, Settle, Outside, boundaryVars, chainVars
  <2>4. CASE WriteSeal \/ DecideAgain \/ Accept
    BY <2>4, Zenon DEF WriteSeal, DecideAgain, Accept, Outside, boundaryVars, chainVars
  <2>5. CASE \E reason \in Claims : Reject(reason) \/ Seal(reason)
    BY <2>5, Zenon DEF Reject, Seal, Outside, boundaryVars, chainVars
  <2> QED
    BY <2>1, <2>2, <2>3, <2>4, <2>5, Zenon DEF FinishStep
<1>3. LedgerMoves /\ UNCHANGED <<recorded, writer, stage, tail, facts, epoch>>
  BY <1>2 DEF LedgerMoves, ledgerVars, chainVars
<1>4. TypedLedger' /\ InOrder' /\ (faults' = 0 /\ ~overlapped' => faults = 0 /\ ~overlapped)
  BY <1>3, LedgerKeeps
<1>5. ~Writing("tool") /\ pc # "tool"
  <2>1. pc # "tool"
    <3>1. CASE Begin \/ Flush \/ GatherFacts \/ Settle \/ WriteSeal \/ DecideAgain \/ Accept
      <4>1. pc \in {"idle", "flush", "facts", "facts-again", "settle", "flush-again",
                    "decide-again", "accept"}
        BY <3>1, Zenon DEF Begin, Flush, GatherFacts, Settle, WriteSeal, DecideAgain, Accept
      <4> QED
        BY <4>1
    <3>2. CASE Abort
      BY <3>2 DEF Abort
    <3>3. CASE \E reason \in Claims : Reject(reason) \/ Seal(reason)
      <4>1. pc = "decide"
        BY <3>3, Zenon DEF Reject, Seal
      <4> QED
        BY <4>1
    <3> QED
      BY <3>1, <3>2, <3>3, Zenon DEF FinishStep
  <2> QED
    BY <2>1 DEF Busy
<1>6. Busy' /\ Lined' /\ Counted'
  BY <1>3, <1>5 DEF Busy, Writing, Lined, Named, Counted
<1>7. Scope \in [Items -> ItemStates] /\ Scope' = Scope
  BY <1>3, ScopeIsTyped, SameLedgerSameScope
<1>8. epoch \in Nat /\ finish \in FinishTypes
  BY DEF Inv, BoundaryInv, BoundaryTypeOK, FinishTypeOK, FinishTypes
<1>9. NoFinish \in FinishTypes
  BY DEF NoFinish, Nothing, Absent, ItemStates, FinishTypes
<1>10. ASSUME finish' \in FinishTypes, aborted' \in BOOLEAN,
              pc' \in {"idle", "flush", "facts", "decide", "settle", "flush-again", "facts-again",
                       "decide-again", "accept", "done", "stopped"},
              pc' = "accept" => finish'.proof = Scope
       PROVE  FinishTypeOK' /\ Proven'
  BY <1>7, <1>10 DEF FinishTypeOK, FinishTypes, Proven
<1>11. FinishTypeOK' /\ Proven'
  <2>0. aborted \in BOOLEAN
    BY DEF FinishTypeOK
  <2>1. CASE Begin \/ Flush \/ Settle \/ WriteSeal
    <3>1. /\ UNCHANGED aborted /\ finish' \in {finish, NoFinish}
          /\ pc' \in {"flush", "idle", "stopped", "facts", "flush-again", "facts-again"}
      BY <2>1 DEF Begin, Flush, Settle, WriteSeal, Goes, Throws, Continues
    <3> QED
      BY <1>8, <1>9, <1>10, <2>0, <3>1
  <2>2. CASE GatherFacts
    <3>1. UNCHANGED aborted /\ finish' = [finish EXCEPT !.epoch = epoch]
      BY <2>2, Zenon DEF GatherFacts
    <3>2. pc' \in {"decide", "decide-again"}
      BY <2>2 DEF GatherFacts, Goes
    <3>3. finish' \in FinishTypes
      BY <1>7, <1>8, <3>1, FinishSets, Zenon
    <3> QED
      BY <1>10, <2>0, <3>1, <3>2, <3>3
  <2>3. CASE DecideAgain
    <3>1. /\ UNCHANGED aborted
          /\ \/ pc' = "accept" /\ finish' = [finish EXCEPT !.proof = Scope]
             \/ Throws
      BY <2>3, Zenon DEF DecideAgain, Goes
    <3>2. CASE pc' = "accept" /\ finish' = [finish EXCEPT !.proof = Scope]
      <4>1. finish' \in FinishTypes /\ finish'.proof = Scope
        BY <1>7, <1>8, <3>2, FinishSets, Zenon
      <4> QED
        BY <1>10, <2>0, <3>1, <3>2, <4>1
    <3>3. CASE Throws
      BY <1>9, <1>10, <2>0, <3>1, <3>3 DEF Throws
    <3> QED
      BY <3>1, <3>2, <3>3
  <2>4. CASE Accept
    <3>1. UNCHANGED aborted /\ pc' = "done" /\ finish' = NoFinish
      BY <2>4 DEF Accept, Goes
    <3> QED
      BY <1>9, <1>10, <2>0, <3>1
  <2>5. ASSUME NEW reason \in Claims, Reject(reason) \/ Seal(reason)
        PROVE  FinishTypeOK' /\ Proven'
    <3>1. /\ UNCHANGED aborted
          /\ finish' \in {NoFinish, [finish EXCEPT !.claim = reason, !.proof = Scope]}
      BY <2>5, Zenon DEF Reject, Seal
    <3>2. pc' \in {"idle", "settle"}
      BY <2>5 DEF Reject, Seal, Goes
    <3>3. [finish EXCEPT !.claim = reason, !.proof = Scope] \in FinishTypes
      BY <1>7, <1>8, FinishSets, Zenon
    <3>4. finish' \in FinishTypes
      BY <1>9, <3>1, <3>3, Zenon
    <3> QED
      BY <1>10, <2>0, <3>1, <3>2, <3>4
  <2>6. CASE Abort
    <3>1. aborted' = TRUE /\ UNCHANGED <<pc, finish>>
      BY <2>6 DEF Abort
    <3> QED
      BY <1>7, <3>1 DEF FinishTypeOK, Proven
  <2> QED
    BY <2>1, <2>2, <2>3, <2>4, <2>5, <2>6, Zenon DEF FinishStep
<1>12. HonestFinishVerifies'
  <2>1. CASE Accept
    BY <2>1, AcceptHonest
  <2>2. CASE UNCHANGED accepted
    BY <1>4, <2>2, VerdictStays
  <2>3. CASE Begin \/ Flush \/ GatherFacts \/ Settle \/ WriteSeal \/ DecideAgain \/ Abort
    BY <2>2, <2>3, Zenon DEF Begin, Flush, GatherFacts, Settle, WriteSeal, DecideAgain, Abort
  <2>4. CASE \E reason \in Claims : Reject(reason) \/ Seal(reason)
    BY <2>2, <2>4, Zenon DEF Reject, Seal
  <2> QED
    BY <2>1, <2>3, <2>4, Zenon DEF FinishStep
<1> QED
  BY <1>1, <1>4, <1>6, <1>11, <1>12

(* The first observation: the ledger is what the log holds. *)
LEMMA LedgerStarts ==
  ASSUME InitLedger
  PROVE  TypedLedger /\ InOrder /\ \A w \in Writers : ~Writing(w)
<1> DEFINE offers == {Create(i, FALSE) : i \in Checks}
           f == [i \in Checks |-> Create(i, FALSE)]
<1>1. \A i \in Checks : Create(i, FALSE) \in Events
  BY DEF Create, Events, Items
<1>a. offers \subseteq Events
  BY <1>1, Zenon
<1>2. IsFiniteSet(offers)
  <2>0. /\ f \in [Checks -> offers]
        /\ \A e \in offers : \E i \in Checks : f[i] = e
    BY Zenon
  <2>1. f \in Surjection(Checks, offers)
    BY <2>0, Zenon DEF Surjection
  <2> HIDE DEF f, offers
  <2> QED
    BY <2>1, FS_Surjection, LedgerConstants
<1> HIDE DEF offers
<1> DEFINE n == Cardinality(offers)
<1>3. n \in Nat /\ ExistsBijection(1..n, offers)
  BY <1>2, FS_CardinalityType
<1> HIDE DEF n
<1>4. \E g \in [1..n -> offers] : IsInjective(g)
  BY <1>3, Zenon DEF ExistsBijection, Bijection, Injection
<1>5. SetToSeq(offers) \in [1..n -> offers]
  BY <1>4, Zenon DEF SetToSeq, n
<1>6. recorded \in Seq(Events)
  <2>1. recorded \in [1..n -> Events]
    BY <1>a, <1>5 DEF InitLedger, offers
  <2> QED
    BY <1>3, <2>1
<1>7. /\ persisted = Len(recorded) /\ Len(recorded) \in Nat
      /\ written = [k \in 1..Len(recorded) |-> k] /\ \A w \in Writers : writer[w] = << >>
      /\ writer = [w \in Writers |-> << >>] /\ faults = 0 /\ overlapped = FALSE
  BY <1>6 DEF InitLedger
<1>8. written \in Seq(1..Len(recorded)) /\ << >> \in Seq(1..Len(recorded))
  BY <1>7
<1>9. 0 \in 0..MaxFaults
  BY LedgerConstants
<1>10. TypedLedger
  BY <1>6, <1>7, <1>8, <1>9 DEF TypedLedger
<1>11. InOrder /\ \A w \in Writers : ~Writing(w)
  BY <1>7 DEF InOrder, Writing, Writers
<1> QED
  BY <1>10, <1>11

-----------------------------------------------------------------------------
-----------------------------------------------------------------------------
LEMMA Invariance == Spec => []Inv
<1>1. Init => Inv
  <2> SUFFICES ASSUME Init PROVE Inv
    OBVIOUS
  <2>1. BoundaryInv
    BY InitBoundaryInv DEF Init
  <2>2. Closed /\ Decided /\ Shaped
    BY DEF Init, Closed, Decided, Shaped, Late, NoFinish
  <2> QED
    BY <2>1, <2>2 DEF Inv
<1>2. ASSUME Inv, [Next]_vars PROVE Inv'
  <2>1. CASE UNCHANGED vars
    <3>1. /\ UNCHANGED <<ledgerVars, boundaryVars>>
          /\ UNCHANGED <<recorded, at, sealed, tail, latched, epoch, facts>>
          /\ UNCHANGED <<pc, finish, closing, accepted>>
      BY <2>1 DEF vars, ledgerVars, boundaryVars, finishVars
    <3>2. UNCHANGED Gaps(Scope) /\ UNCHANGED Partial(Scope)
      BY <3>1, SameLedgerSameScope
    <3>3. Admissible(finish.claim) <=> Admissible(finish.claim)'
      BY <3>1, <3>2 DEF Admissible
    <3>4. BoundaryInv'
      BY <1>2, <3>1, QuietInv DEF Inv
    <3>5. Closed'
      BY <1>2, <3>1 DEF Inv, Closed, Late, Resting, NetworkFacts, Pending
    <3>6. Decided' /\ Shaped'
      BY <1>2, <3>1, <3>2, <3>3 DEF Inv, Decided, Shaped
    <3> QED
      BY <3>4, <3>5, <3>6 DEF Inv
  <2>2. CASE Next
    BY <1>2, <2>2, ToolsStep, AbortStep, FinishSteps, BoundaryStep DEF Next
  <2> QED
    BY <1>2, <2>1, <2>2
<1> QED
  BY <1>1, <1>2, PTL DEF Spec

(* The session, its counter, the chain of records and its latches keep     *)
(* their types, whatever the page, the resolver and the log do             *)
(* (session.ts, boundary.ts). *)
THEOREM BoundaryTypes == Spec => []BoundaryTypeOK
<1>1. Inv => BoundaryTypeOK
  BY DEF Inv, BoundaryInv
<1> QED
  BY <1>1, Invariance, PTL

(* "One parent + its children spend the original request/byte ceiling"     *)
(* (shared-budget.ts): the requests that reached the network and those     *)
(* still being resolved never outnumber the reservations. *)
THEOREM OneCeiling == Spec => []SharedCapHolds
<1>1. Inv => SharedCapHolds
  <2> SUFFICES ASSUME Inv PROVE SharedCapHolds
    OBVIOUS
  <2>1. IsFiniteSet(Charged) /\ Cardinality(Charged) <= spent /\ spent \in 0..MaxRequests
    BY DEF Inv, BoundaryInv, CapKept, BoundaryTypeOK
  <2>2. connected \subseteq Charged
    BY DEF Charged
  <2>3. IsFiniteSet(connected) /\ Cardinality(connected) <= Cardinality(Charged)
    BY <2>1, <2>2, FS_Subset
  <2>4. Cardinality(connected) \in Nat /\ Cardinality(Charged) \in Nat
    BY <2>1, <2>3, FS_CardinalityType
  <2> QED
    BY <2>1, <2>3, <2>4, BoundaryConstants DEF SharedCapHolds
<1> QED
  BY <1>1, Invariance, PTL

(* After network:sealed no fact is added to the log of an accepted finish, *)
(* and the event counts the shutdowns the log holds (boundary.ts). *)
THEOREM TheSealIsFinal == Spec => []SealedLogFinal
<1>1. Inv => SealedLogFinal
  BY DEF Inv, Closed, Decided, Late, Resting, SealedLogFinal
<1> QED
  BY <1>1, Invariance, PTL

(* A run that ends as fully covered was not intervened in, lost no network *)
(* record and has no gap in its scope (executor.ts finishUiScan). *)
THEOREM CoverageIsHonest == Spec => []CoveredIsUnintervened
<1>1. Inv => CoveredIsUnintervened
  BY DEF Inv, Closed, Decided, Late, Resting, CoveredIsUnintervened
<1> QED
  BY <1>1, Invariance, PTL

-----------------------------------------------------------------------------
LEMMA HonestInvariance == Spec => []HonestInv
<1>1. Init => HonestInv
  <2> SUFFICES ASSUME Init PROVE HonestInv
    OBVIOUS
  <2>1. BoundaryInv /\ TypedLedger /\ InOrder /\ \A w \in Writers : ~Writing(w)
    BY InitBoundaryInv, LedgerStarts DEF Init
  <2>2. Inv
    BY <2>1 DEF Init, Inv, Closed, Decided, Shaped, Late, NoFinish
  <2>3. Busy
    BY <2>1 DEF Busy, Writers
  <2>4. Lined /\ Counted
    BY DEF Init, InitBoundary, Lined, Named, Counted, FactTypes
  <2>5. Proven /\ HonestFinishVerifies
    BY DEF Init, Proven, HonestFinishVerifies
  <2>6. FinishTypeOK
    BY DEF Init, FinishTypeOK, NoFinish, Nothing, Absent, ItemStates
  <2> QED
    BY <2>1, <2>2, <2>3, <2>4, <2>5, <2>6 DEF HonestInv, LedgerInv
<1>2. ASSUME HonestInv, [Next]_vars PROVE HonestInv'
  <2>1. CASE UNCHANGED vars
    <3>1. /\ UNCHANGED <<recorded, persisted, writer, written, faults, overlapped>>
          /\ UNCHANGED <<at, spent, sealed, stopped, tail, stage, latched, epoch, facts,
                         abandoned, connected>>
          /\ UNCHANGED <<pc, finish, aborted, closing, accepted>>
      BY <2>1 DEF vars, ledgerVars, boundaryVars, finishVars
    <3>2. UNCHANGED Scope /\ UNCHANGED Gaps(Scope) /\ UNCHANGED Partial(Scope)
      BY <3>1, SameLedgerSameScope
    <3>3. BoundaryInv'
      BY <1>2, <3>1, QuietInv DEF HonestInv, Inv, boundaryVars
    <3>4. Admissible(finish.claim) <=> Admissible(finish.claim)'
      BY <3>1, <3>2 DEF Admissible
    <3>5. Closed' /\ Decided' /\ Shaped'
      BY <1>2, <3>1, <3>2, <3>4 DEF HonestInv, Inv, Closed, Decided, Shaped, Late, Resting,
                                    NetworkFacts, Pending
    <3>6. TypedLedger' /\ InOrder' /\ Busy' /\ Lined'
      BY <1>2, <3>1 DEF HonestInv, LedgerInv, TypedLedger, InOrder, Busy, Lined, Named, Writing
    <3>7. Counted' /\ Proven' /\ FinishTypeOK'
      BY <1>2, <3>1, <3>2 DEF HonestInv, Counted, Proven, FinishTypeOK
    <3>8. HonestFinishVerifies'
      BY <1>2, <3>1, VerdictStays DEF HonestInv
    <3> QED
      BY <3>3, <3>5, <3>6, <3>7, <3>8 DEF HonestInv, LedgerInv, Inv
  <2>2. CASE Next
    BY <1>2, <2>2, ToolHonest, FinishHonest, BoundaryHonest DEF Next
  <2> QED
    BY <1>2, <2>1, <2>2
<1> QED
  BY <1>1, <1>2, PTL DEF Spec

(* Every variable of the scan keeps its type: the log only ever names      *)
(* events the ledger has, the counter of the shared budget stays within    *)
(* the cap, and whatever events the ledger holds the proof of a finish is  *)
(* a scope (scope.ts, inspection-host.ts, executor.ts). *)
THEOREM ScanTypes == Spec => []TypeOK
<1>1. HonestInv => TypeOK
  <2> SUFFICES ASSUME HonestInv PROVE TypeOK
    OBVIOUS
  <2>1. TypedLedger /\ BoundaryTypeOK /\ FinishTypeOK
    BY DEF HonestInv, LedgerInv, Inv, BoundaryInv
  <2>2. \A w \in Writers : writer[w] \in Seq(Nat)
    <3> SUFFICES ASSUME NEW w \in Writers PROVE writer[w] \in Seq(Nat)
      OBVIOUS
    <3>1. writer[w] \in Seq(1..Len(recorded)) /\ Len(recorded) \in Nat
      BY <2>1 DEF TypedLedger
    <3>2. 1..Len(recorded) \subseteq Nat
      BY <3>1
    <3>3. \A n \in 1..Len(writer[w]) : writer[w][n] \in Nat
      BY <3>1, <3>2
    <3> QED
      BY <3>1, <3>3
  <2>3. LedgerTypeOK
    BY <2>1, <2>2 DEF TypedLedger, LedgerTypeOK
  <2> QED
    BY <2>1, <2>3 DEF TypeOK
<1> QED
  BY <1>1, HonestInvariance, PTL

(* persist in inspection-host.ts and inspectHistory in executor.ts agree:  *)
(* unless a write of the log failed, or its two callers met, the log       *)
(* before an accepted finish rebuilds the very scope its proof carries. *)
THEOREM HonestFinishStands == Spec => []HonestFinishVerifies
<1>1. HonestInv => HonestFinishVerifies
  BY DEF HonestInv
<1> QED
  BY <1>1, HonestInvariance, PTL
=============================================================================
