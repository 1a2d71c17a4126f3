------------------------------ MODULE RunOutcome ------------------------------
(***************************************************************************)
(* What a client of the API may rely on about the outcome a run claims (a  *)
(* goal reached, a blocked task, a loop that ended without a finish): it   *)
(* is claimed once, by a run whose cancellation was not accepted; it is    *)
(* kept, or withdrawn before the run leaves the queue; and a claim that is *)
(* kept reads the same for ever.  The queue, the tools, the timers and the *)
(* single statements of the commit are not visible here.                   *)
(***************************************************************************)

CONSTANTS
  Runs,            (* run identifiers                                      *)
  Claims           (* what a run may claim                                 *)

VARIABLES
  phase,           (* a run may still claim, claims, keeps its claim, or   *)
                   (* will never claim (again)                             *)
  claim,           (* what it claims, or "none"                            *)
  accepted         (* runs whose cancellation was answered "accepted"      *)

outcomeVars == <<phase, claim, accepted>>

Init ==
  /\ phase = [r \in Runs |-> "open"]
  /\ claim = [r \in Runs |-> "none"]
  /\ accepted = {}

Moves(r, to) == phase' = [phase EXCEPT ![r] = to]

Claim(r) ==
  /\ phase[r] = "open" /\ r \notin accepted
  /\ Moves(r, "claimed")
  /\ \E c \in Claims : claim' = [claim EXCEPT ![r] = c]
  /\ UNCHANGED accepted

Keep(r) == phase[r] = "claimed" /\ Moves(r, "kept") /\ UNCHANGED <<claim, accepted>>

(* Without a claim, or with a claim that could not be verified.            *)
Settle(r) ==
  /\ phase[r] \in {"open", "claimed"}
  /\ Moves(r, "settled")
  /\ claim' = [claim EXCEPT ![r] = "none"]
  /\ UNCHANGED accepted

Accept(r) ==
  /\ phase[r] \in {"open", "settled"}
  /\ accepted' = accepted \cup {r}
  /\ UNCHANGED <<phase, claim>>

(* A crash keeps what is claimed, and ends what had begun. *)
Crash ==
  /\ \E begun \in SUBSET Runs :
       phase' = [r \in Runs |->
                   IF phase[r] = "claimed" THEN "kept"
                   ELSE IF phase[r] = "open" /\ r \in begun THEN "settled"
                   ELSE phase[r]]
  /\ UNCHANGED <<claim, accepted>>

Next ==
  \/ \E r \in Runs : Claim(r) \/ Keep(r) \/ Settle(r) \/ Accept(r)
  \/ Crash

Spec == Init /\ [][Next]_outcomeVars
=============================================================================
