------------------------------- MODULE Decision -------------------------------
(***************************************************************************)
(* What the executor's loop may assume of one agent decision, whatever the *)
(* model provider does: tools act one at a time and only while a decision  *)
(* is being made, a decision returns when nothing it started is at work,   *)
(* and after the loop has ended no tool starts to act.  Requests, retries, *)
(* timers and late callbacks are not visible here.                         *)
(***************************************************************************)

CONSTANT Tools     (* tool calls                                            *)

VARIABLES
  phase,           (* the loop is between decisions, in one, or over        *)
  acts,            (* tool calls that acted in this decision                *)
  busy             (* those still at work                                   *)

decisionVars == <<phase, acts, busy>>

Init == phase = "idle" /\ acts = {} /\ busy = {}

Begin == phase = "idle" /\ phase' = "deciding" /\ acts' = {} /\ UNCHANGED busy

Act(t) ==
  /\ phase = "deciding" /\ busy = {} /\ t \notin acts
  /\ acts' = acts \cup {t} /\ busy' = {t}
  /\ UNCHANGED phase

Settle == busy # {} /\ busy' = {} /\ UNCHANGED <<phase, acts>>

Return == phase = "deciding" /\ busy = {} /\ phase' = "idle" /\ UNCHANGED <<acts, busy>>

Stop == phase' = "over" /\ UNCHANGED <<acts, busy>>

Next == Begin \/ (\E t \in Tools : Act(t)) \/ Settle \/ Return \/ Stop

Spec == Init /\ [][Next]_decisionVars
=============================================================================
