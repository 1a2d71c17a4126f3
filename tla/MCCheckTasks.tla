---------------------------- MODULE MCCheckTasks ----------------------------
(***************************************************************************)
(* Two inputs that contend with each other and with the parent for the     *)
(* actions and the model calls; reads work like the other kinds.           *)
(***************************************************************************)
EXTENDS CheckTasks

CONSTANTS popup, second

TwoInputs == {popup, second}
Quotas == [in \in Inputs |->
  IF in = popup THEN [actions |-> 1, modelCalls |-> 1, reads |-> 0]
  ELSE [actions |-> 1, modelCalls |-> 0, reads |-> 1]]
Limits == [actions |-> 2, modelCalls |-> 1, reads |-> 1]

(* The drain does not depend on the budget. *)
NoQuotas == [in \in Inputs |-> [k \in Kinds |-> 0]]
NoLimits == [k \in Kinds |-> 0]
=============================================================================
