----------------------------- MODULE MCRunStream -----------------------------
(* One run with its stream, one cancel request, and one fault or crash.     *)
EXTENDS RunStream

CONSTANTS r1, c1

OneRun == {r1}
OneCancel == {c1}
OnlyRun == [c \in Cancels |-> r1]
OneTool == [r \in Runs |-> 1]
=============================================================================
