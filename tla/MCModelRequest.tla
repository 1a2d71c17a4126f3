---------------------------- MODULE MCModelRequest ----------------------------
(***************************************************************************)
(* Three tool calls, of which one decision may run two; one retry; two     *)
(* model calls, one of them in the finalizing phase; one program step.     *)
(***************************************************************************)
EXTENDS ModelRequest, TLC

CONSTANTS t1, t2, t3

ThreeTools == {t1, t2, t3}
=============================================================================
