--------------------------- MODULE MCExploration ---------------------------
(***************************************************************************)
(* A page with one control, or with more controls than one sample takes.   *)
(***************************************************************************)
EXTENDS Exploration

MCPages == {{"a"}, {"a", "b"}, {"a", "b", "c"}}
MCLooks == {"plain", "open"}
=============================================================================
