--------------------------- MODULE MCControlPlane ---------------------------
(***************************************************************************)
(* One proposal with a request of each kind; an ordinary and a trusted     *)
(* client; a controller that wants the lease, and may want it again.       *)
(***************************************************************************)
EXTENDS ControlPlane

CONSTANTS p1, validator, reviewer, publisher, user, arena, controller

TheProposal == {p1}
TheValidator == {validator}
TheReviewer == {reviewer}
ThePublisher == {publisher}
TheClients == {user, arena}
TheArena == {arena}
TheController == {controller}
=============================================================================
