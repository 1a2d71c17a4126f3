------------------------------ MODULE MCUiFinish ------------------------------
(***************************************************************************)
(* One check to select and measure, one gap; a document, a popup and a     *)
(* request of a delegated check, of which the page starts two; one request *)
(* may reach the network.                                                  *)
(***************************************************************************)
EXTENDS UiFinish

CONSTANTS check, gap, document, popup, childRead

TheChecks == {check}
TheGap == {gap}
TheDocument == {document}
NoReads == {}
ThePopup == {popup}
TheChild == {childRead}
TheExtras == {gap, document, popup}
=============================================================================
