--------------------------- MODULE MCApprovalChat ---------------------------
(* The instance of ApprovalChat that TLC checks.                            *)
EXTENDS ApprovalChat, TLC

CONSTANTS ada, a1, n1, r1, r2, r3

OneUser == {ada}
RoleOfOne == ada :> "admin"
DraftType == {"CREATE_DRAFT_ORDER"}
=============================================================================
