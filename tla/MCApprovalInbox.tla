--------------------------- MODULE MCApprovalInbox ---------------------------
EXTENDS ApprovalInbox, TLC

CONSTANTS d1, d2, t1, t2

OneTenantEach == (d1 :> t1 @@ d2 :> t2)
=============================================================================
