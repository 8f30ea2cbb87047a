---------------------------- MODULE MCWebClient ----------------------------
EXTENDS WebClient, TLC

CONSTANTS auditor, requester, t1, t2, c1, c2, c3

\* An auditor of one tenant and a requester of another.
Two == (auditor :> t1 @@ requester :> t2)

Symmetry == Permutations(Calls)
=============================================================================
