----------------------------- MODULE MCLoadTest -----------------------------
EXTENDS LoadTest, TLC

CONSTANTS r1, o1

NoOrder == {}

OnePartitionEach == (r1 :> 0 @@ o1 :> 1)
=============================================================================
