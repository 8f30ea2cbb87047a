---------------------------- MODULE MCOutboxRelay ----------------------------
EXTENDS OutboxRelay, TLC

CONSTANTS d1

\* Three versions of one record, the last two written in one millisecond: they are
\* listed in any order.
OneRecord == <<d1, d1, d1>>
Tied == <<1, 2, 2>>
OnePartition == [d \in {d1} |-> 0]

Batches == [batched |-> TRUE, rejected |-> {}, lossy |-> FALSE]
LossyBatches == [batched |-> TRUE, rejected |-> {}, lossy |-> TRUE]
OneByOne == [batched |-> FALSE, rejected |-> {}, lossy |-> FALSE]
RejectedInBatch == [batched |-> TRUE, rejected |-> {2}, lossy |-> FALSE]
RejectedOneByOne == [batched |-> FALSE, rejected |-> {2}, lossy |-> TRUE]

\* What the two runs choose from.
MCSettings == {Batches, LossyBatches, OneByOne, RejectedOneByOne}
Rejecting == {RejectedInBatch}
=============================================================================
