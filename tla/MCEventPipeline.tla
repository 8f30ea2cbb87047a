-------------------------- MODULE MCEventPipeline --------------------------
EXTENDS EventPipeline, TLC

CONSTANTS d1

OneRecord == <<d1, d1>>
InTurn == <<1, 2>>
OnePartition == [d \in {d1} |-> 0]
OneLog == [e \in Events |-> 0]
Batches == [batched: {TRUE}, rejected: {{}}, lossy: BOOLEAN]

\* Bound: how many faults relays and workers have together where messages may get lost.
MaxLossyFaults == 2
BoundedNext ==
  PipelineNext /\ (setting.lossy => relayFaults' + faults' <= MaxLossyFaults)

BoundedSpec == PipelineInit /\ [][BoundedNext]_pipelineVars /\ Relay!Fairness /\ Fairness
=============================================================================
