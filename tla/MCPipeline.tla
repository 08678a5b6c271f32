------------------------------- MODULE MCPipeline ------------------------------
(* Three steps, the middle one done by an agent, as in the steps.yaml files.  *)
EXTENDS Pipeline

MCPipe == <<[agent |-> FALSE], [agent |-> TRUE], [agent |-> FALSE]>>
=============================================================================
