-------------------------- MODULE MCRenderRecovery ---------------------------
(* An instance for TLC: one urgent job, and two that come as a batch.      *)
EXTENDS RenderRecovery

CONSTANTS a, b, c

MCPriority == [j \in Job |-> IF j = a THEN 1 ELSE 0]
MCSubmission == {<<a>>, <<b, c>>}
=============================================================================
