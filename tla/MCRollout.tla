----------------------------- MODULE MCRollout -----------------------------
(* An instance of Rollout for TLC: a workload of each kind, the first two  *)
(* from one chart.  InstallCilium waits for a second Deployment and        *)
(* DeployAndConfigure for a second pod, in the same way.                   *)
EXTENDS Rollout

CONSTANTS agent, relay, server

Order  == <<agent, relay, server>>
Charts == [w \in {agent, relay, server} |-> IF w = server THEN "openbao" ELSE "cilium"]

=============================================================================
