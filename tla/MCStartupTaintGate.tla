------------------------ MODULE MCStartupTaintGate --------------------------
(* Finite instances of StartupTaintGate for TLC.                           *)
EXTENDS StartupTaintGate

\* Two startup taints and one permanent taint, all with gates; and an edit that
\* takes two of the gates away and leaves the third without a condition.
AgentTaint == [key |-> "agent", effect |-> "NoSchedule"]
GPUTaint   == [key |-> "gpu", effect |-> "NoSchedule"]
TeamTaint  == [key |-> "team", effect |-> "NoSchedule"]

AgentAndGPU  == {AgentTaint, GPUTaint}
TeamOnly     == {TeamTaint}

GatesOf(agent, gpu, team) ==
  [k \in TaintKeys |-> CASE k = "agent" -> agent
                         [] k = "gpu"   -> gpu
                         [] k = "team"  -> team]
TwoGates  == GatesOf("podsReady", "nodeCondition", "nodeCondition")
BadGate   == GatesOf("none", "unset", "none")
Edited    == {TwoGates, BadGate}

=============================================================================
