----------------------------- MODULE MCAnalysis -----------------------------
(***************************************************************************)
(* What an impact analysis is made of: the lookups at OSV, the advisory    *)
(* they give, the scan of the fleet, and the programs that are run; and    *)
(* the clock of a finding it leads to.  Each has its answer before the     *)
(* next begins, so a behaviour is one of any.                              *)
(***************************************************************************)
EXTENDS ImpactScan, AdvisoryRange, OsvClient, PipelineExec, FindingClock

\* Two versions next to each other have one key, as a pre-release and its release have.
MCKey == [v \in 0..MaxVersion |-> (v + 1) \div 2]

VARIABLE system

vars == <<impactVars, advisoryVars, clientVars, pipelineVars, clockVars, system>>

Init ==
  /\ system \in {"impact", "advisory", "client", "pipeline", "clock"}
  /\ ImpactInit /\ AdvisoryInit /\ ClientInit /\ PipelineInit /\ ClockInit

Parent ==
  /\ system = "pipeline" /\ ParentStep
  /\ UNCHANGED <<impactVars, advisoryVars, clientVars, clockVars, system>>

Next ==
  \/ /\ system = "impact" /\ ImpactNext
     /\ UNCHANGED <<advisoryVars, clientVars, pipelineVars, clockVars, system>>
  \/ /\ system = "advisory" /\ AdvisoryNext
     /\ UNCHANGED <<impactVars, clientVars, pipelineVars, clockVars, system>>
  \/ /\ system = "client" /\ ClientNext
     /\ UNCHANGED <<impactVars, advisoryVars, pipelineVars, clockVars, system>>
  \/ /\ system = "pipeline" /\ SegmentStep
     /\ UNCHANGED <<impactVars, advisoryVars, clientVars, clockVars, system>>
  \/ /\ system = "clock" /\ ClockNext
     /\ UNCHANGED <<impactVars, advisoryVars, clientVars, pipelineVars, system>>
  \/ Parent

Spec == Init /\ [][Next]_vars /\ WF_vars(Parent)

\* The type invariants of the five.
AnalysisTypeOK == ImpactTypeOK /\ AdvisoryTypeOK /\ ClientTypeOK /\ PipelineTypeOK /\ ClockTypeOK

=============================================================================
