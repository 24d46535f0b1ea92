-------------------------- MODULE ReviewRefinement --------------------------
(***************************************************************************)
(* The graph implements the contract: every step of the graph is a step of *)
(* ReviewContract or leaves what the contract speaks of alone.             *)
(***************************************************************************)
EXTENDS ReviewGraphProps

\* The nodes between the synthesis and the report, where the findings in scope
\* are those the verdict was formed over.
AfterSynthesis ==
  {"remediation_loop", "apply_fix", "hitl_approval", "apply_decision",
   "finalize", "persist_report"}

\* The worst of a scan.
RiskOf(F) ==
  IF \E f \in F : IsCritical(f) THEN "critical"
  ELSE IF \A f \in F : ~is_blocking(f) THEN "clean"
  ELSE IF Floor(F) THEN "disputed" ELSE "high"

phaseOf ==
  IF Reported THEN "reported"
  ELSE IF failed THEN "aborted"
  ELSE IF paused THEN "waiting" ELSE "working"

riskOf ==
  IF status = "blocked" THEN "refused"
  ELSE IF Reported \/ frontier \cap AfterSynthesis # {}
       THEN RiskOf(current_findings(findings, iteration))
       ELSE "unknown"

Contract ==
  INSTANCE ReviewContract
    WITH MaxPasses <- MaxIter, Choices <- HumanChoice, Approving <- Approvals,
         phase <- phaseOf, risk <- riskOf, passes <- iteration,
         answer <- hitl_decision, published <- report.decision

\* Every run of the graph keeps the contract: what was assessed last and what
\* the human answered determine what may be published, and patching, asking and
\* deciding happen in the contract's order.
KeepsContract == Contract!Spec

=============================================================================
