----------------------- MODULE ReviewRefinementProofs -----------------------
(***************************************************************************)
(* The graph implements ReviewContract, for every value of the constants:  *)
(* proved from the invariants of ReviewGraphProofs and ReviewOutcomeProofs,*)
(* one case per action of the graph.                                       *)
(***************************************************************************)
EXTENDS ReviewOutcomeProofs, ReviewRefinement

\* What the contract sees of a step that changes nothing it speaks of.
LEMMA Stutter ==
  ASSUME UNCHANGED <<phaseOf, riskOf, iteration, hitl_decision, report>>
  PROVE  [Contract!Next]_(Contract!vars)
BY DEF Contract!vars

\* The phase follows the report, the exception and the pause alone.
LEMMA PhaseKept ==
  ASSUME UNCHANGED <<report, failed, paused>>
  PROVE  UNCHANGED phaseOf
BY DEF phaseOf, Reported

\* A task that runs belongs to a review that is being worked on.
LEMMA Working ==
  ASSUME VerdictInv, NEW n, Scheduled(n)
  PROVE  phaseOf = "working" /\ report = NoReport
BY DEF VerdictInv, Scheduled, phaseOf, Reported

\* Before a synthesis nothing is known of the code.
LEMMA Unassessed ==
  ASSUME report = NoReport, status # "blocked", frontier \cap AfterSynthesis = {}
  PROVE  riskOf = "unknown"
BY DEF riskOf, Reported

\* After it, the findings in scope say how bad the code is.
LEMMA Assessed ==
  ASSUME status # "blocked", frontier \cap AfterSynthesis # {} \/ Reported
  PROVE  riskOf = RiskOf(current_findings(findings, iteration))
BY DEF riskOf

\* The decision that reaches persist_report is one the contract allows.
LEMMA ReportAllowed ==
  ASSUME TypeOK, VerdictInv, RefusalInv, OutcomeInv, frontier = {"persist_report"}
  PROVE  verdict \in Contract!Allowed
<1> DEFINE F == current_findings(findings, iteration)
<1>1. CASE hitl_decision # NoDecision
  <2>1. verdict = IF hitl_decision \in Approvals THEN "APPROVE" ELSE "BLOCK_MERGE"
    BY <1>1 DEF VerdictInv
  <2>2. QED
    BY <1>1, <2>1 DEF Contract!Allowed, NoDecision
<1>2. CASE hitl_decision = NoDecision /\ status = "blocked"
  <2>1. verdict = "BLOCK_MERGE" /\ riskOf = "refused"
    BY <1>2 DEF RefusalInv, riskOf
  <2>2. QED
    BY <1>2, <2>1 DEF Contract!Allowed, NoDecision
<1>3. CASE hitl_decision = NoDecision /\ status # "blocked"
  <2>1. verdict \in Decision /\ \A f \in F : ~IsCritical(f)
    BY <1>3 DEF OutcomeInv
  <2>2. riskOf = RiskOf(F)
    BY <1>3, Assessed DEF AfterSynthesis
  <2>3. verdict = "APPROVE" => Floor(F)
    BY <1>3 DEF VerdictInv, NoDecision, Approvals
  <2>4. /\ riskOf \in {"clean", "disputed", "high"}
        /\ riskOf = "high" => verdict # "APPROVE"
    BY <2>1, <2>2, <2>3 DEF RiskOf
  <2>5. QED
    BY <1>3, <2>1, <2>4 DEF Contract!Allowed, Contract!Decisions, Decision, NoDecision
<1>4. QED
  BY <1>1, <1>2, <1>3

-----------------------------------------------------------------------------
\* A new review is one the contract starts from.
LEMMA RefinementInit == Init => Contract!Init
BY DEF Init, Contract!Init, phaseOf, riskOf, Reported, NoReport, NoDecision,
       AfterSynthesis

\* Every step of the graph is a step of the contract or leaves what it speaks
\* of alone.
LEMMA RefinementStep ==
  IInv /\ JInv /\ [Next]_vars => [Contract!Next]_(Contract!vars)
<1> SUFFICES ASSUME IInv, JInv, [Next]_vars
             PROVE  [Contract!Next]_(Contract!vars)
  OBVIOUS
<1> USE DEF IInv, JInv
<1>1. CASE ingest_pr
  <2>1. status # "blocked" /\ frontier = {"ingest_pr"}
    BY <1>1, AloneInSuperstep
       DEF ingest_pr, Scheduled, RefusalInv, Node, SpecialistNodes
  <2>2. riskOf = "unknown" /\ riskOf' = "unknown"
    BY <1>1, <2>1, Working DEF ingest_pr, Goto, riskOf, Reported, AfterSynthesis
  <2>3. QED
    BY <1>1, <2>2, PhaseKept, Stutter DEF ingest_pr, Goto
<1>2. CASE guardrail_input
  <2>1. status # "blocked" /\ frontier = {"guardrail_input"}
    BY <1>2, AloneInSuperstep
       DEF guardrail_input, Scheduled, RefusalInv, Node, SpecialistNodes
  <2>2. riskOf = "unknown" /\ phaseOf = "working" /\ report = NoReport
    BY <1>2, <2>1, Working DEF guardrail_input, riskOf, Reported, AfterSynthesis
  <2>3. UNCHANGED phaseOf
    BY <1>2, PhaseKept DEF guardrail_input, Goto
  <2>4. CASE status' = "blocked"
    <3>1. riskOf' = "refused" /\ iteration = 0
      BY <1>2, <2>4 DEF guardrail_input, riskOf, RefusalInv
    <3>2. Contract!Assess
      BY <1>2, <2>2, <2>3, <3>1
         DEF guardrail_input, Contract!Assess, Contract!Risks
    <3>3. QED
      BY <3>2 DEF Contract!Next
  <2>5. CASE status' # "blocked"
    <3>1. riskOf' = "unknown"
      BY <1>2, <2>2, <2>5
         DEF guardrail_input, Goto, route_after_guardrail, riskOf, Reported,
             AfterSynthesis
    <3>2. QED
      BY <1>2, <2>2, <2>3, <3>1, Stutter DEF guardrail_input
  <2>6. QED
    BY <2>4, <2>5
<1>3. CASE blocked
  <2>1. frontier = {"blocked"}
    BY <1>3, AloneInSuperstep DEF blocked, Scheduled, Node, SpecialistNodes
  <2>2. status = "blocked"
    BY <2>1 DEF RefusalInv
  <2>3. UNCHANGED riskOf
    BY <1>3, <2>2 DEF blocked, riskOf
  <2>4. QED
    BY <1>3, <2>3, PhaseKept, Stutter DEF blocked, Goto
<1>4. CASE coordinator \/ coordinator_degraded
  <2>1. PICK D \in SUBSET SPECIALISTS : Planned(D) /\ Scheduled("coordinator")
    BY <1>4 DEF coordinator, coordinator_degraded
  <2>2. frontier' \subseteq SpecialistNodes
    BY <2>1, FanOutType DEF Planned, Goto
  <2>3. frontier = {"coordinator"} /\ status # "blocked" /\ report = NoReport
    BY <2>1, AloneInSuperstep, NotRefused, Working
       DEF Scheduled, Node, SpecialistNodes
  <2>4. riskOf = "unknown" /\ riskOf' = "unknown"
    BY <2>1, <2>2, <2>3
       DEF Planned, riskOf, Reported, AfterSynthesis, SpecialistNodes
  <2>5. QED
    BY <2>1, <2>4, PhaseKept, Stutter DEF Planned, Goto
<1>5. CASE node_raises \/ RecursionLimitReached
  <2>1. phaseOf = "working" /\ report = NoReport
    BY <1>5, RaiseStep, Working DEF Scheduled, RecursionLimitReached, VerdictInv,
                                    phaseOf, Reported
  <2>2. UNCHANGED <<channels, frontier>> /\ failed'
    BY <1>5, RaiseStep DEF RecursionLimitReached, Fail
  <2>3. phaseOf' = "aborted" /\ UNCHANGED riskOf
    BY <2>1, <2>2 DEF channels, phaseOf, riskOf, Reported
  <2>4. Contract!Abort
    BY <2>1, <2>2, <2>3 DEF channels, Contract!Abort
  <2>5. QED
    BY <2>4 DEF Contract!Next
<1>6. CASE Specialist
  <2>1. UNCHANGED <<channels, frontier, paused, failed>>
    BY <1>6, SpecialistStep DEF TaskDone
  <2>2. UNCHANGED riskOf
    BY <2>1 DEF channels, riskOf, Reported
  <2>3. QED
    BY <2>1, <2>2, PhaseKept, Stutter DEF channels
<1>7. CASE fan_in
  <2>1. PICK n \in frontier : n \in SpecialistNodes /\ Scheduled(n)
    BY <1>7 DEF fan_in
  <2>2. status # "blocked" /\ report = NoReport
    BY <2>1, NotRefused, Working DEF SpecialistNodes
  <2>3. riskOf = "unknown" /\ riskOf' = "unknown"
    BY <1>7, <2>2 DEF fan_in, riskOf, Reported, AfterSynthesis, SpecialistNodes
  <2>4. QED
    BY <1>7, <2>3, PhaseKept, Stutter DEF fan_in
<1>8. CASE synthesizer \/ synthesizer_degraded
  <2>1. PICK d \in Decision : Synthesized(d) /\ Scheduled("synthesizer")
    BY <1>8, SynthesisStep
  <2>2. /\ frontier = {"synthesizer"} /\ status # "blocked"
        /\ report = NoReport /\ phaseOf = "working"
    BY <2>1, AloneInSuperstep, NotRefused, Working
       DEF Scheduled, Node, SpecialistNodes
  <2>3. riskOf = "unknown"
    BY <2>2, Unassessed DEF AfterSynthesis
  <2>4. \E n \in AfterSynthesis : frontier' = {n}
    BY <2>1, RouteFacts DEF Synthesized, Goto, AfterSynthesis, TypeOK
  <2>5. riskOf' = RiskOf(current_findings(findings, iteration))'
    BY <2>1, <2>4 DEF Synthesized, riskOf
  <2>6. riskOf' \in {"critical", "clean", "disputed", "high"}
    BY <2>5 DEF RiskOf
  <2>7. UNCHANGED phaseOf
    BY <2>1, PhaseKept DEF Synthesized, Goto
  <2>8. Contract!Assess
    BY <2>1, <2>2, <2>3, <2>6, <2>7
       DEF Synthesized, Contract!Assess, Contract!Risks
  <2>9. QED
    BY <2>8 DEF Contract!Next
<1>9. CASE remediation_loop \/ apply_decision \/ finalize
  <2>1. PICK n \in AfterSynthesis : Scheduled(n) /\ n # "persist_report"
    BY <1>9 DEF remediation_loop, apply_decision, finalize, AfterSynthesis
  <2>2. status # "blocked"
    BY <2>1, NotRefused DEF Scheduled, AfterSynthesis
  <2>3. /\ UNCHANGED <<findings, iteration, hitl_decision, report>>
        /\ status' # "blocked"
        /\ frontier' \cap AfterSynthesis # {}
    BY <1>9 DEF remediation_loop, apply_decision, finalize, Goto, AfterSynthesis
  <2>4. UNCHANGED riskOf
    BY <2>1, <2>2, <2>3 DEF riskOf, Scheduled, Reported
  <2>5. UNCHANGED phaseOf
    BY <1>9, PhaseKept DEF remediation_loop, apply_decision, finalize, Goto
  <2>6. QED
    BY <2>3, <2>4, <2>5, Stutter
<1>10. CASE apply_fix
  <2>1. /\ frontier = {"apply_fix"} /\ status # "blocked"
        /\ report = NoReport /\ phaseOf = "working"
    BY <1>10, AloneInSuperstep, NotRefused, Working
       DEF apply_fix, Scheduled, Node, SpecialistNodes
  <2>2. riskOf = RiskOf(current_findings(findings, iteration))
    BY <2>1, Assessed DEF AfterSynthesis
  <2>3. PICK f \in current_findings(findings, iteration) : is_blocking(f)
    BY <2>1 DEF OutcomeInv, Fixable, blocking_findings
  <2>4. riskOf \in {"disputed", "high"}
    BY <2>1, <2>2, <2>3 DEF PatchInv, RiskOf
  <2>5. iteration < MaxIter
    BY <2>1 DEF BudgetInv
  <2>6. frontier' \subseteq SpecialistNodes
    BY <1>10, FanOutType DEF apply_fix, Goto, TypeOK
  <2>7. riskOf' = "unknown"
    BY <1>10, <2>1, <2>6
       DEF apply_fix, riskOf, Reported, AfterSynthesis, SpecialistNodes
  <2>8. UNCHANGED phaseOf
    BY <1>10, PhaseKept DEF apply_fix, Goto
  <2>9. Contract!Patch
    BY <1>10, <2>1, <2>4, <2>5, <2>7, <2>8 DEF apply_fix, Contract!Patch
  <2>10. QED
    BY <2>9 DEF Contract!Next
<1>11. CASE hitl_approval
  <2>1. /\ frontier = {"hitl_approval"} /\ status # "blocked"
        /\ report = NoReport /\ phaseOf = "working" /\ ~failed
    BY <1>11, AloneInSuperstep, NotRefused, Working
       DEF hitl_approval, Scheduled, Node, SpecialistNodes
  <2>2. \E f \in current_findings(findings, iteration) : IsCritical(f)
    BY <2>1 DEF VerdictInv
  <2>3. riskOf = "critical"
    BY <2>1, <2>2, Assessed DEF AfterSynthesis, RiskOf
  <2>4. hitl_decision = NoDecision
    BY <2>1 DEF VerdictInv
  <2>5. phaseOf' = "waiting" /\ UNCHANGED riskOf
    BY <1>11, <2>1 DEF hitl_approval, channels, phaseOf, riskOf, Reported
  <2>6. Contract!Ask
    BY <1>11, <2>1, <2>3, <2>4, <2>5
       DEF hitl_approval, channels, Contract!Ask, NoDecision
  <2>7. QED
    BY <2>6 DEF Contract!Next
<1>12. CASE Human
  <2>1. PICK choice \in HumanChoice : resume_review(choice)
    BY <1>12 DEF Human
  <2>2. frontier = {"hitl_approval"} /\ ~failed /\ report = NoReport
    BY <2>1 DEF resume_review, FrontierInv, VerdictInv, Reported
  <2>3. status # "blocked"
    BY <2>2, NotRefused
  <2>4. phaseOf = "waiting" /\ phaseOf' = "working"
    BY <2>1, <2>2 DEF resume_review, phaseOf, Reported
  <2>5. UNCHANGED riskOf
    BY <2>1, <2>2, <2>3 DEF resume_review, riskOf, Reported, AfterSynthesis
  <2>6. Contract!Answer(choice)
    BY <2>1, <2>4, <2>5 DEF resume_review, Contract!Answer
  <2>7. QED
    BY <2>6 DEF Contract!Next
<1>13. CASE persist_report
  <2>1. frontier = {"persist_report"} /\ report = NoReport /\ phaseOf = "working"
    BY <1>13, AloneInSuperstep, Working
       DEF persist_report, Scheduled, Node, SpecialistNodes
  <2>2. verdict \in Contract!Allowed
    BY <2>1, ReportAllowed
  <2>3. verdict \in Decision
    BY <2>1 DEF OutcomeInv
  <2>4. report'.decision = verdict /\ report' # NoReport
    BY <1>13, <2>3 DEF persist_report, NoReport, Decision
  <2>5. phaseOf' = "reported"
    BY <2>4 DEF phaseOf, Reported
  <2>6. UNCHANGED riskOf
    BY <1>13, <2>1, <2>4 DEF persist_report, riskOf, Reported, AfterSynthesis
  <2>7. Contract!Publish
    BY <1>13, <2>1, <2>2, <2>4, <2>5, <2>6 DEF persist_report, Contract!Publish
  <2>8. QED
    BY <2>7 DEF Contract!Next
<1>14. CASE UNCHANGED vars
  <2>1. UNCHANGED riskOf
    BY <1>14 DEF vars, channels, runtime, riskOf, Reported
  <2>2. QED
    BY <1>14, <2>1, PhaseKept, Stutter DEF vars, channels, runtime
<1>15. QED
  BY <1>1, <1>2, <1>3, <1>4, <1>5, <1>6, <1>7, <1>8, <1>9, <1>10, <1>11,
     <1>12, <1>13, <1>14 DEF Next, System, Ended

\* The graph implements the contract: every run of it is, seen through the
\* mapping of ReviewRefinement, a run of ReviewContract.
THEOREM Refinement == Spec => KeepsContract
<1>1. Spec => []IInv /\ []JInv
  BY Invariance, SecondInvariance
<1>2. QED
  BY <1>1, RefinementInit, RefinementStep, PTL DEF Spec, KeepsContract, Contract!Spec

=============================================================================
