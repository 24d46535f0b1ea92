------------------------- MODULE ReviewGraphProofs -------------------------
(***************************************************************************)
(* Proofs about one review, for every remediation ceiling, every set of    *)
(* fingerprints and every set of reports the agents may make.              *)
(***************************************************************************)
EXTENDS ReviewGraphProps, TLAPS

(***************************************************************************)
(* The operators the graph is built from.                                  *)
(***************************************************************************)

\* The parallel fan-out schedules specialists only, whatever was delegated.
LEMMA FanOutType ==
  ASSUME NEW D \in SUBSET SPECIALISTS
  PROVE  /\ fan_out_to_specialists(D) \subseteq SpecialistNodes
         /\ fan_out_after_fix(D) \subseteq SpecialistNodes
BY DEF fan_out_to_specialists, fan_out_after_fix, SPECIALISTS, NodeOf,
       SpecialistNodes

\* A specialist node belongs to a specialist agent.
LEMMA AgentOfType == \A n \in SpecialistNodes : AgentOf[n] \in SPECIALISTS
BY DEF AgentOf, SpecialistNodes, SPECIALISTS

\* What the graph stamps is a finding of that agent and that pass.
LEMMA StampType ==
  ASSUME NEW r \in ReportedFinding, NEW a \in SPECIALISTS, NEW it \in Nat
  PROVE  Stamp(r, a, it) \in Finding /\ Stamp(r, a, it).iteration = it
BY DEF Stamp, ReportedFinding, Finding

\* The router answers with one of the three nodes of its path map, and why.
LEMMA RouteFacts ==
  ASSUME NEW fs, NEW it \in Nat
  PROVE  /\ route_after_synthesis(fs, it)
              \in {"hitl_approval", "remediation_loop", "finalize"}
         /\ (\E f \in current_findings(fs, it) : IsCritical(f))
              <=> route_after_synthesis(fs, it) = "hitl_approval"
         /\ route_after_synthesis(fs, it) = "remediation_loop" => it < MaxIter
BY DEF route_after_synthesis

\* Both ways of deciding yield a decision.
LEMMA DecisionType ==
  ASSUME NEW F, NEW d \in Decision
  PROVE  Reconcile(d, F) \in Decision /\ MechanicalDecision(F) \in Decision
BY DEF Reconcile, MechanicalDecision, Decision

-----------------------------------------------------------------------------
(***************************************************************************)
(* Type correctness.                                                       *)
(***************************************************************************)

\* One specialist task adds well-typed findings and one note to the writes.
LEMMA TaskDoneType ==
  ASSUME TypeOK, NEW n \in SpecialistNodes, NEW o \in Outcome,
         NEW reported \in SUBSET ReportedFinding, TaskDone(n, o, reported)
  PROVE  /\ writes' \in [done : SUBSET SpecialistNodes,
                         findings : SUBSET Finding, notes : SUBSET Note]
         /\ writes'.done = writes.done \cup {n}
         /\ \A f \in writes'.findings :
              f \in writes.findings \/ f.iteration = iteration
<1>1. AgentOf[n] \in SPECIALISTS
  BY AgentOfType
<1>2. \A r \in reported : /\ Stamp(r, AgentOf[n], iteration) \in Finding
                          /\ Stamp(r, AgentOf[n], iteration).iteration = iteration
  BY <1>1, StampType DEF TypeOK
<1>3. [agent |-> AgentOf[n], iteration |-> iteration, outcome |-> o] \in Note
  BY <1>1 DEF TypeOK, Note
<1>4. QED
  BY <1>2, <1>3 DEF TaskDone, TypeOK

\* A specialist's step runs one scheduled task and leaves its update.
LEMMA SpecialistStep ==
  ASSUME TypeOK, Specialist
  PROVE  \E n \in SpecialistNodes, o \in Outcome,
            reported \in SUBSET ReportedFinding :
           n \in frontier /\ TaskDone(n, o, reported) /\ answered' \in BOOLEAN
<1>1. PICK n \in SpecialistNodes :
        specialist_skipped(n) \/ specialist_reports(n) \/ specialist_degraded(n)
  BY DEF Specialist
<1>2. n \in frontier
  BY <1>1 DEF specialist_skipped, specialist_reports, specialist_degraded,
              Running, Scheduled
<1>3. CASE specialist_reports(n)
  BY <1>2, <1>3, AgentOfType, ReportsAssumption DEF specialist_reports, Outcome
<1>4. CASE specialist_skipped(n) \/ specialist_degraded(n)
  BY <1>2, <1>4 DEF specialist_skipped, specialist_degraded, Outcome, TypeOK
<1>5. QED
  BY <1>1, <1>3, <1>4

\* A synthesis, reasoned or degraded, issues one decision.  It approves over
\* findings without a critical only if the floor holds for all of them.
LEMMA SynthesisStep ==
  ASSUME TypeOK, synthesizer \/ synthesizer_degraded
  PROVE  /\ Scheduled("synthesizer") /\ answered' \in BOOLEAN
         /\ \E d \in Decision :
              /\ Synthesized(d)
              /\ LET F == current_findings(findings, iteration)
                 IN  d = "APPROVE" /\ ~(\E f \in F : IsCritical(f)) => Floor(F)
<1> DEFINE F == current_findings(findings, iteration)
<1>1. CASE synthesizer
  <2>1. PICK K \in Kept(F), decision \in Decision :
          Synthesized(Reconcile(decision, K))
    BY <1>1 DEF synthesizer
  <2>2. Reconcile(decision, K) = "APPROVE" /\ ~(\E f \in F : IsCritical(f))
          => Floor(F)
    <3>1. SUFFICES ASSUME Reconcile(decision, K) = "APPROVE",
                          ~(\E f \in F : IsCritical(f)),
                          NEW f \in F, is_blocking(f)
                   PROVE  ~IsCritical(f) /\ Masked(f, F)
      BY DEF Floor
    <3>2. \A k \in K : ~is_blocking(k)
      BY <3>1 DEF Reconcile
    <3>3. PICK k \in K : k.id = f.id
      BY DEF Kept
    <3>4. QED
      BY <3>1, <3>2, <3>3 DEF Kept, Masked
  <2>3. QED
    BY <1>1, <2>1, <2>2, DecisionType DEF synthesizer
<1>2. CASE synthesizer_degraded
  <2>1. MechanicalDecision(F) = "APPROVE" => Floor(F)
    BY DEF MechanicalDecision, Floor
  <2>2. MechanicalDecision(F) \in Decision
    BY DEF MechanicalDecision, Decision
  <2>3. QED
    BY <1>2, <2>1, <2>2 DEF synthesizer_degraded, TypeOK
<1>3. QED
  BY <1>1, <1>2

\* An exception fails the review at one of three nodes and changes no channel.
LEMMA RaiseStep ==
  ASSUME node_raises
  PROVE  /\ Fail /\ UNCHANGED <<pr, channels, answered>>
         /\ \E n \in {"coordinator", "apply_fix", "persist_report"} :
              Scheduled(n) /\ (n = "coordinator" => ~workdirExists)
BY DEF node_raises, coordinator_raises, apply_fix_raises, persist_report_raises, Raises

\* Every step keeps the type invariant.
LEMMA TypeStep == TypeOK /\ [Next]_vars => TypeOK'
<1> SUFFICES ASSUME TypeOK, [Next]_vars
             PROVE  TypeOK'
  OBVIOUS
<1> USE RecursionLimitAssumption DEF TypeOK, pr, channels
<1>1. CASE ingest_pr
  BY <1>1 DEF ingest_pr, Scheduled, Goto, Node
<1>2. CASE guardrail_input
  BY <1>2 DEF guardrail_input, Scheduled, Goto, Node, route_after_guardrail
<1>3. CASE blocked
  BY <1>3 DEF blocked, Scheduled, Goto, Node, Decision
<1>4. CASE coordinator
  <2>1. PICK D \in SUBSET SPECIALISTS : Planned(D)
    BY <1>4 DEF coordinator
  <2>2. QED
    BY <1>4, <2>1, FanOutType DEF coordinator, Planned, Scheduled, Goto, Node
<1>5. CASE coordinator_degraded
  BY <1>5, FanOutType DEF coordinator_degraded, Planned, Scheduled, Goto, Node
<1>6. CASE node_raises
  BY <1>6, RaiseStep DEF Fail
<1>7. CASE Specialist
  <2>1. PICK n \in SpecialistNodes, o \in Outcome,
             reported \in SUBSET ReportedFinding :
          TaskDone(n, o, reported) /\ answered' \in BOOLEAN
    BY <1>7, SpecialistStep
  <2>2. UNCHANGED <<pr, channels, frontier, paused, failed, steps>>
    BY <2>1 DEF TaskDone
  <2>3. writes' \in [done : SUBSET SpecialistNodes,
                     findings : SUBSET Finding, notes : SUBSET Note]
    BY <2>1, TaskDoneType
  <2>4. QED
    BY <2>1, <2>2, <2>3
<1>8. CASE fan_in
  <2>1. /\ findings' \subseteq Finding
        /\ scratchpad' \subseteq Note
    BY <1>8 DEF fan_in
  <2>2. writes' \in [done : SUBSET SpecialistNodes,
                     findings : SUBSET Finding, notes : SUBSET Note]
    BY <1>8 DEF fan_in
  <2>3. steps < RecursionLimit
    BY <1>8 DEF fan_in, Scheduled
  <2>4. QED
    BY <1>8, <2>1, <2>2, <2>3 DEF fan_in, Node
<1>9. CASE synthesizer \/ synthesizer_degraded
  <2>1. PICK d \in Decision : Synthesized(d) /\ Scheduled("synthesizer")
                              /\ answered' \in BOOLEAN
    BY <1>9, SynthesisStep
  <2>2. QED
    BY <2>1, RouteFacts DEF Synthesized, Scheduled, Goto, Node
<1>10. CASE remediation_loop
  BY <1>10 DEF remediation_loop, Scheduled, Goto, Node
<1>11. CASE apply_fix
  <2>1. PICK patched \in SUBSET Fixable(findings, iteration) :
          patched_files' = patched_files
            \cup {[id |-> f.id, iteration |-> iteration] : f \in patched}
    BY <1>11 DEF apply_fix
  <2>2. \A f \in patched : f.id \in Fingerprints
    BY <2>1 DEF Fixable, blocking_findings, current_findings, Finding
  <2>3. QED
    BY <1>11, <2>1, <2>2, FanOutType DEF apply_fix, Scheduled, Goto, Node
<1>12. CASE hitl_approval
  BY <1>12 DEF hitl_approval, Scheduled
<1>13. CASE Human
  <2>1. 1 \in 0..RecursionLimit
    BY MaxIterAssumption
  <2>2. QED
    BY <1>13, <2>1 DEF Human, resume_review, Node
<1>14. CASE apply_decision
  BY <1>14 DEF apply_decision, Scheduled, Goto, Node, Decision
<1>15. CASE finalize
  BY <1>15 DEF finalize, Scheduled, Goto, Node
<1>16. CASE persist_report
  BY <1>16 DEF persist_report, Scheduled, Goto, current_findings
<1>17. CASE RecursionLimitReached
  BY <1>17 DEF RecursionLimitReached, Fail
<1>18. CASE UNCHANGED vars
  BY <1>18 DEF vars, runtime
<1>19. QED
  BY <1>1, <1>2, <1>3, <1>4, <1>5, <1>6, <1>7, <1>8, <1>9, <1>10, <1>11,
     <1>12, <1>13, <1>14, <1>15, <1>16, <1>17, <1>18
     DEF Next, System, Ended

\* The state new_state() builds, with nothing run, is well typed.
LEMMA TypeInit == Init => TypeOK
<1> SUFFICES ASSUME Init PROVE TypeOK
  OBVIOUS
<1>1. report \in [decision : Decision \cup {NoVerdict}, findings : SUBSET Finding,
                  hitl : HumanChoice \cup {NoDecision}]
  BY DEF Init, NoReport, NoVerdict, NoDecision
<1>2. writes \in [done : SUBSET SpecialistNodes,
                  findings : SUBSET Finding, notes : SUBSET Note]
  BY DEF Init
<1>3. 0 \in 0..RecursionLimit
  BY RecursionLimitAssumption
<1>4. QED
  BY <1>1, <1>2, <1>3 DEF Init, TypeOK, Node

\* Every channel of the state keeps its type in every run.
THEOREM TypeCorrect == Spec => []TypeOK
BY TypeInit, TypeStep, PTL DEF Spec

-----------------------------------------------------------------------------
(***************************************************************************)
(* The shape of a superstep.                                               *)
(***************************************************************************)

\* A node that is not a specialist is alone in its superstep, and no task of
\* a fan-out is waiting to be merged.
LEMMA AloneInSuperstep ==
  ASSUME FrontierInv, NEW n \in Node \ SpecialistNodes, n \in frontier
  PROVE  /\ frontier = {n}
         /\ writes.done = {} /\ writes.findings = {} /\ writes.notes = {}
BY DEF FrontierInv

\* After a node that ran alone, a superstep has its shape again.
LEMMA GotoShape ==
  ASSUME FrontierInv, NEW n \in Node \ SpecialistNodes, Scheduled(n),
         NEW next, Goto(next),
         \/ next \subseteq SpecialistNodes
         \/ \E m \in Node \ SpecialistNodes : next = {m}
  PROVE  FrontierInv'
<1>1. writes.done = {} /\ writes.findings = {} /\ writes.notes = {} /\ ~paused
  BY AloneInSuperstep DEF Scheduled
<1>2. QED
  BY <1>1 DEF FrontierInv, Goto

\* Every step leaves a superstep that is one node, or specialists, or the end.
LEMMA FrontierStep == TypeOK /\ FrontierInv /\ [Next]_vars => FrontierInv'
<1> SUFFICES ASSUME TypeOK, FrontierInv, [Next]_vars
             PROVE  FrontierInv'
  OBVIOUS
<1>a. {"ingest_pr", "guardrail_input", "blocked", "coordinator",
       "synthesizer", "remediation_loop", "apply_fix", "hitl_approval",
       "apply_decision", "finalize", "persist_report"}
        = Node \ SpecialistNodes
  BY DEF Node, SpecialistNodes
<1>1. CASE ingest_pr
  BY <1>1, <1>a, GotoShape DEF ingest_pr
<1>2. CASE guardrail_input
  BY <1>2, <1>a, GotoShape DEF guardrail_input, route_after_guardrail
<1>3. CASE blocked
  BY <1>3, <1>a, GotoShape DEF blocked
<1>4. CASE coordinator \/ coordinator_degraded
  <2>1. PICK D \in SUBSET SPECIALISTS : Planned(D) /\ Scheduled("coordinator")
    BY <1>4 DEF coordinator, coordinator_degraded
  <2>2. QED
    BY <2>1, <1>a, FanOutType, GotoShape DEF Planned
<1>5. CASE node_raises
  BY <1>5, RaiseStep DEF Fail, channels, FrontierInv
<1>6. CASE Specialist
  <2>1. PICK n \in SpecialistNodes, o \in Outcome,
             reported \in SUBSET ReportedFinding :
          n \in frontier /\ TaskDone(n, o, reported)
    BY <1>6, SpecialistStep
  <2>2. /\ writes'.done = writes.done \cup {n}
        /\ \A f \in writes'.findings :
             f \in writes.findings \/ f.iteration = iteration
    BY <2>1, TaskDoneType
  <2>3. UNCHANGED <<channels, frontier, paused>>
    BY <2>1 DEF TaskDone
  <2>4. QED
    BY <2>1, <2>2, <2>3 DEF FrontierInv, channels
<1>7. CASE fan_in
  <2>1. writes' = [done |-> {}, findings |-> {}, notes |-> {}]
        /\ frontier' = {"synthesizer"} /\ ~paused'
    BY <1>7 DEF fan_in, Scheduled
  <2>2. QED
    BY <2>1, <1>a DEF FrontierInv
<1>8. CASE synthesizer \/ synthesizer_degraded
  <2>1. PICK d \in Decision : Synthesized(d) /\ Scheduled("synthesizer")
    BY <1>8, SynthesisStep
  <2>2. QED
    BY <2>1, <1>a, RouteFacts, GotoShape DEF Synthesized, TypeOK
<1>9. CASE remediation_loop
  BY <1>9, <1>a, GotoShape DEF remediation_loop
<1>10. CASE apply_fix
  <2>1. fan_out_after_fix(delegated_agents) \subseteq SpecialistNodes
    BY FanOutType DEF TypeOK
  <2>2. QED
    BY <1>10, <2>1, <1>a, GotoShape DEF apply_fix
<1>11. CASE hitl_approval
  <2>1. frontier = {"hitl_approval"}
    BY <1>11, <1>a, AloneInSuperstep DEF hitl_approval, Scheduled
  <2>2. QED
    BY <1>11, <2>1 DEF hitl_approval, channels, FrontierInv
<1>12. CASE Human
  <2>1. writes.done = {}
    BY <1>12, <1>a DEF Human, resume_review, FrontierInv
  <2>2. QED
    BY <1>12, <2>1, <1>a DEF Human, resume_review, FrontierInv
<1>13. CASE apply_decision
  BY <1>13, <1>a, GotoShape DEF apply_decision
<1>14. CASE finalize
  BY <1>14, <1>a, GotoShape DEF finalize
<1>15. CASE persist_report
  BY <1>15, <1>a, GotoShape DEF persist_report
<1>16. CASE RecursionLimitReached
  BY <1>16 DEF RecursionLimitReached, Fail, channels, FrontierInv
<1>17. CASE UNCHANGED vars
  BY <1>17 DEF vars, channels, runtime, FrontierInv
<1>18. QED
  BY <1>1, <1>2, <1>3, <1>4, <1>5, <1>6, <1>7, <1>8, <1>9, <1>10, <1>11,
     <1>12, <1>13, <1>14, <1>15, <1>16, <1>17 DEF Next, System, Ended

-----------------------------------------------------------------------------
(***************************************************************************)
(* The superstep budget.                                                   *)
(***************************************************************************)

\* Where each node can stand in an invoke(), before any remediation.
LEMMA PositionFacts ==
  /\ \A n \in SpecialistNodes : Position[n] = 3
  /\ \A n \in Node : Position[n] \in 0..6
BY DEF Position, Node, SpecialistNodes

\* A pass costs four supersteps and no pass is entered at the ceiling.
LEMMA BudgetStep ==
  TypeOK /\ FrontierInv /\ BudgetInv /\ [Next]_vars => BudgetInv'
<1> SUFFICES ASSUME TypeOK, FrontierInv, BudgetInv, [Next]_vars
             PROVE  BudgetInv'
  OBVIOUS
<1> USE DEF BudgetSuffices
<1>a. iteration \in Nat /\ steps \in Nat /\ MaxIter \in Nat
  BY RecursionLimitAssumption, MaxIterAssumption DEF TypeOK
<1>1. CASE ingest_pr
  BY <1>1, <1>a DEF ingest_pr, Scheduled, Goto, BudgetInv, Position, pr
<1>2. CASE guardrail_input
  BY <1>2, <1>a DEF guardrail_input, Scheduled, Goto, BudgetInv, Position, pr,
                    route_after_guardrail
<1>3. CASE blocked
  BY <1>3, <1>a DEF blocked, Scheduled, Goto, BudgetInv, Position, pr
<1>4. CASE coordinator \/ coordinator_degraded
  <2>1. PICK D \in SUBSET SPECIALISTS : Planned(D) /\ Scheduled("coordinator")
    BY <1>4 DEF coordinator, coordinator_degraded
  <2>2. /\ frontier' \subseteq SpecialistNodes
        /\ steps' = steps + 1 /\ UNCHANGED <<iteration, failed, workdirExists>>
    BY <2>1, FanOutType DEF Planned, Goto, pr
  <2>3. steps <= 2 + 4 * iteration
    BY <2>1 DEF BudgetInv, Position, Scheduled
  <2>4. QED
    BY <1>a, <2>2, <2>3, PositionFacts DEF BudgetInv, SpecialistNodes
<1>5. CASE node_raises
  BY <1>5, <1>a, RaiseStep DEF Scheduled, Fail, channels, BudgetInv
<1>6. CASE Specialist
  <2>1. UNCHANGED <<pr, channels, frontier, failed, steps>>
    BY <1>6, SpecialistStep DEF TaskDone
  <2>2. QED
    BY <2>1 DEF pr, channels, BudgetInv
<1>7. CASE fan_in
  <2>1. PICK n \in frontier : n \in SpecialistNodes
    BY <1>7 DEF fan_in
  <2>2. steps <= 3 + 4 * iteration
    BY <2>1, PositionFacts DEF BudgetInv
  <2>3. QED
    BY <1>7, <1>a, <2>2 DEF fan_in, pr, BudgetInv, Position
<1>8. CASE synthesizer \/ synthesizer_degraded
  <2>1. PICK d \in Decision : Synthesized(d) /\ Scheduled("synthesizer")
    BY <1>8, SynthesisStep
  <2>2. steps <= 4 + 4 * iteration
    BY <2>1 DEF BudgetInv, Position, Scheduled
  <2>3. PICK next \in {"hitl_approval", "remediation_loop", "finalize"} :
          /\ frontier' = {next}
          /\ next = "remediation_loop" => iteration < MaxIter
          /\ steps' = steps + 1 /\ UNCHANGED <<iteration, failed, workdirExists>>
    BY <2>1, <1>a, RouteFacts DEF Synthesized, Goto, pr
  <2>4. QED
    BY <1>a, <2>2, <2>3 DEF BudgetInv, Position
<1>9. CASE remediation_loop
  BY <1>9, <1>a DEF remediation_loop, Scheduled, Goto, BudgetInv, Position, pr
<1>10. CASE apply_fix
  <2>1. frontier' \subseteq SpecialistNodes
    BY <1>10, FanOutType DEF apply_fix, Goto, TypeOK
  <2>2. steps <= 6 + 4 * iteration /\ iteration < MaxIter
    BY <1>10 DEF apply_fix, Scheduled, BudgetInv, Position
  <2>3. steps' = steps + 1 /\ iteration' = iteration + 1 /\ ~failed'
    BY <1>10 DEF apply_fix, Goto, Scheduled
  <2>4. QED
    BY <1>a, <2>1, <2>2, <2>3, PositionFacts DEF BudgetInv, SpecialistNodes
<1>11. CASE hitl_approval
  BY <1>11 DEF hitl_approval, pr, channels, BudgetInv
<1>12. CASE Human
  BY <1>12, <1>a DEF Human, resume_review, pr, BudgetInv, Position
<1>13. CASE apply_decision
  BY <1>13, <1>a DEF apply_decision, Scheduled, Goto, BudgetInv, Position, pr
<1>14. CASE finalize
  BY <1>14, <1>a DEF finalize, Scheduled, Goto, BudgetInv, Position, pr
<1>15. CASE persist_report
  BY <1>15 DEF persist_report, Scheduled, Goto, BudgetInv
<1>16. CASE RecursionLimitReached
  <2>1. PICK n \in frontier : Position[n] \in 0..6
    BY <1>16, PositionFacts DEF RecursionLimitReached, TypeOK
  <2>2. RecursionLimit <= 6 + 4 * iteration
    BY <2>1, <1>a, <1>16 DEF BudgetInv, RecursionLimitReached
  <2>3. QED
    BY <1>16, <1>a, <2>2, RecursionLimitAssumption
       DEF RecursionLimitReached, BudgetInv, Fail, pr, channels
<1>17. CASE UNCHANGED vars
  BY <1>17 DEF vars, pr, channels, runtime, BudgetInv
<1>18. QED
  BY <1>1, <1>2, <1>3, <1>4, <1>5, <1>6, <1>7, <1>8, <1>9, <1>10, <1>11,
     <1>12, <1>13, <1>14, <1>15, <1>16, <1>17 DEF Next, System, Ended

-----------------------------------------------------------------------------
(***************************************************************************)
(* What fails a review.                                                    *)
(***************************************************************************)

\* Nothing but the limit and an exception fails a review, and a review that has
\* failed takes no other step.
LEMMA FailureStep ==
  TypeOK /\ FrontierInv /\ FailureInv /\ [Next]_vars => FailureInv'
<1> SUFFICES ASSUME TypeOK, FrontierInv, FailureInv, [Next]_vars
             PROVE  FailureInv'
  OBVIOUS
<1>1. CASE node_raises
  <2>1. PICK n \in {"coordinator", "apply_fix", "persist_report"} :
          Scheduled(n) /\ (n = "coordinator" => ~workdirExists)
    BY <1>1, RaiseStep
  <2>2. frontier = {n}
    BY <2>1, AloneInSuperstep DEF Scheduled, Node, SpecialistNodes
  <2>3. UNCHANGED <<frontier, paused, steps, workdirExists>>
    BY <1>1, RaiseStep DEF Fail, pr
  <2>4. ~paused /\ steps < RecursionLimit
    BY <2>1 DEF Scheduled
  <2>5. QED
    BY <2>1, <2>2, <2>3, <2>4 DEF FailureInv, Broken, Raised
<1>2. CASE RecursionLimitReached
  BY <1>2 DEF RecursionLimitReached, Fail, FailureInv
<1>3. CASE Ended \/ UNCHANGED vars
  BY <1>3 DEF Ended, vars, pr, runtime, FailureInv, Broken, Raised
<1>4. CASE Human
  BY <1>4 DEF Human, resume_review, FailureInv
<1>5. CASE Specialist
  BY <1>5 DEF Specialist, specialist_skipped, specialist_reports,
              specialist_degraded, Running, Scheduled, TaskDone, FailureInv
<1>6. CASE fan_in
  BY <1>6 DEF fan_in, Scheduled, FailureInv
<1>7. CASE hitl_approval
  BY <1>7 DEF hitl_approval, Scheduled, FailureInv
<1>8. CASE \/ ingest_pr \/ guardrail_input \/ blocked
           \/ coordinator \/ coordinator_degraded
           \/ synthesizer \/ synthesizer_degraded
           \/ remediation_loop \/ apply_fix \/ apply_decision
           \/ finalize \/ persist_report
  BY <1>8 DEF ingest_pr, guardrail_input, blocked, coordinator,
              coordinator_degraded, Planned, synthesizer, synthesizer_degraded,
              Synthesized, remediation_loop, apply_fix, apply_decision,
              finalize, persist_report, Scheduled, Goto, FailureInv
<1>9. QED
  BY <1>1, <1>2, <1>3, <1>4, <1>5, <1>6, <1>7, <1>8 DEF Next, System

-----------------------------------------------------------------------------
(***************************************************************************)
(* The verdict.                                                            *)
(***************************************************************************)

\* A step that leaves the verdict's inputs alone and schedules none of the
\* nodes VerdictInv speaks of keeps VerdictInv, before any human decision.
LEMMA VerdictQuiet ==
  ASSUME hitl_decision = NoDecision, report = NoReport,
         UNCHANGED <<hitl_decision, report>>,
         frontier' \cap {"finalize", "persist_report", "hitl_approval",
                         "apply_decision"} = {}
  PROVE  VerdictInv'
BY DEF VerdictInv, Reported

\* Before the hitl, finalize and persist nodes there is no decision or report.
LEMMA Undecided ==
  ASSUME VerdictInv, NEW n \in frontier,
         n \notin {"apply_decision", "finalize", "persist_report"}
  PROVE  hitl_decision = NoDecision /\ report = NoReport
BY DEF VerdictInv, Reported

\* Synthesis, pause, resume and decision hand the verdict on to the report.
LEMMA VerdictStep ==
  TypeOK /\ FrontierInv /\ VerdictInv /\ [Next]_vars => VerdictInv'
<1> SUFFICES ASSUME TypeOK, FrontierInv, VerdictInv, [Next]_vars
             PROVE  VerdictInv'
  OBVIOUS
<1>1. CASE ingest_pr
  BY <1>1, VerdictQuiet, Undecided DEF ingest_pr, Scheduled, Goto
<1>2. CASE guardrail_input
  BY <1>2, VerdictQuiet, Undecided
     DEF guardrail_input, Scheduled, Goto, route_after_guardrail
<1>3. CASE blocked
  <2>1. hitl_decision = NoDecision /\ report = NoReport
    BY <1>3, Undecided DEF blocked, Scheduled
  <2>2. QED
    BY <1>3, <2>1 DEF blocked, Goto, VerdictInv, Reported
<1>4. CASE coordinator \/ coordinator_degraded
  <2>1. PICK D \in SUBSET SPECIALISTS : Planned(D) /\ Scheduled("coordinator")
    BY <1>4 DEF coordinator, coordinator_degraded
  <2>2. frontier' \subseteq SpecialistNodes
    BY <2>1, FanOutType DEF Planned, Goto
  <2>3. QED
    BY <2>1, <2>2, VerdictQuiet, Undecided DEF Planned, Scheduled, SpecialistNodes
<1>5. CASE node_raises
  BY <1>5, RaiseStep DEF Fail, channels, VerdictInv, Reported
<1>6. CASE Specialist
  <2>1. UNCHANGED <<channels, frontier>>
    BY <1>6, SpecialistStep DEF TaskDone
  <2>2. QED
    BY <2>1 DEF channels, VerdictInv, Reported
<1>7. CASE fan_in
  <2>1. PICK n \in frontier : n \in SpecialistNodes
    BY <1>7 DEF fan_in
  <2>2. hitl_decision = NoDecision /\ report = NoReport
    BY <2>1, Undecided DEF SpecialistNodes
  <2>3. QED
    BY <1>7, <2>2, VerdictQuiet DEF fan_in
<1>8. CASE synthesizer \/ synthesizer_degraded
  <2> DEFINE F == current_findings(findings, iteration)
  <2>1. PICK d \in Decision :
          /\ Synthesized(d)
          /\ d = "APPROVE" /\ ~(\E f \in F : IsCritical(f)) => Floor(F)
    BY <1>8, SynthesisStep
  <2>2. hitl_decision = NoDecision /\ report = NoReport
    BY <1>8, SynthesisStep, Undecided DEF Scheduled
  <2>3. PICK next \in {"hitl_approval", "remediation_loop", "finalize"} :
          /\ frontier' = {next}
          /\ (\E f \in F : IsCritical(f)) <=> next = "hitl_approval"
    BY <2>1, RouteFacts DEF Synthesized, Goto, TypeOK
  <2>4. /\ verdict' = d
        /\ UNCHANGED <<findings, iteration, hitl_decision, report>>
    BY <2>1 DEF Synthesized
  <2>5. QED
    BY <2>1, <2>2, <2>3, <2>4 DEF VerdictInv, Reported
<1>9. CASE remediation_loop
  BY <1>9, VerdictQuiet, Undecided DEF remediation_loop, Scheduled, Goto
<1>10. CASE apply_fix
  <2>1. frontier' \subseteq SpecialistNodes
    BY <1>10, FanOutType DEF apply_fix, Goto, TypeOK
  <2>2. QED
    BY <1>10, <2>1, VerdictQuiet, Undecided
       DEF apply_fix, Scheduled, SpecialistNodes
<1>11. CASE hitl_approval
  BY <1>11 DEF hitl_approval, channels, VerdictInv, Reported
<1>12. CASE Human
  <2>1. frontier = {"hitl_approval"}
    BY <1>12 DEF Human, resume_review, FrontierInv
  <2>2. report = NoReport /\ \E f \in current_findings(findings, iteration) : IsCritical(f)
    BY <2>1 DEF VerdictInv, Reported
  <2>3. \A choice \in HumanChoice : choice # NoDecision
    BY DEF HumanChoice, Approvals, NoDecision
  <2>4. QED
    BY <1>12, <2>2, <2>3 DEF Human, resume_review, VerdictInv, Reported
<1>13. CASE apply_decision
  <2>1. frontier = {"apply_decision"}
    BY <1>13, AloneInSuperstep DEF apply_decision, Scheduled, Node, SpecialistNodes
  <2>2. hitl_decision # NoDecision /\ report = NoReport
    BY <2>1 DEF VerdictInv, Reported
  <2>3. QED
    BY <1>13, <2>1, <2>2 DEF apply_decision, Goto, VerdictInv, Reported
<1>14. CASE finalize
  <2>1. report = NoReport
    BY <1>14 DEF finalize, Scheduled, VerdictInv, Reported
  <2>2. QED
    BY <1>14, <2>1 DEF finalize, Scheduled, Goto, VerdictInv, Reported
<1>15. CASE persist_report
  BY <1>15 DEF persist_report, Scheduled, Goto, VerdictInv, Reported
<1>16. CASE RecursionLimitReached
  BY <1>16 DEF RecursionLimitReached, Fail, channels, VerdictInv, Reported
<1>17. CASE UNCHANGED vars
  BY <1>17 DEF vars, channels, runtime, VerdictInv, Reported
<1>18. QED
  BY <1>1, <1>2, <1>3, <1>4, <1>5, <1>6, <1>7, <1>8, <1>9, <1>10, <1>11,
     <1>12, <1>13, <1>14, <1>15, <1>16, <1>17 DEF Next, System, Ended

-----------------------------------------------------------------------------
(***************************************************************************)
(* Patching.                                                               *)
(***************************************************************************)

\* Findings of another pass do not change what a pass found.
LEMMA OtherPass ==
  ASSUME NEW fs, NEW more, NEW it, \A f \in more : f.iteration # it
  PROVE  /\ current_findings(fs \cup more, it) = current_findings(fs, it)
         /\ Fixable(fs \cup more, it) = Fixable(fs, it)
BY DEF current_findings, Fixable, blocking_findings

\* A step that neither scans nor patches keeps PatchInv, as long as it does
\* not enter the remediation loop.
LEMMA PatchQuiet ==
  ASSUME PatchInv, UNCHANGED <<findings, patched_files, iteration>>,
         \/ frontier' \cap {"remediation_loop", "apply_fix"} = {}
         \/ frontier \cap {"remediation_loop", "apply_fix"} # {}
  PROVE  PatchInv'
BY DEF PatchInv, NoCriticalAutoPatched

\* The loop is entered without a critical and patches what was fixable.
LEMMA PatchStep ==
  TypeOK /\ FrontierInv /\ PatchInv /\ [Next]_vars => PatchInv'
<1> SUFFICES ASSUME TypeOK, FrontierInv, PatchInv, [Next]_vars
             PROVE  PatchInv'
  OBVIOUS
<1>1. CASE ingest_pr \/ blocked \/ apply_decision \/ finalize \/ persist_report
  BY <1>1, PatchQuiet
     DEF ingest_pr, blocked, apply_decision, finalize, persist_report, Goto
<1>2. CASE guardrail_input
  BY <1>2, PatchQuiet DEF guardrail_input, Goto, route_after_guardrail
<1>3. CASE coordinator \/ coordinator_degraded
  <2>1. PICK D \in SUBSET SPECIALISTS : Planned(D)
    BY <1>3 DEF coordinator, coordinator_degraded
  <2>2. frontier' \subseteq SpecialistNodes
    BY <2>1, FanOutType DEF Planned, Goto
  <2>3. QED
    BY <2>1, <2>2, PatchQuiet DEF Planned, SpecialistNodes
<1>4. CASE node_raises \/ RecursionLimitReached \/ hitl_approval
  BY <1>4, RaiseStep, PatchQuiet
     DEF RecursionLimitReached, hitl_approval, Fail, channels
<1>5. CASE Specialist
  <2>1. UNCHANGED <<channels, frontier>>
    BY <1>5, SpecialistStep DEF TaskDone
  <2>2. QED
    BY <2>1, PatchQuiet DEF channels
<1>6. CASE fan_in
  <2>1. /\ findings' = findings \cup writes.findings
        /\ \A f \in writes.findings : f.iteration = iteration
        /\ UNCHANGED <<patched_files, iteration>>
        /\ frontier' = {"synthesizer"}
    BY <1>6 DEF fan_in, FrontierInv
  <2>2. ASSUME NEW p \in patched_files
        PROVE  /\ p.iteration < iteration
               /\ \E f \in Fixable(findings', p.iteration) : f.id = p.id
               /\ \A f \in current_findings(findings', p.iteration) : ~IsCritical(f)
    <3>1. p.iteration \in Nat /\ iteration \in Nat /\ p.iteration < iteration
      BY DEF PatchInv, NoCriticalAutoPatched, TypeOK
    <3>2. \A f \in writes.findings : f.iteration # p.iteration
      BY <2>1, <3>1
    <3>3. /\ current_findings(findings', p.iteration)
               = current_findings(findings, p.iteration)
          /\ Fixable(findings', p.iteration) = Fixable(findings, p.iteration)
      BY <2>1, <3>2, OtherPass
    <3>4. QED
      BY <3>1, <3>3 DEF PatchInv, NoCriticalAutoPatched
  <2>3. QED
    BY <2>1, <2>2 DEF PatchInv, NoCriticalAutoPatched
<1>7. CASE synthesizer \/ synthesizer_degraded
  <2>1. PICK d \in Decision : Synthesized(d)
    BY <1>7, SynthesisStep
  <2>2. PICK next \in {"hitl_approval", "remediation_loop", "finalize"} :
          /\ frontier' = {next}
          /\ (\E f \in current_findings(findings, iteration) : IsCritical(f))
               <=> next = "hitl_approval"
    BY <2>1, RouteFacts DEF Synthesized, Goto, TypeOK
  <2>3. UNCHANGED <<findings, iteration, patched_files>>
    BY <2>1 DEF Synthesized
  <2>4. QED
    BY <2>2, <2>3 DEF PatchInv, NoCriticalAutoPatched
<1>8. CASE remediation_loop
  BY <1>8, PatchQuiet DEF remediation_loop, Scheduled, Goto
<1>9. CASE apply_fix
  <2>1. PICK patched \in SUBSET Fixable(findings, iteration) :
          patched_files' = patched_files
            \cup {[id |-> f.id, iteration |-> iteration] : f \in patched}
    BY <1>9 DEF apply_fix
  <2>2. /\ iteration' = iteration + 1 /\ findings' = findings
        /\ frontier' \subseteq SpecialistNodes
        /\ iteration \in Nat
        /\ \A f \in current_findings(findings, iteration) : ~IsCritical(f)
    BY <1>9, FanOutType DEF apply_fix, Scheduled, Goto, TypeOK, PatchInv
  <2>3. ASSUME NEW p \in patched_files'
        PROVE  /\ p.iteration < iteration'
               /\ \E f \in Fixable(findings, p.iteration) : f.id = p.id
               /\ \A f \in current_findings(findings, p.iteration) : ~IsCritical(f)
    <3>1. CASE p \in patched_files
      <4>1. p.iteration \in Nat
        BY <3>1 DEF TypeOK
      <4>2. QED
        BY <2>2, <3>1, <4>1 DEF PatchInv, NoCriticalAutoPatched
    <3>2. CASE \E f \in patched : p = [id |-> f.id, iteration |-> iteration]
      BY <2>2, <3>2
    <3>3. QED
      BY <2>1, <3>1, <3>2
  <2>4. QED
    BY <2>2, <2>3 DEF PatchInv, NoCriticalAutoPatched, SpecialistNodes
<1>10. CASE Human
  BY <1>10, PatchQuiet DEF Human, resume_review
<1>11. CASE UNCHANGED vars
  BY <1>11, PatchQuiet DEF vars, channels, runtime
<1>12. QED
  BY <1>1, <1>2, <1>3, <1>4, <1>5, <1>6, <1>7, <1>8, <1>9, <1>10, <1>11
     DEF Next, System, Ended

-----------------------------------------------------------------------------
(***************************************************************************)
(* The report.                                                             *)
(***************************************************************************)

\* Only persist_report writes the report.
LEMMA ReportWriter == [Next]_vars => persist_report \/ UNCHANGED report
<1> SUFFICES ASSUME [Next]_vars, ~persist_report
             PROVE  UNCHANGED report
  OBVIOUS
<1> USE DEF channels
<1>1. CASE ingest_pr \/ guardrail_input \/ blocked \/ remediation_loop
  BY <1>1 DEF ingest_pr, guardrail_input, blocked, remediation_loop
<1>2. CASE coordinator \/ coordinator_degraded \/ node_raises
  BY <1>2, RaiseStep DEF coordinator, coordinator_degraded, Planned
<1>3. CASE Specialist
  BY <1>3 DEF Specialist, specialist_skipped, specialist_reports,
              specialist_degraded, TaskDone
<1>4. CASE synthesizer \/ synthesizer_degraded
  BY <1>4 DEF synthesizer, synthesizer_degraded, Synthesized
<1>5. CASE fan_in \/ apply_fix \/ hitl_approval
  BY <1>5 DEF fan_in, apply_fix, hitl_approval
<1>6. CASE Human \/ apply_decision \/ finalize \/ RecursionLimitReached
  BY <1>6 DEF Human, resume_review, apply_decision, finalize,
              RecursionLimitReached
<1>7. CASE UNCHANGED vars
  BY <1>7 DEF vars
<1>8. QED
  BY <1>1, <1>2, <1>3, <1>4, <1>5, <1>6, <1>7 DEF Next, System, Ended

\* persist_report turns what the nodes know of the verdict into the report.
LEMMA ReportStep ==
  FrontierInv /\ VerdictInv /\ ApprovalFloor /\ HumanDecisionStands /\ [Next]_vars
    => ApprovalFloor' /\ HumanDecisionStands'
<1> SUFFICES ASSUME FrontierInv, VerdictInv, ApprovalFloor,
                    HumanDecisionStands, [Next]_vars
             PROVE  ApprovalFloor' /\ HumanDecisionStands'
  OBVIOUS
<1>1. CASE persist_report
  <2> DEFINE F == current_findings(findings, iteration)
  <2>1. report' = [decision |-> verdict, hitl |-> hitl_decision, findings |-> F]
    BY <1>1 DEF persist_report
  <2>2. /\ verdict = "APPROVE" /\ hitl_decision \notin Approvals => Floor(F)
        /\ hitl_decision # NoDecision =>
             /\ \E f \in F : IsCritical(f)
             /\ verdict = IF hitl_decision \in Approvals
                          THEN "APPROVE" ELSE "BLOCK_MERGE"
    BY <1>1 DEF persist_report, Scheduled, VerdictInv
  <2>3. QED
    BY <2>1, <2>2 DEF ApprovalFloor, HumanDecisionStands
<1>2. CASE UNCHANGED report
  BY <1>2 DEF ApprovalFloor, HumanDecisionStands, Reported
<1>3. QED
  BY <1>1, <1>2, ReportWriter

-----------------------------------------------------------------------------
(***************************************************************************)
(* The theorems.                                                           *)
(***************************************************************************)

\* A new review satisfies the inductive invariant.
LEMMA InvInit == Init => IInv
<1> SUFFICES ASSUME Init PROVE IInv
  OBVIOUS
<1> USE DEF Init
<1>1. TypeOK
  BY TypeInit
<1>2. FrontierInv
  BY DEF FrontierInv, Node, SpecialistNodes
<1>3. BudgetInv
  BY MaxIterAssumption DEF BudgetInv, BudgetSuffices, Position
<1>4. FailureInv
  BY DEF FailureInv
<1>5. VerdictInv
  BY DEF VerdictInv, Reported
<1>6. PatchInv
  BY DEF PatchInv, NoCriticalAutoPatched
<1>7. ApprovalFloor /\ HumanDecisionStands
  BY DEF ApprovalFloor, HumanDecisionStands, Reported
<1>8. QED
  BY <1>1, <1>2, <1>3, <1>4, <1>5, <1>6, <1>7 DEF IInv

\* The inductive invariant holds in every run.
THEOREM Invariance == Spec => []IInv
<1>1. IInv /\ [Next]_vars => IInv'
  BY TypeStep, FrontierStep, BudgetStep, FailureStep, VerdictStep, PatchStep, ReportStep
     DEF IInv
<1>2. QED
  BY <1>1, InvInit, PTL DEF Spec

\* No report approves the merge without a human over a genuine critical
\* finding, nor over a genuine high one that deduplication did not hide.
THEOREM ApprovalFloorHolds == Spec => []ApprovalFloor
<1>1. IInv => ApprovalFloor
  BY DEF IInv
<1>2. QED
  BY <1>1, Invariance, PTL

\* The report says what the human decided, and only a genuine critical finding
\* brought the review before a human.
THEOREM HumanDecisionHolds == Spec => []HumanDecisionStands
<1>1. IInv => HumanDecisionStands
  BY DEF IInv
<1>2. QED
  BY <1>1, Invariance, PTL

\* The working copy is only ever patched for blocking, fixable findings of a
\* scan without a critical.
THEOREM PatchingIsJustified == Spec => []NoCriticalAutoPatched
<1>1. IInv => NoCriticalAutoPatched
  BY DEF IInv, PatchInv
<1>2. QED
  BY <1>1, Invariance, PTL

\* The recursion limit aborts only a review whose passes need more supersteps.
THEOREM BudgetHolds == Spec => []BudgetSuffices
<1>1. IInv => BudgetSuffices
  BY DEF IInv, BudgetInv
<1>2. QED
  BY <1>1, Invariance, PTL

\* With a recursion limit of 7 + 4 * MaxIter supersteps, which 60 is for every
\* ceiling up to 13, the limit cuts no review off: one that fails does so at a
\* node that lets an exception out - the coordinator without its working copy,
\* apply_fix at a file it cannot patch, persist_report at a report it cannot
\* write.
THEOREM NeverAborted ==
  ASSUME RecursionLimit >= 7 + 4 * MaxIter
  PROVE  Spec => [](failed => Broken)
<1>1. IInv => (failed => Broken)
  BY MaxIterAssumption, RecursionLimitAssumption
     DEF IInv, TypeOK, BudgetInv, FailureInv, BudgetSuffices
<1>2. QED
  BY <1>1, Invariance, PTL

-----------------------------------------------------------------------------
(***************************************************************************)
(* That no step goes round.                                                *)
(***************************************************************************)

\* Where the edges lead, in distance to the end.
LEMMA DistanceFacts ==
  /\ \A n \in SpecialistNodes : Distance[n] = 6
  /\ Distance["ingest_pr"] = 9 /\ Distance["guardrail_input"] = 8
  /\ Distance["coordinator"] = 7 /\ Distance["synthesizer"] = 5
  /\ Distance["remediation_loop"] = 4 /\ Distance["hitl_approval"] = 4
  /\ Distance["apply_fix"] = 3 /\ Distance["apply_decision"] = 3
  /\ Distance["finalize"] = 2 /\ Distance["blocked"] = 2
  /\ Distance["persist_report"] = 1
BY DEF Distance, SpecialistNodes

\* A node that runs alone brings the review on if its edge leads nearer.
LEMMA AloneNearer ==
  ASSUME FrontierInv, NEW n \in Node \ SpecialistNodes, Scheduled(n),
         NEW next, Goto(next),
         \A m \in next : Distance[m] < Distance[n]
  PROVE  /\ frontier # {} /\ UNCHANGED failed
         /\ \A k \in frontier, m \in frontier' : Distance[m] < Distance[k]
<1>1. frontier = {n}
  BY AloneInSuperstep DEF Scheduled
<1>2. QED
  BY <1>1 DEF Goto

\* Every review only goes forward: what makes it end is that its runtime takes
\* steps, and nothing else.
THEOREM GraphOnlyAdvances == Spec => ReviewAdvances
<1> DEFINE
      Nearer == /\ UNCHANGED <<failed, iteration>>
                /\ frontier # {}
                /\ \A n \in frontier, m \in frontier' : Distance[m] < Distance[n]
      Settles == /\ UNCHANGED <<failed, iteration, frontier>>
                 /\ \/ ~paused /\ paused' /\ UNCHANGED writes
                    \/ /\ UNCHANGED paused
                       /\ \E n \in frontier \ writes.done :
                            writes'.done = writes.done \cup {n}
      Advance == \/ ~failed /\ failed'
                 \/ UNCHANGED failed /\ iteration' \in (iteration + 1)..MaxIter
                 \/ Nearer
                 \/ Settles
<1>1. IInv /\ [Next]_vars => [Advance]_vars
  <2> SUFFICES ASSUME IInv, Next, vars' # vars
               PROVE  Advance
    OBVIOUS
  <2>a. TypeOK /\ FrontierInv /\ BudgetInv
    BY DEF IInv
  <2>b. {"ingest_pr", "guardrail_input", "blocked", "coordinator",
         "synthesizer", "remediation_loop", "apply_fix", "hitl_approval",
         "apply_decision", "finalize", "persist_report"}
          = Node \ SpecialistNodes
    BY DEF Node, SpecialistNodes
  <2>1. CASE ingest_pr
    BY <2>1, <2>a, <2>b, AloneNearer, DistanceFacts DEF ingest_pr
  <2>2. CASE guardrail_input
    <3>1. route_after_guardrail(status') \in {"blocked", "coordinator"}
      BY DEF route_after_guardrail
    <3>2. QED
      BY <2>2, <3>1, <2>a, <2>b, AloneNearer, DistanceFacts DEF guardrail_input
  <2>3. CASE blocked
    BY <2>3, <2>a, <2>b, AloneNearer, DistanceFacts DEF blocked
  <2>4. CASE coordinator \/ coordinator_degraded
    <3>1. PICK D \in SUBSET SPECIALISTS : Planned(D) /\ Scheduled("coordinator")
      BY <2>4 DEF coordinator, coordinator_degraded
    <3>2. \A m \in fan_out_to_specialists(D) : Distance[m] < Distance["coordinator"]
      BY FanOutType, DistanceFacts
    <3>3. QED
      BY <3>1, <3>2, <2>a, <2>b, AloneNearer DEF Planned
  <2>5. CASE node_raises \/ RecursionLimitReached
    BY <2>5, RaiseStep DEF RecursionLimitReached, Scheduled, Fail
  <2>6. CASE Specialist
    <3>1. PICK n \in SpecialistNodes :
            specialist_skipped(n) \/ specialist_reports(n) \/ specialist_degraded(n)
      BY <2>6 DEF Specialist
    <3>2. n \in frontier /\ n \notin writes.done
      BY <3>1 DEF specialist_skipped, specialist_reports, specialist_degraded,
                  Running, Scheduled
    <3>3. /\ writes'.done = writes.done \cup {n}
          /\ UNCHANGED <<iteration, frontier, paused, failed>>
      BY <3>1 DEF specialist_skipped, specialist_reports, specialist_degraded,
                  TaskDone, channels
    <3>4. QED
      BY <3>2, <3>3
  <2>7. CASE fan_in
    <3>1. /\ frontier # {} /\ frontier \subseteq SpecialistNodes
          /\ frontier' = {"synthesizer"} /\ UNCHANGED <<failed, iteration>>
      BY <2>7 DEF fan_in
    <3>2. QED
      BY <3>1, DistanceFacts
  <2>8. CASE synthesizer \/ synthesizer_degraded
    <3>1. PICK d \in Decision : Synthesized(d) /\ Scheduled("synthesizer")
      BY <2>8, <2>a, SynthesisStep
    <3>2. route_after_synthesis(findings, iteration)
            \in {"hitl_approval", "remediation_loop", "finalize"}
      BY DEF route_after_synthesis
    <3>3. QED
      BY <3>1, <3>2, <2>a, <2>b, AloneNearer, DistanceFacts DEF Synthesized
  <2>9. CASE remediation_loop
    BY <2>9, <2>a, <2>b, AloneNearer, DistanceFacts DEF remediation_loop
  <2>10. CASE apply_fix
    <3>1. iteration < MaxIter /\ iteration \in Nat
      BY <2>10, <2>a DEF apply_fix, Scheduled, BudgetInv, TypeOK
    <3>2. iteration' = iteration + 1 /\ UNCHANGED failed
      BY <2>10 DEF apply_fix, Goto
    <3>3. QED
      BY <3>1, <3>2, MaxIterAssumption
  <2>11. CASE hitl_approval
    BY <2>11 DEF hitl_approval, Scheduled, channels
  <2>12. CASE Human
    <3>1. /\ frontier = {"hitl_approval"} /\ frontier' = {"apply_decision"}
          /\ UNCHANGED <<failed, iteration>>
      BY <2>12, <2>a DEF Human, resume_review, FrontierInv
    <3>2. QED
      BY <3>1, DistanceFacts
  <2>13. CASE apply_decision
    BY <2>13, <2>a, <2>b, AloneNearer, DistanceFacts DEF apply_decision
  <2>14. CASE finalize
    BY <2>14, <2>a, <2>b, AloneNearer, DistanceFacts DEF finalize
  <2>15. CASE persist_report
    BY <2>15, <2>a, <2>b, AloneNearer DEF persist_report
  <2>16. QED
    BY <2>1, <2>2, <2>3, <2>4, <2>5, <2>6, <2>7, <2>8, <2>9, <2>10, <2>11,
       <2>12, <2>13, <2>14, <2>15 DEF Next, System, Ended
<1>2. QED
  BY <1>1, Invariance, PTL DEF Spec, ReviewAdvances

=============================================================================
