------------------------ MODULE ReviewOutcomeProofs ------------------------
(***************************************************************************)
(* Proofs relative to the inductive invariant of ReviewGraphProofs: what   *)
(* happens to a refused review, why a review ends, what is scanned after a *)
(* patch, and that a human's decision is final.                            *)
(***************************************************************************)
EXTENDS ReviewGraphProofs

(***************************************************************************)
(* Refusal.                                                                *)
(***************************************************************************)

\* A refused review never stands at a node of the analysis.
LEMMA NotRefused ==
  ASSUME RefusalInv, NEW n \in frontier,
         n \notin {"ingest_pr", "guardrail_input", "blocked", "persist_report"}
  PROVE  ~(hostile /\ GuardrailsEnabled) /\ status # "blocked"
BY DEF RefusalInv

\* The steps of an accepted review do not mark it refused.
LEMMA StaysAccepted ==
  ASSUME ~(hostile /\ GuardrailsEnabled), UNCHANGED pr,
         status' # "blocked", frontier' # {"blocked"}
  PROVE  RefusalInv'
BY DEF RefusalInv, pr

\* Only the guardrail refuses, and what it refuses goes to the report.
LEMMA RefusalStep ==
  TypeOK /\ FrontierInv /\ VerdictInv /\ RefusalInv /\ [Next]_vars => RefusalInv'
<1> SUFFICES ASSUME TypeOK, FrontierInv, VerdictInv, RefusalInv, [Next]_vars
             PROVE  RefusalInv'
  OBVIOUS
<1>1. CASE ingest_pr
  <2>1. report = NoReport
    BY <1>1, Undecided DEF ingest_pr, Scheduled
  <2>2. QED
    BY <1>1, <2>1 DEF ingest_pr, Goto, RefusalInv, Reported, pr
<1>2. CASE guardrail_input
  <2>1. report = NoReport
    BY <1>2, Undecided DEF guardrail_input, Scheduled
  <2>2. QED
    BY <1>2, <2>1 DEF guardrail_input, Goto, route_after_guardrail, RefusalInv,
                      Reported, pr
<1>3. CASE blocked
  <2>1. frontier = {"blocked"} /\ report = NoReport
    BY <1>3, AloneInSuperstep, Undecided
       DEF blocked, Scheduled, Node, SpecialistNodes
  <2>2. QED
    BY <1>3, <2>1 DEF blocked, Goto, RefusalInv, Reported, pr
<1>4. CASE coordinator \/ coordinator_degraded
  <2>1. PICK D \in SUBSET SPECIALISTS : Planned(D) /\ Scheduled("coordinator")
    BY <1>4 DEF coordinator, coordinator_degraded
  <2>2. frontier' \subseteq SpecialistNodes
    BY <2>1, FanOutType DEF Planned, Goto
  <2>3. QED
    BY <2>1, <2>2, NotRefused, StaysAccepted DEF Planned, Scheduled, SpecialistNodes
<1>5. CASE node_raises
  BY <1>5, RaiseStep DEF Fail, pr, channels, RefusalInv, Reported
<1>6. CASE Specialist
  <2>1. UNCHANGED <<pr, channels, frontier>>
    BY <1>6, SpecialistStep DEF TaskDone
  <2>2. QED
    BY <2>1 DEF pr, channels, RefusalInv, Reported
<1>7. CASE fan_in
  <2>1. PICK n \in frontier : n \in SpecialistNodes
    BY <1>7 DEF fan_in
  <2>2. ~(hostile /\ GuardrailsEnabled) /\ status # "blocked"
    BY <2>1, NotRefused DEF SpecialistNodes
  <2>3. QED
    BY <1>7, <2>2, StaysAccepted DEF fan_in
<1>8. CASE synthesizer \/ synthesizer_degraded
  <2>1. PICK d \in Decision : Synthesized(d) /\ Scheduled("synthesizer")
    BY <1>8, SynthesisStep
  <2>2. frontier' # {"blocked"}
    BY <2>1, RouteFacts DEF Synthesized, Goto, TypeOK
  <2>3. QED
    BY <2>1, <2>2, NotRefused, StaysAccepted DEF Synthesized, Scheduled
<1>9. CASE remediation_loop
  BY <1>9, NotRefused, StaysAccepted DEF remediation_loop, Scheduled, Goto
<1>10. CASE apply_fix
  <2>1. frontier' \subseteq SpecialistNodes
    BY <1>10, FanOutType DEF apply_fix, Goto, TypeOK
  <2>2. QED
    BY <1>10, <2>1, NotRefused, StaysAccepted
       DEF apply_fix, Scheduled, SpecialistNodes
<1>11. CASE hitl_approval
  BY <1>11 DEF hitl_approval, pr, channels, RefusalInv, Reported
<1>12. CASE Human
  <2>1. frontier = {"hitl_approval"}
    BY <1>12 DEF Human, resume_review, FrontierInv
  <2>2. QED
    BY <1>12, <2>1, NotRefused, StaysAccepted DEF Human, resume_review
<1>13. CASE apply_decision
  BY <1>13, NotRefused, StaysAccepted DEF apply_decision, Scheduled, Goto
<1>14. CASE finalize
  BY <1>14, NotRefused, StaysAccepted DEF finalize, Scheduled, Goto
<1>15. CASE persist_report
  <2>1. frontier = {"persist_report"}
    BY <1>15, AloneInSuperstep DEF persist_report, Scheduled, Node, SpecialistNodes
  <2>2. QED
    BY <1>15, <2>1 DEF persist_report, Goto, RefusalInv, Reported, pr
<1>16. CASE RecursionLimitReached
  BY <1>16 DEF RecursionLimitReached, Fail, pr, channels, RefusalInv, Reported
<1>17. CASE UNCHANGED vars
  BY <1>17 DEF vars, pr, channels, runtime, RefusalInv, Reported
<1>18. QED
  BY <1>1, <1>2, <1>3, <1>4, <1>5, <1>6, <1>7, <1>8, <1>9, <1>10, <1>11,
     <1>12, <1>13, <1>14, <1>15, <1>16, <1>17 DEF Next, System, Ended

-----------------------------------------------------------------------------
(***************************************************************************)
(* Why a review ends.                                                      *)
(***************************************************************************)

\* The router leaves the loop only for one of the reasons that
\* loop_should_terminate gives, and enters it only to fix something.
LEMMA RouteReasons ==
  ASSUME NEW fs, NEW it \in Nat
  PROVE  /\ route_after_synthesis(fs, it) = "finalize" =>
              loop_should_terminate(fs, it)
         /\ route_after_synthesis(fs, it) = "remediation_loop" =>
              Fixable(fs, it) # {}
BY MaxIterAssumption
   DEF route_after_synthesis, loop_should_terminate, blocking_findings

\* A step to none of the nodes OutcomeInv speaks of keeps it.
LEMMA OutcomeQuiet ==
  ASSUME report = NoReport, UNCHANGED report,
         frontier' \cap {"finalize", "persist_report", "remediation_loop",
                         "apply_fix"} = {}
  PROVE  OutcomeInv'
BY DEF OutcomeInv, Reported

\* Each node on the way to the report hands on what the synthesis established.
LEMMA OutcomeStep ==
  TypeOK /\ FrontierInv /\ VerdictInv /\ RefusalInv /\ OutcomeInv /\ [Next]_vars
    => OutcomeInv'
<1> SUFFICES ASSUME TypeOK, FrontierInv, VerdictInv, RefusalInv, OutcomeInv,
                    [Next]_vars
             PROVE  OutcomeInv'
  OBVIOUS
<1>1. CASE ingest_pr
  BY <1>1, OutcomeQuiet, Undecided DEF ingest_pr, Scheduled, Goto
<1>2. CASE guardrail_input
  BY <1>2, OutcomeQuiet, Undecided
     DEF guardrail_input, Scheduled, Goto, route_after_guardrail
<1>3. CASE blocked
  <2>1. report = NoReport
    BY <1>3, Undecided DEF blocked, Scheduled
  <2>2. QED
    BY <1>3, <2>1 DEF blocked, Goto, OutcomeInv, Reported, Decision
<1>4. CASE coordinator \/ coordinator_degraded
  <2>1. PICK D \in SUBSET SPECIALISTS : Planned(D) /\ Scheduled("coordinator")
    BY <1>4 DEF coordinator, coordinator_degraded
  <2>2. frontier' \subseteq SpecialistNodes
    BY <2>1, FanOutType DEF Planned, Goto
  <2>3. QED
    BY <2>1, <2>2, OutcomeQuiet, Undecided DEF Planned, Scheduled, SpecialistNodes
<1>5. CASE node_raises
  BY <1>5, RaiseStep DEF Fail, channels, OutcomeInv, Reported
<1>6. CASE Specialist
  <2>1. UNCHANGED <<channels, frontier>>
    BY <1>6, SpecialistStep DEF TaskDone
  <2>2. QED
    BY <2>1 DEF channels, OutcomeInv, Reported
<1>7. CASE fan_in
  <2>1. PICK n \in frontier : n \in SpecialistNodes
    BY <1>7 DEF fan_in
  <2>2. report = NoReport
    BY <2>1, Undecided DEF SpecialistNodes
  <2>3. QED
    BY <1>7, <2>2, OutcomeQuiet DEF fan_in
<1>8. CASE synthesizer \/ synthesizer_degraded
  <2>1. PICK d \in Decision : Synthesized(d) /\ Scheduled("synthesizer")
    BY <1>8, SynthesisStep
  <2>2. report = NoReport
    BY <2>1, Undecided DEF Scheduled
  <2>3. PICK next \in {"hitl_approval", "remediation_loop", "finalize"} :
          /\ frontier' = {next}
          /\ next # "hitl_approval" =>
               \A f \in current_findings(findings, iteration) : ~IsCritical(f)
          /\ next = "finalize" => loop_should_terminate(findings, iteration)
          /\ next = "remediation_loop" => Fixable(findings, iteration) # {}
    BY <2>1, RouteFacts, RouteReasons DEF Synthesized, Goto, TypeOK
  <2>4. verdict' = d /\ UNCHANGED <<findings, iteration, report>>
    BY <2>1 DEF Synthesized
  <2>5. QED
    BY <2>2, <2>3, <2>4 DEF OutcomeInv, Reported, loop_should_terminate
<1>9. CASE remediation_loop
  <2>1. report = NoReport
    BY <1>9, Undecided DEF remediation_loop, Scheduled
  <2>2. QED
    BY <1>9, <2>1 DEF remediation_loop, Scheduled, Goto, OutcomeInv, Reported
<1>10. CASE apply_fix
  <2>1. frontier' \subseteq SpecialistNodes
    BY <1>10, FanOutType DEF apply_fix, Goto, TypeOK
  <2>2. QED
    BY <1>10, <2>1, OutcomeQuiet, Undecided
       DEF apply_fix, Scheduled, SpecialistNodes
<1>11. CASE hitl_approval
  BY <1>11 DEF hitl_approval, channels, OutcomeInv, Reported
<1>12. CASE Human
  <2>1. report = NoReport
    BY <1>12, Undecided DEF Human, resume_review, FrontierInv
  <2>2. QED
    BY <1>12, <2>1, OutcomeQuiet DEF Human, resume_review
<1>13. CASE apply_decision
  <2>1. frontier = {"apply_decision"}
    BY <1>13, AloneInSuperstep DEF apply_decision, Scheduled, Node, SpecialistNodes
  <2>2. hitl_decision # NoDecision /\ report = NoReport
    BY <2>1 DEF VerdictInv, Reported
  <2>3. QED
    BY <1>13, <2>2 DEF apply_decision, Goto, OutcomeInv, Reported, Decision
<1>14. CASE finalize
  <2>1. frontier = {"finalize"} /\ report = NoReport
    BY <1>14, AloneInSuperstep
       DEF finalize, Scheduled, Node, SpecialistNodes, VerdictInv, Reported
  <2>2. status # "blocked"
    BY <2>1, NotRefused
  <2>3. QED
    BY <1>14, <2>1, <2>2 DEF finalize, Goto, OutcomeInv, Reported, loop_should_terminate
<1>15. CASE persist_report
  <2>1. frontier = {"persist_report"}
    BY <1>15, AloneInSuperstep DEF persist_report, Scheduled, Node, SpecialistNodes
  <2>2. QED
    BY <1>15, <2>1
       DEF persist_report, Goto, OutcomeInv, Reported, loop_should_terminate
<1>16. CASE RecursionLimitReached
  BY <1>16 DEF RecursionLimitReached, Fail, channels, OutcomeInv, Reported
<1>17. CASE UNCHANGED vars
  BY <1>17 DEF vars, channels, runtime, OutcomeInv, Reported
<1>18. QED
  BY <1>1, <1>2, <1>3, <1>4, <1>5, <1>6, <1>7, <1>8, <1>9, <1>10, <1>11,
     <1>12, <1>13, <1>14, <1>15, <1>16, <1>17 DEF Next, System, Ended

-----------------------------------------------------------------------------
(***************************************************************************)
(* What is scanned after a patch.                                          *)
(***************************************************************************)

\* The fan-out after a fix schedules every agent that has to look again, and
\* its node runs under that agent's name.
LEMMA RescannersScheduled ==
  ASSUME delegated_agents \subseteq SPECIALISTS, NEW a \in Rescanners
  PROVE  /\ a \in SPECIALISTS
         /\ NodeOf[a] \in fan_out_after_fix(delegated_agents)
         /\ NodeOf[a] \in SpecialistNodes
         /\ \A n \in SpecialistNodes : n = NodeOf[a] => AgentOf[n] = a
<1>1. a = "SecurityAgent" \/ (a = "StyleAgent" /\ "StyleAgent" \in delegated_agents)
  BY DEF Rescanners
<1>2. NodeOf["SecurityAgent"] = "security_agent" /\ NodeOf["StyleAgent"] = "style_agent"
  BY DEF NodeOf
<1>3. QED
  BY <1>1, <1>2 DEF SPECIALISTS, fan_out_after_fix, AgentOf, SpecialistNodes

\* On a later pass a specialist that finishes has looked: it is not skipped.
LEMMA LaterTasksLook ==
  ASSUME TypeOK, Specialist, iteration > 0
  PROVE  \E n \in SpecialistNodes :
           /\ writes'.done = writes.done \cup {n}
           /\ writes.notes \subseteq writes'.notes
           /\ RanAgain(writes'.notes, AgentOf[n])
           /\ UNCHANGED <<pr, channels, frontier>>
<1>1. PICK n \in SpecialistNodes :
        specialist_skipped(n) \/ specialist_reports(n) \/ specialist_degraded(n)
  BY DEF Specialist
<1>2. PICK o \in {"judgment", "degraded"} :
        \E reported : TaskDone(n, o, reported)
  BY <1>1 DEF specialist_skipped, specialist_reports, specialist_degraded, Skips,
              TypeOK
<1>3. PICK reported : TaskDone(n, o, reported)
  BY <1>2
<1>4. /\ writes'.done = writes.done \cup {n}
      /\ writes'.notes = writes.notes
           \cup {[agent |-> AgentOf[n], iteration |-> iteration, outcome |-> o]}
      /\ UNCHANGED <<pr, channels, frontier>>
  BY <1>3 DEF TaskDone
<1>5. RanAgain(writes'.notes, AgentOf[n])
  <2> DEFINE m == [agent |-> AgentOf[n], iteration |-> iteration, outcome |-> o]
  <2>1. m \in writes'.notes
    BY <1>4
  <2>2. m.agent = AgentOf[n] /\ m.iteration = iteration /\ m.outcome # "skipped"
    BY <1>2
  <2> HIDE DEF m
  <2>3. QED
    BY <2>1, <2>2 DEF RanAgain
<1>6. QED
  BY <1>1, <1>4, <1>5

\* A step that neither patches nor touches a fan-out keeps the record.
LEMMA RescanQuiet ==
  ASSUME RescanInv, frontier \cap SpecialistNodes = {},
         UNCHANGED <<iteration, delegated_agents, scratchpad>>,
         frontier' \cap (SpecialistNodes \cup
           {"ingest_pr", "guardrail_input", "blocked", "coordinator"}) = {}
  PROVE  RescanInv'
BY DEF RescanInv, Rescanners, RanAgain

\* The agents that have to look again are scheduled by the fix and stay so
\* until each has left its note, which the fan-in puts on record.
LEMMA RescanStep == TypeOK /\ FrontierInv /\ RescanInv /\ [Next]_vars => RescanInv'
<1> SUFFICES ASSUME TypeOK, FrontierInv, RescanInv, [Next]_vars
             PROVE  RescanInv'
  OBVIOUS
<1>a. \A n \in frontier : n \in Node \ SpecialistNodes =>
        frontier \cap SpecialistNodes = {}
  BY AloneInSuperstep
<1>1. CASE ingest_pr \/ guardrail_input \/ blocked \/ coordinator
             \/ coordinator_degraded
  <2>1. iteration = 0 /\ iteration' = iteration
    BY <1>1 DEF ingest_pr, guardrail_input, blocked, coordinator,
                coordinator_degraded, Planned, Scheduled, RescanInv, TypeOK
  <2>2. QED
    BY <2>1 DEF RescanInv
<1>2. CASE node_raises
  BY <1>2, RaiseStep DEF Fail, channels, RescanInv, Rescanners, RanAgain
<1>3. CASE Specialist
  <2>1. CASE iteration > 0
    <3>1. PICK n \in SpecialistNodes :
            /\ writes'.done = writes.done \cup {n}
            /\ writes.notes \subseteq writes'.notes
            /\ RanAgain(writes'.notes, AgentOf[n])
            /\ UNCHANGED <<pr, channels, frontier>>
      BY <1>3, <2>1, LaterTasksLook
    <3>2. Rescanners' = Rescanners /\ iteration' = iteration
      BY <3>1 DEF channels, Rescanners
    <3>3. ASSUME NEW a \in Rescanners, RanAgain(writes.notes, a)
          PROVE  RanAgain(writes.notes, a)'
      BY <3>1, <3>2, <3>3 DEF RanAgain
    <3>4. ASSUME NEW a \in Rescanners, RanAgain(writes'.notes, a)
          PROVE  RanAgain(writes.notes, a)'
      BY <3>2, <3>4 DEF RanAgain
    <3>5. ASSUME NEW a \in Rescanners, NodeOf[a] \in writes'.done,
                 frontier \cap SpecialistNodes # {}
          PROVE  RanAgain(writes.notes, a)'
      <4>1. NodeOf[a] = n => AgentOf[n] = a
        BY RescannersScheduled DEF TypeOK
      <4>2. QED
        BY <2>1, <3>1, <3>3, <3>4, <3>5, <4>1 DEF RescanInv
    <3>6. ASSUME NEW a \in Rescanners
          PROVE  RanAgain(scratchpad, a)' <=> RanAgain(scratchpad, a)
      BY <3>1, <3>2 DEF channels, RanAgain
    <3>7. QED
      BY <2>1, <3>1, <3>2, <3>5, <3>6 DEF RescanInv
  <2>2. CASE ~(iteration > 0)
    BY <1>3, <2>2, SpecialistStep DEF TaskDone, channels, RescanInv
  <2>3. QED
    BY <2>1, <2>2
<1>4. CASE fan_in
  <2>1. Rescanners' = Rescanners /\ iteration' = iteration
    BY <1>4 DEF fan_in, Rescanners
  <2>2. ASSUME NEW a \in Rescanners, iteration > 0
        PROVE  RanAgain(scratchpad, a)'
    <3>1. RanAgain(writes.notes, a)
      BY <1>4, <2>2 DEF fan_in, RescanInv
    <3>2. QED
      BY <1>4, <3>1 DEF fan_in, RanAgain
  <2>3. QED
    BY <1>4, <2>1, <2>2 DEF fan_in, RescanInv, SpecialistNodes
<1>5. CASE synthesizer \/ synthesizer_degraded
  <2>1. PICK d \in Decision : Synthesized(d) /\ Scheduled("synthesizer")
    BY <1>5, SynthesisStep
  <2>2. frontier' \subseteq {"hitl_approval", "remediation_loop", "finalize"}
    BY <2>1, RouteFacts DEF Synthesized, Goto, TypeOK
  <2>3. QED
    BY <1>a, <2>1, <2>2, RescanQuiet DEF Synthesized, Scheduled, Node, SpecialistNodes
<1>6. CASE remediation_loop \/ apply_decision \/ finalize \/ persist_report
  BY <1>a, <1>6, RescanQuiet
     DEF remediation_loop, apply_decision, finalize, persist_report, Scheduled,
         Goto, Node, SpecialistNodes
<1>7. CASE apply_fix
  <2>1. /\ frontier' = fan_out_after_fix(delegated_agents)
        /\ delegated_agents' = delegated_agents
        /\ writes'.done = {}
    BY <1>7, AloneInSuperstep
       DEF apply_fix, Goto, Scheduled, Node, SpecialistNodes
  <2>2. frontier' \subseteq SpecialistNodes
    BY <2>1, FanOutType DEF TypeOK
  <2>3. \A a \in Rescanners :
          NodeOf[a] \in frontier' /\ NodeOf[a] \in SpecialistNodes
    BY <2>1, RescannersScheduled DEF TypeOK
  <2>4. Rescanners' = Rescanners /\ "SecurityAgent" \in Rescanners
    BY <2>1 DEF Rescanners
  <2>5. QED
    BY <2>1, <2>2, <2>3, <2>4 DEF RescanInv, SpecialistNodes
<1>8. CASE hitl_approval
  BY <1>8 DEF hitl_approval, channels, RescanInv, Rescanners, RanAgain
<1>9. CASE Human
  <2>1. frontier = {"hitl_approval"}
    BY <1>9 DEF Human, resume_review, FrontierInv
  <2>2. QED
    BY <1>9, <2>1, RescanQuiet DEF Human, resume_review, SpecialistNodes
<1>10. CASE RecursionLimitReached
  BY <1>10 DEF RecursionLimitReached, Fail, channels, RescanInv, Rescanners,
               RanAgain
<1>11. CASE UNCHANGED vars
  BY <1>11 DEF vars, channels, runtime, RescanInv, Rescanners, RanAgain
<1>12. QED
  BY <1>1, <1>2, <1>3, <1>4, <1>5, <1>6, <1>7, <1>8, <1>9, <1>10, <1>11
     DEF Next, System, Ended

-----------------------------------------------------------------------------
(***************************************************************************)
(* The second invariant, and the properties it is for.                     *)
(***************************************************************************)

\* A review that waits for a human has not failed, and no step takes it there.
LEMMA PauseStep ==
  ~(paused /\ failed) /\ [Next]_vars => ~(paused /\ failed)'
<1> SUFFICES ASSUME ~(paused /\ failed), [Next]_vars
             PROVE  ~(paused /\ failed)'
  OBVIOUS
<1>1. CASE Specialist
  <2>1. UNCHANGED <<paused, failed>>
    BY <1>1 DEF Specialist, specialist_skipped, specialist_reports,
                specialist_degraded, TaskDone
  <2>2. QED
    BY <2>1
<1>2. CASE Next /\ ~Specialist
  BY <1>2, RaiseStep
     DEF Next, System, Human, Ended, ingest_pr, guardrail_input, blocked,
         coordinator, coordinator_degraded, Planned, fan_in,
         synthesizer, synthesizer_degraded, Synthesized, remediation_loop,
         apply_fix, hitl_approval, resume_review, apply_decision, finalize,
         persist_report, RecursionLimitReached, Fail, Goto, Scheduled, vars, runtime
<1>3. CASE UNCHANGED vars
  BY <1>3 DEF vars, runtime
<1>4. QED
  BY <1>1, <1>2, <1>3

\* A review just submitted has been refused nothing and patched nothing.
LEMMA JInit == Init => JInv
BY DEF Init, JInv, RefusalInv, OutcomeInv, RescanInv, Reported

\* Relative to IInv, every step keeps the second invariant.
LEMMA JStep == IInv /\ JInv /\ [Next]_vars => JInv'
BY RefusalStep, OutcomeStep, RescanStep, PauseStep DEF IInv, JInv

\* The second invariant holds in every run: a refused review stays refused,
\* a review ends for a reason, and agents run again after every patch.
THEOREM SecondInvariance == Spec => []JInv
BY Invariance, JInit, JStep, PTL DEF Spec

\* No agent reads the text of a refused pull request and its report blocks.
THEOREM RefusedNeverAnalysed == Spec => []BlockedNeverAnalysed
<1>1. JInv => BlockedNeverAnalysed
  BY DEF JInv, RefusalInv, BlockedNeverAnalysed
<1>2. QED
  BY <1>1, SecondInvariance, PTL

\* A review that ends without a human ends for one of the stated reasons.
THEOREM TerminationHolds == Spec => []TerminationExplained
<1>1. JInv => TerminationExplained
  <2> SUFFICES ASSUME JInv, Reported, status = "reported", report.hitl = NoDecision
               PROVE  loop_should_terminate(findings, iteration)
    BY DEF TerminationExplained
  <2>1. QED
    BY DEF JInv, OutcomeInv
<1>2. QED
  BY <1>1, SecondInvariance, PTL

\* After the last patch the rescanners ran once more before the report, and how
\* each of those runs ended is on record; one that degraded has looked at nothing.
THEOREM RescannedHolds == Spec => []LastPatchRescanned
<1>1. IInv /\ JInv => LastPatchRescanned
  BY DEF IInv, VerdictInv, JInv, RescanInv, LastPatchRescanned
<1>2. QED
  BY <1>1, Invariance, SecondInvariance, PTL

\* After a human's decision nothing is scanned, patched or decided again.
THEOREM DecisionFinal == Spec => DecisionIsFinal
<1> DEFINE Settled == UNCHANGED <<findings, iteration, patched_files, hitl_decision>>
<1>1. IInv /\ [Next]_vars => [hitl_decision # NoDecision => Settled]_vars
  <2> SUFFICES ASSUME IInv, Next, hitl_decision # NoDecision
               PROVE  Settled
    OBVIOUS
  <2>1. /\ frontier \subseteq {"apply_decision", "finalize", "persist_report"}
        /\ ~paused
    BY DEF IInv, VerdictInv, FrontierInv
  <2>2. CASE apply_decision \/ finalize \/ persist_report
    BY <2>2 DEF apply_decision, finalize, persist_report
  <2>3. CASE Specialist \/ RecursionLimitReached \/ Ended \/ node_raises
    BY <2>3, RaiseStep DEF Specialist, specialist_skipped, specialist_reports,
                specialist_degraded, TaskDone, RecursionLimitReached, Ended,
                channels, vars
  <2>4. CASE fan_in
    BY <2>1, <2>4 DEF fan_in, SpecialistNodes
  <2>5. CASE Human
    BY <2>1, <2>5 DEF Human, resume_review
  <2>6. ~(\E n \in {"ingest_pr", "guardrail_input", "blocked", "coordinator",
                    "synthesizer", "remediation_loop", "apply_fix",
                    "hitl_approval"} : Scheduled(n))
    BY <2>1 DEF Scheduled
  <2>7. QED
    BY <2>2, <2>3, <2>4, <2>5, <2>6
       DEF Next, System, ingest_pr, guardrail_input, blocked, coordinator,
           coordinator_degraded, synthesizer, synthesizer_degraded,
           remediation_loop, apply_fix, hitl_approval
<1>2. QED
  BY <1>1, Invariance, PTL DEF Spec, DecisionIsFinal

=============================================================================
